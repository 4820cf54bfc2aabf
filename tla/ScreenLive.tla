------------------------------ MODULE ScreenLive ------------------------------
(***************************************************************************)
(* The media server's application: the operations of ScreenLive, which the *)
(* main thread calls one after the other in any order, its two encoders,   *)
(* the event loop with its one scheduler thread, and the pipe's thread,    *)
(* whose exit(1) runs ~ScreenLive and ~EventLoop beside the main thread.   *)
(*                                                                         *)
(* ScreenLive::mutex_ is held while a server is stopped or destroyed, and  *)
(* EventLoop::mutex_ while Quit joins the scheduler's thread; OnAccept     *)
(* wants the second one, with the acceptor's own mutex held.  A connection *)
(* that is to be closed goes in one step: TcpServer has what is between.   *)
(***************************************************************************)
EXTENDS Naturals, Sequences, FiniteSets

CONSTANTS
  Server,    \* RtspServer objects, to be used again
  Client,    \* clients, each of which connects once
  Null,
  MaxOps     \* bound on the operations of the main thread

Encoder == {"video", "audio"}
Gone    == "gone"
Thread  == {"main", "pipe"}

\* The special values differ from the others.
Constants ==
  /\ Server \cap {Null, Gone} = {} /\ Null \notin Thread \cup Encoder \cup {Gone}
  /\ MaxOps \in Nat /\ IsFiniteSet(Client)

ASSUME ScreenAssumption == Constants

VARIABLES
  todo,      \* of each thread: the steps it has still to take
  local,     \* of each thread: the server it makes or stops
  ops,       \* operations of the main thread so far
  mutex,     \* holder of ScreenLive::mutex_
  initialized, capture_started, encoder_started, \* is_..._
  screen_capture,                                \* screen_capture_ is not null
  rtsp_server, rtsp_clients,
  alive,     \* servers whose last shared_ptr is not gone yet
  listening, \* servers whose acceptor is open
  conns,     \* of each server: its connections,
  counted,   \* and clients_ of its session
  closing,   \* clients that left or were told to disconnect
  met,       \* clients that connected
  enc,       \* where each encoder's thread is
  loop,      \* holder of EventLoop::mutex_
  accepting, \* the server in whose OnAccept the scheduler's thread is, or Null
  scheduler, \* "running", "told" to stop or "ended"
  exiting, exited, \* exit(1) was called, and done
  misused,   \* "no", or what was used while it was not there
  cut,       \* history: exit(1) and an operation of the main thread overlapped
  late,      \* history: clients that a Stop overlooked
  setter     \* history: the server for which rtsp_clients was last set, or Null

members == <<initialized, capture_started, encoder_started, screen_capture>>
server  == <<alive, listening, conns, counted, closing, met, late>>
count   == <<rtsp_clients, setter>>
thread  == <<loop, accepting, scheduler>>
exit    == <<exiting, exited, cut>>
screenVars ==
  <<todo, local, ops, mutex, members, rtsp_server, server, count, enc, thread, exit, misused>>

ScreenInit ==
  /\ todo = [t \in Thread |-> <<>>] /\ local = [t \in Thread |-> Null]
  /\ ops = 0 /\ mutex = Null
  /\ initialized = FALSE /\ capture_started = FALSE /\ encoder_started = FALSE
  /\ screen_capture = FALSE /\ rtsp_server = Null /\ rtsp_clients = 0
  /\ alive = {} /\ listening = {} /\ conns = [s \in Server |-> {}] /\ counted = conns
  /\ closing = {} /\ met = {} /\ enc = [e \in Encoder |-> "none"]
  /\ loop = Null /\ accepting = Null /\ scheduler = "running"
  /\ exiting = FALSE /\ exited = FALSE /\ misused = "no"
  /\ cut = FALSE /\ late = {} /\ setter = Null

Running == misused = "no" /\ ~exited

At(t, step) == Running /\ todo[t] # <<>> /\ Head(todo[t]) = step
Go(t, steps) == todo' = [todo EXCEPT ![t] = steps \o Tail(@)]
Return(t) == todo' = [todo EXCEPT ![t] = <<>>]
Crash(what) == misused' = what

-----------------------------------------------------------------------------
(* The operations, as the steps they take. *)

StopServer == <<"disconnect", "close", "wait">>

\* Mutant: the server is destroyed without the mutex.
DestroyUnlocked == <<"drop", "stop encoder", "destroyed">>

DestroySteps == <<"lock", "drop", "unlock", "stop encoder", "destroyed">>
InitSteps == (IF initialized THEN DestroySteps ELSE <<>>)
               \o <<"start capture", "start encoder", "initialized">>
StartSteps == <<"listen", "lock", "publish", "unlock">>
StopSteps == <<"lock", "halt", "unlock">>
ResetSteps == StopSteps \o <<"stop encoder", "start encoder">>

Call ==
  /\ Running /\ todo["main"] = <<>> /\ ops < MaxOps
  /\ \E steps \in {InitSteps, StartSteps, StopSteps, ResetSteps, DestroySteps} :
       todo' = [todo EXCEPT !["main"] = steps]
  /\ ops' = ops + 1 /\ cut' = (cut \/ exiting)
  /\ UNCHANGED <<local, mutex, members, rtsp_server, server, count, enc, thread, exiting, exited,
                 misused>>

\* Mutant: the loop is told to quit before the server is destroyed.
ExitQuitFirst ==
  /\ Running /\ ~exiting /\ exiting' = TRUE
  /\ todo' = [todo EXCEPT !["pipe"] = <<"quit", "join", "exit">> \o DestroySteps]
  /\ cut' = (todo["main"] # <<>>)
  /\ UNCHANGED <<local, ops, mutex, members, rtsp_server, server, count, enc, thread, exited,
                 misused>>

\* exit(1) of RecvFunc: ~ScreenLive, then ~EventLoop.
Exit ==
  /\ Running /\ ~exiting /\ exiting' = TRUE
  /\ todo' = [todo EXCEPT !["pipe"] = DestroySteps \o <<"quit", "join", "exit">>]
  /\ cut' = (todo["main"] # <<>>)
  /\ UNCHANGED <<local, ops, mutex, members, rtsp_server, server, count, enc, thread, exited,
                 misused>>

Lock(t) ==
  /\ At(t, "lock") /\ mutex = Null /\ mutex' = t /\ Go(t, <<>>)
  /\ UNCHANGED <<local, ops, members, rtsp_server, server, count, enc, thread, misused, exit>>

Unlock(t) ==
  /\ At(t, "unlock") /\ mutex' = Null /\ Go(t, <<>>)
  /\ UNCHANGED <<local, ops, members, rtsp_server, server, count, enc, thread, misused, exit>>

-----------------------------------------------------------------------------
(* Servers: made by StartLive, stopped by StopLive or by ~TcpServer. *)

\* No object of this server is left.
Unused(s) == s \notin alive \cup listening /\ conns[s] = {} /\ \A t \in Thread : local[t] # s

\* Start, and AddSession, before which a client would get a 404.
Listen(t) ==
  /\ At(t, "listen") /\ encoder_started /\ loop = Null
  /\ \E s \in Server :
       /\ Unused(s)
       /\ local' = [local EXCEPT ![t] = s]
       /\ alive' = alive \cup {s} /\ listening' = listening \cup {s}
       /\ counted' = [counted EXCEPT ![s] = {}]
       /\ setter' = IF setter = s THEN Gone ELSE setter
  /\ Go(t, <<>>)
  /\ UNCHANGED <<ops, mutex, members, rtsp_server, conns, closing, met, late, rtsp_clients, enc,
                 thread, misused, exit>>

ListenFails(t) ==
  /\ At(t, "listen") /\ Return(t)
  /\ UNCHANGED <<local, ops, mutex, members, rtsp_server, server, count, enc, thread, misused,
                 exit>>

\* The server that was published before is destroyed here, with the mutex held.
Publish(t) ==
  /\ At(t, "publish") /\ rtsp_server' = local[t]
  /\ local' = [local EXCEPT ![t] = rtsp_server]
  /\ alive' = alive \ {rtsp_server}
  /\ Go(t, IF rtsp_server = Null THEN <<>> ELSE StopServer)
  /\ UNCHANGED <<ops, mutex, members, listening, conns, counted, closing, met, late, count, enc,
                 thread, misused, exit>>

\* StopLive
Halt(t) ==
  /\ At(t, "halt") /\ local' = [local EXCEPT ![t] = rtsp_server]
  /\ Go(t, IF rtsp_server = Null THEN <<>> ELSE StopServer \o <<"clear">>)
  /\ UNCHANGED <<ops, mutex, members, rtsp_server, server, count, enc, thread, misused, exit>>

Clear(t) ==
  /\ At(t, "clear") /\ rtsp_server' = Null /\ rtsp_clients' = 0 /\ setter' = Null
  /\ Go(t, <<>>)
  /\ UNCHANGED <<local, ops, mutex, members, server, enc, thread, misused, exit>>

\* Destroy: ~TcpServer stops the server, when no weak_ptr reaches it any more.
Drop(t) ==
  /\ At(t, "drop") /\ local' = [local EXCEPT ![t] = rtsp_server] /\ rtsp_server' = Null
  /\ alive' = alive \ {rtsp_server}
  /\ Go(t, IF rtsp_server = Null THEN <<>> ELSE StopServer)
  /\ UNCHANGED <<ops, mutex, members, listening, conns, counted, closing, met, late, count, enc,
                 thread, misused, exit>>

\* TcpServer::Stop: its loop, Acceptor::Close, and its wait.
Disconnect(t) ==
  /\ At(t, "disconnect") /\ closing' = closing \cup conns[local[t]] /\ Go(t, <<>>)
  /\ UNCHANGED <<local, ops, mutex, members, rtsp_server, alive, listening, conns, counted, met,
                 late, count, enc, thread, misused, exit>>

CloseAcceptor(t) ==
  /\ At(t, "close") /\ accepting # local[t] /\ loop = Null
  /\ listening' = listening \ {local[t]} /\ late' = late \cup (conns[local[t]] \ closing)
  /\ Go(t, <<>>)
  /\ UNCHANGED <<local, ops, mutex, members, rtsp_server, alive, conns, counted, closing, met,
                 count, enc, thread, misused, exit>>

Wait(t) ==
  /\ At(t, "wait") /\ conns[local[t]] = {}
  /\ alive' = alive \ {local[t]} /\ local' = [local EXCEPT ![t] = Null] /\ Go(t, <<>>)
  /\ UNCHANGED <<ops, mutex, members, rtsp_server, listening, conns, counted, closing, met, late,
                 count, enc, thread, misused, exit>>

-----------------------------------------------------------------------------
(* Capture and encoders. *)

\* There may be no monitor, no capture for it, or no sound device.
StartCapture(t) ==
  /\ At(t, "start capture")
  /\ \/ screen_capture' = TRUE /\ capture_started' = TRUE /\ Go(t, <<>>)
     \/ screen_capture' = TRUE /\ Return(t) /\ UNCHANGED capture_started
     \/ Return(t) /\ UNCHANGED <<screen_capture, capture_started>>
  /\ UNCHANGED <<local, ops, mutex, initialized, encoder_started, rtsp_server, server, count, enc,
                 thread, misused, exit>>

\* A std::thread that was not joined must not be overwritten.
StartEncoder(t) ==
  /\ At(t, "start encoder") /\ capture_started
  /\ IF ~screen_capture
       THEN Crash("capture") /\ UNCHANGED <<encoder_started, enc, todo>>
     ELSE IF \E e \in Encoder : enc[e] # "none"
       THEN Crash("thread") /\ UNCHANGED <<encoder_started, enc, todo>>
     ELSE /\ encoder_started' = TRUE /\ enc' = [e \in Encoder |-> "loop"]
          /\ Go(t, <<>>) /\ UNCHANGED misused
  /\ UNCHANGED <<local, ops, mutex, initialized, capture_started, screen_capture, rtsp_server,
                 server, count, thread, exit>>

\* No capture, or a codec could not be opened.
StartEncoderFails(t) ==
  /\ At(t, "start encoder") /\ (capture_started => screen_capture) /\ Return(t)
  /\ UNCHANGED <<local, ops, mutex, members, rtsp_server, server, count, enc, thread, misused,
                 exit>>

Initialized(t) ==
  /\ At(t, "initialized") /\ initialized' = TRUE /\ Go(t, <<>>)
  /\ UNCHANGED <<local, ops, mutex, capture_started, encoder_started, screen_capture, rtsp_server,
                 server, count, enc, thread, misused, exit>>

\* Mutant: the flag is cleared after the threads were joined.
StopEncoderLate(t) ==
  /\ At(t, "stop encoder")
  /\ Go(t, IF encoder_started THEN <<"join video", "join audio">> ELSE <<>>)
  /\ UNCHANGED <<local, ops, mutex, members, rtsp_server, server, count, enc, thread, misused,
                 exit>>

StopEncoder(t) ==
  /\ At(t, "stop encoder") /\ encoder_started' = FALSE
  /\ Go(t, IF encoder_started THEN <<"join video", "join audio">> ELSE <<>>)
  /\ UNCHANGED <<local, ops, mutex, initialized, capture_started, screen_capture, rtsp_server,
                 server, count, enc, thread, misused, exit>>

Join(e) == IF e = "video" THEN "join video" ELSE "join audio"

JoinEncoder(t, e) ==
  /\ At(t, Join(e)) /\ enc[e] \in {"none", "done"}
  /\ enc' = [enc EXCEPT ![e] = "none"] /\ Go(t, <<>>)
  /\ UNCHANGED <<local, ops, mutex, members, rtsp_server, server, count, thread, misused, exit>>

\* StopCapture, and the last statement of Destroy.
Destroyed(t) ==
  /\ At(t, "destroyed") /\ initialized' = FALSE /\ capture_started' = FALSE
  /\ screen_capture' = (screen_capture /\ ~capture_started) /\ Go(t, <<>>)
  /\ UNCHANGED <<local, ops, mutex, encoder_started, rtsp_server, server, count, enc, thread,
                 misused, exit>>

Encode(e) ==
  /\ Running /\ enc[e] = "loop" /\ encoder_started
  /\ IF e = "video" /\ ~screen_capture
       THEN Crash("capture") /\ UNCHANGED enc
       ELSE enc' = [enc EXCEPT ![e] = "frame"] /\ UNCHANGED misused
  /\ UNCHANGED <<todo, local, ops, mutex, members, rtsp_server, server, count, thread, exit>>

\* PushVideo, PushAudio: the test, and PushFrame, with the mutex held.
PushLock(e) ==
  /\ Running /\ enc[e] = "frame" /\ mutex = Null /\ mutex' = e
  /\ enc' = [enc EXCEPT ![e] =
               IF rtsp_server # Null /\ rtsp_clients > 0 THEN "push" ELSE "pushed"]
  /\ UNCHANGED <<todo, local, ops, members, rtsp_server, server, count, thread, misused, exit>>

PushFrame(e) ==
  /\ Running /\ enc[e] = "push"
  /\ IF rtsp_server \in alive
       THEN enc' = [enc EXCEPT ![e] = "pushed"] /\ UNCHANGED misused
       ELSE Crash("server") /\ UNCHANGED enc
  /\ UNCHANGED <<todo, local, ops, mutex, members, rtsp_server, server, count, thread, exit>>

PushUnlock(e) ==
  /\ Running /\ enc[e] = "pushed" /\ mutex' = Null /\ enc' = [enc EXCEPT ![e] = "loop"]
  /\ UNCHANGED <<todo, local, ops, members, rtsp_server, server, count, thread, misused, exit>>

EncoderEnds(e) ==
  /\ Running /\ enc[e] = "loop" /\ ~(encoder_started /\ (e = "video" => capture_started))
  /\ enc' = [enc EXCEPT ![e] = "done"]
  /\ UNCHANGED <<todo, local, ops, mutex, members, rtsp_server, server, count, thread, misused,
                 exit>>

-----------------------------------------------------------------------------
(* The scheduler's thread, the clients, and EventLoop::Quit. *)

EventLoopFree == Running /\ accepting = Null /\ scheduler # "ended"

\* The callback of the session s, which ScreenLive gave it.
Notify(s, clients) ==
  /\ counted' = [counted EXCEPT ![s] = clients] /\ rtsp_clients' = Cardinality(clients)
  /\ setter' = s

\* A batch selected before Stop may still hold the acceptor, hence no test of scheduler.
OnAccept(s) ==
  /\ EventLoopFree /\ s \in listening /\ Client \ met # {} /\ accepting' = s
  /\ UNCHANGED <<todo, local, ops, mutex, members, rtsp_server, server, count, enc, loop,
                 scheduler, misused, exit>>

\* OnConnect asks for GetTaskScheduler, then AddConnection.
GetTaskScheduler ==
  /\ Running /\ accepting # Null /\ loop = Null
  /\ \E c \in Client \ met :
       met' = met \cup {c} /\ conns' = [conns EXCEPT ![accepting] = @ \cup {c}]
  /\ accepting' = Null
  /\ UNCHANGED <<todo, local, ops, mutex, members, rtsp_server, alive, listening, counted, closing,
                 late, count, enc, loop, scheduler, misused, exit>>

Describe(s, c) ==
  /\ EventLoopFree /\ c \in conns[s] \ (counted[s] \cup closing) /\ s \in alive
  /\ Notify(s, counted[s] \cup {c})
  /\ UNCHANGED <<todo, local, ops, mutex, members, rtsp_server, alive, listening, conns, closing,
                 met, late, enc, thread, misused, exit>>

Leave(c) ==
  /\ Running /\ c \in met \ closing /\ closing' = closing \cup {c}
  /\ UNCHANGED <<todo, local, ops, mutex, members, rtsp_server, alive, listening, conns, counted,
                 met, late, count, enc, thread, misused, exit>>

\* Mutant: closing a connection does not reach the session.
CloseSilently(s, c) ==
  /\ EventLoopFree /\ c \in conns[s] \cap closing /\ conns' = [conns EXCEPT ![s] = @ \ {c}]
  /\ IF s \in alive /\ c \in counted[s]
       THEN counted' = [counted EXCEPT ![s] = @ \ {c}] /\ UNCHANGED count
       ELSE UNCHANGED <<counted, count>>
  /\ UNCHANGED <<todo, local, ops, mutex, members, rtsp_server, alive, listening, closing, met,
                 late, enc, thread, misused, exit>>

\* OnClose, which reaches the session only while the server has an owner, and
\* RemoveConnection.
CloseConnection(s, c) ==
  /\ EventLoopFree /\ c \in conns[s] \cap closing /\ conns' = [conns EXCEPT ![s] = @ \ {c}]
  /\ IF s \in alive /\ c \in counted[s]
       THEN Notify(s, counted[s] \ {c})
       ELSE UNCHANGED <<counted, count>>
  /\ UNCHANGED <<todo, local, ops, mutex, members, rtsp_server, alive, listening, closing, met,
                 late, enc, thread, misused, exit>>

\* The loop tests is_shutdown_ between two rounds.
SchedulerEnds ==
  /\ EventLoopFree /\ scheduler = "told" /\ scheduler' = "ended"
  /\ UNCHANGED <<todo, local, ops, mutex, members, rtsp_server, server, count, enc, loop,
                 accepting, misused, exit>>

Quit(t) ==
  /\ At(t, "quit") /\ loop = Null /\ loop' = t /\ scheduler' = "told" /\ Go(t, <<>>)
  /\ UNCHANGED <<local, ops, mutex, members, rtsp_server, server, count, enc, accepting, misused,
                 exit>>

JoinScheduler(t) ==
  /\ At(t, "join") /\ scheduler = "ended" /\ Go(t, <<>>)
  /\ UNCHANGED <<local, ops, mutex, members, rtsp_server, server, count, enc, thread, misused,
                 exit>>

Exited(t) ==
  /\ At(t, "exit") /\ exited' = TRUE /\ loop' = Null /\ Go(t, <<>>)
  /\ UNCHANGED <<local, ops, mutex, members, rtsp_server, server, count, enc, accepting, scheduler,
                 exiting, misused, cut>>

-----------------------------------------------------------------------------
ThreadStep(t) ==
  \/ Lock(t) \/ Unlock(t)
  \/ Listen(t) \/ ListenFails(t) \/ Publish(t) \/ Halt(t) \/ Clear(t) \/ Drop(t)
  \/ Disconnect(t) \/ CloseAcceptor(t) \/ Wait(t)
  \/ StartCapture(t) \/ StartEncoder(t) \/ StartEncoderFails(t) \/ Initialized(t)
  \/ StopEncoder(t) \/ (\E e \in Encoder : JoinEncoder(t, e)) \/ Destroyed(t)
  \/ Quit(t) \/ JoinScheduler(t) \/ Exited(t)

ScreenEncoderStep(e) ==
  Encode(e) \/ PushLock(e) \/ PushFrame(e) \/ PushUnlock(e) \/ EncoderEnds(e)

EventLoopStep ==
  GetTaskScheduler \/ SchedulerEnds \/ \E s \in Server, c \in Client : CloseConnection(s, c)

ScreenNext ==
  \/ Call \/ Exit \/ (\E t \in Thread : ThreadStep(t)) \/ (\E e \in Encoder : ScreenEncoderStep(e))
  \/ EventLoopStep \/ (\E s \in Server : OnAccept(s) \/ \E c \in Client : Describe(s, c))
  \/ \E c \in Client : Leave(c)

ScreenSpec == ScreenInit /\ [][ScreenNext]_screenVars

(* The OS schedules every thread; a waiter gets mutex_, for the encoders     *)
(* sleep between two frames.  Nothing is assumed of clients.                 *)
Fairness ==
  /\ \A t \in Thread : WF_screenVars(ThreadStep(t)) /\ SF_screenVars(Lock(t))
  /\ \A e \in Encoder : WF_screenVars(ScreenEncoderStep(e)) /\ SF_screenVars(PushLock(e))
  /\ WF_screenVars(EventLoopStep)

FairScreenSpec == ScreenSpec /\ Fairness

-----------------------------------------------------------------------------
(* Properties. *)

Step == {"lock", "drop", "unlock", "stop encoder", "destroyed", "disconnect", "close", "wait",
         "start capture", "start encoder", "initialized", "listen", "publish", "halt", "clear",
         "join video", "join audio", "quit", "join", "exit"}

ScreenTypeOK ==
  /\ todo \in [Thread -> Seq(Step)] /\ local \in [Thread -> Server \cup {Null}]
  /\ ops \in 0..MaxOps /\ mutex \in Thread \cup Encoder \cup {Null}
  /\ {initialized, capture_started, encoder_started, screen_capture} \subseteq BOOLEAN
  /\ rtsp_server \in Server \cup {Null} /\ rtsp_clients \in 0..Cardinality(Client)
  /\ alive \subseteq Server /\ listening \subseteq Server
  /\ conns \in [Server -> SUBSET Client] /\ counted \in [Server -> SUBSET Client]
  /\ {closing, met, late} \subseteq SUBSET Client
  /\ enc \in [Encoder -> {"none", "loop", "frame", "push", "pushed", "done"}]
  /\ loop \in Thread \cup {Null} /\ accepting \in Server \cup {Null}
  /\ scheduler \in {"running", "told", "ended"}
  /\ {exiting, exited, cut} \subseteq BOOLEAN /\ setter \in Server \cup {Null, Gone}
  /\ misused \in {"no", "capture", "thread", "server"}

\* Whatever order operations come in, whatever fails in them and wherever exit(1) cuts
\* them short, a frame is never pushed to a server that is gone.  A capture that is gone
\* is used, and a thread overwritten, only if exit(1) cut an operation short, or Init was
\* called again where it had failed and MainWindow had started the encoder all the same.
NoCrash ==
  /\ misused # "server"
  /\ misused = "capture" => cut
  /\ misused = "thread" => cut \/ ~initialized

\* The number of clients that decides whether frames are pushed is the number of
\* clients of the published server's session, unless it was last set for another
\* server: by the one being replaced, or before Destroy, which does not reset it.
CountIsTrue ==
  rtsp_server # Null /\ setter \in {rtsp_server, Null}
    => rtsp_clients = Cardinality(counted[rtsp_server])

\* Every operation returns, the server's mutex held and clients connecting, unless a
\* client was overlooked by a Stop or exit(1) intervened.
OperationsReturn ==
  (todo["main"] # <<>>) ~> (todo["main"] = <<>> \/ misused # "no" \/ exiting \/ late # {})

\* exit(1) ends the program: Quit joins the scheduler's thread with the mutex that
\* OnAccept wants, and no acceptor is left by then, unless the main thread was in an
\* operation or a client was overlooked.
ExitEnds == exiting ~> (exited \/ cut \/ misused # "no" \/ late # {})
=============================================================================
