------------------------------ MODULE RtspClient ------------------------------
(***************************************************************************)
(* The player's RTSP client: the loop of RawFramesSource that connects,    *)
(* receives and tries again; RtspClient, which watches every task with a   *)
(* timer and the user's token; and RtspClientInternal, one for each        *)
(* attempt, with the task that connects, the task that keeps the session   *)
(* alive and one task that reads for each socket of the media.             *)
(*                                                                         *)
(* An internal client that was given up may still be running when the next *)
(* one exists: Dispose only closes its sockets, from another thread than   *)
(* its tasks'.  Between two awaits a task runs to the next in one action.  *)
(* Where two tasks that WhenAny waits for have both ended, the model lets  *)
(* either be the one that it returns.                                      *)
(***************************************************************************)
EXTENDS Naturals, FiniteSets

CONSTANTS
  NTracks,  \* tracks of the session
  MaxGen    \* bound on the attempts to connect

ASSUME ClientAssumption ==
  NTracks \in Nat \ {0} /\ MaxGen \in Nat \ {0}

VARIABLES
  udp,       \* RtpTransport: media over UDP, or interleaved in the RTSP connection
  token,     \* the user's token has been cancelled
  loop,      \* where RawFramesSource.ReceiveAsync is, with the calls it awaits
  gen,       \* attempts so far
  cur,       \* _rtspClientInternal, 0 if null
  anyFrame,  \* _anyFrameReceived
  client     \* the internal client of each attempt

vars == <<udp, token, loop, gen, cur, anyFrame, client>>

Gen  == 1..MaxGen
Rtsp == 0  \* the socket of the RTSP connection; a track's two sockets are one number
Chan == ((1..NTracks) \X {"rtp", "rtcp"}) \cup {<<Rtsp, "all">>}
Sock(c) == c[1]
Used == {c \in Chan : udp <=> Sock(c) # Rtsp}  \* by the transport there is

Fresh ==
  [con |-> "none",       \* the task of ConnectAsync: the answer it awaits, or its end
   streams |-> 0,        \* tracks in _streamsMap
   rcv |-> "none",       \* the task of ReceiveAsync
   rx |-> [c \in Chan |-> "none"],  \* the tasks that read
   open |-> {},          \* sockets that are open
   map |-> {},           \* _udpClientsMap
   disposed |-> FALSE,
   bye |-> FALSE,        \* _serverCancellationTokenSource has been cancelled
   up |-> TRUE,          \* the server is there, and the client has not cut itself off
   orphans |-> {}]       \* history: tracks whose set-up went wrong after its answer, or
                         \* ended after Dispose

Init ==
  /\ udp \in BOOLEAN /\ token = FALSE /\ loop = "connect" /\ gen = 0 /\ cur = 0 /\ anyFrame = FALSE
  /\ client = [g \in Gen |-> Fresh]

Pending == {"dial", "options", "describe", "setup", "register", "play"}
Linked(k) == token \/ k.bye
Reached(k) == k.up /\ Rtsp \in k.open

\* RtspClientInternal.Dispose, after which the server can no longer be reached.
Dispose(k) ==
  [k EXCEPT !.disposed = TRUE, !.up = FALSE,
            !.open = IF k.disposed THEN @ ELSE @ \ ({Rtsp} \cup k.map)]

Step(g, k) == client' = [client EXCEPT ![g] = k]
-----------------------------------------------------------------------------
(* The task of RtspClientInternal.ConnectAsync.                            *)

\* SendRequestAsync: a cancelled token is noticed before a request is sent.
Send(k, request) == [k EXCEPT !.con = IF token THEN "canceled" ELSE request]

\* The next track, whose sockets are opened before the request, or PLAY.
SetUpNext(k) ==
  IF k.streams = NTracks THEN Send(k, "play")
  ELSE [Send(k, "setup") EXCEPT !.open = IF udp /\ ~token THEN @ \cup {k.streams + 1} ELSE @]

Answered(g, request) == client[g].con = request /\ Reached(client[g])

Dialed(g) ==
  /\ Answered(g, "dial")
  /\ Step(g, Send(client[g], "options"))
  /\ UNCHANGED <<udp, token, loop, gen, cur, anyFrame>>

OptionsAnswered(g) ==
  /\ Answered(g, "options")
  /\ Step(g, Send(client[g], "describe"))
  /\ UNCHANGED <<udp, token, loop, gen, cur, anyFrame>>

Described(g) ==
  /\ Answered(g, "describe")
  /\ Step(g, SetUpNext(client[g]))
  /\ UNCHANGED <<udp, token, loop, gen, cur, anyFrame>>

\* Over UDP two empty datagrams are sent, and awaited, before the sockets are registered.
SetUpAnswered(g) ==
  /\ Answered(g, "setup")
  /\ Step(g, IF udp THEN [client[g] EXCEPT !.con = "register"]
             ELSE SetUpNext([client[g] EXCEPT !.streams = @ + 1]))
  /\ UNCHANGED <<udp, token, loop, gen, cur, anyFrame>>

\* _udpClientsMap, whose keys are the server's ports, here by the track that has them.
Register(g) ==
  /\ client[g].con = "register"
  /\ LET t == client[g].streams + 1
     IN  Step(g, SetUpNext([client[g] EXCEPT !.streams = t, !.map = @ \cup {t},
                              !.orphans = IF client[g].disposed THEN @ \cup {t} ELSE @]))
  /\ UNCHANGED <<udp, token, loop, gen, cur, anyFrame>>

\* An unusable Transport header, or a socket that fails: outside of the try that closes them.
RegisterFails(g) ==
  /\ client[g].con = "register"
  /\ Step(g, [client[g] EXCEPT !.con = "failed", !.orphans = @ \cup {client[g].streams + 1}])
  /\ UNCHANGED <<udp, token, loop, gen, cur, anyFrame>>

Playing(g) ==
  /\ Answered(g, "play")
  /\ Step(g, [client[g] EXCEPT !.con = "ok"])
  /\ UNCHANGED <<udp, token, loop, gen, cur, anyFrame>>

\* Mutant: SetupTrackAsync does not close the sockets it opened.
GivenUpOpen(k) == [k EXCEPT !.con = "failed"]

\* An exception of an exchange; SetupTrackAsync closes the sockets it opened.
GivenUp(k) ==
  [k EXCEPT !.con = "failed",
            !.open = IF k.con = "setup" THEN @ \ {k.streams + 1} ELSE @]

Awaiting(k) == k.con \in Pending \ {"register"}

\* The connection is lost, or Dispose has closed it.
ConnectionFails(g) ==
  /\ Awaiting(client[g]) /\ ~Reached(client[g])
  /\ Step(g, GivenUp(client[g]))
  /\ UNCHANGED <<udp, token, loop, gen, cur, anyFrame>>

\* The server refuses, or answers what cannot be used.
Refused(g) ==
  /\ Awaiting(client[g]) /\ Reached(client[g])
  /\ Step(g, GivenUp(client[g]))
  /\ UNCHANGED <<udp, token, loop, gen, cur, anyFrame>>
-----------------------------------------------------------------------------
(* The tasks that read: ReceiveOverTcpAsync, ReceiveRtp- and ReceiveRtcpFromUdpAsync. *)

Packet(g, c) ==
  /\ client[g].rx[c] = "reading" /\ Sock(c) \in client[g].open /\ client[g].up
  /\ Step(g, [client[g] EXCEPT !.rx[c] = "handling"])
  /\ UNCHANGED <<udp, token, loop, gen, cur, anyFrame>>

\* Process, which may complete a frame or find a BYE, then the test of the token.  A packet
\* that is not understood, or a report that cannot be sent, ends the task.
Handle(g, c) ==
  /\ client[g].rx[c] = "handling"
  /\ \E frame, bye \in BOOLEAN :
       LET k == [client[g] EXCEPT !.bye = @ \/ bye]
       IN  /\ frame => c[2] \in {"rtp", "all"}
           /\ bye => ~frame /\ c[2] \in {"rtcp", "all"}
           /\ anyFrame' = (anyFrame \/ frame)
           /\ \E s \in {IF Linked(k) THEN "done" ELSE "reading", "failed"} :
                Step(g, [k EXCEPT !.rx[c] = s])
  /\ UNCHANGED <<udp, token, loop, gen, cur>>

\* Dispose has closed the socket, or the connection is lost.
ReadFails(g, c) ==
  /\ client[g].rx[c] = "reading"
  /\ Sock(c) \notin client[g].open \/ (~udp /\ ~client[g].up)
  /\ Step(g, [client[g] EXCEPT !.rx[c] = "failed"])
  /\ UNCHANGED <<udp, token, loop, gen, cur, anyFrame>>

\* Somebody tells the player that nobody listens at the other end.
Unreachable(g, c) ==
  /\ udp /\ client[g].rx[c] = "reading" /\ ~client[g].up
  /\ Step(g, [client[g] EXCEPT !.rx[c] = "failed"])
  /\ UNCHANGED <<udp, token, loop, gen, cur, anyFrame>>
-----------------------------------------------------------------------------
(* The task of RtspClientInternal.ReceiveAsync.                            *)

ReceiveTaskEnded(k) == \A c \in Used : k.rx[c] \in {"done", "failed"}

\* The delay has been cancelled, or the task has ended: it is awaited in either case.
StopsWaiting(g) ==
  /\ client[g].rcv = "watch"
  /\ Linked(client[g]) \/ ReceiveTaskEnded(client[g])
  /\ Step(g, [client[g] EXCEPT !.rcv = "await"])
  /\ UNCHANGED <<udp, token, loop, gen, cur, anyFrame>>

\* The delay was over before anything was cancelled.
KeepAliveDue(g) ==
  /\ client[g].rcv = "watch" /\ ~Linked(client[g])
  /\ Step(g, [client[g] EXCEPT !.rcv = "due"])
  /\ UNCHANGED <<udp, token, loop, gen, cur, anyFrame>>

\* SendRtspKeepAliveAsync: over TCP the answer is not waited for.
SendKeepAlive(g) ==
  /\ client[g].rcv = "due"
  /\ Step(g, [client[g] EXCEPT !.rcv = CASE Linked(client[g]) -> "canceled"
                                         [] ~Linked(client[g]) /\ ~Reached(client[g]) -> "failed"
                                         [] OTHER -> IF udp THEN "ping" ELSE "watch"])
  /\ UNCHANGED <<udp, token, loop, gen, cur, anyFrame>>

KeptAlive(g) ==
  /\ client[g].rcv = "ping" /\ Reached(client[g])
  /\ \E s \in {"watch", "failed"} : Step(g, [client[g] EXCEPT !.rcv = s])
  /\ UNCHANGED <<udp, token, loop, gen, cur, anyFrame>>

\* CloseRtspSessionAsync, if the media ended because something was cancelled.
MediaEnded(g) ==
  /\ client[g].rcv = "await" /\ ReceiveTaskEnded(client[g])
  /\ LET failed == \E c \in Chan : client[g].rx[c] = "failed"
     IN  Step(g, [client[g] EXCEPT !.rcv = IF failed \/ ~Reached(client[g]) THEN "failed"
                                           ELSE IF udp THEN "teardown" ELSE "ok"])
  /\ UNCHANGED <<udp, token, loop, gen, cur, anyFrame>>

TornDown(g) ==
  /\ client[g].rcv = "teardown" /\ Reached(client[g])
  /\ \E s \in {"ok", "failed"} : Step(g, [client[g] EXCEPT !.rcv = s])
  /\ UNCHANGED <<udp, token, loop, gen, cur, anyFrame>>

AnswerNeverComes(g) ==
  /\ client[g].rcv \in {"ping", "teardown"} /\ ~Reached(client[g])
  /\ Step(g, [client[g] EXCEPT !.rcv = "failed"])
  /\ UNCHANGED <<udp, token, loop, gen, cur, anyFrame>>
-----------------------------------------------------------------------------
(* RtspClient and the loop of RawFramesSource.                             *)

Connect ==
  /\ loop = "connect" /\ ~token /\ gen < MaxGen
  /\ gen' = gen + 1 /\ cur' = gen + 1 /\ loop' = "connecting"
  /\ Step(gen + 1, [Fresh EXCEPT !.con = "dial", !.open = {Rtsp}])
  /\ UNCHANGED <<udp, token, anyFrame>>

\* Disposes of the internal client and goes on at l.
Leave(l) ==
  /\ Step(cur, Dispose(client[cur]))
  /\ cur' = 0 /\ loop' = l
  /\ UNCHANGED <<udp, token, gen, anyFrame>>

\* The task has ended: well, by an exception, or by one that says it was cancelled.
Connected ==
  /\ loop = "connecting"
  /\ CASE client[cur].con = "ok" ->
              loop' = "receive" /\ UNCHANGED <<udp, token, gen, cur, anyFrame, client>>
       [] client[cur].con = "failed" -> Leave("wait")
       [] client[cur].con = "canceled" -> Leave("done")
       [] OTHER -> FALSE

\* Mutant: a timeout is reported as a cancellation.
ConnectTimeoutCancels == loop = "connecting" /\ client[cur].con \in Pending /\ Leave("done")

ConnectTimeout == loop = "connecting" /\ client[cur].con \in Pending /\ Leave("wait")

ConnectCanceled == loop = "connecting" /\ token /\ Leave("done")

\* Task.Delay and Task.Run throw when the token is cancelled.
Canceled ==
  /\ loop \in {"connect", "wait"} /\ token
  /\ loop' = "done"
  /\ UNCHANGED <<udp, token, gen, cur, anyFrame, client>>

RetryDelay ==
  /\ loop = "wait"
  /\ loop' = "connect"
  /\ UNCHANGED <<udp, token, gen, cur, anyFrame, client>>

\* RtspClientInternal.ReceiveAsync runs to its first await; whether it watches the time
\* depends on the methods the server listed in its answer to OPTIONS.
Receive ==
  /\ loop = "receive"
  /\ loop' = "receiving" /\ anyFrame' = FALSE
  /\ \E rcv \in {"watch", "await"} : Step(cur, [client[cur] EXCEPT
                  !.rx = [c \in Chan |-> CASE c \notin Used -> "none"
                                           [] c \in Used /\ Linked(client[cur]) -> "done"
                                           [] OTHER -> "reading"],
                  !.rcv = rcv])
  /\ UNCHANGED <<udp, token, gen, cur>>

\* An RtspClientException or a cancellation; the loop would not catch an
\* InvalidOperationException, and nothing modelled here throws one.
ReceiveEnded ==
  /\ loop = "receiving"
  /\ CASE client[cur].rcv = "ok" -> Leave("connect")
       [] client[cur].rcv = "failed" -> Leave("wait")
       [] client[cur].rcv = "canceled" -> Leave("done")
       [] OTHER -> FALSE

\* Mutant: one frame will do for ever.
ReceiveTimeoutOnce ==
  /\ loop = "receiving"
  /\ ~anyFrame /\ Leave("wait")

ReceiveTimeout ==
  /\ loop = "receiving"
  /\ \/ ~anyFrame /\ Leave("wait")
     \/ anyFrame /\ anyFrame' = FALSE /\ UNCHANGED <<udp, token, loop, gen, cur, client>>

ReceiveCanceled ==
  /\ loop = "receiving" /\ token
  /\ loop' = "canceling"
  /\ UNCHANGED <<udp, token, gen, cur, anyFrame, client>>

\* Mutant: the task is waited for without closing its sockets.
CancelTimeoutIdle ==
  /\ loop = "canceling"
  /\ loop' = "draining"
  /\ UNCHANGED <<udp, token, gen, cur, anyFrame, client>>

CancelTimeout ==
  /\ loop = "canceling"
  /\ Step(cur, Dispose(client[cur]))
  /\ loop' = "draining"
  /\ UNCHANGED <<udp, token, gen, cur, anyFrame>>

Drained ==
  /\ loop \in {"canceling", "draining"} /\ client[cur].rcv \in {"ok", "failed", "canceled"}
  /\ Leave("done")

Stop ==
  /\ ~token
  /\ token' = TRUE
  /\ UNCHANGED <<udp, loop, gen, cur, anyFrame, client>>

ServerGoes(g) ==
  /\ client[g].up /\ client[g].open # {}
  /\ Step(g, [client[g] EXCEPT !.up = FALSE])
  /\ UNCHANGED <<udp, token, loop, gen, cur, anyFrame>>
-----------------------------------------------------------------------------
Loop ==
  \/ Connect \/ Connected \/ ConnectTimeout \/ ConnectCanceled \/ Canceled \/ RetryDelay
  \/ Receive \/ ReceiveEnded \/ ReceiveTimeout \/ ReceiveCanceled \/ CancelTimeout \/ Drained

\* What a task does without waiting for the server.
Tasks(g) ==
  \/ Register(g) \/ ConnectionFails(g)
  \/ StopsWaiting(g) \/ SendKeepAlive(g) \/ MediaEnded(g) \/ AnswerNeverComes(g)

Reads(g, c) == Handle(g, c) \/ ReadFails(g, c)

\* What the network and the server bring.
Server(g) ==
  \/ Dialed(g) \/ OptionsAnswered(g) \/ Described(g) \/ SetUpAnswered(g) \/ RegisterFails(g)
  \/ Playing(g) \/ Refused(g) \/ KeepAliveDue(g) \/ KeptAlive(g) \/ TornDown(g)
  \/ ServerGoes(g)
  \/ \E c \in Chan : Packet(g, c) \/ Unreachable(g, c)

Next == Loop \/ Stop \/ \E g \in Gen : Tasks(g) \/ Server(g) \/ \E c \in Chan : Reads(g, c)

Spec == Init /\ [][Next]_vars

\* Tasks run, and timers go off.  Nothing is asked of the server, the network and the user,
\* nor of the keep-alive timer, and of tasks that are ready no more than that some one runs.
Fairness ==
  /\ WF_vars(Connect \/ Connected \/ ConnectTimeout \/ ConnectCanceled \/ Canceled
             \/ RetryDelay \/ Receive \/ CancelTimeout \/ Drained)
  /\ WF_vars(ReceiveEnded) /\ WF_vars(ReceiveTimeout) /\ WF_vars(ReceiveCanceled)
  /\ WF_vars(\E g \in Gen : Tasks(g) \/ \E c \in Chan : Reads(g, c))

FairSpec == Spec /\ Fairness
-----------------------------------------------------------------------------
(* Properties. *)

InternalClient ==
  [con : Pending \cup {"none", "ok", "failed", "canceled"}, streams : 0..NTracks,
   disposed : BOOLEAN, bye : BOOLEAN, up : BOOLEAN,
   rcv : {"none", "watch", "due", "ping", "await", "teardown", "ok", "failed", "canceled"},
   rx : [Chan -> {"none", "reading", "handling", "done", "failed"}],
   open : SUBSET (0..NTracks), map : SUBSET (1..NTracks), orphans : SUBSET (1..NTracks)]

TypeOK ==
  /\ udp \in BOOLEAN /\ token \in BOOLEAN /\ anyFrame \in BOOLEAN
  /\ gen \in 0..MaxGen /\ cur \in {0, gen}
  /\ loop \in {"connect", "wait", "done", "connecting", "receive", "receiving", "canceling",
               "draining"}
  /\ (cur = 0) <=> (loop \in {"connect", "wait", "done"})
  /\ client \in [Gen -> InternalClient]

\* The player goes on trying until its user stops it, whatever fails on the way.  One race
\* ends it silently: the server says good-bye while a keep-alive is due, and the exception
\* that the server's token causes is taken for the user's.
EndsOnlyWhenStopped ==
  loop = "done" => token \/ \E g \in Gen : client[g].bye /\ client[g].rcv = "canceled"

\* A client that was given up, for whatever reason and at whatever moment, leaves no socket
\* open once its task of connecting has ended, but for those of a track that could not be
\* registered before Dispose looked for them.
NothingLeaks ==
  \A g \in Gen \ {cur} : client[g].con \notin Pending => client[g].open \subseteq client[g].orphans

\* The user who stops the player need not wait for the server: the loop ends.
StopEnds == token ~> loop = "done"

\* A server that is gone does not keep the player: it notices and tries again.
LossIsNoticed ==
  (loop = "receiving" /\ ~client[cur].up) ~> (loop # "receiving")
=============================================================================
