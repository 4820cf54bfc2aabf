------------------------------ MODULE TcpServer ------------------------------
(***************************************************************************)
(* The life of the TCP connections of one xop::TcpServer (net/TcpServer,   *)
(* Acceptor, TcpConnection): accepted, read and closed by the scheduler's  *)
(* thread, whose select (SelectTaskScheduler::HandleEvent) dispatches a    *)
(* batch of ready channels, and closed by Stop on the thread that runs     *)
(* ScreenLive::StopLive, which destroys the server when Stop returns.      *)
(*                                                                         *)
(* Close runs on the scheduler's thread only; it does not destroy the      *)
(* connection but queues RemoveConnection(sockfd) as a trigger event, or   *)
(* as a timer when the queue is full.  The object dies, and its descriptor *)
(* can be reused, when connections_ and every queued closure have let go   *)
(* of it.  The queue itself is modelled by TaskScheduler.                  *)
(***************************************************************************)
EXTENDS Naturals, Sequences

CONSTANTS
  Conn,      \* the clients that may connect, once each
  Failed,    \* connections made of failed accepts; bounds their number
  Fd,        \* descriptors of accepted sockets
  Invalid,   \* INVALID_SOCKET
  Acceptor,  \* the acceptor's channel
  None,
  Capacity,  \* of the trigger-event queue
  MaxMedia,  \* bound on media events queued by the encoders
  Unsigned   \* is SOCKET unsigned, as on Windows?  connfd > 0 then holds of ~0

ASSUME ServerAssumption ==
  /\ Capacity \in Nat /\ MaxMedia \in Nat /\ Unsigned \in BOOLEAN
  /\ Conn \cap Failed = {} /\ Invalid \notin Fd
  /\ None \notin Conn \cup Failed /\ Acceptor \notin Conn \cup Failed

Object == Conn \cup Failed
Key    == Fd \cup {Invalid}

VARIABLES
  server,      \* Stop's progress: "new", "running", "locked", "unlocked",
               \* "waiting", "stopped"
  todo,        \* connections Stop's loop has yet to Disconnect
  backlog,     \* clients the listening socket holds
  listening,   \* the acceptor's socket is open and its channel registered
  connections, \* connections_
  channels,    \* channels_ of the scheduler, the acceptor's apart
  batch,       \* channels of event_list still to be handled
  queue,       \* trigger events
  timers,      \* sockets of the RemoveConnection timers
  state,       \* of each connection object
  sock,        \* its descriptor
  left,        \* clients that have closed their end
  media,       \* media events queued so far
  late,        \* history: accepted after Stop's loop over connections_
  refused,     \* history: Disconnects whose trigger event was refused
  dangling     \* history: OnAccept of an acceptor destroyed with its server

stopper == <<server, todo, refused>>
clients == <<backlog, left>>
vars == <<server, todo, backlog, listening, connections, channels, batch, queue,
          timers, state, sock, left, media, late, refused, dangling>>

Event == [op : {"close"}, arg : Object] \cup [op : {"remove"}, arg : Key]
         \cup [op : {"media"}, arg : {None}]

Init ==
  /\ server = "new" /\ todo = {} /\ backlog = {} /\ listening = FALSE
  /\ connections = [k \in Key |-> None] /\ channels = [k \in Key |-> None]
  /\ batch = {} /\ queue = <<>> /\ timers = {}
  /\ state = [o \in Object |-> "none"] /\ sock = [o \in Object |-> Invalid]
  /\ left = {} /\ media = 0 /\ late = {} /\ refused = {} /\ dangling = FALSE

Full(q)    == Len(q) >= Capacity

Push(q, e) == IF Full(q) THEN q ELSE Append(q, e)
Alive(o)   == state[o] \in {"open", "closed"}

-----------------------------------------------------------------------------
(* Clients and the encoders. *)

Connect(c) ==
  /\ listening /\ state[c] = "none" /\ c \notin backlog \cup left
  /\ backlog' = backlog \cup {c}
  /\ UNCHANGED <<stopper, listening, connections, channels, batch, queue, timers,
                 state, sock, left, media, late, dangling>>

\* A client that leaves before it is accepted leaves the backlog.
Leave(c) ==
  /\ c \in backlog \/ state[c] = "open"
  /\ c \notin left
  /\ left' = left \cup {c} /\ backlog' = backlog \ {c}
  /\ UNCHANGED <<stopper, listening, connections, channels, batch, queue, timers,
                 state, sock, media, late, dangling>>

\* RtpConnection::SendRtpPacket, on an encoder's thread.
AddMedia ==
  /\ media < MaxMedia /\ ~Full(queue)
  /\ media' = media + 1 /\ queue' = Append(queue, [op |-> "media", arg |-> None])
  /\ UNCHANGED <<stopper, clients, listening, connections, channels, batch, timers,
                 state, sock, late, dangling>>

-----------------------------------------------------------------------------
(* The scheduler's thread. *)

\* select returns; with an invalid socket registered it fails for all of them.
\* Ready are the acceptor, the clients that left, and any that sent something.
Select ==
  /\ batch = {} /\ queue = <<>> /\ channels[Invalid] = None
  /\ \E sent \in SUBSET {o \in Object : \E k \in Key : channels[k] = o} :
       batch' = sent
                \cup {o \in left : \E k \in Key : channels[k] = o}
                \cup {a \in {Acceptor} : listening /\ backlog # {}}
  /\ UNCHANGED <<stopper, clients, listening, connections, channels, queue, timers,
                 state, sock, media, late, dangling>>

\* A connection object made by OnConnect, registered unless its descriptor is
\* registered already, and entered unless it is entered already.
NewConnection(o, f) ==
  /\ sock' = [sock EXCEPT ![o] = f]
  /\ channels' = [channels EXCEPT ![f] = IF @ = None THEN o ELSE @]
  /\ connections' = [connections EXCEPT ![f] = IF @ = None THEN o ELSE @]
  /\ state' = [state EXCEPT ![o] = IF connections[f] = None THEN "open" ELSE "gone"]
  /\ late' = IF server \in {"unlocked", "waiting"} THEN late \cup {o} ELSE late

\* Descriptors not in use; ~TcpConnection gives one back.
FreeFd == Fd \ {sock[o] : o \in {p \in Object : Alive(p)}}

CanAccept == listening /\ backlog # {} /\ FreeFd # {}

\* OnAccept: since select the socket may have been closed, or the client gone.
OnAccept ==
  /\ Acceptor \in batch /\ server # "locked"
  /\ batch' = batch \ {Acceptor}
  /\ \/ /\ server # "stopped" /\ CanAccept
        /\ \E c \in backlog, f \in FreeFd :
             NewConnection(c, f) /\ backlog' = backlog \ {c}
        /\ UNCHANGED dangling
     \/ /\ server # "stopped" /\ ~CanAccept
        /\ LET unused == {o \in Failed : Unsigned /\ state[o] = "none"}
           IN  IF unused # {}
                 THEN \E o \in unused : NewConnection(o, Invalid)
                 ELSE UNCHANGED <<sock, channels, connections, state, late>>
        /\ UNCHANGED <<backlog, dangling>>
     \/ /\ server = "stopped" /\ dangling' = TRUE
        /\ UNCHANGED <<backlog, sock, channels, connections, state, late>>
  /\ UNCHANGED <<stopper, listening, queue, timers, left, media>>

\* Mutants of Close: is_closed_ is not tested; the channel stays registered;
\* a refused RemoveConnection is not tried again.
CloseAgain(o, q) ==
  IF Alive(o)
    THEN /\ state' = [state EXCEPT ![o] = "closed"]
         /\ channels' = [channels EXCEPT ![sock[o]] = None]
         /\ queue' = Push(q, [op |-> "remove", arg |-> sock[o]])
         /\ timers' = IF Full(q) THEN timers \cup {sock[o]} ELSE timers
    ELSE queue' = q /\ UNCHANGED <<state, channels, timers>>

CloseKeepsChannel(o, q) ==
  IF state[o] = "open"
    THEN /\ state' = [state EXCEPT ![o] = "closed"]
         /\ queue' = Push(q, [op |-> "remove", arg |-> sock[o]])
         /\ timers' = IF Full(q) THEN timers \cup {sock[o]} ELSE timers
         /\ UNCHANGED channels
    ELSE queue' = q /\ UNCHANGED <<state, channels, timers>>

CloseNoRetry(o, q) ==
  IF state[o] = "open"
    THEN /\ state' = [state EXCEPT ![o] = "closed"]
         /\ channels' = [channels EXCEPT ![sock[o]] = None]
         /\ queue' = Push(q, [op |-> "remove", arg |-> sock[o]])
         /\ UNCHANGED timers
    ELSE queue' = q /\ UNCHANGED <<state, channels, timers>>

\* TcpConnection::Close with its disconnect callback, q being the queue so far.
Close(o, q) ==
  IF state[o] = "open"
    THEN /\ state' = [state EXCEPT ![o] = "closed"]
         /\ channels' = [channels EXCEPT ![sock[o]] = None]
         /\ queue' = Push(q, [op |-> "remove", arg |-> sock[o]])
         /\ timers' = IF Full(q) THEN timers \cup {sock[o]} ELSE timers
    ELSE queue' = q /\ UNCHANGED <<state, channels, timers>>

\* HandleRead closes on an end of file, an error or a request it rejects.
HandleRead(o) ==
  /\ o \in batch /\ batch' = batch \ {o}
  /\ \/ Close(o, queue)
     \/ o \notin left /\ UNCHANGED <<state, channels, queue, timers>>
  /\ UNCHANGED <<stopper, clients, listening, connections, sock, media, late, dangling>>

Held(o, q) == \E i \in DOMAIN q : q[i] = [op |-> "close", arg |-> o]

\* RemoveConnection(k): the last reference may be a Disconnect still queued.
RemoveConnection(k, q) ==
  /\ server # "locked"
  /\ connections' = [connections EXCEPT ![k] = None]
  /\ state' = [o \in Object |-> IF connections[k] = o /\ ~Held(o, q) THEN "gone" ELSE state[o]]

\* One callback of HandleTriggerEvent.
RunEvent ==
  /\ batch = {} /\ queue # <<>>
  /\ LET e == Head(queue)
         q == Tail(queue)
     IN  \/ /\ e.op = "close" /\ connections[sock[e.arg]] = e.arg
            /\ Close(e.arg, q) /\ UNCHANGED connections
         \/ /\ e.op = "close" /\ connections[sock[e.arg]] # e.arg
            /\ state' = IF Held(e.arg, q) THEN state ELSE [state EXCEPT ![e.arg] = "gone"]
            /\ queue' = q /\ UNCHANGED <<connections, channels, timers>>
         \/ /\ e.op = "remove" /\ RemoveConnection(e.arg, q)
            /\ queue' = q /\ UNCHANGED <<channels, timers>>
         \/ /\ e.op = "media" /\ UNCHANGED connections
            /\ \/ \E o \in left : Close(o, q)   \* the send fails
               \/ queue' = q /\ UNCHANGED <<state, channels, timers>>
  /\ UNCHANGED <<stopper, clients, listening, batch, sock, media, late, dangling>>

\* HandleTimerEvent, when a RemoveConnection timer is due.
RunTimer(k) ==
  /\ batch = {} /\ k \in timers
  /\ RemoveConnection(k, queue)
  /\ timers' = timers \ {k}
  /\ UNCHANGED <<stopper, clients, listening, channels, batch, queue, sock, media,
                 late, dangling>>

-----------------------------------------------------------------------------
(* Start and Stop. *)

Start ==
  /\ server = "new" /\ server' = "running" /\ listening' = TRUE
  /\ UNCHANGED <<todo, refused, clients, connections, channels, batch, queue, timers,
                 state, sock, media, late, dangling>>

StopLock ==
  /\ server = "running" /\ server' = "locked"
  /\ todo' = {o \in Object : \E k \in Key : connections[k] = o}
  /\ UNCHANGED <<refused, clients, listening, connections, channels, batch, queue,
                 timers, state, sock, media, late, dangling>>

\* Mutant: Stop closes the listening socket only.
StopForgets(o) ==
  /\ o \in todo /\ todo' = todo \ {o}
  /\ UNCHANGED <<server, refused, clients, listening, connections, channels, batch,
                 queue, timers, state, sock, media, late, dangling>>

\* Disconnect: a refused trigger event goes unnoticed.
StopDisconnect(o) ==
  /\ o \in todo /\ todo' = todo \ {o}
  /\ queue' = Push(queue, [op |-> "close", arg |-> o])
  /\ refused' = IF Full(queue) THEN refused \cup {o} ELSE refused
  /\ UNCHANGED <<server, clients, listening, connections, channels, batch, timers,
                 state, sock, media, late, dangling>>

StopUnlock ==
  /\ server = "locked" /\ todo = {} /\ server' = "unlocked"
  /\ UNCHANGED <<todo, refused, clients, listening, connections, channels, batch, queue,
                 timers, state, sock, media, late, dangling>>

\* Acceptor::Close
AcceptorClose ==
  /\ server = "unlocked" /\ server' = "waiting"
  /\ listening' = FALSE /\ backlog' = {}
  /\ UNCHANGED <<todo, refused, left, connections, channels, batch, queue, timers,
                 state, sock, media, late, dangling>>

StopReturn ==
  /\ server = "waiting" /\ server' = "stopped"
  /\ \A k \in Key : connections[k] = None
  /\ UNCHANGED <<todo, refused, clients, listening, connections, channels, batch, queue,
                 timers, state, sock, media, late, dangling>>

-----------------------------------------------------------------------------
SchedulerStep == \/ Select \/ OnAccept \/ RunEvent
                 \/ \E o \in Object : HandleRead(o)

StopStep == \/ StopUnlock \/ AcceptorClose \/ StopReturn
            \/ \E o \in Object : StopDisconnect(o)

Next ==
  \/ \E c \in Conn : Connect(c) \/ Leave(c)
  \/ AddMedia \/ SchedulerStep \/ (\E k \in Key : RunTimer(k))
  \/ Start \/ StopLock \/ StopStep

Spec == Init /\ [][Next]_vars

(* The OS schedules both threads, and timers come due; nothing is assumed of *)
(* clients, of the encoders, or that Stop is ever called.                    *)
Fairness == WF_vars(SchedulerStep) /\ WF_vars(StopStep)
            /\ \A k \in Key : SF_vars(RunTimer(k))

LiveSpec == Spec /\ Fairness

-----------------------------------------------------------------------------
(* Properties. *)

TypeOK ==
  /\ server \in {"new", "running", "locked", "unlocked", "waiting", "stopped"}
  /\ todo \in SUBSET Object /\ backlog \in SUBSET Conn /\ listening \in BOOLEAN
  /\ connections \in [Key -> Object \cup {None}]
  /\ channels \in [Key -> Object \cup {None}]
  /\ batch \in SUBSET (Object \cup {Acceptor})
  /\ queue \in Seq(Event) /\ Len(queue) <= Capacity /\ timers \in SUBSET Key
  /\ state \in [Object -> {"none", "open", "closed", "gone"}]
  /\ sock \in [Object -> Key]
  /\ left \in SUBSET Conn /\ media \in 0..MaxMedia
  /\ late \in SUBSET Object /\ refused \in SUBSET Object /\ dangling \in BOOLEAN

\* The scheduler's channels call back a raw TcpConnection*: a registered channel
\* belongs to an open connection, and one waiting in event_list to an object that
\* is not destroyed, though nothing but connections_ keeps it alive.  (A second
\* failed accept can leave a dead one under Invalid, but then select fails and
\* dispatches nothing.)
ChannelsAreLive ==
  /\ \A k \in Fd : channels[k] # None => state[channels[k]] = "open"
  /\ \A o \in batch \cap Object : Alive(o)

\* connections_ and the descriptors agree: every living object has its own
\* descriptor, and every open connection is entered under it, so that Stop finds it.
OpenIsListed ==
  /\ \A o \in Object : state[o] = "open" => connections[sock[o]] = o
  /\ \A o, p \in Object : Alive(o) /\ Alive(p) /\ sock[o] = sock[p] => o = p

Removals(k) == {i \in DOMAIN queue : queue[i] = [op |-> "remove", arg |-> k]}

\* RemoveConnection knows its connection by the descriptor only: one call is
\* pending for each closed connection that is still entered, never two, and none
\* is pending for a descriptor that has gone to another connection.
RemovesItsOwn ==
  \A k \in Key :
    LET closed == connections[k] # None /\ state[connections[k]] = "closed"
    IN  /\ closed <=> k \in timers \/ Removals(k) # {}
        /\ k \in timers => Removals(k) = {}
        /\ \A i, j \in Removals(k) : i = j

\* When Stop has returned, and the server may be destroyed, no connection is left
\* and no queued callback refers to the server, whatever was closed meanwhile.
StoppedIsQuiet ==
  server = "stopped" =>
    /\ \A o \in Object : state[o] # "open"
    /\ timers = {} /\ \A i \in DOMAIN queue : queue[i].op # "remove"

\* Stop returns, unless a connection was accepted behind its loop (a failed
\* accept included) or the queue refused a Disconnect.
StopReturns ==
  (server = "locked") ~> (server = "stopped" \/ late # {} \/ refused # {})

\* A client that leaves does not leak its descriptor, even when the trigger queue
\* is full as it leaves, as long as no failed accept has made select fail.
LeaverIsRemoved ==
  \A c \in Conn : (state[c] = "open" /\ c \in left)
                   ~> (state[c] = "gone" \/ channels[Invalid] # None)
=============================================================================
