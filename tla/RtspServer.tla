------------------------------ MODULE RtspServer ------------------------------
(***************************************************************************)
(* The RTSP side of a media server (xop/RtspConnection, RtpConnection,     *)
(* MediaSession, RtspServer): requests that arrive in any order, media     *)
(* sessions that list their clients by descriptor, an encoder that sends   *)
(* to them from its own thread, and the descriptors of it all.             *)
(*                                                                         *)
(* An RtspConnection is kept alive by connections_ and by an encoder       *)
(* inside SendRtpPacket; its RtpConnection by rtp_conn_ and by the list    *)
(* the encoder has collected; a queued media event keeps neither alive.    *)
(* TcpServer models accepting, the full queue and Stop in detail: here the *)
(* trigger queue takes every event, and the server is not stopped.         *)
(***************************************************************************)
EXTENDS Naturals, Sequences

CONSTANTS
  Conn,      \* RTSP connections, and the RtpConnection each may have
  Fd,        \* descriptors, of TCP and of UDP sockets
  Channel,   \* media channels
  Session,   \* media sessions that are registered with the server
  None,
  MaxMedia   \* bound on the frames the encoders push

ASSUME RtspAssumption == None \notin Conn \cup Fd \cup Session /\ MaxMedia \in Nat

VARIABLES
  tcp,        \* of each RtspConnection: "none", "open", "closed", "gone"
  sock,       \* its descriptor
  rtp,        \* its RtpConnection: "none", "alive", "gone"
  session_id, \* session_id_
  setup,      \* channels with is_setup
  play,       \* channels with is_play
  is_closed,  \* is_closed_ of the RtpConnection
  transport,  \* transport_mode_
  rtpfd, rtcpfd, \* descriptors by channel
  rtcp,       \* descriptors of rtcp_channels_
  clients,    \* clients_ of each session
  connections,\* connections_ of the server
  channels,   \* channels_ of the scheduler: whose callback each descriptor has
  owner,      \* the system's view: who opened a descriptor, None when it is closed
  queue,      \* trigger events
  encoder,    \* the encoder in HandleFrame: the list it holds, those left, the one it is at
  media,      \* frames pushed so far
  crashed,    \* a null pointer was used
  foreign,    \* history: connections that closed a descriptor of another one
  unbound,    \* history: connections with a failed UDP setup
  replaced,   \* history: descriptors of RTCP channels a later SETUP replaced
  roamed      \* history: connections that described a second session

objects  == <<tcp, sock, rtp, connections, channels, owner>>
rtpState == <<setup, is_closed, transport, rtpfd, rtcpfd>>
history  == <<unbound, replaced, roamed>>
vars == <<objects, rtpState, play, session_id, rtcp, clients, queue, encoder, media,
          crashed, foreign, history>>

Idle  == [held |-> {}, todo |-> {}, at |-> None, channel |-> None]
Event == [op : {"remove"}, arg : Fd]
         \cup [op : {"media"}, arg : Conn, channel : Channel, wasOpen : BOOLEAN]

Init ==
  /\ tcp = [c \in Conn |-> "none"] /\ sock = [c \in Conn |-> None]
  /\ rtp = [c \in Conn |-> "none"] /\ session_id = [c \in Conn |-> None]
  /\ setup = [c \in Conn |-> {}] /\ play = [c \in Conn |-> {}]
  /\ is_closed = [c \in Conn |-> FALSE] /\ transport = [c \in Conn |-> "none"]
  /\ rtpfd = [c \in Conn |-> [h \in Channel |-> None]] /\ rtcpfd = rtpfd /\ rtcp = rtpfd
  /\ clients = [s \in Session |-> [f \in Fd |-> None]]
  /\ connections = [f \in Fd |-> None] /\ channels = connections /\ owner = connections
  /\ queue = <<>> /\ encoder = Idle /\ media = 0 /\ crashed = FALSE
  /\ foreign = {} /\ unbound = {} /\ replaced = {} /\ roamed = {}

Alive(c)    == tcp[c] \in {"open", "closed"}
SocketsOf(c) == {rtpfd[c][h] : h \in Channel} \cup {rtcpfd[c][h] : h \in Channel}
Free        == {f \in Fd : owner[f] = None}

\* select fails for every channel when one has a descriptor that is closed.
SelectWorks == \A f \in Fd : channels[f] # None => owner[f] # None
Readable(c) == tcp[c] = "open" /\ channels[sock[c]] = c /\ SelectWorks

\* closesocket: the connections c in DOMAIN closing close closing[c].
CloseSockets(closing) ==
  LET closed == UNION {closing[c] : c \in DOMAIN closing}
  IN  /\ owner' = [f \in Fd |-> IF f \in closed THEN None ELSE owner[f]]
      /\ foreign' = foreign \cup {c \in DOMAIN closing :
                       \E f \in closing[c] \cap Fd : owner[f] \notin {c, None}}

-----------------------------------------------------------------------------
(* The scheduler's thread. *)

\* OnAccept and OnConnect: the new object is destroyed again when connections_
\* has an entry for its descriptor.
Accept(c, f) ==
  /\ SelectWorks /\ tcp[c] = "none" /\ f \in Free
  /\ sock' = [sock EXCEPT ![c] = f]
  /\ channels' = [channels EXCEPT ![f] = IF @ = None THEN c ELSE @]
  /\ IF connections[f] = None
       THEN /\ tcp' = [tcp EXCEPT ![c] = "open"]
            /\ connections' = [connections EXCEPT ![f] = c]
            /\ owner' = [owner EXCEPT ![f] = c]
       ELSE tcp' = [tcp EXCEPT ![c] = "gone"] /\ UNCHANGED <<connections, owner>>
  /\ UNCHANGED <<rtp, rtpState, play, session_id, rtcp, clients, queue, encoder, media,
                 crashed, foreign, history>>

\* Mutants of OnClose: the session, or the scheduler, is not told.
OnCloseKeepsClient(c) ==
  /\ UNCHANGED clients
  /\ channels' = [f \in Fd |-> IF f = sock[c] \/ \E h \in Channel : f = rtcp[c][h]
                                 THEN None ELSE channels[f]]

OnCloseKeepsRtcp(c) ==
  /\ clients' = IF session_id[c] = None THEN clients
                  ELSE [clients EXCEPT ![session_id[c]][sock[c]] = None]
  /\ channels' = [channels EXCEPT ![sock[c]] = None]

\* RtspConnection::OnClose: the session forgets the client, the scheduler the RTCP
\* channels; TcpConnection::Close has removed the connection's own.
OnClose(c) ==
  /\ clients' = IF session_id[c] = None THEN clients
                  ELSE [clients EXCEPT ![session_id[c]][sock[c]] = None]
  /\ channels' = [f \in Fd |-> IF f = sock[c] \/ \E h \in Channel : f = rtcp[c][h]
                                 THEN None ELSE channels[f]]

\* Mutants of DisconnectCallback: it calls RemoveConnection at once, or not at all.
DisconnectAtOnce(c, q) == <<[op |-> "remove", arg |-> sock[c]]>> \o q
DisconnectForgets(c, q) == q

\* The disconnect callback queues RemoveConnection after the events in q.
DisconnectCallback(c, q) == Append(q, [op |-> "remove", arg |-> sock[c]])

\* TcpConnection::Close, with q the queue so far.
Close(c, q) ==
  IF tcp[c] = "open"
    THEN /\ tcp' = [tcp EXCEPT ![c] = "closed"] /\ OnClose(c)
         /\ queue' = DisconnectCallback(c, q)
    ELSE queue' = q /\ UNCHANGED <<tcp, channels, clients>>

\* The peer hangs up, or sends what OnRead rejects.
HangUp(c) ==
  /\ Readable(c) /\ Close(c, queue)
  /\ UNCHANGED <<sock, rtp, connections, owner, rtpState, play, session_id, rtcp, encoder,
                 media, crashed, foreign, history>>

\* HandleCmdDescribe; a session not found leaves session_id_ as it was.
HandleCmdDescribe(c) ==
  /\ Readable(c)
  /\ rtp' = [rtp EXCEPT ![c] = IF @ = "none" THEN "alive" ELSE @]
  /\ \/ \E s \in Session :
          /\ session_id' = [session_id EXCEPT ![c] = s]
          /\ clients' = [clients EXCEPT ![s][sock[c]] = IF @ = None THEN c ELSE @]
          /\ roamed' = IF session_id[c] \in {None, s} THEN roamed ELSE roamed \cup {c}
     \/ UNCHANGED <<session_id, clients, roamed>>
  /\ UNCHANGED <<tcp, sock, connections, channels, owner, rtpState, play, rtcp, queue, encoder,
                 media, crashed, foreign, unbound, replaced>>

\* HandleCmdSetup looks its session up first: without one, and for multicast, it
\* only replies.
CanSetup(c) == Readable(c) /\ session_id[c] # None

OverUdp(c, h) == rtcp[c][h] # None

SetupRtpOverTcp(c, h) ==
  /\ CanSetup(c)
  /\ rtpfd' = [rtpfd EXCEPT ![c][h] = sock[c]] /\ rtcpfd' = [rtcpfd EXCEPT ![c][h] = sock[c]]
  /\ setup' = [setup EXCEPT ![c] = @ \cup {h}] /\ transport' = [transport EXCEPT ![c] = "tcp"]
  /\ UNCHANGED <<objects, is_closed, play, session_id, rtcp, clients, queue, encoder, media,
                 crashed, foreign, unbound, replaced, roamed>>

\* Two sockets are opened and bound, and the second gets an RTCP channel.
SetupRtpOverUdp(c, h, f, g) ==
  /\ CanSetup(c) /\ f \in Free /\ g \in Free \ {f}
  /\ owner' = [owner EXCEPT ![f] = c, ![g] = c]
  /\ rtpfd' = [rtpfd EXCEPT ![c][h] = f] /\ rtcpfd' = [rtcpfd EXCEPT ![c][h] = g]
  /\ rtcp' = [rtcp EXCEPT ![c][h] = g]
  /\ channels' = [channels EXCEPT ![g] = IF @ = None THEN c ELSE @]
  /\ setup' = [setup EXCEPT ![c] = @ \cup {h}] /\ transport' = [transport EXCEPT ![c] = "udp"]
  /\ replaced' = IF OverUdp(c, h) THEN replaced \cup {rtcp[c][h]} ELSE replaced
  /\ UNCHANGED <<tcp, sock, rtp, connections, is_closed, play, session_id, clients, queue,
                 encoder, media, crashed, foreign, unbound, roamed>>

\* No pair of ports could be bound in ten tries: the sockets tried last are closed,
\* and their descriptors stay in rtpfd_ and, unless its bind was not reached, rtcpfd_.
SetupUdpFails(c, h, f, g) ==
  /\ CanSetup(c) /\ f \in Free /\ g \in (Free \ {f}) \cup {rtcpfd[c][h]}
  /\ rtpfd' = [rtpfd EXCEPT ![c][h] = f] /\ rtcpfd' = [rtcpfd EXCEPT ![c][h] = g]
  /\ unbound' = unbound \cup {c}
  /\ UNCHANGED <<objects, setup, is_closed, transport, play, session_id, rtcp, clients, queue,
                 encoder, media, crashed, foreign, replaced, roamed>>

\* Without rtp_conn_ PLAY uses a null pointer.
HandleCmdPlay(c) ==
  /\ Readable(c)
  /\ crashed' = (rtp[c] = "none") /\ play' = [play EXCEPT ![c] = setup[c]]
  /\ UNCHANGED <<objects, rtpState, session_id, rtcp, clients, queue, encoder, media,
                 foreign, history>>

Teardown(c) ==
  /\ is_closed' = [is_closed EXCEPT ![c] = TRUE]
  /\ play' = [play EXCEPT ![c] = IF is_closed[c] THEN @ ELSE {}]

\* So does TEARDOWN; otherwise it closes the connection.
HandleCmdTeardown(c) ==
  /\ Readable(c)
  /\ crashed' = (rtp[c] = "none")
  /\ Teardown(c) /\ Close(c, queue)
  /\ UNCHANGED <<sock, rtp, connections, owner, setup, transport, rtpfd, rtcpfd, session_id,
                 rtcp, encoder, media, foreign, history>>

\* Mutant: the sockets of the RtpConnection are closed although the encoder has it.
DestroyClosesAll(c) ==
  /\ tcp' = [tcp EXCEPT ![c] = "gone"]
  /\ rtp' = [rtp EXCEPT ![c] = IF @ = "none" \/ c \in encoder.held THEN @ ELSE "gone"]
  /\ CloseSockets([d \in {c} |-> {sock[c]} \cup SocketsOf(c)])

\* ~RtspConnection: with it goes its RtpConnection, unless the encoder has it too.
Destroy(c) ==
  LET both == c \notin encoder.held
  IN  /\ tcp' = [tcp EXCEPT ![c] = "gone"]
      /\ rtp' = [rtp EXCEPT ![c] = IF both /\ @ # "none" THEN "gone" ELSE @]
      /\ CloseSockets([d \in {c} |-> {sock[c]} \cup IF both THEN SocketsOf(c) ELSE {}])

\* RemoveConnection; the encoder may hold the last reference.
RemoveConnection ==
  /\ queue # <<>> /\ Head(queue).op = "remove"
  /\ queue' = Tail(queue)
  /\ LET k == Head(queue).arg
         c == connections[k]
     IN  /\ connections' = [connections EXCEPT ![k] = None]
         /\ IF c # None /\ encoder.at # c THEN Destroy(c)
                                           ELSE UNCHANGED <<tcp, rtp, owner, foreign>>
  /\ UNCHANGED <<sock, channels, rtpState, play, session_id, rtcp, clients, encoder, media,
                 crashed, history>>

\* The closure of SendRtpPacket.  It has a raw pointer: an RtpConnection that is gone
\* is used all the same.  A packet goes out when the channel plays, from the first
\* key frame on; a failed send closes the RTSP connection, or tears down the RTP one.
SendMedia ==
  /\ queue # <<>> /\ Head(queue).op = "media"
  /\ LET c == Head(queue).arg
         q == Tail(queue)
         sends == rtp[c] = "alive" /\ Head(queue).channel \in play[c]
     IN  \/ queue' = q /\ UNCHANGED <<tcp, channels, clients, is_closed, play>>
         \/ /\ sends /\ transport[c] = "tcp" /\ Alive(c)
            /\ Close(c, q) /\ UNCHANGED <<is_closed, play>>
         \/ /\ sends /\ transport[c] = "udp"
            /\ Teardown(c) /\ queue' = q /\ UNCHANGED <<tcp, channels, clients>>
  /\ UNCHANGED <<sock, rtp, connections, owner, setup, transport, rtpfd, rtcpfd, session_id,
                 rtcp, encoder, media, crashed, foreign, history>>

-----------------------------------------------------------------------------
(* An encoder's thread, in PushFrame; the mutex of MediaSession, and that of *)
(* ScreenLive, let one in at a time.                                         *)

\* The RtpConnections that are alive are collected, and the entries of others erased.
Collect(s, h) ==
  /\ encoder = Idle /\ media < MaxMedia /\ \E f \in Fd : clients[s][f] # None
  /\ LET live == {f \in Fd : clients[s][f] # None /\ rtp[clients[s][f]] = "alive"}
         held == {clients[s][f] : f \in live}
     IN  /\ clients' = [clients EXCEPT ![s] = [f \in Fd |-> IF f \in live THEN @[f] ELSE None]]
         /\ encoder' = [held |-> held, todo |-> held, at |-> None, channel |-> h]
  /\ media' = media + 1
  /\ UNCHANGED <<objects, rtpState, play, session_id, rtcp, queue, crashed, foreign, history>>

\* SendRtpPacket up to its lock of the weak pointer; it may find none.
SendRtpPacket(c) ==
  /\ c \in encoder.todo /\ encoder.at = None
  /\ encoder' = [encoder EXCEPT !.todo = @ \ {c},
                                !.at = IF Alive(c) /\ ~is_closed[c] THEN c ELSE None]
  /\ UNCHANGED <<objects, rtpState, play, session_id, rtcp, clients, queue, media, crashed,
                 foreign, history>>

\* AddTriggerEvent, and the release of the lock: it may be the last reference.
QueueMedia ==
  LET c == encoder.at
  IN  /\ c # None
      /\ queue' = Append(queue, [op |-> "media", arg |-> c, channel |-> encoder.channel,
                                 wasOpen |-> tcp[c] = "open"])
      /\ encoder' = [encoder EXCEPT !.at = None]
      /\ IF connections[sock[c]] = c THEN UNCHANGED <<tcp, rtp, owner, foreign>> ELSE Destroy(c)
      /\ UNCHANGED <<sock, connections, channels, rtpState, play, session_id, rtcp, clients,
                     media, crashed, history>>

\* The list goes, and with it every RtpConnection that nothing else refers to.
Release ==
  /\ encoder # Idle /\ encoder.todo = {} /\ encoder.at = None
  /\ LET last == {c \in encoder.held : tcp[c] = "gone"}
     IN  /\ rtp' = [c \in Conn |-> IF c \in last THEN "gone" ELSE rtp[c]]
         /\ CloseSockets([c \in last |-> SocketsOf(c)])
  /\ encoder' = Idle
  /\ UNCHANGED <<tcp, sock, connections, channels, rtpState, play, session_id, rtcp, clients,
                 queue, media, crashed, history>>

-----------------------------------------------------------------------------
Request(c) ==
  \/ HandleCmdDescribe(c) \/ HandleCmdPlay(c) \/ HandleCmdTeardown(c) \/ HangUp(c)
  \/ \E h \in Channel : \/ SetupRtpOverTcp(c, h)
                        \/ \E f \in Fd, g \in Fd : SetupRtpOverUdp(c, h, f, g)
                        \/ \E f \in Fd, g \in Fd \cup {None} : SetupUdpFails(c, h, f, g)

SchedulerStep == RemoveConnection \/ SendMedia
EncoderStep   == (\E c \in Conn : SendRtpPacket(c)) \/ QueueMedia \/ Release

Next ==
  /\ ~crashed
  /\ \/ \E c \in Conn : Request(c) \/ \E f \in Fd : Accept(c, f)
     \/ \E s \in Session, h \in Channel : Collect(s, h)
     \/ SchedulerStep \/ EncoderStep

Spec == Init /\ [][Next]_vars

(* Both threads are scheduled; nothing is assumed of clients. *)
LiveSpec == Spec /\ WF_vars(~crashed /\ SchedulerStep) /\ WF_vars(~crashed /\ EncoderStep)

-----------------------------------------------------------------------------
(* Properties. *)

TypeOK ==
  /\ tcp \in [Conn -> {"none", "open", "closed", "gone"}] /\ sock \in [Conn -> Fd \cup {None}]
  /\ rtp \in [Conn -> {"none", "alive", "gone"}]
  /\ session_id \in [Conn -> Session \cup {None}]
  /\ setup \in [Conn -> SUBSET Channel] /\ play \in [Conn -> SUBSET Channel]
  /\ is_closed \in [Conn -> BOOLEAN] /\ transport \in [Conn -> {"none", "tcp", "udp"}]
  /\ rtpfd \in [Conn -> [Channel -> Fd \cup {None}]]
  /\ rtcpfd \in [Conn -> [Channel -> Fd \cup {None}]]
  /\ rtcp \in [Conn -> [Channel -> Fd \cup {None}]]
  /\ clients \in [Session -> [Fd -> Conn \cup {None}]]
  /\ connections \in [Fd -> Conn \cup {None}] /\ channels \in [Fd -> Conn \cup {None}]
  /\ owner \in [Fd -> Conn \cup {None}] /\ queue \in Seq(Event)
  /\ encoder \in [held : SUBSET Conn, todo : SUBSET Conn, at : Conn \cup {None},
                  channel : Channel \cup {None}]
  /\ media \in 0..MaxMedia /\ crashed \in BOOLEAN
  /\ foreign \in SUBSET Conn /\ unbound \in SUBSET Conn
  /\ replaced \in SUBSET Fd /\ roamed \in SUBSET Conn

\* The descriptors that a living object will close are its own: nobody else can have
\* got them.  The code has two exceptions: an RtpConnection over TCP that the encoder
\* keeps alive longer than its RtspConnection, whose socket it closes once more, and
\* descriptors that a failed UDP setup left behind.
ClosesItsOwn ==
  foreign = {} => \A c \in Conn :
    /\ Alive(c) => owner[sock[c]] = c
    /\ rtp[c] = "alive" => \A f \in SocketsOf(c) \ {None} :
         owner[f] = c \/ c \in unbound \/ (tcp[c] = "gone" /\ f = sock[c])

\* A registered channel has an open descriptor - one that has not makes select fail
\* for all of them - and calls back a connection that is open, unless a SETUP of the
\* same media channel over UDP has put another RTCP channel in its place, which nobody
\* removes any more.  After a failed UDP setup the connection may close a descriptor of
\* its own that still has such a channel.
RegisteredIsLive ==
  foreign = {} => \A f \in Fd :
    channels[f] \notin {None} \cup unbound =>
      /\ owner[f] = channels[f]
      /\ tcp[channels[f]] = "open" \/ f \in replaced

\* The closure of a media packet finds its RtpConnection alive if the connection was
\* open when the packet was queued; only an encoder that has collected its list before
\* OnClose and queues after it can be too late.
QueuedWhileOpenIsSafe ==
  \A i \in DOMAIN queue :
    queue[i].op = "media" /\ queue[i].wasOpen => rtp[queue[i].arg] = "alive"

\* As long as no client has described two sessions, a session lists open connections
\* only, each under its descriptor, and every one that described it: it is sent media.
DescribedIsListed ==
  foreign = {} /\ roamed = {} =>
    /\ \A s \in Session, f \in Fd : LET c == clients[s][f] IN
         c # None => tcp[c] = "open" /\ sock[c] = f /\ session_id[c] = s
    /\ \A c \in Conn : tcp[c] = "open" /\ session_id[c] # None =>
                         rtp[c] = "alive" /\ clients[session_id[c]][sock[c]] = c

\* A closed connection, and its RtpConnection with it, does not stay for ever, on
\* whichever of the two threads its last reference is given up.
ClosedIsDestroyed ==
  \A c \in Conn : (tcp[c] = "closed") ~> (crashed \/ (tcp[c] = "gone" /\ rtp[c] # "alive"))
=============================================================================
