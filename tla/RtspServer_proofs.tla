--------------------------- MODULE RtspServer_proofs ---------------------------
(***************************************************************************)
(* Proofs about RtspServer, for any connections, descriptors, channels and *)
(* sessions: type correctness, that an object closes its own descriptors   *)
(* only, that channels call back open connections, that a media event      *)
(* finds its RtpConnection, and that sessions list their clients. At the   *)
(* end, the same about ScreenLive, the application that starts and stops   *)
(* the server: that it uses no server or capture that is gone, and counts  *)
(* its clients.                                                            *)
(***************************************************************************)
EXTENDS RtspServer, ScreenLive, FiniteSetTheorems, TLAPS

-----------------------------------------------------------------------------
(* The inductive invariant. *)

\* A connection that was not accepted yet appears nowhere.
Untouched(c) ==
  tcp[c] = "none" =>
    /\ rtp[c] = "none" /\ session_id[c] = None
    /\ \A h \in Channel : rtcp[c][h] = None
    /\ \A f \in Fd : channels[f] # c /\ owner[f] # c

\* What keeps an RtspConnection alive: connections_, or the encoder at it.
Referred(c) ==
  /\ tcp[c] # "none" => sock[c] \in Fd
  /\ \A f \in Fd : connections[f] = c => sock[c] = f /\ Alive(c)
  /\ tcp[c] = "open" => connections[sock[c]] = c
  /\ tcp[c] = "closed" => connections[sock[c]] = c \/ encoder.at = c

\* What keeps an RtpConnection alive: its RtspConnection, or the encoder's list.
RtpReferred(c) ==
  /\ rtp[c] = "alive" => Alive(c) \/ c \in encoder.held
  /\ rtp[c] = "gone" => tcp[c] = "gone"
  /\ session_id[c] # None => rtp[c] # "none"

EncoderHolds ==
  /\ encoder.todo \subseteq encoder.held
  /\ \A c \in encoder.held : rtp[c] = "alive"
  /\ encoder.at # None => encoder.at \in encoder.held /\ Alive(encoder.at)
  /\ encoder.held # {} => encoder.channel \in Channel

References ==
  /\ \A c \in Conn : Untouched(c) /\ Referred(c) /\ RtpReferred(c)
  /\ EncoderHolds

IsRemove(e, k) == e.op = "remove" /\ e.arg = k

\* One removal, and of a closed connection, is pending for a descriptor.
RemovesOnce(q) ==
  \A i \in 1..Len(q) : q[i].op = "remove" =>
    /\ connections[q[i].arg] # None /\ tcp[connections[q[i].arg]] = "closed"
    /\ \A j \in 1..Len(q) : IsRemove(q[j], q[i].arg) => j = i

\* The removal of a connection comes after its media events.
RemovedAfter(q) ==
  \A i \in 1..Len(q) : q[i].op = "media" /\ q[i].wasOpen =>
    LET c == q[i].arg
    IN  /\ rtp[c] = "alive" /\ Alive(c)
        /\ tcp[c] = "closed" => /\ connections[sock[c]] = c
                                /\ \E j \in 1..Len(q) : j > i /\ IsRemove(q[j], sock[c])

QueueInv == RemovesOnce(queue) /\ RemovedAfter(queue)

\* Why a descriptor has a channel of c.
ChannelsOf(c) ==
  c \notin unbound => \A f \in Fd : channels[f] = c =>
    /\ owner[f] = c
    /\ \/ tcp[c] = "open" /\ (f = sock[c] \/ \E h \in Channel : rtcp[c][h] = f)
       \/ f \in replaced /\ f # sock[c] /\ f \notin SocketsOf(c)

\* The RTCP socket of a channel is nothing else.
RtcpIsApart(c) ==
  c \notin unbound /\ tcp[c] = "open" => \A h \in Channel : rtcp[c][h] # None =>
    /\ owner[rtcp[c][h]] = c /\ rtcp[c][h] # sock[c]
    /\ \A k \in Channel : /\ rtpfd[c][k] # rtcp[c][h]
                          /\ k # h => rtcpfd[c][k] # rtcp[c][h] /\ rtcp[c][k] # rtcp[c][h]

\* The two conjuncts of ClosesItsOwn, for one connection.
OwnsSocket(c) == Alive(c) => owner[sock[c]] = c
OwnsRtp(c) ==
  rtp[c] = "alive" => \A f \in SocketsOf(c) \ {None} :
    owner[f] = c \/ c \in unbound \/ (tcp[c] = "gone" /\ f = sock[c])

NoSockets(c) == rtp[c] = "none" => SocketsOf(c) \subseteq {None}

Owns(c) == OwnsSocket(c) /\ OwnsRtp(c) /\ ChannelsOf(c) /\ RtcpIsApart(c) /\ NoSockets(c)

Descriptors == foreign = {} => \A c \in Conn : Owns(c)

IInv == TypeOK /\ References /\ QueueInv /\ Descriptors /\ DescribedIsListed

-----------------------------------------------------------------------------
(* The queue. *)
LEMMA EventKinds ==
  ASSUME NEW e \in Event
  PROVE  /\ e.op \in {"remove", "media"}
         /\ e.op = "remove" => e.arg \in Fd
         /\ e.op = "media" => e.arg \in Conn /\ e.channel \in Channel /\ e.wasOpen \in BOOLEAN
  BY DEF Event

LEMMA AfterAppend ==
  ASSUME NEW q \in Seq(Event), NEW e \in Event
  PROVE  /\ Append(q, e) \in Seq(Event)
         /\ Len(q) \in Nat /\ Len(Append(q, e)) = Len(q) + 1
         /\ \A i \in 1..Len(q) : q[i] \in Event /\ Append(q, e)[i] = q[i]
         /\ Append(q, e)[Len(q) + 1] = e
  OBVIOUS

LEMMA AfterTail ==
  ASSUME NEW q \in Seq(Event), q # <<>>
  PROVE  /\ Tail(q) \in Seq(Event) /\ Head(q) \in Event /\ Head(q) = q[1]
         /\ Len(q) \in Nat \ {0} /\ Len(Tail(q)) = Len(q) - 1
         /\ \A i \in 1..Len(Tail(q)) : i + 1 \in 1..Len(q) /\ Tail(q)[i] = q[i + 1]
         /\ \A i \in 1..Len(q) : q[i] \in Event
  OBVIOUS

LEMMA RemoveEvent ==
  ASSUME NEW k \in Fd
  PROVE  /\ [op |-> "remove", arg |-> k] \in Event
         /\ IsRemove([op |-> "remove", arg |-> k], k)
  BY DEF Event, IsRemove

\* Taking the event in front keeps what is said of the others.
LEMMA TailKeeps ==
  ASSUME TypeOK, QueueInv, queue # <<>>
  PROVE  /\ RemovesOnce(Tail(queue))
         /\ Head(queue).op = "media" => RemovedAfter(Tail(queue))
<1> DEFINE r == Tail(queue)
<1>1. /\ Len(queue) \in Nat \ {0} /\ Len(r) = Len(queue) - 1
      /\ \A i \in 1..Len(r) : i + 1 \in 1..Len(queue) /\ r[i] = queue[i + 1]
      /\ Head(queue) = queue[1]
  BY AfterTail DEF TypeOK
<1> HIDE DEF r
<1>2. RemovesOnce(r)
  BY <1>1 DEF QueueInv, RemovesOnce, IsRemove
<1>3. ASSUME Head(queue).op = "media", NEW i \in 1..Len(r), r[i].op = "media", r[i].wasOpen
      PROVE  LET c == r[i].arg
             IN  /\ rtp[c] = "alive" /\ Alive(c)
                 /\ tcp[c] = "closed" => /\ connections[sock[c]] = c
                                         /\ \E j \in 1..Len(r) : j > i /\ IsRemove(r[j], sock[c])
  <2> DEFINE c == r[i].arg
  <2>1. /\ rtp[c] = "alive" /\ Alive(c)
        /\ tcp[c] = "closed" => /\ connections[sock[c]] = c
              /\ \E j \in 1..Len(queue) : j > i + 1 /\ IsRemove(queue[j], sock[c])
    BY <1>1, <1>3 DEF QueueInv, RemovedAfter
  <2>2. ASSUME NEW j \in 1..Len(queue), j > i + 1, IsRemove(queue[j], sock[c])
        PROVE  \E m \in 1..Len(r) : m > i /\ IsRemove(r[m], sock[c])
    <3>1. j - 1 \in 1..Len(r) /\ j - 1 > i /\ (j - 1) + 1 = j
      BY <1>1, <2>2
    <3>2. r[j - 1] = queue[j]
      BY <1>1, <3>1
    <3>3. QED
      BY <2>2, <3>1, <3>2
  <2>3. QED
    BY <2>1, <2>2
<1>4. QED
  BY <1>2, <1>3 DEF RemovedAfter, r

-----------------------------------------------------------------------------
(* Type correctness. *)
LEMMA TypeInit == Init => TypeOK
<1> SUFFICES ASSUME Init PROVE TypeOK
  OBVIOUS
<1>1. queue \in Seq(Event) /\ media \in 0..MaxMedia
  BY RtspAssumption DEF Init
<1>2. encoder \in [held : SUBSET Conn, todo : SUBSET Conn, at : Conn \cup {None},
                   channel : Channel \cup {None}]
  BY DEF Init, Idle
<1>3. QED
  BY <1>1, <1>2 DEF Init, TypeOK

LEMMA CloseType ==
  ASSUME TypeOK, NEW c \in Conn, NEW q \in Seq(Event), tcp[c] # "none" => sock[c] \in Fd,
         Close(c, q)
  PROVE  /\ tcp' \in [Conn -> {"none", "open", "closed", "gone"}]
         /\ channels' \in [Fd -> Conn \cup {None}]
         /\ clients' \in [Session -> [Fd -> Conn \cup {None}]]
         /\ queue' \in Seq(Event)
<1>1. CASE tcp[c] = "open"
  <2>1. [op |-> "remove", arg |-> sock[c]] \in Event
    BY <1>1, RemoveEvent
  <2>2. queue' \in Seq(Event)
    BY <1>1, <2>1, AfterAppend DEF Close, DisconnectCallback
  <2>3. clients' \in [Session -> [Fd -> Conn \cup {None}]]
    <3>1. CASE session_id[c] = None
      BY <1>1, <3>1 DEF Close, OnClose, TypeOK
    <3>2. CASE session_id[c] # None
      <4>1. session_id[c] \in Session /\ sock[c] \in Fd
        BY <1>1, <3>2 DEF TypeOK
      <4>2. clients' = [clients EXCEPT ![session_id[c]][sock[c]] = None]
        BY <1>1, <3>2 DEF Close, OnClose
      <4>3. QED
        BY <4>1, <4>2 DEF TypeOK
    <3>3. QED
      BY <3>1, <3>2
  <2>4. QED
    BY <1>1, <2>2, <2>3 DEF Close, OnClose, TypeOK
<1>2. CASE tcp[c] # "open"
  BY <1>2 DEF Close, TypeOK
<1>3. QED
  BY <1>1, <1>2

LEMMA ClosingType ==
  ASSUME TypeOK, NEW shut, DOMAIN shut \subseteq Conn, CloseSockets(shut)
  PROVE  owner' \in [Fd -> Conn \cup {None}] /\ foreign' \in SUBSET Conn
  BY DEF TypeOK, CloseSockets

LEMMA DestroyType ==
  ASSUME TypeOK, NEW c \in Conn, Destroy(c)
  PROVE  /\ tcp' \in [Conn -> {"none", "open", "closed", "gone"}]
         /\ rtp' \in [Conn -> {"none", "alive", "gone"}]
         /\ owner' \in [Fd -> Conn \cup {None}] /\ foreign' \in SUBSET Conn
<1> DEFINE shut == [d \in {c} |-> {sock[c]} \cup IF c \notin encoder.held THEN SocketsOf(c) ELSE {}]
<1>1. CloseSockets(shut) /\ DOMAIN shut \subseteq Conn
  BY DEF Destroy
<1> HIDE DEF shut
<1>2. owner' \in [Fd -> Conn \cup {None}] /\ foreign' \in SUBSET Conn
  BY <1>1, ClosingType
<1>3. QED
  BY <1>2 DEF Destroy, TypeOK

\* Readable connections have a descriptor.
LEMMA ReadableFacts ==
  ASSUME TypeOK, References, NEW c \in Conn, Readable(c)
  PROVE  /\ tcp[c] = "open" /\ sock[c] \in Fd /\ connections[sock[c]] = c
         /\ channels[sock[c]] = c /\ SelectWorks
  BY DEF Readable, References, Referred

LEMMA TypeStep == ASSUME TypeOK, References, [Next]_vars PROVE TypeOK'
<1> USE DEF objects, rtpState, history, vars
<1>1. ASSUME NEW c \in Conn, NEW f \in Fd, Accept(c, f) PROVE TypeOK'
  <2>1. /\ sock' \in [Conn -> Fd \cup {None}]
        /\ channels' \in [Fd -> Conn \cup {None}]
    BY <1>1 DEF Accept, TypeOK
  <2>2. /\ tcp' \in [Conn -> {"none", "open", "closed", "gone"}]
        /\ connections' \in [Fd -> Conn \cup {None}]
        /\ owner' \in [Fd -> Conn \cup {None}]
    <3> tcp \in [Conn -> {"none", "open", "closed", "gone"}]
        /\ connections \in [Fd -> Conn \cup {None}] /\ owner \in [Fd -> Conn \cup {None}]
      BY DEF TypeOK
    <3>1. CASE connections[f] = None
      <4>1. /\ tcp' = [tcp EXCEPT ![c] = "open"]
            /\ connections' = [connections EXCEPT ![f] = c]
            /\ owner' = [owner EXCEPT ![f] = c]
        BY <1>1, <3>1 DEF Accept
      <4>2. QED
        BY <4>1
    <3>2. CASE connections[f] # None
      <4>1. /\ tcp' = [tcp EXCEPT ![c] = "gone"]
            /\ UNCHANGED <<connections, owner>>
        BY <1>1, <3>2 DEF Accept
      <4>2. QED
        BY <4>1
    <3>3. QED
      BY <3>1, <3>2
  <2>3. UNCHANGED <<rtp, rtpState, play, session_id, rtcp, clients, queue, encoder, media,
                    crashed, foreign, history>>
    BY <1>1 DEF Accept
  <2>4. QED
    BY <2>1, <2>2, <2>3 DEF TypeOK
<1>2. ASSUME NEW c \in Conn, HandleCmdDescribe(c) PROVE TypeOK'
  <2>1. sock[c] \in Fd
    BY <1>2, ReadableFacts DEF HandleCmdDescribe
  <2>2. CASE UNCHANGED <<session_id, clients, roamed>>
    BY <1>2, <2>2 DEF HandleCmdDescribe, TypeOK
  <2>3. ASSUME NEW s \in Session,
               session_id' = [session_id EXCEPT ![c] = s],
               clients' = [clients EXCEPT ![s][sock[c]] = IF @ = None THEN c ELSE @],
               roamed' = IF session_id[c] \in {None, s} THEN roamed ELSE roamed \cup {c}
        PROVE  TypeOK'
    <3>1. session_id' \in [Conn -> Session \cup {None}] /\ roamed' \in SUBSET Conn
      BY <2>3 DEF TypeOK
    <3>2. clients' \in [Session -> [Fd -> Conn \cup {None}]]
      BY <2>1, <2>3 DEF TypeOK
    <3>3. QED
      BY <1>2, <3>1, <3>2 DEF HandleCmdDescribe, TypeOK
  <2>4. QED
    BY <1>2, <2>2, <2>3 DEF HandleCmdDescribe
<1>3. ASSUME NEW c \in Conn, NEW h \in Channel, SetupRtpOverTcp(c, h) PROVE TypeOK'
  BY <1>3 DEF SetupRtpOverTcp, TypeOK
<1>4. ASSUME NEW c \in Conn, NEW h \in Channel, NEW f \in Fd, NEW g \in Fd,
             SetupRtpOverUdp(c, h, f, g)
      PROVE TypeOK'
  <2>1. replaced' \in SUBSET Fd
    BY <1>4 DEF SetupRtpOverUdp, OverUdp, TypeOK
  <2>2. QED
    BY <1>4, <2>1 DEF SetupRtpOverUdp, TypeOK
<1>5. ASSUME NEW c \in Conn, NEW h \in Channel, NEW f \in Fd, NEW g \in Fd \cup {None},
             SetupUdpFails(c, h, f, g)
      PROVE TypeOK'
  BY <1>5 DEF SetupUdpFails, TypeOK
<1>6. ASSUME NEW c \in Conn, HandleCmdPlay(c) PROVE TypeOK'
  BY <1>6 DEF HandleCmdPlay, TypeOK
<1>7. ASSUME NEW c \in Conn, HandleCmdTeardown(c) PROVE TypeOK'
  <2>1. Close(c, queue) /\ sock[c] \in Fd
    BY <1>7, ReadableFacts DEF HandleCmdTeardown
  <2>2. queue \in Seq(Event)
    BY DEF TypeOK
  <2>3. /\ tcp' \in [Conn -> {"none", "open", "closed", "gone"}]
        /\ channels' \in [Fd -> Conn \cup {None}]
        /\ clients' \in [Session -> [Fd -> Conn \cup {None}]]
        /\ queue' \in Seq(Event)
    BY <2>1, <2>2, CloseType
  <2>4. QED
    BY <1>7, <2>3 DEF HandleCmdTeardown, Teardown, TypeOK
<1>8. ASSUME NEW c \in Conn, HangUp(c) PROVE TypeOK'
  <2>1. Close(c, queue) /\ sock[c] \in Fd
    BY <1>8, ReadableFacts DEF HangUp
  <2>2. queue \in Seq(Event)
    BY DEF TypeOK
  <2>3. /\ tcp' \in [Conn -> {"none", "open", "closed", "gone"}]
        /\ channels' \in [Fd -> Conn \cup {None}]
        /\ clients' \in [Session -> [Fd -> Conn \cup {None}]]
        /\ queue' \in Seq(Event)
    BY <2>1, <2>2, CloseType
  <2>4. QED
    BY <1>8, <2>3 DEF HangUp, TypeOK
<1>9. ASSUME RemoveConnection PROVE TypeOK'
  <2> DEFINE k == Head(queue).arg
             c == connections[k]
  <2>1. k \in Fd /\ c \in Conn \cup {None} /\ queue' \in Seq(Event)
    BY <1>9, AfterTail, EventKinds DEF RemoveConnection, TypeOK
  <2>2. connections' \in [Fd -> Conn \cup {None}]
    BY <1>9 DEF RemoveConnection, TypeOK
  <2>3. CASE c # None /\ encoder.at # c
    <3>1. c \in Conn /\ Destroy(c)
      BY <1>9, <2>1, <2>3 DEF RemoveConnection
    <3>2. /\ tcp' \in [Conn -> {"none", "open", "closed", "gone"}]
          /\ rtp' \in [Conn -> {"none", "alive", "gone"}]
          /\ owner' \in [Fd -> Conn \cup {None}] /\ foreign' \in SUBSET Conn
      BY <3>1, DestroyType
    <3>3. QED
      BY <1>9, <2>1, <2>2, <3>2 DEF RemoveConnection, TypeOK
  <2>4. CASE ~(c # None /\ encoder.at # c)
    <3>1. UNCHANGED <<tcp, rtp, owner, foreign>>
      BY <1>9, <2>4 DEF RemoveConnection
    <3>2. QED
      BY <1>9, <2>1, <2>2, <3>1 DEF RemoveConnection, TypeOK
  <2>5. QED
    BY <2>3, <2>4
<1>10. ASSUME SendMedia PROVE TypeOK'
  <2> DEFINE c == Head(queue).arg
             q == Tail(queue)
  <2>1. c \in Conn /\ q \in Seq(Event)
    BY <1>10, AfterTail, EventKinds DEF SendMedia, TypeOK
  <2>2. is_closed' \in [Conn -> BOOLEAN] /\ play' \in [Conn -> SUBSET Channel]
    <3>1. UNCHANGED <<is_closed, play>> \/ Teardown(c)
      BY <1>10 DEF SendMedia
    <3>2. CASE Teardown(c)
      <4>1. is_closed' \in [Conn -> BOOLEAN]
        BY <2>1, <3>2 DEF Teardown, TypeOK
      <4>2. \/ play' = [play EXCEPT ![c] = {}]
            \/ play' = [play EXCEPT ![c] = play[c]]
        BY <3>2 DEF Teardown
      <4>3. play \in [Conn -> SUBSET Channel]
        BY DEF TypeOK
      <4>4. QED
        BY <2>1, <4>1, <4>2, <4>3
    <3>3. QED
      BY <3>1, <3>2 DEF TypeOK
  <2>3. CASE Close(c, q)
    <3>1. tcp[c] # "none" => sock[c] \in Fd
      BY <2>1 DEF References, Referred
    <3> HIDE DEF c, q
    <3>2. /\ tcp' \in [Conn -> {"none", "open", "closed", "gone"}]
          /\ channels' \in [Fd -> Conn \cup {None}]
          /\ clients' \in [Session -> [Fd -> Conn \cup {None}]]
          /\ queue' \in Seq(Event)
      BY <2>1, <2>3, <3>1, CloseType
    <3>3. QED
      BY <1>10, <2>2, <3>2 DEF SendMedia, TypeOK
  <2>4. CASE queue' = q /\ UNCHANGED <<tcp, channels, clients>>
    BY <1>10, <2>1, <2>2, <2>4 DEF SendMedia, TypeOK
  <2>5. QED
    BY <1>10, <2>3, <2>4 DEF SendMedia
<1>11. ASSUME NEW s \in Session, NEW h \in Channel, Collect(s, h) PROVE TypeOK'
  <2> DEFINE live == {f \in Fd : clients[s][f] # None /\ rtp[clients[s][f]] = "alive"}
             held == {clients[s][f] : f \in live}
  <2>1. held \in SUBSET Conn
    BY DEF TypeOK
  <2>2. clients' \in [Session -> [Fd -> Conn \cup {None}]]
    BY <1>11 DEF Collect, TypeOK
  <2>3. encoder' = [held |-> held, todo |-> held, at |-> None, channel |-> h]
    BY <1>11 DEF Collect
  <2>4. media' \in 0..MaxMedia
    BY <1>11, RtspAssumption DEF Collect, TypeOK
  <2> HIDE DEF held, live
  <2>5. encoder' \in [held : SUBSET Conn, todo : SUBSET Conn, at : Conn \cup {None},
                      channel : Channel \cup {None}]
    BY <2>1, <2>3
  <2>6. QED
    BY <1>11, <2>2, <2>4, <2>5 DEF Collect, TypeOK
<1>12. ASSUME NEW c \in Conn, SendRtpPacket(c) PROVE TypeOK'
  BY <1>12 DEF SendRtpPacket, TypeOK
<1>13. ASSUME QueueMedia PROVE TypeOK'
  <2> DEFINE c == encoder.at
             e == [op |-> "media", arg |-> c, channel |-> encoder.channel,
                   wasOpen |-> tcp[c] = "open"]
  <2>1. c \in Conn
    BY <1>13 DEF QueueMedia, TypeOK
  <2>2. e \in Event
    BY <1>13, <2>1 DEF Event, TypeOK, QueueMedia, References, EncoderHolds
  <2>3. queue' \in Seq(Event)
    BY <1>13, <2>2, AfterAppend DEF QueueMedia, TypeOK
  <2>4. /\ tcp' \in [Conn -> {"none", "open", "closed", "gone"}]
        /\ rtp' \in [Conn -> {"none", "alive", "gone"}]
        /\ owner' \in [Fd -> Conn \cup {None}] /\ foreign' \in SUBSET Conn
    BY <1>13, <2>1, DestroyType DEF QueueMedia, TypeOK
  <2>5. encoder' \in [held : SUBSET Conn, todo : SUBSET Conn, at : Conn \cup {None},
                      channel : Channel \cup {None}]
    BY <1>13 DEF QueueMedia, TypeOK
  <2>6. QED
    BY <1>13, <2>3, <2>4, <2>5 DEF QueueMedia, TypeOK
<1>14. ASSUME Release PROVE TypeOK'
  <2> DEFINE last == {c \in encoder.held : tcp[c] = "gone"}
             shut == [c \in last |-> SocketsOf(c)]
  <2>1. CloseSockets(shut) /\ DOMAIN shut \subseteq Conn
    BY <1>14 DEF Release, TypeOK
  <2> HIDE DEF shut
  <2>2. owner' \in [Fd -> Conn \cup {None}] /\ foreign' \in SUBSET Conn
    BY <2>1, ClosingType
  <2>3. encoder' \in [held : SUBSET Conn, todo : SUBSET Conn, at : Conn \cup {None},
                      channel : Channel \cup {None}]
    BY <1>14 DEF Release, Idle
  <2>4. rtp' \in [Conn -> {"none", "alive", "gone"}]
    BY <1>14 DEF Release, TypeOK
  <2>5. QED
    BY <1>14, <2>2, <2>3, <2>4 DEF Release, TypeOK
<1>15. CASE UNCHANGED vars
  BY <1>15 DEF TypeOK
<1>16. QED
  BY <1>1, <1>2, <1>3, <1>4, <1>5, <1>6, <1>7, <1>8, <1>9, <1>10, <1>11, <1>12, <1>13, <1>14,
     <1>15 DEF Next, Request, SchedulerStep, EncoderStep

-----------------------------------------------------------------------------
(* What the steps that several actions share do. *)
LEMMA CloseFacts ==
  ASSUME TypeOK, NEW c \in Conn, NEW q, Close(c, q)
  PROVE  /\ \A d \in Conn : tcp'[d] = IF d = c /\ tcp[c] = "open" THEN "closed" ELSE tcp[d]
         /\ tcp[c] = "open" =>
              \A f \in Fd : channels'[f] = IF f = sock[c] \/ \E h \in Channel : f = rtcp[c][h]
                                             THEN None ELSE channels[f]
         /\ tcp[c] # "open" => channels' = channels
         /\ queue' = IF tcp[c] = "open" THEN Append(q, [op |-> "remove", arg |-> sock[c]]) ELSE q
<1>1. CASE tcp[c] = "open"
  BY <1>1 DEF Close, OnClose, DisconnectCallback, TypeOK
<1>2. CASE tcp[c] # "open"
  BY <1>2 DEF Close, TypeOK
<1>3. QED
  BY <1>1, <1>2

LEMMA ClosingFacts ==
  ASSUME TypeOK, NEW shut, DOMAIN shut \subseteq Conn, CloseSockets(shut)
  PROVE  /\ \A f \in Fd : owner'[f] \in {None, owner[f]}
         /\ foreign' = {} =>
              /\ foreign = {}
              /\ \A f \in Fd : owner'[f] # owner[f] =>
                   owner[f] \in DOMAIN shut /\ f \in shut[owner[f]]
<1>1. \A f \in Fd : owner'[f] \in {None, owner[f]}
  BY DEF CloseSockets, TypeOK
<1>2. ASSUME foreign' = {}, NEW f \in Fd, owner'[f] # owner[f]
      PROVE  owner[f] \in DOMAIN shut /\ f \in shut[owner[f]]
  <2>1. owner[f] # None /\ f \in UNION {shut[c] : c \in DOMAIN shut}
    BY <1>2 DEF CloseSockets, TypeOK
  <2>2. PICK c \in DOMAIN shut : f \in shut[c]
    BY <2>1
  <2>3. owner[f] \in {c, None}
    BY <1>2, <2>2 DEF CloseSockets
  <2>4. QED
    BY <2>1, <2>2, <2>3
<1>3. foreign' = {} => foreign = {}
  BY DEF CloseSockets
<1>4. QED
  BY <1>1, <1>2, <1>3

LEMMA DestroyFacts ==
  ASSUME TypeOK, NEW c \in Conn, Destroy(c)
  PROVE  /\ \A d \in Conn : tcp'[d] = IF d = c THEN "gone" ELSE tcp[d]
         /\ \A d \in Conn : rtp'[d] = IF d = c /\ c \notin encoder.held /\ rtp[c] # "none"
                                        THEN "gone" ELSE rtp[d]
         /\ \A f \in Fd : owner'[f] \in {None, owner[f]}
         /\ foreign' = {} =>
              /\ foreign = {}
              /\ \A f \in Fd : owner'[f] # owner[f] =>
                   /\ owner[f] = c
                   /\ f = sock[c] \/ (c \notin encoder.held /\ f \in SocketsOf(c))
<1> DEFINE shut == [d \in {c} |-> {sock[c]} \cup IF c \notin encoder.held THEN SocketsOf(c) ELSE {}]
<1>1. CloseSockets(shut) /\ DOMAIN shut \subseteq Conn
  BY DEF Destroy
<1>2. DOMAIN shut = {c}
      /\ shut[c] = {sock[c]} \cup IF c \notin encoder.held THEN SocketsOf(c) ELSE {}
  OBVIOUS
<1> HIDE DEF shut
<1>3. /\ \A f \in Fd : owner'[f] \in {None, owner[f]}
      /\ foreign' = {} =>
           /\ foreign = {}
           /\ \A f \in Fd : owner'[f] # owner[f] =>
                owner[f] \in DOMAIN shut /\ f \in shut[owner[f]]
  BY <1>1, ClosingFacts
<1>4. foreign' = {} => \A f \in Fd : owner'[f] # owner[f] =>
        /\ owner[f] = c
        /\ f = sock[c] \/ (c \notin encoder.held /\ f \in SocketsOf(c))
  BY <1>2, <1>3
<1>5. QED
  BY <1>3, <1>4 DEF Destroy, TypeOK

-----------------------------------------------------------------------------
(* The references. *)
LEMMA CloseRefs ==
  ASSUME IInv, NEW c \in Conn, NEW q, Close(c, q),
         UNCHANGED <<rtp, session_id, rtcp, owner, sock, connections, encoder>>
  PROVE  References'
<1>1. /\ \A d \in Conn : tcp'[d] = IF d = c /\ tcp[c] = "open" THEN "closed" ELSE tcp[d]
      /\ \A f \in Fd : channels'[f] \in {channels[f], None}
  BY CloseFacts DEF IInv, TypeOK
<1>2. \A d \in Conn : Untouched(d)'
  BY <1>1, RtspAssumption DEF IInv, References, Untouched
<1>3. \A d \in Conn : Referred(d)'
  BY <1>1 DEF IInv, References, Referred, Alive
<1>4. \A d \in Conn : RtpReferred(d)'
  BY <1>1 DEF IInv, References, RtpReferred, Alive
<1>5. EncoderHolds'
  BY <1>1 DEF IInv, References, EncoderHolds, Alive, TypeOK
<1>6. QED
  BY <1>2, <1>3, <1>4, <1>5 DEF References

\* The last reference of an RtspConnection is given up.
LEMMA DestroyRefs ==
  ASSUME IInv, NEW c \in Conn, tcp[c] = "closed", Destroy(c),
         UNCHANGED <<session_id, rtcp, sock, channels>>,
         \A f \in Fd : connections'[f] = IF connections[f] = c THEN None ELSE connections[f],
         encoder'.held = encoder.held, encoder'.todo = encoder.todo,
         encoder'.channel = encoder.channel,
         encoder'.at # c,
         encoder'.at \in {None, encoder.at}, encoder.at \in {c, encoder'.at}
  PROVE  References'
<1>1. /\ \A d \in Conn : tcp'[d] = IF d = c THEN "gone" ELSE tcp[d]
      /\ \A d \in Conn : rtp'[d] = IF d = c /\ c \notin encoder.held /\ rtp[c] # "none"
                                     THEN "gone" ELSE rtp[d]
      /\ \A f \in Fd : owner'[f] \in {None, owner[f]}
  BY DestroyFacts DEF IInv
<1>2. \A d \in Conn : Untouched(d)'
  BY <1>1, RtspAssumption DEF IInv, References, Untouched
<1>3. ASSUME NEW d \in Conn PROVE Referred(d)'
  <2>1. CASE d = c
    BY <1>1, <2>1, RtspAssumption DEF IInv, References, Referred, Alive
  <2>2. CASE d # c
    <3>1. tcp'[d] = tcp[d] /\ Alive(d)' = Alive(d)
      BY <1>1, <2>2 DEF Alive
    <3>2. Referred(d)
      BY DEF IInv, References
    <3>3. \A f \in Fd : connections'[f] = d <=> connections[f] = d
      BY <2>2, RtspAssumption
    <3>4. encoder.at = d => encoder'.at = d
      BY <2>2
    <3>5. QED
      BY <3>1, <3>2, <3>3, <3>4 DEF Referred
  <2>3. QED
    BY <2>1, <2>2
<1>4. \A d \in Conn : RtpReferred(d)'
  BY <1>1 DEF IInv, References, RtpReferred, Alive, TypeOK
<1>5. EncoderHolds'
  BY <1>1, RtspAssumption DEF IInv, References, EncoderHolds, Alive, TypeOK
<1>6. QED
  BY <1>2, <1>3, <1>4, <1>5 DEF References

\* The two steps that destroy an RtspConnection.
LEMMA RemovedWas ==
  ASSUME IInv, RemoveConnection
  PROVE  LET k == Head(queue).arg
             c == connections[k]
         IN  /\ k \in Fd /\ c \in Conn /\ tcp[c] = "closed" /\ sock[c] = k
             /\ connections' = [connections EXCEPT ![k] = None]
             /\ queue # <<>> /\ queue' = Tail(queue) /\ Head(queue) = queue[1]
             /\ 1 \in 1..Len(queue) /\ queue[1].op = "remove"
             /\ \/ encoder.at # c /\ Destroy(c)
                \/ encoder.at = c /\ UNCHANGED <<tcp, rtp, owner, foreign>>
             /\ UNCHANGED <<sock, channels, rtpState, play, session_id, rtcp, clients, encoder,
                            media, crashed, history>>
<1> DEFINE k == Head(queue).arg
           c == connections[k]
<1>1. /\ queue # <<>> /\ Head(queue) \in Event /\ Head(queue) = queue[1]
      /\ 1 \in 1..Len(queue) /\ Head(queue).op = "remove"
  BY AfterTail DEF RemoveConnection, IInv, TypeOK
<1>2. k \in Fd /\ c # None /\ tcp[c] = "closed"
  BY <1>1, EventKinds DEF IInv, QueueInv, RemovesOnce
<1>3. c \in Conn
  BY <1>2 DEF IInv, TypeOK
<1>4. sock[c] = k
  BY <1>2, <1>3 DEF IInv, References, Referred
<1>5. QED
  BY <1>1, <1>2, <1>3, <1>4 DEF RemoveConnection

LEMMA QueuedWas ==
  ASSUME IInv, QueueMedia
  PROVE  LET c == encoder.at
         IN  /\ c \in Conn /\ Alive(c) /\ c \in encoder.held /\ rtp[c] = "alive"
             /\ sock[c] \in Fd
             /\ \/ connections[sock[c]] = c /\ UNCHANGED <<tcp, rtp, owner, foreign>>
                \/ /\ tcp[c] = "closed" /\ Destroy(c)
                   /\ \A f \in Fd : connections[f] # c
             /\ encoder' = [encoder EXCEPT !.at = None]
             /\ UNCHANGED <<sock, connections, channels, rtpState, play, session_id, rtcp,
                            clients, media, crashed, history>>
<1> DEFINE c == encoder.at
<1>1. c \in Conn
  BY DEF QueueMedia, IInv, TypeOK
<1>2. Alive(c) /\ c \in encoder.held /\ rtp[c] = "alive" /\ sock[c] \in Fd
  BY <1>1, RtspAssumption DEF IInv, References, EncoderHolds, Referred, Alive
<1>3. connections[sock[c]] # c => tcp[c] = "closed" /\ \A f \in Fd : connections[f] # c
  BY <1>1, <1>2 DEF IInv, References, Referred, Alive
<1>4. QED
  BY <1>1, <1>2, <1>3 DEF QueueMedia

LEMMA RefStep == ASSUME IInv, [Next]_vars PROVE References'
<1> USE DEF objects, rtpState, history, vars
<1>0. ASSUME UNCHANGED <<tcp, rtp, session_id, rtcp, channels, owner, sock, connections, encoder>>
      PROVE  References'
  BY <1>0 DEF IInv, References, Untouched, Referred, RtpReferred, EncoderHolds, Alive
<1>1. ASSUME NEW c \in Conn, NEW f \in Fd, Accept(c, f) PROVE References'
  <2>1. /\ tcp[c] = "none" /\ rtp[c] = "none" /\ session_id[c] = None
        /\ connections[f] = None => tcp' = [tcp EXCEPT ![c] = "open"]
                                    /\ connections' = [connections EXCEPT ![f] = c]
                                    /\ owner' = [owner EXCEPT ![f] = c]
        /\ connections[f] # None => tcp' = [tcp EXCEPT ![c] = "gone"]
                                    /\ UNCHANGED <<connections, owner>>
        /\ sock' = [sock EXCEPT ![c] = f]
        /\ \A g \in Fd : channels'[g] = IF g = f /\ channels[f] = None THEN c ELSE channels[g]
        /\ UNCHANGED <<rtp, session_id, rtcp, encoder>>
    BY <1>1 DEF Accept, IInv, TypeOK, References, Untouched
  <2>2. /\ \A d \in Conn \ {c} : tcp'[d] = tcp[d] /\ sock'[d] = sock[d]
                                 /\ Alive(d)' = Alive(d)
        /\ tcp'[c] \in {"open", "gone"} /\ sock'[c] = f
    BY <2>1 DEF Alive, IInv, TypeOK
  <2>3. \A d \in Conn : Untouched(d)'
    BY <2>1, <2>2 DEF IInv, References, Untouched, TypeOK
  <2>4. \A d \in Conn : Referred(d)'
    <3>1. \A g \in Fd : connections[g] # c
      BY <2>1 DEF IInv, References, Referred, Alive
    <3>2. \A d \in Conn \ {c} : Referred(d)'
      BY <2>1, <2>2, RtspAssumption DEF IInv, References, Referred, TypeOK
    <3>3. Referred(c)'
      BY <2>1, <2>2, <3>1, RtspAssumption DEF IInv, Referred, Alive, TypeOK
    <3>4. QED
      BY <3>2, <3>3
  <2>5. \A d \in Conn : RtpReferred(d)'
    BY <2>1, <2>2 DEF IInv, References, RtpReferred
  <2>6. EncoderHolds'
    BY <2>1, <2>2 DEF IInv, References, EncoderHolds, Alive, TypeOK
  <2>7. QED
    BY <2>3, <2>4, <2>5, <2>6 DEF References
<1>2. ASSUME NEW c \in Conn, HandleCmdDescribe(c) PROVE References'
  <2>1. /\ tcp[c] = "open"
        /\ rtp' = [rtp EXCEPT ![c] = IF @ = "none" THEN "alive" ELSE @]
        /\ \A d \in Conn \ {c} : session_id'[d] = session_id[d]
        /\ UNCHANGED <<tcp, sock, connections, channels, owner, rtcp, encoder>>
    BY <1>2 DEF HandleCmdDescribe, Readable, IInv, TypeOK
  <2>2. \A d \in Conn : Untouched(d)'
    BY <2>1 DEF IInv, References, Untouched, TypeOK
  <2>3. \A d \in Conn : Referred(d)'
    BY <2>1 DEF IInv, References, Referred, Alive
  <2>4. \A d \in Conn : RtpReferred(d)'
    BY <2>1 DEF IInv, References, RtpReferred, Alive, TypeOK
  <2>5. EncoderHolds'
    BY <2>1 DEF IInv, References, EncoderHolds, Alive, TypeOK
  <2>6. QED
    BY <2>2, <2>3, <2>4, <2>5 DEF References
<1>3. ASSUME NEW c \in Conn, NEW h \in Channel, SetupRtpOverTcp(c, h) PROVE References'
  BY <1>0, <1>3 DEF SetupRtpOverTcp
<1>4. ASSUME NEW c \in Conn, NEW h \in Channel, NEW f \in Fd, NEW g \in Fd,
             SetupRtpOverUdp(c, h, f, g)
      PROVE References'
  <2>1. /\ tcp[c] = "open" /\ UNCHANGED <<tcp, rtp, session_id, sock, connections, encoder>>
        /\ owner' = [owner EXCEPT ![f] = c, ![g] = c]
        /\ \A d \in Conn \ {c} : rtcp'[d] = rtcp[d]
        /\ channels' = [channels EXCEPT ![g] = IF @ = None THEN c ELSE @]
    BY <1>4 DEF SetupRtpOverUdp, CanSetup, Readable, IInv, TypeOK
  <2>2. \A d \in Conn : Untouched(d)'
    BY <2>1 DEF IInv, References, Untouched, TypeOK
  <2>3. \A d \in Conn : Referred(d)'
    BY <2>1 DEF IInv, References, Referred, Alive
  <2>4. QED
    BY <2>1, <2>2, <2>3 DEF IInv, References, RtpReferred, EncoderHolds, Alive
<1>5. ASSUME NEW c \in Conn, NEW h \in Channel, NEW f \in Fd, NEW g \in Fd \cup {None},
             SetupUdpFails(c, h, f, g)
      PROVE References'
  BY <1>0, <1>5 DEF SetupUdpFails
<1>6. ASSUME NEW c \in Conn, HandleCmdPlay(c) PROVE References'
  BY <1>0, <1>6 DEF HandleCmdPlay
<1>7. ASSUME NEW c \in Conn, HandleCmdTeardown(c) PROVE References'
  BY <1>7, CloseRefs DEF HandleCmdTeardown
<1>8. ASSUME NEW c \in Conn, HangUp(c) PROVE References'
  BY <1>8, CloseRefs DEF HangUp
<1>9. ASSUME RemoveConnection PROVE References'
  <2> DEFINE k == Head(queue).arg
             c == connections[k]
  <2>1. /\ k \in Fd /\ c \in Conn /\ tcp[c] = "closed" /\ sock[c] = k
        /\ connections' = [connections EXCEPT ![k] = None]
        /\ \/ encoder.at # c /\ Destroy(c)
           \/ encoder.at = c /\ UNCHANGED <<tcp, rtp, owner, foreign>>
        /\ UNCHANGED <<sock, channels, session_id, rtcp, encoder>>
    BY <1>9, RemovedWas
  <2> HIDE DEF c, k
  <2>2. \A f \in Fd : connections'[f] = IF connections[f] = c THEN None ELSE connections[f]
    <3>1. \A f \in Fd : connections[f] = c <=> f = k
      BY <2>1 DEF c, IInv, References, Referred
    <3>2. connections \in [Fd -> Conn \cup {None}]
      BY DEF IInv, TypeOK
    <3>3. QED
      BY <2>1, <3>1, <3>2
  <2>3. CASE encoder.at # c /\ Destroy(c)
    BY <2>1, <2>2, <2>3, DestroyRefs
  <2>4. CASE encoder.at = c /\ UNCHANGED <<tcp, rtp, owner, foreign>>
    <3>1. \A d \in Conn : Referred(d)'
      BY <2>1, <2>2, <2>4, RtspAssumption DEF IInv, TypeOK, References, Referred, Alive
    <3>2. QED
      BY <2>1, <2>4, <3>1 DEF IInv, References, Untouched, RtpReferred, EncoderHolds, Alive
  <2>5. QED
    BY <2>1, <2>3, <2>4
<1>10. ASSUME SendMedia PROVE References'
  <2> DEFINE c == Head(queue).arg
             q == Tail(queue)
  <2>1. c \in Conn
    BY <1>10, AfterTail, EventKinds DEF SendMedia, IInv, TypeOK
  <2>2. CASE Close(c, q)
    BY <1>10, <2>1, <2>2, CloseRefs DEF SendMedia
  <2>3. CASE UNCHANGED <<tcp, channels, clients>>
    BY <1>0, <1>10, <2>3 DEF SendMedia
  <2>4. QED
    BY <1>10, <2>2, <2>3 DEF SendMedia
<1>11. ASSUME NEW s \in Session, NEW h \in Channel, Collect(s, h) PROVE References'
  <2> DEFINE held == {clients[s][f] : f \in {f \in Fd : clients[s][f] # None
                                                         /\ rtp[clients[s][f]] = "alive"}}
  <2>1. /\ encoder = Idle /\ encoder' = [held |-> held, todo |-> held, at |-> None, channel |-> h]
        /\ UNCHANGED <<tcp, rtp, session_id, rtcp, channels, owner, sock, connections>>
    BY <1>11 DEF Collect
  <2>2. \A c \in held : rtp[c] = "alive"
    OBVIOUS
  <2> HIDE DEF held
  <2>3. encoder.at = None /\ encoder.held = {}
    BY <2>1 DEF Idle
  <2>4. /\ encoder'.held = held /\ encoder'.todo = held /\ encoder'.at = None
        /\ encoder'.channel = h
    BY <2>1
  <2>5. \A c \in Conn : RtpReferred(c)'
    BY <2>1, <2>3 DEF IInv, References, RtpReferred, Alive
  <2>6. \A c \in Conn : Referred(c)'
    BY <2>1, <2>3, RtspAssumption DEF IInv, References, Referred, Alive
  <2>7. \A c \in Conn : Untouched(c)'
    BY <2>1 DEF IInv, References, Untouched
  <2>8. QED
    BY <2>1, <2>2, <2>4, <2>5, <2>6, <2>7 DEF References, EncoderHolds
<1>12. ASSUME NEW c \in Conn, SendRtpPacket(c) PROVE References'
  <2>1. /\ c \in encoder.todo /\ encoder.at = None
        /\ encoder'.held = encoder.held /\ encoder'.todo = encoder.todo \ {c}
        /\ encoder'.channel = encoder.channel
        /\ encoder'.at \in {c, None} /\ (encoder'.at = c => Alive(c))
        /\ UNCHANGED <<tcp, rtp, session_id, rtcp, channels, owner, sock, connections>>
    BY <1>12, RtspAssumption DEF SendRtpPacket, IInv, TypeOK
  <2>2. EncoderHolds'
    BY <2>1 DEF IInv, References, EncoderHolds, Alive
  <2>3. \A d \in Conn : Referred(d)'
    BY <2>1, RtspAssumption DEF IInv, References, Referred, Alive
  <2>4. QED
    BY <2>1, <2>2, <2>3 DEF IInv, References, Untouched, RtpReferred, Alive
<1>13. ASSUME QueueMedia PROVE References'
  <2> DEFINE c == encoder.at
  <2>1. /\ c \in Conn /\ Alive(c) /\ c \in encoder.held /\ rtp[c] = "alive" /\ sock[c] \in Fd
        /\ \/ connections[sock[c]] = c /\ UNCHANGED <<tcp, rtp, owner, foreign>>
           \/ /\ tcp[c] = "closed" /\ Destroy(c)
              /\ \A f \in Fd : connections[f] # c
        /\ encoder' = [encoder EXCEPT !.at = None]
        /\ UNCHANGED <<sock, connections, channels, session_id, rtcp>>
    BY <1>13, QueuedWas
  <2>2. /\ encoder'.held = encoder.held /\ encoder'.todo = encoder.todo
        /\ encoder'.channel = encoder.channel /\ encoder'.at = None
    BY <2>1 DEF IInv, TypeOK
  <2> HIDE DEF c
  <2>3. CASE tcp[c] = "closed" /\ Destroy(c) /\ \A f \in Fd : connections[f] # c
    <3>1. c # None /\ encoder.at = c
      BY <2>1, RtspAssumption DEF c
    <3>2. QED
      BY <2>1, <2>2, <2>3, <3>1, DestroyRefs
  <2>4. CASE connections[sock[c]] = c /\ UNCHANGED <<tcp, rtp, owner, foreign>>
    <3>1. \A d \in Conn : Referred(d)'
      BY <2>1, <2>2, <2>4 DEF c, IInv, References, Referred, Alive
    <3>2. QED
      BY <2>1, <2>2, <2>4, <3>1 DEF IInv, References, Untouched, RtpReferred, EncoderHolds, Alive
  <2>5. QED
    BY <2>1, <2>3, <2>4
<1>14. ASSUME Release PROVE References'
  <2> DEFINE last == {c \in encoder.held : tcp[c] = "gone"}
             shut == [c \in last |-> SocketsOf(c)]
  <2>1. /\ encoder.at = None /\ encoder' = Idle
        /\ \A c \in Conn : rtp'[c] = IF c \in encoder.held /\ tcp[c] = "gone" THEN "gone" ELSE rtp[c]
        /\ UNCHANGED <<tcp, sock, connections, channels, session_id, rtcp>>
    BY <1>14 DEF Release
  <2>2. CloseSockets(shut) /\ DOMAIN shut \subseteq Conn
    BY <1>14 DEF Release, IInv, TypeOK
  <2> HIDE DEF shut
  <2>3. \A f \in Fd : owner'[f] \in {None, owner[f]}
    BY <2>2, ClosingFacts DEF IInv
  <2>4. encoder'.held = {} /\ encoder'.todo = {} /\ encoder'.at = None
    BY <2>1 DEF Idle
  <2>5. \A c \in Conn : Untouched(c)'
    BY <2>1, <2>3, RtspAssumption DEF IInv, References, Untouched
  <2>6. \A c \in Conn : Referred(c)'
    BY <2>1, <2>4, RtspAssumption DEF IInv, References, Referred, Alive
  <2>7. \A c \in Conn : RtpReferred(c)'
    BY <2>1, <2>4 DEF IInv, References, RtpReferred, Untouched, Alive, TypeOK
  <2>8. QED
    BY <2>4, <2>5, <2>6, <2>7 DEF References, EncoderHolds
<1>15. CASE UNCHANGED vars
  BY <1>0, <1>15
<1>16. QED
  BY <1>1, <1>2, <1>3, <1>4, <1>5, <1>6, <1>7, <1>8, <1>9, <1>10, <1>11, <1>12, <1>13, <1>14,
     <1>15 DEF Next, Request, SchedulerStep, EncoderStep

-----------------------------------------------------------------------------
(* The queue's invariant. *)
LEMMA CloseQueue ==
  ASSUME IInv, NEW c \in Conn, NEW q \in Seq(Event), RemovesOnce(q), RemovedAfter(q),
         Close(c, q), UNCHANGED <<rtp, connections, sock>>
  PROVE  QueueInv'
<1>1. /\ \A d \in Conn : tcp'[d] = IF d = c /\ tcp[c] = "open" THEN "closed" ELSE tcp[d]
      /\ queue' = IF tcp[c] = "open" THEN Append(q, [op |-> "remove", arg |-> sock[c]]) ELSE q
  BY CloseFacts DEF IInv
<1>2. CASE tcp[c] # "open"
  <2>1. tcp' = tcp /\ queue' = q
    BY <1>2 DEF Close
  <2>2. QED
    BY <2>1 DEF QueueInv, RemovesOnce, RemovedAfter, Alive
<1>3. CASE tcp[c] = "open"
  <2> DEFINE e == [op |-> "remove", arg |-> sock[c]]
             n == Len(q)
             r == Append(q, e)
  <2>1. sock[c] \in Fd /\ connections[sock[c]] = c /\ c # None
    BY <1>3, RtspAssumption DEF IInv, References, Referred
  <2>2. e \in Event /\ IsRemove(e, sock[c]) /\ e.op = "remove"
    BY <2>1, RemoveEvent DEF IsRemove
  <2> HIDE DEF e
  <2>3. /\ n \in Nat /\ Len(r) = n + 1 /\ r[n + 1] = e
        /\ \A i \in 1..n : q[i] \in Event /\ r[i] = q[i]
    BY <2>2, AfterAppend
  <2>4. queue' = r
    BY <1>1, <1>3 DEF e
  <2> HIDE DEF r
  <2>5. \A i \in 1..n : ~IsRemove(q[i], sock[c])
    BY <1>3, <2>1 DEF RemovesOnce, IsRemove
  <2>6. RemovesOnce(queue)'
    <3>1. ASSUME NEW i \in 1..Len(r), r[i].op = "remove"
          PROVE  /\ connections[r[i].arg] # None /\ tcp'[connections[r[i].arg]] = "closed"
                 /\ \A j \in 1..Len(r) : IsRemove(r[j], r[i].arg) => j = i
      <4>1. CASE i = n + 1
        <5>1. r[i].arg = sock[c]
          BY <2>2, <2>3, <4>1 DEF IsRemove
        <5>2. tcp'[c] = "closed"
          BY <1>1, <1>3
        <5>3. QED
          BY <2>1, <2>3, <2>5, <4>1, <5>1, <5>2
      <4>2. CASE i # n + 1
        <5>1. i \in 1..n /\ r[i] = q[i]
          BY <2>3, <4>2
        <5>2. r[i].arg # sock[c] /\ r[i].arg \in Fd
          BY <2>3, <2>5, <3>1, <5>1, EventKinds DEF IsRemove
        <5>3. connections[r[i].arg] # None /\ tcp[connections[r[i].arg]] = "closed"
              /\ connections[r[i].arg] \in Conn
          BY <3>1, <5>1, <5>2 DEF RemovesOnce, IInv, TypeOK
        <5>4. tcp'[connections[r[i].arg]] = "closed"
          BY <1>1, <1>3, <5>3
        <5>5. \A j \in 1..n : IsRemove(r[j], r[i].arg) => j = i
          BY <2>3, <3>1, <5>1 DEF RemovesOnce
        <5>6. ~IsRemove(r[n + 1], r[i].arg)
          BY <2>2, <2>3, <5>2 DEF IsRemove
        <5>7. QED
          BY <2>3, <5>3, <5>4, <5>5, <5>6
      <4>3. QED
        BY <4>1, <4>2
    <3>2. QED
      BY <2>4, <3>1 DEF RemovesOnce
  <2>7. RemovedAfter(queue)'
    <3>1. ASSUME NEW i \in 1..Len(r), r[i].op = "media", r[i].wasOpen
          PROVE  LET d == r[i].arg
                 IN  /\ rtp[d] = "alive" /\ tcp'[d] \in {"open", "closed"}
                     /\ tcp'[d] = "closed" =>
                          /\ connections[sock[d]] = d
                          /\ \E j \in 1..Len(r) : j > i /\ IsRemove(r[j], sock[d])
      <4> DEFINE d == r[i].arg
      <4>1. i \in 1..n /\ r[i] = q[i]
        BY <2>2, <2>3, <3>1
      <4>2. d \in Conn
        BY <2>3, <3>1, <4>1, EventKinds
      <4>3. /\ rtp[d] = "alive" /\ tcp[d] \in {"open", "closed"}
            /\ tcp[d] = "closed" => /\ connections[sock[d]] = d
                                    /\ \E j \in 1..n : j > i /\ IsRemove(r[j], sock[d])
        BY <2>3, <3>1, <4>1 DEF RemovedAfter, Alive
      <4>4. n + 1 > i /\ n + 1 \in 1..Len(r) /\ 1..n \subseteq 1..Len(r)
        BY <2>3, <4>1
      <4> HIDE DEF d
      <4>5. CASE d = c
        BY <1>1, <1>3, <2>1, <2>2, <2>3, <4>3, <4>4, <4>5 DEF d
      <4>6. CASE d # c
        BY <1>1, <4>2, <4>3, <4>4, <4>6 DEF d
      <4>7. QED
        BY <4>5, <4>6
    <3>2. QED
      BY <2>4, <3>1 DEF RemovedAfter, Alive
  <2>8. QED
    BY <2>6, <2>7 DEF QueueInv
<1>4. QED
  BY <1>2, <1>3

LEMMA QueueStep == ASSUME IInv, [Next]_vars PROVE QueueInv'
<1> USE DEF objects, rtpState, history, vars
<1>0. ASSUME UNCHANGED <<tcp, rtp, sock, connections, queue>> PROVE QueueInv'
  BY <1>0 DEF IInv, QueueInv, RemovesOnce, RemovedAfter, Alive
<1>a. /\ queue \in Seq(Event) /\ Len(queue) \in Nat
      /\ \A i \in 1..Len(queue) : queue[i] \in Event
  BY DEF IInv, TypeOK
<1>1. ASSUME NEW c \in Conn, NEW f \in Fd, Accept(c, f) PROVE QueueInv'
  <2>1. /\ tcp[c] = "none" /\ rtp[c] = "none" /\ queue' = queue /\ rtp' = rtp
        /\ \A d \in Conn \ {c} : tcp'[d] = tcp[d] /\ sock'[d] = sock[d]
        /\ \A k \in Fd : connections[k] # None => connections'[k] = connections[k]
    BY <1>1 DEF Accept, IInv, TypeOK, References, Untouched
  <2>2. RemovesOnce(queue)'
    <3>1. \A i \in 1..Len(queue) : queue[i].op = "remove" =>
            queue[i].arg \in Fd /\ connections[queue[i].arg] \in Conn \ {c}
      BY <1>a, <2>1, EventKinds DEF IInv, QueueInv, RemovesOnce, TypeOK
    <3>2. QED
      BY <2>1, <3>1, RtspAssumption DEF IInv, QueueInv, RemovesOnce
  <2>3. RemovedAfter(queue)'
    <3>1. ASSUME NEW i \in 1..Len(queue), queue[i].op = "media", queue[i].wasOpen
          PROVE  LET d == queue[i].arg
                 IN  /\ rtp'[d] = "alive" /\ tcp'[d] \in {"open", "closed"}
                     /\ tcp'[d] = "closed" =>
                          /\ connections'[sock'[d]] = d
                          /\ \E j \in 1..Len(queue) : j > i /\ IsRemove(queue[j], sock'[d])
      <4> DEFINE d == queue[i].arg
      <4>1. d \in Conn
        BY <1>a, <3>1, EventKinds
      <4>2. /\ rtp[d] = "alive" /\ Alive(d)
            /\ tcp[d] = "closed" => /\ connections[sock[d]] = d
                                    /\ \E j \in 1..Len(queue) : j > i /\ IsRemove(queue[j], sock[d])
        BY <3>1 DEF IInv, QueueInv, RemovedAfter
      <4>3. d # c /\ sock[d] \in Fd
        BY <2>1, <4>1, <4>2 DEF IInv, References, Referred, Alive
      <4> HIDE DEF d
      <4>4. QED
        BY <2>1, <4>1, <4>2, <4>3, RtspAssumption DEF d, Alive
    <3>2. QED
      BY <2>1, <3>1 DEF RemovedAfter, Alive
  <2>4. QED
    BY <2>2, <2>3 DEF QueueInv
<1>2. ASSUME NEW c \in Conn, HandleCmdDescribe(c) PROVE QueueInv'
  <2>1. /\ \A d \in Conn : rtp[d] = "alive" => rtp'[d] = "alive"
        /\ UNCHANGED <<tcp, sock, connections, queue>>
    BY <1>2 DEF HandleCmdDescribe, IInv, TypeOK
  <2>2. \A i \in 1..Len(queue) : queue[i].op = "media" => queue[i].arg \in Conn
    BY <1>a, EventKinds
  <2>3. QED
    BY <2>1, <2>2 DEF IInv, QueueInv, RemovesOnce, RemovedAfter, Alive
<1>3. ASSUME NEW c \in Conn, NEW h \in Channel, SetupRtpOverTcp(c, h) PROVE QueueInv'
  BY <1>0, <1>3 DEF SetupRtpOverTcp
<1>4. ASSUME NEW c \in Conn, NEW h \in Channel, NEW f \in Fd, NEW g \in Fd,
             SetupRtpOverUdp(c, h, f, g)
      PROVE QueueInv'
  BY <1>0, <1>4 DEF SetupRtpOverUdp
<1>5. ASSUME NEW c \in Conn, NEW h \in Channel, NEW f \in Fd, NEW g \in Fd \cup {None},
             SetupUdpFails(c, h, f, g)
      PROVE QueueInv'
  BY <1>0, <1>5 DEF SetupUdpFails
<1>6. ASSUME NEW c \in Conn, HandleCmdPlay(c) PROVE QueueInv'
  BY <1>0, <1>6 DEF HandleCmdPlay
<1>7. ASSUME NEW c \in Conn, HandleCmdTeardown(c) PROVE QueueInv'
  BY <1>7, <1>a, CloseQueue DEF HandleCmdTeardown, IInv, QueueInv
<1>8. ASSUME NEW c \in Conn, HangUp(c) PROVE QueueInv'
  BY <1>8, <1>a, CloseQueue DEF HangUp, IInv, QueueInv
<1>9. ASSUME RemoveConnection PROVE QueueInv'
  <2> DEFINE k == Head(queue).arg
             c == connections[k]
             r == Tail(queue)
  <2>1. /\ k \in Fd /\ c \in Conn /\ tcp[c] = "closed" /\ sock[c] = k
        /\ connections' = [connections EXCEPT ![k] = None]
        /\ queue # <<>> /\ queue' = r
        /\ 1 \in 1..Len(queue) /\ IsRemove(queue[1], k)
        /\ \/ encoder.at # c /\ Destroy(c)
           \/ encoder.at = c /\ UNCHANGED <<tcp, rtp, owner, foreign>>
        /\ UNCHANGED <<sock, channels, session_id, rtcp, encoder>>
    BY <1>9, RemovedWas DEF IsRemove
  <2>2. /\ Len(r) = Len(queue) - 1
        /\ \A i \in 1..Len(r) : i + 1 \in 1..Len(queue) /\ r[i] = queue[i + 1]
    BY <2>1, <1>a, AfterTail
  <2>3. RemovesOnce(r)
    BY <2>1, TailKeeps DEF IInv
  <2> HIDE DEF c, k, r
  <2>4. /\ \A d \in Conn : d # c => tcp'[d] = tcp[d] /\ rtp'[d] = rtp[d]
    BY <2>1, DestroyFacts DEF IInv
  <2>5. \A f \in Fd : f # k => connections'[f] = connections[f] /\ connections[f] # c
    BY <2>1 DEF IInv, TypeOK, References, Referred
  <2>6. \A i \in 2..Len(queue) : ~IsRemove(queue[i], k)
    BY <2>1 DEF IInv, QueueInv, RemovesOnce, IsRemove
  <2>7. RemovesOnce(queue)'
    <3>1. \A i \in 1..Len(r) : r[i].op = "remove" =>
            /\ r[i].arg \in Fd /\ r[i].arg # k /\ connections[r[i].arg] \in Conn
      <4>1. ASSUME NEW i \in 1..Len(r), r[i].op = "remove" PROVE r[i].arg \in Fd /\ r[i].arg # k
        <5>1. i + 1 \in 2..Len(queue) /\ r[i] = queue[i + 1] /\ r[i] \in Event
          BY <1>a, <2>2
        <5>2. QED
          BY <2>6, <4>1, <5>1, EventKinds DEF IsRemove
      <4>2. QED
        BY <2>3, <4>1 DEF RemovesOnce, IInv, TypeOK
    <3>2. QED
      BY <2>1, <2>3, <2>4, <2>5, <3>1 DEF RemovesOnce
  <2>8. RemovedAfter(queue)'
    <3>1. ASSUME NEW i \in 1..Len(r), r[i].op = "media", r[i].wasOpen
          PROVE  LET d == r[i].arg
                 IN  /\ rtp'[d] = "alive" /\ tcp'[d] \in {"open", "closed"}
                     /\ tcp'[d] = "closed" =>
                          /\ connections'[sock'[d]] = d
                          /\ \E j \in 1..Len(r) : j > i /\ IsRemove(r[j], sock'[d])
      <4> DEFINE d == r[i].arg
      <4>1. i + 1 \in 1..Len(queue) /\ r[i] = queue[i + 1] /\ d \in Conn
        BY <1>a, <2>2, <3>1, EventKinds
      <4>2. /\ rtp[d] = "alive" /\ Alive(d)
            /\ tcp[d] = "closed" =>
                 /\ connections[sock[d]] = d
                 /\ \E j \in 1..Len(queue) : j > i + 1 /\ IsRemove(queue[j], sock[d])
        BY <3>1, <4>1 DEF IInv, QueueInv, RemovedAfter
      <4>3. d # c /\ sock[d] \in Fd
        BY <2>1, <2>6, <4>1, <4>2 DEF IInv, References, Referred, Alive
      <4>4. tcp[d] = "closed" => \E j \in 1..Len(r) : j > i /\ IsRemove(r[j], sock[d])
        <5>1. ASSUME NEW j \in 1..Len(queue), j > i + 1, IsRemove(queue[j], sock[d])
              PROVE  \E m \in 1..Len(r) : m > i /\ IsRemove(r[m], sock[d])
          <6>1. j - 1 \in 1..Len(r) /\ j - 1 > i /\ (j - 1) + 1 = j
            BY <1>a, <2>2, <5>1
          <6>2. QED
            BY <2>2, <5>1, <6>1
        <5>2. QED
          BY <4>2, <5>1
      <4>5. tcp[d] = "closed" => sock[d] # k
        BY <4>2, <4>3 DEF c
      <4> HIDE DEF d
      <4>6. QED
        BY <2>1, <2>4, <2>5, <4>1, <4>2, <4>3, <4>4, <4>5 DEF d, Alive
    <3>2. QED
      BY <2>1, <3>1 DEF RemovedAfter, Alive
  <2>9. QED
    BY <2>7, <2>8 DEF QueueInv
<1>10. ASSUME SendMedia PROVE QueueInv'
  <2> DEFINE c == Head(queue).arg
             q == Tail(queue)
  <2>1. c \in Conn /\ q \in Seq(Event) /\ queue # <<>> /\ Head(queue).op = "media"
    BY <1>10, AfterTail, EventKinds DEF SendMedia, IInv, TypeOK
  <2>2. RemovesOnce(q) /\ RemovedAfter(q)
    BY <2>1, TailKeeps DEF IInv
  <2>3. UNCHANGED <<rtp, connections, sock>>
    BY <1>10 DEF SendMedia
  <2>4. CASE Close(c, q)
    <3> HIDE DEF c, q
    <3>1. QED
      BY <2>1, <2>2, <2>3, <2>4, CloseQueue
  <2>5. CASE queue' = q /\ UNCHANGED <<tcp, channels, clients>>
    BY <2>2, <2>3, <2>5 DEF QueueInv, RemovesOnce, RemovedAfter, Alive
  <2>6. QED
    BY <1>10, <2>4, <2>5 DEF SendMedia
<1>11. ASSUME NEW s \in Session, NEW h \in Channel, Collect(s, h) PROVE QueueInv'
  BY <1>0, <1>11 DEF Collect
<1>12. ASSUME NEW c \in Conn, SendRtpPacket(c) PROVE QueueInv'
  BY <1>0, <1>12 DEF SendRtpPacket
<1>13. ASSUME QueueMedia PROVE QueueInv'
  <2> DEFINE c == encoder.at
             e == [op |-> "media", arg |-> c, channel |-> encoder.channel,
                   wasOpen |-> tcp[c] = "open"]
             n == Len(queue)
             r == Append(queue, e)
  <2>1. /\ c \in Conn /\ Alive(c) /\ c \in encoder.held /\ rtp[c] = "alive" /\ sock[c] \in Fd
        /\ \/ connections[sock[c]] = c /\ UNCHANGED <<tcp, rtp, owner, foreign>>
           \/ /\ tcp[c] = "closed" /\ Destroy(c)
              /\ \A f \in Fd : connections[f] # c
        /\ UNCHANGED <<sock, connections>>
    BY <1>13, QueuedWas
  <2>2. e \in Event
    BY <2>1 DEF Event, IInv, References, EncoderHolds
  <2>3. queue' = r
    BY <1>13 DEF QueueMedia
  <2>4. e.op = "media" /\ e.arg = c /\ (e.wasOpen <=> tcp[c] = "open")
    OBVIOUS
  <2> HIDE DEF e, c
  <2>5. /\ n \in Nat /\ Len(r) = n + 1 /\ r[n + 1] = e
        /\ \A i \in 1..n : queue[i] \in Event /\ r[i] = queue[i]
    BY <1>a, <2>2, AfterAppend
  <2> HIDE DEF r
  <2>6. \A d \in Conn : d # c \/ connections[sock[c]] = c => tcp'[d] = tcp[d] /\ rtp'[d] = rtp[d]
    BY <2>1, DestroyFacts DEF IInv
  <2>7. RemovesOnce(queue)'
    <3>1. \A i \in 1..n : queue[i].op = "remove" =>
            /\ queue[i].arg \in Fd /\ connections[queue[i].arg] \in Conn
      BY <2>5, EventKinds DEF RemovesOnce, IInv, TypeOK, QueueInv
    <3>2. \A i \in 1..n : queue[i].op = "remove" => tcp'[connections[queue[i].arg]] = "closed"
      BY <2>1, <2>6, <3>1 DEF RemovesOnce, IInv, QueueInv
    <3>3. \A i \in 1..Len(r) : r[i].op = "remove" => i \in 1..n
      BY <2>4, <2>5
    <3>4. \A j \in 1..Len(r), k \in Fd : IsRemove(r[j], k) => j \in 1..n
      BY <2>4, <2>5 DEF IsRemove
    <3>5. \A i \in 1..Len(r) : r[i].op = "remove" =>
            /\ connections[r[i].arg] # None /\ tcp'[connections[r[i].arg]] = "closed"
            /\ \A j \in 1..Len(r) : IsRemove(r[j], r[i].arg) => j = i
      BY <2>5, <3>1, <3>2, <3>3, <3>4 DEF RemovesOnce, IInv, QueueInv
    <3>6. QED
      BY <2>1, <2>3, <3>5 DEF RemovesOnce
  <2>8. RemovedAfter(queue)'
    <3>1. ASSUME NEW i \in 1..Len(r), r[i].op = "media", r[i].wasOpen
          PROVE  LET d == r[i].arg
                 IN  /\ rtp'[d] = "alive" /\ tcp'[d] \in {"open", "closed"}
                     /\ tcp'[d] = "closed" =>
                          /\ connections[sock[d]] = d
                          /\ \E j \in 1..Len(r) : j > i /\ IsRemove(r[j], sock[d])
      <4> DEFINE d == r[i].arg
      <4>1. CASE i = n + 1
        <5>1. d = c /\ tcp[c] = "open"
          BY <2>4, <2>5, <3>1, <4>1
        <5>2. tcp'[c] = "open" /\ rtp'[c] = "alive"
          BY <2>1, <2>6, <5>1 DEF IInv, References, Referred
        <5>3. QED
          BY <5>1, <5>2 DEF Alive
      <4>2. CASE i # n + 1
        <5>1. i \in 1..n /\ r[i] = queue[i] /\ d \in Conn
          BY <2>5, <3>1, <4>2, EventKinds
        <5>2. /\ rtp[d] = "alive" /\ Alive(d)
              /\ tcp[d] = "closed" => /\ connections[sock[d]] = d
                                      /\ \E j \in 1..n : j > i /\ IsRemove(queue[j], sock[d])
          BY <3>1, <5>1 DEF IInv, QueueInv, RemovedAfter
        <5>3. d # c \/ connections[sock[c]] = c
          BY <2>1, <5>2
        <5>4. 1..n \subseteq 1..Len(r)
          BY <2>5
        <5> HIDE DEF d
        <5>5. tcp'[d] = tcp[d] /\ rtp'[d] = rtp[d]
          BY <2>6, <5>1, <5>3
        <5>6. QED
          BY <2>5, <5>2, <5>4, <5>5 DEF d, Alive
      <4>3. QED
        BY <4>1, <4>2
    <3>2. QED
      BY <2>1, <2>3, <3>1 DEF RemovedAfter, Alive
  <2>9. QED
    BY <2>7, <2>8 DEF QueueInv
<1>14. ASSUME Release PROVE QueueInv'
  <2>1. /\ \A c \in Conn : Alive(c) => rtp'[c] = rtp[c]
        /\ UNCHANGED <<tcp, sock, connections, queue>>
    BY <1>14 DEF Release, Alive
  <2>2. \A i \in 1..Len(queue) : queue[i].op = "media" => queue[i].arg \in Conn
    BY <1>a, EventKinds
  <2>3. QED
    BY <2>1, <2>2 DEF IInv, QueueInv, RemovesOnce, RemovedAfter, Alive
<1>15. CASE UNCHANGED vars
  BY <1>0, <1>15
<1>16. QED
  BY <1>1, <1>2, <1>3, <1>4, <1>5, <1>6, <1>7, <1>8, <1>9, <1>10, <1>11, <1>12, <1>13, <1>14,
     <1>15 DEF Next, Request, SchedulerStep, EncoderStep

-----------------------------------------------------------------------------
(* The descriptors. *)
LEMMA SocketsAre ==
  ASSUME NEW c \in Conn, NEW f
  PROVE  f \in SocketsOf(c) <=> \E h \in Channel : f = rtpfd[c][h] \/ f = rtcpfd[c][h]
  BY DEF SocketsOf

LEMMA SocketTypes ==
  ASSUME TypeOK, NEW c \in Conn
  PROVE  SocketsOf(c) \subseteq Fd \cup {None}
<1>1. \A h \in Channel : rtpfd[c][h] \in Fd \cup {None} /\ rtcpfd[c][h] \in Fd \cup {None}
  BY DEF TypeOK
<1>2. QED
  BY <1>1 DEF SocketsOf

\* A step of another connection, which takes free descriptors and no others.
LEMMA OthersKeep ==
  ASSUME IInv, foreign = {}, NEW d \in Conn,
         tcp'[d] = tcp[d], sock'[d] = sock[d], rtp'[d] = rtp[d], rtpfd'[d] = rtpfd[d],
         rtcpfd'[d] = rtcpfd[d], rtcp'[d] = rtcp[d],
         d \in unbound' <=> d \in unbound,
         replaced \subseteq replaced',
         \A f \in Fd : owner[f] = d => owner'[f] = d,
         \A f \in Fd : channels'[f] = d => channels[f] = d
  PROVE  Owns(d)'
<1>1. SocketsOf(d)' = SocketsOf(d)
  BY DEF SocketsOf
<1>2. Owns(d) /\ (Alive(d)' <=> Alive(d))
  BY DEF IInv, Descriptors, Alive
<1>3. Alive(d) => sock[d] \in Fd
  BY DEF IInv, References, Referred, Alive
<1>4. OwnsSocket(d)'
  BY <1>2, <1>3 DEF Owns, OwnsSocket
<1>5. OwnsRtp(d)'
  <2>1. SocketsOf(d) \subseteq Fd \cup {None}
    BY SocketTypes DEF IInv
  <2>2. QED
    BY <1>1, <1>2, <2>1 DEF Owns, OwnsRtp
<1>6. ChannelsOf(d)'
  BY <1>1, <1>2 DEF Owns, ChannelsOf
<1>7. RtcpIsApart(d)'
  <2>1. \A h \in Channel : rtcp[d][h] \in Fd \cup {None}
    BY DEF IInv, TypeOK
  <2>2. QED
    BY <1>2, <2>1 DEF Owns, RtcpIsApart
<1>8. NoSockets(d)'
  BY <1>1, <1>2 DEF Owns, NoSockets
<1>9. QED
  BY <1>4, <1>5, <1>6, <1>7, <1>8 DEF Owns

LEMMA CloseKeeps ==
  ASSUME IInv, NEW c \in Conn, NEW q, Close(c, q),
         UNCHANGED <<rtp, rtpfd, rtcpfd, rtcp, owner, sock, unbound, replaced, foreign>>
  PROVE  Descriptors'
<1> SUFFICES ASSUME foreign = {}, NEW d \in Conn PROVE Owns(d)'
  BY DEF Descriptors
<1>1. /\ \A e \in Conn : tcp'[e] = IF e = c /\ tcp[c] = "open" THEN "closed" ELSE tcp[e]
      /\ tcp[c] = "open" =>
           \A f \in Fd : channels'[f] = IF f = sock[c] \/ \E h \in Channel : f = rtcp[c][h]
                                          THEN None ELSE channels[f]
      /\ tcp[c] # "open" => channels' = channels
  BY CloseFacts DEF IInv
<1>2. CASE d # c \/ tcp[c] # "open"
  <2>1. /\ tcp'[d] = tcp[d] /\ \A f \in Fd : channels'[f] = d => channels[f] = d
    BY <1>1, <1>2, RtspAssumption
  <2>2. QED
    BY <2>1, OthersKeep
<1>3. CASE d = c /\ tcp[c] = "open"
  <2>1. SocketsOf(c)' = SocketsOf(c) /\ Owns(c)
    BY DEF SocketsOf, IInv, Descriptors
  <2>2. tcp'[c] = "closed"
    BY <1>1, <1>3
  <2>3. OwnsSocket(c)' /\ OwnsRtp(c)' /\ NoSockets(c)' /\ RtcpIsApart(c)'
    BY <1>3, <2>1, <2>2 DEF Owns, OwnsSocket, OwnsRtp, NoSockets, RtcpIsApart, Alive
  <2>4. ChannelsOf(c)'
    <3>1. ASSUME c \notin unbound, NEW f \in Fd, channels'[f] = c
          PROVE  owner[f] = c /\ f \in replaced /\ f # sock[c] /\ f \notin SocketsOf(c)
      <4>1. channels[f] = c /\ f # sock[c] /\ \A h \in Channel : f # rtcp[c][h]
        BY <1>1, <1>3, <3>1, RtspAssumption
      <4>2. QED
        BY <2>1, <3>1, <4>1 DEF Owns, ChannelsOf
    <3>2. QED
      BY <2>1, <2>2, <3>1 DEF ChannelsOf
  <2>5. QED
    BY <1>3, <2>3, <2>4 DEF Owns
<1>4. QED
  BY <1>2, <1>3

\* What a destroyed connection closes has no channel: no channel is left but those of
\* RTCP sockets that were replaced, which nobody closes.
LEMMA DestroyKeeps ==
  ASSUME IInv, NEW c \in Conn, tcp[c] = "closed", Destroy(c),
         UNCHANGED <<rtpfd, rtcpfd, rtcp, channels, sock, unbound, replaced>>
  PROVE  Descriptors'
<1> SUFFICES ASSUME foreign' = {}, NEW d \in Conn PROVE Owns(d)'
  BY DEF Descriptors
<1>1. /\ \A e \in Conn : tcp'[e] = IF e = c THEN "gone" ELSE tcp[e]
      /\ \A e \in Conn : rtp'[e] = IF e = c /\ c \notin encoder.held /\ rtp[c] # "none"
                                     THEN "gone" ELSE rtp[e]
      /\ foreign = {}
      /\ \A f \in Fd : owner'[f] # owner[f] =>
           owner[f] = c /\ (f = sock[c] \/ (c \notin encoder.held /\ f \in SocketsOf(c)))
  BY DestroyFacts DEF IInv
<1>2. CASE d # c
  <2>1. tcp'[d] = tcp[d] /\ rtp'[d] = rtp[d]
    BY <1>1, <1>2
  <2>2. \A f \in Fd : owner[f] = d => owner'[f] = d
    BY <1>1, <1>2
  <2>3. QED
    BY <1>1, <2>1, <2>2, OthersKeep
<1>3. CASE d = c
  <2>1. SocketsOf(c)' = SocketsOf(c) /\ Owns(c) /\ tcp'[c] = "gone"
    BY <1>1 DEF SocketsOf, IInv, Descriptors
  <2>2. SocketsOf(c) \subseteq Fd \cup {None}
    BY SocketTypes DEF IInv
  <2>3. OwnsSocket(c)' /\ RtcpIsApart(c)'
    BY <2>1 DEF OwnsSocket, RtcpIsApart, Alive
  <2>4. OwnsRtp(c)'
    <3>1. ASSUME rtp'[c] = "alive", NEW f \in SocketsOf(c) \ {None}
          PROVE  owner'[f] = c \/ c \in unbound \/ f = sock[c]
      <4>1. rtp[c] = "alive" /\ c \in encoder.held
        BY <1>1, <3>1
      <4>2. owner[f] = c \/ c \in unbound
        BY <2>1, <3>1, <4>1 DEF Owns, OwnsRtp
      <4>3. f \in Fd
        BY <2>2, <3>1
      <4>4. QED
        BY <1>1, <4>1, <4>2, <4>3
    <3>2. QED
      BY <2>1, <3>1 DEF OwnsRtp
  <2>5. ChannelsOf(c)'
    <3>1. ASSUME c \notin unbound, NEW f \in Fd, channels[f] = c
          PROVE  owner'[f] = c /\ f \in replaced /\ f # sock[c] /\ f \notin SocketsOf(c)
      <4>1. owner[f] = c /\ f \in replaced /\ f # sock[c] /\ f \notin SocketsOf(c)
        BY <2>1, <3>1 DEF Owns, ChannelsOf
      <4>2. QED
        BY <1>1, <4>1
    <3>2. QED
      BY <2>1, <3>1 DEF ChannelsOf
  <2>6. NoSockets(c)'
    BY <1>1, <2>1 DEF Owns, NoSockets
  <2>7. QED
    BY <1>3, <2>3, <2>4, <2>5, <2>6 DEF Owns
<1>4. QED
  BY <1>2, <1>3

\* A connection that may be set up.
LEMMA SetupFacts ==
  ASSUME IInv, NEW c \in Conn, CanSetup(c)
  PROVE  /\ tcp[c] = "open" /\ sock[c] \in Fd /\ rtp[c] = "alive"
         /\ \A f \in Fd : owner[f] = None => channels[f] = None
         /\ foreign = {} /\ c \notin unbound =>
              \A f \in SocketsOf(c) \cup {sock[c]} : f # None => owner[f] = c
         /\ foreign = {} => owner[sock[c]] = c
<1>1. tcp[c] = "open" /\ sock[c] \in Fd /\ SelectWorks
  BY ReadableFacts DEF CanSetup, IInv
<1>2. rtp[c] = "alive"
  BY <1>1 DEF CanSetup, IInv, References, RtpReferred, TypeOK
<1>3. foreign = {} => owner[sock[c]] = c
  BY <1>1 DEF IInv, Descriptors, Owns, OwnsSocket, Alive
<1>4. foreign = {} /\ c \notin unbound => \A f \in SocketsOf(c) : f # None => owner[f] = c
  BY <1>1, <1>2 DEF IInv, Descriptors, Owns, OwnsRtp
<1>5. QED
  BY <1>1, <1>2, <1>3, <1>4 DEF SelectWorks

LEMMA SetupTcpKeeps ==
  ASSUME IInv, NEW c \in Conn, NEW h \in Channel, SetupRtpOverTcp(c, h)
  PROVE  Descriptors'
<1> SUFFICES ASSUME foreign = {}, NEW d \in Conn PROVE Owns(d)'
  BY DEF Descriptors, SetupRtpOverTcp
<1>1. /\ \A e \in Conn \ {c} : rtpfd'[e] = rtpfd[e] /\ rtcpfd'[e] = rtcpfd[e]
      /\ \A k \in Channel : /\ rtpfd'[c][k] = IF k = h THEN sock[c] ELSE rtpfd[c][k]
                            /\ rtcpfd'[c][k] = IF k = h THEN sock[c] ELSE rtcpfd[c][k]
      /\ UNCHANGED <<tcp, sock, rtp, channels, owner, rtcp, foreign, unbound, replaced>>
  BY DEF SetupRtpOverTcp, IInv, TypeOK, objects
<1>2. CASE d # c
  BY <1>1, <1>2, OthersKeep
<1>3. CASE d = c
  <2>1. /\ tcp[c] = "open" /\ sock[c] \in Fd /\ rtp[c] = "alive" /\ owner[sock[c]] = c
        /\ c \notin unbound => \A f \in SocketsOf(c) : f # None => owner[f] = c
        /\ Owns(c)
    BY SetupFacts DEF SetupRtpOverTcp, IInv, Descriptors
  <2>2. SocketsOf(c)' \subseteq SocketsOf(c) \cup {sock[c]}
    BY <1>1 DEF SocketsOf
  <2>3. OwnsSocket(c)'
    BY <1>1, <2>1 DEF OwnsSocket
  <2>4. OwnsRtp(c)'
    BY <1>1, <2>1, <2>2 DEF OwnsRtp
  <2>5. ChannelsOf(c)'
    BY <1>1, <2>1, <2>2 DEF Owns, ChannelsOf
  <2>6. RtcpIsApart(c)'
    BY <1>1, <2>1 DEF Owns, RtcpIsApart
  <2>7. NoSockets(c)'
    BY <1>1, <2>1 DEF NoSockets
  <2>8. QED
    BY <1>3, <2>3, <2>4, <2>5, <2>6, <2>7 DEF Owns
<1>4. QED
  BY <1>2, <1>3

LEMMA SetupUdpKeeps ==
  ASSUME IInv, NEW c \in Conn, NEW h \in Channel, NEW f \in Fd, NEW g \in Fd,
         SetupRtpOverUdp(c, h, f, g)
  PROVE  Descriptors'
<1> SUFFICES ASSUME foreign = {}, NEW d \in Conn PROVE Owns(d)'
  BY DEF Descriptors, SetupRtpOverUdp
<1>1. /\ \A e \in Conn \ {c} : /\ rtpfd'[e] = rtpfd[e] /\ rtcpfd'[e] = rtcpfd[e]
                               /\ rtcp'[e] = rtcp[e]
      /\ \A k \in Channel : /\ rtpfd'[c][k] = IF k = h THEN f ELSE rtpfd[c][k]
                            /\ rtcpfd'[c][k] = IF k = h THEN g ELSE rtcpfd[c][k]
                            /\ rtcp'[c][k] = IF k = h THEN g ELSE rtcp[c][k]
      /\ owner[f] = None /\ owner[g] = None /\ f # g
      /\ \A e \in Fd : owner'[e] = IF e \in {f, g} THEN c ELSE owner[e]
      /\ \A e \in Fd : channels'[e] = IF e = g /\ channels[e] = None THEN c ELSE channels[e]
      /\ replaced' = IF rtcp[c][h] # None THEN replaced \cup {rtcp[c][h]} ELSE replaced
      /\ UNCHANGED <<tcp, sock, rtp, foreign, unbound>>
  BY DEF SetupRtpOverUdp, OverUdp, Free, IInv, TypeOK
<1>2. CASE d # c
  <2>1. replaced \subseteq replaced' /\ \A e \in Fd : owner[e] = d => owner'[e] = d
    BY <1>1, <1>2, RtspAssumption
  <2>2. QED
    BY <1>1, <1>2, <2>1, OthersKeep
<1>3. CASE d = c
  <2>1. /\ tcp[c] = "open" /\ sock[c] \in Fd /\ rtp[c] = "alive" /\ owner[sock[c]] = c
        /\ c \notin unbound => \A e \in SocketsOf(c) : e # None => owner[e] = c
        /\ channels[g] = None /\ Owns(c) /\ c # None
    BY <1>1, SetupFacts, RtspAssumption DEF SetupRtpOverUdp, IInv, Descriptors
  <2>2. SocketsOf(c)' \subseteq SocketsOf(c) \cup {f, g}
    BY <1>1 DEF SocketsOf
  <2>3. SocketsOf(c) \subseteq Fd \cup {None} /\ None \notin Fd
    <3>1. SocketsOf(c) \subseteq Fd \cup {None}
      BY SocketTypes DEF IInv
    <3>2. QED
      BY <3>1, RtspAssumption
  <2>4. OwnsSocket(c)'
    BY <1>1, <2>1 DEF OwnsSocket
  <2>5. OwnsRtp(c)'
    BY <1>1, <2>1, <2>2, <2>3 DEF OwnsRtp
  <2>6. RtcpIsApart(c)'
    <3> SUFFICES ASSUME c \notin unbound, NEW k \in Channel, rtcp'[c][k] # None
                 PROVE  /\ owner'[rtcp'[c][k]] = c /\ rtcp'[c][k] # sock[c]
                        /\ \A m \in Channel :
                             /\ rtpfd'[c][m] # rtcp'[c][k]
                             /\ m # k => rtcpfd'[c][m] # rtcp'[c][k] /\ rtcp'[c][m] # rtcp'[c][k]
      BY <1>1, <2>1 DEF RtcpIsApart
    <3>1. /\ \A m \in Channel : rtpfd[c][m] \in SocketsOf(c) /\ rtcpfd[c][m] \in SocketsOf(c)
      BY SocketsAre
    <3>2. \A m \in Channel : rtcp[c][m] # None =>
            /\ rtcp[c][m] \in Fd /\ owner[rtcp[c][m]] = c /\ rtcp[c][m] # sock[c]
            /\ \A n \in Channel : /\ rtpfd[c][n] # rtcp[c][m]
                                  /\ n # m => rtcpfd[c][n] # rtcp[c][m] /\ rtcp[c][n] # rtcp[c][m]
      BY <2>1 DEF Owns, RtcpIsApart, IInv, TypeOK
    <3>3. CASE k = h
      BY <1>1, <2>1, <2>3, <3>1, <3>2, <3>3
    <3>4. CASE k # h
      BY <1>1, <2>1, <2>3, <3>1, <3>2, <3>4
    <3>5. QED
      BY <3>3, <3>4
  <2>7. ChannelsOf(c)'
    <3> SUFFICES ASSUME c \notin unbound, NEW e \in Fd, channels'[e] = c
                 PROVE  /\ owner'[e] = c
                        /\ \/ e = sock[c] \/ \E k \in Channel : rtcp'[c][k] = e
                           \/ e \in replaced' /\ e # sock[c] /\ e \notin SocketsOf(c)'
      BY <1>1, <2>1 DEF ChannelsOf
    <3>1. CASE e = g
      BY <1>1, <3>1
    <3>2. CASE e # g
      <4>1. channels[e] = c
        BY <1>1, <3>2
      <4>2. /\ owner[e] = c
            /\ \/ e = sock[c] \/ \E k \in Channel : rtcp[c][k] = e
               \/ e \in replaced /\ e # sock[c] /\ e \notin SocketsOf(c)
        BY <2>1, <4>1 DEF Owns, ChannelsOf
      <4>3. e # f /\ owner'[e] = c
        BY <1>1, <2>1, <4>2
      <4>4. CASE e = sock[c] \/ \E k \in Channel \ {h} : rtcp[c][k] = e
        BY <1>1, <4>3, <4>4
      <4>5. CASE rtcp[c][h] = e
        <5>1. rtcp[c][h] # None
          BY <2>3, <4>5
        <5>2. /\ e # sock[c]
              /\ \A k \in Channel : rtpfd[c][k] # e /\ (k # h => rtcpfd[c][k] # e)
          BY <2>1, <4>5, <5>1 DEF Owns, RtcpIsApart
        <5>3. \A k \in Channel : rtpfd'[c][k] # e /\ rtcpfd'[c][k] # e
          BY <1>1, <3>2, <4>3, <5>2
        <5>4. e \notin SocketsOf(c)'
          BY <5>3 DEF SocketsOf
        <5>5. QED
          BY <1>1, <4>3, <4>5, <5>1, <5>2, <5>4
      <4>6. CASE e \in replaced /\ e # sock[c] /\ e \notin SocketsOf(c)
        BY <1>1, <2>2, <3>2, <4>3, <4>6
      <4>7. QED
        BY <4>2, <4>4, <4>5, <4>6
    <3>3. QED
      BY <3>1, <3>2
  <2>8. NoSockets(c)'
    BY <1>1, <2>1 DEF NoSockets
  <2>9. QED
    BY <1>3, <2>4, <2>5, <2>6, <2>7, <2>8 DEF Owns
<1>4. QED
  BY <1>2, <1>3

LEMMA SetupFailsKeeps ==
  ASSUME IInv, NEW c \in Conn, NEW h \in Channel, NEW f \in Fd, NEW g \in Fd \cup {None},
         SetupUdpFails(c, h, f, g)
  PROVE  Descriptors'
<1> SUFFICES ASSUME foreign = {}, NEW d \in Conn PROVE Owns(d)'
  BY DEF Descriptors, SetupUdpFails
<1>1. /\ \A e \in Conn \ {c} : rtpfd'[e] = rtpfd[e] /\ rtcpfd'[e] = rtcpfd[e]
      /\ unbound' = unbound \cup {c}
      /\ UNCHANGED <<tcp, sock, rtp, channels, owner, rtcp, foreign, replaced>>
  BY DEF SetupUdpFails, IInv, TypeOK, objects
<1>2. CASE d # c
  BY <1>1, <1>2, OthersKeep
<1>3. CASE d = c
  <2>1. rtp[c] = "alive" /\ Owns(c)
    BY SetupFacts DEF SetupUdpFails, IInv, Descriptors
  <2>2. QED
    BY <1>1, <1>3, <2>1 DEF Owns, OwnsSocket, OwnsRtp, ChannelsOf, RtcpIsApart, NoSockets, Alive
<1>4. QED
  BY <1>2, <1>3

LEMMA AcceptKeeps ==
  ASSUME IInv, NEW c \in Conn, NEW f \in Fd, Accept(c, f)
  PROVE  Descriptors'
<1> SUFFICES ASSUME foreign = {}, NEW d \in Conn PROVE Owns(d)'
  BY DEF Descriptors, Accept
<1>1. owner[f] = None /\ channels[f] = None
  BY DEF Accept, Free, SelectWorks
<1>2. connections[f] = None
  <2>1. SUFFICES ASSUME connections[f] # None PROVE FALSE
    OBVIOUS
  <2>2. connections[f] \in Conn
    BY <2>1 DEF IInv, TypeOK
  <2>3. sock[connections[f]] = f /\ Alive(connections[f])
    BY <2>2 DEF IInv, References, Referred
  <2>4. owner[f] = connections[f]
    BY <2>2, <2>3 DEF IInv, Descriptors, Owns, OwnsSocket
  <2>5. QED
    BY <1>1, <2>1, <2>4
<1>3. /\ tcp[c] = "none" /\ rtp[c] = "none"
      /\ \A e \in Conn : tcp'[e] = IF e = c THEN "open" ELSE tcp[e]
      /\ \A e \in Conn : sock'[e] = IF e = c THEN f ELSE sock[e]
      /\ \A e \in Fd : owner'[e] = IF e = f THEN c ELSE owner[e]
      /\ \A e \in Fd : channels'[e] = IF e = f THEN c ELSE channels[e]
      /\ UNCHANGED <<rtp, rtpfd, rtcpfd, rtcp, foreign, unbound, replaced>>
  BY <1>1, <1>2 DEF Accept, IInv, TypeOK, References, Untouched, rtpState, history
<1>4. CASE d # c
  <2>1. \A e \in Fd : owner[e] = d => owner'[e] = d
    BY <1>1, <1>3, <1>4, RtspAssumption
  <2>2. QED
    BY <1>3, <1>4, <2>1, OthersKeep
<1>5. CASE d = c
  <2>1. /\ \A e \in Fd : channels[e] # c /\ owner[e] # c
        /\ \A h \in Channel : rtcp[c][h] = None
        /\ SocketsOf(c)' = SocketsOf(c) /\ SocketsOf(c) \subseteq {None}
    BY <1>3 DEF IInv, References, Untouched, SocketsOf, Descriptors, Owns, NoSockets
  <2>2. QED
    BY <1>3, <1>5, <2>1 DEF Owns, OwnsSocket, OwnsRtp, ChannelsOf, RtcpIsApart, NoSockets
<1>6. QED
  BY <1>4, <1>5

LEMMA DescriptorStep == ASSUME IInv, [Next]_vars PROVE Descriptors'
<1> USE DEF objects, rtpState, history, vars
<1>0. ASSUME UNCHANGED <<tcp, sock, rtp, owner, unbound, rtpfd, rtcpfd, rtcp, channels,
                         replaced, foreign>>
      PROVE  Descriptors'
  <2> SUFFICES ASSUME foreign = {}, NEW d \in Conn PROVE Owns(d)'
    BY <1>0 DEF Descriptors
  <2>1. QED
    BY <1>0, OthersKeep
<1>1. ASSUME NEW c \in Conn, NEW f \in Fd, Accept(c, f) PROVE Descriptors'
  BY <1>1, AcceptKeeps
<1>2. ASSUME NEW c \in Conn, HandleCmdDescribe(c) PROVE Descriptors'
  <2> SUFFICES ASSUME foreign = {}, NEW d \in Conn PROVE Owns(d)'
    BY <1>2 DEF Descriptors, HandleCmdDescribe
  <2>1. /\ \A e \in Conn : rtp'[e] = IF e = c /\ rtp[c] = "none" THEN "alive" ELSE rtp[e]
        /\ UNCHANGED <<tcp, sock, owner, unbound, rtpfd, rtcpfd, rtcp, channels, replaced, foreign>>
    BY <1>2 DEF HandleCmdDescribe, IInv, TypeOK
  <2>2. CASE d # c \/ rtp[c] # "none"
    BY <2>1, <2>2, OthersKeep
  <2>3. CASE d = c /\ rtp[c] = "none"
    <3>1. Owns(c) /\ SocketsOf(c)' = SocketsOf(c) /\ SocketsOf(c) \subseteq {None}
          /\ rtp'[c] = "alive"
      BY <2>1, <2>3 DEF IInv, Descriptors, Owns, NoSockets, SocketsOf
    <3>2. QED
      BY <2>1, <2>3, <3>1 DEF Owns, OwnsSocket, OwnsRtp, ChannelsOf, RtcpIsApart, NoSockets, Alive
  <2>4. QED
    BY <2>2, <2>3
<1>3. ASSUME NEW c \in Conn, NEW h \in Channel, SetupRtpOverTcp(c, h) PROVE Descriptors'
  BY <1>3, SetupTcpKeeps
<1>4. ASSUME NEW c \in Conn, NEW h \in Channel, NEW f \in Fd, NEW g \in Fd,
             SetupRtpOverUdp(c, h, f, g)
      PROVE Descriptors'
  BY <1>4, SetupUdpKeeps
<1>5. ASSUME NEW c \in Conn, NEW h \in Channel, NEW f \in Fd, NEW g \in Fd \cup {None},
             SetupUdpFails(c, h, f, g)
      PROVE Descriptors'
  BY <1>5, SetupFailsKeeps
<1>6. ASSUME NEW c \in Conn, HandleCmdPlay(c) PROVE Descriptors'
  BY <1>0, <1>6 DEF HandleCmdPlay
<1>7. ASSUME NEW c \in Conn, HandleCmdTeardown(c) PROVE Descriptors'
  BY <1>7, CloseKeeps DEF HandleCmdTeardown
<1>8. ASSUME NEW c \in Conn, HangUp(c) PROVE Descriptors'
  BY <1>8, CloseKeeps DEF HangUp
<1>9. ASSUME RemoveConnection PROVE Descriptors'
  <2> DEFINE c == connections[Head(queue).arg]
  <2>1. /\ c \in Conn /\ tcp[c] = "closed"
        /\ \/ Destroy(c)
           \/ UNCHANGED <<tcp, rtp, owner, foreign>>
        /\ UNCHANGED <<sock, channels, rtpfd, rtcpfd, rtcp, unbound, replaced>>
    BY <1>9, RemovedWas
  <2> HIDE DEF c
  <2>2. CASE Destroy(c)
    BY <2>1, <2>2, DestroyKeeps
  <2>3. CASE UNCHANGED <<tcp, rtp, owner, foreign>>
    BY <1>0, <2>1, <2>3
  <2>4. QED
    BY <2>1, <2>2, <2>3
<1>10. ASSUME SendMedia PROVE Descriptors'
  <2> DEFINE c == Head(queue).arg
             q == Tail(queue)
  <2>1. c \in Conn
    BY <1>10, AfterTail, EventKinds DEF SendMedia, IInv, TypeOK
  <2>2. CASE Close(c, q)
    BY <1>10, <2>1, <2>2, CloseKeeps DEF SendMedia
  <2>3. CASE UNCHANGED <<tcp, channels, clients>>
    BY <1>0, <1>10, <2>3 DEF SendMedia
  <2>4. QED
    BY <1>10, <2>2, <2>3 DEF SendMedia
<1>11. ASSUME NEW s \in Session, NEW h \in Channel, Collect(s, h) PROVE Descriptors'
  BY <1>0, <1>11 DEF Collect
<1>12. ASSUME NEW c \in Conn, SendRtpPacket(c) PROVE Descriptors'
  BY <1>0, <1>12 DEF SendRtpPacket
<1>13. ASSUME QueueMedia PROVE Descriptors'
  <2> DEFINE c == encoder.at
  <2>1. /\ c \in Conn
        /\ \/ UNCHANGED <<tcp, rtp, owner, foreign>>
           \/ tcp[c] = "closed" /\ Destroy(c)
        /\ UNCHANGED <<sock, channels, rtpfd, rtcpfd, rtcp, unbound, replaced>>
    BY <1>13, QueuedWas
  <2> HIDE DEF c
  <2>2. CASE tcp[c] = "closed" /\ Destroy(c)
    BY <2>1, <2>2, DestroyKeeps
  <2>3. CASE UNCHANGED <<tcp, rtp, owner, foreign>>
    BY <1>0, <2>1, <2>3
  <2>4. QED
    BY <2>1, <2>2, <2>3
<1>14. ASSUME Release PROVE Descriptors'
  <2> DEFINE last == {c \in encoder.held : tcp[c] = "gone"}
             shut == [c \in last |-> SocketsOf(c)]
  <2> SUFFICES ASSUME foreign' = {}, NEW d \in Conn PROVE Owns(d)'
    BY DEF Descriptors
  <2>1. /\ \A c \in Conn : rtp'[c] = IF c \in last THEN "gone" ELSE rtp[c]
        /\ UNCHANGED <<tcp, sock, channels, rtpfd, rtcpfd, rtcp, unbound, replaced>>
    BY <1>14 DEF Release
  <2>2. CloseSockets(shut) /\ DOMAIN shut \subseteq Conn
    BY <1>14 DEF Release, IInv, TypeOK
  <2>3. DOMAIN shut = last /\ \A c \in last : shut[c] = SocketsOf(c)
    OBVIOUS
  <2> HIDE DEF shut
  <2>4. /\ foreign = {}
        /\ \A f \in Fd : owner'[f] # owner[f] =>
             owner[f] \in last /\ f \in SocketsOf(owner[f])
    BY <2>2, <2>3, ClosingFacts DEF IInv
  <2>5. CASE d \notin last
    <3>1. rtp'[d] = rtp[d] /\ \A f \in Fd : owner[f] = d => owner'[f] = d
      BY <2>1, <2>4, <2>5
    <3>2. QED
      BY <2>1, <2>4, <3>1, OthersKeep
  <2>6. CASE d \in last
    <3>1. Owns(d) /\ rtp'[d] = "gone" /\ tcp[d] = "gone" /\ SocketsOf(d)' = SocketsOf(d)
      BY <2>1, <2>4, <2>6 DEF SocketsOf, IInv, Descriptors
    <3>2. ChannelsOf(d)'
      BY <2>1, <2>4, <3>1 DEF Owns, ChannelsOf
    <3>3. QED
      BY <2>1, <3>1, <3>2 DEF Owns, OwnsSocket, OwnsRtp, RtcpIsApart, NoSockets, Alive
  <2>7. QED
    BY <2>5, <2>6
<1>15. CASE UNCHANGED vars
  BY <1>0, <1>15
<1>16. QED
  BY <1>1, <1>2, <1>3, <1>4, <1>5, <1>6, <1>7, <1>8, <1>9, <1>10, <1>11, <1>12, <1>13, <1>14,
     <1>15 DEF Next, Request, SchedulerStep, EncoderStep

-----------------------------------------------------------------------------
(* The lists of clients. *)

\* A step that changes no list, no session and no open connection.
LEMMA ListsKeep ==
  ASSUME IInv, foreign' = {} => foreign = {},
         \A c \in Conn : tcp[c] = "open" <=> tcp'[c] = "open",
         \A c \in Conn : tcp[c] = "open" /\ rtp[c] = "alive" => rtp'[c] = "alive",
         UNCHANGED <<sock, session_id, clients, roamed>>
  PROVE  DescribedIsListed'
<1> SUFFICES ASSUME foreign = {}, roamed = {} PROVE DescribedIsListed'
  BY DEF DescribedIsListed
<1>1. \A s \in Session, f \in Fd : clients[s][f] \in Conn \cup {None}
  BY DEF IInv, TypeOK
<1>2. QED
  BY <1>1 DEF IInv, DescribedIsListed

LEMMA CloseUnlists ==
  ASSUME IInv, NEW c \in Conn, NEW q, Close(c, q),
         UNCHANGED <<rtp, session_id, sock, foreign, roamed>>
  PROVE  DescribedIsListed'
<1>1. \A d \in Conn : tcp'[d] = IF d = c /\ tcp[c] = "open" THEN "closed" ELSE tcp[d]
  BY CloseFacts DEF IInv
<1>2. CASE tcp[c] # "open"
  <2>1. clients' = clients
    BY <1>2 DEF Close
  <2>2. QED
    BY <1>1, <1>2, <2>1, ListsKeep
<1>3. CASE tcp[c] = "open"
  <2> SUFFICES ASSUME foreign = {}, roamed = {} PROVE DescribedIsListed'
    BY DEF DescribedIsListed
  <2>1. \A s \in Session, f \in Fd :
          clients'[s][f] = IF s = session_id[c] /\ f = sock[c] THEN None ELSE clients[s][f]
    <3>1. CASE session_id[c] = None
      BY <1>3, <3>1, RtspAssumption DEF Close, OnClose
    <3>2. CASE session_id[c] # None
      <4>1. session_id[c] \in Session /\ sock[c] \in Fd
        BY <1>3, <3>2 DEF IInv, TypeOK, References, Referred
      <4>2. clients' = [clients EXCEPT ![session_id[c]][sock[c]] = None]
        BY <1>3, <3>2 DEF Close, OnClose
      <4>3. QED
        BY <4>1, <4>2 DEF IInv, TypeOK
    <3>3. QED
      BY <3>1, <3>2
  <2>2. ASSUME NEW s \in Session, NEW f \in Fd, clients'[s][f] # None
        PROVE  LET d == clients'[s][f] IN tcp'[d] = "open" /\ sock[d] = f /\ session_id[d] = s
    <3> DEFINE d == clients[s][f]
    <3>1. clients'[s][f] = d /\ (s # session_id[c] \/ f # sock[c]) /\ d \in Conn
      BY <2>1, <2>2 DEF IInv, TypeOK
    <3>2. tcp[d] = "open" /\ sock[d] = f /\ session_id[d] = s
      BY <2>2, <3>1 DEF IInv, DescribedIsListed
    <3>3. d # c
      BY <3>1, <3>2
    <3> HIDE DEF d
    <3>4. QED
      BY <1>1, <3>1, <3>2, <3>3
  <2>3. ASSUME NEW d \in Conn, tcp'[d] = "open", session_id[d] # None
        PROVE  rtp[d] = "alive" /\ clients'[session_id[d]][sock[d]] = d
    <3>1. d # c /\ tcp[d] = "open"
      BY <1>1, <1>3, <2>3
    <3>2. rtp[d] = "alive" /\ clients[session_id[d]][sock[d]] = d
          /\ session_id[d] \in Session /\ sock[d] \in Fd
      BY <2>3, <3>1 DEF IInv, DescribedIsListed, TypeOK, References, Referred
    <3>3. owner[sock[d]] = d /\ owner[sock[c]] = c
      BY <1>3, <3>1 DEF IInv, Descriptors, Owns, OwnsSocket, Alive
    <3>4. QED
      BY <2>1, <3>1, <3>2, <3>3
  <2>4. QED
    BY <2>2, <2>3 DEF DescribedIsListed
<1>4. QED
  BY <1>2, <1>3

LEMMA ListStep == ASSUME IInv, [Next]_vars PROVE DescribedIsListed'
<1> USE DEF objects, rtpState, history, vars
<1>0. ASSUME UNCHANGED <<tcp, rtp, sock, session_id, clients, foreign, roamed>>
      PROVE  DescribedIsListed'
  BY <1>0 DEF IInv, DescribedIsListed
<1>1. ASSUME NEW c \in Conn, NEW f \in Fd, Accept(c, f) PROVE DescribedIsListed'
  <2> SUFFICES ASSUME foreign = {}, roamed = {} PROVE DescribedIsListed'
    BY <1>1 DEF DescribedIsListed, Accept
  <2>1. /\ tcp[c] = "none" /\ session_id[c] = None
        /\ \A d \in Conn \ {c} : tcp'[d] = tcp[d] /\ sock'[d] = sock[d]
        /\ UNCHANGED <<rtp, session_id, clients>>
    BY <1>1 DEF Accept, IInv, TypeOK, References, Untouched
  <2>2. ASSUME NEW s \in Session, NEW k \in Fd, clients[s][k] # None
        PROVE  LET d == clients[s][k] IN tcp'[d] = "open" /\ sock'[d] = k /\ session_id[d] = s
    <3> DEFINE d == clients[s][k]
    <3>1. d \in Conn /\ tcp[d] = "open" /\ sock[d] = k /\ session_id[d] = s
      BY <2>2 DEF IInv, TypeOK, DescribedIsListed
    <3> HIDE DEF d
    <3>2. QED
      BY <2>1, <3>1 DEF d
  <2>3. \A d \in Conn : tcp'[d] = "open" /\ session_id[d] # None =>
          rtp[d] = "alive" /\ clients[session_id[d]][sock'[d]] = d
    BY <2>1 DEF IInv, DescribedIsListed
  <2>4. QED
    BY <2>1, <2>2, <2>3 DEF DescribedIsListed
<1>2. ASSUME NEW c \in Conn, HandleCmdDescribe(c) PROVE DescribedIsListed'
  <2>1. /\ tcp[c] = "open" /\ sock[c] \in Fd
        /\ \A e \in Conn : rtp'[e] = IF e = c /\ rtp[c] = "none" THEN "alive" ELSE rtp[e]
        /\ UNCHANGED <<tcp, sock, foreign>>
    BY <1>2, ReadableFacts DEF HandleCmdDescribe, IInv, TypeOK
  <2>2. CASE UNCHANGED <<session_id, clients, roamed>>
    BY <2>1, <2>2, ListsKeep
  <2>3. ASSUME NEW s \in Session,
               session_id' = [session_id EXCEPT ![c] = s],
               clients' = [clients EXCEPT ![s][sock[c]] = IF @ = None THEN c ELSE @],
               roamed' = IF session_id[c] \in {None, s} THEN roamed ELSE roamed \cup {c}
        PROVE  DescribedIsListed'
    <3> SUFFICES ASSUME foreign = {}, roamed' = {} PROVE DescribedIsListed'
      BY <2>1 DEF DescribedIsListed
    <3>1. roamed = {} /\ session_id[c] \in {None, s}
      BY <2>3
    <3>2. /\ \A d \in Conn : session_id'[d] = IF d = c THEN s ELSE session_id[d]
          /\ \A t \in Session, f \in Fd :
               clients'[t][f] = IF t = s /\ f = sock[c] /\ clients[s][sock[c]] = None THEN c
                                  ELSE clients[t][f]
      BY <2>1, <2>3 DEF IInv, TypeOK
    <3>3. \A t \in Session, f \in Fd : clients[t][f] # None =>
            /\ clients[t][f] \in Conn
            /\ tcp[clients[t][f]] = "open" /\ sock[clients[t][f]] = f
            /\ session_id[clients[t][f]] = t
      BY <3>1 DEF IInv, TypeOK, DescribedIsListed
    <3>4. clients[s][sock[c]] \in {None, c}
      <4>1. ASSUME clients[s][sock[c]] # None PROVE clients[s][sock[c]] = c
        <5>1. /\ clients[s][sock[c]] \in Conn /\ tcp[clients[s][sock[c]]] = "open"
              /\ sock[clients[s][sock[c]]] = sock[c]
          BY <2>1, <3>3, <4>1
        <5>2. owner[sock[c]] = c /\ owner[sock[c]] = clients[s][sock[c]]
          BY <2>1, <5>1 DEF IInv, Descriptors, Owns, OwnsSocket, Alive
        <5>3. QED
          BY <5>2
      <4>2. QED
        BY <4>1
    <3>5. ASSUME NEW t \in Session, NEW f \in Fd, clients'[t][f] # None
          PROVE  LET d == clients'[t][f]
                 IN  tcp[d] = "open" /\ sock[d] = f /\ session_id'[d] = t
      <4>1. CASE t = s /\ f = sock[c]
        <5>1. clients'[t][f] = c
          BY <2>1, <3>2, <3>4, <3>5, <4>1
        <5>2. QED
          BY <2>1, <3>2, <4>1, <5>1
      <4>2. CASE ~(t = s /\ f = sock[c])
        <5>1. clients'[t][f] = clients[t][f]
          BY <3>2, <4>2
        <5>2. /\ clients[t][f] \in Conn
              /\ tcp[clients[t][f]] = "open" /\ sock[clients[t][f]] = f
              /\ session_id[clients[t][f]] = t
          BY <3>3, <3>5, <5>1
        <5>3. clients[t][f] = c => t = s
          BY <3>1, <5>2, RtspAssumption
        <5>4. session_id'[clients[t][f]] = t
          BY <3>2, <5>2, <5>3
        <5>5. QED
          BY <5>1, <5>2, <5>4
      <4>3. QED
        BY <4>1, <4>2
    <3>6. ASSUME NEW d \in Conn, tcp[d] = "open", session_id'[d] # None
          PROVE  rtp'[d] = "alive" /\ clients'[session_id'[d]][sock[d]] = d
      <4>1. CASE d = c
        <5>1. rtp'[c] = "alive"
          BY <2>1 DEF IInv, TypeOK, References, RtpReferred
        <5>2. clients'[s][sock[c]] = c
          BY <2>1, <3>2, <3>4
        <5>3. QED
          BY <3>2, <4>1, <5>1, <5>2
      <4>2. CASE d # c
        <5>1. session_id'[d] = session_id[d] /\ session_id[d] \in Session /\ sock[d] \in Fd
          BY <3>2, <3>6, <4>2 DEF IInv, TypeOK, References, Referred
        <5>2. rtp[d] = "alive" /\ clients[session_id[d]][sock[d]] = d
          BY <3>1, <3>6, <5>1, RtspAssumption DEF IInv, DescribedIsListed
        <5>3. d # None
          BY RtspAssumption
        <5>4. QED
          BY <2>1, <3>2, <4>2, <5>1, <5>2, <5>3
      <4>3. QED
        BY <4>1, <4>2
    <3>7. QED
      BY <2>1, <3>5, <3>6 DEF DescribedIsListed
  <2>4. QED
    BY <1>2, <2>2, <2>3 DEF HandleCmdDescribe
<1>3. ASSUME NEW c \in Conn, NEW h \in Channel, SetupRtpOverTcp(c, h) PROVE DescribedIsListed'
  BY <1>0, <1>3 DEF SetupRtpOverTcp
<1>4. ASSUME NEW c \in Conn, NEW h \in Channel, NEW f \in Fd, NEW g \in Fd,
             SetupRtpOverUdp(c, h, f, g)
      PROVE DescribedIsListed'
  BY <1>0, <1>4 DEF SetupRtpOverUdp
<1>5. ASSUME NEW c \in Conn, NEW h \in Channel, NEW f \in Fd, NEW g \in Fd \cup {None},
             SetupUdpFails(c, h, f, g)
      PROVE DescribedIsListed'
  BY <1>0, <1>5 DEF SetupUdpFails
<1>6. ASSUME NEW c \in Conn, HandleCmdPlay(c) PROVE DescribedIsListed'
  BY <1>0, <1>6 DEF HandleCmdPlay
<1>7. ASSUME NEW c \in Conn, HandleCmdTeardown(c) PROVE DescribedIsListed'
  BY <1>7, CloseUnlists DEF HandleCmdTeardown
<1>8. ASSUME NEW c \in Conn, HangUp(c) PROVE DescribedIsListed'
  BY <1>8, CloseUnlists DEF HangUp
<1>9. ASSUME RemoveConnection PROVE DescribedIsListed'
  <2> DEFINE c == connections[Head(queue).arg]
  <2>1. /\ c \in Conn /\ tcp[c] = "closed"
        /\ \/ Destroy(c)
           \/ UNCHANGED <<tcp, rtp, owner, foreign>>
        /\ UNCHANGED <<sock, session_id, clients, roamed>>
    BY <1>9, RemovedWas
  <2> HIDE DEF c
  <2>2. CASE Destroy(c)
    <3>1. /\ foreign' = {} => foreign = {}
          /\ \A d \in Conn : tcp[d] = "open" <=> tcp'[d] = "open"
          /\ \A d \in Conn : tcp[d] = "open" /\ rtp[d] = "alive" => rtp'[d] = "alive"
      BY <2>1, <2>2, DestroyFacts DEF IInv
    <3>2. QED
      BY <2>1, <3>1, ListsKeep
  <2>3. CASE UNCHANGED <<tcp, rtp, owner, foreign>>
    BY <1>0, <2>1, <2>3
  <2>4. QED
    BY <2>1, <2>2, <2>3
<1>10. ASSUME SendMedia PROVE DescribedIsListed'
  <2> DEFINE c == Head(queue).arg
             q == Tail(queue)
  <2>1. c \in Conn
    BY <1>10, AfterTail, EventKinds DEF SendMedia, IInv, TypeOK
  <2>2. CASE Close(c, q)
    BY <1>10, <2>1, <2>2, CloseUnlists DEF SendMedia
  <2>3. CASE UNCHANGED <<tcp, channels, clients>>
    BY <1>0, <1>10, <2>3 DEF SendMedia
  <2>4. QED
    BY <1>10, <2>2, <2>3 DEF SendMedia
<1>11. ASSUME NEW s \in Session, NEW h \in Channel, Collect(s, h) PROVE DescribedIsListed'
  <2> SUFFICES ASSUME foreign = {}, roamed = {} PROVE DescribedIsListed'
    BY <1>11 DEF DescribedIsListed, Collect
  <2>1. /\ \A t \in Session, f \in Fd :
             clients'[t][f] = IF t = s /\ rtp[clients[s][f]] # "alive" THEN None ELSE clients[t][f]
        /\ UNCHANGED <<tcp, sock, rtp, session_id>>
    BY <1>11, RtspAssumption DEF Collect, IInv, TypeOK
  <2>2. \A t \in Session, f \in Fd : clients'[t][f] # None => clients'[t][f] = clients[t][f]
    BY <2>1
  <2>3. ASSUME NEW c \in Conn, tcp[c] = "open", session_id[c] # None
        PROVE  rtp[c] = "alive" /\ clients'[session_id[c]][sock[c]] = c
    <3>1. rtp[c] = "alive" /\ clients[session_id[c]][sock[c]] = c
          /\ session_id[c] \in Session /\ sock[c] \in Fd
      BY <2>3 DEF IInv, DescribedIsListed, TypeOK, References, Referred
    <3>2. QED
      BY <2>1, <3>1
  <2>4. QED
    BY <2>1, <2>2, <2>3 DEF DescribedIsListed, IInv
<1>12. ASSUME NEW c \in Conn, SendRtpPacket(c) PROVE DescribedIsListed'
  BY <1>0, <1>12 DEF SendRtpPacket
<1>13. ASSUME QueueMedia PROVE DescribedIsListed'
  <2> DEFINE c == encoder.at
  <2>1. /\ c \in Conn
        /\ \/ UNCHANGED <<tcp, rtp, owner, foreign>>
           \/ tcp[c] = "closed" /\ Destroy(c)
        /\ UNCHANGED <<sock, session_id, clients, roamed>>
    BY <1>13, QueuedWas
  <2> HIDE DEF c
  <2>2. CASE tcp[c] = "closed" /\ Destroy(c)
    <3>1. /\ foreign' = {} => foreign = {}
          /\ \A d \in Conn : tcp[d] = "open" <=> tcp'[d] = "open"
          /\ \A d \in Conn : tcp[d] = "open" /\ rtp[d] = "alive" => rtp'[d] = "alive"
      BY <2>1, <2>2, DestroyFacts DEF IInv
    <3>2. QED
      BY <2>1, <3>1, ListsKeep
  <2>3. CASE UNCHANGED <<tcp, rtp, owner, foreign>>
    BY <1>0, <2>1, <2>3
  <2>4. QED
    BY <2>1, <2>2, <2>3
<1>14. ASSUME Release PROVE DescribedIsListed'
  <2>1. /\ foreign' = {} => foreign = {}
        /\ UNCHANGED <<tcp, sock, session_id, clients, roamed>>
        /\ \A d \in Conn : tcp[d] = "open" /\ rtp[d] = "alive" => rtp'[d] = "alive"
    BY <1>14 DEF Release, CloseSockets
  <2>2. QED
    BY <2>1, ListsKeep
<1>15. CASE UNCHANGED vars
  BY <1>0, <1>15
<1>16. QED
  BY <1>1, <1>2, <1>3, <1>4, <1>5, <1>6, <1>7, <1>8, <1>9, <1>10, <1>11, <1>12, <1>13, <1>14,
     <1>15 DEF Next, Request, SchedulerStep, EncoderStep

-----------------------------------------------------------------------------
(* The theorems. *)
LEMMA InitInv == Init => IInv
<1> SUFFICES ASSUME Init PROVE IInv
  OBVIOUS
<1>1. TypeOK
  BY TypeInit
<1>2. References
  BY RtspAssumption DEF Init, Idle, References, Untouched, Referred, RtpReferred, EncoderHolds
<1>3. QueueInv
  BY DEF Init, QueueInv, RemovesOnce, RemovedAfter
<1>4. Descriptors
  <2>1. \A c \in Conn : SocketsOf(c) \subseteq {None}
    BY DEF Init, SocketsOf
  <2>2. QED
    BY <2>1, RtspAssumption DEF Init, Descriptors, Owns, OwnsSocket, OwnsRtp, ChannelsOf,
       RtcpIsApart, NoSockets, Alive
<1>5. DescribedIsListed
  BY DEF Init, DescribedIsListed
<1>6. QED
  BY <1>1, <1>2, <1>3, <1>4, <1>5 DEF IInv

LEMMA NextInv == IInv /\ [Next]_vars => IInv'
<1> SUFFICES ASSUME IInv, [Next]_vars PROVE IInv'
  OBVIOUS
<1>1. TypeOK'
  BY TypeStep DEF IInv
<1>2. QED
  BY <1>1, RefStep, QueueStep, DescriptorStep, ListStep DEF IInv

LEMMA Invariance == Spec => []IInv
BY InitInv, NextInv, PTL DEF Spec

\* Every variable keeps its type, whatever the numbers of connections and descriptors.
THEOREM TypeCorrect == Spec => []TypeOK
<1>1. IInv => TypeOK
  BY DEF IInv
<1>2. QED
  BY <1>1, Invariance, PTL

\* As long as no connection has closed a descriptor of another, what each will close is
\* its own, but for the two stated exceptions.
THEOREM DescriptorsAreOwned == Spec => []ClosesItsOwn
<1>1. IInv => ClosesItsOwn
  BY DEF IInv, Descriptors, Owns, OwnsSocket, OwnsRtp, ClosesItsOwn
<1>2. QED
  BY <1>1, Invariance, PTL

\* As long as no connection has closed a descriptor of another, a registered channel has
\* an open descriptor and calls back an open connection, but for replaced RTCP channels.
THEOREM ChannelsAreOpen == Spec => []RegisteredIsLive
<1>1. ASSUME IInv PROVE RegisteredIsLive
  <2>1. \A f \in Fd : channels[f] \in Conn \cup {None}
    BY <1>1 DEF IInv, TypeOK
  <2>2. QED
    BY <1>1, <2>1 DEF IInv, Descriptors, Owns, ChannelsOf, RegisteredIsLive
<1>2. QED
  BY <1>1, Invariance, PTL

\* The raw pointer of a media event is good if its connection was open when it was
\* queued: the removal of the connection is behind it in the queue.
THEOREM MediaFindsItsConnection == Spec => []QueuedWhileOpenIsSafe
<1>1. ASSUME IInv PROVE QueuedWhileOpenIsSafe
  <2>1. DOMAIN queue = 1..Len(queue)
    BY <1>1 DEF IInv, TypeOK
  <2>2. QED
    BY <1>1, <2>1 DEF IInv, QueueInv, RemovedAfter, QueuedWhileOpenIsSafe
<1>2. QED
  BY <1>1, Invariance, PTL

\* As long as no client has described two sessions, a session lists just the open
\* connections that described it, each under its descriptor.
THEOREM ClientsAreListed == Spec => []DescribedIsListed
<1>1. IInv => DescribedIsListed
  BY DEF IInv
<1>2. QED
  BY <1>1, Invariance, PTL

-----------------------------------------------------------------------------
(* The application that runs the server: ScreenLive, for any servers, any clients of each  *)
(* and any number of operations.                                                           *)

-----------------------------------------------------------------------------
(* The steps a thread still has to take. *)
Locked    == {"publish", "halt", "drop", "disconnect", "close", "wait", "clear", "unlock"}
Stopping  == {"disconnect", "close", "wait"}
PipeSteps == {"lock", "drop", "unlock", "stop encoder", "destroyed", "disconnect", "close",
              "wait", "join video", "join audio", "quit", "join", "exit"}

CaptureSteps == <<"start capture", "start encoder", "initialized">>
JoinSteps    == <<"join video", "join audio">>

\* Which step comes after which, in every operation.
Follows(a, b) ==
  /\ a = "listen" => b = "lock"
  /\ a = "lock" => b \in {"publish", "halt", "drop"}
  /\ a \in {"publish", "halt", "drop", "clear"} => b = "unlock"
  /\ a = "disconnect" => b = "close"
  /\ a = "close" => b = "wait"
  /\ a = "wait" => b \in {"clear", "unlock"}
  /\ a = "unlock" => b = "stop encoder"
  /\ a \in {"stop encoder", "join audio"} => b \in {"destroyed", "start encoder"}
  /\ a = "join video" => b = "join audio"
  /\ a = "destroyed" => b \in {"start capture", "quit"}
  /\ a = "start capture" => b = "start encoder"
  /\ a = "start encoder" => b = "initialized"
  /\ a = "quit" => b = "join"
  /\ a = "join" => b = "exit"
  /\ a \notin {"initialized", "exit"}

Chained(q) == \A i \in 1..Len(q) : i > 1 => Follows(q[i-1], q[i])

\* The next step is one of S.
Comes(q, S) == Len(q) > 0 /\ q[1] \in S

\* A server was made and not published yet.
Publishes(q) == Comes(q, {"publish"}) \/ (Comes(q, {"lock"}) /\ Len(q) > 1 /\ q[2] = "publish")

\* The server that is being stopped stays published until it has been.
Clears(q) ==
  \/ Comes(q, {"disconnect"}) /\ Len(q) > 3 /\ q[4] = "clear"
  \/ Comes(q, {"close"}) /\ Len(q) > 2 /\ q[3] = "clear"
  \/ Comes(q, {"wait"}) /\ Len(q) > 1 /\ q[2] = "clear"

Joins(q, e) == \/ Comes(q, {"join video"}) /\ Len(q) > 1 /\ q[2] = "join audio"
               \/ Comes(q, {"join audio"}) /\ e = "audio"

PlanInv ==
  /\ \A t \in Thread : Chained(todo[t])
  /\ \A i \in 1..Len(todo["pipe"]) : todo["pipe"][i] \in PipeSteps

\* Who is at a step that takes the mutex holds it.
MutexInv ==
  /\ \A t \in Thread : Comes(todo[t], Locked) => mutex = t
  /\ \A e \in Encoder : enc[e] \in {"push", "pushed"} => mutex = e

\* The published server is there, but for the moment before it is cleared.
Published ==
  rtsp_server \in alive \cup {Null} \/ \E t \in Thread : Comes(todo[t], {"clear"})

\* A server that is to be published is there, and is nobody else's.
Made(t) ==
  Publishes(todo[t]) =>
    /\ local[t] \in alive /\ local[t] # rtsp_server
    /\ \A u \in Thread : local[u] = local[t] => u = t

\* A server that is being stopped is not the published one, unless it is cleared next.
Stopped(t) ==
  Comes(todo[t], Stopping) =>
    local[t] \in Server /\ (Clears(todo[t]) \/ local[t] # rtsp_server)

ServerInv ==
  /\ Published
  /\ \A e \in Encoder : enc[e] = "push" => rtsp_server # Null
  /\ \A t \in Thread : Made(t) /\ Stopped(t)

\* Unless exit(1) has cut an operation short, one thread has steps to take.
AloneInv ==
  /\ cut => exiting
  /\ ~cut => IF exiting THEN todo["main"] = <<>> ELSE todo["pipe"] = <<>>

\* What holds of the flags at a step.
Flags(q) ==
  /\ Comes(q, {"destroyed", "join video", "join audio"}) => ~encoder_started
  /\ Comes(q, {"start capture"}) => ~initialized
  /\ Comes(q, {"start encoder"}) /\ initialized => ~encoder_started

\* What the flags say of the capture and of the encoders' threads.
EncoderInv ==
  /\ capture_started => screen_capture
  /\ ~cut =>
       /\ encoder_started => screen_capture
       /\ ~encoder_started => \A e \in Encoder :
            enc[e] = "none" \/ \E t \in Thread : Joins(todo[t], e)
       /\ \A t \in Thread : Flags(todo[t])

\* The number of clients is that of the server for which it was set; while it was set for
\* none, the published server and one to be published have had no clients.
CountInv ==
  /\ setter \in Server => rtsp_clients = Cardinality(counted[setter])
  /\ setter = Null =>
       /\ rtsp_clients = 0
       /\ rtsp_server \in Server => counted[rtsp_server] = {}
       /\ Publishes(todo["main"]) /\ local["main"] \in Server => counted[local["main"]] = {}
LiveInv ==
  ScreenTypeOK /\ PlanInv /\ MutexInv /\ ServerInv /\ AloneInv /\ EncoderInv /\ NoCrash
  /\ CountInv

-----------------------------------------------------------------------------
LEMMA Counts ==
  ASSUME Constants
  PROVE  /\ Cardinality({}) = 0
         /\ \A S \in SUBSET Client : Cardinality(S) \in 0..Cardinality(Client)
<1>1. IsFiniteSet(Client)
  BY DEF Constants
<1>2. ASSUME NEW S \in SUBSET Client
      PROVE  Cardinality(S) \in 0..Cardinality(Client)
  BY <1>1, FS_Subset, FS_CardinalityType
<1> QED
  BY <1>2, FS_EmptySet

(* What a step does to the steps that are left. *)
LEMMA AfterPop ==
  ASSUME NEW q \in Seq(Step), q # <<>>
  PROVE  /\ Len(q) \in Nat /\ Len(q) > 0 /\ Head(q) = q[1] /\ q[1] \in Step
         /\ Tail(q) \in Seq(Step) /\ <<>> \o Tail(q) = Tail(q)
         /\ Len(Tail(q)) = Len(q) - 1
         /\ \A i \in 1..(Len(q) - 1) : Tail(q)[i] = q[i + 1]
  OBVIOUS

LEMMA AfterPut ==
  ASSUME NEW q \in Seq(Step), NEW s \in Seq(Step)
  PROVE  /\ s \o q \in Seq(Step) /\ Len(s) \in Nat /\ Len(q) \in Nat
         /\ Len(s \o q) = Len(s) + Len(q)
         /\ \A i \in 1..Len(s) : (s \o q)[i] = s[i]
         /\ \A i \in 1..Len(q) : (s \o q)[Len(s) + i] = q[i]
  OBVIOUS

LEMMA FirstTwo ==
  ASSUME NEW q \in Seq(Step), NEW s \in Seq(Step), Len(s) > 1
  PROVE  Len(s \o q) > 1 /\ (s \o q)[1] = s[1] /\ (s \o q)[2] = s[2]
<1>1. 1 \in 1..Len(s) /\ 2 \in 1..Len(s)
  OBVIOUS
<1> QED
  BY <1>1, AfterPut

LEMMA Plans ==
  /\ <<>> \in Seq(Step)
  /\ StopServer \in Seq(Step) /\ StopServer \o <<"clear">> \in Seq(Step)
  /\ DestroySteps \in Seq(Step) /\ StartSteps \in Seq(Step)
  /\ StopSteps \in Seq(Step) /\ <<"join video", "join audio">> \in Seq(Step)
  /\ DestroySteps \o <<"quit", "join", "exit">> \in Seq(Step)
  /\ ResetSteps \in Seq(Step) /\ InitSteps \in Seq(Step)
<1> USE DEF StopServer, DestroySteps, StartSteps, StopSteps, Step
<1>1. /\ <<>> \in Seq(Step)
      /\ StopServer \in Seq(Step) /\ <<"clear">> \in Seq(Step)
      /\ DestroySteps \in Seq(Step) /\ StartSteps \in Seq(Step)
      /\ StopSteps \in Seq(Step) /\ <<"join video", "join audio">> \in Seq(Step)
      /\ <<"quit", "join", "exit">> \in Seq(Step)
      /\ <<"stop encoder", "start encoder">> \in Seq(Step)
      /\ <<"start capture", "start encoder", "initialized">> \in Seq(Step)
  OBVIOUS
<1>2. ResetSteps \in Seq(Step)
  BY <1>1, AfterPut DEF ResetSteps
<1>3. InitSteps \in Seq(Step)
  BY <1>1, AfterPut DEF InitSteps
<1> QED
  BY <1>1, <1>2, <1>3, AfterPut

\* A step of a thread, and the steps it puts in its place.
LEMMA Goes ==
  ASSUME todo \in [Thread -> Seq(Step)], NEW t \in Thread, todo[t] # <<>>,
         NEW s \in Seq(Step), Go(t, s)
  PROVE  /\ todo' \in [Thread -> Seq(Step)]
         /\ \A u \in Thread : u # t => todo'[u] = todo[u]
         /\ Len(todo'[t]) = Len(s) + Len(todo[t]) - 1
         /\ \A i \in 1..Len(s) : todo'[t][i] = s[i]
         /\ \A i \in 1..Len(todo[t]) - 1 : todo'[t][Len(s) + i] = todo[t][i + 1]
<1>1. todo[t] \in Seq(Step)
  OBVIOUS
<1>2. todo'[t] = s \o Tail(todo[t]) /\ \A u \in Thread : u # t => todo'[u] = todo[u]
  BY DEF Go
<1>3. s \o Tail(todo[t]) \in Seq(Step)
  BY <1>1, AfterPop, AfterPut
<1>4. todo' \in [Thread -> Seq(Step)]
  BY <1>3 DEF Go
<1>5. Tail(todo[t]) \in Seq(Step) /\ Len(Tail(todo[t])) = Len(todo[t]) - 1
      /\ \A i \in 1..(Len(todo[t]) - 1) : Tail(todo[t])[i] = todo[t][i + 1]
  BY <1>1, AfterPop
<1> QED
  BY <1>2, <1>4, <1>5, AfterPut

-----------------------------------------------------------------------------
(* Types. *)

LEMMA LiveTypeInit == Constants /\ ScreenInit => ScreenTypeOK
<1> SUFFICES ASSUME Constants, ScreenInit
             PROVE  ScreenTypeOK
  OBVIOUS
<1> USE DEF ScreenInit
<1>1. todo \in [Thread -> Seq(Step)] /\ local \in [Thread -> Server \cup {Null}]
  OBVIOUS
<1>2. ops \in 0..MaxOps /\ rtsp_clients \in 0..Cardinality(Client)
  BY Counts DEF Constants
<1>3. /\ conns \in [Server -> SUBSET Client] /\ counted \in [Server -> SUBSET Client]
      /\ enc \in [Encoder -> {"none", "loop", "frame", "push", "pushed", "done"}]
  OBVIOUS
<1> QED
  BY <1>1, <1>2, <1>3 DEF ScreenTypeOK

LEMMA LiveTypeNext ==
  ASSUME Constants, LiveInv, [ScreenNext]_(screenVars)
  PROVE  ScreenTypeOK'
<1>0. ScreenTypeOK
  BY DEF LiveInv
<1> USE <1>0 DEF ScreenTypeOK, members, server, count, thread, exit
<1>1. CASE Call
  <2>1. todo' \in [Thread -> Seq(Step)]
    <3>1. PICK steps \in {InitSteps, StartSteps, StopSteps, ResetSteps,
                          DestroySteps} : todo' = [todo EXCEPT !["main"] = steps]
      BY <1>1 DEF Call
    <3>2. steps \in Seq(Step)
      BY Plans
    <3> QED
      BY <3>1, <3>2
  <2> QED
    BY <1>1, <2>1 DEF Call, Constants
<1>2. CASE Exit
  <2>1. todo' \in [Thread -> Seq(Step)]
    BY <1>2, Plans DEF Exit
  <2> QED
    BY <1>2, <2>1 DEF Exit
<1>3. ASSUME NEW t \in Thread, ThreadStep(t)
      PROVE  ScreenTypeOK'
  <2>1. \A step : At(t, step) => todo[t] # <<>>
    BY DEF At
  <2>2. \A s \in Seq(Step) : Go(t, s) /\ todo[t] # <<>>
          => todo' \in [Thread -> Seq(Step)]
    BY Goes
  <2>3. Return(t) => todo' \in [Thread -> Seq(Step)]
    BY Plans DEF Return
  <2>4. \A step \in Stopping : At(t, step) => local[t] \in Server
    BY AfterPop DEF LiveInv, ServerInv, Stopped, Comes, At
  <2>5. CASE Lock(t)
    BY <2>1, <2>2, <2>3, <2>5, Plans, Counts DEF Lock
  <2>6. CASE Unlock(t)
    BY <2>1, <2>2, <2>3, <2>6, Plans, Counts DEF Unlock
  <2>7. CASE Listen(t)
    BY <2>1, <2>2, <2>3, <2>7, Plans, Counts DEF Listen
  <2>8. CASE ListenFails(t)
    BY <2>1, <2>2, <2>3, <2>8, Plans, Counts DEF ListenFails
  <2>9. CASE Publish(t)
    BY <2>1, <2>2, <2>3, <2>9, Plans, Counts DEF Publish
  <2>10. CASE Halt(t)
    BY <2>1, <2>2, <2>3, <2>10, Plans, Counts DEF Halt
  <2>11. CASE Clear(t)
    BY <2>1, <2>2, <2>3, <2>11, Plans, Counts DEF Clear
  <2>12. CASE Drop(t)
    BY <2>1, <2>2, <2>3, <2>12, Plans, Counts DEF Drop
  <2>13. CASE Disconnect(t)
    BY <2>1, <2>2, <2>3, <2>4, <2>13, Plans, Counts DEF Stopping, Disconnect
  <2>14. CASE CloseAcceptor(t)
    BY <2>1, <2>2, <2>3, <2>4, <2>14, Plans, Counts DEF Stopping, CloseAcceptor
  <2>15. CASE Wait(t)
    BY <2>1, <2>2, <2>3, <2>15, Plans, Counts DEF Wait
  <2>16. CASE StartCapture(t)
    BY <2>1, <2>2, <2>3, <2>16, Plans, Counts DEF StartCapture
  <2>17. CASE StartEncoder(t)
    BY <2>1, <2>2, <2>3, <2>17, Plans, Counts DEF StartEncoder, Crash
  <2>18. CASE StartEncoderFails(t)
    BY <2>1, <2>2, <2>3, <2>18, Plans, Counts DEF StartEncoderFails
  <2>19. CASE Initialized(t)
    BY <2>1, <2>2, <2>3, <2>19, Plans, Counts DEF Initialized
  <2>20. CASE StopEncoder(t)
    BY <2>1, <2>2, <2>3, <2>20, Plans, Counts DEF StopEncoder
  <2>21. ASSUME NEW e \in Encoder, JoinEncoder(t, e)
        PROVE  ScreenTypeOK'
    BY <2>1, <2>2, <2>21, Plans DEF JoinEncoder
  <2>22. CASE Destroyed(t)
    BY <2>1, <2>2, <2>3, <2>22, Plans, Counts DEF Destroyed
  <2>23. CASE Quit(t)
    BY <2>1, <2>2, <2>3, <2>23, Plans, Counts DEF Quit
  <2>24. CASE JoinScheduler(t)
    BY <2>1, <2>2, <2>3, <2>24, Plans, Counts DEF JoinScheduler
  <2>25. CASE Exited(t)
    BY <2>1, <2>2, <2>3, <2>25, Plans, Counts DEF Exited
  <2> QED
    BY <1>3, <2>5, <2>6, <2>7, <2>8, <2>9, <2>10, <2>11, <2>12, <2>13, <2>14, <2>15,
       <2>16, <2>17, <2>18, <2>19, <2>20, <2>21, <2>22, <2>23, <2>24, <2>25
    DEF ThreadStep
<1>4. ASSUME NEW e \in Encoder, ScreenEncoderStep(e)
      PROVE  ScreenTypeOK'
  BY <1>4
  DEF ScreenEncoderStep, Encode, PushLock, PushFrame, PushUnlock,
      EncoderEnds, Crash
<1>5. ASSUME NEW s \in Server, NEW c \in Client, Describe(s, c) \/ CloseConnection(s, c)
      PROVE  ScreenTypeOK'
  <2>1. /\ counted[s] \cup {c} \in SUBSET Client /\ counted[s] \ {c} \in SUBSET Client
        /\ conns[s] \ {c} \in SUBSET Client
    OBVIOUS
  <2>2. CASE Describe(s, c)
    BY <2>1, <2>2, Counts DEF Describe, Notify
  <2>3. CASE CloseConnection(s, c)
    BY <2>1, <2>3, Counts DEF CloseConnection, Notify
  <2> QED
    BY <1>5, <2>2, <2>3
<1>6. ASSUME NEW s \in Server, OnAccept(s)
      PROVE  ScreenTypeOK'
  BY <1>6 DEF OnAccept
<1>7. ASSUME NEW c \in Client, Leave(c)
      PROVE  ScreenTypeOK'
  BY <1>7 DEF Leave
<1>8. CASE GetTaskScheduler
  BY <1>8 DEF GetTaskScheduler
<1>9. CASE SchedulerEnds
  BY <1>9 DEF SchedulerEnds
<1>10. CASE UNCHANGED screenVars
  BY <1>10 DEF screenVars
<1> QED
  BY ONLY <1>1, <1>2, <1>3, <1>4, <1>5, <1>6, <1>7, <1>8, <1>9, <1>10, [ScreenNext]_(screenVars)
  DEF ScreenNext, EventLoopStep

-----------------------------------------------------------------------------
(* The steps follow one another as the operations say. *)

LEMMA ChainedPut ==
  ASSUME NEW s \in Seq(Step), NEW q \in Seq(Step), Chained(s), Chained(q),
         Len(s) > 0 /\ Len(q) > 0 => Follows(s[Len(s)], q[1])
  PROVE  Chained(s \o q)
<1> SUFFICES ASSUME NEW i \in 1..Len(s \o q), i > 1
             PROVE  Follows((s \o q)[i - 1], (s \o q)[i])
  BY DEF Chained
<1>1. /\ Len(s) \in Nat /\ Len(q) \in Nat /\ Len(s \o q) = Len(s) + Len(q)
      /\ \A k \in 1..Len(s) : (s \o q)[k] = s[k]
      /\ \A k \in 1..Len(q) : (s \o q)[Len(s) + k] = q[k]
  BY AfterPut
<1>2. CASE i <= Len(s)
  BY <1>1, <1>2 DEF Chained
<1>3. CASE i = Len(s) + 1
  <2>1. i - 1 \in 1..Len(s) /\ i - 1 = Len(s) /\ 1 \in 1..Len(q)
    BY <1>1, <1>3
  <2> QED
    BY <1>1, <1>3, <2>1
<1>4. CASE i > Len(s) + 1
  <2> DEFINE k == i - Len(s)
  <2>1. k \in 1..Len(q) /\ k - 1 \in 1..Len(q) /\ k > 1 /\ i = Len(s) + k
        /\ i - 1 = Len(s) + (k - 1)
    BY <1>1, <1>4
  <2>2. Follows(q[k - 1], q[k])
    BY <2>1 DEF Chained
  <2> QED
    BY <1>1, <2>1, <2>2
<1> QED
  BY <1>1, <1>2, <1>3, <1>4

LEMMA ChainedTail ==
  ASSUME NEW q \in Seq(Step), q # <<>>, Chained(q)
  PROVE  Chained(Tail(q)) /\ (Len(Tail(q)) > 0 => Follows(q[1], Tail(q)[1]))
<1>1. /\ Len(q) \in Nat /\ Len(q) > 0 /\ Len(Tail(q)) = Len(q) - 1
      /\ \A i \in 1..(Len(q) - 1) : Tail(q)[i] = q[i + 1]
  BY AfterPop
<1>2. ASSUME NEW i \in 1..Len(Tail(q)), i > 1
      PROVE  Follows(Tail(q)[i - 1], Tail(q)[i])
  <2>1. i + 1 \in 1..Len(q) /\ i + 1 > 1 /\ i - 1 \in 1..(Len(q) - 1) /\ (i + 1) - 1 = i
        /\ (i - 1) + 1 = i
    BY <1>1, <1>2
  <2>2. Follows(q[(i + 1) - 1], q[i + 1])
    BY <2>1 DEF Chained
  <2> QED
    BY <1>1, <2>1, <2>2
<1>3. Len(Tail(q)) > 0 => Follows(q[1], Tail(q)[1])
  <2> SUFFICES ASSUME Len(Tail(q)) > 0
               PROVE  Follows(q[1], Tail(q)[1])
    OBVIOUS
  <2>1. 2 \in 1..Len(q) /\ Tail(q)[1] = q[2]
    BY <1>1
  <2> QED
    BY <2>1 DEF Chained
<1> QED
  BY <1>2, <1>3 DEF Chained

LEMMA ChainedTuples ==
  /\ Chained(<<>>) /\ \A a : Chained(<<a>>)
  /\ \A a, b : Follows(a, b) => Chained(<<a, b>>)
  /\ \A a, b, c : Follows(a, b) /\ Follows(b, c) => Chained(<<a, b, c>>)
  /\ \A a, b, c, d :
       Follows(a, b) /\ Follows(b, c) /\ Follows(c, d) => Chained(<<a, b, c, d>>)
  /\ \A a, b, c, d, e :
       Follows(a, b) /\ Follows(b, c) /\ Follows(c, d) /\ Follows(d, e)
         => Chained(<<a, b, c, d, e>>)
  BY DEF Chained

LEMMA ChainedPlans ==
  /\ Chained(<<>>) /\ Chained(StopServer) /\ Chained(StopServer \o <<"clear">>)
  /\ Chained(<<"join video", "join audio">>)
  /\ Chained(StartSteps) /\ Chained(StopSteps) /\ Chained(DestroySteps)
  /\ Chained(DestroySteps \o <<"quit", "join", "exit">>)
  /\ Chained(ResetSteps) /\ Chained(InitSteps)
<1>1. /\ Follows("disconnect", "close") /\ Follows("close", "wait") /\ Follows("wait", "clear")
      /\ Follows("join video", "join audio") /\ Follows("listen", "lock")
      /\ Follows("lock", "publish") /\ Follows("publish", "unlock")
      /\ Follows("lock", "halt") /\ Follows("halt", "unlock")
      /\ Follows("lock", "drop") /\ Follows("drop", "unlock")
      /\ Follows("unlock", "stop encoder") /\ Follows("stop encoder", "destroyed")
      /\ Follows("destroyed", "quit") /\ Follows("quit", "join") /\ Follows("join", "exit")
      /\ Follows("stop encoder", "start encoder") /\ Follows("destroyed", "start capture")
      /\ Follows("start capture", "start encoder") /\ Follows("start encoder", "initialized")
  BY DEF Follows
<1>2. Chained(<<>>) /\ Chained(<<"clear">>) /\ Chained(<<"join video", "join audio">>)
  BY <1>1, ChainedTuples
<1>3. Chained(<<"disconnect", "close", "wait">>)
  BY <1>1, ChainedTuples
<1>4. Chained(<<"listen", "lock", "publish", "unlock">>) /\ Chained(<<"lock", "halt", "unlock">>)
  BY <1>1, ChainedTuples
<1>5. Chained(<<"lock", "drop", "unlock", "stop encoder", "destroyed">>)
  BY <1>1, ChainedTuples
<1>6. /\ Chained(<<"quit", "join", "exit">>) /\ Chained(<<"stop encoder", "start encoder">>)
      /\ Chained(<<"start capture", "start encoder", "initialized">>)
  BY <1>1, ChainedTuples
<1>7. /\ <<"disconnect", "close", "wait">> \in Seq(Step) /\ <<"clear">> \in Seq(Step)
      /\ <<"lock", "halt", "unlock">> \in Seq(Step)
      /\ <<"lock", "drop", "unlock", "stop encoder", "destroyed">> \in Seq(Step)
      /\ <<"quit", "join", "exit">> \in Seq(Step)
      /\ <<"stop encoder", "start encoder">> \in Seq(Step)
      /\ <<"start capture", "start encoder", "initialized">> \in Seq(Step)
      /\ <<>> \in Seq(Step)
  BY DEF Step
<1>8. Chained(StopServer \o <<"clear">>)
  <2>1. Follows(<<"disconnect", "close", "wait">>[Len(<<"disconnect", "close", "wait">>)],
                <<"clear">>[1])
    BY <1>1
  <2> QED
    BY <1>2, <1>3, <1>7, <2>1, ChainedPut DEF StopServer
<1>9. Chained(DestroySteps \o <<"quit", "join", "exit">>)
  <2> DEFINE s == <<"lock", "drop", "unlock", "stop encoder", "destroyed">>
  <2>1. Follows(s[Len(s)], <<"quit", "join", "exit">>[1])
    BY <1>1
  <2> QED
    BY <1>5, <1>6, <1>7, <2>1, ChainedPut DEF DestroySteps
<1>10. Chained(ResetSteps)
  <2> DEFINE s == <<"lock", "halt", "unlock">>
  <2>1. Follows(s[Len(s)], <<"stop encoder", "start encoder">>[1])
    BY <1>1
  <2> QED
    BY <1>4, <1>6, <1>7, <2>1, ChainedPut DEF ResetSteps, StopSteps
<1>11. Chained(InitSteps)
  <2> DEFINE s == <<"lock", "drop", "unlock", "stop encoder", "destroyed">>
             q == <<"start capture", "start encoder", "initialized">>
  <2>1. Follows(s[Len(s)], q[1]) /\ Len(<<>>) = 0
    BY <1>1
  <2>2. s \in Seq(Step) /\ q \in Seq(Step) /\ Chained(s) /\ Chained(q)
    BY <1>5, <1>6, <1>7
  <2> HIDE DEF s, q
  <2>3. Chained(s \o q)
    BY <2>1, <2>2, ChainedPut
  <2>4. <<>> \o q = q
    BY <2>2
  <2> QED
    BY <2>2, <2>3, <2>4 DEF s, q, InitSteps, DestroySteps
<1> QED
  BY <1>2, <1>3, <1>4, <1>5, <1>8, <1>9, <1>10, <1>11
  DEF StopServer, StartSteps, StopSteps, DestroySteps

\* The next two steps of a thread, after it has taken one.
LEMMA NextSteps ==
  ASSUME ScreenTypeOK, PlanInv, NEW t \in Thread, todo[t] # <<>>,
         NEW s \in Seq(Step), Go(t, s), Chained(s),
         Len(s) > 0 => \A b : Follows(Head(todo[t]), b) => Follows(s[Len(s)], b),
         t = "pipe" => s \in Seq(PipeSteps)
  PROVE  PlanInv'
<1>1. /\ todo[t] \in Seq(Step) /\ Chained(todo[t]) /\ Tail(todo[t]) \in Seq(Step)
      /\ todo' = [todo EXCEPT ![t] = s \o Tail(todo[t])]
      /\ Head(todo[t]) = todo[t][1]
  BY AfterPop DEF PlanInv, ScreenTypeOK, Go
<1>2. Chained(Tail(todo[t])) /\ (Len(Tail(todo[t])) > 0 => Follows(todo[t][1], Tail(todo[t])[1]))
  BY <1>1, ChainedTail
<1>3. Chained(s \o Tail(todo[t]))
  BY <1>1, <1>2, ChainedPut
<1>4. ASSUME t = "pipe", NEW i \in 1..Len(todo'[t])
      PROVE  todo'[t][i] \in PipeSteps
  <2>1. /\ Len(s) \in Nat /\ Len(todo[t]) \in Nat /\ Len(todo'[t]) = Len(s) + Len(todo[t]) - 1
        /\ \A k \in 1..Len(s) : todo'[t][k] = s[k]
        /\ \A k \in 1..Len(todo[t]) - 1 : todo'[t][Len(s) + k] = todo[t][k + 1]
    BY <1>1, Goes DEF ScreenTypeOK
  <2>2. CASE i <= Len(s)
    <3>1. \A k \in 1..Len(s) : s[k] \in PipeSteps
      BY <1>4
    <3> QED
      BY <2>1, <2>2, <3>1
  <2>3. CASE i > Len(s)
    <3>1. /\ i - Len(s) \in 1..Len(todo[t]) - 1 /\ Len(s) + (i - Len(s)) = i
          /\ (i - Len(s)) + 1 \in 1..Len(todo[t])
      BY <1>4, <2>1, <2>3
    <3> QED
      BY <1>4, <2>1, <3>1 DEF PlanInv
  <2> QED
    BY <1>4, <2>1, <2>2, <2>3
<1> QED
  BY <1>1, <1>3, <1>4 DEF PlanInv, ScreenTypeOK, Thread

LEMMA PlanInit == ScreenInit => PlanInv
<1>1. Len(<<>>) = 0 /\ Chained(<<>>)
  BY ChainedPlans
<1> QED
  BY <1>1 DEF ScreenInit, PlanInv, Thread

LEMMA PlanNext ==
  ASSUME Constants, LiveInv, [ScreenNext]_(screenVars)
  PROVE  PlanInv'
<1>0. ScreenTypeOK /\ PlanInv
  BY DEF LiveInv
<1>1. CASE UNCHANGED todo
  BY <1>0, <1>1 DEF PlanInv
<1>2. CASE Call
  <2>1. PICK steps \in {InitSteps, StartSteps, StopSteps, ResetSteps,
                        DestroySteps} : todo' = [todo EXCEPT !["main"] = steps]
    BY <1>2 DEF Call
  <2>2. Chained(steps)
    BY ChainedPlans
  <2> QED
    BY <1>0, <2>1, <2>2 DEF PlanInv, ScreenTypeOK, Thread
<1>3. CASE Exit
  <2> DEFINE s == DestroySteps \o <<"quit", "join", "exit">>
  <2>1. Chained(s)
    BY ChainedPlans
  <2>2. \A i \in 1..Len(s) : s[i] \in PipeSteps
    <3>1. DestroySteps \in Seq(PipeSteps) /\ <<"quit", "join", "exit">> \in Seq(PipeSteps)
      BY DEF DestroySteps, PipeSteps
    <3>2. s \in Seq(PipeSteps)
      BY <3>1
    <3> QED
      BY <3>2
  <2>3. todo' = [todo EXCEPT !["pipe"] = s]
    BY <1>3 DEF Exit
  <2> HIDE DEF s
  <2> QED
    BY <1>0, <2>1, <2>2, <2>3 DEF PlanInv, ScreenTypeOK, Thread
<1>4. ASSUME NEW t \in Thread, ThreadStep(t)
      PROVE  PlanInv'
  <2>0. todo[t] # <<>> /\ todo[t] \in Seq(Step) /\ Head(todo[t]) = todo[t][1]
        /\ Len(todo[t]) > 0 /\ Len(todo[t]) \in Nat
    BY <1>0, <1>4, AfterPop
    DEF ThreadStep, At, Lock, Unlock, Listen, ListenFails,
        Publish, Halt, Clear, Drop, Disconnect, CloseAcceptor,
        Wait, StartCapture, StartEncoder, StartEncoderFails,
        Initialized, StopEncoder, JoinEncoder, Destroyed, Quit,
        JoinScheduler, Exited, ScreenTypeOK
  <2>1. CASE Go(t, <<>>)
    <3> DEFINE s == <<>>
    <3>1. s \in Seq(Step) /\ Chained(s)
      BY Plans, ChainedPlans
    <3>2. Len(s) = 0 /\ s \in Seq(PipeSteps)
      OBVIOUS
    <3>3. Go(t, s)
      BY <2>1
    <3> HIDE DEF s
    <3>4. Len(s) > 0 => \A b : Follows(Head(todo[t]), b) => Follows(s[Len(s)], b)
      BY <3>2
    <3> QED
      BY <1>0, <1>4, <2>0, <3>1, <3>2, <3>3, <3>4, NextSteps
  <2>2. CASE Return(t)
    <3>1. Len(<<>>) = 0 /\ Chained(<<>>)
      BY ChainedPlans
    <3> QED
      BY <1>0, <2>2, <3>1 DEF Return, PlanInv, ScreenTypeOK, Thread
  <2>3. CASE Head(todo[t]) \in {"publish", "drop"} /\ Go(t, StopServer)
    <3> DEFINE s == StopServer
    <3>1. s \in Seq(Step) /\ Chained(s)
      BY Plans, ChainedPlans
    <3>2. Len(s) = 3 /\ s[3] = "wait" /\ s \in Seq(PipeSteps)
      BY DEF StopServer, PipeSteps
    <3>3. \A b : Follows(Head(todo[t]), b) => Follows("wait", b)
      BY <2>3 DEF Follows
    <3> HIDE DEF s
    <3> QED
      BY <1>0, <1>4, <2>0, <2>3, <3>1, <3>2, <3>3, NextSteps DEF s
  <2>4. CASE Head(todo[t]) = "halt" /\ Go(t, StopServer \o <<"clear">>)
    <3> DEFINE s == StopServer \o <<"clear">>
    <3>1. s \in Seq(Step) /\ Chained(s)
      BY Plans, ChainedPlans
    <3>2. Len(s) = 4 /\ s[4] = "clear"
      BY DEF StopServer
    <3>3. \A b : Follows(Head(todo[t]), b) => Follows("clear", b)
      BY <2>4 DEF Follows
    <3>4. "halt" \notin PipeSteps /\ 1 \in 1..Len(todo[t])
      BY <2>0 DEF PipeSteps
    <3>5. t # "pipe"
      BY <1>0, <2>0, <2>4, <3>4 DEF PlanInv
    <3> HIDE DEF s
    <3> QED
      BY <1>0, <2>0, <2>4, <3>1, <3>2, <3>3, <3>5, NextSteps DEF s
  <2>5. CASE Head(todo[t]) = "stop encoder" /\ Go(t, <<"join video", "join audio">>)
    <3> DEFINE s == <<"join video", "join audio">>
    <3>1. s \in Seq(Step) /\ Chained(s)
      BY Plans, ChainedPlans
    <3>2. Len(s) = 2 /\ s[2] = "join audio" /\ s \in Seq(PipeSteps)
      BY DEF PipeSteps
    <3>3. \A b : Follows(Head(todo[t]), b) => Follows("join audio", b)
      BY <2>5 DEF Follows
    <3> HIDE DEF s
    <3> QED
      BY <1>0, <1>4, <2>0, <2>5, <3>1, <3>2, <3>3, NextSteps DEF s
  <2> QED
    BY ONLY <1>1, <1>4, <2>1, <2>2, <2>3, <2>4, <2>5
    DEF ThreadStep, At, Lock, Unlock, Listen, ListenFails,
        Publish, Halt, Clear, Drop, Disconnect, CloseAcceptor,
        Wait, StartCapture, StartEncoder, StartEncoderFails,
        Initialized, StopEncoder, JoinEncoder, Destroyed, Quit,
        JoinScheduler, Exited
<1>5. CASE \E e \in Encoder : ScreenEncoderStep(e)
  BY <1>1, <1>5
  DEF ScreenEncoderStep, Encode, PushLock, PushFrame, PushUnlock,
      EncoderEnds
<1>6. CASE \/ EventLoopStep
           \/ \E s \in Server : OnAccept(s) \/ \E c \in Client : Describe(s, c)
           \/ \E c \in Client : Leave(c)
  BY <1>1, <1>6
  DEF EventLoopStep, GetTaskScheduler, SchedulerEnds, CloseConnection, OnAccept,
      Describe, Leave
<1>7. CASE UNCHANGED screenVars
  BY <1>1, <1>7 DEF screenVars
<1> QED
  BY <1>2, <1>3, <1>4, <1>5, <1>6, <1>7 DEF ScreenNext

-----------------------------------------------------------------------------
(* A thread's next step, after it has taken one. *)

LEMMA Taken ==
  ASSUME ScreenTypeOK, NEW t \in Thread, ThreadStep(t)
  PROVE  /\ todo[t] # <<>> /\ todo[t] \in Seq(Step) /\ Head(todo[t]) = todo[t][1]
         /\ Len(todo[t]) > 0 /\ Len(todo[t]) \in Nat
         /\ Running
  BY AfterPop
  DEF ThreadStep, At, Lock, Unlock, Listen, ListenFails,
      Publish, Halt, Clear, Drop, Disconnect, CloseAcceptor,
      Wait, StartCapture, StartEncoder, StartEncoderFails,
      Initialized, StopEncoder, JoinEncoder, Destroyed, Quit,
      JoinScheduler, Exited, ScreenTypeOK

LEMMA Popped ==
  ASSUME ScreenTypeOK, PlanInv, NEW t \in Thread, todo[t] # <<>>, Go(t, <<>>)
  PROVE  /\ \A u \in Thread : u # t => todo'[u] = todo[u]
         /\ Len(todo'[t]) \in Nat /\ Len(todo'[t]) = Len(todo[t]) - 1
         /\ \A i \in 1..Len(todo'[t]) : todo'[t][i] = todo[t][i + 1]
         /\ Len(todo'[t]) > 0 => Follows(todo[t][1], todo'[t][1])
<1>1. /\ todo[t] \in Seq(Step) /\ Chained(todo[t]) /\ <<>> \o Tail(todo[t]) = Tail(todo[t])
      /\ Len(todo[t]) \in Nat /\ Len(todo[t]) > 0
      /\ Len(Tail(todo[t])) = Len(todo[t]) - 1
      /\ \A i \in 1..(Len(todo[t]) - 1) : Tail(todo[t])[i] = todo[t][i + 1]
  BY AfterPop DEF PlanInv, ScreenTypeOK
<1>2. todo'[t] = Tail(todo[t]) /\ \A u \in Thread : u # t => todo'[u] = todo[u]
  BY <1>1 DEF ScreenTypeOK, Go
<1> QED
  BY <1>1, <1>2, ChainedTail

LEMMA Put ==
  ASSUME ScreenTypeOK, NEW t \in Thread, todo[t] # <<>>
  PROVE  /\ Go(t, StopServer) =>
              Len(todo'[t]) > 2 /\ todo'[t][1] = "disconnect" /\ todo'[t][2] = "close"
              /\ todo'[t][3] = "wait" /\ \A u \in Thread : u # t => todo'[u] = todo[u]
         /\ Go(t, StopServer \o <<"clear">>) =>
              Len(todo'[t]) > 3 /\ todo'[t][1] = "disconnect" /\ todo'[t][2] = "close"
              /\ todo'[t][3] = "wait" /\ todo'[t][4] = "clear"
              /\ \A u \in Thread : u # t => todo'[u] = todo[u]
         /\ Go(t, <<"join video", "join audio">>) =>
              Len(todo'[t]) > 0 /\ Len(todo'[t]) > 1 /\ todo'[t][1] = "join video"
              /\ todo'[t][2] = "join audio"
              /\ \A u \in Thread : u # t => todo'[u] = todo[u]
<1>1. todo \in [Thread -> Seq(Step)] /\ Len(todo[t]) \in Nat /\ Len(todo[t]) > 0
  BY AfterPop DEF ScreenTypeOK
<1>2. ASSUME Go(t, StopServer)
      PROVE  Len(todo'[t]) > 2 /\ todo'[t][1] = "disconnect" /\ todo'[t][2] = "close"
             /\ todo'[t][3] = "wait" /\ \A u \in Thread : u # t => todo'[u] = todo[u]
  <2> DEFINE s == StopServer
  <2>1. s \in Seq(Step) /\ Go(t, s)
    BY <1>2, Plans
  <2>2. Len(s) = 3 /\ s[1] = "disconnect" /\ s[2] = "close" /\ s[3] = "wait"
    BY DEF StopServer
  <2> HIDE DEF s
  <2>3. /\ \A u \in Thread : u # t => todo'[u] = todo[u]
        /\ Len(todo'[t]) = Len(s) + Len(todo[t]) - 1
        /\ \A i \in 1..Len(s) : todo'[t][i] = s[i]
    BY <1>1, <2>1, Goes
  <2> QED
    BY <1>1, <2>1, <2>2, <2>3
<1>3. ASSUME Go(t, StopServer \o <<"clear">>)
      PROVE  Len(todo'[t]) > 3 /\ todo'[t][1] = "disconnect" /\ todo'[t][2] = "close"
             /\ todo'[t][3] = "wait" /\ todo'[t][4] = "clear"
             /\ \A u \in Thread : u # t => todo'[u] = todo[u]
  <2> DEFINE s == StopServer \o <<"clear">>
  <2>1. s \in Seq(Step) /\ Go(t, s)
    BY <1>3, Plans
  <2>2. /\ Len(s) = 4 /\ s[1] = "disconnect" /\ s[2] = "close" /\ s[3] = "wait"
        /\ s[4] = "clear"
    BY DEF StopServer
  <2> HIDE DEF s
  <2>3. /\ \A u \in Thread : u # t => todo'[u] = todo[u]
        /\ Len(todo'[t]) = Len(s) + Len(todo[t]) - 1
        /\ \A i \in 1..Len(s) : todo'[t][i] = s[i]
    BY <1>1, <2>1, Goes
  <2> QED
    BY <1>1, <2>1, <2>2, <2>3
<1>4. ASSUME Go(t, <<"join video", "join audio">>)
      PROVE  Len(todo'[t]) > 0 /\ Len(todo'[t]) > 1 /\ todo'[t][1] = "join video"
             /\ todo'[t][2] = "join audio"
             /\ \A u \in Thread : u # t => todo'[u] = todo[u]
  <2>1. JoinSteps \in Seq(Step) /\ Len(JoinSteps) \in Nat /\ Go(t, JoinSteps)
    BY <1>4, Plans DEF JoinSteps
  <2>2. JoinSteps[1] = "join video" /\ JoinSteps[2] = "join audio"
    BY DEF JoinSteps
  <2>3. Len(JoinSteps) = 2
    BY DEF JoinSteps
  <2>4. Len(todo'[t]) = Len(JoinSteps) + Len(todo[t]) - 1
        /\ \A u \in Thread : u # t => todo'[u] = todo[u]
    BY <1>1, <2>1, Goes
  <2>5. \A i \in 1..Len(JoinSteps) : todo'[t][i] = JoinSteps[i]
    BY <1>1, <2>1, Goes
  <2>6. 1 \in 1..Len(JoinSteps) /\ 2 \in 1..Len(JoinSteps)
    BY <2>3
  <2>7. todo'[t][1] = "join video" /\ todo'[t][2] = "join audio"
    BY <2>2, <2>5, <2>6
  <2>8. Len(todo'[t]) > 0 /\ Len(todo'[t]) > 1
    BY <1>1, <2>4, <2>3
  <2> QED
    BY <2>4, <2>7, <2>8
<1> QED
  BY <1>2, <1>3, <1>4


LEMMA Returned ==
  ASSUME ScreenTypeOK, NEW t \in Thread, Return(t)
  PROVE  Len(todo'[t]) = 0 /\ \A u \in Thread : u # t => todo'[u] = todo[u]
  BY DEF Return, ScreenTypeOK

LEMMA Called ==
  ASSUME ScreenTypeOK, Call
  PROVE  /\ todo'["pipe"] = todo["pipe"] /\ Len(todo'["main"]) > 1
         /\ \/ todo'["main"][1] = "lock" /\ todo'["main"][2] \in {"drop", "halt"}
            \/ todo'["main"][1] = "start capture" /\ ~initialized
            \/ todo'["main"][1] = "listen"
<1>1. PICK steps \in {InitSteps, StartSteps, StopSteps, ResetSteps,
                      DestroySteps} : todo' = [todo EXCEPT !["main"] = steps]
  BY DEF Call
<1>2. todo'["main"] = steps /\ todo'["pipe"] = todo["pipe"]
  BY <1>1 DEF ScreenTypeOK, Thread
<1> DEFINE Begins(q) == /\ Len(q) > 1
                       /\ \/ q[1] = "lock" /\ q[2] \in {"drop", "halt"}
                          \/ q[1] = "start capture" /\ ~initialized
                          \/ q[1] = "listen"
<1>3. Begins(DestroySteps)
  <2>1. Len(DestroySteps) = 5 /\ DestroySteps[1] = "lock" /\ DestroySteps[2] = "drop"
    BY DEF DestroySteps
  <2> QED
    BY <2>1
<1>4. Begins(StopSteps) /\ Begins(StartSteps)
  BY DEF StopSteps, StartSteps
<1>5. Begins(ResetSteps)
  <2>1. <<"stop encoder", "start encoder">> \in Seq(Step)
    BY DEF Step
  <2>2. /\ StopSteps \in Seq(Step) /\ Len(StopSteps) > 1
        /\ StopSteps[1] = "lock" /\ StopSteps[2] = "halt"
    BY DEF StopSteps, Step
  <2> QED
    BY <2>1, <2>2, FirstTwo DEF ResetSteps
<1>6. Begins(InitSteps)
  <2>1. CASE initialized
    <3>1. /\ DestroySteps \in Seq(Step) /\ Len(DestroySteps) > 1
          /\ DestroySteps[1] = "lock" /\ DestroySteps[2] = "drop"
      <4>1. DestroySteps \in Seq(Step)
        BY Plans
      <4>2. Len(DestroySteps) = 5
        BY DEF DestroySteps
      <4>3. DestroySteps[1] = "lock" /\ DestroySteps[2] = "drop"
        BY DEF DestroySteps
      <4> QED
        BY <4>1, <4>2, <4>3
    <3>2. CaptureSteps \in Seq(Step)
      BY DEF CaptureSteps, Step
    <3>3. InitSteps = DestroySteps \o CaptureSteps
      BY <2>1 DEF InitSteps, CaptureSteps
    <3> QED
      BY <3>1, <3>2, <3>3, FirstTwo
  <2>2. CASE ~initialized
    <3>1. CaptureSteps \in Seq(Step) /\ Len(CaptureSteps) > 1
          /\ CaptureSteps[1] = "start capture"
      BY DEF CaptureSteps, Step
    <3>2. InitSteps = <<>> \o CaptureSteps
      BY <2>2 DEF InitSteps, CaptureSteps
    <3>3. \A q \in Seq(Step) : <<>> \o q = q
      OBVIOUS
    <3>4. InitSteps = CaptureSteps /\ Len(CaptureSteps) > 1
      BY <3>1, <3>2, <3>3
    <3> QED
      BY <2>2, <3>1, <3>4
  <2> QED
    BY <2>1, <2>2
<1> QED
  BY <1>1, <1>2, <1>3, <1>4, <1>5, <1>6

LEMMA Exits ==
  ASSUME ScreenTypeOK, Exit
  PROVE  /\ todo'["main"] = todo["main"] /\ Len(todo'["pipe"]) > 1
         /\ todo'["pipe"][1] = "lock" /\ todo'["pipe"][2] = "drop"
<1> DEFINE s == DestroySteps \o <<"quit", "join", "exit">>
<1>1. Len(s) > 1 /\ s[1] = "lock" /\ s[2] = "drop"
  BY DEF DestroySteps
<1>2. todo' = [todo EXCEPT !["pipe"] = s]
  BY DEF Exit
<1> HIDE DEF s
<1> QED
  BY <1>1, <1>2 DEF ScreenTypeOK, Thread

-----------------------------------------------------------------------------
(* ScreenLive::mutex_. *)

LEMMA FollowsLocked ==
  \A a, b \in Step :
    Follows(a, b) /\ b \in Locked => a \in Locked \cup {"lock"} /\ a # "unlock"
<1> SUFFICES ASSUME NEW a \in Step, NEW b \in Step, Follows(a, b),
                    a \notin Locked \cup {"lock"} \/ a = "unlock"
             PROVE  b \notin Locked
  OBVIOUS
<1>1. a \in {"unlock", "stop encoder", "destroyed", "start capture", "start encoder",
             "initialized", "listen", "join video", "join audio", "quit", "join", "exit"}
  BY DEF Step, Locked
<1>2. b \in {"stop encoder", "destroyed", "start encoder", "start capture", "quit", "initialized",
             "lock", "join audio", "join", "exit"}
  BY <1>1 DEF Follows
<1> QED
  BY <1>2 DEF Locked


LEMMA MutexNext ==
  ASSUME Constants, LiveInv, [ScreenNext]_(screenVars)
  PROVE  MutexInv'
<1>0. ScreenTypeOK /\ PlanInv /\ MutexInv
  BY DEF LiveInv
<1> DEFINE Holds(t, q, m) == Comes(q, Locked) => m = t
           Pushes(e, at, m) == at \in {"push", "pushed"} => m = e
<1>1. MutexInv' <=> /\ \A u \in Thread : Holds(u, todo'[u], mutex')
                    /\ \A e \in Encoder : Pushes(e, enc'[e], mutex')
  BY DEF MutexInv, Thread, Encoder
<1>2. /\ \A u \in Thread : Holds(u, todo[u], mutex)
      /\ \A e \in Encoder : Pushes(e, enc[e], mutex)
  BY <1>0 DEF MutexInv
<1>3. CASE UNCHANGED <<todo, mutex, enc>>
  BY <1>1, <1>2, <1>3
<1>4. ASSUME Len(todo'["main"]) > 0 => todo'["main"][1] \notin Locked, todo'["pipe"] = todo["pipe"],
             UNCHANGED <<mutex, enc>>
      PROVE  MutexInv'
  BY <1>1, <1>2, <1>4 DEF Comes, Thread
<1>5. CASE Call
  <2>1. todo'["main"][1] \notin Locked
    BY <1>0, <1>5, Called DEF Locked
  <2> QED
    BY <1>0, <1>4, <1>5, <2>1, Called DEF Call
<1>6. CASE Exit
  <2>1. todo'["pipe"][1] \notin Locked /\ todo'["main"] = todo["main"]
    BY <1>0, <1>6, Exits DEF Locked
  <2> QED
    BY <1>1, <1>2, <1>6, <2>1 DEF Exit, Comes, Thread
<1>7. ASSUME NEW t \in Thread, ThreadStep(t)
      PROVE  MutexInv'
  <2> DEFINE h == todo[t][1]
             Still == \A e \in Encoder : enc'[e] \in {"push", "pushed"} => enc[e] = enc'[e]
  <2>0. todo[t] # <<>> /\ Head(todo[t]) = h /\ Len(todo[t]) > 0
    BY <1>0, <1>7, Taken
  <2>1. CASE Lock(t)
    <3>1. /\ \A u \in Thread : u # t => todo'[u] = todo[u]
          /\ mutex = Null /\ mutex' = t /\ enc' = enc
      BY <1>0, <2>0, <2>1, Popped DEF Lock
    <3>2. mutex \notin Thread \cup Encoder
      BY <3>1 DEF Constants
    <3> QED
      BY <1>1, <1>2, <3>1, <3>2
  <2>2. CASE Unlock(t)
    <3>1. /\ \A u \in Thread : u # t => todo'[u] = todo[u]
          /\ h = "unlock" /\ mutex' = Null /\ enc' = enc
          /\ Len(todo'[t]) > 0 => Follows("unlock", todo'[t][1])
      BY <1>0, <2>0, <2>2, Popped DEF Unlock, At
    <3>2. mutex = t
      BY <1>2, <2>0, <3>1 DEF Comes, Locked
    <3>3. Len(todo'[t]) > 0 => todo'[t][1] \notin Locked
      BY <3>1 DEF Follows, Locked
    <3>4. /\ \A u \in Thread : ~Comes(todo'[u], Locked)
          /\ \A e \in Encoder : enc[e] \notin {"push", "pushed"}
      BY <1>2, <1>7, <3>1, <3>2, <3>3 DEF Comes, Thread, Encoder
    <3> QED
      BY <1>1, <3>1, <3>4
  <2>3. ASSUME UNCHANGED mutex, Go(t, <<>>), h \notin {"lock", "unlock"}, Still
        PROVE  MutexInv'
    <3>1. /\ \A u \in Thread : u # t => todo'[u] = todo[u]
          /\ Len(todo'[t]) > 0 => Follows(h, todo'[t][1]) /\ todo'[t][1] = todo[t][2]
          /\ Len(todo'[t]) \in Nat /\ Len(todo'[t]) = Len(todo[t]) - 1
      BY <1>0, <1>7, <2>0, <2>3, Popped
    <3>2. Comes(todo'[t], Locked) => Comes(todo[t], Locked)
      <4>1. ASSUME Len(todo'[t]) > 0
            PROVE  h \in Step /\ todo[t][2] \in Step
        BY <1>0, <1>7, <2>0, <3>1, <4>1 DEF ScreenTypeOK
      <4> QED
        BY <2>0, <2>3, <3>1, <4>1, FollowsLocked DEF Comes
    <3> QED
      BY <1>1, <1>2, <1>7, <2>3, <3>1, <3>2
  <2>4. ASSUME UNCHANGED <<mutex, enc>>, h \in {"publish", "drop", "halt", "stop encoder"},
               \/ Go(t, StopServer) /\ h # "stop encoder"
               \/ Go(t, StopServer \o <<"clear">>) /\ h # "stop encoder"
               \/ Go(t, <<"join video", "join audio">>)
        PROVE  MutexInv'
    <3>1. /\ \A u \in Thread : u # t => todo'[u] = todo[u]
          /\ todo'[t][1] \in Locked => h # "stop encoder"
      BY <1>0, <1>7, <2>0, <2>4, Put DEF Locked
    <3>2. todo'[t][1] \in Locked => Comes(todo[t], Locked)
      BY <2>0, <2>4, <3>1 DEF Comes, Locked
    <3> QED
      BY <1>1, <1>2, <1>7, <2>4, <3>1, <3>2 DEF Comes
  <2>5. ASSUME UNCHANGED <<mutex, enc>>, Return(t)
        PROVE  MutexInv'
    <3>1. Len(todo'[t]) = 0 /\ \A u \in Thread : u # t => todo'[u] = todo[u]
      BY <1>0, <1>7, <2>5, Returned
    <3> QED
      BY <1>1, <1>2, <1>7, <2>5, <3>1 DEF Comes
  <2>6. StartEncoder(t) =>
          \/ UNCHANGED <<todo, mutex, enc>>
          \/ UNCHANGED mutex /\ Go(t, <<>>) /\ h \notin {"lock", "unlock"} /\ Still
    <3> HIDE DEF h
    <3>1. (\A e \in Encoder : enc'[e] = "loop") => Still
      OBVIOUS
    <3>2. enc' = [e \in Encoder |-> "loop"] => Still
      BY <3>1
    <3>3. StartEncoder(t) => h \notin {"lock", "unlock"} /\ UNCHANGED mutex
      BY <2>0 DEF StartEncoder, At
    <3> HIDE DEF Still
    <3>4. StartEncoder(t) =>
            \/ UNCHANGED <<enc, todo>>
            \/ Go(t, <<>>) /\ enc' = [e \in Encoder |-> "loop"]
      BY DEF StartEncoder
    <3> QED
      BY <3>2, <3>3, <3>4
  <2>7. ASSUME NEW e \in Encoder, JoinEncoder(t, e)
        PROVE  UNCHANGED mutex /\ Go(t, <<>>) /\ h \notin {"lock", "unlock"} /\ Still
    <3>1. h = Join(e) /\ UNCHANGED mutex /\ Go(t, <<>>)
      BY <2>0, <2>7 DEF JoinEncoder, At
    <3>2. Still
      BY <1>0, <2>7 DEF JoinEncoder, ScreenTypeOK
    <3> HIDE DEF h, Still
    <3>3. Join(e) \notin {"lock", "unlock"}
      BY DEF Join
    <3>4. h \notin {"lock", "unlock"}
      BY <3>1, <3>3
    <3> QED
      BY <3>1, <3>2, <3>4
  <2>8. enc' = enc => Still
    OBVIOUS
  <2> HIDE DEF Still, h
  <2>9. \/ Lock(t) \/ Unlock(t) \/ UNCHANGED <<todo, mutex, enc>>
        \/ UNCHANGED mutex /\ Go(t, <<>>) /\ h \notin {"lock", "unlock"} /\ Still
        \/ /\ UNCHANGED <<mutex, enc>> /\ h \in {"publish", "drop", "halt", "stop encoder"}
           /\ \/ Go(t, StopServer) /\ h # "stop encoder"
              \/ Go(t, StopServer \o <<"clear">>) /\ h # "stop encoder"
              \/ Go(t, <<"join video", "join audio">>)
        \/ UNCHANGED <<mutex, enc>> /\ Return(t)
    BY <1>7, <2>0, <2>6, <2>7, <2>8
    DEF ThreadStep, At, Listen, ListenFails,
        Publish, Halt, Clear, Drop, Disconnect, CloseAcceptor,
        Wait, StartCapture, StartEncoderFails,
        Initialized, StopEncoder, Destroyed, Quit,
        JoinScheduler, Exited
  <2> QED
    BY <1>3, <2>1, <2>2, <2>3, <2>4, <2>5, <2>9
<1>8. ASSUME NEW e \in Encoder, ScreenEncoderStep(e)
      PROVE  MutexInv'
  <2>1. UNCHANGED todo
    BY <1>8 DEF ScreenEncoderStep, Encode, PushLock, PushFrame, PushUnlock,
                EncoderEnds
  <2>2. CASE Encode(e) \/ EncoderEnds(e)
    BY <1>0, <1>1, <1>2, <2>1, <2>2 DEF Encode, EncoderEnds, ScreenTypeOK
  <2>3. CASE PushLock(e)
    <3>1. mutex \notin Thread \cup Encoder
      BY <2>3 DEF PushLock, Constants
    <3> QED
      BY <1>0, <1>1, <1>2, <2>1, <2>3, <3>1 DEF PushLock, ScreenTypeOK
  <2>4. CASE PushFrame(e)
    BY <1>0, <1>1, <1>2, <2>1, <2>4 DEF PushFrame, ScreenTypeOK
  <2>5. CASE PushUnlock(e)
    <3>1. mutex = e /\ e \notin Thread
      BY <1>2, <1>8, <2>5 DEF PushUnlock, Thread, Encoder
    <3> QED
      BY <1>0, <1>1, <1>2, <2>1, <2>5, <3>1 DEF PushUnlock, ScreenTypeOK
  <2> QED
    BY <1>8, <2>2, <2>3, <2>4, <2>5 DEF ScreenEncoderStep
<1>9. CASE \/ EventLoopStep
           \/ \E s \in Server : OnAccept(s) \/ \E c \in Client : Describe(s, c)
           \/ \E c \in Client : Leave(c)
  BY <1>3, <1>9
  DEF EventLoopStep, GetTaskScheduler, SchedulerEnds, CloseConnection, OnAccept,
      Describe, Leave
<1>10. CASE UNCHANGED screenVars
  BY <1>3, <1>10 DEF screenVars
<1> QED
  BY <1>5, <1>6, <1>7, <1>8, <1>9, <1>10 DEF ScreenNext

-----------------------------------------------------------------------------
(* The published server. *)

LEMMA FollowsWhom ==
  \A a \in Step :
    /\ Follows(a, "publish") => a = "lock"
    /\ Follows(a, "lock") => a = "listen"
    /\ \A b \in Stopping : Follows(a, b) => a \in {"disconnect", "close"}
    /\ Follows(a, "clear") => a = "wait"
    /\ \A b : Follows("disconnect", b) => b = "close"
    /\ \A b : Follows("close", b) => b = "wait"
<1>1. ASSUME NEW a \in Step, Follows(a, "publish")
      PROVE  a = "lock"
  BY <1>1 DEF Follows, Step
<1>2. ASSUME NEW a \in Step, Follows(a, "lock")
      PROVE  a = "listen"
  BY <1>2 DEF Follows, Step
<1>3. ASSUME NEW a \in Step, NEW b \in Stopping, Follows(a, b)
      PROVE  a \in {"disconnect", "close"}
  <2>1. a \notin {"disconnect", "close"} => b \notin Stopping
    BY <1>3 DEF Follows, Step, Stopping
  <2> QED
    BY <1>3, <2>1
<1>4. ASSUME NEW a \in Step, Follows(a, "clear")
      PROVE  a = "wait"
  BY <1>4 DEF Follows, Step
<1> QED
  BY <1>1, <1>2, <1>3, <1>4 DEF Follows

\* What a step from one thread's plan to its next leaves of what is said of servers.
LEMMA ServerPopped ==
  ASSUME Constants, LiveInv, NEW t \in Thread, todo[t] # <<>>, Go(t, <<>>)
  PROVE  /\ Publishes(todo'[t]) => Publishes(todo[t]) \/ todo[t][1] = "listen"
         /\ Comes(todo'[t], Stopping) => todo[t][1] \in {"disconnect", "close"}
         /\ Comes(todo'[t], Stopping) /\ Clears(todo[t]) => Clears(todo'[t])
         /\ Comes(todo'[t], {"clear"}) => todo[t][1] = "wait"
         /\ todo[t][1] = "wait" /\ Clears(todo[t]) => Comes(todo'[t], {"clear"})
<1>1. /\ Len(todo[t]) \in Nat /\ Len(todo[t]) > 0
      /\ Len(todo'[t]) \in Nat /\ Len(todo'[t]) = Len(todo[t]) - 1
      /\ \A i \in 1..Len(todo'[t]) : todo'[t][i] = todo[t][i + 1]
      /\ Len(todo'[t]) > 0 => Follows(todo[t][1], todo'[t][1])
      /\ todo[t][1] \in Step
  BY AfterPop, Popped DEF LiveInv, ScreenTypeOK
<1>2. ASSUME Len(todo'[t]) > 0
      PROVE  /\ todo'[t][1] = "publish" => todo[t][1] = "lock" /\ todo[t][2] = "publish"
             /\ todo'[t][1] = "lock" => todo[t][1] = "listen"
             /\ todo'[t][1] \in Stopping => todo[t][1] \in {"disconnect", "close"}
             /\ todo'[t][1] = "clear" => todo[t][1] = "wait"
             /\ todo[t][1] = "disconnect" => todo'[t][1] = "close"
             /\ todo[t][1] = "close" => todo'[t][1] = "wait"
  <2>1. todo'[t][1] = todo[t][2]
    BY <1>1, <1>2
  <2> QED
    BY <1>1, <1>2, <2>1, FollowsWhom
<1>3. Publishes(todo'[t]) => Publishes(todo[t]) \/ todo[t][1] = "listen"
  BY <1>1, <1>2 DEF Publishes, Comes
<1>4. /\ Comes(todo'[t], Stopping) => todo[t][1] \in {"disconnect", "close"}
      /\ Comes(todo'[t], {"clear"}) => todo[t][1] = "wait"
  BY <1>1, <1>2 DEF Comes
<1>5. Comes(todo'[t], Stopping) /\ Clears(todo[t]) => Clears(todo'[t])
  BY <1>1, <1>2 DEF Comes, Clears
<1>6. todo[t][1] = "wait" /\ Clears(todo[t]) => Comes(todo'[t], {"clear"})
  BY <1>1 DEF Comes, Clears
<1> QED
  BY <1>3, <1>4, <1>5, <1>6

LEMMA Exclusion ==
  ASSUME LiveInv
  PROVE  /\ \A t, u \in Thread : Comes(todo[t], Locked) /\ Comes(todo[u], Locked) => t = u
         /\ \A t \in Thread, e \in Encoder :
              Comes(todo[t], Locked) => enc[e] # "push"
         /\ ~Publishes(todo["pipe"])
         /\ \A t \in Thread :
              Comes(todo[t], {"listen", "publish", "halt", "clear"}) => t = "main"
<1>1. \A t, u \in Thread : Comes(todo[t], Locked) /\ Comes(todo[u], Locked) => t = u
  BY DEF LiveInv, MutexInv
<1>2. \A t \in Thread, e \in Encoder : Comes(todo[t], Locked) => enc[e] # "push"
  BY DEF LiveInv, MutexInv, Thread, Encoder
<1>3. \A i \in 1..Len(todo["pipe"]) :
        todo["pipe"][i] \notin {"listen", "publish", "halt", "clear"}
  BY DEF LiveInv, PlanInv, PipeSteps
<1>4. Len(todo["pipe"]) \in Nat
  BY DEF LiveInv, ScreenTypeOK, Thread
<1>5. ~Publishes(todo["pipe"]) /\ ~Comes(todo["pipe"], {"listen", "publish", "halt", "clear"})
  BY <1>3, <1>4 DEF Publishes, Comes
<1> QED
  BY <1>1, <1>2, <1>5 DEF Thread

\* Nothing is said of a thread that does none of this.
LEMMA ServerApart ==
  ASSUME Constants, LiveInv, NEW t \in Thread,
         UNCHANGED <<local, rtsp_server, alive>>,
         \A u \in Thread : u # t => todo'[u] = todo[u],
         \A e \in Encoder : enc'[e] = "push" => enc[e] = "push",
         Publishes(todo'[t]) => Publishes(todo[t]),
         Comes(todo'[t], Stopping) => Comes(todo[t], Stopping),
         Comes(todo'[t], Stopping) /\ Clears(todo[t]) => Clears(todo'[t]),
         ~Comes(todo[t], {"clear"})
  PROVE  ServerInv'
<1>1. Published'
  BY DEF LiveInv, ServerInv, Published
<1>2. \A e \in Encoder : enc'[e] = "push" => rtsp_server' # Null
  BY DEF LiveInv, ServerInv
<1>3. ASSUME NEW u \in Thread
      PROVE  Made(u)' /\ Stopped(u)'
  <2>1. Made(u) /\ Stopped(u)
    BY DEF LiveInv, ServerInv
  <2> QED
    BY <2>1 DEF Made, Stopped
<1> QED
  BY <1>1, <1>2, <1>3 DEF ServerInv

LEMMA ServerThread ==
  ASSUME Constants, LiveInv, NEW t \in Thread, ThreadStep(t)
  PROVE  ServerInv'
<1> DEFINE h == todo[t][1]
<1>1. /\ ScreenTypeOK /\ PlanInv /\ Published
      /\ \A e \in Encoder : enc[e] = "push" => rtsp_server # Null
      /\ \A u \in Thread : Made(u) /\ Stopped(u)
  BY DEF LiveInv, ServerInv
<1>2. todo[t] # <<>> /\ Head(todo[t]) = h /\ Len(todo[t]) > 0
  BY <1>1, Taken
<1>3. ASSUME Go(t, <<>>)
      PROVE  \A u \in Thread : u # t => todo'[u] = todo[u]
  BY <1>1, <1>2, <1>3, Popped
<1>4. ASSUME Go(t, <<>>), h \notin {"listen", "clear", "wait"},
             UNCHANGED <<local, rtsp_server, alive>>,
             \A e \in Encoder : enc'[e] = "push" => enc[e] = "push"
      PROVE  ServerInv'
  <2>1. /\ Publishes(todo'[t]) => Publishes(todo[t])
        /\ Comes(todo'[t], Stopping) => Comes(todo[t], Stopping)
        /\ Comes(todo'[t], Stopping) /\ Clears(todo[t]) => Clears(todo'[t])
        /\ ~Comes(todo[t], {"clear"})
    BY <1>2, <1>4, ServerPopped DEF Comes, Stopping
  <2> QED
    BY <1>3, <1>4, <2>1, ServerApart
<1>5. ASSUME Return(t) \/ Go(t, <<"join video", "join audio">>), h # "clear",
             UNCHANGED <<local, rtsp_server, alive, enc>>
      PROVE  ServerInv'
  <2>1. /\ \A u \in Thread : u # t => todo'[u] = todo[u]
        /\ Len(todo'[t]) > 0 => todo'[t][1] = "join video"
    <3>1. CASE Return(t)
      <4>1. Len(todo'[t]) = 0
        BY <1>1, <3>1, Returned
      <4>2. \A u \in Thread : u # t => todo'[u] = todo[u]
        BY <1>1, <3>1, Returned
      <4> QED
        BY <4>1, <4>2
    <3>2. CASE Go(t, <<"join video", "join audio">>)
      BY <1>1, <1>2, <3>2, Put
    <3> QED
      BY <1>5, <3>1, <3>2
  <2>2. ~Publishes(todo'[t]) /\ ~Comes(todo'[t], Stopping) /\ ~Comes(todo[t], {"clear"})
    BY <1>5, <2>1 DEF Publishes, Comes, Stopping
  <2> QED
    BY <1>5, <2>1, <2>2, ServerApart
<1>6. CASE Listen(t)
  <2>1. PICK s \in Server : /\ Unused(s) /\ local' = [local EXCEPT ![t] = s]
                            /\ alive' = alive \cup {s}
    BY <1>6 DEF Listen
  <2>2. /\ h = "listen" /\ Go(t, <<>>) /\ UNCHANGED <<rtsp_server, enc>>
        /\ \A u \in Thread : u # t => todo'[u] = todo[u]
    BY <1>2, <1>3, <1>6 DEF Listen, At
  <2>3. t = "main" /\ ~Comes(todo[t], {"clear"})
    BY <1>2, <2>2, Exclusion DEF Comes
  <2>4. rtsp_server \in alive \cup {Null}
    BY <2>3, Exclusion, <1>1 DEF Published, Comes
  <2>5. s \notin alive /\ s # Null /\ \A u \in Thread : local[u] # s
    BY <2>1 DEF Unused, Constants
  <2>6. ~Comes(todo'[t], Stopping)
    BY <1>2, <2>2, ServerPopped
  <2>7. /\ local'[t] = s /\ \A u \in Thread : u # t => local'[u] = local[u]
    BY <1>1, <2>1 DEF ScreenTypeOK
  <2>8. Made(t)'
    BY <2>1, <2>2, <2>4, <2>5, <2>7 DEF Made
  <2>9. ASSUME NEW u \in Thread, u # t
        PROVE  Made(u)' /\ Stopped(u)'
    BY <1>1, <2>1, <2>2, <2>5, <2>7, <2>9 DEF Made, Stopped
  <2>10. Published'
    BY <2>1, <2>2, <2>4 DEF Published
  <2> QED
    BY <1>1, <2>2, <2>6, <2>8, <2>9, <2>10 DEF ServerInv, Stopped
<1>7. CASE Publish(t)
  <2>1. /\ h = "publish" /\ rtsp_server' = local[t] /\ alive' = alive \ {rtsp_server}
        /\ local' = [local EXCEPT ![t] = rtsp_server] /\ enc' = enc
        /\ IF rtsp_server = Null THEN Go(t, <<>>) ELSE Go(t, StopServer)
    BY <1>2, <1>7 DEF Publish, At
  <2>2. \A u \in Thread : u # t => todo'[u] = todo[u]
    BY <1>1, <1>2, <1>3, <2>1, Put
  <2>3. /\ Publishes(todo[t]) /\ t = "main" /\ Comes(todo[t], Locked)
        /\ local[t] \in alive /\ local[t] # rtsp_server
        /\ \A u \in Thread : local[u] = local[t] => u = t
    BY <1>1, <1>2, <2>1, Exclusion DEF Made, Publishes, Comes, Locked
  <2>4. /\ local'[t] = rtsp_server /\ \A u \in Thread : u # t => local'[u] = local[u]
    BY <1>1, <2>1 DEF ScreenTypeOK
  <2>5. Published' /\ rtsp_server' # Null
    BY <1>1, <2>1, <2>3 DEF Published, ScreenTypeOK, Constants
  <2>6. ~Publishes(todo'[t]) /\ (Comes(todo'[t], Stopping) => rtsp_server # Null)
    <3>1. CASE rtsp_server = Null
      <4>1. ~Comes(todo'[t], Stopping)
        BY <1>2, <2>1, <3>1, ServerPopped
      <4>2. Len(todo'[t]) > 0 => todo'[t][1] = "unlock"
        BY <1>1, <1>2, <2>1, <3>1, Popped DEF Follows
      <4> QED
        BY <4>1, <4>2 DEF Publishes, Comes
    <3>2. CASE rtsp_server # Null
      BY <1>1, <1>2, <2>1, <3>2, Put DEF Publishes, Comes
    <3> QED
      BY <3>1, <3>2
  <2>7. Made(t)' /\ Stopped(t)'
    BY <1>1, <2>1, <2>3, <2>4, <2>6 DEF Made, Stopped, ScreenTypeOK
  <2>8. ASSUME NEW u \in Thread, u # t
        PROVE  Made(u)' /\ Stopped(u)'
    <3>1. u = "pipe" /\ ~Publishes(todo[u])
      BY <2>3, <2>8, Exclusion DEF Thread
    <3>2. ~Comes(todo[u], Stopping)
      BY <2>3, <2>8, Exclusion DEF Comes, Stopping, Locked
    <3> QED
      BY <2>2, <2>8, <3>1, <3>2 DEF Made, Stopped
  <2> QED
    BY <2>5, <2>7, <2>8 DEF ServerInv
<1>8. CASE Halt(t)
  <2>1. /\ h = "halt" /\ UNCHANGED <<rtsp_server, alive, enc>>
        /\ local' = [local EXCEPT ![t] = rtsp_server]
        /\ IF rtsp_server = Null THEN Go(t, <<>>)
           ELSE Go(t, StopServer \o <<"clear">>)
    BY <1>2, <1>8 DEF Halt, At, server
  <2>2. \A u \in Thread : u # t => todo'[u] = todo[u]
    BY <1>1, <1>2, <1>3, <2>1, Put
  <2>3. t = "main" /\ Comes(todo[t], Locked)
    BY <1>2, <2>1, Exclusion DEF Comes, Locked
  <2>4. /\ local'[t] = rtsp_server /\ \A u \in Thread : u # t => local'[u] = local[u]
    BY <1>1, <2>1 DEF ScreenTypeOK
  <2>5. Published'
    <3>1. ~Comes(todo[t], {"clear"})
      BY <2>1 DEF Comes
    <3> QED
      BY <1>1, <2>1, <2>2, <3>1 DEF Published
  <2>6. /\ ~Publishes(todo'[t])
        /\ Comes(todo'[t], Stopping) => rtsp_server # Null /\ Clears(todo'[t])
    <3>1. CASE rtsp_server = Null
      <4>1. ~Comes(todo'[t], Stopping)
        BY <1>2, <2>1, <3>1, ServerPopped
      <4>2. Len(todo'[t]) > 0 => todo'[t][1] = "unlock"
        BY <1>1, <1>2, <2>1, <3>1, Popped DEF Follows
      <4> QED
        BY <4>1, <4>2 DEF Publishes, Comes
    <3>2. CASE rtsp_server # Null
      BY <1>1, <1>2, <2>1, <3>2, Put DEF Publishes, Comes, Clears
    <3> QED
      BY <3>1, <3>2
  <2>7. Made(t)' /\ Stopped(t)'
    BY <1>1, <2>1, <2>4, <2>6 DEF Made, Stopped, ScreenTypeOK
  <2>8. ASSUME NEW u \in Thread, u # t
        PROVE  Made(u)' /\ Stopped(u)'
    <3>1. ~Publishes(todo[u])
      BY <2>3, <2>8, Exclusion DEF Thread
    <3>2. ~Comes(todo[u], Stopping)
      BY <2>3, <2>8, Exclusion DEF Comes, Stopping, Locked
    <3> QED
      BY <2>2, <2>8, <3>1, <3>2 DEF Made, Stopped
  <2> QED
    BY <1>1, <2>1, <2>5, <2>7, <2>8 DEF ServerInv
<1>9. CASE Clear(t)
  <2>1. /\ h = "clear" /\ rtsp_server' = Null /\ UNCHANGED <<local, alive, enc>> /\ Go(t, <<>>)
    BY <1>2, <1>9 DEF Clear, At, server
  <2>2. Comes(todo[t], Locked) /\ t = "main"
    BY <1>2, <2>1, Exclusion DEF Comes, Locked
  <2>3. \A e \in Encoder : enc[e] # "push"
    BY <2>2, Exclusion
  <2>4. ~Publishes(todo'[t]) /\ ~Comes(todo'[t], Stopping)
    BY <1>2, <2>1, ServerPopped DEF Publishes, Comes
  <2>5. ASSUME NEW u \in Thread, u # t
        PROVE  ~Publishes(todo'[u]) /\ ~Comes(todo'[u], Stopping)
    <3>1. ~Publishes(todo[u])
      BY <2>2, <2>5, Exclusion DEF Thread
    <3>2. ~Comes(todo[u], Stopping)
      BY <2>2, <2>5, Exclusion DEF Comes, Stopping, Locked
    <3> QED
      BY <1>3, <2>1, <2>5, <3>1, <3>2
  <2> QED
    BY <2>1, <2>3, <2>4, <2>5 DEF ServerInv, Published, Made, Stopped
<1>10. CASE Drop(t)
  <2>1. /\ h = "drop" /\ rtsp_server' = Null /\ alive' = alive \ {rtsp_server} /\ enc' = enc
        /\ local' = [local EXCEPT ![t] = rtsp_server]
        /\ IF rtsp_server = Null THEN Go(t, <<>>) ELSE Go(t, StopServer)
    BY <1>2, <1>10 DEF Drop, At
  <2>2. \A u \in Thread : u # t => todo'[u] = todo[u]
    BY <1>1, <1>2, <1>3, <2>1, Put
  <2>3. Comes(todo[t], Locked)
    BY <1>2, <2>1 DEF Comes, Locked
  <2>4. \A e \in Encoder : enc[e] # "push"
    BY <2>3, Exclusion
  <2>5. /\ local'[t] = rtsp_server /\ \A u \in Thread : u # t => local'[u] = local[u]
    BY <1>1, <2>1 DEF ScreenTypeOK
  <2>6. ~Publishes(todo'[t]) /\ (Comes(todo'[t], Stopping) => rtsp_server # Null)
    <3>1. CASE rtsp_server = Null
      <4>1. ~Comes(todo'[t], Stopping)
        BY <1>2, <2>1, <3>1, ServerPopped
      <4>2. Len(todo'[t]) > 0 => todo'[t][1] = "unlock"
        BY <1>1, <1>2, <2>1, <3>1, Popped DEF Follows
      <4> QED
        BY <4>1, <4>2 DEF Publishes, Comes
    <3>2. CASE rtsp_server # Null
      BY <1>1, <1>2, <2>1, <3>2, Put DEF Publishes, Comes
    <3> QED
      BY <3>1, <3>2
  <2>7. Made(t)' /\ Stopped(t)'
    BY <1>1, <2>1, <2>5, <2>6 DEF Made, Stopped, ScreenTypeOK
  <2>8. ASSUME NEW u \in Thread, u # t
        PROVE  Made(u)' /\ Stopped(u)'
    <3>1. ~Comes(todo[u], Stopping)
      BY <2>3, <2>8, Exclusion DEF Comes, Stopping, Locked
    <3>2. Stopped(u)'
      BY <2>2, <2>8, <3>1 DEF Stopped
    <3>3. ASSUME Publishes(todo[u])
          PROVE  /\ local[u] \in alive' /\ local[u] # Null
                 /\ \A v \in Thread : local'[v] = local'[u] => v = u
      <4>1. /\ local[u] \in alive /\ local[u] # rtsp_server
            /\ \A v \in Thread : local[v] = local[u] => v = u
        BY <1>1, <2>8, <3>3 DEF Made
      <4> QED
        BY <1>1, <2>1, <2>5, <2>8, <4>1 DEF ScreenTypeOK, Constants
    <3> QED
      BY <2>1, <2>2, <2>5, <2>8, <3>2, <3>3 DEF Made
  <2> QED
    BY <2>1, <2>4, <2>7, <2>8 DEF ServerInv, Published
<1>11. CASE Wait(t)
  <2>1. /\ h = "wait" /\ alive' = alive \ {local[t]} /\ UNCHANGED <<rtsp_server, enc>>
        /\ local' = [local EXCEPT ![t] = Null] /\ Go(t, <<>>)
    BY <1>2, <1>11 DEF Wait, At
  <2>2. \A u \in Thread : u # t => todo'[u] = todo[u]
    BY <1>3, <2>1
  <2>3. Comes(todo[t], Stopping) /\ Comes(todo[t], Locked)
    BY <1>2, <2>1 DEF Comes, Stopping, Locked
  <2>4. local[t] \in Server /\ (Clears(todo[t]) \/ local[t] # rtsp_server)
    BY <1>1, <2>3 DEF Stopped
  <2>5. /\ local'[t] = Null /\ \A u \in Thread : u # t => local'[u] = local[u]
    BY <1>1, <2>1 DEF ScreenTypeOK
  <2>6. ~Publishes(todo'[t]) /\ ~Comes(todo'[t], Stopping)
    BY <1>2, <2>1, ServerPopped DEF Publishes, Comes
  <2>7. ASSUME NEW u \in Thread, u # t
        PROVE  Made(u)' /\ Stopped(u)'
    <3>1. ~Comes(todo[u], Stopping)
      BY <2>3, <2>7, Exclusion DEF Comes, Stopping, Locked
    <3>2. Stopped(u)'
      BY <2>2, <2>7, <3>1 DEF Stopped
    <3>3. ASSUME Publishes(todo[u])
          PROVE  /\ local[u] \in alive' /\ local[u] # rtsp_server
                 /\ \A v \in Thread : local'[v] = local'[u] => v = u
      <4>1. /\ local[u] \in alive /\ local[u] # rtsp_server
            /\ \A v \in Thread : local[v] = local[u] => v = u
        BY <1>1, <2>7, <3>3 DEF Made
      <4> QED
        BY <1>1, <2>1, <2>5, <2>7, <4>1 DEF ScreenTypeOK, Constants
    <3> QED
      BY <2>1, <2>2, <2>5, <2>7, <3>2, <3>3 DEF Made
  <2>8. Published'
    <3>1. CASE Clears(todo[t])
      BY <1>2, <2>1, <3>1, ServerPopped DEF Published
    <3>2. CASE local[t] # rtsp_server
      <4>1. ~Comes(todo[t], {"clear"})
        BY <2>1 DEF Comes
      <4> QED
        BY <1>1, <2>1, <2>2, <3>2, <4>1 DEF Published
    <3> QED
      BY <2>4, <3>1, <3>2
  <2> QED
    BY <1>1, <2>1, <2>6, <2>7, <2>8 DEF ServerInv, Made, Stopped
<1>12. ASSUME NEW e \in Encoder, JoinEncoder(t, e)
       PROVE  ServerInv'
  <2>1. /\ h = Join(e) /\ Go(t, <<>>) /\ UNCHANGED <<local, rtsp_server, alive>>
        /\ enc' = [enc EXCEPT ![e] = "none"]
    BY <1>2, <1>12 DEF JoinEncoder, At, server
  <2>2. Join(e) \notin {"listen", "clear", "wait"}
    BY DEF Join
  <2>3. \A d \in Encoder : enc'[d] = "push" => enc[d] = "push"
    BY <1>1, <2>1 DEF ScreenTypeOK
  <2> QED
    BY <1>4, <2>1, <2>2, <2>3
<1>13. CASE StartEncoder(t)
  <2>1. /\ h = "start encoder" /\ UNCHANGED <<local, rtsp_server, alive>>
        /\ \/ UNCHANGED <<enc, todo>>
           \/ Go(t, <<>>) /\ enc' = [e \in Encoder |-> "loop"]
    BY <1>2, <1>13 DEF StartEncoder, At, server
  <2>2. CASE UNCHANGED <<enc, todo>>
    BY <2>1, <2>2, ServerApart DEF Comes
  <2>3. CASE Go(t, <<>>) /\ enc' = [e \in Encoder |-> "loop"]
    <3>1. \A d \in Encoder : enc'[d] # "push"
      BY <2>3
    <3> QED
      BY <1>4, <2>1, <2>3, <3>1
  <2> QED
    BY <2>1, <2>2, <2>3
<1> HIDE DEF h
<1>14. ASSUME ~Listen(t), ~Publish(t), ~Halt(t), ~Clear(t), ~Drop(t),
              ~Wait(t), ~StartEncoder(t),
              \A e \in Encoder : ~JoinEncoder(t, e)
       PROVE  /\ UNCHANGED <<local, rtsp_server, alive, enc>>
              /\ \/ Go(t, <<>>) /\ h \notin {"listen", "clear", "wait"}
                 \/ Return(t) /\ h # "clear"
                 \/ Go(t, <<"join video", "join audio">>) /\ h # "clear"
  BY <1>2, <1>14
  DEF ThreadStep, At, Lock, Unlock, ListenFails, Disconnect,
      CloseAcceptor, StartCapture, StartEncoderFails, Initialized,
      StopEncoder, Destroyed, Quit, JoinScheduler, Exited, server
<1> QED
  BY <1>4, <1>5, <1>6, <1>7, <1>8, <1>9, <1>10, <1>11, <1>12, <1>13, <1>14

LEMMA ServerNext ==
  ASSUME Constants, LiveInv, [ScreenNext]_(screenVars)
  PROVE  ServerInv'
<1>1. ScreenTypeOK /\ PlanInv
  BY DEF LiveInv
<1>2. CASE UNCHANGED <<todo, local, rtsp_server, alive, enc>>
  BY <1>2 DEF LiveInv, ServerInv, Published, Made, Stopped
<1>3. CASE Call
  <2>1. /\ UNCHANGED <<local, rtsp_server, alive, enc>> /\ todo["main"] = <<>>
        /\ todo'["pipe"] = todo["pipe"]
    BY <1>1, <1>3, Called DEF Call, server
  <2>2. /\ todo'["main"][1] \in {"lock", "start capture", "listen"}
        /\ todo'["main"][1] = "lock" => todo'["main"][2] # "publish"
    BY <1>1, <1>3, Called
  <2>3. ~Publishes(todo'["main"]) /\ ~Comes(todo'["main"], Stopping)
    BY <2>2 DEF Publishes, Comes, Stopping
  <2>4. ~Comes(todo["main"], {"clear"})
    BY <2>1 DEF Comes
  <2> QED
    BY <2>1, <2>3, <2>4, ServerApart DEF Thread
<1>4. CASE Exit
  <2>1. UNCHANGED <<local, rtsp_server, alive, enc>> /\ todo'["main"] = todo["main"]
    BY <1>1, <1>4, Exits DEF Exit, server
  <2>2. todo'["pipe"][1] = "lock" /\ todo'["pipe"][2] = "drop"
    BY <1>1, <1>4, Exits
  <2>3. ~Publishes(todo'["pipe"]) /\ ~Comes(todo'["pipe"], Stopping)
    BY <2>2 DEF Publishes, Comes, Stopping
  <2>4. ~Comes(todo["pipe"], {"clear"})
    BY Exclusion DEF Thread, Comes
  <2> QED
    BY <2>1, <2>3, <2>4, ServerApart DEF Thread
<1>5. ASSUME NEW e \in Encoder, ScreenEncoderStep(e)
      PROVE  ServerInv'
  <2>1. /\ UNCHANGED <<todo, local, rtsp_server, alive>>
        /\ \/ enc' = enc
           \/ \E at \in {"frame", "pushed", "loop", "done"} : enc' = [enc EXCEPT ![e] = at]
           \/ enc' = [enc EXCEPT ![e] = "push"] /\ rtsp_server # Null
    BY <1>5 DEF ScreenEncoderStep, Encode, PushLock, PushFrame, PushUnlock,
                EncoderEnds, server
  <2>2. \A d \in Encoder : enc'[d] = "push" => enc[d] = "push" \/ rtsp_server # Null
    BY <1>1, <2>1 DEF ScreenTypeOK
  <2> QED
    BY <2>1, <2>2 DEF LiveInv, ServerInv, Published, Made, Stopped
<1>6. CASE \/ EventLoopStep
           \/ \E s \in Server : OnAccept(s) \/ \E c \in Client : Describe(s, c)
           \/ \E c \in Client : Leave(c)
  BY <1>2, <1>6
  DEF EventLoopStep, GetTaskScheduler, SchedulerEnds, CloseConnection, OnAccept,
      Describe, Leave, server
<1>7. CASE UNCHANGED screenVars
  BY <1>2, <1>7 DEF screenVars, server
<1> QED
  BY <1>3, <1>4, <1>5, <1>6, <1>7, ServerThread DEF ScreenNext

-----------------------------------------------------------------------------
(* One thread at a time, until exit(1) cuts an operation short. *)


LEMMA OthersStay ==
  ASSUME ScreenTypeOK, PlanInv, NEW t \in Thread, ThreadStep(t)
  PROVE  \A u \in Thread : u # t => todo'[u] = todo[u]
<1>1. todo[t] # <<>>
  BY Taken
<1>2. CASE UNCHANGED todo
  BY <1>2
<1>3. CASE Go(t, <<>>)
  BY <1>1, <1>3, Popped
<1>4. CASE Return(t)
  BY <1>4, Returned
<1>5. CASE \/ Go(t, StopServer) \/ Go(t, StopServer \o <<"clear">>)
           \/ Go(t, <<"join video", "join audio">>)
  BY <1>1, <1>5, Put
<1> QED
  BY <1>2, <1>3, <1>4, <1>5
  DEF ThreadStep, Lock, Unlock, Listen, ListenFails,
      Publish, Halt, Clear, Drop, Disconnect, CloseAcceptor,
      Wait, StartCapture, StartEncoder, StartEncoderFails,
      Initialized, StopEncoder, JoinEncoder, Destroyed, Quit,
      JoinScheduler, Exited

LEMMA AloneNext ==
  ASSUME Constants, LiveInv, [ScreenNext]_(screenVars)
  PROVE  AloneInv'
<1>1. ScreenTypeOK /\ PlanInv /\ AloneInv
  BY DEF LiveInv
<1>2. CASE Call
  BY <1>1, <1>2, Called DEF Call, AloneInv, ScreenTypeOK
<1>3. CASE Exit
  BY <1>1, <1>3, Exits DEF Exit, AloneInv, ScreenTypeOK
<1>4. ASSUME NEW t \in Thread, ThreadStep(t)
      PROVE  AloneInv'
  <2>1. UNCHANGED <<exiting, cut>>
    BY <1>4
    DEF ThreadStep, Lock, Unlock, Listen, ListenFails,
        Publish, Halt, Clear, Drop, Disconnect, CloseAcceptor,
        Wait, StartCapture, StartEncoder, StartEncoderFails,
        Initialized, StopEncoder, JoinEncoder, Destroyed, Quit,
        JoinScheduler, Exited, exit
  <2>2. todo[t] # <<>> /\ \A u \in Thread : u # t => todo'[u] = todo[u]
    BY <1>1, <1>4, Taken, OthersStay
  <2> QED
    BY <1>1, <1>4, <2>1, <2>2 DEF AloneInv, Thread
<1>5. CASE UNCHANGED <<todo, exiting, cut>>
  BY <1>1, <1>5 DEF AloneInv
<1>6. ASSUME NEW e \in Encoder, ScreenEncoderStep(e)
      PROVE  AloneInv'
  BY <1>5, <1>6
  DEF ScreenEncoderStep, Encode, PushLock, PushFrame, PushUnlock,
      EncoderEnds, exit
<1>7. CASE \/ EventLoopStep
           \/ \E s \in Server : OnAccept(s) \/ \E c \in Client : Describe(s, c)
           \/ \E c \in Client : Leave(c)
  BY <1>5, <1>7
  DEF EventLoopStep, GetTaskScheduler, SchedulerEnds, CloseConnection, OnAccept,
      Describe, Leave, exit
<1>8. CASE UNCHANGED screenVars
  BY <1>5, <1>8 DEF screenVars, exit
<1> QED
  BY <1>2, <1>3, <1>4, <1>6, <1>7, <1>8 DEF ScreenNext

-----------------------------------------------------------------------------
(* The capture and the encoders. *)

LEMMA FollowsFlags ==
  \A a, b \in Step : Follows(a, b) =>
    /\ b = "destroyed" => a \in {"stop encoder", "join audio"}
    /\ b = "join audio" => a = "join video"
    /\ b # "join video"
    /\ b = "start capture" => a = "destroyed"
    /\ b = "start encoder" => a \in {"start capture", "stop encoder", "join audio"}
<1> SUFFICES ASSUME NEW a \in Step, NEW b \in Step, Follows(a, b)
             PROVE  /\ b = "destroyed" => a \in {"stop encoder", "join audio"}
                    /\ b = "join audio" => a = "join video"
                    /\ b # "join video"
                    /\ b = "start capture" => a = "destroyed"
                    /\ b = "start encoder" => a \in {"start capture", "stop encoder", "join audio"}
  OBVIOUS
<1>1. b = "destroyed" => a \in {"stop encoder", "join audio"}
  BY DEF Follows, Step
<1>2. b = "join audio" => a = "join video"
  BY DEF Follows, Step
<1>3. b # "join video"
  BY DEF Follows, Step
<1>4. b = "start capture" => a = "destroyed"
  BY DEF Follows, Step
<1>5. b = "start encoder" => a \in {"start capture", "stop encoder", "join audio"}
  BY DEF Follows, Step
<1> QED
  BY <1>1, <1>2, <1>3, <1>4, <1>5

\* What remains to be shown of a step that a thread takes alone.
LEMMA EncoderAlone ==
  ASSUME Constants, LiveInv, NEW t \in Thread, ThreadStep(t),
         capture_started' => screen_capture',
         ~cut => /\ encoder_started' => screen_capture'
                 /\ ~encoder_started' =>
                      \A e \in Encoder : enc'[e] = "none" \/ Joins(todo'[t], e)
                 /\ Flags(todo[t])'
  PROVE  EncoderInv'
<1>1. UNCHANGED cut
  BY DEF ThreadStep, Lock, Unlock, Listen, ListenFails,
      Publish, Halt, Clear, Drop, Disconnect, CloseAcceptor,
      Wait, StartCapture, StartEncoder, StartEncoderFails,
      Initialized, StopEncoder, JoinEncoder, Destroyed, Quit,
      JoinScheduler, Exited, exit
<1>2. CASE cut
  BY <1>1, <1>2 DEF EncoderInv
<1>3. CASE ~cut
  <2>1. ASSUME NEW u \in Thread, u # t
        PROVE  Flags(todo[u])'
    <3>1. todo'[u] = todo[u] /\ todo[u] = <<>>
      BY <1>3, <2>1, Taken, OthersStay DEF LiveInv, AloneInv, Thread
    <3>2. Len(todo'[u]) = 0
      BY <3>1
    <3>3. \A S : ~Comes(todo'[u], S)
      BY <3>2 DEF Comes
    <3> QED
      BY <3>3 DEF Flags
  <2>2. \A u \in Thread : Flags(todo[u])'
    BY <1>3, <2>1
  <2> QED
    BY <1>1, <1>3, <2>2 DEF EncoderInv
<1> QED
  BY <1>2, <1>3

\* Before such a step.
LEMMA EncoderBefore ==
  ASSUME LiveInv, NEW t \in Thread, ThreadStep(t), ~cut
  PROVE  /\ encoder_started => screen_capture
         /\ ~encoder_started => \A e \in Encoder : enc[e] = "none" \/ Joins(todo[t], e)
         /\ Flags(todo[t])
<1>1. ASSUME NEW u \in Thread, u # t, NEW e \in Encoder
      PROVE  ~Joins(todo[u], e)
  <2>1. todo[u] = <<>>
    BY <1>1, Taken DEF LiveInv, AloneInv, Thread
  <2>2. Len(todo[u]) = 0
    BY <2>1
  <2> QED
    BY <2>2 DEF Joins, Comes
<1> QED
  BY <1>1 DEF LiveInv, EncoderInv

LEMMA EncoderThread ==
  ASSUME Constants, LiveInv, NEW t \in Thread, ThreadStep(t)
  PROVE  EncoderInv'
<1> DEFINE h == todo[t][1]
           Off(q) == ~encoder_started' =>
                       \A e \in Encoder : enc'[e] = "none" \/ Joins(q, e)
<1>1. ScreenTypeOK /\ PlanInv /\ (capture_started => screen_capture)
  BY DEF LiveInv, EncoderInv
<1>2. todo[t] # <<>> /\ Head(todo[t]) = h /\ Len(todo[t]) > 0 /\ h \in Step
  BY <1>1, Taken
<1>3. ~cut => /\ encoder_started => screen_capture
              /\ ~encoder_started => \A e \in Encoder : enc[e] = "none" \/ Joins(todo[t], e)
              /\ Flags(todo[t])
  BY EncoderBefore
<1>4. h \notin {"join video", "join audio"} => \A e \in Encoder : ~Joins(todo[t], e)
  BY DEF Joins, Comes
\* The next step, where it is not put in front.
<1>5. ASSUME Go(t, <<>>)
      PROVE  /\ Comes(todo'[t], {"destroyed"}) => h \in {"stop encoder", "join audio"}
             /\ Comes(todo'[t], {"join audio"}) => h = "join video"
             /\ ~Comes(todo'[t], {"join video"})
             /\ Comes(todo'[t], {"start capture"}) => h = "destroyed"
             /\ Comes(todo'[t], {"start encoder"})
                  => h \in {"start capture", "stop encoder", "join audio"}
             /\ h = "initialized" => \A S : ~Comes(todo'[t], S)
  <2>1. /\ Len(todo'[t]) \in Nat
        /\ Len(todo'[t]) > 0 => Follows(h, todo'[t][1])
    BY <1>1, <1>2, <1>5, Popped
  <2>2. Len(todo'[t]) > 0 => todo'[t][1] \in Step
    <3>1. todo'[t] \in Seq(Step)
      BY <1>1, <1>2, <1>5, Goes, Plans DEF ScreenTypeOK
    <3> QED
      BY <3>1
  <2>3. h = "initialized" => ~(Len(todo'[t]) > 0)
    BY <2>1 DEF Follows
  <2> QED
    BY <1>2, <2>1, <2>2, <2>3, FollowsFlags DEF Comes
<1>6. ASSUME UNCHANGED <<initialized, capture_started, encoder_started, screen_capture, enc>>,
             h \notin {"join video", "join audio"},
             ~Comes(todo'[t], {"destroyed", "join video", "join audio", "start capture",
                               "start encoder"})
      PROVE  EncoderInv'
  <2>1. Flags(todo[t])'
    BY <1>6 DEF Flags, Comes
  <2> QED
    BY <1>1, <1>3, <1>4, <1>6, <2>1, EncoderAlone
<1>7. ASSUME UNCHANGED <<initialized, capture_started, encoder_started, screen_capture, enc>>,
             Go(t, <<>>),
             h \notin {"stop encoder", "join video", "join audio", "destroyed", "start capture"}
      PROVE  EncoderInv'
  BY <1>5, <1>6, <1>7 DEF Comes
<1>8. ASSUME UNCHANGED <<initialized, capture_started, encoder_started, screen_capture, enc>>,
             Go(t, StopServer) \/ Go(t, StopServer \o <<"clear">>),
             h \notin {"join video", "join audio"}
      PROVE  EncoderInv'
  <2>1. todo'[t][1] = "disconnect"
    BY <1>1, <1>2, <1>8, Put
  <2> QED
    BY <1>6, <1>8, <2>1 DEF Comes
<1>9. ASSUME UNCHANGED <<initialized, capture_started, encoder_started, screen_capture, enc>>,
             Return(t), h \notin {"join video", "join audio"}
      PROVE  EncoderInv'
  <2>1. Len(todo'[t]) = 0
    BY <1>1, <1>9, Returned
  <2>2. \A S : ~Comes(todo'[t], S)
    BY <2>1 DEF Comes
  <2> QED
    BY <1>6, <1>9, <2>2
<1>10. CASE StartCapture(t)
  <2>1. /\ h = "start capture" /\ UNCHANGED <<initialized, encoder_started, enc>>
        /\ Go(t, <<>>) \/ Return(t)
    BY <1>2, <1>10 DEF StartCapture, At
  <2>2. (capture_started' => screen_capture') /\ (screen_capture => screen_capture')
    <3>1. CASE screen_capture' = TRUE
      BY <3>1
    <3>2. CASE UNCHANGED <<screen_capture, capture_started>>
      BY <1>1, <3>2
    <3> QED
      BY <1>10, <3>1, <3>2 DEF StartCapture
  <2>3. CASE Go(t, <<>>)
    <3>1. ~cut => Flags(todo[t])'
      BY <1>2, <1>3, <1>5, <2>1, <2>3 DEF Flags, Comes
    <3> QED
      BY <1>3, <1>4, <2>1, <2>2, <3>1, EncoderAlone
  <2>4. CASE Return(t)
    <3>1. Len(todo'[t]) = 0
      BY <1>1, <2>4, Returned
    <3>2. \A S : ~Comes(todo'[t], S)
      BY <3>1 DEF Comes
    <3>3. Flags(todo[t])'
      BY <3>2 DEF Flags
    <3> QED
      BY <1>3, <1>4, <2>1, <2>2, <3>3, EncoderAlone
  <2> QED
    BY <2>1, <2>3, <2>4
<1>11. CASE StartEncoder(t)
  <2>1. h = "start encoder" /\ UNCHANGED <<initialized, capture_started, screen_capture>>
    BY <1>2, <1>11 DEF StartEncoder, At
  <2>2. \/ UNCHANGED <<encoder_started, enc, todo>>
        \/ encoder_started' = TRUE /\ screen_capture = TRUE /\ Go(t, <<>>)
    BY <1>1, <1>11 DEF StartEncoder, ScreenTypeOK
  <2>3. CASE UNCHANGED <<encoder_started, enc, todo>>
    BY <1>1, <1>3, <2>1, <2>3, EncoderAlone DEF Flags
  <2>4. CASE encoder_started' = TRUE /\ screen_capture = TRUE /\ Go(t, <<>>)
    <3>1. Flags(todo[t])'
      BY <1>5, <2>1, <2>4 DEF Flags, Comes
    <3> QED
      BY <1>1, <2>1, <2>4, <3>1, EncoderAlone
  <2> QED
    BY <2>2, <2>3, <2>4
<1>12. CASE Initialized(t)
  <2>1. h = "initialized" /\ UNCHANGED <<capture_started, encoder_started, screen_capture, enc>>
        /\ Go(t, <<>>)
    BY <1>2, <1>12 DEF Initialized, At
  <2>2. Flags(todo[t])'
    BY <1>5, <2>1 DEF Flags
  <2> QED
    BY <1>1, <1>3, <1>4, <2>1, <2>2, EncoderAlone
<1>13. CASE StopEncoder(t)
  <2>1. /\ h = "stop encoder" /\ encoder_started' = FALSE
        /\ UNCHANGED <<initialized, capture_started, screen_capture, enc>>
        /\ IF encoder_started THEN Go(t, <<"join video", "join audio">>)
           ELSE Go(t, <<>>)
    BY <1>2, <1>13 DEF StopEncoder, At
  <2>2. CASE encoder_started
    <3>1. /\ Len(todo'[t]) > 0 /\ Len(todo'[t]) > 1
          /\ todo'[t][1] = "join video" /\ todo'[t][2] = "join audio"
      BY <1>1, <1>2, <2>1, <2>2, Put
    <3>2. ~Comes(todo'[t], {"start capture"}) /\ ~Comes(todo'[t], {"start encoder"})
      BY <3>1 DEF Comes
    <3>3. Flags(todo[t])'
      BY <2>1, <3>2 DEF Flags
    <3>4. \A e \in Encoder : Joins(todo'[t], e)
      <4>1. Comes(todo'[t], {"join video"})
        BY <3>1 DEF Comes
      <4> QED
        BY <3>1, <4>1 DEF Joins
    <3> QED
      BY <1>1, <2>1, <3>3, <3>4, EncoderAlone
  <2>3. CASE ~encoder_started
    <3>1. Flags(todo[t])'
      BY <1>5, <2>1, <2>3 DEF Flags, Comes
    <3> QED
      BY <1>1, <1>3, <1>4, <2>1, <2>3, <3>1, EncoderAlone
  <2> QED
    BY <2>2, <2>3
<1>14. ASSUME NEW e \in Encoder, JoinEncoder(t, e)
       PROVE  EncoderInv'
  <2>1. /\ h = Join(e) /\ enc' = [enc EXCEPT ![e] = "none"] /\ Go(t, <<>>)
        /\ UNCHANGED <<initialized, capture_started, encoder_started, screen_capture>>
    BY <1>2, <1>14 DEF JoinEncoder, At, members
  <2>2. enc'[e] = "none" /\ \A d \in Encoder : d # e => enc'[d] = enc[d]
    BY <1>1, <2>1 DEF ScreenTypeOK
  <2>3. ASSUME ~cut
        PROVE  ~encoder_started
    BY <1>2, <1>3, <2>1, <2>3 DEF Flags, Comes, Join
  <2>4. ~cut => Flags(todo[t])'
    BY <1>5, <2>1, <2>3 DEF Flags, Comes, Join
  <2>5. ASSUME ~cut, NEW d \in Encoder, enc'[d] # "none"
        PROVE  Joins(todo'[t], d)
    <3>1. d # e /\ Joins(todo[t], d)
      BY <1>3, <2>2, <2>3, <2>5
    <3>2. e = "video" /\ d = "audio"
      <4>1. CASE h = "join video"
        BY <1>14, <2>1, <2>5, <3>1, <4>1 DEF Join, Encoder
      <4>2. CASE h = "join audio" /\ d = "audio"
        BY <1>14, <2>1, <3>1, <4>2 DEF Join, Encoder
      <4> QED
        BY <3>1, <4>1, <4>2 DEF Joins, Comes
    <3>3. h = "join video" /\ Len(todo[t]) > 1 /\ todo[t][2] = "join audio"
      BY <2>1, <3>1, <3>2 DEF Joins, Comes, Join
    <3>4. Len(todo'[t]) > 0 /\ todo'[t][1] = "join audio"
      <4>1. /\ Len(todo'[t]) \in Nat /\ Len(todo'[t]) = Len(todo[t]) - 1
            /\ \A i \in 1..Len(todo'[t]) : todo'[t][i] = todo[t][i + 1]
        BY <1>1, <1>2, <2>1, Popped
      <4>2. Len(todo[t]) \in Nat
        BY <1>1 DEF ScreenTypeOK
      <4>3. Len(todo'[t]) > 0
        <5>1. Len(todo[t]) > 1
          BY <3>3
        <5> QED
          BY <4>1, <4>2, <5>1
      <4>4. 1 \in 1..Len(todo'[t])
        BY <4>1, <4>3
      <4>5. todo'[t][1] = todo[t][2]
        BY <4>1, <4>4
      <4> QED
        BY <3>3, <4>3, <4>5
    <3> QED
      BY <3>2, <3>4 DEF Joins, Comes
  <2> QED
    BY <1>1, <1>3, <2>1, <2>4, <2>5, EncoderAlone
<1>15. CASE Destroyed(t)
  <2>1. /\ h = "destroyed" /\ initialized' = FALSE /\ capture_started' = FALSE
        /\ UNCHANGED <<encoder_started, enc>> /\ Go(t, <<>>)
    BY <1>2, <1>15 DEF Destroyed, At
  <2>2. ~cut => ~encoder_started
    BY <1>2, <1>3, <2>1 DEF Flags, Comes
  <2>3. Flags(todo[t])'
    BY <1>5, <2>1 DEF Flags, Comes
  <2> QED
    BY <1>3, <1>4, <2>1, <2>2, <2>3, EncoderAlone
<1> HIDE DEF h
<1>16. ASSUME ~StartCapture(t), ~StartEncoder(t), ~Initialized(t),
              ~StopEncoder(t), ~Destroyed(t),
              \A e \in Encoder : ~JoinEncoder(t, e)
       PROVE  /\ UNCHANGED <<initialized, capture_started, encoder_started, screen_capture, enc>>
              /\ \/ /\ Go(t, <<>>)
                    /\ h \notin {"stop encoder", "join video", "join audio", "destroyed",
                                 "start capture"}
                 \/ /\ Go(t, StopServer) \/ Go(t, StopServer \o <<"clear">>)
                    /\ h \notin {"join video", "join audio"}
                 \/ Return(t) /\ h \notin {"join video", "join audio"}
  BY <1>2, <1>16
  DEF ThreadStep, At, Lock, Unlock, Listen, ListenFails,
      Publish, Halt, Clear, Drop, Disconnect, CloseAcceptor,
      Wait, StartEncoderFails, Quit, JoinScheduler, Exited,
      members
<1> QED
  BY <1>7, <1>8, <1>9, <1>10, <1>11, <1>12, <1>13, <1>14, <1>15, <1>16

LEMMA EncoderNext ==
  ASSUME Constants, LiveInv, [ScreenNext]_(screenVars)
  PROVE  EncoderInv'
<1>1. ScreenTypeOK /\ PlanInv /\ AloneInv /\ EncoderInv
  BY DEF LiveInv
<1> DEFINE Quiet == \A t \in Thread, e \in Encoder : ~Joins(todo[t], e)
<1>2. ASSUME todo["main"] = <<>>, todo["pipe"] = <<>>
      PROVE  Quiet
  <2>1. Len(todo["main"]) = 0 /\ Len(todo["pipe"]) = 0
    BY <1>2
  <2>2. \A t \in Thread : \A S : ~Comes(todo[t], S)
    BY <2>1 DEF Thread, Comes
  <2> QED
    BY <2>2 DEF Joins
<1>3. ASSUME UNCHANGED <<initialized, capture_started, encoder_started, screen_capture, enc>>,
             ~cut' => ~cut /\ Quiet /\ \A t \in Thread : Flags(todo[t])'
      PROVE  EncoderInv'
  BY <1>1, <1>3 DEF EncoderInv
<1>4. CASE Call
  <2>1. /\ UNCHANGED <<initialized, capture_started, encoder_started, screen_capture, enc>>
        /\ cut' = (cut \/ exiting) /\ todo["main"] = <<>> /\ todo'["pipe"] = todo["pipe"]
    BY <1>1, <1>4, Called DEF Call, members
  <2>2. /\ Len(todo'["main"]) > 1
        /\ todo'["main"][1] \in {"lock", "start capture", "listen"}
        /\ todo'["main"][1] = "start capture" => ~initialized
    BY <1>1, <1>4, Called
  <2>3. Flags(todo["main"])'
    BY <2>1, <2>2 DEF Flags, Comes
  <2>4. ASSUME ~cut'
        PROVE  todo["pipe"] = <<>> /\ todo'["pipe"] = <<>>
    BY <1>1, <2>1, <2>4 DEF AloneInv
  <2>5. ASSUME ~cut'
        PROVE  Flags(todo["pipe"])'
    <3>1. Len(todo'["pipe"]) = 0
      BY <2>4, <2>5
    <3>2. \A S : ~Comes(todo'["pipe"], S)
      BY <3>1 DEF Comes
    <3> QED
      BY <3>2 DEF Flags
  <2> QED
    BY <1>2, <1>3, <2>1, <2>3, <2>4, <2>5 DEF Thread
<1>5. CASE Exit
  <2>1. /\ UNCHANGED <<initialized, capture_started, encoder_started, screen_capture, enc>>
        /\ cut' = (todo["main"] # <<>>) /\ todo'["main"] = todo["main"] /\ ~exiting
    BY <1>1, <1>5, Exits DEF Exit, members
  <2>2. todo'["pipe"][1] = "lock"
    BY <1>1, <1>5, Exits
  <2>3. Flags(todo["pipe"])'
    BY <2>2 DEF Flags, Comes
  <2>4. ~cut /\ todo["pipe"] = <<>>
    BY <1>1, <2>1 DEF AloneInv
  <2>5. ASSUME ~cut'
        PROVE  Flags(todo["main"])'
    <3>1. todo'["main"] = <<>>
      BY <2>1, <2>5
    <3>2. Len(todo'["main"]) = 0
      BY <3>1
    <3>3. \A S : ~Comes(todo'["main"], S)
      BY <3>2 DEF Comes
    <3> QED
      BY <3>3 DEF Flags
  <2> QED
    BY <1>2, <1>3, <2>1, <2>3, <2>4, <2>5 DEF Thread
<1>6. ASSUME NEW e \in Encoder, ScreenEncoderStep(e)
      PROVE  EncoderInv'
  <2>1. /\ UNCHANGED <<todo, initialized, capture_started, encoder_started, screen_capture, cut>>
        /\ enc[e] # "none"
        /\ enc' = enc \/ \E at : enc' = [enc EXCEPT ![e] = at]
    BY <1>6 DEF ScreenEncoderStep, Encode, PushLock, PushFrame, PushUnlock,
                EncoderEnds, members, exit
  <2>2. \A d \in Encoder : enc[d] = "none" => enc'[d] = "none"
    BY <1>1, <2>1 DEF ScreenTypeOK
  <2> QED
    BY <1>1, <2>1, <2>2 DEF EncoderInv, Flags
<1>7. CASE UNCHANGED <<todo, initialized, capture_started, encoder_started, screen_capture,
                       enc, cut>>
  BY <1>1, <1>7 DEF EncoderInv, Flags
<1>8. CASE \/ EventLoopStep
           \/ \E s \in Server : OnAccept(s) \/ \E c \in Client : Describe(s, c)
           \/ \E c \in Client : Leave(c)
  BY <1>7, <1>8
  DEF EventLoopStep, GetTaskScheduler, SchedulerEnds, CloseConnection, OnAccept,
      Describe, Leave, exit, members
<1>9. CASE UNCHANGED screenVars
  BY <1>7, <1>9 DEF screenVars, members, exit
<1> QED
  BY <1>4, <1>5, <1>6, <1>8, <1>9, EncoderThread DEF ScreenNext

-----------------------------------------------------------------------------
(* What crashes. *)

LEMMA CrashNext ==
  ASSUME Constants, LiveInv, [ScreenNext]_(screenVars)
  PROVE  NoCrash'
<1>1. ScreenTypeOK /\ NoCrash
  BY DEF LiveInv
<1>2. CASE UNCHANGED misused /\ misused = "no"
  BY <1>2 DEF NoCrash
<1>3. ASSUME NEW t \in Thread, StartEncoder(t)
      PROVE  NoCrash'
  <2>1. /\ todo[t] # <<>> /\ Head(todo[t]) = "start encoder" /\ capture_started
        /\ misused = "no" /\ UNCHANGED <<cut, initialized>>
    BY <1>3 DEF StartEncoder, At, Running, exit
  <2>2. todo[t][1] = "start encoder" /\ Len(todo[t]) > 0 /\ ThreadStep(t)
    BY <1>1, <1>3, <2>1, AfterPop DEF ScreenTypeOK, ThreadStep
  <2>3. screen_capture
    BY <2>1 DEF LiveInv, EncoderInv
  <2>4. ASSUME ~cut, initialized, NEW e \in Encoder
        PROVE  enc[e] = "none"
    <3>1. ~Joins(todo[t], e)
      BY <2>2 DEF Joins, Comes
    <3>2. ~encoder_started
      BY <1>3, <2>2, <2>4, EncoderBefore DEF Flags, Comes
    <3> QED
      BY <1>3, <2>2, <2>4, <3>1, <3>2, EncoderBefore
  <2>5. misused' = "no" \/ (misused' = "thread" /\ \E e \in Encoder : enc[e] # "none")
    BY <1>3, <2>1, <2>3 DEF StartEncoder, Crash
  <2> QED
    BY <2>1, <2>4, <2>5 DEF NoCrash
<1>4. ASSUME NEW e \in Encoder, Encode(e)
      PROVE  NoCrash'
  <2>1. encoder_started /\ misused = "no" /\ UNCHANGED <<cut, initialized>>
    BY <1>4 DEF Encode, Running, exit, members
  <2>3. misused' = "no" \/ (misused' = "capture" /\ ~screen_capture)
    BY <1>4, <2>1 DEF Encode, Crash
  <2>2. ~cut => screen_capture
    BY <2>1 DEF LiveInv, EncoderInv
  <2> QED
    BY <2>1, <2>2, <2>3 DEF NoCrash
<1>5. ASSUME NEW e \in Encoder, PushFrame(e)
      PROVE  NoCrash'
  <2>1. rtsp_server # Null /\ \A t \in Thread : ~Comes(todo[t], {"clear"})
    BY <1>5, Exclusion DEF PushFrame, LiveInv, ServerInv, Comes, Locked
  <2>2. rtsp_server \in alive
    BY <2>1 DEF LiveInv, ServerInv, Published
  <2> QED
    BY <1>2, <1>5, <2>2 DEF PushFrame, Running
<1>6. ASSUME NEW t \in Thread, ThreadStep(t), ~StartEncoder(t)
      PROVE  NoCrash'
  BY <1>2, <1>6
  DEF ThreadStep, At, Running, Lock, Unlock, Listen,
      ListenFails, Publish, Halt, Clear, Drop, Disconnect,
      CloseAcceptor, Wait, StartCapture, StartEncoderFails,
      Initialized, StopEncoder, JoinEncoder, Destroyed, Quit,
      JoinScheduler, Exited
<1>7. CASE \/ Call \/ Exit
           \/ \E e \in Encoder :
                PushLock(e) \/ PushUnlock(e) \/ EncoderEnds(e)
           \/ EventLoopStep
           \/ \E s \in Server : OnAccept(s) \/ \E c \in Client : Describe(s, c)
           \/ \E c \in Client : Leave(c)
  BY <1>2, <1>7
  DEF Call, Exit, PushLock, PushUnlock, EncoderEnds, Running,
      EventLoopStep, GetTaskScheduler, SchedulerEnds, CloseConnection, OnAccept,
      Describe, Leave, EventLoopFree
<1>8. CASE UNCHANGED screenVars
  BY <1>1, <1>8 DEF screenVars, members, exit, NoCrash
<1> QED
  BY <1>3, <1>4, <1>5, <1>6, <1>7, <1>8 DEF ScreenNext, ScreenEncoderStep

-----------------------------------------------------------------------------
(* The number of clients. *)

LEMMA CountThread ==
  ASSUME Constants, LiveInv, NEW t \in Thread, ThreadStep(t)
  PROVE  CountInv'
<1> DEFINE h == todo[t][1]
<1>1. ScreenTypeOK /\ PlanInv /\ CountInv
  BY DEF LiveInv
<1>2. /\ todo[t] # <<>> /\ Head(todo[t]) = h /\ Len(todo[t]) > 0
      /\ \A u \in Thread : u # t => todo'[u] = todo[u]
  BY <1>1, Taken, OthersStay
<1>3. ASSUME Go(t, <<>>), h # "listen"
      PROVE  Publishes(todo'[t]) => Publishes(todo[t])
  BY <1>2, <1>3, ServerPopped
<1>4. ASSUME \/ Return(t) \/ Go(t, StopServer)
             \/ Go(t, StopServer \o <<"clear">>)
             \/ Go(t, <<"join video", "join audio">>)
      PROVE  ~Publishes(todo'[t])
  <2>1. CASE Return(t)
    <3>1. Len(todo'[t]) = 0
      BY <1>1, <2>1, Returned
    <3> QED
      BY <3>1 DEF Publishes, Comes
  <2>2. CASE ~Return(t)
    <3>1. todo'[t][1] \in {"disconnect", "join video"}
      BY <1>1, <1>2, <1>4, <2>2, Put
    <3> QED
      BY <3>1 DEF Publishes, Comes
  <2> QED
    BY <2>1, <2>2
<1>5. ASSUME UNCHANGED <<setter, rtsp_clients, counted>>, rtsp_server' \in {rtsp_server, Null},
             Publishes(todo'["main"]) => Publishes(todo["main"]) /\ local'["main"] = local["main"]
      PROVE  CountInv'
  BY <1>1, <1>5 DEF CountInv, Constants
<1>6. ASSUME UNCHANGED <<setter, rtsp_clients, counted>>, rtsp_server' \in {rtsp_server, Null},
             \A u \in Thread : u # t => local'[u] = local[u],
             Publishes(todo'[t]) => Publishes(todo[t]) /\ local'[t] = local[t]
      PROVE  CountInv'
  BY <1>2, <1>5, <1>6 DEF Thread
<1>7. CASE Listen(t)
  <2>1. PICK s \in Server : /\ local' = [local EXCEPT ![t] = s]
                            /\ counted' = [counted EXCEPT ![s] = {}]
                            /\ setter' = IF setter = s THEN Gone ELSE setter
    BY <1>7 DEF Listen
  <2>2. UNCHANGED <<rtsp_server, rtsp_clients>> /\ t = "main"
    BY <1>2, <1>7, Exclusion DEF Listen, At, Comes
  <2>3. setter' \in Server => setter' = setter /\ counted'[setter] = counted[setter]
    BY <1>1, <2>1 DEF ScreenTypeOK, Constants
  <2>4. setter' = Null => setter = Null
    BY <2>1 DEF Constants
  <2>5. \A r \in Server : counted[r] = {} => counted'[r] = {}
    BY <1>1, <2>1 DEF ScreenTypeOK
  <2>6. counted'[s] = {} /\ local'["main"] = s
    BY <1>1, <2>1, <2>2 DEF ScreenTypeOK
  <2> QED
    BY <1>1, <2>2, <2>3, <2>4, <2>5, <2>6 DEF CountInv
<1>8. CASE Publish(t)
  <2>1. /\ h = "publish" /\ rtsp_server' = local[t] /\ UNCHANGED <<setter, rtsp_clients, counted>>
        /\ IF rtsp_server = Null THEN Go(t, <<>>) ELSE Go(t, StopServer)
    BY <1>2, <1>8 DEF Publish, At, count
  <2>2. t = "main" /\ Publishes(todo[t])
    BY <1>2, <2>1, Exclusion DEF Publishes, Comes
  <2>3. ~Publishes(todo'["main"])
    <3>1. CASE rtsp_server = Null
      <4>1. Len(todo'[t]) > 0 => todo'[t][1] = "unlock"
        BY <1>1, <1>2, <2>1, <3>1, Popped DEF Follows
      <4> QED
        BY <2>2, <4>1 DEF Publishes, Comes
    <3>2. CASE rtsp_server # Null
      BY <1>4, <2>1, <2>2, <3>2
    <3> QED
      BY <3>1, <3>2
  <2> QED
    BY <1>1, <2>1, <2>2, <2>3 DEF CountInv
<1>9. CASE Clear(t)
  <2>1. /\ h = "clear" /\ rtsp_server' = Null /\ rtsp_clients' = 0 /\ setter' = Null
        /\ Go(t, <<>>)
    BY <1>2, <1>9 DEF Clear, At
  <2>2. t = "main" /\ ~Publishes(todo'["main"])
    <3>1. t = "main" /\ ~Publishes(todo[t])
      BY <1>2, <2>1, Exclusion DEF Publishes, Comes
    <3> QED
      BY <1>3, <2>1, <3>1
  <2> QED
    BY <2>1, <2>2 DEF CountInv, Constants
<1>10. CASE Halt(t) \/ Drop(t)
  <2>1. /\ h \in {"halt", "drop"} /\ UNCHANGED <<setter, rtsp_clients, counted>>
        /\ rtsp_server' \in {rtsp_server, Null}
        /\ \E s : local' = [local EXCEPT ![t] = s]
        /\ \/ Go(t, <<>>) \/ Go(t, StopServer)
           \/ Go(t, StopServer \o <<"clear">>)
    BY <1>2, <1>10 DEF Halt, Drop, At, count, server
  <2>2. \A u \in Thread : u # t => local'[u] = local[u]
    BY <1>1, <2>1 DEF ScreenTypeOK
  <2>3. ~Publishes(todo[t])
    BY <2>1 DEF Publishes, Comes
  <2>4. ~Publishes(todo'[t])
    BY <1>3, <1>4, <2>1, <2>3
  <2> QED
    BY <1>6, <2>1, <2>2, <2>4
<1>11. CASE Wait(t)
  <2>1. /\ h = "wait" /\ UNCHANGED <<setter, rtsp_clients, counted, rtsp_server>>
        /\ local' = [local EXCEPT ![t] = Null] /\ Go(t, <<>>)
    BY <1>2, <1>11 DEF Wait, At, count
  <2>2. \A u \in Thread : u # t => local'[u] = local[u]
    BY <1>1, <2>1 DEF ScreenTypeOK
  <2>3. ~Publishes(todo[t])
    BY <2>1 DEF Publishes, Comes
  <2> QED
    BY <1>3, <1>6, <2>1, <2>2, <2>3
<1> HIDE DEF h
<1>12. ASSUME NEW e \in Encoder, JoinEncoder(t, e)
       PROVE  UNCHANGED <<local, rtsp_server, setter, rtsp_clients, counted>> /\ Go(t, <<>>)
              /\ h # "listen"
  <2>1. UNCHANGED <<local, rtsp_server, setter, rtsp_clients, counted>> /\ Go(t, <<>>)
        /\ h = Join(e)
    BY <1>2, <1>12 DEF JoinEncoder, At, server, count
  <2>2. Join(e) # "listen"
    BY DEF Join
  <2> QED
    BY <2>1, <2>2
<1>13. CASE StartEncoder(t)
  <2>1. /\ UNCHANGED <<local, rtsp_server, setter, rtsp_clients, counted>> /\ h # "listen"
        /\ UNCHANGED todo \/ Go(t, <<>>)
    BY <1>2, <1>13 DEF StartEncoder, At, server, count
  <2> QED
    BY <1>3, <1>6, <2>1
<1>14. ASSUME ~Listen(t), ~Publish(t), ~Halt(t), ~Clear(t), ~Drop(t),
              ~Wait(t), ~StartEncoder(t),
              \A e \in Encoder : ~JoinEncoder(t, e)
       PROVE  /\ UNCHANGED <<local, rtsp_server, setter, rtsp_clients, counted>>
              /\ \/ Go(t, <<>>) /\ h # "listen"
                 \/ Return(t)
                 \/ Go(t, <<"join video", "join audio">>)
  BY <1>2, <1>14
  DEF ThreadStep, At, Lock, Unlock, ListenFails, Disconnect,
      CloseAcceptor, StartCapture, StartEncoderFails, Initialized,
      StopEncoder, Destroyed, Quit, JoinScheduler, Exited, server,
      count
<1> QED
  BY <1>3, <1>4, <1>6, <1>7, <1>8, <1>9, <1>10, <1>11, <1>12, <1>13, <1>14

LEMMA CountNext ==
  ASSUME Constants, LiveInv, [ScreenNext]_(screenVars)
  PROVE  CountInv'
<1>1. ScreenTypeOK /\ CountInv
  BY DEF LiveInv
<1>2. ASSUME UNCHANGED <<local, rtsp_server, setter, rtsp_clients, counted>>,
             Publishes(todo'["main"]) => Publishes(todo["main"])
      PROVE  CountInv'
  BY <1>1, <1>2 DEF CountInv
<1>3. CASE Call
  <2>1. UNCHANGED <<local, rtsp_server, setter, rtsp_clients, counted>>
    BY <1>3 DEF Call, count, server
  <2>2. /\ todo'["main"][1] \in {"lock", "start capture", "listen"}
        /\ todo'["main"][1] = "lock" => todo'["main"][2] # "publish"
    BY <1>1, <1>3, Called
  <2> QED
    BY <1>2, <2>1, <2>2 DEF Publishes, Comes
<1>4. CASE Exit
  BY <1>1, <1>2, <1>4, Exits DEF Exit, count, server
<1>5. CASE UNCHANGED <<todo, local, rtsp_server, setter, rtsp_clients, counted>>
  BY <1>2, <1>5
<1>6. ASSUME NEW e \in Encoder, ScreenEncoderStep(e)
      PROVE  CountInv'
  BY <1>5, <1>6
  DEF ScreenEncoderStep, Encode, PushLock, PushFrame, PushUnlock,
      EncoderEnds, server, count
<1>7. ASSUME NEW s \in Server, NEW heard, Notify(s, heard)
      PROVE  CountInv'
  <2>1. setter' = s /\ s # Null /\ counted'[s] = heard
        /\ rtsp_clients' = Cardinality(heard)
    BY <1>1, <1>7 DEF Notify, ScreenTypeOK, Constants
  <2> QED
    BY <2>1 DEF CountInv
<1>8. ASSUME NEW s \in Server, NEW c \in Client, Describe(s, c) \/ CloseConnection(s, c)
      PROVE  CountInv'
  BY <1>5, <1>7, <1>8 DEF Describe, CloseConnection, count
<1>9. CASE \/ GetTaskScheduler \/ SchedulerEnds \/ \E s \in Server : OnAccept(s)
           \/ \E c \in Client : Leave(c)
  BY <1>5, <1>9
  DEF GetTaskScheduler, SchedulerEnds, OnAccept, Leave, server, count
<1>10. CASE UNCHANGED screenVars
  BY <1>5, <1>10 DEF screenVars, server, count
<1> QED
  BY <1>3, <1>4, <1>6, <1>8, <1>9, <1>10, CountThread DEF ScreenNext, EventLoopStep

-----------------------------------------------------------------------------
(* ScreenLive's theorems. *)

LEMMA LiveInit ==
  ASSUME Constants, ScreenInit
  PROVE  LiveInv
<1>1. ScreenTypeOK
  BY LiveTypeInit
<1>2. PlanInv
  BY PlanInit
<1>3. /\ \A t \in Thread : Len(todo[t]) = 0
      /\ \A e \in Encoder : enc[e] = "none"
  BY DEF ScreenInit
<1>4. \A t \in Thread : \A S : ~Comes(todo[t], S)
  BY <1>3 DEF Comes
<1>5. MutexInv
  BY <1>3, <1>4 DEF MutexInv
<1>6. ServerInv
  BY <1>3, <1>4 DEF ServerInv, Published, Made, Stopped, Publishes, ScreenInit
<1>7. AloneInv
  BY DEF AloneInv, ScreenInit, Thread
<1>8. EncoderInv
  BY <1>3, <1>4 DEF EncoderInv, Flags, ScreenInit
<1>9. NoCrash
  BY DEF NoCrash, ScreenInit
<1>10. CountInv
  <2>1. ~Publishes(todo["main"])
    BY <1>4 DEF Publishes, Thread
  <2> QED
    BY <2>1 DEF CountInv, ScreenInit, Constants
<1> QED
  BY <1>1, <1>2, <1>5, <1>6, <1>7, <1>8, <1>9, <1>10 DEF LiveInv

LEMMA LiveStep ==
  ASSUME Constants
  PROVE  ScreenSpec => []LiveInv
<1>1. ScreenInit => LiveInv
  BY LiveInit
<1>2. LiveInv /\ [ScreenNext]_(screenVars) => LiveInv'
  <2> SUFFICES ASSUME LiveInv, [ScreenNext]_(screenVars)
               PROVE  LiveInv'
    OBVIOUS
  <2>1. ScreenTypeOK' /\ PlanInv' /\ MutexInv' /\ ServerInv' /\ AloneInv' /\ EncoderInv'
        /\ NoCrash' /\ CountInv'
    BY LiveTypeNext, PlanNext, MutexNext, ServerNext, AloneNext, EncoderNext, CrashNext, CountNext
  <2> QED
    BY <2>1 DEF LiveInv
<1> QED
  BY <1>1, <1>2, PTL DEF ScreenSpec

\* Types, of ScreenLive, for any servers, clients and number of operations.
THEOREM LiveTypeCorrect == ScreenSpec => []ScreenTypeOK
<1>1. LiveInv => ScreenTypeOK
  BY DEF LiveInv
<1> QED
  BY <1>1, LiveStep, ScreenAssumption, PTL

\* No frame is pushed to a server that is gone; a capture that is gone is used, and a thread
\* overwritten, only if exit(1) cut an operation short or Init had failed before.
THEOREM LiveNoCrash == ScreenSpec => []NoCrash
<1>1. LiveInv => NoCrash
  BY DEF LiveInv
<1> QED
  BY <1>1, LiveStep, ScreenAssumption, PTL

\* The number of clients is that of the published server, unless it was last set for another.
THEOREM LiveCountIsTrue == ScreenSpec => []CountIsTrue
<1>1. LiveInv => CountIsTrue
  <2> SUFFICES ASSUME LiveInv, rtsp_server # Null, setter \in {rtsp_server, Null}
               PROVE  rtsp_clients = Cardinality(counted[rtsp_server])
    BY DEF CountIsTrue
  <2>1. rtsp_server \in Server
    BY DEF LiveInv, ScreenTypeOK
  <2>2. CASE setter = rtsp_server
    BY <2>1, <2>2 DEF LiveInv, CountInv
  <2>3. CASE setter = Null
    <3>1. rtsp_clients = 0 /\ counted[rtsp_server] = {}
      BY <2>1, <2>3 DEF LiveInv, CountInv
    <3> QED
      BY <3>1, FS_EmptySet
  <2> QED
    BY <2>2, <2>3
<1> QED
  BY <1>1, LiveStep, ScreenAssumption, PTL

=============================================================================
