--------------------------- MODULE TcpServer_proofs ---------------------------
(***************************************************************************)
(* Proofs about TcpServer, for any clients, descriptors, failed accepts    *)
(* and capacity of the trigger queue: type correctness, that channels call *)
(* back living connections, that RemoveConnection removes the right one,   *)
(* and what is left when Stop has returned.                                *)
(***************************************************************************)
EXTENDS TcpServer, TLAPS

Rm(k) == [op |-> "remove", arg |-> k]
Cl(o) == [op |-> "close", arg |-> o]
Md    == [op |-> "media", arg |-> None]

Has(q, e)  == \E i \in DOMAIN q : q[i] = e
Once(q, e) == \A i, j \in DOMAIN q : q[i] = e /\ q[j] = e => i = j

-----------------------------------------------------------------------------
(* The queue as the proofs see it: what Append and Tail do to Has and Once. *)
LEMMA EventFacts ==
  /\ \A k \in Key : Rm(k) \in Event
  /\ \A o \in Object : Cl(o) \in Event
  /\ Md \in Event
  /\ \A k, o : Rm(k) # Cl(o)
  /\ \A k : Rm(k) # Md
  /\ \A o : Cl(o) # Md
  /\ \A k, l : Rm(k) = Rm(l) => k = l
  /\ \A o, p : Cl(o) = Cl(p) => o = p
<1>1. /\ \A k \in Key : Rm(k) \in Event
      /\ \A o \in Object : Cl(o) \in Event
      /\ Md \in Event
  BY DEF Rm, Cl, Md, Event
<1>2. \A k, o : Rm(k).op = "remove" /\ Rm(k).arg = k /\ Cl(o).op = "close" /\ Cl(o).arg = o
                /\ Md.op = "media"
  BY DEF Rm, Cl, Md
<1>3. QED
  BY <1>1, <1>2

LEMMA EventKinds ==
  ASSUME NEW e \in Event
  PROVE  /\ e.op \in {"close", "remove", "media"}
         /\ e.op = "close" => e = Cl(e.arg) /\ e.arg \in Object
         /\ e.op = "remove" => e = Rm(e.arg) /\ e.arg \in Key
         /\ e.op = "media" => e = Md
  BY DEF Event, Cl, Rm, Md

LEMMA AfterAppend ==
  ASSUME NEW q \in Seq(Event), NEW e \in Event
  PROVE  /\ Append(q, e) \in Seq(Event)
         /\ Len(Append(q, e)) = Len(q) + 1
         /\ \A f : Has(Append(q, e), f) <=> Has(q, f) \/ f = e
         /\ \A f : Once(q, f) /\ (f = e => ~Has(q, f)) => Once(Append(q, e), f)
<1> DEFINE r == Append(q, e)
<1>1. /\ r \in Seq(Event) /\ Len(r) = Len(q) + 1 /\ DOMAIN r = 1..(Len(q) + 1)
      /\ \A i \in 1..Len(q) : r[i] = q[i]
      /\ r[Len(q) + 1] = e /\ DOMAIN q = 1..Len(q) /\ Len(q) \in Nat
  OBVIOUS
<1> HIDE DEF r
<1>2. \A f : Has(r, f) <=> Has(q, f) \/ f = e
  BY <1>1 DEF Has
<1>3. ASSUME NEW f, Once(q, f), f = e => ~Has(q, f) PROVE Once(r, f)
  BY <1>1, <1>3 DEF Has, Once
<1>4. QED
  BY <1>1, <1>2, <1>3 DEF r

LEMMA AfterTail ==
  ASSUME NEW q \in Seq(Event), q # <<>>
  PROVE  /\ Tail(q) \in Seq(Event) /\ Head(q) \in Event
         /\ Len(Tail(q)) <= Len(q)
         /\ Has(q, Head(q))
         /\ \A f : Has(Tail(q), f) => Has(q, f)
         /\ \A f : f # Head(q) /\ Has(q, f) => Has(Tail(q), f)
         /\ \A f : Once(q, f) => Once(Tail(q), f)
         /\ Once(q, Head(q)) => ~Has(Tail(q), Head(q))
<1> DEFINE r == Tail(q)
           h == Head(q)
<1>1. /\ r \in Seq(Event) /\ Len(r) = Len(q) - 1 /\ DOMAIN r = 1..(Len(q) - 1)
      /\ \A i \in 1..(Len(q) - 1) : r[i] = q[i + 1]
      /\ h = q[1] /\ h \in Event /\ DOMAIN q = 1..Len(q) /\ Len(q) \in Nat \ {0}
  OBVIOUS
<1> HIDE DEF r, h
<1>2. Has(q, h)
  BY <1>1 DEF Has
<1>3. \A f : Has(r, f) => Has(q, f)
  BY <1>1 DEF Has
<1>4. ASSUME NEW f, f # h, Has(q, f) PROVE Has(r, f)
  <2>1. PICK i \in 1..Len(q) : q[i] = f
    BY <1>1, <1>4 DEF Has
  <2>2. i # 1 /\ i - 1 \in 1..(Len(q) - 1) /\ (i - 1) + 1 = i
    BY <1>1, <1>4, <2>1
  <2>3. r[i - 1] = f
    BY <1>1, <2>1, <2>2
  <2>4. QED
    BY <1>1, <2>2, <2>3 DEF Has
<1>5. ASSUME NEW f, Once(q, f) PROVE Once(r, f)
  BY <1>1, <1>5 DEF Once
<1>6. Once(q, h) => ~Has(r, h)
  BY <1>1 DEF Once, Has
<1>7. Len(r) <= Len(q)
  BY <1>1
<1>8. QED
  BY <1>1, <1>2, <1>3, <1>4, <1>5, <1>6, <1>7 DEF r, h

LEMMA AfterPush ==
  ASSUME NEW q \in Seq(Event), NEW e \in Event, Len(q) <= Capacity
  PROVE  /\ Push(q, e) \in Seq(Event) /\ Len(Push(q, e)) <= Capacity
         /\ \A f : Has(Push(q, e), f) <=> Has(q, f) \/ (f = e /\ ~Full(q))
         /\ \A f : Once(q, f) /\ (f = e => ~Has(q, f)) => Once(Push(q, e), f)
<1>1. Len(q) \in Nat /\ Capacity \in Nat
  BY ServerAssumption
<1>2. CASE Full(q)
  BY <1>1, <1>2 DEF Push
<1>3. CASE ~Full(q)
  BY <1>1, <1>3, AfterAppend DEF Push, Full
<1>4. QED
  BY <1>2, <1>3

-----------------------------------------------------------------------------
LEMMA TypeInit == Init => TypeOK
<1> SUFFICES ASSUME Init PROVE TypeOK
  OBVIOUS
<1>1. queue \in Seq(Event) /\ Len(queue) <= Capacity
  BY ServerAssumption DEF Init
<1>2. media \in 0..MaxMedia
  BY ServerAssumption DEF Init
<1>3. sock \in [Object -> Key] /\ state \in [Object -> {"none", "open", "closed", "gone"}]
  BY DEF Init, Key
<1>4. QED
  BY <1>1, <1>2, <1>3 DEF Init, TypeOK

LEMMA CloseType ==
  ASSUME TypeOK, NEW o \in Object, NEW q \in Seq(Event), Len(q) <= Capacity, Close(o, q)
  PROVE  /\ state' \in [Object -> {"none", "open", "closed", "gone"}]
         /\ channels' \in [Key -> Object \cup {None}]
         /\ queue' \in Seq(Event) /\ Len(queue') <= Capacity
         /\ timers' \in SUBSET Key
<1>1. sock[o] \in Key
  BY DEF TypeOK
<1>2. Rm(sock[o]) \in Event
  BY <1>1, EventFacts
<1>3. Push(q, Rm(sock[o])) \in Seq(Event) /\ Len(Push(q, Rm(sock[o]))) <= Capacity
  BY <1>2, AfterPush
<1>4. QED
  BY <1>1, <1>3 DEF Close, Rm, TypeOK

LEMMA NewType ==
  ASSUME TypeOK, NEW o \in Object, NEW f \in Key, NewConnection(o, f)
  PROVE  /\ sock' \in [Object -> Key]
         /\ channels' \in [Key -> Object \cup {None}]
         /\ connections' \in [Key -> Object \cup {None}]
         /\ state' \in [Object -> {"none", "open", "closed", "gone"}]
         /\ late' \in SUBSET Object
  BY DEF NewConnection, TypeOK

(* Every step keeps the variables in their types. *)
LEMMA TypeStep == ASSUME TypeOK, [Next]_vars PROVE TypeOK'
<1> USE DEF TypeOK, stopper, clients
<1>1. ASSUME NEW c \in Conn, Connect(c) \/ Leave(c) PROVE TypeOK'
  BY <1>1 DEF Connect, Leave
<1>2. CASE AddMedia
  <2>1. Md \in Event /\ [op |-> "media", arg |-> None] = Md
    BY EventFacts DEF Md
  <2>2. Append(queue, Md) \in Seq(Event) /\ Len(Append(queue, Md)) = Len(queue) + 1
    BY <2>1, AfterAppend
  <2>3. queue' \in Seq(Event) /\ Len(queue') <= Capacity
    BY <1>2, <2>1, <2>2, ServerAssumption DEF AddMedia, Full
  <2>4. media' \in 0..MaxMedia
    BY <1>2, ServerAssumption DEF AddMedia
  <2>5. QED
    BY <1>2, <2>3, <2>4 DEF AddMedia
<1>3. CASE Select
  BY <1>3 DEF Select, Object
<1>4. CASE OnAccept
  <2>1. ASSUME NEW c \in backlog, NEW f \in FreeFd, NewConnection(c, f) PROVE
           /\ sock' \in [Object -> Key]
           /\ channels' \in [Key -> Object \cup {None}]
           /\ connections' \in [Key -> Object \cup {None}]
           /\ state' \in [Object -> {"none", "open", "closed", "gone"}]
           /\ late' \in SUBSET Object
    BY <2>1, NewType DEF FreeFd, Key, Object
  <2>2. ASSUME NEW o \in Failed, NewConnection(o, Invalid) PROVE
           /\ sock' \in [Object -> Key]
           /\ channels' \in [Key -> Object \cup {None}]
           /\ connections' \in [Key -> Object \cup {None}]
           /\ state' \in [Object -> {"none", "open", "closed", "gone"}]
           /\ late' \in SUBSET Object
    BY <2>2, NewType DEF Key, Object
  <2>3. QED
    BY <1>4, <2>1, <2>2 DEF OnAccept
<1>5. CASE RunEvent
  <2> DEFINE e == Head(queue)
             q == Tail(queue)
  <2>1. q \in Seq(Event) /\ Len(q) <= Capacity /\ e \in Event
    BY <1>5, AfterTail, ServerAssumption DEF RunEvent
  <2>2. e.op = "close" => e.arg \in Object
    BY <2>1, EventKinds
  <2>3. \A o \in left : o \in Object
    BY DEF Object
  <2> HIDE DEF e, q
  <2>4. CASE e.op = "close" /\ Close(e.arg, q) /\ UNCHANGED connections
    BY <1>5, <2>1, <2>2, <2>4, CloseType DEF RunEvent
  <2>5. CASE /\ e.op = "close"
             /\ state' = IF Held(e.arg, q) THEN state ELSE [state EXCEPT ![e.arg] = "gone"]
             /\ queue' = q /\ UNCHANGED <<connections, channels, timers>>
    BY <1>5, <2>1, <2>2, <2>5 DEF RunEvent
  <2>6. CASE /\ e.op = "remove" /\ RemoveConnection(e.arg, q)
             /\ queue' = q /\ UNCHANGED <<channels, timers>>
    BY <1>5, <2>1, <2>6 DEF RunEvent, RemoveConnection
  <2>7. ASSUME NEW o \in left, Close(o, q), UNCHANGED connections PROVE TypeOK'
    BY <1>5, <2>1, <2>3, <2>7, CloseType DEF RunEvent
  <2>8. CASE queue' = q /\ UNCHANGED <<state, channels, timers, connections>>
    BY <1>5, <2>1, <2>8 DEF RunEvent
  <2>9. QED
    BY <1>5, <2>4, <2>5, <2>6, <2>7, <2>8 DEF RunEvent, e, q
<1>6. ASSUME NEW o \in Object, HandleRead(o) PROVE TypeOK'
  <2>1. CASE Close(o, queue)
    BY <1>6, <2>1, CloseType DEF HandleRead
  <2>2. CASE UNCHANGED <<state, channels, queue, timers>>
    BY <1>6, <2>2 DEF HandleRead
  <2>3. QED
    BY <1>6, <2>1, <2>2 DEF HandleRead
<1>7. ASSUME NEW k \in Key, RunTimer(k) PROVE TypeOK'
  BY <1>7 DEF RunTimer, RemoveConnection
<1>8. CASE Start \/ StopLock \/ StopUnlock \/ AcceptorClose \/ StopReturn
  BY <1>8 DEF Start, StopLock, StopUnlock, AcceptorClose, StopReturn
<1>9. ASSUME NEW o \in Object, StopDisconnect(o) PROVE TypeOK'
  <2>1. Cl(o) \in Event
    BY EventFacts
  <2>2. Push(queue, Cl(o)) \in Seq(Event) /\ Len(Push(queue, Cl(o))) <= Capacity
    BY <2>1, AfterPush
  <2>3. QED
    BY <1>9, <2>2 DEF StopDisconnect, Cl
<1>10. CASE UNCHANGED vars
  BY <1>10 DEF vars
<1>11. QED
  BY <1>1, <1>2, <1>3, <1>4, <1>5, <1>6, <1>7, <1>8, <1>9, <1>10
  DEF Next, SchedulerStep, StopStep

-----------------------------------------------------------------------------
(* The inductive invariant.  What is entered is alive and sits at its own   *)
(* descriptor; what is registered or about to be dispatched is alive;       *)
(* sockets of clients are valid, those of failed accepts are not.           *)
Entered == \A k \in Key : connections[k] # None =>
                            Alive(connections[k]) /\ sock[connections[k]] = k

Registered ==
  /\ \A k \in Fd : channels[k] # None => state[channels[k]] = "open" /\ sock[channels[k]] = k
  /\ \A o \in batch \cap Object : Alive(o) /\ sock[o] \in Fd

Sockets ==
  /\ \A c \in Conn : state[c] # "none" => sock[c] \in Fd
  /\ \A o \in Failed : sock[o] = Invalid
  /\ \A c \in backlog : state[c] = "none"

(* A living connection has its descriptor to itself; a failed accept has no  *)
(* other reference than the table's.                                         *)
Exclusive ==
  /\ \A o, p \in Object : Alive(o) /\ Alive(p) /\ sock[o] = sock[p] => o = p
  /\ \A o \in Object : state[o] = "open" => connections[sock[o]] = o
  /\ \A o \in Failed : Alive(o) => connections[Invalid] = o

(* RemovesItsOwn, in terms of Has and Once.                                  *)
ClosedAt(k) == connections[k] # None /\ state[connections[k]] = "closed"
Pending ==
  \A k \in Key : /\ ClosedAt(k) <=> k \in timers \/ Has(queue, Rm(k))
                 /\ k \in timers => ~Has(queue, Rm(k))
                 /\ Once(queue, Rm(k))

(* Stop disconnects each connection once, and only connections alive.        *)
Before == server \in {"new", "running"}
Disconnects ==
  /\ \A o \in Object :
       /\ Has(queue, Cl(o)) => Alive(o) /\ o \notin todo /\ ~Before
       /\ o \in todo => connections[sock[o]] = o /\ server = "locked"
       /\ Once(queue, Cl(o))
  /\ \A o \in Failed : state[o] = "closed" => ~Before /\ o \notin todo /\ ~Has(queue, Cl(o))

Emptied == server = "stopped" => \A k \in Key : connections[k] = None

Parts == /\ Entered /\ Registered /\ Sockets /\ Exclusive /\ Pending /\ Disconnects /\ Emptied
IInv  == TypeOK /\ Parts

-----------------------------------------------------------------------------
LEMMA PartsInit == Init => Parts
<1> SUFFICES ASSUME Init PROVE Parts
  OBVIOUS
<1>1. Entered /\ Registered /\ Sockets /\ Emptied
  BY DEF Init, Entered, Registered, Sockets, Emptied, Key, Object
<1>2. Exclusive
  BY DEF Init, Exclusive, Alive, Object
<1>3. \A e : ~Has(queue, e) /\ Once(queue, e)
  BY DEF Init, Has, Once
<1>4. Pending
  BY <1>3 DEF Init, Pending, ClosedAt
<1>5. Disconnects
  BY <1>3 DEF Init, Disconnects, Object
<1>6. QED
  BY <1>1, <1>2, <1>4, <1>5 DEF Parts

(* A new connection finds its descriptor free, and only a failed accept may  *)
(* find Invalid taken; then it does not outlive OnConnect.                   *)
LEMMA NewKeeps ==
  ASSUME TypeOK, Parts, NEW o \in Object, NEW f \in Key, NewConnection(o, f),
         state[o] = "none", server # "stopped", server # "locked",
         \/ o \in Conn /\ f \in FreeFd
         \/ o \in Failed /\ f = Invalid,
         batch' \subseteq batch, backlog' = backlog \ {o},
         UNCHANGED <<server, todo, queue, timers>>
  PROVE  Parts'
<1> USE ServerAssumption DEF TypeOK, Parts, Object, Key, NewConnection, Alive
<1>1. Entered'
  BY DEF Entered, Exclusive, Sockets, FreeFd
<1>2. Registered'
  BY DEF Registered, Entered, Exclusive, Sockets, FreeFd
<1>3. Sockets'
  BY DEF Sockets, FreeFd
<1>4. Exclusive'
  BY DEF Exclusive, Sockets, FreeFd, Entered
<1>5. Pending'
  BY DEF Pending, ClosedAt, Entered, FreeFd, Sockets
<1>6. Disconnects'
  BY DEF Disconnects, Before
<1>7. Emptied'
  BY DEF Emptied
<1>8. QED
  BY <1>1, <1>2, <1>3, <1>4, <1>5, <1>6, <1>7

(* Closing o, where q is the queue without the event being run.              *)
LEMMA CloseKeeps ==
  ASSUME TypeOK, Parts, NEW o \in Object, NEW q \in Seq(Event), Len(q) <= Capacity, Close(o, q),
         state[o] \in {"open", "closed"}, sock[o] \in Fd \/ (~Before /\ o \notin todo /\ ~Has(q, Cl(o))),
         \A k \in Key : (Has(q, Rm(k)) <=> Has(queue, Rm(k))) /\ Once(q, Rm(k)),
         \A p \in Object : (Has(q, Cl(p)) => Has(queue, Cl(p))) /\ Once(q, Cl(p)),
         batch' \subseteq batch,
         UNCHANGED <<server, todo, connections, sock, backlog>>
  PROVE  Parts'
<1> USE ServerAssumption DEF TypeOK, Parts, Close, Alive
<1>a. CASE state[o] = "open"
  <2>1. sock[o] \in Key /\ connections[sock[o]] = o /\ ~ClosedAt(sock[o])
    BY <1>a DEF Exclusive, ClosedAt
  <2>2. ~Has(queue, Rm(sock[o])) /\ sock[o] \notin timers
    BY <2>1 DEF Pending
  <2>3. Rm(sock[o]) \in Event /\ Rm(sock[o]) = [op |-> "remove", arg |-> sock[o]]
    BY <2>1, EventFacts DEF Rm
  <2>4. /\ \A f : Has(queue', f) <=> Has(q, f) \/ (f = Rm(sock[o]) /\ ~Full(q))
        /\ \A f : Once(q, f) /\ (f = Rm(sock[o]) => ~Has(q, f)) => Once(queue', f)
    <3>1. queue' = Push(q, Rm(sock[o]))
      BY <1>a, <2>3
    <3>2. QED
      BY <2>3, <3>1, AfterPush
  <2>5. \A k \in Key : /\ Has(queue', Rm(k)) <=> Has(queue, Rm(k)) \/ (k = sock[o] /\ ~Full(q))
                       /\ Once(queue', Rm(k))
    BY <2>1, <2>2, <2>4, EventFacts
  <2>6. \A p \in Object : (Has(queue', Cl(p)) => Has(q, Cl(p))) /\ Once(queue', Cl(p))
    BY <2>4, EventFacts
  <2>7. Entered'
    BY <1>a DEF Entered
  <2>8. Registered'
    <3>1. state' = [state EXCEPT ![o] = "closed"] /\ channels' = [channels EXCEPT ![sock[o]] = None]
      BY <1>a
    <3>2. ASSUME NEW k \in Fd, channels'[k] # None
          PROVE  state'[channels'[k]] = "open" /\ sock'[channels'[k]] = k
      <4>1. k # sock[o] /\ channels'[k] = channels[k] /\ channels[k] \in Object
        BY <3>1, <3>2 DEF Key
      <4>2. state[channels[k]] = "open" /\ sock[channels[k]] = k
        BY <3>2, <4>1 DEF Registered
      <4>3. QED
        BY <3>1, <4>1, <4>2
    <3>3. \A p \in batch' \cap Object : Alive(p)' /\ sock'[p] \in Fd
      BY <3>1 DEF Registered
    <3>4. QED
      BY <3>2, <3>3 DEF Registered
  <2>9. Sockets'
    BY <1>a DEF Sockets, Object
  <2>10. Exclusive'
    BY <1>a DEF Exclusive, Object
  <2>11. \A k \in Key : ClosedAt(k)' <=> (ClosedAt(k) \/ k = sock[o])
    <3>1. state' = [state EXCEPT ![o] = "closed"]
      BY <1>a
    <3>2. \A k \in Key : connections[k] = o => k = sock[o]
      BY <2>1 DEF Entered, Object
    <3>3. QED
      BY <2>1, <3>1, <3>2 DEF ClosedAt, Object
  <2>12. timers' = IF Full(q) THEN timers \cup {sock[o]} ELSE timers
    BY <1>a
  <2>13. Pending'
    BY <2>1, <2>2, <2>5, <2>11, <2>12 DEF Pending
  <2>14. Disconnects'
    BY <1>a, <2>6 DEF Disconnects, Before, Sockets, Key, Object
  <2>15. Emptied'
    BY <1>a DEF Emptied
  <2>16. QED
    BY <2>7, <2>8, <2>9, <2>10, <2>13, <2>14, <2>15
<1>b. CASE state[o] = "closed"
  <2>1. UNCHANGED <<state, channels, timers>> /\ queue' = q
    BY <1>b
  <2>2. Entered' /\ Registered' /\ Sockets' /\ Exclusive' /\ Emptied'
    BY <2>1 DEF Entered, Registered, Sockets, Exclusive, Emptied
  <2>3. Pending'
    BY <2>1 DEF Pending, ClosedAt
  <2>4. Disconnects'
    BY <2>1 DEF Disconnects, Before, Object
  <2>5. QED
    BY <2>2, <2>3, <2>4
<1>c. QED
  BY <1>a, <1>b

(* Removing the connection at k, with the queue or its tail as q.            *)
LEMMA RemoveKeeps ==
  ASSUME TypeOK, Parts, NEW k \in Key, NEW q \in Seq(Event), RemoveConnection(k, q), batch = {},
         k \in timers \/ Has(queue, Rm(k)),
         k \notin timers', ~Has(queue', Rm(k)), queue' = q,
         \A j \in Key \ {k} : /\ j \in timers' <=> j \in timers
                              /\ Has(q, Rm(j)) <=> Has(queue, Rm(j)),
         \A j \in Key : Once(q, Rm(j)),
         \A p \in Object : (Has(q, Cl(p)) <=> Has(queue, Cl(p))) /\ Once(q, Cl(p)),
         UNCHANGED <<server, todo, sock, backlog, batch, channels>>
  PROVE  Parts'
<1> USE ServerAssumption DEF TypeOK, Parts, Alive
<1>1. ClosedAt(k)
  BY DEF Pending
<1>2. PICK o \in Object : connections[k] = o /\ state[o] = "closed" /\ sock[o] = k
  BY <1>1 DEF ClosedAt, Entered
<1>3. Held(o, q) <=> Has(q, Cl(o))
  BY DEF Held, Has, Cl
<1>4. /\ connections' = [connections EXCEPT ![k] = None]
      /\ \A p \in Object : state'[p] = IF p = o /\ ~Has(q, Cl(o)) THEN "gone" ELSE state[p]
      /\ state' \in [Object -> {"none", "open", "closed", "gone"}]
      /\ server # "locked"
  BY <1>2, <1>3 DEF RemoveConnection
<1>5. \A j \in Key : connections[j] = o => j = k
  BY <1>2 DEF Entered, Object
<1>6. Entered'
  BY <1>2, <1>4, <1>5 DEF Entered, Object
<1>7. Registered'
  BY <1>2, <1>4 DEF Registered, Key
<1>8. Sockets'
  BY <1>2, <1>4 DEF Sockets, Object
<1>9. Exclusive'
  BY <1>2, <1>4, <1>5 DEF Exclusive, Object, Disconnects, Sockets
<1>10. \A j \in Key : ClosedAt(j)' <=> ClosedAt(j) /\ j # k
  BY <1>2, <1>4, <1>5 DEF ClosedAt
<1>11. Pending'
  BY <1>10 DEF Pending
<1>12. Disconnects'
  BY <1>2, <1>4 DEF Disconnects, Before, Object
<1>13. Emptied'
  BY <1>4 DEF Emptied
<1>14. QED
  BY <1>6, <1>7, <1>8, <1>9, <1>11, <1>12, <1>13

-----------------------------------------------------------------------------
(* Every step keeps the invariant.                                          *)
LEMMA PartsStep == ASSUME TypeOK, Parts, [Next]_vars PROVE Parts'
<1> USE ServerAssumption DEF TypeOK, Parts, stopper, clients
<1>1. ASSUME NEW c \in Conn, Connect(c) PROVE Parts'
  BY <1>1 DEF Connect, Entered, Registered, Sockets, Exclusive, Pending, ClosedAt, Disconnects,
     Before, Emptied, Alive
<1>2. ASSUME NEW c \in Conn, Leave(c) PROVE Parts'
  BY <1>2 DEF Leave, Entered, Registered, Sockets, Exclusive, Pending, ClosedAt, Disconnects,
     Before, Emptied, Alive
<1>3. CASE AddMedia
  <2>1. Md \in Event /\ queue' = Append(queue, Md)
    BY <1>3, EventFacts DEF AddMedia, Md
  <2>2. /\ \A f : Has(queue', f) <=> Has(queue, f) \/ f = Md
        /\ \A f : f # Md /\ Once(queue, f) => Once(queue', f)
    BY <2>1, AfterAppend
  <2>3. /\ \A k \in Key : (Has(queue', Rm(k)) <=> Has(queue, Rm(k))) /\ Once(queue', Rm(k))
        /\ \A o \in Object : (Has(queue', Cl(o)) <=> Has(queue, Cl(o))) /\ Once(queue', Cl(o))
    BY <2>2, EventFacts DEF Pending, Disconnects
  <2>4. Entered' /\ Registered' /\ Sockets' /\ Exclusive' /\ Emptied'
    BY <1>3 DEF AddMedia, Entered, Registered, Sockets, Exclusive, Emptied, Alive
  <2>5. Pending'
    BY <1>3, <2>3 DEF AddMedia, Pending, ClosedAt
  <2>6. Disconnects'
    BY <1>3, <2>3 DEF AddMedia, Disconnects, Before, Alive, Object
  <2>7. QED
    BY <2>4, <2>5, <2>6
<1>4. CASE Select
  <2>1. \A o \in batch' \cap Object : \E k \in Fd : channels[k] = o
    BY <1>4 DEF Select, Key, Object
  <2>2. Registered'
    BY <1>4, <2>1 DEF Select, Registered, Alive, Object
  <2>3. QED
    BY <1>4, <2>2 DEF Select, Entered, Sockets, Exclusive, Pending, ClosedAt, Disconnects,
       Before, Emptied, Alive
<1>5. CASE OnAccept
  <2>1. ASSUME server # "stopped", NEW c \in backlog, NEW f \in FreeFd, NewConnection(c, f),
               backlog' = backlog \ {c}
        PROVE  Parts'
    <3>1. c \in Object /\ f \in Key /\ state[c] = "none" /\ c \in Conn
      BY DEF Object, Key, FreeFd, Sockets
    <3>2. server # "locked" /\ batch' \subseteq batch /\ UNCHANGED <<server, todo, queue, timers>>
      BY <1>5 DEF OnAccept
    <3>3. QED
      BY <2>1, <3>1, <3>2, NewKeeps
  <2>2. ASSUME server # "stopped", NEW o \in Failed, state[o] = "none", NewConnection(o, Invalid),
               backlog' = backlog
        PROVE  Parts'
    <3>1. o \in Object /\ Invalid \in Key /\ backlog' = backlog \ {o}
      BY <2>2 DEF Object, Key
    <3>2. server # "locked" /\ batch' \subseteq batch /\ UNCHANGED <<server, todo, queue, timers>>
      BY <1>5 DEF OnAccept
    <3>3. QED
      BY <2>2, <3>1, <3>2, NewKeeps
  <2>3. CASE UNCHANGED <<backlog, sock, channels, connections, state, late>>
    BY <1>5, <2>3 DEF OnAccept, Entered, Registered, Sockets, Exclusive, Pending, ClosedAt,
       Disconnects, Before, Emptied, Alive
  <2>4. QED
    BY <1>5, <2>1, <2>2, <2>3 DEF OnAccept
<1>6. CASE RunEvent
  <2> DEFINE e == Head(queue)
             q == Tail(queue)
  <2>1. q \in Seq(Event) /\ Len(q) <= Capacity /\ e \in Event /\ Has(queue, e)
    BY <1>6, AfterTail DEF RunEvent
  <2>2. /\ \A f : Has(q, f) => Has(queue, f)
        /\ \A f : f # e /\ Has(queue, f) => Has(q, f)
        /\ \A f : Once(queue, f) => Once(q, f)
        /\ Once(queue, e) => ~Has(q, e)
    BY <1>6, AfterTail DEF RunEvent
  <2>3. /\ e.op \in {"close", "remove", "media"}
        /\ e.op = "close" => e = Cl(e.arg) /\ e.arg \in Object
        /\ e.op = "remove" => e = Rm(e.arg) /\ e.arg \in Key
        /\ e.op = "media" => e = Md
    BY <2>1, EventKinds
  <2>4. batch = {} /\ UNCHANGED <<stopper, clients, batch, sock>>
    BY <1>6 DEF RunEvent
  <2> HIDE DEF e, q
  <2>5. /\ \A k \in Key : Once(q, Rm(k))
        /\ \A p \in Object : (Has(q, Cl(p)) => Has(queue, Cl(p))) /\ Once(q, Cl(p))
    BY <2>2 DEF Pending, Disconnects
  <2>6. e.op # "remove" => \A k \in Key : Has(q, Rm(k)) <=> Has(queue, Rm(k))
    BY <2>2, <2>3, EventFacts
  <2>7. e.op # "close" => \A p \in Object : Has(q, Cl(p)) <=> Has(queue, Cl(p))
    BY <2>2, <2>3, EventFacts
  <2>8. CASE e.op = "close" /\ Close(e.arg, q) /\ UNCHANGED connections
    <3>1. PICK o \in Object : e = Cl(o) /\ Close(o, q)
      BY <2>3, <2>8
    <3>2. Has(queue, Cl(o)) /\ ~Has(q, Cl(o))
      BY <2>1, <2>2, <3>1 DEF Disconnects
    <3>3. state[o] \in {"open", "closed"} /\ ~Before /\ o \notin todo
      BY <3>2 DEF Disconnects, Alive
    <3>4. QED
      BY <2>1, <2>4, <2>5, <2>6, <2>8, <3>1, <3>2, <3>3, CloseKeeps
  <2>9. CASE /\ e.op = "close" /\ connections[sock[e.arg]] # e.arg
             /\ state' = IF Held(e.arg, q) THEN state ELSE [state EXCEPT ![e.arg] = "gone"]
             /\ queue' = q /\ UNCHANGED <<connections, channels, timers>>
    <3>1. PICK o \in Object : e = Cl(o) /\ o = e.arg
      BY <2>3, <2>9
    <3>2. Has(queue, Cl(o)) /\ ~Has(q, Cl(o)) /\ connections[sock[o]] # o
      BY <2>1, <2>2, <2>9, <3>1 DEF Disconnects
    <3>3. ~Held(o, q)
      BY <3>2 DEF Held, Has, Cl
    <3>4. state' = [state EXCEPT ![o] = "gone"]
      BY <2>9, <3>1, <3>3
    <3>5. state[o] = "closed" /\ \A k \in Key : connections[k] # o
      BY <3>2 DEF Exclusive, Disconnects, Alive, Entered, Object
    <3>6. Entered'
      BY <2>9, <2>4, <3>4, <3>5 DEF Entered, Alive, Object
    <3>7. Registered'
      BY <2>9, <2>4, <3>4, <3>5 DEF Registered, Key
    <3>8. Sockets'
      BY <2>4, <3>1, <3>2, <3>4 DEF Sockets, Object, Disconnects, Alive
    <3>9. Exclusive'
      BY <2>4, <2>9, <3>4, <3>5 DEF Exclusive, Alive, Object
    <3>10. \A k \in Key : ClosedAt(k)' <=> ClosedAt(k)
      BY <2>9, <3>4, <3>5 DEF ClosedAt, Object
    <3>11. Pending'
      BY <2>5, <2>6, <2>9, <3>10 DEF Pending
    <3>12. Disconnects'
      BY <2>4, <2>5, <2>9, <3>2, <3>4 DEF Disconnects, Before, Alive, Object
    <3>13. Emptied'
      BY <2>4, <2>9 DEF Emptied
    <3>14. QED
      BY <3>6, <3>7, <3>8, <3>9, <3>11, <3>12, <3>13
  <2>10. CASE /\ e.op = "remove" /\ RemoveConnection(e.arg, q)
              /\ queue' = q /\ UNCHANGED <<channels, timers>>
    <3>1. PICK k \in Key : e = Rm(k) /\ RemoveConnection(k, q)
      BY <2>3, <2>10
    <3>2. Has(queue, Rm(k)) /\ ~Has(q, Rm(k)) /\ k \notin timers
      BY <2>1, <2>2, <3>1 DEF Pending
    <3>3. \A j \in Key \ {k} : Has(q, Rm(j)) <=> Has(queue, Rm(j))
      BY <2>2, <3>1, EventFacts
    <3>4. QED
      BY <2>1, <2>4, <2>5, <2>7, <2>10, <3>1, <3>2, <3>3, RemoveKeeps
  <2>11. ASSUME NEW o \in left, e.op = "media", Close(o, q), UNCHANGED connections PROVE Parts'
    <3>1. o \in Object
      BY DEF Object
    <3>2. CASE state[o] \in {"open", "closed"}
      <4>1. sock[o] \in Fd
        BY <3>2 DEF Sockets
      <4>2. QED
        BY <2>1, <2>4, <2>5, <2>6, <2>11, <3>1, <3>2, <4>1, CloseKeeps
    <3>3. CASE state[o] \notin {"open", "closed"}
      <4>1. queue' = q /\ UNCHANGED <<state, channels, timers>>
        BY <2>11, <3>3 DEF Close
      <4>2. QED
        BY <2>4, <2>5, <2>6, <2>7, <2>11, <4>1 DEF Entered, Registered, Sockets, Exclusive, Pending,
           ClosedAt, Disconnects, Before, Emptied, Alive, Object
    <3>4. QED
      BY <3>2, <3>3
  <2>12. CASE e.op = "media" /\ queue' = q /\ UNCHANGED <<state, channels, timers, connections>>
    BY <2>4, <2>5, <2>6, <2>7, <2>12 DEF Entered, Registered, Sockets, Exclusive, Pending,
       ClosedAt, Disconnects, Before, Emptied, Alive, Object
  <2>13. QED
    BY <1>6, <2>8, <2>9, <2>10, <2>11, <2>12 DEF RunEvent, e, q
<1>7. ASSUME NEW o \in Object, HandleRead(o) PROVE Parts'
  <2>1. batch' \subseteq batch /\ UNCHANGED <<stopper, clients, connections, sock>> /\ o \in batch
    BY <1>7 DEF HandleRead
  <2>2. state[o] \in {"open", "closed"} /\ sock[o] \in Fd
    BY <2>1 DEF Registered, Alive
  <2>3. CASE Close(o, queue)
    <3>1. /\ \A k \in Key : Once(queue, Rm(k))
          /\ \A p \in Object : Once(queue, Cl(p))
      BY DEF Pending, Disconnects
    <3>2. QED
      BY <2>1, <2>2, <2>3, <3>1, CloseKeeps
  <2>4. CASE UNCHANGED <<state, channels, queue, timers>>
    BY <2>1, <2>4 DEF Entered, Registered, Sockets, Exclusive, Pending, ClosedAt, Disconnects,
       Before, Emptied, Alive
  <2>5. QED
    BY <1>7, <2>3, <2>4 DEF HandleRead
<1>8. ASSUME NEW k \in Key, RunTimer(k) PROVE Parts'
  <2>1. /\ batch = {} /\ k \in timers /\ RemoveConnection(k, queue) /\ timers' = timers \ {k}
        /\ UNCHANGED <<stopper, clients, channels, batch, queue, sock>>
    BY <1>8 DEF RunTimer
  <2>2. ~Has(queue, Rm(k)) /\ (\A j \in Key : Once(queue, Rm(j)))
        /\ \A p \in Object : Once(queue, Cl(p))
    BY <2>1 DEF Pending, Disconnects
  <2>3. QED
    BY <2>1, <2>2, RemoveKeeps
<1>9. CASE Start
  BY <1>9 DEF Start, Entered, Registered, Sockets, Exclusive, Pending, ClosedAt, Disconnects,
     Before, Emptied, Alive
<1>10. CASE StopLock
  <2>1. \A o \in todo' : connections[sock[o]] = o
    BY <1>10 DEF StopLock, Entered, Object
  <2>2. Disconnects'
    BY <1>10, <2>1 DEF StopLock, Disconnects, Before, Alive, Object
  <2>3. QED
    BY <1>10, <2>2 DEF StopLock, Entered, Registered, Sockets, Exclusive, Pending, ClosedAt,
       Emptied, Alive
<1>11. ASSUME NEW o \in Object, StopDisconnect(o) PROVE Parts'
  <2>1. Cl(o) \in Event /\ queue' = Push(queue, Cl(o)) /\ o \in todo /\ todo' = todo \ {o}
    BY <1>11, EventFacts DEF StopDisconnect, Cl
  <2>2. server = "locked" /\ connections[sock[o]] = o /\ ~Has(queue, Cl(o))
    BY <2>1 DEF Disconnects
  <2>3. /\ \A f : Has(queue', f) => Has(queue, f) \/ f = Cl(o)
        /\ \A f : Has(queue, f) => Has(queue', f)
        /\ \A f : Once(queue, f) /\ (f = Cl(o) => ~Has(queue, f)) => Once(queue', f)
    BY <2>1, AfterPush
  <2>4. /\ \A k \in Key : (Has(queue', Rm(k)) <=> Has(queue, Rm(k))) /\ Once(queue', Rm(k))
        /\ \A p \in Object : (Has(queue', Cl(p)) => Has(queue, Cl(p)) \/ p = o) /\ Once(queue', Cl(p))
    BY <2>2, <2>3, EventFacts DEF Pending, Disconnects
  <2>5. Alive(o) /\ (o \in Failed => state[o] # "closed")
    BY <2>1, <2>2 DEF Entered, Disconnects, Object
  <2>6. Pending'
    BY <1>11, <2>4 DEF StopDisconnect, Pending, ClosedAt
  <2>7. Disconnects'
    BY <1>11, <2>1, <2>2, <2>4, <2>5 DEF StopDisconnect, Disconnects, Before, Alive, Object
  <2>8. QED
    BY <1>11, <2>6, <2>7 DEF StopDisconnect, Entered, Registered, Sockets, Exclusive, Emptied, Alive
<1>12. CASE StopUnlock
  BY <1>12 DEF StopUnlock, Entered, Registered, Sockets, Exclusive, Pending, ClosedAt, Disconnects,
     Before, Emptied, Alive
<1>13. CASE AcceptorClose
  <2>1. Disconnects'
    BY <1>13 DEF AcceptorClose, Disconnects, Before, Alive
  <2>2. QED
    BY <1>13, <2>1 DEF AcceptorClose, Entered, Registered, Sockets, Exclusive, Pending, ClosedAt,
       Emptied, Alive
<1>14. CASE StopReturn
  <2>1. Disconnects'
    BY <1>14 DEF StopReturn, Disconnects, Before, Alive
  <2>2. QED
    BY <1>14, <2>1 DEF StopReturn, Entered, Registered, Sockets, Exclusive, Pending, ClosedAt,
       Emptied, Alive
<1>15. CASE UNCHANGED vars
  BY <1>15 DEF vars, Entered, Registered, Sockets, Exclusive, Pending, ClosedAt, Disconnects,
     Before, Emptied, Alive
<1>16. QED
  BY <1>1, <1>2, <1>3, <1>4, <1>5, <1>6, <1>7, <1>8, <1>9, <1>10, <1>11, <1>12, <1>13, <1>14,
     <1>15 DEF Next, SchedulerStep, StopStep

-----------------------------------------------------------------------------
THEOREM Invariance == Spec => []IInv
<1>1. Init => IInv
  BY TypeInit, PartsInit DEF IInv
<1>2. IInv /\ [Next]_vars => IInv'
  BY TypeStep, PartsStep DEF IInv
<1>3. QED
  BY <1>1, <1>2, PTL DEF Spec

(* The state of TcpServer, its connections and its scheduler stays within   *)
(* its types, the trigger queue within its capacity (TaskScheduler.cpp:74). *)
THEOREM TypeCorrect == Spec => []TypeOK
<1>1. IInv => TypeOK
  BY DEF IInv
<1>2. QED
  BY <1>1, Invariance, PTL

(* Whatever is closed, removed and reused meanwhile, the raw pointers of    *)
(* channels and of the batch being dispatched are those of living           *)
(* connections (Channel.h, SelectTaskScheduler.cpp:171-186).                *)
THEOREM CallbacksHitLiving == Spec => []ChannelsAreLive
<1>1. IInv => ChannelsAreLive
  BY DEF IInv, Parts, Registered, ChannelsAreLive
<1>2. QED
  BY <1>1, Invariance, PTL

(* Descriptors and connections_ agree, failed accepts included, so Stop's   *)
(* loop over connections_ finds every connection open (TcpServer.cpp:62).   *)
THEOREM StopFindsAll == Spec => []OpenIsListed
<1>1. IInv => OpenIsListed
  BY DEF IInv, Parts, Exclusive, OpenIsListed
<1>2. QED
  BY <1>1, Invariance, PTL

(* The queued RemoveConnection(sockfd), run late or by the timer, removes   *)
(* the connection that was closed and no later one (TcpServer.cpp:20-31).   *)
THEOREM RemovesTheClosed == Spec => []RemovesItsOwn
<1>1. ASSUME IInv PROVE RemovesItsOwn
  <2>1. \A k \in Key : /\ Removals(k) # {} <=> Has(queue, Rm(k))
                       /\ Once(queue, Rm(k)) => \A i, j \in Removals(k) : i = j
    BY DEF Removals, Has, Once, Rm
  <2>2. QED
    BY <1>1, <2>1 DEF IInv, Parts, Pending, ClosedAt, RemovesItsOwn
<1>2. QED
  BY <1>1, Invariance, PTL

(* When Stop has returned nothing is left that could call back a server     *)
(* about to be destroyed but the acceptor's channel, if it is in a batch.   *)
THEOREM StopLeavesNothing == Spec => []StoppedIsQuiet
<1>1. ASSUME IInv PROVE StoppedIsQuiet
  <2>1. SUFFICES ASSUME server = "stopped"
                 PROVE  /\ \A o \in Object : state[o] # "open"
                        /\ timers = {} /\ \A i \in DOMAIN queue : queue[i].op # "remove"
    BY DEF StoppedIsQuiet
  <2>2. \A k \in Key : connections[k] = None /\ k \notin timers /\ ~Has(queue, Rm(k))
    BY <1>1, <2>1 DEF IInv, Parts, Emptied, Pending, ClosedAt
  <2>3. \A o \in Object : state[o] # "open"
    BY <1>1, <2>2, ServerAssumption DEF IInv, Parts, Exclusive, TypeOK, Object
  <2>4. ASSUME NEW i \in DOMAIN queue PROVE queue[i].op # "remove"
    <3>1. queue[i] \in Event
      BY <1>1 DEF IInv, TypeOK
    <3>2. queue[i].op = "remove" => queue[i] = Rm(queue[i].arg) /\ queue[i].arg \in Key
      BY <3>1, EventKinds
    <3>3. QED
      BY <2>2, <3>2 DEF Has
  <2>5. QED
    BY <1>1, <2>2, <2>3, <2>4 DEF IInv, TypeOK
<1>2. QED
  BY <1>1, Invariance, PTL

=============================================================================
