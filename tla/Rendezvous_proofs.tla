--------------------------- MODULE Rendezvous_proofs ---------------------------
(***************************************************************************)
(* Proofs about Rendezvous for any hosts, guests, meetings and ports.  The *)
(* history variables say when two tasks were in one table together; while  *)
(* they were not, the list of sessions and the ports are as if the tables  *)
(* had a lock.                                                             *)
(***************************************************************************)
EXTENDS Rendezvous, FiniteSetTheorems, TLAPS

HasBegun(h) == at[h] \in {"start", "told", "hosting"}
Begun       == {h \in Host : HasBegun(h)}

(* A session's socket is not tried before it is listed.  The list is no     *)
(* longer than the tasks that have written it, so that there is always room. *)
SlotInv ==
  /\ \A h \in Host : bound[h] = "none" <=> ~HasBegun(h)
  /\ size <= Cardinality(Begun)
  /\ \A h \in Host : at[h] = "insert" => slot[h] \in 1..(Cardinality(Begun) + 1)

(* A chosen port is marked by its own task or about to be.                  *)
PortInv ==
  /\ \A h \in Host : at[h] \in {"new", "adding", "keyed", "choose"} => port[h] = 0
  /\ \A h \in Host : at[h] = "mark" => port[h] # 0
  /\ ~portRaced => \A h \in Host : port[h] = 0 \/ at[h] = "mark" \/ port[h] \in serverports
  /\ PortsDiffer

(* The list: the sessions that have begun, each at one place.               *)
ListInv ==
  ~listRaced =>
    /\ \A h, k \in Host : at[h] = "insert" /\ at[k] = "insert" => h = k
    /\ \A h \in Host : at[h] = "insert" => slot[h] = size + 1
    /\ \A i \in 1..size : sessions[i] \in Host /\ HasBegun(sessions[i])
    /\ \A i, j \in 1..size : sessions[i] = sessions[j] => i = j
    /\ \A h \in Host : HasBegun(h) => \E i \in 1..size : sessions[i] = h

(* No key is lost unless two Adds overlapped, no bind fails unless two      *)
(* sessions have one port.  A datagram is under way only from a host that   *)
(* has sent it, whose session's socket has been tried or is about to be.    *)
AdminInv ==
  /\ ~keysRaced => \A c \in Client : at[c] \in {"new", "adding"} \/ c \in keys
  /\ \A h \in Host : at[h] = "dead" => keysRaced
  /\ \A h \in Host : bound[h] = "failed" => portRaced
  /\ \A h \in hellos : at[h] = "hosting"
  /\ HostBecomesAdmin

IInv == TypeOK /\ SlotInv /\ PortInv /\ ListInv /\ AdminInv /\ RequestReachesItsHost
-----------------------------------------------------------------------------
LEMMA BegunFinite ==
  /\ IsFiniteSet(Begun) /\ Cardinality(Begun) \in Nat
  /\ Cardinality(Host) \in Nat
<1>1. IsFiniteSet(Host) /\ Begun \in SUBSET Host
  BY RendezvousAssumption DEF Begun
<1>2. IsFiniteSet(Begun)
  BY <1>1, FS_Subset
<1>3. QED
  BY <1>1, <1>2, FS_CardinalityType

(* There is room in the list for a host that has not begun.                 *)
LEMMA RoomForOne ==
  ASSUME NEW h \in Host, h \notin Begun
  PROVE  Cardinality(Begun) + 1 <= Cardinality(Host)
<1>1. Cardinality(Begun \cup {h}) = Cardinality(Begun) + 1
  BY BegunFinite, FS_AddElement
<1>2. Begun \cup {h} \in SUBSET Host
  BY DEF Begun
<1>3. Cardinality(Begun \cup {h}) <= Cardinality(Host)
  BY <1>2, RendezvousAssumption, FS_Subset
<1>4. QED
  BY <1>1, <1>3

LEMMA SizeNat == ASSUME TypeOK PROVE size \in Nat
  BY BegunFinite DEF TypeOK, Slots

LEMMA InvInit == Init => IInv
<1> SUFFICES ASSUME Init PROVE IInv
  OBVIOUS
<1>1. Begun = {} /\ Cardinality(Begun) = 0
  BY FS_EmptySet DEF Init, Begun, HasBegun, Client
<1>2. TypeOK
  BY RendezvousAssumption, BegunFinite DEF Init, TypeOK, Client, Slots
<1>3. SlotInv
  BY <1>1 DEF Init, SlotInv, HasBegun, Client
<1>4. PortInv /\ ListInv
  BY <1>1 DEF Init, PortInv, ListInv, HasBegun, PortsDiffer, Client
<1>5. AdminInv /\ RequestReachesItsHost
  BY <1>1 DEF Init, AdminInv, HasBegun, HostBecomesAdmin, RequestReachesItsHost, Client
<1>6. QED
  BY <1>2, <1>3, <1>4, <1>5 DEF IInv
-----------------------------------------------------------------------------
LEMMA TypeStep == ASSUME IInv, [Next]_vars PROVE TypeOK'
<1> USE RendezvousAssumption DEF IInv, TypeOK, Client, Goto, tables, races, net
<1>1. ASSUME NEW c \in Client, AddKey(c) PROVE TypeOK'
  BY <1>1 DEF AddKey
<1>2. ASSUME NEW c \in Client, KeyOk(c) PROVE TypeOK'
  BY <1>2 DEF KeyOk
<1>3. ASSUME NEW h \in Host, CheckPorts(h) PROVE TypeOK'
  <2>1. InUse \subseteq Port
    BY DEF InUse
  <2>2. QED
    BY <1>3, <2>1 DEF CheckPorts
<1>4. ASSUME NEW h \in Host, ChoosePort(h) PROVE TypeOK'
  <2>1. UNCHANGED <<tables, slot, asked, keysRaced, listRaced, net>>
    BY <1>4 DEF ChoosePort
  <2>2. portRaced' \in BOOLEAN
    BY <1>4 DEF ChoosePort
  <2>3. port' \in [Host -> Port \cup {0}]
    BY <1>4 DEF ChoosePort
  <2>4. at' = [at EXCEPT ![h] = "create"] \/ at' = [at EXCEPT ![h] = "mark"]
    BY <1>4 DEF ChoosePort
  <2>5. QED
    BY <2>1, <2>2, <2>3, <2>4
<1>5. ASSUME NEW h \in Host, MarkPort(h) PROVE TypeOK'
  <2>1. port[h] # 0
    BY <1>5 DEF MarkPort, PortInv
  <2>2. QED
    BY <1>5, <2>1 DEF MarkPort
<1>6. ASSUME NEW h \in Host, CreateSession(h) PROVE TypeOK'
  <2>1. h \notin Begun
    BY <1>6 DEF CreateSession, Begun, HasBegun
  <2>2. size + 1 \in Slots
    BY <2>1, RoomForOne, BegunFinite DEF SlotInv, Slots
  <2>3. QED
    <3>1. CASE h \in keys
      BY <1>6, <2>2, <3>1 DEF CreateSession
    <3>2. CASE h \notin keys
      BY <1>6, <3>2 DEF CreateSession
    <3>3. QED
      BY <3>1, <3>2
<1>7. ASSUME NEW h \in Host, AddSession(h) PROVE TypeOK'
  <2>1. slot[h] \in Slots
    BY <1>7, BegunFinite DEF AddSession, SlotInv
  <2>2. QED
    BY <1>7, <2>1 DEF AddSession
<1>8. ASSUME NEW h \in Host, BindUdp(h) PROVE TypeOK'
  BY <1>8 DEF BindUdp
<1>9. ASSUME NEW h \in Host, HostOk(h) PROVE TypeOK'
  BY <1>9 DEF HostOk
<1>10. ASSUME NEW h \in Host, SendHello(h) PROVE TypeOK'
  BY <1>10 DEF SendHello
<1>11. ASSUME NEW g \in Guest, Request(g) PROVE TypeOK'
  BY <1>11 DEF Request, Found
<1>12. ASSUME NEW h \in Host, ReceiveHello(h) PROVE TypeOK'
  BY <1>12 DEF ReceiveHello
<1>13. ASSUME NEW h \in Host, LoseHello(h) PROVE TypeOK'
  BY <1>13 DEF LoseHello
<1>14. CASE UNCHANGED vars
  BY <1>14 DEF vars
<1>15. QED
  BY <1>1, <1>2, <1>3, <1>4, <1>5, <1>6, <1>7, <1>8, <1>9, <1>10, <1>11, <1>12, <1>13, <1>14
     DEF Next, HostTask
-----------------------------------------------------------------------------
LEMMA SlotStep == ASSUME IInv, TypeOK', [Next]_vars PROVE SlotInv'
<1> USE RendezvousAssumption DEF IInv, TypeOK, Client, Goto, tables, races, net, SlotInv, HasBegun
<1>1. ASSUME NEW c \in Client, AddKey(c) PROVE SlotInv'
  <2>1. Begun' = Begun
    BY <1>1 DEF AddKey, Begun
  <2>2. QED
    BY <1>1, <2>1 DEF AddKey
<1>2. ASSUME NEW c \in Client, KeyOk(c) PROVE SlotInv'
  <2>1. Begun' = Begun
    BY <1>2 DEF KeyOk, Begun
  <2>2. QED
    BY <1>2, <2>1 DEF KeyOk
<1>3. ASSUME NEW h \in Host, CheckPorts(h) PROVE SlotInv'
  <2>1. Begun' = Begun
    BY <1>3 DEF CheckPorts, Begun
  <2>2. QED
    BY <1>3, <2>1 DEF CheckPorts
<1>4. ASSUME NEW h \in Host, ChoosePort(h) PROVE SlotInv'
  <2>1. Begun' = Begun
    BY <1>4 DEF ChoosePort, Begun
  <2>2. QED
    BY <1>4, <2>1 DEF ChoosePort
<1>5. ASSUME NEW h \in Host, MarkPort(h) PROVE SlotInv'
  <2>1. Begun' = Begun
    BY <1>5 DEF MarkPort, Begun
  <2>2. QED
    BY <1>5, <2>1 DEF MarkPort
<1>6. ASSUME NEW h \in Host, CreateSession(h) PROVE SlotInv'
  <2>1. Begun' = Begun
    BY <1>6 DEF CreateSession, Begun
  <2>2. QED
    BY <1>6, <2>1, BegunFinite, SizeNat DEF CreateSession
<1>7. ASSUME NEW h \in Host, AddSession(h) PROVE SlotInv'
  <2>1. h \notin Begun /\ Begun' = Begun \cup {h}
    BY <1>7 DEF AddSession, Begun
  <2>2. Cardinality(Begun') = Cardinality(Begun) + 1
    BY <2>1, BegunFinite, FS_AddElement
  <2>3. QED
    <3>1. size' <= Cardinality(Begun')
      BY <1>7, <2>2, BegunFinite DEF AddSession
    <3>2. \A d \in Host : bound'[d] = "none" <=> ~HasBegun(d)'
      BY <1>7 DEF AddSession
    <3>3. \A d \in Host : at'[d] = "insert" => at[d] = "insert" /\ slot'[d] = slot[d]
      BY <1>7 DEF AddSession
    <3>4. 1..(Cardinality(Begun) + 1) \subseteq 1..(Cardinality(Begun') + 1)
      BY <2>2, BegunFinite
    <3>5. QED
      BY <3>1, <3>2, <3>3, <3>4
<1>8. ASSUME NEW h \in Host, BindUdp(h) PROVE SlotInv'
  <2>1. Begun' = Begun
    BY <1>8 DEF BindUdp, Begun
  <2>2. QED
    BY <1>8, <2>1 DEF BindUdp
<1>9. ASSUME NEW h \in Host, HostOk(h) PROVE SlotInv'
  <2>1. Begun' = Begun
    BY <1>9 DEF HostOk, Begun
  <2>2. QED
    BY <1>9, <2>1 DEF HostOk
<1>10. ASSUME NEW h \in Host, SendHello(h) PROVE SlotInv'
  <2>1. Begun' = Begun
    BY <1>10 DEF SendHello, Begun
  <2>2. QED
    BY <1>10, <2>1 DEF SendHello
<1>11. ASSUME NEW g \in Guest, Request(g) PROVE SlotInv'
  <2>1. Begun' = Begun
    BY <1>11 DEF Request, Begun
  <2>2. QED
    BY <1>11, <2>1 DEF Request
<1>12. ASSUME NEW h \in Host, ReceiveHello(h) PROVE SlotInv'
  <2>1. Begun' = Begun
    BY <1>12 DEF ReceiveHello, Begun
  <2>2. QED
    BY <1>12, <2>1 DEF ReceiveHello
<1>13. ASSUME NEW h \in Host, LoseHello(h) PROVE SlotInv'
  <2>1. Begun' = Begun
    BY <1>13 DEF LoseHello, Begun
  <2>2. QED
    BY <1>13, <2>1 DEF LoseHello
<1>14. CASE UNCHANGED vars
  <2>1. Begun' = Begun
    BY <1>14 DEF vars, Begun
  <2>2. QED
    BY <1>14, <2>1 DEF vars
<1>15. QED
  BY <1>1, <1>2, <1>3, <1>4, <1>5, <1>6, <1>7, <1>8, <1>9, <1>10, <1>11, <1>12, <1>13, <1>14
     DEF Next, HostTask

LEMMA PortStep == ASSUME IInv, TypeOK', [Next]_vars PROVE PortInv'
<1> USE RendezvousAssumption DEF IInv, TypeOK, Client, Goto, tables, races, net, PortInv, PortsDiffer
<1>1. ASSUME NEW c \in Client, AddKey(c) PROVE PortInv'
  BY <1>1 DEF AddKey
<1>2. ASSUME NEW c \in Client, KeyOk(c) PROVE PortInv'
  BY <1>2 DEF KeyOk
<1>3. ASSUME NEW h \in Host, CheckPorts(h) PROVE PortInv'
  BY <1>3 DEF CheckPorts
<1>4. ASSUME NEW h \in Host, ChoosePort(h) PROVE PortInv'
  <2>1. CASE Port \ serverports = {}
    BY <1>4, <2>1 DEF ChoosePort
  <2>2. CASE Port \ serverports # {}
    <3>1. PICK p \in Port \ serverports :
            /\ at' = [at EXCEPT ![h] = "mark"] /\ port' = [port EXCEPT ![h] = p]
            /\ portRaced' = (portRaced \/ \E d \in Host : at[d] = "mark" /\ port[d] = p)
      BY <1>4, <2>2 DEF ChoosePort
    <3>2. p # 0 /\ p \notin serverports
      OBVIOUS
    <3>3. at[h] = "choose" /\ serverports' = serverports
      BY <1>4 DEF ChoosePort
    <3>4. ASSUME ~portRaced', NEW k \in Host, port[k] = p PROVE FALSE
      BY <3>1, <3>2, <3>4
    <3>5. PortsDiffer'
      BY <3>1, <3>2, <3>4
    <3>6. QED
      BY <3>1, <3>2, <3>3, <3>5
  <2>3. QED
    BY <2>1, <2>2
<1>5. ASSUME NEW h \in Host, MarkPort(h) PROVE PortInv'
  BY <1>5 DEF MarkPort
<1>6. ASSUME NEW h \in Host, CreateSession(h) PROVE PortInv'
  BY <1>6 DEF CreateSession
<1>7. ASSUME NEW h \in Host, AddSession(h) PROVE PortInv'
  BY <1>7 DEF AddSession
<1>8. ASSUME NEW h \in Host, BindUdp(h) PROVE PortInv'
  BY <1>8 DEF BindUdp
<1>9. ASSUME NEW h \in Host, HostOk(h) PROVE PortInv'
  BY <1>9 DEF HostOk
<1>10. ASSUME NEW h \in Host, SendHello(h) PROVE PortInv'
  BY <1>10 DEF SendHello
<1>11. ASSUME NEW g \in Guest, Request(g) PROVE PortInv'
  BY <1>11 DEF Request
<1>12. ASSUME NEW h \in Host, ReceiveHello(h) PROVE PortInv'
  BY <1>12 DEF ReceiveHello
<1>13. ASSUME NEW h \in Host, LoseHello(h) PROVE PortInv'
  BY <1>13 DEF LoseHello
<1>14. CASE UNCHANGED vars
  BY <1>14 DEF vars
<1>15. QED
  BY <1>1, <1>2, <1>3, <1>4, <1>5, <1>6, <1>7, <1>8, <1>9, <1>10, <1>11, <1>12, <1>13, <1>14
     DEF Next, HostTask

LEMMA ListStep == ASSUME IInv, TypeOK', [Next]_vars PROVE ListInv'
<1> USE RendezvousAssumption DEF IInv, TypeOK, Client, Goto, tables, races, net, ListInv, HasBegun
<1>1. ASSUME NEW c \in Client, AddKey(c) PROVE ListInv'
  BY <1>1 DEF AddKey
<1>2. ASSUME NEW c \in Client, KeyOk(c) PROVE ListInv'
  BY <1>2 DEF KeyOk
<1>3. ASSUME NEW h \in Host, CheckPorts(h) PROVE ListInv'
  BY <1>3 DEF CheckPorts
<1>4. ASSUME NEW h \in Host, ChoosePort(h) PROVE ListInv'
  BY <1>4 DEF ChoosePort
<1>5. ASSUME NEW h \in Host, MarkPort(h) PROVE ListInv'
  BY <1>5 DEF MarkPort
<1>6. ASSUME NEW h \in Host, CreateSession(h) PROVE ListInv'
  <2>1. CASE h \in keys
    <3>1. /\ listRaced' = (listRaced \/ \E d \in Host : at[d] = "insert")
          /\ at[h] = "create" /\ at' = [at EXCEPT ![h] = "insert"]
          /\ slot' = [slot EXCEPT ![h] = size + 1] /\ UNCHANGED <<sessions, size>>
      BY <1>6, <2>1 DEF CreateSession
    <3>2. CASE listRaced'
      BY <3>2
    <3>3. CASE ~listRaced'
      <4>1. ~listRaced /\ \A d \in Host : at[d] # "insert"
        BY <3>1, <3>3
      <4>2. slot'[h] = size'+ 1 /\ \A d \in Host : at'[d] = "insert" => d = h
        BY <3>1, <4>1
      <4>3. \A d \in Host : HasBegun(d)' <=> HasBegun(d)
        BY <3>1
      <4>4. QED
        BY <3>1, <4>1, <4>2, <4>3
    <3>4. QED
      BY <3>2, <3>3
  <2>2. CASE h \notin keys
    BY <1>6, <2>2 DEF CreateSession
  <2>3. QED
    BY <2>1, <2>2
<1>7. ASSUME NEW h \in Host, AddSession(h) PROVE ListInv'
  <2> SUFFICES ASSUME ~listRaced PROVE ListInv'
    BY <1>7 DEF AddSession
  <2>1. /\ size \in Nat /\ size' = size + 1 /\ size + 1 \in Slots
        /\ sessions' = [sessions EXCEPT ![size + 1] = h]
    <3>1. /\ at[h] = "insert" /\ size' = slot[h]
          /\ sessions' = [sessions EXCEPT ![slot[h]] = h]
      BY <1>7 DEF AddSession
    <3>2. slot[h] = size + 1 /\ size \in Nat
      BY <3>1, SizeNat
    <3>3. slot[h] \in Slots
      BY <3>2
    <3>4. QED
      BY <3>1, <3>2, <3>3
  <2>2. /\ ~HasBegun(h) /\ HasBegun(h)'
        /\ \A d \in Host \ {h} : at'[d] = at[d]
    BY <1>7 DEF AddSession
  <2>3. \A i \in 1..size : sessions'[i] = sessions[i]
    BY <2>1 DEF Slots
  <2>4. sessions'[size + 1] = h
    BY <2>1
  <2>5. \A i \in 1..(size + 1) : i \in 1..size \/ i = size + 1
    BY <2>1
  <2>6. \A d, k \in Host : ~(at'[d] = "insert" \/ at'[k] = "insert")
    BY <1>7, <2>2 DEF AddSession
  <2>7. \A i \in 1..size' : sessions'[i] \in Host /\ HasBegun(sessions[i])'
    BY <2>1, <2>2, <2>3, <2>4, <2>5
  <2>8. QED
    BY <2>1, <2>2, <2>3, <2>4, <2>5, <2>6
<1>8. ASSUME NEW h \in Host, BindUdp(h) PROVE ListInv'
  BY <1>8 DEF BindUdp
<1>9. ASSUME NEW h \in Host, HostOk(h) PROVE ListInv'
  BY <1>9 DEF HostOk
<1>10. ASSUME NEW h \in Host, SendHello(h) PROVE ListInv'
  BY <1>10 DEF SendHello
<1>11. ASSUME NEW g \in Guest, Request(g) PROVE ListInv'
  BY <1>11 DEF Request
<1>12. ASSUME NEW h \in Host, ReceiveHello(h) PROVE ListInv'
  BY <1>12 DEF ReceiveHello
<1>13. ASSUME NEW h \in Host, LoseHello(h) PROVE ListInv'
  BY <1>13 DEF LoseHello
<1>14. CASE UNCHANGED vars
  BY <1>14 DEF vars
<1>15. QED
  BY <1>1, <1>2, <1>3, <1>4, <1>5, <1>6, <1>7, <1>8, <1>9, <1>10, <1>11, <1>12, <1>13, <1>14
     DEF Next, HostTask

LEMMA AdminStep == ASSUME IInv, TypeOK', [Next]_vars PROVE AdminInv'
<1> USE RendezvousAssumption DEF IInv, TypeOK, Client, Goto, tables, races, net, AdminInv, HostBecomesAdmin, HasBegun
<1>1. ASSUME NEW c \in Client, AddKey(c) PROVE AdminInv'
  BY <1>1 DEF AddKey
<1>2. ASSUME NEW c \in Client, KeyOk(c) PROVE AdminInv'
  BY <1>2 DEF KeyOk
<1>3. ASSUME NEW h \in Host, CheckPorts(h) PROVE AdminInv'
  BY <1>3 DEF CheckPorts
<1>4. ASSUME NEW h \in Host, ChoosePort(h) PROVE AdminInv'
  <2>1. /\ \/ at' = [at EXCEPT ![h] = "create"] /\ UNCHANGED <<port, portRaced>>
           \/ /\ at' = [at EXCEPT ![h] = "mark"]
              /\ portRaced => portRaced'
              /\ \A d \in Host \ {h} : port'[d] = port[d]
        /\ at[h] = "choose" /\ UNCHANGED <<tables, keysRaced, listRaced, net>>
    BY <1>4 DEF ChoosePort
  <2>2. QED
    BY <2>1
<1>5. ASSUME NEW h \in Host, MarkPort(h) PROVE AdminInv'
  BY <1>5 DEF MarkPort
<1>6. ASSUME NEW h \in Host, CreateSession(h) PROVE AdminInv'
  BY <1>6 DEF CreateSession
<1>7. ASSUME NEW h \in Host, AddSession(h) PROVE AdminInv'
  BY <1>7 DEF AddSession
<1>8. ASSUME NEW h \in Host, BindUdp(h) PROVE AdminInv'
  <2>1. ASSUME bound'[h] = "failed" PROVE portRaced
    BY <1>8, <2>1 DEF BindUdp, PortInv, PortsDiffer
  <2>2. QED
    BY <1>8, <2>1 DEF BindUdp
<1>9. ASSUME NEW h \in Host, HostOk(h) PROVE AdminInv'
  BY <1>9 DEF HostOk
<1>10. ASSUME NEW h \in Host, SendHello(h) PROVE AdminInv'
  <2>1. /\ at[h] = "told" /\ at' = [at EXCEPT ![h] = "hosting"] /\ hellos' = hellos \cup {h}
        /\ UNCHANGED <<admin, early, lost, port, keys, bound, keysRaced, portRaced>>
    BY <1>10 DEF SendHello
  <2>2. HostBecomesAdmin'
    BY <2>1
  <2>3. QED
    BY <2>1, <2>2
<1>11. ASSUME NEW g \in Guest, Request(g) PROVE AdminInv'
  BY <1>11 DEF Request
<1>12. ASSUME NEW h \in Host, ReceiveHello(h) PROVE AdminInv'
  <2>1. /\ h \in hellos /\ hellos' = hellos \ {h} /\ early \subseteq early'
        /\ admin' = admin \cup (Receiver(h) \cap {h})
        /\ UNCHANGED <<at, keys, port, bound, keysRaced, portRaced, lost>>
    BY <1>12 DEF ReceiveHello
  <2>2. at[h] = "hosting" /\ bound[h] # "none"
    BY <2>1 DEF SlotInv
  <2>3. h \in Receiver(h) => bound[h] = "bound" /\ port[h] # 0
    BY DEF Receiver
  <2>4. h \in admin' \/ h \in early' \/ port[h] = 0 \/ portRaced
    <3>1. CASE bound[h] = "bound"
      BY <2>1, <3>1 DEF Receiver
    <3>2. CASE bound[h] = "starting"
      BY <1>12, <3>2 DEF ReceiveHello
    <3>3. CASE bound[h] = "failed"
      BY <3>3
    <3>4. QED
      BY <2>2, <3>1, <3>2, <3>3
  <2>5. \A k \in admin' : at[k] = "hosting" /\ bound[k] = "bound" /\ port[k] # 0
    BY <2>1, <2>2, <2>3
  <2>6. ASSUME NEW k \in Host, at[k] \in {"hosting", "dead"}
        PROVE  \/ k \in admin' \cup hellos' \cup lost \cup early'
               \/ at[k] = "hosting" /\ port[k] = 0
               \/ keysRaced \/ portRaced
    <3>1. CASE k = h
      BY <2>2, <2>4, <3>1
    <3>2. CASE k # h
      BY <2>1, <2>6, <3>2
    <3>3. QED
      BY <3>1, <3>2
  <2>7. HostBecomesAdmin'
    BY <2>1, <2>5, <2>6
  <2>8. QED
    BY <2>1, <2>7
<1>13. ASSUME NEW h \in Host, LoseHello(h) PROVE AdminInv'
  BY <1>13 DEF LoseHello
<1>14. CASE UNCHANGED vars
  BY <1>14 DEF vars
<1>15. QED
  BY <1>1, <1>2, <1>3, <1>4, <1>5, <1>6, <1>7, <1>8, <1>9, <1>10, <1>11, <1>12, <1>13, <1>14
     DEF Next, HostTask

LEMMA RequestStep == ASSUME IInv, TypeOK', [Next]_vars PROVE RequestReachesItsHost'
<1> USE RendezvousAssumption DEF IInv, TypeOK, Client, Goto, tables, races, net, RequestReachesItsHost
<1>1. ASSUME NEW c \in Client, AddKey(c) PROVE RequestReachesItsHost'
  BY <1>1 DEF AddKey
<1>2. ASSUME NEW c \in Client, KeyOk(c) PROVE RequestReachesItsHost'
  BY <1>2 DEF KeyOk
<1>3. ASSUME NEW h \in Host, CheckPorts(h) PROVE RequestReachesItsHost'
  BY <1>3 DEF CheckPorts
<1>4. ASSUME NEW h \in Host, ChoosePort(h) PROVE RequestReachesItsHost'
  BY <1>4 DEF ChoosePort
<1>5. ASSUME NEW h \in Host, MarkPort(h) PROVE RequestReachesItsHost'
  BY <1>5 DEF MarkPort
<1>6. ASSUME NEW h \in Host, CreateSession(h) PROVE RequestReachesItsHost'
  BY <1>6 DEF CreateSession
<1>7. ASSUME NEW h \in Host, AddSession(h) PROVE RequestReachesItsHost'
  <2>1. ASSUME NEW g \in Guest, asked[g] # None, ~listRaced,
               NEW i \in 1..size', NEW j \in 1..size', i < j, sessions'[j] = asked[g]
        PROVE  sessions'[i] = None \/ Id[sessions'[i]] # Id[g]
    <3>1. /\ size \in Nat /\ size' = size + 1 /\ size + 1 \in Slots
          /\ sessions' = [sessions EXCEPT ![size + 1] = h]
      <4>1. /\ at[h] = "insert" /\ size' = slot[h] /\ ~listRaced
            /\ sessions' = [sessions EXCEPT ![slot[h]] = h]
        BY <1>7, <2>1 DEF AddSession
      <4>2. slot[h] = size + 1 /\ size \in Nat
        BY <4>1, SizeNat DEF ListInv
      <4>3. slot[h] \in Slots
        BY <4>2
      <4>4. QED
        BY <4>1, <4>2, <4>3
    <3>2. asked[g] # h
      BY <1>7, <2>1 DEF AddSession, AdminInv, HostBecomesAdmin
    <3>3. j \in 1..size /\ i \in 1..size
      BY <2>1, <3>1, <3>2
    <3>4. sessions'[j] = sessions[j] /\ sessions'[i] = sessions[i]
      BY <3>1, <3>3
    <3>5. QED
      BY <2>1, <3>3, <3>4
  <2>2. QED
    BY <1>7, <2>1 DEF AddSession
<1>8. ASSUME NEW h \in Host, BindUdp(h) PROVE RequestReachesItsHost'
  BY <1>8 DEF BindUdp
<1>9. ASSUME NEW h \in Host, HostOk(h) PROVE RequestReachesItsHost'
  BY <1>9 DEF HostOk
<1>10. ASSUME NEW h \in Host, SendHello(h) PROVE RequestReachesItsHost'
  BY <1>10 DEF SendHello
<1>11. ASSUME NEW g \in Guest, Request(g) PROVE RequestReachesItsHost'
  <2>1. CASE UNCHANGED asked
    BY <1>11, <2>1 DEF Request
  <2>2. CASE ~UNCHANGED asked
    <3> DEFINE n == CHOOSE i \in Found(g) : TRUE
    <3>1. /\ Found(g) # {} /\ \A i \in 1..size : sessions[i] # None
          /\ sessions[n] \in admin /\ asked' = [asked EXCEPT ![g] = sessions[n]]
      BY <1>11, <2>2 DEF Request
    <3>2. n \in Found(g)
      BY <3>1
    <3>3. /\ n \in 1..size /\ Id[sessions[n]] = Id[g]
          /\ \A j \in 1..(n - 1) : Id[sessions[j]] # Id[g]
      BY <3>2 DEF Found
    <3> HIDE DEF n
    <3>4. UNCHANGED <<sessions, size, admin, listRaced>>
      BY <1>11 DEF Request
    <3>5. ASSUME ~listRaced, NEW i \in 1..size, NEW j \in 1..size, i < j,
                 sessions[j] = sessions[n]
          PROVE  Id[sessions[i]] # Id[g]
      <4>1. j = n
        BY <3>3, <3>5 DEF ListInv
      <4>2. size \in Nat
        BY SizeNat
      <4>3. i \in 1..(n - 1)
        BY <3>5, <4>1, <4>2
      <4>4. QED
        BY <3>3, <4>3
    <3>6. QED
      BY <3>1, <3>3, <3>4, <3>5
  <2>3. QED
    BY <2>1, <2>2
<1>12. ASSUME NEW h \in Host, ReceiveHello(h) PROVE RequestReachesItsHost'
  BY <1>12 DEF ReceiveHello
<1>13. ASSUME NEW h \in Host, LoseHello(h) PROVE RequestReachesItsHost'
  BY <1>13 DEF LoseHello
<1>14. CASE UNCHANGED vars
  BY <1>14 DEF vars
<1>15. QED
  BY <1>1, <1>2, <1>3, <1>4, <1>5, <1>6, <1>7, <1>8, <1>9, <1>10, <1>11, <1>12, <1>13, <1>14
     DEF Next, HostTask

-----------------------------------------------------------------------------
LEMMA InvStep == ASSUME IInv, [Next]_vars PROVE IInv'
  BY TypeStep, SlotStep, PortStep, ListStep, AdminStep, RequestStep DEF IInv

(* The conjunction of the parts above is inductive.                         *)
LEMMA InvHolds == Spec => []IInv
  BY InvInit, InvStep, PTL DEF Spec

(* Every variable keeps its type; _sessions has room for every host.        *)
THEOREM TypeCorrect == Spec => []TypeOK
<1>1. IInv => TypeOK
  BY DEF IInv
<1>2. QED
  BY <1>1, InvHolds, PTL

(* Two sessions have one port only if two tasks of CreateSession met        *)
(* between the choice of the port and its marking.                          *)
THEOREM SessionsHaveTheirPorts == Spec => []PortsDiffer
<1>1. IInv => PortsDiffer
  BY DEF IInv, PortInv
<1>2. QED
  BY <1>1, InvHolds, PTL

(* A host that was answered HOST OK finds its session listed once, unless   *)
(* two calls of Add overlapped.                                             *)
THEOREM SessionsAreListed == Spec => []ToldIsListed
<1>1. IInv => ToldIsListed
  <2> SUFFICES ASSUME IInv, ~listRaced PROVE ToldIsListed
    BY DEF ToldIsListed
  <2>1. ASSUME NEW h \in Host, at[h] \in {"start", "told", "hosting"}
        PROVE  Cardinality({i \in 1..size : sessions[i] = h}) = 1
    <3>1. PICK i \in 1..size : sessions[i] = h
      BY <2>1 DEF IInv, ListInv, HasBegun
    <3>2. {j \in 1..size : sessions[j] = h} = {i}
      BY <3>1 DEF IInv, ListInv
    <3>3. QED
      BY <3>2, FS_Singleton
  <2>2. \A i \in 1..size : sessions[i] # None
    BY RendezvousAssumption DEF IInv, ListInv
  <2>3. QED
    BY <2>1, <2>2 DEF ToldIsListed
<1>2. QED
  BY <1>1, InvHolds, PTL

(* A guest's request goes to the admin of the first session of its meeting. *)
THEOREM RequestsAreRouted == Spec => []RequestReachesItsHost
<1>1. IInv => RequestReachesItsHost
  BY DEF IInv
<1>2. QED
  BY <1>1, InvHolds, PTL

(* For any number of hosts no session has an admin other than its own host, *)
(* and a host whose datagram is no longer under way is the admin unless the *)
(* datagram was lost or early, no port was left, or two tasks met.          *)
THEOREM HostsBecomeAdmins == Spec => []HostBecomesAdmin
<1>1. IInv => HostBecomesAdmin
  BY DEF IInv, AdminInv
<1>2. QED
  BY <1>1, InvHolds, PTL
=============================================================================
