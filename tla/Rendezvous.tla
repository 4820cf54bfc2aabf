------------------------------ MODULE Rendezvous ------------------------------
(***************************************************************************)
(* The request side of the rendezvous server (ConnectionManager,           *)
(* ConnectionFunctions, TCP.Server): a task for every connected client     *)
(* registers its key; a host creates a session on a port of its own and    *)
(* becomes its admin with one datagram, which may be late or lost; a       *)
(* guest's request is handed to the session with its id.  A client waits   *)
(* for every reply, so one program counter serves for it and its task.     *)
(*                                                                         *)
(* The tables are plain collections without a lock.  SessionServer takes   *)
(* over where a request reaches the session's admin.                       *)
(***************************************************************************)
EXTENDS Naturals, FiniteSets

CONSTANTS
  Host, Guest, \* clients, by what they will ask for
  Id,          \* the meeting each client names
  Port,        \* the registered ports, all positive
  None

ASSUME RendezvousAssumption ==
  /\ DOMAIN Id = Host \cup Guest /\ Host \cap Guest = {}
  /\ None \notin Host /\ IsFiniteSet(Host)
  /\ Port \subseteq Nat \ {0}

VARIABLES
  at,          \* where each client and its task are
  keys,        \* clients in clientsPublicKeys
  serverports, \* ports of _serverports marked as used
  port,        \* the port each host's task chose
  slot,        \* the index each host's task writes in _sessions
  sessions, size, \* _sessions: its array and _size
  bound,       \* the UDP socket of each host's session
  admin,       \* hosts whose session has the flag AIS
  asked,       \* the host each guest's request was sent to
  hellos,      \* hosts whose one datagram is under way
  keysRaced, portRaced, listRaced, \* history: two tasks in the same table
  early, lost  \* history: hosts whose datagram came before the socket was bound, or never

Client == Host \cup Guest
tables == <<keys, serverports, sessions, size, bound, admin>>
races  == <<keysRaced, portRaced, listRaced>>
net    == <<hellos, early, lost>>
vars   == <<at, tables, port, slot, asked, races, net>>

Goto(c, l) == at' = [at EXCEPT ![c] = l]
Slots      == 1..Cardinality(Host)

Init ==
  /\ at = [c \in Client |-> "new"] /\ keys = {} /\ serverports = {}
  /\ port = [h \in Host |-> 0] /\ slot = [h \in Host |-> 0]
  /\ sessions = [i \in Slots |-> None] /\ size = 0
  /\ bound = [h \in Host |-> "none"] /\ admin = {} /\ asked = [g \in Guest |-> None]
  /\ keysRaced = FALSE /\ portRaced = FALSE /\ listRaced = FALSE
  /\ hellos = {} /\ early = {} /\ lost = {}
------------------------------------------------------------------------------
\* RegisterPublicKey: ContainsKey and Add, after the exchange of HI and OK.
AddKey(c) ==
  /\ at[c] = "new" /\ Goto(c, "adding")
  /\ keysRaced' = (keysRaced \/ \E d \in Client : at[d] = "adding")
  /\ UNCHANGED <<tables, port, slot, asked, portRaced, listRaced, net>>

\* Of two overlapping Adds one may be lost.
KeyOk(c) ==
  /\ at[c] = "adding" /\ Goto(c, "keyed")
  /\ keys' \in IF keysRaced THEN {keys, keys \cup {c}} ELSE {keys \cup {c}}
  /\ UNCHANGED <<serverports, sessions, size, bound, admin, port, slot, asked, races, net>>

\* GetActiveUdpListeners.
InUse == {port[d] : d \in {x \in Host : bound[x] = "bound"}} \ {0}

\* Mutant: the ports in use are taken for free.
CheckPortsForgets(h) ==
  /\ at[h] = "keyed" /\ Goto(h, "choose")
  /\ serverports' = InUse
  /\ UNCHANGED <<keys, sessions, size, bound, admin, port, slot, asked, races, net>>

\* CheckPorts marks the ports whose UDP socket is bound.
CheckPorts(h) ==
  /\ at[h] = "keyed" /\ Goto(h, "choose")
  /\ serverports' = serverports \cup InUse
  /\ UNCHANGED <<keys, sessions, size, bound, admin, port, slot, asked, races, net>>

\* The first pair with the value false; port stays 0 when there is none.
ChoosePort(h) ==
  LET free == Port \ serverports IN
  /\ at[h] = "choose"
  /\ IF free = {} THEN Goto(h, "create") /\ UNCHANGED <<port, portRaced>>
     ELSE \E p \in free :
            /\ \A q \in free : p <= q
            /\ Goto(h, "mark") /\ port' = [port EXCEPT ![h] = p]
            /\ portRaced' = (portRaced \/ \E d \in Host : at[d] = "mark" /\ port[d] = p)
  /\ UNCHANGED <<tables, slot, asked, keysRaced, listRaced, net>>

MarkPort(h) ==
  /\ at[h] = "mark" /\ Goto(h, "create")
  /\ serverports' = serverports \cup {port[h]}
  /\ UNCHANGED <<keys, sessions, size, bound, admin, port, slot, asked, races, net>>

\* Mutant: a session takes the place of one with its id.
CreateSessionReplaces(h) ==
  LET same == {i \in 1..size : sessions[i] # None /\ Id[sessions[i]] = Id[h]} IN
  /\ at[h] = "create"
  /\ IF h \in keys
     THEN /\ Goto(h, "insert")
          /\ slot' = [slot EXCEPT ![h] = IF same = {} THEN size + 1 ELSE CHOOSE i \in same : TRUE]
          /\ listRaced' = (listRaced \/ \E d \in Host : at[d] = "insert")
     ELSE Goto(h, "dead") /\ UNCHANGED <<slot, listRaced>>
  /\ UNCHANGED <<tables, port, asked, keysRaced, portRaced, net>>

\* new SessionServer, for which GetPublicKey throws without a key; Add reads _size.
CreateSession(h) ==
  /\ at[h] = "create"
  /\ IF h \in keys
     THEN /\ Goto(h, "insert") /\ slot' = [slot EXCEPT ![h] = size + 1]
          /\ listRaced' = (listRaced \/ \E d \in Host : at[d] = "insert")
     ELSE Goto(h, "dead") /\ UNCHANGED <<slot, listRaced>>
  /\ UNCHANGED <<tables, port, asked, keysRaced, portRaced, net>>

\* Add writes the array and _size, and StartServer's task is started.
AddSession(h) ==
  /\ at[h] = "insert" /\ Goto(h, "start")
  /\ sessions' = [sessions EXCEPT ![slot[h]] = h] /\ size' = slot[h]
  /\ bound' = [bound EXCEPT ![h] = "starting"]
  /\ UNCHANGED <<keys, serverports, admin, port, slot, asked, races, net>>

\* new UdpClient(port): it throws, and ends the task, when the port is taken.
BindUdp(h) ==
  /\ bound[h] = "starting"
  /\ bound' = [bound EXCEPT ![h] =
       IF port[h] # 0 /\ \E d \in Host : bound[d] = "bound" /\ port[d] = port[h]
       THEN "failed" ELSE "bound"]
  /\ UNCHANGED <<at, keys, serverports, sessions, size, admin, port, slot, asked, races, net>>

\* HMET HOST OK with GetAdminConnection.
HostOk(h) ==
  /\ at[h] = "start" /\ Goto(h, "told")
  /\ UNCHANGED <<tables, port, slot, asked, races, net>>

\* HostSerMet sends the host's one datagram, to the port it was told, and goes on.
SendHello(h) ==
  /\ at[h] = "told" /\ Goto(h, "hosting")
  /\ hellos' = hellos \cup {h}
  /\ UNCHANGED <<tables, port, slot, asked, races, early, lost>>

\* The session whose socket has the port h was told, which need not be that of h.
Receiver(h) == {d \in Host : bound[d] = "bound" /\ port[d] = port[h] /\ port[h] # 0}

\* Mutant: SetAdmin takes any datagram, whichever session's key it was encrypted with.
ReceiveHelloAny(h) ==
  /\ h \in hellos /\ hellos' = hellos \ {h}
  /\ admin' = admin \cup Receiver(h)
  /\ early' = IF bound[h] = "starting" THEN early \cup {h} ELSE early
  /\ UNCHANGED <<at, keys, serverports, sessions, size, bound, port, slot, asked, races, lost>>

\* SetAdmin: AIS is set if the key of the session decrypts the datagram.
ReceiveHello(h) ==
  /\ h \in hellos /\ hellos' = hellos \ {h}
  /\ admin' = admin \cup (Receiver(h) \cap {h})
  /\ early' = IF bound[h] = "starting" THEN early \cup {h} ELSE early
  /\ UNCHANGED <<at, keys, serverports, sessions, size, bound, port, slot, asked, races, lost>>

\* The network: nothing confirms the datagram, and the host does not send it again.
LoseHello(h) ==
  /\ h \in hellos /\ hellos' = hellos \ {h} /\ lost' = lost \cup {h}
  /\ UNCHANGED <<at, tables, port, slot, asked, races, early>>
------------------------------------------------------------------------------
\* Mutant: Equals of Session compares nothing.
FoundAny(g) == {i \in 1..size : i = 1}

\* isFreeID: the first session with the id.
Found(g) == {i \in 1..size : /\ sessions[i] # None /\ Id[sessions[i]] = Id[g]
                             /\ \A j \in 1..(i - 1) : Id[sessions[j]] # Id[g]}

\* A request: without a session or a key its task throws, without an admin it is sent to
\* nobody and the task polls for ever.
Request(g) ==
  /\ at[g] = "keyed"
  /\ IF Found(g) = {} \/ g \notin keys \/ \E i \in 1..size : sessions[i] = None
     THEN Goto(g, "dead") /\ UNCHANGED asked
     ELSE LET h == sessions[CHOOSE i \in Found(g) : TRUE] IN
          IF h \in admin THEN Goto(g, "asked") /\ asked' = [asked EXCEPT ![g] = h]
          ELSE Goto(g, "stuck") /\ UNCHANGED asked
  /\ UNCHANGED <<tables, port, slot, races, net>>

HostTask(h) == \/ CheckPorts(h) \/ ChoosePort(h) \/ MarkPort(h) \/ CreateSession(h)
               \/ AddSession(h) \/ HostOk(h) \/ SendHello(h)

Next == \/ \E c \in Client : AddKey(c) \/ KeyOk(c)
        \/ \E h \in Host : HostTask(h) \/ BindUdp(h) \/ ReceiveHello(h) \/ LoseHello(h)
        \/ \E g \in Guest : Request(g)

Spec == Init /\ [][Next]_vars
------------------------------------------------------------------------------
(* Properties.                                                             *)

\* Every variable stays in its set.
TypeOK ==
  /\ at \in [Client -> {"new", "adding", "keyed", "choose", "mark", "create", "insert", "start",
                      "told", "hosting", "asked", "stuck", "dead"}]
  /\ keys \subseteq Client
  /\ serverports \subseteq Port
  /\ port \in [Host -> Port \cup {0}] /\ slot \in [Host -> Slots \cup {0}]
  /\ sessions \in [Slots -> Host \cup {None}] /\ size \in Slots \cup {0}
  /\ bound \in [Host -> {"none", "starting", "bound", "failed"}]
  /\ admin \subseteq Host /\ asked \in [Guest -> Host \cup {None}]
  /\ keysRaced \in BOOLEAN /\ portRaced \in BOOLEAN /\ listRaced \in BOOLEAN
  /\ hellos \subseteq Host /\ early \subseteq Host /\ lost \subseteq Host

\* Two sessions have two ports, unless a second task chose between the choice and the
\* marking of a first (CreateSession, CheckPorts).
PortsDiffer ==
  \A h, k \in Host :
    h # k /\ port[h] # 0 /\ port[h] = port[k] => portRaced

\* The list holds every session whose host was told HOST OK, once, and no gap, unless two
\* Adds overlapped.
ToldIsListed ==
  \/ listRaced
  \/ /\ \A h \in Host : at[h] \in {"start", "told", "hosting"} =>
          Cardinality({i \in 1..size : sessions[i] = h}) = 1
     /\ \A i \in 1..size : sessions[i] # None

\* A request goes to a host of the meeting it names, and of two hosts of one meeting to the
\* one listed first.
RequestReachesItsHost ==
  \A g \in Guest : asked[g] # None =>
    /\ Id[asked[g]] = Id[g] /\ asked[g] \in admin
    /\ \A i, j \in 1..size : i < j /\ sessions[j] = asked[g] => sessions[i] = None
                                \/ Id[sessions[i]] # Id[g] \/ listRaced

\* Only its own host's datagram makes a session's admin, at the port the host was told
\* (SetAdmin).  A host that has sent its one datagram is the admin or will be when it
\* arrives, unless it was lost or came before the socket was bound, as it is never sent
\* again (HostSerMet), no port was left, or two tasks met in one table.
HostBecomesAdmin ==
  /\ \A h \in admin : at[h] = "hosting" /\ bound[h] = "bound" /\ port[h] # 0
  /\ \A h \in Host : at[h] \in {"hosting", "dead"} =>
       \/ h \in admin \cup hellos \cup lost \cup early
       \/ at[h] = "hosting" /\ port[h] = 0
       \/ keysRaced \/ portRaced
==============================================================================
