--------------------------- MODULE SessionServer ---------------------------
(***************************************************************************)
(* One rendezvous session of HexServer (HexServer/Net/SessionServer.cs)    *)
(* with the tasks ConnectionFunctions.Parse starts for the "HMET CONN"     *)
(* requests of clients, and the meeting host at the other end of the       *)
(* session's UDP socket (RtspClientSharp/Hex/NetworkManager.cs).           *)
(*                                                                         *)
(* A request task picks an id, enters it in _adminReply, sends the request *)
(* to the host over UDP and polls the table until the host's answer is in  *)
(* it.  One UDP thread stores the answers, one TCP thread admits clients.  *)
(* The tasks and the two threads share the table, the set of admitted      *)
(* endpoints and the AIS flag without a lock.                              *)
(*                                                                         *)
(* Ciphertexts are abstracted to who can read them: the answer to request  *)
(* r, encrypted with the key of r's client, is the value r itself.         *)
(***************************************************************************)
EXTENDS Integers

CONSTANTS
  Req,          \* the HMET CONN requests, one server task each
  PortOf,       \* the TCP port a request's client will connect from
  AddrOf,       \* the address that client really has
  ServerAddr,   \* the address of the server's end of a control connection
  MaxId,        \* bound on reply ids; Cardinality(Req)-1 is never exceeded
  MaxDup,       \* bound on duplicated datagrams
  Lossy,        \* may the network lose datagrams?
  Absent,       \* no entry under this id in _adminReply
  NullReply     \* an entry whose value is null

ASSUME IdAssumption == MaxId \in Nat /\ MaxDup \in Nat /\ Lossy \in BOOLEAN
ASSUME ReplyAssumption == Absent \notin Req /\ NullReply \notin Req /\ Absent # NullReply

Ids   == 0..MaxId
Modes == {"allow", "deny", "block", "other"}   \* y, n, b, any other key

(* The endpoint the server writes into the request is its own LocalEndPoint's *)
(* address with the client's port; the accept loop sees the client's own.     *)
SentEp(r)   == <<ServerAddr, PortOf[r]>>
RemoteEp(r) == <<AddrOf[r], PortOf[r]>>
Endpoints   == {SentEp(r) : r \in Req} \cup {RemoteEp(r) : r \in Req}

VARIABLES
  bound,      \* the UDP thread has bound listenerControl
  hello,      \* the host's single "HMET AES OK": "unsent", "flight" or "gone"
  admin,      \* the AIS flag of register
  listening,  \* the TCP thread listens
  adminReply, \* _adminReply
  clients,    \* ipClients: "no" entry, entry "open" or entry "blocked"
  pc, id,     \* each task's position and the id it holds
  got,        \* the reply its WaitForRequestFromAdmin has read
  down, up,   \* datagrams to and from the host
  udp,        \* answers the UDP thread is half way through storing (0 or 1)
  joined,     \* outcome of each client's TCP connection
  race,       \* history: tasks whose Dictionary.Add calls overlapped
  dups,       \* history: datagrams the network delivered a second time
  modes       \* history: what the host decided on each request

net    == <<down, up, dups>>
task   == <<pc, id, got, race>>
set_up == <<bound, hello, admin, listening>>
vars   == <<bound, hello, admin, listening, adminReply, clients, pc, id, got,
            down, up, udp, joined, race, dups, modes>>

Request == [req : Req, id : Ids]
Answer  == [req : Req, id : Ids, mode : Modes]

Init ==
  /\ bound = FALSE /\ hello = "unsent" /\ admin = FALSE /\ listening = FALSE
  /\ adminReply = [i \in Ids |-> Absent]
  /\ clients = [e \in Endpoints |-> "no"]
  /\ pc = [r \in Req |-> "idle"] /\ id = [r \in Req |-> 0]
  /\ got = [r \in Req |-> NullReply]
  /\ down = {} /\ up = {} /\ udp = {}
  /\ joined = [r \in Req |-> "no"]
  /\ race = {} /\ dups = 0 /\ modes = [r \in Req |-> {}]

-----------------------------------------------------------------------------
(* Start-up: StartServer's two tasks, HostSerMet's datagram and SetAdmin. *)

BindUdp ==
  /\ ~bound /\ bound' = TRUE
  /\ UNCHANGED <<hello, admin, listening, adminReply, clients, task, net, udp, joined, modes>>

SendHello ==
  /\ hello = "unsent" /\ hello' = "flight"
  /\ UNCHANGED <<bound, admin, listening, adminReply, clients, task, net, udp, joined, modes>>

\* A datagram that reaches the port before it is bound is lost for good:
\* the host sends it once and waits for no confirmation.
SetAdmin ==
  /\ hello = "flight" /\ udp = {}
  /\ hello' = "gone"
  /\ \/ admin' = bound
     \/ Lossy /\ admin' = admin
  /\ UNCHANGED <<bound, listening, adminReply, clients, task, net, udp, joined, modes>>

Listen ==
  /\ admin /\ ~listening /\ listening' = TRUE
  /\ UNCHANGED <<bound, hello, admin, adminReply, clients, task, net, udp, joined, modes>>

-----------------------------------------------------------------------------
(* The request task of r. *)

Goto(r, from, to) == pc[r] = from /\ pc' = [pc EXCEPT ![r] = to]

StartTask(r) ==
  /\ Goto(r, "idle", "probe")
  /\ UNCHANGED <<set_up, adminReply, clients, id, got, race, net, udp, joined, modes>>

\* GetNewIdReply: one ContainsKey(i) of its loop.
Probe(r) ==
  /\ pc[r] = "probe"
  /\ \/ /\ adminReply[id[r]] # Absent /\ id[r] < MaxId
        /\ id' = [id EXCEPT ![r] = @ + 1] /\ pc' = pc
     \/ /\ adminReply[id[r]] = Absent
        /\ pc' = [pc EXCEPT ![r] = "gotId"] /\ id' = id
  /\ UNCHANGED <<set_up, adminReply, clients, got, race, net, udp, joined, modes>>

\* Mutant: the entry is assigned (_adminReply[id] = null), so nothing throws.
AddCheckOverwrites(r) ==
  /\ pc[r] = "gotId" /\ pc' = [pc EXCEPT ![r] = "adding"]
  /\ LET others == {q \in Req : pc[q] = "adding"}
     IN  race' = IF others = {} THEN race ELSE race \cup others \cup {r}
  /\ UNCHANGED <<set_up, adminReply, clients, id, got, net, udp, joined, modes>>

\* Dictionary.Add, first half: the duplicate check, which throws (and ends
\* the task, its exception unobserved) when the key is there already.
AddCheck(r) ==
  /\ pc[r] = "gotId"
  /\ \/ /\ adminReply[id[r]] # Absent
        /\ pc' = [pc EXCEPT ![r] = "dead"] /\ race' = race
     \/ /\ adminReply[id[r]] = Absent
        /\ pc' = [pc EXCEPT ![r] = "adding"]
        /\ LET others == {q \in Req : pc[q] = "adding"}
           IN  race' = IF others = {} THEN race ELSE race \cup others \cup {r}
  /\ UNCHANGED <<set_up, adminReply, clients, id, got, net, udp, joined, modes>>

\* Second half: the entry is linked in.  Two overlapping calls claim the same
\* slot of the table, so either entry may be lost.
AddWrite(r) ==
  /\ Goto(r, "adding", "added")
  /\ \/ adminReply' = [adminReply EXCEPT ![id[r]] = NullReply]
     \/ r \in race /\ adminReply' = adminReply
  /\ UNCHANGED <<set_up, clients, id, got, race, net, udp, joined, modes>>

\* The locked part of SendMessageAdmin.  Without an admin it returns -1,
\* which the task then waits for: no entry has that id.
SendRequest(r) ==
  /\ pc[r] = "added"
  /\ IF admin
       THEN /\ pc' = [pc EXCEPT ![r] = "waiting"]
            /\ down' = down \cup {[req |-> r, id |-> id[r]]}
       ELSE pc' = [pc EXCEPT ![r] = "stuck"] /\ down' = down
  /\ UNCHANGED <<set_up, adminReply, clients, id, got, race, up, dups, udp, joined, modes>>

\* WaitForRequestFromAdmin: TryGetValue finds a reply ...
Poll(r) ==
  /\ Goto(r, "waiting", "removing")
  /\ adminReply[id[r]] \in Req
  /\ got' = [got EXCEPT ![r] = adminReply[id[r]]]
  /\ UNCHANGED <<set_up, adminReply, clients, id, race, net, udp, joined, modes>>

\* ... and after its sleep the entry is removed and the reply sent.
RemoveAndSend(r) ==
  /\ Goto(r, "removing", "done")
  /\ adminReply' = [adminReply EXCEPT ![id[r]] = Absent]
  /\ UNCHANGED <<set_up, clients, id, got, race, net, udp, joined, modes>>

-----------------------------------------------------------------------------
(* The network and the host. *)

\* A delivered datagram leaves the network, unless it was duplicated.
Receive(chan, m, rest) ==
  /\ m \in chan
  /\ \/ rest = chan \ {m} /\ dups' = dups
     \/ dups < MaxDup /\ rest = chan /\ dups' = dups + 1

\* StartRecvAdmin/Parse: the person at the host's console answers; an empty
\* line makes Parse throw and the request stay unanswered.
HostDecide(m) ==
  /\ Receive(down, m, down')
  /\ \/ \E d \in Modes :
          /\ up' = up \cup {[req |-> m.req, id |-> m.id, mode |-> d]}
          /\ modes' = [modes EXCEPT ![m.req] = @ \cup {d}]
     \/ up' = up /\ modes' = modes
  /\ UNCHANGED <<set_up, adminReply, clients, task, udp, joined>>

Lose ==
  /\ Lossy
  /\ \/ \E m \in down : down' = down \ {m} /\ up' = up
     \/ \E m \in up : up' = up \ {m} /\ down' = down
  /\ UNCHANGED <<set_up, adminReply, clients, task, dups, udp, joined, modes>>

-----------------------------------------------------------------------------
(* The UDP thread: DoControlConnCom in its two unlocked steps. *)

\* Mutants: a block removes the entry; every other key admits.
AdmitBlockRemoves(m) ==
  LET e == SentEp(m.req)
  IN  clients' = CASE m.mode = "allow" -> [clients EXCEPT ![e] = "open"]
                   [] m.mode \in {"block", "deny"} -> [clients EXCEPT ![e] = "no"]
                   [] OTHER -> clients

AdmitByDefault(m) ==
  clients' = [clients EXCEPT ![SentEp(m.req)] =
                IF m.mode = "deny" THEN "no"
                ELSE IF m.mode = "block" THEN "blocked" ELSE "open"]

\* ipClients, by the Status of the answer.
Admit(m) ==
  LET e == SentEp(m.req)
  IN  clients' = CASE m.mode = "allow" -> [clients EXCEPT ![e] = "open"]
                   [] m.mode = "block" -> [clients EXCEPT ![e] = "blocked"]
                   [] m.mode = "deny"  -> [clients EXCEPT ![e] = "no"]
                   [] OTHER            -> clients

RecvAnswer(m) ==
  /\ admin /\ udp = {}
  /\ Receive(up, m, up')
  /\ udp' = {m}
  /\ Admit(m)
  /\ UNCHANGED <<set_up, adminReply, task, down, joined, modes>>

\* Only an allowing answer carries AData.
AData(m) == IF m.mode = "allow" THEN m.req ELSE NullReply

\* Mutant: the reply is stored only where one is stored already.
StoreReplyOverReply(m) ==
  /\ m \in udp /\ udp' = {}
  /\ adminReply' = IF adminReply[m.id] \in Req
                     THEN [adminReply EXCEPT ![m.id] = AData(m)]
                     ELSE adminReply
  /\ UNCHANGED <<set_up, clients, task, net, joined, modes>>

\* ContainsKey and the setter are one step: only a repeated answer finds a task between them
\* that has its reply and removes the entry.
StoreReply(m) ==
  /\ m \in udp /\ udp' = {}
  /\ adminReply' = IF adminReply[m.id] # Absent
                     THEN [adminReply EXCEPT ![m.id] = AData(m)]
                     ELSE adminReply
  /\ UNCHANGED <<set_up, clients, task, net, joined, modes>>

-----------------------------------------------------------------------------
(* A client whose ConnMet could decrypt the answer connects to the session. *)

Accept(r) ==
  /\ pc[r] = "done" /\ got[r] = r /\ joined[r] = "no"
  /\ joined' = [joined EXCEPT ![r] =
                  IF ~listening THEN "noListener"
                  ELSE IF clients[RemoteEp(r)] # "no" THEN "accepted" ELSE "closed"]
  /\ UNCHANGED <<set_up, adminReply, clients, task, net, udp, modes>>

-----------------------------------------------------------------------------
TaskStep(r) == \/ Probe(r) \/ AddCheck(r) \/ AddWrite(r)
               \/ SendRequest(r) \/ Poll(r) \/ RemoveAndSend(r)

Next ==
  \/ BindUdp \/ SendHello \/ SetAdmin \/ Listen \/ Lose
  \/ \E r \in Req : StartTask(r) \/ TaskStep(r) \/ Accept(r)
  \/ \E m \in down : HostDecide(m)
  \/ \E m \in up : RecvAnswer(m)
  \/ \E m \in udp : StoreReply(m)

Spec == Init /\ [][Next]_vars

(* The server's threads and tasks are scheduled by the OS and the thread    *)
(* pool; nothing is assumed of the host, of clients or of the network.       *)
Fairness ==
  /\ WF_vars(\E m \in udp : StoreReply(m))
  /\ \A r \in Req : WF_vars(TaskStep(r))

LiveSpec == Spec /\ Fairness

-----------------------------------------------------------------------------
(* Properties.  `race = {}' says that no two Dictionary.Add calls have      *)
(* overlapped so far, `dups = 0' that UDP has not duplicated a datagram:    *)
(* the code guards against neither, and what it promises then is empty.     *)

TypeOK ==
  /\ bound \in BOOLEAN /\ hello \in {"unsent", "flight", "gone"}
  /\ admin \in BOOLEAN /\ listening \in BOOLEAN
  /\ adminReply \in [Ids -> Req \cup {Absent, NullReply}]
  /\ clients \in [Endpoints -> {"no", "open", "blocked"}]
  /\ pc \in [Req -> {"idle", "probe", "gotId", "adding", "added", "waiting",
                     "stuck", "removing", "done", "dead"}]
  /\ id \in [Req -> Ids]
  /\ got \in [Req -> Req \cup {NullReply}]
  /\ down \in SUBSET Request /\ up \in SUBSET Answer /\ udp \in SUBSET Answer
  /\ joined \in [Req -> {"no", "noListener", "closed", "accepted"}]
  /\ race \in SUBSET Req /\ dups \in 0..MaxDup
  /\ modes \in [Req -> SUBSET Modes]

\* The tasks that own an entry of _adminReply, a stuck one for ever.
Owner(r) == pc[r] \in {"added", "waiting", "stuck", "removing"}

\* The reply a request task reads from the shared table is the host's allowing
\* answer to its own request, whatever the tasks, ids and datagrams did before.
OwnAnswer ==
  race = {} /\ dups = 0 =>
    \A r \in Req : got[r] # NullReply => got[r] = r /\ modes[r] = {"allow"}

\* _adminReply holds exactly the entries of the tasks that own one, each task
\* its own: ids are reused by GetNewIdReply only after their owner is through.
EntriesHaveOwners ==
  race = {} =>
    /\ \A r \in Req : Owner(r) => adminReply[id[r]] # Absent
    /\ \A i \in Ids : adminReply[i] # Absent => \E r \in Req : Owner(r) /\ id[r] = i
    /\ \A q, r \in Req : Owner(q) /\ Owner(r) /\ id[q] = id[r] => q = r

Denied(e) == \E q \in Req : SentEp(q) = e /\ "deny" \in modes[q]

\* The accept loop refuses an answered client only when its real address is not
\* the server's own (the request names the server's), when the host denied
\* a request with that endpoint, or when the TCP thread is not listening.
RefusalHasCause ==
  \A r \in Req : joined[r] = "closed" => AddrOf[r] # ServerAddr \/ Denied(SentEp(r))

\* Whatever is lost, reordered or delivered twice, ipClients holds only endpoints
\* the host answered for, open ones with allow and blocked ones with block, and
\* the accept loop lets in only clients connecting from an endpoint so answered.
AdmittedByHost ==
  LET answers(e) == UNION {modes[q] : q \in {r \in Req : SentEp(r) = e}}
  IN  /\ \A e \in Endpoints :
           /\ clients[e] = "open" => "allow" \in answers(e)
           /\ clients[e] = "blocked" => "block" \in answers(e)
      /\ \A r \in Req :
           joined[r] = "accepted" => answers(RemoteEp(r)) \cap {"allow", "block"} # {}

\* An allowing answer that has reached the server ends in its task's reply to the
\* client, whatever else is lost, unless Adds overlapped or a datagram was duplicated.
AllowedIsAnswered ==
  \A r \in Req : (\E m \in udp : m.req = r /\ m.mode = "allow")
                  ~> (pc[r] = "done" \/ race # {} \/ dups # 0)
=============================================================================
