------------------------ MODULE SessionServer_proofs ------------------------
(***************************************************************************)
(* Proofs about SessionServer, for any set of requests, any endpoints and  *)
(* any bounds: type correctness, the ownership of the reply table's        *)
(* entries, and that a request task returns the answer to its own request. *)
(***************************************************************************)
EXTENDS SessionServer, TLAPS

(* Between its duplicate check and its insertion a task is alone, and its  *)
(* id is still free.                                                       *)
AddingInv ==
  race = {} =>
    /\ \A r \in Req : pc[r] = "adding" => adminReply[id[r]] = Absent
    /\ \A q, r \in Req : pc[q] = "adding" /\ pc[r] = "adding" => q = r

EntryInv == EntriesHaveOwners /\ AddingInv

(* Where the single copy of each request is: not sent, on its way down,    *)
(* up, half stored, or in the table under its task's id.                   *)
BeforeSend(r) == pc[r] \in {"idle", "probe", "gotId", "adding", "added", "stuck", "dead"}

InFlight(m) == pc[m.req] = "waiting" /\ id[m.req] = m.id /\ adminReply[m.id] = NullReply

Unsent  == \A r \in Req : BeforeSend(r) => modes[r] = {} /\ got[r] = NullReply
Waiting == \A r \in Req : /\ pc[r] = "added" => adminReply[id[r]] = NullReply
                          /\ pc[r] = "waiting" => got[r] = NullReply
GoingDown == \A m \in down : InFlight(m) /\ modes[m.req] = {}
GoingUp   == \A m \in up \cup udp : InFlight(m) /\ modes[m.req] = {m.mode}
OneCopy   == /\ \A m, n \in up \cup udp : m.req = n.req => m = n
             /\ up \cap udp = {}
Stored == \A i \in Ids : adminReply[i] \in Req =>
            LET q == adminReply[i]
            IN  pc[q] \in {"waiting", "removing"} /\ id[q] = i /\ modes[q] = {"allow"}
Own == \A r \in Req : got[r] # NullReply => got[r] = r /\ modes[r] = {"allow"}

Tokens   == Unsent /\ Waiting /\ GoingDown /\ GoingUp /\ OneCopy /\ Stored /\ Own
TokenInv == race = {} /\ dups = 0 => Tokens

-----------------------------------------------------------------------------
LEMMA TypeInit == Init => TypeOK
<1> SUFFICES ASSUME Init PROVE TypeOK
  OBVIOUS
<1>1. 0 \in Ids /\ 0 \in 0..MaxDup
  BY IdAssumption DEF Ids
<1>2. down \in SUBSET Request /\ up \in SUBSET Answer /\ udp \in SUBSET Answer
  BY DEF Init
<1>3. QED
  BY <1>1, <1>2 DEF Init, TypeOK

(* Every step keeps the variables in their types. *)
LEMMA TypeStep == ASSUME TypeOK, [Next]_vars PROVE TypeOK'
<1> USE IdAssumption DEF TypeOK, task, net, set_up
<1>1. CASE BindUdp
  BY <1>1 DEF BindUdp
<1>2. CASE SendHello
  BY <1>2 DEF SendHello
<1>3. CASE SetAdmin
  BY <1>3 DEF SetAdmin
<1>4. CASE Listen
  BY <1>4 DEF Listen
<1>5. CASE Lose
  BY <1>5 DEF Lose
<1>6. ASSUME NEW r \in Req, StartTask(r) PROVE TypeOK'
  BY <1>6 DEF StartTask, Goto
<1>7. ASSUME NEW r \in Req, Probe(r) PROVE TypeOK'
  <2>1. CASE adminReply[id[r]] # Absent /\ id[r] < MaxId
    <3>1. id[r] + 1 \in Ids
      BY <2>1 DEF Ids
    <3>2. QED
      BY <1>7, <2>1, <3>1 DEF Probe
  <2>2. CASE adminReply[id[r]] = Absent
    BY <1>7, <2>2 DEF Probe
  <2>3. QED
    BY <1>7, <2>1, <2>2 DEF Probe
<1>8. ASSUME NEW r \in Req, AddCheck(r) PROVE TypeOK'
  BY <1>8 DEF AddCheck
<1>9. ASSUME NEW r \in Req, AddWrite(r) PROVE TypeOK'
  BY <1>9 DEF AddWrite, Goto
<1>10. ASSUME NEW r \in Req, SendRequest(r) PROVE TypeOK'
  <2>1. [req |-> r, id |-> id[r]] \in Request
    BY DEF Request
  <2>2. pc' \in [Req -> {"idle", "probe", "gotId", "adding", "added", "waiting",
                        "stuck", "removing", "done", "dead"}]
    BY <1>10 DEF SendRequest
  <2>3. down' \in SUBSET Request
    BY <1>10, <2>1 DEF SendRequest
  <2>4. QED
    BY <1>10, <2>2, <2>3 DEF SendRequest
<1>11. ASSUME NEW r \in Req, Poll(r) PROVE TypeOK'
  BY <1>11 DEF Poll, Goto
<1>12. ASSUME NEW r \in Req, RemoveAndSend(r) PROVE TypeOK'
  BY <1>12 DEF RemoveAndSend, Goto
<1>13. ASSUME NEW r \in Req, Accept(r) PROVE TypeOK'
  BY <1>13 DEF Accept
<1>14. ASSUME NEW m \in down, HostDecide(m) PROVE TypeOK'
  BY <1>14 DEF HostDecide, Receive, Request, Answer
<1>15. ASSUME NEW m \in up, RecvAnswer(m) PROVE TypeOK'
  BY <1>15 DEF RecvAnswer, Receive, Admit, Answer, Endpoints, SentEp
<1>16. ASSUME NEW m \in udp, StoreReply(m) PROVE TypeOK'
  BY <1>16 DEF StoreReply, AData, Answer
<1>17. CASE UNCHANGED vars
  BY <1>17 DEF vars
<1>18. QED
  BY <1>1, <1>2, <1>3, <1>4, <1>5, <1>6, <1>7, <1>8, <1>9, <1>10, <1>11, <1>12,
     <1>13, <1>14, <1>15, <1>16, <1>17 DEF Next, TaskStep

-----------------------------------------------------------------------------
(* As long as no Adds overlap, each entry of the reply table keeps exactly *)
(* one owner and each owner its entry.                                     *)
LEMMA EntryStep == ASSUME TypeOK, EntryInv, [Next]_vars PROVE EntryInv'
<1> USE ReplyAssumption DEF TypeOK, EntryInv, EntriesHaveOwners, AddingInv, Owner, task, net, set_up
<1>1. CASE BindUdp
  BY <1>1 DEF BindUdp
<1>2. CASE SendHello
  BY <1>2 DEF SendHello
<1>3. CASE SetAdmin
  BY <1>3 DEF SetAdmin
<1>4. CASE Listen
  BY <1>4 DEF Listen
<1>5. CASE Lose
  BY <1>5 DEF Lose
<1>6. ASSUME NEW r \in Req, StartTask(r) PROVE EntryInv'
  BY <1>6 DEF StartTask, Goto
<1>7. ASSUME NEW r \in Req, Probe(r) PROVE EntryInv'
  BY <1>7 DEF Probe
<1>8. ASSUME NEW r \in Req, AddCheck(r) PROVE EntryInv'
  BY <1>8 DEF AddCheck
<1>9. ASSUME NEW r \in Req, AddWrite(r) PROVE EntryInv'
  BY <1>9 DEF AddWrite, Goto
<1>10. ASSUME NEW r \in Req, SendRequest(r) PROVE EntryInv'
  BY <1>10 DEF SendRequest
<1>11. ASSUME NEW r \in Req, Poll(r) PROVE EntryInv'
  BY <1>11 DEF Poll, Goto
<1>12. ASSUME NEW r \in Req, RemoveAndSend(r) PROVE EntryInv'
  BY <1>12 DEF RemoveAndSend, Goto
<1>13. ASSUME NEW r \in Req, Accept(r) PROVE EntryInv'
  BY <1>13 DEF Accept
<1>14. ASSUME NEW m \in down, HostDecide(m) PROVE EntryInv'
  BY <1>14 DEF HostDecide
<1>15. ASSUME NEW m \in up, RecvAnswer(m) PROVE EntryInv'
  BY <1>15 DEF RecvAnswer
<1>16. ASSUME NEW m \in udp, StoreReply(m) PROVE EntryInv'
  BY <1>16 DEF StoreReply, AData, Answer
<1>17. CASE UNCHANGED vars
  BY <1>17 DEF vars
<1>18. QED
  BY <1>1, <1>2, <1>3, <1>4, <1>5, <1>6, <1>7, <1>8, <1>9, <1>10, <1>11, <1>12,
     <1>13, <1>14, <1>15, <1>16, <1>17 DEF Next, TaskStep

(* As long as UDP duplicates nothing either, the single copy of a request  *)
(* moves from its task to the host and back under the task's own id.       *)
LEMMA TokenStep ==
  ASSUME TypeOK, race = {}, dups = 0, dups' = 0, EntryInv, Tokens, [Next]_vars
  PROVE  Tokens'
<1> USE ReplyAssumption DEF TypeOK, EntryInv, EntriesHaveOwners, AddingInv, Owner,
        Tokens, BeforeSend, InFlight, task, net, set_up
<1>a. /\ \A m \in down : m.req \in Req /\ m.id \in Ids
      /\ \A m \in up \cup udp : m.req \in Req /\ m.id \in Ids
  BY DEF Request, Answer
<1>b. \A m, n \in down : m.req = n.req => m = n
  BY DEF Request, GoingDown
<1>1. CASE BindUdp
  BY <1>1 DEF BindUdp, Unsent, Waiting, GoingDown, GoingUp, OneCopy, Stored, Own
<1>2. CASE SendHello
  BY <1>2 DEF SendHello, Unsent, Waiting, GoingDown, GoingUp, OneCopy, Stored, Own
<1>3. CASE SetAdmin
  BY <1>3 DEF SetAdmin, Unsent, Waiting, GoingDown, GoingUp, OneCopy, Stored, Own
<1>4. CASE Listen
  BY <1>4 DEF Listen, Unsent, Waiting, GoingDown, GoingUp, OneCopy, Stored, Own
<1>5. CASE Lose
  <2>1. Unsent'
    BY <1>a, <1>5 DEF Lose, Unsent
  <2>2. Waiting'
    BY <1>a, <1>5 DEF Lose, Waiting
  <2>3. GoingDown'
    BY <1>a, <1>5 DEF Lose, GoingDown
  <2>4. GoingUp'
    BY <1>a, <1>5 DEF Lose, GoingUp
  <2>5. OneCopy'
    BY <1>a, <1>5 DEF Lose, OneCopy
  <2>6. Stored'
    BY <1>a, <1>5 DEF Lose, Stored
  <2>7. Own'
    BY <1>a, <1>5 DEF Lose, Own
  <2>8. QED
    BY <2>1, <2>2, <2>3, <2>4, <2>5, <2>6, <2>7
<1>6. ASSUME NEW r \in Req, StartTask(r) PROVE Tokens'
  <2>1. Unsent'
    BY <1>a, <1>6 DEF StartTask, Goto, Unsent
  <2>2. Waiting'
    BY <1>a, <1>6 DEF StartTask, Goto, Waiting
  <2>3. GoingDown'
    BY <1>a, <1>6 DEF StartTask, Goto, GoingDown
  <2>4. GoingUp'
    BY <1>a, <1>6 DEF StartTask, Goto, GoingUp
  <2>5. OneCopy'
    BY <1>a, <1>6 DEF StartTask, Goto, OneCopy
  <2>6. Stored'
    BY <1>a, <1>6 DEF StartTask, Goto, Stored
  <2>7. Own'
    BY <1>a, <1>6 DEF StartTask, Goto, Own
  <2>8. QED
    BY <2>1, <2>2, <2>3, <2>4, <2>5, <2>6, <2>7
<1>7. ASSUME NEW r \in Req, Probe(r) PROVE Tokens'
  <2>1. Unsent'
    BY <1>a, <1>7 DEF Probe, Unsent
  <2>2. Waiting'
    BY <1>a, <1>7 DEF Probe, Waiting
  <2>3. GoingDown'
    BY <1>a, <1>7 DEF Probe, GoingDown
  <2>4. GoingUp'
    BY <1>a, <1>7 DEF Probe, GoingUp
  <2>5. OneCopy'
    BY <1>a, <1>7 DEF Probe, OneCopy
  <2>6. Stored'
    BY <1>a, <1>7 DEF Probe, Stored
  <2>7. Own'
    BY <1>a, <1>7 DEF Probe, Own
  <2>8. QED
    BY <2>1, <2>2, <2>3, <2>4, <2>5, <2>6, <2>7
<1>8. ASSUME NEW r \in Req, AddCheck(r) PROVE Tokens'
  <2>1. Unsent'
    BY <1>a, <1>8 DEF AddCheck, Unsent
  <2>2. Waiting'
    BY <1>a, <1>8 DEF AddCheck, Waiting
  <2>3. GoingDown'
    BY <1>a, <1>8 DEF AddCheck, GoingDown
  <2>4. GoingUp'
    BY <1>a, <1>8 DEF AddCheck, GoingUp
  <2>5. OneCopy'
    BY <1>a, <1>8 DEF AddCheck, OneCopy
  <2>6. Stored'
    BY <1>a, <1>8 DEF AddCheck, Stored
  <2>7. Own'
    BY <1>a, <1>8 DEF AddCheck, Own
  <2>8. QED
    BY <2>1, <2>2, <2>3, <2>4, <2>5, <2>6, <2>7
<1>9. ASSUME NEW r \in Req, AddWrite(r) PROVE Tokens'
  <2>1. Unsent'
    BY <1>a, <1>9 DEF AddWrite, Goto, Unsent
  <2>2. Waiting'
    BY <1>a, <1>9 DEF AddWrite, Goto, Waiting
  <2>3. GoingDown'
    BY <1>a, <1>9 DEF AddWrite, Goto, GoingDown
  <2>4. GoingUp'
    BY <1>a, <1>9 DEF AddWrite, Goto, GoingUp
  <2>5. OneCopy'
    BY <1>a, <1>9 DEF AddWrite, Goto, OneCopy
  <2>6. Stored'
    BY <1>a, <1>9 DEF AddWrite, Goto, Stored
  <2>7. Own'
    BY <1>a, <1>9 DEF AddWrite, Goto, Own
  <2>8. QED
    BY <2>1, <2>2, <2>3, <2>4, <2>5, <2>6, <2>7
<1>10. ASSUME NEW r \in Req, SendRequest(r) PROVE Tokens'
  <2>1. Unsent'
    BY <1>a, <1>10 DEF SendRequest, Unsent
  <2>2. Waiting'
    BY <1>a, <1>10 DEF SendRequest, Waiting, Unsent
  <2>3. GoingDown'
    BY <1>a, <1>10 DEF SendRequest, GoingDown, Unsent, Waiting
  <2>4. GoingUp'
    BY <1>a, <1>10 DEF SendRequest, GoingUp
  <2>5. OneCopy'
    BY <1>a, <1>10 DEF SendRequest, OneCopy
  <2>6. Stored'
    BY <1>a, <1>10 DEF SendRequest, Stored
  <2>7. Own'
    BY <1>a, <1>10 DEF SendRequest, Own
  <2>8. QED
    BY <2>1, <2>2, <2>3, <2>4, <2>5, <2>6, <2>7
<1>11. ASSUME NEW r \in Req, Poll(r) PROVE Tokens'
  <2>1. Unsent'
    BY <1>a, <1>11 DEF Poll, Goto, Unsent
  <2>2. Waiting'
    BY <1>a, <1>11 DEF Poll, Goto, Waiting
  <2>3. GoingDown'
    BY <1>a, <1>11 DEF Poll, Goto, GoingDown, Stored
  <2>4. GoingUp'
    BY <1>a, <1>11 DEF Poll, Goto, GoingUp, Stored
  <2>5. OneCopy'
    BY <1>a, <1>11 DEF Poll, Goto, OneCopy
  <2>6. Stored'
    BY <1>a, <1>11 DEF Poll, Goto, Stored
  <2>7. Own'
    BY <1>a, <1>11 DEF Poll, Goto, Own, Stored
  <2>8. QED
    BY <2>1, <2>2, <2>3, <2>4, <2>5, <2>6, <2>7
<1>12. ASSUME NEW r \in Req, RemoveAndSend(r) PROVE Tokens'
  <2>1. Unsent'
    BY <1>a, <1>12 DEF RemoveAndSend, Goto, Unsent
  <2>2. Waiting'
    BY <1>a, <1>12 DEF RemoveAndSend, Goto, Waiting
  <2>3. GoingDown'
    BY <1>a, <1>12 DEF RemoveAndSend, Goto, GoingDown
  <2>4. GoingUp'
    BY <1>a, <1>12 DEF RemoveAndSend, Goto, GoingUp
  <2>5. OneCopy'
    BY <1>a, <1>12 DEF RemoveAndSend, Goto, OneCopy
  <2>6. Stored'
    BY <1>a, <1>12 DEF RemoveAndSend, Goto, Stored
  <2>7. Own'
    BY <1>a, <1>12 DEF RemoveAndSend, Goto, Own
  <2>8. QED
    BY <2>1, <2>2, <2>3, <2>4, <2>5, <2>6, <2>7
<1>13. ASSUME NEW r \in Req, Accept(r) PROVE Tokens'
  BY <1>13 DEF Accept, Unsent, Waiting, GoingDown, GoingUp, OneCopy, Stored, Own
<1>14. ASSUME NEW m \in down, HostDecide(m) PROVE Tokens'
  <2>a. ASSUME NEW n \in up \cup udp PROVE n.req # m.req
    <3>1. modes[m.req] = {}
      BY DEF GoingDown
    <3>2. modes[n.req] = {n.mode}
      BY DEF GoingUp
    <3>3. modes[n.req] # {}
      BY <3>2, Zenon
    <3>4. QED
      BY <3>1, <3>3, Zenon
  <2>b. \A d : LET a == [req |-> m.req, id |-> m.id, mode |-> d]
                IN  a.req = m.req /\ a.id = m.id /\ a.mode = d
    OBVIOUS
  <2>1. Unsent'
    BY <1>a, <1>14 DEF HostDecide, Receive, Unsent, GoingDown
  <2>2. Waiting'
    BY <1>a, <1>14 DEF HostDecide, Receive, Waiting
  <2>3. GoingDown'
    BY <1>a, <1>b, <1>14 DEF HostDecide, Receive, GoingDown, GoingUp, OneCopy
  <2>4. GoingUp'
    BY <1>a, <1>b, <2>a, <2>b, <1>14 DEF HostDecide, Receive, GoingUp, GoingDown
  <2>5. OneCopy'
    BY <1>a, <1>b, <2>a, <2>b, <1>14 DEF HostDecide, Receive, OneCopy, GoingDown, GoingUp
  <2>6. Stored'
    BY <1>a, <1>14 DEF HostDecide, Receive, Stored, GoingDown
  <2>7. Own'
    BY <1>a, <1>14 DEF HostDecide, Receive, Own, GoingDown, Waiting
  <2>8. QED
    BY <2>1, <2>2, <2>3, <2>4, <2>5, <2>6, <2>7
<1>15. ASSUME NEW m \in up, RecvAnswer(m) PROVE Tokens'
  <2>1. Unsent'
    BY <1>a, <1>15 DEF RecvAnswer, Receive, Unsent
  <2>2. Waiting'
    BY <1>a, <1>15 DEF RecvAnswer, Receive, Waiting
  <2>3. GoingDown'
    BY <1>a, <1>15 DEF RecvAnswer, Receive, GoingDown
  <2>4. GoingUp'
    BY <1>a, <1>15 DEF RecvAnswer, Receive, GoingUp
  <2>5. OneCopy'
    BY <1>a, <1>15 DEF RecvAnswer, Receive, OneCopy
  <2>6. Stored'
    BY <1>a, <1>15 DEF RecvAnswer, Receive, Stored
  <2>7. Own'
    BY <1>a, <1>15 DEF RecvAnswer, Receive, Own
  <2>8. QED
    BY <2>1, <2>2, <2>3, <2>4, <2>5, <2>6, <2>7
<1>16. ASSUME NEW m \in udp, StoreReply(m) PROVE Tokens'
  <2>1. Unsent'
    BY <1>a, <1>16 DEF StoreReply, AData, Unsent
  <2>2. Waiting'
    BY <1>a, <1>16 DEF StoreReply, AData, Waiting, GoingUp
  <2>3. GoingDown'
    BY <1>a, <1>16 DEF StoreReply, AData, GoingDown, GoingUp
  <2>4. GoingUp'
    BY <1>a, <1>16 DEF StoreReply, AData, GoingUp, OneCopy
  <2>5. OneCopy'
    BY <1>a, <1>16 DEF StoreReply, AData, OneCopy
  <2>6. Stored'
    BY <1>a, <1>16 DEF StoreReply, AData, Stored, GoingUp
  <2>7. Own'
    BY <1>a, <1>16 DEF StoreReply, AData, Own
  <2>8. QED
    BY <2>1, <2>2, <2>3, <2>4, <2>5, <2>6, <2>7
<1>17. CASE UNCHANGED vars
  BY <1>17 DEF vars, Unsent, Waiting, GoingDown, GoingUp, OneCopy, Stored, Own
<1>18. QED
  BY <1>1, <1>2, <1>3, <1>4, <1>5, <1>6, <1>7, <1>8, <1>9, <1>10, <1>11, <1>12,
     <1>13, <1>14, <1>15, <1>16, <1>17 DEF Next, TaskStep

-----------------------------------------------------------------------------
(* What the host answered, and what became of it.  An answer under way was  *)
(* given; an endpoint in ipClients was answered for; and a task whose       *)
(* answer has passed ipClients finds its endpoint there, or it was denied.  *)
Given == \A m \in up \cup udp : m.mode \in modes[m.req]

Answered(e, d) == \E q \in Req : SentEp(q) = e /\ d \in modes[q]

Entered ==
  /\ \A e \in Endpoints : clients[e] = "open" => Answered(e, "allow")
  /\ \A e \in Endpoints : clients[e] = "blocked" => Answered(e, "block")
  /\ \A r \in Req : joined[r] = "accepted" =>
       Answered(RemoteEp(r), "allow") \/ Answered(RemoteEp(r), "block")

Passed(r) == \/ \E m \in udp : m.req = r /\ m.mode = "allow"
             \/ \E i \in Ids : adminReply[i] = r
             \/ got[r] = r

Kept == \A r \in Req : Passed(r) => clients[SentEp(r)] # "no" \/ Answered(SentEp(r), "deny")

HostInv == Given /\ Entered /\ Kept /\ RefusalHasCause

LEMMA HostInvInit == Init => HostInv
<1> SUFFICES ASSUME Init PROVE HostInv
  OBVIOUS
<1>1. Given /\ Entered /\ RefusalHasCause
  BY DEF Init, Given, Entered, RefusalHasCause
<1>2. Kept
  BY ReplyAssumption DEF Init, Kept, Passed
<1>3. QED
  BY <1>1, <1>2 DEF HostInv

(* Decisions of the host are not forgotten.                                 *)
LEMMA HostStep == ASSUME TypeOK, HostInv, [Next]_vars PROVE HostInv'
<1> USE ReplyAssumption DEF TypeOK, HostInv, Answered, Denied, task, net, set_up
<1>a. \A r \in Req : SentEp(r) \in Endpoints /\ RemoteEp(r) \in Endpoints
  BY DEF Endpoints
<1>b. \A m \in up \cup udp : m.req \in Req /\ m.id \in Ids
  BY DEF Answer
<1>1. CASE BindUdp
  BY <1>a, <1>b, <1>1 DEF BindUdp, Given, Entered, Kept, Passed, RefusalHasCause
<1>2. CASE SendHello
  BY <1>a, <1>b, <1>2 DEF SendHello, Given, Entered, Kept, Passed, RefusalHasCause
<1>3. CASE SetAdmin
  BY <1>a, <1>b, <1>3 DEF SetAdmin, Given, Entered, Kept, Passed, RefusalHasCause
<1>4. CASE Listen
  BY <1>a, <1>b, <1>4 DEF Listen, Given, Entered, Kept, Passed, RefusalHasCause
<1>5. CASE Lose
  BY <1>a, <1>b, <1>5 DEF Lose, Given, Entered, Kept, Passed, RefusalHasCause
<1>6. ASSUME NEW r \in Req, StartTask(r) PROVE HostInv'
  BY <1>a, <1>b, <1>6 DEF StartTask, Goto, Given, Entered, Kept, Passed, RefusalHasCause
<1>7. ASSUME NEW r \in Req, Probe(r) PROVE HostInv'
  BY <1>a, <1>b, <1>7 DEF Probe, Given, Entered, Kept, Passed, RefusalHasCause
<1>8. ASSUME NEW r \in Req, AddCheck(r) PROVE HostInv'
  BY <1>a, <1>b, <1>8 DEF AddCheck, Given, Entered, Kept, Passed, RefusalHasCause
<1>9. ASSUME NEW r \in Req, AddWrite(r) PROVE HostInv'
  BY <1>a, <1>b, <1>9 DEF AddWrite, Goto, Given, Entered, Kept, Passed, RefusalHasCause
<1>10. ASSUME NEW r \in Req, SendRequest(r) PROVE HostInv'
  BY <1>a, <1>b, <1>10 DEF SendRequest, Given, Entered, Kept, Passed, RefusalHasCause
<1>11. ASSUME NEW r \in Req, Poll(r) PROVE HostInv'
  <2>1. Given'
    BY <1>a, <1>b, <1>11 DEF Poll, Goto, Given
  <2>2. Entered'
    BY <1>a, <1>b, <1>11 DEF Poll, Goto, Entered
  <2>3. Kept'
    BY <1>a, <1>b, <1>11 DEF Poll, Goto, Kept, Passed
  <2>4. RefusalHasCause'
    BY <1>a, <1>b, <1>11 DEF Poll, Goto, RefusalHasCause
  <2>5. QED
    BY <2>1, <2>2, <2>3, <2>4
<1>12. ASSUME NEW r \in Req, RemoveAndSend(r) PROVE HostInv'
  BY <1>a, <1>b, <1>12 DEF RemoveAndSend, Goto, Given, Entered, Kept, Passed, RefusalHasCause
<1>13. ASSUME NEW r \in Req, Accept(r) PROVE HostInv'
  <2>1. Given'
    BY <1>a, <1>b, <1>13 DEF Accept, Given
  <2>2. Entered'
    BY <1>a, <1>b, <1>13 DEF Accept, Entered
  <2>3. Kept'
    BY <1>a, <1>b, <1>13 DEF Accept, Kept, Passed
  <2>4. RefusalHasCause'
    <3>1. AddrOf[r] = ServerAddr => RemoteEp(r) = SentEp(r)
      BY DEF RemoteEp, SentEp
    <3>2. Passed(r)
      BY <1>13 DEF Accept, Passed
    <3>3. joined'[r] = "closed" => clients[RemoteEp(r)] = "no"
      BY <1>13 DEF Accept
    <3>4. joined'[r] = "closed" => AddrOf[r] # ServerAddr \/ Denied(SentEp(r))
      BY <3>1, <3>2, <3>3 DEF Kept
    <3>5. modes' = modes /\ \A q \in Req \ {r} : joined'[q] = joined[q]
      BY <1>13 DEF Accept
    <3>6. QED
      BY <3>4, <3>5 DEF RefusalHasCause
  <2>5. QED
    BY <2>1, <2>2, <2>3, <2>4
<1>14. ASSUME NEW m \in down, HostDecide(m) PROVE HostInv'
  <2>1. Given'
    <3>1. m.req \in Req
      BY DEF Request
    <3>2. CASE up' = up /\ modes' = modes
      BY <1>14, <3>2 DEF HostDecide, Given
    <3>3. ASSUME NEW d \in Modes,
                 up' = up \cup {[req |-> m.req, id |-> m.id, mode |-> d]},
                 modes' = [modes EXCEPT ![m.req] = @ \cup {d}]
          PROVE  Given'
      <4>1. \A q \in Req : modes[q] \subseteq modes'[q]
        BY <3>3
      <4>2. d \in modes'[m.req]
        BY <3>1, <3>3
      <4>3. udp' = udp
        BY <1>14 DEF HostDecide
      <4>4. QED
        BY <1>b, <3>3, <4>1, <4>2, <4>3 DEF Given
    <3>4. QED
      BY <1>14, <3>2, <3>3 DEF HostDecide
  <2>2. Entered'
    BY <1>a, <1>b, <1>14 DEF HostDecide, Receive, Entered
  <2>3. Kept'
    BY <1>a, <1>b, <1>14 DEF HostDecide, Receive, Kept, Passed
  <2>4. RefusalHasCause'
    BY <1>a, <1>b, <1>14 DEF HostDecide, Receive, RefusalHasCause
  <2>5. QED
    BY <2>1, <2>2, <2>3, <2>4
<1>15. ASSUME NEW m \in up, RecvAnswer(m) PROVE HostInv'
  <2>1. Given'
    BY <1>a, <1>b, <1>15 DEF RecvAnswer, Receive, Admit, Given
  <2>2. Entered'
    BY <1>a, <1>b, <1>15 DEF RecvAnswer, Receive, Admit, Entered, Given
  <2>3. Kept'
    BY <1>a, <1>b, <1>15 DEF RecvAnswer, Receive, Admit, Kept, Passed, Given
  <2>4. RefusalHasCause'
    BY <1>a, <1>b, <1>15 DEF RecvAnswer, Receive, Admit, RefusalHasCause, Given
  <2>5. QED
    BY <2>1, <2>2, <2>3, <2>4
<1>16. ASSUME NEW m \in udp, StoreReply(m) PROVE HostInv'
  <2>1. Given'
    BY <1>a, <1>b, <1>16 DEF StoreReply, AData, Given
  <2>2. Entered'
    BY <1>a, <1>b, <1>16 DEF StoreReply, AData, Entered
  <2>3. Kept'
    BY <1>a, <1>b, <1>16 DEF StoreReply, AData, Kept, Passed
  <2>4. RefusalHasCause'
    BY <1>a, <1>b, <1>16 DEF StoreReply, AData, RefusalHasCause
  <2>5. QED
    BY <2>1, <2>2, <2>3, <2>4
<1>17. CASE UNCHANGED vars
  BY <1>17 DEF vars, Given, Entered, Kept, Passed, RefusalHasCause
<1>18. QED
  BY <1>1, <1>2, <1>3, <1>4, <1>5, <1>6, <1>7, <1>8, <1>9, <1>10, <1>11, <1>12,
     <1>13, <1>14, <1>15, <1>16, <1>17 DEF Next, TaskStep

-----------------------------------------------------------------------------
IInv == TypeOK /\ EntryInv /\ TokenInv /\ HostInv

LEMMA InvInit == Init => IInv
<1> SUFFICES ASSUME Init PROVE IInv
  OBVIOUS
<1>1. TypeOK
  BY TypeInit
<1>2. EntryInv
  BY DEF Init, EntryInv, EntriesHaveOwners, AddingInv, Owner
<1>3. Tokens
  BY ReplyAssumption DEF Init, Tokens, Unsent, Waiting, GoingDown, GoingUp, OneCopy, Stored,
       Own, BeforeSend
<1>4. QED
  BY <1>1, <1>2, <1>3, HostInvInit DEF IInv, TokenInv

\* Once Adds have overlapped or a datagram was duplicated, that is on record.
LEMMA HistoryGrows ==
  ASSUME TypeOK, [Next]_vars
  PROVE  (race' = {} => race = {}) /\ (dups' = 0 => dups = 0)
<1> USE DEF TypeOK, task, net
<1>1. ASSUME NEW r \in Req, AddCheck(r) PROVE (race' = {} => race = {}) /\ dups' = dups
  BY <1>1 DEF AddCheck
<1>2. ASSUME NEW m, HostDecide(m) \/ RecvAnswer(m) PROVE race' = race /\ (dups' = 0 => dups = 0)
  BY <1>2, IdAssumption DEF HostDecide, RecvAnswer, Receive
<1>3. CASE \E r \in Req : StartTask(r) \/ Probe(r) \/ AddWrite(r) \/ SendRequest(r) \/ Poll(r)
                         \/ RemoveAndSend(r) \/ Accept(r)
  BY <1>3 DEF StartTask, Probe, AddWrite, SendRequest, Poll, RemoveAndSend, Accept
<1>4. CASE BindUdp \/ SendHello \/ SetAdmin \/ Listen \/ Lose \/ (\E m \in udp : StoreReply(m))
  BY <1>4 DEF BindUdp, SendHello, SetAdmin, Listen, Lose, StoreReply
<1>5. CASE UNCHANGED vars
  BY <1>5 DEF vars
<1>6. QED
  BY <1>1, <1>2, <1>3, <1>4, <1>5 DEF Next, TaskStep

LEMMA InvStep == IInv /\ [Next]_vars => IInv'
<1> SUFFICES ASSUME IInv, [Next]_vars PROVE IInv'
  OBVIOUS
<1>1. TypeOK'
  BY TypeStep DEF IInv
<1>2. EntryInv'
  BY EntryStep DEF IInv
<1>3. TokenInv'
  BY HistoryGrows, TokenStep DEF IInv, TokenInv
<1>4. HostInv'
  BY HostStep DEF IInv
<1>5. QED
  BY <1>1, <1>2, <1>3, <1>4 DEF IInv

THEOREM Invariance == Spec => []IInv
  BY InvInit, InvStep, PTL DEF Spec

(* The session server's state stays within its types (SessionServer.cs:49-73). *)
THEOREM TypeCorrect == Spec => []TypeOK
<1>1. IInv => TypeOK
  BY DEF IInv
<1>2. QED
  BY <1>1, Invariance, PTL

(* While no two Dictionary.Add calls overlap, every entry of _adminReply    *)
(* belongs to exactly one request task, however ids are reused             *)
(* (GetNewIdReply, SendMessageAdmin, WaitForRequestFromAdmin).             *)
THEOREM EntryOwnership == Spec => []EntriesHaveOwners
<1>1. IInv => EntriesHaveOwners
  BY DEF IInv, EntryInv
<1>2. QED
  BY <1>1, Invariance, PTL

(* While moreover UDP duplicates nothing, a request task hands its client   *)
(* the host's allowing answer to its own request and no other, for any      *)
(* number of requests, losses and reorderings.                             *)
THEOREM AnswerIsOwn == Spec => []OwnAnswer
<1>1. IInv => OwnAnswer
  BY DEF IInv, TokenInv, Tokens, Own, OwnAnswer
<1>2. QED
  BY <1>1, Invariance, PTL

(* The accept loop refuses an answered client only for its address, or      *)
(* because the host denied its endpoint; here datagrams may be duplicated   *)
(* and Adds overlap (DoControlConnCom, StartServer).                        *)
THEOREM RefusalsHaveCauses == Spec => []RefusalHasCause
<1>1. IInv => RefusalHasCause
  BY DEF IInv, HostInv
<1>2. QED
  BY <1>1, Invariance, PTL

(* Whatever the network does, ipClients and the accept loop follow answers  *)
(* the host gave.                                                           *)
THEOREM AdmissionIsTheHosts == Spec => []AdmittedByHost
<1>1. IInv => AdmittedByHost
  BY DEF IInv, HostInv, Entered, Answered, AdmittedByHost
<1>2. QED
  BY <1>1, Invariance, PTL

=============================================================================
