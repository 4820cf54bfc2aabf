--------------------------- MODULE RtspClient_proofs ---------------------------
(***************************************************************************)
(* Proofs about RtspClient for any number of tracks and of attempts, over  *)
(* UDP and TCP: why the loop ends, and who closes which socket.  Then,     *)
(* about the assembler of a track's packets, for any packets, any          *)
(* modulus of their numbers and any length of its buffer: no packet is     *)
(* lost, mixed up, held too long or passed out of turn.                    *)
(***************************************************************************)
EXTENDS RtspClient, RtpSequenceAssembler, FiniteSetTheorems, SequenceTheorems, FunctionTheorems, TLAPS

(* A socket of a track is registered, or belongs to the exchange that is    *)
(* setting the track up, or to nobody; Dispose closed what was registered.  *)
SocketsOwned(k) ==
  /\ k.con \in {"setup", "register"} => k.streams < NTracks
  /\ udp \/ k.open \subseteq {Rtsp}
  /\ k.map \subseteq 1..k.streams
  /\ \A t \in k.open \ {Rtsp} :
       t \in k.map \/ t \in k.orphans \/ (k.con \in {"setup", "register"} /\ t = k.streams + 1)
  /\ k.disposed => Rtsp \notin k.open /\ \A t \in k.open : t \in k.map => t \in k.orphans

(* A task ends as canceled only because somebody has cancelled it.          *)
CanceledByToken(k) ==
  /\ k.con = "canceled" => token
  /\ k.rcv = "canceled" => token \/ k.bye

Good(k) == SocketsOwned(k) /\ CanceledByToken(k)

(* Attempts to come have nothing, those given up have been disposed of.     *)
IInv ==
  /\ TypeOK
  /\ \A g \in Gen : Good(client[g])
  /\ \A g \in Gen : g > gen => client[g] = Fresh
  /\ \A g \in Gen : g <= gen /\ g # cur => client[g].disposed
  /\ loop \in {"canceling", "draining"} => token
  /\ EndsOnlyWhenStopped
-----------------------------------------------------------------------------
LEMMA FreshIsClient == Fresh \in InternalClient /\ Good(Fresh)
  BY ClientAssumption
     DEF Fresh, InternalClient, Pending, Good, SocketsOwned, CanceledByToken, Rtsp

LEMMA NotFresh ==
  ASSUME NEW k, \/ k.con # "none" \/ k.rcv # "none" \/ k.open # {}
                \/ \E c \in Chan : k.rx[c] # "none"
  PROVE  k # Fresh
  BY DEF Fresh

LEMMA InvInit == Init => IInv
<1> SUFFICES ASSUME Init PROVE IInv
  OBVIOUS
<1>1. TypeOK
  <2>1. client \in [Gen -> InternalClient]
    BY FreshIsClient DEF Init
  <2>2. 0 \in 0..MaxGen /\ FALSE \in BOOLEAN
    BY ClientAssumption
  <2>3. QED
    BY <2>1, <2>2 DEF Init, TypeOK
<1>2. QED
  BY <1>1, FreshIsClient, ClientAssumption DEF Init, IInv, Gen, EndsOnlyWhenStopped

(* The step of a task of one client: it may not undo a Dispose or a good-bye. *)
Moves(g, k) ==
  /\ k \in InternalClient /\ Good(k)
  /\ k.disposed = client[g].disposed
  /\ client[g].bye => k.bye
  /\ client[g].rcv = "canceled" => k.rcv = "canceled"

LEMMA ClientStep ==
  ASSUME IInv, NEW g \in Gen, NEW k, Moves(g, k), Step(g, k), client[g] # Fresh,
         UNCHANGED <<udp, token, loop, gen, cur>>, anyFrame' \in BOOLEAN
  PROVE  IInv'
<1> USE DEF IInv, Moves, Step
<1>1. TypeOK'
  BY DEF TypeOK
<1>2. g <= gen
  BY DEF TypeOK, Gen
<1>3. \A h \in Gen : client'[h] = IF h = g THEN k ELSE client[h]
  BY DEF TypeOK
<1>4. \A h \in Gen : Good(client[h])'
  BY <1>3 DEF Good, SocketsOwned, CanceledByToken
<1>5. \A h \in Gen : h > gen' => client'[h] = Fresh
  BY <1>2, <1>3 DEF TypeOK, Gen
<1>6. \A h \in Gen : h <= gen' /\ h # cur' => client'[h].disposed
  BY <1>3
<1>7. EndsOnlyWhenStopped'
  BY <1>3 DEF EndsOnlyWhenStopped
<1>8. QED
  BY <1>1, <1>4, <1>5, <1>6, <1>7
-----------------------------------------------------------------------------
(* The helpers of the connecting task keep a client in order.               *)
LEMMA SendGood ==
  ASSUME TypeOK, NEW k \in InternalClient, Good(k), NEW r \in Pending \ {"setup", "register"},
         k.con \notin {"setup", "register"} \/ k.streams + 1 \notin k.open
  PROVE  /\ Send(k, r) \in InternalClient /\ Good(Send(k, r))
         /\ Send(k, r).disposed = k.disposed /\ Send(k, r).bye = k.bye /\ Send(k, r).rcv = k.rcv
<1> DEFINE n == Send(k, r)
<1>1. n = [k EXCEPT !.con = IF token THEN "canceled" ELSE r]
  BY DEF Send
<1>2. n \in InternalClient
  BY DEF Send, InternalClient, Pending
<1> HIDE DEF n
<1>3. /\ n.con = (IF token THEN "canceled" ELSE r)
      /\ n.open = k.open /\ n.map = k.map /\ n.orphans = k.orphans /\ n.streams = k.streams
      /\ n.disposed = k.disposed /\ n.bye = k.bye /\ n.rcv = k.rcv
  BY <1>1 DEF InternalClient
<1>4. Good(n)
  BY <1>3 DEF Good, SocketsOwned, CanceledByToken, Pending
<1>5. QED
  BY <1>2, <1>3, <1>4 DEF n

(* Between two tracks no socket is without an owner.                        *)
Settled(k) ==
  /\ k \in InternalClient
  /\ udp \/ k.open \subseteq {Rtsp}
  /\ k.map \subseteq 1..k.streams
  /\ \A t \in k.open \ {Rtsp} : t \in k.map \/ t \in k.orphans
  /\ k.disposed => Rtsp \notin k.open /\ \A t \in k.open : t \in k.map => t \in k.orphans
  /\ k.rcv = "canceled" => token \/ k.bye

LEMMA SetUpNextGood ==
  ASSUME TypeOK, NEW k, Settled(k)
  PROVE  /\ SetUpNext(k) \in InternalClient /\ Good(SetUpNext(k))
         /\ SetUpNext(k).disposed = k.disposed /\ SetUpNext(k).bye = k.bye
         /\ SetUpNext(k).rcv = k.rcv
<1> DEFINE n == SetUpNext(k)
<1>1. /\ udp \in BOOLEAN /\ token \in BOOLEAN /\ k \in InternalClient
      /\ k.streams \in 0..NTracks
  BY DEF TypeOK, Settled, InternalClient
<1>2. CASE k.streams = NTracks \/ token \/ ~udp
  <2>1. n = [k EXCEPT !.con = IF token THEN "canceled"
                              ELSE IF k.streams = NTracks THEN "play" ELSE "setup"]
    BY <1>1, <1>2 DEF SetUpNext, Send, InternalClient
  <2> HIDE DEF n
  <2>2. n \in InternalClient
    BY <1>1, <2>1 DEF InternalClient, Pending
  <2>3. /\ n.con = IF token THEN "canceled" ELSE IF k.streams = NTracks THEN "play" ELSE "setup"
        /\ n.open = k.open /\ n.map = k.map /\ n.orphans = k.orphans /\ n.streams = k.streams
        /\ n.disposed = k.disposed /\ n.bye = k.bye /\ n.rcv = k.rcv
    BY <1>1, <2>1 DEF InternalClient
  <2>4. Good(n)
    BY <1>1, <2>3, ClientAssumption DEF Good, SocketsOwned, CanceledByToken, Settled
  <2>5. QED
    BY <2>2, <2>3, <2>4 DEF n
<1>3. CASE ~(k.streams = NTracks \/ token \/ ~udp)
  <2>1. n = [k EXCEPT !.con = "setup", !.open = @ \cup {k.streams + 1}]
    BY <1>1, <1>3 DEF SetUpNext, Send, InternalClient
  <2>2. k.streams + 1 \in 1..NTracks /\ k.streams < NTracks
    BY <1>1, <1>3, ClientAssumption
  <2> HIDE DEF n
  <2>3. n \in InternalClient
    <3>1. k.open \cup {k.streams + 1} \subseteq 0..NTracks
      BY <1>1, <2>2, ClientAssumption DEF InternalClient
    <3>2. QED
      BY <1>1, <2>1, <3>1 DEF InternalClient, Pending
  <2>4. /\ n.con = "setup" /\ n.open = k.open \cup {k.streams + 1}
        /\ n.map = k.map /\ n.orphans = k.orphans /\ n.streams = k.streams
        /\ n.disposed = k.disposed /\ n.bye = k.bye /\ n.rcv = k.rcv
    BY <1>1, <2>1 DEF InternalClient
  <2>5. k.streams + 1 # Rtsp /\ k.streams + 1 \notin k.map
    BY <1>1, <2>2 DEF Rtsp, Settled
  <2>6. SocketsOwned(n)
    BY <1>1, <1>3, <2>2, <2>4, <2>5 DEF SocketsOwned, Settled
  <2>7. CanceledByToken(n)
    BY <2>4 DEF CanceledByToken, Settled
  <2>8. QED
    BY <2>3, <2>4, <2>6, <2>7 DEF Good, n
<1>4. QED
  BY <1>2, <1>3

(* So do the tasks that read.                                               *)
LEMMA ReadGood ==
  ASSUME NEW k \in InternalClient, Good(k), NEW c \in Chan,
         NEW r \in {"reading", "handling", "done", "failed"}, NEW n, n = [k EXCEPT !.rx[c] = r]
  PROVE  /\ n \in InternalClient /\ Good(n)
         /\ n.disposed = k.disposed /\ n.bye = k.bye /\ n.rcv = k.rcv
<1>1. n = [k EXCEPT !.rx = [k.rx EXCEPT ![c] = r]]
  BY DEF InternalClient
<1>2. [k.rx EXCEPT ![c] = r] \in [Chan -> {"none", "reading", "handling", "done", "failed"}]
  BY DEF InternalClient
<1>3. n \in InternalClient
  BY <1>1, <1>2 DEF InternalClient
<1>4. /\ n.con = k.con /\ n.open = k.open /\ n.map = k.map /\ n.orphans = k.orphans
      /\ n.streams = k.streams /\ n.disposed = k.disposed /\ n.bye = k.bye /\ n.rcv = k.rcv
  BY <1>1 DEF InternalClient
<1>5. Good(n)
  BY <1>4 DEF Good, SocketsOwned, CanceledByToken
<1>6. QED
  BY <1>3, <1>4, <1>5

LEMMA ByeGood ==
  ASSUME NEW k \in InternalClient, Good(k), NEW b \in BOOLEAN
  PROVE  LET n == [k EXCEPT !.bye = @ \/ b]
         IN  /\ n \in InternalClient /\ Good(n) /\ (k.bye => n.bye)
             /\ n.disposed = k.disposed /\ n.rcv = k.rcv /\ n.rx = k.rx
  BY DEF InternalClient, Good, SocketsOwned, CanceledByToken

LEMMA GivenUpGood ==
  ASSUME TypeOK, NEW k \in InternalClient, Good(k), Awaiting(k)
  PROVE  /\ GivenUp(k) \in InternalClient /\ Good(GivenUp(k))
         /\ GivenUp(k).disposed = k.disposed /\ GivenUp(k).bye = k.bye
         /\ GivenUp(k).rcv = k.rcv
  BY ClientAssumption DEF GivenUp, Awaiting, InternalClient, Good, SocketsOwned, CanceledByToken,
     TypeOK, Pending, Rtsp

LEMMA DisposeGood ==
  ASSUME TypeOK, NEW k \in InternalClient, Good(k)
  PROVE  /\ Dispose(k) \in InternalClient /\ Good(Dispose(k)) /\ Dispose(k).disposed
         /\ Dispose(k).bye = k.bye /\ Dispose(k).rcv = k.rcv /\ Dispose(k).con = k.con
  BY ClientAssumption DEF Dispose, InternalClient, Good, SocketsOwned, CanceledByToken,
     TypeOK, Pending, Rtsp
-----------------------------------------------------------------------------
(* What every task of one client does, whatever answers it or fails it.     *)
TaskMoves(g) ==
  /\ Moves(g, client'[g]) /\ Step(g, client'[g]) /\ client[g] # Fresh
  /\ UNCHANGED <<udp, token, loop, gen, cur>> /\ anyFrame' \in BOOLEAN

LEMMA TaskStep ==
  ASSUME IInv, NEW g \in Gen, Tasks(g) \/ Server(g) \/ \E c \in Chan : Reads(g, c)
  PROVE  TaskMoves(g)
<1> DEFINE k == client[g]
<1>1. k \in InternalClient /\ Good(k) /\ TypeOK /\ client \in [Gen -> InternalClient]
  BY DEF IInv, TypeOK
<1>2. Rtsp \in k.open => ~k.disposed
  BY <1>1 DEF Good, SocketsOwned
<1>3. anyFrame \in BOOLEAN
  BY <1>1 DEF TypeOK
<1>4. TypeOK => udp \in BOOLEAN
  BY DEF TypeOK
<1> USE ClientAssumption, NotFresh DEF TaskMoves, Moves, Step, Answered, Reached
<1>5. ASSUME Dialed(g) PROVE TaskMoves(g)
  <2>1. client' = [client EXCEPT ![g] = Send(k, "options")] /\ k.con \notin {"setup", "register"}
    BY <1>5 DEF Dialed
  <2>2. Moves(g, Send(k, "options"))
    BY <1>1, <2>1, SendGood DEF Pending
  <2>3. QED
    BY <1>1, <1>3, <1>5, <2>1, <2>2 DEF Dialed
<1>6. ASSUME OptionsAnswered(g) PROVE TaskMoves(g)
  <2>1. client' = [client EXCEPT ![g] = Send(k, "describe")] /\ k.con \notin {"setup", "register"}
    BY <1>6 DEF OptionsAnswered
  <2>2. Moves(g, Send(k, "describe"))
    BY <1>1, <2>1, SendGood DEF Pending
  <2>3. QED
    BY <1>1, <1>3, <1>6, <2>1, <2>2 DEF OptionsAnswered
<1>7. ASSUME Described(g) PROVE TaskMoves(g)
  <2>1. client' = [client EXCEPT ![g] = SetUpNext(k)] /\ k.con = "describe"
    BY <1>7 DEF Described
  <2>2. Moves(g, SetUpNext(k))
    <3>1. Settled(k)
      BY <1>1, <2>1 DEF Good, SocketsOwned, CanceledByToken, Settled
    <3>2. QED
      BY <1>1, <3>1, SetUpNextGood
  <2>3. QED
    BY <1>1, <1>3, <1>7, <2>1, <2>2 DEF Described
<1>8. ASSUME SetUpAnswered(g) PROVE TaskMoves(g)
  <2>1. CASE udp
    BY <1>1, <1>3, <1>8, <2>1 DEF SetUpAnswered, InternalClient, Good, SocketsOwned, CanceledByToken, Pending
  <2>2. CASE ~udp
    <3> DEFINE n == [k EXCEPT !.streams = @ + 1]
    <3>1. client' = [client EXCEPT ![g] = SetUpNext(n)] /\ k.con = "setup"
      BY <1>1, <1>8, <2>2, Zenon DEF SetUpAnswered
    <3>2. /\ k.open \subseteq {Rtsp} /\ k.streams + 1 \in 1..NTracks
          /\ k.map \subseteq 1..(k.streams + 1)
      BY <1>1, <2>2, <3>1 DEF Good, SocketsOwned, InternalClient
    <3>3. n \in InternalClient
      BY <1>1, <3>2 DEF InternalClient
    <3>4. /\ n.streams = k.streams + 1 /\ n.open = k.open /\ n.map = k.map
          /\ n.orphans = k.orphans
          /\ n.disposed = k.disposed /\ n.bye = k.bye /\ n.rcv = k.rcv
      BY <1>1 DEF InternalClient
    <3> HIDE DEF n
    <3>5. Settled(n)
      BY <1>1, <3>1, <3>2, <3>3, <3>4 DEF Good, SocketsOwned, CanceledByToken, Settled
    <3>6. Moves(g, SetUpNext(n))
      BY <1>1, <3>4, <3>5, SetUpNextGood
    <3>7. QED
      BY <1>1, <1>3, <1>8, <3>1, <3>6 DEF SetUpAnswered, n
  <2>3. QED
    BY <1>1, <2>1, <2>2 DEF TypeOK
<1>9. ASSUME Register(g) PROVE TaskMoves(g)
  <2> DEFINE t == k.streams + 1
             n == [k EXCEPT !.streams = t, !.map = @ \cup {t},
                            !.orphans = IF k.disposed THEN @ \cup {t} ELSE @]
  <2>1. client' = [client EXCEPT ![g] = SetUpNext(n)] /\ k.con = "register"
    BY <1>9 DEF Register
  <2>2. t \in 1..NTracks /\ k.map \cup {t} \subseteq 1..t
    BY <1>1, <2>1 DEF Good, SocketsOwned, InternalClient
  <2>3. n \in InternalClient
    <3>1. {t} \subseteq 1..NTracks /\ t \in 0..NTracks
      BY <2>2
    <3>2. /\ k.map \cup {t} \in SUBSET (1..NTracks)
          /\ (IF k.disposed THEN k.orphans \cup {t} ELSE k.orphans) \in SUBSET (1..NTracks)
      BY <1>1, <3>1 DEF InternalClient
    <3> HIDE DEF t
    <3>3. QED
      BY <1>1, <3>1, <3>2 DEF InternalClient
  <2>4. /\ n.streams = t /\ n.map = k.map \cup {t}
        /\ n.orphans = (IF k.disposed THEN k.orphans \cup {t} ELSE k.orphans)
        /\ n.open = k.open
        /\ n.disposed = k.disposed /\ n.bye = k.bye /\ n.rcv = k.rcv
    BY <1>1 DEF InternalClient
  <2> HIDE DEF n
  <2>5. Settled(n)
    BY <1>1, <2>1, <2>2, <2>3, <2>4 DEF Good, SocketsOwned, CanceledByToken, Settled
  <2>6. Moves(g, SetUpNext(n))
    BY <1>1, <2>4, <2>5, SetUpNextGood
  <2>7. QED
    BY <1>1, <1>3, <1>9, <2>1, <2>6 DEF Register, n
<1>10. ASSUME RegisterFails(g) PROVE TaskMoves(g)
  <2> DEFINE n == [k EXCEPT !.con = "failed", !.orphans = @ \cup {k.streams + 1}]
  <2>1. client' = [client EXCEPT ![g] = n] /\ k.con = "register"
    BY <1>10 DEF RegisterFails
  <2>2. k.orphans \cup {k.streams + 1} \in SUBSET (1..NTracks)
    BY <1>1, <2>1 DEF Good, SocketsOwned, InternalClient
  <2>3. n \in InternalClient
    BY <1>1, <2>2 DEF InternalClient
  <2>4. /\ n.con = "failed" /\ n.orphans = k.orphans \cup {k.streams + 1}
        /\ n.open = k.open /\ n.map = k.map /\ n.streams = k.streams
        /\ n.disposed = k.disposed /\ n.bye = k.bye /\ n.rcv = k.rcv
    BY <1>1 DEF InternalClient
  <2> HIDE DEF n
  <2>5. Moves(g, n)
    BY <1>1, <2>1, <2>3, <2>4 DEF Good, SocketsOwned, CanceledByToken
  <2>6. QED
    BY <1>1, <1>3, <1>10, <2>1, <2>5 DEF RegisterFails, n
<1>11. ASSUME Playing(g) PROVE TaskMoves(g)
  BY <1>1, <1>3, <1>11 DEF Playing, InternalClient, Good, SocketsOwned, CanceledByToken, Pending
<1>12. ASSUME ConnectionFails(g) PROVE TaskMoves(g)
  <2>1. client' = [client EXCEPT ![g] = GivenUp(k)] /\ Awaiting(k)
    BY <1>12 DEF ConnectionFails
  <2>2. Moves(g, GivenUp(k))
    BY <1>1, <2>1, GivenUpGood
  <2>3. QED
    BY <1>1, <1>3, <1>12, <2>1, <2>2 DEF ConnectionFails, Awaiting, Pending
<1>13. ASSUME Refused(g) PROVE TaskMoves(g)
  <2>1. client' = [client EXCEPT ![g] = GivenUp(k)] /\ Awaiting(k)
    BY <1>13 DEF Refused
  <2>2. Moves(g, GivenUp(k))
    BY <1>1, <2>1, GivenUpGood
  <2>3. QED
    BY <1>1, <1>3, <1>13, <2>1, <2>2 DEF Refused, Awaiting, Pending
<1>14. ASSUME NEW c \in Chan, Packet(g, c) PROVE TaskMoves(g)
  <2>1. client' = [client EXCEPT ![g] = [k EXCEPT !.rx[c] = "handling"]] /\ k.rx[c] = "reading"
    BY <1>14 DEF Packet
  <2>2. Moves(g, [k EXCEPT !.rx[c] = "handling"])
    BY <1>1, ReadGood
  <2>3. QED
    BY <1>1, <1>3, <1>14, <2>1, <2>2 DEF Packet
<1>15. ASSUME NEW c \in Chan, Handle(g, c) PROVE TaskMoves(g)
  <2>1. PICK frame \in BOOLEAN, bye \in BOOLEAN, r \in {"reading", "done", "failed"} :
          /\ anyFrame' = (anyFrame \/ frame)
          /\ client' = [client EXCEPT ![g] =
                          [[k EXCEPT !.bye = @ \/ bye] EXCEPT !.rx[c] = r]]
    BY <1>15 DEF Handle
  <2> DEFINE m == [k EXCEPT !.bye = @ \/ bye]
             n == [m EXCEPT !.rx[c] = r]
  <2>2. /\ m \in InternalClient /\ Good(m) /\ (k.bye => m.bye)
        /\ m.disposed = k.disposed /\ m.rcv = k.rcv
    BY <1>1, ByeGood
  <2>3. client' = [client EXCEPT ![g] = n]
    BY <2>1
  <2> HIDE DEF m
  <2>4. Moves(g, n)
    <3>1. n \in InternalClient /\ Good(n) /\ n.disposed = m.disposed /\ n.bye = m.bye /\ n.rcv = m.rcv
      BY <2>2, ReadGood
    <3> HIDE DEF n
    <3>2. QED
      BY <2>2, <3>1
  <2> HIDE DEF n
  <2>5. anyFrame' \in BOOLEAN
    BY <1>3, <2>1
  <2>6. k.rx[c] = "handling" /\ UNCHANGED <<udp, token, loop, gen, cur>>
    BY <1>15 DEF Handle
  <2>7. QED
    BY <1>1, <2>3, <2>4, <2>5, <2>6
<1>16. ASSUME NEW c \in Chan, ReadFails(g, c) PROVE TaskMoves(g)
  <2>1. client' = [client EXCEPT ![g] = [k EXCEPT !.rx[c] = "failed"]] /\ k.rx[c] = "reading"
    BY <1>16 DEF ReadFails
  <2>2. Moves(g, [k EXCEPT !.rx[c] = "failed"])
    BY <1>1, ReadGood
  <2>3. QED
    BY <1>1, <1>3, <1>16, <2>1, <2>2 DEF ReadFails
<1>17. ASSUME NEW c \in Chan, Unreachable(g, c) PROVE TaskMoves(g)
  <2>1. client' = [client EXCEPT ![g] = [k EXCEPT !.rx[c] = "failed"]] /\ k.rx[c] = "reading"
    BY <1>17 DEF Unreachable
  <2>2. Moves(g, [k EXCEPT !.rx[c] = "failed"])
    BY <1>1, ReadGood
  <2>3. QED
    BY <1>1, <1>3, <1>17, <2>1, <2>2 DEF Unreachable
<1>18. ASSUME StopsWaiting(g) PROVE TaskMoves(g)
  BY <1>1, <1>3, <1>18 DEF StopsWaiting, Linked, InternalClient, Good, SocketsOwned, CanceledByToken, Pending
<1>19. ASSUME KeepAliveDue(g) PROVE TaskMoves(g)
  BY <1>1, <1>3, <1>19 DEF KeepAliveDue, Linked, InternalClient, Good, SocketsOwned, CanceledByToken, Pending
<1>20. ASSUME SendKeepAlive(g) PROVE TaskMoves(g)
  BY <1>1, <1>3, <1>20 DEF SendKeepAlive, Linked, InternalClient, Good, SocketsOwned, CanceledByToken, Pending
<1>21. ASSUME KeptAlive(g) PROVE TaskMoves(g)
  BY <1>1, <1>3, <1>21 DEF KeptAlive, Linked, InternalClient, Good, SocketsOwned, CanceledByToken, Pending
<1>22. ASSUME MediaEnded(g) PROVE TaskMoves(g)
  BY <1>1, <1>3, <1>22 DEF MediaEnded, Linked, InternalClient, Good, SocketsOwned, CanceledByToken, Pending
<1>23. ASSUME TornDown(g) PROVE TaskMoves(g)
  BY <1>1, <1>3, <1>23 DEF TornDown, Linked, InternalClient, Good, SocketsOwned, CanceledByToken, Pending
<1>24. ASSUME AnswerNeverComes(g) PROVE TaskMoves(g)
  BY <1>1, <1>3, <1>24 DEF AnswerNeverComes, Linked, InternalClient, Good, SocketsOwned, CanceledByToken, Pending
<1>25. ASSUME ServerGoes(g) PROVE TaskMoves(g)
  <2> DEFINE n == [k EXCEPT !.up = FALSE]
  <2>1. client' = [client EXCEPT ![g] = n] /\ k.open # {}
    BY <1>25 DEF ServerGoes
  <2>2. Moves(g, n)
    <3>1. n \in InternalClient
      BY <1>1 DEF InternalClient
    <3>2. /\ n.con = k.con /\ n.open = k.open /\ n.map = k.map /\ n.orphans = k.orphans
          /\ n.streams = k.streams /\ n.disposed = k.disposed /\ n.bye = k.bye /\ n.rcv = k.rcv
      BY <1>1 DEF InternalClient
    <3> HIDE DEF n
    <3>3. QED
      BY <1>1, <3>1, <3>2 DEF Good, SocketsOwned, CanceledByToken
  <2>3. QED
    BY <1>1, <1>3, <1>25, <2>1, <2>2 DEF ServerGoes
<1>26. QED
  BY <1>5, <1>6, <1>7, <1>8, <1>9, <1>10, <1>11, <1>12, <1>13, <1>14, <1>15, <1>16, <1>17, <1>18, <1>19, <1>20, <1>21, <1>22, <1>23, <1>24, <1>25
     DEF Tasks, Server, Reads
-----------------------------------------------------------------------------
(* The loop. *)

LEMMA LeaveStep ==
  ASSUME IInv, cur # 0, NEW l \in {"wait", "connect", "done"}, Leave(l),
         l = "done" => token \/ (client[cur].bye /\ client[cur].rcv = "canceled")
  PROVE  IInv'
<1> DEFINE k == Dispose(client[cur])
<1>1. cur = gen /\ cur \in Gen /\ TypeOK
  BY DEF IInv, TypeOK, Gen
<1>2. client[cur] \in InternalClient /\ Good(client[cur])
  BY <1>1 DEF IInv, TypeOK
<1>3. /\ k \in InternalClient /\ Good(k) /\ k.disposed
      /\ k.bye = client[cur].bye /\ k.rcv = client[cur].rcv
  BY <1>1, <1>2, DisposeGood
<1> HIDE DEF k
<1>4. /\ client' = [client EXCEPT ![cur] = k] /\ cur' = 0 /\ loop' = l
      /\ UNCHANGED <<udp, token, gen, anyFrame>>
  BY DEF Leave, Step, k
<1>5. TypeOK'
  BY <1>1, <1>3, <1>4 DEF TypeOK
<1>6. \A h \in Gen : client'[h] = IF h = cur THEN k ELSE client[h]
  BY <1>1, <1>4 DEF TypeOK
<1>7. \A h \in Gen : Good(client[h])'
  BY <1>3, <1>4, <1>6 DEF IInv, Good, SocketsOwned, CanceledByToken
<1>8. \A h \in Gen : h > gen' => client'[h] = Fresh
  BY <1>1, <1>4, <1>6 DEF IInv, Gen
<1>9. \A h \in Gen : h <= gen' /\ h # cur' => client'[h].disposed
  BY <1>3, <1>4, <1>6 DEF IInv
<1>10. EndsOnlyWhenStopped'
  BY <1>1, <1>3, <1>4, <1>6 DEF EndsOnlyWhenStopped
<1>11. QED
  BY <1>4, <1>5, <1>7, <1>8, <1>9, <1>10 DEF IInv

LEMMA LoopStep == ASSUME IInv, Loop PROVE IInv'
<1>1. /\ TypeOK
      /\ loop \notin {"connect", "wait", "done"} => cur # 0 /\ cur \in Gen
      /\ loop \in {"canceling", "draining"} => token
      /\ \A g \in Gen : client[g] \in InternalClient /\ Good(client[g])
  BY DEF IInv, TypeOK, Gen
<1>2. ASSUME UNCHANGED <<udp, token, gen, cur, client>>, anyFrame' \in BOOLEAN, loop' # "done" \/ token,
             loop' \in {"connect", "wait", "done", "receive", "receiving", "canceling", "draining"},
             (cur = 0) <=> (loop' \in {"connect", "wait", "done"}),
             loop' \in {"canceling", "draining"} => token
      PROVE  IInv'
  <2>1. TypeOK'
    BY <1>1, <1>2 DEF TypeOK
  <2>2. EndsOnlyWhenStopped'
    BY <1>2 DEF EndsOnlyWhenStopped
  <2>3. QED
    BY <1>2, <2>1, <2>2 DEF IInv, Good, SocketsOwned, CanceledByToken
<1>3. CASE Connect
  <2> DEFINE k == [Fresh EXCEPT !.con = "dial", !.open = {Rtsp}]
  <2>1. /\ gen + 1 \in Gen /\ gen' = gen + 1 /\ cur' = gen' /\ cur = 0
        /\ client' = [client EXCEPT ![gen + 1] = k]
    BY <1>1, <1>3, ClientAssumption DEF Connect, Step, Gen, TypeOK
  <2>2. k \in InternalClient /\ Good(k)
    <3>1. k \in InternalClient
      <4>1. {Rtsp} \in SUBSET (0..NTracks)
        BY ClientAssumption DEF Rtsp
      <4>2. QED
        BY <4>1, FreshIsClient DEF InternalClient, Pending
    <3>2. /\ k.con = "dial" /\ k.open = {Rtsp} /\ k.map = {} /\ k.streams = 0
          /\ k.disposed = FALSE /\ k.rcv = "none"
      BY DEF Fresh
    <3> HIDE DEF k
    <3>3. QED
      BY <3>1, <3>2 DEF Good, SocketsOwned, CanceledByToken
  <2> HIDE DEF k
  <2>3. TypeOK'
    BY <1>1, <1>3, <2>1, <2>2 DEF Connect, TypeOK, Gen
  <2>4. \A h \in Gen : client'[h] = IF h = gen + 1 THEN k ELSE client[h]
    BY <1>1, <2>1 DEF TypeOK
  <2>5. \A h \in Gen : Good(client[h])'
    BY <1>1, <1>3, <2>2, <2>4 DEF Connect, Good, SocketsOwned, CanceledByToken
  <2>6. /\ \A h \in Gen : h > gen' => client'[h] = Fresh
        /\ \A h \in Gen : h <= gen' /\ h # cur' => client'[h].disposed
    BY <1>1, <2>1, <2>4 DEF IInv, TypeOK, Gen
  <2>7. EndsOnlyWhenStopped'
    BY <1>3 DEF Connect, EndsOnlyWhenStopped
  <2>8. QED
    BY <1>3, <2>3, <2>5, <2>6, <2>7 DEF Connect, IInv
<1>4. CASE Connected
  <2>1. CASE loop' = "receive" /\ UNCHANGED <<udp, token, gen, cur, anyFrame, client>>
    BY <1>1, <1>2, <1>4, <2>1 DEF Connected, TypeOK
  <2>2. CASE Leave("wait")
    BY <1>1, <1>4, <2>2, LeaveStep DEF Connected
  <2>3. CASE client[cur].con = "canceled" /\ Leave("done")
    BY <1>1, <1>4, <2>3, LeaveStep DEF Connected, Good, CanceledByToken
  <2>4. QED
    BY <1>4, <2>1, <2>2, <2>3 DEF Connected
<1>5. CASE ConnectTimeout
  BY <1>1, <1>5, LeaveStep DEF ConnectTimeout
<1>6. CASE ConnectCanceled
  BY <1>1, <1>6, LeaveStep DEF ConnectCanceled
<1>7. CASE Canceled
  BY <1>1, <1>2, <1>7 DEF Canceled, TypeOK
<1>8. CASE RetryDelay
  BY <1>1, <1>2, <1>8 DEF RetryDelay, TypeOK
<1>9. CASE Receive
  <2>1. cur \in Gen /\ cur = gen /\ cur # 0
    BY <1>1, <1>9 DEF Receive, TypeOK
  <2> DEFINE rx == [c \in Chan |-> CASE c \notin Used -> "none"
                                     [] c \in Used /\ Linked(client[cur]) -> "done"
                                     [] OTHER -> "reading"]
  <2>2. PICK rcv \in {"watch", "await"} :
               client' = [client EXCEPT ![cur] = [client[cur] EXCEPT !.rx = rx, !.rcv = rcv]]
    BY <1>9 DEF Receive, Step
  <2>3. rx \in [Chan -> {"none", "reading", "handling", "done", "failed"}]
    OBVIOUS
  <2> HIDE DEF rx
  <2> DEFINE k == [client[cur] EXCEPT !.rx = rx, !.rcv = rcv]
  <2>4. k \in InternalClient
    BY <1>1, <2>1, <2>3 DEF InternalClient
  <2>5. /\ k.con = client[cur].con /\ k.open = client[cur].open /\ k.map = client[cur].map
        /\ k.orphans = client[cur].orphans /\ k.streams = client[cur].streams
        /\ k.disposed = client[cur].disposed /\ k.rcv = rcv
    BY <1>1, <2>1 DEF InternalClient
  <2>6. client' = [client EXCEPT ![cur] = k]
    BY <2>2
  <2> HIDE DEF k
  <2>7. Good(k)
    BY <1>1, <2>1, <2>5 DEF Good, SocketsOwned, CanceledByToken
  <2>8. /\ loop' = "receiving" /\ loop = "receive" /\ anyFrame' = FALSE
        /\ UNCHANGED <<udp, token, gen, cur>>
    BY <1>9 DEF Receive
  <2>9. TypeOK'
    BY <1>1, <2>1, <2>4, <2>6, <2>8 DEF TypeOK
  <2>10. \A h \in Gen : client'[h] = IF h = cur THEN k ELSE client[h]
    BY <1>1, <2>6 DEF TypeOK
  <2>11. \A h \in Gen : Good(client[h])'
    BY <1>1, <2>7, <2>8, <2>10 DEF Good, SocketsOwned, CanceledByToken
  <2>12. /\ \A h \in Gen : h > gen' => client'[h] = Fresh
         /\ \A h \in Gen : h <= gen' /\ h # cur' => client'[h].disposed
    BY <2>1, <2>8, <2>10 DEF IInv, Gen
  <2>13. QED
    BY <2>8, <2>9, <2>11, <2>12 DEF IInv, EndsOnlyWhenStopped
<1>10. CASE ReceiveEnded
  <2>1. CASE Leave("connect") \/ Leave("wait")
    BY <1>1, <1>10, <2>1, LeaveStep DEF ReceiveEnded
  <2>2. CASE client[cur].rcv = "canceled" /\ Leave("done")
    BY <1>1, <1>10, <2>2, LeaveStep DEF ReceiveEnded, Good, CanceledByToken
  <2>3. QED
    BY <1>10, <2>1, <2>2 DEF ReceiveEnded
<1>11. CASE ReceiveTimeout
  <2>1. CASE Leave("wait")
    BY <1>1, <1>11, <2>1, LeaveStep DEF ReceiveTimeout
  <2>2. CASE anyFrame' = FALSE /\ UNCHANGED <<udp, token, loop, gen, cur, client>>
    BY <1>1, <1>2, <1>11, <2>2 DEF ReceiveTimeout, TypeOK
  <2>3. QED
    BY <1>11, <2>1, <2>2 DEF ReceiveTimeout
<1>12. CASE ReceiveCanceled
  BY <1>1, <1>2, <1>12 DEF ReceiveCanceled, TypeOK
<1>13. CASE CancelTimeout
  <2> DEFINE k == Dispose(client[cur])
  <2>1. cur \in Gen /\ cur = gen /\ cur # 0
    BY <1>1, <1>13 DEF CancelTimeout, TypeOK
  <2>2. k \in InternalClient /\ Good(k)
    BY <1>1, <2>1, DisposeGood
  <2>3. /\ client' = [client EXCEPT ![cur] = k] /\ loop' = "draining" /\ loop = "canceling"
        /\ UNCHANGED <<udp, token, gen, cur, anyFrame>>
    BY <1>13 DEF CancelTimeout, Step
  <2> HIDE DEF k
  <2>4. TypeOK'
    BY <1>1, <2>1, <2>2, <2>3 DEF TypeOK
  <2>5. \A h \in Gen : client'[h] = IF h = cur THEN k ELSE client[h]
    BY <1>1, <2>3 DEF TypeOK
  <2>6. \A h \in Gen : Good(client[h])'
    BY <1>1, <2>2, <2>3, <2>5 DEF Good, SocketsOwned, CanceledByToken
  <2>7. /\ \A h \in Gen : h > gen' => client'[h] = Fresh
        /\ \A h \in Gen : h <= gen' /\ h # cur' => client'[h].disposed
    BY <2>1, <2>3, <2>5 DEF IInv, Gen
  <2>8. QED
    BY <2>3, <2>4, <2>6, <2>7 DEF IInv, EndsOnlyWhenStopped
<1>14. CASE Drained
  BY <1>1, <1>14, LeaveStep DEF Drained
<1>15. QED
  BY <1>3, <1>4, <1>5, <1>6, <1>7, <1>8, <1>9, <1>10, <1>11, <1>12, <1>13, <1>14 DEF Loop

-----------------------------------------------------------------------------
LEMMA InvStep == ASSUME IInv, [Next]_vars PROVE IInv'
<1>1. CASE Loop
  BY <1>1, LoopStep
<1>2. CASE Stop
  <2>1. token' = TRUE /\ UNCHANGED <<udp, loop, gen, cur, anyFrame, client>>
    BY <1>2 DEF Stop
  <2>2. TypeOK'
    BY <2>1 DEF IInv, TypeOK
  <2>3. QED
    BY <2>1, <2>2 DEF IInv, Good, SocketsOwned, CanceledByToken, EndsOnlyWhenStopped
<1>3. ASSUME NEW g \in Gen, Tasks(g) \/ Server(g) \/ \E c \in Chan : Reads(g, c) PROVE IInv'
  <2> DEFINE k == client'[g]
  <2>1. TaskMoves(g)
    BY <1>3, TaskStep
  <2> HIDE DEF k
  <2>2. Moves(g, k) /\ Step(g, k) /\ client[g] # Fresh
    BY <2>1 DEF TaskMoves, k
  <2>3. QED
    BY <2>1, <2>2, ClientStep DEF TaskMoves
<1>4. CASE UNCHANGED vars
  BY <1>4 DEF vars, IInv, TypeOK, Good, SocketsOwned, CanceledByToken, EndsOnlyWhenStopped
<1>5. QED
  BY <1>1, <1>2, <1>3, <1>4 DEF Next

LEMMA InvHolds == Spec => []IInv
  BY InvInit, InvStep, PTL DEF Spec

(* Every variable keeps its type, for any number of tracks and attempts.    *)
THEOREM TypeCorrect == Spec => []TypeOK
<1>1. IInv => TypeOK
  BY DEF IInv
<1>2. QED
  BY <1>1, InvHolds, PTL

(* The loop of RawFramesSource ends only because its user stopped it, or in *)
(* the race of a BYE with a keep-alive request.                             *)
THEOREM LoopEndsForCause == Spec => []EndsOnlyWhenStopped
<1>1. IInv => EndsOnlyWhenStopped
  BY DEF IInv
<1>2. QED
  BY <1>1, InvHolds, PTL

(* An attempt that was given up leaves no socket open but those of a track  *)
(* whose set-up failed after its answer or ended after Dispose.             *)
THEOREM SocketsAreClosed == Spec => []NothingLeaks
<1>1. IInv => NothingLeaks
  <2> SUFFICES ASSUME IInv, NEW g \in Gen \ {cur}, client[g].con \notin Pending
               PROVE  client[g].open \subseteq client[g].orphans
    BY DEF NothingLeaks
  <2>1. CASE g > gen
    BY <2>1 DEF IInv, Fresh
  <2>2. CASE g <= gen
    <3>1. client[g].disposed /\ SocketsOwned(client[g])
      BY <2>2 DEF IInv, Good
    <3>2. QED
      BY <3>1 DEF SocketsOwned, Pending
  <2>3. QED
    BY <2>1, <2>2 DEF IInv, TypeOK, Gen
<1>2. QED
  BY <1>1, InvHolds, PTL
-----------------------------------------------------------------------------
(* The assembler of a track's packets. Loops, and what the operators on sequences do. *)

LEMMA Least ==
  ASSUME NEW T, T \subseteq Nat, T # {}
  PROVE  \E m \in T : \A n \in T : m <= n
<1> DEFINE Below == {0..m : m \in T}
<1>1. Below \subseteq FiniteSubsetsOf(Nat) /\ Below # {}
  <2>1. \A m \in T : 0..m \in SUBSET Nat /\ IsFiniteSet(0..m)
    BY FS_Interval
  <2> QED
    BY <2>1 DEF FiniteSubsetsOf
<1>2. \E x \in Below : \A y \in Below : ~(<<y, x>> \in StrictSubsetOrdering(Nat))
  <2> HIDE DEF Below
  <2> QED
    BY <1>1, WFMin, FS_StrictSubsetOrderingWellFounded
<1>3. PICK m \in T : \A y \in Below : ~(<<y, 0..m>> \in StrictSubsetOrdering(Nat))
  BY <1>2
<1>4. \A n \in T : ~(n < m)
  <2> SUFFICES ASSUME NEW n \in T, n < m
               PROVE  FALSE
    OBVIOUS
  <2>1. /\ 0..n \subseteq 0..m /\ m \in 0..m /\ m \notin 0..n
        /\ 0..m \subseteq Nat /\ 0..n \subseteq Nat
    OBVIOUS
  <2>2. <<0..n, 0..m>> \in StrictSubsetOrdering(Nat)
    BY <2>1 DEF StrictSubsetOrdering
  <2> QED
    BY <1>3, <2>2
<1> QED
  BY <1>4

\* What a pass through a loop preserves holds after each of n passes.
LEMMA Iterated ==
  ASSUME NEW n \in Nat, NEW A, NEW f, f[0] \in A[0],
         \A k \in 1..n : f[k-1] \in A[k-1] => f[k] \in A[k]
  PROVE  \A k \in 0..n : f[k] \in A[k]
<1> DEFINE T == {k \in 0..n : f[k] \notin A[k]}
<1> SUFFICES ASSUME T # {}
             PROVE  FALSE
  OBVIOUS
<1>1. \E m \in T : \A k \in T : m <= k
  <2>1. T \subseteq Nat
    OBVIOUS
  <2> HIDE DEF T
  <2> QED
    BY <2>1, Least
<1> PICK m \in T : \A k \in T : m <= k
  BY <1>1
<1>2. m \in 1..n /\ m-1 \in 0..n
  OBVIOUS
<1>3. m-1 \notin T
  BY <1>2
<1> QED
  BY <1>2, <1>3

\* A loop of n passes has a result.
IsLoop(f, n, F, a) == f = [k \in 0..n |-> IF k = 0 THEN a ELSE F[k][f[k-1]]]

LEMMA LoopEnds ==
  ASSUME NEW n \in Nat, NEW F, NEW a
  PROVE  \E f : IsLoop(f, n, F, a)
<1> DEFINE Runs(f, m) == IsLoop(f, m, F, a)
           T == {m \in 0..n : ~\E f : Runs(f, m)}
<1> SUFFICES ASSUME T # {}
             PROVE  FALSE
  BY DEF T
<1>1. \E m \in T : \A k \in T : m <= k
  <2>1. T \subseteq Nat
    OBVIOUS
  <2> HIDE DEF T
  <2> QED
    BY <2>1, Least
<1> PICK m \in T : \A k \in T : m <= k
  BY <1>1
<1>2. m # 0
  <2>1. Runs([k \in 0..0 |-> a], 0)
    BY DEF IsLoop
  <2> QED
    BY <2>1
<1>3. m-1 \in 0..n /\ m-1 \notin T /\ m \in 1..n
  BY <1>2
<1>4. PICK g : Runs(g, m-1)
  BY <1>3
<1> DEFINE h == [k \in 0..m |-> IF k = m THEN F[m][g[m-1]] ELSE g[k]]
<1>5. Runs(h, m)
  <2>1. \A k \in 0..m : h[k] = IF k = 0 THEN a ELSE F[k][h[k-1]]
    <3> TAKE k \in 0..m
    <3>1. CASE k = m
      <4>1. h[m-1] = g[m-1]
        BY <1>3
      <4> QED
        BY <1>2, <3>1, <4>1
    <3>2. CASE k # m /\ k # 0
      <4>1. k \in 0..(m-1) /\ k-1 \in 0..m /\ k-1 # m
        BY <1>3, <3>2
      <4>2. h[k] = g[k] /\ h[k-1] = g[k-1]
        BY <3>2, <4>1
      <4> QED
        BY <1>4, <3>2, <4>1, <4>2 DEF IsLoop
    <3>3. CASE k = 0
      BY <1>2, <1>3, <1>4, <3>3 DEF IsLoop
    <3> QED
      BY <3>1, <3>2, <3>3
  <2> QED
    BY <2>1 DEF IsLoop
<1> QED
  BY <1>5

LEMMA Removed ==
  ASSUME NEW S, NEW s \in Seq(S), NEW i \in 1..Len(s)
  PROVE  /\ RemoveAt(s, i) \in Seq(S)
         /\ Len(RemoveAt(s, i)) = Len(s) - 1
         /\ \A j \in 1..(Len(s) - 1) :
              RemoveAt(s, i)[j] = IF j < i THEN s[j] ELSE s[j+1]
<1> DEFINE l == SubSeq(s, 1, i-1)
           r == SubSeq(s, i+1, Len(s))
<1>1. /\ l \in Seq(S) /\ Len(l) = i-1
      /\ \A j \in 1..(i-1) : l[j] = s[j]
  BY SubSeqProperties, ElementOfSeq
<1>2. /\ r \in Seq(S) /\ Len(r) = Len(s) - i
      /\ \A j \in 1..(Len(s) - i) : r[j] = s[i+j]
  BY SubSeqProperties, ElementOfSeq
<1>3. \A j \in 1..(i-1) + (Len(s) - i) : (l \o r)[j] = IF j <= i-1 THEN l[j] ELSE r[j-(i-1)]
  <2> HIDE DEF l, r
  <2> QED
    BY <1>1, <1>2, ConcatProperties
<1>4. l \o r \in Seq(S) /\ Len(l \o r) = Len(s) - 1
  <2> HIDE DEF l, r
  <2>1. l \o r \in Seq(S) /\ Len(l \o r) = Len(l) + Len(r)
    BY <1>1, <1>2, ConcatProperties, Zenon
  <2> QED
    BY <1>1, <1>2, <2>1
<1>5. \A j \in 1..(Len(s) - 1) : (l \o r)[j] = IF j < i THEN s[j] ELSE s[j+1]
  <2> TAKE j \in 1..(Len(s) - 1)
  <2> HIDE DEF l, r
  <2>1. Len(s) \in Nat /\ j \in 1..(i-1) + (Len(s) - i)
    OBVIOUS
  <2>2. CASE j < i
    <3>1. j \in 1..(i-1)
      BY <2>2
    <3> QED
      BY <1>1, <1>3, <2>1, <2>2, <3>1
  <2>3. CASE ~(j < i)
    <3>1. j-(i-1) \in 1..(Len(s) - i) /\ i + (j-(i-1)) = j+1 /\ ~(j <= i-1)
      BY <2>1, <2>3
    <3> QED
      BY <1>2, <1>3, <2>1, <2>3, <3>1
  <2> QED
    BY <2>2, <2>3
<1>6. RemoveAt(s, i) = l \o r
  BY DEF RemoveAt
<1> HIDE DEF l, r
<1> QED
  BY <1>4, <1>5, <1>6

LEMMA Fronts ==
  ASSUME NEW S, NEW s \in Seq(S), s # <<>>
  PROVE  /\ Front(s) \in Seq(S) /\ Len(Front(s)) = Len(s) - 1
         /\ \A j \in 1..(Len(s) - 1) : Front(s)[j] = s[j]
<1>1. Len(s) \in Nat /\ Len(s) > 0 /\ Len(s) - 1 \in Int
  BY EmptySeq
<1>2. \A j \in 1..(Len(s) - 1) : s[j] \in S
  BY <1>1, ElementOfSeq
<1>3. /\ SubSeq(s, 1, Len(s)-1) \in Seq(S)
      /\ Len(SubSeq(s, 1, Len(s)-1)) = IF 1 <= Len(s)-1 THEN Len(s)-1-1+1 ELSE 0
      /\ \A j \in 1..(Len(s)-1-1+1) : SubSeq(s, 1, Len(s)-1)[j] = s[1+j-1]
  BY <1>1, <1>2, SubSeqProperties
<1>4. Front(s) = SubSeq(s, 1, Len(s)-1)
  BY DEF Front
<1> DEFINE f == SubSeq(s, 1, Len(s)-1)
<1>5. Len(f) = Len(s) - 1
  <2>1. Len(f) = IF 1 <= Len(s)-1 THEN Len(s)-1-1+1 ELSE 0
    BY <1>3
  <2>2. \A n \in Nat : n > 0 => (IF 1 <= n-1 THEN n-1-1+1 ELSE 0) = n-1
    OBVIOUS
  <2> QED
    BY <1>1, <2>1, <2>2, Zenon
<1>6. \A j \in 1..(Len(s) - 1) : f[j] = s[j]
  <2> TAKE j \in 1..(Len(s) - 1)
  <2>1. j \in 1..(Len(s)-1-1+1) /\ 1+j-1 = j
    BY <1>1
  <2> QED
    BY <1>3, <2>1
<1> HIDE DEF f
<1> QED
  BY <1>3, <1>4, <1>5, <1>6 DEF f

-----------------------------------------------------------------------------
(* Sequence numbers. *)

LEMMA ModIs ==
  ASSUME NEW m \in Nat, m > 0, NEW z \in Nat
  PROVE  /\ z % m \in 0..(m-1)
         /\ z < m => z % m = z
         /\ z >= m /\ z < 2 * m => z % m = z - m
  OBVIOUS

LEMMA Remainder ==
  ASSUME NEW m \in Nat, m > 0, NEW q \in Nat, NEW r \in 0..(m-1)
  PROVE  (m * q + r) % m = r
  BY SMTT(30)

LEMMA ModAdd ==
  ASSUME NEW m \in Nat, m > 0, NEW l \in Nat, NEW d \in Nat, d < m
  PROVE  (l + d) % m = IF (l % m) + d < m THEN (l % m) + d ELSE (l % m) + d - m
<1> DEFINE q == l \div m
           r == l % m
<1>1. q \in Nat /\ r \in 0..(m-1) /\ l = m * q + r
  OBVIOUS
<1> HIDE DEF q, r
<1>2. CASE r + d < m
  <2>1. l + d = m * q + (r + d) /\ r + d \in 0..(m-1)
    BY <1>1, <1>2
  <2>2. (m * q + (r + d)) % m = r + d
    BY <1>1, <2>1, Remainder
  <2> QED
    BY <1>2, <2>1, <2>2 DEF r
<1>3. CASE ~(r + d < m)
  <2>1. l + d = m * (q+1) + (r + d - m) /\ r + d - m \in 0..(m-1) /\ q+1 \in Nat
    BY <1>1, <1>3
  <2>2. (m * (q+1) + (r + d - m)) % m = r + d - m
    BY <2>1, Remainder
  <2> QED
    BY <1>3, <2>1, <2>2 DEF r
<1> QED
  BY <1>2, <1>3

LEMMA Cycle ==
  ASSUME Constants
  PROVE  /\ Modulus \in Nat /\ MaxCorrection \in Nat /\ MaxCorrection >= 1
         /\ Modulus > MaxCorrection + 1 /\ Modulus > 0
<1>1. Modulus \in Nat /\ MaxCorrection \in Nat \ {0} /\ Modulus > MaxCorrection + 1
  BY DEF Constants
<1> QED
  BY <1>1

LEMMA Arrivals ==
  ASSUME Constants, NEW x \in Arrival
  PROVE  /\ x.pos \in Position /\ x.pos \in Nat /\ x.at \in Nat
         /\ Seq16(x) \in 0..(Modulus-1)
<1>1. x.pos \in Position /\ x.at \in Nat /\ Position \subseteq Nat
  BY DEF Constants, Arrival
<1>2. x.pos % Modulus \in 0..(Modulus-1)
  BY <1>1, Cycle, ModIs
<1> QED
  BY <1>1, <1>2 DEF Seq16

LEMMA DeltaIs ==
  ASSUME Constants, NEW x \in 0..(Modulus-1), NEW y \in 0..(Modulus-1)
  PROVE  /\ Delta(x, y) \in 0..(Modulus-1)
         /\ Delta(x, y) = IF x >= y THEN x - y ELSE x + Modulus - y
<1>1. Modulus \in Nat /\ Modulus > 0
  BY Cycle
<1>2. x + Modulus - y \in Nat /\ x + Modulus - y < 2 * Modulus
  BY <1>1
<1> QED
  BY <1>1, <1>2, ModIs DEF Delta

\* If y lies between z and x, numbers count on from z to y, and from y to x.
LEMMA DeltaFrom ==
  ASSUME Constants,
         NEW x \in 0..(Modulus-1), NEW y \in 0..(Modulus-1), NEW z \in 0..(Modulus-1),
         Delta(y, z) <= Delta(x, z)
  PROVE  Delta(x, y) = Delta(x, z) - Delta(y, z)
<1> DEFINE Less(p, q) == IF p >= q THEN p - q ELSE p + Modulus - q
<1>1. /\ Delta(y, z) = Less(y, z) /\ Delta(x, z) = Less(x, z)
      /\ Delta(x, y) = Less(x, y)
  BY DeltaIs
<1>2. Modulus \in Nat
  BY Cycle
<1>3. Less(y, z) <= Less(x, z) => Less(x, y) = Less(x, z) - Less(y, z)
  BY <1>2
<1> QED
  BY <1>1, <1>3

\* The difference of the numbers is that of the positions, if it is less than a cycle.
LEMMA DeltaOfPositions ==
  ASSUME Constants, NEW x \in Arrival, NEW y \in Arrival,
         y.pos <= x.pos, x.pos < y.pos + Modulus
  PROVE  Delta(Seq16(x), Seq16(y)) = x.pos - y.pos
<1>1. Modulus \in Nat /\ Modulus > 0 /\ x.pos \in Nat /\ y.pos \in Nat
  BY Cycle, Arrivals
<1> DEFINE n == y.pos % Modulus
           k == x.pos % Modulus
           d == x.pos - y.pos
<1>2. d \in Nat /\ d < Modulus /\ y.pos + d = x.pos
  BY <1>1
<1>3. n \in 0..(Modulus-1) /\ k \in 0..(Modulus-1)
  BY <1>1, ModIs
<1>4. (y.pos + d) % Modulus = IF n + d < Modulus THEN n + d ELSE n + d - Modulus
  <2> HIDE DEF d
  <2> QED
    BY <1>1, <1>2, ModAdd
<1>5. k = IF n + d < Modulus THEN n + d ELSE n + d - Modulus
  BY <1>2, <1>4, Zenon
<1>6. Delta(k, n) = IF k >= n THEN k - n ELSE k + Modulus - n
  <2> HIDE DEF n, k
  <2> QED
    BY <1>3, DeltaIs
<1>7. Delta(k, n) = d
  <2> HIDE DEF n, k, d
  <2> QED
    BY <1>1, <1>2, <1>3, <1>5, <1>6
<1> QED
  BY <1>7 DEF Seq16

-----------------------------------------------------------------------------
(* RtpSequenceAssembler's invariant. *)

Assemblers ==
  [isFirst : BOOLEAN, number : 0..(Modulus - 1), timestamp : Nat, buffered : Seq(Arrival),
   chunkOf : Seq(Nat), bytes : Seq(Arrival), free : Seq(Nat),
   passed : Seq([packet : Arrival, payload : Arrival])]

\* n buffered packets, f of c chunks free: each chunk belongs to one buffered packet, whose
\* payload it holds, or is free.
Allotted(n, f, c, chunkOf, buffered, free, bytes) ==
  /\ c = n + f
  /\ \A i \in 1..n : chunkOf[i] \in 1..c /\ bytes[chunkOf[i]] = buffered[i]
  /\ \A i \in 1..f : free[i] \in 1..c
  /\ \A k \in 1..c : (\E i \in 1..n : chunkOf[i] = k) \/ (\E i \in 1..f : free[i] = k)
  /\ \A i, j \in 1..n : chunkOf[i] = chunkOf[j] => i = j
  /\ \A i, j \in 1..f : free[i] = free[j] => i = j
  /\ \A i \in 1..n, j \in 1..f : chunkOf[i] # free[j]

Chunks(a) ==
  /\ Len(a.chunkOf) = Len(a.buffered) /\ Len(a.bytes) <= MaxCorrection
  /\ Allotted(Len(a.buffered), Len(a.free), Len(a.bytes),
              a.chunkOf, a.buffered, a.free, a.bytes)

LastPassed(a) == a.passed[Len(a.passed)].packet

\* What is remembered is of the packet that was passed last.
Remembered(a) ==
  IF a.isFirst THEN Len(a.passed) = 0 /\ Len(a.buffered) = 0
  ELSE /\ Len(a.passed) > 0
       /\ a.number = Seq16(LastPassed(a)) /\ a.timestamp = Timestamp[LastPassed(a).pos]

Own(a) ==
  /\ a \in Assemblers /\ Chunks(a) /\ Remembered(a)
  /\ \A i \in 1..Len(a.passed) : a.passed[i].payload = a.passed[i].packet
  /\ \A i, j \in 1..Len(a.buffered) : a.buffered[i] = a.buffered[j] => i = j

Waiting(a) == {a.buffered[i] : i \in 1..Len(a.buffered)}

\* Each packet that a holds or has passed is one of those that came, r, at one place.
Accounted(a, r) ==
  /\ \A x \in Waiting(a) : x.at \in 1..Len(r) /\ x.pos = r[x.at]
  /\ \A j \in 1..Len(a.passed) : /\ a.passed[j].packet.at \in 1..Len(r)
                                 /\ a.passed[j].packet.pos = r[a.passed[j].packet.at]
  /\ \A j, k \in 1..Len(a.passed) : a.passed[j].packet.at = a.passed[k].packet.at => j = k
  /\ \A x \in Waiting(a), k \in 1..Len(a.passed) : x.at # a.passed[k].packet.at

\* Packet i of those that came is in a, or one with its number had been passed.
Kept(a, i, r) ==
  \/ \E x \in Waiting(a) : x.at = i
  \/ \E j \in 1..Len(a.passed) : a.passed[j].packet.at = i
  \/ \E j \in 1..Len(a.passed) : /\ a.passed[j].packet.at < i
                                 /\ Seq16(a.passed[j].packet) = r[i] % Modulus

\* How far x is ahead of the packet that was passed last.
Ahead(a, x) == Delta(Seq16(x), a.number)

\* Where no number was repeated, those of buffered packets differ, are ahead of the next
\* one, and each of the t packets that came brought those before it closer to their turn.
Brief(a, t) ==
  /\ \A x \in Waiting(a) : /\ Ahead(a, x) >= 2 /\ Ahead(a, x) <= MaxCorrection
                           /\ t - x.at + Ahead(a, x) <= Len(a.buffered) + MaxCorrection - 1
  /\ \A x, y \in Waiting(a) : Ahead(a, x) = Ahead(a, y) => x = y

\* What is passed is in order, and what is buffered follows it, soon and in its frame.
InRow(a) ==
  /\ \A i, j \in 1..Len(a.passed) : i < j => a.passed[i].packet.pos < a.passed[j].packet.pos
  /\ \A x \in Waiting(a) : /\ LastPassed(a).pos < x.pos
                           /\ x.pos <= LastPassed(a).pos + MaxCorrection
                           /\ Timestamp[x.pos] = a.timestamp

\* Packet p, if it has not come, may not come any more if the network is to be orderly.
Missed(p, r, taken) ==
  \E i \in 1..Len(r) : r[i] > p /\ r[i] \in taken \cup {r[1]}

Gapless(a, r, taken) ==
  ~a.isFirst =>
    /\ r[Len(r)] <= LastPassed(a).pos + MaxCorrection
    /\ \A p \in Position :
         p < LastPassed(a).pos => Missed(p, r, taken) \/ \E i \in 1..Len(r) : r[i] = p

AsmInv ==
  /\ received \in Seq(Position) /\ jumped \subseteq Position /\ doubled \in BOOLEAN
  /\ Own(asm) /\ Len(asm.buffered) < MaxCorrection
  /\ asm.isFirst <=> Len(received) = 0
  /\ Accounted(asm, received) /\ \A i \in 1..Len(received) : Kept(asm, i, received)
  /\ ~doubled => Brief(asm, Len(received))

\* The network was orderly: r came, and of these, taken were taken at once.
OrderlyOf(r, taken) ==
  /\ \A i, j \in 1..Len(r) : r[i] = r[j] => i = j
  /\ \A i, j \in 1..Len(r) : i < j /\ r[i] > r[j] => r[i] \notin taken \cup {r[1]}
  /\ \A i \in 2..Len(r) : r[i] + MaxCorrection < r[i-1] + Modulus

\* In particular, no number is repeated where the network is orderly.
OrderInv ==
  OrderlyOf(received, jumped) =>
    ~doubled /\ InRow(asm) /\ Gapless(asm, received, jumped)

-----------------------------------------------------------------------------
(* What is done to the assembler's structures. *)

\* What all but PacketPassed leave alone.
SamePassed(a, b) ==
  /\ b.isFirst = a.isFirst /\ b.number = a.number /\ b.timestamp = a.timestamp
  /\ b.passed = a.passed

\* x is the next packet that is passed.
Passes(a, b, x) ==
  /\ b.isFirst = FALSE /\ b.number = Seq16(x) /\ b.timestamp = Timestamp[x.pos]
  /\ Len(b.passed) = Len(a.passed) + 1
  /\ \A i \in 1..Len(a.passed) : b.passed[i] = a.passed[i]
  /\ b.passed[Len(a.passed) + 1].packet = x /\ LastPassed(b) = x

LEMMA Fields ==
  ASSUME NEW a \in Assemblers
  PROVE  /\ a.isFirst \in BOOLEAN /\ a.number \in 0..(Modulus - 1) /\ a.timestamp \in Nat
         /\ a.buffered \in Seq(Arrival) /\ a.chunkOf \in Seq(Nat)
         /\ a.bytes \in Seq(Arrival) /\ a.free \in Seq(Nat)
         /\ a.passed \in Seq([packet : Arrival, payload : Arrival])
         /\ Len(a.buffered) \in Nat /\ Len(a.chunkOf) \in Nat /\ Len(a.bytes) \in Nat
         /\ Len(a.free) \in Nat /\ Len(a.passed) \in Nat
         /\ \A i \in 1..Len(a.buffered) : a.buffered[i] \in Arrival
         /\ \A i \in 1..Len(a.passed) :
              a.passed[i] \in [packet : Arrival, payload : Arrival]
<1>1. /\ a.isFirst \in BOOLEAN /\ a.number \in 0..(Modulus - 1) /\ a.timestamp \in Nat
      /\ a.buffered \in Seq(Arrival) /\ a.chunkOf \in Seq(Nat)
      /\ a.bytes \in Seq(Arrival) /\ a.free \in Seq(Nat)
      /\ a.passed \in Seq([packet : Arrival, payload : Arrival])
  BY DEF Assemblers
<1> QED
  BY <1>1, ElementOfSeq, LenProperties

LEMMA PassOwn ==
  ASSUME Constants, NEW a, Own(a), NEW x \in Arrival
  PROVE  LET b == Pass(a, x, x)
         IN  /\ Own(b) /\ Passes(a, b, x)
             /\ b.buffered = a.buffered /\ b.chunkOf = a.chunkOf /\ b.bytes = a.bytes
             /\ b.free = a.free
<1> DEFINE b == Pass(a, x, x)
           y == [packet |-> x, payload |-> x]
<1>1. a \in Assemblers
  BY DEF Own
<1>2. b = [a EXCEPT !.isFirst = FALSE, !.number = Seq16(x), !.timestamp = Timestamp[x.pos],
                    !.passed = Append(a.passed, y)]
  BY DEF Pass
<1>3. /\ b.isFirst = FALSE /\ b.number = Seq16(x) /\ b.timestamp = Timestamp[x.pos]
      /\ b.buffered = a.buffered /\ b.chunkOf = a.chunkOf /\ b.bytes = a.bytes /\ b.free = a.free
      /\ b.passed = Append(a.passed, y)
  BY <1>1, <1>2 DEF Assemblers
<1>4. y \in [packet : Arrival, payload : Arrival]
  OBVIOUS
<1>5. /\ Append(a.passed, y) \in Seq([packet : Arrival, payload : Arrival])
      /\ Len(Append(a.passed, y)) = Len(a.passed) + 1
      /\ \A i \in 1..Len(a.passed) : Append(a.passed, y)[i] = a.passed[i]
      /\ Append(a.passed, y)[Len(a.passed) + 1] = y
  <2>1. a.passed \in Seq([packet : Arrival, payload : Arrival])
    BY <1>1, Fields
  <2> HIDE DEF y
  <2> QED
    BY <1>4, <2>1, AppendProperties
<1>6. Timestamp[x.pos] \in Nat /\ Seq16(x) \in 0..(Modulus-1)
  BY Arrivals DEF Constants
<1>7. b \in Assemblers
  BY <1>1, <1>2, <1>5, <1>6 DEF Assemblers
<1>8. Chunks(b)
  <2> HIDE DEF b
  <2> QED
    BY <1>3 DEF Own, Chunks
<1>9. Len(a.passed) \in Nat
  BY <1>1, Fields
<1>10. Passes(a, b, x)
  <2> HIDE DEF b
  <2>1. b.passed[Len(a.passed) + 1].packet = x /\ LastPassed(b) = x
    BY <1>3, <1>5 DEF LastPassed
  <2> QED
    BY <1>3, <1>5, <2>1 DEF Passes
<1>11. Remembered(b)
  <2> HIDE DEF b
  <2> QED
    BY <1>3, <1>9, <1>10 DEF Remembered, Passes
<1>12. \A i \in 1..Len(b.passed) : b.passed[i].payload = b.passed[i].packet
  <2> HIDE DEF b, y
  <2>1. b.passed[Len(a.passed) + 1].payload = b.passed[Len(a.passed) + 1].packet
    BY <1>3, <1>5 DEF y
  <2>2. \A i \in 1..Len(a.passed) : b.passed[i].payload = b.passed[i].packet
    BY <1>3, <1>5 DEF Own
  <2> QED
    BY <1>3, <1>5, <1>9, <2>1, <2>2
<1>13. \A i, j \in 1..Len(b.buffered) : b.buffered[i] = b.buffered[j] => i = j
  BY <1>3 DEF Own
<1> QED
  BY <1>3, <1>7, <1>8, <1>10, <1>11, <1>12, <1>13 DEF Own

\* Packet i is removed: its chunk becomes free.
OneLess(n, f, i, C, B, F, D, E, G) ==
  /\ \A j \in 1..(n-1) : D[j] = IF j < i THEN C[j] ELSE C[j+1]
  /\ \A j \in 1..(n-1) : E[j] = IF j < i THEN B[j] ELSE B[j+1]
  /\ \A j \in 1..f : G[j] = F[j]
  /\ G[f+1] = C[i]

LEMMA AllottedLess ==
  ASSUME NEW n \in Nat, NEW f \in Nat, NEW c, NEW i \in 1..n,
         NEW C, NEW B, NEW F, NEW Y, NEW D, NEW E, NEW G, Allotted(n, f, c, C, B, F, Y),
         OneLess(n, f, i, C, B, F, D, E, G)
  PROVE  Allotted(n-1, f+1, c, D, E, G, Y)
<1> USE DEF Allotted, OneLess
<1>1. n - 1 + (f + 1) = n + f
  OBVIOUS
<1> DEFINE Old(j) == IF j < i THEN j ELSE j+1
<1>2. \A j \in 1..(n-1) : /\ Old(j) \in 1..n /\ Old(j) # i
                          /\ D[j] = C[Old(j)] /\ E[j] = B[Old(j)]
  OBVIOUS
<1>3. \A j \in 1..(f+1) : (j \in 1..f /\ G[j] = F[j]) \/ (j = f+1 /\ G[j] = C[i])
  OBVIOUS
<1>4. \A j, k \in 1..(n-1) : Old(j) = Old(k) => j = k
  OBVIOUS
<1>5. \A u \in 1..n : u # i => \E j \in 1..(n-1) : Old(j) = u
  <2> TAKE u \in 1..n
  <2>1. u < i => u \in 1..(n-1) /\ Old(u) = u
    OBVIOUS
  <2>2. u > i => u-1 \in 1..(n-1) /\ Old(u-1) = u
    OBVIOUS
  <2> HIDE DEF Old
  <2> QED
    BY <2>1, <2>2
<1> HIDE DEF Old
<1>6. \A j \in 1..(n-1) : D[j] \in 1..c /\ Y[D[j]] = E[j]
  BY <1>2
<1>7. \A j \in 1..(f+1) : G[j] \in 1..c
  BY <1>3
<1>8. \A k \in 1..c : (\E j \in 1..(n-1) : D[j] = k) \/ (\E j \in 1..(f+1) : G[j] = k)
  <2> TAKE k \in 1..c
  <2>1. CASE \E u \in 1..n : C[u] = k
    <3>1. PICK u \in 1..n : C[u] = k
      BY <2>1
    <3>2. CASE u = i
      <4>1. f+1 \in 1..(f+1)
        OBVIOUS
      <4> QED
        BY <3>1, <3>2, <4>1
    <3>3. CASE u # i
      <4>1. PICK j \in 1..(n-1) : Old(j) = u
        BY <1>5, <3>3
      <4>2. D[j] = k
        BY <1>2, <3>1, <4>1
      <4> QED
        BY <4>2
    <3> QED
      BY <3>2, <3>3
  <2>2. CASE \E u \in 1..f : F[u] = k
    <3>1. \A u \in 1..f : u \in 1..(f+1)
      OBVIOUS
    <3> QED
      BY <2>2, <3>1
  <2> QED
    BY <2>1, <2>2
<1>9. \A j, k \in 1..(n-1) : D[j] = D[k] => j = k
  BY <1>2, <1>4
<1>10. \A j, k \in 1..(f+1) : G[j] = G[k] => j = k
  BY <1>3
<1>11. \A j \in 1..(n-1), k \in 1..(f+1) : D[j] # G[k]
  BY <1>2, <1>3
<1> QED
  BY <1>1, <1>6, <1>7, <1>8, <1>9, <1>10, <1>11

LEMMA RemoveOwn ==
  ASSUME Constants, NEW a, Own(a), NEW i \in 1..Len(a.buffered)
  PROVE  LET b == RemoveEntry(a, i)
         IN  /\ Own(b) /\ SamePassed(a, b)
             /\ Len(b.buffered) = Len(a.buffered) - 1
             /\ \A j \in 1..(i-1) : b.buffered[j] = a.buffered[j]
             /\ Waiting(b) = Waiting(a) \ {a.buffered[i]}
<1> DEFINE b == RemoveEntry(a, i)
           n == Len(a.buffered)
<1>1. a \in Assemblers /\ Len(a.chunkOf) = n /\ n \in Nat /\ i \in 1..n
  BY Fields DEF Own, Chunks
<1>2. b = [a EXCEPT !.buffered = RemoveAt(a.buffered, i),
                    !.chunkOf = RemoveAt(a.chunkOf, i),
                    !.free = Append(a.free, a.chunkOf[i])]
  BY DEF RemoveEntry
<1>3. /\ SamePassed(a, b) /\ b.bytes = a.bytes
      /\ b.buffered = RemoveAt(a.buffered, i) /\ b.chunkOf = RemoveAt(a.chunkOf, i)
      /\ b.free = Append(a.free, a.chunkOf[i])
  BY <1>1, <1>2 DEF Assemblers, SamePassed
<1>4. /\ b.buffered \in Seq(Arrival) /\ Len(b.buffered) = n - 1
      /\ \A j \in 1..(n-1) :
           b.buffered[j] = IF j < i THEN a.buffered[j] ELSE a.buffered[j+1]
  <2>1. a.buffered \in Seq(Arrival)
    BY <1>1, Fields
  <2> HIDE DEF b
  <2> QED
    BY <1>3, <2>1, Removed
<1>5. /\ b.chunkOf \in Seq(Nat) /\ Len(b.chunkOf) = n - 1
      /\ \A j \in 1..(n-1) : b.chunkOf[j] = IF j < i THEN a.chunkOf[j] ELSE a.chunkOf[j+1]
  <2>1. a.chunkOf \in Seq(Nat) /\ i \in 1..Len(a.chunkOf)
    BY <1>1, Fields
  <2>2. LET r == RemoveAt(a.chunkOf, i)
        IN  /\ r \in Seq(Nat) /\ Len(r) = Len(a.chunkOf) - 1
            /\ \A j \in 1..(Len(a.chunkOf) - 1) :
                 r[j] = IF j < i THEN a.chunkOf[j] ELSE a.chunkOf[j+1]
    BY <2>1, Removed
  <2> HIDE DEF b
  <2> QED
    BY <1>1, <1>3, <2>2
<1>6. a.chunkOf[i] \in Nat
  BY <1>1, Fields
<1>7. /\ b.free \in Seq(Nat) /\ Len(b.free) = Len(a.free) + 1
      /\ \A j \in 1..Len(a.free) : b.free[j] = a.free[j]
      /\ b.free[Len(a.free) + 1] = a.chunkOf[i]
  <2> HIDE DEF b
  <2> QED
    BY <1>1, <1>3, <1>6, Fields, AppendProperties
<1>8. b \in Assemblers
  BY <1>1, <1>2, <1>3, <1>4, <1>5, <1>7 DEF Assemblers
<1>9. Len(a.free) \in Nat /\ Len(a.bytes) \in Nat
  BY <1>1, Fields
<1> HIDE DEF b
<1>10. Chunks(a)
  BY DEF Own
<1>11. Chunks(b)
  <2> DEFINE f == Len(a.free)
  <2>1. Allotted(n, f, Len(a.bytes), a.chunkOf, a.buffered, a.free, a.bytes)
    BY <1>10 DEF Chunks
  <2>2. Allotted(n-1, f+1, Len(a.bytes), b.chunkOf, b.buffered, b.free, a.bytes)
    <3>1. f \in Nat /\ n \in Nat /\ i \in 1..n
      BY <1>1, <1>9
    <3>2. OneLess(n, f, i, a.chunkOf, a.buffered, a.free, b.chunkOf, b.buffered, b.free)
      BY <1>4, <1>5, <1>7 DEF OneLess
    <3> HIDE DEF n, f
    <3> QED
      BY <2>1, <3>1, <3>2, AllottedLess
  <2>3. Len(b.buffered) = n-1 /\ Len(b.free) = f+1 /\ b.bytes = a.bytes
    BY <1>3, <1>4, <1>7
  <2> QED
    BY <1>4, <1>5, <1>10, <2>2, <2>3, Zenon DEF Chunks
<1>12. Remembered(b)
  <2>1. ~a.isFirst
    BY <1>1 DEF Own, Remembered
  <2> QED
    BY <1>3, <2>1 DEF Own, Remembered, SamePassed, LastPassed
<1>13. \A j \in 1..Len(b.passed) : b.passed[j].payload = b.passed[j].packet
  BY <1>3 DEF SamePassed, Own
<1> DEFINE Old(j) == IF j < i THEN j ELSE j+1
<1>14. \A j \in 1..(n-1) : Old(j) \in 1..n /\ Old(j) # i /\ b.buffered[j] = a.buffered[Old(j)]
  BY <1>1, <1>4
<1>15. \A j, k \in 1..(n-1) : Old(j) = Old(k) => j = k
  BY <1>1
<1>16. \A u \in 1..n : u # i => \E j \in 1..(n-1) : Old(j) = u
  <2> TAKE u \in 1..n
  <2>1. u < i => u \in 1..(n-1) /\ Old(u) = u
    BY <1>1
  <2>2. u > i => u-1 \in 1..(n-1) /\ Old(u-1) = u
    BY <1>1
  <2>3. u # i => u < i \/ u > i
    BY <1>1
  <2> HIDE DEF Old
  <2> QED
    BY <2>1, <2>2, <2>3
<1>17. \A j, k \in 1..n : a.buffered[j] = a.buffered[k] => j = k
  BY DEF Own
<1> HIDE DEF Old, n
<1>18. \A j, k \in 1..(n-1) : b.buffered[j] = b.buffered[k] => j = k
  BY <1>14, <1>15, <1>17
<1>19. Waiting(b) = Waiting(a) \ {a.buffered[i]}
  <2>1. Waiting(b) = {b.buffered[j] : j \in 1..(n-1)} /\ Waiting(a) = {a.buffered[j] : j \in 1..n}
    BY <1>4 DEF Waiting, n
  <2>2. \A j \in 1..(n-1) : b.buffered[j] \in Waiting(a) \ {a.buffered[i]}
    BY <1>1, <1>14, <1>17, <2>1
  <2>3. \A u \in 1..n : u # i => a.buffered[u] \in Waiting(b)
    BY <1>14, <1>16, <2>1
  <2> QED
    BY <2>1, <2>2, <2>3
<1>20. \A j \in 1..(i-1) : b.buffered[j] = a.buffered[j]
  BY <1>1, <1>4
<1>21. \A j, k \in 1..Len(b.buffered) : b.buffered[j] = b.buffered[k] => j = k
  BY <1>4, <1>18
<1>22. Own(b)
  BY <1>8, <1>11, <1>12, <1>13, <1>21, Zenon DEF Own
<1>23. Len(b.buffered) = Len(a.buffered) - 1
  BY <1>4 DEF n
<1> QED
  BY <1>3, <1>19, <1>20, <1>22, <1>23, Zenon DEF b

\* A packet is added, with chunk k.
OneMore(n, k, x, C, B, D, E) ==
  /\ \A j \in 1..n : D[j] = C[j] /\ E[j] = B[j]
  /\ D[n+1] = k /\ E[n+1] = x

\* A free chunk is used again.
Reused(f, c, x, F, Y, G, Z) ==
  /\ \A j \in 1..(f-1) : G[j] = F[j]
  /\ \A k \in 1..c : Z[k] = IF k = F[f] THEN x ELSE Y[k]

LEMMA AllottedAgain ==
  ASSUME NEW n \in Nat, NEW f \in Nat, f > 0, NEW c, NEW x,
         NEW C, NEW B, NEW F, NEW Y, NEW D, NEW E, NEW G, NEW Z, Allotted(n, f, c, C, B, F, Y),
         OneMore(n, F[f], x, C, B, D, E), Reused(f, c, x, F, Y, G, Z)
  PROVE  Allotted(n+1, f-1, c, D, E, G, Z)
<1> USE DEF Allotted, OneMore, Reused
<1>1. c = n + 1 + (f - 1) /\ f - 1 \in Nat
  OBVIOUS
<1>2. f \in 1..f /\ F[f] \in 1..c
  OBVIOUS
<1>3. \A j \in 1..(n+1) : (j \in 1..n /\ D[j] = C[j] /\ E[j] = B[j])
                          \/ (j = n+1 /\ D[j] = F[f] /\ E[j] = x)
  OBVIOUS
<1>4. \A j \in 1..(f-1) : j \in 1..f /\ j # f /\ G[j] = F[j]
  OBVIOUS
<1>5. \A j \in 1..(n+1) : D[j] \in 1..c /\ Z[D[j]] = E[j]
  <2> TAKE j \in 1..(n+1)
  <2>1. CASE j \in 1..n /\ D[j] = C[j] /\ E[j] = B[j]
    <3>1. C[j] # F[f] /\ C[j] \in 1..c /\ Y[C[j]] = B[j]
      BY <1>2, <2>1
    <3> QED
      BY <2>1, <3>1
  <2>2. CASE D[j] = F[f] /\ E[j] = x
    BY <1>2, <2>2
  <2> QED
    BY <1>3, <2>1, <2>2
<1>6. \A k \in 1..c : (\E j \in 1..(n+1) : D[j] = k) \/ (\E j \in 1..(f-1) : G[j] = k)
  <2> TAKE k \in 1..c
  <2>1. CASE \E u \in 1..n : C[u] = k
    <3>1. \A u \in 1..n : u \in 1..(n+1) /\ D[u] = C[u]
      OBVIOUS
    <3> QED
      BY <2>1, <3>1
  <2>2. CASE \E u \in 1..f : F[u] = k
    <3>1. PICK u \in 1..f : F[u] = k
      BY <2>2
    <3>2. CASE u = f
      <4>1. n+1 \in 1..(n+1) /\ D[n+1] = F[f]
        OBVIOUS
      <4> QED
        BY <3>1, <3>2, <4>1
    <3>3. CASE u # f
      <4>1. u \in 1..(f-1)
        BY <3>3
      <4> QED
        BY <1>4, <3>1, <4>1
    <3> QED
      BY <3>2, <3>3
  <2> QED
    BY <2>1, <2>2
<1>7. \A j, k \in 1..(n+1) : D[j] = D[k] => j = k
  BY <1>2, <1>3
<1>8. \A j, k \in 1..(f-1) : G[j] = G[k] => j = k
  BY <1>4
<1>9. \A j \in 1..(n+1), k \in 1..(f-1) : D[j] # G[k]
  BY <1>2, <1>3, <1>4
<1>10. \A j \in 1..(f-1) : G[j] \in 1..c
  BY <1>4
<1> QED
  BY <1>1, <1>5, <1>6, <1>7, <1>8, <1>9, <1>10

\* None is free: there is one chunk more.
LEMMA AllottedFresh ==
  ASSUME NEW n \in Nat, NEW c, NEW x, NEW C, NEW B, NEW F, NEW Y, NEW D, NEW E, NEW Z,
         Allotted(n, 0, c, C, B, F, Y), OneMore(n, c+1, x, C, B, D, E),
         \A k \in 1..c : Z[k] = Y[k],
         Z[c+1] = x
  PROVE  Allotted(n+1, 0, c+1, D, E, F, Z)
<1> USE DEF Allotted, OneMore
<1>1. c = n
  OBVIOUS
<1>2. \A j \in 1..(n+1) : (j \in 1..n /\ D[j] = C[j] /\ E[j] = B[j])
                          \/ (j = n+1 /\ D[j] = c+1 /\ E[j] = x)
  OBVIOUS
<1>3. \A j \in 1..(n+1) : D[j] \in 1..(c+1) /\ Z[D[j]] = E[j]
  <2> TAKE j \in 1..(n+1)
  <2>1. CASE j \in 1..n /\ D[j] = C[j] /\ E[j] = B[j]
    <3>1. C[j] \in 1..c /\ Y[C[j]] = B[j]
      BY <2>1
    <3> QED
      BY <1>1, <2>1, <3>1
  <2>2. CASE D[j] = c+1 /\ E[j] = x
    BY <1>1, <2>2
  <2> QED
    BY <1>2, <2>1, <2>2
<1>4. \A k \in 1..(c+1) : \E j \in 1..(n+1) : D[j] = k
  <2> TAKE k \in 1..(c+1)
  <2>1. CASE k = c+1
    <3>1. n+1 \in 1..(n+1) /\ D[n+1] = k
      BY <2>1
    <3> QED
      BY <3>1
  <2>2. CASE k # c+1
    <3>1. k \in 1..c
      BY <1>1, <2>2
    <3>2. PICK u \in 1..n : C[u] = k
      BY <3>1
    <3>3. u \in 1..(n+1) /\ D[u] = k
      BY <3>2
    <3> QED
      BY <3>3
  <2> QED
    BY <2>1, <2>2
<1>5. \A j, k \in 1..(n+1) : D[j] = D[k] => j = k
  BY <1>1, <1>2
<1>6. n + 1 = n + 1 + 0 /\ 1..0 = {}
  OBVIOUS
<1> QED
  BY <1>1, <1>3, <1>4, <1>5, <1>6

LEMMA BufferOwn ==
  ASSUME Constants, NEW a, Own(a), ~a.isFirst, NEW x \in Arrival,
         Len(a.buffered) < MaxCorrection, x \notin Waiting(a)
  PROVE  LET b == Buffer(a, x)
         IN  /\ Own(b) /\ SamePassed(a, b)
             /\ Len(b.buffered) = Len(a.buffered) + 1
             /\ Waiting(b) = Waiting(a) \cup {x}
<1> DEFINE b == Buffer(a, x)
           n == Len(a.buffered)
           f == Len(a.free)
           c == Len(a.bytes)
           index == IF a.free # <<>> THEN Last(a.free) ELSE ChunksCount(a) + 1
<1>1. /\ a \in Assemblers /\ Len(a.chunkOf) = n /\ n \in Nat /\ f \in Nat /\ c \in Nat
      /\ a.free \in Seq(Nat) /\ a.buffered \in Seq(Arrival) /\ a.chunkOf \in Seq(Nat)
      /\ a.bytes \in Seq(Arrival) /\ c <= MaxCorrection
  BY Fields DEF Own, Chunks
<1>2. b = [a EXCEPT !.buffered = Append(a.buffered, x), !.chunkOf = Append(a.chunkOf, index),
                !.free = IF a.free # <<>> THEN Front(a.free) ELSE a.free,
                !.bytes = IF index > Len(a.bytes) THEN Append(a.bytes, x)
                          ELSE [a.bytes EXCEPT ![index] = x]]
  BY DEF Buffer
<1>3. /\ SamePassed(a, b)
      /\ b.buffered = Append(a.buffered, x) /\ b.chunkOf = Append(a.chunkOf, index)
      /\ b.free = (IF a.free # <<>> THEN Front(a.free) ELSE a.free)
      /\ b.bytes = IF index > Len(a.bytes) THEN Append(a.bytes, x)
                   ELSE [a.bytes EXCEPT ![index] = x]
  <2> HIDE DEF index
  <2> QED
    BY <1>1, <1>2 DEF Assemblers, SamePassed
<1>4. Allotted(n, f, c, a.chunkOf, a.buffered, a.free, a.bytes)
  BY DEF Own, Chunks
<1>5. /\ b.buffered \in Seq(Arrival) /\ Len(b.buffered) = n + 1
      /\ \A j \in 1..n : b.buffered[j] = a.buffered[j]
      /\ b.buffered[n + 1] = x
  <2> HIDE DEF b, index
  <2> QED
    BY <1>1, <1>3, AppendProperties
<1>6. index \in Nat =>
        /\ b.chunkOf \in Seq(Nat) /\ Len(b.chunkOf) = n + 1
        /\ \A j \in 1..n : b.chunkOf[j] = a.chunkOf[j]
        /\ b.chunkOf[n + 1] = index
  <2> HIDE DEF b, index
  <2> QED
    BY <1>1, <1>3, AppendProperties
<1> HIDE DEF b
<1>7. ASSUME a.free # <<>>
      PROVE  /\ b.chunkOf \in Seq(Nat) /\ b.free \in Seq(Nat) /\ b.bytes \in Seq(Arrival)
             /\ Chunks(b)
  <2>1. f > 0 /\ index = a.free[f]
    BY <1>1, <1>7, EmptySeq DEF Last
  <2>2. index \in 1..c
    <3>1. f \in 1..f
      BY <1>1, <2>1
    <3> HIDE DEF f, c, n, index
    <3> QED
      BY <1>4, <2>1, <3>1 DEF Allotted
  <2>3. /\ b.free \in Seq(Nat) /\ Len(b.free) = f - 1
        /\ \A j \in 1..(f-1) : b.free[j] = a.free[j]
    <3> HIDE DEF index
    <3> QED
      BY <1>1, <1>3, <1>7, Fronts
  <2>4. /\ b.bytes \in Seq(Arrival) /\ Len(b.bytes) = c
        /\ \A k \in 1..c : b.bytes[k] = IF k = index THEN x ELSE a.bytes[k]
    <3>1. b.bytes = [a.bytes EXCEPT ![index] = x]
      <4> HIDE DEF index
      <4> QED
        BY <1>1, <1>3, <2>2
    <3> HIDE DEF index
    <3> QED
      BY <1>1, <2>2, <3>1, ExceptSeq
  <2>5. index \in Nat
    BY <2>2
  <2>6. OneMore(n, a.free[f], x, a.chunkOf, a.buffered, b.chunkOf, b.buffered)
    <3> HIDE DEF index
    <3> QED
      BY <1>5, <1>6, <2>1, <2>5 DEF OneMore
  <2>7. Reused(f, c, x, a.free, a.bytes, b.free, b.bytes)
    <3> HIDE DEF index
    <3> QED
      BY <2>1, <2>3, <2>4 DEF Reused
  <2>8. Allotted(n+1, f-1, c, b.chunkOf, b.buffered, b.free, b.bytes)
    <3>1. n \in Nat /\ f \in Nat
      BY <1>1
    <3> HIDE DEF n, f, c, index
    <3> QED
      BY <1>4, <2>1, <2>6, <2>7, <3>1, AllottedAgain
  <2>9. Chunks(b)
    <3>1. Len(b.chunkOf) = Len(b.buffered)
      BY <1>5, <1>6, <2>5
    <3>2. Len(b.buffered) = n+1 /\ Len(b.free) = f-1 /\ Len(b.bytes) = c /\ c <= MaxCorrection
      BY <1>1, <1>5, <2>3, <2>4
    <3> QED
      BY <2>8, <3>1, <3>2, Zenon DEF Chunks
  <2> QED
    BY <1>6, <2>3, <2>4, <2>5, <2>9
<1>8. ASSUME a.free = <<>>
      PROVE  /\ b.chunkOf \in Seq(Nat) /\ b.free \in Seq(Nat) /\ b.bytes \in Seq(Arrival)
             /\ Chunks(b)
  <2>1. f = 0 /\ index = c + 1
    BY <1>1, <1>8 DEF ChunksCount
  <2>2. c = n
    <3> HIDE DEF n, f, c
    <3> QED
      BY <1>1, <1>4, <2>1 DEF Allotted
  <2>3. b.free = a.free
    BY <1>3, <1>8
  <2>4. /\ b.bytes \in Seq(Arrival) /\ Len(b.bytes) = c + 1
        /\ \A k \in 1..c : b.bytes[k] = a.bytes[k]
        /\ b.bytes[c+1] = x
    <3>1. b.bytes = Append(a.bytes, x)
      <4> HIDE DEF index
      <4> QED
        BY <1>1, <1>3, <2>1
    <3> QED
      BY <1>1, <3>1, AppendProperties
  <2>5. index \in Nat
    BY <1>1, <2>1
  <2>6. OneMore(n, c+1, x, a.chunkOf, a.buffered, b.chunkOf, b.buffered)
    <3> HIDE DEF index
    <3> QED
      BY <1>5, <1>6, <2>1, <2>5 DEF OneMore
  <2>7. Allotted(n+1, 0, c+1, b.chunkOf, b.buffered, b.free, b.bytes)
    <3>1. n \in Nat /\ Allotted(n, 0, c, a.chunkOf, a.buffered, b.free, a.bytes)
      BY <1>1, <1>4, <2>1, <2>3
    <3> HIDE DEF n, f, c, index
    <3> QED
      BY <2>4, <2>6, <3>1, AllottedFresh
  <2>8. Chunks(b)
    <3>1. Len(b.chunkOf) = Len(b.buffered) /\ c + 1 <= MaxCorrection
      BY <1>1, <1>5, <1>6, <2>2, <2>5, Cycle
    <3>2. Len(b.buffered) = n+1 /\ Len(b.free) = 0 /\ Len(b.bytes) = c+1
      BY <1>5, <2>1, <2>3, <2>4
    <3> QED
      BY <2>7, <3>1, <3>2, Zenon DEF Chunks
  <2> QED
    BY <1>1, <1>6, <2>3, <2>4, <2>5, <2>8
<1>9. /\ b.chunkOf \in Seq(Nat) /\ b.free \in Seq(Nat) /\ b.bytes \in Seq(Arrival)
      /\ Chunks(b)
  BY <1>7, <1>8
<1>10. b \in Assemblers
  <2> DEFINE free == IF a.free # <<>> THEN Front(a.free) ELSE a.free
             bytes == IF index > Len(a.bytes) THEN Append(a.bytes, x)
                      ELSE [a.bytes EXCEPT ![index] = x]
  <2>1. /\ Append(a.buffered, x) \in Seq(Arrival) /\ Append(a.chunkOf, index) \in Seq(Nat)
        /\ free \in Seq(Nat) /\ bytes \in Seq(Arrival)
    BY <1>3, <1>5, <1>9
  <2> HIDE DEF index, free, bytes
  <2>2. [a EXCEPT !.buffered = Append(a.buffered, x), !.chunkOf = Append(a.chunkOf, index),
                  !.free = free, !.bytes = bytes] \in Assemblers
    BY <1>1, <2>1 DEF Assemblers
  <2> QED
    BY <1>2, <2>2, Zenon DEF free, bytes
<1>11. Remembered(b)
  BY <1>3 DEF Own, Remembered, SamePassed, LastPassed
<1>12. \A j \in 1..Len(b.passed) : b.passed[j].payload = b.passed[j].packet
  BY <1>3 DEF SamePassed, Own
<1> HIDE DEF n
<1>13. \A j \in 1..(n+1) : (j \in 1..n /\ b.buffered[j] = a.buffered[j])
                           \/ (j = n+1 /\ b.buffered[j] = x)
  BY <1>1, <1>5
<1>14. Waiting(a) = {a.buffered[j] : j \in 1..n} /\ Waiting(b) = {b.buffered[j] : j \in 1..(n+1)}
  BY <1>5 DEF Waiting, n
<1>15. \A j, k \in 1..n : a.buffered[j] = a.buffered[k] => j = k
  BY DEF Own, n
<1>16. \A j, k \in 1..(n+1) : b.buffered[j] = b.buffered[k] => j = k
  BY <1>13, <1>14, <1>15
<1>17. Waiting(b) = Waiting(a) \cup {x}
  <2>1. \A j \in 1..n : j \in 1..(n+1) /\ b.buffered[j] = a.buffered[j]
    BY <1>1, <1>5
  <2>2. n+1 \in 1..(n+1) /\ b.buffered[n+1] = x
    BY <1>1, <1>5
  <2> QED
    BY <1>13, <1>14, <2>1, <2>2
<1>18. \A j, k \in 1..Len(b.buffered) : b.buffered[j] = b.buffered[k] => j = k
  BY <1>5, <1>16
<1>19. Own(b)
  BY <1>9, <1>10, <1>11, <1>12, <1>18, Zenon DEF Own
<1>20. Len(b.buffered) = Len(a.buffered) + 1
  BY <1>5 DEF n
<1> QED
  BY <1>3, <1>17, <1>19, <1>20, Zenon DEF b

LEMMA ClearOwn ==
  ASSUME Constants, NEW a, Own(a)
  PROVE  LET b == Clear(a)
         IN  Own(b) /\ SamePassed(a, b) /\ Len(b.buffered) = 0 /\ Waiting(b) = {}
<1> DEFINE b == Clear(a)
<1>1. /\ b \in Assemblers /\ SamePassed(a, b)
      /\ b.buffered = <<>> /\ b.chunkOf = <<>> /\ b.bytes = <<>> /\ b.free = <<>>
  <2>1. <<>> \in Seq(Arrival) /\ <<>> \in Seq(Nat) /\ a \in Assemblers
    BY DEF Own
  <2> QED
    BY <2>1 DEF Clear, Assemblers, SamePassed
<1>2. Allotted(0, 0, 0, b.chunkOf, b.buffered, b.free, b.bytes)
  <2> HIDE DEF b
  <2>1. 1..0 = {} /\ 0 = 0 + 0
    OBVIOUS
  <2> QED
    BY <2>1 DEF Allotted
<1>3. Chunks(b)
  <2> HIDE DEF b
  <2>1. Len(<<>>) = 0 /\ 0 <= MaxCorrection
    BY Cycle
  <2> QED
    BY <1>1, <1>2, <2>1 DEF Chunks
<1>4. Remembered(b)
  <2> HIDE DEF b
  <2> QED
    BY <1>1 DEF Own, Remembered, SamePassed, LastPassed
<1>5. \A j \in 1..Len(b.passed) : b.passed[j].payload = b.passed[j].packet
  BY <1>1 DEF SamePassed, Own
<1>6. Len(b.buffered) = 0 /\ 1..0 = {}
  BY <1>1
<1>7. \A i, j \in 1..Len(b.buffered) : b.buffered[i] = b.buffered[j] => i = j
  BY <1>6
<1>8. Waiting(b) = {}
  BY <1>6 DEF Waiting
<1> HIDE DEF b
<1>9. Own(b)
  BY <1>1, <1>3, <1>4, <1>5, <1>7 DEF Own
<1> QED
  BY <1>1, <1>6, <1>8, <1>9, Zenon DEF b

-----------------------------------------------------------------------------
(* The packets that wait, and the one that is nearest. *)

LEMMA WaitingIs ==
  ASSUME Constants, NEW a, Own(a)
  PROVE  /\ IsFiniteSet(Waiting(a)) /\ Cardinality(Waiting(a)) = Len(a.buffered)
         /\ Waiting(a) \subseteq Arrival
         /\ \A x \in Waiting(a) : Ahead(a, x) \in 0..(Modulus - 1) /\ Ahead(a, x) \in Nat
         /\ Waiting(a) # {} <=> Len(a.buffered) > 0
         /\ Waiting(a) # {} => ~a.isFirst
         /\ a.number \in 0..(Modulus - 1)
<1> DEFINE n == Len(a.buffered)
<1>1. /\ a \in Assemblers /\ n \in Nat /\ a.number \in 0..(Modulus - 1)
      /\ \A i \in 1..n : a.buffered[i] \in Arrival
      /\ \A i, j \in 1..n : a.buffered[i] = a.buffered[j] => i = j
      /\ a.isFirst => n = 0
  BY Fields DEF Own, Remembered
<1>2. Waiting(a) = {a.buffered[i] : i \in 1..n}
  BY DEF Waiting
<1> HIDE DEF n
<1>3. ExistsBijection(1..n, Waiting(a))
  <2> DEFINE f == [i \in 1..n |-> a.buffered[i]]
  <2>1. f \in [1..n -> Waiting(a)] /\ \A i, j \in 1..n : f[i] = f[j] => i = j
    BY <1>1, <1>2
  <2>2. \A x \in Waiting(a) : \E i \in 1..n : f[i] = x
    BY <1>2
  <2> HIDE DEF f
  <2> QED
    BY <2>1, <2>2, Fun_IsBij DEF ExistsBijection
<1>4. IsFiniteSet(1..n) /\ Cardinality(1..n) = n
  BY <1>1, FS_Interval
<1>5. IsFiniteSet(Waiting(a)) /\ Cardinality(Waiting(a)) = n
  BY <1>3, <1>4, FS_Bijection
<1>6. \A x \in Waiting(a) : x \in Arrival /\ Ahead(a, x) \in 0..(Modulus - 1)
  BY <1>1, <1>2, Arrivals, DeltaIs DEF Ahead
<1>7. \A m \in 0..(Modulus - 1) : m \in Nat
  BY Cycle
<1>8. Waiting(a) # {} <=> n > 0
  <2>1. n > 0 <=> 1 \in 1..n
    BY <1>1
  <2>2. 1..n # {} => n > 0
    BY <1>1
  <2> QED
    BY <1>2, <2>1, <2>2
<1>9. Waiting(a) # {} => ~a.isFirst
  BY <1>1, <1>8
<1> QED
  BY <1>1, <1>5, <1>6, <1>7, <1>8, <1>9, Zenon DEF n

\* g[1], ..., g[n] are passed, one after the other, and what else was buffered remains.
Handed(a, c, n, g) ==
  /\ \A k \in 1..n : g[k] \in Waiting(a)
  /\ \A j, k \in 1..n : g[j] = g[k] => j = k
  /\ Waiting(c) = Waiting(a) \ {g[k] : k \in 1..n}
  /\ Len(c.buffered) = Len(a.buffered) - n
  /\ Len(c.passed) = Len(a.passed) + n
  /\ \A i \in 1..Len(a.passed) : c.passed[i] = a.passed[i]
  /\ \A k \in 1..n : c.passed[Len(a.passed) + k].packet = g[k]
  /\ c.isFirst = a.isFirst

LEMMA PassBufferedOwn ==
  ASSUME Constants, NEW a, Own(a), NEW i \in 1..Len(a.buffered)
  PROVE  LET b == PassBuffered(a, i)
         IN  /\ Own(b) /\ Passes(a, b, a.buffered[i])
             /\ b.buffered = a.buffered /\ Waiting(b) = Waiting(a)
<1>1. a.buffered[i] \in Arrival
  BY Fields DEF Own
<1>2. a.bytes[a.chunkOf[i]] = a.buffered[i]
  BY DEF Own, Chunks, Allotted
<1>3. PassBuffered(a, i) = Pass(a, a.buffered[i], a.buffered[i])
  BY <1>2 DEF PassBuffered
<1> DEFINE b == Pass(a, a.buffered[i], a.buffered[i])
<1>4. Own(b) /\ Passes(a, b, a.buffered[i]) /\ b.buffered = a.buffered
  BY <1>1, PassOwn
<1> HIDE DEF b
<1>5. Waiting(b) = Waiting(a)
  BY <1>4 DEF Waiting
<1> QED
  BY <1>3, <1>4, <1>5 DEF b

LEMMA NearestIs ==
  ASSUME Constants, NEW a, Own(a), Len(a.buffered) > 0
  PROVE  /\ Nearest(a) \in 1..Len(a.buffered)
         /\ \A y \in Waiting(a) : Ahead(a, a.buffered[Nearest(a)]) <= Ahead(a, y)
<1> DEFINE n == Len(a.buffered)
           D == {Ahead(a, x) : x \in Waiting(a)}
           T == {i \in 1..n : \A j \in 1..n :
                                Ahead(a, a.buffered[i]) <= Ahead(a, a.buffered[j])}
<1>1. n \in Nat /\ DOMAIN a.buffered = 1..n /\ Waiting(a) = {a.buffered[i] : i \in 1..n}
  BY Fields, LenProperties DEF Own, Waiting
<1>2. D \subseteq Nat /\ D # {}
  BY WaitingIs
<1>3. \E m \in D : \A d \in D : m <= d
  <2> HIDE DEF D
  <2> QED
    BY <1>2, Least
<1>4. T \subseteq Nat /\ T # {}
  BY <1>1, <1>3
<1>5. \E m \in T : \A i \in T : m <= i
  <2> HIDE DEF T
  <2> QED
    BY <1>4, Least
<1>6. Nearest(a) = Min(T)
  BY <1>1 DEF Nearest, Distance, Ahead
<1>7. Min(T) \in T
  <2> HIDE DEF T
  <2> QED
    BY <1>5 DEF Min
<1> QED
  BY <1>1, <1>6, <1>7

\* The nearest packet is passed with its payload.
LEMMA PassNearestOwn ==
  ASSUME Constants, NEW a, Own(a), Len(a.buffered) > 0
  PROVE  LET b == PassNearest(a)
         IN  /\ Own(b) /\ Len(b.buffered) = Len(a.buffered) - 1
             /\ \E x \in Waiting(a) :
                  /\ Handed(a, b, 1, <<x>>)
                  /\ \A y \in Waiting(a) : Ahead(a, x) <= Ahead(a, y)
<1> DEFINE i == Nearest(a)
           c == PassBuffered(a, i)
           b == RemoveEntry(c, i)
           x == a.buffered[i]
<1>1. i \in 1..Len(a.buffered) /\ \A y \in Waiting(a) : Ahead(a, x) <= Ahead(a, y)
  BY NearestIs
<1> HIDE DEF i
<1>2. /\ Own(c) /\ Passes(a, c, x) /\ c.buffered = a.buffered /\ Waiting(c) = Waiting(a)
  BY <1>1, PassBufferedOwn
<1> HIDE DEF c
<1>3. /\ Own(b) /\ SamePassed(c, b) /\ Len(b.buffered) = Len(a.buffered) - 1
      /\ Waiting(b) = Waiting(a) \ {x}
  BY <1>1, <1>2, RemoveOwn
<1>4. PassNearest(a) = b
  BY DEF PassNearest, i, c
<1>5. x \in Waiting(a)
  BY <1>1 DEF Waiting
<1> HIDE DEF b
<1>6. ~a.isFirst
  BY <1>5, WaitingIs
<1> DEFINE g == <<x>>
<1>7. /\ \A k \in 1..1 : k = 1 /\ g[k] = x
      /\ {g[k] : k \in 1..1} = {x}
  OBVIOUS
<1> HIDE DEF g, x
<1>8. Handed(a, b, 1, g)
  <2>1. a.isFirst = FALSE /\ b.isFirst = FALSE
    BY <1>2, <1>3, <1>6, Fields DEF Own, Passes, SamePassed
  <2>2. b.passed = c.passed
    BY <1>3 DEF SamePassed
  <2>3. /\ Len(b.passed) = Len(a.passed) + 1
        /\ \A j \in 1..Len(a.passed) : b.passed[j] = a.passed[j]
        /\ b.passed[Len(a.passed) + 1].packet = x
    BY <1>2, <2>2 DEF Passes
  <2>4. \A k \in 1..1 : b.passed[Len(a.passed) + k].packet = g[k] /\ g[k] \in Waiting(a)
    BY <1>5, <1>7, <2>3
  <2>5. \A j, k \in 1..1 : g[j] = g[k] => j = k
    OBVIOUS
  <2>6. Waiting(b) = Waiting(a) \ {g[k] : k \in 1..1}
    BY <1>3, <1>7
  <2> QED
    BY <1>3, <2>1, <2>3, <2>4, <2>5, <2>6 DEF Handed
<1> QED
  BY <1>1, <1>3, <1>4, <1>5, <1>8 DEF g

\* What passing the nearest packet preserves, passing all of them does.
LEMMA FlushStays ==
  ASSUME Constants, NEW a, Own(a), NEW A, a \in A,
         \A b \in A : Own(b) /\ Len(b.buffered) > 0 => PassNearest(b) \in A
  PROVE  Flush(a) \in A /\ Own(Flush(a)) /\ Waiting(Flush(a)) = {}
<1> DEFINE n == Len(a.buffered)
           B == [k \in 0..n |-> {b \in A : Own(b) /\ Len(b.buffered) = n - k}]
           F == [k \in 1..n |-> [b \in A |-> PassNearest(b)]]
           Passing(f) == f = [k \in 0..n |-> IF k = 0 THEN a ELSE PassNearest(f[k-1])]
<1>1. n \in Nat
  BY Fields DEF Own
<1>2. a \in B[0]
  BY <1>1
<1>3. \A k \in 1..n : \A b \in B[k-1] : PassNearest(b) \in B[k]
  <2> TAKE k \in 1..n
  <2> TAKE b \in B[k-1]
  <2>1. k-1 \in 0..n /\ k \in 0..n /\ n - (k-1) > 0 /\ n - (k-1) - 1 = n - k
    BY <1>1
  <2>2. b \in A /\ Own(b) /\ Len(b.buffered) = n - (k-1)
    BY <2>1
  <2>3. Own(PassNearest(b)) /\ Len(PassNearest(b).buffered) = n - k
    BY <2>1, <2>2, PassNearestOwn
  <2> QED
    BY <2>1, <2>2, <2>3
<1>4. \E f : Passing(f)
  <2> HIDE DEF F, n
  <2> PICK f : IsLoop(f, n, F, a)
    BY <1>1, LoopEnds
  <2>1. f = [k \in 0..n |-> IF k = 0 THEN a ELSE F[k][f[k-1]]]
    BY DEF IsLoop
  <2>6. f[0] = a /\ \A k \in 1..n : f[k] = F[k][f[k-1]]
    <3>1. 0 \in 0..n /\ \A k \in 1..n : k \in 0..n /\ k # 0
      BY <1>1
    <3> QED
      BY <2>1, <3>1
  <2> USE DEF F
  <2>2. \A k \in 1..n : f[k-1] \in B[k-1] => f[k] \in B[k] /\ f[k] = PassNearest(f[k-1])
    <3> TAKE k \in 1..n
    <3> HAVE f[k-1] \in B[k-1]
    <3>1. k-1 \in 0..n
      BY <1>1
    <3>2. f[k-1] \in A
      BY <3>1
    <3>3. F[k][f[k-1]] = PassNearest(f[k-1])
      BY <3>2
    <3> HIDE DEF B, F
    <3> QED
      BY <1>3, <2>6, <3>3
  <2>3. \A k \in 0..n : f[k] \in B[k]
    <3> HIDE DEF B, n
    <3> QED
      BY <1>1, <1>2, <2>2, <2>6, Iterated
  <2>4. \A k \in 1..n : f[k] = PassNearest(f[k-1])
    <3> HIDE DEF B
    <3>1. \A k \in 1..n : k-1 \in 0..n
      BY <1>1
    <3> QED
      BY <2>2, <2>3, <3>1
  <2>5. \A k \in 0..n : f[k] = IF k = 0 THEN a ELSE PassNearest(f[k-1])
    <3>1. \A k \in 0..n : k = 0 \/ k \in 1..n
      BY <1>1
    <3> HIDE DEF F
    <3> QED
      BY <2>4, <2>6, <3>1
  <2> QED
    BY <2>1, <2>5
<1> DEFINE after == CHOOSE f : Passing(f)
<1>5. Passing(after)
  BY <1>4
<1> HIDE DEF after
<1>6. \A k \in 0..n : after[k] \in B[k]
  <2>1. after[0] = a /\ \A k \in 1..n : after[k] = PassNearest(after[k-1])
    BY <1>1, <1>5
  <2>2. \A k \in 1..n : after[k-1] \in B[k-1] => after[k] \in B[k]
    BY <1>3, <2>1
  <2> HIDE DEF B, n
  <2> QED
    BY <1>1, <1>2, <2>1, <2>2, Iterated
<1>7. Flush(a) = after[n]
  BY DEF Flush, after
<1>8. after[n] \in A /\ Own(after[n]) /\ Len(after[n].buffered) = 0
  <2>1. n \in 0..n /\ n - n = 0
    BY <1>1
  <2>2. after[n] \in B[n] /\ B[n] = {b \in A : Own(b) /\ Len(b.buffered) = n - n}
    BY <1>6, <2>1
  <2> HIDE DEF B, n
  <2> QED
    BY <2>1, <2>2
<1>9. Waiting(after[n]) = {}
  BY <1>8, WaitingIs
<1> QED
  BY <1>7, <1>8, <1>9

-----------------------------------------------------------------------------
(* ProcessBuffered. *)

LEMMA SequenceOf ==
  ASSUME NEW S, NEW n \in Nat, NEW f \in [1..n -> S]
  PROVE  f \in Seq(S) /\ Len(f) = n /\ DOMAIN f = 1..n
<1>1. f \in Seq(S)
  BY SeqDef
<1>2. Len(f) \in Nat /\ 1..Len(f) = 1..n
  BY <1>1, LenProperties
<1>3. \A m \in Nat : 1..m = 1..n => m = n
  <2> SUFFICES ASSUME NEW m \in Nat, 1..m = 1..n, m # n
               PROVE  FALSE
    OBVIOUS
  <2>1. m < n => n \in 1..n /\ n \notin 1..m
    OBVIOUS
  <2>2. n < m => m \in 1..m /\ m \notin 1..n
    OBVIOUS
  <2> QED
    BY <2>1, <2>2
<1> QED
  BY <1>1, <1>2, <1>3

\* The numbers that follow the last one end somewhere, since each takes a packet.
LEMMA FollowEnds ==
  ASSUME Constants, NEW a, Own(a)
  PROVE  \E m \in 0..Len(a.buffered) :
           /\ \A x \in Waiting(a) : Ahead(a, x) # m + 1
           /\ \A k \in 1..m : \E x \in Waiting(a) : Ahead(a, x) = k
<1> DEFINE n == Len(a.buffered)
           T == {m \in Nat : \A x \in Waiting(a) : Ahead(a, x) # m + 1}
<1>1. n \in Nat /\ IsFiniteSet(Waiting(a)) /\ Cardinality(Waiting(a)) = n
  BY WaitingIs, Fields DEF Own
<1> HIDE DEF n
<1>2. \E m \in 0..n : m \in T
  <2> SUFFICES ASSUME \A m \in 0..n : m \notin T
               PROVE  FALSE
    OBVIOUS
  <2> DEFINE S == 1..(n+1)
             f == [k \in S |-> CHOOSE x \in Waiting(a) : Ahead(a, x) = k]
  <2>1. \A k \in S : \E x \in Waiting(a) : Ahead(a, x) = k
    <3> TAKE k \in S
    <3>1. k-1 \in 0..n /\ k-1 \in Nat /\ k-1+1 = k
      BY <1>1
    <3> QED
      BY <3>1
  <2>2. \A k \in S : f[k] \in Waiting(a) /\ Ahead(a, f[k]) = k
    BY <2>1
  <2>3. f \in [S -> Waiting(a)]
    BY <2>2
  <2>4. IsFiniteSet(S) /\ Cardinality(S) = n + 1
    BY <1>1, FS_Interval
  <2>5. Cardinality(Waiting(a)) < Cardinality(S)
    BY <1>1, <2>4
  <2> HIDE DEF f, S
  <2>6. \E x, y \in S : x # y /\ f[x] = f[y]
    BY <1>1, <2>3, <2>4, <2>5, FS_PigeonHole
  <2> QED
    BY <2>2, <2>6
<1>3. \E m \in T : \A k \in T : m <= k
  <2>1. T \subseteq Nat /\ T # {}
    BY <1>2
  <2> HIDE DEF T
  <2> QED
    BY <2>1, Least
<1> PICK m \in T : \A k \in T : m <= k
  BY <1>3
<1>4. m \in 0..n
  BY <1>1, <1>2
<1>5. \A k \in 1..m : \E x \in Waiting(a) : Ahead(a, x) = k
  <2> TAKE k \in 1..m
  <2>1. k-1 \in Nat /\ ~(m <= k-1) /\ k-1+1 = k
    OBVIOUS
  <2>2. k-1 \notin T
    BY <2>1
  <2> QED
    BY <2>1, <2>2
<1> QED
  BY <1>4, <1>5 DEF n

LEMMA FollowIs ==
  ASSUME Constants, NEW a, Own(a)
  PROVE  LET f == Follow(a)
         IN  /\ Len(f) \in Nat /\ DOMAIN f = 1..Len(f) /\ (f = <<>> <=> Len(f) = 0)
             /\ \A k \in 1..Len(f) : /\ f[k] \in 1..Len(a.buffered)
                                     /\ Ahead(a, a.buffered[f[k]]) = k
             /\ \A x \in Waiting(a) : Ahead(a, x) # Len(f) + 1
<1> DEFINE n == Len(a.buffered)
           Ends(m) == Apart(a, m + 1) = {} /\ \A k \in 1..m : Apart(a, k) # {}
           m == CHOOSE m \in 0..n : Ends(m)
           f == [k \in 1..m |-> Min(Apart(a, k))]
<1>1. n \in Nat /\ DOMAIN a.buffered = 1..n /\ Waiting(a) = {a.buffered[i] : i \in 1..n}
  BY Fields, LenProperties DEF Own, Waiting
<1>2. \A k : Apart(a, k) = {i \in 1..n : Ahead(a, a.buffered[i]) = k}
  BY <1>1 DEF Apart, Distance, Ahead
<1>11. \A k : Apart(a, k) # {} <=> \E x \in Waiting(a) : Ahead(a, x) = k
  BY <1>1, <1>2, Zenon
<1>3. \E u \in 0..n : Ends(u)
  <2>1. \E u \in 0..n : /\ \A x \in Waiting(a) : Ahead(a, x) # u + 1
                        /\ \A k \in 1..u : \E x \in Waiting(a) : Ahead(a, x) = k
    BY FollowEnds
  <2> QED
    BY <1>11, <2>1, Zenon
<1>4. m \in 0..n /\ Ends(m)
  BY <1>3
<1>5. Follow(a) = f
  BY DEF Follow
<1> HIDE DEF m
<1>6. \A k \in 1..m : Min(Apart(a, k)) \in Apart(a, k)
  <2> TAKE k \in 1..m
  <2>1. Apart(a, k) \subseteq Nat /\ Apart(a, k) # {}
    BY <1>1, <1>2, <1>4
  <2>2. \E u \in Apart(a, k) : \A v \in Apart(a, k) : u <= v
    BY <2>1, Least
  <2> QED
    BY <2>2 DEF Min
<1>7. f \in [1..m -> 1..n] /\ \A k \in 1..m : f[k] \in 1..n /\ Ahead(a, a.buffered[f[k]]) = k
  BY <1>2, <1>6
<1>8. m \in Nat /\ \A x \in Waiting(a) : Ahead(a, x) # m + 1
  <2>1. m \in Nat
    BY <1>1, <1>4
  <2> QED
    BY <1>4, <1>11, <2>1, Zenon
<1> HIDE DEF f
<1>9. f \in Seq(1..n) /\ Len(f) = m /\ DOMAIN f = 1..m
  BY <1>7, <1>8, SequenceOf
<1>10. f = <<>> <=> Len(f) = 0
  BY <1>9, EmptySeq
<1> QED
  BY <1>5, <1>7, <1>8, <1>9, <1>10

\* After k packets of the list f.
PassedSoFar(a, b, f, k) ==
  /\ Own(b) /\ b.buffered = a.buffered /\ b.isFirst = a.isFirst
  /\ Len(b.passed) = Len(a.passed) + k
  /\ \A i \in 1..Len(a.passed) : b.passed[i] = a.passed[i]
  /\ \A j \in 1..k : b.passed[Len(a.passed) + j].packet = a.buffered[f[j]]

LEMMA PassOneMore ==
  ASSUME Constants, NEW a, Own(a), NEW b, NEW f, NEW k \in Nat, k > 0,
         PassedSoFar(a, b, f, k-1), f[k] \in 1..Len(a.buffered)
  PROVE  PassedSoFar(a, PassBuffered(b, f[k]), f, k)
<1> DEFINE c == PassBuffered(b, f[k])
           l == Len(a.passed)
<1>1. /\ Own(b) /\ b.buffered = a.buffered /\ Len(b.passed) = l + (k-1) /\ l \in Nat
      /\ \A i \in 1..l : b.passed[i] = a.passed[i]
      /\ \A j \in 1..(k-1) : b.passed[l + j].packet = a.buffered[f[j]]
  BY Fields DEF PassedSoFar, Own
<1>2. Own(c) /\ Passes(b, c, a.buffered[f[k]]) /\ c.buffered = a.buffered
  BY <1>1, PassBufferedOwn
<1> HIDE DEF c, l
<1>3. /\ c.isFirst = FALSE /\ Len(c.passed) = l + k
      /\ \A i \in 1..(l + (k-1)) : c.passed[i] = b.passed[i]
      /\ c.passed[l + k].packet = a.buffered[f[k]]
  <2>1. /\ c.isFirst = FALSE /\ Len(c.passed) = l + (k-1) + 1
        /\ \A i \in 1..(l + (k-1)) : c.passed[i] = b.passed[i]
        /\ c.passed[l + (k-1) + 1].packet = a.buffered[f[k]]
    BY <1>1, <1>2 DEF Passes
  <2>2. l + (k-1) + 1 = l + k
    BY <1>1
  <2> QED
    BY <2>1, <2>2
<1>4. a.isFirst = FALSE
  <2>1. a.isFirst \in BOOLEAN /\ Len(a.buffered) \in Nat
    BY Fields DEF Own
  <2>2. Len(a.buffered) # 0
    BY <2>1
  <2> QED
    BY <2>1, <2>2 DEF Own, Remembered
<1>5. \A i \in 1..l : c.passed[i] = a.passed[i]
  <2>1. \A i \in 1..l : i \in 1..(l + (k-1))
    BY <1>1
  <2> QED
    BY <1>1, <1>3, <2>1
<1>6. \A j \in 1..k : c.passed[l + j].packet = a.buffered[f[j]]
  <2> TAKE j \in 1..k
  <2>1. CASE j = k
    BY <1>3, <2>1
  <2>2. CASE j # k
    <3>1. j \in 1..(k-1) /\ l + j \in 1..(l + (k-1))
      BY <1>1, <2>2
    <3> QED
      BY <1>1, <1>3, <3>1
  <2> QED
    BY <2>1, <2>2
<1> QED
  BY <1>2, <1>3, <1>4, <1>5, <1>6 DEF PassedSoFar, c, l

LEMMA PassEachOwn ==
  ASSUME Constants, NEW a, Own(a), NEW f, Len(f) \in Nat,
         \A k \in 1..Len(f) : f[k] \in 1..Len(a.buffered)
  PROVE  PassedSoFar(a, PassEach(a, f), f, Len(f))
<1> DEFINE n == Len(f)
           B == [k \in 0..n |-> {b \in Assemblers : PassedSoFar(a, b, f, k)}]
           F == [k \in 1..n |-> [b \in Assemblers |-> PassBuffered(b, f[k])]]
           Passing(h) == h = [k \in 0..n |-> IF k = 0 THEN a
                                             ELSE PassBuffered(h[k-1], f[k])]
<1>1. n \in Nat
  OBVIOUS
<1>2. a \in B[0]
  <2>1. Len(a.passed) + 0 = Len(a.passed) /\ a \in Assemblers /\ 1..0 = {}
    BY Fields DEF Own
  <2>2. PassedSoFar(a, a, f, 0)
    BY <2>1 DEF PassedSoFar
  <2> QED
    BY <1>1, <2>1, <2>2
<1>3. \A k \in 1..n : \A b \in B[k-1] : PassBuffered(b, f[k]) \in B[k]
  <2> TAKE k \in 1..n
  <2> TAKE b \in B[k-1]
  <2>1. k-1 \in 0..n /\ k \in 0..n /\ k \in Nat /\ k > 0
    BY <1>1
  <2>2. PassedSoFar(a, b, f, k-1) /\ f[k] \in 1..Len(a.buffered)
    BY <2>1
  <2>3. PassedSoFar(a, PassBuffered(b, f[k]), f, k)
    BY <2>1, <2>2, PassOneMore
  <2>4. PassBuffered(b, f[k]) \in Assemblers
    BY <2>3 DEF PassedSoFar, Own
  <2> QED
    BY <2>1, <2>3, <2>4
<1>4. \E h : Passing(h)
  <2> HIDE DEF F, n
  <2> PICK h : IsLoop(h, n, F, a)
    BY <1>1, LoopEnds
  <2>1. h = [k \in 0..n |-> IF k = 0 THEN a ELSE F[k][h[k-1]]]
    BY DEF IsLoop
  <2>2. h[0] = a /\ \A k \in 1..n : h[k] = F[k][h[k-1]]
    <3>1. 0 \in 0..n /\ \A k \in 1..n : k \in 0..n /\ k # 0
      BY <1>1
    <3> QED
      BY <2>1, <3>1
  <2> USE DEF F
  <2>3. \A k \in 1..n :
          h[k-1] \in B[k-1] => h[k] \in B[k] /\ h[k] = PassBuffered(h[k-1], f[k])
    <3> TAKE k \in 1..n
    <3> HAVE h[k-1] \in B[k-1]
    <3>1. k-1 \in 0..n
      BY <1>1
    <3>2. h[k-1] \in Assemblers
      BY <3>1
    <3>3. F[k][h[k-1]] = PassBuffered(h[k-1], f[k])
      BY <3>2
    <3> HIDE DEF B, F
    <3> QED
      BY <1>3, <2>2, <3>3
  <2>4. \A k \in 0..n : h[k] \in B[k]
    <3> HIDE DEF B, F
    <3> QED
      BY <1>1, <1>2, <2>2, <2>3, Iterated
  <2>5. \A k \in 0..n : h[k] = IF k = 0 THEN a ELSE PassBuffered(h[k-1], f[k])
    <3> HIDE DEF B, F
    <3>1. \A k \in 1..n : k-1 \in 0..n
      BY <1>1
    <3>2. \A k \in 0..n : k = 0 \/ k \in 1..n
      BY <1>1
    <3> QED
      BY <2>2, <2>3, <2>4, <3>1, <3>2
  <2> QED
    BY <2>1, <2>5
<1> DEFINE after == CHOOSE h : Passing(h)
<1>5. Passing(after)
  BY <1>4
<1> HIDE DEF after
<1>6. \A k \in 0..n : after[k] \in B[k]
  <2>1. after[0] = a /\ \A k \in 1..n : after[k] = PassBuffered(after[k-1], f[k])
    BY <1>1, <1>5
  <2>2. \A k \in 1..n : after[k-1] \in B[k-1] => after[k] \in B[k]
    BY <1>3, <2>1
  <2> HIDE DEF B, n
  <2> QED
    BY <1>1, <1>2, <2>1, <2>2, Iterated
<1>7. PassEach(a, f) = after[n]
  BY DEF PassEach, after
<1>8. PassedSoFar(a, after[n], f, n)
  <2>1. n \in 0..n
    BY <1>1
  <2> QED
    BY <1>6, <2>1
<1> QED
  BY <1>7, <1>8

\* After the indices above m that are in the list.
RemovedSoFar(b, c, list, m) ==
  /\ Own(c) /\ SamePassed(b, c) /\ Len(c.buffered) >= m
  /\ \A j \in 1..m : c.buffered[j] = b.buffered[j]
  /\ Waiting(c) =
       Waiting(b) \ {b.buffered[j] : j \in {i \in 1..Len(b.buffered) : i > m /\ i \in list}}

LEMMA RemoveOneMore ==
  ASSUME Constants, NEW b, Own(b), NEW c, NEW list, NEW m \in 1..Len(b.buffered),
         RemovedSoFar(b, c, list, m)
  PROVE  RemovedSoFar(b, IF m \in list THEN RemoveEntry(c, m) ELSE c, list, m-1)
<1> DEFINE n == Len(b.buffered)
           Gone(k) == {b.buffered[j] : j \in {i \in 1..n : i > k /\ i \in list}}
<1>1. /\ n \in Nat /\ m \in 1..n /\ Own(c) /\ SamePassed(b, c) /\ Len(c.buffered) >= m
      /\ Len(c.buffered) \in Nat
      /\ \A j \in 1..m : c.buffered[j] = b.buffered[j]
      /\ Waiting(c) = Waiting(b) \ Gone(m)
  BY Fields DEF RemovedSoFar, Own
<1>2. \A i \in 1..n : i > m-1 <=> (i > m \/ i = m)
  BY <1>1
<1>3. CASE m \in list
  <2> DEFINE d == RemoveEntry(c, m)
  <2>1. m \in 1..Len(c.buffered)
    BY <1>1
  <2>2. /\ Own(d) /\ SamePassed(c, d) /\ Len(d.buffered) = Len(c.buffered) - 1
        /\ \A j \in 1..(m-1) : d.buffered[j] = c.buffered[j]
        /\ Waiting(d) = Waiting(c) \ {c.buffered[m]}
    BY <1>1, <2>1, RemoveOwn
  <2> HIDE DEF d
  <2>3. Gone(m-1) = Gone(m) \cup {b.buffered[m]}
    BY <1>1, <1>2, <1>3
  <2>4. c.buffered[m] = b.buffered[m]
    BY <1>1
  <2>5. Waiting(d) = Waiting(b) \ Gone(m-1)
    <3> HIDE DEF Gone
    <3> QED
      BY <1>1, <2>2, <2>3, <2>4
  <2>6. \A j \in 1..(m-1) : d.buffered[j] = b.buffered[j]
    <3>1. \A j \in 1..(m-1) : j \in 1..m
      BY <1>1
    <3> QED
      BY <1>1, <2>2, <3>1
  <2>7. Len(d.buffered) >= m-1
    BY <1>1, <2>2
  <2>8. SamePassed(b, d)
    BY <1>1, <2>2 DEF SamePassed
  <2> QED
    BY <1>3, <2>2, <2>5, <2>6, <2>7, <2>8 DEF RemovedSoFar, d
<1>4. CASE m \notin list
  <2>1. Gone(m-1) = Gone(m)
    BY <1>2, <1>4
  <2>2. Waiting(c) = Waiting(b) \ Gone(m-1)
    <3> HIDE DEF Gone
    <3> QED
      BY <1>1, <2>1
  <2>3. Len(c.buffered) >= m-1 /\ \A j \in 1..(m-1) : j \in 1..m
    BY <1>1
  <2> QED
    BY <1>1, <1>4, <2>2, <2>3 DEF RemovedSoFar
<1> QED
  BY <1>3, <1>4

LEMMA RemoveEachOwn ==
  ASSUME Constants, NEW b, Own(b), NEW list
  PROVE  LET c == RemoveEach(b, list)
         IN  /\ Own(c) /\ SamePassed(b, c)
             /\ Waiting(c) = Waiting(b)
                               \ {b.buffered[j] : j \in {i \in 1..Len(b.buffered) : i \in list}}
<1> DEFINE n == Len(b.buffered)
           Less(c, m) == IF m \in list THEN RemoveEntry(c, m) ELSE c
           B == [k \in 0..n |-> {c \in Assemblers : RemovedSoFar(b, c, list, n - k)}]
           F == [k \in 1..n |-> [c \in Assemblers |-> Less(c, n + 1 - k)]]
           Removing(h) == h = [k \in 0..n |->
                                IF k = 0 THEN b
                                ELSE IF n + 1 - k \in list THEN RemoveEntry(h[k-1], n + 1 - k)
                                ELSE h[k-1]]
<1>1. n \in Nat
  BY Fields DEF Own
<1>2. b \in B[0]
  <2>1. n - 0 = n /\ n >= n /\ b \in Assemblers /\ {i \in 1..n : i > n /\ i \in list} = {}
    BY <1>1 DEF Own
  <2>2. RemovedSoFar(b, b, list, n)
    BY <2>1 DEF RemovedSoFar, SamePassed
  <2> QED
    BY <1>1, <2>1, <2>2
<1>3. \A k \in 1..n : \A c \in B[k-1] : Less(c, n + 1 - k) \in B[k]
  <2> TAKE k \in 1..n
  <2> TAKE c \in B[k-1]
  <2>1. k-1 \in 0..n /\ k \in 0..n /\ n - (k-1) = n + 1 - k /\ n + 1 - k \in 1..n
        /\ n + 1 - k - 1 = n - k
    <3> HIDE DEF n
    <3> QED
      BY <1>1
  <2>2. RemovedSoFar(b, c, list, n + 1 - k)
    BY <2>1
  <2>3. RemovedSoFar(b, Less(c, n + 1 - k), list, n - k)
    BY <2>1, <2>2, RemoveOneMore
  <2>4. Less(c, n + 1 - k) \in Assemblers
    <3> HIDE DEF Less
    <3> QED
      BY <2>3 DEF RemovedSoFar, Own
  <2> HIDE DEF Less
  <2> QED
    BY <2>1, <2>3, <2>4
<1>4. \E h : Removing(h)
  <2> HIDE DEF F, n
  <2> PICK h : IsLoop(h, n, F, b)
    BY <1>1, LoopEnds
  <2>1. h = [k \in 0..n |-> IF k = 0 THEN b ELSE F[k][h[k-1]]]
    BY DEF IsLoop
  <2>2. h[0] = b /\ \A k \in 1..n : h[k] = F[k][h[k-1]]
    <3>1. 0 \in 0..n /\ \A k \in 1..n : k \in 0..n /\ k # 0
      BY <1>1
    <3> QED
      BY <2>1, <3>1
  <2> USE DEF F
  <2>3. \A k \in 1..n :
          h[k-1] \in B[k-1] => h[k] \in B[k] /\ h[k] = Less(h[k-1], n + 1 - k)
    <3> TAKE k \in 1..n
    <3> HAVE h[k-1] \in B[k-1]
    <3> HIDE DEF Less
    <3>1. k-1 \in 0..n
      BY <1>1
    <3>2. h[k-1] \in Assemblers
      BY <3>1
    <3>3. F[k][h[k-1]] = Less(h[k-1], n + 1 - k)
      BY <3>2
    <3> HIDE DEF B, F
    <3> QED
      BY <1>3, <2>2, <3>3
  <2>4. \A k \in 0..n : h[k] \in B[k]
    <3> HIDE DEF B, F
    <3> QED
      BY <1>1, <1>2, <2>2, <2>3, Iterated
  <2>5. \A k \in 0..n : h[k] = IF k = 0 THEN b ELSE Less(h[k-1], n + 1 - k)
    <3> HIDE DEF B, F, Less
    <3>1. \A k \in 1..n : k-1 \in 0..n
      BY <1>1
    <3>2. \A k \in 0..n : k = 0 \/ k \in 1..n
      BY <1>1
    <3> QED
      BY <2>2, <2>3, <2>4, <3>1, <3>2
  <2> HIDE DEF F
  <2> QED
    BY <2>1, <2>5
<1> DEFINE after == CHOOSE h : Removing(h)
<1>5. Removing(after)
  BY <1>4
<1> HIDE DEF after
<1>6. \A k \in 0..n : after[k] \in B[k]
  <2>1. after[0] = b /\ \A k \in 1..n : after[k] = Less(after[k-1], n + 1 - k)
    <3>1. 0 \in 0..n /\ \A k \in 1..n : k \in 0..n /\ k # 0
      BY <1>1
    <3> QED
      BY <1>5, <3>1
  <2>2. \A k \in 1..n : after[k-1] \in B[k-1] => after[k] \in B[k]
    <3> HIDE DEF Less
    <3> QED
      BY <1>3, <2>1
  <2> HIDE DEF B, n
  <2> QED
    BY <1>1, <1>2, <2>1, <2>2, Iterated
<1>7. RemoveEach(b, list) = after[n]
  BY DEF RemoveEach, after
<1>8. RemovedSoFar(b, after[n], list, n - n)
  <2>1. n \in 0..n
    BY <1>1
  <2> QED
    BY <1>6, <2>1
<1>9. {i \in 1..n : i > n - n /\ i \in list} = {i \in 1..n : i \in list}
  BY <1>1
<1> QED
  BY <1>7, <1>8, <1>9 DEF RemovedSoFar

\* What follows the last packet is passed, and the others remain.
LEMMA Processed ==
  ASSUME Constants, NEW a, Own(a)
  PROVE  LET c == ProcessBuffered(a)
         IN  /\ Own(c)
             /\ \E n \in Nat : \E g :
                  /\ Handed(a, c, n, g)
                  /\ \A k \in 1..n : Ahead(a, g[k]) = k
                  /\ \A x \in Waiting(a) : Ahead(a, x) # n + 1
<1> DEFINE f == Follow(a)
           n == Len(f)
           l == Len(a.buffered)
           b == PassEach(a, f)
           c == ProcessBuffered(a)
           g == [k \in 1..n |-> a.buffered[f[k]]]
           S == {g[k] : k \in 1..n}
<1>1. /\ n \in Nat /\ DOMAIN f = 1..n /\ (f = <<>> <=> n = 0)
      /\ \A k \in 1..n : f[k] \in 1..l /\ Ahead(a, a.buffered[f[k]]) = k
      /\ \A x \in Waiting(a) : Ahead(a, x) # n + 1
  BY FollowIs
<1>2. PassedSoFar(a, b, f, n)
  BY <1>1, PassEachOwn
<1>3. /\ Own(b) /\ b.buffered = a.buffered /\ b.isFirst = a.isFirst
      /\ Len(b.passed) = Len(a.passed) + n
      /\ \A i \in 1..Len(a.passed) : b.passed[i] = a.passed[i]
      /\ \A j \in 1..n : b.passed[Len(a.passed) + j].packet = a.buffered[f[j]]
  BY <1>2 DEF PassedSoFar
<1>4. c = IF f # <<>> /\ n = l THEN Clear(b) ELSE RemoveEach(b, ToSet(f))
  BY DEF ProcessBuffered
<1> HIDE DEF f, b, c
<1>5. Waiting(b) = Waiting(a) /\ Waiting(a) = {a.buffered[i] : i \in 1..l} /\ l \in Nat
  BY <1>3, Fields DEF Waiting, Own
<1>6. /\ g \in [1..n -> Waiting(a)] /\ \A k \in 1..n : g[k] \in Waiting(a) /\ Ahead(a, g[k]) = k
      /\ \A j, k \in 1..n : g[j] = g[k] => j = k
  BY <1>1, <1>5
<1>7. g \in Injection(1..n, Waiting(a))
  <2> HIDE DEF g
  <2> QED
    BY <1>6, Fun_IsInj
<1>8. IsFiniteSet(Waiting(a)) /\ Cardinality(Waiting(a)) = l
  BY WaitingIs
<1>9. IsFiniteSet(1..n) /\ Cardinality(1..n) = n
  <2> HIDE DEF n
  <2> QED
    BY <1>1, FS_Interval
<1>10. Own(c) /\ SamePassed(b, c) /\ Waiting(c) = Waiting(a) \ S
  <2>1. CASE f # <<>> /\ n = l
    <3>1. g \in Surjection(1..n, Waiting(a))
      <4> HIDE DEF g
      <4> QED
        BY <1>7, <1>8, <1>9, <2>1, FS_Injection
    <3>2. \A x \in Waiting(a) : \E k \in 1..n : g[k] = x
      <4> HIDE DEF g
      <4> QED
        BY <3>1, Fun_SurjectionProperties
    <3>3. Waiting(a) \ S = {}
      BY <3>2
    <3> QED
      BY <1>3, <1>4, <2>1, <3>3, ClearOwn
  <2>2. CASE ~(f # <<>> /\ n = l)
    <3>1. ToSet(f) = {f[k] : k \in 1..n}
      BY <1>1 DEF ToSet
    <3>2. {b.buffered[j] : j \in {i \in 1..Len(b.buffered) : i \in ToSet(f)}} = S
      BY <1>1, <1>3, <3>1
    <3>3. c = RemoveEach(b, ToSet(f))
      BY <1>4, <2>2
    <3> HIDE DEF S
    <3> QED
      BY <1>3, <1>5, <3>2, <3>3, RemoveEachOwn
  <2> QED
    BY <2>1, <2>2
<1>11. Len(c.buffered) = l - n
  <2>1. IsFiniteSet(S) /\ Cardinality(S) = n
    <3>1. g \in [1..n -> S] /\ \A x \in S : \E k \in 1..n : g[k] = x
      BY <1>6
    <3> HIDE DEF g, S
    <3>2. ExistsBijection(1..n, S)
      BY <1>6, <3>1, Fun_IsBij DEF ExistsBijection
    <3> QED
      BY <1>9, <3>2, FS_Bijection
  <2>2. S \subseteq Waiting(a)
    BY <1>6
  <2> HIDE DEF S
  <2>3. IsFiniteSet(Waiting(c)) /\ Cardinality(Waiting(c)) = Len(c.buffered)
    BY <1>10, WaitingIs
  <2>4. Waiting(c) \cup S = Waiting(a) /\ Waiting(c) \cap S = {}
    BY <1>10, <2>2
  <2>5. Cardinality(Waiting(c) \cup S)
          = Cardinality(Waiting(c)) + Cardinality(S) - Cardinality(Waiting(c) \cap S)
    BY <2>1, <2>3, FS_Union
  <2>6. Len(c.buffered) \in Nat
    BY <1>10, Fields DEF Own
  <2>7. l = Len(c.buffered) + n - 0
    BY <1>8, <2>1, <2>3, <2>4, <2>5, FS_EmptySet
  <2> QED
    BY <1>1, <1>5, <2>6, <2>7
<1>12. Handed(a, c, n, g)
  <2>1. c.passed = b.passed /\ c.isFirst = b.isFirst
    BY <1>10 DEF SamePassed
  <2>2. \A k \in 1..n : c.passed[Len(a.passed) + k].packet = g[k]
    BY <1>3, <2>1
  <2> HIDE DEF g
  <2> QED
    BY <1>3, <1>6, <1>10, <1>11, <2>1, <2>2 DEF Handed
<1> HIDE DEF g, n
<1> QED
  BY <1>1, <1>6, <1>10, <1>12 DEF c

-----------------------------------------------------------------------------
(* No packet is lost or repeated. *)

Whole(a, r) == Accounted(a, r) /\ \A i \in 1..Len(r) : Kept(a, i, r)

LEMMA SameArrival ==
  ASSUME NEW a, NEW r, Constants, Own(a), Accounted(a, r),
         NEW x \in Waiting(a), NEW y \in Waiting(a), x.at = y.at
  PROVE  x = y
<1>1. x \in Arrival /\ y \in Arrival
  BY WaitingIs
<1>2. x.pos = y.pos
  BY DEF Accounted
<1> QED
  BY <1>1, <1>2 DEF Arrival

LEMMA HandedIndices ==
  ASSUME Constants, NEW a, Own(a), NEW c, NEW n \in Nat, NEW g, Handed(a, c, n, g)
  PROVE  /\ Len(a.passed) \in Nat
         /\ \A j \in 1..Len(c.passed) :
              \/ j \in 1..Len(a.passed) /\ c.passed[j] = a.passed[j]
              \/ /\ j > Len(a.passed) /\ j - Len(a.passed) \in 1..n
                 /\ c.passed[j].packet = g[j - Len(a.passed)]
         /\ \A j \in 1..Len(a.passed) : j \in 1..Len(c.passed) /\ c.passed[j] = a.passed[j]
         /\ \A k \in 1..n : /\ Len(a.passed) + k \in 1..Len(c.passed)
                            /\ c.passed[Len(a.passed) + k].packet = g[k]
<1> DEFINE l == Len(a.passed)
<1>1. /\ l \in Nat /\ Len(c.passed) = l + n
      /\ \A i \in 1..l : c.passed[i] = a.passed[i]
      /\ \A k \in 1..n : c.passed[l + k].packet = g[k]
  BY Fields DEF Own, Handed
<1> HIDE DEF l
<1>2. \A j \in 1..(l + n) : j \in 1..l \/ (j > l /\ j - l \in 1..n /\ l + (j - l) = j)
  BY <1>1
<1>3. \A j \in 1..l : j \in 1..(l + n)
  BY <1>1
<1>4. \A k \in 1..n : l + k \in 1..(l + n)
  BY <1>1
<1>5. \A j \in 1..(l + n) : \/ j \in 1..l /\ c.passed[j] = a.passed[j]
                            \/ j > l /\ j - l \in 1..n /\ c.passed[j].packet = g[j - l]
  <2> TAKE j \in 1..(l + n)
  <2>1. CASE j \in 1..l
    BY <1>1, <2>1
  <2>2. CASE j > l /\ j - l \in 1..n /\ l + (j - l) = j
    <3>1. c.passed[l + (j - l)].packet = g[j - l]
      BY <1>1, <2>2
    <3> QED
      BY <2>2, <3>1
  <2> QED
    BY <1>2, <2>1, <2>2
<1> QED
  BY <1>1, <1>3, <1>4, <1>5, Zenon DEF l

LEMMA HandedWhole ==
  ASSUME Constants, NEW a, Own(a), NEW c, NEW n \in Nat, NEW g, Handed(a, c, n, g),
         NEW r, Whole(a, r)
  PROVE  Whole(c, r)
<1> DEFINE l == Len(a.passed)
<1>1. /\ \A k \in 1..n : g[k] \in Waiting(a)
      /\ \A j, k \in 1..n : g[j] = g[k] => j = k
      /\ Waiting(c) = Waiting(a) \ {g[k] : k \in 1..n}
  BY DEF Handed
<1>2. Accounted(a, r)
  BY DEF Whole
<1>3. \A x, y \in Waiting(a) : x.at = y.at => x = y
  BY <1>2, SameArrival
<1>4. /\ \A x \in Waiting(a) : x.at \in 1..Len(r) /\ x.pos = r[x.at]
      /\ \A j \in 1..l : a.passed[j].packet.at \in 1..Len(r)
                         /\ a.passed[j].packet.pos = r[a.passed[j].packet.at]
      /\ \A j, k \in 1..l : a.passed[j].packet.at = a.passed[k].packet.at => j = k
      /\ \A x \in Waiting(a), k \in 1..l : x.at # a.passed[k].packet.at
  BY <1>2 DEF Accounted
<1>5. /\ l \in Nat
      /\ \A j \in 1..Len(c.passed) :
           \/ j \in 1..l /\ c.passed[j] = a.passed[j]
           \/ j > l /\ j - l \in 1..n /\ c.passed[j].packet = g[j - l]
      /\ \A j \in 1..l : j \in 1..Len(c.passed) /\ c.passed[j] = a.passed[j]
      /\ \A k \in 1..n : l + k \in 1..Len(c.passed) /\ c.passed[l + k].packet = g[k]
  BY HandedIndices
<1> HIDE DEF l
<1>6. \A x \in Waiting(c) : x \in Waiting(a) /\ \A k \in 1..n : g[k] # x
  BY <1>1
<1>7. \A x \in Waiting(c) : x.at \in 1..Len(r) /\ x.pos = r[x.at]
  BY <1>4, <1>6
<1>8. \A j \in 1..Len(c.passed) : c.passed[j].packet.at \in 1..Len(r)
                                  /\ c.passed[j].packet.pos = r[c.passed[j].packet.at]
  <2> TAKE j \in 1..Len(c.passed)
  <2>1. CASE j \in 1..l /\ c.passed[j] = a.passed[j]
    BY <1>4, <2>1
  <2>2. CASE j - l \in 1..n /\ c.passed[j].packet = g[j - l]
    BY <1>1, <1>4, <2>2
  <2> QED
    BY <1>5, <2>1, <2>2
<1>9. \A j, k \in 1..Len(c.passed) : c.passed[j].packet.at = c.passed[k].packet.at => j = k
  <2> SUFFICES ASSUME NEW j \in 1..Len(c.passed), NEW k \in 1..Len(c.passed),
                      c.passed[j].packet.at = c.passed[k].packet.at
               PROVE  j = k
    OBVIOUS
  <2>1. CASE j \in 1..l /\ c.passed[j] = a.passed[j] /\ k \in 1..l /\ c.passed[k] = a.passed[k]
    BY <1>4, <2>1
  <2>2. CASE /\ j \in 1..l /\ c.passed[j] = a.passed[j]
             /\ k - l \in 1..n /\ c.passed[k].packet = g[k - l]
    BY <1>1, <1>4, <2>2
  <2>3. CASE /\ k \in 1..l /\ c.passed[k] = a.passed[k]
             /\ j - l \in 1..n /\ c.passed[j].packet = g[j - l]
    BY <1>1, <1>4, <2>3
  <2>4. CASE /\ j - l \in 1..n /\ c.passed[j].packet = g[j - l]
             /\ k - l \in 1..n /\ c.passed[k].packet = g[k - l]
    <3>1. g[j - l] = g[k - l]
      BY <1>1, <1>3, <2>4
    <3>2. j - l = k - l
      BY <1>1, <2>4, <3>1
    <3>3. j \in Int /\ k \in Int
      OBVIOUS
    <3> QED
      BY <1>5, <3>2, <3>3
  <2> QED
    BY <1>5, <2>1, <2>2, <2>3, <2>4
<1>10. \A x \in Waiting(c), k \in 1..Len(c.passed) : x.at # c.passed[k].packet.at
  <2> TAKE x \in Waiting(c), k \in 1..Len(c.passed)
  <2>1. CASE k \in 1..l /\ c.passed[k] = a.passed[k]
    BY <1>4, <1>6, <2>1
  <2>2. CASE k - l \in 1..n /\ c.passed[k].packet = g[k - l]
    BY <1>1, <1>3, <1>6, <2>2
  <2> QED
    BY <1>5, <2>1, <2>2
<1>11. Accounted(c, r)
  BY <1>7, <1>8, <1>9, <1>10 DEF Accounted
<1>12. \A i \in 1..Len(r) : Kept(c, i, r)
  <2> TAKE i \in 1..Len(r)
  <2>1. CASE \E x \in Waiting(a) : x.at = i
    <3>1. PICK x \in Waiting(a) : x.at = i
      BY <2>1
    <3>2. CASE x \in Waiting(c)
      BY <3>1, <3>2 DEF Kept
    <3>3. CASE \E k \in 1..n : g[k] = x
      BY <1>5, <3>1, <3>3 DEF Kept
    <3> QED
      BY <1>1, <3>2, <3>3
  <2>2. CASE \E j \in 1..l : \/ a.passed[j].packet.at = i
                             \/ /\ a.passed[j].packet.at < i
                                /\ Seq16(a.passed[j].packet) = r[i] % Modulus
    BY <1>5, <2>2 DEF Kept
  <2>3. Kept(a, i, r)
    BY DEF Whole
  <2> QED
    BY <2>1, <2>2, <2>3 DEF Kept, l
<1> QED
  BY <1>11, <1>12 DEF Whole

\* The packets that come: p is the last of them.
Came(r, p, s, x) ==
  /\ r \in Seq(Position) /\ s = Append(r, p)
  /\ x \in Arrival /\ x.pos = p /\ x.at = Len(r) + 1

LEMMA CameIs ==
  ASSUME NEW r, NEW p \in Position, NEW s, NEW x, Came(r, p, s, x)
  PROVE  /\ Len(r) \in Nat /\ s \in Seq(Position) /\ Len(s) = Len(r) + 1
         /\ x.at = Len(s) /\ x.at \notin 1..Len(r) /\ x.at \in 1..Len(s)
         /\ s[x.at] = p
         /\ \A i \in 1..Len(r) : i \in 1..Len(s) /\ s[i] = r[i]
         /\ \A i \in 1..Len(s) : i \in 1..Len(r) \/ i = x.at
<1>1. r \in Seq(Position) /\ s = Append(r, p) /\ x.at = Len(r) + 1 /\ Len(r) \in Nat
  BY LenProperties DEF Came
<1>2. /\ s \in Seq(Position) /\ Len(s) = Len(r) + 1 /\ s[Len(r) + 1] = p
      /\ \A i \in 1..Len(r) : s[i] = r[i]
  BY <1>1, AppendProperties
<1>3. \A l \in Nat : /\ l + 1 \notin 1..l /\ l + 1 \in 1..(l + 1)
                     /\ \A i \in 1..l : i \in 1..(l + 1)
                     /\ \A i \in 1..(l + 1) : i \in 1..l \/ i = l + 1
  OBVIOUS
<1>4. /\ Len(r) + 1 \notin 1..Len(r) /\ Len(r) + 1 \in 1..(Len(r) + 1)
      /\ \A i \in 1..Len(r) : i \in 1..(Len(r) + 1)
      /\ \A i \in 1..(Len(r) + 1) : i \in 1..Len(r) \/ i = Len(r) + 1
  BY <1>1, <1>3
<1> QED
  BY <1>1, <1>2, <1>4, Zenon

\* One more has come: it is neither held nor passed yet.
LEMMA AccountedStill ==
  ASSUME NEW a, NEW r, NEW p \in Position, NEW s, NEW x, Came(r, p, s, x), Accounted(a, r)
  PROVE  /\ Accounted(a, s)
         /\ \A y \in Waiting(a) : y.at # x.at
         /\ \A j \in 1..Len(a.passed) : a.passed[j].packet.at # x.at
<1>1. /\ x.at \notin 1..Len(r)
      /\ \A i \in 1..Len(r) : i \in 1..Len(s) /\ s[i] = r[i]
  BY CameIs
<1> QED
  BY <1>1, Zenon DEF Accounted

LEMMA KeptStill ==
  ASSUME NEW a, NEW r, NEW p \in Position, NEW s, NEW x, Came(r, p, s, x),
         NEW i \in 1..Len(r), Kept(a, i, r)
  PROVE  Kept(a, i, s)
<1>1. s[i] = r[i]
  BY CameIs
<1> QED
  BY <1>1, Zenon DEF Kept

\* It is passed at once.
LEMMA PassWhole ==
  ASSUME Constants, NEW a, Own(a), NEW r, NEW p \in Position, NEW s, NEW x,
         Came(r, p, s, x), Whole(a, r)
  PROVE  Whole(Pass(a, x, x), s)
<1> DEFINE b == Pass(a, x, x)
           l == Len(a.passed)
<1>1. x \in Arrival /\ x.pos = p /\ l \in Nat
  BY Fields DEF Came, Own
<1>2. Own(b) /\ Passes(a, b, x) /\ b.buffered = a.buffered
  BY <1>1, PassOwn
<1> HIDE DEF b
<1>3. /\ Accounted(a, s)
      /\ \A y \in Waiting(a) : y.at # x.at
      /\ \A j \in 1..l : a.passed[j].packet.at # x.at
  BY AccountedStill DEF Whole
<1>4. Waiting(b) = Waiting(a)
  BY <1>2 DEF Waiting
<1>5. /\ Len(b.passed) = l + 1 /\ \A j \in 1..l : b.passed[j] = a.passed[j]
      /\ b.passed[l + 1].packet = x
  BY <1>2 DEF Passes
<1> HIDE DEF l
<1>6. \A j \in 1..Len(b.passed) : (j \in 1..l /\ b.passed[j] = a.passed[j])
                                  \/ (j = l + 1 /\ b.passed[j].packet = x)
  BY <1>1, <1>5
<1>7. \A j \in 1..l : j \in 1..Len(b.passed) /\ b.passed[j] = a.passed[j]
  BY <1>1, <1>5
<1>8. x.at \in 1..Len(s) /\ s[x.at] = x.pos
  BY CameIs DEF Came
<1>9. Accounted(b, s)
  <2>1. \A y \in Waiting(b) : y.at \in 1..Len(s) /\ y.pos = s[y.at]
    BY <1>3, <1>4 DEF Accounted
  <2>2. /\ \A j \in 1..l : a.passed[j].packet.at \in 1..Len(s)
                           /\ a.passed[j].packet.pos = s[a.passed[j].packet.at]
        /\ \A j, k \in 1..l : a.passed[j].packet.at = a.passed[k].packet.at => j = k
        /\ \A y \in Waiting(a), k \in 1..l : y.at # a.passed[k].packet.at
    BY <1>3 DEF Accounted, l
  <2>3. \A j \in 1..Len(b.passed) : b.passed[j].packet.at \in 1..Len(s)
                                    /\ b.passed[j].packet.pos = s[b.passed[j].packet.at]
    BY <1>6, <1>8, <2>2
  <2>4. \A j, k \in 1..Len(b.passed) : b.passed[j].packet.at = b.passed[k].packet.at => j = k
    BY <1>3, <1>6, <2>2
  <2>5. \A y \in Waiting(b), k \in 1..Len(b.passed) : y.at # b.passed[k].packet.at
    BY <1>3, <1>4, <1>6, <2>2
  <2> QED
    BY <2>1, <2>3, <2>4, <2>5 DEF Accounted
<1>10. \A i \in 1..Len(s) : Kept(b, i, s)
  <2> TAKE i \in 1..Len(s)
  <2>1. CASE i \in 1..Len(r)
    <3>1. Kept(a, i, s)
      BY <2>1, KeptStill DEF Whole
    <3> QED
      BY <1>4, <1>7, <3>1 DEF Kept, l
  <2>2. CASE i = x.at
    <3>1. l + 1 \in 1..Len(b.passed)
      BY <1>1, <1>5
    <3> QED
      BY <1>5, <2>2, <3>1 DEF Kept
  <2> QED
    BY <2>1, <2>2, CameIs
<1> QED
  BY <1>9, <1>10 DEF Whole, b

\* It is buffered.
LEMMA BufferWhole ==
  ASSUME Constants, NEW a, NEW r, NEW p \in Position, NEW s, NEW x,
         Came(r, p, s, x), Whole(a, r), NEW b, SamePassed(a, b), Waiting(b) = Waiting(a) \cup {x}
  PROVE  Whole(b, s)
<1>1. /\ Accounted(a, s)
      /\ \A y \in Waiting(a) : y.at # x.at
      /\ \A j \in 1..Len(a.passed) : a.passed[j].packet.at # x.at
  BY AccountedStill DEF Whole
<1>2. b.passed = a.passed
  BY DEF SamePassed
<1>3. x.at \in 1..Len(s) /\ s[x.at] = x.pos
  BY CameIs DEF Came
<1>4. Accounted(b, s)
  BY <1>1, <1>2, <1>3 DEF Accounted
<1>5. \A i \in 1..Len(s) : Kept(b, i, s)
  <2> TAKE i \in 1..Len(s)
  <2>1. CASE i \in 1..Len(r)
    <3>1. Kept(a, i, s)
      BY <2>1, KeptStill DEF Whole
    <3> QED
      BY <1>2, <3>1 DEF Kept
  <2>2. CASE i = x.at
    BY <2>2 DEF Kept
  <2> QED
    BY <2>1, <2>2, CameIs
<1> QED
  BY <1>4, <1>5 DEF Whole

\* It is dropped, since it has the number of the packet that was passed last.
LEMMA DropWhole ==
  ASSUME Constants, NEW a, Own(a), ~a.isFirst, NEW r, NEW p \in Position, NEW s, NEW x,
         Came(r, p, s, x), Whole(a, r), Seq16(x) = a.number
  PROVE  Whole(a, s)
<1>1. Accounted(a, s)
  BY AccountedStill DEF Whole
<1>2. /\ Len(a.passed) \in 1..Len(a.passed) /\ Len(a.passed) \in Nat
      /\ Seq16(a.passed[Len(a.passed)].packet) = Seq16(x)
  <2>1. Len(a.passed) \in Nat /\ Len(a.passed) > 0
    BY Fields DEF Own, Remembered
  <2> QED
    BY <2>1 DEF Own, Remembered, LastPassed
<1>3. a.passed[Len(a.passed)].packet.at \in 1..Len(r)
  BY <1>2 DEF Whole, Accounted
<1>4. a.passed[Len(a.passed)].packet.at < x.at
  <2>1. x.at = Len(r) + 1 /\ Len(r) \in Nat
    BY CameIs DEF Came
  <2> QED
    BY <1>3, <2>1
<1>5. Seq16(x) = s[x.at] % Modulus
  BY CameIs DEF Came, Seq16
<1>6. Kept(a, x.at, s)
  BY <1>2, <1>4, <1>5 DEF Kept
<1>7. \A i \in 1..Len(s) : Kept(a, i, s)
  BY <1>6, CameIs, KeptStill DEF Whole
<1> QED
  BY <1>1, <1>7 DEF Whole

-----------------------------------------------------------------------------
(* How long a packet is held. *)

LEMMA DeltaZero ==
  ASSUME Constants, NEW x \in 0..(Modulus-1), NEW y \in 0..(Modulus-1),
         NEW z \in 0..(Modulus-1)
  PROVE  /\ Delta(x, z) = 0 <=> x = z
         /\ Delta(x, z) = Delta(y, z) => x = y
<1> DEFINE Less(p, q) == IF p >= q THEN p - q ELSE p + Modulus - q
<1>1. Delta(x, z) = Less(x, z) /\ Delta(y, z) = Less(y, z)
  BY DeltaIs
<1>2. Modulus \in Nat
  BY Cycle
<1>3. (Less(x, z) = 0 <=> x = z) /\ (Less(x, z) = Less(y, z) => x = y)
  BY <1>2
<1> QED
  BY <1>1, <1>3

LEMMA HandedLast ==
  ASSUME Constants, NEW a, Own(a), ~a.isFirst, NEW c, Own(c), NEW n \in Nat, NEW g,
         Handed(a, c, n, g)
  PROVE  /\ ~c.isFirst /\ c.isFirst = a.isFirst
         /\ n = 0 => LastPassed(c) = LastPassed(a) /\ c.number = a.number
                     /\ c.timestamp = a.timestamp
         /\ n > 0 => LastPassed(c) = g[n] /\ c.number = Seq16(g[n])
                     /\ c.timestamp = Timestamp[g[n].pos]
<1>1. /\ c.isFirst = a.isFirst /\ ~c.isFirst /\ Len(c.passed) = Len(a.passed) + n
      /\ \A i \in 1..Len(a.passed) : c.passed[i] = a.passed[i]
      /\ \A k \in 1..n : c.passed[Len(a.passed) + k].packet = g[k]
  BY DEF Handed
<1>2. /\ a.number = Seq16(LastPassed(a)) /\ a.timestamp = Timestamp[LastPassed(a).pos]
      /\ c.number = Seq16(LastPassed(c)) /\ c.timestamp = Timestamp[LastPassed(c).pos]
      /\ Len(a.passed) > 0 /\ Len(a.passed) \in Nat
  BY <1>1, Fields DEF Own, Remembered
<1>3. n = 0 => LastPassed(c) = LastPassed(a)
  <2> SUFFICES ASSUME n = 0
               PROVE  LastPassed(c) = LastPassed(a)
    OBVIOUS
  <2>1. Len(c.passed) = Len(a.passed) /\ Len(a.passed) \in 1..Len(a.passed)
    BY <1>1, <1>2
  <2> QED
    BY <1>1, <2>1 DEF LastPassed
<1>4. n > 0 => LastPassed(c) = g[n]
  BY <1>1 DEF LastPassed
<1> QED
  BY <1>1, <1>2, <1>3, <1>4

\* As Brief, but before what follows the packet that was passed last is passed as well.
Near(a, t) ==
  /\ \A x \in Waiting(a) : /\ Ahead(a, x) >= 1 /\ Ahead(a, x) <= MaxCorrection
                           /\ t - x.at + Ahead(a, x) <= Len(a.buffered) + MaxCorrection - 1
  /\ \A x, y \in Waiting(a) : Ahead(a, x) = Ahead(a, y) => x = y

LEMMA HandedBrief ==
  ASSUME Constants, NEW a, Own(a), ~a.isFirst, NEW c, Own(c), NEW n \in Nat, NEW g,
         Handed(a, c, n, g), \A k \in 1..n : Ahead(a, g[k]) = k,
         \A x \in Waiting(a) : Ahead(a, x) # n + 1, NEW t \in Nat, Near(a, t)
  PROVE  Brief(c, t)
<1>1. /\ \A k \in 1..n : g[k] \in Waiting(a)
      /\ \A x \in Waiting(c) : x \in Waiting(a) /\ \A k \in 1..n : g[k] # x
      /\ Len(c.buffered) = Len(a.buffered) - n /\ Len(a.buffered) \in Nat
  BY Fields DEF Handed, Own
<1>2. \A x \in Waiting(a) : x \in Arrival /\ Ahead(a, x) \in Nat /\ x.at \in Nat
  BY WaitingIs, Arrivals
<1>3. \A x \in Waiting(c) : Ahead(a, x) >= n + 2
  <2> TAKE x \in Waiting(c)
  <2>1. x \in Waiting(a) /\ Ahead(a, x) \in Nat /\ Ahead(a, x) >= 1 /\ Ahead(a, x) # n + 1
    BY <1>1, <1>2 DEF Near
  <2>2. Ahead(a, x) \notin 1..n
    <3> SUFFICES ASSUME Ahead(a, x) \in 1..n
                 PROVE  FALSE
      OBVIOUS
    <3>1. Ahead(a, g[Ahead(a, x)]) = Ahead(a, x) /\ g[Ahead(a, x)] \in Waiting(a)
      BY <1>1
    <3>2. g[Ahead(a, x)] = x
      BY <2>1, <3>1 DEF Near
    <3> QED
      BY <1>1, <3>2
  <2>3. \A d \in Nat : d >= 1 /\ d # n + 1 /\ d \notin 1..n => d >= n + 2
    OBVIOUS
  <2> QED
    BY <2>1, <2>2, <2>3
<1>4. \A x \in Waiting(c) : Ahead(c, x) = Ahead(a, x) - n
  <2> TAKE x \in Waiting(c)
  <2>1. x \in Waiting(a) /\ Ahead(a, x) \in Nat /\ Ahead(a, x) >= n + 2
    BY <1>1, <1>2, <1>3
  <2>2. CASE n = 0
    <3>1. c.number = a.number
      BY <2>2, HandedLast
    <3> QED
      BY <2>1, <2>2, <3>1 DEF Ahead
  <2>3. CASE n > 0
    <3>1. c.number = Seq16(g[n])
      BY <2>3, HandedLast
    <3>2. n \in 1..n
      BY <2>3
    <3>3. Ahead(a, g[n]) = n /\ g[n] \in Arrival /\ x \in Arrival
      BY <1>1, <1>2, <2>1, <3>2
    <3>4. a.number \in 0..(Modulus-1)
      BY WaitingIs
    <3>5. Seq16(g[n]) \in 0..(Modulus-1) /\ Seq16(x) \in 0..(Modulus-1)
      BY <3>3, Arrivals
    <3>6. Delta(Seq16(g[n]), a.number) <= Delta(Seq16(x), a.number)
      BY <2>1, <3>3 DEF Ahead
    <3>7. Delta(Seq16(x), Seq16(g[n])) =
            Delta(Seq16(x), a.number) - Delta(Seq16(g[n]), a.number)
      BY <3>4, <3>5, <3>6, DeltaFrom
    <3> QED
      BY <3>1, <3>3, <3>7 DEF Ahead
  <2> QED
    BY <2>2, <2>3
<1>5. MaxCorrection \in Nat
  BY Cycle
<1>6. ASSUME NEW x \in Waiting(c)
      PROVE  /\ Ahead(c, x) >= 2 /\ Ahead(c, x) <= MaxCorrection
             /\ t - x.at + Ahead(c, x) <= Len(c.buffered) + MaxCorrection - 1
  <2>1. /\ Ahead(a, x) \in Nat /\ Ahead(a, x) >= n + 2 /\ Ahead(a, x) <= MaxCorrection
        /\ Ahead(c, x) = Ahead(a, x) - n /\ x.at \in Nat
        /\ t - x.at + Ahead(a, x) <= Len(a.buffered) + MaxCorrection - 1
    BY <1>1, <1>2, <1>3, <1>4, <1>6 DEF Near
  <2>2. \A d, m, l, l2, k \in Int : l2 = l - n /\ d >= n + 2 /\ d <= m /\ t - k + d <= l + m - 1 =>
                               d - n >= 2 /\ d - n <= m /\ t - k + (d - n) <= l2 + m - 1
    OBVIOUS
  <2>3. Len(a.buffered) \in Int /\ Len(c.buffered) \in Int /\ Len(c.buffered) = Len(a.buffered) - n
    BY <1>1
  <2>4. Ahead(a, x) \in Int /\ x.at \in Int /\ MaxCorrection \in Int
    BY <1>5, <2>1
  <2> QED
    BY <2>1, <2>2, <2>3, <2>4, Zenon
<1>7. \A x, y \in Waiting(c) : Ahead(c, x) = Ahead(c, y) => x = y
  <2> TAKE x, y \in Waiting(c)
  <2>1. x \in Waiting(a) /\ y \in Waiting(a) /\ Ahead(a, x) \in Nat /\ Ahead(a, y) \in Nat
    BY <1>1, <1>2
  <2>2. Ahead(c, x) = Ahead(c, y) => Ahead(a, x) = Ahead(a, y)
    BY <1>4, <2>1
  <2> QED
    BY <2>1, <2>2 DEF Near
<1> QED
  BY <1>6, <1>7 DEF Brief

\* The next packet is passed.
LEMMA PassBrief ==
  ASSUME Constants, NEW a, Own(a), NEW t \in Nat, Brief(a, t), NEW x \in Arrival,
         Ahead(a, x) = 1, NEW u \in Nat, u = t + 1
  PROVE  Near(Pass(a, x, x), u)
<1> DEFINE b == Pass(a, x, x)
<1>1. Passes(a, b, x) /\ b.buffered = a.buffered
  BY PassOwn
<1> HIDE DEF b
<1>2. Waiting(b) = Waiting(a) /\ b.number = Seq16(x)
  BY <1>1 DEF Waiting, Passes
<1>3. \A y \in Waiting(a) : y \in Arrival /\ Ahead(a, y) \in Nat /\ y.at \in Nat
                            /\ Ahead(a, y) >= 2
  BY WaitingIs, Arrivals DEF Brief
<1>4. \A y \in Waiting(a) : Ahead(b, y) = Ahead(a, y) - 1
  <2> TAKE y \in Waiting(a)
  <2>1. /\ a.number \in 0..(Modulus-1) /\ Seq16(x) \in 0..(Modulus-1)
        /\ Seq16(y) \in 0..(Modulus-1)
    BY <1>3, Arrivals, WaitingIs
  <2>2. Delta(Seq16(x), a.number) <= Delta(Seq16(y), a.number)
    BY <1>3 DEF Ahead
  <2> QED
    BY <1>2, <2>1, <2>2, DeltaFrom DEF Ahead
<1>5. MaxCorrection \in Nat /\ Len(a.buffered) \in Nat /\ Len(b.buffered) = Len(a.buffered)
  BY <1>1, Cycle, Fields DEF Own
<1>6. ASSUME NEW y \in Waiting(a)
      PROVE  /\ Ahead(b, y) >= 1 /\ Ahead(b, y) <= MaxCorrection
             /\ u - y.at + Ahead(b, y) <= Len(b.buffered) + MaxCorrection - 1
  <2>1. /\ Ahead(a, y) \in Nat /\ Ahead(a, y) >= 2 /\ Ahead(a, y) <= MaxCorrection
        /\ Ahead(b, y) = Ahead(a, y) - 1 /\ y.at \in Nat
        /\ t - y.at + Ahead(a, y) <= Len(a.buffered) + MaxCorrection - 1
    BY <1>3, <1>4, <1>6 DEF Brief
  <2>2. \A d, m, l, k \in Nat : d >= 2 /\ d <= m /\ t - k + d <= l + m - 1 =>
                        d - 1 >= 1 /\ d - 1 <= m /\ u - k + (d - 1) <= l + m - 1
    OBVIOUS
  <2> QED
    BY <1>5, <2>1, <2>2, Zenon
<1>7. \A y, z \in Waiting(a) : Ahead(b, y) = Ahead(b, z) => y = z
  <2> TAKE y, z \in Waiting(a)
  <2>1. Ahead(b, y) = Ahead(b, z) => Ahead(a, y) = Ahead(a, z)
    BY <1>3, <1>4
  <2> QED
    BY <2>1 DEF Brief
<1>8. Near(b, u)
  BY <1>2, <1>6, <1>7 DEF Near
<1> QED
  BY <1>8 DEF b

\* A packet that is ahead is buffered.
LEMMA BufferBrief ==
  ASSUME Constants, NEW a, Own(a), NEW t \in Nat, Brief(a, t), NEW x \in Arrival,
         Ahead(a, x) >= 2, Ahead(a, x) <= MaxCorrection, Ahead(a, x) \in Nat,
         NEW u \in Nat, u = t + 1, x.at = u,
         \A y \in Waiting(a) : Ahead(a, y) # Ahead(a, x),
         NEW b, SamePassed(a, b), Waiting(b) = Waiting(a) \cup {x},
         Len(b.buffered) = Len(a.buffered) + 1
  PROVE  Brief(b, u)
<1>1. \A y : Ahead(b, y) = Ahead(a, y)
  BY DEF Ahead, SamePassed
<1>2. \A y \in Waiting(a) : Ahead(a, y) \in Nat /\ y.at \in Nat
  BY WaitingIs, Arrivals
<1>3. MaxCorrection \in Nat /\ Len(a.buffered) \in Nat
  BY Cycle, Fields DEF Own
<1>4. ASSUME NEW y \in Waiting(b)
      PROVE  /\ Ahead(b, y) >= 2 /\ Ahead(b, y) <= MaxCorrection
             /\ u - y.at + Ahead(b, y) <= Len(b.buffered) + MaxCorrection - 1
  <2>1. CASE y \in Waiting(a)
    <3>1. /\ Ahead(a, y) \in Nat /\ Ahead(a, y) >= 2 /\ Ahead(a, y) <= MaxCorrection
          /\ y.at \in Nat /\ t - y.at + Ahead(a, y) <= Len(a.buffered) + MaxCorrection - 1
      BY <1>2, <2>1 DEF Brief
    <3>2. \A d, m, l, k \in Nat : t - k + d <= l + m - 1 => u - k + d <= l + 1 + m - 1
      OBVIOUS
    <3> QED
      BY <1>1, <1>3, <3>1, <3>2, Zenon
  <2>2. CASE y = x
    <3>1. \A d, m, l \in Nat : d <= m => u - u + d <= l + 1 + m - 1
      OBVIOUS
    <3> QED
      BY <1>1, <1>3, <2>2, <3>1, Zenon
  <2> QED
    BY <1>4, <2>1, <2>2
<1>5. \A y, z \in Waiting(b) : Ahead(b, y) = Ahead(b, z) => y = z
  <2>1. \A y, z \in Waiting(a) : Ahead(a, y) = Ahead(a, z) => y = z
    BY DEF Brief
  <2> QED
    BY <1>1, <2>1
<1> QED
  BY <1>4, <1>5 DEF Brief

\* There are fewer numbers than MaxCorrection for those that are held.
LEMMA BriefIsShort ==
  ASSUME Constants, NEW a, Own(a), NEW t, Brief(a, t)
  PROVE  Len(a.buffered) < MaxCorrection
<1> DEFINE f == [x \in Waiting(a) |-> Ahead(a, x)]
           T == 2..MaxCorrection
<1>1. MaxCorrection \in Nat /\ MaxCorrection >= 1 /\ Len(a.buffered) \in Nat
  BY Cycle, Fields DEF Own
<1>2. IsFiniteSet(Waiting(a)) /\ Cardinality(Waiting(a)) = Len(a.buffered)
  BY WaitingIs
<1>3. IsFiniteSet(T) /\ Cardinality(T) = MaxCorrection - 1
  <2>1. IsFiniteSet(T)
        /\ Cardinality(T) = IF 2 > MaxCorrection THEN 0 ELSE MaxCorrection - 2 + 1
    BY <1>1, FS_Interval
  <2> QED
    BY <1>1, <2>1
<1>4. f \in [Waiting(a) -> T]
  <2>1. \A x \in Waiting(a) : Ahead(a, x) \in Nat /\ Ahead(a, x) >= 2
                              /\ Ahead(a, x) <= MaxCorrection
    BY WaitingIs DEF Brief
  <2> QED
    BY <1>1, <2>1
<1>5. \A x, y \in Waiting(a) : f[x] = f[y] => x = y
  BY DEF Brief
<1> HIDE DEF f, T
<1>6. f \in Injection(Waiting(a), T)
  BY <1>4, <1>5, Fun_IsInj
<1>7. Cardinality(Waiting(a)) <= Cardinality(T)
  BY <1>3, <1>6, FS_Injection
<1> QED
  BY <1>1, <1>2, <1>3, <1>7

-----------------------------------------------------------------------------
(* ProcessPacket. *)

LEMMA Branches ==
  ASSUME NEW a, NEW x
  PROVE  /\ a.isFirst => ProcessPacket(a, x) = Pass(a, x, x)
         /\ IsNext(a, x) =>
              ProcessPacket(a, x) = ProcessBuffered(Pass(a, x, x))
         /\ AtOnce(a, x) => ProcessPacket(a, x) = Pass(Flush(a), x, x)
         /\ ~a.isFirst /\ ~IsNext(a, x) /\ ~AtOnce(a, x) =>
              ProcessPacket(a, x) = IF Seq16(x) = a.number THEN a ELSE Hold(a, x)
<1>1. IsNext(a, x) => ~a.isFirst
  BY DEF IsNext
<1>2. AtOnce(a, x) => ~a.isFirst /\ ~IsNext(a, x)
  BY DEF AtOnce
<1> QED
  BY <1>1, <1>2 DEF ProcessPacket

LEMMA FlushWhole ==
  ASSUME Constants, NEW a, Own(a), ~a.isFirst, NEW r, Whole(a, r)
  PROVE  LET b == Flush(a)
         IN  Own(b) /\ Whole(b, r) /\ ~b.isFirst /\ Waiting(b) = {} /\ Len(b.buffered) = 0
<1> DEFINE A == {b \in Assemblers : Own(b) /\ Whole(b, r) /\ ~b.isFirst}
<1>1. a \in A
  BY DEF Own
<1>2. \A b \in A : Own(b) /\ Len(b.buffered) > 0 => PassNearest(b) \in A
  <2> TAKE b \in A
  <2> HAVE Own(b) /\ Len(b.buffered) > 0
  <2> DEFINE c == PassNearest(b)
  <2>1. Own(c) /\ \E x \in Waiting(b) : Handed(b, c, 1, <<x>>)
    BY PassNearestOwn
  <2> HIDE DEF c
  <2>2. Whole(c, r) /\ ~c.isFirst
    <3>1. 1 \in Nat /\ Whole(b, r) /\ ~b.isFirst
      OBVIOUS
    <3>2. PICK x \in Waiting(b) : Handed(b, c, 1, <<x>>)
      BY <2>1
    <3>3. Whole(c, r)
      BY <3>1, <3>2, HandedWhole
    <3> QED
      BY <3>1, <3>2, <3>3 DEF Handed
  <2>3. c \in Assemblers
    BY <2>1 DEF Own
  <2> QED
    BY <2>1, <2>2, <2>3 DEF c
<1>3. Flush(a) \in A /\ Own(Flush(a)) /\ Waiting(Flush(a)) = {}
  <2> HIDE DEF A
  <2> QED
    BY <1>1, <1>2, FlushStays
<1>4. Len(Flush(a).buffered) = 0
  <2>1. Len(Flush(a).buffered) \in Nat
    BY <1>3, Fields DEF Own
  <2> QED
    BY <1>3, <2>1, WaitingIs
<1> QED
  BY <1>3, <1>4

LEMMA PassNearestWhole ==
  ASSUME Constants, NEW a, Own(a), Len(a.buffered) > 0, NEW r, Whole(a, r)
  PROVE  LET b == PassNearest(a)
         IN  /\ Own(b) /\ Whole(b, r) /\ b.isFirst = a.isFirst
             /\ Len(b.buffered) = Len(a.buffered) - 1
<1> DEFINE b == PassNearest(a)
<1>1. Own(b) /\ Len(b.buffered) = Len(a.buffered) - 1
      /\ \E x \in Waiting(a) : Handed(a, b, 1, <<x>>)
  BY PassNearestOwn
<1> HIDE DEF b
<1>2. PICK x \in Waiting(a) : Handed(a, b, 1, <<x>>)
  BY <1>1
<1>3. Whole(b, r)
  <2>1. 1 \in Nat
    OBVIOUS
  <2> QED
    BY <1>2, <2>1, HandedWhole
<1>4. b.isFirst = a.isFirst
  BY <1>2 DEF Handed
<1> QED
  BY <1>1, <1>3, <1>4 DEF b

LEMMA ProcessedWhole ==
  ASSUME Constants, NEW a, Own(a), NEW r, Whole(a, r)
  PROVE  LET b == ProcessBuffered(a)
         IN  /\ Own(b) /\ Whole(b, r) /\ b.isFirst = a.isFirst
             /\ Len(b.buffered) <= Len(a.buffered)
<1> DEFINE b == ProcessBuffered(a)
<1>1. Own(b) /\ \E n \in Nat : \E g : Handed(a, b, n, g)
  BY Processed
<1> HIDE DEF b
<1>2. PICK n \in Nat : \E g : Handed(a, b, n, g)
  BY <1>1
<1>3. PICK g : Handed(a, b, n, g)
  BY <1>2
<1>4. Whole(b, r)
  BY <1>3, HandedWhole
<1>5. b.isFirst = a.isFirst /\ Len(b.buffered) = Len(a.buffered) - n
  BY <1>3 DEF Handed
<1>6. Len(a.buffered) \in Nat
  BY Fields DEF Own
<1>7. Len(b.buffered) <= Len(a.buffered)
  BY <1>5, <1>6
<1> QED
  BY <1>1, <1>4, <1>5, <1>7 DEF b

LEMMA Buffered ==
  ASSUME Constants, NEW a, Own(a), ~a.isFirst, Len(a.buffered) < MaxCorrection,
         NEW r, NEW p \in Position, NEW s, NEW x, Came(r, p, s, x), Whole(a, r)
  PROVE  LET b == Buffer(a, x)
         IN  /\ Own(b) /\ SamePassed(a, b) /\ Len(b.buffered) = Len(a.buffered) + 1
             /\ Waiting(b) = Waiting(a) \cup {x} /\ Whole(b, s)
<1> DEFINE b == Buffer(a, x)
<1>1. x \in Arrival
  BY DEF Came
<1>2. x \notin Waiting(a)
  BY AccountedStill DEF Whole
<1>3. /\ Own(b) /\ SamePassed(a, b) /\ Len(b.buffered) = Len(a.buffered) + 1
      /\ Waiting(b) = Waiting(a) \cup {x}
  BY <1>1, <1>2, BufferOwn
<1> HIDE DEF b
<1>4. Whole(b, s)
  BY <1>3, BufferWhole
<1> QED
  BY <1>3, <1>4 DEF b

\* Whatever comes, payloads are kept with their packets, and no packet is lost or repeated.
LEMMA ProcessWhole ==
  ASSUME Constants, NEW a, Own(a), Len(a.buffered) < MaxCorrection,
         NEW r, NEW p \in Position, NEW s, NEW x, Came(r, p, s, x), Whole(a, r)
  PROVE  LET b == ProcessPacket(a, x)
         IN  Own(b) /\ Whole(b, s) /\ Len(b.buffered) < MaxCorrection /\ ~b.isFirst
<1> DEFINE b == ProcessPacket(a, x)
<1>1. /\ x \in Arrival /\ Len(a.buffered) \in Nat /\ MaxCorrection \in Nat
      /\ MaxCorrection >= 1 /\ a.isFirst \in BOOLEAN
  BY Fields, Cycle DEF Came, Own
<1> DEFINE c == Pass(a, x, x)
<1>2. Own(c) /\ Whole(c, s) /\ ~c.isFirst /\ Len(c.buffered) = Len(a.buffered)
  <2>1. Own(c) /\ Passes(a, c, x) /\ c.buffered = a.buffered
    BY <1>1, PassOwn
  <2>2. Whole(c, s)
    BY PassWhole
  <2> HIDE DEF c
  <2> QED
    BY <2>1, <2>2 DEF Passes
<1>3. CASE a.isFirst
  <2>1. b = c
    BY <1>3, Branches
  <2> HIDE DEF b, c
  <2>2. Own(b) /\ Whole(b, s) /\ Len(b.buffered) < MaxCorrection /\ ~b.isFirst
    BY <1>2, <2>1
  <2> QED
    BY <2>2 DEF b
<1>4. CASE IsNext(a, x)
  <2>1. b = ProcessBuffered(c)
    BY <1>4, Branches
  <2> HIDE DEF b, c
  <2>2. Own(b) /\ Whole(b, s) /\ b.isFirst = c.isFirst /\ Len(b.buffered) <= Len(c.buffered)
    BY <1>2, <2>1, ProcessedWhole
  <2>3. Len(b.buffered) \in Nat
    BY <2>2, Fields DEF Own
  <2>4. Own(b) /\ Whole(b, s) /\ Len(b.buffered) < MaxCorrection /\ ~b.isFirst
    BY <1>1, <1>2, <2>2, <2>3
  <2> QED
    BY <2>4 DEF b
<1>5. CASE AtOnce(a, x)
  <2> DEFINE d == Flush(a)
  <2>1. b = Pass(d, x, x)
    BY <1>5, Branches
  <2>2. ~a.isFirst
    BY <1>5 DEF AtOnce
  <2>3. Own(d) /\ Whole(d, r) /\ Len(d.buffered) = 0
    BY <2>2, FlushWhole
  <2> HIDE DEF b, d
  <2>4. Own(b) /\ Passes(d, b, x) /\ b.buffered = d.buffered
    BY <1>1, <2>1, <2>3, PassOwn
  <2>5. Whole(b, s)
    BY <2>1, <2>3, PassWhole
  <2>6. Own(b) /\ Whole(b, s) /\ Len(b.buffered) < MaxCorrection /\ ~b.isFirst
    BY <1>1, <2>3, <2>4, <2>5 DEF Passes
  <2> QED
    BY <2>6 DEF b
<1>6. CASE ~a.isFirst /\ ~IsNext(a, x) /\ ~AtOnce(a, x) /\ Seq16(x) = a.number
  <2>1. b = a
    BY <1>6, Branches
  <2>2. Whole(a, s)
    BY <1>6, DropWhole
  <2> HIDE DEF b
  <2>3. Own(b) /\ Whole(b, s) /\ Len(b.buffered) < MaxCorrection /\ ~b.isFirst
    BY <1>6, <2>1, <2>2
  <2> QED
    BY <2>3 DEF b
<1>7. CASE ~a.isFirst /\ ~IsNext(a, x) /\ ~AtOnce(a, x) /\ Seq16(x) # a.number
  <2> DEFINE d == Buffer(a, x)
             e == PassNearest(d)
  <2>1. b = IF Len(d.buffered) # MaxCorrection THEN d ELSE ProcessBuffered(e)
    BY <1>7, Branches DEF Hold
  <2>2. /\ Own(d) /\ SamePassed(a, d) /\ Len(d.buffered) = Len(a.buffered) + 1 /\ Whole(d, s)
    BY <1>7, Buffered
  <2> HIDE DEF b, d
  <2>3. Len(d.buffered) > 0 /\ d.isFirst = a.isFirst
    BY <1>1, <2>2 DEF SamePassed
  <2>4. /\ Own(e) /\ Whole(e, s) /\ e.isFirst = a.isFirst /\ Len(e.buffered) = Len(a.buffered)
    <3>1. /\ Own(e) /\ Whole(e, s) /\ e.isFirst = d.isFirst
          /\ Len(e.buffered) = Len(d.buffered) - 1
      BY <2>2, <2>3, PassNearestWhole
    <3> HIDE DEF e
    <3> QED
      BY <1>1, <2>2, <2>3, <3>1
  <2> HIDE DEF e
  <2>5. CASE Len(d.buffered) # MaxCorrection
    <3>1. Len(d.buffered) < MaxCorrection
      BY <1>1, <2>2, <2>5
    <3>2. Own(b) /\ Whole(b, s) /\ Len(b.buffered) < MaxCorrection /\ ~b.isFirst
      BY <1>7, <2>1, <2>2, <2>3, <2>5, <3>1
    <3> QED
      BY <3>2 DEF b
  <2>6. CASE Len(d.buffered) = MaxCorrection
    <3>1. b = ProcessBuffered(e)
      BY <2>1, <2>6
    <3>2. Own(b) /\ Whole(b, s) /\ b.isFirst = e.isFirst /\ Len(b.buffered) <= Len(e.buffered)
      BY <2>4, <3>1, ProcessedWhole
    <3>3. Len(b.buffered) \in Nat
      BY <3>2, Fields DEF Own
    <3>4. Own(b) /\ Whole(b, s) /\ Len(b.buffered) < MaxCorrection /\ ~b.isFirst
      BY <1>1, <1>7, <2>4, <3>2, <3>3
    <3> QED
      BY <3>4 DEF b
  <2> QED
    BY <2>5, <2>6
<1> QED
  BY <1>1, <1>3, <1>4, <1>5, <1>6, <1>7

\* What is neither the next packet nor taken at once nor dropped is ahead.
LEMMA HeldAhead ==
  ASSUME Constants, NEW a, Own(a), ~a.isFirst, NEW x \in Arrival,
         ~IsNext(a, x), ~AtOnce(a, x), Seq16(x) # a.number
  PROVE  /\ Ahead(a, x) \in Nat /\ Ahead(a, x) >= 2 /\ Ahead(a, x) <= MaxCorrection
         /\ a.timestamp = Timestamp[x.pos]
<1>1. Seq16(x) \in 0..(Modulus-1) /\ a.number \in 0..(Modulus-1)
  BY Arrivals, WaitingIs
<1>2. Ahead(a, x) \in 0..(Modulus-1) /\ Ahead(a, x) # 0
  BY <1>1, DeltaIs, DeltaZero DEF Ahead
<1>3. Ahead(a, x) # 1
  BY DEF IsNext, Ahead
<1>4. a.timestamp = Timestamp[x.pos] /\ ~(Ahead(a, x) > MaxCorrection)
  BY DEF AtOnce, Ahead
<1>5. MaxCorrection \in Nat /\ Modulus \in Nat
  BY Cycle
<1>6. \A d \in 0..(Modulus-1), m \in Nat :
        d # 0 /\ d # 1 /\ ~(d > m) => d \in Nat /\ d >= 2 /\ d <= m
  BY <1>5
<1> QED
  BY <1>2, <1>3, <1>4, <1>5, <1>6

LEMMA ProcessBrief ==
  ASSUME Constants, NEW a, Own(a), Len(a.buffered) < MaxCorrection,
         NEW r, NEW p \in Position, NEW s, NEW x, Came(r, p, s, x), Whole(a, r),
         Brief(a, Len(r)), ~Doubles(a, x)
  PROVE  Brief(ProcessPacket(a, x), Len(s))
<1> DEFINE b == ProcessPacket(a, x)
           t == Len(r)
           u == Len(s)
<1>1. /\ x \in Arrival /\ t \in Nat /\ u \in Nat /\ u = t + 1 /\ x.at = u
      /\ a.isFirst \in BOOLEAN
  <2>1. t \in Nat /\ u = t + 1 /\ x.at = u
    BY CameIs
  <2> HIDE DEF t, u
  <2> QED
    BY <2>1, Fields DEF Came, Own
<1> HIDE DEF t, u
<1> DEFINE c == Pass(a, x, x)
<1>2. Own(c) /\ Passes(a, c, x) /\ c.buffered = a.buffered
  BY <1>1, PassOwn
<1> HIDE DEF c
<1>3. CASE a.isFirst
  <2>1. b = c
    BY <1>3, Branches DEF c
  <2>2. Waiting(a) = {}
    BY <1>3, WaitingIs
  <2>3. Waiting(c) = {}
    BY <1>2, <2>2 DEF Waiting
  <2>4. Brief(c, u)
    BY <2>3 DEF Brief
  <2> QED
    BY <2>1, <2>4 DEF u
<1>4. CASE IsNext(a, x)
  <2>1. b = ProcessBuffered(c)
    BY <1>4, Branches DEF c
  <2>2. Ahead(a, x) = 1
    BY <1>4 DEF IsNext, Ahead
  <2>3. Near(c, u)
    BY <1>1, <2>2, PassBrief DEF c, t
  <2>4. ~c.isFirst
    BY <1>2 DEF Passes
  <2> HIDE DEF b
  <2>5. PICK n \in Nat : \E g : /\ Handed(c, b, n, g)
                                /\ \A k \in 1..n : Ahead(c, g[k]) = k
                                /\ \A y \in Waiting(c) : Ahead(c, y) # n + 1
    BY <1>2, <2>1, Processed
  <2>6. Own(b)
    BY <1>2, <2>1, Processed
  <2>7. Brief(b, u)
    BY <1>1, <1>2, <2>3, <2>4, <2>5, <2>6, HandedBrief
  <2> QED
    BY <2>7 DEF b, u
<1>5. CASE AtOnce(a, x)
  <2> DEFINE d == Flush(a)
  <2>1. b = Pass(d, x, x)
    BY <1>5, Branches
  <2>2. ~a.isFirst
    BY <1>5 DEF AtOnce
  <2>3. Own(d) /\ Waiting(d) = {}
    BY <2>2, FlushWhole
  <2> HIDE DEF b, d
  <2>4. b.buffered = d.buffered
    BY <1>1, <2>1, <2>3, PassOwn
  <2>5. Waiting(b) = {}
    BY <2>3, <2>4 DEF Waiting
  <2>6. Brief(b, u)
    BY <2>5 DEF Brief
  <2> QED
    BY <2>6 DEF b, u
<1>6. CASE ~a.isFirst /\ ~IsNext(a, x) /\ ~AtOnce(a, x)
  <2> DEFINE d == Buffer(a, x)
  <2>1. Seq16(x) # a.number
    BY <1>6 DEF Doubles
  <2>2. b = IF Len(d.buffered) # MaxCorrection THEN d
            ELSE ProcessBuffered(PassNearest(d))
    BY <1>6, <2>1, Branches DEF Hold
  <2>3. /\ Ahead(a, x) \in Nat /\ Ahead(a, x) >= 2 /\ Ahead(a, x) <= MaxCorrection
    BY <1>1, <1>6, <2>1, HeldAhead
  <2>4. /\ Own(d) /\ SamePassed(a, d) /\ Len(d.buffered) = Len(a.buffered) + 1
        /\ Waiting(d) = Waiting(a) \cup {x}
    BY <1>6, Buffered
  <2>5. \A y \in Waiting(a) : Ahead(a, y) # Ahead(a, x)
    <3> TAKE y \in Waiting(a)
    <3>1. Seq16(y) # Seq16(x)
      <4>1. DOMAIN a.buffered = 1..Len(a.buffered)
        BY Fields, LenProperties DEF Own
      <4> QED
        BY <1>6, <4>1 DEF Doubles, Waiting
    <3>2. /\ Seq16(y) \in 0..(Modulus-1) /\ Seq16(x) \in 0..(Modulus-1)
          /\ a.number \in 0..(Modulus-1)
      BY <1>1, WaitingIs, Arrivals
    <3> QED
      BY <3>1, <3>2, DeltaZero DEF Ahead
  <2> HIDE DEF b, d
  <2>6. Brief(d, u)
    BY <1>1, <2>3, <2>4, <2>5, BufferBrief DEF t
  <2>7. Len(d.buffered) < MaxCorrection /\ Len(d.buffered) \in Nat /\ MaxCorrection \in Nat
    BY <2>4, <2>6, BriefIsShort, Cycle, Fields DEF Own
  <2>8. b = d
    BY <2>2, <2>7
  <2> QED
    BY <2>6, <2>8 DEF b, u
<1> QED
  BY <1>1, <1>3, <1>4, <1>5, <1>6

-----------------------------------------------------------------------------
(* The order of packets. *)

LEMMA OrderlyBefore ==
  ASSUME NEW r, NEW p \in Position, NEW s, NEW x, Came(r, p, s, x),
         NEW taken, NEW more, taken \subseteq more, OrderlyOf(s, more)
  PROVE  /\ OrderlyOf(r, taken)
         /\ \A i \in 1..Len(r) : r[i] # p
         /\ \A i \in 1..Len(r) : r[i] > p => r[i] \notin more \cup {r[1]}
         /\ Len(r) > 0 => p + MaxCorrection < r[Len(r)] + Modulus
         /\ Len(r) > 0 => s[1] = r[1]
<1> DEFINE l == Len(r)
<1>1. /\ l \in Nat /\ Len(s) = l + 1 /\ x.at = l + 1 /\ s[l + 1] = p
      /\ \A i \in 1..l : i \in 1..(l + 1) /\ s[i] = r[i]
  BY CameIs
<1> HIDE DEF l
<1>2. /\ \A i, j \in 1..(l + 1) : s[i] = s[j] => i = j
      /\ \A i, j \in 1..(l + 1) : i < j /\ s[i] > s[j] => s[i] \notin more \cup {s[1]}
      /\ \A i \in 2..(l + 1) : s[i] + MaxCorrection < s[i-1] + Modulus
  BY <1>1 DEF OrderlyOf
<1>3. \A i \in 1..l : 1 \in 1..l /\ s[1] = r[1] /\ i \in Int
  BY <1>1
<1>4. \A i \in 1..l : l + 1 \in 1..(l + 1) /\ i < l + 1 /\ i # l + 1
  BY <1>1
<1>5. \A i \in 1..l : r[i] # p
  BY <1>1, <1>2, <1>4
<1>6. \A i \in 1..l : r[i] > p => r[i] \notin more \cup {r[1]}
  BY <1>1, <1>2, <1>3, <1>4
<1>7. l > 0 => p + MaxCorrection < r[l] + Modulus /\ s[1] = r[1]
  <2> SUFFICES ASSUME l > 0
               PROVE  p + MaxCorrection < r[l] + Modulus /\ s[1] = r[1]
    OBVIOUS
  <2>1. l + 1 \in 2..(l + 1) /\ l + 1 - 1 = l /\ l \in 1..l
    BY <1>1
  <2>2. s[l + 1] + MaxCorrection < s[l + 1 - 1] + Modulus
    BY <1>2, <2>1
  <2>3. s[l] = r[l] /\ s[1] = r[1]
    BY <1>1, <1>3, <2>1
  <2> QED
    BY <1>1, <2>1, <2>2, <2>3
<1>8. OrderlyOf(r, taken)
  <2>1. \A i, j \in 1..l : r[i] = r[j] => i = j
    BY <1>1, <1>2
  <2>2. \A i, j \in 1..l : i < j /\ r[i] > r[j] => r[i] \notin taken \cup {r[1]}
    BY <1>1, <1>2, <1>3
  <2>3. \A i \in 2..l : r[i] + MaxCorrection < r[i-1] + Modulus
    <3> TAKE i \in 2..l
    <3>1. i \in 2..(l + 1) /\ i \in 1..l /\ i-1 \in 1..l
      BY <1>1
    <3>2. s[i] + MaxCorrection < s[i-1] + Modulus
      BY <1>2, <3>1
    <3>3. s[i] = r[i] /\ s[i-1] = r[i-1]
      BY <1>1, <3>1
    <3> QED
      BY <3>2, <3>3
  <2> QED
    BY <2>1, <2>2, <2>3 DEF OrderlyOf, l
<1> QED
  BY <1>5, <1>6, <1>7, <1>8 DEF l

\* Where the packets that came, r, are in their positions and none came twice.
Distinct(a, r) ==
  /\ Own(a) /\ Whole(a, r) /\ r \in Seq(Position) /\ ~a.isFirst
  /\ \A i, j \in 1..Len(r) : r[i] = r[j] => i = j

LEMMA Positions ==
  ASSUME Constants, NEW a, NEW r, Distinct(a, r)
  PROVE  /\ LastPassed(a) \in Arrival /\ LastPassed(a).pos \in Nat
         /\ LastPassed(a).pos \in Position
         /\ \E i \in 1..Len(r) : r[i] = LastPassed(a).pos
         /\ a.number = Seq16(LastPassed(a)) /\ a.timestamp = Timestamp[LastPassed(a).pos]
         /\ \A i \in 1..Len(r) : r[i] \in Nat
         /\ \A y \in Waiting(a) : /\ y \in Arrival /\ y.pos \in Nat /\ y.pos \in Position
                                  /\ \E i \in 1..Len(r) : r[i] = y.pos
         /\ \A y, z \in Waiting(a) : y.pos = z.pos => y = z
<1>1. /\ Len(a.passed) \in 1..Len(a.passed)
      /\ a.passed[Len(a.passed)] \in [packet : Arrival, payload : Arrival]
  <2>1. Len(a.passed) \in Nat /\ Len(a.passed) > 0
    BY Fields DEF Distinct, Own, Remembered
  <2>2. Len(a.passed) \in 1..Len(a.passed)
    BY <2>1
  <2> QED
    BY <2>2, Fields DEF Distinct, Own
<1>2. LastPassed(a) \in Arrival
  BY <1>1 DEF LastPassed
<1>3. LastPassed(a).at \in 1..Len(r) /\ LastPassed(a).pos = r[LastPassed(a).at]
  BY <1>1 DEF Distinct, Whole, Accounted, LastPassed
<1>4. a.number = Seq16(LastPassed(a)) /\ a.timestamp = Timestamp[LastPassed(a).pos]
  BY DEF Distinct, Own, Remembered
<1>5. \A i \in 1..Len(r) : r[i] \in Nat
  BY ElementOfSeq DEF Distinct, Constants
<1>6. \A y \in Waiting(a) : y \in Arrival /\ y.at \in 1..Len(r) /\ y.pos = r[y.at]
  BY WaitingIs DEF Distinct, Whole, Accounted
<1>7. \A y, z \in Waiting(a) : y.pos = z.pos => y = z
  <2> SUFFICES ASSUME NEW y \in Waiting(a), NEW z \in Waiting(a), y.pos = z.pos
               PROVE  y = z
    OBVIOUS
  <2>1. y.at = z.at
    BY <1>6 DEF Distinct
  <2> QED
    BY <2>1, SameArrival DEF Distinct, Whole
<1> QED
  BY <1>2, <1>3, <1>4, <1>5, <1>6, <1>7, Arrivals

\* Those that wait are as far ahead as their positions say.
LEMMA RowAhead ==
  ASSUME Constants, NEW a, NEW r, Distinct(a, r), InRow(a), NEW y \in Waiting(a)
  PROVE  Ahead(a, y) = y.pos - LastPassed(a).pos
<1>1. /\ y \in Arrival /\ LastPassed(a) \in Arrival
      /\ a.number = Seq16(LastPassed(a)) /\ y.pos \in Nat /\ LastPassed(a).pos \in Nat
  BY Positions
<1>2. LastPassed(a).pos < y.pos /\ y.pos <= LastPassed(a).pos + MaxCorrection
  BY DEF InRow
<1>3. LastPassed(a).pos <= y.pos /\ y.pos < LastPassed(a).pos + Modulus
  BY <1>1, <1>2, Cycle
<1> QED
  BY <1>1, <1>3, DeltaOfPositions DEF Ahead

\* The next ones are passed in order.
LEMMA HandedInRow ==
  ASSUME Constants, NEW a, NEW r, Distinct(a, r), InRow(a), NEW taken, Gapless(a, r, taken),
         NEW c, Own(c), NEW n \in Nat, NEW g, Handed(a, c, n, g),
         \A k \in 1..n : Ahead(a, g[k]) = k
  PROVE  InRow(c) /\ Gapless(c, r, taken)
<1> DEFINE l == Len(a.passed)
           last == LastPassed(a).pos
<1>1. /\ Own(a) /\ ~a.isFirst /\ last \in Nat /\ last \in Position
      /\ \E i \in 1..Len(r) : r[i] = last
      /\ \A y \in Waiting(a) : /\ y.pos \in Nat /\ Ahead(a, y) = y.pos - last
                               /\ last < y.pos /\ y.pos <= last + MaxCorrection
                               /\ Timestamp[y.pos] = a.timestamp
                               /\ \E i \in 1..Len(r) : r[i] = y.pos
      /\ \A y, z \in Waiting(a) : y.pos = z.pos => y = z
  BY Positions, RowAhead DEF Distinct, InRow
<1> HIDE DEF last
<1>2. /\ \A k \in 1..n : g[k] \in Waiting(a)
      /\ \A y \in Waiting(c) : y \in Waiting(a) /\ \A k \in 1..n : g[k] # y
  BY DEF Handed
<1>3. \A k \in 1..n : g[k].pos = last + k /\ g[k].pos \in Nat
  <2> TAKE k \in 1..n
  <2>1. Ahead(a, g[k]) = k /\ g[k] \in Waiting(a)
    BY <1>2
  <2>2. k = g[k].pos - last /\ g[k].pos \in Nat /\ last \in Nat
    BY <1>1, <2>1
  <2>3. \A u, v, w \in Nat : u = v - w => v = w + u
    OBVIOUS
  <2>4. k \in Nat
    OBVIOUS
  <2> QED
    BY <2>2, <2>3, <2>4
<1>4. /\ l \in Nat
      /\ \A j \in 1..Len(c.passed) :
           \/ j \in 1..l /\ c.passed[j] = a.passed[j]
           \/ j > l /\ j - l \in 1..n /\ c.passed[j].packet = g[j - l]
  <2>1. Own(a)
    BY DEF Distinct
  <2> QED
    BY <2>1, HandedIndices
<1>5. \A j \in 1..l : a.passed[j].packet.pos <= last /\ a.passed[j].packet.pos \in Nat
  <2> TAKE j \in 1..l
  <2>1. a.passed[j].packet.pos \in Nat
    <3>1. a.passed[j] \in [packet : Arrival, payload : Arrival]
      BY <1>1, Fields DEF Own
    <3> QED
      BY <3>1, Arrivals
  <2>2. l \in 1..l /\ (j = l \/ j < l)
    BY <1>4
  <2>3. last = a.passed[l].packet.pos
    BY DEF last, LastPassed
  <2>4. j < l => a.passed[j].packet.pos < a.passed[l].packet.pos
    BY <2>2 DEF InRow
  <2> QED
    BY <1>1, <2>1, <2>2, <2>3, <2>4
<1> DEFINE new == LastPassed(c).pos
<1>6. /\ new = last + n /\ ~c.isFirst /\ c.timestamp = a.timestamp
  <2>1. n = 0 => new = last /\ c.timestamp = a.timestamp
    BY <1>1, HandedLast DEF last
  <2>2. n > 0 => n \in 1..n
    OBVIOUS
  <2>3. n > 0 => new = g[n].pos /\ c.timestamp = Timestamp[g[n].pos]
    BY <1>1, HandedLast
  <2>4. n > 0 => new = last + n /\ c.timestamp = a.timestamp
    BY <1>1, <1>2, <1>3, <2>2, <2>3
  <2>5. ~c.isFirst
    BY <1>1, HandedLast
  <2> HIDE DEF new
  <2> QED
    BY <1>1, <2>1, <2>4, <2>5
<1> HIDE DEF new
<1>7. \A i, j \in 1..Len(c.passed) : i < j => c.passed[i].packet.pos < c.passed[j].packet.pos
  <2> SUFFICES ASSUME NEW i \in 1..Len(c.passed), NEW j \in 1..Len(c.passed), i < j
               PROVE  c.passed[i].packet.pos < c.passed[j].packet.pos
    OBVIOUS
  <2>1. CASE i \in 1..l /\ c.passed[i] = a.passed[i] /\ j \in 1..l /\ c.passed[j] = a.passed[j]
    BY <2>1 DEF InRow, l
  <2>2. CASE /\ i \in 1..l /\ c.passed[i] = a.passed[i]
             /\ j - l \in 1..n /\ c.passed[j].packet = g[j - l]
    <3>1. g[j - l].pos = last + (j - l)
      BY <1>3, <2>2
    <3>2. a.passed[i].packet.pos <= last /\ a.passed[i].packet.pos \in Nat
      BY <1>5, <2>2
    <3>3. \A u, v \in Nat, w \in 1..n : u <= v => u < v + w
      OBVIOUS
    <3>4. a.passed[i].packet.pos < last + (j - l)
      BY <1>1, <2>2, <3>2, <3>3
    <3> QED
      BY <2>2, <3>1, <3>4
  <2>3. CASE j \in 1..l /\ i > l
    BY <1>4, <2>3
  <2>4. CASE /\ i - l \in 1..n /\ c.passed[i].packet = g[i - l]
             /\ j - l \in 1..n /\ c.passed[j].packet = g[j - l]
    <3>1. g[j - l].pos = last + (j - l) /\ g[i - l].pos = last + (i - l)
      BY <1>3, <2>4
    <3>2. i \in Int /\ j \in Int
      OBVIOUS
    <3>3. last + (i - l) < last + (j - l)
      <4>1. \A u, v, w, z \in Int : u < v => w + (u - z) < w + (v - z)
        OBVIOUS
      <4>2. last \in Int /\ l \in Int
        BY <1>1, <1>4
      <4> QED
        BY <3>2, <4>1, <4>2
    <3> QED
      BY <2>4, <3>1, <3>3
  <2> QED
    BY <1>4, <2>1, <2>2, <2>3, <2>4
<1>8. \A y \in Waiting(c) : /\ new < y.pos /\ y.pos <= new + MaxCorrection
                            /\ Timestamp[y.pos] = c.timestamp
  <2> TAKE y \in Waiting(c)
  <2>1. /\ y \in Waiting(a) /\ y.pos \in Nat /\ last < y.pos /\ y.pos <= last + MaxCorrection
        /\ Timestamp[y.pos] = a.timestamp
    BY <1>1, <1>2
  <2>2. \A k \in 1..n : y.pos # last + k
    BY <1>1, <1>2, <1>3, <2>1
  <2>3. \A v, w \in Nat : w < v /\ (\A k \in 1..n : v # w + k) => w + n < v
    <3> SUFFICES ASSUME NEW v \in Nat, NEW w \in Nat, w < v, ~(w + n < v)
                 PROVE  \E k \in 1..n : v = w + k
      OBVIOUS
    <3>1. v - w \in 1..n /\ v = w + (v - w)
      OBVIOUS
    <3> QED
      BY <3>1
  <2>4. new < y.pos
    BY <1>1, <1>6, <2>1, <2>2, <2>3
  <2>5. y.pos <= new + MaxCorrection
    BY <1>1, <1>6, <2>1, Cycle
  <2> QED
    BY <1>6, <2>1, <2>4, <2>5
<1>9. InRow(c)
  BY <1>7, <1>8 DEF InRow, new
<1>10. Gapless(c, r, taken)
  <2>1. /\ r[Len(r)] <= last + MaxCorrection
        /\ \A p \in Position : p < last => Missed(p, r, taken) \/ \E i \in 1..Len(r) : r[i] = p
    BY <1>1 DEF Gapless, last
  <2>2. r[Len(r)] \in Nat
    <3>1. \A i \in 1..Len(r) : Len(r) \in 1..Len(r)
      <4>1. Len(r) \in Nat
        BY LenProperties DEF Distinct
      <4> QED
        BY <4>1
    <3> QED
      BY <1>1, <3>1, Positions
  <2>3. r[Len(r)] <= new + MaxCorrection
    BY <1>1, <1>6, <2>1, <2>2, Cycle
  <2>4. ASSUME NEW p \in Position, p < new
        PROVE  Missed(p, r, taken) \/ \E i \in 1..Len(r) : r[i] = p
    <3>1. p \in Nat
      BY DEF Constants
    <3>2. p < last \/ p = last \/ (p - last \in 1..n /\ p = last + (p - last))
      BY <1>1, <1>6, <2>4, <3>1
    <3>3. CASE p - last \in 1..n /\ p = last + (p - last)
      <4>1. g[p - last].pos = p /\ g[p - last] \in Waiting(a)
        BY <1>2, <1>3, <3>3
      <4> QED
        BY <1>1, <4>1
    <3> QED
      BY <1>1, <2>1, <3>2, <3>3
  <2> QED
    BY <2>3, <2>4 DEF Gapless, new
<1> QED
  BY <1>9, <1>10

\* What was passed last is behind all that was passed.
LEMMA LastIsLast ==
  ASSUME Constants, NEW a, Own(a), InRow(a), NEW j \in 1..Len(a.passed)
  PROVE  /\ a.passed[j].packet.pos \in Nat /\ LastPassed(a).pos \in Nat
         /\ a.passed[j].packet.pos <= LastPassed(a).pos
<1> DEFINE l == Len(a.passed)
<1>1. l \in Nat
  BY Fields DEF Own
<1>2. l \in 1..l /\ (j = l \/ j < l) /\ j \in 1..l
  BY <1>1
<1>3. \A k \in 1..l : a.passed[k].packet.pos \in Nat
  <2> TAKE k \in 1..l
  <2>1. a.passed[k] \in [packet : Arrival, payload : Arrival]
    BY Fields DEF Own
  <2> QED
    BY <2>1, Arrivals
<1>4. j < l => a.passed[j].packet.pos < a.passed[l].packet.pos
  BY <1>2 DEF InRow
<1> HIDE DEF l
<1> QED
  BY <1>2, <1>3, <1>4 DEF l, LastPassed

LEMMA MissedStill ==
  ASSUME NEW r, NEW p \in Position, NEW s, NEW x, Came(r, p, s, x), r \in Seq(Position),
         NEW taken, NEW more, taken \subseteq more, NEW q, Missed(q, r, taken)
  PROVE  Missed(q, s, more)
<1>1. /\ Len(r) \in Nat
      /\ \A i \in 1..Len(r) : i \in 1..Len(s) /\ s[i] = r[i]
  BY CameIs
<1>2. PICK i \in 1..Len(r) : r[i] > q /\ r[i] \in taken \cup {r[1]}
  BY DEF Missed
<1>3. 1 \in 1..Len(r)
  BY <1>1
<1>4. i \in 1..Len(s) /\ s[i] > q /\ s[i] \in more \cup {s[1]}
  BY <1>1, <1>2, <1>3
<1> QED
  BY <1>4 DEF Missed

\* A packet that comes is ahead of what was passed.
LEMMA Coming ==
  ASSUME Constants, NEW a, NEW r, Distinct(a, r), InRow(a),
         NEW taken, NEW more, taken \subseteq more, Gapless(a, r, taken),
         NEW p \in Position, NEW s, NEW x, Came(r, p, s, x), OrderlyOf(s, more)
  PROVE  /\ p \in Nat /\ LastPassed(a).pos < p /\ Ahead(a, x) = p - LastPassed(a).pos
         /\ \A y \in Waiting(a) : y.pos # p
         /\ ~Doubles(a, x)
<1> DEFINE last == LastPassed(a).pos
<1>1. /\ \A i \in 1..Len(r) : r[i] # p
      /\ \A i \in 1..Len(r) : r[i] > p => r[i] \notin taken \cup {r[1]}
      /\ Len(r) > 0 => p + MaxCorrection < r[Len(r)] + Modulus
  BY OrderlyBefore
<1>2. /\ last \in Nat /\ LastPassed(a) \in Arrival /\ a.number = Seq16(LastPassed(a))
      /\ \E i \in 1..Len(r) : r[i] = last
      /\ \A i \in 1..Len(r) : r[i] \in Nat
      /\ \A y \in Waiting(a) : /\ y \in Arrival /\ y.pos \in Nat
                               /\ \E i \in 1..Len(r) : r[i] = y.pos
  BY Positions
<1>3. x \in Arrival /\ x.pos = p /\ p \in Nat /\ Own(a) /\ ~a.isFirst
  BY DEF Came, Constants, Distinct
<1>4. r[Len(r)] <= last + MaxCorrection
      /\ (p < last => Missed(p, r, taken) \/ \E i \in 1..Len(r) : r[i] = p)
  BY <1>3 DEF Gapless
<1> HIDE DEF last
<1>5. ~Missed(p, r, taken)
  BY <1>1 DEF Missed
<1>6. last < p
  <2>1. ~(p < last) /\ p # last
    BY <1>1, <1>2, <1>4, <1>5
  <2> QED
    BY <1>2, <1>3, <2>1
<1>7. p < last + Modulus
  <2>1. Len(r) > 0 /\ r[Len(r)] \in Nat
    <3>1. Len(r) \in Nat
      BY LenProperties DEF Distinct
    <3>2. Len(r) \in 1..Len(r)
      BY <1>2, <3>1
    <3> QED
      BY <1>2, <3>2
  <2>2. p + MaxCorrection < r[Len(r)] + Modulus
    BY <1>1, <2>1
  <2>3. MaxCorrection \in Nat /\ Modulus \in Nat
    BY Cycle
  <2>4. \A u, v, w, m, c \in Nat : u + c < w + m /\ w <= v + c => u < v + m
    OBVIOUS
  <2> QED
    BY <1>2, <1>3, <1>4, <2>1, <2>2, <2>3, <2>4
<1>8. Ahead(a, x) = p - last
  <2>1. LastPassed(a).pos <= x.pos /\ x.pos < LastPassed(a).pos + Modulus
    BY <1>2, <1>3, <1>6, <1>7 DEF last
  <2> QED
    BY <1>2, <1>3, <2>1, DeltaOfPositions DEF Ahead, last
<1>9. \A y \in Waiting(a) : y.pos # p
  BY <1>1, <1>2
<1>10. Seq16(x) # a.number
  <2>1. Ahead(a, x) # 0
    BY <1>2, <1>3, <1>6, <1>8
  <2>2. Seq16(x) \in 0..(Modulus-1) /\ a.number \in 0..(Modulus-1)
    BY <1>2, <1>3, Arrivals
  <2> QED
    BY <2>1, <2>2, DeltaZero DEF Ahead
<1>11. \A y \in Waiting(a) : Seq16(y) # Seq16(x)
  <2> TAKE y \in Waiting(a)
  <2>1. Ahead(a, y) = y.pos - last
    BY RowAhead DEF last
  <2>2. y.pos - last # p - last
    BY <1>2, <1>3, <1>9
  <2> QED
    BY <1>8, <2>1, <2>2 DEF Ahead
<1>12. ~Doubles(a, x)
  <2>1. \A i \in DOMAIN a.buffered : a.buffered[i] \in Waiting(a)
    BY <1>3, Fields, LenProperties DEF Own, Waiting
  <2> QED
    BY <1>10, <1>11, <2>1 DEF Doubles
<1> QED
  BY <1>3, <1>6, <1>8, <1>9, <1>12 DEF last

\* It is passed behind what was, before what waits.
LEMMA PassInRow ==
  ASSUME Constants, NEW a, Own(a), InRow(a), NEW x \in Arrival,
         \A j \in 1..Len(a.passed) : a.passed[j].packet.pos < x.pos,
         \A y \in Waiting(a) : /\ x.pos < y.pos /\ y.pos <= x.pos + MaxCorrection
                               /\ Timestamp[y.pos] = Timestamp[x.pos]
  PROVE  LET b == Pass(a, x, x)
         IN  /\ Own(b) /\ InRow(b) /\ LastPassed(b) = x /\ ~b.isFirst
             /\ Waiting(b) = Waiting(a)
<1> DEFINE b == Pass(a, x, x)
           l == Len(a.passed)
<1>1. Own(b) /\ Passes(a, b, x) /\ b.buffered = a.buffered
  BY PassOwn
<1> HIDE DEF b
<1>2. /\ Waiting(b) = Waiting(a) /\ LastPassed(b) = x /\ ~b.isFirst
      /\ b.timestamp = Timestamp[x.pos] /\ Len(b.passed) = l + 1
      /\ \A i \in 1..l : b.passed[i] = a.passed[i]
      /\ b.passed[l + 1].packet = x
  BY <1>1 DEF Waiting, Passes
<1>3. l \in Nat
  BY Fields DEF Own
<1>4. \A i, j \in 1..Len(b.passed) : i < j => b.passed[i].packet.pos < b.passed[j].packet.pos
  <2> SUFFICES ASSUME NEW i \in 1..Len(b.passed), NEW j \in 1..Len(b.passed), i < j
               PROVE  b.passed[i].packet.pos < b.passed[j].packet.pos
    OBVIOUS
  <2>1. i \in 1..l /\ (j \in 1..l \/ j = l + 1)
    <3> HIDE DEF l
    <3> QED
      BY <1>2, <1>3
  <2>2. b.passed[i] = a.passed[i]
    BY <1>2, <2>1
  <2>3. CASE j \in 1..l
    BY <1>2, <2>1, <2>2, <2>3 DEF InRow
  <2>4. CASE j = l + 1
    BY <1>2, <2>1, <2>2, <2>4
  <2> QED
    BY <2>1, <2>3, <2>4
<1>5. InRow(b)
  BY <1>2, <1>4 DEF InRow
<1> QED
  BY <1>1, <1>2, <1>5 DEF b

\* Where all that waits precedes p, it is passed in order.
LEMMA FlushInRow ==
  ASSUME Constants, NEW a, NEW r, Distinct(a, r), InRow(a), NEW p \in Nat,
         LastPassed(a).pos < p, \A y \in Waiting(a) : y.pos < p
  PROVE  InRow(Flush(a)) /\ LastPassed(Flush(a)).pos < p
<1> DEFINE A == {b \in Assemblers : /\ Distinct(b, r) /\ InRow(b) /\ LastPassed(b).pos < p
                                    /\ \A y \in Waiting(b) : y.pos < p}
<1>1. a \in A
  BY DEF Distinct, Own
<1>2. ASSUME NEW b \in A, Own(b), Len(b.buffered) > 0
      PROVE  PassNearest(b) \in A
  <2> DEFINE c == PassNearest(b)
             last == LastPassed(b).pos
  <2>1. /\ Own(c) /\ \E x \in Waiting(b) : /\ Handed(b, c, 1, <<x>>)
                                           /\ \A y \in Waiting(b) : Ahead(b, x) <= Ahead(b, y)
    BY <1>2, PassNearestOwn
  <2>2. Distinct(b, r) /\ InRow(b) /\ \A y \in Waiting(b) : y.pos < p
    OBVIOUS
  <2>3. Whole(c, r)
    BY <1>2, <2>2, PassNearestWhole DEF Distinct
  <2> HIDE DEF A, c
  <2> PICK x \in Waiting(b) : /\ Handed(b, c, 1, <<x>>)
                              /\ \A y \in Waiting(b) : Ahead(b, x) <= Ahead(b, y)
    BY <2>1
  <2> DEFINE g == <<x>>
  <2>4. 1 \in Nat /\ 1 > 0 /\ g[1] = x /\ \A k \in 1..1 : k = 1
    OBVIOUS
  <2>5. Handed(b, c, 1, g)
    OBVIOUS
  <2> HIDE DEF g
  <2>6. ~b.isFirst
    BY <2>2 DEF Distinct
  <2>7. /\ ~c.isFirst /\ LastPassed(c) = x /\ c.timestamp = Timestamp[x.pos]
    BY <1>2, <2>1, <2>4, <2>5, <2>6, HandedLast
  <2>8. Distinct(c, r)
    BY <2>1, <2>2, <2>3, <2>7 DEF Distinct
  <2>9. /\ last \in Nat
        /\ \A y \in Waiting(b) : /\ y.pos \in Nat /\ Ahead(b, y) = y.pos - last
                                 /\ last < y.pos /\ y.pos <= last + MaxCorrection
                                 /\ Timestamp[y.pos] = b.timestamp
        /\ \A y, z \in Waiting(b) : y.pos = z.pos => y = z
    BY <2>2, Positions, RowAhead DEF InRow
  <2> HIDE DEF last
  <2>10. \A y \in Waiting(c) : y \in Waiting(b) /\ y # x
    BY <2>4, <2>5 DEF Handed
  <2>11. \A y \in Waiting(c) : /\ x.pos < y.pos /\ y.pos <= x.pos + MaxCorrection
                               /\ Timestamp[y.pos] = c.timestamp
    <3> TAKE y \in Waiting(c)
    <3>1. /\ y \in Waiting(b) /\ x.pos # y.pos /\ x.pos \in Nat /\ y.pos \in Nat
          /\ x.pos - last <= y.pos - last /\ last < x.pos /\ y.pos <= last + MaxCorrection
          /\ Timestamp[y.pos] = c.timestamp
      BY <2>7, <2>9, <2>10
    <3>2. \A u, v, w, m \in Nat : u # v /\ u - w <= v - w /\ w < u /\ v <= w + m =>
                                    u < v /\ v <= u + m
      OBVIOUS
    <3>3. MaxCorrection \in Nat
      BY Cycle
    <3> QED
      BY <2>9, <3>1, <3>2, <3>3
  <2>12. \A i, j \in 1..Len(c.passed) : i < j => c.passed[i].packet.pos < c.passed[j].packet.pos
    <3> DEFINE l == Len(b.passed)
    <3> SUFFICES ASSUME NEW i \in 1..Len(c.passed), NEW j \in 1..Len(c.passed), i < j
                 PROVE  c.passed[i].packet.pos < c.passed[j].packet.pos
      OBVIOUS
    <3>1. /\ l \in Nat /\ Len(c.passed) = l + 1
          /\ \A k \in 1..l : c.passed[k] = b.passed[k]
          /\ c.passed[l + 1].packet = x
      BY <1>2, <2>4, <2>5, Fields DEF Handed, Own
    <3>2. i \in 1..l /\ (j \in 1..l \/ j = l + 1)
      <4> HIDE DEF l
      <4> QED
        BY <3>1
    <3>3. CASE j \in 1..l
      BY <2>2, <3>1, <3>2, <3>3 DEF InRow
    <3>4. CASE j = l + 1
      <4>1. b.passed[i].packet.pos <= last /\ b.passed[i].packet.pos \in Nat
        BY <1>2, <2>2, <3>2, LastIsLast DEF last
      <4>2. last < x.pos /\ x.pos \in Nat
        BY <2>9
      <4>3. b.passed[i].packet.pos < x.pos
        BY <2>9, <4>1, <4>2
      <4> QED
        BY <3>1, <3>2, <3>4, <4>3
    <3> QED
      BY <3>2, <3>3, <3>4
  <2>13. InRow(c)
    BY <2>7, <2>11, <2>12 DEF InRow
  <2>14. LastPassed(c).pos < p /\ \A y \in Waiting(c) : y.pos < p
    BY <2>2, <2>7, <2>10
  <2>15. c \in Assemblers
    BY <2>1 DEF Own
  <2> QED
    BY <2>8, <2>13, <2>14, <2>15 DEF A, c
<1>3. \A b \in A : Own(b) /\ Len(b.buffered) > 0 => PassNearest(b) \in A
  BY <1>2
<1>4. Own(a)
  BY DEF Distinct
<1>5. Flush(a) \in A
  <2> HIDE DEF A
  <2> QED
    BY <1>1, <1>3, <1>4, FlushStays
<1> QED
  BY <1>5

\* The gaps left behind what was passed last are known to be lost or late.
LEMMA GaplessAfter ==
  ASSUME Constants, NEW r, NEW p \in Position, NEW s, NEW x, Came(r, p, s, x),
         NEW a, NEW taken, NEW more, taken \subseteq more, Gapless(a, r, taken), ~a.isFirst,
         NEW b, LastPassed(b).pos \in Nat, p <= LastPassed(b).pos + MaxCorrection,
         \A q \in Position : q < LastPassed(b).pos =>
           \/ q < LastPassed(a).pos
           \/ Missed(q, s, more) \/ \E i \in 1..Len(s) : s[i] = q
  PROVE  Gapless(b, s, more)
<1>1. /\ s[Len(s)] = p
      /\ \A i \in 1..Len(r) : i \in 1..Len(s) /\ s[i] = r[i]
  <2>1. /\ s[x.at] = p /\ x.at = Len(s)
        /\ \A i \in 1..Len(r) : i \in 1..Len(s) /\ s[i] = r[i]
    BY CameIs
  <2> QED
    BY <2>1
<1>2. ASSUME NEW q \in Position, q < LastPassed(b).pos
      PROVE  Missed(q, s, more) \/ \E i \in 1..Len(s) : s[i] = q
  <2>1. CASE q < LastPassed(a).pos
    <3>1. Missed(q, r, taken) \/ \E i \in 1..Len(r) : r[i] = q
      BY <2>1 DEF Gapless
    <3>2. r \in Seq(Position)
      BY DEF Came
    <3>3. Missed(q, r, taken) => Missed(q, s, more)
      BY <3>2, MissedStill
    <3> QED
      BY <1>1, <3>1, <3>3
  <2> QED
    BY <1>2, <2>1
<1> QED
  BY <1>1, <1>2 DEF Gapless

\* The first packet: what precedes it was overtaken by it.
LEMMA FirstOrder ==
  ASSUME Constants, NEW a, Own(a), a.isFirst, NEW r, Len(r) = 0,
         NEW p \in Position, NEW s, NEW x, Came(r, p, s, x), NEW more
  PROVE  LET b == Pass(a, x, x)
         IN  ~Doubles(a, x) /\ InRow(b) /\ Gapless(b, s, more)
<1> DEFINE b == Pass(a, x, x)
<1>1. x \in Arrival /\ x.pos = p /\ p \in Nat
  BY DEF Came, Constants
<1>2. Waiting(a) = {} /\ 1..Len(a.passed) = {}
  <2>1. Len(a.passed) = 0 /\ 1..0 = {}
    BY DEF Own, Remembered
  <2> QED
    BY <2>1, WaitingIs
<1>3. InRow(a)
  BY <1>2 DEF InRow
<1>4. InRow(b) /\ LastPassed(b) = x
  BY <1>1, <1>2, <1>3, PassInRow
<1> HIDE DEF b
<1>5. Len(s) = 1 /\ s[1] = p /\ 1 \in 1..Len(s) /\ s[Len(s)] = p
  <2>1. Len(s) = Len(r) + 1
    BY CameIs
  <2>2. s[x.at] = p /\ x.at = Len(s)
    BY CameIs
  <2> QED
    BY <2>1, <2>2
<1>6. Gapless(b, s, more)
  <2>1. \A q \in Position : q < p => Missed(q, s, more)
    <3>1. \A q \in Position : q < p => s[1] > q
      BY <1>1, <1>5 DEF Constants
    <3> QED
      BY <1>5, <3>1 DEF Missed
  <2>2. p <= p + MaxCorrection
    BY <1>1, Cycle
  <2> QED
    BY <1>1, <1>4, <1>5, <2>1, <2>2 DEF Gapless
<1> QED
  BY <1>4, <1>6 DEF b, Doubles

\* The next packet, and those that wait for it.
LEMMA NextOrder ==
  ASSUME Constants, Frames, NEW a, NEW r, Distinct(a, r), InRow(a),
         NEW taken, Gapless(a, r, taken),
         NEW p \in Position, NEW s, NEW x, Came(r, p, s, x), OrderlyOf(s, taken),
         Ahead(a, x) = 1
  PROVE  LET b == ProcessBuffered(Pass(a, x, x))
         IN  InRow(b) /\ Gapless(b, s, taken)
<1> DEFINE c == Pass(a, x, x)
           last == LastPassed(a).pos
<1>1. /\ x \in Arrival /\ x.pos = p /\ p \in Nat /\ last < p /\ Own(a) /\ Whole(a, r)
      /\ Ahead(a, x) = p - last /\ \A y \in Waiting(a) : y.pos # p
  <2>1. x \in Arrival /\ x.pos = p /\ Own(a) /\ Whole(a, r)
    BY DEF Came, Distinct
  <2>2. taken \subseteq taken
    OBVIOUS
  <2>3. /\ p \in Nat /\ LastPassed(a).pos < p /\ Ahead(a, x) = p - LastPassed(a).pos
        /\ \A y \in Waiting(a) : y.pos # p
    BY <2>2, Coming
  <2> QED
    BY <2>1, <2>3
<1>2. /\ last \in Nat /\ last \in Position /\ a.timestamp = Timestamp[last]
      /\ \E i \in 1..Len(r) : r[i] = last
      /\ \A y \in Waiting(a) : /\ y.pos \in Nat /\ y.pos \in Position
                               /\ last < y.pos /\ y.pos <= last + MaxCorrection
                               /\ Timestamp[y.pos] = a.timestamp
  BY Positions DEF InRow
<1>3. p = last + 1
  BY <1>1, <1>2
<1>4. \A j \in 1..Len(a.passed) : a.passed[j].packet.pos < x.pos
  <2> TAKE j \in 1..Len(a.passed)
  <2>1. a.passed[j].packet.pos \in Nat /\ a.passed[j].packet.pos <= last
    BY <1>1, LastIsLast
  <2> QED
    BY <1>1, <1>2, <2>1
<1> HIDE DEF last
<1>5. \A y \in Waiting(a) : /\ x.pos < y.pos /\ y.pos <= x.pos + MaxCorrection
                            /\ Timestamp[y.pos] = Timestamp[x.pos]
  <2> TAKE y \in Waiting(a)
  <2>1. p < y.pos /\ y.pos <= p + MaxCorrection
    BY <1>1, <1>2, <1>3, Cycle
  <2>2. Timestamp[last] = Timestamp[y.pos]
    BY <1>2
  <2>3. Timestamp[p] = Timestamp[last]
    BY <1>1, <1>2, <2>1, <2>2 DEF Frames
  <2> QED
    BY <1>1, <2>1, <2>2, <2>3
<1>6. Own(c) /\ InRow(c) /\ LastPassed(c) = x /\ ~c.isFirst /\ Waiting(c) = Waiting(a)
  BY <1>1, <1>4, <1>5, PassInRow
<1>7. Whole(c, s)
  BY <1>1, PassWhole
<1> HIDE DEF c
<1>8. Distinct(c, s)
  <2>1. s \in Seq(Position)
    BY CameIs
  <2> QED
    BY <1>6, <1>7, <2>1 DEF Distinct, OrderlyOf
<1>9. Gapless(c, s, taken)
  <2>1. \A q \in Position : q < p => q < last \/ q = last
    BY <1>2, <1>3 DEF Constants
  <2>2. \E i \in 1..Len(s) : s[i] = last
    <3>1. \A i \in 1..Len(r) : i \in 1..Len(s) /\ s[i] = r[i]
      BY CameIs
    <3> QED
      BY <1>2, <3>1
  <2>3. p <= p + MaxCorrection
    BY <1>1, Cycle
  <2>4. ~a.isFirst
    BY DEF Distinct
  <2>5. \A q \in Position : q < LastPassed(c).pos =>
           \/ q < LastPassed(a).pos
           \/ Missed(q, s, taken) \/ \E i \in 1..Len(s) : s[i] = q
    BY <1>1, <1>6, <2>1, <2>2 DEF last
  <2>6. LastPassed(c).pos \in Nat /\ p <= LastPassed(c).pos + MaxCorrection
    BY <1>1, <1>6, <2>3
  <2> QED
    BY <2>4, <2>5, <2>6, GaplessAfter
<1> DEFINE b == ProcessBuffered(c)
<1>10. Own(b) /\ \E n \in Nat : \E g : Handed(c, b, n, g) /\ \A k \in 1..n : Ahead(c, g[k]) = k
  BY <1>6, Processed
<1> HIDE DEF b
<1>11. PICK n \in Nat : \E g : Handed(c, b, n, g) /\ \A k \in 1..n : Ahead(c, g[k]) = k
  BY <1>10
<1>12. PICK g : Handed(c, b, n, g) /\ \A k \in 1..n : Ahead(c, g[k]) = k
  BY <1>11
<1>13. InRow(b) /\ Gapless(b, s, taken)
  BY <1>6, <1>8, <1>9, <1>10, <1>12, HandedInRow
<1> QED
  BY <1>13 DEF b, c

\* A packet that is taken at once, behind all that waits.
LEMMA AtOnceOrder ==
  ASSUME Constants, Frames, NEW a, NEW r, Distinct(a, r), InRow(a),
         NEW taken, Gapless(a, r, taken),
         NEW p \in Position, NEW s, NEW x, Came(r, p, s, x),
         NEW more, more = taken \cup {p}, OrderlyOf(s, more),
         AtOnce(a, x)
  PROVE  LET b == Pass(Flush(a), x, x)
         IN  InRow(b) /\ Gapless(b, s, more)
<1> DEFINE d == Flush(a)
           b == Pass(d, x, x)
           last == LastPassed(a).pos
<1>1. taken \subseteq more
  OBVIOUS
<1>2. /\ x \in Arrival /\ x.pos = p /\ p \in Nat /\ last < p /\ Own(a) /\ Whole(a, r)
      /\ Ahead(a, x) = p - last /\ ~a.isFirst
      /\ \A y \in Waiting(a) : y.pos # p
  <2>1. x \in Arrival /\ x.pos = p /\ Own(a) /\ Whole(a, r) /\ ~a.isFirst
    BY DEF Came, Distinct
  <2>2. /\ p \in Nat /\ LastPassed(a).pos < p /\ Ahead(a, x) = p - LastPassed(a).pos
        /\ \A y \in Waiting(a) : y.pos # p
    BY <1>1, Coming
  <2> QED
    BY <2>1, <2>2
<1>3. /\ last \in Nat /\ last \in Position /\ a.timestamp = Timestamp[last]
      /\ \A y \in Waiting(a) : /\ y.pos \in Nat /\ y.pos \in Position
                               /\ last < y.pos /\ y.pos <= last + MaxCorrection
                               /\ Timestamp[y.pos] = a.timestamp
  BY Positions DEF InRow
<1> HIDE DEF last
<1>4. \A y \in Waiting(a) : y.pos < p
  <2> SUFFICES ASSUME NEW y \in Waiting(a), ~(y.pos < p)
               PROVE  FALSE
    OBVIOUS
  <2>1. p < y.pos
    BY <1>2, <1>3
  <2>2. Timestamp[last] = Timestamp[y.pos]
    BY <1>3
  <2>3. Timestamp[p] = Timestamp[last]
    BY <1>2, <1>3, <2>1, <2>2 DEF Frames
  <2>4. p - last <= MaxCorrection
    BY <1>2, <1>3, <2>1, Cycle
  <2>5. ~(Ahead(a, x) > MaxCorrection)
    BY <1>2, <1>3, <2>4, Cycle
  <2> QED
    BY <1>2, <1>3, <2>3, <2>5 DEF AtOnce, Ahead
<1>5. InRow(d) /\ LastPassed(d).pos < p
  BY <1>2, <1>4, FlushInRow DEF last
<1>6. Own(d) /\ Waiting(d) = {}
  BY <1>2, FlushWhole
<1> HIDE DEF d
<1>7. \A j \in 1..Len(d.passed) : d.passed[j].packet.pos < x.pos
  <2> TAKE j \in 1..Len(d.passed)
  <2>1. /\ d.passed[j].packet.pos \in Nat /\ LastPassed(d).pos \in Nat
        /\ d.passed[j].packet.pos <= LastPassed(d).pos
    BY <1>5, <1>6, LastIsLast
  <2> QED
    BY <1>2, <1>5, <2>1
<1>8. InRow(b) /\ LastPassed(b) = x
  BY <1>2, <1>5, <1>6, <1>7, PassInRow
<1> HIDE DEF b
<1>9. \A q \in Position : q < p => Missed(q, s, more)
  <2> TAKE q \in Position
  <2> HAVE q < p
  <2>1. Len(s) \in 1..Len(s) /\ s[Len(s)] = p
    <3>1. s[x.at] = p /\ x.at = Len(s) /\ x.at \in 1..Len(s)
      BY CameIs
    <3> QED
      BY <3>1
  <2>2. p > q /\ p \in more
    BY <1>2 DEF Constants
  <2> QED
    BY <2>1, <2>2 DEF Missed
<1>10. LastPassed(b).pos \in Nat /\ p <= LastPassed(b).pos + MaxCorrection
  BY <1>2, <1>8, Cycle
<1>11. Gapless(b, s, more)
  BY <1>1, <1>2, <1>8, <1>9, <1>10, GaplessAfter
<1> QED
  BY <1>8, <1>11 DEF b, d

\* A packet that is buffered.
LEMMA HoldOrder ==
  ASSUME Constants, NEW a, NEW r, Distinct(a, r), InRow(a),
         NEW taken, Gapless(a, r, taken),
         NEW p \in Position, NEW s, NEW x, Came(r, p, s, x), OrderlyOf(s, taken),
         Ahead(a, x) <= MaxCorrection, a.timestamp = Timestamp[x.pos],
         NEW b, SamePassed(a, b), Waiting(b) = Waiting(a) \cup {x}
  PROVE  InRow(b) /\ Gapless(b, s, taken)
<1>1. /\ x.pos = p /\ p \in Nat /\ LastPassed(a).pos < p /\ ~a.isFirst
      /\ Ahead(a, x) = p - LastPassed(a).pos
  <2>1. x.pos = p /\ ~a.isFirst
    BY DEF Came, Distinct
  <2>2. taken \subseteq taken
    OBVIOUS
  <2>3. p \in Nat /\ LastPassed(a).pos < p /\ Ahead(a, x) = p - LastPassed(a).pos
    BY <2>2, Coming
  <2> QED
    BY <2>1, <2>3
<1>2. LastPassed(a).pos \in Nat
  BY Positions
<1>3. /\ LastPassed(b) = LastPassed(a) /\ b.passed = a.passed /\ b.timestamp = a.timestamp
      /\ b.isFirst = a.isFirst
  BY DEF SamePassed, LastPassed
<1>4. p <= LastPassed(a).pos + MaxCorrection
  BY <1>1, <1>2, Cycle
<1>5. InRow(b)
  BY <1>1, <1>3, <1>4 DEF InRow
<1>6. Gapless(b, s, taken)
  BY <1>1, <1>2, <1>3, <1>4, GaplessAfter
<1> QED
  BY <1>5, <1>6

\* While the network is orderly, packets are passed in order and no number comes twice.
LEMMA ProcessOrder ==
  ASSUME Constants, Frames, NEW a, Own(a), Len(a.buffered) < MaxCorrection,
         NEW r, NEW p \in Position, NEW s, NEW x, Came(r, p, s, x), Whole(a, r),
         a.isFirst <=> Len(r) = 0, Brief(a, Len(r)), InRow(a),
         NEW taken, Gapless(a, r, taken),
         NEW more, more = IF AtOnce(a, x) THEN taken \cup {p} ELSE taken,
         OrderlyOf(s, more)
  PROVE  LET b == ProcessPacket(a, x)
         IN  ~Doubles(a, x) /\ InRow(b) /\ Gapless(b, s, more)
<1> DEFINE b == ProcessPacket(a, x)
<1>1. taken \subseteq more /\ x \in Arrival /\ r \in Seq(Position) /\ a.isFirst \in BOOLEAN
  BY Fields DEF Came, Own
<1>2. CASE a.isFirst
  <2>1. b = Pass(a, x, x)
    BY <1>2, Branches
  <2> QED
    BY <1>2, <2>1, FirstOrder
<1>3. CASE ~a.isFirst
  <2>1. Distinct(a, r)
    BY <1>1, <1>3, OrderlyBefore DEF Distinct, OrderlyOf
  <2>2. ~Doubles(a, x)
    BY <1>1, <2>1, Coming
  <2>3. CASE IsNext(a, x)
    <3>1. b = ProcessBuffered(Pass(a, x, x))
      BY <2>3, Branches
    <3>2. more = taken /\ Ahead(a, x) = 1
      BY <2>3 DEF AtOnce, IsNext, Ahead
    <3>3. InRow(b) /\ Gapless(b, s, taken)
      BY <2>1, <3>1, <3>2, NextOrder
    <3> QED
      BY <2>2, <3>2, <3>3
  <2>4. CASE AtOnce(a, x)
    <3>1. b = Pass(Flush(a), x, x)
      BY <2>4, Branches
    <3>2. more = taken \cup {p}
      BY <2>4
    <3>3. InRow(b) /\ Gapless(b, s, more)
      BY <2>1, <2>4, <3>1, <3>2, AtOnceOrder
    <3> QED
      BY <2>2, <3>3
  <2>5. CASE ~IsNext(a, x) /\ ~AtOnce(a, x)
    <3> DEFINE d == Buffer(a, x)
    <3>1. Seq16(x) # a.number
      BY <1>3, <2>2 DEF Doubles
    <3>2. b = IF Len(d.buffered) # MaxCorrection THEN d
              ELSE ProcessBuffered(PassNearest(d))
      BY <1>3, <2>5, <3>1, Branches DEF Hold
    <3>3. /\ Ahead(a, x) \in Nat /\ Ahead(a, x) >= 2 /\ Ahead(a, x) <= MaxCorrection
          /\ a.timestamp = Timestamp[x.pos]
      BY <1>1, <1>3, <2>5, <3>1, HeldAhead
    <3>4. /\ Own(d) /\ SamePassed(a, d) /\ Waiting(d) = Waiting(a) \cup {x}
          /\ Len(d.buffered) = Len(a.buffered) + 1
      BY <1>3, Buffered
    <3> HIDE DEF d
    <3>5. Len(d.buffered) # MaxCorrection
      <4>1. Brief(b, Len(s))
        BY <2>2, ProcessBrief
      <4>2. ASSUME Len(d.buffered) = MaxCorrection
            PROVE  FALSE
        <5>1. /\ Len(r) \in Nat /\ Len(s) \in Nat /\ Len(s) = Len(r) + 1 /\ x.at = Len(s)
          <6>1. Len(r) \in Nat /\ Len(s) = Len(r) + 1 /\ x.at = Len(s)
            BY CameIs
          <6> QED
            BY <6>1
        <5>2. \A y \in Waiting(a) : Ahead(a, y) # Ahead(a, x)
          <6>1. \A y \in Waiting(a) : y.pos # p /\ y.pos \in Nat
            BY <1>1, <2>1, Coming, Positions
          <6>2. /\ p \in Nat /\ LastPassed(a).pos \in Nat /\ Ahead(a, x) = p - LastPassed(a).pos
            BY <1>1, <2>1, Coming, Positions
          <6>3. \A y \in Waiting(a) : Ahead(a, y) = y.pos - LastPassed(a).pos
            BY <2>1, RowAhead
          <6> QED
            BY <6>1, <6>2, <6>3
        <5>3. Brief(d, Len(s))
          BY <1>1, <3>3, <3>4, <5>1, <5>2, BufferBrief
        <5>4. Len(d.buffered) < MaxCorrection
          BY <3>4, <5>3, BriefIsShort
        <5> QED
          BY <4>2, <5>4, Cycle
      <4> QED
        BY <4>2
    <3>6. b = d
      BY <3>2, <3>5
    <3>7. more = taken
      BY <2>5
    <3>8. InRow(d) /\ Gapless(d, s, taken)
      BY <2>1, <3>3, <3>4, <3>7, HoldOrder
    <3> QED
      BY <2>2, <3>6, <3>7, <3>8
  <2> QED
    BY <2>3, <2>4, <2>5
<1> QED
  BY <1>1, <1>2, <1>3

-----------------------------------------------------------------------------
(* RtpSequenceAssembler: the theorems. *)

\* Nothing came, and nothing is held or passed.
LEMMA EmptyAssembler ==
  ASSUME Constants, AssemblerInit
  PROVE  /\ asm \in Assemblers /\ asm.isFirst /\ Waiting(asm) = {}
         /\ Len(asm.buffered) = 0 /\ Len(asm.chunkOf) = 0 /\ Len(asm.bytes) = 0
         /\ Len(asm.free) = 0 /\ Len(asm.passed) = 0 /\ Len(received) = 0
         /\ received \in Seq(Position)
<1>1. \A S : <<>> \in Seq(S)
  BY EmptySeq
<1>2. Len(<<>>) = 0
  BY EmptySeq
<1>3. 0 \in 0..(Modulus - 1)
  BY Cycle
<1>4. asm \in Assemblers
  BY <1>1, <1>3 DEF AssemblerInit, Assemblers
<1>5. /\ asm.isFirst /\ asm.buffered = <<>> /\ asm.chunkOf = <<>> /\ asm.bytes = <<>>
      /\ asm.free = <<>> /\ asm.passed = <<>> /\ received = <<>>
  BY DEF AssemblerInit
<1>6. Waiting(asm) = {}
  <2>1. 1..0 = {}
    OBVIOUS
  <2> QED
    BY <1>2, <1>5, <2>1 DEF Waiting
<1> QED
  BY <1>1, <1>2, <1>4, <1>5, <1>6

LEMMA AsmInit ==
  ASSUME Constants, AssemblerInit
  PROVE  AsmInv /\ OrderInv
<1>1. /\ asm \in Assemblers /\ asm.isFirst /\ Waiting(asm) = {}
      /\ Len(asm.buffered) = 0 /\ Len(asm.chunkOf) = 0 /\ Len(asm.bytes) = 0
      /\ Len(asm.free) = 0 /\ Len(asm.passed) = 0 /\ Len(received) = 0
      /\ received \in Seq(Position)
  BY EmptyAssembler
<1>2. 1..0 = {} /\ 0 = 0 + 0 /\ 0 <= MaxCorrection /\ 0 < MaxCorrection
  BY Cycle
<1>3. Own(asm)
  BY <1>1, <1>2 DEF Own, Chunks, Allotted, Remembered
<1>4. /\ Accounted(asm, received) /\ \A i \in 1..Len(received) : Kept(asm, i, received)
      /\ Brief(asm, Len(received))
  BY <1>1, <1>2 DEF Accounted, Brief
<1>5. InRow(asm) /\ Gapless(asm, received, jumped)
  BY <1>1, <1>2 DEF InRow, Gapless
<1>6. jumped \subseteq Position /\ doubled = FALSE
  BY DEF AssemblerInit
<1>7. AsmInv
  BY <1>1, <1>2, <1>3, <1>4, <1>6 DEF AsmInv
<1>8. OrderInv
  BY <1>5, <1>6 DEF OrderInv
<1> QED
  BY <1>7, <1>8

\* A step is the arrival of a packet.
LEMMA Receives ==
  ASSUME received \in Seq(Position), AssemblerNext
  PROVE  \E p \in Position :
           \E x : /\ Came(received, p, received', x)
                  /\ asm' = ProcessPacket(asm, x)
                  /\ jumped' = IF AtOnce(asm, x) THEN jumped \cup {p} ELSE jumped
                  /\ doubled' = (doubled \/ Doubles(asm, x))
<1>1. PICK p \in Position : Process(p)
  BY DEF AssemblerNext
<1> DEFINE x == [pos |-> p, at |-> Len(received) + 1]
<1>2. Len(received) \in Nat
  BY LenProperties
<1>3. x \in Arrival /\ x.pos = p /\ x.at = Len(received) + 1
  BY <1>2 DEF Arrival
<1>4. /\ received' = Append(received, p) /\ asm' = ProcessPacket(asm, x)
      /\ jumped' = IF AtOnce(asm, x) THEN jumped \cup {p} ELSE jumped
      /\ doubled' = (doubled \/ Doubles(asm, x))
  BY <1>1 DEF Process
<1> HIDE DEF x
<1>5. Came(received, p, received', x)
  BY <1>3, <1>4 DEF Came
<1> QED
  BY <1>4, <1>5

\* The parts of the invariants in the next state are those of its assembler.
LEMMA AsmPrimed ==
  /\ Own(asm)' <=> Own(asm')
  /\ Accounted(asm, received)' <=> Accounted(asm', received')
  /\ (\A i \in 1..Len(received) : Kept(asm, i, received))'
       <=> \A i \in 1..Len(received') : Kept(asm', i, received')
  /\ Brief(asm, Len(received))' <=> Brief(asm', Len(received'))
<1>1. Own(asm)' <=> Own(asm')
  BY DEF Own, Chunks, Allotted, Remembered, LastPassed, Assemblers
<1>2. Accounted(asm, received)' <=> Accounted(asm', received')
  BY DEF Accounted, Waiting
<1>3. (\A i \in 1..Len(received) : Kept(asm, i, received))'
        <=> \A i \in 1..Len(received') : Kept(asm', i, received')
  BY DEF Kept, Waiting
<1>4. Brief(asm, Len(received))' <=> Brief(asm', Len(received'))
  BY DEF Brief, Waiting, Ahead
<1> QED
  BY <1>1, <1>2, <1>3, <1>4

LEMMA OrderPrimed ==
  /\ OrderlyOf(received, jumped)' <=> OrderlyOf(received', jumped')
  /\ InRow(asm)' <=> InRow(asm')
  /\ Gapless(asm, received, jumped)' <=> Gapless(asm', received', jumped')
<1>1. OrderlyOf(received, jumped)' <=> OrderlyOf(received', jumped')
  BY DEF OrderlyOf
<1>2. InRow(asm)' <=> InRow(asm')
  BY DEF InRow, Waiting, LastPassed
<1>3. Gapless(asm, received, jumped)' <=> Gapless(asm', received', jumped')
  BY DEF Gapless, Missed, LastPassed
<1> QED
  BY <1>1, <1>2, <1>3

LEMMA AsmStep ==
  ASSUME Constants, AsmInv, AssemblerNext
  PROVE  AsmInv'
<1>1. /\ received \in Seq(Position) /\ jumped \subseteq Position /\ doubled \in BOOLEAN
      /\ Own(asm) /\ Len(asm.buffered) < MaxCorrection /\ Whole(asm, received)
      /\ ~doubled => Brief(asm, Len(received))
  BY DEF AsmInv, Whole
<1>2. PICK p \in Position :
        \E x : /\ Came(received, p, received', x)
               /\ asm' = ProcessPacket(asm, x)
               /\ jumped' = IF AtOnce(asm, x) THEN jumped \cup {p} ELSE jumped
               /\ doubled' = (doubled \/ Doubles(asm, x))
  BY <1>1, Receives
<1>3. PICK x : /\ Came(received, p, received', x)
               /\ asm' = ProcessPacket(asm, x)
               /\ jumped' = IF AtOnce(asm, x) THEN jumped \cup {p} ELSE jumped
               /\ doubled' = (doubled \/ Doubles(asm, x))
  BY <1>2
<1>4. Own(asm') /\ Whole(asm', received') /\ Len(asm'.buffered) < MaxCorrection /\ ~asm'.isFirst
  BY <1>1, <1>3, ProcessWhole
<1>5. received' \in Seq(Position) /\ Len(received') # 0
  <2>1. Len(received) \in Nat /\ received' \in Seq(Position) /\ Len(received') = Len(received) + 1
    BY <1>3, CameIs
  <2> QED
    BY <2>1
<1>6. jumped' \subseteq Position
  BY <1>1, <1>3
<1>7. doubled' \in BOOLEAN /\ (~doubled' => ~doubled /\ ~Doubles(asm, x))
  BY <1>1, <1>3
<1>8. ~doubled' => Brief(asm', Len(received'))
  <2> SUFFICES ASSUME ~doubled'
               PROVE  Brief(asm', Len(received'))
    OBVIOUS
  <2>1. Brief(asm, Len(received)) /\ ~Doubles(asm, x)
    BY <1>1, <1>7
  <2>2. Brief(ProcessPacket(asm, x), Len(received'))
    BY <1>1, <1>3, <2>1, ProcessBrief
  <2> QED
    BY <1>3, <2>2
<1> QED
  BY <1>4, <1>5, <1>6, <1>7, <1>8, AsmPrimed DEF AsmInv, Whole

LEMMA OrderStep ==
  ASSUME Constants, Frames, AsmInv, OrderInv, AssemblerNext
  PROVE  OrderInv'
<1>1. /\ received \in Seq(Position) /\ Own(asm) /\ Len(asm.buffered) < MaxCorrection
      /\ Whole(asm, received)
      /\ asm.isFirst <=> Len(received) = 0
      /\ ~doubled => Brief(asm, Len(received))
  BY DEF AsmInv, Whole
<1>2. PICK p \in Position :
        \E x : /\ Came(received, p, received', x)
               /\ asm' = ProcessPacket(asm, x)
               /\ jumped' = IF AtOnce(asm, x) THEN jumped \cup {p} ELSE jumped
               /\ doubled' = (doubled \/ Doubles(asm, x))
  BY <1>1, Receives
<1>3. PICK x : /\ Came(received, p, received', x)
               /\ asm' = ProcessPacket(asm, x)
               /\ jumped' = IF AtOnce(asm, x) THEN jumped \cup {p} ELSE jumped
               /\ doubled' = (doubled \/ Doubles(asm, x))
  BY <1>2
<1>4. ASSUME OrderlyOf(received', jumped')
      PROVE  ~doubled' /\ InRow(asm') /\ Gapless(asm', received', jumped')
  <2>1. jumped \subseteq jumped'
    BY <1>3
  <2>2. OrderlyOf(received, jumped)
    BY <1>3, <1>4, <2>1, OrderlyBefore
  <2>3. ~doubled /\ InRow(asm) /\ Gapless(asm, received, jumped)
    BY <2>2 DEF OrderInv
  <2>4. Brief(asm, Len(received))
    BY <1>1, <2>3
  <2> DEFINE b == ProcessPacket(asm, x)
  <2>5. ~Doubles(asm, x) /\ InRow(b) /\ Gapless(b, received', jumped')
    BY <1>1, <1>3, <1>4, <2>3, <2>4, ProcessOrder
  <2> QED
    BY <1>3, <2>3, <2>5
<1> QED
  BY <1>4, OrderPrimed DEF OrderInv

LEMMA AsmAlways ==
  ASSUME Constants
  PROVE  AssemblerSpec => []AsmInv
<1>1. AssemblerInit => AsmInv
  BY AsmInit
<1>2. AsmInv /\ [AssemblerNext]_assemblerVars => AsmInv'
  <2> SUFFICES ASSUME AsmInv, [AssemblerNext]_assemblerVars
               PROVE  AsmInv'
    OBVIOUS
  <2>1. CASE AssemblerNext
    BY <2>1, AsmStep
  <2>2. CASE UNCHANGED assemblerVars
    <3>1. received' = received /\ asm' = asm /\ jumped' = jumped /\ doubled' = doubled
      BY <2>2 DEF assemblerVars
    <3>2. Own(asm') /\ Accounted(asm', received')
      BY <3>1 DEF AsmInv
    <3>3. /\ \A i \in 1..Len(received') : Kept(asm', i, received')
          /\ ~doubled' => Brief(asm', Len(received'))
      BY <3>1 DEF AsmInv
    <3> QED
      BY <3>1, <3>2, <3>3, AsmPrimed DEF AsmInv
  <2> QED
    BY <2>1, <2>2
<1> QED
  BY <1>1, <1>2, PTL DEF AssemblerSpec

LEMMA OrderAlways ==
  ASSUME Constants, Frames
  PROVE  AssemblerSpec => []OrderInv
<1>1. AssemblerInit => OrderInv
  BY AsmInit
<1>2. AsmInv /\ OrderInv /\ [AssemblerNext]_assemblerVars => OrderInv'
  <2> SUFFICES ASSUME AsmInv, OrderInv, [AssemblerNext]_assemblerVars
               PROVE  OrderInv'
    OBVIOUS
  <2>1. CASE AssemblerNext
    BY <2>1, OrderStep
  <2>2. CASE UNCHANGED assemblerVars
    <3>1. received' = received /\ asm' = asm /\ jumped' = jumped /\ doubled' = doubled
      BY <2>2 DEF assemblerVars
    <3>2. OrderlyOf(received', jumped') =>
            ~doubled' /\ InRow(asm') /\ Gapless(asm', received', jumped')
      BY <3>1 DEF OrderInv
    <3> QED
      BY <3>2, OrderPrimed DEF OrderInv
  <2> QED
    BY <2>1, <2>2
<1>3. AssemblerSpec => []AsmInv
  BY AsmAlways
<1> QED
  BY <1>1, <1>2, <1>3, PTL DEF AssemblerSpec

\* The chunks that are in use are those of buffered packets, and the others are free.
LEMMA ChunksAre ==
  ASSUME NEW a, Own(a)
  PROVE  /\ a.chunkOf \in Seq(1..Len(a.bytes)) /\ a.free \in Seq(1..Len(a.bytes))
         /\ ToSet(a.chunkOf) \cup ToSet(a.free) = DOMAIN a.bytes
         /\ IsInjective(a.chunkOf)
<1> DEFINE n == Len(a.buffered)
           f == Len(a.free)
           c == Len(a.bytes)
<1>1. /\ a.chunkOf \in Seq(Nat) /\ a.free \in Seq(Nat) /\ a.bytes \in Seq(Arrival)
      /\ Len(a.chunkOf) = n
  BY Fields DEF Own, Chunks
<1>2. /\ \A i \in 1..n : a.chunkOf[i] \in 1..c
      /\ \A i \in 1..f : a.free[i] \in 1..c
      /\ \A k \in 1..c : (\E i \in 1..n : a.chunkOf[i] = k) \/ (\E i \in 1..f : a.free[i] = k)
      /\ \A i, j \in 1..n : a.chunkOf[i] = a.chunkOf[j] => i = j
  BY DEF Own, Chunks, Allotted
<1>3. DOMAIN a.chunkOf = 1..n /\ DOMAIN a.free = 1..f /\ DOMAIN a.bytes = 1..c
  BY <1>1, LenProperties
<1>4. a.chunkOf \in [1..n -> Nat] /\ a.free \in [1..f -> Nat] /\ n \in Nat /\ f \in Nat
  BY <1>1, LenProperties
<1> HIDE DEF n, f, c
<1>5. a.chunkOf \in [1..n -> 1..c] /\ a.free \in [1..f -> 1..c]
  BY <1>2, <1>4
<1>6. a.chunkOf \in Seq(1..c) /\ a.free \in Seq(1..c)
  <2>1. ASSUME NEW k \in Nat, NEW g \in [1..k -> 1..c]
        PROVE  g \in Seq(1..c)
    BY SeqDef
  <2> QED
    BY <1>4, <1>5, <2>1
<1>7. ToSet(a.chunkOf) \cup ToSet(a.free) = DOMAIN a.bytes
  BY <1>2, <1>3 DEF ToSet
<1>8. IsInjective(a.chunkOf)
  BY <1>2, <1>3 DEF IsInjective
<1> QED
  BY <1>6, <1>7, <1>8 DEF c

\* The packet at i waits or was passed: what NothingLost calls Held and Passed.
LEMMA HeldIs ==
  ASSUME Own(asm), NEW i
  PROVE  /\ Held(i) <=> \E x \in Waiting(asm) : x.at = i
         /\ Passed(i) <=> \E j \in 1..Len(asm.passed) : asm.passed[j].packet.at = i
         /\ DOMAIN asm.passed = 1..Len(asm.passed)
<1>1. /\ asm.buffered \in Seq(Arrival)
      /\ asm.passed \in Seq([packet : Arrival, payload : Arrival])
  BY Fields DEF Own
<1>2. DOMAIN asm.buffered = 1..Len(asm.buffered) /\ DOMAIN asm.passed = 1..Len(asm.passed)
  BY <1>1, LenProperties
<1> QED
  BY <1>2 DEF Held, Passed, Waiting

LEMMA AsmTyped ==
  ASSUME Constants, AsmInv
  PROVE  AssemblerTypeOK
<1>1. /\ received \in Seq(Position) /\ jumped \subseteq Position /\ doubled \in BOOLEAN
      /\ Own(asm) /\ Len(asm.buffered) < MaxCorrection
      /\ asm \in Assemblers /\ Len(asm.bytes) <= MaxCorrection
  BY DEF AsmInv, Own, Chunks
<1>2. asm.chunkOf \in Seq(1..MaxCorrection) /\ asm.free \in Seq(1..MaxCorrection)
  <2>1. Len(asm.bytes) \in Nat /\ MaxCorrection \in Nat
    BY <1>1, Fields, Cycle
  <2>2. 1..Len(asm.bytes) \subseteq 1..MaxCorrection
    BY <1>1, <2>1
  <2>3. asm.chunkOf \in Seq(1..Len(asm.bytes)) /\ asm.free \in Seq(1..Len(asm.bytes))
    BY <1>1, ChunksAre
  <2> QED
    BY <2>2, <2>3, SeqMonotonic
<1>3. asm \in [isFirst : BOOLEAN, number : 0..(Modulus - 1), timestamp : Nat,
               buffered : Seq(Arrival), chunkOf : Seq(1..MaxCorrection),
               bytes : Seq(Arrival), free : Seq(1..MaxCorrection),
               passed : Seq([packet : Arrival, payload : Arrival])]
  BY <1>1, <1>2 DEF Assemblers
<1> QED
  BY <1>1, <1>3 DEF AssemblerTypeOK

LEMMA AsmSuffices ==
  ASSUME AsmInv
  PROVE  ChunksSuffice
<1>1. /\ asm \in Assemblers /\ Len(asm.buffered) < MaxCorrection
      /\ Len(asm.bytes) <= MaxCorrection
      /\ Len(asm.bytes) = Len(asm.buffered) + Len(asm.free)
  BY DEF AsmInv, Own, Chunks, Allotted
<1>2. Len(asm.buffered) \in Nat /\ Len(asm.free) \in Nat
  BY <1>1, Fields
<1>3. \A n, f \in Nat : (n + f) - f = n
  OBVIOUS
<1>4. Len(asm.bytes) - Len(asm.free) = Len(asm.buffered)
  BY <1>1, <1>2, <1>3
<1> QED
  BY <1>1, <1>4 DEF ChunksSuffice, ChunksCount

LEMMA AsmPayloads ==
  ASSUME AsmInv
  PROVE  PayloadIsOwn
<1>1. /\ Own(asm) /\ Len(asm.chunkOf) = Len(asm.buffered)
      /\ \A i \in 1..Len(asm.passed) : asm.passed[i].payload = asm.passed[i].packet
      /\ \A i \in 1..Len(asm.buffered) : asm.bytes[asm.chunkOf[i]] = asm.buffered[i]
      /\ asm \in Assemblers
  BY DEF AsmInv, Own, Chunks, Allotted
<1>2. DOMAIN asm.buffered = 1..Len(asm.buffered) /\ DOMAIN asm.passed = 1..Len(asm.passed)
  <2>1. /\ asm.buffered \in Seq(Arrival)
        /\ asm.passed \in Seq([packet : Arrival, payload : Arrival])
    BY <1>1, Fields
  <2> QED
    BY <2>1, LenProperties
<1>3. /\ ToSet(asm.chunkOf) \cup ToSet(asm.free) = DOMAIN asm.bytes
      /\ IsInjective(asm.chunkOf)
  BY <1>1, ChunksAre
<1> QED
  BY <1>1, <1>2, <1>3 DEF PayloadIsOwn

LEMMA AsmKeeps ==
  ASSUME AsmInv
  PROVE  NothingLost
<1>1. /\ Own(asm) /\ Accounted(asm, received) /\ received \in Seq(Position)
      /\ \A i \in 1..Len(received) : Kept(asm, i, received)
  BY DEF AsmInv
<1>2. DOMAIN received = 1..Len(received)
  BY <1>1, LenProperties
<1>3. DOMAIN asm.passed = 1..Len(asm.passed)
  BY <1>1, HeldIs
<1>4. \A i : Held(i) <=> \E x \in Waiting(asm) : x.at = i
  BY <1>1, HeldIs
<1>5. \A i : Passed(i) <=> \E j \in 1..Len(asm.passed) : asm.passed[j].packet.at = i
  BY <1>1, HeldIs
<1>6. \A i \in DOMAIN received :
        \/ Held(i) \/ Passed(i)
        \/ \E j \in DOMAIN asm.passed : /\ asm.passed[j].packet.at < i
                                        /\ Seq16(asm.passed[j].packet) = received[i] % Modulus
  BY <1>1, <1>2, <1>3, <1>4, <1>5 DEF Kept
<1>7. \A i \in DOMAIN received : ~(Held(i) /\ Passed(i))
  BY <1>1, <1>4, <1>5 DEF Accounted
<1>8. \A j, k \in DOMAIN asm.passed : asm.passed[j].packet.at = asm.passed[k].packet.at => j = k
  BY <1>1, <1>3 DEF Accounted
<1> QED
  BY <1>6, <1>7, <1>8 DEF NothingLost

LEMMA AsmBrief ==
  ASSUME Constants, AsmInv
  PROVE  HeldBriefly
<1> SUFFICES ASSUME ~doubled, NEW i \in DOMAIN asm.buffered
             PROVE  Len(received) - asm.buffered[i].at <= 2 * MaxCorrection - 4
  BY DEF HeldBriefly
<1> DEFINE x == asm.buffered[i]
           n == Len(asm.buffered)
           t == Len(received)
<1>1. /\ Own(asm) /\ n < MaxCorrection /\ received \in Seq(Position)
      /\ Brief(asm, t)
  BY DEF AsmInv
<1>2. asm.buffered \in Seq(Arrival) /\ n \in Nat
  BY <1>1, Fields DEF Own
<1>3. x \in Waiting(asm)
  BY <1>2, LenProperties DEF Waiting
<1>4. x.at \in Nat /\ Ahead(asm, x) \in Nat
  <2>1. x \in Arrival /\ Ahead(asm, x) \in Nat
    BY <1>1, <1>3, WaitingIs
  <2> QED
    BY <2>1, Arrivals
<1>5. t \in Nat /\ MaxCorrection \in Nat
  BY <1>1, LenProperties, Cycle
<1> HIDE DEF x, n, t
<1>6. Ahead(asm, x) >= 2 /\ t - x.at + Ahead(asm, x) <= n + MaxCorrection - 1
  BY <1>1, <1>3 DEF Brief, n
<1>7. \A h, k, m, s, u \in Nat :
        h >= 2 /\ s - u + h <= k + m - 1 /\ k < m => s - u <= 2 * m - 4
  OBVIOUS
<1>8. t - x.at <= 2 * MaxCorrection - 4
  BY <1>1, <1>2, <1>4, <1>5, <1>6, <1>7
<1> QED
  BY <1>8 DEF t, x

\* The network is orderly as the proof has it.
LEMMA OrderlyIs ==
  ASSUME received \in Seq(Position), Position \subseteq Nat, Orderly
  PROVE  OrderlyOf(received, jumped)
<1>1. DOMAIN received = 1..Len(received) /\ Len(received) \in Nat
  BY LenProperties
<1>2. \A i \in 1..Len(received) : received[i] \in Position /\ received[i] \in ToSet(received)
  <2>1. \A i \in 1..Len(received) : received[i] \in Position
    BY ElementOfSeq
  <2> QED
    BY <1>1, <2>1 DEF ToSet
<1>3. \A i, j \in 1..Len(received) : received[i] = received[j] => i = j
  BY <1>1 DEF Orderly, IsInjective
<1>4. ASSUME NEW i \in 1..Len(received), NEW j \in 1..Len(received),
             i < j, received[i] > received[j]
      PROVE  received[i] \notin jumped \cup {received[1]}
  <2>1. received[i] \in Overtook(received[j])
    BY <1>1, <1>2, <1>4 DEF Overtook
  <2>2. Overtook(received[j]) \cap (jumped \cup {received[1]}) = {}
    BY <1>2 DEF Orderly
  <2> QED
    BY <2>1, <2>2
<1>5. \A i \in 2..Len(received) : received[i] + MaxCorrection < received[i-1] + Modulus
  <2>1. \A i \in 2..Len(received) : i \in DOMAIN received \ {1}
    BY <1>1
  <2> QED
    BY <2>1 DEF Orderly
<1> QED
  BY <1>3, <1>4, <1>5 DEF OrderlyOf

LEMMA AsmOrders ==
  ASSUME Constants, AsmInv, OrderInv
  PROVE  InOrder
<1> SUFFICES ASSUME Orderly
             PROVE  \A i, j \in DOMAIN asm.passed :
                      i < j => asm.passed[i].packet.pos < asm.passed[j].packet.pos
  BY DEF InOrder
<1>1. received \in Seq(Position) /\ Position \subseteq Nat /\ Own(asm)
  BY DEF AsmInv, Constants
<1>2. OrderlyOf(received, jumped)
  BY <1>1, OrderlyIs
<1>3. InRow(asm)
  BY <1>2 DEF OrderInv
<1>4. DOMAIN asm.passed = 1..Len(asm.passed)
  BY <1>1, HeldIs
<1> QED
  BY <1>3, <1>4 DEF InRow

-----------------------------------------------------------------------------
\* What the assembler keeps is well typed, for any _maxCorrectionLength and any numbers that
\* wrap at more than one above it.
THEOREM AssemblerTypeCorrect == AssemblerSpec => []AssemblerTypeOK
<1>1. AsmInv => AssemblerTypeOK
  BY AsmTyped, AssemblerAssumption
<1>2. AssemblerSpec => []AsmInv
  BY AsmAlways, AssemblerAssumption
<1> QED
  BY <1>1, <1>2, PTL

\* No call of ProcessPacket leaves as many as _maxCorrectionLength packets buffered, and
\* ChunksArray's Insert never throws.
THEOREM ChunksAlwaysSuffice == AssemblerSpec => []ChunksSuffice
<1>1. AsmInv => ChunksSuffice
  BY AsmSuffices
<1>2. AssemblerSpec => []AsmInv
  BY AsmAlways, AssemblerAssumption
<1> QED
  BY <1>1, <1>2, PTL

\* Every packet is passed with its own payload, whatever was inserted in and removed from
\* the list, the map and the chunks before.
THEOREM PayloadsAreOwn == AssemblerSpec => []PayloadIsOwn
<1>1. AsmInv => PayloadIsOwn
  BY AsmPayloads
<1>2. AssemblerSpec => []AsmInv
  BY AsmAlways, AssemblerAssumption
<1> QED
  BY <1>1, <1>2, PTL

\* Whatever the network does, no packet that came is lost or passed twice by ProcessPacket.
THEOREM NoPacketIsLost == AssemblerSpec => []NothingLost
<1>1. AsmInv => NothingLost
  BY AsmKeeps
<1>2. AssemblerSpec => []AsmInv
  BY AsmAlways, AssemblerAssumption
<1> QED
  BY <1>1, <1>2, PTL

\* A packet is held no longer than 2 * _maxCorrectionLength - 4 others take to come, unless
\* a number was repeated.
THEOREM HeldUntilDue == AssemblerSpec => []HeldBriefly
<1>1. AsmInv => HeldBriefly
  BY AsmBrief, AssemblerAssumption
<1>2. AssemblerSpec => []AsmInv
  BY AsmAlways, AssemblerAssumption
<1> QED
  BY <1>1, <1>2, PTL

\* Where the network is orderly, ProcessPacket passes packets in the order they were sent,
\* also where their numbers wrap.  This one rests on Frames, too.
THEOREM PacketsInOrder == AssemblerSpec => []InOrder
<1>1. AsmInv /\ OrderInv => InOrder
  BY AsmOrders, AssemblerAssumption
<1>2. AssemblerSpec => []AsmInv
  BY AsmAlways, AssemblerAssumption
<1>3. AssemblerSpec => []OrderInv
  BY OrderAlways, AssemblerAssumption
<1> QED
  BY <1>1, <1>2, <1>3, PTL
================================================================================
