--------------------------- MODULE DirectHost_proofs ---------------------------
(***************************************************************************)
(* Proofs about DirectHost, for any clients and numbers of attempts: type  *)
(* correctness, and that as long as the clients come one after the other   *)
(* every answer is the click made on the client's own id.                  *)
(***************************************************************************)
EXTENDS DirectHost, TLAPS, SequenceTheorems

ToHostMsg   == {"HI", "KEY", "CONF", "CONN"}
ToClientMsg == Client \cup {"OK", "KEYOK", "KEY"}
Answering   == {"conar", "wait", "seen", "answer", "answered"}

-----------------------------------------------------------------------------
(* The inductive invariant. *)
TypeInv ==
  /\ TypeOK
  /\ asks \in [Client -> Nat]
  /\ toClient \in [Client -> Seq(ToClientMsg)]
  /\ rs \in [Client -> Client \cup {None}]
  /\ watcher \in [at : {"poll", "taken", "show"}, ret : Client \cup {None}]
  /\ verdict \in [for : Client \cup {None}, allow : BOOLEAN]
  /\ \A t \in Client : th[t] = "none" \/ last \in Client

\* A client that has not come.
Fresh(c) ==
  /\ pc[c] = "new" <=> th[c] = "none"
  /\ pc[c] = "new" => toHost[c] = <<>> /\ toClient[c] = <<>> /\ c # last

\* A client that another one has followed is done, and its thread too.
Earlier(c) ==
  pc[c] # "new" /\ c # last =>
    /\ pc[c] \in {"in", "left"} /\ toHost[c] = <<>>
    /\ th[c] \in {"begin", "reading"} /\ (th[c] = "reading" => rs[c] = c)

\* The client accepted last: its thread reads its stream.
Current ==
  last # None => pc[last] # "new" /\ (th[last] \notin {"none", "begin"} => rs[last] = last)

\* Until its key is registered it does not ask.
KeyKnown ==
  last # None /\ vkDes # last =>
    /\ pc[last] \in {"hi", "key", "hostkey", "failed", "left"}
    /\ \A i \in 1..Len(toClient[last]) : toClient[last][i] # "KEY"
    /\ \A i \in 1..Len(toHost[last]) : toHost[last][i] # "CONN"
    /\ th[last] \in {"begin", "reading", "HI", "KEY", "CONF"}

\* Data keys, on the way or arrived, are for confirmed clients.
Confirmed(c) ==
  /\ \A i \in 1..Len(toClient[c]) : toClient[c][i] \in Client => toClient[c][i] \in confirmed
  /\ pc[c] = "in" => c \in confirmed

\* No request is under way.
Calm == ~conar /\ watcher.at = "poll" /\ ~enabled /\ ~click /\ ~conreply

\* The last click was made on l's id, and reply is its answer.
Clicked(l) == verdict = [for |-> l, allow |-> reply] /\ (reply => l \in confirmed)

\* How far l's request has come while its thread waits.
UnderWay(l) ==
  \/ conar /\ watcher.at = "poll" /\ id = l /\ ~enabled /\ ~click /\ ~conreply
  \/ watcher.at = "taken" /\ watcher.ret = l /\ ~enabled /\ ~click /\ ~conreply
  \/ watcher.at = "show" /\ watcher.ret = l /\ ~conar /\ ~enabled /\ ~click /\ ~conreply
  \/ watcher.at = "poll" /\ ~conar /\ enabled /\ label = l /\ ~conreply /\ (click => Clicked(l))
  \/ watcher.at = "poll" /\ ~conar /\ ~enabled /\ ~click /\ conreply /\ Clicked(l)

Asking ==
  LET at == IF last = None THEN "none" ELSE th[last]
  IN  /\ at \in Answering => asked[last] = last
      /\ at \notin {"wait", "seen"} => Calm
      /\ at = "conar" => id = last
      /\ at = "wait" => UnderWay(last)
      /\ at = "seen" => watcher.at = "poll" /\ ~conar /\ ~enabled /\ ~click /\ Clicked(last)
      /\ at = "answer" => Clicked(last)

Serial ==
  /\ \A c \in Client : Fresh(c) /\ Earlier(c) /\ Confirmed(c)
  /\ Current /\ KeyKnown /\ Asking

\* As long as no key is registered no client asks.
NoKeyYet ==
  vkDes = None => \A c \in Client :
    /\ pc[c] \notin {"ready", "wait"}
    /\ \A i \in 1..Len(toClient[c]) : toClient[c][i] # "KEY"
    /\ \A i \in 1..Len(toHost[c]) : toHost[c][i] # "CONN"
    /\ th[c] \in {"none", "begin", "reading", "HI", "KEY", "CONF"}

IInv == TypeInv /\ NoKeyYet /\ (Mixed \/ Serial)

-----------------------------------------------------------------------------
(* Sequences of messages. *)
LEMMA Appended ==
  ASSUME NEW S, NEW s \in Seq(S), NEW m \in S
  PROVE  /\ Append(s, m) \in Seq(S)
         /\ \A i \in 1..Len(Append(s, m)) :
              (\E j \in 1..Len(s) : Append(s, m)[i] = s[j]) \/ Append(s, m)[i] = m
<1>1. /\ Append(s, m) \in Seq(S) /\ Len(Append(s, m)) = Len(s) + 1 /\ Len(s) \in Nat
      /\ \A i \in 1..Len(s) : Append(s, m)[i] = s[i]
      /\ Append(s, m)[Len(s) + 1] = m
  OBVIOUS
<1>2. QED
  BY <1>1

LEMMA Received ==
  ASSUME NEW S, NEW s \in Seq(S), NEW k \in 1..Len(s)
  PROVE  /\ SubSeq(s, k + 1, Len(s)) \in Seq(S)
         /\ \A i \in 1..Len(SubSeq(s, k + 1, Len(s))) :
              \E j \in 1..Len(s) : SubSeq(s, k + 1, Len(s))[i] = s[j]
         /\ Head(s) \in S /\ \E j \in 1..Len(s) : Head(s) = s[j]
<1> DEFINE r == SubSeq(s, k + 1, Len(s))
<1>1. /\ Len(s) \in Nat /\ k + 1 \in 1..(Len(s) + 1)
      /\ \A j \in 1..Len(s) : s[j] \in S
  OBVIOUS
<1>2. /\ r \in Seq(S)
      /\ Len(r) = IF k + 1 <= Len(s) THEN Len(s) - (k + 1) + 1 ELSE 0
      /\ \A i \in 1..(Len(s) - (k + 1) + 1) : r[i] = s[(k + 1) + i - 1]
  BY <1>1, SubSeqProperties
<1>4. Head(s) = s[1] /\ 1 \in 1..Len(s)
  BY <1>1
<1> HIDE DEF r
<1>5. ASSUME NEW i \in 1..Len(r) PROVE \E j \in 1..Len(s) : r[i] = s[j]
  <2>1. i \in 1..(Len(s) - (k + 1) + 1) /\ (k + 1) + i - 1 \in 1..Len(s)
    BY <1>1, <1>2
  <2>2. QED
    BY <1>2, <2>1
<1>6. QED
  BY <1>1, <1>2, <1>4, <1>5 DEF r

-----------------------------------------------------------------------------
(* Type correctness. *)
\* The elements of a queue to a client are messages.
LEMMA MessagesTyped ==
  ASSUME toClient \in [Client -> Seq(ToClientMsg)]
  PROVE  \A c \in Client : \A i \in DOMAIN toClient[c] :
           toClient[c][i] \in Client \/ toClient[c][i] \in {"OK", "KEYOK", "KEY"}
<1> TAKE c \in Client
<1>1. toClient[c] \in Seq(ToClientMsg)
  OBVIOUS
<1>2. \A i \in DOMAIN toClient[c] : toClient[c][i] \in ToClientMsg
  BY <1>1
<1>3. QED
  BY <1>2 DEF ToClientMsg

LEMMA TypeInit == Init => TypeInv
<1> SUFFICES ASSUME Init PROVE TypeInv
  OBVIOUS
<1>1. toClient \in [Client -> Seq(ToClientMsg)] /\ toHost \in [Client -> Seq(ToHostMsg)]
  BY DEF Init
<1>2. \A c \in Client : asks[c] \in 0..MaxAsk[c]
  <2> TAKE c \in Client
  <2>1. asks[c] = 0 /\ MaxAsk[c] \in Nat
    BY DirectAssumption DEF Init
  <2>2. 0 \in 0..MaxAsk[c]
    BY <2>1
  <2>3. QED
    BY <2>1, <2>2
<1>3. \A c \in Client : \A i \in DOMAIN toClient[c] :
        toClient[c][i] \in Client \/ toClient[c][i] \in {"OK", "KEYOK", "KEY"}
  BY <1>1, MessagesTyped
<1>4. asks \in [Client -> Nat] /\ rs \in [Client -> Client \cup {None}]
      /\ watcher \in [at : {"poll", "taken", "show"}, ret : Client \cup {None}]
      /\ verdict \in [for : Client \cup {None}, allow : BOOLEAN]
  BY DEF Init
<1>5. TypeOK
  <2>1. /\ pc \in [Client -> {"new", "hi", "key", "hostkey", "ready", "wait", "in", "failed", "left"}]
        /\ DOMAIN asks = Client
        /\ th \in [Client -> {"none", "begin", "reading", "HI", "KEY", "CONF", "CONN", "sleep",
                              "conf", "conar", "wait", "seen", "answer", "answered"}]
        /\ buf \in [Client -> {"none", "HI", "KEY", "CONF", "CONN"}]
        /\ \A t \in Client : th[t] \in {"none", "begin"} /\ th[t] = "none"
        /\ asked \in [Client -> Client \cup {None}]
    BY DEF Init
  <2>2. /\ {last, vkDes, id, label, watcher.ret, verdict.for} \subseteq Client \cup {None}
        /\ {conar, conreply, reply, crashed, enabled, click, overlapped, intruded} \subseteq BOOLEAN
        /\ confirmed \subseteq Client \cup {None}
    BY DEF Init
  <2>3. QED
    BY <1>1, <1>2, <1>3, <2>1, <2>2 DEF TypeOK, ToHostMsg
<1>6. \A t \in Client : th[t] = "none" \/ last \in Client
  BY DEF Init
<1>7. QED
  BY <1>1, <1>4, <1>5, <1>6 DEF TypeInv

\* What the actions do to the messages on the way.
LEMMA Sending ==
  ASSUME TypeInv, NEW c \in Client, NEW m \in ToClientMsg
  PROVE  /\ SentTo(c, m) \in [Client -> Seq(ToClientMsg)]
         /\ \A d \in Client : d # c => SentTo(c, m)[d] = toClient[d]
         /\ \A i \in 1..Len(SentTo(c, m)[c]) :
              (\E j \in 1..Len(toClient[c]) : SentTo(c, m)[c][i] = toClient[c][j])
                \/ SentTo(c, m)[c][i] = m
<1>1. toClient[c] \in Seq(ToClientMsg) /\ toClient \in [Client -> Seq(ToClientMsg)]
  BY DEF TypeInv
<1>2. CASE pc[c] = "left"
  BY <1>1, <1>2 DEF SentTo
<1>3. CASE pc[c] # "left"
  <2>1. SentTo(c, m) = [toClient EXCEPT ![c] = Append(toClient[c], m)]
    BY <1>1, <1>3 DEF SentTo
  <2>2. Append(toClient[c], m) \in Seq(ToClientMsg)
        /\ \A i \in 1..Len(Append(toClient[c], m)) :
             (\E j \in 1..Len(toClient[c]) : Append(toClient[c], m)[i] = toClient[c][j])
               \/ Append(toClient[c], m)[i] = m
    BY <1>1, Appended
  <2>3. QED
    BY <1>1, <2>1, <2>2
<1>4. QED
  BY <1>2, <1>3

LEMMA Taking ==
  ASSUME TypeInv, NEW c \in Client, NEW k \in 1..Len(toClient[c])
  PROVE  LET r == [toClient EXCEPT ![c] = SubSeq(toClient[c], k + 1, Len(toClient[c]))]
         IN  /\ r \in [Client -> Seq(ToClientMsg)]
             /\ \A d \in Client : \A i \in 1..Len(r[d]) :
                  \E j \in 1..Len(toClient[d]) : r[d][i] = toClient[d][j]
             /\ Head(toClient[c]) \in ToClientMsg
             /\ \E j \in 1..Len(toClient[c]) : Head(toClient[c]) = toClient[c][j]
<1> DEFINE s == SubSeq(toClient[c], k + 1, Len(toClient[c]))
           r == [toClient EXCEPT ![c] = s]
<1>1. toClient[c] \in Seq(ToClientMsg) /\ toClient \in [Client -> Seq(ToClientMsg)]
  BY DEF TypeInv
<1>2. /\ s \in Seq(ToClientMsg)
      /\ \A i \in 1..Len(s) : \E j \in 1..Len(toClient[c]) : s[i] = toClient[c][j]
      /\ Head(toClient[c]) \in ToClientMsg
      /\ \E j \in 1..Len(toClient[c]) : Head(toClient[c]) = toClient[c][j]
  BY <1>1, Received
<1> HIDE DEF s
<1>3. QED
  BY <1>1, <1>2

LEMMA HostSending ==
  ASSUME TypeInv, NEW c \in Client, NEW m \in ToHostMsg,
         toHost' = [toHost EXCEPT ![c] = Append(toHost[c], m)]
  PROVE  /\ toHost' \in [Client -> Seq(ToHostMsg)]
         /\ \A d \in Client : d # c => toHost'[d] = toHost[d]
         /\ \A i \in 1..Len(toHost'[c]) :
              (\E j \in 1..Len(toHost[c]) : toHost'[c][i] = toHost[c][j]) \/ toHost'[c][i] = m
<1>1. toHost[c] \in Seq(ToHostMsg) /\ toHost \in [Client -> Seq(ToHostMsg)]
  BY DEF TypeInv, TypeOK, ToHostMsg
<1>2. Append(toHost[c], m) \in Seq(ToHostMsg)
      /\ \A i \in 1..Len(Append(toHost[c], m)) :
           (\E j \in 1..Len(toHost[c]) : Append(toHost[c], m)[i] = toHost[c][j])
             \/ Append(toHost[c], m)[i] = m
  BY <1>1, Appended
<1>3. QED
  BY <1>1, <1>2

LEMMA HostTaking ==
  ASSUME TypeInv, NEW c \in Client, NEW k \in 1..Len(toHost[c]),
         toHost' = [toHost EXCEPT ![c] = SubSeq(toHost[c], k + 1, Len(toHost[c]))]
  PROVE  /\ toHost' \in [Client -> Seq(ToHostMsg)]
         /\ \A d \in Client : d # c => toHost'[d] = toHost[d]
         /\ \A i \in 1..Len(toHost'[c]) : \E j \in 1..Len(toHost[c]) : toHost'[c][i] = toHost[c][j]
         /\ Head(toHost[c]) \in ToHostMsg /\ toHost[c] # <<>>
         /\ \E j \in 1..Len(toHost[c]) : Head(toHost[c]) = toHost[c][j]
<1> DEFINE s == SubSeq(toHost[c], k + 1, Len(toHost[c]))
<1>1. toHost[c] \in Seq(ToHostMsg) /\ toHost \in [Client -> Seq(ToHostMsg)]
  BY DEF TypeInv, TypeOK, ToHostMsg
<1>2. /\ s \in Seq(ToHostMsg)
      /\ \A i \in 1..Len(s) : \E j \in 1..Len(toHost[c]) : s[i] = toHost[c][j]
      /\ Head(toHost[c]) \in ToHostMsg /\ toHost[c] # <<>>
      /\ \E j \in 1..Len(toHost[c]) : Head(toHost[c]) = toHost[c][j]
  BY <1>1, Received
<1> HIDE DEF s
<1>3. toHost' = [toHost EXCEPT ![c] = s]
  BY DEF s
<1>4. QED
  BY <1>1, <1>2, <1>3

\* TypeInv in two parts: the sequences, and the rest.
Messages == toHost \in [Client -> Seq(ToHostMsg)] /\ toClient \in [Client -> Seq(ToClientMsg)]

Fields ==
  /\ pc \in [Client -> {"new", "hi", "key", "hostkey", "ready", "wait", "in", "failed", "left"}]
  /\ asks \in [Client -> Nat] /\ \A c \in Client : asks[c] \in 0..MaxAsk[c]
  /\ th \in [Client -> {"none", "begin", "reading", "HI", "KEY", "CONF", "CONN", "sleep", "conf",
                        "conar", "wait", "seen", "answer", "answered"}]
  /\ buf \in [Client -> {"none", "HI", "KEY", "CONF", "CONN"}]
  /\ rs \in [Client -> Client \cup {None}]
  /\ \A t \in Client : th[t] \in {"none", "begin"} \/ rs[t] \in Client
  /\ \A t \in Client : th[t] = "none" \/ last \in Client
  /\ asked \in [Client -> Client \cup {None}]
  /\ last \in Client \cup {None} /\ vkDes \in Client \cup {None} /\ id \in Client \cup {None}
  /\ label \in Client \cup {None}
  /\ watcher \in [at : {"poll", "taken", "show"}, ret : Client \cup {None}]
  /\ verdict \in [for : Client \cup {None}, allow : BOOLEAN]
  /\ conar \in BOOLEAN /\ conreply \in BOOLEAN /\ reply \in BOOLEAN /\ crashed \in BOOLEAN
  /\ enabled \in BOOLEAN /\ click \in BOOLEAN /\ overlapped \in BOOLEAN /\ intruded \in BOOLEAN
  /\ confirmed \subseteq Client \cup {None}

LEMMA TypeParts == TypeInv <=> Messages /\ Fields
<1>1. TypeInv => Messages
  BY DEF TypeInv, TypeOK, Messages, ToHostMsg
<1>2. TypeInv => Fields
  BY DEF TypeInv, TypeOK, Fields
<1>3. ASSUME Messages, Fields PROVE TypeInv
  <2>1. \A c \in Client : \A i \in DOMAIN toClient[c] :
          toClient[c][i] \in Client \/ toClient[c][i] \in {"OK", "KEYOK", "KEY"}
    BY <1>3, MessagesTyped DEF Messages
  <2>2. DOMAIN asks = Client /\ toHost \in [Client -> Seq({"HI", "KEY", "CONF", "CONN"})]
    BY <1>3 DEF Messages, Fields, ToHostMsg
  <2>3. watcher.ret \in Client \cup {None} /\ verdict.for \in Client \cup {None}
    BY <1>3 DEF Fields
  <2>4. /\ {last, vkDes, id, label, watcher.ret, verdict.for} \subseteq Client \cup {None}
        /\ {conar, conreply, reply, crashed, enabled, click, overlapped, intruded} \subseteq BOOLEAN
    BY <1>3, <2>3 DEF Fields
  <2>5. TypeOK
    BY <1>3, <2>1, <2>2, <2>4 DEF Fields, TypeOK
  <2>6. QED
    BY <1>3, <2>5 DEF TypeInv, Fields, Messages
<1>4. QED
  BY <1>1, <1>2, <1>3

LEMMA MessagesStep == TypeInv /\ NoKeyYet /\ [Next]_vars => Messages'
<1> SUFFICES ASSUME TypeInv, NoKeyYet, [Next]_vars PROVE Messages'
  OBVIOUS
<1>0. toHost \in [Client -> Seq(ToHostMsg)] /\ toClient \in [Client -> Seq(ToClientMsg)]
      /\ last \in Client \cup {None} /\ vkDes \in Client \cup {None}
      /\ th \in [Client -> {"none", "begin", "reading", "HI", "KEY", "CONF", "CONN", "sleep", "conf",
                            "conar", "wait", "seen", "answer", "answered"}]
      /\ \A t \in Client : th[t] \in {"none", "begin"} \/ rs[t] \in Client
  BY TypeParts DEF Messages, Fields
<1>h. ASSUME toHost' = toHost PROVE toHost' \in [Client -> Seq(ToHostMsg)]
  BY <1>0, <1>h
<1>c. ASSUME toClient' = toClient PROVE toClient' \in [Client -> Seq(ToClientMsg)]
  BY <1>0, <1>c
<1>s. ASSUME NEW c \in Client \cup {None}, NEW m \in ToClientMsg
      PROVE  SentTo(c, m) \in [Client -> Seq(ToClientMsg)]
  <2>1. CASE c \in Client
    BY <2>1, Sending
  <2>2. CASE c \notin Client
    <3>1. SentTo(c, m) = toClient
      BY <1>0, <2>2 DEF SentTo
    <3>2. QED
      BY <1>0, <3>1
  <2>3. QED
    BY <2>1, <2>2
<1>1. ASSUME NEW c \in Client, Accept(c) PROVE Messages'
  <2>1. <<"HI">> \in Seq(ToHostMsg)
    BY DEF ToHostMsg
  <2>2. toHost' = [toHost EXCEPT ![c] = <<"HI">>] /\ toClient' = toClient
    BY <1>1 DEF Accept
  <2>3. QED
    BY <1>0, <1>c, <2>1, <2>2 DEF Messages
<1>2. ASSUME NEW c \in Client, RecvOk(c) PROVE Messages'
  <2>1. PICK k \in 1..Len(toClient[c]) :
          toClient' = [toClient EXCEPT ![c] = SubSeq(@, k + 1, Len(@))]
    BY <1>2 DEF RecvOk
  <2>2. toClient' = [toClient EXCEPT ![c] = SubSeq(toClient[c], k + 1, Len(toClient[c]))]
    BY <2>1, <1>0
  <2>3. toClient' \in [Client -> Seq(ToClientMsg)]
    BY <2>2, Taking
  <2>4. toHost' = [toHost EXCEPT ![c] = Append(toHost[c], "KEY")] /\ "KEY" \in ToHostMsg
    BY <1>2, <1>0 DEF RecvOk, ToHostMsg
  <2>5. QED
    BY <2>3, <2>4, HostSending DEF Messages
<1>3. ASSUME NEW c \in Client, RecvKeyOk(c) PROVE Messages'
  <2>1. PICK k \in 1..Len(toClient[c]) :
          toClient' = [toClient EXCEPT ![c] = SubSeq(@, k + 1, Len(@))]
    BY <1>3 DEF RecvKeyOk
  <2>2. toClient' = [toClient EXCEPT ![c] = SubSeq(toClient[c], k + 1, Len(toClient[c]))]
    BY <2>1, <1>0
  <2>3. toClient' \in [Client -> Seq(ToClientMsg)]
    BY <2>2, Taking
  <2>4. toHost' = toHost
    BY <1>3 DEF RecvKeyOk
  <2>5. QED
    BY <1>h, <2>3, <2>4 DEF Messages
<1>4. ASSUME NEW c \in Client, RecvKey(c) PROVE Messages'
  <2>1. PICK k \in 1..Len(toClient[c]) :
          toClient' = [toClient EXCEPT ![c] = SubSeq(@, k + 1, Len(@))]
    BY <1>4 DEF RecvKey
  <2>2. toClient' = [toClient EXCEPT ![c] = SubSeq(toClient[c], k + 1, Len(toClient[c]))]
    BY <2>1, <1>0
  <2>3. toClient' \in [Client -> Seq(ToClientMsg)]
    BY <2>2, Taking
  <2>4. \/ toHost' = toHost
        \/ toHost' = [toHost EXCEPT ![c] = Append(toHost[c], "CONF")] /\ "CONF" \in ToHostMsg
    BY <1>4, <1>0 DEF RecvKey, ToHostMsg
  <2>5. QED
    BY <1>h, <2>3, <2>4, HostSending DEF Messages
<1>5. ASSUME NEW c \in Client, RecvAnswer(c) PROVE Messages'
  <2>1. PICK k \in 1..Len(toClient[c]) :
          toClient' = [toClient EXCEPT ![c] = SubSeq(@, k + 1, Len(@))]
    BY <1>5 DEF RecvAnswer
  <2>2. toClient' = [toClient EXCEPT ![c] = SubSeq(toClient[c], k + 1, Len(toClient[c]))]
    BY <2>1, <1>0
  <2>3. toClient' \in [Client -> Seq(ToClientMsg)]
    BY <2>2, Taking
  <2>4. toHost' = toHost
    BY <1>5 DEF RecvAnswer
  <2>5. QED
    BY <1>h, <2>3, <2>4 DEF Messages
<1>6. ASSUME NEW c \in Client, Ask(c) PROVE Messages'
  <2>1. toHost' = [toHost EXCEPT ![c] = Append(toHost[c], "CONN")] /\ "CONN" \in ToHostMsg
        /\ toClient' = toClient
    BY <1>6, <1>0 DEF Ask, ToHostMsg
  <2>2. QED
    BY <1>c, <2>1, HostSending DEF Messages
<1>7. ASSUME NEW c \in Client, Timeout(c) PROVE Messages'
  BY <1>h, <1>c, <1>7 DEF Timeout, client, Messages
<1>8. ASSUME NEW c \in Client, Leave(c) PROVE Messages'
  <2>1. toHost' = toHost /\ toClient' = [toClient EXCEPT ![c] = <<>>]
    BY <1>8 DEF Leave
  <2>2. QED
    BY <1>0, <1>h, <2>1 DEF Messages
<1>9. ASSUME NEW c \in Client, BeginRead(c) PROVE Messages'
  BY <1>h, <1>c, <1>9 DEF BeginRead, client, Messages
<1>10. ASSUME NEW c \in Client, Read(c) PROVE Messages'
  <2>1. rs[c] \in Client
    BY <1>0, <1>10 DEF Read
  <2>2. PICK k \in 1..Len(toHost[rs[c]]) :
          toHost' = [toHost EXCEPT ![rs[c]] = SubSeq(@, k + 1, Len(@))]
    BY <1>10 DEF Read
  <2>3. toHost' = [toHost EXCEPT ![rs[c]] = SubSeq(toHost[rs[c]], k + 1, Len(toHost[rs[c]]))]
    BY <2>2, <2>1, <1>0
  <2>4. toHost' \in [Client -> Seq(ToHostMsg)]
    BY <2>1, <2>3, HostTaking
  <2>5. toClient' = toClient
    BY <1>10 DEF Read
  <2>6. QED
    BY <1>c, <2>4, <2>5 DEF Messages
<1>11. ASSUME NEW c \in Client, ReadEnd(c) PROVE Messages'
  BY <1>h, <1>c, <1>11 DEF ReadEnd, client, Messages
<1>12. ASSUME NEW c \in Client, SendOk(c) PROVE Messages'
  <2>1. toHost' = toHost /\ toClient' = SentTo(last, "OK") /\ "OK" \in ToClientMsg
    BY <1>12 DEF SendOk, ToClientMsg
  <2>2. QED
    BY <1>0, <1>h, <1>s, <2>1 DEF Messages
<1>13. ASSUME NEW c \in Client, RegisterVK(c) PROVE Messages'
  <2>1. toHost' = toHost /\ toClient' = SentTo(c, "KEYOK") /\ "KEYOK" \in ToClientMsg
    BY <1>13 DEF RegisterVK, ToClientMsg
  <2>2. QED
    BY <1>0, <1>h, <1>s, <2>1 DEF Messages
<1>14. ASSUME NEW c \in Client, SendKey(c) PROVE Messages'
  <2>1. toHost' = toHost /\ toClient' = SentTo(last, "KEY") /\ "KEY" \in ToClientMsg
    BY <1>14 DEF SendKey, ToClientMsg
  <2>2. QED
    BY <1>0, <1>h, <1>s, <2>1 DEF Messages
<1>15. ASSUME NEW c \in Client, RecvConf(c) PROVE Messages'
  <2>1. toClient' = toClient
    BY <1>15 DEF RecvConf
  <2>2. CASE toHost' = toHost
    BY <1>h, <1>c, <2>1, <2>2 DEF Messages
  <2>3. CASE \E k \in 1..Len(toHost[c]) : toHost' = [toHost EXCEPT ![c] = SubSeq(@, k + 1, Len(@))]
    <3>1. PICK k \in 1..Len(toHost[c]) : toHost' = [toHost EXCEPT ![c] = SubSeq(@, k + 1, Len(@))]
      BY <2>3
    <3>2. toHost' = [toHost EXCEPT ![c] = SubSeq(toHost[c], k + 1, Len(toHost[c]))]
      BY <3>1, <1>0
    <3>3. toHost' \in [Client -> Seq(ToHostMsg)]
      BY <3>2, HostTaking
    <3>4. QED
      BY <1>c, <2>1, <3>3 DEF Messages
  <2>4. QED
    BY <1>15, <2>2, <2>3 DEF RecvConf
<1>16. ASSUME NEW c \in Client, SetId(c) PROVE Messages'
  BY <1>h, <1>c, <1>16 DEF SetId, client, Messages
<1>17. ASSUME NEW c \in Client, SetConar(c) PROVE Messages'
  BY <1>h, <1>c, <1>17 DEF SetConar, client, Messages
<1>18. ASSUME NEW c \in Client, SeeReply(c) PROVE Messages'
  BY <1>h, <1>c, <1>18 DEF SeeReply, client, Messages
<1>19. ASSUME NEW c \in Client, ResetConreply(c) PROVE Messages'
  BY <1>h, <1>c, <1>19 DEF ResetConreply, client, Messages
<1>20. ASSUME NEW c \in Client, Answer(c) PROVE Messages'
  <2>1. toHost' = toHost /\ th[c] = "answer"
        /\ (toClient' = SentTo(last, vkDes) \/ toClient' = toClient)
    BY <1>20 DEF Answer
  <2>2. vkDes \in ToClientMsg
    BY <1>0, <2>1 DEF NoKeyYet, ToClientMsg
  <2>3. QED
    BY <1>0, <1>h, <1>c, <1>s, <2>1, <2>2 DEF Messages
<1>21. ASSUME NEW c \in Client, ResetReply(c) PROVE Messages'
  BY <1>h, <1>c, <1>21 DEF ResetReply, client, Messages
<1>22. ASSUME Watcher \/ User \/ UNCHANGED vars PROVE Messages'
  BY <1>h, <1>c, <1>22 DEF Watcher, User, TakeId, ClearConar, Show, SetReply, SetConreply, client,
     vars, Messages
<1>23. QED
  BY <1>1, <1>2, <1>3, <1>4, <1>5, <1>6, <1>7, <1>8, <1>9, <1>10, <1>11, <1>12, <1>13, <1>14, <1>15, <1>16, <1>17, <1>18, <1>19, <1>20, <1>21, <1>22
     DEF Next, ClientStep, Thread

LEMMA FieldsStep == TypeInv /\ NoKeyYet /\ [Next]_vars => Fields'
<1> SUFFICES ASSUME TypeInv, NoKeyYet, [Next]_vars PROVE Fields'
  OBVIOUS
<1>0. Fields /\ Messages
  BY TypeParts
<1>1. ASSUME NEW c \in Client, Accept(c) PROVE Fields'
  BY <1>0, <1>1 DEF Accept, Fields, screen
<1>2. ASSUME NEW c \in Client, RecvOk(c) PROVE Fields'
  BY <1>0, <1>2 DEF RecvOk, Fields, client, threads, screen, history
<1>3. ASSUME NEW c \in Client, RecvKeyOk(c) PROVE Fields'
  BY <1>0, <1>3 DEF RecvKeyOk, Fields, client, threads, screen, history
<1>4. ASSUME NEW c \in Client, RecvKey(c) PROVE Fields'
  <2>1. /\ \E p \in {"ready", "failed"} : pc' = [pc EXCEPT ![c] = p]
        /\ UNCHANGED <<asks, threads, id, conar, conreply, reply, crashed, screen, history>>
    BY <1>4 DEF RecvKey
  <2>2. QED
    BY <1>0, <2>1 DEF Fields, threads, screen, history
<1>5. ASSUME NEW c \in Client, RecvAnswer(c) PROVE Fields'
  BY <1>0, <1>5 DEF RecvAnswer, Fields, client, threads, screen, history
<1>6. ASSUME NEW c \in Client, Ask(c) PROVE Fields'
  <2>1. asks[c] < MaxAsk[c] /\ asks' = [asks EXCEPT ![c] = asks[c] + 1] /\ MaxAsk[c] \in Nat
    BY <1>0, <1>6, DirectAssumption DEF Ask, Fields
  <2>2. asks' \in [Client -> Nat] /\ \A d \in Client : asks'[d] \in 0..MaxAsk[d]
    BY <1>0, <2>1 DEF Fields
  <2>3. QED
    BY <1>0, <1>6, <2>2 DEF Ask, Fields, threads, screen, history
<1>7. ASSUME NEW c \in Client, Timeout(c) PROVE Fields'
  BY <1>0, <1>7 DEF Timeout, Fields, client, threads, screen, history
<1>8. ASSUME NEW c \in Client, Leave(c) PROVE Fields'
  BY <1>0, <1>8 DEF Leave, Fields, client, threads, screen, history
<1>9. ASSUME NEW c \in Client, BeginRead(c) PROVE Fields'
  <2>1. /\ th[c] = "begin" /\ th' = [th EXCEPT ![c] = "reading"] /\ rs' = [rs EXCEPT ![c] = last]
        /\ UNCHANGED <<client, buf, last, vkDes, id, conar, conreply, reply, crashed, screen,
                       verdict, asked, confirmed, overlapped>>
    BY <1>9 DEF BeginRead, Goto
  <2>2. intruded' \in BOOLEAN
    BY <1>9 DEF BeginRead
  <2>3. last \in Client
    BY <1>0, <2>1 DEF Fields
  <2>4. QED
    BY <1>0, <2>1, <2>2, <2>3 DEF Fields, client, screen
<1>10. ASSUME NEW c \in Client, Read(c) PROVE Fields'
  <2>1. rs[c] \in Client
    BY <1>0, <1>10 DEF Read, Fields
  <2>2. Head(toHost[rs[c]]) \in ToHostMsg
    <3>1. PICK k \in 1..Len(toHost[rs[c]]) : TRUE
      BY <1>10 DEF Read
    <3>2. toHost[rs[c]] \in Seq(ToHostMsg)
      BY <1>0, <2>1 DEF Messages
    <3>3. QED
      BY <3>1, <3>2, Received
  <2>3. /\ buf' = [buf EXCEPT ![rs[c]] = Head(toHost[rs[c]])]
        /\ th[c] = "reading"
        /\ \E l \in {"begin", Head(toHost[rs[c]])} : th' = [th EXCEPT ![c] = l]
        /\ crashed' = (Head(toHost[rs[c]]) = "CONF")
        /\ UNCHANGED <<pc, asks, rs, last, vkDes, id, conar, conreply, reply, screen, history>>
    BY <1>10 DEF Read, Goto
  <2>4. QED
    BY <1>0, <2>1, <2>2, <2>3 DEF Fields, ToHostMsg, screen, history
<1>11. ASSUME NEW c \in Client, ReadEnd(c) PROVE Fields'
  <2>1. /\ th[c] = "reading" /\ \E l \in {"HI", "KEY", "begin"} : th' = [th EXCEPT ![c] = l]
        /\ UNCHANGED <<client, rs, buf, last, vkDes, id, conar, conreply, reply, screen,
                       verdict, asked, confirmed, overlapped>>
    BY <1>11 DEF ReadEnd, Goto
  <2>2. intruded' \in BOOLEAN
    BY <1>11 DEF ReadEnd
  <2>3. crashed' = TRUE \/ crashed' = (buf[rs[c]] \in {"none", "CONF"})
    BY <1>11 DEF ReadEnd
  <2>4. (buf[rs[c]] \in {"none", "CONF"}) \in BOOLEAN
    OBVIOUS
  <2>5. crashed' \in BOOLEAN
    BY <2>3, <2>4
  <2>6. QED
    BY <1>0, <2>1, <2>2, <2>5 DEF Fields, client, screen
<1>12. ASSUME NEW c \in Client, SendOk(c) PROVE Fields'
  BY <1>0, <1>12 DEF SendOk, Fields, Goto, client, threads, screen, history
<1>13. ASSUME NEW c \in Client, RegisterVK(c) PROVE Fields'
  <2>1. /\ th[c] = "KEY" /\ th' = [th EXCEPT ![c] = "sleep"] /\ vkDes' = rs[c]
        /\ UNCHANGED <<pc, asks, toHost, rs, buf, last, id, conar, conreply, reply, screen, history>>
    BY <1>13 DEF RegisterVK, Goto
  <2>2. crashed' \in BOOLEAN
    BY <1>13 DEF RegisterVK
  <2>3. QED
    BY <1>0, <2>1, <2>2 DEF Fields, screen, history
<1>14. ASSUME NEW c \in Client, SendKey(c) PROVE Fields'
  BY <1>0, <1>14 DEF SendKey, Fields, Goto, client, threads, screen, history
<1>15. ASSUME NEW c \in Client, RecvConf(c) PROVE Fields'
  BY <1>0, <1>15 DEF RecvConf, Fields, Goto, client, threads, screen, history
<1>16. ASSUME NEW c \in Client, SetId(c) PROVE Fields'
  BY <1>0, <1>16 DEF SetId, Fields, Goto, client, threads, screen, history
<1>17. ASSUME NEW c \in Client, SetConar(c) PROVE Fields'
  BY <1>0, <1>17 DEF SetConar, Fields, Goto, client, threads, screen, history
<1>18. ASSUME NEW c \in Client, SeeReply(c) PROVE Fields'
  BY <1>0, <1>18 DEF SeeReply, Fields, Goto, client, threads, screen, history
<1>19. ASSUME NEW c \in Client, ResetConreply(c) PROVE Fields'
  <2>1. /\ th[c] = "seen" /\ th' = [th EXCEPT ![c] = "answer"]
        /\ UNCHANGED <<client, rs, buf, last, vkDes, id, conar, reply, crashed, screen, history>>
    BY <1>19 DEF ResetConreply, Goto
  <2>2. conreply' \in BOOLEAN
    BY <1>19 DEF ResetConreply
  <2>3. QED
    BY <1>0, <2>1, <2>2 DEF Fields, client, screen, history
<1>20. ASSUME NEW c \in Client, Answer(c) PROVE Fields'
  BY <1>0, <1>20 DEF Answer, Fields, Goto, client, threads, screen, history
<1>21. ASSUME NEW c \in Client, ResetReply(c) PROVE Fields'
  <2>1. /\ th[c] = "answered" /\ th' = [th EXCEPT ![c] = "begin"]
        /\ UNCHANGED <<client, rs, buf, last, vkDes, id, conar, conreply, crashed, screen, history>>
    BY <1>21 DEF ResetReply, Goto
  <2>2. reply' \in BOOLEAN
    BY <1>21 DEF ResetReply
  <2>3. QED
    BY <1>0, <2>1, <2>2 DEF Fields, client, screen, history
<1>22. ASSUME TakeId PROVE Fields'
  BY <1>0, <1>22 DEF TakeId, Fields, client, threads, history
<1>23. ASSUME ClearConar PROVE Fields'
  <2>1. /\ watcher' = [watcher EXCEPT !.at = "show"]
        /\ UNCHANGED <<client, threads, id, conreply, reply, crashed, label, enabled, click, history>>
    BY <1>23 DEF ClearConar
  <2>2. conar' \in BOOLEAN
    BY <1>23 DEF ClearConar
  <2>3. QED
    BY <1>0, <2>1, <2>2 DEF Fields, client, threads, history
<1>24. ASSUME Show PROVE Fields'
  BY <1>0, <1>24 DEF Show, Fields, client, threads, history
<1>25. ASSUME NEW allow \in BOOLEAN, SetReply(allow) PROVE Fields'
  BY <1>0, <1>25 DEF SetReply, Fields, client, threads, history
<1>26. ASSUME SetConreply PROVE Fields'
  BY <1>0, <1>26 DEF SetConreply, Fields, client, threads, history
<1>27. ASSUME UNCHANGED vars PROVE Fields'
  BY <1>0, <1>27 DEF vars, Fields, client, threads, screen, history
<1>28. QED
  BY <1>1, <1>2, <1>3, <1>4, <1>5, <1>6, <1>7, <1>8, <1>9, <1>10, <1>11, <1>12, <1>13, <1>14,
     <1>15, <1>16, <1>17, <1>18, <1>19, <1>20, <1>21, <1>22, <1>23, <1>24, <1>25, <1>26, <1>27
     DEF Next, ClientStep, Thread, Watcher, User

LEMMA TypeStep == TypeInv /\ NoKeyYet /\ [Next]_vars => TypeInv'
  BY MessagesStep, FieldsStep, TypeParts, PTL

\* No client asks before the first key is registered.
LEMMA NoKeyStep == TypeInv /\ NoKeyYet /\ [Next]_vars => NoKeyYet'
<1> SUFFICES ASSUME TypeInv, NoKeyYet, [Next]_vars, vkDes' = None
             PROVE  \A c \in Client :
                      /\ pc'[c] \notin {"ready", "wait"}
                      /\ \A i \in 1..Len(toClient'[c]) : toClient'[c][i] # "KEY"
                      /\ \A i \in 1..Len(toHost'[c]) : toHost'[c][i] # "CONN"
                      /\ th'[c] \in {"none", "begin", "reading", "HI", "KEY", "CONF"}
  BY DEF NoKeyYet
<1>t. Fields /\ Messages
  BY TypeParts
<1> DEFINE NoKey  == \A c \in Client : \A i \in 1..Len(toClient[c]) : toClient[c][i] # "KEY"
           NoKeyN == \A c \in Client : \A i \in 1..Len(toClient'[c]) : toClient'[c][i] # "KEY"
           NoAsk  == \A c \in Client : \A i \in 1..Len(toHost[c]) : toHost[c][i] # "CONN"
           NoAskN == \A c \in Client : \A i \in 1..Len(toHost'[c]) : toHost'[c][i] # "CONN"
           Idle   == \A c \in Client : /\ pc[c] \notin {"ready", "wait"}
                                       /\ th[c] \in {"none", "begin", "reading", "HI", "KEY", "CONF"}
           IdleN  == \A c \in Client : /\ pc'[c] \notin {"ready", "wait"}
                                       /\ th'[c] \in {"none", "begin", "reading", "HI", "KEY", "CONF"}
<1> SUFFICES NoKeyN /\ NoAskN /\ IdleN
  OBVIOUS
<1>0. vkDes = None => NoKey /\ NoAsk /\ Idle
  BY DEF NoKeyYet
<1>k. ASSUME NoKey, toClient' = toClient PROVE NoKeyN
  BY <1>k
<1>a. ASSUME NoAsk, toHost' = toHost PROVE NoAskN
  BY <1>a
<1>f. /\ pc \in [Client -> {"new", "hi", "key", "hostkey", "ready", "wait", "in", "failed", "left"}]
      /\ th \in [Client -> {"none", "begin", "reading", "HI", "KEY", "CONF", "CONN", "sleep", "conf",
                            "conar", "wait", "seen", "answer", "answered"}]
      /\ \A t \in Client : th[t] \in {"none", "begin"} \/ rs[t] \in Client
      /\ \A t \in Client : th[t] = "none" \/ last \in Client
      /\ toHost \in [Client -> Seq(ToHostMsg)] /\ toClient \in [Client -> Seq(ToClientMsg)]
  BY <1>t DEF Fields, Messages
<1>g. ASSUME NEW c \in Client, NEW k \in 1..Len(toClient[c]), NoKey,
             toClient' = [toClient EXCEPT ![c] = SubSeq(@, k + 1, Len(@))]
      PROVE  NoKeyN /\ Head(toClient[c]) # "KEY"
  <2>1. toClient' = [toClient EXCEPT ![c] = SubSeq(toClient[c], k + 1, Len(toClient[c]))]
    BY <1>g, <1>f
  <2>2. /\ \A d \in Client : \A i \in 1..Len(toClient'[d]) :
             \E j \in 1..Len(toClient[d]) : toClient'[d][i] = toClient[d][j]
        /\ \E j \in 1..Len(toClient[c]) : Head(toClient[c]) = toClient[c][j]
    BY <2>1, Taking
  <2>3. QED
    BY <2>2, <1>g
<1>h. ASSUME NEW c \in Client, NEW k \in 1..Len(toHost[c]), NoAsk,
             toHost' = [toHost EXCEPT ![c] = SubSeq(@, k + 1, Len(@))]
      PROVE  NoAskN /\ Head(toHost[c]) \in {"HI", "KEY", "CONF"}
  <2>1. toHost' = [toHost EXCEPT ![c] = SubSeq(toHost[c], k + 1, Len(toHost[c]))]
    BY <1>h, <1>f
  <2>2. /\ \A d \in Client : d # c => toHost'[d] = toHost[d]
        /\ \A i \in 1..Len(toHost'[c]) : \E j \in 1..Len(toHost[c]) : toHost'[c][i] = toHost[c][j]
        /\ \E j \in 1..Len(toHost[c]) : Head(toHost[c]) = toHost[c][j]
        /\ Head(toHost[c]) \in ToHostMsg
    BY <2>1, HostTaking
  <2>3. NoAskN
    BY <2>2, <1>h
  <2>4. Head(toHost[c]) # "CONN"
    BY <2>2, <1>h
  <2>5. QED
    BY <2>2, <2>3, <2>4 DEF ToHostMsg
<1>i. ASSUME NEW c \in Client, NEW m \in {"HI", "KEY", "CONF"}, NoAsk,
             toHost' = [toHost EXCEPT ![c] = Append(@, m)]
      PROVE  NoAskN
  <2>1. toHost' = [toHost EXCEPT ![c] = Append(toHost[c], m)] /\ m \in ToHostMsg
    BY <1>i, <1>f DEF ToHostMsg
  <2>2. /\ \A d \in Client : d # c => toHost'[d] = toHost[d]
        /\ \A i \in 1..Len(toHost'[c]) :
             (\E j \in 1..Len(toHost[c]) : toHost'[c][i] = toHost[c][j]) \/ toHost'[c][i] = m
    BY <2>1, HostSending
  <2>3. QED
    BY <2>2, <1>i
<1>j. ASSUME NEW c \in Client, NEW m \in {"OK", "KEYOK"}, NoKey, toClient' = SentTo(c, m)
      PROVE  NoKeyN
  <2>1. m \in ToClientMsg
    BY DEF ToClientMsg
  <2>2. /\ \A d \in Client : d # c => toClient'[d] = toClient[d]
        /\ \A i \in 1..Len(toClient'[c]) :
             (\E j \in 1..Len(toClient[c]) : toClient'[c][i] = toClient[c][j]) \/ toClient'[c][i] = m
    BY <2>1, <1>j, Sending
  <2>3. QED
    BY <2>2, <1>j
<1> HIDE DEF NoKey, NoKeyN, NoAsk, NoAskN
<1>1. ASSUME NEW c \in Client, Accept(c) PROVE NoKeyN /\ NoAskN /\ IdleN
  <2>1. vkDes = None /\ toHost' = [toHost EXCEPT ![c] = <<"HI">>] /\ toClient' = toClient
    BY <1>1 DEF Accept
  <2>2. NoAskN
    BY <1>0, <1>f, <2>1 DEF NoAsk, NoAskN
  <2>3. IdleN
    BY <1>0, <1>f, <1>1, <2>1 DEF Accept
  <2>4. QED
    BY <1>0, <1>k, <2>1, <2>2, <2>3
<1>2. ASSUME NEW c \in Client, RecvOk(c) PROVE NoKeyN /\ NoAskN /\ IdleN
  <2>1. vkDes = None
    BY <1>2 DEF RecvOk, threads
  <2>2. NoKeyN /\ Head(toClient[c]) # "KEY"
    BY <1>0, <1>g, <1>2, <2>1 DEF RecvOk
  <2>3. NoAskN
    BY <1>0, <1>i, <1>2, <2>1 DEF RecvOk
  <2>4. IdleN
    BY <1>0, <1>f, <1>2, <2>1, <2>2 DEF RecvOk, threads
  <2>5. QED
    BY <2>2, <2>3, <2>4
<1>3. ASSUME NEW c \in Client, RecvKeyOk(c) PROVE NoKeyN /\ NoAskN /\ IdleN
  <2>1. vkDes = None
    BY <1>3 DEF RecvKeyOk, threads
  <2>2. NoKeyN /\ Head(toClient[c]) # "KEY"
    BY <1>0, <1>g, <1>3, <2>1 DEF RecvKeyOk
  <2>3. NoAskN
    BY <1>0, <1>a, <1>3, <2>1 DEF RecvKeyOk
  <2>4. IdleN
    BY <1>0, <1>f, <1>3, <2>1, <2>2 DEF RecvKeyOk, threads
  <2>5. QED
    BY <2>2, <2>3, <2>4
<1>4. ASSUME NEW c \in Client, RecvKey(c) PROVE NoKeyN /\ NoAskN /\ IdleN
  <2>1. vkDes = None
    BY <1>4 DEF RecvKey, threads
  <2>2. NoKeyN /\ Head(toClient[c]) # "KEY"
    BY <1>0, <1>g, <1>4, <2>1 DEF RecvKey
  <2>3. NoAskN
    BY <1>0, <1>a, <1>4, <2>1, <2>2 DEF RecvKey
  <2>4. IdleN
    BY <1>0, <1>f, <1>4, <2>1, <2>2 DEF RecvKey, threads
  <2>5. QED
    BY <2>2, <2>3, <2>4
<1>5. ASSUME NEW c \in Client, RecvAnswer(c) PROVE NoKeyN /\ NoAskN /\ IdleN
  BY <1>0, <1>5 DEF RecvAnswer, threads
<1>6. ASSUME NEW c \in Client, Ask(c) PROVE NoKeyN /\ NoAskN /\ IdleN
  BY <1>0, <1>6 DEF Ask, threads
<1>7. ASSUME NEW c \in Client, Timeout(c) PROVE NoKeyN /\ NoAskN /\ IdleN
  BY <1>0, <1>7 DEF Timeout, threads
<1>8. ASSUME NEW c \in Client, Leave(c) PROVE NoKeyN /\ NoAskN /\ IdleN
  <2>1. vkDes = None /\ toClient' = [toClient EXCEPT ![c] = <<>>] /\ toHost' = toHost
    BY <1>8 DEF Leave, threads
  <2>2. NoKeyN
    BY <1>0, <1>f, <2>1 DEF NoKey, NoKeyN
  <2>3. IdleN
    BY <1>0, <1>f, <1>8, <2>1 DEF Leave, threads
  <2>4. QED
    BY <1>0, <1>a, <2>1, <2>2, <2>3
<1>9. ASSUME NEW c \in Client, BeginRead(c) PROVE NoKeyN /\ NoAskN /\ IdleN
  <2>1. vkDes = None /\ toClient' = toClient /\ toHost' = toHost
    BY <1>9 DEF BeginRead, client
  <2>2. IdleN
    BY <1>0, <1>f, <1>9, <2>1 DEF BeginRead, Goto, client
  <2>3. QED
    BY <1>0, <1>k, <1>a, <2>1, <2>2
<1>10. ASSUME NEW c \in Client, Read(c) PROVE NoKeyN /\ NoAskN /\ IdleN
  <2>1. vkDes = None /\ toClient' = toClient /\ rs[c] \in Client
    BY <1>f, <1>10 DEF Read
  <2>2. PICK k \in 1..Len(toHost[rs[c]]) :
          toHost' = [toHost EXCEPT ![rs[c]] = SubSeq(@, k + 1, Len(@))]
    BY <1>10 DEF Read
  <2>3. NoAskN /\ Head(toHost[rs[c]]) \in {"HI", "KEY", "CONF"}
    BY <1>0, <1>h, <2>1, <2>2
  <2>4. IdleN
    BY <1>0, <1>f, <1>10, <2>1, <2>3 DEF Read, Goto
  <2>5. QED
    BY <1>0, <1>k, <2>1, <2>3, <2>4
<1>11. ASSUME NEW c \in Client, ReadEnd(c) PROVE NoKeyN /\ NoAskN /\ IdleN
  <2>1. vkDes = None /\ toClient' = toClient /\ toHost' = toHost
    BY <1>11 DEF ReadEnd, client
  <2>2. IdleN
    BY <1>0, <1>f, <1>11, <2>1 DEF ReadEnd, Goto, client
  <2>3. QED
    BY <1>0, <1>k, <1>a, <2>1, <2>2
<1>12. ASSUME NEW c \in Client, SendOk(c) PROVE NoKeyN /\ NoAskN /\ IdleN
  <2>1. vkDes = None /\ toClient' = SentTo(last, "OK") /\ toHost' = toHost /\ last \in Client
    BY <1>f, <1>12 DEF SendOk
  <2>2. NoKeyN
    BY <1>0, <1>j, <2>1
  <2>3. IdleN
    BY <1>0, <1>f, <1>12, <2>1 DEF SendOk, Goto
  <2>4. QED
    BY <1>0, <1>a, <2>1, <2>2, <2>3
<1>13. ASSUME NEW c \in Client, RegisterVK(c) PROVE NoKeyN /\ NoAskN /\ IdleN
  <2>1. rs[c] \in Client /\ vkDes' = rs[c]
    BY <1>f, <1>13 DEF RegisterVK
  <2>2. QED
    BY <2>1, DirectAssumption
<1>14. ASSUME NEW c \in Client, SendKey(c) PROVE NoKeyN /\ NoAskN /\ IdleN
  BY <1>0, <1>14 DEF SendKey
<1>15. ASSUME NEW c \in Client, RecvConf(c) PROVE NoKeyN /\ NoAskN /\ IdleN
  BY <1>0, <1>15 DEF RecvConf
<1>16. ASSUME NEW c \in Client, SetId(c) PROVE NoKeyN /\ NoAskN /\ IdleN
  BY <1>0, <1>16 DEF SetId
<1>17. ASSUME NEW c \in Client, SetConar(c) PROVE NoKeyN /\ NoAskN /\ IdleN
  BY <1>0, <1>17 DEF SetConar
<1>18. ASSUME NEW c \in Client, SeeReply(c) PROVE NoKeyN /\ NoAskN /\ IdleN
  BY <1>0, <1>18 DEF SeeReply
<1>19. ASSUME NEW c \in Client, ResetConreply(c) PROVE NoKeyN /\ NoAskN /\ IdleN
  BY <1>0, <1>19 DEF ResetConreply
<1>20. ASSUME NEW c \in Client, Answer(c) PROVE NoKeyN /\ NoAskN /\ IdleN
  BY <1>0, <1>20 DEF Answer
<1>21. ASSUME NEW c \in Client, ResetReply(c) PROVE NoKeyN /\ NoAskN /\ IdleN
  BY <1>0, <1>21 DEF ResetReply
<1>22. ASSUME Watcher \/ User \/ UNCHANGED vars PROVE NoKeyN /\ NoAskN /\ IdleN
  <2>1. UNCHANGED <<client, threads>>
    BY <1>22 DEF Watcher, User, TakeId, ClearConar, Show, SetReply, SetConreply, vars
  <2>2. vkDes = None /\ toClient' = toClient /\ toHost' = toHost /\ pc' = pc /\ th' = th
    BY <2>1 DEF client, threads
  <2>3. QED
    BY <1>0, <1>k, <1>a, <2>2
<1>23. QED
  BY <1>1, <1>2, <1>3, <1>4, <1>5, <1>6, <1>7, <1>8, <1>9, <1>10, <1>11, <1>12, <1>13, <1>14,
     <1>15, <1>16, <1>17, <1>18, <1>19, <1>20, <1>21, <1>22
     DEF Next, ClientStep, Thread

-----------------------------------------------------------------------------
(* Clients that come one after the other. *)
LEMMA MixedStays == TypeInv /\ [Next]_vars /\ Mixed => Mixed'
<1> SUFFICES ASSUME TypeInv, [Next]_vars, Mixed PROVE Mixed'
  OBVIOUS
<1>1. ASSUME NEW c \in Client, Accept(c) PROVE Mixed'
  BY <1>1 DEF Accept, Mixed
<1>2. ASSUME NEW c \in Client, ClientStep(c) \/ Ask(c) \/ Timeout(c) \/ Leave(c) PROVE Mixed'
  BY <1>2 DEF ClientStep, RecvOk, RecvKeyOk, RecvKey, RecvAnswer, Ask, Timeout, Leave, history, Mixed
<1>3. ASSUME NEW c \in Client, Thread(c) PROVE Mixed'
  <2>1. CASE BeginRead(c) \/ ReadEnd(c)
    BY <2>1 DEF BeginRead, ReadEnd, Mixed
  <2>2. CASE Read(c) \/ SendOk(c) \/ RegisterVK(c) \/ SendKey(c) \/ RecvConf(c)
    BY <2>2 DEF Read, SendOk, RegisterVK, SendKey, RecvConf, history, Mixed
  <2>3. CASE SetId(c) \/ SetConar(c) \/ SeeReply(c) \/ ResetConreply(c) \/ Answer(c) \/ ResetReply(c)
    BY <2>3 DEF SetId, SetConar, SeeReply, ResetConreply, Answer, ResetReply, history, Mixed
  <2>4. QED
    BY <1>3, <2>1, <2>2, <2>3 DEF Thread
<1>4. ASSUME Watcher \/ User \/ UNCHANGED vars PROVE Mixed'
  BY <1>4 DEF Watcher, User, TakeId, ClearConar, Show, SetReply, SetConreply, vars, history, Mixed
<1>5. QED
  BY <1>1, <1>2, <1>3, <1>4 DEF Next

\* Only the thread of the client accepted last is past reading, and it reads that client.
LEMMA OnlyLast ==
  ASSUME Serial, NEW t \in Client, th[t] \notin {"none", "begin", "reading"}
  PROVE  t = last /\ rs[t] = t /\ pc[t] # "new"
BY DirectAssumption DEF Serial, Fresh, Earlier, Current

\* A step of client c that leaves the host alone.
LEMMA ClientSide ==
  ASSUME TypeInv, Serial, NEW c \in Client, NEW p,
         pc[c] # "new", p # "new", pc' = [pc EXCEPT ![c] = p],
         UNCHANGED <<threads, id, conar, conreply, reply, crashed, screen, history>>,
         pc[c] \in {"in", "left"} => p \in {"in", "left"} /\ toHost'[c] = toHost[c],
         \A d \in Client : d # c => toHost'[d] = toHost[d] /\ toClient'[d] = toClient[d],
         \A i \in 1..Len(toClient'[c]) : \E j \in 1..Len(toClient[c]) : toClient'[c][i] = toClient[c][j],
         p = "in" => c \in confirmed,
         c = last /\ vkDes # c =>
           /\ p \in {"hi", "key", "hostkey", "failed", "left"}
           /\ \A i \in 1..Len(toHost'[c]) : toHost'[c][i] # "CONN"
  PROVE  Serial'
<1>1. /\ pc \in [Client -> {"new", "hi", "key", "hostkey", "ready", "wait", "in", "failed", "left"}]
      /\ last \in Client \cup {None}
  BY DEF TypeInv, TypeOK
<1>2. UNCHANGED <<th, rs, last, vkDes, id, conar, conreply, reply, watcher, label, enabled, click,
                  verdict, asked, confirmed>>
  BY DEF threads, screen, history
<1>3. ASSUME NEW d \in Client PROVE Fresh(d)' /\ Earlier(d)' /\ Confirmed(d)'
  <2>1. Fresh(d) /\ Earlier(d) /\ Confirmed(d)
    BY DEF Serial
  <2>2. CASE d = c
    BY <1>1, <1>2, <2>1, <2>2 DEF Fresh, Earlier, Confirmed
  <2>3. CASE d # c
    BY <1>1, <1>2, <2>1, <2>3 DEF Fresh, Earlier, Confirmed
  <2>4. QED
    BY <2>2, <2>3
<1>4. Current'
  BY <1>1, <1>2 DEF Serial, Current
<1>5. KeyKnown'
  <2>1. SUFFICES ASSUME last \in Client, vkDes # last
                 PROVE  /\ pc'[last] \in {"hi", "key", "hostkey", "failed", "left"}
                        /\ \A i \in 1..Len(toClient'[last]) : toClient'[last][i] # "KEY"
                        /\ \A i \in 1..Len(toHost'[last]) : toHost'[last][i] # "CONN"
                        /\ th[last] \in {"begin", "reading", "HI", "KEY", "CONF"}
    BY <1>1, <1>2 DEF KeyKnown
  <2>2. /\ pc[last] \in {"hi", "key", "hostkey", "failed", "left"}
        /\ \A i \in 1..Len(toClient[last]) : toClient[last][i] # "KEY"
        /\ \A i \in 1..Len(toHost[last]) : toHost[last][i] # "CONN"
        /\ th[last] \in {"begin", "reading", "HI", "KEY", "CONF"}
    BY <1>1, <2>1, DirectAssumption DEF Serial, KeyKnown
  <2>3. CASE last = c
    BY <1>1, <2>1, <2>2, <2>3
  <2>4. CASE last # c
    BY <1>1, <2>1, <2>2, <2>4
  <2>5. QED
    BY <2>3, <2>4
<1>6. Asking'
  BY <1>2 DEF Serial, Asking, Calm, UnderWay, Clicked
<1>7. QED
  BY <1>3, <1>4, <1>5, <1>6 DEF Serial

\* A client that knows the host's key, or is about to, has had its own registered.
LEMMA Registered ==
  ASSUME TypeInv, Serial, NEW c \in Client, pc[c] \notin {"new", "in", "left"}
  PROVE  /\ c = last
         /\ pc[c] \in {"ready", "wait"} => vkDes = last
         /\ (\E i \in 1..Len(toClient[c]) : toClient[c][i] = "KEY") => vkDes = last
<1>1. c = last
  BY DEF Serial, Earlier
<1>2. QED
  BY <1>1, DirectAssumption DEF Serial, KeyKnown

LEMMA SerialClient ==
  ASSUME TypeInv, Serial, NEW c \in Client,
         ClientStep(c) \/ Ask(c) \/ Timeout(c) \/ Leave(c)
  PROVE  Serial'
<1>f. /\ pc \in [Client -> {"new", "hi", "key", "hostkey", "ready", "wait", "in", "failed", "left"}]
      /\ toHost \in [Client -> Seq(ToHostMsg)] /\ toClient \in [Client -> Seq(ToClientMsg)]
  BY TypeParts DEF Fields, Messages
<1>c. Fresh(c) /\ Earlier(c) /\ Confirmed(c)
  BY DEF Serial
<1>g. ASSUME NEW k \in 1..Len(toClient[c]),
             toClient' = [toClient EXCEPT ![c] = SubSeq(@, k + 1, Len(@))]
      PROVE  /\ \A d \in Client : d # c => toClient'[d] = toClient[d]
             /\ \A i \in 1..Len(toClient'[c]) :
                  \E j \in 1..Len(toClient[c]) : toClient'[c][i] = toClient[c][j]
             /\ \E j \in 1..Len(toClient[c]) : Head(toClient[c]) = toClient[c][j]
             /\ Head(toClient[c]) \in ToClientMsg
  <2>1. toClient' = [toClient EXCEPT ![c] = SubSeq(toClient[c], k + 1, Len(toClient[c]))]
    BY <1>g, <1>f
  <2>2. /\ \A d \in Client : \A i \in 1..Len(toClient'[d]) :
             \E j \in 1..Len(toClient[d]) : toClient'[d][i] = toClient[d][j]
        /\ \E j \in 1..Len(toClient[c]) : Head(toClient[c]) = toClient[c][j]
        /\ Head(toClient[c]) \in ToClientMsg
    BY <2>1, Taking
  <2>3. QED
    BY <1>f, <2>1, <2>2
<1>s. ASSUME NEW m \in {"KEY", "CONF", "CONN"}, toHost' = [toHost EXCEPT ![c] = Append(@, m)]
      PROVE  /\ \A d \in Client : d # c => toHost'[d] = toHost[d]
             /\ \A i \in 1..Len(toHost'[c]) :
                  (\E j \in 1..Len(toHost[c]) : toHost'[c][i] = toHost[c][j]) \/ toHost'[c][i] = m
  <2>1. toHost' = [toHost EXCEPT ![c] = Append(toHost[c], m)] /\ m \in ToHostMsg
    BY <1>s, <1>f DEF ToHostMsg
  <2>2. QED
    BY <2>1, HostSending
<1>n. c = last /\ vkDes # c => \A i \in 1..Len(toHost[c]) : toHost[c][i] # "CONN"
  BY DirectAssumption DEF Serial, KeyKnown
<1>1. CASE RecvOk(c)
  <2>1. /\ pc[c] = "hi" /\ pc' = [pc EXCEPT ![c] = "key"]
        /\ toHost' = [toHost EXCEPT ![c] = Append(@, "KEY")]
        /\ \E k \in 1..Len(toClient[c]) : toClient' = [toClient EXCEPT ![c] = SubSeq(@, k + 1, Len(@))]
        /\ UNCHANGED <<threads, id, conar, conreply, reply, crashed, screen, history>>
    BY <1>1 DEF RecvOk
  <2>2. /\ \A d \in Client : d # c => toHost'[d] = toHost[d] /\ toClient'[d] = toClient[d]
        /\ \A i \in 1..Len(toClient'[c]) :
             \E j \in 1..Len(toClient[c]) : toClient'[c][i] = toClient[c][j]
    BY <1>g, <1>s, <2>1
  <2>3. c = last /\ vkDes # c => \A i \in 1..Len(toHost'[c]) : toHost'[c][i] # "CONN"
    BY <1>s, <1>n, <2>1
  <2>4. QED
    BY <2>1, <2>2, <2>3, ClientSide
<1>2. CASE RecvKeyOk(c)
  <2>1. /\ pc[c] = "key" /\ pc' = [pc EXCEPT ![c] = "hostkey"]
        /\ toHost' = toHost
        /\ \E k \in 1..Len(toClient[c]) : toClient' = [toClient EXCEPT ![c] = SubSeq(@, k + 1, Len(@))]
        /\ UNCHANGED <<threads, id, conar, conreply, reply, crashed, screen, history>>
    BY <1>2 DEF RecvKeyOk
  <2>2. QED
    BY <1>g, <1>n, <2>1, ClientSide
<1>3. CASE RecvKey(c)
  <2>1. /\ pc[c] = "hostkey"
        /\ \E k \in 1..Len(toClient[c]) : toClient' = [toClient EXCEPT ![c] = SubSeq(@, k + 1, Len(@))]
        /\ UNCHANGED <<threads, id, conar, conreply, reply, crashed, screen, history>>
    BY <1>3 DEF RecvKey
  <2>2. CASE Head(toClient[c]) = "KEY"
    <3>1. pc' = [pc EXCEPT ![c] = "ready"] /\ toHost' = [toHost EXCEPT ![c] = Append(@, "CONF")]
      BY <1>3, <2>2 DEF RecvKey
    <3>2. vkDes = last
      BY <1>g, <2>1, <2>2, Registered
    <3>3. QED
      BY <1>g, <1>s, <1>n, <2>1, <3>1, <3>2, ClientSide
  <2>3. CASE Head(toClient[c]) # "KEY"
    <3>1. pc' = [pc EXCEPT ![c] = "failed"] /\ toHost' = toHost
      BY <1>3, <2>3 DEF RecvKey
    <3>2. QED
      BY <1>g, <1>n, <2>1, <3>1, ClientSide
  <2>4. QED
    BY <2>2, <2>3
<1>4. CASE RecvAnswer(c)
  <2>1. /\ pc[c] = "wait" /\ toHost' = toHost
        /\ \E k \in 1..Len(toClient[c]) : toClient' = [toClient EXCEPT ![c] = SubSeq(@, k + 1, Len(@))]
        /\ UNCHANGED <<threads, id, conar, conreply, reply, crashed, screen, history>>
        /\ \E p \in {"in", "ready"} : pc' = [pc EXCEPT ![c] = p] /\ (p = "in" => Head(toClient[c]) = c)
    BY <1>4 DEF RecvAnswer
  <2>2. vkDes = last
    BY <2>1, Registered
  <2>3. Head(toClient[c]) = c => c \in confirmed
    BY <1>c, <1>g, <2>1 DEF Confirmed
  <2>4. QED
    BY <1>g, <2>1, <2>2, <2>3, ClientSide
<1>5. CASE Ask(c)
  <2>1. /\ pc[c] = "ready" /\ pc' = [pc EXCEPT ![c] = "wait"] /\ toClient' = toClient
        /\ toHost' = [toHost EXCEPT ![c] = Append(@, "CONN")]
        /\ UNCHANGED <<threads, id, conar, conreply, reply, crashed, screen, history>>
    BY <1>5 DEF Ask
  <2>2. vkDes = last
    BY <2>1, Registered
  <2>3. QED
    BY <1>s, <2>1, <2>2, ClientSide
<1>6. CASE Timeout(c)
  <2>1. /\ pc[c] = "wait" /\ pc' = [pc EXCEPT ![c] = "ready"] /\ toClient' = toClient /\ toHost' = toHost
        /\ UNCHANGED <<threads, id, conar, conreply, reply, crashed, screen, history>>
    BY <1>6 DEF Timeout
  <2>2. vkDes = last
    BY <2>1, Registered
  <2>3. QED
    BY <2>1, <2>2, ClientSide
<1>7. CASE Leave(c)
  <2>1. /\ pc[c] # "new" /\ pc' = [pc EXCEPT ![c] = "left"] /\ toHost' = toHost
        /\ toClient' = [toClient EXCEPT ![c] = <<>>]
        /\ UNCHANGED <<threads, id, conar, conreply, reply, crashed, screen, history>>
    BY <1>7 DEF Leave
  <2>2. \A d \in Client : d # c => toClient'[d] = toClient[d]
    BY <1>f, <2>1
  <2>3. toClient'[c] = <<>>
    BY <1>f, <2>1
  <2>4. \A i \in 1..Len(toClient'[c]) : \E j \in 1..Len(toClient[c]) : toClient'[c][i] = toClient[c][j]
    BY <2>3
  <2>5. QED
    BY <1>n, <2>1, <2>2, <2>4, ClientSide
<1>8. QED
  BY <1>1, <1>2, <1>3, <1>4, <1>5, <1>6, <1>7 DEF ClientStep

\* A step of thread t, but for the request it serves.
LEMMA ThreadSide ==
  ASSUME TypeInv, Serial, NEW t \in Client, NEW l,
         th[t] # "none", l # "none", th' = [th EXCEPT ![t] = l],
         pc' = pc, last' = last, confirmed' = confirmed,
         \A d \in Client : d # t => rs'[d] = rs[d],
         \A d \in Client : d # last => toHost'[d] = toHost[d] /\ toClient'[d] = toClient[d],
         t # last => l = "begin" \/ (l = "reading" /\ rs'[t] = t),
         t = last /\ l # "begin" => rs'[t] = t,
         last \in Client =>
           \A i \in 1..Len(toClient'[last]) : toClient'[last][i] \in Client => toClient'[last][i] \in confirmed,
         vkDes' # last /\ last \in Client =>
           /\ vkDes' = vkDes
           /\ \A i \in 1..Len(toClient'[last]) : toClient'[last][i] # "KEY"
           /\ \A i \in 1..Len(toHost'[last]) : toHost'[last][i] # "CONN"
           /\ t = last => l \in {"begin", "reading", "HI", "KEY", "CONF"},
         Asking'
  PROVE  Serial'
<1>1. /\ th \in [Client -> {"none", "begin", "reading", "HI", "KEY", "CONF", "CONN", "sleep", "conf",
                            "conar", "wait", "seen", "answer", "answered"}]
      /\ last \in Client \cup {None} /\ None \notin Client
  BY DirectAssumption DEF TypeInv, TypeOK
<1>2. pc[t] # "new" /\ (last \in Client => pc[last] # "new")
  BY <1>1 DEF Serial, Fresh, Current
<1>3. ASSUME NEW d \in Client PROVE Fresh(d)' /\ Earlier(d)' /\ Confirmed(d)'
  <2>1. Fresh(d) /\ Earlier(d) /\ Confirmed(d)
    BY DEF Serial
  <2>2. th'[d] = IF d = t THEN l ELSE th[d]
    BY <1>1
  <2>3. Fresh(d)'
    BY <1>1, <1>2, <2>1, <2>2 DEF Fresh
  <2>4. Earlier(d)'
    BY <1>1, <1>2, <2>1, <2>2 DEF Earlier
  <2>5. Confirmed(d)'
    BY <1>1, <1>2, <2>1 DEF Confirmed
  <2>6. QED
    BY <2>3, <2>4, <2>5
<1>4. Current'
  BY <1>1, <1>2 DEF Serial, Current
<1>5. KeyKnown'
  BY <1>1 DEF Serial, KeyKnown
<1>6. QED
  BY <1>3, <1>4, <1>5 DEF Serial

LEMMA SerialThread ==
  ASSUME TypeInv, Serial, NEW t \in Client, Thread(t), ~Mixed'
  PROVE  Serial'
<1>f. /\ th \in [Client -> {"none", "begin", "reading", "HI", "KEY", "CONF", "CONN", "sleep", "conf",
                            "conar", "wait", "seen", "answer", "answered"}]
      /\ last \in Client \cup {None} /\ None \notin Client /\ vkDes \in Client \cup {None}
      /\ rs \in [Client -> Client \cup {None}] /\ asked \in [Client -> Client \cup {None}]
      /\ toHost \in [Client -> Seq(ToHostMsg)] /\ toClient \in [Client -> Seq(ToClientMsg)]
  BY TypeParts, DirectAssumption DEF Fields, Messages
<1>p. /\ Fresh(t) /\ Earlier(t) /\ Confirmed(t) /\ Current /\ KeyKnown /\ Asking
      /\ last \in Client => Confirmed(last)
  BY DEF Serial
<1>k. last \in Client /\ vkDes # last =>
        /\ \A i \in 1..Len(toClient[last]) : toClient[last][i] # "KEY"
        /\ \A i \in 1..Len(toHost[last]) : toHost[last][i] # "CONN"
        /\ th[last] \in {"begin", "reading", "HI", "KEY", "CONF"}
  BY <1>f, <1>p DEF KeyKnown
<1>c. last \in Client =>
        \A i \in 1..Len(toClient[last]) : toClient[last][i] \in Client => toClient[last][i] \in confirmed
  BY <1>p DEF Confirmed
<1>q. ASSUME pc[t] = "new" PROVE th[t] = "none"
  BY <1>p, <1>q DEF Fresh
<1>h. ASSUME t = last, NEW k \in 1..Len(toHost[t]),
             toHost' = [toHost EXCEPT ![t] = SubSeq(@, k + 1, Len(@))]
      PROVE  /\ \A d \in Client : d # last => toHost'[d] = toHost[d]
             /\ vkDes # last => /\ \A i \in 1..Len(toHost'[last]) : toHost'[last][i] # "CONN"
                                /\ Head(toHost[last]) # "CONN"
             /\ Head(toHost[t]) \in ToHostMsg
  <2>1. toHost' = [toHost EXCEPT ![t] = SubSeq(toHost[t], k + 1, Len(toHost[t]))]
    BY <1>h, <1>f
  <2>2. /\ \A d \in Client : d # t => toHost'[d] = toHost[d]
        /\ \A i \in 1..Len(toHost'[t]) : \E j \in 1..Len(toHost[t]) : toHost'[t][i] = toHost[t][j]
        /\ \E j \in 1..Len(toHost[t]) : Head(toHost[t]) = toHost[t][j]
        /\ Head(toHost[t]) \in ToHostMsg
    BY <2>1, HostTaking
  <2>3. QED
    BY <1>h, <1>k, <2>2
<1>s. ASSUME t = last, NEW m \in ToClientMsg, toClient' = SentTo(t, m)
      PROVE  /\ \A d \in Client : d # last => toClient'[d] = toClient[d]
             /\ m \notin Client \/ m \in confirmed =>
                  \A i \in 1..Len(toClient'[last]) :
                    toClient'[last][i] \in Client => toClient'[last][i] \in confirmed
             /\ vkDes # last /\ m # "KEY" =>
                  \A i \in 1..Len(toClient'[last]) : toClient'[last][i] # "KEY"
  <2>1. /\ \A d \in Client : d # t => toClient'[d] = toClient[d]
        /\ \A i \in 1..Len(toClient'[t]) :
             (\E j \in 1..Len(toClient[t]) : toClient'[t][i] = toClient[t][j]) \/ toClient'[t][i] = m
    BY <1>s, Sending
  <2>2. QED
    BY <1>s, <1>k, <1>c, <2>1
<1>n. {"OK", "KEYOK", "KEY"} \subseteq ToClientMsg /\ Client \cap {"OK", "KEYOK", "KEY"} = {}
  BY DirectAssumption DEF ToClientMsg
<1>1. CASE BeginRead(t)
  <2>1. /\ th[t] = "begin" /\ th' = [th EXCEPT ![t] = "reading"] /\ rs' = [rs EXCEPT ![t] = last]
        /\ last = t
        /\ UNCHANGED <<pc, toHost, toClient, last, vkDes, id, conar, conreply, reply, watcher, label,
                       enabled, click, verdict, asked, confirmed>>
    BY <1>1 DEF BeginRead, Goto, Mixed, client, screen
  <2>2. Asking'
    BY <1>f, <1>p, <2>1 DEF Asking, Answering, Calm, UnderWay, Clicked
  <2>3. QED
    BY <1>f, <1>k, <1>c, <2>1, <2>2, ThreadSide
<1>2. CASE Read(t)
  <2>1. th[t] = "reading" /\ \E k \in 1..Len(toHost[rs[t]]) : TRUE
    BY <1>2 DEF Read
  <2>2. t = last
    <3>1. SUFFICES ASSUME t # last PROVE FALSE
      OBVIOUS
    <3>2. rs[t] = t /\ toHost[t] = <<>>
      BY <1>p, <1>q, <2>1, <3>1 DEF Earlier
    <3>3. QED
      BY <2>1, <3>2
  <2>3. rs[t] = t
    BY <1>f, <1>p, <2>1, <2>2 DEF Current
  <2>4. PICK k \in 1..Len(toHost[t]) :
          /\ toHost' = [toHost EXCEPT ![t] = SubSeq(@, k + 1, Len(@))]
          /\ th' = [th EXCEPT ![t] = IF Head(toHost[t]) = "CONN" /\ k > 1 THEN "begin"
                                     ELSE Head(toHost[t])]
    BY <1>2, <2>3 DEF Read, Goto
  <2>5. UNCHANGED <<pc, toClient, rs, last, vkDes, id, conar, conreply, reply, watcher, label,
                    enabled, click, verdict, asked, confirmed>>
    BY <1>2 DEF Read, screen, history
  <2> DEFINE l == IF Head(toHost[t]) = "CONN" /\ k > 1 THEN "begin" ELSE Head(toHost[t])
  <2>6. /\ l \in {"begin", "HI", "KEY", "CONF", "CONN"} /\ (vkDes # last => l # "CONN")
        /\ \A d \in Client : d # last => toHost'[d] = toHost[d]
        /\ vkDes # last => \A i \in 1..Len(toHost'[last]) : toHost'[last][i] # "CONN"
    BY <1>h, <2>2, <2>4 DEF ToHostMsg
  <2>7. th' = [th EXCEPT ![t] = l]
    BY <2>4
  <2> HIDE DEF l
  <2>8. Asking'
    BY <1>f, <1>p, <2>1, <2>2, <2>5, <2>6, <2>7 DEF Asking, Answering, Calm, UnderWay, Clicked
  <2>9. QED
    BY <1>k, <1>c, <2>1, <2>2, <2>3, <2>5, <2>6, <2>7, <2>8, ThreadSide
<1>3. CASE ReadEnd(t)
  <2>1. /\ th[t] = "reading" /\ th' = [th EXCEPT ![t] = "begin"]
        /\ UNCHANGED <<pc, toHost, toClient, rs, last, vkDes, id, conar, conreply, reply, watcher, label,
                       enabled, click, verdict, asked, confirmed>>
    BY <1>3 DEF ReadEnd, Goto, Mixed, client, screen
  <2>2. Asking'
    BY <1>f, <1>p, <2>1 DEF Asking, Answering, Calm, UnderWay, Clicked
  <2>3. QED
    BY <1>k, <1>c, <2>1, <2>2, ThreadSide
<1>4. CASE SendOk(t)
  <2>1. /\ th[t] = "HI" /\ th' = [th EXCEPT ![t] = "begin"] /\ toClient' = SentTo(last, "OK")
        /\ UNCHANGED <<pc, toHost, rs, last, vkDes, id, conar, conreply, reply, watcher, label,
                       enabled, click, verdict, asked, confirmed>>
    BY <1>4 DEF SendOk, Goto, screen, history
  <2>2. t = last
    BY <2>1, OnlyLast
  <2>3. Asking'
    BY <1>f, <1>p, <2>1, <2>2 DEF Asking, Answering, Calm, UnderWay, Clicked
  <2>4. QED
    BY <1>s, <1>n, <1>k, <2>1, <2>2, <2>3, ThreadSide
<1>5. CASE RegisterVK(t)
  <2>1. /\ th[t] = "KEY" /\ th' = [th EXCEPT ![t] = "sleep"] /\ toClient' = SentTo(t, "KEYOK")
        /\ vkDes' = rs[t]
        /\ UNCHANGED <<pc, toHost, rs, last, id, conar, conreply, reply, watcher, label,
                       enabled, click, verdict, asked, confirmed>>
    BY <1>5 DEF RegisterVK, Goto, screen, history
  <2>2. t = last /\ rs[t] = t
    BY <2>1, OnlyLast
  <2>3. Asking'
    BY <1>f, <1>p, <2>1, <2>2 DEF Asking, Answering, Calm, UnderWay, Clicked
  <2>4. QED
    BY <1>s, <1>n, <2>1, <2>2, <2>3, ThreadSide
<1>6. CASE SendKey(t)
  <2>1. /\ th[t] = "sleep" /\ th' = [th EXCEPT ![t] = "conf"] /\ toClient' = SentTo(last, "KEY")
        /\ UNCHANGED <<pc, toHost, rs, last, vkDes, id, conar, conreply, reply, watcher, label,
                       enabled, click, verdict, asked, confirmed>>
    BY <1>6 DEF SendKey, Goto, screen, history
  <2>2. t = last /\ rs[t] = t
    BY <2>1, OnlyLast
  <2>3. vkDes = last
    BY <1>k, <2>1, <2>2
  <2>4. Asking'
    BY <1>f, <1>p, <2>1, <2>2 DEF Asking, Answering, Calm, UnderWay, Clicked
  <2>5. QED
    BY <1>s, <1>n, <2>1, <2>2, <2>3, <2>4, ThreadSide
<1>7. CASE RecvConf(t)
  <2>1. /\ th[t] = "conf" /\ th' = [th EXCEPT ![t] = "begin"]
        /\ UNCHANGED <<pc, toClient, rs, last, vkDes, id, conar, conreply, reply, watcher, label,
                       enabled, click, verdict, asked, confirmed>>
    BY <1>7 DEF RecvConf, Goto, screen, history
  <2>2. t = last /\ rs[t] = t
    BY <2>1, OnlyLast
  <2>3. vkDes = last
    BY <1>k, <2>1, <2>2
  <2>4. \A d \in Client : d # last => toHost'[d] = toHost[d]
    BY <1>7, <1>h, <2>2 DEF RecvConf
  <2>5. Asking'
    BY <1>f, <1>p, <2>1, <2>2 DEF Asking, Answering, Calm, UnderWay, Clicked
  <2>6. QED
    BY <1>c, <2>1, <2>2, <2>3, <2>4, <2>5, ThreadSide
<1>8. CASE SetId(t)
  <2>1. /\ th[t] = "CONN" /\ th' = [th EXCEPT ![t] = "conar"]
        /\ id' = vkDes
        /\ asked' = [asked EXCEPT ![t] = vkDes]
        /\ UNCHANGED <<pc, toHost, toClient, rs, last, vkDes, conar, conreply, reply,
                       watcher, label, enabled, click, verdict, confirmed>>
    BY <1>8 DEF SetId, Goto, client, screen, history
  <2>2. t = last /\ rs[t] = t
    BY <2>1, OnlyLast
  <2>3. vkDes = last
    BY <1>k, <2>1, <2>2
  <2>4. Asking'
    BY <1>f, <1>p, <2>1, <2>2, <2>3 DEF Asking, Answering, Calm, UnderWay, Clicked
  <2>5. QED
    BY <1>c, <2>1, <2>2, <2>3, <2>4, ThreadSide
<1>9. CASE SetConar(t)
  <2>1. /\ th[t] = "conar" /\ th' = [th EXCEPT ![t] = "wait"]
        /\ conar' = TRUE
        /\ UNCHANGED <<pc, toHost, toClient, rs, last, vkDes, id, conreply, reply,
                       watcher, label, enabled, click, verdict, asked, confirmed>>
    BY <1>9 DEF SetConar, Goto, client, screen, history
  <2>2. t = last /\ rs[t] = t
    BY <2>1, OnlyLast
  <2>3. vkDes = last
    BY <1>k, <2>1, <2>2
  <2>4. Asking'
    BY <1>f, <1>p, <2>1, <2>2, <2>3 DEF Asking, Answering, Calm, UnderWay, Clicked
  <2>5. QED
    BY <1>c, <2>1, <2>2, <2>3, <2>4, ThreadSide
<1>10. CASE SeeReply(t)
  <2>1. /\ th[t] = "wait" /\ th' = [th EXCEPT ![t] = "seen"]
        /\ conreply
        /\ UNCHANGED <<pc, toHost, toClient, rs, last, vkDes, id, conar, conreply,
                       reply, watcher, label, enabled, click, verdict, asked, confirmed>>
    BY <1>10 DEF SeeReply, Goto, client, screen, history
  <2>2. t = last /\ rs[t] = t
    BY <2>1, OnlyLast
  <2>3. vkDes = last
    BY <1>k, <2>1, <2>2
  <2>4. Asking'
    BY <1>f, <1>p, <2>1, <2>2, <2>3 DEF Asking, Answering, Calm, UnderWay, Clicked
  <2>5. QED
    BY <1>c, <2>1, <2>2, <2>3, <2>4, ThreadSide
<1>11. CASE ResetConreply(t)
  <2>1. /\ th[t] = "seen" /\ th' = [th EXCEPT ![t] = "answer"]
        /\ conreply' = FALSE
        /\ UNCHANGED <<pc, toHost, toClient, rs, last, vkDes, id, conar, reply,
                       watcher, label, enabled, click, verdict, asked, confirmed>>
    BY <1>11 DEF ResetConreply, Goto, client, screen, history
  <2>2. t = last /\ rs[t] = t
    BY <2>1, OnlyLast
  <2>3. vkDes = last
    BY <1>k, <2>1, <2>2
  <2>4. Asking'
    BY <1>f, <1>p, <2>1, <2>2, <2>3 DEF Asking, Answering, Calm, UnderWay, Clicked
  <2>5. QED
    BY <1>c, <2>1, <2>2, <2>3, <2>4, ThreadSide
<1>12. CASE Answer(t)
  <2>1. /\ th[t] = "answer" /\ th' = [th EXCEPT ![t] = "answered"]
        /\ toClient' = IF reply THEN SentTo(last, vkDes) ELSE toClient
        /\ UNCHANGED <<pc, toHost, rs, last, vkDes, id, conar, conreply, reply,
                       watcher, label, enabled, click, verdict, asked, confirmed>>
    BY <1>12 DEF Answer, Goto, client, screen, history
  <2>2. t = last /\ rs[t] = t
    BY <2>1, OnlyLast
  <2>3. vkDes = last
    BY <1>k, <2>1, <2>2
  <2>4. (reply => last \in confirmed) /\ vkDes \in ToClientMsg
    BY <1>f, <1>p, <2>1, <2>2, <2>3 DEF Asking, Clicked, ToClientMsg
  <2>5. /\ \A d \in Client : d # last => toClient'[d] = toClient[d]
        /\ \A i \in 1..Len(toClient'[last]) : toClient'[last][i] \in Client => toClient'[last][i] \in confirmed
    BY <1>s, <1>c, <2>1, <2>2, <2>3, <2>4
  <2>6. Asking'
    BY <1>f, <1>p, <2>1, <2>2 DEF Asking, Answering, Calm, UnderWay, Clicked
  <2>7. QED
    BY <2>1, <2>2, <2>3, <2>5, <2>6, ThreadSide
<1>13. CASE ResetReply(t)
  <2>1. /\ th[t] = "answered" /\ th' = [th EXCEPT ![t] = "begin"]
        /\ reply' = FALSE
        /\ UNCHANGED <<pc, toHost, toClient, rs, last, vkDes, id, conar, conreply,
                       watcher, label, enabled, click, verdict, asked, confirmed>>
    BY <1>13 DEF ResetReply, Goto, client, screen, history
  <2>2. t = last /\ rs[t] = t
    BY <2>1, OnlyLast
  <2>3. vkDes = last
    BY <1>k, <2>1, <2>2
  <2>4. Asking'
    BY <1>f, <1>p, <2>1, <2>2, <2>3 DEF Asking, Answering, Calm, UnderWay, Clicked
  <2>5. QED
    BY <1>c, <2>1, <2>2, <2>3, <2>4, ThreadSide
<1>14. QED
  BY <1>1, <1>2, <1>3, <1>4, <1>5, <1>6, <1>7, <1>8, <1>9, <1>10, <1>11, <1>12, <1>13 DEF Thread

LEMMA SerialAccept ==
  ASSUME TypeInv, Serial, NEW c \in Client, Accept(c), ~Mixed'
  PROVE  Serial'
<1>f. /\ pc \in [Client -> {"new", "hi", "key", "hostkey", "ready", "wait", "in", "failed", "left"}]
      /\ th \in [Client -> {"none", "begin", "reading", "HI", "KEY", "CONF", "CONN", "sleep", "conf",
                            "conar", "wait", "seen", "answer", "answered"}]
      /\ last \in Client \cup {None} /\ None \notin Client
      /\ toHost \in [Client -> Seq(ToHostMsg)]
  BY TypeParts, DirectAssumption DEF Fields, Messages
<1>1. /\ pc[c] = "new" /\ pc' = [pc EXCEPT ![c] = "hi"] /\ toHost' = [toHost EXCEPT ![c] = <<"HI">>]
      /\ th' = [th EXCEPT ![c] = "begin"] /\ last' = c
      /\ UNCHANGED <<toClient, rs, vkDes, id, conar, conreply, reply, watcher, label, enabled, click,
                     verdict, asked, confirmed>>
  BY DEF Accept, screen
<1>2. \A d \in Client : pc[d] # "new" => Done(d)
  BY DEF Accept, Mixed
<1>3. Fresh(c) /\ Confirmed(c) /\ Current /\ Asking
  BY DEF Serial
<1>4. ASSUME NEW d \in Client PROVE Fresh(d)' /\ Earlier(d)' /\ Confirmed(d)'
  <2>1. Fresh(d) /\ Confirmed(d)
    BY DEF Serial
  <2>2. Confirmed(d)'
    BY <1>f, <1>1, <2>1 DEF Confirmed
  <2>3. CASE d = c
    BY <1>f, <1>1, <2>1, <2>2, <2>3 DEF Fresh, Earlier
  <2>4. CASE d # c
    BY <1>f, <1>1, <1>2, <2>1, <2>2, <2>4 DEF Fresh, Earlier, Done, Quiet
  <2>5. QED
    BY <2>3, <2>4
<1>5. Current'
  BY <1>f, <1>1 DEF Current
<1>6. KeyKnown'
  <2>1. pc'[c] = "hi" /\ th'[c] = "begin" /\ toHost'[c] = <<"HI">> /\ toClient'[c] = <<>>
    BY <1>f, <1>1, <1>3 DEF Fresh
  <2>2. \A i \in 1..Len(toHost'[c]) : toHost'[c][i] # "CONN"
    BY <2>1
  <2>3. \A i \in 1..Len(toClient'[c]) : toClient'[c][i] # "KEY"
    BY <2>1
  <2>4. QED
    BY <1>1, <2>1, <2>2, <2>3 DEF KeyKnown
<1>7. Asking'
  <2>1. Calm
    <3>1. CASE last = None
      BY <1>3, <3>1 DEF Asking
    <3>2. CASE last # None
      <4>1. th[last] = "reading"
        BY <1>f, <1>2, <1>3, <3>2 DEF Current, Done, Quiet
      <4>2. QED
        BY <1>3, <3>2, <4>1 DEF Asking
    <3>3. QED
      BY <3>1, <3>2
  <2>2. Calm' /\ th'[c] = "begin"
    BY <1>f, <1>1, <2>1 DEF Calm
  <2>3. QED
    BY <1>1, <2>2 DEF Asking, Answering
<1>8. QED
  BY <1>4, <1>5, <1>6, <1>7 DEF Serial

\* The user interface: the request and the answer move on, and confirmed only grows.
LEMMA SerialScreen ==
  ASSUME TypeInv, Serial, Watcher \/ User \/ UNCHANGED vars
  PROVE  Serial'
<1>f. /\ watcher \in [at : {"poll", "taken", "show"}, ret : Client \cup {None}]
      /\ last \in Client \cup {None} /\ None \notin Client
      /\ verdict \in [for : Client \cup {None}, allow : BOOLEAN]
  BY TypeParts, DirectAssumption DEF Fields
<1>1. /\ UNCHANGED <<pc, toHost, toClient, th, rs, last, vkDes, asked>>
      /\ confirmed \subseteq confirmed'
  BY DEF Watcher, User, TakeId, ClearConar, Show, SetReply, SetConreply, vars, client, threads, history
<1>2. ASSUME NEW c \in Client PROVE Fresh(c)' /\ Earlier(c)' /\ Confirmed(c)'
  <2>1. Fresh(c) /\ Earlier(c) /\ Confirmed(c)
    BY DEF Serial
  <2>2. QED
    BY <1>1, <2>1 DEF Fresh, Earlier, Confirmed
<1>3. Current' /\ KeyKnown'
  BY <1>1 DEF Serial, Current, KeyKnown
<1>4. Asking
  BY DEF Serial
<1>5. CASE TakeId
  <2>1. /\ watcher.at = "poll" /\ conar /\ watcher' = [at |-> "taken", ret |-> id]
        /\ UNCHANGED <<conar, conreply, reply, label, enabled, click, verdict, confirmed>>
    BY <1>5 DEF TakeId, history
  <2>2. last # None /\ th[last] = "wait" /\ id = last /\ ~enabled /\ ~click /\ ~conreply
    BY <1>4, <2>1 DEF Asking, Calm, UnderWay
  <2>3. UnderWay(last)'
    BY <1>1, <2>1, <2>2 DEF UnderWay
  <2>4. QED
    BY <1>1, <1>2, <1>3, <1>4, <2>2, <2>3 DEF Serial, Asking, Answering
<1>6. CASE ClearConar
  <2>1. /\ watcher.at = "taken" /\ watcher' = [watcher EXCEPT !.at = "show"] /\ conar' = FALSE
        /\ UNCHANGED <<id, conreply, reply, label, enabled, click, verdict, confirmed>>
    BY <1>6 DEF ClearConar, history
  <2>2. last # None /\ th[last] = "wait" /\ watcher.ret = last /\ ~enabled /\ ~click /\ ~conreply
    BY <1>4, <2>1 DEF Asking, Calm, UnderWay
  <2>3. UnderWay(last)'
    BY <1>f, <1>1, <2>1, <2>2 DEF UnderWay
  <2>4. QED
    BY <1>1, <1>2, <1>3, <1>4, <2>2, <2>3 DEF Serial, Asking, Answering
<1>7. CASE Show
  <2>1. /\ watcher.at = "show" /\ watcher' = [watcher EXCEPT !.at = "poll"]
        /\ label' = watcher.ret /\ enabled' = TRUE /\ ~click
        /\ UNCHANGED <<id, conar, conreply, reply, click, verdict, confirmed>>
    BY <1>7 DEF Show, history
  <2>2. last # None /\ th[last] = "wait" /\ watcher.ret = last /\ ~conar /\ ~conreply
    BY <1>4, <2>1 DEF Asking, Calm, UnderWay
  <2>3. UnderWay(last)'
    BY <1>f, <1>1, <2>1, <2>2 DEF UnderWay
  <2>4. QED
    BY <1>1, <1>2, <1>3, <1>4, <2>2, <2>3 DEF Serial, Asking, Answering
<1>8. ASSUME NEW allow \in BOOLEAN, SetReply(allow) PROVE Serial'
  <2>1. /\ enabled /\ ~click /\ reply' = allow /\ click' = TRUE
        /\ verdict' = [for |-> label, allow |-> allow]
        /\ confirmed' = IF allow THEN confirmed \cup {label} ELSE confirmed
        /\ UNCHANGED <<id, conar, conreply, watcher, label, enabled>>
    BY <1>8 DEF SetReply
  <2>2. last # None /\ th[last] = "wait" /\ label = last /\ ~conar /\ ~conreply /\ watcher.at = "poll"
    BY <1>4, <2>1 DEF Asking, Calm, UnderWay
  <2>3. Clicked(last)'
    BY <1>1, <2>1, <2>2 DEF Clicked
  <2>4. UnderWay(last)'
    BY <1>1, <2>1, <2>2, <2>3 DEF UnderWay
  <2>5. QED
    BY <1>1, <1>2, <1>3, <1>4, <2>2, <2>4 DEF Serial, Asking, Answering
<1>9. CASE SetConreply
  <2>1. /\ click /\ click' = FALSE /\ conreply' = TRUE /\ enabled' = FALSE
        /\ UNCHANGED <<id, conar, reply, watcher, verdict, confirmed>>
    BY <1>9 DEF SetConreply, history
  <2>2. last # None /\ th[last] = "wait" /\ ~conar /\ watcher.at = "poll" /\ Clicked(last)
    BY <1>4, <2>1 DEF Asking, Calm, UnderWay
  <2>3. UnderWay(last)'
    BY <1>1, <2>1, <2>2 DEF UnderWay, Clicked
  <2>4. QED
    BY <1>1, <1>2, <1>3, <1>4, <2>2, <2>3 DEF Serial, Asking, Answering
<1>10. CASE UNCHANGED vars
  <2>1. UNCHANGED <<id, conar, conreply, reply, watcher, label, enabled, click, verdict, confirmed>>
    BY <1>10 DEF vars, screen, history
  <2>2. Asking'
    BY <1>1, <1>4, <2>1 DEF Asking, Answering, Calm, UnderWay, Clicked
  <2>3. QED
    BY <1>2, <1>3, <2>2 DEF Serial
<1>11. QED
  BY <1>5, <1>6, <1>7, <1>8, <1>9, <1>10 DEF Watcher, User

-----------------------------------------------------------------------------
(* The invariant, and what it shows. *)
LEMMA Start == Init => IInv
<1> SUFFICES ASSUME Init PROVE IInv
  OBVIOUS
<1>1. TypeInv
  BY TypeInit
<1>0. \A c \in Client : /\ pc[c] = "new" /\ th[c] = "none" /\ toHost[c] = <<>> /\ toClient[c] = <<>>
                         /\ 1..Len(toHost[c]) = {} /\ 1..Len(toClient[c]) = {}
  <2>1. 1..Len(<<>>) = {}
    OBVIOUS
  <2>2. QED
    BY <2>1 DEF Init
<1>2. NoKeyYet
  BY <1>0 DEF NoKeyYet
<1>3. Serial
  <2>1. last = None /\ Calm
    BY DEF Init, Calm
  <2>2. \A c \in Client : Fresh(c) /\ Earlier(c) /\ Confirmed(c)
    BY <1>0, <2>1, DirectAssumption DEF Fresh, Earlier, Confirmed
  <2>3. Current /\ KeyKnown
    BY <2>1 DEF Current, KeyKnown
  <2>4. Asking
    BY <2>1 DEF Asking, Answering
  <2>5. QED
    BY <2>2, <2>3, <2>4 DEF Serial
<1>4. QED
  BY <1>1, <1>2, <1>3 DEF IInv

LEMMA Invariance == IInv /\ [Next]_vars => IInv'
<1> SUFFICES ASSUME IInv, [Next]_vars PROVE IInv'
  OBVIOUS
<1>1. TypeInv' /\ NoKeyYet'
  BY TypeStep, NoKeyStep DEF IInv
<1>2. ASSUME ~Mixed' PROVE Serial'
  <2>1. TypeInv /\ Serial
    BY <1>2, MixedStays DEF IInv
  <2>2. CASE \E c \in Client : Accept(c)
    BY <1>2, <2>1, <2>2, SerialAccept
  <2>3. CASE \E c \in Client : ClientStep(c) \/ Ask(c) \/ Timeout(c) \/ Leave(c)
    BY <2>1, <2>3, SerialClient
  <2>4. CASE \E c \in Client : Thread(c)
    BY <1>2, <2>1, <2>4, SerialThread
  <2>5. CASE Watcher \/ User \/ UNCHANGED vars
    BY <2>1, <2>5, SerialScreen
  <2>6. QED
    BY <2>2, <2>3, <2>4, <2>5 DEF Next
<1>3. QED
  BY <1>1, <1>2 DEF IInv

LEMMA Safety == Spec => []IInv
  BY Start, Invariance, PTL DEF Spec

\* Every variable stays in its set.
THEOREM TypeCorrect == Spec => []TypeOK
<1>1. IInv => TypeOK
  BY DEF IInv, TypeInv
<1>2. QED
  BY Safety, <1>1, PTL

\* While the clients come one after the other, whoever gets in was confirmed by the user with
\* its own id on the screen: however often it asks, however late the answers are, and whatever
\* a read takes together (ConnMet, Recv, SetReply).
THEOREM ConfirmedEnter == Spec => []OnlyConfirmedEnter
<1>1. IInv => OnlyConfirmedEnter
  BY DEF IInv, Serial, Confirmed, OnlyConfirmedEnter
<1>2. QED
  BY Safety, <1>1, PTL

\* The answer a thread sends is the user's answer to the request of that thread, under the
\* key and to the stream of the client that made it (Recv, WaitReply, ConnArrived).
THEOREM AnswerIsTheClick == Spec => []AnswersTheClick
<1>1. IInv => AnswersTheClick
  <2> SUFFICES ASSUME IInv, ~Mixed, NEW t \in Client, th[t] = "answer"
               PROVE  /\ verdict = [for |-> asked[t], allow |-> reply]
                      /\ asked[t] = vkDes /\ asked[t] = last
    BY DEF AnswersTheClick
  <2>1. Serial /\ t = last /\ last # None
    BY OnlyLast, DirectAssumption DEF IInv
  <2>2. vkDes = last
    BY <2>1 DEF Serial, KeyKnown
  <2>3. asked[t] = last /\ Clicked(last)
    BY <2>1 DEF Serial, Asking, Answering
  <2>4. QED
    BY <2>1, <2>2, <2>3 DEF Clicked
<1>2. QED
  BY Safety, <1>1, PTL

=============================================================================
