------------------------------ MODULE DirectHost ------------------------------
(***************************************************************************)
(* A meeting without the rendezvous server: clients connect to the host's  *)
(* listener, exchange public keys with it and ask to enter; the host's     *)
(* user is shown the id of the client and allows or denies it; an allowed  *)
(* client is sent the data key under its own public key.                   *)
(*                                                                         *)
(* Every accepted client has a thread of its own on the host, but client   *)
(* and stream of TCP.Client, vkDes, id, conar, conreply and reply are one  *)
(* of each: two threads meet in them, and in the user interface.  A read   *)
(* takes any prefix of what has arrived and looks at its first message.    *)
(* An exception in a thread, which is an accept callback, ends the host.   *)
(***************************************************************************)
EXTENDS Naturals, Sequences

CONSTANTS
  Client,   \* clients; the host's thread of a client has its name, and so has its key
  None,
  MaxAsk    \* bound on the attempts of each client to enter

ASSUME DirectAssumption ==
  /\ None \notin Client /\ MaxAsk \in [Client -> Nat]
  /\ Client \cap {"OK", "KEYOK", "KEY"} = {}

VARIABLES
  pc,       \* of each client
  asks,     \* its attempts so far
  toHost, toClient, \* bytes on the way; a client in toClient is a data key under its key
  th,       \* where the host's thread of each client is
  rs,       \* the client whose stream the thread reads
  buf,      \* what lies at the start of the buffer of each client's TCPState
  last,     \* whose connection client and stream are: the client accepted last
  vkDes, id, conar, conreply, reply,  \* fields of CipherManager and NetworkManager
  crashed,  \* an exception has ended the host
  watcher,  \* the loop of updateScreen: where it is, and the id it took
  label,    \* the request on the screen
  enabled,  \* IsEnabled of the two buttons
  click,    \* SetReply in progress on the user interface's thread
  verdict,  \* history: the id on the screen at the last click, and the answer
  asked,    \* history: the id each thread set last
  confirmed,\* history: clients whose id was on the screen at a click on Confirm
  overlapped, \* history: a client was accepted before an earlier one was done
  intruded  \* history: a thread has read the stream of another client, or parsed a message
            \* of one that has left again

client  == <<pc, asks, toHost, toClient>>
threads == <<th, rs, buf, last, vkDes>>
screen  == <<watcher, label, enabled, click>>
history == <<verdict, asked, confirmed, overlapped, intruded>>
vars == <<client, threads, id, conar, conreply, reply, crashed, screen, history>>

Init ==
  /\ pc = [c \in Client |-> "new"] /\ asks = [c \in Client |-> 0]
  /\ toHost = [c \in Client |-> <<>>] /\ toClient = toHost
  /\ th = [c \in Client |-> "none"] /\ rs = [c \in Client |-> None]
  /\ buf = [c \in Client |-> "none"] /\ last = None /\ vkDes = None
  /\ id = None /\ conar = FALSE /\ conreply = FALSE /\ reply = FALSE /\ crashed = FALSE
  /\ watcher = [at |-> "poll", ret |-> None] /\ label = None /\ enabled = FALSE
  /\ click = FALSE /\ verdict = [for |-> None, allow |-> FALSE]
  /\ asked = rs /\ confirmed = {}
  /\ overlapped = FALSE /\ intruded = FALSE

\* What is sent to a client that has left is dropped.
SentTo(c, m) == IF pc[c] = "left" THEN toClient
                ELSE [toClient EXCEPT ![c] = Append(@, m)]

\* A thread that waits for a message, with nothing on the way to it.
Quiet(c) == th[c] = "reading" /\ rs[c] = c /\ toHost[c] = <<>>
Done(c)  == pc[c] \in {"in", "left"} /\ Quiet(c)
------------------------------------------------------------------------------
(* The client: ConnectBase and ConnMet.                                    *)

\* The host accepts the client; client and stream of TCP.Client become its.
Accept(c) ==
  /\ pc[c] = "new" /\ ~crashed
  /\ pc' = [pc EXCEPT ![c] = "hi"]
  /\ toHost' = [toHost EXCEPT ![c] = <<"HI">>]
  /\ th' = [th EXCEPT ![c] = "begin"] /\ last' = c
  /\ overlapped' = (overlapped \/ \E d \in Client : pc[d] # "new" /\ ~Done(d))
  /\ UNCHANGED <<asks, toClient, rs, buf, vkDes, id, conar, conreply, reply, crashed,
                 screen, verdict, asked, confirmed, intruded>>

\* The first Receive, whatever it reads; then the client's key.
RecvOk(c) ==
  /\ pc[c] = "hi"
  /\ \E k \in 1..Len(toClient[c]) :
       toClient' = [toClient EXCEPT ![c] = SubSeq(@, k + 1, Len(@))]
  /\ pc' = [pc EXCEPT ![c] = "key"]
  /\ toHost' = [toHost EXCEPT ![c] = Append(@, "KEY")]
  /\ UNCHANGED <<asks, threads, id, conar, conreply, reply, crashed, screen, history>>

\* The second Receive, whatever it reads: ParseKeyConf changes nothing.
RecvKeyOk(c) ==
  /\ pc[c] = "key"
  /\ \E k \in 1..Len(toClient[c]) :
       toClient' = [toClient EXCEPT ![c] = SubSeq(@, k + 1, Len(@))]
  /\ pc' = [pc EXCEPT ![c] = "hostkey"]
  /\ UNCHANGED <<asks, toHost, threads, id, conar, conreply, reply, crashed, screen, history>>

\* The third must begin with the host's key.
RecvKey(c) ==
  /\ pc[c] = "hostkey"
  /\ \E k \in 1..Len(toClient[c]) :
       toClient' = [toClient EXCEPT ![c] = SubSeq(@, k + 1, Len(@))]
  /\ IF Head(toClient[c]) = "KEY"
     THEN pc' = [pc EXCEPT ![c] = "ready"]
          /\ toHost' = [toHost EXCEPT ![c] = Append(@, "CONF")]
     ELSE pc' = [pc EXCEPT ![c] = "failed"] /\ UNCHANGED toHost
  /\ UNCHANGED <<asks, threads, id, conar, conreply, reply, crashed, screen, history>>

Ask(c) ==
  /\ pc[c] = "ready" /\ asks[c] < MaxAsk[c]
  /\ pc' = [pc EXCEPT ![c] = "wait"] /\ asks' = [asks EXCEPT ![c] = @ + 1]
  /\ toHost' = [toHost EXCEPT ![c] = Append(@, "CONN")]
  /\ UNCHANGED <<toClient, threads, id, conar, conreply, reply, crashed, screen, history>>

\* ReceiveAndWait: a data key under the client's key lets it in, also one that answers an
\* earlier attempt; anything else cannot be decrypted.
RecvAnswer(c) ==
  /\ pc[c] = "wait"
  /\ \E k \in 1..Len(toClient[c]) :
       toClient' = [toClient EXCEPT ![c] = SubSeq(@, k + 1, Len(@))]
  /\ pc' = [pc EXCEPT ![c] = IF Head(toClient[c]) = c THEN "in" ELSE "ready"]
  /\ UNCHANGED <<asks, toHost, threads, id, conar, conreply, reply, crashed, screen, history>>

\* After 20 s of waiting.
Timeout(c) ==
  /\ pc[c] = "wait" /\ toClient[c] = <<>>
  /\ pc' = [pc EXCEPT ![c] = "ready"]
  /\ UNCHANGED <<asks, toHost, toClient, threads, id, conar, conreply, reply, crashed,
                 screen, history>>

Leave(c) ==
  /\ pc[c] \notin {"new", "left"}
  /\ pc' = [pc EXCEPT ![c] = "left"] /\ toClient' = [toClient EXCEPT ![c] = <<>>]
  /\ UNCHANGED <<asks, toHost, threads, id, conar, conreply, reply, crashed, screen, history>>
------------------------------------------------------------------------------
(* The host's thread t: Receive(tcp) and Recv.                             *)

Goto(t, l) == ~crashed /\ th' = [th EXCEPT ![t] = l]

\* Receive uses the stream and the buffer of the client accepted last.
BeginRead(t) ==
  /\ th[t] = "begin" /\ Goto(t, "reading")
  /\ rs' = [rs EXCEPT ![t] = last] /\ intruded' = (intruded \/ last # t)
  /\ UNCHANGED <<client, buf, last, vkDes, id, conar, conreply, reply, crashed, screen,
                 verdict, asked, confirmed, overlapped>>

\* ParseCH of the first message; a request is only seen when it is all that was read,
\* and CONF is not a packet.
Read(t) ==
  LET s == rs[t] IN
  /\ th[t] = "reading"
  /\ \E k \in 1..Len(toHost[s]) :
       /\ toHost' = [toHost EXCEPT ![s] = SubSeq(@, k + 1, Len(@))]
       /\ buf' = [buf EXCEPT ![s] = Head(toHost[s])]
       /\ Goto(t, IF Head(toHost[s]) = "CONN" /\ k > 1 THEN "begin" ELSE Head(toHost[s]))
       /\ crashed' = (Head(toHost[s]) = "CONF")
  /\ UNCHANGED <<pc, asks, toClient, rs, last, vkDes, id, conar, conreply, reply, screen, history>>

\* The client has left: the read fails, or returns 0 and what an earlier read left in the
\* buffer is parsed again, which in an empty one is no packet.
ReadEnd(t) ==
  LET s == rs[t] IN
  /\ th[t] = "reading" /\ pc[s] = "left" /\ toHost[s] = <<>>
  /\ Goto(t, IF buf[s] \in {"HI", "KEY"} THEN buf[s] ELSE "begin")
  /\ crashed' \in {TRUE, buf[s] \in {"none", "CONF"}}
  /\ intruded' = (intruded \/ buf[s] \in {"HI", "KEY"})
  /\ UNCHANGED <<client, rs, buf, last, vkDes, id, conar, conreply, reply, screen,
                 verdict, asked, confirmed, overlapped>>

SendOk(t) ==
  /\ th[t] = "HI" /\ Goto(t, "begin")
  /\ toClient' = SentTo(last, "OK")
  /\ UNCHANGED <<pc, asks, toHost, rs, buf, last, vkDes, id, conar, conreply, reply, crashed,
                 screen, history>>

\* RegisterVK, then KEY OK on the thread's own socket, which may be broken.
RegisterVK(t) ==
  /\ th[t] = "KEY" /\ Goto(t, "sleep")
  /\ vkDes' = rs[t]
  /\ toClient' = SentTo(t, "KEYOK")
  /\ crashed' \in {FALSE, pc[t] = "left"}
  /\ UNCHANGED <<pc, asks, toHost, rs, buf, last, id, conar, conreply, reply, screen, history>>

\* After Sleep(100).
SendKey(t) ==
  /\ th[t] = "sleep" /\ Goto(t, "conf")
  /\ toClient' = SentTo(last, "KEY")
  /\ UNCHANGED <<pc, asks, toHost, rs, buf, last, vkDes, id, conar, conreply, reply, crashed,
                 screen, history>>

\* tcp.Client.Receive: CONF, and what has arrived behind it.
RecvConf(t) ==
  /\ th[t] = "conf" /\ Goto(t, "begin")
  /\ \/ /\ \E k \in 1..Len(toHost[t]) :
             toHost' = [toHost EXCEPT ![t] = SubSeq(@, k + 1, Len(@))]
        /\ UNCHANGED crashed
     \/ pc[t] = "left" /\ toHost[t] = <<>> /\ UNCHANGED toHost /\ crashed' \in BOOLEAN
  /\ UNCHANGED <<pc, asks, toClient, rs, buf, last, vkDes, id, conar, conreply, reply, screen,
                 history>>

\* The id is the hash of the key registered last.
SetId(t) ==
  /\ th[t] = "CONN" /\ Goto(t, "conar")
  /\ id' = vkDes /\ asked' = [asked EXCEPT ![t] = vkDes]
  /\ UNCHANGED <<client, rs, buf, last, vkDes, conar, conreply, reply, crashed, screen,
                 verdict, confirmed, overlapped, intruded>>

SetConar(t) ==
  /\ th[t] = "conar" /\ Goto(t, "wait")
  /\ conar' = TRUE
  /\ UNCHANGED <<client, rs, buf, last, vkDes, id, conreply, reply, crashed, screen, history>>

\* Mutant: only a click on Confirm ends the wait.
SeeConfirm(t) ==
  /\ th[t] = "wait" /\ conreply /\ reply /\ Goto(t, "seen")
  /\ UNCHANGED <<client, rs, buf, last, vkDes, id, conar, conreply, reply, crashed, screen, history>>

\* WaitReply: conreply is seen and then reset.
SeeReply(t) ==
  /\ th[t] = "wait" /\ conreply /\ Goto(t, "seen")
  /\ UNCHANGED <<client, rs, buf, last, vkDes, id, conar, conreply, reply, crashed, screen, history>>

ResetConreply(t) ==
  /\ th[t] = "seen" /\ Goto(t, "answer")
  /\ conreply' = FALSE
  /\ UNCHANGED <<client, rs, buf, last, vkDes, id, conar, reply, crashed, screen, history>>

\* The data key goes under vkDes to the client accepted last.
Answer(t) ==
  /\ th[t] = "answer" /\ Goto(t, "answered")
  /\ toClient' = IF reply THEN SentTo(last, vkDes) ELSE toClient
  /\ UNCHANGED <<pc, asks, toHost, rs, buf, last, vkDes, id, conar, conreply, reply, crashed,
                 screen, history>>

ResetReply(t) ==
  /\ th[t] = "answered" /\ Goto(t, "begin")
  /\ reply' = FALSE
  /\ UNCHANGED <<client, rs, buf, last, vkDes, id, conar, conreply, crashed, screen, history>>
------------------------------------------------------------------------------
(* The user interface: the loop of updateScreen, and the user.             *)

\* ConnArrived: id is taken under l, conar is reset after it.
TakeId ==
  /\ ~crashed /\ watcher.at = "poll" /\ conar
  /\ watcher' = [at |-> "taken", ret |-> id] /\ id' = None
  /\ UNCHANGED <<client, threads, conar, conreply, reply, crashed, label, enabled, click, history>>

\* Mutant: conar is not reset.
LeaveConar ==
  /\ ~crashed /\ watcher.at = "taken"
  /\ watcher' = [watcher EXCEPT !.at = "show"]
  /\ UNCHANGED <<client, threads, id, conar, conreply, reply, crashed, label, enabled, click, history>>

ClearConar ==
  /\ ~crashed /\ watcher.at = "taken"
  /\ watcher' = [watcher EXCEPT !.at = "show"] /\ conar' = FALSE
  /\ UNCHANGED <<client, threads, id, conreply, reply, crashed, label, enabled, click, history>>

\* Dispatcher.Invoke waits until the user interface's thread is idle.
Show ==
  /\ ~crashed /\ watcher.at = "show" /\ ~click
  /\ label' = watcher.ret /\ enabled' = TRUE /\ watcher' = [watcher EXCEPT !.at = "poll"]
  /\ UNCHANGED <<client, threads, id, conar, conreply, reply, crashed, click, history>>

\* Mutant: conreply is set before reply.
SetReplySwapped(allow) ==
  /\ ~crashed /\ enabled /\ ~click
  /\ conreply' = TRUE /\ reply' \in {reply, allow} /\ click' = TRUE
  /\ verdict' = [for |-> label, allow |-> allow]
  /\ confirmed' = IF allow THEN confirmed \cup {label} ELSE confirmed
  /\ UNCHANGED <<client, threads, id, conar, crashed, watcher, label, enabled,
                 asked, overlapped, intruded>>

\* SetReply, its two assignments; then the buttons are disabled.
SetReply(allow) ==
  /\ ~crashed /\ enabled /\ ~click
  /\ reply' = allow /\ click' = TRUE
  /\ verdict' = [for |-> label, allow |-> allow]
  /\ confirmed' = IF allow THEN confirmed \cup {label} ELSE confirmed
  /\ UNCHANGED <<client, threads, id, conar, conreply, crashed, watcher, label, enabled,
                 asked, overlapped, intruded>>

SetConreply ==
  /\ ~crashed /\ click /\ click' = FALSE
  /\ conreply' = TRUE /\ label' = None /\ enabled' = FALSE
  /\ UNCHANGED <<client, threads, id, conar, reply, crashed, watcher, history>>

------------------------------------------------------------------------------
ClientStep(c) == RecvOk(c) \/ RecvKeyOk(c) \/ RecvKey(c) \/ RecvAnswer(c)
Thread(t) == \/ BeginRead(t) \/ Read(t) \/ ReadEnd(t) \/ SendOk(t) \/ RegisterVK(t)
             \/ SendKey(t) \/ RecvConf(t) \/ SetId(t) \/ SetConar(t) \/ SeeReply(t)
             \/ ResetConreply(t) \/ Answer(t) \/ ResetReply(t)
Watcher   == TakeId \/ ClearConar \/ Show
User      == (\E allow \in BOOLEAN : SetReply(allow)) \/ SetConreply

Next == \/ \E c \in Client : \/ Accept(c) \/ ClientStep(c) \/ Ask(c) \/ Timeout(c) \/ Leave(c)
                             \/ Thread(c)
        \/ Watcher \/ User

Spec == Init /\ [][Next]_vars

\* The host's threads and its user go on; nothing is asked of clients.
FairSpec == /\ Spec /\ WF_vars(Watcher) /\ WF_vars(User)
            /\ \A c \in Client : WF_vars(Thread(c))
------------------------------------------------------------------------------
(* Properties.                                                             *)

\* Every variable stays in its set.
TypeOK ==
  /\ pc \in [Client -> {"new", "hi", "key", "hostkey", "ready", "wait", "in", "failed", "left"}]
  /\ DOMAIN asks = Client /\ \A c \in Client : asks[c] \in 0..MaxAsk[c]
  /\ toHost \in [Client -> Seq({"HI", "KEY", "CONF", "CONN"})]
  /\ \A c \in Client : \A i \in DOMAIN toClient[c] :
       toClient[c][i] \in Client \/ toClient[c][i] \in {"OK", "KEYOK", "KEY"}
  /\ th \in [Client -> {"none", "begin", "reading", "HI", "KEY", "CONF", "CONN", "sleep", "conf",
                        "conar", "wait", "seen", "answer", "answered"}]
  /\ buf \in [Client -> {"none", "HI", "KEY", "CONF", "CONN"}]
  /\ \A t \in Client : th[t] \in {"none", "begin"} \/ rs[t] \in Client
  /\ asked \in [Client -> Client \cup {None}]
  /\ {last, vkDes, id, label, watcher.ret, verdict.for} \subseteq Client \cup {None}
  /\ {conar, conreply, reply, crashed, enabled, click, overlapped, intruded} \subseteq BOOLEAN
  /\ confirmed \subseteq Client \cup {None}

\* The two ways in which two clients meet in the host's fields.
Mixed == overlapped \/ intruded

\* While the clients come one after the other, one that enters, with a late answer to an
\* earlier attempt too, is one whose id was on the screen when the user confirmed.
OnlyConfirmedEnter == \A c \in Client : pc[c] = "in" => c \in confirmed \/ Mixed

\* A thread that answers has the answer to its own request: the id it had set was on the
\* screen at the last click, what it reads in reply is that click, and the data key goes
\* under that client's key to that client's stream (Recv, SetReply, ConnArrived).
AnswersTheClick ==
  \A t \in Client : th[t] = "answer" =>
    \/ Mixed
    \/ /\ verdict = [for |-> asked[t], allow |-> reply]
       /\ asked[t] = vkDes /\ asked[t] = last

\* Every request is shown and its thread gets the user's answer and reads on, if the user
\* answers what is shown.
RequestIsAnswered ==
  \A t \in Client : th[t] = "conar" ~> th[t] = "reading" \/ Mixed \/ crashed

==============================================================================
