---------------------------- MODULE BufferWriter ----------------------------
(***************************************************************************)
(* What one xop::TcpConnection writes to its socket: Send on the           *)
(* scheduler's thread, the two parallel queues of net/BufferWriter.cpp     *)
(* (plain packets in buffer_, their HexPackets in bufferEncryp_), and      *)
(* HandleWrite, called after each Send and whenever select finds the       *)
(* socket writable while the channel asks for it.  Disconnect, on another  *)
(* thread, holds the connection's mutex for a while; HandleWrite only      *)
(* tries to lock it.                                                       *)
(*                                                                         *)
(* Each ::send puts a frame on the wire, an 8 byte header with the number  *)
(* of bytes that remain of the packet and as many of them as the socket    *)
(* takes; sizes are counted in units of ciphertext.                        *)
(***************************************************************************)
EXTENDS Naturals, Sequences, FiniteSets

CONSTANTS
  Packet,    \* the calls of Send
  Reply,     \* those of RTSP messages, made through the shared_ptr overloads
  Size,      \* units of each one's ciphertext
  MaxLength  \* max_queue_length_, 500 in the code

ASSUME WriterAssumption ==
  /\ MaxLength \in Nat \ {0} /\ Size \in [Packet -> Nat \ {0}]
  /\ Reply \subseteq Packet

VARIABLES
  buffer,       \* buffer_
  bufferEncryp, \* bufferEncryp_: packet and offset
  writing,      \* the channel's EVENT_OUT
  pc,           \* "idle", or "flush" between Append and HandleWrite
  conn,         \* "open", "closed", or "crashed" by Send's exception
  disconnect,   \* Disconnect: "no", "locked", "queued" its Close or "refused"
  sent,         \* history: the packets Send was called with
  accepted,     \* history: those whose HexPacket Append queued, in order
  skipped,      \* history: replies Append queued without their HexPacket
  wire          \* history: the frames sent

vars == <<buffer, bufferEncryp, writing, pc, conn, disconnect, sent, accepted,
          skipped, wire>>

Frames == [pkt : Packet, from : Nat, size : Nat, len : Nat]

Init ==
  /\ buffer = <<>> /\ bufferEncryp = <<>> /\ writing = FALSE
  /\ pc = "idle" /\ conn = "open" /\ disconnect = "no"
  /\ sent = {} /\ accepted = <<>> /\ skipped = {} /\ wire = <<>>

-----------------------------------------------------------------------------
\* TcpConnection::Send up to its HandleWrite, with BufferWriter::Append, whose
\* result Send ignores.  A full queue drops the packet, and so does a failed
\* encryption; but a reply enters buffer_ even when it could not be encrypted.
SendPacket(p) ==
  /\ pc = "idle" /\ conn = "open" /\ disconnect # "locked" /\ p \notin sent
  /\ pc' = "flush" /\ sent' = sent \cup {p}
  /\ \/ /\ Len(buffer) < MaxLength
        /\ buffer' = Append(buffer, p) /\ accepted' = Append(accepted, p)
        /\ bufferEncryp' = Append(bufferEncryp, [pkt |-> p, offset |-> 0])
        /\ UNCHANGED skipped
     \/ /\ Len(buffer) < MaxLength /\ p \in Reply
        /\ buffer' = Append(buffer, p) /\ skipped' = skipped \cup {p}
        /\ UNCHANGED <<bufferEncryp, accepted>>
     \/ /\ Len(buffer) >= MaxLength \/ p \notin Reply
        /\ UNCHANGED <<buffer, bufferEncryp, accepted, skipped>>
  /\ UNCHANGED <<writing, conn, disconnect, wire>>

Left(h)     == Size[h.pkt] - h.offset
Frame(h, n) == [pkt |-> h.pkt, from |-> h.offset, size |-> Left(h), len |-> n]
From(s, k)  == SubSeq(s, k + 1, Len(s))
Whole(k)    == [i \in 1..k |-> Frame(bufferEncryp[i], Left(bufferEncryp[i]))]

\* Mutant: a partly sent packet keeps its offset.
SendLoopFromStart ==
  \E k \in 0..Len(bufferEncryp) :
    LET rest == From(bufferEncryp, k)
    IN  /\ buffer' = From(buffer, k) /\ bufferEncryp' = rest
        /\ writing' = (From(buffer, k) # <<>>) /\ conn' = conn
        /\ \/ wire' = wire \o Whole(k)
           \/ /\ rest # <<>>
              /\ \E n \in 1..(Left(rest[1]) - 1) :
                   wire' = wire \o Append(Whole(k), Frame(rest[1], n))

\* BufferWriter::Send and the rest of HandleWrite: k packets go out whole, then
\* the socket takes nothing, or a part of the next one, or no more than the
\* header (an exception), or the send fails.
SendLoop ==
  \E k \in 0..Len(bufferEncryp) :
    LET rest == From(bufferEncryp, k)
    IN  /\ buffer' = From(buffer, k)
        /\ \/ /\ bufferEncryp' = rest /\ wire' = wire \o Whole(k)
              /\ writing' = (From(buffer, k) # <<>>) /\ conn' = conn
           \/ /\ rest # <<>>
              /\ \E n \in 1..(Left(rest[1]) - 1) :
                   /\ bufferEncryp' = [rest EXCEPT ![1].offset = @ + n]
                   /\ wire' = wire \o Append(Whole(k), Frame(rest[1], n))
              /\ writing' = TRUE /\ conn' = conn
           \/ /\ rest # <<>> /\ conn' \in {"closed", "crashed"}
              /\ bufferEncryp' = rest /\ wire' = wire \o Whole(k) /\ writing' = writing

\* Mutant: EVENT_OUT is asked for only by HandleWrite's own next call.
HandleWriteOnce ==
  IF conn = "open" /\ disconnect # "locked"
    THEN \E k \in 0..Len(bufferEncryp) :
           /\ buffer' = From(buffer, k) /\ bufferEncryp' = From(bufferEncryp, k)
           /\ wire' = wire \o Whole(k) /\ conn' = conn /\ writing' = FALSE
    ELSE UNCHANGED <<buffer, bufferEncryp, writing, conn, wire>>

HandleWrite ==
  IF conn = "open" /\ disconnect # "locked"
    THEN SendLoop
    ELSE UNCHANGED <<buffer, bufferEncryp, writing, conn, wire>>

Flush ==
  /\ pc = "flush" /\ pc' = "idle" /\ HandleWrite
  /\ UNCHANGED <<disconnect, sent, accepted, skipped>>

\* select reports the socket writable.
Writable ==
  /\ pc = "idle" /\ writing /\ conn = "open" /\ HandleWrite
  /\ UNCHANGED <<pc, disconnect, sent, accepted, skipped>>

-----------------------------------------------------------------------------
(* Disconnect by TcpServer::Stop: the mutex is held over AddTriggerEvent. *)

DisconnectLock ==
  /\ disconnect = "no" /\ disconnect' = "locked"
  /\ UNCHANGED <<buffer, bufferEncryp, writing, pc, conn, sent, accepted,
                 skipped, wire>>

\* AddTriggerEvent takes the Close, or refuses it, which Disconnect ignores.
DisconnectQueue ==
  /\ disconnect = "locked" /\ disconnect' \in {"queued", "refused"}
  /\ UNCHANGED <<buffer, bufferEncryp, writing, pc, conn, sent, accepted,
                 skipped, wire>>

\* The trigger event runs; or HandleRead has seen the peer close.
CloseConnection ==
  /\ pc = "idle" /\ conn = "open" /\ conn' = "closed"
  /\ UNCHANGED <<buffer, bufferEncryp, writing, pc, disconnect, sent, accepted,
                 skipped, wire>>

-----------------------------------------------------------------------------
Next ==
  \/ \E p \in Packet : SendPacket(p)
  \/ Flush \/ Writable
  \/ DisconnectLock \/ DisconnectQueue \/ CloseConnection

Spec == Init /\ [][Next]_vars

(* The scheduler's thread goes on, a queued Close is run, and a peer that    *)
(* reads makes a socket that select watches take some bytes again and again. *)
Fairness ==
  /\ WF_vars(Flush) /\ WF_vars(DisconnectQueue)
  /\ SF_vars(Writable /\ wire' # wire)
  /\ WF_vars(CloseConnection /\ disconnect = "queued")

LiveSpec == Spec /\ Fairness

-----------------------------------------------------------------------------
(* Properties. *)

TypeOK ==
  /\ buffer \in Seq(Packet) /\ Len(buffer) <= MaxLength
  /\ bufferEncryp \in Seq([pkt : Packet, offset : Nat])
  /\ writing \in BOOLEAN /\ pc \in {"idle", "flush"}
  /\ conn \in {"open", "closed", "crashed"}
  /\ disconnect \in {"no", "locked", "queued", "refused"}
  /\ sent \in SUBSET Packet /\ accepted \in Seq(Packet)
  /\ skipped \in SUBSET Reply /\ wire \in Seq(Frames)

\* Send tests one queue, sends from the other and pops both: unless a reply could
\* not be encrypted, their fronts are the same packet, with something of it still
\* to be sent.  Each such reply takes up a place of buffer_ from then on.
LockStep ==
  /\ Len(buffer) = Len(bufferEncryp) + Cardinality(skipped)
  /\ \A i \in DOMAIN bufferEncryp :
       /\ bufferEncryp[i].offset < Size[bufferEncryp[i].pkt]
       /\ skipped = {} => buffer[i] = bufferEncryp[i].pkt

Done(f) == f.from + f.len = Size[f.pkt]

\* How many of the first i frames end a packet, and where frame i should begin.
Ended(i)  == Cardinality({j \in 1..i : Done(wire[j])})
Resume(i) == IF i = 1 \/ Done(wire[i-1]) THEN 0 ELSE wire[i-1].from + wire[i-1].len

\* The frames on the wire carry the accepted packets in order, without a gap or a
\* repetition: each frame takes up where the one before it ended, and the queue
\* takes up where the last frame ended.
NothingLostOrRepeated ==
  LET gone == Ended(Len(wire))
  IN  /\ \A i \in DOMAIN wire : wire[i].from = Resume(i) /\ wire[i].pkt = accepted[Ended(i-1) + 1]
      /\ [i \in DOMAIN bufferEncryp |-> bufferEncryp[i].pkt] = From(accepted, gone)
      /\ bufferEncryp # <<>> => bufferEncryp[1].offset = Resume(Len(wire) + 1)

\* Packets never wait in the queue without EVENT_OUT, with which select would call
\* HandleWrite again, unless a Disconnect has made HandleWrite's try_lock fail.
WaitingIsWatched ==
  pc = "idle" /\ conn = "open" /\ buffer # <<>> => writing \/ disconnect # "no"

\* An encrypted packet goes out to a peer that reads, or the connection ends,
\* unless the trigger queue refused a Disconnect that kept HandleWrite from it.
AcceptedIsSent ==
  \A p \in Packet :
    (\E i \in DOMAIN bufferEncryp : bufferEncryp[i].pkt = p)
      ~> \/ conn # "open" \/ disconnect = "refused"
         \/ \E i \in DOMAIN wire : wire[i].pkt = p /\ Done(wire[i])

\* HexPacket.cpp's Packet Struct, [null(4)][size(4)][data(x)]: a header is followed
\* by as many bytes as it says before the next header.
WireIsPackets == \A i \in 1..(Len(wire) - 1) : wire[i].len = wire[i].size
=============================================================================
