------------------------ MODULE RtpSequenceAssembler ------------------------
(***************************************************************************)
(* How the player puts RTP packets that came over UDP back in order:       *)
(* ProcessPacket, with its three parallel structures (the list of buffered *)
(* packets, the list that maps each of them to a chunk, and ChunksArray    *)
(* with its stack of free chunks), fed by a network that loses, delays and *)
(* repeats packets.                                                        *)
(*                                                                         *)
(* A packet that came is its position in the stream and the place of its   *)
(* arrival among all.  Its sequence number is the position modulo Modulus  *)
(* (2^16 in the code); the server starts anywhere (RtpConnection.cpp:23).  *)
(* The copy of a payload is the packet it was copied from.                 *)
(***************************************************************************)
EXTENDS Naturals, Sequences, FiniteSets, SequencesExt

CONSTANTS
  Position,       \* positions of the packets that are sent
  Timestamp,      \* of each: packets of one frame share it
  Modulus,        \* of sequence numbers
  MaxCorrection,  \* _maxCorrectionLength
  MaxDup          \* bound on repeated packets

Constants ==
  /\ Position \subseteq Nat /\ Timestamp \in [Position -> Nat]
  /\ MaxCorrection \in Nat \ {0} /\ Modulus \in Nat /\ Modulus > MaxCorrection + 1
  /\ MaxDup \in Nat

\* Packets of one frame are sent one after the other; a timestamp does not come back soon.
Frames ==
  \A p, q, r \in Position :
    p < q /\ q < r /\ r <= p + MaxCorrection /\ Timestamp[p] = Timestamp[r] =>
      Timestamp[q] = Timestamp[p]

ASSUME AssemblerAssumption == Constants /\ Frames

VARIABLES
  received,  \* history: the packets in the order they came
  asm,       \* the assembler
  jumped,    \* history: positions taken at once, though others may be missing before them
  doubled    \* history: a packet came with the number of the last one, or of a buffered one

assemblerVars == <<received, asm, jumped, doubled>>

Arrival == [pos : Position, at : Nat]

Seq16(x) == x.pos % Modulus

\* (ushort) (number - previous)
Delta(number, previous) == (number + Modulus - previous) % Modulus

AssemblerInit ==
  /\ received = <<>> /\ jumped = {} /\ doubled = FALSE
  /\ asm = [isFirst |-> TRUE, number |-> 0, timestamp |-> 0,  \* _previous...
            buffered |-> <<>>, chunkOf |-> <<>>, bytes |-> <<>>, free |-> <<>>,
            passed |-> <<>>]         \* history: what PacketPassed was called with

-----------------------------------------------------------------------------
(* ChunksArray *)

ChunksCount(a) == Len(a.bytes) - Len(a.free)

\* Insert, and the two lists' Add.
Buffer(a, x) ==
  LET index == IF a.free # <<>> THEN Last(a.free) ELSE ChunksCount(a) + 1
  IN  [a EXCEPT !.buffered = Append(@, x), !.chunkOf = Append(@, index),
                !.free = IF @ # <<>> THEN Front(@) ELSE @,
                !.bytes = IF index > Len(@) THEN Append(@, x) ELSE [@ EXCEPT ![index] = x]]

\* Mutant: the entry of the map stays.
RemoveKeepsMap(a, i) ==
  [a EXCEPT !.buffered = RemoveAt(@, i), !.free = Append(@, a.chunkOf[i])]

\* _bufferedRtpPackets.RemoveAt, _chunksArray.RemoveAt, _rtpPacketIndexToChunkIndexMap.RemoveAt
RemoveEntry(a, i) ==
  [a EXCEPT !.buffered = RemoveAt(@, i), !.chunkOf = RemoveAt(@, i),
            !.free = Append(@, a.chunkOf[i])]

Clear(a) == [a EXCEPT !.buffered = <<>>, !.chunkOf = <<>>, !.bytes = <<>>, !.free = <<>>]

-----------------------------------------------------------------------------
(* ProcessPacket *)

\* PacketPassed, and what is remembered of the packet.
Pass(a, x, payload) ==
  [a EXCEPT !.isFirst = FALSE, !.number = Seq16(x), !.timestamp = Timestamp[x.pos],
            !.passed = Append(@, [packet |-> x, payload |-> payload])]

PassBuffered(a, i) == Pass(a, a.buffered[i], a.bytes[a.chunkOf[i]])

Distance(a, i) == Delta(Seq16(a.buffered[i]), a.number)

\* Mutant: numbers are compared as they are, without the wrap.
NearestUnwrapped(a) ==
  Min({i \in DOMAIN a.buffered :
         \A j \in DOMAIN a.buffered : Seq16(a.buffered[i]) <= Seq16(a.buffered[j])})

Nearest(a) ==
  Min({i \in DOMAIN a.buffered : \A j \in DOMAIN a.buffered : Distance(a, i) <= Distance(a, j)})

PassNearest(a) == RemoveEntry(PassBuffered(a, Nearest(a)), Nearest(a))

\* Mutant: what is buffered is thrown away.
FlushDrops(a) == Clear(a)

Flush(a) ==
  LET after[k \in 0..Len(a.buffered)] == IF k = 0 THEN a ELSE PassNearest(after[k-1])
  IN  after[Len(a.buffered)]

Apart(a, k) == {i \in DOMAIN a.buffered : Distance(a, i) = k}

\* Indices of the buffered packets whose numbers follow the last one, in the order they
\* are passed.  Of two copies of a packet either is taken: they differ in nothing.
Follow(a) ==
  LET n == CHOOSE m \in 0..Len(a.buffered) :
             Apart(a, m + 1) = {} /\ \A k \in 1..m : Apart(a, k) # {}
  IN  [k \in 1..n |-> Min(Apart(a, k))]

PassEach(a, follow) ==
  LET after[k \in 0..Len(follow)] ==
        IF k = 0 THEN a ELSE PassBuffered(after[k-1], follow[k])
  IN  after[Len(follow)]

\* _removeList is sorted: the last index goes first.
RemoveEach(a, list) ==
  LET n == Len(a.buffered)
      after[k \in 0..n] ==
        IF k = 0 THEN a
        ELSE IF n + 1 - k \in list THEN RemoveEntry(after[k-1], n + 1 - k) ELSE after[k-1]
  IN  after[n]

ProcessBuffered(a) ==
  LET follow == Follow(a)
      b == PassEach(a, follow)
  IN  IF follow # <<>> /\ Len(follow) = Len(a.buffered) THEN Clear(b)
      ELSE RemoveEach(b, ToSet(follow))

\* A packet that is ahead, of the same frame.
Hold(a, x) ==
  LET b == Buffer(a, x)
  IN  IF Len(b.buffered) # MaxCorrection THEN b ELSE ProcessBuffered(PassNearest(b))

IsNext(a, x) == ~a.isFirst /\ Delta(Seq16(x), a.number) = 1

\* Mutant: a number out of reach is waited for.
AtOnceIfNewFrame(a, x) == ~a.isFirst /\ ~IsNext(a, x) /\ a.timestamp # Timestamp[x.pos]

\* Of another frame, or out of reach.
AtOnce(a, x) ==
  /\ ~a.isFirst /\ ~IsNext(a, x)
  /\ a.timestamp # Timestamp[x.pos] \/ Delta(Seq16(x), a.number) > MaxCorrection

ProcessPacket(a, x) ==
  CASE a.isFirst    -> Pass(a, x, x)
    [] IsNext(a, x) -> ProcessBuffered(Pass(a, x, x))
    [] AtOnce(a, x) -> Pass(Flush(a), x, x)
    [] OTHER        -> IF Seq16(x) = a.number THEN a ELSE Hold(a, x)

Dups == Len(received) - Cardinality(ToSet(received))

Doubles(a, x) ==
  /\ ~a.isFirst
  /\ Seq16(x) = a.number \/ \E i \in DOMAIN a.buffered : Seq16(a.buffered[i]) = Seq16(x)

Process(p) ==
  LET x == [pos |-> p, at |-> Len(received) + 1]
  IN  /\ p \in ToSet(received) => Dups < MaxDup
      /\ received' = Append(received, p)
      /\ asm' = ProcessPacket(asm, x)
      /\ jumped' = IF AtOnce(asm, x) THEN jumped \cup {p} ELSE jumped
      /\ doubled' = (doubled \/ Doubles(asm, x))

AssemblerNext == \E p \in Position : Process(p)

AssemblerSpec == AssemblerInit /\ [][AssemblerNext]_assemblerVars

-----------------------------------------------------------------------------
(* Properties. *)

AssemblerTypeOK ==
  /\ received \in Seq(Position) /\ jumped \subseteq Position /\ doubled \in BOOLEAN
  /\ asm \in [isFirst : BOOLEAN, number : 0..(Modulus - 1), timestamp : Nat,
              buffered : Seq(Arrival), chunkOf : Seq(1..MaxCorrection),
              bytes : Seq(Arrival), free : Seq(1..MaxCorrection),
              passed : Seq([packet : Arrival, payload : Arrival])]

\* Insert throws when no chunk is left: it never does, though chunks are given back one by
\* one in three places, and the list of packets, not the chunks, is what is counted.
ChunksSuffice == ChunksCount(asm) < MaxCorrection /\ Len(asm.bytes) <= MaxCorrection

\* The three structures agree after any sequence of insertions and removals: every packet
\* is passed with its own payload, and no two buffered packets share a chunk.
PayloadIsOwn ==
  /\ \A i \in DOMAIN asm.passed : asm.passed[i].payload = asm.passed[i].packet
  /\ Len(asm.chunkOf) = Len(asm.buffered)
  /\ \A i \in DOMAIN asm.buffered : asm.bytes[asm.chunkOf[i]] = asm.buffered[i]
  /\ ToSet(asm.chunkOf) \cup ToSet(asm.free) = DOMAIN asm.bytes
  /\ IsInjective(asm.chunkOf)

Held(i)   == \E j \in DOMAIN asm.buffered : asm.buffered[j].at = i
Passed(i) == \E j \in DOMAIN asm.passed : asm.passed[j].packet.at = i

\* Whatever the network does, a packet that came is passed or still held, unless it has
\* the number of one that was passed, and none is passed more often than it came.
NothingLost ==
  /\ \A i \in DOMAIN received :
       \/ Held(i) \/ Passed(i)
       \/ \E j \in DOMAIN asm.passed : /\ asm.passed[j].packet.at < i
                                       /\ Seq16(asm.passed[j].packet) = received[i] % Modulus
  /\ \A i \in DOMAIN received : ~(Held(i) /\ Passed(i))
  /\ \A j, k \in DOMAIN asm.passed : asm.passed[j].packet.at = asm.passed[k].packet.at => j = k

Overtook(p) ==
  {q \in Position : q > p /\ \E i, j \in DOMAIN received :
                               i < j /\ received[i] = q /\ received[j] = p}

\* What the network must do for packets to be passed in order: none comes twice, none is
\* overtaken by the first of all or by one that was taken at once, a new frame's or one
\* behind too wide a gap, and not nearly as many are lost in a row as there are numbers.
Orderly ==
  /\ IsInjective(received)
  /\ \A p \in ToSet(received) : Overtook(p) \cap (jumped \cup {received[1]}) = {}
  /\ \A i \in DOMAIN received \ {1} : received[i] + MaxCorrection < received[i-1] + Modulus

\* Packets are passed in the order they were sent, numbers that wrap included, as long as
\* the network is orderly.
InOrder ==
  Orderly =>
    \A i, j \in DOMAIN asm.passed : i < j => asm.passed[i].packet.pos < asm.passed[j].packet.pos

\* There is no timer: a packet that is held waits for others to come.  Unless one came
\* with the number of one that was held or passed last, it is passed, at the latest, when
\* those before it and those that are held with it have come.
HeldBriefly ==
  ~doubled =>
    \A i \in DOMAIN asm.buffered : Len(received) - asm.buffered[i].at <= 2 * MaxCorrection - 4
=============================================================================
