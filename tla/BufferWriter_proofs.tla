-------------------------- MODULE BufferWriter_proofs --------------------------
(***************************************************************************)
(* Proofs about BufferWriter, for any packets, sizes and queue length: the *)
(* two queues agree, the frames on the wire carry the accepted packets in  *)
(* order without a gap, and waiting data is watched.                       *)
(***************************************************************************)
EXTENDS BufferWriter, FiniteSetTheorems, SequenceTheorems, TLAPS

Item == [pkt : Packet, offset : Nat]

(* How many of the first i frames of a wire w end a packet, and where the   *)
(* frame i should begin.                                                    *)
DoneIn(w, i)   == {j \in 1..i : Done(w[j])}
EndIn(w, i)    == Cardinality(DoneIn(w, i))
ResumeIn(w, i) == IF i = 1 \/ Done(w[i-1]) THEN 0 ELSE w[i-1].from + w[i-1].len

(* NothingLostOrRepeated element by element, with what else it takes: only   *)
(* the first packet of the queue has been begun, none of them is through,    *)
(* and with the queue empty the last frame on the wire has ended its packet. *)
StreamOf(w, a, b) ==
  LET gone == EndIn(w, Len(w))
  IN  /\ Len(a) = gone + Len(b)
      /\ \A i \in 1..Len(b) : b[i].pkt = a[gone + i]
      /\ \A i \in 1..Len(w) : w[i].from = ResumeIn(w, i) /\ w[i].pkt = a[EndIn(w, i-1) + 1]
      /\ \A i \in 1..Len(w) : EndIn(w, i-1) < Len(a)
      /\ \A i \in 1..Len(b) : b[i].offset = IF i = 1 THEN ResumeIn(w, Len(w) + 1) ELSE 0
      /\ b = <<>> => ResumeIn(w, Len(w) + 1) = 0

Stream == StreamOf(wire, accepted, bufferEncryp)

Once == IsFiniteSet(skipped) /\ skipped \subseteq sent

IInv == TypeOK /\ LockStep /\ Stream /\ WaitingIsWatched /\ Once

-----------------------------------------------------------------------------
(* What is left of a sequence without its first k elements. *)
LEMMA FromFacts ==
  ASSUME NEW S, NEW s \in Seq(S), NEW k \in 0..Len(s)
  PROVE  /\ From(s, k) \in Seq(S) /\ Len(From(s, k)) = Len(s) - k
         /\ \A i \in 1..(Len(s) - k) : From(s, k)[i] = s[k + i]
<1>1. Len(s) \in Nat /\ \A i \in (k + 1)..Len(s) : s[i] \in S
  OBVIOUS
<1>2. k + 1 \in Int /\ Len(s) \in Int
  BY <1>1
<1>3. /\ SubSeq(s, k + 1, Len(s)) \in Seq(S)
      /\ Len(SubSeq(s, k + 1, Len(s))) = IF k + 1 <= Len(s) THEN Len(s) - (k + 1) + 1 ELSE 0
      /\ \A i \in 1..(Len(s) - (k + 1) + 1) : SubSeq(s, k + 1, Len(s))[i] = s[(k + 1) + i - 1]
  BY <1>1, <1>2, SubSeqProperties
<1>4. QED
  BY <1>1, <1>3 DEF From

(* What is in the queue has something left to be sent. *)
LEMMA ItemFacts ==
  ASSUME TypeOK, LockStep, NEW i \in 1..Len(bufferEncryp)
  PROVE  /\ bufferEncryp[i] \in Item
         /\ bufferEncryp[i].offset < Size[bufferEncryp[i].pkt]
         /\ Left(bufferEncryp[i]) \in Nat \ {0}
<1>1. bufferEncryp \in Seq(Item)
  BY DEF TypeOK, Item
<1>2. i \in DOMAIN bufferEncryp /\ bufferEncryp[i] \in Item
  BY <1>1
<1>3. bufferEncryp[i].offset < Size[bufferEncryp[i].pkt]
  BY <1>2 DEF LockStep
<1>4. Size[bufferEncryp[i].pkt] \in Nat /\ bufferEncryp[i].offset \in Nat
  BY <1>2, WriterAssumption DEF Item
<1>5. QED
  BY <1>2, <1>3, <1>4 DEF Left

(* Frames for whole packets are well formed, and those packets are ended.    *)
LEMMA FrameFacts ==
  ASSUME TypeOK, LockStep, NEW i \in 1..Len(bufferEncryp), NEW n \in 1..Left(bufferEncryp[i])
  PROVE  /\ Left(bufferEncryp[i]) \in Nat \ {0}
         /\ bufferEncryp[i] \in Item
         /\ Frame(bufferEncryp[i], n) \in Frames
         /\ Done(Frame(bufferEncryp[i], n)) <=> n = Left(bufferEncryp[i])
<1>1. bufferEncryp[i] \in Item /\ bufferEncryp[i].offset < Size[bufferEncryp[i].pkt]
  BY ItemFacts
<1>2. /\ Size[bufferEncryp[i].pkt] \in Nat /\ bufferEncryp[i].offset \in Nat
      /\ bufferEncryp[i].pkt \in Packet
  BY <1>1, WriterAssumption DEF Item
<1>3. QED
  BY <1>1, <1>2 DEF Left, Frame, Frames, Done

(* The wire after k whole packets. *)
LEMMA WholeFacts ==
  ASSUME TypeOK, LockStep, NEW k \in 0..Len(bufferEncryp)
  PROVE  LET w == wire \o Whole(k)
         IN  /\ w \in Seq(Frames) /\ Len(w) = Len(wire) + k
             /\ \A i \in 1..Len(wire) : w[i] = wire[i]
             /\ \A j \in 1..k : w[Len(wire) + j] = Frame(bufferEncryp[j], Left(bufferEncryp[j]))
<1>1. \A j \in 1..k : j \in 1..Len(bufferEncryp) /\ Left(bufferEncryp[j]) \in Nat \ {0}
  BY ItemFacts
<1>2. \A j \in 1..k : Frame(bufferEncryp[j], Left(bufferEncryp[j])) \in Frames
  BY <1>1, FrameFacts
<1>3. /\ Whole(k) \in Seq(Frames) /\ Len(Whole(k)) = k
      /\ \A j \in 1..k : Whole(k)[j] = Frame(bufferEncryp[j], Left(bufferEncryp[j]))
  BY <1>2 DEF Whole
<1>4. wire \in Seq(Frames) /\ Len(wire) \in Nat
  BY DEF TypeOK
<1>5. /\ wire \o Whole(k) \in Seq(Frames) /\ Len(wire \o Whole(k)) = Len(wire) + k
      /\ \A i \in 1..(Len(wire) + k) :
           (wire \o Whole(k))[i] = IF i <= Len(wire) THEN wire[i] ELSE Whole(k)[i - Len(wire)]
  BY <1>3, <1>4, ConcatProperties
<1>6. QED
  BY <1>3, <1>4, <1>5

(* ... and after k whole packets and a part of the next. *)
LEMMA PartFacts ==
  ASSUME TypeOK, LockStep, NEW k \in 0..Len(bufferEncryp), NEW f \in Frames
  PROVE  LET w == wire \o Append(Whole(k), f)
         IN  /\ w \in Seq(Frames) /\ Len(w) = Len(wire) + k + 1
             /\ \A i \in 1..Len(wire) : w[i] = wire[i]
             /\ \A j \in 1..k : w[Len(wire) + j] = Frame(bufferEncryp[j], Left(bufferEncryp[j]))
             /\ w[Len(wire) + k + 1] = f
<1>1. \A j \in 1..k : j \in 1..Len(bufferEncryp) /\ Left(bufferEncryp[j]) \in Nat \ {0}
  BY ItemFacts
<1>2. \A j \in 1..k : Frame(bufferEncryp[j], Left(bufferEncryp[j])) \in Frames
  BY <1>1, FrameFacts
<1>3. /\ Whole(k) \in Seq(Frames) /\ Len(Whole(k)) = k
      /\ \A j \in 1..k : Whole(k)[j] = Frame(bufferEncryp[j], Left(bufferEncryp[j]))
  BY <1>2 DEF Whole
<1>4. /\ Append(Whole(k), f) \in Seq(Frames) /\ Len(Append(Whole(k), f)) = k + 1
      /\ \A j \in 1..k : Append(Whole(k), f)[j] = Whole(k)[j]
      /\ Append(Whole(k), f)[k + 1] = f
  BY <1>3
<1>5. wire \in Seq(Frames) /\ Len(wire) \in Nat
  BY DEF TypeOK
<1> DEFINE t == Append(Whole(k), f)
<1>a. t \in Seq(Frames) /\ Len(t) = k + 1
  BY <1>4
<1> HIDE DEF t
<1>6. /\ wire \o t \in Seq(Frames) /\ Len(wire \o t) = Len(wire) + (k + 1)
      /\ \A i \in 1..(Len(wire) + (k + 1)) :
           (wire \o t)[i] = IF i <= Len(wire) THEN wire[i] ELSE t[i - Len(wire)]
  <2>1. /\ wire \o t \in Seq(Frames) /\ Len(wire \o t) = Len(wire) + Len(t)
        /\ \A i \in 1..(Len(wire) + Len(t)) :
             (wire \o t)[i] = IF i <= Len(wire) THEN wire[i] ELSE t[i - Len(wire)]
    BY <1>a, <1>5, ConcatProperties
  <2>2. QED
    BY <1>a, <2>1
<1>7. QED
  BY <1>3, <1>4, <1>5, <1>6 DEF t

(* How many packets have been ended when the wire v has grown to w. *)
LEMMA CountGrows ==
  ASSUME NEW v \in Seq(Frames), NEW w \in Seq(Frames), NEW k \in Nat, Len(w) >= Len(v) + k,
         \A i \in 1..Len(v) : w[i] = v[i],
         \A j \in 1..k : Done(w[Len(v) + j])
  PROVE  /\ \A i \in 0..Len(v) : DoneIn(w, i) = DoneIn(v, i) /\ Cardinality(DoneIn(v, i)) \in Nat
         /\ \A j \in 0..k : Cardinality(DoneIn(w, Len(v) + j)) = Cardinality(DoneIn(v, Len(v))) + j
         /\ Len(w) = Len(v) + k + 1 /\ ~Done(w[Len(w)])
              => Cardinality(DoneIn(w, Len(w))) = Cardinality(DoneIn(v, Len(v))) + k
<1>0. Len(v) \in Nat /\ Len(w) \in Nat
  OBVIOUS
<1>1. ASSUME NEW i \in 0..Len(v)
      PROVE  /\ DoneIn(w, i) = DoneIn(v, i)
             /\ IsFiniteSet(DoneIn(v, i)) /\ Cardinality(DoneIn(v, i)) \in Nat
  <2>1. DoneIn(w, i) = DoneIn(v, i)
    BY <1>0 DEF DoneIn
  <2>2. IsFiniteSet(1..i) /\ DoneIn(v, i) \in SUBSET (1..i)
    BY <1>0, FS_Interval DEF DoneIn
  <2>3. IsFiniteSet(DoneIn(v, i))
    BY <2>2, FS_Subset
  <2>4. QED
    BY <2>1, <2>3, FS_CardinalityType
<1>2. ASSUME NEW j \in 0..k
      PROVE  Cardinality(DoneIn(w, Len(v) + j)) = Cardinality(DoneIn(v, Len(v))) + j
  <2>1. DoneIn(w, Len(v) + j) = DoneIn(v, Len(v)) \cup ((Len(v) + 1)..(Len(v) + j))
    <3>1. ASSUME NEW i \in (Len(v) + 1)..(Len(v) + j) PROVE i \in DoneIn(w, Len(v) + j)
      <4>1. i - Len(v) \in 1..k /\ Len(v) + (i - Len(v)) = i /\ i \in 1..(Len(v) + j)
        BY <1>0
      <4>2. QED
        BY <4>1 DEF DoneIn
    <3>2. \A i \in 1..Len(v) : i \in DoneIn(w, Len(v) + j) <=> i \in DoneIn(v, Len(v))
      BY <1>0 DEF DoneIn
    <3>3. /\ \A i \in DoneIn(w, Len(v) + j) : i \in 1..Len(v) \/ i \in (Len(v) + 1)..(Len(v) + j)
          /\ \A i \in DoneIn(v, Len(v)) : i \in 1..Len(v)
      BY <1>0 DEF DoneIn
    <3>4. QED
      BY <3>1, <3>2, <3>3
  <2>2. /\ IsFiniteSet((Len(v) + 1)..(Len(v) + j))
        /\ Cardinality((Len(v) + 1)..(Len(v) + j)) = j
    <3>1. Len(v) + 1 \in Int /\ Len(v) + j \in Int
      BY <1>0
    <3>2. /\ IsFiniteSet((Len(v) + 1)..(Len(v) + j))
          /\ Cardinality((Len(v) + 1)..(Len(v) + j))
               = IF Len(v) + 1 > Len(v) + j THEN 0 ELSE (Len(v) + j) - (Len(v) + 1) + 1
      BY <3>1, FS_Interval
    <3>3. QED
      BY <1>0, <3>2
  <2>3. DoneIn(v, Len(v)) \cap ((Len(v) + 1)..(Len(v) + j)) = {}
    BY <1>0 DEF DoneIn
  <2>4. IsFiniteSet(DoneIn(v, Len(v))) /\ Cardinality(DoneIn(v, Len(v))) \in Nat
    BY <1>0, <1>1
  <2>5. Cardinality(DoneIn(v, Len(v)) \cup ((Len(v) + 1)..(Len(v) + j)))
          = Cardinality(DoneIn(v, Len(v))) + Cardinality((Len(v) + 1)..(Len(v) + j))
            - Cardinality(DoneIn(v, Len(v)) \cap ((Len(v) + 1)..(Len(v) + j)))
    BY <2>2, <2>4, FS_Union
  <2>6. Cardinality(DoneIn(v, Len(v)) \cap ((Len(v) + 1)..(Len(v) + j))) = 0
    BY <2>3, FS_EmptySet
  <2>7. Cardinality(DoneIn(v, Len(v)) \cup ((Len(v) + 1)..(Len(v) + j)))
          = Cardinality(DoneIn(v, Len(v))) + j
    BY <2>2, <2>4, <2>5, <2>6
  <2>8. QED
    BY <2>1, <2>7
<1>3. ASSUME Len(w) = Len(v) + k + 1, ~Done(w[Len(w)])
      PROVE  Cardinality(DoneIn(w, Len(w))) = Cardinality(DoneIn(v, Len(v))) + k
  <2>1. DoneIn(w, Len(w)) = DoneIn(w, Len(v) + k)
    BY <1>0, <1>3 DEF DoneIn
  <2>2. k \in 0..k
    OBVIOUS
  <2>3. QED
    BY <1>2, <2>1, <2>2
<1>4. QED
  BY <1>1, <1>2, <1>3

-----------------------------------------------------------------------------
(* k whole packets go out and, if m is 1, a part of the next. *)
LEMMA StreamGrows ==
  ASSUME TypeOK, LockStep, StreamOf(wire, accepted, bufferEncryp),
         NEW k \in 0..Len(bufferEncryp), NEW m \in {0, 1}, NEW c \in Seq(Item),
         NEW w \in Seq(Frames), Len(w) = Len(wire) + k + m,
         \A i \in 1..Len(wire) : w[i] = wire[i],
         \A j \in 1..k : w[Len(wire) + j] = Frame(bufferEncryp[j], Left(bufferEncryp[j])),
         m = 1 => /\ k < Len(bufferEncryp)
                  /\ \E n \in 1..(Left(bufferEncryp[k + 1]) - 1) :
                       /\ w[Len(wire) + k + 1] = Frame(bufferEncryp[k + 1], n)
                       /\ c[1].offset = bufferEncryp[k + 1].offset + n,
         Len(c) = Len(bufferEncryp) - k,
         \A i \in 1..Len(c) :
           /\ c[i].pkt = bufferEncryp[k + i].pkt
           /\ m = 0 \/ i # 1 => c[i].offset = bufferEncryp[k + i].offset
  PROVE  StreamOf(w, accepted, c)
<1> DEFINE L == Len(wire)
           B == Len(bufferEncryp)
<1>1. L \in Nat /\ B \in Nat /\ wire \in Seq(Frames) /\ Len(w) \in Nat
  BY DEF TypeOK
<1>2. \A j \in 1..k : j \in 1..B /\ Left(bufferEncryp[j]) \in Nat \ {0} /\ bufferEncryp[j] \in Item
                      /\ Done(w[L + j])
  <2>1. \A j \in 1..k : j \in 1..B /\ Left(bufferEncryp[j]) \in Nat \ {0} /\ bufferEncryp[j] \in Item
    BY <1>1, ItemFacts
  <2>2. ASSUME NEW j \in 1..k PROVE Done(w[L + j])
    <3>1. j \in 1..B /\ Left(bufferEncryp[j]) \in 1..Left(bufferEncryp[j])
      BY <2>1
    <3>2. Done(Frame(bufferEncryp[j], Left(bufferEncryp[j])))
      BY <3>1, FrameFacts
    <3>3. QED
      BY <3>2
  <2>3. QED
    BY <2>1, <2>2
<1>3. ASSUME m = 1
      PROVE  \E n \in Nat : /\ w[L + k + 1] = Frame(bufferEncryp[k + 1], n)
                            /\ c[1].offset = bufferEncryp[k + 1].offset + n
                            /\ ~Done(w[L + k + 1])
  <2>1. PICK n \in 1..(Left(bufferEncryp[k + 1]) - 1) :
                /\ w[L + k + 1] = Frame(bufferEncryp[k + 1], n)
                /\ c[1].offset = bufferEncryp[k + 1].offset + n
    BY <1>3
  <2>2. k + 1 \in 1..B
    BY <1>1, <1>3
  <2>3. Left(bufferEncryp[k + 1]) \in Nat \ {0}
    BY <2>2, ItemFacts
  <2>4. n \in 1..Left(bufferEncryp[k + 1]) /\ n # Left(bufferEncryp[k + 1]) /\ n \in Nat
    BY <2>3
  <2>5. ~Done(Frame(bufferEncryp[k + 1], n))
    BY <2>2, <2>4, FrameFacts
  <2>6. QED
    BY <2>1, <2>4, <2>5
<1>4. /\ \A i \in 0..L : EndIn(w, i) = EndIn(wire, i) /\ EndIn(wire, i) \in Nat
      /\ \A j \in 0..k : EndIn(w, L + j) = EndIn(wire, L) + j
      /\ EndIn(w, Len(w)) = EndIn(wire, L) + k
  <2>1. /\ \A i \in 0..L : DoneIn(w, i) = DoneIn(wire, i) /\ Cardinality(DoneIn(wire, i)) \in Nat
        /\ \A j \in 0..k : Cardinality(DoneIn(w, L + j)) = Cardinality(DoneIn(wire, L)) + j
        /\ Len(w) = L + k + 1 /\ ~Done(w[Len(w)])
              => Cardinality(DoneIn(w, Len(w))) = Cardinality(DoneIn(wire, L)) + k
    <3>1. k \in Nat /\ Len(w) >= L + k /\ \A j \in 1..k : Done(w[L + j])
      BY <1>1, <1>2
    <3>2. QED
      BY <1>1, <3>1, CountGrows
  <2>2. m = 1 => Len(w) = L + k + 1 /\ ~Done(w[Len(w)])
    BY <1>1, <1>3
  <2>3. m = 0 => Len(w) = L + k /\ k \in 0..k
    BY <1>1
  <2>4. QED
    BY <2>1, <2>2, <2>3 DEF EndIn
<1>5. \A i \in 1..(L + 1) : ResumeIn(w, i) = ResumeIn(wire, i)
  <2>1. ASSUME NEW i \in 1..(L + 1) PROVE ResumeIn(w, i) = ResumeIn(wire, i)
    <3>1. i = 1 \/ i - 1 \in 1..L
      BY <1>1
    <3>2. i # 1 => w[i - 1] = wire[i - 1]
      BY <3>1
    <3>3. QED
      BY <3>2 DEF ResumeIn
  <2>2. QED
    BY <2>1
<1>6. \A j \in 1..k : ResumeIn(w, L + j + 1) = 0
  <2>1. ASSUME NEW j \in 1..k PROVE ResumeIn(w, L + j + 1) = 0
    <3>1. (L + j + 1) - 1 = L + j /\ Done(w[L + j])
      BY <1>1, <1>2
    <3>2. QED
      BY <3>1 DEF ResumeIn
  <2>2. QED
    BY <2>1
<1>7. k # 0 => ResumeIn(w, L + k + 1) = 0
  <2>1. k # 0 => k \in 1..k
    BY <1>1
  <2>2. QED
    BY <1>6, <2>1
<1>8. /\ Len(accepted) = EndIn(wire, L) + B
      /\ \A i \in 1..B : bufferEncryp[i].pkt = accepted[EndIn(wire, L) + i]
      /\ \A i \in 1..L : wire[i].from = ResumeIn(wire, i) /\ wire[i].pkt = accepted[EndIn(wire, i-1) + 1]
      /\ \A i \in 1..L : EndIn(wire, i-1) < Len(accepted)
      /\ \A i \in 1..B : bufferEncryp[i].offset = IF i = 1 THEN ResumeIn(wire, L + 1) ELSE 0
      /\ bufferEncryp = <<>> => ResumeIn(wire, L + 1) = 0
  BY DEF StreamOf
<1>9. EndIn(wire, L) \in Nat /\ ResumeIn(w, L + 1) = ResumeIn(wire, L + 1)
  BY <1>1, <1>4, <1>5
<1>10. Len(accepted) = EndIn(w, Len(w)) + Len(c)
  BY <1>1, <1>4, <1>8, <1>9
<1>11. \A i \in 1..Len(c) : c[i].pkt = accepted[EndIn(w, Len(w)) + i]
  <2>1. ASSUME NEW i \in 1..Len(c)
        PROVE  c[i].pkt = accepted[EndIn(w, Len(w)) + i]
    <3>1. k + i \in 1..B
      BY <1>1
    <3>2. bufferEncryp[k + i].pkt = accepted[EndIn(wire, L) + (k + i)]
      BY <1>8, <3>1
    <3>3. EndIn(w, Len(w)) + i = EndIn(wire, L) + (k + i)
      BY <1>4, <1>9
    <3>4. QED
      BY <3>2, <3>3
  <2>2. QED
    BY <2>1
<1>12. ASSUME NEW i \in 1..Len(w)
       PROVE  /\ w[i].from = ResumeIn(w, i) /\ w[i].pkt = accepted[EndIn(w, i-1) + 1]
              /\ EndIn(w, i-1) < Len(accepted)
  <2>1. CASE i \in 1..L
    <3>1. i - 1 \in 0..L /\ i \in 1..(L + 1)
      BY <1>1, <2>1
    <3>2. EndIn(w, i-1) = EndIn(wire, i-1) /\ ResumeIn(w, i) = ResumeIn(wire, i)
      BY <1>4, <1>5, <3>1
    <3>3. QED
      BY <1>8, <2>1, <3>2
  <2>2. ASSUME NEW j \in 1..B, j <= k + 1, i = L + j,
               w[i].from = bufferEncryp[j].offset, w[i].pkt = bufferEncryp[j].pkt
        PROVE  /\ w[i].from = ResumeIn(w, i) /\ w[i].pkt = accepted[EndIn(w, i-1) + 1]
               /\ EndIn(w, i-1) < Len(accepted)
    <3>1. i - 1 = L + (j - 1) /\ j - 1 \in 0..k
      BY <1>1, <2>2
    <3>2. EndIn(w, i-1) + 1 = EndIn(wire, L) + j /\ EndIn(w, i-1) < Len(accepted)
      <4>1. EndIn(w, L + (j - 1)) = EndIn(wire, L) + (j - 1)
        BY <1>4, <3>1
      <4>2. EndIn(w, i - 1) = EndIn(wire, L) + (j - 1)
        BY <3>1, <4>1
      <4>3. QED
        BY <1>1, <1>8, <1>9, <4>2
    <3>3. w[i].pkt = accepted[EndIn(w, i-1) + 1]
      BY <1>8, <2>2, <3>2
    <3>4. CASE j = 1
      BY <1>8, <1>9, <2>2, <3>2, <3>3, <3>4
    <3>5. CASE j # 1
      <4>1. j - 1 \in 1..k /\ i = L + (j - 1) + 1
        BY <1>1, <2>2, <3>5
      <4>2. ResumeIn(w, i) = 0
        BY <1>6, <4>1
      <4>3. QED
        BY <1>8, <2>2, <3>2, <3>3, <3>5, <4>2
    <3>6. QED
      BY <3>4, <3>5
  <2>3. \A h, n : Frame(h, n).from = h.offset /\ Frame(h, n).pkt = h.pkt
    BY DEF Frame
  <2>4. CASE i > L /\ i <= L + k
    <3>1. i - L \in 1..k /\ i = L + (i - L) /\ i - L \in 1..B /\ i - L <= k + 1
      BY <1>1, <2>4
    <3>2. PICK j \in 1..B : j <= k + 1 /\ i = L + j /\ w[i] = Frame(bufferEncryp[j], Left(bufferEncryp[j]))
      BY <3>1
    <3>3. w[i].from = bufferEncryp[j].offset /\ w[i].pkt = bufferEncryp[j].pkt
      BY <2>3, <3>2
    <3>4. QED
      BY <2>2, <3>2, <3>3
  <2>5. CASE i = L + k + 1 /\ m = 1
    <3>1. k + 1 \in 1..B /\ i = L + (k + 1) /\ k + 1 <= k + 1
      BY <1>1, <2>5
    <3>2. PICK n : w[i] = Frame(bufferEncryp[k + 1], n)
      BY <1>3, <2>5
    <3>3. PICK j \in 1..B : j <= k + 1 /\ i = L + j /\ w[i] = Frame(bufferEncryp[j], n)
      BY <3>1, <3>2
    <3>4. w[i].from = bufferEncryp[j].offset /\ w[i].pkt = bufferEncryp[j].pkt
      BY <2>3, <3>3
    <3>5. QED
      BY <2>2, <3>3, <3>4
  <2>6. i \in 1..L \/ (i > L /\ i <= L + k) \/ (i = L + k + 1 /\ m = 1)
    BY <1>1
  <2>7. QED
    BY <2>1, <2>4, <2>5, <2>6
<1>13. m = 1 => ResumeIn(w, Len(w) + 1) = c[1].offset
  <2>1. SUFFICES ASSUME m = 1 PROVE ResumeIn(w, Len(w) + 1) = c[1].offset
    OBVIOUS
  <2>2. PICK n \in Nat : /\ w[L + k + 1] = Frame(bufferEncryp[k + 1], n)
                         /\ c[1].offset = bufferEncryp[k + 1].offset + n
                         /\ ~Done(w[L + k + 1])
    BY <1>3, <2>1
  <2>3. w[L + k + 1].from + w[L + k + 1].len = c[1].offset
    BY <2>2 DEF Frame
  <2>4. (Len(w) + 1) - 1 = L + k + 1 /\ Len(w) + 1 # 1
    BY <1>1, <2>1
  <2>5. QED
    BY <2>2, <2>3, <2>4 DEF ResumeIn
<1>14. m = 0 => ResumeIn(w, Len(w) + 1) = IF k = 0 THEN ResumeIn(wire, L + 1) ELSE 0
  BY <1>1, <1>7, <1>9
<1>15. ASSUME NEW i \in 1..Len(c)
       PROVE  c[i].offset = IF i = 1 THEN ResumeIn(w, Len(w) + 1) ELSE 0
  <2>1. k + i \in 1..B /\ (k + i = 1 <=> k = 0 /\ i = 1)
    BY <1>1
  <2>2. bufferEncryp[k + i].offset = IF k = 0 /\ i = 1 THEN ResumeIn(wire, L + 1) ELSE 0
    BY <1>8, <2>1
  <2>3. CASE m = 1 /\ i = 1
    BY <1>13, <2>3
  <2>4. CASE m = 0 \/ i # 1
    BY <1>14, <2>2, <2>4
  <2>5. QED
    BY <2>3, <2>4
<1>16. c = <<>> => ResumeIn(w, Len(w) + 1) = 0
  <2>1. SUFFICES ASSUME c = <<>> PROVE ResumeIn(w, Len(w) + 1) = 0
    OBVIOUS
  <2>2. k = B /\ m = 0
    BY <1>1, <2>1
  <2>3. k = 0 => bufferEncryp = <<>>
    <3>1. bufferEncryp \in Seq(Item)
      BY DEF TypeOK, Item
    <3>2. QED
      BY <2>2, <3>1, EmptySeq
  <2>4. QED
    BY <1>8, <1>14, <2>2, <2>3
<1>17. QED
  BY <1>10, <1>11, <1>12, <1>15, <1>16 DEF StreamOf

-----------------------------------------------------------------------------
(* The queues after k packets have gone out. *)
LEMMA QueuesShrink ==
  ASSUME TypeOK, LockStep, Once, NEW k \in 0..Len(bufferEncryp), NEW c \in Seq(Item),
         Len(c) = Len(bufferEncryp) - k,
         \A i \in 1..Len(c) : c[i].pkt = bufferEncryp[k + i].pkt /\ c[i].offset < Size[c[i].pkt],
         bufferEncryp' = c, buffer' = From(buffer, k), skipped' = skipped
  PROVE  buffer' \in Seq(Packet) /\ Len(buffer') <= MaxLength /\ LockStep'
<1>1. Cardinality(skipped) \in Nat
  BY FS_CardinalityType DEF Once
<1>2. /\ buffer \in Seq(Packet) /\ Len(buffer) <= MaxLength /\ Len(buffer) \in Nat
      /\ Len(bufferEncryp) \in Nat /\ DOMAIN bufferEncryp = 1..Len(bufferEncryp)
  BY DEF TypeOK
<1>3. /\ Len(buffer) = Len(bufferEncryp) + Cardinality(skipped) /\ k \in 0..Len(buffer)
      /\ \A i \in 1..Len(bufferEncryp) : skipped = {} => buffer[i] = bufferEncryp[i].pkt
  BY <1>1, <1>2 DEF LockStep
<1>4. /\ buffer' \in Seq(Packet) /\ Len(buffer') = Len(buffer) - k
      /\ \A i \in 1..(Len(buffer) - k) : buffer'[i] = buffer[k + i]
  BY <1>2, <1>3, FromFacts
<1>5. Len(buffer') <= MaxLength
  BY <1>2, <1>3, <1>4, WriterAssumption
<1>6. Len(buffer') = Len(bufferEncryp') + Cardinality(skipped')
  <2>1. Len(bufferEncryp') = Len(bufferEncryp) - k /\ Cardinality(skipped') = Cardinality(skipped)
    OBVIOUS
  <2>2. Len(buffer') = Len(buffer) - k /\ Len(buffer) = Len(bufferEncryp) + Cardinality(skipped)
    BY <1>3, <1>4
  <2>3. k \in Int /\ Len(bufferEncryp) \in Int /\ Cardinality(skipped) \in Int
    BY <1>1, <1>2
  <2>4. (Len(bufferEncryp) + Cardinality(skipped)) - k = (Len(bufferEncryp) - k) + Cardinality(skipped)
    BY <2>3
  <2>5. QED
    BY <2>1, <2>2, <2>4, Zenon
<1>7. ASSUME NEW i \in DOMAIN c
      PROVE  c[i].offset < Size[c[i].pkt] /\ (skipped' = {} => buffer'[i] = c[i].pkt)
  <2>1. i \in 1..Len(c) /\ k + i \in 1..Len(bufferEncryp) /\ i \in 1..(Len(buffer) - k)
    BY <1>1, <1>2, <1>3
  <2>2. QED
    BY <1>3, <1>4, <2>1
<1>8. QED
  BY <1>4, <1>5, <1>6, <1>7 DEF LockStep

(* What the whole of BufferWriter::Send does, however it ends. *)
LEMMA SendLoopKeeps ==
  ASSUME TypeOK, LockStep, Stream, Once, SendLoop, UNCHANGED <<accepted, skipped>>
  PROVE  /\ buffer' \in Seq(Packet) /\ Len(buffer') <= MaxLength
         /\ bufferEncryp' \in Seq(Item) /\ wire' \in Seq(Frames)
         /\ writing' \in BOOLEAN /\ conn' \in {"open", "closed", "crashed", conn}
         /\ LockStep' /\ Stream'
         /\ conn' = "open" /\ buffer' # <<>> => writing' \/ conn # "open"
<1>1. bufferEncryp \in Seq(Item) /\ Len(bufferEncryp) \in Nat /\ Len(wire) \in Nat /\ writing \in BOOLEAN
  BY DEF TypeOK, Item
<1>2. PICK k \in 0..Len(bufferEncryp) :
        LET rest == From(bufferEncryp, k)
        IN  /\ buffer' = From(buffer, k)
            /\ \/ /\ bufferEncryp' = rest /\ wire' = wire \o Whole(k)
                  /\ writing' = (From(buffer, k) # <<>>) /\ conn' = conn
               \/ /\ rest # <<>>
                  /\ \E n \in 1..(Left(rest[1]) - 1) :
                       /\ bufferEncryp' = [rest EXCEPT ![1].offset = @ + n]
                       /\ wire' = wire \o Append(Whole(k), Frame(rest[1], n))
                  /\ writing' = TRUE /\ conn' = conn
               \/ /\ rest # <<>> /\ conn' \in {"closed", "crashed"}
                  /\ bufferEncryp' = rest /\ wire' = wire \o Whole(k) /\ writing' = writing
  BY DEF SendLoop
<1> DEFINE rest == From(bufferEncryp, k)
<1>3. /\ rest \in Seq(Item) /\ Len(rest) = Len(bufferEncryp) - k
      /\ \A i \in 1..Len(rest) : rest[i] = bufferEncryp[k + i] /\ k + i \in 1..Len(bufferEncryp)
  <2>1. /\ rest \in Seq(Item) /\ Len(rest) = Len(bufferEncryp) - k
        /\ \A i \in 1..(Len(bufferEncryp) - k) : rest[i] = bufferEncryp[k + i]
    BY <1>1, FromFacts
  <2>2. \A i \in 1..(Len(bufferEncryp) - k) : k + i \in 1..Len(bufferEncryp)
    BY <1>1
  <2> HIDE DEF rest
  <2>3. QED
    BY <2>1, <2>2
<1>4. \A i \in 1..Len(rest) : rest[i].offset < Size[rest[i].pkt] /\ rest[i] \in Item
                              /\ Left(rest[i]) \in Nat \ {0}
  BY <1>3, ItemFacts
<1>5. ASSUME bufferEncryp' = rest, wire' = wire \o Whole(k)
      PROVE  /\ buffer' \in Seq(Packet) /\ Len(buffer') <= MaxLength
             /\ bufferEncryp' \in Seq(Item) /\ wire' \in Seq(Frames) /\ LockStep' /\ Stream'
  <2>1. /\ wire' \in Seq(Frames) /\ Len(wire') = Len(wire) + k + 0
        /\ \A i \in 1..Len(wire) : wire'[i] = wire[i]
        /\ \A j \in 1..k : wire'[Len(wire) + j] = Frame(bufferEncryp[j], Left(bufferEncryp[j]))
    <3>1. /\ wire' \in Seq(Frames) /\ Len(wire') = Len(wire) + k
          /\ \A i \in 1..Len(wire) : wire'[i] = wire[i]
          /\ \A j \in 1..k : wire'[Len(wire) + j] = Frame(bufferEncryp[j], Left(bufferEncryp[j]))
      BY <1>5, WholeFacts
    <3>2. Len(wire) + k = Len(wire) + k + 0
      BY <1>1
    <3>3. QED
      BY <3>1, <3>2
  <2>2. buffer' \in Seq(Packet) /\ Len(buffer') <= MaxLength /\ LockStep'
    BY <1>2, <1>3, <1>4, <1>5, QueuesShrink
  <2>3. StreamOf(wire', accepted, rest)
    <3>1. 0 \in {0, 1} /\ 0 # 1
      OBVIOUS
    <3>2. \A i \in 1..Len(rest) : /\ rest[i].pkt = bufferEncryp[k + i].pkt
                                  /\ rest[i].offset = bufferEncryp[k + i].offset
      BY <1>3
    <3> HIDE DEF rest
    <3>3. QED
      BY <1>3, <2>1, <3>1, <3>2, StreamGrows DEF Stream
  <2>4. QED
    BY <1>3, <1>5, <2>1, <2>2, <2>3 DEF Stream
<1>6. ASSUME rest # <<>>, NEW n \in 1..(Left(rest[1]) - 1),
             bufferEncryp' = [rest EXCEPT ![1].offset = @ + n],
             wire' = wire \o Append(Whole(k), Frame(rest[1], n))
      PROVE  /\ buffer' \in Seq(Packet) /\ Len(buffer') <= MaxLength
             /\ bufferEncryp' \in Seq(Item) /\ wire' \in Seq(Frames) /\ LockStep' /\ Stream'
  <2>1. 1 \in 1..Len(rest) /\ k + 1 \in 1..Len(bufferEncryp) /\ k < Len(bufferEncryp)
        /\ rest[1] = bufferEncryp[k + 1]
    <3>1. Len(rest) \in Nat \ {0}
      BY <1>3, <1>6, EmptySeq
    <3>2. QED
      BY <1>1, <1>3, <3>1
  <2>2. Left(rest[1]) \in Nat \ {0} /\ rest[1] \in Item /\ n \in 1..Left(rest[1]) /\ n \in Nat
    BY <1>4, <2>1
  <2>3. Frame(rest[1], n) \in Frames
    BY <2>1, <2>2, FrameFacts
  <2>4. /\ wire' \in Seq(Frames) /\ Len(wire') = Len(wire) + k + 1
        /\ \A i \in 1..Len(wire) : wire'[i] = wire[i]
        /\ \A j \in 1..k : wire'[Len(wire) + j] = Frame(bufferEncryp[j], Left(bufferEncryp[j]))
        /\ wire'[Len(wire) + k + 1] = Frame(rest[1], n)
    BY <1>6, <2>3, PartFacts
  <2>5. [rest[1] EXCEPT !.offset = @ + n] \in Item
        /\ [rest[1] EXCEPT !.offset = @ + n].offset = rest[1].offset + n
        /\ [rest[1] EXCEPT !.offset = @ + n].pkt = rest[1].pkt
    BY <2>2 DEF Item
  <2> DEFINE h == [rest[1] EXCEPT !.offset = @ + n]
             c == [rest EXCEPT ![1] = h]
  <2>6. bufferEncryp' = c
    BY <1>6
  <2>7. /\ c \in Seq(Item) /\ Len(c) = Len(rest)
        /\ \A j \in 1..Len(rest) : c[j] = IF j = 1 THEN h ELSE rest[j]
    <3> HIDE DEF rest, h
    <3>1. rest \in Seq(Item) /\ 1 \in 1..Len(rest) /\ h \in Item
      BY <1>3, <2>1, <2>5 DEF h
    <3>2. QED
      BY <3>1, ExceptSeq
  <2>8. rest[1].offset + n < Size[rest[1].pkt]
    <3>1. rest[1].offset \in Nat /\ Size[rest[1].pkt] \in Nat
      BY <2>2, WriterAssumption DEF Item
    <3>2. QED
      BY <1>6, <2>2, <3>1 DEF Left
  <2>9. h.offset = rest[1].offset + n /\ h.pkt = rest[1].pkt
    BY <2>5
  <2> HIDE DEF rest, h, c
  <2>10. \A i \in 1..Len(c) : c[i].pkt = bufferEncryp[k + i].pkt /\ c[i].offset < Size[c[i].pkt]
                              /\ (i # 1 => c[i].offset = bufferEncryp[k + i].offset)
    BY <1>3, <1>4, <2>7, <2>8, <2>9
  <2>11. buffer' \in Seq(Packet) /\ Len(buffer') <= MaxLength /\ LockStep'
    BY <1>2, <1>3, <2>6, <2>7, <2>10, QueuesShrink
  <2>12. StreamOf(wire', accepted, c)
    <3>1. 1 \in {0, 1} /\ 1 # 0
      OBVIOUS
    <3>2. k < Len(bufferEncryp)
          /\ \E x \in 1..(Left(bufferEncryp[k + 1]) - 1) :
               /\ wire'[Len(wire) + k + 1] = Frame(bufferEncryp[k + 1], x)
               /\ c[1].offset = bufferEncryp[k + 1].offset + x
      BY <2>1, <2>4, <2>7, <2>9
    <3>3. Len(c) = Len(bufferEncryp) - k
      BY <1>3, <2>7
    <3>4. QED
      BY <2>4, <2>7, <2>10, <3>1, <3>2, <3>3, StreamGrows DEF Stream
  <2>13. QED
    BY <2>4, <2>6, <2>7, <2>11, <2>12 DEF Stream
<1>7. /\ writing' \in BOOLEAN /\ conn' \in {"open", "closed", "crashed", conn}
      /\ conn' = "open" /\ buffer' # <<>> => writing' \/ conn # "open"
  BY <1>1, <1>2
<1>8. QED
  BY <1>2, <1>5, <1>6, <1>7

-----------------------------------------------------------------------------
LEMMA InvInit == Init => IInv
<1> SUFFICES ASSUME Init PROVE IInv
  OBVIOUS
<1>1. TypeOK
  <2>1. Len(buffer) <= MaxLength /\ buffer \in Seq(Packet) /\ accepted \in Seq(Packet)
    BY WriterAssumption DEF Init
  <2>2. bufferEncryp \in Seq([pkt : Packet, offset : Nat]) /\ wire \in Seq(Frames)
    BY DEF Init
  <2>3. QED
    BY <2>1, <2>2 DEF Init, TypeOK
<1>2. IsFiniteSet(skipped) /\ Cardinality(skipped) = 0
  BY FS_EmptySet DEF Init
<1>3. LockStep
  BY <1>2 DEF Init, LockStep
<1>4. EndIn(<<>>, 0) = 0
  <2>1. DoneIn(<<>>, 0) = {}
    BY DEF DoneIn
  <2>2. QED
    BY <2>1, FS_EmptySet DEF EndIn
<1>5. StreamOf(<<>>, <<>>, <<>>)
  BY <1>4 DEF StreamOf, ResumeIn
<1>6. QED
  BY <1>1, <1>2, <1>3, <1>5 DEF Init, IInv, Stream, WaitingIsWatched, Once

(* HandleWrite, in the two steps that call it. *)
LEMMA HandleWriteKeeps ==
  ASSUME IInv, HandleWrite, UNCHANGED <<disconnect, sent, accepted, skipped>>, pc' = "idle"
  PROVE  IInv'
<1> USE DEF IInv, Once
<1>1. CASE conn = "open" /\ disconnect # "locked"
  <2>1. SendLoop
    BY <1>1 DEF HandleWrite
  <2>2. /\ buffer' \in Seq(Packet) /\ Len(buffer') <= MaxLength
        /\ bufferEncryp' \in Seq(Item) /\ wire' \in Seq(Frames)
        /\ writing' \in BOOLEAN /\ conn' \in {"open", "closed", "crashed", conn}
        /\ LockStep' /\ Stream'
        /\ conn' = "open" /\ buffer' # <<>> => writing' \/ conn # "open"
    BY <2>1, SendLoopKeeps
  <2>3. TypeOK'
    BY <1>1, <2>2 DEF TypeOK, Item
  <2>4. WaitingIsWatched'
    BY <1>1, <2>2 DEF WaitingIsWatched
  <2>5. QED
    BY <2>2, <2>3, <2>4
<1>2. CASE ~(conn = "open" /\ disconnect # "locked")
  <2>1. UNCHANGED <<buffer, bufferEncryp, writing, conn, wire>>
    BY <1>2 DEF HandleWrite
  <2>2. QED
    BY <1>2, <2>1 DEF TypeOK, LockStep, Stream, WaitingIsWatched
<1>3. QED
  BY <1>1, <1>2

LEMMA SendKeeps == ASSUME IInv, NEW p \in Packet, SendPacket(p) PROVE IInv'
<1> USE DEF IInv, Once
<1>1. /\ pc' = "flush" /\ sent' = sent \cup {p} /\ p \notin sent
      /\ UNCHANGED <<writing, conn, disconnect, wire>>
  BY DEF SendPacket
<1>2. /\ buffer \in Seq(Packet) /\ Len(buffer) \in Nat /\ bufferEncryp \in Seq(Item)
      /\ Len(bufferEncryp) \in Nat /\ accepted \in Seq(Packet) /\ Len(accepted) \in Nat
      /\ wire \in Seq(Frames) /\ Len(wire) \in Nat
  BY DEF TypeOK, Item
<1>3. WaitingIsWatched'
  BY <1>1 DEF WaitingIsWatched
<1>4. Cardinality(skipped) \in Nat
  BY FS_CardinalityType
<1>5. ASSUME Len(buffer) < MaxLength, buffer' = Append(buffer, p), accepted' = Append(accepted, p),
             bufferEncryp' = Append(bufferEncryp, [pkt |-> p, offset |-> 0]), UNCHANGED skipped
      PROVE  IInv'
  <2> DEFINE h == [pkt |-> p, offset |-> 0]
  <2>1. h \in Item /\ h.pkt = p /\ h.offset = 0 /\ h.offset < Size[h.pkt]
    BY WriterAssumption DEF Item
  <2> HIDE DEF h
  <2>2. /\ buffer' \in Seq(Packet) /\ Len(buffer') = Len(buffer) + 1 /\ buffer'[Len(buffer) + 1] = p
        /\ \A i \in 1..Len(buffer) : buffer'[i] = buffer[i]
    BY <1>2, <1>5
  <2>3. /\ bufferEncryp' \in Seq(Item) /\ Len(bufferEncryp') = Len(bufferEncryp) + 1
        /\ bufferEncryp'[Len(bufferEncryp) + 1] = h
        /\ \A i \in 1..Len(bufferEncryp) : bufferEncryp'[i] = bufferEncryp[i]
        /\ DOMAIN bufferEncryp' = 1..(Len(bufferEncryp) + 1)
    BY <1>2, <1>5, <2>1 DEF h
  <2>4. /\ accepted' \in Seq(Packet) /\ Len(accepted') = Len(accepted) + 1
        /\ accepted'[Len(accepted) + 1] = p
        /\ \A i \in 1..Len(accepted) : accepted'[i] = accepted[i]
    BY <1>2, <1>5
  <2>5. TypeOK'
    BY <1>1, <1>2, <1>5, <2>2, <2>3, <2>4, WriterAssumption DEF TypeOK, Item
  <2>6. LockStep'
    <3>1. /\ Len(buffer) = Len(bufferEncryp) + Cardinality(skipped)
          /\ \A i \in 1..Len(bufferEncryp) :
               /\ bufferEncryp[i].offset < Size[bufferEncryp[i].pkt]
               /\ skipped = {} => buffer[i] = bufferEncryp[i].pkt
      BY <1>2 DEF LockStep
    <3>2. skipped = {} => Len(buffer) = Len(bufferEncryp)
      BY <1>2, <3>1, FS_EmptySet
    <3>3. Len(buffer') = Len(bufferEncryp') + Cardinality(skipped')
      BY <1>2, <1>4, <1>5, <2>2, <2>3, <3>1
    <3>4. ASSUME NEW i \in DOMAIN bufferEncryp'
          PROVE  /\ bufferEncryp'[i].offset < Size[bufferEncryp'[i].pkt]
                 /\ skipped' = {} => buffer'[i] = bufferEncryp'[i].pkt
      <4>1. CASE i \in 1..Len(bufferEncryp)
        BY <1>2, <1>4, <1>5, <2>2, <2>3, <3>1, <4>1
      <4>2. CASE i = Len(bufferEncryp) + 1
        BY <1>2, <1>5, <2>1, <2>2, <2>3, <3>2, <4>2
      <4>3. QED
        BY <1>2, <2>3, <4>1, <4>2
    <3>5. QED
      BY <3>3, <3>4 DEF LockStep
  <2>7. Stream'
    <3>1. EndIn(wire, Len(wire)) \in Nat /\ \A i \in 0..Len(wire) : EndIn(wire, i) \in Nat
      BY <1>2, CountGrows DEF EndIn
    <3>2. StreamOf(wire, accepted, bufferEncryp)
      BY DEF Stream
    <3>3. Len(accepted') = EndIn(wire, Len(wire)) + Len(bufferEncryp')
      BY <1>2, <2>3, <2>4, <3>1, <3>2 DEF StreamOf
    <3>4. \A i \in 1..Len(bufferEncryp') : bufferEncryp'[i].pkt = accepted'[EndIn(wire, Len(wire)) + i]
      <4>1. ASSUME NEW i \in 1..Len(bufferEncryp')
            PROVE  bufferEncryp'[i].pkt = accepted'[EndIn(wire, Len(wire)) + i]
        <5>1. Len(accepted) = EndIn(wire, Len(wire)) + Len(bufferEncryp)
          BY <3>2 DEF StreamOf
        <5>2. CASE i = Len(bufferEncryp) + 1
          <6>1. EndIn(wire, Len(wire)) + i = Len(accepted) + 1
            BY <1>2, <3>1, <5>1, <5>2
          <6>2. QED
            BY <2>1, <2>3, <2>4, <5>2, <6>1
        <5>3. CASE i \in 1..Len(bufferEncryp)
          <6>1. EndIn(wire, Len(wire)) + i \in 1..Len(accepted)
            BY <1>2, <3>1, <5>1, <5>3
          <6>2. bufferEncryp[i].pkt = accepted[EndIn(wire, Len(wire)) + i]
            BY <3>2, <5>3 DEF StreamOf
          <6>3. QED
            BY <2>3, <2>4, <5>3, <6>1, <6>2
        <5>4. QED
          BY <1>2, <2>3, <5>2, <5>3
      <4>2. QED
        BY <4>1
    <3>5. ASSUME NEW i \in 1..Len(wire)
          PROVE  /\ wire[i].from = ResumeIn(wire, i) /\ wire[i].pkt = accepted'[EndIn(wire, i-1) + 1]
                 /\ EndIn(wire, i-1) < Len(accepted')
      <4>1. wire[i].from = ResumeIn(wire, i) /\ wire[i].pkt = accepted[EndIn(wire, i-1) + 1]
        BY <3>2 DEF StreamOf
      <4>2. EndIn(wire, i-1) + 1 \in 1..Len(accepted)
        <5>1. EndIn(wire, i-1) < Len(accepted)
          BY <3>2 DEF StreamOf
        <5>2. i - 1 \in 0..Len(wire)
          BY <1>2
        <5>3. EndIn(wire, i-1) \in Nat
          BY <3>1, <5>2
        <5>4. QED
          BY <1>2, <5>1, <5>3
      <4>3. QED
        <5>1. accepted'[EndIn(wire, i-1) + 1] = accepted[EndIn(wire, i-1) + 1]
          BY <2>4, <4>2
        <5>2. EndIn(wire, i-1) < Len(accepted) /\ EndIn(wire, i-1) \in Nat
          <6>1. i - 1 \in 0..Len(wire)
            BY <1>2
          <6>2. QED
            BY <3>1, <3>2, <6>1 DEF StreamOf
        <5>3. EndIn(wire, i-1) < Len(accepted')
          BY <1>2, <2>4, <5>2
        <5>4. QED
          BY <4>1, <5>1, <5>3
    <3>6. \A i \in 1..Len(bufferEncryp') :
            bufferEncryp'[i].offset = IF i = 1 THEN ResumeIn(wire, Len(wire) + 1) ELSE 0
      <4>1. ASSUME NEW i \in 1..Len(bufferEncryp')
            PROVE  bufferEncryp'[i].offset = IF i = 1 THEN ResumeIn(wire, Len(wire) + 1) ELSE 0
        <5>1. CASE i \in 1..Len(bufferEncryp)
          BY <2>3, <3>2, <5>1 DEF StreamOf
        <5>2. CASE i = Len(bufferEncryp) + 1
          <6>1. i = 1 => bufferEncryp = <<>>
            BY <1>2, <5>2, EmptySeq
          <6>2. i = 1 => ResumeIn(wire, Len(wire) + 1) = 0
            BY <3>2, <6>1 DEF StreamOf
          <6>3. bufferEncryp'[i].offset = 0
            BY <2>1, <2>3, <5>2
          <6>4. QED
            BY <6>2, <6>3
        <5>3. QED
          BY <1>2, <2>3, <5>1, <5>2
      <4>2. QED
        BY <4>1
    <3>7. bufferEncryp' # <<>>
      BY <1>2, <2>3
    <3>8. StreamOf(wire, accepted', bufferEncryp')
      BY <3>3, <3>4, <3>5, <3>6, <3>7 DEF StreamOf
    <3>9. QED
      BY <1>1, <3>8 DEF Stream
  <2>8. QED
    BY <1>1, <1>3, <1>5, <2>5, <2>6, <2>7
<1>6. ASSUME Len(buffer) < MaxLength, p \in Reply, buffer' = Append(buffer, p),
             skipped' = skipped \cup {p}, UNCHANGED <<bufferEncryp, accepted>>
      PROVE  IInv'
  <2>1. IsFiniteSet(skipped') /\ Cardinality(skipped') = Cardinality(skipped) + 1 /\ skipped' # {}
    BY <1>1, <1>6, FS_AddElement
  <2>2. buffer' \in Seq(Packet) /\ Len(buffer') = Len(buffer) + 1
    BY <1>2, <1>6
  <2>3. TypeOK'
    BY <1>1, <1>2, <1>6, <2>2, WriterAssumption DEF TypeOK
  <2>4. LockStep'
    BY <1>2, <1>4, <1>6, <2>1, <2>2 DEF LockStep
  <2>5. Stream'
    BY <1>1, <1>6 DEF Stream
  <2>6. QED
    BY <1>1, <1>3, <1>6, <2>1, <2>3, <2>4, <2>5
<1>7. ASSUME UNCHANGED <<buffer, bufferEncryp, accepted, skipped>> PROVE IInv'
  BY <1>1, <1>3, <1>7 DEF TypeOK, LockStep, Stream
<1>8. QED
  BY <1>5, <1>6, <1>7 DEF SendPacket

LEMMA InvStep == IInv /\ [Next]_vars => IInv'
<1> SUFFICES ASSUME IInv, [Next]_vars PROVE IInv'
  OBVIOUS
<1>1. ASSUME NEW p \in Packet, SendPacket(p) PROVE IInv'
  BY <1>1, SendKeeps
<1>2. CASE Flush \/ Writable
  BY <1>2, HandleWriteKeeps DEF Flush, Writable
<1>3. CASE DisconnectLock \/ DisconnectQueue \/ CloseConnection
  BY <1>3 DEF DisconnectLock, DisconnectQueue, CloseConnection, IInv, TypeOK, LockStep, Stream,
     WaitingIsWatched, Once
<1>4. CASE UNCHANGED vars
  BY <1>4 DEF vars, IInv, TypeOK, LockStep, Stream, WaitingIsWatched, Once
<1>5. QED
  BY <1>1, <1>2, <1>3, <1>4 DEF Next

THEOREM Invariance == Spec => []IInv
  BY InvInit, InvStep, PTL DEF Spec

(* The writer's state keeps its types and buffer_ its bound (BufferWriter.h). *)
THEOREM TypeCorrect == Spec => []TypeOK
<1>1. IInv => TypeOK
  BY DEF IInv
<1>2. QED
  BY <1>1, Invariance, PTL

(* buffer_ and bufferEncryp_, tested, sent from and popped together, hold the *)
(* same packets until a reply could not be encrypted, and differ by exactly   *)
(* the number of such replies afterwards (BufferWriter.cpp:62-119).           *)
THEOREM QueuesAgree == Spec => []LockStep
<1>1. IInv => LockStep
  BY DEF IInv
<1>2. QED
  BY <1>1, Invariance, PTL

(* For packets of any size, cut by partial sends anywhere, the frames carry   *)
(* the accepted packets in order, complete and once (BufferWriter.cpp:121).   *)
THEOREM WireCarriesAccepted == Spec => []NothingLostOrRepeated
<1>1. ASSUME IInv PROVE NothingLostOrRepeated
  <2>1. \A i : Ended(i) = EndIn(wire, i)
    BY DEF Ended, EndIn, DoneIn
  <2>2. \A i : Resume(i) = ResumeIn(wire, i)
    BY DEF Resume, ResumeIn
  <2>3. /\ bufferEncryp \in Seq(Item) /\ Len(bufferEncryp) \in Nat /\ wire \in Seq(Frames)
        /\ accepted \in Seq(Packet) /\ Len(accepted) \in Nat /\ Len(wire) \in Nat
        /\ DOMAIN wire = 1..Len(wire) /\ DOMAIN bufferEncryp = 1..Len(bufferEncryp)
    BY <1>1 DEF IInv, TypeOK, Item
  <2>4. StreamOf(wire, accepted, bufferEncryp)
    BY <1>1 DEF IInv, Stream
  <2> DEFINE gone == EndIn(wire, Len(wire))
             pkts == [i \in 1..Len(bufferEncryp) |-> bufferEncryp[i].pkt]
  <2>5. gone \in Nat /\ Len(accepted) = gone + Len(bufferEncryp) /\ gone \in 0..Len(accepted)
        /\ \A i \in 1..Len(bufferEncryp) : bufferEncryp[i].pkt = accepted[gone + i]
    <3>1. gone \in Nat
      BY <2>3, CountGrows DEF EndIn
    <3>2. QED
      BY <2>3, <2>4, <3>1 DEF StreamOf
  <2>6. pkts \in Seq(Packet) /\ Len(pkts) = Len(bufferEncryp)
        /\ \A i \in 1..Len(bufferEncryp) : pkts[i] = bufferEncryp[i].pkt
    <3>1. \A i \in 1..Len(bufferEncryp) : bufferEncryp[i].pkt \in Packet
      <4>1. \A i \in 1..Len(bufferEncryp) : bufferEncryp[i] \in Item
        BY <2>3
      <4>2. \A h \in Item : h.pkt \in Packet
        BY DEF Item
      <4>3. QED
        BY <4>1, <4>2
    <3>2. QED
      BY <2>3, <3>1
  <2> HIDE DEF gone
  <2>7. /\ From(accepted, gone) \in Seq(Packet) /\ Len(From(accepted, gone)) = Len(accepted) - gone
        /\ \A i \in 1..(Len(accepted) - gone) : From(accepted, gone)[i] = accepted[gone + i]
    BY <2>3, <2>5, FromFacts
  <2>8. pkts = From(accepted, gone)
    <3>1. Len(pkts) = Len(From(accepted, gone))
          /\ \A i \in 1..Len(pkts) : pkts[i] = From(accepted, gone)[i]
      BY <2>3, <2>5, <2>6, <2>7
    <3> HIDE DEF pkts
    <3>2. QED
      BY <2>6, <2>7, <3>1, SeqEqual
  <2>9. bufferEncryp # <<>> => bufferEncryp[1].offset = ResumeIn(wire, Len(wire) + 1)
    <3>1. bufferEncryp # <<>> => 1 \in 1..Len(bufferEncryp)
      BY <2>3, EmptySeq
    <3>2. QED
      BY <2>4, <3>1 DEF StreamOf
  <2>10. QED
    BY <2>1, <2>2, <2>3, <2>4, <2>8, <2>9 DEF NothingLostOrRepeated, StreamOf, gone
<1>2. QED
  BY <1>1, Invariance, PTL

(* Data never waits unwatched, but for a Disconnect that made HandleWrite's   *)
(* try_lock fail (TcpConnection.cpp:161-184).                                 *)
THEOREM WaitingDataIsWatched == Spec => []WaitingIsWatched
<1>1. IInv => WaitingIsWatched
  BY DEF IInv
<1>2. QED
  BY <1>1, Invariance, PTL

=============================================================================
