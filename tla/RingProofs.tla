------------------------------ MODULE RingProofs ------------------------------
(***************************************************************************)
(* Lemmas about SerialRing for every capacity and frame length: push puts  *)
(* bytes behind those that wait, and pop_frame takes the first frame and   *)
(* what precedes it, wherever the indices wrap.                            *)
(***************************************************************************)
EXTENDS SerialRing, Integers, SequenceTheorems, WellFoundedInduction, TLAPS

-----------------------------------------------------------------------------
(* The ring                                                                *)

LEMMA MaskProperties ==
  ASSUME NEW i \in 0 .. 2 * Capacity - 1
  PROVE  Mask(i) \in Slots /\ (Mask(i) = i \/ Mask(i) = i - Capacity)
BY CapacityAssumption DEF Mask, Slots

\* The arithmetic of two indices, proved once for numbers.
LEMMA SizeProperties ==
  ASSUME NEW ring \in Rings
  PROVE  /\ Size(ring) \in 0 .. Capacity - 1
         /\ Size(ring) = IF ring.head <= ring.tail THEN ring.tail - ring.head
                                                   ELSE ring.tail + Capacity - ring.head
BY CapacityAssumption DEF Size, Mask, Slots, Rings

LEMMA AtProperties ==
  ASSUME NEW ring \in Rings, NEW i \in 0 .. Capacity - 1
  PROVE  At(ring, i) \in Bytes
<1>1. ring.head + i \in 0 .. 2 * Capacity - 1
  BY CapacityAssumption DEF Rings, Slots
<1> QED
  BY <1>1, MaskProperties DEF At, Rings

\* The waiting bytes as a sequence.
LEMMA ContentsProperties ==
  ASSUME NEW ring \in Rings
  PROVE  /\ Contents(ring) \in Seq(Bytes) /\ Len(Contents(ring)) = Size(ring)
         /\ \A i \in 1 .. Size(ring) : Contents(ring)[i] = At(ring, i - 1)
<1>1. Size(ring) \in 0 .. Capacity - 1
  BY SizeProperties
<1>2. ASSUME NEW i \in 1 .. Size(ring) PROVE At(ring, i - 1) \in Bytes
  <2>1. i - 1 \in 0 .. Capacity - 1
    BY <1>1, <1>2, CapacityAssumption
  <2> QED
    BY <2>1, AtProperties
<1>3. Contents(ring) \in [1 .. Size(ring) -> Bytes]
  BY <1>2 DEF Contents
<1>4. Contents(ring) \in Seq(Bytes) /\ Len(Contents(ring)) = Size(ring)
  BY <1>1, <1>3
<1> QED
  BY <1>4 DEF Contents

LEMMA ResetEmpties ==
  ASSUME NEW ring \in Rings
  PROVE  Reset(ring) \in Rings /\ Contents(Reset(ring)) = <<>>
<1>1. Reset(ring) \in Rings /\ Reset(ring).head = 0 /\ Reset(ring).tail = 0
  <2>1. 0 \in Slots
    BY CapacityAssumption DEF Slots
  <2> QED
    BY <2>1, Zenon DEF Reset, Rings
<1>2. Size(Reset(ring)) = 0
  BY <1>1, SizeProperties
<1> QED
  BY <1>1, <1>2, ContentsProperties, EmptySeq

LEMMA AcceptedProperties ==
  ASSUME NEW ring \in Rings, NEW len \in Nat
  PROVE  /\ Accepted(ring, len) \in 0 .. len
         /\ Size(ring) + Accepted(ring, len) <= Capacity - 1
         /\ Accepted(ring, len) = len \/ Accepted(ring, len) < len
BY SizeProperties, CapacityAssumption DEF Accepted

\* Where a byte is relative to the write index: the waiting bytes lie at its far side,
\* and the slots written next follow it.
LEMMA SlotOffsets ==
  ASSUME NEW ring \in Rings
  PROVE  /\ \A i \in 0 .. Size(ring) - 1 :
              Mask(Mask(ring.head + i) + Capacity - ring.tail) = Capacity - Size(ring) + i
         /\ \A j \in 0 .. Capacity - Size(ring) - 1 :
              /\ Mask(ring.head + (Size(ring) + j)) = Mask(ring.tail + j)
              /\ Mask(Mask(ring.tail + j) + Capacity - ring.tail) = j
<1>1. ring.head \in 0 .. Capacity - 1 /\ ring.tail \in 0 .. Capacity - 1
  BY DEF Rings, Slots
<1> DEFINE h == ring.head
           t == ring.tail
<1> HIDE DEF h, t
<1>2. /\ h \in 0 .. Capacity - 1 /\ t \in 0 .. Capacity - 1
      /\ Size(ring) = IF h <= t THEN t - h ELSE t + Capacity - h
  BY <1>1, SizeProperties DEF h, t
<1>3. ASSUME NEW i \in 0 .. Size(ring) - 1
      PROVE  Mask(Mask(h + i) + Capacity - t) = Capacity - Size(ring) + i
  BY <1>2, <1>3, CapacityAssumption DEF Mask
<1>4. ASSUME NEW j \in 0 .. Capacity - Size(ring) - 1
      PROVE  /\ Mask(h + (Size(ring) + j)) = Mask(t + j)
             /\ Mask(Mask(t + j) + Capacity - t) = j
  BY <1>2, <1>4, CapacityAssumption DEF Mask
<1> QED
  BY <1>3, <1>4, Zenon DEF h, t

\* push: what waits stays, and the bytes that fit follow it.
LEMMA PushAppends ==
  ASSUME NEW ring \in Rings, NEW src \in Seq(Bytes)
  PROVE  LET n == Accepted(ring, Len(src))
             after == Push(ring, src)
         IN  /\ after \in Rings
             /\ Size(after) = Size(ring) + n
             /\ \A i \in 1 .. Size(ring) : Contents(after)[i] = Contents(ring)[i]
             /\ \A j \in 1 .. n : Contents(after)[Size(ring) + j] = src[j]
<1> DEFINE n == Accepted(ring, Len(src))
           after == Push(ring, src)
           offset(slot) == Mask(slot + Capacity - ring.tail)
           written == [slot \in Slots |-> IF offset(slot) < n THEN src[offset(slot) + 1]
                                                              ELSE ring.buf[slot]]
<1>0. n \in 0 .. Len(src) /\ Len(src) \in Nat
  BY AcceptedProperties, LenProperties
<1>1. n \in Nat /\ n <= Capacity - 1 - Size(ring) /\ Size(ring) \in 0 .. Capacity - 1
  <2>1. Size(ring) + n <= Capacity - 1 /\ n \in Nat
    BY <1>0, AcceptedProperties
  <2> QED
    BY <2>1, SizeProperties, CapacityAssumption
<1>2. after = [ring EXCEPT !.buf = written, !.tail = Mask(ring.tail + n)]
  BY DEF Push
<1>3. ring.head \in 0 .. Capacity - 1 /\ ring.tail \in 0 .. Capacity - 1
  BY DEF Rings, Slots
<1> HIDE DEF n, after
<1>4. Mask(ring.tail + n) \in Slots
  <2>1. ring.tail + n \in 0 .. 2 * Capacity - 1
    BY <1>1, <1>3, CapacityAssumption
  <2> QED
    BY <2>1, MaskProperties
<1>5. written \in [Slots -> Bytes]
  <2>1. ASSUME NEW slot \in Slots, offset(slot) < n PROVE src[offset(slot) + 1] \in Bytes
    <3>1. offset(slot) \in Nat
      BY <1>3, CapacityAssumption DEF Slots, Mask
    <3>2. offset(slot) + 1 \in 1 .. Len(src)
      BY <1>0, <2>1, <3>1
    <3> QED
      BY <3>2, ElementOfSeq
  <2> QED
    BY <2>1 DEF Rings
<1>6. after \in Rings /\ after.head = ring.head /\ after.tail = Mask(ring.tail + n) /\ after.buf = written
  BY <1>2, <1>4, <1>5, Zenon DEF Rings
<1>7. Size(after) = Size(ring) + n
  <2> DEFINE h == ring.head
             u == ring.tail
             u1 == Mask(u + n)
  <2>1. /\ u1 = (IF u + n < Capacity THEN u + n ELSE (u + n) - Capacity)
        /\ Size(ring) = IF h <= u THEN u - h ELSE u + Capacity - h
        /\ Size(after) = IF h <= u1 THEN u1 - h ELSE u1 + Capacity - h
    <3>1. u1 = IF u + n < Capacity THEN u + n ELSE (u + n) - Capacity
      BY DEF Mask
    <3>2. Size(after) = IF after.head <= after.tail THEN after.tail - after.head
                                                    ELSE after.tail + Capacity - after.head
      BY <1>6, SizeProperties
    <3> QED
      BY <1>6, <3>1, <3>2, SizeProperties, Zenon
  <2>2. h \in 0 .. Capacity - 1 /\ u \in 0 .. Capacity - 1
    BY <1>3
  <2> HIDE DEF h, u, u1
  <2> QED
    BY <1>1, <2>1, <2>2, CapacityAssumption
<1>8. ASSUME NEW i \in 0 .. Size(ring) - 1 PROVE At(after, i) = At(ring, i)
  <2>1. ring.head + i \in 0 .. 2 * Capacity - 1
    BY <1>1, <1>3, CapacityAssumption
  <2>2. Mask(ring.head + i) \in Slots
    BY <2>1, MaskProperties
  <2>3. offset(Mask(ring.head + i)) = Capacity - Size(ring) + i
    BY SlotOffsets
  <2>4. ~(Capacity - Size(ring) + i < n)
    BY <1>1, CapacityAssumption
  <2>5. written[Mask(ring.head + i)] = ring.buf[Mask(ring.head + i)]
    BY <2>2, <2>3, <2>4
  <2> QED
    BY <1>6, <2>5, Zenon DEF At
<1>9. ASSUME NEW j \in 0 .. n - 1 PROVE At(after, Size(ring) + j) = src[j + 1]
  <2>1. j \in 0 .. Capacity - Size(ring) - 1 /\ ring.tail + j \in 0 .. 2 * Capacity - 1 /\ j < n
    BY <1>1, <1>3, CapacityAssumption
  <2>2. Mask(ring.tail + j) \in Slots
    BY <2>1, MaskProperties
  <2>3. Mask(ring.head + (Size(ring) + j)) = Mask(ring.tail + j) /\ offset(Mask(ring.tail + j)) = j
    BY <2>1, SlotOffsets
  <2>4. written[Mask(ring.tail + j)] = src[j + 1]
    BY <2>1, <2>2, <2>3
  <2> QED
    BY <1>6, <2>3, <2>4, Zenon DEF At
<1>10. ASSUME NEW i \in 1 .. Size(ring) PROVE Contents(after)[i] = Contents(ring)[i]
  <2>1. i - 1 \in 0 .. Size(ring) - 1 /\ i \in 1 .. Size(after)
    BY <1>1, <1>7
  <2> QED
    BY <1>6, <1>8, <2>1, ContentsProperties
<1>11. ASSUME NEW j \in 1 .. n PROVE Contents(after)[Size(ring) + j] = src[j]
  <2>1. /\ j - 1 \in 0 .. n - 1 /\ Size(ring) + j \in 1 .. Size(after)
        /\ (Size(ring) + j) - 1 = Size(ring) + (j - 1) /\ (j - 1) + 1 = j
    BY <1>1, <1>7
  <2>2. Contents(after)[Size(ring) + j] = At(after, Size(ring) + (j - 1))
    BY <1>6, <2>1, ContentsProperties
  <2>3. At(after, Size(ring) + (j - 1)) = src[(j - 1) + 1]
    BY <1>9, <2>1, Zenon
  <2> QED
    BY <2>1, <2>2, <2>3
<1> QED
  BY <1>6, <1>7, <1>10, <1>11, Zenon DEF n, after

-----------------------------------------------------------------------------
(* The scan for a frame                                                    *)

\* A set of natural numbers has a least element.
LEMMA LeastElement ==
  ASSUME NEW T, T \subseteq Nat, T # {}
  PROVE  \E x \in T : \A y \in T : x <= y
<1> DEFINE R == OpToRel(<, Nat)
<1>1. IsWellFoundedOn(R, Nat)
  BY NatLessThanWellFounded, Zenon DEF OpToRel
<1>2. \A x, y \in Nat : y < x => <<y, x>> \in R
  BY DEF OpToRel
<1> HIDE DEF R
<1>3. PICK x \in T : \A y \in T : ~ (<<y, x>> \in R)
  BY <1>1, WFMin
<1>4. \A y \in T : ~(y < x)
  BY <1>2, <1>3
<1> QED
  BY <1>4

\* What the scan finds is a frame in the ring, and the first one.
LEMMA FirstIsStart ==
  ASSUME NEW ring \in Rings, HasFrame(ring)
  PROVE  First(ring) \in Starts(ring) /\ \A t \in Starts(ring) : First(ring) <= t
<1>1. Starts(ring) \subseteq Nat
  BY CapacityAssumption DEF Starts
<1>2. \E s \in Starts(ring) : \A t \in Starts(ring) : s <= t
  BY <1>1, LeastElement DEF HasFrame
<1> QED
  BY <1>2, Zenon DEF First

LEMMA StartProperties ==
  ASSUME NEW ring \in Rings, HasFrame(ring)
  PROVE  First(ring) \in Nat /\ First(ring) + FrameLen <= Size(ring)
BY FirstIsStart, CapacityAssumption DEF Starts

\* Taking bytes away at the read index moves every other byte forward.
LEMMA AfterSkip ==
  ASSUME NEW ring \in Rings, NEW k \in 0 .. Size(ring), NEW after \in Rings,
         after.buf = ring.buf, after.tail = ring.tail, after.head = Mask(ring.head + k)
  PROVE  /\ Size(after) = Size(ring) - k
         /\ \A i \in 0 .. Size(ring) - k - 1 : At(after, i) = At(ring, k + i)
<1> DEFINE h == ring.head
           t == ring.tail
           h1 == after.head
<1>1. /\ h \in 0 .. Capacity - 1 /\ t \in 0 .. Capacity - 1
      /\ Size(ring) \in 0 .. Capacity - 1
  BY SizeProperties DEF Rings, Slots
<1>2. /\ h1 = (IF h + k < Capacity THEN h + k ELSE (h + k) - Capacity)
      /\ Size(ring) = (IF h <= t THEN t - h ELSE t + Capacity - h)
  <2>1. Mask(h + k) = IF h + k < Capacity THEN h + k ELSE (h + k) - Capacity
    BY DEF Mask
  <2> QED
    BY <2>1, SizeProperties, Zenon
<1>3. Size(after) = (IF h1 <= t THEN t - h1 ELSE t + Capacity - h1)
  BY SizeProperties, Zenon
<1>4. after.buf = ring.buf
  OBVIOUS
<1>5. k \in 0 .. Size(ring)
  OBVIOUS
<1> HIDE DEF h, t, h1
<1>6. Size(after) = Size(ring) - k
  BY <1>1, <1>2, <1>3, <1>5, CapacityAssumption
<1>7. ASSUME NEW i \in 0 .. Size(ring) - k - 1 PROVE Mask(h1 + i) = Mask(h + (k + i))
  BY <1>1, <1>2, <1>5, <1>7, CapacityAssumption DEF Mask
<1>8. ASSUME NEW i \in 0 .. Size(ring) - k - 1 PROVE At(after, i) = At(ring, k + i)
  BY <1>4, <1>7, <1>8, Zenon DEF At, h, h1
<1> QED
  BY <1>6, <1>8

\* pop_frame with a frame: the frame and what precedes it leave, the rest stays.
LEMMA PopTakes ==
  ASSUME NEW ring \in Rings, HasFrame(ring)
  PROVE  LET k == First(ring) + FrameLen
             after == AfterPop(ring)
         IN  /\ after \in Rings /\ k \in FrameLen .. Size(ring)
             /\ Size(after) = Size(ring) - k
             /\ \A i \in 1 .. Size(ring) - k : Contents(after)[i] = Contents(ring)[k + i]
             /\ \A i \in 1 .. FrameLen : PoppedFrame(ring)[i] = Contents(ring)[First(ring) + i]
<1> DEFINE f == First(ring)
           k == f + FrameLen
           after == AfterPop(ring)
<1>1. /\ f \in Nat /\ FrameLen \in Nat /\ FrameLen >= 4 /\ f + FrameLen <= Size(ring)
      /\ Size(ring) \in 0 .. Capacity - 1
  BY StartProperties, SizeProperties, FrameLenAssumption
<1>2. ring.head \in 0 .. Capacity - 1
  BY DEF Rings, Slots
<1>3. after = [ring EXCEPT !.head = Mask(Mask(ring.head + f) + FrameLen)]
  BY DEF AfterPop
<1> HIDE DEF f, after
<1>4. Mask(Mask(ring.head + f) + FrameLen) = Mask(ring.head + k)
  BY <1>1, <1>2, CapacityAssumption DEF Mask
<1>5. Mask(ring.head + k) \in Slots
  BY <1>1, <1>2, CapacityAssumption, MaskProperties
<1>6. /\ after \in Rings /\ after.buf = ring.buf /\ after.tail = ring.tail
      /\ after.head = Mask(ring.head + k)
  BY <1>3, <1>4, <1>5, Zenon DEF Rings
<1>7. k \in FrameLen .. Size(ring) /\ k \in 0 .. Size(ring)
  BY <1>1
<1> HIDE DEF k
<1>8. /\ Size(after) = Size(ring) - k
      /\ \A i \in 0 .. Size(ring) - k - 1 : At(after, i) = At(ring, k + i)
  BY <1>6, <1>7, AfterSkip
<1>9. ASSUME NEW i \in 1 .. Size(ring) - k PROVE Contents(after)[i] = Contents(ring)[k + i]
  <2>1. /\ i - 1 \in 0 .. Size(ring) - k - 1 /\ k + i \in 1 .. Size(ring)
        /\ (k + i) - 1 = k + (i - 1) /\ i \in 1 .. Size(after)
    BY <1>1, <1>7, <1>8, <1>9
  <2> QED
    BY <1>6, <1>8, <2>1, ContentsProperties
<1>10. ASSUME NEW i \in 1 .. FrameLen PROVE PoppedFrame(ring)[i] = Contents(ring)[f + i]
  <2>1. f + i \in 1 .. Size(ring)
    BY <1>1, <1>10
  <2>2. PoppedFrame(ring)[i] = At(ring, (f + i) - 1)
    <3>1. f + i - 1 = (f + i) - 1
      BY <1>1, <1>10
    <3> QED
      BY <1>10, <3>1, Zenon DEF PoppedFrame, f
  <2> QED
    BY <2>1, <2>2, ContentsProperties
<1> QED
  BY <1>6, <1>7, <1>8, <1>9, <1>10, Zenon DEF k, f, after

===============================================================================
