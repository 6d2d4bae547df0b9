------------------------------ MODULE SerialRing ------------------------------
(***************************************************************************)
(* SerialRingBuffer, the circular byte buffer between the serial port and  *)
(* the AT-frame parser, as a value and operators on it.                    *)
(***************************************************************************)
EXTENDS Naturals, Sequences

CONSTANTS
  Capacity,  \* CAPACITY, 512 in the code
  FrameLen,  \* length of an AT frame, 17 in the code
  Bytes      \* byte values: 0 fills the buffer at first, A, T, CR and LF frame a message

ASSUME CapacityAssumption == Capacity \in Nat /\ Capacity > 1
ASSUME FrameLenAssumption == FrameLen \in Nat /\ FrameLen >= 4
ASSUME BytesAssumption == {"0", "A", "T", "CR", "LF"} \subseteq Bytes

Slots == 0 .. Capacity - 1

Rings == [buf : [Slots -> Bytes], head : Slots, tail : Slots]

\* Mutant: the index wraps one slot too late.
MaskLate(i) == IF i <= Capacity THEN i ELSE i - Capacity

\* i & (CAPACITY - 1), for the indices below 2 * CAPACITY the code forms.
Mask(i) == IF i < Capacity THEN i ELSE i - Capacity

Size(ring) == Mask(ring.tail + Capacity - ring.head)

Reset(ring) == [ring EXCEPT !.head = 0, !.tail = 0]

\* The i-th waiting byte, from 0.
At(ring, i) == ring.buf[Mask(ring.head + i)]

Contents(ring) == [i \in 1 .. Size(ring) |-> At(ring, i - 1)]

\* Mutant: no slot stays unused, so a full ring looks empty.
AcceptedToTheLast(ring, len) ==
  LET space == Capacity - Size(ring)
  IN  IF len > space THEN space ELSE len

\* How many of len bytes still fit: one slot stays unused.
Accepted(ring, len) ==
  LET space == Capacity - Size(ring) - 1
  IN  IF len > space THEN space ELSE len

\* push: the bytes that fit are stored, the rest are dropped.
Push(ring, src) ==
  LET n == Accepted(ring, Len(src))
      offset(slot) == Mask(slot + Capacity - ring.tail)
  IN  [ring EXCEPT !.buf = [slot \in Slots |-> IF offset(slot) < n
                                                 THEN src[offset(slot) + 1]
                                                 ELSE @[slot]],
                   !.tail = Mask(ring.tail + n)]

\* Mutant: the scan trusts the leading AT.
StartsWithoutTail(ring) ==
  {s \in 0 .. Capacity - 1 :
     s + FrameLen <= Size(ring) /\ At(ring, s) = "A" /\ At(ring, s + 1) = "T"}

\* Mutant: the scan wants a byte behind the frame.
StartsShort(ring) ==
  {s \in 0 .. Capacity - 1 :
     /\ s + FrameLen < Size(ring)
     /\ At(ring, s) = "A" /\ At(ring, s + 1) = "T"
     /\ At(ring, s + FrameLen - 2) = "CR" /\ At(ring, s + FrameLen - 1) = "LF"}

\* pop_frame's scan: where a complete frame could begin.
Starts(ring) ==
  {s \in 0 .. Capacity - 1 :
     /\ s + FrameLen <= Size(ring)
     /\ At(ring, s) = "A" /\ At(ring, s + 1) = "T"
     /\ At(ring, s + FrameLen - 2) = "CR" /\ At(ring, s + FrameLen - 1) = "LF"}

HasFrame(ring) == Starts(ring) # {}

First(ring) == CHOOSE s \in Starts(ring) : \A t \in Starts(ring) : s <= t

PoppedFrame(ring) == [i \in 1 .. FrameLen |-> At(ring, First(ring) + i - 1)]

\* Mutant: an incomplete frame is thrown away instead of being waited for.
AfterPopDiscards(ring) ==
  IF HasFrame(ring)
    THEN [ring EXCEPT !.head = Mask(Mask(@ + First(ring)) + FrameLen)]
    ELSE Reset(ring)

\* Garbage before the frame and the frame itself are consumed; without a frame
\* nothing is.
AfterPop(ring) ==
  IF HasFrame(ring)
    THEN [ring EXCEPT !.head = Mask(Mask(@ + First(ring)) + FrameLen)]
    ELSE ring
===============================================================================
