----------------------------- MODULE SerialProofs -----------------------------
(***************************************************************************)
(* Theorems about SerialTransport for every capacity, frame length, chunk  *)
(* size, set of messages, noise and backlog.                               *)
(***************************************************************************)
EXTENDS SerialTransport, RingProofs

-----------------------------------------------------------------------------
(* Messages, frames and chunks                                             *)

\* The part of a sequence behind its first k elements, up to element b.
LEMMA Part ==
  ASSUME NEW S, NEW s \in Seq(S), NEW b \in 0 .. Len(s), NEW k \in 0 .. b
  PROVE  /\ SubSeq(s, k + 1, b) \in Seq(S) /\ Len(SubSeq(s, k + 1, b)) = b - k
         /\ \A i \in 1 .. b - k : SubSeq(s, k + 1, b)[i] = s[k + i]
<1>1. b \in Nat /\ k \in Nat /\ k <= b
  OBVIOUS
<1>2. \A i \in k + 1 .. b : s[i] \in S
  <2>1. \A i \in k + 1 .. b : i \in 1 .. Len(s)
    BY LenProperties
  <2> QED
    BY <2>1, ElementOfSeq
<1> DEFINE a == k + 1
           q == SubSeq(s, a, b)
<1>3. a \in Int /\ b \in Int /\ \A i \in a .. b : s[i] \in S
  BY <1>1, <1>2
<1> HIDE DEF a
<1>4. /\ q \in Seq(S) /\ Len(q) = (IF a <= b THEN b - a + 1 ELSE 0)
      /\ \A i \in 1 .. b - a + 1 : q[i] = s[a + i - 1]
  BY <1>3, SubSeqProperties
<1> HIDE DEF q
<1>5. /\ b - a + 1 = b - k /\ (a <= b \/ b - k = 0)
      /\ \A i \in 1 .. b - k : a + i - 1 = k + i
  BY <1>1 DEF a
<1>6. Len(q) = b - k /\ \A i \in 1 .. b - k : q[i] = s[k + i]
  BY <1>4, <1>5, Zenon
<1> QED
  BY <1>4, <1>6, Zenon DEF q, a

\* A message in its frame.
LEMMA FramedProperties ==
  ASSUME NEW m \in Seq(Bytes), Len(m) = FrameLen - 4
  PROVE  /\ Framed(m) \in Seq(Bytes) /\ Len(Framed(m)) = FrameLen
         /\ Framed(m)[1] = "A" /\ Framed(m)[2] = "T"
         /\ Framed(m)[FrameLen - 1] = "CR" /\ Framed(m)[FrameLen] = "LF"
         /\ \A i \in 1 .. FrameLen - 4 : Framed(m)[i + 2] = m[i]
<1> DEFINE head == <<"A", "T">>
           tail == <<"CR", "LF">>
           front == head \o m
<1>1. /\ head \in Seq(Bytes) /\ Len(head) = 2 /\ head[1] = "A" /\ head[2] = "T"
      /\ tail \in Seq(Bytes) /\ Len(tail) = 2 /\ tail[1] = "CR" /\ tail[2] = "LF"
  BY BytesAssumption
<1>2. Framed(m) = front \o tail
  BY DEF Framed
<1> HIDE DEF head, tail
<1>3. FrameLen \in Nat /\ FrameLen >= 4 /\ Len(m) = FrameLen - 4
  BY FrameLenAssumption
<1>4. /\ front \in Seq(Bytes) /\ Len(front) = FrameLen - 2
      /\ \A i \in 1 .. FrameLen - 2 : front[i] = IF i <= 2 THEN head[i] ELSE m[i - 2]
  <2>1. 2 + (FrameLen - 4) = FrameLen - 2
    BY <1>3
  <2>2. Len(m) = FrameLen - 4 /\ m \in Seq(Bytes)
    OBVIOUS
  <2>3. /\ front \in Seq(Bytes) /\ Len(front) = 2 + (FrameLen - 4)
        /\ \A i \in 1 .. 2 + (FrameLen - 4) : front[i] = IF i <= 2 THEN head[i] ELSE m[i - 2]
    <3>1. head \in Seq(Bytes) /\ Len(head) = 2
      BY <1>1
    <3>2. /\ front \in Seq(Bytes) /\ Len(front) = Len(head) + Len(m)
          /\ \A i \in 1 .. Len(head) + Len(m) :
               front[i] = IF i <= Len(head) THEN head[i] ELSE m[i - Len(head)]
      BY <2>2, <3>1, ConcatProperties
    <3> HIDE DEF front
    <3> QED
      BY <2>2, <3>1, <3>2, Zenon
  <2> QED
    BY <2>1, <2>3, Zenon
<1> HIDE DEF front
<1>5. /\ front \o tail \in Seq(Bytes) /\ Len(front \o tail) = FrameLen
      /\ \A i \in 1 .. FrameLen : (front \o tail)[i] = IF i <= FrameLen - 2 THEN front[i]
                                                       ELSE tail[i - (FrameLen - 2)]
  <2>1. (FrameLen - 2) + 2 = FrameLen
    BY <1>3
  <2>2. /\ front \o tail \in Seq(Bytes) /\ Len(front \o tail) = (FrameLen - 2) + 2
        /\ \A i \in 1 .. (FrameLen - 2) + 2 : (front \o tail)[i] = IF i <= FrameLen - 2 THEN front[i]
                                                                ELSE tail[i - (FrameLen - 2)]
    <3>1. /\ front \in Seq(Bytes) /\ Len(front) = FrameLen - 2
          /\ tail \in Seq(Bytes) /\ Len(tail) = 2
      BY <1>1, <1>4
    <3>2. /\ front \o tail \in Seq(Bytes) /\ Len(front \o tail) = Len(front) + Len(tail)
          /\ \A i \in 1 .. Len(front) + Len(tail) :
               (front \o tail)[i] = IF i <= Len(front) THEN front[i] ELSE tail[i - Len(front)]
      BY <3>1, ConcatProperties
    <3> QED
      BY <3>1, <3>2, Zenon
  <2> QED
    BY <2>1, <2>2, Zenon
<1> DEFINE s == front \o tail
<1>6. \A i \in 1 .. FrameLen : s[i] = IF i <= FrameLen - 2 THEN front[i]
                                                          ELSE tail[i - (FrameLen - 2)]
  BY <1>5
<1> HIDE DEF s
<1>7. /\ s[1] = "A" /\ s[2] = "T" /\ s[FrameLen - 1] = "CR" /\ s[FrameLen] = "LF"
      /\ \A i \in 1 .. FrameLen - 4 : s[i + 2] = m[i]
  <2>1. s[1] = front[1] /\ s[2] = front[2] /\ front[1] = head[1] /\ front[2] = head[2]
    BY <1>3, <1>4, <1>6
  <2>2. s[FrameLen - 1] = tail[1] /\ s[FrameLen] = tail[2]
    BY <1>3, <1>6
  <2>3. ASSUME NEW i \in 1 .. FrameLen - 4 PROVE s[i + 2] = m[i]
    BY <1>3, <1>4, <1>6, <2>3
  <2> QED
    BY <1>1, <2>1, <2>2, <2>3, Zenon
<1> QED
  BY <1>2, <1>5, <1>7, Zenon DEF s

\* What pop_frame and receive() return of the bytes that wait.
LEMMA PoppedProperties ==
  ASSUME ring \in Rings, HasFrame(ring)
  PROVE  /\ Body(PoppedFrame(ring)) \in Seq(Bytes)
         /\ Len(Body(PoppedFrame(ring))) = FrameLen - 4
         /\ \A i \in 1 .. FrameLen - 4 :
              Body(PoppedFrame(ring))[i] = Contents(ring)[First(ring) + 2 + i]
<1> DEFINE p == PoppedFrame(ring)
           f == First(ring)
<1>1. /\ f \in Nat /\ FrameLen \in Nat /\ FrameLen >= 4 /\ f + FrameLen <= Size(ring)
      /\ Size(ring) \in Nat
  BY StartProperties, SizeProperties, FrameLenAssumption
<1>2. \A i \in 1 .. FrameLen : p[i] = Contents(ring)[f + i]
  BY PopTakes
<1>3. \A i \in 1 .. Size(ring) : Contents(ring)[i] \in Bytes
  BY ContentsProperties, ElementOfSeq
<1> HIDE DEF p, f
<1>4. \A i \in 3 .. FrameLen - 2 : p[i] \in Bytes
  <2> SUFFICES ASSUME NEW i \in 3 .. FrameLen - 2 PROVE p[i] \in Bytes
    OBVIOUS
  <2>1. i \in 1 .. FrameLen /\ f + i \in 1 .. Size(ring)
    BY <1>1
  <2> QED
    BY <1>2, <1>3, <2>1
<1>5. 3 \in Int /\ FrameLen - 2 \in Int /\ (3 <= FrameLen - 2 => (FrameLen - 2) - 3 + 1 = FrameLen - 4)
      /\ (~(3 <= FrameLen - 2) => 0 = FrameLen - 4)
  BY <1>1
<1>6. /\ SubSeq(p, 3, FrameLen - 2) \in Seq(Bytes)
      /\ Len(SubSeq(p, 3, FrameLen - 2)) = FrameLen - 4
      /\ \A i \in 1 .. (FrameLen - 2) - 3 + 1 : SubSeq(p, 3, FrameLen - 2)[i] = p[3 + i - 1]
  <2> DEFINE b == FrameLen - 2
             q == SubSeq(p, 3, b)
  <2>1. /\ q \in Seq(Bytes) /\ Len(q) = (IF 3 <= b THEN b - 3 + 1 ELSE 0)
        /\ \A i \in 1 .. b - 3 + 1 : q[i] = p[3 + i - 1]
    <3>1. b \in Int /\ 3 \in Int /\ \A i \in 3 .. b : p[i] \in Bytes
      BY <1>4, <1>5
    <3> HIDE DEF b
    <3> QED
      BY <3>1, SubSeqProperties
  <2> QED
    BY <1>5, <2>1, Zenon
<1>7. ASSUME NEW i \in 1 .. FrameLen - 4
      PROVE  SubSeq(p, 3, FrameLen - 2)[i] = Contents(ring)[f + 2 + i]
  <2>1. /\ 3 + i - 1 \in 1 .. FrameLen /\ f + (3 + i - 1) = f + 2 + i
        /\ i \in 1 .. (FrameLen - 2) - 3 + 1
    BY <1>1, <1>7
  <2> QED
    BY <1>2, <1>6, <2>1, Zenon
<1> QED
  BY <1>6, <1>7, Zenon DEF Body, p, f

\* What one turn of the poll loop moves.
Drained == IF Len(kernel) < Chunk THEN Len(kernel) ELSE Chunk

LEMMA DrainProperties ==
  ASSUME TypeOK, kernel # <<>>
  PROVE  LET n == Drained
             src == SubSeq(kernel, 1, n)
             rest == SubSeq(kernel, n + 1, Len(kernel))
         IN  /\ n \in 1 .. Len(kernel) /\ Len(kernel) \in Nat
             /\ src \in Seq(Bytes) /\ Len(src) = n /\ \A i \in 1 .. n : src[i] = kernel[i]
             /\ rest \in Seq(Bytes) /\ Len(rest) = Len(kernel) - n
             /\ \A i \in 1 .. Len(kernel) - n : rest[i] = kernel[n + i]
<1> DEFINE n == Drained
<1>1. kernel \in Seq(Bytes) /\ Len(kernel) \in Nat \ {0}
  BY EmptySeq DEF TypeOK
<1>2. n \in 1 .. Len(kernel)
  BY <1>1, TransportAssumption DEF Drained
<1> HIDE DEF n
<1> DEFINE src == SubSeq(kernel, 1, n)
           rest == SubSeq(kernel, n + 1, Len(kernel))
<1>3. rest \in Seq(Bytes) /\ Len(rest) = Len(kernel) - n
      /\ \A i \in 1 .. Len(kernel) - n : rest[i] = kernel[n + i]
  <2>1. Len(kernel) \in 0 .. Len(kernel) /\ n \in 0 .. Len(kernel)
    BY <1>1, <1>2
  <2> QED
    BY <1>1, <2>1, Part
<1>4. src \in Seq(Bytes) /\ Len(src) = n /\ \A i \in 1 .. n : src[i] = kernel[i]
  <2>1. n \in 0 .. Len(kernel) /\ 0 \in 0 .. n /\ 0 + 1 = 1 /\ n - 0 = n /\ \A i \in 1 .. n : 0 + i = i
    BY <1>1, <1>2
  <2>2. /\ SubSeq(kernel, 0 + 1, n) \in Seq(Bytes) /\ Len(SubSeq(kernel, 0 + 1, n)) = n - 0
        /\ \A i \in 1 .. n - 0 : SubSeq(kernel, 0 + 1, n)[i] = kernel[0 + i]
    BY <1>1, <2>1, Part
  <2> QED
    BY <2>1, <2>2, Zenon
<1> HIDE DEF src, rest
<1> QED
  BY <1>1, <1>2, <1>3, <1>4, Zenon DEF src, rest, n

-----------------------------------------------------------------------------
(* Types                                                                   *)

\* One turn of the poll loop.
LEMMA DrainStep ==
  ASSUME TypeOK, RxDrain
  PROVE  LET n == Drained
             k == Accepted(ring, n)
         IN  /\ n \in 1 .. Len(kernel) /\ k \in 0 .. n
             /\ ring' \in Rings /\ Size(ring') = Size(ring) + k
             /\ \A i \in 1 .. Size(ring) : Contents(ring')[i] = Contents(ring)[i]
             /\ \A i \in 1 .. k : Contents(ring')[Size(ring) + i] = kernel[i]
             /\ kernel' \in Seq(Bytes) /\ Len(kernel') = Len(kernel) - n
             /\ \A i \in 1 .. Len(kernel) - n : kernel'[i] = kernel[n + i]
             /\ dropped' = (dropped \/ k < n)
<1> DEFINE n == Drained
           src == SubSeq(kernel, 1, n)
           k == Accepted(ring, n)
<1>1. /\ ring' = Push(ring, src) /\ kernel' = SubSeq(kernel, n + 1, Len(kernel))
      /\ dropped' = (dropped \/ k < n) /\ kernel # <<>>
  BY DEF RxDrain, Drained
<1> HIDE DEF n
<1>2. /\ n \in 1 .. Len(kernel) /\ Len(kernel) \in Nat
      /\ src \in Seq(Bytes) /\ Len(src) = n /\ \A i \in 1 .. n : src[i] = kernel[i]
      /\ SubSeq(kernel, n + 1, Len(kernel)) \in Seq(Bytes)
      /\ Len(SubSeq(kernel, n + 1, Len(kernel))) = Len(kernel) - n
      /\ \A i \in 1 .. Len(kernel) - n : SubSeq(kernel, n + 1, Len(kernel))[i] = kernel[n + i]
  BY <1>1, DrainProperties, Zenon DEF n
<1>3. ring \in Rings
  BY DEF TypeOK
<1> HIDE DEF src
<1>4. k \in 0 .. n
  <2>1. n \in Nat
    BY <1>2
  <2> QED
    BY <1>3, <2>1, AcceptedProperties
<1>5. /\ ring' \in Rings /\ Size(ring') = Size(ring) + k
      /\ \A i \in 1 .. Size(ring) : Contents(ring')[i] = Contents(ring)[i]
      /\ \A i \in 1 .. k : Contents(ring')[Size(ring) + i] = src[i]
  BY <1>1, <1>2, <1>3, PushAppends, Zenon
<1>6. \A i \in 1 .. k : src[i] = kernel[i]
  <2>1. \A i \in 1 .. k : i \in 1 .. n
    BY <1>2, <1>4
  <2> QED
    BY <1>2, <2>1, Zenon
<1> QED
  BY <1>1, <1>2, <1>4, <1>5, <1>6, Zenon DEF n

LEMMA SerialTypeStep == TypeOK /\ [Next]_vars => TypeOK'
<1> SUFFICES ASSUME TypeOK, [Next]_vars PROVE TypeOK'
  OBVIOUS
<1>1. ring \in Rings /\ Reset(ring) \in Rings
  BY ResetEmpties DEF TypeOK
<1>2. CASE Connect
  BY <1>1, <1>2 DEF Connect, TypeOK
<1>3. CASE Disconnect
  <2>1. kernel' \in Seq(Bytes) /\ Len(kernel') <= MaxBacklog
    BY <1>3, TransportAssumption, EmptySeq DEF Disconnect
  <2>2. closes' \in 0 .. MaxCloses
    BY <1>3, TransportAssumption DEF Disconnect, TypeOK
  <2> QED
    BY <1>1, <1>3, <2>1, <2>2 DEF Disconnect, TypeOK
<1>4. CASE RxCall \/ RxDrained
  BY <1>4 DEF RxCall, RxDrained, TypeOK
<1>5. CASE RxDrain
  <2>1. ring' \in Rings /\ kernel' \in Seq(Bytes) /\ dropped' \in BOOLEAN
    BY <1>5, DrainStep
  <2>2. Len(kernel') <= MaxBacklog
    <3>1. Len(kernel') = Len(kernel) - Drained /\ Drained \in 1 .. Len(kernel)
      BY <1>5, DrainStep
    <3>2. Len(kernel) \in Nat /\ Len(kernel) <= MaxBacklog
      BY LenProperties DEF TypeOK
    <3> QED
      BY <3>1, <3>2, TransportAssumption
  <2> QED
    BY <1>5, <2>1, <2>2 DEF RxDrain, TypeOK
<1>6. CASE RxPop
  <2>1. CASE HasFrame(ring)
    <3>1. ring' \in Rings
      BY <1>1, <1>6, <2>1, PopTakes DEF RxPop
    <3>2. delivered' \in Seq(Seq(Bytes))
      <4>1. Body(PoppedFrame(ring)) \in Seq(Bytes)
        BY <1>1, <2>1, PoppedProperties
      <4>2. delivered' = Append(delivered, Body(PoppedFrame(ring)))
        BY <1>6, <2>1 DEF RxPop
      <4> QED
        BY <4>1, <4>2, AppendProperties DEF TypeOK
    <3> QED
      BY <1>6, <3>1, <3>2 DEF RxPop, TypeOK
  <2>2. CASE ~HasFrame(ring)
    <3>1. ring' = ring /\ delivered' = delivered
      BY <1>6, <2>2 DEF RxPop, AfterPop
    <3> QED
      BY <1>6, <3>1 DEF RxPop, TypeOK
  <2> QED
    BY <2>1, <2>2
<1>7. ASSUME NEW m \in Messages, Transmit(m) PROVE TypeOK'
  <2>1. Framed(m) \in Seq(Bytes)
    BY TransportAssumption, FramedProperties
  <2>2. wire' \in Seq(Bytes)
    BY <1>7, <2>1, ConcatProperties DEF Transmit, TypeOK
  <2>3. sent' \in Seq(Messages)
    BY <1>7, AppendProperties DEF Transmit, TypeOK
  <2> QED
    BY <1>7, <2>2, <2>3 DEF Transmit, TypeOK
<1>8. ASSUME NEW b \in Noise, Disturb(b) PROVE TypeOK'
  <2>1. b \in Bytes
    BY TransportAssumption
  <2>2. wire' \in Seq(Bytes)
    BY <1>8, <2>1, AppendProperties DEF Disturb, TypeOK
  <2>3. noise' \in 0 .. MaxNoise
    BY <1>8, TransportAssumption DEF Disturb, TypeOK
  <2> QED
    BY <1>8, <2>2, <2>3 DEF Disturb, TypeOK
<1>9. CASE Arrive
  <2>1. PICK n \in 1 .. Len(wire) :
          /\ IF open THEN /\ Len(kernel) + n <= MaxBacklog
                          /\ kernel' = kernel \o SubSeq(wire, 1, n)
                     ELSE UNCHANGED kernel
          /\ wire' = SubSeq(wire, n + 1, Len(wire))
    BY <1>9 DEF Arrive
  <2>2. wire \in Seq(Bytes) /\ Len(wire) \in Nat
    BY LenProperties DEF TypeOK
  <2>3. wire' \in Seq(Bytes)
    <3>1. Len(wire) \in 0 .. Len(wire) /\ n \in 0 .. Len(wire)
      BY <2>2
    <3> QED
      BY <2>1, <2>2, <3>1, Part
  <2>4. kernel' \in Seq(Bytes) /\ Len(kernel') <= MaxBacklog
    <3>1. SubSeq(wire, 1, n) \in Seq(Bytes) /\ Len(SubSeq(wire, 1, n)) = n
      <4>1. n \in 0 .. Len(wire) /\ 0 \in 0 .. n /\ 0 + 1 = 1 /\ n - 0 = n
        BY <2>2
      <4>2. SubSeq(wire, 0 + 1, n) \in Seq(Bytes) /\ Len(SubSeq(wire, 0 + 1, n)) = n - 0
        BY <2>2, <4>1, Part
      <4> QED
        BY <4>1, <4>2, Zenon
    <3>2. kernel \in Seq(Bytes) /\ Len(kernel) <= MaxBacklog
      BY DEF TypeOK
    <3> DEFINE q == SubSeq(wire, 1, n)
    <3> HIDE DEF q
    <3>3. kernel \o q \in Seq(Bytes) /\ Len(kernel \o q) = Len(kernel) + n
      BY <3>1, <3>2, ConcatProperties DEF q
    <3> QED
      BY <2>1, <3>2, <3>3, Zenon DEF q
  <2> QED
    BY <1>9, <2>3, <2>4 DEF Arrive, TypeOK
<1>10. CASE UNCHANGED vars
  BY <1>10 DEF vars, TypeOK
<1> QED
  BY <1>2, <1>3, <1>4, <1>5, <1>6, <1>7, <1>8, <1>9, <1>10 DEF Next, RxStep

LEMMA SerialTypeInit == Init => TypeOK
<1> SUFFICES ASSUME Init PROVE TypeOK
  OBVIOUS
<1>1. ring \in Rings /\ 0 \in 0 .. MaxNoise /\ 0 \in 0 .. MaxCloses /\ 0 <= MaxBacklog
  BY CapacityAssumption, BytesAssumption, TransportAssumption DEF Init, Rings, Slots
<1>2. Len(kernel) = 0 /\ kernel \in Seq(Bytes) /\ sent \in Seq(Messages) /\ delivered \in Seq(Seq(Bytes))
  BY EmptySeq DEF Init
<1> QED
  BY <1>1, <1>2 DEF Init, TypeOK

\* Every reachable state is well typed: the indices of the ring stay inside its array,
\* whatever arrives and however often the port is closed.
THEOREM SerialTypeCorrect == Spec => []TypeOK
BY SerialTypeInit, SerialTypeStep, PTL DEF Spec

-----------------------------------------------------------------------------
(* The ring implements a queue                                             *)

LEMMA QueueInit == Init => Queue!Init
<1> SUFFICES ASSUME Init PROVE Queue!Init
  OBVIOUS
<1>1. ring \in Rings /\ ring.head = 0 /\ ring.tail = 0
  BY SerialTypeInit DEF Init, TypeOK
<1>2. Size(ring) = 0
  BY <1>1, SizeProperties
<1>3. Contents(ring) \in Seq(Bytes) /\ Len(Contents(ring)) = 0
  BY <1>1, <1>2, ContentsProperties
<1>4. Contents(ring) = <<>>
  BY <1>3, EmptySeq
<1> QED
  BY <1>4 DEF Init, Queue!Init

\* A turn of the poll loop extends the queue by the bytes that fit.
LEMMA DrainExtends == TypeOK /\ RxDrain => Queue!Extend
<1> SUFFICES ASSUME TypeOK, RxDrain PROVE Queue!Extend
  OBVIOUS
<1> DEFINE q == Contents(ring)
           q1 == Contents(ring')
           k == Accepted(ring, Drained)
<1>1. /\ ring \in Rings /\ ring' \in Rings /\ Size(ring') = Size(ring) + k
      /\ k \in Nat
      /\ \A i \in 1 .. Size(ring) : q1[i] = q[i]
  <2>1. /\ ring' \in Rings /\ Size(ring') = Size(ring) + k /\ k \in 0 .. Drained
        /\ \A i \in 1 .. Size(ring) : q1[i] = q[i]
    BY DrainStep, Zenon
  <2> QED
    BY <2>1 DEF TypeOK
<1>2. /\ q \in Seq(Bytes) /\ q1 \in Seq(Bytes) /\ Len(q) = Size(ring) /\ Len(q1) = Size(ring')
      /\ Size(ring) \in 0 .. Capacity - 1 /\ Size(ring') \in 0 .. Capacity - 1
  BY <1>1, ContentsProperties, SizeProperties
<1> HIDE DEF q, q1, k
<1>3. Len(q1) >= Len(q) /\ Len(q1) <= Capacity - 1
  BY <1>1, <1>2, CapacityAssumption
<1>4. SubSeq(q1, 1, Len(q)) = q
  <2>1. Len(q) \in 0 .. Len(q1) /\ 0 \in 0 .. Len(q) /\ 0 + 1 = 1 /\ Len(q) - 0 = Len(q)
        /\ \A i \in 1 .. Len(q) : 0 + i = i
    BY <1>2, <1>3
  <2> DEFINE p == SubSeq(q1, 0 + 1, Len(q))
  <2>2. p \in Seq(Bytes) /\ Len(p) = Len(q) - 0 /\ \A i \in 1 .. Len(q) - 0 : p[i] = q1[0 + i]
    BY <1>2, <2>1, Part
  <2> HIDE DEF p
  <2>3. Len(p) = Len(q) /\ \A i \in 1 .. Len(p) : p[i] = q[i]
    BY <1>1, <1>2, <2>1, <2>2, Zenon
  <2>4. p = q
    BY <1>2, <2>2, <2>3, SeqEqual
  <2> QED
    BY <2>1, <2>4 DEF p
<1>5. open' = open /\ delivered' = delivered
  BY DEF RxDrain
<1> QED
  BY <1>3, <1>4, <1>5 DEF Queue!Extend, q, q1

\* A pop with a frame in the ring takes the first one and what precedes it.
LEMMA PopTakesFrame ==
  ASSUME TypeOK, RxPop, HasFrame(ring)
  PROVE  \E k \in FrameLen .. Len(Contents(ring)) : Queue!Take(k)
<1> DEFINE q == Contents(ring)
           q1 == Contents(ring')
           f == First(ring)
           k == f + FrameLen
           b == Body(PoppedFrame(ring))
<1>1. ring \in Rings /\ ring' = AfterPop(ring)
  BY DEF TypeOK, RxPop
<1>2. /\ ring' \in Rings /\ k \in FrameLen .. Size(ring) /\ Size(ring') = Size(ring) - k
      /\ \A i \in 1 .. Size(ring) - k : q1[i] = q[k + i]
  BY <1>1, PopTakes, Zenon
<1>3. /\ q \in Seq(Bytes) /\ q1 \in Seq(Bytes) /\ Len(q) = Size(ring) /\ Len(q1) = Size(ring')
      /\ Size(ring) \in Nat
  BY <1>1, <1>2, ContentsProperties, SizeProperties
<1>4. /\ b \in Seq(Bytes) /\ Len(b) = FrameLen - 4
      /\ \A i \in 1 .. FrameLen - 4 : b[i] = q[f + 2 + i]
  BY <1>1, PoppedProperties
<1>5. /\ f \in Nat /\ FrameLen \in Nat /\ FrameLen >= 4
  BY <1>1, StartProperties, FrameLenAssumption
<1> HIDE DEF q, q1, f, b
<1>6. q1 = SubSeq(q, k + 1, Len(q))
  <2>1. Len(q) \in 0 .. Len(q) /\ k \in 0 .. Len(q)
    BY <1>2, <1>3, <1>5
  <2> DEFINE p == SubSeq(q, k + 1, Len(q))
  <2>2. p \in Seq(Bytes) /\ Len(p) = Len(q) - k /\ \A i \in 1 .. Len(q) - k : p[i] = q[k + i]
    BY <1>3, <2>1, Part
  <2> HIDE DEF p, k
  <2>3. Len(q1) = Len(p) /\ \A i \in 1 .. Len(q1) : q1[i] = p[i]
    BY <1>2, <1>3, <2>2, Zenon
  <2>4. q1 = p
    BY <1>3, <2>2, <2>3, SeqEqual
  <2> QED
    BY <2>4 DEF p
<1>7. b = SubSeq(q, (f + 2) + 1, k - 2)
  <2> DEFINE p == SubSeq(q, (f + 2) + 1, k - 2)
  <2>1. /\ k - 2 \in 0 .. Len(q) /\ f + 2 \in 0 .. k - 2 /\ (k - 2) - (f + 2) = FrameLen - 4
    BY <1>2, <1>3, <1>5
  <2>2. p \in Seq(Bytes) /\ Len(p) = (k - 2) - (f + 2)
        /\ \A i \in 1 .. (k - 2) - (f + 2) : p[i] = q[f + 2 + i]
    <3>1. ASSUME NEW e \in 0 .. Len(q), NEW g \in 0 .. e
          PROVE  /\ SubSeq(q, g + 1, e) \in Seq(Bytes) /\ Len(SubSeq(q, g + 1, e)) = e - g
                 /\ \A i \in 1 .. e - g : SubSeq(q, g + 1, e)[i] = q[g + i]
      BY <1>3, <3>1, Part
    <3> HIDE DEF k
    <3> QED
      BY <2>1, <3>1, Zenon
  <2> HIDE DEF p, k
  <2>3. Len(b) = Len(p) /\ \A i \in 1 .. Len(b) : b[i] = p[i]
    BY <1>4, <2>1, <2>2, Zenon
  <2>4. b = p
    BY <1>4, <2>2, <2>3, SeqEqual
  <2> QED
    BY <2>4 DEF p
<1>8. k - FrameLen + 3 = (f + 2) + 1
  BY <1>5
<1>9. delivered' = Append(delivered, b) /\ open' = open
  BY DEF RxPop, b
<1>10. k \in FrameLen .. Len(q)
  BY <1>2, <1>3, Zenon
<1> HIDE DEF k
<1>11. Queue!Take(k)
  BY <1>6, <1>7, <1>8, <1>9, Zenon DEF Queue!Take, q, q1
<1> QED
  BY <1>10, <1>11 DEF q

LEMMA QueueStep == TypeOK /\ [Next]_vars => [Queue!Next]_(Queue!queueVars)
<1> SUFFICES ASSUME TypeOK, [Next]_vars PROVE [Queue!Next]_(Queue!queueVars)
  OBVIOUS
<1>1. ring \in Rings /\ Contents(Reset(ring)) = <<>>
  BY ResetEmpties DEF TypeOK
<1>2. CASE Connect
  <2>1. open' = ~open /\ Contents(ring') = <<>> /\ UNCHANGED delivered
    BY <1>1, <1>2 DEF Connect, TypeOK
  <2> QED
    BY <2>1 DEF Queue!Next, Queue!Switch
<1>3. CASE Disconnect
  <2>1. open' = ~open /\ Contents(ring') = <<>> /\ UNCHANGED delivered
    BY <1>1, <1>3 DEF Disconnect, TypeOK
  <2> QED
    BY <2>1 DEF Queue!Next, Queue!Switch
<1>4. CASE RxDrain
  BY <1>4, DrainExtends DEF Queue!Next
<1>5. CASE RxPop /\ HasFrame(ring)
  BY <1>5, PopTakesFrame DEF Queue!Next
<1>6. CASE UNCHANGED <<open, ring, delivered>>
  BY <1>6 DEF Queue!queueVars
<1>7. CASE RxPop /\ ~HasFrame(ring)
  BY <1>6, <1>7 DEF RxPop, AfterPop
<1>8. CASE RxCall \/ RxDrained \/ Arrive \/ UNCHANGED vars
  BY <1>6, <1>8 DEF RxCall, RxDrained, Arrive, vars
<1>9. ASSUME NEW m \in Messages, Transmit(m) PROVE [Queue!Next]_(Queue!queueVars)
  BY <1>6, <1>9 DEF Transmit
<1>10. ASSUME NEW b \in Noise, Disturb(b) PROVE [Queue!Next]_(Queue!queueVars)
  BY <1>6, <1>10 DEF Disturb
<1> QED
  BY <1>2, <1>3, <1>4, <1>5, <1>7, <1>8, <1>9, <1>10 DEF Next, RxStep

\* The ring with its wrapping indices, fed in arbitrary chunks and reset at any time,
\* implements the abstract queue: no byte that waits is lost, reordered or corrupted.
THEOREM QueueImplemented == Spec => ImplementsQueue
<1>1. Init => Queue!Init
  BY QueueInit
<1>2. TypeOK /\ [Next]_vars => [Queue!Next]_(Queue!queueVars)
  BY QueueStep
<1> QED
  BY <1>1, <1>2, SerialTypeCorrect, PTL DEF Spec, ImplementsQueue, Queue!Spec

-----------------------------------------------------------------------------
(* Order over a clean link                                                 *)

Clean == ~dropped /\ noise = 0 /\ closes = 0

\* The bytes between the adapter and the parser, wherever they are.
Total == Size(ring) + Len(kernel) + Len(wire)

Byte(n) == IF n <= Size(ring) THEN Contents(ring)[n]
           ELSE IF n <= Size(ring) + Len(kernel) THEN kernel[n - Size(ring)]
           ELSE wire[n - (Size(ring) + Len(kernel))]

\* Messages sent and not returned yet.
Pending == Len(sent) - Len(delivered)

\* Where the frame behind j others begins.
Offset(j) == FrameLen * j

\* The frame of pending message number j + 1 is where j frames precede it.
FrameAt(j) == \A i \in 1 .. FrameLen : Byte(Offset(j) + i) = Framed(sent[Len(delivered) + j + 1])[i]

\* Over a clean link the bytes on their way are the frames of the pending messages
\* and nothing else, so that every scan begins at a frame.
Aligned ==
  Clean => /\ open /\ Pending \in Nat /\ Total = Offset(Pending)
           /\ \A j \in 0 .. Pending - 1 : FrameAt(j)

Ordered ==
  Clean => Len(delivered) <= Len(sent) /\ \A i \in 1 .. Len(delivered) : delivered[i] = sent[i]

LEMMA OffsetNext ==
  ASSUME NEW j \in Nat
  PROVE  /\ FrameLen \in Nat /\ FrameLen >= 4 /\ Offset(0) = 0
         /\ Offset(j) \in Nat /\ Offset(j + 1) = Offset(j) + FrameLen
<1>1. FrameLen \in Nat /\ FrameLen >= 4
  BY FrameLenAssumption
<1>2. \A a, b \in Nat : a * b \in Nat
  OBVIOUS
<1> QED
  BY <1>1, <1>2 DEF Offset

\* A frame lies inside the frames it is one of.
LEMMA FrameInside ==
  ASSUME NEW n \in Nat, NEW j \in 0 .. n - 1, NEW i \in 1 .. FrameLen
  PROVE  Offset(j) + i \in 1 .. Offset(n)
<1>1. FrameLen \in Nat /\ j \in Nat
  BY FrameLenAssumption
<1>2. \A a, b \in Nat : a * b \in Nat
  OBVIOUS
<1>3. FrameLen * (n - 1 - j) \in Nat
  BY <1>1, <1>2
<1>4. FrameLen * (n - 1 - j) = FrameLen * n - FrameLen - FrameLen * j
  BY <1>1
<1>5. FrameLen * n \in Nat /\ FrameLen * j \in Nat
  BY <1>1, <1>2
<1> QED
  BY <1>1, <1>3, <1>4, <1>5 DEF Offset

LEMMA TotalType ==
  ASSUME TypeOK
  PROVE  /\ Size(ring) \in Nat /\ Len(kernel) \in Nat /\ Len(wire) \in Nat /\ Total \in Nat
         /\ Len(sent) \in Nat /\ Len(delivered) \in Nat /\ ring \in Rings
<1>1. /\ ring \in Rings /\ kernel \in Seq(Bytes) /\ wire \in Seq(Bytes)
      /\ sent \in Seq(Messages) /\ delivered \in Seq(Seq(Bytes))
  BY DEF TypeOK
<1>2. /\ Len(kernel) \in Nat /\ Len(wire) \in Nat /\ Len(sent) \in Nat /\ Len(delivered) \in Nat
  BY <1>1, LenProperties
<1>3. Size(ring) \in Nat
  BY <1>1, SizeProperties
<1> QED
  BY <1>1, <1>2, <1>3 DEF Total

\* Bytes that only move keep their order.
LEMMA DrainKeepsBytes ==
  ASSUME TypeOK, RxDrain, ~dropped'
  PROVE  Total' = Total /\ \A n \in 1 .. Total : Byte(n)' = Byte(n)
<1> DEFINE n == Drained
           k == Accepted(ring, n)
           a == Size(ring)
           b == Len(kernel)
<1>1. /\ n \in 1 .. b /\ k \in 0 .. n
      /\ ring' \in Rings /\ Size(ring') = a + k
      /\ \A i \in 1 .. a : Contents(ring')[i] = Contents(ring)[i]
      /\ \A i \in 1 .. k : Contents(ring')[a + i] = kernel[i]
      /\ Len(kernel') = b - n
      /\ \A i \in 1 .. b - n : kernel'[i] = kernel[n + i]
      /\ dropped' = (dropped \/ k < n)
  BY DrainStep, Zenon
<1>2. wire' = wire
  BY DEF RxDrain
<1>3. a \in Nat /\ b \in Nat /\ Len(wire) \in Nat
  BY TotalType
<1>4. k = n
  <2>1. ~(k < n)
    BY <1>1
  <2> QED
    BY <1>1, <1>3, <2>1
<1> HIDE DEF n, k
<1>5. Total' = Total
  <2>1. Total' = (a + n) + (b - n) + Len(wire)
    BY <1>1, <1>2, <1>4 DEF Total
  <2>2. Total = a + b + Len(wire)
    BY DEF Total
  <2> HIDE DEF a, b
  <2> QED
    BY <1>1, <1>3, <2>1, <2>2
<1>6. ASSUME NEW i \in 1 .. Total PROVE Byte(i)' = Byte(i)
  <2>1. Byte(i)' = IF i <= a + n THEN Contents(ring')[i]
                   ELSE IF i <= (a + n) + (b - n) THEN kernel'[i - (a + n)]
                   ELSE wire[i - ((a + n) + (b - n))]
    BY <1>1, <1>2, <1>4 DEF Byte
  <2>2. Byte(i) = IF i <= a THEN Contents(ring)[i]
                  ELSE IF i <= a + b THEN kernel[i - a]
                  ELSE wire[i - (a + b)]
    BY DEF Byte
  <2>3. i \in Nat \ {0}
    BY <1>6, TotalType
  <2> DEFINE q == Contents(ring)
             q1 == Contents(ring')
  <2>4. /\ \A x \in 1 .. a : q1[x] = q[x]
        /\ \A x \in 1 .. n : q1[a + x] = kernel[x]
        /\ \A x \in 1 .. b - n : kernel'[x] = kernel[n + x]
    BY <1>1, <1>4
  <2>5. n \in 1 .. b
    BY <1>1
  <2> HIDE DEF a, b, q, q1
  <2>6. CASE i <= a
    <3>1. i \in 1 .. a /\ i <= a + n
      BY <1>3, <2>3, <2>5, <2>6
    <3> QED
      BY <2>1, <2>2, <2>4, <2>6, <3>1, Zenon DEF q, q1
  <2>7. CASE i > a /\ i <= a + n
    <3>1. i - a \in 1 .. n /\ a + (i - a) = i /\ i <= a + n /\ i <= a + b /\ ~(i <= a)
      BY <1>3, <2>3, <2>5, <2>7
    <3>2. q1[a + (i - a)] = kernel[i - a]
      BY <2>4, <3>1, Zenon
    <3> QED
      BY <2>1, <2>2, <3>1, <3>2, Zenon DEF q1
  <2>8. CASE i > a + n /\ i <= a + b
    <3>1. /\ i - (a + n) \in 1 .. b - n /\ n + (i - (a + n)) = i - a
          /\ ~(i <= a + n) /\ i <= (a + n) + (b - n) /\ ~(i <= a) /\ i <= a + b
      BY <1>3, <2>3, <2>5, <2>8
    <3>2. kernel'[i - (a + n)] = kernel[n + (i - (a + n))]
      BY <2>4, <3>1, Zenon
    <3> QED
      BY <2>1, <2>2, <3>1, <3>2, Zenon
  <2>9. CASE i > a + b
    <3>1. /\ (a + n) + (b - n) = a + b
          /\ ~(i <= a + n) /\ ~(i <= a + b) /\ ~(i <= a)
      BY <1>3, <2>3, <2>5, <2>9
    <3> QED
      BY <2>1, <2>2, <3>1, Zenon
  <2> QED
    BY <1>3, <2>3, <2>5, <2>6, <2>7, <2>8, <2>9
<1> QED
  BY <1>5, <1>6

LEMMA ArriveKeepsBytes ==
  ASSUME TypeOK, Arrive, open
  PROVE  Total' = Total /\ \A i \in 1 .. Total : Byte(i)' = Byte(i)
<1> DEFINE a == Size(ring)
           b == Len(kernel)
           w == Len(wire)
<1>1. PICK n \in 1 .. w : kernel' = kernel \o SubSeq(wire, 1, n) /\ wire' = SubSeq(wire, n + 1, w)
  BY DEF Arrive
<1>2. ring' = ring
  BY DEF Arrive
<1>3. a \in Nat /\ b \in Nat /\ w \in Nat /\ kernel \in Seq(Bytes) /\ wire \in Seq(Bytes)
  BY TotalType DEF TypeOK
<1> HIDE DEF a, b, w
<1>4. n \in 1 .. w
  OBVIOUS
<1> DEFINE p == SubSeq(wire, 1, n)
<1>5. p \in Seq(Bytes) /\ Len(p) = n /\ \A i \in 1 .. n : p[i] = wire[i]
  <2>1. /\ n \in 0 .. Len(wire) /\ 0 \in 0 .. n /\ 0 + 1 = 1 /\ n - 0 = n
        /\ \A i \in 1 .. n : 0 + i = i
    BY <1>3, <1>4 DEF w
  <2>2. /\ SubSeq(wire, 0 + 1, n) \in Seq(Bytes) /\ Len(SubSeq(wire, 0 + 1, n)) = n - 0
        /\ \A i \in 1 .. n - 0 : SubSeq(wire, 0 + 1, n)[i] = wire[0 + i]
    BY <1>3, <2>1, Part
  <2> QED
    BY <2>1, <2>2, Zenon
<1>6. Len(wire') = w - n /\ \A i \in 1 .. w - n : wire'[i] = wire[n + i]
  <2>1. Len(wire) \in 0 .. Len(wire) /\ n \in 0 .. Len(wire)
    BY <1>3, <1>4 DEF w
  <2>2. /\ Len(SubSeq(wire, n + 1, Len(wire))) = Len(wire) - n
        /\ \A i \in 1 .. Len(wire) - n : SubSeq(wire, n + 1, Len(wire))[i] = wire[n + i]
    BY <1>3, <2>1, Part
  <2> QED
    BY <1>1, <2>2, Zenon DEF w
<1> HIDE DEF p
<1>7. /\ Len(kernel') = b + n
      /\ \A i \in 1 .. b + n : kernel'[i] = IF i <= b THEN kernel[i] ELSE p[i - b]
  <2>1. /\ Len(kernel \o p) = Len(kernel) + Len(p)
        /\ \A i \in 1 .. Len(kernel) + Len(p) :
             (kernel \o p)[i] = IF i <= Len(kernel) THEN kernel[i] ELSE p[i - Len(kernel)]
    BY <1>3, <1>5, ConcatProperties
  <2>2. kernel' = kernel \o p
    BY <1>1 DEF p
  <2> QED
    BY <1>5, <2>1, <2>2, Zenon DEF b
<1>8. Total' = Total
  <2>1. Total' = a + (b + n) + (w - n) /\ Total = a + b + w
    BY <1>2, <1>6, <1>7 DEF Total, a, b, w
  <2> QED
    BY <1>3, <1>4, <2>1
<1>9. ASSUME NEW i \in 1 .. Total PROVE Byte(i)' = Byte(i)
  <2>1. Byte(i)' = IF i <= a THEN Contents(ring)[i]
                   ELSE IF i <= a + (b + n) THEN kernel'[i - a]
                   ELSE wire'[i - (a + (b + n))]
    BY <1>2, <1>7 DEF Byte, a
  <2>2. Byte(i) = IF i <= a THEN Contents(ring)[i]
                  ELSE IF i <= a + b THEN kernel[i - a]
                  ELSE wire[i - (a + b)]
    BY DEF Byte, a, b
  <2>3. i \in Nat \ {0} /\ i <= a + b + w
    BY <1>9, TotalType DEF Total, a, b, w
  <2>4. CASE i <= a
    BY <2>1, <2>2, <2>4, Zenon
  <2>5. CASE i > a /\ i <= a + b
    <3>1. i - a \in 1 .. b + n /\ i - a <= b /\ ~(i <= a) /\ i <= a + (b + n)
      BY <1>3, <1>4, <2>3, <2>5
    <3> QED
      BY <1>7, <2>1, <2>2, <2>5, <3>1, Zenon
  <2>6. CASE i > a + b /\ i <= a + (b + n)
    <3>1. /\ i - a \in 1 .. b + n /\ ~(i - a <= b) /\ ~(i <= a) /\ ~(i <= a + b)
          /\ (i - a) - b = i - (a + b) /\ i - (a + b) \in 1 .. n
      BY <1>3, <1>4, <2>3, <2>6
    <3> QED
      BY <1>5, <1>7, <2>1, <2>2, <2>6, <3>1, Zenon
  <2>7. CASE i > a + (b + n)
    <3>1. /\ ~(i <= a) /\ ~(i <= a + b) /\ ~(i <= a + (b + n))
          /\ i - (a + (b + n)) \in 1 .. w - n /\ n + (i - (a + (b + n))) = i - (a + b)
      BY <1>3, <1>4, <2>3, <2>7
    <3> QED
      BY <1>6, <2>1, <2>2, <3>1, Zenon
  <2> QED
    BY <1>3, <1>4, <2>3, <2>4, <2>5, <2>6, <2>7
<1> QED
  BY <1>8, <1>9

\* What is put on the wire joins the end.
LEMMA WireGrows ==
  ASSUME TypeOK, NEW p, NEW l \in Nat, UNCHANGED <<ring, kernel>>,
         Len(wire') = Len(wire) + l,
         \A i \in 1 .. Len(wire) + l :
           wire'[i] = IF i <= Len(wire) THEN wire[i] ELSE p[i - Len(wire)]
  PROVE  /\ Total' = Total + l
         /\ \A i \in 1 .. Total : Byte(i)' = Byte(i)
         /\ \A i \in 1 .. l : \A n : n = Total + i => Byte(n)' = p[i]
<1> DEFINE a == Size(ring)
           b == Len(kernel)
           w == Len(wire)
<1>1. a \in Nat /\ b \in Nat /\ w \in Nat
  BY TotalType
<1>2. /\ Len(wire') = w + l
      /\ \A i \in 1 .. w + l : wire'[i] = IF i <= w THEN wire[i] ELSE p[i - w]
  OBVIOUS
<1> HIDE DEF a, b, w
<1>3. Total = a + b + w /\ Total' = a + b + (w + l)
  BY <1>2 DEF Total, a, b, w
<1>4. \A i : Byte(i)' = IF i <= a THEN Contents(ring)[i]
                        ELSE IF i <= a + b THEN kernel[i - a] ELSE wire'[i - (a + b)]
  BY DEF Byte, a, b
<1>5. \A i : Byte(i) = IF i <= a THEN Contents(ring)[i]
                       ELSE IF i <= a + b THEN kernel[i - a] ELSE wire[i - (a + b)]
  BY DEF Byte, a, b
<1>6. ASSUME NEW i \in 1 .. Total PROVE Byte(i)' = Byte(i)
  <2>1. CASE i <= a + b
    BY <1>4, <1>5, <2>1, Zenon
  <2>2. CASE ~(i <= a + b)
    <3>1. i - (a + b) \in 1 .. w + l /\ i - (a + b) <= w /\ ~(i <= a)
      BY <1>1, <1>3, <1>6, <2>2
    <3> QED
      BY <1>2, <1>4, <1>5, <2>2, <3>1, Zenon
  <2> QED
    BY <2>1, <2>2
<1>7. ASSUME NEW i \in 1 .. l, NEW n, n = Total + i PROVE Byte(n)' = p[i]
  <2>1. /\ ~(n <= a) /\ ~(n <= a + b) /\ n - (a + b) \in 1 .. w + l
        /\ ~(n - (a + b) <= w) /\ (n - (a + b)) - w = i
    BY <1>1, <1>3, <1>7
  <2> QED
    BY <1>2, <1>4, <2>1, Zenon
<1> QED
  BY <1>1, <1>3, <1>6, <1>7

\* A message joins the end.
LEMMA TransmitAddsFrame ==
  ASSUME TypeOK, NEW m \in Messages, Transmit(m)
  PROVE  /\ Total' = Total + FrameLen
         /\ \A i \in 1 .. Total : Byte(i)' = Byte(i)
         /\ \A i \in 1 .. FrameLen : \A n : n = Total + i => Byte(n)' = Framed(m)[i]
<1> DEFINE p == Framed(m)
<1>1. wire' = wire \o p /\ UNCHANGED <<ring, kernel>>
  BY DEF Transmit
<1>2. p \in Seq(Bytes) /\ Len(p) = FrameLen /\ FrameLen \in Nat /\ wire \in Seq(Bytes)
  BY TransportAssumption, FramedProperties, FrameLenAssumption DEF TypeOK
<1> HIDE DEF p
<1>3. /\ Len(wire') = Len(wire) + FrameLen
      /\ \A i \in 1 .. Len(wire) + FrameLen :
           wire'[i] = IF i <= Len(wire) THEN wire[i] ELSE p[i - Len(wire)]
  <2>1. /\ Len(wire \o p) = Len(wire) + Len(p)
        /\ \A i \in 1 .. Len(wire) + Len(p) :
             (wire \o p)[i] = IF i <= Len(wire) THEN wire[i] ELSE p[i - Len(wire)]
    BY <1>2, ConcatProperties
  <2> QED
    BY <1>1, <1>2, <2>1, Zenon
<1> QED
  BY <1>1, <1>2, <1>3, WireGrows DEF p

\* So does a byte of noise.
LEMMA DisturbAddsByte ==
  ASSUME TypeOK, NEW b \in Noise, Disturb(b)
  PROVE  /\ Total' = Total + 1
         /\ \A i \in 1 .. Total : Byte(i)' = Byte(i)
         /\ \A n : n = Total + 1 => Byte(n)' = b
<1> DEFINE p == <<b>>
<1>1. wire' = Append(wire, b) /\ UNCHANGED <<ring, kernel>>
  BY DEF Disturb
<1>2. wire \in Seq(Bytes) /\ Len(wire) \in Nat /\ b \in Bytes /\ p[1] = b
  BY LenProperties, TransportAssumption DEF TypeOK
<1> HIDE DEF p
<1>3. /\ Len(wire') = Len(wire) + 1 /\ wire'[Len(wire) + 1] = b
      /\ \A i \in 1 .. Len(wire) : wire'[i] = wire[i]
  BY <1>1, <1>2, AppendProperties
<1>4. ASSUME NEW i \in 1 .. Len(wire) + 1
      PROVE  wire'[i] = IF i <= Len(wire) THEN wire[i] ELSE p[i - Len(wire)]
  <2>1. \/ i \in 1 .. Len(wire) /\ i <= Len(wire)
        \/ i = Len(wire) + 1 /\ ~(i <= Len(wire)) /\ i - Len(wire) = 1
    BY <1>2, <1>4
  <2> QED
    BY <1>2, <1>3, <2>1, Zenon
<1>5. /\ Total' = Total + 1
      /\ \A i \in 1 .. Total : Byte(i)' = Byte(i)
      /\ \A i \in 1 .. 1 : \A n : n = Total + i => Byte(n)' = p[i]
  <2>1. 1 \in Nat
    OBVIOUS
  <2> QED
    BY <1>1, <1>3, <1>4, <2>1, WireGrows
<1>6. 1 \in 1 .. 1
  OBVIOUS
<1> QED
  BY <1>2, <1>5, <1>6, Zenon

\* A pop moves the bytes behind the frame it takes to the front.
LEMMA PopShifts ==
  ASSUME TypeOK, RxPop, HasFrame(ring), NEW k, k = First(ring) + FrameLen
  PROVE  /\ k \in FrameLen .. Size(ring) /\ Total' \in Nat /\ Total = Total' + k
         /\ \A i \in 1 .. Total' : \A n : n = k + i => Byte(i)' = Byte(n)
<1> DEFINE a == Size(ring)
           q == Contents(ring)
           q1 == Contents(ring')
           b == Len(kernel)
           w == Len(wire)
<1>1. a \in Nat /\ b \in Nat /\ w \in Nat /\ ring \in Rings
  BY TotalType
<1>2. /\ k \in FrameLen .. a /\ Size(ring') = a - k
      /\ \A i \in 1 .. a - k : q1[i] = q[k + i]
  <2>1. ring' = AfterPop(ring)
    BY DEF RxPop
  <2> QED
    BY <1>1, <2>1, PopTakes, Zenon
<1>3. FrameLen \in Nat
  BY FrameLenAssumption
<1>4. kernel' = kernel /\ wire' = wire
  BY DEF RxPop
<1> HIDE DEF a, b, w, q, q1
<1>5. Total = a + b + w /\ Total' = (a - k) + b + w
  BY <1>2, <1>4 DEF Total, a, b, w
<1>6. Total' \in Nat /\ Total = Total' + k
  BY <1>1, <1>2, <1>3, <1>5
<1>7. /\ \A i : Byte(i)' = IF i <= a - k THEN q1[i]
                           ELSE IF i <= (a - k) + b THEN kernel[i - (a - k)]
                           ELSE wire[i - ((a - k) + b)]
      /\ \A n : Byte(n) = IF n <= a THEN q[n]
                          ELSE IF n <= a + b THEN kernel[n - a] ELSE wire[n - (a + b)]
  BY <1>2, <1>4 DEF Byte, a, b, q, q1
<1>8. ASSUME NEW i \in 1 .. Total', NEW n, n = k + i PROVE Byte(i)' = Byte(n)
  <2>1. i \in Nat \ {0} /\ k \in Nat /\ k <= a
    BY <1>1, <1>2, <1>3, <1>6, <1>8
  <2>2. CASE i <= a - k
    <3>1. n <= a /\ i \in 1 .. a - k
      BY <1>1, <1>8, <2>1, <2>2
    <3> QED
      BY <1>2, <1>7, <1>8, <2>2, <3>1, Zenon DEF q, q1
  <2>3. CASE ~(i <= a - k)
    <3>1. /\ ~(n <= a) /\ n - a = i - (a - k) /\ n - (a + b) = i - ((a - k) + b)
          /\ (n <= a + b <=> i <= (a - k) + b)
      BY <1>1, <1>8, <2>1, <2>3
    <3> QED
      BY <1>7, <2>3, <3>1, Zenon
  <2> QED
    BY <2>2, <2>3
<1> QED
  BY <1>2, <1>6, <1>8 DEF a

\* It returns the message whose frame stands where the scan stops.
LEMMA PopReturns ==
  ASSUME TypeOK, RxPop, HasFrame(ring), NEW m \in Messages,
         \A i \in 1 .. FrameLen : \A n : n = First(ring) + i => Byte(n) = Framed(m)[i]
  PROVE  delivered' = Append(delivered, m)
<1> DEFINE c == Body(PoppedFrame(ring))
           f == First(ring)
           q == Contents(ring)
           p == Framed(m)
<1>1. ring \in Rings /\ Size(ring) \in Nat
  BY TotalType
<1>2. FrameLen \in Nat /\ FrameLen >= 4 /\ f \in Nat /\ f + FrameLen <= Size(ring)
  BY <1>1, StartProperties, FrameLenAssumption
<1>3. /\ m \in Seq(Bytes) /\ Len(m) = FrameLen - 4
      /\ \A i \in 1 .. FrameLen - 4 : p[i + 2] = m[i]
  BY TransportAssumption, FramedProperties
<1>4. /\ c \in Seq(Bytes) /\ Len(c) = FrameLen - 4
      /\ \A i \in 1 .. FrameLen - 4 : c[i] = q[f + 2 + i]
  BY <1>1, PoppedProperties
<1>5. delivered' = Append(delivered, c)
  BY DEF RxPop
<1>6. \A n : n <= Size(ring) => Byte(n) = q[n]
  BY DEF Byte
<1> HIDE DEF c, f, q, p
<1>7. ASSUME NEW i \in 1 .. FrameLen - 4 PROVE c[i] = m[i]
  <2>1. f + 2 + i = f + (i + 2) /\ i + 2 \in 1 .. FrameLen /\ f + (i + 2) <= Size(ring)
    BY <1>1, <1>2, <1>7
  <2>2. Byte(f + (i + 2)) = p[i + 2]
    BY <2>1, Zenon DEF f, p
  <2> QED
    BY <1>3, <1>4, <1>6, <1>7, <2>1, <2>2, ZenonT(40)
<1>8. c = m
  BY <1>3, <1>4, <1>7, SeqEqual
<1> QED
  BY <1>5, <1>8

\* A pop at a frame boundary takes exactly the first frame.
LEMMA PopTakesFirst ==
  ASSUME TypeOK, RxPop, HasFrame(ring), NEW m \in Messages,
         \A i \in 1 .. FrameLen : Byte(i) = Framed(m)[i]
  PROVE  /\ Total = Total' + FrameLen
         /\ \A i \in 1 .. Total' : \A n : n = FrameLen + i => Byte(i)' = Byte(n)
         /\ delivered' = Append(delivered, m)
<1> DEFINE p == Framed(m)
<1>1. ring \in Rings /\ Size(ring) \in Nat
  BY TotalType
<1>2. FrameLen \in Nat /\ FrameLen >= 4 /\ First(ring) \in Nat /\ First(ring) + FrameLen <= Size(ring)
  BY <1>1, StartProperties, FrameLenAssumption
<1>3. p[1] = "A" /\ p[2] = "T" /\ p[FrameLen - 1] = "CR" /\ p[FrameLen] = "LF"
  BY TransportAssumption, FramedProperties
<1>4. \A i \in 1 .. FrameLen : At(ring, i - 1) = p[i]
  <2> SUFFICES ASSUME NEW i \in 1 .. FrameLen PROVE At(ring, i - 1) = p[i]
    OBVIOUS
  <2>1. i \in 1 .. Size(ring) /\ i <= Size(ring)
    BY <1>1, <1>2
  <2>2. Byte(i) = Contents(ring)[i]
    BY <2>1, Zenon DEF Byte
  <2>3. Contents(ring)[i] = At(ring, i - 1)
    BY <1>1, <2>1, ContentsProperties
  <2> QED
    BY <2>2, <2>3
<1> HIDE DEF p
<1>5. 0 \in Starts(ring)
  <2>1. /\ 1 \in 1 .. FrameLen /\ 2 \in 1 .. FrameLen /\ FrameLen - 1 \in 1 .. FrameLen
        /\ FrameLen \in 1 .. FrameLen
        /\ 0 = 1 - 1 /\ 0 + 1 = 2 - 1 /\ 0 + FrameLen - 2 = (FrameLen - 1) - 1
        /\ 0 + FrameLen - 1 = FrameLen - 1 /\ 0 + FrameLen <= Size(ring)
    BY <1>1, <1>2
  <2>2. /\ At(ring, 0) = "A" /\ At(ring, 0 + 1) = "T"
        /\ At(ring, 0 + FrameLen - 2) = "CR" /\ At(ring, 0 + FrameLen - 1) = "LF"
    BY <1>3, <1>4, <2>1, Zenon
  <2>3. 0 \in 0 .. Capacity - 1
    BY CapacityAssumption
  <2> QED
    BY <2>1, <2>2, <2>3, Zenon DEF Starts
<1>6. First(ring) = 0
  BY <1>1, <1>2, <1>5, FirstIsStart
<1>7. FrameLen = First(ring) + FrameLen /\ \A i \in 1 .. FrameLen : First(ring) + i = i
  BY <1>2, <1>6
<1>8. \A i \in 1 .. FrameLen : \A n : n = First(ring) + i => Byte(n) = Framed(m)[i]
  BY <1>7, Zenon
<1> QED
  BY <1>7, <1>8, PopShifts, PopReturns, Zenon

\* Steps over which the bytes keep their places.
LEMMA AlignedStays ==
  ASSUME TypeOK, Aligned, Clean, open', UNCHANGED <<sent, delivered>>,
         Total' = Total, \A n \in 1 .. Total : Byte(n)' = Byte(n)
  PROVE  Aligned'
<1>1. Pending' = Pending
  BY DEF Pending
<1>2. /\ Pending \in Nat /\ Total = Offset(Pending) /\ \A j \in 0 .. Pending - 1 : FrameAt(j)
  BY DEF Aligned
<1>4. ASSUME NEW j \in 0 .. Pending - 1 PROVE FrameAt(j)'
  <2>2. ASSUME NEW i \in 1 .. FrameLen, NEW n, n = Offset(j) + i
        PROVE  Byte(n)' = Framed(sent[Len(delivered) + j + 1])[i]
    <3>1. n \in 1 .. Total
      <4>1. n \in 1 .. Offset(Pending)
        BY <1>2, <1>4, <2>2, FrameInside, Zenon
      <4> QED
        BY <1>2, <4>1, Zenon
    <3>2. Byte(n) = Framed(sent[Len(delivered) + j + 1])[i]
      BY <1>2, <1>4, <2>2, Zenon DEF FrameAt
    <3> QED
      BY <3>1, <3>2, Zenon
  <2>3. sent' = sent /\ delivered' = delivered
    OBVIOUS
  <2> QED
    BY <2>2, <2>3 DEF FrameAt
<1>5. Total' = Offset(Pending')
  BY <1>1, <1>2, Zenon
<1> QED
  BY <1>1, <1>2, <1>4, <1>5 DEF Aligned

LEMMA AlignedPop ==
  ASSUME TypeOK, Aligned, Ordered, Clean, RxPop, HasFrame(ring)
  PROVE  Aligned' /\ Ordered'
<1> DEFINE d == Len(delivered)
           m == sent[d + 1]
           P == Pending
<1>1. /\ P \in Nat /\ Total = Offset(P) /\ \A j \in 0 .. P - 1 : FrameAt(j)
      /\ open /\ d <= Len(sent) /\ \A i \in 1 .. d : delivered[i] = sent[i]
  BY DEF Aligned, Ordered
<1>2. d \in Nat /\ Len(sent) \in Nat /\ P = Len(sent) - d /\ Total \in Nat
  BY TotalType DEF Pending
<1>3. P > 0
  <2>1. FrameLen <= Total
    <3>1. /\ Size(ring) \in Nat /\ Len(kernel) \in Nat /\ Len(wire) \in Nat /\ ring \in Rings
      BY TotalType
    <3>2. First(ring) \in Nat /\ First(ring) + FrameLen <= Size(ring)
      BY <3>1, StartProperties
    <3>3. FrameLen \in Nat
      BY FrameLenAssumption
    <3> QED
      BY <3>1, <3>2, <3>3 DEF Total
  <2>2. P # 0
    BY <1>1, <2>1, OffsetNext
  <2> QED
    BY <1>1, <2>2
<1>4. m \in Messages
  <2>1. d + 1 \in 1 .. Len(sent) /\ sent \in Seq(Messages)
    BY <1>2, <1>3 DEF TypeOK
  <2> QED
    BY <2>1, ElementOfSeq
<1>5. \A i \in 1 .. FrameLen : Byte(i) = Framed(m)[i]
  <2>1. 0 \in 0 .. P - 1 /\ d + 0 + 1 = d + 1
    BY <1>1, <1>2, <1>3
  <2>2. \A i \in 1 .. FrameLen : Offset(0) + i = i
    BY OffsetNext
  <2>3. FrameAt(0)
    BY <1>1, <2>1
  <2> QED
    BY <2>1, <2>2, <2>3, Zenon DEF FrameAt
<1> HIDE DEF P, m
<1>6. /\ Total = Total' + FrameLen
      /\ \A i \in 1 .. Total' : \A n : n = FrameLen + i => Byte(i)' = Byte(n)
      /\ delivered' = Append(delivered, m)
  BY <1>4, <1>5, PopTakesFirst
<1>7. sent' = sent /\ open' = open
  BY DEF RxPop
<1>8. /\ Len(delivered') = d + 1 /\ delivered'[d + 1] = m
      /\ \A i \in 1 .. d : delivered'[i] = delivered[i]
  <2>1. delivered \in Seq(Seq(Bytes)) /\ m \in Seq(Bytes)
    BY <1>4, TransportAssumption DEF TypeOK
  <2> QED
    BY <1>6, <2>1, AppendProperties
<1> HIDE DEF d
<1>9. Ordered'
  <2>1. d + 1 <= Len(sent)
    BY <1>2, <1>3
  <2>2. ASSUME NEW i \in 1 .. d + 1 PROVE delivered'[i] = sent[i]
    <3>1. i \in 1 .. d \/ i = d + 1
      BY <1>2, <2>2
    <3> QED
      BY <1>1, <1>8, <3>1, Zenon DEF m
  <2> QED
    BY <1>7, <1>8, <2>1, <2>2, Zenon DEF Ordered
<1>10. Pending' = P - 1 /\ P - 1 \in Nat
  BY <1>2, <1>3, <1>7, <1>8 DEF Pending
<1>11. Total' \in Nat /\ Total' = Offset(P - 1)
  <2>1. Offset(P - 1) + FrameLen = Offset(P) /\ FrameLen \in Nat /\ Offset(P - 1) \in Nat
    <3>1. (P - 1) + 1 = P
      BY <1>1
    <3> QED
      BY <1>10, <3>1, OffsetNext
  <2>2. Total' \in Int
    <3>1. Size(ring') \in Nat /\ ring' \in Rings
      <4>1. ring' \in Rings
        BY PopTakes DEF RxPop, TypeOK
      <4> QED
        BY <4>1, SizeProperties
    <3>2. kernel' = kernel /\ wire' = wire
      BY DEF RxPop
    <3> QED
      BY <3>1, <3>2, TotalType DEF Total
  <2>3. Total = Offset(P) /\ Total = Total' + FrameLen
    BY <1>1, <1>6
  <2> QED
    BY <2>1, <2>2, <2>3
<1>12. ASSUME NEW j \in 0 .. (P - 1) - 1 PROVE FrameAt(j)'
  <2>1. /\ j \in Nat /\ j + 1 \in 0 .. P - 1 /\ d + (j + 1) + 1 = (d + 1) + j + 1
    BY <1>1, <1>2, <1>12
  <2>2. /\ Offset(j) \in Nat
        /\ Offset(j + 1) = Offset(j) + FrameLen /\ FrameLen \in Nat
    BY <2>1, OffsetNext
  <2>3. ASSUME NEW i \in 1 .. FrameLen, NEW n, n = Offset(j) + i
        PROVE  Byte(n)' = Framed(sent[(d + 1) + j + 1])[i]
    <3>1. n \in 1 .. Total' /\ FrameLen + n = Offset(j + 1) + i
      <4>1. n \in 1 .. Offset(P - 1)
        BY <1>10, <1>12, <2>3, FrameInside, Zenon
      <4> QED
        BY <1>11, <2>2, <2>3, <4>1
    <3>2. Byte(n)' = Byte(Offset(j + 1) + i)
      BY <1>6, <3>1, Zenon
    <3>3. Byte(Offset(j + 1) + i) = Framed(sent[d + (j + 1) + 1])[i]
      BY <1>1, <2>1, <2>3, Zenon DEF FrameAt, d
    <3> QED
      BY <2>1, <3>2, <3>3, Zenon
  <2> QED
    BY <1>7, <1>8, <2>3 DEF FrameAt
<1> QED
  BY <1>1, <1>7, <1>9, <1>10, <1>11, <1>12 DEF Aligned

LEMMA AlignedTransmit ==
  ASSUME TypeOK, Aligned, Ordered, Clean, NEW m \in Messages, Transmit(m)
  PROVE  Aligned' /\ Ordered'
<1> DEFINE d == Len(delivered)
           s == Len(sent)
           P == Pending
<1>1. /\ P \in Nat /\ Total = Offset(P) /\ \A j \in 0 .. P - 1 : FrameAt(j)
      /\ open /\ d <= s /\ \A i \in 1 .. d : delivered[i] = sent[i]
  BY DEF Aligned, Ordered
<1>2. d \in Nat /\ s \in Nat /\ P = s - d /\ Total \in Nat
  BY TotalType DEF Pending
<1>3. /\ Total' = Total + FrameLen
      /\ \A i \in 1 .. Total : Byte(i)' = Byte(i)
      /\ \A i \in 1 .. FrameLen : \A n : n = Total + i => Byte(n)' = Framed(m)[i]
  BY TransmitAddsFrame
<1>4. /\ Len(sent') = s + 1 /\ sent'[s + 1] = m
      /\ \A i \in 1 .. s : sent'[i] = sent[i]
  BY AppendProperties DEF Transmit, TypeOK
<1>5. delivered' = delivered /\ open' = open
  BY DEF Transmit
<1>6. Pending' = P + 1 /\ P + 1 \in Nat
  <2>1. Pending' = (s + 1) - d
    BY <1>4, <1>5 DEF Pending
  <2>2. d \in Nat /\ s \in Nat /\ P = s - d /\ d <= s
    BY <1>1, <1>2
  <2> HIDE DEF s, d, P
  <2> QED
    BY <2>1, <2>2
<1> HIDE DEF d, s, P
<1>7. Total' = Offset(P + 1)
  BY <1>1, <1>3, OffsetNext, Zenon
<1>8. ASSUME NEW j \in 0 .. (P + 1) - 1 PROVE FrameAt(j)'
  <2>1. j \in 0 .. P - 1 \/ j = P
    BY <1>1, <1>8
  <2>2. ASSUME NEW i \in 1 .. FrameLen, NEW n, n = Offset(j) + i, j \in 0 .. P - 1
        PROVE  Byte(n)' = Framed(sent'[d + j + 1])[i]
    <3>1. n \in 1 .. Total
      BY <1>1, <2>2, FrameInside, Zenon
    <3>2. Byte(n) = Framed(sent[d + j + 1])[i]
      BY <1>1, <2>2, Zenon DEF FrameAt, d
    <3>3. d + j + 1 \in 1 .. s
      BY <1>1, <1>2, <2>2
    <3> QED
      BY <1>3, <1>4, <3>1, <3>2, <3>3, Zenon
  <2>3. ASSUME NEW i \in 1 .. FrameLen, NEW n, n = Offset(j) + i, j = P
        PROVE  Byte(n)' = Framed(sent'[d + j + 1])[i]
    <3>1. d + j + 1 = s + 1
      BY <1>1, <1>2, <2>3
    <3>2. n = Total + i
      BY <1>1, <2>3, Zenon
    <3> QED
      BY <1>3, <1>4, <3>1, <3>2, Zenon
  <2>4. \A i \in 1 .. FrameLen : \A n : n = Offset(j) + i => Byte(n)' = Framed(sent'[d + j + 1])[i]
    BY <2>1, <2>2, <2>3, Zenon
  <2> QED
    BY <1>5, <2>4 DEF FrameAt, d
<1>9. Ordered'
  <2>1. d <= s + 1 /\ \A i \in 1 .. d : i \in 1 .. s
    BY <1>1, <1>2
  <2> QED
    BY <1>1, <1>4, <1>5, <2>1, Zenon DEF Ordered, d
<1> QED
  BY <1>1, <1>5, <1>6, <1>7, <1>8, <1>9 DEF Aligned

LEMMA OrderInit == Init => Aligned /\ Ordered
<1> SUFFICES ASSUME Init PROVE Aligned /\ Ordered
  OBVIOUS
<1>1. Size(ring) = 0
  BY CapacityAssumption DEF Init, Size, Mask
<1>2. /\ kernel = <<>> /\ wire = <<>> /\ sent = <<>> /\ delivered = <<>> /\ open
  BY DEF Init
<1>3. Total = 0 /\ Pending = 0
  BY <1>1, <1>2 DEF Total, Pending
<1>4. Offset(0) = 0
  BY OffsetNext
<1> QED
  BY <1>2, <1>3, <1>4 DEF Aligned, Ordered

LEMMA OrderStep == TypeOK /\ TypeOK' /\ Aligned /\ Ordered /\ [Next]_vars => Aligned' /\ Ordered'
<1> SUFFICES ASSUME TypeOK, TypeOK', Aligned, Ordered, [Next]_vars, Clean'
             PROVE  Aligned' /\ Ordered'
  BY DEF Aligned, Ordered
<1>1. /\ closes \in Nat /\ noise \in Nat /\ dropped \in BOOLEAN
      /\ noise' = 0 /\ closes' = 0 /\ ~dropped'
  BY TransportAssumption DEF TypeOK, Clean
<1>2. CASE Connect
  <2>1. Clean
    BY <1>1, <1>2 DEF Connect, Clean
  <2> QED
    BY <1>2, <2>1 DEF Connect, Aligned
<1>3. CASE Disconnect
  BY <1>1, <1>3 DEF Disconnect
<1>4. CASE RxDrain
  <2>1. Clean /\ ~dropped'
    BY <1>1, <1>4 DEF RxDrain, Clean
  <2>2. open' /\ UNCHANGED <<sent, delivered>>
    BY <1>4 DEF RxDrain
  <2>3. Aligned'
    BY <1>4, <2>1, <2>2, DrainKeepsBytes, AlignedStays
  <2> QED
    BY <2>1, <2>2, <2>3 DEF Ordered
<1>5. CASE Arrive
  <2>1. Clean
    BY <1>1, <1>5 DEF Arrive, Clean
  <2>2. open /\ open' /\ UNCHANGED <<sent, delivered>>
    BY <1>5, <2>1 DEF Arrive, Aligned
  <2>3. Aligned'
    BY <1>5, <2>1, <2>2, ArriveKeepsBytes, AlignedStays
  <2> QED
    BY <2>1, <2>2, <2>3 DEF Ordered
<1>6. CASE RxPop /\ HasFrame(ring)
  <2>1. Clean
    BY <1>1, <1>6 DEF RxPop, Clean
  <2> QED
    BY <1>6, <2>1, AlignedPop
<1>7. ASSUME NEW m \in Messages, Transmit(m) PROVE Aligned' /\ Ordered'
  <2>1. Clean
    BY <1>1, <1>7 DEF Transmit, Clean
  <2> QED
    BY <1>7, <2>1, AlignedTransmit
<1>8. ASSUME NEW b \in Noise, Disturb(b) PROVE FALSE
  BY <1>1, <1>8 DEF Disturb
<1>9. CASE UNCHANGED <<open, ring, wire, kernel, sent, delivered, dropped, noise, closes>>
  <2>1. Clean
    BY <1>1, <1>9 DEF Clean
  <2>2. Total' = Total /\ \A n \in 1 .. Total : Byte(n)' = Byte(n)
    BY <1>9 DEF Total, Byte
  <2>3. open' /\ UNCHANGED <<sent, delivered>>
    BY <1>9, <2>1 DEF Aligned
  <2>4. Aligned'
    BY <2>1, <2>2, <2>3, AlignedStays
  <2> QED
    BY <2>1, <2>3, <2>4 DEF Ordered
<1>10. RxPop /\ ~HasFrame(ring) => UNCHANGED <<open, ring, wire, kernel, sent, delivered, dropped, noise, closes>>
  BY DEF RxPop, AfterPop
<1>11. RxCall \/ RxDrained \/ UNCHANGED vars
         => UNCHANGED <<open, ring, wire, kernel, sent, delivered, dropped, noise, closes>>
  BY DEF RxCall, RxDrained, vars
<1> QED
  BY <1>2, <1>3, <1>4, <1>5, <1>6, <1>7, <1>8, <1>9, <1>10, <1>11 DEF Next, RxStep

\* While the link is clean, that is no noise, no close and no byte dropped by push(),
\* receive() returns the messages one by one as they were sent, for every capacity of
\* the ring, every chunk of a read and however the bytes are split on their way.
THEOREM DeliveredInSequence == Spec => []DeliveredOneByOne
<1>1. TypeOK /\ Ordered => DeliveredOneByOne
  <2> SUFFICES ASSUME TypeOK, Ordered, Clean
               PROVE  Len(delivered) <= Len(sent) /\ \A i \in DOMAIN delivered : delivered[i] = sent[i]
    BY DEF DeliveredOneByOne, Clean
  <2>1. DOMAIN delivered = 1 .. Len(delivered)
    BY LenProperties DEF TypeOK
  <2> QED
    BY <2>1 DEF Ordered
<1> QED
  BY <1>1, SerialTypeInit, SerialTypeStep, OrderInit, OrderStep, PTL DEF Spec

-----------------------------------------------------------------------------
(* Order over a line with noise and reconnections                          *)

\* Where bytes x and y follow each other.
Anchors(x, y) == {n \in 1 .. Total - 1 : Byte(n) = x /\ Byte(n + 1) = y}

\* Around n, its place c, lies the frame of message m, or the end of it that is left.
Around(n, c, m) ==
  /\ n - c + FrameLen <= Total
  /\ \A i \in 1 .. FrameLen : \A k : k = n - c + i /\ k >= 1 => Byte(k) = Framed(m)[i]

\* Every anchor is that of a sent frame, in order, behind those of the messages returned.
Accounted(x, y, c) ==
  \E g \in [DOMAIN delivered -> DOMAIN sent], f \in [Anchors(x, y) -> DOMAIN sent] :
    /\ \A i \in DOMAIN delivered : delivered[i] = sent[g[i]]
    /\ \A i, j \in DOMAIN delivered : i < j => g[i] < g[j]
    /\ \A n \in Anchors(x, y) : Around(n, c, sent[f[n]])
    /\ \A n, k \in Anchors(x, y) : n < k => f[n] < f[k]
    /\ \A i \in DOMAIN delivered, n \in Anchors(x, y) : g[i] < f[n]

\* A closed port holds nothing.
Quiet == ~open => Size(ring) = 0 /\ kernel = <<>>

\* The line ends with a frame or with noise.
LastByte == \A n \in Nat \ {0} : n = Total => Byte(n) \in Noise \cup {"LF"}

OrderInv(x, y, c) == Quiet /\ (~dropped => LastByte /\ Accounted(x, y, c))

\* The two pairs of bytes pop_frame looks for.
IsAnchor(x, y, c) == \/ x = "A" /\ y = "T" /\ c = 1
                     \/ x = "CR" /\ y = "LF" /\ c = FrameLen - 1

LEMMA AnchorPlace ==
  ASSUME NEW x, NEW y, NEW c, IsAnchor(x, y, c)
  PROVE  c \in 1 .. FrameLen - 1 /\ y # "A" /\ x # "LF" /\ FrameLen \in Nat /\ FrameLen >= 4
BY FrameLenAssumption DEF IsAnchor

LEMMA AnchorInFrame ==
  ASSUME NEW x, NEW y, NEW c, IsAnchor(x, y, c), NEW m \in Messages
  PROVE  Framed(m)[c] = x /\ Framed(m)[c + 1] = y /\ Framed(m)[1] = "A" /\ Framed(m)[FrameLen] = "LF"
<1>1. /\ Framed(m)[1] = "A" /\ Framed(m)[2] = "T"
      /\ Framed(m)[FrameLen - 1] = "CR" /\ Framed(m)[FrameLen] = "LF"
  BY TransportAssumption, FramedProperties
<1>2. 1 + 1 = 2 /\ (FrameLen - 1) + 1 = FrameLen
  BY FrameLenAssumption
<1> QED
  BY <1>1, <1>2, Zenon DEF IsAnchor

LEMMA NextTotalType ==
  ASSUME TypeOK'
  PROVE  /\ Total' \in Nat /\ Len(sent') \in Nat /\ Len(delivered') \in Nat
         /\ DOMAIN (sent') = 1 .. Len(sent') /\ DOMAIN (delivered') = 1 .. Len(delivered')
<1>1. /\ ring' \in Rings /\ kernel' \in Seq(Bytes) /\ wire' \in Seq(Bytes)
      /\ sent' \in Seq(Messages) /\ delivered' \in Seq(Seq(Bytes))
  BY DEF TypeOK
<1>2. Size(ring') \in Nat /\ Len(kernel') \in Nat /\ Len(wire') \in Nat
  BY <1>1, SizeProperties, LenProperties
<1>3. Total' = Size(ring') + Len(kernel') + Len(wire')
  BY DEF Total
<1> QED
  BY <1>1, <1>2, <1>3, LenProperties

\* The first d bytes are gone and the others have moved up.
Moved(d) == /\ Total = Total' + d
            /\ \A i \in 1 .. Total' : \A n : n = d + i => Byte(i)' = Byte(n)

\* The same after the step.
AroundNext(n, c, m) ==
  /\ n - c + FrameLen <= Total'
  /\ \A i \in 1 .. FrameLen : \A k : k = n - c + i /\ k >= 1 => Byte(k)' = Framed(m)[i]

\* What shows that every anchor is accounted for after the step.
LEMMA AccountedNext ==
  ASSUME NEW x, NEW y, NEW c,
         NEW g \in [DOMAIN delivered' -> DOMAIN sent'],
         NEW f \in [Anchors(x, y)' -> DOMAIN sent'],
         \A i \in DOMAIN delivered' : delivered'[i] = sent'[g[i]],
         \A i, j \in DOMAIN delivered' : i < j => g[i] < g[j],
         \A n \in Anchors(x, y)' : AroundNext(n, c, sent'[f[n]]),
         \A n, k \in Anchors(x, y)' : n < k => f[n] < f[k],
         \A i \in DOMAIN delivered', n \in Anchors(x, y)' : g[i] < f[n]
  PROVE  Accounted(x, y, c)'
<1> DEFINE B == Anchors(x, y)'
<1>1. \A n \in B : Around(n, c, sent[f[n]])'
  BY Zenon DEF Around, AroundNext
<1> QED
  BY <1>1, Zenon DEF Accounted

\* Places counted from the front before and after the first d bytes of t have gone.
LEMMA Shifted ==
  ASSUME NEW t \in Nat, NEW u \in Nat, NEW d \in Nat, t = u + d,
         NEW n \in Int, NEW c \in Int, NEW l \in Nat
  PROVE  /\ n \in 1 .. u => d + n \in 1 .. t
         /\ n \in 1 .. u - 1 => /\ n \in 1 .. u /\ n + 1 \in 1 .. u
                                /\ d + n \in 1 .. t - 1 /\ (d + n) + 1 = d + (n + 1)
         /\ (d + n) - c + l <= t => n - c + l <= u
OBVIOUS

\* Such steps keep what is said of the others.
LEMMA AnchorsForward ==
  ASSUME NEW x, NEW y, NEW c \in Int, TypeOK, TypeOK', NEW d \in Nat, Moved(d)
  PROVE  /\ \A n \in Anchors(x, y)' : n \in Nat /\ d + n \in Anchors(x, y)
         /\ \A n \in Anchors(x, y)' : \A m : Around(d + n, c, m) => AroundNext(n, c, m)
         /\ LastByte => LastByte'
<1> DEFINE t == Total
           u == Total'
<1>1. t \in Nat /\ u \in Nat /\ FrameLen \in Nat /\ t = u + d
  BY TotalType, NextTotalType, FrameLenAssumption DEF Moved
<1>2. \A i \in 1 .. u : \A n : n = d + i => Byte(i)' = Byte(n)
  BY DEF Moved
<1>3. \A n : n \in Anchors(x, y)' <=> n \in 1 .. u - 1 /\ Byte(n)' = x /\ Byte(n + 1)' = y
  BY DEF Anchors
<1>4. \A n : n \in Anchors(x, y) <=> n \in 1 .. t - 1 /\ Byte(n) = x /\ Byte(n + 1) = y
  BY DEF Anchors
<1>5. \A n, m : Around(n, c, m) <=>
        /\ n - c + FrameLen <= t
        /\ \A i \in 1 .. FrameLen : \A k : k = n - c + i /\ k >= 1 => Byte(k) = Framed(m)[i]
  BY DEF Around
<1>6. \A n, m : AroundNext(n, c, m) <=>
        /\ n - c + FrameLen <= u
        /\ \A i \in 1 .. FrameLen : \A k : k = n - c + i /\ k >= 1 => Byte(k)' = Framed(m)[i]
  BY DEF AroundNext
<1>7. LastByte <=> \A n \in Nat \ {0} : n = t => Byte(n) \in Noise \cup {"LF"}
  BY DEF LastByte
<1>8. LastByte' <=> \A n \in Nat \ {0} : n = u => Byte(n)' \in Noise \cup {"LF"}
  BY DEF LastByte
<1> HIDE DEF t, u
<1>9. ASSUME NEW n \in Anchors(x, y)' PROVE n \in Nat /\ d + n \in Anchors(x, y)
  <2>1. n \in 1 .. u - 1 /\ Byte(n)' = x /\ Byte(n + 1)' = y
    BY <1>3, <1>9, Zenon
  <2>2. n \in Nat
    BY <1>1, <2>1
  <2>3. /\ n \in 1 .. u /\ n + 1 \in 1 .. u
        /\ d + n \in 1 .. t - 1 /\ (d + n) + 1 = d + (n + 1)
    BY <1>1, <2>1, <2>2, Shifted
  <2> QED
    BY <1>2, <1>4, <2>1, <2>2, <2>3, Zenon
<1>10. ASSUME NEW n \in Anchors(x, y)', NEW m, Around(d + n, c, m) PROVE AroundNext(n, c, m)
  <2>1. n \in Int
    BY <1>9, <1>10
  <2>2. (d + n) - c + FrameLen <= t
    BY <1>5, <1>10, Zenon
  <2>3. n - c + FrameLen <= u
    BY <1>1, <2>1, <2>2, Shifted
  <2>4. ASSUME NEW i \in 1 .. FrameLen, NEW k, k = n - c + i, k >= 1
        PROVE  Byte(k)' = Framed(m)[i]
    <3>1. k \in 1 .. u /\ d + k = (d + n) - c + i /\ d + k >= 1
      BY <1>1, <2>1, <2>3, <2>4
    <3>2. Byte(d + k) = Framed(m)[i]
      BY <1>5, <1>10, <2>4, <3>1, ZenonT(40)
    <3> QED
      BY <1>2, <3>1, <3>2, Zenon
  <2> QED
    BY <1>6, <2>3, <2>4, Zenon
<1>11. ASSUME LastByte, NEW n \in Nat \ {0}, n = u
       PROVE  Byte(n)' \in Noise \cup {"LF"}
  <2>1. n \in 1 .. u
    BY <1>1, <1>11
  <2>2. d + n \in Nat \ {0}
    OBVIOUS
  <2>3. d + n = t
    BY <1>1, <1>11
  <2> QED
    BY <1>2, <1>7, <1>11, <2>1, <2>2, <2>3, Zenon
<1> QED
  BY <1>8, <1>9, <1>10, <1>11, Zenon

LEMMA AccountedStays ==
  ASSUME NEW x, NEW y, NEW c \in Int, TypeOK, TypeOK', NEW d \in Nat, Moved(d),
         UNCHANGED <<sent, delivered>>, Accounted(x, y, c)
  PROVE  Accounted(x, y, c)'
<1>1. PICK g \in [DOMAIN delivered -> DOMAIN sent], f \in [Anchors(x, y) -> DOMAIN sent] :
        /\ \A i \in DOMAIN delivered : delivered[i] = sent[g[i]]
        /\ \A i, j \in DOMAIN delivered : i < j => g[i] < g[j]
        /\ \A n \in Anchors(x, y) : Around(n, c, sent[f[n]])
        /\ \A n, k \in Anchors(x, y) : n < k => f[n] < f[k]
        /\ \A i \in DOMAIN delivered, n \in Anchors(x, y) : g[i] < f[n]
  BY DEF Accounted
<1> DEFINE A == Anchors(x, y)
           B == Anchors(x, y)'
           h == [n \in B |-> f[d + n]]
<1>2. /\ \A n \in B : n \in Nat /\ d + n \in A
      /\ \A n \in B : \A m : Around(d + n, c, m) => AroundNext(n, c, m)
  BY AnchorsForward, Zenon
<1>3. sent' = sent /\ delivered' = delivered
  OBVIOUS
<1> HIDE DEF A, B
<1>4. h \in [B -> DOMAIN sent] /\ \A n \in B : h[n] = f[d + n]
  BY <1>2, Zenon DEF A
<1> HIDE DEF h
<1>5. \A n \in B : AroundNext(n, c, sent[h[n]])
  BY <1>1, <1>2, <1>4, Zenon DEF A
<1>6. \A n, k \in B : n < k => h[n] < h[k]
  <2>1. \A n, k \in B : n < k => d + n < d + k
    BY <1>2
  <2> QED
    BY <1>1, <1>2, <1>4, <2>1, Zenon DEF A
<1>7. \A i \in DOMAIN delivered, n \in B : g[i] < h[n]
  BY <1>1, <1>2, <1>4, Zenon DEF A
<1>8. g \in [DOMAIN delivered' -> DOMAIN sent'] /\ h \in [B -> DOMAIN sent']
  BY <1>3, <1>4
<1>9. /\ \A i \in DOMAIN delivered' : delivered'[i] = sent'[g[i]]
      /\ \A i, j \in DOMAIN delivered' : i < j => g[i] < g[j]
      /\ \A n \in B : AroundNext(n, c, sent'[h[n]])
      /\ \A i \in DOMAIN delivered', n \in B : g[i] < h[n]
  BY <1>1, <1>3, <1>5, <1>7
<1> QED
  BY <1>6, <1>8, <1>9, AccountedNext DEF B

\* Where the scan stops, the frame of one of the messages sent stands.
LEMMA FoundAnchor ==
  ASSUME NEW x, NEW y, NEW c, IsAnchor(x, y, c), TypeOK, HasFrame(ring)
  PROVE  /\ First(ring) \in Nat /\ First(ring) + c \in Anchors(x, y)
         /\ (First(ring) + c) - c = First(ring)
         /\ First(ring) + c < First(ring) + FrameLen
<1> DEFINE s == First(ring)
           z == Size(ring)
<1>1. ring \in Rings /\ z \in Nat /\ Total \in Nat /\ z <= Total
  BY TotalType DEF Total
<1>2. s \in Starts(ring) /\ s \in Nat /\ s + FrameLen <= z
  BY <1>1, FirstIsStart, StartProperties
<1>3. /\ At(ring, s) = "A" /\ At(ring, s + 1) = "T"
      /\ At(ring, s + FrameLen - 2) = "CR" /\ At(ring, s + FrameLen - 1) = "LF"
  BY <1>2 DEF Starts
<1>4. FrameLen \in Nat /\ FrameLen >= 4
  BY FrameLenAssumption
<1>5. \A n \in 1 .. z : Byte(n) = At(ring, n - 1)
  <2> SUFFICES ASSUME NEW n \in 1 .. z PROVE Byte(n) = At(ring, n - 1)
    OBVIOUS
  <2>1. n <= z
    BY <1>1
  <2>2. Byte(n) = Contents(ring)[n]
    BY <2>1, Zenon DEF Byte
  <2> QED
    BY <1>1, <2>2, ContentsProperties
<1>6. \A n : n \in 1 .. Total - 1 /\ Byte(n) = x /\ Byte(n + 1) = y => n \in Anchors(x, y)
  BY DEF Anchors
<1> HIDE DEF s, z
<1>7. CASE x = "A" /\ y = "T" /\ c = 1
  <2>1. /\ s + 1 \in 1 .. z /\ (s + 1) + 1 \in 1 .. z
        /\ (s + 1) - 1 = s /\ ((s + 1) + 1) - 1 = s + 1
    BY <1>1, <1>2, <1>4
  <2>2. s + 1 \in 1 .. Total - 1 /\ s + 1 < s + FrameLen
    BY <1>1, <1>2, <1>4
  <2>3. Byte(s + 1) = "A" /\ Byte((s + 1) + 1) = "T"
    BY <1>3, <1>5, <2>1, Zenon
  <2>4. s + 1 \in Anchors(x, y)
    BY <1>6, <1>7, <2>2, <2>3, Zenon
  <2> QED
    BY <1>2, <1>7, <2>1, <2>2, <2>4, Zenon DEF s
<1>8. CASE x = "CR" /\ y = "LF" /\ c = FrameLen - 1
  <2> DEFINE n == s + (FrameLen - 1)
  <2>1. /\ n \in 1 .. z /\ n + 1 \in 1 .. z
        /\ n - 1 = s + FrameLen - 2 /\ (n + 1) - 1 = s + FrameLen - 1
    BY <1>1, <1>2, <1>4
  <2>2. n \in 1 .. Total - 1 /\ n < s + FrameLen /\ n - (FrameLen - 1) = s
    BY <1>1, <1>2, <1>4
  <2> HIDE DEF n
  <2>3. Byte(n) = "CR" /\ Byte(n + 1) = "LF"
    BY <1>3, <1>5, <2>1, Zenon
  <2>4. n \in Anchors(x, y)
    BY <1>6, <1>8, <2>2, <2>3, Zenon
  <2> QED
    BY <1>2, <1>8, <2>2, <2>4, Zenon DEF s, n
<1> QED
  BY <1>7, <1>8 DEF IsAnchor

LEMMA AccountedPop ==
  ASSUME NEW x, NEW y, NEW c, IsAnchor(x, y, c), TypeOK, TypeOK', RxPop, HasFrame(ring),
         LastByte, Accounted(x, y, c)
  PROVE  LastByte' /\ Accounted(x, y, c)'
<1>1. PICK g \in [DOMAIN delivered -> DOMAIN sent], f \in [Anchors(x, y) -> DOMAIN sent] :
        /\ \A i \in DOMAIN delivered : delivered[i] = sent[g[i]]
        /\ \A i, j \in DOMAIN delivered : i < j => g[i] < g[j]
        /\ \A n \in Anchors(x, y) : Around(n, c, sent[f[n]])
        /\ \A n, k \in Anchors(x, y) : n < k => f[n] < f[k]
        /\ \A i \in DOMAIN delivered, n \in Anchors(x, y) : g[i] < f[n]
  BY DEF Accounted
<1> DEFINE A == Anchors(x, y)
           B == Anchors(x, y)'
           s == First(ring)
           d == s + FrameLen
           a == s + c
           e == Len(delivered)
           m == sent[f[a]]
           h == [n \in B |-> f[d + n]]
           r == [i \in 1 .. e + 1 |-> IF i = e + 1 THEN f[a] ELSE g[i]]
<1>2. c \in 1 .. FrameLen - 1 /\ c \in Int /\ FrameLen \in Nat
  BY AnchorPlace
<1>3. s \in Nat /\ a \in A /\ a - c = s /\ a < d
  BY FoundAnchor
<1>4. d \in Nat /\ a \in Int
  BY <1>2, <1>3
<1>5. Moved(d)
  <2>1. d = First(ring) + FrameLen
    OBVIOUS
  <2> HIDE DEF d
  <2> QED
    BY <2>1, PopShifts DEF Moved
<1> HIDE DEF d
<1>6. /\ \A n \in B : n \in Nat /\ d + n \in A
      /\ \A n \in B : \A k : Around(d + n, c, k) => AroundNext(n, c, k)
      /\ LastByte'
  BY <1>2, <1>4, <1>5, AnchorsForward, Zenon
<1>7. /\ e \in Nat /\ DOMAIN delivered = 1 .. e /\ Len(sent) \in Nat /\ DOMAIN sent = 1 .. Len(sent)
      /\ sent \in Seq(Messages) /\ delivered \in Seq(Seq(Bytes))
  BY TotalType, LenProperties DEF TypeOK
<1> HIDE DEF A, B, a, s, e
<1>8. f[a] \in DOMAIN sent /\ m \in Messages
  <2>1. f[a] \in DOMAIN sent
    BY <1>1, <1>3 DEF A
  <2> QED
    BY <1>7, <2>1, ElementOfSeq
<1> HIDE DEF m
<1>9. delivered' = Append(delivered, m)
  <2>1. Around(a, c, m)
    BY <1>1, <1>3, Zenon DEF A, m
  <2>2. \A i \in 1 .. FrameLen : \A n : n = s + i => Byte(n) = Framed(m)[i]
    <3> SUFFICES ASSUME NEW i \in 1 .. FrameLen, NEW n, n = s + i PROVE Byte(n) = Framed(m)[i]
      OBVIOUS
    <3>1. n >= 1
      BY <1>2, <1>3
    <3>2. n = a - c + i
      BY <1>3, Zenon
    <3> QED
      BY <2>1, <3>1, <3>2, Zenon DEF Around
  <2> QED
    BY <1>8, <2>2, PopReturns DEF s
<1>10. sent' = sent
  BY DEF RxPop
<1>11. /\ DOMAIN delivered' = 1 .. e + 1 /\ delivered'[e + 1] = m
       /\ \A i \in 1 .. e : delivered'[i] = delivered[i]
  <2>1. m \in Seq(Bytes)
    BY <1>8, TransportAssumption
  <2>2. delivered' \in Seq(Seq(Bytes)) /\ Len(delivered') = e + 1
    BY <1>7, <1>9, <2>1, AppendProperties DEF e
  <2> QED
    BY <1>7, <1>9, <2>1, <2>2, AppendProperties, LenProperties DEF e
<1>12. h \in [B -> DOMAIN sent] /\ \A n \in B : h[n] = f[d + n]
  BY <1>1, <1>6, Zenon DEF A
<1>13. /\ \A i \in 1 .. e : r[i] = g[i]
       /\ r[e + 1] = f[a] /\ r \in [1 .. e + 1 -> DOMAIN sent]
  <2>1. \A i \in 1 .. e : i \in 1 .. e + 1 /\ i # e + 1
    BY <1>7
  <2>2. \A i \in 1 .. e + 1 : i = e + 1 \/ i \in 1 .. e
    BY <1>7
  <2>3. e + 1 \in 1 .. e + 1
    BY <1>7
  <2>4. \A i \in 1 .. e : g[i] \in DOMAIN sent
    BY <1>1, <1>7
  <2> QED
    BY <1>8, <2>1, <2>2, <2>3, <2>4, Zenon
<1> HIDE DEF h, r
<1>14. \A i \in 1 .. e + 1 : i = e + 1 \/ i \in 1 .. e
  BY <1>7
<1>15. \A i \in 1 .. e + 1 : delivered'[i] = sent[r[i]]
  BY <1>1, <1>7, <1>11, <1>13, <1>14, Zenon DEF m
<1>16. \A i, j \in 1 .. e + 1 : i < j => r[i] < r[j]
  <2>1. \A i, j \in 1 .. e + 1 : i < j => i \in 1 .. e /\ (j = e + 1 \/ j \in 1 .. e)
    BY <1>7
  <2>2. \A i \in 1 .. e : g[i] < f[a]
    BY <1>1, <1>3, <1>7, Zenon DEF A
  <2> QED
    BY <1>1, <1>7, <1>13, <2>1, <2>2, Zenon
<1>17. \A n \in B : AroundNext(n, c, sent[h[n]])
  BY <1>1, <1>6, <1>12, Zenon DEF A
<1>18. \A n, k \in B : n < k => h[n] < h[k]
  <2>1. \A n, k \in B : n < k => d + n < d + k
    BY <1>4, <1>6
  <2> QED
    BY <1>1, <1>6, <1>12, <2>1, Zenon DEF A
<1>19. \A i \in 1 .. e + 1, n \in B : r[i] < h[n]
  <2>1. \A n \in B : a < d + n
    BY <1>3, <1>4, <1>6
  <2>2. \A n \in B : f[a] < h[n]
    BY <1>1, <1>3, <1>6, <1>12, <2>1, Zenon DEF A
  <2>3. \A i \in 1 .. e, n \in B : g[i] < h[n]
    BY <1>1, <1>6, <1>7, <1>12, Zenon DEF A
  <2> QED
    BY <1>13, <1>14, <2>2, <2>3, Zenon
<1>20. r \in [DOMAIN delivered' -> DOMAIN sent'] /\ h \in [B -> DOMAIN sent']
  BY <1>10, <1>11, <1>12, <1>13
<1>21. /\ \A i \in DOMAIN delivered' : delivered'[i] = sent'[r[i]]
       /\ \A i, j \in DOMAIN delivered' : i < j => r[i] < r[j]
       /\ \A n \in B : AroundNext(n, c, sent'[h[n]])
       /\ \A i \in DOMAIN delivered', n \in B : r[i] < h[n]
  BY <1>10, <1>11, <1>15, <1>16, <1>17, <1>19
<1> QED
  BY <1>6, <1>18, <1>20, <1>21, AccountedNext DEF B

\* Steps that only add to the end of the line keep the anchors it has.
LEMMA AnchorsStay ==
  ASSUME NEW x, NEW y, NEW c \in Int, TypeOK, NEW l \in Nat, Total' = Total + l,
         \A i \in 1 .. Total : Byte(i)' = Byte(i)
  PROVE  /\ \A n \in Anchors(x, y)' : n \in Nat /\ n >= 1 /\ n < Total + l
                                      /\ Byte(n)' = x /\ Byte(n + 1)' = y
                                      /\ (n \in Anchors(x, y) \/ n >= Total)
         /\ \A n \in Anchors(x, y) : n \in Nat /\ n < Total
         /\ \A n \in Anchors(x, y) : \A m : Around(n, c, m) => AroundNext(n, c, m)
<1> DEFINE t == Total
<1>1. t \in Nat /\ FrameLen \in Nat
  BY TotalType, FrameLenAssumption
<1>2. Total' = t + l /\ \A i \in 1 .. t : Byte(i)' = Byte(i)
  OBVIOUS
<1>3. \A n : n \in Anchors(x, y)' <=> n \in 1 .. (t + l) - 1 /\ Byte(n)' = x /\ Byte(n + 1)' = y
  BY <1>2 DEF Anchors
<1>4. \A n : n \in Anchors(x, y) <=> n \in 1 .. t - 1 /\ Byte(n) = x /\ Byte(n + 1) = y
  BY DEF Anchors
<1>5. \A n, m : Around(n, c, m) <=>
        /\ n - c + FrameLen <= t
        /\ \A i \in 1 .. FrameLen : \A k : k = n - c + i /\ k >= 1 => Byte(k) = Framed(m)[i]
  BY DEF Around
<1>6. \A n, m : AroundNext(n, c, m) <=>
        /\ n - c + FrameLen <= t + l
        /\ \A i \in 1 .. FrameLen : \A k : k = n - c + i /\ k >= 1 => Byte(k)' = Framed(m)[i]
  BY <1>2 DEF AroundNext
<1> HIDE DEF t
<1>7. ASSUME NEW n \in Anchors(x, y)'
      PROVE  /\ n \in Nat /\ n >= 1 /\ n < t + l
             /\ Byte(n)' = x /\ Byte(n + 1)' = y
             /\ (n \in Anchors(x, y) \/ n >= t)
  <2>1. n \in 1 .. (t + l) - 1 /\ Byte(n)' = x /\ Byte(n + 1)' = y
    BY <1>3, <1>7, Zenon
  <2>2. n \in Nat /\ n >= 1 /\ n < t + l
    BY <1>1, <2>1
  <2>3. n >= t \/ (n \in 1 .. t - 1 /\ n \in 1 .. t /\ n + 1 \in 1 .. t)
    BY <1>1, <2>2
  <2>4. n \in 1 .. t - 1 /\ n \in 1 .. t /\ n + 1 \in 1 .. t => n \in Anchors(x, y)
    BY <1>2, <1>4, <2>1, Zenon
  <2> QED
    BY <2>1, <2>2, <2>3, <2>4, Zenon
<1>8. ASSUME NEW n \in Anchors(x, y) PROVE n \in Nat /\ n < t
  <2>1. n \in 1 .. t - 1
    BY <1>4, <1>8, Zenon
  <2> QED
    BY <1>1, <2>1
<1>9. ASSUME NEW n \in Anchors(x, y), NEW m, Around(n, c, m) PROVE AroundNext(n, c, m)
  <2>1. n - c + FrameLen <= t /\ n \in Nat
    BY <1>5, <1>8, <1>9, Zenon
  <2>2. n - c + FrameLen <= t + l
    BY <1>1, <2>1
  <2>3. ASSUME NEW i \in 1 .. FrameLen, NEW k, k = n - c + i, k >= 1
        PROVE  Byte(k)' = Framed(m)[i]
    <3>1. k \in 1 .. t
      BY <1>1, <2>1, <2>3
    <3>2. Byte(k) = Framed(m)[i]
      BY <1>5, <1>9, <2>3, Zenon
    <3> QED
      BY <1>2, <3>1, <3>2, Zenon
  <2> QED
    BY <1>6, <2>2, <2>3, Zenon
<1> QED
  BY <1>7, <1>8, <1>9 DEF t

\* A frame brings one anchor, in its place.
LEMMA AccountedTransmit ==
  ASSUME NEW x, NEW y, NEW c, IsAnchor(x, y, c), Distinctive(x, y, c), TypeOK, TypeOK',
         NEW m \in Messages, Transmit(m), LastByte, Accounted(x, y, c)
  PROVE  LastByte' /\ Accounted(x, y, c)'
<1>1. PICK g \in [DOMAIN delivered -> DOMAIN sent], f \in [Anchors(x, y) -> DOMAIN sent] :
        /\ \A i \in DOMAIN delivered : delivered[i] = sent[g[i]]
        /\ \A i, j \in DOMAIN delivered : i < j => g[i] < g[j]
        /\ \A n \in Anchors(x, y) : Around(n, c, sent[f[n]])
        /\ \A n, k \in Anchors(x, y) : n < k => f[n] < f[k]
        /\ \A i \in DOMAIN delivered, n \in Anchors(x, y) : g[i] < f[n]
  BY DEF Accounted
<1> DEFINE A == Anchors(x, y)
           B == Anchors(x, y)'
           t == Total
           e == Len(sent)
           p == Framed(m)
           h == [n \in B |-> IF n \in A THEN f[n] ELSE e + 1]
<1>2. /\ c \in 1 .. FrameLen - 1 /\ c \in Int /\ FrameLen \in Nat /\ FrameLen >= 4
      /\ y # "A" /\ x # "LF"
  BY AnchorPlace
<1>3. p[1] = "A" /\ p[FrameLen] = "LF"
  BY AnchorInFrame
<1>4. /\ Total' = t + FrameLen
      /\ \A i \in 1 .. t : Byte(i)' = Byte(i)
      /\ \A i \in 1 .. FrameLen : \A n : n = t + i => Byte(n)' = p[i]
  BY TransmitAddsFrame, Zenon
<1>5. /\ \A n \in B : n \in Nat /\ n >= 1 /\ n < t + FrameLen
                      /\ Byte(n)' = x /\ Byte(n + 1)' = y /\ (n \in A \/ n >= t)
      /\ \A n \in A : n \in Nat /\ n < t
      /\ \A n \in A : \A k : Around(n, c, k) => AroundNext(n, c, k)
  BY <1>2, <1>4, AnchorsStay
<1>6. t \in Nat /\ e \in Nat /\ DOMAIN sent = 1 .. e /\ sent \in Seq(Messages)
  BY TotalType, LenProperties DEF TypeOK
<1>7. \A n \in Nat \ {0} : n = t => Byte(n) \in Noise \cup {"LF"}
  BY DEF LastByte
<1>8. \A i \in 1 .. FrameLen - 1 : p[i] = x /\ p[i + 1] = y => i = c
  BY DEF Distinctive
<1>9. ~(x \in Noise /\ y \in Noise)
  BY DEF Distinctive
<1>10. LastByte' <=> \A n \in Nat \ {0} : n = t + FrameLen => Byte(n)' \in Noise \cup {"LF"}
  BY <1>4 DEF LastByte
<1>11. \A n, k : AroundNext(n, c, k) <=>
         /\ n - c + FrameLen <= t + FrameLen
         /\ \A i \in 1 .. FrameLen : \A q : q = n - c + i /\ q >= 1 => Byte(q)' = Framed(k)[i]
  BY <1>4 DEF AroundNext
<1>12. /\ sent' = Append(sent, m) /\ delivered' = delivered
  BY DEF Transmit
<1> HIDE DEF A, B, t, e, p
<1>13. LastByte'
  <2>1. FrameLen \in 1 .. FrameLen
    BY <1>2
  <2> QED
    BY <1>3, <1>4, <1>10, <2>1
<1>14. ASSUME NEW n \in B, n \notin A PROVE n - c = t
  <2>1. n \in Nat /\ n >= t /\ n >= 1 /\ n < t + FrameLen /\ Byte(n)' = x /\ Byte(n + 1)' = y
    BY <1>5, <1>14, Zenon
  <2>2. n # t
    <3> SUFFICES ASSUME n = t PROVE FALSE
      OBVIOUS
    <3>1. 1 \in 1 .. FrameLen
      BY <1>2
    <3> QED
      BY <1>2, <1>3, <1>4, <2>1, <3>1, Zenon
  <2> DEFINE i == n - t
  <2>3. /\ i \in 1 .. FrameLen - 1 /\ i \in 1 .. FrameLen /\ i + 1 \in 1 .. FrameLen
        /\ n = t + i /\ n + 1 = t + (i + 1)
    BY <1>2, <1>6, <2>1, <2>2
  <2> HIDE DEF i
  <2>4. p[i] = x /\ p[i + 1] = y
    BY <1>4, <2>1, <2>3, Zenon
  <2>5. i = c
    BY <1>8, <2>3, <2>4, Zenon
  <2> QED
    BY <1>2, <1>6, <2>3, <2>5
<1>15. /\ DOMAIN sent' = 1 .. e + 1 /\ sent'[e + 1] = m
       /\ \A i \in 1 .. e : sent'[i] = sent[i] /\ i \in 1 .. e + 1
       /\ e + 1 \in 1 .. e + 1
       /\ \A i \in 1 .. e : i < e + 1
  <2>1. sent' \in Seq(Messages) /\ Len(sent') = e + 1
    BY <1>6, <1>12, AppendProperties DEF e
  <2> QED
    BY <1>6, <1>12, <2>1, AppendProperties, LenProperties DEF e
<1>16. \A n \in B : h[n] = IF n \in A THEN f[n] ELSE e + 1
  OBVIOUS
<1>17. \A n \in A : f[n] \in 1 .. e
  BY <1>1, <1>6 DEF A
<1>18. h \in [B -> DOMAIN sent']
  BY <1>15, <1>17
<1> HIDE DEF h
<1>19. ASSUME NEW n \in B PROVE AroundNext(n, c, sent'[h[n]])
  <2>1. CASE n \in A
    <3>1. h[n] = f[n] /\ sent'[h[n]] = sent[f[n]]
      BY <1>15, <1>16, <1>17, <1>19, <2>1
    <3>2. AroundNext(n, c, sent[f[n]])
      BY <1>1, <1>5, <2>1, Zenon DEF A
    <3> QED
      BY <3>1, <3>2
  <2>2. CASE n \notin A
    <3>1. n - c = t /\ sent'[h[n]] = m
      BY <1>14, <1>15, <1>16, <1>19, <2>2, Zenon
    <3>2. n - c + FrameLen <= t + FrameLen
      BY <1>2, <1>6, <3>1
    <3>3. \A i \in 1 .. FrameLen : \A q : q = n - c + i /\ q >= 1 => Byte(q)' = Framed(m)[i]
      BY <1>4, <3>1, Zenon DEF p
    <3>4. AroundNext(n, c, m)
      BY <1>11, <3>2, <3>3, Zenon
    <3> QED
      BY <3>1, <3>4
  <2> QED
    BY <2>1, <2>2
<1>20. ASSUME NEW n \in B, NEW k \in B, n < k PROVE h[n] < h[k]
  <2>1. CASE n \in A /\ k \in A
    BY <1>1, <1>16, <1>20, <2>1, Zenon DEF A
  <2>2. CASE n \in A /\ k \notin A
    BY <1>15, <1>16, <1>17, <1>20, <2>2, Zenon
  <2>3. CASE n \notin A
    <3>1. n - c = t /\ n \in Nat /\ k \in Nat
      BY <1>5, <1>14, <1>20, <2>3, Zenon
    <3>2. n > t
      BY <1>2, <1>6, <3>1
    <3>3. k \notin A
      BY <1>5, <1>6, <1>20, <3>1, <3>2
    <3>4. k - c = t
      BY <1>14, <3>3, <1>20, Zenon
    <3> QED
      BY <1>2, <1>6, <1>20, <3>1, <3>4
  <2> QED
    BY <2>1, <2>2, <2>3
<1>21. \A i \in DOMAIN delivered : g[i] \in 1 .. e
  BY <1>1, <1>6
<1>22. \A i \in DOMAIN delivered, n \in B : g[i] < h[n]
  BY <1>1, <1>15, <1>16, <1>21, ZenonT(40) DEF A
<1>23. /\ g \in [DOMAIN delivered' -> DOMAIN sent']
       /\ \A i \in DOMAIN delivered' : delivered'[i] = sent'[g[i]]
       /\ \A i, j \in DOMAIN delivered' : i < j => g[i] < g[j]
       /\ \A i \in DOMAIN delivered', n \in B : g[i] < h[n]
  BY <1>1, <1>12, <1>15, <1>21, <1>22
<1> QED
  BY <1>13, <1>18, <1>19, <1>20, <1>23, AccountedNext DEF B

\* Noise brings none.
LEMMA AccountedDisturb ==
  ASSUME NEW x, NEW y, NEW c, IsAnchor(x, y, c), Distinctive(x, y, c), TypeOK, TypeOK',
         NEW b \in Noise, Disturb(b), LastByte, Accounted(x, y, c)
  PROVE  LastByte' /\ Accounted(x, y, c)'
<1>1. PICK g \in [DOMAIN delivered -> DOMAIN sent], f \in [Anchors(x, y) -> DOMAIN sent] :
        /\ \A i \in DOMAIN delivered : delivered[i] = sent[g[i]]
        /\ \A i, j \in DOMAIN delivered : i < j => g[i] < g[j]
        /\ \A n \in Anchors(x, y) : Around(n, c, sent[f[n]])
        /\ \A n, k \in Anchors(x, y) : n < k => f[n] < f[k]
        /\ \A i \in DOMAIN delivered, n \in Anchors(x, y) : g[i] < f[n]
  BY DEF Accounted
<1> DEFINE A == Anchors(x, y)
           B == Anchors(x, y)'
           t == Total
           h == [n \in B |-> f[n]]
<1>2. c \in Int /\ x # "LF"
  BY AnchorPlace
<1>3. /\ Total' = t + 1
      /\ \A i \in 1 .. t : Byte(i)' = Byte(i)
      /\ \A n : n = t + 1 => Byte(n)' = b
  BY DisturbAddsByte, Zenon
<1>4. /\ \A n \in B : n \in Nat /\ n >= 1 /\ n < t + 1
                      /\ Byte(n)' = x /\ Byte(n + 1)' = y /\ (n \in A \/ n >= t)
      /\ \A n \in A : \A k : Around(n, c, k) => AroundNext(n, c, k)
  <2>1. 1 \in Nat
    OBVIOUS
  <2> QED
    BY <1>2, <1>3, <2>1, AnchorsStay
<1>5. t \in Nat
  BY TotalType
<1>6. \A n \in Nat \ {0} : n = t => Byte(n) \in Noise \cup {"LF"}
  BY DEF LastByte
<1>7. ~(x \in Noise /\ y \in Noise)
  BY DEF Distinctive
<1>8. LastByte' <=> \A n \in Nat \ {0} : n = t + 1 => Byte(n)' \in Noise \cup {"LF"}
  BY <1>3 DEF LastByte
<1>9. sent' = sent /\ delivered' = delivered
  BY DEF Disturb
<1> HIDE DEF A, B, t
<1>10. LastByte'
  BY <1>3, <1>8
<1>11. ASSUME NEW n \in B PROVE n \in A
  <2> SUFFICES ASSUME n \notin A PROVE FALSE
    OBVIOUS
  <2>1. n \in Nat /\ n >= t /\ n >= 1 /\ n < t + 1 /\ Byte(n)' = x /\ Byte(n + 1)' = y
    BY <1>4, <1>11, Zenon
  <2>2. n = t /\ n + 1 = t + 1 /\ n \in 1 .. t /\ n \in Nat \ {0}
    BY <1>5, <2>1
  <2>3. Byte(n) = x /\ y = b
    BY <1>3, <2>1, <2>2, Zenon
  <2>4. x \in Noise \cup {"LF"}
    BY <1>6, <2>2, <2>3, Zenon
  <2> QED
    BY <1>2, <1>7, <2>3, <2>4
<1>12. h \in [B -> DOMAIN sent] /\ \A n \in B : h[n] = f[n]
  BY <1>1, <1>11, Zenon DEF A
<1> HIDE DEF h
<1>13. /\ \A n \in B : AroundNext(n, c, sent[h[n]])
       /\ \A n, k \in B : n < k => h[n] < h[k]
       /\ \A i \in DOMAIN delivered, n \in B : g[i] < h[n]
  BY <1>1, <1>4, <1>11, <1>12, Zenon DEF A
<1>14. /\ g \in [DOMAIN delivered' -> DOMAIN sent'] /\ h \in [B -> DOMAIN sent']
       /\ \A i \in DOMAIN delivered' : delivered'[i] = sent'[g[i]]
       /\ \A i, j \in DOMAIN delivered' : i < j => g[i] < g[j]
       /\ \A n \in B : AroundNext(n, c, sent'[h[n]])
       /\ \A i \in DOMAIN delivered', n \in B : g[i] < h[n]
  BY <1>1, <1>9, <1>12, <1>13
<1> QED
  BY <1>10, <1>13, <1>14, AccountedNext DEF B

\* A closed port holds nothing and hears nothing: what arrives there is lost.
LEMMA ClosedArrive ==
  ASSUME TypeOK, Arrive, ~open, Quiet
  PROVE  \E d \in Nat : Moved(d)
<1> DEFINE w == Len(wire)
<1>1. PICK n \in 1 .. w : wire' = SubSeq(wire, n + 1, w)
  BY DEF Arrive
<1>2. ring' = ring /\ kernel' = kernel /\ Size(ring) = 0 /\ kernel = <<>>
  BY DEF Arrive, Quiet
<1>3. w \in Nat /\ wire \in Seq(Bytes) /\ Len(kernel) = 0
  BY <1>2, TotalType DEF TypeOK
<1>4. Len(wire') = w - n /\ \A i \in 1 .. w - n : wire'[i] = wire[n + i]
  <2>1. Len(wire) \in 0 .. Len(wire) /\ n \in 0 .. Len(wire)
    BY <1>3
  <2> QED
    BY <1>1, <1>3, <2>1, Part
<1>5. n \in Nat /\ n >= 1 /\ n <= w
  BY <1>3
<1> HIDE DEF w
<1>6. Total = w /\ Total' = w - n
  BY <1>2, <1>3, <1>4, <1>5 DEF Total, w
<1>7. /\ \A i : Byte(i) = IF i <= 0 THEN Contents(ring)[i]
                          ELSE IF i <= 0 + 0 THEN kernel[i - 0] ELSE wire[i - (0 + 0)]
      /\ \A i : Byte(i)' = IF i <= 0 THEN Contents(ring)[i]
                           ELSE IF i <= 0 + 0 THEN kernel[i - 0] ELSE wire'[i - (0 + 0)]
  BY <1>2, <1>3 DEF Byte
<1>8. ASSUME NEW i \in 1 .. w - n, NEW k, k = n + i PROVE Byte(i)' = Byte(k)
  <2>1. /\ ~(i <= 0) /\ ~(i <= 0 + 0) /\ i - (0 + 0) = i
        /\ ~(k <= 0) /\ ~(k <= 0 + 0) /\ k - (0 + 0) = n + i
    BY <1>3, <1>5, <1>8
  <2>2. Byte(i)' = wire'[i] /\ Byte(k) = wire[n + i]
    BY <1>7, <2>1, Zenon
  <2> QED
    BY <1>4, <1>8, <2>2, Zenon
<1>9. Total = Total' + n
  BY <1>3, <1>5, <1>6
<1>10. Moved(n)
  BY <1>6, <1>8, <1>9 DEF Moved
<1> QED
  BY <1>5, <1>10

\* disconnect() loses the bytes in the ring and in the kernel, not those on the wire.
LEMMA DisconnectMoves ==
  ASSUME TypeOK, Disconnect
  PROVE  /\ \E d \in Nat : Moved(d)
         /\ Size(ring') = 0 /\ kernel' = <<>>
<1> DEFINE a == Size(ring)
           b == Len(kernel)
           w == Len(wire)
<1>1. a \in Nat /\ b \in Nat /\ w \in Nat /\ ring \in Rings
  BY TotalType
<1>2. ring' = Reset(ring) /\ kernel' = <<>> /\ wire' = wire
  BY DEF Disconnect
<1>3. Size(ring') = 0 /\ Len(kernel') = 0
  <2>1. Reset(ring) \in Rings /\ Contents(Reset(ring)) = <<>>
    BY <1>1, ResetEmpties
  <2>2. Len(Contents(Reset(ring))) = Size(Reset(ring))
    BY <2>1, ContentsProperties
  <2> QED
    BY <1>2, <2>1, <2>2
<1>4. \A i : Byte(i)' = IF i <= 0 THEN Contents(ring')[i]
                        ELSE IF i <= 0 + 0 THEN kernel'[i - 0] ELSE wire[i - (0 + 0)]
  BY <1>2, <1>3 DEF Byte
<1>5. \A i : Byte(i) = IF i <= a THEN Contents(ring)[i]
                       ELSE IF i <= a + b THEN kernel[i - a] ELSE wire[i - (a + b)]
  BY DEF Byte
<1>6. Total = a + b + w /\ Total' = 0 + 0 + w
  BY <1>2, <1>3 DEF Total
<1> HIDE DEF a, b, w
<1>7. Total = Total' + (a + b) /\ a + b \in Nat
  BY <1>1, <1>6
<1>8. ASSUME NEW i \in 1 .. Total', NEW n, n = (a + b) + i PROVE Byte(i)' = Byte(n)
  <2>1. /\ ~(i <= 0) /\ ~(i <= 0 + 0) /\ i - (0 + 0) = i
        /\ ~(n <= a) /\ ~(n <= a + b) /\ n - (a + b) = i
    BY <1>1, <1>6, <1>8
  <2> QED
    BY <1>4, <1>5, <2>1, Zenon
<1>9. Moved(a + b)
  BY <1>7, <1>8 DEF Moved
<1> QED
  BY <1>2, <1>3, <1>7, <1>9

\* connect() finds a ring that is empty already.
LEMMA ConnectKeepsBytes ==
  ASSUME TypeOK, Connect, Quiet
  PROVE  Total' = Total /\ \A n \in 1 .. Total : Byte(n)' = Byte(n)
<1> DEFINE b == Len(kernel)
           w == Len(wire)
<1>1. b \in Nat /\ w \in Nat /\ ring \in Rings
  BY TotalType
<1>2. /\ ring' = Reset(ring) /\ kernel' = kernel /\ wire' = wire
      /\ Size(ring) = 0
  BY DEF Connect, Quiet
<1>3. Size(ring') = 0
  <2>1. Reset(ring) \in Rings /\ Contents(Reset(ring)) = <<>>
    BY <1>1, ResetEmpties
  <2>2. Len(Contents(Reset(ring))) = Size(Reset(ring))
    BY <2>1, ContentsProperties
  <2> QED
    BY <1>2, <2>1, <2>2
<1>4. Total' = Total /\ Total \in Nat
  BY <1>2, <1>3, TotalType DEF Total
<1>5. ASSUME NEW i \in 1 .. Total PROVE Byte(i)' = Byte(i)
  <2>1. ~(i <= 0)
    BY <1>4
  <2> QED
    BY <1>2, <1>3, <2>1 DEF Byte
<1> QED
  BY <1>4, <1>5

LEMMA QuietStep == TypeOK /\ Quiet /\ [Next]_vars => Quiet'
<1> SUFFICES ASSUME TypeOK, Quiet, [Next]_vars, ~open' PROVE Size(ring') = 0 /\ kernel' = <<>>
  BY DEF Quiet
<1>1. CASE Connect
  BY <1>1 DEF Connect
<1>2. CASE Disconnect
  BY <1>2, DisconnectMoves
<1>3. CASE RxDrain
  BY <1>3 DEF RxDrain
<1>4. CASE RxPop
  <2>1. ~HasFrame(ring)
    <3>1. Size(ring) = 0
      BY <1>4 DEF RxPop, Quiet
    <3>2. HasFrame(ring) => First(ring) \in Nat /\ First(ring) + FrameLen <= Size(ring)
      BY StartProperties DEF TypeOK
    <3> QED
      BY <3>1, <3>2, FrameLenAssumption
  <2> QED
    BY <1>4, <2>1 DEF RxPop, AfterPop, Quiet
<1>5. CASE Arrive
  BY <1>5 DEF Arrive, Quiet
<1>6. CASE UNCHANGED <<open, ring, kernel>>
  BY <1>6 DEF Quiet
<1>7. RxCall \/ RxDrained \/ UNCHANGED vars \/ (\E m \in Messages : Transmit(m))
        \/ (\E b \in Noise : Disturb(b)) => UNCHANGED <<open, ring, kernel>>
  BY DEF RxCall, RxDrained, Transmit, Disturb, vars
<1> QED
  BY <1>1, <1>2, <1>3, <1>4, <1>5, <1>6, <1>7 DEF Next, RxStep

LEMMA OrderInvInit ==
  ASSUME NEW x, NEW y, NEW c, Init
  PROVE  OrderInv(x, y, c)
<1>1. Size(ring) = 0
  BY CapacityAssumption DEF Init, Size, Mask
<1>2. /\ kernel = <<>> /\ wire = <<>> /\ sent = <<>> /\ delivered = <<>> /\ open
  BY DEF Init
<1>3. Total = 0
  BY <1>1, <1>2 DEF Total
<1>4. LastByte /\ Anchors(x, y) = {}
  BY <1>3 DEF LastByte, Anchors
<1>5. DOMAIN delivered = {}
  BY <1>2
<1>6. Accounted(x, y, c)
  <2> DEFINE g == [i \in {} |-> 0]
  <2>1. g \in [DOMAIN delivered -> DOMAIN sent] /\ g \in [Anchors(x, y) -> DOMAIN sent]
    BY <1>4, <1>5
  <2> HIDE DEF g
  <2> QED
    BY <1>4, <1>5, <2>1, Zenon DEF Accounted
<1> QED
  BY <1>2, <1>4, <1>6 DEF OrderInv, Quiet

LEMMA OrderInvStep ==
  ASSUME NEW x, NEW y, NEW c, IsAnchor(x, y, c), Distinctive(x, y, c),
         TypeOK, TypeOK', [Next]_vars, OrderInv(x, y, c)
  PROVE  OrderInv(x, y, c)'
<1>1. Quiet /\ Quiet'
  BY QuietStep DEF OrderInv
<1> SUFFICES ASSUME ~dropped' PROVE LastByte' /\ Accounted(x, y, c)'
  BY <1>1 DEF OrderInv
<1>2. ~dropped
  BY DEF Next, RxStep, Connect, Disconnect, RxCall, RxDrain, RxDrained, RxPop, Transmit, Disturb,
         Arrive, vars
<1>3. LastByte /\ Accounted(x, y, c) /\ c \in Int
  BY <1>2, AnchorPlace DEF OrderInv
<1>4. ASSUME NEW d \in Nat, Moved(d), UNCHANGED <<sent, delivered>>
      PROVE  LastByte' /\ Accounted(x, y, c)'
  BY <1>3, <1>4, AnchorsForward, AccountedStays
<1>5. ASSUME Total' = Total, \A n \in 1 .. Total : Byte(n)' = Byte(n), UNCHANGED <<sent, delivered>>
      PROVE  LastByte' /\ Accounted(x, y, c)'
  <2>1. Total \in Nat /\ \A i \in 1 .. Total : \A n : n = 0 + i => n = i
    BY TotalType
  <2>2. Total = Total' + 0 /\ 0 \in Nat
    BY <1>5, <2>1
  <2>3. Moved(0)
    BY <1>5, <2>1, <2>2 DEF Moved
  <2> QED
    BY <1>4, <1>5, <2>2, <2>3
<1>6. CASE Connect
  <2>1. UNCHANGED <<sent, delivered>>
    BY <1>6 DEF Connect
  <2> QED
    BY <1>1, <1>5, <1>6, <2>1, ConnectKeepsBytes
<1>7. CASE Disconnect
  <2>1. UNCHANGED <<sent, delivered>>
    BY <1>7 DEF Disconnect
  <2> QED
    BY <1>4, <1>7, <2>1, DisconnectMoves
<1>8. CASE RxDrain
  <2>1. UNCHANGED <<sent, delivered>>
    BY <1>8 DEF RxDrain
  <2> QED
    BY <1>5, <1>8, <2>1, DrainKeepsBytes
<1>9. CASE RxPop /\ HasFrame(ring)
  BY <1>3, <1>9, AccountedPop
<1>10. ASSUME NEW m \in Messages, Transmit(m) PROVE LastByte' /\ Accounted(x, y, c)'
  BY <1>3, <1>10, AccountedTransmit
<1>11. ASSUME NEW b \in Noise, Disturb(b) PROVE LastByte' /\ Accounted(x, y, c)'
  BY <1>3, <1>11, AccountedDisturb
<1>12. CASE Arrive
  <2>1. UNCHANGED <<sent, delivered>>
    BY <1>12 DEF Arrive
  <2>2. CASE open
    BY <1>5, <1>12, <2>1, <2>2, ArriveKeepsBytes
  <2>3. CASE ~open
    BY <1>1, <1>4, <1>12, <2>1, <2>3, ClosedArrive
  <2> QED
    BY <2>2, <2>3
<1>13. CASE UNCHANGED <<ring, wire, kernel, sent, delivered>>
  <2>1. Total' = Total /\ \A n \in 1 .. Total : Byte(n)' = Byte(n)
    BY <1>13 DEF Total, Byte
  <2> QED
    BY <1>5, <1>13, <2>1
<1>14. RxPop /\ ~HasFrame(ring) => UNCHANGED <<ring, wire, kernel, sent, delivered>>
  BY DEF RxPop, AfterPop
<1>15. RxCall \/ RxDrained \/ UNCHANGED vars => UNCHANGED <<ring, wire, kernel, sent, delivered>>
  BY DEF RxCall, RxDrained, vars
<1> QED
  BY <1>6, <1>7, <1>8, <1>9, <1>10, <1>11, <1>12, <1>13, <1>14, <1>15 DEF Next, RxStep

LEMMA OrderInvGenuine ==
  ASSUME NEW x, NEW y, NEW c, OrderInv(x, y, c)
  PROVE  DeliveredInOrder
BY Zenon DEF OrderInv, Accounted, DeliveredInOrder, Genuine

LEMMA DeliveredByAnchor ==
  ASSUME NEW CONSTANT x, NEW CONSTANT y, NEW CONSTANT c, IsAnchor(x, y, c), Distinctive(x, y, c)
  PROVE  Spec => []DeliveredInOrder
<1>1. Init => OrderInv(x, y, c)
  BY OrderInvInit
<1>2. TypeOK /\ TypeOK' /\ [Next]_vars /\ OrderInv(x, y, c) => OrderInv(x, y, c)'
  BY OrderInvStep
<1>3. OrderInv(x, y, c) => DeliveredInOrder
  BY OrderInvGenuine
<1> QED
  BY <1>1, <1>2, <1>3, SerialTypeInit, SerialTypeStep, PTL DEF Spec

\* If the two bytes of one of a frame's delimiters follow each other nowhere else on the
\* line, receive() returns only messages that were sent, in order and at most once each,
\* as long as push() drops nothing: for every capacity of the ring, every chunk of a read,
\* whatever noise lies between the frames and whenever the port is closed and reopened.
THEOREM DeliveredAsSent ==
  ASSUME Unmistakable
  PROVE  Spec => []DeliveredInOrder
<1>1. CASE Distinctive("A", "T", 1)
  <2>1. IsAnchor("A", "T", 1)
    BY DEF IsAnchor
  <2> QED
    BY <1>1, <2>1, DeliveredByAnchor
<1>2. CASE Distinctive("CR", "LF", FrameLen - 1)
  <2>1. IsAnchor("CR", "LF", FrameLen - 1)
    BY DEF IsAnchor
  <2> QED
    BY <1>2, <2>1, DeliveredByAnchor
<1> QED
  BY <1>1, <1>2 DEF Unmistakable

===============================================================================
