------------------------------ MODULE BusProofs ------------------------------
(***************************************************************************)
(* Theorems about Bus for every set of motors, requests and reports: the   *)
(* bytes of each request and of each report, what they are read as, and    *)
(* the messages under way that consist of them.                            *)
(***************************************************************************)
EXTENDS Bus, SequenceTheorems, TLAPS

-----------------------------------------------------------------------------
(* Numbers                                                                 *)

LEMMA Powers == 2^6 = 64 /\ 2^8 = 256 /\ 2^11 = 2048 /\ 2^16 = 65536 /\ 2^22 = 4194304
                /\ 2^24 = 16777216 /\ 2^29 = 536870912
BY SMT

LEMMA Quotient ==
  ASSUME NEW a \in Nat, NEW d \in Nat \ {0}
  PROVE  (a \div d) \in Nat /\ (a \div d) * d <= a /\ a < (a \div d) * d + d
OBVIOUS

LEMMA ClampInRange ==
  ASSUME NEW x \in Int, NEW lo \in Int, NEW hi \in Int, lo < hi
  PROVE  Clamp(x, lo, hi) \in lo .. hi
BY DEF Clamp

LEMMA ScaledInRange ==
  ASSUME NEW d \in Nat \ {0}, NEW c \in 0 .. d, NEW s \in Nat \ {0}
  PROVE  c * s \in Nat /\ (c * s) \div d \in 0 .. s
<1>1. c * s \in Nat /\ c * s <= d * s
  OBVIOUS
<1> DEFINE a == (c * s) \div d
<1>2. a \in Nat /\ a * d <= c * s
  BY <1>1, Quotient
<1> HIDE DEF a
<1>3. ASSUME a > s PROVE FALSE
  <2>1. a * d >= (s + 1) * d
    BY <1>2, <1>3
  <2> QED
    BY <1>1, <1>2, <2>1
<1>4. a \in 0 .. s
  BY <1>2, <1>3
<1> QED
  BY <1>1, <1>4 DEF a

\* What is lost by scaling 0 .. d to 0 .. s and back.
LEMMA ScaledBack ==
  ASSUME NEW d \in Nat \ {0}, NEW c \in 0 .. d, NEW s \in Nat \ {0}
  PROVE  LET a == (c * s) \div d
             b == (a * d) \div s
         IN  b \in Int /\ c - b \in 0 .. (d \div s) + 1
<1> DEFINE a == (c * s) \div d
           b == (a * d) \div s
           q == d \div s
<1>1. c * s \in Nat
  OBVIOUS
<1>2. a \in Nat /\ a * d \in Nat /\ a * d <= c * s /\ c * s < a * d + d
  BY <1>1, Quotient
<1> HIDE DEF a
<1>3. b \in Nat /\ b * s <= a * d /\ a * d < b * s + s
  BY <1>2, Quotient
<1> HIDE DEF b
<1>4. q \in Nat /\ q * s <= d /\ d < q * s + s
  BY Quotient
<1> HIDE DEF q
<1>5. b * s <= c * s /\ c * s < b * s + s + q * s + s
  BY <1>1, <1>2, <1>3, <1>4
<1>6. b <= c
  <2>1. ASSUME b > c PROVE FALSE
    <3>1. b * s >= (c + 1) * s
      BY <1>3, <2>1
    <3>2. (c + 1) * s = c * s + s
      OBVIOUS
    <3>3. b * s \in Int
      BY <1>3
    <3> QED
      BY <1>1, <1>5, <3>1, <3>2, <3>3
  <2> QED
    BY <1>3, <2>1
<1>7. c < b + q + 2
  <2>1. ASSUME c >= b + q + 2 PROVE FALSE
    <3>1. c * s >= (b + q + 2) * s
      BY <1>3, <1>4, <2>1
    <3>2. (b + q + 2) * s = b * s + q * s + s + s
      BY <1>3, <1>4
    <3> QED
      BY <1>1, <1>3, <1>4, <1>5, <3>1, <3>2
  <2> QED
    BY <1>3, <1>4, <2>1
<1>8. b \in Int /\ c - b \in 0 .. q + 1
  BY <1>3, <1>4, <1>6, <1>7
<1> QED
  BY <1>8 DEF a, b, q

LEMMA EncodeInRange ==
  ASSUME NEW x \in Int, NEW lo \in Int, NEW hi \in Int, lo < hi, NEW steps \in Nat \ {0}
  PROVE  Encode(x, lo, hi, steps) \in 0 .. steps
<1> DEFINE d == hi - lo
           clamped == Clamp(x, lo, hi)
           c == clamped - lo
<1>0. clamped \in lo .. hi
  BY ClampInRange
<1> HIDE DEF clamped
<1>1. d \in Nat \ {0} /\ c \in 0 .. d
  BY <1>0
<1> HIDE DEF c, d
<1>2. (c * steps) \div d \in 0 .. steps
  BY <1>1, ScaledInRange
<1> QED
  BY <1>2 DEF Encode, clamped, c, d

\* A setpoint comes back as it was, clamped, but for a step of the scale.
LEMMA RoundTrip ==
  ASSUME NEW x \in Int, NEW lo \in Int, NEW hi \in Int, lo < hi, NEW steps \in Nat \ {0}
  PROVE  /\ Clamp(x, lo, hi) \in Int /\ Decode(Encode(x, lo, hi, steps), lo, hi, steps) \in Int
         /\ Clamp(x, lo, hi) - Decode(Encode(x, lo, hi, steps), lo, hi, steps)
              \in 0 .. ((hi - lo) \div steps) + 1
<1> DEFINE d == hi - lo
           clamped == Clamp(x, lo, hi)
           c == clamped - lo
           a == (c * steps) \div d
           b == (a * d) \div steps
<1>0. clamped \in lo .. hi
  BY ClampInRange
<1> HIDE DEF clamped
<1>1. d \in Nat \ {0} /\ c \in 0 .. d /\ c + lo = clamped /\ c \in Int
  BY <1>0
<1> HIDE DEF c, d
<1>2. b \in Int /\ c - b \in 0 .. (d \div steps) + 1
  BY <1>1, ScaledBack
<1>3. Decode(Encode(x, lo, hi, steps), lo, hi, steps) = b + lo
  BY DEF Encode, Decode, clamped, c, d
<1> HIDE DEF b
<1>4. (c + lo) - (b + lo) = c - b
  BY <1>1, <1>2
<1>5. clamped - (b + lo) \in 0 .. (d \div steps) + 1
  BY <1>1, <1>2, <1>4
<1>6. clamped \in Int /\ b + lo \in Int
  BY <1>0, <1>2
<1> QED
  BY <1>3, <1>5, <1>6 DEF clamped, d
-----------------------------------------------------------------------------
(* Bytes                                                                   *)

LEMMA Concat12 ==
  ASSUME NEW a, NEW b, NEW c
  PROVE  <<a>> \o <<b, c>> = <<a, b, c>>
<1> DEFINE S == {a, b, c}
           s == <<a>>
           t == <<b, c>>
           u == <<a, b, c>>
<1>1. s \in Seq(S) /\ t \in Seq(S) /\ Len(s) = 1 /\ Len(t) = 2
  OBVIOUS
<1>2. /\ s \o t \in Seq(S) /\ Len(s \o t) = 3
      /\ \A i \in 1 .. 3 : (s \o t)[i] = IF i <= 1 THEN s[i] ELSE t[i - 1]
  BY <1>1, ConcatProperties
<1>3. u \in Seq(S) /\ Len(u) = 3
  OBVIOUS
<1>4. \A i \in 1 .. 3 : (s \o t)[i] = u[i]
  BY <1>2
<1> QED
  BY <1>2, <1>3, <1>4, SeqEqual

LEMMA Concat14 ==
  ASSUME NEW a, NEW b, NEW c, NEW d, NEW e
  PROVE  <<a>> \o <<b, c, d, e>> = <<a, b, c, d, e>>
<1> DEFINE S == {a, b, c, d, e}
           s == <<a>>
           t == <<b, c, d, e>>
           u == <<a, b, c, d, e>>
<1>1. s \in Seq(S) /\ t \in Seq(S) /\ Len(s) = 1 /\ Len(t) = 4
  OBVIOUS
<1>2. /\ s \o t \in Seq(S) /\ Len(s \o t) = 5
      /\ \A i \in 1 .. 5 : (s \o t)[i] = IF i <= 1 THEN s[i] ELSE t[i - 1]
  BY <1>1, ConcatProperties
<1>3. u \in Seq(S) /\ Len(u) = 5
  OBVIOUS
<1>4. \A i \in 1 .. 5 : (s \o t)[i] = u[i]
  BY <1>2
<1> QED
  BY <1>2, <1>3, <1>4, SeqEqual

LEMMA Concat22 ==
  ASSUME NEW a, NEW b, NEW c, NEW d
  PROVE  <<a, b>> \o <<c, d>> = <<a, b, c, d>>
<1> DEFINE S == {a, b, c, d}
           s == <<a, b>>
           t == <<c, d>>
           u == <<a, b, c, d>>
<1>1. s \in Seq(S) /\ t \in Seq(S) /\ Len(s) = 2 /\ Len(t) = 2
  OBVIOUS
<1>2. /\ s \o t \in Seq(S) /\ Len(s \o t) = 4
      /\ \A i \in 1 .. 4 : (s \o t)[i] = IF i <= 2 THEN s[i] ELSE t[i - 2]
  BY <1>1, ConcatProperties
<1>3. u \in Seq(S) /\ Len(u) = 4
  OBVIOUS
<1>4. \A i \in 1 .. 4 : (s \o t)[i] = u[i]
  BY <1>2
<1> QED
  BY <1>2, <1>3, <1>4, SeqEqual

LEMMA Concat26 ==
  ASSUME NEW a, NEW b, NEW c, NEW d, NEW e, NEW f, NEW g, NEW h
  PROVE  <<a, b>> \o <<c, d, e, f, g, h>> = <<a, b, c, d, e, f, g, h>>
<1> DEFINE S == {a, b, c, d, e, f, g, h}
           s == <<a, b>>
           t == <<c, d, e, f, g, h>>
           u == <<a, b, c, d, e, f, g, h>>
<1>1. s \in Seq(S) /\ t \in Seq(S) /\ Len(s) = 2 /\ Len(t) = 6
  OBVIOUS
<1>2. /\ s \o t \in Seq(S) /\ Len(s \o t) = 8
      /\ \A i \in 1 .. 8 : (s \o t)[i] = IF i <= 2 THEN s[i] ELSE t[i - 2]
  BY <1>1, ConcatProperties
<1>3. u \in Seq(S) /\ Len(u) = 8
  OBVIOUS
<1>4. \A i \in 1 .. 8 : (s \o t)[i] = u[i]
  BY <1>2
<1> QED
  BY <1>2, <1>3, <1>4, SeqEqual

LEMMA Concat33 ==
  ASSUME NEW a, NEW b, NEW c, NEW d, NEW e, NEW f
  PROVE  <<a, b, c>> \o <<d, e, f>> = <<a, b, c, d, e, f>>
<1> DEFINE S == {a, b, c, d, e, f}
           s == <<a, b, c>>
           t == <<d, e, f>>
           u == <<a, b, c, d, e, f>>
<1>1. s \in Seq(S) /\ t \in Seq(S) /\ Len(s) = 3 /\ Len(t) = 3
  OBVIOUS
<1>2. /\ s \o t \in Seq(S) /\ Len(s \o t) = 6
      /\ \A i \in 1 .. 6 : (s \o t)[i] = IF i <= 3 THEN s[i] ELSE t[i - 3]
  BY <1>1, ConcatProperties
<1>3. u \in Seq(S) /\ Len(u) = 6
  OBVIOUS
<1>4. \A i \in 1 .. 6 : (s \o t)[i] = u[i]
  BY <1>2
<1> QED
  BY <1>2, <1>3, <1>4, SeqEqual

LEMMA Concat42 ==
  ASSUME NEW a, NEW b, NEW c, NEW d, NEW e, NEW f
  PROVE  <<a, b, c, d>> \o <<e, f>> = <<a, b, c, d, e, f>>
<1> DEFINE S == {a, b, c, d, e, f}
           s == <<a, b, c, d>>
           t == <<e, f>>
           u == <<a, b, c, d, e, f>>
<1>1. s \in Seq(S) /\ t \in Seq(S) /\ Len(s) = 4 /\ Len(t) = 2
  OBVIOUS
<1>2. /\ s \o t \in Seq(S) /\ Len(s \o t) = 6
      /\ \A i \in 1 .. 6 : (s \o t)[i] = IF i <= 4 THEN s[i] ELSE t[i - 4]
  BY <1>1, ConcatProperties
<1>3. u \in Seq(S) /\ Len(u) = 6
  OBVIOUS
<1>4. \A i \in 1 .. 6 : (s \o t)[i] = u[i]
  BY <1>2
<1> QED
  BY <1>2, <1>3, <1>4, SeqEqual

LEMMA Concat44 ==
  ASSUME NEW a, NEW b, NEW c, NEW d, NEW e, NEW f, NEW g, NEW h
  PROVE  <<a, b, c, d>> \o <<e, f, g, h>> = <<a, b, c, d, e, f, g, h>>
<1> DEFINE S == {a, b, c, d, e, f, g, h}
           s == <<a, b, c, d>>
           t == <<e, f, g, h>>
           u == <<a, b, c, d, e, f, g, h>>
<1>1. s \in Seq(S) /\ t \in Seq(S) /\ Len(s) = 4 /\ Len(t) = 4
  OBVIOUS
<1>2. /\ s \o t \in Seq(S) /\ Len(s \o t) = 8
      /\ \A i \in 1 .. 8 : (s \o t)[i] = IF i <= 4 THEN s[i] ELSE t[i - 4]
  BY <1>1, ConcatProperties
<1>3. u \in Seq(S) /\ Len(u) = 8
  OBVIOUS
<1>4. \A i \in 1 .. 8 : (s \o t)[i] = u[i]
  BY <1>2
<1> QED
  BY <1>2, <1>3, <1>4, SeqEqual

LEMMA Concat62 ==
  ASSUME NEW a, NEW b, NEW c, NEW d, NEW e, NEW f, NEW g, NEW h
  PROVE  <<a, b, c, d, e, f>> \o <<g, h>> = <<a, b, c, d, e, f, g, h>>
<1> DEFINE S == {a, b, c, d, e, f, g, h}
           s == <<a, b, c, d, e, f>>
           t == <<g, h>>
           u == <<a, b, c, d, e, f, g, h>>
<1>1. s \in Seq(S) /\ t \in Seq(S) /\ Len(s) = 6 /\ Len(t) = 2
  OBVIOUS
<1>2. /\ s \o t \in Seq(S) /\ Len(s \o t) = 8
      /\ \A i \in 1 .. 8 : (s \o t)[i] = IF i <= 6 THEN s[i] ELSE t[i - 6]
  BY <1>1, ConcatProperties
<1>3. u \in Seq(S) /\ Len(u) = 8
  OBVIOUS
<1>4. \A i \in 1 .. 8 : (s \o t)[i] = u[i]
  BY <1>2
<1> QED
  BY <1>2, <1>3, <1>4, SeqEqual

LEMMA LastSix == SubSeq(Zeros, 3, 8) = <<0, 0, 0, 0, 0, 0>>
<1> DEFINE s == SubSeq(Zeros, 3, 8)
           t == <<0, 0, 0, 0, 0, 0>>
<1>1. \A i \in 3 .. 8 : Zeros[i] = 0
  BY DEF Zeros
<1>2. s \in Seq(Int) /\ Len(s) = 6 /\ \A i \in 1 .. 6 : s[i] = Zeros[i + 2]
  <2>1. /\ s \in Seq(Int) /\ Len(s) = 6
        /\ \A i \in 1 .. 8 - 3 + 1 : s[i] = Zeros[3 + i - 1]
    BY <1>1, SubSeqProperties
  <2> QED
    BY <2>1
<1>3. \A i \in 1 .. 6 : s[i] = t[i]
  BY <1>1, <1>2
<1>4. t \in Seq(Int) /\ Len(t) = 6
  OBVIOUS
<1> QED
  BY <1>2, <1>3, <1>4, SeqEqual

\* A frame's data are any eight bytes.
LEMMA EightBytes ==
  ASSUME NEW a \in Byte, NEW b \in Byte, NEW c \in Byte, NEW d \in Byte,
         NEW e \in Byte, NEW f \in Byte, NEW g \in Byte, NEW h \in Byte
  PROVE  <<a, b, c, d, e, f, g, h>> \in [1 .. 8 -> Byte]
OBVIOUS

LEMMA ZerosAreBytes == Zeros \in [1 .. 8 -> Byte]
BY DEF Zeros, Byte

LEMMA PayloadBytes ==
  ASSUME NEW raw \in Payloads
  PROVE  /\ raw = <<raw[1], raw[2], raw[3], raw[4]>>
         /\ raw[1] \in Byte /\ raw[2] \in Byte /\ raw[3] \in Byte /\ raw[4] \in Byte
BY DEF Payloads

High(w) == w \div 256
Low(w) == w % 256

LEMMA Words ==
  /\ \A v \in Word : v \in Int /\ 0 <= v /\ v <= 65535
  /\ \A v \in Int : 0 <= v /\ v <= 65535 => v \in Word
<1>1. Steps16 = 65535
  BY SMT DEF Steps16
<1>2. Steps16 \in Int
  BY <1>1, SMT
<1>3. \A v : v \in Word <=> v \in Int /\ 0 <= v /\ v <= Steps16
  BY <1>2, SMT DEF Word
<1> QED
  BY <1>1, <1>3, SMT

\* A 16-bit value is the two bytes it is sent as.
LEMMA Split16 ==
  ASSUME NEW v \in Word
  PROVE  /\ High(v) \in Byte /\ Low(v) \in Byte
         /\ Unpack16(High(v), Low(v)) = v
         /\ BE16(v) = <<High(v), Low(v)>>
         /\ LE16(v) = <<Low(v), High(v)>>
<1>1. v \in Int /\ 0 <= v /\ v <= 65535
  BY Words, SMT
<1>2. High(v) \in Byte /\ Low(v) \in Byte /\ Unpack16(High(v), Low(v)) = v
  BY <1>1, SMT DEF High, Low, Byte, Unpack16
<1>3. BE16(v) = <<High(v), Low(v)>> /\ LE16(v) = <<Low(v), High(v)>>
  BY Zenon DEF High, Low, BE16, LE16
<1> QED
  BY <1>2, <1>3, Zenon

Bits12 == 0 .. 4095
First8(v) == v \div 16
Mixed8(v, w) == (v % 16) * 16 + w \div 256

\* Two 12-bit values share three bytes.
LEMMA Split12 ==
  ASSUME NEW v \in Bits12, NEW w \in Bits12
  PROVE  /\ First8(v) \in Byte /\ Mixed8(v, w) \in Byte /\ Low(w) \in Byte
         /\ Unpack12Velocity(First8(v), Mixed8(v, w)) = v
         /\ Unpack12Torque(Mixed8(v, w), Low(w)) = w
<1>1. v \in Int /\ 0 <= v /\ v <= 4095 /\ w \in Int /\ 0 <= w /\ w <= 4095
  BY SMT DEF Bits12
<1>2. First8(v) \in Byte /\ Mixed8(v, w) \in Byte /\ Low(w) \in Byte
  BY <1>1, SMT DEF First8, Mixed8, Low, Byte
<1>3. Unpack12Velocity(First8(v), Mixed8(v, w)) = v
  BY <1>1, SMT DEF First8, Mixed8, Unpack12Velocity
<1>4. Unpack12Torque(Mixed8(v, w), Low(w)) = w
  BY <1>1, SMT DEF Mixed8, Low, Unpack12Torque
<1> QED
  BY <1>2, <1>3, <1>4, Zenon

Id29(type, area, low) == type * 2^24 + area * 2^8 + low

Splits(id, type, area, low) ==
  /\ id \in 0 .. 2^29 - 1
  /\ id % 2^8 = low
  /\ id \div 2^24 = type
  /\ (id \div 2^8) % 2^16 = area
  /\ (id \div 2^8) % 2^8 = area % 256
  /\ (id \div 2^16) % 2^6 = (area \div 256) % 64
  /\ (id \div 2^22) % 4 = (area \div 16384) % 4

\* A 29-bit identifier is made of a type, two bytes of area, and a byte.
LEMMA Identifier ==
  ASSUME NEW type \in 0 .. 31, NEW area \in Word, NEW low \in Byte,
         NEW id, id = Id29(type, area, low)
  PROVE  Splits(id, type, area, low)
<1> SUFFICES /\ id \in 0 .. 2^29 - 1
             /\ id % 2^8 = low
             /\ id \div 2^24 = type
             /\ (id \div 2^8) % 2^16 = area
             /\ (id \div 2^8) % 2^8 = area % 256
             /\ (id \div 2^16) % 2^6 = (area \div 256) % 64
             /\ (id \div 2^22) % 4 = (area \div 16384) % 4
  BY SMT DEF Splits
<1>1. type \in Int /\ 0 <= type /\ type <= 31
  BY SMT
<1>2. area \in Int /\ 0 <= area /\ area <= 65535
  BY Words, SMT
<1>3. low \in Int /\ 0 <= low /\ low <= 255
  BY SMT DEF Byte
<1>4. id = type * 16777216 + area * 256 + low
  BY Powers, SMT DEF Id29
<1>5. id \in Int /\ 0 <= id /\ id <= 536870911
  BY <1>1, <1>2, <1>3, <1>4, SMT
<1>6. id % 256 = low
  BY <1>1, <1>2, <1>3, <1>4, SMT
<1>7. id \div 16777216 = type
  BY <1>1, <1>2, <1>3, <1>4, SMT
<1> DEFINE rest == type * 65536 + area
<1>8. id \div 256 = rest
  BY <1>1, <1>2, <1>3, <1>4, SMT
<1>9. rest % 65536 = area /\ rest % 256 = area % 256
  BY <1>1, <1>2, SMT
<1>10. (id \div 65536) % 64 = (area \div 256) % 64
  <2> DEFINE b == area \div 256
  <2>1. b \in Int /\ id \div 65536 = type * 256 + b
    BY <1>1, <1>2, <1>3, <1>4, SMT
  <2> HIDE DEF b
  <2>2. (type * 256 + b) % 64 = b % 64
    BY <1>1, <2>1, SMT
  <2> QED
    BY <2>1, <2>2, SMT DEF b
<1>11. (id \div 4194304) % 4 = (area \div 16384) % 4
  BY <1>1, <1>2, <1>3, <1>4, SMT
<1> HIDE DEF rest
<1>12. id \in 0 .. 2^29 - 1
  BY <1>5, Powers, SMT
<1> QED
  BY <1>6, <1>7, <1>8, <1>9, <1>10, <1>11, <1>12, Powers, SMT

-----------------------------------------------------------------------------
(* The data of a frame, and what they are read as                          *)

CarriesParam(d, v) ==
  /\ d \in [1 .. 8 -> Byte] /\ Unpack16(d[2], d[1]) = v

LEMMA ReadBytes ==
  ASSUME NEW v \in Word, NEW d, d = LE16(v) \o SubSeq(Zeros, 3, 8)
  PROVE  CarriesParam(d, v)
<1> SUFFICES /\ d \in [1 .. 8 -> Byte] /\ Unpack16(d[2], d[1]) = v
  BY Zenon DEF CarriesParam
<1>1. /\ High(v) \in Byte /\ Low(v) \in Byte /\ Unpack16(High(v), Low(v)) = v /\ 0 \in Byte
      /\ LE16(v) = <<Low(v), High(v)>>
  BY Split16, SMT DEF Byte
<1> DEFINE bytes == <<Low(v), High(v), 0, 0, 0, 0, 0, 0>>
<1>2. <<Low(v), High(v)>> \o <<0, 0, 0, 0, 0, 0>> = bytes
  BY Concat26, SMT
<1>3. d = bytes
  BY <1>1, <1>2, LastSix, Zenon
<1>4. bytes \in [1 .. 8 -> Byte]
  BY <1>1, EightBytes, Zenon
<1>5. bytes[1] = Low(v) /\ bytes[2] = High(v)
  BY SMT
<1> QED
  BY <1>1, <1>3, <1>4, <1>5, Zenon

CarriesPayload(d, v, raw) ==
  /\ d \in [1 .. 8 -> Byte] /\ Unpack16(d[2], d[1]) = v /\ <<d[8], d[7], d[6], d[5]>> = raw

LEMMA WriteBytes ==
  ASSUME NEW v \in Word, NEW raw \in Payloads, NEW d, d = LE16(v) \o <<0, 0>> \o LE32(raw)
  PROVE  CarriesPayload(d, v, raw)
<1> SUFFICES /\ d \in [1 .. 8 -> Byte] /\ Unpack16(d[2], d[1]) = v /\ <<d[8], d[7], d[6], d[5]>> = raw
  BY Zenon DEF CarriesPayload
<1>1. /\ High(v) \in Byte /\ Low(v) \in Byte /\ Unpack16(High(v), Low(v)) = v /\ 0 \in Byte
      /\ LE16(v) = <<Low(v), High(v)>>
  BY Split16, SMT DEF Byte
<1> DEFINE bytes == <<Low(v), High(v), 0, 0, raw[4], raw[3], raw[2], raw[1]>>
<1>2. <<Low(v), High(v)>> \o <<0, 0>> = <<Low(v), High(v), 0, 0>>
  BY Concat22, SMT
<1>3. <<Low(v), High(v), 0, 0>> \o <<raw[4], raw[3], raw[2], raw[1]>> = bytes
  BY Concat44, SMT
<1>4. d = bytes
  BY <1>1, <1>2, <1>3, Zenon DEF LE32
<1>5. bytes \in [1 .. 8 -> Byte]
  BY <1>1, EightBytes, PayloadBytes, Zenon
<1>6. bytes[1] = Low(v) /\ bytes[2] = High(v)
      /\ bytes[5] = raw[4] /\ bytes[6] = raw[3] /\ bytes[7] = raw[2] /\ bytes[8] = raw[1]
  BY SMT
<1> HIDE DEF bytes
<1>7. <<bytes[8], bytes[7], bytes[6], bytes[5]>> = raw
  BY <1>6, PayloadBytes, Zenon
<1>8. Unpack16(bytes[2], bytes[1]) = v
  BY <1>1, <1>6, Zenon
<1> QED
  BY <1>4, <1>5, <1>7, <1>8, Zenon

CarriesFaults(d, fault, warning) ==
  /\ d \in [1 .. 8 -> Byte]
  /\ <<d[4], d[3], d[2], d[1]>> = fault
  /\ <<d[8], d[7], d[6], d[5]>> = warning

LEMMA FaultBytes ==
  ASSUME NEW fault \in Payloads, NEW warning \in Payloads, NEW d,
         d = LE32(fault) \o LE32(warning)
  PROVE  CarriesFaults(d, fault, warning)
<1> SUFFICES /\ d \in [1 .. 8 -> Byte]
             /\ <<d[4], d[3], d[2], d[1]>> = fault
             /\ <<d[8], d[7], d[6], d[5]>> = warning
  BY Zenon DEF CarriesFaults
<1> DEFINE bytes == <<fault[4], fault[3], fault[2], fault[1],
                     warning[4], warning[3], warning[2], warning[1]>>
<1>1. <<fault[4], fault[3], fault[2], fault[1]>>
        \o <<warning[4], warning[3], warning[2], warning[1]>> = bytes
  BY Concat44, SMT
<1>2. d = bytes
  BY <1>1, Zenon DEF LE32
<1>3. bytes \in [1 .. 8 -> Byte]
  BY EightBytes, PayloadBytes, Zenon
<1>4. /\ bytes[1] = fault[4] /\ bytes[2] = fault[3] /\ bytes[3] = fault[2]
      /\ bytes[4] = fault[1] /\ bytes[5] = warning[4] /\ bytes[6] = warning[3]
      /\ bytes[7] = warning[2] /\ bytes[8] = warning[1]
  BY SMT
<1> HIDE DEF bytes
<1> QED
  BY <1>2, <1>3, <1>4, PayloadBytes, SMT

CarriesWords(d, s, t, u, v) ==
  /\ d \in [1 .. 8 -> Byte]
  /\ Unpack16(d[1], d[2]) = s /\ Unpack16(d[3], d[4]) = t
  /\ Unpack16(d[5], d[6]) = u /\ Unpack16(d[7], d[8]) = v

LEMMA WordBytes ==
  ASSUME NEW s \in Word, NEW t \in Word, NEW u \in Word, NEW v \in Word, NEW d,
         d = BE16(s) \o BE16(t) \o BE16(u) \o BE16(v)
  PROVE  CarriesWords(d, s, t, u, v)
<1> SUFFICES /\ d \in [1 .. 8 -> Byte]
             /\ Unpack16(d[1], d[2]) = s /\ Unpack16(d[3], d[4]) = t
             /\ Unpack16(d[5], d[6]) = u /\ Unpack16(d[7], d[8]) = v
  BY Zenon DEF CarriesWords
<1>1. \A w \in Word : /\ High(w) \in Byte /\ Low(w) \in Byte /\ Unpack16(High(w), Low(w)) = w
                      /\ BE16(w) = <<High(w), Low(w)>>
  BY Split16, Zenon
<1> DEFINE bytes == <<High(s), Low(s), High(t), Low(t), High(u), Low(u), High(v), Low(v)>>
<1>2. <<High(s), Low(s)>> \o <<High(t), Low(t)>> = <<High(s), Low(s), High(t), Low(t)>>
  BY Concat22, SMT
<1>3. <<High(s), Low(s), High(t), Low(t)>> \o <<High(u), Low(u)>>
        = <<High(s), Low(s), High(t), Low(t), High(u), Low(u)>>
  BY Concat42, SMT
<1>4. <<High(s), Low(s), High(t), Low(t), High(u), Low(u)>> \o <<High(v), Low(v)>> = bytes
  BY Concat62, SMT
<1>5. d = bytes
  BY <1>1, <1>2, <1>3, <1>4, Zenon
<1>6. bytes \in [1 .. 8 -> Byte]
  BY <1>1, EightBytes, Zenon
<1>7. /\ bytes[1] = High(s) /\ bytes[2] = Low(s) /\ bytes[3] = High(t) /\ bytes[4] = Low(t)
      /\ bytes[5] = High(u) /\ bytes[6] = Low(u) /\ bytes[7] = High(v) /\ bytes[8] = Low(v)
  BY SMT
<1> HIDE DEF bytes
<1> QED
  BY <1>1, <1>5, <1>6, <1>7, SMT

CarriesMitControl(d, p, v, kp, kd, t) ==
  /\ d \in [1 .. 8 -> Byte]
  /\ Unpack16(d[1], d[2]) = p
  /\ Unpack12Velocity(d[3], d[4]) = v  /\ Unpack12Torque(d[4], d[5]) = kp
  /\ Unpack12Velocity(d[6], d[7]) = kd /\ Unpack12Torque(d[7], d[8]) = t

LEMMA MitControlBytes ==
  ASSUME NEW p \in Word, NEW v \in Bits12, NEW kp \in Bits12, NEW kd \in Bits12,
         NEW t \in Bits12, NEW d, d = BE16(p) \o Put12(v, kp, kd, t)
  PROVE  CarriesMitControl(d, p, v, kp, kd, t)
<1> SUFFICES /\ d \in [1 .. 8 -> Byte]
             /\ Unpack16(d[1], d[2]) = p
             /\ Unpack12Velocity(d[3], d[4]) = v  /\ Unpack12Torque(d[4], d[5]) = kp
             /\ Unpack12Velocity(d[6], d[7]) = kd /\ Unpack12Torque(d[7], d[8]) = t
  BY Zenon DEF CarriesMitControl
<1>1. /\ High(p) \in Byte /\ Low(p) \in Byte /\ Unpack16(High(p), Low(p)) = p
      /\ BE16(p) = <<High(p), Low(p)>>
  BY Split16, Zenon
<1>2. /\ First8(v) \in Byte /\ Mixed8(v, kp) \in Byte /\ Low(kp) \in Byte
      /\ Unpack12Velocity(First8(v), Mixed8(v, kp)) = v
      /\ Unpack12Torque(Mixed8(v, kp), Low(kp)) = kp
  BY Split12, Zenon
<1>3. /\ First8(kd) \in Byte /\ Mixed8(kd, t) \in Byte /\ Low(t) \in Byte
      /\ Unpack12Velocity(First8(kd), Mixed8(kd, t)) = kd
      /\ Unpack12Torque(Mixed8(kd, t), Low(t)) = t
  BY Split12, Zenon
<1>4. Put12(v, kp, kd, t)
        = <<First8(v), Mixed8(v, kp), Low(kp), First8(kd), Mixed8(kd, t), Low(t)>>
  BY Zenon DEF Put12, First8, Mixed8, Low
<1> DEFINE bytes == <<High(p), Low(p), First8(v), Mixed8(v, kp), Low(kp),
                     First8(kd), Mixed8(kd, t), Low(t)>>
<1>5. <<High(p), Low(p)>>
        \o <<First8(v), Mixed8(v, kp), Low(kp), First8(kd), Mixed8(kd, t), Low(t)>> = bytes
  BY Concat26, SMT
<1>6. d = bytes
  BY <1>1, <1>4, <1>5, Zenon
<1>7. bytes \in [1 .. 8 -> Byte]
  BY <1>1, <1>2, <1>3, EightBytes, Zenon
<1>8. /\ bytes[1] = High(p) /\ bytes[2] = Low(p) /\ bytes[3] = First8(v)
      /\ bytes[4] = Mixed8(v, kp) /\ bytes[5] = Low(kp) /\ bytes[6] = First8(kd)
      /\ bytes[7] = Mixed8(kd, t) /\ bytes[8] = Low(t)
  BY SMT
<1> HIDE DEF bytes
<1>9. /\ Unpack16(d[1], d[2]) = p
      /\ Unpack12Velocity(d[3], d[4]) = v  /\ Unpack12Torque(d[4], d[5]) = kp
  BY <1>1, <1>2, <1>6, <1>8, Zenon
<1>10. Unpack12Velocity(d[6], d[7]) = kd /\ Unpack12Torque(d[7], d[8]) = t
  BY <1>3, <1>6, <1>8, Zenon
<1> QED
  BY <1>6, <1>7, <1>9, <1>10, Zenon

CarriesMitFeedback(d, id, p, v, t, temperature) ==
  /\ d \in [1 .. 8 -> Byte]
  /\ d[1] = id
  /\ Unpack16(d[2], d[3]) = p
  /\ Unpack12Velocity(d[4], d[5]) = v /\ Unpack12Torque(d[5], d[6]) = t
  /\ Unpack16(d[7], d[8]) = temperature

LEMMA MitFeedbackBytes ==
  ASSUME NEW id \in Byte, NEW p \in Word, NEW v \in Bits12, NEW t \in Bits12,
         NEW temperature \in Word, NEW d,
         d = <<id>> \o BE16(p) \o <<First8(v), Mixed8(v, t), Low(t)>> \o BE16(temperature)
  PROVE  CarriesMitFeedback(d, id, p, v, t, temperature)
<1> SUFFICES /\ d \in [1 .. 8 -> Byte]
             /\ d[1] = id
             /\ Unpack16(d[2], d[3]) = p
             /\ Unpack12Velocity(d[4], d[5]) = v /\ Unpack12Torque(d[5], d[6]) = t
             /\ Unpack16(d[7], d[8]) = temperature
  BY Zenon DEF CarriesMitFeedback
<1>1. \A w \in Word : /\ High(w) \in Byte /\ Low(w) \in Byte /\ Unpack16(High(w), Low(w)) = w
                      /\ BE16(w) = <<High(w), Low(w)>>
  BY Split16, Zenon
<1>2. /\ First8(v) \in Byte /\ Mixed8(v, t) \in Byte /\ Low(t) \in Byte
      /\ Unpack12Velocity(First8(v), Mixed8(v, t)) = v /\ Unpack12Torque(Mixed8(v, t), Low(t)) = t
  BY Split12, Zenon
<1>3. BE16(p) = <<High(p), Low(p)>> /\ BE16(temperature) = <<High(temperature), Low(temperature)>>
  BY <1>1, Zenon
<1> DEFINE bytes == <<id, High(p), Low(p), First8(v), Mixed8(v, t), Low(t),
                     High(temperature), Low(temperature)>>
<1>4. <<id>> \o <<High(p), Low(p)>> = <<id, High(p), Low(p)>>
  BY Concat12, SMT
<1>5. <<id, High(p), Low(p)>> \o <<First8(v), Mixed8(v, t), Low(t)>>
        = <<id, High(p), Low(p), First8(v), Mixed8(v, t), Low(t)>>
  BY Concat33, SMT
<1>6. <<id, High(p), Low(p), First8(v), Mixed8(v, t), Low(t)>>
        \o <<High(temperature), Low(temperature)>> = bytes
  BY Concat62, SMT
<1>7. d = bytes
  BY <1>3, <1>4, <1>5, <1>6, Zenon
<1>8. bytes \in [1 .. 8 -> Byte]
  BY <1>1, <1>2, EightBytes, Zenon
<1>9. /\ bytes[1] = id /\ bytes[2] = High(p) /\ bytes[3] = Low(p) /\ bytes[4] = First8(v)
      /\ bytes[5] = Mixed8(v, t) /\ bytes[6] = Low(t)
      /\ bytes[7] = High(temperature) /\ bytes[8] = Low(temperature)
  BY SMT
<1> HIDE DEF bytes
<1>10. Unpack16(bytes[2], bytes[3]) = p /\ Unpack16(bytes[7], bytes[8]) = temperature
  BY <1>1, <1>9, SMT
<1>11. Unpack12Velocity(bytes[4], bytes[5]) = v /\ Unpack12Torque(bytes[5], bytes[6]) = t
  BY <1>2, <1>9, Zenon
<1>12. bytes[1] = id
  BY <1>9, Zenon
<1> QED
  <2>1. d \in [1 .. 8 -> Byte]
    BY <1>7, <1>8, Zenon
  <2>2. d[1] = id
    BY <1>7, <1>12, Zenon
  <2>3. Unpack16(d[2], d[3]) = p /\ Unpack16(d[7], d[8]) = temperature
    BY <1>7, <1>10, Zenon
  <2>4. Unpack12Velocity(d[4], d[5]) = v /\ Unpack12Torque(d[5], d[6]) = t
    BY <1>7, <1>11, Zenon
  <2> QED
    BY <2>1, <2>2, <2>3, <2>4, Zenon

-----------------------------------------------------------------------------
(* Requests and reports                                                    *)

LEMMA EncodedWord ==
  ASSUME NEW x \in Int, NEW lo \in Int, NEW hi \in Int, lo < hi
  PROVE  Encode(x, lo, hi, Steps16) \in Word
<1>1. Steps16 \in Nat \ {0} /\ 0 .. Steps16 = Word
  BY SMT DEF Steps16, Word
<1> QED
  BY <1>1, EncodeInRange, SMT

LEMMA Encoded12 ==
  ASSUME NEW x \in Int, NEW lo \in Int, NEW hi \in Int, lo < hi
  PROVE  Encode(x, lo, hi, Steps12) \in Bits12
<1>1. Steps12 \in Nat \ {0} /\ 0 .. Steps12 = Bits12
  BY SMT DEF Steps12, Bits12
<1> QED
  BY <1>1, EncodeInRange, SMT

\* Only what is at or beyond the end of its range is sent at full scale.
LEMMA FullScale ==
  ASSUME NEW x \in Int, NEW lo \in Int, NEW hi \in Int, lo < hi,
         NEW steps \in Nat \ {0}
  PROVE  Encode(x, lo, hi, steps) = steps <=> x >= hi
<1> DEFINE clamped == Clamp(x, lo, hi)
           c == clamped - lo
           d == hi - lo
<1>1. clamped \in lo .. hi
  BY ClampInRange, SMT
<1>2. clamped = hi <=> x >= hi
  BY SMT DEF Clamp
<1> HIDE DEF clamped
<1>3. d \in Nat \ {0} /\ c \in 0 .. d /\ c \in Nat
  BY <1>1, SMT
<1>4. c = d <=> clamped = hi
  BY <1>1, SMT
<1>5. Encode(x, lo, hi, steps) = (c * steps) \div d
  BY Zenon DEF Encode, clamped
<1> HIDE DEF c, d
<1>6. c * steps \in Nat
  BY <1>3, SMT
<1>7. ASSUME (c * steps) \div d = steps PROVE c = d
  <2> SUFFICES ASSUME c < d PROVE FALSE
    BY <1>3, SMT
  <2>3. steps * d <= c * steps
    BY <1>3, <1>6, <1>7, Quotient, SMT
  <2>1. steps * d >= steps * (c + 1)
    BY <1>3, SMT
  <2>2. steps * (c + 1) = c * steps + steps
    BY <1>3, SMT
  <2> QED
    BY <1>3, <1>6, <2>1, <2>2, <2>3, SMT
<1>8. ASSUME c = d PROVE (c * steps) \div d = steps
  <2>1. d * steps = steps * d
    BY <1>3, SMT
  <2>2. (steps * d) \div d = steps
    BY <1>3, SMT
  <2> QED
    BY <1>8, <2>1, <2>2, Zenon
<1> QED
  BY <1>2, <1>4, <1>5, <1>7, <1>8, Zenon

LEMMA MotorFields ==
  ASSUME NEW m \in KnownMotors
  PROVE  /\ m.id \in Byte /\ m.host \in Byte /\ m.protocol \in {"PRIVATE", "MIT"}
         /\ m.profile.torque \in Nat \ {0} /\ m.profile.velocity \in Nat \ {0}
BY SMT DEF KnownMotors

LEMMA RequestFields ==
  ASSUME NEW r \in KnownRequests
  PROVE  /\ r.cmd \in {"enable", "stop", "clear_error", "set_zero", "ping", "read", "write",
                       "control"}
         /\ r.cmd \in {"read", "write"} => r.param \in DOMAIN ParamId
         /\ r.cmd = "write" => r.raw \in Payloads
         /\ r.cmd = "control" => /\ r.torque \in Int /\ r.pos \in Int /\ r.vel \in Int
                                 /\ r.kp \in Int /\ r.kd \in Int
BY SMT DEF KnownRequests

LEMMA ReportFields ==
  ASSUME NEW r \in KnownReports
  PROVE  /\ r.kind \in ReportKinds
         /\ r.kind = "feedback" => /\ r.state \in 0 .. 2 /\ r.error \in 0 .. 63
                                   /\ r.angle \in -FourPi .. FourPi /\ r.velocity \in Int
                                   /\ r.torque \in Int /\ r.temperature \in Word
         /\ r.kind = "param" => r.index \in Word /\ r.payload \in Payloads
         /\ r.kind = "mcu_id" => r.mcu \in [1 .. 8 -> Byte]
         /\ r.kind = "fault" => r.fault \in Payloads /\ r.warning \in Payloads
BY SMT DEF KnownReports, ReportKinds

LEMMA ParamWords == \A p \in DOMAIN ParamId : ParamId[p] \in Word
<1>1. DOMAIN ParamId = {"RUN_MODE", "IQ_REF", "SPD_REF", "LOC_REF", "LIMIT_SPD"}
  BY SMT DEF ParamId
<1>2. /\ ParamId["RUN_MODE"] = 28677 /\ ParamId["IQ_REF"] = 28678 /\ ParamId["SPD_REF"] = 28682
      /\ ParamId["LOC_REF"] = 28694 /\ ParamId["LIMIT_SPD"] = 28695
  BY SMT DEF ParamId
<1>3. {28677, 28678, 28682, 28694, 28695} \subseteq Word
  BY Words, SMT
<1> QED
  BY <1>1, <1>2, <1>3, SMT

-----------------------------------------------------------------------------
(* Setpoints and measurements                                              *)

LEMMA Setpoint ==
  ASSUME NEW x \in Int, NEW range \in Nat \ {0}, NEW steps \in Nat \ {0}
  PROVE  Near(Decode(Encode(x, -range, range, steps), -range, range, steps),
              Target(x, range), Quantum(range, steps))
<1> DEFINE clamped == Clamp(x, -range, range)
           decoded == Decode(Encode(x, -range, range, steps), -range, range, steps)
           q == (2 * range) \div steps
<1>1. range - (-range) = 2 * range /\ -range \in Int /\ -range < range
  BY SMT
<1>2. clamped \in Int /\ decoded \in Int /\ clamped - decoded \in 0 .. q + 1
  BY <1>1, RoundTrip, SMT
<1>3. q \in Nat
  BY Quotient, SMT
<1> HIDE DEF clamped, decoded, q
<1>4. decoded - clamped \in -(q + 2) .. (q + 2)
  BY <1>2, <1>3, SMT
<1> QED
  BY <1>4, Zenon DEF Near, Target, Quantum, clamped, decoded, q

LEMMA Gain ==
  ASSUME NEW x \in Int, NEW top \in Nat \ {0}, NEW steps \in Nat \ {0}
  PROVE  Near(Decode(Encode(x, 0, top, steps), 0, top, steps), Clamp(x, 0, top),
              top \div steps + 2)
<1> DEFINE clamped == Clamp(x, 0, top)
           decoded == Decode(Encode(x, 0, top, steps), 0, top, steps)
           q == top \div steps
<1>1. top - 0 = top /\ top \in Int /\ 0 \in Int /\ 0 < top
  BY SMT
<1>2. clamped \in Int /\ decoded \in Int /\ clamped - decoded \in 0 .. q + 1
  <2>1. /\ clamped \in Int /\ decoded \in Int
        /\ clamped - decoded \in 0 .. ((top - 0) \div steps) + 1
    BY <1>1, RoundTrip, Zenon
  <2> QED
    BY <1>1, <2>1, Zenon
<1>3. q \in Nat
  BY Quotient, SMT
<1> HIDE DEF clamped, decoded, q
<1>4. decoded - clamped \in -(q + 2) .. (q + 2)
  BY <1>2, <1>3, SMT
<1> QED
  BY <1>4, Zenon DEF Near, clamped, decoded, q

LEMMA Measurement ==
  ASSUME NEW range \in Nat \ {0}, NEW x \in -range .. range, NEW steps \in Nat \ {0}
  PROVE  Near(Decode(Encode(x, -range, range, steps), -range, range, steps), x,
              Quantum(range, steps))
<1>1. x \in Int /\ Target(x, range) = x
  BY SMT DEF Target, Clamp
<1> QED
  BY <1>1, Setpoint, Zenon

\* A MIT motor reads angles with a range 4 mrad wider than the one they are sent with.
LEMMA MitAngle ==
  ASSUME NEW x \in Int
  PROVE  Near(Decode(Encode(x, -FourPi, FourPi, Steps16), -MITAngle, MITAngle, Steps16),
              Target(x, FourPi), Quantum(FourPi, Steps16) + MITAngle - FourPi)
<1> DEFINE raw == Encode(x, -FourPi, FourPi, Steps16)
           clamped == Clamp(x, -FourPi, FourPi)
           narrow == Decode(raw, -FourPi, FourPi, Steps16)
           wide == Decode(raw, -MITAngle, MITAngle, Steps16)
<1>1. /\ Steps16 \in Nat \ {0} /\ FourPi \in Int /\ -FourPi \in Int /\ -FourPi < FourPi
      /\ (FourPi - (-FourPi)) \div Steps16 = 0
      /\ Quantum(FourPi, Steps16) + MITAngle - FourPi = 6
  BY SMT DEF Steps16, FourPi, MITAngle, Quantum
<1>2. raw \in Word
  BY <1>1, EncodedWord, Zenon
<1>3. clamped \in Int /\ narrow \in Int /\ clamped - narrow \in 0 .. 0 + 1
  <2>1. /\ clamped \in Int /\ narrow \in Int
        /\ clamped - narrow \in 0 .. ((FourPi - (-FourPi)) \div Steps16) + 1
    BY <1>1, RoundTrip, Zenon
  <2> QED
    BY <1>1, <2>1, Zenon
<1> HIDE DEF raw, clamped
<1>4. raw \in Int /\ 0 <= raw /\ raw <= 65535
  BY <1>2, Words, SMT
<1>5. narrow = (raw * 25132) \div 65535 - 12566
  BY <1>4, SMT DEF Decode, FourPi, Steps16
<1>6. wide = (raw * 25140) \div 65535 - 12570
  BY <1>4, SMT DEF Decode, MITAngle, Steps16
<1> HIDE DEF narrow, wide
<1>7. wide \in Int /\ wide - narrow \in -4 .. 4
  BY <1>4, <1>5, <1>6, SMT
<1>8. wide - clamped \in -6 .. 6
  BY <1>3, <1>7, SMT
<1> QED
  BY <1>1, <1>8, SMT DEF Near, Target, clamped, wide, raw

-----------------------------------------------------------------------------
(* PRIVATE requests                                                        *)

LEMMA FrameTypeCodes ==
  /\ DOMAIN FrameType = {"INFO", "CONTROL", "FEEDBACK", "ENABLE", "DISABLE", "ZERO_POS",
                         "READ_PARAM", "WRITE_PARAM", "FAULT"}
  /\ FrameType["INFO"] = 0 /\ FrameType["CONTROL"] = 1 /\ FrameType["FEEDBACK"] = 2
  /\ FrameType["ENABLE"] = 3 /\ FrameType["DISABLE"] = 4 /\ FrameType["ZERO_POS"] = 6
  /\ FrameType["READ_PARAM"] = 17 /\ FrameType["WRITE_PARAM"] = 18 /\ FrameType["FAULT"] = 21
BY SMT DEF FrameType

LEMMA FrameTypesFit == \A t \in DOMAIN FrameType : FrameType[t] \in 0 .. 31
BY FrameTypeCodes, SMT

LEMMA BytesAreWords ==
  ASSUME NEW b \in Byte
  PROVE  b \in Word
BY Words, SMT DEF Byte

AreaOf(id) == (id \div 2^8) % 2^16

IsPrivateFrame(f, t, motor, area, data) ==
  /\ WellFormed(f) /\ f.eff /\ f.data = data
  /\ f.id % 2^8 = motor /\ GetMsgType(f.id) = FrameType[t]
  /\ AreaOf(f.id) = area

LEMMA PrivateFrameFields ==
  ASSUME NEW motor \in Byte, NEW t \in DOMAIN FrameType, NEW area \in Word,
         NEW data \in [1 .. 8 -> Byte], NEW f, f = PrivateFrame(t, motor, area, data)
  PROVE  IsPrivateFrame(f, t, motor, area, data)
<1> SUFFICES /\ WellFormed(f) /\ f.eff /\ f.data = data
             /\ f.id % 2^8 = motor /\ GetMsgType(f.id) = FrameType[t]
             /\ AreaOf(f.id) = area
  BY Zenon DEF IsPrivateFrame
<1>1. /\ f.eff = TRUE /\ f.dlc = 8 /\ f.data = data
      /\ f.id = Id29(FrameType[t], area, motor)
  BY SMT DEF PrivateFrame, PackId, Id29
<1>2. FrameType[t] \in 0 .. 31
  BY FrameTypesFit, Zenon
<1>3. /\ f.id \in 0 .. 2^29 - 1 /\ f.id % 2^8 = motor /\ f.id \div 2^24 = FrameType[t]
      /\ AreaOf(f.id) = area
  <2>1. Splits(f.id, FrameType[t], area, motor)
    BY <1>1, <1>2, Identifier, Zenon
  <2> QED
    BY <2>1, SMT DEF Splits, AreaOf
<1>4. f.id \in 0 .. (IF f.eff THEN 2^29 ELSE 2^11) - 1
  BY <1>1, <1>3, Zenon
<1>5. f.dlc \in 0 .. 8 /\ DOMAIN f.data = 1 .. 8 /\ \A i \in 1 .. 8 : f.data[i] \in Byte
  BY <1>1, SMT
<1> QED
  BY <1>1, <1>3, <1>4, <1>5, Zenon DEF WellFormed, GetMsgType

LEMMA RangesOrdered ==
  /\ \A range \in Nat \ {0} : -range \in Int /\ range \in Int /\ -range < range
  /\ -FourPi \in Int /\ FourPi \in Int /\ -FourPi < FourPi
  /\ 0 \in Int /\ MaxKp \in Int /\ 0 < MaxKp /\ MaxKd \in Int /\ 0 < MaxKd
BY SMT DEF FourPi, MaxKp, MaxKd

LEMMA PrivateSetpoints ==
  ASSUME NEW m \in KnownMotors, m.protocol = "PRIVATE", NEW r,
         r.torque \in Int, r.pos \in Int, r.vel \in Int, r.kp \in Int, r.kd \in Int
  PROVE  LET torque == Encode(r.torque, -m.profile.torque, m.profile.torque, Steps16)
             pos == Encode(r.pos, -FourPi, FourPi, Steps16)
             vel == Encode(r.vel, -m.profile.velocity, m.profile.velocity, Steps16)
             kp == Encode(r.kp, 0, MaxKp, Steps16)
             kd == Encode(r.kd, 0, MaxKd, Steps16)
         IN  SetpointsKept(m, r, <<torque, pos, vel, kp, kd>>)
<1> DEFINE torque == Encode(r.torque, -m.profile.torque, m.profile.torque, Steps16)
           pos == Encode(r.pos, -FourPi, FourPi, Steps16)
           vel == Encode(r.vel, -m.profile.velocity, m.profile.velocity, Steps16)
           kp == Encode(r.kp, 0, MaxKp, Steps16)
           kd == Encode(r.kd, 0, MaxKd, Steps16)
<1>1. m.profile.torque \in Nat \ {0} /\ m.profile.velocity \in Nat \ {0}
  BY MotorFields, Zenon
<1>2. FourPi \in Nat \ {0} /\ MaxKp \in Nat \ {0} /\ MaxKd \in Nat \ {0} /\ Steps16 \in Nat \ {0}
  BY SMT DEF FourPi, MaxKp, MaxKd, Steps16
<1>3. AngleRange(m) = FourPi /\ VelocityRange(m) = m.profile.velocity /\ Steps(m) = Steps16
  BY SMT DEF AngleRange, VelocityRange, Steps
<1>6. Near(Decode(torque, -m.profile.torque, m.profile.torque, Steps16),
           Target(r.torque, m.profile.torque), Quantum(m.profile.torque, Steps16))
  BY <1>1, <1>2, Setpoint, Zenon
<1>7. Near(Decode(pos, -FourPi, FourPi, Steps16), Target(r.pos, FourPi), AngleTolerance(m))
  <2>1. Quantum(FourPi, Steps16) + FourPi - FourPi = Quantum(FourPi, Steps16)
    BY SMT DEF Quantum, FourPi, Steps16
  <2>2. AngleTolerance(m) = Quantum(FourPi, Steps16)
    BY <1>3, <2>1, Zenon DEF AngleTolerance
  <2> QED
    BY <1>2, <2>2, Setpoint, Zenon
<1>8. Near(Decode(vel, -m.profile.velocity, m.profile.velocity, Steps16),
           Target(r.vel, m.profile.velocity), Quantum(m.profile.velocity, Steps16))
  BY <1>1, <1>2, Setpoint, Zenon
<1>9. Near(Decode(kp, 0, MaxKp, Steps16), Clamp(r.kp, 0, MaxKp), MaxKp \div Steps16 + 2)
  BY <1>2, Gain, Zenon
<1>10. Near(Decode(kd, 0, MaxKd, Steps16), Clamp(r.kd, 0, MaxKd), MaxKd \div Steps16 + 2)
  BY <1>2, Gain, Zenon
<1> HIDE DEF torque, pos, vel, kp, kd
<1>11. SetpointsKept(m, r, <<torque, pos, vel, kp, kd>>)
  BY <1>3, <1>6, <1>7, <1>8, <1>9, <1>10, SMT DEF SetpointsKept
<1> QED
  BY <1>11, Zenon DEF torque, pos, vel, kp, kd

LEMMA PrivateRequest ==
  ASSUME NEW m \in KnownMotors, m.protocol = "PRIVATE", NEW r \in KnownRequests,
         NEW f, f = EncodePrivate(m, r)
  PROVE  WellFormed(f) /\ f.eff /\ f.id % 2^8 = m.id /\ Means(m, r, UnderstoodPrivate(f))
<1>1. /\ m.id \in Byte /\ m.host \in Byte /\ m.host \in Word
      /\ m.profile.torque \in Nat \ {0} /\ m.profile.velocity \in Nat \ {0}
  BY BytesAreWords, MotorFields, Zenon
<1>2. /\ Zeros \in [1 .. 8 -> Byte] /\ First(1) \in [1 .. 8 -> Byte]
      /\ Zeros[1] # 1 /\ First(1)[1] = 1
  BY ZerosAreBytes, SMT DEF First, Zeros, Byte
<1>3. ASSUME NEW t \in DOMAIN FrameType, NEW data \in [1 .. 8 -> Byte],
             f = PrivateFrame(t, m.id, m.host, data)
      PROVE  /\ WellFormed(f) /\ f.eff /\ f.data = data
             /\ f.id % 2^8 = m.id /\ GetMsgType(f.id) = FrameType[t]
  <2>1. IsPrivateFrame(f, t, m.id, m.host, data)
    BY <1>1, <1>3, PrivateFrameFields, Zenon
  <2> QED
    BY <2>1, Zenon DEF IsPrivateFrame
<1>4. {"ENABLE", "DISABLE", "ZERO_POS", "INFO", "READ_PARAM", "WRITE_PARAM", "CONTROL"}
        \subseteq DOMAIN FrameType
  BY FrameTypeCodes, SMT
<1>5. CASE r.cmd = "enable"
  <2>1. f = PrivateFrame("ENABLE", m.id, m.host, Zeros)
    BY <1>5, SMT DEF EncodePrivate
  <2>2. /\ WellFormed(f) /\ f.eff /\ f.data = Zeros
        /\ f.id % 2^8 = m.id /\ GetMsgType(f.id) = FrameType["ENABLE"]
    BY <1>2, <1>3, <1>4, <2>1, Zenon
  <2>3. UnderstoodPrivate(f) = Obeyed("enable", <<>>)
    BY <1>2, <2>2, FrameTypeCodes, SMT DEF UnderstoodPrivate
  <2>4. Means(m, r, UnderstoodPrivate(f))
    BY <1>5, <2>3, SMT DEF Means
  <2> QED
    BY <2>2, <2>4, Zenon
<1>6. CASE r.cmd = "stop"
  <2>1. f = PrivateFrame("DISABLE", m.id, m.host, Zeros)
    BY <1>6, SMT DEF EncodePrivate
  <2>2. /\ WellFormed(f) /\ f.eff /\ f.data = Zeros
        /\ f.id % 2^8 = m.id /\ GetMsgType(f.id) = FrameType["DISABLE"]
    BY <1>2, <1>3, <1>4, <2>1, Zenon
  <2>3. UnderstoodPrivate(f) = Obeyed("stop", <<>>)
    BY <1>2, <2>2, FrameTypeCodes, SMT DEF UnderstoodPrivate
  <2>4. Means(m, r, UnderstoodPrivate(f))
    BY <1>6, <2>3, SMT DEF Means
  <2> QED
    BY <2>2, <2>4, Zenon
<1>7. CASE r.cmd = "clear_error"
  <2>1. f = PrivateFrame("DISABLE", m.id, m.host, First(1))
    BY <1>7, SMT DEF EncodePrivate
  <2>2. /\ WellFormed(f) /\ f.eff /\ f.data = First(1)
        /\ f.id % 2^8 = m.id /\ GetMsgType(f.id) = FrameType["DISABLE"]
    BY <1>2, <1>3, <1>4, <2>1, Zenon
  <2>3. UnderstoodPrivate(f) = Obeyed("clear_error", <<>>)
    BY <1>2, <2>2, FrameTypeCodes, SMT DEF UnderstoodPrivate
  <2>4. Means(m, r, UnderstoodPrivate(f))
    BY <1>7, <2>3, SMT DEF Means
  <2> QED
    BY <2>2, <2>4, Zenon
<1>8. CASE r.cmd = "set_zero"
  <2>1. f = PrivateFrame("ZERO_POS", m.id, m.host, First(1))
    BY <1>8, SMT DEF EncodePrivate
  <2>2. /\ WellFormed(f) /\ f.eff /\ f.data = First(1)
        /\ f.id % 2^8 = m.id /\ GetMsgType(f.id) = FrameType["ZERO_POS"]
    BY <1>2, <1>3, <1>4, <2>1, Zenon
  <2>3. UnderstoodPrivate(f) = Obeyed("set_zero", <<>>)
    BY <1>2, <2>2, FrameTypeCodes, SMT DEF UnderstoodPrivate
  <2>4. Means(m, r, UnderstoodPrivate(f))
    BY <1>8, <2>3, SMT DEF Means
  <2> QED
    BY <2>2, <2>4, Zenon
<1>9. CASE r.cmd = "ping"
  <2>1. f = PrivateFrame("INFO", m.id, m.host, Zeros)
    BY <1>9, SMT DEF EncodePrivate
  <2>2. /\ WellFormed(f) /\ f.eff /\ f.data = Zeros
        /\ f.id % 2^8 = m.id /\ GetMsgType(f.id) = FrameType["INFO"]
    BY <1>2, <1>3, <1>4, <2>1, Zenon
  <2>3. UnderstoodPrivate(f) = Obeyed("ping", <<>>)
    BY <1>2, <2>2, FrameTypeCodes, SMT DEF UnderstoodPrivate
  <2>4. Means(m, r, UnderstoodPrivate(f))
    BY <1>9, <2>3, SMT DEF Means
  <2> QED
    BY <2>2, <2>4, Zenon
<1>10. ASSUME r.cmd \in {"read", "write"} PROVE ParamId[r.param] \in Word
  BY <1>10, RequestFields, ParamWords, SMT
<1>11. CASE r.cmd = "read"
  <2> DEFINE data == LE16(ParamId[r.param]) \o SubSeq(Zeros, 3, 8)
  <2>1. f = PrivateFrame("READ_PARAM", m.id, m.host, data)
    BY <1>11, SMT DEF EncodePrivate
  <2>2. data \in [1 .. 8 -> Byte] /\ Unpack16(data[2], data[1]) = ParamId[r.param]
    BY <1>10, <1>11, ReadBytes, Zenon DEF CarriesParam
  <2> HIDE DEF data
  <2>3. /\ WellFormed(f) /\ f.eff /\ f.data = data
        /\ f.id % 2^8 = m.id /\ GetMsgType(f.id) = FrameType["READ_PARAM"]
    BY <1>3, <1>4, <2>1, <2>2, Zenon
  <2>4. UnderstoodPrivate(f) = Obeyed("read", <<ParamId[r.param]>>)
    BY <2>2, <2>3, FrameTypeCodes, SMT DEF UnderstoodPrivate, Unpack16
  <2>5. Means(m, r, UnderstoodPrivate(f))
    BY <1>11, <2>4, SMT DEF Means, Obeyed
  <2> QED
    BY <2>3, <2>5, Zenon
<1>12. CASE r.cmd = "write"
  <2> DEFINE data == LE16(ParamId[r.param]) \o <<0, 0>> \o LE32(r.raw)
             id == ParamId[r.param]
  <2>1. f = PrivateFrame("WRITE_PARAM", m.id, m.host, data)
    BY <1>12, SMT DEF EncodePrivate
  <2>2. r.raw \in Payloads
    BY <1>12, RequestFields, SMT
  <2>9. data = LE16(id) \o <<0, 0>> \o LE32(r.raw) /\ id \in Word
    BY <1>10, <1>12, Zenon
  <2> HIDE DEF data, id
  <2>3. /\ data \in [1 .. 8 -> Byte] /\ Unpack16(data[2], data[1]) = id
        /\ <<data[8], data[7], data[6], data[5]>> = r.raw
    <3>1. CarriesPayload(data, id, r.raw)
      BY <2>2, <2>9, WriteBytes, Zenon
    <3> QED
      BY <3>1, Zenon DEF CarriesPayload
  <2>4. /\ WellFormed(f) /\ f.eff /\ f.data = data
        /\ f.id % 2^8 = m.id /\ GetMsgType(f.id) = FrameType["WRITE_PARAM"]
    BY <1>3, <1>4, <2>1, <2>3, Zenon
  <2>5. UnderstoodPrivate(f) = Obeyed("write", <<id, data[8], data[7], data[6], data[5]>>)
    BY <2>3, <2>4, FrameTypeCodes, SMT DEF UnderstoodPrivate, Unpack16
  <2>6. <<id>> \o r.raw = <<id, data[8], data[7], data[6], data[5]>>
    <3>1. <<id>> \o <<data[8], data[7], data[6], data[5]>>
            = <<id, data[8], data[7], data[6], data[5]>>
      BY Concat14, SMT
    <3> QED
      BY <2>3, <3>1, Zenon
  <2>7. UnderstoodPrivate(f) = Obeyed("write", <<id>> \o r.raw)
    BY <2>5, <2>6, Zenon
  <2>8. Means(m, r, UnderstoodPrivate(f))
    BY <1>12, <2>7, SMT DEF Means, Obeyed, id
  <2> QED
    BY <2>4, <2>8, Zenon
<1>13. CASE r.cmd = "control"
  <2> DEFINE torque == Encode(r.torque, -m.profile.torque, m.profile.torque, Steps16)
             pos == Encode(r.pos, -FourPi, FourPi, Steps16)
             vel == Encode(r.vel, -m.profile.velocity, m.profile.velocity, Steps16)
             kp == Encode(r.kp, 0, MaxKp, Steps16)
             kd == Encode(r.kd, 0, MaxKd, Steps16)
             data == BE16(pos) \o BE16(vel) \o BE16(kp) \o BE16(kd)
  <2>1. f = PrivateFrame("CONTROL", m.id, torque, data)
    BY <1>13, SMT DEF EncodePrivate
  <2>2. /\ r.torque \in Int /\ r.pos \in Int /\ r.vel \in Int /\ r.kp \in Int /\ r.kd \in Int
    BY <1>13, RequestFields, SMT
  <2>3. SetpointsKept(m, r, <<torque, pos, vel, kp, kd>>)
    BY <1>1, <2>2, PrivateSetpoints, SMT
  <2>4. torque \in Word /\ pos \in Word /\ vel \in Word /\ kp \in Word /\ kd \in Word
    BY <1>1, <2>2, RangesOrdered, EncodedWord, Zenon
  <2>9. data = BE16(pos) \o BE16(vel) \o BE16(kp) \o BE16(kd)
    BY Zenon
  <2> HIDE DEF torque, pos, vel, kp, kd, data
  <2>5. /\ data \in [1 .. 8 -> Byte]
        /\ Unpack16(data[1], data[2]) = pos /\ Unpack16(data[3], data[4]) = vel
        /\ Unpack16(data[5], data[6]) = kp /\ Unpack16(data[7], data[8]) = kd
    <3>1. CarriesWords(data, pos, vel, kp, kd)
      BY <2>4, <2>9, WordBytes, Zenon
    <3> QED
      BY <3>1, Zenon DEF CarriesWords
  <2>6. /\ WellFormed(f) /\ f.eff /\ f.data = data
        /\ f.id % 2^8 = m.id /\ GetMsgType(f.id) = FrameType["CONTROL"]
        /\ AreaOf(f.id) = torque
    <3>1. IsPrivateFrame(f, "CONTROL", m.id, torque, data)
      BY <1>1, <1>4, <2>1, <2>4, <2>5, PrivateFrameFields, Zenon
    <3> QED
      BY <3>1, Zenon DEF IsPrivateFrame
  <2>7. UnderstoodPrivate(f) = Obeyed("control", <<torque, pos, vel, kp, kd>>)
    BY <2>5, <2>6, FrameTypeCodes, SMT DEF UnderstoodPrivate, AreaOf, Unpack16
  <2>8. ~Collides(m, r)
    BY Zenon DEF Collides
  <2>10. Means(m, r, UnderstoodPrivate(f))
    BY <1>13, <2>3, <2>7, <2>8, SMT DEF Means, Obeyed
  <2> QED
    BY <2>6, <2>10, Zenon
<1> QED
  BY <1>5, <1>6, <1>7, <1>8, <1>9, <1>11, <1>12, <1>13, RequestFields, SMT

-----------------------------------------------------------------------------
(* MIT requests                                                            *)

IsMitFrame(f, mode, motor, data) ==
  /\ WellFormed(f) /\ ~f.eff /\ f.dlc = 8 /\ f.data = data
  /\ f.id % 2^8 = motor /\ RxId(f) = motor /\ Mode(f) = mode

LEMMA MitFrameFields ==
  ASSUME NEW mode \in 0 .. 7, NEW motor \in Byte, NEW data \in [1 .. 8 -> Byte],
         NEW f, f = MitFrame(mode, motor, data)
  PROVE  IsMitFrame(f, mode, motor, data)
<1>1. f.eff = FALSE /\ f.dlc = 8 /\ f.data = data /\ f.id = mode * 256 + motor
  BY Powers, SMT DEF MitFrame
<1>2. mode \in Int /\ 0 <= mode /\ mode <= 7 /\ motor \in Int /\ 0 <= motor /\ motor <= 255
  BY SMT DEF Byte
<1>3. f.id % 256 = motor /\ (f.id \div 256) % 8 = mode
  BY <1>1, <1>2, SMT
<1>4. f.id \in 0 .. (IF f.eff THEN 2^29 ELSE 2^11) - 1
  <2>1. f.id \in Int /\ 0 <= f.id /\ f.id <= 2047
    BY <1>1, <1>2, SMT
  <2> DEFINE top == (IF f.eff THEN 2^29 ELSE 2^11) - 1
  <2>2. top \in Int /\ f.id <= top
    BY <1>1, <2>1, Powers, SMT
  <2> HIDE DEF top
  <2>3. f.id \in 0 .. top
    BY <2>1, <2>2, SMT
  <2> QED
    BY <2>3, SMT DEF top
<1>5. f.dlc \in 0 .. 8 /\ DOMAIN f.data = 1 .. 8 /\ \A i \in 1 .. 8 : f.data[i] \in Byte
  BY <1>1, SMT
<1>6. WellFormed(f)
  BY <1>4, <1>5, Zenon DEF WellFormed
<1>7. f.id % 2^8 = motor /\ RxId(f) = motor /\ Mode(f) = mode
  BY <1>3, Powers, SMT DEF RxId, Mode
<1> QED
  BY <1>1, <1>6, <1>7, Zenon DEF IsMitFrame

LEMMA SpecialCodes ==
  /\ DOMAIN SpecialMIT = 251 .. 254
  /\ SpecialMIT[251] = "clear_error" /\ SpecialMIT[252] = "enable"
  /\ SpecialMIT[253] = "stop" /\ SpecialMIT[254] = "set_zero"
BY SMT DEF SpecialMIT

LEMMA SpecialFrame ==
  ASSUME NEW m \in KnownMotors, NEW b \in 251 .. 254, NEW f, f = MitFrame(0, m.id, AllOnesThen(b))
  PROVE  /\ WellFormed(f) /\ ~f.eff /\ f.id % 2^8 = m.id
         /\ UnderstoodMIT(f) = Obeyed(SpecialMIT[b], <<>>)
<1>1. AllOnesThen(b) \in [1 .. 8 -> Byte]
  BY SMT DEF AllOnesThen, Byte
<1>2. IsMitFrame(f, 0, m.id, AllOnesThen(b))
  <2>1. 0 \in 0 .. 7 /\ m.id \in Byte
    BY MotorFields, SMT
  <2> QED
    BY <1>1, <2>1, MitFrameFields, Zenon
<1>3. /\ \A i \in 1 .. 7 : AllOnesThen(b)[i] = 255
      /\ AllOnesThen(b)[8] = b /\ b \in DOMAIN SpecialMIT
  BY SpecialCodes, SMT DEF AllOnesThen
<1>4. Mode(f) = 0 /\ f.data = AllOnesThen(b)
  BY <1>2, Zenon DEF IsMitFrame
<1>5. (\A i \in 1 .. 7 : f.data[i] = 255) /\ f.data[8] = b /\ Mode(f) # 3 /\ Mode(f) # 4
  BY <1>3, <1>4, SMT
<1>6. UnderstoodMIT(f) = Obeyed(SpecialMIT[b], <<>>)
  BY <1>3, <1>4, <1>5, SMT DEF UnderstoodMIT
<1>7. WellFormed(f) /\ ~f.eff /\ f.id % 2^8 = m.id
  BY <1>2, Zenon DEF IsMitFrame
<1> QED
  BY <1>6, <1>7, Zenon

LEMMA MitSetpoints ==
  ASSUME NEW m \in KnownMotors, m.protocol = "MIT", NEW r,
         r.torque \in Int, r.pos \in Int, r.vel \in Int, r.kp \in Int, r.kd \in Int
  PROVE  LET torque == Encode(r.torque, -m.profile.torque, m.profile.torque, Steps12)
             pos == Encode(r.pos, -FourPi, FourPi, Steps16)
             vel == Encode(r.vel, -MITVelocity, MITVelocity, Steps12)
             kp == Encode(r.kp, 0, MaxKp, Steps12)
             kd == Encode(r.kd, 0, MaxKd, Steps12)
         IN  SetpointsKept(m, r, <<torque, pos, vel, kp, kd>>)
<1> DEFINE torque == Encode(r.torque, -m.profile.torque, m.profile.torque, Steps12)
           pos == Encode(r.pos, -FourPi, FourPi, Steps16)
           vel == Encode(r.vel, -MITVelocity, MITVelocity, Steps12)
           kp == Encode(r.kp, 0, MaxKp, Steps12)
           kd == Encode(r.kd, 0, MaxKd, Steps12)
<1>1. m.profile.torque \in Nat \ {0}
  BY MotorFields, Zenon
<1>2. MITVelocity \in Nat \ {0} /\ MaxKp \in Nat \ {0} /\ MaxKd \in Nat \ {0}
      /\ Steps12 \in Nat \ {0}
  BY SMT DEF MITVelocity, MaxKp, MaxKd, Steps12
<1>3. AngleRange(m) = MITAngle /\ VelocityRange(m) = MITVelocity /\ Steps(m) = Steps12
  BY SMT DEF AngleRange, VelocityRange, Steps
<1>4. Near(Decode(torque, -m.profile.torque, m.profile.torque, Steps12),
           Target(r.torque, m.profile.torque), Quantum(m.profile.torque, Steps12))
  BY <1>1, <1>2, Setpoint, Zenon
<1>5. Near(Decode(pos, -MITAngle, MITAngle, Steps16), Target(r.pos, FourPi), AngleTolerance(m))
  BY <1>3, MitAngle, Zenon DEF AngleTolerance
<1>6. Near(Decode(vel, -MITVelocity, MITVelocity, Steps12), Target(r.vel, MITVelocity),
           Quantum(MITVelocity, Steps12))
  BY <1>2, Setpoint, Zenon
<1>7. Near(Decode(kp, 0, MaxKp, Steps12), Clamp(r.kp, 0, MaxKp), MaxKp \div Steps12 + 2)
  BY <1>2, Gain, Zenon
<1>8. Near(Decode(kd, 0, MaxKd, Steps12), Clamp(r.kd, 0, MaxKd), MaxKd \div Steps12 + 2)
  BY <1>2, Gain, Zenon
<1> HIDE DEF torque, pos, vel, kp, kd
<1>9. SetpointsKept(m, r, <<torque, pos, vel, kp, kd>>)
  BY <1>3, <1>4, <1>5, <1>6, <1>7, <1>8, SMT DEF SetpointsKept
<1> QED
  BY <1>9, Zenon DEF torque, pos, vel, kp, kd

Full == 255

\* Bytes that are all ones are the numbers at full scale.
LEMMA FullWord ==
  ASSUME NEW x \in Byte, NEW y \in Byte
  PROVE  Unpack16(x, y) = Steps16 <=> (x = Full /\ y = Full)
<1>1. x \in Int /\ 0 <= x /\ x <= 255 /\ y \in Int /\ 0 <= y /\ y <= 255
  BY SMT DEF Byte
<1> QED
  BY <1>1, SMT DEF Unpack16, Steps16, Full

LEMMA FullFields ==
  ASSUME NEW x \in Byte, NEW y \in Byte, NEW z \in Byte
  PROVE  /\ (Unpack12Velocity(x, y) = Steps12 /\ Unpack12Torque(y, z) = Steps12)
             <=> (x = Full /\ y = Full /\ z = Full)
         /\ (Unpack12Velocity(x, y) = Steps12 /\ Unpack12Torque(y, z) - 15 * 2^8 \in DOMAIN SpecialMIT)
             <=> (x = Full /\ y = Full /\ z \in DOMAIN SpecialMIT)
         /\ y = Full => z = Unpack12Torque(y, z) - 15 * 2^8
<1>1. /\ x \in Int /\ 0 <= x /\ x <= 255 /\ y \in Int /\ 0 <= y /\ y <= 255
      /\ z \in Int /\ 0 <= z /\ z <= 255
  BY SMT DEF Byte
<1> DEFINE a == y \div 16
           b == y % 16
<1>2. a \in Int /\ b \in Int /\ 0 <= a /\ a <= 15 /\ 0 <= b /\ b <= 15
  BY <1>1, SMT
<1>3. y = Full <=> (a = 15 /\ b = 15)
  BY <1>1, SMT DEF Full
<1>4. Unpack12Velocity(x, y) = x * 16 + a /\ Unpack12Torque(y, z) = b * 256 + z
  BY Zenon DEF Unpack12Velocity, Unpack12Torque
<1> HIDE DEF a, b
<1>5. x * 16 + a = Steps12 <=> (x = Full /\ a = 15)
  BY <1>1, <1>2, SMT DEF Full, Steps12
<1>6. b * 256 + z = Steps12 <=> (b = 15 /\ z = Full)
  BY <1>1, <1>2, SMT DEF Full, Steps12
<1>7. 15 * 2^8 = 3840 /\ \A n : n \in DOMAIN SpecialMIT <=> (n \in Int /\ 251 <= n /\ n <= 254)
  BY Powers, SpecialCodes, SMT
<1>8. /\ (b * 256 + z) - 3840 \in Int
      /\ (251 <= (b * 256 + z) - 3840 /\ (b * 256 + z) - 3840 <= 254)
           <=> (b = 15 /\ 251 <= z /\ z <= 254)
      /\ b = 15 => z = (b * 256 + z) - 3840
  BY <1>1, <1>2, SMT
<1>9. /\ (b * 256 + z) - 15 * 2^8 \in DOMAIN SpecialMIT <=> (b = 15 /\ z \in DOMAIN SpecialMIT)
      /\ b = 15 => z = (b * 256 + z) - 15 * 2^8
  BY <1>1, <1>7, <1>8, SMT
<1>10. (Unpack12Velocity(x, y) = Steps12 /\ Unpack12Torque(y, z) = Steps12)
        <=> (x = Full /\ y = Full /\ z = Full)
  BY <1>3, <1>4, <1>5, <1>6, SMT
<1>11. (Unpack12Velocity(x, y) = Steps12 /\ Unpack12Torque(y, z) - 15 * 2^8 \in DOMAIN SpecialMIT)
         <=> (x = Full /\ y = Full /\ z \in DOMAIN SpecialMIT)
  BY <1>3, <1>4, <1>5, <1>9, SMT
<1>12. y = Full => z = Unpack12Torque(y, z) - 15 * 2^8
  BY <1>3, <1>4, <1>5, <1>9, SMT
<1> QED
  BY <1>10, <1>11, <1>12, Zenon

LooksSpecial(d) == (\A i \in 1 .. 7 : d[i] = 255) /\ d[8] \in DOMAIN SpecialMIT

\* A control frame has the bytes of a special command if and only if all but its torque
\* are at full scale, and its torque ends in the byte of that command.
LEMMA AllOnes ==
  ASSUME NEW d, NEW p, NEW v, NEW kp, NEW kd, NEW t, CarriesMitControl(d, p, v, kp, kd, t)
  PROVE  /\ LooksSpecial(d)
             <=> (/\ p = Steps16 /\ v = Steps12 /\ kp = Steps12 /\ kd = Steps12
                  /\ t - 15 * 2^8 \in DOMAIN SpecialMIT)
         /\ LooksSpecial(d) => d[8] = t - 15 * 2^8
<1>1. /\ d[1] \in Byte /\ d[2] \in Byte /\ d[3] \in Byte /\ d[4] \in Byte
      /\ d[5] \in Byte /\ d[6] \in Byte /\ d[7] \in Byte /\ d[8] \in Byte
  BY SMT DEF CarriesMitControl
<1>2. /\ Unpack16(d[1], d[2]) = p
      /\ Unpack12Velocity(d[3], d[4]) = v  /\ Unpack12Torque(d[4], d[5]) = kp
      /\ Unpack12Velocity(d[6], d[7]) = kd /\ Unpack12Torque(d[7], d[8]) = t
  BY Zenon DEF CarriesMitControl
<1>3. (\A i \in 1 .. 7 : d[i] = 255)
        <=> (/\ d[1] = Full /\ d[2] = Full /\ d[3] = Full /\ d[4] = Full /\ d[5] = Full
             /\ d[6] = Full /\ d[7] = Full)
  BY SMT DEF Full
<1>4. p = Steps16 <=> (d[1] = Full /\ d[2] = Full)
  BY <1>1, <1>2, FullWord, Zenon
<1>5. (v = Steps12 /\ kp = Steps12) <=> (d[3] = Full /\ d[4] = Full /\ d[5] = Full)
  BY <1>1, <1>2, FullFields, SMT
<1>6. (kd = Steps12 /\ t - 15 * 2^8 \in DOMAIN SpecialMIT)
        <=> (d[6] = Full /\ d[7] = Full /\ d[8] \in DOMAIN SpecialMIT)
  BY <1>1, <1>2, FullFields, SMT
<1>7. d[7] = Full => d[8] = t - 15 * 2^8
  BY <1>1, <1>2, FullFields, SMT
<1> QED
  BY <1>3, <1>4, <1>5, <1>6, <1>7, SMT DEF LooksSpecial

LEMMA MitRequest ==
  ASSUME NEW m \in KnownMotors, m.protocol = "MIT", NEW r \in KnownRequests,
         NEW f, f = EncodeMIT(m, r)
  PROVE  WellFormed(f) /\ ~f.eff /\ f.id % 2^8 = m.id /\ Means(m, r, UnderstoodMIT(f))
<1>1. m.id \in Byte /\ m.profile.torque \in Nat \ {0}
  BY MotorFields, Zenon
<1>2. 0 \in 0 .. 7 /\ 3 \in 0 .. 7 /\ 4 \in 0 .. 7
  BY SMT
<1>3. ASSUME NEW mode, NEW data, IsMitFrame(f, mode, m.id, data)
      PROVE  /\ WellFormed(f) /\ ~f.eff /\ f.data = data
             /\ f.id % 2^8 = m.id /\ Mode(f) = mode
  BY <1>3, Zenon DEF IsMitFrame
<1>4. CASE r.cmd = "enable"
  <2>1. f = MitFrame(0, m.id, AllOnesThen(252)) /\ 252 \in 251 .. 254
    BY <1>4, SMT DEF EncodeMIT
  <2>2. /\ WellFormed(f) /\ ~f.eff /\ f.id % 2^8 = m.id
        /\ UnderstoodMIT(f) = Obeyed(SpecialMIT[252], <<>>)
    BY <2>1, SpecialFrame, SMT
  <2>3. UnderstoodMIT(f) = Obeyed("enable", <<>>)
    BY <2>2, SpecialCodes, SMT
  <2>4. Means(m, r, UnderstoodMIT(f))
    BY <1>4, <2>3, SMT DEF Means
  <2> QED
    BY <2>2, <2>4, SMT
<1>5. CASE r.cmd = "stop"
  <2>1. f = MitFrame(0, m.id, AllOnesThen(253)) /\ 253 \in 251 .. 254
    BY <1>5, SMT DEF EncodeMIT
  <2>2. /\ WellFormed(f) /\ ~f.eff /\ f.id % 2^8 = m.id
        /\ UnderstoodMIT(f) = Obeyed(SpecialMIT[253], <<>>)
    BY <2>1, SpecialFrame, SMT
  <2>3. UnderstoodMIT(f) = Obeyed("stop", <<>>)
    BY <2>2, SpecialCodes, SMT
  <2>4. Means(m, r, UnderstoodMIT(f))
    BY <1>5, <2>3, SMT DEF Means
  <2> QED
    BY <2>2, <2>4, SMT
<1>6. CASE r.cmd = "clear_error"
  <2>1. f = MitFrame(0, m.id, AllOnesThen(251)) /\ 251 \in 251 .. 254
    BY <1>6, SMT DEF EncodeMIT
  <2>2. /\ WellFormed(f) /\ ~f.eff /\ f.id % 2^8 = m.id
        /\ UnderstoodMIT(f) = Obeyed(SpecialMIT[251], <<>>)
    BY <2>1, SpecialFrame, SMT
  <2>3. UnderstoodMIT(f) = Obeyed("clear_error", <<>>)
    BY <2>2, SpecialCodes, SMT
  <2>4. Means(m, r, UnderstoodMIT(f))
    BY <1>6, <2>3, SMT DEF Means
  <2> QED
    BY <2>2, <2>4, SMT
<1>7. CASE r.cmd = "set_zero"
  <2>1. f = MitFrame(0, m.id, AllOnesThen(254)) /\ 254 \in 251 .. 254
    BY <1>7, SMT DEF EncodeMIT
  <2>2. /\ WellFormed(f) /\ ~f.eff /\ f.id % 2^8 = m.id
        /\ UnderstoodMIT(f) = Obeyed(SpecialMIT[254], <<>>)
    BY <2>1, SpecialFrame, SMT
  <2>3. UnderstoodMIT(f) = Obeyed("set_zero", <<>>)
    BY <2>2, SpecialCodes, SMT
  <2>4. Means(m, r, UnderstoodMIT(f))
    BY <1>7, <2>3, SMT DEF Means
  <2> QED
    BY <2>2, <2>4, SMT
<1>8. ASSUME r.cmd \in {"read", "write"} PROVE ParamId[r.param] \in Word
  BY <1>8, RequestFields, ParamWords, SMT
<1>9. ParamId.RUN_MODE \in Word
  BY ParamWords, SMT DEF ParamId
<1>10. ASSUME NEW id \in Word, f = MitFrame(3, m.id, LE16(id) \o SubSeq(Zeros, 3, 8))
       PROVE  /\ WellFormed(f) /\ ~f.eff /\ f.id % 2^8 = m.id
              /\ UnderstoodMIT(f) = Obeyed("read", <<id>>)
  <2> DEFINE data == LE16(id) \o SubSeq(Zeros, 3, 8)
  <2>1. CarriesParam(data, id)
    BY ReadBytes, Zenon
  <2>2. f = MitFrame(3, m.id, data)
    BY <1>10, Zenon
  <2> HIDE DEF data
  <2>3. data \in [1 .. 8 -> Byte] /\ Unpack16(data[2], data[1]) = id
    BY <2>1, Zenon DEF CarriesParam
  <2>4. IsMitFrame(f, 3, m.id, data)
    BY <1>1, <1>2, <2>2, <2>3, MitFrameFields, Zenon
  <2>5. WellFormed(f) /\ ~f.eff /\ f.data = data /\ f.id % 2^8 = m.id /\ Mode(f) = 3
    BY <1>3, <2>4, Zenon
  <2>6. UnderstoodMIT(f) = Obeyed("read", <<id>>)
    BY <2>3, <2>5, SMT DEF UnderstoodMIT, Unpack16
  <2> QED
    BY <2>5, <2>6, Zenon
<1>11. CASE r.cmd = "ping"
  <2>1. f = MitFrame(3, m.id, LE16(ParamId.RUN_MODE) \o SubSeq(Zeros, 3, 8))
    BY <1>11, SMT DEF EncodeMIT
  <2>2. /\ WellFormed(f) /\ ~f.eff /\ f.id % 2^8 = m.id
        /\ UnderstoodMIT(f) = Obeyed("read", <<ParamId.RUN_MODE>>)
    BY <1>9, <1>10, <2>1, Zenon
  <2>3. Means(m, r, UnderstoodMIT(f))
    BY <1>11, <2>2, SMT DEF Means
  <2> QED
    BY <2>2, <2>3, Zenon
<1>12. CASE r.cmd = "read"
  <2>1. f = MitFrame(3, m.id, LE16(ParamId[r.param]) \o SubSeq(Zeros, 3, 8))
    BY <1>12, SMT DEF EncodeMIT
  <2>2. ParamId[r.param] \in Word
    BY <1>8, <1>12, Zenon
  <2>3. /\ WellFormed(f) /\ ~f.eff /\ f.id % 2^8 = m.id
        /\ UnderstoodMIT(f) = Obeyed("read", <<ParamId[r.param]>>)
    BY <1>10, <2>1, <2>2, Zenon
  <2>4. Means(m, r, UnderstoodMIT(f))
    BY <1>12, <2>3, SMT DEF Means, Obeyed
  <2> QED
    BY <2>3, <2>4, Zenon
<1>13. CASE r.cmd = "write"
  <2> DEFINE id == ParamId[r.param]
             data == LE16(id) \o <<0, 0>> \o LE32(r.raw)
  <2>1. f = MitFrame(4, m.id, data)
    BY <1>13, SMT DEF EncodeMIT
  <2>2. r.raw \in Payloads
    BY <1>13, RequestFields, SMT
  <2>3. data = LE16(id) \o <<0, 0>> \o LE32(r.raw) /\ id \in Word
    BY <1>8, <1>13, Zenon
  <2> HIDE DEF data, id
  <2>4. /\ data \in [1 .. 8 -> Byte] /\ Unpack16(data[2], data[1]) = id
        /\ <<data[8], data[7], data[6], data[5]>> = r.raw
    <3>1. CarriesPayload(data, id, r.raw)
      BY <2>2, <2>3, WriteBytes, Zenon
    <3> QED
      BY <3>1, Zenon DEF CarriesPayload
  <2>5. IsMitFrame(f, 4, m.id, data)
    BY <1>1, <1>2, <2>1, <2>4, MitFrameFields, Zenon
  <2>6. WellFormed(f) /\ ~f.eff /\ f.data = data /\ f.id % 2^8 = m.id /\ Mode(f) = 4
    BY <1>3, <2>5, Zenon
  <2>7. UnderstoodMIT(f) = Obeyed("write", <<id, data[8], data[7], data[6], data[5]>>)
    BY <2>4, <2>6, SMT DEF UnderstoodMIT, Unpack16
  <2>8. <<id>> \o r.raw = <<id, data[8], data[7], data[6], data[5]>>
    <3>1. <<id>> \o <<data[8], data[7], data[6], data[5]>>
            = <<id, data[8], data[7], data[6], data[5]>>
      BY Concat14, SMT
    <3> QED
      BY <2>4, <3>1, Zenon
  <2>9. UnderstoodMIT(f) = Obeyed("write", <<id>> \o r.raw)
    BY <2>7, <2>8, Zenon
  <2>10. Means(m, r, UnderstoodMIT(f))
    BY <1>13, <2>9, SMT DEF Means, Obeyed, id
  <2> QED
    BY <2>6, <2>10, Zenon
<1>14. CASE r.cmd = "control"
  <2> DEFINE torque == Encode(r.torque, -m.profile.torque, m.profile.torque, Steps12)
             pos == Encode(r.pos, -FourPi, FourPi, Steps16)
             vel == Encode(r.vel, -MITVelocity, MITVelocity, Steps12)
             kp == Encode(r.kp, 0, MaxKp, Steps12)
             kd == Encode(r.kd, 0, MaxKd, Steps12)
             data == BE16(pos) \o Put12(vel, kp, kd, torque)
  <2>1. f = MitFrame(0, m.id, data)
    BY <1>14, SMT DEF EncodeMIT
  <2>2. /\ r.torque \in Int /\ r.pos \in Int /\ r.vel \in Int /\ r.kp \in Int /\ r.kd \in Int
    BY <1>14, RequestFields, SMT
  <2>3. SetpointsKept(m, r, <<torque, pos, vel, kp, kd>>)
    BY <1>1, <2>2, MitSetpoints, SMT
  <2>4. MITVelocity \in Nat \ {0}
    BY SMT DEF MITVelocity
  <2>5. /\ torque \in Bits12 /\ pos \in Word /\ vel \in Bits12 /\ kp \in Bits12 /\ kd \in Bits12
    BY <1>1, <2>2, <2>4, RangesOrdered, EncodedWord, Encoded12, Zenon
  <2>6. /\ pos = Steps16 <=> r.pos >= FourPi
        /\ vel = Steps12 <=> r.vel >= MITVelocity
        /\ kp = Steps12 <=> r.kp >= MaxKp
        /\ kd = Steps12 <=> r.kd >= MaxKd
    <3>1. Steps12 \in Nat \ {0} /\ Steps16 \in Nat \ {0}
      BY SMT DEF Steps12, Steps16
    <3>2. pos = Steps16 <=> r.pos >= FourPi
      BY <2>2, <3>1, RangesOrdered, FullScale, Zenon
    <3>3. vel = Steps12 <=> r.vel >= MITVelocity
      BY <2>2, <2>4, <3>1, RangesOrdered, FullScale, Zenon
    <3>4. kp = Steps12 <=> r.kp >= MaxKp
      BY <2>2, <3>1, RangesOrdered, FullScale, Zenon
    <3>5. kd = Steps12 <=> r.kd >= MaxKd
      BY <2>2, <3>1, RangesOrdered, FullScale, Zenon
    <3> HIDE DEF torque, pos, vel, kp, kd, data
    <3> QED
      BY <3>2, <3>3, <3>4, <3>5, Zenon
  <2>7. data = BE16(pos) \o Put12(vel, kp, kd, torque)
        /\ torque = TorqueBits(m, r)
    BY Zenon DEF TorqueBits
  <2> HIDE DEF torque, pos, vel, kp, kd, data
  <2>8. CarriesMitControl(data, pos, vel, kp, kd, torque)
    BY <2>5, <2>7, MitControlBytes, Zenon
  <2>9. data \in [1 .. 8 -> Byte]
    BY <2>8, Zenon DEF CarriesMitControl
  <2>10. IsMitFrame(f, 0, m.id, data)
    BY <1>1, <1>2, <2>1, <2>9, MitFrameFields, Zenon
  <2>11. WellFormed(f) /\ ~f.eff /\ f.data = data /\ f.id % 2^8 = m.id /\ Mode(f) = 0
    BY <1>3, <2>10, Zenon
  <2>12. torque - 15 * 2^8 = SpecialByte(m, r)
    BY <2>7, Zenon DEF SpecialByte
  <2>13. Collides(m, r) <=> LooksSpecial(data)
    <3>1. LooksSpecial(data)
            <=> (/\ pos = Steps16 /\ vel = Steps12 /\ kp = Steps12 /\ kd = Steps12
                 /\ SpecialByte(m, r) \in DOMAIN SpecialMIT)
      BY <2>8, <2>12, AllOnes, SMT
    <3> QED
      BY <1>1, <2>6, <3>1, Zenon DEF Collides
  <2>14. CASE Collides(m, r)
    <3>1. data[8] = SpecialByte(m, r)
      BY <2>8, <2>12, <2>13, <2>14, AllOnes, SMT
    <3>2. UnderstoodMIT(f) = Obeyed(SpecialMIT[data[8]], <<>>)
      BY <2>11, <2>13, <2>14, SMT DEF UnderstoodMIT, LooksSpecial
    <3>3. Means(m, r, UnderstoodMIT(f))
      BY <1>14, <2>14, <3>1, <3>2, SMT DEF Means
    <3> QED
      BY <2>11, <3>3, Zenon
  <2>15. CASE ~Collides(m, r)
    <3>1. UnderstoodMIT(f)
            = Obeyed("control", <<(data[7] % 16) * 256 + data[8], data[1] * 256 + data[2],
                                  data[3] * 16 + data[4] \div 16, (data[4] % 16) * 256 + data[5],
                                  data[6] * 16 + data[7] \div 16>>)
      BY <2>11, <2>13, <2>15, SMT DEF UnderstoodMIT, LooksSpecial
    <3>2. UnderstoodMIT(f) = Obeyed("control", <<torque, pos, vel, kp, kd>>)
      BY <2>8, <3>1, SMT DEF CarriesMitControl, Unpack16, Unpack12Velocity, Unpack12Torque
    <3>3. Means(m, r, UnderstoodMIT(f))
      BY <1>14, <2>3, <2>15, <3>2, SMT DEF Means, Obeyed
    <3> QED
      BY <2>11, <3>3, Zenon
  <2> QED
    BY <2>14, <2>15, Zenon
<1> QED
  BY <1>4, <1>5, <1>6, <1>7, <1>11, <1>12, <1>13, <1>14, RequestFields, SMT

-----------------------------------------------------------------------------
(* Reports                                                                 *)

\* The FrameType of a report, and whether it is one the motor may make.
TypeOf(m, r) == FrameType[IF m.protocol = "MIT" THEN Mit!ResponseType(Abstract(r))
                                                ELSE Private!ResponseType(Abstract(r))]

InRange(m, r) ==
  /\ r.kind = "feedback" => /\ r.velocity \in -VelocityRange(m) .. VelocityRange(m)
                            /\ r.torque \in -m.profile.torque .. m.profile.torque
  /\ m.protocol = "MIT" => r.kind \in {"feedback", "param"}

IsToHost(f, m, type, bits, data) ==
  /\ WellFormed(f) /\ f.eff /\ f.data = data
  /\ GetMotorId(f.id) = m.id /\ GetMsgType(f.id) = FrameType[type]
  /\ UnpackState(f.id) = bits \div 64 /\ UnpackErrorMask(f.id) = bits % 64

LEMMA ToHostFields ==
  ASSUME NEW m \in KnownMotors, NEW type \in DOMAIN FrameType, NEW bits \in Byte,
         NEW data \in [1 .. 8 -> Byte], NEW f, f = [ToHost(m, type, bits) EXCEPT !.data = data]
  PROVE  IsToHost(f, m, type, bits, data)
<1> DEFINE area == bits * 256 + m.id
<1>1. m.id \in Byte /\ m.host \in Byte
  BY MotorFields, Zenon
<1>2. FrameType[type] \in 0 .. 31
  BY FrameTypesFit, Zenon
<1>3. /\ bits \in Int /\ 0 <= bits /\ bits <= 255 /\ m.id \in Int /\ 0 <= m.id /\ m.id <= 255
      /\ m.host \in Int /\ FrameType[type] \in Int
  <2>1. \A b \in Byte : b \in Int /\ 0 <= b /\ b <= 255
    BY SMT DEF Byte
  <2>2. FrameType[type] \in Int
    BY <1>2, SMT
  <2> QED
    BY <1>1, <2>1, <2>2, Zenon
<1>4. area \in Word
  BY <1>3, Words, SMT
<1>5. /\ area % 256 = m.id
      /\ (area \div 256) % 64 = bits % 64 /\ (area \div 16384) % 4 = bits \div 64
  <2>1. area \in Int /\ area % 256 = m.id /\ area \div 256 = bits
    BY <1>3, SMT
  <2>2. (area \div 16384) % 4 = bits \div 64
    BY <1>3, SMT
  <2> QED
    BY <2>1, <2>2, SMT
<1>6. /\ f.eff = TRUE /\ f.dlc = 8 /\ f.data = data
      /\ f.id = FrameType[type] * 2^24 + bits * 2^16 + m.id * 2^8 + m.host
  BY SMT DEF ToHost
<1>7. f.id = FrameType[type] * 2^24 + area * 2^8 + m.host
  BY <1>3, <1>6, Powers, SMT
<1> HIDE DEF area
<1>8. f.id = Id29(FrameType[type], area, m.host)
  BY <1>7, SMT DEF Id29
<1>9. /\ f.id \in 0 .. 2^29 - 1 /\ GetMsgType(f.id) = FrameType[type]
      /\ GetMotorId(f.id) = area % 256
      /\ UnpackErrorMask(f.id) = (area \div 256) % 64
      /\ UnpackState(f.id) = (area \div 16384) % 4
  <2>1. Splits(f.id, FrameType[type], area, m.host)
    BY <1>1, <1>2, <1>4, <1>8, Identifier, Zenon
  <2> QED
    BY <2>1, SMT DEF Splits, GetMsgType, GetMotorId, UnpackErrorMask, UnpackState
<1>10. f.id \in 0 .. (IF f.eff THEN 2^29 ELSE 2^11) - 1
  BY <1>6, <1>9, SMT
<1>11. f.dlc \in 0 .. 8 /\ DOMAIN f.data = 1 .. 8 /\ \A i \in 1 .. 8 : f.data[i] \in Byte
  BY <1>6, SMT
<1>12. WellFormed(f)
  BY <1>10, <1>11, SMT DEF WellFormed
<1>13. /\ f.eff /\ f.data = data
       /\ GetMotorId(f.id) = m.id /\ GetMsgType(f.id) = FrameType[type]
       /\ UnpackState(f.id) = bits \div 64 /\ UnpackErrorMask(f.id) = bits % 64
  BY <1>5, <1>6, <1>9, SMT
<1> QED
  BY <1>12, <1>13, Zenon DEF IsToHost

\* A report as the frame of a PRIVATE motor.
IsPrivateReport(m, r, f) ==
  /\ WellFormed(f) /\ f.eff /\ GetMotorId(f.id) = m.id
  /\ GetMsgType(f.id) = TypeOf(m, r)
  /\ r.kind = "feedback" =>
       /\ UnpackState(f.id) = r.state /\ UnpackErrorMask(f.id) = r.error
       /\ CarriesWords(f.data, Encode(r.angle, -FourPi, FourPi, Steps16),
                       Encode(r.velocity, -m.profile.velocity, m.profile.velocity, Steps16),
                       Encode(r.torque, -m.profile.torque, m.profile.torque, Steps16),
                       r.temperature)
  /\ r.kind = "fault"  => CarriesFaults(f.data, r.fault, r.warning)
  /\ r.kind = "param"  => CarriesPayload(f.data, r.index, r.payload)
  /\ r.kind = "mcu_id" => f.data = r.mcu

LEMMA PrivateTypes ==
  ASSUME NEW m, m.protocol = "PRIVATE", NEW r
  PROVE  /\ r.kind = "feedback" => TypeOf(m, r) = FrameType["FEEDBACK"]
         /\ r.kind = "fault"    => TypeOf(m, r) = FrameType["FAULT"]
         /\ r.kind = "param"    => TypeOf(m, r) = FrameType["READ_PARAM"]
         /\ r.kind = "mcu_id"   => TypeOf(m, r) = FrameType["INFO"]
BY SMT DEF TypeOf, Abstract, Private!ResponseType

LEMMA MitTypes ==
  ASSUME NEW m, m.protocol = "MIT", NEW r
  PROVE  /\ r.kind = "feedback" => TypeOf(m, r) = FrameType["FEEDBACK"]
         /\ r.kind = "param"    => TypeOf(m, r) = FrameType["READ_PARAM"]
BY SMT DEF TypeOf, Abstract, Mit!ResponseType

LEMMA PrivateReport ==
  ASSUME NEW m \in KnownMotors, m.protocol = "PRIVATE", NEW r \in KnownReports,
         NEW f, f = ReportPrivate(m, r)
  PROVE  IsPrivateReport(m, r, f)
<1>1. /\ m.id \in Byte /\ m.profile.torque \in Nat \ {0} /\ m.profile.velocity \in Nat \ {0}
  BY MotorFields, Zenon
<1>2. {"FEEDBACK", "FAULT", "READ_PARAM", "INFO"} \subseteq DOMAIN FrameType /\ 0 \in Byte
  BY FrameTypeCodes, SMT DEF Byte
<1>3. CASE r.kind = "feedback"
  <2> DEFINE angle == Encode(r.angle, -FourPi, FourPi, Steps16)
             velocity == Encode(r.velocity, -m.profile.velocity, m.profile.velocity, Steps16)
             torque == Encode(r.torque, -m.profile.torque, m.profile.torque, Steps16)
             data == BE16(angle) \o BE16(velocity) \o BE16(torque) \o BE16(r.temperature)
             bits == r.state * 2^6 + r.error
  <2>1. /\ r.state \in 0 .. 2 /\ r.error \in 0 .. 63 /\ r.angle \in -FourPi .. FourPi
        /\ r.velocity \in Int /\ r.torque \in Int /\ r.temperature \in Word
    BY <1>3, ReportFields, Zenon
  <2>2. bits \in Byte /\ bits \div 64 = r.state /\ bits % 64 = r.error
    BY <2>1, Powers, SMT DEF Byte
  <2>3. r.angle \in Int
    BY <2>1, SMT
  <2>4. angle \in Word /\ velocity \in Word /\ torque \in Word
    BY <1>1, <2>1, <2>3, RangesOrdered, EncodedWord, Zenon
  <2>5. f = [ToHost(m, "FEEDBACK", bits) EXCEPT !.data = data]
    BY <1>3, SMT DEF ReportPrivate
  <2>6. data = BE16(angle) \o BE16(velocity) \o BE16(torque) \o BE16(r.temperature)
    BY Zenon
  <2> HIDE DEF angle, velocity, torque, data, bits
  <2>7. CarriesWords(data, angle, velocity, torque, r.temperature)
    BY <2>1, <2>4, <2>6, WordBytes, Zenon
  <2>8. data \in [1 .. 8 -> Byte]
    BY <2>7, Zenon DEF CarriesWords
  <2>9. IsToHost(f, m, "FEEDBACK", bits, data)
    BY <1>2, <2>2, <2>5, <2>8, ToHostFields, Zenon
  <2>10. /\ WellFormed(f) /\ f.eff /\ f.data = data
         /\ GetMotorId(f.id) = m.id /\ GetMsgType(f.id) = FrameType["FEEDBACK"]
         /\ UnpackState(f.id) = r.state /\ UnpackErrorMask(f.id) = r.error
    BY <2>2, <2>9, Zenon DEF IsToHost
  <2>11. CarriesWords(f.data, angle, velocity, torque, r.temperature)
    BY <2>7, <2>10, Zenon
  <2> QED
    BY <1>3, <2>10, <2>11, PrivateTypes, SMT
       DEF IsPrivateReport, angle, velocity, torque
<1>4. CASE r.kind = "fault"
  <2> DEFINE data == LE32(r.fault) \o LE32(r.warning)
  <2>1. r.fault \in Payloads /\ r.warning \in Payloads
    BY <1>4, ReportFields, Zenon
  <2>2. CarriesFaults(data, r.fault, r.warning)
    BY <2>1, FaultBytes, Zenon
  <2>3. f = [ToHost(m, "FAULT", 0) EXCEPT !.data = data]
    BY <1>4, SMT DEF ReportPrivate
  <2> HIDE DEF data
  <2>4. data \in [1 .. 8 -> Byte]
    BY <2>2, Zenon DEF CarriesFaults
  <2>5. IsToHost(f, m, "FAULT", 0, data)
    BY <1>2, <2>3, <2>4, ToHostFields, Zenon
  <2>6. /\ WellFormed(f) /\ f.eff /\ f.data = data
        /\ GetMotorId(f.id) = m.id /\ GetMsgType(f.id) = FrameType["FAULT"]
    BY <2>5, Zenon DEF IsToHost
  <2> QED
    BY <1>4, <2>2, <2>6, PrivateTypes, SMT DEF IsPrivateReport
<1>5. CASE r.kind = "param"
  <2> DEFINE data == LE16(r.index) \o <<0, 0>> \o LE32(r.payload)
  <2>1. r.index \in Word /\ r.payload \in Payloads
    BY <1>5, ReportFields, Zenon
  <2>2. CarriesPayload(data, r.index, r.payload)
    BY <2>1, WriteBytes, Zenon
  <2>3. f = [ToHost(m, "READ_PARAM", 0) EXCEPT !.data = data]
    BY <1>5, SMT DEF ReportPrivate
  <2> HIDE DEF data
  <2>4. data \in [1 .. 8 -> Byte]
    BY <2>2, Zenon DEF CarriesPayload
  <2>5. IsToHost(f, m, "READ_PARAM", 0, data)
    BY <1>2, <2>3, <2>4, ToHostFields, Zenon
  <2>6. /\ WellFormed(f) /\ f.eff /\ f.data = data
        /\ GetMotorId(f.id) = m.id /\ GetMsgType(f.id) = FrameType["READ_PARAM"]
    BY <2>5, Zenon DEF IsToHost
  <2> QED
    BY <1>5, <2>2, <2>6, PrivateTypes, SMT DEF IsPrivateReport
<1>6. CASE r.kind = "mcu_id"
  <2>1. r.mcu \in [1 .. 8 -> Byte]
    BY <1>6, ReportFields, Zenon
  <2>2. f = [ToHost(m, "INFO", 0) EXCEPT !.data = r.mcu]
    BY <1>6, SMT DEF ReportPrivate
  <2>3. IsToHost(f, m, "INFO", 0, r.mcu)
    BY <1>2, <2>1, <2>2, ToHostFields, Zenon
  <2>4. /\ WellFormed(f) /\ f.eff /\ f.data = r.mcu
        /\ GetMotorId(f.id) = m.id /\ GetMsgType(f.id) = FrameType["INFO"]
    BY <2>3, Zenon DEF IsToHost
  <2> QED
    BY <1>6, <2>4, PrivateTypes, SMT DEF IsPrivateReport
<1> QED
  BY <1>3, <1>4, <1>5, <1>6, ReportFields, SMT DEF ReportKinds

\* A report as the frame of a MIT motor.
IsMitReport(m, r, f) ==
  /\ WellFormed(f) /\ ~f.eff /\ f.dlc = 8
  /\ r.kind = "feedback" =>
       /\ Mode(f) = 0 /\ RxId(f) = m.host
       /\ CarriesMitFeedback(f.data, m.id, Encode(r.angle, -MITAngle, MITAngle, Steps16),
                             Encode(r.velocity, -MITVelocity, MITVelocity, Steps12),
                             Encode(r.torque, -m.profile.torque, m.profile.torque, Steps12),
                             r.temperature)
  /\ r.kind = "param" =>
       /\ Mode(f) \in {3, 4} /\ RxId(f) = m.id
       /\ CarriesPayload(f.data, r.index, r.payload)

LEMMA MitReport ==
  ASSUME NEW m \in KnownMotors, m.protocol = "MIT", NEW r \in KnownReports,
         r.kind \in {"feedback", "param"}, NEW mode \in {3, 4},
         NEW f, f = ReportMIT(m, r, mode)
  PROVE  IsMitReport(m, r, f)
<1>1. m.id \in Byte /\ m.host \in Byte /\ m.profile.torque \in Nat \ {0}
  BY MotorFields, Zenon
<1>2. 0 \in 0 .. 7 /\ mode \in 0 .. 7
  BY SMT
<1>3. CASE r.kind = "feedback"
  <2> DEFINE angle == Encode(r.angle, -MITAngle, MITAngle, Steps16)
             velocity == Encode(r.velocity, -MITVelocity, MITVelocity, Steps12)
             torque == Encode(r.torque, -m.profile.torque, m.profile.torque, Steps12)
             bytes == <<velocity \div 16, (velocity % 16) * 16 + torque \div 256, torque % 256>>
             data == <<m.id>> \o BE16(angle) \o bytes \o BE16(r.temperature)
  <2>1. /\ r.angle \in -FourPi .. FourPi /\ r.velocity \in Int /\ r.torque \in Int
        /\ r.temperature \in Word
    BY <1>3, ReportFields, Zenon
  <2>2. r.angle \in Int
    BY <2>1, SMT
  <2>3. MITAngle \in Nat \ {0} /\ MITVelocity \in Nat \ {0}
    BY SMT DEF MITAngle, MITVelocity
  <2>4. angle \in Word /\ velocity \in Bits12 /\ torque \in Bits12
    BY <1>1, <2>1, <2>2, <2>3, RangesOrdered, EncodedWord, Encoded12, Zenon
  <2>5. f = MitFrame(0, m.host, data)
    BY <1>3, SMT DEF ReportMIT
  <2>6. bytes = <<First8(velocity), Mixed8(velocity, torque), Low(torque)>>
    BY Zenon DEF First8, Mixed8, Low
  <2> HIDE DEF bytes
  <2>7. data = <<m.id>> \o BE16(angle) \o <<First8(velocity), Mixed8(velocity, torque), Low(torque)>>
                 \o BE16(r.temperature)
    BY <2>6, Zenon
  <2> HIDE DEF angle, velocity, torque, data
  <2>8. CarriesMitFeedback(data, m.id, angle, velocity, torque, r.temperature)
    BY <1>1, <2>1, <2>4, <2>7, MitFeedbackBytes, Zenon
  <2>9. data \in [1 .. 8 -> Byte]
    BY <2>8, Zenon DEF CarriesMitFeedback
  <2>10. IsMitFrame(f, 0, m.host, data)
    BY <1>1, <1>2, <2>5, <2>9, MitFrameFields, Zenon
  <2>11. /\ WellFormed(f) /\ ~f.eff /\ f.dlc = 8 /\ f.data = data
        /\ RxId(f) = m.host /\ Mode(f) = 0
    BY <2>10, Zenon DEF IsMitFrame
  <2> QED
    BY <1>3, <2>8, <2>11, SMT DEF IsMitReport, angle, velocity, torque
<1>4. CASE r.kind = "param"
  <2> DEFINE data == LE16(r.index) \o <<0, 0>> \o LE32(r.payload)
  <2>1. r.index \in Word /\ r.payload \in Payloads
    BY <1>4, ReportFields, Zenon
  <2>2. CarriesPayload(data, r.index, r.payload)
    BY <2>1, WriteBytes, Zenon
  <2>3. f = MitFrame(mode, m.id, data)
    BY <1>4, SMT DEF ReportMIT
  <2> HIDE DEF data
  <2>4. data \in [1 .. 8 -> Byte]
    BY <2>2, Zenon DEF CarriesPayload
  <2>5. IsMitFrame(f, mode, m.id, data)
    BY <1>1, <1>2, <2>3, <2>4, MitFrameFields, Zenon
  <2>6. /\ WellFormed(f) /\ ~f.eff /\ f.dlc = 8 /\ f.data = data
        /\ RxId(f) = m.id /\ Mode(f) \in {3, 4}
    BY <2>5, Zenon DEF IsMitFrame
  <2> QED
    BY <1>4, <2>2, <2>6, SMT DEF IsMitReport
<1> QED
  BY <1>3, <1>4, SMT

\* What the Motor of m has to find in a frame of its report r.
IsReportFrame(m, r, f) == IF m.protocol = "MIT" THEN IsMitReport(m, r, f)
                                                ELSE IsPrivateReport(m, r, f)

LEMMA ReportIsSent ==
  ASSUME NEW m \in KnownMotors, NEW r \in KnownReports, InRange(m, r), NEW cmd,
         NEW f, f = ReportFrame(m, r, cmd)
  PROVE  IsReportFrame(m, r, f)
<1>1. m.protocol \in {"PRIVATE", "MIT"}
  BY MotorFields, Zenon
<1>2. CASE m.protocol = "PRIVATE"
  <2>1. f = ReportPrivate(m, r)
    BY <1>2, SMT DEF ReportFrame
  <2> QED
    BY <1>2, <2>1, PrivateReport, SMT DEF IsReportFrame
<1>3. CASE m.protocol = "MIT"
  <2>1. \E mode \in {3, 4} : f = ReportMIT(m, r, mode)
    BY <1>3, SMT DEF ReportFrame
  <2>2. r.kind \in {"feedback", "param"}
    BY <1>3, SMT DEF InRange
  <2>3. IsMitReport(m, r, f)
    BY <1>3, <2>1, <2>2, MitReport, Zenon
  <2> QED
    BY <1>3, <2>3, Zenon DEF IsReportFrame
<1> QED
  BY <1>1, <1>2, <1>3, SMT

LEMMA ReportIsWellFormed ==
  ASSUME NEW m, NEW r, NEW f, IsReportFrame(m, r, f)
  PROVE  WellFormed(f)
BY Zenon DEF IsReportFrame, IsMitReport, IsPrivateReport

\* Of the Motors m and n, a report of m is for m alone.
LEMMA ReportIsRecognised ==
  ASSUME NEW m \in KnownMotors, NEW n \in KnownMotors, m.id = n.id => m = n,
         m.id # n.host, n.id # m.host, NEW r \in KnownReports, InRange(m, r),
         NEW f, IsReportFrame(m, r, f)
  PROVE  IsFeedbackFrame(n, f) <=> n = m
<1>1. m.protocol \in {"PRIVATE", "MIT"} /\ n.protocol \in {"PRIVATE", "MIT"}
  BY MotorFields, Zenon
<1>2. CASE m.protocol = "PRIVATE"
  <2>1. /\ f.eff /\ GetMotorId(f.id) = m.id /\ GetMsgType(f.id) = TypeOf(m, r)
    BY <1>2, SMT DEF IsReportFrame, IsPrivateReport
  <2>2. r.kind \in ReportKinds
    BY ReportFields, Zenon
  <2>3. TypeOf(m, r) \in {FrameType[t] : t \in {"FEEDBACK", "FAULT", "READ_PARAM", "INFO"}}
    BY <1>2, <2>2, PrivateTypes, SMT DEF ReportKinds
  <2>4. IsFeedbackPrivate(f, n.id) <=> m.id = n.id
    BY <2>1, <2>3, Zenon DEF IsFeedbackPrivate
  <2>5. ~IsFeedbackMIT(f, n.id)
    BY <2>1, Zenon DEF IsFeedbackMIT
  <2>6. CASE n.protocol = "PRIVATE"
    BY <2>4, <2>6, SMT DEF IsFeedbackFrame
  <2>7. CASE n.protocol = "MIT"
    <3>1. n # m
      BY <1>2, <2>7, SMT
    <3> QED
      BY <2>5, <2>7, <3>1, SMT DEF IsFeedbackFrame
  <2> QED
    BY <1>1, <2>6, <2>7, SMT
<1>3. CASE m.protocol = "MIT"
  <2>1. ~f.eff /\ f.dlc = 8
    BY <1>3, SMT DEF IsReportFrame, IsMitReport
  <2>2. \/ Mode(f) = 0 /\ RxId(f) = m.host /\ f.data[1] = m.id
        \/ Mode(f) \in {3, 4} /\ RxId(f) = m.id
    <3>1. r.kind \in {"feedback", "param"}
      BY <1>3, SMT DEF InRange
    <3>2. IsMitReport(m, r, f)
      BY <1>3, Zenon DEF IsReportFrame
    <3>3. CASE r.kind = "feedback"
      BY <3>2, <3>3, Zenon DEF IsMitReport, CarriesMitFeedback
    <3>4. CASE r.kind = "param"
      BY <3>2, <3>4, Zenon DEF IsMitReport
    <3> QED
      BY <3>1, <3>3, <3>4, Zenon
  <2>3. Mode(f) \in {3, 4} => Mode(f) # 0
    BY SMT
  <2>4. (Mode(f) = 0 /\ f.data[1] = n.id) \/ RxId(f) = n.id <=> m.id = n.id
    BY <2>2, <2>3, Zenon
  <2>5. IsFeedbackMIT(f, n.id) <=> m.id = n.id
    BY <2>1, <2>4, SMT DEF IsFeedbackMIT
  <2>6. ~IsFeedbackPrivate(f, n.id)
    BY <2>1, Zenon DEF IsFeedbackPrivate
  <2>7. CASE n.protocol = "MIT"
    BY <2>5, <2>7, SMT DEF IsFeedbackFrame
  <2>8. CASE n.protocol = "PRIVATE"
    <3>1. n # m
      BY <1>3, <2>8, SMT
    <3> QED
      BY <2>6, <2>8, <3>1, SMT DEF IsFeedbackFrame
  <2> QED
    BY <1>1, <2>7, <2>8, SMT
<1> QED
  BY <1>1, <1>2, <1>3, SMT

\* It parses there, with the FrameType of its kind.
LEMMA ReportIsParsed ==
  ASSUME NEW m \in KnownMotors, NEW r \in KnownReports, InRange(m, r),
         NEW f, IsReportFrame(m, r, f)
  PROVE  Parses(m, f) /\ ResponseType(m, f) = TypeOf(m, r)
<1>1. m.protocol \in {"PRIVATE", "MIT"}
  BY MotorFields, Zenon
<1>2. CASE m.protocol = "PRIVATE"
  <2>1. GetMsgType(f.id) = TypeOf(m, r)
    BY <1>2, SMT DEF IsReportFrame, IsPrivateReport
  <2> QED
    BY <1>2, <2>1, SMT DEF Parses, ResponseType, ResponseTypePrivate
<1>3. CASE m.protocol = "MIT"
  <2>1. r.kind \in {"feedback", "param"}
    BY <1>3, SMT DEF InRange
  <2>2. IsMitReport(m, r, f)
    BY <1>3, Zenon DEF IsReportFrame
  <2>3. CASE r.kind = "feedback"
    <3>1. Mode(f) = 0 /\ f.data[1] = m.id
      BY <2>2, <2>3, Zenon DEF IsMitReport, CarriesMitFeedback
    <3>2. ParsesMIT(f, m.id)
      BY <3>1, Zenon DEF ParsesMIT
    <3>3. ResponseTypeMIT(f) = FrameType["FEEDBACK"]
      BY <3>1, SMT DEF ResponseTypeMIT
    <3> QED
      BY <1>3, <2>3, <3>2, <3>3, MitTypes, SMT DEF Parses, ResponseType
  <2>4. CASE r.kind = "param"
    <3>1. Mode(f) \in {3, 4} /\ RxId(f) = m.id
      BY <2>2, <2>4, Zenon DEF IsMitReport
    <3>2. ParsesMIT(f, m.id)
      BY <3>1, Zenon DEF ParsesMIT
    <3>3. ResponseTypeMIT(f) = FrameType["READ_PARAM"]
      BY <3>1, SMT DEF ResponseTypeMIT
    <3> QED
      BY <1>3, <2>4, <3>2, <3>3, MitTypes, SMT DEF Parses, ResponseType
  <2> QED
    BY <2>1, <2>3, <2>4, SMT
<1> QED
  BY <1>1, <1>2, <1>3, SMT

-----------------------------------------------------------------------------
(* Answers                                                                 *)

\* No request of a MIT motor is taken for a ping, not even one that collides.
LEMMA MitNeverPings ==
  ASSUME NEW m \in KnownMotors, NEW r \in KnownRequests, NEW f, f = EncodeMIT(m, r)
  PROVE  UnderstoodMIT(f).cmd # "ping"
<1>1. m.id \in Int /\ 0 <= m.id /\ m.id <= 255
  BY MotorFields, SMT DEF Byte
<1>2. \E mode \in {0, 3, 4} : f.id = mode * 2^8 + m.id
  BY RequestFields, SMT DEF EncodeMIT, MitFrame
<1>3. PICK mode \in {0, 3, 4} : f.id = mode * 256 + m.id
  BY <1>2, Powers, SMT
<1>4. (f.id \div 256) % 8 = mode
  BY <1>1, <1>3, SMT
<1>5. Mode(f) \in {0, 3, 4}
  BY <1>4, Powers, SMT DEF Mode
<1>6. \A b \in DOMAIN SpecialMIT : SpecialMIT[b] # "ping"
  BY SpecialCodes, SMT
<1>7. \A cmd, raws : Obeyed(cmd, raws).cmd = cmd
  BY SMT DEF Obeyed
<1> QED
  BY <1>5, <1>6, <1>7, SMT DEF UnderstoodMIT

\* The requests a command waits for an answer to are answered with what it waits for.
LEMMA AnswerIsExpected ==
  ASSUME NEW m \in KnownMotors, NEW q \in KnownRequests, NEW obeyed, Means(m, q, obeyed),
         NEW r \in Reply(m, obeyed), q.cmd \in Waits
  PROVE  TypeOf(m, r) = Expected(m, q.cmd)
<1>1. m.protocol \in {"PRIVATE", "MIT"}
  BY MotorFields, Zenon
<1>2. CASE q.cmd = "read"
  <2>1. obeyed.cmd = "read"
    BY <1>2, SMT DEF Means
  <2>2. r.kind = "param"
    BY <2>1, SMT DEF Reply
  <2>3. TypeOf(m, r) = FrameType["READ_PARAM"]
    BY <1>1, <2>2, PrivateTypes, MitTypes, Zenon
  <2> QED
    BY <1>2, <2>3, SMT DEF Expected
<1>3. CASE q.cmd = "ping" /\ m.protocol = "MIT"
  <2>1. obeyed.cmd = "read"
    BY <1>3, SMT DEF Means, Obeyed
  <2>2. r.kind = "param"
    BY <2>1, SMT DEF Reply
  <2>3. TypeOf(m, r) = FrameType["READ_PARAM"]
    BY <1>3, <2>2, MitTypes, Zenon
  <2> QED
    BY <1>3, <2>3, SMT DEF Expected
<1>4. CASE q.cmd = "ping" /\ m.protocol # "MIT"
  <2>1. obeyed.cmd = "ping"
    BY <1>4, SMT DEF Means, Obeyed
  <2>2. r.kind = "mcu_id"
    BY <2>1, SMT DEF Reply
  <2>3. TypeOf(m, r) = FrameType["INFO"]
    BY <1>1, <1>4, <2>2, PrivateTypes, Zenon
  <2> QED
    BY <1>4, <2>3, SMT DEF Expected
<1>5. CASE q.cmd \in {"enable", "stop", "clear_error", "set_zero"}
  <2>1. obeyed.cmd = q.cmd
    BY <1>5, SMT DEF Means, Obeyed
  <2>2. r.kind = "feedback"
    BY <1>5, <2>1, SMT DEF Reply
  <2>3. TypeOf(m, r) = FrameType["FEEDBACK"]
    BY <1>1, <2>2, PrivateTypes, MitTypes, Zenon
  <2> QED
    BY <1>5, <2>3, SMT DEF Expected
<1> QED
  BY <1>2, <1>3, <1>4, <1>5, SMT DEF Waits

\* A MIT motor answers with feedback or a parameter.
LEMMA MitAnswers ==
  ASSUME NEW m, m.protocol = "MIT", NEW obeyed, obeyed.cmd # "ping", NEW r \in Reply(m, obeyed)
  PROVE  r.kind \in {"feedback", "param"}
BY SMT DEF Reply

-----------------------------------------------------------------------------
(* The motors of a bus                                                     *)

LEMMA OnBus ==
  ASSUME NEW bus \in Configurations
  PROVE  /\ bus \subseteq KnownMotors
         /\ \A m, n \in bus : m.id = n.id => m = n
         /\ \A m, n \in bus : m.id # n.host
         /\ Nothing \notin bus
<1>1. bus \subseteq KnownMotors /\ \A m, n \in bus : (m.id = n.id => m = n) /\ m.id # n.host
  BY BusAssumption, Zenon
<1>2. Nothing \notin KnownMotors
  BY SMT DEF Nothing, KnownMotors
<1> QED
  BY <1>1, <1>2, Zenon

\* What RequestsUnderstood says of one message.
TakenBy(bus, m, r, f) ==
  /\ WellFormed(f)
  /\ \A n \in bus : Addressed(n, f) <=> n = m
  /\ Means(m, r, Understood(m, f))
  /\ m.protocol = "MIT" => Understood(m, f).cmd # "ping"

LEMMA RequestIsTaken ==
  ASSUME NEW bus \in Configurations, NEW m \in bus, NEW r \in Requests,
         NEW f, f = EncodeRequest(m, r)
  PROVE  TakenBy(bus, m, r, f)
<1>1. m \in KnownMotors /\ r \in KnownRequests /\ bus \subseteq KnownMotors
  BY OnBus, BusAssumption, Zenon
<1>2. m.protocol \in {"PRIVATE", "MIT"}
  BY <1>1, MotorFields, Zenon
<1>3. /\ WellFormed(f) /\ f.id % 2^8 = m.id /\ Means(m, r, Understood(m, f))
      /\ f.eff = (m.protocol = "PRIVATE")
      /\ m.protocol = "MIT" => Understood(m, f).cmd # "ping"
  <2>1. CASE m.protocol = "PRIVATE"
    <3>1. f = EncodePrivate(m, r)
      BY <2>1, SMT DEF EncodeRequest
    <3>2. WellFormed(f) /\ f.eff /\ f.id % 2^8 = m.id /\ Means(m, r, UnderstoodPrivate(f))
      BY <1>1, <2>1, <3>1, PrivateRequest, Zenon
    <3>3. f.eff = TRUE
      <4>1. \A t, motor, area, data : PrivateFrame(t, motor, area, data).eff = TRUE
        BY SMT DEF PrivateFrame
      <4>2. CASE r.cmd = "enable"
        BY <3>1, <4>1, <4>2, SMT DEF EncodePrivate
      <4>3. CASE r.cmd = "stop"
        BY <3>1, <4>1, <4>3, SMT DEF EncodePrivate
      <4>4. CASE r.cmd = "clear_error"
        BY <3>1, <4>1, <4>4, SMT DEF EncodePrivate
      <4>5. CASE r.cmd = "set_zero"
        BY <3>1, <4>1, <4>5, SMT DEF EncodePrivate
      <4>6. CASE r.cmd = "ping"
        BY <3>1, <4>1, <4>6, SMT DEF EncodePrivate
      <4>7. CASE r.cmd = "read"
        BY <3>1, <4>1, <4>7, SMT DEF EncodePrivate
      <4>8. CASE r.cmd = "write"
        BY <3>1, <4>1, <4>8, SMT DEF EncodePrivate
      <4>9. CASE r.cmd = "control"
        BY <3>1, <4>1, <4>9, SMT DEF EncodePrivate
      <4>10. r.cmd \in {"enable", "stop", "clear_error", "set_zero", "ping", "read", "write",
                        "control"}
        BY <1>1, RequestFields, Zenon
      <4> QED
        BY <4>2, <4>3, <4>4, <4>5, <4>6, <4>7, <4>8, <4>9, <4>10, Zenon
    <3>4. Understood(m, f) = UnderstoodPrivate(f) /\ m.protocol # "MIT"
      BY <2>1, SMT DEF Understood
    <3>5. f.eff = (m.protocol = "PRIVATE")
      BY <2>1, <3>3, Zenon
    <3> QED
      BY <3>2, <3>4, <3>5, Zenon
  <2>2. CASE m.protocol = "MIT"
    <3>1. f = EncodeMIT(m, r)
      BY <2>2, SMT DEF EncodeRequest
    <3>2. WellFormed(f) /\ ~f.eff /\ f.id % 2^8 = m.id /\ Means(m, r, UnderstoodMIT(f))
      BY <1>1, <2>2, <3>1, MitRequest, Zenon
    <3>3. UnderstoodMIT(f).cmd # "ping"
      BY <1>1, <3>1, MitNeverPings, Zenon
    <3>4. f.eff = FALSE
      <4>1. \A mode, motor, data : MitFrame(mode, motor, data).eff = FALSE
        BY SMT DEF MitFrame
      <4> QED
        BY <1>1, <3>1, <4>1, RequestFields, SMT DEF EncodeMIT
    <3>5. Understood(m, f) = UnderstoodMIT(f) /\ m.protocol # "PRIVATE"
      BY <2>2, SMT DEF Understood
    <3>6. f.eff = (m.protocol = "PRIVATE")
      BY <3>4, <3>5, Zenon
    <3> QED
      BY <3>2, <3>3, <3>5, <3>6, Zenon
  <2> QED
    BY <1>2, <2>1, <2>2, Zenon
<1>4. ASSUME NEW n \in bus PROVE Addressed(n, f) <=> n = m
  <2>1. n.id = m.id => n = m
    BY OnBus, Zenon
  <2> QED
    BY <1>3, <2>1, Zenon DEF Addressed
<1> QED
  BY <1>3, <1>4, Zenon DEF TakenBy

-----------------------------------------------------------------------------
(* What parsing makes of a status                                          *)

StatusFields == {"id", "state", "error", "angle", "velocity", "torque", "temperature", "mcu",
                 "fault", "warning", "index", "payload", "connected", "unknown"}

IsStatus(s, m) == /\ DOMAIN s = StatusFields /\ s.id = m.id
                  /\ s.state \in 0 .. 3 /\ s.unknown \in Nat

\* What StatusIsReported says of one Motor.
Shows(m, s, last) ==
  /\ last["feedback"] # Nothing => FeedbackKept(m, s, last["feedback"])
  /\ last["param"] # Nothing => s.index = last["param"].index /\ s.payload = last["param"].payload
  /\ last["mcu_id"] # Nothing => s.mcu = last["mcu_id"].mcu
  /\ last["fault"] # Nothing => s.fault = last["fault"].fault /\ s.warning = last["fault"].warning

\* A report updates its own part of the status and leaves the rest.
SameFeedback(s, t) == /\ t.angle = s.angle /\ t.velocity = s.velocity /\ t.torque = s.torque
                      /\ t.temperature = s.temperature /\ t.state = s.state /\ t.error = s.error
SameParam(s, t) == t.index = s.index /\ t.payload = s.payload
SameFault(s, t) == t.fault = s.fault /\ t.warning = s.warning

Updates(m, r, s, t) ==
  /\ IsStatus(t, m) /\ t.unknown = s.unknown
  /\ IF r.kind = "feedback" THEN FeedbackKept(m, t, r) ELSE SameFeedback(s, t)
  /\ IF r.kind = "param" THEN t.index = r.index /\ t.payload = r.payload ELSE SameParam(s, t)
  /\ IF r.kind = "mcu_id" THEN t.mcu = r.mcu ELSE t.mcu = s.mcu
  /\ IF r.kind = "fault" THEN t.fault = r.fault /\ t.warning = r.warning ELSE SameFault(s, t)

LEMMA FeedbackIsKept ==
  ASSUME NEW m \in KnownMotors, NEW r \in KnownReports, r.kind = "feedback", InRange(m, r),
         NEW s,
         s.angle = Decode(Encode(r.angle, -AngleRange(m), AngleRange(m), Steps16),
                          -AngleRange(m), AngleRange(m), Steps16),
         s.velocity = Decode(Encode(r.velocity, -VelocityRange(m), VelocityRange(m), Steps(m)),
                             -VelocityRange(m), VelocityRange(m), Steps(m)),
         s.torque = Decode(Encode(r.torque, -m.profile.torque, m.profile.torque, Steps(m)),
                           -m.profile.torque, m.profile.torque, Steps(m)),
         s.temperature = r.temperature,
         IF m.protocol = "MIT" THEN s.state = MotorState.RUN
                               ELSE s.state = r.state /\ s.error = r.error
  PROVE  FeedbackKept(m, s, r)
<1>1. m.profile.torque \in Nat \ {0} /\ m.profile.velocity \in Nat \ {0}
  BY MotorFields, Zenon
<1>2. /\ AngleRange(m) \in Nat \ {0} /\ VelocityRange(m) \in Nat \ {0} /\ Steps(m) \in Nat \ {0}
      /\ Steps16 \in Nat \ {0}
  BY <1>1, SMT DEF AngleRange, VelocityRange, Steps, MITAngle, MITVelocity, FourPi, Steps12,
                   Steps16
<1>3. r.angle \in -AngleRange(m) .. AngleRange(m)
  <2>1. FourPi \in Nat /\ FourPi <= AngleRange(m)
    BY SMT DEF AngleRange, MITAngle, FourPi
  <2>2. r.angle \in -FourPi .. FourPi
    BY ReportFields, Zenon
  <2> QED
    BY <1>2, <2>1, <2>2, SMT
<1>4. /\ r.velocity \in -VelocityRange(m) .. VelocityRange(m)
      /\ r.torque \in -m.profile.torque .. m.profile.torque
  BY Zenon DEF InRange
<1>5. Near(s.angle, r.angle, Quantum(AngleRange(m), Steps16))
  BY <1>2, <1>3, Measurement, Zenon
<1>6. Near(s.velocity, r.velocity, Quantum(VelocityRange(m), Steps(m)))
  BY <1>2, <1>4, Measurement, Zenon
<1>7. Near(s.torque, r.torque, Quantum(m.profile.torque, Steps(m)))
  BY <1>1, <1>2, <1>4, Measurement, Zenon
<1> QED
  BY <1>5, <1>6, <1>7, Zenon DEF FeedbackKept

LEMMA PrivateReportUpdates ==
  ASSUME NEW m \in KnownMotors, m.protocol = "PRIVATE", NEW r \in KnownReports, InRange(m, r),
         NEW f, IsPrivateReport(m, r, f), NEW s, IsStatus(s, m),
         NEW t, t = ParsePrivate(f, s, m.profile)
  PROVE  Updates(m, r, s, t)
<1>1. CASE r.kind = "feedback"
  <2> DEFINE angle == Encode(r.angle, -FourPi, FourPi, Steps16)
             velocity == Encode(r.velocity, -m.profile.velocity, m.profile.velocity, Steps16)
             torque == Encode(r.torque, -m.profile.torque, m.profile.torque, Steps16)
             d == f.data
  <2>1. /\ GetMsgType(f.id) = FrameType["FEEDBACK"]
        /\ UnpackState(f.id) = r.state /\ UnpackErrorMask(f.id) = r.error
        /\ CarriesWords(d, angle, velocity, torque, r.temperature)
    BY <1>1, PrivateTypes, SMT DEF IsPrivateReport
  <2> HIDE DEF angle, velocity, torque
  <2>2. /\ Unpack16(d[1], d[1 + 1]) = angle /\ Unpack16(d[3], d[3 + 1]) = velocity
        /\ Unpack16(d[5], d[5 + 1]) = torque /\ Unpack16(d[7], d[8]) = r.temperature
    BY <2>1, SMT DEF CarriesWords
  <2>3. t = [s EXCEPT !.state       = r.state,
                      !.error       = r.error,
                      !.angle       = Decode(angle, -FourPi, FourPi, Steps16),
                      !.velocity    = Decode(velocity, -m.profile.velocity, m.profile.velocity,
                                             Steps16),
                      !.torque      = Decode(torque, -m.profile.torque, m.profile.torque, Steps16),
                      !.temperature = r.temperature]
    <3>1. t = [s EXCEPT !.state       = UnpackState(f.id),
                        !.error       = UnpackErrorMask(f.id),
                        !.angle       = Decode(Unpack16(d[1], d[1 + 1]), -FourPi, FourPi, Steps16),
                        !.velocity    = Decode(Unpack16(d[3], d[3 + 1]), -m.profile.velocity,
                                               m.profile.velocity, Steps16),
                        !.torque      = Decode(Unpack16(d[5], d[5 + 1]), -m.profile.torque,
                                               m.profile.torque, Steps16),
                        !.temperature = Unpack16(d[7], d[8])]
      BY <2>1, FrameTypeCodes, SMT DEF ParsePrivate
    <3> QED
      BY <2>1, <2>2, <3>1, Zenon
  <2>4. r.state \in 0 .. 2
    BY <1>1, ReportFields, Zenon
  <2>5. /\ t.state = r.state /\ t.error = r.error /\ t.temperature = r.temperature
        /\ t.angle = Decode(angle, -FourPi, FourPi, Steps16)
        /\ t.velocity = Decode(velocity, -m.profile.velocity, m.profile.velocity, Steps16)
        /\ t.torque = Decode(torque, -m.profile.torque, m.profile.torque, Steps16)
    BY <2>3, SMT DEF IsStatus, StatusFields
  <2>6. /\ DOMAIN t = DOMAIN s /\ t.id = s.id /\ t.unknown = s.unknown
        /\ SameParam(s, t) /\ t.mcu = s.mcu /\ SameFault(s, t)
    BY <2>3, SMT DEF IsStatus, StatusFields, SameParam, SameFault
  <2>7. AngleRange(m) = FourPi /\ VelocityRange(m) = m.profile.velocity /\ Steps(m) = Steps16
    BY SMT DEF AngleRange, VelocityRange, Steps
  <2>8. FeedbackKept(m, t, r)
    BY <1>1, <2>5, <2>7, FeedbackIsKept, SMT DEF angle, velocity, torque
  <2>9. IsStatus(t, m)
    BY <2>4, <2>5, <2>6, SMT DEF IsStatus
  <2> QED
    BY <1>1, <2>6, <2>8, <2>9, SMT DEF Updates
<1>2. CASE r.kind = "fault"
  <2>1. GetMsgType(f.id) = FrameType["FAULT"] /\ CarriesFaults(f.data, r.fault, r.warning)
    BY <1>2, PrivateTypes, SMT DEF IsPrivateReport
  <2>2. t = [s EXCEPT !.fault = r.fault, !.warning = r.warning]
    <3> DEFINE d == f.data
    <3>1. /\ Unpack32(d[4], d[3], d[2], d[1]) = r.fault
          /\ Unpack32(d[8], d[7], d[6], d[5]) = r.warning
      BY <2>1, Zenon DEF CarriesFaults, Unpack32
    <3>2. t = [s EXCEPT !.fault   = Unpack32(d[4], d[3], d[2], d[1]),
                        !.warning = Unpack32(d[8], d[7], d[6], d[5])]
      BY <2>1, FrameTypeCodes, SMT DEF ParsePrivate
    <3> QED
      BY <3>1, <3>2, Zenon
  <2>3. /\ t.fault = r.fault /\ t.warning = r.warning /\ t.mcu = s.mcu
        /\ DOMAIN t = DOMAIN s /\ t.id = s.id /\ t.state = s.state /\ t.unknown = s.unknown
        /\ SameFeedback(s, t) /\ SameParam(s, t)
    BY <2>2, SMT DEF IsStatus, StatusFields, SameFeedback, SameParam
  <2> QED
    BY <1>2, <2>3, SMT DEF Updates, IsStatus
<1>3. CASE r.kind = "param"
  <2>1. GetMsgType(f.id) = FrameType["READ_PARAM"] /\ CarriesPayload(f.data, r.index, r.payload)
    BY <1>3, PrivateTypes, SMT DEF IsPrivateReport
  <2>2. t = [s EXCEPT !.index = r.index, !.payload = r.payload]
    <3> DEFINE d == f.data
    <3>1. /\ Unpack16(d[2], d[1]) = r.index
          /\ Unpack32(d[8], d[7], d[6], d[5]) = r.payload
      BY <2>1, Zenon DEF CarriesPayload, Unpack32
    <3>2. t = [s EXCEPT !.index   = Unpack16(d[2], d[1]),
                        !.payload = Unpack32(d[8], d[7], d[6], d[5])]
      BY <2>1, FrameTypeCodes, SMT DEF ParsePrivate
    <3> QED
      BY <3>1, <3>2, Zenon
  <2>3. /\ t.index = r.index /\ t.payload = r.payload /\ t.mcu = s.mcu
        /\ DOMAIN t = DOMAIN s /\ t.id = s.id /\ t.state = s.state /\ t.unknown = s.unknown
        /\ SameFeedback(s, t) /\ SameFault(s, t)
    BY <2>2, SMT DEF IsStatus, StatusFields, SameFeedback, SameFault
  <2> QED
    BY <1>3, <2>3, SMT DEF Updates, IsStatus
<1>4. CASE r.kind = "mcu_id"
  <2>1. GetMsgType(f.id) = FrameType["INFO"] /\ f.data = r.mcu
    BY <1>4, PrivateTypes, SMT DEF IsPrivateReport
  <2>2. t = [s EXCEPT !.mcu = r.mcu]
    BY <2>1, FrameTypeCodes, SMT DEF ParsePrivate
  <2>3. /\ t.mcu = r.mcu
        /\ DOMAIN t = DOMAIN s /\ t.id = s.id /\ t.state = s.state /\ t.unknown = s.unknown
        /\ SameFeedback(s, t) /\ SameParam(s, t) /\ SameFault(s, t)
    BY <2>2, SMT DEF IsStatus, StatusFields, SameFeedback, SameParam, SameFault
  <2> QED
    BY <1>4, <2>3, SMT DEF Updates, IsStatus
<1> QED
  BY <1>1, <1>2, <1>3, <1>4, ReportFields, SMT DEF ReportKinds

LEMMA MitReportUpdates ==
  ASSUME NEW m \in KnownMotors, m.protocol = "MIT", NEW r \in KnownReports, InRange(m, r),
         NEW f, IsMitReport(m, r, f), NEW s, IsStatus(s, m),
         NEW t, t = ParseMIT(f, s, m.profile)
  PROVE  Updates(m, r, s, t)
<1>1. CASE r.kind = "feedback"
  <2> DEFINE angle == Encode(r.angle, -MITAngle, MITAngle, Steps16)
             velocity == Encode(r.velocity, -MITVelocity, MITVelocity, Steps12)
             torque == Encode(r.torque, -m.profile.torque, m.profile.torque, Steps12)
             d == f.data
  <2>1. Mode(f) = 0 /\ CarriesMitFeedback(d, m.id, angle, velocity, torque, r.temperature)
    BY <1>1, Zenon DEF IsMitReport
  <2> HIDE DEF angle, velocity, torque
  <2>2. /\ d[1] = s.id /\ Unpack16(d[2], d[3]) = angle
        /\ Unpack12Velocity(d[4], d[5]) = velocity
        /\ Unpack12Torque(d[5], d[6]) = torque /\ Unpack16(d[7], d[8]) = r.temperature
    BY <2>1, Zenon DEF CarriesMitFeedback, IsStatus
  <2>3. t = [s EXCEPT !.angle       = Decode(angle, -MITAngle, MITAngle, Steps16),
                      !.velocity    = Decode(velocity, -MITVelocity, MITVelocity, Steps12),
                      !.torque      = Decode(torque, -m.profile.torque, m.profile.torque, Steps12),
                      !.temperature = r.temperature,
                      !.state       = MotorState.RUN]
    BY <2>1, <2>2, SMT DEF ParseMIT
  <2>4. /\ t.state = MotorState.RUN /\ t.temperature = r.temperature
        /\ t.angle = Decode(angle, -MITAngle, MITAngle, Steps16)
        /\ t.velocity = Decode(velocity, -MITVelocity, MITVelocity, Steps12)
        /\ t.torque = Decode(torque, -m.profile.torque, m.profile.torque, Steps12)
    BY <2>3, SMT DEF IsStatus, StatusFields
  <2>5. /\ DOMAIN t = DOMAIN s /\ t.id = s.id /\ t.unknown = s.unknown
        /\ SameParam(s, t) /\ t.mcu = s.mcu /\ SameFault(s, t)
    BY <2>3, SMT DEF IsStatus, StatusFields, SameParam, SameFault
  <2>6. AngleRange(m) = MITAngle /\ VelocityRange(m) = MITVelocity /\ Steps(m) = Steps12
    BY SMT DEF AngleRange, VelocityRange, Steps
  <2>7. FeedbackKept(m, t, r)
    BY <1>1, <2>4, <2>6, FeedbackIsKept, SMT DEF angle, velocity, torque
  <2>8. MotorState.RUN \in 0 .. 3
    BY SMT DEF MotorState
  <2>9. IsStatus(t, m)
    BY <2>4, <2>5, <2>8, Zenon DEF IsStatus
  <2> QED
    BY <1>1, <2>5, <2>7, <2>9, SMT DEF Updates
<1>2. CASE r.kind = "param"
  <2>1. Mode(f) \in {3, 4} /\ CarriesPayload(f.data, r.index, r.payload)
    BY <1>2, Zenon DEF IsMitReport
  <2>2. t = [s EXCEPT !.index = r.index, !.payload = r.payload]
    <3> DEFINE d == f.data
    <3>1. /\ Unpack16(d[2], d[1]) = r.index
          /\ Unpack32(d[8], d[7], d[6], d[5]) = r.payload
      BY <2>1, Zenon DEF CarriesPayload, Unpack32
    <3>2. t = [s EXCEPT !.index   = Unpack16(d[2], d[1]),
                        !.payload = Unpack32(d[8], d[7], d[6], d[5])]
      BY <2>1, SMT DEF ParseMIT
    <3> QED
      BY <3>1, <3>2, Zenon
  <2>3. /\ t.index = r.index /\ t.payload = r.payload /\ t.mcu = s.mcu
        /\ DOMAIN t = DOMAIN s /\ t.id = s.id /\ t.state = s.state /\ t.unknown = s.unknown
        /\ SameFeedback(s, t) /\ SameFault(s, t)
    BY <2>2, SMT DEF IsStatus, StatusFields, SameFeedback, SameFault
  <2> QED
    BY <1>2, <2>3, SMT DEF Updates, IsStatus
<1> QED
  BY <1>1, <1>2, SMT DEF InRange

LEMMA FeedbackStays ==
  ASSUME NEW m, NEW s, NEW t, SameFeedback(s, t), NEW r, FeedbackKept(m, s, r)
  PROVE  FeedbackKept(m, t, r)
BY Zenon DEF SameFeedback, FeedbackKept

LEMMA ConnectedUpdates ==
  ASSUME NEW m, NEW r, NEW s, NEW t, Updates(m, r, s, t),
         NEW u, u = [t EXCEPT !.connected = TRUE]
  PROVE  Updates(m, r, s, u) /\ u.connected = TRUE
<1>1. DOMAIN t = StatusFields
  BY Zenon DEF Updates, IsStatus
<1>2. /\ DOMAIN u = DOMAIN t /\ u.id = t.id /\ u.unknown = t.unknown /\ u.connected = TRUE
      /\ u.index = t.index /\ u.payload = t.payload /\ u.mcu = t.mcu
      /\ u.fault = t.fault /\ u.warning = t.warning
      /\ u.angle = t.angle /\ u.velocity = t.velocity /\ u.torque = t.torque
      /\ u.temperature = t.temperature /\ u.state = t.state /\ u.error = t.error
  BY <1>1, SMT DEF StatusFields
<1>3. IsStatus(u, m) /\ u.unknown = s.unknown
  BY <1>2, Zenon DEF Updates, IsStatus
<1>4. IF r.kind = "feedback" THEN FeedbackKept(m, u, r) ELSE SameFeedback(s, u)
  <2>1. SameFeedback(t, u)
    BY <1>2, Zenon DEF SameFeedback
  <2>2. CASE r.kind = "feedback"
    BY <2>1, <2>2, FeedbackStays, Zenon DEF Updates
  <2>3. CASE r.kind # "feedback"
    BY <1>2, <2>3, Zenon DEF Updates, SameFeedback
  <2> QED
    BY <2>2, <2>3, Zenon
<1>5. /\ IF r.kind = "param" THEN u.index = r.index /\ u.payload = r.payload ELSE SameParam(s, u)
      /\ IF r.kind = "mcu_id" THEN u.mcu = r.mcu ELSE u.mcu = s.mcu
      /\ IF r.kind = "fault" THEN u.fault = r.fault /\ u.warning = r.warning ELSE SameFault(s, u)
  BY <1>2, SMT DEF Updates, SameParam, SameFault
<1> QED
  BY <1>2, <1>3, <1>4, <1>5, Zenon DEF Updates

Noted(last, r) == [last EXCEPT ![r.kind] = r]

\* A status that shows the last reports still does when one more is processed.
LEMMA UpdateShows ==
  ASSUME NEW m, NEW r, r.kind \in ReportKinds, NEW s, NEW t, Updates(m, r, s, t),
         NEW last, DOMAIN last = ReportKinds, Shows(m, s, last),
         NEW next, next = Noted(last, r)
  PROVE  Shows(m, t, next)
<1>1. next[r.kind] = r /\ \A k \in ReportKinds : k # r.kind => next[k] = last[k]
  BY SMT DEF Noted
<1>2. {"feedback", "param", "mcu_id", "fault"} = ReportKinds
  BY Zenon DEF ReportKinds
<1>3. next["feedback"] # Nothing => FeedbackKept(m, t, next["feedback"])
  <2>1. CASE r.kind = "feedback"
    BY <1>1, <2>1, Zenon DEF Updates
  <2>2. CASE r.kind # "feedback"
    <3>1. next["feedback"] = last["feedback"]
      BY <1>1, <1>2, <2>2, SMT
    <3>2. SameFeedback(s, t)
      BY <2>2, Zenon DEF Updates
    <3> QED
      BY <3>1, <3>2, FeedbackStays, Zenon DEF Shows
  <2> QED
    BY <2>1, <2>2, Zenon
<1>4. next["param"] # Nothing => t.index = next["param"].index /\ t.payload = next["param"].payload
  <2>1. CASE r.kind = "param"
    BY <1>1, <2>1, Zenon DEF Updates
  <2>2. CASE r.kind # "param"
    <3>1. next["param"] = last["param"]
      BY <1>1, <1>2, <2>2, SMT
    <3> QED
      BY <2>2, <3>1, Zenon DEF Shows, Updates, SameParam
  <2> QED
    BY <2>1, <2>2, Zenon
<1>5. next["mcu_id"] # Nothing => t.mcu = next["mcu_id"].mcu
  <2>1. CASE r.kind = "mcu_id"
    BY <1>1, <2>1, Zenon DEF Updates
  <2>2. CASE r.kind # "mcu_id"
    <3>1. next["mcu_id"] = last["mcu_id"]
      BY <1>1, <1>2, <2>2, SMT
    <3> QED
      BY <2>2, <3>1, Zenon DEF Shows, Updates
  <2> QED
    BY <2>1, <2>2, Zenon
<1>6. next["fault"] # Nothing => t.fault = next["fault"].fault /\ t.warning = next["fault"].warning
  <2>1. CASE r.kind = "fault"
    BY <1>1, <2>1, Zenon DEF Updates
  <2>2. CASE r.kind # "fault"
    <3>1. next["fault"] = last["fault"]
      BY <1>1, <1>2, <2>2, SMT
    <3> QED
      BY <2>2, <3>1, Zenon DEF Shows, Updates, SameFault
  <2> QED
    BY <2>1, <2>2, Zenon
<1> QED
  BY <1>3, <1>4, <1>5, <1>6, Zenon DEF Shows

\* A stray is nobody's report: the Motor that takes it does not know its mode, and it is
\* the one the stray names.
LEMMA StrayIsUnknown ==
  ASSUME NEW bus \in Configurations, NEW m \in bus, NEW x \in Strays,
         IsFeedbackFrame(m, x.frame)
  PROVE  ~Parses(m, x.frame) /\ x.about = m.id
<1> DEFINE f == x.frame
<1>1. /\ WellFormed(f) /\ (~f.eff => x.about = f.id % 2^8)
      /\ ~LooksLikeReport(m, f)
  BY StrayAssumption, Zenon
<1>2. m.protocol \in {"PRIVATE", "MIT"}
  BY OnBus, MotorFields, Zenon
<1> HIDE DEF f
<1>3. CASE m.protocol = "PRIVATE"
  <2>1. /\ f.eff /\ GetMotorId(f.id) = m.id
        /\ GetMsgType(f.id) \in {FrameType[t] : t \in {"FEEDBACK", "FAULT", "READ_PARAM", "INFO"}}
    BY <1>3, SMT DEF IsFeedbackFrame, IsFeedbackPrivate, f
  <2>2. GetMsgType(f.id) \in {0, 2, 17, 21}
    BY <2>1, FrameTypeCodes, SMT
  <2> QED
    BY <1>1, <1>3, <2>1, <2>2, SMT DEF LooksLikeReport, GetMotorId, GetMsgType
<1>4. CASE m.protocol = "MIT"
  <2>1. /\ ~f.eff /\ f.dlc >= 8
        /\ (Mode(f) = 0 /\ f.data[1] = m.id) \/ RxId(f) = m.id
    BY <1>4, SMT DEF IsFeedbackFrame, IsFeedbackMIT, f
  <2>2. f.dlc = 8
    BY <1>1, <2>1, SMT DEF WellFormed
  <2>3. m.id \in {f.data[1], f.id % 2^8}
    BY <2>1, Zenon DEF RxId
  <2>4. Mode(f) \notin {0, 3, 4}
    BY <1>1, <1>4, <2>1, <2>2, <2>3, SMT DEF LooksLikeReport
  <2>5. RxId(f) = m.id /\ ~ParsesMIT(f, m.id)
    BY <2>1, <2>4, Zenon DEF ParsesMIT
  <2> QED
    BY <1>1, <1>4, <2>1, <2>5, Zenon DEF RxId, Parses, f
<1> QED
  BY <1>2, <1>3, <1>4, Zenon

-----------------------------------------------------------------------------
(* process_frame                                                           *)

LEMMA ProcessedReport ==
  ASSUME NEW m \in KnownMotors, NEW r \in KnownReports, InRange(m, r),
         m.id # m.host, NEW f, IsReportFrame(m, r, f), IsStatus(status[m], m)
  PROVE  /\ Updates(m, r, status[m], Processed(m, f))
         /\ Processed(m, f).connected = TRUE
<1> DEFINE t == ParseFeedback(m, f, status[m])
<1>1. IsFeedbackFrame(m, f) /\ Parses(m, f)
  BY ReportIsRecognised, ReportIsParsed, Zenon
<1>2. Processed(m, f) = [t EXCEPT !.connected = TRUE]
  BY <1>1, Zenon DEF Processed
<1>3. m.protocol \in {"PRIVATE", "MIT"}
  BY MotorFields, Zenon
<1>4. Updates(m, r, status[m], t)
  <2>1. CASE m.protocol = "PRIVATE"
    <3>1. t = ParsePrivate(f, status[m], m.profile) /\ IsPrivateReport(m, r, f)
      BY <2>1, SMT DEF ParseFeedback, IsReportFrame
    <3> HIDE DEF t
    <3> QED
      BY <2>1, <3>1, PrivateReportUpdates, Zenon
  <2>2. CASE m.protocol = "MIT"
    <3>1. t = ParseMIT(f, status[m], m.profile) /\ IsMitReport(m, r, f)
      BY <2>2, SMT DEF ParseFeedback, IsReportFrame
    <3> HIDE DEF t
    <3> QED
      BY <2>2, <3>1, MitReportUpdates, Zenon
  <2> QED
    BY <1>3, <2>1, <2>2, Zenon
<1> HIDE DEF t
<1> QED
  BY <1>2, <1>4, ConnectedUpdates, Zenon

LEMMA NotForMe ==
  ASSUME NEW m, NEW f, ~IsFeedbackFrame(m, f)
  PROVE  Processed(m, f) = status[m]
BY Zenon DEF Processed

LEMMA ProcessedStray ==
  ASSUME NEW bus \in Configurations, NEW m \in bus, NEW x \in Strays
  PROVE  \/ Processed(m, x.frame) = status[m]
         \/ /\ x.about = m.id
            /\ Processed(m, x.frame) = [status[m] EXCEPT !.unknown = @ + 1]
<1>1. CASE ~IsFeedbackFrame(m, x.frame)
  BY <1>1, NotForMe, Zenon
<1>2. CASE IsFeedbackFrame(m, x.frame)
  BY <1>2, StrayIsUnknown, Zenon DEF Processed
<1> QED
  BY <1>1, <1>2, Zenon

LEMMA UnknownIsCounted ==
  ASSUME NEW m, NEW s, IsStatus(s, m), NEW last, Shows(m, s, last),
         NEW t, t = [s EXCEPT !.unknown = @ + 1]
  PROVE  IsStatus(t, m) /\ Shows(m, t, last)
<1>1. /\ DOMAIN t = DOMAIN s /\ t.id = s.id /\ t.state = s.state /\ t.unknown = s.unknown + 1
      /\ t.mcu = s.mcu /\ t.fault = s.fault /\ t.warning = s.warning
      /\ t.index = s.index /\ t.payload = s.payload /\ SameFeedback(s, t)
  BY SMT DEF IsStatus, StatusFields, SameFeedback
<1>2. IsStatus(t, m)
  BY <1>1, SMT DEF IsStatus
<1>3. last["feedback"] # Nothing => FeedbackKept(m, t, last["feedback"])
  BY <1>1, FeedbackStays, Zenon DEF Shows
<1> QED
  BY <1>1, <1>2, <1>3, Zenon DEF Shows

-----------------------------------------------------------------------------
(* The inductive invariant                                                 *)

RequestMessages(bus) ==
  {[motor |-> m, request |-> r, frame |-> EncodeRequest(m, r)] : m \in bus, r \in Requests}

Reportable(m) == {r \in Reports : InRange(m, r)}

\* A report answers what its request waits for.
Answers(x) ==
  x.answers.cmd \in Waits => TypeOf(x.from, x.report) = Expected(x.from, x.answers.cmd)

ReportsOf(m) ==
  {x \in {[from |-> m, answers |-> q, report |-> r, frame |-> ReportFrame(m, r, cmd)] :
            q \in Requests \cup {NoRequest}, r \in Reportable(m), cmd \in {"write", "none"}} :
     Answers(x)}

ReportMessages(bus) == UNION {ReportsOf(m) : m \in bus}

StrayMessages ==
  {[from |-> Nothing, answers |-> NoRequest, report |-> [kind |-> "stray", about |-> s.about],
    frame |-> s.frame] : s \in Strays}

\* The state of every Motor object and what it has processed.
MotorsShow == \A m \in motors : /\ DOMAIN reported[m] = ReportKinds
                                /\ IsStatus(status[m], m) /\ Shows(m, status[m], reported[m])

BusInv ==
  /\ motors \in Configurations /\ sent \in 0 .. MaxRequests
  /\ toMotors \in Seq(RequestMessages(motors))
  /\ fromMotors \in Seq(ReportMessages(motors) \cup StrayMessages)
  /\ DOMAIN reported = motors /\ MotorsShow

LEMMA RequestFound ==
  ASSUME NEW bus, NEW x \in RequestMessages(bus)
  PROVE  x.motor \in bus /\ x.request \in Requests /\ x.frame = EncodeRequest(x.motor, x.request)
BY SMT DEF RequestMessages

LEMMA RequestOnBus ==
  ASSUME NEW bus \in Configurations, NEW x \in RequestMessages(bus)
  PROVE  x.motor \in bus /\ x.request \in Requests /\ TakenBy(bus, x.motor, x.request, x.frame)
<1>1. x.motor \in bus /\ x.request \in Requests /\ x.frame = EncodeRequest(x.motor, x.request)
  BY RequestFound, Zenon
<1>2. TakenBy(bus, x.motor, x.request, x.frame)
  BY <1>1, RequestIsTaken, Zenon
<1> QED
  BY <1>1, <1>2, Zenon

LEMMA ReportFound ==
  ASSUME NEW bus, NEW x \in ReportMessages(bus)
  PROVE  /\ x.from \in bus /\ x.report \in Reports /\ InRange(x.from, x.report) /\ Answers(x)
         /\ \E cmd : x.frame = ReportFrame(x.from, x.report, cmd)
<1>1. PICK m \in bus : x \in ReportsOf(m)
  BY Zenon DEF ReportMessages
<1>2. Answers(x)
  BY <1>1, SMT DEF ReportsOf
<1>3. PICK q \in Requests \cup {NoRequest}, r \in Reportable(m), cmd \in {"write", "none"} :
        x = [from |-> m, answers |-> q, report |-> r, frame |-> ReportFrame(m, r, cmd)]
  BY <1>1, SMT DEF ReportsOf
<1>4. x.from = m /\ x.report = r /\ x.frame = ReportFrame(m, r, cmd)
  BY <1>3, SMT
<1>5. r \in Reports /\ InRange(m, r)
  BY Zenon DEF Reportable
<1> QED
  BY <1>2, <1>4, <1>5, Zenon

LEMMA StrayFound ==
  ASSUME NEW x \in StrayMessages
  PROVE  \E s \in Strays : /\ x.from = Nothing /\ x.report.kind = "stray"
                           /\ x.report.about = s.about /\ x.frame = s.frame
BY SMT DEF StrayMessages

\* A report on its way: its frame is one of it.
LEMMA ReportOnBus ==
  ASSUME NEW bus \in Configurations, NEW x \in ReportMessages(bus)
  PROVE  /\ x.from \in bus /\ x.from \in KnownMotors /\ x.report \in KnownReports
         /\ InRange(x.from, x.report) /\ Answers(x)
         /\ IsReportFrame(x.from, x.report, x.frame)
         /\ \A n \in bus : IsFeedbackFrame(n, x.frame) <=> n = x.from
<1>1. /\ x.from \in bus /\ x.report \in Reports /\ InRange(x.from, x.report) /\ Answers(x)
      /\ \E cmd : x.frame = ReportFrame(x.from, x.report, cmd)
  BY ReportFound, Zenon
<1>2. x.from \in KnownMotors /\ x.report \in KnownReports /\ bus \subseteq KnownMotors
  BY <1>1, OnBus, BusAssumption, Zenon
<1>3. IsReportFrame(x.from, x.report, x.frame)
  BY <1>1, <1>2, ReportIsSent, Zenon
<1>4. ASSUME NEW n \in bus PROVE IsFeedbackFrame(n, x.frame) <=> n = x.from
  <2>1. /\ n \in KnownMotors /\ (x.from.id = n.id => x.from = n)
        /\ x.from.id # n.host /\ n.id # x.from.host
    BY <1>1, <1>2, OnBus, Zenon
  <2> QED
    BY <1>1, <1>2, <1>3, <2>1, ReportIsRecognised, Zenon
<1> QED
  BY <1>1, <1>2, <1>3, <1>4, Zenon

\* A motor's report of what its ranges hold, with a kind its protocol has, may be sent.
LEMMA ReportMaySent ==
  ASSUME NEW bus \in Configurations, NEW m \in bus, NEW r \in Reports,
         m.protocol = "MIT" => r.kind \in {"feedback", "param"},
         NEW q \in Requests \cup {NoRequest},
         q.cmd \in Waits => TypeOf(m, r) = Expected(m, q.cmd), NEW cmd, NEW x,
         x = [from |-> m, answers |-> q, report |-> r, frame |-> ReportFrame(m, r, cmd)]
  PROVE  x \in ReportMessages(bus)
<1>1. InRange(m, r)
  BY RangeAssumption, Zenon DEF InRange
<1>2. r \in Reportable(m)
  BY <1>1, Zenon DEF Reportable
<1>3. \E c \in {"write", "none"} : ReportFrame(m, r, cmd) = ReportFrame(m, r, c)
  BY SMT DEF ReportFrame
<1>4. PICK c \in {"write", "none"} :
        x = [from |-> m, answers |-> q, report |-> r, frame |-> ReportFrame(m, r, c)]
  BY <1>3, Zenon
<1>5. x.answers = q /\ x.from = m /\ x.report = r
  BY SMT
<1>6. Answers(x)
  BY <1>5, Zenon DEF Answers
<1>7. x \in ReportsOf(m)
  BY <1>2, <1>4, <1>6, SMT DEF ReportsOf
<1> QED
  BY <1>7, Zenon DEF ReportMessages

-----------------------------------------------------------------------------
(* Every action preserves it                                               *)

LEMMA BusInit == Init => BusInv
<1> SUFFICES ASSUME Init PROVE BusInv
  OBVIOUS
<1>1. /\ motors \in Configurations /\ toMotors = <<>> /\ fromMotors = <<>>
      /\ status = [m \in motors |-> Status(m)] /\ sent = 0
      /\ reported = [m \in motors |-> [k \in ReportKinds |-> Nothing]]
  BY Zenon DEF Init
<1>2. sent \in 0 .. MaxRequests
  BY <1>1, BusAssumption, SMT
<1>3. toMotors \in Seq(RequestMessages(motors))
  BY <1>1, EmptySeq, Zenon
<1>4. fromMotors \in Seq(ReportMessages(motors) \cup StrayMessages)
  BY <1>1, EmptySeq, Zenon
<1>5. ASSUME NEW m \in motors
      PROVE  DOMAIN reported[m] = ReportKinds /\ IsStatus(status[m], m)
             /\ Shows(m, status[m], reported[m])
  <2>1. reported[m] = [k \in ReportKinds |-> Nothing] /\ status[m] = Status(m)
    BY <1>1, Zenon
  <2>2. IsStatus(status[m], m)
    BY <2>1, SMT DEF IsStatus, Status, StatusFields, MotorState
  <2>3. \A k \in ReportKinds : reported[m][k] = Nothing
    BY <2>1, Zenon
  <2>4. Shows(m, status[m], reported[m])
    BY <2>3, SMT DEF Shows, ReportKinds
  <2> QED
    BY <2>1, <2>2, <2>4, Zenon
<1>6. DOMAIN reported = motors
  BY <1>1, Zenon
<1> QED
  BY <1>1, <1>2, <1>3, <1>4, <1>5, <1>6, Zenon DEF BusInv, MotorsShow

LEMMA SendKeeps ==
  ASSUME BusInv, NEW m \in motors, NEW r \in Requests, Send(m, r)
  PROVE  BusInv'
<1> DEFINE x == [motor |-> m, request |-> r, frame |-> EncodeRequest(m, r)]
<1>1. /\ motors \in Configurations /\ sent \in 0 .. MaxRequests
      /\ toMotors \in Seq(RequestMessages(motors))
      /\ fromMotors \in Seq(ReportMessages(motors) \cup StrayMessages)
      /\ DOMAIN reported = motors /\ MotorsShow
  BY Zenon DEF BusInv
<1>2. /\ sent < MaxRequests /\ sent' = sent + 1 /\ toMotors' = Append(toMotors, x)
      /\ motors' = motors /\ fromMotors' = fromMotors /\ status' = status /\ reported' = reported
  BY Zenon DEF Send
<1>3. sent' \in 0 .. MaxRequests
  BY <1>1, <1>2, BusAssumption, SMT
<1>4. x \in RequestMessages(motors)
  BY SMT DEF RequestMessages
<1> HIDE DEF x
<1>5. toMotors' \in Seq(RequestMessages(motors))
  BY <1>1, <1>2, <1>4, AppendProperties, Zenon
<1>6. MotorsShow'
  BY <1>1, <1>2, Zenon DEF MotorsShow
<1>7. fromMotors' \in Seq(ReportMessages(motors) \cup StrayMessages) /\ DOMAIN reported' = motors
  BY <1>1, <1>2, Zenon
<1> QED
  BY <1>1, <1>2, <1>3, <1>5, <1>6, <1>7, Zenon DEF BusInv

\* A frame more on its way to the host.
LEMMA SentKeeps ==
  ASSUME BusInv, NEW x \in ReportMessages(motors) \cup StrayMessages,
         fromMotors' = Append(fromMotors, x), motors' = motors,
         toMotors' \in Seq(RequestMessages(motors)), sent' \in 0 .. MaxRequests,
         status' = status, reported' = reported
  PROVE  BusInv'
<1>1. /\ motors \in Configurations
      /\ fromMotors \in Seq(ReportMessages(motors) \cup StrayMessages)
      /\ DOMAIN reported = motors /\ MotorsShow
  BY Zenon DEF BusInv
<1>2. fromMotors' \in Seq(ReportMessages(motors) \cup StrayMessages)
  BY <1>1, AppendProperties, Zenon
<1>3. MotorsShow'
  BY <1>1, Zenon DEF MotorsShow
<1>4. DOMAIN reported' = motors'
  BY <1>1, Zenon
<1> QED
  BY <1>1, <1>2, <1>3, <1>4, Zenon DEF BusInv

LEMMA ObeyKeeps ==
  ASSUME BusInv, NEW m \in motors, Obey(m)
  PROVE  BusInv'
<1> DEFINE message == Head(toMotors)
           obeyed == Understood(m, message.frame)
<1>1. /\ motors \in Configurations /\ sent \in 0 .. MaxRequests
      /\ toMotors \in Seq(RequestMessages(motors))
  BY Zenon DEF BusInv
<1>2. /\ toMotors # <<>> /\ Addressed(m, message.frame) /\ toMotors' = Tail(toMotors)
      /\ motors' = motors /\ status' = status /\ reported' = reported /\ sent' = sent
  BY Zenon DEF Obey
<1>3. PICK r \in Reply(m, obeyed) :
        fromMotors' = Append(fromMotors, [from |-> m, answers |-> message.request, report |-> r,
                                          frame |-> ReportFrame(m, r, obeyed.cmd)])
  BY Zenon DEF Obey
<1>4. message \in RequestMessages(motors) /\ toMotors' \in Seq(RequestMessages(motors))
  BY <1>1, <1>2, HeadTailProperties, Zenon
<1> HIDE DEF message
<1>5. message.request \in Requests
  BY <1>1, <1>4, RequestOnBus, Zenon
<1>6. TakenBy(motors, message.motor, message.request, message.frame)
  BY <1>1, <1>4, RequestOnBus, Zenon
<1>7. message.motor = m
  BY <1>2, <1>6, Zenon DEF TakenBy
<1>8. /\ Means(m, message.request, obeyed)
      /\ m.protocol = "MIT" => obeyed.cmd # "ping"
  BY <1>6, <1>7, Zenon DEF TakenBy
<1> HIDE DEF obeyed
<1>9. m \in KnownMotors /\ message.request \in KnownRequests
  BY <1>1, <1>5, OnBus, BusAssumption, Zenon
<1>10. message.request.cmd \in Waits => TypeOf(m, r) = Expected(m, message.request.cmd)
  BY <1>8, <1>9, AnswerIsExpected, Zenon
<1>11. m.protocol = "MIT" => r.kind \in {"feedback", "param"}
  BY <1>8, MitAnswers, Zenon
<1>12. r \in Reports
  BY Zenon DEF Reply
<1> DEFINE x == [from |-> m, answers |-> message.request, report |-> r,
                 frame |-> ReportFrame(m, r, obeyed.cmd)]
<1>13. x \in ReportMessages(motors)
  BY <1>1, <1>5, <1>10, <1>11, <1>12, ReportMaySent, Zenon
<1> HIDE DEF x
<1>14. fromMotors' = Append(fromMotors, x)
  BY <1>3, Zenon DEF x
<1> QED
  BY <1>1, <1>2, <1>4, <1>13, <1>14, SentKeeps, Zenon

LEMMA AnnounceKeeps ==
  ASSUME BusInv, NEW m \in motors, Announce(m)
  PROVE  BusInv'
<1>1. /\ motors \in Configurations /\ sent \in 0 .. MaxRequests
      /\ toMotors \in Seq(RequestMessages(motors))
  BY Zenon DEF BusInv
<1>2. /\ sent < MaxRequests /\ sent' = sent + 1 /\ toMotors' = toMotors
      /\ motors' = motors /\ status' = status /\ reported' = reported
  BY Zenon DEF Announce
<1>3. PICK r \in Reports :
        /\ r.kind \in IF m.protocol = "MIT" THEN {"feedback"} ELSE {"feedback", "fault"}
        /\ fromMotors' = Append(fromMotors, [from |-> m, answers |-> NoRequest, report |-> r,
                                             frame |-> ReportFrame(m, r, "none")])
  BY Zenon DEF Announce
<1>4. sent' \in 0 .. MaxRequests
  BY <1>1, <1>2, BusAssumption, SMT
<1>5. m.protocol = "MIT" => r.kind \in {"feedback", "param"}
  BY <1>3, SMT
<1>6. NoRequest.cmd \notin Waits
  BY SMT DEF NoRequest, Waits
<1> DEFINE x == [from |-> m, answers |-> NoRequest, report |-> r,
                 frame |-> ReportFrame(m, r, "none")]
<1>7. x \in ReportMessages(motors)
  BY <1>1, <1>5, <1>6, ReportMaySent, Zenon
<1> HIDE DEF x
<1>8. fromMotors' = Append(fromMotors, x)
  BY <1>3, Zenon DEF x
<1> QED
  BY <1>1, <1>2, <1>4, <1>7, <1>8, SentKeeps, Zenon

LEMMA StrayKeeps ==
  ASSUME BusInv, NEW s \in Strays, Stray(s)
  PROVE  BusInv'
<1> DEFINE x == [from |-> Nothing, answers |-> NoRequest,
                 report |-> [kind |-> "stray", about |-> s.about], frame |-> s.frame]
<1>1. /\ motors \in Configurations /\ sent \in 0 .. MaxRequests
      /\ toMotors \in Seq(RequestMessages(motors))
  BY Zenon DEF BusInv
<1>2. /\ sent < MaxRequests /\ sent' = sent + 1 /\ toMotors' = toMotors
      /\ motors' = motors /\ status' = status /\ reported' = reported
      /\ fromMotors' = Append(fromMotors, x)
  BY Zenon DEF Stray
<1>3. sent' \in 0 .. MaxRequests
  BY <1>1, <1>2, BusAssumption, SMT
<1>4. x \in StrayMessages
  BY Zenon DEF StrayMessages
<1> HIDE DEF x
<1> QED
  BY <1>1, <1>2, <1>3, <1>4, SentKeeps, Zenon

\* What the frame at the head does to the Motor of m.
Effect(x, m, t) ==
  \/ /\ x \in ReportMessages(motors) /\ x.from = m
     /\ Updates(m, x.report, status[m], t) /\ t.connected = TRUE
  \/ x \in ReportMessages(motors) /\ x.from # m /\ t = status[m]
  \/ /\ x.from \notin motors /\ x.report.kind = "stray"
     /\ \/ t = status[m]
        \/ x.report.about = m.id /\ t = [status[m] EXCEPT !.unknown = @ + 1]

LEMMA HeadProcessed ==
  ASSUME BusInv, fromMotors # <<>>, NEW m \in motors
  PROVE  Effect(Head(fromMotors), m, Processed(m, Head(fromMotors).frame))
<1> DEFINE x == Head(fromMotors)
           t == Processed(m, x.frame)
<1>1. /\ motors \in Configurations
      /\ fromMotors \in Seq(ReportMessages(motors) \cup StrayMessages) /\ MotorsShow
  BY Zenon DEF BusInv
<1>2. x \in ReportMessages(motors) \cup StrayMessages
  BY <1>1, HeadTailProperties, Zenon
<1>3. IsStatus(status[m], m)
  BY <1>1, Zenon DEF MotorsShow
<1> HIDE DEF x
<1>4. CASE x \in ReportMessages(motors)
  <2>1. /\ x.from \in KnownMotors /\ x.report \in KnownReports
        /\ InRange(x.from, x.report) /\ IsReportFrame(x.from, x.report, x.frame)
        /\ IsFeedbackFrame(m, x.frame) <=> m = x.from
    BY <1>1, <1>4, ReportOnBus, Zenon
  <2>2. CASE x.from = m
    <3>1. m.id # m.host
      BY <1>1, OnBus, Zenon
    <3>2. Updates(m, x.report, status[m], t) /\ t.connected = TRUE
      BY <1>3, <2>1, <2>2, <3>1, ProcessedReport, Zenon
    <3> QED
      BY <1>4, <2>2, <3>2, Zenon DEF Effect, x
  <2>3. CASE x.from # m
    <3>1. t = status[m]
      BY <2>1, <2>3, NotForMe, Zenon
    <3> QED
      BY <1>4, <2>3, <3>1, Zenon DEF Effect, x
  <2> QED
    BY <2>2, <2>3, Zenon
<1>5. CASE x \in StrayMessages
  <2>1. PICK s \in Strays : /\ x.from = Nothing /\ x.report.kind = "stray"
                            /\ x.report.about = s.about /\ x.frame = s.frame
    BY <1>5, StrayFound, Zenon
  <2>2. x.from \notin motors
    BY <1>1, <2>1, OnBus, Zenon
  <2>3. t = status[m] \/ (x.report.about = m.id /\ t = [status[m] EXCEPT !.unknown = @ + 1])
    BY <1>1, <2>1, ProcessedStray, Zenon
  <2> HIDE DEF t
  <2> QED
    BY <2>1, <2>2, <2>3, Zenon DEF Effect, x, t
<1> QED
  BY <1>2, <1>4, <1>5, Zenon

LEMMA ReceiveKeeps ==
  ASSUME BusInv, Receive
  PROVE  BusInv'
<1> DEFINE x == Head(fromMotors)
<1>1. /\ motors \in Configurations /\ sent \in 0 .. MaxRequests
      /\ toMotors \in Seq(RequestMessages(motors))
      /\ fromMotors \in Seq(ReportMessages(motors) \cup StrayMessages)
      /\ DOMAIN reported = motors /\ MotorsShow
  BY Zenon DEF BusInv
<1>2. /\ fromMotors # <<>> /\ fromMotors' = Tail(fromMotors)
      /\ motors' = motors /\ toMotors' = toMotors /\ sent' = sent
      /\ status' = [m \in motors |-> Processed(m, x.frame)]
      /\ reported' = IF x.from \in motors
                       THEN [reported EXCEPT ![x.from][x.report.kind] = x.report]
                       ELSE reported
  BY Zenon DEF Receive
<1>3. fromMotors' \in Seq(ReportMessages(motors) \cup StrayMessages)
  BY <1>1, <1>2, HeadTailProperties, Zenon
<1>4. \A m \in motors : Effect(x, m, status'[m])
  BY <1>2, HeadProcessed, Zenon
<1> HIDE DEF x
<1>5. DOMAIN reported' = motors
  BY <1>1, <1>2, Zenon
<1>6. ASSUME NEW m \in motors
      PROVE  /\ DOMAIN reported'[m] = ReportKinds
             /\ IsStatus(status'[m], m) /\ Shows(m, status'[m], reported'[m])
  <2> DEFINE s == status[m]
             t == status'[m]
             last == reported[m]
             next == reported'[m]
  <2>1. DOMAIN last = ReportKinds /\ IsStatus(s, m) /\ Shows(m, s, last)
    BY <1>1, Zenon DEF MotorsShow
  <2>2. CASE /\ x \in ReportMessages(motors) /\ x.from = m
             /\ Updates(m, x.report, s, t)
    <3>1. x.report.kind \in ReportKinds
      BY <1>1, <2>2, ReportOnBus, ReportFields, Zenon
    <3>2. next = Noted(last, x.report)
      BY <1>1, <1>2, <2>2, SMT DEF Noted
    <3>3. DOMAIN next = ReportKinds
      BY <2>1, <3>2, Zenon DEF Noted
    <3> HIDE DEF s, t, last, next
    <3>4. Shows(m, t, next)
      BY <2>1, <2>2, <3>1, <3>2, UpdateShows, Zenon
    <3>5. IsStatus(t, m)
      BY <2>2, Zenon DEF Updates
    <3> QED
      BY <3>3, <3>4, <3>5, Zenon DEF t, next
  <2>3. CASE x \in ReportMessages(motors) /\ x.from # m /\ t = s
    <3>1. next = last
      BY <1>1, <1>2, <2>3, SMT
    <3> QED
      BY <2>1, <2>3, <3>1, Zenon
  <2>4. CASE /\ x.from \notin motors
             /\ t = s \/ t = [s EXCEPT !.unknown = @ + 1]
    <3>1. next = last
      BY <1>2, <2>4, Zenon
    <3>2. CASE t = s
      BY <2>1, <3>1, <3>2, Zenon
    <3>3. CASE t = [s EXCEPT !.unknown = @ + 1]
      <4> HIDE DEF s, t, last, next
      <4>1. IsStatus(t, m) /\ Shows(m, t, last)
        BY <2>1, <3>3, UnknownIsCounted, Zenon
      <4> QED
        BY <2>1, <3>1, <4>1, Zenon DEF t, next
    <3> QED
      BY <2>4, <3>2, <3>3, Zenon
  <2> QED
    BY <1>4, <2>2, <2>3, <2>4, Zenon DEF Effect
<1>7. MotorsShow'
  BY <1>2, <1>6, Zenon DEF MotorsShow
<1> QED
  BY <1>1, <1>2, <1>3, <1>5, <1>7, Zenon DEF BusInv

LEMMA BusNext == BusInv /\ [Next]_vars => BusInv'
<1> SUFFICES ASSUME BusInv, [Next]_vars PROVE BusInv'
  OBVIOUS
<1>1. ASSUME NEW m \in motors, NEW r \in Requests, Send(m, r) PROVE BusInv'
  BY <1>1, SendKeeps, Zenon
<1>2. ASSUME NEW m \in motors, Obey(m) PROVE BusInv'
  BY <1>2, ObeyKeeps, Zenon
<1>3. ASSUME NEW m \in motors, Announce(m) PROVE BusInv'
  BY <1>3, AnnounceKeeps, Zenon
<1>4. ASSUME NEW s \in Strays, Stray(s) PROVE BusInv'
  BY <1>4, StrayKeeps, Zenon
<1>5. CASE Receive
  BY <1>5, ReceiveKeeps, Zenon
<1>6. CASE UNCHANGED vars
  BY <1>6, Zenon DEF vars, BusInv, MotorsShow
<1> QED
  BY <1>1, <1>2, <1>3, <1>4, <1>5, <1>6, Zenon DEF Next, Idle

-----------------------------------------------------------------------------
(* The theorems                                                            *)

LEMMA Invariant == Spec => []BusInv
<1> QED
  BY BusInit, BusNext, PTL DEF Spec

LEMMA InvTypeOK == BusInv => TypeOK
<1> SUFFICES ASSUME BusInv PROVE TypeOK
  OBVIOUS
<1>1. /\ motors \in Configurations /\ sent \in 0 .. MaxRequests
      /\ toMotors \in Seq(RequestMessages(motors))
      /\ fromMotors \in Seq(ReportMessages(motors) \cup StrayMessages) /\ MotorsShow
  BY Zenon DEF BusInv
<1>2. ASSUME NEW i \in DOMAIN toMotors PROVE WellFormed(toMotors[i].frame)
  <2>1. toMotors[i] \in RequestMessages(motors)
    BY <1>1, ElementOfSeq, LenProperties, Zenon
  <2> QED
    BY <1>1, <2>1, RequestOnBus, Zenon DEF TakenBy
<1>3. ASSUME NEW i \in DOMAIN fromMotors PROVE WellFormed(fromMotors[i].frame)
  <2>1. fromMotors[i] \in ReportMessages(motors) \cup StrayMessages
    BY <1>1, ElementOfSeq, LenProperties, Zenon
  <2>2. CASE fromMotors[i] \in ReportMessages(motors)
    BY <1>1, <2>2, ReportOnBus, ReportIsWellFormed, Zenon
  <2>3. CASE fromMotors[i] \in StrayMessages
    BY <2>3, StrayFound, StrayAssumption, Zenon
  <2> QED
    BY <2>1, <2>2, <2>3, Zenon
<1>4. \A m \in motors : status[m].state \in 0 .. 3 /\ status[m].unknown \in Nat
  BY <1>1, Zenon DEF MotorsShow, IsStatus
<1> QED
  BY <1>1, <1>2, <1>3, <1>4, Zenon DEF TypeOK

\* Every frame that any motor, any request, any report and any stray puts on the bus is
\* well formed: the identifier fits its format and every field of the codec its bytes.
THEOREM BusTypeCorrect == Spec => []TypeOK
<1> QED
  BY Invariant, InvTypeOK, PTL

LEMMA InvUnderstood == BusInv => RequestsUnderstood
<1> SUFFICES ASSUME BusInv, NEW i \in DOMAIN toMotors
             PROVE  /\ \A m \in motors : Addressed(m, toMotors[i].frame) <=> m = toMotors[i].motor
                    /\ Means(toMotors[i].motor, toMotors[i].request,
                             Understood(toMotors[i].motor, toMotors[i].frame))
  BY Zenon DEF RequestsUnderstood
<1>1. motors \in Configurations /\ toMotors \in Seq(RequestMessages(motors))
  BY Zenon DEF BusInv
<1>2. toMotors[i] \in RequestMessages(motors)
  BY <1>1, ElementOfSeq, LenProperties, Zenon
<1> QED
  BY <1>1, <1>2, RequestOnBus, Zenon DEF TakenBy

\* For every bus of motors with their own identifiers and every request: the frame the
\* strategy encodes is taken by the motor it is for alone, and as that request, with its
\* setpoints within a step of the scale.  The one exception is proved to be just what it is
\* said to be: a MIT control frame is taken as clear_error, enable, stop or set_zero if and
\* only if all its other setpoints are at full scale and its torque is one of four values.
THEOREM EveryRequestUnderstood == Spec => []RequestsUnderstood
<1> QED
  BY Invariant, InvUnderstood, PTL

LEMMA InvRecognised == BusInv => RepliesRecognised
<1> SUFFICES ASSUME BusInv, NEW i \in DOMAIN fromMotors, fromMotors[i].from \in motors
             PROVE  LET message == fromMotors[i]
                        m       == message.from
                        type    == ResponseType(m, message.frame) IN
                    /\ \A n \in motors : IsFeedbackFrame(n, message.frame) <=> n = m
                    /\ Parses(m, message.frame)
                    /\ type = TypeOf(m, message.report)
                    /\ message.answers.cmd \in Waits => type = Expected(m, message.answers.cmd)
  BY Zenon DEF RepliesRecognised, TypeOf
<1> DEFINE x == fromMotors[i]
<1>1. /\ motors \in Configurations
      /\ fromMotors \in Seq(ReportMessages(motors) \cup StrayMessages)
  BY Zenon DEF BusInv
<1>2. x \in ReportMessages(motors) \cup StrayMessages
  BY <1>1, ElementOfSeq, LenProperties, Zenon
<1>3. x \notin StrayMessages
  BY <1>1, StrayFound, OnBus, Zenon
<1>4. /\ x.from \in KnownMotors /\ x.report \in KnownReports
      /\ InRange(x.from, x.report) /\ Answers(x)
      /\ IsReportFrame(x.from, x.report, x.frame)
      /\ \A n \in motors : IsFeedbackFrame(n, x.frame) <=> n = x.from
  BY <1>1, <1>2, <1>3, ReportOnBus, Zenon
<1>5. Parses(x.from, x.frame) /\ ResponseType(x.from, x.frame) = TypeOf(x.from, x.report)
  BY <1>4, ReportIsParsed, Zenon
<1> QED
  BY <1>4, <1>5, Zenon DEF Answers

\* A report is its sender's alone, parses there, and has the FrameType module Protocol
\* gives its kind, the one its request waits for.
THEOREM EveryReplyRecognised == Spec => []RepliesRecognised
<1> QED
  BY Invariant, InvRecognised, PTL

LEMMA InvShown == BusInv => StatusIsReported
BY Zenon DEF BusInv, MotorsShow, Shows, StatusIsReported

\* get_status() shows the last report of every kind, to within a step of the scale.
THEOREM StatusShowsReports == Spec => []StatusIsReported
<1> QED
  BY Invariant, InvShown, PTL

LEMMA StepFromSender ==
  ASSUME BusInv, [Next]_vars
  PROVE  [\A m \in motors :
            status'[m] # status[m] =>
              LET message == Head(fromMotors) IN
              \/ message.from = m
              \/ /\ message.report.kind = "stray" /\ message.report.about = m.id
                 /\ status'[m] = [status[m] EXCEPT !.unknown = @ + 1]]_vars
<1> DEFINE x == Head(fromMotors)
<1>1. CASE Receive
  <2>1. /\ fromMotors # <<>> /\ status' = [m \in motors |-> Processed(m, x.frame)]
    BY <1>1, Zenon DEF Receive
  <2>2. \A m \in motors : Effect(x, m, status'[m])
    BY <2>1, HeadProcessed, Zenon
  <2> HIDE DEF x
  <2>3. \A m \in motors :
          status'[m] # status[m] =>
            \/ x.from = m
            \/ /\ x.report.kind = "stray" /\ x.report.about = m.id
               /\ status'[m] = [status[m] EXCEPT !.unknown = @ + 1]
    BY <2>2, Zenon DEF Effect
  <2> QED
    BY <2>3, Zenon DEF x
<1>2. CASE status' = status
  BY <1>2, Zenon
<1>3. Receive \/ status' = status
  BY Zenon DEF Next, Send, Obey, Announce, Stray, Idle, vars
<1> QED
  BY <1>1, <1>2, <1>3, Zenon

\* process_frame of a Motor does nothing with what its own motor did not send, except to
\* count a frame of an unknown mode that names it.
THEOREM ChangedBySenderOnly == Spec => OnlyFromSender
<1> QED
  BY Invariant, StepFromSender, PTL DEF Spec, OnlyFromSender

\* A status updated by a report is what module Protocol makes of the report.
LEMMA UpdateParses ==
  ASSUME NEW m \in KnownMotors, NEW r \in KnownReports, InRange(m, r),
         NEW s, NEW t, Updates(m, r, s, t), t.connected = TRUE
  PROVE  View(t) = Refreshed(m, View(s), Seen(r))
<1> DEFINE v == View(s)
<1>1. t.unknown = s.unknown
  BY Zenon DEF Updates
<1>2. /\ r.kind \in ReportKinds
      /\ m.protocol \in {"PRIVATE", "MIT"}
      /\ m.protocol = "MIT" => r.kind \in {"feedback", "param"}
  BY MotorFields, ReportFields, Zenon DEF InRange
<1>3. /\ v.state = StateName(s.state) /\ v.value = <<s.index, s.payload>>
      /\ v.connected = s.connected /\ v.unknown = s.unknown
      /\ v = [state |-> v.state, value |-> v.value, connected |-> v.connected,
              unknown |-> v.unknown]
  BY DEF View
<1>4. View(t) = [state |-> StateName(t.state), value |-> <<t.index, t.payload>>,
                 connected |-> TRUE, unknown |-> s.unknown]
  BY <1>1 DEF View
<1> HIDE DEF v
<1>5. CASE r.kind = "feedback"
  <2> DEFINE n == IF m.protocol = "MIT" THEN "RUN" ELSE StateName(r.state)
  <2>1. StateName(MotorState.RUN) = "RUN"
    BY DEF StateName, MotorState
  <2>2. StateName(t.state) = n /\ t.index = s.index /\ t.payload = s.payload
    BY <1>5, <2>1 DEF Updates, FeedbackKept, SameParam
  <2>3. Seen(r) = [kind |-> "feedback", state |-> StateName(r.state)]
    BY <1>5 DEF Seen
  <2> HIDE DEF n
  <2>4. Refreshed(m, v, Seen(r)) = [[v EXCEPT !.state = n] EXCEPT !.connected = TRUE]
    <3> DEFINE e == Seen(r)
    <3>1. e.kind = "feedback" /\ e.state = StateName(r.state)
      BY <2>3
    <3> HIDE DEF e
    <3>2. Mit!ParseFeedback(v, e) = [v EXCEPT !.state = "RUN"]
      BY <3>1 DEF Mit!ParseFeedback
    <3>3. Private!ParseFeedback(v, e) = [v EXCEPT !.state = StateName(r.state)]
      BY <3>1 DEF Private!ParseFeedback
    <3>4. CASE m.protocol = "MIT"
      BY <3>2, <3>4, Zenon DEF Refreshed, n, e
    <3>5. CASE m.protocol # "MIT"
      BY <3>3, <3>5, Zenon DEF Refreshed, n, e
    <3> QED
      BY <3>4, <3>5, Zenon
  <2> QED
    BY <1>3, <1>4, <2>2, <2>4 DEF v
<1>6. CASE r.kind = "param"
  <2>1. /\ StateName(t.state) = StateName(s.state)
        /\ t.index = r.index /\ t.payload = r.payload
    BY <1>6 DEF Updates, SameFeedback
  <2>2. Seen(r) = [kind |-> "param", value |-> <<r.index, r.payload>>]
    BY <1>6 DEF Seen
  <2>3. Refreshed(m, v, Seen(r))
          = [[v EXCEPT !.value = <<r.index, r.payload>>] EXCEPT !.connected = TRUE]
    BY <1>2, <2>2 DEF Refreshed, Mit!ParseFeedback, Private!ParseFeedback
  <2> QED
    BY <1>3, <1>4, <2>1, <2>3, ZenonT(40) DEF v
<1>7. CASE r.kind \in {"mcu_id", "fault"}
  <2>1. /\ StateName(t.state) = StateName(s.state)
        /\ t.index = s.index /\ t.payload = s.payload
    BY <1>7 DEF Updates, SameFeedback, SameParam
  <2>2. Seen(r) = [kind |-> r.kind]
    BY <1>7 DEF Seen, Abstract
  <2>3. Refreshed(m, v, Seen(r)) = [v EXCEPT !.connected = TRUE]
    <3> DEFINE e == Seen(r)
    <3>1. e.kind # "feedback" /\ e.kind # "param" /\ m.protocol # "MIT"
      BY <1>2, <1>7, <2>2
    <3> HIDE DEF e
    <3>2. Private!ParseFeedback(v, e) = v
      BY <3>1 DEF Private!ParseFeedback
    <3> QED
      BY <3>1, <3>2, Zenon DEF Refreshed, e
  <2> QED
    BY <1>3, <1>4, <2>1, <2>3 DEF v
<1> QED
  BY <1>2, <1>5, <1>6, <1>7 DEF ReportKinds

LEMMA StepParses ==
  ASSUME BusInv, [Next]_vars
  PROVE  [Len(fromMotors') < Len(fromMotors) =>
            LET message == Head(fromMotors)
                m       == message.from IN
            m \in motors =>
              View(status'[m]) = Refreshed(m, View(status[m]), Seen(message.report))]_vars
<1> DEFINE x == Head(fromMotors)
           m == x.from
<1> SUFFICES ASSUME Len(fromMotors') < Len(fromMotors), m \in motors
             PROVE  View(status'[m]) = Refreshed(m, View(status[m]), Seen(x.report))
  BY Zenon
<1>1. /\ motors \in Configurations
      /\ fromMotors \in Seq(ReportMessages(motors) \cup StrayMessages)
  BY Zenon DEF BusInv
<1>2. \A y : Len(Append(fromMotors, y)) = Len(fromMotors) + 1
  BY <1>1
<1>3. Len(fromMotors) \in Nat
  BY <1>1, LenProperties
<1>4. fromMotors' # fromMotors /\ \A y : fromMotors' # Append(fromMotors, y)
  BY <1>2, <1>3
<1>5. Receive
  BY <1>4, Zenon DEF Next, Send, Obey, Announce, Stray, Idle, vars
<1>6. /\ fromMotors # <<>> /\ status' = [n \in motors |-> Processed(n, x.frame)]
  BY <1>5, Zenon DEF Receive
<1>7. x \in ReportMessages(motors) \cup StrayMessages
  BY <1>1, <1>6, HeadTailProperties, Zenon
<1>8. status'[m] = Processed(m, x.frame)
  BY <1>6, Zenon
<1>9. Effect(x, m, Processed(m, x.frame))
  BY <1>6, HeadProcessed, Zenon
<1>10. x \in ReportMessages(motors)
  BY <1>1, <1>7, StrayFound, OnBus, Zenon
<1>11. m \in KnownMotors /\ x.report \in KnownReports /\ InRange(m, x.report)
  BY <1>1, <1>10, ReportOnBus, Zenon
<1> HIDE DEF x
<1>12. /\ Updates(m, x.report, status[m], Processed(m, x.frame))
       /\ Processed(m, x.frame).connected = TRUE
  BY <1>9, Zenon DEF Effect
<1>13. View(Processed(m, x.frame)) = Refreshed(m, View(status[m]), Seen(x.report))
  BY <1>11, <1>12, UpdateParses, ZenonT(40)
<1> QED
  BY <1>8, <1>13, Zenon DEF x

\* The parsers of both protocols, working on bytes, do to a status what module Protocol
\* says of the message: what Motor is checked against is what Codec computes.
THEOREM ParsersFollowProtocol == Spec => ParsesAsProtocol
<1> QED
  BY Invariant, StepParses, PTL DEF Spec, ParsesAsProtocol
=============================================================================
