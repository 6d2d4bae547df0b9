----------------------------- MODULE PlanProofs -----------------------------
(***************************************************************************)
(* Lemmas about the plans of ModePlan, for every mode and all limits.      *)
(***************************************************************************)
EXTENDS ModePlan, SequenceTheorems, TLAPS

\* A write to the motor: the run mode takes a mode, a limit takes a number.
ModeWrites == [param : {"RUN_MODE"}, value : AllModes]
LimitsWritten == [param : Limits, value : Int]
Writes == ModeWrites \cup LimitsWritten

\* Each parameter is written once.
Distinct(s) == \A i, j \in 1 .. Len(s) : i # j => s[i].param # s[j].param

LEMMA LimitWrite ==
  ASSUME NEW p \in Limits, NEW v \in Int
  PROVE  Write(p, v) \in LimitsWritten /\ Write(p, v).param = p
BY DEF Write, LimitsWritten

\* Putting a write in front of others, and one behind two others.
LEMMA OneBefore ==
  ASSUME NEW S, NEW x \in S, NEW s \in Seq(S)
  PROVE  /\ <<x>> \o s \in Seq(S) /\ Len(<<x>> \o s) = Len(s) + 1
         /\ (<<x>> \o s)[1] = x
         /\ \A i \in 2 .. Len(s) + 1 : (<<x>> \o s)[i] = s[i - 1]
BY ConcatProperties

LEMMA OneBehindTwo ==
  ASSUME NEW S, NEW x \in S, NEW y \in S, NEW z \in S
  PROVE  LET t == <<x, y>> \o <<z>>
         IN  t \in Seq(S) /\ Len(t) = 3 /\ t[1] = x /\ t[2] = y /\ t[3] = z
BY ConcatProperties

\* The limits of a mode are at most three, each written once.
LEMMA LimitWritesShape ==
  ASSUME NEW k, k.limits \in [1 .. 3 -> Int]
  PROVE  LET s == LimitWrites(k.mode, k.limits)
         IN  s \in Seq(LimitsWritten) /\ Len(s) \in 0 .. 3 /\ Distinct(s)
<1> DEFINE l == k.limits
           s == LimitWrites(k.mode, k.limits)
<1>1. l[1] \in Int /\ l[2] \in Int /\ l[3] \in Int
  OBVIOUS
<1> HIDE DEF l
<1>2. CASE k.mode = "SPEED"
  <2> DEFINE a == Write("LIMIT_CUR", l[1])
             b == Write("ACC_RAD", l[2])
  <2>1. a \in LimitsWritten /\ b \in LimitsWritten /\ a.param # b.param
    BY <1>1, LimitWrite DEF Limits
  <2>2. s = <<a, b>>
    BY <1>2 DEF LimitWrites, l
  <2> HIDE DEF a, b, s
  <2> QED
    BY <2>1, <2>2 DEF s, Distinct
<1>3. CASE k.mode = "POSITION_CSP"
  <2> DEFINE a == Write("LIMIT_SPD", l[1])
  <2>1. a \in LimitsWritten
    BY <1>1, LimitWrite DEF Limits
  <2>2. s = <<a>>
    BY <1>3 DEF LimitWrites, l
  <2> HIDE DEF a, s
  <2> QED
    BY <2>1, <2>2 DEF s, Distinct
<1>4. CASE k.mode = "POSITION"
  <2> DEFINE a == Write("MAX_VEL", l[1])
             b == Write("ACC_SET", l[2])
             c == Write("DEC_SET", l[3])
  <2>1. /\ a \in LimitsWritten /\ b \in LimitsWritten /\ c \in LimitsWritten
        /\ a.param # b.param /\ a.param # c.param /\ b.param # c.param
    BY <1>1, LimitWrite DEF Limits
  <2>2. s = <<a, b>> \o IF l[3] >= 0 THEN <<c>> ELSE <<>>
    BY <1>4 DEF LimitWrites, l
  <2> HIDE DEF a, b, c, s
  <2>3. CASE l[3] >= 0
    <3>1. s = <<a, b>> \o <<c>>
      BY <2>2, <2>3
    <3>2. s \in Seq(LimitsWritten) /\ Len(s) = 3 /\ s[1] = a /\ s[2] = b /\ s[3] = c
      BY <2>1, <3>1, OneBehindTwo
    <3> QED
      BY <2>1, <3>2 DEF s, Distinct
  <2>4. CASE ~(l[3] >= 0)
    <3>1. s = <<a, b>> \o <<>>
      BY <2>2, <2>4
    <3>2. s = <<a, b>>
      BY <2>1, <3>1, ConcatEmptySeq
    <3> QED
      BY <2>1, <3>2 DEF s, Distinct
  <2> QED
    BY <2>3, <2>4
<1>5. CASE k.mode \notin {"SPEED", "POSITION_CSP", "POSITION"}
  <2>1. s = <<>>
    BY <1>5 DEF LimitWrites
  <2> QED
    BY <2>1 DEF Distinct
<1> QED
  BY <1>2, <1>3, <1>4, <1>5

\* Putting the run mode in front of them keeps it so.
LEMMA ModeFirst ==
  ASSUME NEW m \in ModeWrites, NEW s \in Seq(LimitsWritten), Len(s) \in 0 .. 3, Distinct(s)
  PROVE  LET p == <<m>> \o s
         IN  p \in Seq(Writes) /\ Len(p) \in 1 .. 4 /\ p[1] = m /\ Distinct(p)
<1> DEFINE p == <<m>> \o s
<1>1. m \in Writes /\ s \in Seq(Writes)
  BY SeqMonotonic DEF Writes
<1>2. /\ p \in Seq(Writes) /\ Len(p) = Len(s) + 1 /\ p[1] = m
      /\ \A i \in 2 .. Len(s) + 1 : p[i] = s[i - 1]
  BY <1>1, OneBefore
<1> HIDE DEF p
<1>3. ASSUME NEW i \in 2 .. Len(p) PROVE p[i].param # m.param
  <2>1. p[i] = s[i - 1] /\ i - 1 \in 1 .. Len(s)
    BY <1>2
  <2>2. s[i - 1] \in LimitsWritten
    BY <2>1, ElementOfSeq
  <2>3. m.param = "RUN_MODE"
    BY DEF ModeWrites
  <2>4. s[i - 1].param \in Limits
    BY <2>2 DEF LimitsWritten
  <2> QED
    BY <2>1, <2>3, <2>4 DEF Limits
<1>4. ASSUME NEW i \in 1 .. Len(p), NEW j \in 1 .. Len(p), i # j
      PROVE  p[i].param # p[j].param
  <2>1. CASE i = 1 \/ j = 1
    BY <1>2, <1>3, <1>4, <2>1
  <2>2. CASE i # 1 /\ j # 1
    <3>1. /\ p[i] = s[i - 1] /\ p[j] = s[j - 1] /\ i - 1 # j - 1
          /\ i - 1 \in 1 .. Len(s) /\ j - 1 \in 1 .. Len(s)
      BY <1>2, <1>4, <2>2
    <3> QED
      BY <3>1 DEF Distinct
  <2> QED
    BY <2>1, <2>2
<1>5. Distinct(p)
  BY <1>4 DEF Distinct
<1>6. Len(p) \in 1 .. 4
  BY <1>2
<1> QED
  BY <1>2, <1>5, <1>6, Zenon DEF p

\* A plan writes each parameter at most once, and the run mode first.
LEMMA PlanWrites ==
  ASSUME NEW k, k.mode \in AllModes, k.limits \in [1 .. 3 -> Int]
  PROVE  /\ Plan(k) \in Seq(Writes) /\ Len(Plan(k)) \in 1 .. 4 /\ Distinct(Plan(k))
         /\ k.mode # "STOP_PP" => Plan(k)[1] = Write("RUN_MODE", k.mode)
<1>1. CASE k.mode = "STOP_PP"
  <2> DEFINE a == Write("MAX_VEL", 0)
  <2>1. a \in Writes
    BY LimitWrite DEF Writes, Limits
  <2>2. Plan(k) = <<a>>
    BY <1>1 DEF Plan
  <2> HIDE DEF a
  <2> QED
    BY <1>1, <2>1, <2>2 DEF Distinct
<1>2. CASE k.mode # "STOP_PP"
  <2>1. Write("RUN_MODE", k.mode) \in ModeWrites
    BY DEF Write, ModeWrites
  <2>2. Plan(k) = <<Write("RUN_MODE", k.mode)>> \o LimitWrites(k.mode, k.limits)
    BY <1>2 DEF Plan
  <2> DEFINE s == LimitWrites(k.mode, k.limits)
  <2>3. s \in Seq(LimitsWritten) /\ Len(s) \in 0 .. 3 /\ Distinct(s)
    BY LimitWritesShape
  <2> HIDE DEF s
  <2>4. Plan(k) = <<Write("RUN_MODE", k.mode)>> \o s
    BY <2>2 DEF s
  <2> QED
    BY <1>2, <2>1, <2>3, <2>4, ModeFirst, Zenon
<1> QED
  BY <1>1, <1>2
=============================================================================
