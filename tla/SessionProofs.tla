---------------------------- MODULE SessionProofs ----------------------------
(***************************************************************************)
(* Theorems about Session for every set of programs, every overrun limit   *)
(* and every number of lost or late frames.                                *)
(***************************************************************************)
EXTENDS Session, PlanProofs

-----------------------------------------------------------------------------
(* The programs                                                            *)

SetupCommands == [cmd : {"write"}, write : Writes]
                   \cup [cmd : {"ping", "clear_error", "set_zero", "enable"}, write : {NoWrite}]

\* A setup ends with its only enable, and writes no parameter twice.
Proper(s) ==
  /\ s \in Seq(SetupCommands)
  /\ \A i \in 1 .. Len(s) : s[i].cmd = "enable" <=> i = Len(s)
  /\ \A i, j \in 1 .. Len(s) :
       i # j /\ s[i].cmd = "write" /\ s[j].cmd = "write" => s[i].write.param # s[j].write.param

\* It writes the run mode that the reference it streams belongs to.
SetsModeFor(s, reference) ==
  \E i \in 1 .. Len(s), mode \in Modes :
    /\ s[i] = [cmd |-> "write", write |-> Write("RUN_MODE", mode)]
    /\ ReferenceOf[mode] = reference

LEMMA ConcatShape ==
  ASSUME NEW S, NEW a \in Seq(S), NEW b \in Seq(S)
  PROVE  /\ a \o b \in Seq(S) /\ Len(a) \in Nat /\ Len(b) \in Nat
         /\ Len(a \o b) = Len(a) + Len(b)
         /\ \A i \in 1 .. Len(a) : (a \o b)[i] = a[i]
         /\ \A i \in 1 .. Len(b) : \A n : n = Len(a) + i => (a \o b)[n] = b[i]
<1>1. Len(a) \in Nat /\ Len(b) \in Nat
  BY LenProperties
<1>2. /\ a \o b \in Seq(S) /\ Len(a \o b) = Len(a) + Len(b)
      /\ \A i \in 1 .. Len(a) + Len(b) : (a \o b)[i] = IF i <= Len(a) THEN a[i] ELSE b[i - Len(a)]
  BY ConcatProperties
<1> QED
  BY <1>1, <1>2

\* What comes first, the writes, and the enable.
LEMMA ProperParts ==
  ASSUME NEW a \in Seq(SetupCommands), \A i \in 1 .. Len(a) : a[i].cmd \notin {"write", "enable"},
         NEW b \in Seq(SetupCommands), \A i \in 1 .. Len(b) : b[i].cmd = "write",
         \A i, j \in 1 .. Len(b) : i # j => b[i].write.param # b[j].write.param
  PROVE  LET s == a \o b \o <<Sync("enable")>>
         IN  /\ Proper(s) /\ Len(s) = Len(a) + Len(b) + 1
             /\ \A i \in 1 .. Len(b) : s[Len(a) + i] = b[i]
<1> DEFINE e == <<Sync("enable")>>
           f == a \o b
           s == f \o e
           k == Len(a)
           n == Len(b)
<1>1. e \in Seq(SetupCommands) /\ Len(e) = 1 /\ e[1].cmd = "enable"
  BY DEF Sync, SetupCommands, NoWrite, Write
<1>2. /\ f \in Seq(SetupCommands) /\ k \in Nat /\ n \in Nat /\ Len(f) = k + n
      /\ \A i \in 1 .. k : f[i] = a[i]
      /\ \A i \in 1 .. n : \A m : m = k + i => f[m] = b[i]
  BY ConcatShape
<1> HIDE DEF e, f, k, n
<1>3. /\ s \in Seq(SetupCommands) /\ Len(s) = k + n + 1
      /\ \A i \in 1 .. k + n : s[i] = f[i]
      /\ s[k + n + 1] = e[1]
  <2>1. /\ s \in Seq(SetupCommands) /\ Len(s) = Len(f) + Len(e)
        /\ \A i \in 1 .. Len(f) : s[i] = f[i]
        /\ \A i \in 1 .. Len(e) : \A m : m = Len(f) + i => s[m] = e[i]
    <3>1. f \in Seq(SetupCommands) /\ e \in Seq(SetupCommands)
      BY <1>1, <1>2
    <3> QED
      BY <3>1, ConcatShape
  <2> HIDE DEF s
  <2> QED
    BY <1>1, <1>2, <2>1
<1> HIDE DEF s
<1>4. ASSUME NEW i \in 1 .. k + n + 1
      PROVE  \/ i \in 1 .. k /\ s[i] = a[i]
             \/ i - k \in 1 .. n /\ s[i] = b[i - k]
             \/ i = k + n + 1 /\ s[i] = e[1]
  <2>1. \/ i \in 1 .. k /\ i \in 1 .. k + n
        \/ i - k \in 1 .. n /\ i = k + (i - k) /\ i \in 1 .. k + n
        \/ i = k + n + 1
    BY <1>2
  <2> QED
    BY <1>2, <1>3, <2>1, Zenon
<1>5. ASSUME NEW i \in 1 .. k + n + 1
      PROVE  /\ s[i].cmd = "enable" <=> i = k + n + 1
             /\ s[i].cmd = "write" => i - k \in 1 .. n /\ s[i] = b[i - k]
  <2>1. CASE i \in 1 .. k /\ s[i] = a[i]
    <3>1. s[i].cmd \notin {"write", "enable"} /\ i # k + n + 1
      BY <1>2, <2>1 DEF k
    <3> QED
      BY <3>1
  <2>2. CASE i - k \in 1 .. n /\ s[i] = b[i - k]
    <3>1. s[i].cmd = "write" /\ i # k + n + 1
      BY <1>2, <2>2 DEF n
    <3> QED
      BY <2>2, <3>1
  <2>3. CASE i = k + n + 1 /\ s[i] = e[1]
    BY <1>1, <2>3
  <2> QED
    BY <1>4, <2>1, <2>2, <2>3
<1>6. ASSUME NEW i \in 1 .. k + n + 1, NEW j \in 1 .. k + n + 1,
             i # j, s[i].cmd = "write", s[j].cmd = "write"
      PROVE  s[i].write.param # s[j].write.param
  <2>1. /\ i - k \in 1 .. n /\ s[i] = b[i - k] /\ j - k \in 1 .. n /\ s[j] = b[j - k]
    BY <1>5, <1>6
  <2>2. i - k # j - k
    BY <1>2, <1>6
  <2> QED
    BY <2>1, <2>2 DEF n
<1>7. \A i \in 1 .. n : s[k + i] = b[i]
  <2>1. \A i \in 1 .. n : k + i \in 1 .. k + n
    BY <1>2
  <2> QED
    BY <1>2, <1>3, <2>1, Zenon
<1>8. Proper(s)
  BY <1>3, <1>5, <1>6 DEF Proper
<1> QED
  BY <1>3, <1>7, <1>8 DEF s, f, e, k, n

LEMMA IdentifyShape ==
  /\ Identify \in Seq(SetupCommands) /\ Len(Identify) = 3
  /\ \A i \in 1 .. Len(Identify) : Identify[i].cmd \notin {"write", "enable"}
<1> DEFINE a == Sync("ping")
           b == Sync("clear_error")
           c == Sync("set_zero")
<1>1. /\ a \in SetupCommands /\ b \in SetupCommands /\ c \in SetupCommands
      /\ a.cmd = "ping" /\ b.cmd = "clear_error" /\ c.cmd = "set_zero"
  BY DEF Sync, SetupCommands, NoWrite, Write
<1>2. Identify = <<a, b, c>>
  BY DEF Identify
<1> HIDE DEF a, b, c
<1>3. Identify \in Seq(SetupCommands) /\ Len(Identify) = 3
  BY <1>1, <1>2
<1>4. Identify[1] = a /\ Identify[2] = b /\ Identify[3] = c
  BY <1>2
<1>5. \A i \in 1 .. 3 : Identify[i].cmd \notin {"write", "enable"}
  BY <1>1, <1>4
<1> QED
  BY <1>3, <1>5

\* A private setup is proper and writes the run mode.
LEMMA PrivateShape ==
  ASSUME NEW mode \in Modes, NEW limits \in [1 .. 3 -> Int], NEW reference,
         ReferenceOf[mode] = reference
  PROVE  LET s == PrivateSetup(mode, limits)
         IN  Proper(s) /\ s # <<>> /\ SetsModeFor(s, reference)
<1> DEFINE call == [mode |-> mode, limits |-> limits]
           plan == Plan(call)
           b == ModeCommands(mode, limits)
           s == PrivateSetup(mode, limits)
<1>1. /\ plan \in Seq(Writes) /\ Len(plan) \in 1 .. 4 /\ Distinct(plan)
      /\ plan[1] = Write("RUN_MODE", mode)
  <2>1. call.mode = mode /\ call.limits = limits /\ mode \in AllModes /\ mode # "STOP_PP"
    BY DEF AllModes, Modes
  <2> QED
    BY <2>1, PlanWrites
<1>2. DOMAIN plan = 1 .. Len(plan) /\ \A i \in 1 .. Len(plan) : plan[i] \in Writes
  BY <1>1, LenProperties, ElementOfSeq
<1>3. b = [i \in 1 .. Len(plan) |-> [cmd |-> "write", write |-> plan[i]]]
  BY <1>2, Zenon DEF ModeCommands
<1> HIDE DEF plan, call, b
<1>4. \A i \in 1 .. Len(plan) : [cmd |-> "write", write |-> plan[i]] \in SetupCommands
  BY <1>2 DEF SetupCommands
<1>5. /\ b \in Seq(SetupCommands) /\ Len(b) = Len(plan)
      /\ \A i \in 1 .. Len(b) : b[i] = [cmd |-> "write", write |-> plan[i]]
  BY <1>1, <1>3, <1>4, IsASeq
<1> DEFINE w(i) == [cmd |-> "write", write |-> plan[i]]
<1>6. /\ \A i \in 1 .. Len(b) : b[i].cmd = "write"
      /\ \A i, j \in 1 .. Len(b) : i # j => b[i].write.param # b[j].write.param
  <2>1. \A i \in 1 .. Len(b) : b[i] = w(i) /\ i \in 1 .. Len(plan)
    BY <1>5
  <2>2. \A i : w(i).cmd = "write" /\ w(i).write = plan[i]
    OBVIOUS
  <2>3. \A i, j \in 1 .. Len(plan) : i # j => plan[i].param # plan[j].param
    BY <1>1 DEF Distinct
  <2> HIDE DEF w
  <2>4. \A i \in 1 .. Len(b) : b[i].cmd = "write" /\ b[i].write = plan[i] /\ i \in 1 .. Len(plan)
    BY <2>1, <2>2
  <2> QED
    <3>1. ASSUME NEW i \in 1 .. Len(b), NEW j \in 1 .. Len(b), i # j
          PROVE  b[i].write.param # b[j].write.param
      <4>1. plan[i].param # plan[j].param /\ b[i].write = plan[i] /\ b[j].write = plan[j]
        BY <2>3, <2>4, <3>1
      <4> QED
        BY <4>1, Zenon
    <3> QED
      BY <2>4, <3>1, Zenon
<1> HIDE DEF w
<1>7. s = Identify \o b \o <<Sync("enable")>>
  BY DEF PrivateSetup, b
<1> HIDE DEF s
<1>8. /\ Proper(s) /\ Len(s) = 3 + Len(b) + 1
      /\ \A i \in 1 .. Len(b) : s[3 + i] = b[i]
  <2>1. /\ Proper(Identify \o b \o <<Sync("enable")>>)
        /\ Len(Identify \o b \o <<Sync("enable")>>) = Len(Identify) + Len(b) + 1
        /\ \A i \in 1 .. Len(b) : (Identify \o b \o <<Sync("enable")>>)[Len(Identify) + i] = b[i]
    BY <1>5, <1>6, IdentifyShape, ProperParts, Zenon
  <2> QED
    BY <1>7, <2>1, IdentifyShape, Zenon
<1>9. s[4] = [cmd |-> "write", write |-> Write("RUN_MODE", mode)] /\ 4 \in 1 .. Len(s)
  <2>1. 1 \in 1 .. Len(b) /\ 3 + 1 = 4 /\ 4 \in 1 .. Len(s)
    BY <1>1, <1>5, <1>8
  <2>2. s[4] = b[1] /\ b[1] = [cmd |-> "write", write |-> plan[1]]
    BY <1>5, <1>8, <2>1
  <2> QED
    BY <1>1, <2>1, <2>2
<1>10. s # <<>>
  BY <1>9
<1> QED
  BY <1>8, <1>9, <1>10 DEF s, SetsModeFor

LEMMA MitShape ==
  /\ Proper(<<Sync("enable")>>) /\ <<Sync("enable")>> # <<>>
  /\ Proper(Identify \o <<Sync("enable")>>) /\ Identify \o <<Sync("enable")>> # <<>>
<1> DEFINE e == <<Sync("enable")>>
           none == <<>>
<1>1. /\ none \in Seq(SetupCommands) /\ Len(none) = 0
      /\ \A i \in 1 .. Len(none) : none[i].cmd \notin {"write", "enable"}
      /\ \A i \in 1 .. Len(none) : none[i].cmd = "write"
      /\ \A i, j \in 1 .. Len(none) : i # j => none[i].write.param # none[j].write.param
  OBVIOUS
<1>2. e \in Seq(SetupCommands)
  BY DEF Sync, SetupCommands, NoWrite, Write
<1>3. none \o none = none /\ none \o e = e /\ Identify \o none = Identify
  BY <1>1, <1>2, IdentifyShape, ConcatEmptySeq
<1>4. Proper(none \o none \o e)
  BY <1>1, ProperParts
<1>5. Proper(Identify \o none \o e)
  <2> HIDE DEF none
  <2> QED
    BY <1>1, IdentifyShape, ProperParts, Zenon
<1>6. e # <<>> /\ Identify \o e # <<>>
  BY <1>2, IdentifyShape, ConcatProperties
<1> HIDE DEF none
<1> QED
  BY <1>3, <1>4, <1>5, <1>6, Zenon

\* What the proofs use of a program.
Regular(p) ==
  /\ p.motors \in {<<5>>, <<5, 6>>} /\ Proper(p.setup)
  /\ p.loop \in {"control", "benchmark"}
  /\ p.loop = "benchmark" <=> p.setup = <<>>
  /\ p.loop = "control" /\ p.protocol = "PRIVATE" => SetsModeFor(p.setup, p.reference)

LEMMA PrivateRegular ==
  ASSUME NEW mode \in Modes, NEW limits \in [1 .. 3 -> Int], NEW reference,
         ReferenceOf[mode] = reference
  PROVE  Regular(PrivateExample(mode, limits, reference))
BY PrivateShape DEF PrivateExample, Regular

LEMMA MitRegular ==
  ASSUME NEW s, Proper(s), s # <<>>
  PROVE  Regular(MitExample(s))
BY DEF MitExample, Regular

\* Every program under src/examples/cpp is regular.
LEMMA ProgramsRegular == \A p \in AllPrograms : Regular(p)
<1>1. /\ <<10, 0, 0>> \in [1 .. 3 -> Int] /\ NoLimits \in [1 .. 3 -> Int]
      /\ <<10, 5, 5>> \in [1 .. 3 -> Int] /\ <<10, 50, 0>> \in [1 .. 3 -> Int]
  BY DEF NoLimits
<1>2. /\ "POSITION" \in Modes /\ "POSITION_CSP" \in Modes /\ "SPEED" \in Modes
      /\ "CURRENT" \in Modes /\ "OPERATION" \in Modes
      /\ ReferenceOf["POSITION"] = "LOC_REF" /\ ReferenceOf["POSITION_CSP"] = "LOC_REF"
      /\ ReferenceOf["SPEED"] = "SPD_REF" /\ ReferenceOf["CURRENT"] = "IQ_REF"
      /\ ReferenceOf["OPERATION"] = "CONTROL"
  BY DEF Modes, ReferenceOf
<1>3. /\ Regular(private_example_csp) /\ Regular(private_example_current)
      /\ Regular(private_example_operation) /\ Regular(private_example_position)
      /\ Regular(private_example_velocity)
  BY <1>1, <1>2, PrivateRegular
     DEF private_example_csp, private_example_current, private_example_operation,
         private_example_position, private_example_velocity
<1>4. Regular(private_example_operation_serial)
  BY <1>3 DEF private_example_operation_serial, private_example_operation, PrivateExample, Regular
<1>5. /\ Regular(mit_example_operation) /\ Regular(mit_example_csp) /\ Regular(mit_example_current)
      /\ Regular(mit_example_position) /\ Regular(mit_example_velocity)
  BY MitShape, MitRegular, Zenon
     DEF mit_example_operation, mit_example_csp, mit_example_current, mit_example_position,
         mit_example_velocity
<1>6. Regular(example_benchmark)
  <2>1. Proper(<<>>)
    BY DEF Proper
  <2> QED
    BY <2>1 DEF example_benchmark, Regular
<1> QED
  BY <1>3, <1>4, <1>5, <1>6, Zenon DEF AllPrograms

-----------------------------------------------------------------------------
(* The overrun counter                                                     *)

\* CounterJustified on its own is not inductive: it also takes that the counter of a
\* motor never leaves 0 .. OverrunLimit.
CounterInv ==
  /\ unacked \in [Motors -> 0 .. OverrunLimit]
  /\ unanswered \in [Motors -> Nat]
  /\ CounterJustified

\* The clamped decrement stays in range, and is never larger than an exact one.
LEMMA AnsweredBounds ==
  ASSUME NEW n \in Nat, NEW k \in 0 .. n
  PROVE  /\ Answered(k) \in 0 .. n
         /\ \A j \in Nat : k <= j => /\ Answered(k) <= j
                                     /\ Answered(k) <= IF j > 0 THEN j - 1 ELSE 0
BY DEF Answered

\* A control call counts one frame, or saturates the counter where it already is.
LEMMA ControlStep == CounterInv /\ Control => CounterInv'
<1> SUFFICES ASSUME CounterInv, Control PROVE CounterInv'
  OBVIOUS
<1>0. OverrunLimit \in Nat
  BY SessionAssumption
<1>1. CASE ~Connected
  BY <1>1 DEF Control, CounterInv, CounterJustified, history
<1>2. CASE Connected /\ unacked[Addressed] + 1 > OverrunLimit
  <2>1. unacked' = [unacked EXCEPT ![Addressed] = OverrunLimit] /\ UNCHANGED unanswered
    BY <1>2 DEF Control, history
  <2>2. unacked' = unacked
    <3>1. CASE Addressed \in Motors
      <4>1. unacked[Addressed] = OverrunLimit
        BY <1>0, <1>2, <3>1 DEF CounterInv
      <4> QED
        BY <2>1, <4>1 DEF CounterInv
    <3>2. CASE Addressed \notin Motors
      BY <2>1, <3>2 DEF CounterInv
    <3> QED
      BY <3>1, <3>2
  <2> QED
    BY <2>1, <2>2 DEF CounterInv, CounterJustified
<1>3. CASE Connected /\ ~(unacked[Addressed] + 1 > OverrunLimit)
  <2> DEFINE m == Addressed
  <2>1. /\ unacked' = [unacked EXCEPT ![m] = @ + 1]
        /\ unanswered' = [unanswered EXCEPT ![m] = IF @ <= OverrunLimit THEN @ + 1 ELSE @]
    BY <1>3 DEF Control, CountUnanswered
  <2> HIDE DEF m
  <2>2. m \in Motors => unacked[m] + 1 <= OverrunLimit
    BY <1>0, <1>3 DEF m, CounterInv
  <2>3. \A d \in Motors :
          /\ unacked[d] \in 0 .. OverrunLimit /\ unanswered[d] \in Nat
          /\ unacked[d] <= unanswered[d]
          /\ unacked'[d] = IF d = m THEN unacked[d] + 1 ELSE unacked[d]
          /\ unanswered'[d] = IF d = m /\ unanswered[d] <= OverrunLimit
                                THEN unanswered[d] + 1 ELSE unanswered[d]
    BY <2>1 DEF CounterInv, CounterJustified
  <2>4. \A d \in Motors : /\ unacked'[d] \in 0 .. OverrunLimit /\ unanswered'[d] \in Nat
                          /\ unacked'[d] <= unanswered'[d]
    BY <1>0, <2>2, <2>3
  <2>5. /\ unacked' = [d \in Motors |-> unacked'[d]]
        /\ unanswered' = [d \in Motors |-> unanswered'[d]]
    BY <2>1 DEF CounterInv
  <2> QED
    BY <2>4, <2>5 DEF CounterInv, CounterJustified
<1> QED
  BY <1>1, <1>2, <1>3

\* Every frame lowers the counter, a reply to a control call also what it stands for.
LEMMA FrameStep == CounterInv /\ RxFrame => CounterInv'
<1> SUFFICES ASSUME CounterInv, RxFrame PROVE CounterInv'
  OBVIOUS
<1> DEFINE m == Head(fromMotors).motor
<1>0. OverrunLimit \in Nat
  BY SessionAssumption
<1>1. /\ unacked' = [unacked EXCEPT ![m] = Answered(@)]
      /\ \/ unanswered' = unanswered
         \/ unanswered' = [unanswered EXCEPT ![m] = IF @ > 0 THEN @ - 1 ELSE 0]
  BY DEF RxFrame
<1> HIDE DEF m
<1>2. \A d \in Motors : /\ unacked[d] \in 0 .. OverrunLimit /\ unanswered[d] \in Nat
                        /\ unacked[d] <= unanswered[d]
  BY DEF CounterInv, CounterJustified
<1>3. \A d \in Motors :
        /\ Answered(unacked[d]) \in 0 .. OverrunLimit
        /\ Answered(unacked[d]) <= unanswered[d]
        /\ Answered(unacked[d]) <= IF unanswered[d] > 0 THEN unanswered[d] - 1 ELSE 0
  BY <1>0, <1>2, AnsweredBounds
<1>4. \A d \in Motors :
        /\ unacked'[d] = IF d = m THEN Answered(unacked[d]) ELSE unacked[d]
        /\ \/ unanswered'[d] = unanswered[d]
           \/ d = m /\ unanswered'[d] = IF unanswered[d] > 0 THEN unanswered[d] - 1 ELSE 0
  BY <1>1 DEF CounterInv
<1>5. unacked' \in [Motors -> 0 .. OverrunLimit] /\ unanswered' \in [Motors -> Nat]
  <2>1. \A d \in Motors : unacked'[d] \in 0 .. OverrunLimit /\ unanswered'[d] \in Nat
    BY <1>0, <1>2, <1>3, <1>4
  <2>2. /\ unacked' = [d \in Motors |-> unacked'[d]]
        /\ unanswered' = [d \in Motors |-> unanswered'[d]]
    BY <1>1 DEF CounterInv
  <2> QED
    BY <2>1, <2>2
<1>6. \A d \in Motors : unacked'[d] <= unanswered'[d]
  BY <1>0, <1>2, <1>3, <1>4
<1> QED
  BY <1>5, <1>6 DEF CounterInv, CounterJustified

\* Nothing else touches either count.
LEMMA ElsewhereStep ==
  [Next]_vars /\ ~Control /\ ~RxFrame => UNCHANGED <<unacked, unanswered>>
BY DEF Next, MainStep, Connect, Issue, Acknowledged, Expires, Loop, Close, Join, Interrupt,
       RxStep, RxEnter, RxCall, RxTimeout, RxFails, RxUnchanged, Bus, MotorAnswers,
       LoseRequest, LoseReply, InterfaceDown, Ended, vars, history

LEMMA CounterStep == CounterInv /\ [Next]_vars => CounterInv'
<1>1. CounterInv /\ UNCHANGED <<unacked, unanswered>> => CounterInv'
  BY DEF CounterInv, CounterJustified
<1> QED
  BY <1>1, ControlStep, FrameStep, ElsewhereStep

\* In every program the overrun counter of a motor never exceeds the control frames that
\* motor really has not answered, whatever is lost, late or answered by another motor.
THEOREM CounterIsJustified == Spec => []CounterJustified
<1>1. Init => CounterInv
  BY SessionAssumption DEF Init, CounterInv, CounterJustified
<1>2. CounterInv /\ [Next]_vars => CounterInv'
  BY CounterStep
<1>3. CounterInv => CounterJustified
  BY DEF CounterInv
<1> QED
  BY <1>1, <1>2, <1>3, PTL DEF Spec

-----------------------------------------------------------------------------
(* The inductive invariant                                                 *)

\* What the main thread ever puts on the bus, and what motors reply.
Requests == {Frame(m, program.setup[i]) : m \in Motors, i \in DOMAIN program.setup}
              \cup {Frame(m, Streamed) : m \in Motors}
              \cup {Frame(m, Sync(cmd)) : m \in Motors, cmd \in {"stop", "ping"}}

Replies == [motor : Motors, type : AwaitedTypes, control : BOOLEAN]

Waits == {"setup", "overrun", "stop", "ping"}

\* Where main() can be, what it waits for, and what is on the bus.
Places ==
  /\ at = "setup" => step \in 1 .. Len(program.setup)
  /\ waiting => at \in Waits
  /\ at = "setup" /\ waiting => program.setup[step].cmd # "write"
  /\ at \in {"loop", "stop", "unlink", "close"} => program.loop = "control"
  /\ at = "ping" => program.loop = "benchmark"
  /\ DOMAIN ram = Motors /\ \A m \in Motors : DOMAIN ram[m] = Params
  /\ toMotors \in Seq(Requests) /\ fromMotors \in Seq(Replies)

IsFor(i, m, cmd) == toMotors[i].motor = m /\ toMotors[i].cmd = cmd

Idle(m) == motorState[m] = "RESET" /\ \A i \in DOMAIN toMotors : ~IsFor(i, m, "enable")

\* enable() of a motor may have been sent.
Reached(m) ==
  /\ program.setup # <<>>
  /\ \E k \in DOMAIN program.motors :
       /\ program.motors[k] = m
       /\ \/ at \notin {"start", "setup"}
          \/ at = "setup" /\ k < motor
          \/ at = "setup" /\ k = motor /\ waiting /\ step = Len(program.setup)

\* No motor is enabled, or about to be, before its setup has come to that.
IdleBefore == \A m \in Motors : Idle(m) \/ Reached(m)

IsWrite(i) == i \in DOMAIN program.setup /\ program.setup[i].cmd = "write"

\* Write number i of the setup has been obeyed or lost.
Done(m, i) ==
  \/ ram[m][program.setup[i].write.param] = program.setup[i].write.value
  \/ Frame(m, program.setup[i]) \in lost

\* It will have been once the next n requests have left the queue.
DoneAfter(m, i, n) == Done(m, i) \/ \E r \in 1 .. n : toMotors[r] = Frame(m, program.setup[i])

\* Every write of a setup is ahead of the enable.
WritesFirst ==
  \A m \in Motors, i \in DOMAIN program.setup : IsWrite(i) =>
    /\ motorState[m] = "RUN" => Done(m, i)
    /\ \A q \in DOMAIN toMotors : IsFor(q, m, "enable") => DoneAfter(m, i, q - 1)
    /\ at = "setup" /\ m = Addressed /\ i < step => DoneAfter(m, i, Len(toMotors))

EnableLost(m) == \E f \in lost : f.motor = m /\ f.cmd = "enable"

\* Once the next n requests have left the queue the motor runs, unless its enable is lost.
PoweredAfter(m, n) ==
  /\ \A r \in 1 .. n : toMotors[r].cmd # "stop"
  /\ motorState[m] = "RUN" \/ EnableLost(m) \/ \E r \in 1 .. n : IsFor(r, m, "enable")

\* Control frames follow the enable, and no stop frame comes between.
ControlLast ==
  program.loop = "control" =>
    /\ at \in {"start", "setup", "loop", "send"}
         => \A r \in DOMAIN toMotors : toMotors[r].cmd # "stop"
    /\ at \in {"start", "setup"} => \A r \in DOMAIN toMotors : toMotors[r].cmd # "control"
    /\ at \in {"setup", "loop", "send"}
         => \A m \in Motors : Reached(m) => PoweredAfter(m, Len(toMotors))
    /\ \A q \in DOMAIN toMotors :
         toMotors[q].cmd = "control" => PoweredAfter(toMotors[q].motor, q - 1)

\* Between connect() and disconnect() the link is up as long as its medium is.
Unlinked == {"start", "unlink", "close", "join", "exited"}

Linked == medium /\ at \notin Unlinked => fd /\ Connected

StopFrame(m) == Frame(m, Sync("stop"))

StopIssued(m) ==
  \E k \in DOMAIN program.motors :
    /\ program.motors[k] = m
    /\ \/ at \in {"unlink", "close", "join", "exited"}
       \/ at = "stop" /\ k < motor
       \/ at = "stop" /\ k = motor /\ waiting

\* Once the queue is empty the motor is stopped.
WillStop(m) == \/ Idle(m)
               \/ \E q \in DOMAIN toMotors :
                    /\ toMotors[q] = StopFrame(m)
                    /\ \A r \in DOMAIN toMotors : r > q => ~IsFor(r, m, "enable")

\* When main() is done with a motor that is so, with the known exceptions.
AllStopped ==
  code = 0 /\ medium /\ program.loop = "control" =>
    \A m \in Motors : StopIssued(m) => m \in refused \/ StopFrame(m) \in lost \/ WillStop(m)

LEMMA ProgramFacts ==
  ASSUME TypeOK
  PROVE  /\ Regular(program) /\ program.motors \in {<<5>>, <<5, 6>>}
         /\ DOMAIN program.motors = 1 .. Len(program.motors) /\ Len(program.motors) \in {1, 2}
         /\ motor \in 1 .. Len(program.motors) /\ Addressed \in Motors
         /\ \A k, l \in DOMAIN program.motors : program.motors[k] = program.motors[l] => k = l
         /\ program.setup \in Seq(SetupCommands) /\ Len(program.setup) \in Nat
         /\ DOMAIN program.setup = 1 .. Len(program.setup)
         /\ step \in Nat /\ at \in Phases /\ waiting \in BOOLEAN /\ code \in {0, 1}
<1>1. Regular(program)
  BY ProgramsRegular, SessionAssumption DEF TypeOK
<1>2. program.motors \in {<<5>>, <<5, 6>>} /\ program.setup \in Seq(SetupCommands)
  BY <1>1 DEF Regular, Proper
<1>3. /\ Len(program.setup) \in Nat /\ DOMAIN program.setup = 1 .. Len(program.setup)
  BY <1>2, LenProperties
<1>4. /\ DOMAIN program.motors = 1 .. Len(program.motors) /\ Len(program.motors) \in {1, 2}
      /\ \A k, l \in DOMAIN program.motors : program.motors[k] = program.motors[l] => k = l
      /\ \A k \in DOMAIN program.motors : program.motors[k] \in Motors
  BY <1>2 DEF Motors
<1> QED
  BY <1>1, <1>2, <1>3, <1>4 DEF TypeOK, Addressed

-----------------------------------------------------------------------------
(* The kinds of step                                                       *)

\* A request leaves the queue: it is obeyed, or lost.
Popped ==
  /\ toMotors # <<>> /\ toMotors' = Tail(toMotors)
  /\ UNCHANGED <<program, mainVars, refused, transportVars>>
  /\ \/ Obey(Head(toMotors)) /\ lost \subseteq lost'
     \/ UNCHANGED deviceVars /\ lost' = lost \cup {Recorded(Head(toMotors))}

Sent(request) ==
  /\ toMotors' = Append(toMotors, request)
  /\ lost' = lost \ {request} /\ refused' = refused \ {request.motor}
  /\ UNCHANGED <<program, deviceVars, transportVars>>

Issued ==
  /\ at \in Waits /\ ~waiting
  /\ Sent(Frame(Addressed, Command))
  /\ \/ Command.cmd = "write" /\ Continue(TRUE)
     \/ Command.cmd # "write" /\ waiting' = TRUE /\ UNCHANGED <<at, motor, step, code>>

Streams == at = "send" /\ Sent(Frame(Addressed, Streamed)) /\ AfterControl(TRUE)

\* main() goes on without sending, ...
Hop ==
  \/ UNCHANGED mainVars
  \/ /\ at = "start" /\ UNCHANGED waiting
     /\ \/ Goto(IF program.setup = <<>> THEN "send" ELSE "setup", 1, 1) /\ UNCHANGED code
           /\ medium
        \/ at' = "exited" /\ code' = 1 /\ UNCHANGED <<motor, step>>
  \/ at \in Waits /\ waiting /\ \E ok \in BOOLEAN : Continue(ok)
  \/ /\ at \in Waits /\ Continue(FALSE)
     /\ ~Connected \/ (at = "stop" => Addressed \in refused')
  \/ /\ at = "loop" /\ UNCHANGED <<waiting, code>>
     /\ Goto("send", 1, 1) \/ Goto("stop", 1, 1)
  \/ at = "send" /\ AfterControl(FALSE)
  \/ at = "send" /\ Goto("overrun", motor, step) /\ UNCHANGED <<waiting, code>>
  \/ /\ UNCHANGED <<motor, step, waiting, code>>
     /\ <<at, at'>> \in {<<"unlink", "close">>, <<"close", "join">>, <<"join", "exited">>}

\* ... and the bus stays as it is.
Hops == /\ Hop
        /\ UNCHANGED <<program, toMotors, deviceVars, lost>>
        /\ refused \subseteq refused' /\ (medium' => medium)

LEMMA StepKinds == Places /\ [Next]_vars => Popped \/ Issued \/ Streams \/ Hops
<1> SUFFICES ASSUME Places, [Next]_vars PROVE Popped \/ Issued \/ Streams \/ Hops
  OBVIOUS
<1>1. CASE Bus
  BY <1>1 DEF Bus, MotorAnswers, LoseRequest, LoseReply, Popped, history
<1>2. CASE Connect
  BY <1>2 DEF Connect, Opens, OpenFails, Hops, Hop, busVars, history, transportVars
<1>3. CASE Issue
  <2>1. CASE ~Connected
    BY <1>3, <2>1 DEF Issue, Hops, Hop, Waits, busVars, transportVars
  <2>2. CASE /\ Sends(Frame(Addressed, Command))
             /\ IF Command.cmd = "write" THEN Continue(TRUE)
                                         ELSE waiting' = TRUE /\ UNCHANGED <<at, motor, step, code>>
    BY <1>3, <2>2 DEF Issue, Issued, Sends, Sent, Transmits, Waits
  <2>3. CASE Connected /\ SendFails(Frame(Addressed, Command)) /\ Continue(FALSE)
    <3>1. UNCHANGED medium /\ UNCHANGED busVars /\ UNCHANGED lost
      BY <2>3 DEF SendFails, TransmitFails, transportVars
    <3>2. refused \subseteq refused' /\ (at = "stop" => Addressed \in refused')
      BY <2>3 DEF SendFails, Frame, Command, Sync
    <3> QED
      BY <1>3, <2>3, <3>1, <3>2 DEF Issue, Hops, Hop, Waits, busVars
  <2> QED
    BY <1>3, <2>1, <2>2, <2>3 DEF Issue
<1>4. CASE Acknowledged \/ Expires
  BY <1>4 DEF Acknowledged, Expires, Hops, Hop, Places, busVars, history, transportVars
<1>5. CASE Loop
  BY <1>5 DEF Loop, Hops, Hop, busVars, history, transportVars, Goto
<1>6. CASE Control
  <2>1. CASE ~Connected
    BY <1>6, <2>1 DEF Control, Hops, Hop, busVars, history, transportVars
  <2>2. CASE Goto("overrun", motor, step) /\ UNCHANGED <<waiting, code, transportVars, busVars, history>>
    BY <1>6, <2>2 DEF Control, Hops, Hop, busVars, history, transportVars
  <2>3. CASE Sends(Frame(Addressed, Streamed)) /\ AfterControl(TRUE)
    BY <1>6, <2>3 DEF Control, Streams, Sends, Sent, Transmits
  <2>4. CASE SendFails(Frame(Addressed, Streamed)) /\ AfterControl(FALSE)
    <3>1. UNCHANGED medium /\ UNCHANGED busVars /\ UNCHANGED lost
      BY <2>4 DEF SendFails, TransmitFails, transportVars
    <3>2. refused \subseteq refused'
      BY <2>4 DEF SendFails
    <3> QED
      BY <1>6, <2>4, <3>1, <3>2 DEF Control, Hops, Hop, busVars
  <2> QED
    BY <1>6, <2>1, <2>2, <2>3, <2>4 DEF Control
<1>7. CASE Close \/ Join
  BY <1>7 DEF Close, Join, Unlink, CloseFd, Hops, Hop, busVars, history, transportVars
<1>8. CASE RxStep
  BY <1>8 DEF RxStep, RxEnter, RxCall, RxFrame, RxTimeout, RxFails, RxUnchanged, ReadFails,
              Hops, Hop, transportVars
<1>9. CASE Interrupt \/ InterfaceDown \/ Ended \/ UNCHANGED vars
  BY <1>9 DEF Interrupt, InterfaceDown, MediumDown, Ended, Hops, Hop, vars, busVars, history,
              transportVars
<1> QED
  BY <1>1, <1>2, <1>3, <1>4, <1>5, <1>6, <1>7, <1>8, <1>9 DEF Next, MainStep

\* Where a command may leave main().
Outcome(ok) ==
  LET n == Len(program.setup)
      k == Len(program.motors)
  IN  \/ at = "setup" /\ ~ok /\ Goto("unlink", 1, 1) /\ code' = 1
      \/ at = "setup" /\ ok /\ step < n /\ Goto("setup", motor, step + 1) /\ code' = code
      \/ at = "setup" /\ ok /\ step = n /\ motor < k /\ Goto("setup", motor + 1, 1) /\ code' = code
      \/ at = "setup" /\ ok /\ step = n /\ motor = k /\ Goto("loop", 1, 1) /\ code' = code
      \/ at = "stop" /\ motor < k /\ Goto("stop", motor + 1, 1) /\ code' = code
      \/ at = "stop" /\ motor = k /\ Goto("unlink", 1, 1) /\ code' = code
      \/ at = "overrun" /\ program.loop = "control" /\ Goto("stop", 1, 1) /\ code' = code
      \/ /\ at \in {"overrun", "ping"} /\ program.loop = "benchmark" /\ code' = code
         /\ at' \in {"send", "ping", "join"} /\ motor' = 1 /\ step' \in Nat

LEMMA ContinueGoes ==
  ASSUME TypeOK, Places, at \in Waits, NEW ok \in BOOLEAN, Continue(ok)
  PROVE  waiting' = FALSE /\ Outcome(ok) /\ (at = "setup" => program.loop = "control")
<1> DEFINE n == Len(program.setup)
           k == Len(program.motors)
<1>1. /\ n \in Nat /\ k \in {1, 2} /\ step \in Nat /\ motor \in 1 .. k
      /\ program.loop \in {"control", "benchmark"}
      /\ program.setup = <<>> => n = 0
      /\ program.loop = "benchmark" <=> program.setup = <<>>
  BY ProgramFacts DEF Regular
<1>2. waiting' = FALSE
  BY DEF Continue
<1>3. CASE at = "setup"
  <2>1. step \in 1 .. n
    BY <1>3 DEF Places
  <2>2. AfterSetup(ok)
    BY <1>3 DEF Continue
  <2>3. program.loop = "control"
    BY <1>1, <2>1
  <2>4. CASE ok = FALSE
    BY <1>2, <1>3, <2>2, <2>3, <2>4 DEF AfterSetup, Outcome, Goto
  <2>5. CASE ok = TRUE /\ step < n
    BY <1>2, <1>3, <2>2, <2>3, <2>5 DEF AfterSetup, Outcome, Goto
  <2>6. CASE ok = TRUE /\ step = n /\ motor < k
    BY <1>1, <1>2, <1>3, <2>2, <2>3, <2>6 DEF AfterSetup, NextMotor, Outcome, Goto
  <2>7. CASE ok = TRUE /\ step = n /\ motor = k
    BY <1>1, <1>2, <1>3, <2>2, <2>3, <2>7 DEF AfterSetup, NextMotor, Outcome, Goto
  <2>8. (step < n \/ step = n) /\ (motor < k \/ motor = k)
    BY <1>1, <2>1
  <2> QED
    BY <1>2, <2>3, <2>4, <2>5, <2>6, <2>7, <2>8, Zenon
<1>4. CASE at = "stop"
  <2>1. AfterStop /\ code' = code
    BY <1>4 DEF Continue
  <2> QED
    BY <1>1, <1>2, <1>4, <2>1 DEF AfterStop, NextMotor, Outcome
<1>5. CASE at = "overrun"
  <2>1. code' = code /\ IF program.loop = "control" THEN Goto("stop", 1, 1) ELSE Iterate("send", "ping")
    BY <1>5 DEF Continue
  <2> QED
    BY <1>1, <1>2, <1>5, <2>1 DEF Iterate, Goto, Outcome
<1>6. CASE at = "ping"
  <2>1. code' = code /\ Iterate("ping", "join") /\ program.loop = "benchmark"
    BY <1>6 DEF Continue, Places
  <2> QED
    BY <1>1, <1>2, <1>6, <2>1 DEF Iterate, Goto, Outcome
<1> QED
  BY <1>3, <1>4, <1>5, <1>6 DEF Waits

\* Where a control call may leave it.
LEMMA ControlGoes ==
  ASSUME TypeOK, Places, at = "send", NEW ok \in BOOLEAN, AfterControl(ok)
  PROVE  /\ UNCHANGED <<waiting, code>> /\ waiting = FALSE
         /\ at' \in {"send", "loop", "stop", "ping"}
         /\ at' = "ping" => program.loop = "benchmark"
         /\ at' \in {"loop", "stop"} => program.loop = "control"
         /\ at' = "stop" => motor' = 1
         /\ motor' \in 1 .. Len(program.motors) /\ step' \in Nat
<1>1. /\ Len(program.motors) \in {1, 2} /\ step \in Nat /\ motor \in 1 .. Len(program.motors)
      /\ program.loop \in {"control", "benchmark"} /\ waiting \in BOOLEAN
  BY ProgramFacts DEF Regular
<1>2. waiting = FALSE
  BY <1>1 DEF Places, Waits
<1>3. UNCHANGED <<waiting, code>>
  BY DEF AfterControl
<1>4. CASE program.loop = "benchmark"
  <2>1. Iterate("send", "ping")
    BY <1>4 DEF AfterControl
  <2> QED
    BY <1>1, <1>2, <1>3, <1>4, <2>1 DEF Iterate, Goto
<1>5. CASE program.loop = "control"
  <2>1. Goto("stop", 1, 1) \/ NextMotor("send", "loop")
    BY <1>5 DEF AfterControl
  <2> QED
    BY <1>1, <1>2, <1>3, <1>5, <2>1 DEF NextMotor, Goto
<1> QED
  BY <1>1, <1>4, <1>5

-----------------------------------------------------------------------------
(* Types                                                                   *)

\* Where main() may be, by itself.
MainTypes ==
  /\ program \in Programs
  /\ at \in Phases /\ motor \in DOMAIN program.motors /\ step \in Nat
  /\ waiting \in BOOLEAN /\ code \in {0, 1}
  /\ at = "setup" => step \in 1 .. Len(program.setup)
  /\ waiting => at \in Waits
  /\ at = "setup" /\ waiting => program.setup[step].cmd # "write"
  /\ at \in {"loop", "stop", "unlink", "close"} => program.loop = "control"
  /\ at = "ping" => program.loop = "benchmark"

LEMMA CommandSent ==
  ASSUME TypeOK, Places, at \in Waits
  PROVE  /\ Frame(Addressed, Command) \in Requests
         /\ at = "setup" => Command = program.setup[step] /\ step \in DOMAIN program.setup
         /\ at # "setup" => Command.cmd \in {"stop", "ping"}
         /\ at = "stop" => Command = Sync("stop")
<1>1. Addressed \in Motors /\ DOMAIN program.setup = 1 .. Len(program.setup)
  BY ProgramFacts
<1>2. CASE at = "setup"
  <2>1. Command = program.setup[step] /\ step \in DOMAIN program.setup
    BY <1>1, <1>2 DEF Places, Command
  <2> QED
    BY <1>1, <1>2, <2>1 DEF Requests
<1>3. CASE at # "setup"
  <2>1. /\ Command \in {Sync("stop"), Sync("ping")} /\ (at = "stop" => Command = Sync("stop"))
    BY <1>3 DEF Command
  <2>2. Sync("stop").cmd = "stop" /\ Sync("ping").cmd = "ping"
    BY DEF Sync
  <2> QED
    BY <1>1, <1>3, <2>1, <2>2 DEF Requests
<1> QED
  BY <1>2, <1>3

LEMMA MainTypesStep ==
  ASSUME TypeOK, Places, [Next]_vars
  PROVE  MainTypes'
<1> DEFINE n == Len(program.setup)
           k == Len(program.motors)
<1>1. /\ n \in Nat /\ k \in {1, 2} /\ DOMAIN program.motors = 1 .. k
      /\ motor \in 1 .. k /\ step \in Nat /\ at \in Phases /\ waiting \in BOOLEAN /\ code \in {0, 1}
      /\ program.loop \in {"control", "benchmark"}
      /\ program.loop = "benchmark" <=> program.setup = <<>>
      /\ program.setup # <<>> => n >= 1
  BY ProgramFacts, EmptySeq DEF Regular
<1>2. Popped \/ Issued \/ Streams \/ Hops
  BY StepKinds
<1>3. program' = program /\ program \in Programs
  BY <1>2, ContinueGoes DEF Popped, Issued, Sent, Streams, Hops, TypeOK
<1>4. ASSUME NEW ok \in BOOLEAN, at \in Waits, Continue(ok) PROVE MainTypes'
  <2>1. waiting' = FALSE /\ Outcome(ok) /\ (at = "setup" => program.loop = "control")
    BY <1>4, ContinueGoes
  <2>2. /\ at' \in Phases \ {"close"} /\ motor' \in 1 .. k /\ step' \in Nat /\ code' \in {0, 1}
        /\ at' = "setup" => step' \in 1 .. n
        /\ at' \in {"loop", "stop", "unlink"} => program.loop = "control"
        /\ at' = "ping" => program.loop = "benchmark"
    <3>1. CASE at = "setup"
      <4>1. step \in 1 .. n /\ n >= 1 /\ program.loop = "control"
        BY <2>1, <3>1 DEF Places
      <4> QED
        BY <1>1, <2>1, <3>1, <4>1 DEF Outcome, Goto, Phases
    <3>2. CASE at = "stop"
      <4>1. program.loop = "control"
        BY <3>2 DEF Places
      <4> QED
        BY <1>1, <2>1, <3>2, <4>1 DEF Outcome, Goto, Phases
    <3>3. CASE at \in {"overrun", "ping"}
      BY <1>1, <2>1, <3>3 DEF Outcome, Goto, Phases
    <3> QED
      BY <1>4, <3>1, <3>2, <3>3 DEF Waits
  <2> QED
    BY <1>1, <1>3, <2>1, <2>2 DEF MainTypes
<1>5. ASSUME NEW ok \in BOOLEAN, at = "send", AfterControl(ok) PROVE MainTypes'
  <2>1. /\ UNCHANGED <<waiting, code>> /\ waiting = FALSE
        /\ at' \in {"send", "loop", "stop", "ping"}
        /\ at' = "ping" => program.loop = "benchmark"
        /\ at' \in {"loop", "stop"} => program.loop = "control"
        /\ motor' \in 1 .. Len(program.motors) /\ step' \in Nat
    BY <1>5, ControlGoes
  <2> QED
    BY <1>1, <1>3, <2>1 DEF MainTypes, Phases
<1>6. CASE UNCHANGED mainVars
  BY <1>1, <1>3, <1>6 DEF MainTypes, mainVars, Places
<1>7. CASE Popped
  BY <1>6, <1>7 DEF Popped
<1>8. CASE Issued
  <2>1. CASE Continue(TRUE)
    BY <1>4, <1>8, <2>1 DEF Issued
  <2>2. CASE Command.cmd # "write" /\ waiting' = TRUE /\ UNCHANGED <<at, motor, step, code>>
    <3>1. at \in Waits /\ (at = "setup" => program.setup[step].cmd # "write")
      BY <1>8, <2>2, CommandSent DEF Issued
    <3> QED
      BY <1>1, <1>3, <2>2, <3>1 DEF MainTypes, Places
  <2> QED
    BY <1>8, <2>1, <2>2 DEF Issued
<1>9. CASE Streams
  BY <1>5, <1>9 DEF Streams
<1>10. CASE Hops
  <2>1. CASE at = "start" /\ UNCHANGED waiting /\ medium
               /\ Goto(IF program.setup = <<>> THEN "send" ELSE "setup", 1, 1) /\ UNCHANGED code
    BY <1>1, <1>3, <2>1 DEF Goto, MainTypes, Phases, Places, Waits
  <2>2. CASE at = "start" /\ UNCHANGED waiting /\ at' = "exited" /\ code' = 1 /\ UNCHANGED <<motor, step>>
    BY <1>1, <1>3, <2>2 DEF MainTypes, Phases, Places, Waits
  <2>3. CASE at = "loop" /\ UNCHANGED <<waiting, code>> /\ (Goto("send", 1, 1) \/ Goto("stop", 1, 1))
    BY <1>1, <1>3, <2>3 DEF Goto, MainTypes, Phases, Places, Waits
  <2>4. CASE at = "send" /\ Goto("overrun", motor, step) /\ UNCHANGED <<waiting, code>>
    BY <1>1, <1>3, <2>4 DEF Goto, MainTypes, Phases, Places, Waits
  <2>5. CASE /\ UNCHANGED <<motor, step, waiting, code>>
             /\ <<at, at'>> \in {<<"unlink", "close">>, <<"close", "join">>, <<"join", "exited">>}
    BY <1>1, <1>3, <2>5 DEF MainTypes, Phases, Places, Waits
  <2> QED
    BY <1>4, <1>5, <1>6, <1>10, <2>1, <2>2, <2>3, <2>4, <2>5 DEF Hops, Hop
<1> QED
  BY <1>2, <1>7, <1>8, <1>9, <1>10

LEMMA RequestKinds ==
  ASSUME TypeOK, NEW r \in Requests
  PROVE  /\ r.motor \in Motors
         /\ r.cmd \in {"write", "enable"}
              => \E i \in DOMAIN program.setup :
                   r = Frame(r.motor, program.setup[i]) /\ program.setup[i].cmd = r.cmd
         /\ r.cmd = "stop" => r = StopFrame(r.motor)
         /\ r.cmd = "control" => r.write.param = program.reference
<1>1. \A i \in DOMAIN program.setup : program.setup[i] \in SetupCommands
  BY ProgramFacts, ElementOfSeq
<1>2. ASSUME NEW m \in Motors, NEW c PROVE Frame(m, c).motor = m /\ Frame(m, c).cmd = c.cmd /\ Frame(m, c).write = c.write
  BY DEF Frame
<1>3. CASE \E m \in Motors, i \in DOMAIN program.setup : r = Frame(m, program.setup[i])
  <2>1. PICK m \in Motors, i \in DOMAIN program.setup : r = Frame(m, program.setup[i])
    BY <1>3
  <2>2. r.motor = m /\ r.cmd = program.setup[i].cmd
    BY <2>1 DEF Frame
  <2>3. r.cmd \notin {"stop", "control"}
    <3>1. \A c \in SetupCommands : c.cmd \notin {"stop", "control"}
      BY DEF SetupCommands
    <3> QED
      BY <1>1, <2>2, <3>1
  <2> QED
    BY <2>1, <2>2, <2>3
<1>4. CASE \E m \in Motors : r = Frame(m, Streamed)
  <2>1. PICK m \in Motors : r = Frame(m, Streamed)
    BY <1>4
  <2>2. r.motor = m /\ r.cmd = "control" /\ r.write.param = program.reference
    BY <2>1 DEF Frame, Streamed, Write
  <2> QED
    BY <2>2
<1>5. CASE \E m \in Motors, cmd \in {"stop", "ping"} : r = Frame(m, Sync(cmd))
  <2>1. PICK m \in Motors, cmd \in {"stop", "ping"} : r = Frame(m, Sync(cmd))
    BY <1>5
  <2>2. r.motor = m /\ r.cmd = cmd
    BY <2>1 DEF Frame, Sync
  <2> QED
    BY <2>1, <2>2 DEF StopFrame
<1> QED
  BY <1>3, <1>4, <1>5 DEF Requests

LEMMA QueueFacts ==
  ASSUME TypeOK, Places
  PROVE  /\ Len(toMotors) \in Nat /\ DOMAIN toMotors = 1 .. Len(toMotors)
         /\ \A i \in 1 .. Len(toMotors) : toMotors[i] \in Requests
BY LenProperties, ElementOfSeq DEF Places

\* A pop moves every request one place ahead.
LEMMA PopFacts ==
  ASSUME TypeOK, Places, Popped
  PROVE  /\ Len(toMotors) >= 1 /\ Head(toMotors) = toMotors[1] /\ toMotors[1] \in Requests
         /\ toMotors' \in Seq(Requests) /\ Len(toMotors') = Len(toMotors) - 1
         /\ DOMAIN toMotors' = 1 .. Len(toMotors) - 1
         /\ \A i \in 1 .. Len(toMotors) - 1 : toMotors'[i] = toMotors[i + 1]
<1>1. toMotors \in Seq(Requests) /\ toMotors # <<>> /\ toMotors' = Tail(toMotors)
  BY DEF Places, Popped
<1>2. /\ Head(toMotors) = toMotors[1] /\ Len(toMotors) \in Nat /\ Len(toMotors) >= 1
  BY <1>1, EmptySeq, LenProperties, HeadTailProperties
<1>3. /\ Tail(toMotors) \in Seq(Requests) /\ Len(Tail(toMotors)) = Len(toMotors) - 1
      /\ \A i \in 1 .. Len(Tail(toMotors)) : Tail(toMotors)[i] = toMotors[i + 1]
  BY <1>1, HeadTailProperties
<1>4. DOMAIN Tail(toMotors) = 1 .. Len(Tail(toMotors))
  BY <1>3, LenProperties
<1> QED
  BY <1>1, <1>2, <1>3, <1>4, QueueFacts

\* A request sent joins the end.
LEMMA SentFacts ==
  ASSUME TypeOK, Places, NEW r \in Requests, Sent(r)
  PROVE  /\ toMotors' \in Seq(Requests) /\ Len(toMotors') = Len(toMotors) + 1
         /\ DOMAIN toMotors' = 1 .. Len(toMotors) + 1
         /\ \A i \in 1 .. Len(toMotors) : toMotors'[i] = toMotors[i]
         /\ toMotors'[Len(toMotors) + 1] = r
<1>1. toMotors \in Seq(Requests) /\ toMotors' = Append(toMotors, r)
  BY DEF Places, Sent
<1>2. /\ toMotors' \in Seq(Requests) /\ Len(toMotors') = Len(toMotors) + 1
      /\ \A i \in 1 .. Len(toMotors) : toMotors'[i] = toMotors[i]
      /\ toMotors'[Len(toMotors) + 1] = r
  BY <1>1, AppendProperties
<1> QED
  BY <1>2, LenProperties

LEMMA StreamedSent == TypeOK => Frame(Addressed, Streamed) \in Requests
BY ProgramFacts DEF Requests

LEMMA ProgramStays == Places /\ [Next]_vars => program' = program /\ Requests' = Requests
<1> SUFFICES ASSUME Places, [Next]_vars PROVE program' = program /\ Requests' = Requests
  OBVIOUS
<1>1. program' = program
  BY StepKinds DEF Popped, Issued, Sent, Streams, Hops
<1> QED
  BY <1>1 DEF Requests, Frame, Streamed

LEMMA ObeyTypes ==
  ASSUME TypeOK, Places, Popped
  PROVE  /\ motorState' \in [Motors -> {"RESET", "RUN"}]
         /\ DOMAIN ram' = Motors /\ \A m \in Motors : DOMAIN ram'[m] = Params
<1>1. motorState \in [Motors -> {"RESET", "RUN"}] /\ DOMAIN ram = Motors /\ \A m \in Motors : DOMAIN ram[m] = Params
  BY DEF TypeOK, Places
<1>2. CASE Obey(Head(toMotors))
  BY <1>1, <1>2 DEF Obey
<1>3. CASE UNCHANGED deviceVars
  BY <1>1, <1>3 DEF deviceVars
<1> QED
  BY <1>2, <1>3 DEF Popped

LEMMA BusTypesStep ==
  ASSUME TypeOK, Places, [Next]_vars
  PROVE  /\ toMotors' \in Seq(Requests') /\ fromMotors' \in Seq(Replies)
         /\ motorState' \in [Motors -> {"RESET", "RUN"}]
         /\ DOMAIN ram' = Motors /\ \A m \in Motors : DOMAIN ram'[m] = Params
<1>1. Popped \/ Issued \/ Streams \/ Hops
  BY StepKinds
<1>2. toMotors' \in Seq(Requests)
  <2>1. CASE Issued
    <3>1. Frame(Addressed, Command) \in Requests /\ Sent(Frame(Addressed, Command))
      BY <2>1, CommandSent DEF Issued
    <3> QED
      BY <3>1, SentFacts
  <2>2. CASE Streams
    <3>1. Frame(Addressed, Streamed) \in Requests /\ Sent(Frame(Addressed, Streamed))
      BY <2>2, StreamedSent DEF Streams
    <3> QED
      BY <3>1, SentFacts
  <2>3. CASE Hops
    BY <2>3 DEF Hops, Places
  <2> QED
    BY <1>1, <2>1, <2>2, <2>3, PopFacts
<1>3. /\ motorState' \in [Motors -> {"RESET", "RUN"}]
      /\ DOMAIN ram' = Motors /\ \A m \in Motors : DOMAIN ram'[m] = Params
  <2>1. CASE Popped
    BY <2>1, ObeyTypes
  <2>2. CASE ~Popped
    <3>1. UNCHANGED deviceVars
      BY <1>1, <2>2 DEF Issued, Streams, Hops, Sent
    <3> QED
      BY <3>1 DEF deviceVars, TypeOK, Places
  <2> QED
    BY <2>1, <2>2
<1>4. fromMotors' \in Seq(Replies)
  <2>0. fromMotors \in Seq(Replies)
    BY DEF Places
  <2>1. CASE MotorAnswers
    <3>1. Popped
      BY <2>1 DEF MotorAnswers, Popped, history
    <3>2. Head(toMotors).motor \in Motors
      BY <3>1, PopFacts, RequestKinds
    <3>3. Reply(Head(toMotors)) \in Replies
      BY <3>2 DEF Reply, Replies, Expects, AwaitedTypes
    <3>4. fromMotors' = Append(fromMotors, Reply(Head(toMotors)))
      BY <2>1 DEF MotorAnswers
    <3> QED
      BY <2>0, <3>3, <3>4, AppendProperties
  <2>2. CASE RxFrame
    BY <2>0, <2>2, HeadTailProperties DEF RxFrame
  <2>3. ~MotorAnswers /\ ~RxFrame => UNCHANGED fromMotors
    BY DEF Next, MainStep, Connect, Issue, Sends, SendFails, Acknowledged, Expires, Loop, Control,
           Close, Join, Interrupt, RxStep, RxEnter, RxCall, RxTimeout, RxFails, RxUnchanged, Bus,
           LoseRequest, LoseReply, InterfaceDown, Ended, vars, busVars
  <2> QED
    BY <2>0, <2>1, <2>2, <2>3
<1> QED
  BY <1>2, <1>3, <1>4, ProgramStays

\* The rest of what main() and the receive thread keep.
LEMMA ThreadTypesStep ==
  ASSUME TypeOK, Places, [Next]_vars
  PROVE  /\ TransportTypeOK' /\ keepRunning' \in BOOLEAN
         /\ expected' \in AwaitedTypes /\ received' \in BOOLEAN
         /\ rx' \in {"none", "enter", "call", "read", "exited"}
<1>1. TransportTypeOK'
  BY DEF TypeOK, TransportTypeOK, Next, MainStep, Connect, Opens, OpenFails, Issue, Sends, Transmits,
         SendFails, TransmitFails, Acknowledged, Expires, Loop, Control, Close, Unlink, CloseFd, Join,
         Interrupt, RxStep, RxEnter, RxCall, RxFrame, RxTimeout, RxFails, ReadFails, Bus,
         MotorAnswers, LoseRequest, LoseReply, InterfaceDown, MediumDown, Ended, vars, transportVars
<1>2. keepRunning' \in BOOLEAN
  BY DEF TypeOK, Next, MainStep, Connect, Issue, Acknowledged, Expires, Loop, Control, Close, Join,
         Interrupt, RxStep, RxEnter, RxCall, RxFrame, RxTimeout, RxFails, RxUnchanged, Bus,
         MotorAnswers, LoseRequest, LoseReply, InterfaceDown, Ended, vars
<1>3. expected' \in AwaitedTypes
  BY DEF TypeOK, Next, MainStep, Connect, Issue, Acknowledged, Expires, Loop, Control, Close, Join,
         Interrupt, RxStep, RxEnter, RxCall, RxFrame, RxTimeout, RxFails, RxUnchanged, Bus,
         MotorAnswers, LoseRequest, LoseReply, InterfaceDown, Ended, vars, waitVars, Expects, AwaitedTypes
<1>4. received' \in BOOLEAN
  BY DEF TypeOK, Next, MainStep, Connect, Issue, Acknowledged, Expires, Loop, Control, Close, Join,
         Interrupt, RxStep, RxEnter, RxCall, RxFrame, RxTimeout, RxFails, RxUnchanged, Bus,
         MotorAnswers, LoseRequest, LoseReply, InterfaceDown, Ended, vars, waitVars
<1>5. rx' \in {"none", "enter", "call", "read", "exited"}
  BY DEF TypeOK, Next, MainStep, Connect, Issue, Acknowledged, Expires, Loop, Control, Close, Join,
         Interrupt, RxStep, RxEnter, RxCall, RxFrame, RxTimeout, RxFails, RxUnchanged, Bus,
         MotorAnswers, LoseRequest, LoseReply, InterfaceDown, Ended, vars
<1> QED
  BY <1>1, <1>2, <1>3, <1>4, <1>5

\* The invariant the rest builds on.
SessionTypes == TypeOK /\ Places /\ CounterInv

LEMMA SessionTypesStep == SessionTypes /\ [Next]_vars => SessionTypes'
<1> SUFFICES ASSUME SessionTypes, [Next]_vars PROVE SessionTypes'
  OBVIOUS
<1>1. TypeOK /\ Places
  BY DEF SessionTypes
<1>2. MainTypes'
  BY <1>1, MainTypesStep
<1>3. /\ toMotors' \in Seq(Requests') /\ fromMotors' \in Seq(Replies)
      /\ motorState' \in [Motors -> {"RESET", "RUN"}]
      /\ DOMAIN ram' = Motors /\ \A m \in Motors : DOMAIN ram'[m] = Params
  BY <1>1, BusTypesStep
<1>4. /\ TransportTypeOK' /\ keepRunning' \in BOOLEAN
      /\ expected' \in AwaitedTypes /\ received' \in BOOLEAN
      /\ rx' \in {"none", "enter", "call", "read", "exited"}
  BY <1>1, ThreadTypesStep
<1>5. CounterInv'
  BY CounterStep DEF SessionTypes
<1>6. Places'
  BY <1>2, <1>3 DEF MainTypes, Places
<1>7. \A i \in DOMAIN toMotors' : toMotors'[i].motor \in Motors
  <2>1. ASSUME NEW r \in Requests PROVE r.motor \in Motors
    BY <1>1, RequestKinds
  <2>2. toMotors' \in Seq(Requests)
    BY <1>1, <1>3, ProgramStays
  <2> QED
    BY <2>1, <2>2, LenProperties, ElementOfSeq
<1>8. \A i \in DOMAIN fromMotors' : fromMotors'[i].type \in AwaitedTypes
  <2>1. \A i \in DOMAIN fromMotors' : fromMotors'[i] \in Replies
    BY <1>3, LenProperties, ElementOfSeq
  <2> QED
    BY <2>1 DEF Replies
<1>9. TypeOK'
  BY <1>2, <1>3, <1>4, <1>5, <1>7, <1>8 DEF TypeOK, MainTypes, CounterInv
<1> QED
  BY <1>5, <1>6, <1>9 DEF SessionTypes

LEMMA SessionTypesInit == Init => SessionTypes
<1> SUFFICES ASSUME Init PROVE SessionTypes
  OBVIOUS
<1>1. program \in Programs /\ program \in AllPrograms
  BY SessionAssumption DEF Init
<1>2. 1 \in DOMAIN program.motors
  <2>1. program.motors \in {<<5>>, <<5, 6>>}
    BY <1>1, ProgramsRegular DEF Regular
  <2> QED
    BY <2>1
<1>3. CounterInv
  BY SessionAssumption DEF Init, CounterInv, CounterJustified
<1>4. /\ DOMAIN ram = Motors /\ \A m \in Motors : DOMAIN ram[m] = Params
      /\ motorState \in [Motors -> {"RESET", "RUN"}]
  BY DEF Init
<1>5. toMotors = <<>> /\ fromMotors = <<>>
  BY DEF Init
<1>6. TypeOK
  <2>1. TransportTypeOK
    BY DEF Init, TransportInit, TransportTypeOK
  <2>2. DOMAIN toMotors = {} /\ DOMAIN fromMotors = {}
    BY <1>5
  <2>3. /\ at \in Phases /\ motor \in DOMAIN program.motors /\ step \in Nat
        /\ waiting \in BOOLEAN /\ code \in {0, 1} /\ keepRunning \in BOOLEAN
        /\ expected \in AwaitedTypes /\ received \in BOOLEAN
        /\ rx \in {"none", "enter", "call", "read", "exited"}
    BY <1>2 DEF Init, Phases, AwaitedTypes
  <2> QED
    BY <1>1, <1>3, <1>4, <2>1, <2>2, <2>3 DEF TypeOK, CounterInv
<1>7. Places
  BY <1>4, <1>5 DEF Init, Places, Waits
<1> QED
  BY <1>3, <1>6, <1>7 DEF SessionTypes

LEMMA SessionTypesAlways == Spec => []SessionTypes
BY SessionTypesInit, SessionTypesStep, PTL DEF Spec

\* Every program of the repository keeps its state in the intended ranges.
THEOREM SessionTypeCorrect == Spec => []TypeOK
<1>1. SessionTypes => TypeOK
  BY DEF SessionTypes
<1> QED
  BY <1>1, SessionTypesAlways, PTL

-----------------------------------------------------------------------------
(* No motor is enabled before its setup has come to that                   *)

\* main() never goes back into the setup.
LEMMA SetupIsOver ==
  ASSUME TypeOK, Places, [Next]_vars, at \notin {"start", "setup"}
  PROVE  at' \notin {"start", "setup"}
<1>1. Popped \/ Issued \/ Streams \/ Hops
  BY StepKinds
<1>2. ASSUME NEW ok \in BOOLEAN, at \in Waits, Continue(ok) PROVE at' \notin {"start", "setup"}
  BY <1>2, ContinueGoes DEF Outcome, Goto
<1>3. ASSUME NEW ok \in BOOLEAN, at = "send", AfterControl(ok) PROVE at' \notin {"start", "setup"}
  BY <1>3, ControlGoes
<1>4. CASE UNCHANGED mainVars
  BY <1>4 DEF mainVars
<1>5. CASE Issued
  BY <1>2, <1>5 DEF Issued
<1>6. CASE Streams
  BY <1>3, <1>6 DEF Streams
<1>7. CASE Hops
  BY <1>2, <1>3, <1>4, <1>7 DEF Hops, Hop, Goto
<1> QED
  BY <1>1, <1>4, <1>5, <1>6, <1>7 DEF Popped

LEMMA ReachedGrows ==
  ASSUME TypeOK, Places, [Next]_vars, NEW m, Reached(m)
  PROVE  Reached(m)'
<1> DEFINE n == Len(program.setup)
<1>1. Popped \/ Issued \/ Streams \/ Hops
  BY StepKinds
<1>2. program' = program
  BY ProgramStays
<1>3. /\ n \in Nat /\ motor \in 1 .. Len(program.motors) /\ step \in Nat
      /\ DOMAIN program.motors = 1 .. Len(program.motors)
  BY ProgramFacts
<1>4. CASE at \notin {"start", "setup"}
  BY <1>2, <1>4, SetupIsOver DEF Reached
<1>5. CASE at = "setup" /\ UNCHANGED <<at, motor, step>> /\ (waiting => waiting')
  BY <1>2, <1>5 DEF Reached
<1>6. ASSUME NEW ok \in BOOLEAN, at = "setup", Continue(ok) PROVE Reached(m)'
  <2>1. Outcome(ok) /\ at \in Waits
    BY <1>6, ContinueGoes DEF Waits
  <2>2. \/ at' \in {"unlink", "loop"}
        \/ step < n /\ Goto("setup", motor, step + 1)
        \/ Goto("setup", motor + 1, 1)
    BY <1>6, <2>1 DEF Outcome, Goto
  <2>3. CASE at' \in {"unlink", "loop"}
    BY <1>2, <2>3 DEF Reached
  <2>4. CASE step < n /\ Goto("setup", motor, step + 1)
    <3>1. step # n
      BY <1>3, <2>4
    <3> QED
      BY <1>2, <1>6, <2>4, <3>1 DEF Reached, Goto
  <2>5. CASE Goto("setup", motor + 1, 1)
    <3>1. PICK k \in DOMAIN program.motors : program.motors[k] = m /\ (k < motor \/ k = motor)
      BY <1>6 DEF Reached
    <3>2. k < motor + 1
      BY <1>3, <3>1
    <3> QED
      BY <1>2, <2>5, <3>1, <3>2 DEF Reached, Goto
  <2> QED
    BY <2>2, <2>3, <2>4, <2>5
<1>7. at = "setup" /\ Hops => UNCHANGED mainVars \/ \E ok \in BOOLEAN : Continue(ok)
  BY DEF Hops, Hop
<1>8. CASE at = "setup"
  BY <1>1, <1>5, <1>6, <1>7, <1>8 DEF Popped, Issued, Streams, mainVars
<1>9. at # "start"
  BY DEF Reached
<1> QED
  BY <1>4, <1>8, <1>9

LEMMA IdlePopped ==
  ASSUME TypeOK, Places, Popped, NEW m \in Motors, Idle(m)
  PROVE  Idle(m)'
<1> DEFINE h == Head(toMotors)
           n == Len(toMotors)
<1>1. /\ n \in Nat /\ DOMAIN toMotors = 1 .. n /\ n >= 1 /\ h = toMotors[1]
      /\ DOMAIN toMotors' = 1 .. n - 1
      /\ \A i \in 1 .. n - 1 : toMotors'[i] = toMotors[i + 1]
  BY QueueFacts, PopFacts
<1>2. motorState[m] = "RESET" /\ \A i \in 1 .. n : ~IsFor(i, m, "enable")
  BY <1>1 DEF Idle
<1>3. motorState'[m] = "RESET"
  <2>1. ~(h.motor = m /\ h.cmd = "enable")
    <3>1. 1 \in 1 .. n
      BY <1>1
    <3> QED
      BY <1>1, <1>2, <3>1 DEF IsFor
  <2>2. CASE Obey(h)
    BY <1>2, <2>1, <2>2 DEF Obey, TypeOK
  <2>3. CASE UNCHANGED deviceVars
    BY <1>2, <2>3 DEF deviceVars
  <2> QED
    BY <2>2, <2>3 DEF Popped
<1>4. ASSUME NEW i \in 1 .. n - 1 PROVE ~(toMotors'[i].motor = m /\ toMotors'[i].cmd = "enable")
  <2>1. i + 1 \in 1 .. n
    BY <1>1
  <2> QED
    BY <1>1, <1>2, <2>1 DEF IsFor
<1> QED
  BY <1>1, <1>3, <1>4 DEF Idle, IsFor

LEMMA IdleSent ==
  ASSUME TypeOK, Places, NEW r \in Requests, Sent(r), NEW m \in Motors, Idle(m),
         ~(r.motor = m /\ r.cmd = "enable")
  PROVE  Idle(m)'
<1> DEFINE n == Len(toMotors)
<1>1. /\ n \in Nat /\ DOMAIN toMotors = 1 .. n /\ DOMAIN toMotors' = 1 .. n + 1
      /\ \A i \in 1 .. n : toMotors'[i] = toMotors[i]
      /\ toMotors'[n + 1] = r
  BY QueueFacts, SentFacts
<1>2. motorState[m] = "RESET" /\ \A i \in 1 .. n : ~IsFor(i, m, "enable")
  BY <1>1 DEF Idle
<1>3. motorState' = motorState
  BY DEF Sent, deviceVars
<1>4. ASSUME NEW i \in 1 .. n + 1 PROVE ~(toMotors'[i].motor = m /\ toMotors'[i].cmd = "enable")
  <2>1. i \in 1 .. n \/ i = n + 1
    BY <1>1
  <2> QED
    BY <1>1, <1>2, <2>1 DEF IsFor
<1> QED
  BY <1>1, <1>2, <1>3, <1>4 DEF Idle, IsFor

\* Only the last command of a setup enables the motor.
LEMMA EnableIsLast ==
  ASSUME TypeOK, Places, at \in Waits, Command.cmd = "enable"
  PROVE  at = "setup" /\ step = Len(program.setup) /\ Addressed = program.motors[motor]
<1>1. at = "setup" /\ program.setup[step].cmd = "enable" /\ step \in 1 .. Len(program.setup)
  BY CommandSent, ProgramFacts
<1> QED
  BY <1>1, ProgramFacts DEF Regular, Proper, Addressed

LEMMA IdleStep == SessionTypes /\ IdleBefore /\ [Next]_vars => IdleBefore'
<1> SUFFICES ASSUME SessionTypes, IdleBefore, [Next]_vars, NEW m \in Motors, ~Reached(m)'
             PROVE  Idle(m)'
  BY DEF IdleBefore
<1>0. TypeOK /\ Places
  BY DEF SessionTypes
<1>1. Popped \/ Issued \/ Streams \/ Hops
  BY <1>0, StepKinds
<1>2. Idle(m)
  BY <1>0, ReachedGrows DEF IdleBefore
<1>3. CASE Issued
  <2> DEFINE r == Frame(Addressed, Command)
  <2>1. r \in Requests /\ Sent(r) /\ at \in Waits
    BY <1>0, <1>3, CommandSent DEF Issued
  <2>2. r.motor = Addressed /\ r.cmd = Command.cmd
    BY DEF Frame
  <2>3. ASSUME Addressed = m, Command.cmd = "enable" PROVE FALSE
    <3>1. at = "setup" /\ step = Len(program.setup) /\ m = program.motors[motor]
      BY <1>0, <2>1, <2>3, EnableIsLast
    <3>2. waiting' = TRUE /\ UNCHANGED <<at, motor, step>>
      BY <1>3, <2>3 DEF Issued
    <3>3. motor \in DOMAIN program.motors /\ program.setup # <<>>
      <4>1. motor \in DOMAIN program.motors /\ program.setup \in Seq(SetupCommands)
        BY <1>0, ProgramFacts
      <4>2. step \in 1 .. Len(program.setup)
        BY <1>0, <3>1 DEF Places
      <4> QED
        BY <4>1, <4>2
    <3>4. program' = program
      BY <1>0, ProgramStays
    <3> QED
      BY <3>1, <3>2, <3>3, <3>4 DEF Reached
  <2> HIDE DEF r
  <2> QED
    BY <1>0, <1>2, <2>1, <2>2, <2>3, IdleSent
<1>4. CASE Streams
  <2>1. Frame(Addressed, Streamed) \in Requests /\ Frame(Addressed, Streamed).cmd = "control"
    BY <1>0, StreamedSent DEF Frame, Streamed
  <2> QED
    BY <1>0, <1>2, <1>4, <2>1, IdleSent DEF Streams
<1>5. CASE Hops
  BY <1>2, <1>5 DEF Hops, Idle, IsFor, deviceVars
<1> QED
  BY <1>0, <1>1, <1>2, <1>3, <1>4, <1>5, IdlePopped

LEMMA IdleInit == Init => IdleBefore
BY DEF Init, IdleBefore, Idle

-----------------------------------------------------------------------------
(* Every write of a setup is ahead of its enable                           *)

LEMMA SetupWrites ==
  ASSUME TypeOK, NEW i, IsWrite(i)
  PROVE  /\ i \in 1 .. Len(program.setup) /\ program.setup[i].cmd = "write"
         /\ program.setup[i].write.param \in Params
         /\ i # Len(program.setup)
         /\ \A j : IsWrite(j) /\ i # j => program.setup[i].write.param # program.setup[j].write.param
<1>1. /\ DOMAIN program.setup = 1 .. Len(program.setup) /\ Proper(program.setup)
  BY ProgramFacts DEF Regular
<1>2. i \in 1 .. Len(program.setup) /\ program.setup[i].cmd = "write"
  BY <1>1 DEF IsWrite
<1>3. program.setup[i] \in SetupCommands
  BY <1>1, <1>2, ElementOfSeq DEF Proper
<1>4. program.setup[i].write \in Writes
  BY <1>2, <1>3 DEF SetupCommands
<1>5. program.setup[i].write.param \in Params
  BY <1>4 DEF Writes, ModeWrites, LimitsWritten, Params
<1>6. i # Len(program.setup)
  BY <1>1, <1>2 DEF Proper
<1> QED
  BY <1>1, <1>2, <1>5, <1>6 DEF Proper, IsWrite

\* What was obeyed or lost stays so: no other write of a setup is to the same parameter.
LEMMA DonePopped ==
  ASSUME TypeOK, Places, Popped, NEW m \in Motors, NEW i, IsWrite(i), Done(m, i)
  PROVE  Done(m, i)'
<1> DEFINE c == program.setup[i]
           h == Head(toMotors)
<1>1. program' = program /\ lost \subseteq lost'
  BY DEF Popped
<1>2. CASE Frame(m, c) \in lost
  BY <1>1, <1>2 DEF Done, Frame
<1>3. CASE ram[m][c.write.param] = c.write.value
  <2>1. ram'[m][c.write.param] = c.write.value
    <3>1. /\ DOMAIN ram = Motors /\ DOMAIN ram[m] = Params /\ c.write.param \in Params
      BY SetupWrites DEF Places
    <3>2. CASE UNCHANGED deviceVars
      BY <1>3, <3>2 DEF deviceVars
    <3>3. CASE Obey(h) /\ h.cmd # "write"
      BY <1>3, <3>3 DEF Obey
    <3>4. CASE Obey(h) /\ h.cmd = "write"
      <4>1. PICK j \in DOMAIN program.setup : h = Frame(h.motor, program.setup[j]) /\ program.setup[j].cmd = "write"
        BY <3>4, PopFacts, RequestKinds
      <4>2. IsWrite(j) /\ h.write = program.setup[j].write
        BY <4>1 DEF IsWrite, Frame
      <4>3. ram' = [ram EXCEPT ![h.motor][h.write.param] = h.write.value]
        BY <3>4 DEF Obey
      <4>4. CASE j = i
        BY <1>3, <3>1, <4>2, <4>3, <4>4
      <4>5. CASE j # i
        <5>1. h.write.param # c.write.param
          BY <4>2, <4>5, SetupWrites
        <5> QED
          BY <1>3, <3>1, <4>3, <5>1
      <4> QED
        BY <4>4, <4>5
    <3> QED
      BY <3>2, <3>3, <3>4 DEF Popped
  <2> QED
    BY <1>1, <2>1 DEF Done
<1> QED
  BY <1>2, <1>3 DEF Done

LEMMA HeadDone ==
  ASSUME TypeOK, Places, Popped, NEW m \in Motors, NEW i, IsWrite(i),
         Head(toMotors) = Frame(m, program.setup[i])
  PROVE  Done(m, i)'
<1> DEFINE c == program.setup[i]
           h == Head(toMotors)
<1>1. program' = program
  BY DEF Popped
<1>2. h.motor = m /\ h.cmd = "write" /\ h.write = c.write
  BY SetupWrites DEF Frame
<1>3. CASE Obey(h)
  <2>1. /\ DOMAIN ram = Motors /\ DOMAIN ram[m] = Params /\ c.write.param \in Params
    BY SetupWrites DEF Places
  <2>2. ram' = [ram EXCEPT ![m][c.write.param] = c.write.value]
    BY <1>2, <1>3 DEF Obey
  <2>3. ram'[m][c.write.param] = c.write.value
    BY <2>1, <2>2
  <2> QED
    BY <1>1, <2>3 DEF Done
<1>4. CASE lost' = lost \cup {Recorded(h)}
  <2>1. Recorded(h) = h
    BY <1>2 DEF Recorded
  <2>2. Frame(m, c) \in lost'
    BY <1>4, <2>1
  <2> QED
    BY <1>1, <2>2 DEF Done, Frame
<1> QED
  BY <1>3, <1>4 DEF Popped

LEMMA DoneAfterPopped ==
  ASSUME TypeOK, Places, Popped, NEW m \in Motors, NEW i, IsWrite(i),
         NEW n \in 1 .. Len(toMotors), DoneAfter(m, i, n)
  PROVE  DoneAfter(m, i, n - 1)'
<1> DEFINE w == Frame(m, program.setup[i])
<1>1. CASE Done(m, i)
  BY <1>1, DonePopped DEF DoneAfter
<1>2. ASSUME NEW r \in 1 .. n, toMotors[r] = w PROVE DoneAfter(m, i, n - 1)'
  <2>1. CASE r = 1
    <3>1. Head(toMotors) = w
      BY <1>2, <2>1, PopFacts
    <3> QED
      BY <3>1, HeadDone DEF DoneAfter
  <2>2. CASE r # 1
    <3>1. Len(toMotors) \in Nat
      BY QueueFacts
    <3>2. r - 1 \in 1 .. n - 1 /\ r - 1 \in 1 .. Len(toMotors) - 1 /\ (r - 1) + 1 = r
      BY <2>2, <3>1
    <3>3. toMotors'[r - 1] = w
      BY <1>2, <3>2, PopFacts
    <3>4. Frame(m, program.setup[i])' = w
      BY DEF Popped, Frame
    <3> QED
      BY <3>2, <3>3, <3>4 DEF DoneAfter
  <2> QED
    BY <2>1, <2>2
<1> QED
  BY <1>1, <1>2 DEF DoneAfter

\* Sending another request changes nothing of it.
LEMMA DoneSent ==
  ASSUME TypeOK, Places, NEW r \in Requests, Sent(r), NEW m \in Motors, NEW i,
         r # Frame(m, program.setup[i])
  PROVE  /\ Done(m, i) => Done(m, i)'
         /\ \A n \in 0 .. Len(toMotors) : DoneAfter(m, i, n) => DoneAfter(m, i, n)'
<1> DEFINE w == Frame(m, program.setup[i])
<1>1. program' = program /\ ram' = ram /\ lost' = lost \ {r}
  BY DEF Sent, deviceVars
<1>2. Done(m, i) => Done(m, i)'
  BY <1>1 DEF Done, Frame
<1>3. ASSUME NEW n \in 0 .. Len(toMotors), NEW q \in 1 .. n, toMotors[q] = w
      PROVE  DoneAfter(m, i, n)'
  <2>1. q \in 1 .. Len(toMotors)
    BY <1>3, QueueFacts
  <2>2. toMotors'[q] = w
    BY <1>3, <2>1, SentFacts
  <2>3. Frame(m, program.setup[i])' = w
    BY <1>1 DEF Frame
  <2> QED
    BY <2>2, <2>3 DEF DoneAfter
<1> QED
  BY <1>2, <1>3 DEF DoneAfter

LEMMA WritesPopped ==
  ASSUME SessionTypes, WritesFirst, Popped
  PROVE  WritesFirst'
<1>0. TypeOK /\ Places
  BY DEF SessionTypes
<1>a. Len(toMotors) \in Nat
  BY <1>0, QueueFacts
<1>b. PICK n \in Nat : n = Len(toMotors)
  BY <1>a
<1>1. /\ n \in Nat /\ DOMAIN toMotors = 1 .. n /\ n >= 1 /\ Head(toMotors) = toMotors[1]
      /\ DOMAIN toMotors' = 1 .. n - 1 /\ Len(toMotors') = n - 1
      /\ \A i \in 1 .. n - 1 : toMotors'[i] = toMotors[i + 1]
  BY <1>0, <1>b, QueueFacts, PopFacts
<1>2. program' = program /\ UNCHANGED mainVars
  BY DEF Popped
<1>3. ASSUME NEW m \in Motors, NEW i \in DOMAIN program.setup, IsWrite(i)
      PROVE  /\ motorState'[m] = "RUN" => Done(m, i)'
             /\ \A q \in 1 .. n - 1 : IsFor(q, m, "enable")' => DoneAfter(m, i, q - 1)'
             /\ at = "setup" /\ m = Addressed /\ i < step => DoneAfter(m, i, n - 1)'
  <2>1. /\ motorState[m] = "RUN" => Done(m, i)
        /\ \A q \in 1 .. n : IsFor(q, m, "enable") => DoneAfter(m, i, q - 1)
        /\ at = "setup" /\ m = Addressed /\ i < step => DoneAfter(m, i, n)
    BY <1>1, <1>3, <1>b DEF WritesFirst
  <2>2. ASSUME motorState'[m] = "RUN" PROVE Done(m, i)'
    <3>1. CASE motorState[m] = "RUN"
      BY <1>0, <1>3, <2>1, <3>1, DonePopped
    <3>2. CASE motorState[m] # "RUN"
      <4>1. Obey(Head(toMotors))
        BY <2>2, <3>2 DEF Popped, deviceVars
      <4>2. Head(toMotors).motor = m /\ Head(toMotors).cmd = "enable"
        BY <1>0, <2>2, <3>2, <4>1 DEF Obey, TypeOK
      <4>3. 1 \in 1 .. n /\ IsFor(1, m, "enable")
        BY <1>1, <4>2 DEF IsFor
      <4>4. DoneAfter(m, i, 1 - 1)
        BY <2>1, <4>3
      <4>5. Done(m, i)
        BY <4>4 DEF DoneAfter
      <4> QED
        BY <1>0, <1>3, <4>5, DonePopped
    <3> QED
      BY <3>1, <3>2
  <2>3. ASSUME NEW q \in 1 .. n - 1, IsFor(q, m, "enable")' PROVE DoneAfter(m, i, q - 1)'
    <3>1. q + 1 \in 1 .. n /\ (q + 1) - 1 = q /\ q \in 1 .. n
      BY <1>1
    <3>2. IsFor(q + 1, m, "enable")
      BY <1>1, <2>3 DEF IsFor
    <3>3. DoneAfter(m, i, q)
      BY <2>1, <3>1, <3>2
    <3> QED
      BY <1>0, <1>3, <3>1, <3>3, <1>b, DoneAfterPopped
  <2>4. ASSUME at = "setup", m = Addressed, i < step PROVE DoneAfter(m, i, n - 1)'
    <3>1. n \in 1 .. Len(toMotors)
      BY <1>1, <1>b
    <3> QED
      BY <1>0, <1>3, <2>1, <2>4, <3>1, DoneAfterPopped
  <2> QED
    BY <2>2, <2>3, <2>4
<1> QED
  BY <1>1, <1>2, <1>3 DEF WritesFirst, IsWrite, Addressed, mainVars

\* A command of the setup is sent before its motor can be enabled.
LEMMA NotReachedYet ==
  ASSUME TypeOK, at = "setup", ~waiting
  PROVE  ~Reached(Addressed)
<1>1. ASSUME NEW k \in DOMAIN program.motors, program.motors[k] = Addressed PROVE k = motor
  <2>1. motor \in DOMAIN program.motors /\ Addressed = program.motors[motor]
    BY ProgramFacts DEF Addressed
  <2> QED
    BY <1>1, <2>1, ProgramFacts
<1>2. ~(motor < motor)
  BY ProgramFacts
<1> QED
  BY <1>1, <1>2 DEF Reached

LEMMA WritesIssued ==
  ASSUME SessionTypes, IdleBefore, WritesFirst, Issued, [Next]_vars
  PROVE  WritesFirst'
<1> DEFINE r == Frame(Addressed, Command)
<1>0. TypeOK /\ Places
  BY DEF SessionTypes
<1>a. Len(toMotors) \in Nat
  BY <1>0, QueueFacts
<1>b. PICK n \in Nat : n = Len(toMotors)
  BY <1>a
<1>1. r \in Requests /\ Sent(r) /\ at \in Waits /\ ~waiting /\ r.motor = Addressed /\ r.cmd = Command.cmd
  BY <1>0, CommandSent DEF Issued, Frame
<1>2. /\ n \in Nat /\ DOMAIN toMotors = 1 .. n
      /\ DOMAIN toMotors' = 1 .. n + 1 /\ Len(toMotors') = n + 1
      /\ \A i \in 1 .. n : toMotors'[i] = toMotors[i]
      /\ toMotors'[n + 1] = r
  BY <1>0, <1>1, <1>b, QueueFacts, SentFacts
<1>3. program' = program /\ motorState' = motorState
  BY <1>1 DEF Sent, deviceVars
<1>4. \/ Command.cmd # "write" /\ UNCHANGED <<at, motor, step>>
      \/ Command.cmd = "write" /\ at = "setup" /\ at' # "setup"
      \/ Command.cmd = "write" /\ at = "setup" /\ motor' = motor /\ step' = step + 1
      \/ Command.cmd = "write" /\ at = "setup" /\ step' = 1
  <2>1. CASE Command.cmd = "write"
    <3>1. at = "setup" /\ Continue(TRUE)
      BY <1>0, <1>1, <2>1, CommandSent DEF Issued
    <3>2. Outcome(TRUE)
      BY <1>0, <1>1, <3>1, ContinueGoes
    <3> QED
      BY <2>1, <3>1, <3>2 DEF Outcome, Goto
  <2> QED
    BY <2>1 DEF Issued
<1>5. step \in Nat
  BY <1>0, ProgramFacts
<1> HIDE DEF r
<1>6. ASSUME NEW m \in Motors, NEW i \in DOMAIN program.setup, IsWrite(i)
      PROVE  /\ motorState'[m] = "RUN" => Done(m, i)'
             /\ \A q \in 1 .. n + 1 : IsFor(q, m, "enable")' => DoneAfter(m, i, q - 1)'
             /\ at' = "setup" /\ m = program.motors[motor'] /\ i < step' => DoneAfter(m, i, n + 1)'
  <2> DEFINE w == Frame(m, program.setup[i])
  <2>1. /\ motorState[m] = "RUN" => Done(m, i)
        /\ \A q \in 1 .. n : IsFor(q, m, "enable") => DoneAfter(m, i, q - 1)
        /\ at = "setup" /\ m = Addressed /\ i < step => DoneAfter(m, i, n)
    BY <1>2, <1>6, <1>b DEF WritesFirst
  <2>2. i \in Nat /\ i >= 1 /\ i # Len(program.setup) /\ i <= Len(program.setup) /\ Len(program.setup) \in Nat
    BY <1>0, <1>6, SetupWrites, ProgramFacts
  <2>3. w' = w
    BY <1>3 DEF Frame
  <2>4. CASE r = w
    <3>1. m = Addressed /\ Command.cmd = "write" /\ r.cmd = "write"
      BY <1>0, <1>1, <1>6, <2>4, SetupWrites DEF r, Frame
    <3>2. at = "setup"
      BY <1>0, <1>1, <3>1, CommandSent
    <3>3. Idle(m)
      BY <1>0, <1>1, <3>1, <3>2, NotReachedYet DEF IdleBefore
    <3>4. Idle(m)'
      BY <1>0, <1>1, <3>1, <3>3, IdleSent
    <3>5. motorState'[m] # "RUN" /\ \A q \in 1 .. n + 1 : ~IsFor(q, m, "enable")'
      BY <1>2, <3>4 DEF Idle
    <3>6. DoneAfter(m, i, n + 1)'
      <4>1. n + 1 \in 1 .. n + 1
        BY <1>2
      <4> QED
        BY <1>2, <2>3, <2>4, <4>1 DEF DoneAfter
    <3> QED
      BY <3>5, <3>6
  <2>5. CASE r # w
    <3>1. /\ Done(m, i) => Done(m, i)'
          /\ \A q \in 0 .. n : DoneAfter(m, i, q) => DoneAfter(m, i, q)'
      BY <1>0, <1>1, <1>6, <2>5, <1>b, DoneSent
    <3>2. DoneAfter(m, i, n)' => DoneAfter(m, i, n + 1)'
      BY <1>2 DEF DoneAfter
    <3>3. ASSUME NEW q \in 1 .. n + 1, IsFor(q, m, "enable")' PROVE DoneAfter(m, i, q - 1)'
      <4>1. CASE q \in 1 .. n
        <5>1. IsFor(q, m, "enable") /\ q - 1 \in 0 .. n
          BY <1>2, <3>3, <4>1 DEF IsFor
        <5> QED
          BY <2>1, <3>1, <4>1, <5>1
      <4>2. CASE q = n + 1
        <5>1. Command.cmd = "enable" /\ Addressed = m
          BY <1>1, <1>2, <3>3, <4>2 DEF IsFor
        <5>2. at = "setup" /\ step = Len(program.setup)
          BY <1>0, <1>1, <5>1, EnableIsLast
        <5>3. i < step
          BY <2>2, <5>2
        <5>4. n \in 0 .. n /\ q - 1 = n
          BY <1>2, <4>2
        <5> QED
          BY <2>1, <3>1, <5>1, <5>2, <5>3, <5>4
      <4> QED
        BY <1>2, <4>1, <4>2
    <3>4. ASSUME at' = "setup", m = program.motors[motor'], i < step' PROVE DoneAfter(m, i, n + 1)'
      <4>1. at = "setup" /\ motor' = motor /\ (i < step \/ (i = step /\ Command.cmd = "write"))
        <5>1. i \in Nat /\ i >= 1
          BY <2>2
        <5>2. i < step'
          BY <3>4
        <5>3. CASE Command.cmd # "write" /\ UNCHANGED <<at, motor, step>>
          <6>1. at' = at /\ motor' = motor /\ step' = step
            BY <5>3
          <6> QED
            BY <3>4, <6>1
        <5>4. CASE Command.cmd = "write" /\ at = "setup" /\ motor' = motor /\ step' = step + 1
          <6>1. i < step \/ i = step
            BY <1>5, <5>1, <5>2, <5>4
          <6> QED
            BY <5>4, <6>1
        <5>5. ~(Command.cmd = "write" /\ at = "setup" /\ step' = 1)
          BY <5>1, <5>2
        <5>6. ~(Command.cmd = "write" /\ at = "setup" /\ at' # "setup")
          BY <3>4
        <5> QED
          BY <1>4, <5>3, <5>4, <5>5, <5>6, Zenon
      <4>2. m = Addressed
        BY <3>4, <4>1 DEF Addressed
      <4>3. i # step
        BY <1>0, <1>1, <2>5, <4>1, <4>2, CommandSent DEF r
      <4>4. DoneAfter(m, i, n) /\ n \in 0 .. n
        BY <1>2, <2>1, <4>1, <4>2, <4>3
      <4> QED
        BY <3>1, <3>2, <4>4
    <3> QED
      BY <1>3, <2>1, <3>1, <3>3, <3>4
  <2> QED
    BY <2>4, <2>5
<1> QED
  BY <1>2, <1>3, <1>6 DEF WritesFirst, IsWrite, Addressed

LEMMA WritesStep == SessionTypes /\ IdleBefore /\ WritesFirst /\ [Next]_vars => WritesFirst'
<1> SUFFICES ASSUME SessionTypes, IdleBefore, WritesFirst, [Next]_vars PROVE WritesFirst'
  OBVIOUS
<1> DEFINE n == Len(toMotors)
<1>0. TypeOK /\ Places
  BY DEF SessionTypes
<1>1. CASE Streams
  <2> DEFINE r == Frame(Addressed, Streamed)
  <2>1. r \in Requests /\ Sent(r) /\ r.cmd = "control"
    BY <1>0, <1>1, StreamedSent DEF Streams, Frame, Streamed
  <2>2. /\ n \in Nat /\ DOMAIN toMotors = 1 .. n
        /\ DOMAIN toMotors' = 1 .. n + 1 /\ Len(toMotors') = n + 1
        /\ \A i \in 1 .. n : toMotors'[i] = toMotors[i]
        /\ toMotors'[n + 1] = r
    BY <1>0, <2>1, QueueFacts, SentFacts
  <2>3. program' = program /\ motorState' = motorState
    BY <2>1 DEF Sent, deviceVars
  <2>4. at' # "setup"
    BY <1>0, <1>1, SetupIsOver DEF Streams
  <2> HIDE DEF n, r
  <2>5. ASSUME NEW m \in Motors, NEW i \in DOMAIN program.setup, IsWrite(i)
        PROVE  /\ motorState'[m] = "RUN" => Done(m, i)'
               /\ \A q \in 1 .. n + 1 : IsFor(q, m, "enable")' => DoneAfter(m, i, q - 1)'
    <3>1. r # Frame(m, program.setup[i])
      BY <1>0, <2>1, <2>5, SetupWrites DEF Frame
    <3>2. /\ Done(m, i) => Done(m, i)'
          /\ \A q \in 0 .. n : DoneAfter(m, i, q) => DoneAfter(m, i, q)'
      BY <1>0, <2>1, <2>5, <3>1, DoneSent DEF n
    <3>3. /\ motorState[m] = "RUN" => Done(m, i)
          /\ \A q \in 1 .. n : IsFor(q, m, "enable") => DoneAfter(m, i, q - 1)
      BY <2>2, <2>5 DEF WritesFirst
    <3>4. ASSUME NEW q \in 1 .. n + 1, IsFor(q, m, "enable")' PROVE DoneAfter(m, i, q - 1)'
      <4>1. q # n + 1
        BY <2>1, <2>2, <3>4 DEF IsFor
      <4>2. q \in 1 .. n /\ q - 1 \in 0 .. n
        BY <2>2, <4>1
      <4>3. IsFor(q, m, "enable")
        BY <2>2, <3>4, <4>2 DEF IsFor
      <4> QED
        BY <3>2, <3>3, <4>2, <4>3
    <3> QED
      BY <2>3, <3>2, <3>3, <3>4
  <2> QED
    BY <2>2, <2>3, <2>4, <2>5 DEF WritesFirst, IsWrite
<1>2. CASE Hops
  <2>1. UNCHANGED <<program, toMotors, deviceVars, lost>>
    BY <1>2 DEF Hops
  <2>2. ASSUME NEW i \in DOMAIN program.setup, IsWrite(i), at' = "setup", i < step'
        PROVE  at = "setup" /\ motor' = motor /\ i < step
    <3>1. i \in Nat /\ i >= 1 /\ step \in Nat
      BY <1>0, <2>2, SetupWrites, ProgramFacts
    <3>2. CASE UNCHANGED mainVars
      BY <2>2, <3>2 DEF mainVars
    <3>3. CASE at = "start" /\ Goto(IF program.setup = <<>> THEN "send" ELSE "setup", 1, 1)
      BY <2>2, <3>1, <3>3 DEF Goto
    <3>4. ASSUME NEW ok \in BOOLEAN, at \in Waits, Continue(ok), waiting \/ ok = FALSE
          PROVE  at = "setup" /\ motor' = motor /\ i < step
      <4>1. Outcome(ok)
        BY <1>0, <3>4, ContinueGoes
      <4>2. at = "setup" /\ ok /\ (step' = 1 \/ (motor' = motor /\ step' = step + 1))
        BY <2>2, <4>1 DEF Outcome, Goto
      <4>3. program.setup[step].cmd # "write"
        BY <1>0, <3>4, <4>2 DEF Places
      <4>4. i # step
        BY <2>2, <4>3 DEF IsWrite
      <4> QED
        BY <2>2, <3>1, <4>2, <4>4
    <3>5. CASE at = "send" /\ AfterControl(FALSE)
      BY <1>0, <2>2, <3>5, ControlGoes
    <3> QED
      BY <1>2, <2>2, <3>2, <3>3, <3>4, <3>5 DEF Hops, Hop, Goto
  <2>3. ASSUME NEW m \in Motors, NEW i \in DOMAIN program.setup, IsWrite(i)
        PROVE  /\ motorState'[m] = "RUN" => Done(m, i)'
               /\ \A q \in DOMAIN toMotors : IsFor(q, m, "enable")' => DoneAfter(m, i, q - 1)'
               /\ at' = "setup" /\ m = Addressed' /\ i < step' => DoneAfter(m, i, n)'
    BY <2>1, <2>2, <2>3 DEF WritesFirst, IsFor, Done, DoneAfter, Frame, deviceVars, Addressed
  <2> QED
    BY <2>1, <2>3 DEF WritesFirst, IsWrite
<1> QED
  BY <1>0, <1>1, <1>2, StepKinds, WritesPopped, WritesIssued

LEMMA WritesInit == Init => WritesFirst
<1> SUFFICES ASSUME Init PROVE WritesFirst
  OBVIOUS
<1>1. /\ at = "start" /\ DOMAIN toMotors = {} /\ \A m \in Motors : motorState[m] = "RESET"
  BY DEF Init
<1> QED
  BY <1>1 DEF WritesFirst

\* In every program a motor runs only with its mode and its limits written, unless one
\* of these writes was lost on the bus: whatever is acknowledged, refused or late.
THEOREM RunsOnlyConfigured == Spec => []RunsConfigured
<1>1. WritesFirst => RunsConfigured
  BY DEF WritesFirst, RunsConfigured, IsWrite, Done
<1> QED
  BY <1>1, SessionTypesInit, SessionTypesStep, IdleInit, IdleStep, WritesInit, WritesStep, PTL DEF Spec

-----------------------------------------------------------------------------
(* Control frames find their motor powered and configured                  *)

LEMMA PoweredPopped ==
  ASSUME TypeOK, Places, Popped, NEW m \in Motors, NEW k \in 1 .. Len(toMotors), PoweredAfter(m, k)
  PROVE  PoweredAfter(m, k - 1)'
<1> DEFINE h == Head(toMotors)
<1>0. Len(toMotors) \in Nat
  BY QueueFacts
<1>1. PICK n \in Nat : n = Len(toMotors)
  BY <1>0
<1>2. /\ k \in 1 .. n /\ n >= 1 /\ h = toMotors[1] /\ 1 \in 1 .. k
      /\ \A i \in 1 .. n - 1 : toMotors'[i] = toMotors[i + 1]
  BY <1>1, PopFacts
<1>3. lost \subseteq lost' /\ (Obey(h) \/ (UNCHANGED deviceVars /\ lost' = lost \cup {Recorded(h)}))
  BY DEF Popped
<1>4. \A r \in 1 .. k - 1 : r \in 1 .. n - 1 /\ r + 1 \in 1 .. k
  BY <1>2
<1>5. \A r \in 1 .. k - 1 : toMotors'[r].cmd # "stop"
  BY <1>2, <1>4 DEF PoweredAfter
<1>6. motorState'[m] = "RUN" \/ EnableLost(m)' \/ \E r \in 1 .. k - 1 : IsFor(r, m, "enable")'
  <2>1. CASE motorState[m] = "RUN"
    <3>1. h.cmd # "stop"
      BY <1>2 DEF PoweredAfter
    <3>2. motorState'[m] = "RUN"
      BY <1>3, <2>1, <3>1 DEF Obey, deviceVars, TypeOK
    <3> QED
      BY <3>2
  <2>2. CASE EnableLost(m)
    BY <1>3, <2>2 DEF EnableLost
  <2>3. ASSUME NEW r \in 1 .. k, IsFor(r, m, "enable")
        PROVE  motorState'[m] = "RUN" \/ EnableLost(m)' \/ \E q \in 1 .. k - 1 : IsFor(q, m, "enable")'
    <3>1. CASE r = 1
      <4>1. h.motor = m /\ h.cmd = "enable"
        BY <1>2, <2>3, <3>1 DEF IsFor
      <4>2. CASE Obey(h)
        <5>1. motorState'[m] = "RUN"
          BY <4>1, <4>2 DEF Obey, TypeOK
        <5> QED
          BY <5>1
      <4>3. CASE lost' = lost \cup {Recorded(h)}
        <5>1. Recorded(h) = h
          BY <4>1 DEF Recorded
        <5> QED
          BY <4>1, <4>3, <5>1 DEF EnableLost
      <4> QED
        BY <1>3, <4>2, <4>3
    <3>2. CASE r # 1
      <4>1. r - 1 \in 1 .. k - 1 /\ r - 1 \in 1 .. n - 1 /\ (r - 1) + 1 = r
        BY <1>2, <3>2
      <4>2. IsFor(r - 1, m, "enable")'
        BY <1>2, <2>3, <4>1 DEF IsFor
      <4> QED
        BY <4>1, <4>2
    <3> QED
      BY <3>1, <3>2
  <2> QED
    BY <2>1, <2>2, <2>3 DEF PoweredAfter
<1> QED
  BY <1>5, <1>6 DEF PoweredAfter

LEMMA PoweredSent ==
  ASSUME TypeOK, Places, NEW r \in Requests, Sent(r), NEW m \in Motors,
         NEW k \in 0 .. Len(toMotors), PoweredAfter(m, k), ~(r.motor = m /\ r.cmd = "enable")
  PROVE  PoweredAfter(m, k)'
<1>0. Len(toMotors) \in Nat
  BY QueueFacts
<1>1. PICK n \in Nat : n = Len(toMotors)
  BY <1>0
<1>2. \A i \in 1 .. k : i \in 1 .. n
  BY <1>1
<1>3. \A i \in 1 .. k : toMotors'[i] = toMotors[i]
  BY <1>1, <1>2, SentFacts
<1>4. EnableLost(m) => EnableLost(m)'
  BY DEF EnableLost, Sent
<1>5. motorState' = motorState
  BY DEF Sent, deviceVars
<1> QED
  BY <1>3, <1>4, <1>5 DEF PoweredAfter, IsFor

\* A request other than stop() at the end of the queue takes nothing away.
LEMMA PoweredOneMore ==
  ASSUME TypeOK, Places, NEW m \in Motors, NEW k \in Nat, PoweredAfter(m, k), toMotors[k + 1].cmd # "stop"
  PROVE  PoweredAfter(m, k + 1)
<1>1. \A i \in 1 .. k + 1 : i \in 1 .. k \/ i = k + 1
  OBVIOUS
<1>2. \A i \in 1 .. k : i \in 1 .. k + 1
  OBVIOUS
<1> QED
  BY <1>1, <1>2 DEF PoweredAfter

\* Only the loop and what precedes it has the guarantee to keep.
LEMMA ReachedBefore ==
  ASSUME TypeOK, Places, Hops, [Next]_vars, NEW m, Reached(m)', at' \in {"setup", "loop", "send"}
  PROVE  Reached(m) /\ at \in {"setup", "loop", "send"}
<1>1. program' = program /\ program.setup # <<>> /\ program.loop = "control"
  BY ProgramStays, ProgramFacts DEF Reached, Regular
<1>2. /\ motor \in 1 .. Len(program.motors) /\ step \in Nat /\ Len(program.setup) \in Nat
      /\ DOMAIN program.motors = 1 .. Len(program.motors) /\ waiting \in BOOLEAN
  BY ProgramFacts
<1>3. CASE UNCHANGED mainVars
  BY <1>1, <1>3 DEF Reached, mainVars
<1>4. CASE at = "start"
  <2>1. ~waiting
    BY <1>2, <1>4 DEF Places, Waits
  <2>2. at' = "setup" /\ motor' = 1 /\ waiting' = waiting
    BY <1>1, <1>4 DEF Hops, Hop, Goto, mainVars, Waits
  <2>3. \A j \in DOMAIN program.motors : ~(j < 1)
    BY <1>2
  <2> QED
    BY <1>1, <2>1, <2>2, <2>3 DEF Reached
<1>5. ASSUME NEW ok \in BOOLEAN, at \in Waits, Continue(ok), waiting \/ ok = FALSE
      PROVE  Reached(m) /\ at \in {"setup", "loop", "send"}
  <2>1. Outcome(ok) /\ waiting' = FALSE
    BY <1>5, ContinueGoes
  <2>2. /\ at = "setup" /\ ok
        /\ \/ step < Len(program.setup) /\ Goto("setup", motor, step + 1)
           \/ step = Len(program.setup) /\ motor < Len(program.motors) /\ Goto("setup", motor + 1, 1)
           \/ step = Len(program.setup) /\ motor = Len(program.motors) /\ Goto("loop", 1, 1)
    BY <1>1, <2>1 DEF Outcome, Goto
  <2>3. waiting
    BY <1>5, <2>2
  <2>4. CASE step < Len(program.setup) /\ Goto("setup", motor, step + 1)
    <3>1. PICK j \in DOMAIN program.motors : program.motors[j] = m /\ j < motor
      BY <1>1, <2>1, <2>4 DEF Reached, Goto
    <3> QED
      BY <1>1, <2>2, <3>1 DEF Reached
  <2>5. CASE step = Len(program.setup) /\ Goto("setup", motor + 1, 1)
    <3>1. PICK j \in DOMAIN program.motors : program.motors[j] = m /\ j < motor + 1
      BY <1>1, <2>1, <2>5 DEF Reached, Goto
    <3>2. j < motor \/ j = motor
      BY <1>2, <3>1
    <3> QED
      BY <1>1, <2>2, <2>3, <2>5, <3>1, <3>2 DEF Reached
  <2>6. CASE step = Len(program.setup) /\ motor = Len(program.motors) /\ Goto("loop", 1, 1)
    <3>1. PICK j \in DOMAIN program.motors : program.motors[j] = m
      BY <1>1 DEF Reached
    <3>2. j < motor \/ j = motor
      BY <1>2, <2>6, <3>1
    <3> QED
      BY <1>1, <2>2, <2>3, <2>6, <3>1, <3>2 DEF Reached
  <2> QED
    BY <2>2, <2>4, <2>5, <2>6
<1>6. CASE at = "loop" \/ at = "send"
  BY <1>1, <1>6 DEF Reached
<1>7. CASE /\ UNCHANGED <<motor, step, waiting, code>>
           /\ <<at, at'>> \in {<<"unlink", "close">>, <<"close", "join">>, <<"join", "exited">>}
  BY <1>7
<1> QED
  BY <1>3, <1>4, <1>5, <1>6, <1>7 DEF Hops, Hop
LEMMA SetupSends ==
  ASSUME TypeOK, Places, at = "setup"
  PROVE  /\ Command.cmd \notin {"stop", "control"}
         /\ Command.cmd = "write" => step # Len(program.setup)
<1>1. Command = program.setup[step] /\ step \in DOMAIN program.setup
  BY CommandSent DEF Waits
<1>2. program.setup[step] \in SetupCommands
  BY <1>1, ProgramFacts, ElementOfSeq
<1>3. Command.cmd = "write" => IsWrite(step)
  BY <1>1 DEF IsWrite
<1> QED
  BY <1>1, <1>2, <1>3, SetupWrites DEF SetupCommands

LEMMA ControlPopped ==
  ASSUME SessionTypes, ControlLast, Popped
  PROVE  ControlLast'
<1>0. TypeOK /\ Places
  BY DEF SessionTypes
<1>a. Len(toMotors) \in Nat
  BY <1>0, QueueFacts
<1>b. PICK n \in Nat : n = Len(toMotors)
  BY <1>a
<1>1. /\ n >= 1 /\ DOMAIN toMotors = 1 .. n /\ DOMAIN toMotors' = 1 .. n - 1 /\ Len(toMotors') = n - 1
      /\ \A i \in 1 .. n - 1 : toMotors'[i] = toMotors[i + 1]
      /\ \A i \in 1 .. n : toMotors[i] \in Requests
  BY <1>0, <1>b, QueueFacts, PopFacts
<1>2. program' = program /\ UNCHANGED <<at, motor, step, waiting>>
  BY DEF Popped, mainVars
<1>3. \A m : Reached(m)' <=> Reached(m)
  BY <1>2 DEF Reached
<1>4. \A i \in 1 .. n - 1 : i + 1 \in 1 .. n /\ (i + 1) - 1 = i /\ i \in 1 .. n
  BY <1>1
<1>5. n \in 1 .. n
  BY <1>1
<1> SUFFICES ASSUME program.loop = "control" PROVE ControlLast'
  BY <1>2 DEF ControlLast
<1>6. ASSUME NEW m \in Motors, PoweredAfter(m, n) PROVE PoweredAfter(m, n - 1)'
  BY <1>0, <1>b, <1>5, <1>6, PoweredPopped
<1>7. ASSUME NEW q \in 1 .. n - 1, toMotors'[q].cmd = "control"
      PROVE  PoweredAfter(toMotors[q].motor, q - 1)'
  <2>1. q + 1 \in 1 .. n /\ (q + 1) - 1 = q /\ q \in 1 .. n /\ toMotors'[q] = toMotors[q + 1]
    BY <1>1, <1>4
  <2>2. toMotors[q + 1].cmd = "control"
    BY <1>7, <2>1
  <2>3. PoweredAfter(toMotors[q + 1].motor, q)
    BY <1>1, <2>1, <2>2 DEF ControlLast
  <2>4. toMotors[q + 1].motor \in Motors
    BY <1>0, <1>1, <2>1, RequestKinds
  <2>5. PICK m \in Motors : m = toMotors[q + 1].motor
    BY <2>4
  <2>6. PoweredAfter(m, q - 1)'
    BY <1>0, <1>b, <2>1, <2>3, <2>5, PoweredPopped
  <2> QED
    BY <2>1, <2>5, <2>6 DEF PoweredAfter, EnableLost, IsFor
<1>8. \A i \in 1 .. n - 1 : /\ (at \in {"start", "setup", "loop", "send"} => toMotors'[i].cmd # "stop")
                            /\ (at \in {"start", "setup"} => toMotors'[i].cmd # "control")
  BY <1>1, <1>4 DEF ControlLast
<1>9. at \in {"setup", "loop", "send"} => \A m \in Motors : Reached(m) => PoweredAfter(m, n)
  BY <1>b DEF ControlLast
<1> QED
  BY <1>1, <1>2, <1>3, <1>6, <1>7, <1>8, <1>9 DEF ControlLast

LEMMA ControlSent ==
  ASSUME SessionTypes, ControlLast, [Next]_vars, NEW r \in Requests, Sent(r), program.loop = "control",
         \* stop frames are sent by stop() and by a safety stop, control frames by the loop
         r.cmd = "stop" => at' \notin {"start", "setup", "loop", "send"},
         r.cmd = "control" => at = "send" /\ Reached(r.motor),
         at' \in {"start", "setup"} => at = "setup",
         at' \in {"loop", "send"} => at \in {"setup", "send"},
         at' \in {"setup", "loop", "send"} =>
           \A m \in Motors : Reached(m)' => Reached(m) \/ (r.motor = m /\ r.cmd = "enable"),
         r.cmd = "enable" => at = "setup" /\ ~Reached(r.motor)
  PROVE  ControlLast'
<1>0. TypeOK /\ Places
  BY DEF SessionTypes
<1>a. Len(toMotors) \in Nat
  BY <1>0, QueueFacts
<1>b. PICK n \in Nat : n = Len(toMotors)
  BY <1>a
<1>1. /\ DOMAIN toMotors = 1 .. n /\ DOMAIN toMotors' = 1 .. n + 1 /\ Len(toMotors') = n + 1
      /\ \A i \in 1 .. n : toMotors'[i] = toMotors[i] /\ toMotors[i] \in Requests
      /\ toMotors'[n + 1] = r
  BY <1>0, <1>b, QueueFacts, SentFacts
<1>2. program' = program /\ motorState' = motorState
  BY DEF Sent, deviceVars
<1>3. \A i \in 1 .. n + 1 : i \in 1 .. n \/ i = n + 1
  OBVIOUS
<1>4. ASSUME NEW m \in Motors, NEW k \in 0 .. n, PoweredAfter(m, k), ~(r.motor = m /\ r.cmd = "enable")
      PROVE  PoweredAfter(m, k)'
  BY <1>0, <1>b, <1>4, PoweredSent
<1>5. ASSUME at' \in {"start", "setup", "loop", "send"} PROVE \A i \in 1 .. n + 1 : toMotors'[i].cmd # "stop"
  <2>1. \A i \in 1 .. n : toMotors[i].cmd # "stop"
    BY <1>1, <1>5 DEF ControlLast
  <2> QED
    BY <1>1, <1>3, <1>5, <2>1
<1>6. ASSUME at' \in {"start", "setup"} PROVE \A i \in 1 .. n + 1 : toMotors'[i].cmd # "control"
  <2>1. \A i \in 1 .. n : toMotors[i].cmd # "control"
    BY <1>1, <1>6 DEF ControlLast
  <2> QED
    BY <1>1, <1>3, <1>6, <2>1
<1>7. ASSUME at' \in {"setup", "loop", "send"}, NEW m \in Motors, Reached(m)'
      PROVE  PoweredAfter(m, n + 1)'
  <2>1. \A i \in 1 .. n + 1 : toMotors'[i].cmd # "stop"
    BY <1>5, <1>7
  <2>2. CASE r.motor = m /\ r.cmd = "enable"
    <3>1. n + 1 \in 1 .. n + 1 /\ IsFor(n + 1, m, "enable")'
      BY <1>1, <2>2 DEF IsFor
    <3> QED
      BY <2>1, <3>1 DEF PoweredAfter
  <2>3. CASE ~(r.motor = m /\ r.cmd = "enable")
    <3>1. Reached(m) /\ at \in {"setup", "loop", "send"} /\ n \in 0 .. n
      BY <1>7, <2>3
    <3>2. PoweredAfter(m, n)
      BY <1>b, <3>1 DEF ControlLast
    <3>3. PoweredAfter(m, n)'
      BY <1>4, <2>3, <3>1, <3>2
    <3>4. \A i \in 1 .. n : i \in 1 .. n + 1
      OBVIOUS
    <3> QED
      BY <2>1, <3>3, <3>4 DEF PoweredAfter
  <2> QED
    BY <2>2, <2>3
<1>8. ASSUME NEW q \in 1 .. n + 1, toMotors'[q].cmd = "control"
      PROVE  PoweredAfter(toMotors[q].motor, q - 1)'
  <2>1. CASE q \in 1 .. n
    <3>1. toMotors[q].cmd = "control" /\ toMotors[q] \in Requests /\ toMotors'[q] = toMotors[q]
      BY <1>1, <1>8, <2>1
    <3>2. PICK m \in Motors : m = toMotors[q].motor
      BY <1>0, <3>1, RequestKinds
    <3>3. PoweredAfter(m, q - 1) /\ q - 1 \in 0 .. n
      BY <1>1, <2>1, <3>1, <3>2 DEF ControlLast
    <3>4. ~(r.motor = m /\ r.cmd = "enable")
      \* no control frame is under way while a motor is set up
      BY <1>1, <2>1, <3>1 DEF ControlLast
    <3> QED
      <4>1. PoweredAfter(m, q - 1)' /\ m = toMotors'[q].motor
        BY <1>4, <3>1, <3>2, <3>3, <3>4
      <4> QED
        BY <4>1 DEF PoweredAfter, EnableLost, IsFor
  <2>2. CASE q = n + 1
    <3>1. r.cmd = "control" /\ toMotors'[q] = r /\ q - 1 = n /\ n \in 0 .. n
      BY <1>1, <1>8, <2>2
    <3>2. PICK m \in Motors : m = r.motor
      BY <1>0, RequestKinds
    <3>3. PoweredAfter(m, n)
      BY <1>b, <3>1, <3>2 DEF ControlLast
    <3> QED
      <4>1. PoweredAfter(m, q - 1)' /\ m = toMotors'[q].motor
        BY <1>4, <3>1, <3>2, <3>3
      <4> QED
        BY <4>1 DEF PoweredAfter, EnableLost, IsFor
  <2> QED
    BY <1>3, <2>1, <2>2
<1> QED
  BY <1>1, <1>2, <1>5, <1>6, <1>7, <1>8 DEF ControlLast
LEMMA ControlHops ==
  ASSUME SessionTypes, ControlLast, Hops, [Next]_vars
  PROVE  ControlLast'
<1>0. TypeOK /\ Places
  BY DEF SessionTypes
<1>1. program' = program /\ UNCHANGED <<toMotors, motorState, lost>>
  BY DEF Hops, deviceVars
<1> SUFFICES ASSUME program.loop = "control" PROVE ControlLast'
  BY <1>1 DEF ControlLast
<1>2. \A m, k : PoweredAfter(m, k)' <=> PoweredAfter(m, k)
  BY <1>1 DEF PoweredAfter, EnableLost, IsFor
<1>3. at' \in {"start", "setup"} => at \in {"start", "setup"}
  BY <1>0, SetupIsOver
<1>4. at' \in {"loop", "send"} => at \in {"start", "setup", "loop", "send"}
  <2>1. ASSUME NEW ok \in BOOLEAN, at \in Waits, Continue(ok), at' \in {"loop", "send"} PROVE at = "setup"
    BY <1>0, <2>1, ContinueGoes DEF Outcome, Goto
  <2> QED
    BY <2>1 DEF Hops, Hop, mainVars
<1>5. \A m : Reached(m)' /\ at' \in {"setup", "loop", "send"} => Reached(m) /\ at \in {"setup", "loop", "send"}
  BY <1>0, ReachedBefore
<1>6. at' \in {"start", "setup", "loop", "send"} => at \in {"start", "setup", "loop", "send"}
  BY <1>3, <1>4
<1>7. ASSUME at' \in {"start", "setup", "loop", "send"} PROVE \A i \in DOMAIN toMotors' : toMotors'[i].cmd # "stop"
  BY <1>1, <1>6, <1>7 DEF ControlLast
<1>8. ASSUME at' \in {"start", "setup"} PROVE \A i \in DOMAIN toMotors' : toMotors'[i].cmd # "control"
  BY <1>1, <1>3, <1>8 DEF ControlLast
<1>9. ASSUME at' \in {"setup", "loop", "send"}, NEW m \in Motors, Reached(m)' PROVE PoweredAfter(m, Len(toMotors))'
  <2>1. PoweredAfter(m, Len(toMotors))
    BY <1>5, <1>9 DEF ControlLast
  <2> QED
    BY <1>1, <2>1 DEF PoweredAfter, EnableLost, IsFor
<1>10. ASSUME NEW q \in DOMAIN toMotors', toMotors'[q].cmd = "control" PROVE PoweredAfter(toMotors[q].motor, q - 1)'
  <2>1. PoweredAfter(toMotors[q].motor, q - 1)
    BY <1>1, <1>10 DEF ControlLast
  <2> QED
    BY <1>1, <2>1 DEF PoweredAfter, EnableLost, IsFor
<1> QED
  BY <1>1, <1>7, <1>8, <1>9, <1>10 DEF ControlLast

LEMMA ControlIssued ==
  ASSUME SessionTypes, ControlLast, Issued, [Next]_vars, program.loop = "control"
  PROVE  ControlLast'
<1> DEFINE r == Frame(Addressed, Command)
<1>0. TypeOK /\ Places
  BY DEF SessionTypes
<1>1. r \in Requests /\ Sent(r) /\ at \in Waits /\ ~waiting
  BY <1>0, CommandSent DEF Issued
<1>2. r.motor = Addressed /\ r.cmd = Command.cmd
  BY DEF Frame
<1>3. program' = program
  BY <1>0, ProgramStays
<1>4. at # "ping"
  BY <1>0 DEF Places
<1>5. at = "setup" => Command.cmd \notin {"stop", "control"} /\ (Command.cmd = "write" => step # Len(program.setup))
  BY <1>0, SetupSends
<1>6. at # "setup" => Command.cmd = "stop"
  BY <1>1, <1>4 DEF Command, Waits, Sync
<1>7. Command.cmd = "enable" => at = "setup" /\ step = Len(program.setup)
  BY <1>0, <1>1, EnableIsLast
<1>8. CASE at = "setup" /\ Command.cmd = "write"
  <2>1. Outcome(TRUE) /\ waiting' = FALSE
    <3>1. Continue(TRUE)
      BY <1>8 DEF Issued
    <3> QED
      BY <1>0, <1>1, <3>1, ContinueGoes
  <2>2. Goto("setup", motor, step + 1)
    BY <1>5, <1>8, <2>1 DEF Outcome
  <2>3. \A m : Reached(m)' => Reached(m)
    BY <1>3, <1>8, <2>1, <2>2 DEF Reached, Goto
  <2>4. at' = "setup" /\ r.cmd = "write"
    BY <1>2, <1>8, <2>2 DEF Goto
  <2> HIDE DEF r
  <2> QED
    BY <1>1, <1>8, <2>3, <2>4, ControlSent
<1>9. CASE at = "setup" /\ Command.cmd # "write"
  <2>1. waiting' = TRUE /\ UNCHANGED <<at, motor, step>>
    BY <1>9 DEF Issued
  <2>2. ASSUME NEW m \in Motors, Reached(m)' PROVE Reached(m) \/ (m = Addressed /\ Command.cmd = "enable")
    <3>1. PICK k \in DOMAIN program.motors :
            program.motors[k] = m /\ (k < motor \/ (k = motor /\ step = Len(program.setup)))
      BY <1>3, <1>9, <2>1, <2>2 DEF Reached
    <3>2. CASE k < motor
      BY <1>3, <1>9, <2>2, <3>1, <3>2 DEF Reached
    <3>3. CASE k = motor /\ step = Len(program.setup)
      <4>1. program.setup[step].cmd = "enable" /\ Command = program.setup[step]
        BY <1>0, <1>1, <1>9, <3>3, CommandSent, ProgramFacts DEF Regular, Proper
      <4> QED
        BY <3>1, <3>3, <4>1 DEF Addressed
    <3> QED
      BY <3>1, <3>2, <3>3
  <2>3. ~Reached(Addressed)
    BY <1>0, <1>1, <1>9, NotReachedYet
  <2> HIDE DEF r
  <2> QED
    BY <1>1, <1>2, <1>5, <1>9, <2>1, <2>2, <2>3, ControlSent
<1>10. CASE at # "setup"
  <2>1. Command.cmd = "stop" /\ UNCHANGED at
    BY <1>6, <1>10 DEF Issued
  <2>2. at \in {"overrun", "stop"}
    BY <1>1, <1>4, <1>10 DEF Waits
  <2> HIDE DEF r
  <2> QED
    BY <1>1, <1>2, <2>1, <2>2, ControlSent
<1> QED
  BY <1>8, <1>9, <1>10

LEMMA ControlStreams ==
  ASSUME SessionTypes, ControlLast, Streams, [Next]_vars, program.loop = "control"
  PROVE  ControlLast'
<1> DEFINE r == Frame(Addressed, Streamed)
<1>0. TypeOK /\ Places
  BY DEF SessionTypes
<1>1. r \in Requests /\ Sent(r) /\ at = "send" /\ r.motor = Addressed /\ r.cmd = "control"
  BY <1>0, StreamedSent DEF Streams, Frame, Streamed
<1>2. at' \notin {"start", "setup"}
  BY <1>0, <1>1, SetupIsOver
<1>3. Reached(Addressed)
  <2>1. program.setup # <<>> /\ motor \in DOMAIN program.motors /\ Addressed = program.motors[motor]
    BY <1>0, ProgramFacts DEF Regular, Addressed
  <2> QED
    BY <1>1, <2>1 DEF Reached
<1>4. \A m : Reached(m)' => Reached(m)
  <2>1. program' = program
    BY <1>0, ProgramStays
  <2> QED
    BY <1>1, <2>1 DEF Reached
<1> HIDE DEF r
<1> QED
  BY <1>1, <1>2, <1>3, <1>4, ControlSent

LEMMA ControlLastStep == SessionTypes /\ ControlLast /\ [Next]_vars => ControlLast'
<1> SUFFICES ASSUME SessionTypes, ControlLast, [Next]_vars PROVE ControlLast'
  OBVIOUS
<1>0. TypeOK /\ Places
  BY DEF SessionTypes
<1>1. Popped \/ Issued \/ Streams \/ Hops
  BY <1>0, StepKinds
<1>2. CASE program.loop # "control"
  BY <1>0, <1>2, ProgramStays DEF ControlLast
<1> QED
  BY <1>1, <1>2, ControlPopped, ControlIssued, ControlStreams, ControlHops

LEMMA ControlLastInit == Init => ControlLast
BY DEF Init, ControlLast

\* A control frame that reaches its motor while every setup frame did finds it running in
\* the mode its reference belongs to: the enable is ahead of it, the writes are ahead of
\* the enable, and no stop frame comes between.
LEMMA HeadFindsMotorReady ==
  ASSUME TypeOK, Places, WritesFirst, ControlLast
  PROVE  ControlFindsMotorReady
<1> DEFINE h == Head(toMotors)
           m == h.motor
<1> SUFFICES ASSUME toMotors # <<>>, h.cmd = "control", program.loop = "control"
             PROVE  Ready(m, h.write.param) \/ \E f \in lost : f.motor = m /\ f.cmd \in {"enable", "write"}
  BY DEF ControlFindsMotorReady
<1>1. Len(toMotors) \in Nat /\ DOMAIN toMotors = 1 .. Len(toMotors) /\ Len(toMotors) >= 1 /\ h = toMotors[1]
  BY EmptySeq, LenProperties, HeadTailProperties DEF Places
<1>2. 1 \in DOMAIN toMotors /\ h \in Requests
  BY <1>1, QueueFacts
<1>3. m \in Motors /\ h.write.param = program.reference
  BY <1>2, RequestKinds
<1>4. motorState[m] = "RUN" \/ EnableLost(m)
  <2>1. PoweredAfter(m, 1 - 1)
    BY <1>1, <1>2 DEF ControlLast
  <2> QED
    BY <2>1 DEF PoweredAfter
<1>5. CASE EnableLost(m)
  BY <1>5 DEF EnableLost
<1>6. CASE motorState[m] = "RUN" /\ program.protocol # "PRIVATE"
  BY <1>6 DEF Ready
<1>7. CASE motorState[m] = "RUN" /\ program.protocol = "PRIVATE"
  <2>1. SetsModeFor(program.setup, program.reference) /\ DOMAIN program.setup = 1 .. Len(program.setup)
    BY <1>7, ProgramFacts DEF Regular
  <2>2. PICK i \in DOMAIN program.setup, mode \in Modes :
          /\ program.setup[i] = [cmd |-> "write", write |-> Write("RUN_MODE", mode)]
          /\ ReferenceOf[mode] = program.reference
    BY <2>1 DEF SetsModeFor
  <2>3. program.setup[i].cmd = "write" /\ program.setup[i].write = Write("RUN_MODE", mode)
    BY <2>2
  <2>4. Done(m, i)
    BY <1>3, <1>7, <2>3 DEF WritesFirst, IsWrite
  <2>5. CASE Frame(m, program.setup[i]) \in lost
    BY <2>3, <2>5 DEF Frame
  <2>6. CASE ram[m][program.setup[i].write.param] = program.setup[i].write.value
    <3>1. ram[m]["RUN_MODE"] = mode
      BY <2>3, <2>6 DEF Write
    <3> QED
      BY <1>3, <1>7, <2>2, <3>1 DEF Ready
  <2> QED
    BY <2>4, <2>5, <2>6 DEF Done
<1> QED
  BY <1>4, <1>5, <1>6, <1>7

\* The control frames an example streams find a motor that runs in the mode they are
\* meant for, unless a write or the enable of that motor was lost on the bus.
THEOREM ControlFramesFindMotorReady == Spec => []ControlFindsMotorReady
<1>1. SessionTypes /\ WritesFirst /\ ControlLast => ControlFindsMotorReady
  BY HeadFindsMotorReady DEF SessionTypes
<1> QED
  BY <1>1, SessionTypesInit, SessionTypesStep, IdleInit, IdleStep, WritesInit, WritesStep,
     ControlLastInit, ControlLastStep, PTL DEF Spec
-----------------------------------------------------------------------------
(* Every motor is stopped in the end                                       *)

LEMMA LinkKinds ==
  ASSUME Places, [Next]_vars
  PROVE  \/ at = "start" /\ Opens(Kind)
         \/ ~medium'
         \/ at' \in Unlinked
         \/ at \notin Unlinked /\ UNCHANGED transportVars
         \/ UNCHANGED at /\ ReadFails(Kind)
<1>1. ASSUME NEW r, SendFails(r) PROVE ~medium' \/ UNCHANGED transportVars
  BY <1>1 DEF SendFails, TransmitFails, transportVars
<1>2. ASSUME NEW r, Sends(r) PROVE UNCHANGED transportVars
  BY <1>2 DEF Sends, Transmits
<1>3. CASE Connect
  BY <1>3 DEF Connect, Unlinked
<1>4. CASE Issue
  <2>1. at \notin Unlinked
    BY <1>4 DEF Issue, Unlinked
  <2> QED
    BY <1>1, <1>2, <1>4, <2>1 DEF Issue
<1>5. CASE Acknowledged \/ Expires
  BY <1>5 DEF Acknowledged, Expires, Places, Waits, Unlinked
<1>6. CASE Loop
  BY <1>6 DEF Loop, Unlinked
<1>7. CASE Control
  <2>1. at \notin Unlinked
    BY <1>7 DEF Control, Unlinked
  <2> QED
    BY <1>1, <1>2, <1>7, <2>1 DEF Control
<1>8. CASE Close \/ Join
  BY <1>8 DEF Close, Join, Unlinked
<1>9. CASE RxStep
  BY <1>9 DEF RxStep, RxEnter, RxCall, RxFrame, RxTimeout, RxFails, RxUnchanged, mainVars
<1>10. CASE Bus
  BY <1>10 DEF Bus, MotorAnswers, LoseRequest, LoseReply, mainVars
<1>11. CASE Interrupt \/ InterfaceDown \/ Ended \/ UNCHANGED vars
  BY <1>11 DEF Interrupt, InterfaceDown, MediumDown, Ended, vars, mainVars
<1> QED
  BY <1>3, <1>4, <1>5, <1>6, <1>7, <1>8, <1>9, <1>10, <1>11 DEF Next, MainStep

LEMMA LinkedStep == SessionTypes /\ Linked /\ [Next]_vars => Linked'
<1> SUFFICES ASSUME SessionTypes, Linked, [Next]_vars, medium', at' \notin Unlinked
             PROVE  fd' /\ Connected'
  BY DEF Linked, Unlinked
<1>1. Places /\ Kind' = Kind
  BY ProgramStays DEF SessionTypes, Kind
<1>2. CASE Opens(Kind)
  BY <1>1, <1>2 DEF Opens, Connected, IsConnected
<1>3. CASE at \notin Unlinked /\ UNCHANGED transportVars
  BY <1>1, <1>3 DEF Linked, Connected, IsConnected, transportVars
<1>4. CASE UNCHANGED at /\ ReadFails(Kind)
  BY <1>4 DEF ReadFails, Readable, Linked
<1> QED
  BY <1>1, <1>2, <1>3, <1>4, LinkKinds

LEMMA LinkedInit == Init => Linked
BY DEF Init, Linked, Unlinked

LEMMA WillStopPopped ==
  ASSUME TypeOK, Places, Popped, NEW m \in Motors, WillStop(m)
  PROVE  StopFrame(m) \in lost' \/ WillStop(m)'
<1> DEFINE h == Head(toMotors)
           f == StopFrame(m)
<1>0. Len(toMotors) \in Nat
  BY QueueFacts
<1>1. PICK n \in Nat : n = Len(toMotors)
  BY <1>0
<1>2. /\ n >= 1 /\ h = toMotors[1] /\ DOMAIN toMotors = 1 .. n /\ DOMAIN toMotors' = 1 .. n - 1
      /\ \A i \in 1 .. n - 1 : toMotors'[i] = toMotors[i + 1]
  BY <1>1, QueueFacts, PopFacts
<1>3. CASE Idle(m)
  BY <1>3, IdlePopped DEF WillStop
<1>4. ASSUME NEW q \in 1 .. n, toMotors[q] = f, \A r \in 1 .. n : r > q => ~IsFor(r, m, "enable")
      PROVE  f \in lost' \/ WillStop(m)'
  <2>1. \A r \in 1 .. n - 1 : r + 1 \in 1 .. n /\ toMotors'[r] = toMotors[r + 1]
    BY <1>2
  <2>2. CASE q = 1
    <3>1. h.motor = m /\ h.cmd = "stop" /\ h = f
      BY <1>2, <1>4, <2>2 DEF StopFrame, Frame, Sync
    <3>2. CASE Obey(h)
      <4>1. motorState'[m] = "RESET"
        BY <3>1, <3>2 DEF Obey, TypeOK
      <4>2. \A r \in 1 .. n - 1 : r + 1 > q
        BY <2>2
      <4>3. \A r \in 1 .. n - 1 : ~IsFor(r, m, "enable")'
        BY <1>4, <2>1, <4>2 DEF IsFor
      <4> QED
        BY <1>2, <4>1, <4>3 DEF WillStop, Idle
    <3>3. CASE lost' = lost \cup {Recorded(h)}
      <4>1. Recorded(h) = f
        BY <3>1 DEF Recorded
      <4> QED
        BY <3>3, <4>1
    <3> QED
      BY <3>2, <3>3 DEF Popped
  <2>3. CASE q # 1
    <3>1. q - 1 \in 1 .. n - 1 /\ (q - 1) + 1 = q
      BY <1>2, <2>3
    <3>2. toMotors'[q - 1] = f /\ f' = f
      BY <1>4, <2>1, <3>1 DEF StopFrame, Frame
    <3>3. \A r \in 1 .. n - 1 : r > q - 1 => r + 1 > q
      BY <1>2
    <3>4. \A r \in 1 .. n - 1 : r > q - 1 => ~IsFor(r, m, "enable")'
      BY <1>4, <2>1, <3>3 DEF IsFor
    <3> QED
      BY <1>2, <3>1, <3>2, <3>4 DEF WillStop
  <2> QED
    BY <2>2, <2>3
<1> QED
  BY <1>2, <1>3, <1>4 DEF WillStop

LEMMA WillStopSent ==
  ASSUME TypeOK, Places, NEW r \in Requests, Sent(r), NEW m \in Motors, r.cmd # "enable",
         WillStop(m) \/ r = StopFrame(m)
  PROVE  WillStop(m)'
<1> DEFINE f == StopFrame(m)
<1>0. Len(toMotors) \in Nat
  BY QueueFacts
<1>1. PICK n \in Nat : n = Len(toMotors)
  BY <1>0
<1>2. /\ DOMAIN toMotors = 1 .. n /\ DOMAIN toMotors' = 1 .. n + 1
      /\ \A i \in 1 .. n : toMotors'[i] = toMotors[i]
      /\ toMotors'[n + 1] = r
  BY <1>1, QueueFacts, SentFacts
<1>3. \A i \in 1 .. n + 1 : i \in 1 .. n \/ i = n + 1
  OBVIOUS
<1>4. f' = f
  BY DEF StopFrame, Frame
<1>5. CASE Idle(m)
  BY <1>5, IdleSent DEF WillStop
<1>6. ASSUME NEW q \in 1 .. n, toMotors[q] = f, \A i \in 1 .. n : i > q => ~IsFor(i, m, "enable")
      PROVE  WillStop(m)'
  <2>1. q \in 1 .. n + 1 /\ toMotors'[q] = f'
    BY <1>2, <1>4, <1>6
  <2>2. \A i \in 1 .. n + 1 : i > q => ~IsFor(i, m, "enable")'
    BY <1>2, <1>3, <1>6 DEF IsFor
  <2> QED
    BY <1>2, <2>1, <2>2 DEF WillStop
<1>7. CASE r = f
  <2>1. n + 1 \in 1 .. n + 1 /\ toMotors'[n + 1] = f' /\ \A i \in 1 .. n + 1 : ~(i > n + 1)
    BY <1>2, <1>4, <1>7
  <2> QED
    BY <1>2, <2>1 DEF WillStop
<1> QED
  BY <1>2, <1>5, <1>6, <1>7 DEF WillStop
\* A step that sends nothing, or sends a stop frame to the motor it goes on with.
LEMMA StopGoesOn ==
  ASSUME SessionTypes, Linked, [Next]_vars, NEW m \in Motors, StopIssued(m)',
         code' = 0, medium', program.loop = "control", Issued \/ Streams \/ Hops
  PROVE  StopIssued(m) \/ m \in refused' \/ (at = "stop" /\ ~waiting /\ m = Addressed /\ Issued)
<1> DEFINE n == Len(program.motors)
<1>0. TypeOK /\ Places /\ program' = program
  BY ProgramStays DEF SessionTypes
<1>1. /\ DOMAIN program.motors = 1 .. n /\ n \in {1, 2} /\ motor \in 1 .. n /\ waiting \in BOOLEAN
      /\ Addressed = program.motors[motor]
  BY <1>0, ProgramFacts DEF Addressed
<1>2. PICK k \in 1 .. n :
        /\ program.motors[k] = m
        /\ \/ at' \in {"unlink", "close", "join", "exited"}
           \/ at' = "stop" /\ k < motor'
           \/ at' = "stop" /\ k = motor' /\ waiting'
  BY <1>0, <1>1 DEF StopIssued
<1>3. ~(k < 1) /\ (k < motor + 1 => k < motor \/ k = motor) /\ (motor = n => k < motor \/ k = motor)
  BY <1>1
<1>4. CASE UNCHANGED mainVars
  BY <1>0, <1>1, <1>2, <1>4 DEF StopIssued, mainVars
<1>5. ASSUME NEW ok \in BOOLEAN, at \in Waits, Continue(ok)
      PROVE  /\ at = "stop" /\ (k < motor \/ k = motor)
  <2>1. Outcome(ok) /\ waiting' = FALSE
    BY <1>0, <1>5, ContinueGoes
  <2>2. at = "stop"
    BY <1>2, <1>3, <2>1 DEF Outcome, Goto
  <2>3. \/ motor < n /\ Goto("stop", motor + 1, 1)
        \/ motor = n /\ Goto("unlink", 1, 1)
    BY <2>1, <2>2 DEF Outcome
  <2> QED
    BY <1>2, <1>3, <2>1, <2>2, <2>3 DEF Goto
<1>6. ASSUME at = "stop", k < motor PROVE StopIssued(m)
  BY <1>1, <1>2, <1>6 DEF StopIssued
<1>7. ASSUME at = "stop", k = motor, waiting PROVE StopIssued(m)
  BY <1>1, <1>2, <1>7 DEF StopIssued
<1>8. ASSUME at = "send", NEW ok \in BOOLEAN, AfterControl(ok) PROVE FALSE
  BY <1>0, <1>2, <1>3, <1>8, ControlGoes
<1>9. CASE Issued
  <2>1. CASE Command.cmd = "write"
    <3>1. at = "setup" /\ Continue(TRUE) /\ at \in Waits
      BY <1>0, <1>9, <2>1, CommandSent DEF Issued
    <3> QED
      BY <1>5, <3>1
  <2>2. CASE Command.cmd # "write"
    <3>1. waiting' = TRUE /\ UNCHANGED <<at, motor>> /\ ~waiting /\ at \in Waits
      BY <1>9, <2>2 DEF Issued
    <3>2. at = "stop" /\ (k < motor \/ k = motor)
      BY <1>2, <3>1 DEF Waits
    <3> QED
      BY <1>1, <1>2, <1>6, <1>9, <3>1, <3>2
  <2> QED
    BY <2>1, <2>2
<1>10. CASE Streams
  BY <1>8, <1>10 DEF Streams
<1>11. CASE Hops
  <2>1. medium
    BY <1>11 DEF Hops
  <2>2. CASE at = "start"
    <3>1. at' \in {"send", "setup"}
      BY <1>2, <1>11, <2>2 DEF Hops, Hop, Waits, Goto, mainVars
    <3> QED
      BY <1>2, <3>1
  <2>3. ASSUME at \in Waits, waiting, NEW ok \in BOOLEAN, Continue(ok) PROVE StopIssued(m)
    BY <1>5, <1>6, <1>7, <2>3
  <2>4. CASE /\ at \in Waits /\ Continue(FALSE)
             /\ ~Connected \/ (at = "stop" => Addressed \in refused')
    <3>1. at = "stop" /\ (k < motor \/ k = motor)
      BY <1>5, <2>4
    <3>2. Connected
      BY <2>1, <3>1 DEF Linked, Unlinked
    <3> QED
      BY <1>1, <1>2, <1>6, <2>4, <3>1, <3>2
  <2>5. CASE /\ at = "loop" /\ UNCHANGED <<waiting, code>>
             /\ Goto("send", 1, 1) \/ Goto("stop", 1, 1)
    <3>1. ~waiting
      BY <1>0, <1>1, <2>5 DEF Places, Waits
    <3> QED
      BY <1>2, <1>3, <2>5, <3>1 DEF Goto
  <2>6. CASE at = "send" /\ AfterControl(FALSE)
    BY <1>8, <2>6
  <2>7. CASE at = "send" /\ Goto("overrun", motor, step)
    BY <1>2, <2>7 DEF Goto
  <2>8. CASE <<at, at'>> \in {<<"unlink", "close">>, <<"close", "join">>, <<"join", "exited">>}
    BY <1>1, <1>2, <2>8 DEF StopIssued
  <2> QED
    BY <1>4, <1>11, <2>2, <2>3, <2>4, <2>5, <2>6, <2>7, <2>8 DEF Hops, Hop
<1> QED
  BY <1>9, <1>10, <1>11

\* A failure code stays.
LEMMA CodeStays ==
  ASSUME TypeOK, Places, [Next]_vars, code' = 0
  PROVE  code = 0
<1>1. Popped \/ Issued \/ Streams \/ Hops
  BY StepKinds
<1>2. ASSUME NEW ok \in BOOLEAN, at \in Waits, Continue(ok) PROVE code = 0
  <2>1. Outcome(ok)
    BY <1>2, ContinueGoes
  <2>2. code' = 1 \/ code' = code
    BY <2>1 DEF Outcome
  <2> QED
    BY <2>2
<1>3. ASSUME NEW ok \in BOOLEAN, AfterControl(ok) PROVE code = 0
  BY <1>3 DEF AfterControl
<1>4. CASE Popped
  BY <1>4 DEF Popped, mainVars
<1>5. CASE Issued
  BY <1>2, <1>5 DEF Issued
<1>6. CASE Streams
  BY <1>3, <1>6 DEF Streams
<1>7. CASE Hops
  <2>1. \/ code' \in {code, 1}
        \/ \E ok \in BOOLEAN : at \in Waits /\ Continue(ok)
        \/ AfterControl(FALSE)
    <3>1. CASE UNCHANGED mainVars
      BY <3>1 DEF mainVars
    <3> QED
      BY <1>7, <3>1 DEF Hops, Hop
  <2>2. CASE code' \in {code, 1}
    BY <2>2
  <2>3. CASE \E ok \in BOOLEAN : at \in Waits /\ Continue(ok)
    BY <1>2, <2>3, Zenon
  <2>4. CASE AfterControl(FALSE)
    BY <1>3, <2>4
  <2> QED
    BY <2>1, <2>2, <2>3, <2>4, Zenon
<1> QED
  BY <1>1, <1>4, <1>5, <1>6, <1>7

LEMMA AllStoppedStep == SessionTypes /\ Linked /\ AllStopped /\ [Next]_vars => AllStopped'
<1> SUFFICES ASSUME SessionTypes, Linked, AllStopped, [Next]_vars PROVE AllStopped'
  OBVIOUS
<1> SUFFICES ASSUME code' = 0, medium', program.loop = "control", NEW m \in Motors, StopIssued(m)'
             PROVE  m \in refused' \/ StopFrame(m) \in lost' \/ WillStop(m)'
  <2>1. program' = program
    BY ProgramStays DEF SessionTypes
  <2> QED
    BY <2>1 DEF AllStopped, StopFrame, Frame
<1> DEFINE f == StopFrame(m)
<1>0. TypeOK /\ Places /\ program' = program
  BY ProgramStays DEF SessionTypes
<1>1. Popped \/ Issued \/ Streams \/ Hops
  BY <1>0, StepKinds
<1>2. code = 0
  BY <1>0, CodeStays
<1>3. medium
  BY <1>1 DEF Popped, Issued, Streams, Sent, Hops, transportVars
<1>4. ASSUME StopIssued(m) PROVE m \in refused \/ f \in lost \/ WillStop(m)
  BY <1>2, <1>3, <1>4 DEF AllStopped
<1>5. CASE Popped
  <2>1. StopIssued(m)
    BY <1>0, <1>5 DEF Popped, StopIssued, mainVars
  <2>2. refused' = refused /\ lost \subseteq lost'
    BY <1>5 DEF Popped
  <2> QED
    BY <1>0, <1>4, <1>5, <2>1, <2>2, WillStopPopped
<1>6. CASE Issued
  <2> DEFINE r == Frame(Addressed, Command)
  <2>1. /\ r \in Requests /\ Sent(r) /\ r.motor = Addressed /\ r.cmd = Command.cmd
        /\ refused' = refused \ {r.motor} /\ lost' = lost \ {r}
    BY <1>0, <1>6, CommandSent DEF Issued, Frame, Sent
  <2>2. CASE m \in refused'
    BY <2>2
  <2>3. CASE at = "stop" /\ ~waiting /\ m = Addressed
    <3>1. r = f /\ r.cmd # "enable"
      BY <2>3 DEF StopFrame, Command, Frame, Sync
    <3> HIDE DEF r, f
    <3> QED
      BY <1>0, <2>1, <3>1, WillStopSent DEF f
  <2>4. CASE StopIssued(m) /\ ~(at = "stop" /\ ~waiting /\ m = Addressed)
    <3>1. at = "stop" /\ ~waiting
      BY <1>6, <2>4 DEF StopIssued, Issued, Waits
    <3>2. r.motor # m /\ r.cmd # "enable" /\ f.motor = m
      BY <2>1, <2>4, <3>1 DEF Command, Sync, StopFrame, Frame
    <3> HIDE DEF r, f
    <3>3. m \in refused \/ f \in lost \/ WillStop(m)
      BY <1>4, <2>4
    <3>4. (m \in refused => m \in refused') /\ (f \in lost => f \in lost')
      BY <2>1, <3>2
    <3> QED
      BY <1>0, <2>1, <3>2, <3>3, <3>4, WillStopSent DEF f
  <2> QED
    BY <1>6, <2>2, <2>3, <2>4, StopGoesOn
<1>7. CASE Streams
  <2>1. at = "send" /\ at' # "start"
    BY <1>0, <1>7, SetupIsOver DEF Streams
  <2>2. StopIssued(m) \/ m \in refused'
    BY <1>7, <2>1, StopGoesOn
  <2> QED
    BY <2>1, <2>2 DEF StopIssued
<1>8. CASE Hops
  <2>1. refused \subseteq refused' /\ UNCHANGED <<lost, toMotors, motorState>>
    BY <1>8 DEF Hops, deviceVars
  <2>2. WillStop(m) => WillStop(m)'
    BY <2>1 DEF WillStop, Idle, IsFor, StopFrame, Frame
  <2>3. StopIssued(m) \/ m \in refused' \/ Issued
    BY <1>8, StopGoesOn
  <2> QED
    BY <1>4, <1>6, <2>1, <2>2, <2>3
<1> QED
  BY <1>1, <1>5, <1>6, <1>7, <1>8

LEMMA AllStoppedInit == Init => AllStopped
BY DEF Init, AllStopped, StopIssued

LEMMA StoppedInTheEnd ==
  ASSUME TypeOK, IdleBefore, AllStopped
  PROVE  StoppedAtExit
<1> SUFFICES ASSUME at = "exited", code = 0, toMotors = <<>>, medium, NEW m \in Motors
             PROVE  motorState[m] = "RESET" \/ m \in refused \/ Frame(m, Sync("stop")) \in lost
  BY DEF StoppedAtExit
<1>1. WillStop(m) => motorState[m] = "RESET"
  BY DEF WillStop, Idle
<1>2. CASE Idle(m)
  BY <1>2 DEF Idle
<1>3. CASE Reached(m)
  <2>1. program.loop = "control"
    BY <1>3, ProgramFacts DEF Reached, Regular
  <2>2. StopIssued(m)
    BY <1>3 DEF Reached, StopIssued
  <2> QED
    BY <1>1, <2>1, <2>2 DEF AllStopped, StopFrame
<1> QED
  BY <1>2, <1>3 DEF IdleBefore

\* main() returns 0 only when every motor is stopped once the bus is empty: the exceptions
\* are a stop frame lost or refused, and a dead link.
THEOREM EveryMotorStoppedAtExit == Spec => []StoppedAtExit
<1>1. SessionTypes /\ IdleBefore /\ AllStopped => StoppedAtExit
  BY StoppedInTheEnd DEF SessionTypes
<1> QED
  BY <1>1, SessionTypesInit, SessionTypesStep, IdleInit, IdleStep, LinkedInit, LinkedStep,
     AllStoppedInit, AllStoppedStep, PTL DEF Spec
=============================================================================
