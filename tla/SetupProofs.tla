----------------------------- MODULE SetupProofs -----------------------------
(***************************************************************************)
(* Theorems about SetupMode for every number of threads, every set of      *)
(* calls and every way in which writes fail.                               *)
(***************************************************************************)
EXTENDS SetupMode, PlanProofs

KnownCalls == Calls \cup {NoCall}

LEMMA KnownCall ==
  ASSUME NEW k \in KnownCalls
  PROVE  k.mode \in AllModes /\ k.limits \in [1 .. 3 -> Int]
BY CallsAssumption DEF KnownCalls, NoCall, AllModes

LEMMA PlanShape ==
  ASSUME NEW k \in KnownCalls
  PROVE  /\ Plan(k) \in Seq(Writes) /\ Len(Plan(k)) \in 1 .. 4 /\ Distinct(Plan(k))
         /\ k.mode # "STOP_PP" => Plan(k)[1] = Write("RUN_MODE", k.mode)
BY KnownCall, PlanWrites

-----------------------------------------------------------------------------
(* Types and the progress of a call                                        *)

\* TypeOK in two halves, the second with the writes on the wire in detail: TLC cannot
\* compare modes and numbers.
ThreadTypes ==
  /\ pc \in [Clients -> {"idle", "writing"}]
  /\ call \in [Clients -> KnownCalls]
  /\ done \in [Clients -> 0 .. 4]
  /\ result \in [Clients -> Results]
  /\ alone \in [Clients -> BOOLEAN] /\ newest \in Clients

MotorTypes ==
  /\ calls \in 0 .. MaxCalls /\ link \in BOOLEAN /\ lost \in BOOLEAN
  /\ DOMAIN ram = Params /\ ram["RUN_MODE"] \in AllModes
  /\ \A p \in Limits : ram[p] \in Int
  /\ wire \in Seq(Writes)

LEMMA TypesSuffice == ThreadTypes /\ MotorTypes => TypeOK
<1> SUFFICES ASSUME ThreadTypes, MotorTypes PROVE TypeOK
  OBVIOUS
<1>1. ASSUME NEW i \in DOMAIN wire PROVE wire[i].param \in Params
  <2>1. wire[i] \in Writes
    BY <1>1, ElementOfSeq, LenProperties DEF MotorTypes
  <2> QED
    BY <2>1 DEF Writes, ModeWrites, LimitsWritten, Params
<1> QED
  BY <1>1 DEF ThreadTypes, MotorTypes, TypeOK, KnownCalls

\* A call makes the writes of its plan only; while in progress it has one left to make,
\* when it succeeded it has made all, and only setup_mode answers ERR_NACK.
Progress ==
  \A c \in Clients :
    /\ done[c] <= Len(Plan(call[c]))
    /\ pc[c] = "writing" => done[c] < Len(Plan(call[c])) /\ result[c] = "none"
    /\ result[c] = "SUCCESS" => done[c] = Len(Plan(call[c]))
    /\ result[c] = "ERR_NACK" => call[c].mode # "STOP_PP"

\* The values a call can end with.
LEMMA Endings ==
  ASSUME NEW k
  PROVE  /\ Outcome(k) \in {"SUCCESS", "ERR_INVALID_ARGUMENT"}
         /\ \A r \in {"ERR_NOT_CONNECTED", "ERR_WRITE_FAILED", "ERR_DISCONNECTED"} :
              /\ Failure(k, r) \in {r, "ERR_NACK"}
              /\ Failure(k, r) = "ERR_NACK" => k.mode # "STOP_PP"
BY DEF Outcome, Failure

\* What a thread's next write is.
LEMMA NextWrite ==
  ASSUME ThreadTypes, Progress, NEW c \in Clients, pc[c] = "writing"
  PROVE  /\ Plan(call[c])[done[c] + 1] \in Writes
         /\ done[c] \in 0 .. 3 /\ done[c] + 1 <= Len(Plan(call[c]))
         /\ Len(Plan(call[c])) \in 1 .. 4
<1> DEFINE plan == Plan(call[c])
<1>1. call[c] \in KnownCalls /\ done[c] \in 0 .. 4
  BY DEF ThreadTypes
<1>2. plan \in Seq(Writes) /\ Len(plan) \in 1 .. 4
  BY <1>1, PlanShape
<1>3. done[c] < Len(plan)
  BY DEF Progress
<1> HIDE DEF plan
<1>4. done[c] + 1 \in 1 .. Len(plan) /\ done[c] \in 0 .. 3
  <2>1. \A d \in 0 .. 4, n \in 1 .. 4 : d < n => d + 1 \in 1 .. n /\ d \in 0 .. 3
    OBVIOUS
  <2> QED
    BY <1>1, <1>2, <1>3, <2>1, Zenon
<1>5. plan[done[c] + 1] \in Writes
  BY <1>2, <1>4, ElementOfSeq
<1>6. done[c] + 1 <= Len(plan)
  BY <1>2, <1>4
<1> QED
  BY <1>2, <1>4, <1>5, <1>6, Zenon DEF plan

\* What one write does to its thread: it is the last of its plan, or the call goes on.
LEMMA WriteMoves ==
  ASSUME NEW c \in Clients, WriteNext(c)
  PROVE  \/ /\ done[c] + 1 = Len(Plan(call[c])) /\ pc' = [pc EXCEPT ![c] = "idle"]
            /\ result' = [result EXCEPT ![c] = Outcome(call[c])]
         \/ done[c] + 1 # Len(Plan(call[c])) /\ pc' = pc /\ result' = result
BY DEF WriteNext, Return

\* How a failing write ends its call.
LEMMA WriteFailsMoves ==
  ASSUME NEW c \in Clients, WriteFails(c)
  PROVE  /\ pc' = [pc EXCEPT ![c] = "idle"]
         /\ \E r \in {"ERR_NOT_CONNECTED", "ERR_WRITE_FAILED", "ERR_DISCONNECTED"} :
              result' = [result EXCEPT ![c] = Failure(call[c], r)]
         /\ link' = link \/ link' = FALSE
         /\ UNCHANGED <<call, done, calls, wire, ram, lost, alone, newest>>
BY DEF WriteFails, Return

LEMMA ThreadTypesStep == ThreadTypes /\ Progress /\ [Next]_vars => ThreadTypes'
<1> SUFFICES ASSUME ThreadTypes, Progress, [Next]_vars PROVE ThreadTypes'
  OBVIOUS
<1>1. ASSUME NEW c \in Clients, Start(c) PROVE ThreadTypes'
  <2>1. PICK k \in Calls : call' = [call EXCEPT ![c] = k]
    BY <1>1 DEF Start
  <2>2. call' \in [Clients -> KnownCalls]
    BY <2>1 DEF ThreadTypes, KnownCalls
  <2>3. /\ pc' \in [Clients -> {"idle", "writing"}] /\ done' \in [Clients -> 0 .. 4]
    BY <1>1 DEF Start, ThreadTypes
  <2>4. result' \in [Clients -> Results]
    BY <1>1 DEF Start, ThreadTypes, Results
  <2>5. alone' \in [Clients -> BOOLEAN] /\ newest' \in Clients
    <3>1. ASSUME NEW d \in Clients PROVE alone[d] \in BOOLEAN
      BY DEF ThreadTypes
    <3> QED
      BY <1>1, <3>1, Zenon DEF Start
  <2> QED
    BY <2>2, <2>3, <2>4, <2>5 DEF ThreadTypes
<1>2. ASSUME NEW c \in Clients, WriteNext(c) PROVE ThreadTypes'
  <2>1. done' = [done EXCEPT ![c] = done[c] + 1] /\ UNCHANGED <<call, alone, newest>>
    BY <1>2 DEF WriteNext
  <2>2. done[c] \in 0 .. 3
    BY <1>2, NextWrite DEF WriteNext
  <2>3. done' \in [Clients -> 0 .. 4]
    BY <2>1, <2>2 DEF ThreadTypes
  <2>4. Outcome(call[c]) \in Results
    BY Endings DEF Results
  <2>5. pc' \in [Clients -> {"idle", "writing"}] /\ result' \in [Clients -> Results]
    BY <1>2, <2>4, WriteMoves DEF ThreadTypes
  <2> QED
    BY <2>1, <2>3, <2>5 DEF ThreadTypes
<1>3. ASSUME NEW c \in Clients, WriteFails(c) PROVE ThreadTypes'
  <2>1. PICK r \in {"ERR_NOT_CONNECTED", "ERR_WRITE_FAILED", "ERR_DISCONNECTED"} :
          result' = [result EXCEPT ![c] = Failure(call[c], r)]
    BY <1>3, WriteFailsMoves
  <2>2. Failure(call[c], r) \in Results
    BY Endings DEF Results
  <2>3. result' \in [Clients -> Results]
    BY <2>1, <2>2 DEF ThreadTypes
  <2>4. pc' = [pc EXCEPT ![c] = "idle"] /\ UNCHANGED <<call, done, alone, newest>>
    BY <1>3, WriteFailsMoves
  <2> QED
    BY <2>3, <2>4 DEF ThreadTypes
<1>4. ASSUME Apply \/ Lose \/ UNCHANGED vars PROVE ThreadTypes'
  BY <1>4 DEF Apply, Lose, vars, ThreadTypes
<1> QED
  BY <1>1, <1>2, <1>3, <1>4 DEF Next, Rest

LEMMA MotorTypesStep == ThreadTypes /\ MotorTypes /\ Progress /\ [Next]_vars => MotorTypes'
<1> SUFFICES ASSUME ThreadTypes, MotorTypes, Progress, [Next]_vars PROVE MotorTypes'
  OBVIOUS
<1>1. ASSUME NEW c \in Clients, Start(c) PROVE MotorTypes'
  <2>1. calls' \in 0 .. MaxCalls
    BY <1>1, CallsAssumption DEF Start, MotorTypes
  <2> QED
    BY <1>1, <2>1 DEF Start, MotorTypes
<1>2. ASSUME NEW c \in Clients, WriteNext(c) PROVE MotorTypes'
  <2>1. wire' = Append(wire, Plan(call[c])[done[c] + 1]) /\ UNCHANGED <<calls, link, ram, lost>>
    BY <1>2 DEF WriteNext
  <2>2. Plan(call[c])[done[c] + 1] \in Writes
    BY <1>2, NextWrite DEF WriteNext
  <2>3. wire' \in Seq(Writes)
    BY <2>1, <2>2, AppendProperties DEF MotorTypes
  <2> QED
    BY <2>1, <2>3 DEF MotorTypes
<1>3. ASSUME NEW c \in Clients, WriteFails(c) PROVE MotorTypes'
  BY <1>3, WriteFailsMoves DEF MotorTypes
<1>4. ASSUME Apply PROVE MotorTypes'
  <2>1. Head(wire) \in Writes /\ wire' \in Seq(Writes)
    BY <1>4, HeadTailProperties DEF Apply, MotorTypes
  <2>2. ram' = [ram EXCEPT ![Head(wire).param] = Head(wire).value]
    BY <1>4 DEF Apply
  <2>3. \/ Head(wire).param = "RUN_MODE" /\ Head(wire).value \in AllModes
        \/ Head(wire).param \in Limits /\ Head(wire).value \in Int
    BY <2>1 DEF Writes, ModeWrites, LimitsWritten
  <2>4. DOMAIN ram' = Params
    BY <2>2 DEF MotorTypes
  <2>5. "RUN_MODE" \notin Limits
    BY DEF Limits
  <2>6. ram'["RUN_MODE"] \in AllModes
    BY <2>2, <2>3, <2>5 DEF MotorTypes, Params
  <2>7. ASSUME NEW p \in Limits PROVE ram'[p] \in Int
    BY <2>2, <2>3, <2>5 DEF MotorTypes, Params
  <2> QED
    BY <1>4, <2>1, <2>4, <2>6, <2>7 DEF Apply, MotorTypes
<1>5. ASSUME Lose PROVE MotorTypes'
  <2>1. wire' \in Seq(Writes)
    BY <1>5, HeadTailProperties DEF Lose, MotorTypes
  <2> QED
    BY <1>5, <2>1 DEF Lose, MotorTypes
<1>6. ASSUME UNCHANGED vars PROVE MotorTypes'
  BY <1>6 DEF vars, MotorTypes
<1> QED
  BY <1>1, <1>2, <1>3, <1>4, <1>5, <1>6 DEF Next, Rest

LEMMA ProgressStep == ThreadTypes /\ Progress /\ [Next]_vars => Progress'
<1> SUFFICES ASSUME ThreadTypes, Progress, [Next]_vars PROVE Progress'
  OBVIOUS
<1>1. ASSUME NEW c \in Clients, Start(c) PROVE Progress'
  <2>1. /\ pc'[c] = "writing" /\ done'[c] = 0 /\ result'[c] = "none" /\ call'[c] \in KnownCalls
        /\ \A d \in Clients \ {c} : /\ pc'[d] = pc[d] /\ done'[d] = done[d]
                                   /\ result'[d] = result[d] /\ call'[d] = call[d]
    BY <1>1 DEF Start, ThreadTypes, KnownCalls
  <2>2. Len(Plan(call'[c])) > 0
    BY <2>1, PlanShape
  <2> QED
    BY <2>1, <2>2 DEF Progress
<1>2. ASSUME NEW c \in Clients, WriteNext(c) PROVE Progress'
  <2>1. call' = call /\ done' = [done EXCEPT ![c] = done[c] + 1]
    BY <1>2 DEF WriteNext
  <2>2. done'[c] = done[c] + 1 /\ \A d \in Clients \ {c} : done'[d] = done[d]
    BY <2>1 DEF ThreadTypes
  <2>3. \A d \in Clients \ {c} : pc'[d] = pc[d] /\ result'[d] = result[d]
    BY <1>2, WriteMoves DEF ThreadTypes
  <2>4. Outcome(call[c]) \in {"SUCCESS", "ERR_INVALID_ARGUMENT"}
    BY Endings
  <2>5. CASE done[c] + 1 = Len(Plan(call[c]))
    <3>1. pc'[c] = "idle" /\ result'[c] = Outcome(call[c])
      BY <1>2, <2>5, WriteMoves DEF ThreadTypes
    <3> QED
      BY <2>1, <2>2, <2>3, <2>4, <2>5, <3>1 DEF Progress
  <2>6. CASE done[c] + 1 # Len(Plan(call[c]))
    <3>1. pc' = pc /\ result' = result
      BY <1>2, <2>6, WriteMoves
    <3>2. /\ done[c] + 1 < Len(Plan(call[c])) /\ done[c] + 1 <= Len(Plan(call[c]))
          /\ pc[c] = "writing"
      <4>1. pc[c] = "writing"
        BY <1>2 DEF WriteNext
      <4>2. \A d \in 0 .. 3, n \in 1 .. 4 : d + 1 <= n /\ d + 1 # n => d + 1 < n
        OBVIOUS
      <4> QED
        BY <2>6, <4>1, <4>2, NextWrite, Zenon
    <3>3. result[c] = "none"
      BY <3>2 DEF Progress
    <3> QED
      BY <2>1, <2>2, <3>1, <3>2, <3>3, Zenon DEF Progress
  <2> QED
    BY <2>5, <2>6
<1>3. ASSUME NEW c \in Clients, WriteFails(c) PROVE Progress'
  <2>1. PICK r \in {"ERR_NOT_CONNECTED", "ERR_WRITE_FAILED", "ERR_DISCONNECTED"} :
          result' = [result EXCEPT ![c] = Failure(call[c], r)]
    BY <1>3, WriteFailsMoves
  <2>2. pc' = [pc EXCEPT ![c] = "idle"] /\ UNCHANGED <<call, done>>
    BY <1>3, WriteFailsMoves
  <2>3. /\ pc'[c] = "idle" /\ result'[c] = Failure(call[c], r)
        /\ \A d \in Clients \ {c} : pc'[d] = pc[d] /\ result'[d] = result[d]
    BY <2>1, <2>2 DEF ThreadTypes
  <2>4. result'[c] # "SUCCESS" /\ (result'[c] = "ERR_NACK" => call[c].mode # "STOP_PP")
    BY <2>3, Endings
  <2> QED
    BY <2>2, <2>3, <2>4 DEF Progress
<1>4. ASSUME Apply \/ Lose \/ UNCHANGED vars PROVE Progress'
  BY <1>4 DEF Apply, Lose, vars, Progress
<1> QED
  BY <1>1, <1>2, <1>3, <1>4 DEF Next, Rest

SetupTypes == ThreadTypes /\ MotorTypes /\ Progress

LEMMA SetupTypesInit == Init => SetupTypes
<1> SUFFICES ASSUME Init PROVE SetupTypes
  OBVIOUS
<1>1. ThreadTypes
  BY DEF Init, ThreadTypes, KnownCalls, Results
<1>2. MotorTypes
  <2>1. ram = [p \in Params |-> IF p = "RUN_MODE" THEN "OPERATION" ELSE 0]
    BY DEF Init
  <2>2. DOMAIN ram = Params /\ ram["RUN_MODE"] \in AllModes /\ \A p \in Limits : ram[p] \in Int
    BY <2>1 DEF Params, Limits, AllModes, Modes
  <2>3. wire = <<>> /\ calls = 0 /\ link = TRUE /\ lost = FALSE
    BY DEF Init
  <2>4. calls \in 0 .. MaxCalls
    BY <2>3, CallsAssumption
  <2>5. wire \in Seq(Writes)
    BY <2>3, EmptySeq
  <2> QED
    BY <2>2, <2>3, <2>4, <2>5 DEF MotorTypes
<1>3. Progress
  <2>1. Len(Plan(NoCall)) \in 1 .. 4
    BY PlanShape DEF KnownCalls
  <2> QED
    BY <2>1 DEF Init, Progress
<1> QED
  BY <1>1, <1>2, <1>3 DEF SetupTypes

LEMMA SetupTypesStep == SetupTypes /\ [Next]_vars => SetupTypes'
BY ThreadTypesStep, MotorTypesStep, ProgressStep DEF SetupTypes

\* Every reachable state is well typed, for every number of threads and every set of
\* calls; what makes it inductive is that a call never writes more than its plan.
THEOREM SetupTypeCorrect == Spec => []TypeOK
<1>1. SetupTypes => TypeOK
  BY TypesSuffice DEF SetupTypes
<1> QED
  BY <1>1, SetupTypesInit, SetupTypesStep, PTL DEF Spec

-----------------------------------------------------------------------------
(* Where the writes of the newest call are                                 *)

\* As long as no other thread was in a call since the newest began, none is.
Undisturbed == alone[newest] => \A c \in Clients \ {newest} : pc[c] = "idle"

\* The place on the wire of the newest call's write number i; below 1, it has arrived.
Place(i) == Len(wire) - done[newest] + i

PlacedAt(i) ==
  LET w == Plan(call[newest])[i]
  IN  IF Place(i) >= 1 THEN wire[Place(i)] = w ELSE ram[w.param] = w.value

\* What the newest call wrote undisturbed is the end of the wire, or in the motor.
Placed == ~lost /\ alone[newest] => \A i \in 1 .. done[newest] : PlacedAt(i)

SetupInv == SetupTypes /\ Undisturbed /\ Placed

LEMMA UndisturbedStep == SetupTypes /\ Undisturbed /\ [Next]_vars => Undisturbed'
<1> SUFFICES ASSUME SetupTypes, Undisturbed, [Next]_vars PROVE Undisturbed'
  OBVIOUS
<1> USE DEF SetupTypes, ThreadTypes
<1>1. ASSUME NEW c \in Clients, Start(c) PROVE Undisturbed'
  <2>1. newest' = c /\ \A d \in Clients \ {c} : pc'[d] = pc[d]
    BY <1>1 DEF Start
  <2>2. alone'[c] = ({d \in Clients : pc[d] = "writing"} = {})
    BY <1>1 DEF Start
  <2>3. alone'[c] => \A d \in Clients : pc[d] = "idle"
    BY <2>2
  <2> QED
    BY <2>1, <2>3 DEF Undisturbed
<1>2. ASSUME NEW c \in Clients, WriteNext(c) PROVE Undisturbed'
  <2>1. UNCHANGED <<alone, newest>>
    BY <1>2 DEF WriteNext
  <2>2. pc' = pc \/ pc' = [pc EXCEPT ![c] = "idle"]
    BY <1>2, WriteMoves
  <2> QED
    BY <2>1, <2>2 DEF Undisturbed
<1>3. ASSUME NEW c \in Clients, WriteFails(c) PROVE Undisturbed'
  BY <1>3, WriteFailsMoves DEF Undisturbed
<1>4. ASSUME Apply \/ Lose \/ UNCHANGED vars PROVE Undisturbed'
  BY <1>4 DEF Apply, Lose, vars, Undisturbed
<1> QED
  BY <1>1, <1>2, <1>3, <1>4 DEF Next, Rest

\* A write joins the wire behind those before it, all of the same call.
LEMMA PlacedWrite ==
  ASSUME SetupTypes, Undisturbed, Placed, NEW c \in Clients, WriteNext(c)
  PROVE  Placed'
<1> DEFINE plan == Plan(call[newest])
           n == Len(wire)
           d == done[newest]
<1> SUFFICES ASSUME ~lost', alone'[newest'], NEW i \in 1 .. done'[newest'] PROVE PlacedAt(i)'
  BY Zenon DEF Placed
<1>1. ~lost /\ alone[newest] /\ newest' = newest /\ call' = call /\ ram' = ram
  BY DEF WriteNext
<1>2. c = newest
  BY <1>1 DEF WriteNext, Undisturbed
<1>3. n \in Nat /\ d \in 0 .. 4 /\ d + 1 \in Nat
  <2>1. n \in Nat
    BY LenProperties DEF SetupTypes, MotorTypes
  <2>2. d \in 0 .. 4
    BY <1>2 DEF SetupTypes, ThreadTypes
  <2> QED
    BY <2>1, <2>2
<1>4. done'[newest] = d + 1 /\ wire' = Append(wire, plan[d + 1])
  BY <1>2 DEF WriteNext, SetupTypes, ThreadTypes
<1>5. plan[d + 1] \in Writes
  BY <1>2, NextWrite DEF WriteNext, SetupTypes
<1>6. /\ Len(wire') = n + 1 /\ wire'[n + 1] = plan[d + 1]
      /\ \A j \in 1 .. n : wire'[j] = wire[j]
  BY <1>4, <1>5, AppendProperties DEF SetupTypes, MotorTypes
<1>7. \A j \in 1 .. d : IF n - d + j >= 1 THEN wire[n - d + j] = plan[j]
                                        ELSE ram[plan[j].param] = plan[j].value
  BY <1>1 DEF Placed, PlacedAt, Place
<1>8. i \in 1 .. d + 1
  BY <1>1, <1>4
<1> SUFFICES IF (n + 1) - (d + 1) + i >= 1 THEN wire'[(n + 1) - (d + 1) + i] = plan[i]
                                           ELSE ram[plan[i].param] = plan[i].value
  BY <1>1, <1>4, <1>6, Zenon DEF PlacedAt, Place
<1> HIDE DEF plan, n, d
<1>9. (n + 1) - (d + 1) + i = n - d + i
  BY <1>3, <1>8
<1>10. CASE i = d + 1
  <2>1. n - d + i = n + 1 /\ n + 1 >= 1
    BY <1>3, <1>10
  <2> QED
    BY <1>6, <1>9, <1>10, <2>1
<1>11. CASE i \in 1 .. d
  <2>1. n - d + i \in Int /\ (n - d + i >= 1 => n - d + i \in 1 .. n)
    BY <1>3, <1>11
  <2> QED
    BY <1>6, <1>7, <1>9, <1>11, <2>1
<1> QED
  BY <1>3, <1>8, <1>10, <1>11

\* The motor obeys the write at the head, and no later one is undone by it: the call
\* writes no parameter twice.
LEMMA PlacedApply ==
  ASSUME SetupTypes, Placed, Apply
  PROVE  Placed'
<1> DEFINE plan == Plan(call[newest])
           n == Len(wire)
           d == done[newest]
           h == Head(wire)
<1> SUFFICES ASSUME ~lost', alone'[newest'], NEW i \in 1 .. done'[newest'] PROVE PlacedAt(i)'
  BY Zenon DEF Placed
<1>1. ~lost /\ alone[newest] /\ newest' = newest /\ call' = call /\ done' = done
  BY DEF Apply
<1>2. n \in Nat \ {0} /\ d \in 0 .. 4 /\ i \in 1 .. d /\ d <= Len(plan) /\ Len(plan) \in 1 .. 4
  <2>1. wire \in Seq(Writes) /\ wire # <<>>
    BY DEF Apply, SetupTypes, MotorTypes
  <2>2. n \in Nat \ {0}
    BY <2>1, EmptySeq, LenProperties
  <2>3. newest \in Clients /\ call[newest] \in KnownCalls
    BY DEF SetupTypes, ThreadTypes
  <2> QED
    BY <1>1, <2>2, <2>3, PlanShape DEF SetupTypes, ThreadTypes, Progress
<1>3. Distinct(plan) /\ plan \in Seq(Writes)
  BY PlanShape DEF SetupTypes, ThreadTypes
<1>4. /\ Len(wire') = n - 1 /\ h = wire[1] /\ h \in Writes
      /\ \A j \in 1 .. n - 1 : wire'[j] = wire[j + 1]
  BY HeadTailProperties DEF Apply, SetupTypes, MotorTypes
<1>5. ram' = [ram EXCEPT ![h.param] = h.value] /\ DOMAIN ram = Params
  BY DEF Apply, SetupTypes, MotorTypes
<1>6. \A j \in 1 .. d : IF n - d + j >= 1 THEN wire[n - d + j] = plan[j]
                                        ELSE ram[plan[j].param] = plan[j].value
  BY <1>1 DEF Placed, PlacedAt, Place
<1>7. plan[i] \in Writes /\ plan[i].param \in Params
  <2>1. plan[i] \in Writes
    BY <1>2, <1>3, ElementOfSeq
  <2> QED
    BY <2>1 DEF Writes, ModeWrites, LimitsWritten, Params
<1> SUFFICES IF (n - 1) - d + i >= 1 THEN wire'[(n - 1) - d + i] = plan[i]
                                     ELSE ram'[plan[i].param] = plan[i].value
  BY <1>1, <1>4, Zenon DEF PlacedAt, Place
<1> HIDE DEF plan, n, d, h
<1>8. CASE n - d + i >= 2
  <2>1. /\ (n - 1) - d + i \in 1 .. n - 1 /\ ((n - 1) - d + i) + 1 = n - d + i
        /\ (n - 1) - d + i >= 1 /\ n - d + i >= 1
    BY <1>2, <1>8
  <2> QED
    BY <1>2, <1>4, <1>6, <2>1, Zenon
<1>9. CASE n - d + i = 1
  <2>1. ~((n - 1) - d + i >= 1) /\ n - d + i >= 1
    BY <1>2, <1>9
  <2>2. h = plan[i]
    BY <1>2, <1>4, <1>6, <1>9, <2>1, Zenon
  <2> QED
    BY <1>5, <1>7, <2>1, <2>2
<1>10. CASE n - d + i < 1
  <2> DEFINE j == d - n + 1
  <2>1. ~((n - 1) - d + i >= 1) /\ ~(n - d + i >= 1)
    BY <1>2, <1>10
  <2>2. /\ j \in 1 .. d /\ n - d + j = 1 /\ n - d + j >= 1 /\ i # j
        /\ i \in 1 .. Len(plan) /\ j \in 1 .. Len(plan)
    BY <1>2, <1>10
  <2>3. ram[plan[i].param] = plan[i].value
    BY <1>2, <1>6, <2>1, Zenon
  <2> HIDE DEF j
  <2>4. h = plan[j]
    BY <1>4, <1>6, <2>2, Zenon
  <2>5. plan[i].param # plan[j].param
    BY <1>3, <2>2, Zenon DEF Distinct
  <2>6. ram'[plan[i].param] = ram[plan[i].param]
    BY <1>5, <1>7, <2>4, <2>5
  <2> QED
    BY <2>1, <2>3, <2>6
<1> QED
  BY <1>2, <1>8, <1>9, <1>10

LEMMA PlacedStep == SetupTypes /\ Undisturbed /\ Placed /\ [Next]_vars => Placed'
<1> SUFFICES ASSUME SetupTypes, Undisturbed, Placed, [Next]_vars PROVE Placed'
  OBVIOUS
<1>1. ASSUME NEW c \in Clients, Start(c) PROVE Placed'
  <2>1. newest' = c /\ done'[c] = 0
    BY <1>1 DEF Start, SetupTypes, ThreadTypes
  <2> QED
    BY <2>1 DEF Placed
<1>2. ASSUME NEW c \in Clients, WriteNext(c) PROVE Placed'
  BY <1>2, PlacedWrite
<1>3. ASSUME NEW c \in Clients, WriteFails(c) PROVE Placed'
  <2>1. UNCHANGED <<call, done, wire, ram, lost, alone, newest>>
    BY <1>3, WriteFailsMoves
  <2> QED
    BY <2>1, Zenon DEF Placed, PlacedAt, Place
<1>4. CASE Apply
  BY <1>4, PlacedApply
<1>5. CASE Lose
  BY <1>5 DEF Lose, Placed
<1>6. CASE UNCHANGED vars
  BY <1>6, Zenon DEF vars, Placed, PlacedAt, Place
<1> QED
  BY <1>1, <1>2, <1>3, <1>4, <1>5, <1>6 DEF Next, Rest

LEMMA SetupInvInit == Init => SetupInv
<1> SUFFICES ASSUME Init PROVE SetupInv
  OBVIOUS
<1>1. Undisturbed
  BY DEF Init, Undisturbed
<1>2. Placed
  BY DEF Init, Placed
<1> QED
  BY <1>1, <1>2, SetupTypesInit DEF SetupInv

LEMMA SetupInvStep == SetupInv /\ [Next]_vars => SetupInv'
BY SetupTypesStep, UndisturbedStep, PlacedStep DEF SetupInv

\* Once the bus is quiet, everything the newest call wrote undisturbed is in the motor.
LEMMA WrittenIsApplied ==
  ASSUME SetupInv, Settled, alone[newest], NEW i \in 1 .. done[newest]
  PROVE  LET w == Plan(call[newest])[i] IN ram[w.param] = w.value
<1>1. PlacedAt(i)
  BY DEF SetupInv, Placed, Settled
<1>2. Len(wire) = 0 /\ done[newest] \in 0 .. 4
  BY DEF Settled, SetupInv, SetupTypes, ThreadTypes
<1>3. ~(Place(i) >= 1)
  BY <1>2 DEF Place
<1> QED
  BY <1>1, <1>3, Zenon DEF PlacedAt

LEMMA SuccessConfiguresHolds == SetupInv => SuccessConfigures
<1> SUFFICES ASSUME SetupInv, Settled, alone[newest], result[newest] = "SUCCESS"
             PROVE  Applied(call[newest])
  BY DEF SuccessConfigures
<1>1. newest \in Clients /\ call[newest] \in KnownCalls
  BY DEF SetupInv, SetupTypes, ThreadTypes
<1>2. done[newest] = Len(Plan(call[newest]))
  BY <1>1 DEF SetupInv, SetupTypes, Progress
<1>3. DOMAIN Plan(call[newest]) = 1 .. done[newest]
  BY <1>1, <1>2, PlanShape, LenProperties
<1> QED
  BY <1>3, WrittenIsApplied, Zenon DEF Applied

LEMMA ModeBeforeLimitsHolds == SetupInv => ModeBeforeLimits
<1> SUFFICES ASSUME SetupInv, Settled, alone[newest], result[newest] = "ERR_NACK", done[newest] > 0
             PROVE  ram["RUN_MODE"] = call[newest].mode
  BY DEF ModeBeforeLimits
<1>1. /\ newest \in Clients /\ call[newest] \in KnownCalls /\ call[newest].mode # "STOP_PP"
      /\ 1 \in 1 .. done[newest]
  <2>1. newest \in Clients /\ call[newest] \in KnownCalls /\ done[newest] \in 0 .. 4
    BY DEF SetupInv, SetupTypes, ThreadTypes
  <2>2. call[newest].mode # "STOP_PP"
    BY <2>1 DEF SetupInv, SetupTypes, Progress
  <2> QED
    BY <2>1, <2>2
<1>2. Plan(call[newest])[1] = Write("RUN_MODE", call[newest].mode)
  BY <1>1, PlanShape
<1>3. LET w == Plan(call[newest])[1] IN ram[w.param] = w.value
  BY <1>1, WrittenIsApplied
<1> QED
  BY <1>2, <1>3 DEF Write

\* A setup that succeeds with no other call overlapping it configures the motor completely
\* once the bus is quiet, whatever was written before it and whatever failed then.
THEOREM SetupConfigures == Spec => []SuccessConfigures
BY SetupInvInit, SetupInvStep, SuccessConfiguresHolds, PTL DEF Spec

\* A setup that fails halfway leaves the motor in its mode if anything of it got through.
THEOREM FailedSetupSetsMode == Spec => []ModeBeforeLimits
BY SetupInvInit, SetupInvStep, ModeBeforeLimitsHolds, PTL DEF Spec
=============================================================================
