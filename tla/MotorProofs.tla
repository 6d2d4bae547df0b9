----------------------------- MODULE MotorProofs -----------------------------
(***************************************************************************)
(* Theorems about Motor for every number of threads, every overrun limit,  *)
(* every set of parameters and both protocols.                             *)
(***************************************************************************)
EXTENDS Motor, FiniteSetTheorems, TLAPS

USE DEF MotorMutexFree

\* What a parsed frame writes into the cached status is a status again.
LEMMA RefreshType ==
  ASSUME NEW s \in Statuses, NEW f \in Frames
  PROVE  Refresh(s, f) \in Statuses
BY DEF Refresh, ParseFeedback, Statuses, Frames, MotorStates

\* So does counting a frame that could not be parsed.
LEMMA UnknownType ==
  ASSUME NEW s \in Statuses
  PROVE  [s EXCEPT !.unknown = @ + 1] \in Statuses
BY DEF Statuses

\* A reply has a known type.
LEMMA ResponseTypeType ==
  /\ \A f \in Frames : ResponseType(f) \in FrameTypes
  /\ \A o \in AllOps : ExpectedType(o) \in FrameTypes
BY DEF ResponseType, ExpectedType, PingResponseType, FrameTypes

\* What a command makes of an error is a Result.
LEMMA ResultType ==
  ASSUME NEW o \in AllOps, NEW r \in TransportErrors
  PROVE  /\ TransmitFailure(o, r) \in Results
         /\ Refusal(o) \in Results
         /\ Expiry(o) \in Results
         /\ r \in Results
BY DEF TransmitFailure, Refusal, Expiry, Results, TransportErrors

\* The operation a client runs, and the command under command_mutex_, are known.
LEMMA CommandType ==
  ASSUME TypeOK, NEW c \in Clients
  PROVE  op[c] \in AllOps /\ Command(c) \in AllOps
BY DEF TypeOK, Command, AllOps, AwaitingOps

\* A command that returns sets a client, a result and the mutex to legal values.
LEMMA FinishType ==
  ASSUME TypeOK, NEW c \in Clients, NEW r \in Results, Finish(c, r)
  PROVE  pc' = [pc EXCEPT ![c] = "idle"] /\ result' \in [Clients -> Results]
         /\ cmdOwner' = NoClient
BY DEF TypeOK, Finish, Return, Goto, Results

\* The request a command transmits is well formed: a send carries no argument,
\* nor does the stop() it may turn into.
LEMMA RequestType ==
  ASSUME TypeOK, NEW c \in Clients
  PROVE  [cmd |-> Command(c), arg |-> arg[c]] \in Requests
<1>1. arg[c] \in Args /\ arg[c] \in ArgsOf(op[c])
  BY DEF TypeOK
<1>2. ArgsOf("stop") = {NoValue} /\ ArgsOf("send") = {NoValue}
  BY DEF ArgsOf
<1>3. arg[c] \in ArgsOf(Command(c))
  BY <1>1, <1>2 DEF Command
<1> QED
  BY <1>1, <1>3, CommandType DEF Requests

\* Whatever transmit() does, the transport keeps its type.
LEMMA TransportType ==
  ASSUME TypeOK, NEW q \in Requests,
         TransportSends(q) \/ \E r \in TransportErrors : TransportFails(r)
  PROVE  link' \in BOOLEAN /\ toMotor' \in Seq(Requests) /\ fromMotor' \in Seq(Frames)
<1>1. CASE TransportSends(q)
  BY <1>1 DEF TypeOK, TransportSends
<1>2. CASE \E r \in TransportErrors : TransportFails(r)
  BY <1>2 DEF TypeOK, TransportFails
<1> QED
  BY <1>1, <1>2

\* What a motor makes of a request, and what it answers, have their types.
LEMMA DeviceType ==
  ASSUME TypeOK, NEW q \in Requests, NEW kind \in AnswerKinds(q)
  PROVE  /\ StateAfter(q) \in MotorStates
         /\ RamAfter(q) \in [Params -> Values]
         /\ Answer(q, kind) \in Frames
<1>1. StateAfter(q) \in MotorStates
  BY DEF StateAfter, TypeOK, MotorStates
<1>2. q.cmd \in AllOps /\ q.arg \in ArgsOf(q.cmd)
  BY DEF Requests
<1>3. q.cmd = "write" => q.arg \in Values
  BY <1>2 DEF ArgsOf
<1>4. q.cmd = "read" => q.arg \in Selectors
  BY <1>2 DEF ArgsOf
<1>5. RamAfter(q) \in [Params -> Values]
  BY <1>3 DEF RamAfter, TypeOK
<1>6. kind \in Kinds
  BY ProtocolAssumption DEF AnswerKinds, Kinds
<1>7. q.cmd \in {"read", "write"} => q.arg[1] \in Params
  BY <1>3, <1>4 DEF Values, Selectors
<1>8. AnswerValue(q, kind) \in Values \cup {NoValue}
  BY <1>5, <1>7, ConstantsAssumption DEF AnswerValue, TypeOK
<1> QED
  BY <1>1, <1>5, <1>6, <1>8 DEF Answer, Frames

\* No step leaves the types.
LEMMA TypeStep == TypeOK /\ [Next]_vars => TypeOK'
<1> SUFFICES ASSUME TypeOK, [Next]_vars PROVE TypeOK'
  OBVIOUS
<1> USE DEF TypeOK, motorVars, rxVars, busVars, deviceVars, clientVars
<1>1. ASSUME NEW c \in Clients, Call(c) PROVE TypeOK'
  <2>1. PICK o \in Ops \ {"disconnect"} : \E a \in ArgsOf(o) :
          /\ op' = [op EXCEPT ![c] = o]
          /\ arg' = [arg EXCEPT ![c] = a]
          /\ Goto(c, IF o = "send" THEN "check" ELSE "lock")
    BY <1>1 DEF Call
  <2>2. PICK a \in ArgsOf(o) : arg' = [arg EXCEPT ![c] = a]
    BY <2>1
  <2>3. o \in AllOps /\ a \in Args
    BY <2>2, ConstantsAssumption DEF ArgsOf, Args
  <2>4. /\ op' \in [Clients -> AllOps] /\ arg' \in [Clients -> Args]
        /\ \A d \in Clients : arg'[d] \in ArgsOf(op'[d])
    BY <2>1, <2>2, <2>3
  <2> QED
    BY <1>1, <2>1, <2>4 DEF Call, Goto, Results
<1>2. ASSUME NEW c \in Clients, Disconnect(c) PROVE TypeOK'
  <2>1. /\ op' \in [Clients -> AllOps] /\ arg' \in [Clients -> Args]
        /\ \A d \in Clients : arg'[d] \in ArgsOf(op'[d])
    BY <1>2 DEF Disconnect, AllOps, Args, ArgsOf
  <2>2. status' \in Statuses
    BY <1>2 DEF Disconnect, Statuses
  <2> QED
    BY <1>2, <2>1, <2>2 DEF Disconnect, Results
<1>3. ASSUME NEW c \in Clients, Lock(c) PROVE TypeOK'
  <2>1. CASE link
    BY <1>3, <2>1 DEF Lock, Goto
  <2>2. CASE ~link
    <3>1. Refusal(Command(c)) \in Results
      BY DEF Refusal, Results
    <3>2. Finish(c, Refusal(Command(c)))
      BY <1>3, <2>2 DEF Lock
    <3> QED
      BY <1>3, <3>1, <3>2, FinishType DEF Lock
  <2> QED
    BY <2>1, <2>2
<1>4. ASSUME NEW c \in Clients, PrepareWait(c) PROVE TypeOK'
  BY <1>4, CommandType, ResponseTypeType DEF PrepareWait, Goto
<1>5. ASSUME NEW c \in Clients, Transmit(c) PROVE TypeOK'
  <2>1. link' \in BOOLEAN /\ toMotor' \in Seq(Requests) /\ fromMotor' \in Seq(Frames)
    BY <1>5, RequestType, TransportType DEF Transmit
  <2>2. ASSUME Command(c) = "write", Finish(c, "SUCCESS") PROVE TypeOK'
    BY <1>5, <2>1, <2>2, FinishType DEF Transmit, Results
  <2>3. ASSUME Goto(c, "wait"), UNCHANGED <<result, cmdOwner>> PROVE TypeOK'
    BY <1>5, <2>1, <2>3 DEF Transmit, Goto
  <2>4. ASSUME NEW r \in TransportErrors, Finish(c, TransmitFailure(Command(c), r))
        PROVE  TypeOK'
    <3>1. TransmitFailure(Command(c), r) \in Results
      BY CommandType, ResultType
    <3> QED
      BY <1>5, <2>1, <2>4, <3>1, FinishType DEF Transmit
  <2> QED
    BY <1>5, <2>2, <2>3, <2>4 DEF Transmit
<1>6. ASSUME NEW c \in Clients, WaitSucceeds(c) PROVE TypeOK'
  BY <1>6, FinishType DEF WaitSucceeds, Goto, Results
<1>7. ASSUME NEW c \in Clients, WaitTimesOut(c) PROVE TypeOK'
  <2>1. Expiry(Command(c)) \in Results
    BY DEF Expiry, Results
  <2> QED
    BY <1>7, <2>1, FinishType DEF WaitTimesOut
<1>8. ASSUME NEW c \in Clients, Readback(c) PROVE TypeOK'
  <2>1. value' \in [Clients -> Values \cup {NoValue}]
    BY <1>8 DEF Readback, Statuses
  <2> QED
    BY <1>8, <2>1, FinishType DEF Readback, Results
<1>9. ASSUME NEW c \in Clients, CheckOverrun(c) PROVE TypeOK'
  BY <1>9 DEF CheckOverrun, Goto, Return, Results
<1>10. ASSUME NEW c \in Clients, Saturate(c) PROVE TypeOK'
  <2>1. OverrunLimit \in Int
    BY ConstantsAssumption
  <2> QED
    BY <1>10, <2>1 DEF Saturate, Goto
<1>11. ASSUME NEW c \in Clients, Send(c) PROVE TypeOK'
  <2>1. [cmd |-> "send", arg |-> NoValue] \in Requests
    BY DEF Requests, AllOps, Args, ArgsOf
  <2>2. link' \in BOOLEAN /\ toMotor' \in Seq(Requests) /\ fromMotor' \in Seq(Frames)
    BY <1>11, <2>1, TransportType DEF Send
  <2>3. pc' = [pc EXCEPT ![c] = "idle"] /\ result' \in [Clients -> Results]
    BY <1>11, ResultType DEF Send, Return, Goto, Results
  <2> QED
    BY <1>11, <2>2, <2>3 DEF Send
<1>12. ASSUME RxReceive PROVE TypeOK'
  BY <1>12 DEF RxReceive
<1>13. ASSUME RxParse PROVE TypeOK'
  <2>1. status' \in Statuses
    <3>1. CASE Parses(rxFrame)
      BY <1>13, <3>1, RefreshType DEF RxParse
    <3>2. CASE ~Parses(rxFrame)
      BY <1>13, <3>2, UnknownType DEF RxParse
    <3> QED
      BY <3>1, <3>2
  <2>2. rxFrame' \in Frames
    BY <1>13 DEF RxParse, NoFrame, Frames, Kinds, MotorStates
  <2> QED
    BY <1>13, <2>1, <2>2 DEF RxParse
<1>14. ASSUME RxFinish PROVE TypeOK'
  <2>1. rxFrame' \in Frames
    BY <1>14 DEF RxFinish, NoFrame, Frames, Kinds, MotorStates
  <2> QED
    BY <1>14, <2>1 DEF RxFinish
<1>15. ASSUME RxExit PROVE TypeOK'
  BY <1>15 DEF RxExit
<1>16. ASSUME DeviceAnswers PROVE TypeOK'
  <2> DEFINE q == Head(toMotor)
  <2>1. q \in Requests /\ Tail(toMotor) \in Seq(Requests)
    BY <1>16 DEF DeviceAnswers
  <2>2. PICK kind \in AnswerKinds(q) : fromMotor' = Append(fromMotor, Answer(q, kind))
    BY <1>16 DEF DeviceAnswers
  <2>3. motorState' = StateAfter(q) /\ ram' = RamAfter(q) /\ toMotor' = Tail(toMotor)
    BY <1>16 DEF DeviceAnswers
  <2> HIDE DEF q
  <2>4. /\ motorState' \in MotorStates /\ ram' \in [Params -> Values]
        /\ Answer(q, kind) \in Frames
    BY <2>1, <2>2, <2>3, DeviceType
  <2>5. fromMotor' \in Seq(Frames)
    BY <2>2, <2>4
  <2> QED
    BY <1>16, <2>1, <2>3, <2>4, <2>5 DEF DeviceAnswers
<1>17. ASSUME DeviceSilent PROVE TypeOK'
  <2>1. Head(toMotor) \in Requests /\ Tail(toMotor) \in Seq(Requests)
    BY <1>17 DEF DeviceSilent
  <2>2. "feedback" \in AnswerKinds(Head(toMotor)) \/ "param" \in AnswerKinds(Head(toMotor))
        \/ "mcu_id" \in AnswerKinds(Head(toMotor))
    BY DEF AnswerKinds
  <2>3. motorState' \in MotorStates /\ ram' \in [Params -> Values]
    BY <1>17, <2>1, <2>2, DeviceType DEF DeviceSilent
  <2> QED
    BY <1>17, <2>1, <2>3 DEF DeviceSilent
<1>18. ASSUME RequestLost PROVE TypeOK'
  BY <1>18 DEF RequestLost
<1>19. ASSUME Stray PROVE TypeOK'
  <2>1. PICK kind \in Kinds : fromMotor' =
          Append(fromMotor, [kind |-> kind, state |-> motorState, value |-> NoValue])
    BY <1>19 DEF Stray
  <2>2. [kind |-> kind, state |-> motorState, value |-> NoValue] \in Frames
    BY DEF Frames
  <2> QED
    BY <1>19, <2>1, <2>2 DEF Stray
<1>20. ASSUME LinkDown PROVE TypeOK'
  BY <1>20 DEF LinkDown
<1>21. CASE UNCHANGED vars
  BY <1>21 DEF vars
<1> QED
  BY <1>1, <1>2, <1>3, <1>4, <1>5, <1>6, <1>7, <1>8, <1>9, <1>10, <1>11, <1>12,
     <1>13, <1>14, <1>15, <1>16, <1>17, <1>18, <1>19, <1>20, <1>21
  DEF Next, ClientStep, RxStep, Environment, Rest

\* The initial state is typed.
LEMMA TypeInit == Init => TypeOK
<1> SUFFICES ASSUME Init PROVE TypeOK
  OBVIOUS
<1>1. status \in Statuses /\ rxFrame \in Frames
  BY DEF Init, Statuses, Frames, NoFrame, Kinds, MotorStates
<1>2. ArgsOf("disconnect") = {NoValue}
  BY DEF ArgsOf
<1>3. toMotor \in Seq(Requests) /\ fromMotor \in Seq(Frames)
  BY DEF Init
<1>4. /\ op \in [Clients -> AllOps] /\ result \in [Clients -> Results]
      /\ arg \in [Clients -> Args] /\ \A c \in Clients : arg[c] \in ArgsOf(op[c])
  BY <1>2 DEF Init, AllOps, Args, Results
<1>5. ram \in [Params -> Values]
  BY DEF Init
<1>6. /\ pc \in [Clients -> {"idle", "lock", "prepare", "transmit", "wait", "readback",
                            "check", "saturate", "send"}]
      /\ value \in [Clients -> Values \cup {NoValue}]
  BY DEF Init
<1>7. cmdOwner \in Clients \cup {NoClient} /\ expected \in FrameTypes
  BY DEF Init, FrameTypes
<1>8. /\ calls \in Nat /\ unacked \in Int /\ rxPrev \in Int
      /\ rxPc \in {"receive", "parse", "finish", "exited"}
      /\ motorState \in MotorStates /\ stray \in Nat /\ streak \in Nat
  BY DEF Init
<1>9. received \in BOOLEAN /\ link \in BOOLEAN
  BY DEF Init
<1> QED
  BY <1>1, <1>3, <1>4, <1>5, <1>6, <1>7, <1>8, <1>9, Zenon DEF TypeOK

\* The state is well typed: in particular every queued request carries the
\* argument its operation needs, and every frame is one the motor can send.
THEOREM TypeCorrect == Spec => []TypeOK
<1>1. Init => TypeOK
  BY TypeInit
<1>2. TypeOK /\ [Next]_vars => TypeOK'
  BY TypeStep
<1> QED
  BY <1>1, <1>2, PTL DEF Spec

-----------------------------------------------------------------------------
(* The expected type belongs to the command under command_mutex_.          *)

\* Steps that leave the threads' control state and the armed type alone.
LEMMA OwnedUntouched ==
  ASSUME ExpectationOwned, UNCHANGED <<pc, op, cmdOwner, expected>>
  PROVE  ExpectationOwned'
BY DEF ExpectationOwned, Holding, Command

\* A command that returns leaves nobody holding the mutex.
LEMMA OwnedFinish ==
  ASSUME TypeOK, ExpectationOwned, NEW c \in Clients, NEW r,
         pc[c] \in Holding \/ cmdOwner = NoClient,
         Finish(c, r), UNCHANGED <<op, expected>>
  PROVE  ExpectationOwned'
<1>1. \A d \in Clients : d # c => pc[d] \notin Holding
  BY ConstantsAssumption DEF ExpectationOwned
<1>2. pc' = [pc EXCEPT ![c] = "idle"]
  BY DEF Finish, Return, Goto
<1>3. \A d \in Clients : pc'[d] \notin Holding
  BY <1>1, <1>2 DEF TypeOK, Holding
<1> QED
  BY <1>3 DEF ExpectationOwned, Holding

\* A client that moves on inside its own command keeps what it owns.
LEMMA OwnedMove ==
  ASSUME TypeOK, ExpectationOwned, NEW c \in Clients, NEW at,
         Goto(c, at), UNCHANGED <<op, cmdOwner, expected>>,
         at \in Holding => cmdOwner = c,
         at \in {"transmit", "wait"} /\ Command(c) # "write"
           => expected = ExpectedType(Command(c))
  PROVE  ExpectationOwned'
BY DEF TypeOK, ExpectationOwned, Holding, Goto, Command

LEMMA OwnedStep == TypeOK /\ ExpectationOwned /\ [Next]_vars => ExpectationOwned'
<1> SUFFICES ASSUME TypeOK, ExpectationOwned, [Next]_vars PROVE ExpectationOwned'
  OBVIOUS
<1> USE DEF motorVars, rxVars, busVars, deviceVars, clientVars
<1>1. ASSUME NEW c \in Clients, Call(c) PROVE ExpectationOwned'
  <2>1. /\ pc'[c] \in {"check", "lock"} /\ UNCHANGED <<cmdOwner, expected>>
        /\ \A d \in Clients \ {c} : pc'[d] = pc[d] /\ op'[d] = op[d]
    BY <1>1 DEF Call, Goto, TypeOK
  <2> QED
    BY <2>1 DEF ExpectationOwned, Holding, Command
<1>2. ASSUME NEW c \in Clients, Disconnect(c) PROVE ExpectationOwned'
  <2>1. /\ pc'[c] = "idle" /\ UNCHANGED <<pc, cmdOwner, expected>>
        /\ \A d \in Clients \ {c} : op'[d] = op[d]
    BY <1>2 DEF Disconnect, TypeOK
  <2> QED
    BY <2>1 DEF ExpectationOwned, Holding, Command
<1>3. ASSUME NEW c \in Clients, Lock(c) PROVE ExpectationOwned'
  <2>1. CASE link
    <3>1. \A d \in Clients : pc[d] \notin Holding
      BY <1>3, ConstantsAssumption DEF Lock, ExpectationOwned
    <3>2. /\ cmdOwner' = c /\ UNCHANGED <<op, expected>>
          /\ pc'[c] \in {"transmit", "prepare"}
          /\ pc'[c] = "transmit" => Command(c) = "write"
          /\ \A d \in Clients \ {c} : pc'[d] = pc[d]
      BY <1>3, <2>1 DEF Lock, Goto, TypeOK
    <3> QED
      BY <3>1, <3>2 DEF ExpectationOwned, Holding, Command
  <2>2. CASE ~link
    BY <1>3, <2>2, OwnedFinish DEF Lock
  <2> QED
    BY <2>1, <2>2
<1>4. ASSUME NEW c \in Clients, PrepareWait(c) PROVE ExpectationOwned'
  <2>1. \A d \in Clients \ {c} : pc[d] \notin Holding
    BY <1>4 DEF PrepareWait, ExpectationOwned, Holding
  <2>2. /\ cmdOwner' = c /\ UNCHANGED op
        /\ pc'[c] = "transmit" /\ expected' = ExpectedType(Command(c))
        /\ \A d \in Clients \ {c} : pc'[d] = pc[d]
    BY <1>4 DEF PrepareWait, ExpectationOwned, Holding, Goto, TypeOK
  <2> QED
    BY <2>1, <2>2 DEF ExpectationOwned, Holding, Command
<1>5. ASSUME NEW c \in Clients, Transmit(c) PROVE ExpectationOwned'
  <2>1. pc[c] \in Holding /\ pc[c] = "transmit" /\ UNCHANGED <<op, expected>>
    BY <1>5 DEF Transmit, Holding
  <2>2. ASSUME Command(c) # "write", Goto(c, "wait"), UNCHANGED cmdOwner
        PROVE  ExpectationOwned'
    BY <2>1, <2>2, OwnedMove DEF ExpectationOwned
  <2> QED
    BY <1>5, <2>1, <2>2, OwnedFinish DEF Transmit
<1>6. ASSUME NEW c \in Clients, WaitSucceeds(c) PROVE ExpectationOwned'
  <2>1. pc[c] \in Holding /\ UNCHANGED <<op, expected>>
    BY <1>6 DEF WaitSucceeds, Holding
  <2>2. ASSUME Goto(c, "readback"), UNCHANGED cmdOwner PROVE ExpectationOwned'
    BY <2>1, <2>2, OwnedMove DEF ExpectationOwned
  <2> QED
    BY <1>6, <2>1, <2>2, OwnedFinish DEF WaitSucceeds
<1>7. ASSUME NEW c \in Clients, WaitTimesOut(c) \/ Readback(c) PROVE ExpectationOwned'
  <2>1. pc[c] \in Holding /\ UNCHANGED <<op, expected>>
    BY <1>7 DEF WaitTimesOut, Readback, Holding
  <2>2. \E r : Finish(c, r)
    BY <1>7 DEF WaitTimesOut, Readback
  <2> QED
    BY <2>1, <2>2, OwnedFinish
<1>8. ASSUME NEW c \in Clients, CheckOverrun(c) \/ Saturate(c) \/ Send(c)
      PROVE  ExpectationOwned'
  <2>1. PICK at \in {"idle", "lock", "saturate", "send"} : Goto(c, at)
    BY <1>8 DEF CheckOverrun, Saturate, Send, Return
  <2>2. UNCHANGED <<op, cmdOwner, expected>>
    BY <1>8 DEF CheckOverrun, Saturate, Send
  <2>3. at \notin Holding /\ at \notin {"transmit", "wait"}
    BY DEF Holding
  <2> QED
    BY <2>1, <2>2, <2>3, OwnedMove
<1>9. ASSUME RxStep \/ Environment \/ UNCHANGED vars PROVE ExpectationOwned'
  <2>1. UNCHANGED <<pc, op, cmdOwner, expected>>
    BY <1>9 DEF RxStep, RxReceive, RxParse, RxFinish, RxExit, Environment, DeviceAnswers,
                DeviceSilent, RequestLost, Stray, LinkDown, vars
  <2> QED
    BY <2>1, OwnedUntouched
<1> QED
  BY <1>1, <1>2, <1>3, <1>4, <1>5, <1>6, <1>7, <1>8, <1>9 DEF Next, ClientStep, Rest

\* command_mutex_ makes every armed expectation safe from all other threads,
\* for any number of them.
THEOREM ExpectationIsOwned == Spec => []ExpectationOwned
<1>1. Init => ExpectationOwned
  BY DEF Init, ExpectationOwned, Holding
<1>2. TypeOK /\ ExpectationOwned /\ [Next]_vars => ExpectationOwned'
  BY OwnedStep
<1> QED
  BY <1>1, <1>2, TypeCorrect, PTL DEF Spec

-----------------------------------------------------------------------------
(* The overrun counter and the length of a burst                           *)

\* Sets of clients can be counted.
LEMMA ClientSets ==
  ASSUME NEW S \in SUBSET Clients
  PROVE  /\ IsFiniteSet(S)
         /\ Cardinality(S) \in Nat /\ Cardinality(Clients) \in Nat
         /\ Cardinality(S) <= Cardinality(Clients)
BY ClientsFinite, FS_Subset, FS_CardinalityType

\* The sets of clients about to reset the counter, and about to transmit, change
\* only with the program counter of the client that steps.
LEMMA SaturatingAdd ==
  ASSUME TypeOK, NEW c \in Clients, pc[c] # "saturate", Goto(c, "saturate")
  PROVE  /\ Cardinality(Saturating') = Cardinality(Saturating) + 1
         /\ Cardinality(Saturating) \in Nat
<1>1. Saturating' = Saturating \cup {c}
  BY DEF Saturating, Goto, TypeOK
<1>2. Saturating \in SUBSET Clients /\ c \notin Saturating
  BY DEF Saturating
<1> QED
  BY <1>1, <1>2, ClientSets, FS_AddElement

LEMMA PassedAdd ==
  ASSUME TypeOK, NEW c \in Clients, pc[c] # "send", Goto(c, "send")
  PROVE  Cardinality(Passed') = Cardinality(Passed) + 1
<1>1. Passed' = Passed \cup {c}
  BY DEF Passed, Goto, TypeOK
<1>2. Passed \in SUBSET Clients /\ c \notin Passed
  BY DEF Passed
<1> QED
  BY <1>1, <1>2, ClientSets, FS_AddElement

LEMMA PassedRemove ==
  ASSUME TypeOK, NEW c \in Clients, NEW at, at # "send", pc[c] = "send", Goto(c, at)
  PROVE  Cardinality(Passed') = Cardinality(Passed) - 1
<1>1. Passed' = Passed \ {c}
  BY DEF Passed, Goto, TypeOK
<1>2. Passed \in SUBSET Clients /\ c \in Passed
  BY DEF Passed
<1> QED
  BY <1>1, <1>2, ClientSets, FS_RemoveElement

LEMMA SetsKept ==
  ASSUME TypeOK, NEW c \in Clients, NEW at, Goto(c, at)
  PROVE  /\ pc[c] # "saturate" /\ at # "saturate" => Saturating' = Saturating
         /\ pc[c] # "send" /\ at # "send" => Passed' = Passed
BY DEF Saturating, Passed, Goto, TypeOK

\* Where the counter and the streak do not change, the program counter of a
\* client may move between points that concern neither.
Elsewhere == {"idle", "lock", "prepare", "transmit", "wait", "readback", "check"}

LEMMA ElsewhereSteps ==
  ASSUME TypeOK, NEW c \in Clients,
         \/ Call(c) \/ Disconnect(c) \/ Lock(c) \/ PrepareWait(c) \/ Transmit(c)
         \/ WaitSucceeds(c) \/ WaitTimesOut(c) \/ Readback(c)
  PROVE  /\ UNCHANGED <<unacked, streak, rxPc, rxPrev>>
         /\ Saturating' = Saturating /\ Passed' = Passed
<1> USE DEF motorVars, rxVars, Elsewhere
<1>1. UNCHANGED <<unacked, streak, rxPc, rxPrev>>
  BY DEF Call, Disconnect, Lock, PrepareWait, Transmit, WaitSucceeds, WaitTimesOut, Readback
<1>2. pc[c] \in Elsewhere
  BY DEF Call, Disconnect, Lock, PrepareWait, Transmit, WaitSucceeds, WaitTimesOut, Readback
<1>3. UNCHANGED pc \/ \E at \in Elsewhere : Goto(c, at)
  BY DEF Call, Disconnect, Lock, PrepareWait, Transmit, WaitSucceeds, WaitTimesOut, Readback,
         Finish, Return
<1>4. CASE UNCHANGED pc
  BY <1>1, <1>4 DEF Saturating, Passed
<1>5. CASE \E at \in Elsewhere : Goto(c, at)
  BY <1>1, <1>2, <1>5, SetsKept
<1> QED
  BY <1>3, <1>4, <1>5

LEMMA OutsideSteps ==
  ASSUME RxReceive \/ RxExit \/ Environment \/ UNCHANGED vars
  PROVE  /\ UNCHANGED <<unacked, streak, rxPrev>>
         /\ Saturating' = Saturating /\ Passed' = Passed
         /\ rxPc # "finish" \/ rxPc' = rxPc
         /\ rxPc' = "finish" => rxPc = "finish"
BY DEF RxReceive, RxExit, Environment, DeviceAnswers, DeviceSilent, RequestLost, Stray,
       LinkDown, vars, clientVars, motorVars, rxVars, Saturating, Passed

LEMMA CounterStep == TypeOK /\ CounterBounds /\ [Next]_vars => CounterBounds'
<1> SUFFICES ASSUME TypeOK, CounterBounds, [Next]_vars PROVE CounterBounds'
  OBVIOUS
<1>0. /\ OverrunLimit \in Nat /\ unacked \in Int /\ rxPrev \in Int
      /\ Cardinality(Saturating) \in Nat /\ Cardinality(Saturating') \in Nat
  <2>1. Saturating \in SUBSET Clients /\ Saturating' \in SUBSET Clients
    BY DEF Saturating
  <2> QED
    BY <2>1, ConstantsAssumption, ClientSets DEF TypeOK
<1>1. ASSUME NEW c \in Clients,
             \/ Call(c) \/ Disconnect(c) \/ Lock(c) \/ PrepareWait(c) \/ Transmit(c)
             \/ WaitSucceeds(c) \/ WaitTimesOut(c) \/ Readback(c)
      PROVE  CounterBounds'
  BY <1>1, ElsewhereSteps DEF CounterBounds
<1>2. ASSUME NEW c \in Clients, CheckOverrun(c) PROVE CounterBounds'
  <2>1. pc[c] = "check" /\ UNCHANGED <<rxPc, rxPrev>>
    BY <1>2 DEF CheckOverrun, rxVars
  <2>2. CASE ~link
    <3>1. Goto(c, "idle") /\ UNCHANGED unacked
      BY <1>2, <2>2 DEF CheckOverrun, Return
    <3>2. Saturating' = Saturating
      BY <2>1, <3>1, SetsKept
    <3> QED
      BY <2>1, <3>1, <3>2 DEF CounterBounds
  <2>3. CASE link /\ unacked + 1 > OverrunLimit
    <3>1. Goto(c, "saturate") /\ unacked' = unacked + 1
      BY <1>2, <2>3 DEF CheckOverrun
    <3>2. Cardinality(Saturating') = Cardinality(Saturating) + 1
      BY <2>1, <3>1, SaturatingAdd
    <3> QED
      BY <1>0, <2>1, <2>3, <3>1, <3>2 DEF CounterBounds
  <2>4. CASE link /\ ~(unacked + 1 > OverrunLimit)
    <3>1. Goto(c, "send") /\ unacked' = unacked + 1
      BY <1>2, <2>4 DEF CheckOverrun
    <3> QED
      BY <1>0, <2>1, <2>4, <3>1 DEF CounterBounds
  <2> QED
    BY <2>2, <2>3, <2>4
<1>3. ASSUME NEW c \in Clients, Saturate(c) PROVE CounterBounds'
  BY <1>0, <1>3 DEF Saturate, CounterBounds
<1>4. ASSUME NEW c \in Clients, Send(c) PROVE CounterBounds'
  <2>1. /\ pc[c] = "send" /\ Goto(c, "idle")
        /\ UNCHANGED <<unacked, rxPc, rxPrev>>
    BY <1>4 DEF Send, Return, motorVars, rxVars
  <2>2. Saturating' = Saturating
    BY <2>1, SetsKept
  <2> QED
    BY <2>1, <2>2 DEF CounterBounds
<1>5. ASSUME RxParse PROVE CounterBounds'
  <2>1. rxPc = "parse" /\ Saturating' = Saturating
    BY <1>5 DEF RxParse, Saturating, clientVars
  <2>2. CASE Parses(rxFrame)
    <3>1. rxPc' = "finish" /\ rxPrev' = unacked /\ unacked' = unacked - 1
      BY <1>5, <2>2 DEF RxParse
    <3> QED
      BY <1>0, <2>1, <3>1 DEF CounterBounds
  <2>3. CASE ~Parses(rxFrame)
    BY <1>5, <2>1, <2>3 DEF RxParse, CounterBounds
  <2> QED
    BY <2>2, <2>3
<1>6. ASSUME RxFinish PROVE CounterBounds'
  <2>1. Saturating' = Saturating /\ unacked' = (IF rxPrev <= 0 THEN 0 ELSE unacked)
    BY <1>6 DEF RxFinish, Saturating, clientVars
  <2> QED
    BY <1>0, <2>1 DEF CounterBounds
<1>7. ASSUME RxReceive \/ RxExit \/ Environment \/ UNCHANGED vars PROVE CounterBounds'
  BY <1>7, OutsideSteps DEF CounterBounds
<1> QED
  BY <1>1, <1>2, <1>3, <1>4, <1>5, <1>6, <1>7 DEF Next, ClientStep, RxStep, Rest

\* The atomic counter stays within its bounds for every number of senders and
\* every limit, although the receive thread changes it in two steps.
THEOREM CounterIsBounded == Spec => []CounterBounds
<1>1. Init => CounterBounds
  <2>1. Saturating \in SUBSET Clients
    BY DEF Saturating
  <2> QED
    BY <2>1, ConstantsAssumption, ClientSets DEF Init, CounterBounds
<1>2. TypeOK /\ CounterBounds /\ [Next]_vars => CounterBounds'
  BY CounterStep
<1> QED
  BY <1>1, <1>2, TypeCorrect, PTL DEF Spec

LEMMA StreakStep ==
  TypeOK /\ CounterBounds /\ StreakCovered /\ [Next]_vars => StreakCovered'
<1> SUFFICES ASSUME TypeOK, CounterBounds, StreakCovered, [Next]_vars
             PROVE  StreakCovered'
  OBVIOUS
<1>0. /\ OverrunLimit \in Nat /\ unacked \in Int /\ rxPrev \in Int /\ streak \in Nat
      /\ Cardinality(Passed) \in Nat /\ Cardinality(Clients) \in Nat
      /\ Cardinality(Passed) <= Cardinality(Clients)
  <2>1. Passed \in SUBSET Clients
    BY DEF Passed
  <2> QED
    BY <2>1, ConstantsAssumption, ClientSets DEF TypeOK
<1>1. ASSUME NEW c \in Clients,
             \/ Call(c) \/ Disconnect(c) \/ Lock(c) \/ PrepareWait(c) \/ Transmit(c)
             \/ WaitSucceeds(c) \/ WaitTimesOut(c) \/ Readback(c)
      PROVE  StreakCovered'
  BY <1>1, ElsewhereSteps DEF StreakCovered, Counted
<1>2. ASSUME NEW c \in Clients, CheckOverrun(c) PROVE StreakCovered'
  <2>1. pc[c] = "check" /\ UNCHANGED <<rxPc, rxPrev, streak>>
    BY <1>2 DEF CheckOverrun, rxVars
  <2>2. CASE ~link
    <3>1. Goto(c, "idle") /\ UNCHANGED unacked
      BY <1>2, <2>2 DEF CheckOverrun, Return
    <3>2. Passed' = Passed
      BY <2>1, <3>1, SetsKept
    <3> QED
      BY <2>1, <3>1, <3>2 DEF StreakCovered, Counted
  <2>3. CASE link /\ unacked + 1 > OverrunLimit
    <3>1. Goto(c, "saturate") /\ unacked' = unacked + 1
      BY <1>2, <2>3 DEF CheckOverrun
    <3>2. Passed' = Passed
      BY <2>1, <3>1, SetsKept
    <3>3. Counted <= Counted' /\ Counted \in Int /\ Counted' \in Int
      BY <1>0, <3>1 DEF Counted
    <3> QED
      BY <1>0, <2>1, <3>2, <3>3 DEF StreakCovered
  <2>4. CASE link /\ ~(unacked + 1 > OverrunLimit)
    <3>1. Goto(c, "send") /\ unacked' = unacked + 1
      BY <1>2, <2>4 DEF CheckOverrun
    <3>2. Cardinality(Passed') = Cardinality(Passed) + 1
      BY <2>1, <3>1, PassedAdd
    <3>3. Counted' = Counted + 1 /\ Counted \in Int
      BY <1>0, <2>4, <3>1 DEF Counted
    <3> QED
      BY <1>0, <2>1, <3>2, <3>3 DEF StreakCovered
  <2> QED
    BY <2>2, <2>3, <2>4
<1>3. ASSUME NEW c \in Clients, Saturate(c) PROVE StreakCovered'
  <2>1. /\ pc[c] = "saturate" /\ Goto(c, "lock") /\ unacked' = OverrunLimit
        /\ UNCHANGED <<streak, rxPc, rxPrev>>
    BY <1>3 DEF Saturate, rxVars
  <2>2. Passed' = Passed
    BY <2>1, SetsKept
  <2>3. Counted <= Counted' /\ Counted \in Int /\ Counted' \in Int
    BY <1>0, <2>1 DEF Counted
  <2> QED
    BY <1>0, <2>1, <2>2, <2>3 DEF StreakCovered
<1>4. ASSUME NEW c \in Clients, Send(c) PROVE StreakCovered'
  <2>1. /\ pc[c] = "send" /\ Goto(c, "idle") /\ streak' \in {streak, streak + 1}
        /\ UNCHANGED <<unacked, rxPc, rxPrev>>
    BY <1>4 DEF Send, Return, motorVars, rxVars
  <2>2. Cardinality(Passed') = Cardinality(Passed) - 1
    BY <2>1, PassedRemove
  <2>3. Counted' = Counted /\ Counted \in Int
    BY <1>0, <2>1 DEF Counted
  <2> QED
    BY <1>0, <2>1, <2>2, <2>3 DEF StreakCovered
<1>5. ASSUME RxParse PROVE StreakCovered'
  <2>1. rxPc = "parse" /\ Passed' = Passed
    BY <1>5 DEF RxParse, Passed, clientVars
  <2>2. CASE Parses(rxFrame)
    <3>1. rxPc' = "finish" /\ rxPrev' = unacked /\ unacked' = unacked - 1 /\ streak' = 0
      BY <1>5, <2>2 DEF RxParse
    <3>2. unacked >= 0
      BY <1>0, <2>1 DEF CounterBounds
    <3>3. Counted' >= -1 /\ (unacked > 0 => Counted' >= 0) /\ Counted' \in Int
      BY <1>0, <3>1, <3>2 DEF Counted
    <3> QED
      BY <1>0, <2>1, <3>1, <3>2, <3>3 DEF StreakCovered
  <2>3. CASE ~Parses(rxFrame)
    BY <1>5, <2>1, <2>3 DEF RxParse, StreakCovered, Counted
  <2> QED
    BY <2>2, <2>3
<1>6. ASSUME RxFinish PROVE StreakCovered'
  <2>1. /\ Passed' = Passed /\ unacked' = (IF rxPrev <= 0 THEN 0 ELSE unacked)
        /\ rxPc = "finish" /\ rxPc' = "receive" /\ streak' = streak
    BY <1>6 DEF RxFinish, Passed, clientVars
  <2>2. Counted \in Int /\ Counted <= OverrunLimit
    BY <1>0 DEF Counted
  <2>3. CASE rxPrev <= 0
    <3>1. Counted' = 0
      BY <1>0, <2>1, <2>3 DEF Counted
    <3> QED
      BY <1>0, <2>1, <2>2, <2>3, <3>1 DEF StreakCovered
  <2>4. CASE ~(rxPrev <= 0)
    <3>1. Counted' = Counted
      BY <2>1, <2>4 DEF Counted
    <3> QED
      BY <1>0, <2>1, <2>2, <2>4, <3>1 DEF StreakCovered
  <2> QED
    BY <2>3, <2>4
<1>7. ASSUME RxReceive \/ RxExit \/ Environment \/ UNCHANGED vars PROVE StreakCovered'
  <2>1. /\ UNCHANGED <<unacked, streak, rxPrev>> /\ Passed' = Passed
        /\ rxPc = "finish" <=> rxPc' = "finish"
    BY <1>7, OutsideSteps
  <2> QED
    BY <2>1 DEF StreakCovered, Counted
<1> QED
  BY <1>1, <1>2, <1>3, <1>4, <1>5, <1>6, <1>7 DEF Next, ClientStep, RxStep, Rest

\* What covers the streak also bounds it.
LEMMA CoveredIsBounded == TypeOK /\ StreakCovered => StreakBounded
<1> SUFFICES ASSUME TypeOK, StreakCovered PROVE StreakBounded
  OBVIOUS
<1>1. Passed \in SUBSET Clients
  BY DEF Passed
<1>2. /\ OverrunLimit \in Nat /\ streak \in Nat /\ unacked \in Int
      /\ Cardinality(Passed) \in Nat /\ Cardinality(Clients) \in Nat
  BY <1>1, ConstantsAssumption, ClientSets DEF TypeOK
<1>3. Counted \in Int /\ Counted <= OverrunLimit
  BY <1>2 DEF Counted
<1> QED
  BY <1>2, <1>3 DEF StreakCovered, StreakBounded

\* For every number of senders and every limit, a burst of control frames without
\* a reply ends after twice the limit, one frame per sender, and one more.
THEOREM StreakIsBounded == Spec => []StreakBounded
<1>1. Init => StreakCovered
  <2> SUFFICES ASSUME Init PROVE StreakCovered
    OBVIOUS
  <2>1. Passed = {} /\ Passed \in SUBSET Clients
    BY DEF Init, Passed
  <2>2. Cardinality(Passed) = 0 /\ Cardinality(Clients) \in Nat
    BY <2>1, ClientSets, FS_EmptySet
  <2>3. Counted = 0 /\ streak = 0 /\ rxPc = "receive" /\ OverrunLimit \in Nat
    BY ConstantsAssumption DEF Init, Counted
  <2> QED
    BY <2>2, <2>3 DEF StreakCovered
<1>2. TypeOK /\ CounterBounds /\ StreakCovered /\ [Next]_vars => StreakCovered'
  BY StreakStep
<1>3. TypeOK /\ StreakCovered => StreakBounded
  BY CoveredIsBounded
<1> QED
  BY <1>1, <1>2, <1>3, TypeCorrect, CounterIsBounded, PTL DEF Spec

-----------------------------------------------------------------------------
(* What a read hands out                                                   *)

\* Only a read looks at the cached reply, and only a send meets the overrun check.
PlaceFitsOp ==
  \A c \in Clients :
    /\ pc[c] = "readback" => op[c] = "read"
    /\ pc[c] \in {"check", "saturate", "send"} => op[c] = "send"

\* A thread that goes to a place that fits its operation.
LEMMA PlaceMove ==
  ASSUME TypeOK, PlaceFitsOp, NEW c \in Clients, NEW at, Goto(c, at),
         at = "readback" => op'[c] = "read",
         at \in {"check", "saturate", "send"} => op'[c] = "send",
         \A d \in Clients : d # c => op'[d] = op[d]
  PROVE  PlaceFitsOp'
BY DEF TypeOK, PlaceFitsOp, Goto

LEMMA PlaceStep == TypeOK /\ PlaceFitsOp /\ [Next]_vars => PlaceFitsOp'
<1> SUFFICES ASSUME TypeOK, PlaceFitsOp, [Next]_vars PROVE PlaceFitsOp'
  OBVIOUS
<1> USE DEF motorVars, rxVars, busVars, deviceVars, clientVars
<1>1. ASSUME NEW c \in Clients, Call(c) PROVE PlaceFitsOp'
  <2>1. \/ op'[c] = "send" /\ Goto(c, "check")
        \/ Goto(c, "lock")
    BY <1>1 DEF Call, TypeOK
  <2>2. \A d \in Clients : d # c => op'[d] = op[d]
    BY <1>1 DEF Call, TypeOK
  <2> QED
    BY <2>1, <2>2, PlaceMove
<1>2. ASSUME NEW c \in Clients, Disconnect(c) PROVE PlaceFitsOp'
  BY <1>2 DEF Disconnect, TypeOK, PlaceFitsOp
<1>3. ASSUME NEW c \in Clients, NEW r, Finish(c, r), UNCHANGED op PROVE PlaceFitsOp'
  BY <1>3, PlaceMove DEF Finish, Return
<1>4. ASSUME NEW c \in Clients, WaitSucceeds(c) PROVE PlaceFitsOp'
  <2>1. CASE Command(c) = "read"
    <3>1. op[c] = "read" /\ UNCHANGED op /\ Goto(c, "readback")
      BY <1>4, <2>1 DEF WaitSucceeds, Command
    <3> QED
      BY <3>1, PlaceMove
  <2> QED
    BY <1>3, <1>4, <2>1 DEF WaitSucceeds
<1>5. ASSUME NEW c \in Clients, WaitTimesOut(c) \/ Readback(c) PROVE PlaceFitsOp'
  BY <1>3, <1>5 DEF WaitTimesOut, Readback
<1>6. ASSUME NEW c \in Clients, Lock(c) \/ PrepareWait(c) \/ Transmit(c) PROVE PlaceFitsOp'
  <2>1. UNCHANGED op
    BY <1>6 DEF Lock, PrepareWait, Transmit
  <2>2. \/ \E r : Finish(c, r)
        \/ \E at : at \in {"prepare", "transmit", "wait"} /\ Goto(c, at)
    BY <1>6 DEF Lock, PrepareWait, Transmit
  <2> QED
    BY <1>3, <2>1, <2>2, PlaceMove
<1>7. ASSUME NEW c \in Clients, CheckOverrun(c) \/ Saturate(c) \/ Send(c) PROVE PlaceFitsOp'
  <2>1. UNCHANGED op /\ op[c] = "send"
    BY <1>7 DEF CheckOverrun, Saturate, Send, PlaceFitsOp
  <2>2. \E at : at # "readback" /\ Goto(c, at)
    BY <1>7 DEF CheckOverrun, Saturate, Send, Return
  <2> QED
    BY <2>1, <2>2, PlaceMove
<1>8. ASSUME RxStep \/ Environment \/ UNCHANGED vars PROVE PlaceFitsOp'
  BY <1>8 DEF RxStep, RxReceive, RxParse, RxFinish, RxExit, Environment, DeviceAnswers,
              DeviceSilent, RequestLost, Stray, LinkDown, vars, PlaceFitsOp
<1> QED
  BY <1>1, <1>2, <1>4, <1>5, <1>6, <1>7, <1>8 DEF Next, ClientStep, Rest

THEOREM PlacesFit == Spec => []PlaceFitsOp
<1>1. Init => PlaceFitsOp
  BY DEF Init, PlaceFitsOp
<1>2. TypeOK /\ PlaceFitsOp /\ [Next]_vars => PlaceFitsOp'
  BY PlaceStep
<1> QED
  BY <1>1, <1>2, TypeCorrect, PTL DEF Spec

\* Only Readback hands out a value, after comparing it with what was asked for.
LEMMA ReadStep ==
  TypeOK /\ PlaceFitsOp /\ ReadReturnsOwnParam /\ [Next]_vars => ReadReturnsOwnParam'
<1> SUFFICES ASSUME TypeOK, PlaceFitsOp, ReadReturnsOwnParam, [Next]_vars
             PROVE  ReadReturnsOwnParam'
  OBVIOUS
<1> USE DEF motorVars, rxVars, busVars, deviceVars, clientVars
<1>1. ASSUME NEW c \in Clients, Call(c) \/ Disconnect(c) PROVE ReadReturnsOwnParam'
  <2>1. value'[c] = NoValue
    BY <1>1 DEF Call, Disconnect, TypeOK
  <2>2. \A d \in Clients : d # c => value'[d] = value[d] /\ arg'[d] = arg[d]
    BY <1>1 DEF Call, Disconnect, TypeOK
  <2> QED
    BY <2>1, <2>2 DEF ReadReturnsOwnParam
<1>2. ASSUME NEW c \in Clients, Readback(c) PROVE ReadReturnsOwnParam'
  <2>1. CASE IsReplyTo(status.value, arg[c])
    <3>1. arg[c] \in Selectors
      BY <1>2 DEF Readback, PlaceFitsOp, TypeOK, ArgsOf
    <3>2. PICK p \in Params : arg[c] = <<p>>
      BY <3>1 DEF Selectors
    <3>3. status.value[1] = p
      BY <2>1, <3>2 DEF IsReplyTo
    <3>4. value' = [value EXCEPT ![c] = status.value] /\ arg' = arg
      BY <1>2, <2>1 DEF Readback
    <3> QED
      BY <3>2, <3>3, <3>4 DEF ReadReturnsOwnParam, TypeOK
  <2>2. CASE ~IsReplyTo(status.value, arg[c])
    BY <1>2, <2>2 DEF Readback, ReadReturnsOwnParam
  <2> QED
    BY <2>1, <2>2
<1>3. CASE UNCHANGED <<value, arg>>
  BY <1>3 DEF ReadReturnsOwnParam
<1>4. ASSUME NEW c \in Clients, ClientStep(c), ~Readback(c) PROVE UNCHANGED <<value, arg>>
  BY <1>4 DEF ClientStep, Lock, PrepareWait, Transmit, WaitSucceeds, WaitTimesOut,
              CheckOverrun, Saturate, Send
<1>5. ASSUME RxStep \/ Environment \/ UNCHANGED vars PROVE UNCHANGED <<value, arg>>
  BY <1>5 DEF RxStep, RxReceive, RxParse, RxFinish, RxExit, Environment, DeviceAnswers,
              DeviceSilent, RequestLost, Stray, LinkDown, vars
<1> QED
  BY <1>1, <1>2, <1>3, <1>4, <1>5 DEF Next, Rest

\* Whatever late replies complete the wait of a read, it never hands out the payload
\* of a parameter other than the one it was asked for.
THEOREM ReadsOwnParam == Spec => []ReadReturnsOwnParam
<1>1. Init => ReadReturnsOwnParam
  BY DEF Init, ReadReturnsOwnParam
<1>2. TypeOK /\ PlaceFitsOp /\ ReadReturnsOwnParam /\ [Next]_vars => ReadReturnsOwnParam'
  BY ReadStep
<1> QED
  BY <1>1, <1>2, TypeCorrect, PlacesFit, PTL DEF Spec

-----------------------------------------------------------------------------
(* The wait implements the abstract slot                                   *)

\* The threads that have armed the wait.
Arming == {c \in Clients : Armed(c)}

\* At most one thread has, and the slot belongs to it.
OwnerArmed == \/ Arming = {} /\ SlotOwner = NoClient
              \/ \E c \in Clients : Arming = {c} /\ SlotOwner = c

LEMMA ArmingOwns == ExpectationOwned => OwnerArmed
<1> SUFFICES ASSUME ExpectationOwned PROVE OwnerArmed
  OBVIOUS
<1> USE DEF OwnerArmed
<1>1. CASE Arming = {}
  BY <1>1 DEF Arming, SlotOwner
<1>2. CASE Arming # {}
  <2>1. PICK c \in Clients : Armed(c)
    BY <1>2 DEF Arming
  <2>2. \A d \in Clients : Armed(d) => cmdOwner = d
    BY DEF ExpectationOwned, Armed, Holding
  <2>3. SlotOwner = c
    BY <2>1, <2>2 DEF SlotOwner
  <2>4. Arming = {c}
    BY <2>1, <2>2 DEF Arming
  <2> QED
    BY <2>3, <2>4
<1> QED
  BY <1>1, <1>2

LEMMA ArmingOwnsNext == ExpectationOwned' => OwnerArmed'
BY ArmingOwns, PTL

USE DEF OwnerArmed

\* A step of one thread moves only that thread.
OnlyMoves(c) == \A d \in Clients : d # c => /\ pc'[d] = pc[d] /\ op'[d] = op[d]
                                           /\ result'[d] = result[d]

\* Such a step changes at most that thread's place in the two sets.
LEMMA MovesOneThread ==
  ASSUME NEW c \in Clients, OnlyMoves(c)
  PROVE  /\ Arming' = IF c \in Arming' THEN Arming \cup {c} ELSE Arming \ {c}
         /\ Acked' = IF c \in Acked' THEN Acked \cup {c} ELSE Acked \ {c}
<1>1. \A d \in Clients : d # c => (d \in Arming' <=> d \in Arming)
  BY DEF OnlyMoves, Arming, Armed, Command
<1>2. \A d \in Clients : d # c => (d \in Acked' <=> d \in Acked)
  BY DEF OnlyMoves, Acked
<1>3. Arming \in SUBSET Clients /\ Arming' \in SUBSET Clients
  BY DEF Arming
<1>4. Acked \in SUBSET Clients /\ Acked' \in SUBSET Clients
  BY DEF Acked
<1>5. Arming' = IF c \in Arming' THEN Arming \cup {c} ELSE Arming \ {c}
  BY <1>1, <1>3
<1>6. Acked' = IF c \in Acked' THEN Acked \cup {c} ELSE Acked \ {c}
  BY <1>2, <1>4
<1> QED
  BY <1>5, <1>6

\* A thread that never has the wait armed in a step leaves the slot alone.
LEMMA UnarmedMove ==
  ASSUME ExpectationOwned, ExpectationOwned', NEW c \in Clients, OnlyMoves(c),
         c \notin Arming, c \notin Arming',
         UNCHANGED <<expected, received>> \/ Arming = {},
         c \in Acked' => c \in Acked
  PROVE  [Slot!Next]_(Slot!slotVars)
<1>1. Arming' = Arming
  BY MovesOneThread
<1>2. SlotOwner' = SlotOwner /\ (Arming = {} => SlotOwner = NoClient)
  BY <1>1, ArmingOwns, ArmingOwnsNext
<1>3. \/ UNCHANGED <<expected, received>>
      \/ SlotOwner = NoClient
  BY <1>2
<1>4. Acked' = Acked \/ Acked' = Acked \ {c}
  BY MovesOneThread
<1>5. CASE Acked' = Acked
  BY <1>2, <1>3, <1>5 DEF Slot!slotVars
<1>6. CASE Acked' = Acked \ {c}
  BY <1>2, <1>3, <1>6 DEF Slot!Forget, Slot!Next
<1> QED
  BY <1>4, <1>5, <1>6

\* A thread whose wait is armed returns without success.
LEMMA ArmedFails ==
  ASSUME ExpectationOwned, ExpectationOwned', NEW c \in Clients, OnlyMoves(c),
         c \in Arming, c \notin Arming', c \notin Acked, c \notin Acked'
  PROVE  [Slot!Next]_(Slot!slotVars)
<1>1. SlotOwner = c
  BY ArmingOwns
<1>2. Arming' = {}
  BY MovesOneThread, ArmingOwns
<1>3. SlotOwner' = NoClient
  BY <1>2, ArmingOwnsNext
<1>4. Acked' = Acked
  BY MovesOneThread
<1> QED
  BY <1>1, <1>3, <1>4 DEF Slot!Abandon, Slot!Free, Slot!Next

\* A thread inside its command is the only one that may have armed the wait.
LEMMA HolderArms ==
  ASSUME ExpectationOwned, NEW c \in Clients, pc[c] \in Holding
  PROVE  Arming \in SUBSET {c}
BY DEF ExpectationOwned, Arming, Armed, Holding

\* Where a thread is decides whether it is armed or acknowledged.
LEMMA PlaceInSets ==
  ASSUME NEW c \in Clients
  PROVE  /\ c \in Arming <=> pc[c] \in {"transmit", "wait"} /\ Command(c) # "write"
         /\ c \in Acked <=> \/ pc[c] = "readback"
                            \/ pc[c] = "idle" /\ op[c] \in AwaitingOps /\ result[c] = "SUCCESS"
BY DEF Arming, Armed, Acked

LEMMA PlaceInSetsNext ==
  ASSUME NEW c \in Clients, UNCHANGED op
  PROVE  /\ c \in Arming' <=> pc'[c] \in {"transmit", "wait"} /\ Command(c) # "write"
         /\ c \in Acked' <=> \/ pc'[c] = "readback"
                             \/ pc'[c] = "idle" /\ op[c] \in AwaitingOps /\ result'[c] = "SUCCESS"
BY DEF Arming, Armed, Acked, Command

\* What a command that returns leaves: it is idle, and a send that stopped the motor
\* has not succeeded.
LEMMA FinishMoves ==
  ASSUME TypeOK, NEW c \in Clients, NEW r, Finish(c, r), UNCHANGED op
  PROVE  /\ OnlyMoves(c) /\ pc'[c] = "idle" /\ c \notin Arming'
         /\ r # "SUCCESS" => c \notin Acked'
<1>1. pc' = [pc EXCEPT ![c] = "idle"] /\ result'[c] \in {"ERR_OVERRUN", r}
  BY DEF Finish, Return, Goto, TypeOK
<1>2. OnlyMoves(c) /\ pc'[c] = "idle"
  BY <1>1 DEF OnlyMoves, Finish, Return, TypeOK
<1> QED
  BY <1>1, <1>2, PlaceInSetsNext

LEMMA GotoMoves ==
  ASSUME TypeOK, NEW c \in Clients, NEW at, Goto(c, at), UNCHANGED <<op, result>>
  PROVE  OnlyMoves(c) /\ pc'[c] = at
BY DEF OnlyMoves, Goto, TypeOK

LEMMA FailuresFail ==
  ASSUME NEW o, NEW r \in TransportErrors
  PROVE  /\ TransmitFailure(o, r) # "SUCCESS"
         /\ Refusal(o) # "SUCCESS"
         /\ Expiry(o) # "SUCCESS"
BY DEF TransmitFailure, Refusal, Expiry, TransportErrors

\* The steps of a command that arm, answer or give up the slot.
LEMMA PrepareArms ==
  ASSUME TypeOK, ExpectationOwned, ExpectationOwned', NEW c \in Clients, PrepareWait(c)
  PROVE  [Slot!Next]_(Slot!slotVars)
<1>1. /\ pc[c] = "prepare" /\ Goto(c, "transmit") /\ UNCHANGED <<op, result>>
      /\ expected' = ExpectedType(Command(c)) /\ received' = FALSE
  BY DEF PrepareWait
<1>2. OnlyMoves(c) /\ pc'[c] = "transmit"
  BY <1>1, GotoMoves
<1>3. c \notin Arming /\ c \notin Acked /\ c \notin Acked'
  BY <1>1, <1>2, PlaceInSets, PlaceInSetsNext
<1>4. Arming = {}
  BY <1>1, <1>3, HolderArms DEF Holding
<1>5. CASE Command(c) = "write"
  <2>1. c \notin Arming'
    BY <1>1, <1>5, PlaceInSetsNext
  <2> QED
    BY <1>2, <1>3, <1>4, <2>1, UnarmedMove
<1>6. CASE Command(c) # "write"
  <2>1. c \in Arming'
    BY <1>1, <1>2, <1>6, PlaceInSetsNext
  <2>2. SlotOwner = NoClient /\ SlotOwner' = c
    BY <1>4, <2>1, ArmingOwns, ArmingOwnsNext
  <2>3. Acked' = Acked
    BY <1>2, <1>3, MovesOneThread
  <2>4. c # NoClient /\ ExpectedType(Command(c)) \in FrameTypes
    BY ConstantsAssumption, CommandType, ResponseTypeType
  <2>5. Slot!Arm(c, ExpectedType(Command(c)))
    BY <1>1, <2>2, <2>3, <2>4 DEF Slot!Arm
  <2> QED
    BY <2>4, <2>5 DEF Slot!Next
<1> QED
  BY <1>5, <1>6

LEMMA TransmitKeepsOrAbandons ==
  ASSUME TypeOK, ExpectationOwned, ExpectationOwned', NEW c \in Clients, Transmit(c)
  PROVE  [Slot!Next]_(Slot!slotVars)
<1>1. pc[c] = "transmit" /\ UNCHANGED <<op, expected, received>> /\ c \notin Acked
  BY PlaceInSets DEF Transmit
<1>2. ASSUME NEW r \in TransportErrors, Finish(c, TransmitFailure(Command(c), r))
      PROVE  [Slot!Next]_(Slot!slotVars)
  <2>1. OnlyMoves(c) /\ c \notin Arming' /\ c \notin Acked'
    BY <1>1, <1>2, FinishMoves, FailuresFail
  <2> QED
    BY <1>1, <2>1, UnarmedMove, ArmedFails
<1>3. CASE Command(c) = "write" /\ Finish(c, "SUCCESS")
  <2>1. op[c] = "write" /\ OnlyMoves(c) /\ pc'[c] = "idle" /\ c \notin Arming'
    BY <1>1, <1>3, FinishMoves DEF Command
  <2>2. c \notin Arming /\ c \notin Acked'
    BY <1>1, <1>3, <2>1, PlaceInSets, PlaceInSetsNext DEF AwaitingOps
  <2> QED
    BY <1>1, <2>1, <2>2, UnarmedMove
<1>4. CASE Command(c) # "write" /\ Goto(c, "wait") /\ UNCHANGED <<result, cmdOwner>>
  <2>1. OnlyMoves(c) /\ pc'[c] = "wait"
    BY <1>1, <1>4, GotoMoves
  <2>2. c \in Arming /\ c \in Arming' /\ c \notin Acked'
    BY <1>1, <1>4, <2>1, PlaceInSets, PlaceInSetsNext
  <2>3. SlotOwner' = SlotOwner
    BY <2>2, ArmingOwns, ArmingOwnsNext, <2>1, MovesOneThread
  <2>4. Acked' = Acked
    BY <1>1, <2>1, <2>2, MovesOneThread
  <2> QED
    BY <1>1, <2>3, <2>4 DEF Slot!slotVars
<1> QED
  BY <1>2, <1>3, <1>4 DEF Transmit

LEMMA WaitEnds ==
  ASSUME TypeOK, ExpectationOwned, ExpectationOwned', NEW c \in Clients,
         WaitSucceeds(c) \/ WaitTimesOut(c)
  PROVE  [Slot!Next]_(Slot!slotVars)
<1>1. pc[c] = "wait" /\ UNCHANGED <<op, expected, received>> /\ c \notin Acked
  BY PlaceInSets DEF WaitSucceeds, WaitTimesOut
<1>2. ASSUME WaitTimesOut(c) PROVE [Slot!Next]_(Slot!slotVars)
  <2>1. Finish(c, Expiry(Command(c)))
    BY <1>2 DEF WaitTimesOut
  <2>2. OnlyMoves(c) /\ c \notin Arming' /\ c \notin Acked'
    BY <1>1, <2>1, FinishMoves DEF Expiry
  <2> QED
    BY <1>1, <2>2, UnarmedMove, ArmedFails
<1>3. ASSUME WaitSucceeds(c) PROVE [Slot!Next]_(Slot!slotVars)
  <2>1. /\ received
        /\ \/ Command(c) = "read" /\ Goto(c, "readback") /\ UNCHANGED result
           \/ Command(c) # "read" /\ Finish(c, "SUCCESS")
    BY <1>3 DEF WaitSucceeds
  <2>2. OnlyMoves(c) /\ pc'[c] \in {"readback", "idle"}
    BY <1>1, <2>1, FinishMoves, GotoMoves
  <2>3. c \notin Arming'
    BY <1>1, <2>2, PlaceInSetsNext
  <2>4. CASE c \in Arming
    <3>1. SlotOwner = c /\ c # NoClient
      BY <2>4, ArmingOwns, ConstantsAssumption
    <3>2. Arming = {c} /\ Arming' = Arming \ {c}
      BY <2>2, <2>3, <2>4, MovesOneThread, ArmingOwns
    <3>3. SlotOwner' = NoClient
      BY <3>2, ArmingOwnsNext
    <3>4. Acked' = Acked \/ Acked' = Acked \cup {c}
      BY <1>1, <2>2, MovesOneThread
    <3>5. Slot!Complete(c)
      BY <1>1, <2>1, <3>1, <3>3, <3>4 DEF Slot!Complete, Slot!Free
    <3> QED
      BY <3>5 DEF Slot!Next
  <2>5. CASE c \notin Arming
    <3>1. Command(c) = "write" /\ op[c] = "write"
      BY <1>1, <2>5, PlaceInSets DEF Command
    <3>2. pc'[c] = "idle" /\ c \notin Acked'
      BY <1>1, <2>1, <3>1, FinishMoves, PlaceInSetsNext DEF AwaitingOps
    <3> QED
      BY <1>1, <2>2, <2>3, <2>5, <3>2, UnarmedMove
  <2> QED
    BY <2>4, <2>5
<1> QED
  BY <1>2, <1>3

\* The steps of a thread that leave the slot to others.
LEMMA OthersLeaveSlot ==
  ASSUME TypeOK, PlaceFitsOp, ExpectationOwned, ExpectationOwned', NEW c \in Clients,
         \/ Call(c) \/ Disconnect(c) \/ Lock(c) \/ Readback(c)
         \/ CheckOverrun(c) \/ Saturate(c) \/ Send(c)
  PROVE  [Slot!Next]_(Slot!slotVars)
<1> USE DEF motorVars, rxVars, busVars, deviceVars, clientVars
<1>1. UNCHANGED <<expected, received>>
  BY DEF Call, Disconnect, Lock, Readback, CheckOverrun, Saturate, Send
<1>2. c \notin Arming
  BY PlaceInSets DEF Call, Disconnect, Lock, Readback, CheckOverrun, Saturate, Send
<1>3. OnlyMoves(c)
  BY DEF Call, Disconnect, Lock, Readback, CheckOverrun, Saturate, Send, Finish, Return,
         Goto, OnlyMoves, TypeOK
<1>4. ASSUME Call(c) \/ Disconnect(c)
      PROVE  c \notin Arming' /\ (c \in Acked' => c \in Acked)
  <2>1. CASE Call(c)
    <3>1. pc'[c] \in {"check", "lock"}
      BY <2>1 DEF Call, Goto, TypeOK
    <3> QED
      BY <3>1 DEF Arming, Armed, Acked
  <2>2. CASE Disconnect(c)
    <3>1. pc'[c] = "idle" /\ op'[c] = "disconnect"
      BY <2>2 DEF Disconnect, TypeOK
    <3> QED
      BY <3>1 DEF Arming, Armed, Acked, AwaitingOps
  <2> QED
    BY <1>4, <2>1, <2>2
<1>5. ASSUME Lock(c) PROVE c \notin Arming' /\ c \notin Acked'
  <2>1. CASE link
    <3>1. /\ Goto(c, IF Command(c) = "write" THEN "transmit" ELSE "prepare")
          /\ UNCHANGED <<op, result>>
      BY <1>5, <2>1 DEF Lock
    <3>2. pc'[c] = IF Command(c) = "write" THEN "transmit" ELSE "prepare"
      BY <3>1, GotoMoves
    <3> QED
      BY <3>1, <3>2, PlaceInSetsNext
  <2>2. CASE ~link
    <3>1. Finish(c, Refusal(Command(c))) /\ UNCHANGED op
      BY <1>5, <2>2 DEF Lock
    <3> QED
      BY <3>1, FinishMoves DEF Refusal
  <2> QED
    BY <2>1, <2>2
<1>6. ASSUME Readback(c) PROVE c \notin Arming' /\ c \in Acked
  <2>1. UNCHANGED op /\ pc[c] = "readback" /\ \E r : Finish(c, r)
    BY <1>6 DEF Readback
  <2> QED
    BY <2>1, FinishMoves, PlaceInSets
<1>7. ASSUME CheckOverrun(c) \/ Saturate(c) \/ Send(c)
      PROVE  c \notin Arming' /\ c \notin Acked'
  <2>1. UNCHANGED op /\ op[c] = "send"
    BY <1>7 DEF CheckOverrun, Saturate, Send, PlaceFitsOp
  <2>2. pc'[c] \in {"idle", "saturate", "send", "lock"}
    BY <1>7 DEF CheckOverrun, Saturate, Send, Return, Goto, TypeOK
  <2> QED
    BY <2>1, <2>2, PlaceInSetsNext DEF AwaitingOps
<1> QED
  BY <1>1, <1>2, <1>3, <1>4, <1>5, <1>6, <1>7, UnarmedMove

\* A frame of the armed type answers the slot; nothing else outside the threads does.
LEMMA FramesAnswer ==
  ASSUME TypeOK, RxStep \/ Environment \/ UNCHANGED vars
  PROVE  [Slot!Next]_(Slot!slotVars)
<1> USE DEF motorVars, rxVars, busVars, deviceVars, clientVars
<1>1. UNCHANGED <<pc, op, result, cmdOwner, expected>>
  BY DEF RxStep, RxReceive, RxParse, RxFinish, RxExit, Environment, DeviceAnswers,
         DeviceSilent, RequestLost, Stray, LinkDown, vars
<1>2. SlotOwner' = SlotOwner /\ Acked' = Acked
  BY <1>1 DEF SlotOwner, Acked, Armed, Command
<1>3. received' = received \/ received' = TRUE
  BY DEF RxStep, RxReceive, RxParse, RxFinish, RxExit, Environment, DeviceAnswers,
         DeviceSilent, RequestLost, Stray, LinkDown, vars, TypeOK
<1>4. CASE received' = received
  BY <1>1, <1>2, <1>4 DEF Slot!slotVars
<1>5. CASE SlotOwner = NoClient
  BY <1>1, <1>2, <1>5 DEF Slot!slotVars
<1>6. CASE SlotOwner # NoClient /\ received' = TRUE
  BY <1>1, <1>2, <1>6 DEF Slot!Answer, Slot!Next
<1> QED
  BY <1>3, <1>4, <1>5, <1>6, Zenon

LEMMA SlotStep ==
  /\ TypeOK /\ PlaceFitsOp /\ ExpectationOwned /\ ExpectationOwned'
  /\ [Next]_vars
  => [Slot!Next]_(Slot!slotVars)
BY PrepareArms, TransmitKeepsOrAbandons, WaitEnds, OthersLeaveSlot, FramesAnswer
   DEF Next, ClientStep, Rest

LEMMA SlotInit == Init => Slot!Init
<1> SUFFICES ASSUME Init PROVE Slot!Init
  OBVIOUS
<1>1. \A c \in Clients : pc[c] = "idle" /\ result[c] = "none"
  BY DEF Init
<1>2. SlotOwner = NoClient /\ Acked = {}
  BY <1>1 DEF SlotOwner, Armed, Acked
<1> QED
  BY <1>2 DEF Slot!Init

\* prepare_wait, process_frame and wait_for_response implement the slot for every number
\* of threads: a command succeeds only on a frame of its type processed after it armed.
THEOREM SlotImplemented == Spec => ImplementsSlot
<1>1. Init => Slot!Init
  BY SlotInit
<1>2. /\ TypeOK /\ PlaceFitsOp /\ ExpectationOwned /\ ExpectationOwned' /\ [Next]_vars
      => [Slot!Next]_(Slot!slotVars)
  BY SlotStep
<1> QED
  BY <1>1, <1>2, TypeCorrect, PlacesFit, ExpectationIsOwned, PTL
     DEF Spec, ImplementsSlot, Slot!Spec

=============================================================================
