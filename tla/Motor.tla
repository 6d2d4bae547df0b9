-------------------------------- MODULE Motor --------------------------------
(***************************************************************************)
(* One Motor object (src/motor/robstride_motor.cpp): application threads   *)
(* that call its commands, the receive thread that feeds it frames, the    *)
(* transport between it and the physical motor, and that motor.            *)
(*                                                                         *)
(* A client's critical section under motor_mutex_ touches nothing outside  *)
(* it, so it is one step, taken when the receive thread does not hold the  *)
(* mutex.  The receive thread's own section is two steps, because the      *)
(* overrun counter it changes twice is also changed without the mutex.     *)
(***************************************************************************)
EXTENDS Protocol, Integers, Sequences, FiniteSets

CONSTANTS
  Clients,      \* application threads that share the Motor
  NoClient,     \* the owner of a free command_mutex_
  Params,       \* parameter identifiers the application uses
  RunMode,      \* the parameter a MIT ping reads
  Raws,         \* payloads written to a parameter
  NoValue,      \* no payload, or one of a parameter outside Params
  Ops,          \* the operations the clients call
  OverrunLimit, \* overrun_limit_
  Faults,       \* what may go wrong outside the SDK
  MaxCalls,     \* bound: calls the application makes
  MaxStray      \* bound: frames the motor sends of its own accord

AwaitingOps == {"enable", "stop", "clear_error", "ping", "set_zero", "read"}
AllOps      == AwaitingOps \cup {"write", "send", "disconnect"}
AllFaults   == {"silent", "lost", "write_error", "link_down"}

ASSUME ConstantsAssumption ==
  /\ NoClient \notin Clients
  /\ RunMode \in Params
  /\ NoValue \notin Params \X Raws
  /\ Ops \subseteq AllOps /\ Faults \subseteq AllFaults
  /\ OverrunLimit \in Nat /\ MaxCalls \in Nat /\ MaxStray \in Nat

ASSUME ClientsFinite == IsFiniteSet(Clients)

Values    == Params \X Raws          \* a payload and the parameter it belongs to
Selectors == {<<p>> : p \in Params}  \* what a read asks for

TransportErrors == {"ERR_WRITE_FAILED", "ERR_DISCONNECTED"}
Results == {"none", "SUCCESS", "ERR_TIMEOUT", "ERR_TRANSPORT", "ERR_NOT_CONNECTED",
            "ERR_OVERRUN", "nullopt"} \cup TransportErrors

\* What the caller of each operation chooses.
Args == Values \cup Selectors \cup {NoValue}

ArgsOf(o) == CASE o = "write" -> Values
               [] o = "read"  -> Selectors
               [] OTHER       -> {NoValue}

VARIABLES
  pc, op, arg, result, value, calls,                \* the application threads
  cmdOwner, expected, received, unacked, status,    \* the Motor object
  rxPc, rxFrame, rxPrev,                            \* the receive thread
  link, toMotor, fromMotor,                         \* the transport
  motorState, ram, stray,                           \* the physical motor
  streak    \* history: control frames sent since a reply was last counted

clientVars == <<pc, op, arg, result, value, calls>>
motorVars  == <<cmdOwner, expected, received, unacked, status>>
rxVars     == <<rxPc, rxFrame, rxPrev>>
busVars    == <<link, toMotor, fromMotor>>
deviceVars == <<motorState, ram, stray>>
vars == <<clientVars, motorVars, rxVars, busVars, deviceVars, streak>>

Frames   == [kind : Kinds, state : MotorStates, value : Values \cup {NoValue}]
Requests == {r \in [cmd : AllOps, arg : Args] : r.arg \in ArgsOf(r.cmd)}
Statuses == [state : MotorStates, connected : BOOLEAN,
             value : Values \cup {NoValue}, unknown : Nat]

NoFrame == [kind |-> "other", state |-> "RESET", value |-> NoValue]

TypeOK ==
  /\ pc \in [Clients -> {"idle", "lock", "prepare", "transmit", "wait", "readback",
                         "check", "saturate", "send"}]
  /\ op \in [Clients -> AllOps]
  /\ arg \in [Clients -> Args] /\ \A c \in Clients : arg[c] \in ArgsOf(op[c])
  /\ result \in [Clients -> Results]
  /\ value \in [Clients -> Values \cup {NoValue}]
  /\ calls \in Nat
  /\ cmdOwner \in Clients \cup {NoClient}
  /\ expected \in FrameTypes /\ received \in BOOLEAN
  /\ unacked \in Int
  /\ status \in Statuses
  /\ rxPc \in {"receive", "parse", "finish", "exited"}
  /\ rxFrame \in Frames /\ rxPrev \in Int
  /\ link \in BOOLEAN
  /\ toMotor \in Seq(Requests) /\ fromMotor \in Seq(Frames)
  /\ motorState \in MotorStates
  /\ ram \in [Params -> Values]
  /\ stray \in Nat /\ streak \in Nat

\* The members' initial values, on a transport that connect() has opened.
Init ==
  /\ pc = [c \in Clients |-> "idle"]
  /\ op = [c \in Clients |-> "disconnect"]
  /\ arg = [c \in Clients |-> NoValue]
  /\ result = [c \in Clients |-> "none"]
  /\ value = [c \in Clients |-> NoValue]
  /\ calls = 0
  /\ cmdOwner = NoClient
  /\ expected = "INFO" /\ received = FALSE
  /\ unacked = 0
  /\ status = [state |-> "RESET", connected |-> FALSE, value |-> NoValue, unknown |-> 0]
  /\ rxPc = "receive" /\ rxFrame = NoFrame /\ rxPrev = 0
  /\ link = TRUE /\ toMotor = <<>> /\ fromMotor = <<>>
  /\ motorState \in MotorStates
  /\ ram \in {r \in [Params -> Values] : \A p \in Params : r[p][1] = p}
  /\ stray = 0 /\ streak = 0

-----------------------------------------------------------------------------
(* The application threads                                                 *)

MotorMutexFree == rxPc # "finish"

\* The command under command_mutex_: check_overrun calls stop() from a send.
Command(c) == IF op[c] = "send" THEN "stop" ELSE op[c]

\* What each command hands to prepare_wait.
ExpectedType(command) ==
  CASE command = "ping" -> PingResponseType
    [] command = "read" -> "READ_PARAM"
    [] OTHER            -> "FEEDBACK"

\* What each command makes of a transmit() that fails with error r.
TransmitFailure(command, r) ==
  CASE command \in {"enable", "ping", "set_zero"} -> "ERR_TRANSPORT"
    [] command = "read"                           -> "nullopt"
    [] OTHER                                      -> r

Refusal(command) == IF command = "read" THEN "nullopt" ELSE "ERR_NOT_CONNECTED"

Expiry(command) == IF command = "read" THEN "nullopt" ELSE "ERR_TIMEOUT"

Goto(c, at) == pc' = [pc EXCEPT ![c] = at]

Return(c, r) == /\ Goto(c, "idle")
                /\ result' = [result EXCEPT ![c] = r]

\* A command returns and releases command_mutex_; send_* drops stop()'s result.
Finish(c, r) == /\ Return(c, IF op[c] = "send" THEN "ERR_OVERRUN" ELSE r)
                /\ cmdOwner' = NoClient

\* ITransport::transmit fails: the link is already down, the write is refused,
\* or the write finds that the link is gone.
TransportFails(r) ==
  /\ UNCHANGED <<toMotor, fromMotor>>
  /\ \/ ~link /\ r = "ERR_DISCONNECTED" /\ UNCHANGED link
     \/ link /\ "write_error" \in Faults /\ r = "ERR_WRITE_FAILED" /\ UNCHANGED link
     \/ link /\ "link_down" \in Faults /\ r = "ERR_DISCONNECTED" /\ link' = FALSE

TransportSends(request) == /\ link
                           /\ toMotor' = Append(toMotor, request)
                           /\ UNCHANGED <<link, fromMotor>>

Call(c) ==
  /\ pc[c] = "idle" /\ calls < MaxCalls
  /\ \E o \in Ops \ {"disconnect"} : \E a \in ArgsOf(o) :
       /\ op' = [op EXCEPT ![c] = o]
       /\ arg' = [arg EXCEPT ![c] = a]
       /\ Goto(c, IF o = "send" THEN "check" ELSE "lock")
  /\ calls' = calls + 1
  /\ result' = [result EXCEPT ![c] = "none"]
  /\ value' = [value EXCEPT ![c] = NoValue]
  /\ UNCHANGED <<motorVars, rxVars, busVars, deviceVars, streak>>

\* Motor::disconnect writes one flag of status_, without any mutex.
Disconnect(c) ==
  /\ pc[c] = "idle" /\ calls < MaxCalls /\ "disconnect" \in Ops
  /\ op' = [op EXCEPT ![c] = "disconnect"]
  /\ arg' = [arg EXCEPT ![c] = NoValue]
  /\ calls' = calls + 1
  /\ result' = [result EXCEPT ![c] = "SUCCESS"]
  /\ value' = [value EXCEPT ![c] = NoValue]
  /\ status' = [status EXCEPT !.connected = FALSE]
  /\ UNCHANGED <<pc, cmdOwner, expected, received, unacked,
                 rxVars, busVars, deviceVars, streak>>

\* Mutant: the lock_guard on command_mutex_ is missing.
LockUnguarded(c) ==
  /\ pc[c] = "lock"
  /\ IF link
       THEN /\ cmdOwner' = c
            /\ Goto(c, IF Command(c) = "write" THEN "transmit" ELSE "prepare")
            /\ UNCHANGED result
       ELSE Finish(c, Refusal(Command(c)))
  /\ UNCHANGED <<op, arg, value, calls, expected, received, unacked, status,
                 rxVars, busVars, deviceVars, streak>>

Lock(c) ==
  /\ pc[c] = "lock" /\ cmdOwner = NoClient
  /\ IF link
       THEN /\ cmdOwner' = c
            /\ Goto(c, IF Command(c) = "write" THEN "transmit" ELSE "prepare")
            /\ UNCHANGED result
       ELSE Finish(c, Refusal(Command(c)))
  /\ UNCHANGED <<op, arg, value, calls, expected, received, unacked, status,
                 rxVars, busVars, deviceVars, streak>>

\* Mutant: response_received_ keeps the value the previous command left.
PrepareWithoutReset(c) ==
  /\ pc[c] = "prepare" /\ MotorMutexFree
  /\ expected' = ExpectedType(Command(c))
  /\ Goto(c, "transmit")
  /\ UNCHANGED <<op, arg, result, value, calls, cmdOwner, received, unacked, status,
                 rxVars, busVars, deviceVars, streak>>

PrepareWait(c) ==
  /\ pc[c] = "prepare" /\ MotorMutexFree
  /\ expected' = ExpectedType(Command(c))
  /\ received' = FALSE
  /\ Goto(c, "transmit")
  /\ UNCHANGED <<op, arg, result, value, calls, cmdOwner, unacked, status,
                 rxVars, busVars, deviceVars, streak>>

\* write_parameter_raw returns what transmit() returns; the others then wait.
Transmit(c) ==
  /\ pc[c] = "transmit"
  /\ \/ /\ TransportSends([cmd |-> Command(c), arg |-> arg[c]])
        /\ IF Command(c) = "write"
             THEN Finish(c, "SUCCESS")
             ELSE Goto(c, "wait") /\ UNCHANGED <<result, cmdOwner>>
     \/ \E r \in TransportErrors :
          TransportFails(r) /\ Finish(c, TransmitFailure(Command(c), r))
  /\ UNCHANGED <<op, arg, value, calls, expected, received, unacked, status,
                 rxVars, deviceVars, streak>>

WaitSucceeds(c) ==
  /\ pc[c] = "wait" /\ MotorMutexFree /\ received
  /\ IF Command(c) = "read"
       THEN Goto(c, "readback") /\ UNCHANGED <<result, cmdOwner>>
       ELSE Finish(c, "SUCCESS")
  /\ UNCHANGED <<op, arg, value, calls, expected, received, unacked, status,
                 rxVars, busVars, deviceVars, streak>>

\* Mutant: wait instead of wait_for, which only ever wakes up spuriously.
WaitWithoutTimeout(c) == pc[c] = "wait" /\ ~received /\ UNCHANGED vars

WaitTimesOut(c) ==
  /\ pc[c] = "wait" /\ MotorMutexFree /\ ~received
  /\ Finish(c, Expiry(Command(c)))
  /\ UNCHANGED <<op, arg, value, calls, expected, received, unacked, status,
                 rxVars, busVars, deviceVars, streak>>

\* Mutant: any payload will do.
IsAnyReply(cached, a) == cached # NoValue

\* read_parameter_raw takes motor_mutex_ again and looks at the cached reply.
IsReplyTo(cached, a) == cached # NoValue /\ cached[1] = a[1]

Readback(c) ==
  /\ pc[c] = "readback" /\ MotorMutexFree
  /\ IF IsReplyTo(status.value, arg[c])
       THEN Finish(c, "SUCCESS") /\ value' = [value EXCEPT ![c] = status.value]
       ELSE Finish(c, "nullopt") /\ UNCHANGED value
  /\ UNCHANGED <<op, arg, calls, expected, received, unacked, status,
                 rxVars, busVars, deviceVars, streak>>

\* Mutant: the limit is never compared.
CheckWithoutLimit(c) ==
  /\ pc[c] = "check"
  /\ IF link
       THEN unacked' = unacked + 1 /\ Goto(c, "send") /\ UNCHANGED result
       ELSE Return(c, "ERR_NOT_CONNECTED") /\ UNCHANGED unacked
  /\ UNCHANGED <<op, arg, value, calls, cmdOwner, expected, received, status,
                 rxVars, busVars, deviceVars, streak>>

\* send_*_control: the connection check, then check_overrun's ++counter.
CheckOverrun(c) ==
  /\ pc[c] = "check"
  /\ IF link
       THEN /\ unacked' = unacked + 1
            /\ Goto(c, IF unacked + 1 > OverrunLimit THEN "saturate" ELSE "send")
            /\ UNCHANGED result
       ELSE Return(c, "ERR_NOT_CONNECTED") /\ UNCHANGED unacked
  /\ UNCHANGED <<op, arg, value, calls, cmdOwner, expected, received, status,
                 rxVars, busVars, deviceVars, streak>>

\* Mutant: the overrun is reported but the safety stop() is missing.
SaturateWithoutStop(c) ==
  /\ pc[c] = "saturate"
  /\ unacked' = OverrunLimit
  /\ Return(c, "ERR_OVERRUN")
  /\ UNCHANGED <<op, arg, value, calls, cmdOwner, expected, received, status,
                 rxVars, busVars, deviceVars, streak>>

Saturate(c) ==
  /\ pc[c] = "saturate"
  /\ unacked' = OverrunLimit
  /\ Goto(c, "lock")
  /\ UNCHANGED <<op, arg, result, value, calls, cmdOwner, expected, received, status,
                 rxVars, busVars, deviceVars, streak>>

\* The control frame goes out without command_mutex_.
Send(c) ==
  /\ pc[c] = "send"
  /\ \/ /\ TransportSends([cmd |-> "send", arg |-> NoValue])
        /\ Return(c, "SUCCESS")
        /\ streak' = streak + 1
     \/ /\ \E r \in TransportErrors : TransportFails(r) /\ Return(c, r)
        /\ UNCHANGED streak
  /\ UNCHANGED <<op, arg, value, calls, motorVars, rxVars, deviceVars>>

ClientStep(c) ==
  \/ Lock(c) \/ PrepareWait(c) \/ Transmit(c)
  \/ WaitSucceeds(c) \/ WaitTimesOut(c) \/ Readback(c)
  \/ CheckOverrun(c) \/ Saturate(c) \/ Send(c)

-----------------------------------------------------------------------------
(* The receive thread: receive(), or receive_all() on this motor alone     *)

\* One frame off the transport; is_feedback_frame needs no lock.
RxReceive ==
  /\ rxPc = "receive" /\ link /\ fromMotor # <<>>
  /\ fromMotor' = Tail(fromMotor)
  /\ IF IsFeedbackFrame(Head(fromMotor))
       THEN rxPc' = "parse" /\ rxFrame' = Head(fromMotor)
       ELSE UNCHANGED <<rxPc, rxFrame>>
  /\ UNCHANGED <<clientVars, motorVars, rxPrev, link, toMotor, deviceVars, streak>>

\* A parsed frame also marks the motor as connected.
Refresh(s, frame) == [ParseFeedback(s, frame) EXCEPT !.connected = TRUE]

\* process_frame takes motor_mutex_, parses, and counts the reply.
RxParse ==
  /\ rxPc = "parse"
  /\ IF Parses(rxFrame)
       THEN /\ status' = Refresh(status, rxFrame)
            /\ rxPrev' = unacked
            /\ unacked' = unacked - 1
            /\ rxPc' = "finish"
            /\ streak' = 0
            /\ UNCHANGED rxFrame
       ELSE /\ status' = [status EXCEPT !.unknown = @ + 1]
            /\ rxPc' = "receive"
            /\ rxFrame' = NoFrame
            /\ UNCHANGED <<rxPrev, unacked, streak>>
  /\ UNCHANGED <<clientVars, cmdOwner, expected, received, busVars, deviceVars>>

\* Mutant: the counter is not clamped at zero.
FinishWithoutClamp ==
  /\ rxPc = "finish"
  /\ received' = (received \/ ResponseType(rxFrame) = expected)
  /\ rxPc' = "receive"
  /\ rxFrame' = NoFrame /\ rxPrev' = 0
  /\ UNCHANGED <<clientVars, cmdOwner, expected, unacked, status, busVars, deviceVars,
                 streak>>

\* The rest of the section: clamp the counter, match the type, release.
RxFinish ==
  /\ rxPc = "finish"
  /\ unacked' = IF rxPrev <= 0 THEN 0 ELSE unacked
  /\ received' = (received \/ ResponseType(rxFrame) = expected)
  /\ rxPc' = "receive"
  /\ rxFrame' = NoFrame /\ rxPrev' = 0
  /\ UNCHANGED <<clientVars, cmdOwner, expected, status, busVars, deviceVars, streak>>

\* Mutant: the loop ends only once the transport has no frame left.
ExitWhenDrained ==
  /\ rxPc = "receive" /\ ~link /\ fromMotor = <<>>
  /\ rxPc' = "exited"
  /\ UNCHANGED <<clientVars, motorVars, rxFrame, rxPrev, busVars, deviceVars, streak>>

RxExit ==
  /\ rxPc = "receive" /\ ~link
  /\ rxPc' = "exited"
  /\ UNCHANGED <<clientVars, motorVars, rxFrame, rxPrev, busVars, deviceVars, streak>>

RxStep == RxReceive \/ RxParse \/ RxFinish \/ RxExit

-----------------------------------------------------------------------------
(* The physical motor and the wire (external)                              *)

StateAfter(request) == CASE request.cmd = "enable" -> "RUN"
                         [] request.cmd = "stop"   -> "RESET"
                         [] OTHER                  -> motorState

RamAfter(request) ==
  IF request.cmd = "write" THEN [ram EXCEPT ![request.arg[1]] = request.arg] ELSE ram

\* A MIT motor answers a write in the layout of a read, a PRIVATE one reports;
\* a send is a control frame or a write to a reference outside Params.
AnswerKinds(request) ==
  CASE request.cmd = "read" -> {"param"}
    [] request.cmd = "ping" -> {IF Protocol = "MIT" THEN "param" ELSE "mcu_id"}
    [] request.cmd = "write" -> {IF Protocol = "MIT" THEN "param" ELSE "feedback"}
    [] request.cmd = "send" /\ Protocol = "MIT" -> {"feedback", "param"}
    [] OTHER -> {"feedback"}

AnswerValue(request, kind) ==
  CASE request.cmd \in {"read", "write"} /\ kind = "param" ->
         RamAfter(request)[request.arg[1]]
    [] request.cmd = "ping" /\ kind = "param" -> ram[RunMode]
    [] OTHER -> NoValue

Answer(request, kind) == [kind  |-> kind,
                          state |-> StateAfter(request),
                          value |-> AnswerValue(request, kind)]

DeviceAnswers ==
  /\ toMotor # <<>>
  /\ LET request == Head(toMotor) IN
       /\ motorState' = StateAfter(request)
       /\ ram' = RamAfter(request)
       /\ \E kind \in AnswerKinds(request) :
            fromMotor' = Append(fromMotor, Answer(request, kind))
  /\ toMotor' = Tail(toMotor)
  /\ UNCHANGED <<clientVars, motorVars, rxVars, link, stray, streak>>

\* The motor obeys but its reply never arrives.
DeviceSilent ==
  /\ "silent" \in Faults /\ toMotor # <<>>
  /\ motorState' = StateAfter(Head(toMotor))
  /\ ram' = RamAfter(Head(toMotor))
  /\ toMotor' = Tail(toMotor)
  /\ UNCHANGED <<clientVars, motorVars, rxVars, link, fromMotor, stray, streak>>

RequestLost ==
  /\ "lost" \in Faults /\ toMotor # <<>>
  /\ toMotor' = Tail(toMotor)
  /\ UNCHANGED <<clientVars, motorVars, rxVars, link, fromMotor, deviceVars, streak>>

\* Periodic reports, fault frames, and types or modes the SDK does not know.
Stray ==
  /\ stray < MaxStray
  /\ stray' = stray + 1
  /\ \E kind \in Kinds \ {"param"} :
       fromMotor' = Append(fromMotor,
                           [kind |-> kind, state |-> motorState, value |-> NoValue])
  /\ UNCHANGED <<clientVars, motorVars, rxVars, link, toMotor, motorState, ram, streak>>

LinkDown ==
  /\ "link_down" \in Faults /\ link
  /\ link' = FALSE
  /\ UNCHANGED <<clientVars, motorVars, rxVars, toMotor, fromMotor, deviceVars, streak>>

Environment == DeviceAnswers \/ DeviceSilent \/ RequestLost \/ Stray \/ LinkDown

-----------------------------------------------------------------------------
\* The application is done: its calls are made and have returned.
Rest == /\ calls = MaxCalls /\ \A c \in Clients : pc[c] = "idle"
        /\ UNCHANGED vars

Next == \/ \E c \in Clients : Call(c) \/ Disconnect(c) \/ ClientStep(c)
        \/ RxStep
        \/ Environment
        \/ Rest

Spec == Init /\ [][Next]_vars

\* The operating system schedules every thread, and waits time out.
FairSpec == /\ Spec
            /\ \A c \in Clients : WF_vars(ClientStep(c))
            /\ WF_vars(RxStep)
-----------------------------------------------------------------------------
(* What the Motor promises                                                 *)

Holding == {"prepare", "transmit", "wait", "readback"}

\* A command between its lock_guard and its return holds command_mutex_, and a
\* command that has armed the wait still finds its own type armed: no other
\* command, nested stop() or control call replaces expected_response_type_
\* under a waiter.
ExpectationOwned ==
  \A c \in Clients :
    /\ pc[c] \in Holding => cmdOwner = c
    /\ pc[c] \in {"transmit", "wait"} /\ Command(c) # "write"
         => expected = ExpectedType(Command(c))

Saturating == {c \in Clients : pc[c] = "saturate"}

\* The atomic overrun counter, changed by any number of senders and by the
\* receive thread in two unsynchronised steps, never passes the limit by more
\* than the senders that are about to reset it, and is negative only between
\* the receive thread's fetch_sub and its clamp.
CounterBounds ==
  /\ unacked <= OverrunLimit + Cardinality(Saturating)
  /\ unacked >= -1
  /\ unacked = -1 => rxPc = "finish" /\ rxPrev = 0

\* The overrun guard still limits a burst although the clamp can wipe out
\* increments made since the fetch_sub: between two replies no more control
\* frames leave than the limit twice, one per sender that had passed the check
\* at the first reply, and one for the reply itself.
StreakBounded == streak <= 2 * OverrunLimit + Cardinality(Clients) + 1

\* Why it does: control frames sent or about to be sent since the last reply are
\* covered by the counter, apart from the senders that had passed the check at
\* that reply and from what the clamp took away, or is about to take away.
Passed == {c \in Clients : pc[c] = "send"}

Counted == IF unacked <= OverrunLimit THEN unacked ELSE OverrunLimit

StreakCovered ==
  streak + Cardinality(Passed) <=
    Cardinality(Clients) + Counted + 1
      + (IF rxPc = "finish" /\ rxPrev <= 0 THEN 0 ELSE OverrunLimit)

\* A read never hands out the payload of another parameter, whatever late
\* reply of an abandoned read completed its wait.
ReadReturnsOwnParam ==
  \A c \in Clients : value[c] # NoValue => <<value[c][1]>> = arg[c]

\* Every operation a thread starts comes back: the nested stop() of a send
\* cannot deadlock on command_mutex_, and every wait ends.
EveryCallReturns == \A c \in Clients : pc[c] # "idle" ~> pc[c] = "idle"

\* The receive loop ends once the transport is down, as receive() documents.
RxExitsWhenDown == ~link ~> rxPc = "exited"

\* Reaching the limit puts a stop command on the wire, unless the link is lost,
\* even when other commands own command_mutex_ at that moment.
OverrunStopsMotor ==
  \A c \in Clients :
    pc[c] = "saturate" ~> ~link \/ \E i \in DOMAIN toMotor : toMotor[i].cmd = "stop"

-----------------------------------------------------------------------------
(* The wait is the abstract response slot                                  *)

Armed(c) == pc[c] \in {"transmit", "wait"} /\ Command(c) # "write"

SlotOwner == IF \E c \in Clients : Armed(c) THEN cmdOwner ELSE NoClient

Acked == {c \in Clients : \/ pc[c] = "readback"
                          \/ /\ pc[c] = "idle" /\ op[c] \in AwaitingOps
                             /\ result[c] = "SUCCESS"}

Slot == INSTANCE ResponseSlot
          WITH owner <- SlotOwner,
               type <- IF SlotOwner = NoClient THEN "none" ELSE expected,
               answered <- SlotOwner # NoClient /\ received,
               acked <- Acked

\* prepare_wait, process_frame and wait_for_response implement the slot: a
\* command succeeds only on a frame of its type processed after it armed.
ImplementsSlot == Slot!Spec

-----------------------------------------------------------------------------
(* What the documentation says and the code does not do                    *)

\* documentation/api_reference.md:17: overrun_limit is the "Number of
\* unacknowledged TX frames allowed".  A thread may pass check_overrun before a
\* reply is counted and send after it, so one frame of each thread is not held
\* against the limit: beyond these, only the clamp's store, which takes increments
\* away that sends made since the fetch_sub, lets a frame through.
UnackedWithinLimit == streak <= OverrunLimit + Cardinality(Clients)

\* tests/test_motor.cpp:134-135: after stop() returns SUCCESS the cached state
\* is RESET.  (One client, so that no other command follows.)
StopMeansReset ==
  \A c \in Clients : pc[c] = "idle" /\ op[c] = "stop" /\ result[c] = "SUCCESS"
                     => status.state = "RESET"
=============================================================================
