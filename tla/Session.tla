------------------------------- MODULE Session -------------------------------
(***************************************************************************)
(* A whole program: main() of an example or of the benchmark, its receive  *)
(* thread, the transport they share, and the motors on the bus.            *)
(*                                                                         *)
(* Motor refines what this module takes as one step: a command's lock,     *)
(* connection check, prepare_wait and transmit, and one process_frame.     *)
(* Only the main thread issues commands here, so the mutexes are free.     *)
(***************************************************************************)
EXTENDS Examples, Transports, FiniteSets

CONSTANTS
  Programs,      \* the programs explored
  Iterations,    \* ASYNC_ITERS and SYNC_ITERS of the benchmark
  OverrunLimit,  \* overrun_limit_ of every motor
  MaxLost,       \* bound: frames lost on the bus and not sent again
  MaxLate        \* bound: frames under way when a wait expires before its reply

ASSUME SessionAssumption ==
  /\ Programs \subseteq AllPrograms
  /\ Faults \subseteq {"refused", "down", "late"}
  /\ Iterations \in Nat \ {0} /\ OverrunLimit \in Nat
  /\ MaxLost \in Nat /\ MaxLate \in Nat

VARIABLES
  program,                       \* the program that runs
  at, motor, step, waiting,      \* where main() is: phase, motor, setup step
  code,                          \* main()'s return value
  keepRunning,                   \* cleared by the SIGINT handler
  expected, received,            \* the commanded motor's wait
  unacked,                       \* unacknowledged_commands_ of every motor
  rx,                            \* the receive thread
  toMotors, fromMotors,          \* the bus and the socket's receive queue
  motorState, ram,               \* the physical motors
  lost, refused,                 \* history: frames lost since the same was sent, and
                                 \* motors whose stop() was the last to be refused
  unanswered                     \* history: control calls not answered so far

mainVars   == <<at, motor, step, waiting, code>>
waitVars   == <<expected, received>>
busVars    == <<toMotors, fromMotors>>
deviceVars == <<motorState, ram>>
history    == <<lost, refused, unanswered>>
vars == <<program, mainVars, keepRunning, waitVars, unacked, rx, transportVars, busVars,
          deviceVars, history>>

Motors == {5, 6}

AwaitedTypes == {"INFO", "FEEDBACK", "READ_PARAM"}

Phases == {"start", "setup", "loop", "send", "overrun", "stop", "ping", "unlink", "close",
           "join", "exited"}

TypeOK ==
  /\ TransportTypeOK
  /\ program \in Programs
  /\ at \in Phases /\ motor \in DOMAIN program.motors /\ step \in Nat
  /\ waiting \in BOOLEAN /\ code \in {0, 1} /\ keepRunning \in BOOLEAN
  /\ expected \in AwaitedTypes /\ received \in BOOLEAN
  /\ unacked \in [Motors -> 0 .. OverrunLimit]
  /\ rx \in {"none", "enter", "call", "read", "exited"}
  /\ \A i \in DOMAIN toMotors : toMotors[i].motor \in Motors
  /\ \A i \in DOMAIN fromMotors : fromMotors[i].type \in AwaitedTypes
  /\ motorState \in [Motors -> {"RESET", "RUN"}]
  /\ unanswered \in [Motors -> Nat]

Init ==
  /\ program \in Programs
  /\ at = "start" /\ motor = 1 /\ step = 1 /\ waiting = FALSE /\ code = 0
  /\ keepRunning = TRUE
  /\ expected = "INFO" /\ received = FALSE
  /\ unacked = [m \in Motors |-> 0]
  /\ rx = "none"
  /\ TransportInit
  /\ toMotors = <<>> /\ fromMotors = <<>>
  /\ motorState = [m \in Motors |-> "RESET"]
  /\ ram = [m \in Motors |-> [p \in Params |-> IF p = "RUN_MODE" THEN "OPERATION" ELSE 0]]
  /\ lost = {} /\ refused = {}
  /\ unanswered = [m \in Motors |-> 0]

-----------------------------------------------------------------------------
(* main()                                                                  *)

Kind      == program.transport
Connected == IsConnected(Kind)
Addressed == program.motors[motor]

\* The command the current phase makes.
Command == CASE at = "setup" -> program.setup[step]
             [] at = "ping"  -> Sync("ping")
             [] OTHER        -> Sync("stop")

\* The frame type whose arrival completes a command's wait.
Expects(cmd) == IF cmd # "ping" THEN "FEEDBACK"
                ELSE IF program.protocol = "MIT" THEN "READ_PARAM" ELSE "INFO"

Goto(phase, m, s) == at' = phase /\ motor' = m /\ step' = s

\* The benchmark makes a fixed number of sends, then of pings.
Iterate(phase, after) == IF step < Iterations THEN Goto(phase, 1, step + 1)
                                              ELSE Goto(after, 1, 1)

NextMotor(phase, after) == IF motor < Len(program.motors) THEN Goto(phase, motor + 1, 1)
                                                          ELSE Goto(after, 1, 1)

\* Mutant: main() does not look at what setup_motor returned.
AfterSetupAnyway(ok) ==
  /\ UNCHANGED code
  /\ IF step < Len(program.setup) THEN Goto("setup", motor, step + 1)
                                  ELSE NextMotor("setup", "loop")

\* After a command of setup_motor: a failure ends the program without stopping the motors.
AfterSetup(ok) ==
  /\ code' = IF ok THEN code ELSE 1
  /\ IF ~ok THEN Goto("unlink", 1, 1)
     ELSE IF step < Len(program.setup) THEN Goto("setup", motor, step + 1)
     ELSE NextMotor("setup", "loop")

\* Mutant: only the first motor is stopped.
AfterStopFirst == Goto("unlink", 1, 1)

AfterStop == NextMotor("stop", "unlink")

\* After a command, given whether it returned SUCCESS, which only the setup looks at.
Continue(ok) ==
  /\ waiting' = FALSE
  /\ CASE at = "setup"   -> AfterSetup(ok)
       [] at = "stop"    -> AfterStop /\ UNCHANGED code
       [] at = "overrun" -> /\ UNCHANGED code
                            /\ IF program.loop = "control" THEN Goto("stop", 1, 1)
                                                           ELSE Iterate("send", "ping")
       [] at = "ping"    -> Iterate("ping", "join") /\ UNCHANGED code

\* connect(); on success the motors are built and the receive thread started.
Connect ==
  /\ at = "start"
  /\ \/ /\ Opens(Kind)
        /\ rx' = "enter"
        /\ Goto(IF program.setup = <<>> THEN "send" ELSE "setup", 1, 1)
        /\ UNCHANGED code
     \/ /\ OpenFails
        /\ at' = "exited" /\ code' = 1
        /\ UNCHANGED <<rx, motor, step>>
  /\ UNCHANGED <<program, waiting, keepRunning, waitVars, unacked, busVars, deviceVars, history>>

Frame(m, command) == [motor |-> m, cmd |-> command.cmd, write |-> command.write]

Streamed == [cmd |-> "control", write |-> Write(program.reference, 0)]

Sends(request) == /\ Transmits(Kind)
                  /\ toMotors' = Append(toMotors, request)
                  /\ lost' = lost \ {request}
                  /\ refused' = refused \ {request.motor}
                  /\ UNCHANGED fromMotors

SendFails(request) == /\ TransmitFails(Kind)
                      /\ refused' = IF request.cmd = "stop" THEN refused \cup {request.motor} ELSE refused
                      /\ UNCHANGED <<busVars, lost>>

\* A command up to its wait: connection check, prepare_wait, transmit.  A parameter
\* write does not wait.
Issue ==
  /\ at \in {"setup", "overrun", "stop", "ping"} /\ ~waiting
  /\ IF ~Connected
       THEN Continue(FALSE) /\ UNCHANGED <<waitVars, transportVars, busVars, lost, refused>>
       ELSE LET request == Frame(Addressed, Command) IN
            /\ IF Command.cmd = "write"
                 THEN UNCHANGED waitVars
                 ELSE expected' = Expects(Command.cmd) /\ received' = FALSE
            /\ \/ /\ Sends(request)
                  /\ IF Command.cmd = "write"
                       THEN Continue(TRUE)
                       ELSE waiting' = TRUE /\ UNCHANGED <<at, motor, step, code>>
               \/ SendFails(request) /\ Continue(FALSE)
  /\ UNCHANGED <<program, keepRunning, unacked, rx, deviceVars, unanswered>>

\* wait_for_response returns SUCCESS.
Acknowledged ==
  /\ waiting /\ received
  /\ Continue(TRUE)
  /\ UNCHANGED <<program, keepRunning, waitVars, unacked, rx, transportVars, busVars,
                 deviceVars, history>>

UnderWay == Len(toMotors) + Len(fromMotors)

\* It returns ERR_TIMEOUT: nothing is on its way any more, or the motors are slow.
Expires ==
  /\ waiting /\ ~received
  /\ \/ UnderWay = 0 \/ rx = "exited"
     \/ "late" \in Faults /\ UnderWay <= MaxLate
  /\ Continue(FALSE)
  /\ UNCHANGED <<program, keepRunning, waitVars, unacked, rx, transportVars, busVars,
                 deviceVars, history>>

\* The condition of the control loop.
Loop ==
  /\ at = "loop"
  /\ Goto(IF Connected /\ keepRunning THEN "send" ELSE "stop", 1, 1)
  /\ UNCHANGED <<program, waiting, code, keepRunning, waitVars, unacked, rx, transportVars,
                 busVars, deviceVars, history>>

\* After a control call: the control loop breaks on a failure, the benchmark goes on.
AfterControl(ok) ==
  /\ UNCHANGED <<waiting, code>>
  /\ IF program.loop = "benchmark" THEN Iterate("send", "ping")
     ELSE IF ~ok THEN Goto("stop", 1, 1)
     ELSE NextMotor("send", "loop")

\* History: what the counter may stand for.  Saturates, as the counter does.
CountUnanswered == unanswered' = [unanswered EXCEPT ![Addressed] =
                                    IF @ <= OverrunLimit THEN @ + 1 ELSE @]

\* send_*_control: connection check, check_overrun, transmit.
Control ==
  /\ at = "send"
  /\ IF ~Connected
       THEN /\ AfterControl(FALSE)
            /\ UNCHANGED <<unacked, transportVars, busVars, history>>
       ELSE IF unacked[Addressed] + 1 > OverrunLimit
         THEN /\ unacked' = [unacked EXCEPT ![Addressed] = OverrunLimit]
              /\ Goto("overrun", motor, step)
              /\ UNCHANGED <<waiting, code, transportVars, busVars, history>>
         ELSE LET request == Frame(Addressed, Streamed) IN
              /\ unacked' = [unacked EXCEPT ![Addressed] = @ + 1]
              /\ CountUnanswered
              /\ \/ Sends(request) /\ AfterControl(TRUE)
                 \/ SendFails(request) /\ AfterControl(FALSE)
  /\ UNCHANGED <<program, keepRunning, waitVars, rx, deviceVars>>

\* transport->disconnect(), in two steps.
Close ==
  /\ \/ at = "unlink" /\ at' = "close" /\ Unlink
     \/ at = "close" /\ at' = "join" /\ CloseFd
  /\ UNCHANGED <<program, motor, step, waiting, code, keepRunning, waitVars, unacked, rx,
                 busVars, deviceVars, history>>

\* The receive thread is joined; the destructors' stop() finds the transport closed.
Join ==
  /\ at = "join" /\ rx = "exited"
  /\ at' = "exited"
  /\ UNCHANGED <<program, motor, step, waiting, code, keepRunning, waitVars, unacked, rx,
                 transportVars, busVars, deviceVars, history>>

MainStep == \/ Connect \/ Issue \/ Acknowledged \/ Expires
            \/ Loop \/ Control
            \/ Close \/ Join

\* SIGINT.  Only the loop reads the flag, so that an earlier one might as well come here.
Interrupt ==
  /\ at = "loop" /\ keepRunning
  /\ keepRunning' = FALSE
  /\ UNCHANGED <<program, mainVars, waitVars, unacked, rx, transportVars, busVars, deviceVars,
                 history>>

-----------------------------------------------------------------------------
(* The receive thread: Motor::receive_all, or receive() in the benchmark   *)

RxUnchanged == UNCHANGED <<program, mainVars, keepRunning, toMotors, deviceVars, lost, refused>>

\* is_connected(), and the same check at the head of transport->receive().
RxEnter ==
  /\ rx = "enter"
  /\ rx' = IF Connected THEN "call" ELSE "exited"
  /\ RxUnchanged /\ UNCHANGED <<waitVars, unacked, transportVars, fromMotors, unanswered>>

\* read(): on a descriptor closed in between it fails at once.
RxCall ==
  /\ rx = "call"
  /\ \/ Readable(Kind) /\ rx' = "read" /\ UNCHANGED transportVars
     \/ ReadFails(Kind) /\ rx' = "enter"
  /\ RxUnchanged /\ UNCHANGED <<waitVars, unacked, fromMotors, unanswered>>

\* Mutant: a frame that crosses with no command is subtracted all the same.
AnsweredUnclamped(count) == count - 1

\* Mutant: the clamp also stops the last decrement.
AnsweredButOne(count) == IF count <= 1 THEN count ELSE count - 1

\* process_frame's count: clamped, as frames that no control call asked for arrive too.
Answered(count) == IF count <= 0 THEN 0 ELSE count - 1

\* A frame is read and dispatched; the motor it is from counts it and matches its type.
RxFrame ==
  /\ rx = "read" /\ fromMotors # <<>>
  /\ LET frame == Head(fromMotors) IN
       /\ unacked' = [unacked EXCEPT ![frame.motor] = Answered(@)]
       /\ unanswered' = IF frame.control
                          THEN [unanswered EXCEPT ![frame.motor] = IF @ > 0 THEN @ - 1 ELSE 0]
                          ELSE unanswered
       /\ received' = (received \/ (frame.motor = Addressed /\ frame.type = expected))
  /\ fromMotors' = Tail(fromMotors)
  /\ rx' = "enter"
  /\ RxUnchanged /\ UNCHANGED <<expected, transportVars>>

\* Mutant: a timeout of zero, which for SO_RCVTIMEO means none.
RxTimeoutInfinite ==
  /\ rx = "read" /\ fromMotors = <<>> /\ Kind = "serial"
  /\ rx' = "enter"
  /\ RxUnchanged /\ UNCHANGED <<waitVars, unacked, transportVars, fromMotors, unanswered>>

\* SO_RCVTIMEO expires.  The serial transport never blocks.
RxTimeout ==
  /\ rx = "read" /\ fromMotors = <<>>
  /\ rx' = "enter"
  /\ RxUnchanged /\ UNCHANGED <<waitVars, unacked, transportVars, fromMotors, unanswered>>

\* The interface goes down under a blocked read.  Closing the descriptor does not end it.
RxFails ==
  /\ rx = "read" /\ ~medium /\ ReadFails(Kind)
  /\ rx' = "enter"
  /\ RxUnchanged /\ UNCHANGED <<waitVars, unacked, fromMotors, unanswered>>

RxStep == RxEnter \/ RxCall \/ RxFrame \/ RxTimeout \/ RxFails

-----------------------------------------------------------------------------
(* The motors and the bus (external)                                       *)

Obey(request) ==
  LET m == request.motor IN
  /\ motorState' = CASE request.cmd = "enable" -> [motorState EXCEPT ![m] = "RUN"]
                     [] request.cmd = "stop"   -> [motorState EXCEPT ![m] = "RESET"]
                     [] OTHER                  -> motorState
  /\ ram' = IF request.cmd = "write"
              THEN [ram EXCEPT ![m][request.write.param] = request.write.value]
              ELSE ram

\* Every request is answered; a PRIVATE write or control frame by a report.
Reply(request) == [motor   |-> request.motor,
                   type    |-> Expects(request.cmd),
                   control |-> request.cmd = "control"]

MotorAnswers ==
  /\ toMotors # <<>>
  /\ Obey(Head(toMotors))
  /\ toMotors' = Tail(toMotors)
  /\ fromMotors' = Append(fromMotors, Reply(Head(toMotors)))
  /\ UNCHANGED <<program, mainVars, keepRunning, waitVars, unacked, rx, transportVars, history>>

\* History: the losses that matter keep their identity.
AnotherFrame == Frame(0, Sync("other"))

Recorded(request) == IF request.cmd \in {"write", "enable", "stop"} THEN request
                                                                   ELSE AnotherFrame

\* A request never reaches its motor.
LoseRequest ==
  /\ toMotors # <<>> /\ Cardinality(lost) < MaxLost
  /\ toMotors' = Tail(toMotors)
  /\ lost' = lost \cup {Recorded(Head(toMotors))}
  /\ UNCHANGED <<program, mainVars, keepRunning, waitVars, unacked, rx, transportVars,
                 fromMotors, deviceVars, refused, unanswered>>

\* The motor obeys, but its reply never reaches the socket.
LoseReply ==
  /\ toMotors # <<>> /\ Cardinality(lost) < MaxLost
  /\ Obey(Head(toMotors))
  /\ toMotors' = Tail(toMotors)
  /\ lost' = lost \cup {AnotherFrame}
  /\ UNCHANGED <<program, mainVars, keepRunning, waitVars, unacked, rx, transportVars,
                 fromMotors, refused, unanswered>>

InterfaceDown ==
  /\ MediumDown
  /\ UNCHANGED <<program, mainVars, keepRunning, waitVars, unacked, rx, busVars, deviceVars,
                 history>>

Bus == MotorAnswers \/ LoseRequest \/ LoseReply

\* main() has returned.
Ended == at = "exited" /\ toMotors = <<>> /\ UNCHANGED vars

Next == MainStep \/ Interrupt \/ RxStep \/ Bus \/ InterfaceDown \/ Ended

\* The operating system schedules both threads, a blocked read times out, and the
\* bus carries what is sent.
Spec == Init /\ [][Next]_vars /\ WF_vars(MainStep) /\ WF_vars(RxStep) /\ WF_vars(Bus)

-----------------------------------------------------------------------------
(* What a session promises                                                 *)

\* A motor is never powered before its mode and its limits have reached it, however
\* commands are acknowledged: only a write lost on the bus is missing.
RunsConfigured ==
  \A m \in Motors, i \in DOMAIN program.setup :
    LET command == program.setup[i]
    IN  motorState[m] = "RUN" /\ command.cmd = "write"
          => \/ ram[m][command.write.param] = command.write.value
             \/ Frame(m, command) \in lost

\* What the run mode of a PRIVATE motor makes of a reference.
ReferenceOf == [POSITION |-> "LOC_REF", POSITION_CSP |-> "LOC_REF", SPEED |-> "SPD_REF",
                CURRENT |-> "IQ_REF", OPERATION |-> "CONTROL"]

Ready(m, reference) ==
  /\ motorState[m] = "RUN"
  /\ program.protocol = "PRIVATE" => ReferenceOf[ram[m]["RUN_MODE"]] = reference

\* The control frames an example streams find a motor that runs in the mode they are
\* meant for: although a reply to a setup write may pass for the reply to enable(),
\* requests keep their order, so only a request lost on the bus breaks this.
ControlFindsMotorReady ==
  toMotors # <<>> /\ Head(toMotors).cmd = "control" /\ program.loop = "control"
    => LET m == Head(toMotors).motor
       IN  \/ Ready(m, Head(toMotors).write.param)
           \/ \E f \in lost : f.motor = m /\ f.cmd \in {"enable", "write"}

\* main() returns 0 only when every motor is stopped or its stop frame is on its way:
\* whatever ended the loop, an overrun of one motor, a refused frame or SIGINT, it stops
\* all of them.  The exceptions are a stop frame lost or refused, and a dead link.
StoppedAtExit ==
  at = "exited" /\ code = 0 /\ toMotors = <<>> /\ medium
    => \A m \in Motors : \/ motorState[m] = "RESET"
                         \/ m \in refused \/ Frame(m, Sync("stop")) \in lost

\* The overrun counter of a motor never exceeds the control frames it really has not
\* answered, so that a safety stop is never caused by frames that were answered, by the
\* frames of the other motor or by the replies to a setup.  A control frame that was lost
\* or that the transport refused is unanswered: the code does not take it back.
CounterJustified == \A m \in Motors : unacked[m] <= unanswered[m]

\* Unless it streams forever, over a live link and not interrupted, a program ends: no
\* wait, no read of the receive thread and no join hangs, and the loop does not outlive
\* the link.  This excludes the benchmark, which joins without closing the transport.
ProgramEnds ==
  program.loop = "control"
    => <>(at = "exited") \/ []<>(at = "loop" /\ keepRunning /\ medium)
=============================================================================
