# TLA+ models of robstride_sdk

Specifications of the RobStride motor SDK (`src/`), model-checked with TLC on small
instances. Every safety property of a passing run is also proved with TLAPS for every instance:
every number of threads, motors, messages, lost frames and failures.
`PROJECT.json` maps every definition to the source lines it models.

## The system

| Component | State | Operations | Interacts with |
|---|---|---|---|
| `Motor` (`src/src/motor/robstride_motor.cpp`) | `status_` under `motor_mutex_`; `expected_response_type_`, `response_received_` and `response_cv_`; the recursive `command_mutex_`; the atomic `unacknowledged_commands_` | synchronous commands (`enable`, `stop`, `clear_error`, `ping`, `set_zero`, `read_parameter`), asynchronous ones (`write_parameter`, `send_*_control`), `setup_mode`, `stop_pp_mode`, `receive`, `receive_all`, `disconnect` | application threads call it, one receive thread feeds it; it calls a protocol and a transport that motors share |
| `ProtocolPrivate`, `ProtocolMIT` | none | accept a frame, parse it into `MotorStatus`, name its response type, encode requests | called by `Motor`, partly under `motor_mutex_` |
| `SocketCANTransport` | `fd_`, `link_ok_` | `connect`, `transmit`, `receive`, `disconnect`, `is_connected` | every thread |
| `SerialTransport`, `SerialRingBuffer` | `fd_`, the ring's bytes and two indices | the same, plus `push`, `pop_frame`, `reset` | `receive` on the receive thread, the rest on any thread |
| Examples and benchmark (`src/examples/cpp`) | a stop flag | connect, start the receive thread, set up, enable, stream, stop, disconnect, join | the public API, two motors on one transport |
| Python bindings (`src/python_bindings/pyrobstride.cpp`) | none; the interpreter's lock (GIL) | forward every call, some with a guard that gives up the GIL, some without | Python threads, the mutexes of `Motor` |

What is hard here: two mutexes and an atomic counter between any number of
application threads and the receive thread; replies that are matched by frame type
only, and may be lost or arrive after a timeout; a safety `stop()` that runs inside a
control call; a link that goes down between any two steps; a ring buffer fed in
arbitrary pieces; two protocols whose identifiers and payloads share bits; a third lock, the
GIL, around the others. `PROJECT.json` lists these hazards line by line.

What makes each component correct:

* Motor, commands: one command at a time owns the wait, it succeeds only on a frame of
  its type processed after it armed the wait, it always returns, and a read never
  returns another parameter's value.
* Motor, control: the overrun counter bounds how many frames leave without a reply, and
  reaching the limit puts a stop on the wire.
* Receive loop: every accepted frame is processed and the loop ends with the link.
* `setup_mode`: success means the whole configuration reaches the motor; failure leaves
  a prefix of it that starts with the mode.
* Serial: messages come out whole, in order, at most once, and eventually.
* Protocols: a request reaches one motor with its meaning, a reply one `Motor` object with
  its values, and no command waits for a type that never comes.
* Programs: a motor runs only with its configuration, control frames find it ready, every
  motor is stopped when the program reports success, and the program ends.
* Bindings: no thread holds a mutex while it wants the GIL, and every call returns.

## Modules

| Module | What it is |
|---|---|
| `Protocol` | acceptance, parsing and response types of both protocols; frames are abstracted to their kind, motor state and parameter payload |
| `Motor` | one `Motor` object: application threads, receive thread, link, physical motor |
| `ResponseSlot` | abstract: a slot that one command arms for one frame type and that answers it at most after that |
| `MotorProofs` | theorems about `Motor` and their proofs |
| `ModePlan` | the parameter writes of `setup_mode` and `stop_pp_mode`, used by `SetupMode` and `Examples` |
| `PlanProofs` | lemmas about `ModePlan`, used by `SetupProofs` and `SessionProofs` |
| `SetupMode` | these writes made by several threads on one `Motor` |
| `SetupProofs` | theorems about `SetupMode` and their proofs |
| `SerialRing` | `SerialRingBuffer` as a value and operators |
| `SerialTransport` | `connect`, `disconnect` and the steps of `receive`, with the serial line and the kernel's buffer |
| `FrameQueue` | abstract: a bounded queue from which whole frames are taken |
| `RingProofs`, `SerialProofs` | lemmas about the ring, theorems about `SerialTransport` and the refinement of `FrameQueue` |
| `Transports` | the descriptor, the link flag and the interface under both transports, as operators on three variables |
| `Examples` | the twelve C++ programs as records: protocol, transport, motors, setup commands, what they stream |
| `Session` | composes `Examples` and `Transports`: `main()`, the receive thread, the bus, the physical motors |
| `SessionProofs` | theorems about `Session` and their proofs |
| `Codec` | every encoder and parser of both protocols, with identifiers, bytes and scaling |
| `Bus` | composes `Codec` and `Protocol`: several `Motor` objects with `receive_all`, and the motors they stand for |
| `BusProofs` | lemmas about `Codec`, theorems about `Bus` and their proofs |
| `Bindings` | Python threads, the GIL, `command_mutex_`, `motor_mutex_` and the thread in `receive_all` |
| `BindingsProofs` | theorems about `Bindings` and their proofs |
| `MCMotor`, `MCSetup`, `MCSerial`, `MCSession`, `MCBus`, `MCBindings` | small instances for TLC |

### Motor

A command is `Call`, `Lock` (the `lock_guard` on `command_mutex_` and the connection
check), `PrepareWait`, `Transmit`, `WaitSucceeds` or `WaitTimesOut`, and for a read
`Readback`. A control call is `Call`, `CheckOverrun` (connection check and increment),
`Saturate` (the assignment of the limit) followed by the nested `stop()`, or `Send`.
`Disconnect` writes its flag without a mutex. A return releases `command_mutex_` in the
same step, since nothing is read in between.

A section under `motor_mutex_` on an application thread touches nothing anybody else
touches without the mutex, so it is one step, enabled while the receive thread does not
hold the mutex. `process_frame` is `RxReceive` (receive and `is_feedback_frame`),
`RxParse` (lock, parse, `fetch_sub`) and `RxFinish` (clamp, match, unlock): the counter it
changes twice is also changed without the mutex. The four `send_*_control` functions are
one operation: they differ only in what they encode.

The wait for a reply may expire at any moment at which the reply has not been processed,
so that any reply may be late. The physical motor obeys requests in order and answers as the
code expects of each protocol; it may stay silent (its reply is lost), a request may be
lost, and it may send frames nobody asked for. Temperatures, angles and the other
telemetry fields are left out: no control depends on them.

### SetupMode

One `write_parameter` holds `command_mutex_` for itself only and changes nothing but what is on
the wire, so it is one step here (`WriteNext`, `WriteFails`). `Plan` is the sequence of
writes of each mode, including the mode that is not a `RunMode` (written, then refused)
and `stop_pp_mode`. The motor applies the writes in the order of the bus.

### SerialTransport

`receive` is `RxCall`, any number of `RxDrain` (a poll that succeeds, a read of at most a
chunk, a push), `RxDrained`, and `RxPop`. `Connect` and `Disconnect` happen on another thread
between these steps. The indices of the ring and its stale bytes are kept as they are in
the code; the frame has the code's layout with a shorter body.

`pop_frame` looks for two delimiters at their distance and has no checksum. Which messages come
out of a line with noise or a reconnection therefore depends on the bodies: with frames of 8 bytes
and the bodies `1 1 A T` and `CR LF 1 1`, a port closed and reopened while the first frame arrives
finds the `A T` inside it and returns `CR LF A T`, which nobody sent. `Unmistakable` is what the line has to
satisfy instead: one of the two pairs, `A T` or `CR LF`, occurs in its place in a frame and
nowhere else. `LineAssumption` of `MCSerial` checks that the instances do.

### Session

A program is a record of `Examples`: `PrivateSetup` is `setup_motor` (ping, clear_error, set_zero,
the writes of its mode, enable), and the loop streams one frame to each motor in turn. `at` is
where `main()` is: `Connect`, `Issue` and `Acknowledged` or `Expires` for each command, `Loop`
and `Control` for the streaming, `Close` in its two steps, `Join`. The phase decides what comes
after a command (`Continue`): `AfterSetup` ends the program with code 1, the loop breaks to
`stop()` for every motor, an overrun makes its nested `stop()` first. The receive thread is
`RxEnter` (`is_connected`), `RxCall` (the call of `read`), and `RxFrame`, `RxTimeout` or `RxFails`.
`disconnect()` may come between any two of them, also while `read` blocks on the descriptor
that is being closed: what ends the `read` then is its timeout.

Since only the main thread issues commands, the mutexes of `Motor` are never contended and a
command up to its wait is one step. SIGINT is taken at the head of the loop only: nothing
else reads the flag. The motors answer every request, so that a reply to a setup write may
pass for the reply to `enable()`; requests and replies keep their order and may be lost.

### Codec and Bus

A frame is its identifier, its format flag, its length and its eight bytes; a 32-bit payload is
its four bytes. Scaling is done in integers (mrad, 0.01 rad/s, 0.01 Nm), truncated as the
casts of the code do; the properties allow one step of the scale and one unit for each
truncation. `EncodePrivate`, `EncodeMIT`, `ParsePrivate` and `ParseMIT` have one case per function or
branch of the code. In `Bus` a request carries its meaning beside its frame, and a
reply the report it was made from; the physical motor sees only the frame, `process_frame`
sees only the frame, and the properties compare the two ends. `RepliesRecognised` also
checks that `Protocol`, the abstraction `Motor` is built on, names the same types, and
`ParsesAsProtocol` that it does the same to a status.

The special commands of MIT are control frames whose bits are all ones but for the last byte. A
control frame with position, velocity and both gains at their maximum or beyond, and a torque at most
0.1 % of its range below the maximum, has the same bytes (`Collides`), and the motor takes it as clear_error,
enable, stop or set_zero. `RequestsUnderstood` states that exception exactly: these frames are taken for
the command they spell, and no others are.

### Bindings

A call releases the GIL if its binding has a call guard (`Releases`), locks `command_mutex_`
(`Locking`), and waits for a reply under it (`Waiting`). `write_parameter`, `read_parameter`, the
control calls, `get_status` and the transport's `disconnect` keep the GIL. A call guard's
destructor runs after the lock guard's, so it takes the GIL back with no mutex held.
`setup_mode` is represented by one of its writes, which lock one by one.

## Runs

| Run | Expects | What it shows |
|---|---|---|
| `MotorOverrun` | pass | counter in bounds, bursts limited: two senders, limit 1, six calls, failing writes, one unsolicited reply |
| `MotorCommands` | pass | MIT; waits owned by one command, `ResponseSlot` implemented, every call returns, the receive loop ends, an overrun sends a stop |
| `MotorUnacked` | violation | the clamp erases increments, so more frames than `overrun_limit` leave without a reply |
| `MotorStopAck` | violation | a late reply to `enable()` acknowledges `stop()` |
| `SetupPlans` | pass | a successful setup nobody overlapped configures the motor; a failed one has switched the mode first |
| `SetupInterleaved` | violation | two successful setups leave a mixture of both |
| `SerialDelivery` | pass | the ring implements `FrameQueue`; messages in order, once, and eventually unless bytes were dropped; one by one over a clean link |
| `SerialWedge` | violation | noise can fill the ring for good |
| `SerialSplice` | violation | an overflow can join two frames into a message nobody sent |
| `Session` | pass | all twelve programs: configured before they run, ready for control, stopped at a successful exit, no unjustified overrun, and they end |
| `Bus` | pass | requests understood by one motor (a MIT control frame that collides, as a special command), replies recognised by one `Motor`, the status is what was reported, foreign frames change nothing, the parsers do what `Protocol` says |
| `Bindings` | pass | GIL and mutexes are taken in an order that lets every call return and the receive thread end |

Each violation is a disagreement between the code and one of its documents, comments or
tests, quoted above the property and in `PROJECT.json`.

In `MotorUnacked` the limit is 2 and the motor sends nothing but answers. The reply to a
`write_parameter`, which no counter expects, is parsed with the counter at 0 and leaves -1; three
control calls raise it to 2 and send; `RxFinish` stores 0; a fourth control frame leaves. A frame that
had passed `check_overrun` before the reply was counted may also leave after it. That alone is no
more than one frame per thread, and `UnackedWithinLimit` allows it: with the decrement and the clamp
in one atomic step, the same instance has no violation.

**Bounds.** `MaxCalls` bounds the calls of the application: two let a command meet
another one in every step, six are one more than the burst bound of two threads
with limit 1, so that the bound itself is tested (it is reached: the instance has
behaviours with five frames between two replies). `MaxStray` bounds unsolicited
frames; one is needed to catch the counter at zero. Limit 0 (`MotorCommands`) makes every
control call an overrun. Two parameters let a reply be for the wrong one, two payloads
let it be outdated. The serial ring has 8 slots and frames of 6 bytes: two frames wrap it,
and a burst of both overflows it; a chunk of 4 splits every frame. Seven noise bytes fill
that ring. `MaxCloses = 1` closes the port once at any point, `MaxNoise = 1` puts a stray byte
anywhere. One setup per thread is enough for an overlap, and `SetupPlans` lets one
thread make both calls in turn as well.

`Session` runs each program from its start to its end, with the real number of setup
commands and motors. `OverrunLimit = 1` (the programs use 5) makes an overrun happen after one
unanswered frame of a motor; `MaxLost = 1` loses one frame anywhere; `MaxLate = 1` lets a
wait expire with one frame under way, so that its reply meets the next command. `Iterations = 3`
stands for the benchmark's 10000 sends and 100 pings: two sends and an overrun. `Bus` has two motors:
a pair of each protocol and a mixed one, whose identifiers 8 and 6 put the bits of a MIT mode and the
other motor's identifier into each other's frames; three requests or unprompted frames
with two under way let every kind of report follow every other. The values are the ends of
each range, beyond them, and inside; control frames at full scale have the bytes of each of the four
special commands, or are one step away. Two calls of
two Python threads put every call beside every other and after it.

**Symmetry** is used only in `MotorOverrun`, which checks no liveness.

**Deadlock** is checked in every run but the serial ones: the models have an explicit step for an
application that has made its calls. The serial runs switch it off: a port that stays
closed after the bounded number of events really is the end.

**Fairness.** `Motor!FairSpec`: each application thread and the receive thread keep running
(the operating system schedules them) and an expired wait returns. Lock hand-over needs
no more than weak fairness because the calls are bounded; with threads calling forever
a `std::mutex` promises no turn, and neither do we. The physical motor and the link have
no fairness: no reply is ever promised. `SerialTransport!FairSpec`: the receive thread keeps
calling `receive`, and bytes on the wire arrive. `Session!Spec`: `main()` and the receive thread keep
running, which includes that a wait and a blocked `read` expire, and the bus does something with
each request (it may lose it). The interface and SIGINT have no fairness. `Bindings!Spec`: each thread keeps
running; the calls are bounded, so that no fair hand-over of a lock is needed.

`ProgramEnds` is stated of the examples: either the program ends, or it is in its loop
again and again, uninterrupted and with the interface up. It is not stated of the benchmark, which
joins its receive thread without closing the transport and hangs.

`OverrunStopsMotor` is checked without refused writes: a stop whose write is refused is not
retried, and its result is dropped.

## Proofs

`MotorProofs` proves, for every protocol, limit, parameter set and finite set of
threads (the assumptions `ConstantsAssumption`, `ClientsFinite` and `ProtocolAssumption`), and without
any bound on calls or frames other than being some natural number:

* `TypeCorrect`: `TypeOK` is inductive.
* `ExpectationIsOwned`: `ExpectationOwned` is inductive given types. Armed commands own
  `command_mutex_`, so no two are armed at once and only the owner writes the armed type.
* `CounterIsBounded`: the counter exceeds the limit by at most the number of threads in
  `Saturate`. An increment past the limit adds a thread to that set, and the assignment
  that removes it also resets the counter. Below, only `fetch_sub` of a counter that was not
  positive makes it negative, and `RxFinish` follows with the mutex still held.
* `StreakIsBounded`: `StreakBounded` is not inductive. `StreakCovered` is: the frames sent since the
  last reply plus those already past the check are covered by the counter, by the threads
  that had passed the check at that reply, and, once the clamp may have erased
  increments, by one more limit. `CoveredIsBounded` derives the bound.

* `ReadsOwnParam`: `ReadReturnsOwnParam` needs to know that only reads look at the cached
  reply, so that their argument is a parameter. `PlacesFit` proves it (`PlaceFitsOp`: a thread in
  `readback` runs a read, one in `check`, `saturate` or `send` a send).
* `SlotImplemented`: `Spec => ImplementsSlot`, the refinement of `ResponseSlot`. `ArmingOwns`
  derives from `ExpectationOwned` that at most one thread is armed and that it is the slot's
  owner; `MovesOneThread` that a thread's step changes at most its own place among the armed and
  the acknowledged threads. `prepare_wait` then maps to `Arm`, a matching frame under an armed
  wait to `Answer`, the end of a wait to `Complete` or `Abandon`, a failed transmit to `Abandon`,
  a new call to `Forget`, and every other step to one of these or to a stutter.

`SetupProofs` proves, for every set of threads, every set of calls with any limits
and any mode (`CallsAssumption`) and every way in which writes fail:

* `SetupTypeCorrect`: `TypeOK` needs `Progress`, which ties the writes a thread has made to
  the length of its plan.
* `SetupConfigures`, `FailedSetupSetsMode`: `SuccessConfigures` and `ModeBeforeLimits` follow from
  `Placed`: what the newest call wrote undisturbed is the end of the wire, in the order of its plan,
  or has arrived in the motor. A write that arrives cannot undo an earlier one of the same plan, as
  a plan writes each parameter once (`PlanWrites`); `Undisturbed` says that nobody else can.

`RingProofs` and `SerialProofs` prove, for every capacity and frame length and every alphabet
(`CapacityAssumption`, `FrameLenAssumption`, `BytesAssumption`), and every chunk size, noise and
set of messages of the frame's length (`TransportAssumption`):

* `SerialTypeCorrect`: `TypeOK` is inductive.
* `QueueImplemented`: `Spec => ImplementsQueue`, the refinement of `FrameQueue`. The queue is what waits
  between the two indices (`Contents`). `PushAppends` says that `push` appends as much as fits, wherever
  the indices wrap, and `PopTakes` that `pop_frame` takes the first frame and what precedes it, or
  nothing; a drain then maps to `Extend`, a pop to the queue's pop, a reset to its reset.
* `DeliveredInSequence`: `DeliveredOneByOne` needs `Aligned`: over a clean link the bytes in the ring, in
  the kernel and on the wire, one after the other, are the frames of the messages not yet
  delivered and nothing else. Each scan then begins at the head of a frame, so that no delimiter
  inside a body is ever looked at; taking a frame of a fixed length keeps that so.
* `DeliveredAsSent`: `Unmistakable` implies `Spec => []DeliveredInOrder`. With noise and
  reconnections the line is no longer a row of frames, and a scan may begin anywhere in one. What stays
  is the pair of bytes that is never mistaken, the anchor. `Accounted` assigns each anchor on the line a sent
  message, in increasing order and behind those already returned, such that the message's frame lies around
  it (`Around`), except for what a reconnection has cut off at the front. A frame that `pop_frame` finds
  contains an anchor (`FoundAnchor`), therefore is one that was sent (`PopReturns`), and the anchors behind it
  belong to later messages. `LastByte` says that the line ends with `LF` or noise, so that no anchor
  arises where a frame or a noise byte joins it, and `Quiet` that a closed port holds nothing. Every
  other step only moves bytes (`Moved`): it keeps them, or loses some at the front.

`SessionProofs` proves, for every set of programs, limit and number of lost or late frames
(`SessionAssumption`; what a setup is, `Regular`, is proved of each of the twelve programs):

* `SessionTypeCorrect`: `TypeOK` needs `Places`, which says where `main()` may be in which program, and
  what is on the bus. `StepKinds` reduces the actions to what they do to the requests: one leaves
  the queue, a command or a control frame enters it, or none moves.
* `RunsOnlyConfigured`: `RunsConfigured` is about the motor that runs, but a reply to a setup write may
  complete `enable()` or an earlier wait, so that `main()` says little about what the motor has
  obeyed. What holds is the order of the queue: `IdleBefore` (no motor runs, or has its enable on the
  bus, before `main()` has come to that) and `WritesFirst` (every write of its setup has been obeyed, is
  lost, or is ahead of the enable).
* `ControlFramesFindMotorReady`: `ControlFindsMotorReady` follows from these and `ControlLast`: until
  `main()` leaves its loop no stop frame is on the bus, and every control frame is behind the enable
  of its motor unless that was lost.
* `EveryMotorStoppedAtExit`: `StoppedAtExit` needs `Linked` (between `connect` and `disconnect` a live
  medium means a connected transport, so that a stop cannot be skipped) and `AllStopped`: a motor
  `main()` is done with is idle or has a stop frame on the bus and no enable behind it.
* `CounterIsJustified`: `CounterJustified` with the ranges of both counts (`CounterInv`) is
  inductive. `Control` raises both or saturates the counter where it already is; `RxFrame` always
  lowers the counter, clamped, and its history only for a reply to a control call.

`BindingsProofs` proves, for every number of Python threads and calls (`BindingsAssumption`):

* `BindingsTypeCorrect`: `TypeOK`, whose conjunct `LocksOwned` says that each mutex is owned by
  exactly the thread inside its critical section, is inductive. The lemmas follow the shapes of
  a step: a move on one side of both locks, the end of a critical section, the end of a call.
* `GilIsTakenLast`: a consequence, as a thread that wants the GIL is in no critical section.

`BusProofs` proves, for every set of motors of either protocol with unique identifiers and any
torque and velocity range, every request and every report. `BusAssumption` gives these
their types; a setpoint is any integer. `RangeAssumption` says that a motor reports
speeds and torques that its ranges hold, `StrayAssumption` that a frame of another node does not have the
identifier and the type of a report of one of these motors:

* `BusTypeCorrect`, `EveryRequestUnderstood`, `EveryReplyRecognised`, `StatusShowsReports` follow from `BusInv`,
  which `TypeOK` does not imply: every message under way is the encoding of one request
  of a caller or of one report of a motor, and every status shows what was processed last.
* Below it are the lemmas of `Codec`. `Identifier` takes the 29 bits apart; `ReadBytes` to
  `MitFeedbackBytes` take the payloads apart, down to the two fields that share a byte. `RoundTrip`
  bounds the error of scaling there and back by one step and the truncations; `Setpoint`, `Gain`,
  `Measurement` and `MitAngle` apply it to each field. `PrivateRequest` and `MitRequest` conclude that a
  request means what was asked. A MIT control frame that `Collides` is the exception, and `Means` says what
  becomes of it: the motor takes the special command its torque spells. `FullScale` shows that a field
  reads as its maximum exactly for a setpoint at the maximum or beyond, and `AllOnes` that the bytes are
  those of a special command exactly for such fields and one of four torques, so that every
  frame that collides is taken for that command and no other control frame is.
* `RequestIsTaken` and `ReportIsRecognised` are where the two protocols could be confused on a shared bus:
  a MIT motor's mode sits where a PRIVATE frame has other bits. `MitNeverPings` and `AnswerIsExpected` say
  that a motor answers each waiting command with the type it waits for.
* `ChangedBySenderOnly` and `ParsersFollowProtocol`: action properties from the same invariant. The second
  and `EveryReplyRecognised` are what links the models: the operators of `Protocol`, on which `Motor` and its
  theorems rest, are what the parsers of `Codec` do to the bytes.

Only model-checked:

* Everything about liveness (`EveryCallReturns`, `RxExitsWhenDown`, `OverrunStopsMotor`,
  `EveryMessageDelivered`, `ProgramEnds`, `ReceiverEnds`), which is beyond the proof system.
* The disagreements with the documents, which are counterexamples.

What the theorems assume beyond the types of the constants is named: `Unmistakable`, a hypothesis of
`DeliveredAsSent` alone, `RangeAssumption` and `StrayAssumption`. They are about motors and lines, not about the code.

## Not modelled

Known behaviours no property is about:

* A failed setup ends the program with code 1 after the transport was closed; `~Motor`, which
  attempts to stop the motor (`robstride_motor.cpp:39`), then finds no connection, and motors
  that were enabled stay enabled. `StoppedAtExit` is about exit code 0.
* The benchmark's `join()` hangs.
* After a lost link, `connect()` succeeds without repairing it. No program reconnects.
* A read may return the value its parameter had before a later write, from the reply
  to an earlier read that timed out (`robstride_motor.h:49`: "Reads a parameter from the motor RAM.").
* A scan that starts inside a frame can take the delimiters of two bodies for one frame
  (`robstride_transport.cpp:153`); `DeliveredInOrder` is about lines on which it cannot.
* A descriptor number reused between `close` and the store of -1.
* Float rounding and setpoints that are not numbers: `Codec` computes exactly in integers.
* A Python `read_parameter` right after the receive thread's start may hold the GIL that
  thread needs to enter `receive_all`, and time out.

Left out for good: the Python examples (the threads of `Bindings`, the sequence of `Session`),
build files, the physics of the motor, and the data races whose
outcomes depend on torn accesses: `SerialTransport::disconnect()` resetting the ring inside
`push` or `pop_frame`. In the models `disconnect()` comes between the steps of `receive()`.
`Motor::connect()` only forwards to the transport, and the destructor is one more call of `stop()`.
A MIT motor on a serial transport, which refuses each of its frames with
`ERR_PROTOCOL_MISMATCH`, is left out: `documentation/examples.md` excludes the combination.

Further disagreements have no run:

* `examples/cpp/mit/example_operation.cpp:102` reports a control call that failed as "a CAN bus overrun and
  stopped Motor 6 for safety"; when the transport refuses the stop frame too, the call still returns
  `ERR_OVERRUN` and the motor runs on, as `check_overrun` drops the result of `stop()`.
* `tests/test_motor.cpp:265-266` and `pyrobstride.cpp:252` expect `Motor::disconnect()` to close the
  transport, which the code deliberately does not.
* `documentation/architecture.md:21` says `write_parameter()` waits for a response, while the code
  returns after the write (`Transmit` in `Motor`).
* `documentation/api_reference.md:102` says of `SUCCESS` that the command was "successfully transmitted
  and acknowledged"; the feedback to a setup write may complete `enable()` in place of its own reply.
  `ControlFindsMotorReady` shows that this is harmless as long as requests keep their order.
* `pyrobstride.cpp:262` calls the control bindings "fire-and-forget, no blocking"; on an overrun they
  wait for the reply to `stop()`, with the GIL held.
* `pyrobstride.cpp:199-200` and `:242-243` promise an exception for MIT on a serial transport; none is
  thrown.
