-------------------------------- MODULE Bus --------------------------------
(***************************************************************************)
(* Motor objects, the physical motors they stand for, and the frames in    *)
(* between: the encoders of each protocol, Motor::receive_all, which shows *)
(* every received frame to every Motor, and process_frame with the         *)
(* parsers.  Waits and counters are left to Motor.                         *)
(***************************************************************************)
EXTENDS Codec

CONSTANTS
  Configurations,  \* the sets of motors explored: [id, host, protocol, profile]
  Requests,        \* what a caller may ask for
  Reports,         \* what a motor may report about itself
  Strays,          \* frames of other nodes, and unknown or short ones: [about, frame]
  MaxRequests,     \* bound: requests and unprompted frames of a behaviour
  MaxUnderWay      \* bound: frames on the bus

Payloads == Byte \X Byte \X Byte \X Byte

KnownMotors == [id : Byte, host : Byte, protocol : {"PRIVATE", "MIT"},
                profile : [torque : Nat \ {0}, velocity : Nat \ {0}]]

KnownRequests ==
  [cmd : {"enable", "stop", "clear_error", "set_zero", "ping"}]
    \cup [cmd : {"read"}, param : DOMAIN ParamId]
    \cup [cmd : {"write"}, param : DOMAIN ParamId, raw : Payloads]
    \cup [cmd : {"control"}, torque : Int, pos : Int, vel : Int, kp : Int, kd : Int]

KnownReports ==
  [kind : {"feedback"}, state : 0 .. 2, error : 0 .. 63, angle : -FourPi .. FourPi,
   velocity : Int, torque : Int, temperature : Word]
    \cup [kind : {"param"}, index : Word, payload : Payloads]
    \cup [kind : {"mcu_id"}, mcu : [1 .. 8 -> Byte]]
    \cup [kind : {"fault"}, fault : Payloads, warning : Payloads]

\* Identifiers are unique, and none is a host's: a MIT motor answers to its host's
\* identifier, where another motor would look for its own.
ASSUME BusAssumption ==
  /\ \A bus \in Configurations : /\ bus \subseteq KnownMotors
                                 /\ \A m, n \in bus : (m.id = n.id => m = n) /\ m.id # n.host
  /\ Requests \subseteq KnownRequests /\ Reports \subseteq KnownReports
  /\ MaxRequests \in Nat /\ MaxUnderWay \in Nat

VARIABLES
  motors,        \* the motors of this bus
  toMotors,      \* requests under way, with what they mean: [motor, request, frame]
  fromMotors,    \* frames under way to the host: [from, answers, report, frame]
  status,        \* MotorStatus of every Motor object
  reported,      \* history: the last report of each kind a Motor has processed
  sent           \* frames put on the bus so far

vars == <<motors, toMotors, fromMotors, status, reported, sent>>

ReportKinds == {"feedback", "param", "mcu_id", "fault"}

Nothing == [kind |-> "none"]
NoRequest == [cmd |-> "none"]

Status(m) == [id |-> m.id, state |-> MotorState.RESET, error |-> 0, angle |-> 0, velocity |-> 0,
              torque |-> 0, temperature |-> 0, mcu |-> Zeros, fault |-> <<0, 0, 0, 0>>,
              warning |-> <<0, 0, 0, 0>>, index |-> 0, payload |-> <<0, 0, 0, 0>>,
              connected |-> FALSE, unknown |-> 0]

WellFormed(frame) == /\ frame.id \in 0 .. (IF frame.eff THEN 2^29 ELSE 2^11) - 1
                     /\ frame.dlc \in 0 .. 8
                     /\ DOMAIN frame.data = 1 .. 8
                     /\ \A i \in 1 .. 8 : frame.data[i] \in Byte

TypeOK ==
  /\ motors \in Configurations
  /\ \A i \in DOMAIN toMotors : WellFormed(toMotors[i].frame)
  /\ \A i \in DOMAIN fromMotors : WellFormed(fromMotors[i].frame)
  /\ \A m \in motors : status[m].state \in 0 .. 3 /\ status[m].unknown \in Nat
  /\ sent \in 0 .. MaxRequests

Init ==
  /\ motors \in Configurations
  /\ toMotors = <<>> /\ fromMotors = <<>>
  /\ status = [m \in motors |-> Status(m)]
  /\ reported = [m \in motors |-> [k \in ReportKinds |-> Nothing]]
  /\ sent = 0

-----------------------------------------------------------------------------
(* The strategy of a motor                                                 *)

EncodeRequest(m, r) == IF m.protocol = "MIT" THEN EncodeMIT(m, r) ELSE EncodePrivate(m, r)

IsFeedbackFrame(m, frame) == IF m.protocol = "MIT" THEN IsFeedbackMIT(frame, m.id)
                                                   ELSE IsFeedbackPrivate(frame, m.id)

\* Every type the PRIVATE protocol accepts has its case.
Parses(m, frame) == m.protocol = "MIT" => ParsesMIT(frame, m.id)

ParseFeedback(m, frame, s) == IF m.protocol = "MIT" THEN ParseMIT(frame, s, m.profile)
                                                    ELSE ParsePrivate(frame, s, m.profile)

ResponseType(m, frame) == IF m.protocol = "MIT" THEN ResponseTypeMIT(frame)
                                                ELSE ResponseTypePrivate(frame)

\* The type a waiting command waits for.  Writes and control frames do not wait.
Waits == {"enable", "stop", "clear_error", "set_zero", "ping", "read"}

Expected(m, cmd) == CASE cmd = "read" -> FrameType.READ_PARAM
                      [] cmd = "ping" /\ m.protocol = "MIT" -> FrameType.READ_PARAM
                      [] cmd = "ping" /\ m.protocol # "MIT" -> FrameType.INFO
                      [] OTHER -> FrameType.FEEDBACK

-----------------------------------------------------------------------------
(* What a physical motor makes of a frame, and how it answers (external)   *)

\* The motor's firmware uses one range in both directions: the one parse_feedback uses.
AngleRange(m)    == IF m.protocol = "MIT" THEN MITAngle ELSE FourPi
VelocityRange(m) == IF m.protocol = "MIT" THEN MITVelocity ELSE m.profile.velocity
Steps(m)         == IF m.protocol = "MIT" THEN Steps12 ELSE Steps16

\* It reports what its ranges hold.
ASSUME RangeAssumption ==
  \A bus \in Configurations : \A m \in bus, r \in Reports :
    r.kind = "feedback" => /\ r.velocity \in -VelocityRange(m) .. VelocityRange(m)
                           /\ r.torque \in -m.profile.torque .. m.profile.torque

Addressed(m, frame) == /\ frame.eff = (m.protocol = "PRIVATE")
                       /\ frame.id % 2^8 = m.id

Obeyed(cmd, raws) == [cmd |-> cmd, raws |-> raws]

UnderstoodPrivate(frame) ==
  LET d    == frame.data
      type == GetMsgType(frame.id) IN
  CASE type = FrameType.ENABLE      -> Obeyed("enable", <<>>)
    [] type = FrameType.DISABLE     -> Obeyed(IF d[1] = 1 THEN "clear_error" ELSE "stop", <<>>)
    [] type = FrameType.ZERO_POS    -> Obeyed("set_zero", <<>>)
    [] type = FrameType.INFO        -> Obeyed("ping", <<>>)
    [] type = FrameType.READ_PARAM  -> Obeyed("read", <<d[2] * 256 + d[1]>>)
    [] type = FrameType.WRITE_PARAM -> Obeyed("write", <<d[2] * 256 + d[1], d[8], d[7], d[6], d[5]>>)
    [] type = FrameType.CONTROL     ->
         Obeyed("control", <<(frame.id \div 2^8) % 2^16, d[1] * 256 + d[2], d[3] * 256 + d[4],
                             d[5] * 256 + d[6], d[7] * 256 + d[8]>>)

SpecialMIT == [b \in 251 .. 254 |-> CASE b = 251 -> "clear_error" [] b = 252 -> "enable"
                                      [] b = 253 -> "stop"        [] b = 254 -> "set_zero"]

UnderstoodMIT(frame) ==
  LET d == frame.data IN
  CASE Mode(frame) = 3 -> Obeyed("read", <<d[2] * 256 + d[1]>>)
    [] Mode(frame) = 4 -> Obeyed("write", <<d[2] * 256 + d[1], d[8], d[7], d[6], d[5]>>)
    [] Mode(frame) = 0 ->
         IF (\A i \in 1 .. 7 : d[i] = 255) /\ d[8] \in DOMAIN SpecialMIT
           THEN Obeyed(SpecialMIT[d[8]], <<>>)
           ELSE Obeyed("control", <<(d[7] % 16) * 256 + d[8], d[1] * 256 + d[2],
                                    d[3] * 16 + d[4] \div 16, (d[4] % 16) * 256 + d[5],
                                    d[6] * 16 + d[7] \div 16>>)

Understood(m, frame) == IF m.protocol = "MIT" THEN UnderstoodMIT(frame)
                                              ELSE UnderstoodPrivate(frame)

ToHost(m, type, bits) == [eff |-> TRUE, dlc |-> 8, data |-> Zeros,
                          id |-> FrameType[type] * 2^24 + bits * 2^16 + m.id * 2^8 + m.host]

ReportPrivate(m, r) ==
  CASE r.kind = "feedback" ->
         [ToHost(m, "FEEDBACK", r.state * 2^6 + r.error) EXCEPT
            !.data = BE16(Encode(r.angle, -FourPi, FourPi, Steps16))
                       \o BE16(Encode(r.velocity, -m.profile.velocity, m.profile.velocity, Steps16))
                       \o BE16(Encode(r.torque, -m.profile.torque, m.profile.torque, Steps16))
                       \o BE16(r.temperature)]
    [] r.kind = "fault" ->
         [ToHost(m, "FAULT", 0) EXCEPT !.data = LE32(r.fault) \o LE32(r.warning)]
    [] r.kind = "param" ->
         [ToHost(m, "READ_PARAM", 0) EXCEPT !.data = LE16(r.index) \o <<0, 0>> \o LE32(r.payload)]
    [] r.kind = "mcu_id" -> [ToHost(m, "INFO", 0) EXCEPT !.data = r.mcu]

ReportMIT(m, r, mode) ==
  CASE r.kind = "feedback" ->
         LET torque == Encode(r.torque, -m.profile.torque, m.profile.torque, Steps12)
             velocity == Encode(r.velocity, -MITVelocity, MITVelocity, Steps12) IN
         MitFrame(0, m.host,
                  <<m.id>> \o BE16(Encode(r.angle, -MITAngle, MITAngle, Steps16))
                    \o <<velocity \div 16, (velocity % 16) * 16 + torque \div 256, torque % 256>>
                    \o BE16(r.temperature))
    [] r.kind = "param" -> MitFrame(mode, m.id, LE16(r.index) \o <<0, 0>> \o LE32(r.payload))

\* A read is answered with the parameter it names, and so is a MIT write.
Reply(m, obeyed) ==
  {r \in Reports :
     CASE obeyed.cmd = "read" \/ (obeyed.cmd = "write" /\ m.protocol = "MIT") ->
            r.kind = "param" /\ r.index = obeyed.raws[1]
       [] obeyed.cmd = "ping" -> r.kind = "mcu_id"
       [] OTHER -> r.kind = "feedback"}

ReportFrame(m, r, cmd) == IF m.protocol = "MIT" THEN ReportMIT(m, r, IF cmd = "write" THEN 4 ELSE 3)
                                                ELSE ReportPrivate(m, r)

-----------------------------------------------------------------------------
(* Actions                                                                 *)

\* A command of a Motor object.
Send(m, r) ==
  /\ sent < MaxRequests /\ Len(toMotors) + Len(fromMotors) < MaxUnderWay
  /\ toMotors' = Append(toMotors, [motor |-> m, request |-> r, frame |-> EncodeRequest(m, r)])
  /\ sent' = sent + 1
  /\ UNCHANGED <<motors, fromMotors, status, reported>>

\* The motor it is addressed to obeys it and answers.
Obey(m) ==
  /\ toMotors # <<>>
  /\ LET message == Head(toMotors)
         obeyed  == Understood(m, message.frame) IN
       /\ Addressed(m, message.frame)
       /\ \E r \in Reply(m, obeyed) :
            fromMotors' = Append(fromMotors, [from |-> m, answers |-> message.request, report |-> r,
                                              frame |-> ReportFrame(m, r, obeyed.cmd)])
  /\ toMotors' = Tail(toMotors)
  /\ UNCHANGED <<motors, status, reported, sent>>

\* An unprompted report: feedback, or a fault a PRIVATE motor has.
Announce(m) ==
  /\ sent < MaxRequests /\ Len(toMotors) + Len(fromMotors) < MaxUnderWay
  /\ \E r \in Reports :
       /\ r.kind \in IF m.protocol = "MIT" THEN {"feedback"} ELSE {"feedback", "fault"}
       /\ fromMotors' = Append(fromMotors, [from |-> m, answers |-> NoRequest, report |-> r,
                                            frame |-> ReportFrame(m, r, "none")])
  /\ sent' = sent + 1
  /\ UNCHANGED <<motors, toMotors, status, reported>>

\* A frame m's reports may be mistaken for: m's identifier and a type or mode m uses.
LooksLikeReport(m, frame) ==
  IF m.protocol = "MIT"
    THEN /\ ~frame.eff /\ frame.dlc = 8 /\ Mode(frame) \in {0, 3, 4}
         /\ m.id \in {frame.data[1], frame.id % 2^8}
    ELSE /\ frame.eff /\ (frame.id \div 2^8) % 2^8 = m.id
         /\ frame.id \div 2^24 \in {0, 2, 17, 21}

ASSUME StrayAssumption ==
  \A s \in Strays : /\ WellFormed(s.frame) /\ (~s.frame.eff => s.about = s.frame.id % 2^8)
                    /\ \A bus \in Configurations : \A m \in bus : ~LooksLikeReport(m, s.frame)

\* A frame that is no motor's report.
Stray(s) ==
  /\ sent < MaxRequests /\ Len(toMotors) + Len(fromMotors) < MaxUnderWay
  /\ fromMotors' = Append(fromMotors, [from |-> Nothing, answers |-> NoRequest,
                                       report |-> [kind |-> "stray", about |-> s.about],
                                       frame |-> s.frame])
  /\ sent' = sent + 1
  /\ UNCHANGED <<motors, toMotors, status, reported>>

\* process_frame, without its lock, counter and wait.
Processed(m, frame) ==
  CASE ~IsFeedbackFrame(m, frame) -> status[m]
    [] IsFeedbackFrame(m, frame) /\ Parses(m, frame) ->
         [ParseFeedback(m, frame, status[m]) EXCEPT !.connected = TRUE]
    [] IsFeedbackFrame(m, frame) /\ ~Parses(m, frame) ->
         [status[m] EXCEPT !.unknown = @ + 1]

\* process_shared_socket: one frame, shown to every Motor.
Receive ==
  /\ fromMotors # <<>>
  /\ LET message == Head(fromMotors) IN
       /\ status' = [m \in motors |-> Processed(m, message.frame)]
       /\ reported' = IF message.from \in motors
                        THEN [reported EXCEPT ![message.from][message.report.kind] = message.report]
                        ELSE reported
  /\ fromMotors' = Tail(fromMotors)
  /\ UNCHANGED <<motors, toMotors, sent>>

Idle == sent = MaxRequests /\ toMotors = <<>> /\ fromMotors = <<>> /\ UNCHANGED vars

Next ==
  \/ \E m \in motors : (\E r \in Requests : Send(m, r)) \/ Obey(m) \/ Announce(m)
  \/ \E s \in Strays : Stray(s)
  \/ Receive
  \/ Idle

Spec == Init /\ [][Next]_vars

-----------------------------------------------------------------------------
(* What the protocols promise                                              *)

Near(x, y, tolerance) == x - y \in -tolerance .. tolerance

\* One step of a scale, and one unit for each truncation.
Quantum(range, steps) == (2 * range) \div steps + 2

\* MIT angles are encoded with 4 pi for a motor that counts to 12.57.
AngleTolerance(m) == Quantum(FourPi, Steps16) + AngleRange(m) - FourPi

Target(x, range) == Clamp(x, -range, range)

SetpointsKept(m, r, raws) ==
  LET T(raw, x, range, steps) ==
        Near(Decode(raw, -range, range, steps), Target(x, range), Quantum(range, steps))
      G(raw, x, top) == Near(Decode(raw, 0, top, Steps(m)), Clamp(x, 0, top), top \div Steps(m) + 2) IN
  /\ T(raws[1], r.torque, m.profile.torque, Steps(m))
  /\ Near(Decode(raws[2], -AngleRange(m), AngleRange(m), Steps16), Target(r.pos, FourPi),
          AngleTolerance(m))
  /\ T(raws[3], r.vel, VelocityRange(m), Steps(m))
  /\ G(raws[4], r.kp, MaxKp)
  /\ G(raws[5], r.kd, MaxKd)

TorqueBits(m, r) == Encode(r.torque, -m.profile.torque, m.profile.torque, Steps12)

\* The byte of a special command that these twelve bits end in, if the other bits are 1.
SpecialByte(m, r) == TorqueBits(m, r) - 15 * 2^8

\* A MIT control frame with every other setpoint at its maximum or above, and a torque that
\* is below its own maximum by at most 0.1 % of its range, has the bytes of a special command.
Collides(m, r) ==
  /\ m.protocol = "MIT"
  /\ r.pos >= FourPi /\ r.vel >= MITVelocity /\ r.kp >= MaxKp /\ r.kd >= MaxKd
  /\ SpecialByte(m, r) \in DOMAIN SpecialMIT

Means(m, r, obeyed) ==
  CASE r.cmd = "control" -> IF Collides(m, r)
                              THEN obeyed = Obeyed(SpecialMIT[SpecialByte(m, r)], <<>>)
                              ELSE obeyed.cmd = "control" /\ SetpointsKept(m, r, obeyed.raws)
    [] r.cmd = "write"   -> obeyed.cmd = "write" /\ obeyed.raws = <<ParamId[r.param]>> \o r.raw
    [] r.cmd = "read"    -> obeyed.cmd = "read" /\ obeyed.raws = <<ParamId[r.param]>>
    [] r.cmd = "ping" /\ m.protocol = "MIT" -> obeyed = Obeyed("read", <<ParamId.RUN_MODE>>)
    [] OTHER             -> obeyed = Obeyed(r.cmd, <<>>)

\* Of all motors on the bus, only the one a command is for takes its frame.  It takes it
\* as that command, with the parameter and payload intact and every setpoint within one
\* step of its scale: enable, stop, clear_error and set_zero are told apart although they
\* share frame types or payloads.  The exception is a MIT control frame that Collides: the
\* motor takes it as clear_error, enable, stop or set_zero, by its torque, and not as
\* control.  No other control frame is taken for a special command.
RequestsUnderstood ==
  \A i \in DOMAIN toMotors :
    LET message == toMotors[i] IN
    /\ \A m \in motors : Addressed(m, message.frame) <=> m = message.motor
    /\ Means(message.motor, message.request, Understood(message.motor, message.frame))

\* The protocols as module Motor sees them.
Private == INSTANCE Protocol WITH Protocol <- "PRIVATE"
Mit     == INSTANCE Protocol WITH Protocol <- "MIT"

Abstract(report) == [kind |-> report.kind]

\* A report on its way is accepted and parsed by the Motor of its sender alone, with the
\* FrameType that module Protocol gives its kind, and with the type the command waits
\* for if it answers one: no command of either protocol waits for a frame that never
\* comes.
RepliesRecognised ==
  \A i \in DOMAIN fromMotors :
    LET message == fromMotors[i]
        m       == message.from
        type    == ResponseType(m, message.frame) IN
    m \in motors =>
      /\ \A n \in motors : IsFeedbackFrame(n, message.frame) <=> n = m
      /\ Parses(m, message.frame)
      /\ type = FrameType[IF m.protocol = "MIT" THEN Mit!ResponseType(Abstract(message.report))
                                                ELSE Private!ResponseType(Abstract(message.report))]
      /\ message.answers.cmd \in Waits => type = Expected(m, message.answers.cmd)

FeedbackKept(m, s, r) ==
  /\ Near(s.angle, r.angle, Quantum(AngleRange(m), Steps16))
  /\ Near(s.velocity, r.velocity, Quantum(VelocityRange(m), Steps(m)))
  /\ Near(s.torque, r.torque, Quantum(m.profile.torque, Steps(m)))
  /\ s.temperature = r.temperature
  /\ IF m.protocol = "MIT" THEN s.state = MotorState.RUN
                           ELSE s.state = r.state /\ s.error = r.error

\* get_status() is what the motor last reported, of each kind of report, whatever other
\* kinds came in between: within one step of the scale, and exact where it is not scaled.
\* A MIT motor's state is RUN, whatever it is.
StatusIsReported ==
  \A m \in motors :
    LET s == status[m]
        last == reported[m] IN
    /\ last["feedback"] # Nothing => FeedbackKept(m, s, last["feedback"])
    /\ last["param"] # Nothing => s.index = last["param"].index /\ s.payload = last["param"].payload
    /\ last["mcu_id"] # Nothing => s.mcu = last["mcu_id"].mcu
    /\ last["fault"] # Nothing => s.fault = last["fault"].fault /\ s.warning = last["fault"].warning

\* A frame changes the status of no Motor but its sender's, and one that is no report
\* changes nothing but the count of unknown frames of the motor it names: two protocols
\* may share a bus.  The other nodes send nothing that has the identifier and the type or
\* mode of a report (StrayAssumption): such a frame the parsers would take for one.
OnlyFromSender ==
  [][\A m \in motors :
       status'[m] # status[m] =>
         LET message == Head(fromMotors) IN
         \/ message.from = m
         \/ /\ message.report.kind = "stray" /\ message.report.about = m.id
            /\ status'[m] = [status[m] EXCEPT !.unknown = @ + 1]]_vars

\* A status and a report as module Motor has them.
StateName(code) == CASE code = MotorState.RESET -> "RESET" [] code = MotorState.RUN -> "RUN"
                     [] OTHER -> "CALIBRATION"

View(s) == [state |-> StateName(s.state), value |-> <<s.index, s.payload>>,
            connected |-> s.connected, unknown |-> s.unknown]

Seen(report) ==
  CASE report.kind = "feedback" -> [kind |-> "feedback", state |-> StateName(report.state)]
    [] report.kind = "param" -> [kind |-> "param", value |-> <<report.index, report.payload>>]
    [] OTHER -> Abstract(report)

\* Motor!Refresh.
Refreshed(m, view, frame) ==
  [(IF m.protocol = "MIT" THEN Mit!ParseFeedback(view, frame)
                          ELSE Private!ParseFeedback(view, frame)) EXCEPT !.connected = TRUE]

\* What module Motor takes from module Protocol is what the parsers do: a report received
\* from its bytes changes its sender's status as ParseFeedback says of its meaning.
\* A write's acknowledgement in MIT shows the parameter, one in PRIVATE the state.
ParsesAsProtocol ==
  [][Len(fromMotors') < Len(fromMotors) =>
       LET message == Head(fromMotors)
           m       == message.from IN
       m \in motors =>
         View(status'[m]) = Refreshed(m, View(status[m]), Seen(message.report))]_vars
=============================================================================
