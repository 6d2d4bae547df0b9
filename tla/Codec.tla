------------------------------- MODULE Codec -------------------------------
(***************************************************************************)
(* ProtocolPrivate and ProtocolMIT at the level of identifiers and bytes.  *)
(*                                                                         *)
(* A frame is [eff, id, dlc, data] with eight bytes of data.  A 32-bit     *)
(* payload is its four bytes, most significant first, as TLC's integers    *)
(* do not hold it.  Physical values are integers in fixed units, mrad,     *)
(* 0.01 rad/s, 0.01 Nm, 0.1 (kp) and 0.001 (kd), in exact arithmetic where *)
(* the code uses floats.                                                   *)
(***************************************************************************)
EXTENDS Integers, Sequences

Byte == 0 .. 255

FrameType == [INFO |-> 0, CONTROL |-> 1, FEEDBACK |-> 2, ENABLE |-> 3, DISABLE |-> 4,
              ZERO_POS |-> 6, READ_PARAM |-> 17, WRITE_PARAM |-> 18, FAULT |-> 21]

MotorState == [RESET |-> 0, CALIBRATION |-> 1, RUN |-> 2]

\* 0x7005, 0x7006, 0x700A, 0x7016, 0x7017
ParamId == [RUN_MODE |-> 28677, IQ_REF |-> 28678, SPD_REF |-> 28682, LOC_REF |-> 28694,
            LIMIT_SPD |-> 28695]

Profiles == [RS00 |-> [torque |-> 1400, velocity |-> 3300],
             RS03 |-> [torque |-> 12000, velocity |-> 3300]]

-----------------------------------------------------------------------------
(* Bytes                                                                   *)

BE16(value) == <<value \div 256, value % 256>>
LE16(value) == <<value % 256, value \div 256>>

\* Mutant: a payload is sent most significant byte first.
LE32AsBE(raw) == raw

LE32(raw) == <<raw[4], raw[3], raw[2], raw[1]>>

Unpack16(msb, lsb) == msb * 256 + lsb
Unpack32(b0, b1, b2, b3) == <<b0, b1, b2, b3>>

-----------------------------------------------------------------------------
(* Scaling: [lo, hi] onto 0 .. steps, truncated                            *)

\* Mutant: a value out of range is scaled as it is.
ClampNot(x, lo, hi) == x

Clamp(x, lo, hi) == IF x < lo THEN lo ELSE IF x > hi THEN hi ELSE x

Encode(x, lo, hi, steps) == ((Clamp(x, lo, hi) - lo) * steps) \div (hi - lo)
Decode(raw, lo, hi, steps) == (raw * (hi - lo)) \div steps + lo

FourPi == 12566
Steps16 == 65535
Steps12 == 4095
Word == 0 .. Steps16
MaxKp == 5000
MaxKd == 5000

\* The MIT code decodes angles with another range than the one it encodes with.
MITAngle == 12570
MITVelocity == 3300

-----------------------------------------------------------------------------
(* PRIVATE                                                                 *)

PackId(type, motor, area) == FrameType[type] * 2^24 + area * 2^8 + motor

GetMotorId(id) == (id \div 2^8) % 2^8
GetMsgType(id) == id \div 2^24

\* Mutant: one bit too low.
UnpackStateShifted(id) == (id \div 2^21) % 4

UnpackState(id) == (id \div 2^22) % 4
UnpackErrorMask(id) == (id \div 2^16) % 2^6

PrivateFrame(type, motor, area, data) ==
  [eff |-> TRUE, id |-> PackId(type, motor, area), dlc |-> 8, data |-> data]

Zeros == <<0, 0, 0, 0, 0, 0, 0, 0>>

First(byte) == [Zeros EXCEPT ![1] = byte]

EncodePrivate(m, r) ==
  LET Plain(type, data) == PrivateFrame(type, m.id, m.host, data) IN
  CASE r.cmd = "enable"      -> Plain("ENABLE", Zeros)
    [] r.cmd = "stop"        -> Plain("DISABLE", Zeros)
    [] r.cmd = "clear_error" -> Plain("DISABLE", First(1))
    [] r.cmd = "set_zero"    -> Plain("ZERO_POS", First(1))
    [] r.cmd = "ping"        -> Plain("INFO", Zeros)
    [] r.cmd = "read"        -> Plain("READ_PARAM", LE16(ParamId[r.param]) \o SubSeq(Zeros, 3, 8))
    [] r.cmd = "write"       -> Plain("WRITE_PARAM",
                                      LE16(ParamId[r.param]) \o <<0, 0>> \o LE32(r.raw))
    [] r.cmd = "control"     ->
         LET t == m.profile.torque  v == m.profile.velocity IN
         PrivateFrame("CONTROL", m.id, Encode(r.torque, -t, t, Steps16),
                      BE16(Encode(r.pos, -FourPi, FourPi, Steps16))
                        \o BE16(Encode(r.vel, -v, v, Steps16))
                        \o BE16(Encode(r.kp, 0, MaxKp, Steps16))
                        \o BE16(Encode(r.kd, 0, MaxKd, Steps16)))

IsFeedbackPrivate(frame, motor) ==
  /\ frame.eff
  /\ GetMotorId(frame.id) = motor
  /\ GetMsgType(frame.id) \in {FrameType[t] : t \in {"FEEDBACK", "FAULT", "READ_PARAM", "INFO"}}

ParsePrivate(frame, status, profile) ==
  LET type == GetMsgType(frame.id)
      d    == frame.data
      Wide(msb, limit) == Decode(Unpack16(d[msb], d[msb + 1]), -limit, limit, Steps16) IN
  CASE type = FrameType.FEEDBACK ->
         [status EXCEPT !.state       = UnpackState(frame.id),
                        !.error       = UnpackErrorMask(frame.id),
                        !.angle       = Wide(1, FourPi),
                        !.velocity    = Wide(3, profile.velocity),
                        !.torque      = Wide(5, profile.torque),
                        !.temperature = Unpack16(d[7], d[8])]
    [] type = FrameType.FAULT ->
         [status EXCEPT !.fault   = Unpack32(d[4], d[3], d[2], d[1]),
                        !.warning = Unpack32(d[8], d[7], d[6], d[5])]
    [] type = FrameType.READ_PARAM ->
         [status EXCEPT !.index   = Unpack16(d[2], d[1]),
                        !.payload = Unpack32(d[8], d[7], d[6], d[5])]
    [] type = FrameType.INFO -> [status EXCEPT !.mcu = d]

ResponseTypePrivate(frame) == GetMsgType(frame.id)

-----------------------------------------------------------------------------
(* MIT                                                                     *)

MitFrame(mode, motor, data) == [eff |-> FALSE, id |-> mode * 2^8 + motor, dlc |-> 8, data |-> data]

Mode(frame) == (frame.id \div 2^8) % 8
RxId(frame) == frame.id % 2^8

AllOnesThen(byte) == [i \in 1 .. 8 |-> IF i = 8 THEN byte ELSE 255]

\* Four 12-bit values in six bytes.
Put12(v, kp, kd, t) ==
  <<v \div 16, (v % 16) * 16 + kp \div 256, kp % 256,
    kd \div 16, (kd % 16) * 16 + t \div 256, t % 256>>

Unpack12Velocity(a, b) == a * 16 + b \div 16
Unpack12Torque(a, b) == (a % 16) * 256 + b

\* The special commands end in 0xFC, 0xFD, 0xFB and 0xFE.
EncodeMIT(m, r) ==
  CASE r.cmd = "enable"      -> MitFrame(0, m.id, AllOnesThen(252))
    [] r.cmd = "stop"        -> MitFrame(0, m.id, AllOnesThen(253))
    [] r.cmd = "clear_error" -> MitFrame(0, m.id, AllOnesThen(251))
    [] r.cmd = "set_zero"    -> MitFrame(0, m.id, AllOnesThen(254))
    [] r.cmd = "ping"        -> MitFrame(3, m.id, LE16(ParamId.RUN_MODE) \o SubSeq(Zeros, 3, 8))
    [] r.cmd = "read"        -> MitFrame(3, m.id, LE16(ParamId[r.param]) \o SubSeq(Zeros, 3, 8))
    [] r.cmd = "write"       -> MitFrame(4, m.id, LE16(ParamId[r.param]) \o <<0, 0>> \o LE32(r.raw))
    [] r.cmd = "control"     ->
         LET t == m.profile.torque IN
         MitFrame(0, m.id,
                  BE16(Encode(r.pos, -FourPi, FourPi, Steps16))
                    \o Put12(Encode(r.vel, -MITVelocity, MITVelocity, Steps12),
                             Encode(r.kp, 0, MaxKp, Steps12),
                             Encode(r.kd, 0, MaxKd, Steps12),
                             Encode(r.torque, -t, t, Steps12)))

\* Mutant: extended frames are not told apart.
IsFeedbackMITExtended(frame, motor) ==
  /\ frame.dlc >= 8
  /\ (Mode(frame) = 0 /\ frame.data[1] = motor) \/ RxId(frame) = motor

IsFeedbackMIT(frame, motor) ==
  /\ ~frame.eff
  /\ frame.dlc >= 8
  /\ (Mode(frame) = 0 /\ frame.data[1] = motor) \/ RxId(frame) = motor

\* Mutant: mode 4, the acknowledgement of a write, is forgotten.
ParsesMITReads(frame, motor) ==
  \/ Mode(frame) = 0 /\ (frame.data[1] = motor \/ RxId(frame) = motor)
  \/ Mode(frame) = 3 /\ RxId(frame) = motor

ParsesMIT(frame, motor) ==
  \/ Mode(frame) = 0 /\ (frame.data[1] = motor \/ RxId(frame) = motor)
  \/ Mode(frame) \in {3, 4} /\ RxId(frame) = motor

ParseMIT(frame, status, profile) ==
  LET d == frame.data IN
  CASE Mode(frame) = 0 /\ d[1] = status.id ->
         [status EXCEPT
            !.angle       = Decode(Unpack16(d[2], d[3]), -MITAngle, MITAngle, Steps16),
            !.velocity    = Decode(Unpack12Velocity(d[4], d[5]), -MITVelocity, MITVelocity, Steps12),
            !.torque      = Decode(Unpack12Torque(d[5], d[6]), -profile.torque, profile.torque,
                                   Steps12),
            !.temperature = Unpack16(d[7], d[8]),
            !.state       = MotorState.RUN]
    [] Mode(frame) = 0 /\ d[1] # status.id -> [status EXCEPT !.mcu = d]
    [] Mode(frame) \in {3, 4} ->
         [status EXCEPT !.index   = Unpack16(d[2], d[1]),
                        !.payload = Unpack32(d[8], d[7], d[6], d[5])]

\* Mutant: mode 3, the reply to a read, is forgotten.
ResponseTypeMITWrites(frame) == IF Mode(frame) = 4 THEN FrameType.READ_PARAM ELSE FrameType.FEEDBACK

ResponseTypeMIT(frame) ==
  IF Mode(frame) \in {3, 4} THEN FrameType.READ_PARAM ELSE FrameType.FEEDBACK
=============================================================================
