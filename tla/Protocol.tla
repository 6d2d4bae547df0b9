------------------------------ MODULE Protocol ------------------------------
(***************************************************************************)
(* The ProtocolStrategy as the Motor class sees it: which received frames  *)
(* belong to a motor, what parsing one does to the cached MotorStatus, and *)
(* as which FrameType it answers a pending command.  A frame is abstracted *)
(* to the kind of message its CAN identifier announces and the fields the  *)
(* Motor acts on; packing into bits is left to the codec.                  *)
(***************************************************************************)
CONSTANT Protocol

ASSUME ProtocolAssumption == Protocol \in {"PRIVATE", "MIT"}

FrameTypes == {"INFO", "FEEDBACK", "READ_PARAM", "FAULT"}

MotorStates == {"RESET", "RUN"}

\* Messages a motor can put on the bus.  "other" is a frame with this motor's
\* identifier and a type (PRIVATE) or a mode (MIT) the SDK does not know.
Kinds == {"feedback", "mcu_id", "param", "other"}
           \cup (IF Protocol = "PRIVATE" THEN {"fault"} ELSE {})

\* PRIVATE accepts four types; MIT accepts every mode carrying the motor's id.
IsFeedbackFrame(frame) == Protocol = "PRIVATE" => frame.kind # "other"

\* parse_feedback's return value: FALSE for a message it has no case for.
Parses(frame) == frame.kind # "other"

\* Mutant: the state is taken from the bits of the frame's type.
ParseFeedbackWrongBits(status, frame) == [status EXCEPT !.state = frame.kind]

\* parse_feedback's effect.  The MIT layout carries no motor state, and the
\* parser reports RUN for every feedback frame.
ParseFeedback(status, frame) ==
  CASE frame.kind = "feedback" ->
         [status EXCEPT !.state = IF Protocol = "MIT" THEN "RUN" ELSE frame.state]
    [] frame.kind = "param" ->
         [status EXCEPT !.value = frame.value]
    [] OTHER -> status

\* In MIT the mode-0 identification frame is indistinguishable from feedback.
ResponseType(frame) ==
  CASE frame.kind = "param"  -> "READ_PARAM"
    [] frame.kind = "fault"  -> "FAULT"
    [] frame.kind = "mcu_id" -> IF Protocol = "PRIVATE" THEN "INFO" ELSE "FEEDBACK"
    [] OTHER                 -> "FEEDBACK"

PingResponseType == IF Protocol = "PRIVATE" THEN "INFO" ELSE "READ_PARAM"
=============================================================================
