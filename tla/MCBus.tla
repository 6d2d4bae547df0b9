------------------------------- MODULE MCBus --------------------------------
(* A small instance of Bus: boundary values, and identifiers that collide   *)
(* with each other's bytes.                                                 *)
EXTENDS Bus

RS(id, protocol, profile) == [id |-> id, host |-> 253, protocol |-> protocol, profile |-> profile]

\* Motor 8's frames have the bits of a MIT mode 0, and may carry 6 in their first byte.
Buses == {{RS(8, "PRIVATE", Profiles.RS00), RS(6, "MIT", Profiles.RS00)},
          {RS(5, "PRIVATE", Profiles.RS03), RS(6, "PRIVATE", Profiles.RS00)},
          {RS(5, "MIT", Profiles.RS00), RS(6, "MIT", Profiles.RS03)}}

Plain(cmd) == [cmd |-> cmd]

Control(torque, pos, vel, kp, kd) ==
  [cmd |-> "control", torque |-> torque, pos |-> pos, vel |-> vel, kp |-> kp, kd |-> kd]

\* With all else at full scale, 1398 and 1399 of an RS00 and 11980 and 11997 of an RS03 collide.
Calls ==
  {Plain(c) : c \in {"enable", "stop", "clear_error", "set_zero", "ping"}}
    \cup {[cmd |-> "read", param |-> p] : p \in {"RUN_MODE", "LIMIT_SPD"}}
    \cup {[cmd |-> "write", param |-> "RUN_MODE", raw |-> <<0, 0, 0, 5>>],
          [cmd |-> "write", param |-> "LOC_REF", raw |-> <<65, 32, 0, 0>>]}
    \cup {Control(t, 20000, 3300, 6000, 5000) : t \in {-20000, 1397, 1398, 1399, 11980, 11997, 12000}}
    \cup {Control(1398, -20000, 3300, 5000, 5000), Control(1398, 12566, -50, 5000, 5000),
          Control(1398, 12566, 3300, 300, 5000), Control(1398, 12566, 3300, 5000, 17),
          Control(-3, -9000, -4000, -1, 4), Control(5, 1, 0, 0, 0)}

Feedback(state, error, angle, velocity, torque, temperature) ==
  [kind |-> "feedback", state |-> state, error |-> error, angle |-> angle,
   velocity |-> velocity, torque |-> torque, temperature |-> temperature]

Values ==
  {Feedback(0, 33, -12566, -3300, -1400, 0), Feedback(2, 0, -12270, 25, 700, 450)}
    \cup {[kind |-> "param", index |-> i, payload |-> <<1, 2, 3, 4>>] :
            i \in {ParamId[p] : p \in {"RUN_MODE", "LIMIT_SPD", "LOC_REF"}}}
    \cup {[kind |-> "mcu_id", mcu |-> <<6, 2, 3, 4, 5, 6, 7, 8>>],
          [kind |-> "fault", fault |-> <<0, 0, 1, 2>>, warning |-> <<3, 0, 0, 4>>]}

\* An unknown MIT mode, a short MIT frame, another controller's request, and a SAVE_PARAM.
Others ==
  {[about |-> 6, frame |-> MitFrame(5, 6, Zeros)],
   [about |-> 6, frame |-> [MitFrame(0, 6, AllOnesThen(6)) EXCEPT !.dlc = 4]],
   [about |-> 8, frame |-> PrivateFrame("ENABLE", 8, 6, Zeros)],
   [about |-> 8, frame |-> [PrivateFrame("INFO", 6, 8, Zeros) EXCEPT !.id = 22 * 2^24 + 8 * 2^8 + 6]]}
==============================================================================
