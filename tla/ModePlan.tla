------------------------------ MODULE ModePlan ------------------------------
(***************************************************************************)
(* The parameter writes that Motor::setup_mode and stop_pp_mode make, in   *)
(* order.  A call is a record [mode, limits].                              *)
(***************************************************************************)
EXTENDS Integers, Sequences

Modes  == {"OPERATION", "POSITION", "SPEED", "CURRENT", "POSITION_CSP"}
Limits == {"LIMIT_CUR", "ACC_RAD", "LIMIT_SPD", "MAX_VEL", "ACC_SET", "DEC_SET"}
Params == {"RUN_MODE"} \cup Limits

\* "STOP_PP" stands for stop_pp_mode, "OTHER" for an integer that is no RunMode.
AllModes == Modes \cup {"OTHER", "STOP_PP"}

Write(p, v) == [param |-> p, value |-> v]

\* Mutant: the speed limit goes to a reference instead.
LimitWritesElsewhere(mode, limits) ==
  CASE mode = "SPEED" -> <<Write("LIMIT_CUR", limits[1]), Write("SPD_REF", limits[2])>>
    [] mode = "POSITION_CSP" -> <<Write("LIMIT_SPD", limits[1])>>
    [] OTHER -> <<>>

\* The limits each mode needs, in the order the code writes them.
LimitWrites(mode, limits) ==
  CASE mode = "SPEED" -> <<Write("LIMIT_CUR", limits[1]), Write("ACC_RAD", limits[2])>>
    [] mode = "POSITION_CSP" -> <<Write("LIMIT_SPD", limits[1])>>
    [] mode = "POSITION" ->
         <<Write("MAX_VEL", limits[1]), Write("ACC_SET", limits[2])>>
           \o IF limits[3] >= 0 THEN <<Write("DEC_SET", limits[3])>> ELSE <<>>
    [] OTHER -> <<>>

\* Mutant: the limits come before the mode they belong to.
PlanModeLast(k) == IF k.mode = "STOP_PP"
                     THEN <<Write("MAX_VEL", 0)>>
                     ELSE LimitWrites(k.mode, k.limits) \o <<Write("RUN_MODE", k.mode)>>

\* Every write a call makes if none fails.
Plan(k) == IF k.mode = "STOP_PP"
             THEN <<Write("MAX_VEL", 0)>>
             ELSE <<Write("RUN_MODE", k.mode)>> \o LimitWrites(k.mode, k.limits)
=============================================================================
