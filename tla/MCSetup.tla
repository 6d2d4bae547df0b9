-------------------------------- MODULE MCSetup --------------------------------
(* Small instances of SetupMode: one call for every branch of setup_mode, with  *)
(* limits that tell the calls apart.                                            *)
EXTENDS SetupMode

Call(mode, a, b, c) == [mode |-> mode, limits |-> <<a, b, c>>]

EveryMode == {Call("OPERATION", 0, 0, 0), Call("CURRENT", 0, 0, 0), Call("SPEED", 1, 2, 0),
              Call("POSITION_CSP", 3, 0, 0), Call("POSITION", 4, 5, 6),
              Call("POSITION", 7, 8, -1), Call("OTHER", 0, 0, 0), Call("STOP_PP", 0, 0, 0)}

TwoSpeeds == {Call("SPEED", 1, 2, 0), Call("SPEED", 3, 4, 0)}
================================================================================
