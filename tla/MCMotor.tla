------------------------------- MODULE MCMotor -------------------------------
(* Small instances of Motor.  Raw payloads are 0 and 1.                     *)
EXTENDS Motor, TLC

CONSTANTS c1, c2, p1, p2

TwoClients == {c1, c2}
OneClient  == {c1}
OneParam   == {p1}
TwoParams  == {p1, p2}

\* The threads run the same code; every property checked with it is a safety one.
ClientSymmetry == Permutations(Clients)
=============================================================================
