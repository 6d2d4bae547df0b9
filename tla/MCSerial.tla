------------------------------ MODULE MCSerial ------------------------------
(* Small instances of SerialTransport: bodies of two bytes, which may look  *)
(* like the delimiters of a frame.                                           *)
EXTENDS SerialTransport

TwoMessages   == {<<"A", "T">>, <<"2", "CR">>}
FourMessages  == {<<k, k>> : k \in {"1", "2", "3", "4"}}
OneMessage    == {<<"1", "1">>}

\* What the order of the delivered messages rests on holds of these instances.
ASSUME LineAssumption == Unmistakable
=============================================================================
