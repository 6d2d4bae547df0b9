----------------------------- MODULE MCBindings ------------------------------
(* Two Python threads and the receive thread as an instance of Bindings.    *)
EXTENDS Bindings, TLC

CONSTANTS t1, t2

Two == {t1, t2}
==============================================================================
