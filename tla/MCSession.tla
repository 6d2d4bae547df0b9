------------------------------ MODULE MCSession ------------------------------
(* The programs of the repository as an instance of Session.                *)
EXTENDS Session

Everything == AllPrograms
==============================================================================
