----------------------------- MODULE ResponseSlot -----------------------------
(***************************************************************************)
(* What the wait of a synchronous command promises, whatever the locks:    *)
(* one command at a time arms the slot for one frame type, and counts as   *)
(* acknowledged only if the slot was answered after it armed it.           *)
(***************************************************************************)
CONSTANTS Clients, NoClient, FrameTypes

VARIABLES owner, type, answered, acked

slotVars == <<owner, type, answered, acked>>

Init == owner = NoClient /\ type = "none" /\ answered = FALSE /\ acked = {}

Free == owner' = NoClient /\ type' = "none" /\ answered' = FALSE

Arm(c, t) == /\ owner = NoClient
             /\ owner' = c /\ type' = t /\ answered' = FALSE
             /\ UNCHANGED acked

\* A frame of the armed type has been processed.
Answer == /\ owner # NoClient
          /\ answered' = TRUE
          /\ UNCHANGED <<owner, type, acked>>

\* The owner sees the answer.
Complete(c) == owner = c /\ answered /\ Free /\ acked' \in {acked, acked \cup {c}}

\* The owner gives up: its wait expired or its request was not sent.
Abandon(c) == owner = c /\ Free /\ UNCHANGED acked

\* A new call begins, or the answer turns out to be for something else.
Forget(c) == acked' = acked \ {c} /\ UNCHANGED <<owner, type, answered>>

Next == \/ \E c \in Clients :
             \/ \E t \in FrameTypes : Arm(c, t)
             \/ Complete(c) \/ Abandon(c) \/ Forget(c)
        \/ Answer

Spec == Init /\ [][Next]_slotVars
===============================================================================
