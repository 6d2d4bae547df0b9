------------------------------ MODULE FrameQueue ------------------------------
(***************************************************************************)
(* What the buffer between a serial port and the frame parser promises,    *)
(* whatever its indices: while the port is open, bytes go in at the back   *)
(* and leave only at the front and as part of a step that returns a frame, *)
(* the last bytes that leave; at most Bound bytes wait; closing or opening *)
(* the port empties it.                                                    *)
(***************************************************************************)
EXTENDS Naturals, Sequences

CONSTANTS Bound, FrameLen

VARIABLES open, queue, out

queueVars == <<open, queue, out>>

Init == open = TRUE /\ queue = <<>> /\ out = <<>>

Extend == /\ Len(queue') >= Len(queue) /\ Len(queue') <= Bound
          /\ SubSeq(queue', 1, Len(queue)) = queue
          /\ UNCHANGED <<open, out>>

\* k bytes leave, the frame at their end without its two-byte head and tail.
Take(k) == /\ queue' = SubSeq(queue, k + 1, Len(queue))
           /\ out' = Append(out, SubSeq(queue, k - FrameLen + 3, k - 2))
           /\ UNCHANGED open

Switch == open' = ~open /\ queue' = <<>> /\ UNCHANGED out

Next == \/ Extend
        \/ \E k \in FrameLen .. Len(queue) : Take(k)
        \/ Switch

Spec == Init /\ [][Next]_queueVars
===============================================================================
