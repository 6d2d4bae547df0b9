------------------------------ MODULE Bindings ------------------------------
(***************************************************************************)
(* pyrobstride: Python threads that share one Motor.  A thread runs Python *)
(* code only with the interpreter's lock (GIL).  Some bindings give it up  *)
(* for the duration of the call (py::call_guard<gil_scoped_release>), the  *)
(* others keep it, also while they wait for command_mutex_, motor_mutex_   *)
(* or a reply.  One thread runs receive_all.                               *)
(***************************************************************************)
EXTENDS Integers

CONSTANTS
  Threads,    \* the Python threads that command the motor
  Rx,         \* the Python thread that calls receive_all
  None,
  Calls,      \* the calls explored
  MaxCalls    \* bound: calls of each thread

\* "command" stands for enable, stop, clear_error, set_zero and ping, "control" for the
\* four send_*_control, "setup" for setup_mode, whose writes lock one by one and of which
\* one is taken, and "close" for the transport's disconnect().
Ops == {"command", "setup", "write", "read", "control", "status", "close"}

ASSUME BindingsAssumption ==
  /\ Rx \notin Threads /\ None \notin Threads \cup {Rx}
  /\ Calls \subseteq Ops
  /\ MaxCalls \in Nat

VARIABLES
  gil,            \* the thread that holds the interpreter lock
  commandMutex,   \* owner of command_mutex_
  motorMutex,     \* owner of motor_mutex_
  pc, op,         \* where each thread is, and in which call
  calls,          \* calls made
  open,           \* the transport is connected
  wire,           \* replies under way
  received        \* response_received_

vars == <<gil, commandMutex, motorMutex, pc, op, calls, open, wire, received>>

All == Threads \cup {Rx}

\* Mutant: receive_all is bound without a call guard.
ReleasesWithoutReceive == {"command", "setup"}

\* The calls bound with a call guard.
Releases == {"command", "setup", "receive_all"}

\* The calls that lock command_mutex_, if only after an overrun, and those that then
\* wait for a reply.
Locking == {"command", "setup", "write", "read", "control"}
Waiting == {"command", "read", "control"}

Critical == {"locked", "prepared", "waiting"}

Places == {"wants_gil", "python", "call", "copying", "dispatch", "returning", "done"}
            \cup Critical

\* A mutex is owned by the thread inside its critical section, and by no other.
LocksOwned ==
  /\ \A t \in Threads : commandMutex = t <=> pc[t] \in Critical
  /\ \A t \in All : motorMutex = t <=> pc[t] \in {"copying", "dispatch"}

TypeOK ==
  /\ LocksOwned
  /\ gil \in All \cup {None}
  /\ commandMutex \in Threads \cup {None} /\ motorMutex \in All \cup {None}
  /\ pc \in [All -> Places]
  /\ op \in [All -> Ops \cup {"receive_all"}]
  /\ calls \in [Threads -> Nat]
  /\ open \in BOOLEAN /\ received \in BOOLEAN
  /\ wire \in Nat

Init ==
  /\ gil = None /\ commandMutex = None /\ motorMutex = None
  /\ pc = [t \in All |-> "wants_gil"]
  /\ op = [t \in All |-> IF t = Rx THEN "receive_all" ELSE "status"]
  /\ calls = [t \in Threads |-> 0]
  /\ open = TRUE /\ wire = 0 /\ received = FALSE

Goto(t, place) == pc' = [pc EXCEPT ![t] = place]

-----------------------------------------------------------------------------
(* The interpreter (external) and the call guards                          *)

\* Also the end of a call guard, which takes the GIL back.
TakeGil(t) ==
  /\ pc[t] \in {"wants_gil", "returning"} /\ gil = None
  /\ gil' = t
  /\ Goto(t, "python")
  /\ UNCHANGED <<commandMutex, motorMutex, op, calls, open, wire, received>>

GilDuring(t, o) == IF o \in Releases THEN None ELSE t

Call(t) ==
  /\ t \in Threads /\ pc[t] = "python" /\ calls[t] < MaxCalls
  /\ \E o \in Calls :
       /\ op' = [op EXCEPT ![t] = o]
       /\ gil' = GilDuring(t, o)
  /\ calls' = [calls EXCEPT ![t] = @ + 1]
  /\ Goto(t, "call")
  /\ UNCHANGED <<commandMutex, motorMutex, open, wire, received>>

\* A thread has made its calls, or receive_all has returned.
Finish(t) ==
  /\ pc[t] = "python"
  /\ IF t = Rx THEN ~open ELSE calls[t] = MaxCalls
  /\ gil' = None
  /\ Goto(t, "done")
  /\ UNCHANGED <<commandMutex, motorMutex, op, calls, open, wire, received>>

\* The end of a call: a guard wants the GIL back, and a thread that kept it goes on or
\* is switched out.
Return(t) ==
  IF op[t] \in Releases
    THEN Goto(t, "returning") /\ UNCHANGED gil
    ELSE \/ Goto(t, "python") /\ UNCHANGED gil
         \/ Goto(t, "wants_gil") /\ gil' = None

-----------------------------------------------------------------------------
(* The calls                                                               *)

\* Mutant: the lock is not waited for.
LockUnguarded(t) ==
  /\ t \in Threads /\ pc[t] = "call" /\ op[t] \in Locking
  /\ commandMutex' = t
  /\ Goto(t, "locked")
  /\ UNCHANGED <<gil, motorMutex, op, calls, open, wire, received>>

Lock(t) ==
  /\ t \in Threads /\ pc[t] = "call" /\ op[t] \in Locking
  /\ commandMutex = None
  /\ commandMutex' = t
  /\ Goto(t, "locked")
  /\ UNCHANGED <<gil, motorMutex, op, calls, open, wire, received>>

\* Mutant: the guard takes the GIL back before the lock_guard is gone.
UnlockLate(t) == UNCHANGED commandMutex /\ Return(t)

\* The lock_guard's destructor runs before the call guard's.
Unlock(t) == commandMutex' = None /\ Return(t)

\* The transport is not connected, or the transmit is refused.
Refused(t) ==
  /\ t \in Threads /\ pc[t] \in {"locked", "prepared"} /\ ~open
  /\ Unlock(t)
  /\ UNCHANGED <<motorMutex, op, calls, open, wire, received>>

PrepareWait(t) ==
  /\ t \in Threads /\ pc[t] = "locked" /\ op[t] \in Waiting /\ open /\ motorMutex = None
  /\ received' = FALSE
  /\ Goto(t, "prepared")
  /\ UNCHANGED <<gil, commandMutex, motorMutex, op, calls, open, wire>>

\* A parameter write holds the lock, and does not wait.
TransmitWrite(t) ==
  /\ t \in Threads /\ pc[t] = "locked" /\ op[t] \notin Waiting /\ open
  /\ wire' = wire + 1
  /\ Unlock(t)
  /\ UNCHANGED <<motorMutex, op, calls, open, received>>

\* A control frame within the overrun limit: no lock at all.
TransmitControl(t) ==
  /\ t \in Threads /\ pc[t] = "call" /\ op[t] = "control"
  /\ wire' = IF open THEN wire + 1 ELSE wire
  /\ Return(t)
  /\ UNCHANGED <<commandMutex, motorMutex, op, calls, open, received>>

Transmit(t) ==
  /\ t \in Threads /\ pc[t] = "prepared" /\ open
  /\ wire' = wire + 1
  /\ Goto(t, "waiting")
  /\ UNCHANGED <<gil, commandMutex, motorMutex, op, calls, open, received>>

\* wait_for_response ends, by a reply or by its timeout, once it has motor_mutex_ again.
EndWait(t) ==
  /\ t \in Threads /\ pc[t] = "waiting" /\ motorMutex = None
  /\ Unlock(t)
  /\ UNCHANGED <<motorMutex, op, calls, open, wire, received>>

\* get_status.
LockStatus(t) ==
  /\ t \in Threads /\ pc[t] = "call" /\ op[t] = "status" /\ motorMutex = None
  /\ motorMutex' = t
  /\ Goto(t, "copying")
  /\ UNCHANGED <<gil, commandMutex, op, calls, open, wire, received>>

CopyStatus(t) ==
  /\ t \in Threads /\ pc[t] = "copying"
  /\ motorMutex' = None
  /\ Return(t)
  /\ UNCHANGED <<commandMutex, op, calls, open, wire, received>>

\* transport.disconnect().
Close(t) ==
  /\ t \in Threads /\ pc[t] = "call" /\ op[t] = "close"
  /\ open' = FALSE
  /\ Return(t)
  /\ UNCHANGED <<commandMutex, motorMutex, op, calls, wire, received>>

-----------------------------------------------------------------------------
(* The receive thread                                                      *)

CallReceiveAll ==
  /\ pc[Rx] = "python" /\ open
  /\ gil' = GilDuring(Rx, "receive_all")
  /\ Goto(Rx, "call")
  /\ UNCHANGED <<commandMutex, motorMutex, op, calls, open, wire, received>>

RxFrame ==
  /\ pc[Rx] = "call" /\ open /\ wire > 0 /\ motorMutex = None
  /\ wire' = wire - 1
  /\ motorMutex' = Rx
  /\ Goto(Rx, "dispatch")
  /\ UNCHANGED <<gil, commandMutex, op, calls, open, received>>

\* A read times out and the loop goes on.
RxPoll ==
  /\ pc[Rx] = "call" /\ open /\ wire = 0
  /\ UNCHANGED vars

RxProcessed ==
  /\ pc[Rx] = "dispatch"
  /\ received' = TRUE
  /\ motorMutex' = None
  /\ Goto(Rx, "call")
  /\ UNCHANGED <<gil, commandMutex, op, calls, open, wire>>

\* Mutant: the loop also waits for the frames already under way.
RxExitWhenDrained ==
  /\ pc[Rx] = "call" /\ ~open /\ wire = 0
  /\ Return(Rx)
  /\ UNCHANGED <<commandMutex, motorMutex, op, calls, open, wire, received>>

RxExit ==
  /\ pc[Rx] = "call" /\ ~open
  /\ Return(Rx)
  /\ UNCHANGED <<commandMutex, motorMutex, op, calls, open, wire, received>>

\* A reply is lost on the bus.
Lose ==
  /\ wire > 0
  /\ wire' = wire - 1
  /\ UNCHANGED <<gil, commandMutex, motorMutex, pc, op, calls, open, received>>

ThreadStep(t) == \/ TakeGil(t) \/ Call(t) \/ Finish(t) \/ Lock(t) \/ Refused(t)
                 \/ PrepareWait(t) \/ TransmitWrite(t) \/ TransmitControl(t) \/ Transmit(t)
                 \/ EndWait(t) \/ LockStatus(t) \/ CopyStatus(t) \/ Close(t)

RxStep == TakeGil(Rx) \/ Finish(Rx) \/ CallReceiveAll \/ RxPoll \/ RxFrame \/ RxProcessed \/ RxExit

Done == /\ \A t \in Threads : pc[t] = "done"
        /\ UNCHANGED vars

Next == (\E t \in Threads : ThreadStep(t)) \/ RxStep \/ Lose \/ Done

\* The operating system schedules every thread, a wait times out, and a lock that stays
\* free is taken.
Fairness == (\A t \in Threads : WF_vars(ThreadStep(t))) /\ WF_vars(RxStep)

Spec == Init /\ [][Next]_vars /\ Fairness

-----------------------------------------------------------------------------
(* What the bindings promise                                               *)

\* No thread that waits for the GIL holds a mutex: bindings that keep the GIL do wait for
\* these mutexes, so that one that did the opposite would freeze the interpreter.
NoMutexWhileWaitingForGil ==
  \A t \in All : pc[t] \in {"wants_gil", "returning"} => commandMutex # t /\ motorMutex # t

\* Every call returns to Python, whatever the other threads hold, and also if the motor
\* does not answer.
EveryCallReturns == \A t \in Threads : pc[t] = "call" ~> pc[t] = "python"

\* Once the transport is closed the receive thread ends, so that joining it returns.
ReceiverEnds == ~open ~> pc[Rx] = "done"
=============================================================================
