--------------------------- MODULE BindingsProofs ---------------------------
(***************************************************************************)
(* The mutexes of a Motor and the GIL, for every number of Python threads. *)
(* TypeOK, which says who owns which mutex, is inductive by itself.        *)
(***************************************************************************)
EXTENDS Bindings, TLAPS

USE BindingsAssumption DEF BindingsAssumption

\* Initially nobody owns anything.
LEMMA InitTypeOK == Init => TypeOK
<1>1. SUFFICES ASSUME Init PROVE TypeOK
  OBVIOUS
<1>2. LocksOwned
  BY <1>1 DEF Init, LocksOwned, All, Critical
<1>3. pc \in [All -> Places] /\ op \in [All -> Ops \cup {"receive_all"}]
  BY <1>1 DEF Init, Places, Ops
<1>4. QED
  BY <1>1, <1>2, <1>3 DEF Init, TypeOK

\* What the end of a call does to the GIL and to the thread's place.
LEMMA ReturnGoesOut ==
  ASSUME NEW t \in All, TypeOK, Return(t)
  PROVE  \E place \in {"returning", "python", "wants_gil"} :
           /\ pc' = [pc EXCEPT ![t] = place]
           /\ gil' \in All \cup {None}
BY DEF Return, Goto, TypeOK

\* A step of a thread that changes neither mutex and stays on one side of both locks.
LEMMA MoveKeepsOwners ==
  ASSUME NEW t \in All, TypeOK, NEW place \in Places,
         pc' = [pc EXCEPT ![t] = place],
         UNCHANGED <<commandMutex, motorMutex>>,
         pc[t] \in Critical <=> place \in Critical,
         pc[t] \in {"copying", "dispatch"} <=> place \in {"copying", "dispatch"}
  PROVE  LocksOwned' /\ pc' \in [All -> Places]
BY DEF TypeOK, LocksOwned, All

\* Leaving the critical section of command_mutex_.
LEMMA UnlockKeepsOwners ==
  ASSUME NEW t \in Threads, TypeOK, pc[t] \in Critical, Unlock(t), UNCHANGED motorMutex
  PROVE  /\ LocksOwned' /\ pc' \in [All -> Places]
         /\ commandMutex' = None /\ gil' \in All \cup {None}
<1>1. t \in All
  BY DEF All
<1>2. PICK place \in {"returning", "python", "wants_gil"} :
        pc' = [pc EXCEPT ![t] = place] /\ gil' \in All \cup {None}
  BY <1>1, ReturnGoesOut DEF Unlock
<1>3. commandMutex = t /\ commandMutex' = None
  BY DEF TypeOK, LocksOwned, Unlock
<1>4. pc' \in [All -> Places]
  BY <1>2 DEF TypeOK, Places
<1>5. ASSUME NEW u \in Threads
      PROVE  commandMutex' = u <=> pc'[u] \in Critical
  <2>1. u \in All
    BY DEF All
  <2>2. CASE u = t
    BY <1>1, <1>2, <1>3, <2>2 DEF TypeOK, Critical
  <2>3. CASE u # t
    BY <1>1, <1>2, <1>3, <2>1, <2>3 DEF TypeOK, LocksOwned
  <2>4. QED
    BY <2>2, <2>3
<1>6. ASSUME NEW u \in All
      PROVE  motorMutex' = u <=> pc'[u] \in {"copying", "dispatch"}
  BY <1>1, <1>2 DEF TypeOK, LocksOwned, Critical
<1>7. QED
  BY <1>2, <1>3, <1>4, <1>5, <1>6 DEF LocksOwned

\* No step of a commanding thread breaks the ownership.
LEMMA ThreadKeepsTypeOK ==
  ASSUME NEW t \in Threads, TypeOK, ThreadStep(t)
  PROVE  TypeOK'
<1>0. t \in All
  BY DEF All
<1>1. CASE TakeGil(t)
  BY <1>0, <1>1, MoveKeepsOwners DEF TakeGil, Goto, TypeOK, Places, Critical
<1>2. CASE Call(t)
  <2>1. gil' \in All \cup {None} /\ op' \in [All -> Ops \cup {"receive_all"}]
    BY <1>0, <1>2 DEF Call, GilDuring, TypeOK
  <2>2. LocksOwned' /\ pc' \in [All -> Places]
    BY <1>0, <1>2, MoveKeepsOwners DEF Call, Goto, Places, Critical
  <2>3. QED
    BY <1>2, <2>1, <2>2 DEF Call, TypeOK
<1>3. CASE Finish(t)
  BY <1>0, <1>3, MoveKeepsOwners DEF Finish, Goto, TypeOK, Places, Critical
<1>4. CASE Lock(t)
  <2>1. pc' = [pc EXCEPT ![t] = "locked"] /\ commandMutex = None /\ commandMutex' = t
    BY <1>4 DEF Lock, Goto
  <2>2. ASSUME NEW u \in Threads
        PROVE  commandMutex' = u <=> pc'[u] \in Critical
    <3>1. u \in All /\ commandMutex # u
      BY <2>1 DEF All
    <3>2. QED
      BY <1>0, <2>1, <3>1 DEF TypeOK, LocksOwned, Critical
  <2>3. ASSUME NEW u \in All
        PROVE  motorMutex' = u <=> pc'[u] \in {"copying", "dispatch"}
    BY <1>0, <1>4, <2>1 DEF Lock, TypeOK, LocksOwned
  <2>4. QED
    BY <1>0, <1>4, <2>1, <2>2, <2>3 DEF Lock, TypeOK, LocksOwned, Places, Critical
<1>5. CASE Refused(t)
  BY <1>5, UnlockKeepsOwners DEF Refused, TypeOK, Critical
<1>6. CASE PrepareWait(t)
  BY <1>0, <1>6, MoveKeepsOwners DEF PrepareWait, Goto, TypeOK, Places, Critical
<1>7. CASE TransmitWrite(t)
  BY <1>7, UnlockKeepsOwners DEF TransmitWrite, TypeOK, Critical
<1>8. CASE TransmitControl(t)
  <2>1. PICK place \in {"returning", "python", "wants_gil"} :
          pc' = [pc EXCEPT ![t] = place] /\ gil' \in All \cup {None}
    BY <1>0, <1>8, ReturnGoesOut DEF TransmitControl
  <2>2. LocksOwned' /\ pc' \in [All -> Places]
    BY <1>0, <1>8, <2>1, MoveKeepsOwners DEF TransmitControl, Places, Critical
  <2>3. QED
    BY <1>8, <2>1, <2>2 DEF TransmitControl, TypeOK
<1>9. CASE Transmit(t)
  <2>1. LocksOwned' /\ pc' \in [All -> Places]
    BY <1>0, <1>9, MoveKeepsOwners DEF Transmit, Goto, Places, Critical
  <2>2. QED
    BY <1>9, <2>1 DEF Transmit, TypeOK
<1>10. CASE EndWait(t)
  <2>1. pc[t] \in Critical /\ Unlock(t)
    BY <1>10 DEF EndWait, Critical
  <2>2. QED
    BY <1>10, <2>1, UnlockKeepsOwners DEF EndWait, TypeOK
<1>11. CASE LockStatus(t)
  <2>1. pc' = [pc EXCEPT ![t] = "copying"] /\ motorMutex = None /\ motorMutex' = t
    BY <1>11 DEF LockStatus, Goto
  <2>2. ASSUME NEW u \in Threads
        PROVE  commandMutex' = u <=> pc'[u] \in Critical
    BY <1>0, <1>11, <2>1 DEF LockStatus, TypeOK, LocksOwned, Critical, All
  <2>3. ASSUME NEW u \in All
        PROVE  motorMutex' = u <=> pc'[u] \in {"copying", "dispatch"}
    BY <1>0, <2>1 DEF TypeOK, LocksOwned, All
  <2>4. QED
    BY <1>0, <1>11, <2>1, <2>2, <2>3 DEF LockStatus, TypeOK, LocksOwned, Places
<1>12. CASE CopyStatus(t)
  <2>1. PICK place \in {"returning", "python", "wants_gil"} :
          pc' = [pc EXCEPT ![t] = place] /\ gil' \in All \cup {None}
    BY <1>0, <1>12, ReturnGoesOut DEF CopyStatus
  <2>2. motorMutex = t /\ motorMutex' = None
    BY <1>0, <1>12 DEF CopyStatus, TypeOK, LocksOwned
  <2>3. ASSUME NEW u \in Threads
        PROVE  commandMutex' = u <=> pc'[u] \in Critical
    BY <1>0, <1>12, <2>1 DEF CopyStatus, TypeOK, LocksOwned, Critical, All
  <2>4. ASSUME NEW u \in All
        PROVE  motorMutex' = u <=> pc'[u] \in {"copying", "dispatch"}
    BY <1>0, <2>1, <2>2 DEF TypeOK, LocksOwned, All
  <2>5. QED
    BY <1>12, <2>1, <2>2, <2>3, <2>4 DEF CopyStatus, TypeOK, LocksOwned, Places
<1>13. CASE Close(t)
  <2>1. PICK place \in {"returning", "python", "wants_gil"} :
          pc' = [pc EXCEPT ![t] = place] /\ gil' \in All \cup {None}
    BY <1>0, <1>13, ReturnGoesOut DEF Close
  <2>2. LocksOwned' /\ pc' \in [All -> Places]
    BY <1>0, <1>13, <2>1, MoveKeepsOwners DEF Close, Places, Critical
  <2>3. QED
    BY <1>13, <2>1, <2>2 DEF Close, TypeOK
<1>14. QED
  BY <1>1, <1>2, <1>3, <1>4, <1>5, <1>6, <1>7, <1>8, <1>9, <1>10, <1>11, <1>12, <1>13
     DEF ThreadStep

\* Nor does a step of the receive thread.
LEMMA RxKeepsTypeOK ==
  ASSUME TypeOK, RxStep
  PROVE  TypeOK'
<1>0. Rx \in All
  BY DEF All
<1>1. CASE TakeGil(Rx)
  BY <1>0, <1>1, MoveKeepsOwners DEF TakeGil, Goto, TypeOK, Places, Critical
<1>2. CASE Finish(Rx)
  BY <1>0, <1>2, MoveKeepsOwners DEF Finish, Goto, TypeOK, Places, Critical
<1>3. CASE CallReceiveAll
  <2>1. gil' \in All \cup {None}
    BY <1>0, <1>3 DEF CallReceiveAll, GilDuring
  <2>2. LocksOwned' /\ pc' \in [All -> Places]
    BY <1>0, <1>3, MoveKeepsOwners DEF CallReceiveAll, Goto, Places, Critical
  <2>3. QED
    BY <1>3, <2>1, <2>2 DEF CallReceiveAll, TypeOK
<1>4. CASE RxPoll
  BY <1>4 DEF RxPoll, vars, TypeOK, LocksOwned
<1>5. CASE RxFrame
  <2>1. pc' = [pc EXCEPT ![Rx] = "dispatch"] /\ motorMutex = None /\ motorMutex' = Rx
    BY <1>5 DEF RxFrame, Goto
  <2>2. ASSUME NEW u \in Threads
        PROVE  commandMutex' = u <=> pc'[u] \in Critical
    BY <1>0, <1>5, <2>1 DEF RxFrame, TypeOK, LocksOwned, Critical, All
  <2>3. ASSUME NEW u \in All
        PROVE  motorMutex' = u <=> pc'[u] \in {"copying", "dispatch"}
    BY <1>0, <2>1 DEF TypeOK, LocksOwned, All
  <2>4. wire' \in Nat
    BY <1>5 DEF RxFrame, TypeOK
  <2>5. QED
    BY <1>0, <1>5, <2>1, <2>2, <2>3, <2>4 DEF RxFrame, TypeOK, LocksOwned, Places
<1>6. CASE RxProcessed
  <2>1. pc' = [pc EXCEPT ![Rx] = "call"] /\ motorMutex = Rx /\ motorMutex' = None
    BY <1>0, <1>6 DEF RxProcessed, Goto, TypeOK, LocksOwned
  <2>2. ASSUME NEW u \in Threads
        PROVE  commandMutex' = u <=> pc'[u] \in Critical
    BY <1>0, <1>6, <2>1 DEF RxProcessed, TypeOK, LocksOwned, Critical, All
  <2>3. ASSUME NEW u \in All
        PROVE  motorMutex' = u <=> pc'[u] \in {"copying", "dispatch"}
    BY <1>0, <2>1 DEF TypeOK, LocksOwned, All
  <2>4. QED
    BY <1>0, <1>6, <2>1, <2>2, <2>3 DEF RxProcessed, TypeOK, LocksOwned, Places
<1>7. CASE RxExit
  <2>1. PICK place \in {"returning", "python", "wants_gil"} :
          pc' = [pc EXCEPT ![Rx] = place] /\ gil' \in All \cup {None}
    BY <1>0, <1>7, ReturnGoesOut DEF RxExit
  <2>2. LocksOwned' /\ pc' \in [All -> Places]
    BY <1>0, <1>7, <2>1, MoveKeepsOwners DEF RxExit, Places, Critical
  <2>3. QED
    BY <1>7, <2>1, <2>2 DEF RxExit, TypeOK
<1>8. QED
  BY <1>1, <1>2, <1>3, <1>4, <1>5, <1>6, <1>7 DEF RxStep

\* TypeOK is an invariant of the bindings: the mutexes have the owners they should.
THEOREM BindingsTypeCorrect == Spec => []TypeOK
<1>1. TypeOK /\ [Next]_vars => TypeOK'
  <2>1. CASE \E t \in Threads : TypeOK /\ ThreadStep(t)
    BY <2>1, ThreadKeepsTypeOK
  <2>2. CASE TypeOK /\ RxStep
    BY <2>2, RxKeepsTypeOK
  <2>3. CASE TypeOK /\ Lose
    BY <2>3 DEF Lose, TypeOK, LocksOwned
  <2>4. CASE TypeOK /\ (Done \/ UNCHANGED vars)
    BY <2>4 DEF Done, vars, TypeOK, LocksOwned
  <2>5. QED
    BY <2>1, <2>2, <2>3, <2>4 DEF Next
<1>2. QED
  BY <1>1, InitTypeOK, PTL DEF Spec

\* Whatever the calls and the threads, no thread waits for the GIL with a mutex of the
\* Motor in its hands.
THEOREM GilIsTakenLast == Spec => []NoMutexWhileWaitingForGil
<1>1. TypeOK => NoMutexWhileWaitingForGil
  <2>1. SUFFICES ASSUME TypeOK, NEW t \in All, pc[t] \in {"wants_gil", "returning"}
                 PROVE  commandMutex # t /\ motorMutex # t
    BY DEF NoMutexWhileWaitingForGil
  <2>2. motorMutex # t
    BY <2>1 DEF TypeOK, LocksOwned
  <2>3. CASE t \in Threads
    BY <2>1, <2>3 DEF TypeOK, LocksOwned, Critical
  <2>4. CASE t = Rx
    BY <2>1, <2>2, <2>4 DEF TypeOK
  <2>5. QED
    BY <2>2, <2>3, <2>4 DEF All
<1>2. QED
  BY <1>1, BindingsTypeCorrect, PTL
=============================================================================
