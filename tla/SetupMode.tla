------------------------------ MODULE SetupMode ------------------------------
(***************************************************************************)
(* Motor::setup_mode and stop_pp_mode: sequences of write_parameter calls, *)
(* made by several threads on one Motor.  A write holds command_mutex_     *)
(* only for itself and changes nothing but what is on the bus, so it is    *)
(* one step; setup_mode holds no mutex from one write to the next.         *)
(***************************************************************************)
EXTENDS ModePlan

CONSTANTS
  Clients,   \* application threads
  Calls,     \* the calls the application makes: records [mode, limits]
  Faults,    \* "write_error", "link_down", "lost"
  MaxCalls   \* bound: calls of all threads together

ASSUME CallsAssumption ==
  /\ \A call \in Calls : call.mode \in AllModes /\ call.limits \in [1 .. 3 -> Int]
  /\ Faults \subseteq {"write_error", "link_down", "lost"} /\ MaxCalls \in Nat

VARIABLES
  pc,       \* "idle" or "writing"
  call,     \* the thread's current or last call
  done,     \* writes of that call the transport has taken
  result,   \* what it returned
  calls,    \* calls so far
  link,     \* transport_->is_connected()
  wire,     \* accepted writes on their way to the motor
  ram,      \* the motor's parameters
  lost,     \* history: a write was lost on the bus
  alone,    \* history: no other thread was in a call since this one began
  newest    \* history: the thread whose call began last

vars == <<pc, call, done, result, calls, link, wire, ram, lost, alone, newest>>

NoCall == [mode |-> "OTHER", limits |-> [i \in 1 .. 3 |-> 0]]

Results == {"none", "SUCCESS", "ERR_NACK", "ERR_INVALID_ARGUMENT",
            "ERR_NOT_CONNECTED", "ERR_DISCONNECTED", "ERR_WRITE_FAILED"}

TypeOK ==
  /\ pc \in [Clients -> {"idle", "writing"}]
  /\ call \in [Clients -> Calls \cup {NoCall}]
  /\ done \in [Clients -> 0 .. 4]
  /\ result \in [Clients -> Results]
  /\ calls \in 0 .. MaxCalls /\ link \in BOOLEAN
  /\ DOMAIN ram = Params /\ ram["RUN_MODE"] \in AllModes
  /\ \A p \in Limits : ram[p] \in Int
  /\ \A i \in DOMAIN wire : wire[i].param \in Params
  /\ lost \in BOOLEAN /\ alone \in [Clients -> BOOLEAN] /\ newest \in Clients

\* What the call returns after its last write.
Outcome(k) == IF k.mode = "OTHER" THEN "ERR_INVALID_ARGUMENT" ELSE "SUCCESS"

\* What it returns when a write fails with r: setup_mode hides the reason.
Failure(k, r) == IF k.mode = "STOP_PP" THEN r ELSE "ERR_NACK"

Init ==
  /\ pc = [c \in Clients |-> "idle"] /\ call = [c \in Clients |-> NoCall]
  /\ done = [c \in Clients |-> 0] /\ result = [c \in Clients |-> "none"]
  /\ calls = 0 /\ link = TRUE /\ wire = <<>>
  /\ ram = [p \in Params |-> IF p = "RUN_MODE" THEN "OPERATION" ELSE 0]
  /\ lost = FALSE /\ alone = [c \in Clients |-> TRUE] /\ newest \in Clients

Start(c) ==
  /\ pc[c] = "idle" /\ calls < MaxCalls
  /\ \E k \in Calls : call' = [call EXCEPT ![c] = k]
  /\ pc' = [pc EXCEPT ![c] = "writing"]
  /\ done' = [done EXCEPT ![c] = 0]
  /\ result' = [result EXCEPT ![c] = "none"]
  /\ calls' = calls + 1
  /\ newest' = c
  /\ LET busy == {d \in Clients : pc[d] = "writing"}
     IN  alone' = [d \in Clients |-> IF d = c THEN busy = {} ELSE alone[d] /\ d \notin busy]
  /\ UNCHANGED <<link, wire, ram, lost>>

Return(c, r) == /\ pc' = [pc EXCEPT ![c] = "idle"]
                /\ result' = [result EXCEPT ![c] = r]

\* One write_parameter call goes through.
WriteNext(c) ==
  /\ pc[c] = "writing" /\ link
  /\ LET plan == Plan(call[c]) IN
       /\ wire' = Append(wire, plan[done[c] + 1])
       /\ IF done[c] + 1 = Len(plan) THEN Return(c, Outcome(call[c]))
                                     ELSE UNCHANGED <<pc, result>>
  /\ done' = [done EXCEPT ![c] = @ + 1]
  /\ UNCHANGED <<call, calls, link, ram, lost, alone, newest>>

\* Mutant: a failed limit write is ignored.
IgnoreFailure(c) ==
  /\ pc[c] = "writing"
  /\ ~link \/ "write_error" \in Faults
  /\ Return(c, Outcome(call[c]))
  /\ UNCHANGED <<call, done, calls, link, wire, ram, lost, alone, newest>>

\* The link is down already, the write is refused, or it finds the link gone.
WriteFails(c) ==
  /\ pc[c] = "writing"
  /\ \/ ~link /\ UNCHANGED link /\ Return(c, Failure(call[c], "ERR_NOT_CONNECTED"))
     \/ /\ link /\ "write_error" \in Faults
        /\ UNCHANGED link /\ Return(c, Failure(call[c], "ERR_WRITE_FAILED"))
     \/ /\ link /\ "link_down" \in Faults
        /\ link' = FALSE /\ Return(c, Failure(call[c], "ERR_DISCONNECTED"))
  /\ UNCHANGED <<call, done, calls, wire, ram, lost, alone, newest>>

\* The motor obeys the writes in the order of the bus (external).
Apply ==
  /\ wire # <<>>
  /\ ram' = [ram EXCEPT ![Head(wire).param] = Head(wire).value]
  /\ wire' = Tail(wire)
  /\ UNCHANGED <<pc, call, done, result, calls, link, lost, alone, newest>>

Lose ==
  /\ "lost" \in Faults /\ wire # <<>>
  /\ wire' = Tail(wire)
  /\ lost' = TRUE
  /\ UNCHANGED <<pc, call, done, result, calls, link, ram, alone, newest>>

\* The application has made its calls and the bus is quiet.
Rest == /\ calls = MaxCalls /\ wire = <<>> /\ \A c \in Clients : pc[c] = "idle"
        /\ UNCHANGED vars

Next == \/ \E c \in Clients : Start(c) \/ WriteNext(c) \/ WriteFails(c)
        \/ Apply \/ Lose
        \/ Rest

Spec == Init /\ [][Next]_vars

-----------------------------------------------------------------------------
(* What a setup promises                                                   *)

Settled == wire = <<>> /\ ~lost /\ \A c \in Clients : pc[c] = "idle"

Applied(k) == \A i \in DOMAIN Plan(k) : ram[Plan(k)[i].param] = Plan(k)[i].value

\* Once the bus is quiet and nothing was lost on it, the motor has the complete
\* configuration of the newest call, if that succeeded and no other overlapped it.
SuccessConfigures ==
  Settled /\ alone[newest] /\ result[newest] = "SUCCESS" => Applied(call[newest])

\* A setup that fails halfway is not undone, but its limits never take effect in
\* another mode: once any of its writes got through the motor is in its mode.
ModeBeforeLimits ==
  Settled /\ alone[newest] /\ result[newest] = "ERR_NACK" /\ done[newest] > 0
    => ram["RUN_MODE"] = call[newest].mode

-----------------------------------------------------------------------------
(* What the documentation says and the code does not do                    *)

\* documentation/architecture.md:19: command_mutex_ "Protects sequential commands
\* (like setup_mode()) from being interleaved", so that setups that all succeed
\* leave the motor with the complete configuration of one of them.
SetupsNotInterleaved ==
  Settled /\ (\A c \in Clients : result[c] = "SUCCESS")
    => \E c \in Clients : Applied(call[c])
=============================================================================
