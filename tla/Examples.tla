------------------------------ MODULE Examples ------------------------------
(***************************************************************************)
(* The programs under src/examples/cpp, as what they tell the SDK to do:   *)
(* the protocol and transport, the motors in the order they are set up,    *)
(* the commands of setup_motor, what the loop streams, and how it ends.    *)
(* Targets, status output and sleeps are left out.                         *)
(***************************************************************************)
EXTENDS ModePlan

NoWrite == Write("NONE", 0)

Sync(cmd) == [cmd |-> cmd, write |-> NoWrite]

\* setup_mode as the commands it puts on the wire.
ModeCommands(mode, limits) ==
  LET plan == Plan([mode |-> mode, limits |-> limits])
  IN  [i \in DOMAIN plan |-> [cmd |-> "write", write |-> plan[i]]]

Identify == <<Sync("ping"), Sync("clear_error"), Sync("set_zero")>>

\* Mutant: the motor is enabled before its mode and limits are written.
PrivateSetupEnabledFirst(mode, limits) ==
  Identify \o <<Sync("enable")>> \o ModeCommands(mode, limits)

\* setup_motor of the private examples.
PrivateSetup(mode, limits) ==
  Identify \o ModeCommands(mode, limits) \o <<Sync("enable")>>

PrivateExample(mode, limits, reference) ==
  [protocol  |-> "PRIVATE", transport |-> "socketcan", motors |-> <<5, 6>>,
   setup     |-> PrivateSetup(mode, limits),
   reference |-> reference, loop |-> "control"]

MitExample(setup) ==
  [protocol  |-> "MIT", transport |-> "socketcan", motors |-> <<5, 6>>,
   setup     |-> setup,
   reference |-> "CONTROL", loop |-> "control"]

NoLimits == <<0, 0, 0>>

private_example_csp       == PrivateExample("POSITION_CSP", <<10, 0, 0>>, "LOC_REF")
private_example_current   == PrivateExample("CURRENT", NoLimits, "IQ_REF")
private_example_operation == PrivateExample("OPERATION", NoLimits, "CONTROL")
private_example_position  == PrivateExample("POSITION", <<10, 5, 5>>, "LOC_REF")
private_example_velocity  == PrivateExample("SPEED", <<10, 50, 0>>, "SPD_REF")

private_example_operation_serial ==
  [private_example_operation EXCEPT !.transport = "serial", !.motors = <<5>>]

mit_example_operation == MitExample(Identify \o <<Sync("enable")>>)
mit_example_csp       == MitExample(<<Sync("enable")>>)
mit_example_current   == MitExample(<<Sync("enable")>>)
mit_example_position  == MitExample(<<Sync("enable")>>)
mit_example_velocity  == MitExample(<<Sync("enable")>>)

\* No setup, results ignored, and the transport is never closed.
example_benchmark ==
  [protocol  |-> "PRIVATE", transport |-> "socketcan", motors |-> <<5>>,
   setup     |-> <<>>,
   reference |-> "SPD_REF", loop |-> "benchmark"]

AllPrograms ==
  {private_example_csp, private_example_current, private_example_operation,
   private_example_position, private_example_velocity, private_example_operation_serial,
   mit_example_operation, mit_example_csp, mit_example_current, mit_example_position,
   mit_example_velocity, example_benchmark}
=============================================================================
