---------------------------- MODULE MCBindingLife ----------------------------
(* Instances of BindingLife small enough for TLC: the faults each run has. *)
EXTENDS BindingLife

AbortFaults   == {"abort"}
LedgerFaults  == {"append", "torn"}
TornFaults    == {"torn"}
CorruptFaults == {"corrupt"}
==============================================================================
