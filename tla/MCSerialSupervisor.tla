------------------------- MODULE MCSerialSupervisor -------------------------
(***************************************************************************)
(* SerialSupervisor with a tick counter that wraps after a few ticks.      *)
(***************************************************************************)
EXTENDS SerialSupervisor
=============================================================================
