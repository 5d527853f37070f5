--------------------------- MODULE MCExecutionSlots ---------------------------
(***************************************************************************)
(* A small instance of the dispatch slots for TLC.                          *)
(***************************************************************************)
EXTENDS ExecutionSlotsProperties

=============================================================================
