---------------------------- MODULE MCOrcaMemory ----------------------------
(* Small instances of OrcaMemory for TLC. *)
EXTENDS OrcaMemory

CONSTANTS a1, a2
=============================================================================
