----------------------------- MODULE MCSignaling -----------------------------
(* Small instances of Signaling for TLC. *)
EXTENDS Signaling

CONSTANTS t1, t2, t3
=============================================================================
