------------------------------ MODULE MCActix -------------------------------
(* Small instances of ActixBatcher for TLC. *)
EXTENDS ActixBatcher

CONSTANTS r1, r2, r3, r4
=============================================================================
