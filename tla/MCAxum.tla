------------------------------- MODULE MCAxum -------------------------------
(* Small instances of AxumServer for TLC. *)
EXTENDS AxumServer

CONSTANTS r1, r2, r3, r4
=============================================================================
