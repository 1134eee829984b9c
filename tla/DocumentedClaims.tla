-------------------------- MODULE DocumentedClaims --------------------------
(***************************************************************************)
(* What the documentation says of the server and the code does not do.     *)
(* The property below is refuted by a run; the README tells what the code  *)
(* does instead.                                                           *)
(***************************************************************************)
EXTENDS Superserve

\* src/lib.rs: "Multiple ONNX sessions run in parallel".  While one session
\* works, the commands of a whole further batch do not wait beside a session
\* that is idle.  The batcher is suspended on the first result instead.
SessionsRunInParallel ==
  ~ /\ phase = "await" /\ Len(commands) >= MaxBatch
    /\ \E v \in Workers : session[v] = "busy"
    /\ \E w \in Workers : session[w] = "idle" /\ Work(w) = << >>
=============================================================================
