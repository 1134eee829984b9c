--------------------------- MODULE MCSuperserve ---------------------------
(***************************************************************************)
(* Small instances of Superserve for TLC.                                  *)
(***************************************************************************)
EXTENDS Superserve, DocumentedClaims

CONSTANTS h1, h2, r1, r2, r3, r4

TwoHandles == {h1, h2}
OneHandle == {h1}

\* r2 goes through the second handle when there is one, the others through
\* the first.
ByHandle == [r \in Requests |-> IF r = r2 /\ h2 \in Handles THEN h2 ELSE h1]
=============================================================================
