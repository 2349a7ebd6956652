-------------------------- MODULE MCRequestPayments --------------------------
(***************************************************************************)
(* Instances of RequestPayments for TLC.                                   *)
(***************************************************************************)
EXTENDS RequestPayments, TLC

CONSTANTS r1, r2, e1, e2, e3

MCRequests == {r1, r2}
MCEventIds == {e1, e2, e3}
MCProcessingCharge == [r \in MCRequests |-> 1]
MCCollateral == [r \in MCRequests |-> IF r = r1 THEN 2 ELSE 0]   \* r2 has nothing to forfeit

EventSymmetry == Permutations(MCEventIds)
=============================================================================
