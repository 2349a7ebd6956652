--------------------------- MODULE MCMemberProgram ---------------------------
(***************************************************************************)
(* Instances of MemberProgram for TLC.                                     *)
(***************************************************************************)
EXTENDS MemberProgram, TLC

CONSTANTS w1, m1, m2, l1, y1, y2, c1, bankA, bankB

MCAmount == [l \in Lots |-> 6]
MCPolicy == [l \in Lots |-> 1]
MCBasisPoints == <<3000>>
MCStart == [y \in Years |-> IF y = y1 THEN 0 ELSE 1]
MCCutoff == [y \in Years |-> IF y = y1 THEN 1 ELSE 2]
MCOperations == {PaymentItem(a, n) : a \in Payables, n \in 1..MaxAttempts}
MCItems == MCOperations \cup {AllocateItem(y) : y \in Years} \cup {PrepareItem(a) : a \in Payables}
=============================================================================
