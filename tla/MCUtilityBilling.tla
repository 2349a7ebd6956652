-------------------------- MODULE MCUtilityBilling --------------------------
(***************************************************************************)
(* An instance of UtilityBilling for TLC.                                  *)
(***************************************************************************)
EXTENDS UtilityBilling

CONSTANTS w1, w2, bankA, bankB

Offer(collect, start, finish, terms) ==
    [collect |-> collect, start |-> start, finish |-> finish, terms |-> terms]

\* One period.
MCOffers == {Offer(1, 2, 3, "basic")}
MCOperations == {2} \X (1..MaxAttempts)
=============================================================================
