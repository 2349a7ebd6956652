-------------------------- MODULE MCPaymentDispatch --------------------------
(* Instances of PaymentDispatch. *)
EXTENDS PaymentDispatch

EventPairs == {"capture", "refund"} \X Causes
Charge == [r \in Requests |-> 1]
Bond == [r \in Requests |-> 2]
=============================================================================
