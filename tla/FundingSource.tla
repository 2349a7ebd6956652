---------------------------- MODULE FundingSource ----------------------------
(***************************************************************************)
(* A verified bank account or a guest's payment instrument, with the       *)
(* captures reserved on it: cs-mail-finance/src/funding.rs, and the state  *)
(* machine of one attempt of cs-mail-finance/src/execution.rs.             *)
(*                                                                         *)
(* Like RequestFinancials, the module has no variables: operators take a   *)
(* source to the source a method leaves behind, and Can... is the method's *)
(* error returns.  A capture is named by its request.                      *)
(***************************************************************************)
EXTENDS FiniteSets, Naturals

CONSTANTS
    Captures,           \* operations that may be reserved on the source
    MaximumUnresolved   \* captures that may be pending at once

ASSUME CapacityAssumption == MaximumUnresolved \in Nat \ {0}

PaymentState == {"Pending", "Settled", "Failed", "Voided", "Reversed"}

Source ==
    [ restricted : BOOLEAN,
      attempts   : [Captures -> PaymentState \cup {"None"}],
      dispatched : SUBSET Captures ]

VerifiedSource ==
    [restricted |-> FALSE, attempts |-> [c \in Captures |-> "None"], dispatched |-> {}]

Unresolved(s) == {c \in Captures : s.attempts[c] = "Pending"}

\* FundingSource::reserve
CanReserve(s, c) ==
    /\ s.attempts[c] = "None"
    /\ ~s.restricted
    /\ Cardinality(Unresolved(s)) < MaximumUnresolved

Reserve(s, c) == [s EXCEPT !.attempts[c] = "Pending"]

\* FundingSource::authorize_dispatch: a capture that was dispatched once may
\* be sent again, a new one needs an unrestricted source.
CanDispatch(s, c) == c \in s.dispatched \/ (~s.restricted /\ s.attempts[c] = "Pending")

\* Mutant: the grant is not stored.
DispatchUnstored(s, c) == s

Dispatch(s, c) == [s EXCEPT !.dispatched = @ \cup {c}]

\* next_state of execution.rs: what one attempt makes of an outcome.
CanAdvance(state, outcome) ==
    \/ outcome = "Pending"
    \/ state = outcome
    \/ state = "Pending" /\ outcome # "Reversed"
    \/ {state, outcome} \subseteq {"Settled", "Reversed"}

Advance(state, outcome) ==
    IF state = "Pending" \/ (state = "Settled" /\ outcome = "Reversed") THEN outcome ELSE state

\* FundingSource::record
CanRecordOutcome(s, c, outcome) ==
    /\ c \in s.dispatched \/ outcome = "Voided"
    /\ s.attempts[c] # "None"
    /\ CanAdvance(s.attempts[c], outcome)

\* A failure or a reversal restricts the source.
RecordOutcome(s, c, outcome) ==
    LET state == Advance(s.attempts[c], outcome)
    IN  [s EXCEPT !.attempts[c] = state,
                  !.restricted = @ \/ state \in {"Failed", "Reversed"}]

\* FundingSource::reverify, with evidence newer than the last.
Reverified(s) == [s EXCEPT !.restricted = FALSE]
=============================================================================
