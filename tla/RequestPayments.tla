--------------------------- MODULE RequestPayments ---------------------------
(***************************************************************************)
(* Requests' money under a processor that may report anything it can sign: *)
(* pending, settled, failed, voided and reversed, late, repeated and out   *)
(* of order, interleaved with the settlements the protocol asks for.       *)
(*                                                                         *)
(* Financial execution outlives the request that caused it                 *)
(* (cs-mail-finance/src/request.rs:1): evidence is reconciled without      *)
(* looking at the conversation, so nothing here restrains the settlement   *)
(* but the record itself.  Settlement.tla adds the conversation.           *)
(***************************************************************************)
EXTENDS RequestRecords

vars == <<opened, fin>>

Init ==
    /\ opened = {}
    /\ fin = [r \in Requests |-> NewFinancials]

Open(r) ==
    /\ r \notin opened
    /\ opened' = opened \cup {r}
    /\ UNCHANGED fin

\* One transition settles a request or, when an acceptance opens the other
\* direction too, a request of each direction.
SettleRequests(ending) ==
    /\ DOMAIN ending \subseteq opened
    /\ \A r \in DOMAIN ending : CanSettle(fin[r], ending[r])
    /\ fin' = [r \in Requests |->
                 IF r \in DOMAIN ending THEN Settle(r, fin[r], ending[r]) ELSE fin[r]]
    /\ UNCHANGED opened

RecordEvidence(r, e) ==
    /\ r \in opened
    /\ CanRecord(fin[r], e)
    /\ fin' = [fin EXCEPT ![r] = RecordPayment(r, @, e)]
    /\ UNCHANGED opened

Next ==
    \/ \E r \in Requests : Open(r) \/ \E e \in PaymentEvidence : RecordEvidence(r, e)
    \/ \E S \in SUBSET Requests : \E ending \in [S -> RequestSettlement] : SettleRequests(ending)

Spec == Init /\ [][Next]_vars

-----------------------------------------------------------------------------

\* Every record keeps its shape (RequestFinancials and its enums).
TypeOK ==
    /\ opened \subseteq Requests
    /\ fin \in [Requests -> Financials]
=============================================================================
