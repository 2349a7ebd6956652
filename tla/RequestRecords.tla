---------------------------- MODULE RequestRecords ----------------------------
(***************************************************************************)
(* The payment records of requests, and what must hold of them whoever     *)
(* changes them: RequestPayments, where the processor may report anything, *)
(* and PaymentDispatch, where workers ask it.                              *)
(***************************************************************************)
EXTENDS RequestFinancials

VARIABLES
    opened,     \* requests whose create_request has stored a record
    fin         \* fin[r]: the financials of request r

\* A record written by any sequence of settlements and evidence passes the
\* validation it meets when it is read back: the request can still be loaded,
\* and so still be refunded.
StoredRecordLoads == \A r \in Requests : StoredValid(r, fin[r])

\* A funded request that is settled owes exactly what its outcome promises:
\* everything after acceptance or cancellation, S after expiry, nothing after
\* rejection; and before it is settled or funded it owes nothing.  A capture
\* that settles after the cancellation is owed back like any other.
OutcomeSetsRefund == \A r \in Requests : RefundMatchesOutcome(r, fin[r])

\* What the six accounts hold is a function of the statuses, whatever the
\* order in which settlements and evidence came: nothing stays in escrow once
\* the request is settled, a refund leaves the payable account exactly once,
\* and a reversal costs the company the whole capture exactly once.
BooksMatchStatus == \A r \in Requests : BooksMatch(r, fin[r])

\* LedgerView::apply refuses an overdraft of an account that may not go
\* negative and the whole transition with it: no settlement and no evidence
\* the record accepts ever meets that refusal.
NoOverdraft ==
    \A r \in Requests :
        \A a \in {"RequestEscrow", "RefundPayable", "ProcessingRevenue"} :
            fin[r].books[a] >= 0

\* Collateral goes to the member pool exactly when the request was rejected,
\* and only while its capture stands: a reversal, before or after the
\* rejection, leaves the lot held.
ReversedForfeitHeld == \A r \in Requests : ForfeitureMatches(r, fin[r])

\* The outcome of a request is decided once: no later settlement and no
\* evidence, a late void included, replaces it, and the refund it promised
\* neither changes its amount nor returns to pending once confirmed.
SettlementIsFinal ==
    [][\A r \in Requests :
         /\ fin[r].settlement # "None" => fin'[r].settlement = fin[r].settlement
         /\ fin[r].refund # "None" => fin'[r].refundAmount = fin[r].refundAmount
         /\ fin[r].refund = "Confirmed" => fin'[r].refund = "Confirmed"]_<<opened, fin>>
=============================================================================
