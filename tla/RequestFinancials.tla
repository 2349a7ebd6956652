-------------------------- MODULE RequestFinancials --------------------------
(***************************************************************************)
(* The money of one request: cs-mail-finance/src/request.rs, with the six  *)
(* ledger accounts of cs-mail-ledger that its postings touch.              *)
(*                                                                         *)
(* The module has no variables: a value of Financials is what the struct   *)
(* RequestFinancials holds, and every method of the struct that changes it *)
(* is an operator from a record to the record it leaves behind, with its   *)
(* error returns as a predicate (Can...).  RequestPayments and Settlement  *)
(* keep one such record per request and turn the operators into actions.   *)
(*                                                                         *)
(* books is the request's own column of the ledger.  ProcessorClearing,    *)
(* ProcessingRevenue and CorporateLossClearing are shared accounts in the  *)
(* code; their balance is the sum of the columns, and no transfer looks at *)
(* it, so the column loses nothing.                                        *)
(***************************************************************************)
EXTENDS Integers

CONSTANTS
    Requests,           \* request identifiers
    EventIds,           \* identifiers of the processor's signed events
    ProcessingCharge,   \* C of each request's terms
    Collateral          \* S of each request's terms

\* RequestFinancials::new refuses an empty capture; the terms fix C and S.
ASSUME ContractAssumption ==
    /\ ProcessingCharge \in [Requests -> Nat]
    /\ Collateral \in [Requests -> Nat]
    /\ \A r \in Requests : ProcessingCharge[r] + Collateral[r] > 0

-----------------------------------------------------------------------------

CaptureStatus == {"Pending", "CancellationRequested", "FundingFinalized", "Voided", "Reversed"}
RefundStatus == {"None", "Pending", "Confirmed"}
RequestSettlement == {"Accepted", "Rejected", "Expired", "Cancelled"}
PaymentOutcome == {"Pending", "Settled", "Failed", "Voided", "Reversed"}
PaymentEvidence == [id : EventIds, op : {"capture", "refund"}, outcome : PaymentOutcome]

Account == {"ProcessorClearing", "RequestEscrow", "RefundPayable",
            "ProgramClearing", "ProcessingRevenue", "CorporateLossClearing"}

Financials ==
    [ capture      : CaptureStatus,
      refund       : RefundStatus,
      refundAmount : Nat,
      settlement   : RequestSettlement \cup {"None"},
      events       : SUBSET PaymentEvidence,
      books        : [Account -> Int],
      forfeiture   : {"None", "Recorded", "Held"} ]

CaptureAmount(r) == ProcessingCharge[r] + Collateral[r]

NewFinancials ==
    [ capture      |-> "Pending",
      refund       |-> "None",
      refundAmount |-> 0,
      settlement   |-> "None",
      events       |-> {},
      books        |-> [a \in Account |-> 0],
      forfeiture   |-> "None" ]

FundingFinalized(f) == f.capture \in {"FundingFinalized", "Reversed"}

\* LedgerView::apply moves the amount; its overdraft refusal is the invariant
\* NoOverdraft of the modules that use this one.
Transfer(books, from, to, amount) ==
    [books EXCEPT ![from] = @ - amount, ![to] = @ + amount]

-----------------------------------------------------------------------------
(***************************************************************************)
(* Settlement: the obligation a request's outcome creates.                 *)
(***************************************************************************)

\* A refund of nothing is no refund, and a second one for the same request
\* is the first one.
CreateRefund(f, amount) ==
    IF amount = 0 \/ f.refund # "None"
    THEN f
    ELSE [f EXCEPT !.refund = "Pending",
                   !.refundAmount = amount,
                   !.books = Transfer(@, "RequestEscrow", "RefundPayable", amount)]

CanSettle(f, s) ==
    IF f.settlement = "None"
    THEN s = "Cancelled" \/ FundingFinalized(f)
    ELSE f.settlement = s

SettleUnfunded(f) ==
    [f EXCEPT !.settlement = "Cancelled",
              !.capture = IF @ = "Voided" THEN @ ELSE "CancellationRequested"]

SettleInFull(r, f, s) ==
    CreateRefund([f EXCEPT !.settlement = s], CaptureAmount(r))

SettleExpired(r, f) ==
    CreateRefund([f EXCEPT !.settlement = "Expired",
                           !.books = Transfer(@, "RequestEscrow", "ProcessingRevenue",
                                              ProcessingCharge[r])],
                 Collateral[r])

\* Mutant: the forfeiture never looks at a reversal.
SettleRejectedUnreviewed(r, f) ==
    [f EXCEPT !.settlement = "Rejected",
              !.books = Transfer(Transfer(@, "RequestEscrow", "ProcessingRevenue",
                                          ProcessingCharge[r]),
                                 "RequestEscrow", "ProgramClearing", Collateral[r]),
              !.forfeiture = IF Collateral[r] = 0 THEN @ ELSE "Recorded"]

\* The forfeiture of a capture that was reversed before the rejection asks
\* for review, which records its lot as held.
SettleRejected(r, f) ==
    [f EXCEPT !.settlement = "Rejected",
              !.books = Transfer(Transfer(@, "RequestEscrow", "ProcessingRevenue",
                                          ProcessingCharge[r]),
                                 "RequestEscrow", "ProgramClearing", Collateral[r]),
              !.forfeiture = IF Collateral[r] = 0 THEN @
                             ELSE IF f.capture = "Reversed" THEN "Held" ELSE "Recorded"]

Settle(r, f, s) ==
    CASE f.settlement = s                        -> f
      [] f.settlement # s /\ s = "Rejected"      -> SettleRejected(r, f)
      [] f.settlement # s /\ s = "Expired"       -> SettleExpired(r, f)
      [] f.settlement # s /\ s = "Accepted"      -> SettleInFull(r, f, s)
      [] f.settlement # s /\ s = "Cancelled"     ->
            IF FundingFinalized(f) THEN SettleInFull(r, f, s) ELSE SettleUnfunded(f)

-----------------------------------------------------------------------------
(***************************************************************************)
(* Evidence of the processor, in whatever order it arrives.                *)
(***************************************************************************)

\* Mutant: a capture that settles late is not refunded.
CaptureSettledKept(r, f) ==
    IF FundingFinalized(f) THEN f
    ELSE [f EXCEPT !.capture = "FundingFinalized",
                   !.books = Transfer(@, "ProcessorClearing", "RequestEscrow", CaptureAmount(r))]

\* A capture that settles after its request was cancelled is refunded.
CaptureSettled(r, f) ==
    LET funded == [f EXCEPT !.capture = "FundingFinalized",
                            !.books = Transfer(@, "ProcessorClearing", "RequestEscrow",
                                               CaptureAmount(r))]
    IN  IF FundingFinalized(f) THEN f
        ELSE IF f.settlement = "Cancelled" THEN CreateRefund(funded, CaptureAmount(r))
        ELSE funded

\* Mutants: the request stays unsettled; a late void is applied.
CaptureVoidedUnsettled(f) == IF FundingFinalized(f) THEN f ELSE [f EXCEPT !.capture = "Voided"]
CaptureVoidedLate(f) == [f EXCEPT !.capture = "Voided", !.settlement = "Cancelled"]

CaptureVoided(f) ==
    IF FundingFinalized(f) THEN f
    ELSE [f EXCEPT !.capture = "Voided", !.settlement = "Cancelled"]

\* Mutant: a second report of the reversal is booked again.
CaptureReversedAgain(r, f) ==
    [f EXCEPT !.capture = "Reversed",
              !.books = Transfer(@, "CorporateLossClearing", "ProcessorClearing",
                                 CaptureAmount(r)),
              !.forfeiture = IF f.settlement = "Rejected" /\ Collateral[r] > 0
                             THEN "Held" ELSE @]

CaptureReversed(r, f) ==
    IF f.capture = "Reversed" THEN f
    ELSE [f EXCEPT !.capture = "Reversed",
                   !.books = Transfer(@, "CorporateLossClearing", "ProcessorClearing",
                                      CaptureAmount(r)),
                   !.forfeiture = IF f.settlement = "Rejected" /\ Collateral[r] > 0
                                  THEN "Held" ELSE @]

RefundSettled(f) ==
    IF f.refund = "Pending"
    THEN [f EXCEPT !.refund = "Confirmed",
                   !.books = Transfer(@, "RefundPayable", "ProcessorClearing", f.refundAmount)]
    ELSE f

\* The evidence names an operation of this request, an outcome its kind can
\* have, and an event identity not used for other evidence.
CanRecord(f, e) ==
    /\ e.op = "refund" => f.refund # "None" /\ e.outcome # "Voided"
    /\ \A old \in f.events : old.id = e.id => old = e
    /\ \/ e \in f.events
       \/ e.outcome = "Reversed" => e.op = "capture" /\ FundingFinalized(f)

Reconcile(r, f, e) ==
    CASE e.op = "capture" /\ e.outcome = "Settled"              -> CaptureSettled(r, f)
      [] e.op = "capture" /\ e.outcome \in {"Voided", "Failed"} -> CaptureVoided(f)
      [] e.op = "capture" /\ e.outcome = "Reversed"             -> CaptureReversed(r, f)
      [] e.op = "refund"  /\ e.outcome = "Settled"              -> RefundSettled(f)
      [] OTHER                                                  -> f

RecordPayment(r, f, e) ==
    IF e \in f.events THEN f
    ELSE [Reconcile(r, f, e) EXCEPT !.events = @ \cup {e}]

\* record_payment reports a capture it voids; the request that was preparing
\* on it is then cancelled in the same transition.
VoidsCapture(f, e) ==
    /\ e \notin f.events
    /\ e.op = "capture" /\ e.outcome \in {"Voided", "Failed"}
    /\ ~FundingFinalized(f)

-----------------------------------------------------------------------------
(***************************************************************************)
(* The check a stored record passes when it is read back (TryFrom of       *)
(* StoredRequestFinancials).  A record that fails it can never be loaded   *)
(* again, so no later evidence could be applied to the request.            *)
(***************************************************************************)

HasEvidence(f, op, outcome) ==
    \E e \in f.events : e.op = op /\ e.outcome = outcome

StoredCaptureValid(f) ==
    CASE f.capture = "Pending"               -> f.settlement = "None"
      [] f.capture = "CancellationRequested" -> f.settlement = "Cancelled"
      [] f.capture = "FundingFinalized"      -> HasEvidence(f, "capture", "Settled")
      [] f.capture = "Voided"                ->
            /\ f.settlement = "Cancelled"
            /\ \/ HasEvidence(f, "capture", "Voided")
               \/ HasEvidence(f, "capture", "Failed")
      [] f.capture = "Reversed"              ->
            /\ HasEvidence(f, "capture", "Settled")
            /\ HasEvidence(f, "capture", "Reversed")

StoredRefundValid(r, f) ==
    f.refund # "None" =>
        /\ FundingFinalized(f)
        /\ \/ f.settlement \in {"Accepted", "Cancelled"} /\ f.refundAmount = CaptureAmount(r)
           \/ f.settlement = "Expired" /\ f.refundAmount = Collateral[r]
        /\ f.refund = "Confirmed" => HasEvidence(f, "refund", "Settled")

\* Every recorded event names an operation the record still has.
StoredEventsValid(f) ==
    \A e \in f.events : e.op = "refund" => f.refund # "None"

StoredValid(r, f) ==
    StoredCaptureValid(f) /\ StoredRefundValid(r, f) /\ StoredEventsValid(f)

-----------------------------------------------------------------------------
(***************************************************************************)
(* What holds of every record that settlements and evidence can produce,   *)
(* stated per record for the modules that keep one per request.            *)
(***************************************************************************)

\* What a record owes its payer, by what became of the request.
RefundOwed(r, f) ==
    IF ~FundingFinalized(f) THEN 0
    ELSE IF f.settlement \in {"Accepted", "Cancelled"} THEN CaptureAmount(r)
    ELSE IF f.settlement = "Expired" THEN Collateral[r]
    ELSE 0

RefundMatchesOutcome(r, f) ==
    /\ f.refundAmount = RefundOwed(r, f)
    /\ f.refund = "None" <=> RefundOwed(r, f) = 0

BooksMatch(r, f) ==
    LET C      == ProcessingCharge[r]
        S      == Collateral[r]
        funded == IF FundingFinalized(f) THEN C + S ELSE 0
        lost   == IF f.capture = "Reversed" THEN C + S ELSE 0
        kept   == IF f.settlement \in {"Rejected", "Expired"} THEN C ELSE 0
        pooled == IF f.settlement = "Rejected" THEN S ELSE 0
        paid   == IF f.refund = "Confirmed" THEN f.refundAmount ELSE 0
    IN  /\ f.books["RequestEscrow"] = IF f.settlement = "None" THEN funded ELSE 0
        /\ f.books["RefundPayable"] = f.refundAmount - paid
        /\ f.books["ProcessorClearing"] = lost + paid - funded
        /\ f.books["ProcessingRevenue"] = kept
        /\ f.books["ProgramClearing"] = pooled
        /\ f.books["CorporateLossClearing"] = 0 - lost

ForfeitureMatches(r, f) ==
    /\ f.forfeiture # "None" <=> f.settlement = "Rejected" /\ Collateral[r] > 0
    /\ f.capture = "Reversed" => f.forfeiture # "Recorded"
=============================================================================
