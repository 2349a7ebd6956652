--------------------------- MODULE PaymentDispatch ---------------------------
(***************************************************************************)
(* How the provider moves money: the durable work queue                    *)
(* (cs-mail-storage-postgres/src/work.rs), the payment workers             *)
(* (cs-mail-worker/src/lib.rs, run_payment_batch), the grants of the       *)
(* payer's funding source, and the processor they all talk to (its rules   *)
(* are cs-mail-finance/src/simulation.rs, the contract of the trait        *)
(* PaymentProcessor).                                                      *)
(*                                                                         *)
(* A request's conversation is reduced to Open and Settle.  A worker       *)
(* authorizes, asks the processor, records the answer and acknowledges its *)
(* claim in separate steps, so that another worker, a settlement, the      *)
(* processor and a crash come between any two of them.                     *)
(*                                                                         *)
(* Time is abstracted: a retry's delay may be over at once, and a lease    *)
(* may lapse at any moment.  A claim's token is the identity of the        *)
(* claiming worker, which holds one claim at a time: a reclaimed item      *)
(* names another holder.  A batch whose later items wait is several        *)
(* workers.                                                                *)
(***************************************************************************)
EXTENDS RequestRecords, FundingSource

CONSTANTS
    Workers,
    Idle,           \* no holder, no item
    MaxFaults       \* bound: outages, lost answers, crashes, lapsed leases and
                    \* failures of the payer's other payments

Causes == {"submission", "cancellation", "resolution", "reversal"}

ASSUME DispatchAssumption ==
    /\ Captures = Requests
    /\ EventIds = {"capture", "refund"} \X Causes
    /\ Idle \notin Workers
    /\ MaxFaults \in Nat

VARIABLES
    source,     \* the payer's FundingSource
    refused,    \* payment events whose command was refused, for good
    item,       \* item[i]: the durable work item
    worker,     \* worker[w]: where a worker is in run_payment_batch
    proc,       \* proc[o]: the processor's record of an operation
    reversed,   \* captures the processor reversed
    faults

vars == <<opened, fin, source, refused, item, worker, proc, reversed, faults>>

-----------------------------------------------------------------------------

\* A request's payment work is enqueued once for its capture, once for the
\* cancellation of the capture and once for its refund.
Items == Requests \X {"capture", "cancel", "refund"}
Operations == Requests \X {"capture", "refund"}
OperationOf(i) == <<i[1], IF i[2] = "refund" THEN "refund" ELSE "capture">>

NoReceipt == [outcome |-> "unknown"]
Evidence(o, cause, outcome) == [id |-> <<o[2], cause>>, op |-> o[2], outcome |-> outcome]

WorkItem ==
    [status : {"none", "ready", "running", "blocked", "complete"}, holder : Workers \cup {Idle}]

Step == {"idle", "authorize", "lookup", "submit", "cancel", "confirm", "finish"}
Result == {"none", "complete", "ready", "blocked"}

Worker ==
    [ step    : Step,
      item    : Items \cup {Idle},
      receipt : PaymentEvidence \cup {NoReceipt},
      result  : Result ]

IdleWorker == [step |-> "idle", item |-> Idle, receipt |-> NoReceipt, result |-> "none"]

Init ==
    /\ opened = {}
    /\ fin = [r \in Requests |-> NewFinancials]
    /\ source = VerifiedSource
    /\ refused = {}
    /\ item = [i \in Items |-> [status |-> "none", holder |-> Idle]]
    /\ worker = [w \in Workers |-> IdleWorker]
    /\ proc = [o \in Operations |-> NoReceipt]
    /\ reversed = {}
    /\ faults = 0

\* Every fault is charged to one budget.
Fault == faults < MaxFaults /\ faults' = faults + 1

-----------------------------------------------------------------------------
(***************************************************************************)
(* Transitions of a request.  The work they cause commits with them.       *)
(***************************************************************************)

Enqueued(items) == [i \in Items |-> IF i \in items THEN [item[i] EXCEPT !.status = "ready"] ELSE item[i]]

\* Mutant: a refund that evidence creates has no work.
WorkCausedBySettlement(r, before, after) ==
    {<<r, k>> : k \in {k \in {"cancel"} :
        before.capture # "CancellationRequested" /\ after.capture = "CancellationRequested"}}
    \cup {<<r, k>> : k \in {k \in {"refund"} :
        before.settlement = "None" /\ before.refund = "None" /\ after.refund = "Pending"}}

\* RequestFinancialEffects::operations of a change of the request's record.
WorkCausedBy(r, before, after) ==
    {<<r, k>> : k \in {k \in {"cancel"} :
        before.capture # "CancellationRequested" /\ after.capture = "CancellationRequested"}}
    \cup {<<r, k>> : k \in {k \in {"refund"} : before.refund = "None" /\ after.refund = "Pending"}}

\* CreateRequest reserves the capture on the payer's source.
Open(r) ==
    /\ r \notin opened
    /\ CanReserve(source, r)
    /\ opened' = opened \cup {r}
    /\ source' = Reserve(source, r)
    /\ item' = Enqueued({<<r, "capture">>})
    /\ UNCHANGED <<fin, refused, worker, proc, reversed, faults>>

\* Mutant: the funding is not looked at.
SettleRequestUnfunded(r, s) ==
    /\ r \in opened
    /\ fin[r].settlement = "None"
    /\ fin' = [fin EXCEPT ![r] = Settle(r, @, s)]
    /\ item' = Enqueued(WorkCausedBy(r, fin[r], fin'[r]))
    /\ UNCHANGED <<opened, source, refused, worker, proc, reversed, faults>>

SettleRequest(r, s) ==
    /\ r \in opened
    /\ fin[r].settlement = "None"
    /\ CanSettle(fin[r], s)
    /\ fin' = [fin EXCEPT ![r] = Settle(r, @, s)]
    /\ item' = Enqueued(WorkCausedBy(r, fin[r], fin'[r]))
    /\ UNCHANGED <<opened, source, refused, worker, proc, reversed, faults>>

\* RecordPayment of e, a command whose identity is the event: what it did
\* the first time is its outcome for ever.
SourceAccepts(r, e) == e.op = "capture" => CanRecordOutcome(source, r, e.outcome)
Recordable(r, e) ==
    <<r, e>> \notin refused /\ (e \in fin[r].events \/ (CanRecord(fin[r], e) /\ SourceAccepts(r, e)))

ConfirmPayment(r, e) ==
    IF Recordable(r, e)
    THEN /\ fin' = [fin EXCEPT ![r] = RecordPayment(r, @, e)]
         /\ source' = IF e.op = "capture" /\ e \notin fin[r].events
                      THEN RecordOutcome(source, r, e.outcome) ELSE source
         /\ item' = Enqueued(WorkCausedBy(r, fin[r], fin'[r]))
         /\ UNCHANGED refused
    ELSE /\ refused' = refused \cup {<<r, e>>}
         /\ UNCHANGED <<fin, source, item>>

-----------------------------------------------------------------------------
(***************************************************************************)
(* The payment worker.                                                     *)
(***************************************************************************)

\* work.rs, claim: ready work, or running work whose lease has lapsed.  That
\* the lease lapses under a live worker is a fault.
Claim(w, i) ==
    /\ worker[w].step = "idle"
    /\ \/ item[i].status = "ready" /\ UNCHANGED faults
       \/ item[i].status = "running" /\ worker[item[i].holder].item # i /\ UNCHANGED faults
       \/ item[i].status = "running" /\ worker[item[i].holder].item = i /\ Fault
    /\ item' = [item EXCEPT ![i] = [status |-> "running", holder |-> w]]
    /\ worker' = [worker EXCEPT ![w] = [IdleWorker EXCEPT !.step = "authorize", !.item = i]]
    /\ UNCHANGED <<opened, fin, source, refused, proc, reversed>>

\* The worker proceeds to a step, or to the acknowledgement of a result.
Proceed(w, step) == worker' = [worker EXCEPT ![w].step = step]
Conclude(w, result) == worker' = [worker EXCEPT ![w].step = "finish", ![w].result = result]
Answered(w, e) == worker' = [worker EXCEPT ![w].step = "confirm", ![w].receipt = e]

\* Mutant: a cancelled capture is nothing to be done.
PendingPaymentUncancelled(o) ==
    LET f == fin[o[1]]
    IN  IF (IF o[2] = "capture" THEN f.capture ELSE f.refund) = "Pending"
        THEN "submit" ELSE "none"

\* RequestFinancials::pending_payment
PendingPayment(o) ==
    LET f == fin[o[1]]
    IN  CASE o[2] = "capture" /\ f.capture = "Pending"               -> "submit"
          [] o[2] = "capture" /\ f.capture = "CancellationRequested" -> "cancel"
          [] o[2] = "refund" /\ f.refund = "Pending"                 -> "submit"
          [] OTHER                                                   -> "none"

\* authorize_request_dispatch: what is still to be done, and for a capture the
\* grant of its source.  A restricted source is retried later.
Authorize(w) ==
    LET o == OperationOf(worker[w].item)
        pending == PendingPayment(o)
        capture == o[2] = "capture"
    IN  /\ worker[w].step = "authorize"
        /\ \/ pending = "none" /\ Conclude(w, "complete") /\ UNCHANGED source
           \/ pending = "cancel" /\ Proceed(w, "cancel") /\ UNCHANGED source
           \/ /\ pending = "submit"
              /\ IF capture /\ ~CanDispatch(source, o[1])
                 THEN Conclude(w, "ready") /\ UNCHANGED source
                 ELSE /\ Proceed(w, "lookup")
                      /\ source' = IF capture THEN Dispatch(source, o[1]) ELSE source
        /\ UNCHANGED <<opened, fin, refused, item, proc, reversed, faults>>

\* The processor does not answer, or the engine does not: its transaction fails,
\* commands received earlier are pending, or one of them carries a later time
\* than this worker's batch.
Unavailable(w) ==
    /\ worker[w].step \in {"authorize", "lookup", "submit", "cancel", "confirm"}
    /\ Fault
    /\ Conclude(w, "ready")
    /\ UNCHANGED <<opened, fin, source, refused, item, proc, reversed>>

Lookup(w) ==
    LET receipt == proc[OperationOf(worker[w].item)]
    IN  /\ worker[w].step = "lookup"
        /\ IF receipt = NoReceipt THEN Proceed(w, "submit") ELSE Answered(w, receipt)
        /\ UNCHANGED <<opened, fin, source, refused, item, proc, reversed, faults>>

\* The processor records e for o; the answer may be lost.
Respond(w, o, e) ==
    /\ proc' = [proc EXCEPT ![o] = e]
    /\ \/ Answered(w, e) /\ UNCHANGED faults
       \/ Conclude(w, "ready") /\ Fault

\* simulation.rs, submit: a recorded operation keeps its record, and a refund
\* needs a settled capture.  The directive decides the outcome of a new one.
Submit(w, outcome) ==
    LET o == OperationOf(worker[w].item)
    IN  /\ worker[w].step = "submit"
        /\ IF proc[o] # NoReceipt
           THEN Answered(w, proc[o]) /\ UNCHANGED <<proc, faults>>
           ELSE IF o[2] = "refund" /\ proc[<<o[1], "capture">>].outcome # "Settled"
           THEN Conclude(w, "blocked") /\ UNCHANGED <<proc, faults>>
           ELSE Respond(w, o, Evidence(o, "submission", outcome))
        /\ UNCHANGED <<opened, fin, source, refused, item, reversed>>

\* Mutant: a settled capture is voided too.
VoidsOnCancelAny(o) == TRUE

\* simulation.rs, cancel_capture: an unknown capture is recorded as voided, so
\* that a late submission of it charges nothing.
VoidsOnCancel(o) == proc[o] = NoReceipt \/ proc[o].outcome = "Pending"

Cancel(w) ==
    LET o == OperationOf(worker[w].item)
    IN  /\ worker[w].step = "cancel"
        /\ IF VoidsOnCancel(o) THEN Respond(w, o, Evidence(o, "cancellation", "Voided"))
           ELSE Answered(w, proc[o]) /\ UNCHANGED <<proc, faults>>
        /\ UNCHANGED <<opened, fin, source, refused, item, reversed>>

\* pending_outcome and storage_failure: the result of a recorded, or refused,
\* answer.
ResultOf(r, e) ==
    IF Recordable(r, e)
    THEN CASE e.outcome = "Pending" -> "ready"
           [] e.outcome = "Failed"  -> "blocked"
           [] OTHER                 -> "complete"
    ELSE IF CanRecord(fin[r], e) THEN "ready" ELSE "blocked"

Confirm(w) ==
    LET r == worker[w].item[1]
        e == worker[w].receipt
    IN  /\ worker[w].step = "confirm"
        /\ ConfirmPayment(r, e)
        /\ Conclude(w, ResultOf(r, e))
        /\ UNCHANGED <<opened, proc, reversed, faults>>

\* work.rs, finish: only the current claim is acknowledged.
Finish(w) ==
    LET i == worker[w].item
    IN  /\ worker[w].step = "finish"
        /\ item' = IF item[i] = [status |-> "running", holder |-> w]
                   THEN [item EXCEPT ![i] = [status |-> worker[w].result, holder |-> Idle]]
                   ELSE item
        /\ worker' = [worker EXCEPT ![w] = IdleWorker]
        /\ UNCHANGED <<opened, fin, source, refused, proc, reversed, faults>>

Crash(w) ==
    /\ worker[w].step # "idle"
    /\ Fault
    /\ worker' = [worker EXCEPT ![w] = IdleWorker]
    /\ UNCHANGED <<opened, fin, source, refused, item, proc, reversed>>

\* Host administration: resume_work and reverify_funding.
Resume(i) ==
    /\ item[i].status = "blocked"
    /\ item' = [item EXCEPT ![i].status = "ready"]
    /\ UNCHANGED <<opened, fin, source, refused, worker, proc, reversed, faults>>

\* Another payment of the same payer fails or is reversed (record of the source).
RestrictElsewhere ==
    /\ ~source.restricted
    /\ Fault
    /\ source' = [source EXCEPT !.restricted = TRUE]
    /\ UNCHANGED <<opened, fin, refused, item, worker, proc, reversed>>

Reverify ==
    /\ source.restricted
    /\ source' = Reverified(source)
    /\ UNCHANGED <<opened, fin, refused, item, worker, proc, reversed, faults>>

-----------------------------------------------------------------------------
(***************************************************************************)
(* The processor on its own: simulation.rs, resolve and reversal.          *)
(***************************************************************************)

Resolve(o, outcome) ==
    /\ proc[o].outcome = "Pending"
    /\ outcome = "Voided" => o[2] = "capture"
    /\ proc' = [proc EXCEPT ![o] = Evidence(o, "resolution", outcome)]
    /\ UNCHANGED <<opened, fin, source, refused, item, worker, reversed, faults>>

Reverse(r) ==
    /\ proc[<<r, "capture">>].outcome = "Settled"
    /\ reversed' = reversed \cup {r}
    /\ UNCHANGED <<opened, fin, source, refused, item, worker, proc, faults>>

\* The notification of a reversal, as often as the processor repeats it.
NotifyReversal(r) ==
    /\ r \in reversed
    /\ ConfirmPayment(r, Evidence(<<r, "capture">>, "reversal", "Reversed"))
    /\ UNCHANGED <<opened, worker, proc, reversed, faults>>

WorkerStep(w) ==
    \/ Authorize(w) \/ Lookup(w) \/ Cancel(w) \/ Confirm(w) \/ Finish(w)
    \/ \E outcome \in {"Settled", "Pending", "Failed"} : Submit(w, outcome)

Next ==
    \/ \E r \in Requests :
          \/ Open(r) \/ Reverse(r) \/ NotifyReversal(r)
          \/ \E s \in RequestSettlement : SettleRequest(r, s)
    \/ \E w \in Workers :
          \/ \E i \in Items : Claim(w, i)
          \/ WorkerStep(w) \/ Unavailable(w) \/ Crash(w)
    \/ \E i \in Items : Resume(i)
    \/ RestrictElsewhere \/ Reverify
    \/ \E o \in Operations, outcome \in {"Settled", "Failed", "Voided"} : Resolve(o, outcome)

Spec == Init /\ [][Next]_vars

\* Workers run in a loop over every queue, claim in the order of availability
\* and stop only by a crash; the processor resolves what it left pending and
\* repeats its notifications.  The settlement of requests is nobody's duty here.
Fairness ==
    /\ \A w \in Workers : WF_vars(WorkerStep(w))
    /\ \A i \in Items : SF_vars(\E w \in Workers : Claim(w, i))
    /\ \A o \in Operations : WF_vars(\E outcome \in {"Settled", "Failed", "Voided"} : Resolve(o, outcome))
    /\ \A r \in Requests : WF_vars(NotifyReversal(r))

FairSpec == Spec /\ Fairness

-----------------------------------------------------------------------------

\* What the engine has on record is what the processor did: a capture it holds
\* as funded was charged, one it holds as voided was not and never will be, a
\* refund is confirmed only if it was paid, and one that is owed can be paid.
RecordsMatchProcessor ==
    \A r \in Requests :
        LET charged  == proc[<<r, "capture">>].outcome
            refunded == proc[<<r, "refund">>].outcome
        IN  /\ FundingFinalized(fin[r]) => charged = "Settled"
            /\ fin[r].capture = "Reversed" => r \in reversed
            /\ fin[r].capture = "Voided" => charged \in {"Voided", "Failed"}
            /\ fin[r].refund = "Confirmed" <=> \E e \in fin[r].events :
                  e.op = "refund" /\ e.outcome = "Settled"
            /\ fin[r].refund = "Confirmed" => refunded = "Settled"
            /\ refunded # "unknown" => fin[r].refund # "None"

\* The request's record and its payer's source, two state machines that take
\* the same evidence in one transaction, stay in step, so that the stricter one
\* never refuses what a worker brings: the commands refused are reversals.
SourceMatchesFinancials ==
    /\ \A r \in opened :
          source.attempts[r] \in
              CASE fin[r].capture \in {"Pending", "CancellationRequested"} -> {"Pending"}
                [] fin[r].capture = "FundingFinalized" -> {"Settled"}
                [] fin[r].capture = "Voided" -> {"Voided", "Failed"}
                [] fin[r].capture = "Reversed" -> {"Reversed"}
    /\ \A f \in refused : f[2].outcome = "Reversed"

\* An operation still to be executed always has a work item that is not
\* complete, whatever crashed, lapsed or was answered late.
ObligationHasWork ==
    \A i \in Items :
        i[1] \in opened /\ PendingPayment(OperationOf(i)) # "none" =>
            \E j \in Items : OperationOf(j) = OperationOf(i)
                             /\ item[j].status \in {"ready", "running", "blocked"}

\* The processor holds no charge that was sent without a committed grant of the
\* payer's source, however long ago the grant and however many workers tried.
ChargesAreGranted ==
    \A r \in Requests :
        proc[<<r, "capture">>].outcome \notin {"unknown", "Voided"} => r \in source.dispatched

\* The payer's source is in step with the requests and with the processor.
SourceAgrees == SourceMatchesFinancials /\ ChargesAreGranted

\* Every step is a settlement, a piece of evidence, an opening or nothing to
\* the specification of the payments.
Payments == INSTANCE RequestPayments

PaymentsSpec == Payments!Spec

\* What is owed is executed: a cancelled capture is voided or, when it was too
\* late, charged and then refunded; a refund is paid unless the processor
\* declines it for good.
ObligationsExecuted ==
    \A r \in Requests :
        /\ fin[r].capture = "CancellationRequested" ~> fin[r].capture # "CancellationRequested"
        /\ fin[r].refund = "Pending" ~>
              fin[r].refund = "Confirmed" \/ proc[<<r, "refund">>].outcome = "Failed"

\* A reversal the processor reports, and keeps reporting, is recorded.
ReversalsRecorded == \A r \in Requests : r \in reversed ~> fin[r].capture = "Reversed"
=============================================================================
