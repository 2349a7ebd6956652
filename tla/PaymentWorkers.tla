--------------------------- MODULE PaymentWorkers ---------------------------
(***************************************************************************)
(* What the worker's batches over the deployment's queues have in common   *)
(* (run_utility_payment_batch, run_member_payment_batch and                *)
(* run_annual_distribution_batch of cs-mail-worker/src/lib.rs): the        *)
(* durable items of cs-mail-storage-postgres/src/work.rs, the steps of a   *)
(* worker that executes one, and the processor that the items which are    *)
(* payment attempts are sent to (its rules are                             *)
(* cs-mail-finance/src/simulation.rs).                                     *)
(*                                                                         *)
(* An item that is not an attempt is executed by one transaction.  What an *)
(* item means is the extending module's: it authorizes, confirms or        *)
(* executes it.  As in PaymentDispatch a lease may lapse at any moment and *)
(* a claim's token is its holder.                                          *)
(***************************************************************************)
EXTENDS Naturals

CONSTANTS
    Items,          \* durable work
    Operations,     \* the items that are payment attempts
    Workers,
    None,           \* no holder, no item, no record
    MaxFaults       \* bound: outages, lost answers, crashes, lapsed leases and resumptions

ASSUME WorkersAssumption ==
    /\ Operations \subseteq Items
    /\ None \notin Workers \cup Items
    /\ MaxFaults \in Nat

VARIABLES
    item,       \* item[i]: its status and the holder of its claim
    worker,     \* worker[w]: where w is in its batch
    proc,       \* proc[o]: the outcome the processor has on record
    reversed,   \* attempts the processor reversed
    faults

queue == <<item, worker, proc, reversed, faults>>

Outcome == {"Settled", "Pending", "Failed", "Voided", "Reversed"}
Terminal == {"Settled", "Failed", "Voided"}

WorkItem ==
    [status : {"none", "ready", "running", "blocked", "complete"}, holder : Workers \cup {None}]

Worker ==
    [ step    : {"idle", "authorize", "lookup", "submit", "confirm", "finish"},
      item    : Items \cup {None},
      receipt : Outcome \cup {"unknown"},
      result  : {"none", "complete", "ready", "blocked"} ]

IdleWorker == [step |-> "idle", item |-> None, receipt |-> "unknown", result |-> "none"]

QueueTypeOK ==
    /\ item \in [Items -> WorkItem]
    /\ worker \in [Workers -> Worker]
    /\ proc \in [Operations -> Terminal \cup {"Pending", "unknown"}]
    /\ reversed \subseteq Operations
    /\ faults \in 0..MaxFaults

QueueInit ==
    /\ item = [i \in Items |-> [status |-> "none", holder |-> None]]
    /\ worker = [w \in Workers |-> IdleWorker]
    /\ proc = [o \in Operations |-> "unknown"]
    /\ reversed = {}
    /\ faults = 0

Fault == faults < MaxFaults /\ faults' = faults + 1

\* work.rs, insert: an item is inserted once, under its key.
Enqueued(items) ==
    [i \in Items |-> IF i \in items /\ item[i].status = "none"
                     THEN [item[i] EXCEPT !.status = "ready"] ELSE item[i]]

Unfinished(i) == item[i].status \in {"ready", "running", "blocked"}

-----------------------------------------------------------------------------

Proceed(w, step) == worker' = [worker EXCEPT ![w].step = step]
Conclude(w, result) == worker' = [worker EXCEPT ![w].step = "finish", ![w].result = result]
Answered(w, outcome) == worker' = [worker EXCEPT ![w].step = "confirm", ![w].receipt = outcome]

\* Mutant: work whose holder stopped is not claimed again.
ClaimOnce(w, i) ==
    /\ worker[w].step = "idle"
    /\ item[i].status = "ready"
    /\ item' = [item EXCEPT ![i] = [status |-> "running", holder |-> w]]
    /\ worker' = [worker EXCEPT ![w] = [IdleWorker EXCEPT !.step = "authorize", !.item = i]]
    /\ UNCHANGED <<proc, reversed, faults>>

\* work.rs, claim: ready work, or running work whose lease has lapsed.  That it
\* lapses under a live worker is a fault.
Claim(w, i) ==
    /\ worker[w].step = "idle"
    /\ \/ item[i].status = "ready" /\ UNCHANGED faults
       \/ item[i].status = "running" /\ worker[item[i].holder].item # i /\ UNCHANGED faults
       \/ item[i].status = "running" /\ worker[item[i].holder].item = i /\ Fault
    /\ item' = [item EXCEPT ![i] = [status |-> "running", holder |-> w]]
    /\ worker' = [worker EXCEPT ![w] = [IdleWorker EXCEPT !.step = "authorize", !.item = i]]
    /\ UNCHANGED <<proc, reversed>>

\* The processor or the engine does not answer, or earlier commands are pending.
Unavailable(w) ==
    /\ worker[w].step \in {"authorize", "lookup", "submit", "confirm"}
    /\ Fault
    /\ Conclude(w, "ready")
    /\ UNCHANGED <<item, proc, reversed>>

\* reconcile: what the processor has on record, or else a submission.
Lookup(w) ==
    LET o == worker[w].item
    IN  /\ worker[w].step = "lookup"
        /\ IF proc[o] = "unknown" THEN Proceed(w, "submit") ELSE Answered(w, proc[o])
        /\ UNCHANGED <<item, proc, reversed, faults>>

\* Mutant: an answer that is lost counts as a failed payment.
SubmitLostFails(w, outcome) ==
    LET o == worker[w].item
    IN  /\ worker[w].step = "submit"
        /\ proc' = [proc EXCEPT ![o] = IF @ = "unknown" THEN outcome ELSE @]
        /\ \/ Answered(w, proc'[o]) /\ UNCHANGED faults
           \/ Answered(w, "Failed") /\ Fault
        /\ UNCHANGED <<item, reversed>>

\* simulation.rs, submit: a recorded attempt keeps its record; the answer may
\* be lost.
Submit(w, outcome) ==
    LET o == worker[w].item
    IN  /\ worker[w].step = "submit"
        /\ IF proc[o] # "unknown"
           THEN Answered(w, proc[o]) /\ UNCHANGED <<proc, faults>>
           ELSE /\ proc' = [proc EXCEPT ![o] = outcome]
                /\ \/ Answered(w, outcome) /\ UNCHANGED faults
                   \/ Conclude(w, "ready") /\ Fault
        /\ UNCHANGED <<item, reversed>>

\* pending_outcome, and a failed transaction.
ResultOf(recorded, outcome) ==
    IF ~recorded \/ outcome = "Pending" THEN "ready"
    ELSE IF outcome = "Failed" THEN "blocked" ELSE "complete"

\* work.rs, finish: only the current claim is acknowledged.
Finish(w) ==
    LET i == worker[w].item
    IN  /\ worker[w].step = "finish"
        /\ item' = IF item[i] = [status |-> "running", holder |-> w]
                   THEN [item EXCEPT ![i] = [status |-> worker[w].result, holder |-> None]]
                   ELSE item
        /\ worker' = [worker EXCEPT ![w] = IdleWorker]
        /\ UNCHANGED <<proc, reversed, faults>>

Crash(w) ==
    /\ worker[w].step # "idle"
    /\ Fault
    /\ worker' = [worker EXCEPT ![w] = IdleWorker]
    /\ UNCHANGED <<item, proc, reversed>>

\* Host administration: resume_work.
Resume(i) ==
    /\ item[i].status = "blocked"
    /\ Fault
    /\ item' = [item EXCEPT ![i].status = "ready"]
    /\ UNCHANGED <<worker, proc, reversed>>

\* simulation.rs, resolve and reversal.
Resolve(o, outcome) ==
    /\ proc[o] = "Pending"
    /\ proc' = [proc EXCEPT ![o] = outcome]
    /\ UNCHANGED <<item, worker, reversed, faults>>

Reverse(o) ==
    /\ proc[o] = "Settled" /\ o \notin reversed
    /\ reversed' = reversed \cup {o}
    /\ UNCHANGED <<item, worker, proc, faults>>

\* The steps that leave everything but the queue and the processor alone; the
\* first group is what a running worker does next.
TransportStep(w) ==
    \/ Lookup(w) \/ Finish(w)
    \/ \E outcome \in {"Settled", "Pending", "Failed"} : Submit(w, outcome)

Disturbance ==
    \/ \E w \in Workers : Unavailable(w) \/ Crash(w)
    \/ \E i \in Items : Resume(i)
    \/ \E o \in Operations : Reverse(o)
=============================================================================
