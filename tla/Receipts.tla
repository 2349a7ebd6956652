------------------------------ MODULE Receipts ------------------------------
(***************************************************************************)
(* The durable engine's inbox (cs-mail-storage-postgres/src/ingress.rs):   *)
(* every command, a member's or the provider's own, is first received,     *)
(* which fixes its position, its time and its owners, and processed later, *)
(* by any process, in the order of its owners.  The schedule               *)
(* (cs-mail-storage-postgres/src/lib.rs) turns the deadlines of a request  *)
(* into commands that pass through the same inbox, and the artifact worker *)
(* signs the quotes that later commands wait for.                          *)
(*                                                                         *)
(* A request's conversation is reduced to its lifecycle; money and history *)
(* are in Settlement, and what they refuse is a choice here.  A command    *)
(* received again, or under a known key with other contents, changes       *)
(* nothing.  A lease may lapse at any moment; a claim's token is the       *)
(* identity of the worker that holds it.                                   *)
(***************************************************************************)
EXTENDS Integers, Sequences

CONSTANTS
    Requests,
    Owners,
    OwnersOf,           \* OwnersOf[r]: the personas and accounts of r's two sides
    ClientCommands,     \* the commands members send
    Workers,
    None,               \* no worker, no request
    SubmissionWindow,
    DecisionWindow,
    Skew,               \* how far a process's clock may be behind
    MaxTime,            \* bound: the clock
    LastSend,           \* bound: when members send their last commands
    MaxFaults           \* bound: failed transactions, crashes, lost keys

ScheduledKinds == {"timeout", "expire"}
ClientKinds == {"quote", "create", "submit", "decide"}

ASSUME ReceiptsAssumption ==
    /\ OwnersOf \in [Requests -> (SUBSET Owners) \ {{}}]
    /\ \A c \in ClientCommands :
          /\ DOMAIN c = {"key", "r", "kind", "expected"}
          /\ c.r \in Requests /\ c.kind \in ClientKinds /\ c.expected \in Nat
    /\ None \notin Workers \cup Requests
    /\ SubmissionWindow \in Nat /\ DecisionWindow \in Nat /\ Skew \in Nat
    /\ MaxTime \in Nat /\ LastSend \in Nat /\ MaxFaults \in Nat

VARIABLES
    now,
    log,        \* received commands by position
    conv,       \* conv[r]: the conversation's state
    row,        \* row[r]: the scheduled task of r
    worker,     \* worker[w]: where w is in execute_claimed_schedule
    faults

vars == <<now, log, conv, row, worker, faults>>

-----------------------------------------------------------------------------

Life == {"none", "preparing", "awaiting", "decided", "expired", "cancelled"}
Terminal == {"decided", "expired", "cancelled"}

Conversation ==
    [ life         : Life,
      version      : Nat,                                       \* the request's
      relationship : Nat,                                       \* its version
      deadline     : Nat,
      quote        : {"none", "unsigned", "signed", "blocked"} ]

Failure == {"none", "awaiting", "persistence", "intervention"}

\* A scheduled command's key is its task: the kind and the request.
Keys == {c.key : c \in ClientCommands} \cup (ScheduledKinds \X Requests)

Receipt ==
    [ key      : Keys,
      r        : Requests,
      kind     : ClientKinds \cup ScheduledKinds,
      expected : Nat,
      at       : Nat,
      failure  : Failure,
      outcome  : {"none", "Applied", "Refused"} ]

Row == [kind : ScheduledKinds \cup {"none"}, due : Nat, holder : Workers \cup {None}]
Task(kind, due) == [kind |-> kind, due |-> due, holder |-> None]
NoRow == Task("none", 0)

IdleWorker == [step |-> "idle", r |-> None, kind |-> "none", due |-> 0, at |-> 0, expected |-> 0]
Worker ==
    [ step     : {"idle", "validate", "snapshot", "receive", "complete"},
      r        : Requests \cup {None},
      kind     : ScheduledKinds \cup {"none"},
      due      : Nat,
      at       : Nat,        \* the batch's time
      expected : Nat ]

Init ==
    /\ now = 0
    /\ log = << >>
    /\ conv = [r \in Requests |-> [life |-> "none", version |-> 0, relationship |-> 0,
                                   deadline |-> 0, quote |-> "none"]]
    /\ row = [r \in Requests |-> NoRow]
    /\ worker = [w \in Workers |-> IdleWorker]
    /\ faults = 0

Fault == faults < MaxFaults /\ faults' = faults + 1

-----------------------------------------------------------------------------
(***************************************************************************)
(* Receiving.                                                              *)
(***************************************************************************)

\* What a process reads as the present.
Reading == {t \in 0..now : t >= now - Skew}

\* Mutant: times are stored as read.
CanReceiveAny(at) == TRUE

\* record_received: the log's times never decrease.
CanReceive(at) == \A p \in DOMAIN log : log[p].at <= at

Known(r, key) == \E p \in DOMAIN log : log[p].r = r /\ log[p].key = key

Received(c, at) ==
    Append(log, [key |-> c.key, r |-> c.r, kind |-> c.kind, expected |-> c.expected,
                 at |-> at, failure |-> "none", outcome |-> "none"])

Receive(c, at) ==
    /\ now <= LastSend
    /\ ~Known(c.r, c.key)
    /\ CanReceive(at)
    /\ log' = Received(c, at)
    /\ UNCHANGED <<now, conv, row, worker, faults>>

-----------------------------------------------------------------------------
(***************************************************************************)
(* Processing.                                                             *)
(***************************************************************************)

Pending(p) == log[p].outcome = "none"
Overlap(r, s) == OwnersOf[r] \cap OwnersOf[s] # {}

\* Mutant: an earlier command that failed is passed.
OwnerHeadSkipping(p) ==
    /\ Pending(p)
    /\ log[p].failure # "intervention"
    /\ \A q \in 1..(p - 1) :
          Pending(q) /\ log[q].failure = "none" => ~Overlap(log[q].r, log[p].r)

\* The earliest unresolved command of all its owners.
OwnerHead(p) ==
    /\ Pending(p)
    /\ log[p].failure # "intervention"
    /\ \A q \in 1..(p - 1) : Pending(q) => ~Overlap(log[q].r, log[p].r)

\* process_next_received takes heads that have not failed, then failed ones,
\* each in order of position.
Chosen(p) ==
    /\ OwnerHead(p)
    /\ \A q \in DOMAIN log :
          OwnerHead(q) =>
            \/ log[p].failure = "none" /\ log[q].failure # "none"
            \/ (log[p].failure = "none") = (log[q].failure = "none") /\ p <= q

Resolved(p, outcome) ==
    log' = [log EXCEPT ![p].outcome = outcome, ![p].failure = "none"]

\* The end of a request, which cancels its task.
End(r, life) ==
    /\ conv' = [conv EXCEPT ![r].life = life, ![r].version = @ + 1]
    /\ row' = [row EXCEPT ![r] = NoRow]

\* IssueRequestTerms: a quote, and the work to sign it.
ApplyQuote(m) ==
    /\ m.kind = "quote"
    /\ conv[m.r].quote = "none"
    /\ conv' = [conv EXCEPT ![m.r].quote = "unsigned"]
    /\ UNCHANGED row

ApplyCreate(m) ==
    LET deadline == m.at + SubmissionWindow
    IN  /\ m.kind = "create"
        /\ conv[m.r].quote = "signed" /\ conv[m.r].life = "none"
        /\ conv' = [conv EXCEPT ![m.r].life = "preparing", ![m.r].deadline = deadline]
        /\ row' = [row EXCEPT ![m.r] = Task("timeout", deadline)]

\* A submission that comes too late, or whose terms or message no longer hold,
\* cancels the request.
SubmissionVersioned(m) ==
    m.kind = "submit" /\ conv[m.r].life = "preparing" /\ conv[m.r].version = m.expected

ApplySubmit(m) ==
    LET deadline == m.at + DecisionWindow
    IN  /\ SubmissionVersioned(m)
        /\ m.at <= conv[m.r].deadline
        /\ conv' = [conv EXCEPT ![m.r].life = "awaiting", ![m.r].version = @ + 1,
                                ![m.r].deadline = deadline]
        /\ row' = [row EXCEPT ![m.r] = Task("expire", deadline)]

ApplySubmitFailing(m) == SubmissionVersioned(m) /\ End(m.r, "cancelled")

\* relationship_decision at time at.
DecidedLife(C, at) ==
    CASE C.life = "preparing"                       -> "cancelled"
      [] C.life = "awaiting" /\ at <= C.deadline    -> "decided"
      [] C.life = "awaiting" /\ at > C.deadline     -> "expired"
      [] OTHER                                      -> C.life

ApplyDecide(m) ==
    LET C == conv[m.r]
        life == DecidedLife(C, m.at)
    IN  /\ m.kind = "decide"
        /\ C.relationship = m.expected
        /\ conv' = [conv EXCEPT ![m.r].relationship = @ + 1, ![m.r].life = life,
                                ![m.r].version = IF life = C.life THEN @ ELSE @ + 1]
        /\ row' = IF life = C.life THEN row ELSE [row EXCEPT ![m.r] = NoRow]

\* cancel_request_submission by the scheduler, and expire_request.
TimeoutApplies(m) == conv[m.r].version = m.expected /\ m.at >= conv[m.r].deadline

ExpiryApplies(m) == conv[m.r].version = m.expected /\ m.at > conv[m.r].deadline

ApplyScheduled(m) ==
    \/ /\ m.kind = "timeout"
       /\ IF conv[m.r].life = "preparing"
          THEN TimeoutApplies(m) /\ End(m.r, "cancelled")
          ELSE UNCHANGED <<conv, row>>
    \/ /\ m.kind = "expire"
       /\ \/ conv[m.r].life \in Terminal /\ UNCHANGED <<conv, row>>
          \/ conv[m.r].life = "awaiting" /\ ExpiryApplies(m) /\ End(m.r, "expired")

Applies(m) ==
    ApplyQuote(m) \/ ApplyCreate(m) \/ ApplySubmit(m) \/ ApplySubmitFailing(m) \/ ApplyDecide(m)
    \/ ApplyScheduled(m)

\* classify_refusal.  A member's command may also be refused by what the model
\* leaves out; a scheduled one only by its version and its time.
Refusable(m) ==
    CASE m.kind \in ClientKinds -> TRUE
      [] m.kind = "timeout" -> conv[m.r].life = "preparing" /\ ~TimeoutApplies(m)
      [] m.kind = "expire" ->
            \/ conv[m.r].life \in {"none", "preparing"}
            \/ conv[m.r].life = "awaiting" /\ ~ExpiryApplies(m)

\* observed_failure: the quote a request needs is not signed yet.  Failing again
\* only counts an attempt, which is left out.
AwaitsSignature(m) == m.kind = "create" /\ conv[m.r].quote \in {"unsigned", "blocked"}

Process(p) ==
    /\ Chosen(p)
    /\ \/ Applies(log[p]) /\ Resolved(p, "Applied")
       \/ Refusable(log[p]) /\ Resolved(p, "Refused") /\ UNCHANGED <<conv, row>>
    /\ UNCHANGED <<now, worker, faults>>

ProcessFailing(p) ==
    /\ Chosen(p)
    /\ \/ /\ AwaitsSignature(log[p])
          /\ log' = [log EXCEPT ![p].failure = "awaiting"]
          /\ UNCHANGED faults
       \/ /\ \E failure \in {"persistence", "intervention"} :
                log' = [log EXCEPT ![p].failure = failure]
          /\ Fault
    /\ UNCHANGED <<now, conv, row, worker>>

\* The operator's Resume of an unresolved command.
ResumeCommand(p) ==
    /\ Pending(p)
    /\ log[p].failure # "none"
    /\ log' = [log EXCEPT ![p].failure = "none"]
    /\ UNCHANGED <<now, conv, row, worker, faults>>

\* sign_artifacts_batch.  The signing key must have been valid when the command
\* was received; otherwise the work is blocked until an operator resumes it.
SignQuote(r) ==
    /\ conv[r].quote = "unsigned"
    /\ \/ conv' = [conv EXCEPT ![r].quote = "signed"] /\ UNCHANGED faults
       \/ conv' = [conv EXCEPT ![r].quote = "blocked"] /\ Fault
    /\ UNCHANGED <<now, log, row, worker>>

ResumeSigning(r) ==
    /\ conv[r].quote = "blocked"
    /\ conv' = [conv EXCEPT ![r].quote = "unsigned"]
    /\ UNCHANGED <<now, log, row, worker, faults>>

-----------------------------------------------------------------------------
(***************************************************************************)
(* The schedule.                                                           *)
(***************************************************************************)

\* require_relationship_drained
Drained(r) == \A p \in DOMAIN log : Pending(p) => ~Overlap(log[p].r, r)

\* Mutant: an expiry is due at the deadline.
DueInclusive(task, at) == task.due <= at

\* The decision window includes its last moment.
Due(task, at) == IF task.kind = "expire" THEN task.due < at ELSE task.due <= at

\* The holder of a claim is still at work on it.
InHand(r) == row[r].holder # None /\ worker[row[r].holder].r = r

\* Mutant: a lapsed claim is not taken over.
ClaimOnce(w, r, at) ==
    /\ worker[w] = IdleWorker
    /\ row[r].kind # "none" /\ row[r].holder = None
    /\ Drained(r)
    /\ Due(row[r], at)
    /\ row' = [row EXCEPT ![r].holder = w]
    /\ worker' = [worker EXCEPT ![w] = [step |-> "validate", r |-> r, kind |-> row[r].kind,
                                        due |-> row[r].due, at |-> at, expected |-> 0]]
    /\ UNCHANGED <<now, log, conv, faults>>

\* claim_due_schedules: a pending task, or one whose lease has lapsed.
Claim(w, r, at) ==
    /\ worker[w] = IdleWorker
    /\ row[r].kind # "none"
    /\ Drained(r)
    /\ Due(row[r], at)
    /\ IF InHand(r) THEN Fault ELSE UNCHANGED faults
    /\ row' = [row EXCEPT ![r].holder = w]
    /\ worker' = [worker EXCEPT ![w] = [step |-> "validate", r |-> r, kind |-> row[r].kind,
                                        due |-> row[r].due, at |-> at, expected |-> 0]]
    /\ UNCHANGED <<now, log, conv>>

HoldsClaim(w) ==
    row[worker[w].r] = [kind |-> worker[w].kind, due |-> worker[w].due, holder |-> w]

\* execute_claimed_schedule: the claim is checked, the request is read, and the
\* command is received or the task completed, in transactions of their own.
Validate(w) ==
    /\ worker[w].step = "validate"
    /\ worker' = [worker EXCEPT ![w] = IF HoldsClaim(w) THEN [@ EXCEPT !.step = "snapshot"]
                                       ELSE IdleWorker]
    /\ UNCHANGED <<now, log, conv, row, faults>>

LifeOf(kind) == IF kind = "timeout" THEN "preparing" ELSE "awaiting"

Snapshot(w) ==
    LET C == conv[worker[w].r]
    IN  /\ worker[w].step = "snapshot"
        /\ worker' = [worker EXCEPT ![w] =
              IF C.life = LifeOf(@.kind) THEN [@ EXCEPT !.step = "receive", !.expected = C.version]
              ELSE [@ EXCEPT !.step = "complete"]]
        /\ UNCHANGED <<now, log, conv, row, faults>>

Complete(w) ==
    /\ worker[w].step = "complete"
    /\ row' = IF HoldsClaim(w) THEN [row EXCEPT ![worker[w].r] = NoRow] ELSE row
    /\ worker' = [worker EXCEPT ![w] = IdleWorker]
    /\ UNCHANGED <<now, log, conv, faults>>

\* execute_system, under the key of the task.
ReceiveScheduled(w) ==
    LET m == worker[w]
        c == [key |-> <<m.kind, m.r>>, r |-> m.r, kind |-> m.kind, expected |-> m.expected]
    IN  /\ m.step = "receive"
        /\ log' = IF ~Known(m.r, c.key) /\ CanReceive(m.at) THEN Received(c, m.at) ELSE log
        /\ worker' = [worker EXCEPT ![w] = IdleWorker]
        /\ UNCHANGED <<now, conv, row, faults>>

Crash(w) ==
    /\ worker[w] # IdleWorker
    /\ Fault
    /\ worker' = [worker EXCEPT ![w] = IdleWorker]
    /\ UNCHANGED <<now, log, conv, row>>

Tick ==
    /\ now < MaxTime
    /\ now' = now + 1
    /\ UNCHANGED <<log, conv, row, worker, faults>>

Attempt(p) == Process(p) \/ ProcessFailing(p)
ProcessNext == \E p \in DOMAIN log : Attempt(p)

\* An attempt that finds the same signature missing again leaves everything as it
\* is; every other one is progress.
Progress ==
    \E p \in DOMAIN log : ~(log[p].failure = "awaiting" /\ AwaitsSignature(log[p])) /\ Attempt(p)

WorkerStep(w) == Validate(w) \/ Snapshot(w) \/ Complete(w) \/ ReceiveScheduled(w)

Operator ==
    \/ \E p \in DOMAIN log : ResumeCommand(p)
    \/ \E r \in Requests : ResumeSigning(r)

System ==
    \/ Tick
    \/ \E c \in ClientCommands, at \in Reading : Receive(c, at)
    \/ ProcessNext
    \/ \E r \in Requests : SignQuote(r)
    \/ \E w \in Workers, r \in Requests, at \in Reading : Claim(w, r, at)
    \/ \E w \in Workers : WorkerStep(w) \/ Crash(w)

Next == System \/ Operator

Spec == Init /\ [][Next]_vars

\* Every process runs the inbox, signs and looks for due tasks in each of its
\* cycles; a claim is tried again with a current clock.
Fairness ==
    /\ WF_vars(Tick)
    /\ WF_vars(Progress)
    /\ \A r \in Requests :
          /\ WF_vars(SignQuote(r))
          /\ SF_vars(\E w \in Workers : Claim(w, r, now))
    /\ \A w \in Workers : WF_vars(WorkerStep(w))

FairSpec == Spec /\ Fairness

\* The provider's processes without an operator.
UnattendedSpec == Init /\ [][System]_vars /\ Fairness

-----------------------------------------------------------------------------
(***************************************************************************)
(* Properties.                                                             *)
(***************************************************************************)

TypeOK ==
    /\ now \in Nat
    /\ log \in Seq(Receipt)
    /\ conv \in [Requests -> Conversation]
    /\ row \in [Requests -> Row]
    /\ worker \in [Workers -> Worker]
    /\ faults \in Nat

\* Commands that share an owner are resolved in the order in which they were
\* received, whatever failed, was resumed or was signed in between
\* (process_next_received).
OwnersInOrder ==
    \A p, q \in DOMAIN log :
        p < q /\ Pending(p) /\ Overlap(log[p].r, log[q].r) => Pending(q)

\* A request expires only after every decision received within its window was
\* answered, although decisions, the schedule and the clocks of several processes
\* race at the deadline (record_received, claim_due_schedules, expire_request).
DecisionsNotOvertaken ==
    \A p \in DOMAIN log :
        /\ log[p].kind = "decide"
        /\ conv[log[p].r].life = "expired"
        /\ log[p].at <= conv[log[p].r].deadline
        => ~Pending(p)

\* No refusal is ever stored under the key of a scheduled task.  The key is the
\* task's only one, so that a stored refusal would answer every later attempt
\* (schedule_idempotency) and the request would stay open.
ScheduledNeverRefused ==
    \A p \in DOMAIN log : log[p].kind \in ScheduledKinds => log[p].outcome # "Refused"

\* Something of r's owners needs an operator.
Stalled(r) ==
    \E p \in DOMAIN log :
        Pending(p) /\ log[p].failure = "intervention" /\ Overlap(log[p].r, r)

\* A request ends although workers stop, lose their claims and are behind the
\* log's time, unless a command of its owners needs an operator.
RequestsEnd ==
    \A r \in Requests :
        conv[r].life \in {"preparing", "awaiting"} ~> conv[r].life \in Terminal \/ Stalled(r)

\* A command that waited for a signature is resolved once the signature is there:
\* "the next run then retries the same received command" (run_received_batch).
AwaitingFor(r) ==
    \E p \in DOMAIN log : log[p].r = r /\ log[p].failure = "awaiting" /\ conv[r].quote = "signed"

SignedCommandsRetried ==
    \A r \in Requests : AwaitingFor(r) ~> ~AwaitingFor(r)
=============================================================================
