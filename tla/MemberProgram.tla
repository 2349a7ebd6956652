---------------------------- MODULE MemberProgram ----------------------------
(***************************************************************************)
(* The member program: forfeited collateral becomes lots that mature and   *)
(* are cleared, once a year the cleared lots are assessed and shared       *)
(* equally between the members that qualify, and every share is one bank   *)
(* payment.  cs-mail-finance/src/program.rs, lot.rs, membership.rs,        *)
(* distribution.rs and payable.rs, with the transactions around them in    *)
(* cs-mail-storage-postgres/src/finance.rs and the batches                 *)
(* run_annual_distribution_batch and run_member_payment_batch of the       *)
(* worker.                                                                 *)
(*                                                                         *)
(* A day is a unit of time.  A command that is refused, or known, changes  *)
(* nothing and is no step; one that is accepted names the program's        *)
(* current revision, which only counts and is left out.  The time of a     *)
(* command or a batch was read by some process and may be behind the       *)
(* clock.                                                                  *)
(***************************************************************************)
EXTENDS PaymentWorkers, Integers, Sequences, FiniteSets, FiniteSetsExt

CONSTANTS
    Lots,           \* forfeitures
    Amount,         \* Amount[l]
    Policy,         \* Policy[l]: the policy version it was forfeited under
    BasisPoints,    \* BasisPoints[p]: the corporate share of a policy
    MaturityDelay,
    Members,
    Corrections,    \* causes of compensations, one unit each
    Years,
    Start,          \* Start[y]: the first day of a year
    Cutoff,         \* Cutoff[y]: the day after its last
    DueAt,          \* DueAt[y]: when its shares are paid
    MinimumTenure,
    MinimumDays,
    Tokens,         \* bank accounts
    FirstToken,
    Skew,           \* how far a process's clock may be behind
    MaxAttempts,    \* bound: attempts at a payment
    MaxChanges,     \* bound: changes of a membership, enrolment included
    MaxRebinds,     \* bound: changes of a bank account
    MaxTime         \* bound: the clock

Payables == Years \X (Members \cup Corrections)

\* In basis points.
Whole == 100 * 100

AllocateItem(y) == <<"allocate", y, None, 0>>
PrepareItem(a) == <<"prepare", a[1], a[2], 0>>
PaymentItem(a, n) == <<"pay", a[1], a[2], n>>
PayableOf(i) == <<i[2], i[3]>>

ASSUME PolicyAssumption ==
    /\ Amount \in [Lots -> Nat \ {0}]
    /\ \A l \in Lots : BasisPoints[Policy[l]] \in 0..Whole
    /\ MaturityDelay \in Nat /\ MinimumTenure \in Nat /\ MinimumDays \in Nat \ {0}

\* Schedules do not overlap.
ASSUME CalendarAssumption ==
    /\ \A y \in Years : /\ Start[y] \in Nat /\ Cutoff[y] \in Nat /\ DueAt[y] \in Nat
                        /\ Start[y] < Cutoff[y] /\ Cutoff[y] <= DueAt[y]
    /\ \A y, z \in Years : y # z => Cutoff[y] <= Start[z] \/ Cutoff[z] <= Start[y]

ASSUME ItemsAssumption ==
    /\ Operations = {PaymentItem(a, n) : a \in Payables, n \in 1..MaxAttempts}
    /\ Items = Operations \cup {AllocateItem(y) : y \in Years} \cup {PrepareItem(a) : a \in Payables}

ASSUME BoundsAssumption ==
    /\ FirstToken \in Tokens
    /\ {Skew, MaxAttempts, MaxChanges, MaxRebinds, MaxTime} \subseteq Nat

\* The program's collections are finite.
ASSUME FinitenessAssumption ==
    IsFiniteSet(Lots) /\ IsFiniteSet(Members) /\ IsFiniteSet(Corrections) /\ IsFiniteSet(Years)

VARIABLES
    now,
    last,       \* last_event_at
    lot,        \* lot[l]: ForfeitureLot
    disputed,   \* lots whose reversal was reported since an operator last released them
    member,     \* member[m]: Member
    published,  \* years with a schedule
    allocation, \* allocation[y]: AnnualAllocation
    payable,    \* payable[a]: MemberPayable
    ledger,
    bank        \* bank[m]: the token and version of the account's bank

program == <<last, lot, disputed, member, published, allocation, payable, ledger>>
vars == <<now, program, bank, queue>>

-----------------------------------------------------------------------------

Lot ==
    [ state   : {"none", "pending", "cleared", "assessed"},
      held    : BOOLEAN,
      at      : Nat,                \* forfeited_at
      cleared : Nat,                \* when the clearance was recorded
      year    : Years \cup {None} ]

Member == [joined : Nat, changes : Seq(Nat \X BOOLEAN), days : SUBSET (0..MaxTime)]

Allocation ==
    [ members : SUBSET Members, funding : SUBSET Lots, each : Nat,
      remainder : Nat, corporate : Nat ]

PaymentState == {"Pending", "Settled", "Failed", "Voided", "Reversed"}

Payable ==
    [ member   : Members,
      amount   : Nat,
      token    : Tokens \cup {None},
      attempts : Seq(PaymentState),
      events   : SUBSET ((1..MaxAttempts) \X Outcome) ]

Ledger ==
    [ clearing   : Int,             \* ProgramClearing of all lots
      pending    : [Lots -> Int],   \* PendingForfeiture
      restricted : Int,             \* RestrictedMemberFunds
      corporate  : Int,             \* CorporatePoolRevenue
      loss       : Int,             \* CorporateLossClearing
      payable    : [Payables -> Int],
      processor  : Int ]            \* ProcessorClearing

ASSUME AbsentAssumption == None \notin Member \cup Allocation \cup Payable \cup Tokens \cup Years

Init ==
    /\ now = 0 /\ last = 0
    /\ lot = [l \in Lots |-> [state |-> "none", held |-> FALSE, at |-> 0, cleared |-> 0, year |-> None]]
    /\ disputed = {}
    /\ member = [m \in Members |-> None]
    /\ published = {}
    /\ allocation = [y \in Years |-> None]
    /\ payable = [a \in Payables |-> None]
    /\ ledger = [clearing |-> 0, pending |-> [l \in Lots |-> 0], restricted |-> 0, corporate |-> 0,
                 loss |-> 0, payable |-> [a \in Payables |-> 0], processor |-> 0]
    /\ bank = [m \in Members |-> [token |-> FirstToken, version |-> 0]]
    /\ QueueInit

Later(a, b) == IF a > b THEN a ELSE b

\* What a process reads as the present.
Reading == {t \in 0..now : t >= now - Skew}

\* Mutant: events may be dated back.
AtomicAnyTime(at) == last' = at

\* FinancialProgram::atomic
Atomic(at) == at >= last /\ last' = at

\* Evidence from a request is dated no earlier than the program's last event.
AtomicLater(at) == last' = Later(at, last)

-----------------------------------------------------------------------------
(***************************************************************************)
(* Lots.                                                                   *)
(***************************************************************************)

\* record_forfeiture, in the transaction that settles the request.
RecordForfeiture(l, at, review) ==
    /\ lot[l].state = "none"
    /\ AtomicLater(at)
    /\ lot' = [lot EXCEPT ![l] = [@ EXCEPT !.state = "pending", !.held = review, !.at = at]]
    /\ ledger' = [ledger EXCEPT !.clearing = @ - Amount[l], !.pending[l] = @ + Amount[l]]
    /\ UNCHANGED <<now, disputed, member, published, allocation, payable, bank, queue>>

\* ForfeitureLot::set_hold: a cleared lot is pending again, whatever the hold.
SetHold(l, held) == [lot EXCEPT ![l] = [@ EXCEPT !.state = "pending", !.held = held, !.cleared = 0]]

HeldByReversal(l) == IF lot[l].state = "assessed" THEN lot ELSE SetHold(l, TRUE)

\* note_reversal, in the transaction that records the processor's evidence.
NoteReversal(l, at) ==
    /\ lot[l].state # "none"
    /\ l \notin disputed
    /\ AtomicLater(at)
    /\ lot' = HeldByReversal(l)
    /\ disputed' = IF lot[l].state = "assessed" THEN disputed ELSE disputed \cup {l}
    /\ UNCHANGED <<now, member, published, allocation, payable, ledger, bank, queue>>

\* The operator's Hold command
Hold(l, held, at) ==
    /\ lot[l].state \in {"pending", "cleared"}
    /\ Atomic(at)
    /\ lot' = SetHold(l, held)
    /\ disputed' = IF held THEN disputed ELSE disputed \ {l}
    /\ UNCHANGED <<now, member, published, allocation, payable, ledger, bank, queue>>

\* ForfeitureLot::clear
ClearMaturity(l, at) ==
    /\ lot[l].state = "cleared" \/ (lot[l].state = "pending" /\ ~lot[l].held)
    /\ at >= lot[l].at + MaturityDelay
    /\ Atomic(at)
    /\ lot' = [lot EXCEPT ![l] = [@ EXCEPT !.state = "cleared", !.cleared = at]]
    /\ UNCHANGED <<now, disputed, member, published, allocation, payable, ledger, bank, queue>>

-----------------------------------------------------------------------------
(***************************************************************************)
(* Members.  A status is good when the member opted in, is verified and is *)
(* not suspended.                                                          *)
(***************************************************************************)

Enroll(m, good, at) ==
    /\ member[m] = None
    /\ Atomic(at)
    /\ member' = [member EXCEPT ![m] = [joined |-> at, changes |-> <<<<at, good>>>>, days |-> {}]]
    /\ UNCHANGED <<now, lot, disputed, published, allocation, payable, ledger, bank, queue>>

SetMembership(m, good, at) ==
    /\ member[m] # None
    /\ Len(member[m].changes) < MaxChanges
    /\ Atomic(at)
    /\ member' = [member EXCEPT ![m].changes = Append(@, <<at, good>>)]
    /\ UNCHANGED <<now, lot, disputed, published, allocation, payable, ledger, bank, queue>>

RecordActivity(m, at) ==
    /\ member[m] # None
    /\ at \notin member[m].days
    /\ Atomic(at)
    /\ member' = [member EXCEPT ![m].days = @ \cup {at}]
    /\ UNCHANGED <<now, lot, disputed, published, allocation, payable, ledger, bank, queue>>

\* Member::qualifies: the status is the last one before the cutoff.
Qualifies(m, y) ==
    /\ member[m] # None
    /\ LET before == {k \in DOMAIN member[m].changes : member[m].changes[k][1] < Cutoff[y]}
       IN  before # {} /\ member[m].changes[Max(before)][2]
    /\ member[m].joined + MinimumTenure <= Cutoff[y]
    /\ Cardinality({d \in member[m].days : Start[y] <= d /\ d < Cutoff[y]}) >= MinimumDays

-----------------------------------------------------------------------------
(***************************************************************************)
(* The year.                                                               *)
(***************************************************************************)

\* publish_annual_distribution, and the work that finalizes the year.
Publish(y, at) ==
    /\ y \notin published
    /\ at <= Start[y]
    /\ Atomic(at)
    /\ published' = published \cup {y}
    /\ item' = Enqueued({AllocateItem(y)})
    /\ UNCHANGED <<now, lot, disputed, member, allocation, payable, ledger, bank,
                   worker, proc, reversed, faults>>

\* ForfeitureLot::eligible_at
Eligible(l, y) == lot[l].state = "cleared" /\ lot[l].cleared < Cutoff[y]

AmountOf(lots) == SumFunctionOnSet(Amount, lots)

\* assess_funding: the share is rounded down, once for each policy.
CorporateShare(lots) ==
    SumFunction([p \in {Policy[l] : l \in lots} |->
                    (AmountOf({l \in lots : Policy[l] = p}) * BasisPoints[p]) \div Whole])

NewPayable(m, amount) ==
    [member |-> m, amount |-> amount, token |-> None, attempts |-> << >>, events |-> {}]

CanFinalize(y, at) ==
    /\ y \in published
    /\ allocation[y] = None
    /\ at >= Cutoff[y]
    /\ \A z \in published : Cutoff[z] <= Start[y] => allocation[z] # None

\* What earlier years could not divide is shared again.
Available(contribution) == ledger.restricted + contribution

\* enqueue_distribution_preparation: every payable there is.
PrepareItems == {PrepareItem(a) : a \in {a \in Payables : payable'[a] # None}}

\* finalize_annual_distribution
Finalize(y, at) ==
    LET members      == {m \in Members : Qualifies(m, y)}
        funding      == {l \in Lots : Eligible(l, y)}
        corporate    == CorporateShare(funding)
        available    == Available(AmountOf(funding) - corporate)
        n            == Cardinality(members)
        each         == IF n = 0 THEN 0 ELSE available \div n
        remainder    == IF n = 0 THEN available ELSE available % n
        shared       == IF each = 0 THEN {} ELSE {y} \X members
    IN  /\ CanFinalize(y, at)
        /\ Atomic(at)
        /\ lot' = [l \in Lots |-> IF l \in funding
                                  THEN [lot[l] EXCEPT !.state = "assessed", !.year = y] ELSE lot[l]]
        /\ payable' = [a \in Payables |-> IF a \in shared THEN NewPayable(a[2], each) ELSE payable[a]]
        /\ allocation' = [allocation EXCEPT ![y] =
               [members |-> members, funding |-> funding, each |-> each,
                remainder |-> remainder, corporate |-> corporate]]
        /\ ledger' = [ledger EXCEPT
               !.pending = [l \in Lots |-> IF l \in funding THEN @[l] - Amount[l] ELSE @[l]],
               !.corporate = @ + corporate,
               !.restricted = @ + AmountOf(funding) - corporate - each * n,
               !.payable = [a \in Payables |-> IF a \in shared THEN @[a] + each ELSE @[a]]]
        /\ UNCHANGED <<disputed, member, published>>

\* The operator's command, which enqueues the payments.
FinalizeAnnualDistribution(y, at) ==
    /\ Finalize(y, at)
    /\ item' = Enqueued(PrepareItems)
    /\ UNCHANGED <<now, bank, worker, proc, reversed, faults>>

\* compensate_member: funded by the company, for a year that is closed.
CompensateMember(c, m, y, at) ==
    /\ \A z \in Years : payable[<<z, c>>] = None
    /\ member[m] # None
    /\ allocation[y] # None
    /\ Atomic(at)
    /\ payable' = [payable EXCEPT ![<<y, c>>] = NewPayable(m, 1)]
    /\ ledger' = [ledger EXCEPT !.loss = @ - 1, !.payable[<<y, c>>] = @ + 1]
    /\ item' = Enqueued(PrepareItems)
    /\ UNCHANGED <<now, lot, disputed, member, published, allocation, bank, worker, proc, reversed, faults>>

-----------------------------------------------------------------------------
(***************************************************************************)
(* Payments.                                                               *)
(***************************************************************************)

State(p) == IF p.attempts = << >> THEN "none" ELSE p.attempts[Len(p.attempts)]
Outstanding(p) == IF State(p) = "Settled" THEN 0 ELSE p.amount

\* Mutant: a payment whose outcome is unknown is attempted anew.
RetriesUnknown(p) == State(p) \in {"Failed", "Pending"}

\* MemberPayable::prepare makes a new attempt after a failure only.
Retries(p) == State(p) = "Failed"

CanPrepare(a, at) ==
    LET p == payable[a]
    IN  /\ at >= DueAt[a[1]]
        /\ at >= last
        /\ p.token # None => /\ p.token = bank[p.member].token
                             /\ State(p) \in {"Pending", "Failed", "Settled"}

\* prepare_distribution: the payment goes to the bank the member has now, and
\* its execution is enqueued with it.
Prepare(a, at) ==
    LET p == payable[a]
        next == IF p.token = None \/ Retries(p)
                THEN [p EXCEPT !.token = bank[p.member].token, !.attempts = Append(@, "Pending")]
                ELSE p
    IN  /\ CanPrepare(a, at)
        /\ Len(next.attempts) <= MaxAttempts
        /\ Atomic(at)
        /\ payable' = [payable EXCEPT ![a] = next]
        /\ item' = IF State(next) = "Pending"
                   THEN Enqueued({PaymentItem(a, Len(next.attempts))}) ELSE item
        /\ UNCHANGED <<lot, disputed, member, published, allocation, ledger>>

\* An operator prepares a payment again after it failed.
PrepareAgain(a, at) ==
    /\ payable[a] # None
    /\ State(payable[a]) = "Failed"
    /\ Prepare(a, at)
    /\ UNCHANGED <<now, bank, worker, proc, reversed, faults>>

\* next_state of execution.rs.
CanAdvance(state, outcome) ==
    \/ outcome = "Pending"
    \/ state = outcome
    \/ state = "Pending" /\ outcome # "Reversed"
    \/ {state, outcome} \subseteq {"Settled", "Reversed"}

Advance(state, outcome) ==
    IF state = "Pending" \/ (state = "Settled" /\ outcome = "Reversed") THEN outcome ELSE state

Economic(state, outcome) == Advance(state, outcome) # state /\ outcome \in {"Settled", "Reversed"}

\* confirm_payout: known evidence changes nothing.
Known(a, n, outcome) == <<n, outcome>> \in payable[a].events

CanConfirm(a, n, outcome, at) ==
    \/ Known(a, n, outcome)
    \/ /\ at >= last
       /\ CanAdvance(payable[a].attempts[n], outcome)
       /\ Economic(payable[a].attempts[n], outcome) => n = Len(payable[a].attempts)

\* Mutant: a reversed payment is no longer owed.
PaidBooksReversalKept(a, state, outcome) ==
    IF Economic(state, outcome) /\ outcome = "Settled"
    THEN [ledger EXCEPT !.payable[a] = @ - payable[a].amount, !.processor = @ + payable[a].amount]
    ELSE ledger

\* MemberPayable::record_receipt
PaidBooks(a, state, outcome) ==
    LET paid == CASE Economic(state, outcome) /\ outcome = "Settled"  -> payable[a].amount
                  [] Economic(state, outcome) /\ outcome = "Reversed" -> -payable[a].amount
                  [] OTHER -> 0
    IN  [ledger EXCEPT !.payable[a] = @ - paid, !.processor = @ + paid]

\* The share p when its attempt n took an outcome.
Evidenced(p, n, outcome) ==
    [p EXCEPT !.attempts[n] = Advance(@, outcome), !.events = @ \cup {<<n, outcome>>}]

ConfirmPayout(a, n, outcome, at) ==
    IF ~CanConfirm(a, n, outcome, at) \/ Known(a, n, outcome) THEN UNCHANGED program
    ELSE /\ Atomic(at)
         /\ payable' = [payable EXCEPT ![a] = Evidenced(payable[a], n, outcome)]
         /\ ledger' = PaidBooks(a, payable[a].attempts[n], outcome)
         /\ UNCHANGED <<lot, disputed, member, published, allocation>>

-----------------------------------------------------------------------------
(***************************************************************************)
(* The worker.                                                             *)
(***************************************************************************)

\* work.rs, claim: when the item is available.
Available_at(i) ==
    CASE i[1] = "allocate" -> Cutoff[i[2]]
      [] i[1] = "prepare"  -> DueAt[i[2]]
      [] OTHER             -> 0

others == <<now, program, bank>>

ClaimWork(w, i) ==
    /\ now >= Available_at(i)
    /\ Claim(w, i)
    /\ UNCHANGED others

\* finalize_due_annual_distribution; a year finalized before is prepared again.
ExecuteAllocate(w, at) ==
    LET y == worker[w].item[2]
    IN  /\ worker[w].step = "authorize" /\ worker[w].item[1] = "allocate"
        /\ \/ Finalize(y, at) /\ item' = Enqueued(PrepareItems) /\ Conclude(w, "complete")
           \/ /\ allocation[y] # None
              /\ UNCHANGED program
              /\ item' = Enqueued(PrepareItems) /\ Conclude(w, "complete")
           \/ /\ allocation[y] = None /\ ~(CanFinalize(y, at) /\ at >= last)
              /\ UNCHANGED program
              /\ Conclude(w, "ready") /\ UNCHANGED item
        /\ UNCHANGED <<now, bank, proc, reversed, faults>>

\* A payment that goes elsewhere, or is beyond an attempt, is blocked; a time
\* that is behind is retried.
ExecutePrepare(w, at) ==
    LET a == PayableOf(worker[w].item)
    IN  /\ worker[w].step = "authorize" /\ worker[w].item[1] = "prepare"
        /\ \/ Prepare(a, at) /\ Conclude(w, "complete")
           \/ /\ ~CanPrepare(a, at)
              /\ UNCHANGED <<program, item>>
              /\ Conclude(w, IF at < DueAt[a[1]] \/ at < last THEN "ready" ELSE "blocked")
        /\ UNCHANGED <<now, bank, proc, reversed, faults>>

\* pending_member_payment
AuthorizePayment(w) ==
    LET a == PayableOf(worker[w].item)
        n == worker[w].item[4]
    IN  /\ worker[w].step = "authorize" /\ worker[w].item[1] = "pay"
        /\ IF State(payable[a]) = "Pending" /\ n = Len(payable[a].attempts)
           THEN Proceed(w, "lookup") ELSE Conclude(w, "complete")
        /\ UNCHANGED <<others, item, proc, reversed, faults>>

\* confirm_member_payment, with the batch's time.  Evidence that is refused for
\* good blocks the item.
ConfirmPayment(w, at) ==
    LET a == PayableOf(worker[w].item)
        n == worker[w].item[4]
        outcome == worker[w].receipt
    IN  /\ worker[w].step = "confirm"
        /\ ConfirmPayout(a, n, outcome, at)
        /\ Conclude(w, IF CanConfirm(a, n, outcome, at) \/ at < last
                       THEN ResultOf(CanConfirm(a, n, outcome, at), outcome) ELSE "blocked")
        /\ UNCHANGED <<now, bank, item, proc, reversed, faults>>

\* The processor's report of a reversal.
NotifyReversal(o, at) ==
    /\ o \in reversed
    /\ ConfirmPayout(PayableOf(o), o[4], "Reversed", at)
    /\ UNCHANGED <<now, bank, queue>>

RebindBank(m, t) ==
    /\ bank[m].version < MaxRebinds
    /\ bank' = [bank EXCEPT ![m] = [token |-> t, version |-> @.version + 1]]
    /\ UNCHANGED <<now, program, queue>>

Tick ==
    /\ now < MaxTime
    /\ now' = now + 1
    /\ UNCHANGED <<program, bank, queue>>

WorkerStep(w) ==
    \/ \E at \in Reading : ExecuteAllocate(w, at) \/ ExecutePrepare(w, at) \/ ConfirmPayment(w, at)
    \/ AuthorizePayment(w)
    \/ TransportStep(w) /\ UNCHANGED others

Command(at) ==
    \/ \E l \in Lots : \/ NoteReversal(l, at) \/ ClearMaturity(l, at)
                       \/ \E b \in BOOLEAN : RecordForfeiture(l, at, b) \/ Hold(l, b, at)
    \/ \E m \in Members : \/ RecordActivity(m, at)
                          \/ \E b \in BOOLEAN : Enroll(m, b, at) \/ SetMembership(m, b, at)
    \/ \E y \in Years : \/ Publish(y, at) \/ FinalizeAnnualDistribution(y, at)
                        \/ \E c \in Corrections, m \in Members : CompensateMember(c, m, y, at)
    \/ \E a \in Payables : PrepareAgain(a, at)
    \/ \E o \in Operations : NotifyReversal(o, at)

Next ==
    \/ \E at \in Reading : Command(at)
    \/ \E w \in Workers : WorkerStep(w) \/ \E i \in Items : ClaimWork(w, i)
    \/ Disturbance /\ UNCHANGED others
    \/ \E o \in Operations, outcome \in Terminal : Resolve(o, outcome) /\ UNCHANGED others
    \/ \E m \in Members, t \in Tokens : RebindBank(m, t)
    \/ Tick

Spec == Init /\ [][Next]_vars

\* A worker runs its two batches in turn and stops only by a crash, a clock that
\* is behind catches up, and the processor resolves what it accepted.
Fairness ==
    /\ WF_vars(Tick)
    /\ \A w \in Workers : /\ WF_vars(WorkerStep(w))
                          /\ SF_vars(\E i \in Operations : ClaimWork(w, i))
                          /\ SF_vars(\E i \in Items \ Operations : ClaimWork(w, i))
                          /\ SF_vars(ExecuteAllocate(w, now) \/ ExecutePrepare(w, now))
                          /\ SF_vars(ConfirmPayment(w, now))
    /\ \A o \in Operations : WF_vars(\E outcome \in Terminal : Resolve(o, outcome) /\ UNCHANGED others)

FairSpec == Spec /\ Fairness

-----------------------------------------------------------------------------

\* Every record keeps its shape.
TypeOK ==
    /\ now \in 0..MaxTime /\ last \in 0..MaxTime
    /\ lot \in [Lots -> Lot]
    /\ disputed \subseteq Lots
    /\ member \in [Members -> Member \cup {None}]
    /\ published \subseteq Years
    /\ allocation \in [Years -> Allocation \cup {None}]
    /\ payable \in [Payables -> Payable \cup {None}]
    /\ ledger \in Ledger
    /\ bank \in [Members -> [token : Tokens, version : Nat]]
    /\ QueueTypeOK

\* The assessment of a year takes what it should and stays right.  A lot whose
\* payment was reported as reversed before it was assessed is not distributed,
\* cleared or not, unless an operator released it since; and no command, however
\* its time was read, changes who qualified before the cutoff of a closed year,
\* adds a lot that should have been assessed with the year, or takes one back.
SnapshotIsFinal ==
    /\ \A l \in disputed : lot[l].state = "pending" /\ lot[l].held
    /\ \A y \in Years : allocation[y] # None =>
          /\ allocation[y].members = {m \in Members : Qualifies(m, y)}
          /\ allocation[y].funding = {l \in Lots : lot[l].state = "assessed" /\ lot[l].year = y}
          /\ \A l \in Lots : ~Eligible(l, y)

\* Assessed money is the company's share, the members' shares, or waits for the
\* next year, when it is shared again: after a year with members less than one
\* unit for each waits.  The company's part never exceeds its rate, and no lot is
\* overdrawn.
PoolAccounted ==
    LET closed == {y \in Years : allocation[y] # None}
        assessed == {l \in Lots : lot[l].state = "assessed"}
        shares == [y \in closed |-> allocation[y].each * Cardinality(allocation[y].members)]
        rated == [l \in Lots |-> Amount[l] * BasisPoints[Policy[l]]]
    IN  /\ AmountOf(assessed) = ledger.corporate + ledger.restricted + SumFunction(shares)
        /\ ledger.restricted >= 0
        /\ \A y \in closed : (\A z \in closed \ {y} : Cutoff[z] <= Start[y]) =>
              /\ ledger.restricted = allocation[y].remainder
              /\ allocation[y].members # {} => ledger.restricted < Cardinality(allocation[y].members)
        /\ ledger.corporate * Whole <= SumFunctionOnSet(rated, assessed)
        /\ \A l \in Lots : ledger.pending[l] = IF lot[l].state \in {"pending", "cleared"} THEN Amount[l] ELSE 0

\* What an annual assessment decided stays right, and its money adds up.
AssessmentKept == SnapshotIsFinal /\ PoolAccounted

\* A share is paid at most once, whatever was lost, retried or prepared twice,
\* and counts as paid only if the processor paid it.
PaidOnce ==
    \A a \in Payables :
        LET Proc(n) == proc[PaymentItem(a, n)]
        IN  /\ Cardinality({n \in 1..MaxAttempts : Proc(n) \in {"Settled", "Pending"}}) <= 1
            /\ payable[a] # None => \A n \in DOMAIN payable[a].attempts :
                  payable[a].attempts[n] \in {"Settled", "Reversed"} => Proc(n) = "Settled"

\* FinancialProgram::restore, of a member, a lot, a share and a closed year.
MemberLoads(m) ==
    member[m] # None =>
        /\ member[m].changes # << >>
        /\ \A k \in DOMAIN member[m].changes : member[m].joined <= member[m].changes[k][1]
        /\ \A j, k \in DOMAIN member[m].changes :
              j < k => member[m].changes[j][1] <= member[m].changes[k][1]

LotLoads(l) == lot[l].state \in {"cleared", "assessed"} => lot[l].cleared >= lot[l].at + MaturityDelay

\* PaymentExecution::validate
ExecutionLoads(p) ==
    /\ \A n \in 1..(Len(p.attempts) - 1) : p.attempts[n] \in {"Failed", "Voided"}
    /\ \A n \in DOMAIN p.attempts :
          /\ p.attempts[n] = "Reversed" => {<<n, "Settled">>, <<n, "Reversed">>} \subseteq p.events
          /\ p.attempts[n] \in Terminal => <<n, p.attempts[n]>> \in p.events
    /\ \A e \in p.events : /\ CanAdvance(p.attempts[e[1]], e[2])
                            /\ Advance(p.attempts[e[1]], e[2]) = p.attempts[e[1]]

\* MemberPayable::validate
PayableLoads(a) ==
    payable[a] # None =>
        /\ DueAt[a[1]] >= Cutoff[a[1]]
        /\ (payable[a].token = None) = (payable[a].attempts = << >>)
        /\ ExecutionLoads(payable[a])

AllocationLoads(y) ==
    allocation[y] # None =>
        LET n == Cardinality(allocation[y].members)
        IN  /\ n = 0 => allocation[y].each = 0
            /\ n > 0 => allocation[y].remainder < n
            /\ allocation[y].corporate <= AmountOf(allocation[y].funding)

\* The ledger's total value.
LedgerTotal ==
    ledger.clearing + SumFunction(ledger.pending) + ledger.restricted + ledger.corporate
    + ledger.loss + SumFunction(ledger.payable) + ledger.processor

\* The program that was stored can be loaded again: restore accepts every state
\* the commands and the evidence reach.  The books owe every member exactly what
\* is outstanding, after failures and reversals too, and they balance.
StoredProgramLoads ==
    /\ TypeOK
    /\ LedgerTotal = 0
    /\ \A m \in Members : MemberLoads(m)
    /\ \A l \in Lots : LotLoads(l)
    /\ \A y \in Years : AllocationLoads(y)
    /\ \A a \in Payables :
          /\ PayableLoads(a)
          /\ ledger.payable[a] = IF payable[a] = None THEN 0 ELSE Outstanding(payable[a])

\* A published year is closed and every share in it is paid or definitely
\* declined, although workers crash, clocks differ and banks change.
DistributionsPaid ==
    /\ \A y \in Years : y \in published ~> allocation[y] # None
    /\ \A a \in Payables : payable[a] # None ~>
          payable[a] # None /\ State(payable[a]) \in {"Settled", "Failed", "Voided", "Reversed"}
=============================================================================
