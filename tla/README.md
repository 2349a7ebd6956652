# A TLA+ verification of cs-mail

cs-mail is a mail service in which a sender who has no permission to write to a
recipient buys the right to ask. The sender authorizes one conditional charge,
the recipient accepts, rejects, blocks or lets the request lapse, and that
decision determines both the relationship and what happens to the money. This
directory holds TLA+ modules translated from the Rust sources under `crates/`,
the TLC configurations that check them on small instances, and TLAPS proofs.

## 1. Inventory of the system

### Core

| Part | State it keeps | Operations | Correct means |
|---|---|---|---|
| Request financials (`cs-mail-finance/src/request.rs`) | capture and refund status, settlement, processor events already applied | `settle`, `record_payment`, decoding of a stored record | one outcome per request, refund and forfeit follow it, late and repeated evidence changes nothing twice, records can be read back |
| Ledger (`cs-mail-ledger`) | balances of escrows, refund payables, clearing and pool accounts | `apply` of a set of transfers | conserved, no restricted account negative |
| Settlement kernel (`cs-mail-protocol`) | relationship, request history, quotes, requests, lanes, schedule of one direction | `IssueRequestTerms`, `CreateRequest`, `SubmitRequestToRecipient`, `CancelRequestSubmission`, `Accept`, `Reject`, `Block`, `Unblock`, `Revoke`, `AcceptExpressLane`, `ExpireRequest`, `RecordPayment`, scheduled tasks | one active request, one reservation per history, escalation and cooldowns not avoidable, outcome decided inside the window |
| Coordination (`cs-mail-application/src/requests.rs`, `relationships.rs`) | none: decides over both directions between two members | `RequestDecision`, `ReplyLane`, `LaneAcceptance` | crossed requests resolve one way, withdrawn access is not restored |
| Funding source and attempts (`cs-mail-finance/src/funding.rs`, `execution.rs`) | restriction, unresolved captures, dispatch grants | `reserve`, `authorize_dispatch`, `record`, `reverify` | nothing sent without a grant, outcomes of what was sent are always taken |
| Work queue (`cs-mail-storage-postgres/src/work.rs`) | durable items with status, lease and claim token | insert, claim, finish, resume | an obligation never loses its item, a stale claim acknowledges nothing |
| Worker (`cs-mail-worker`) | none durable | batches over payments, schedules, receipts, utility, member and annual payments, deliveries | crashes, lapsed leases and lost answers repeat no external effect |
| Durable engine (`cs-mail-storage-postgres/src/lib.rs`, `ingress.rs`) | aggregates, receipts in order, outcomes by idempotency key, schedules, journal, outbox | receive, process, replay, claim and execute schedules | commands apply in receipt order per scope, once |
| Member program (`cs-mail-finance/src/program.rs`, `distribution.rs`, `payable.rs`, `lot.rs`) | pool lots of forfeited collateral, memberships, the annual assessment, shares and their payment | forfeits, holds, clearance, assessment, preparation, evidence, host corrections | every unit accounted for, an assessed year never restated, no member paid twice |
| Annual billing (`cs-mail-billing`, `application/src/billing*`) | the account's contracts, their attempts, the bank accounts they are charged to | `purchase`, `retry`, `authorize_dispatch`, `record`, verification and change of bank | a period is charged and booked once, contract and source agree |
| Lanes (`cs-mail-capabilities`) | grant, allowance, horizon, revocation | grant, use, reconfirmation, expiry | an allowance ends on every path that uses it |
| Addresses (`cs-mail-accounts`, `application/src/aliases.rs`) | lifecycle of an alias, receiving permission, scopes of senders | create, restrict, replace, retire, permit, approve | a restricted address admits what it had admitted or its owner approves |
| Native correspondence (`cs-mail-correspondence`, `application/src/correspondence.rs`, `requests/documents.rs`) | conversations, reuse policies, reply receipts | every way a message is delivered, follow-ups, policy changes | a reply rests on a message received since the last withdrawal, restricted content stays with its pair |
| External email (`cs-mail-correspondence/src/external`, `service/src/external.rs`, `incoming.rs`) | letters with their handoffs, mails received, prompts, observations | member commands, delivery worker, carrier reports, SMTP sessions, paged reads | nothing submitted twice or after its withdrawal, no mail both delivered and prompted, every outcome becomes known |
| Member client (`cs-mail-client/src/member*`) | journal of one signed command, drafts with their revisions, record of messages, workspace | edits, submissions, resumption, cancellation, controls | one authorization sends writing once, and writing is never lost |

### Around it

| Part | What it does |
|---|---|
| Consent (`cs-mail-consent`) | scoped consent to disclosure |
| Accounts and directory (`cs-mail-accounts`, `application/src/directory.rs`) | enrolment, keys, publication |
| Guests (`cs-mail-guests`) | verified mailboxes and linked request histories of people without an account |
| Pricing (`cs-mail-protocol/src/pricing.rs`) | published request classes |
| Client bindings, search, service, applications | generated bindings, retrieval, HTTP edge, command lines, processes |
| Security, wire, content, key custody, privacy, primitives | signatures, encodings, encryption, identifiers |

### How the parts interact

A command is received, ordered and recorded by the durable engine, which loads
one aggregate (two when the application coordinates both directions), evaluates
the pure kernel and commits state, ledger, journal, schedule and work items in
one transaction. Everything external is a work item: workers claim items under a
lease, ask the processor or the carrier, and bring the answer back as another
command, whose identity is the processor's event. Schedules are claimed the same way
and end requests that nobody acts on. Two directions between two members, and all the
aliases of a sender, meet in shared state: the opposite relationship, the request
history and the funding source. Collateral forfeited by a request becomes a lot of
the member program; a member's bank is charged for the annual service and paid a
share of the pool. The client journals each signed command before it is sent and
resumes it until it has an answer.

### What is hard

* evidence from the processor is late, repeated, contradictory, and arrives in any
  order relative to decisions and timeouts;
* a worker crashes, loses its lease or an answer between any two steps of a
  dispatch;
* several aliases, and both directions, race for one history and for each other's
  submission;
* terms are quoted, and used later, against a state that moved on;
* deadlines are inclusive for people and exclusive for the scheduler;
* the clocks of the processes that receive commands and run the schedule differ;
* a refused command's outcome is stored under its key and answers every retry, so
  a scheduled command refused once would never end its request;
* two state machines (a request or contract and its payer's funding source) must
  accept the same evidence in one transaction;
* a payment is attempted again, to another bank account, while the first answer is
  late;
* the pool is assessed once a year by a clock of its own, while payments are reversed
  and corrections arrive;
* a lane or a reply receipt is used on several paths, each of which must store it;
* a client stops between journaling, sending and learning the answer, and edits go on
  meanwhile.

The list with source lines is `hazards` in `PROJECT.json`.

## 2. Modules

| Module | Models | State and actions |
|---|---|---|
| `RequestFinancials` | `RequestFinancials`, the transfers it posts | no variables: `Settle`, `RecordPayment` take a record to the record the method leaves; `CanSettle`, `CanRecord` are the error returns; the last part is the decoder (`TryFrom<StoredRequestFinancials>`) |
| `RequestRecords` | what must hold of requests' payment records whoever changes them | `opened`, `fin`; no actions. Extended by the next module and by `PaymentDispatch` |
| `RequestPayments` | all requests' money, reduced to what may happen to it | `opened`, `fin`; `Open`, `SettleRequests`, `RecordEvidence`. It is the abstract specification of money |
| `Settlement` | the kernel and the coordination of both directions | `rel`, `hist`, `quotes`, `used`, `req`, `fin`, `task`, `now`; one action per command, per scheduled task and for the clock |
| `FundingSource` | a payer's source and its attempts | no variables, like `RequestFinancials` |
| `PaymentDispatch` | work queue, payment workers, funding source and processor of requests | `item`, `worker`, `proc`, `source`, `fin`; each external call and each transaction of `run_payment_batch` is a step of its own |
| `PaymentWorkers` | what the batches of the annual payments have in common | `item`, `worker`, `proc`, `reversed`, `faults`; `Claim`, `Lookup`, `Submit`, `Finish`, the processor's `Resolve` and `Reverse`, and what can go wrong. Extended by the next two |
| `UtilityBilling` | a member's annual contracts and the bank accounts they are charged to | `bank`, `contract`, `source`, `verified`, `ledger`, `now`; `Purchase`, `RetryCollection`, `Authorize`, `Confirm`, `NotifyReversal`, `ReverifyFunding`, `RebindBank` |
| `MemberProgram` | the pool, memberships, the annual assessment, shares and their payment | `lot`, `disputed`, `member`, `published`, `allocation`, `payable`, `ledger`, `bank`; forfeits, holds, releases, reversals, clearance, membership and activity, the steps of `run_annual_distribution_batch` and `run_member_payment_batch` |
| `Lanes`, `AliasRoutes` | one lane; one address with the senders it admits | no variables: operators from a record to the record a method leaves, and the decoders |
| `Correspondence` | two directions and more between members with addresses, lanes, requests, conversations | `rel`, `lane`, `due`, `claims`, `request`, `alias`, `scope`, `conv`, `msg`; one action per command and per way a message is delivered, and the two steps of a lane's scheduled horizon |
| `ExternalEmail` | letters to mailboxes outside and the mails received from there | `rel`, `lane`, `scope`, `address`, `conv`, `delivery`, `carrier`, `worker`, `session`, `admitted`, `prompted`, `unread`, `seen`; the member's commands, the delivery worker's steps, the carrier's reports, the SMTP sessions' transactions, the client's pages |
| `MemberClient` | the journal of signed commands, the drafts and the record of messages of one device | `drafts`, `submitted`, `requesting`, `sending`, `slots` (what is journaled), `work`, `commands` with the provider's answers; one action per save of a call, and per answer learned |
| `Receipts` | the durable engine's inbox, the schedule of requests and the signing of quotes | `log`, `conv`, `row`, `worker`, `now`, `faults`; `Receive`, `Process` and `ProcessFailing` (one transaction each), the four steps of `execute_claimed_schedule`, `SignQuote`, the operator's two resumes |
| `..._proofs` | theorems about the module of that name | |
| `MC...` | bounded instances | |

`Settlement` and `PaymentDispatch` both implement `RequestPayments` (`PaymentsSpec`,
with `opened` mapped to the requests whose lifecycle has begun): one describes who
decides and when, the other how the money is really moved. Both implementations are
proved, so what is proved of `RequestPayments` holds of the money in both; of the
engine's records that is a theorem of its own (`EngineKeepsRecords`).

`Receipts` looks at the same commands from the other side. It keeps of a
conversation only its lifecycle, versions and deadline, and adds what `Settlement`
treats as one atomic step: a command is received at a time and a position, waits,
fails, is resumed, and is processed by some process later. Here commands carry the
versions they expect, and a refusal is stored. What money and history refuse is a
choice. A quote is its request's only one, and its signing waits for no lease,
since materializing it twice is idempotent.

`UtilityBilling` and `MemberProgram` share the queue, the workers and the processor
of `PaymentWorkers`: an operation is a contract's, or a share's, n-th attempt, and
what it means to authorize or confirm one is the extending module's. In `Correspondence`
the requests of `Settlement` are reduced to what they permit, and the lanes'
schedule is claimed and executed in two steps. What a message was made from, through any
number of messages before it, is `Reached`: the smallest set of messages that holds its
sources and is closed under sources, which `correspondence.rs` walks. `ExternalEmail` is the provider's side
of letters; the client's side is `MemberClient`, which knows of the provider only the
answer it gives to each command.

Commands the code refuses change nothing and are not actions, except in `Receipts`
and `MemberClient`, where a refusal is stored or changes the device. Expected versions of
commands are therefore not inputs elsewhere: an accepted command had the right ones.
Terms keep the versions they were quoted against, since a quote lives across steps.

Abstracted data: identities, prices (a request charges a fee and a collateral, a
period costs one unit), message contents, journal positions, message digests. Permission to contact
without charge, which depends on the receiving alias, is an input of `Settlement`
(`refused`, `granted`), as is the processor's choice of outcome everywhere.

## 3. Runs

| Run | Question | Bounds |
|---|---|---|
| `payments` | does one request's money stay in order under every order of settlement and evidence? | two requests, two event identifiers for each of capture and refund: enough for repeated, contradictory and late evidence |
| `requests` | do reservation, escalation and cooldowns hold across aliases, and what happens when two members ask each other? Can an acceptance restore access withdrawn after the submission? Is every step one of `RequestPayments`? | two requests, two quotes, in two parts: two aliases of one sender on one history, with a clock to 3; two opposite relationships, where one side decides up to three times (enough to block, unblock and grant between submission and acceptance). Quotes and windows last one unit, cooldowns three and two, and each request has one evidence event, settled or voided: what more evidence does is asked by `payments` and `dispatch` |
| `dispatch` | do the record and the source agree with the processor, does no obligation lose its work, is everything owed executed? | one request (capture, cancellation, refund) on a source that takes one capture at a time, two workers, one fault, so that a worker whose lease lapsed, crashed or lost an answer meets the one that follows it |
| `inbox` | does the expiry overtake a decision received in time, is a scheduled command refused under its only key, are owners' commands resolved in order, and does a request end if nobody acts? | one request, one decision, two workers, windows of one unit, clocks that differ by one, one fault, members that send until 2 and a clock to 4, the first moment after the last deadline of what they send |
| `billing` | is a period paid for once, can the account be loaded, do contract and source agree, is a collection concluded? | two workers, two bank accounts, two attempts, two verifications, one fault, a clock to 1: an attempt before and after the collection date, one retried on another bank |
| `payouts` | is a share paid once, can the program be loaded, are prepared payments executed? | one worker, one lot, one member and year, two attempts, one change of bank, one fault, a clock to 1, the year's end |
| `pool` | is an assessed year kept, and every unit accounted for? | no worker, two members who join early, late or never, two years, one lot of 6 at 30 % (so that both roundings leave a remainder), one correction, processes whose clocks differ by one, a clock to 2 |
| `correspondence` | do records load and lanes stay scheduled, do allowances end, do replies rest on messages still invited, does restricted content stay? | two parts. Contact: two members who have not met, two messages, three commands, a clock to 3, so that a lane is granted, used, reaches its horizon and is reconfirmed. Content: three members, three messages, two commands, a clock to 1, so that content goes on from a pair to another through a third message |
| `external` | is a letter submitted once and never after its withdrawal, is a mail admitted or prompted once, does the client miss a change, does every outcome become known? | two parts (letters, replies): two conversations, two letters, two mails, two workers, two SMTP sessions, pages of one row, three commands, one fault. Liveness is asked of the letters |
| `client` | is the writing submitted the writing journaled, is a revision sent once, is writing lost, does a submission wait for ever? | two parts: two drafts sent as messages and letters beside other commands, three commands; one draft sent with a request or its follow-up, five commands (terms, creation, submission or cancellation and another start). Two revisions, enough for an edit while the first is submitted |
| `reversals_recorded` | is a reversal the processor keeps reporting recorded? Violated, see below | one request, one worker |
| `followups` | does every message that may be answered in a conversation arrive while the answering direction is open? Violated, see below | two members, one conversation, three commands, three messages |

A run with two parts chooses its part at first and keeps it (`part` in the `MC` module):
each part leaves out the actions that have nothing to do with its question, and the
invariants are those of the whole module.

Counters are capped in the guards: `MaxTime`, `LastQuoteTime` and `MaxVersion` in
`Settlement`; `MaxFaults` in `PaymentDispatch` and `PaymentWorkers`; `MaxTime`,
`LastSend` (when members send their last commands) and `MaxFaults` in `Receipts`;
`MaxAttempts`, `MaxVersion`, `MaxChanges` and `MaxRebinds` in the annual payments;
`MaxCommands`, `MaxMessages`, `MaxWriting` and `MaxRevision` in correspondence and client. A clock that stops and requests
that are used up let the model stop where the system would only be idle, so these
configurations say `CHECK_DEADLOCK FALSE`.

Fairness. Workers run in a loop (`PaymentDispatch`, `UtilityBilling`, `MemberProgram`,
`ExternalEmail`): a worker that has an item carries on (weakly fair steps), an item that
is claimable again and again is claimed (the claim orders by availability), the
processor resolves what it accepted, and the clock advances. `Receipts`: time passes; an attempt at the inbox that would change something happens
(`run_schedule_batch` and `run_received_batch` both begin with the inbox); a
quote that can be signed is; a worker that has a claim goes on or is found dead; a
task that is due again and again is claimed by a process whose clock is current (strong
fairness, because a command received in between suspends the claim). `ExternalEmail`
adds that the carrier reports what it took until the report is recorded, and that the
client refreshes. `MemberClient`: the host keeps calling the client to resume what it has
pending, the provider answers what it receives, and a request at the provider ends.
Settlements, host administration, the operator's resumes, members' commands and
faults are never assumed to happen.

## 4. Findings

`reversals_recorded`: a reversal that reaches the engine before the worker has
recorded the settlement of the capture is refused, and because the command's
idempotency key is the processor's event, the stored refusal answers every
later delivery. The capture stays `FundingFinalized` for ever, while the
deployment profile requires later external reversals to be recorded.
The processor that keeps repeating its notification is the model's assumption, the
best case for the engine.

`followups`: a follow-up is recorded as received at the current reply epoch whatever the
state of the answering direction (`requests/documents.rs:389`); only a request's
submission and the messages of `correspondence.rs` look at it. A sender who submits,
blocks the recipient's direction, sends a follow-up and unblocks can therefore be
answered, in that conversation alone, on a message received while the direction was
blocked. `DOMAIN_MODEL.md:486` says that only messages received while the direction is
open do that.

Behaviour that no run is about, met while modelling:

* `DOMAIN_MODEL.md:635` says that definite refusals restore writing for review. A refused
  submission stops the request; when its preparation then lapses the request is
  `Changed`, and the client removes its writing though it was never sent. The same holds
  of a cancelled follow-up after an earlier submitted request, whose `last_request` it
  still finds. `WritingKept` leaves these two cases out and states everything else.
* The lowest failed command of the inbox is retried before every other (`process_next_received`),
  so a command waiting for a signature that an operator must unblock holds up independent
  ones behind it.
* After a bank account was changed, a failed or pending collection on the old, restricted
  source can be verified again only by binding that account again.
* A failed payout is prepared again by the host only; one that was reversed stays owed
  and cannot be prepared at all.
* A worker whose claim of a lane's horizon lapsed may write the schedule of a lane that
  awaits reconfirmation. Only that an active lane is scheduled is stated.

## 5. Proofs

Every proof has the same shape. `IInv` is an inductive invariant, a conjunction of named
parts; TLC has checked it on the instances of the runs before it was proved.
`InitKeeps`, one lemma `...Keeps` per action and `NextKeeps` (in `MemberProgram_proofs` one set of
such lemmas for each of the three parts of the invariant) give `Spec => []IInv`, and each
theorem of the table `theorems` in `PROJECT.json` follows from it. Constants are bound only by the
`ASSUME` of the module that declares them: sets need not be finite unless it says so,
and every bound of an instance is an arbitrary natural number.

### Money

`PaymentDispatch` contains `RequestPayments` as the instance `Payments`, over its own
records `fin` and `opened`. The first part of `PaymentDispatch_proofs` is about that instance alone and uses nothing
of the dispatch: for any set of requests, event identifiers, and any
charge and collateral (`ContractAssumption`), `Payments!Spec` implies the seven
properties the run `payments` checks or rests on. The inductive invariant is `AllSound`: every
record is `Sound`, a conjunction that ties the statuses, the settlement, the recorded
events and each balance together. The properties alone are not inductive: that a
stored record loads depends on the events it holds, that no transfer
overdraws depends on the balances being the exact function of the statuses that
`Sound` states. The lemmas before it say the same of each method: applied to
a sound record when its guard holds, it leaves a sound record.

### The conversation

`Settlement_proofs` proves type correctness and all six properties of the run `requests`,
`VersionsCoverChanges` and the implementation of `RequestPayments` among them. Its
`IInv` is `TypeOK`, `RequestsPlaced`, `MoneyPlaced`, `OneRequestAtATime`, `Agreement`, `Pace` and
`ReplyLaneStillOffered`:

* `Agreement` (conversation, payment record and schedule say the same) needs that every
  request is in the history its relationship belongs to (`RequestsPlaced`) and that its
  record has the shape of one, new until the request is created (`MoneyPlaced`);
* `Pace` strengthens `EscalationKept` by what makes it inductive: unused terms say what the
  history says unless a version has moved on (`TermsFollowHistory`), and each wait that was
  imposed is on record (`WaitsRecorded`).

Most actions share one of four shapes (`Ends`, `Decides`, `Settles`, `Records`), which say what
of a request, its history and its money changes; each action is shown to have its shape,
and each part of the invariant is shown once for the shape. `LegalEnding` says which
endings a lifecycle has. The implementation maps each step to `Open`, `SettleRequests`,
`RecordEvidence` or a stutter; the two sides of a crossed request are settled in one
step.

### The dispatch

`PaymentDispatch_proofs` proves type correctness, the three safety properties of the run `dispatch`
and the implementation of `RequestPayments`. A worker confirms what it was told
some steps ago. The invariant therefore says of every answer on its way, and of every
event on record, that the processor issued it for that operation (`Issued`), and an operation has at most two such
pieces of evidence, a pending submission and what became of it. So a late answer can only
repeat or complete what is on record, and neither the record (`RecordsMatch`) nor the source (`AttemptsMatch`) refuses
it; the only evidence ever refused is a reversal (`OnlyReversalsRefused`). `ItemsFit` relates
every item to its operation exactly: `ObligationHasWork` alone does not say that a
completed item had nothing left to do.

### The inbox

`Receipts_proofs` proves the type invariant and the three safety properties of
`Receipts` for any requests, owners, commands, workers, windows, skew and bounds
(`ReceiptsAssumption`: every request has an owner, commands are well formed, numbers
are natural). The inductive invariant `IInv` has four parts:

* `TypeOK`;
* `Ordered`: `OwnersInOrder`, and the times of the log never decrease
  (`record_received`), which the next part needs;
* `Overtaking`: `DecisionsNotOvertaken`, with its reason, that a request has expired
  only if some received command is later than its deadline (`ExpiryReceived`). A
  decision received afterwards is then late as well, and one received before has
  been resolved, because it shares the request's owners;
* `Scheduling`: `ScheduledNeverRefused`, and why a refusal is impossible. Each row
  is the one of its conversation's stage (`RowsBelong`), each worker holds a task that
  was due and, if the stage is still the same, the current version (`WorkersBelong`),
  and so does each received scheduled command (`ScheduledFit`): the stage may move on
  under it, and then it has nothing to do, but a version never changes within a stage.

### The annual service

`UtilityBilling_proofs` proves type correctness and the three safety properties of the run `billing`,
for any offers, bank accounts, workers, attempts and faults. Neither property is
inductive. What a worker confirms is what the processor has on record, or had
(`WorkerSound`, `EvidenceTrue`): a terminal answer never changes, so it is still true when it
arrives. Hence an attempt that ended says what the processor says (`AttemptsTrue`), and
since an attempt is only followed by another when it failed or was voided
(`ContractPlaced`), no earlier attempt can be charged any more. A contract and the source
of its destination are changed together (`SourcesMatch`), every item and every charge belongs to an
attempt that was made (`WorkBegun`), and no grant is taken back (`Extends`). The books count
contracts; that those are finitely many at any time is itself part of the induction (`BooksMatch`).

### The member program

`MemberProgram_proofs` proves type correctness and the safety properties of the runs `payouts` and `pool`,
`PaidOnce`, `StoredProgramLoads` and `AssessmentKept`, for any lots, policies, members, years that do not overlap
(`CalendarAssumption`), corrections, workers, clocks and faults. The sets are finite
(`FinitenessAssumption`), as the program's collections are, because the books are sums over them.
The invariant has three parts, each proved with the help of those before it:

* `Sound`, by the argument of the annual service: an attempt that ended says what the processor says, only
  a failed one is followed by another, and evidence on its way is still true when it arrives;
* `Calendar`, which makes `SnapshotIsFinal` inductive: a year is closed at an event
  that is not before its cutoff (`YearsClosed`), no event is dated before the last
  one, and all that is recorded of members and lots is dated by events (`MembersDated`, `LotsDated`). So a
  later change, activity or clearance cannot be one that a closed year would have seen. A year that
  must come first is closed first, which `Money` needs as well;
* `Money`: `LedgerTotal = 0`, `SharesOwed`, `PoolAccounted`, `AllocationLoads`. Each command moves from one account what it adds to
  another; for the assessment that is shown account by account (`FinalizePending`, `FinalizeOwed`,
  `FinalizeShared`), with what rounding leaves (`Figures`, `ShareFacts`). Only the year that was closed last says what waits
  (`PoolWaits`): no year that ends before a closed one starts is still open.

`StepKinds` says once what a step of whichever process does to the program; every part of the invariant is
then shown per kind. The sums are those of the community modules. That they
exist for every finite set, and how they change with a term or split, is proved with smallest
counterexamples (`SmallestSet`, from the well-foundedness of the subsets of a finite set).

### The client

`MemberClient_proofs` proves type correctness and the three safety properties of the run `client`, the action property
`WritingKept` included. A revision of a draft leaves the editor once: no two commands
deliver it (`CarriedOnce`), and once a command that may deliver it is signed it is spent, so that the
draft, when it is still there or submitted again, is a later revision
(`CarriedSpent`). The writing submitted is the one the journal names
(`WritingSubmitted = Journaled`), and what the journal names was signed (`SendSigned`, `LetterSigned`,
`JourneySigned`), one command with writing at a time (`OneAtATime`). A request adds that
its writing is signed into a submission only in the last stage of the journey, and that
a journey that stopped knows its submission was refused (`SubmissionKnown`); a new
conversation, that its message is answered after it (`AnswersInOrder`) and can no longer be
served once it was refused (`Hopeless`). `DraftIds` may be infinite: that the workspace
holds finitely many drafts is part of the induction (`WorkspaceSmall`).

### External email

`ExternalEmail_proofs` proves type correctness and the three safety properties of the run `external`
for any conversations, letters, mails, workers, sessions, page sizes, commands and faults. Beside
the types, `IInv` has three parts:

* `Dispatch` gives `HandoffsMatchCarrier`. Only one worker holds a letter that was begun and not
  concluded (`WorkersPlaced`), and what it still holds, the letter's record and the carrier say the
  same (`LetterFits`, `HolderFits`); the carrier's own reports may come before the worker's answer.
  A withdrawn letter stays cancelled (`WithdrawnStays`);
* `Admission` gives `RepliesAdmittedOnce`. A mail that was prompted for is not admitted, though the
  session decided earlier (`SessionsPlaced`, `PromptsPlaced`). A lane's version is the relationship's, which
  no mail was admitted under before the lane was granted; so its allowance counts exactly its own mails
  (`LanesCounted`). An invitation that was decided names a version older than the relationship's (`Invited`);
* `Observation` gives `ObservationsCurrent`. A bound that counts what is unread is one only if the order
  repeats nothing (`OrdersInjective`) and is finite (`QueuedFinite`).

`ConversationRecords` is the invariant itself, types included.

### Correspondence

`Correspondence_proofs` proves type correctness and the four safety properties of the run `correspondence`
for any members, addresses, conversations and bounds (`NoneIsAbsence` and the assumptions
beside it: identifiers are told apart and numbers are natural). Beside the types, the parts of `IInv` are:

* `LanesFit`: every lane loads, and one in force has its horizon scheduled, on each path that writes it;
* `Allowances` gives `AllowanceKept`. That a lane counts what it admitted in its window is not
  inductive: a new grant could be credited with messages of the old one, and a window begun anew
  could count messages before it. A message names the version of the grant it was sent on, which only
  rises, so the messages of a lane are its own; and all of them came before the end of the present window
  (`Windowed`);
* `Addresses` makes `AliasLoads` inductive: each conversation a closed address keeps is one that was delivered to it
  (`Deliveries`), an open one has no approvals, and lanes exist only under a permission that names senders;
* `Receipts` gives `MessagesStillInvited`. The epoch a message was received in is never later than the
  relationship's; if it is the present one, the message is none of those received before the last withdrawal,
  because a withdrawal raises the epoch;
* `Contents` gives `RestrictedContentStays`. What may be quoted is closed under sources, and a conversation
  is restricted until both have relaxed it. `Reached` is a least set, not a recursive definition: the prover
  has no induction over data, and a least set needs none.

`RecordsAlwaysLoad` combines the first, third and fifth part.

### Only model-checked

Every invariant and every action property without fairness that a passing run checks is stated by a
theorem. What remains out of the prover's reach is liveness, since it needs fairness and
`ENABLED`: `ObligationsExecuted`, `RequestsEnd`, `CollectionsConclude`, `DistributionsPaid`, `HandoffsSeen` and
`SubmissionsResolve`. That they need no more than the fairness of section 3 is shown on the instances
only.

## 6. Plan

Modelled and checked: the money of requests, the kernel and its coordination, the
dispatch of payments, the inbox and schedule, the annual service, the member program,
addresses, lanes and correspondence, external email, the member's device. Proved: all
safety of these. What would extend the project furthest:

1. an abstract specification of a lane's allowance that both `Correspondence` and `ExternalEmail` implement;
2. the directory and its publication, and the rest of an address's life in `Correspondence` (section 7);
3. the engine's journal and outbox, which the modules reduce to the answers read from them.

## 7. Not modelled

`PROJECT.json` lists every component with what of it is modelled. Left out of the
modelled ones: the use of an address for correspondence only, retained copies, recovery
copies, receipts, subjects and the lanes of replies in `Correspondence`; in `ExternalEmail` the
windows of lanes (they are `Lanes`'), paired senders, the replacement of the address, the
notices of a guest's paid requests, and an interrupted submission stays begun until a report
says what became of it; in `MemberClient` enrolment and login, what synchronization
fetches, retained copies and search. A restriction of the payer's source by its other payments
is an input of `PaymentDispatch`.

Consent, guests, the directory and pricing have rules of their own and no module yet;
what they decide is an input of the modules that use it. Not planned: signatures,
encodings and encryption
(`cs-mail-security`, `-wire`, `-content`, `-key-custody`), which are computation over
bytes; SMTP sessions and message formats (`cs-mail-smtp-gateway`, `-adapters`), the
HTTP edge (`cs-mail-service`, `-identity-client`), generated bindings, the Swift application, command lines
and process wiring, which hold no rules of their own; test and simulation code,
except the processor's contract in `cs-mail-finance/src/simulation.rs`.
