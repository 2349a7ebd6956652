------------------------------ MODULE Settlement ------------------------------
(***************************************************************************)
(* Paid requests to contact a recipient: the settlement kernel             *)
(* (cs-mail-protocol/src/lib.rs) under the application's coordination of   *)
(* the two directions between two members                                  *)
(* (cs-mail-application/src/requests.rs, relationships.rs).                *)
(*                                                                         *)
(* A relationship is one direction: a sender's alias addressing a          *)
(* recipient.  All aliases of one principal share a request history, which *)
(* prices and spaces their requests; the two directions between two        *)
(* members are each other's Opposite.                                      *)
(*                                                                         *)
(* One action is one committed transition: the kernel's manifest, with the *)
(* opposite direction's manifest when the application coordinates one.  A  *)
(* command the code refuses leaves everything as it was and is not an      *)
(* action, so expected versions, which every accepted command must match,  *)
(* do not appear as inputs.                                                *)
(*                                                                         *)
(* Left out as data: identities, prices other than C and S, message        *)
(* contents, generations and journal positions.  Permission to contact     *)
(* without a charge depends on the receiving alias; it is an input here.   *)
(***************************************************************************)
EXTENDS RequestFinancials, Sequences

CONSTANTS
    Relationships,      \* directions: (sender alias, recipient) pairs
    Histories,          \* request histories: (sender principal, recipient) pairs
    HistoryOf,          \* the history a relationship's requests count in
    Opposite,           \* the other direction, or NoOpposite for a guest
    NoOpposite,
    NoRequest,
    QuoteIds,
    QuoteLifetime, SubmissionWindow, DecisionWindow,    \* policy durations
    ExpiryCooldown, RejectionCooldown,
    Backoff,            \* backoff by request level; the last one repeats
    MaxTime,            \* bound: the clock stops here
    LastQuoteTime,      \* bound: no terms are issued later
    MaxVersion          \* bound: decisions of each direction's recipient

ASSUME RelationshipAssumption ==
    /\ HistoryOf \in [Relationships -> Histories]
    /\ NoOpposite \notin Relationships
    /\ Opposite \in [Relationships -> Relationships \cup {NoOpposite}]
    /\ \A x \in Relationships : Opposite[x] # NoOpposite =>
          Opposite[Opposite[x]] = x /\ HistoryOf[Opposite[x]] # HistoryOf[x]
    /\ NoRequest \notin Requests

\* PolicySnapshot::validate: a decision window and a backoff schedule exist.
ASSUME PolicyAssumption ==
    /\ {QuoteLifetime, SubmissionWindow, ExpiryCooldown, RejectionCooldown} \subseteq Nat
    /\ DecisionWindow \in Nat \ {0}
    /\ Backoff \in Seq(Nat) /\ Backoff # <<>>
    /\ {MaxTime, LastQuoteTime} \subseteq Nat
    /\ MaxVersion \in [Relationships -> Nat]

VARIABLES
    now,        \* the time of receipt of the command being applied
    rel,        \* rel[x]: Relationship, with the direction's lane
    hist,       \* hist[h]: RequestHistory
    quotes,     \* quotes[q]: RequestTerms once issued
    used,       \* quotes a request was created on
    req,        \* req[r]: RelationshipRequest
    fin,        \* fin[r]: RequestFinancials
    task        \* task[r]: the request's scheduled task

vars == <<now, rel, hist, quotes, used, req, fin, task>>

-----------------------------------------------------------------------------

RelationshipState == {"Unknown", "Accepted", "ExpressLane", "Rejected", "Blocked", "Revoked"}

\* A reply lane records the accepted request it answers.
Relationship ==
    [ state   : RelationshipState,
      version : Nat,
      epoch   : Nat,
      lane    : {"None", "Granted", "Reply"},
      answers : Requests \cup {NoRequest} ]

RequestHistory ==
    [ level    : Nat,
      earliest : Nat,
      version  : Nat,
      pending  : Requests \cup {NoRequest} ]

RequestTerms ==
    [ relationship : Relationships,
      relVersion   : Nat,
      histVersion  : Nat,
      level        : Nat,
      eligibility  : Nat,
      backoff      : Nat,
      issued       : Nat,
      expires      : Nat ]

NoTerms == [issued |-> "never"]

RequestLifecycle ==
    {"None", "Preparing", "Awaiting", "Accepted", "Rejected", "Expired", "Cancelled"}

\* deadline is the submission deadline of a preparation and the decision
\* deadline of a submission; decided is the time of the event that ended it;
\* offer is the reply epoch the submission was delivered under.
RelationshipRequest ==
    [ relationship : Relationships \cup {NoOpposite},
      quote        : QuoteIds \cup {NoRequest},
      lifecycle    : RequestLifecycle,
      deadline     : Nat,
      at           : Nat,
      decided      : Nat,
      offer        : Nat,
      version      : Nat ]

NoTask == [kind |-> "None", at |-> 0]
ScheduleTask == [kind : {"None", "SubmissionTimeout", "RequestExpiry"}, at : Nat]

Init ==
    /\ now = 0
    /\ rel = [x \in Relationships |->
                [state |-> "Unknown", version |-> 0, epoch |-> 0,
                 lane |-> "None", answers |-> NoRequest]]
    /\ hist = [h \in Histories |->
                [level |-> 0, earliest |-> 0, version |-> 0, pending |-> NoRequest]]
    /\ quotes = [q \in QuoteIds |-> NoTerms]
    /\ used = {}
    /\ req = [r \in Requests |->
                [relationship |-> NoOpposite, quote |-> NoRequest, lifecycle |-> "None",
                 deadline |-> 0, at |-> 0, decided |-> 0, offer |-> 0, version |-> 0]]
    /\ fin = [r \in Requests |-> NewFinancials]
    /\ task = [r \in Requests |-> NoTask]

-----------------------------------------------------------------------------

MaxOf(a, b) == IF a >= b THEN a ELSE b

BackoffFor(level) == Backoff[IF level < Len(Backoff) THEN level + 1 ELSE Len(Backoff)]

Active(r) == req[r].lifecycle \in {"Preparing", "Awaiting"}
ActiveIn(x) == {r \in Requests : req[r].relationship = x /\ Active(r)}
PreparingIn(x) == {r \in ActiveIn(x) : req[r].lifecycle = "Preparing"}
HistoryOfRequest(r) == HistoryOf[req[r].relationship]

AwaitsDecision(r) == req[r].lifecycle = "Awaiting" /\ now <= req[r].deadline

\* Mutant: only a request that is being prepared counts.
OppositePrepared(x) ==
    Opposite[x] # NoOpposite /\ hist[HistoryOf[Opposite[x]]].pending # NoRequest

\* RequestDecision::decide refuses to quote, create or submit while the other
\* direction's request can still be decided.
OppositePending(x) ==
    Opposite[x] # NoOpposite /\ \E r \in ActiveIn(Opposite[x]) : AwaitsDecision(r)

\* A direction has an unresolved request, or an alias sharing its history
\* holds the reservation.
RequestExists(x) == ActiveIn(x) # {} \/ hist[HistoryOf[x]].pending # NoRequest

RepliesRestricted(x) == rel[x].state \in {"Blocked", "Revoked"}

-----------------------------------------------------------------------------
(***************************************************************************)
(* The end of requests.  Close(ending) takes the set of requests that one  *)
(* transition ends, with the outcome of each: cancel_submission,           *)
(* settle_accepted, settle_rejected and settle_expired.  A transition ends *)
(* at most one request of a direction and one of its opposite.             *)
(***************************************************************************)

Closed(r, outcome) ==
    [req[r] EXCEPT !.lifecycle = outcome, !.version = @ + 1, !.decided = now]

\* Mutant: the history's version is left alone.
ExtendCooldownUnversioned(H, from, duration) == [H EXCEPT !.earliest = MaxOf(@, from + duration)]

\* RequestHistory::extend_cooldown
ExtendCooldown(H, from, duration) ==
    [H EXCEPT !.earliest = MaxOf(@, from + duration), !.version = @ + 1]

HistoryClosed(H, r, outcome) ==
    CASE outcome = "Rejected"  -> ExtendCooldown(H, now, RejectionCooldown)
      [] outcome = "Expired"   -> ExtendCooldown(H, req[r].deadline, ExpiryCooldown)
      [] outcome = "Cancelled" -> IF H.pending = r THEN [H EXCEPT !.pending = NoRequest] ELSE H
      [] outcome = "Accepted"  -> H

CloseRequests(ending) ==
    [r \in Requests |-> IF r \in DOMAIN ending THEN Closed(r, ending[r]) ELSE req[r]]

\* Mutant: every ending gives the whole capture back.
CloseFinancialsInFull(ending) ==
    [r \in Requests |-> IF r \in DOMAIN ending THEN SettleInFull(r, fin[r], ending[r]) ELSE fin[r]]

CloseFinancials(ending) ==
    [r \in Requests |-> IF r \in DOMAIN ending THEN Settle(r, fin[r], ending[r]) ELSE fin[r]]

CloseTasks(ending) ==
    [r \in Requests |-> IF r \in DOMAIN ending THEN NoTask ELSE task[r]]

CloseHistories(ending) ==
    [h \in Histories |->
        IF \E r \in DOMAIN ending : HistoryOfRequest(r) = h
        THEN LET r == CHOOSE r \in DOMAIN ending : HistoryOfRequest(r) = h
             IN  HistoryClosed(hist[h], r, ending[r])
        ELSE hist[h]]

Close(ending) ==
    /\ \A r \in DOMAIN ending : CanSettle(fin[r], ending[r])
    /\ req' = CloseRequests(ending)
    /\ fin' = CloseFinancials(ending)
    /\ task' = CloseTasks(ending)
    /\ hist' = CloseHistories(ending)

-----------------------------------------------------------------------------
(***************************************************************************)
(* The sender's commands.                                                  *)
(***************************************************************************)

TermsFor(x) ==
    LET H == hist[HistoryOf[x]]
    IN  [ relationship |-> x,
          relVersion   |-> rel[x].version,
          histVersion  |-> H.version,
          level        |-> H.level,
          eligibility  |-> H.earliest,
          backoff      |-> BackoffFor(H.level + 1),
          issued       |-> now,
          expires      |-> now + QuoteLifetime ]

\* Terms of a bonded request.  An existing request or direct contact is
\* answered without terms and changes nothing.
IssueTerms(x, q) ==
    /\ now <= LastQuoteTime
    /\ ~OppositePending(x)
    /\ ~RequestExists(x)
    /\ rel[x].state # "Blocked"
    /\ now >= hist[HistoryOf[x]].earliest
    /\ quotes[q] = NoTerms
    /\ quotes' = [quotes EXCEPT ![q] = TermsFor(x)]
    /\ UNCHANGED <<now, rel, hist, used, req, fin, task>>

\* validate_request_terms: the terms are open and still describe the present.
TermsCurrent(t) ==
    LET H == hist[HistoryOf[t.relationship]]
    IN  /\ t.issued <= now /\ now <= t.expires
        /\ t.level = H.level
        /\ t.eligibility = H.earliest
        /\ t.relVersion = rel[t.relationship].version
        /\ t.histVersion = H.version

CreateRequest(r, q) ==
    LET t == quotes[q]
        x == t.relationship
        h == HistoryOf[x]
        deadline == now + SubmissionWindow
    IN  /\ t # NoTerms
        /\ ~OppositePending(x)
        /\ rel[x].state # "Blocked"
        /\ TermsCurrent(t)
        /\ req[r].lifecycle = "None"
        /\ ~RequestExists(x)
        /\ q \notin used
        /\ now >= hist[h].earliest
        /\ hist' = [hist EXCEPT ![h].pending = r]
        /\ used' = used \cup {q}
        /\ fin' = [fin EXCEPT ![r] = NewFinancials]
        /\ req' = [req EXCEPT ![r] = [@ EXCEPT !.relationship = x, !.quote = q,
                                               !.lifecycle = "Preparing",
                                               !.deadline = deadline]]
        /\ task' = [task EXCEPT ![r] = [kind |-> "SubmissionTimeout", at |-> deadline]]
        /\ UNCHANGED <<now, rel, quotes>>

\* What submit_request_to_recipient checks before it looks at the funding.
CanAttemptSubmission(r) ==
    LET x == req[r].relationship
    IN  /\ req[r].lifecycle = "Preparing"
        /\ ~OppositePending(x)
        /\ Opposite[x] # NoOpposite => ~RepliesRestricted(Opposite[x])
        /\ rel[x].state # "Blocked"

\* submission_failure, and a refused admission: both cancel the preparation.
\* refused stands for direct contact, a message no longer valid, a changed
\* declaration and a refused admission.
SubmissionFails(r, refused) ==
    LET H == hist[HistoryOfRequest(r)]
    IN  \/ refused
        \/ now > req[r].deadline
        \/ quotes[req[r].quote].histVersion # H.version
        \/ now < H.earliest

SubmitFailing(r, refused) ==
    /\ CanAttemptSubmission(r)
    /\ SubmissionFails(r, refused)
    /\ Close([o \in {r} |-> "Cancelled"])
    /\ UNCHANGED <<now, rel, quotes, used>>

\* Mutant: the funding is not looked at.
SubmissionAuthorizedUnfunded(r) ==
    /\ hist[HistoryOfRequest(r)].pending = r
    /\ quotes[req[r].quote].relVersion = rel[req[r].relationship].version

\* validate_submission_authority
SubmissionAuthorized(r) ==
    LET t == quotes[req[r].quote]
    IN  /\ FundingFinalized(fin[r]) /\ fin[r].capture # "Reversed"
        /\ now >= t.eligibility
        /\ hist[HistoryOfRequest(r)].pending = r
        /\ t.relVersion = rel[req[r].relationship].version

\* Mutant: the level stays.
RecordSubmissionFlat(H, backoff) == [ExtendCooldown(H, now, backoff) EXCEPT !.pending = NoRequest]

\* RequestHistory::record_submission
RecordSubmission(H, backoff) ==
    [ExtendCooldown(H, now, backoff) EXCEPT !.level = @ + 1, !.pending = NoRequest]

\* receive_native_request: the request the recipient was preparing in the
\* other direction gives way.
Superseded(x) == IF Opposite[x] = NoOpposite THEN {} ELSE PreparingIn(Opposite[x])

\* The submission as its recipient receives it.
Delivered(r, deadline) ==
    LET y == Opposite[req[r].relationship]
    IN  [req[r] EXCEPT !.lifecycle = "Awaiting", !.at = now, !.deadline = deadline,
                       !.version = @ + 1,
                       !.offer = IF y = NoOpposite THEN 0 ELSE rel[y].epoch]

\* The submission and, in the same transition, the cancellation of what it
\* supersedes.
Submit(r) ==
    LET x == req[r].relationship
        h == HistoryOf[x]
        deadline == now + DecisionWindow
        ending == [o \in Superseded(x) |-> "Cancelled"]
    IN  /\ CanAttemptSubmission(r)
        /\ ~SubmissionFails(r, FALSE)
        /\ SubmissionAuthorized(r)
        /\ \A o \in Superseded(x) : CanSettle(fin[o], "Cancelled")
        /\ req' = [CloseRequests(ending) EXCEPT ![r] = Delivered(r, deadline)]
        /\ hist' = [CloseHistories(ending) EXCEPT
                      ![h] = RecordSubmission(@, quotes[req[r].quote].backoff)]
        /\ task' = [CloseTasks(ending) EXCEPT
                      ![r] = [kind |-> "RequestExpiry", at |-> deadline]]
        /\ fin' = CloseFinancials(ending)
        /\ UNCHANGED <<now, rel, quotes, used>>

\* CancelRequestSubmission by the sender, or by the provider after a failure.
CancelRequest(r) ==
    /\ req[r].lifecycle = "Preparing"
    /\ Close([o \in {r} |-> "Cancelled"])
    /\ UNCHANGED <<now, rel, quotes, used>>

-----------------------------------------------------------------------------
(***************************************************************************)
(* The recipient's commands.                                               *)
(***************************************************************************)

\* relationship_decision: what becomes of the direction's active request.
DecisionOutcome(r, decision) ==
    IF req[r].lifecycle = "Preparing" THEN "Cancelled"
    ELSE IF now > req[r].deadline THEN "Expired"
    ELSE IF decision = "Accept" THEN "Accepted" ELSE "Rejected"

\* accept_express_lane has no deadline.
LaneOutcome(r) == IF req[r].lifecycle = "Preparing" THEN "Cancelled" ELSE "Accepted"

\* Mutant: the epoch of the offer is not compared.
FormsReplyLaneAnyEpoch(r, granted) ==
    LET y == Opposite[req[r].relationship]
    IN  /\ y # NoOpposite
        /\ ~RepliesRestricted(y)
        /\ rel[y].state # "Accepted"
        /\ ~(rel[y].lane = "Granted" /\ granted)

\* ReplyLane::decide: the accepted request of one direction opens the other,
\* unless its recipient withdrew since the submission or access exists.
\* granted says whether a recipient-granted lane gives access now.
FormsReplyLane(r, granted) ==
    LET y == Opposite[req[r].relationship]
    IN  /\ y # NoOpposite
        /\ ~RepliesRestricted(y)
        /\ req[r].offer = rel[y].epoch
        /\ rel[y].state # "Accepted"
        /\ ~(rel[y].lane = "Granted" /\ granted)

\* Every change of a relationship is a new version of it.
Versioned(R) == [R EXCEPT !.version = @ + 1]

\* A change of the direction x to next that ends its active request as
\* outcome says, with the reply lane in the other direction when it accepts
\* (RequestDecision::coordinate_acceptance).
ChangeRelationship(x, next, outcome, granted) ==
    LET y        == Opposite[x]
        answered == {r \in DOMAIN outcome : outcome[r] = "Accepted" /\ FormsReplyLane(r, granted)}
        reverse  == IF answered = {} THEN {} ELSE ActiveIn(y)
        ending   == [r \in DOMAIN outcome \cup reverse |->
                        IF r \in DOMAIN outcome THEN outcome[r] ELSE LaneOutcome(r)]
    IN  /\ rel[x].version < MaxVersion[x]
        /\ answered # {} => rel[y].version < MaxVersion[y]
        /\ rel' = [z \in Relationships |->
                     IF z = x THEN Versioned(next)
                     ELSE IF z = y /\ answered # {}
                     THEN Versioned([rel[y] EXCEPT !.state = "ExpressLane", !.lane = "Reply",
                                                   !.answers = CHOOSE r \in answered : TRUE])
                     ELSE rel[z]]
        /\ Close(ending)
        /\ UNCHANGED <<now, quotes, used>>

\* terminate_lane
Terminated(R) == [R EXCEPT !.epoch = @ + 1, !.lane = "None", !.answers = NoRequest]

Accept(x, granted) ==
    /\ rel[x].state # "Blocked"
    /\ rel[x].state = "Accepted" => ActiveIn(x) # {}
    /\ ChangeRelationship(x, [rel[x] EXCEPT !.state = "Accepted"],
                          [r \in ActiveIn(x) |-> DecisionOutcome(r, "Accept")], granted)

Reject(x) ==
    /\ rel[x].state \notin {"Accepted", "Blocked"}
    /\ ChangeRelationship(x, [rel[x] EXCEPT !.state = "Rejected"],
                          [r \in ActiveIn(x) |-> DecisionOutcome(r, "Reject")], FALSE)

Block(x) ==
    ChangeRelationship(x, [Terminated(rel[x]) EXCEPT !.state = "Blocked"],
                       [r \in ActiveIn(x) |-> DecisionOutcome(r, "Block")], FALSE)

\* LaneAcceptance::decide with accept_express_lane: a lane the recipient grants.
GrantLane(x, granted) ==
    /\ rel[x].state # "Blocked"
    /\ ChangeRelationship(x, [rel[x] EXCEPT !.state = "ExpressLane", !.lane = "Granted",
                                            !.answers = NoRequest],
                          [r \in ActiveIn(x) |-> LaneOutcome(r)], granted)

Unblock(x) ==
    /\ rel[x].state = "Blocked"
    /\ rel[x].version < MaxVersion[x]
    /\ rel' = [rel EXCEPT ![x] = Versioned([@ EXCEPT !.state = "Rejected"])]
    /\ UNCHANGED <<now, hist, quotes, used, req, fin, task>>

\* Revocation withdraws access and leaves an active request as it is.
Revoke(x) ==
    /\ rel[x].version < MaxVersion[x]
    /\ rel' = [rel EXCEPT ![x] = Versioned([Terminated(@) EXCEPT !.state = "Revoked"])]
    /\ UNCHANGED <<now, hist, quotes, used, req, fin, task>>

-----------------------------------------------------------------------------
(***************************************************************************)
(* The provider, its scheduler and its clock.                              *)
(***************************************************************************)

ExpireRequest(r) ==
    /\ req[r].lifecycle = "Awaiting"
    /\ now > req[r].deadline
    /\ Close([o \in {r} |-> "Expired"])
    /\ UNCHANGED <<now, rel, quotes, used>>

\* claim_due_schedules: decision deadlines are inclusive, so an expiry is due
\* only after its time.
Due(r) ==
    \/ task[r].kind = "SubmissionTimeout" /\ now >= task[r].at
    \/ task[r].kind = "RequestExpiry" /\ now > task[r].at

\* execute_claimed_schedule runs the task's command.  Its other branch, for a
\* task whose request has moved on, is never taken between transitions: see
\* TaskMatchesLifecycle.
RunTask(r) ==
    /\ Due(r)
    /\ \/ /\ task[r].kind = "SubmissionTimeout" /\ req[r].lifecycle = "Preparing"
          /\ now >= req[r].deadline
          /\ Close([o \in {r} |-> "Cancelled"])
          /\ UNCHANGED <<now, rel, quotes, used>>
       \/ task[r].kind = "RequestExpiry" /\ ExpireRequest(r)

\* record_payment: evidence is recorded whatever the state of the request; a
\* capture that is voided ends a preparation that was waiting for it.
ConfirmPayment(r, e) ==
    /\ req[r].lifecycle # "None"
    /\ CanRecord(fin[r], e)
    /\ fin' = [fin EXCEPT ![r] = RecordPayment(r, @, e)]
    /\ LET ending == [o \in {r} |-> "Cancelled"]
       IN  IF VoidsCapture(fin[r], e) /\ req[r].lifecycle = "Preparing"
           THEN /\ req' = CloseRequests(ending)
                /\ hist' = CloseHistories(ending)
                /\ task' = CloseTasks(ending)
           ELSE UNCHANGED <<req, hist, task>>
    /\ UNCHANGED <<now, rel, quotes, used>>

Tick ==
    /\ now < MaxTime
    /\ now' = now + 1
    /\ UNCHANGED <<rel, hist, quotes, used, req, fin, task>>

Next ==
    \/ \E x \in Relationships :
          \/ \E q \in QuoteIds : IssueTerms(x, q)
          \/ \E granted \in BOOLEAN : Accept(x, granted) \/ GrantLane(x, granted)
          \/ Reject(x) \/ Block(x) \/ Unblock(x) \/ Revoke(x)
    \/ \E r \in Requests :
          \/ \E q \in QuoteIds : CreateRequest(r, q)
          \/ \E refused \in BOOLEAN : SubmitFailing(r, refused)
          \/ Submit(r) \/ CancelRequest(r) \/ ExpireRequest(r) \/ RunTask(r)
          \/ \E e \in PaymentEvidence : ConfirmPayment(r, e)
    \/ Tick

Spec == Init /\ [][Next]_vars

-----------------------------------------------------------------------------

\* Every record keeps its shape (model.rs).
TypeOK ==
    /\ now \in Nat
    /\ rel \in [Relationships -> Relationship]
    /\ hist \in [Histories -> RequestHistory]
    /\ quotes \in [QuoteIds -> RequestTerms \cup {NoTerms}]
    /\ used \subseteq QuoteIds
    /\ req \in [Requests -> RelationshipRequest]
    /\ fin \in [Requests -> Financials]
    /\ task \in [Requests -> ScheduleTask]

Submitted(r) == req[r].lifecycle \in {"Awaiting", "Accepted", "Rejected", "Expired"}

\* The reservation of a history and the preparing requests of all the aliases
\* that share it are the same thing: a preparing request always holds its
\* history's reservation, so two aliases never prepare at once, and whatever
\* ends a preparation (submission, cancellation, timeout, decision, a voided
\* capture, the other side's submission) frees the history.
ReservationMatchesPreparation ==
    /\ \A h \in Histories : hist[h].pending # NoRequest =>
          /\ req[hist[h].pending].lifecycle = "Preparing"
          /\ HistoryOfRequest(hist[h].pending) = h
    /\ \A r \in Requests : req[r].lifecycle = "Preparing" =>
          hist[HistoryOfRequest(r)].pending = r

\* ProtocolState::validate: a direction has at most one unresolved request, or
\* its state could not be loaded again.  A blocked direction has none.
OneActiveRequest ==
    \A x \in Relationships :
        /\ \A r, s \in ActiveIn(x) : r = s
        /\ rel[x].state = "Blocked" => ActiveIn(x) = {}

\* The conversation and the money agree on the outcome of every request: a
\* request that ended is settled the way it ended, one that can still be
\* decided is unsettled, and one before the recipient is funded.  Whatever
\* decision, timeout or evidence comes next, settle never refuses it.
LifecycleMatchesSettlement ==
    \A r \in Requests :
        /\ fin[r].settlement =
              IF req[r].lifecycle \in {"None", "Preparing", "Awaiting"} THEN "None"
              ELSE req[r].lifecycle
        /\ Submitted(r) => FundingFinalized(fin[r])

\* The task that will end a request is scheduled exactly while the request is
\* unresolved, for the deadline in force.
TaskMatchesLifecycle ==
    \A r \in Requests :
        task[r] = CASE req[r].lifecycle = "Preparing" ->
                          [kind |-> "SubmissionTimeout", at |-> req[r].deadline]
                    [] req[r].lifecycle = "Awaiting" ->
                          [kind |-> "RequestExpiry", at |-> req[r].deadline]
                    [] OTHER -> NoTask

\* Collateral is forfeited only by a decision inside the window, and a request
\* expires only after it, whichever of the recipient, the scheduler and the
\* provider ends it.
OutcomeMatchesWindow ==
    \A r \in Requests :
        /\ req[r].lifecycle = "Rejected" => req[r].decided <= req[r].deadline
        /\ req[r].lifecycle = "Expired" => req[r].decided > req[r].deadline

\* Conversation, money and schedule agree: they change together in every
\* decision, timeout and piece of evidence, and at the deadline the recipient,
\* the scheduler and the provider agree who is late.
LifecycleAgrees ==
    TypeOK /\ LifecycleMatchesSettlement /\ TaskMatchesLifecycle /\ OutcomeMatchesWindow

\* Of two members who ask each other, the first to submit wins: while its
\* request can be decided the other direction has no request that could be
\* submitted or decided.
NoCrossedRequests ==
    \A r, s \in Requests :
        /\ AwaitsDecision(r)
        /\ s \in ActiveIn(Opposite[req[r].relationship])
        => req[s].lifecycle = "Awaiting" /\ now > req[s].deadline

\* One request at a time, for each direction, for each sender with all of its
\* aliases, and between two members who ask each other, whichever of them
\* quotes, prepares, submits or ends first.
OneRequestAtATime == ReservationMatchesPreparation /\ OneActiveRequest /\ NoCrossedRequests

\* The price escalation cannot be avoided by collecting quotes: the history's
\* level counts the submissions of all the aliases sharing it, and no two
\* submitted requests used terms of the same level.
EachLevelUsedOnce ==
    \A h \in Histories :
        LET S == {r \in Requests : Submitted(r) /\ HistoryOfRequest(r) = h}
        IN  /\ \A r \in S : quotes[req[r].quote].level < hist[h].level
            /\ \A r, s \in S : quotes[req[r].quote].level = quotes[req[s].quote].level => r = s

\* Submissions on one history keep their distance, across aliases: the backoff
\* of the earlier one, and the cooldown of a rejection or an expiry that was
\* settled before it.
SubmissionsSpaced ==
    \A r, s \in Requests :
        r # s /\ Submitted(r) /\ Submitted(s) /\ HistoryOfRequest(r) = HistoryOfRequest(s) =>
            /\ quotes[req[r].quote].level < quotes[req[s].quote].level =>
                  req[s].at >= req[r].at + quotes[req[r].quote].backoff
            /\ req[r].lifecycle = "Rejected" /\ req[s].at > req[r].decided =>
                  req[s].at >= req[r].decided + RejectionCooldown
            /\ req[r].lifecycle = "Expired" /\ req[s].at > req[r].decided =>
                  req[s].at >= req[r].deadline + ExpiryCooldown

\* Price and pace cannot be avoided by collecting quotes, by other aliases or by
\* letting requests lapse.
EscalationKept == EachLevelUsedOnce /\ SubmissionsSpaced

\* A reply lane answers an accepted request of the other direction, and its
\* recipient has not blocked or revoked since that request was submitted: an
\* acceptance never restores access that was withdrawn.
ReplyLaneStillOffered ==
    \A x \in Relationships :
        rel[x].lane = "Reply" =>
            LET r == rel[x].answers
            IN  /\ r \in Requests
                /\ req[r].relationship = Opposite[x]
                /\ req[r].lifecycle = "Accepted"
                /\ req[r].offer = rel[x].epoch

\* The money of every request stays in order under the conversation: each
\* transition is a settlement, a piece of evidence, an opening or nothing to
\* the specification of the payments, whose properties are therefore the
\* conversation's too.
Payments == INSTANCE RequestPayments WITH
    opened <- {r \in Requests : req[r].lifecycle # "None"}

PaymentsSpec == Payments!Spec

\* Nothing that ended begins again, and what quotes are checked against only
\* moves forward: a change of a relationship or of a history always changes
\* its version, so terms issued before the change cannot be used after it.
VersionsCoverChanges ==
    [][/\ \A r \in Requests :
            /\ req[r].lifecycle \in RequestSettlement => req'[r] = req[r]
            /\ req'[r].lifecycle # req[r].lifecycle /\ req[r].lifecycle # "None" =>
                  req'[r].version > req[r].version
       /\ \A x \in Relationships : rel'[x] # rel[x] => rel'[x].version > rel[x].version
       /\ \A h \in Histories :
            /\ hist'[h].earliest >= hist[h].earliest
            /\ hist'[h].level # hist[h].level \/ hist'[h].earliest # hist[h].earliest =>
                  hist'[h].version > hist[h].version]_vars
=============================================================================
