---------------------------- MODULE ExternalEmail ----------------------------
(***************************************************************************)
(* Conversations of a member with a mailbox outside the service:           *)
(* cs-mail-correspondence/src/external, the commands and decisions in      *)
(* cs-mail-application/src/correspondence/external.rs, their transactions  *)
(* in cs-mail-storage-postgres/src/external.rs and notices.rs, and the     *)
(* processes around them: the delivery worker, the carrier's callbacks,    *)
(* the SMTP receiver and the member's client.                              *)
(*                                                                         *)
(* One member, one guest mailbox and one receiving address.  Every         *)
(* transaction holds the receipt-order lock and is one step; the calls     *)
(* between them are steps of their own.  A command that is refused, or     *)
(* sent again, leaves at most its receipt and is no step.  Times are left  *)
(* out: the comparisons only refuse a clock that runs backwards, and       *)
(* copies do not expire.  The lane's windows and horizon are those of      *)
(* Lanes: here it is the number of messages it still admits.  Senders      *)
(* paired with an address, its replacement and the notices of a guest's    *)
(* paid requests are left out.                                             *)
(***************************************************************************)
EXTENDS Naturals, FiniteSets, Sequences, SequencesExt

CONSTANTS
    None,
    Conversations,
    Outgoing,       \* the member's messages
    InConversation, \* InConversation[m]: the conversation of a message
    Mails,          \* the guest's mails
    Thread,         \* Thread[i]: the conversation a mail belongs to or begins
    ToAddress,      \* the mails sent to the member's address; each begins a
                    \* conversation, the others are replies
    Events,         \* the carrier's reports of a letter
    Workers,
    Sessions,       \* SMTP sessions
    Limit,          \* the allowance of a lane
    PageSize,       \* the rows of a page of observations
    MaxCommands,    \* bound: the member's commands and decisions
    MaxFaults       \* bound: processes that stop, answers that are lost

\* what the carrier is given: messages, and the prompts mails are answered with
Message(m) == <<"message", m>>
Notice(i) == <<"notice", i>>
Letters == {Message(m) : m \in Outgoing} \cup {Notice(i) : i \in ToAddress}

ASSUME ExternalAssumption ==
    /\ InConversation \in [Outgoing -> Conversations]
    /\ Thread \in [Mails -> Conversations]
    /\ ToAddress \subseteq Mails
    /\ IsInjective([i \in ToAddress |-> Thread[i]])
    /\ Outgoing \cap Mails = {}
    /\ None \notin Conversations \cup Outgoing \cup Mails
    /\ {Limit, PageSize} \subseteq Nat \ {0}
    /\ MaxCommands \in Nat /\ MaxFaults \in Nat

VARIABLES
    rel,        \* the relationship of the guest to the member, once opened
    lane,       \* its lane: the version it was granted at, the messages it still admits
    scope,      \* the version at which the guest was given the address
    covered,    \* the member's account is active and its service paid for
    address,    \* the receiving address
    conv,       \* conv[k]: ExternalConversation
    delivery,   \* delivery[l]: DeliveryState
    events,     \* events[l]: the reports recorded
    carrier,    \* carrier[l]: how often a letter was submitted, and whether it was taken
    worker,     \* worker[w]: the letter a worker is at, and how far
    session,    \* session[s]: the mail a receiver is at, and what it prepared
    admitted,   \* admitted[i]: why a mail was delivered to the member
    prompted,   \* the mails that were answered with a prompt
    notified,   \* a prompt was queued within the last day
    unread,     \* unread[k]: the messages of a conversation whose revision is
                \* beyond what the client has read, in the order of their revisions
    bound,      \* bound[k]: how many of them the fetch that is under way will read
    seen,       \* seen[x]: the client's copy of a message
    commands,   \* commands and decisions so far
    faults,
    withdrawn   \* history: letters that waited when their disclosure was withdrawn

contact == <<rel, lane, scope, covered, address>>
dispatch == <<delivery, events, carrier, worker, withdrawn>>
inbound == <<session, admitted, prompted, notified>>
observation == <<unread, bound>>
vars == <<contact, conv, dispatch, inbound, observation, seen, commands, faults>>

-----------------------------------------------------------------------------

RelationshipState ==
    {"Unknown", "Accepted", "ExpressLane", "Rejected", "Blocked", "Revoked"}
DeliveryState ==
    {"None", "Waiting", "Cancelled", "DispatchBegun", "Accepted", "Failed"}

Relationship == [state : RelationshipState, version : Nat]
Lane == [id : Nat, left : 0..Limit]
ExternalConversation ==
    [invitation : {"NotRequired", "Pending", "Rejected"}, version : Nat,
     disclosure : {"NotGranted", "Granted", "Withdrawn"}, decided : BOOLEAN]
\* why a mail was admitted, on which lane, and what its conversation said then
Admittance ==
    [on : {"AliasLane", "Standing", "Lane", "Pending"}, lane : Nat \cup {None}, decided : BOOLEAN]

ASSUME NoneIsAbsence ==
    /\ None \notin Nat /\ None \notin Relationship /\ None \notin Lane
    /\ None \notin ExternalConversation /\ None \notin Admittance

\* What a member sees of a message: its delivery and the carrier's reports.
View(x) ==
    IF x \in Outgoing THEN <<delivery[Message(x)], events[Message(x)]>> ELSE <<"Received", {}>>

TypeOK ==
    /\ rel \in Relationship \cup {None}
    /\ lane \in Lane \cup {None}
    /\ covered \in BOOLEAN
    /\ scope \in Nat \cup {None}
    /\ address \in [policy : {"Bonded", "AliasScoped"}, broad : BOOLEAN,
                    restricted : BOOLEAN, kept : SUBSET Conversations,
                    overtaken : SUBSET Letters]
    /\ conv \in [Conversations -> ExternalConversation \cup {None}]
    /\ delivery \in [Letters -> DeliveryState]
    /\ events \in [Letters -> SUBSET Events]
    /\ carrier \in [Letters -> [times : Nat, taken : BOOLEAN]]
    /\ worker \in [Workers -> [letter : Letters \cup {None},
                               step : {"idle", "begin", "submit", "accepted", "failed"}]]
    /\ session \in [Sessions -> [mail : Mails \cup {None}, step : {"idle", "admit", "prompt"},
                                 lane : Nat \cup {None}]]
    /\ admitted \in [Mails -> Admittance \cup {None}]
    /\ prompted \subseteq Mails
    /\ notified \in BOOLEAN
    /\ unread \in [Conversations -> Seq(Outgoing \cup Mails)]
    /\ bound \in [Conversations -> Nat \cup {None}]
    /\ \A k \in Conversations : bound[k] # None => bound[k] <= Len(unread[k])
    /\ seen \in [Outgoing \cup Mails -> {None} \cup (DeliveryState \cup {"Received"}) \X SUBSET Events]
    /\ commands \in 0..MaxCommands /\ faults \in 0..MaxFaults
    /\ withdrawn \subseteq Letters

Init ==
    /\ rel = None
    /\ lane = None
    /\ scope = None
    /\ covered = TRUE
    /\ \E policy \in {"Bonded", "AliasScoped"} :
         address = [policy |-> policy, broad |-> policy = "AliasScoped",
                    restricted |-> FALSE, kept |-> {}, overtaken |-> {}]
    /\ conv = [k \in Conversations |-> None]
    /\ delivery = [l \in Letters |-> "None"]
    /\ events = [l \in Letters |-> {}]
    /\ carrier = [l \in Letters |-> [times |-> 0, taken |-> FALSE]]
    /\ worker = [w \in Workers |-> [letter |-> None, step |-> "idle"]]
    /\ session = [s \in Sessions |-> [mail |-> None, step |-> "idle", lane |-> None]]
    /\ admitted = [i \in Mails |-> None]
    /\ prompted = {}
    /\ notified = FALSE
    /\ unread = [k \in Conversations |-> << >>]
    /\ bound = [k \in Conversations |-> None]
    /\ seen = [x \in Outgoing \cup Mails |-> None]
    /\ commands = 0 /\ faults = 0
    /\ withdrawn = {}

Given == commands < MaxCommands /\ commands' = commands + 1
Fault == faults < MaxFaults /\ faults' = faults + 1

ConversationOf(x) == IF x \in Outgoing THEN InConversation[x] ELSE Thread[x]

Precedes(s, x, y) == \E i, j \in DOMAIN s : i < j /\ s[i] = x /\ s[j] = y

\* observe_message, for each message changed: it moves behind all the others,
\* which stay in their order, and out of the bound of a fetch that is under way
Observe(k, xs) ==
    LET rest == ToSet(unread[k]) \ xs
        within == IF bound[k] = None THEN {} ELSE {n \in 1..bound[k] : unread[k][n] \in xs}
    IN  /\ \E left \in SetToSeqs(rest), moved \in SetToSeqs(xs) :
             /\ \A x, y \in rest : Precedes(unread[k], x, y) => Precedes(left, x, y)
             /\ unread' = [unread EXCEPT ![k] = left \o moved]
        /\ bound' = [bound EXCEPT ![k] = IF @ = None THEN None ELSE @ - Cardinality(within)]

ObserveMessage(x) == Observe(ConversationOf(x), {x})
ObserveLetter(l) == IF l[1] = "message" THEN ObserveMessage(l[2]) ELSE UNCHANGED observation

-----------------------------------------------------------------------------
(***************************************************************************)
(* The member's decisions about the guest (cs-mail-protocol) and about the *)
(* address (cs-mail-accounts/src/aliases.rs).                              *)
(***************************************************************************)

Related(state) == rel # None /\ rel.state = state
Blocked == Related("Blocked")

\* Every decision is a new version, whatever conversations it concerns.
Decided(state) ==
    /\ rel' = [state |-> state, version |-> rel.version + 1]
    /\ conv' = [k \in Conversations |->
                  IF conv[k] = None THEN None ELSE [conv[k] EXCEPT !.decided = TRUE]]

\* relationship_decision, unblock and revoke; a grant opens a new lane
Decide(state) ==
    /\ Given
    /\ rel # None
    /\ CASE state \in {"Blocked", "Revoked"} -> lane' = None
         [] state = "Rejected"    -> rel.state # "Accepted" /\ UNCHANGED lane
         [] state = "Accepted"    -> rel.state \notin {"Blocked", "Accepted"} /\ UNCHANGED lane
         [] state = "ExpressLane" -> rel.state # "Blocked" /\ lane' = [id |-> rel.version + 1, left |-> Limit]
    /\ Decided(state)
    /\ UNCHANGED <<scope, covered, address, dispatch, inbound, observation, seen, faults>>

\* scope_sender
ScopeSender ==
    /\ Given
    /\ Related("Accepted") \/ (Related("ExpressLane") /\ lane # None)
    /\ scope' = rel.version
    /\ UNCHANGED <<rel, lane, covered, address, conv, dispatch, inbound, observation, seen, faults>>

\* Service ends or is paid for again.
Cover ==
    /\ Given
    /\ covered' = ~covered
    /\ UNCHANGED <<rel, lane, scope, address, conv, dispatch, inbound, observation, seen, faults>>

\* permission_change, Open and Remove: a prompt queued before it is overtaken.
Permit ==
    /\ Given
    /\ \E broad \in {b \in BOOLEAN : b => address.policy = "AliasScoped"} :
         address' = [address EXCEPT !.broad = broad,
                        !.overtaken = @ \cup {l \in Letters : l[1] = "notice" /\ delivery[l] = "Waiting"}]
    /\ UNCHANGED <<rel, lane, scope, covered, conv, dispatch, inbound, observation, seen, faults>>

\* Alias::restrict: the conversations it has admitted stay.
RestrictAddress ==
    /\ Given
    /\ ~address.restricted
    /\ address' = [address EXCEPT !.restricted = TRUE,
                                  !.kept = {Thread[i] : i \in {j \in Mails : admitted[j] # None}}]
    /\ UNCHANGED <<rel, lane, scope, covered, conv, dispatch, inbound, observation, seen, faults>>

CheckConversation(k) == address.restricted => k \in address.kept

\* admission and relationship_basis: what the address answers to the guest
RouteDecision(k) ==
    LET scoped == rel # None /\ scope = rel.version IN
    IF ~covered \/ Blocked \/ ~CheckConversation(k) THEN "Refuse"
    ELSE IF address.broad THEN "AliasLane"
    ELSE IF scoped /\ Related("Accepted") THEN "Standing"
    ELSE IF scoped /\ Related("ExpressLane") THEN IF lane # None THEN "SenderLane" ELSE "Refuse"
    ELSE IF address.policy = "Bonded" THEN "Request" ELSE "Refuse"

-----------------------------------------------------------------------------
(***************************************************************************)
(* The member's commands.                                                  *)
(***************************************************************************)

\* open_guest_relationship
Opened == IF rel = None THEN [state |-> "Unknown", version |-> 0] ELSE rel

\* ExternalConversation::start
Started(r) ==
    [ invitation |-> IF r.state \in {"Accepted", "ExpressLane"} THEN "NotRequired" ELSE "Pending",
      version |-> r.version, disclosure |-> "Granted", decided |-> FALSE ]

\* ExternalConversation::inbound
Inbound == [invitation |-> "NotRequired", version |-> 0, disclosure |-> "NotGranted", decided |-> FALSE]

\* Mutant: an invitation lasts until it is rejected.
PendingAccessAnyVersion(c) == rel.state # "Blocked" /\ c.invitation = "Pending"

\* pending_access: any decision since the invitation ends it.
PendingAccess(c) ==
    /\ rel.state # "Blocked"
    /\ c.invitation = "Pending" /\ c.version = rel.version

Queued(m) ==
    /\ delivery[Message(m)] = "None"
    /\ delivery' = [delivery EXCEPT ![Message(m)] = "Waiting"]
    /\ ObserveMessage(m)
    /\ UNCHANGED <<events, carrier, worker, withdrawn>>

\* the conversations that mails to the address begin, one each
Beginning == {Thread[i] : i \in ToAddress}

Start(m) ==
    LET k == InConversation[m] IN
    /\ Given
    /\ conv[k] = None /\ k \notin Beginning
    /\ CheckConversation(k) /\ covered
    /\ Opened.state # "Blocked"
    /\ rel' = Opened
    /\ conv' = [conv EXCEPT ![k] = Started(Opened)]
    /\ Queued(m)
    /\ UNCHANGED <<lane, scope, covered, address, inbound, seen, faults>>

\* Send, with consent to disclose or under the consent there is
Send(m, disclose) ==
    LET k == InConversation[m] IN
    /\ Given
    /\ conv[k] # None
    /\ covered /\ ~Blocked
    /\ disclose \/ conv[k].disclosure = "Granted"
    /\ conv' = [conv EXCEPT ![k].disclosure = "Granted"]
    /\ Queued(m)
    /\ UNCHANGED <<contact, inbound, seen, faults>>

RejectInvitation(k) ==
    /\ Given
    /\ conv[k] # None /\ PendingAccess(conv[k]) /\ rel.state # "Accepted"
    /\ conv' = [conv EXCEPT ![k].invitation = "Rejected"]
    /\ UNCHANGED <<contact, dispatch, inbound, observation, seen, faults>>

LettersOf(k) == {Message(m) : m \in {n \in Outgoing : InConversation[n] = k}}

\* DeliveryState::cancel, of every delivery of the conversation
Cancelled(k) ==
    [l \in Letters |-> IF l \in LettersOf(k) /\ delivery[l] = "Waiting" THEN "Cancelled" ELSE delivery[l]]

WithdrawDisclosure(k) ==
    LET queued == {m \in Outgoing : InConversation[m] = k /\ delivery[Message(m)] # "None"} IN
    /\ Given
    /\ conv[k] # None
    /\ conv' = [conv EXCEPT ![k].disclosure = IF @ = "Granted" THEN "Withdrawn" ELSE @]
    /\ delivery' = Cancelled(k)
    /\ withdrawn' = withdrawn \cup {l \in LettersOf(k) : delivery[l] = "Waiting"}
    /\ Observe(k, queued)
    /\ UNCHANGED <<contact, events, carrier, worker, inbound, seen, faults>>

GrantDisclosure(k) ==
    /\ Given
    /\ conv[k] # None
    /\ covered /\ ~Blocked
    /\ conv' = [conv EXCEPT ![k].disclosure = "Granted"]
    /\ UNCHANGED <<contact, dispatch, inbound, observation, seen, faults>>

-----------------------------------------------------------------------------
(***************************************************************************)
(* Workers.  A candidate is read from the list of what waits; it is begun, *)
(* submitted and finished in separate transactions.                        *)
(***************************************************************************)

At(w, l, step) == worker' = [worker EXCEPT ![w] = [letter |-> l, step |-> step]]
Idle(w) == At(w, None, "idle")

\* waiting and waiting_notices
Pick(w, l) ==
    /\ worker[w].step = "idle"
    /\ delivery[l] = "Waiting"
    /\ At(w, l, "begin")
    /\ UNCHANGED <<contact, conv, delivery, events, carrier, withdrawn, inbound, observation, seen,
                   commands, faults>>

\* begin_dispatch, and request_link_still_allowed for a prompt
MayBegin(l) ==
    IF l[1] = "message"
      THEN covered /\ ~Blocked /\ conv[InConversation[l[2]]].disclosure = "Granted"
      ELSE l \notin address.overtaken /\ RouteDecision(Thread[l[2]]) = "Request"

\* Mutant: a candidate is begun whatever became of it since it was listed.
BeginListed(w) ==
    LET l == worker[w].letter
        next == IF MayBegin(l) THEN "DispatchBegun" ELSE "Cancelled" IN
    /\ worker[w].step = "begin"
    /\ delivery' = [delivery EXCEPT ![l] = next]
    /\ IF MayBegin(l) THEN At(w, l, "submit") ELSE Idle(w)
    /\ ObserveLetter(l)
    /\ UNCHANGED <<contact, conv, events, carrier, withdrawn, inbound, seen, commands, faults>>

\* begin_dispatch and begin_queued_notice
Begin(w) ==
    LET l == worker[w].letter IN
    /\ worker[w].step = "begin"
    /\ IF delivery[l] # "Waiting"
         THEN Idle(w) /\ UNCHANGED <<delivery, observation>>
         ELSE /\ delivery' = [delivery EXCEPT ![l] = IF MayBegin(l) THEN "DispatchBegun" ELSE "Cancelled"]
              /\ IF MayBegin(l) THEN At(w, l, "submit") ELSE Idle(w)
              /\ ObserveLetter(l)
    /\ UNCHANGED <<contact, conv, events, carrier, withdrawn, inbound, seen, commands, faults>>

Submitting(w) ==
    /\ worker[w].step = "submit"
    /\ UNCHANGED <<contact, conv, delivery, events, withdrawn, inbound, observation, seen, commands>>

\* Transport::send: a letter that cannot be opened or rendered is not submitted.
NotRendered(w) ==
    /\ Submitting(w)
    /\ At(w, worker[w].letter, "failed")
    /\ UNCHANGED <<carrier, faults>>

\* Smtp2go::submit: the carrier takes the letter or rejects it, and the
\* answer is heard, or lost and then unknown.
Submit(w, taken, heard) ==
    LET l == worker[w].letter IN
    /\ Submitting(w)
    /\ carrier' = [carrier EXCEPT ![l] = [times |-> @.times + 1, taken |-> @.taken \/ taken]]
    /\ IF heard THEN At(w, l, IF taken THEN "accepted" ELSE "failed") /\ UNCHANGED faults
                ELSE Idle(w) /\ Fault

\* DeliveryState::finish; the references of a letter are one
Finished(l, outcome) ==
    /\ delivery[l] \in {"DispatchBegun", outcome}
    /\ delivery' = [delivery EXCEPT ![l] = outcome]
    /\ ObserveLetter(l)

\* finish_dispatch and finish_notice
Finish(w) ==
    LET l == worker[w].letter
        outcome == IF worker[w].step = "accepted" THEN "Accepted" ELSE "Failed" IN
    /\ worker[w].step \in {"accepted", "failed"}
    /\ IF delivery[l] \in {"DispatchBegun", outcome} THEN Finished(l, outcome)
                                                    ELSE UNCHANGED <<delivery, observation>>
    /\ Idle(w)
    /\ UNCHANGED <<contact, conv, events, carrier, withdrawn, inbound, seen, commands, faults>>

Crash(w) ==
    /\ Fault
    /\ worker[w].step # "idle"
    /\ Idle(w)
    /\ UNCHANGED <<contact, conv, delivery, events, carrier, withdrawn, inbound, observation, seen, commands>>

\* Mutant: a report is evidence only, and reconciles nothing.
FeedbackKept(l, e) ==
    /\ carrier[l].taken
    /\ e \notin events[l]
    /\ events' = [events EXCEPT ![l] = @ \cup {e}]
    /\ ObserveLetter(l)
    /\ UNCHANGED <<contact, conv, delivery, carrier, worker, withdrawn, inbound, seen, commands, faults>>

\* provider_feedback and notice_feedback: a report of a letter the carrier
\* has, sent until it is recorded, and any number of times
Feedback(l, e) ==
    /\ carrier[l].taken
    /\ e \notin events[l]
    /\ Finished(l, "Accepted")
    /\ events' = [events EXCEPT ![l] = @ \cup {e}]
    /\ UNCHANGED <<contact, conv, carrier, worker, withdrawn, inbound, seen, commands, faults>>

-----------------------------------------------------------------------------
(***************************************************************************)
(* Receiving.  A session prepares the mail, encrypts it and commits it;    *)
(* the sender's server sends it again whenever it was not answered.        *)
(***************************************************************************)

Hint == IF lane = None THEN None ELSE lane.id

\* prepare_mail: what a mail will be committed as
Prepared(i) ==
    IF i \notin ToAddress THEN IF conv[Thread[i]] # None THEN "admit" ELSE "refuse"
    ELSE IF admitted[i] # None THEN "admit"
    ELSE IF RouteDecision(Thread[i]) = "Refuse" THEN "refuse"
    ELSE IF RouteDecision(Thread[i]) = "Request" THEN "prompt"
    ELSE "admit"

\* prepare and prepare_alias
Prepare(s, i) ==
    /\ session[s].step = "idle"
    /\ Prepared(i) # "refuse"
    /\ session' = [session EXCEPT ![s] = [mail |-> i, step |-> Prepared(i), lane |-> Hint]]
    /\ rel' = IF Prepared(i) = "admit" THEN Opened ELSE rel
    /\ UNCHANGED <<lane, scope, covered, address, conv, dispatch, admitted, prompted, notified,
                   observation, seen, commands, faults>>

Ended(s) == session' = [session EXCEPT ![s] = [mail |-> None, step |-> "idle", lane |-> None]]

\* A process stops, or its session is dropped.
Abandon(s) ==
    /\ session[s].step # "idle"
    /\ Ended(s)
    /\ UNCHANGED <<contact, conv, dispatch, admitted, prompted, notified, observation, seen, commands, faults>>

\* queue_request_link: one prompt a day, whatever the mails
Prompts(i) == i \notin prompted /\ admitted[i] = None /\ RouteDecision(Thread[i]) = "Request"

CommitPrompt(s) ==
    LET i == session[s].mail IN
    /\ session[s].step = "prompt"
    /\ Ended(s)
    /\ IF Prompts(i)
         THEN /\ prompted' = prompted \cup {i}
              /\ notified' = TRUE
              /\ delivery' = [delivery EXCEPT ![Notice(i)] = IF notified THEN @ ELSE "Waiting"]
         ELSE UNCHANGED <<prompted, notified, delivery>>
    /\ UNCHANGED <<contact, conv, events, carrier, worker, withdrawn, admitted, observation, seen,
                   commands, faults>>

\* request_link_due
NextDay ==
    /\ notified /\ notified' = FALSE
    /\ UNCHANGED <<contact, conv, dispatch, session, admitted, prompted, observation, seen, commands, faults>>

\* SenderScopedLane::authorizes and consume, with the lane the copy was bound to
LaneAdmits(hint) == lane # None /\ lane.id = hint /\ lane.left > 0

\* pending_or_standing and authorize_reply: why a mail is admitted
Basis(i, hint) ==
    LET k == Thread[i]
        byLane == IF LaneAdmits(hint) THEN "Lane" ELSE "Refuse" IN
    IF i \in ToAddress
      THEN IF RouteDecision(k) \in {"AliasLane", "Standing"} THEN RouteDecision(k)
           ELSE IF RouteDecision(k) = "SenderLane" THEN byLane
           ELSE "Refuse"
    ELSE IF ~covered \/ Blocked \/ ~CheckConversation(k) THEN "Refuse"
    ELSE IF Related("Accepted") THEN "Standing"
    ELSE IF PendingAccess(conv[k]) THEN "Pending"
    ELSE byLane

\* receive: not again, and not once the guest was prompted
Admits(i, hint) == i \notin prompted /\ admitted[i] = None /\ Basis(i, hint) # "Refuse"

CommitAdmit(s) ==
    LET i == session[s].mail
        k == Thread[i]
        basis == Basis(i, session[s].lane) IN
    /\ session[s].step = "admit"
    /\ Ended(s)
    /\ IF Admits(i, session[s].lane)
         THEN /\ admitted' = [admitted EXCEPT ![i] =
                   [on |-> basis, lane |-> IF basis = "Lane" THEN lane.id ELSE None,
                    decided |-> conv[k] # None /\ conv[k].decided]]
              /\ conv' = [conv EXCEPT ![k] = IF @ = None THEN Inbound ELSE @]
              /\ lane' = IF basis = "Lane" THEN [lane EXCEPT !.left = @ - 1] ELSE lane
              /\ ObserveMessage(i)
         ELSE UNCHANGED <<admitted, conv, lane, observation>>
    /\ UNCHANGED <<rel, scope, covered, address, dispatch, prompted, notified, seen, commands, faults>>

-----------------------------------------------------------------------------
(***************************************************************************)
(* The member's client.                                                    *)
(***************************************************************************)

\* Mutant: a page acknowledges the whole bound.
AcknowledgedBound(page, rows) == rows

\* transact, Read: a page that is not empty is acknowledged exactly.
Acknowledged(page, rows) == page

\* fetch_external, one round: the first rows within the bound are merged, and
\* saved with how far they reach
Read(k) ==
    LET rows == IF bound[k] = None THEN Len(unread[k]) ELSE bound[k]
        page == IF rows < PageSize THEN rows ELSE PageSize
        done == Acknowledged(page, rows) IN
    /\ conv[k] # None
    /\ seen' = [x \in DOMAIN seen |->
                  IF \E n \in 1..page : unread[k][n] = x THEN View(x) ELSE seen[x]]
    /\ unread' = [unread EXCEPT ![k] = SubSeq(@, done + 1, Len(@))]
    /\ bound' = [bound EXCEPT ![k] = IF rows = done THEN None ELSE rows - done]
    /\ UNCHANGED <<contact, conv, dispatch, inbound, commands, faults>>

\* The client stops between two pages, and begins again with a new bound.
Restart(k) ==
    /\ bound[k] # None
    /\ bound' = [bound EXCEPT ![k] = None]
    /\ UNCHANGED <<contact, conv, dispatch, inbound, unread, seen, commands, faults>>

-----------------------------------------------------------------------------

Decision ==
    \/ \E state \in RelationshipState \ {"Unknown"} : Decide(state)
    \/ ScopeSender \/ Cover \/ Permit \/ RestrictAddress

Command ==
    \/ \E m \in Outgoing : Start(m) \/ (\E disclose \in BOOLEAN : Send(m, disclose))
    \/ \E k \in Conversations : RejectInvitation(k) \/ WithdrawDisclosure(k) \/ GrantDisclosure(k)

\* a worker that keeps running, and what may befall it
Work(w) ==
    \/ \E l \in Letters : Pick(w, l)
    \/ Begin(w) \/ NotRendered(w) \/ Finish(w)
    \/ \E taken \in BOOLEAN : Submit(w, taken, TRUE)

Worker(w) == Work(w) \/ Crash(w) \/ (\E taken \in BOOLEAN : Submit(w, taken, FALSE))

Report == \E l \in Letters, e \in Events : Feedback(l, e)

Receiver(s) == (\E i \in Mails : Prepare(s, i)) \/ CommitPrompt(s) \/ CommitAdmit(s) \/ Abandon(s)

Client == \E k \in Conversations : Read(k) \/ Restart(k)

Next ==
    \/ Decision \/ Command
    \/ \E w \in Workers : Worker(w)
    \/ Report
    \/ (\E s \in Sessions : Receiver(s)) \/ NextDay
    \/ Client

Spec == Init /\ [][Next]_vars

\* Workers run their passes, the carrier reports what it took until the
\* report is recorded, and the client refreshes.
Fairness ==
    /\ \A w \in Workers : WF_vars(Work(w))
    /\ \A l \in Letters, e \in Events : WF_vars(Feedback(l, e))
    /\ \A k \in Conversations : WF_vars(Read(k))

FairSpec == Spec /\ Fairness

-----------------------------------------------------------------------------
(***************************************************************************)
(* Properties.                                                             *)
(***************************************************************************)

\* A letter is submitted at most once, whatever workers, crashes, lost
\* answers and reports do; one recorded as waiting, cancelled or failed is not
\* with the carrier, and one recorded as accepted is.  What waited when the
\* member withdrew the disclosure is never submitted.
HandoffsMatchCarrier ==
    /\ TypeOK
    /\ \A l \in Letters :
         /\ carrier[l].times <= 1
         /\ delivery[l] \in {"None", "Waiting", "Cancelled"} => carrier[l].times = 0
         /\ delivery[l] = "Accepted" => carrier[l].taken
         /\ delivery[l] = "Failed" => ~carrier[l].taken
    /\ \A l \in withdrawn : carrier[l].times = 0

\* A mail is delivered to the member or answered with a prompt and never both,
\* in however many sessions it is received; every mail a lane admitted is
\* counted against it; and an invitation admits no reply once the member has
\* decided about the guest, a decision that was taken back included.
RepliesAdmittedOnce ==
    /\ \A i \in prompted : admitted[i] = None
    /\ lane # None =>
         lane.left = Limit - Cardinality({i \in Mails : admitted[i] # None /\ admitted[i].lane = lane.id})
    /\ \A i \in Mails : admitted[i] # None /\ admitted[i].on = "Pending" => ~admitted[i].decided

\* The client's copy of a message is current as far as the client has read:
\* pages, bounds and restarts skip no change of any message.
ObservationsCurrent ==
    \A x \in Outgoing \cup Mails :
       /\ x \in Mails => admitted[x] # None
       /\ x \in Outgoing => delivery[Message(x)] # "None"
       /\ \A n \in DOMAIN unread[ConversationOf(x)] : unread[ConversationOf(x)][n] # x
       => seen[x] = View(x)

\* Once the member gives no more commands, nothing waits, what the carrier
\* took is recorded as accepted although the answer was lost or the worker
\* stopped, and the member sees how each message ended.
HandoffsSeen ==
    <>[](/\ \A l \in Letters :
              delivery[l] # "Waiting" /\ (carrier[l].taken => delivery[l] = "Accepted")
         /\ \A m \in Outgoing : delivery[Message(m)] # "None" => seen[m] = View(m))
=============================================================================
