--------------------------- MODULE Correspondence ---------------------------
(***************************************************************************)
(* Who may write to whom, and what they may pass on: relationships and     *)
(* their reply epochs (cs-mail-protocol), lanes and their schedules        *)
(* (Lanes), addresses (AliasRoutes), the scopes that confine a sender to   *)
(* addresses, and the conversations and messages of                        *)
(* cs-mail-application/src/correspondence.rs with their tables in          *)
(* cs-mail-storage-postgres.                                               *)
(*                                                                         *)
(* A direction <<s, r>> is the relationship aggregate of sender s and      *)
(* recipient r.  A command that is refused, or sent again, leaves at most  *)
(* its receipt behind and is no step; one that is accepted names the       *)
(* current revision.  Members are covered and active, and their inboxes    *)
(* are drained, as each transaction asks.  Copies, recovery copies and     *)
(* subjects are left out.  A request's payment and deadlines are           *)
(* Settlement's: here it is the address it was submitted to.               *)
(***************************************************************************)
EXTENDS AliasRoutes, Sequences

CONSTANTS
    Members,
    Directions,     \* the relationships that exist
    Established,    \* the sets of them, one of which was accepted before the run, for
                    \* every address of the recipient
    Enrolled,       \* the addresses that exist at the start
    Managed,        \* the addresses their owners give commands for
    Conversations,
    Begun,          \* Begun[k]: the pair of a conversation created after that
    Granted,        \* the directions lanes are granted in
    Modes, Ages, Waits,     \* the modes of the grants, how long ago they were
                            \* issued and how long after that they start
    Lifetime, Validity, Limit, Interval,    \* and their terms
    Commands,       \* the kinds of command given
    MaxCommands,    \* bound: commands other than messages
    MaxMessages,    \* bound: messages
    MaxTime         \* bound: the clock

ASSUME CorrespondenceAssumption ==
    /\ Directions \subseteq {d \in Members \X Members : d[1] # d[2]}
    /\ Established \subseteq SUBSET Directions
    /\ Enrolled \subseteq AliasIds /\ Managed \subseteq AliasIds
    /\ \A a \in AliasIds : OwnerOf[a] \in Members
    /\ AliasIds \cap Directions = {}
    /\ DOMAIN Begun \subseteq Conversations
    /\ \A k \in DOMAIN Begun : \E d \in Directions : Begun[k] = {d[1], d[2]}
    /\ None \notin Members \cup Conversations
    /\ Granted \subseteq Directions
    /\ Modes \subseteq LaneMode /\ Ages \subseteq Nat /\ Waits \subseteq Nat
    /\ {Lifetime, Validity, Limit, Interval} \subseteq Nat \ {0}
    /\ MaxCommands \in Nat /\ MaxMessages \in Nat /\ MaxTime \in Nat

VARIABLES
    now,
    rel,        \* rel[d]: the relationship's state, version and reply epoch
    lane,       \* lane[d]: the pair's lane
    due,        \* due[d]: when its horizon is scheduled
    claims,     \* the scheduled horizons a worker has claimed
    request,    \* request[d]: the address an undecided request was submitted to
    began,      \* began[d]: the conversation it began
    alias,      \* alias[a]: the address's record
    scope,      \* scope[d]: the addresses the sender is confined to
    conv,       \* conv[k]: the conversation's record
    msg,        \* msg: the messages delivered, in order
    commands,   \* the commands given
    withdrawn   \* history: the messages sent before the last withdrawal of d

contact == <<rel, lane, due, scope, request, began>>
content == <<conv, msg>>
vars == <<now, contact, claims, alias, content, commands, withdrawn>>

Sent == DOMAIN msg
Message == 1..MaxMessages

RelationshipState ==
    {"Unknown", "Accepted", "ExpressLane", "Rejected", "Blocked", "Revoked"}

\* RelationshipState::sender_reply_restriction
Restricts(d) == d \in Directions /\ rel[d].state \in {"Blocked", "Revoked"}

Relationship == [state : RelationshipState, version : Nat, epoch : Nat]

AliasScope == [aliases : SUBSET AliasIds, version : Nat, lane : Nat \cup {None}]

Entry == [conversation : Conversations, sender : Members, at : Nat]

ReceivingPermission ==
    [state : {"None", "Broad", "Restricted", "Senders"}, revision : Nat, changed : Nat,
     granted : Nat, conversations : SUBSET Entry,
     lanes : SUBSET [sender : Members, lane : SenderScopedLane(Message)]]

Alias ==
    [life : {"Active", "Restricted", "Replaced", "Retired"}, created : Nat, changed : Nat,
     revision : Nat, at : Nat, until : Nat, replacement : AliasIds \cup {None},
     existing : SUBSET Entry, approvals : SUBSET Entry, permission : ReceivingPermission]

Receipt == [message : Message, epoch : Nat]

Conversation ==
    [scope : SUBSET Members, restricted : BOOLEAN, proposer : Members \cup {None},
     revision : Nat, received : [Members -> Receipt \cup {None}], relaxed : BOOLEAN]

\* the lane a message was sent on: a pair's or the one in an address's record
LaneUsed == [of : Directions \cup AliasIds, version : Nat]

Delivery ==
    [author : Members, conversation : Conversations \cup {None}, alias : AliasIds \cup {None},
     basis : {"Standing", "SenderLane", "PairedSender", "AliasLane", "Reply", "Request", "Followup"},
     source : Message \cup {None}, on : LaneUsed \cup {None}, at : Nat,
     sources : SUBSET Message, open : BOOLEAN]

ASSUME NoneIsAbsence ==
    /\ None \notin Nat /\ None \notin SenderScopedLane(Message) /\ None \notin AliasScope
    /\ None \notin Alias /\ None \notin Receipt /\ None \notin Conversation
    /\ None \notin LaneUsed

-----------------------------------------------------------------------------
(***************************************************************************)
(* Conversations (cs-mail-correspondence/src/policy.rs).                   *)
(***************************************************************************)

\* relaxed is history: reuse has been unrestricted at some time
NewConversation(pair) ==
    [scope |-> pair, restricted |-> FALSE, proposer |-> None, revision |-> 0,
     received |-> [p \in Members |-> None], relaxed |-> TRUE]

BegunByRequest(pair) ==
    [NewConversation(pair) EXCEPT !.restricted = TRUE, !.relaxed = FALSE]

Receive(c, p, m, epoch) == [c EXCEPT !.received[p] = [message |-> m, epoch |-> epoch]]

\* Conversation::reply_source
ReplySource(c, p, epoch) ==
    IF c.received[p] # None /\ c.received[p].epoch = epoch
      THEN c.received[p].message ELSE None

Permits(c, pair) == ~c.restricted \/ c.scope = pair

CanChangePolicy(c, p, action) ==
    /\ p \in c.scope
    /\ action = "Propose" => c.restricted /\ c.proposer = None
    /\ action = "Approve" => c.proposer \notin {None, p}
PolicyChanged(c, p, action) ==
    [c EXCEPT !.restricted = action # "Approve",
              !.proposer = IF action = "Propose" THEN p ELSE None,
              !.revision = @ + 1,
              !.relaxed = @ \/ action = "Approve"]

\* Conversation::try_from
ConversationLoads(c) ==
    /\ \A p \in Members : c.received[p] # None => p \in c.scope
    /\ c.proposer # None => c.proposer \in c.scope /\ c.restricted /\ c.revision > 0

-----------------------------------------------------------------------------

InitContact(established) ==
    /\ rel = [d \in Directions |->
                IF d \in established THEN [state |-> "Accepted", version |-> 1, epoch |-> 0]
                                     ELSE [state |-> "Unknown", version |-> 0, epoch |-> 0]]
    /\ scope = [d \in Directions |->
                  IF d \in established
                    THEN [aliases |-> {a \in Enrolled : OwnerOf[a] = d[2]},
                          version |-> 1, lane |-> None]
                    ELSE None]
    /\ conv = [k \in Conversations |->
                 IF k \in DOMAIN Begun /\ \E d \in established : Begun[k] = {d[1], d[2]}
                   THEN NewConversation(Begun[k]) ELSE None]

Init ==
    /\ now = 0
    /\ \E established \in Established : InitContact(established)
    /\ lane = [d \in Directions |-> None]
    /\ due = [d \in Directions |-> None]
    /\ claims = {}
    /\ request = [d \in Directions |-> None]
    /\ began = [d \in Directions |-> None]
    /\ alias = [a \in AliasIds |-> IF a \in Enrolled THEN CreateAlias(0) ELSE None]
    /\ msg = <<>>
    /\ commands = 0
    /\ withdrawn = [d \in Directions |-> {}]

Given(c) ==
    /\ c \in Commands
    /\ commands < MaxCommands
    /\ commands' = commands + 1

-----------------------------------------------------------------------------
(***************************************************************************)
(* Lanes of a pair.                                                        *)
(***************************************************************************)

Grants(version) ==
    {[mode |-> mode, issued |-> now - age, before |-> now - age + wait,
      after |-> now - age + Validity, lifetime |-> Lifetime, limit |-> Limit,
      interval |-> Interval, version |-> version] :
     mode \in Modes, age \in {t \in Ages : t <= now}, wait \in Waits}

NextGrantVersion(d) == IF lane[d] = None THEN 1 ELSE lane[d].grant.version + 1

ScheduleChange(l) == l.horizon

\* LaneAcceptance::decide and accept_express_lane; a grant whose version is
\* not above the stored one's is refused
LaneAccepted(d, g) ==
    /\ rel[d].state # "Blocked"
    /\ ValidGrant(g)
    /\ ProvidesRelationshipAccess(FromGrant(g), now)
    /\ rel' = [rel EXCEPT ![d].state = "ExpressLane", ![d].version = @ + 1]
    /\ lane' = [lane EXCEPT ![d] = FromGrant(g)]

\* RequestDecision::coordinate_acceptance: the request's own address, or the
\* addresses selected before
AcceptanceScope(d, renews, version) ==
    scope' = [scope EXCEPT ![d] =
        IF request[d] # None
          THEN [aliases |-> {request[d]}, version |-> rel'[d].version, lane |-> version]
          ELSE IF renews /\ @ # None
                 THEN [aliases |-> @.aliases, version |-> rel'[d].version, lane |-> version]
                 ELSE @]

\* apply_grant
ApplyGrant(d) ==
    /\ Given("Grant")
    /\ d \in Granted
    /\ \E g \in Grants(NextGrantVersion(d)) :
         /\ LaneAccepted(d, g)
         /\ AcceptanceScope(d, TRUE, g.version)
         /\ due' = [due EXCEPT ![d] = ScheduleChange(FromGrant(g))]
    /\ request' = [request EXCEPT ![d] = None]
    /\ UNCHANGED <<now, began, claims, alias, content, withdrawn>>

\* apply_control, Reconfirm
ReconfirmLane(d) ==
    /\ Given("Control")
    /\ rel[d].state # "Blocked"
    /\ lane[d] # None /\ CanReconfirm(lane[d], now)
    /\ lane' = [lane EXCEPT ![d] = Reconfirm(@, now)]
    /\ due' = [due EXCEPT ![d] = ScheduleChange(lane'[d])]
    /\ UNCHANGED <<now, rel, scope, request, began, claims, alias, content, withdrawn>>

\* apply_control, Revoke
ControlRevoke(d) ==
    /\ Given("Control")
    /\ lane[d] # None
    /\ lane' = [lane EXCEPT ![d] = RevokeLane(@)]
    /\ due' = [due EXCEPT ![d] = None]
    /\ UNCHANGED <<now, rel, scope, request, began, claims, alias, content, withdrawn>>

\* claim_due_schedules
ClaimSchedule(d) ==
    /\ due[d] # None /\ due[d] <= now
    /\ d \notin claims
    /\ claims' = claims \cup {d}
    /\ UNCHANGED <<now, contact, alias, content, commands, withdrawn>>

\* process_lane_horizon
LaneHorizon(d) ==
    /\ d \in claims
    /\ claims' = claims \ {d}
    /\ IF lane[d] = None \/ lane[d].state = "Revoked"
         THEN /\ due' = [due EXCEPT ![d] = None]
              /\ UNCHANGED lane
         ELSE IF HorizonDue(lane[d], now)
                THEN /\ lane' = [lane EXCEPT ![d] = ReachHorizon(@, now)]
                     /\ due' = [due EXCEPT ![d] =
                          IF lane'[d].state = "Active" THEN ScheduleChange(lane'[d]) ELSE None]
                ELSE /\ due' = [due EXCEPT ![d] = ScheduleChange(lane[d])]
                     /\ UNCHANGED lane
    /\ UNCHANGED <<now, rel, scope, request, began, alias, content, commands, withdrawn>>

-----------------------------------------------------------------------------
(***************************************************************************)
(* The recipient's decisions.                                              *)
(***************************************************************************)

\* Mutant: the reply offers of the direction survive its withdrawal.
TerminateLaneOnly(d, state) ==
    /\ rel' = [rel EXCEPT ![d].state = state, ![d].version = @ + 1]
    /\ lane' = [lane EXCEPT ![d] = IF @ = None THEN @ ELSE RevokeLane(@)]
    /\ due' = [due EXCEPT ![d] =
                 IF lane[d] = None \/ lane[d].state = "Revoked" THEN @ ELSE None]

\* terminate_lane: the reply offers and the lane of the direction end
TerminateLane(d, state) ==
    /\ rel' = [rel EXCEPT ![d] = [state |-> state, version |-> @.version + 1,
                                  epoch |-> @.epoch + 1]]
    /\ lane' = [lane EXCEPT ![d] = IF @ = None THEN @ ELSE RevokeLane(@)]
    /\ due' = [due EXCEPT ![d] =
                 IF lane[d] = None \/ lane[d].state = "Revoked" THEN @ ELSE None]

Block(d) ==
    /\ Given("Block")
    /\ TerminateLane(d, "Blocked")
    /\ request' = [request EXCEPT ![d] = None]
    /\ withdrawn' = [withdrawn EXCEPT ![d] = Sent]
    /\ UNCHANGED <<now, scope, began, claims, alias, content>>

Revoke(d) ==
    /\ Given("Revoke")
    /\ TerminateLane(d, "Revoked")
    /\ withdrawn' = [withdrawn EXCEPT ![d] = Sent]
    /\ UNCHANGED <<now, scope, request, began, claims, alias, content>>

Unblock(d) ==
    /\ Given("Unblock")
    /\ rel[d].state = "Blocked"
    /\ rel' = [rel EXCEPT ![d].state = "Rejected", ![d].version = @ + 1]
    /\ UNCHANGED <<now, lane, due, scope, request, began, claims, alias, content, withdrawn>>

\* relationship_decision, Accept
Accept(d) ==
    /\ Given("Accept")
    /\ rel[d].state # "Blocked"
    /\ rel[d].state = "Accepted" => request[d] # None
    /\ rel' = [rel EXCEPT ![d].state = "Accepted", ![d].version = @ + 1]
    /\ AcceptanceScope(d, rel[d].state # "Accepted", None)
    /\ request' = [request EXCEPT ![d] = None]
    /\ UNCHANGED <<now, lane, due, began, claims, alias, content, withdrawn>>

\* relationship_decision, Reject
Reject(d) ==
    /\ Given("Reject")
    /\ rel[d].state \notin {"Accepted", "Blocked"}
    /\ rel' = [rel EXCEPT ![d].state = "Rejected", ![d].version = @ + 1]
    /\ request' = [request EXCEPT ![d] = None]
    /\ UNCHANGED <<now, lane, due, scope, began, claims, alias, content, withdrawn>>

-----------------------------------------------------------------------------
(***************************************************************************)
(* Addresses (cs-mail-application/src/aliases.rs).                         *)
(***************************************************************************)

\* admitted_conversations: the first delivery of each conversation and sender
AdmittedConversations(a) ==
    LET delivered == {m \in Sent : msg[m].alias = a}
        first == {m \in delivered : \A n \in delivered :
                    msg[n].conversation = msg[m].conversation
                    /\ msg[n].author = msg[m].author => m <= n}
    IN  {[conversation |-> msg[m].conversation, sender |-> msg[m].author, at |-> msg[m].at] :
         m \in first}

\* transact_alias: what the commands on an address leave alone
AliasCommand(c) ==
    /\ Given(c)
    /\ UNCHANGED <<now, contact, claims, content, withdrawn>>

\* mutate, Create; an AliasScoped address opens as it is created
NewAlias(a) ==
    /\ AliasCommand("NewAlias")
    /\ alias[a] = None
    /\ alias' = [alias EXCEPT ![a] =
          IF PolicyOf[a] = "AliasScoped"
            THEN [CreateAlias(now) EXCEPT !.permission = Open(@, now)]
            ELSE CreateAlias(now)]

\* mutate, Restrict
RestrictAddress(a) ==
    /\ AliasCommand("Restrict")
    /\ alias[a] # None /\ CanRestrict(a, alias[a], AdmittedConversations(a), now)
    /\ alias' = [alias EXCEPT ![a] = RestrictAlias(@, AdmittedConversations(a), now)]

\* mutate, Replace
Replace(a, b) ==
    /\ AliasCommand("Replace")
    /\ alias[a] # None /\ alias[b] = None
    /\ \E until \in now + 1 .. MaxTime + 1 :
         /\ CanReplace(a, alias[a], b, until, AdmittedConversations(a), now)
         /\ alias' = [alias EXCEPT
               ![a] = ReplaceAlias(@, b, until, AdmittedConversations(a), now),
               ![b] = CreateAlias(now)]

\* mutate, Retire
Retire(a) ==
    /\ AliasCommand("Retire")
    /\ alias[a] # None /\ CanRetire(alias[a], now)
    /\ alias' = [alias EXCEPT ![a] = RetireAlias(@, now)]

\* mutate, ApproveConversation
Approve(a, s, k) ==
    /\ AliasCommand("Approve")
    /\ <<s, OwnerOf[a]>> \in Directions => rel[<<s, OwnerOf[a]>>].state # "Blocked"
    /\ alias[a] # None /\ CanApprove(a, alias[a], s, k, now)
    /\ alias' = [alias EXCEPT ![a] = ApproveConversation(@, s, k, now)]

PermissionChanges(a) ==
    LET p == alias[a].permission
        broad == PolicyOf[a] = "AliasScoped"
        paired == {{[sender |-> s, lane |-> FromGrant(g)]} :
                   s \in Members \ {OwnerOf[a]}, g \in Grants(1)}
    IN  {Remove(p, now)}
        \cup {q \in {Open(p, now)} : broad}
        \cup {RestrictPermission(p, AdmittedConversations(a), now) :
              x \in {y \in {p} : broad /\ p.state = "Broad"}}
        \cup {PairSenders(p, lanes, now) :
              lanes \in {ls \in paired : \A s \in ls : IsCurrent(s.lane, now)}}

\* permission_change
ChangePermission(a) ==
    /\ AliasCommand("Permission")
    /\ alias[a] # None /\ alias[a].life \in {"Active", "Restricted"}
    /\ alias[a].permission.changed <= now
    /\ \E p \in PermissionChanges(a) : alias' = [alias EXCEPT ![a].permission = p]

\* scope_sender
ScopeSender(d) ==
    /\ Given("Scope")
    /\ \/ rel[d].state = "Accepted"
       \/ rel[d].state = "ExpressLane" /\ lane[d] # None /\ IsCurrent(lane[d], now)
    /\ \E as \in SUBSET {a \in AliasIds : alias[a] # None /\ OwnerOf[a] = d[2]} :
         /\ as # {}
         /\ scope' = [scope EXCEPT ![d] =
               [aliases |-> as, version |-> rel[d].version,
                lane |-> IF rel[d].state = "Accepted" THEN None ELSE lane[d].grant.version]]
    /\ UNCHANGED <<now, rel, lane, due, request, began, claims, alias, content, withdrawn>>

-----------------------------------------------------------------------------
(***************************************************************************)
(* Where a message may go.                                                 *)
(***************************************************************************)

\* relationship_basis
RelationshipBasis(d, a) ==
    IF \/ d \notin Directions \/ scope[d] = None
       \/ a \notin scope[d].aliases \/ scope[d].version # rel[d].version
      THEN "None"
      ELSE CASE rel[d].state = "Accepted" /\ scope[d].lane = None -> "Standing"
             [] rel[d].state = "ExpressLane" ->
                  IF /\ lane[d] # None /\ scope[d].lane = lane[d].grant.version
                     /\ Authorizes(lane[d], now)
                    THEN "SenderLane" ELSE "Refuse"
             [] OTHER -> "None"

\* paired_sender: the sender's lane in the address's own record
PairedLanes(a, s) ==
    {p.lane : p \in {q \in alias[a].permission.lanes :
                       /\ alias[a].permission.state = "Senders"
                       /\ q.sender = s /\ <<s, OwnerOf[a]>> \in Directions
                       /\ Authorizes(q.lane, now)}}

\* admission and no_permission
RouteDecision(s, a, k) ==
    LET d == <<s, OwnerOf[a]>> IN
    IF \/ d \in Directions /\ rel[d].state = "Blocked"
       \/ ~CheckConversation(alias[a], s, k, now)
    THEN "Refuse"
    ELSE IF AuthorizesAlias(alias[a].permission, s, k, now) THEN "AliasLane"
    ELSE IF PairedLanes(a, s) # {} THEN "PairedSender"
    ELSE IF RelationshipBasis(d, a) # "None" THEN RelationshipBasis(d, a)
    ELSE IF PolicyOf[a] = "AliasScoped" THEN "Refuse" ELSE "Request"

\* direct_alias_authority: a lane is used only by a message that names it
DirectAuthority(s, a, k, names) ==
    LET b == RouteDecision(s, a, k) IN
    IF b \in {"AliasLane", "PairedSender", "Standing"} \/ (b = "SenderLane" /\ names)
      THEN b ELSE "None"

\* answer_basis: the message the sender answers in conversation k
AnswerBasis(d, k) ==
    IF d \in Directions /\ conv[k] # None /\ conv[k].scope = {d[1], d[2]}
      THEN ReplySource(conv[k], d[1], rel[d].epoch) ELSE None

\* contact, for a conversation that does not exist yet
HasContact(d) ==
    /\ d \in Directions /\ rel[d].state \notin {"Blocked", "Revoked"}
    /\ \/ rel[d].state = "Accepted"
       \/ lane[d] # None /\ IsCurrent(lane[d], now)

-----------------------------------------------------------------------------
(***************************************************************************)
(* What a message may pass on.                                             *)
(***************************************************************************)

\* what a walk along the sources of messages comes to: the least set that
\* holds them and the sources of each of its messages
Reached(messages) ==
    {n \in Sent : \A visited \in SUBSET Sent :
        messages \subseteq visited /\ (\A m \in visited : msg[m].sources \subseteq visited)
        => n \in visited}

Sources(m) == Reached(msg[m].sources)

\* Mutant: only the sources a message names are looked at.
PoliciesPermitDirect(s, pair, sources) ==
    \A m \in sources : LET c == conv[msg[m].conversation] IN s \in c.scope /\ Permits(c, pair)

\* policies: the sources are the sender's to read, and they and everything
\* they were made from may be used in the destination
PoliciesPermit(s, pair, sources) ==
    /\ \A m \in sources : s \in conv[msg[m].conversation].scope
    /\ \A m \in Reached(sources) : Permits(conv[msg[m].conversation], pair)

Quotable == {m \in Sent : msg[m].conversation # None}

-----------------------------------------------------------------------------
(***************************************************************************)
(* Messages.                                                               *)
(***************************************************************************)

Delivered(s, k, a, basis, source, on, sources, open) ==
    [author |-> s, conversation |-> k, alias |-> a, basis |-> basis, source |-> source,
     on |-> on, at |-> now, sources |-> sources, open |-> open]

Fresh == Len(msg) + 1
CanSend == Len(msg) < MaxMessages

ReplyEpochFor(s, r) == IF <<r, s>> \in Directions THEN rel[<<r, s>>].epoch ELSE 0

\* A message the recipient may answer is recorded unless the sender has
\* withdrawn the direction the answer would take.
Published(c, s, r) ==
    IF Restricts(<<r, s>>) THEN c ELSE Receive(c, r, Fresh, ReplyEpochFor(s, r))

\* persist_delivery and persist_conversation
Deliver(c, k, m) ==
    /\ conv' = [conv EXCEPT ![k] = c]
    /\ msg' = Append(msg, m)
    /\ UNCHANGED <<now, rel, scope, request, began, claims, commands, withdrawn>>

\* Mutant: the horizon a message moves is not scheduled.
LaneWrittenUnscheduled(d, l) ==
    /\ lane' = [lane EXCEPT ![d] = l]
    /\ UNCHANGED <<due, alias>>

\* transact: the lane a message used, written with its horizon's schedule
LaneWritten(d, l) ==
    /\ lane' = [lane EXCEPT ![d] = l]
    /\ due' = [due EXCEPT ![d] = ScheduleChange(l)]
    /\ UNCHANGED alias

LaneUnused == UNCHANGED <<lane, due, alias>>

\* Mutant: the lane kept in the address's record is not written back.
PairedUnwritten(a, s, l) == UNCHANGED <<lane, due, alias>>

\* persist_paired_lane
PairedWritten(a, s, l) ==
    /\ alias' = [alias EXCEPT ![a].permission = ConsumePaired(@, s, l)]
    /\ UNCHANGED <<lane, due>>

PairLane(d) == [of |-> d, version |-> lane[d].grant.version]
AliasLane(a) == [of |-> a, version |-> alias[a].permission.revision]

\* execute, Send and SendToAlias with direct authority
SendDirect(s, a, k, names, sources) ==
    LET r == OwnerOf[a]
        d == <<s, r>>
        basis == DirectAuthority(s, a, k, names)
        c == IF conv[k] = None THEN NewConversation({s, r}) ELSE conv[k]
        on == CASE basis = "SenderLane" -> PairLane(d)
                [] basis = "PairedSender" -> AliasLane(a)
                [] OTHER -> None
    IN  /\ basis # "None"
        /\ IF conv[k] = None THEN sources = {} ELSE PoliciesPermit(s, c.scope, sources)
        /\ CASE basis = "SenderLane" ->
                  /\ CanConsume(lane[d], Fresh, now)
                  /\ LaneWritten(d, Consume(lane[d], Fresh, now))
             [] basis = "PairedSender" ->
                  \E l \in PairedLanes(a, s) :
                    /\ CanConsume(l, Fresh, now)
                    /\ PairedWritten(a, s, Consume(l, Fresh, now))
             [] OTHER -> LaneUnused
        /\ Deliver(Published(c, s, r), k,
                   Delivered(s, k, a, basis, None, on, sources, ~Restricts(<<r, s>>)))

\* execute, Send: an answer in a conversation, and admit_message
SendAnswer(s, a, k, names, sources) ==
    LET r == OwnerOf[a]
        d == <<s, r>>
        answers == AnswerBasis(d, k)
        basis == IF rel[d].state = "Accepted" THEN "Standing"
                 ELSE IF names THEN "SenderLane" ELSE "Reply"
    IN  /\ DirectAuthority(s, a, k, names) = "None"
        /\ answers # None
        /\ CheckConversation(alias[a], s, k, now)
        /\ rel[d].state \notin {"Blocked", "Revoked"}
        /\ PoliciesPermit(s, conv[k].scope, sources)
        /\ IF basis = "SenderLane"
             THEN /\ lane[d] # None /\ CanConsume(lane[d], Fresh, now)
                  /\ LaneWritten(d, Consume(lane[d], Fresh, now))
             ELSE LaneUnused
        /\ Deliver(Published(conv[k], s, r), k,
                   Delivered(s, k, a, basis, IF basis = "Reply" THEN answers ELSE None,
                             IF basis = "SenderLane" THEN PairLane(d) ELSE None,
                             sources, ~Restricts(<<r, s>>)))

Send(s, a, k) ==
    /\ CanSend
    /\ alias[a] # None /\ s # OwnerOf[a]
    /\ conv[k] # None => conv[k].scope = {s, OwnerOf[a]}
    /\ \E names \in {b \in BOOLEAN : b => Modes # {}} :
       \E sources \in {{}} \cup {{m} : m \in Quotable} :
         SendDirect(s, a, k, names, sources) \/ SendAnswer(s, a, k, names, sources)

\* apply_free and plan_free_admission: a message outside the conversations
ApplyFree(d) ==
    /\ "Free" \in Commands
    /\ CanSend
    /\ rel[d].state # "Blocked"
    /\ IF rel[d].state = "Accepted"
         THEN /\ UNCHANGED <<lane, due>>
              /\ msg' = Append(msg, Delivered(d[1], None, None, "Standing", None, None, {}, FALSE))
         ELSE /\ lane[d] # None /\ CanConsume(lane[d], Fresh, now)
              /\ lane' = [lane EXCEPT ![d] = Consume(@, Fresh, now)]
              /\ due' = [due EXCEPT ![d] = ScheduleChange(lane'[d])]
              /\ msg' = Append(msg, Delivered(d[1], None, None, "SenderLane", None,
                                              PairLane(d), {}, FALSE))
    /\ UNCHANGED <<now, rel, scope, request, began, claims, alias, conv, commands, withdrawn>>

\* execute, Create
CreateConversation(d, k) ==
    /\ Given("Create")
    /\ HasContact(d)
    /\ conv[k] = None
    /\ conv' = [conv EXCEPT ![k] = NewConversation({d[1], d[2]})]
    /\ UNCHANGED <<now, contact, claims, alias, msg, withdrawn>>

\* execute, ChangePolicy
ChangePolicy(p, k) ==
    /\ Given("Policy")
    /\ conv[k] # None
    /\ \E action \in {"Restrict", "Propose", "Approve"} :
         /\ CanChangePolicy(conv[k], p, action)
         /\ conv' = [conv EXCEPT ![k] = PolicyChanged(@, p, action)]
    /\ UNCHANGED <<now, contact, claims, alias, msg, withdrawn>>

-----------------------------------------------------------------------------
(***************************************************************************)
(* A request's messages (cs-mail-application/src/requests/documents.rs).   *)
(***************************************************************************)

\* RequestDecision::decide and MailboxDelivery::decide, the request's first
\* message; alias_request_permission asks about a conversation that no
\* restricted address has admitted
SubmitRequest(d, a, k) ==
    /\ Given("Submit")
    /\ CanSend
    /\ request[d] = None
    /\ <<d[2], d[1]>> \in Directions => request[<<d[2], d[1]>>] = None
    /\ ~Restricts(<<d[2], d[1]>>)
    /\ alias[a] # None /\ OwnerOf[a] = d[2] /\ alias[a].life = "Active"
    /\ RouteDecision(d[1], a, k) = "Request"
    /\ conv[k] = None
    /\ request' = [request EXCEPT ![d] = a]
    /\ began' = [began EXCEPT ![d] = k]
    /\ conv' = [conv EXCEPT ![k] =
          Receive(BegunByRequest({d[1], d[2]}), d[2], Fresh, ReplyEpochFor(d[1], d[2]))]
    /\ msg' = Append(msg, Delivered(d[1], k, a, "Request", None, None, {}, TRUE))
    /\ UNCHANGED <<now, rel, lane, due, scope, claims, alias, withdrawn>>

\* admit_followup and MailboxDelivery::decide, a later message
SendFollowup(d) ==
    LET k == began[d] IN
    /\ "Followup" \in Commands
    /\ CanSend
    /\ request[d] # None
    /\ rel[d].state # "Blocked"
    /\ CheckConversation(alias[request[d]], d[1], k, now)
    /\ conv' = [conv EXCEPT ![k] = Receive(@, d[2], Fresh, ReplyEpochFor(d[1], d[2]))]
    /\ msg' = Append(msg, Delivered(d[1], k, request[d], "Followup", None, None, {},
                                    ~Restricts(<<d[2], d[1]>>)))
    /\ UNCHANGED <<now, contact, claims, alias, commands, withdrawn>>

\* expire_request
RequestExpires(d) ==
    /\ Given("Expire")
    /\ request[d] # None
    /\ request' = [request EXCEPT ![d] = None]
    /\ UNCHANGED <<now, rel, lane, due, scope, began, claims, alias, content, withdrawn>>

Tick ==
    /\ now < MaxTime
    /\ now' = now + 1
    /\ UNCHANGED <<contact, claims, alias, content, commands, withdrawn>>

-----------------------------------------------------------------------------

Next ==
    \/ Tick
    \/ \E d \in Directions :
         \/ ApplyGrant(d) \/ ReconfirmLane(d) \/ ControlRevoke(d)
         \/ ClaimSchedule(d) \/ LaneHorizon(d)
         \/ Block(d) \/ Revoke(d) \/ Unblock(d) \/ Accept(d) \/ Reject(d)
         \/ ScopeSender(d) \/ ApplyFree(d) \/ SendFollowup(d) \/ RequestExpires(d)
         \/ \E k \in Conversations : CreateConversation(d, k)
         \/ \E a \in AliasIds, k \in Conversations : SubmitRequest(d, a, k)
    \/ \E a \in Managed :
         \/ NewAlias(a) \/ RestrictAddress(a) \/ Retire(a) \/ ChangePermission(a)
         \/ \E b \in AliasIds : Replace(a, b)
         \/ \E s \in Members, k \in Conversations : Approve(a, s, k)
    \/ \E a \in AliasIds, s \in Members, k \in Conversations : Send(s, a, k)
    \/ \E p \in Members, k \in Conversations : ChangePolicy(p, k)

Spec == Init /\ [][Next]_vars

-----------------------------------------------------------------------------
(***************************************************************************)
(* Properties.                                                             *)
(***************************************************************************)

\* Every record the commands, the horizons and the messages store is one its
\* decoder accepts when it is read again: a lane's window, horizon and
\* versions, an address's revisions, evidence and permission, a
\* conversation's proposer and receipts.  The horizon of a lane that is in force
\* is scheduled, at the time the lane itself holds, whatever moved it: a grant,
\* a message, a reminder or a confirmation.
StoredRecordsLoad ==
    /\ now \in 0..MaxTime /\ commands \in 0..MaxCommands
    /\ \A d \in Directions :
         /\ rel[d].state \in RelationshipState
         /\ due[d] # None => due[d] \in Nat
         /\ lane[d] # None => lane[d] \in SenderScopedLane(Message) /\ LaneLoads(lane[d])
         /\ lane[d] # None /\ lane[d].state = "Active" => due[d] = lane[d].horizon
         /\ request[d] # None => request[d] \in AliasIds /\ began[d] \in Conversations
    /\ \A a \in AliasIds : alias[a] # None => AliasLoads(a, alias[a])
    /\ \A k \in Conversations : conv[k] # None => ConversationLoads(conv[k])

\* What a lane has admitted is what was delivered on it, and no more in the
\* present rate window than its grant allows, whichever of the three ways a
\* message took.
AllowanceKept ==
    LET Kept(l, on) ==
          /\ l.admitted = on
          /\ l.count <= l.grant.limit
          /\ l.count = Cardinality({m \in on : l.started <= msg[m].at})
    IN  /\ \A d \in Directions : lane[d] # None =>
             Kept(lane[d], {m \in Sent : msg[m].on = PairLane(d)})
        /\ \A a \in AliasIds : alias[a] # None =>
             \A p \in alias[a].permission.lanes :
               Kept(p.lane, {m \in Sent : msg[m].on = AliasLane(a) /\ msg[m].author = p.sender})

\* Whatever lets a message through is still in force when it is sent.  An answer
\* that rests on the conversation alone answers a message its recipient sent
\* after the last time they withdrew the sender's direction; and once an address
\* is restricted or replaced, a message reaches it only in a conversation it had
\* admitted by then, or that its owner has approved since.
MessagesStillInvited ==
    [][\A m \in DOMAIN msg' \ Sent :
         LET a == msg'[m].alias
             author == msg'[m].author
         IN  /\ msg'[m].basis = "Reply" =>
                   msg'[m].source \notin withdrawn[<<author, OwnerOf[a]>>]
             /\ a # None /\ alias[a].life # "Active" =>
                   /\ alias[a].life # "Retired"
                   /\ \/ \E n \in Sent : /\ msg[n].alias = a /\ msg[n].author = author
                                         /\ msg[n].conversation = msg'[m].conversation
                      \/ Names(alias[a].approvals, author, msg'[m].conversation)]_vars

\* An answer rests on a message received while the direction is open: one sent
\* while the answering direction is blocked or revoked establishes no
\* permission to answer it.
AnswersReceivedWhileOpen ==
    \A m \in Sent : msg[m].basis = "Reply" => msg[msg[m].source].open

\* Nothing made from the messages of a conversation whose reuse has always
\* been restricted, through however many messages, is ever sent to another pair.
RestrictedContentStays ==
    \A m \in Sent : \A n \in Sources(m) :
        LET k == msg[n].conversation IN
        ~conv[k].relaxed => conv[msg[m].conversation].scope = conv[k].scope
=============================================================================
