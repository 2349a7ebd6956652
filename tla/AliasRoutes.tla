---------------------------- MODULE AliasRoutes ----------------------------
(***************************************************************************)
(* A member's address (cs-mail-accounts/src/aliases.rs) and the receiving  *)
(* permission kept in its record (cs-mail-accounts/src/alias_permission.rs)*)
(*                                                                         *)
(* A record keeps a number of revisions of its own for the address and for *)
(* the permission.  The conversations an address had admitted when it was  *)
(* restricted or replaced, and the ones its owner approved later, are sets *)
(* of [conversation, sender, at] with one entry for a conversation.        *)
(***************************************************************************)
EXTENDS Lanes

CONSTANTS None, AliasIds, OwnerOf, PolicyOf

ReceivingPolicy == {"Bonded", "AliasScoped"}

ASSUME AliasAssumption ==
    /\ None \notin AliasIds
    /\ DOMAIN OwnerOf = AliasIds
    /\ PolicyOf \in [AliasIds -> ReceivingPolicy]

ConversationsIn(entries) == {e.conversation : e \in entries}
Names(entries, sender, k) == \E e \in entries : e.conversation = k /\ e.sender = sender
OneEntryEach(entries) == Cardinality(ConversationsIn(entries)) = Cardinality(entries)

-----------------------------------------------------------------------------
\* ReceivingPermission: None, Broad, Restricted to conversations, or Senders,
\* a set of [sender, lane]

Unpaired(at) ==
    [state |-> "None", revision |-> 0, changed |-> at, granted |-> 0,
     conversations |-> {}, lanes |-> {}]

\* ReceivingPermission::try_from
PermissionLoads(owner, p) ==
    /\ p.revision = 0 => p.state = "None"
    /\ p.state \in {"Broad", "Restricted"} => p.granted <= p.changed
    /\ p.state = "Restricted" =>
         /\ OneEntryEach(p.conversations)
         /\ \A e \in p.conversations : e.sender # owner /\ e.at <= p.changed
    /\ p.state = "Senders" =>
         /\ p.lanes # {}
         /\ \A s, t \in p.lanes : s.sender = t.sender => s = t
         /\ \A s \in p.lanes : LaneLoads(s.lane) /\ s.lane.grant.issued <= p.changed

Change(p, state, at) == [p EXCEPT !.state = state, !.revision = @ + 1, !.changed = at]

Open(p, at) ==
    [Change(p, "Broad", at) EXCEPT !.granted = at, !.conversations = {}, !.lanes = {}]
Remove(p, at) ==
    [Change(p, "None", at) EXCEPT !.granted = 0, !.conversations = {}, !.lanes = {}]
RestrictPermission(p, existing, at) ==
    [Change(p, "Restricted", at) EXCEPT !.conversations = existing]
PairSenders(p, lanes, at) ==
    [Change(p, "Senders", at) EXCEPT !.granted = 0, !.conversations = {}, !.lanes = lanes]

AuthorizesAlias(p, sender, k, at) ==
    /\ p.changed <= at
    /\ \/ p.state = "Broad"
       \/ p.state = "Restricted" /\ Names(p.conversations, sender, k)

\* ReceivingPermission::consume
ConsumePaired(p, sender, l) ==
    [p EXCEPT !.lanes = {IF s.sender = sender THEN [s EXCEPT !.lane = l] ELSE s : s \in @}]

-----------------------------------------------------------------------------
\* AliasLifecycle and Alias::try_from

AliasLoads(a, r) ==
    /\ r.created <= r.changed
    /\ PermissionLoads(OwnerOf[a], r.permission)
    /\ r.created <= r.permission.changed
    /\ PolicyOf[a] = "Bonded" => r.permission.state \notin {"Broad", "Restricted"}
    /\ r.life = "Active" => r.revision = 0 /\ r.changed = r.created
    /\ r.life # "Active" => r.revision > 0 /\ r.created <= r.at /\ r.at <= r.changed
    /\ r.life \in {"Restricted", "Replaced"} =>
         /\ OneEntryEach(r.existing) /\ OneEntryEach(r.approvals)
         /\ \A e \in r.existing : /\ e.sender # OwnerOf[a]
                                  /\ r.created <= e.at /\ e.at <= r.at
         /\ \A e \in r.approvals : /\ e.sender # OwnerOf[a]
                                   /\ r.created <= e.at /\ e.at <= r.changed
    /\ r.life = "Restricted" =>
         /\ r.revision = Cardinality(r.approvals) + 1
         /\ \A e \in r.approvals : r.at <= e.at
         /\ r.changed \in {e.at : e \in r.approvals} \cup {r.at}
         /\ \A e \in r.approvals : e.at <= r.changed
    /\ r.life = "Replaced" =>
         /\ r.replacement # a /\ r.at < r.until
         /\ r.changed = r.at
         /\ \/ r.revision = Cardinality(r.approvals) + 2
            \/ r.approvals = {} /\ r.revision = 1

CreateAlias(at) ==
    [life |-> "Active", created |-> at, changed |-> at, revision |-> 0, at |-> at,
     until |-> 0, replacement |-> None, existing |-> {}, approvals |-> {},
     permission |-> Unpaired(at)]

\* Alias::update, the lifecycle's own fields aside
Updatable(r, at) == r.life \in {"Active", "Restricted"} /\ r.changed <= at
Update(r, life, at) == [r EXCEPT !.life = life, !.revision = @ + 1, !.changed = at]

\* Alias::existing: the deliveries offered as evidence, refused as a whole
\* when two of them name a conversation or one is not this address's
Evidence(a, r, existing, at) ==
    /\ OneEntryEach(existing)
    /\ \A e \in existing : e.sender # OwnerOf[a] /\ r.created <= e.at /\ e.at <= at

CanRestrict(a, r, existing, at) ==
    r.life = "Active" /\ Updatable(r, at) /\ Evidence(a, r, existing, at)
RestrictAlias(r, existing, at) ==
    [Update(r, "Restricted", at) EXCEPT !.at = at, !.existing = existing, !.approvals = {}]

CanReplace(a, r, b, until, existing, at) ==
    /\ b # a /\ OwnerOf[b] = OwnerOf[a] /\ PolicyOf[b] = PolicyOf[a]
    /\ at < until
    /\ Updatable(r, at)
    /\ r.life = "Active" => Evidence(a, r, existing, at)
ReplaceAlias(r, b, until, existing, at) ==
    [Update(r, "Replaced", at) EXCEPT
        !.at = at, !.until = until, !.replacement = b,
        !.existing = IF r.life = "Restricted" THEN @ ELSE existing]

CanRetire(r, at) == r.life # "Retired" /\ r.changed <= at
RetireAlias(r, at) ==
    [Update(r, "Retired", at) EXCEPT !.at = at, !.until = 0, !.replacement = None,
                                     !.existing = {}, !.approvals = {}]

CanApprove(a, r, sender, k, at) ==
    /\ r.life = "Restricted" /\ Updatable(r, at)
    /\ sender # OwnerOf[a]
    /\ k \notin ConversationsIn(r.existing) \cup ConversationsIn(r.approvals)
ApproveConversation(r, sender, k, at) ==
    [Update(r, "Restricted", at) EXCEPT
        !.approvals = @ \cup {[conversation |-> k, sender |-> sender, at |-> at]}]

CheckConversation(r, sender, k, now) ==
    /\ r.changed <= now
    /\ \/ r.life = "Active"
       \/ /\ \/ r.life = "Restricted"
             \/ r.life = "Replaced" /\ now < r.until
          /\ Names(r.existing \cup r.approvals, sender, k)
=============================================================================
