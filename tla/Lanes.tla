------------------------------- MODULE Lanes -------------------------------
(***************************************************************************)
(* A sender-scoped lane (cs-mail-capabilities/src/lib.rs): the permission  *)
(* a recipient signs for one sender, with an allowance of messages in each *)
(* rate window and a horizon that use of the lane moves.                   *)
(*                                                                         *)
(* The lane's declarations, keys and signature are left out: a message     *)
(* that names the lane carries what its grant asks for.                    *)
(***************************************************************************)
EXTENDS Naturals, FiniteSets

LaneMode == {"Expiring", "Persistent"}
LaneState == {"Active", "AwaitingReconfirmation", "Expired", "Revoked"}

SenderScopedGrant ==
    [ mode      : LaneMode,
      issued    : Nat,      \* issued_at
      before    : Nat,      \* not_before
      after     : Nat,      \* not_after
      lifetime  : Nat,
      limit     : Nat,      \* rate_limit.max_messages
      interval  : Nat,      \* rate_limit.interval
      version   : Nat ]

ValidGrant(g) ==
    /\ g.lifetime > 0
    /\ g.limit > 0 /\ g.interval > 0
    /\ g.issued <= g.before
    /\ g.before < g.after

Earlier(s, t) == IF s <= t THEN s ELSE t

-----------------------------------------------------------------------------
\* LaneRecord and SenderScopedLane::try_from: what a stored lane must
\* satisfy to be read again

SenderScopedLane(Message) ==
    [ grant    : SenderScopedGrant,
      state    : LaneState,
      activity : Nat,               \* last_activity
      horizon  : Nat,
      started  : Nat,               \* rate_window_started_at
      count    : Nat,               \* messages_in_rate_window
      version  : Nat,
      admitted : SUBSET Message ]

ActivityHorizon(l) == Earlier(l.activity + l.grant.lifetime, l.grant.after)

LaneLoads(l) ==
    /\ ValidGrant(l.grant)
    /\ l.grant.issued <= l.activity /\ l.activity < l.grant.after
    /\ l.grant.issued <= l.started /\ l.started <= l.activity
    /\ ActivityHorizon(l) <= l.horizon /\ l.horizon <= l.grant.after
    /\ l.grant.mode = "Expiring" => l.horizon = ActivityHorizon(l)
    /\ l.state = "AwaitingReconfirmation" => l.grant.mode = "Expiring"
    /\ l.state # "Active" => l.version > 0
    /\ l.count <= l.grant.limit
    /\ l.count <= Cardinality(l.admitted)
    /\ l.admitted # {} => l.count > 0
    /\ Cardinality(l.admitted) <= l.version

-----------------------------------------------------------------------------

FromGrant(g) ==
    [ grant |-> g, state |-> "Active", activity |-> g.issued,
      horizon |-> Earlier(g.issued + g.lifetime, g.after),
      started |-> g.issued, count |-> 0, version |-> 0, admitted |-> {} ]

Lapsed(l, now) == l.grant.mode = "Expiring" /\ l.horizon <= now

ProvidesRelationshipAccess(l, now) ==
    /\ l.state = "Active"
    /\ l.grant.issued <= now /\ now < l.grant.after
    /\ ~Lapsed(l, now)

IsCurrent(l, now) ==
    /\ l.state = "Active"
    /\ l.grant.before <= now /\ now < l.grant.after
    /\ ~Lapsed(l, now)

\* what authorizes asks beyond a match of the pair and the declarations
Authorizes(l, now) == IsCurrent(l, now)

WindowOver(l, now) == l.started + l.grant.interval <= now
InWindow(l, now) == IF WindowOver(l, now) THEN 0 ELSE l.count

\* A message the lane has admitted before is answered Ok(true), which every
\* caller refuses.
CanConsume(l, m, now) ==
    /\ Authorizes(l, now)
    /\ m \notin l.admitted
    /\ l.activity <= now
    /\ InWindow(l, now) < l.grant.limit

Consume(l, m, now) ==
    [ l EXCEPT !.started = IF WindowOver(l, now) THEN now ELSE l.started,
               !.count = InWindow(l, now) + 1,
               !.activity = now,
               !.horizon = Earlier(now + l.grant.lifetime, l.grant.after),
               !.version = @ + 1,
               !.admitted = @ \cup {m} ]

HorizonDue(l, now) == l.state = "Active" /\ l.horizon <= now

ReachHorizon(l, now) ==
    IF now >= l.grant.after
      THEN [l EXCEPT !.state = "Expired", !.version = @ + 1]
      ELSE IF l.grant.mode = "Expiring"
             THEN [l EXCEPT !.state = "AwaitingReconfirmation", !.version = @ + 1]
             ELSE [l EXCEPT !.horizon = Earlier(now + l.grant.lifetime, l.grant.after),
                            !.version = @ + 1]

RevokeLane(l) ==
    IF l.state = "Revoked" THEN l ELSE [l EXCEPT !.state = "Revoked", !.version = @ + 1]

CanReconfirm(l, now) ==
    /\ l.state = "AwaitingReconfirmation"
    /\ l.horizon <= now /\ now < l.grant.after

Reconfirm(l, now) ==
    [ l EXCEPT !.state = "Active", !.activity = now, !.version = @ + 1,
               !.horizon = Earlier(now + l.grant.lifetime, l.grant.after) ]
=============================================================================
