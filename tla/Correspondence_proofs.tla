------------------------ MODULE Correspondence_proofs ------------------------
(***************************************************************************)
(* Every record of relationships, lanes, addresses and conversations can   *)
(* be read again, a lane admits what its grant allows, no message gets     *)
(* through that is not invited any more, and what is restricted stays with *)
(* its pair: for any members, addresses, conversations, lanes and numbers  *)
(* of commands and messages.                                               *)
(*                                                                         *)
(* The argument has four parts.  A lane names the version of its grant,    *)
(* which only rises, so that the messages sent on it are its own; and they *)
(* came before its present rate window is over (Allowances).  An address   *)
(* remembers the deliveries it had when it closed (Addresses).  The        *)
(* message a member may answer was received in the present reply epoch, or *)
(* it came before the last withdrawal (Receipts).  What a message may use  *)
(* is closed under sources, so what it was made from is too (Contents).     *)
(***************************************************************************)
EXTENDS Correspondence, FiniteSetTheorems, TLAPS

RelType ==
    /\ rel \in [Directions -> Relationship]
    /\ scope \in [Directions -> AliasScope \cup {None}]
    /\ request \in [Directions -> AliasIds \cup {None}]
    /\ began \in [Directions -> Conversations \cup {None}]
    /\ withdrawn \in [Directions -> SUBSET Message]

LaneType ==
    /\ lane \in [Directions -> SenderScopedLane(Message) \cup {None}]
    /\ due \in [Directions -> Nat \cup {None}]
    /\ claims \subseteq Directions

AliasType == alias \in [AliasIds -> Alias \cup {None}]

ConvType == conv \in [Conversations -> Conversation \cup {None}]

MsgType == msg \in Seq(Delivery) /\ Len(msg) <= MaxMessages

CountsType == now \in 0..MaxTime /\ commands \in 0..MaxCommands

TypeOK == RelType /\ LaneType /\ AliasType /\ ConvType /\ MsgType /\ CountsType

\* A lane in force has its horizon scheduled.
LanesFit ==
    \A d \in Directions : lane[d] # None =>
        /\ LaneLoads(lane[d])
        /\ lane[d].state = "Active" => due[d] = lane[d].horizon

\* What a lane has admitted came before its present window is over.
Windowed(l, on, messages) ==
    /\ l.admitted = on
    /\ l.count <= l.grant.limit
    /\ l.count = Cardinality({m \in on : l.started <= messages[m].at})
    /\ \A m \in on : messages[m].at < l.started + l.grant.interval

OnPair(d) == {m \in Sent : msg[m].on = PairLane(d)}
OnAlias(a, s) == {m \in Sent : msg[m].on = AliasLane(a) /\ msg[m].author = s}

Allowances ==
    /\ \A d \in Directions : lane[d] # None => Windowed(lane[d], OnPair(d), msg)
    /\ \A a \in AliasIds : alias[a] # None =>
          \A p \in alias[a].permission.lanes : Windowed(p.lane, OnAlias(a, p.sender), msg)
    /\ \A m \in Sent : msg[m].on # None =>
          /\ msg[m].on.of \in Directions =>
                lane[msg[m].on.of] # None /\ msg[m].on.version <= lane[msg[m].on.of].grant.version
          /\ msg[m].on.of \in AliasIds =>
                /\ alias[msg[m].on.of] # None
                /\ msg[m].on.version <= alias[msg[m].on.of].permission.revision

\* An address that is closed remembers what had been delivered to it.
Addresses ==
    \A a \in AliasIds : alias[a] # None =>
        /\ AliasLoads(a, alias[a])
        /\ IsFiniteSet(alias[a].approvals)
        /\ alias[a].life = "Active" => alias[a].approvals = {}
        /\ alias[a].permission.state # "Senders" => alias[a].permission.lanes = {}
        /\ \A e \in alias[a].existing :
              \E n \in Sent : /\ msg[n].alias = a /\ msg[n].author = e.sender
                              /\ msg[n].conversation = e.conversation

\* A delivery is in a conversation of its author and the owner of the address.
Deliveries ==
    /\ \A m \in Sent :
         /\ msg[m].at <= now
         /\ msg[m].conversation # None => conv[msg[m].conversation] # None
         /\ msg[m].alias # None =>
               /\ alias[msg[m].alias] # None
               /\ msg[m].conversation # None
               /\ msg[m].author # OwnerOf[msg[m].alias]
               /\ conv[msg[m].conversation].scope = {msg[m].author, OwnerOf[msg[m].alias]}
    /\ \A d \in Directions : request[d] # None =>
         /\ alias[request[d]] # None /\ OwnerOf[request[d]] = d[2]
         /\ began[d] # None /\ conv[began[d]] # None /\ conv[began[d]].scope = {d[1], d[2]}

\* What may be answered is of an earlier epoch, or came after the withdrawal.
Receipts ==
    /\ \A d \in Directions : withdrawn[d] \subseteq Sent
    /\ \A k \in Conversations, d \in Directions :
          conv[k] # None /\ conv[k].scope = {d[1], d[2]} /\ conv[k].received[d[1]] # None =>
             /\ conv[k].received[d[1]].epoch <= rel[d].epoch
             /\ conv[k].received[d[1]].epoch = rel[d].epoch =>
                   conv[k].received[d[1]].message \notin withdrawn[d]

Contents ==
    /\ \A k \in Conversations : conv[k] # None =>
          ConversationLoads(conv[k]) /\ (~conv[k].relaxed => conv[k].restricted)
    /\ \A m \in Sent : msg[m].sources \subseteq Quotable
    /\ \A m \in Sent : msg[m].sources # {} => msg[m].conversation # None
    /\ RestrictedContentStays

IInv ==
    TypeOK /\ LanesFit /\ Allowances /\ Addresses /\ Deliveries /\ Receipts /\ Contents

-----------------------------------------------------------------------------
(***************************************************************************)
(* A lane: what each operation makes of one that loads.                    *)
(***************************************************************************)

LEMMA EarlierIs ==
    ASSUME NEW s \in Nat, NEW t \in Nat
    PROVE  Earlier(s, t) \in Nat /\ Earlier(s, t) <= s /\ Earlier(s, t) <= t
           /\ (Earlier(s, t) = s \/ Earlier(s, t) = t)
BY DEF Earlier

LEMMA GrantLoads ==
    ASSUME NEW M, NEW g \in SenderScopedGrant, ValidGrant(g)
    PROVE  /\ FromGrant(g) \in SenderScopedLane(M) /\ LaneLoads(FromGrant(g))
           /\ FromGrant(g).state = "Active"
           /\ FromGrant(g).admitted = {} /\ FromGrant(g).count = 0
           /\ FromGrant(g).started = g.issued /\ FromGrant(g).grant = g
<1> DEFINE l == FromGrant(g)
<1>1. /\ g.issued \in Nat /\ g.lifetime \in Nat /\ g.after \in Nat /\ g.version \in Nat
      /\ g.limit \in Nat /\ g.before \in Nat /\ g.interval \in Nat
      /\ g.lifetime > 0 /\ g.limit > 0 /\ g.interval > 0 /\ g.issued <= g.before /\ g.before < g.after
  BY DEF SenderScopedGrant, ValidGrant
<1>2. /\ l.grant = g /\ l.state = "Active" /\ l.activity = g.issued
      /\ l.horizon = Earlier(g.issued + g.lifetime, g.after)
      /\ l.started = g.issued /\ l.count = 0 /\ l.version = 0 /\ l.admitted = {}
  BY DEF FromGrant
<1>3. l.horizon \in Nat /\ l.horizon <= g.after
  BY <1>1, <1>2, EarlierIs
<1>4. l \in SenderScopedLane(M)
  BY <1>1, <1>3 DEF FromGrant, SenderScopedLane, LaneState
<1>5. Cardinality(l.admitted) = 0
  BY <1>2, FS_EmptySet
<1> HIDE DEF l
<1>6. LaneLoads(l)
  BY <1>1, <1>2, <1>3, <1>5, ValidGrant(g) DEF LaneLoads, ActivityHorizon
<1> QED
  BY <1>2, <1>4, <1>6 DEF l

\* What LaneLoads asks, as facts of its fields.
LEMMA LaneFields ==
    ASSUME NEW M, NEW l \in SenderScopedLane(M)
    PROVE  /\ l.grant \in SenderScopedGrant /\ l.state \in LaneState /\ l.activity \in Nat
           /\ l.horizon \in Nat /\ l.started \in Nat /\ l.count \in Nat /\ l.version \in Nat
           /\ l.admitted \in SUBSET M
           /\ l.grant.issued \in Nat /\ l.grant.lifetime \in Nat /\ l.grant.after \in Nat
           /\ l.grant.version \in Nat /\ l.grant.limit \in Nat /\ l.grant.before \in Nat
           /\ l.grant.interval \in Nat /\ l.grant.mode \in LaneMode
BY DEF SenderScopedLane, SenderScopedGrant

LEMMA LaneChange ==
    ASSUME NEW M, NEW l \in SenderScopedLane(M), NEW s \in LaneState, NEW v \in Nat,
           NEW h \in Nat, NEW t \in Nat
    PROVE  /\ [l EXCEPT !.state = s, !.version = v] \in SenderScopedLane(M)
           /\ [l EXCEPT !.state = s, !.activity = t, !.version = v, !.horizon = h]
                  \in SenderScopedLane(M)
BY DEF SenderScopedLane

LEMMA HorizonChange ==
    ASSUME NEW M, NEW l \in SenderScopedLane(M), NEW v \in Nat, NEW h \in Nat
    PROVE  [l EXCEPT !.horizon = h, !.version = v] \in SenderScopedLane(M)
BY DEF SenderScopedLane

LEMMA ConsumeLoads ==
    ASSUME NEW M, NEW l \in SenderScopedLane(M), LaneLoads(l), IsFiniteSet(l.admitted),
           NEW m \in M, NEW t \in Nat, CanConsume(l, m, t)
    PROVE  LET c == Consume(l, m, t) IN
           /\ c \in SenderScopedLane(M) /\ LaneLoads(c)
           /\ c.state = "Active" /\ c.grant = l.grant
           /\ c.admitted = l.admitted \cup {m}
           /\ c.started = IF WindowOver(l, t) THEN t ELSE l.started
           /\ c.count = InWindow(l, t) + 1 /\ c.count <= l.grant.limit
<1> DEFINE c == Consume(l, m, t)
           g == l.grant
<1>0. /\ l.grant \in SenderScopedGrant /\ l.state \in LaneState /\ l.activity \in Nat
      /\ l.horizon \in Nat /\ l.started \in Nat /\ l.count \in Nat /\ l.version \in Nat
      /\ l.admitted \in SUBSET M
      /\ g.issued \in Nat /\ g.lifetime \in Nat /\ g.after \in Nat
      /\ g.limit \in Nat /\ g.before \in Nat /\ g.interval \in Nat
  BY LaneFields
<1>1. /\ l.state = "Active" /\ g.before <= t /\ t < g.after
      /\ m \notin l.admitted /\ l.activity <= t /\ InWindow(l, t) < g.limit
  BY DEF CanConsume, Authorizes, IsCurrent
<1>2. /\ ValidGrant(g) /\ g.issued <= l.activity /\ g.issued <= l.started /\ l.started <= l.activity
      /\ l.count <= Cardinality(l.admitted)
      /\ Cardinality(l.admitted) <= l.version
      /\ g.issued <= g.before
  BY DEF LaneLoads, ValidGrant
<1>3. /\ c.grant = g /\ c.state = l.state
      /\ c.started = (IF WindowOver(l, t) THEN t ELSE l.started)
      /\ c.count = InWindow(l, t) + 1 /\ c.activity = t
      /\ c.horizon = Earlier(t + g.lifetime, g.after)
      /\ c.version = l.version + 1 /\ c.admitted = l.admitted \cup {m}
  BY DEF Consume, SenderScopedLane
<1>4. InWindow(l, t) \in Nat /\ InWindow(l, t) <= l.count
  BY <1>0 DEF InWindow
<1>5. c.horizon \in Nat /\ c.horizon <= g.after
  <2>1. t + g.lifetime \in Nat
    BY <1>0
  <2> HIDE DEF g
  <2>2. Earlier(t + g.lifetime, g.after) \in Nat /\ Earlier(t + g.lifetime, g.after) <= g.after
    BY <1>0, <2>1, EarlierIs
  <2> QED
    BY <1>3, <2>2 DEF g
<1>6. c.started \in Nat /\ c.count \in Nat /\ c.version \in Nat /\ c.admitted \in SUBSET M
  BY <1>0, <1>3, <1>4
<1>7. c \in SenderScopedLane(M)
  BY <1>0, <1>3, <1>5, <1>6 DEF Consume, SenderScopedLane
<1>8. Cardinality(c.admitted) = Cardinality(l.admitted) + 1 /\ Cardinality(l.admitted) \in Nat
  BY <1>1, <1>3, FS_AddElement, FS_CardinalityType
<1> HIDE DEF c, g
<1>9. /\ g.issued <= c.started /\ c.started <= t /\ g.issued <= t
  BY <1>0, <1>1, <1>2, <1>3
<1>10. ActivityHorizon(c) = c.horizon
  BY <1>3 DEF ActivityHorizon
<1>11. /\ c.count <= g.limit /\ c.count <= Cardinality(c.admitted) /\ c.count > 0
       /\ Cardinality(c.admitted) <= c.version
  BY <1>0, <1>1, <1>2, <1>3, <1>4, <1>8
<1>12. LaneLoads(c)
  BY <1>1, <1>2, <1>3, <1>5, <1>9, <1>10, <1>11 DEF LaneLoads
<1> QED
  BY <1>1, <1>3, <1>7, <1>11, <1>12 DEF c, g

\* What changes neither the grant nor what the lane has admitted.
SameUse(c, l) ==
    /\ c.grant = l.grant /\ c.admitted = l.admitted
    /\ c.count = l.count /\ c.started = l.started

LEMMA RevokeLoads ==
    ASSUME NEW M, NEW l \in SenderScopedLane(M), LaneLoads(l), IsFiniteSet(l.admitted)
    PROVE  /\ RevokeLane(l) \in SenderScopedLane(M) /\ LaneLoads(RevokeLane(l))
           /\ RevokeLane(l).state = "Revoked" /\ SameUse(RevokeLane(l), l)
<1>1. CASE l.state = "Revoked"
  BY <1>1 DEF RevokeLane, SameUse
<1>2. CASE l.state # "Revoked"
  <2> DEFINE c == RevokeLane(l)
  <2>0. c = [l EXCEPT !.state = "Revoked", !.version = l.version + 1]
    BY <1>2 DEF RevokeLane
  <2>1. /\ c.grant = l.grant /\ c.admitted = l.admitted /\ c.count = l.count /\ c.started = l.started
        /\ c.activity = l.activity /\ c.horizon = l.horizon
        /\ c.state = "Revoked" /\ c.version = l.version + 1 /\ l.version \in Nat
    BY <2>0 DEF SenderScopedLane
  <2> HIDE DEF c
  <2>2. c \in SenderScopedLane(M)
    <3>1. "Revoked" \in LaneState /\ l.version + 1 \in Nat
      BY <2>1 DEF LaneState
    <3> QED
      BY <2>0, <3>1, LaneChange
  <2>3. ActivityHorizon(c) = ActivityHorizon(l)
    BY <2>1 DEF ActivityHorizon
  <2>4. Cardinality(c.admitted) <= c.version
    <3>1. Cardinality(l.admitted) \in Nat
      BY FS_CardinalityType
    <3> QED
      BY <2>1, <3>1 DEF LaneLoads
  <2>5. LaneLoads(c)
    BY <2>1, <2>3, <2>4 DEF LaneLoads
  <2> QED
    BY <2>1, <2>2, <2>5 DEF SameUse, c
<1> QED
  BY <1>1, <1>2

LEMMA HorizonLoads ==
    ASSUME NEW M, NEW l \in SenderScopedLane(M), LaneLoads(l), IsFiniteSet(l.admitted),
           NEW t \in Nat, HorizonDue(l, t)
    PROVE  /\ ReachHorizon(l, t) \in SenderScopedLane(M) /\ LaneLoads(ReachHorizon(l, t))
           /\ SameUse(ReachHorizon(l, t), l)
<1> DEFINE c == ReachHorizon(l, t)
           g == l.grant
<1>0. /\ l.grant \in SenderScopedGrant /\ l.state \in LaneState /\ l.activity \in Nat
      /\ l.horizon \in Nat /\ l.started \in Nat /\ l.count \in Nat /\ l.version \in Nat
      /\ l.admitted \in SUBSET M /\ g.lifetime \in Nat /\ g.after \in Nat /\ g.mode \in LaneMode
      /\ Cardinality(l.admitted) \in Nat
  BY LaneFields, FS_CardinalityType
<1>1. /\ c.grant = g /\ c.admitted = l.admitted /\ c.count = l.count /\ c.started = l.started
      /\ c.activity = l.activity /\ c.version = l.version + 1
  BY DEF ReachHorizon, SenderScopedLane
<1>2. CASE t >= g.after
  <2>1. c = [l EXCEPT !.state = "Expired", !.version = l.version + 1]
    BY <1>2 DEF ReachHorizon
  <2>2. c.state = "Expired" /\ c.horizon = l.horizon
    BY <2>1 DEF SenderScopedLane
  <2> HIDE DEF c, g
  <2>3. c \in SenderScopedLane(M)
    <3>1. "Expired" \in LaneState /\ l.version + 1 \in Nat
      BY <1>0 DEF LaneState
    <3> QED
      BY <2>1, <3>1, LaneChange
  <2>4. ActivityHorizon(c) = ActivityHorizon(l)
    BY <1>1 DEF ActivityHorizon, g
  <2>5. LaneLoads(c)
    BY <1>0, <1>1, <2>2, <2>4 DEF LaneLoads, g
  <2> QED
    BY <1>1, <2>3, <2>5 DEF SameUse, c, g
<1>3. CASE ~(t >= g.after) /\ g.mode = "Expiring"
  <2>1. c = [l EXCEPT !.state = "AwaitingReconfirmation", !.version = l.version + 1]
    BY <1>3 DEF ReachHorizon
  <2>2. c.state = "AwaitingReconfirmation" /\ c.horizon = l.horizon
    BY <2>1 DEF SenderScopedLane
  <2> HIDE DEF c, g
  <2>3. c \in SenderScopedLane(M)
    <3>1. "AwaitingReconfirmation" \in LaneState /\ l.version + 1 \in Nat
      BY <1>0 DEF LaneState
    <3> QED
      BY <2>1, <3>1, LaneChange
  <2>4. ActivityHorizon(c) = ActivityHorizon(l)
    BY <1>1 DEF ActivityHorizon, g
  <2>5. LaneLoads(c)
    BY <1>0, <1>1, <1>3, <2>2, <2>4 DEF LaneLoads, g
  <2> QED
    BY <1>1, <2>3, <2>5 DEF SameUse, c, g
<1>4. CASE ~(t >= g.after) /\ g.mode # "Expiring"
  <2>1. c = [l EXCEPT !.horizon = Earlier(t + l.grant.lifetime, l.grant.after), !.version = l.version + 1]
    BY <1>4 DEF ReachHorizon
  <2>2. c.state = l.state /\ c.horizon = Earlier(t + g.lifetime, g.after)
    BY <2>1 DEF SenderScopedLane
  <2> HIDE DEF c, g
  <2>3. t + g.lifetime \in Nat /\ l.activity + g.lifetime \in Nat
    BY <1>0
  <2>4. Earlier(t + g.lifetime, g.after) \in Nat /\ Earlier(t + g.lifetime, g.after) <= g.after
    BY <1>0, <2>3, EarlierIs
  <2>5. c \in SenderScopedLane(M)
    <3>1. l.version + 1 \in Nat /\ c = [l EXCEPT !.horizon = Earlier(t + g.lifetime, g.after), !.version = l.version + 1]
      BY <2>1, <1>0 DEF g
    <3> QED
      BY <2>4, <3>1, HorizonChange
  <2>6. ActivityHorizon(c) = ActivityHorizon(l) /\ ActivityHorizon(l) = Earlier(l.activity + g.lifetime, g.after)
    BY <1>1 DEF ActivityHorizon, g
  <2>7. ActivityHorizon(l) <= l.horizon /\ l.horizon <= t /\ l.horizon <= g.after
        /\ ActivityHorizon(l) \in Nat
    <3>1. ActivityHorizon(l) \in Nat
      <4>1. g.after \in Nat
        BY <1>0 DEF g
      <4> QED
        BY <2>3, <2>6, <4>1, EarlierIs
    <3>2. ActivityHorizon(l) <= l.horizon /\ l.horizon <= g.after
      BY DEF LaneLoads, g
    <3>3. l.horizon <= t
      BY DEF HorizonDue
    <3> QED
      BY <3>1, <3>2, <3>3
  <2>8. ActivityHorizon(c) <= c.horizon
    <3>1. l.horizon <= t + g.lifetime
      BY <1>0, <2>7
    <3>2. Earlier(t + g.lifetime, g.after) >= l.horizon
      BY <1>0, <2>7, <3>1, <2>3 DEF Earlier
    <3> QED
      BY <1>0, <2>2, <2>4, <2>6, <2>7, <3>2
  <2>9. LaneLoads(c)
    BY <1>0, <1>1, <1>4, <2>2, <2>4, <2>8 DEF LaneLoads, g
  <2> QED
    BY <1>1, <2>5, <2>9 DEF SameUse, c, g
<1> QED
  BY <1>2, <1>3, <1>4

LEMMA ReconfirmLoads ==
    ASSUME NEW M, NEW l \in SenderScopedLane(M), LaneLoads(l), IsFiniteSet(l.admitted),
           NEW t \in Nat, CanReconfirm(l, t)
    PROVE  /\ Reconfirm(l, t) \in SenderScopedLane(M) /\ LaneLoads(Reconfirm(l, t))
           /\ SameUse(Reconfirm(l, t), l)
<1> DEFINE c == Reconfirm(l, t)
           g == l.grant
<1>0. /\ l.grant \in SenderScopedGrant /\ l.state \in LaneState /\ l.activity \in Nat
      /\ l.horizon \in Nat /\ l.started \in Nat /\ l.count \in Nat /\ l.version \in Nat
      /\ l.admitted \in SUBSET M /\ g.lifetime \in Nat /\ g.after \in Nat /\ g.mode \in LaneMode
      /\ g.issued \in Nat /\ Cardinality(l.admitted) \in Nat
  BY LaneFields, FS_CardinalityType
<1>1. c = [l EXCEPT !.state = "Active", !.activity = t, !.version = l.version + 1,
                    !.horizon = Earlier(t + l.grant.lifetime, l.grant.after)]
  BY DEF Reconfirm
<1>2. /\ c.grant = g /\ c.admitted = l.admitted /\ c.count = l.count /\ c.started = l.started
      /\ c.activity = t /\ c.version = l.version + 1 /\ c.state = "Active"
      /\ c.horizon = Earlier(t + g.lifetime, g.after)
  BY <1>1 DEF SenderScopedLane
<1> HIDE DEF c, g
<1>3. t + g.lifetime \in Nat /\ l.activity + g.lifetime \in Nat
  BY <1>0
<1>4. Earlier(t + g.lifetime, g.after) \in Nat /\ Earlier(t + g.lifetime, g.after) <= g.after
  BY <1>0, <1>3, EarlierIs
<1>5. c \in SenderScopedLane(M)
  <2>1. /\ l.version + 1 \in Nat /\ "Active" \in LaneState
        /\ c = [l EXCEPT !.state = "Active", !.activity = t, !.version = l.version + 1,
                         !.horizon = Earlier(t + g.lifetime, g.after)]
    BY <1>1, <1>0 DEF g, LaneState
  <2> QED
    BY <1>4, <2>1, LaneChange
<1>6. ActivityHorizon(c) = c.horizon
  BY <1>2 DEF ActivityHorizon
<1>7. l.activity <= t
  <2>1. l.state = "AwaitingReconfirmation" /\ l.horizon <= t /\ t < g.after
    BY DEF CanReconfirm, g
  <2>2. g.mode = "Expiring" /\ l.horizon = Earlier(l.activity + g.lifetime, g.after)
        /\ l.activity < g.after
    BY <2>1 DEF LaneLoads, ActivityHorizon, g
  <2>3. l.activity <= Earlier(l.activity + g.lifetime, g.after)
    BY <1>0, <2>2, <1>3 DEF Earlier
  <2> QED
    BY <1>0, <2>1, <2>2, <2>3
<1>8. t < g.after
  BY DEF CanReconfirm, g
<1>9. /\ g.issued <= t /\ g.issued <= l.started /\ l.started <= t
  BY <1>0, <1>7 DEF LaneLoads, g
<1>10. LaneLoads(c)
  BY <1>0, <1>2, <1>4, <1>6, <1>8, <1>9 DEF LaneLoads, g
<1> QED
  BY <1>2, <1>5, <1>10 DEF SameUse, c, g

-----------------------------------------------------------------------------
(***************************************************************************)
(* What a lane has admitted in its present window.                         *)
(***************************************************************************)

LEMMA WindowSame ==
    ASSUME NEW l, NEW c, NEW on, NEW messages, Windowed(l, on, messages), SameUse(c, l)
    PROVE  Windowed(c, on, messages)
BY DEF Windowed, SameUse

LEMMA WindowNew ==
    ASSUME NEW l, NEW messages, l.admitted = {}, l.count = 0, l.grant.limit \in Nat
    PROVE  Windowed(l, {}, messages)
<1>1. {m \in {} : l.started <= messages[m].at} = {}
  OBVIOUS
<1>2. Cardinality({m \in {} : l.started <= messages[m].at}) = 0
  BY <1>1, FS_EmptySet
<1> QED
  BY <1>2 DEF Windowed

\* What is not in on does not matter, and what is stays as it is.
LEMMA WindowFrame ==
    ASSUME NEW l, NEW on, NEW old, NEW new, Windowed(l, on, old), \A m \in on : new[m] = old[m]
    PROVE  Windowed(l, on, new)
<1>1. {m \in on : l.started <= old[m].at} = {m \in on : l.started <= new[m].at}
  OBVIOUS
<1> QED
  BY <1>1 DEF Windowed

LEMMA WindowConsume ==
    ASSUME NEW M, NEW l \in SenderScopedLane(M), LaneLoads(l), NEW on, IsFiniteSet(on),
           NEW old, NEW new, NEW f \in M, NEW t \in Nat,
           Windowed(l, on, old), CanConsume(l, f, t),
           \A m \in on : new[m] = old[m] /\ old[m].at \in Nat /\ old[m].at <= t,
           new[f].at = t
    PROVE  Windowed(Consume(l, f, t), on \cup {f}, new)
<1> DEFINE c == Consume(l, f, t)
           present == {m \in on : l.started <= old[m].at}
           later == {m \in on \cup {f} : c.started <= new[m].at}
<1>1. l.admitted = on /\ f \notin on
  BY DEF Windowed, CanConsume
<1>2. /\ c.grant = l.grant /\ c.admitted = l.admitted \cup {f}
      /\ c.started = IF WindowOver(l, t) THEN t ELSE l.started
      /\ c.count = InWindow(l, t) + 1 /\ c.count <= l.grant.limit
  BY <1>1, ConsumeLoads
<1>3. /\ l.grant.interval \in Nat /\ l.grant.interval > 0 /\ l.started \in Nat /\ l.activity \in Nat
      /\ l.started <= t
  <2>1. /\ l.grant.interval \in Nat /\ l.started \in Nat /\ l.activity \in Nat
    BY LaneFields
  <2> QED
    BY <2>1 DEF LaneLoads, ValidGrant, CanConsume
<1>4. l.count = Cardinality(present) /\ \A m \in on : old[m].at < l.started + l.grant.interval
  BY DEF Windowed
<1>5. IsFiniteSet(present) /\ f \notin present
  BY <1>1, FS_Subset
<1> HIDE DEF c
<1>6. CASE WindowOver(l, t)
  <2>1. l.started + l.grant.interval <= t
    BY <1>6 DEF WindowOver
  <2>2. c.started = t /\ c.count = 1
    BY <1>2, <1>6 DEF InWindow
  <2>3. later = {f}
    BY <1>3, <1>4, <2>1, <2>2
  <2>4. Cardinality(later) = 1
    BY <2>3, FS_Singleton
  <2>5. \A m \in on \cup {f} : new[m].at < c.started + c.grant.interval
    BY <1>2, <1>3, <2>2, <1>4, <2>1
  <2> QED
    BY <1>1, <1>2, <2>2, <2>4, <2>5 DEF Windowed, c
<1>7. CASE ~WindowOver(l, t)
  <2>1. t < l.started + l.grant.interval
    BY <1>3, <1>7 DEF WindowOver
  <2>2. c.started = l.started /\ c.count = l.count + 1
    BY <1>2, <1>7 DEF InWindow
  <2>3. later = present \cup {f}
    BY <1>3, <2>2
  <2>4. Cardinality(later) = Cardinality(present) + 1
    BY <1>5, <2>3, FS_AddElement
  <2>5. \A m \in on \cup {f} : new[m].at < c.started + c.grant.interval
    BY <1>2, <1>3, <2>2, <1>4, <2>1
  <2> QED
    BY <1>1, <1>2, <1>4, <2>2, <2>4, <2>5 DEF Windowed, c
<1> QED
  BY <1>6, <1>7

-----------------------------------------------------------------------------
(***************************************************************************)
(* The messages.                                                           *)
(***************************************************************************)

LEMMA MessageFacts ==
    ASSUME MsgType
    PROVE  /\ Len(msg) \in Nat /\ Sent = 1..Len(msg) /\ Sent \subseteq Message /\ IsFiniteSet(Sent)
           /\ \A m \in Sent : msg[m] \in Delivery
           /\ Fresh \notin Sent
<1>1. Len(msg) \in Nat /\ Len(msg) <= MaxMessages /\ Sent = 1..Len(msg) /\ MaxMessages \in Nat
  BY CorrespondenceAssumption DEF MsgType, Sent
<1>2. \A m \in Sent : msg[m] \in Delivery
  BY <1>1 DEF MsgType, Sent
<1>3. IsFiniteSet(Sent)
  BY <1>1, FS_Interval
<1> QED
  BY <1>1, <1>2, <1>3 DEF Message, Fresh

LEMMA DeliveryFields ==
    ASSUME NEW x \in Delivery
    PROVE  /\ x.author \in Members /\ x.conversation \in Conversations \cup {None}
           /\ x.alias \in AliasIds \cup {None} /\ x.source \in Message \cup {None}
           /\ x.on \in LaneUsed \cup {None} /\ x.at \in Nat
           /\ x.sources \in SUBSET Message /\ x.open \in BOOLEAN
           /\ x.on # None => x.on.of \in Directions \cup AliasIds /\ x.on.version \in Nat
BY DEF Delivery, LaneUsed

LEMMA MessageAppended ==
    ASSUME MsgType, NEW x \in Delivery, CanSend, msg' = Append(msg, x)
    PROVE  /\ MsgType' /\ Sent' = Sent \cup {Fresh} /\ Fresh \in Message /\ Fresh \notin Sent
           /\ \A m \in Sent : msg'[m] = msg[m]
           /\ msg'[Fresh] = x
<1>1. /\ Len(msg) \in Nat /\ Sent = 1..Len(msg) /\ Fresh \notin Sent
  BY MessageFacts
<1>2. Len(msg) < MaxMessages /\ MaxMessages \in Nat /\ msg \in Seq(Delivery)
  BY CorrespondenceAssumption DEF CanSend, MsgType
<1>3. msg' \in Seq(Delivery) /\ Len(msg') = Len(msg) + 1 /\ DOMAIN msg' = 1..(Len(msg) + 1)
  BY <1>1, <1>2
<1>4. \A m \in Sent : msg'[m] = msg[m]
  BY <1>1, <1>2
<1>5. msg'[Fresh] = x
  BY <1>1, <1>2 DEF Fresh
<1>6. Sent' = Sent \cup {Fresh} /\ Fresh \in Message
  BY <1>1, <1>2, <1>3 DEF Sent, Fresh, Message
<1>7. MsgType'
  BY <1>1, <1>2, <1>3 DEF MsgType
<1> QED
  BY <1>1, <1>4, <1>5, <1>6, <1>7

-----------------------------------------------------------------------------
(***************************************************************************)
(* A step that leaves the addresses and the messages alone.                *)
(***************************************************************************)

\* a lane that the step leaves alone, moves or grants
LaneMoved(d) ==
    /\ lane[d] # None /\ lane'[d] # None /\ SameUse(lane'[d], lane[d])
LaneGranted(d) ==
    /\ lane'[d] # None /\ lane'[d].admitted = {} /\ lane'[d].count = 0
    /\ lane[d] # None => lane'[d].grant.version > lane[d].grant.version
LaneStep(d) ==
    \/ lane'[d] = lane[d] /\ (due'[d] = due[d] \/ lane[d] = None)
    \/ /\ LaneMoved(d) \/ LaneGranted(d)
       /\ LaneLoads(lane'[d])
       /\ lane'[d].state = "Active" => due'[d] = lane'[d].horizon

EpochStep(d) ==
    \/ rel'[d].epoch = rel[d].epoch /\ withdrawn'[d] = withdrawn[d]
    \/ rel'[d].epoch > rel[d].epoch /\ withdrawn'[d] = Sent

LEMMA LanesFitStep ==
    ASSUME LanesFit, \A d \in Directions : LaneStep(d)
    PROVE  LanesFit'
<1> SUFFICES ASSUME NEW d \in Directions, lane'[d] # None
             PROVE  LaneLoads(lane'[d]) /\ (lane'[d].state = "Active" => due'[d] = lane'[d].horizon)
  BY DEF LanesFit
<1> QED
  BY DEF LanesFit, LaneStep

LEMMA PairFields ==
    ASSUME TypeOK, NEW d \in Directions, lane[d] # None
    PROVE  /\ lane[d] \in SenderScopedLane(Message)
           /\ lane[d].grant.version \in Nat /\ lane[d].grant.limit \in Nat
<1>1. lane[d] \in SenderScopedLane(Message)
  BY DEF TypeOK, LaneType
<1> QED
  BY <1>1, LaneFields

\* The lanes of pairs, with the messages left alone.
LEMMA PairAllowances ==
    ASSUME TypeOK, TypeOK', Allowances, UNCHANGED msg, \A d \in Directions : LaneStep(d)
    PROVE  /\ \A d \in Directions : lane'[d] # None => Windowed(lane'[d], OnPair(d)', msg')
           /\ \A m \in Sent : msg[m].on # None /\ msg[m].on.of \in Directions =>
                 /\ lane'[msg[m].on.of] # None
                 /\ msg[m].on.version <= lane'[msg[m].on.of].grant.version
<1>1. ASSUME NEW d \in Directions, lane[d] # None
      PROVE  lane'[d] # None /\ lane'[d].grant.version >= lane[d].grant.version
  <2>1. lane[d].grant.version \in Nat
    BY <1>1, PairFields
  <2>2. CASE lane'[d] = lane[d]
    BY <1>1, <2>1, <2>2
  <2>3. CASE LaneMoved(d)
    BY <2>1, <2>3 DEF LaneMoved, SameUse
  <2>4. CASE LaneGranted(d)
    <3>1. lane'[d] # None /\ lane'[d].grant.version > lane[d].grant.version
      BY <1>1, <2>4 DEF LaneGranted
    <3>2. lane'[d].grant.version \in Nat
      <4>1. lane'[d] \in SenderScopedLane(Message)
        BY <3>1 DEF TypeOK, LaneType
      <4> QED
        BY <4>1, LaneFields
    <3> QED
      BY <2>1, <3>1, <3>2
  <2> QED
    BY <2>2, <2>3, <2>4 DEF LaneStep
<1>2. ASSUME NEW d \in Directions, lane'[d] # None
      PROVE  Windowed(lane'[d], OnPair(d)', msg')
  <2>1. CASE lane'[d] = lane[d]
    <3>1. OnPair(d)' = OnPair(d)
      BY <2>1 DEF OnPair, PairLane, Sent
    <3>2. Windowed(lane[d], OnPair(d), msg)
      BY <1>2, <2>1 DEF Allowances
    <3> QED
      BY <2>1, <3>1, <3>2
  <2>2. CASE LaneMoved(d)
    <3>1. lane[d] # None /\ SameUse(lane'[d], lane[d]) /\ lane'[d].grant = lane[d].grant
      BY <2>2 DEF LaneMoved, SameUse
    <3>2. OnPair(d)' = OnPair(d)
      BY <3>1 DEF OnPair, PairLane, Sent
    <3>3. Windowed(lane[d], OnPair(d), msg)
      BY <3>1 DEF Allowances
    <3>4. Windowed(lane'[d], OnPair(d), msg)
      BY <3>1, <3>3, WindowSame
    <3> QED
      BY <3>2, <3>4
  <2>3. CASE LaneGranted(d)
    <3>1. lane'[d].grant.version \in Nat /\ lane'[d].grant.limit \in Nat
      <4>1. lane'[d] \in SenderScopedLane(Message)
        BY <1>2 DEF TypeOK, LaneType
      <4> QED
        BY <4>1, LaneFields
    <3>2. OnPair(d)' = {}
      <4> SUFFICES ASSUME NEW m \in Sent, msg[m].on = [of |-> d, version |-> lane'[d].grant.version]
                   PROVE  FALSE
        BY DEF OnPair, PairLane, Sent
      <4>1. msg[m].on # None
        <5>1. [of |-> d, version |-> lane'[d].grant.version] \in LaneUsed
          BY <3>1 DEF LaneUsed
        <5> QED
          BY <5>1, NoneIsAbsence
      <4>2. msg[m].on.of = d /\ msg[m].on.version = lane'[d].grant.version
        OBVIOUS
      <4>3. lane[d] # None /\ msg[m].on.version <= lane[d].grant.version
        BY <4>1, <4>2 DEF Allowances
      <4>4. lane[d].grant.version \in Nat
        BY <4>3, PairFields
      <4> QED
        BY <2>3, <3>1, <4>2, <4>3, <4>4 DEF LaneGranted
    <3>3. lane'[d].admitted = {} /\ lane'[d].count = 0
      BY <2>3 DEF LaneGranted
    <3>4. Windowed(lane'[d], {}, msg')
      BY <3>1, <3>3, WindowNew
    <3> QED
      BY <3>2, <3>4
  <2> QED
    BY <2>1, <2>2, <2>3 DEF LaneStep
<1>3. ASSUME NEW m \in Sent, msg[m].on # None, msg[m].on.of \in Directions
      PROVE  /\ lane'[msg[m].on.of] # None
             /\ msg[m].on.version <= lane'[msg[m].on.of].grant.version
  <2> DEFINE d == msg[m].on.of
  <2>1. lane[d] # None /\ msg[m].on.version <= lane[d].grant.version
    BY <1>3 DEF Allowances
  <2>2. lane'[d] # None /\ lane'[d].grant.version >= lane[d].grant.version
    BY <1>1, <1>3, <2>1
  <2>3. msg[m].on.version \in Nat /\ lane[d].grant.version \in Nat
    <3>1. msg[m] \in Delivery
      BY MessageFacts DEF TypeOK
    <3> QED
      BY <1>3, <2>1, <3>1, DeliveryFields, PairFields
  <2>4. lane'[d].grant.version \in Nat
    <3>1. lane'[d] \in SenderScopedLane(Message)
      BY <1>3, <2>2 DEF TypeOK, LaneType
    <3> QED
      BY <3>1, LaneFields
  <2> QED
    BY <2>1, <2>2, <2>3, <2>4
<1> QED
  BY <1>2, <1>3

LEMMA ContactStep ==
    ASSUME IInv, TypeOK', UNCHANGED <<now, began, alias, conv, msg>>,
           \A d \in Directions : LaneStep(d) /\ EpochStep(d) /\ request'[d] \in {request[d], None}
    PROVE  IInv'
<1>1. LanesFit'
  BY LanesFitStep DEF IInv
<1>2. Allowances'
  <2>1. /\ \A d \in Directions : lane'[d] # None => Windowed(lane'[d], OnPair(d)', msg')
        /\ \A m \in Sent : msg[m].on # None /\ msg[m].on.of \in Directions =>
              /\ lane'[msg[m].on.of] # None
              /\ msg[m].on.version <= lane'[msg[m].on.of].grant.version
    BY PairAllowances DEF IInv
  <2>2. \A a \in AliasIds : \A s : OnAlias(a, s)' = OnAlias(a, s)
    BY DEF OnAlias, AliasLane, Sent
  <2>3. Sent' = Sent /\ msg' = msg /\ alias' = alias
    BY DEF Sent
  <2>4. \A a \in AliasIds : alias'[a] # None =>
          \A p \in alias'[a].permission.lanes : Windowed(p.lane, OnAlias(a, p.sender)', msg')
    BY <2>2, <2>3 DEF IInv, Allowances
  <2>5. \A m \in Sent' : msg'[m].on # None =>
          /\ msg'[m].on.of \in Directions =>
                lane'[msg'[m].on.of] # None /\ msg'[m].on.version <= lane'[msg'[m].on.of].grant.version
          /\ msg'[m].on.of \in AliasIds =>
                /\ alias'[msg'[m].on.of] # None
                /\ msg'[m].on.version <= alias'[msg'[m].on.of].permission.revision
    BY <2>1, <2>3 DEF IInv, Allowances
  <2> QED
    BY <2>1, <2>4, <2>5 DEF Allowances
<1>3. Addresses'
  BY DEF IInv, Addresses, Sent
<1>4. Deliveries'
  <2>1. Deliveries
    BY DEF IInv
  <2> QED
    BY <2>1 DEF Deliveries, Sent
<1>5. Receipts'
  <2>1. Sent' = Sent /\ conv' = conv
    BY DEF Sent
  <2>2. ASSUME NEW d \in Directions
        PROVE  withdrawn'[d] \subseteq Sent
    BY DEF IInv, Receipts, EpochStep
  <2>3. ASSUME NEW k \in Conversations, NEW d \in Directions,
               conv[k] # None, conv[k].scope = {d[1], d[2]}, conv[k].received[d[1]] # None
        PROVE  /\ conv[k].received[d[1]].epoch <= rel'[d].epoch
               /\ conv[k].received[d[1]].epoch = rel'[d].epoch =>
                     conv[k].received[d[1]].message \notin withdrawn'[d]
    <3>1. /\ conv[k].received[d[1]].epoch <= rel[d].epoch
          /\ conv[k].received[d[1]].epoch = rel[d].epoch =>
                conv[k].received[d[1]].message \notin withdrawn[d]
      BY <2>3 DEF IInv, Receipts
    <3>2. conv[k].received[d[1]].epoch \in Nat
      <4>1. conv[k] \in Conversation
        BY <2>3 DEF IInv, TypeOK, ConvType
      <4>2. d[1] \in Members
        BY CorrespondenceAssumption
      <4>3. conv[k].received[d[1]] \in Receipt
        BY <2>3, <4>1, <4>2 DEF Conversation
      <4> QED
        BY <4>3 DEF Receipt
    <3>3. rel[d].epoch \in Nat /\ rel'[d].epoch \in Nat
      <4>1. rel[d] \in Relationship /\ rel'[d] \in Relationship
        BY DEF IInv, TypeOK, RelType
      <4> QED
        BY <4>1 DEF Relationship
    <3>4. EpochStep(d)
      OBVIOUS
    <3> QED
      BY <3>1, <3>2, <3>3, <3>4 DEF EpochStep
  <2> QED
    BY <2>1, <2>2, <2>3 DEF Receipts
<1>6. Contents'
  <2>1. Contents
    BY DEF IInv
  <2> QED
    BY <2>1 DEF Contents, RestrictedContentStays, Sources, Reached, Quotable, Sent
<1> QED
  BY <1>1, <1>2, <1>3, <1>4, <1>5, <1>6 DEF IInv

-----------------------------------------------------------------------------
(***************************************************************************)
(* A step that changes addresses only.                                     *)
(***************************************************************************)

AliasStep(a) ==
    \/ alias'[a] = alias[a]
    \/ /\ alias'[a] # None
       /\ alias[a] = None => alias'[a].permission.lanes = {}
       /\ alias[a] # None =>
            \/ alias'[a].permission = alias[a].permission
            \/ /\ alias'[a].permission.revision > alias[a].permission.revision
               /\ \A p \in alias'[a].permission.lanes : p.lane.admitted = {} /\ p.lane.count = 0

LEMMA AliasFields ==
    ASSUME NEW r \in Alias
    PROVE  /\ r.life \in {"Active", "Restricted", "Replaced", "Retired"}
           /\ r.created \in Nat /\ r.changed \in Nat /\ r.revision \in Nat /\ r.at \in Nat
           /\ r.until \in Nat /\ r.replacement \in AliasIds \cup {None}
           /\ r.existing \in SUBSET Entry /\ r.approvals \in SUBSET Entry
           /\ r.permission \in ReceivingPermission
BY DEF Alias

LEMMA PermissionFields ==
    ASSUME NEW p \in ReceivingPermission
    PROVE  /\ p.state \in {"None", "Broad", "Restricted", "Senders"}
           /\ p.revision \in Nat /\ p.changed \in Nat /\ p.granted \in Nat
           /\ p.conversations \in SUBSET Entry
           /\ \A q \in p.lanes : q.sender \in Members /\ q.lane \in SenderScopedLane(Message)
BY DEF ReceivingPermission

LEMMA AliasesStep ==
    ASSUME IInv, TypeOK', Addresses', UNCHANGED <<now, contact, content, withdrawn>>,
           \A a \in AliasIds : AliasStep(a)
    PROVE  IInv'
<1>0. /\ now' = now /\ rel' = rel /\ lane' = lane /\ due' = due /\ scope' = scope
      /\ request' = request /\ began' = began /\ conv' = conv /\ msg' = msg /\ withdrawn' = withdrawn
  BY DEF contact, content
<1>1. Sent' = Sent
  BY <1>0 DEF Sent
<1>2. \A a \in AliasIds : alias[a] # None =>
        /\ alias'[a] # None
        /\ alias'[a].permission.revision >= alias[a].permission.revision
  <2> SUFFICES ASSUME NEW a \in AliasIds, alias[a] # None
               PROVE  /\ alias'[a] # None
                      /\ alias'[a].permission.revision >= alias[a].permission.revision
    OBVIOUS
  <2>1. alias[a].permission.revision \in Nat
    <3>1. alias[a] \in Alias
      BY DEF IInv, TypeOK, AliasType
    <3> QED
      BY <3>1, AliasFields, PermissionFields
  <2>2. alias'[a] # None
    BY DEF AliasStep
  <2>3. alias'[a].permission.revision \in Nat
    <3>1. alias'[a] \in Alias
      BY <2>2 DEF TypeOK, AliasType
    <3> QED
      BY <3>1, AliasFields, PermissionFields
  <2> QED
    BY <2>1, <2>2, <2>3 DEF AliasStep
<1>3. LanesFit'
  BY <1>0 DEF IInv, LanesFit
<1>4. Allowances'
  <2>1. \A d \in Directions : OnPair(d)' = OnPair(d)
    BY <1>0 DEF OnPair, PairLane, Sent
  <2>2. \A d \in Directions : lane'[d] # None => Windowed(lane'[d], OnPair(d)', msg')
    BY <1>0, <2>1 DEF IInv, Allowances
  <2>3. ASSUME NEW a \in AliasIds, alias'[a] # None, NEW p \in alias'[a].permission.lanes
        PROVE  Windowed(p.lane, OnAlias(a, p.sender)', msg')
    <3>0. alias'[a] \in Alias
      BY <2>3 DEF TypeOK, AliasType
    <3>1. CASE /\ alias[a] # None /\ alias'[a].permission = alias[a].permission
      <4>1. OnAlias(a, p.sender)' = OnAlias(a, p.sender)
        BY <1>0, <3>1 DEF OnAlias, AliasLane, Sent
      <4> QED
        BY <1>0, <3>1, <4>1 DEF IInv, Allowances
    <3>2. CASE /\ alias[a] # None /\ alias'[a].permission.revision > alias[a].permission.revision
               /\ p.lane.admitted = {} /\ p.lane.count = 0
      <4>1. OnAlias(a, p.sender)' = {}
        <5> SUFFICES ASSUME NEW m \in Sent,
                            msg[m].on = [of |-> a, version |-> alias'[a].permission.revision]
                     PROVE  FALSE
          BY <1>0 DEF OnAlias, AliasLane, Sent
        <5>1. alias'[a].permission.revision \in Nat /\ alias[a].permission.revision \in Nat
          <6>1. alias[a] \in Alias
            BY <3>2 DEF IInv, TypeOK, AliasType
          <6> QED
            BY <3>0, <6>1, AliasFields, PermissionFields
        <5>2. msg[m].on # None
          <6>1. [of |-> a, version |-> alias'[a].permission.revision] \in LaneUsed
            BY <5>1 DEF LaneUsed
          <6> QED
            BY <6>1, NoneIsAbsence
        <5>3. msg[m].on.of = a /\ msg[m].on.version = alias'[a].permission.revision
          OBVIOUS
        <5>4. msg[m].on.version <= alias[a].permission.revision
          BY <5>2, <5>3 DEF IInv, Allowances
        <5> QED
          BY <3>2, <5>1, <5>3, <5>4
      <4>2. p.lane.grant.limit \in Nat
        <5>1. p.lane \in SenderScopedLane(Message)
          BY <3>0, AliasFields, PermissionFields
        <5> QED
          BY <5>1, LaneFields
      <4>3. Windowed(p.lane, {}, msg')
        BY <3>2, <4>2, WindowNew
      <4> QED
        BY <4>1, <4>3
    <3>3. CASE alias[a] = None
      BY <2>3, <3>3 DEF AliasStep
    <3>4. alias[a] # None => \/ alias'[a].permission = alias[a].permission
                             \/ /\ alias'[a].permission.revision > alias[a].permission.revision
                                /\ p.lane.admitted = {} /\ p.lane.count = 0
      BY DEF AliasStep
    <3> QED
      BY <3>1, <3>2, <3>3, <3>4
  <2>4. ASSUME NEW m \in Sent, msg[m].on # None
        PROVE  /\ msg[m].on.of \in Directions =>
                     lane[msg[m].on.of] # None /\ msg[m].on.version <= lane[msg[m].on.of].grant.version
               /\ msg[m].on.of \in AliasIds =>
                     /\ alias'[msg[m].on.of] # None
                     /\ msg[m].on.version <= alias'[msg[m].on.of].permission.revision
    <3>1. msg[m].on.of \in Directions =>
              lane[msg[m].on.of] # None /\ msg[m].on.version <= lane[msg[m].on.of].grant.version
      BY <2>4 DEF IInv, Allowances
    <3>2. ASSUME msg[m].on.of \in AliasIds
          PROVE  /\ alias'[msg[m].on.of] # None
                 /\ msg[m].on.version <= alias'[msg[m].on.of].permission.revision
      <4> DEFINE a == msg[m].on.of
      <4>1. alias[a] # None /\ msg[m].on.version <= alias[a].permission.revision
        BY <2>4, <3>2 DEF IInv, Allowances
      <4>2. alias'[a] # None /\ alias'[a].permission.revision >= alias[a].permission.revision
        BY <1>2, <3>2, <4>1
      <4>3. msg[m].on.version \in Nat
        <5>1. msg[m] \in Delivery
          BY MessageFacts DEF IInv, TypeOK
        <5> QED
          BY <2>4, <5>1, DeliveryFields
      <4>4. alias[a].permission.revision \in Nat /\ alias'[a].permission.revision \in Nat
        <5>1. alias[a] \in Alias /\ alias'[a] \in Alias
          BY <3>2, <4>1, <4>2 DEF IInv, TypeOK, AliasType
        <5> QED
          BY <5>1, AliasFields, PermissionFields
      <4> QED
        BY <4>1, <4>2, <4>3, <4>4
    <3> QED
      BY <3>1, <3>2
  <2> QED
    BY <1>0, <1>1, <2>2, <2>3, <2>4 DEF Allowances
<1>5. Deliveries'
  <2>1. Deliveries
    BY DEF IInv
  <2>2. ASSUME NEW d \in Directions, request[d] # None PROVE alias'[request[d]] # None
    <3>1. request[d] \in AliasIds
      BY <2>2 DEF IInv, TypeOK, RelType
    <3> QED
      BY <1>2, <2>1, <2>2, <3>1 DEF Deliveries
  <2>3. ASSUME NEW m \in Sent, msg[m].alias # None PROVE alias'[msg[m].alias] # None
    <3>1. msg[m].alias \in AliasIds
      BY <2>3, MessageFacts, DeliveryFields DEF IInv, TypeOK
    <3> QED
      BY <1>2, <2>1, <2>3, <3>1 DEF Deliveries
  <2> QED
    BY <1>0, <1>1, <2>1, <2>2, <2>3 DEF Deliveries
<1>6. Receipts'
  <2>1. Receipts
    BY DEF IInv
  <2> QED
    BY <1>0, <1>1, <2>1 DEF Receipts
<1>7. Contents'
  <2>1. Contents
    BY DEF IInv
  <2> QED
    BY <1>0, <1>1, <2>1 DEF Contents, RestrictedContentStays, Sources, Reached, Quotable
<1> QED
  BY <1>3, <1>4, <1>5, <1>6, <1>7 DEF IInv

-----------------------------------------------------------------------------
(***************************************************************************)
(* The lane a message is sent on: none, the pair's, or the one in the      *)
(* address's record.                                                       *)
(***************************************************************************)

LanesHold == LaneType /\ AliasType /\ LanesFit /\ Allowances /\ Addresses
AliasesKept == \A a \in AliasIds : alias[a] # None => alias'[a] # None

\* The messages sent on a lane are sent already, and not later than now.
LEMMA UsedBefore ==
    ASSUME IInv, NEW on \in SUBSET Sent
    PROVE  /\ IsFiniteSet(on) /\ now \in Nat
           /\ \A m \in on : msg[m].at \in Nat /\ msg[m].at <= now
<1>1. IsFiniteSet(Sent) /\ \A m \in Sent : msg[m] \in Delivery
  BY MessageFacts DEF IInv, TypeOK
<1>2. now \in Nat
  BY CorrespondenceAssumption DEF IInv, TypeOK, CountsType
<1>3. IsFiniteSet(on)
  BY <1>1, FS_Subset
<1>4. \A m \in on : msg[m].at \in Nat
  BY <1>1, DeliveryFields
<1>5. \A m \in on : msg[m].at <= now
  BY DEF IInv, Deliveries
<1> QED
  BY <1>2, <1>3, <1>4, <1>5

LEMMA ExistingKept ==
    ASSUME IInv, NEW x \in Delivery, CanSend, msg' = Append(msg, x),
           NEW a \in AliasIds, alias[a] # None, NEW e \in alias[a].existing
    PROVE  \E n \in Sent' : /\ msg'[n].alias = a /\ msg'[n].author = e.sender
                            /\ msg'[n].conversation = e.conversation
<1>1. Sent' = Sent \cup {Fresh} /\ \A m \in Sent : msg'[m] = msg[m]
  BY MessageAppended DEF IInv, TypeOK
<1>2. PICK n \in Sent : /\ msg[n].alias = a /\ msg[n].author = e.sender
                        /\ msg[n].conversation = e.conversation
  BY DEF IInv, Addresses
<1> QED
  BY <1>1, <1>2

LEMMA AddressesFrame ==
    ASSUME IInv, NEW x \in Delivery, CanSend, msg' = Append(msg, x), UNCHANGED alias
    PROVE  Addresses' /\ AliasesKept
<1>1. ASSUME NEW a \in AliasIds, alias[a] # None
      PROVE  /\ AliasLoads(a, alias[a]) /\ IsFiniteSet(alias[a].approvals)
             /\ alias[a].life = "Active" => alias[a].approvals = {}
             /\ alias[a].permission.state # "Senders" => alias[a].permission.lanes = {}
             /\ \A e \in alias[a].existing :
                   \E n \in Sent' : /\ msg'[n].alias = a /\ msg'[n].author = e.sender
                                    /\ msg'[n].conversation = e.conversation
  BY <1>1, ExistingKept DEF IInv, Addresses
<1> QED
  BY <1>1 DEF Addresses, AliasesKept

\* A message that is not sent on the lane.
LEMMA OtherPair ==
    ASSUME IInv, NEW x \in Delivery, CanSend, msg' = Append(msg, x),
           NEW d \in Directions, lane[d] # None, lane'[d] = lane[d], x.on # PairLane(d)
    PROVE  Windowed(lane[d], OnPair(d)', msg')
<1>1. Sent' = Sent \cup {Fresh} /\ msg'[Fresh] = x /\ \A m \in Sent : msg'[m] = msg[m]
  BY MessageAppended DEF IInv, TypeOK
<1>2. OnPair(d)' = OnPair(d)
  BY <1>1 DEF OnPair, PairLane
<1>3. Windowed(lane[d], OnPair(d), msg)
  BY DEF IInv, Allowances
<1>4. \A m \in OnPair(d) : msg'[m] = msg[m]
  BY <1>1 DEF OnPair
<1>5. Windowed(lane[d], OnPair(d), msg')
  BY <1>3, <1>4, WindowFrame
<1> QED
  BY <1>2, <1>5

LEMMA OtherAlias ==
    ASSUME IInv, NEW x \in Delivery, CanSend, msg' = Append(msg, x),
           NEW a \in AliasIds, alias[a] # None, NEW p \in alias[a].permission.lanes,
           alias'[a].permission.revision = alias[a].permission.revision,
           x.on # AliasLane(a) \/ x.author # p.sender
    PROVE  Windowed(p.lane, OnAlias(a, p.sender)', msg')
<1>1. Sent' = Sent \cup {Fresh} /\ msg'[Fresh] = x /\ \A m \in Sent : msg'[m] = msg[m]
  BY MessageAppended DEF IInv, TypeOK
<1>2. OnAlias(a, p.sender)' = OnAlias(a, p.sender)
  BY <1>1 DEF OnAlias, AliasLane
<1>3. Windowed(p.lane, OnAlias(a, p.sender), msg)
  BY DEF IInv, Allowances
<1>4. \A m \in OnAlias(a, p.sender) : msg'[m] = msg[m]
  BY <1>1 DEF OnAlias
<1>5. Windowed(p.lane, OnAlias(a, p.sender), msg')
  BY <1>3, <1>4, WindowFrame
<1> QED
  BY <1>2, <1>5

\* No message is on a lane of a version its grant has not had.
LEMMA VersionsFrame ==
    ASSUME IInv, NEW x \in Delivery, CanSend, msg' = Append(msg, x),
           \A d \in Directions : lane[d] # None =>
               lane'[d] # None /\ lane'[d].grant.version = lane[d].grant.version,
           \A a \in AliasIds : alias[a] # None =>
               alias'[a] # None /\ alias'[a].permission.revision = alias[a].permission.revision,
           \/ x.on = None
           \/ \E d \in Directions : lane[d] # None /\ x.on = PairLane(d)
           \/ \E a \in AliasIds : alias[a] # None /\ x.on = AliasLane(a)
    PROVE  \A m \in Sent' : msg'[m].on # None =>
              /\ msg'[m].on.of \in Directions =>
                    /\ lane'[msg'[m].on.of] # None
                    /\ msg'[m].on.version <= lane'[msg'[m].on.of].grant.version
              /\ msg'[m].on.of \in AliasIds =>
                    /\ alias'[msg'[m].on.of] # None
                    /\ msg'[m].on.version <= alias'[msg'[m].on.of].permission.revision
<1>1. Sent' = Sent \cup {Fresh} /\ msg'[Fresh] = x /\ \A m \in Sent : msg'[m] = msg[m]
  BY MessageAppended DEF IInv, TypeOK
<1>2. ASSUME NEW m \in Sent, msg[m].on # None
      PROVE  /\ msg[m].on.of \in Directions =>
                   /\ lane'[msg[m].on.of] # None
                   /\ msg[m].on.version <= lane'[msg[m].on.of].grant.version
             /\ msg[m].on.of \in AliasIds =>
                   /\ alias'[msg[m].on.of] # None
                   /\ msg[m].on.version <= alias'[msg[m].on.of].permission.revision
  BY <1>2 DEF IInv, Allowances
<1>3. ASSUME x.on # None
      PROVE  /\ x.on.of \in Directions =>
                   lane'[x.on.of] # None /\ x.on.version <= lane'[x.on.of].grant.version
             /\ x.on.of \in AliasIds =>
                   /\ alias'[x.on.of] # None
                   /\ x.on.version <= alias'[x.on.of].permission.revision
  <2>1. ASSUME NEW d \in Directions, lane[d] # None, x.on = PairLane(d)
        PROVE  /\ x.on.of = d /\ x.on.of \notin AliasIds
               /\ lane'[d] # None /\ x.on.version <= lane'[d].grant.version
    <3>1. x.on.of = d /\ x.on.version = lane[d].grant.version
      BY <2>1 DEF PairLane
    <3>2. lane[d].grant.version \in Nat
      BY <2>1, PairFields DEF IInv
    <3>3. lane'[d] # None /\ lane'[d].grant.version = lane[d].grant.version
      BY <2>1
    <3> QED
      BY <3>1, <3>2, <3>3, CorrespondenceAssumption
  <2>2. ASSUME NEW a \in AliasIds, alias[a] # None, x.on = AliasLane(a)
        PROVE  /\ x.on.of = a /\ x.on.of \notin Directions
               /\ alias'[a] # None /\ x.on.version <= alias'[a].permission.revision
    <3>1. x.on.of = a /\ x.on.version = alias[a].permission.revision
      BY <2>2 DEF AliasLane
    <3>2. alias[a].permission.revision \in Nat
      <4>1. alias[a] \in Alias
        BY <2>2 DEF IInv, TypeOK, AliasType
      <4> QED
        BY <4>1, AliasFields, PermissionFields
    <3>3. alias'[a] # None /\ alias'[a].permission.revision = alias[a].permission.revision
      BY <2>2
    <3> QED
      BY <3>1, <3>2, <3>3, CorrespondenceAssumption
  <2> QED
    BY <1>3, <2>1, <2>2
<1> SUFFICES ASSUME NEW m \in Sent', msg'[m].on # None
             PROVE  /\ msg'[m].on.of \in Directions =>
                          /\ lane'[msg'[m].on.of] # None
                          /\ msg'[m].on.version <= lane'[msg'[m].on.of].grant.version
                    /\ msg'[m].on.of \in AliasIds =>
                          /\ alias'[msg'[m].on.of] # None
                          /\ msg'[m].on.version <= alias'[msg'[m].on.of].permission.revision
  OBVIOUS
<1>4. CASE m \in Sent
  <2>1. msg'[m] = msg[m]
    BY <1>1, <1>4
  <2>2. msg[m].on # None
    BY <2>1
  <2> QED
    BY <1>2, <1>4, <2>1, <2>2
<1>5. CASE m = Fresh
  <2>1. msg'[m] = x
    BY <1>1, <1>5
  <2>2. x.on # None
    BY <2>1
  <2> QED
    BY <1>3, <2>1, <2>2
<1> QED
  BY <1>1, <1>4, <1>5

LEMMA SentOnNone ==
    ASSUME IInv, NEW x \in Delivery, CanSend, msg' = Append(msg, x),
           x.on = None, UNCHANGED <<lane, due, alias, claims>>
    PROVE  LanesHold' /\ AliasesKept
<1>1. Addresses' /\ AliasesKept
  BY AddressesFrame
<1>2. LaneType' /\ AliasType' /\ LanesFit'
  <2>1. LaneType /\ AliasType /\ LanesFit
    BY DEF IInv, TypeOK
  <2> QED
    BY <2>1 DEF LaneType, AliasType, LanesFit
<1>3. \A d \in Directions : lane'[d] # None => Windowed(lane'[d], OnPair(d)', msg')
  <2> SUFFICES ASSUME NEW d \in Directions, lane[d] # None
               PROVE  Windowed(lane[d], OnPair(d)', msg')
    OBVIOUS
  <2>1. x.on # PairLane(d)
    <3>1. PairLane(d) \in LaneUsed
      BY PairFields DEF IInv, PairLane, LaneUsed
    <3> QED
      BY <3>1, NoneIsAbsence
  <2> QED
    BY <2>1, OtherPair
<1>4. ASSUME NEW a \in AliasIds, alias'[a] # None, NEW p \in alias'[a].permission.lanes
      PROVE  Windowed(p.lane, OnAlias(a, p.sender)', msg')
  <2>1. alias[a] # None /\ p \in alias[a].permission.lanes
    BY <1>4
  <2>2. x.on # AliasLane(a)
    <3>1. alias[a] \in Alias
      BY <2>1 DEF IInv, TypeOK, AliasType
    <3>2. AliasLane(a) \in LaneUsed
      BY <3>1, AliasFields, PermissionFields DEF AliasLane, LaneUsed
    <3> QED
      BY <3>2, NoneIsAbsence
  <2> QED
    BY <2>1, <2>2, OtherAlias
<1>5. \A m \in Sent' : msg'[m].on # None =>
         /\ msg'[m].on.of \in Directions =>
               /\ lane'[msg'[m].on.of] # None
               /\ msg'[m].on.version <= lane'[msg'[m].on.of].grant.version
         /\ msg'[m].on.of \in AliasIds =>
               /\ alias'[msg'[m].on.of] # None
               /\ msg'[m].on.version <= alias'[msg'[m].on.of].permission.revision
  BY VersionsFrame
<1>6. Allowances'
  BY <1>3, <1>4, <1>5 DEF Allowances
<1> QED
  BY <1>1, <1>2, <1>6 DEF LanesHold

LEMMA SentOnPair ==
    ASSUME IInv, NEW x \in Delivery, CanSend, msg' = Append(msg, x), x.at = now,
           NEW d \in Directions, lane[d] # None, CanConsume(lane[d], Fresh, now),
           x.on = PairLane(d), LaneWritten(d, Consume(lane[d], Fresh, now)), UNCHANGED claims
    PROVE  LanesHold' /\ AliasesKept
<1> DEFINE c == Consume(lane[d], Fresh, now)
<1>0. lane' = [lane EXCEPT ![d] = c] /\ due' = [due EXCEPT ![d] = c.horizon] /\ alias' = alias
  BY DEF LaneWritten, ScheduleChange
<1>1. Addresses' /\ AliasesKept
  BY <1>0, AddressesFrame
<1>2. /\ Sent' = Sent \cup {Fresh} /\ msg'[Fresh] = x /\ \A m \in Sent : msg'[m] = msg[m]
      /\ Fresh \in Message
  BY MessageAppended DEF IInv, TypeOK
<1>3. /\ lane[d] \in SenderScopedLane(Message) /\ LaneLoads(lane[d])
      /\ lane[d].grant.version \in Nat /\ Windowed(lane[d], OnPair(d), msg)
  BY PairFields DEF IInv, LanesFit, Allowances
<1>4. /\ IsFiniteSet(OnPair(d)) /\ now \in Nat
      /\ \A m \in OnPair(d) : msg[m].at \in Nat /\ msg[m].at <= now
  <2>1. OnPair(d) \in SUBSET Sent
    BY DEF OnPair
  <2> QED
    BY <2>1, UsedBefore
<1>5. IsFiniteSet(lane[d].admitted)
  BY <1>3, <1>4 DEF Windowed
<1>6. c \in SenderScopedLane(Message) /\ LaneLoads(c) /\ c.grant = lane[d].grant
  BY <1>2, <1>3, <1>4, <1>5, ConsumeLoads
<1>7. c # None
  BY <1>6, NoneIsAbsence
<1>8. Windowed(c, OnPair(d) \cup {Fresh}, msg')
  <2>1. \A m \in OnPair(d) : msg'[m] = msg[m] /\ msg[m].at \in Nat /\ msg[m].at <= now
    BY <1>2, <1>4 DEF OnPair
  <2>2. msg'[Fresh].at = now
    BY <1>2
  <2> HIDE DEF c
  <2>3. Windowed(Consume(lane[d], Fresh, now), OnPair(d) \cup {Fresh}, msg')
    BY <1>2, <1>3, <1>4, <2>1, <2>2, WindowConsume
  <2> QED
    BY <2>3 DEF c
<1> HIDE DEF c
<1>9. /\ lane'[d] = c /\ due'[d] = c.horizon
      /\ \A e \in Directions \ {d} : lane'[e] = lane[e] /\ due'[e] = due[e]
  <2>1. /\ lane \in [Directions -> SenderScopedLane(Message) \cup {None}]
        /\ due \in [Directions -> Nat \cup {None}]
    BY DEF IInv, TypeOK, LaneType
  <2>2. lane' = [lane EXCEPT ![d] = c]
    BY <1>0
  <2>3. due' = [due EXCEPT ![d] = c.horizon]
    BY <1>0
  <2>4. lane'[d] = c /\ \A e \in Directions \ {d} : lane'[e] = lane[e]
    BY <2>1, <2>2
  <2>5. due'[d] = c.horizon /\ \A e \in Directions \ {d} : due'[e] = due[e]
    BY <2>1, <2>3
  <2> QED
    BY <2>4, <2>5
<1>10. OnPair(d)' = OnPair(d) \cup {Fresh}
  <2>1. PairLane(d)' = PairLane(d)
    BY <1>6, <1>9 DEF PairLane
  <2> QED
    BY <1>2, <2>1 DEF OnPair
<1>11. LaneType' /\ AliasType' /\ LanesFit'
  <2>1. LaneType /\ AliasType /\ LanesFit
    BY DEF IInv, TypeOK
  <2>2. c.horizon \in Nat
    BY <1>6, LaneFields
  <2>3. LaneType'
    BY <1>0, <1>6, <2>1, <2>2 DEF LaneType
  <2>4. LanesFit'
    BY <1>6, <1>9, <2>1 DEF LanesFit
  <2> QED
    BY <1>0, <2>1, <2>3, <2>4 DEF AliasType
<1>12. ASSUME NEW e \in Directions, lane'[e] # None
       PROVE  Windowed(lane'[e], OnPair(e)', msg')
  <2>1. CASE e = d
    BY <1>8, <1>9, <1>10, <2>1
  <2>2. CASE e # d
    <3>1. lane'[e] = lane[e] /\ lane[e] # None
      BY <1>9, <1>12, <2>2
    <3>2. x.on # PairLane(e)
      BY <2>2 DEF PairLane
    <3>3. Windowed(lane[e], OnPair(e)', msg')
      BY <3>1, <3>2, OtherPair
    <3> QED
      BY <3>1, <3>3
  <2> QED
    BY <2>1, <2>2
<1>13. ASSUME NEW a \in AliasIds, alias'[a] # None, NEW p \in alias'[a].permission.lanes
       PROVE  Windowed(p.lane, OnAlias(a, p.sender)', msg')
  <2>1. /\ alias[a] # None /\ p \in alias[a].permission.lanes
        /\ alias'[a].permission.revision = alias[a].permission.revision
    BY <1>0, <1>13
  <2>2. x.on # AliasLane(a)
    BY CorrespondenceAssumption DEF PairLane, AliasLane
  <2> QED
    BY <2>1, <2>2, OtherAlias
<1>14. \A m \in Sent' : msg'[m].on # None =>
          /\ msg'[m].on.of \in Directions =>
                /\ lane'[msg'[m].on.of] # None
                /\ msg'[m].on.version <= lane'[msg'[m].on.of].grant.version
          /\ msg'[m].on.of \in AliasIds =>
                /\ alias'[msg'[m].on.of] # None
                /\ msg'[m].on.version <= alias'[msg'[m].on.of].permission.revision
  <2>1. \A e \in Directions : lane[e] # None =>
           lane'[e] # None /\ lane'[e].grant.version = lane[e].grant.version
    BY <1>6, <1>7, <1>9
  <2>2. \A a \in AliasIds : alias[a] # None =>
           alias'[a] # None /\ alias'[a].permission.revision = alias[a].permission.revision
    BY <1>0
  <2>3. \E e \in Directions : lane[e] # None /\ x.on = PairLane(e)
    OBVIOUS
  <2> QED
    BY <2>1, <2>2, <2>3, VersionsFrame
<1>15. Allowances'
  BY <1>12, <1>13, <1>14 DEF Allowances
<1> QED
  BY <1>1, <1>11, <1>15 DEF LanesHold

LEMMA PairedIs ==
    ASSUME IInv, NEW a \in AliasIds, alias[a] # None, NEW s, NEW l \in PairedLanes(a, s)
    PROVE  /\ alias[a].permission.state = "Senders"
           /\ \E p \in alias[a].permission.lanes : p.sender = s /\ p.lane = l
           /\ \A p, q \in alias[a].permission.lanes : p.sender = q.sender => p = q
           /\ \A p \in alias[a].permission.lanes : LaneLoads(p.lane)
           /\ l \in SenderScopedLane(Message) /\ LaneLoads(l)
           /\ Windowed(l, OnAlias(a, s), msg)
<1>1. PICK p \in alias[a].permission.lanes :
          /\ alias[a].permission.state = "Senders" /\ p.sender = s /\ l = p.lane
  BY DEF PairedLanes
<1>2. alias[a] \in Alias /\ AliasLoads(a, alias[a])
  BY DEF IInv, TypeOK, AliasType, Addresses
<1>3. l \in SenderScopedLane(Message)
  BY <1>1, <1>2, AliasFields, PermissionFields
<1>4. /\ \A q, t \in alias[a].permission.lanes : q.sender = t.sender => q = t
      /\ \A q \in alias[a].permission.lanes : LaneLoads(q.lane)
  BY <1>1, <1>2 DEF AliasLoads, PermissionLoads
<1>5. Windowed(p.lane, OnAlias(a, p.sender), msg)
  BY DEF IInv, Allowances
<1> QED
  BY <1>1, <1>3, <1>4, <1>5

\* The address's record with the lane of a sender in it changed.
Written(r, s, c) == [r EXCEPT !.permission = ConsumePaired(@, s, c)]

LEMMA ConsumedAddress ==
    ASSUME NEW a \in AliasIds, NEW r \in Alias, AliasLoads(a, r), r.permission.state = "Senders",
           NEW s, NEW p \in r.permission.lanes, p.sender = s,
           \A q, t \in r.permission.lanes : q.sender = t.sender => q = t,
           NEW c \in SenderScopedLane(Message), LaneLoads(c), c.grant = p.lane.grant
    PROVE  LET r2 == Written(r, s, c) IN
           /\ r2 \in Alias /\ AliasLoads(a, r2)
           /\ r2.life = r.life /\ r2.existing = r.existing /\ r2.approvals = r.approvals
           /\ r2.permission.revision = r.permission.revision
           /\ r2.permission.state = "Senders"
           /\ \A q \in r2.permission.lanes :
                 \/ q.sender = s /\ q.lane = c
                 \/ q \in r.permission.lanes /\ q.sender # s
<1> DEFINE r2 == Written(r, s, c)
           o == r.permission
           n == ConsumePaired(o, s, c)
           written(q) == IF q.sender = s THEN [q EXCEPT !.lane = c] ELSE q
<1>1. /\ o \in ReceivingPermission
      /\ \A q \in o.lanes : q \in [sender : Members, lane : SenderScopedLane(Message)]
  BY AliasFields DEF ReceivingPermission
<1>2. n.lanes = {written(q) : q \in o.lanes}
  BY <1>1 DEF ConsumePaired, ReceivingPermission
<1>3. /\ n.state = "Senders" /\ n.revision = o.revision /\ n.changed = o.changed
      /\ n.granted = o.granted /\ n.conversations = o.conversations
  BY <1>1 DEF ConsumePaired, ReceivingPermission
<1>4. \A q \in o.lanes : /\ written(q) \in [sender : Members, lane : SenderScopedLane(Message)]
                         /\ written(q).sender = q.sender
                         /\ q.sender = s => written(q).lane = c
                         /\ q.sender # s => written(q) = q
  BY <1>1
<1> HIDE DEF written
<1>5. n.lanes \subseteq [sender : Members, lane : SenderScopedLane(Message)]
  BY <1>2, <1>4
<1>6. n \in ReceivingPermission
  <2>1. n = [o EXCEPT !.lanes = n.lanes]
    BY <1>1, <1>2 DEF ConsumePaired, ReceivingPermission
  <2> HIDE DEF n, o
  <2> QED
    BY <1>1, <1>5, <2>1 DEF ReceivingPermission
<1>7. \A q \in n.lanes : \/ q.sender = s /\ q.lane = c
                         \/ q \in o.lanes /\ q.sender # s
  BY <1>2, <1>4
<1>8. /\ r2 \in [life : {"Active", "Restricted", "Replaced", "Retired"}, created : Nat, changed : Nat,
                 revision : Nat, at : Nat, until : Nat, replacement : AliasIds \cup {None},
                 existing : SUBSET Entry, approvals : SUBSET Entry, permission : ReceivingPermission]
      /\ r2.permission = n /\ r2.life = r.life /\ r2.created = r.created /\ r2.changed = r.changed
      /\ r2.revision = r.revision /\ r2.at = r.at /\ r2.until = r.until
      /\ r2.replacement = r.replacement /\ r2.existing = r.existing /\ r2.approvals = r.approvals
  <2>1. r2 = [r EXCEPT !.permission = n]
    BY DEF Alias, Written
  <2> HIDE DEF n, o, r2
  <2> QED
    BY <1>6, <2>1 DEF Alias
<1>9. PermissionLoads(OwnerOf[a], n)
  <2>1. PermissionLoads(OwnerOf[a], o)
    BY DEF AliasLoads
  <2>2. n.lanes # {}
    BY <1>2
  <2>3. \A q \in n.lanes : LaneLoads(q.lane) /\ q.lane.grant.issued <= n.changed
    <3>1. \A q \in o.lanes : LaneLoads(q.lane) /\ q.lane.grant.issued <= o.changed
      BY <2>1 DEF PermissionLoads
    <3> QED
      BY <1>3, <1>7, <3>1
  <2>4. \A q, t \in n.lanes : q.sender = t.sender => q = t
    <3> SUFFICES ASSUME NEW q \in o.lanes, NEW t \in o.lanes, written(q).sender = written(t).sender
                 PROVE  written(q) = written(t)
      BY <1>2
    <3>1. q.sender = t.sender
      BY <1>4
    <3>2. q = t
      BY <3>1
    <3> QED
      BY <3>2
  <2>5. o.revision # 0
    BY <2>1 DEF PermissionLoads
  <2> HIDE DEF n, o
  <2> QED
    BY <1>3, <2>2, <2>3, <2>4, <2>5 DEF PermissionLoads
<1> HIDE DEF n, r2
<1>10. AliasLoads(a, r2)
  BY <1>3, <1>8, <1>9 DEF AliasLoads
<1>11. r2 \in Alias
  BY <1>8 DEF Alias
<1> QED
  BY <1>3, <1>7, <1>8, <1>10, <1>11 DEF r2

LEMMA SentOnAlias ==
    ASSUME IInv, NEW x \in Delivery, CanSend, msg' = Append(msg, x), x.at = now,
           NEW a \in AliasIds, alias[a] # None, NEW s, NEW l \in PairedLanes(a, s),
           CanConsume(l, Fresh, now), x.on = AliasLane(a), x.author = s,
           PairedWritten(a, s, Consume(l, Fresh, now)), UNCHANGED claims
    PROVE  LanesHold' /\ AliasesKept
<1> DEFINE c == Consume(l, Fresh, now)
<1>0. /\ alias' = [alias EXCEPT ![a].permission = ConsumePaired(@, s, c)]
      /\ lane' = lane /\ due' = due
  BY DEF PairedWritten
<1>1. /\ Sent' = Sent \cup {Fresh} /\ msg'[Fresh] = x /\ \A m \in Sent : msg'[m] = msg[m]
      /\ Fresh \in Message
  BY MessageAppended DEF IInv, TypeOK
<1>2. /\ alias[a].permission.state = "Senders"
      /\ \E p \in alias[a].permission.lanes : p.sender = s /\ p.lane = l
      /\ \A p, q \in alias[a].permission.lanes : p.sender = q.sender => p = q
      /\ \A p \in alias[a].permission.lanes : LaneLoads(p.lane)
      /\ l \in SenderScopedLane(Message) /\ LaneLoads(l)
      /\ Windowed(l, OnAlias(a, s), msg)
  BY PairedIs
<1>3. PICK p \in alias[a].permission.lanes : p.sender = s /\ p.lane = l
  BY <1>2
<1>4. /\ IsFiniteSet(OnAlias(a, s)) /\ now \in Nat
      /\ \A m \in OnAlias(a, s) : msg[m].at \in Nat /\ msg[m].at <= now
  <2>1. OnAlias(a, s) \in SUBSET Sent
    BY DEF OnAlias
  <2> QED
    BY <2>1, UsedBefore
<1>5. IsFiniteSet(l.admitted)
  BY <1>2, <1>4 DEF Windowed
<1>6. c \in SenderScopedLane(Message) /\ LaneLoads(c) /\ c.grant = l.grant
  BY <1>1, <1>2, <1>4, <1>5, ConsumeLoads
<1>7. Windowed(c, OnAlias(a, s) \cup {Fresh}, msg')
  <2>1. \A m \in OnAlias(a, s) : msg'[m] = msg[m] /\ msg[m].at \in Nat /\ msg[m].at <= now
    BY <1>1, <1>4 DEF OnAlias
  <2>2. msg'[Fresh].at = now
    BY <1>1
  <2> HIDE DEF c
  <2>3. Windowed(Consume(l, Fresh, now), OnAlias(a, s) \cup {Fresh}, msg')
    BY <1>1, <1>2, <1>4, <2>1, <2>2, WindowConsume
  <2> QED
    BY <2>3 DEF c
<1> HIDE DEF c
<1>8. /\ alias[a] \in Alias /\ AliasLoads(a, alias[a]) /\ alias \in [AliasIds -> Alias \cup {None}]
      /\ IsFiniteSet(alias[a].approvals)
  BY DEF IInv, TypeOK, AliasType, Addresses
<1> DEFINE r2 == Written(alias[a], s, c)
<1>9. alias' = [alias EXCEPT ![a] = r2]
  BY <1>0, <1>8 DEF Written
<1>10. /\ r2 \in Alias /\ AliasLoads(a, r2)
       /\ r2.life = alias[a].life /\ r2.existing = alias[a].existing
       /\ r2.approvals = alias[a].approvals
       /\ r2.permission.revision = alias[a].permission.revision
       /\ r2.permission.state = "Senders"
       /\ \A q \in r2.permission.lanes :
             \/ q.sender = s /\ q.lane = c
             \/ q \in alias[a].permission.lanes /\ q.sender # s
  <2>1. c.grant = p.lane.grant
    BY <1>3, <1>6
  <2>2. p.sender = s /\ p \in alias[a].permission.lanes
    BY <1>3
  <2> DEFINE r == alias[a]
  <2>3. /\ r \in Alias /\ AliasLoads(a, r) /\ r.permission.state = "Senders"
        /\ \A q, t \in r.permission.lanes : q.sender = t.sender => q = t
        /\ p \in r.permission.lanes
    BY <1>2, <1>8, <2>2
  <2>4. c \in SenderScopedLane(Message) /\ LaneLoads(c)
    BY <1>6
  <2> HIDE DEF r
  <2>5. LET w == Written(r, s, c) IN
        /\ w \in Alias /\ AliasLoads(a, w)
        /\ w.life = r.life /\ w.existing = r.existing /\ w.approvals = r.approvals
        /\ w.permission.revision = r.permission.revision
        /\ w.permission.state = "Senders"
        /\ \A q \in w.permission.lanes :
              \/ q.sender = s /\ q.lane = c
              \/ q \in r.permission.lanes /\ q.sender # s
    BY <2>1, <2>2, <2>3, <2>4, ConsumedAddress
  <2> QED
    BY <2>5 DEF r
<1>11. r2 # None
  BY <1>10, NoneIsAbsence
<1> HIDE DEF r2
<1>12. alias'[a] = r2 /\ \A b \in AliasIds \ {a} : alias'[b] = alias[b]
  BY <1>8, <1>9
<1>13. AliasType' /\ AliasesKept
  <2>1. AliasType'
    BY <1>8, <1>9, <1>10 DEF AliasType
  <2>2. AliasesKept
    BY <1>11, <1>12 DEF AliasesKept
  <2> QED
    BY <2>1, <2>2
<1>14. Addresses'
  <2> SUFFICES ASSUME NEW b \in AliasIds, alias'[b] # None
               PROVE  /\ AliasLoads(b, alias'[b]) /\ IsFiniteSet(alias'[b].approvals)
                      /\ alias'[b].life = "Active" => alias'[b].approvals = {}
                      /\ alias'[b].permission.state # "Senders" => alias'[b].permission.lanes = {}
                      /\ \A e \in alias'[b].existing :
                            \E n \in Sent' : /\ msg'[n].alias = b /\ msg'[n].author = e.sender
                                             /\ msg'[n].conversation = e.conversation
    BY DEF Addresses
  <2>1. alias[b] # None /\ alias'[b].existing = alias[b].existing
    BY <1>10, <1>12
  <2>2. \A e \in alias[b].existing :
            \E n \in Sent' : /\ msg'[n].alias = b /\ msg'[n].author = e.sender
                             /\ msg'[n].conversation = e.conversation
    BY <2>1, ExistingKept
  <2>3. /\ AliasLoads(b, alias'[b]) /\ IsFiniteSet(alias'[b].approvals)
        /\ alias'[b].life = "Active" => alias'[b].approvals = {}
        /\ alias'[b].permission.state # "Senders" => alias'[b].permission.lanes = {}
    <3>1. CASE b = a
      <4>1. alias[a].life = "Active" => alias[a].approvals = {}
        BY DEF IInv, Addresses
      <4> QED
        BY <1>8, <1>10, <1>12, <3>1, <4>1
    <3>2. CASE b # a
      BY <1>12, <2>1, <3>2 DEF IInv, Addresses
    <3> QED
      BY <3>1, <3>2
  <2> QED
    BY <2>1, <2>2, <2>3
<1>15. LaneType' /\ LanesFit'
  <2>1. LaneType /\ LanesFit
    BY DEF IInv, TypeOK
  <2> QED
    BY <1>0, <2>1 DEF LaneType, LanesFit
<1>16. ASSUME NEW d \in Directions, lane'[d] # None
       PROVE  Windowed(lane'[d], OnPair(d)', msg')
  <2>1. lane[d] # None /\ lane'[d] = lane[d]
    BY <1>0, <1>16
  <2>2. x.on # PairLane(d)
    BY CorrespondenceAssumption DEF PairLane, AliasLane
  <2>3. Windowed(lane[d], OnPair(d)', msg')
    BY <2>1, <2>2, OtherPair
  <2> QED
    BY <2>1, <2>3
<1>17. ASSUME NEW b \in AliasIds, alias'[b] # None, NEW q \in alias'[b].permission.lanes
       PROVE  Windowed(q.lane, OnAlias(b, q.sender)', msg')
  <2>1. CASE b = a /\ q.sender = s /\ q.lane = c
    <3>1. AliasLane(a)' = AliasLane(a)
      BY <1>10, <1>12 DEF AliasLane
    <3>2. OnAlias(a, s)' = OnAlias(a, s) \cup {Fresh}
      BY <1>1, <3>1 DEF OnAlias
    <3> QED
      BY <1>7, <2>1, <3>2
  <2>2. CASE b = a /\ q \in alias[a].permission.lanes /\ q.sender # s
    <3>1. alias'[a].permission.revision = alias[a].permission.revision
      BY <1>10, <1>12
    <3>2. x.author # q.sender
      BY <2>2
    <3>3. Windowed(q.lane, OnAlias(a, q.sender)', msg')
      BY <2>2, <3>1, <3>2, OtherAlias
    <3> QED
      BY <2>2, <3>3
  <2>3. CASE b # a
    <3>1. /\ alias[b] # None /\ q \in alias[b].permission.lanes
          /\ alias'[b].permission.revision = alias[b].permission.revision
      BY <1>12, <1>17, <2>3
    <3>2. x.on # AliasLane(b)
      BY <2>3 DEF AliasLane
    <3> QED
      BY <3>1, <3>2, OtherAlias
  <2> QED
    BY <1>10, <1>12, <1>17, <2>1, <2>2, <2>3
<1>18. \A m \in Sent' : msg'[m].on # None =>
          /\ msg'[m].on.of \in Directions =>
                /\ lane'[msg'[m].on.of] # None
                /\ msg'[m].on.version <= lane'[msg'[m].on.of].grant.version
          /\ msg'[m].on.of \in AliasIds =>
                /\ alias'[msg'[m].on.of] # None
                /\ msg'[m].on.version <= alias'[msg'[m].on.of].permission.revision
  <2>1. \A e \in Directions : lane[e] # None =>
           lane'[e] # None /\ lane'[e].grant.version = lane[e].grant.version
    BY <1>0
  <2>2. \A b \in AliasIds : alias[b] # None =>
           alias'[b] # None /\ alias'[b].permission.revision = alias[b].permission.revision
    BY <1>10, <1>11, <1>12
  <2>3. \E b \in AliasIds : alias[b] # None /\ x.on = AliasLane(b)
    OBVIOUS
  <2> QED
    BY <2>1, <2>2, <2>3, VersionsFrame
<1>19. Allowances'
  BY <1>16, <1>17, <1>18 DEF Allowances
<1> QED
  BY <1>13, <1>14, <1>15, <1>19 DEF LanesHold

-----------------------------------------------------------------------------
(***************************************************************************)
(* What a message is made from.                                            *)
(***************************************************************************)

Walk(messages, from) ==
    {n \in DOMAIN messages : \A visited \in SUBSET DOMAIN messages :
        from \subseteq visited /\ (\A m \in visited : messages[m].sources \subseteq visited)
        => n \in visited}

LEMMA WalkIn ==
    ASSUME NEW messages, NEW from, NEW Q \in SUBSET DOMAIN messages, from \subseteq Q,
           \A m \in Q : messages[m].sources \subseteq Q
    PROVE  Walk(messages, from) \subseteq Q
BY DEF Walk

LEMMA WalkFromNone ==
    ASSUME NEW messages
    PROVE  Walk(messages, {}) = {}
<1> SUFFICES ASSUME NEW n \in Walk(messages, {})
             PROVE  FALSE
  OBVIOUS
<1>1. {} \in SUBSET DOMAIN messages /\ {} \subseteq {}
  OBVIOUS
<1>2. \A m \in {} : messages[m].sources \subseteq {}
  OBVIOUS
<1>3. n \in {}
  BY <1>1, <1>2 DEF Walk
<1> QED
  BY <1>3

\* A message that is added later changes nothing of what others were made from.
LEMMA WalkKept ==
    ASSUME NEW old, NEW new, NEW f, DOMAIN new = DOMAIN old \cup {f},
           \A m \in DOMAIN old : new[m] = old[m] /\ old[m].sources \subseteq DOMAIN old,
           NEW from \in SUBSET DOMAIN old
    PROVE  Walk(new, from) \subseteq Walk(old, from)
<1> SUFFICES ASSUME NEW n \in Walk(new, from)
             PROVE  n \in Walk(old, from)
  OBVIOUS
<1>1. ASSUME NEW visited \in SUBSET DOMAIN old, from \subseteq visited,
             \A m \in visited : old[m].sources \subseteq visited
      PROVE  n \in visited
  <2>1. visited \in SUBSET DOMAIN new
    OBVIOUS
  <2>2. \A m \in visited : new[m].sources \subseteq visited
    BY <1>1
  <2> QED
    BY <1>1, <2>1, <2>2 DEF Walk
<1>2. n \in DOMAIN old
  BY <1>1
<1> QED
  BY <1>1, <1>2 DEF Walk

-----------------------------------------------------------------------------
(***************************************************************************)
(* The conversations of a message.                                         *)
(***************************************************************************)

ConvsKept ==
    \A k \in Conversations : conv[k] # None =>
        /\ conv'[k] # None /\ conv'[k].scope = conv[k].scope
        /\ conv'[k].restricted = conv[k].restricted /\ conv'[k].relaxed = conv[k].relaxed

ConvsLoad ==
    \A k \in Conversations : conv[k] # None =>
        ConversationLoads(conv[k]) /\ (~conv[k].relaxed => conv[k].restricted)

ReceivedStep ==
    \A k \in Conversations, d \in Directions :
        conv'[k] # None /\ conv'[k].scope = {d[1], d[2]} /\ conv'[k].received[d[1]] # None =>
           \/ /\ conv[k] # None /\ conv[k].scope = conv'[k].scope
              /\ conv[k].received[d[1]] = conv'[k].received[d[1]]
           \/ conv'[k].received[d[1]] = [message |-> Fresh, epoch |-> rel[d].epoch]

\* What a quotable message was made from is quotable, and lies in conversations.
LEMMA ReachedQuotable ==
    ASSUME IInv, NEW from \in SUBSET Quotable
    PROVE  \A n \in Walk(msg, from) : /\ n \in Sent /\ msg[n].conversation \in Conversations
                                      /\ conv[msg[n].conversation] # None
<1>1. \A m \in Sent : msg[m].sources \subseteq Quotable
  BY DEF IInv, Contents
<1>2. Quotable \in SUBSET DOMAIN msg
  BY DEF Quotable, Sent
<1>3. Walk(msg, from) \subseteq Quotable
  BY <1>1, <1>2, WalkIn DEF Sent
<1>4. \A n \in Quotable : n \in Sent /\ msg[n].conversation # None
  BY DEF Quotable
<1>5. \A n \in Sent : msg[n].conversation # None => conv[msg[n].conversation] # None
  BY DEF IInv, Deliveries
<1>6. \A n \in Sent : msg[n].conversation \in Conversations \cup {None}
  BY MessageFacts, DeliveryFields DEF IInv, TypeOK
<1> QED
  BY <1>3, <1>4, <1>5, <1>6

LEMMA ContentsStep ==
    ASSUME IInv, NEW x \in Delivery, CanSend, msg' = Append(msg, x), ConvsKept, ConvsLoad',
           x.sources \subseteq Quotable,
           x.sources # {} =>
               /\ x.conversation # None /\ conv[x.conversation] # None
               /\ \A m \in Reached(x.sources) :
                     Permits(conv[msg[m].conversation], conv[x.conversation].scope)
    PROVE  Contents'
<1>1. Sent' = Sent \cup {Fresh} /\ msg'[Fresh] = x /\ \A m \in Sent : msg'[m] = msg[m]
  BY MessageAppended DEF IInv, TypeOK
<1>2. Quotable \subseteq Quotable'
  BY <1>1 DEF Quotable
<1>3. \A m \in Sent : msg[m].sources \subseteq Quotable
  BY DEF IInv, Contents
<1>4. \A m \in Sent' : msg'[m].sources \subseteq Quotable
  BY <1>1, <1>3
<1>5. \A m \in Sent' : msg'[m].sources # {} => msg'[m].conversation # None
  <2>1. \A m \in Sent : msg[m].sources # {} => msg[m].conversation # None
    BY DEF IInv, Contents
  <2> QED
    BY <1>1, <2>1
<1>6. ASSUME NEW m \in Sent', NEW n \in Walk(msg', msg'[m].sources),
             ~conv'[msg'[n].conversation].relaxed
      PROVE  conv'[msg'[m].conversation].scope = conv'[msg'[n].conversation].scope
  <2> DEFINE S == msg'[m].sources
  <2>1. S \in SUBSET Quotable
    BY <1>4
  <2>2. n \in Walk(msg, S)
    <3>1. S \in SUBSET DOMAIN msg
      BY <2>1 DEF Quotable, Sent
    <3>2. DOMAIN msg' = DOMAIN msg \cup {Fresh}
      BY <1>1 DEF Sent
    <3>3. \A i \in DOMAIN msg : msg'[i] = msg[i] /\ msg[i].sources \subseteq DOMAIN msg
      BY <1>1, <1>3 DEF Quotable, Sent
    <3> HIDE DEF S
    <3>4. Walk(msg', S) \subseteq Walk(msg, S)
      BY <3>1, <3>2, <3>3, WalkKept
    <3> QED
      BY <1>6, <3>4 DEF S
  <2>3. /\ n \in Sent /\ msg[n].conversation \in Conversations
        /\ conv[msg[n].conversation] # None
    BY <2>1, <2>2, ReachedQuotable
  <2>4. msg'[n] = msg[n]
    BY <1>1, <2>3
  <2>5. /\ conv'[msg[n].conversation].scope = conv[msg[n].conversation].scope
        /\ conv'[msg[n].conversation].relaxed = conv[msg[n].conversation].relaxed
    BY <2>3 DEF ConvsKept
  <2>6. S # {}
    <3>1. ASSUME S = {} PROVE FALSE
      BY <2>2, <3>1, WalkFromNone
    <3> QED
      BY <3>1
  <2>7. msg'[m].conversation # None
    BY <1>5, <2>6
  <2>8. CASE m \in Sent
    <3>1. msg'[m] = msg[m]
      BY <1>1, <2>8
    <3>2. msg[m].conversation \in Conversations /\ conv[msg[m].conversation] # None
      <4>1. msg[m].conversation \in Conversations \cup {None}
        BY <2>8, MessageFacts, DeliveryFields DEF IInv, TypeOK
      <4> QED
        BY <2>7, <2>8, <3>1, <4>1 DEF IInv, Deliveries
    <3>3. conv'[msg[m].conversation].scope = conv[msg[m].conversation].scope
      BY <3>2 DEF ConvsKept
    <3>4. n \in Sources(m)
      BY <2>2, <3>1 DEF Sources, Reached, Walk, Sent
    <3>5. ~conv[msg[n].conversation].relaxed
      BY <1>6, <2>4, <2>5
    <3>6. conv[msg[m].conversation].scope = conv[msg[n].conversation].scope
      BY <2>8, <3>4, <3>5 DEF IInv, Contents, RestrictedContentStays
    <3> QED
      BY <2>4, <2>5, <3>1, <3>3, <3>6
  <2>9. CASE m = Fresh
    <3>1. msg'[m] = x /\ S = x.sources
      BY <1>1, <2>9
    <3>2. /\ x.conversation # None /\ conv[x.conversation] # None
          /\ \A i \in Reached(x.sources) :
                Permits(conv[msg[i].conversation], conv[x.conversation].scope)
      BY <2>6, <3>1
    <3>3. n \in Reached(x.sources)
      BY <2>2, <3>1 DEF Reached, Walk, Sent
    <3>4. Permits(conv[msg[n].conversation], conv[x.conversation].scope)
      BY <3>2, <3>3
    <3>5. conv[msg[n].conversation].restricted
      BY <1>6, <2>3, <2>4, <2>5 DEF IInv, Contents
    <3>6. conv[msg[n].conversation].scope = conv[x.conversation].scope
      BY <3>4, <3>5 DEF Permits
    <3>7. conv'[x.conversation].scope = conv[x.conversation].scope
      BY <3>2, DeliveryFields DEF ConvsKept
    <3> QED
      BY <2>4, <2>5, <3>1, <3>6, <3>7
  <2> QED
    BY <1>1, <2>8, <2>9
<1>7. RestrictedContentStays'
  BY <1>6 DEF RestrictedContentStays, Sources, Reached, Walk, Sent
<1>8. \A m \in Sent' : msg'[m].sources \subseteq Quotable'
  BY <1>2, <1>4
<1> QED
  BY <1>5, <1>7, <1>8 DEF Contents, ConvsLoad

LEMMA ReceiptsStep ==
    ASSUME IInv, NEW x \in Delivery, CanSend, msg' = Append(msg, x),
           UNCHANGED <<rel, withdrawn>>, ReceivedStep
    PROVE  Receipts'
<1>1. Sent' = Sent \cup {Fresh} /\ Fresh \notin Sent
  BY MessageAppended DEF IInv, TypeOK
<1>2. \A d \in Directions : withdrawn[d] \subseteq Sent
  BY DEF IInv, Receipts
<1>3. ASSUME NEW k \in Conversations, NEW d \in Directions,
             conv'[k] # None, conv'[k].scope = {d[1], d[2]}, conv'[k].received[d[1]] # None
      PROVE  /\ conv'[k].received[d[1]].epoch <= rel[d].epoch
             /\ conv'[k].received[d[1]].epoch = rel[d].epoch =>
                   conv'[k].received[d[1]].message \notin withdrawn[d]
  <2>1. CASE /\ conv[k] # None /\ conv[k].scope = conv'[k].scope
             /\ conv[k].received[d[1]] = conv'[k].received[d[1]]
    BY <1>3, <2>1 DEF IInv, Receipts
  <2>2. CASE conv'[k].received[d[1]] = [message |-> Fresh, epoch |-> rel[d].epoch]
    <3>1. rel[d].epoch \in Nat
      <4>1. rel[d] \in Relationship
        BY DEF IInv, TypeOK, RelType
      <4> QED
        BY <4>1 DEF Relationship
    <3>2. Fresh \notin withdrawn[d]
      BY <1>1, <1>2
    <3> QED
      BY <2>2, <3>1, <3>2
  <2> QED
    BY <1>3, <2>1, <2>2 DEF ReceivedStep
<1> QED
  BY <1>1, <1>2, <1>3 DEF Receipts

\* what a request's address and conversation must be
Requested(d) ==
    /\ alias[request[d]] # None /\ OwnerOf[request[d]] = d[2]
    /\ began[d] # None /\ conv[began[d]] # None /\ conv[began[d]].scope = {d[1], d[2]}

LEMMA DeliveriesStep ==
    ASSUME IInv, NEW x \in Delivery, CanSend, msg' = Append(msg, x), x.at = now, UNCHANGED now,
           ConvsKept, AliasesKept,
           x.conversation # None => conv'[x.conversation] # None,
           x.alias # None =>
               /\ alias'[x.alias] # None /\ x.conversation # None
               /\ x.author # OwnerOf[x.alias]
               /\ conv'[x.conversation].scope = {x.author, OwnerOf[x.alias]},
           \A d \in Directions : request'[d] # None =>
               \/ request'[d] = request[d] /\ began'[d] = began[d]
               \/ Requested(d)'
    PROVE  Deliveries'
<1>1. Sent' = Sent \cup {Fresh} /\ msg'[Fresh] = x /\ \A m \in Sent : msg'[m] = msg[m]
  BY MessageAppended DEF IInv, TypeOK
<1>2. now \in Nat
  BY CorrespondenceAssumption DEF IInv, TypeOK, CountsType
<1>3. ASSUME NEW m \in Sent
      PROVE  /\ msg[m].at <= now
             /\ msg[m].conversation # None => conv'[msg[m].conversation] # None
             /\ msg[m].alias # None =>
                   /\ alias'[msg[m].alias] # None /\ msg[m].conversation # None
                   /\ msg[m].author # OwnerOf[msg[m].alias]
                   /\ conv'[msg[m].conversation].scope = {msg[m].author, OwnerOf[msg[m].alias]}
  <2>1. /\ msg[m].at <= now
        /\ msg[m].conversation # None => conv[msg[m].conversation] # None
        /\ msg[m].alias # None =>
              /\ alias[msg[m].alias] # None /\ msg[m].conversation # None
              /\ msg[m].author # OwnerOf[msg[m].alias]
              /\ conv[msg[m].conversation].scope = {msg[m].author, OwnerOf[msg[m].alias]}
    BY DEF IInv, Deliveries
  <2>2. msg[m].conversation \in Conversations \cup {None} /\ msg[m].alias \in AliasIds \cup {None}
    BY MessageFacts, DeliveryFields DEF IInv, TypeOK
  <2>3. msg[m].conversation # None =>
           /\ conv'[msg[m].conversation] # None
           /\ conv'[msg[m].conversation].scope = conv[msg[m].conversation].scope
    BY <2>1, <2>2 DEF ConvsKept
  <2>4. msg[m].alias # None => alias'[msg[m].alias] # None
    BY <2>1, <2>2 DEF AliasesKept
  <2> QED
    BY <2>1, <2>3, <2>4
<1>4. ASSUME NEW d \in Directions, request'[d] # None
      PROVE  Requested(d)'
  <2>1. CASE request'[d] = request[d] /\ began'[d] = began[d]
    <3>1. Requested(d)
      BY <1>4, <2>1 DEF IInv, Deliveries, Requested
    <3>2. request[d] \in AliasIds /\ began[d] \in Conversations
      BY <1>4, <2>1, <3>1 DEF IInv, TypeOK, RelType, Requested
    <3>3. /\ alias'[request[d]] # None /\ conv'[began[d]] # None
          /\ conv'[began[d]].scope = conv[began[d]].scope
      BY <3>1, <3>2 DEF Requested, ConvsKept, AliasesKept
    <3> QED
      BY <2>1, <3>1, <3>3 DEF Requested
  <2> QED
    BY <1>4, <2>1
<1>5. \A m \in Sent' :
         /\ msg'[m].at <= now'
         /\ msg'[m].conversation # None => conv'[msg'[m].conversation] # None
         /\ msg'[m].alias # None =>
               /\ alias'[msg'[m].alias] # None
               /\ msg'[m].conversation # None
               /\ msg'[m].author # OwnerOf[msg'[m].alias]
               /\ conv'[msg'[m].conversation].scope = {msg'[m].author, OwnerOf[msg'[m].alias]}
  <2> SUFFICES ASSUME NEW m \in Sent'
               PROVE
         /\ msg'[m].at <= now
         /\ msg'[m].conversation # None => conv'[msg'[m].conversation] # None
         /\ msg'[m].alias # None =>
               /\ alias'[msg'[m].alias] # None
               /\ msg'[m].conversation # None
               /\ msg'[m].author # OwnerOf[msg'[m].alias]
               /\ conv'[msg'[m].conversation].scope = {msg'[m].author, OwnerOf[msg'[m].alias]}
    OBVIOUS
  <2>1. CASE m \in Sent
    <3>1. msg'[m] = msg[m]
      BY <1>1, <2>1
    <3> QED
      BY <1>3, <2>1, <3>1
  <2>2. CASE m = Fresh
    <3>1. msg'[m] = x
      BY <1>1, <2>2
    <3> QED
      BY <1>2, <3>1
  <2> QED
    BY <1>1, <2>1, <2>2
<1> QED
  BY <1>4, <1>5 DEF Deliveries, Requested

LEMMA MessagesStep ==
    ASSUME IInv, NEW x \in Delivery, CanSend, msg' = Append(msg, x), x.at = now,
           UNCHANGED <<now, rel, withdrawn>>,
           RelType', CountsType', ConvType', LanesHold', AliasesKept,
           ConvsKept, ConvsLoad', ReceivedStep,
           x.conversation # None => conv'[x.conversation] # None,
           x.alias # None =>
               /\ alias'[x.alias] # None /\ x.conversation # None
               /\ x.author # OwnerOf[x.alias]
               /\ conv'[x.conversation].scope = {x.author, OwnerOf[x.alias]},
           x.sources \subseteq Quotable,
           x.sources # {} =>
               /\ x.conversation # None /\ conv[x.conversation] # None
               /\ \A m \in Reached(x.sources) :
                     Permits(conv[msg[m].conversation], conv[x.conversation].scope),
           \A d \in Directions : request'[d] # None =>
               \/ request'[d] = request[d] /\ began'[d] = began[d]
               \/ Requested(d)'
    PROVE  IInv'
<1>1. MsgType'
  BY MessageAppended DEF IInv, TypeOK
<1>2. Contents'
  BY ContentsStep
<1>3. Receipts'
  BY ReceiptsStep
<1>4. Deliveries'
  BY DeliveriesStep
<1>5. TypeOK'
  BY <1>1 DEF TypeOK, LanesHold
<1> QED
  BY <1>2, <1>3, <1>4, <1>5 DEF IInv, LanesHold

-----------------------------------------------------------------------------
(***************************************************************************)
(* Messages.                                                               *)
(***************************************************************************)

LEMMA ConversationFields ==
    ASSUME NEW c \in Conversation
    PROVE  /\ c.scope \in SUBSET Members /\ c.restricted \in BOOLEAN /\ c.relaxed \in BOOLEAN
           /\ c.proposer \in Members \cup {None} /\ c.revision \in Nat
           /\ c.received \in [Members -> Receipt \cup {None}]
BY DEF Conversation

LEMMA NewConversationLoads ==
    ASSUME NEW pair \in SUBSET Members,
           NEW c \in {NewConversation(pair), BegunByRequest(pair)}
    PROVE  /\ c \in Conversation /\ ConversationLoads(c) /\ c.scope = pair
           /\ ~c.relaxed => c.restricted
           /\ \A p \in Members : c.received[p] = None
<1>1. CASE c = NewConversation(pair)
  BY <1>1 DEF NewConversation, Conversation, ConversationLoads
<1>2. CASE c = BegunByRequest(pair)
  <2>1. c = [scope |-> pair, restricted |-> TRUE, proposer |-> None, revision |-> 0,
             received |-> [p \in Members |-> None], relaxed |-> FALSE]
    BY <1>2 DEF BegunByRequest, NewConversation
  <2> QED
    BY <2>1 DEF Conversation, ConversationLoads
<1> QED
  BY <1>1, <1>2

LEMMA ReceiveLoads ==
    ASSUME NEW c \in Conversation, ConversationLoads(c), ~c.relaxed => c.restricted,
           NEW r \in Members, r \in c.scope, NEW m \in Message, NEW e \in Nat
    PROVE  LET n == Receive(c, r, m, e) IN
           /\ n \in Conversation /\ ConversationLoads(n) /\ n.scope = c.scope
           /\ n.restricted = c.restricted /\ n.relaxed = c.relaxed
           /\ n.received[r] = [message |-> m, epoch |-> e]
           /\ \A p \in Members : p # r => n.received[p] = c.received[p]
<1> DEFINE n == Receive(c, r, m, e)
           w == [message |-> m, epoch |-> e]
<1>1. /\ n.scope = c.scope /\ n.restricted = c.restricted /\ n.relaxed = c.relaxed
      /\ n.proposer = c.proposer /\ n.revision = c.revision
      /\ n.received = [c.received EXCEPT ![r] = w]
  BY DEF Receive, Conversation
<1>2. w \in Receipt
  BY DEF Receipt
<1> HIDE DEF w
<1>3. /\ n.received \in [Members -> Receipt \cup {None}] /\ n.received[r] = w
      /\ \A p \in Members : p # r => n.received[p] = c.received[p]
  BY <1>1, <1>2, ConversationFields
<1>4. n \in Conversation
  <2>1. n = [c EXCEPT !.received = n.received]
    BY DEF Receive, Conversation
  <2> HIDE DEF n
  <2> QED
    BY <1>3, <2>1 DEF Conversation
<1> HIDE DEF n
<1>5. ConversationLoads(n)
  BY <1>1, <1>3 DEF ConversationLoads
<1> QED
  BY <1>1, <1>3, <1>4, <1>5 DEF n, w

LEMMA EpochFor ==
    ASSUME TypeOK, NEW s, NEW r
    PROVE  ReplyEpochFor(s, r) \in Nat
<1>1. \A d \in Directions : rel[d].epoch \in Nat
  <2> SUFFICES ASSUME NEW d \in Directions PROVE rel[d].epoch \in Nat
    OBVIOUS
  <2>1. rel[d] \in Relationship
    BY DEF TypeOK, RelType
  <2> QED
    BY <2>1 DEF Relationship
<1> QED
  BY <1>1 DEF ReplyEpochFor

\* what a message makes of the conversation it is in
Base(k, s, r, base) ==
    \/ conv[k] = None /\ base \in {NewConversation({s, r}), BegunByRequest({s, r})}
    \/ conv[k] # None /\ base = conv[k] /\ base.scope = {s, r}
Recorded(k, s, r) ==
    \E base : /\ Base(k, s, r, base)
              /\ \E c \in {base, Receive(base, r, Fresh, ReplyEpochFor(s, r))} :
                    conv' = [conv EXCEPT ![k] = c]

LEMMA ConversationStep ==
    ASSUME IInv, CanSend, UNCHANGED rel,
           NEW k \in Conversations, NEW s \in Members, NEW r \in Members, s # r,
           Recorded(k, s, r)
    PROVE  /\ ConvType' /\ ConvsKept /\ ConvsLoad' /\ ReceivedStep
           /\ conv'[k] # None /\ conv'[k].scope = {s, r}
<1> PICK base : /\ Base(k, s, r, base)
                /\ \E c \in {base, Receive(base, r, Fresh, ReplyEpochFor(s, r))} :
                      conv' = [conv EXCEPT ![k] = c]
  BY DEF Recorded
<1> PICK c \in {base, Receive(base, r, Fresh, ReplyEpochFor(s, r))} :
        conv' = [conv EXCEPT ![k] = c]
  OBVIOUS
<1>1. /\ base \in Conversation /\ ConversationLoads(base) /\ base.scope = {s, r}
      /\ ~base.relaxed => base.restricted
  <2>1. CASE conv[k] = None
    <3>1. base \in {NewConversation({s, r}), BegunByRequest({s, r})} /\ {s, r} \in SUBSET Members
      BY <2>1 DEF Base
    <3> QED
      BY <3>1, NewConversationLoads
  <2>2. CASE conv[k] # None
    BY <2>2 DEF Base, IInv, TypeOK, ConvType, Contents
  <2> QED
    BY <2>1, <2>2
<1>2. Fresh \in Message
  <2>1. Len(msg) \in Nat /\ Len(msg) < MaxMessages /\ MaxMessages \in Nat
    BY MessageFacts, CorrespondenceAssumption DEF IInv, TypeOK, CanSend
  <2> QED
    BY <2>1 DEF Fresh, Message
<1>3. ReplyEpochFor(s, r) \in Nat
  BY EpochFor DEF IInv
<1> DEFINE w == Receive(base, r, Fresh, ReplyEpochFor(s, r))
           e == ReplyEpochFor(s, r)
<1>4. /\ w \in Conversation /\ ConversationLoads(w) /\ w.scope = base.scope
      /\ w.restricted = base.restricted /\ w.relaxed = base.relaxed
      /\ w.received[r] = [message |-> Fresh, epoch |-> e]
      /\ \A p \in Members : p # r => w.received[p] = base.received[p]
  <2>1. LET n == Receive(base, r, Fresh, ReplyEpochFor(s, r)) IN
           /\ n \in Conversation /\ ConversationLoads(n) /\ n.scope = base.scope
           /\ n.restricted = base.restricted /\ n.relaxed = base.relaxed
           /\ n.received[r] = [message |-> Fresh, epoch |-> ReplyEpochFor(s, r)]
           /\ \A p \in Members : p # r => n.received[p] = base.received[p]
    BY <1>1, <1>2, <1>3, ReceiveLoads
  <2> QED
    BY <2>1
<1> HIDE DEF w, e
<1>5. c \in {base, w}
  BY DEF w
<1>6. /\ c \in Conversation /\ ConversationLoads(c) /\ c.scope = {s, r}
      /\ c.restricted = base.restricted /\ c.relaxed = base.relaxed
      /\ \A p \in Members : \/ c.received[p] = base.received[p]
                            \/ p = r /\ c.received[p] = [message |-> Fresh, epoch |-> e]
  BY <1>1, <1>4, <1>5
<1>7. conv \in [Conversations -> Conversation \cup {None}]
  BY DEF IInv, TypeOK, ConvType
<1>8. conv'[k] = c /\ \A j \in Conversations \ {k} : conv'[j] = conv[j]
  BY <1>7
<1>9. c # None
  BY <1>6, NoneIsAbsence
<1>10. ConvType'
  BY <1>6, <1>7 DEF ConvType
<1>11. ConvsKept
  <2> SUFFICES ASSUME NEW j \in Conversations, conv[j] # None
               PROVE  /\ conv'[j] # None /\ conv'[j].scope = conv[j].scope
                      /\ conv'[j].restricted = conv[j].restricted
                      /\ conv'[j].relaxed = conv[j].relaxed
    BY DEF ConvsKept
  <2>1. CASE j = k
    <3>1. base = conv[k] /\ base.scope = {s, r}
      BY <2>1 DEF Base
    <3> QED
      BY <1>6, <1>8, <1>9, <2>1, <3>1
  <2>2. CASE j # k
    BY <1>8, <2>2
  <2> QED
    BY <2>1, <2>2
<1>12. ConvsLoad'
  <2>1. ConvsLoad
    BY DEF IInv, Contents, ConvsLoad
  <2> QED
    BY <1>1, <1>6, <1>8, <2>1 DEF ConvsLoad
<1>13. ReceivedStep
  <2> SUFFICES ASSUME NEW j \in Conversations, NEW d \in Directions,
                      conv'[j] # None, conv'[j].scope = {d[1], d[2]},
                      conv'[j].received[d[1]] # None
               PROVE  \/ /\ conv[j] # None /\ conv[j].scope = conv'[j].scope
                         /\ conv[j].received[d[1]] = conv'[j].received[d[1]]
                      \/ conv'[j].received[d[1]] = [message |-> Fresh, epoch |-> rel[d].epoch]
    BY DEF ReceivedStep
  <2>1. CASE j # k
    BY <1>8, <2>1
  <2>2. CASE j = k
    <3>1. d[1] \in Members /\ d = <<d[1], d[2]>> /\ d[1] # d[2]
      BY CorrespondenceAssumption
    <3>2. {d[1], d[2]} = {s, r}
      BY <1>6, <1>8, <2>2
    <3>3. CASE c.received[d[1]] = base.received[d[1]]
      <4>1. base.received[d[1]] # None
        BY <1>8, <2>2, <3>3
      <4>2. conv[k] # None
        <5>1. ASSUME conv[k] = None PROVE FALSE
          <6>1. base \in {NewConversation({s, r}), BegunByRequest({s, r})} /\ {s, r} \in SUBSET Members
            BY <5>1 DEF Base
          <6>2. \A p \in Members : base.received[p] = None
            BY <6>1, NewConversationLoads
          <6> QED
            BY <3>1, <4>1, <6>2
        <5> QED
          BY <5>1
      <4>3. base = conv[k] /\ base.scope = {s, r}
        BY <4>2 DEF Base
      <4> QED
        BY <1>6, <1>8, <2>2, <3>3, <4>2, <4>3
    <3>4. CASE d[1] = r /\ c.received[d[1]] = [message |-> Fresh, epoch |-> e]
      <4>1. d = <<r, s>>
        BY <3>1, <3>2, <3>4
      <4>2. e = rel[d].epoch
        BY <4>1 DEF e, ReplyEpochFor
      <4> QED
        BY <1>8, <2>2, <3>4, <4>2
    <3> QED
      BY <1>6, <3>1, <3>3, <3>4
  <2> QED
    BY <2>1, <2>2
<1> QED
  BY <1>6, <1>8, <1>9, <1>10, <1>11, <1>12, <1>13

LEMMA PublishedIs ==
    ASSUME NEW c, NEW s, NEW r
    PROVE  Published(c, s, r) \in {c, Receive(c, r, Fresh, ReplyEpochFor(s, r))}
BY DEF Published

LEMMA DeliveredIs ==
    ASSUME TypeOK, NEW s \in Members, NEW k \in Conversations \cup {None},
           NEW a \in AliasIds \cup {None},
           NEW basis \in {"Standing", "SenderLane", "PairedSender", "AliasLane", "Reply",
                          "Request", "Followup"},
           NEW source \in Message \cup {None}, NEW on \in LaneUsed \cup {None},
           NEW sources \in SUBSET Message, NEW open \in BOOLEAN
    PROVE  LET x == Delivered(s, k, a, basis, source, on, sources, open) IN
           /\ x \in Delivery /\ x.author = s /\ x.conversation = k /\ x.alias = a
           /\ x.on = on /\ x.at = now /\ x.sources = sources
<1>1. now \in Nat
  BY CorrespondenceAssumption DEF TypeOK, CountsType
<1> QED
  BY <1>1 DEF Delivered, Delivery

\* What a message to an address leaves alone.
LEMMA DeliverKeeps ==
    ASSUME IInv, NEW c, NEW k, NEW x, Deliver(c, k, x)
    PROVE  /\ RelType' /\ CountsType'
           /\ UNCHANGED <<now, rel, withdrawn, claims, request, began>>
           /\ conv' = [conv EXCEPT ![k] = c] /\ msg' = Append(msg, x)
<1>1. RelType /\ CountsType
  BY DEF IInv, TypeOK
<1> QED
  BY <1>1 DEF Deliver, RelType, CountsType

LEMMA SendStep ==
    ASSUME IInv, CanSend, NEW s \in Members, NEW a \in AliasIds, NEW k \in Conversations,
           alias[a] # None, s # OwnerOf[a],
           Recorded(k, s, OwnerOf[a]),
           NEW x \in Delivery, x.author = s, x.conversation = k, x.alias = a, x.at = now,
           msg' = Append(msg, x),
           UNCHANGED <<now, rel, withdrawn>>, RelType', CountsType', LanesHold', AliasesKept,
           x.sources \subseteq Quotable,
           x.sources # {} =>
               /\ conv[k] # None
               /\ \A m \in Reached(x.sources) :
                     Permits(conv[msg[m].conversation], conv[k].scope),
           \A d \in Directions : request'[d] # None =>
               \/ request'[d] = request[d] /\ began'[d] = began[d]
               \/ Requested(d)'
    PROVE  IInv'
<1>1. OwnerOf[a] \in Members /\ k # None
  BY CorrespondenceAssumption
<1>2. /\ ConvType' /\ ConvsKept /\ ConvsLoad' /\ ReceivedStep
      /\ conv'[k] # None /\ conv'[k].scope = {s, OwnerOf[a]}
  BY <1>1, ConversationStep
<1>3. alias'[a] # None
  BY DEF AliasesKept
<1>4. x.conversation # None => conv'[x.conversation] # None
  BY <1>2
<1>5. x.alias # None =>
          /\ alias'[x.alias] # None /\ x.conversation # None
          /\ x.author # OwnerOf[x.alias]
          /\ conv'[x.conversation].scope = {x.author, OwnerOf[x.alias]}
  BY <1>1, <1>2, <1>3
<1>6. x.sources # {} =>
          /\ x.conversation # None /\ conv[x.conversation] # None
          /\ \A m \in Reached(x.sources) :
                Permits(conv[msg[m].conversation], conv[x.conversation].scope)
  BY <1>1
<1> QED
  BY <1>2, <1>4, <1>5, <1>6, MessagesStep

LEMMA DirectBasis ==
    ASSUME NEW s, NEW a, NEW k, NEW names, DirectAuthority(s, a, k, names) # "None"
    PROVE  /\ DirectAuthority(s, a, k, names) \in {"AliasLane", "PairedSender", "Standing", "SenderLane"}
           /\ DirectAuthority(s, a, k, names) = RouteDecision(s, a, k)
           /\ CheckConversation(alias[a], s, k, now)
           /\ DirectAuthority(s, a, k, names) = "SenderLane" =>
                 <<s, OwnerOf[a]>> \in Directions /\ lane[<<s, OwnerOf[a]>>] # None
<1> DEFINE b == RouteDecision(s, a, k)
           d == <<s, OwnerOf[a]>>
<1>1. /\ b \in {"AliasLane", "PairedSender", "Standing", "SenderLane"}
      /\ DirectAuthority(s, a, k, names) = b
  BY DEF DirectAuthority
<1>2. CheckConversation(alias[a], s, k, now)
  BY <1>1 DEF RouteDecision
<1>3. ASSUME b = "SenderLane"
      PROVE  d \in Directions /\ lane[d] # None
  <2>1. RelationshipBasis(d, a) = "SenderLane"
    BY <1>3 DEF RouteDecision
  <2> HIDE DEF d
  <2>2. d \in Directions
    BY <2>1 DEF RelationshipBasis
  <2>3. CASE rel[d].state = "Accepted" /\ scope[d].lane = None
    BY <2>1, <2>3 DEF RelationshipBasis
  <2>4. CASE rel[d].state = "ExpressLane"
    BY <2>1, <2>2, <2>4 DEF RelationshipBasis
  <2>5. CASE ~(rel[d].state = "Accepted" /\ scope[d].lane = None) /\ rel[d].state # "ExpressLane"
    BY <2>1, <2>5 DEF RelationshipBasis
  <2> QED
    BY <2>2, <2>3, <2>4, <2>5
<1> QED
  BY <1>1, <1>2, <1>3

LEMMA SendDirectStep ==
    ASSUME IInv, CanSend, NEW s \in Members, NEW a \in AliasIds, NEW k \in Conversations,
           alias[a] # None, s # OwnerOf[a], conv[k] # None => conv[k].scope = {s, OwnerOf[a]},
           NEW names \in BOOLEAN, NEW sources \in SUBSET Quotable,
           SendDirect(s, a, k, names, sources)
    PROVE  IInv'
<1> DEFINE r == OwnerOf[a]
           d == <<s, r>>
           b == DirectAuthority(s, a, k, names)
           base == IF conv[k] = None THEN NewConversation({s, r}) ELSE conv[k]
           on == CASE b = "SenderLane" -> PairLane(d)
                   [] b = "PairedSender" -> AliasLane(a)
                   [] OTHER -> None
           open == ~Restricts(<<r, s>>)
           x == Delivered(s, k, a, b, None, on, sources, open)
           c == Published(base, s, r)
<1>1. /\ b # "None"
      /\ IF conv[k] = None THEN sources = {} ELSE PoliciesPermit(s, base.scope, sources)
      /\ CASE b = "SenderLane" ->
                /\ CanConsume(lane[d], Fresh, now)
                /\ LaneWritten(d, Consume(lane[d], Fresh, now))
           [] b = "PairedSender" ->
                \E l \in PairedLanes(a, s) :
                  /\ CanConsume(l, Fresh, now)
                  /\ PairedWritten(a, s, Consume(l, Fresh, now))
           [] OTHER -> LaneUnused
      /\ Deliver(c, k, x)
  BY DEF SendDirect
<1>2. /\ b \in {"AliasLane", "PairedSender", "Standing", "SenderLane"}
      /\ b = "SenderLane" => d \in Directions /\ lane[d] # None
  BY <1>1, DirectBasis
<1>3. /\ b = "SenderLane" => on = PairLane(d)
      /\ b = "PairedSender" => on = AliasLane(a)
      /\ b \notin {"SenderLane", "PairedSender"} => on = None
  OBVIOUS
<1>4. on \in LaneUsed \cup {None}
  <2>1. CASE b = "SenderLane"
    <3>1. d \in Directions /\ lane[d] # None
      BY <1>2, <2>1
    <3>2. lane[d].grant.version \in Nat
      BY <3>1, PairFields DEF IInv
    <3> QED
      BY <1>3, <2>1, <3>1, <3>2 DEF PairLane, LaneUsed
  <2>2. CASE b = "PairedSender"
    <3>1. alias[a] \in Alias
      BY DEF IInv, TypeOK, AliasType
    <3>2. alias[a].permission.revision \in Nat
      BY <3>1, AliasFields, PermissionFields
    <3> QED
      BY <1>3, <2>2, <3>2 DEF AliasLane, LaneUsed
  <2> QED
    BY <1>3, <2>1, <2>2
<1>5. sources \in SUBSET Message
  BY MessageFacts DEF Quotable, IInv, TypeOK
<1>6. open \in BOOLEAN
  OBVIOUS
<1> HIDE DEF on, open, b
<1>7. /\ x \in Delivery /\ x.author = s /\ x.conversation = k /\ x.alias = a
      /\ x.on = on /\ x.at = now /\ x.sources = sources
  BY <1>2, <1>4, <1>5, <1>6, DeliveredIs DEF IInv
<1>8. /\ RelType' /\ CountsType'
      /\ UNCHANGED <<now, rel, withdrawn, claims, request, began>>
      /\ conv' = [conv EXCEPT ![k] = c] /\ msg' = Append(msg, x)
  <2>1. Deliver(c, k, x)
    BY <1>1
  <2> HIDE DEF c, x
  <2> QED
    BY <2>1, DeliverKeeps
<1> HIDE DEF x
<1>9. LanesHold' /\ AliasesKept
  <2>1. CASE b = "SenderLane"
    <3>1. /\ CanConsume(lane[d], Fresh, now)
          /\ LaneWritten(d, Consume(lane[d], Fresh, now))
      BY <1>1, <2>1
    <3>2. d \in Directions /\ lane[d] # None /\ x.on = PairLane(d)
      BY <1>2, <1>3, <1>7, <2>1
    <3> HIDE DEF d
    <3> QED
      BY <1>7, <1>8, <3>1, <3>2, SentOnPair
  <2>2. CASE b = "PairedSender"
    <3>1. PICK l \in PairedLanes(a, s) :
            /\ CanConsume(l, Fresh, now)
            /\ PairedWritten(a, s, Consume(l, Fresh, now))
      BY <1>1, <2>2
    <3>2. x.on = AliasLane(a)
      BY <1>3, <1>7, <2>2
    <3> QED
      BY <1>7, <1>8, <3>1, <3>2, SentOnAlias
  <2>3. CASE b \notin {"SenderLane", "PairedSender"}
    <3>1. LaneUnused
      BY <1>1, <2>3
    <3>2. UNCHANGED <<lane, due, alias, claims>>
      BY <1>8, <3>1 DEF LaneUnused
    <3>3. x.on = None
      BY <1>3, <1>7, <2>3
    <3> QED
      BY <1>7, <1>8, <3>2, <3>3, SentOnNone
  <2> QED
    BY <2>1, <2>2, <2>3
<1>10. Base(k, s, r, base)
  BY DEF Base
<1>11. c \in {base, Receive(base, r, Fresh, ReplyEpochFor(s, r))}
  BY PublishedIs
<1>12. x.sources # {} =>
          /\ conv[k] # None
          /\ \A m \in Reached(x.sources) :
                Permits(conv[msg[m].conversation], conv[k].scope)
  BY <1>1, <1>7 DEF PoliciesPermit
<1> HIDE DEF c, base
<1> Recorded(k, s, OwnerOf[a])
  BY <1>8, <1>10, <1>11 DEF Recorded
<1>13. x.sources \subseteq Quotable
  BY <1>7
<1>14. \A e \in Directions : request'[e] # None =>
               \/ request'[e] = request[e] /\ began'[e] = began[e]
               \/ Requested(e)'
  BY <1>8
<1> QED
  BY <1>7, <1>8, <1>9, <1>12, <1>13, <1>14, SendStep

LEMMA SendAnswerStep ==
    ASSUME IInv, CanSend, NEW s \in Members, NEW a \in AliasIds, NEW k \in Conversations,
           alias[a] # None, s # OwnerOf[a], conv[k] # None => conv[k].scope = {s, OwnerOf[a]},
           NEW names \in BOOLEAN, NEW sources \in SUBSET Quotable,
           SendAnswer(s, a, k, names, sources)
    PROVE  IInv'
<1> DEFINE r == OwnerOf[a]
           d == <<s, r>>
           answers == AnswerBasis(d, k)
           b == IF rel[d].state = "Accepted" THEN "Standing"
                ELSE IF names THEN "SenderLane" ELSE "Reply"
           source == IF b = "Reply" THEN answers ELSE None
           on == IF b = "SenderLane" THEN PairLane(d) ELSE None
           open == ~Restricts(<<r, s>>)
           x == Delivered(s, k, a, b, source, on, sources, open)
           c == Published(conv[k], s, r)
<1>1. /\ answers # None
      /\ PoliciesPermit(s, conv[k].scope, sources)
      /\ IF b = "SenderLane"
           THEN /\ lane[d] # None /\ CanConsume(lane[d], Fresh, now)
                /\ LaneWritten(d, Consume(lane[d], Fresh, now))
           ELSE LaneUnused
      /\ Deliver(c, k, x)
  BY DEF SendAnswer
<1>2. /\ d \in Directions /\ conv[k] # None /\ answers = ReplySource(conv[k], s, rel[d].epoch)
  BY <1>1 DEF AnswerBasis
<1>3. answers \in Message
  <2>1. conv[k] \in Conversation
    BY <1>2 DEF IInv, TypeOK, ConvType
  <2>2. conv[k].received[s] # None /\ answers = conv[k].received[s].message
    BY <1>1, <1>2 DEF ReplySource
  <2>3. conv[k].received[s] \in Receipt
    BY <2>1, <2>2, ConversationFields
  <2> QED
    BY <2>2, <2>3 DEF Receipt
<1>4. b \in {"Standing", "SenderLane", "Reply"}
  OBVIOUS
<1>5. source \in Message \cup {None}
  BY <1>3
<1>6. on \in LaneUsed \cup {None}
  <2>1. CASE b = "SenderLane"
    <3>1. d \in Directions /\ lane[d] # None
      BY <1>1, <1>2, <2>1
    <3>2. lane[d].grant.version \in Nat
      BY <3>1, PairFields DEF IInv
    <3> QED
      BY <2>1, <3>1, <3>2 DEF PairLane, LaneUsed
  <2> QED
    BY <2>1
<1>7. sources \in SUBSET Message
  BY MessageFacts DEF Quotable, IInv, TypeOK
<1>8. open \in BOOLEAN
  OBVIOUS
<1>9. /\ b = "SenderLane" => on = PairLane(d)
      /\ b # "SenderLane" => on = None
  OBVIOUS
<1> HIDE DEF source, on, open, b
<1>10. /\ x \in Delivery /\ x.author = s /\ x.conversation = k /\ x.alias = a
       /\ x.on = on /\ x.at = now /\ x.sources = sources
  BY <1>4, <1>5, <1>6, <1>7, <1>8, DeliveredIs DEF IInv
<1>11. /\ RelType' /\ CountsType'
       /\ UNCHANGED <<now, rel, withdrawn, claims, request, began>>
       /\ conv' = [conv EXCEPT ![k] = c] /\ msg' = Append(msg, x)
  <2>1. Deliver(c, k, x)
    BY <1>1
  <2> HIDE DEF c, x
  <2> QED
    BY <2>1, DeliverKeeps
<1> HIDE DEF x
<1>12. LanesHold' /\ AliasesKept
  <2>1. CASE b = "SenderLane"
    <3>1. /\ lane[d] # None /\ CanConsume(lane[d], Fresh, now)
          /\ LaneWritten(d, Consume(lane[d], Fresh, now))
      BY <1>1, <2>1
    <3>2. d \in Directions /\ x.on = PairLane(d)
      BY <1>2, <1>9, <1>10, <2>1
    <3> HIDE DEF d
    <3> QED
      BY <1>10, <1>11, <3>1, <3>2, SentOnPair
  <2>2. CASE b # "SenderLane"
    <3>1. LaneUnused
      BY <1>1, <2>2
    <3>2. UNCHANGED <<lane, due, alias, claims>>
      BY <1>11, <3>1 DEF LaneUnused
    <3>3. x.on = None
      BY <1>9, <1>10, <2>2
    <3> QED
      BY <1>10, <1>11, <3>2, <3>3, SentOnNone
  <2> QED
    BY <2>1, <2>2
<1> DEFINE base == conv[k]
<1>13. Base(k, s, r, base)
  BY <1>2 DEF Base
<1>14. c \in {base, Receive(base, r, Fresh, ReplyEpochFor(s, r))}
  BY PublishedIs
<1>15. x.sources # {} =>
          /\ conv[k] # None
          /\ \A m \in Reached(x.sources) :
                Permits(conv[msg[m].conversation], conv[k].scope)
  BY <1>1, <1>2, <1>10 DEF PoliciesPermit
<1> HIDE DEF c, base
<1> Recorded(k, s, OwnerOf[a])
  BY <1>11, <1>13, <1>14 DEF Recorded
<1>16. x.sources \subseteq Quotable
  BY <1>10
<1>17. \A e \in Directions : request'[e] # None =>
               \/ request'[e] = request[e] /\ began'[e] = began[e]
               \/ Requested(e)'
  BY <1>11
<1> QED
  BY <1>10, <1>11, <1>12, <1>15, <1>16, <1>17, SendStep

LEMMA SendKeeps ==
    ASSUME IInv, NEW s \in Members, NEW a \in AliasIds, NEW k \in Conversations, Send(s, a, k)
    PROVE  IInv'
<1>1. PICK names \in BOOLEAN, sources \in SUBSET Quotable :
         SendDirect(s, a, k, names, sources) \/ SendAnswer(s, a, k, names, sources)
  BY DEF Send
<1>2. /\ CanSend /\ alias[a] # None /\ s # OwnerOf[a]
      /\ conv[k] # None => conv[k].scope = {s, OwnerOf[a]}
  BY DEF Send
<1> QED
  BY <1>1, <1>2, SendDirectStep, SendAnswerStep

LEMMA GivenCounts ==
    ASSUME TypeOK, NEW c, Given(c), UNCHANGED now
    PROVE  CountsType'
<1>1. commands \in Nat /\ commands < MaxCommands /\ MaxCommands \in Nat /\ commands' = commands + 1
  BY CorrespondenceAssumption DEF TypeOK, CountsType, Given
<1>2. commands' \in 0..MaxCommands
  BY <1>1
<1> QED
  BY <1>2 DEF TypeOK, CountsType

LEMMA DirectionFields ==
    ASSUME NEW d \in Directions
    PROVE  d[1] \in Members /\ d[2] \in Members /\ d[1] # d[2] /\ d = <<d[1], d[2]>>
BY CorrespondenceAssumption

LEMMA ApplyFreeKeeps ==
    ASSUME IInv, NEW d \in Directions, ApplyFree(d)
    PROVE  IInv'
<1>1. /\ CanSend
      /\ UNCHANGED <<now, rel, scope, request, began, claims, alias, conv, commands, withdrawn>>
  BY DEF ApplyFree
<1>2. RelType' /\ CountsType' /\ ConvType'
  <2>1. RelType /\ CountsType /\ ConvType
    BY DEF IInv, TypeOK
  <2> QED
    BY <1>1, <2>1 DEF RelType, CountsType, ConvType
<1>3. ConvsKept /\ ConvsLoad' /\ ReceivedStep
  <2>1. ConvsKept /\ ReceivedStep
    BY <1>1 DEF ConvsKept, ReceivedStep
  <2>2. ConvsLoad
    BY DEF IInv, Contents, ConvsLoad
  <2> QED
    BY <1>1, <2>1, <2>2 DEF ConvsLoad
<1>4. \A e \in Directions : request'[e] # None =>
          \/ request'[e] = request[e] /\ began'[e] = began[e]
          \/ Requested(e)'
  BY <1>1
<1>5. ASSUME NEW x \in Delivery, x.conversation = None, x.alias = None, x.sources = {},
             x.at = now, msg' = Append(msg, x), LanesHold', AliasesKept
      PROVE  IInv'
  <2>1. /\ x.conversation # None => conv'[x.conversation] # None
        /\ x.alias # None =>
             /\ alias'[x.alias] # None /\ x.conversation # None
             /\ x.author # OwnerOf[x.alias]
             /\ conv'[x.conversation].scope = {x.author, OwnerOf[x.alias]}
    BY <1>5
  <2>2. /\ x.sources \subseteq Quotable
        /\ x.sources # {} =>
             /\ x.conversation # None /\ conv[x.conversation] # None
             /\ \A m \in Reached(x.sources) :
                   Permits(conv[msg[m].conversation], conv[x.conversation].scope)
    BY <1>5
  <2> QED
    BY <1>1, <1>2, <1>3, <1>4, <1>5, <2>1, <2>2, MessagesStep
<1>6. d[1] \in Members /\ {} \in SUBSET Message /\ FALSE \in BOOLEAN /\ now \in Nat
  BY DirectionFields, CorrespondenceAssumption DEF IInv, TypeOK, CountsType
<1>7. CASE rel[d].state = "Accepted"
  <2> DEFINE x == Delivered(d[1], None, None, "Standing", None, None, {}, FALSE)
  <2>1. lane' = lane /\ due' = due /\ msg' = Append(msg, x)
    BY <1>7 DEF ApplyFree
  <2>2. /\ x \in Delivery /\ x.conversation = None /\ x.alias = None /\ x.sources = {}
        /\ x.at = now /\ x.on = None
    BY <1>6 DEF Delivered, Delivery
  <2> HIDE DEF x
  <2>3. UNCHANGED <<lane, due, alias, claims>>
    BY <1>1, <2>1
  <2>4. LanesHold' /\ AliasesKept
    BY <1>1, <2>1, <2>2, <2>3, SentOnNone
  <2> QED
    BY <1>5, <2>1, <2>2, <2>4
<1>8. CASE rel[d].state # "Accepted"
  <2> DEFINE x == Delivered(d[1], None, None, "SenderLane", None, PairLane(d), {}, FALSE)
             l == Consume(lane[d], Fresh, now)
  <2>1. /\ lane[d] # None /\ CanConsume(lane[d], Fresh, now)
        /\ lane' = [lane EXCEPT ![d] = l]
        /\ due' = [due EXCEPT ![d] = ScheduleChange(lane'[d])]
        /\ msg' = Append(msg, x)
    BY <1>8 DEF ApplyFree
  <2>2. lane'[d] = l
    BY <2>1 DEF IInv, TypeOK, LaneType
  <2>3. LaneWritten(d, Consume(lane[d], Fresh, now))
    BY <1>1, <2>1, <2>2 DEF LaneWritten
  <2>4. PairLane(d) \in LaneUsed
    <3>1. lane[d].grant.version \in Nat
      BY <2>1, PairFields DEF IInv
    <3> QED
      BY <3>1 DEF PairLane, LaneUsed
  <2>5. /\ x \in Delivery /\ x.conversation = None /\ x.alias = None /\ x.sources = {}
        /\ x.at = now /\ x.on = PairLane(d)
    BY <1>6, <2>4 DEF Delivered, Delivery
  <2> HIDE DEF x, l
  <2>6. LanesHold' /\ AliasesKept
    BY <1>1, <2>1, <2>3, <2>5, SentOnPair
  <2> QED
    BY <1>5, <2>1, <2>5, <2>6
<1> QED
  BY <1>7, <1>8

LEMMA SubmitRequestKeeps ==
    ASSUME IInv, NEW d \in Directions, NEW a \in AliasIds, NEW k \in Conversations,
           SubmitRequest(d, a, k)
    PROVE  IInv'
<1> DEFINE base == BegunByRequest({d[1], d[2]})
           c == Receive(base, d[2], Fresh, ReplyEpochFor(d[1], d[2]))
           x == Delivered(d[1], k, a, "Request", None, None, {}, TRUE)
<1>1. /\ CanSend /\ Given("Submit") /\ alias[a] # None /\ OwnerOf[a] = d[2] /\ conv[k] = None
      /\ request' = [request EXCEPT ![d] = a] /\ began' = [began EXCEPT ![d] = k]
      /\ conv' = [conv EXCEPT ![k] = c] /\ msg' = Append(msg, x)
      /\ UNCHANGED <<now, rel, lane, due, scope, claims, alias, withdrawn>>
  BY DEF SubmitRequest
<1>2. d[1] \in Members /\ d[2] \in Members /\ d[1] # d[2]
  BY DirectionFields
<1>3. /\ x \in Delivery /\ x.author = d[1] /\ x.conversation = k /\ x.alias = a
      /\ x.on = None /\ x.at = now /\ x.sources = {}
  <2>1. {} \in SUBSET Message /\ TRUE \in BOOLEAN /\ now \in Nat
    BY CorrespondenceAssumption DEF IInv, TypeOK, CountsType
  <2> QED
    BY <1>2, <2>1 DEF Delivered, Delivery
<1> HIDE DEF x
<1>4. Recorded(k, d[1], OwnerOf[a])
  <2>1. Base(k, d[1], d[2], base)
    BY <1>1 DEF Base
  <2>2. c \in {base, Receive(base, d[2], Fresh, ReplyEpochFor(d[1], d[2]))}
    OBVIOUS
  <2> HIDE DEF base, c
  <2> QED
    BY <1>1, <2>1, <2>2 DEF Recorded
<1> HIDE DEF base, c
<1>5. RelType'
  <2>1. RelType
    BY DEF IInv, TypeOK
  <2> QED
    BY <1>1, <2>1 DEF RelType
<1>6. CountsType'
  BY <1>1, GivenCounts DEF IInv
<1>7. LanesHold' /\ AliasesKept
  <2>1. UNCHANGED <<lane, due, alias, claims>>
    BY <1>1
  <2> QED
    BY <1>1, <1>3, <2>1, SentOnNone
<1>8. conv'[k] # None /\ conv'[k].scope = {d[1], d[2]}
  <2>1. Recorded(k, d[1], d[2])
    BY <1>1, <1>4
  <2> QED
    BY <1>1, <1>2, <2>1, ConversationStep
<1>9. ASSUME NEW e \in Directions, request'[e] # None
      PROVE  \/ request'[e] = request[e] /\ began'[e] = began[e]
             \/ Requested(e)'
  <2>1. CASE e = d
    <3>1. request'[e] = a /\ began'[e] = k
      BY <1>1, <2>1 DEF IInv, TypeOK, RelType
    <3>2. k # None
      BY CorrespondenceAssumption
    <3> QED
      BY <1>1, <1>8, <2>1, <3>1, <3>2 DEF Requested
  <2>2. CASE e # d
    BY <1>1, <2>2 DEF IInv, TypeOK, RelType
  <2> QED
    BY <2>1, <2>2
<1>10. d[1] # OwnerOf[a] /\ x.sources \subseteq Quotable
       /\ (x.sources # {} =>
             /\ conv[k] # None
             /\ \A m \in Reached(x.sources) :
                   Permits(conv[msg[m].conversation], conv[k].scope))
  BY <1>1, <1>2, <1>3
<1> QED
  BY <1>1, <1>2, <1>3, <1>4, <1>5, <1>6, <1>7, <1>9, <1>10, SendStep

LEMMA SendFollowupKeeps ==
    ASSUME IInv, NEW d \in Directions, SendFollowup(d)
    PROVE  IInv'
<1> DEFINE k == began[d]
           a == request[d]
           c == Receive(conv[k], d[2], Fresh, ReplyEpochFor(d[1], d[2]))
           open == ~Restricts(<<d[2], d[1]>>)
           x == Delivered(d[1], k, a, "Followup", None, None, {}, open)
<1>1. /\ CanSend /\ request[d] # None /\ msg' = Append(msg, x)
      /\ UNCHANGED <<now, contact, claims, alias, commands, withdrawn>>
  BY DEF SendFollowup
<1>2. d[1] \in Members /\ d[2] \in Members /\ d[1] # d[2]
  BY DirectionFields
<1>3. /\ alias[a] # None /\ OwnerOf[a] = d[2]
      /\ k # None /\ conv[k] # None /\ conv[k].scope = {d[1], d[2]}
  BY <1>1 DEF IInv, Deliveries
<1>4. a \in AliasIds /\ k \in Conversations
  BY <1>1, <1>3 DEF IInv, TypeOK, RelType
<1>5. conv' = [conv EXCEPT ![k] = c]
  <2>1. conv' = [conv EXCEPT ![k] = Receive(@, d[2], Fresh, ReplyEpochFor(d[1], d[2]))]
    BY DEF SendFollowup
  <2> QED
    BY <2>1
<1>6. /\ x \in Delivery /\ x.author = d[1] /\ x.conversation = k /\ x.alias = a
      /\ x.on = None /\ x.at = now /\ x.sources = {}
  <2>1. {} \in SUBSET Message /\ open \in BOOLEAN /\ now \in Nat
    BY CorrespondenceAssumption DEF IInv, TypeOK, CountsType
  <2> HIDE DEF open, k, a
  <2> QED
    BY <1>2, <1>4, <2>1 DEF Delivered, Delivery
<1> HIDE DEF x
<1>7. Recorded(k, d[1], OwnerOf[a])
  <2> DEFINE base == conv[k]
  <2>1. Base(k, d[1], d[2], base)
    BY <1>3 DEF Base
  <2>2. c \in {base, Receive(base, d[2], Fresh, ReplyEpochFor(d[1], d[2]))}
    OBVIOUS
  <2> HIDE DEF base, c, k, a
  <2> QED
    BY <1>3, <1>5, <2>1, <2>2 DEF Recorded
<1> HIDE DEF c
<1>8. RelType' /\ CountsType'
  <2>1. RelType /\ CountsType
    BY DEF IInv, TypeOK
  <2> QED
    BY <1>1, <2>1 DEF RelType, CountsType, contact
<1>9. LanesHold' /\ AliasesKept
  <2>1. UNCHANGED <<lane, due, alias, claims>>
    BY <1>1 DEF contact
  <2> QED
    BY <1>1, <1>6, <2>1, SentOnNone
<1>10. \A e \in Directions : request'[e] # None =>
           \/ request'[e] = request[e] /\ began'[e] = began[e]
           \/ Requested(e)'
  BY <1>1 DEF contact
<1>11. d[1] # OwnerOf[a] /\ x.sources \subseteq Quotable /\ UNCHANGED <<now, rel, withdrawn>>
       /\ (x.sources # {} =>
             /\ conv[k] # None
             /\ \A m \in Reached(x.sources) :
                   Permits(conv[msg[m].conversation], conv[k].scope))
  BY <1>1, <1>2, <1>3, <1>6 DEF contact
<1> HIDE DEF k, a
<1> QED
  BY <1>1, <1>2, <1>3, <1>4, <1>6, <1>7, <1>8, <1>9, <1>10, <1>11, SendStep

-----------------------------------------------------------------------------
(***************************************************************************)
(* Steps that change conversations only, or the time.                      *)
(***************************************************************************)

ConversationsStep ==
    \A k \in Conversations :
        /\ conv[k] # None =>
             /\ conv'[k] # None /\ conv'[k].scope = conv[k].scope
             /\ conv'[k].received = conv[k].received
             /\ conv[k].relaxed => conv'[k].relaxed
        /\ conv[k] = None /\ conv'[k] # None => \A p \in Members : conv'[k].received[p] = None

LEMMA ConversationsKeep ==
    ASSUME IInv, UNCHANGED <<now, contact, claims, alias, msg, withdrawn>>,
           ConvType', CountsType', ConvsLoad', ConversationsStep
    PROVE  IInv'
<1>0. /\ now' = now /\ rel' = rel /\ lane' = lane /\ due' = due /\ scope' = scope
      /\ request' = request /\ began' = began /\ alias' = alias /\ msg' = msg
      /\ withdrawn' = withdrawn /\ claims' = claims /\ Sent' = Sent
  BY DEF contact, Sent
<1>1. TypeOK'
  <2>1. RelType /\ LaneType /\ AliasType /\ MsgType
    BY DEF IInv, TypeOK
  <2>2. RelType' /\ LaneType' /\ AliasType' /\ MsgType'
    BY <1>0, <2>1 DEF RelType, LaneType, AliasType, MsgType
  <2> QED
    BY <2>2 DEF TypeOK
<1>2. LanesFit' /\ Addresses'
  BY <1>0 DEF IInv, LanesFit, Addresses
<1>3. Allowances'
  <2>1. \A d \in Directions : OnPair(d)' = OnPair(d)
    BY <1>0 DEF OnPair, PairLane
  <2>2. \A a \in AliasIds : \A s : OnAlias(a, s)' = OnAlias(a, s)
    BY <1>0 DEF OnAlias, AliasLane
  <2>3. Allowances
    BY DEF IInv
  <2> QED
    BY <1>0, <2>1, <2>2, <2>3 DEF Allowances
<1>4. Deliveries'
  <2>1. ASSUME NEW m \in Sent
        PROVE  /\ msg[m].at <= now
               /\ msg[m].conversation # None => conv'[msg[m].conversation] # None
               /\ msg[m].alias # None =>
                     /\ alias[msg[m].alias] # None /\ msg[m].conversation # None
                     /\ msg[m].author # OwnerOf[msg[m].alias]
                     /\ conv'[msg[m].conversation].scope = {msg[m].author, OwnerOf[msg[m].alias]}
    <3>1. /\ msg[m].at <= now
          /\ msg[m].conversation # None => conv[msg[m].conversation] # None
          /\ msg[m].alias # None =>
                /\ alias[msg[m].alias] # None /\ msg[m].conversation # None
                /\ msg[m].author # OwnerOf[msg[m].alias]
                /\ conv[msg[m].conversation].scope = {msg[m].author, OwnerOf[msg[m].alias]}
      BY DEF IInv, Deliveries
    <3>2. msg[m].conversation \in Conversations \cup {None}
      BY MessageFacts, DeliveryFields DEF IInv, TypeOK
    <3>3. msg[m].conversation # None =>
             /\ conv'[msg[m].conversation] # None
             /\ conv'[msg[m].conversation].scope = conv[msg[m].conversation].scope
      BY <3>1, <3>2 DEF ConversationsStep
    <3> QED
      BY <3>1, <3>3
  <2>2. ASSUME NEW d \in Directions, request[d] # None
        PROVE  /\ alias[request[d]] # None /\ OwnerOf[request[d]] = d[2]
               /\ began[d] # None /\ conv'[began[d]] # None /\ conv'[began[d]].scope = {d[1], d[2]}
    <3>1. /\ alias[request[d]] # None /\ OwnerOf[request[d]] = d[2]
          /\ began[d] # None /\ conv[began[d]] # None /\ conv[began[d]].scope = {d[1], d[2]}
      BY <2>2 DEF IInv, Deliveries
    <3>2. began[d] \in Conversations
      BY <3>1 DEF IInv, TypeOK, RelType
    <3> QED
      BY <3>1, <3>2 DEF ConversationsStep
  <2> QED
    BY <1>0, <2>1, <2>2 DEF Deliveries
<1>5. Receipts'
  <2>1. Receipts
    BY DEF IInv
  <2>2. ASSUME NEW k \in Conversations, NEW d \in Directions,
               conv'[k] # None, conv'[k].scope = {d[1], d[2]}, conv'[k].received[d[1]] # None
        PROVE  conv[k] # None /\ conv[k].scope = {d[1], d[2]} /\ conv'[k].received = conv[k].received
    BY <2>2, DirectionFields DEF ConversationsStep
  <2> QED
    BY <1>0, <2>1, <2>2 DEF Receipts
<1>6. Contents'
  <2>1. /\ \A m \in Sent : msg[m].sources \subseteq Quotable
        /\ \A m \in Sent : msg[m].sources # {} => msg[m].conversation # None
        /\ RestrictedContentStays
    BY DEF IInv, Contents
  <2>2. Quotable' = Quotable
    BY <1>0 DEF Quotable
  <2>3. ASSUME NEW m \in Sent, NEW n \in Walk(msg, msg[m].sources),
               ~conv'[msg[n].conversation].relaxed
        PROVE  conv'[msg[m].conversation].scope = conv'[msg[n].conversation].scope
    <3>1. /\ n \in Sent /\ msg[n].conversation \in Conversations
          /\ conv[msg[n].conversation] # None
      BY <2>1, ReachedQuotable
    <3>2. msg[m].sources # {}
      BY WalkFromNone
    <3>3. msg[m].conversation \in Conversations /\ conv[msg[m].conversation] # None
      <4>1. msg[m].conversation \in Conversations \cup {None}
        BY MessageFacts, DeliveryFields DEF IInv, TypeOK
      <4> QED
        BY <2>1, <3>2, <4>1 DEF IInv, Deliveries
    <3>4. ~conv[msg[n].conversation].relaxed
      BY <2>3, <3>1 DEF ConversationsStep
    <3>5. n \in Sources(m)
      BY DEF Sources, Reached, Walk, Sent
    <3>6. conv[msg[m].conversation].scope = conv[msg[n].conversation].scope
      BY <2>1, <3>4, <3>5 DEF RestrictedContentStays
    <3> QED
      BY <3>1, <3>3, <3>6 DEF ConversationsStep
  <2>4. RestrictedContentStays'
    BY <1>0, <2>3 DEF RestrictedContentStays, Sources, Reached, Walk, Sent
  <2> QED
    BY <1>0, <2>1, <2>2, <2>4 DEF Contents, ConvsLoad
<1> QED
  BY <1>1, <1>2, <1>3, <1>4, <1>5, <1>6 DEF IInv

LEMMA CreateConversationKeeps ==
    ASSUME IInv, NEW d \in Directions, NEW k \in Conversations, CreateConversation(d, k)
    PROVE  IInv'
<1> DEFINE c == NewConversation({d[1], d[2]})
<1>1. /\ Given("Create") /\ conv[k] = None /\ conv' = [conv EXCEPT ![k] = c]
      /\ UNCHANGED <<now, contact, claims, alias, msg, withdrawn>>
  BY DEF CreateConversation
<1>2. /\ c \in Conversation /\ ConversationLoads(c) /\ (~c.relaxed => c.restricted)
      /\ \A p \in Members : c.received[p] = None
  <2>1. {d[1], d[2]} \in SUBSET Members
    BY DirectionFields
  <2> QED
    BY <2>1, NewConversationLoads
<1> HIDE DEF c
<1>3. conv \in [Conversations -> Conversation \cup {None}] /\ ConvsLoad
  BY DEF IInv, TypeOK, ConvType, Contents, ConvsLoad
<1>4. conv'[k] = c /\ \A j \in Conversations \ {k} : conv'[j] = conv[j]
  BY <1>1, <1>3
<1>5. ConvType'
  BY <1>1, <1>2, <1>3 DEF ConvType
<1>6. ConvsLoad'
  BY <1>2, <1>3, <1>4 DEF ConvsLoad
<1>7. ConversationsStep
  BY <1>1, <1>2, <1>4 DEF ConversationsStep
<1>8. CountsType'
  BY <1>1, GivenCounts DEF IInv
<1> QED
  BY <1>1, <1>5, <1>6, <1>7, <1>8, ConversationsKeep

LEMMA ChangePolicyKeeps ==
    ASSUME IInv, NEW p \in Members, NEW k \in Conversations, ChangePolicy(p, k)
    PROVE  IInv'
<1>1. /\ Given("Policy") /\ conv[k] # None
      /\ UNCHANGED <<now, contact, claims, alias, msg, withdrawn>>
  BY DEF ChangePolicy
<1>2. PICK action \in {"Restrict", "Propose", "Approve"} :
         /\ CanChangePolicy(conv[k], p, action)
         /\ conv' = [conv EXCEPT ![k] = PolicyChanged(@, p, action)]
  BY DEF ChangePolicy
<1>3. conv \in [Conversations -> Conversation \cup {None}] /\ ConvsLoad
  BY DEF IInv, TypeOK, ConvType, Contents, ConvsLoad
<1> DEFINE o == conv[k]
           c == PolicyChanged(o, p, action)
<1>4. o \in Conversation /\ ConversationLoads(o) /\ (~o.relaxed => o.restricted)
  BY <1>1, <1>3 DEF ConvsLoad
<1>5. conv' = [conv EXCEPT ![k] = c] /\ CanChangePolicy(o, p, action)
  BY <1>2
<1>6. conv'[k] = c /\ \A j \in Conversations \ {k} : conv'[j] = conv[j]
  BY <1>3, <1>5
<1> HIDE DEF o
<1>7. /\ c.scope = o.scope /\ c.received = o.received
      /\ c.restricted = (action # "Approve")
      /\ c.proposer = (IF action = "Propose" THEN p ELSE None)
      /\ c.revision = o.revision + 1
      /\ c.relaxed = (o.relaxed \/ action = "Approve")
  BY <1>4 DEF PolicyChanged, Conversation
<1>8. /\ c.scope \in SUBSET Members /\ c.restricted \in BOOLEAN /\ c.relaxed \in BOOLEAN
      /\ c.proposer \in Members \cup {None} /\ c.revision \in Nat /\ c.revision > 0
      /\ c.received \in [Members -> Receipt \cup {None}]
  BY <1>4, <1>7, ConversationFields
<1>9. c \in Conversation
  <2>1. c = [o EXCEPT !.restricted = c.restricted, !.proposer = c.proposer,
                      !.revision = c.revision, !.relaxed = c.relaxed]
    BY <1>7 DEF PolicyChanged
  <2> HIDE DEF c
  <2> QED
    BY <1>4, <1>8, <2>1 DEF Conversation
<1> HIDE DEF c
<1>10. c # None
  BY <1>9, NoneIsAbsence
<1>11. ConversationLoads(c)
  <2>1. p \in o.scope
    BY <1>5 DEF CanChangePolicy
  <2> QED
    BY <1>4, <1>7, <1>8, <2>1 DEF ConversationLoads
<1>12. ~c.relaxed => c.restricted
  BY <1>7
<1>13. c.relaxed = TRUE \/ ~o.relaxed
  BY <1>7
<1>14. ConvType'
  BY <1>3, <1>5, <1>9 DEF ConvType
<1>15. ConvsLoad'
  BY <1>3, <1>6, <1>11, <1>12 DEF ConvsLoad
<1>16. ConversationsStep
  BY <1>1, <1>6, <1>7, <1>10, <1>13 DEF ConversationsStep, o
<1>17. CountsType'
  BY <1>1, GivenCounts DEF IInv
<1> QED
  BY <1>1, <1>14, <1>15, <1>16, <1>17, ConversationsKeep

LEMMA TickKeeps ==
    ASSUME IInv, Tick
    PROVE  IInv'
<1>0. /\ rel' = rel /\ lane' = lane /\ due' = due /\ scope' = scope
      /\ request' = request /\ began' = began /\ alias' = alias /\ msg' = msg /\ conv' = conv
      /\ withdrawn' = withdrawn /\ claims' = claims /\ commands' = commands /\ Sent' = Sent
      /\ now < MaxTime /\ now' = now + 1 /\ now \in Nat /\ MaxTime \in Nat
  BY CorrespondenceAssumption DEF Tick, contact, content, Sent, IInv, TypeOK, CountsType
<1>1. TypeOK'
  <2>1. RelType /\ LaneType /\ AliasType /\ ConvType /\ MsgType /\ CountsType
    BY DEF IInv, TypeOK
  <2>2. RelType' /\ LaneType' /\ AliasType' /\ ConvType' /\ MsgType'
    BY <1>0, <2>1 DEF RelType, LaneType, AliasType, ConvType, MsgType
  <2>3. CountsType'
    BY <1>0, <2>1 DEF CountsType
  <2> QED
    BY <2>2, <2>3 DEF TypeOK
<1>2. LanesFit' /\ Addresses' /\ Receipts'
  BY <1>0 DEF IInv, LanesFit, Addresses, Receipts
<1>3. Allowances'
  <2>1. \A d \in Directions : OnPair(d)' = OnPair(d)
    BY <1>0 DEF OnPair, PairLane
  <2>2. \A a \in AliasIds : \A s : OnAlias(a, s)' = OnAlias(a, s)
    BY <1>0 DEF OnAlias, AliasLane
  <2>3. Allowances
    BY DEF IInv
  <2> QED
    BY <1>0, <2>1, <2>2, <2>3 DEF Allowances
<1>4. Deliveries'
  <2>1. Deliveries
    BY DEF IInv
  <2>2. \A m \in Sent : msg[m].at <= now + 1
    <3> SUFFICES ASSUME NEW m \in Sent PROVE msg[m].at <= now + 1
      OBVIOUS
    <3>1. msg[m].at \in Nat
      BY MessageFacts, DeliveryFields DEF IInv, TypeOK
    <3> QED
      BY <1>0, <2>1, <3>1 DEF Deliveries
  <2> QED
    BY <1>0, <2>1, <2>2 DEF Deliveries
<1>5. Contents'
  <2>1. Contents
    BY DEF IInv
  <2> QED
    BY <1>0, <2>1 DEF Contents, RestrictedContentStays, Sources, Reached, Quotable
<1> QED
  BY <1>1, <1>2, <1>3, <1>4, <1>5 DEF IInv

-----------------------------------------------------------------------------
(***************************************************************************)
(* Lanes of a pair, and the recipient's decisions.                         *)
(***************************************************************************)

LEMMA StoredLane ==
    ASSUME IInv, NEW d \in Directions, lane[d] # None
    PROVE  /\ lane[d] \in SenderScopedLane(Message) /\ LaneLoads(lane[d])
           /\ lane[d].grant.version \in Nat /\ IsFiniteSet(lane[d].admitted) /\ now \in Nat
<1>1. lane[d] \in SenderScopedLane(Message) /\ LaneLoads(lane[d]) /\ lane[d].grant.version \in Nat
  BY PairFields DEF IInv, LanesFit
<1>2. OnPair(d) \in SUBSET Sent
  BY DEF OnPair
<1>3. IsFiniteSet(OnPair(d)) /\ now \in Nat
  BY <1>2, UsedBefore
<1>4. lane[d].admitted = OnPair(d)
  BY DEF IInv, Allowances, Windowed
<1> QED
  BY <1>1, <1>3, <1>4

LEMMA ContactTypes ==
    ASSUME TypeOK, UNCHANGED <<alias, conv, msg>>, RelType', LaneType', CountsType'
    PROVE  TypeOK'
<1>1. AliasType /\ ConvType /\ MsgType
  BY DEF TypeOK
<1>2. AliasType' /\ ConvType' /\ MsgType'
  BY <1>1 DEF AliasType, ConvType, MsgType
<1> QED
  BY <1>2 DEF TypeOK

LEMMA LaneStored ==
    ASSUME TypeOK, NEW d \in Directions, NEW l \in SenderScopedLane(Message), LaneLoads(l),
           NEW h \in Nat \cup {None}, l.state = "Active" => h = l.horizon,
           lane' = [lane EXCEPT ![d] = l], due' = [due EXCEPT ![d] = h],
           claims' \subseteq Directions,
           \/ lane[d] # None /\ SameUse(l, lane[d])
           \/ /\ l.admitted = {} /\ l.count = 0
              /\ lane[d] # None => l.grant.version > lane[d].grant.version
    PROVE  LaneType' /\ \A e \in Directions : LaneStep(e)
<1>1. /\ lane'[d] = l /\ due'[d] = h
      /\ \A e \in Directions \ {d} : lane'[e] = lane[e] /\ due'[e] = due[e]
  BY DEF TypeOK, LaneType
<1>2. l # None
  BY NoneIsAbsence
<1>3. LaneType'
  BY DEF TypeOK, LaneType
<1>4. LaneMoved(d) \/ LaneGranted(d)
  BY <1>1, <1>2 DEF LaneMoved, LaneGranted
<1>5. ASSUME NEW e \in Directions PROVE LaneStep(e)
  <2>1. CASE e = d
    BY <1>1, <1>4, <2>1 DEF LaneStep
  <2>2. CASE e # d
    BY <1>1, <2>2 DEF LaneStep
  <2> QED
    BY <2>1, <2>2
<1> QED
  BY <1>3, <1>5

LEMMA LanesAlone ==
    ASSUME TypeOK, UNCHANGED <<lane, due>>, claims' \subseteq Directions
    PROVE  LaneType' /\ \A e \in Directions : LaneStep(e)
<1>1. LaneType'
  BY DEF TypeOK, LaneType
<1>2. \A e \in Directions : LaneStep(e)
  BY DEF LaneStep
<1> QED
  BY <1>1, <1>2

\* A change of a relationship that starts no epoch.
LEMMA RelationshipStored ==
    ASSUME TypeOK, NEW d \in Directions, NEW state \in RelationshipState,
           rel' = [rel EXCEPT ![d].state = state, ![d].version = @ + 1], UNCHANGED withdrawn
    PROVE  /\ rel' \in [Directions -> Relationship] /\ rel'[d].version \in Nat
           /\ \A e \in Directions : EpochStep(e)
<1>1. rel \in [Directions -> Relationship]
  BY DEF TypeOK, RelType
<1> DEFINE new == [rel[d] EXCEPT !.state = state, !.version = @ + 1]
<1>2. rel[d].version + 1 \in Nat
  BY <1>1 DEF Relationship
<1>3. new \in Relationship /\ new.epoch = rel[d].epoch /\ new.version \in Nat
  BY <1>1, <1>2 DEF Relationship
<1>4. rel' = [rel EXCEPT ![d] = new]
  BY <1>1
<1> HIDE DEF new
<1>5. \A e \in Directions : rel'[e].epoch = rel[e].epoch
  BY <1>1, <1>3, <1>4
<1> QED
  BY <1>1, <1>3, <1>4, <1>5 DEF EpochStep

LEMMA RelationshipAlone ==
    ASSUME TypeOK, UNCHANGED <<rel, withdrawn>>
    PROVE  rel' \in [Directions -> Relationship] /\ \A e \in Directions : EpochStep(e)
BY DEF TypeOK, RelType, EpochStep

LEMMA ScopeStored ==
    ASSUME TypeOK, NEW d \in Directions, NEW renews, NEW v \in Nat \cup {None},
           AcceptanceScope(d, renews, v), rel'[d].version \in Nat
    PROVE  scope' \in [Directions -> AliasScope \cup {None}]
<1>1. /\ scope \in [Directions -> AliasScope \cup {None}]
      /\ request[d] \in AliasIds \cup {None}
  BY DEF TypeOK, RelType
<1>2. CASE request[d] # None
  BY <1>1, <1>2 DEF AcceptanceScope, AliasScope
<1>3. CASE request[d] = None /\ renews /\ scope[d] # None
  BY <1>1, <1>3 DEF AcceptanceScope, AliasScope
<1>4. CASE request[d] = None /\ ~(renews /\ scope[d] # None)
  BY <1>1, <1>4 DEF AcceptanceScope
<1> QED
  BY <1>2, <1>3, <1>4

LEMMA GrantsAre ==
    ASSUME now \in Nat, NEW v \in Nat, NEW g \in Grants(v)
    PROVE  g \in SenderScopedGrant /\ g.version = v
<1>1. PICK mode \in Modes, age \in {t \in Ages : t <= now}, wait \in Waits :
         g = [mode |-> mode, issued |-> now - age, before |-> now - age + wait,
              after |-> now - age + Validity, lifetime |-> Lifetime, limit |-> Limit,
              interval |-> Interval, version |-> v]
  BY DEF Grants
<1>2. /\ mode \in LaneMode /\ age \in Nat /\ age <= now /\ wait \in Nat
      /\ Validity \in Nat /\ Lifetime \in Nat /\ Limit \in Nat /\ Interval \in Nat
  BY CorrespondenceAssumption
<1>3. now - age \in Nat /\ now - age + wait \in Nat /\ now - age + Validity \in Nat
  BY <1>2
<1> QED
  BY <1>1, <1>2, <1>3 DEF SenderScopedGrant

LEMMA ApplyGrantKeeps ==
    ASSUME IInv, NEW d \in Directions, ApplyGrant(d)
    PROVE  IInv'
<1>1. /\ Given("Grant") /\ request' = [request EXCEPT ![d] = None]
      /\ UNCHANGED <<now, began, claims, alias, content, withdrawn>>
  BY DEF ApplyGrant
<1>2. PICK g \in Grants(NextGrantVersion(d)) :
         /\ LaneAccepted(d, g)
         /\ AcceptanceScope(d, TRUE, g.version)
         /\ due' = [due EXCEPT ![d] = ScheduleChange(FromGrant(g))]
  BY DEF ApplyGrant
<1>3. now \in Nat /\ claims' \subseteq Directions
  BY <1>1, CorrespondenceAssumption DEF IInv, TypeOK, CountsType, LaneType
<1>4. NextGrantVersion(d) \in Nat /\ (lane[d] # None => NextGrantVersion(d) > lane[d].grant.version)
  <2>1. lane[d] # None => lane[d].grant.version \in Nat
    BY StoredLane
  <2> QED
    BY <2>1 DEF NextGrantVersion
<1>5. g \in SenderScopedGrant /\ g.version = NextGrantVersion(d)
  BY <1>3, <1>4, GrantsAre
<1>6. /\ ValidGrant(g) /\ lane' = [lane EXCEPT ![d] = FromGrant(g)]
      /\ rel' = [rel EXCEPT ![d].state = "ExpressLane", ![d].version = @ + 1]
  BY <1>2 DEF LaneAccepted
<1> DEFINE l == FromGrant(g)
<1>7. /\ l \in SenderScopedLane(Message) /\ LaneLoads(l) /\ l.state = "Active"
      /\ l.admitted = {} /\ l.count = 0 /\ l.grant = g
  BY <1>5, <1>6, GrantLoads
<1>8. l.horizon \in Nat
  BY <1>7, LaneFields
<1> HIDE DEF l
<1>9. LaneType' /\ \A e \in Directions : LaneStep(e)
  <2>1. lane' = [lane EXCEPT ![d] = l] /\ due' = [due EXCEPT ![d] = l.horizon]
    BY <1>2, <1>6 DEF l, ScheduleChange
  <2>2. lane[d] # None => l.grant.version > lane[d].grant.version
    BY <1>4, <1>5, <1>7
  <2> QED
    BY <1>3, <1>7, <1>8, <2>1, <2>2, LaneStored DEF IInv
<1>10. /\ rel' \in [Directions -> Relationship] /\ rel'[d].version \in Nat
       /\ \A e \in Directions : EpochStep(e)
  <2>1. "ExpressLane" \in RelationshipState /\ withdrawn' = withdrawn
    BY <1>1 DEF RelationshipState
  <2> QED
    BY <1>6, <2>1, RelationshipStored DEF IInv
<1>11. scope' \in [Directions -> AliasScope \cup {None}]
  <2>1. g.version \in Nat \cup {None} /\ AcceptanceScope(d, TRUE, g.version)
    BY <1>2, <1>4, <1>5
  <2> QED
    BY <1>10, <2>1, ScopeStored DEF IInv
<1>12. RelType'
  BY <1>1, <1>10, <1>11 DEF IInv, TypeOK, RelType
<1>13. CountsType'
  BY <1>1, GivenCounts DEF IInv
<1>14. \A e \in Directions : request'[e] \in {request[e], None}
  BY <1>1 DEF IInv, TypeOK, RelType
<1>15. UNCHANGED <<now, began, alias, conv, msg>>
  BY <1>1 DEF content
<1>16. TypeOK'
  BY <1>9, <1>12, <1>13, <1>15, ContactTypes DEF IInv
<1> QED
  BY <1>9, <1>10, <1>14, <1>15, <1>16, ContactStep

\* The actions that change a lane and no relationship.
LEMMA LaneKeeps ==
    ASSUME IInv, LaneType', \A e \in Directions : LaneStep(e), CountsType',
           UNCHANGED <<now, rel, scope, request, began, alias, content, withdrawn>>
    PROVE  IInv'
<1>1. \A e \in Directions : EpochStep(e)
  BY DEF EpochStep
<1>2. RelType'
  BY DEF IInv, TypeOK, RelType
<1>3. UNCHANGED <<now, began, alias, conv, msg>>
  BY DEF content
<1>4. TypeOK'
  BY <1>2, <1>3, ContactTypes DEF IInv
<1>5. \A e \in Directions : request'[e] \in {request[e], None}
  OBVIOUS
<1> QED
  BY <1>1, <1>3, <1>4, <1>5, ContactStep

LEMMA ReconfirmLaneKeeps ==
    ASSUME IInv, NEW d \in Directions, ReconfirmLane(d)
    PROVE  IInv'
<1> DEFINE l == Reconfirm(lane[d], now)
<1>1. /\ Given("Control") /\ lane[d] # None /\ CanReconfirm(lane[d], now)
      /\ lane' = [lane EXCEPT ![d] = l]
      /\ due' = [due EXCEPT ![d] = ScheduleChange(lane'[d])]
      /\ UNCHANGED <<now, rel, scope, request, began, claims, alias, content, withdrawn>>
  BY DEF ReconfirmLane
<1>2. lane \in [Directions -> SenderScopedLane(Message) \cup {None}] /\ claims' \subseteq Directions
  BY <1>1 DEF IInv, TypeOK, LaneType
<1>3. /\ lane[d] \in SenderScopedLane(Message) /\ LaneLoads(lane[d])
      /\ IsFiniteSet(lane[d].admitted) /\ now \in Nat
  BY <1>1, StoredLane
<1>4. l \in SenderScopedLane(Message) /\ LaneLoads(l) /\ SameUse(l, lane[d])
  BY <1>1, <1>3, ReconfirmLoads
<1>5. due' = [due EXCEPT ![d] = l.horizon] /\ l.horizon \in Nat
  BY <1>1, <1>2, <1>4, LaneFields DEF ScheduleChange
<1> HIDE DEF l
<1>6. LaneType' /\ \A e \in Directions : LaneStep(e)
  BY <1>1, <1>2, <1>4, <1>5, LaneStored DEF IInv
<1>7. CountsType'
  BY <1>1, GivenCounts DEF IInv
<1> QED
  BY <1>1, <1>6, <1>7, LaneKeeps

LEMMA ControlRevokeKeeps ==
    ASSUME IInv, NEW d \in Directions, ControlRevoke(d)
    PROVE  IInv'
<1> DEFINE l == RevokeLane(lane[d])
<1>1. /\ Given("Control") /\ lane[d] # None
      /\ lane' = [lane EXCEPT ![d] = l] /\ due' = [due EXCEPT ![d] = None]
      /\ UNCHANGED <<now, rel, scope, request, began, claims, alias, content, withdrawn>>
  BY DEF ControlRevoke
<1>2. claims' \subseteq Directions
  BY <1>1 DEF IInv, TypeOK, LaneType
<1>3. /\ lane[d] \in SenderScopedLane(Message) /\ LaneLoads(lane[d]) /\ IsFiniteSet(lane[d].admitted)
  BY <1>1, StoredLane
<1>4. /\ l \in SenderScopedLane(Message) /\ LaneLoads(l)
      /\ l.state = "Revoked" /\ SameUse(l, lane[d])
  BY <1>3, RevokeLoads
<1> HIDE DEF l
<1>5. LaneType' /\ \A e \in Directions : LaneStep(e)
  BY <1>1, <1>2, <1>4, LaneStored DEF IInv
<1>6. CountsType'
  BY <1>1, GivenCounts DEF IInv
<1> QED
  BY <1>1, <1>5, <1>6, LaneKeeps

LEMMA ClaimScheduleKeeps ==
    ASSUME IInv, NEW d \in Directions, ClaimSchedule(d)
    PROVE  IInv'
<1>1. /\ claims' = claims \cup {d}
      /\ UNCHANGED <<now, rel, lane, due, scope, request, began, alias, content, commands, withdrawn>>
  BY DEF ClaimSchedule, contact
<1>2. claims' \subseteq Directions /\ CountsType'
  BY <1>1 DEF IInv, TypeOK, LaneType, CountsType
<1>3. LaneType' /\ \A e \in Directions : LaneStep(e)
  BY <1>1, <1>2, LanesAlone DEF IInv
<1> QED
  BY <1>1, <1>2, <1>3, LaneKeeps

LEMMA LaneHorizonKeeps ==
    ASSUME IInv, NEW d \in Directions, LaneHorizon(d)
    PROVE  IInv'
<1>1. /\ claims' = claims \ {d}
      /\ UNCHANGED <<now, rel, scope, request, began, alias, content, commands, withdrawn>>
  BY DEF LaneHorizon
<1>2. /\ claims' \subseteq Directions /\ CountsType'
      /\ lane \in [Directions -> SenderScopedLane(Message) \cup {None}]
      /\ due \in [Directions -> Nat \cup {None}]
  BY <1>1 DEF IInv, TypeOK, LaneType, CountsType
<1>3. LaneType' /\ \A e \in Directions : LaneStep(e)
  <2>1. CASE lane[d] = None
    <3>1. lane' = lane /\ due' = [due EXCEPT ![d] = None]
      BY <2>1 DEF LaneHorizon
    <3>2. LaneType'
      BY <1>2, <3>1 DEF LaneType
    <3>3. \A e \in Directions : LaneStep(e)
      BY <1>2, <2>1, <3>1 DEF LaneStep
    <3> QED
      BY <3>2, <3>3
  <2>2. CASE lane[d] # None
    <3> DEFINE o == lane[d]
    <3>1. /\ o \in SenderScopedLane(Message) /\ LaneLoads(o) /\ IsFiniteSet(o.admitted) /\ now \in Nat
      BY <2>2, StoredLane
    <3>2. o.horizon \in Nat
      BY <3>1, LaneFields
    <3>3. SameUse(o, o)
      BY DEF SameUse
    <3>4. CASE o.state = "Revoked"
      <4>1. lane' = [lane EXCEPT ![d] = o] /\ due' = [due EXCEPT ![d] = None]
        BY <1>2, <3>4 DEF LaneHorizon
      <4> HIDE DEF o
      <4>2. lane[d] # None /\ SameUse(o, lane[d]) /\ (o.state = "Active" => None = o.horizon)
        BY <2>2, <3>3, <3>4 DEF o
      <4> QED
        BY <1>2, <3>1, <4>1, <4>2, LaneStored DEF IInv
    <3>5. CASE o.state # "Revoked" /\ HorizonDue(o, now)
      <4> DEFINE l == ReachHorizon(o, now)
                 h == IF l.state = "Active" THEN l.horizon ELSE None
      <4>1. lane' = [lane EXCEPT ![d] = l]
        BY <2>2, <3>5 DEF LaneHorizon
      <4>2. due' = [due EXCEPT ![d] = h]
        BY <1>2, <2>2, <3>5, <4>1 DEF LaneHorizon, ScheduleChange
      <4>3. /\ l \in SenderScopedLane(Message) /\ LaneLoads(l) /\ SameUse(l, o)
        BY <3>1, <3>5, HorizonLoads
      <4>4. h \in Nat \cup {None}
        BY <4>3, LaneFields
      <4>5. l.state = "Active" => h = l.horizon
        OBVIOUS
      <4> HIDE DEF l, h
      <4> QED
        BY <1>2, <2>2, <4>1, <4>2, <4>3, <4>4, <4>5, LaneStored DEF IInv
    <3>6. CASE o.state # "Revoked" /\ ~HorizonDue(o, now)
      <4>1. lane' = [lane EXCEPT ![d] = o] /\ due' = [due EXCEPT ![d] = o.horizon]
        BY <1>2, <2>2, <3>6 DEF LaneHorizon, ScheduleChange
      <4> HIDE DEF o
      <4>2. lane[d] # None /\ SameUse(o, lane[d])
        BY <2>2, <3>3 DEF o
      <4> QED
        BY <1>2, <3>1, <3>2, <4>1, <4>2, LaneStored DEF IInv
    <3> QED
      BY <3>4, <3>5, <3>6
  <2> QED
    BY <2>1, <2>2
<1> QED
  BY <1>1, <1>2, <1>3, LaneKeeps

LEMMA Terminated ==
    ASSUME IInv, NEW d \in Directions, NEW state \in RelationshipState, TerminateLane(d, state),
           UNCHANGED claims, withdrawn' = [withdrawn EXCEPT ![d] = Sent]
    PROVE  /\ LaneType' /\ \A e \in Directions : LaneStep(e) /\ EpochStep(e)
           /\ rel' \in [Directions -> Relationship]
           /\ withdrawn' \in [Directions -> SUBSET Message]
<1>1. /\ rel \in [Directions -> Relationship] /\ withdrawn \in [Directions -> SUBSET Message]
      /\ lane \in [Directions -> SenderScopedLane(Message) \cup {None}]
      /\ due \in [Directions -> Nat \cup {None}] /\ claims' \subseteq Directions
  BY DEF IInv, TypeOK, RelType, LaneType
<1> DEFINE h == IF lane[d] = None \/ lane[d].state = "Revoked" THEN due[d] ELSE None
           new == [state |-> state, version |-> rel[d].version + 1, epoch |-> rel[d].epoch + 1]
<1>2. due' = [due EXCEPT ![d] = h]
  BY DEF TerminateLane
<1>3. rel' = [rel EXCEPT ![d] = new]
  BY DEF TerminateLane
<1>4. LaneType' /\ \A e \in Directions : LaneStep(e)
  <2>1. CASE lane[d] = None
    <3>1. lane' = lane /\ due' = due
      BY <1>1, <1>2, <2>1 DEF TerminateLane
    <3> QED
      BY <1>1, <3>1, LanesAlone DEF IInv
  <2>2. CASE lane[d] # None
    <3> DEFINE l == RevokeLane(lane[d])
    <3>1. lane' = [lane EXCEPT ![d] = l]
      BY <2>2 DEF TerminateLane
    <3>2. /\ lane[d] \in SenderScopedLane(Message) /\ LaneLoads(lane[d]) /\ IsFiniteSet(lane[d].admitted)
      BY <2>2, StoredLane
    <3>3. /\ l \in SenderScopedLane(Message) /\ LaneLoads(l)
          /\ l.state = "Revoked" /\ SameUse(l, lane[d])
      BY <3>2, RevokeLoads
    <3>4. h \in Nat \cup {None}
      BY <1>1
    <3> HIDE DEF l, h
    <3>5. l.state = "Active" => h = l.horizon
      BY <3>3
    <3> QED
      BY <1>1, <1>2, <2>2, <3>1, <3>3, <3>4, <3>5, LaneStored DEF IInv
  <2> QED
    BY <2>1, <2>2
<1>5. rel[d].version + 1 \in Nat /\ rel[d].epoch + 1 \in Nat /\ rel[d].epoch + 1 > rel[d].epoch
  BY <1>1 DEF Relationship
<1>6. new \in Relationship /\ new.epoch > rel[d].epoch
  BY <1>5 DEF Relationship
<1> HIDE DEF new
<1>7. rel' \in [Directions -> Relationship]
  BY <1>1, <1>3, <1>6
<1>8. Sent \subseteq Message
  BY MessageFacts DEF IInv, TypeOK
<1>9. ASSUME NEW e \in Directions PROVE EpochStep(e)
  <2>1. CASE e = d
    BY <1>1, <1>3, <1>6, <2>1 DEF EpochStep
  <2>2. CASE e # d
    BY <1>1, <1>3, <2>2 DEF EpochStep
  <2> QED
    BY <2>1, <2>2
<1> QED
  BY <1>1, <1>4, <1>7, <1>8, <1>9

LEMMA BlockKeeps ==
    ASSUME IInv, NEW d \in Directions, Block(d) \/ Revoke(d)
    PROVE  IInv'
<1>1. /\ UNCHANGED <<now, scope, began, claims, alias, conv, msg>>
      /\ withdrawn' = [withdrawn EXCEPT ![d] = Sent]
      /\ \E state \in RelationshipState : TerminateLane(d, state)
      /\ request' = [request EXCEPT ![d] = None] \/ request' = request
      /\ \E c : Given(c)
  <2>1. CASE Block(d)
    BY <2>1 DEF Block, content, RelationshipState
  <2>2. CASE Revoke(d)
    BY <2>2 DEF Revoke, content, RelationshipState
  <2> QED
    BY <2>1, <2>2
<1>2. PICK state \in RelationshipState : TerminateLane(d, state)
  BY <1>1
<1>3. PICK c : Given(c)
  BY <1>1
<1>4. /\ LaneType' /\ \A e \in Directions : LaneStep(e) /\ EpochStep(e)
      /\ rel' \in [Directions -> Relationship]
      /\ withdrawn' \in [Directions -> SUBSET Message]
  BY <1>1, <1>2, Terminated
<1>5. RelType'
  BY <1>1, <1>4 DEF IInv, TypeOK, RelType
<1>6. CountsType'
  BY <1>1, <1>3, GivenCounts DEF IInv
<1>7. \A e \in Directions : request'[e] \in {request[e], None}
  BY <1>1 DEF IInv, TypeOK, RelType
<1>8. TypeOK'
  BY <1>1, <1>4, <1>5, <1>6, ContactTypes DEF IInv
<1> QED
  BY <1>1, <1>4, <1>7, <1>8, ContactStep

\* The decisions that leave the lane alone.
LEMMA DecisionKeeps ==
    ASSUME IInv, NEW c, Given(c), UNCHANGED <<now, lane, due, began, claims, alias, content, withdrawn>>,
           rel' \in [Directions -> Relationship], \A e \in Directions : EpochStep(e),
           scope' \in [Directions -> AliasScope \cup {None}],
           NEW d \in Directions, request' = request \/ request' = [request EXCEPT ![d] = None]
    PROVE  IInv'
<1>1. claims' \subseteq Directions
  BY DEF IInv, TypeOK, LaneType
<1>2. LaneType' /\ \A e \in Directions : LaneStep(e)
  BY <1>1, LanesAlone DEF IInv
<1>3. RelType'
  BY DEF IInv, TypeOK, RelType
<1>4. CountsType'
  BY GivenCounts DEF IInv
<1>5. UNCHANGED <<now, began, alias, conv, msg>>
  BY DEF content
<1>6. \A e \in Directions : request'[e] \in {request[e], None}
  BY DEF IInv, TypeOK, RelType
<1>7. TypeOK'
  BY <1>2, <1>3, <1>4, <1>5, ContactTypes DEF IInv
<1> QED
  BY <1>2, <1>5, <1>6, <1>7, ContactStep

LEMMA UnblockKeeps ==
    ASSUME IInv, NEW d \in Directions, Unblock(d) \/ Reject(d) \/ RequestExpires(d) \/ ScopeSender(d)
    PROVE  IInv'
<1>0. scope \in [Directions -> AliasScope \cup {None}] /\ rel \in [Directions -> Relationship]
  BY DEF IInv, TypeOK, RelType
<1>1. CASE Unblock(d)
  <2>1. /\ rel' = [rel EXCEPT ![d].state = "Rejected", ![d].version = @ + 1] /\ Given("Unblock")
        /\ UNCHANGED <<now, lane, due, began, claims, alias, content, withdrawn>>
        /\ scope' = scope /\ request' = request /\ "Rejected" \in RelationshipState
    BY <1>1 DEF Unblock, RelationshipState
  <2>2. rel' \in [Directions -> Relationship] /\ \A e \in Directions : EpochStep(e)
    BY <2>1, RelationshipStored DEF IInv
  <2> QED
    BY <1>0, <2>1, <2>2, DecisionKeeps
<1>2. CASE Reject(d)
  <2>1. /\ rel' = [rel EXCEPT ![d].state = "Rejected", ![d].version = @ + 1] /\ Given("Reject")
        /\ UNCHANGED <<now, lane, due, began, claims, alias, content, withdrawn>>
        /\ scope' = scope /\ request' = [request EXCEPT ![d] = None]
        /\ "Rejected" \in RelationshipState
    BY <1>2 DEF Reject, RelationshipState
  <2>2. rel' \in [Directions -> Relationship] /\ \A e \in Directions : EpochStep(e)
    BY <2>1, RelationshipStored DEF IInv
  <2> QED
    BY <1>0, <2>1, <2>2, DecisionKeeps
<1>3. CASE RequestExpires(d)
  <2>1. /\ rel' = rel /\ Given("Expire")
        /\ UNCHANGED <<now, lane, due, began, claims, alias, content, withdrawn>>
        /\ scope' = scope /\ request' = [request EXCEPT ![d] = None]
    BY <1>3 DEF RequestExpires
  <2>2. rel' \in [Directions -> Relationship] /\ \A e \in Directions : EpochStep(e)
    BY <2>1, RelationshipAlone DEF IInv
  <2> QED
    BY <1>0, <2>1, <2>2, DecisionKeeps
<1>4. CASE ScopeSender(d)
  <2>1. /\ rel' = rel /\ Given("Scope")
        /\ UNCHANGED <<now, lane, due, began, claims, alias, content, withdrawn>>
        /\ request' = request
        /\ rel[d].state = "Accepted" \/ lane[d] # None
    BY <1>4 DEF ScopeSender
  <2>2. PICK as \in SUBSET AliasIds :
          scope' = [scope EXCEPT ![d] =
             [aliases |-> as, version |-> rel[d].version,
              lane |-> IF rel[d].state = "Accepted" THEN None ELSE lane[d].grant.version]]
    BY <1>4 DEF ScopeSender
  <2>3. rel[d].version \in Nat
    BY <1>0 DEF Relationship
  <2>4. rel[d].state # "Accepted" => lane[d].grant.version \in Nat
    BY <2>1, StoredLane
  <2>5. [aliases |-> as, version |-> rel[d].version,
         lane |-> IF rel[d].state = "Accepted" THEN None ELSE lane[d].grant.version] \in AliasScope
    BY <2>3, <2>4 DEF AliasScope
  <2>6. scope' \in [Directions -> AliasScope \cup {None}]
    BY <1>0, <2>2, <2>5
  <2>7. rel' \in [Directions -> Relationship] /\ \A e \in Directions : EpochStep(e)
    BY <2>1, RelationshipAlone DEF IInv
  <2> QED
    BY <2>1, <2>6, <2>7, DecisionKeeps
<1> QED
  BY <1>1, <1>2, <1>3, <1>4

LEMMA AcceptKeeps ==
    ASSUME IInv, NEW d \in Directions, Accept(d)
    PROVE  IInv'
<1>1. /\ rel' = [rel EXCEPT ![d].state = "Accepted", ![d].version = @ + 1] /\ Given("Accept")
      /\ AcceptanceScope(d, rel[d].state # "Accepted", None)
      /\ UNCHANGED <<now, lane, due, began, claims, alias, content, withdrawn>>
      /\ request' = [request EXCEPT ![d] = None] /\ "Accepted" \in RelationshipState
  BY DEF Accept, RelationshipState
<1>2. /\ rel' \in [Directions -> Relationship] /\ rel'[d].version \in Nat
      /\ \A e \in Directions : EpochStep(e)
  BY <1>1, RelationshipStored DEF IInv
<1>3. scope' \in [Directions -> AliasScope \cup {None}]
  <2> DEFINE renews == rel[d].state # "Accepted"
  <2>1. AcceptanceScope(d, renews, None)
    BY <1>1
  <2> HIDE DEF renews
  <2> QED
    BY <1>2, <2>1, ScopeStored DEF IInv
<1> QED
  BY <1>1, <1>2, <1>3, DecisionKeeps

-----------------------------------------------------------------------------
(***************************************************************************)
(* Commands on an address.                                                 *)
(***************************************************************************)

Traced(a, entries) ==
    \A e \in entries : \E n \in Sent : /\ msg[n].alias = a /\ msg[n].author = e.sender
                                       /\ msg[n].conversation = e.conversation

\* what a command may store for the address x
AddressFits(x, r) ==
    /\ r \in Alias /\ AliasLoads(x, r) /\ IsFiniteSet(r.approvals) /\ Traced(x, r.existing)
    /\ r.life = "Active" => r.approvals = {}
    /\ r.permission.state # "Senders" => r.permission.lanes = {}
    /\ alias[x] = None => r.permission.lanes = {}
    /\ alias[x] # None =>
         \/ r.permission = alias[x].permission
         \/ /\ r.permission.revision > alias[x].permission.revision
            /\ \A p \in r.permission.lanes : p.lane.admitted = {} /\ p.lane.count = 0

LEMMA AddressesKeep ==
    ASSUME IInv, NEW c, AliasCommand(c), NEW new \in [AliasIds -> Alias \cup {None}], alias' = new,
           \A x \in AliasIds : new[x] = alias[x] \/ AddressFits(x, new[x])
    PROVE  IInv'
<1>1. /\ Given(c) /\ UNCHANGED <<now, contact, claims, content, withdrawn>>
  BY DEF AliasCommand
<1>2. Sent' = Sent /\ msg' = msg
  BY <1>1 DEF Sent, content
<1>3. TypeOK'
  <2>1. RelType /\ LaneType /\ ConvType /\ MsgType
    BY DEF IInv, TypeOK
  <2>2. RelType' /\ LaneType' /\ ConvType' /\ MsgType'
    BY <1>1, <2>1 DEF RelType, LaneType, ConvType, MsgType, contact, content
  <2>3. CountsType'
    BY <1>1, GivenCounts DEF IInv
  <2>4. AliasType'
    BY DEF AliasType
  <2> QED
    BY <2>2, <2>3, <2>4 DEF TypeOK
<1>4. Addresses'
  <2> SUFFICES ASSUME NEW x \in AliasIds, new[x] # None
               PROVE  /\ AliasLoads(x, new[x]) /\ IsFiniteSet(new[x].approvals)
                      /\ new[x].life = "Active" => new[x].approvals = {}
                      /\ new[x].permission.state # "Senders" => new[x].permission.lanes = {}
                      /\ Traced(x, new[x].existing)
    BY <1>2 DEF Addresses, Traced
  <2>1. CASE new[x] = alias[x]
    BY <2>1 DEF IInv, Addresses, Traced
  <2>2. CASE AddressFits(x, new[x])
    BY <2>2 DEF AddressFits
  <2> QED
    BY <2>1, <2>2
<1>5. ASSUME NEW x \in AliasIds PROVE AliasStep(x)
  <2>1. CASE new[x] = alias[x]
    BY <2>1 DEF AliasStep
  <2>2. CASE AddressFits(x, new[x])
    <3>1. new[x] # None
      BY <2>2, NoneIsAbsence DEF AddressFits
    <3> QED
      BY <2>2, <3>1 DEF AddressFits, AliasStep
  <2> QED
    BY <2>1, <2>2
<1>6. UNCHANGED <<now, contact, content, withdrawn>>
  BY <1>1
<1> QED
  BY <1>3, <1>4, <1>5, <1>6, AliasesStep

LEMMA AddressKeeps ==
    ASSUME IInv, NEW c, AliasCommand(c), NEW a \in AliasIds, NEW r, AddressFits(a, r),
           alias' = [alias EXCEPT ![a] = r]
    PROVE  IInv'
<1>1. alias \in [AliasIds -> Alias \cup {None}]
  BY DEF IInv, TypeOK, AliasType
<1>2. r \in Alias
  BY DEF AddressFits
<1> DEFINE new == [alias EXCEPT ![a] = r]
<1>3. /\ new \in [AliasIds -> Alias \cup {None}]
      /\ \A x \in AliasIds : new[x] = alias[x] \/ AddressFits(x, new[x])
  BY <1>1, <1>2
<1>4. alias' = new
  OBVIOUS
<1> HIDE DEF new
<1> QED
  BY <1>3, <1>4, AddressesKeep

LEMMA AliasFacts ==
    ASSUME IInv, NEW a \in AliasIds, alias[a] # None
    PROVE  /\ alias[a] \in Alias /\ AliasLoads(a, alias[a]) /\ IsFiniteSet(alias[a].approvals)
           /\ alias[a].life = "Active" => alias[a].approvals = {}
           /\ alias[a].permission.state # "Senders" => alias[a].permission.lanes = {}
           /\ Traced(a, alias[a].existing)
BY DEF IInv, TypeOK, AliasType, Addresses, Traced

LEMMA EntryFields ==
    ASSUME NEW e \in Entry
    PROVE  e.conversation \in Conversations /\ e.sender \in Members /\ e.at \in Nat
BY DEF Entry

LEMMA NowIs ==
    ASSUME IInv
    PROVE  now \in Nat
BY CorrespondenceAssumption DEF IInv, TypeOK, CountsType

LEMMA NoEntries ==
    OneEntryEach({})
<1>1. ConversationsIn({}) = {}
  BY DEF ConversationsIn
<1> QED
  BY <1>1 DEF OneEntryEach

-----------------------------------------------------------------------------
\* The deliveries to an address: one sender for each conversation.

LEMMA OneEntry ==
    ASSUME NEW E, IsFiniteSet(E), \A e, f \in E : e.conversation = f.conversation => e = f
    PROVE  OneEntryEach(E)
<1> DEFINE g == [e \in E |-> e.conversation]
           K == ConversationsIn(E)
<1>1. g \in [E -> K] /\ \A k \in K : \E e \in E : g[e] = k
  BY DEF ConversationsIn
<1>2. g \in Surjection(E, K)
  BY <1>1 DEF Surjection
<1>3. g \in Injection(E, K)
  BY <1>1 DEF Injection, IsInjective
<1> HIDE DEF g, K
<1>4. Cardinality(K) = Cardinality(E) <=> g \in Injection(E, K)
  BY <1>2, FS_Surjection
<1> QED
  BY <1>3, <1>4 DEF OneEntryEach, K

LEMMA AdmittedAre ==
    ASSUME IInv, NEW a \in AliasIds
    PROVE  /\ AdmittedConversations(a) \in SUBSET Entry /\ Traced(a, AdmittedConversations(a))
           /\ OneEntryEach(AdmittedConversations(a))
           /\ \A e \in AdmittedConversations(a) : e.sender # OwnerOf[a] /\ e.at <= now
<1> DEFINE delivered == {m \in Sent : msg[m].alias = a}
           first == {m \in delivered : \A n \in delivered :
                       msg[n].conversation = msg[m].conversation
                       /\ msg[n].author = msg[m].author => m <= n}
           entry(m) == [conversation |-> msg[m].conversation, sender |-> msg[m].author,
                        at |-> msg[m].at]
           E == {entry(m) : m \in first}
<1>1. AdmittedConversations(a) = E
  BY DEF AdmittedConversations
<1>2. a # None
  BY AliasAssumption
<1>3. ASSUME NEW m \in delivered
      PROVE  /\ m \in Nat /\ msg[m].conversation \in Conversations /\ msg[m].author \in Members
             /\ msg[m].at \in Nat /\ msg[m].at <= now /\ msg[m].author # OwnerOf[a]
             /\ conv[msg[m].conversation].scope = {msg[m].author, OwnerOf[a]}
  <2>1. m \in Sent /\ msg[m].alias = a
    OBVIOUS
  <2>2. m \in Nat /\ msg[m] \in Delivery
    BY <2>1, MessageFacts DEF IInv, TypeOK
  <2>3. /\ msg[m].at <= now /\ msg[m].conversation # None /\ msg[m].author # OwnerOf[a]
        /\ conv[msg[m].conversation].scope = {msg[m].author, OwnerOf[a]}
    BY <1>2, <2>1 DEF IInv, Deliveries
  <2> QED
    BY <2>2, <2>3, DeliveryFields
<1>4. E \in SUBSET Entry
  BY <1>3 DEF Entry
<1>5. \A e \in E : e.sender # OwnerOf[a] /\ e.at <= now
  BY <1>3
<1>6. Traced(a, E)
  BY DEF Traced
<1>7. \A m, n \in first : msg[m].conversation = msg[n].conversation => m = n
  <2> SUFFICES ASSUME NEW m \in first, NEW n \in first, msg[m].conversation = msg[n].conversation
               PROVE  m = n
    OBVIOUS
  <2>1. m \in delivered /\ n \in delivered
    OBVIOUS
  <2>2. /\ m \in Nat /\ msg[m].author # OwnerOf[a]
        /\ conv[msg[m].conversation].scope = {msg[m].author, OwnerOf[a]}
        /\ n \in Nat /\ msg[n].author # OwnerOf[a]
        /\ conv[msg[n].conversation].scope = {msg[n].author, OwnerOf[a]}
    BY <1>3, <2>1
  <2>3. msg[m].author = msg[n].author
    BY <2>2
  <2>4. m <= n /\ n <= m
    BY <2>1, <2>3
  <2> QED
    BY <2>2, <2>4
<1>8. IsFiniteSet(E)
  <2>1. IsFiniteSet(first)
    <3>1. first \in SUBSET Sent /\ IsFiniteSet(Sent)
      BY MessageFacts DEF IInv, TypeOK
    <3> QED
      BY <3>1, FS_Subset
  <2> DEFINE g == [m \in first |-> entry(m)]
  <2>2. g \in Surjection(first, E)
    BY DEF Surjection
  <2> HIDE DEF g, first, E
  <2> QED
    BY <2>1, <2>2, FS_Surjection
<1>9. \A e, f \in E : e.conversation = f.conversation => e = f
  <2> SUFFICES ASSUME NEW m \in first, NEW n \in first, entry(m).conversation = entry(n).conversation
               PROVE  entry(m) = entry(n)
    OBVIOUS
  <2> HIDE DEF first
  <2>1. m = n
    BY <1>7
  <2> QED
    BY <2>1
<1> HIDE DEF E
<1>10. OneEntryEach(E)
  BY <1>8, <1>9, OneEntry
<1> QED
  BY <1>1, <1>4, <1>5, <1>6, <1>10

-----------------------------------------------------------------------------
\* What each command stores.

LEMMA PermissionChange ==
    ASSUME NEW p \in ReceivingPermission, NEW s \in {"None", "Broad", "Restricted", "Senders"},
           NEW t \in Nat
    PROVE  /\ Change(p, s, t) \in ReceivingPermission
           /\ Change(p, s, t).state = s /\ Change(p, s, t).revision = p.revision + 1
           /\ Change(p, s, t).changed = t /\ Change(p, s, t).granted = p.granted
           /\ Change(p, s, t).conversations = p.conversations
           /\ Change(p, s, t).lanes = p.lanes
<1>1. Change(p, s, t) = [p EXCEPT !.state = s, !.revision = p.revision + 1, !.changed = t]
  BY DEF Change, ReceivingPermission
<1>2. p.revision + 1 \in Nat
  BY DEF ReceivingPermission
<1> QED
  BY <1>1, <1>2 DEF ReceivingPermission

\* A change of permission, whatever its kind: a new record, one revision later.
Changed(q, p, s, t, g, C, L) ==
    /\ q \in ReceivingPermission /\ q.state = s /\ q.revision = p.revision + 1 /\ q.changed = t
    /\ q.granted = g /\ q.conversations = C /\ q.lanes = L

LEMMA PermissionKinds ==
    ASSUME NEW p \in ReceivingPermission, NEW t \in Nat, NEW C \in SUBSET Entry,
           NEW L \in SUBSET [sender : Members, lane : SenderScopedLane(Message)]
    PROVE  /\ Changed(Open(p, t), p, "Broad", t, t, {}, {})
           /\ Changed(Remove(p, t), p, "None", t, 0, {}, {})
           /\ Changed(RestrictPermission(p, C, t), p, "Restricted", t, p.granted, C, p.lanes)
           /\ Changed(PairSenders(p, L, t), p, "Senders", t, 0, {}, L)
<1>1. Changed(Open(p, t), p, "Broad", t, t, {}, {})
  <2> DEFINE b == Change(p, "Broad", t)
  <2>1. /\ b \in ReceivingPermission /\ b.state = "Broad" /\ b.revision = p.revision + 1
        /\ b.changed = t
    BY PermissionChange
  <2> HIDE DEF b
  <2>2. Open(p, t) = [b EXCEPT !.granted = t, !.conversations = {}, !.lanes = {}]
    BY DEF Open, b
  <2>3. Open(p, t) = [state |-> "Broad", revision |-> p.revision + 1, changed |-> t,
                granted |-> t, conversations |-> {}, lanes |-> {}]
    BY <2>1, <2>2 DEF ReceivingPermission
  <2>4. p.revision + 1 \in Nat
    BY PermissionFields
  <2> QED
    BY <2>3, <2>4 DEF Changed, ReceivingPermission
<1>2. Changed(Remove(p, t), p, "None", t, 0, {}, {})
  <2> DEFINE b == Change(p, "None", t)
  <2>1. /\ b \in ReceivingPermission /\ b.state = "None" /\ b.revision = p.revision + 1
        /\ b.changed = t
    BY PermissionChange
  <2> HIDE DEF b
  <2>2. Remove(p, t) = [b EXCEPT !.granted = 0, !.conversations = {}, !.lanes = {}]
    BY DEF Remove, b
  <2>3. Remove(p, t) = [state |-> "None", revision |-> p.revision + 1, changed |-> t,
                granted |-> 0, conversations |-> {}, lanes |-> {}]
    BY <2>1, <2>2 DEF ReceivingPermission
  <2>4. p.revision + 1 \in Nat
    BY PermissionFields
  <2> QED
    BY <2>3, <2>4 DEF Changed, ReceivingPermission
<1>3. Changed(RestrictPermission(p, C, t), p, "Restricted", t, p.granted, C, p.lanes)
  <2> DEFINE b == Change(p, "Restricted", t)
  <2>1. /\ b \in ReceivingPermission /\ b.state = "Restricted" /\ b.revision = p.revision + 1
        /\ b.changed = t /\ b.granted = p.granted /\ b.lanes = p.lanes
    BY PermissionChange
  <2> HIDE DEF b
  <2>2. RestrictPermission(p, C, t) = [b EXCEPT !.conversations = C]
    BY DEF RestrictPermission, b
  <2> QED
    BY <2>1, <2>2 DEF Changed, ReceivingPermission
<1>4. Changed(PairSenders(p, L, t), p, "Senders", t, 0, {}, L)
  <2> DEFINE b == Change(p, "Senders", t)
  <2>1. /\ b \in ReceivingPermission /\ b.state = "Senders" /\ b.revision = p.revision + 1
        /\ b.changed = t
    BY PermissionChange
  <2> HIDE DEF b
  <2>2. PairSenders(p, L, t) = [b EXCEPT !.granted = 0, !.conversations = {}, !.lanes = L]
    BY DEF PairSenders, b
  <2>3. PairSenders(p, L, t) = [state |-> "Senders", revision |-> p.revision + 1, changed |-> t,
                granted |-> 0, conversations |-> {}, lanes |-> L]
    BY <2>1, <2>2 DEF ReceivingPermission
  <2>4. p.revision + 1 \in Nat
    BY PermissionFields
  <2> QED
    BY <2>3, <2>4 DEF Changed, ReceivingPermission
<1> QED
  BY <1>1, <1>2, <1>3, <1>4

LEMMA CreatedLoads ==
    ASSUME NEW b \in AliasIds, NEW t \in Nat
    PROVE  LET r == CreateAlias(t)
           IN  /\ r \in Alias /\ AliasLoads(b, r) /\ IsFiniteSet(r.approvals) /\ Traced(b, r.existing)
               /\ r.life = "Active" /\ r.approvals = {} /\ r.permission = Unpaired(t)
               /\ r.permission \in ReceivingPermission
               /\ r.permission.state = "None" /\ r.permission.lanes = {}
<1> DEFINE r == CreateAlias(t)
           o == Unpaired(t)
<1>1. /\ o \in ReceivingPermission /\ o.state = "None" /\ o.changed = t /\ o.lanes = {}
      /\ o.revision = 0
  BY DEF Unpaired, ReceivingPermission
<1>2. r = [life |-> "Active", created |-> t, changed |-> t, revision |-> 0, at |-> t,
           until |-> 0, replacement |-> None, existing |-> {}, approvals |-> {}, permission |-> o]
  BY DEF CreateAlias
<1>3. PermissionLoads(OwnerOf[b], o)
  BY <1>1 DEF PermissionLoads
<1> HIDE DEF o, r
<1>4. IsFiniteSet({}) /\ Traced(b, {})
  BY FS_EmptySet DEF Traced
<1>5. r \in Alias
  BY <1>1, <1>2 DEF Alias
<1>6. AliasLoads(b, r)
  BY <1>1, <1>2, <1>3 DEF AliasLoads
<1> QED
  BY <1>1, <1>2, <1>4, <1>5, <1>6 DEF r, o

LEMMA CreatedFits ==
    ASSUME IInv, NEW b \in AliasIds, alias[b] = None
    PROVE  /\ AddressFits(b, CreateAlias(now))
           /\ PolicyOf[b] = "AliasScoped" =>
                 AddressFits(b, [CreateAlias(now) EXCEPT !.permission = Open(@, now)])
<1> DEFINE o == Unpaired(now)
           p == Open(o, now)
           q == [CreateAlias(now) EXCEPT !.permission = Open(@, now)]
<1>1. now \in Nat
  BY NowIs
<1>2. o \in ReceivingPermission /\ o.revision = 0
  BY <1>1 DEF Unpaired, ReceivingPermission
<1>3. Changed(p, o, "Broad", now, now, {}, {})
  BY <1>1, <1>2, PermissionKinds
<1>4. AddressFits(b, CreateAlias(now))
  BY <1>1, CreatedLoads DEF AddressFits
<1>5. q = [life |-> "Active", created |-> now, changed |-> now, revision |-> 0, at |-> now,
           until |-> 0, replacement |-> None, existing |-> {}, approvals |-> {}, permission |-> p]
  BY DEF CreateAlias
<1> HIDE DEF o, p, q
<1>6. /\ p \in ReceivingPermission /\ p.state = "Broad" /\ p.revision = 1 /\ p.changed = now
      /\ p.granted = now /\ p.lanes = {}
  BY <1>2, <1>3 DEF Changed
<1>7. PermissionLoads(OwnerOf[b], p)
  BY <1>1, <1>6 DEF PermissionLoads
<1>8. IsFiniteSet({}) /\ Traced(b, {})
  BY FS_EmptySet DEF Traced
<1>9. ASSUME PolicyOf[b] = "AliasScoped" PROVE AddressFits(b, q)
  <2>1. q \in Alias
    BY <1>1, <1>5, <1>6 DEF Alias
  <2>2. AliasLoads(b, q)
    BY <1>1, <1>5, <1>6, <1>7, <1>9 DEF AliasLoads
  <2> QED
    BY <1>5, <1>6, <1>8, <2>1, <2>2 DEF AddressFits
<1> QED
  BY <1>4, <1>9 DEF q

LEMMA NewAliasKeeps ==
    ASSUME IInv, NEW a \in AliasIds, NewAlias(a)
    PROVE  IInv'
<1>1. AliasCommand("NewAlias") /\ alias[a] = None
  BY DEF NewAlias
<1>2. PICK r : AddressFits(a, r) /\ alias' = [alias EXCEPT ![a] = r]
  <2>1. CASE PolicyOf[a] = "AliasScoped"
    <3> DEFINE r == [CreateAlias(now) EXCEPT !.permission = Open(@, now)]
    <3>1. alias' = [alias EXCEPT ![a] = r]
      BY <2>1 DEF NewAlias
    <3>2. AddressFits(a, r)
      BY <1>1, <2>1, CreatedFits
    <3> HIDE DEF r
    <3> QED
      BY <3>1, <3>2
  <2>2. CASE PolicyOf[a] # "AliasScoped"
    <3> DEFINE r == CreateAlias(now)
    <3>1. alias' = [alias EXCEPT ![a] = r]
      BY <2>2 DEF NewAlias
    <3>2. AddressFits(a, r)
      BY <1>1, CreatedFits
    <3> HIDE DEF r
    <3> QED
      BY <3>1, <3>2
  <2> QED
    BY <2>1, <2>2
<1> QED
  BY <1>1, <1>2, AddressKeeps

\* The conditions on the life of an address; the permission stays as it is.
LEMMA LifeFits ==
    ASSUME IInv, NEW a \in AliasIds, alias[a] # None, NEW r \in Alias,
           r.permission = alias[a].permission, r.created = alias[a].created,
           r.created <= r.changed, r.revision > 0, r.created <= r.at, r.at <= r.changed,
           r.life \in {"Restricted", "Replaced", "Retired"},
           r.life \in {"Restricted", "Replaced"} =>
             /\ OneEntryEach(r.existing) /\ OneEntryEach(r.approvals)
             /\ \A e \in r.existing : /\ e.sender # OwnerOf[a]
                                      /\ r.created <= e.at /\ e.at <= r.at
             /\ \A e \in r.approvals : /\ e.sender # OwnerOf[a]
                                       /\ r.created <= e.at /\ e.at <= r.changed,
           r.life = "Restricted" =>
             /\ r.revision = Cardinality(r.approvals) + 1
             /\ \A e \in r.approvals : r.at <= e.at
             /\ r.changed \in {e.at : e \in r.approvals} \cup {r.at}
             /\ \A e \in r.approvals : e.at <= r.changed,
           r.life = "Replaced" =>
             /\ r.replacement # a /\ r.at < r.until
             /\ r.changed = r.at
             /\ \/ r.revision = Cardinality(r.approvals) + 2
                \/ r.approvals = {} /\ r.revision = 1,
           IsFiniteSet(r.approvals), Traced(a, r.existing)
    PROVE  AddressFits(a, r)
<1>1. /\ PermissionLoads(OwnerOf[a], r.permission)
      /\ r.created <= r.permission.changed
      /\ PolicyOf[a] = "Bonded" => r.permission.state \notin {"Broad", "Restricted"}
      /\ r.permission.state # "Senders" => r.permission.lanes = {}
  BY AliasFacts DEF AliasLoads
<1>2. AliasLoads(a, r)
  BY <1>1 DEF AliasLoads
<1> QED
  BY <1>1, <1>2 DEF AddressFits

LEMMA RestrictAddressKeeps ==
    ASSUME IInv, NEW a \in AliasIds, RestrictAddress(a)
    PROVE  IInv'
<1> DEFINE o == alias[a]
           E == AdmittedConversations(a)
           r == RestrictAlias(o, E, now)
<1>1. /\ AliasCommand("Restrict") /\ o # None /\ CanRestrict(a, o, E, now)
      /\ alias' = [alias EXCEPT ![a] = r]
  BY DEF RestrictAddress
<1>2. /\ now \in Nat /\ o \in Alias /\ AliasLoads(a, o)
      /\ E \in SUBSET Entry /\ Traced(a, E)
  BY <1>1, NowIs, AliasFacts, AdmittedAre
<1>3. /\ o.created \in Nat /\ o.changed \in Nat /\ o.revision \in Nat
      /\ o.permission \in ReceivingPermission
  BY <1>2, AliasFields
<1>4. /\ o.life = "Active" /\ o.changed <= now /\ o.revision = 0 /\ o.created <= o.changed
      /\ OneEntryEach(E) /\ \A e \in E : e.sender # OwnerOf[a] /\ o.created <= e.at /\ e.at <= now
  BY <1>1, <1>2 DEF CanRestrict, Updatable, Evidence, AliasLoads
<1> HIDE DEF o, E
<1>5. /\ r.life = "Restricted" /\ r.revision = 1 /\ r.changed = now /\ r.at = now
      /\ r.existing = E /\ r.approvals = {} /\ r.created = o.created /\ r.permission = o.permission
      /\ r \in Alias
  <2>1. r = [o EXCEPT !.life = "Restricted", !.revision = o.revision + 1, !.changed = now,
                      !.at = now, !.existing = E, !.approvals = {}]
    BY <1>2 DEF RestrictAlias, Update, Alias
  <2> HIDE DEF r
  <2>2. r \in Alias
    <3>1. o \in Alias /\ now \in Nat /\ E \in SUBSET Entry /\ o.revision + 1 \in Nat
      BY <1>2, <1>3
    <3> QED
      BY <2>1, <3>1 DEF Alias
  <2>3. /\ r.life = "Restricted" /\ r.revision = o.revision + 1 /\ r.changed = now /\ r.at = now
        /\ r.existing = E /\ r.approvals = {} /\ r.created = o.created
        /\ r.permission = o.permission
    BY <1>2, <2>1 DEF Alias
  <2> QED
    BY <1>4, <2>2, <2>3
<1> HIDE DEF r
<1>6. AddressFits(a, r)
  <2>1. OneEntryEach(r.approvals) /\ Cardinality(r.approvals) = 0 /\ IsFiniteSet(r.approvals)
    BY <1>5, NoEntries, FS_EmptySet
  <2>2. /\ r.created <= now /\ r.created \in Nat
    BY <1>2, <1>3, <1>4, <1>5
  <2>3. r.permission = alias[a].permission /\ r.created = alias[a].created /\ alias[a] # None
    BY <1>1, <1>5 DEF o
  <2>4. /\ r.life \in {"Restricted", "Replaced"} =>
             /\ OneEntryEach(r.existing) /\ OneEntryEach(r.approvals)
             /\ \A e \in r.existing : /\ e.sender # OwnerOf[a]
                                      /\ r.created <= e.at /\ e.at <= r.at
             /\ \A e \in r.approvals : /\ e.sender # OwnerOf[a]
                                       /\ r.created <= e.at /\ e.at <= r.changed
        /\ r.life = "Restricted" =>
             /\ r.revision = Cardinality(r.approvals) + 1
             /\ \A e \in r.approvals : r.at <= e.at
             /\ r.changed \in {e.at : e \in r.approvals} \cup {r.at}
             /\ \A e \in r.approvals : e.at <= r.changed
    BY <1>4, <1>5, <2>1
  <2>5. r.life # "Replaced" /\ r.life \in {"Restricted", "Replaced", "Retired"}
        /\ r.created <= r.changed /\ r.revision > 0 /\ r.created <= r.at /\ r.at <= r.changed
    BY <1>2, <1>5, <2>2
  <2> QED
    BY <1>2, <1>5, <2>1, <2>3, <2>4, <2>5, LifeFits
<1> QED
  BY <1>1, <1>6, AddressKeeps

LEMMA ReplaceKeeps ==
    ASSUME IInv, NEW a \in AliasIds, NEW b \in AliasIds, Replace(a, b)
    PROVE  IInv'
<1> DEFINE o == alias[a]
           E == AdmittedConversations(a)
<1>1. AliasCommand("Replace") /\ o # None /\ alias[b] = None
  BY DEF Replace
<1>2. PICK until \in now + 1 .. MaxTime + 1 :
         /\ CanReplace(a, o, b, until, E, now)
         /\ alias' = [alias EXCEPT ![a] = ReplaceAlias(@, b, until, E, now), ![b] = CreateAlias(now)]
  BY DEF Replace
<1> DEFINE r == ReplaceAlias(o, b, until, E, now)
           n == CreateAlias(now)
<1>3. /\ now \in Nat /\ MaxTime \in Nat /\ o \in Alias /\ AliasLoads(a, o)
      /\ E \in SUBSET Entry /\ Traced(a, E) /\ IsFiniteSet(o.approvals) /\ Traced(a, o.existing)
      /\ o.life = "Active" => o.approvals = {}
  BY <1>1, NowIs, AliasFacts, AdmittedAre, CorrespondenceAssumption
<1>4. /\ o.created \in Nat /\ o.changed \in Nat /\ o.revision \in Nat /\ o.at \in Nat
      /\ o.existing \in SUBSET Entry /\ o.approvals \in SUBSET Entry
      /\ o.permission \in ReceivingPermission
  BY <1>3, AliasFields
<1>5. /\ until \in Nat /\ now < until
  BY <1>3
<1>6. a # b /\ alias \in [AliasIds -> Alias \cup {None}]
  BY <1>2 DEF CanReplace, IInv, TypeOK, AliasType
<1>7. AddressFits(b, n)
  BY <1>1, CreatedFits
<1>8. alias' = [alias EXCEPT ![a] = r, ![b] = n]
  BY <1>2
<1>9. /\ o.life \in {"Active", "Restricted"} /\ o.changed <= now
      /\ o.life = "Active" =>
           OneEntryEach(E) /\ \A e \in E : e.sender # OwnerOf[a] /\ o.created <= e.at /\ e.at <= now
  BY <1>2 DEF CanReplace, Updatable, Evidence
<1> DEFINE X == IF o.life = "Restricted" THEN o.existing ELSE E
<1> HIDE DEF o, E, n
<1>10. /\ r.life = "Replaced" /\ r.revision = o.revision + 1 /\ r.changed = now /\ r.at = now
       /\ r.until = until /\ r.replacement = b
       /\ r.existing = X /\ r.approvals = o.approvals /\ r.created = o.created
       /\ r.permission = o.permission /\ r \in Alias
  <2>1. r = [o EXCEPT !.life = "Replaced", !.revision = o.revision + 1, !.changed = now,
                      !.at = now, !.until = until, !.replacement = b, !.existing = X]
    BY <1>3 DEF ReplaceAlias, Update, Alias
  <2>2. X \in SUBSET Entry
    BY <1>3, <1>4
  <2> HIDE DEF r, X
  <2>3. r \in Alias
    <3>1. o \in Alias /\ now \in Nat /\ until \in Nat /\ o.revision + 1 \in Nat
      BY <1>3, <1>4, <1>5
    <3> QED
      BY <2>1, <2>2, <3>1 DEF Alias
  <2> QED
    BY <1>3, <2>1, <2>3 DEF Alias
<1> HIDE DEF r
<1>11. /\ OneEntryEach(X) /\ Traced(a, X)
       /\ \A e \in X : e.sender # OwnerOf[a] /\ o.created <= e.at /\ e.at <= now
  <2>1. CASE o.life = "Active"
    BY <1>3, <1>9, <2>1
  <2>2. CASE o.life = "Restricted"
    <3>1. /\ OneEntryEach(o.existing) /\ o.at <= o.changed
          /\ \A e \in o.existing : e.sender # OwnerOf[a] /\ o.created <= e.at /\ e.at <= o.at
      BY <1>3, <2>2 DEF AliasLoads
    <3>2. \A e \in o.existing : e.at \in Nat
      BY <1>4, EntryFields
    <3> QED
      BY <1>3, <1>4, <1>9, <2>2, <3>1, <3>2
  <2> QED
    BY <1>9, <2>1, <2>2
<1>12. /\ OneEntryEach(o.approvals)
       /\ \A e \in o.approvals : e.sender # OwnerOf[a] /\ o.created <= e.at /\ e.at <= now
       /\ \/ o.revision + 1 = Cardinality(o.approvals) + 2
          \/ o.approvals = {} /\ o.revision + 1 = 1
  <2>1. CASE o.life = "Active"
    <3>1. o.approvals = {} /\ o.revision = 0
      BY <1>3, <2>1 DEF AliasLoads
    <3> QED
      BY <3>1, NoEntries
  <2>2. CASE o.life = "Restricted"
    <3>1. /\ OneEntryEach(o.approvals)
          /\ \A e \in o.approvals : e.sender # OwnerOf[a] /\ o.created <= e.at /\ e.at <= o.changed
          /\ o.revision = Cardinality(o.approvals) + 1
      BY <1>3, <2>2 DEF AliasLoads
    <3>2. \A e \in o.approvals : e.at \in Nat
      BY <1>4, EntryFields
    <3>3. Cardinality(o.approvals) \in Nat
      BY <1>3, FS_CardinalityType
    <3>4. o.revision + 1 = Cardinality(o.approvals) + 2
      BY <3>1, <3>3
    <3>5. \A e \in o.approvals : e.at <= now
      BY <1>3, <1>4, <1>9, <3>1, <3>2
    <3> QED
      BY <3>1, <3>4, <3>5
  <2> QED
    BY <1>9, <2>1, <2>2
<1>13. o.created <= now
  BY <1>3, <1>4, <1>9 DEF AliasLoads
<1>14. AddressFits(a, r)
  <2>1. r.permission = alias[a].permission /\ r.created = alias[a].created /\ alias[a] # None
    BY <1>1, <1>10 DEF o
  <2>2. /\ r.life \in {"Restricted", "Replaced"} =>
             /\ OneEntryEach(r.existing) /\ OneEntryEach(r.approvals)
             /\ \A e \in r.existing : /\ e.sender # OwnerOf[a]
                                      /\ r.created <= e.at /\ e.at <= r.at
             /\ \A e \in r.approvals : /\ e.sender # OwnerOf[a]
                                       /\ r.created <= e.at /\ e.at <= r.changed
        /\ r.life = "Replaced" =>
             /\ r.replacement # a /\ r.at < r.until
             /\ r.changed = r.at
             /\ \/ r.revision = Cardinality(r.approvals) + 2
                \/ r.approvals = {} /\ r.revision = 1
    BY <1>5, <1>6, <1>10, <1>11, <1>12
  <2>3. r.life # "Restricted" /\ r.life \in {"Restricted", "Replaced", "Retired"}
        /\ r.created <= r.changed /\ r.revision > 0 /\ r.created <= r.at /\ r.at <= r.changed
    BY <1>3, <1>4, <1>10, <1>13
  <2>4. IsFiniteSet(r.approvals) /\ Traced(a, r.existing)
    BY <1>3, <1>10, <1>11
  <2> QED
    BY <1>10, <2>1, <2>2, <2>3, <2>4, LifeFits
<1> DEFINE new == [alias EXCEPT ![a] = r, ![b] = n]
<1>15. r \in Alias /\ n \in Alias
  BY <1>7, <1>10 DEF AddressFits
<1>16. /\ new \in [AliasIds -> Alias \cup {None}]
       /\ \A x \in AliasIds : new[x] = alias[x] \/ AddressFits(x, new[x])
  <2>1. new \in [AliasIds -> Alias \cup {None}]
    BY <1>6, <1>15
  <2>2. new[a] = r /\ new[b] = n /\ \A x \in AliasIds \ {a, b} : new[x] = alias[x]
    BY <1>6
  <2> HIDE DEF new
  <2> QED
    BY <1>7, <1>14, <2>1, <2>2
<1>17. alias' = new
  BY <1>8
<1> HIDE DEF new
<1> QED
  BY <1>1, <1>16, <1>17, AddressesKeep

LEMMA RetireKeeps ==
    ASSUME IInv, NEW a \in AliasIds, Retire(a)
    PROVE  IInv'
<1> DEFINE o == alias[a]
           r == RetireAlias(o, now)
<1>1. /\ AliasCommand("Retire") /\ o # None /\ CanRetire(o, now)
      /\ alias' = [alias EXCEPT ![a] = r]
  BY DEF Retire
<1>2. now \in Nat /\ o \in Alias /\ AliasLoads(a, o)
  BY <1>1, NowIs, AliasFacts
<1>3. /\ o.created \in Nat /\ o.changed \in Nat /\ o.revision \in Nat
      /\ o.permission \in ReceivingPermission /\ o.changed <= now /\ o.created <= o.changed
  BY <1>1, <1>2, AliasFields DEF CanRetire, AliasLoads
<1> HIDE DEF o
<1>4. /\ r.life = "Retired" /\ r.revision = o.revision + 1 /\ r.changed = now /\ r.at = now
      /\ r.existing = {} /\ r.approvals = {} /\ r.created = o.created
      /\ r.permission = o.permission /\ r \in Alias
  <2>1. r = [o EXCEPT !.life = "Retired", !.revision = o.revision + 1, !.changed = now,
                      !.at = now, !.until = 0, !.replacement = None, !.existing = {}, !.approvals = {}]
    BY <1>2 DEF RetireAlias, Update, Alias
  <2> HIDE DEF r
  <2>2. r \in Alias
    <3>1. o \in Alias /\ now \in Nat /\ o.revision + 1 \in Nat
      BY <1>2, <1>3
    <3> QED
      BY <2>1, <3>1 DEF Alias
  <2> QED
    BY <1>2, <2>1, <2>2 DEF Alias
<1> HIDE DEF r
<1>5. AddressFits(a, r)
  <2>1. r.permission = alias[a].permission /\ r.created = alias[a].created /\ alias[a] # None
    BY <1>1, <1>4 DEF o
  <2>2. IsFiniteSet(r.approvals) /\ Traced(a, r.existing)
    BY <1>4, FS_EmptySet DEF Traced
  <2>3. /\ r.life \notin {"Restricted", "Replaced"} /\ r.life \in {"Restricted", "Replaced", "Retired"}
        /\ r.created <= r.changed /\ r.revision > 0 /\ r.created <= r.at /\ r.at <= r.changed
    BY <1>2, <1>3, <1>4
  <2> QED
    BY <1>4, <2>1, <2>2, <2>3, LifeFits
<1> QED
  BY <1>1, <1>5, AddressKeeps

LEMMA ApproveKeeps ==
    ASSUME IInv, NEW a \in AliasIds, NEW s \in Members, NEW k \in Conversations, Approve(a, s, k)
    PROVE  IInv'
<1> DEFINE o == alias[a]
           r == ApproveConversation(o, s, k, now)
           f == [conversation |-> k, sender |-> s, at |-> now]
<1>1. /\ AliasCommand("Approve") /\ o # None /\ CanApprove(a, o, s, k, now)
      /\ alias' = [alias EXCEPT ![a] = r]
  BY DEF Approve
<1>2. /\ now \in Nat /\ o \in Alias /\ AliasLoads(a, o) /\ IsFiniteSet(o.approvals)
      /\ Traced(a, o.existing)
  BY <1>1, NowIs, AliasFacts
<1>3. /\ o.created \in Nat /\ o.changed \in Nat /\ o.revision \in Nat /\ o.at \in Nat
      /\ o.existing \in SUBSET Entry /\ o.approvals \in SUBSET Entry
      /\ o.permission \in ReceivingPermission
  BY <1>2, AliasFields
<1>4. /\ o.life = "Restricted" /\ o.changed <= now /\ s # OwnerOf[a]
      /\ k \notin ConversationsIn(o.approvals)
  BY <1>1 DEF CanApprove, Updatable
<1>5. /\ o.created <= o.changed /\ o.created <= o.at /\ o.at <= o.changed
      /\ OneEntryEach(o.existing) /\ OneEntryEach(o.approvals)
      /\ \A e \in o.existing : e.sender # OwnerOf[a] /\ o.created <= e.at /\ e.at <= o.at
      /\ \A e \in o.approvals : e.sender # OwnerOf[a] /\ o.created <= e.at /\ e.at <= o.changed
      /\ o.revision = Cardinality(o.approvals) + 1
      /\ \A e \in o.approvals : o.at <= e.at
  BY <1>2, <1>4 DEF AliasLoads
<1>6. f \in Entry /\ f.conversation = k /\ f.sender = s /\ f.at = now
  BY <1>2 DEF Entry
<1> HIDE DEF o
<1> DEFINE A == o.approvals \cup {f}
<1>7. /\ r.life = "Restricted" /\ r.revision = o.revision + 1 /\ r.changed = now /\ r.at = o.at
      /\ r.existing = o.existing /\ r.approvals = A /\ r.created = o.created
      /\ r.permission = o.permission /\ r \in Alias
  <2>1. r = [o EXCEPT !.life = "Restricted", !.revision = o.revision + 1, !.changed = now,
                      !.approvals = A]
    BY <1>2 DEF ApproveConversation, Update, Alias
  <2>2. A \in SUBSET Entry
    BY <1>3, <1>6
  <2> HIDE DEF r, A
  <2>3. r \in Alias
    <3>1. o \in Alias /\ now \in Nat /\ o.revision + 1 \in Nat
      BY <1>2, <1>3
    <3> QED
      BY <2>1, <2>2, <3>1 DEF Alias
  <2> QED
    BY <1>2, <2>1, <2>3 DEF Alias
<1> HIDE DEF r, f
<1>8. f \notin o.approvals
  BY <1>4, <1>6 DEF ConversationsIn
<1>9. /\ IsFiniteSet(A) /\ Cardinality(A) = Cardinality(o.approvals) + 1
      /\ Cardinality(o.approvals) \in Nat
  BY <1>2, <1>8, FS_AddElement, FS_CardinalityType
<1>10. OneEntryEach(A)
  <2> DEFINE K == ConversationsIn(o.approvals)
  <2>1. ConversationsIn(A) = K \cup {k}
    BY <1>6 DEF ConversationsIn
  <2>2. IsFiniteSet(K)
    <3> DEFINE g == [e \in o.approvals |-> e.conversation]
    <3>1. g \in Surjection(o.approvals, K)
      BY DEF Surjection, ConversationsIn
    <3> HIDE DEF g, K
    <3> QED
      BY <1>2, <3>1, FS_Surjection
  <2>3. Cardinality(K \cup {k}) = Cardinality(K) + 1
    BY <1>4, <2>2, FS_AddElement
  <2>4. Cardinality(K) = Cardinality(o.approvals)
    BY <1>5 DEF OneEntryEach
  <2> HIDE DEF A, K
  <2> QED
    BY <1>9, <2>1, <2>3, <2>4 DEF OneEntryEach
<1>11. \A e \in A : /\ e.sender # OwnerOf[a] /\ o.created <= e.at /\ e.at <= now /\ o.at <= e.at
  <2>1. \A e \in o.approvals : e.at \in Nat
    BY <1>3, EntryFields
  <2>2. \A e \in o.approvals : e.sender # OwnerOf[a] /\ o.created <= e.at /\ e.at <= now /\ o.at <= e.at
    BY <1>2, <1>3, <1>4, <1>5, <2>1
  <2>3. f.sender # OwnerOf[a] /\ o.created <= f.at /\ f.at <= now /\ o.at <= f.at
    BY <1>2, <1>3, <1>4, <1>5, <1>6
  <2> QED
    BY <2>2, <2>3
<1>12. now \in {e.at : e \in A}
  BY <1>6
<1> HIDE DEF A
<1>13. AddressFits(a, r)
  <2>1. r.permission = alias[a].permission /\ r.created = alias[a].created /\ alias[a] # None
    BY <1>1, <1>7 DEF o
  <2>2. IsFiniteSet(r.approvals) /\ Traced(a, r.existing)
    BY <1>2, <1>7, <1>9
  <2>3. /\ r.life \in {"Restricted", "Replaced"} =>
             /\ OneEntryEach(r.existing) /\ OneEntryEach(r.approvals)
             /\ \A e \in r.existing : /\ e.sender # OwnerOf[a]
                                      /\ r.created <= e.at /\ e.at <= r.at
             /\ \A e \in r.approvals : /\ e.sender # OwnerOf[a]
                                       /\ r.created <= e.at /\ e.at <= r.changed
    BY <1>5, <1>7, <1>10, <1>11
  <2>4. /\ r.life = "Restricted" =>
             /\ r.revision = Cardinality(r.approvals) + 1
             /\ \A e \in r.approvals : r.at <= e.at
             /\ r.changed \in {e.at : e \in r.approvals} \cup {r.at}
             /\ \A e \in r.approvals : e.at <= r.changed
    BY <1>5, <1>7, <1>9, <1>11, <1>12
  <2>5. /\ r.life # "Replaced" /\ r.life \in {"Restricted", "Replaced", "Retired"}
        /\ r.created <= r.changed /\ r.revision > 0 /\ r.created <= r.at /\ r.at <= r.changed
    BY <1>2, <1>3, <1>4, <1>5, <1>7
  <2> QED
    BY <1>7, <2>1, <2>2, <2>3, <2>4, <2>5, LifeFits
<1> QED
  BY <1>1, <1>13, AddressKeeps

-----------------------------------------------------------------------------
\* A change of the receiving permission: the address's life stays as it is.

\* what a change may make of the permission p of the address a
Follows(a, p, q) ==
    /\ q \in ReceivingPermission /\ q.changed = now /\ q.revision = p.revision + 1
    /\ PermissionLoads(OwnerOf[a], q)
    /\ PolicyOf[a] = "Bonded" => q.state \notin {"Broad", "Restricted"}
    /\ q.state # "Senders" => q.lanes = {}
    /\ \A s \in q.lanes : s.lane.admitted = {} /\ s.lane.count = 0

LEMMA CurrentIsValid ==
    ASSUME now \in Nat, NEW g \in Grants(1), IsCurrent(FromGrant(g), now)
    PROVE  g \in SenderScopedGrant /\ g.issued <= now /\ ValidGrant(g)
<1>1. PICK mode \in Modes, age \in {t \in Ages : t <= now}, wait \in Waits :
         g = [mode |-> mode, issued |-> now - age, before |-> now - age + wait,
              after |-> now - age + Validity, lifetime |-> Lifetime, limit |-> Limit,
              interval |-> Interval, version |-> 1]
  BY DEF Grants
<1>2. /\ mode \in LaneMode /\ age \in Nat /\ age <= now /\ wait \in Nat
      /\ Validity \in Nat \ {0} /\ Lifetime \in Nat \ {0} /\ Limit \in Nat \ {0}
      /\ Interval \in Nat \ {0}
  BY CorrespondenceAssumption
<1>3. g \in SenderScopedGrant
  BY GrantsAre
<1>4. g.before <= now /\ now < g.after
  BY DEF IsCurrent, FromGrant
<1>5. g.issued <= now /\ g.issued <= g.before
  BY <1>1, <1>2
<1>6. g.before < g.after
  BY <1>3, <1>4 DEF SenderScopedGrant
<1>7. g.lifetime > 0 /\ g.limit > 0 /\ g.interval > 0
  BY <1>1, <1>2
<1> QED
  BY <1>3, <1>5, <1>6, <1>7 DEF ValidGrant

LEMMA PermissionFits ==
    ASSUME IInv, NEW a \in AliasIds, alias[a] # None, alias[a].permission.changed <= now,
           NEW q, Follows(a, alias[a].permission, q)
    PROVE  AddressFits(a, [alias[a] EXCEPT !.permission = q])
<1> DEFINE o == alias[a]
           r == [o EXCEPT !.permission = q]
<1>1. /\ o \in Alias /\ AliasLoads(a, o) /\ IsFiniteSet(o.approvals) /\ Traced(a, o.existing)
      /\ o.life = "Active" => o.approvals = {}
  BY AliasFacts
<1>2. now \in Nat
  BY NowIs
<1>3. /\ o.permission \in ReceivingPermission /\ o.permission.revision \in Nat
      /\ o.permission.changed \in Nat /\ o.created \in Nat
  BY <1>1, AliasFields, PermissionFields
<1>4. o.permission.changed <= now /\ q.revision = o.permission.revision + 1 /\ o # None
  BY DEF Follows
<1>5. /\ q \in ReceivingPermission /\ q.changed = now /\ PermissionLoads(OwnerOf[a], q)
      /\ PolicyOf[a] = "Bonded" => q.state \notin {"Broad", "Restricted"}
      /\ q.state # "Senders" => q.lanes = {}
      /\ \A s \in q.lanes : s.lane.admitted = {} /\ s.lane.count = 0
  BY DEF Follows
<1> HIDE DEF o
<1>6. /\ r \in Alias /\ r.permission = q
      /\ r.life = o.life /\ r.created = o.created /\ r.changed = o.changed
      /\ r.revision = o.revision /\ r.at = o.at /\ r.until = o.until
      /\ r.replacement = o.replacement /\ r.existing = o.existing /\ r.approvals = o.approvals
  BY <1>1, <1>5 DEF Alias
<1> HIDE DEF r
<1>7. o.created <= q.changed
  <2>1. o.created <= o.permission.changed
    BY <1>1 DEF AliasLoads
  <2> QED
    BY <1>2, <1>3, <1>4, <1>5, <2>1
<1>8. AliasLoads(a, r)
  BY <1>1, <1>6, <1>7, <1>5 DEF AliasLoads
<1>9. q.revision > o.permission.revision
  BY <1>3, <1>4
<1>10. /\ r \in Alias /\ AliasLoads(a, r) /\ IsFiniteSet(r.approvals) /\ Traced(a, r.existing)
       /\ (r.life = "Active" => r.approvals = {})
       /\ (r.permission.state # "Senders" => r.permission.lanes = {})
  BY <1>1, <1>6, <1>8, <1>5
<1>11. AddressFits(a, r)
  <2>1. alias[a] # None
    OBVIOUS
  <2>2. r.permission.revision > alias[a].permission.revision
    BY <1>6, <1>9 DEF o
  <2>3. \A s \in r.permission.lanes : s.lane.admitted = {} /\ s.lane.count = 0
    BY <1>5, <1>6
  <2> QED
    BY <1>10, <2>1, <2>2, <2>3 DEF AddressFits
<1> QED
  BY <1>11 DEF r, o

LEMMA ChangePermissionKeeps ==
    ASSUME IInv, NEW a \in AliasIds, ChangePermission(a)
    PROVE  IInv'
<1>1. /\ AliasCommand("Permission") /\ alias[a] # None /\ alias[a].permission.changed <= now
  BY DEF ChangePermission
<1>2. PICK q \in PermissionChanges(a) : alias' = [alias EXCEPT ![a].permission = q]
  BY DEF ChangePermission
<1> DEFINE p == alias[a].permission
           E == AdmittedConversations(a)
<1>3. /\ alias[a] \in Alias /\ AliasLoads(a, alias[a])
      /\ p.state # "Senders" => p.lanes = {}
  BY <1>1, AliasFacts
<1>4. /\ p \in ReceivingPermission /\ PermissionLoads(OwnerOf[a], p) /\ now \in Nat
      /\ p.revision \in Nat /\ p.granted \in Nat /\ p.changed \in Nat
  BY <1>3, NowIs, AliasFields, PermissionFields DEF AliasLoads
<1>5. p.changed <= now
  BY <1>1
<1>6. /\ E \in SUBSET Entry /\ OneEntryEach(E)
      /\ \A e \in E : e.sender # OwnerOf[a] /\ e.at <= now
  BY AdmittedAre
<1> HIDE DEF p, E
<1>7. Follows(a, p, q)
  <2>1. CASE q = Remove(p, now)
    <3>1. Changed(q, p, "None", now, 0, {}, {})
      BY <1>4, <2>1, PermissionKinds
    <3> QED
      BY <3>1 DEF Changed, PermissionLoads, Follows
  <2>2. CASE q = Open(p, now) /\ PolicyOf[a] = "AliasScoped"
    <3>1. Changed(q, p, "Broad", now, now, {}, {})
      BY <1>4, <2>2, PermissionKinds
    <3>2. q.revision # 0
      BY <1>4, <3>1 DEF Changed
    <3> QED
      BY <1>4, <2>2, <3>1, <3>2 DEF Changed, PermissionLoads, Follows
  <2>3. CASE q = RestrictPermission(p, E, now) /\ PolicyOf[a] = "AliasScoped" /\ p.state = "Broad"
    <3>1. Changed(q, p, "Restricted", now, p.granted, E, p.lanes)
      BY <1>4, <1>6, <2>3, PermissionKinds
    <3>2. p.lanes = {}
      BY <1>3, <2>3 DEF p
    <3>3. q.revision # 0 /\ p.granted <= now
      <4>1. p.granted <= p.changed
        BY <1>4, <2>3 DEF PermissionLoads
      <4> QED
        BY <1>4, <1>5, <3>1, <4>1 DEF Changed
    <3> QED
      BY <1>6, <2>3, <3>1, <3>2, <3>3 DEF Changed, PermissionLoads, Follows
  <2>4. ASSUME NEW s \in Members, NEW g \in Grants(1), IsCurrent(FromGrant(g), now),
               q = PairSenders(p, {[sender |-> s, lane |-> FromGrant(g)]}, now)
        PROVE  Follows(a, p, q)
    <3> DEFINE w == [sender |-> s, lane |-> FromGrant(g)]
               L == {w}
    <3>1. g \in SenderScopedGrant /\ g.issued <= now /\ ValidGrant(g)
      BY <1>4, <2>4, CurrentIsValid
    <3>3. /\ FromGrant(g) \in SenderScopedLane(Message) /\ LaneLoads(FromGrant(g))
          /\ FromGrant(g).admitted = {} /\ FromGrant(g).count = 0 /\ FromGrant(g).grant = g
      BY <3>1, GrantLoads
    <3>4. /\ w.sender = s /\ w.lane = FromGrant(g)
          /\ w \in [sender : Members, lane : SenderScopedLane(Message)]
      BY <3>3
    <3> HIDE DEF w
    <3>5. L \in SUBSET [sender : Members, lane : SenderScopedLane(Message)]
      BY <3>4
    <3>6. Changed(q, p, "Senders", now, 0, {}, L)
      BY <1>4, <2>4, <3>5, PermissionKinds DEF w
    <3>7. q.revision # 0
      BY <1>4, <3>6 DEF Changed
    <3>8. \A x \in L : /\ LaneLoads(x.lane) /\ x.lane.grant.issued <= now
                       /\ x.lane.admitted = {} /\ x.lane.count = 0
      BY <3>1, <3>3, <3>4
    <3>9. PermissionLoads(OwnerOf[a], q)
      BY <3>6, <3>7, <3>8 DEF Changed, PermissionLoads
    <3> QED
      BY <3>6, <3>8, <3>9 DEF Changed, Follows
  <2> DEFINE one(s, g) == {[sender |-> s, lane |-> FromGrant(g)]}
  <2>5. \/ q = Remove(p, now)
        \/ q = Open(p, now) /\ PolicyOf[a] = "AliasScoped"
        \/ q = RestrictPermission(p, E, now) /\ PolicyOf[a] = "AliasScoped" /\ p.state = "Broad"
        \/ \E s \in Members, g \in Grants(1) :
             /\ IsCurrent(FromGrant(g), now)
             /\ q = PairSenders(p, one(s, g), now)
    <3> DEFINE paired == {one(s, g) : s \in Members \ {OwnerOf[a]}, g \in Grants(1)}
    <3>1. \/ q = Remove(p, now)
          \/ q = Open(p, now) /\ PolicyOf[a] = "AliasScoped"
          \/ q = RestrictPermission(p, E, now) /\ PolicyOf[a] = "AliasScoped" /\ p.state = "Broad"
          \/ \E L \in paired : /\ \A x \in L : IsCurrent(x.lane, now)
                               /\ q = PairSenders(p, L, now)
      BY <1>2 DEF PermissionChanges, p, E, one
    <3> HIDE DEF one
    <3>2. ASSUME NEW L \in paired, \A x \in L : IsCurrent(x.lane, now),
                 q = PairSenders(p, L, now)
          PROVE  \E s \in Members, g \in Grants(1) :
                   /\ IsCurrent(FromGrant(g), now)
                   /\ q = PairSenders(p, one(s, g), now)
      <4>1. PICK s \in Members, g \in Grants(1) : L = one(s, g)
        OBVIOUS
      <4>2. IsCurrent(FromGrant(g), now)
        BY <3>2, <4>1 DEF one
      <4>3. q = PairSenders(p, one(s, g), now)
        BY <3>2, <4>1
      <4> QED
        BY <4>2, <4>3
    <3> HIDE DEF paired
    <3> QED
      BY <3>1, <3>2
  <2> QED
    BY <2>1, <2>2, <2>3, <2>4, <2>5 DEF one
<1>8. AddressFits(a, [alias[a] EXCEPT !.permission = q])
  BY <1>1, <1>7, PermissionFits DEF p
<1>9. alias' = [alias EXCEPT ![a] = [alias[a] EXCEPT !.permission = q]]
  BY <1>2
<1> QED
  BY <1>1, <1>8, <1>9, AddressKeeps

-----------------------------------------------------------------------------
(***************************************************************************)
(* The invariant.                                                          *)
(***************************************************************************)

LEMMA PairMembers ==
    ASSUME NEW k \in DOMAIN Begun
    PROVE  k \in Conversations /\ Begun[k] \in SUBSET Members
BY CorrespondenceAssumption

LEMMA InitKeeps ==
    ASSUME Init
    PROVE  IInv
<1>1. PICK established \in Established : InitContact(established)
  BY DEF Init
<1>2. /\ now = 0 /\ commands = 0 /\ claims = {} /\ msg = <<>>
      /\ lane = [d \in Directions |-> None] /\ due = [d \in Directions |-> None]
      /\ request = [d \in Directions |-> None] /\ began = [d \in Directions |-> None]
      /\ alias = [a \in AliasIds |-> IF a \in Enrolled THEN CreateAlias(0) ELSE None]
      /\ withdrawn = [d \in Directions |-> {}]
  BY DEF Init
<1>3. Sent = {} /\ MsgType
  BY <1>2, CorrespondenceAssumption DEF Sent, MsgType
<1>4. \A a \in AliasIds : LET r == CreateAlias(0) IN
         /\ r \in Alias /\ AliasLoads(a, r) /\ IsFiniteSet(r.approvals) /\ Traced(a, r.existing)
         /\ r.life = "Active" /\ r.approvals = {} /\ r.permission = Unpaired(0)
         /\ r.permission \in ReceivingPermission
         /\ r.permission.state = "None" /\ r.permission.lanes = {}
  BY CreatedLoads
<1>5. RelType
  <2>1. rel \in [Directions -> Relationship]
    BY <1>1 DEF InitContact, Relationship, RelationshipState
  <2>2. scope \in [Directions -> AliasScope \cup {None}]
    <3>1. \A d \in Directions : {a \in Enrolled : OwnerOf[a] = d[2]} \in SUBSET AliasIds
      BY CorrespondenceAssumption
    <3> QED
      BY <1>1, <3>1 DEF InitContact, AliasScope
  <2>3. /\ request \in [Directions -> AliasIds \cup {None}]
        /\ began \in [Directions -> Conversations \cup {None}]
        /\ withdrawn \in [Directions -> SUBSET Message]
    BY <1>2
  <2> QED
    BY <2>1, <2>2, <2>3 DEF RelType
<1>6. \A k \in Conversations :
         \/ conv[k] = None
         \/ /\ conv[k] \in Conversation /\ ConversationLoads(conv[k])
            /\ (~conv[k].relaxed => conv[k].restricted)
            /\ \A p \in Members : conv[k].received[p] = None
  <2> SUFFICES ASSUME NEW k \in Conversations, conv[k] # None
               PROVE  /\ conv[k] \in Conversation /\ ConversationLoads(conv[k])
                      /\ (~conv[k].relaxed => conv[k].restricted)
                      /\ \A p \in Members : conv[k].received[p] = None
    OBVIOUS
  <2>1. k \in DOMAIN Begun /\ conv[k] = NewConversation(Begun[k])
    BY <1>1 DEF InitContact
  <2>2. Begun[k] \in SUBSET Members
    BY <2>1, PairMembers
  <2> QED
    BY <2>1, <2>2, NewConversationLoads
<1>7. ConvType
  <2>1. conv = [k \in Conversations |-> conv[k]]
    BY <1>1 DEF InitContact
  <2> QED
    BY <1>6, <2>1 DEF ConvType
<1>8. AliasType
  BY <1>2, <1>4 DEF AliasType
<1>9. TypeOK
  <2>1. LaneType
    BY <1>2 DEF LaneType
  <2>2. CountsType
    BY <1>2, CorrespondenceAssumption DEF CountsType
  <2> QED
    BY <1>3, <1>5, <1>7, <1>8, <2>1, <2>2 DEF TypeOK
<1>10. \A d \in Directions : lane[d] = None /\ request[d] = None /\ withdrawn[d] = {}
  BY <1>2
<1>11. \A a \in AliasIds : alias[a] # None =>
          /\ AliasLoads(a, alias[a]) /\ IsFiniteSet(alias[a].approvals)
          /\ Traced(a, alias[a].existing)
          /\ alias[a].approvals = {} /\ alias[a].permission.lanes = {}
  BY <1>2, <1>4
<1>12. LanesFit /\ Allowances /\ Addresses
  BY <1>3, <1>10, <1>11 DEF LanesFit, Allowances, Addresses, Traced
<1>13. Deliveries /\ Receipts
  <2>1. Deliveries
    BY <1>3, <1>10 DEF Deliveries
  <2>2. \A k \in Conversations, d \in Directions : conv[k] # None => conv[k].received[d[1]] = None
    BY <1>6, DirectionFields
  <2> QED
    BY <1>10, <2>1, <2>2 DEF Receipts
<1>14. Contents
  BY <1>3, <1>6 DEF Contents, RestrictedContentStays
<1> QED
  BY <1>9, <1>12, <1>13, <1>14 DEF IInv

LEMMA StutterKeeps ==
    ASSUME IInv, UNCHANGED vars
    PROVE  IInv'
<1>1. /\ now' = now /\ rel' = rel /\ lane' = lane /\ due' = due /\ scope' = scope
      /\ request' = request /\ began' = began /\ alias' = alias /\ msg' = msg /\ conv' = conv
      /\ withdrawn' = withdrawn /\ claims' = claims /\ commands' = commands
  BY DEF vars, contact, content
<1>2. Sent' = Sent
  BY <1>1 DEF Sent
<1>3. TypeOK'
  BY <1>1 DEF IInv, TypeOK, RelType, LaneType, AliasType, ConvType, MsgType, CountsType
<1>4. LanesFit' /\ Addresses' /\ Deliveries' /\ Receipts'
  BY <1>1, <1>2 DEF IInv, LanesFit, Addresses, Deliveries, Receipts
<1>5. Allowances'
  <2>1. /\ \A d \in Directions : OnPair(d)' = OnPair(d)
        /\ \A a \in AliasIds : \A s : OnAlias(a, s)' = OnAlias(a, s)
    BY <1>1, <1>2 DEF OnPair, OnAlias, PairLane, AliasLane
  <2>2. \A d \in Directions : lane'[d] # None => Windowed(lane'[d], OnPair(d)', msg')
    BY <1>1, <2>1 DEF IInv, Allowances
  <2>3. \A a \in AliasIds : alias'[a] # None =>
           \A p \in alias'[a].permission.lanes : Windowed(p.lane, OnAlias(a, p.sender)', msg')
    BY <1>1, <2>1 DEF IInv, Allowances
  <2>4. \A m \in Sent' : msg'[m].on # None =>
          /\ msg'[m].on.of \in Directions =>
                /\ lane'[msg'[m].on.of] # None
                /\ msg'[m].on.version <= lane'[msg'[m].on.of].grant.version
          /\ msg'[m].on.of \in AliasIds =>
                /\ alias'[msg'[m].on.of] # None
                /\ msg'[m].on.version <= alias'[msg'[m].on.of].permission.revision
    BY <1>1, <1>2 DEF IInv, Allowances
  <2> QED
    BY <2>2, <2>3, <2>4 DEF Allowances
<1>6. Contents'
  BY <1>1, <1>2 DEF IInv, Contents, Quotable, RestrictedContentStays, Sources, Reached
<1> QED
  BY <1>3, <1>4, <1>5, <1>6 DEF IInv

LEMMA NextKeeps ==
    ASSUME IInv, [Next]_vars
    PROVE  IInv'
<1>1. CASE Tick
  BY <1>1, TickKeeps
<1>2. ASSUME NEW d \in Directions,
             \/ ApplyGrant(d) \/ ReconfirmLane(d) \/ ControlRevoke(d)
             \/ ClaimSchedule(d) \/ LaneHorizon(d)
      PROVE  IInv'
  BY <1>2, ApplyGrantKeeps, ReconfirmLaneKeeps, ControlRevokeKeeps, ClaimScheduleKeeps,
     LaneHorizonKeeps
<1>3. ASSUME NEW d \in Directions,
             \/ Block(d) \/ Revoke(d) \/ Unblock(d) \/ Accept(d) \/ Reject(d)
             \/ ScopeSender(d) \/ RequestExpires(d)
      PROVE  IInv'
  BY <1>3, BlockKeeps, UnblockKeeps, AcceptKeeps
<1>4. ASSUME NEW d \in Directions, ApplyFree(d) \/ SendFollowup(d)
      PROVE  IInv'
  BY <1>4, ApplyFreeKeeps, SendFollowupKeeps
<1>5. ASSUME NEW d \in Directions, NEW k \in Conversations, CreateConversation(d, k)
      PROVE  IInv'
  BY <1>5, CreateConversationKeeps
<1>6. ASSUME NEW d \in Directions, NEW a \in AliasIds, NEW k \in Conversations,
             SubmitRequest(d, a, k)
      PROVE  IInv'
  BY <1>6, SubmitRequestKeeps
<1>7. ASSUME NEW a \in Managed,
             NewAlias(a) \/ RestrictAddress(a) \/ Retire(a) \/ ChangePermission(a)
      PROVE  IInv'
  <2>1. a \in AliasIds
    BY CorrespondenceAssumption
  <2> QED
    BY <1>7, <2>1, NewAliasKeeps, RestrictAddressKeeps, RetireKeeps, ChangePermissionKeeps
<1>8. ASSUME NEW a \in Managed, NEW b \in AliasIds, Replace(a, b)
      PROVE  IInv'
  <2>1. a \in AliasIds
    BY CorrespondenceAssumption
  <2> QED
    BY <1>8, <2>1, ReplaceKeeps
<1>9. ASSUME NEW a \in Managed, NEW s \in Members, NEW k \in Conversations, Approve(a, s, k)
      PROVE  IInv'
  <2>1. a \in AliasIds
    BY CorrespondenceAssumption
  <2> QED
    BY <1>9, <2>1, ApproveKeeps
<1>10. ASSUME NEW a \in AliasIds, NEW s \in Members, NEW k \in Conversations, Send(s, a, k)
       PROVE  IInv'
  BY <1>10, SendKeeps
<1>11. ASSUME NEW p \in Members, NEW k \in Conversations, ChangePolicy(p, k)
       PROVE  IInv'
  BY <1>11, ChangePolicyKeeps
<1>12. CASE UNCHANGED vars
  BY <1>12, StutterKeeps
<1> QED
  BY <1>1, <1>2, <1>3, <1>4, <1>5, <1>6, <1>7, <1>8, <1>9, <1>10, <1>11, <1>12 DEF Next

-----------------------------------------------------------------------------
(***************************************************************************)
(* What the invariant shows.                                               *)
(***************************************************************************)

LEMMA RecordsLoad ==
    ASSUME IInv
    PROVE  StoredRecordsLoad
<1>1. now \in 0..MaxTime /\ commands \in 0..MaxCommands
  BY DEF IInv, TypeOK, CountsType
<1>2. ASSUME NEW d \in Directions
      PROVE  /\ rel[d].state \in RelationshipState
             /\ due[d] # None => due[d] \in Nat
             /\ lane[d] # None => lane[d] \in SenderScopedLane(Message) /\ LaneLoads(lane[d])
             /\ lane[d] # None /\ lane[d].state = "Active" => due[d] = lane[d].horizon
             /\ request[d] # None => request[d] \in AliasIds /\ began[d] \in Conversations
  <2>1. rel[d] \in Relationship
    BY DEF IInv, TypeOK, RelType
  <2>2. rel[d].state \in RelationshipState
    BY <2>1 DEF Relationship
  <2>3. due[d] # None => due[d] \in Nat
    BY DEF IInv, TypeOK, LaneType
  <2>4. lane[d] # None => lane[d] \in SenderScopedLane(Message) /\ LaneLoads(lane[d])
    BY StoredLane
  <2>5. lane[d] # None /\ lane[d].state = "Active" => due[d] = lane[d].horizon
    BY DEF IInv, LanesFit
  <2>6. request[d] # None => request[d] \in AliasIds /\ began[d] \in Conversations
    BY DEF IInv, TypeOK, RelType, Deliveries
  <2> QED
    BY <2>2, <2>3, <2>4, <2>5, <2>6
<1>3. \A a \in AliasIds : alias[a] # None => AliasLoads(a, alias[a])
  BY DEF IInv, Addresses
<1>4. \A k \in Conversations : conv[k] # None => ConversationLoads(conv[k])
  BY DEF IInv, Contents
<1> QED
  BY <1>1, <1>2, <1>3, <1>4 DEF StoredRecordsLoad

LEMMA AllowanceFollows ==
    ASSUME IInv
    PROVE  AllowanceKept
<1>1. \A d \in Directions : lane[d] # None => Windowed(lane[d], OnPair(d), msg)
  BY DEF IInv, Allowances
<1>2. \A a \in AliasIds : alias[a] # None =>
         \A p \in alias[a].permission.lanes : Windowed(p.lane, OnAlias(a, p.sender), msg)
  BY DEF IInv, Allowances
<1> QED
  BY <1>1, <1>2 DEF AllowanceKept, Windowed, OnPair, OnAlias

-----------------------------------------------------------------------------
\* What lets a message through is in force when it is sent.

Invited(x) ==
    /\ x.basis = "Reply" => x.source \notin withdrawn[<<x.author, OwnerOf[x.alias]>>]
    /\ x.alias # None /\ alias[x.alias].life # "Active" =>
          /\ alias[x.alias].life # "Retired"
          /\ \/ \E n \in Sent : /\ msg[n].alias = x.alias /\ msg[n].author = x.author
                                /\ msg[n].conversation = x.conversation
             \/ Names(alias[x.alias].approvals, x.author, x.conversation)

LEMMA AddedIs ==
    ASSUME IInv, NEW x, msg' = Append(msg, x)
    PROVE  \A m \in DOMAIN msg' \ Sent : msg'[m] = x
<1>1. msg \in Seq(Delivery \cup {x})
  <2>1. msg \in Seq(Delivery)
    BY DEF IInv, TypeOK, MsgType
  <2> QED
    BY <2>1
<1>2. Sent = 1..Len(msg) /\ Len(msg) \in Nat
  BY <1>1 DEF Sent
<1>3. DOMAIN msg' = 1..Len(msg) + 1 /\ msg'[Len(msg) + 1] = x
  BY <1>1
<1> QED
  BY <1>2, <1>3

\* An address that is not active lets a message in only as it was restricted.
LEMMA CheckedIs ==
    ASSUME IInv, NEW a \in AliasIds, alias[a] # None, NEW s, NEW k,
           CheckConversation(alias[a], s, k, now), alias[a].life # "Active"
    PROVE  /\ alias[a].life # "Retired"
           /\ \/ \E n \in Sent : /\ msg[n].alias = a /\ msg[n].author = s
                                 /\ msg[n].conversation = k
              \/ Names(alias[a].approvals, s, k)
<1>1. /\ alias[a].life \in {"Restricted", "Replaced"}
      /\ Names(alias[a].existing \cup alias[a].approvals, s, k)
  BY DEF CheckConversation
<1>2. Traced(a, alias[a].existing)
  BY AliasFacts
<1>3. PICK e \in alias[a].existing \cup alias[a].approvals : e.conversation = k /\ e.sender = s
  BY <1>1 DEF Names
<1>4. CASE e \in alias[a].existing
  <2>1. PICK n \in Sent : /\ msg[n].alias = a /\ msg[n].author = e.sender
                          /\ msg[n].conversation = e.conversation
    BY <1>2, <1>4 DEF Traced
  <2> QED
    BY <1>1, <1>3, <2>1
<1>5. CASE e \in alias[a].approvals
  BY <1>1, <1>3, <1>5 DEF Names
<1> QED
  BY <1>3, <1>4, <1>5

LEMMA DirectInvited ==
    ASSUME IInv, NEW s \in Members, NEW a \in AliasIds, NEW k \in Conversations, alias[a] # None,
           NEW names, NEW sources, SendDirect(s, a, k, names, sources)
    PROVE  \A m \in DOMAIN msg' \ Sent : Invited(msg'[m])
<1> DEFINE basis == DirectAuthority(s, a, k, names)
<1>1. basis \in {"AliasLane", "PairedSender", "Standing", "SenderLane"}
      /\ CheckConversation(alias[a], s, k, now)
  <2>1. basis # "None"
    BY DEF SendDirect
  <2> QED
    BY <2>1, DirectBasis
<1>2. PICK on, open :
         msg' = Append(msg, Delivered(s, k, a, basis, None, on, sources, open))
  BY DEF SendDirect, Deliver
<1> HIDE DEF basis
<1> DEFINE x == Delivered(s, k, a, basis, None, on, sources, open)
<1>3. x.basis = basis /\ x.author = s /\ x.conversation = k /\ x.alias = a
  BY DEF Delivered
<1>4. \A m \in DOMAIN msg' \ Sent : msg'[m] = x
  BY <1>2, AddedIs
<1> HIDE DEF x
<1>5. x.basis # "Reply"
  BY <1>1, <1>3
<1>6. alias[a].life # "Active" =>
         /\ alias[a].life # "Retired"
         /\ \/ \E n \in Sent : /\ msg[n].alias = a /\ msg[n].author = s
                               /\ msg[n].conversation = k
            \/ Names(alias[a].approvals, s, k)
  BY <1>1, CheckedIs
<1>7. Invited(x)
  BY <1>3, <1>5, <1>6 DEF Invited
<1> QED
  BY <1>4, <1>7

\* The message an answer rests on was received in the present reply epoch.
LEMMA AnsweredSince ==
    ASSUME IInv, NEW d \in Directions, NEW k \in Conversations, AnswerBasis(d, k) # None
    PROVE  AnswerBasis(d, k) \notin withdrawn[d]
<1>1. /\ conv[k] # None /\ conv[k].scope = {d[1], d[2]}
      /\ AnswerBasis(d, k) = ReplySource(conv[k], d[1], rel[d].epoch)
  BY DEF AnswerBasis
<1>2. /\ conv[k].received[d[1]] # None /\ conv[k].received[d[1]].epoch = rel[d].epoch
      /\ AnswerBasis(d, k) = conv[k].received[d[1]].message
  BY <1>1 DEF ReplySource
<1> QED
  BY <1>1, <1>2 DEF IInv, Receipts

LEMMA AnswerInvited ==
    ASSUME IInv, NEW s \in Members, NEW a \in AliasIds, NEW k \in Conversations, alias[a] # None,
           NEW names, NEW sources, SendAnswer(s, a, k, names, sources)
    PROVE  \A m \in DOMAIN msg' \ Sent : Invited(msg'[m])
<1> DEFINE d == <<s, OwnerOf[a]>>
           basis == IF rel[d].state = "Accepted" THEN "Standing"
                    ELSE IF names THEN "SenderLane" ELSE "Reply"
           source == IF basis = "Reply" THEN AnswerBasis(d, k) ELSE None
<1>1. AnswerBasis(d, k) # None /\ CheckConversation(alias[a], s, k, now)
  BY DEF SendAnswer
<1>2. PICK on, open :
         msg' = Append(msg, Delivered(s, k, a, basis, source, on, sources, open))
  BY DEF SendAnswer, Deliver
<1>3. d \in Directions
  BY <1>1 DEF AnswerBasis
<1>4. AnswerBasis(d, k) \notin withdrawn[d]
  BY <1>1, <1>3, AnsweredSince
<1>5. basis = "Reply" => source \notin withdrawn[d]
  BY <1>4
<1> HIDE DEF basis, source
<1> DEFINE x == Delivered(s, k, a, basis, source, on, sources, open)
<1>6. /\ x.basis = basis /\ x.author = s /\ x.conversation = k /\ x.alias = a
      /\ x.source = source
  BY DEF Delivered
<1>7. \A m \in DOMAIN msg' \ Sent : msg'[m] = x
  BY <1>2, AddedIs
<1> HIDE DEF x
<1>8. alias[a].life # "Active" =>
         /\ alias[a].life # "Retired"
         /\ \/ \E n \in Sent : /\ msg[n].alias = a /\ msg[n].author = s
                               /\ msg[n].conversation = k
            \/ Names(alias[a].approvals, s, k)
  BY <1>1, CheckedIs
<1>9. Invited(x)
  BY <1>5, <1>6, <1>8 DEF Invited
<1> QED
  BY <1>7, <1>9

LEMMA RequestInvited ==
    ASSUME IInv, NEW d \in Directions, NEW a \in AliasIds, NEW k \in Conversations,
           SubmitRequest(d, a, k)
    PROVE  \A m \in DOMAIN msg' \ Sent : Invited(msg'[m])
<1> DEFINE x == Delivered(d[1], k, a, "Request", None, None, {}, TRUE)
<1>1. msg' = Append(msg, x) /\ alias[a].life = "Active"
  BY DEF SubmitRequest
<1>2. x.basis = "Request" /\ x.alias = a
  BY DEF Delivered
<1>3. \A m \in DOMAIN msg' \ Sent : msg'[m] = x
  BY <1>1, AddedIs
<1> HIDE DEF x
<1>4. Invited(x)
  BY <1>1, <1>2 DEF Invited
<1> QED
  BY <1>3, <1>4

LEMMA FollowupInvited ==
    ASSUME IInv, NEW d \in Directions, SendFollowup(d)
    PROVE  \A m \in DOMAIN msg' \ Sent : Invited(msg'[m])
<1> DEFINE k == began[d]
           a == request[d]
           open == ~Restricts(<<d[2], d[1]>>)
           x == Delivered(d[1], k, a, "Followup", None, None, {}, open)
<1>1. /\ a # None /\ CheckConversation(alias[a], d[1], k, now)
      /\ msg' = Append(msg, x)
  BY DEF SendFollowup
<1>2. a \in AliasIds /\ alias[a] # None
  BY <1>1 DEF IInv, TypeOK, RelType, Deliveries
<1>3. x.basis = "Followup" /\ x.alias = a /\ x.author = d[1] /\ x.conversation = k
  BY DEF Delivered
<1>4. \A m \in DOMAIN msg' \ Sent : msg'[m] = x
  BY <1>1, AddedIs
<1> HIDE DEF x, k, a
<1>5. alias[a].life # "Active" =>
         /\ alias[a].life # "Retired"
         /\ \/ \E n \in Sent : /\ msg[n].alias = a /\ msg[n].author = d[1]
                               /\ msg[n].conversation = k
            \/ Names(alias[a].approvals, d[1], k)
  BY <1>1, <1>2, CheckedIs
<1>6. Invited(x)
  BY <1>3, <1>5 DEF Invited
<1> QED
  BY <1>4, <1>6

LEMMA FreeInvited ==
    ASSUME IInv, NEW d \in Directions, ApplyFree(d)
    PROVE  \A m \in DOMAIN msg' \ Sent : Invited(msg'[m])
<1>1. ASSUME NEW basis, basis # "Reply", NEW on,
             msg' = Append(msg, Delivered(d[1], None, None, basis, None, on, {}, FALSE))
      PROVE  \A m \in DOMAIN msg' \ Sent : Invited(msg'[m])
  <2> DEFINE x == Delivered(d[1], None, None, basis, None, on, {}, FALSE)
  <2>1. x.basis # "Reply" /\ x.alias = None
    BY <1>1 DEF Delivered
  <2>2. \A m \in DOMAIN msg' \ Sent : msg'[m] = x
    BY <1>1, AddedIs
  <2> HIDE DEF x
  <2> QED
    BY <2>1, <2>2 DEF Invited
<1>2. CASE rel[d].state = "Accepted"
  <2>1. msg' = Append(msg, Delivered(d[1], None, None, "Standing", None, None, {}, FALSE))
    BY <1>2 DEF ApplyFree
  <2> QED
    BY <1>1, <2>1
<1>3. CASE rel[d].state # "Accepted"
  <2>1. msg' = Append(msg, Delivered(d[1], None, None, "SenderLane", None, PairLane(d), {}, FALSE))
    BY <1>3 DEF ApplyFree
  <2> QED
    BY <1>1, <2>1
<1> QED
  BY <1>2, <1>3

LEMMA SilentInvited ==
    ASSUME UNCHANGED msg
    PROVE  \A m \in DOMAIN msg' \ Sent : Invited(msg'[m])
BY DEF Sent

LEMMA StepInvited ==
    ASSUME IInv, [Next]_vars
    PROVE  \A m \in DOMAIN msg' \ Sent : Invited(msg'[m])
<1>1. CASE \/ Tick
           \/ \E d \in Directions :
                \/ ApplyGrant(d) \/ ReconfirmLane(d) \/ ControlRevoke(d)
                \/ ClaimSchedule(d) \/ LaneHorizon(d)
                \/ Block(d) \/ Revoke(d) \/ Unblock(d) \/ Accept(d) \/ Reject(d)
                \/ ScopeSender(d) \/ RequestExpires(d)
                \/ \E k \in Conversations : CreateConversation(d, k)
           \/ \E p \in Members, k \in Conversations : ChangePolicy(p, k)
           \/ UNCHANGED vars
  <2>1. UNCHANGED msg
    BY <1>1 DEF Tick, ApplyGrant, ReconfirmLane, ControlRevoke, ClaimSchedule, LaneHorizon,
       Block, Revoke, Unblock, Accept, Reject, ScopeSender, RequestExpires, CreateConversation,
       ChangePolicy, content, vars
  <2> QED
    BY <2>1, SilentInvited
<1>2. CASE \E a \in Managed :
             \/ NewAlias(a) \/ RestrictAddress(a) \/ Retire(a) \/ ChangePermission(a)
             \/ \E b \in AliasIds : Replace(a, b)
             \/ \E s \in Members, k \in Conversations : Approve(a, s, k)
  <2>1. UNCHANGED msg
    BY <1>2 DEF NewAlias, RestrictAddress, Retire, ChangePermission, Replace, Approve,
       AliasCommand, content
  <2> QED
    BY <2>1, SilentInvited
<1>3. ASSUME NEW d \in Directions, ApplyFree(d) \/ SendFollowup(d)
      PROVE  \A m \in DOMAIN msg' \ Sent : Invited(msg'[m])
  BY <1>3, FreeInvited, FollowupInvited
<1>4. ASSUME NEW d \in Directions, NEW a \in AliasIds, NEW k \in Conversations,
             SubmitRequest(d, a, k)
      PROVE  \A m \in DOMAIN msg' \ Sent : Invited(msg'[m])
  BY <1>4, RequestInvited
<1>5. ASSUME NEW a \in AliasIds, NEW s \in Members, NEW k \in Conversations, Send(s, a, k)
      PROVE  \A m \in DOMAIN msg' \ Sent : Invited(msg'[m])
  <2>1. alias[a] # None
    BY <1>5 DEF Send
  <2>2. PICK names, sources :
           SendDirect(s, a, k, names, sources) \/ SendAnswer(s, a, k, names, sources)
    BY <1>5 DEF Send
  <2> QED
    BY <2>1, <2>2, DirectInvited, AnswerInvited
<1> QED
  BY <1>1, <1>2, <1>3, <1>4, <1>5 DEF Next

-----------------------------------------------------------------------------
(***************************************************************************)
(* The theorems.                                                           *)
(***************************************************************************)

\* The four parts of the argument hold after any commands, horizons and
\* messages.
THEOREM CorrespondenceInvariant ==
    Spec => []IInv
<1>1. Init => IInv
  BY InitKeeps
<1>2. IInv /\ [Next]_vars => IInv'
  BY NextKeeps
<1> QED
  BY <1>1, <1>2, PTL DEF Spec

\* Whatever a command, a horizon or a message stores can be read again, and a
\* lane in force has its horizon scheduled at the time it holds.
THEOREM RecordsAlwaysLoad ==
    Spec => []StoredRecordsLoad
<1>1. IInv => StoredRecordsLoad
  BY RecordsLoad
<1> QED
  BY <1>1, CorrespondenceInvariant, PTL

\* No lane, of a pair or in an address's record, lets more messages through in
\* a rate window than its grant allows, and it counts the ones it let through.
THEOREM AllowanceAlwaysKept ==
    Spec => []AllowanceKept
<1>1. IInv => AllowanceKept
  BY AllowanceFollows
<1> QED
  BY <1>1, CorrespondenceInvariant, PTL

\* Nothing made from a conversation whose reuse has always been restricted is
\* sent to another pair, however many messages lie between.
THEOREM RestrictedContentAlwaysStays ==
    Spec => []RestrictedContentStays
<1>1. IInv => RestrictedContentStays
  BY DEF IInv, Contents
<1> QED
  BY <1>1, CorrespondenceInvariant, PTL

\* What lets a message through is in force as it is sent: an answer rests on a
\* message received since the last withdrawal, and an address that is restricted
\* or replaced takes messages only where it had admitted or approved them.
THEOREM MessagesAlwaysInvited ==
    Spec => MessagesStillInvited
<1> DEFINE A == \A m \in DOMAIN msg' \ Sent :
                   LET a == msg'[m].alias
                       author == msg'[m].author
                   IN  /\ msg'[m].basis = "Reply" =>
                             msg'[m].source \notin withdrawn[<<author, OwnerOf[a]>>]
                       /\ a # None /\ alias[a].life # "Active" =>
                             /\ alias[a].life # "Retired"
                             /\ \/ \E n \in Sent : /\ msg[n].alias = a /\ msg[n].author = author
                                                   /\ msg[n].conversation = msg'[m].conversation
                                \/ Names(alias[a].approvals, author, msg'[m].conversation)
<1>1. IInv /\ [Next]_vars => [A]_vars
  BY StepInvited DEF Invited
<1> QED
  BY <1>1, CorrespondenceInvariant, PTL DEF Spec, MessagesStillInvited
=============================================================================
