------------------------- MODULE ExternalEmail_proofs -------------------------
(***************************************************************************)
(* A letter goes to its carrier once, a mail comes in once, and the        *)
(* member's client misses no change, for any number of conversations,      *)
(* messages, mails, workers, sessions, commands and faults.                *)
(*                                                                         *)
(* The argument has three parts.  A letter is begun by one worker only,    *)
(* and what that worker still holds, the record of the letter and the      *)
(* carrier say the same (Dispatch).  A lane has a version no mail was      *)
(* admitted under before it was granted, so its allowance counts exactly   *)
(* its own mails; and an invitation that a decision ended names an older   *)
(* version (Admission).  The unread messages of a conversation are in an   *)
(* order without repetition, so that a bound that counts them stays one    *)
(* (Observation).                                                          *)
(***************************************************************************)
EXTENDS ExternalEmail, FiniteSetTheorems, SequenceTheorems, TLAPS

\* A worker that has begun a letter and has not recorded how it ended.
Holds(w, l) == worker[w].letter = l /\ worker[w].step \in {"submit", "accepted", "failed"}

WorkersPlaced ==
    /\ \A w \in Workers : worker[w].step # "idle" => worker[w].letter \in Letters
    /\ \A v, w \in Workers : \A l \in Letters : Holds(v, l) /\ Holds(w, l) => v = w

\* What one letter's record says of the carrier, and what the worker that has
\* begun it may rely on.
LetterFits(d, c) ==
    /\ c.times \in {0, 1} /\ (c.taken => c.times = 1)
    /\ d \in {"None", "Waiting", "Cancelled"} => c.times = 0
    /\ d = "Accepted" => c.taken
    /\ d = "Failed" => ~c.taken

HolderFits(step, d, c) ==
    /\ step = "submit" => d = "DispatchBegun" /\ c.times = 0
    /\ step = "accepted" => d \in {"DispatchBegun", "Accepted"} /\ c.taken
    /\ step = "failed" => d = "DispatchBegun" /\ ~c.taken

WithdrawnStays == \A l \in withdrawn : l[1] = "message" /\ delivery[l] = "Cancelled"

Dispatch ==
    /\ WorkersPlaced
    /\ \A l \in Letters : LetterFits(delivery[l], carrier[l])
    /\ \A w \in Workers : \A l \in Letters :
          Holds(w, l) => HolderFits(worker[w].step, delivery[l], carrier[l])
    /\ WithdrawnStays

SessionsPlaced ==
    \A s \in Sessions :
        /\ session[s].step # "idle" => session[s].mail \in Mails
        /\ session[s].step = "prompt" => session[s].mail \in ToAddress
        /\ session[s].step = "admit" /\ session[s].mail \notin ToAddress => conv[Thread[session[s].mail]] # None

PromptsPlaced ==
    /\ prompted \subseteq ToAddress
    /\ \A i \in ToAddress : delivery[Notice(i)] # "None" => i \in prompted
    /\ \A i \in prompted : admitted[i] = None

OnLane(id) == {i \in Mails : admitted[i] # None /\ admitted[i].lane = id}

LanesCounted ==
    /\ lane # None => rel # None /\ lane.id <= rel.version
    /\ \A i \in Mails : admitted[i] # None /\ admitted[i].lane # None =>
          rel # None /\ admitted[i].lane <= rel.version
    /\ lane # None => IsFiniteSet(OnLane(lane.id)) /\ lane.left = Limit - Cardinality(OnLane(lane.id))

Invited ==
    /\ \A k \in Conversations : conv[k] # None /\ conv[k].invitation # "NotRequired" =>
          /\ rel # None /\ conv[k].version <= rel.version
          /\ conv[k].decided => conv[k].version < rel.version
    /\ \A i \in Mails : admitted[i] # None /\ admitted[i].on = "Pending" => ~admitted[i].decided

Admission == SessionsPlaced /\ PromptsPlaced /\ LanesCounted /\ Invited

\* What is visible of the messages, and in what order they are unread.
QueuedFinite == IsFiniteSet({m \in Outgoing : delivery[Message(m)] # "None"})

OrdersInjective == \A k \in Conversations : IsInjective(unread[k])

Observation == QueuedFinite /\ OrdersInjective /\ ObservationsCurrent

IInv == TypeOK /\ Dispatch /\ Admission /\ Observation

\* The parts of TypeOK, by what the actions change together.
ContactType ==
    /\ rel \in Relationship \cup {None}
    /\ lane \in Lane \cup {None}
    /\ covered \in BOOLEAN
    /\ scope \in Nat \cup {None}
    /\ address \in [policy : {"Bonded", "AliasScoped"}, broad : BOOLEAN,
                    restricted : BOOLEAN, kept : SUBSET Conversations,
                    overtaken : SUBSET Letters]

ConvType == conv \in [Conversations -> ExternalConversation \cup {None}]

LettersType ==
    /\ delivery \in [Letters -> DeliveryState]
    /\ events \in [Letters -> SUBSET Events]
    /\ withdrawn \subseteq Letters

HandsType ==
    /\ carrier \in [Letters -> [times : Nat, taken : BOOLEAN]]
    /\ worker \in [Workers -> [letter : Letters \cup {None},
                               step : {"idle", "begin", "submit", "accepted", "failed"}]]

SessionsType ==
    session \in [Sessions -> [mail : Mails \cup {None}, step : {"idle", "admit", "prompt"},
                              lane : Nat \cup {None}]]

MailsType ==
    /\ admitted \in [Mails -> Admittance \cup {None}]
    /\ prompted \subseteq Mails
    /\ notified \in BOOLEAN

UnreadType ==
    /\ unread \in [Conversations -> Seq(Outgoing \cup Mails)]
    /\ bound \in [Conversations -> Nat \cup {None}]
    /\ \A k \in Conversations : bound[k] # None => bound[k] <= Len(unread[k])

SeenType ==
    seen \in [Outgoing \cup Mails -> {None} \cup (DeliveryState \cup {"Received"}) \X SUBSET Events]

CountsType == commands \in 0..MaxCommands /\ faults \in 0..MaxFaults

LEMMA TypeParts ==
    TypeOK <=> /\ ContactType /\ ConvType /\ LettersType /\ HandsType /\ SessionsType
               /\ MailsType /\ UnreadType /\ SeenType /\ CountsType
BY DEF TypeOK, ContactType, ConvType, LettersType, HandsType, SessionsType, MailsType,
   UnreadType, SeenType, CountsType

LEMMA TypePartsNext ==
    TypeOK' <=> /\ ContactType' /\ ConvType' /\ LettersType' /\ HandsType' /\ SessionsType'
                /\ MailsType' /\ UnreadType' /\ SeenType' /\ CountsType'
BY DEF TypeOK, ContactType, ConvType, LettersType, HandsType, SessionsType, MailsType,
   UnreadType, SeenType, CountsType

-----------------------------------------------------------------------------
(***************************************************************************)
(* Letters, conversations and orders.                                      *)
(***************************************************************************)

LEMMA LettersAre ==
    /\ \A m \in Outgoing : Message(m) \in Letters /\ Message(m)[1] = "message" /\ Message(m)[2] = m
    /\ \A i \in ToAddress : Notice(i) \in Letters /\ Notice(i)[1] = "notice" /\ Notice(i)[2] = i
    /\ \A l \in Letters : \/ l[1] = "message" /\ l[2] \in Outgoing /\ l = Message(l[2])
                          \/ l[1] = "notice" /\ l[2] \in ToAddress /\ l = Notice(l[2])
BY DEF Letters, Message, Notice

LEMMA Conversing ==
    /\ \A x \in Outgoing \cup Mails : ConversationOf(x) \in Conversations
    /\ \A m \in Outgoing : ConversationOf(m) = InConversation[m] /\ InConversation[m] \in Conversations
    /\ \A i \in Mails : i \notin Outgoing /\ ConversationOf(i) = Thread[i] /\ Thread[i] \in Conversations
BY ExternalAssumption DEF ConversationOf

\* What SetToSeqs orders: every element of a finite set, once.
LEMMA OrdersOf ==
    ASSUME NEW S, IsFiniteSet(S), NEW s \in SetToSeqs(S)
    PROVE  /\ s \in Seq(S) /\ Len(s) = Cardinality(S)
           /\ ToSet(s) = S /\ IsInjective(s)
<1> DEFINE D == 1..Cardinality(S)
<1>1. Cardinality(S) \in Nat
  BY FS_CardinalityType
<1>2. s \in [D -> S] /\ \A i, j \in D : i # j => s[i] # s[j]
  BY DEF SetToSeqs
<1>3. IsInjective(s)
  BY <1>2 DEF IsInjective
<1>4. s \in Injection(D, S)
  BY <1>2, <1>3 DEF Injection
<1>5. IsFiniteSet(D) /\ Cardinality(D) = Cardinality(S)
  BY <1>1, FS_Interval
<1>6. s \in Surjection(D, S)
  BY <1>4, <1>5, FS_Injection
<1>7. ToSet(s) = S
  BY <1>2, <1>6 DEF Surjection, ToSet
<1>8. s \in Seq(S) /\ Len(s) = Cardinality(S)
  BY <1>1, <1>2
<1> QED
  BY <1>3, <1>7, <1>8

LEMMA ElementsOf ==
    ASSUME NEW S, NEW s \in Seq(S)
    PROVE  /\ ToSet(s) = {s[i] : i \in 1..Len(s)} /\ ToSet(s) \subseteq S
           /\ IsFiniteSet(ToSet(s))
<1>1. /\ Len(s) \in Nat /\ DOMAIN s = 1..Len(s)
      /\ \A i \in 1..Len(s) : s[i] \in S
  OBVIOUS
<1>2. ToSet(s) = {s[i] : i \in 1..Len(s)} /\ ToSet(s) \subseteq S
  BY <1>1 DEF ToSet
<1>3. s \in Surjection(1..Len(s), ToSet(s))
  <2>1. s \in [1..Len(s) -> ToSet(s)]
    BY <1>1, <1>2
  <2> QED
    BY <1>2, <2>1 DEF Surjection
<1>4. IsFiniteSet(1..Len(s))
  BY <1>1, FS_Interval
<1> QED
  BY <1>2, <1>3, <1>4, FS_Surjection

LEMMA Joined ==
    ASSUME NEW S, NEW s \in Seq(S), NEW t \in Seq(S), IsInjective(s), IsInjective(t),
           ToSet(s) \cap ToSet(t) = {}
    PROVE  /\ s \o t \in Seq(S) /\ Len(s \o t) = Len(s) + Len(t)
           /\ ToSet(s \o t) = ToSet(s) \cup ToSet(t) /\ IsInjective(s \o t)
<1> DEFINE u == s \o t
<1>1. /\ u \in Seq(S) /\ Len(u) = Len(s) + Len(t)
      /\ \A i \in 1..Len(s) + Len(t) : u[i] = IF i <= Len(s) THEN s[i] ELSE t[i - Len(s)]
  BY ConcatProperties
<1>2. /\ Len(s) \in Nat /\ Len(t) \in Nat
      /\ DOMAIN s = 1..Len(s) /\ DOMAIN t = 1..Len(t) /\ DOMAIN u = 1..Len(s) + Len(t)
  BY <1>1
<1>3. /\ \A i \in 1..Len(s) : s[i] \in ToSet(s)
      /\ \A i \in 1..Len(t) : t[i] \in ToSet(t)
  BY <1>2 DEF ToSet
<1> HIDE DEF u
<1>4. ASSUME NEW i \in DOMAIN u, NEW j \in DOMAIN u, u[i] = u[j]
      PROVE  i = j
  <2>1. CASE i <= Len(s) /\ j <= Len(s)
    BY <1>1, <1>2, <1>4, <2>1 DEF IsInjective
  <2>2. CASE i > Len(s) /\ j > Len(s)
    <3>1. i - Len(s) \in 1..Len(t) /\ j - Len(s) \in 1..Len(t)
      BY <1>2, <2>2
    <3>2. t[i - Len(s)] = t[j - Len(s)]
      BY <1>1, <1>2, <1>4, <2>2
    <3>3. i - Len(s) = j - Len(s)
      BY <1>2, <3>1, <3>2 DEF IsInjective
    <3> QED
      BY <1>2, <3>3
  <2>3. CASE i <= Len(s) /\ j > Len(s)
    <3>1. i \in 1..Len(s) /\ j - Len(s) \in 1..Len(t)
      BY <1>2, <2>3
    <3>2. s[i] = t[j - Len(s)]
      BY <1>1, <1>2, <1>4, <2>3
    <3> QED
      BY <1>3, <3>1, <3>2
  <2>4. CASE i > Len(s) /\ j <= Len(s)
    <3>1. j \in 1..Len(s) /\ i - Len(s) \in 1..Len(t)
      BY <1>2, <2>4
    <3>2. s[j] = t[i - Len(s)]
      BY <1>1, <1>2, <1>4, <2>4
    <3> QED
      BY <1>3, <3>1, <3>2
  <2> QED
    BY <1>2, <2>1, <2>2, <2>3, <2>4
<1>5. ToSet(u) \subseteq ToSet(s) \cup ToSet(t)
  <2> SUFFICES ASSUME NEW i \in DOMAIN u PROVE u[i] \in ToSet(s) \cup ToSet(t)
    BY DEF ToSet
  <2>1. CASE i <= Len(s)
    BY <1>1, <1>2, <1>3, <2>1
  <2>2. CASE i > Len(s)
    <3>1. i - Len(s) \in 1..Len(t) /\ u[i] = t[i - Len(s)]
      BY <1>1, <1>2, <2>2
    <3> QED
      BY <1>3, <3>1
  <2> QED
    BY <1>2, <2>1, <2>2
<1>6. ToSet(s) \cup ToSet(t) \subseteq ToSet(u)
  <2>1. ASSUME NEW i \in 1..Len(s) PROVE s[i] \in ToSet(u)
    <3>1. i \in DOMAIN u /\ u[i] = s[i]
      BY <1>1, <1>2
    <3> QED
      BY <3>1 DEF ToSet
  <2>2. ASSUME NEW i \in 1..Len(t) PROVE t[i] \in ToSet(u)
    <3>1. i + Len(s) \in DOMAIN u /\ ~(i + Len(s) <= Len(s)) /\ (i + Len(s)) - Len(s) = i
      BY <1>2
    <3>2. u[i + Len(s)] = t[i]
      BY <1>1, <1>2, <3>1
    <3> QED
      BY <3>1, <3>2 DEF ToSet
  <2> QED
    BY <1>2, <2>1, <2>2 DEF ToSet
<1>7. IsInjective(u)
  BY <1>4 DEF IsInjective
<1> QED
  BY <1>1, <1>5, <1>6, <1>7 DEF u

\* Of the first b of an order, those that stay are among all that stay.
LEMMA BoundStays ==
    ASSUME NEW S, NEW u \in Seq(S), IsInjective(u), NEW xs, NEW b \in Nat, b <= Len(u)
    PROVE  LET within == {n \in 1..b : u[n] \in xs} IN
           /\ b - Cardinality(within) \in Nat
           /\ b - Cardinality(within) <= Cardinality(ToSet(u) \ xs)
<1> DEFINE within == {n \in 1..b : u[n] \in xs}
           outside == (1..b) \ within
           rest == ToSet(u) \ xs
<1>1. Len(u) \in Nat /\ DOMAIN u = 1..Len(u) /\ 1..b \subseteq 1..Len(u)
  OBVIOUS
<1>2. IsFiniteSet(1..b) /\ Cardinality(1..b) = b
  BY FS_Interval
<1>3. (1..b) \cap within = within
  OBVIOUS
<1>4. IsFiniteSet(outside) /\ Cardinality(outside) = b - Cardinality(within)
  <2> HIDE DEF within
  <2>1. /\ IsFiniteSet((1..b) \ within)
        /\ Cardinality((1..b) \ within) = Cardinality(1..b) - Cardinality((1..b) \cap within)
    BY <1>2, FS_Difference
  <2> QED
    BY <1>2, <1>3, <2>1
<1>5. IsFiniteSet(rest)
  <2>1. IsFiniteSet(ToSet(u))
    BY ElementsOf
  <2> QED
    BY <2>1, FS_Difference
<1>6. \A n \in outside : n \in DOMAIN u /\ u[n] \in rest
  BY <1>1 DEF ToSet
<1> DEFINE f == [n \in outside |-> u[n]]
<1>7. f \in Injection(outside, rest)
  <2>1. f \in [outside -> rest]
    BY <1>6
  <2>2. IsInjective(f)
    BY <1>6 DEF IsInjective
  <2> QED
    BY <2>1, <2>2 DEF Injection
<1> HIDE DEF f, outside, rest
<1>8. Cardinality(outside) <= Cardinality(rest)
  BY <1>5, <1>7, FS_Injection
<1>9. Cardinality(outside) \in Nat
  BY <1>4, FS_CardinalityType
<1>10. b - Cardinality(within) \in Nat /\ b - Cardinality(within) <= Cardinality(rest)
  BY <1>4, <1>8, <1>9
<1> QED
  BY <1>10 DEF rest

\* What observe_message does to the unread messages of a conversation.
LEMMA Observes ==
    ASSUME UnreadType, OrdersInjective, NEW k \in Conversations,
           NEW xs \in SUBSET (Outgoing \cup Mails), IsFiniteSet(xs), Observe(k, xs)
    PROVE  /\ UnreadType' /\ OrdersInjective'
           /\ \A j \in Conversations : ToSet(unread[j]) \subseteq ToSet(unread'[j])
           /\ xs \subseteq ToSet(unread'[k])
<1> DEFINE X == Outgoing \cup Mails
           u == unread[k]
           rest == ToSet(u) \ xs
           within == {n \in 1..bound[k] : u[n] \in xs}
<1>1. /\ unread \in [Conversations -> Seq(X)] /\ u \in Seq(X) /\ IsInjective(u)
      /\ bound \in [Conversations -> Nat \cup {None}]
      /\ \A j \in Conversations : bound[j] # None => bound[j] <= Len(unread[j])
  BY DEF UnreadType, OrdersInjective
<1>2. ToSet(u) \subseteq X /\ IsFiniteSet(ToSet(u))
  BY <1>1, ElementsOf
<1>3. IsFiniteSet(rest)
  BY <1>2, FS_Difference
<1>4. PICK left \in SetToSeqs(rest), moved \in SetToSeqs(xs) :
         unread' = [unread EXCEPT ![k] = left \o moved]
  BY DEF Observe
<1>5. bound' = [bound EXCEPT ![k] = IF bound[k] = None THEN None ELSE bound[k] - Cardinality(within)]
  BY DEF Observe
<1>6. /\ left \in Seq(rest) /\ Len(left) = Cardinality(rest)
      /\ ToSet(left) = rest /\ IsInjective(left)
  BY <1>3, OrdersOf
<1>7. /\ moved \in Seq(xs) /\ Len(moved) = Cardinality(xs)
      /\ ToSet(moved) = xs /\ IsInjective(moved)
  BY OrdersOf
<1>8. left \in Seq(X) /\ moved \in Seq(X) /\ ToSet(left) \cap ToSet(moved) = {}
  <2>1. rest \subseteq X
    BY <1>2
  <2> QED
    BY <1>6, <1>7, <2>1, SeqMonotonic
<1>9. /\ left \o moved \in Seq(X) /\ Len(left \o moved) = Len(left) + Len(moved)
      /\ ToSet(left \o moved) = ToSet(left) \cup ToSet(moved) /\ IsInjective(left \o moved)
  BY <1>6, <1>7, <1>8, Joined
<1> HIDE DEF X, u, rest, within
<1>10. unread' \in [Conversations -> Seq(X)]
  BY <1>1, <1>4, <1>9
<1>11. /\ unread'[k] = left \o moved
       /\ \A j \in Conversations : j # k => unread'[j] = unread[j]
  BY <1>1, <1>4
<1>12. bound[k] # None => /\ bound'[k] \in Nat /\ bound'[k] <= Cardinality(rest)
  <2> SUFFICES ASSUME bound[k] # None PROVE bound'[k] \in Nat /\ bound'[k] <= Cardinality(rest)
    OBVIOUS
  <2>1. bound[k] \in Nat /\ bound[k] <= Len(u) /\ u \in Seq(X) /\ IsInjective(u)
    BY <1>1 DEF u
  <2>2. /\ bound[k] - Cardinality(within) \in Nat
        /\ bound[k] - Cardinality(within) <= Cardinality(rest)
    BY <2>1, BoundStays DEF within, rest
  <2> QED
    BY <1>1, <1>5, <2>2
<1>13. bound[k] = None => bound'[k] = None
  BY <1>1, <1>5
<1>14. bound' \in [Conversations -> Nat \cup {None}]
  BY <1>1, <1>5, <1>12, <1>13
<1>15. ASSUME NEW j \in Conversations, bound'[j] # None PROVE bound'[j] <= Len(unread'[j])
  <2>1. CASE j = k
    <3>1. /\ bound'[k] \in Nat /\ bound'[k] <= Cardinality(rest)
      BY <1>12, <1>13, <1>15, <2>1
    <3>2. Cardinality(rest) \in Nat /\ Cardinality(xs) \in Nat
      BY <1>3, FS_CardinalityType
    <3>3. Len(unread'[k]) = Cardinality(rest) + Cardinality(xs)
      BY <1>6, <1>7, <1>9, <1>11
    <3> QED
      BY <2>1, <3>1, <3>2, <3>3
  <2>2. CASE j # k
    BY <1>1, <1>5, <1>11, <1>15, <2>2
  <2> QED
    BY <2>1, <2>2
<1>16. UnreadType'
  BY <1>10, <1>14, <1>15 DEF UnreadType, X
<1>17. OrdersInjective'
  BY <1>9, <1>11 DEF OrdersInjective
<1>18. ToSet(unread'[k]) = rest \cup xs
  BY <1>6, <1>7, <1>9, <1>11
<1>19. xs \subseteq ToSet(unread'[k])
  BY <1>18
<1>20. ASSUME NEW j \in Conversations PROVE ToSet(unread[j]) \subseteq ToSet(unread'[j])
  <2>1. CASE j = k
    BY <1>18, <2>1 DEF rest, u
  <2>2. CASE j # k
    BY <1>11, <2>2
  <2> QED
    BY <2>1, <2>2
<1> QED
  BY <1>16, <1>17, <1>19, <1>20

-----------------------------------------------------------------------------
(***************************************************************************)
(* Steps that leave a part of the invariant alone.                         *)
(***************************************************************************)

LEMMA DispatchFrame ==
    ASSUME Dispatch, UNCHANGED <<delivery, carrier, worker, withdrawn>>
    PROVE  Dispatch'
BY DEF Dispatch, WorkersPlaced, LetterFits, HolderFits, Holds, WithdrawnStays

\* A conversation that exists goes on existing.
LEMMA SessionsFrame ==
    ASSUME SessionsPlaced, UNCHANGED session,
           \A k \in Conversations : conv[k] # None => conv'[k] # None
    PROVE  SessionsPlaced'
<1>1. \A i \in Mails : Thread[i] \in Conversations
  BY Conversing
<1> QED
  BY <1>1 DEF SessionsPlaced

LEMMA PromptsFrame ==
    ASSUME PromptsPlaced, UNCHANGED <<prompted, admitted>>,
           \A i \in ToAddress : delivery'[Notice(i)] # "None" => delivery[Notice(i)] # "None"
    PROVE  PromptsPlaced'
BY DEF PromptsPlaced

LEMMA LanesFrame ==
    ASSUME LanesCounted, UNCHANGED <<lane, admitted>>,
           rel # None => rel' # None /\ rel.version \in Nat /\ rel'.version \in Nat
                         /\ rel.version <= rel'.version,
           lane # None => lane.id \in Nat,
           \A i \in Mails : admitted[i] # None => admitted[i].lane \in Nat \cup {None}
    PROVE  LanesCounted'
<1>1. \A id : OnLane(id)' = OnLane(id)
  BY DEF OnLane
<1>2. lane' # None => rel' # None /\ lane'.id <= rel'.version
  BY DEF LanesCounted
<1>3. \A i \in Mails : admitted'[i] # None /\ admitted'[i].lane # None =>
         rel' # None /\ admitted'[i].lane <= rel'.version
  BY DEF LanesCounted
<1>4. lane' # None => /\ IsFiniteSet(OnLane(lane.id)')
                      /\ lane'.left = Limit - Cardinality(OnLane(lane.id)')
  BY <1>1 DEF LanesCounted
<1> QED
  BY <1>2, <1>3, <1>4 DEF LanesCounted

LEMMA InvitedFrame ==
    ASSUME Invited, UNCHANGED <<rel, conv, admitted>>
    PROVE  Invited'
BY DEF Invited

LEMMA AdmissionFrame ==
    ASSUME Admission, UNCHANGED <<rel, lane, conv, session, prompted, admitted>>,
           \A i \in ToAddress : delivery'[Notice(i)] # "None" => delivery[Notice(i)] # "None"
    PROVE  Admission'
<1>1. SessionsPlaced' /\ Invited'
  BY SessionsFrame, InvitedFrame DEF Admission
<1>2. PromptsPlaced'
  BY PromptsFrame DEF Admission
<1>3. LanesCounted'
  BY DEF Admission, LanesCounted, OnLane
<1> QED
  BY <1>1, <1>2, <1>3 DEF Admission

LEMMA ObservationFrame ==
    ASSUME Observation, UNCHANGED <<unread, seen, admitted, delivery, events>>
    PROVE  Observation'
BY DEF Observation, QueuedFinite, OrdersInjective, ObservationsCurrent, View

LEMMA TypeFrame ==
    /\ ContactType /\ UNCHANGED contact => ContactType'
    /\ ConvType /\ UNCHANGED conv => ConvType'
    /\ LettersType /\ UNCHANGED <<delivery, events, withdrawn>> => LettersType'
    /\ HandsType /\ UNCHANGED <<carrier, worker>> => HandsType'
    /\ SessionsType /\ UNCHANGED session => SessionsType'
    /\ MailsType /\ UNCHANGED <<admitted, prompted, notified>> => MailsType'
    /\ UnreadType /\ UNCHANGED observation => UnreadType'
    /\ SeenType /\ UNCHANGED seen => SeenType'
    /\ CountsType /\ UNCHANGED <<commands, faults>> => CountsType'
<1>1. /\ ContactType /\ UNCHANGED contact => ContactType'
      /\ ConvType /\ UNCHANGED conv => ConvType'
      /\ LettersType /\ UNCHANGED <<delivery, events, withdrawn>> => LettersType'
  BY DEF ContactType, contact, ConvType, LettersType
<1>2. /\ HandsType /\ UNCHANGED <<carrier, worker>> => HandsType'
      /\ SessionsType /\ UNCHANGED session => SessionsType'
      /\ MailsType /\ UNCHANGED <<admitted, prompted, notified>> => MailsType'
  BY DEF HandsType, SessionsType, MailsType
<1>3. /\ UnreadType /\ UNCHANGED observation => UnreadType'
      /\ SeenType /\ UNCHANGED seen => SeenType'
      /\ CountsType /\ UNCHANGED <<commands, faults>> => CountsType'
  BY DEF UnreadType, observation, SeenType, CountsType
<1> QED
  BY <1>1, <1>2, <1>3

\* A command or a fault that is counted, and neither.
LEMMA Counted ==
    ASSUME CountsType, \/ Given /\ UNCHANGED faults
                       \/ Fault /\ UNCHANGED commands
                       \/ UNCHANGED <<commands, faults>>
    PROVE  CountsType'
<1>1. MaxCommands \in Nat /\ MaxFaults \in Nat
  BY ExternalAssumption
<1> QED
  BY <1>1 DEF CountsType, Given, Fault

\* The client's copies stay current when every message that changes, or that
\* is seen for the first time, is unread afterwards.
LEMMA CurrentAfter ==
    ASSUME ObservationsCurrent, UNCHANGED seen,
           \A k \in Conversations : ToSet(unread[k]) \subseteq ToSet(unread'[k]),
           \A m \in Outgoing :
               \/ m \in ToSet(unread'[InConversation[m]])
               \/ /\ delivery'[Message(m)] = delivery[Message(m)]
                  /\ events'[Message(m)] = events[Message(m)],
           \A i \in Mails :
               \/ i \in ToSet(unread'[Thread[i]])
               \/ admitted'[i] = admitted[i]
    PROVE  ObservationsCurrent'
<1> SUFFICES ASSUME NEW x \in Outgoing \cup Mails,
                    x \in Mails => admitted'[x] # None,
                    x \in Outgoing => delivery'[Message(x)] # "None",
                    \A n \in DOMAIN unread'[ConversationOf(x)] : unread'[ConversationOf(x)][n] # x
             PROVE  seen'[x] = View(x)'
  BY DEF ObservationsCurrent, ConversationOf
<1> DEFINE k == ConversationOf(x)
<1>1. k \in Conversations
  BY Conversing
<1>2. x \notin ToSet(unread'[k])
  BY DEF ToSet
<1>3. x \notin ToSet(unread[k])
  BY <1>1, <1>2
<1>4. \A n \in DOMAIN unread[k] : unread[k][n] # x
  BY <1>3 DEF ToSet
<1> HIDE DEF k
<1>5. CASE x \in Outgoing
  <2>1. k = InConversation[x] /\ x \notin Mails
    BY <1>5, Conversing DEF k
  <2>2. /\ delivery'[Message(x)] = delivery[Message(x)]
        /\ events'[Message(x)] = events[Message(x)]
    BY <1>2, <1>5, <2>1
  <2>3. seen[x] = View(x)
    BY <1>4, <1>5, <2>1, <2>2 DEF ObservationsCurrent, k
  <2> QED
    BY <1>5, <2>2, <2>3 DEF View
<1>6. CASE x \in Mails
  <2>1. k = Thread[x] /\ x \notin Outgoing
    BY <1>6, Conversing DEF k
  <2>2. admitted'[x] = admitted[x]
    BY <1>2, <1>6, <2>1
  <2>3. seen[x] = View(x)
    BY <1>4, <1>6, <2>1, <2>2 DEF ObservationsCurrent, k
  <2> QED
    BY <2>1, <2>3 DEF View
<1> QED
  BY <1>5, <1>6

LEMMA InitKeeps == Init => IInv
<1> SUFFICES ASSUME Init PROVE IInv
  OBVIOUS
<1>0. /\ MaxCommands \in Nat /\ MaxFaults \in Nat /\ Limit \in Nat
  BY ExternalAssumption
<1>1. TypeOK
  <2>1. ContactType
    BY DEF Init, ContactType
  <2>2. ConvType /\ LettersType /\ HandsType /\ SessionsType /\ MailsType
    BY DEF Init, ConvType, LettersType, HandsType, SessionsType, MailsType, DeliveryState
  <2>3. UnreadType
    BY DEF Init, UnreadType
  <2>4. SeenType /\ CountsType
    BY <1>0 DEF Init, SeenType, CountsType
  <2> QED
    BY <2>1, <2>2, <2>3, <2>4, TypeParts
<1>2. Dispatch
  BY DEF Init, Dispatch, WorkersPlaced, LetterFits, HolderFits, Holds, WithdrawnStays
<1>3. Admission
  <2>1. SessionsPlaced
    BY DEF Init, SessionsPlaced
  <2>2. PromptsPlaced
    BY LettersAre DEF Init, PromptsPlaced
  <2>3. LanesCounted
    BY DEF Init, LanesCounted
  <2>4. Invited
    BY DEF Init, Invited
  <2> QED
    BY <2>1, <2>2, <2>3, <2>4 DEF Admission
<1>4. Observation
  <2>1. {m \in Outgoing : delivery[Message(m)] # "None"} = {}
    BY LettersAre DEF Init
  <2>2. QueuedFinite
    BY <2>1, FS_EmptySet DEF QueuedFinite
  <2>3. OrdersInjective
    BY DEF Init, OrdersInjective, IsInjective
  <2>4. ObservationsCurrent
    <3>1. \A m \in Outgoing : delivery[Message(m)] = "None"
      BY LettersAre DEF Init
    <3>2. \A i \in Mails : admitted[i] = None
      BY DEF Init
    <3> QED
      BY <3>1, <3>2 DEF ObservationsCurrent
  <2> QED
    BY <2>2, <2>3, <2>4 DEF Observation
<1> QED
  BY <1>1, <1>2, <1>3, <1>4 DEF IInv

-----------------------------------------------------------------------------
(***************************************************************************)
(* The workers and the carrier.                                            *)
(***************************************************************************)

LEMMA QueuedFrame ==
    ASSUME QueuedFinite,
           \A m \in Outgoing : delivery'[Message(m)] # "None" => delivery[Message(m)] # "None"
    PROVE  QueuedFinite'
<1> DEFINE Q == {m \in Outgoing : delivery[Message(m)] # "None"}
           N == {m \in Outgoing : delivery'[Message(m)] # "None"}
<1>1. IsFiniteSet(Q) /\ N \in SUBSET Q
  BY DEF QueuedFinite
<1> HIDE DEF Q
<1>2. IsFiniteSet(N)
  BY <1>1, FS_Subset
<1> QED
  BY <1>2 DEF QueuedFinite

LEMMA LetterObserved ==
    ASSUME UnreadType, OrdersInjective, ObservationsCurrent, NEW l \in Letters, ObserveLetter(l),
           UNCHANGED <<seen, admitted>>,
           \A x \in Letters : x # l => delivery'[x] = delivery[x] /\ events'[x] = events[x]
    PROVE  UnreadType' /\ OrdersInjective' /\ ObservationsCurrent'
<1>1. CASE l[1] = "message"
  <2> DEFINE m == l[2]
             k == InConversation[m]
  <2>1. m \in Outgoing /\ l = Message(m) /\ k \in Conversations /\ ConversationOf(m) = k
    BY <1>1, LettersAre, Conversing
  <2>2. Observe(k, {m})
    BY <1>1, <2>1 DEF ObserveLetter, ObserveMessage
  <2>3. IsFiniteSet({m}) /\ {m} \in SUBSET (Outgoing \cup Mails)
    BY <2>1, FS_Singleton
  <2> HIDE DEF m, k
  <2>4. /\ UnreadType' /\ OrdersInjective'
        /\ \A j \in Conversations : ToSet(unread[j]) \subseteq ToSet(unread'[j])
        /\ {m} \subseteq ToSet(unread'[k])
    BY <2>1, <2>2, <2>3, Observes
  <2>5. ASSUME NEW n \in Outgoing
        PROVE  \/ n \in ToSet(unread'[InConversation[n]])
               \/ /\ delivery'[Message(n)] = delivery[Message(n)]
                  /\ events'[Message(n)] = events[Message(n)]
    <3>1. CASE n = m
      BY <2>4, <3>1 DEF k
    <3>2. CASE n # m
      BY <2>1, <3>2, LettersAre
    <3> QED
      BY <3>1, <3>2
  <2>6. ObservationsCurrent'
    BY <2>4, <2>5, CurrentAfter
  <2> QED
    BY <2>4, <2>6
<1>2. CASE l[1] # "message"
  <2>1. UNCHANGED observation
    BY <1>2 DEF ObserveLetter
  <2>2. UnreadType' /\ OrdersInjective'
    BY <2>1, TypeFrame DEF OrdersInjective, observation
  <2>3. \A n \in Outgoing : /\ delivery'[Message(n)] = delivery[Message(n)]
                            /\ events'[Message(n)] = events[Message(n)]
    BY <1>2, LettersAre
  <2>4. \A j \in Conversations : ToSet(unread[j]) \subseteq ToSet(unread'[j])
    BY <2>1 DEF observation
  <2>5. ObservationsCurrent'
    BY <2>3, <2>4, CurrentAfter
  <2> QED
    BY <2>2, <2>5
<1> QED
  BY <1>1, <1>2

\* One worker moves to a letter no other worker has begun, or to none.
LEMMA WorkerMoves ==
    ASSUME HandsType, WorkersPlaced, NEW w \in Workers, NEW l \in Letters \cup {None},
           NEW st \in {"idle", "begin", "submit", "accepted", "failed"},
           worker' = [worker EXCEPT ![w] = [letter |-> l, step |-> st]],
           st # "idle" => l \in Letters,
           st \in {"submit", "accepted", "failed"} => \A v \in Workers : v # w => ~Holds(v, l)
    PROVE  /\ worker' \in [Workers -> [letter : Letters \cup {None},
                                       step : {"idle", "begin", "submit", "accepted", "failed"}]]
           /\ WorkersPlaced'
           /\ worker'[w] = [letter |-> l, step |-> st]
           /\ \A v \in Workers : v # w => worker'[v] = worker[v]
<1>1. /\ worker \in [Workers -> [letter : Letters \cup {None},
                                 step : {"idle", "begin", "submit", "accepted", "failed"}]]
  BY DEF HandsType
<1>2. /\ worker' \in [Workers -> [letter : Letters \cup {None},
                                  step : {"idle", "begin", "submit", "accepted", "failed"}]]
      /\ worker'[w] = [letter |-> l, step |-> st]
      /\ \A v \in Workers : v # w => worker'[v] = worker[v]
  BY <1>1
<1>3. ASSUME NEW v \in Workers, worker'[v].step # "idle" PROVE worker'[v].letter \in Letters
  BY <1>2, <1>3 DEF WorkersPlaced
<1>4. ASSUME NEW v \in Workers, NEW u \in Workers, NEW x \in Letters, Holds(v, x)', Holds(u, x)'
      PROVE  v = u
  <2>1. CASE v # w /\ u # w
    <3>1. Holds(v, x) /\ Holds(u, x)
      BY <1>2, <1>4, <2>1 DEF Holds
    <3> QED
      BY <3>1 DEF WorkersPlaced
  <2>2. CASE v = w /\ u # w
    <3>1. Holds(u, l) /\ st \in {"submit", "accepted", "failed"}
      BY <1>2, <1>4, <2>2 DEF Holds
    <3> QED
      BY <2>2, <3>1
  <2>3. CASE v # w /\ u = w
    <3>1. Holds(v, l) /\ st \in {"submit", "accepted", "failed"}
      BY <1>2, <1>4, <2>3 DEF Holds
    <3> QED
      BY <2>3, <3>1
  <2> QED
    BY <2>1, <2>2, <2>3
<1>5. WorkersPlaced'
  BY <1>3, <1>4 DEF WorkersPlaced
<1> QED
  BY <1>2, <1>5

\* A worker that lets go of its letter, or lists one, changes nothing else.
LEMMA WorkerLetsGo ==
    ASSUME HandsType, Dispatch, NEW w \in Workers, NEW l \in Letters \cup {None},
           (At(w, l, "begin") /\ l \in Letters) \/ At(w, l, "idle"),
           UNCHANGED <<delivery, carrier, withdrawn>>
    PROVE  Dispatch' /\ HandsType'
<1>1. PICK st \in {"begin", "idle"} :
         /\ worker' = [worker EXCEPT ![w] = [letter |-> l, step |-> st]]
         /\ st # "idle" => l \in Letters
  BY DEF At
<1>2. /\ worker' \in [Workers -> [letter : Letters \cup {None},
                                  step : {"idle", "begin", "submit", "accepted", "failed"}]]
      /\ WorkersPlaced'
      /\ worker'[w] = [letter |-> l, step |-> st]
      /\ \A v \in Workers : v # w => worker'[v] = worker[v]
  BY <1>1, WorkerMoves DEF Dispatch
<1>3. HandsType'
  BY <1>2 DEF HandsType
<1>4. \A v \in Workers : \A x \in Letters : Holds(v, x)' => Holds(v, x) /\ worker'[v] = worker[v]
  BY <1>1, <1>2 DEF Holds
<1>5. \A v \in Workers : \A x \in Letters :
         Holds(v, x)' => HolderFits(worker'[v].step, delivery'[x], carrier'[x])
  BY <1>4 DEF Dispatch
<1> QED
  BY <1>2, <1>3, <1>5 DEF Dispatch, WithdrawnStays

\* The records of one letter change, and the worker that has it.
LEMMA LetterMoves ==
    ASSUME LettersType, HandsType, Dispatch, NEW l \in Letters, NEW d \in DeliveryState, NEW c,
           c \in [times : Nat, taken : BOOLEAN],
           delivery' = [delivery EXCEPT ![l] = d], carrier' = [carrier EXCEPT ![l] = c],
           UNCHANGED withdrawn, l \notin withdrawn,
           WorkersPlaced',
           worker' \in [Workers -> [letter : Letters \cup {None},
                                    step : {"idle", "begin", "submit", "accepted", "failed"}]],
           LetterFits(d, c),
           \A v \in Workers : Holds(v, l)' => HolderFits(worker'[v].step, d, c),
           \A v \in Workers : \A x \in Letters :
               x # l /\ Holds(v, x)' => Holds(v, x) /\ worker'[v] = worker[v]
    PROVE  Dispatch' /\ HandsType' /\ delivery' \in [Letters -> DeliveryState]
<1>1. /\ delivery' \in [Letters -> DeliveryState]
      /\ delivery'[l] = d /\ \A x \in Letters : x # l => delivery'[x] = delivery[x]
  BY DEF LettersType
<1>2. /\ carrier' \in [Letters -> [times : Nat, taken : BOOLEAN]]
      /\ carrier'[l] = c /\ \A x \in Letters : x # l => carrier'[x] = carrier[x]
  BY DEF HandsType
<1>3. \A x \in Letters : LetterFits(delivery'[x], carrier'[x])
  BY <1>1, <1>2 DEF Dispatch
<1>4. ASSUME NEW v \in Workers, NEW x \in Letters, Holds(v, x)'
      PROVE  HolderFits(worker'[v].step, delivery'[x], carrier'[x])
  <2>1. CASE x = l
    BY <1>1, <1>2, <1>4, <2>1
  <2>2. CASE x # l
    <3>1. HolderFits(worker[v].step, delivery[x], carrier[x]) /\ worker'[v] = worker[v]
      BY <1>4, <2>2 DEF Dispatch
    <3> QED
      BY <1>1, <1>2, <2>2, <3>1
  <2> QED
    BY <2>1, <2>2
<1>5. WithdrawnStays'
  BY <1>1 DEF Dispatch, WithdrawnStays, LettersType
<1>6. HandsType'
  BY <1>2 DEF HandsType
<1> QED
  BY <1>1, <1>3, <1>4, <1>5, <1>6 DEF Dispatch

\* A step of the workers or the carrier: the rest of the invariant stays.
LEMMA DispatchStep ==
    ASSUME IInv, UNCHANGED <<contact, conv, inbound, seen>>,
           \A i \in ToAddress : delivery'[Notice(i)] # "None" => delivery[Notice(i)] # "None",
           Dispatch', HandsType', LettersType', UnreadType', CountsType', Observation'
    PROVE  IInv'
<1>1. ContactType' /\ ConvType' /\ SessionsType' /\ MailsType' /\ SeenType'
  BY TypeParts, TypeFrame DEF IInv, inbound
<1>2. TypeOK'
  BY <1>1, TypePartsNext
<1>3. Admission'
  BY AdmissionFrame DEF IInv, contact, inbound
<1> QED
  BY <1>2, <1>3 DEF IInv

\* A worker takes a letter from the list, or stops.
LEMMA LetsGoKeeps ==
    ASSUME IInv, NEW w \in Workers, NEW l \in Letters \cup {None},
           (At(w, l, "begin") /\ l \in Letters) \/ At(w, l, "idle"),
           UNCHANGED <<contact, conv, delivery, events, carrier, withdrawn, inbound, observation, seen>>,
           \/ Fault /\ UNCHANGED commands
           \/ UNCHANGED <<commands, faults>>
    PROVE  IInv'
<1>1. /\ HandsType /\ LettersType /\ UnreadType /\ CountsType /\ Dispatch /\ Observation
  BY TypeParts DEF IInv
<1>2. Dispatch' /\ HandsType'
  BY <1>1, WorkerLetsGo
<1>3. LettersType' /\ UnreadType'
  BY <1>1, TypeFrame
<1>4. CountsType'
  BY <1>1, Counted
<1>5. Observation'
  BY <1>1, ObservationFrame DEF observation, inbound
<1>6. \A i \in ToAddress : delivery'[Notice(i)] # "None" => delivery[Notice(i)] # "None"
  OBVIOUS
<1> QED
  BY <1>2, <1>3, <1>4, <1>5, <1>6, DispatchStep

LEMMA PickKeeps ==
    ASSUME IInv, NEW w \in Workers, NEW l \in Letters, Pick(w, l)
    PROVE  IInv'
BY LetsGoKeeps DEF Pick

LEMMA CrashKeeps ==
    ASSUME IInv, NEW w \in Workers, Crash(w)
    PROVE  IInv'
<1>1. At(w, None, "idle")
  BY DEF Crash, Idle
<1> QED
  BY <1>1, LetsGoKeeps DEF Crash

\* The one worker that has begun l, and what the records say to it.
LEMMA HolderOf ==
    ASSUME IInv, NEW w \in Workers, worker[w].step \in {"submit", "accepted", "failed"}
    PROVE  LET l == worker[w].letter IN
           /\ l \in Letters /\ l \notin withdrawn
           /\ delivery[l] \in {"DispatchBegun", "Accepted"}
           /\ LetterFits(delivery[l], carrier[l])
           /\ HolderFits(worker[w].step, delivery[l], carrier[l])
           /\ \A v \in Workers : Holds(v, l) => v = w
<1> DEFINE l == worker[w].letter
<1>1. l \in Letters /\ Holds(w, l)
  BY DEF IInv, Dispatch, WorkersPlaced, Holds
<1> HIDE DEF l
<1>2. /\ LetterFits(delivery[l], carrier[l])
      /\ HolderFits(worker[w].step, delivery[l], carrier[l])
      /\ \A v \in Workers : Holds(v, l) => v = w
  BY <1>1 DEF IInv, Dispatch, WorkersPlaced
<1>3. delivery[l] \in {"DispatchBegun", "Accepted"}
  BY <1>2 DEF HolderFits
<1>4. l \notin withdrawn
  BY <1>3 DEF IInv, Dispatch, WithdrawnStays
<1> QED
  BY <1>1, <1>2, <1>3, <1>4 DEF l

\* A letter is begun by the worker that finds it waiting, and by no other.
LEMMA BeginKeeps ==
    ASSUME IInv, NEW w \in Workers, Begin(w)
    PROVE  IInv'
<1>0. /\ HandsType /\ LettersType /\ UnreadType /\ CountsType /\ Dispatch
      /\ QueuedFinite /\ OrdersInjective /\ ObservationsCurrent
  BY TypeParts DEF IInv, Observation
<1>1. PICK l \in Letters : l = worker[w].letter
  BY DEF Begin, IInv, Dispatch, WorkersPlaced
<1>a. /\ worker[w].step = "begin"
      /\ UNCHANGED <<contact, conv, events, carrier, withdrawn, inbound, seen, commands, faults>>
  BY DEF Begin
<1>2. CASE delivery[l] # "Waiting"
  <2>1. At(w, None, "idle") /\ UNCHANGED <<delivery, observation>>
    BY <1>1, <1>2 DEF Begin, Idle
  <2> QED
    BY <1>a, <2>1, LetsGoKeeps
<1>3. CASE delivery[l] = "Waiting"
  <2> DEFINE d == IF MayBegin(l) THEN "DispatchBegun" ELSE "Cancelled"
             c == carrier[l]
             st == IF MayBegin(l) THEN "submit" ELSE "idle"
             x == IF MayBegin(l) THEN l ELSE None
  <2>1. /\ delivery' = [delivery EXCEPT ![l] = d] /\ ObserveLetter(l)
        /\ worker' = [worker EXCEPT ![w] = [letter |-> x, step |-> st]]
    BY <1>1, <1>3 DEF Begin, At, Idle
  <2>2. /\ d \in {"DispatchBegun", "Cancelled"} /\ st \in {"submit", "idle"}
        /\ (st = "submit" => d = "DispatchBegun" /\ x = l) /\ x \in Letters \cup {None}
        /\ (st # "idle" => x \in Letters)
    OBVIOUS
  <2> HIDE DEF d, st, x
  <2>3. LetterFits(delivery[l], c) /\ \A v \in Workers : ~Holds(v, l)
    BY <1>0, <1>1, <1>a, <1>3 DEF Dispatch, HolderFits, Holds
  <2>4. /\ c \in [times : Nat, taken : BOOLEAN] /\ carrier' = [carrier EXCEPT ![l] = c]
        /\ c.times = 0 /\ ~c.taken
    BY <1>0, <1>a, <1>1, <1>3, <2>3 DEF HandsType, LetterFits
  <2>5. l \notin withdrawn
    BY <1>0, <1>3 DEF Dispatch, WithdrawnStays
  <2>6. /\ worker' \in [Workers -> [letter : Letters \cup {None},
                                    step : {"idle", "begin", "submit", "accepted", "failed"}]]
        /\ WorkersPlaced'
        /\ worker'[w] = [letter |-> x, step |-> st]
        /\ \A v \in Workers : v # w => worker'[v] = worker[v]
    BY <1>0, <2>1, <2>2, <2>3, WorkerMoves DEF Dispatch
  <2>7. LetterFits(d, c)
    BY <2>2, <2>4 DEF LetterFits
  <2>8. ASSUME NEW v \in Workers, Holds(v, l)' PROVE HolderFits(worker'[v].step, d, c)
    BY <2>2, <2>3, <2>4, <2>6, <2>8 DEF Holds, HolderFits
  <2>9. ASSUME NEW v \in Workers, NEW y \in Letters, y # l, Holds(v, y)'
        PROVE  Holds(v, y) /\ worker'[v] = worker[v]
    BY <2>2, <2>6, <2>9 DEF Holds
  <2>10. d \in DeliveryState
    BY <2>2 DEF DeliveryState
  <2>11. Dispatch' /\ HandsType' /\ delivery' \in [Letters -> DeliveryState]
    BY <1>0, <1>a, <2>1, <2>4, <2>5, <2>6, <2>7, <2>8, <2>9, <2>10, LetterMoves
  <2>12. LettersType' /\ CountsType'
    BY <1>0, <1>a, <2>11, Counted DEF LettersType
  <2>13. /\ delivery'[l] # "None" /\ delivery[l] # "None"
         /\ \A y \in Letters : y # l => delivery'[y] = delivery[y] /\ events'[y] = events[y]
    BY <1>0, <1>a, <1>1, <1>3, <2>1, <2>2 DEF LettersType
  <2>14. UnreadType' /\ OrdersInjective' /\ ObservationsCurrent'
    BY <1>0, <1>a, <2>1, <2>13, LetterObserved DEF inbound
  <2>15. QueuedFinite'
    BY <1>0, <2>13, LettersAre, QueuedFrame
  <2>16. \A i \in ToAddress : delivery'[Notice(i)] # "None" => delivery[Notice(i)] # "None"
    BY <2>13, LettersAre
  <2> QED
    BY <1>a, <2>11, <2>12, <2>14, <2>15, <2>16, DispatchStep DEF Observation
<1> QED
  BY <1>2, <1>3

\* The worker that has begun a letter submits it, or gives up on it before.
LEMMA SubmissionKeeps ==
    ASSUME IInv, NEW w \in Workers, worker[w].step = "submit",
           NEW taken \in BOOLEAN, NEW times \in {0, 1}, taken => times = 1,
           NEW st \in {"idle", "accepted", "failed"},
           st = "accepted" => taken, st = "failed" => ~taken,
           NEW y \in {worker[w].letter, None}, st # "idle" => y = worker[w].letter,
           worker' = [worker EXCEPT ![w] = [letter |-> y, step |-> st]],
           carrier' = [carrier EXCEPT ![worker[w].letter] = [times |-> times, taken |-> taken]],
           UNCHANGED <<contact, conv, delivery, events, withdrawn, inbound, observation, seen, commands>>,
           Fault \/ UNCHANGED faults
    PROVE  IInv'
<1> DEFINE c == [times |-> times, taken |-> taken]
<1>0. HandsType /\ LettersType /\ UnreadType /\ CountsType /\ Dispatch /\ Observation
  BY TypeParts DEF IInv
<1>1. PICK l \in Letters :
         /\ l = worker[w].letter /\ l \notin withdrawn
         /\ delivery[l] = "DispatchBegun"
         /\ \A v \in Workers : Holds(v, l) => v = w
  BY HolderOf DEF HolderFits
<1>2. /\ worker' \in [Workers -> [letter : Letters \cup {None},
                                  step : {"idle", "begin", "submit", "accepted", "failed"}]]
      /\ WorkersPlaced'
      /\ worker'[w] = [letter |-> y, step |-> st]
      /\ \A v \in Workers : v # w => worker'[v] = worker[v]
  <2>1. /\ y \in Letters \cup {None} /\ (st # "idle" => y \in Letters)
        /\ st \in {"idle", "begin", "submit", "accepted", "failed"}
    BY <1>1
  <2>2. st \in {"submit", "accepted", "failed"} => \A v \in Workers : v # w => ~Holds(v, y)
    BY <1>1
  <2> QED
    BY <1>0, <2>1, <2>2, WorkerMoves DEF Dispatch
<1>3. c \in [times : Nat, taken : BOOLEAN] /\ LetterFits(delivery[l], c)
  BY <1>1 DEF LetterFits
<1>4. ASSUME NEW v \in Workers, Holds(v, l)' PROVE HolderFits(worker'[v].step, delivery[l], c)
  <2>1. v = w
    BY <1>1, <1>2, <1>4 DEF Holds
  <2> QED
    BY <1>1, <1>2, <2>1 DEF HolderFits
<1>5. ASSUME NEW v \in Workers, NEW x \in Letters, x # l, Holds(v, x)'
      PROVE  Holds(v, x) /\ worker'[v] = worker[v]
  <2>1. v # w
    BY <1>1, <1>2, <1>5 DEF Holds
  <2> QED
    BY <1>2, <1>5, <2>1 DEF Holds
<1>6. /\ delivery[l] \in DeliveryState /\ delivery' = [delivery EXCEPT ![l] = delivery[l]]
  BY <1>0, <1>1 DEF LettersType
<1>7. carrier' = [carrier EXCEPT ![l] = c]
  BY <1>1
<1> HIDE DEF c
<1>8. Dispatch' /\ HandsType'
  BY <1>0, <1>1, <1>2, <1>3, <1>4, <1>5, <1>6, <1>7, LetterMoves
<1>9. LettersType' /\ UnreadType' /\ CountsType'
  BY <1>0, TypeFrame, Counted
<1>10. Observation'
  BY <1>0, ObservationFrame DEF observation, inbound
<1>11. \A i \in ToAddress : delivery'[Notice(i)] # "None" => delivery[Notice(i)] # "None"
  OBVIOUS
<1> QED
  BY <1>8, <1>9, <1>10, <1>11, DispatchStep

LEMMA NotRenderedKeeps ==
    ASSUME IInv, NEW w \in Workers, NotRendered(w)
    PROVE  IInv'
<1> DEFINE l == worker[w].letter
<1>1. /\ worker[w].step = "submit" /\ l \in Letters /\ carrier[l].times = 0 /\ ~carrier[l].taken
      /\ carrier[l] \in [times : Nat, taken : BOOLEAN]
  BY HolderOf, TypeParts DEF NotRendered, Submitting, HolderFits, LetterFits, IInv, HandsType
<1>2. carrier[l] = [times |-> 0, taken |-> FALSE]
  BY <1>1
<1>3. carrier' = [carrier EXCEPT ![l] = [times |-> 0, taken |-> FALSE]]
  BY <1>1, <1>2, TypeParts DEF NotRendered, IInv, HandsType
<1>4. worker' = [worker EXCEPT ![w] = [letter |-> l, step |-> "failed"]]
  BY DEF NotRendered, At
<1> QED
  BY <1>1, <1>3, <1>4, SubmissionKeeps DEF NotRendered, Submitting

LEMMA SubmitKeeps ==
    ASSUME IInv, NEW w \in Workers, NEW taken \in BOOLEAN, NEW heard \in BOOLEAN, Submit(w, taken, heard)
    PROVE  IInv'
<1> DEFINE l == worker[w].letter
           st == IF heard THEN (IF taken THEN "accepted" ELSE "failed") ELSE "idle"
           y == IF heard THEN l ELSE None
<1>1. /\ worker[w].step = "submit" /\ l \in Letters /\ carrier[l].times = 0 /\ ~carrier[l].taken
      /\ carrier[l] \in [times : Nat, taken : BOOLEAN]
  BY HolderOf, TypeParts DEF Submit, Submitting, HolderFits, LetterFits, IInv, HandsType
<1>2. /\ carrier[l].times + 1 = 1 /\ (carrier[l].taken \/ taken) = taken
  BY <1>1
<1>3. carrier' = [carrier EXCEPT ![l] = [times |-> 1, taken |-> taken]]
  BY <1>2 DEF Submit
<1>4. /\ worker' = [worker EXCEPT ![w] = [letter |-> y, step |-> st]]
      /\ Fault \/ UNCHANGED faults
  BY DEF Submit, At, Idle
<1>5. /\ st \in {"idle", "accepted", "failed"} /\ (st = "accepted" => taken) /\ (st = "failed" => ~taken)
      /\ y \in {worker[w].letter, None} /\ (st # "idle" => y = worker[w].letter)
  OBVIOUS
<1> HIDE DEF st, y
<1> QED
  BY <1>1, <1>3, <1>4, <1>5, SubmissionKeeps DEF Submit, Submitting

\* A worker that learnt how its letter ended records it, unless a report of
\* the carrier said so before.
LEMMA FinishKeeps ==
    ASSUME IInv, NEW w \in Workers, Finish(w)
    PROVE  IInv'
<1> DEFINE outcome == IF worker[w].step = "accepted" THEN "Accepted" ELSE "Failed"
<1>0. /\ HandsType /\ LettersType /\ UnreadType /\ CountsType /\ Dispatch
      /\ QueuedFinite /\ OrdersInjective /\ ObservationsCurrent
  BY TypeParts DEF IInv, Observation
<1>1. /\ worker[w].step \in {"accepted", "failed"}
      /\ worker' = [worker EXCEPT ![w] = [letter |-> None, step |-> "idle"]]
      /\ UNCHANGED <<contact, conv, events, carrier, withdrawn, inbound, seen, commands, faults>>
  BY DEF Finish, Idle, At
<1>2. PICK l \in Letters :
         /\ l = worker[w].letter /\ l \notin withdrawn /\ delivery[l] \in {"DispatchBegun", outcome}
         /\ LetterFits(delivery[l], carrier[l]) /\ HolderFits(worker[w].step, delivery[l], carrier[l])
         /\ \A v \in Workers : Holds(v, l) => v = w
  <2>1. worker[w].step \in {"submit", "accepted", "failed"}
    BY <1>1
  <2>2. PICK l \in Letters :
           /\ l = worker[w].letter /\ l \notin withdrawn
           /\ LetterFits(delivery[l], carrier[l])
           /\ HolderFits(worker[w].step, delivery[l], carrier[l])
           /\ \A v \in Workers : Holds(v, l) => v = w
           /\ delivery[l] \in {"DispatchBegun", "Accepted"}
    BY <2>1, HolderOf
  <2> QED
    BY <1>1, <2>2 DEF HolderFits
<1> DEFINE c == carrier[l]
<1>3. delivery' = [delivery EXCEPT ![l] = outcome] /\ ObserveLetter(l)
  BY <1>2 DEF Finish, Finished
<1>4. c \in [times : Nat, taken : BOOLEAN] /\ carrier' = [carrier EXCEPT ![l] = c]
  BY <1>0, <1>1, <1>2 DEF HandsType
<1>5. outcome \in {"Accepted", "Failed"} /\ LetterFits(outcome, c)
  BY <1>1, <1>2 DEF LetterFits, HolderFits
<1> HIDE DEF outcome, c
<1>6. /\ worker' \in [Workers -> [letter : Letters \cup {None},
                                  step : {"idle", "begin", "submit", "accepted", "failed"}]]
      /\ WorkersPlaced'
      /\ worker'[w] = [letter |-> None, step |-> "idle"]
      /\ \A v \in Workers : v # w => worker'[v] = worker[v]
  BY <1>0, <1>1, WorkerMoves DEF Dispatch
<1>7. ASSUME NEW v \in Workers PROVE ~Holds(v, l)'
  BY <1>2, <1>6 DEF Holds
<1>8. ASSUME NEW v \in Workers, NEW x \in Letters, Holds(v, x)'
      PROVE  Holds(v, x) /\ worker'[v] = worker[v]
  BY <1>6, <1>8 DEF Holds
<1>9. outcome \in DeliveryState
  BY <1>5 DEF DeliveryState
<1>10. Dispatch' /\ HandsType' /\ delivery' \in [Letters -> DeliveryState]
  <2>1. UNCHANGED withdrawn /\ l \notin withdrawn
    BY <1>1, <1>2
  <2>2. \A v \in Workers : Holds(v, l)' => HolderFits(worker'[v].step, outcome, c)
    BY <1>7
  <2>3. \A v \in Workers : \A x \in Letters :
           x # l /\ Holds(v, x)' => Holds(v, x) /\ worker'[v] = worker[v]
    BY <1>8
  <2> QED
    BY <1>0, <1>3, <1>4, <1>5, <1>6, <1>9, <2>1, <2>2, <2>3, LetterMoves
<1>11. LettersType' /\ CountsType'
  BY <1>0, <1>1, <1>10, Counted DEF LettersType
<1>12. /\ delivery'[l] # "None" /\ delivery[l] # "None"
       /\ \A y \in Letters : y # l => delivery'[y] = delivery[y] /\ events'[y] = events[y]
  BY <1>0, <1>1, <1>2, <1>3, <1>5 DEF LettersType
<1>13. UnreadType' /\ OrdersInjective' /\ ObservationsCurrent'
  BY <1>0, <1>1, <1>2, <1>3, <1>12, LetterObserved DEF inbound
<1>14. QueuedFinite'
  BY <1>0, <1>12, LettersAre, QueuedFrame
<1>15. \A i \in ToAddress : delivery'[Notice(i)] # "None" => delivery[Notice(i)] # "None"
  BY <1>12, LettersAre
<1> QED
  BY <1>1, <1>10, <1>11, <1>13, <1>14, <1>15, DispatchStep DEF Observation

\* A report of a letter the carrier took, whatever its worker knows of it.
LEMMA FeedbackKeeps ==
    ASSUME IInv, NEW l \in Letters, NEW e \in Events, Feedback(l, e)
    PROVE  IInv'
<1> DEFINE c == carrier[l]
<1>0. /\ HandsType /\ LettersType /\ UnreadType /\ CountsType /\ Dispatch
      /\ QueuedFinite /\ OrdersInjective /\ ObservationsCurrent
  BY TypeParts DEF IInv, Observation
<1>1. /\ c.taken /\ delivery[l] \in {"DispatchBegun", "Accepted"}
      /\ delivery' = [delivery EXCEPT ![l] = "Accepted"] /\ ObserveLetter(l)
      /\ events' = [events EXCEPT ![l] = events[l] \cup {e}]
      /\ UNCHANGED <<contact, conv, carrier, worker, withdrawn, inbound, seen, commands, faults>>
  BY DEF Feedback, Finished
<1>2. c \in [times : Nat, taken : BOOLEAN] /\ carrier' = [carrier EXCEPT ![l] = c]
  BY <1>0, <1>1 DEF HandsType
<1>3. l \notin withdrawn /\ LetterFits(delivery[l], c)
  BY <1>0, <1>1 DEF Dispatch, WithdrawnStays
<1>4. LetterFits("Accepted", c)
  BY <1>1, <1>3 DEF LetterFits
<1>5. ASSUME NEW v \in Workers, Holds(v, l)' PROVE HolderFits(worker'[v].step, "Accepted", c)
  <2>1. Holds(v, l) /\ worker'[v] = worker[v]
    BY <1>1, <1>5 DEF Holds
  <2>2. HolderFits(worker[v].step, delivery[l], c)
    BY <1>0, <2>1 DEF Dispatch
  <2>3. worker[v].step = "accepted"
    BY <1>1, <1>3, <2>1, <2>2 DEF Holds, HolderFits, LetterFits
  <2> QED
    BY <1>1, <2>1, <2>3 DEF HolderFits
<1>6. ASSUME NEW v \in Workers, NEW x \in Letters, Holds(v, x)'
      PROVE  Holds(v, x) /\ worker'[v] = worker[v]
  BY <1>1, <1>6 DEF Holds
<1>7. /\ WorkersPlaced'
      /\ worker' \in [Workers -> [letter : Letters \cup {None},
                                  step : {"idle", "begin", "submit", "accepted", "failed"}]]
  BY <1>0, <1>1 DEF Dispatch, WorkersPlaced, Holds, HandsType
<1>8. "Accepted" \in DeliveryState
  BY DEF DeliveryState
<1> HIDE DEF c
<1>9. Dispatch' /\ HandsType' /\ delivery' \in [Letters -> DeliveryState]
  BY <1>0, <1>1, <1>2, <1>3, <1>4, <1>5, <1>6, <1>7, <1>8, LetterMoves
<1>10. LettersType' /\ CountsType'
  <2>1. events' \in [Letters -> SUBSET Events]
    BY <1>0, <1>1 DEF LettersType
  <2> QED
    BY <1>0, <1>1, <1>9, <2>1, Counted DEF LettersType
<1>11. /\ delivery'[l] # "None" /\ delivery[l] # "None"
       /\ \A y \in Letters : y # l => delivery'[y] = delivery[y] /\ events'[y] = events[y]
  BY <1>0, <1>1 DEF LettersType
<1>12. UnreadType' /\ OrdersInjective' /\ ObservationsCurrent'
  BY <1>0, <1>1, <1>11, LetterObserved DEF inbound
<1>13. QueuedFinite'
  BY <1>0, <1>11, LettersAre, QueuedFrame
<1>14. \A i \in ToAddress : delivery'[Notice(i)] # "None" => delivery[Notice(i)] # "None"
  BY <1>11, LettersAre
<1> QED
  BY <1>1, <1>9, <1>10, <1>12, <1>13, <1>14, DispatchStep DEF Observation

-----------------------------------------------------------------------------
(***************************************************************************)
(* The member's decisions and commands.                                    *)
(***************************************************************************)

\* A step that concerns no letter and no message.
LEMMA QuietStep ==
    ASSUME IInv, UNCHANGED <<dispatch, observation, seen, admitted>>,
           ContactType', ConvType', SessionsType', MailsType', CountsType', Admission'
    PROVE  IInv'
<1>1. LettersType' /\ HandsType' /\ UnreadType' /\ SeenType'
  BY TypeParts, TypeFrame DEF IInv, dispatch
<1>2. TypeOK'
  BY <1>1, TypePartsNext
<1>3. Dispatch'
  BY DispatchFrame DEF IInv, dispatch
<1>4. Observation'
  BY ObservationFrame DEF IInv, dispatch, observation
<1> QED
  BY <1>2, <1>3, <1>4 DEF IInv

\* What a decision leaves: a newer version, and no invitation that still holds.
LEMMA DecideKeeps ==
    ASSUME IInv, NEW state \in RelationshipState \ {"Unknown"}, Decide(state)
    PROVE  IInv'
<1> DEFINE K(k) == IF conv[k] = None THEN None ELSE [conv[k] EXCEPT !.decided = TRUE]
<1>0. /\ ContactType /\ ConvType /\ SessionsType /\ MailsType /\ CountsType
      /\ SessionsPlaced /\ PromptsPlaced /\ LanesCounted /\ Invited
      /\ Limit \in Nat
  BY TypeParts, ExternalAssumption DEF IInv, Admission
<1>1. /\ rel # None /\ rel \in Relationship /\ rel.version \in Nat
      /\ rel' = [state |-> state, version |-> rel.version + 1]
      /\ rel' \in Relationship /\ rel' # None /\ rel'.version = rel.version + 1
  BY <1>0, NoneIsAbsence DEF Decide, Decided, ContactType, Relationship
<1>2. /\ conv' = [k \in Conversations |-> K(k)]
      /\ UNCHANGED <<scope, covered, address, dispatch, inbound, observation, seen, faults>>
      /\ Given
  BY DEF Decide, Decided
<1>3. \A k \in Conversations :
         /\ conv'[k] \in ExternalConversation \cup {None}
         /\ conv[k] # None =>
               /\ conv[k] \in ExternalConversation /\ conv'[k] # None
               /\ conv'[k].invitation = conv[k].invitation
               /\ conv'[k].version = conv[k].version
         /\ conv'[k] # None => conv[k] # None
  BY <1>0, <1>2, NoneIsAbsence DEF ConvType, ExternalConversation
<1>4. \/ lane' = None
      \/ UNCHANGED lane
      \/ lane' = [id |-> rel.version + 1, left |-> Limit]
  <2>1. CASE state \in {"Blocked", "Revoked"}
    BY <2>1 DEF Decide
  <2>2. CASE state \in {"Rejected", "Accepted"}
    BY <2>2 DEF Decide
  <2>3. CASE state = "ExpressLane"
    BY <2>3 DEF Decide
  <2> QED
    BY <2>1, <2>2, <2>3 DEF RelationshipState
<1> HIDE DEF K
<1>5. ContactType'
  <2>1. [id |-> rel.version + 1, left |-> Limit] \in Lane
    BY <1>0, <1>1 DEF Lane
  <2>2. lane' \in Lane \cup {None}
    BY <1>0, <1>4, <2>1 DEF ContactType
  <2> QED
    BY <1>0, <1>1, <1>2, <2>2 DEF ContactType
<1>6. ConvType'
  BY <1>2, <1>3 DEF ConvType
<1>7. SessionsPlaced'
  BY <1>0, <1>2, <1>3, SessionsFrame DEF inbound
<1>8. PromptsPlaced'
  BY <1>0, <1>2, PromptsFrame DEF inbound, dispatch
<1>9. /\ \A i \in Mails : admitted[i] # None => admitted[i].lane \in Nat \cup {None}
      /\ lane # None => lane.id \in Nat
  BY <1>0 DEF MailsType, Admittance, ContactType, Lane
<1>10. LanesCounted'
  <2>1. \A i \in Mails : admitted'[i] # None /\ admitted'[i].lane # None =>
           admitted'[i].lane \in Nat /\ admitted'[i].lane <= rel.version
    BY <1>0, <1>2, <1>9 DEF LanesCounted, inbound
  <2>2. \A i \in Mails : admitted'[i] # None /\ admitted'[i].lane # None =>
           rel' # None /\ admitted'[i].lane <= rel'.version
    BY <1>1, <2>1
  <2>3. CASE lane' = None
    BY <2>2, <2>3 DEF LanesCounted
  <2>4. CASE UNCHANGED lane
    BY <1>0, <1>1, <1>2, <1>9, <2>4, LanesFrame DEF inbound
  <2>5. CASE lane' = [id |-> rel.version + 1, left |-> Limit]
    <3> DEFINE id == rel.version + 1
    <3>1. lane'.id = rel'.version /\ lane'.left = Limit /\ lane'.id = id /\ id \in Nat
      BY <1>1, <2>5
    <3>2. OnLane(lane.id)' = {}
      <4>1. ASSUME NEW i \in Mails, admitted'[i] # None, admitted'[i].lane = id PROVE FALSE
        <5>1. admitted'[i].lane # None
          BY <3>1, <4>1, NoneIsAbsence
        <5>2. admitted'[i].lane \in Nat /\ admitted'[i].lane <= rel.version
          BY <2>1, <4>1, <5>1
        <5> QED
          BY <1>1, <4>1, <5>2
      <4> HIDE DEF id
      <4> QED
        BY <3>1, <4>1 DEF OnLane
    <3>3. IsFiniteSet(OnLane(lane.id)') /\ Cardinality(OnLane(lane.id)') = 0
      BY <3>2, FS_EmptySet
    <3>4. lane'.left = Limit - Cardinality(OnLane(lane.id)')
      BY <1>0, <3>1, <3>3
    <3>5. lane'.id <= rel'.version
      BY <1>1, <3>1
    <3> QED
      BY <1>1, <2>2, <3>3, <3>4, <3>5 DEF LanesCounted
  <2> QED
    BY <1>4, <2>3, <2>4, <2>5
<1>11. Invited'
  <2>1. ASSUME NEW k \in Conversations, conv'[k] # None, conv'[k].invitation # "NotRequired"
        PROVE  /\ rel' # None /\ conv'[k].version <= rel'.version
               /\ conv'[k].decided => conv'[k].version < rel'.version
    <3>1. conv[k].version \in Nat /\ conv[k].version <= rel.version
      BY <1>0, <1>3, <2>1 DEF Invited, ExternalConversation
    <3> QED
      BY <1>1, <1>3, <2>1, <3>1
  <2> QED
    BY <1>0, <1>2, <2>1 DEF Invited, inbound
<1>12. SessionsType' /\ MailsType' /\ CountsType'
  BY <1>0, <1>2, TypeFrame, Counted DEF inbound
<1> QED
  BY <1>2, <1>5, <1>6, <1>7, <1>8, <1>10, <1>11, <1>12, QuietStep DEF Admission, inbound

\* The address, its permission and the service decide nothing that was decided.
LEMMA ContactKeeps ==
    ASSUME IInv, ScopeSender \/ Cover \/ Permit \/ RestrictAddress
    PROVE  IInv'
<1>0. /\ ContactType /\ ConvType /\ SessionsType /\ MailsType /\ CountsType /\ LettersType /\ Admission
  BY TypeParts DEF IInv
<1>1. /\ UNCHANGED <<rel, lane, conv, dispatch, inbound, observation, seen, faults>> /\ Given
  BY DEF ScopeSender, Cover, Permit, RestrictAddress
<1>2. scope' \in Nat \cup {None} /\ covered' \in BOOLEAN
  BY <1>0 DEF ScopeSender, Cover, Permit, RestrictAddress, Related, ContactType, Relationship
<1>3. address' \in [policy : {"Bonded", "AliasScoped"}, broad : BOOLEAN,
                    restricted : BOOLEAN, kept : SUBSET Conversations,
                    overtaken : SUBSET Letters]
  <2>1. CASE Permit
    BY <1>0, <2>1 DEF Permit, ContactType
  <2>2. CASE RestrictAddress
    <3>1. {Thread[i] : i \in {j \in Mails : admitted[j] # None}} \subseteq Conversations
      BY Conversing
    <3> QED
      BY <1>0, <2>2, <3>1 DEF RestrictAddress, ContactType
  <2>3. CASE ScopeSender \/ Cover
    BY <1>0, <2>3 DEF ScopeSender, Cover, ContactType
  <2> QED
    BY <2>1, <2>2, <2>3
<1>4. ContactType'
  BY <1>0, <1>1, <1>2, <1>3 DEF ContactType
<1>5. ConvType' /\ SessionsType' /\ MailsType' /\ CountsType'
  BY <1>0, <1>1, TypeFrame, Counted DEF inbound
<1>6. Admission'
  BY <1>0, <1>1, AdmissionFrame DEF inbound, dispatch
<1> QED
  BY <1>1, <1>4, <1>5, <1>6, QuietStep DEF inbound

\* One conversation changes; the invitation it may have names no later version.
LEMMA ConversationStep ==
    ASSUME ConvType, ContactType, Admission, NEW k \in Conversations, NEW c \in ExternalConversation,
           conv' = [conv EXCEPT ![k] = c],
           c.invitation # "NotRequired" =>
               rel' # None /\ c.version <= rel'.version /\ (c.decided => c.version < rel'.version),
           UNCHANGED rel \/ (rel = None /\ rel' # None),
           UNCHANGED <<session, admitted>>
    PROVE  ConvType' /\ SessionsPlaced' /\ Invited'
<1>1. /\ ConvType' /\ conv'[k] = c /\ c # None
      /\ \A j \in Conversations : j # k => conv'[j] = conv[j]
  BY NoneIsAbsence DEF ConvType
<1>2. SessionsPlaced'
  BY <1>1, SessionsFrame DEF Admission
<1>3. ASSUME NEW j \in Conversations, conv'[j] # None, conv'[j].invitation # "NotRequired"
      PROVE  /\ rel' # None /\ conv'[j].version <= rel'.version
             /\ conv'[j].decided => conv'[j].version < rel'.version
  <2>1. CASE j = k
    BY <1>1, <1>3, <2>1
  <2>2. CASE j # k
    BY <1>1, <1>3, <2>2 DEF Admission, Invited
  <2> QED
    BY <2>1, <2>2
<1>4. Invited'
  BY <1>3 DEF Admission, Invited
<1> QED
  BY <1>1, <1>2, <1>4

LEMMA RejectKeeps ==
    ASSUME IInv, NEW k \in Conversations, RejectInvitation(k)
    PROVE  IInv'
<1> DEFINE c == [conv[k] EXCEPT !.invitation = "Rejected"]
<1>0. /\ ContactType /\ ConvType /\ SessionsType /\ MailsType /\ CountsType /\ Admission
  BY TypeParts DEF IInv
<1>1. /\ UNCHANGED <<contact, dispatch, inbound, observation, seen, faults>> /\ Given
      /\ conv[k] # None /\ conv' = [conv EXCEPT ![k] = c]
      /\ conv[k].invitation = "Pending"
  BY DEF RejectInvitation, PendingAccess
<1>2. conv[k] \in ExternalConversation
  BY <1>0, <1>1 DEF ConvType
<1>3. c \in ExternalConversation /\ c.version = conv[k].version /\ c.decided = conv[k].decided
  BY <1>2 DEF ExternalConversation
<1>4. /\ rel # None /\ conv[k].version <= rel.version
      /\ conv[k].decided => conv[k].version < rel.version
  BY <1>0, <1>1 DEF Admission, Invited
<1> HIDE DEF c
<1>5. ConvType' /\ SessionsPlaced' /\ Invited'
  BY <1>0, <1>1, <1>3, <1>4, ConversationStep DEF contact, inbound
<1>6. PromptsPlaced' /\ LanesCounted'
  BY <1>0, <1>1, PromptsFrame DEF Admission, LanesCounted, OnLane, inbound, dispatch, contact
<1>7. ContactType' /\ SessionsType' /\ MailsType' /\ CountsType'
  BY <1>0, <1>1, TypeFrame, Counted DEF inbound
<1> QED
  BY <1>1, <1>5, <1>6, <1>7, QuietStep DEF inbound, Admission

LEMMA GrantKeeps ==
    ASSUME IInv, NEW k \in Conversations, GrantDisclosure(k)
    PROVE  IInv'
<1> DEFINE c == [conv[k] EXCEPT !.disclosure = "Granted"]
<1>0. /\ ContactType /\ ConvType /\ SessionsType /\ MailsType /\ CountsType /\ Admission
  BY TypeParts DEF IInv
<1>1. /\ UNCHANGED <<contact, dispatch, inbound, observation, seen, faults>> /\ Given
      /\ conv[k] # None /\ conv' = [conv EXCEPT ![k] = c]
  BY DEF GrantDisclosure
<1>2. conv[k] \in ExternalConversation
  BY <1>0, <1>1 DEF ConvType
<1>3. /\ c \in ExternalConversation /\ c.version = conv[k].version /\ c.decided = conv[k].decided
      /\ c.invitation = conv[k].invitation
  BY <1>2 DEF ExternalConversation
<1>4. c.invitation # "NotRequired" =>
         /\ rel # None /\ c.version <= rel.version
         /\ c.decided => c.version < rel.version
  BY <1>0, <1>1, <1>3 DEF Admission, Invited
<1> HIDE DEF c
<1>5. ConvType' /\ SessionsPlaced' /\ Invited'
  BY <1>0, <1>1, <1>3, <1>4, ConversationStep DEF contact, inbound
<1>6. PromptsPlaced' /\ LanesCounted'
  BY <1>0, <1>1, PromptsFrame DEF Admission, LanesCounted, OnLane, inbound, dispatch, contact
<1>7. ContactType' /\ SessionsType' /\ MailsType' /\ CountsType'
  BY <1>0, <1>1, TypeFrame, Counted DEF inbound
<1> QED
  BY <1>1, <1>5, <1>6, <1>7, QuietStep DEF inbound, Admission

\* A letter that is given to the workers: none of them has it yet.
LEMMA GivenToWorkers ==
    ASSUME LettersType, HandsType, Dispatch, NEW l \in Letters, delivery[l] = "None",
           delivery' = [delivery EXCEPT ![l] = "Waiting"],
           UNCHANGED <<carrier, worker, withdrawn>>
    PROVE  Dispatch' /\ HandsType' /\ delivery' \in [Letters -> DeliveryState]
<1> DEFINE c == carrier[l]
<1>1. c \in [times : Nat, taken : BOOLEAN] /\ carrier' = [carrier EXCEPT ![l] = c]
  BY DEF HandsType
<1>2. LetterFits("Waiting", c) /\ l \notin withdrawn
  BY DEF Dispatch, LetterFits, WithdrawnStays
<1>3. \A v \in Workers : ~Holds(v, l)'
  BY DEF Dispatch, Holds, HolderFits
<1>4. \A v \in Workers : \A x \in Letters : Holds(v, x)' => Holds(v, x) /\ worker'[v] = worker[v]
  BY DEF Holds
<1>5. /\ WorkersPlaced'
      /\ worker' \in [Workers -> [letter : Letters \cup {None},
                                  step : {"idle", "begin", "submit", "accepted", "failed"}]]
  BY DEF Dispatch, WorkersPlaced, Holds, HandsType
<1>6. "Waiting" \in DeliveryState
  BY DEF DeliveryState
<1> HIDE DEF c
<1> QED
  BY <1>1, <1>2, <1>3, <1>4, <1>5, <1>6, LetterMoves

LEMMA QueuedStep ==
    ASSUME IInv, NEW m \in Outgoing, Queued(m), UNCHANGED <<seen, admitted>>
    PROVE  /\ Dispatch' /\ HandsType' /\ LettersType' /\ UnreadType' /\ Observation'
           /\ \A i \in ToAddress : delivery'[Notice(i)] # "None" => delivery[Notice(i)] # "None"
<1>1. PICK l \in Letters : l = Message(m) /\ l[1] = "message" /\ l[2] = m
  BY LettersAre
<1>2. /\ delivery[l] = "None" /\ delivery' = [delivery EXCEPT ![l] = "Waiting"]
      /\ ObserveLetter(l) /\ UNCHANGED <<events, carrier, worker, withdrawn>>
  BY <1>1 DEF Queued, ObserveLetter
<1>3. /\ LettersType /\ HandsType /\ UnreadType /\ Dispatch
      /\ QueuedFinite /\ OrdersInjective /\ ObservationsCurrent
  BY TypeParts DEF IInv, Observation
<1>4. Dispatch' /\ HandsType' /\ delivery' \in [Letters -> DeliveryState]
  BY <1>2, <1>3, GivenToWorkers
<1>5. LettersType'
  BY <1>2, <1>3, <1>4 DEF LettersType
<1>6. \A y \in Letters : y # l => delivery'[y] = delivery[y] /\ events'[y] = events[y]
  BY <1>2, <1>3 DEF LettersType
<1>7. UnreadType' /\ OrdersInjective' /\ ObservationsCurrent'
  BY <1>2, <1>3, <1>6, LetterObserved
<1>8. QueuedFinite'
  <2> DEFINE Q == {n \in Outgoing : delivery[Message(n)] # "None"}
             N == {n \in Outgoing : delivery'[Message(n)] # "None"}
  <2>1. delivery'[l] = "Waiting"
    BY <1>2, <1>3 DEF LettersType
  <2>2. ASSUME NEW n \in Outgoing PROVE n \in N <=> n \in Q \cup {m}
    <3>1. CASE n = m
      BY <1>1, <2>1, <3>1
    <3>2. CASE n # m
      <4>1. Message(n) \in Letters /\ Message(n) # l
        BY <1>1, <3>2, LettersAre
      <4> QED
        BY <1>6, <3>2, <4>1
    <3> QED
      BY <3>1, <3>2
  <2>3. N = Q \cup {m}
    BY <2>2
  <2>4. IsFiniteSet(Q)
    BY <1>3 DEF QueuedFinite
  <2> HIDE DEF Q, N
  <2>5. IsFiniteSet(N)
    BY <2>3, <2>4, FS_AddElement
  <2> QED
    BY <2>5 DEF QueuedFinite, N
<1>9. \A i \in ToAddress : delivery'[Notice(i)] # "None" => delivery[Notice(i)] # "None"
  BY <1>1, <1>6, LettersAre
<1> QED
  BY <1>4, <1>5, <1>7, <1>8, <1>9 DEF Observation

\* The member writes to a guest they know, or have not met.
LEMMA StartKeeps ==
    ASSUME IInv, NEW m \in Outgoing, Start(m)
    PROVE  IInv'
<1> DEFINE k == InConversation[m]
           c == Started(Opened)
<1>0. /\ ContactType /\ ConvType /\ SessionsType /\ MailsType /\ CountsType /\ SeenType /\ Admission
      /\ k \in Conversations
  BY TypeParts, Conversing DEF IInv
<1>1. /\ UNCHANGED <<lane, scope, covered, address, inbound, seen, faults>> /\ Given
      /\ rel' = Opened /\ Queued(m)
      /\ conv' = [conv EXCEPT ![k] = c]
  BY DEF Start
<1>2. Opened \in Relationship /\ Opened # None /\ (rel # None => Opened = rel)
  BY <1>0, NoneIsAbsence DEF Opened, ContactType, Relationship, RelationshipState
<1>3. c \in ExternalConversation /\ c.version = Opened.version /\ Opened.version \in Nat /\ ~c.decided
  BY <1>2 DEF Started, ExternalConversation, Relationship
<1>4. UNCHANGED rel \/ (rel = None /\ rel' # None)
  BY <1>1, <1>2
<1>5. c.invitation # "NotRequired" =>
          rel' # None /\ c.version <= rel'.version /\ (c.decided => c.version < rel'.version)
  BY <1>1, <1>2, <1>3
<1> HIDE DEF c, k
<1>6. ConvType' /\ SessionsPlaced' /\ Invited'
  BY <1>0, <1>1, <1>3, <1>4, <1>5, ConversationStep DEF inbound
<1>7. /\ Dispatch' /\ HandsType' /\ LettersType' /\ UnreadType' /\ Observation'
      /\ \A i \in ToAddress : delivery'[Notice(i)] # "None" => delivery[Notice(i)] # "None"
  BY <1>1, QueuedStep DEF inbound
<1>8. PromptsPlaced'
  BY <1>0, <1>1, <1>7, PromptsFrame DEF Admission, inbound
<1>9. LanesCounted'
  <2>1. lane # None => lane.id \in Nat
    BY <1>0 DEF ContactType, Lane
  <2>2. \A i \in Mails : admitted[i] # None => admitted[i].lane \in Nat \cup {None}
    BY <1>0 DEF MailsType, Admittance
  <2>3. rel # None => rel' # None /\ rel.version \in Nat /\ rel'.version \in Nat
                      /\ rel.version <= rel'.version
    BY <1>1, <1>2, <1>3
  <2> QED
    BY <1>0, <1>1, <2>1, <2>2, <2>3, LanesFrame DEF Admission, inbound
<1>10. ContactType'
  BY <1>0, <1>1, <1>2 DEF ContactType
<1>11. SessionsType' /\ MailsType' /\ CountsType' /\ SeenType'
  BY <1>0, <1>1, TypeFrame, Counted DEF inbound
<1>12. TypeOK'
  BY <1>6, <1>7, <1>10, <1>11, TypePartsNext
<1> QED
  BY <1>6, <1>7, <1>8, <1>9, <1>12 DEF IInv, Admission

LEMMA SendKeeps ==
    ASSUME IInv, NEW m \in Outgoing, NEW disclose \in BOOLEAN, Send(m, disclose)
    PROVE  IInv'
<1> DEFINE k == InConversation[m]
           c == [conv[k] EXCEPT !.disclosure = "Granted"]
<1>0. /\ ContactType /\ ConvType /\ SessionsType /\ MailsType /\ CountsType /\ SeenType /\ Admission
      /\ k \in Conversations
  BY TypeParts, Conversing DEF IInv
<1>1. /\ UNCHANGED <<contact, inbound, seen, faults>> /\ Given /\ Queued(m)
      /\ conv[k] # None /\ conv' = [conv EXCEPT ![k] = c]
  BY DEF Send
<1>2. conv[k] \in ExternalConversation
  BY <1>0, <1>1 DEF ConvType
<1>3. /\ c \in ExternalConversation /\ c.version = conv[k].version /\ c.decided = conv[k].decided
      /\ c.invitation = conv[k].invitation
  BY <1>2 DEF ExternalConversation
<1> HIDE DEF k
<1>4. c.invitation # "NotRequired" =>
         /\ rel # None /\ c.version <= rel.version
         /\ c.decided => c.version < rel.version
  BY <1>0, <1>1, <1>3 DEF Admission, Invited
<1> HIDE DEF c
<1>5. ConvType' /\ SessionsPlaced' /\ Invited'
  BY <1>0, <1>1, <1>3, <1>4, ConversationStep DEF contact, inbound
<1>6. /\ Dispatch' /\ HandsType' /\ LettersType' /\ UnreadType' /\ Observation'
      /\ \A i \in ToAddress : delivery'[Notice(i)] # "None" => delivery[Notice(i)] # "None"
  BY <1>1, QueuedStep DEF inbound
<1>7. PromptsPlaced'
  BY <1>0, <1>1, <1>6, PromptsFrame DEF Admission, inbound
<1>8. LanesCounted'
  BY <1>0, <1>1 DEF Admission, LanesCounted, OnLane, inbound, contact
<1>9. ContactType' /\ SessionsType' /\ MailsType' /\ CountsType' /\ SeenType'
  BY <1>0, <1>1, TypeFrame, Counted DEF inbound
<1>10. TypeOK'
  BY <1>5, <1>6, <1>9, TypePartsNext
<1> QED
  BY <1>5, <1>6, <1>7, <1>8, <1>10 DEF IInv, Admission

\* What still waits is cancelled, and stays so.
LEMMA WithdrawKeeps ==
    ASSUME IInv, NEW k \in Conversations, WithdrawDisclosure(k)
    PROVE  IInv'
<1> DEFINE c == [conv[k] EXCEPT !.disclosure = IF @ = "Granted" THEN "Withdrawn" ELSE @]
           queued == {m \in Outgoing : InConversation[m] = k /\ delivery[Message(m)] # "None"}
<1>0. /\ ContactType /\ ConvType /\ SessionsType /\ MailsType /\ CountsType /\ SeenType /\ Admission
      /\ LettersType /\ HandsType /\ UnreadType /\ Dispatch
      /\ QueuedFinite /\ OrdersInjective /\ ObservationsCurrent
  BY TypeParts DEF IInv, Observation
<1>1. /\ UNCHANGED <<contact, events, carrier, worker, inbound, seen, faults>> /\ Given
      /\ conv[k] # None /\ conv' = [conv EXCEPT ![k] = c]
      /\ delivery' = [l \in Letters |->
            IF l \in LettersOf(k) /\ delivery[l] = "Waiting" THEN "Cancelled" ELSE delivery[l]]
      /\ withdrawn' = withdrawn \cup {l \in LettersOf(k) : delivery[l] = "Waiting"}
      /\ Observe(k, queued)
  BY DEF WithdrawDisclosure, Cancelled
<1>2. conv[k] \in ExternalConversation
  BY <1>0, <1>1 DEF ConvType
<1>3. /\ c \in ExternalConversation /\ c.version = conv[k].version /\ c.decided = conv[k].decided
      /\ c.invitation = conv[k].invitation
  BY <1>2 DEF ExternalConversation
<1>4. c.invitation # "NotRequired" =>
         /\ rel # None /\ c.version <= rel.version
         /\ c.decided => c.version < rel.version
  BY <1>0, <1>1, <1>3 DEF Admission, Invited
<1> HIDE DEF c
<1>5. ConvType' /\ SessionsPlaced' /\ Invited'
  BY <1>0, <1>1, <1>3, <1>4, ConversationStep DEF contact, inbound
<1>6. \A l \in LettersOf(k) :
         /\ l \in Letters /\ l[1] = "message" /\ l[2] \in Outgoing /\ l = Message(l[2])
         /\ InConversation[l[2]] = k
  BY LettersAre DEF LettersOf
<1>7. \A l \in Letters :
         \/ delivery'[l] = delivery[l]
         \/ delivery[l] = "Waiting" /\ delivery'[l] = "Cancelled" /\ l \in LettersOf(k)
  BY <1>1
<1>8. LettersType' /\ HandsType'
  <2>1. delivery' \in [Letters -> DeliveryState]
    BY <1>0, <1>1 DEF LettersType, DeliveryState
  <2>2. withdrawn' \subseteq Letters
    BY <1>0, <1>1, <1>6 DEF LettersType
  <2> QED
    BY <1>0, <1>1, <2>1, <2>2, TypeFrame DEF LettersType
<1>9. Dispatch'
  <2>1. \A l \in Letters : LetterFits(delivery'[l], carrier'[l])
    BY <1>0, <1>1, <1>7 DEF Dispatch, LetterFits
  <2>2. ASSUME NEW w \in Workers, NEW l \in Letters, Holds(w, l)'
        PROVE  HolderFits(worker'[w].step, delivery'[l], carrier'[l])
    <3>1. Holds(w, l)
      BY <1>1, <2>2 DEF Holds
    <3>2. HolderFits(worker[w].step, delivery[l], carrier[l])
      BY <1>0, <3>1 DEF Dispatch
    <3>3. delivery[l] # "Waiting"
      BY <3>1, <3>2 DEF Holds, HolderFits
    <3>4. delivery'[l] = delivery[l]
      BY <1>7, <3>3
    <3> QED
      BY <1>1, <3>2, <3>4
  <2>3. WithdrawnStays'
    <3>1. ASSUME NEW l \in withdrawn' PROVE l[1] = "message" /\ delivery'[l] = "Cancelled"
      <4>1. CASE l \in withdrawn
        <5>1. l \in Letters /\ l[1] = "message" /\ delivery[l] = "Cancelled"
          BY <1>0, <4>1 DEF LettersType, Dispatch, WithdrawnStays
        <5> QED
          BY <1>7, <5>1
      <4>2. CASE l \in LettersOf(k) /\ delivery[l] = "Waiting"
        BY <1>1, <1>6, <4>2
      <4> QED
        BY <1>1, <3>1, <4>1, <4>2
    <3> QED
      BY <3>1 DEF WithdrawnStays
  <2>4. WorkersPlaced'
    BY <1>0, <1>1 DEF Dispatch, WorkersPlaced, Holds
  <2> QED
    BY <2>1, <2>2, <2>3, <2>4 DEF Dispatch
<1>10. /\ queued \in SUBSET (Outgoing \cup Mails) /\ IsFiniteSet(queued)
  <2> DEFINE Q == {m \in Outgoing : delivery[Message(m)] # "None"}
  <2>1. IsFiniteSet(Q) /\ queued \in SUBSET Q /\ queued \subseteq Outgoing
    BY <1>0 DEF QueuedFinite
  <2> HIDE DEF Q, queued
  <2> QED
    BY <2>1, FS_Subset
<1>11. /\ UnreadType' /\ OrdersInjective'
       /\ \A j \in Conversations : ToSet(unread[j]) \subseteq ToSet(unread'[j])
       /\ queued \subseteq ToSet(unread'[k])
  <2> HIDE DEF queued
  <2> QED
    BY <1>0, <1>1, <1>10, Observes
<1>12. ASSUME NEW m \in Outgoing
       PROVE  \/ m \in ToSet(unread'[InConversation[m]])
              \/ /\ delivery'[Message(m)] = delivery[Message(m)]
                 /\ events'[Message(m)] = events[Message(m)]
  <2>1. Message(m) \in Letters /\ Message(m)[2] = m
    BY LettersAre
  <2>2. CASE delivery'[Message(m)] = delivery[Message(m)]
    BY <1>1, <2>2
  <2>3. CASE Message(m) \in LettersOf(k) /\ delivery[Message(m)] = "Waiting"
    <3>1. InConversation[m] = k
      BY <1>6, <2>1, <2>3
    <3> QED
      BY <1>11, <2>3, <3>1
  <2> QED
    BY <1>7, <2>1, <2>2, <2>3
<1>13. ObservationsCurrent'
  BY <1>0, <1>1, <1>11, <1>12, CurrentAfter DEF inbound
<1>14. QueuedFinite'
  BY <1>0, <1>7, LettersAre, QueuedFrame
<1>15. PromptsPlaced'
  <2>1. \A i \in ToAddress : delivery'[Notice(i)] # "None" => delivery[Notice(i)] # "None"
    BY <1>7, LettersAre
  <2> QED
    BY <1>0, <1>1, <2>1, PromptsFrame DEF Admission, inbound
<1>16. LanesCounted'
  BY <1>0, <1>1 DEF Admission, LanesCounted, OnLane, inbound, contact
<1>17. ContactType' /\ SessionsType' /\ MailsType' /\ CountsType' /\ SeenType'
  BY <1>0, <1>1, TypeFrame, Counted DEF inbound
<1>18. TypeOK'
  BY <1>5, <1>8, <1>11, <1>17, TypePartsNext
<1> QED
  BY <1>5, <1>9, <1>11, <1>13, <1>14, <1>15, <1>16, <1>18 DEF IInv, Admission, Observation

-----------------------------------------------------------------------------
(***************************************************************************)
(* Receiving.                                                              *)
(***************************************************************************)

\* A relationship that is opened changes nothing that was decided.
LEMMA OpeningFrame ==
    ASSUME ContactType, MailsType, LanesCounted, Invited, UNCHANGED <<lane, admitted, conv>>,
           rel' \in Relationship \cup {None},
           UNCHANGED rel \/ (rel = None /\ rel' # None)
    PROVE  LanesCounted' /\ Invited'
<1>1. /\ \A i \in Mails : admitted[i] # None => admitted[i].lane \in Nat \cup {None}
      /\ lane # None => lane.id \in Nat
      /\ rel # None => rel.version \in Nat
  BY DEF MailsType, Admittance, ContactType, Lane, Relationship
<1>2. rel # None => rel' # None /\ rel.version \in Nat /\ rel'.version \in Nat /\ rel.version <= rel'.version
  BY <1>1
<1>3. LanesCounted'
  BY <1>1, <1>2, LanesFrame
<1>4. Invited'
  BY DEF Invited
<1> QED
  BY <1>3, <1>4

\* A session moves on to what its mail allows.
LEMMA SessionMoves ==
    ASSUME SessionsType, SessionsPlaced, UNCHANGED conv, NEW s \in Sessions,
           NEW i \in Mails \cup {None}, NEW st \in {"idle", "admit", "prompt"}, NEW h \in Nat \cup {None},
           session' = [session EXCEPT ![s] = [mail |-> i, step |-> st, lane |-> h]],
           st # "idle" => i \in Mails,
           st = "prompt" => i \in ToAddress,
           st = "admit" /\ i \notin ToAddress => conv[Thread[i]] # None
    PROVE  SessionsType' /\ SessionsPlaced'
<1>1. /\ session'[s] = [mail |-> i, step |-> st, lane |-> h]
      /\ \A r \in Sessions : r # s => session'[r] = session[r]
  BY DEF SessionsType
<1>2. SessionsType'
  BY DEF SessionsType
<1>3. ASSUME NEW r \in Sessions
      PROVE  /\ session'[r].step # "idle" => session'[r].mail \in Mails
             /\ session'[r].step = "prompt" => session'[r].mail \in ToAddress
             /\ session'[r].step = "admit" /\ session'[r].mail \notin ToAddress =>
                   conv'[Thread[session'[r].mail]] # None
  <2>1. CASE r = s
    BY <1>1, <2>1
  <2>2. CASE r # s
    BY <1>1, <2>2 DEF SessionsPlaced
  <2> QED
    BY <2>1, <2>2
<1> QED
  BY <1>2, <1>3 DEF SessionsPlaced

LEMMA PrepareKeeps ==
    ASSUME IInv, NEW s \in Sessions, NEW i \in Mails, Prepare(s, i)
    PROVE  IInv'
<1>0. /\ ContactType /\ ConvType /\ SessionsType /\ MailsType /\ CountsType
      /\ SessionsPlaced /\ PromptsPlaced /\ LanesCounted /\ Invited
  BY TypeParts DEF IInv, Admission
<1>1. /\ session' = [session EXCEPT ![s] = [mail |-> i, step |-> Prepared(i), lane |-> Hint]]
      /\ rel' = IF Prepared(i) = "admit" THEN Opened ELSE rel
      /\ UNCHANGED <<lane, scope, covered, address, conv, dispatch, admitted, prompted, notified,
                     observation, seen, commands, faults>>
      /\ Prepared(i) # "refuse"
  BY DEF Prepare
<1>2. Prepared(i) \in {"admit", "prompt", "refuse"}
  BY DEF Prepared
<1>3. /\ Prepared(i) = "prompt" => i \in ToAddress
      /\ i \notin ToAddress => conv[Thread[i]] # None
  BY <1>1 DEF Prepared
<1>4. Hint \in Nat \cup {None}
  BY <1>0 DEF Hint, ContactType, Lane
<1>5. SessionsType' /\ SessionsPlaced'
  <2>1. Prepared(i) \in {"idle", "admit", "prompt"} /\ i \in Mails \cup {None}
    BY <1>1, <1>2
  <2> QED
    BY <1>0, <1>1, <1>3, <1>4, <2>1, SessionMoves
<1>6. rel' \in Relationship \cup {None} /\ (UNCHANGED rel \/ (rel = None /\ rel' # None))
  BY <1>0, <1>1, NoneIsAbsence DEF Opened, ContactType, Relationship, RelationshipState
<1>7. LanesCounted' /\ Invited'
  BY <1>0, <1>1, <1>6, OpeningFrame
<1>8. PromptsPlaced'
  BY <1>0, <1>1, PromptsFrame DEF dispatch
<1>9. ContactType'
  BY <1>0, <1>1, <1>6 DEF ContactType
<1>10. ConvType' /\ MailsType' /\ CountsType'
  BY <1>0, <1>1, TypeFrame
<1>11. Admission'
  BY <1>5, <1>7, <1>8 DEF Admission
<1> QED
  BY <1>1, <1>5, <1>9, <1>10, <1>11, QuietStep

LEMMA AbandonKeeps ==
    ASSUME IInv, NEW s \in Sessions, Abandon(s)
    PROVE  IInv'
<1>0. /\ ContactType /\ ConvType /\ SessionsType /\ MailsType /\ CountsType
      /\ SessionsPlaced /\ PromptsPlaced /\ LanesCounted /\ Invited
  BY TypeParts DEF IInv, Admission
<1>1. /\ session' = [session EXCEPT ![s] = [mail |-> None, step |-> "idle", lane |-> None]]
      /\ UNCHANGED <<contact, conv, dispatch, admitted, prompted, notified, observation, seen,
                     commands, faults>>
  BY DEF Abandon, Ended
<1>2. SessionsType' /\ SessionsPlaced'
  BY <1>0, <1>1, SessionMoves
<1>3. ContactType' /\ ConvType' /\ MailsType' /\ CountsType'
  BY <1>0, <1>1, TypeFrame
<1>4. PromptsPlaced'
  BY <1>0, <1>1, PromptsFrame DEF dispatch
<1>5. LanesCounted' /\ Invited'
  <2>1. rel' \in Relationship \cup {None} /\ UNCHANGED <<rel, lane>>
    BY <1>0, <1>1 DEF ContactType, contact
  <2> QED
    BY <1>0, <1>1, <2>1, OpeningFrame
<1>6. Admission'
  BY <1>2, <1>4, <1>5 DEF Admission
<1> QED
  BY <1>1, <1>2, <1>3, <1>6, QuietStep

LEMMA NextDayKeeps ==
    ASSUME IInv, NextDay
    PROVE  IInv'
<1>0. /\ ContactType /\ ConvType /\ SessionsType /\ MailsType /\ CountsType /\ Admission
  BY TypeParts DEF IInv
<1>1. /\ notified' = FALSE
      /\ UNCHANGED <<contact, conv, dispatch, session, admitted, prompted, observation, seen,
                     commands, faults>>
  BY DEF NextDay
<1>2. ContactType' /\ ConvType' /\ SessionsType' /\ CountsType'
  BY <1>0, <1>1, TypeFrame
<1>3. MailsType'
  BY <1>0, <1>1 DEF MailsType
<1>4. Admission'
  BY <1>0, <1>1, AdmissionFrame DEF contact, dispatch
<1> QED
  BY <1>1, <1>2, <1>3, <1>4, QuietStep

\* A prompt is queued once, and no message and no mail is concerned.
LEMMA CommitPromptKeeps ==
    ASSUME IInv, NEW s \in Sessions, CommitPrompt(s)
    PROVE  IInv'
<1>0. /\ ContactType /\ ConvType /\ SessionsType /\ MailsType /\ CountsType /\ SeenType
      /\ LettersType /\ HandsType /\ UnreadType /\ Dispatch
      /\ SessionsPlaced /\ PromptsPlaced /\ LanesCounted /\ Invited
      /\ QueuedFinite /\ OrdersInjective /\ ObservationsCurrent
  BY TypeParts DEF IInv, Admission, Observation
<1>1. PICK i \in ToAddress : i = session[s].mail
  BY <1>0 DEF CommitPrompt, SessionsPlaced
<1>2. /\ session' = [session EXCEPT ![s] = [mail |-> None, step |-> "idle", lane |-> None]]
      /\ UNCHANGED <<contact, conv, events, carrier, worker, withdrawn, admitted, observation, seen,
                     commands, faults>>
  BY DEF CommitPrompt, Ended
<1>3. \/ UNCHANGED <<prompted, notified, delivery>>
      \/ /\ i \notin prompted /\ admitted[i] = None
         /\ prompted' = prompted \cup {i} /\ notified' = TRUE
         /\ delivery' = [delivery EXCEPT ![Notice(i)] = IF notified THEN delivery[Notice(i)] ELSE "Waiting"]
  BY <1>1 DEF CommitPrompt, Prompts
<1>4. PICK l \in Letters : l = Notice(i) /\ l[1] = "notice"
  BY LettersAre
<1>5. \/ UNCHANGED delivery
      \/ /\ delivery[l] = "None" /\ delivery' = [delivery EXCEPT ![l] = "Waiting"]
         /\ i \in prompted'
  <2>1. CASE UNCHANGED delivery
    BY <2>1
  <2>2. CASE /\ i \notin prompted
             /\ prompted' = prompted \cup {i}
             /\ delivery' = [delivery EXCEPT ![l] = IF notified THEN delivery[l] ELSE "Waiting"]
    <3>1. delivery[l] = "None"
      BY <1>0, <1>4, <2>2 DEF PromptsPlaced
    <3>2. CASE notified
      <4>1. delivery' = delivery
        BY <1>0, <2>2, <3>2 DEF LettersType
      <4> QED
        BY <4>1
    <3>3. CASE ~notified
      BY <2>2, <3>1, <3>3
    <3> QED
      BY <3>2, <3>3
  <2> QED
    BY <1>3, <1>4, <2>1, <2>2
<1>6. Dispatch' /\ HandsType' /\ LettersType'
  <2>1. CASE UNCHANGED delivery
    BY <1>0, <1>2, <2>1, DispatchFrame, TypeFrame
  <2>2. CASE delivery[l] = "None" /\ delivery' = [delivery EXCEPT ![l] = "Waiting"]
    <3>1. Dispatch' /\ HandsType' /\ delivery' \in [Letters -> DeliveryState]
      BY <1>0, <1>2, <2>2, GivenToWorkers
    <3> QED
      BY <1>0, <1>2, <3>1 DEF LettersType
  <2> QED
    BY <1>5, <2>1, <2>2
<1>7. \A x \in Letters : x # l => delivery'[x] = delivery[x]
  BY <1>0, <1>5 DEF LettersType
<1>8. \A m \in Outgoing : delivery'[Message(m)] = delivery[Message(m)]
  BY <1>4, <1>7, LettersAre
<1>9. /\ prompted' \subseteq ToAddress
      /\ prompted \subseteq prompted'
      /\ \A j \in prompted' : admitted[j] = None
  BY <1>0, <1>3 DEF PromptsPlaced
<1>10. PromptsPlaced'
  <2>1. ASSUME NEW j \in ToAddress, delivery'[Notice(j)] # "None" PROVE j \in prompted'
    <3>1. CASE j = i
      <4>1. CASE UNCHANGED delivery
        BY <1>0, <1>9, <2>1, <4>1 DEF PromptsPlaced
      <4> QED
        BY <1>5, <3>1, <4>1
    <3>2. CASE j # i
      <4>1. Notice(j) \in Letters /\ Notice(j) # l
        BY <1>4, <3>2, LettersAre
      <4>2. delivery[Notice(j)] # "None"
        BY <1>7, <2>1, <4>1
      <4> QED
        BY <1>0, <1>9, <4>2 DEF PromptsPlaced
    <3> QED
      BY <3>1, <3>2
  <2> QED
    BY <1>2, <1>9, <2>1 DEF PromptsPlaced
<1>11. SessionsType' /\ SessionsPlaced'
  BY <1>0, <1>2, SessionMoves
<1>12. LanesCounted' /\ Invited'
  <2>1. rel' \in Relationship \cup {None} /\ UNCHANGED <<rel, lane>>
    BY <1>0, <1>2 DEF ContactType, contact
  <2> QED
    BY <1>0, <1>2, <2>1, OpeningFrame
<1>13. MailsType'
  <2>1. ToAddress \subseteq Mails
    BY ExternalAssumption
  <2>2. notified' \in BOOLEAN
    BY <1>0, <1>3 DEF MailsType
  <2> QED
    BY <1>0, <1>2, <1>9, <2>1, <2>2 DEF MailsType
<1>14. ContactType' /\ ConvType' /\ UnreadType' /\ SeenType' /\ CountsType'
  BY <1>0, <1>2, TypeFrame
<1>15. OrdersInjective' /\ QueuedFinite'
  <2>1. OrdersInjective'
    BY <1>0, <1>2 DEF OrdersInjective, observation
  <2>2. QueuedFinite'
    BY <1>0, <1>8, QueuedFrame
  <2> QED
    BY <2>1, <2>2
<1>16. ObservationsCurrent'
  <2>1. /\ \A k \in Conversations : ToSet(unread[k]) \subseteq ToSet(unread'[k])
        /\ \A m \in Outgoing : events'[Message(m)] = events[Message(m)]
        /\ \A j \in Mails : admitted'[j] = admitted[j]
        /\ UNCHANGED seen
    BY <1>2 DEF observation
  <2> QED
    BY <1>0, <1>8, <2>1, CurrentAfter
<1>17. TypeOK'
  BY <1>6, <1>11, <1>13, <1>14, TypePartsNext
<1> QED
  BY <1>6, <1>10, <1>11, <1>12, <1>15, <1>16, <1>17 DEF IInv, Admission, Observation

\* What a basis that is not refused stands on.
LEMMA BasisGives ==
    ASSUME NEW i \in Mails, NEW h, Basis(i, h) # "Refuse"
    PROVE  /\ Basis(i, h) \in {"AliasLane", "Standing", "Lane", "Pending"}
           /\ Basis(i, h) = "Lane" => LaneAdmits(h)
           /\ Basis(i, h) = "Pending" => i \notin ToAddress /\ PendingAccess(conv[Thread[i]])
<1>1. RouteDecision(Thread[i]) \in {"AliasLane", "Standing"} => RouteDecision(Thread[i]) # "Refuse"
  OBVIOUS
<1> QED
  BY <1>1 DEF Basis

\* The mails of a lane, after one more was admitted.
LEMMA AdmittedOnLane ==
    ASSUME ContactType, MailsType, LanesCounted, UNCHANGED rel,
           NEW i \in Mails, admitted[i] = None, NEW a \in Admittance,
           admitted' = [admitted EXCEPT ![i] = a],
           \/ a.lane = None /\ lane' = lane
           \/ /\ lane # None /\ lane.left > 0 /\ a.lane = lane.id
              /\ lane' = [lane EXCEPT !.left = lane.left - 1]
    PROVE  LanesCounted' /\ lane' \in Lane \cup {None}
<1>0. /\ Limit \in Nat
      /\ lane # None => /\ lane \in [id : Nat, left : 0..Limit] /\ lane.id \in Nat /\ lane.left \in Nat
                        /\ lane.left <= Limit /\ rel # None /\ lane.id <= rel.version
                        /\ IsFiniteSet(OnLane(lane.id))
                        /\ lane.left = Limit - Cardinality(OnLane(lane.id))
  BY ExternalAssumption DEF ContactType, Lane, LanesCounted
<1>1. /\ a # None /\ admitted'[i] = a
      /\ \A j \in Mails : j # i => admitted'[j] = admitted[j]
  BY NoneIsAbsence DEF MailsType
<1>2. \A j \in Mails : admitted'[j] # None /\ admitted'[j].lane # None =>
         rel' # None /\ admitted'[j].lane <= rel'.version
  <2> SUFFICES ASSUME NEW j \in Mails, admitted'[j] # None, admitted'[j].lane # None
               PROVE  rel' # None /\ admitted'[j].lane <= rel'.version
    OBVIOUS
  <2>1. CASE j = i
    BY <1>0, <1>1, <2>1
  <2>2. CASE j # i
    BY <1>1, <2>2 DEF LanesCounted
  <2> QED
    BY <2>1, <2>2
<1>3. CASE a.lane = None /\ lane' = lane
  <2>1. lane # None => OnLane(lane.id)' = OnLane(lane.id)
    <3> SUFFICES ASSUME lane # None PROVE OnLane(lane.id)' = OnLane(lane.id)
      OBVIOUS
    <3>1. lane'.id = lane.id /\ lane.id # None
      BY <1>0, <1>3, NoneIsAbsence
    <3>2. \A j \in Mails : admitted'[j] # None /\ admitted'[j].lane = lane.id
                          <=> admitted[j] # None /\ admitted[j].lane = lane.id
      BY <1>1, <1>3, <3>1
    <3> QED
      BY <3>1, <3>2 DEF OnLane
  <2>2. lane' # None => rel' # None /\ lane'.id <= rel'.version
    BY <1>0, <1>3
  <2>3. lane' # None => IsFiniteSet(OnLane(lane.id)') /\ lane'.left = Limit - Cardinality(OnLane(lane.id)')
    BY <1>0, <1>3, <2>1
  <2>4. LanesCounted'
    BY <1>2, <2>2, <2>3 DEF LanesCounted
  <2> QED
    BY <1>0, <1>3, <2>4 DEF Lane
<1>4. CASE /\ lane # None /\ lane.left > 0 /\ a.lane = lane.id
           /\ lane' = [lane EXCEPT !.left = lane.left - 1]
  <2> DEFINE T == OnLane(lane.id)
  <2>1. /\ lane' \in [id : Nat, left : 0..Limit] /\ lane' # None
        /\ lane'.id = lane.id /\ lane'.left = lane.left - 1
    <3>1. lane.left - 1 \in 0..Limit
      BY <1>0, <1>4
    <3>2. lane' \in [id : Nat, left : 0..Limit] /\ lane'.id = lane.id /\ lane'.left = lane.left - 1
      BY <1>0, <1>4, <3>1
    <3> QED
      BY <3>2, NoneIsAbsence DEF Lane
  <2>2. OnLane(lane.id)' = T \cup {i}
    <3>1. \A j \in Mails : admitted'[j] # None /\ admitted'[j].lane = lane.id
                          <=> j = i \/ (admitted[j] # None /\ admitted[j].lane = lane.id)
      BY <1>1, <1>4
    <3> QED
      BY <2>1, <3>1 DEF OnLane
  <2>3. i \notin T /\ IsFiniteSet(T)
    BY <1>0, <1>4 DEF OnLane
  <2> HIDE DEF T
  <2>4. IsFiniteSet(T \cup {i}) /\ Cardinality(T \cup {i}) = Cardinality(T) + 1
    BY <2>3, FS_AddElement
  <2>5. Cardinality(T) \in Nat /\ lane.left = Limit - Cardinality(T)
    BY <1>0, <1>4, <2>3, FS_CardinalityType DEF T
  <2>6. lane'.left = Limit - Cardinality(T \cup {i})
    BY <1>0, <2>1, <2>4, <2>5
  <2>7. IsFiniteSet(OnLane(lane.id)') /\ lane'.left = Limit - Cardinality(OnLane(lane.id)')
    BY <2>2, <2>4, <2>6
  <2>8. rel' # None /\ lane'.id <= rel'.version
    BY <1>0, <1>4, <2>1
  <2>9. LanesCounted'
    BY <1>2, <2>7, <2>8 DEF LanesCounted
  <2> QED
    BY <2>1, <2>9 DEF Lane
<1> QED
  BY <1>3, <1>4, <1>0 DEF ContactType

LEMMA CommitAdmitKeeps ==
    ASSUME IInv, NEW s \in Sessions, CommitAdmit(s)
    PROVE  IInv'
<1> DEFINE h == session[s].lane
<1>0. /\ ContactType /\ ConvType /\ SessionsType /\ MailsType /\ CountsType /\ SeenType
      /\ LettersType /\ HandsType /\ UnreadType /\ Dispatch
      /\ SessionsPlaced /\ PromptsPlaced /\ LanesCounted /\ Invited
      /\ QueuedFinite /\ OrdersInjective /\ ObservationsCurrent /\ Admission /\ Observation
  BY TypeParts DEF IInv, Admission, Observation
<1>1. PICK i \in Mails : i = session[s].mail
  BY <1>0 DEF CommitAdmit, SessionsPlaced
<1> DEFINE k == Thread[i]
           basis == Basis(i, h)
           a == [on |-> basis, lane |-> IF basis = "Lane" THEN lane.id ELSE None,
                 decided |-> conv[k] # None /\ conv[k].decided]
<1>2. /\ session[s].step = "admit"
      /\ session' = [session EXCEPT ![s] = [mail |-> None, step |-> "idle", lane |-> None]]
      /\ UNCHANGED <<rel, scope, covered, address, dispatch, prompted, notified, seen, commands, faults>>
  BY DEF CommitAdmit, Ended
<1>3. \/ UNCHANGED <<admitted, conv, lane, observation>>
      \/ /\ Admits(i, h)
         /\ admitted' = [admitted EXCEPT ![i] = a]
         /\ conv' = [conv EXCEPT ![k] = IF conv[k] = None THEN Inbound ELSE conv[k]]
         /\ lane' = IF basis = "Lane" THEN [lane EXCEPT !.left = lane.left - 1] ELSE lane
         /\ ObserveMessage(i)
  BY <1>1 DEF CommitAdmit
<1>4. k \in Conversations /\ i \notin Outgoing /\ ConversationOf(i) = k
  BY Conversing
<1>5. ASSUME UNCHANGED <<admitted, conv, lane, observation>> PROVE IInv'
  <2>1. SessionsType' /\ SessionsPlaced'
    BY <1>0, <1>2, <1>5, SessionMoves
  <2>2. ContactType' /\ ConvType' /\ MailsType' /\ CountsType'
    BY <1>0, <1>2, <1>5, TypeFrame DEF contact
  <2>3. PromptsPlaced'
    BY <1>0, <1>2, <1>5, PromptsFrame DEF dispatch
  <2>4. LanesCounted' /\ Invited'
    <3>1. rel' \in Relationship \cup {None}
      BY <1>0, <1>2 DEF ContactType
    <3> QED
      BY <1>0, <1>2, <1>5, <3>1, OpeningFrame
  <2>5. Admission'
    BY <2>1, <2>3, <2>4 DEF Admission
  <2> QED
    BY <1>2, <1>5, <2>1, <2>2, <2>5, QuietStep
<1>6. ASSUME Admits(i, h),
             admitted' = [admitted EXCEPT ![i] = a],
             conv' = [conv EXCEPT ![k] = IF conv[k] = None THEN Inbound ELSE conv[k]],
             lane' = IF basis = "Lane" THEN [lane EXCEPT !.left = lane.left - 1] ELSE lane,
             ObserveMessage(i)
      PROVE  IInv'
  <2>1. i \notin prompted /\ admitted[i] = None
    BY <1>6 DEF Admits
  <2>2. /\ basis \in {"AliasLane", "Standing", "Lane", "Pending"}
        /\ basis = "Lane" => LaneAdmits(h)
        /\ basis = "Pending" => i \notin ToAddress /\ PendingAccess(conv[k])
    BY <1>6, BasisGives DEF Admits
  <2>3. basis = "Lane" => lane # None /\ lane.left > 0 /\ lane.id \in Nat
    BY <1>0, <2>2 DEF LaneAdmits, ContactType, Lane
  <2>4. a \in Admittance /\ a.on = basis
    <3> HIDE DEF basis
    <3>1. (IF basis = "Lane" THEN lane.id ELSE None) \in Nat \cup {None}
      BY <2>3
    <3>2. (conv[k] # None /\ conv[k].decided) \in BOOLEAN
      BY <1>0, <1>4 DEF ConvType, ExternalConversation
    <3> QED
      BY <2>2, <3>1, <3>2 DEF Admittance
  <2>5. basis = "Pending" => ~a.decided
    <3> SUFFICES ASSUME basis = "Pending" PROVE ~a.decided
      OBVIOUS
    <3>1. i \notin ToAddress /\ conv[k].invitation = "Pending" /\ conv[k].version = rel.version
      BY <2>2 DEF PendingAccess
    <3>2. conv[k] # None
      BY <1>0, <1>1, <1>2, <3>1 DEF SessionsPlaced
    <3>3. conv[k].version \in Nat /\ conv[k] \in ExternalConversation
      BY <1>0, <1>4, <3>2 DEF ConvType, ExternalConversation
    <3>4. conv[k].decided => conv[k].version < rel.version
      BY <1>0, <1>4, <3>1, <3>2 DEF Invited
    <3>5. ~conv[k].decided
      BY <3>1, <3>3, <3>4
    <3> QED
      BY <3>5
  <2>6. \/ a.lane = None /\ lane' = lane
        \/ /\ lane # None /\ lane.left > 0 /\ a.lane = lane.id
           /\ lane' = [lane EXCEPT !.left = lane.left - 1]
    BY <1>6, <2>3
  <2> HIDE DEF basis
  <2>7. admitted[i] = None /\ a \in Admittance
    BY <2>1, <2>4
  <2> HIDE DEF a
  <2>8. LanesCounted' /\ lane' \in Lane \cup {None}
    BY <1>0, <1>2, <1>6, <2>6, <2>7, AdmittedOnLane
  <2>9. /\ admitted'[i] = a
        /\ \A j \in Mails : j # i => admitted'[j] = admitted[j]
    BY <1>0, <1>6 DEF MailsType
  <2>10. MailsType'
    BY <1>0, <1>2, <1>6, <2>7 DEF MailsType
  <2>11. Inbound \in ExternalConversation /\ Inbound # None /\ Inbound.invitation = "NotRequired"
    <3>1. Inbound \in ExternalConversation /\ Inbound.invitation = "NotRequired"
      BY DEF Inbound, ExternalConversation
    <3> QED
      BY <3>1, NoneIsAbsence
  <2>12. \A j \in Conversations :
            \/ conv'[j] = conv[j]
            \/ conv[j] = None /\ conv'[j] = Inbound
    BY <1>0, <1>4, <1>6 DEF ConvType
  <2>13. ConvType'
    BY <1>0, <1>4, <1>6, <2>11 DEF ConvType
  <2>14. SessionsType' /\ SessionsPlaced'
    <3>1. ASSUME NEW r \in Sessions
          PROVE  /\ session'[r].step # "idle" => session'[r].mail \in Mails
                 /\ session'[r].step = "prompt" => session'[r].mail \in ToAddress
                 /\ session'[r].step = "admit" /\ session'[r].mail \notin ToAddress =>
                       conv'[Thread[session'[r].mail]] # None
      <4>1. CASE r = s
        <5>1. session'[r].step = "idle"
          BY <1>0, <1>2, <4>1 DEF SessionsType
        <5> QED
          BY <5>1
      <4>2. CASE r # s
        <5>1. session'[r] = session[r]
          BY <1>0, <1>2, <4>2 DEF SessionsType
        <5>2. session[r].step = "admit" /\ session[r].mail \notin ToAddress =>
                 /\ conv[Thread[session[r].mail]] # None /\ Thread[session[r].mail] \in Conversations
          BY <1>0, Conversing DEF SessionsPlaced
        <5>3. \A j \in Conversations : conv[j] # None => conv'[j] # None
          BY <2>11, <2>12
        <5> QED
          BY <1>0, <5>1, <5>2, <5>3 DEF SessionsPlaced
      <4> QED
        BY <4>1, <4>2
    <3>2. SessionsType'
      BY <1>0, <1>2 DEF SessionsType
    <3> QED
      BY <3>1, <3>2 DEF SessionsPlaced
  <2>15. PromptsPlaced'
    <3>1. \A j \in prompted : j \in Mails /\ j # i /\ admitted'[j] = None
      BY <1>0, <2>1, <2>9 DEF PromptsPlaced, MailsType
    <3> QED
      BY <1>0, <1>2, <3>1 DEF PromptsPlaced, dispatch
  <2>16. Invited'
    <3>1. ASSUME NEW j \in Conversations, conv'[j] # None, conv'[j].invitation # "NotRequired"
          PROVE  /\ rel' # None /\ conv'[j].version <= rel'.version
                 /\ conv'[j].decided => conv'[j].version < rel'.version
      <4>1. conv'[j] = conv[j]
        BY <2>11, <2>12, <3>1
      <4> QED
        BY <1>0, <1>2, <3>1, <4>1 DEF Invited
    <3>2. ASSUME NEW j \in Mails, admitted'[j] # None, admitted'[j].on = "Pending"
          PROVE  ~admitted'[j].decided
      <4>1. CASE j = i
        BY <2>4, <2>5, <2>9, <3>2, <4>1
      <4>2. CASE j # i
        BY <1>0, <2>9, <3>2, <4>2 DEF Invited
      <4> QED
        BY <4>1, <4>2
    <3> QED
      BY <3>1, <3>2 DEF Invited
  <2>17. Observe(k, {i}) /\ IsFiniteSet({i}) /\ {i} \in SUBSET (Outgoing \cup Mails)
    BY <1>4, <1>6, FS_Singleton DEF ObserveMessage
  <2> HIDE DEF k
  <2>18. /\ UnreadType' /\ OrdersInjective'
         /\ \A j \in Conversations : ToSet(unread[j]) \subseteq ToSet(unread'[j])
         /\ {i} \subseteq ToSet(unread'[k])
    BY <1>0, <1>4, <2>17, Observes
  <2>19. ObservationsCurrent'
    <3>1. \A m \in Outgoing : /\ delivery'[Message(m)] = delivery[Message(m)]
                              /\ events'[Message(m)] = events[Message(m)]
      BY <1>2 DEF dispatch
    <3>2. \A j \in Mails : \/ j \in ToSet(unread'[Thread[j]])
                           \/ admitted'[j] = admitted[j]
      BY <2>9, <2>18 DEF k
    <3>3. \A j \in Conversations : ToSet(unread[j]) \subseteq ToSet(unread'[j])
      BY <2>18
    <3>4. UNCHANGED seen
      BY <1>2
    <3> QED
      BY <1>0, <3>1, <3>2, <3>3, <3>4, CurrentAfter
  <2>20. QueuedFinite'
    BY <1>0, <1>2, QueuedFrame DEF dispatch
  <2>21. ContactType'
    BY <1>0, <1>2, <2>8 DEF ContactType
  <2>22. LettersType' /\ HandsType' /\ SeenType' /\ CountsType'
    BY <1>0, <1>2, TypeFrame DEF dispatch
  <2>23. Dispatch'
    BY <1>0, <1>2, DispatchFrame DEF dispatch
  <2>24. TypeOK'
    BY <2>10, <2>13, <2>14, <2>18, <2>21, <2>22, TypePartsNext
  <2> QED
    BY <2>8, <2>14, <2>15, <2>16, <2>18, <2>19, <2>20, <2>23, <2>24 DEF IInv, Admission, Observation
<1> QED
  BY <1>3, <1>5, <1>6

-----------------------------------------------------------------------------
(***************************************************************************)
(* The member's client.                                                    *)
(***************************************************************************)

\* A step of the client alone.
LEMMA ClientStep ==
    ASSUME IInv, UNCHANGED <<contact, conv, dispatch, inbound, commands, faults>>,
           UnreadType', SeenType', OrdersInjective', ObservationsCurrent'
    PROVE  IInv'
<1>1. /\ ContactType' /\ ConvType' /\ LettersType' /\ HandsType' /\ SessionsType' /\ MailsType'
      /\ CountsType'
  BY TypeParts, TypeFrame DEF IInv, dispatch, inbound
<1>2. TypeOK'
  BY <1>1, TypePartsNext
<1>3. Dispatch'
  BY DispatchFrame DEF IInv, dispatch
<1>4. Admission'
  BY AdmissionFrame DEF IInv, contact, dispatch, inbound
<1>5. QueuedFinite'
  BY QueuedFrame DEF IInv, Observation, dispatch
<1> QED
  BY <1>2, <1>3, <1>4, <1>5 DEF IInv, Observation

\* What is left of an order when its first p elements are read.
LEMMA RestOf ==
    ASSUME NEW S, NEW u \in Seq(S), NEW p \in Nat, p <= Len(u)
    PROVE  LET t == SubSeq(u, p + 1, Len(u)) IN
           /\ t \in Seq(S) /\ Len(t) = Len(u) - p
           /\ IsInjective(u) => IsInjective(t)
           /\ \A x : (\A n \in DOMAIN t : t[n] # x) /\ (\A n \in 1..p : u[n] # x)
                     => \A n \in DOMAIN u : u[n] # x
<1> DEFINE t == SubSeq(u, p + 1, Len(u))
<1>0. Len(u) \in Nat /\ DOMAIN u = 1..Len(u)
  OBVIOUS
<1>1. t \in Seq(S) /\ Len(t) = Len(u) - p /\ \A n \in 1..(Len(u) - p) : t[n] = u[p + n]
  <2>1. p + 1 \in Int /\ Len(u) \in Int /\ \A i \in (p + 1)..Len(u) : u[i] \in S
    BY <1>0
  <2> DEFINE m == p + 1
             n == Len(u)
  <2> HIDE DEF m, n
  <2>2. m \in Int /\ n \in Int /\ \A i \in m..n : u[i] \in S
    BY <2>1 DEF m, n
  <2>3. /\ SubSeq(u, m, n) \in Seq(S)
        /\ Len(SubSeq(u, m, n)) = IF m <= n THEN n - m + 1 ELSE 0
        /\ \A i \in 1..n - m + 1 : SubSeq(u, m, n)[i] = u[m + i - 1]
    BY <2>2, SubSeqProperties
  <2>4. t = SubSeq(u, m, n)
    BY DEF m, n
  <2> HIDE DEF t
  <2>5. Len(t) = Len(u) - p
    <3>1. Len(t) = IF m <= n THEN n - m + 1 ELSE 0
      BY <2>3, <2>4
    <3>2. m = p + 1 /\ n = Len(u)
      BY DEF m, n
    <3>3. n \in Nat /\ p <= n /\ n - m + 1 = n - p
      BY <1>0, <3>2
    <3>4. (IF m <= n THEN n - m + 1 ELSE 0) = n - p
      BY <3>2, <3>3
    <3> QED
      BY <3>1, <3>2, <3>4
  <2>6. ASSUME NEW i \in 1..(Len(u) - p) PROVE t[i] = u[p + i]
    <3>1. i \in 1..n - m + 1 /\ m + i - 1 = p + i
      BY <1>0 DEF m, n
    <3> QED
      BY <2>3, <2>4, <3>1
  <2> QED
    BY <2>3, <2>4, <2>5, <2>6
<1>2. DOMAIN t = 1..(Len(u) - p)
  BY <1>0, <1>1
<1> HIDE DEF t
<1>3. ASSUME IsInjective(u) PROVE IsInjective(t)
  <2> SUFFICES ASSUME NEW i \in DOMAIN t, NEW j \in DOMAIN t, t[i] = t[j] PROVE i = j
    BY DEF IsInjective
  <2>1. p + i \in DOMAIN u /\ p + j \in DOMAIN u /\ u[p + i] = u[p + j]
    BY <1>0, <1>1, <1>2
  <2>2. p + i = p + j
    BY <1>3, <2>1 DEF IsInjective
  <2> QED
    BY <1>0, <1>2, <2>2
<1>4. ASSUME NEW x, \A n \in DOMAIN t : t[n] # x, \A n \in 1..p : u[n] # x, NEW n \in DOMAIN u
      PROVE  u[n] # x
  <2>1. CASE n <= p
    BY <1>0, <1>4, <2>1
  <2>2. CASE n > p
    <3>1. n - p \in DOMAIN t /\ t[n - p] = u[p + (n - p)] /\ p + (n - p) = n
      BY <1>0, <1>1, <1>2, <2>2
    <3> QED
      BY <1>4, <3>1
  <2> QED
    BY <1>0, <2>1, <2>2
<1> QED
  BY <1>1, <1>3, <1>4 DEF t

LEMMA ReadKeeps ==
    ASSUME IInv, NEW k \in Conversations, Read(k)
    PROVE  IInv'
<1> DEFINE X == Outgoing \cup Mails
           u == unread[k]
           rows == IF bound[k] = None THEN Len(u) ELSE bound[k]
           page == IF rows < PageSize THEN rows ELSE PageSize
           t == SubSeq(u, page + 1, Len(u))
<1>0. /\ UnreadType /\ SeenType /\ LettersType /\ OrdersInjective /\ ObservationsCurrent
  BY TypeParts DEF IInv, Observation
<1>1. /\ UNCHANGED <<contact, conv, dispatch, inbound, commands, faults>>
      /\ seen' = [x \in DOMAIN seen |->
                    IF \E n \in 1..page : u[n] = x THEN View(x) ELSE seen[x]]
      /\ unread' = [unread EXCEPT ![k] = t]
      /\ bound' = [bound EXCEPT ![k] = IF rows = page THEN None ELSE rows - page]
  BY DEF Read, Acknowledged
<1>2. /\ unread \in [Conversations -> Seq(X)] /\ u \in Seq(X) /\ Len(u) \in Nat
      /\ bound \in [Conversations -> Nat \cup {None}]
      /\ \A j \in Conversations : bound[j] # None => bound[j] \in Nat /\ bound[j] <= Len(unread[j])
  BY <1>0 DEF UnreadType
<1>3. rows \in Nat /\ rows <= Len(u)
  BY <1>2
<1>4. page \in Nat /\ page <= rows
  BY <1>3, ExternalAssumption
<1>5. page <= Len(u)
  BY <1>2, <1>3, <1>4
<1> HIDE DEF rows, page
<1>6. /\ t \in Seq(X) /\ Len(t) = Len(u) - page
      /\ IsInjective(u) => IsInjective(t)
      /\ \A x : (\A n \in DOMAIN t : t[n] # x) /\ (\A n \in 1..page : u[n] # x)
                => \A n \in DOMAIN u : u[n] # x
  BY <1>2, <1>4, <1>5, RestOf
<1> HIDE DEF t, X
<1>7. /\ unread'[k] = t /\ \A j \in Conversations : j # k => unread'[j] = unread[j]
      /\ bound'[k] = (IF rows = page THEN None ELSE rows - page)
      /\ \A j \in Conversations : j # k => bound'[j] = bound[j]
  BY <1>1, <1>2
<1>8. bound'[k] # None => bound'[k] \in Nat /\ bound'[k] <= Len(u) - page
  BY <1>2, <1>3, <1>4, <1>7
<1>9. UnreadType'
  <2>1. unread' \in [Conversations -> Seq(X)]
    BY <1>1, <1>2, <1>6
  <2>2. bound' \in [Conversations -> Nat \cup {None}]
    BY <1>1, <1>2, <1>7, <1>8
  <2>3. ASSUME NEW j \in Conversations, bound'[j] # None PROVE bound'[j] <= Len(unread'[j])
    <3>1. CASE j = k
      BY <1>6, <1>7, <1>8, <2>3, <3>1
    <3>2. CASE j # k
      BY <1>2, <1>7, <2>3, <3>2
    <3> QED
      BY <3>1, <3>2
  <2> QED
    BY <2>1, <2>2, <2>3 DEF UnreadType, X
<1>10. OrdersInjective'
  <2>1. \A j \in Conversations : IsInjective(unread'[j])
    BY <1>0, <1>6, <1>7 DEF OrdersInjective
  <2> QED
    BY <2>1 DEF OrdersInjective
<1>11. DOMAIN seen = X
  BY <1>0 DEF SeenType, X
<1>12. \A x \in X : View(x) \in (DeliveryState \cup {"Received"}) \X SUBSET Events
  <2>1. \A m \in Outgoing : delivery[Message(m)] \in DeliveryState /\ events[Message(m)] \in SUBSET Events
    BY <1>0, LettersAre DEF LettersType
  <2> QED
    BY <2>1 DEF View, X
<1>13. SeenType'
  <2>1. seen' \in [X -> {None} \cup (DeliveryState \cup {"Received"}) \X SUBSET Events]
    BY <1>0, <1>1, <1>11, <1>12 DEF SeenType, X
  <2> QED
    BY <2>1 DEF SeenType, X
<1>14. ObservationsCurrent'
  <2> SUFFICES ASSUME NEW x \in X,
                      x \in Mails => admitted'[x] # None,
                      x \in Outgoing => delivery'[Message(x)] # "None",
                      \A n \in DOMAIN unread'[ConversationOf(x)] : unread'[ConversationOf(x)][n] # x
               PROVE  seen'[x] = View(x)'
    BY DEF ObservationsCurrent, ConversationOf, X
  <2> DEFINE c == ConversationOf(x)
  <2>1. c \in Conversations
    BY Conversing DEF X
  <2>2. View(x)' = View(x)
    BY <1>1 DEF View, dispatch
  <2>3. CASE \E n \in 1..page : u[n] = x
    BY <1>1, <1>11, <2>2, <2>3
  <2>4. CASE \A n \in 1..page : u[n] # x
    <3>1. seen'[x] = seen[x]
      BY <1>1, <1>11, <2>4
    <3>2. \A n \in DOMAIN unread[c] : unread[c][n] # x
      <4> HIDE DEF c
      <4>1. CASE c = k
        <5>1. \A n \in DOMAIN t : t[n] # x
          BY <1>7, <4>1 DEF c
        <5> QED
          BY <1>6, <2>4, <4>1, <5>1
      <4>2. CASE c # k
        <5>1. unread'[c] = unread[c]
          BY <1>7, <2>1, <4>2
        <5> QED
          BY <5>1 DEF c
      <4> QED
        BY <4>1, <4>2
    <3>3. /\ x \in Mails => admitted[x] # None
          /\ x \in Outgoing => delivery[Message(x)] # "None"
      BY <1>1 DEF inbound, dispatch
    <3>4. seen[x] = View(x)
      BY <1>0, <3>2, <3>3 DEF ObservationsCurrent, X
    <3> QED
      BY <2>2, <3>1, <3>4
  <2> QED
    BY <2>3, <2>4
<1> QED
  BY <1>1, <1>9, <1>10, <1>13, <1>14, ClientStep

LEMMA RestartKeeps ==
    ASSUME IInv, NEW k \in Conversations, Restart(k)
    PROVE  IInv'
<1>0. /\ UnreadType /\ SeenType /\ OrdersInjective /\ ObservationsCurrent
  BY TypeParts DEF IInv, Observation
<1>1. /\ bound' = [bound EXCEPT ![k] = None]
      /\ UNCHANGED <<contact, conv, dispatch, inbound, unread, seen, commands, faults>>
  BY DEF Restart
<1>2. UnreadType'
  <2>1. bound' \in [Conversations -> Nat \cup {None}]
    BY <1>0, <1>1 DEF UnreadType
  <2>2. \A j \in Conversations : bound'[j] = None \/ bound'[j] = bound[j]
    BY <1>0, <1>1 DEF UnreadType
  <2> QED
    BY <1>0, <1>1, <2>1, <2>2 DEF UnreadType
<1>3. SeenType' /\ OrdersInjective'
  BY <1>0, <1>1, TypeFrame DEF OrdersInjective
<1>4. ObservationsCurrent'
  BY <1>0, <1>1 DEF ObservationsCurrent, View, inbound, dispatch
<1> QED
  BY <1>1, <1>2, <1>3, <1>4, ClientStep

-----------------------------------------------------------------------------
(***************************************************************************)
(* Every step, and what holds of every behaviour.                          *)
(***************************************************************************)

LEMMA NextKeeps == IInv /\ [Next]_vars => IInv'
<1> SUFFICES ASSUME IInv, [Next]_vars PROVE IInv'
  OBVIOUS
<1>1. CASE Decision
  <2>1. ASSUME NEW state \in RelationshipState \ {"Unknown"}, Decide(state) PROVE IInv'
    BY <2>1, DecideKeeps
  <2>2. CASE ScopeSender \/ Cover \/ Permit \/ RestrictAddress
    BY <2>2, ContactKeeps
  <2> QED
    BY <1>1, <2>1, <2>2 DEF Decision
<1>2. CASE Command
  <2>1. ASSUME NEW m \in Outgoing, Start(m) PROVE IInv'
    BY <2>1, StartKeeps
  <2>2. ASSUME NEW m \in Outgoing, NEW disclose \in BOOLEAN, Send(m, disclose) PROVE IInv'
    BY <2>2, SendKeeps
  <2>3. ASSUME NEW k \in Conversations, RejectInvitation(k) PROVE IInv'
    BY <2>3, RejectKeeps
  <2>4. ASSUME NEW k \in Conversations, WithdrawDisclosure(k) PROVE IInv'
    BY <2>4, WithdrawKeeps
  <2>5. ASSUME NEW k \in Conversations, GrantDisclosure(k) PROVE IInv'
    BY <2>5, GrantKeeps
  <2> QED
    BY <1>2, <2>1, <2>2, <2>3, <2>4, <2>5 DEF Command
<1>3. ASSUME NEW w \in Workers, Worker(w) PROVE IInv'
  <2>1. ASSUME NEW l \in Letters, Pick(w, l) PROVE IInv'
    BY <2>1, PickKeeps
  <2>2. ASSUME Begin(w) PROVE IInv'
    BY <2>2, BeginKeeps
  <2>3. ASSUME NotRendered(w) PROVE IInv'
    BY <2>3, NotRenderedKeeps
  <2>4. ASSUME Finish(w) PROVE IInv'
    BY <2>4, FinishKeeps
  <2>5. ASSUME NEW taken \in BOOLEAN, Submit(w, taken, TRUE) \/ Submit(w, taken, FALSE) PROVE IInv'
    BY <2>5, SubmitKeeps
  <2>6. ASSUME Crash(w) PROVE IInv'
    BY <2>6, CrashKeeps
  <2> QED
    BY <1>3, <2>1, <2>2, <2>3, <2>4, <2>5, <2>6 DEF Worker, Work
<1>4. CASE Report
  BY <1>4, FeedbackKeeps DEF Report
<1>5. ASSUME NEW s \in Sessions, Receiver(s) PROVE IInv'
  <2>1. ASSUME NEW i \in Mails, Prepare(s, i) PROVE IInv'
    BY <2>1, PrepareKeeps
  <2>2. ASSUME CommitPrompt(s) PROVE IInv'
    BY <2>2, CommitPromptKeeps
  <2>3. ASSUME CommitAdmit(s) PROVE IInv'
    BY <2>3, CommitAdmitKeeps
  <2>4. ASSUME Abandon(s) PROVE IInv'
    BY <2>4, AbandonKeeps
  <2> QED
    BY <1>5, <2>1, <2>2, <2>3, <2>4 DEF Receiver
<1>6. CASE NextDay
  BY <1>6, NextDayKeeps
<1>7. CASE Client
  <2>1. ASSUME NEW k \in Conversations, Read(k) PROVE IInv'
    BY <2>1, ReadKeeps
  <2>2. ASSUME NEW k \in Conversations, Restart(k) PROVE IInv'
    BY <2>2, RestartKeeps
  <2> QED
    BY <1>7, <2>1, <2>2 DEF Client
<1>8. CASE UNCHANGED vars
  <2>1. UNCHANGED <<contact, conv, dispatch, inbound, observation, seen, commands, faults>>
    BY <1>8 DEF vars
  <2>2. /\ ContactType' /\ ConvType' /\ LettersType' /\ HandsType' /\ SessionsType' /\ MailsType'
        /\ UnreadType' /\ SeenType' /\ CountsType'
    BY <2>1, TypeParts, TypeFrame DEF IInv, dispatch, inbound
  <2>3. TypeOK'
    BY <2>2, TypePartsNext
  <2>4. Dispatch' /\ Admission' /\ Observation'
    BY <2>1, DispatchFrame, AdmissionFrame, ObservationFrame
       DEF IInv, contact, dispatch, inbound, observation
  <2> QED
    BY <2>3, <2>4 DEF IInv
<1> QED
  BY <1>1, <1>2, <1>3, <1>4, <1>5, <1>6, <1>7, <1>8 DEF Next

\* Through every command, decision, pass of a worker, report and session, the
\* records stay what the transactions of external.rs and notices.rs write, and
\* the inductive invariant the results below rest on holds.
THEOREM ConversationRecords == Spec => []IInv
<1>1. Init => IInv
  BY InitKeeps
<1>2. IInv /\ [Next]_vars => IInv'
  BY NextKeeps
<1> QED
  BY <1>1, <1>2, PTL DEF Spec

\* A letter is handed to its carrier at most once, however begin_dispatch,
\* finish_dispatch and provider_feedback of any number of workers, crashes and
\* lost answers interleave; what is recorded agrees with what the carrier has;
\* and a letter that waited when its disclosure was withdrawn is never handed
\* over.
THEOREM HandedOverOnce == Spec => []HandoffsMatchCarrier
<1>1. IInv => HandoffsMatchCarrier
  <2> SUFFICES ASSUME IInv PROVE HandoffsMatchCarrier
    OBVIOUS
  <2>1. TypeOK
    BY DEF IInv
  <2>2. \A l \in Letters :
           /\ carrier[l].times <= 1
           /\ delivery[l] \in {"None", "Waiting", "Cancelled"} => carrier[l].times = 0
           /\ delivery[l] = "Accepted" => carrier[l].taken
           /\ delivery[l] = "Failed" => ~carrier[l].taken
    BY DEF IInv, Dispatch, LetterFits
  <2>3. ASSUME NEW l \in withdrawn PROVE carrier[l].times = 0
    <3>1. l \in Letters /\ delivery[l] = "Cancelled"
      BY <2>1, TypeParts DEF IInv, Dispatch, WithdrawnStays, LettersType
    <3> QED
      BY <2>2, <3>1
  <2> QED
    BY <2>1, <2>2, <2>3 DEF HandoffsMatchCarrier
<1> QED
  BY <1>1, ConversationRecords, PTL

\* A mail is admitted or answered with a prompt and never both, in however
\* many SMTP sessions it is prepared and committed; a lane's allowance counts
\* exactly the mails it admitted, whenever lanes are granted again; and no reply
\* comes in under an invitation the member has decided about since.
THEOREM MailsAdmittedOnce == Spec => []RepliesAdmittedOnce
<1>1. IInv => RepliesAdmittedOnce
  <2> SUFFICES ASSUME IInv PROVE RepliesAdmittedOnce
    OBVIOUS
  <2>1. \A i \in prompted : admitted[i] = None
    BY DEF IInv, Admission, PromptsPlaced
  <2>2. lane # None =>
          lane.left = Limit - Cardinality({i \in Mails : admitted[i] # None /\ admitted[i].lane = lane.id})
    BY DEF IInv, Admission, LanesCounted, OnLane
  <2>3. \A i \in Mails : admitted[i] # None /\ admitted[i].on = "Pending" => ~admitted[i].decided
    BY DEF IInv, Admission, Invited
  <2> QED
    BY <2>1, <2>2, <2>3 DEF RepliesAdmittedOnce
<1> QED
  BY <1>1, ConversationRecords, PTL

\* The pages of fetch_external skip no change: wherever messages move behind a
\* bound while it is read, and however often the client begins again, its copy
\* of a message that is not unread is what the message is.
THEOREM ClientMissesNothing == Spec => []ObservationsCurrent
<1>1. IInv => ObservationsCurrent
  BY DEF IInv, Observation
<1> QED
  BY <1>1, ConversationRecords, PTL

=============================================================================
