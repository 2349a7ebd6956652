-------------------------- MODULE Settlement_proofs --------------------------
(***************************************************************************)
(* The properties of Settlement, for any number of members, aliases,       *)
(* requests and quotes, any policy and any prices.                         *)
(*                                                                         *)
(* The proof follows the actions' common shape: a transition ends a set of *)
(* requests (Ends), and the endings it asks for are legal (LegalEnding).   *)
(* What such a transition keeps is proved once; each action is then shown  *)
(* to be of that shape.                                                    *)
(***************************************************************************)
EXTENDS Settlement, TLAPS

USE ContractAssumption

\* The policy's durations, and what the two directions have to do with each
\* other.
LEMMA Durations ==
    /\ QuoteLifetime \in Nat /\ SubmissionWindow \in Nat
    /\ ExpiryCooldown \in Nat /\ RejectionCooldown \in Nat
    /\ DecisionWindow \in Nat /\ DecisionWindow > 0
    /\ NoRequest \notin Requests
BY PolicyAssumption, RelationshipAssumption

LEMMA Directions ==
    ASSUME NEW x \in Relationships
    PROVE  /\ HistoryOf[x] \in Histories
           /\ NoOpposite \notin Relationships
           /\ Opposite[x] # NoOpposite =>
                 /\ Opposite[x] \in Relationships
                 /\ Opposite[Opposite[x]] = x
                 /\ HistoryOf[Opposite[x]] # HistoryOf[x]
BY RelationshipAssumption

-----------------------------------------------------------------------------

\* Every request that exists was created on an issued quote of its direction.
RequestsPlaced ==
    /\ \A q \in used : quotes[q] # NoTerms
    /\ \A r \in Requests : req[r].lifecycle # "None" =>
          /\ req[r].relationship \in Relationships
          /\ req[r].quote \in used
          /\ quotes[req[r].quote].relationship = req[r].relationship

\* A request that was never created has no money.
MoneyPlaced ==
    \A r \in Requests :
        /\ fin[r] \in Financials
        /\ req[r].lifecycle = "None" => fin[r] = NewFinancials

\* Terms that carry the present version of their history describe it.
TermsFollowHistory ==
    \A q \in QuoteIds : quotes[q] # NoTerms =>
        LET t == quotes[q]
            H == hist[HistoryOf[t.relationship]]
        IN  /\ t.histVersion <= H.version
            /\ t.histVersion = H.version => t.level = H.level /\ t.eligibility = H.earliest

\* A history's earliest time covers every wait its submissions imposed.
WaitsRecorded ==
    \A r \in Requests : Submitted(r) =>
        LET H == hist[HistoryOfRequest(r)]
        IN  /\ req[r].at <= now
            /\ req[r].at + quotes[req[r].quote].backoff <= H.earliest
            /\ req[r].lifecycle # "Awaiting" => req[r].decided <= now
            /\ req[r].lifecycle = "Rejected" => req[r].decided + RejectionCooldown <= H.earliest
            /\ req[r].lifecycle = "Expired" => req[r].deadline + ExpiryCooldown <= H.earliest

\* The inductive invariant, by what its parts are about.
Agreement == LifecycleMatchesSettlement /\ TaskMatchesLifecycle /\ OutcomeMatchesWindow
Pace == TermsFollowHistory /\ WaitsRecorded /\ EscalationKept
IInv ==
    /\ TypeOK /\ RequestsPlaced /\ MoneyPlaced
    /\ OneRequestAtATime /\ Agreement /\ Pace /\ ReplyLaneStillOffered

-----------------------------------------------------------------------------
(***************************************************************************)
(* What ending requests does to the requests and their histories.          *)
(***************************************************************************)

\* The endings a transition may ask for: of active requests, at most one in a
\* history, a preparation is cancelled and nothing else is, a rejection is in
\* time and an expiry is not.
LegalEnding(ending) ==
    /\ DOMAIN ending \subseteq Requests
    /\ \A r \in DOMAIN ending :
          /\ Active(r)
          /\ ending[r] \in RequestSettlement
          /\ ending[r] = "Cancelled" <=> req[r].lifecycle = "Preparing"
          /\ ending[r] = "Rejected" => now <= req[r].deadline
          /\ ending[r] = "Expired" => now > req[r].deadline
    /\ \A r, s \in DOMAIN ending : HistoryOfRequest(r) = HistoryOfRequest(s) => r = s

\* The fields of a request's record.
LEMMA RequestFields ==
    ASSUME TypeOK, NEW r \in Requests
    PROVE  /\ req[r] \in RelationshipRequest
           /\ req[r].relationship \in Relationships \cup {NoOpposite}
           /\ req[r].quote \in QuoteIds \cup {NoRequest}
           /\ req[r].lifecycle \in RequestLifecycle
           /\ req[r].deadline \in Nat /\ req[r].at \in Nat /\ req[r].decided \in Nat
           /\ req[r].offer \in Nat /\ req[r].version \in Nat
BY DEF TypeOK, RelationshipRequest

\* The fields of a history's record.
LEMMA HistoryFields ==
    ASSUME TypeOK, NEW h \in Histories
    PROVE  /\ hist[h] \in RequestHistory
           /\ hist[h].level \in Nat /\ hist[h].earliest \in Nat /\ hist[h].version \in Nat
           /\ hist[h].pending \in Requests \cup {NoRequest}
BY DEF TypeOK, RequestHistory

\* A request that ended: its outcome, the time and a new version; the rest stays.
LEMMA ClosedFields ==
    ASSUME TypeOK, NEW r \in Requests, NEW outcome \in RequestSettlement
    PROVE  LET n == Closed(r, outcome)
           IN  /\ n \in RelationshipRequest
               /\ n.lifecycle = outcome /\ n.decided = now /\ n.version = req[r].version + 1
               /\ n.relationship = req[r].relationship /\ n.quote = req[r].quote
               /\ n.deadline = req[r].deadline /\ n.at = req[r].at /\ n.offer = req[r].offer
<1> DEFINE a == [req[r] EXCEPT !.lifecycle = outcome]
           b == [a EXCEPT !.version = req[r].version + 1]
           c == [b EXCEPT !.decided = now]
<1>1. req[r] \in RelationshipRequest /\ req[r].version \in Nat /\ now \in Nat
  BY RequestFields DEF TypeOK
<1>2. outcome \in RequestLifecycle
  BY DEF RequestLifecycle, RequestSettlement
<1>3. a \in RelationshipRequest
  BY <1>1, <1>2 DEF RelationshipRequest
<1>4. Closed(r, outcome) = c
  BY <1>1 DEF Closed, RelationshipRequest
<1>5. /\ c.lifecycle = outcome /\ c.decided = now /\ c.version = req[r].version + 1
      /\ c.relationship = req[r].relationship /\ c.quote = req[r].quote
      /\ c.deadline = req[r].deadline /\ c.at = req[r].at /\ c.offer = req[r].offer
  BY <1>1 DEF RelationshipRequest
<1> HIDE DEF a
<1>6. b \in RelationshipRequest
  BY <1>1, <1>3 DEF RelationshipRequest
<1> HIDE DEF b
<1>7. c \in RelationshipRequest
  BY <1>1, <1>6 DEF RelationshipRequest
<1> QED
  BY <1>4, <1>5, <1>7

\* The requests after a set of them ended.
LEMMA CloseRequestsFields ==
    ASSUME TypeOK, NEW ending, LegalEnding(ending), NEW r \in Requests
    PROVE  LET n == CloseRequests(ending)[r]
           IN  /\ n \in RelationshipRequest
               /\ n.relationship = req[r].relationship /\ n.quote = req[r].quote
               /\ n.deadline = req[r].deadline /\ n.at = req[r].at /\ n.offer = req[r].offer
               /\ r \notin DOMAIN ending => n = req[r]
               /\ r \in DOMAIN ending => /\ n.lifecycle = ending[r] /\ n.decided = now
                                         /\ n.version = req[r].version + 1
<1>1. CASE r \in DOMAIN ending
  <2>1. CloseRequests(ending)[r] = Closed(r, ending[r])
    BY <1>1 DEF CloseRequests
  <2>2. ending[r] \in RequestSettlement
    BY <1>1 DEF LegalEnding
  <2> QED
    BY <1>1, <2>1, <2>2, ClosedFields
<1>2. CASE r \notin DOMAIN ending
  <2>1. CloseRequests(ending)[r] = req[r]
    BY <1>2 DEF CloseRequests
  <2> QED
    BY <1>2, <2>1, RequestFields
<1> QED
  BY <1>1, <1>2

\* RequestHistory::extend_cooldown.
LEMMA ExtendedFields ==
    ASSUME NEW H \in RequestHistory, NEW from \in Nat, NEW duration \in Nat
    PROVE  LET n == ExtendCooldown(H, from, duration)
           IN  /\ n \in RequestHistory
               /\ n.level = H.level /\ n.pending = H.pending
               /\ n.version = H.version + 1 /\ n.version > H.version
               /\ n.earliest >= H.earliest /\ n.earliest >= from + duration
<1> DEFINE m == MaxOf(H.earliest, from + duration)
           a == [H EXCEPT !.earliest = m]
           b == [a EXCEPT !.version = H.version + 1]
<1>1. H.earliest \in Nat /\ H.version \in Nat
  BY DEF RequestHistory
<1>2. m \in Nat /\ m >= H.earliest /\ m >= from + duration
  BY <1>1 DEF MaxOf
<1>3. ExtendCooldown(H, from, duration) = b
  BY DEF ExtendCooldown, RequestHistory
<1> HIDE DEF m
<1>4. a \in RequestHistory
  BY <1>2 DEF RequestHistory
<1>5. /\ b.earliest = m /\ b.level = H.level
      /\ b.pending = H.pending /\ b.version = H.version + 1
  BY DEF RequestHistory
<1> HIDE DEF a
<1>6. b \in RequestHistory
  BY <1>1, <1>4 DEF RequestHistory
<1> HIDE DEF b
<1> QED
  BY <1>1, <1>2, <1>3, <1>5, <1>6

\* An outcome only lengthens a history's wait, and says so by its version.
LEMMA HistoryClosedFields ==
    ASSUME TypeOK, NEW r \in Requests, NEW H \in RequestHistory, NEW outcome \in RequestSettlement
    PROVE  LET n == HistoryClosed(H, r, outcome)
           IN  /\ n \in RequestHistory
               /\ n.level = H.level
               /\ n.earliest >= H.earliest
               /\ n.version >= H.version
               /\ n.version = H.version => n.earliest = H.earliest
               /\ n.pending = IF outcome = "Cancelled" /\ H.pending = r
                              THEN NoRequest ELSE H.pending
               /\ outcome = "Rejected" => n.earliest >= now + RejectionCooldown
               /\ outcome = "Expired" => n.earliest >= req[r].deadline + ExpiryCooldown
<1>1. /\ H.level \in Nat /\ H.earliest \in Nat /\ H.version \in Nat
      /\ H.pending \in Requests \cup {NoRequest}
      /\ now \in Nat /\ req[r].deadline \in Nat
      /\ RejectionCooldown \in Nat /\ ExpiryCooldown \in Nat
  BY RequestFields, Durations DEF TypeOK, RequestHistory
<1>3. CASE outcome = "Rejected"
  <2>1. HistoryClosed(H, r, outcome) = ExtendCooldown(H, now, RejectionCooldown)
    BY <1>3 DEF HistoryClosed
  <2>2. LET n == ExtendCooldown(H, now, RejectionCooldown)
        IN  /\ n \in RequestHistory
            /\ n.level = H.level /\ n.pending = H.pending
            /\ n.version = H.version + 1 /\ n.version > H.version
            /\ n.earliest >= H.earliest /\ n.earliest >= now + RejectionCooldown
    BY <1>1, ExtendedFields
  <2>3. outcome # "Cancelled" /\ outcome # "Expired"
    BY <1>3
  <2> QED
    BY <1>1, <2>1, <2>2, <2>3
<1>4. CASE outcome = "Expired"
  <2>1. HistoryClosed(H, r, outcome) = ExtendCooldown(H, req[r].deadline, ExpiryCooldown)
    BY <1>4 DEF HistoryClosed
  <2>2. LET n == ExtendCooldown(H, req[r].deadline, ExpiryCooldown)
        IN  /\ n \in RequestHistory
            /\ n.level = H.level /\ n.pending = H.pending
            /\ n.version = H.version + 1 /\ n.version > H.version
            /\ n.earliest >= H.earliest /\ n.earliest >= req[r].deadline + ExpiryCooldown
    BY <1>1, ExtendedFields
  <2>3. outcome # "Cancelled" /\ outcome # "Rejected"
    BY <1>4
  <2> QED
    BY <1>1, <2>1, <2>2, <2>3
<1>5. CASE outcome = "Cancelled"
  <2>1. HistoryClosed(H, r, outcome) =
            IF H.pending = r THEN [H EXCEPT !.pending = NoRequest] ELSE H
    BY <1>5 DEF HistoryClosed
  <2> QED
    BY <1>1, <1>5, <2>1 DEF RequestHistory
<1>6. CASE outcome = "Accepted"
  BY <1>1, <1>6 DEF HistoryClosed
<1> QED
  BY <1>3, <1>4, <1>5, <1>6 DEF RequestSettlement

\* Which outcome a history sees: that of its own request, which is unique.
LEMMA CloseHistoriesCases ==
    ASSUME NEW ending, LegalEnding(ending), NEW h \in Histories
    PROVE  /\ \A r \in DOMAIN ending : HistoryOfRequest(r) = h =>
                 CloseHistories(ending)[h] = HistoryClosed(hist[h], r, ending[r])
           /\ (\A r \in DOMAIN ending : HistoryOfRequest(r) # h) =>
                 CloseHistories(ending)[h] = hist[h]
<1>1. ASSUME NEW r \in DOMAIN ending, HistoryOfRequest(r) = h
      PROVE  CloseHistories(ending)[h] = HistoryClosed(hist[h], r, ending[r])
  <2>1. (CHOOSE o \in DOMAIN ending : HistoryOfRequest(o) = h) = r
    BY <1>1 DEF LegalEnding
  <2> QED
    BY <1>1, <2>1 DEF CloseHistories
<1>2. (\A r \in DOMAIN ending : HistoryOfRequest(r) # h) => CloseHistories(ending)[h] = hist[h]
  BY DEF CloseHistories
<1> QED
  BY <1>1, <1>2

\* The histories after a set of requests ended.
LEMMA CloseHistoriesFields ==
    ASSUME TypeOK, ReservationMatchesPreparation,
           NEW ending, LegalEnding(ending), NEW h \in Histories
    PROVE  LET n == CloseHistories(ending)[h]
           IN  /\ n \in RequestHistory
               /\ n.level = hist[h].level
               /\ n.earliest >= hist[h].earliest
               /\ n.version >= hist[h].version
               /\ n.version = hist[h].version => n.earliest = hist[h].earliest
               /\ n.pending = IF hist[h].pending \in DOMAIN ending
                              THEN NoRequest ELSE hist[h].pending
               /\ \A r \in DOMAIN ending : HistoryOfRequest(r) = h =>
                     /\ ending[r] = "Rejected" => n.earliest >= now + RejectionCooldown
                     /\ ending[r] = "Expired" => n.earliest >= req[r].deadline + ExpiryCooldown
<1> DEFINE n == CloseHistories(ending)[h]
<1>1. /\ hist[h] \in RequestHistory
      /\ hist[h].level \in Nat /\ hist[h].earliest \in Nat /\ hist[h].version \in Nat
  BY HistoryFields
<1>2. ASSUME NEW p \in DOMAIN ending, hist[h].pending = p
      PROVE  HistoryOfRequest(p) = h /\ ending[p] = "Cancelled"
  BY <1>2, Durations DEF ReservationMatchesPreparation, LegalEnding
<1>3. CASE \E r \in DOMAIN ending : HistoryOfRequest(r) = h
  <2>1. PICK r \in DOMAIN ending : HistoryOfRequest(r) = h
    BY <1>3
  <2>2. n = HistoryClosed(hist[h], r, ending[r])
    BY <2>1, CloseHistoriesCases
  <2>3. r \in Requests /\ ending[r] \in RequestSettlement
    BY DEF LegalEnding
  <2>4. \A s \in DOMAIN ending : HistoryOfRequest(s) = h => s = r
    BY <2>1 DEF LegalEnding
  <2>5. hist[h].pending \in DOMAIN ending <=> ending[r] = "Cancelled" /\ hist[h].pending = r
    BY <1>2, <2>4
  <2> HIDE DEF n
  <2>6. /\ n \in RequestHistory
        /\ n.level = hist[h].level
        /\ n.earliest >= hist[h].earliest
        /\ n.version >= hist[h].version
        /\ n.version = hist[h].version => n.earliest = hist[h].earliest
        /\ n.pending = IF ending[r] = "Cancelled" /\ hist[h].pending = r
                       THEN NoRequest ELSE hist[h].pending
        /\ ending[r] = "Rejected" => n.earliest >= now + RejectionCooldown
        /\ ending[r] = "Expired" => n.earliest >= req[r].deadline + ExpiryCooldown
    BY <1>1, <2>2, <2>3, HistoryClosedFields
  <2>7. n.pending = IF hist[h].pending \in DOMAIN ending THEN NoRequest ELSE hist[h].pending
    BY <2>5, <2>6
  <2>8. \A s \in DOMAIN ending : HistoryOfRequest(s) = h =>
           /\ ending[s] = "Rejected" => n.earliest >= now + RejectionCooldown
           /\ ending[s] = "Expired" => n.earliest >= req[s].deadline + ExpiryCooldown
    BY <2>4, <2>6
  <2> QED
    BY <2>6, <2>7, <2>8 DEF n
<1>4. CASE \A r \in DOMAIN ending : HistoryOfRequest(r) # h
  <2>1. n = hist[h]
    BY <1>4, CloseHistoriesCases
  <2>2. hist[h].pending \notin DOMAIN ending
    BY <1>2, <1>4
  <2> QED
    BY <1>1, <1>4, <2>1, <2>2
<1> QED
  BY <1>3, <1>4

-----------------------------------------------------------------------------
(***************************************************************************)
(* What a transition that ends requests keeps.                             *)
(***************************************************************************)

\* A transition that ends requests, whatever it does to the relationships and
\* to the money.
Ends(ending) ==
    /\ LegalEnding(ending)
    /\ req' = CloseRequests(ending)
    /\ task' = CloseTasks(ending)
    /\ hist' = CloseHistories(ending)
    /\ UNCHANGED <<now, quotes, used>>

\* The requests after it.
LEMMA EndsRequests ==
    ASSUME TypeOK, NEW ending, Ends(ending)
    PROVE  /\ req' \in [Requests -> RelationshipRequest]
           /\ \A r \in Requests :
                /\ req'[r].relationship = req[r].relationship /\ req'[r].quote = req[r].quote
                /\ req'[r].deadline = req[r].deadline /\ req'[r].at = req[r].at
                /\ req'[r].offer = req[r].offer
                /\ r \notin DOMAIN ending => req'[r] = req[r]
                /\ r \in DOMAIN ending =>
                      /\ req[r].lifecycle \in {"Preparing", "Awaiting"}
                      /\ req'[r].lifecycle \in RequestSettlement
                      /\ req'[r].lifecycle = ending[r]
                      /\ req'[r].decided = now
                      /\ req'[r].version = req[r].version + 1
                      /\ ending[r] = "Cancelled" <=> req[r].lifecycle = "Preparing"
                      /\ ending[r] = "Rejected" => now <= req[r].deadline
                      /\ ending[r] = "Expired" => now > req[r].deadline
<1>1. req' = CloseRequests(ending) /\ LegalEnding(ending)
  BY DEF Ends
<1>2. \A r \in Requests :
        LET n == CloseRequests(ending)[r]
        IN  /\ n \in RelationshipRequest
            /\ n.relationship = req[r].relationship /\ n.quote = req[r].quote
            /\ n.deadline = req[r].deadline /\ n.at = req[r].at /\ n.offer = req[r].offer
            /\ r \notin DOMAIN ending => n = req[r]
            /\ r \in DOMAIN ending => /\ n.lifecycle = ending[r] /\ n.decided = now
                                      /\ n.version = req[r].version + 1
  BY <1>1, CloseRequestsFields
<1>3. req' \in [Requests -> RelationshipRequest]
  <2>1. \A r \in Requests : req'[r] \in RelationshipRequest
    BY <1>1, <1>2
  <2>2. req' = [r \in Requests |-> req'[r]]
    BY <1>1 DEF CloseRequests
  <2> QED
    BY <2>1, <2>2
<1>4. \A r \in DOMAIN ending :
        /\ req[r].lifecycle \in {"Preparing", "Awaiting"}
        /\ ending[r] \in RequestSettlement
        /\ ending[r] = "Cancelled" <=> req[r].lifecycle = "Preparing"
        /\ ending[r] = "Rejected" => now <= req[r].deadline
        /\ ending[r] = "Expired" => now > req[r].deadline
  BY <1>1 DEF LegalEnding, Active
<1> QED
  BY <1>1, <1>2, <1>3, <1>4

\* The histories after it.
LEMMA EndsHistories ==
    ASSUME TypeOK, ReservationMatchesPreparation, NEW ending, Ends(ending)
    PROVE  /\ hist' \in [Histories -> RequestHistory]
           /\ \A h \in Histories :
                /\ hist'[h].level = hist[h].level
                /\ hist'[h].earliest >= hist[h].earliest
                /\ hist'[h].version >= hist[h].version
                /\ hist'[h].version = hist[h].version => hist'[h].earliest = hist[h].earliest
                /\ hist'[h].pending = IF hist[h].pending \in DOMAIN ending
                                      THEN NoRequest ELSE hist[h].pending
                /\ \A r \in DOMAIN ending : HistoryOfRequest(r) = h =>
                     /\ ending[r] = "Rejected" => hist'[h].earliest >= now + RejectionCooldown
                     /\ ending[r] = "Expired" =>
                           hist'[h].earliest >= req[r].deadline + ExpiryCooldown
<1>1. hist' = CloseHistories(ending) /\ LegalEnding(ending)
  BY DEF Ends
<1>2. \A h \in Histories : hist'[h] \in RequestHistory
  BY <1>1, CloseHistoriesFields
<1>3. hist' = [h \in Histories |-> hist'[h]]
  BY <1>1 DEF CloseHistories
<1>4. hist' \in [Histories -> RequestHistory]
  BY <1>2, <1>3
<1> QED
  BY <1>1, <1>4, CloseHistoriesFields

\* What ends was created; the reservation of a history ends with its
\* preparation.
LEMMA EndsReservations ==
    ASSUME TypeOK, RequestsPlaced, ReservationMatchesPreparation, NEW ending, Ends(ending)
    PROVE  RequestsPlaced' /\ ReservationMatchesPreparation'
<1>1. /\ UNCHANGED <<quotes, used>>
      /\ \A r \in Requests : req'[r].lifecycle # "None" => req[r].lifecycle # "None"
      /\ \A r \in Requests : req'[r].relationship = req[r].relationship
                             /\ req'[r].quote = req[r].quote
  BY EndsRequests DEF Ends
<1>2. RequestsPlaced'
  BY <1>1 DEF RequestsPlaced
<1>3. \A r \in Requests : req'[r].lifecycle = "Preparing" <=>
                            req[r].lifecycle = "Preparing" /\ r \notin DOMAIN ending
  BY EndsRequests DEF RequestSettlement
<1>4. \A r \in Requests : req[r].lifecycle = "Preparing" =>
         HistoryOfRequest(r) \in Histories
  BY Directions DEF RequestsPlaced, HistoryOfRequest
<1>5. \A h \in Histories : hist'[h].pending = IF hist[h].pending \in DOMAIN ending
                                             THEN NoRequest ELSE hist[h].pending
  BY EndsHistories
<1>6. \A h \in Histories : hist[h].pending \in Requests \cup {NoRequest}
  BY HistoryFields
<1>8. ASSUME NEW h \in Histories, hist'[h].pending # NoRequest
      PROVE  /\ req'[hist'[h].pending].lifecycle = "Preparing"
             /\ HistoryOf[req'[hist'[h].pending].relationship] = h
  <2> DEFINE p == hist[h].pending
  <2>1. p \in Requests /\ p \notin DOMAIN ending /\ hist'[h].pending = p
    BY <1>5, <1>6, <1>8
  <2>2. req[p].lifecycle = "Preparing" /\ HistoryOf[req[p].relationship] = h
    BY <2>1, Durations DEF ReservationMatchesPreparation, HistoryOfRequest
  <2> QED
    BY <1>1, <1>3, <2>1, <2>2
<1>9. ASSUME NEW r \in Requests, req'[r].lifecycle = "Preparing"
      PROVE  hist'[HistoryOf[req'[r].relationship]].pending = r
  BY <1>1, <1>3, <1>4, <1>5, <1>9 DEF ReservationMatchesPreparation, HistoryOfRequest
<1>10. ReservationMatchesPreparation'
  BY <1>8, <1>9 DEF ReservationMatchesPreparation, HistoryOfRequest
<1> QED
  BY <1>2, <1>10

\* The active requests of a direction after it; nothing new can be decided.
LEMMA EndsActive ==
    ASSUME TypeOK, NEW ending, Ends(ending)
    PROVE  /\ \A x : ActiveIn(x)' = ActiveIn(x) \ DOMAIN ending
           /\ NoCrossedRequests => NoCrossedRequests'
<1>1. \A x : ActiveIn(x)' = ActiveIn(x) \ DOMAIN ending
  BY EndsRequests DEF ActiveIn, Active, RequestSettlement
<1>2. \A r \in Requests : AwaitsDecision(r)' => AwaitsDecision(r)
  BY EndsRequests DEF AwaitsDecision, Ends, RequestSettlement
<1>3. ASSUME NoCrossedRequests, NEW r \in Requests, NEW s \in Requests,
             AwaitsDecision(r)', s \in ActiveIn(Opposite[req[r].relationship])'
      PROVE  req'[s].lifecycle = "Awaiting" /\ now' > req'[s].deadline
  <2>1. req'[r].relationship = req[r].relationship
    BY EndsRequests
  <2>2. s \in ActiveIn(Opposite[req[r].relationship]) /\ s \notin DOMAIN ending
    BY <1>3, <2>1, EndsRequests DEF ActiveIn, Active, RequestSettlement
  <2>3. req[s].lifecycle = "Awaiting" /\ now > req[s].deadline
    BY <1>2, <1>3, <2>2 DEF NoCrossedRequests
  <2> QED
    BY <2>2, <2>3, EndsRequests DEF Ends
<1>4. NoCrossedRequests => NoCrossedRequests'
  BY <1>3 DEF NoCrossedRequests
<1> QED
  BY <1>1, <1>4

\* The task of a request ends with it, and its outcome is on time.
LEMMA EndsAgreement ==
    ASSUME TypeOK, TaskMatchesLifecycle, OutcomeMatchesWindow, NEW ending, Ends(ending)
    PROVE  TaskMatchesLifecycle' /\ OutcomeMatchesWindow' /\ task' \in [Requests -> ScheduleTask]
<1>1. \A r \in Requests : task'[r] = IF r \in DOMAIN ending THEN NoTask ELSE task[r]
  BY DEF Ends, CloseTasks
<1>2. TaskMatchesLifecycle'
  BY <1>1, EndsRequests DEF TaskMatchesLifecycle, RequestSettlement
<1>3. OutcomeMatchesWindow'
  BY EndsRequests DEF OutcomeMatchesWindow
<1>4. NoTask \in ScheduleTask
  BY DEF NoTask, ScheduleTask
<1>5. task' \in [Requests -> ScheduleTask]
  BY <1>4 DEF TypeOK, Ends, CloseTasks
<1> QED
  BY <1>2, <1>3, <1>5

\* The terms issued for a request, as the pace is computed from them.
LEMMA TermsFields ==
    ASSUME TypeOK, RequestsPlaced, NEW r \in Requests, req[r].lifecycle # "None"
    PROVE  /\ req[r].relationship \in Relationships
           /\ HistoryOfRequest(r) \in Histories
           /\ req[r].quote \in used /\ req[r].quote \in QuoteIds
           /\ quotes[req[r].quote] # NoTerms
           /\ quotes[req[r].quote] \in RequestTerms
           /\ quotes[req[r].quote].relationship = req[r].relationship
           /\ quotes[req[r].quote].level \in Nat /\ quotes[req[r].quote].backoff \in Nat
           /\ quotes[req[r].quote].histVersion \in Nat
           /\ quotes[req[r].quote].eligibility \in Nat
<1>1. req[r].relationship \in Relationships /\ req[r].quote \in used
      /\ quotes[req[r].quote] # NoTerms
      /\ quotes[req[r].quote].relationship = req[r].relationship
  BY DEF RequestsPlaced
<1>2. HistoryOfRequest(r) \in Histories
  BY <1>1, Directions DEF HistoryOfRequest
<1>3. req[r].quote \in QuoteIds /\ quotes[req[r].quote] \in RequestTerms
  BY <1>1 DEF TypeOK
<1> QED
  BY <1>1, <1>2, <1>3 DEF RequestTerms

\* An ending never shortens a wait and never counts a submission.
LEMMA EndsWaits ==
    ASSUME TypeOK, RequestsPlaced, ReservationMatchesPreparation, WaitsRecorded,
           NEW ending, Ends(ending)
    PROVE  WaitsRecorded'
<1> SUFFICES ASSUME NEW r \in Requests, Submitted(r)'
             PROVE  LET H == hist'[HistoryOf[req'[r].relationship]]
                    IN  /\ req'[r].at <= now
                        /\ req'[r].at + quotes[req'[r].quote].backoff <= H.earliest
                        /\ req'[r].lifecycle # "Awaiting" => req'[r].decided <= now
                        /\ req'[r].lifecycle = "Rejected" =>
                              req'[r].decided + RejectionCooldown <= H.earliest
                        /\ req'[r].lifecycle = "Expired" =>
                              req'[r].deadline + ExpiryCooldown <= H.earliest
  BY DEF WaitsRecorded, Ends, HistoryOfRequest
<1> DEFINE h == HistoryOf[req[r].relationship]
<1>1. /\ req'[r].relationship = req[r].relationship /\ req'[r].quote = req[r].quote
      /\ req'[r].deadline = req[r].deadline /\ req'[r].at = req[r].at
      /\ r \notin DOMAIN ending => req'[r] = req[r]
      /\ r \in DOMAIN ending => /\ req'[r].lifecycle = ending[r]
                                /\ req'[r].decided = now
                                /\ req[r].lifecycle = "Preparing" => ending[r] = "Cancelled"
                                /\ req[r].lifecycle \in {"Preparing", "Awaiting"}
  BY EndsRequests
<1>2. Submitted(r)
  BY <1>1 DEF Submitted
<1>3. /\ h \in Histories /\ quotes[req[r].quote].backoff \in Nat /\ now \in Nat
      /\ req[r].at \in Nat /\ req[r].deadline \in Nat /\ req[r].decided \in Nat
  BY <1>2, TermsFields, RequestFields DEF Submitted, HistoryOfRequest, TypeOK
<1>4. /\ req[r].at <= now
      /\ req[r].at + quotes[req[r].quote].backoff <= hist[h].earliest
      /\ req[r].lifecycle # "Awaiting" => req[r].decided <= now
      /\ req[r].lifecycle = "Rejected" => req[r].decided + RejectionCooldown <= hist[h].earliest
      /\ req[r].lifecycle = "Expired" => req[r].deadline + ExpiryCooldown <= hist[h].earliest
  BY <1>2 DEF WaitsRecorded, HistoryOfRequest
<1>5. /\ hist'[h].earliest >= hist[h].earliest
      /\ hist[h].earliest \in Nat /\ hist'[h].earliest \in Nat
      /\ r \in DOMAIN ending =>
            /\ ending[r] = "Rejected" => hist'[h].earliest >= now + RejectionCooldown
            /\ ending[r] = "Expired" => hist'[h].earliest >= req[r].deadline + ExpiryCooldown
  <2>1. hist'[h] \in RequestHistory /\ hist[h].earliest \in Nat
    BY <1>3, EndsHistories, HistoryFields
  <2> QED
    BY <1>3, <2>1, EndsHistories DEF HistoryOfRequest, RequestHistory
<1> HIDE DEF h
<1>6. req'[r].lifecycle = "Awaiting" => r \notin DOMAIN ending
  BY <1>1, EndsRequests DEF RequestSettlement
<1>7. HistoryOf[req'[r].relationship] = h
  BY <1>1 DEF h
<1>8. CASE r \in DOMAIN ending
  BY <1>1, <1>3, <1>4, <1>5, <1>6, <1>7, <1>8, Durations
<1>9. CASE r \notin DOMAIN ending
  BY <1>1, <1>3, <1>4, <1>5, <1>7, <1>9, Durations
<1> QED
  BY <1>8, <1>9

\* Terms stay behind their history or describe it.
LEMMA EndsTerms ==
    ASSUME TypeOK, ReservationMatchesPreparation, TermsFollowHistory, NEW ending, Ends(ending)
    PROVE  TermsFollowHistory'
<1> SUFFICES ASSUME NEW q \in QuoteIds, quotes[q] # NoTerms
             PROVE  LET t == quotes[q]
                        H == hist'[HistoryOf[t.relationship]]
                    IN  /\ t.histVersion <= H.version
                        /\ t.histVersion = H.version =>
                              t.level = H.level /\ t.eligibility = H.earliest
  BY DEF TermsFollowHistory, Ends
<1> DEFINE t == quotes[q]
           h == HistoryOf[t.relationship]
<1>1. t.relationship \in Relationships /\ t.histVersion \in Nat
  BY DEF TypeOK, RequestTerms
<1>2. h \in Histories
  BY <1>1, Directions
<1>3. hist'[h] \in RequestHistory /\ hist[h].version \in Nat
  BY <1>2, EndsHistories, HistoryFields
<1>4. /\ hist'[h].version \in Nat /\ hist'[h].version >= hist[h].version
      /\ hist'[h].level = hist[h].level
      /\ hist'[h].version = hist[h].version => hist'[h].earliest = hist[h].earliest
  BY <1>2, <1>3, EndsHistories DEF RequestHistory
<1>5. /\ t.histVersion <= hist[h].version
      /\ t.histVersion = hist[h].version =>
            t.level = hist[h].level /\ t.eligibility = hist[h].earliest
  BY DEF TermsFollowHistory
<1> HIDE DEF t, h
<1> QED
  BY <1>1, <1>3, <1>4, <1>5 DEF t, h

\* No submission appears, and a decision comes after every submission so far.
LEMMA EndsEscalation ==
    ASSUME TypeOK, RequestsPlaced, ReservationMatchesPreparation, WaitsRecorded, EscalationKept,
           NEW ending, Ends(ending)
    PROVE  EscalationKept'
<1>1. ASSUME NEW r \in Requests
      PROVE  /\ req'[r].relationship = req[r].relationship /\ req'[r].quote = req[r].quote
             /\ req'[r].deadline = req[r].deadline /\ req'[r].at = req[r].at
             /\ Submitted(r)' => Submitted(r)
             /\ r \notin DOMAIN ending => req'[r] = req[r]
             /\ r \in DOMAIN ending => req'[r].decided = now
  BY EndsRequests DEF Submitted
<1>2. quotes' = quotes /\ now' = now
  BY DEF Ends
<1>3. EachLevelUsedOnce'
  <2>1. \A h \in Histories : hist'[h].level = hist[h].level
    BY EndsHistories
  <2> QED
    BY <1>1, <1>2, <2>1 DEF EachLevelUsedOnce, EscalationKept, HistoryOfRequest
<1>4. SubmissionsSpaced'
  <2> SUFFICES ASSUME NEW r \in Requests, NEW s \in Requests, r # s,
                      Submitted(r)', Submitted(s)',
                      HistoryOf[req'[r].relationship] = HistoryOf[req'[s].relationship]
               PROVE  /\ quotes[req'[r].quote].level < quotes[req'[s].quote].level =>
                            req'[s].at >= req'[r].at + quotes[req'[r].quote].backoff
                      /\ req'[r].lifecycle = "Rejected" /\ req'[s].at > req'[r].decided =>
                            req'[s].at >= req'[r].decided + RejectionCooldown
                      /\ req'[r].lifecycle = "Expired" /\ req'[s].at > req'[r].decided =>
                            req'[s].at >= req'[r].deadline + ExpiryCooldown
    BY <1>2 DEF SubmissionsSpaced, HistoryOfRequest
  <2>1. /\ Submitted(r) /\ Submitted(s) /\ HistoryOfRequest(r) = HistoryOfRequest(s)
        /\ req[s].at <= now /\ req[s].at \in Nat /\ now \in Nat
    BY <1>1, RequestFields DEF WaitsRecorded, HistoryOfRequest, TypeOK
  <2>2. /\ quotes[req[r].quote].level < quotes[req[s].quote].level =>
              req[s].at >= req[r].at + quotes[req[r].quote].backoff
        /\ req[r].lifecycle = "Rejected" /\ req[s].at > req[r].decided =>
              req[s].at >= req[r].decided + RejectionCooldown
        /\ req[r].lifecycle = "Expired" /\ req[s].at > req[r].decided =>
              req[s].at >= req[r].deadline + ExpiryCooldown
    BY <2>1 DEF SubmissionsSpaced, EscalationKept
  <2>3. CASE r \in DOMAIN ending
    <3>1. req'[r].decided = now /\ req'[s].at <= now /\ req'[s].at \in Nat /\ now \in Nat
      BY <1>1, <2>1, <2>3
    <3> QED
      BY <1>1, <2>2, <3>1
  <2>4. CASE r \notin DOMAIN ending
    BY <1>1, <2>2, <2>4
  <2> QED
    BY <2>3, <2>4
<1> QED
  BY <1>3, <1>4 DEF EscalationKept

\* All of the pace.
LEMMA EndsPace ==
    ASSUME TypeOK, RequestsPlaced, OneRequestAtATime, Pace, NEW ending, Ends(ending)
    PROVE  Pace'
BY EndsWaits, EndsTerms, EndsEscalation DEF Pace, OneRequestAtATime

-----------------------------------------------------------------------------
(***************************************************************************)
(* What such a transition does to the money.                               *)
(***************************************************************************)

\* The money of the requests that end is settled the way they end.
Settles(ending) ==
    /\ ending \in [DOMAIN ending -> RequestSettlement]
    /\ \A r \in DOMAIN ending : CanSettle(fin[r], ending[r])
    /\ fin' = CloseFinancials(ending)

\* A piece of evidence is recorded; a request whose capture it voids ends.
Records(ending) ==
    \E r \in Requests, e \in PaymentEvidence :
        /\ req[r].lifecycle # "None"
        /\ CanRecord(fin[r], e)
        /\ fin' = [fin EXCEPT ![r] = RecordPayment(r, @, e)]
        /\ DOMAIN ending = IF VoidsCapture(fin[r], e) /\ req[r].lifecycle = "Preparing"
                           THEN {r} ELSE {}

\* A new record, a settlement and a piece of evidence keep a record's shape.
LEMMA NewTyped == NewFinancials \in Financials
<1>1. [a \in Account |-> 0] \in [Account -> Int]
  OBVIOUS
<1> QED
  BY <1>1 DEF NewFinancials, Financials, CaptureStatus, RefundStatus

LEMMA TransferTyped ==
    ASSUME NEW books \in [Account -> Int], NEW from \in Account, NEW to \in Account,
           NEW amount \in Nat
    PROVE  Transfer(books, from, to, amount) \in [Account -> Int]
BY DEF Transfer

LEMMA RefundTyped ==
    ASSUME NEW f \in Financials, NEW amount \in Nat
    PROVE  CreateRefund(f, amount) \in Financials
<1>1. Transfer(f.books, "RequestEscrow", "RefundPayable", amount) \in [Account -> Int]
  BY TransferTyped DEF Financials, Account
<1> QED
  BY <1>1 DEF CreateRefund, Financials, RefundStatus

LEMMA SettleTyped ==
    ASSUME NEW r \in Requests, NEW f \in Financials, NEW s \in RequestSettlement
    PROVE  Settle(r, f, s) \in Financials
<1>1. ProcessingCharge[r] \in Nat /\ Collateral[r] \in Nat /\ CaptureAmount(r) \in Nat
  BY DEF CaptureAmount
<1>2. [f EXCEPT !.settlement = s] \in Financials
  BY DEF Financials
<1>3. SettleInFull(r, f, s) \in Financials
  BY <1>1, <1>2, RefundTyped DEF SettleInFull
<1>4. SettleUnfunded(f) \in Financials
  BY DEF SettleUnfunded, Financials, CaptureStatus, RequestSettlement
<1> DEFINE b == Transfer(f.books, "RequestEscrow", "ProcessingRevenue", ProcessingCharge[r])
           c == Transfer(b, "RequestEscrow", "ProgramClearing", Collateral[r])
<1>5. b \in [Account -> Int]
  BY <1>1, TransferTyped DEF Financials, Account
<1>6. c \in [Account -> Int]
  BY <1>1, <1>5, TransferTyped DEF Account
<1>7. SettleExpired(r, f) \in Financials
  <2>1. [f EXCEPT !.settlement = "Expired", !.books = b] \in Financials
    BY <1>5 DEF Financials, RequestSettlement
  <2> QED
    BY <1>1, <2>1, RefundTyped DEF SettleExpired
<1>8. SettleRejected(r, f) \in Financials
  BY <1>6 DEF SettleRejected, Financials, RequestSettlement
<1> QED
  BY <1>3, <1>4, <1>7, <1>8 DEF Settle, RequestSettlement

LEMMA RecordTyped ==
    ASSUME NEW r \in Requests, NEW f \in Financials, NEW e \in PaymentEvidence
    PROVE  RecordPayment(r, f, e) \in Financials
<1>1. CaptureAmount(r) \in Nat /\ f.refundAmount \in Nat
  BY DEF CaptureAmount, Financials
<1>2. CaptureSettled(r, f) \in Financials
  <2> DEFINE b == Transfer(f.books, "ProcessorClearing", "RequestEscrow", CaptureAmount(r))
             g == [f EXCEPT !.capture = "FundingFinalized", !.books = b]
  <2>1. b \in [Account -> Int]
    BY <1>1, TransferTyped DEF Financials, Account
  <2>2. g \in Financials
    BY <2>1 DEF Financials, CaptureStatus
  <2>3. CreateRefund(g, CaptureAmount(r)) \in Financials
    BY <1>1, <2>2, RefundTyped
  <2> QED
    BY <2>2, <2>3 DEF CaptureSettled
<1>3. CaptureVoided(f) \in Financials
  BY DEF CaptureVoided, Financials, CaptureStatus, RequestSettlement
<1>4. CaptureReversed(r, f) \in Financials
  <2>1. Transfer(f.books, "CorporateLossClearing", "ProcessorClearing", CaptureAmount(r))
           \in [Account -> Int]
    BY <1>1, TransferTyped DEF Financials, Account
  <2> QED
    BY <2>1 DEF CaptureReversed, Financials, CaptureStatus
<1>5. RefundSettled(f) \in Financials
  <2>1. Transfer(f.books, "RefundPayable", "ProcessorClearing", f.refundAmount) \in [Account -> Int]
    BY <1>1, TransferTyped DEF Financials, Account
  <2> QED
    BY <2>1 DEF RefundSettled, Financials, RefundStatus
<1>6. Reconcile(r, f, e) \in Financials
  BY <1>2, <1>3, <1>4, <1>5 DEF Reconcile
<1> QED
  BY <1>6 DEF RecordPayment, Financials

\* The first settlement of a record decides its outcome and keeps its funding.
LEMMA SettleOutcome ==
    ASSUME NEW r \in Requests, NEW f \in Financials, f.settlement = "None",
           NEW s \in RequestSettlement, CanSettle(f, s)
    PROVE  /\ Settle(r, f, s).settlement = s
           /\ FundingFinalized(f) => FundingFinalized(Settle(r, f, s))
<1>2. f.settlement # s
  BY DEF RequestSettlement
<1>3. CASE s = "Rejected"
  <2>1. Settle(r, f, s) = SettleRejected(r, f)
    BY <1>2, <1>3 DEF Settle
  <2> QED
    BY <1>3, <2>1 DEF SettleRejected, FundingFinalized, Financials
<1>4. CASE s = "Expired"
  <2>1. Settle(r, f, s) = SettleExpired(r, f)
    BY <1>2, <1>4 DEF Settle
  <2> QED
    BY <1>4, <2>1 DEF SettleExpired, CreateRefund, FundingFinalized, Financials
<1>5. CASE s = "Accepted" \/ (s = "Cancelled" /\ FundingFinalized(f))
  <2>1. Settle(r, f, s) = SettleInFull(r, f, s)
    BY <1>2, <1>5 DEF Settle
  <2> QED
    BY <2>1 DEF SettleInFull, CreateRefund, FundingFinalized, Financials
<1>6. CASE s = "Cancelled" /\ ~FundingFinalized(f)
  <2>1. Settle(r, f, s) = SettleUnfunded(f)
    BY <1>2, <1>6 DEF Settle
  <2> QED
    BY <1>6, <2>1 DEF SettleUnfunded, Financials
<1>7. FundingFinalized(f) \in BOOLEAN
  BY DEF FundingFinalized
<1> QED
  BY <1>3, <1>4, <1>5, <1>6, <1>7 DEF RequestSettlement

\* Evidence decides an outcome only by voiding a capture, and keeps the funding.
LEMMA RecordOutcome ==
    ASSUME NEW r \in Requests, NEW f \in Financials, NEW e \in PaymentEvidence, CanRecord(f, e)
    PROVE  LET g == RecordPayment(r, f, e)
           IN  /\ g.settlement = IF VoidsCapture(f, e) THEN "Cancelled" ELSE f.settlement
               /\ FundingFinalized(f) => FundingFinalized(g)
<1> DEFINE h == Reconcile(r, f, e)
<1>2. CASE e \in f.events
  BY <1>2 DEF RecordPayment, VoidsCapture
<1>3. CASE e \notin f.events
  <2>1. CASE e.op = "capture" /\ e.outcome = "Settled"
    <3>1. h = CaptureSettled(r, f)
      BY <2>1 DEF Reconcile
    <3>2. RecordPayment(r, f, e) = [CaptureSettled(r, f) EXCEPT !.events = @ \cup {e}]
      BY <1>3, <3>1 DEF RecordPayment
    <3> QED
      BY <2>1, <3>2
      DEF CaptureSettled, CreateRefund, VoidsCapture, FundingFinalized, Financials
  <2>2. CASE e.op = "capture" /\ e.outcome \in {"Voided", "Failed"}
    <3>1. h = CaptureVoided(f)
      BY <2>2 DEF Reconcile
    <3>2. RecordPayment(r, f, e) = [CaptureVoided(f) EXCEPT !.events = @ \cup {e}]
      BY <1>3, <3>1 DEF RecordPayment
    <3> QED
      BY <1>3, <2>2, <3>2 DEF CaptureVoided, VoidsCapture, FundingFinalized, Financials
  <2>3. CASE e.op = "capture" /\ e.outcome = "Reversed"
    <3>1. h = CaptureReversed(r, f)
      BY <2>3 DEF Reconcile
    <3>2. RecordPayment(r, f, e) = [CaptureReversed(r, f) EXCEPT !.events = @ \cup {e}]
      BY <1>3, <3>1 DEF RecordPayment
    <3> QED
      BY <2>3, <3>2 DEF CaptureReversed, VoidsCapture, FundingFinalized, Financials
  <2>4. CASE e.op = "refund" /\ e.outcome = "Settled"
    <3>1. h = RefundSettled(f)
      BY <2>4 DEF Reconcile
    <3>2. RecordPayment(r, f, e) = [RefundSettled(f) EXCEPT !.events = @ \cup {e}]
      BY <1>3, <3>1 DEF RecordPayment
    <3> QED
      BY <2>4, <3>2 DEF RefundSettled, VoidsCapture, FundingFinalized, Financials
  <2>5. CASE /\ ~(e.op = "capture" /\ e.outcome \in {"Settled", "Voided", "Failed", "Reversed"})
             /\ ~(e.op = "refund" /\ e.outcome = "Settled")
    <3>1. h = f
      BY <2>5 DEF Reconcile
    <3>2. RecordPayment(r, f, e) = [f EXCEPT !.events = @ \cup {e}]
      BY <1>3, <3>1 DEF RecordPayment
    <3> QED
      BY <2>5, <3>2 DEF VoidsCapture, FundingFinalized, Financials
  <2> QED
    BY <2>1, <2>2, <2>3, <2>4, <2>5
<1> QED
  BY <1>2, <1>3

\* Requests and money end together.
LEMMA EndsMoney ==
    ASSUME TypeOK, MoneyPlaced, LifecycleMatchesSettlement, NEW ending, Ends(ending),
           Settles(ending) \/ Records(ending)
    PROVE  /\ fin' \in [Requests -> Financials]
           /\ MoneyPlaced' /\ LifecycleMatchesSettlement'
<1>1. \A r \in Requests :
        /\ r \notin DOMAIN ending => req'[r].lifecycle = req[r].lifecycle
        /\ r \in DOMAIN ending =>
              /\ req[r].lifecycle \in {"Preparing", "Awaiting"}
              /\ req'[r].lifecycle \in RequestSettlement
              /\ req'[r].lifecycle = ending[r]
              /\ ending[r] = "Cancelled" <=> req[r].lifecycle = "Preparing"
  BY EndsRequests
<1>2. \A r \in Requests :
        /\ fin[r] \in Financials
        /\ fin[r].settlement = IF req[r].lifecycle \in {"None", "Preparing", "Awaiting"}
                               THEN "None" ELSE req[r].lifecycle
        /\ Submitted(r) => FundingFinalized(fin[r])
        /\ req[r].lifecycle = "None" => fin[r] = NewFinancials
        /\ req[r].lifecycle \in RequestLifecycle
  BY RequestFields DEF MoneyPlaced, LifecycleMatchesSettlement
<1>3. DOMAIN ending \subseteq Requests
  BY DEF Ends, LegalEnding
\* What has to be shown of the record of one request.
<1> DEFINE Good(r, g) ==
              /\ g \in Financials
              /\ g.settlement = IF req'[r].lifecycle \in {"None", "Preparing", "Awaiting"}
                                THEN "None" ELSE req'[r].lifecycle
              /\ Submitted(r)' => FundingFinalized(g)
              /\ req'[r].lifecycle = "None" => g = NewFinancials
<1>4. ASSUME NEW r \in Requests, r \notin DOMAIN ending PROVE Good(r, fin[r])
  BY <1>1, <1>2, <1>4 DEF Submitted
<1>5. CASE Settles(ending)
  <2>1. ASSUME NEW r \in DOMAIN ending PROVE Good(r, Settle(r, fin[r], ending[r]))
    <3>1. /\ r \in Requests /\ fin[r].settlement = "None"
          /\ ending[r] \in RequestSettlement /\ CanSettle(fin[r], ending[r])
      BY <1>1, <1>2, <1>3, <1>5 DEF Settles
    <3>2. /\ Settle(r, fin[r], ending[r]) \in Financials
          /\ Settle(r, fin[r], ending[r]).settlement = ending[r]
          /\ FundingFinalized(fin[r]) => FundingFinalized(Settle(r, fin[r], ending[r]))
      BY <1>2, <3>1, SettleTyped, SettleOutcome
    <3>3. Submitted(r)' => Submitted(r)
      BY <1>1, <3>1 DEF Submitted
    <3>4. req'[r].lifecycle = ending[r]
          /\ ending[r] \notin {"None", "Preparing", "Awaiting"}
      BY <1>1, <3>1 DEF RequestSettlement
    <3> QED
      BY <1>2, <3>1, <3>2, <3>3, <3>4
  <2>2. fin' = [r \in Requests |-> IF r \in DOMAIN ending
                                   THEN Settle(r, fin[r], ending[r]) ELSE fin[r]]
    BY <1>5 DEF Settles, CloseFinancials
  <2> HIDE DEF Good
  <2>3. \A r \in Requests : Good(r, fin'[r])
    BY <1>4, <2>1, <2>2
  <2>4. fin' = [r \in Requests |-> fin'[r]]
    BY <2>2
  <2> QED
    BY <2>3, <2>4 DEF Good, MoneyPlaced, LifecycleMatchesSettlement
<1>6. CASE Records(ending)
  <2>1. PICK p \in Requests, e \in PaymentEvidence :
          /\ req[p].lifecycle # "None"
          /\ CanRecord(fin[p], e)
          /\ fin' = [fin EXCEPT ![p] = RecordPayment(p, @, e)]
          /\ DOMAIN ending = IF VoidsCapture(fin[p], e) /\ req[p].lifecycle = "Preparing"
                             THEN {p} ELSE {}
    BY <1>6 DEF Records
  <2> DEFINE g == RecordPayment(p, fin[p], e)
  <2>2. /\ g \in Financials
        /\ g.settlement = IF VoidsCapture(fin[p], e) THEN "Cancelled" ELSE fin[p].settlement
        /\ FundingFinalized(fin[p]) => FundingFinalized(g)
    BY <1>2, <2>1, RecordTyped, RecordOutcome
  <2> HIDE DEF g
  <2>3. VoidsCapture(fin[p], e) => ~FundingFinalized(fin[p])
    BY DEF VoidsCapture
  <2>4. CASE p \in DOMAIN ending
    <3>1. /\ req[p].lifecycle = "Preparing" /\ VoidsCapture(fin[p], e)
          /\ req'[p].lifecycle = "Cancelled"
      BY <1>1, <2>1, <2>4
    <3>2. ~Submitted(p)'
      BY <3>1 DEF Submitted
    <3> QED
      <4>1. Good(p, g)
        BY <2>2, <3>1, <3>2
      <4>2. fin' = [r \in Requests |-> IF r = p THEN g ELSE fin[r]]
        BY <2>1 DEF g, TypeOK
      <4>3. DOMAIN ending = {p}
        BY <2>1, <2>4
      <4> HIDE DEF Good
      <4>4. \A r \in Requests : Good(r, fin'[r])
        BY <1>4, <4>1, <4>2, <4>3
      <4>5. fin' = [r \in Requests |-> fin'[r]]
        BY <4>2
      <4> QED
        BY <4>4, <4>5 DEF Good, MoneyPlaced, LifecycleMatchesSettlement
  <2>5. CASE p \notin DOMAIN ending
    <3>1. DOMAIN ending = {} /\ req'[p].lifecycle = req[p].lifecycle
      BY <1>1, <2>1, <2>5
    <3>2. VoidsCapture(fin[p], e) => req[p].lifecycle \notin {"Preparing", "Awaiting", "Accepted",
                                                             "Rejected", "Expired"}
      BY <1>2, <2>1, <2>3, <3>1 DEF Submitted
    <3>3. VoidsCapture(fin[p], e) => req[p].lifecycle = "Cancelled"
      BY <1>2, <2>1, <3>2 DEF RequestLifecycle
    <3>4. Submitted(p)' => Submitted(p)
      BY <3>1 DEF Submitted
    <3>5. Good(p, g)
      BY <1>2, <2>1, <2>2, <3>1, <3>3, <3>4
    <3>6. fin' = [r \in Requests |-> IF r = p THEN g ELSE fin[r]]
      BY <2>1 DEF g, TypeOK
    <3> HIDE DEF Good
    <3>7. \A r \in Requests : Good(r, fin'[r])
      BY <1>4, <3>1, <3>5, <3>6
    <3>8. fin' = [r \in Requests |-> fin'[r]]
      BY <3>6
    <3> QED
      BY <3>7, <3>8 DEF Good, MoneyPlaced, LifecycleMatchesSettlement
  <2> QED
    BY <2>4, <2>5
<1> QED
  BY <1>5, <1>6

-----------------------------------------------------------------------------
(***************************************************************************)
(* What a decision does to the relationships.                              *)
(***************************************************************************)

\* The relationships of a transition that ends requests: a direction is
\* blocked only with its requests gone, a reply lane is the one there was or
\* answers what is accepted now, and a change changes the version.
Decides(ending) ==
    /\ rel' \in [Relationships -> Relationship]
    /\ \A x \in Relationships :
          /\ rel'[x].state = "Blocked" => rel[x].state = "Blocked" \/ ActiveIn(x) \subseteq DOMAIN ending
          /\ rel'[x].lane = "Reply" =>
                \/ /\ rel[x].lane = "Reply"
                   /\ rel'[x].answers = rel[x].answers /\ rel'[x].epoch = rel[x].epoch
                \/ /\ rel'[x].answers \in DOMAIN ending
                   /\ ending[rel'[x].answers] = "Accepted"
                   /\ req[rel'[x].answers].relationship = Opposite[x]
                   /\ req[rel'[x].answers].offer = rel'[x].epoch
          /\ rel'[x] # rel[x] => rel'[x].version > rel[x].version

\* A transition that leaves the relationships alone decides nothing.
LEMMA NothingDecided ==
    ASSUME TypeOK, NEW ending, UNCHANGED rel
    PROVE  Decides(ending)
BY DEF Decides, TypeOK

\* One request at a time, after requests ended.
LEMMA EndsOneRequest ==
    ASSUME TypeOK, RequestsPlaced, OneRequestAtATime, NEW ending, Ends(ending), Decides(ending)
    PROVE  OneRequestAtATime'
<1>1. \A x : ActiveIn(x)' = ActiveIn(x) \ DOMAIN ending
  BY EndsActive
<1>2. \A x \in Relationships : rel'[x].state = "Blocked" =>
         rel[x].state = "Blocked" \/ ActiveIn(x) \subseteq DOMAIN ending
  BY DEF Decides
<1>3. OneActiveRequest'
  BY <1>1, <1>2 DEF OneActiveRequest, OneRequestAtATime
<1>4. ReservationMatchesPreparation' /\ NoCrossedRequests'
  BY EndsReservations, EndsActive DEF OneRequestAtATime
<1> QED
  BY <1>3, <1>4 DEF OneRequestAtATime

\* A reply lane still answers what it answered.
LEMMA EndsReplies ==
    ASSUME TypeOK, ReplyLaneStillOffered, NEW ending, Ends(ending), Decides(ending)
    PROVE  ReplyLaneStillOffered'
<1> SUFFICES ASSUME NEW x \in Relationships, rel'[x].lane = "Reply"
             PROVE  LET r == rel'[x].answers
                    IN  /\ r \in Requests
                        /\ req'[r].relationship = Opposite[x]
                        /\ req'[r].lifecycle = "Accepted"
                        /\ req'[r].offer = rel'[x].epoch
  BY DEF ReplyLaneStillOffered
<1> DEFINE r == rel'[x].answers
<1>1. CASE /\ rel[x].lane = "Reply"
           /\ r = rel[x].answers /\ rel'[x].epoch = rel[x].epoch
  <2>1. /\ r \in Requests /\ req[r].relationship = Opposite[x]
        /\ req[r].lifecycle = "Accepted" /\ req[r].offer = rel'[x].epoch
    BY <1>1 DEF ReplyLaneStillOffered
  <2> HIDE DEF r
  <2>2. req'[r] = req[r]
    BY <2>1, EndsRequests
  <2> QED
    BY <2>1, <2>2 DEF r
<1>2. CASE /\ r \in DOMAIN ending /\ ending[r] = "Accepted"
           /\ req[r].relationship = Opposite[x] /\ req[r].offer = rel'[x].epoch
  <2> HIDE DEF r
  <2>1. r \in Requests
    BY <1>2 DEF Ends, LegalEnding
  <2> QED
    BY <1>2, <2>1, EndsRequests DEF r
<1> QED
  BY <1>1, <1>2 DEF Decides

\* A transition of this shape keeps everything.
LEMMA EndingKeeps ==
    ASSUME IInv, NEW ending, Ends(ending), Decides(ending), Settles(ending) \/ Records(ending)
    PROVE  IInv'
<1>1. /\ TypeOK /\ RequestsPlaced /\ MoneyPlaced /\ OneRequestAtATime
      /\ ReservationMatchesPreparation
      /\ LifecycleMatchesSettlement /\ TaskMatchesLifecycle /\ OutcomeMatchesWindow
      /\ Pace /\ ReplyLaneStillOffered
  BY DEF IInv, Agreement, OneRequestAtATime
<1>2. TypeOK'
  <2>1. rel' \in [Relationships -> Relationship]
    BY DEF Decides
  <2>2. req' \in [Requests -> RelationshipRequest] /\ hist' \in [Histories -> RequestHistory]
    BY <1>1, EndsRequests, EndsHistories
  <2>3. task' \in [Requests -> ScheduleTask] /\ fin' \in [Requests -> Financials]
    BY <1>1, EndsAgreement, EndsMoney
  <2> QED
    BY <1>1, <2>1, <2>2, <2>3 DEF TypeOK, Ends
<1>3. RequestsPlaced' /\ MoneyPlaced'
  BY <1>1, EndsReservations, EndsMoney
<1>4. OneRequestAtATime'
  BY <1>1, EndsOneRequest
<1>5. Agreement'
  BY <1>1, EndsMoney, EndsAgreement DEF Agreement
<1>6. Pace' /\ ReplyLaneStillOffered'
  BY <1>1, EndsPace, EndsReplies
<1> QED
  BY <1>2, <1>3, <1>4, <1>5, <1>6 DEF IInv

-----------------------------------------------------------------------------
(***************************************************************************)
(* The actions of this shape.                                              *)
(***************************************************************************)

\* A transition ends some requests, in order, with their money.
Shaped == \E ending : Ends(ending) /\ Decides(ending) /\ (Settles(ending) \/ Records(ending))

NoEnding == [o \in {} |-> "Cancelled"]
OneEnding(r, outcome) == [o \in {r} |-> outcome]

\* Nothing ends.
LEMMA NothingEnds ==
    ASSUME TypeOK, UNCHANGED <<now, quotes, used, req, task, hist>>
    PROVE  /\ Ends(NoEnding)
           /\ UNCHANGED fin => Settles(NoEnding)
<1>1. DOMAIN NoEnding = {}
  BY DEF NoEnding
<1>2. LegalEnding(NoEnding)
  BY <1>1 DEF LegalEnding
<1>3. req' = CloseRequests(NoEnding) /\ task' = CloseTasks(NoEnding)
      /\ hist' = CloseHistories(NoEnding)
  BY <1>1 DEF CloseRequests, CloseTasks, CloseHistories, TypeOK
<1>4. fin = CloseFinancials(NoEnding)
  BY <1>1 DEF CloseFinancials, TypeOK
<1>5. NoEnding \in [DOMAIN NoEnding -> RequestSettlement]
  BY DEF NoEnding
<1> QED
  BY <1>1, <1>2, <1>3, <1>4, <1>5 DEF Ends, Settles

\* One active request ends as the code allows.
LEMMA OneEndingLegal ==
    ASSUME NEW r \in Requests, Active(r), NEW outcome \in RequestSettlement,
           outcome = "Cancelled" <=> req[r].lifecycle = "Preparing",
           outcome = "Rejected" => now <= req[r].deadline,
           outcome = "Expired" => now > req[r].deadline
    PROVE  LegalEnding(OneEnding(r, outcome))
<1>1. DOMAIN OneEnding(r, outcome) = {r} /\ OneEnding(r, outcome)[r] = outcome
  BY DEF OneEnding
<1> QED
  BY <1>1 DEF LegalEnding

LEMMA OneEndingShaped ==
    ASSUME IInv, NEW r \in Requests, Active(r), NEW outcome \in RequestSettlement,
           outcome = "Cancelled" <=> req[r].lifecycle = "Preparing",
           outcome = "Rejected" => now <= req[r].deadline,
           outcome = "Expired" => now > req[r].deadline,
           Close(OneEnding(r, outcome)), UNCHANGED <<now, rel, quotes, used>>
    PROVE  Shaped
<1> DEFINE ending == OneEnding(r, outcome)
<1>1. Ends(ending)
  BY OneEndingLegal DEF Ends, Close
<1>2. Decides(ending)
  BY NothingDecided DEF IInv
<1>3. Settles(ending)
  <2>1. ending \in [DOMAIN ending -> RequestSettlement]
    BY DEF OneEnding
  <2> QED
    BY <2>1 DEF Settles, Close
<1> QED
  BY <1>1, <1>2, <1>3 DEF Shaped

\* The provider's and the sender's endings.
LEMMA CancellationsShaped ==
    ASSUME IInv, NEW r \in Requests,
           (\E refused \in BOOLEAN : SubmitFailing(r, refused)) \/ CancelRequest(r)
    PROVE  Shaped
<1>1. /\ req[r].lifecycle = "Preparing"
      /\ Close(OneEnding(r, "Cancelled"))
      /\ UNCHANGED <<now, rel, quotes, used>>
  BY DEF SubmitFailing, CanAttemptSubmission, CancelRequest, OneEnding
<1>2. Active(r) /\ "Cancelled" \in RequestSettlement
  BY <1>1 DEF Active, RequestSettlement
<1> QED
  BY <1>1, <1>2, OneEndingShaped

LEMMA ExpiryShaped ==
    ASSUME IInv, NEW r \in Requests, ExpireRequest(r)
    PROVE  Shaped
<1>1. /\ req[r].lifecycle = "Awaiting" /\ now > req[r].deadline
      /\ Close(OneEnding(r, "Expired"))
      /\ UNCHANGED <<now, rel, quotes, used>>
  BY DEF ExpireRequest, OneEnding
<1>2. Active(r) /\ "Expired" \in RequestSettlement
  BY <1>1 DEF Active, RequestSettlement
<1> QED
  BY <1>1, <1>2, OneEndingShaped

LEMMA TaskShaped ==
    ASSUME IInv, NEW r \in Requests, RunTask(r)
    PROVE  Shaped
<1>1. CASE ExpireRequest(r)
  BY <1>1, ExpiryShaped
<1>2. CASE /\ req[r].lifecycle = "Preparing"
           /\ Close(OneEnding(r, "Cancelled"))
           /\ UNCHANGED <<now, rel, quotes, used>>
  <2>1. Active(r) /\ "Cancelled" \in RequestSettlement
    BY <1>2 DEF Active, RequestSettlement
  <2> QED
    BY <1>2, <2>1, OneEndingShaped
<1> QED
  BY <1>1, <1>2 DEF RunTask, OneEnding

\* A piece of evidence ends the preparation whose capture it voids, or nothing.
LEMMA EvidenceShaped ==
    ASSUME IInv, NEW r \in Requests, NEW e \in PaymentEvidence, ConfirmPayment(r, e)
    PROVE  Shaped
<1>1. /\ req[r].lifecycle # "None" /\ CanRecord(fin[r], e)
      /\ fin' = [fin EXCEPT ![r] = RecordPayment(r, @, e)]
      /\ UNCHANGED <<now, rel, quotes, used>>
  BY DEF ConfirmPayment
<1>2. TypeOK
  BY DEF IInv
<1>3. CASE VoidsCapture(fin[r], e) /\ req[r].lifecycle = "Preparing"
  <2> DEFINE ending == OneEnding(r, "Cancelled")
  <2>1. req' = CloseRequests(ending) /\ hist' = CloseHistories(ending)
        /\ task' = CloseTasks(ending)
    BY <1>3 DEF ConfirmPayment, OneEnding
  <2>2. Active(r) /\ "Cancelled" \in RequestSettlement
    BY <1>3 DEF Active, RequestSettlement
  <2>3. LegalEnding(ending)
    BY <1>3, <2>2, OneEndingLegal
  <2>4. DOMAIN ending = {r}
    BY DEF OneEnding
  <2> HIDE DEF ending
  <2>5. Ends(ending)
    BY <1>1, <2>1, <2>3 DEF Ends
  <2>6. Decides(ending)
    BY <1>1, <1>2, NothingDecided
  <2>7. Records(ending)
    BY <1>1, <1>3, <2>4 DEF Records
  <2> QED
    BY <2>5, <2>6, <2>7 DEF Shaped
<1>4. CASE ~(VoidsCapture(fin[r], e) /\ req[r].lifecycle = "Preparing")
  <2>1. UNCHANGED <<req, hist, task>>
    BY <1>4 DEF ConfirmPayment
  <2>2. Ends(NoEnding) /\ Decides(NoEnding)
    BY <1>1, <1>2, <2>1, NothingEnds, NothingDecided
  <2>3. DOMAIN NoEnding = {}
    BY DEF NoEnding
  <2>4. Records(NoEnding)
    BY <1>1, <1>4, <2>3 DEF Records
  <2> QED
    BY <2>2, <2>4 DEF Shaped
<1> QED
  BY <1>3, <1>4

\* The fields of a relationship.
LEMMA RelationshipFields ==
    ASSUME TypeOK, NEW x \in Relationships
    PROVE  /\ rel[x] \in Relationship
           /\ rel[x].state \in RelationshipState
           /\ rel[x].version \in Nat /\ rel[x].epoch \in Nat
           /\ rel[x].lane \in {"None", "Granted", "Reply"}
           /\ rel[x].answers \in Requests \cup {NoRequest}
BY DEF TypeOK, Relationship

\* A change is a new version of the rest.
LEMMA VersionedFields ==
    ASSUME NEW R \in Relationship
    PROVE  /\ Versioned(R) \in Relationship
           /\ Versioned(R).state = R.state /\ Versioned(R).epoch = R.epoch
           /\ Versioned(R).lane = R.lane /\ Versioned(R).answers = R.answers
           /\ Versioned(R).version = R.version + 1 /\ Versioned(R).version > R.version
BY DEF Versioned, Relationship

\* terminate_lane.
LEMMA TerminatedFields ==
    ASSUME NEW R \in Relationship
    PROVE  /\ Terminated(R) \in Relationship
           /\ Terminated(R).state = R.state /\ Terminated(R).version = R.version
           /\ Terminated(R).lane = "None"
<1> DEFINE a == [R EXCEPT !.epoch = R.epoch + 1]
           b == [a EXCEPT !.lane = "None"]
           c == [b EXCEPT !.answers = NoRequest]
<1>1. Terminated(R) = c
  BY DEF Terminated, Relationship
<1>2. c.state = R.state /\ c.version = R.version /\ c.lane = "None"
  BY DEF Relationship
<1>3. a \in Relationship
  BY DEF Relationship
<1> HIDE DEF a
<1>4. b \in Relationship
  BY <1>3 DEF Relationship
<1> HIDE DEF b
<1>5. c \in Relationship
  BY <1>4 DEF Relationship
<1> QED
  BY <1>1, <1>2, <1>5

\* Withdrawals that leave the requests as they are.
LEMMA WithdrawalsShaped ==
    ASSUME IInv, NEW x \in Relationships, Unblock(x) \/ Revoke(x)
    PROVE  Shaped
<1>1. TypeOK
  BY DEF IInv
<1>2. UNCHANGED <<now, hist, quotes, used, req, fin, task>>
  BY DEF Unblock, Revoke
<1>3. rel[x] \in Relationship /\ rel[x].version \in Nat /\ rel \in [Relationships -> Relationship]
  BY <1>1, RelationshipFields DEF TypeOK
\* What the direction becomes.
<1> DEFINE Withdrawn(R) ==
              /\ R \in Relationship
              /\ R.state # "Blocked"
              /\ R.lane = "Reply" => /\ rel[x].lane = "Reply" /\ R.answers = rel[x].answers
                                     /\ R.epoch = rel[x].epoch
              /\ R.version > rel[x].version
<1>4. ASSUME NEW R, Withdrawn(R),
             rel' = [z \in Relationships |-> IF z = x THEN R ELSE rel[z]]
      PROVE  Decides(NoEnding)
  <2>1. rel' \in [Relationships -> Relationship]
    BY <1>3, <1>4
  <2>2. rel'[x] = R /\ \A z \in Relationships \ {x} : rel'[z] = rel[z]
    BY <1>3, <1>4
  <2> QED
    BY <1>4, <2>1, <2>2 DEF Decides
<1>5. CASE Unblock(x)
  <2> DEFINE a == [rel[x] EXCEPT !.state = "Rejected"]
  <2>1. rel' = [z \in Relationships |-> IF z = x THEN Versioned(a) ELSE rel[z]]
    BY <1>3, <1>5 DEF Unblock
  <2>2. /\ a \in Relationship /\ a.state = "Rejected" /\ a.version = rel[x].version
        /\ a.lane = rel[x].lane /\ a.answers = rel[x].answers /\ a.epoch = rel[x].epoch
    BY <1>3 DEF Relationship, RelationshipState
  <2> HIDE DEF a
  <2>3. Withdrawn(Versioned(a))
    BY <1>3, <2>2, VersionedFields
  <2> QED
    BY <1>1, <1>2, <1>4, <2>1, <2>3, NothingEnds DEF Shaped
<1>6. CASE Revoke(x)
  <2> DEFINE T == Terminated(rel[x])
             a == [T EXCEPT !.state = "Revoked"]
  <2>1. rel' = [z \in Relationships |-> IF z = x THEN Versioned(a) ELSE rel[z]]
    BY <1>3, <1>6 DEF Revoke
  <2>2. T \in Relationship /\ T.version = rel[x].version /\ T.lane = "None"
    BY <1>3, TerminatedFields
  <2> HIDE DEF T
  <2>3. a \in Relationship /\ a.state = "Revoked" /\ a.version = rel[x].version /\ a.lane = "None"
    BY <2>2 DEF Relationship, RelationshipState
  <2> HIDE DEF a
  <2>4. Withdrawn(Versioned(a))
    BY <1>3, <2>3, VersionedFields
  <2> QED
    BY <1>1, <1>2, <1>4, <2>1, <2>4, NothingEnds DEF Shaped
<1> QED
  BY <1>5, <1>6

\* The outcomes a decision about a direction may have for its requests.
LegalOutcome(x, outcome) ==
    /\ outcome \in [ActiveIn(x) -> RequestSettlement]
    /\ \A r \in ActiveIn(x) :
          /\ outcome[r] = "Cancelled" <=> req[r].lifecycle = "Preparing"
          /\ outcome[r] = "Rejected" => now <= req[r].deadline
          /\ outcome[r] = "Expired" => now > req[r].deadline

\* What a decision may make of a direction before its version counts on.
LegalNext(x, next) ==
    /\ next \in Relationship
    /\ next.version = rel[x].version
    /\ next.lane = "Reply" => /\ rel[x].lane = "Reply" /\ next.answers = rel[x].answers
                              /\ next.epoch = rel[x].epoch

\* A decision ends the requests of its direction and, when it opens the other
\* one by a reply lane, those of the other.
LEMMA DecisionShaped ==
    ASSUME IInv, NEW x \in Relationships, NEW next, LegalNext(x, next),
           NEW outcome, LegalOutcome(x, outcome), NEW granted \in BOOLEAN,
           ChangeRelationship(x, next, outcome, granted)
    PROVE  Shaped
<1> DEFINE y        == Opposite[x]
           answered == {r \in DOMAIN outcome : outcome[r] = "Accepted" /\ FormsReplyLane(r, granted)}
           reverse  == IF answered = {} THEN {} ELSE ActiveIn(y)
           ending   == [r \in DOMAIN outcome \cup reverse |->
                           IF r \in DOMAIN outcome THEN outcome[r] ELSE LaneOutcome(r)]
           opened   == Versioned([rel[y] EXCEPT !.state = "ExpressLane", !.lane = "Reply",
                                                !.answers = CHOOSE r \in answered : TRUE])
<1>1. /\ rel' = [z \in Relationships |->
                   IF z = x THEN Versioned(next)
                   ELSE IF z = y /\ answered # {} THEN opened ELSE rel[z]]
      /\ Close(ending)
      /\ UNCHANGED <<now, quotes, used>>
  BY DEF ChangeRelationship
<1>2. TypeOK /\ OneActiveRequest
  BY DEF IInv, OneRequestAtATime
<1>3. DOMAIN outcome = ActiveIn(x) /\ \A r \in ActiveIn(x) : outcome[r] \in RequestSettlement
  BY DEF LegalOutcome
<1>4. ActiveIn(x) \subseteq Requests /\ reverse \subseteq Requests
  BY DEF ActiveIn
<1>5. ASSUME NEW r \in answered
      PROVE  /\ r \in ActiveIn(x) /\ r \in Requests /\ outcome[r] = "Accepted"
             /\ req[r].relationship = x
             /\ y # NoOpposite /\ req[r].offer = rel[y].epoch
  BY <1>3 DEF FormsReplyLane, ActiveIn
<1>6. answered # {} => /\ y \in Relationships /\ Opposite[y] = x
                       /\ HistoryOf[y] # HistoryOf[x] /\ y # x
  BY <1>5, Directions
<1>7. \A r \in ActiveIn(x) : req[r].relationship = x /\ Active(r)
  BY DEF ActiveIn
<1>8. \A r \in reverse : req[r].relationship = y /\ Active(r) /\ answered # {} /\ r \notin ActiveIn(x)
  BY <1>6 DEF ActiveIn
<1>9. \A r \in reverse : /\ LaneOutcome(r) \in {"Cancelled", "Accepted"}
                         /\ LaneOutcome(r) = "Cancelled" <=> req[r].lifecycle = "Preparing"
  BY DEF LaneOutcome
<1>10. DOMAIN ending = ActiveIn(x) \cup reverse
  BY <1>3
<1>11. /\ \A r \in ActiveIn(x) : ending[r] = outcome[r]
       /\ \A r \in reverse : ending[r] = LaneOutcome(r)
  BY <1>3, <1>8
<1>12. ending \in [DOMAIN ending -> RequestSettlement]
  <2>1. \A r \in DOMAIN ending : ending[r] \in RequestSettlement
    BY <1>3, <1>9, <1>10, <1>11 DEF RequestSettlement
  <2> QED
    BY <2>1
<1> HIDE DEF ending, reverse, answered, y, opened
<1>13. LegalEnding(ending)
  <2>1. \A r \in DOMAIN ending :
          /\ Active(r)
          /\ ending[r] \in RequestSettlement
          /\ ending[r] = "Cancelled" <=> req[r].lifecycle = "Preparing"
          /\ ending[r] = "Rejected" => now <= req[r].deadline
          /\ ending[r] = "Expired" => now > req[r].deadline
    <3>1. ASSUME NEW r \in ActiveIn(x)
          PROVE  /\ Active(r)
                 /\ ending[r] = "Cancelled" <=> req[r].lifecycle = "Preparing"
                 /\ ending[r] = "Rejected" => now <= req[r].deadline
                 /\ ending[r] = "Expired" => now > req[r].deadline
      BY <1>7, <1>11 DEF LegalOutcome
    <3>2. ASSUME NEW r \in reverse
          PROVE  /\ Active(r)
                 /\ ending[r] = "Cancelled" <=> req[r].lifecycle = "Preparing"
                 /\ ending[r] # "Rejected" /\ ending[r] # "Expired"
      BY <1>8, <1>9, <1>11
    <3>3. \A r \in DOMAIN ending : ending[r] \in RequestSettlement
      BY <1>12
    <3> QED
      BY <1>10, <3>1, <3>2, <3>3
  <2>2. \A r, s \in ActiveIn(x) : r = s
    BY <1>2 DEF OneActiveRequest
  <2>3. \A r, s \in reverse : r = s
    <3>1. reverse = {} \/ (y \in Relationships /\ reverse = ActiveIn(y))
      BY <1>6 DEF reverse
    <3> QED
      BY <1>2, <3>1 DEF OneActiveRequest
  <2>4. \A r \in ActiveIn(x), s \in reverse : HistoryOfRequest(r) # HistoryOfRequest(s)
    BY <1>6, <1>7, <1>8 DEF HistoryOfRequest
  <2>5. \A r, s \in DOMAIN ending : HistoryOfRequest(r) = HistoryOfRequest(s) => r = s
    BY <1>10, <2>2, <2>3, <2>4
  <2>6. DOMAIN ending \subseteq Requests
    BY <1>4, <1>10
  <2> QED
    BY <2>1, <2>5, <2>6 DEF LegalEnding
<1>14. Ends(ending)
  BY <1>1, <1>13 DEF Ends, Close
<1>15. Settles(ending)
  BY <1>1, <1>12 DEF Settles, Close
<1>16. Decides(ending)
  <2>1. /\ Versioned(next) \in Relationship /\ Versioned(next).lane = next.lane
        /\ Versioned(next).answers = next.answers /\ Versioned(next).epoch = next.epoch
        /\ Versioned(next).version > rel[x].version
    BY VersionedFields DEF LegalNext
  <2>2. ASSUME answered # {}
        PROVE  /\ opened \in Relationship /\ opened.state = "ExpressLane"
               /\ opened.answers \in answered
               /\ opened.epoch = rel[y].epoch /\ opened.version > rel[y].version
    <3> DEFINE p == CHOOSE r \in answered : TRUE
               a == [rel[y] EXCEPT !.state = "ExpressLane"]
               b == [a EXCEPT !.lane = "Reply"]
               c == [b EXCEPT !.answers = p]
    <3>1. p \in answered
      BY <2>2
    <3>2. p \in Requests
      BY <1>5, <3>1
    <3>3. rel[y] \in Relationship /\ rel[y].version \in Nat
      BY <1>2, <1>6, <2>2, RelationshipFields
    <3> HIDE DEF p
    <3>4. opened = Versioned(c)
      BY <3>3 DEF opened, p, Relationship
    <3>5. /\ c.state = "ExpressLane" /\ c.answers = p /\ c.epoch = rel[y].epoch
          /\ c.version = rel[y].version
      BY <3>3 DEF Relationship
    <3>6. a \in Relationship
      BY <3>3 DEF Relationship, RelationshipState
    <3> HIDE DEF a
    <3>7. b \in Relationship
      BY <3>6 DEF Relationship
    <3> HIDE DEF b
    <3>8. c \in Relationship
      BY <3>2, <3>7 DEF Relationship
    <3> HIDE DEF c
    <3> QED
      BY <3>1, <3>4, <3>5, <3>8, VersionedFields
  <2>3. rel \in [Relationships -> Relationship]
    BY <1>2 DEF TypeOK
  <2>4. rel' \in [Relationships -> Relationship]
    BY <1>1, <2>1, <2>2, <2>3
  <2>5. /\ rel'[x] = Versioned(next)
        /\ answered # {} => rel'[y] = opened
        /\ \A z \in Relationships : z # x /\ ~(z = y /\ answered # {}) => rel'[z] = rel[z]
    BY <1>1, <1>6
  <2>6. /\ rel'[x].state = "Blocked" => ActiveIn(x) \subseteq DOMAIN ending
        /\ rel'[x].lane = "Reply" =>
              /\ rel[x].lane = "Reply"
              /\ rel'[x].answers = rel[x].answers /\ rel'[x].epoch = rel[x].epoch
        /\ rel'[x].version > rel[x].version
    BY <1>10, <2>1, <2>5 DEF LegalNext
  <2>7. ASSUME answered # {}
        PROVE  /\ rel'[y].state # "Blocked"
               /\ rel'[y].answers \in DOMAIN ending
               /\ ending[rel'[y].answers] = "Accepted"
               /\ req[rel'[y].answers].relationship = Opposite[y]
               /\ req[rel'[y].answers].offer = rel'[y].epoch
               /\ rel'[y].version > rel[y].version
    BY <1>5, <1>6, <1>10, <1>11, <2>2, <2>5, <2>7
  <2> QED
    BY <2>4, <2>5, <2>6, <2>7 DEF Decides
<1> QED
  BY <1>14, <1>15, <1>16 DEF Shaped

\* relationship_decision and accept_express_lane name legal outcomes.
LEMMA OutcomesLegal ==
    ASSUME IInv, NEW x \in Relationships
    PROVE  /\ \A decision \in {"Accept", "Reject", "Block"} :
                 LegalOutcome(x, [r \in ActiveIn(x) |-> DecisionOutcome(r, decision)])
           /\ LegalOutcome(x, [r \in ActiveIn(x) |-> LaneOutcome(r)])
<1>1. \A r \in ActiveIn(x) : req[r].lifecycle \in {"Preparing", "Awaiting"}
                             /\ now \in Nat /\ req[r].deadline \in Nat
  BY RequestFields DEF ActiveIn, Active, IInv, TypeOK
<1>2. ASSUME NEW decision \in {"Accept", "Reject", "Block"}, NEW r \in ActiveIn(x)
      PROVE  LET o == DecisionOutcome(r, decision)
             IN  /\ o \in RequestSettlement
                 /\ o = "Cancelled" <=> req[r].lifecycle = "Preparing"
                 /\ o = "Rejected" => now <= req[r].deadline
                 /\ o = "Expired" => now > req[r].deadline
  BY <1>1 DEF DecisionOutcome, RequestSettlement
<1>3. ASSUME NEW r \in ActiveIn(x)
      PROVE  LET o == LaneOutcome(r)
             IN  /\ o \in RequestSettlement
                 /\ o = "Cancelled" <=> req[r].lifecycle = "Preparing"
                 /\ o # "Rejected" /\ o # "Expired"
  BY <1>1 DEF LaneOutcome, RequestSettlement
<1> QED
  BY <1>2, <1>3 DEF LegalOutcome

\* The recipient's four decisions.
LEMMA DecisionsShaped ==
    ASSUME IInv, NEW x \in Relationships,
           (\E granted \in BOOLEAN : Accept(x, granted) \/ GrantLane(x, granted))
              \/ Reject(x) \/ Block(x)
    PROVE  Shaped
<1>1. rel[x] \in Relationship
  BY RelationshipFields DEF IInv
<1>2. CASE \E granted \in BOOLEAN : Accept(x, granted)
  <2>1. LegalNext(x, [rel[x] EXCEPT !.state = "Accepted"])
    BY <1>1 DEF LegalNext, Relationship, RelationshipState
  <2> QED
    BY <1>2, <2>1, OutcomesLegal, DecisionShaped DEF Accept
<1>3. CASE \E granted \in BOOLEAN : GrantLane(x, granted)
  <2> DEFINE a == [rel[x] EXCEPT !.state = "ExpressLane"]
             b == [a EXCEPT !.lane = "Granted"]
             c == [b EXCEPT !.answers = NoRequest]
  <2>1. [rel[x] EXCEPT !.state = "ExpressLane", !.lane = "Granted", !.answers = NoRequest] = c
    BY <1>1 DEF Relationship
  <2>2. c.version = rel[x].version /\ c.lane = "Granted"
    BY <1>1 DEF Relationship
  <2>3. a \in Relationship
    BY <1>1 DEF Relationship, RelationshipState
  <2> HIDE DEF a
  <2>4. b \in Relationship
    BY <2>3 DEF Relationship
  <2> HIDE DEF b
  <2>5. c \in Relationship
    BY <2>4 DEF Relationship
  <2> HIDE DEF c
  <2>6. LegalNext(x, c)
    BY <2>2, <2>5 DEF LegalNext
  <2> QED
    BY <1>3, <2>1, <2>6, OutcomesLegal, DecisionShaped DEF GrantLane
<1>4. CASE Reject(x)
  <2>1. LegalNext(x, [rel[x] EXCEPT !.state = "Rejected"])
    BY <1>1 DEF LegalNext, Relationship, RelationshipState
  <2> QED
    BY <1>4, <2>1, OutcomesLegal, DecisionShaped DEF Reject
<1>5. CASE Block(x)
  <2> DEFINE T == Terminated(rel[x])
  <2>1. T \in Relationship /\ T.version = rel[x].version /\ T.lane = "None"
    BY <1>1, TerminatedFields
  <2> HIDE DEF T
  <2>2. LegalNext(x, [T EXCEPT !.state = "Blocked"])
    BY <2>1 DEF LegalNext, Relationship, RelationshipState
  <2> QED
    BY <1>5, <2>2, OutcomesLegal, DecisionShaped DEF Block, T
<1> QED
  BY <1>2, <1>3, <1>4, <1>5

-----------------------------------------------------------------------------
(***************************************************************************)
(* The other actions.                                                      *)
(***************************************************************************)

\* Initially there are no requests and no terms.
LEMMA InitKeeps == Init => IInv
<1> SUFFICES ASSUME Init PROVE IInv
  OBVIOUS
<1>1. /\ now = 0 /\ used = {}
      /\ \A x \in Relationships : rel[x] = [state |-> "Unknown", version |-> 0, epoch |-> 0,
                                            lane |-> "None", answers |-> NoRequest]
      /\ \A h \in Histories : hist[h] = [level |-> 0, earliest |-> 0, version |-> 0,
                                         pending |-> NoRequest]
      /\ \A q \in QuoteIds : quotes[q] = NoTerms
      /\ \A r \in Requests : /\ req[r].lifecycle = "None" /\ req[r].relationship = NoOpposite
                             /\ fin[r] = NewFinancials /\ task[r] = NoTask
  BY DEF Init
<1>2. TypeOK
  <2>1. rel \in [Relationships -> Relationship]
    BY DEF Init, Relationship, RelationshipState
  <2>2. hist \in [Histories -> RequestHistory]
    BY DEF Init, RequestHistory
  <2>3. quotes \in [QuoteIds -> RequestTerms \cup {NoTerms}]
    BY DEF Init
  <2>4. req \in [Requests -> RelationshipRequest]
    BY DEF Init, RelationshipRequest, RequestLifecycle
  <2>5. fin \in [Requests -> Financials]
    BY NewTyped DEF Init
  <2>6. task \in [Requests -> ScheduleTask]
    BY DEF Init, NoTask, ScheduleTask
  <2> QED
    BY <1>1, <2>1, <2>2, <2>3, <2>4, <2>5, <2>6 DEF TypeOK
<1>3. RequestsPlaced /\ MoneyPlaced
  BY <1>1, NewTyped DEF RequestsPlaced, MoneyPlaced
<1>4. \A x : ActiveIn(x) = {}
  BY <1>1 DEF ActiveIn, Active
<1>5. OneRequestAtATime
  BY <1>1, <1>4 DEF OneRequestAtATime, ReservationMatchesPreparation, OneActiveRequest,
                    NoCrossedRequests
<1>6. Agreement
  <2>1. NewFinancials.settlement = "None"
    BY DEF NewFinancials
  <2> QED
    BY <1>1, <2>1 DEF Agreement, LifecycleMatchesSettlement, TaskMatchesLifecycle,
                      OutcomeMatchesWindow, Submitted
<1>7. Pace
  BY <1>1 DEF Pace, TermsFollowHistory, WaitsRecorded, EscalationKept, EachLevelUsedOnce,
              SubmissionsSpaced, Submitted
<1>8. ReplyLaneStillOffered
  BY <1>1 DEF ReplyLaneStillOffered
<1> QED
  BY <1>2, <1>3, <1>5, <1>6, <1>7, <1>8 DEF IInv

\* The backoff of every level is a duration.
LEMMA BackoffTyped ==
    ASSUME NEW level \in Nat
    PROVE  BackoffFor(level) \in Nat
<1>1. Backoff \in Seq(Nat) /\ Len(Backoff) \in Nat /\ Len(Backoff) > 0
  BY PolicyAssumption
<1>2. \A i \in 1 .. Len(Backoff) : Backoff[i] \in Nat
  BY <1>1
<1>3. (IF level < Len(Backoff) THEN level + 1 ELSE Len(Backoff)) \in 1 .. Len(Backoff)
  BY <1>1
<1> QED
  BY <1>2, <1>3 DEF BackoffFor

\* The terms of a request no longer change once it was created on them.
LEMMA TermsKeep ==
    ASSUME IInv, NEW x \in Relationships, NEW q \in QuoteIds, IssueTerms(x, q)
    PROVE  IInv'
<1>1. /\ quotes[q] = NoTerms
      /\ quotes' = [quotes EXCEPT ![q] = TermsFor(x)]
      /\ now' = now /\ rel' = rel /\ hist' = hist /\ used' = used /\ req' = req
      /\ fin' = fin /\ task' = task
  BY DEF IssueTerms
<1>2. /\ TypeOK /\ RequestsPlaced /\ MoneyPlaced /\ OneRequestAtATime /\ Agreement
      /\ TermsFollowHistory /\ WaitsRecorded /\ EscalationKept /\ ReplyLaneStillOffered
  BY DEF IInv, Pace
<1> DEFINE h == HistoryOf[x]
           H == hist[h]
           t == TermsFor(x)
<1>3. /\ h \in Histories
      /\ H.level \in Nat /\ H.earliest \in Nat /\ H.version \in Nat
      /\ rel[x].version \in Nat /\ now \in Nat /\ now + QuoteLifetime \in Nat
  BY <1>2, Directions, HistoryFields, RelationshipFields, Durations DEF TypeOK
<1>4. BackoffFor(H.level + 1) \in Nat
  BY <1>3, BackoffTyped
<1>5. /\ t \in RequestTerms
      /\ t.relationship = x /\ t.histVersion = H.version
      /\ t.level = H.level /\ t.eligibility = H.earliest
  BY <1>3, <1>4 DEF TermsFor, RequestTerms
<1> HIDE DEF t, H, h
<1>6. /\ quotes' \in [QuoteIds -> RequestTerms \cup {NoTerms}]
      /\ quotes'[q] = t /\ \A p \in QuoteIds \ {q} : quotes'[p] = quotes[p]
  BY <1>1, <1>2, <1>5 DEF t, TypeOK
<1>7. TypeOK'
  BY <1>1, <1>2, <1>6 DEF TypeOK
<1>8. q \notin used /\ used \subseteq QuoteIds
  BY <1>1, <1>2 DEF RequestsPlaced, TypeOK
<1>9. \A p \in used : quotes'[p] = quotes[p]
  BY <1>6, <1>8
<1>10. \A r \in Requests : req[r].lifecycle # "None" =>
          req[r].quote \in used /\ quotes'[req[r].quote] = quotes[req[r].quote]
  BY <1>2, <1>9 DEF RequestsPlaced
<1>11. RequestsPlaced' /\ MoneyPlaced'
  BY <1>1, <1>2, <1>9, <1>10 DEF RequestsPlaced, MoneyPlaced
<1>12. OneRequestAtATime'
  <2>1. \A z : ActiveIn(z)' = ActiveIn(z)
    BY <1>1 DEF ActiveIn, Active
  <2>2. OneActiveRequest' /\ NoCrossedRequests'
    BY <1>1, <1>2, <2>1
    DEF OneRequestAtATime, OneActiveRequest, NoCrossedRequests, AwaitsDecision
  <2>3. ReservationMatchesPreparation'
    BY <1>1, <1>2 DEF OneRequestAtATime, ReservationMatchesPreparation, HistoryOfRequest
  <2> QED
    BY <2>2, <2>3 DEF OneRequestAtATime
<1>13. Agreement'
  BY <1>1, <1>2
  DEF Agreement, LifecycleMatchesSettlement, TaskMatchesLifecycle, OutcomeMatchesWindow, Submitted
<1>14. TermsFollowHistory'
  <2> SUFFICES ASSUME NEW p \in QuoteIds, quotes'[p] # NoTerms
               PROVE  LET s == quotes'[p]
                          G == hist[HistoryOf[s.relationship]]
                      IN  /\ s.histVersion <= G.version
                          /\ s.histVersion = G.version =>
                                s.level = G.level /\ s.eligibility = G.earliest
    BY <1>1 DEF TermsFollowHistory
  <2>1. CASE p = q
    <3>1. quotes'[p] = t
      BY <1>6, <2>1
    <3>2. hist[HistoryOf[t.relationship]] = H
      BY <1>5 DEF H, h
    <3> QED
      BY <1>3, <1>5, <3>1, <3>2
  <2>2. CASE p # q
    BY <1>2, <1>6, <2>2 DEF TermsFollowHistory
  <2> QED
    BY <2>1, <2>2
<1>15. \A r \in Requests : /\ Submitted(r)' <=> Submitted(r)
                           /\ Submitted(r) => quotes'[req[r].quote] = quotes[req[r].quote]
  BY <1>1, <1>10 DEF Submitted
<1>16. WaitsRecorded'
  BY <1>1, <1>2, <1>15 DEF WaitsRecorded, HistoryOfRequest
<1>17. EscalationKept'
  <2>1. EachLevelUsedOnce'
    BY <1>1, <1>2, <1>15 DEF EscalationKept, EachLevelUsedOnce, HistoryOfRequest
  <2>2. SubmissionsSpaced'
    BY <1>1, <1>2, <1>15 DEF EscalationKept, SubmissionsSpaced, HistoryOfRequest
  <2> QED
    BY <2>1, <2>2 DEF EscalationKept
<1>18. ReplyLaneStillOffered'
  BY <1>1, <1>2 DEF ReplyLaneStillOffered
<1> QED
  BY <1>7, <1>11, <1>12, <1>13, <1>14, <1>16, <1>17, <1>18 DEF IInv, Pace

\* Time only takes decisions away.
LEMMA TickKeeps ==
    ASSUME IInv, Tick
    PROVE  IInv'
<1>1. /\ now' = now + 1 /\ rel' = rel /\ hist' = hist /\ quotes' = quotes /\ used' = used
      /\ req' = req /\ fin' = fin /\ task' = task
  BY DEF Tick
<1>2. /\ TypeOK /\ RequestsPlaced /\ MoneyPlaced /\ OneRequestAtATime /\ Agreement
      /\ TermsFollowHistory /\ WaitsRecorded /\ EscalationKept /\ ReplyLaneStillOffered
  BY DEF IInv, Pace
<1>3. TypeOK'
  BY <1>1, <1>2 DEF TypeOK
<1>4. RequestsPlaced' /\ MoneyPlaced' /\ TermsFollowHistory' /\ ReplyLaneStillOffered'
  BY <1>1, <1>2 DEF RequestsPlaced, MoneyPlaced, TermsFollowHistory, ReplyLaneStillOffered
<1>5. \A r \in Requests : req[r].deadline \in Nat /\ req[r].at \in Nat /\ req[r].decided \in Nat
                          /\ now \in Nat
  BY <1>2, RequestFields DEF TypeOK
<1>6. OneRequestAtATime'
  <2>1. \A z : ActiveIn(z)' = ActiveIn(z)
    BY <1>1 DEF ActiveIn, Active
  <2>2. ReservationMatchesPreparation' /\ OneActiveRequest'
    BY <1>1, <1>2, <2>1
    DEF OneRequestAtATime, ReservationMatchesPreparation, OneActiveRequest, HistoryOfRequest
  <2>3. \A r \in Requests : AwaitsDecision(r)' => AwaitsDecision(r)
    BY <1>1, <1>5 DEF AwaitsDecision
  <2>4. NoCrossedRequests'
    BY <1>1, <1>2, <1>5, <2>1, <2>3 DEF OneRequestAtATime, NoCrossedRequests
  <2> QED
    BY <2>2, <2>4 DEF OneRequestAtATime
<1>7. Agreement'
  BY <1>1, <1>2
  DEF Agreement, LifecycleMatchesSettlement, TaskMatchesLifecycle, OutcomeMatchesWindow, Submitted
<1>8. \A r \in Requests : Submitted(r)' <=> Submitted(r)
  BY <1>1 DEF Submitted
<1>9. WaitsRecorded'
  BY <1>1, <1>2, <1>5, <1>8 DEF WaitsRecorded, HistoryOfRequest
<1>10. EscalationKept'
  BY <1>1, <1>2, <1>8 DEF EscalationKept, EachLevelUsedOnce, SubmissionsSpaced, HistoryOfRequest
<1> QED
  BY <1>3, <1>4, <1>6, <1>7, <1>9, <1>10 DEF IInv, Pace

\* A creation reserves its history, which nobody held.
LEMMA CreateKeeps ==
    ASSUME IInv, NEW r \in Requests, NEW q \in QuoteIds, CreateRequest(r, q)
    PROVE  IInv'
<1> DEFINE t == quotes[q]
           x == t.relationship
           h == HistoryOf[x]
           deadline == now + SubmissionWindow
           n == [req[r] EXCEPT !.relationship = x, !.quote = q, !.lifecycle = "Preparing",
                               !.deadline = deadline]
<1>1. /\ TypeOK /\ RequestsPlaced /\ MoneyPlaced
      /\ ReservationMatchesPreparation /\ OneActiveRequest /\ NoCrossedRequests
      /\ LifecycleMatchesSettlement /\ TaskMatchesLifecycle /\ OutcomeMatchesWindow
      /\ TermsFollowHistory /\ WaitsRecorded /\ EachLevelUsedOnce /\ SubmissionsSpaced
      /\ ReplyLaneStillOffered
  BY DEF IInv, Pace, Agreement, OneRequestAtATime, EscalationKept
<1>2. /\ t # NoTerms
      /\ ~OppositePending(x)
      /\ rel[x].state # "Blocked"
      /\ req[r].lifecycle = "None"
      /\ ActiveIn(x) = {} /\ hist[h].pending = NoRequest
      /\ hist' = [hist EXCEPT ![h].pending = r]
      /\ used' = used \cup {q}
      /\ fin' = [fin EXCEPT ![r] = NewFinancials]
      /\ req' = [req EXCEPT ![r] = n]
      /\ task' = [task EXCEPT ![r] = [kind |-> "SubmissionTimeout", at |-> deadline]]
      /\ now' = now /\ rel' = rel /\ quotes' = quotes
  BY DEF CreateRequest, RequestExists
<1>3. t \in RequestTerms /\ x \in Relationships /\ h \in Histories /\ deadline \in Nat
  <2>1. t \in RequestTerms /\ now \in Nat
    BY <1>1, <1>2 DEF TypeOK
  <2> QED
    BY <2>1, Directions, Durations DEF RequestTerms
<1>4. req[r] \in RelationshipRequest
  BY <1>1, RequestFields
<1>5. /\ n.relationship = x /\ n.quote = q /\ n.lifecycle = "Preparing" /\ n.deadline = deadline
      /\ n.at = req[r].at /\ n.decided = req[r].decided /\ n.offer = req[r].offer
      /\ n.version = req[r].version
  BY <1>4 DEF RelationshipRequest
<1>6. n \in RelationshipRequest
  <2> DEFINE a == [req[r] EXCEPT !.relationship = x]
             b == [a EXCEPT !.quote = q]
             c == [b EXCEPT !.lifecycle = "Preparing"]
             d == [c EXCEPT !.deadline = deadline]
  <2>1. n = d
    BY <1>4 DEF RelationshipRequest
  <2>2. a \in RelationshipRequest
    BY <1>3, <1>4 DEF RelationshipRequest
  <2> HIDE DEF a
  <2>3. b \in RelationshipRequest
    BY <2>2 DEF RelationshipRequest
  <2> HIDE DEF b
  <2>4. c \in RelationshipRequest
    BY <2>3 DEF RelationshipRequest, RequestLifecycle
  <2> HIDE DEF c
  <2>5. d \in RelationshipRequest
    BY <1>3, <2>4 DEF RelationshipRequest
  <2> QED
    BY <2>1, <2>5
<1> HIDE DEF n, deadline
<1>7. /\ req' \in [Requests -> RelationshipRequest]
      /\ req'[r] = n /\ \A s \in Requests \ {r} : req'[s] = req[s]
  BY <1>1, <1>2, <1>6 DEF TypeOK
<1>8. /\ hist' \in [Histories -> RequestHistory]
      /\ hist'[h].pending = r /\ \A g \in Histories \ {h} : hist'[g].pending = hist[g].pending
      /\ \A g \in Histories : /\ hist'[g].level = hist[g].level
                              /\ hist'[g].earliest = hist[g].earliest
                              /\ hist'[g].version = hist[g].version
  <2>1. hist[h] \in RequestHistory /\ hist \in [Histories -> RequestHistory]
    BY <1>1, <1>3, HistoryFields DEF TypeOK
  <2>2. LET G == [hist[h] EXCEPT !.pending = r]
        IN  G \in RequestHistory /\ G.pending = r /\ G.level = hist[h].level
            /\ G.earliest = hist[h].earliest /\ G.version = hist[h].version
    BY <2>1 DEF RequestHistory
  <2>3. hist' = [hist EXCEPT ![h] = [hist[h] EXCEPT !.pending = r]]
    BY <1>2
  <2> QED
    BY <1>3, <2>1, <2>2, <2>3
<1> HIDE DEF h, x, t
<1>9. TypeOK'
  <2>1. task' \in [Requests -> ScheduleTask]
    BY <1>1, <1>2, <1>3 DEF TypeOK, ScheduleTask
  <2>2. fin' \in [Requests -> Financials]
    BY <1>1, <1>2, NewTyped DEF TypeOK
  <2> QED
    BY <1>1, <1>2, <1>7, <1>8, <2>1, <2>2 DEF TypeOK
<1>10. RequestsPlaced'
  <2>1. \A p \in used' : quotes'[p] # NoTerms
    BY <1>1, <1>2 DEF RequestsPlaced, t
  <2>2. ASSUME NEW s \in Requests, req'[s].lifecycle # "None"
        PROVE  /\ req'[s].relationship \in Relationships
               /\ req'[s].quote \in used'
               /\ quotes'[req'[s].quote].relationship = req'[s].relationship
    <3>1. CASE s = r
      BY <1>2, <1>3, <1>5, <1>7, <3>1 DEF x, t
    <3>2. CASE s # r
      BY <1>1, <1>2, <1>7, <2>2, <3>2 DEF RequestsPlaced
    <3> QED
      BY <3>1, <3>2
  <2> QED
    BY <2>1, <2>2 DEF RequestsPlaced
<1>11. fin' = fin
  BY <1>1, <1>2 DEF MoneyPlaced, TypeOK
<1>12. MoneyPlaced' /\ LifecycleMatchesSettlement'
  <2>1. fin[r].settlement = "None"
    BY <1>1, <1>2 DEF LifecycleMatchesSettlement
  <2> QED
    BY <1>1, <1>5, <1>7, <1>11, <2>1 DEF MoneyPlaced, LifecycleMatchesSettlement, Submitted
<1>13. ReservationMatchesPreparation'
  <2>1. ASSUME NEW g \in Histories, hist'[g].pending # NoRequest
        PROVE  /\ req'[hist'[g].pending].lifecycle = "Preparing"
               /\ HistoryOf[req'[hist'[g].pending].relationship] = g
    <3>1. CASE g = h
      BY <1>5, <1>7, <1>8, <3>1 DEF h
    <3>2. CASE g # h
      <4> DEFINE p == hist[g].pending
      <4>1. hist'[g].pending = p /\ p # NoRequest /\ p \in Requests
        BY <1>1, <1>8, <2>1, <3>2, HistoryFields
      <4>2. req[p].lifecycle = "Preparing" /\ HistoryOf[req[p].relationship] = g
        BY <1>1, <4>1 DEF ReservationMatchesPreparation, HistoryOfRequest
      <4>3. p # r
        BY <1>2, <4>2
      <4> QED
        BY <1>7, <4>1, <4>2, <4>3
    <3> QED
      BY <3>1, <3>2
  <2>2. ASSUME NEW s \in Requests, req'[s].lifecycle = "Preparing"
        PROVE  hist'[HistoryOf[req'[s].relationship]].pending = s
    <3>1. CASE s = r
      BY <1>5, <1>7, <1>8, <3>1 DEF h
    <3>2. CASE s # r
      <4>1. req[s].lifecycle = "Preparing" /\ req'[s] = req[s]
        BY <1>7, <2>2, <3>2
      <4>2. /\ HistoryOf[req[s].relationship] \in Histories
            /\ hist[HistoryOf[req[s].relationship]].pending = s
        BY <1>1, <4>1, TermsFields DEF ReservationMatchesPreparation, HistoryOfRequest
      <4>3. HistoryOf[req[s].relationship] # h
        BY <1>2, <4>2, Durations
      <4> QED
        BY <1>8, <4>1, <4>2, <4>3
    <3> QED
      BY <3>1, <3>2
  <2> QED
    BY <2>1, <2>2 DEF ReservationMatchesPreparation, HistoryOfRequest
<1>14. \A z : ActiveIn(z)' = IF z = x THEN {r} ELSE ActiveIn(z)
  BY <1>2, <1>5, <1>7 DEF ActiveIn, Active
<1>15. OneActiveRequest'
  BY <1>1, <1>2, <1>3, <1>14 DEF OneActiveRequest
<1>16. NoCrossedRequests'
  <2> SUFFICES ASSUME NEW s \in Requests, NEW p \in Requests, AwaitsDecision(s)',
                      req'[p].relationship = Opposite[req'[s].relationship],
                      req'[p].lifecycle \in {"Preparing", "Awaiting"}
               PROVE  req'[p].lifecycle = "Awaiting" /\ now > req'[p].deadline
    <3>1. now' = now
      BY <1>2
    <3> QED
      BY <3>1 DEF NoCrossedRequests, ActiveIn, Active
  <2>1. s # r /\ req'[s] = req[s] /\ AwaitsDecision(s)
    BY <1>2, <1>5, <1>7 DEF AwaitsDecision
  <2>2. req[s].relationship \in Relationships
    BY <1>1, <2>1 DEF RequestsPlaced, AwaitsDecision
  <2>3. p # r
    <3> SUFFICES ASSUME p = r PROVE FALSE
      OBVIOUS
    <3>1. Opposite[req[s].relationship] = x
      BY <1>5, <1>7, <2>1
    <3>2. Opposite[x] = req[s].relationship /\ Opposite[x] # NoOpposite
      BY <1>3, <2>2, <3>1, Directions
    <3>3. s \in ActiveIn(Opposite[x])
      BY <2>1, <3>2 DEF ActiveIn, Active, AwaitsDecision
    <3> QED
      BY <1>2, <2>1, <3>2, <3>3 DEF OppositePending
  <2>4. req'[p] = req[p]
    BY <1>7, <2>3
  <2>5. p \in ActiveIn(Opposite[req[s].relationship])
    BY <2>1, <2>4 DEF ActiveIn, Active
  <2> QED
    BY <1>1, <2>1, <2>4, <2>5 DEF NoCrossedRequests
<1>17. TaskMatchesLifecycle' /\ OutcomeMatchesWindow'
  <2>1. task'[r] = [kind |-> "SubmissionTimeout", at |-> deadline]
        /\ \A s \in Requests \ {r} : task'[s] = task[s]
    BY <1>1, <1>2 DEF TypeOK
  <2>2. TaskMatchesLifecycle'
    BY <1>1, <1>5, <1>7, <2>1 DEF TaskMatchesLifecycle
  <2>3. OutcomeMatchesWindow'
    BY <1>1, <1>5, <1>7 DEF OutcomeMatchesWindow
  <2> QED
    BY <2>2, <2>3
<1>18. \A s \in Requests : Submitted(s)' => Submitted(s) /\ s # r /\ req'[s] = req[s]
                                            /\ HistoryOf[req[s].relationship] \in Histories
  <2>1. ASSUME NEW s \in Requests, Submitted(s)'
        PROVE  Submitted(s) /\ s # r /\ req'[s] = req[s]
    BY <1>5, <1>7, <2>1 DEF Submitted
  <2> QED
    BY <1>1, <2>1, TermsFields DEF Submitted, HistoryOfRequest
<1>19. TermsFollowHistory'
  <2> SUFFICES ASSUME NEW p \in QuoteIds, quotes[p] # NoTerms
               PROVE  LET s == quotes[p]
                          H == hist'[HistoryOf[s.relationship]]
                      IN  /\ s.histVersion <= H.version
                          /\ s.histVersion = H.version =>
                                s.level = H.level /\ s.eligibility = H.earliest
    BY <1>2 DEF TermsFollowHistory
  <2>1. HistoryOf[quotes[p].relationship] \in Histories
    <3>1. quotes[p] \in RequestTerms
      BY <1>1 DEF TypeOK
    <3> QED
      BY <3>1, Directions DEF RequestTerms
  <2> QED
    BY <1>1, <1>8, <2>1 DEF TermsFollowHistory
<1>20. WaitsRecorded'
  BY <1>1, <1>2, <1>8, <1>18 DEF WaitsRecorded, HistoryOfRequest
<1>21. EscalationKept'
  <2>1. EachLevelUsedOnce'
    BY <1>1, <1>2, <1>8, <1>18 DEF EachLevelUsedOnce, HistoryOfRequest
  <2>2. SubmissionsSpaced'
    BY <1>1, <1>2, <1>18 DEF SubmissionsSpaced, HistoryOfRequest
  <2> QED
    BY <2>1, <2>2 DEF EscalationKept
<1>22. ReplyLaneStillOffered'
  <2> SUFFICES ASSUME NEW z \in Relationships, rel[z].lane = "Reply"
               PROVE  LET s == rel[z].answers
                      IN  /\ s \in Requests
                          /\ req'[s].relationship = Opposite[z]
                          /\ req'[s].lifecycle = "Accepted"
                          /\ req'[s].offer = rel[z].epoch
    BY <1>2 DEF ReplyLaneStillOffered
  <2>1. rel[z].answers \in Requests /\ req[rel[z].answers].lifecycle = "Accepted"
    BY <1>1 DEF ReplyLaneStillOffered
  <2>2. req'[rel[z].answers] = req[rel[z].answers]
    BY <1>2, <1>7, <2>1
  <2> QED
    BY <1>1, <2>1, <2>2 DEF ReplyLaneStillOffered
<1> QED
  BY <1>9, <1>10, <1>12, <1>13, <1>15, <1>16, <1>17, <1>19, <1>20, <1>21, <1>22
  DEF IInv, Pace, Agreement, OneRequestAtATime

\* The record of a request delivered to its recipient.
LEMMA DeliveredFields ==
    ASSUME TypeOK, NEW r \in Requests, req[r].relationship \in Relationships, NEW deadline \in Nat
    PROVE  LET n == Delivered(r, deadline)
           IN  /\ n \in RelationshipRequest
               /\ n.lifecycle = "Awaiting" /\ n.at = now /\ n.deadline = deadline
               /\ n.version = req[r].version + 1
               /\ n.relationship = req[r].relationship /\ n.quote = req[r].quote
               /\ n.decided = req[r].decided
<1> DEFINE y == Opposite[req[r].relationship]
           offer == IF y = NoOpposite THEN 0 ELSE rel[y].epoch
           a == [req[r] EXCEPT !.lifecycle = "Awaiting"]
           b == [a EXCEPT !.at = now]
           c == [b EXCEPT !.deadline = deadline]
           d == [c EXCEPT !.version = req[r].version + 1]
           n == [d EXCEPT !.offer = offer]
<1>1. req[r] \in RelationshipRequest /\ req[r].version \in Nat /\ now \in Nat
  BY RequestFields DEF TypeOK
<1>2. offer \in Nat
  BY Directions, RelationshipFields
<1> HIDE DEF offer
<1>3. Delivered(r, deadline) = n
  BY <1>1 DEF Delivered, offer, RelationshipRequest
<1>4. /\ n.lifecycle = "Awaiting" /\ n.at = now /\ n.deadline = deadline
      /\ n.version = req[r].version + 1
      /\ n.relationship = req[r].relationship /\ n.quote = req[r].quote
      /\ n.decided = req[r].decided
  BY <1>1 DEF RelationshipRequest
<1>5. a \in RelationshipRequest
  BY <1>1 DEF RelationshipRequest, RequestLifecycle
<1> HIDE DEF a
<1>6. b \in RelationshipRequest
  BY <1>1, <1>5 DEF RelationshipRequest
<1> HIDE DEF b
<1>7. c \in RelationshipRequest
  BY <1>6 DEF RelationshipRequest
<1> HIDE DEF c
<1>8. d \in RelationshipRequest
  BY <1>1, <1>7 DEF RelationshipRequest
<1> HIDE DEF d
<1>9. n \in RelationshipRequest
  BY <1>2, <1>8 DEF RelationshipRequest
<1> QED
  BY <1>3, <1>4, <1>9

\* RequestHistory::record_submission.
LEMMA RecordedFields ==
    ASSUME TypeOK, NEW H \in RequestHistory, NEW backoff \in Nat
    PROVE  LET n == RecordSubmission(H, backoff)
           IN  /\ n \in RequestHistory
               /\ n.level = H.level + 1 /\ n.pending = NoRequest
               /\ n.version = H.version + 1 /\ n.version > H.version
               /\ n.earliest >= H.earliest /\ n.earliest >= now + backoff
<1> DEFINE E == ExtendCooldown(H, now, backoff)
           a == [E EXCEPT !.level = E.level + 1]
           b == [a EXCEPT !.pending = NoRequest]
<1>1. /\ E \in RequestHistory /\ E.level = H.level
      /\ E.version = H.version + 1 /\ E.version > H.version
      /\ E.earliest >= H.earliest /\ E.earliest >= now + backoff
  BY ExtendedFields DEF TypeOK
<1>2. RecordSubmission(H, backoff) = b
  <2>1. RecordSubmission(H, backoff) = [E EXCEPT !.level = @ + 1, !.pending = NoRequest]
    BY DEF RecordSubmission
  <2> HIDE DEF E
  <2> QED
    BY <1>1, <2>1 DEF RequestHistory
<1> HIDE DEF E
<1>3. /\ b.level = H.level + 1 /\ b.pending = NoRequest
      /\ b.version = E.version /\ b.earliest = E.earliest
  BY <1>1 DEF RequestHistory
<1>4. a \in RequestHistory
  BY <1>1 DEF RequestHistory
<1> HIDE DEF a
<1>5. b \in RequestHistory
  BY <1>4 DEF RequestHistory
<1> QED
  BY <1>1, <1>2, <1>3, <1>5

\* What a submission does, field by field: r is delivered, the preparation it
\* supersedes is cancelled, and nothing else changes.
SubmitStep(r, S) ==
    LET x == req[r].relationship
        h == HistoryOf[x]
    IN  /\ x \in Relationships /\ h \in Histories
        /\ S = Superseded(x) /\ S \subseteq Requests /\ r \notin S
        /\ req[r].lifecycle = "Preparing" /\ ~OppositePending(x)
        /\ FundingFinalized(fin[r])
        /\ hist[h].pending = r
        /\ quotes[req[r].quote].level = hist[h].level
        /\ now >= hist[h].earliest
        /\ UNCHANGED <<now, rel, quotes, used>>
        /\ req' \in [Requests -> RelationshipRequest]
        /\ task' \in [Requests -> ScheduleTask]
        /\ hist' \in [Histories -> RequestHistory]
        /\ /\ req'[r].lifecycle = "Awaiting" /\ req'[r].at = now
           /\ req'[r].deadline = now + DecisionWindow
           /\ req'[r].version = req[r].version + 1
           /\ req'[r].relationship = x /\ req'[r].quote = req[r].quote
           /\ task'[r] = [kind |-> "RequestExpiry", at |-> now + DecisionWindow]
        /\ \A s \in S :
              /\ req[s].lifecycle = "Preparing" /\ HistoryOfRequest(s) \in Histories \ {h}
              /\ req'[s].lifecycle = "Cancelled" /\ req'[s].relationship = req[s].relationship
              /\ req'[s].quote = req[s].quote /\ req'[s].version = req[s].version + 1
              /\ req'[s].deadline = req[s].deadline
              /\ task'[s] = NoTask
              /\ CanSettle(fin[s], "Cancelled")
        /\ \A s \in Requests \ S : s # r => req'[s] = req[s] /\ task'[s] = task[s]
        /\ /\ hist'[h].level = hist[h].level + 1 /\ hist'[h].pending = NoRequest
           /\ hist'[h].version > hist[h].version
           /\ hist'[h].earliest >= hist[h].earliest
           /\ hist'[h].earliest >= now + quotes[req[r].quote].backoff
        /\ \A g \in Histories \ {h} :
              /\ hist'[g].level = hist[g].level
              /\ hist'[g].earliest >= hist[g].earliest
              /\ hist'[g].version >= hist[g].version
              /\ hist'[g].version = hist[g].version => hist'[g].earliest = hist[g].earliest
              /\ hist'[g].pending = IF hist[g].pending \in S THEN NoRequest ELSE hist[g].pending
        /\ fin' = [s \in Requests |-> IF s \in S THEN Settle(s, fin[s], "Cancelled") ELSE fin[s]]

LEMMA SubmitSteps ==
    ASSUME IInv, NEW r \in Requests, Submit(r)
    PROVE  SubmitStep(r, Superseded(req[r].relationship))
<1> DEFINE x == req[r].relationship
           h == HistoryOf[x]
           t == quotes[req[r].quote]
           S == Superseded(x)
           ending == [o \in S |-> "Cancelled"]
           deadline == now + DecisionWindow
           CR == CloseRequests(ending)
           CH == CloseHistories(ending)
           CT == CloseTasks(ending)
<1>1. /\ TypeOK /\ RequestsPlaced /\ OneActiveRequest /\ ReservationMatchesPreparation
      /\ TermsFollowHistory
  BY DEF IInv, Pace, OneRequestAtATime
<1>2. /\ req[r].lifecycle = "Preparing" /\ ~OppositePending(x)
      /\ ~SubmissionFails(r, FALSE) /\ SubmissionAuthorized(r)
      /\ \A o \in S : CanSettle(fin[o], "Cancelled")
      /\ req' = [CR EXCEPT ![r] = Delivered(r, deadline)]
      /\ hist' = [CH EXCEPT ![h] = RecordSubmission(CH[h], t.backoff)]
      /\ task' = [CT EXCEPT ![r] = [kind |-> "RequestExpiry", at |-> deadline]]
      /\ fin' = CloseFinancials(ending)
      /\ UNCHANGED <<now, rel, quotes, used>>
  BY DEF Submit, CanAttemptSubmission
<1>3. /\ x \in Relationships /\ h \in Histories /\ t \in RequestTerms /\ t.relationship = x
      /\ t # NoTerms /\ req[r].quote \in QuoteIds
      /\ t.backoff \in Nat /\ t.histVersion \in Nat /\ t.level \in Nat
  BY <1>1, <1>2, TermsFields DEF HistoryOfRequest
<1>4. now \in Nat /\ deadline \in Nat /\ hist[h] \in RequestHistory /\ hist[h].earliest \in Nat
      /\ hist[h].version \in Nat
  BY <1>1, <1>3, HistoryFields, Durations DEF TypeOK
<1>5. /\ t.histVersion = hist[h].version /\ now >= hist[h].earliest
      /\ FundingFinalized(fin[r]) /\ hist[h].pending = r
  BY <1>2, <1>4 DEF SubmissionFails, SubmissionAuthorized, HistoryOfRequest
<1>6. t.level = hist[h].level
  BY <1>1, <1>3, <1>5 DEF TermsFollowHistory
<1>7. S \subseteq Requests /\ \A s \in S :
         /\ Opposite[x] # NoOpposite /\ req[s].relationship = Opposite[x]
         /\ req[s].lifecycle = "Preparing" /\ s \in ActiveIn(Opposite[x])
  BY DEF Superseded, PreparingIn, ActiveIn
<1>8. \A s \in S : HistoryOfRequest(s) \in Histories \ {h} /\ s # r
  BY <1>3, <1>7, Directions DEF HistoryOfRequest
<1>9. \A s, o \in S : s = o
  BY <1>1, <1>3, <1>7, Directions DEF OneActiveRequest
<1> HIDE DEF S
<1>10. DOMAIN ending = S /\ \A s \in S : ending[s] = "Cancelled"
  OBVIOUS
<1> HIDE DEF ending
<1>11. LegalEnding(ending)
  BY <1>7, <1>9, <1>10 DEF LegalEnding, Active, RequestSettlement
<1>12. Delivered(r, deadline) \in RelationshipRequest
       /\ Delivered(r, deadline).lifecycle = "Awaiting" /\ Delivered(r, deadline).at = now
       /\ Delivered(r, deadline).deadline = deadline
       /\ Delivered(r, deadline).version = req[r].version + 1
       /\ Delivered(r, deadline).relationship = x
       /\ Delivered(r, deadline).quote = req[r].quote
  BY <1>1, <1>3, <1>4, DeliveredFields
<1>13. \A s \in Requests :
          /\ CR[s] \in RelationshipRequest
          /\ CR[s].relationship = req[s].relationship /\ CR[s].quote = req[s].quote
          /\ CR[s].deadline = req[s].deadline
          /\ s \notin S => CR[s] = req[s]
          /\ s \in S => CR[s].lifecycle = "Cancelled" /\ CR[s].version = req[s].version + 1
  BY <1>1, <1>10, <1>11, CloseRequestsFields
<1>14. CR = [s \in Requests |-> CR[s]]
  BY DEF CloseRequests
<1> HIDE DEF CR, deadline
<1>15. /\ req' \in [Requests -> RelationshipRequest]
       /\ req'[r] = Delivered(r, deadline)
       /\ \A s \in Requests \ {r} : req'[s] = CR[s]
  <2>1. CR \in [Requests -> RelationshipRequest]
    BY <1>13, <1>14
  <2> HIDE DEF x, h, t
  <2> QED
    BY <1>2, <1>12, <2>1
<1>16. \A g \in Histories :
          /\ CH[g] \in RequestHistory
          /\ CH[g].level = hist[g].level
          /\ CH[g].earliest >= hist[g].earliest
          /\ CH[g].version >= hist[g].version
          /\ CH[g].version = hist[g].version => CH[g].earliest = hist[g].earliest
          /\ CH[g].pending = IF hist[g].pending \in S THEN NoRequest ELSE hist[g].pending
  BY <1>1, <1>10, <1>11, CloseHistoriesFields
<1>17. CH[h] = hist[h]
  BY <1>3, <1>8, <1>10, <1>11, CloseHistoriesCases
<1>18. CH = [g \in Histories |-> CH[g]]
  BY DEF CloseHistories
<1> HIDE DEF CH
<1>19. LET G == RecordSubmission(hist[h], t.backoff)
       IN  /\ G \in RequestHistory
           /\ G.level = hist[h].level + 1 /\ G.pending = NoRequest
           /\ G.version > hist[h].version
           /\ G.earliest >= hist[h].earliest /\ G.earliest >= now + t.backoff
  BY <1>1, <1>3, <1>4, RecordedFields
<1> HIDE DEF h, t
<1>20. /\ hist' \in [Histories -> RequestHistory]
       /\ hist'[h] = RecordSubmission(hist[h], t.backoff)
       /\ \A g \in Histories \ {h} : hist'[g] = CH[g]
  <2>1. CH \in [Histories -> RequestHistory]
    BY <1>16, <1>18
  <2>2. hist' = [CH EXCEPT ![h] = RecordSubmission(hist[h], t.backoff)]
    BY <1>2, <1>17
  <2> QED
    BY <1>3, <1>19, <2>1, <2>2
<1>21. /\ task' \in [Requests -> ScheduleTask]
       /\ task'[r] = [kind |-> "RequestExpiry", at |-> deadline]
       /\ \A s \in S : task'[s] = NoTask
       /\ \A s \in Requests \ S : s # r => task'[s] = task[s]
  <2>1. CT = [s \in Requests |-> IF s \in S THEN NoTask ELSE task[s]]
    BY <1>10 DEF CloseTasks
  <2> HIDE DEF CT
  <2>2. task' = [s \in Requests |-> IF s = r THEN [kind |-> "RequestExpiry", at |-> deadline]
                                    ELSE IF s \in S THEN NoTask ELSE task[s]]
    BY <1>2, <2>1
  <2>3. NoTask \in ScheduleTask /\ [kind |-> "RequestExpiry", at |-> deadline] \in ScheduleTask
    BY <1>4 DEF NoTask, ScheduleTask
  <2>4. task \in [Requests -> ScheduleTask]
    BY <1>1 DEF TypeOK
  <2>5. task' \in [Requests -> ScheduleTask]
    BY <2>2, <2>3, <2>4
  <2> QED
    BY <1>7, <1>8, <2>2, <2>5
<1>22. fin' = [s \in Requests |-> IF s \in S THEN Settle(s, fin[s], "Cancelled") ELSE fin[s]]
  BY <1>2, <1>10 DEF CloseFinancials
<1>23. \A s \in S :
          /\ req[s].lifecycle = "Preparing" /\ HistoryOfRequest(s) \in Histories \ {h}
          /\ req'[s].lifecycle = "Cancelled" /\ req'[s].relationship = req[s].relationship
          /\ req'[s].quote = req[s].quote /\ req'[s].version = req[s].version + 1
          /\ req'[s].deadline = req[s].deadline
          /\ task'[s] = NoTask
          /\ CanSettle(fin[s], "Cancelled")
  BY <1>2, <1>7, <1>8, <1>13, <1>15, <1>21
<1>24. \A s \in Requests \ S : s # r => req'[s] = req[s] /\ task'[s] = task[s]
  BY <1>13, <1>15, <1>21
<1>25. \A g \in Histories \ {h} :
          /\ hist'[g].level = hist[g].level
          /\ hist'[g].earliest >= hist[g].earliest
          /\ hist'[g].version >= hist[g].version
          /\ hist'[g].version = hist[g].version => hist'[g].earliest = hist[g].earliest
          /\ hist'[g].pending = IF hist[g].pending \in S THEN NoRequest ELSE hist[g].pending
  BY <1>16, <1>20
<1>26. /\ hist'[h].level = hist[h].level + 1 /\ hist'[h].pending = NoRequest
       /\ hist'[h].version > hist[h].version
       /\ hist'[h].earliest >= hist[h].earliest
       /\ hist'[h].earliest >= now + t.backoff
  BY <1>19, <1>20
<1>27. r \notin S
  BY <1>8
<1> QED
  BY <1>2, <1>3, <1>5, <1>6, <1>7, <1>12, <1>15, <1>20, <1>21, <1>22, <1>23, <1>24, <1>25,
     <1>26, <1>27
  DEF SubmitStep, S, h, t, deadline

\* A submission keeps everything.
LEMMA SubmitKeeps ==
    ASSUME IInv, NEW r \in Requests, Submit(r)
    PROVE  IInv'
<1> DEFINE x == req[r].relationship
           h == HistoryOf[x]
           t == quotes[req[r].quote]
           S == Superseded(x)
<1>1. /\ TypeOK /\ RequestsPlaced /\ MoneyPlaced
      /\ ReservationMatchesPreparation /\ OneActiveRequest /\ NoCrossedRequests
      /\ LifecycleMatchesSettlement /\ TaskMatchesLifecycle /\ OutcomeMatchesWindow
      /\ TermsFollowHistory /\ WaitsRecorded /\ EachLevelUsedOnce /\ SubmissionsSpaced
      /\ ReplyLaneStillOffered
  BY DEF IInv, Pace, Agreement, OneRequestAtATime, EscalationKept
<1>2. SubmitStep(r, S)
  BY SubmitSteps
<1>3. /\ x \in Relationships /\ h \in Histories
      /\ S \subseteq Requests /\ r \notin S
      /\ S = IF Opposite[x] = NoOpposite THEN {} ELSE PreparingIn(Opposite[x])
      /\ req[r].lifecycle = "Preparing" /\ ~OppositePending(x)
      /\ FundingFinalized(fin[r]) /\ hist[h].pending = r
      /\ t.level = hist[h].level /\ now >= hist[h].earliest
      /\ now' = now /\ rel' = rel /\ quotes' = quotes /\ used' = used
      /\ req' \in [Requests -> RelationshipRequest]
      /\ task' \in [Requests -> ScheduleTask]
      /\ hist' \in [Histories -> RequestHistory]
  BY <1>2 DEF SubmitStep, Superseded
<1>4. /\ req'[r].lifecycle = "Awaiting" /\ req'[r].at = now
      /\ req'[r].deadline = now + DecisionWindow
      /\ req'[r].relationship = x /\ req'[r].quote = req[r].quote
      /\ task'[r] = [kind |-> "RequestExpiry", at |-> now + DecisionWindow]
  BY <1>2 DEF SubmitStep
<1>5. \A s \in S :
        /\ req[s].lifecycle = "Preparing" /\ HistoryOfRequest(s) \in Histories \ {h}
        /\ req'[s].lifecycle = "Cancelled" /\ req'[s].relationship = req[s].relationship
        /\ req'[s].quote = req[s].quote
        /\ task'[s] = NoTask
        /\ CanSettle(fin[s], "Cancelled")
  BY <1>2 DEF SubmitStep
<1>6. \A s \in Requests \ S : s # r => req'[s] = req[s] /\ task'[s] = task[s]
  BY <1>2 DEF SubmitStep
<1>7. /\ hist'[h].level = hist[h].level + 1 /\ hist'[h].pending = NoRequest
      /\ hist'[h].version > hist[h].version
      /\ hist'[h].earliest >= hist[h].earliest
      /\ hist'[h].earliest >= now + t.backoff
  BY <1>2 DEF SubmitStep
<1>8. \A g \in Histories \ {h} :
        /\ hist'[g].level = hist[g].level
        /\ hist'[g].earliest >= hist[g].earliest
        /\ hist'[g].version >= hist[g].version
        /\ hist'[g].version = hist[g].version => hist'[g].earliest = hist[g].earliest
        /\ hist'[g].pending = IF hist[g].pending \in S THEN NoRequest ELSE hist[g].pending
  BY <1>2 DEF SubmitStep
<1>9. fin' = [s \in Requests |-> IF s \in S THEN Settle(s, fin[s], "Cancelled") ELSE fin[s]]
  BY <1>2 DEF SubmitStep
<1> HIDE DEF S
<1>10. \A s \in Requests :
         /\ req'[s].relationship = req[s].relationship /\ req'[s].quote = req[s].quote
         /\ req'[s].lifecycle # "None" => req[s].lifecycle # "None"
         /\ req'[s].lifecycle = "Preparing" <=>
               req[s].lifecycle = "Preparing" /\ s # r /\ s \notin S
  BY <1>3, <1>4, <1>5, <1>6
<1>11. RequestsPlaced'
  BY <1>1, <1>3, <1>10 DEF RequestsPlaced
<1>12. MoneyPlaced' /\ LifecycleMatchesSettlement' /\ fin' \in [Requests -> Financials]
  <2>1. \A s \in Requests :
          /\ fin[s] \in Financials
          /\ fin[s].settlement = IF req[s].lifecycle \in {"None", "Preparing", "Awaiting"}
                                 THEN "None" ELSE req[s].lifecycle
          /\ Submitted(s) => FundingFinalized(fin[s])
          /\ req[s].lifecycle = "None" => fin[s] = NewFinancials
    BY <1>1 DEF MoneyPlaced, LifecycleMatchesSettlement
  <2> DEFINE Good(s, g) ==
               /\ g \in Financials
               /\ g.settlement = IF req'[s].lifecycle \in {"None", "Preparing", "Awaiting"}
                                 THEN "None" ELSE req'[s].lifecycle
               /\ Submitted(s)' => FundingFinalized(g)
               /\ req'[s].lifecycle = "None" => g = NewFinancials
  <2>2. Good(r, fin[r])
    BY <1>3, <1>4, <2>1
  <2>3. ASSUME NEW s \in S PROVE Good(s, Settle(s, fin[s], "Cancelled"))
    <3>1. s \in Requests /\ fin[s].settlement = "None" /\ "Cancelled" \in RequestSettlement
      BY <1>3, <1>5, <2>1 DEF RequestSettlement
    <3>2. Settle(s, fin[s], "Cancelled") \in Financials
          /\ Settle(s, fin[s], "Cancelled").settlement = "Cancelled"
      BY <1>5, <2>1, <3>1, SettleTyped, SettleOutcome
    <3>3. req'[s].lifecycle = "Cancelled" /\ ~Submitted(s)'
      BY <1>5 DEF Submitted
    <3> QED
      BY <3>2, <3>3
  <2>4. ASSUME NEW s \in Requests \ S, s # r PROVE Good(s, fin[s])
    <3>1. req'[s] = req[s]
      BY <1>6, <2>4
    <3> QED
      BY <2>1, <3>1 DEF Submitted
  <2> HIDE DEF Good
  <2>5. \A s \in Requests : Good(s, fin'[s])
    BY <1>3, <1>9, <2>2, <2>3, <2>4
  <2>6. fin' = [s \in Requests |-> fin'[s]]
    BY <1>9
  <2> QED
    BY <2>5, <2>6 DEF Good, MoneyPlaced, LifecycleMatchesSettlement
<1>13. TypeOK'
  BY <1>1, <1>3, <1>12 DEF TypeOK
<1>14. ReservationMatchesPreparation'
  <2>1. ASSUME NEW g \in Histories, hist'[g].pending # NoRequest
        PROVE  /\ req'[hist'[g].pending].lifecycle = "Preparing"
               /\ HistoryOf[req'[hist'[g].pending].relationship] = g
    <3> DEFINE p == hist[g].pending
    <3>1. g # h /\ hist'[g].pending = p /\ p # NoRequest /\ p \notin S
      BY <1>7, <1>8, <2>1
    <3>2. p \in Requests
      BY <1>1, <3>1, HistoryFields
    <3>3. req[p].lifecycle = "Preparing" /\ HistoryOf[req[p].relationship] = g
      BY <1>1, <3>1 DEF ReservationMatchesPreparation, HistoryOfRequest
    <3>4. p # r
      BY <3>1, <3>3
    <3> QED
      BY <1>10, <3>1, <3>2, <3>3, <3>4
  <2>2. ASSUME NEW s \in Requests, req'[s].lifecycle = "Preparing"
        PROVE  hist'[HistoryOf[req'[s].relationship]].pending = s
    <3>1. /\ req[s].lifecycle = "Preparing" /\ s # r /\ s \notin S
          /\ req'[s].relationship = req[s].relationship
      BY <1>10, <2>2
    <3>2. /\ HistoryOf[req[s].relationship] \in Histories
          /\ hist[HistoryOf[req[s].relationship]].pending = s
      BY <1>1, <3>1, TermsFields DEF ReservationMatchesPreparation, HistoryOfRequest
    <3>3. HistoryOf[req[s].relationship] # h
      BY <1>3, <3>1, <3>2
    <3> QED
      BY <1>8, <3>1, <3>2, <3>3
  <2> QED
    BY <2>1, <2>2 DEF ReservationMatchesPreparation, HistoryOfRequest
<1>15. \A z : ActiveIn(z)' = ActiveIn(z) \ S
  BY <1>3, <1>4, <1>5, <1>6 DEF ActiveIn, Active
<1>16. OneActiveRequest'
  BY <1>1, <1>3, <1>15 DEF OneActiveRequest
<1>17. NoCrossedRequests'
  <2> SUFFICES ASSUME NEW s \in Requests, NEW p \in Requests, AwaitsDecision(s)',
                      req'[p].relationship = Opposite[req'[s].relationship],
                      req'[p].lifecycle \in {"Preparing", "Awaiting"}
               PROVE  req'[p].lifecycle = "Awaiting" /\ now > req'[p].deadline
    BY <1>3 DEF NoCrossedRequests, ActiveIn, Active
  <2>1. p \notin S /\ s \notin S
    BY <1>5 DEF AwaitsDecision
  <2>2. /\ req'[p].relationship = req[p].relationship
        /\ req'[s].relationship = req[s].relationship
    BY <1>10
  <2>3. req[p].lifecycle \in {"Preparing", "Awaiting"}
    BY <1>3, <1>6, <2>1
  <2>4. req[s].relationship \in Relationships /\ req[p].relationship \in Relationships
    BY <1>1, <1>3, <1>6, <2>1, <2>3 DEF RequestsPlaced, AwaitsDecision
  <2>5. Opposite[req[s].relationship] # NoOpposite
        /\ Opposite[req[p].relationship] = req[s].relationship
        /\ HistoryOf[req[p].relationship] # HistoryOf[req[s].relationship]
    <3>1. req[p].relationship = Opposite[req[s].relationship]
      BY <2>2
    <3>2. Opposite[req[s].relationship] # NoOpposite
      BY <2>4, <3>1, RelationshipAssumption
    <3>3. /\ Opposite[Opposite[req[s].relationship]] = req[s].relationship
          /\ HistoryOf[Opposite[req[s].relationship]] # HistoryOf[req[s].relationship]
      BY <2>4, <3>2, RelationshipAssumption
    <3> QED
      BY <3>1, <3>2, <3>3
  <2>6. CASE s = r
    <3>1. p # r /\ req'[p] = req[p]
      BY <1>6, <2>1, <2>5, <2>6
    <3>2. p \in ActiveIn(Opposite[x])
      BY <2>2, <2>3, <2>6 DEF ActiveIn, Active
    <3>3. req[p].lifecycle # "Preparing"
      BY <1>3, <2>1, <2>5, <2>6, <3>2 DEF PreparingIn
    <3>4. ~AwaitsDecision(p)
      BY <1>3, <2>5, <2>6, <3>2 DEF OppositePending
    <3>5. now \in Nat /\ req[p].deadline \in Nat
      BY <1>1, RequestFields DEF TypeOK
    <3> QED
      BY <2>3, <3>1, <3>3, <3>4, <3>5 DEF AwaitsDecision
  <2>7. CASE s # r
    <3>1. req'[s] = req[s] /\ AwaitsDecision(s)
      BY <1>3, <1>6, <2>1, <2>7 DEF AwaitsDecision
    <3>2. s \in ActiveIn(Opposite[req[p].relationship])
      BY <2>5, <3>1 DEF ActiveIn, Active, AwaitsDecision
    <3>3. p # r
      BY <1>3, <2>4, <2>5, <3>1, <3>2, Directions DEF OppositePending
    <3>4. req'[p] = req[p]
      BY <1>6, <2>1, <3>3
    <3>5. p \in ActiveIn(Opposite[req[s].relationship])
      BY <2>2, <2>3 DEF ActiveIn, Active
    <3> QED
      BY <1>1, <3>1, <3>4, <3>5 DEF NoCrossedRequests
  <2> QED
    BY <2>6, <2>7
<1>18. TaskMatchesLifecycle' /\ OutcomeMatchesWindow'
  <2>1. TaskMatchesLifecycle'
    <3> SUFFICES ASSUME NEW s \in Requests
                 PROVE  task'[s] = CASE req'[s].lifecycle = "Preparing" ->
                                            [kind |-> "SubmissionTimeout", at |-> req'[s].deadline]
                                     [] req'[s].lifecycle = "Awaiting" ->
                                            [kind |-> "RequestExpiry", at |-> req'[s].deadline]
                                     [] OTHER -> NoTask
      BY DEF TaskMatchesLifecycle
    <3>1. CASE s = r
      BY <1>4, <3>1
    <3>2. CASE s \in S
      BY <1>5, <3>2
    <3>3. CASE s # r /\ s \notin S
      BY <1>1, <1>6, <3>3 DEF TaskMatchesLifecycle
    <3> QED
      BY <3>1, <3>2, <3>3
  <2>2. OutcomeMatchesWindow'
    BY <1>1, <1>3, <1>4, <1>5, <1>6 DEF OutcomeMatchesWindow
  <2> QED
    BY <2>1, <2>2
<1>19. \A s \in Requests : Submitted(s)' /\ s # r => Submitted(s) /\ req'[s] = req[s]
  BY <1>5, <1>6 DEF Submitted
<1>20. ASSUME NEW s \in Requests, Submitted(s)
       PROVE  /\ HistoryOf[req[s].relationship] \in Histories
              /\ quotes[req[s].quote].level \in Nat /\ quotes[req[s].quote].backoff \in Nat
              /\ req[s].at \in Nat /\ req[s].decided \in Nat /\ req[s].deadline \in Nat
  BY <1>1, <1>20, TermsFields, RequestFields DEF Submitted, HistoryOfRequest
<1>21. /\ t.level \in Nat /\ t.backoff \in Nat /\ now \in Nat
       /\ \A g \in Histories : /\ hist[g].level \in Nat /\ hist[g].earliest \in Nat
                               /\ hist[g].version \in Nat
                               /\ hist'[g].level \in Nat /\ hist'[g].earliest \in Nat
                               /\ hist'[g].version \in Nat
  <2>1. t.level \in Nat /\ t.backoff \in Nat
    BY <1>1, <1>3, TermsFields
  <2> QED
    BY <1>1, <1>3, <2>1, HistoryFields DEF TypeOK, RequestHistory
<1>22. \A g \in Histories : hist'[g].earliest >= hist[g].earliest /\ hist'[g].level >= hist[g].level
                            /\ hist'[g].version >= hist[g].version
  BY <1>7, <1>8, <1>21
<1>23. TermsFollowHistory'
  <2> SUFFICES ASSUME NEW p \in QuoteIds, quotes[p] # NoTerms
               PROVE  LET s == quotes[p]
                          H == hist'[HistoryOf[s.relationship]]
                      IN  /\ s.histVersion <= H.version
                          /\ s.histVersion = H.version =>
                                s.level = H.level /\ s.eligibility = H.earliest
    BY <1>3 DEF TermsFollowHistory
  <2> DEFINE g == HistoryOf[quotes[p].relationship]
  <2>1. g \in Histories /\ quotes[p].histVersion \in Nat
    <3>1. quotes[p] \in RequestTerms
      BY <1>1 DEF TypeOK
    <3> QED
      BY <3>1, Directions DEF RequestTerms
  <2>2. /\ quotes[p].histVersion <= hist[g].version
        /\ quotes[p].histVersion = hist[g].version =>
              quotes[p].level = hist[g].level /\ quotes[p].eligibility = hist[g].earliest
    BY <1>1 DEF TermsFollowHistory
  <2> HIDE DEF h
  <2>3. CASE g = h
    <3>1. hist'[g].version > hist[g].version
      BY <1>7, <2>3
    <3>2. hist'[g].version \in Nat /\ hist[g].version \in Nat
      BY <1>21, <2>1
    <3> QED
      BY <2>1, <2>2, <3>1, <3>2
  <2>4. CASE g # h
    <3>1. /\ hist'[g].level = hist[g].level
          /\ hist'[g].version >= hist[g].version
          /\ hist'[g].version = hist[g].version => hist'[g].earliest = hist[g].earliest
          /\ hist'[g].version \in Nat /\ hist[g].version \in Nat
      BY <1>8, <1>21, <2>1, <2>4
    <3> QED
      BY <2>1, <2>2, <3>1
  <2> QED
    BY <2>3, <2>4
<1>24. WaitsRecorded'
  <2> SUFFICES ASSUME NEW s \in Requests, Submitted(s)'
               PROVE  LET H == hist'[HistoryOf[req'[s].relationship]]
                      IN  /\ req'[s].at <= now
                          /\ req'[s].at + quotes[req'[s].quote].backoff <= H.earliest
                          /\ req'[s].lifecycle # "Awaiting" => req'[s].decided <= now
                          /\ req'[s].lifecycle = "Rejected" =>
                                req'[s].decided + RejectionCooldown <= H.earliest
                          /\ req'[s].lifecycle = "Expired" =>
                                req'[s].deadline + ExpiryCooldown <= H.earliest
    BY <1>3 DEF WaitsRecorded, HistoryOfRequest
  <2>1. CASE s = r
    BY <1>3, <1>4, <1>7, <1>21, <2>1
  <2>2. CASE s # r
    <3>1. Submitted(s) /\ req'[s] = req[s]
      BY <1>19, <2>2
    <3> DEFINE H == hist[HistoryOf[req[s].relationship]]
               G == hist'[HistoryOf[req[s].relationship]]
    <3>2. /\ req[s].at <= now
          /\ req[s].at + quotes[req[s].quote].backoff <= H.earliest
          /\ req[s].lifecycle # "Awaiting" => req[s].decided <= now
          /\ req[s].lifecycle = "Rejected" => req[s].decided + RejectionCooldown <= H.earliest
          /\ req[s].lifecycle = "Expired" => req[s].deadline + ExpiryCooldown <= H.earliest
      BY <1>1, <3>1 DEF WaitsRecorded, HistoryOfRequest
    <3>3. /\ G.earliest >= H.earliest /\ G.earliest \in Nat /\ H.earliest \in Nat
          /\ quotes[req[s].quote].backoff \in Nat
          /\ req[s].at \in Nat /\ req[s].decided \in Nat /\ req[s].deadline \in Nat
      BY <1>20, <1>21, <1>22, <3>1
    <3> HIDE DEF H, G
    <3>4. /\ req[s].at + quotes[req[s].quote].backoff <= G.earliest
          /\ req[s].lifecycle = "Rejected" => req[s].decided + RejectionCooldown <= G.earliest
          /\ req[s].lifecycle = "Expired" => req[s].deadline + ExpiryCooldown <= G.earliest
      BY <3>2, <3>3, Durations
    <3> QED
      BY <3>1, <3>2, <3>4 DEF G
  <2> QED
    BY <2>1, <2>2
\* The level and the time of every earlier submission on this history.
<1>25. ASSUME NEW s \in Requests, Submitted(s), HistoryOf[req[s].relationship] = h
       PROVE  /\ quotes[req[s].quote].level < t.level
              /\ req[s].at + quotes[req[s].quote].backoff <= now
              /\ req[s].lifecycle = "Rejected" => req[s].decided + RejectionCooldown <= now
              /\ req[s].lifecycle = "Expired" => req[s].deadline + ExpiryCooldown <= now
  <2>1. quotes[req[s].quote].level < hist[h].level
    BY <1>1, <1>3, <1>25 DEF EachLevelUsedOnce, HistoryOfRequest
  <2>2. /\ req[s].at + quotes[req[s].quote].backoff <= hist[h].earliest
        /\ req[s].lifecycle = "Rejected" => req[s].decided + RejectionCooldown <= hist[h].earliest
        /\ req[s].lifecycle = "Expired" => req[s].deadline + ExpiryCooldown <= hist[h].earliest
    BY <1>1, <1>25 DEF WaitsRecorded, HistoryOfRequest
  <2>3. now >= hist[h].earliest /\ t.level = hist[h].level /\ hist[h].earliest \in Nat /\ now \in Nat
    BY <1>3, <1>21
  <2>4. /\ quotes[req[s].quote].backoff \in Nat
        /\ req[s].at \in Nat /\ req[s].decided \in Nat /\ req[s].deadline \in Nat
    BY <1>20, <1>25
  <2> HIDE DEF t
  <2> QED
    BY <2>1, <2>2, <2>3, <2>4, Durations
<1>26. EachLevelUsedOnce'
  <2>1. ASSUME NEW s \in Requests, Submitted(s)'
        PROVE  quotes[req'[s].quote].level < hist'[HistoryOf[req'[s].relationship]].level
    <3>1. CASE s = r
      BY <1>3, <1>4, <1>7, <1>21, <3>1
    <3>2. CASE s # r
      <4>1. Submitted(s) /\ req'[s] = req[s]
        BY <1>19, <2>1, <3>2
      <4> DEFINE g == HistoryOf[req[s].relationship]
      <4>2. quotes[req[s].quote].level < hist[g].level /\ g \in Histories
        BY <1>1, <1>20, <4>1 DEF EachLevelUsedOnce, HistoryOfRequest
      <4>3. hist'[g].level >= hist[g].level /\ hist'[g].level \in Nat /\ hist[g].level \in Nat
            /\ quotes[req[s].quote].level \in Nat
        BY <1>20, <1>21, <1>22, <4>1, <4>2
      <4> HIDE DEF g
      <4>4. quotes[req[s].quote].level < hist'[g].level
        BY <4>2, <4>3
      <4> QED
        BY <4>1, <4>4 DEF g
    <3> QED
      BY <3>1, <3>2
  <2>2. ASSUME NEW s \in Requests, NEW p \in Requests, Submitted(s)', Submitted(p)',
               HistoryOf[req'[s].relationship] = HistoryOf[req'[p].relationship],
               quotes[req'[s].quote].level = quotes[req'[p].quote].level
        PROVE  s = p
    <3>1. CASE s # r /\ p # r
      <4>1. /\ Submitted(s) /\ req'[s] = req[s]
            /\ Submitted(p) /\ req'[p] = req[p]
        BY <1>19, <2>2, <3>1
      <4>2. HistoryOf[req[s].relationship] \in Histories
        BY <1>20, <4>1
      <4> QED
        BY <1>1, <2>2, <4>1, <4>2 DEF EachLevelUsedOnce, HistoryOfRequest
    <3>2. ASSUME s # r, p = r PROVE FALSE
      <4>1. Submitted(s) /\ req'[s] = req[s]
        BY <1>19, <2>2, <3>2
      <4>2. HistoryOf[req[s].relationship] = h /\ quotes[req[s].quote].level = t.level
        BY <1>4, <2>2, <3>2, <4>1
      <4> QED
        BY <1>20, <1>21, <1>25, <4>1, <4>2
    <3>3. ASSUME s = r, p # r PROVE FALSE
      <4>1. Submitted(p) /\ req'[p] = req[p]
        BY <1>19, <2>2, <3>3
      <4>2. HistoryOf[req[p].relationship] = h /\ quotes[req[p].quote].level = t.level
        BY <1>4, <2>2, <3>3, <4>1
      <4> QED
        BY <1>20, <1>21, <1>25, <4>1, <4>2
    <3> QED
      BY <3>1, <3>2, <3>3
  <2>3. quotes' = quotes
    BY <1>3
  <2> QED
    BY <2>1, <2>2, <2>3 DEF EachLevelUsedOnce, HistoryOfRequest
<1>27. SubmissionsSpaced'
  <2> SUFFICES ASSUME NEW p \in Requests, NEW s \in Requests, p # s,
                      Submitted(p)', Submitted(s)',
                      HistoryOf[req'[p].relationship] = HistoryOf[req'[s].relationship]
               PROVE  /\ quotes[req'[p].quote].level < quotes[req'[s].quote].level =>
                            req'[s].at >= req'[p].at + quotes[req'[p].quote].backoff
                      /\ req'[p].lifecycle = "Rejected" /\ req'[s].at > req'[p].decided =>
                            req'[s].at >= req'[p].decided + RejectionCooldown
                      /\ req'[p].lifecycle = "Expired" /\ req'[s].at > req'[p].decided =>
                            req'[s].at >= req'[p].deadline + ExpiryCooldown
    BY <1>3 DEF SubmissionsSpaced, HistoryOfRequest
  <2>1. CASE p # r /\ s # r
    BY <1>1, <1>19, <2>1 DEF SubmissionsSpaced, HistoryOfRequest
  <2>2. CASE s = r
    <3>1. Submitted(p) /\ req'[p] = req[p] /\ HistoryOf[req[p].relationship] = h
      BY <1>4, <1>19, <2>2
    <3>2. /\ req[p].at + quotes[req[p].quote].backoff <= now
          /\ req[p].lifecycle = "Rejected" => req[p].decided + RejectionCooldown <= now
          /\ req[p].lifecycle = "Expired" => req[p].deadline + ExpiryCooldown <= now
      BY <1>25, <3>1
    <3>3. req'[s].at = now /\ now \in Nat /\ quotes[req[p].quote].backoff \in Nat
          /\ req[p].at \in Nat /\ req[p].decided \in Nat /\ req[p].deadline \in Nat
      BY <1>4, <1>20, <1>21, <2>2, <3>1
    <3> QED
      BY <3>1, <3>2, <3>3, Durations
  <2>3. CASE p = r
    <3>1. Submitted(s) /\ req'[s] = req[s] /\ HistoryOf[req[s].relationship] = h
      BY <1>4, <1>19, <2>3
    <3>2. quotes[req[s].quote].level < t.level /\ quotes[req[s].quote].level \in Nat
          /\ t.level \in Nat /\ quotes[req'[p].quote].level = t.level
      BY <1>4, <1>20, <1>21, <1>25, <2>3, <3>1
    <3>3. req'[p].lifecycle = "Awaiting"
      BY <1>4, <2>3
    <3>4. ~(quotes[req'[p].quote].level < quotes[req'[s].quote].level)
      BY <3>1, <3>2
    <3> QED
      BY <3>3, <3>4
  <2> QED
    BY <2>1, <2>2, <2>3
<1>28. ReplyLaneStillOffered'
  <2> SUFFICES ASSUME NEW z \in Relationships, rel[z].lane = "Reply"
               PROVE  LET s == rel[z].answers
                      IN  /\ s \in Requests
                          /\ req'[s].relationship = Opposite[z]
                          /\ req'[s].lifecycle = "Accepted"
                          /\ req'[s].offer = rel[z].epoch
    BY <1>3 DEF ReplyLaneStillOffered
  <2>1. rel[z].answers \in Requests /\ req[rel[z].answers].lifecycle = "Accepted"
    BY <1>1 DEF ReplyLaneStillOffered
  <2>2. req'[rel[z].answers] = req[rel[z].answers]
    BY <1>3, <1>5, <1>6, <2>1
  <2> QED
    BY <1>1, <2>1, <2>2 DEF ReplyLaneStillOffered
<1> QED
  BY <1>11, <1>12, <1>13, <1>14, <1>16, <1>17, <1>18, <1>23, <1>24, <1>26, <1>27, <1>28
  DEF IInv, Pace, Agreement, OneRequestAtATime, EscalationKept

-----------------------------------------------------------------------------
(***************************************************************************)
(* The theorems.                                                           *)
(***************************************************************************)

\* Every step is a transition that ends requests, or one of the other four.
LEMMA StepShapes ==
    ASSUME IInv, [Next]_vars
    PROVE  \/ Shaped
           \/ \E x \in Relationships, q \in QuoteIds : IssueTerms(x, q)
           \/ \E r \in Requests, q \in QuoteIds : CreateRequest(r, q)
           \/ \E r \in Requests : Submit(r)
           \/ Tick
<1>1. CASE \E x \in Relationships : \/ \E granted \in BOOLEAN : Accept(x, granted) \/ GrantLane(x, granted)
                                    \/ Reject(x) \/ Block(x)
  BY <1>1, DecisionsShaped
<1>2. CASE \E x \in Relationships : Unblock(x) \/ Revoke(x)
  BY <1>2, WithdrawalsShaped
<1>3. CASE \E r \in Requests : \/ \E refused \in BOOLEAN : SubmitFailing(r, refused)
                               \/ CancelRequest(r)
  BY <1>3, CancellationsShaped
<1>4. CASE \E r \in Requests : ExpireRequest(r) \/ RunTask(r)
  BY <1>4, ExpiryShaped, TaskShaped
<1>5. CASE \E r \in Requests, e \in PaymentEvidence : ConfirmPayment(r, e)
  BY <1>5, EvidenceShaped
<1>6. CASE UNCHANGED vars
  <2>1. TypeOK /\ UNCHANGED <<now, quotes, used, req, task, hist>> /\ UNCHANGED rel /\ UNCHANGED fin
    BY <1>6 DEF IInv, vars
  <2> QED
    BY <2>1, NothingEnds, NothingDecided DEF Shaped
<1> QED
  BY <1>1, <1>2, <1>3, <1>4, <1>5, <1>6 DEF Next

\* The inductive invariant holds of every reachable state.
LEMMA AlwaysKept == Spec => []IInv
<1>1. IInv /\ [Next]_vars => IInv'
  <2> SUFFICES ASSUME IInv, [Next]_vars PROVE IInv'
    OBVIOUS
  <2>1. CASE Shaped
    BY <2>1, EndingKeeps DEF Shaped
  <2> QED
    BY <2>1, StepShapes, TermsKeep, CreateKeeps, SubmitKeeps, TickKeeps
<1> QED
  BY <1>1, InitKeeps, PTL DEF Spec

\* Every record of the conversation, the histories, the schedule and the money
\* keeps its shape.
THEOREM SettlementTypeCorrect == Spec => []TypeOK
<1>1. IInv => TypeOK
  BY DEF IInv
<1> QED
  BY <1>1, AlwaysKept, PTL

\* One request at a time for each direction, each sender with all of its
\* aliases, and each pair of members, whoever quotes, prepares, submits, decides
\* or ends first.
THEOREM OneRequest == Spec => []OneRequestAtATime
<1>1. IInv => OneRequestAtATime
  BY DEF IInv
<1> QED
  BY <1>1, AlwaysKept, PTL

\* The conversation, the money and the schedule agree on every request.
THEOREM OutcomesAgree == Spec => []LifecycleAgrees
<1>1. IInv => LifecycleAgrees
  BY DEF IInv, Agreement, LifecycleAgrees
<1> QED
  BY <1>1, AlwaysKept, PTL

\* Every submission pays the price of its own level and keeps its distance.
THEOREM EscalationNotAvoided == Spec => []EscalationKept
<1>1. IInv => EscalationKept
  BY DEF IInv, Pace
<1> QED
  BY <1>1, AlwaysKept, PTL

\* No acceptance restores access its recipient withdrew.
THEOREM RepliesOffered == Spec => []ReplyLaneStillOffered
<1>1. IInv => ReplyLaneStillOffered
  BY DEF IInv
<1> QED
  BY <1>1, AlwaysKept, PTL

\* Terms issued before a change of what they describe cannot be used after it.
THEOREM VersionsCover == Spec => VersionsCoverChanges
<1> DEFINE Covered ==
        /\ \A r \in Requests :
             /\ req[r].lifecycle \in RequestSettlement => req'[r] = req[r]
             /\ req'[r].lifecycle # req[r].lifecycle /\ req[r].lifecycle # "None" =>
                   req'[r].version > req[r].version
        /\ \A x \in Relationships : rel'[x] # rel[x] => rel'[x].version > rel[x].version
        /\ \A h \in Histories :
             /\ hist'[h].earliest >= hist[h].earliest
             /\ hist'[h].level # hist[h].level \/ hist'[h].earliest # hist[h].earliest =>
                   hist'[h].version > hist[h].version
<1>1. IInv /\ [Next]_vars => Covered
  <2> SUFFICES ASSUME IInv, [Next]_vars PROVE Covered
    OBVIOUS
  <2>1. TypeOK /\ ReservationMatchesPreparation
    BY DEF IInv, OneRequestAtATime
  <2>2. /\ \A r \in Requests : req[r].version \in Nat
        /\ \A h \in Histories : hist[h].earliest \in Nat /\ hist[h].version \in Nat
    BY <2>1, RequestFields, HistoryFields
  <2>3. CASE Shaped
    <3>1. PICK ending : Ends(ending) /\ Decides(ending)
      BY <2>3 DEF Shaped
    <3>2. ASSUME NEW r \in Requests
          PROVE  /\ req[r].lifecycle \in RequestSettlement => req'[r] = req[r]
                 /\ req'[r].lifecycle # req[r].lifecycle /\ req[r].lifecycle # "None" =>
                       req'[r].version > req[r].version
      <4>1. /\ r \notin DOMAIN ending => req'[r] = req[r]
            /\ r \in DOMAIN ending => /\ req[r].lifecycle \in {"Preparing", "Awaiting"}
                                      /\ req'[r].version = req[r].version + 1
        BY <2>1, <3>1, EndsRequests
      <4>2. req[r].version + 1 > req[r].version
        BY <2>2
      <4> QED
        BY <4>1, <4>2 DEF RequestSettlement
    <3>3. ASSUME NEW h \in Histories
          PROVE  /\ hist'[h].earliest >= hist[h].earliest
                 /\ hist'[h].level # hist[h].level \/ hist'[h].earliest # hist[h].earliest =>
                       hist'[h].version > hist[h].version
      <4>1. /\ hist'[h].level = hist[h].level
            /\ hist'[h].earliest >= hist[h].earliest
            /\ hist'[h].version >= hist[h].version
            /\ hist'[h].version = hist[h].version => hist'[h].earliest = hist[h].earliest
            /\ hist'[h].version \in Nat
        BY <2>1, <3>1, EndsHistories DEF RequestHistory
      <4> QED
        BY <2>2, <4>1
    <3> QED
      BY <3>1, <3>2, <3>3 DEF Decides
  <2>4. CASE (\E x \in Relationships, q \in QuoteIds : IssueTerms(x, q)) \/ Tick
    <3>1. req' = req /\ rel' = rel /\ hist' = hist
      BY <2>4 DEF IssueTerms, Tick
    <3> QED
      BY <2>2, <3>1
  <2>5. ASSUME NEW r \in Requests, NEW q \in QuoteIds, CreateRequest(r, q) PROVE Covered
    <3> DEFINE h == HistoryOf[quotes[q].relationship]
    <3>1. /\ req[r].lifecycle = "None" /\ rel' = rel
          /\ hist' = [hist EXCEPT ![h].pending = r]
          /\ \A s \in Requests \ {r} : req'[s] = req[s]
      BY <2>1, <2>5 DEF CreateRequest, TypeOK
    <3>2. ASSUME NEW g \in Histories
          PROVE  hist'[g].earliest = hist[g].earliest /\ hist'[g].level = hist[g].level
      <4>1. hist[g] \in RequestHistory /\ hist \in [Histories -> RequestHistory]
        BY <2>1 DEF TypeOK
      <4> QED
        BY <3>1, <4>1 DEF RequestHistory
    <3> QED
      BY <2>2, <3>1, <3>2 DEF RequestSettlement
  <2>6. ASSUME NEW r \in Requests, Submit(r) PROVE Covered
    <3> DEFINE S == Superseded(req[r].relationship)
               h == HistoryOf[req[r].relationship]
    <3>1. SubmitStep(r, S)
      BY <2>6, SubmitSteps
    <3>2. /\ \A s \in Requests \ S : s # r => req'[s] = req[s]
          /\ \A s \in S : req[s].lifecycle = "Preparing" /\ req'[s].version = req[s].version + 1
          /\ req[r].lifecycle = "Preparing" /\ req'[r].version = req[r].version + 1
          /\ rel' = rel /\ hist' \in [Histories -> RequestHistory]
      BY <3>1 DEF SubmitStep
    <3>3. /\ hist'[h].earliest >= hist[h].earliest /\ hist'[h].version > hist[h].version
          /\ \A g \in Histories \ {h} :
                /\ hist'[g].level = hist[g].level
                /\ hist'[g].earliest >= hist[g].earliest
                /\ hist'[g].version >= hist[g].version
                /\ hist'[g].version = hist[g].version => hist'[g].earliest = hist[g].earliest
      BY <3>1 DEF SubmitStep
    <3> HIDE DEF S, h
    <3>4. \A g \in Histories : hist'[g].version \in Nat
      BY <3>2 DEF RequestHistory
    <3>5. ASSUME NEW s \in Requests
          PROVE  /\ req[s].lifecycle \in RequestSettlement => req'[s] = req[s]
                 /\ req'[s].lifecycle # req[s].lifecycle /\ req[s].lifecycle # "None" =>
                       req'[s].version > req[s].version
      <4>1. req[s].version + 1 > req[s].version
        BY <2>2
      <4> QED
        BY <3>2, <4>1 DEF RequestSettlement
    <3>6. ASSUME NEW g \in Histories
          PROVE  /\ hist'[g].earliest >= hist[g].earliest
                 /\ hist'[g].level # hist[g].level \/ hist'[g].earliest # hist[g].earliest =>
                       hist'[g].version > hist[g].version
      BY <2>2, <3>3, <3>4
    <3> QED
      BY <3>2, <3>5, <3>6
  <2> QED
    BY <2>3, <2>4, <2>5, <2>6, StepShapes
<1>2. VersionsCoverChanges <=> [][Covered]_vars
  BY DEF VersionsCoverChanges
<1> HIDE DEF Covered
<1> QED
  BY <1>1, <1>2, AlwaysKept, PTL DEF Spec

\* The operators of the money that Payments instantiates are the ones the
\* conversation itself uses: neither depends on a variable.
LEMMA SameMoney ==
    /\ Payments!RequestSettlement = RequestSettlement
    /\ Payments!PaymentEvidence = PaymentEvidence
    /\ Payments!NewFinancials = NewFinancials
    /\ \A f, s : Payments!CanSettle(f, s) <=> CanSettle(f, s)
    /\ \A f, e : Payments!CanRecord(f, e) <=> CanRecord(f, e)
    /\ \A r, f, s : Payments!Settle(r, f, s) = Settle(r, f, s)
    /\ \A r, f, e : Payments!RecordPayment(r, f, e) = RecordPayment(r, f, e)
<1>1. Payments!RequestSettlement = RequestSettlement
  BY DEF Payments!RequestSettlement, RequestSettlement
<1>2. Payments!PaymentEvidence = PaymentEvidence
  BY DEF Payments!PaymentEvidence, PaymentEvidence, Payments!PaymentOutcome, PaymentOutcome
<1>3. Payments!NewFinancials = NewFinancials
  BY DEF Payments!NewFinancials, NewFinancials, Payments!Account, Account
<1>4. ASSUME NEW f PROVE Payments!FundingFinalized(f) <=> FundingFinalized(f)
  BY DEF Payments!FundingFinalized, FundingFinalized
<1>5. ASSUME NEW r PROVE Payments!CaptureAmount(r) = CaptureAmount(r)
  BY DEF Payments!CaptureAmount, CaptureAmount
<1>6. ASSUME NEW books, NEW from, NEW to, NEW amount
      PROVE  Payments!Transfer(books, from, to, amount) = Transfer(books, from, to, amount)
  BY DEF Payments!Transfer, Transfer
<1>7. ASSUME NEW f, NEW amount PROVE Payments!CreateRefund(f, amount) = CreateRefund(f, amount)
  BY <1>6 DEF Payments!CreateRefund, CreateRefund
<1>8. ASSUME NEW f, NEW s PROVE Payments!CanSettle(f, s) <=> CanSettle(f, s)
  BY <1>4 DEF Payments!CanSettle, CanSettle
<1>9. ASSUME NEW f, NEW e PROVE Payments!CanRecord(f, e) <=> CanRecord(f, e)
  BY <1>4 DEF Payments!CanRecord, CanRecord
<1>10. ASSUME NEW r, NEW f, NEW s PROVE Payments!Settle(r, f, s) = Settle(r, f, s)
  <2>1. Payments!SettleInFull(r, f, s) = SettleInFull(r, f, s)
    BY <1>5, <1>7 DEF Payments!SettleInFull, SettleInFull
  <2>2. Payments!SettleExpired(r, f) = SettleExpired(r, f)
    BY <1>6, <1>7 DEF Payments!SettleExpired, SettleExpired
  <2>3. Payments!SettleRejected(r, f) = SettleRejected(r, f)
    BY <1>6 DEF Payments!SettleRejected, SettleRejected
  <2>4. Payments!SettleUnfunded(f) = SettleUnfunded(f)
    BY DEF Payments!SettleUnfunded, SettleUnfunded
  <2> QED
    BY <1>4, <2>1, <2>2, <2>3, <2>4 DEF Payments!Settle, Settle
<1>11. ASSUME NEW r, NEW f, NEW e PROVE Payments!RecordPayment(r, f, e) = RecordPayment(r, f, e)
  <2>1. Payments!CaptureSettled(r, f) = CaptureSettled(r, f)
    BY <1>4, <1>5, <1>6, <1>7 DEF Payments!CaptureSettled, CaptureSettled
  <2>2. Payments!CaptureVoided(f) = CaptureVoided(f)
    BY <1>4 DEF Payments!CaptureVoided, CaptureVoided
  <2>3. Payments!CaptureReversed(r, f) = CaptureReversed(r, f)
    BY <1>5, <1>6 DEF Payments!CaptureReversed, CaptureReversed
  <2>4. Payments!RefundSettled(f) = RefundSettled(f)
    BY <1>6 DEF Payments!RefundSettled, RefundSettled
  <2>5. Payments!Reconcile(r, f, e) = Reconcile(r, f, e)
    BY <2>1, <2>2, <2>3, <2>4 DEF Payments!Reconcile, Reconcile
  <2> QED
    BY <2>5 DEF Payments!RecordPayment, RecordPayment
<1> QED
  BY <1>1, <1>2, <1>3, <1>8, <1>9, <1>10, <1>11

\* The conversation implements the specification of the payments: each of its
\* transitions settles, records, opens or leaves the money alone, so every
\* theorem about RequestPayments holds of the conversation.
THEOREM ConversationKeepsPayments == Spec => PaymentsSpec
<1> DEFINE opened == {r \in Requests : req[r].lifecycle # "None"}
<1>1. Init => Payments!Init
  <2> SUFFICES ASSUME Init PROVE opened = {} /\ fin = [r \in Requests |-> NewFinancials]
    BY SameMoney DEF Payments!Init
  <2> QED
    BY DEF Init
<1>2. IInv /\ [Next]_vars => [Payments!Next]_Payments!vars
  <2> SUFFICES ASSUME IInv, [Next]_vars PROVE Payments!Next \/ UNCHANGED <<opened, fin>>
    BY DEF Payments!vars
  <2>1. TypeOK /\ RequestsPlaced /\ MoneyPlaced
    BY DEF IInv
  <2>2. ASSUME NEW ending, Ends(ending), Settles(ending) PROVE Payments!Next
    <3>1. \A r \in Requests : req'[r].lifecycle # "None" <=> req[r].lifecycle # "None"
      BY <2>1, <2>2, EndsRequests DEF RequestSettlement
    <3>2. opened' = opened
      BY <3>1
    <3>3. DOMAIN ending \subseteq opened
      BY <2>2 DEF Ends, LegalEnding, Active
    <3>4. Payments!SettleRequests(ending)
      BY SameMoney, <2>2, <3>2, <3>3 DEF Payments!SettleRequests, Settles, CloseFinancials
    <3>5. DOMAIN ending \in SUBSET Requests /\ ending \in [DOMAIN ending -> RequestSettlement]
      BY <2>2, <3>3 DEF Settles
    <3> QED
      BY SameMoney, <3>4, <3>5 DEF Payments!Next
  <2>3. ASSUME NEW ending, Ends(ending), Records(ending) PROVE Payments!Next
    <3>1. \A r \in Requests : req'[r].lifecycle # "None" <=> req[r].lifecycle # "None"
      BY <2>1, <2>3, EndsRequests DEF RequestSettlement
    <3>2. opened' = opened
      BY <3>1
    <3>3. PICK r \in Requests, e \in PaymentEvidence :
             /\ req[r].lifecycle # "None"
             /\ CanRecord(fin[r], e)
             /\ fin' = [fin EXCEPT ![r] = RecordPayment(r, @, e)]
      BY <2>3 DEF Records
    <3>4. Payments!RecordEvidence(r, e)
      BY SameMoney, <3>2, <3>3 DEF Payments!RecordEvidence
    <3> QED
      BY SameMoney, <3>3, <3>4 DEF Payments!Next
  <2>4. CASE (\E x \in Relationships, q \in QuoteIds : IssueTerms(x, q)) \/ Tick
    BY <2>4 DEF IssueTerms, Tick
  <2>5. ASSUME NEW r \in Requests, NEW q \in QuoteIds, CreateRequest(r, q) PROVE Payments!Next
    <3>1. /\ req[r].lifecycle = "None" /\ fin' = [fin EXCEPT ![r] = NewFinancials]
          /\ req'[r].lifecycle = "Preparing"
          /\ \A s \in Requests \ {r} : req'[s] = req[s]
      BY <2>1, <2>5, RequestFields DEF CreateRequest, TypeOK, RelationshipRequest
    <3>2. fin' = fin
      BY <2>1, <3>1 DEF MoneyPlaced, TypeOK
    <3>3. opened' = opened \cup {r} /\ r \notin opened
      BY <3>1
    <3>4. Payments!Open(r)
      BY <3>2, <3>3 DEF Payments!Open
    <3> QED
      BY <3>4 DEF Payments!Next
  <2>6. ASSUME NEW r \in Requests, Submit(r) PROVE Payments!Next
    <3> DEFINE S == Superseded(req[r].relationship)
               ending == [s \in S |-> "Cancelled"]
    <3>1. SubmitStep(r, S)
      BY <2>6, SubmitSteps
    <3>2. /\ S \subseteq Requests /\ r \notin S
          /\ req[r].lifecycle = "Preparing" /\ req'[r].lifecycle = "Awaiting"
          /\ \A s \in S : /\ req[s].lifecycle = "Preparing" /\ req'[s].lifecycle = "Cancelled"
                          /\ CanSettle(fin[s], "Cancelled")
          /\ \A s \in Requests \ S : s # r => req'[s] = req[s]
          /\ fin' = [s \in Requests |-> IF s \in S THEN Settle(s, fin[s], "Cancelled") ELSE fin[s]]
      BY <3>1 DEF SubmitStep
    <3> HIDE DEF S
    <3>3. opened' = opened /\ S \subseteq opened
      BY <3>2
    <3>4. DOMAIN ending = S /\ \A s \in S : ending[s] = "Cancelled"
      OBVIOUS
    <3>5. ending \in [S -> RequestSettlement]
      BY DEF RequestSettlement
    <3> HIDE DEF ending
    <3>6. Payments!SettleRequests(ending)
      BY SameMoney, <3>2, <3>3, <3>4 DEF Payments!SettleRequests
    <3> QED
      BY SameMoney, <3>2, <3>5, <3>6 DEF Payments!Next
  <2> QED
    BY <2>2, <2>3, <2>4, <2>5, <2>6, StepShapes DEF Shaped
<1> QED
  BY <1>1, <1>2, AlwaysKept, PTL DEF Spec, PaymentsSpec, Payments!Spec
=============================================================================
