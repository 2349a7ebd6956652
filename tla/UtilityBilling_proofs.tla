------------------------ MODULE UtilityBilling_proofs ------------------------
(***************************************************************************)
(* The annual service, for any offers, bank accounts, workers, attempts    *)
(* and faults.                                                             *)
(*                                                                         *)
(* The argument: what a worker confirms, however late, is what the         *)
(* processor has on record of that attempt, and a contract and the source  *)
(* of its destination take it together.  So an attempt that failed or was  *)
(* voided is one the processor will not charge any more, and only such an  *)
(* attempt is followed by another.                                         *)
(***************************************************************************)
EXTENDS UtilityBilling, FiniteSetTheorems, TLAPS

-----------------------------------------------------------------------------
(***************************************************************************)
(* The inductive invariant, its parts stated of the contracts C, the       *)
(* sources S, the processor's record P and its reversals R.                *)
(***************************************************************************)

\* The attempt was made.
Begun(C, o) == C[o[1]] # None /\ o[2] \in DOMAIN C[o[1]].attempts

\* A contract is the one its period names, as BillingAccount::validate reads it.
ContractPlaced(c, s) ==
    /\ c.offer.start = s
    /\ Len(c.attempts) \in 1..MaxAttempts
    /\ \A e \in c.events : e[1] \in DOMAIN c.attempts
    /\ ContractValid(c)
AccountValid(C) ==
    \A s \in Starts : C[s] # None =>
        /\ ContractPlaced(C[s], s)
        /\ \A r \in Starts \ {s} : C[r] # None => ~Overlap(C[r].offer, C[s].offer)

\* What a contract says of an attempt that ended is what the processor says.
AttemptsTrue(C, P, R) ==
    \A s \in Starts : C[s] # None =>
        \A n \in DOMAIN C[s].attempts :
            /\ C[s].attempts[n] \in Terminal => P[<<s, n>>] = C[s].attempts[n]
            /\ C[s].attempts[n] = "Reversed" => P[<<s, n>>] = "Settled" /\ <<s, n>> \in R
ReversedSettled(P, R) == \A o \in R : P[o] = "Settled"

\* Work is enqueued and charged for attempts that were made.
WorkBegun(C, I, P) ==
    \A o \in Operations : I[o].status # "none" \/ P[o] # "unknown" => Begun(C, o)

\* What a worker confirms is what the processor has on record, or had.
EvidenceTrue(P, o, receipt) ==
    /\ receipt \in Terminal \cup {"Pending"}
    /\ P[o] # "unknown"
    /\ receipt \in Terminal => P[o] = receipt

\* A worker executes an attempt that was made, and sends it under a grant.
WorkerSound(C, S, v, P) ==
    v.step # "idle" =>
        /\ v.item \in Operations /\ Begun(C, v.item)
        /\ v.step \in {"lookup", "submit", "confirm"} =>
              v.item \in S[C[v.item[1]].token].dispatched
        /\ v.step = "confirm" => EvidenceTrue(P, v.item, v.receipt)

\* The record of an attempt in the source of a bank account.
AttemptIn(c, t, o) ==
    IF c # None /\ c.token = t /\ o[2] <= Len(c.attempts) THEN c.attempts[o[2]] ELSE "None"
SourcesMatch(C, S, P) ==
    /\ \A s \in Starts : C[s] # None => S[C[s].token] # None
    /\ \A o \in Operations, t \in Tokens : S[t] # None =>
          /\ S[t].attempts[o] = AttemptIn(C[o[1]], t, o)
          /\ P[o] # "unknown" /\ C[o[1]].token = t => o \in S[t].dispatched

\* The books say what the contracts say.
In(C, settlement) == {s \in Starts : C[s] # None /\ C[s].settlement = settlement}
BooksMatch(C, L) ==
    /\ IsFiniteSet(In(C, "Funded")) /\ IsFiniteSet(In(C, "Reversed"))
    /\ \A s \in Starts : L.receipts[s] = IF s \in In(C, "Funded") \cup In(C, "Reversed") THEN 1 ELSE 0
    /\ L.clearing = -Cardinality(In(C, "Funded"))
    /\ L.loss = -Cardinality(In(C, "Reversed"))

IInv ==
    /\ TypeOK
    /\ AccountValid(contract)
    /\ AttemptsTrue(contract, proc, reversed)
    /\ ReversedSettled(proc, reversed)
    /\ WorkBegun(contract, item, proc)
    /\ \A w \in Workers : WorkerSound(contract, source, worker[w], proc)
    /\ SourcesMatch(contract, source, proc)
    /\ source[bank.token] # None
    /\ BooksMatch(contract, ledger)

-----------------------------------------------------------------------------
(***************************************************************************)
(* One attempt, and one contract.                                          *)
(***************************************************************************)

\* An outcome an attempt may take, and what it took before, stay its own.
LEMMA AdvanceFacts ==
    ASSUME NEW a \in PaymentState, NEW x \in Outcome, CanAdvance(a, x)
    PROVE  /\ Advance(a, x) \in PaymentState
           /\ Advance(a, x) # a =>
                 /\ x # "Pending" /\ Advance(a, x) = x
                 /\ \/ a = "Pending" /\ x \in Terminal
                    \/ a = "Settled" /\ x = "Reversed"
           /\ CanAdvance(Advance(a, x), x) /\ Advance(Advance(a, x), x) = Advance(a, x)
           /\ \A y \in Outcome : CanAdvance(a, y) /\ Advance(a, y) = a =>
                 CanAdvance(Advance(a, x), y) /\ Advance(Advance(a, x), y) = Advance(a, x)
BY DEF PaymentState, Outcome, CanAdvance, Advance, Terminal

\* What evidence leaves of the economic state.
Settles(c, n, outcome) == Economic(c.attempts[n], outcome) /\ outcome = "Settled"
Reverses(c, n, outcome) == Economic(c.attempts[n], outcome) /\ outcome = "Reversed"

\* ServiceContract::record: one attempt advances, the others stay.
LEMMA RecordedParts ==
    ASSUME NEW c \in Contract, NEW n \in DOMAIN c.attempts, n \in 1..MaxAttempts,
           NEW outcome \in Outcome, now \in Nat,
           CanRecordCollection(c, n, outcome), ExecutionValid(c),
           \A e \in c.events : e[1] \in DOMAIN c.attempts
    PROVE  LET d == Recorded(c, n, outcome)
           IN  /\ d \in Contract /\ d.offer = c.offer /\ d.token = c.token
               /\ Len(d.attempts) = Len(c.attempts) /\ DOMAIN d.attempts = DOMAIN c.attempts
               /\ CanAdvance(c.attempts[n], outcome)
               /\ d.attempts[n] = Advance(c.attempts[n], outcome)
               /\ \A m \in DOMAIN c.attempts \ {n} : d.attempts[m] = c.attempts[m]
               /\ d.events = c.events \cup {<<n, outcome>>}
               /\ d.settlement = IF Settles(c, n, outcome) THEN "Funded"
                                 ELSE IF Reverses(c, n, outcome) THEN "Reversed"
                                 ELSE c.settlement
               /\ d.at = IF Settles(c, n, outcome) THEN now ELSE c.at
<1> DEFINE d == Recorded(c, n, outcome)
           S == Seq(PaymentState)
<1>1. /\ c.attempts \in Seq(PaymentState) /\ c.attempts[n] \in PaymentState
      /\ c.offer \in Offers /\ c.token \in Tokens /\ c.at \in Nat
      /\ c.settlement \in {"Unfunded", "Funded", "Reversed"}
      /\ c.events \in SUBSET ((1..MaxAttempts) \X Outcome)
  BY DEF Contract
<1>2. CASE <<n, outcome>> \in c.events
  <2>1. d = c
    BY <1>2 DEF Recorded
  <2>2. CanAdvance(c.attempts[n], outcome) /\ Advance(c.attempts[n], outcome) = c.attempts[n]
    BY <1>2 DEF ExecutionValid
  <2>3. ~Settles(c, n, outcome) /\ ~Reverses(c, n, outcome)
    BY <2>2 DEF Settles, Reverses, Economic
  <2>4. c.events = c.events \cup {<<n, outcome>>}
    BY <1>2
  <2> HIDE DEF d
  <2> QED
    BY <2>1, <2>2, <2>3, <2>4 DEF d
<1>3. CASE <<n, outcome>> \notin c.events
  <2> DEFINE a == Advance(c.attempts[n], outcome)
             economic == Economic(c.attempts[n], outcome)
             settlement == IF ~economic THEN c.settlement
                           ELSE IF outcome = "Settled" THEN "Funded" ELSE "Reversed"
             at == IF economic /\ outcome = "Settled" THEN now ELSE c.at
             attempts == [c.attempts EXCEPT ![n] = a]
             events == c.events \cup {<<n, outcome>>}
  <2>1. d = [c EXCEPT !.attempts[n] = a, !.events = events, !.settlement = settlement, !.at = at]
    BY <1>3 DEF Recorded
  <2>2. CanAdvance(c.attempts[n], outcome) /\ a \in PaymentState
    <3>1. CanAdvance(c.attempts[n], outcome)
      BY <1>3 DEF CanRecordCollection
    <3> QED
      BY <1>1, <3>1, AdvanceFacts
  <2>3. /\ attempts \in Seq(PaymentState) /\ Len(attempts) = Len(c.attempts)
        /\ DOMAIN attempts = DOMAIN c.attempts /\ attempts[n] = a
        /\ \A m \in DOMAIN c.attempts \ {n} : attempts[m] = c.attempts[m]
    <3> HIDE DEF a
    <3> QED
      BY <1>1, <2>2
  <2>4. /\ events \in SUBSET ((1..MaxAttempts) \X Outcome)
        /\ settlement \in {"Unfunded", "Funded", "Reversed"} /\ at \in Nat
    BY <1>1
  <2>5. economic => outcome \in {"Settled", "Reversed"}
    BY DEF Economic
  <2>6. /\ settlement = IF Settles(c, n, outcome) THEN "Funded"
                        ELSE IF Reverses(c, n, outcome) THEN "Reversed" ELSE c.settlement
        /\ at = IF Settles(c, n, outcome) THEN now ELSE c.at
    BY <2>5 DEF Settles, Reverses
  <2> HIDE DEF a, economic, settlement, at, events
  <2>7. /\ d.attempts = attempts /\ d.events = events /\ d.settlement = settlement /\ d.at = at
        /\ d.offer = c.offer /\ d.token = c.token
    BY <2>1 DEF Contract
  <2>8. d = [offer |-> c.offer, token |-> c.token, attempts |-> attempts, events |-> events,
             settlement |-> settlement, at |-> at]
    BY <2>1 DEF Contract
  <2> HIDE DEF attempts
  <2>9. d \in Contract
    BY <1>1, <2>3, <2>4, <2>8 DEF Contract
  <2> HIDE DEF d
  <2> QED
    BY <2>2, <2>3, <2>6, <2>7, <2>9 DEF a, events, d
<1> QED
  BY <1>2, <1>3

\* A contract that took evidence can be loaded again.
LEMMA RecordedPlaced ==
    ASSUME NEW c \in Contract, NEW s, ContractPlaced(c, s), NEW n \in DOMAIN c.attempts,
           NEW outcome \in Outcome, now \in Nat, c.offer.collect \in Nat,
           CanRecordCollection(c, n, outcome)
    PROVE  /\ n \in 1..MaxAttempts
           /\ ContractPlaced(Recorded(c, n, outcome), s)
           /\ Settles(c, n, outcome) => c.settlement = "Unfunded"
           /\ Reverses(c, n, outcome) => c.settlement = "Funded"
<1> DEFINE d == Recorded(c, n, outcome)
<1>1. /\ c.attempts \in Seq(PaymentState) /\ Len(c.attempts) \in 1..MaxAttempts
      /\ DOMAIN c.attempts = 1..Len(c.attempts) /\ c.attempts[n] \in PaymentState
      /\ ContractValid(c) /\ ExecutionValid(c) /\ \A e \in c.events : e[1] \in DOMAIN c.attempts
      /\ c.offer.start = s /\ now >= c.offer.collect
      /\ c.events \in SUBSET ((1..MaxAttempts) \X Outcome)
  <2>1. /\ c.attempts \in Seq(PaymentState)
        /\ c.events \in SUBSET ((1..MaxAttempts) \X Outcome)
    BY DEF Contract
  <2>2. DOMAIN c.attempts = 1..Len(c.attempts) /\ c.attempts[n] \in PaymentState
    BY <2>1
  <2>3. /\ Len(c.attempts) \in 1..MaxAttempts /\ ContractValid(c) /\ c.offer.start = s
        /\ \A e \in c.events : e[1] \in DOMAIN c.attempts
    BY DEF ContractPlaced
  <2>4. ExecutionValid(c)
    BY <2>3 DEF ContractValid
  <2>5. now >= c.offer.collect
    BY DEF CanRecordCollection
  <2> QED
    BY <2>1, <2>2, <2>3, <2>4, <2>5
<1>2. n \in 1..MaxAttempts /\ MaxAttempts \in Nat /\ Len(c.attempts) \in DOMAIN c.attempts
  <2>1. MaxAttempts \in Nat /\ Len(c.attempts) \in Nat /\ Len(c.attempts) >= 1
        /\ Len(c.attempts) <= MaxAttempts
    BY <1>1, BillingAssumption
  <2>2. n \in 1..Len(c.attempts) /\ Len(c.attempts) \in 1..Len(c.attempts)
    BY <1>1, <2>1
  <2>3. n \in 1..MaxAttempts
    BY <2>1, <2>2
  <2> QED
    BY <1>1, <2>1, <2>2, <2>3
<1>3. /\ d.offer = c.offer /\ Len(d.attempts) = Len(c.attempts)
      /\ DOMAIN d.attempts = DOMAIN c.attempts
      /\ CanAdvance(c.attempts[n], outcome)
      /\ d.attempts[n] = Advance(c.attempts[n], outcome)
      /\ \A m \in DOMAIN c.attempts \ {n} : d.attempts[m] = c.attempts[m]
      /\ d.events = c.events \cup {<<n, outcome>>}
      /\ d.settlement = IF Settles(c, n, outcome) THEN "Funded"
                        ELSE IF Reverses(c, n, outcome) THEN "Reversed"
                        ELSE c.settlement
      /\ d.at = IF Settles(c, n, outcome) THEN now ELSE c.at
  BY <1>1, <1>2, RecordedParts
<1> HIDE DEF d
<1>4. Economic(c.attempts[n], outcome) =>
          /\ n = Len(c.attempts)
          /\ outcome = "Reversed" => c.settlement = "Funded"
  <2>1. CASE <<n, outcome>> \in c.events
    BY <1>1, <2>1 DEF ExecutionValid, Economic
  <2>2. CASE <<n, outcome>> \notin c.events
    BY <2>2 DEF CanRecordCollection
  <2> QED
    BY <2>1, <2>2
<1>5. /\ d.attempts[n] # c.attempts[n] =>
            /\ outcome # "Pending" /\ d.attempts[n] = outcome
            /\ \/ c.attempts[n] = "Pending" /\ outcome \in Terminal
               \/ c.attempts[n] = "Settled" /\ outcome = "Reversed"
      /\ CanAdvance(d.attempts[n], outcome) /\ Advance(d.attempts[n], outcome) = d.attempts[n]
      /\ \A y \in Outcome : CanAdvance(c.attempts[n], y) /\ Advance(c.attempts[n], y) = c.attempts[n] =>
            CanAdvance(d.attempts[n], y) /\ Advance(d.attempts[n], y) = d.attempts[n]
  BY <1>1, <1>3, AdvanceFacts
<1>6. \A m \in 1..(Len(d.attempts) - 1) : d.attempts[m] \in {"Failed", "Voided"}
  <2> SUFFICES ASSUME NEW m \in 1..(Len(c.attempts) - 1) PROVE d.attempts[m] \in {"Failed", "Voided"}
    BY <1>3
  <2>1. m \in DOMAIN c.attempts /\ c.attempts[m] \in {"Failed", "Voided"}
    BY <1>1 DEF ExecutionValid
  <2>2. m = n => d.attempts[n] = c.attempts[n]
    BY <1>5, <2>1
  <2> QED
    BY <1>3, <2>1, <2>2
<1>7. ASSUME NEW m \in DOMAIN d.attempts
      PROVE  /\ d.attempts[m] = "Reversed" => {<<m, "Settled">>, <<m, "Reversed">>} \subseteq d.events
             /\ d.attempts[m] \in Terminal => <<m, d.attempts[m]>> \in d.events
  <2>1. /\ c.attempts[m] = "Reversed" => {<<m, "Settled">>, <<m, "Reversed">>} \subseteq c.events
        /\ c.attempts[m] \in Terminal => <<m, c.attempts[m]>> \in c.events
    BY <1>1, <1>3, <1>7 DEF ExecutionValid
  <2>2. CASE d.attempts[m] = c.attempts[m]
    BY <1>3, <2>1, <2>2
  <2>3. CASE d.attempts[m] # c.attempts[m]
    <3>1. m = n
      BY <1>3, <1>7, <2>3
    <3> QED
      BY <1>3, <1>5, <2>1, <2>3, <3>1 DEF Terminal
  <2> QED
    BY <2>2, <2>3
<1>8. ASSUME NEW e \in d.events
      PROVE  /\ CanAdvance(d.attempts[e[1]], e[2])
             /\ Advance(d.attempts[e[1]], e[2]) = d.attempts[e[1]]
             /\ e[1] \in DOMAIN d.attempts
  <2>1. CASE e = <<n, outcome>>
    BY <1>3, <1>5, <2>1
  <2>2. CASE e \in c.events
    <3>1. /\ CanAdvance(c.attempts[e[1]], e[2]) /\ e[2] \in Outcome
          /\ Advance(c.attempts[e[1]], e[2]) = c.attempts[e[1]]
          /\ e[1] \in DOMAIN c.attempts
      BY <1>1, <2>2 DEF ExecutionValid
    <3> QED
      BY <1>3, <1>5, <3>1
  <2> QED
    BY <1>3, <2>1, <2>2
<1>9. ExecutionValid(d)
  BY <1>6, <1>7, <1>8 DEF ExecutionValid
<1>10. /\ Settles(c, n, outcome) =>
             /\ Current(c) = "Pending" /\ Current(d) = "Settled" /\ c.settlement = "Unfunded"
       /\ Reverses(c, n, outcome) =>
             /\ Current(c) = "Settled" /\ Current(d) = "Reversed" /\ c.settlement = "Funded"
  <2>1. Settles(c, n, outcome) => Current(c) = "Pending" /\ Current(d) = "Settled"
    BY <1>3, <1>4, <1>5 DEF Settles, Economic, Current
  <2>2. Reverses(c, n, outcome) => /\ Current(c) = "Settled" /\ Current(d) = "Reversed"
                                   /\ c.settlement = "Funded"
    BY <1>3, <1>4, <1>5 DEF Reverses, Economic, Current, Terminal
  <2>3. Current(c) = "Pending" => c.settlement = "Unfunded"
    BY <1>1 DEF ContractValid, Contract
  <2> QED
    BY <2>1, <2>2, <2>3
<1>11. ~Settles(c, n, outcome) /\ ~Reverses(c, n, outcome) =>
          \/ Current(d) = Current(c)
          \/ Current(c) = "Pending" /\ Current(d) \in {"Failed", "Voided"}
  <2>1. n # Len(c.attempts) => Current(d) = Current(c)
    BY <1>2, <1>3 DEF Current
  <2> QED
    BY <1>3, <1>5, <2>1 DEF Settles, Reverses, Economic, Current, Terminal
<1>12. ContractValid(d)
  <2>1. c.settlement \in {"Unfunded", "Funded", "Reversed"}
    BY DEF Contract
  <2>2. /\ c.settlement = "Unfunded" => Current(c) \in {"Pending", "Failed", "Voided"}
        /\ c.settlement = "Funded" => Current(c) = "Settled" /\ c.at >= c.offer.collect
        /\ c.settlement = "Reversed" => Current(c) = "Reversed" /\ c.at >= c.offer.collect
    BY <1>1, <2>1 DEF ContractValid
  <2>3. /\ d.settlement = "Unfunded" => Current(d) \in {"Pending", "Failed", "Voided"}
        /\ d.settlement = "Funded" => Current(d) = "Settled" /\ d.at >= d.offer.collect
        /\ d.settlement = "Reversed" => Current(d) = "Reversed" /\ d.at >= d.offer.collect
        /\ d.settlement \in {"Unfunded", "Funded", "Reversed"}
    <3>1. CASE Settles(c, n, outcome)
      BY <1>1, <1>3, <1>10, <3>1
    <3>2. CASE Reverses(c, n, outcome) /\ ~Settles(c, n, outcome)
      BY <1>3, <1>10, <2>2, <3>2
    <3>3. CASE ~Settles(c, n, outcome) /\ ~Reverses(c, n, outcome)
      BY <1>3, <1>11, <2>1, <2>2, <3>3
    <3> QED
      BY <3>1, <3>2, <3>3
  <2> QED
    BY <1>9, <2>3 DEF ContractValid
<1>13. ContractPlaced(d, s)
  BY <1>1, <1>3, <1>8, <1>12 DEF ContractPlaced
<1> QED
  BY <1>2, <1>10, <1>13 DEF d

-----------------------------------------------------------------------------
(***************************************************************************)
(* The sources.                                                            *)
(***************************************************************************)

LEMMA OperationParts ==
    ASSUME NEW o \in Operations
    PROVE  /\ o[1] \in Starts /\ o[2] \in 1..MaxAttempts /\ o = <<o[1], o[2]>>
           /\ o \in Captures /\ o \in Items
<1>1. o \in Starts \X (1..MaxAttempts)
  BY BillingAssumption
<1> QED
  BY <1>1, BillingAssumption

LEMMA ReservedSource ==
    ASSUME NEW s \in Source, NEW o \in Captures
    PROVE  LET r == Reserve(s, o)
           IN  /\ r \in Source /\ r.attempts[o] = "Pending" /\ r.dispatched = s.dispatched
               /\ \A p \in Captures \ {o} : r.attempts[p] = s.attempts[p]
<1> DEFINE r == Reserve(s, o)
           attempts == [s.attempts EXCEPT ![o] = "Pending"]
<1>1. r = [s EXCEPT !.attempts[o] = "Pending"]
  BY DEF Reserve
<1>2. /\ s.attempts \in [Captures -> PaymentState \cup {"None"}] /\ s.restricted \in BOOLEAN
      /\ s.dispatched \in SUBSET Captures
  BY DEF Source
<1>3. /\ attempts \in [Captures -> PaymentState \cup {"None"}] /\ attempts[o] = "Pending"
      /\ \A p \in Captures \ {o} : attempts[p] = s.attempts[p]
  BY <1>2 DEF PaymentState
<1>4. r = [restricted |-> s.restricted, attempts |-> attempts, dispatched |-> s.dispatched]
  BY <1>1 DEF Source
<1> HIDE DEF attempts, r
<1>5. r \in Source
  BY <1>2, <1>3, <1>4 DEF Source
<1> QED
  BY <1>3, <1>4, <1>5 DEF r

LEMMA DispatchedSource ==
    ASSUME NEW s \in Source, NEW o \in Captures
    PROVE  LET r == Dispatch(s, o)
           IN  /\ r \in Source /\ r.attempts = s.attempts /\ r.dispatched = s.dispatched \cup {o}
<1> DEFINE r == Dispatch(s, o)
<1>1. r = [restricted |-> s.restricted, attempts |-> s.attempts, dispatched |-> s.dispatched \cup {o}]
  BY DEF Source, Dispatch
<1>2. r \in Source
  BY <1>1 DEF Source
<1> QED
  BY <1>1, <1>2

LEMMA RecordedSource ==
    ASSUME NEW s \in Source, NEW o \in Captures, NEW outcome \in Outcome,
           s.attempts[o] \in PaymentState, CanAdvance(s.attempts[o], outcome)
    PROVE  LET r == RecordOutcome(s, o, outcome)
           IN  /\ r \in Source /\ r.attempts[o] = Advance(s.attempts[o], outcome)
               /\ r.dispatched = s.dispatched
               /\ \A p \in Captures \ {o} : r.attempts[p] = s.attempts[p]
<1> DEFINE r == RecordOutcome(s, o, outcome)
           a == Advance(s.attempts[o], outcome)
           attempts == [s.attempts EXCEPT ![o] = a]
           restricted == s.restricted \/ a \in {"Failed", "Reversed"}
<1>1. a \in PaymentState
  BY AdvanceFacts
<1>2. r = [s EXCEPT !.attempts[o] = a, !.restricted = restricted]
  BY DEF RecordOutcome
<1> HIDE DEF a
<1>3. /\ s.attempts \in [Captures -> PaymentState \cup {"None"}] /\ s.restricted \in BOOLEAN
      /\ s.dispatched \in SUBSET Captures
  BY DEF Source
<1>4. restricted \in BOOLEAN
  BY <1>3
<1>5. /\ attempts \in [Captures -> PaymentState \cup {"None"}] /\ attempts[o] = a
      /\ \A p \in Captures \ {o} : attempts[p] = s.attempts[p]
  BY <1>1, <1>3
<1> HIDE DEF restricted
<1>6. r = [restricted |-> restricted, attempts |-> attempts, dispatched |-> s.dispatched]
  BY <1>2 DEF Source
<1> HIDE DEF attempts, r
<1>7. r \in Source
  BY <1>3, <1>4, <1>5, <1>6 DEF Source
<1> QED
  BY <1>5, <1>6, <1>7 DEF r, a

-----------------------------------------------------------------------------
(***************************************************************************)
(* Records that only grow.                                                 *)
(***************************************************************************)

\* Attempts made stay made, on the same account, and grants stay granted.
Extends(C, S, D, T) ==
    \A o \in Operations : Begun(C, o) =>
        /\ Begun(D, o) /\ D[o[1]].token = C[o[1]].token
        /\ o \in S[C[o[1]].token].dispatched => o \in T[C[o[1]].token].dispatched

LEMMA ExtensionKeeps ==
    ASSUME NEW C, NEW S, NEW D, NEW T, Extends(C, S, D, T), NEW I, NEW P, NEW v
    PROVE  /\ WorkBegun(C, I, P) => WorkBegun(D, I, P)
           /\ WorkerSound(C, S, v, P) => WorkerSound(D, T, v, P)
BY DEF Extends, WorkBegun, WorkerSound

\* What every operation finds.
LEMMA BegunFacts ==
    ASSUME IInv, NEW o \in Operations, Begun(contract, o)
    PROVE  /\ o[1] \in Starts /\ contract[o[1]] \in Contract /\ contract[o[1]] # None
           /\ o[2] \in DOMAIN contract[o[1]].attempts /\ contract[o[1]].attempts[o[2]] \in PaymentState
           /\ o[2] \in 1..Len(contract[o[1]].attempts)
           /\ contract[o[1]].token \in Tokens /\ source[contract[o[1]].token] \in Source
           /\ source[contract[o[1]].token].attempts[o] = contract[o[1]].attempts[o[2]]
           /\ contract[o[1]].offer.collect \in Nat
<1> DEFINE s == o[1]
           c == contract[s]
<1>1. s \in Starts /\ c # None /\ o[2] \in DOMAIN c.attempts
  BY OperationParts DEF Begun
<1>2. TypeOK /\ SourcesMatch(contract, source, proc)
  BY DEF IInv
<1>3. c \in Contract
  BY <1>1, <1>2 DEF TypeOK
<1> HIDE DEF s
<1>4. /\ c.attempts \in Seq(PaymentState) /\ c.token \in Tokens /\ c.offer \in Offers
  BY <1>3 DEF Contract
<1>5. c.attempts[o[2]] \in PaymentState /\ o[2] \in 1..Len(c.attempts)
  BY <1>1, <1>4
<1>6. source[c.token] # None /\ source[c.token] \in Source
  BY <1>1, <1>2, <1>4 DEF TypeOK, SourcesMatch
<1>7. source[c.token].attempts[o] = AttemptIn(c, c.token, o)
  BY <1>2, <1>4, <1>6 DEF SourcesMatch, s
<1>8. AttemptIn(c, c.token, o) = c.attempts[o[2]]
  BY <1>1, <1>4, <1>5 DEF AttemptIn
<1>9. c.offer.collect \in Nat
  BY <1>4, BillingAssumption
<1> QED
  BY <1>1, <1>3, <1>4, <1>5, <1>6, <1>7, <1>8, <1>9 DEF s

-----------------------------------------------------------------------------
(***************************************************************************)
(* Evidence.                                                               *)
(***************************************************************************)

\* The postings of a contract that c becomes d.
Moves(c, d, s, L, M) ==
    \/ d.settlement = c.settlement /\ M = L
    \/ /\ c.settlement = "Unfunded" /\ d.settlement = "Funded"
       /\ M = [L EXCEPT !.clearing = @ - 1, !.receipts[s] = @ + 1]
    \/ /\ c.settlement = "Funded" /\ d.settlement = "Reversed"
       /\ M = [L EXCEPT !.loss = @ - 1, !.clearing = @ + 1]

\* The contract of s becomes d, whose settlement is what the evidence made it:
\* the books follow.
LEMMA BooksFollow ==
    ASSUME NEW C \in [Starts -> Contract \cup {None}], NEW L \in Ledger, BooksMatch(C, L),
           NEW s \in Starts, C[s] # None, NEW d \in Contract, NEW D, D = [C EXCEPT ![s] = d],
           NEW M, Moves(C[s], d, s, L, M)
    PROVE  BooksMatch(D, M) /\ M \in Ledger
<1> DEFINE F == In(C, "Funded")
           V == In(C, "Reversed")
<1>1. d # None
  BY AbsentAssumption
<1>2. /\ D[s] = d /\ \A r \in Starts \ {s} : D[r] = C[r]
  OBVIOUS
<1>3. /\ IsFiniteSet(F) /\ IsFiniteSet(V)
      /\ \A r \in Starts : L.receipts[r] = IF r \in F \cup V THEN 1 ELSE 0
      /\ L.clearing = -Cardinality(F) /\ L.loss = -Cardinality(V)
  BY DEF BooksMatch
<1>4. Cardinality(F) \in Nat /\ Cardinality(V) \in Nat
  BY <1>3, FS_CardinalityType
<1>5. /\ L.receipts \in [Starts -> Nat] /\ L.clearing \in Int /\ L.loss \in Int
      /\ L = [receipts |-> L.receipts, clearing |-> L.clearing, loss |-> L.loss]
  BY DEF Ledger
<1>6. CASE d.settlement = C[s].settlement /\ M = L
  <2>1. In(D, "Funded") = F /\ In(D, "Reversed") = V
    BY <1>1, <1>2, <1>6 DEF In
  <2> QED
    BY <1>3, <1>6, <2>1 DEF BooksMatch
<1>7. CASE /\ C[s].settlement = "Unfunded" /\ d.settlement = "Funded"
           /\ M = [L EXCEPT !.clearing = @ - 1, !.receipts[s] = @ + 1]
  <2>1. In(D, "Funded") = F \cup {s} /\ In(D, "Reversed") = V /\ s \notin F /\ s \notin V
    BY <1>1, <1>2, <1>7 DEF In
  <2>2. /\ M.clearing = L.clearing - 1 /\ M.loss = L.loss
        /\ M.receipts = [L.receipts EXCEPT ![s] = L.receipts[s] + 1]
    BY <1>5, <1>7
  <2>3. M = [receipts |-> [L.receipts EXCEPT ![s] = L.receipts[s] + 1],
             clearing |-> L.clearing - 1, loss |-> L.loss]
    BY <1>5, <1>7
  <2> HIDE DEF F, V
  <2>4. M.receipts[s] = 1 /\ \A r \in Starts \ {s} : M.receipts[r] = L.receipts[r]
    BY <1>3, <1>5, <2>1, <2>2
  <2>5. IsFiniteSet(F \cup {s}) /\ Cardinality(F \cup {s}) = Cardinality(F) + 1
    BY <1>3, <2>1, FS_AddElement
  <2>6. M.clearing = -Cardinality(F \cup {s})
    BY <1>3, <1>4, <2>2, <2>5
  <2>7. \A r \in Starts : M.receipts[r] = IF r \in (F \cup {s}) \cup V THEN 1 ELSE 0
    BY <1>3, <2>4
  <2>8. M \in Ledger
    BY <1>5, <2>3 DEF Ledger
  <2> QED
    BY <1>3, <2>1, <2>2, <2>5, <2>6, <2>7, <2>8 DEF BooksMatch
<1>8. CASE /\ C[s].settlement = "Funded" /\ d.settlement = "Reversed"
           /\ M = [L EXCEPT !.loss = @ - 1, !.clearing = @ + 1]
  <2>1. In(D, "Funded") = F \ {s} /\ In(D, "Reversed") = V \cup {s} /\ s \in F /\ s \notin V
    BY <1>1, <1>2, <1>8 DEF In
  <2>2. /\ M.clearing = L.clearing + 1 /\ M.loss = L.loss - 1 /\ M.receipts = L.receipts
        /\ M = [receipts |-> L.receipts, clearing |-> L.clearing + 1, loss |-> L.loss - 1]
    BY <1>5, <1>8
  <2> HIDE DEF F, V
  <2>3. /\ IsFiniteSet(F \ {s}) /\ Cardinality(F \ {s}) = Cardinality(F) - 1
        /\ IsFiniteSet(V \cup {s}) /\ Cardinality(V \cup {s}) = Cardinality(V) + 1
    BY <1>3, <2>1, FS_AddElement, FS_RemoveElement
  <2>4. M.clearing = -Cardinality(F \ {s}) /\ M.loss = -Cardinality(V \cup {s})
    BY <1>3, <1>4, <2>2, <2>3
  <2>5. \A r \in Starts : M.receipts[r] = IF r \in (F \ {s}) \cup (V \cup {s}) THEN 1 ELSE 0
    BY <1>3, <2>1, <2>2
  <2>6. M \in Ledger
    BY <1>5, <2>2 DEF Ledger
  <2> QED
    BY <2>1, <2>3, <2>4, <2>5, <2>6 DEF BooksMatch
<1> QED
  BY <1>6, <1>7, <1>8 DEF Moves

\* Evidence that is recorded: the contract, the source of its destination and
\* the books take what the processor did.
LEMMA RecordableKeeps ==
    ASSUME IInv, NEW o \in Operations, NEW outcome \in Outcome, Begun(contract, o),
           outcome \in Terminal => proc[o] = outcome,
           outcome = "Reversed" => o \in reversed,
           Recordable(o, outcome), ConfirmPayment(o, outcome)
    PROVE  /\ contract' \in [Starts -> Contract \cup {None}]
           /\ source' \in [Tokens -> Source \cup {None}] /\ ledger' \in Ledger
           /\ AccountValid(contract') /\ AttemptsTrue(contract', proc, reversed)
           /\ SourcesMatch(contract', source', proc)
           /\ \A t \in Tokens : source[t] # None => source'[t] # None
           /\ BooksMatch(contract', ledger')
           /\ Extends(contract, source, contract', source')
<1> DEFINE s == o[1]
           n == o[2]
           c == contract[s]
           d == Recorded(c, n, outcome)
           t == c.token
           x == RecordOutcome(source[t], o, outcome)
<1>1. /\ s \in Starts /\ c \in Contract /\ c # None /\ n \in DOMAIN c.attempts
      /\ c.attempts[n] \in PaymentState /\ t \in Tokens /\ source[t] \in Source
      /\ source[t].attempts[o] = c.attempts[n] /\ c.offer.collect \in Nat
  BY BegunFacts
<1>2. /\ o = <<s, n>> /\ o \in Captures /\ n \in 1..MaxAttempts
  BY OperationParts
<1>3. /\ CanRecordCollection(c, n, outcome) /\ CanRecordOutcome(source[t], o, outcome)
      /\ contract' = [contract EXCEPT ![s] = d]
      /\ source' = [source EXCEPT ![t] = x]
      /\ ledger' = Posted(s, c, n, outcome)
  BY DEF Recordable, ConfirmPayment, SourceAfter, SourceToken
<1>4. /\ TypeOK /\ AccountValid(contract) /\ AttemptsTrue(contract, proc, reversed)
      /\ ReversedSettled(proc, reversed) /\ SourcesMatch(contract, source, proc)
      /\ BooksMatch(contract, ledger) /\ now \in Nat
      /\ contract \in [Starts -> Contract \cup {None}] /\ ledger \in Ledger
      /\ source \in [Tokens -> Source \cup {None}]
  BY DEF IInv, TypeOK
<1>5. ContractPlaced(c, s)
  BY <1>1, <1>4 DEF AccountValid
<1>6. /\ ContractPlaced(d, s)
      /\ Settles(c, n, outcome) => c.settlement = "Unfunded"
      /\ Reverses(c, n, outcome) => c.settlement = "Funded"
  BY <1>1, <1>3, <1>4, <1>5, RecordedPlaced
<1>7. /\ d \in Contract /\ d.offer = c.offer /\ d.token = c.token
      /\ Len(d.attempts) = Len(c.attempts) /\ DOMAIN d.attempts = DOMAIN c.attempts
      /\ CanAdvance(c.attempts[n], outcome)
      /\ d.attempts[n] = Advance(c.attempts[n], outcome)
      /\ \A m \in DOMAIN c.attempts \ {n} : d.attempts[m] = c.attempts[m]
      /\ d.settlement = IF Settles(c, n, outcome) THEN "Funded"
                        ELSE IF Reverses(c, n, outcome) THEN "Reversed"
                        ELSE c.settlement
  <2>1. ExecutionValid(c) /\ \A e \in c.events : e[1] \in DOMAIN c.attempts
    BY <1>5 DEF ContractPlaced, ContractValid
  <2>2. n \in DOMAIN c.attempts /\ n \in 1..MaxAttempts /\ now \in Nat
        /\ CanRecordCollection(c, n, outcome)
    BY <1>1, <1>2, <1>3, <1>4
  <2>3. c \in Contract
    BY <1>1
  <2> HIDE DEF c, n, d
  <2>4. LET w == Recorded(c, n, outcome)
        IN  /\ w \in Contract /\ w.offer = c.offer /\ w.token = c.token
            /\ Len(w.attempts) = Len(c.attempts) /\ DOMAIN w.attempts = DOMAIN c.attempts
            /\ CanAdvance(c.attempts[n], outcome)
            /\ w.attempts[n] = Advance(c.attempts[n], outcome)
            /\ \A m \in DOMAIN c.attempts \ {n} : w.attempts[m] = c.attempts[m]
            /\ w.events = c.events \cup {<<n, outcome>>}
            /\ w.settlement = IF Settles(c, n, outcome) THEN "Funded"
                              ELSE IF Reverses(c, n, outcome) THEN "Reversed"
                              ELSE c.settlement
            /\ w.at = IF Settles(c, n, outcome) THEN now ELSE c.at
    BY <2>1, <2>2, <2>3, RecordedParts
  <2> QED
    BY <2>4 DEF d
<1>8. d # None
  BY <1>7, AbsentAssumption
<1>9. /\ x \in Source /\ x.attempts[o] = Advance(c.attempts[n], outcome)
      /\ x.dispatched = source[t].dispatched
      /\ \A p \in Captures \ {o} : x.attempts[p] = source[t].attempts[p]
  <2>1. /\ source[t] \in Source /\ source[t].attempts[o] = c.attempts[n]
        /\ c.attempts[n] \in PaymentState /\ o \in Captures
        /\ CanAdvance(c.attempts[n], outcome)
    BY <1>1, <1>2, <1>7
  <2> HIDE DEF s, n, c, d, t, x
  <2>2. LET w == RecordOutcome(source[t], o, outcome)
        IN  /\ w \in Source /\ w.attempts[o] = Advance(source[t].attempts[o], outcome)
            /\ w.dispatched = source[t].dispatched
            /\ \A p \in Captures \ {o} : w.attempts[p] = source[t].attempts[p]
    BY <2>1, RecordedSource
  <2> QED
    BY <2>1, <2>2 DEF x
<1>10. x # None
  BY <1>9, AbsentAssumption
<1> HIDE DEF s, n, c, d, t, x
<1>11. /\ contract'[s] = d /\ \A r \in Starts \ {s} : contract'[r] = contract[r]
       /\ contract' \in [Starts -> Contract \cup {None}]
  BY <1>1, <1>3, <1>4, <1>7
<1>12. /\ source'[t] = x /\ \A u \in Tokens \ {t} : source'[u] = source[u]
       /\ source' \in [Tokens -> Source \cup {None}]
  BY <1>1, <1>3, <1>4, <1>9
<1>13. AccountValid(contract')
  <2> SUFFICES ASSUME NEW r \in Starts, contract'[r] # None
               PROVE  /\ ContractPlaced(contract'[r], r)
                      /\ \A q \in Starts \ {r} : contract'[q] # None =>
                            ~Overlap(contract'[q].offer, contract'[r].offer)
    BY DEF AccountValid
  <2>1. \A q \in Starts : contract'[q] # None =>
            contract[q] # None /\ contract'[q].offer = contract[q].offer
    BY <1>1, <1>7, <1>11 DEF c
  <2>2. ContractPlaced(contract'[r], r)
    BY <1>4, <1>6, <1>11 DEF AccountValid
  <2> QED
    BY <1>4, <2>1, <2>2 DEF AccountValid
<1>14. AttemptsTrue(contract', proc, reversed)
  <2> SUFFICES ASSUME NEW r \in Starts, contract'[r] # None, NEW m \in DOMAIN contract'[r].attempts
               PROVE  /\ contract'[r].attempts[m] \in Terminal =>
                            proc[<<r, m>>] = contract'[r].attempts[m]
                      /\ contract'[r].attempts[m] = "Reversed" =>
                            proc[<<r, m>>] = "Settled" /\ <<r, m>> \in reversed
    BY DEF AttemptsTrue
  <2>1. CASE r # s \/ m # n
    <3>1. /\ contract[r] # None /\ m \in DOMAIN contract[r].attempts
          /\ contract'[r].attempts[m] = contract[r].attempts[m]
      BY <1>1, <1>7, <1>11, <2>1 DEF c
    <3> QED
      BY <1>4, <3>1 DEF AttemptsTrue
  <2>2. CASE r = s /\ m = n
    <3>1. contract'[r].attempts[m] = Advance(c.attempts[n], outcome) /\ <<r, m>> = o
      BY <1>2, <1>7, <1>11, <2>2
    <3>2. CASE Advance(c.attempts[n], outcome) = c.attempts[n]
      <4>1. /\ c.attempts[n] \in Terminal => proc[o] = c.attempts[n]
            /\ c.attempts[n] = "Reversed" => proc[o] = "Settled" /\ o \in reversed
        BY <1>1, <1>2, <1>4 DEF AttemptsTrue, c
      <4> QED
        BY <3>1, <3>2, <4>1
    <3>3. CASE Advance(c.attempts[n], outcome) # c.attempts[n]
      <4>1. Advance(c.attempts[n], outcome) = outcome
        BY <1>1, <1>7, <3>3, AdvanceFacts
      <4>2. outcome = "Reversed" => proc[o] = "Settled"
        BY <1>4 DEF ReversedSettled
      <4> QED
        BY <3>1, <4>1, <4>2
    <3> QED
      BY <3>2, <3>3
  <2> QED
    BY <2>1, <2>2
<1>15. SourcesMatch(contract', source', proc)
  <2>1. \A r \in Starts : contract'[r] # None =>
            contract[r] # None /\ contract'[r].token = contract[r].token
    BY <1>1, <1>7, <1>11 DEF c
  <2>2. \A u \in Tokens : source'[u] # None => source[u] # None
    BY <1>1, <1>12, AbsentAssumption
  <2>3. \A u \in Tokens : source[u] # None =>
            source'[u] # None /\ source'[u].dispatched = source[u].dispatched
    BY <1>9, <1>10, <1>12
  <2>4. \A r \in Starts : contract[r] # None => contract[r].token \in Tokens /\ contract[r] \in Contract
    BY <1>4 DEF Contract
  <2>5. \A r \in Starts : contract'[r] # None => source'[contract'[r].token] # None
    BY <1>4, <2>1, <2>3, <2>4 DEF SourcesMatch
  <2>6. ASSUME NEW p \in Operations, NEW u \in Tokens, source'[u] # None
        PROVE  /\ source'[u].attempts[p] = AttemptIn(contract'[p[1]], u, p)
               /\ proc[p] # "unknown" /\ contract'[p[1]].token = u => p \in source'[u].dispatched
    <3>0. /\ p[1] \in Starts /\ p[2] \in 1..MaxAttempts /\ p = <<p[1], p[2]>> /\ p \in Captures
      BY OperationParts
    <3>1. /\ source[u] # None /\ source[u].attempts[p] = AttemptIn(contract[p[1]], u, p)
          /\ proc[p] # "unknown" /\ contract[p[1]].token = u => p \in source[u].dispatched
      BY <1>4, <2>2, <2>6 DEF SourcesMatch
    <3>2. proc[p] # "unknown" => contract[p[1]] # None
      BY DEF IInv, WorkBegun, Begun
    <3>3. proc[p] # "unknown" /\ contract'[p[1]].token = u => p \in source'[u].dispatched
      <4>1. contract'[p[1]].token = contract[p[1]].token \/ contract[p[1]] = None
        BY <1>1, <1>7, <1>11, <3>0 DEF c
      <4> QED
        BY <2>3, <3>1, <3>2, <4>1
    <3>4. source'[u].attempts[p] = AttemptIn(contract'[p[1]], u, p)
      <4>1. CASE p = o /\ u = t
        <5>1. source'[u].attempts[p] = Advance(c.attempts[n], outcome)
          BY <1>9, <1>12, <4>1
        <5>2. AttemptIn(contract'[p[1]], u, p) = AttemptIn(d, t, o)
          BY <1>2, <1>11, <4>1 DEF s
        <5>3. n <= Len(d.attempts)
          BY <1>1, <1>7 DEF Contract
        <5>4. AttemptIn(d, t, o) = d.attempts[n]
          BY <1>7, <1>8, <5>3 DEF AttemptIn, n, t
        <5> QED
          BY <1>7, <5>1, <5>2, <5>4
      <4>2. CASE ~(p = o /\ u = t)
        <5>1. source'[u].attempts[p] = source[u].attempts[p]
          BY <1>9, <1>12, <3>0, <4>2
        <5>2. CASE p[1] # s
          BY <1>11, <3>0, <3>1, <5>1, <5>2
        <5>3. CASE p[1] = s
          <6>1. AttemptIn(contract[p[1]], u, p) = AttemptIn(c, u, p)
                /\ AttemptIn(contract'[p[1]], u, p) = AttemptIn(d, u, p)
            BY <1>11, <5>3 DEF c
          <6>2. CASE u # t
            BY <1>7, <3>1, <5>1, <6>1, <6>2 DEF AttemptIn, t
          <6>3. CASE u = t
            <7>1. p[2] # n
              BY <1>2, <3>0, <4>2, <5>3, <6>3
            <7>2. p[2] <= Len(c.attempts) => p[2] \in DOMAIN c.attempts
              <8>1. c.attempts \in Seq(PaymentState)
                BY <1>1 DEF Contract
              <8> QED
                BY <3>0, <8>1
            <7>3. AttemptIn(d, u, p) = AttemptIn(c, u, p)
              BY <1>1, <1>7, <1>8, <7>1, <7>2 DEF AttemptIn
            <7> QED
              BY <3>1, <5>1, <6>1, <7>3
          <6> QED
            BY <6>2, <6>3
        <5> QED
          BY <5>2, <5>3
      <4> QED
        BY <4>1, <4>2
    <3> QED
      BY <3>3, <3>4
  <2> QED
    BY <2>5, <2>6 DEF SourcesMatch
<1>16. BooksMatch(contract', ledger') /\ ledger' \in Ledger
  <2>1. Moves(c, d, s, ledger, ledger')
    <3>1. CASE Settles(c, n, outcome)
      BY <1>3, <1>6, <1>7, <3>1 DEF Posted, Settles, Moves
    <3>2. CASE Reverses(c, n, outcome)
      <4>1. ~Settles(c, n, outcome)
        BY <3>2 DEF Reverses, Settles
      <4> QED
        BY <1>3, <1>6, <1>7, <3>2, <4>1 DEF Posted, Settles, Reverses, Moves
    <3>3. CASE ~Settles(c, n, outcome) /\ ~Reverses(c, n, outcome)
      BY <1>3, <1>7, <3>3 DEF Posted, Settles, Reverses, Moves
    <3> QED
      BY <3>1, <3>2, <3>3
  <2>2. contract[s] = c /\ contract[s] # None
    BY <1>1 DEF c
  <2> QED
    BY <1>1, <1>3, <1>4, <1>7, <2>1, <2>2, BooksFollow
<1>17. \A u \in Tokens : source[u] # None => source'[u] # None
  BY <1>10, <1>12
<1>18. Extends(contract, source, contract', source')
  <2> SUFFICES ASSUME NEW p \in Operations, Begun(contract, p)
               PROVE  /\ Begun(contract', p) /\ contract'[p[1]].token = contract[p[1]].token
                      /\ p \in source[contract[p[1]].token].dispatched =>
                            p \in source'[contract[p[1]].token].dispatched
    BY DEF Extends
  <2>1. p[1] \in Starts /\ contract[p[1]].token \in Tokens
    BY BegunFacts
  <2>2. Begun(contract', p) /\ contract'[p[1]].token = contract[p[1]].token
    BY <1>7, <1>8, <1>11, <2>1 DEF Begun, c
  <2>3. source'[contract[p[1]].token].dispatched = source[contract[p[1]].token].dispatched
    BY <1>9, <1>12, <2>1
  <2> QED
    BY <2>2, <2>3
<1> QED
  BY <1>11, <1>12, <1>13, <1>14, <1>15, <1>16, <1>17, <1>18

-----------------------------------------------------------------------------
(***************************************************************************)
(* The queue, the workers and the processor.                               *)
(***************************************************************************)

\* What a worker's step makes of it.
Moved(w, step, o, receipt) ==
    /\ worker' \in [Workers -> Worker]
    /\ worker'[w].step = step /\ worker'[w].item = o /\ worker'[w].receipt = receipt
    /\ \A v \in Workers \ {w} : worker'[v] = worker[v]

LEMMA WorkerMoves ==
    ASSUME worker \in [Workers -> Worker], NEW w \in Workers
    PROVE  /\ \A step \in {"lookup", "submit"} :
                 Proceed(w, step) => Moved(w, step, worker[w].item, worker[w].receipt)
           /\ \A result \in {"complete", "ready", "blocked"} :
                 Conclude(w, result) => Moved(w, "finish", worker[w].item, worker[w].receipt)
           /\ \A outcome \in Outcome :
                 Answered(w, outcome) => Moved(w, "confirm", worker[w].item, outcome)
           /\ worker' = [worker EXCEPT ![w] = IdleWorker] => Moved(w, "idle", None, "unknown")
           /\ \A i \in Items :
                 worker' = [worker EXCEPT ![w] = [IdleWorker EXCEPT !.step = "authorize", !.item = i]] =>
                     Moved(w, "authorize", i, "unknown")
<1>1. worker[w] \in Worker
  OBVIOUS
<1>2. ASSUME NEW step \in {"lookup", "submit"}, Proceed(w, step)
      PROVE  Moved(w, step, worker[w].item, worker[w].receipt)
  <2> DEFINE v == [worker[w] EXCEPT !.step = step]
  <2>1. v \in Worker /\ v.step = step /\ v.item = worker[w].item /\ v.receipt = worker[w].receipt
    BY <1>1 DEF Worker
  <2>2. worker' = [worker EXCEPT ![w] = v]
    BY <1>2 DEF Proceed
  <2> HIDE DEF v
  <2> QED
    BY <2>1, <2>2 DEF Moved
<1>3. ASSUME NEW result \in {"complete", "ready", "blocked"}, Conclude(w, result)
      PROVE  Moved(w, "finish", worker[w].item, worker[w].receipt)
  <2> DEFINE v == [worker[w] EXCEPT !.step = "finish", !.result = result]
  <2>1. v \in Worker /\ v.step = "finish" /\ v.item = worker[w].item /\ v.receipt = worker[w].receipt
    BY <1>1 DEF Worker
  <2>2. worker' = [worker EXCEPT ![w] = v]
    BY <1>3 DEF Conclude
  <2> HIDE DEF v
  <2> QED
    BY <2>1, <2>2 DEF Moved
<1>4. ASSUME NEW outcome \in Outcome, Answered(w, outcome)
      PROVE  Moved(w, "confirm", worker[w].item, outcome)
  <2> DEFINE v == [worker[w] EXCEPT !.step = "confirm", !.receipt = outcome]
  <2>1. v \in Worker /\ v.step = "confirm" /\ v.item = worker[w].item /\ v.receipt = outcome
    BY <1>1 DEF Worker
  <2>2. worker' = [worker EXCEPT ![w] = v]
    BY <1>4 DEF Answered
  <2> HIDE DEF v
  <2> QED
    BY <2>1, <2>2 DEF Moved
<1>5. worker' = [worker EXCEPT ![w] = IdleWorker] => Moved(w, "idle", None, "unknown")
  BY DEF Moved, IdleWorker, Worker
<1>6. ASSUME NEW i \in Items,
             worker' = [worker EXCEPT ![w] = [IdleWorker EXCEPT !.step = "authorize", !.item = i]]
      PROVE  Moved(w, "authorize", i, "unknown")
  <2> DEFINE v == [IdleWorker EXCEPT !.step = "authorize", !.item = i]
  <2>1. v \in Worker /\ v.step = "authorize" /\ v.item = i /\ v.receipt = "unknown"
    BY DEF Worker, IdleWorker
  <2>2. worker' = [worker EXCEPT ![w] = v]
    BY <1>6
  <2> HIDE DEF v
  <2> QED
    BY <2>1, <2>2 DEF Moved
<1> QED
  BY <1>2, <1>3, <1>4, <1>5, <1>6

LEMMA QueueFacts ==
    ASSUME IInv
    PROVE  /\ Items = Operations
           /\ item \in [Operations -> WorkItem] /\ worker \in [Workers -> Worker]
           /\ proc \in [Operations -> Terminal \cup {"Pending", "unknown"}]
           /\ reversed \in SUBSET Operations /\ faults \in 0..MaxFaults
BY BillingAssumption DEF IInv, TypeOK, QueueTypeOK

LEMMA FaultCounted == ASSUME IInv, Fault \/ UNCHANGED faults PROVE faults' \in 0..MaxFaults
<1>1. faults \in 0..MaxFaults /\ MaxFaults \in Nat
  BY QueueFacts, WorkersAssumption
<1> QED
  BY <1>1 DEF Fault

\* What stays when only the queue, the workers and the processor change.
LEMMA QueueKeeps ==
    ASSUME IInv, UNCHANGED others,
           item' \in [Operations -> WorkItem], worker' \in [Workers -> Worker],
           proc' \in [Operations -> Terminal \cup {"Pending", "unknown"}],
           reversed' \in SUBSET Operations, faults' \in 0..MaxFaults,
           AttemptsTrue(contract, proc', reversed'), ReversedSettled(proc', reversed'),
           WorkBegun(contract, item', proc'),
           \A w \in Workers : WorkerSound(contract, source, worker'[w], proc'),
           SourcesMatch(contract, source, proc')
    PROVE  IInv'
<1>1. UNCHANGED <<now, bank, contract, source, verified, ledger>>
  BY DEF others, account
<1>2. QueueTypeOK'
  BY BillingAssumption DEF QueueTypeOK
<1>3. TypeOK'
  BY <1>1, <1>2 DEF IInv, TypeOK
<1> QED
  BY <1>1, <1>3 DEF IInv

\* ... when the processor's record stays too.
LEMMA WorkKeeps ==
    ASSUME IInv, UNCHANGED others, UNCHANGED <<proc, reversed>>,
           item' \in [Operations -> WorkItem], worker' \in [Workers -> Worker],
           Fault \/ UNCHANGED faults,
           \A o \in Operations : item'[o].status # "none" => Begun(contract, o),
           \A w \in Workers : WorkerSound(contract, source, worker'[w], proc)
    PROVE  IInv'
<1>1. /\ AttemptsTrue(contract, proc, reversed) /\ ReversedSettled(proc, reversed)
      /\ WorkBegun(contract, item, proc) /\ SourcesMatch(contract, source, proc)
  BY DEF IInv
<1>2. WorkBegun(contract, item', proc)
  BY <1>1 DEF WorkBegun
<1> QED
  BY <1>1, <1>2, QueueFacts, FaultCounted, QueueKeeps

\* Work that is claimed, tried again or waits for a worker was made.
LEMMA ItemBegun ==
    ASSUME IInv, NEW o \in Operations, item[o].status # "none" \/ proc[o] # "unknown"
    PROVE  Begun(contract, o)
BY DEF IInv, WorkBegun

LEMMA WorkersSound == ASSUME IInv, NEW w \in Workers PROVE WorkerSound(contract, source, worker[w], proc)
BY DEF IInv

LEMMA ClaimKeeps ==
    ASSUME IInv, NEW w \in Workers, NEW i \in Items, ClaimCollection(w, i)
    PROVE  IInv'
<1>1. /\ UNCHANGED others /\ UNCHANGED <<proc, reversed>>
      /\ Fault \/ UNCHANGED faults
      /\ item' = [item EXCEPT ![i] = [status |-> "running", holder |-> w]]
      /\ worker' = [worker EXCEPT ![w] = [IdleWorker EXCEPT !.step = "authorize", !.item = i]]
      /\ item[i].status # "none"
  BY DEF ClaimCollection, Claim
<1>2. /\ i \in Operations /\ item \in [Operations -> WorkItem] /\ worker \in [Workers -> Worker]
  BY QueueFacts
<1>3. Begun(contract, i)
  BY <1>1, <1>2, ItemBegun
<1>4. /\ item' \in [Operations -> WorkItem]
      /\ \A o \in Operations : item'[o].status # "none" => Begun(contract, o)
  BY <1>1, <1>2, <1>3, ItemBegun DEF WorkItem
<1>5. Moved(w, "authorize", i, "unknown")
  BY <1>1, <1>2, WorkerMoves
<1>6. ASSUME NEW v \in Workers PROVE WorkerSound(contract, source, worker'[v], proc)
  <2>1. CASE v = w
    BY <1>2, <1>3, <1>5, <2>1 DEF Moved, WorkerSound
  <2>2. CASE v # w
    BY <1>5, <2>2, WorkersSound DEF Moved
  <2> QED
    BY <2>1, <2>2
<1> QED
  BY <1>1, <1>4, <1>5, <1>6, WorkKeeps DEF Moved

\* A step of worker w that leaves the records and the processor alone.
LEMMA MoveKeeps ==
    ASSUME IInv, UNCHANGED others, UNCHANGED <<proc, reversed>>, Fault \/ UNCHANGED faults,
           item' \in [Operations -> WorkItem],
           \A o \in Operations : item'[o].status # "none" => Begun(contract, o),
           NEW w \in Workers, NEW step, NEW o, NEW receipt, Moved(w, step, o, receipt),
           step # "idle" => o \in Operations /\ Begun(contract, o),
           step \in {"lookup", "submit", "confirm"} =>
               o \in source[contract[o[1]].token].dispatched,
           step = "confirm" => EvidenceTrue(proc, o, receipt)
    PROVE  IInv'
<1>1. ASSUME NEW v \in Workers PROVE WorkerSound(contract, source, worker'[v], proc)
  <2>1. CASE v = w
    BY <2>1 DEF Moved, WorkerSound
  <2>2. CASE v # w
    BY <2>2, WorkersSound DEF Moved
  <2> QED
    BY <2>1, <2>2
<1> QED
  BY <1>1, WorkKeeps DEF Moved

LEMMA LookupKeeps == ASSUME IInv, UNCHANGED others, NEW w \in Workers, Lookup(w) PROVE IInv'
<1> DEFINE o == worker[w].item
<1>1. /\ worker[w].step = "lookup" /\ UNCHANGED <<item, proc, reversed, faults>>
      /\ IF proc[o] = "unknown" THEN Proceed(w, "submit") ELSE Answered(w, proc[o])
  BY DEF Lookup
<1>2. /\ o \in Operations /\ Begun(contract, o) /\ o \in source[contract[o[1]].token].dispatched
  BY <1>1, WorkersSound DEF WorkerSound
<1>3. /\ item \in [Operations -> WorkItem] /\ worker \in [Workers -> Worker]
      /\ proc[o] \in Terminal \cup {"Pending", "unknown"}
      /\ \A p \in Operations : item[p].status # "none" => Begun(contract, p)
  BY <1>2, QueueFacts, ItemBegun
<1> HIDE DEF o
<1>4. CASE proc[o] = "unknown"
  <2>1. Moved(w, "submit", o, worker[w].receipt)
    BY <1>1, <1>3, <1>4, WorkerMoves DEF o
  <2> QED
    BY <1>1, <1>2, <1>3, <2>1, MoveKeeps
<1>5. CASE proc[o] # "unknown"
  <2>1. proc[o] \in Outcome /\ EvidenceTrue(proc, o, proc[o])
    BY <1>3, <1>5 DEF EvidenceTrue, Outcome, Terminal
  <2>2. Moved(w, "confirm", o, proc[o])
    BY <1>1, <1>3, <1>5, <2>1, WorkerMoves DEF o
  <2> QED
    BY <1>1, <1>2, <1>3, <2>1, <2>2, MoveKeeps
<1> QED
  BY <1>4, <1>5

LEMMA FinishKeeps == ASSUME IInv, UNCHANGED others, NEW w \in Workers, Finish(w) PROVE IInv'
<1> DEFINE i == worker[w].item
           done == [status |-> worker[w].result, holder |-> None]
<1>1. /\ worker[w].step = "finish" /\ UNCHANGED <<proc, reversed, faults>>
      /\ item' = IF item[i] = [status |-> "running", holder |-> w]
                 THEN [item EXCEPT ![i] = done] ELSE item
      /\ worker' = [worker EXCEPT ![w] = IdleWorker]
  BY DEF Finish
<1>2. i \in Operations /\ Begun(contract, i)
  BY <1>1, WorkersSound DEF WorkerSound
<1>3. /\ item \in [Operations -> WorkItem] /\ worker \in [Workers -> Worker]
      /\ \A p \in Operations : item[p].status # "none" => Begun(contract, p)
  BY QueueFacts, ItemBegun
<1>4. done \in WorkItem
  BY <1>3 DEF WorkItem, Worker
<1>5. Moved(w, "idle", None, "unknown")
  BY <1>1, <1>3, WorkerMoves
<1> HIDE DEF i, done
<1>6. /\ item' \in [Operations -> WorkItem]
      /\ \A p \in Operations : item'[p].status # "none" => Begun(contract, p)
  BY <1>1, <1>2, <1>3, <1>4
<1> QED
  BY <1>1, <1>5, <1>6, MoveKeeps

\* Whatever stops a worker, and work that is resumed.
LEMMA DisturbanceKeeps == ASSUME IInv, UNCHANGED others, Disturbance PROVE IInv'
<1>1. /\ item \in [Operations -> WorkItem] /\ worker \in [Workers -> Worker]
      /\ proc \in [Operations -> Terminal \cup {"Pending", "unknown"}]
      /\ reversed \in SUBSET Operations /\ faults \in 0..MaxFaults /\ Items = Operations
      /\ \A p \in Operations : item[p].status # "none" => Begun(contract, p)
  BY QueueFacts, ItemBegun
<1>2. ASSUME NEW w \in Workers, Unavailable(w) PROVE IInv'
  <2>1. Moved(w, "finish", worker[w].item, worker[w].receipt)
    BY <1>1, <1>2, WorkerMoves DEF Unavailable
  <2>2. worker[w].item \in Operations /\ Begun(contract, worker[w].item)
    BY <1>2, WorkersSound DEF Unavailable, WorkerSound
  <2> QED
    BY <1>1, <1>2, <2>1, <2>2, MoveKeeps DEF Unavailable
<1>3. ASSUME NEW w \in Workers, Crash(w) PROVE IInv'
  <2>1. Moved(w, "idle", None, "unknown")
    BY <1>1, <1>3, WorkerMoves DEF Crash
  <2> QED
    BY <1>1, <1>3, <2>1, MoveKeeps DEF Crash
<1>4. ASSUME NEW i \in Items, Resume(i) PROVE IInv'
  <2>1. /\ item[i].status = "blocked" /\ item' = [item EXCEPT ![i].status = "ready"]
        /\ UNCHANGED <<worker, proc, reversed>> /\ Fault
    BY <1>4 DEF Resume
  <2>2. /\ item' \in [Operations -> WorkItem]
        /\ \A o \in Operations : item'[o].status # "none" => item[o].status # "none"
    BY <1>1, <2>1 DEF WorkItem
  <2> QED
    BY <1>1, <2>1, <2>2, WorkersSound, WorkKeeps
<1>5. ASSUME NEW o \in Operations, Reverse(o) PROVE IInv'
  <2>1. /\ proc[o] = "Settled" /\ reversed' = reversed \cup {o}
        /\ UNCHANGED <<item, worker, proc, faults>>
    BY <1>5 DEF Reverse
  <2>2. /\ AttemptsTrue(contract, proc, reversed) /\ ReversedSettled(proc, reversed)
        /\ WorkBegun(contract, item, proc) /\ SourcesMatch(contract, source, proc)
    BY DEF IInv
  <2>3. AttemptsTrue(contract, proc, reversed') /\ ReversedSettled(proc, reversed')
    BY <2>1, <2>2 DEF AttemptsTrue, ReversedSettled
  <2>4. reversed' \in SUBSET Operations /\ faults' \in 0..MaxFaults
    BY <1>1, <2>1
  <2> QED
    BY <1>1, <2>1, <2>2, <2>3, <2>4, WorkersSound, QueueKeeps
<1> QED
  BY <1>2, <1>3, <1>4, <1>5 DEF Disturbance

\* The processor puts an attempt on record, or what became of it: only what it
\* has not decided changes.
LEMMA ProcessorKeeps ==
    ASSUME IInv, UNCHANGED others, UNCHANGED <<item, reversed>>, Fault \/ UNCHANGED faults,
           NEW o \in Operations, Begun(contract, o),
           o \in source[contract[o[1]].token].dispatched,
           NEW outcome \in Terminal \cup {"Pending"}, proc[o] \in {"unknown", "Pending"},
           proc' = [proc EXCEPT ![o] = outcome],
           worker' \in [Workers -> Worker],
           \A w \in Workers : WorkerSound(contract, source, worker'[w], proc')
    PROVE  IInv'
<1>1. /\ item \in [Operations -> WorkItem] /\ reversed \in SUBSET Operations
      /\ proc \in [Operations -> Terminal \cup {"Pending", "unknown"}]
  BY QueueFacts
<1>2. /\ AttemptsTrue(contract, proc, reversed) /\ ReversedSettled(proc, reversed)
      /\ WorkBegun(contract, item, proc) /\ SourcesMatch(contract, source, proc)
  BY DEF IInv
<1>3. /\ proc' \in [Operations -> Terminal \cup {"Pending", "unknown"}]
      /\ proc'[o] = outcome /\ \A p \in Operations \ {o} : proc'[p] = proc[p]
  BY <1>1
<1>4. ReversedSettled(proc', reversed)
  BY <1>1, <1>2, <1>3 DEF ReversedSettled
<1>5. AttemptsTrue(contract, proc', reversed)
  <2> SUFFICES ASSUME NEW s \in Starts, contract[s] # None, NEW n \in DOMAIN contract[s].attempts
               PROVE  /\ contract[s].attempts[n] \in Terminal =>
                            proc'[<<s, n>>] = contract[s].attempts[n]
                      /\ contract[s].attempts[n] = "Reversed" =>
                            proc'[<<s, n>>] = "Settled" /\ <<s, n>> \in reversed
    BY DEF AttemptsTrue
  <2>1. /\ contract[s].attempts[n] \in Terminal => proc[<<s, n>>] = contract[s].attempts[n]
        /\ contract[s].attempts[n] = "Reversed" =>
              proc[<<s, n>>] = "Settled" /\ <<s, n>> \in reversed
    BY <1>2 DEF AttemptsTrue
  <2>2. <<s, n>> \in Operations
    <3>1. n \in 1..MaxAttempts
      <4>1. ContractPlaced(contract[s], s) /\ contract[s] \in Contract
        BY DEF IInv, AccountValid, TypeOK
      <4>2. Len(contract[s].attempts) \in 1..MaxAttempts /\ contract[s].attempts \in Seq(PaymentState)
        BY <4>1 DEF ContractPlaced, Contract
      <4>3. n \in 1..Len(contract[s].attempts)
        BY <4>2
      <4>4. MaxAttempts \in Nat
        BY BillingAssumption
      <4> QED
        BY <4>2, <4>3, <4>4
    <3> QED
      BY <3>1, BillingAssumption
  <2>3. proc[o] \notin Terminal
    BY DEF Terminal
  <2>4. proc[<<s, n>>] \in Terminal => proc'[<<s, n>>] = proc[<<s, n>>]
    BY <1>3, <2>2, <2>3
  <2> QED
    BY <2>1, <2>4 DEF Terminal
<1>6. WorkBegun(contract, item, proc')
  BY <1>2, <1>3 DEF WorkBegun
<1>7. SourcesMatch(contract, source, proc')
  BY <1>2, <1>3 DEF SourcesMatch
<1> QED
  BY <1>1, <1>3, <1>4, <1>5, <1>6, <1>7, FaultCounted, QueueKeeps

\* What a worker was told stays true when only what was undecided changes.
LEMMA ToldKeeps ==
    ASSUME NEW C, NEW S, NEW v, NEW P, NEW Q, WorkerSound(C, S, v, P),
           NEW o, Q[o] # "unknown", P[o] \notin Terminal,
           \A p \in Operations \ {o} : Q[p] = P[p]
    PROVE  WorkerSound(C, S, v, Q)
BY DEF WorkerSound, EvidenceTrue

LEMMA SubmitKeeps ==
    ASSUME IInv, UNCHANGED others, NEW w \in Workers,
           NEW outcome \in {"Settled", "Pending", "Failed"}, Submit(w, outcome)
    PROVE  IInv'
<1> DEFINE o == worker[w].item
<1>1. worker[w].step = "submit" /\ UNCHANGED <<item, reversed>>
  BY DEF Submit
<1>2. /\ o \in Operations /\ Begun(contract, o) /\ o \in source[contract[o[1]].token].dispatched
  BY <1>1, WorkersSound DEF WorkerSound
<1>3. /\ item \in [Operations -> WorkItem] /\ worker \in [Workers -> Worker]
      /\ proc \in [Operations -> Terminal \cup {"Pending", "unknown"}]
      /\ \A p \in Operations : item[p].status # "none" => Begun(contract, p)
  BY QueueFacts, ItemBegun
<1>4. CASE proc[o] # "unknown"
  <2>1. /\ Answered(w, proc[o]) /\ UNCHANGED <<proc, faults>>
    BY <1>4 DEF Submit
  <2>2. proc[o] \in Outcome /\ EvidenceTrue(proc, o, proc[o])
    BY <1>2, <1>3, <1>4 DEF EvidenceTrue, Outcome, Terminal
  <2> HIDE DEF o
  <2>3. Moved(w, "confirm", o, proc[o])
    BY <1>3, <2>1, <2>2, WorkerMoves DEF o
  <2> QED
    BY <1>1, <1>2, <1>3, <2>1, <2>2, <2>3, MoveKeeps
<1>5. CASE proc[o] = "unknown"
  <2>1. /\ proc' = [proc EXCEPT ![o] = outcome]
        /\ \/ Answered(w, outcome) /\ UNCHANGED faults
           \/ Conclude(w, "ready") /\ Fault
    BY <1>5 DEF Submit
  <2> HIDE DEF o
  <2>2. proc'[o] = outcome /\ \A p \in Operations \ {o} : proc'[p] = proc[p]
    BY <1>2, <1>3, <2>1
  <2>3. outcome \in Outcome /\ outcome \in Terminal \cup {"Pending"} /\ outcome # "unknown"
    BY DEF Outcome, Terminal
  <2>4. \/ Moved(w, "confirm", o, outcome)
        \/ Moved(w, "finish", o, worker[w].receipt)
    BY <1>3, <2>1, <2>3, WorkerMoves DEF o
  <2>5. ASSUME NEW v \in Workers PROVE WorkerSound(contract, source, worker'[v], proc')
    <3>1. CASE v = w
      BY <1>2, <2>2, <2>3, <2>4, <3>1 DEF Moved, WorkerSound, EvidenceTrue
    <3>2. CASE v # w
      <4>1. worker'[v] = worker[v] /\ proc[o] \notin Terminal
        BY <1>5, <2>4, <3>2 DEF Moved, Terminal
      <4> QED
        BY <2>2, <2>3, <4>1, WorkersSound, ToldKeeps
    <3> QED
      BY <3>1, <3>2
  <2>6. worker' \in [Workers -> Worker]
    BY <2>4 DEF Moved
  <2>7. proc[o] \in {"unknown", "Pending"}
    BY <1>5
  <2>8. Fault \/ UNCHANGED faults
    BY <2>1
  <2> QED
    BY <1>1, <1>2, <2>1, <2>3, <2>5, <2>6, <2>7, <2>8, ProcessorKeeps
<1> QED
  BY <1>4, <1>5

LEMMA ResolveKeeps ==
    ASSUME IInv, UNCHANGED others, NEW o \in Operations, NEW outcome \in Terminal, Resolve(o, outcome)
    PROVE  IInv'
<1>1. /\ proc[o] = "Pending" /\ proc' = [proc EXCEPT ![o] = outcome]
      /\ UNCHANGED <<item, worker, reversed, faults>>
  BY DEF Resolve
<1>2. /\ proc \in [Operations -> Terminal \cup {"Pending", "unknown"}]
      /\ worker \in [Workers -> Worker] /\ Begun(contract, o)
  BY <1>1, QueueFacts, ItemBegun
<1>3. /\ proc'[o] = outcome /\ \A p \in Operations \ {o} : proc'[p] = proc[p]
      /\ outcome # "unknown" /\ proc[o] \notin Terminal
  BY <1>1, <1>2 DEF Terminal
<1>4. o \in source[contract[o[1]].token].dispatched
  <2>1. /\ contract[o[1]].token \in Tokens /\ source[contract[o[1]].token] # None
    BY <1>2, BegunFacts, AbsentAssumption
  <2> QED
    BY <1>1, <2>1 DEF IInv, SourcesMatch
<1>5. ASSUME NEW w \in Workers PROVE WorkerSound(contract, source, worker'[w], proc')
  BY <1>1, <1>3, WorkersSound, ToldKeeps
<1> QED
  BY <1>1, <1>2, <1>4, <1>5, ProcessorKeeps

-----------------------------------------------------------------------------
(***************************************************************************)
(* The account, its sources and the books.                                 *)
(***************************************************************************)

\* What stays when the records change and nothing is taken back.
LEMMA RecordsKeep ==
    ASSUME IInv,
           now' \in 0..MaxTime, bank' \in [token : Tokens, version : 1..MaxVersion],
           verified' \in [Tokens -> 0..MaxVersion],
           contract' \in [Starts -> Contract \cup {None}],
           source' \in [Tokens -> Source \cup {None}], ledger' \in Ledger,
           AccountValid(contract'), AttemptsTrue(contract', proc, reversed),
           SourcesMatch(contract', source', proc), source'[bank'.token] # None,
           BooksMatch(contract', ledger'), Extends(contract, source, contract', source'),
           UNCHANGED <<proc, reversed, faults>>,
           item' \in [Operations -> WorkItem],
           \A o \in Operations : item'[o].status # "none" => Begun(contract', o),
           worker' \in [Workers -> Worker],
           \A w \in Workers : WorkerSound(contract', source', worker'[w], proc)
    PROVE  IInv'
<1>1. /\ proc \in [Operations -> Terminal \cup {"Pending", "unknown"}]
      /\ reversed \in SUBSET Operations /\ faults \in 0..MaxFaults
  BY QueueFacts
<1>2. QueueTypeOK'
  BY <1>1, BillingAssumption DEF QueueTypeOK
<1>3. TypeOK'
  BY <1>2 DEF TypeOK
<1>4. ReversedSettled(proc, reversed) /\ WorkBegun(contract, item, proc)
  BY DEF IInv
<1>5. WorkBegun(contract', item', proc)
  BY <1>4 DEF Extends, WorkBegun
<1> QED
  BY <1>3, <1>4, <1>5 DEF IInv

LEMMA RecordFacts ==
    ASSUME IInv
    PROVE  /\ now \in 0..MaxTime /\ now \in Nat
           /\ bank \in [token : Tokens, version : 1..MaxVersion]
           /\ verified \in [Tokens -> 0..MaxVersion]
           /\ contract \in [Starts -> Contract \cup {None}]
           /\ source \in [Tokens -> Source \cup {None}] /\ ledger \in Ledger
           /\ AccountValid(contract) /\ AttemptsTrue(contract, proc, reversed)
           /\ SourcesMatch(contract, source, proc) /\ source[bank.token] # None
           /\ BooksMatch(contract, ledger) /\ bank.token \in Tokens
<1>1. bank.token \in Tokens
  BY DEF IInv, TypeOK
<1> QED
  BY <1>1 DEF IInv, TypeOK

\* A source that keeps its attempts and grants.
LEMMA SourceGrows ==
    ASSUME IInv, NEW t \in Tokens, NEW x \in Source, source' = [source EXCEPT ![t] = x],
           source[t] # None, x.attempts = source[t].attempts,
           source[t].dispatched \subseteq x.dispatched
    PROVE  /\ source' \in [Tokens -> Source \cup {None}]
           /\ SourcesMatch(contract, source', proc)
           /\ Extends(contract, source, contract, source')
           /\ source'[t] = x
           /\ \A u \in Tokens : source[u] # None => source'[u] # None
<1>1. source \in [Tokens -> Source \cup {None}] /\ SourcesMatch(contract, source, proc)
  BY RecordFacts
<1>2. x # None
  BY AbsentAssumption
<1>3. /\ source' \in [Tokens -> Source \cup {None}] /\ source'[t] = x
      /\ \A u \in Tokens \ {t} : source'[u] = source[u]
  BY <1>1
<1>4. \A u \in Tokens : /\ source[u] # None <=> source'[u] # None
                        /\ source'[u].attempts = source[u].attempts
                        /\ source[u].dispatched \subseteq source'[u].dispatched
  BY <1>2, <1>3
<1>5. \A s \in Starts : contract[s] # None => contract[s].token \in Tokens
  BY RecordFacts DEF Contract
<1>6. SourcesMatch(contract, source', proc)
  BY <1>1, <1>4, <1>5 DEF SourcesMatch
<1>7. Extends(contract, source, contract, source')
  <2> SUFFICES ASSUME NEW o \in Operations, Begun(contract, o),
                      o \in source[contract[o[1]].token].dispatched
               PROVE  o \in source'[contract[o[1]].token].dispatched
    BY DEF Extends
  <2>1. contract[o[1]].token \in Tokens
    BY BegunFacts
  <2> QED
    BY <1>4, <2>1
<1> QED
  BY <1>3, <1>4, <1>6, <1>7

LEMMA NothingTakenBack == Extends(contract, source, contract, source)
BY DEF Extends

LEMMA AuthorizeKeeps == ASSUME IInv, NEW w \in Workers, Authorize(w) PROVE IInv'
<1> DEFINE i == worker[w].item
           t == contract[i[1]].token
<1>1. /\ worker[w].step = "authorize"
      /\ UNCHANGED <<now, bank, contract, verified, ledger, item, proc, reversed, faults>>
  BY DEF Authorize, account
<1>2. i \in Operations /\ Begun(contract, i)
  BY <1>1, WorkersSound DEF WorkerSound
<1>3. /\ item \in [Operations -> WorkItem] /\ worker \in [Workers -> Worker]
      /\ \A p \in Operations : item[p].status # "none" => Begun(contract, p)
  BY QueueFacts, ItemBegun
<1>4. \/ /\ Conclude(w, "ready") \/ Conclude(w, "complete")
         /\ UNCHANGED source
      \/ /\ Proceed(w, "lookup") /\ source[t] # None
         /\ source' = [source EXCEPT ![t] = Dispatch(source[t], i)]
  BY DEF Authorize, SourceToken
<1>5. t \in Tokens /\ source[t] \in Source /\ i \in Captures
  BY <1>2, BegunFacts, OperationParts
<1> HIDE DEF i, t
<1>6. CASE /\ Conclude(w, "ready") \/ Conclude(w, "complete")
           /\ UNCHANGED source
  <2>1. Moved(w, "finish", i, worker[w].receipt)
    BY <1>3, <1>6, WorkerMoves DEF i
  <2>2. UNCHANGED others
    BY <1>1, <1>6 DEF others, account
  <2> QED
    BY <1>1, <1>2, <1>3, <2>1, <2>2, MoveKeeps
<1>7. CASE /\ Proceed(w, "lookup") /\ source[t] # None
           /\ source' = [source EXCEPT ![t] = Dispatch(source[t], i)]
  <2> DEFINE x == Dispatch(source[t], i)
  <2>1. x \in Source /\ x.attempts = source[t].attempts /\ x.dispatched = source[t].dispatched \cup {i}
    BY <1>5, DispatchedSource
  <2> HIDE DEF x
  <2>2. source' = [source EXCEPT ![t] = x]
    BY <1>7 DEF x
  <2>3. /\ source' \in [Tokens -> Source \cup {None}]
        /\ SourcesMatch(contract, source', proc)
        /\ Extends(contract, source, contract, source')
        /\ source'[t] = x
        /\ \A u \in Tokens : source[u] # None => source'[u] # None
    BY <1>5, <1>7, <2>1, <2>2, SourceGrows
  <2>4. Moved(w, "lookup", i, worker[w].receipt)
    BY <1>3, <1>7, WorkerMoves DEF i
  <2>5. i \in source'[contract[i[1]].token].dispatched
    BY <2>1, <2>3 DEF t
  <2>6. ASSUME NEW v \in Workers PROVE WorkerSound(contract, source', worker'[v], proc)
    <3>1. CASE v = w
      BY <1>2, <2>4, <2>5, <3>1 DEF Moved, WorkerSound
    <3>2. CASE v # w
      <4>1. worker'[v] = worker[v] /\ WorkerSound(contract, source, worker[v], proc)
        BY <2>4, <3>2, WorkersSound DEF Moved
      <4> QED
        BY <2>3, <4>1, ExtensionKeeps
    <3> QED
      BY <3>1, <3>2
  <2>7. worker' \in [Workers -> Worker]
    BY <2>4 DEF Moved
  <2>8. source'[bank.token] # None
    BY <2>3, RecordFacts
  <2> QED
    BY <1>1, <1>3, <2>3, <2>6, <2>7, <2>8, RecordFacts, RecordsKeep
<1> QED
  BY <1>4, <1>6, <1>7

\* Evidence that arrives, recorded or refused.
LEMMA EvidenceArrives ==
    ASSUME IInv, NEW o \in Operations, NEW outcome \in Outcome, Begun(contract, o),
           outcome \in Terminal => proc[o] = outcome,
           outcome = "Reversed" => o \in reversed,
           ConfirmPayment(o, outcome)
    PROVE  /\ contract' \in [Starts -> Contract \cup {None}]
           /\ source' \in [Tokens -> Source \cup {None}] /\ ledger' \in Ledger
           /\ AccountValid(contract') /\ AttemptsTrue(contract', proc, reversed)
           /\ SourcesMatch(contract', source', proc)
           /\ source'[bank.token] # None
           /\ BooksMatch(contract', ledger')
           /\ Extends(contract, source, contract', source')
<1>1. CASE Recordable(o, outcome)
  <2>1. bank.token \in Tokens /\ source[bank.token] # None
    BY RecordFacts
  <2> QED
    BY <1>1, <2>1, RecordableKeeps
<1>2. CASE ~Recordable(o, outcome)
  <2>1. contract' = contract /\ source' = source /\ ledger' = ledger
    BY <1>2 DEF ConfirmPayment
  <2> QED
    BY <2>1, RecordFacts, NothingTakenBack
<1> QED
  BY <1>1, <1>2

LEMMA ConfirmKeeps == ASSUME IInv, NEW w \in Workers, Confirm(w) PROVE IInv'
<1> DEFINE o == worker[w].item
           outcome == worker[w].receipt
           result == ResultOf(Recordable(o, outcome), outcome)
<1>1. /\ worker[w].step = "confirm" /\ ConfirmPayment(o, outcome) /\ Conclude(w, result)
      /\ UNCHANGED <<now, bank, verified, item, proc, reversed, faults>>
  BY DEF Confirm
<1>2. /\ o \in Operations /\ Begun(contract, o) /\ EvidenceTrue(proc, o, outcome)
  BY <1>1, WorkersSound DEF WorkerSound
<1>3. /\ outcome \in Outcome
      /\ outcome # "Reversed"
      /\ (outcome \in Terminal => proc[o] = outcome)
  BY <1>2 DEF EvidenceTrue, Outcome, Terminal
<1>4. result \in {"complete", "ready", "blocked"}
  BY DEF ResultOf
<1> HIDE DEF result
<1>5. /\ item \in [Operations -> WorkItem] /\ worker \in [Workers -> Worker]
      /\ \A p \in Operations : item[p].status # "none" => Begun(contract, p)
  BY QueueFacts, ItemBegun
<1>6. Moved(w, "finish", o, outcome)
  BY <1>1, <1>4, <1>5, WorkerMoves
<1> HIDE DEF o, outcome
<1>7. /\ contract' \in [Starts -> Contract \cup {None}]
      /\ source' \in [Tokens -> Source \cup {None}] /\ ledger' \in Ledger
      /\ AccountValid(contract') /\ AttemptsTrue(contract', proc, reversed)
      /\ SourcesMatch(contract', source', proc)
      /\ source'[bank.token] # None
      /\ BooksMatch(contract', ledger')
      /\ Extends(contract, source, contract', source')
  BY <1>1, <1>2, <1>3, EvidenceArrives
<1>8. ASSUME NEW v \in Workers PROVE WorkerSound(contract', source', worker'[v], proc)
  <2>1. CASE v = w
    BY <1>2, <1>6, <1>7, <2>1 DEF Moved, WorkerSound, Extends
  <2>2. CASE v # w
    <3>1. worker'[v] = worker[v] /\ WorkerSound(contract, source, worker[v], proc)
      BY <1>6, <2>2, WorkersSound DEF Moved
    <3> QED
      BY <1>7, <3>1, ExtensionKeeps
  <2> QED
    BY <2>1, <2>2
<1>9. \A p \in Operations : item'[p].status # "none" => Begun(contract', p)
  BY <1>1, <1>5, <1>7 DEF Extends
<1>10. worker' \in [Workers -> Worker]
  BY <1>6 DEF Moved
<1> QED
  BY <1>1, <1>5, <1>7, <1>8, <1>9, <1>10, RecordFacts, RecordsKeep

\* What stays when no worker, work or record of the processor changes.
LEMMA AccountKeeps ==
    ASSUME IInv, UNCHANGED queue,
           now' \in 0..MaxTime, bank' \in [token : Tokens, version : 1..MaxVersion],
           verified' \in [Tokens -> 0..MaxVersion],
           contract' \in [Starts -> Contract \cup {None}],
           source' \in [Tokens -> Source \cup {None}], ledger' \in Ledger,
           AccountValid(contract'), AttemptsTrue(contract', proc, reversed),
           SourcesMatch(contract', source', proc), source'[bank'.token] # None,
           BooksMatch(contract', ledger'), Extends(contract, source, contract', source')
    PROVE  IInv'
<1>1. /\ UNCHANGED <<item, worker, proc, reversed, faults>>
      /\ item \in [Operations -> WorkItem] /\ worker \in [Workers -> Worker]
  BY QueueFacts DEF queue
<1>2. \A o \in Operations : item'[o].status # "none" => Begun(contract', o)
  BY <1>1, ItemBegun DEF Extends
<1>3. \A w \in Workers : WorkerSound(contract', source', worker'[w], proc)
  BY <1>1, WorkersSound, ExtensionKeeps
<1> QED
  BY <1>1, <1>2, <1>3, RecordsKeep

LEMMA NotifyKeeps == ASSUME IInv, NEW o \in Operations, NotifyReversal(o) PROVE IInv'
<1>1. /\ o \in reversed /\ ConfirmPayment(o, "Reversed")
      /\ UNCHANGED <<now, bank, verified>> /\ UNCHANGED queue
  BY DEF NotifyReversal
<1>2. proc[o] = "Settled"
  BY <1>1 DEF IInv, ReversedSettled
<1>3. Begun(contract, o) /\ "Reversed" \in Outcome /\ "Reversed" \notin Terminal
  BY <1>2, ItemBegun DEF Outcome, Terminal
<1>4. /\ contract' \in [Starts -> Contract \cup {None}]
      /\ source' \in [Tokens -> Source \cup {None}] /\ ledger' \in Ledger
      /\ AccountValid(contract') /\ AttemptsTrue(contract', proc, reversed)
      /\ SourcesMatch(contract', source', proc)
      /\ source'[bank.token] # None
      /\ BooksMatch(contract', ledger')
      /\ Extends(contract, source, contract', source')
  BY <1>1, <1>3, EvidenceArrives
<1> QED
  BY <1>1, <1>4, RecordFacts, AccountKeeps

-----------------------------------------------------------------------------
(***************************************************************************)
(* The member's commands and the bank.                                     *)
(***************************************************************************)

\* The contract c of period s is new, or the one stored with one more attempt.
Continues(c, d) ==
    IF c = None THEN Len(d.attempts) = 1
    ELSE /\ d.token = c.token /\ c.settlement = "Unfunded"
         /\ Len(d.attempts) = Len(c.attempts) + 1
         /\ \A n \in DOMAIN c.attempts : d.attempts[n] = c.attempts[n]

\* A collection that is enqueued.
LEMMA CollectKeeps ==
    ASSUME IInv, NEW s \in Starts, NEW c \in Contract, Collect(s, c),
           ContractPlaced(c, s), Current(c) = "Pending", c.settlement = "Unfunded",
           source[c.token] # None, Continues(contract[s], c),
           \A r \in Starts \ {s} : contract[r] # None => ~Overlap(contract[r].offer, c.offer)
    PROVE  IInv'
<1> DEFINE L == Len(c.attempts)
           o == <<s, L>>
           t == c.token
           x == Reserve(source[t], o)
<1>1. /\ c.attempts \in Seq(PaymentState) /\ t \in Tokens
      /\ L \in 1..MaxAttempts /\ L \in Nat /\ L >= 1 /\ DOMAIN c.attempts = 1..L
      /\ c.attempts[L] = "Pending"
  <2>1. c.attempts \in Seq(PaymentState) /\ t \in Tokens
    BY DEF Contract
  <2>2. L \in 1..MaxAttempts /\ MaxAttempts \in Nat /\ c.attempts[L] = "Pending"
    BY BillingAssumption DEF ContractPlaced, Current
  <2> QED
    BY <2>1, <2>2
<1>2. o \in Operations /\ o \in Captures /\ o[1] = s /\ o[2] = L
  BY <1>1, BillingAssumption
<1>3. /\ contract' = [contract EXCEPT ![s] = c] /\ source' = [source EXCEPT ![t] = x]
      /\ item' = Enqueued({o})
      /\ UNCHANGED <<now, bank, verified, ledger, worker, proc, reversed, faults>>
  BY DEF Collect, OperationOf
<1>4. /\ contract \in [Starts -> Contract \cup {None}] /\ source \in [Tokens -> Source \cup {None}]
      /\ AccountValid(contract) /\ AttemptsTrue(contract, proc, reversed)
      /\ SourcesMatch(contract, source, proc) /\ BooksMatch(contract, ledger)
  BY RecordFacts
<1>5. source[t] # None /\ source[t] \in Source
  BY <1>1, <1>4
<1>6. /\ x \in Source /\ x.attempts[o] = "Pending" /\ x.dispatched = source[t].dispatched
      /\ \A p \in Captures \ {o} : x.attempts[p] = source[t].attempts[p]
  BY <1>2, <1>5, ReservedSource
<1>7. c # None /\ x # None
  BY <1>6, AbsentAssumption
<1> HIDE DEF x
<1>8. /\ contract'[s] = c /\ \A r \in Starts \ {s} : contract'[r] = contract[r]
      /\ contract' \in [Starts -> Contract \cup {None}]
  BY <1>3, <1>4
<1>9. /\ source'[t] = x /\ \A u \in Tokens \ {t} : source'[u] = source[u]
      /\ source' \in [Tokens -> Source \cup {None}]
  BY <1>1, <1>3, <1>4, <1>6
<1>10. \A u \in Tokens : /\ source[u] # None <=> source'[u] # None
                         /\ source[u] # None => source'[u].dispatched = source[u].dispatched
  BY <1>5, <1>6, <1>7, <1>9
<1>11. contract[s] # None =>
          /\ contract[s].token = t /\ contract[s].settlement = "Unfunded"
          /\ DOMAIN contract[s].attempts = 1..(L - 1) /\ Len(contract[s].attempts) = L - 1
          /\ \A n \in 1..(L - 1) : c.attempts[n] = contract[s].attempts[n]
  <2> SUFFICES ASSUME contract[s] # None
               PROVE  /\ contract[s].token = t /\ contract[s].settlement = "Unfunded"
                      /\ DOMAIN contract[s].attempts = 1..(L - 1) /\ Len(contract[s].attempts) = L - 1
                      /\ \A n \in 1..(L - 1) : c.attempts[n] = contract[s].attempts[n]
    OBVIOUS
  <2>1. contract[s] \in Contract
    BY <1>4
  <2>2. contract[s].attempts \in Seq(PaymentState)
    BY <2>1 DEF Contract
  <2>3. /\ contract[s].token = t /\ contract[s].settlement = "Unfunded"
        /\ L = Len(contract[s].attempts) + 1
        /\ \A n \in DOMAIN contract[s].attempts : c.attempts[n] = contract[s].attempts[n]
    BY DEF Continues
  <2>4. Len(contract[s].attempts) \in Nat /\ DOMAIN contract[s].attempts = 1..Len(contract[s].attempts)
    BY <2>2
  <2> HIDE DEF L
  <2>5. Len(contract[s].attempts) = L - 1
    BY <1>1, <2>3, <2>4
  <2> QED
    BY <2>3, <2>4, <2>5
<1>12. contract[s] = None => L = 1
  BY DEF Continues
<1> HIDE DEF L, t
<1>13. ASSUME NEW p \in Operations, Begun(contract, p)
       PROVE  /\ Begun(contract', p) /\ contract'[p[1]].token = contract[p[1]].token
              /\ contract'[p[1]].attempts[p[2]] = contract[p[1]].attempts[p[2]]
              /\ p # o
  <2>1. p[1] \in Starts /\ contract[p[1]] # None /\ p[2] \in DOMAIN contract[p[1]].attempts
    BY <1>13, OperationParts DEF Begun
  <2>2. CASE p[1] # s
    BY <1>2, <1>8, <2>1, <2>2 DEF Begun
  <2>3. CASE p[1] = s
    <3>1. p[2] \in 1..(L - 1) /\ contract[s] # None
      BY <1>11, <2>1, <2>3
    <3>2. p[2] \in DOMAIN c.attempts /\ p[2] # L
      BY <1>1, <3>1
    <3> QED
      BY <1>2, <1>7, <1>8, <1>11, <2>3, <3>1, <3>2 DEF Begun, t
  <2> QED
    BY <2>2, <2>3
<1>14. Begun(contract', o)
  BY <1>1, <1>2, <1>7, <1>8 DEF Begun
<1>15. AccountValid(contract')
  <2> SUFFICES ASSUME NEW r \in Starts, contract'[r] # None
               PROVE  /\ ContractPlaced(contract'[r], r)
                      /\ \A q \in Starts \ {r} : contract'[q] # None =>
                            ~Overlap(contract'[q].offer, contract'[r].offer)
    BY DEF AccountValid
  <2>1. CASE r = s
    BY <1>8, <2>1
  <2>2. CASE r # s
    <3>1. contract'[r] = contract[r] /\ ContractPlaced(contract[r], r)
      BY <1>4, <1>8, <2>2 DEF AccountValid
    <3>2. ASSUME NEW q \in Starts \ {r}, contract'[q] # None
          PROVE  ~Overlap(contract'[q].offer, contract[r].offer)
      <4>1. CASE q = s
        <5>1. ~Overlap(contract[r].offer, c.offer)
          BY <2>2, <3>1
        <5> QED
          BY <1>8, <4>1, <5>1 DEF Overlap
      <4>2. CASE q # s
        BY <1>4, <1>8, <2>2, <3>1, <3>2, <4>2 DEF AccountValid
      <4> QED
        BY <4>1, <4>2
    <3> QED
      BY <3>1, <3>2
  <2> QED
    BY <2>1, <2>2
<1>16. AttemptsTrue(contract', proc, reversed)
  <2> SUFFICES ASSUME NEW r \in Starts, contract'[r] # None, NEW m \in DOMAIN contract'[r].attempts
               PROVE  /\ contract'[r].attempts[m] \in Terminal =>
                            proc[<<r, m>>] = contract'[r].attempts[m]
                      /\ contract'[r].attempts[m] = "Reversed" =>
                            proc[<<r, m>>] = "Settled" /\ <<r, m>> \in reversed
    BY DEF AttemptsTrue
  <2>1. CASE r # s
    BY <1>4, <1>8, <2>1 DEF AttemptsTrue
  <2>2. CASE r = s /\ m = L
    BY <1>1, <1>8, <2>2 DEF Terminal
  <2>3. CASE r = s /\ m # L
    <3>1. m \in 1..(L - 1)
      BY <1>1, <1>8, <2>3
    <3>2. contract[s] # None /\ m \in DOMAIN contract[s].attempts
          /\ contract'[r].attempts[m] = contract[s].attempts[m]
      BY <1>1, <1>8, <1>11, <1>12, <2>3, <3>1
    <3> QED
      BY <1>4, <2>3, <3>2 DEF AttemptsTrue
  <2> QED
    BY <2>1, <2>2, <2>3
<1>17. SourcesMatch(contract', source', proc)
  <2>1. ASSUME NEW r \in Starts, contract'[r] # None PROVE source'[contract'[r].token] # None
    <3>1. CASE r = s
      BY <1>7, <1>8, <1>9, <3>1 DEF t
    <3>2. CASE r # s
      <4>1. contract'[r] = contract[r] /\ contract[r] \in Contract
        BY <1>4, <1>8, <2>1, <3>2
      <4>2. contract[r].token \in Tokens
        BY <4>1 DEF Contract
      <4> QED
        BY <1>4, <1>10, <2>1, <4>1, <4>2 DEF SourcesMatch
    <3> QED
      BY <3>1, <3>2
  <2>2. ASSUME NEW p \in Operations, NEW u \in Tokens, source'[u] # None
        PROVE  /\ source'[u].attempts[p] = AttemptIn(contract'[p[1]], u, p)
               /\ (proc[p] # "unknown" /\ contract'[p[1]].token = u => p \in source'[u].dispatched)
    <3>0. /\ p[1] \in Starts /\ p[2] \in 1..MaxAttempts /\ p = <<p[1], p[2]>> /\ p \in Captures
          /\ MaxAttempts \in Nat
      BY OperationParts, BillingAssumption
    <3>1. /\ source[u] # None /\ source[u].attempts[p] = AttemptIn(contract[p[1]], u, p)
          /\ (proc[p] # "unknown" /\ contract[p[1]].token = u => p \in source[u].dispatched)
      BY <1>4, <1>10, <2>2 DEF SourcesMatch
    <3>2. proc[p] # "unknown" => contract'[p[1]].token = contract[p[1]].token
      BY <1>13, ItemBegun
    <3>3. proc[p] # "unknown" /\ contract'[p[1]].token = u => p \in source'[u].dispatched
      BY <1>10, <3>1, <3>2
    <3>4. CASE p = o /\ u = t
      <4>1. source'[u].attempts[p] = "Pending"
        BY <1>6, <1>9, <3>4
      <4>2. AttemptIn(contract'[p[1]], u, p) = c.attempts[L]
        BY <1>1, <1>2, <1>7, <1>8, <3>4 DEF AttemptIn, t
      <4> QED
        BY <1>1, <3>3, <4>1, <4>2
    <3>5. CASE ~(p = o /\ u = t)
      <4>1. source'[u].attempts[p] = source[u].attempts[p]
        BY <1>6, <1>9, <3>0, <3>5
      <4>2. CASE p[1] # s
        BY <1>8, <3>0, <3>1, <3>3, <4>1, <4>2
      <4>3. CASE p[1] = s /\ u # t
        <5>1. AttemptIn(contract'[p[1]], u, p) = "None"
          BY <1>8, <4>3 DEF AttemptIn, t
        <5>2. AttemptIn(contract[p[1]], u, p) = "None"
          BY <1>11, <4>3 DEF AttemptIn
        <5> QED
          BY <3>1, <3>3, <4>1, <5>1, <5>2
      <4>4. CASE p[1] = s /\ u = t
        <5>1. p[2] # L
          BY <3>0, <3>5, <4>4
        <5>2. CASE contract[s] = None
          <6>1. ~(p[2] <= Len(c.attempts))
            <7>1. p[2] \in Nat /\ p[2] >= 1 /\ p[2] # 1
              BY <1>12, <3>0, <5>1, <5>2
            <7>2. Len(c.attempts) = 1
              BY <1>12, <5>2 DEF L
            <7> QED
              BY <7>1, <7>2
          <6> QED
            BY <1>8, <3>1, <3>3, <4>1, <4>4, <5>2, <6>1 DEF AttemptIn
        <5>3. CASE contract[s] # None
          <6>1. p[2] <= L <=> p[2] <= L - 1
            BY <1>1, <3>0, <5>1
          <6>2. p[2] <= L - 1 => c.attempts[p[2]] = contract[s].attempts[p[2]]
            BY <1>1, <1>11, <3>0, <5>3
          <6>3. AttemptIn(c, t, p) = AttemptIn(contract[s], t, p)
            BY <1>7, <1>11, <5>3, <6>1, <6>2 DEF AttemptIn, t, L
          <6> QED
            BY <1>8, <3>1, <3>3, <4>1, <4>4, <6>3
        <5> QED
          BY <5>2, <5>3
      <4> QED
        BY <4>2, <4>3, <4>4
    <3> QED
      BY <3>4, <3>5
  <2> QED
    BY <2>1, <2>2 DEF SourcesMatch
<1>18. BooksMatch(contract', ledger')
  <2>1. In(contract', "Funded") = In(contract, "Funded")
        /\ In(contract', "Reversed") = In(contract, "Reversed")
    BY <1>8, <1>11 DEF In
  <2> QED
    BY <1>3, <1>4, <2>1 DEF BooksMatch
<1>19. Extends(contract, source, contract', source')
  <2> SUFFICES ASSUME NEW p \in Operations, Begun(contract, p)
               PROVE  /\ Begun(contract', p) /\ contract'[p[1]].token = contract[p[1]].token
                      /\ (p \in source[contract[p[1]].token].dispatched =>
                            p \in source'[contract[p[1]].token].dispatched)
    BY DEF Extends
  <2>1. contract[p[1]].token \in Tokens /\ source[contract[p[1]].token] # None
    BY BegunFacts, AbsentAssumption
  <2> QED
    BY <1>10, <1>13, <2>1
<1>20. /\ item' \in [Operations -> WorkItem]
       /\ \A p \in Operations : item'[p].status # "none" => Begun(contract', p)
  <2>1. item \in [Operations -> WorkItem] /\ Items = Operations
    BY QueueFacts
  <2>2. ASSUME NEW p \in Operations
        PROVE  /\ item'[p] \in WorkItem
               /\ item'[p].status # "none" => p = o \/ item[p].status # "none"
    <3>1. item'[p] = IF p \in {o} /\ item[p].status = "none"
                     THEN [item[p] EXCEPT !.status = "ready"] ELSE item[p]
      BY <1>3, <2>1 DEF Enqueued
    <3>2. item[p] \in WorkItem /\ [item[p] EXCEPT !.status = "ready"] \in WorkItem
      BY <2>1 DEF WorkItem
    <3> QED
      BY <3>1, <3>2
  <2>3. item' \in [Operations -> WorkItem]
    BY <1>3, <2>1, <2>2 DEF Enqueued
  <2> QED
    BY <1>13, <1>14, <2>2, <2>3, ItemBegun
<1>21. /\ worker' \in [Workers -> Worker]
       /\ \A w \in Workers : WorkerSound(contract', source', worker'[w], proc)
  BY <1>3, <1>19, QueueFacts, WorkersSound, ExtensionKeeps
<1>22. source'[bank'.token] # None /\ UNCHANGED <<now, bank, verified, ledger>>
  BY <1>3, <1>10, RecordFacts
<1> QED
  BY <1>3, <1>8, <1>9, <1>15, <1>16, <1>17, <1>18, <1>19, <1>20, <1>21, <1>22,
     RecordFacts, RecordsKeep

LEMMA PurchaseKeeps == ASSUME IInv, NEW o \in Offers, Purchase(o) PROVE IInv'
<1> DEFINE s == o.start
           c == NewContract(o)
<1>1. /\ s \in Starts /\ contract[s] = None /\ Collect(s, c)
      /\ \A r \in Starts : contract[r] # None => ~Overlap(contract[r].offer, o)
  BY DEF Purchase, CanPurchase, Starts
<1>2. /\ c = [offer |-> o, token |-> bank.token, attempts |-> <<"Pending">>, events |-> {},
              settlement |-> "Unfunded", at |-> 0]
      /\ bank.token \in Tokens /\ source[bank.token] # None
  BY RecordFacts DEF NewContract
<1> HIDE DEF c
<1>3. /\ c.offer = o /\ c.token = bank.token /\ c.attempts = <<"Pending">> /\ c.events = {}
      /\ c.settlement = "Unfunded"
  BY <1>2
<1>4. <<"Pending">> \in Seq(PaymentState) /\ {} \in SUBSET ((1..MaxAttempts) \X Outcome)
  BY DEF PaymentState
<1>5. c \in Contract
  BY <1>2, <1>4 DEF Contract
<1>6. /\ Len(c.attempts) = 1 /\ c.attempts[1] = "Pending" /\ DOMAIN c.attempts = 1..1
      /\ Current(c) = "Pending"
  BY <1>3 DEF Current
<1>7. 1 \in 1..MaxAttempts
  BY BillingAssumption
<1>8. ContractValid(c)
  <2>1. \A n \in DOMAIN c.attempts : c.attempts[n] = "Pending"
    BY <1>6
  <2>2. 1..(Len(c.attempts) - 1) = {}
    BY <1>6
  <2>3. ExecutionValid(c)
    BY <1>3, <2>1, <2>2 DEF ExecutionValid, Terminal
  <2> QED
    BY <1>3, <1>6, <2>3 DEF ContractValid
<1>9. ContractPlaced(c, s)
  BY <1>3, <1>6, <1>7, <1>8 DEF ContractPlaced
<1>10. Continues(contract[s], c)
  BY <1>1, <1>6 DEF Continues
<1> QED
  BY <1>1, <1>2, <1>3, <1>5, <1>6, <1>9, <1>10, CollectKeeps

LEMMA RetryKeeps == ASSUME IInv, NEW s \in Starts, RetryCollection(s) PROVE IInv'
<1> DEFINE b == contract[s]
           N == Len(b.attempts)
           c == [b EXCEPT !.attempts = Append(@, "Pending")]
<1>1. b # None /\ Current(b) \in {"Failed", "Voided"} /\ N < MaxAttempts /\ Collect(s, c)
  BY DEF RetryCollection, CanRetry
<1>2. /\ b \in Contract /\ ContractPlaced(b, s) /\ SourcesMatch(contract, source, proc)
      /\ \A r \in Starts \ {s} : contract[r] # None => ~Overlap(contract[r].offer, b.offer)
  BY <1>1, RecordFacts DEF AccountValid
<1> HIDE DEF b
<1>3. /\ b.attempts \in Seq(PaymentState) /\ b.offer \in Offers /\ b.token \in Tokens
      /\ b.events \in SUBSET ((1..MaxAttempts) \X Outcome) /\ b.at \in Nat
      /\ b.settlement \in {"Unfunded", "Funded", "Reversed"}
  BY <1>2 DEF Contract
<1>4. /\ N \in Nat /\ N >= 1 /\ DOMAIN b.attempts = 1..N /\ b.attempts[N] \in {"Failed", "Voided"}
      /\ MaxAttempts \in Nat
  <2>1. N \in Nat /\ DOMAIN b.attempts = 1..N /\ N \in 1..MaxAttempts
    BY <1>2, <1>3 DEF ContractPlaced
  <2> QED
    BY <1>1, <2>1, BillingAssumption DEF Current
<1>5. "Pending" \in PaymentState
  BY DEF PaymentState
<1>6. /\ Append(b.attempts, "Pending") \in Seq(PaymentState)
      /\ Len(Append(b.attempts, "Pending")) = N + 1
      /\ DOMAIN Append(b.attempts, "Pending") = 1..(N + 1)
      /\ \A n \in 1..N : Append(b.attempts, "Pending")[n] = b.attempts[n]
      /\ Append(b.attempts, "Pending")[N + 1] = "Pending"
  BY <1>3, <1>5
<1>7. /\ c.offer = b.offer /\ c.token = b.token /\ c.events = b.events
      /\ c.settlement = b.settlement /\ c.attempts = Append(b.attempts, "Pending")
      /\ c = [offer |-> b.offer, token |-> b.token, attempts |-> Append(b.attempts, "Pending"),
              events |-> b.events, settlement |-> b.settlement, at |-> b.at]
  <2> DEFINE A == Append(b.attempts, "Pending")
  <2>1. c = [b EXCEPT !.attempts = A]
    OBVIOUS
  <2> HIDE DEF A, c
  <2>2. /\ c.offer = b.offer /\ c.token = b.token /\ c.events = b.events
        /\ c.settlement = b.settlement /\ c.attempts = A
        /\ c = [offer |-> b.offer, token |-> b.token, attempts |-> A,
                events |-> b.events, settlement |-> b.settlement, at |-> b.at]
    BY <1>2, <2>1 DEF Contract
  <2> QED
    BY <2>2 DEF A
<1> HIDE DEF N, c
<1>8. c \in Contract
  BY <1>3, <1>6, <1>7 DEF Contract
<1>9. b.settlement = "Unfunded" /\ ExecutionValid(b)
  <2>1. ContractValid(b)
    BY <1>2 DEF ContractPlaced
  <2> QED
    BY <1>1, <1>3, <2>1 DEF ContractValid
<1>10. /\ Len(c.attempts) = N + 1 /\ DOMAIN c.attempts = 1..(N + 1)
       /\ c.attempts[N + 1] = "Pending" /\ \A n \in 1..N : c.attempts[n] = b.attempts[n]
       /\ Len(c.attempts) \in 1..MaxAttempts
  BY <1>1, <1>4, <1>6, <1>7
<1>11. \A e \in c.events : e[1] \in DOMAIN b.attempts /\ e[1] \in 1..N /\ e[1] \in DOMAIN c.attempts
  <2>1. \A e \in b.events : e[1] \in DOMAIN b.attempts
    BY <1>2 DEF ContractPlaced
  <2> QED
    BY <1>4, <1>7, <1>10, <2>1
<1>12. ExecutionValid(c)
  <2>1. ASSUME NEW n \in 1..(Len(c.attempts) - 1) PROVE c.attempts[n] \in {"Failed", "Voided"}
    <3>1. n \in 1..N /\ c.attempts[n] = b.attempts[n]
      BY <1>4, <1>10, <2>1
    <3>2. CASE n = N
      BY <1>4, <3>1, <3>2
    <3>3. CASE n # N
      <4>1. n \in 1..(Len(b.attempts) - 1)
        BY <1>4, <3>1, <3>3 DEF N
      <4> QED
        BY <1>9, <3>1, <4>1 DEF ExecutionValid
    <3> QED
      BY <3>2, <3>3
  <2>2. ASSUME NEW n \in DOMAIN c.attempts
        PROVE  /\ c.attempts[n] = "Reversed" => {<<n, "Settled">>, <<n, "Reversed">>} \subseteq c.events
               /\ c.attempts[n] \in Terminal => <<n, c.attempts[n]>> \in c.events
    <3>1. CASE n = N + 1
      BY <1>10, <3>1 DEF Terminal
    <3>2. CASE n # N + 1
      <4>1. n \in DOMAIN b.attempts /\ c.attempts[n] = b.attempts[n]
        BY <1>4, <1>10, <3>2
      <4> QED
        BY <1>7, <1>9, <4>1 DEF ExecutionValid
    <3> QED
      BY <3>1, <3>2
  <2>3. ASSUME NEW e \in c.events
        PROVE  CanAdvance(c.attempts[e[1]], e[2]) /\ Advance(c.attempts[e[1]], e[2]) = c.attempts[e[1]]
    <3>1. c.attempts[e[1]] = b.attempts[e[1]] /\ e \in b.events
      BY <1>7, <1>10, <1>11
    <3> QED
      BY <1>9, <3>1 DEF ExecutionValid
  <2> QED
    BY <2>1, <2>2, <2>3 DEF ExecutionValid
<1>13. Current(c) = "Pending"
  BY <1>10 DEF Current
<1>14. ContractPlaced(c, s)
  <2>1. ContractValid(c)
    BY <1>7, <1>9, <1>12, <1>13 DEF ContractValid
  <2>2. c.offer.start = s
    BY <1>2, <1>7 DEF ContractPlaced
  <2> QED
    BY <1>10, <1>11, <2>1, <2>2 DEF ContractPlaced
<1>15. Continues(b, c)
  BY <1>1, <1>4, <1>7, <1>9, <1>10 DEF Continues, N
<1>16. source[c.token] # None
  BY <1>1, <1>2, <1>7 DEF SourcesMatch, b
<1> QED
  BY <1>1, <1>2, <1>7, <1>8, <1>9, <1>13, <1>14, <1>15, <1>16, CollectKeeps DEF b

LEMMA ReverifiedSource ==
    ASSUME NEW s \in Source
    PROVE  LET r == Reverified(s)
           IN  r \in Source /\ r.attempts = s.attempts /\ r.dispatched = s.dispatched
<1> DEFINE no == FALSE
           r == [s EXCEPT !.restricted = no]
<1>1. no \in BOOLEAN
  OBVIOUS
<1> HIDE DEF no
<1>2. r = [restricted |-> no, attempts |-> s.attempts, dispatched |-> s.dispatched]
  BY DEF Source
<1>3. r \in Source
  BY <1>1, <1>2 DEF Source
<1>4. Reverified(s) = r
  BY DEF Reverified, no
<1> HIDE DEF r
<1>5. r.attempts = s.attempts /\ r.dispatched = s.dispatched
  BY <1>2
<1> QED
  BY <1>3, <1>4, <1>5

LEMMA ReverifyKeeps == ASSUME IInv, NEW v \in 1..MaxVersion, ReverifyFunding(v) PROVE IInv'
<1> DEFINE t == bank.token
           x == Reverified(source[t])
<1>1. /\ source' = [source EXCEPT ![t] = x] /\ verified' = [verified EXCEPT ![t] = v]
      /\ UNCHANGED <<now, bank, contract, ledger>> /\ UNCHANGED queue
  BY DEF ReverifyFunding, account
<1>2. t \in Tokens /\ source[t] # None /\ source[t] \in Source
  BY RecordFacts
<1>3. x \in Source /\ x.attempts = source[t].attempts /\ x.dispatched = source[t].dispatched
  BY <1>2, ReverifiedSource
<1> HIDE DEF x, t
<1>4. /\ source' \in [Tokens -> Source \cup {None}]
      /\ SourcesMatch(contract, source', proc)
      /\ Extends(contract, source, contract, source')
      /\ source'[t] = x
      /\ \A u \in Tokens : source[u] # None => source'[u] # None
  BY <1>1, <1>2, <1>3, SourceGrows
<1>5. verified' \in [Tokens -> 0..MaxVersion]
  <2>1. v \in 0..MaxVersion
    BY BillingAssumption
  <2> QED
    BY <1>1, <2>1, RecordFacts
<1>6. source'[bank'.token] # None
  BY <1>1, <1>2, <1>4 DEF t
<1> QED
  BY <1>1, <1>4, <1>5, <1>6, RecordFacts, AccountKeeps

LEMMA RebindKeeps ==
    ASSUME IInv, NEW t \in Tokens, NEW v \in 1..MaxVersion, RebindBank(t, v)
    PROVE  IInv'
<1> DEFINE b == [token |-> t, version |-> v]
           x == IF source[t] = None THEN VerifiedSource ELSE source[t]
<1>1. /\ bank' = b /\ source' = [source EXCEPT ![t] = x]
      /\ verified' = [verified EXCEPT ![t] = IF source[t] = None THEN v ELSE @]
      /\ UNCHANGED <<now, contract, ledger>> /\ UNCHANGED queue
  BY DEF RebindBank
<1>2. /\ source \in [Tokens -> Source \cup {None}] /\ SourcesMatch(contract, source, proc)
      /\ contract \in [Starts -> Contract \cup {None}] /\ verified \in [Tokens -> 0..MaxVersion]
  BY RecordFacts
<1>3. /\ VerifiedSource \in Source
      /\ \A o \in Operations : VerifiedSource.attempts[o] = "None"
  BY BillingAssumption DEF VerifiedSource, Source
<1>4. x \in Source /\ x # None
  BY <1>2, <1>3, AbsentAssumption
<1>5. bank' \in [token : Tokens, version : 1..MaxVersion] /\ bank'.token = t
  BY <1>1
<1>6. verified' \in [Tokens -> 0..MaxVersion]
  <2>1. v \in 0..MaxVersion
    BY BillingAssumption
  <2> QED
    BY <1>1, <1>2, <2>1
<1>7. /\ source' \in [Tokens -> Source \cup {None}] /\ source'[t] = x
      /\ \A u \in Tokens \ {t} : source'[u] = source[u]
  <2> HIDE DEF x
  <2> QED
    BY <1>1, <1>2, <1>4
<1>8. \A u \in Tokens : source[u] # None => source'[u] = source[u]
  BY <1>7
<1>9. source'[t] # None
  BY <1>4, <1>7
<1>10. \A s \in Starts : contract[s] # None =>
           contract[s].token \in Tokens /\ source[contract[s].token] # None
  BY <1>2 DEF Contract, SourcesMatch
<1>11. SourcesMatch(contract, source', proc)
  <2>1. ASSUME NEW s \in Starts, contract[s] # None PROVE source'[contract[s].token] # None
    BY <1>8, <1>10, <2>1
  <2>2. ASSUME NEW o \in Operations, NEW u \in Tokens, source'[u] # None
        PROVE  /\ source'[u].attempts[o] = AttemptIn(contract[o[1]], u, o)
               /\ (proc[o] # "unknown" /\ contract[o[1]].token = u => o \in source'[u].dispatched)
    <3>1. CASE source[u] # None
      BY <1>2, <1>8, <3>1 DEF SourcesMatch
    <3>2. CASE source[u] = None
      <4>1. u = t /\ source'[u] = VerifiedSource
        BY <1>7, <2>2, <3>2
      <4>2. o[1] \in Starts
        BY OperationParts
      <4>3. contract[o[1]] # None => contract[o[1]].token # u
        BY <1>10, <3>2, <4>2
      <4>4. proc[o] # "unknown" => contract[o[1]] # None
        BY ItemBegun DEF Begun
      <4>5. source'[u].attempts[o] = "None"
        BY <1>3, <4>1
      <4>6. AttemptIn(contract[o[1]], u, o) = "None"
        BY <4>3 DEF AttemptIn
      <4> QED
        BY <4>3, <4>4, <4>5, <4>6
    <3> QED
      BY <3>1, <3>2
  <2> QED
    BY <2>1, <2>2 DEF SourcesMatch
<1>12. Extends(contract, source, contract, source')
  <2> SUFFICES ASSUME NEW o \in Operations, Begun(contract, o),
                      o \in source[contract[o[1]].token].dispatched
               PROVE  o \in source'[contract[o[1]].token].dispatched
    BY DEF Extends
  <2>1. contract[o[1]].token \in Tokens /\ source[contract[o[1]].token] # None
    BY BegunFacts, AbsentAssumption
  <2> QED
    BY <1>8, <2>1
<1> HIDE DEF b, x
<1> QED
  BY <1>1, <1>5, <1>6, <1>7, <1>9, <1>11, <1>12, RecordFacts, AccountKeeps

LEMMA TickKeeps == ASSUME IInv, Tick PROVE IInv'
<1>1. now' \in 0..MaxTime
  BY RecordFacts, BillingAssumption DEF Tick
<1>2. UNCHANGED <<bank, contract, source, verified, ledger>> /\ UNCHANGED queue
  BY DEF Tick, account
<1> QED
  BY <1>1, <1>2, RecordFacts, NothingTakenBack, AccountKeeps

LEMMA StutterKeeps == ASSUME IInv, UNCHANGED vars PROVE IInv'
<1>1. UNCHANGED <<now, bank, contract, source, verified, ledger>> /\ UNCHANGED queue
  BY DEF vars
<1> QED
  BY <1>1, RecordFacts, NothingTakenBack, AccountKeeps

LEMMA InitKeeps == ASSUME Init PROVE IInv
<1>1. /\ now = 0 /\ bank = [token |-> FirstToken, version |-> 1]
      /\ contract = [s \in Starts |-> None]
      /\ source = [t \in Tokens |-> IF t = FirstToken THEN VerifiedSource ELSE None]
      /\ verified = [t \in Tokens |-> IF t = FirstToken THEN 1 ELSE 0]
      /\ ledger = [receipts |-> [s \in Starts |-> 0], clearing |-> 0, loss |-> 0]
      /\ item = [i \in Items |-> [status |-> "none", holder |-> None]]
      /\ worker = [w \in Workers |-> IdleWorker]
      /\ proc = [o \in Operations |-> "unknown"]
      /\ reversed = {} /\ faults = 0
  BY DEF Init, QueueInit
<1>2. /\ MaxTime \in Nat /\ 1 \in 1..MaxVersion /\ {0, 1} \subseteq 0..MaxVersion
      /\ MaxFaults \in Nat /\ FirstToken \in Tokens /\ Captures = Operations /\ Items = Operations
  BY BillingAssumption, WorkersAssumption
<1>3. VerifiedSource \in Source /\ VerifiedSource # None
      /\ \A o \in Operations : VerifiedSource.attempts[o] = "None"
  <2>1. VerifiedSource \in Source /\ \A o \in Operations : VerifiedSource.attempts[o] = "None"
    BY <1>2 DEF VerifiedSource, Source
  <2> QED
    BY <2>1, AbsentAssumption
<1>4. source[FirstToken] = VerifiedSource /\ \A t \in Tokens \ {FirstToken} : source[t] = None
  BY <1>1, <1>2
<1>5. TypeOK
  <2>1. /\ now \in 0..MaxTime /\ bank \in [token : Tokens, version : 1..MaxVersion]
        /\ contract \in [Starts -> Contract \cup {None}]
        /\ source \in [Tokens -> Source \cup {None}] /\ verified \in [Tokens -> 0..MaxVersion]
    BY <1>1, <1>2, <1>3
  <2>2. ledger \in Ledger
    BY <1>1 DEF Ledger
  <2>3. QueueTypeOK
    <3>1. item \in [Items -> WorkItem]
      BY <1>1 DEF WorkItem
    <3>2. worker \in [Workers -> Worker]
      BY <1>1 DEF IdleWorker, Worker
    <3> QED
      BY <1>1, <1>2, <3>1, <3>2 DEF QueueTypeOK
  <2> QED
    BY <2>1, <2>2, <2>3 DEF TypeOK
<1>6. AccountValid(contract) /\ AttemptsTrue(contract, proc, reversed) /\ ReversedSettled(proc, reversed)
  BY <1>1 DEF AccountValid, AttemptsTrue, ReversedSettled
<1>7. WorkBegun(contract, item, proc)
  BY <1>1, <1>2 DEF WorkBegun
<1>8. \A w \in Workers : WorkerSound(contract, source, worker[w], proc)
  BY <1>1 DEF WorkerSound, IdleWorker
<1>9. SourcesMatch(contract, source, proc)
  <2>1. \A o \in Operations : contract[o[1]] = None /\ proc[o] = "unknown"
    BY <1>1, OperationParts
  <2>2. \A t \in Tokens : source[t] # None => source[t] = VerifiedSource
    BY <1>4
  <2> QED
    BY <1>1, <1>3, <2>1, <2>2 DEF SourcesMatch, AttemptIn
<1>10. source[bank.token] # None
  BY <1>1, <1>3, <1>4
<1>11. BooksMatch(contract, ledger)
  <2>1. In(contract, "Funded") = {} /\ In(contract, "Reversed") = {}
    BY <1>1 DEF In
  <2>2. IsFiniteSet({}) /\ Cardinality({}) = 0
    BY FS_EmptySet
  <2>3. /\ \A s \in Starts : ledger.receipts[s] = 0
        /\ ledger.clearing = 0 /\ ledger.loss = 0
    BY <1>1
  <2>4. -Cardinality({}) = 0
    BY <2>2
  <2> QED
    BY <2>1, <2>2, <2>3, <2>4 DEF BooksMatch
<1> QED
  BY <1>5, <1>6, <1>7, <1>8, <1>9, <1>10, <1>11 DEF IInv

LEMMA NextKeeps == ASSUME IInv, [Next]_vars PROVE IInv'
<1>1. ASSUME NEW o \in Offers, Purchase(o) PROVE IInv'
  BY <1>1, PurchaseKeeps
<1>2. ASSUME NEW s \in Starts, RetryCollection(s) PROVE IInv'
  BY <1>2, RetryKeeps
<1>3. ASSUME NEW w \in Workers, WorkerStep(w) PROVE IInv'
  <2>1. CASE Authorize(w)
    BY <2>1, AuthorizeKeeps
  <2>2. CASE Confirm(w)
    BY <2>2, ConfirmKeeps
  <2>3. ASSUME TransportStep(w), UNCHANGED others PROVE IInv'
    <3>1. ASSUME NEW outcome \in {"Settled", "Pending", "Failed"}, Submit(w, outcome) PROVE IInv'
      BY <2>3, <3>1, SubmitKeeps
    <3> QED
      BY <2>3, <3>1, LookupKeeps, FinishKeeps DEF TransportStep
  <2> QED
    BY <1>3, <2>1, <2>2, <2>3 DEF WorkerStep
<1>4. ASSUME NEW w \in Workers, NEW i \in Items, ClaimCollection(w, i) PROVE IInv'
  BY <1>4, ClaimKeeps
<1>5. ASSUME Disturbance, UNCHANGED others PROVE IInv'
  BY <1>5, DisturbanceKeeps
<1>6. ASSUME NEW o \in Operations, NEW outcome \in Terminal, Resolve(o, outcome), UNCHANGED others
      PROVE  IInv'
  BY <1>6, ResolveKeeps
<1>7. ASSUME NEW o \in Operations, NotifyReversal(o) PROVE IInv'
  BY <1>7, NotifyKeeps
<1>8. ASSUME NEW v \in 1..MaxVersion, ReverifyFunding(v) PROVE IInv'
  BY <1>8, ReverifyKeeps
<1>9. ASSUME NEW v \in 1..MaxVersion, NEW t \in Tokens, RebindBank(t, v) PROVE IInv'
  BY <1>9, RebindKeeps
<1>10. CASE Tick
  BY <1>10, TickKeeps
<1>11. CASE UNCHANGED vars
  BY <1>11, StutterKeeps
<1> QED
  BY <1>1, <1>2, <1>3, <1>4, <1>5, <1>6, <1>7, <1>8, <1>9, <1>10, <1>11 DEF Next

LEMMA AlwaysSound == Spec => []IInv
<1>1. Init => IInv
  BY InitKeeps
<1>2. IInv /\ [Next]_vars => IInv'
  BY NextKeeps
<1> QED
  BY <1>1, <1>2, PTL DEF Spec

-----------------------------------------------------------------------------
(***************************************************************************)
(* What the annual service promises.                                       *)
(***************************************************************************)

\* Every record keeps its shape: the account, its contracts, the sources, the
\* books and the queue of cs-mail-storage-postgres/src/billing.rs.
THEOREM BillingTypeCorrect == Spec => []TypeOK
<1>1. IInv => TypeOK
  BY DEF IInv
<1> QED
  BY <1>1, AlwaysSound, PTL

\* Whatever purchases, retries, evidence and reversals did to the account, the
\* decoder of BillingAccount accepts what was stored: no attempt follows one
\* that may still be charged, an economic state has its events, and no two
\* periods overlap.
THEOREM AccountLoads == Spec => []StoredAccountLoads
<1>1. IInv => StoredAccountLoads
  BY DEF IInv, AccountValid, ContractPlaced, StoredAccountLoads
<1> QED
  BY <1>1, AlwaysSound, PTL

\* The attempt at a contract and the operation reserved on the bank account it
\* is charged to agree, and the processor knows of none that the source did not
\* grant, whichever account the member's bank became (authorize_dispatch and
\* confirm_payment).
THEOREM SourcesAgree == Spec => []SourceMatchesCollection
<1>1. IInv => SourceMatchesCollection
  BY DEF IInv, SourcesMatch, AttemptIn, SourceMatchesCollection
<1> QED
  BY <1>1, AlwaysSound, PTL

\* Of the attempts at a contract only the last may be charged.
LEMMA OneCharge ==
    ASSUME IInv, NEW s \in Starts
    PROVE  LET live == {n \in 1..MaxAttempts : proc[<<s, n>>] \in {"Settled", "Pending"}}
           IN  Cardinality(live) <= 1
<1> DEFINE live == {n \in 1..MaxAttempts : proc[<<s, n>>] \in {"Settled", "Pending"}}
           L == Len(contract[s].attempts)
<1>1. ASSUME NEW n \in live PROVE n = L
  <2>1. <<s, n>> \in Operations /\ proc[<<s, n>>] \in {"Settled", "Pending"}
    BY <1>1, BillingAssumption
  <2>2. contract[s] # None /\ n \in DOMAIN contract[s].attempts
    BY <2>1, ItemBegun DEF Begun
  <2>3. contract[s] \in Contract /\ ContractPlaced(contract[s], s)
    BY <2>2, RecordFacts DEF AccountValid
  <2>4. contract[s].attempts \in Seq(PaymentState) /\ ExecutionValid(contract[s])
    BY <2>3 DEF Contract, ContractPlaced, ContractValid
  <2>5. n \in 1..L /\ L \in Nat
    BY <2>2, <2>4
  <2>6. CASE n # L
    <3>1. n \in 1..(L - 1)
      BY <2>5, <2>6
    <3>2. contract[s].attempts[n] \in {"Failed", "Voided"}
      BY <2>4, <3>1 DEF ExecutionValid
    <3>3. proc[<<s, n>>] = contract[s].attempts[n]
      BY <2>2, <3>2, RecordFacts DEF AttemptsTrue, Terminal
    <3> QED
      BY <2>1, <3>2, <3>3
  <2> QED
    BY <2>6
<1> HIDE DEF live, L
<1>2. live = {} \/ live = {L}
  BY <1>1
<1>3. Cardinality({}) = 0 /\ Cardinality({L}) = 1
  BY FS_EmptySet, FS_Singleton
<1>4. Cardinality(live) <= 1
  BY <1>2, <1>3
<1> QED
  BY <1>4 DEF live

\* A contract that counts as funded was charged, and one that was reversed after
\* that was reversed by the processor.
LEMMA FundedCharged ==
    ASSUME IInv, NEW s \in Starts, contract[s] # None
    PROVE  /\ contract[s].settlement # "Unfunded" =>
                 proc[OperationOf(s, contract[s])] = "Settled"
           /\ contract[s].settlement = "Reversed" =>
                 OperationOf(s, contract[s]) \in reversed
<1> DEFINE c == contract[s]
           L == Len(c.attempts)
<1>1. c \in Contract /\ ContractPlaced(c, s) /\ AttemptsTrue(contract, proc, reversed)
  BY RecordFacts DEF AccountValid
<1>2. c.attempts \in Seq(PaymentState) /\ c.settlement \in {"Unfunded", "Funded", "Reversed"}
  BY <1>1 DEF Contract
<1>3. L \in DOMAIN c.attempts
  <2>1. L \in 1..MaxAttempts /\ DOMAIN c.attempts = 1..L
    BY <1>1, <1>2 DEF ContractPlaced
  <2> QED
    BY <2>1, BillingAssumption
<1>4. /\ c.settlement = "Funded" => c.attempts[L] = "Settled"
      /\ c.settlement = "Reversed" => c.attempts[L] = "Reversed"
  BY <1>1 DEF ContractPlaced, ContractValid, Current
<1>5. /\ c.attempts[L] \in Terminal => proc[<<s, L>>] = c.attempts[L]
      /\ c.attempts[L] = "Reversed" => proc[<<s, L>>] = "Settled" /\ <<s, L>> \in reversed
  BY <1>1, <1>3 DEF AttemptsTrue
<1> QED
  BY <1>2, <1>4, <1>5 DEF Terminal, OperationOf

\* However often a collection is retried, its evidence repeated, lost or late,
\* or its payment reversed, at most one attempt at a period is or may still be
\* charged, what counts as funded was charged, and the books hold a receipt for
\* each period that was funded and a loss for each that was reversed
\* (ServiceContract::record, PaymentExecution::retry and confirm_payment).
THEOREM PaidOnce == Spec => []PeriodsPaidOnce
<1>1. IInv => ChargedOnce
  BY OneCharge, FundedCharged DEF ChargedOnce
<1>2. IInv => BooksMatchContracts
  BY DEF IInv, BooksMatch, In, BooksMatchContracts
<1>3. IInv => PeriodsPaidOnce
  BY <1>1, <1>2 DEF PeriodsPaidOnce
<1> QED
  BY <1>3, AlwaysSound, PTL
=============================================================================
