------------------------ MODULE MemberProgram_proofs ------------------------
(***************************************************************************)
(* The member program, for any lots, policies, members, years, corrections,*)
(* bank accounts, workers, attempts, clocks and faults.                    *)
(*                                                                         *)
(* The argument has three parts, each resting on those before it.  Sound:  *)
(* what a worker confirms, however late, is what the processor has on      *)
(* record of that attempt, so only the last attempt at a share may still   *)
(* be paid.  Calendar: a year is closed at an event after its cutoff, and  *)
(* no event is earlier than the last one, so nothing that is recorded      *)
(* later is about what the year assessed.  Money: every step moves between *)
(* the accounts what it takes from one of them; the sums over lots, shares *)
(* and years follow, and so does what a closed year left, because a year   *)
(* closes only after all that end before it starts.                        *)
(***************************************************************************)
EXTENDS MemberProgram, FiniteSetTheorems, WellFoundedInduction, TLAPS

-----------------------------------------------------------------------------
(***************************************************************************)
(* The inductive invariant.  Its parts are stated of the shares P, the     *)
(* work I, the processor's record R and its reversals V.                   *)
(***************************************************************************)

\* The attempt was made; work is about a share that there is.
Begun(P, o) == P[PayableOf(o)] # None /\ o[4] \in DOMAIN P[PayableOf(o)].attempts
HasShare(P, i) ==
    /\ i \in Operations => Begun(P, i)
    /\ i[1] = "prepare" => P[PayableOf(i)] # None

\* A share is one that MemberPayable::validate accepts.
Placed(p) ==
    /\ Len(p.attempts) <= MaxAttempts
    /\ (p.token = None) = (p.attempts = << >>)
    /\ \A e \in p.events : e[1] \in DOMAIN p.attempts
    /\ ExecutionLoads(p)
SharesPlaced(P) == \A a \in Payables : P[a] # None => Placed(P[a])

\* What a share says of an attempt that ended is what the processor says.
AttemptsTrue(P, R, V) ==
    \A a \in Payables : P[a] # None =>
        \A n \in DOMAIN P[a].attempts :
            /\ P[a].attempts[n] \in Terminal => R[PaymentItem(a, n)] = P[a].attempts[n]
            /\ P[a].attempts[n] = "Reversed" =>
                  R[PaymentItem(a, n)] = "Settled" /\ PaymentItem(a, n) \in V
ReversedSettled(R, V) == \A o \in V : R[o] = "Settled"

WorkBegun(P, I, R) ==
    /\ \A i \in Items : I[i].status # "none" => HasShare(P, i)
    /\ \A o \in Operations : R[o] # "unknown" => Begun(P, o)

\* What a worker confirms is what the processor has on record, or had.
EvidenceTrue(R, o, receipt) ==
    /\ receipt \in Terminal \cup {"Pending"}
    /\ R[o] # "unknown"
    /\ receipt \in Terminal => R[o] = receipt

WorkerSound(P, v, R) ==
    v.step # "idle" =>
        /\ v.item \in Items /\ HasShare(P, v.item)
        /\ v.step \in {"lookup", "submit", "confirm"} => v.item \in Operations
        /\ v.step = "confirm" => EvidenceTrue(R, v.item, v.receipt)

\* The records but the shares.
Records ==
    /\ now \in 0..MaxTime /\ last \in 0..MaxTime /\ last <= now
    /\ lot \in [Lots -> Lot]
    /\ disputed \subseteq Lots
    /\ member \in [Members -> Member \cup {None}]
    /\ published \subseteq Years
    /\ allocation \in [Years -> Allocation \cup {None}]
    /\ ledger \in Ledger /\ ledger.restricted \in Nat
    /\ bank \in [Members -> [token : Tokens, version : Nat]]

\* The shares, and their work.
Payments ==
    /\ payable \in [Payables -> Payable \cup {None}]
    /\ QueueTypeOK
    /\ SharesPlaced(payable)
    /\ AttemptsTrue(payable, proc, reversed)
    /\ ReversedSettled(proc, reversed)
    /\ WorkBegun(payable, item, proc)
    /\ \A w \in Workers : WorkerSound(payable, worker[w], proc)

\* A share is one of a closed year.
SharesClosed == \A a \in Payables : payable[a] # None => allocation[a[1]] # None

Sound == Records /\ Payments /\ SharesClosed

\* Who may have changed before a cutoff has: the program's last event is later.
LotsDated ==
    \A l \in Lots :
        /\ LotLoads(l)
        /\ (lot[l].state = "assessed") = (lot[l].year # None)
        /\ lot[l].year # None => allocation[lot[l].year] # None
MembersDated ==
    \A m \in Members :
        /\ MemberLoads(m)
        /\ member[m] # None => \A k \in DOMAIN member[m].changes : member[m].changes[k][1] <= last
YearsClosed ==
    \A y \in Years : allocation[y] # None =>
        /\ y \in published /\ Cutoff[y] <= last
        /\ \A z \in published : Cutoff[z] <= Start[y] => allocation[z] # None

Calendar == LotsDated /\ MembersDated /\ YearsClosed /\ SnapshotIsFinal

\* What is owed of every share.
Owed(a) == IF payable[a] = None THEN 0 ELSE Outstanding(payable[a])
SharesOwed == \A a \in Payables : ledger.payable[a] = Owed(a)

Money ==
    /\ LedgerTotal = 0
    /\ SharesOwed
    /\ PoolAccounted
    /\ \A y \in Years : AllocationLoads(y)

-----------------------------------------------------------------------------
(***************************************************************************)
(* Sums.  That every finite set has its sum is shown with smallest         *)
(* counterexamples: the subsets of a finite set are well-founded.          *)
(***************************************************************************)

\* What the sum of f takes out of s first.
Picked(s) == CHOOSE x \in s : TRUE

\* g is the sum of f over every subset of S.
Sums(f, S, g) ==
    g = [s \in SUBSET S |-> IF s = {} THEN 0 ELSE f[Picked(s)] + g[s \ {Picked(s)}]]

LEMMA SmallestSet ==
    ASSUME NEW S, IsFiniteSet(S), NEW T \in SUBSET SUBSET S, T # {}
    PROVE  \E s \in T : \A t \in T : t \subseteq s => t = s
<1>1. IsWellFoundedOn(StrictSubsetOrdering(S), FiniteSubsetsOf(S))
  BY FS_StrictSubsetOrderingWellFounded
<1>2. FiniteSubsetsOf(S) = SUBSET S
  BY FS_FiniteSubsetsOfFinite
<1>3. \E s \in T : \A t \in T : <<t, s>> \notin StrictSubsetOrdering(S)
  BY <1>1, <1>2, WFMin
<1> QED
  BY <1>3 DEF StrictSubsetOrdering

LEMMA PickedIn == ASSUME NEW s, s # {} PROVE Picked(s) \in s
BY DEF Picked

LEMMA SumsPart ==
    ASSUME NEW f, NEW S, NEW g, Sums(f, S, g), NEW T \in SUBSET S
    PROVE  Sums(f, T, [s \in SUBSET T |-> g[s]])
<1> DEFINE h == [s \in SUBSET T |-> g[s]]
<1>1. ASSUME NEW s \in SUBSET T
      PROVE  h[s] = IF s = {} THEN 0 ELSE f[Picked(s)] + h[s \ {Picked(s)}]
  <2>1. s \in SUBSET S /\ s \ {Picked(s)} \in SUBSET T
    OBVIOUS
  <2>2. g[s] = IF s = {} THEN 0 ELSE f[Picked(s)] + g[s \ {Picked(s)}]
    BY <2>1 DEF Sums
  <2> QED
    BY <2>1, <2>2
<1>2. h = [s \in SUBSET T |-> IF s = {} THEN 0 ELSE f[Picked(s)] + h[s \ {Picked(s)}]]
  BY <1>1
<1> QED
  BY <1>2 DEF Sums

LEMMA SumsOne ==
    ASSUME NEW f, NEW S, IsFiniteSet(S), NEW g, NEW h, Sums(f, S, g), Sums(f, S, h)
    PROVE  g = h
<1> DEFINE T == {s \in SUBSET S : g[s] # h[s]}
<1>1. SUFFICES ASSUME T # {} PROVE FALSE
  <2>1. g = [s \in SUBSET S |-> g[s]] /\ h = [s \in SUBSET S |-> h[s]]
    BY DEF Sums
  <2>2. T = {} => \A s \in SUBSET S : g[s] = h[s]
    OBVIOUS
  <2> QED
    BY <2>1, <2>2
<1>2. PICK s \in T : \A t \in T : t \subseteq s => t = s
  <2>1. T \in SUBSET SUBSET S
    OBVIOUS
  <2> HIDE DEF T
  <2> QED
    BY <1>1, <2>1, SmallestSet
<1>3. /\ g[s] = IF s = {} THEN 0 ELSE f[Picked(s)] + g[s \ {Picked(s)}]
      /\ h[s] = IF s = {} THEN 0 ELSE f[Picked(s)] + h[s \ {Picked(s)}]
  BY DEF Sums
<1>4. s # {} /\ Picked(s) \in s
  BY <1>3, PickedIn
<1>5. s \ {Picked(s)} \in SUBSET S /\ s \ {Picked(s)} # s /\ s \ {Picked(s)} \subseteq s
  BY <1>4
<1>6. g[s \ {Picked(s)}] = h[s \ {Picked(s)}]
  BY <1>2, <1>5
<1> QED
  BY <1>3, <1>4, <1>6

LEMMA SumsExist ==
    ASSUME NEW f, NEW S, IsFiniteSet(S)
    PROVE  \E g : Sums(f, S, g)
<1> DEFINE T == {s \in SUBSET S : ~\E g : Sums(f, s, g)}
<1>1. SUFFICES ASSUME T # {} PROVE FALSE
  <2>1. S \in SUBSET S
    OBVIOUS
  <2> QED
    BY <2>1
<1>2. PICK t \in T : \A s \in T : s \subseteq t => s = t
  <2>1. T \in SUBSET SUBSET S
    OBVIOUS
  <2> HIDE DEF T
  <2> QED
    BY <1>1, <2>1, SmallestSet
<1> DEFINE G(s) == CHOOSE g : Sums(f, s, g)
           rest(s) == s \ {Picked(s)}
           h == [s \in SUBSET t |-> IF s = {} THEN 0 ELSE f[Picked(s)] + G(rest(s))[rest(s)]]
<1>3. ASSUME NEW s \in SUBSET t, s # t PROVE IsFiniteSet(s) /\ Sums(f, s, G(s))
  <2>1. IsFiniteSet(s)
    BY FS_Subset
  <2>2. \E g : Sums(f, s, g)
    <3>1. s \in SUBSET S /\ s \notin T
      BY <1>2, <1>3
    <3> QED
      BY <3>1
  <2> QED
    BY <2>1, <2>2
<1>4. ASSUME NEW s \in SUBSET t, s # t
      PROVE  G(s)[s] = IF s = {} THEN 0 ELSE f[Picked(s)] + G(rest(s))[rest(s)]
  <2>1. G(s)[s] = IF s = {} THEN 0 ELSE f[Picked(s)] + G(s)[rest(s)]
    <3>1. Sums(f, s, G(s)) /\ s \in SUBSET s
      BY <1>3, <1>4
    <3> HIDE DEF G
    <3> QED
      BY <3>1 DEF Sums
  <2>2. ASSUME s # {} PROVE G(s)[rest(s)] = G(rest(s))[rest(s)]
    <3>1. rest(s) \in SUBSET s /\ rest(s) \in SUBSET t /\ rest(s) # t
      BY <1>4
    <3>2. Sums(f, rest(s), [u \in SUBSET rest(s) |-> G(s)[u]])
      BY <1>3, <1>4, <3>1, SumsPart
    <3>3. Sums(f, rest(s), G(rest(s))) /\ IsFiniteSet(rest(s))
      BY <1>3, <3>1
    <3>4. G(rest(s)) = [u \in SUBSET rest(s) |-> G(s)[u]]
      BY <3>2, <3>3, SumsOne
    <3> HIDE DEF G, rest
    <3> QED
      BY <3>4
  <2> QED
    BY <2>1, <2>2
<1>5. ASSUME NEW s \in SUBSET t
      PROVE  h[s] = IF s = {} THEN 0 ELSE f[Picked(s)] + h[s \ {Picked(s)}]
  <2>1. h[s] = IF s = {} THEN 0 ELSE f[Picked(s)] + G(rest(s))[rest(s)]
    OBVIOUS
  <2>2. ASSUME s # {} PROVE h[rest(s)] = G(rest(s))[rest(s)]
    <3>1. rest(s) \in SUBSET t /\ rest(s) # t
      BY <2>2, PickedIn
    <3>2. G(rest(s))[rest(s)] =
              IF rest(s) = {} THEN 0 ELSE f[Picked(rest(s))] + G(rest(rest(s)))[rest(rest(s))]
      BY <1>4, <3>1
    <3>3. h[rest(s)] =
              IF rest(s) = {} THEN 0 ELSE f[Picked(rest(s))] + G(rest(rest(s)))[rest(rest(s))]
      BY <3>1
    <3> QED
      BY <3>2, <3>3
  <2> QED
    BY <2>1, <2>2
<1>6. h = [s \in SUBSET t |-> IF s = {} THEN 0 ELSE f[Picked(s)] + h[s \ {Picked(s)}]]
  <2> HIDE DEF G, rest
  <2>1. DOMAIN h = SUBSET t /\ h = [s \in SUBSET t |-> h[s]]
    OBVIOUS
  <2> HIDE DEF h
  <2> QED
    BY <1>5, <2>1
<1>7. Sums(f, t, h)
  BY <1>6 DEF Sums
<1> QED
  BY <1>7

LEMMA SumUnfolds ==
    ASSUME NEW f, NEW S
    PROVE  SumFunctionOnSet(f, S) = (CHOOSE g : Sums(f, S, g))[S]
BY Zenon DEF SumFunctionOnSet, FoldFunctionOnSet, MapThenFoldSet, Sums, Picked

LEMMA SumStep ==
    ASSUME NEW f, NEW S, IsFiniteSet(S)
    PROVE  SumFunctionOnSet(f, S) =
               IF S = {} THEN 0
               ELSE f[Picked(S)] + SumFunctionOnSet(f, S \ {Picked(S)})
<1> DEFINE g == CHOOSE c : Sums(f, S, c)
           R == S \ {Picked(S)}
           r == CHOOSE c : Sums(f, R, c)
<1>1. Sums(f, S, g)
  BY SumsExist
<1>2. g[S] = IF S = {} THEN 0 ELSE f[Picked(S)] + g[R]
  BY <1>1 DEF Sums
<1>3. R \in SUBSET S /\ IsFiniteSet(R)
  BY FS_Subset
<1>4. Sums(f, R, r)
  BY <1>3, SumsExist
<1>5. Sums(f, R, [u \in SUBSET R |-> g[u]])
  BY <1>1, <1>3, SumsPart
<1>6. r = [u \in SUBSET R |-> g[u]]
  BY <1>3, <1>4, <1>5, SumsOne
<1>7. r[R] = g[R]
  <2> HIDE DEF r, R, g
  <2> QED
    BY <1>6
<1>8. SumFunctionOnSet(f, S) = g[S] /\ SumFunctionOnSet(f, R) = r[R]
  BY SumUnfolds
<1> QED
  BY <1>2, <1>7, <1>8

\* Induction over the subsets of a finite set, Q being those that have the
\* property: it is enough to take out of each what its sum takes out first.
LEMMA SetInduction ==
    ASSUME NEW S, IsFiniteSet(S), NEW Q, {} \in Q,
           \A s \in SUBSET S : s # {} /\ s \ {Picked(s)} \in Q => s \in Q
    PROVE  S \in Q
<1> DEFINE T == {s \in SUBSET S : s \notin Q}
<1>1. SUFFICES ASSUME T # {} PROVE FALSE
  <2>1. S \in SUBSET S
    OBVIOUS
  <2> QED
    BY <2>1
<1>2. PICK s \in T : \A t \in T : t \subseteq s => t = s
  <2>1. T \in SUBSET SUBSET S
    OBVIOUS
  <2> HIDE DEF T
  <2> QED
    BY <1>1, <2>1, SmallestSet
<1>3. s # {} /\ Picked(s) \in s
  BY PickedIn
<1>4. s \ {Picked(s)} \in SUBSET S /\ s \ {Picked(s)} # s /\ s \ {Picked(s)} \subseteq s
  BY <1>3
<1>5. s \ {Picked(s)} \in Q
  BY <1>2, <1>4
<1> QED
  BY <1>3, <1>5

LEMMA SumOfNone == ASSUME NEW f PROVE SumFunctionOnSet(f, {}) = 0
BY SumStep, FS_EmptySet

LEMMA SumInt ==
    ASSUME NEW f, NEW S, IsFiniteSet(S), \A x \in S : f[x] \in Int
    PROVE  SumFunctionOnSet(f, S) \in Int
<1> DEFINE Q == {s \in SUBSET S : SumFunctionOnSet(f, s) \in Int}
<1>1. {} \in Q
  BY SumOfNone
<1>2. ASSUME NEW s \in SUBSET S, s # {}, s \ {Picked(s)} \in Q PROVE s \in Q
  <2>1. IsFiniteSet(s) /\ Picked(s) \in s
    BY <1>2, FS_Subset, PickedIn
  <2>2. SumFunctionOnSet(f, s) = f[Picked(s)] + SumFunctionOnSet(f, s \ {Picked(s)})
    BY <1>2, <2>1, SumStep
  <2>3. f[Picked(s)] \in Int /\ SumFunctionOnSet(f, s \ {Picked(s)}) \in Int
    BY <1>2, <2>1
  <2> QED
    BY <2>2, <2>3
<1> HIDE DEF Q
<1>3. S \in Q
  BY <1>1, <1>2, SetInduction
<1> QED
  BY <1>3 DEF Q

\* A sum may take out any element first.
LEMMA SumTakes ==
    ASSUME NEW f, NEW S, IsFiniteSet(S), \A x \in S : f[x] \in Int, NEW x \in S
    PROVE  SumFunctionOnSet(f, S) = f[x] + SumFunctionOnSet(f, S \ {x})
<1> DEFINE Sum(s) == SumFunctionOnSet(f, s)
           Right(s) == \A y \in s : Sum(s) = f[y] + Sum(s \ {y})
           T == {s \in SUBSET S : ~Right(s)}
<1>1. SUFFICES ASSUME T # {} PROVE FALSE
  <2>1. S \in SUBSET S
    OBVIOUS
  <2> QED
    BY <2>1
<1>2. PICK s \in T : \A t \in T : t \subseteq s => t = s
  <2>1. T \in SUBSET SUBSET S
    OBVIOUS
  <2> HIDE DEF T
  <2> QED
    BY <1>1, <2>1, SmallestSet
<1>3. PICK y \in s : Sum(s) # f[y] + Sum(s \ {y})
  OBVIOUS
<1> DEFINE p == Picked(s)
<1>4. IsFiniteSet(s) /\ s \in SUBSET S /\ p \in s
  BY FS_Subset, PickedIn
<1>5. Sum(s) = f[p] + Sum(s \ {p})
  BY <1>3, <1>4, SumStep
<1>6. p # y
  BY <1>3, <1>5
<1>7. ASSUME NEW t \in SUBSET s, t # s PROVE Right(t) /\ Sum(t) \in Int
  <2>1. t \notin T /\ t \in SUBSET S
    BY <1>2, <1>4, <1>7
  <2>2. IsFiniteSet(t) /\ \A z \in t : f[z] \in Int
    BY <1>4, FS_Subset
  <2>3. Sum(t) \in Int
    BY <2>2, SumInt
  <2> QED
    BY <2>1, <2>3
<1> HIDE DEF p, Sum
<1>8. Sum(s \ {p}) = f[y] + Sum((s \ {p}) \ {y})
  <2>1. s \ {p} \in SUBSET s /\ s \ {p} # s /\ y \in s \ {p}
    BY <1>4, <1>6
  <2> QED
    BY <1>7, <2>1
<1>9. Sum(s \ {y}) = f[p] + Sum((s \ {y}) \ {p})
  <2>1. s \ {y} \in SUBSET s /\ s \ {y} # s /\ p \in s \ {y}
    BY <1>4, <1>6
  <2> QED
    BY <1>7, <2>1
<1>10. (s \ {p}) \ {y} = (s \ {y}) \ {p}
  OBVIOUS
<1>11. Sum((s \ {p}) \ {y}) \in Int /\ f[p] \in Int /\ f[y] \in Int
  <2>1. (s \ {p}) \ {y} \in SUBSET s /\ (s \ {p}) \ {y} # s
    BY <1>4
  <2> QED
    BY <1>4, <1>7, <2>1
<1> DEFINE rest == Sum((s \ {p}) \ {y})
<1>12. Sum(s) = f[p] + (f[y] + rest) /\ Sum(s \ {y}) = f[p] + rest /\ rest \in Int
  BY <1>5, <1>8, <1>9, <1>10, <1>11
<1> HIDE DEF rest
<1>13. Sum(s) = f[y] + Sum(s \ {y})
  BY <1>11, <1>12
<1> QED
  BY <1>3, <1>13

LEMMA SumSame ==
    ASSUME NEW f, NEW g, NEW S, IsFiniteSet(S), \A x \in S : f[x] = g[x]
    PROVE  SumFunctionOnSet(f, S) = SumFunctionOnSet(g, S)
<1> DEFINE Q == {s \in SUBSET S : SumFunctionOnSet(f, s) = SumFunctionOnSet(g, s)}
<1>1. {} \in Q
  BY SumOfNone
<1>2. ASSUME NEW s \in SUBSET S, s # {}, s \ {Picked(s)} \in Q PROVE s \in Q
  <2>1. IsFiniteSet(s) /\ Picked(s) \in s
    BY <1>2, FS_Subset, PickedIn
  <2>2. /\ SumFunctionOnSet(f, s) = f[Picked(s)] + SumFunctionOnSet(f, s \ {Picked(s)})
        /\ SumFunctionOnSet(g, s) = g[Picked(s)] + SumFunctionOnSet(g, s \ {Picked(s)})
    BY <1>2, <2>1, SumStep
  <2> QED
    BY <1>2, <2>1, <2>2
<1> HIDE DEF Q
<1>3. S \in Q
  BY <1>1, <1>2, SetInduction
<1> QED
  BY <1>3 DEF Q

LEMMA SumAdds ==
    ASSUME NEW f, NEW g, NEW h, NEW S, IsFiniteSet(S),
           \A x \in S : f[x] \in Int /\ g[x] \in Int /\ h[x] = f[x] + g[x]
    PROVE  SumFunctionOnSet(h, S) = SumFunctionOnSet(f, S) + SumFunctionOnSet(g, S)
<1> DEFINE Q == {s \in SUBSET S :
                    SumFunctionOnSet(h, s) = SumFunctionOnSet(f, s) + SumFunctionOnSet(g, s)}
<1>1. {} \in Q
  BY SumOfNone
<1>2. ASSUME NEW s \in SUBSET S, s # {}, s \ {Picked(s)} \in Q PROVE s \in Q
  <2> DEFINE p == Picked(s)
             R == s \ {p}
  <2>1. IsFiniteSet(s) /\ IsFiniteSet(R) /\ p \in s /\ R \in SUBSET S
    BY <1>2, FS_Subset, PickedIn
  <2>2. /\ SumFunctionOnSet(f, s) = f[p] + SumFunctionOnSet(f, R)
        /\ SumFunctionOnSet(g, s) = g[p] + SumFunctionOnSet(g, R)
        /\ SumFunctionOnSet(h, s) = h[p] + SumFunctionOnSet(h, R)
    BY <1>2, <2>1, SumStep
  <2>3. SumFunctionOnSet(f, R) \in Int /\ SumFunctionOnSet(g, R) \in Int
    BY <2>1, SumInt
  <2>4. SumFunctionOnSet(h, R) = SumFunctionOnSet(f, R) + SumFunctionOnSet(g, R)
    BY <1>2
  <2>5. f[p] \in Int /\ g[p] \in Int /\ h[p] = f[p] + g[p]
    BY <2>1
  <2> HIDE DEF p, R
  <2>6. SumFunctionOnSet(h, s) = SumFunctionOnSet(f, s) + SumFunctionOnSet(g, s)
    BY <2>2, <2>3, <2>4, <2>5
  <2> QED
    BY <2>6
<1> HIDE DEF Q
<1>3. S \in Q
  BY <1>1, <1>2, SetInduction
<1> QED
  BY <1>3 DEF Q

LEMMA SumAtMost ==
    ASSUME NEW f, NEW g, NEW S, IsFiniteSet(S),
           \A x \in S : f[x] \in Int /\ g[x] \in Int /\ f[x] <= g[x]
    PROVE  SumFunctionOnSet(f, S) <= SumFunctionOnSet(g, S)
<1> DEFINE Q == {s \in SUBSET S : SumFunctionOnSet(f, s) <= SumFunctionOnSet(g, s)}
<1>1. {} \in Q
  BY SumOfNone
<1>2. ASSUME NEW s \in SUBSET S, s # {}, s \ {Picked(s)} \in Q PROVE s \in Q
  <2> DEFINE p == Picked(s)
             R == s \ {p}
  <2>1. IsFiniteSet(s) /\ IsFiniteSet(R) /\ p \in s /\ R \in SUBSET S
    BY <1>2, FS_Subset, PickedIn
  <2>2. /\ SumFunctionOnSet(f, s) = f[p] + SumFunctionOnSet(f, R)
        /\ SumFunctionOnSet(g, s) = g[p] + SumFunctionOnSet(g, R)
    BY <1>2, <2>1, SumStep
  <2>3. SumFunctionOnSet(f, R) \in Int /\ SumFunctionOnSet(g, R) \in Int
    BY <2>1, SumInt
  <2>4. SumFunctionOnSet(f, R) <= SumFunctionOnSet(g, R)
    BY <1>2
  <2>5. f[p] \in Int /\ g[p] \in Int /\ f[p] <= g[p]
    BY <2>1
  <2> HIDE DEF p, R
  <2>6. SumFunctionOnSet(f, s) <= SumFunctionOnSet(g, s)
    BY <2>2, <2>3, <2>4, <2>5
  <2> QED
    BY <2>6
<1> HIDE DEF Q
<1>3. S \in Q
  BY <1>1, <1>2, SetInduction
<1> QED
  BY <1>3 DEF Q

\* The sum over two parts.
LEMMA SumSplits ==
    ASSUME NEW f, NEW A, NEW B, IsFiniteSet(A), IsFiniteSet(B), A \cap B = {},
           \A x \in A \cup B : f[x] \in Int
    PROVE  SumFunctionOnSet(f, A \cup B) = SumFunctionOnSet(f, A) + SumFunctionOnSet(f, B)
<1> DEFINE Q == {s \in SUBSET B :
                    SumFunctionOnSet(f, A \cup s) = SumFunctionOnSet(f, A) + SumFunctionOnSet(f, s)}
<1>1. {} \in Q
  <2>1. A \cup {} = A /\ SumFunctionOnSet(f, A) \in Int /\ SumFunctionOnSet(f, {}) = 0
    BY SumInt, SumOfNone
  <2> QED
    BY <2>1
<1>2. ASSUME NEW s \in SUBSET B, s # {}, s \ {Picked(s)} \in Q PROVE s \in Q
  <2> DEFINE p == Picked(s)
             R == s \ {p}
  <2>1. IsFiniteSet(s) /\ IsFiniteSet(R) /\ p \in s /\ R \in SUBSET B
    BY <1>2, FS_Subset, PickedIn
  <2>2. IsFiniteSet(A \cup s) /\ p \in A \cup s /\ (A \cup s) \ {p} = A \cup R
    BY <2>1, FS_Union
  <2>3. SumFunctionOnSet(f, s) = f[p] + SumFunctionOnSet(f, R)
    BY <1>2, <2>1, SumStep
  <2>4. SumFunctionOnSet(f, A \cup s) = f[p] + SumFunctionOnSet(f, A \cup R)
    <3>1. \A x \in A \cup s : f[x] \in Int
      OBVIOUS
    <3> HIDE DEF p, R
    <3>2. SumFunctionOnSet(f, A \cup s) = f[p] + SumFunctionOnSet(f, (A \cup s) \ {p})
      BY <2>2, <3>1, SumTakes
    <3> QED
      BY <2>2, <3>2
  <2>5. SumFunctionOnSet(f, A) \in Int /\ SumFunctionOnSet(f, R) \in Int
    BY <2>1, SumInt
  <2>6. SumFunctionOnSet(f, A \cup R) = SumFunctionOnSet(f, A) + SumFunctionOnSet(f, R)
    BY <1>2
  <2>7. f[p] \in Int
    BY <2>1
  <2> HIDE DEF p, R
  <2>8. SumFunctionOnSet(f, A \cup s) = SumFunctionOnSet(f, A) + SumFunctionOnSet(f, s)
    BY <2>3, <2>4, <2>5, <2>6, <2>7
  <2> QED
    BY <2>8
<1> HIDE DEF Q
<1>3. B \in Q
  BY <1>1, <1>2, SetInduction
<1> QED
  BY <1>3 DEF Q

\* One term changes.
LEMMA SumChanges ==
    ASSUME NEW f, NEW g, NEW S, IsFiniteSet(S), NEW x \in S,
           \A y \in S : f[y] \in Int /\ g[y] \in Int,
           \A y \in S \ {x} : g[y] = f[y]
    PROVE  SumFunctionOnSet(g, S) = SumFunctionOnSet(f, S) - f[x] + g[x]
<1> DEFINE R == S \ {x}
<1>1. IsFiniteSet(R)
  BY FS_Subset
<1>2. SumFunctionOnSet(g, S) = g[x] + SumFunctionOnSet(g, R)
  BY SumTakes
<1>3. SumFunctionOnSet(f, S) = f[x] + SumFunctionOnSet(f, R)
  BY SumTakes
<1>4. SumFunctionOnSet(g, R) = SumFunctionOnSet(f, R)
  BY <1>1, SumSame
<1>5. SumFunctionOnSet(f, R) \in Int
  BY <1>1, SumInt
<1> HIDE DEF R
<1> QED
  BY <1>2, <1>3, <1>4, <1>5

LEMMA SumOfSame ==
    ASSUME NEW f, NEW c \in Int, NEW S, IsFiniteSet(S), \A x \in S : f[x] = c
    PROVE  SumFunctionOnSet(f, S) = c * Cardinality(S)
<1> DEFINE Q == {s \in SUBSET S : SumFunctionOnSet(f, s) = c * Cardinality(s)}
<1>1. {} \in Q
  BY SumOfNone, FS_EmptySet
<1>2. ASSUME NEW s \in SUBSET S, s # {}, s \ {Picked(s)} \in Q PROVE s \in Q
  <2> DEFINE p == Picked(s)
             R == s \ {p}
             n == Cardinality(R)
  <2>1. IsFiniteSet(s) /\ IsFiniteSet(R) /\ p \in s /\ R \in SUBSET S
    BY <1>2, FS_Subset, PickedIn
  <2>2. SumFunctionOnSet(f, s) = c + SumFunctionOnSet(f, R)
    BY <1>2, <2>1, SumStep
  <2>3. SumFunctionOnSet(f, R) = c * n
    BY <1>2
  <2>4. Cardinality(s) = n + 1 /\ n \in Nat
    <3>1. Cardinality(R) = Cardinality(s) - 1 /\ Cardinality(s) \in Nat /\ Cardinality(R) \in Nat
      BY <2>1, FS_RemoveElement, FS_CardinalityType
    <3> QED
      BY <3>1
  <2> HIDE DEF p, R, n
  <2>5. c * (n + 1) = c + c * n
    BY <2>4
  <2>6. SumFunctionOnSet(f, s) = c * Cardinality(s)
    BY <2>2, <2>3, <2>4, <2>5
  <2> QED
    BY <2>6
<1> HIDE DEF Q
<1>3. S \in Q
  BY <1>1, <1>2, SetInduction
<1> QED
  BY <1>3 DEF Q

LEMMA SumScales ==
    ASSUME NEW f, NEW g, NEW c \in Int, NEW S, IsFiniteSet(S),
           \A x \in S : f[x] \in Int /\ g[x] = f[x] * c
    PROVE  SumFunctionOnSet(g, S) = SumFunctionOnSet(f, S) * c
<1> DEFINE Q == {s \in SUBSET S : SumFunctionOnSet(g, s) = SumFunctionOnSet(f, s) * c}
<1>1. {} \in Q
  BY SumOfNone
<1>2. ASSUME NEW s \in SUBSET S, s # {}, s \ {Picked(s)} \in Q PROVE s \in Q
  <2> DEFINE p == Picked(s)
             R == s \ {p}
             a == f[p]
             b == SumFunctionOnSet(f, R)
  <2>1. IsFiniteSet(s) /\ IsFiniteSet(R) /\ p \in s /\ R \in SUBSET S
    BY <1>2, FS_Subset, PickedIn
  <2>2. /\ SumFunctionOnSet(f, s) = a + b
        /\ SumFunctionOnSet(g, s) = g[p] + SumFunctionOnSet(g, R)
    BY <1>2, <2>1, SumStep
  <2>3. a \in Int /\ b \in Int /\ g[p] = a * c
    BY <2>1, SumInt
  <2>4. SumFunctionOnSet(g, R) = b * c
    BY <1>2
  <2> HIDE DEF p, R, a, b
  <2>5. (a + b) * c = a * c + b * c
    BY <2>3
  <2>6. SumFunctionOnSet(g, s) = SumFunctionOnSet(f, s) * c
    BY <2>2, <2>3, <2>4, <2>5
  <2> QED
    BY <2>6
<1> HIDE DEF Q
<1>3. S \in Q
  BY <1>1, <1>2, SetInduction
<1> QED
  BY <1>3 DEF Q

\* Terms that are zero may be left out.
LEMMA SumWithin ==
    ASSUME NEW f, NEW S, IsFiniteSet(S), NEW R \in SUBSET S,
           \A x \in S : f[x] \in Int, \A x \in S \ R : f[x] = 0
    PROVE  SumFunctionOnSet(f, S) = SumFunctionOnSet(f, R)
<1> DEFINE Z == S \ R
<1>1. IsFiniteSet(R) /\ IsFiniteSet(Z) /\ R \cap Z = {} /\ R \cup Z = S
  BY FS_Subset
<1>2. SumFunctionOnSet(f, R \cup Z) = SumFunctionOnSet(f, R) + SumFunctionOnSet(f, Z)
  <2>1. \A x \in R \cup Z : f[x] \in Int
    BY <1>1
  <2> HIDE DEF Z
  <2> QED
    BY <1>1, <2>1, SumSplits
<1>3. SumFunctionOnSet(f, Z) = 0 * Cardinality(Z)
  BY <1>1, SumOfSame
<1>4. 0 * Cardinality(Z) = 0 /\ SumFunctionOnSet(f, R) \in Int
  BY <1>1, FS_CardinalityType, SumInt
<1>5. SumFunctionOnSet(f, R \cup Z) = SumFunctionOnSet(f, R)
  BY <1>2, <1>3, <1>4
<1> QED
  BY <1>1, <1>5

LEMMA WholeFacts == Whole \in Nat /\ Whole > 0
BY DEF Whole

\* What a lot is worth, and the company's rate of it.
LEMMA Terms ==
    ASSUME NEW l \in Lots
    PROVE  /\ Amount[l] \in Nat /\ Amount[l] \in Int /\ 0 <= Amount[l]
           /\ BasisPoints[Policy[l]] \in Nat /\ BasisPoints[Policy[l]] <= Whole
<1>1. Amount \in [Lots -> Nat \ {0}]
  BY PolicyAssumption
<1>2. BasisPoints[Policy[l]] \in 0..Whole
  BY PolicyAssumption
<1>3. Amount[l] \in Nat \ {0}
  BY <1>1
<1> QED
  BY <1>2, <1>3, WholeFacts

\* The value of lots.
LEMMA AmountFacts ==
    ASSUME NEW lots \in SUBSET Lots
    PROVE  IsFiniteSet(lots) /\ AmountOf(lots) \in Nat
<1>1. IsFiniteSet(lots) /\ \A l \in lots : Amount[l] \in Int /\ 0 <= Amount[l]
  BY FS_Subset, FinitenessAssumption, Terms
<1>2. AmountOf(lots) \in Int
  BY <1>1, SumInt DEF AmountOf
<1> DEFINE zero == [l \in lots |-> 0]
<1>3. SumFunctionOnSet(zero, lots) = 0 * Cardinality(lots) /\ Cardinality(lots) \in Nat
  BY <1>1, SumOfSame, FS_CardinalityType
<1>4. \A l \in lots : zero[l] \in Int /\ zero[l] <= Amount[l]
  BY <1>1
<1> HIDE DEF zero
<1>5. SumFunctionOnSet(zero, lots) <= SumFunctionOnSet(Amount, lots)
  BY <1>1, <1>4, SumAtMost
<1> QED
  BY <1>1, <1>2, <1>3, <1>5 DEF AmountOf

\* What the company's rate is of each lot.
Rated == [l \in Lots |-> Amount[l] * BasisPoints[Policy[l]]]

\* One policy's share.
LEMMA ShareOfPolicy ==
    ASSUME NEW lots \in SUBSET Lots, NEW p, p \in {Policy[l] : l \in lots}
    PROVE  LET of == {l \in lots : Policy[l] = p}
               share == (AmountOf(of) * BasisPoints[p]) \div Whole
           IN  /\ share \in Nat /\ share <= AmountOf(of)
               /\ share * Whole <= SumFunctionOnSet(Rated, of)
<1> DEFINE of == {l \in lots : Policy[l] = p}
           a == AmountOf(of)
           b == BasisPoints[p]
           share == (a * b) \div Whole
<1>1. of \in SUBSET Lots /\ IsFiniteSet(of) /\ a \in Nat
  BY AmountFacts
<1>2. b \in Nat /\ b <= Whole
  BY Terms
<1>3. SumFunctionOnSet(Rated, of) = a * b
  <2>1. \A l \in of : Amount[l] \in Int /\ Rated[l] = Amount[l] * b
    BY Terms DEF Rated
  <2>2. b \in Int
    BY <1>2
  <2> HIDE DEF of, b
  <2>3. SumFunctionOnSet(Rated, of) = SumFunctionOnSet(Amount, of) * b
    BY <1>1, <2>1, <2>2, SumScales
  <2> QED
    BY <2>3 DEF AmountOf, a
<1> HIDE DEF of, a, b
<1>4. a * b \in Nat /\ a * b <= a * Whole
  BY <1>1, <1>2, WholeFacts
<1> DEFINE ab == a * b
<1>5. (ab \div Whole) \in Nat /\ (ab \div Whole) * Whole <= ab
  <2> HIDE DEF ab
  <2>1. ab \in Nat
    BY <1>4 DEF ab
  <2> QED
    BY <2>1, WholeFacts
<1>6. share <= a
  <2> DEFINE d == ab \div Whole
  <2>1. d \in Nat /\ d * Whole <= a * Whole
    <3> HIDE DEF ab
    <3> QED
      BY <1>1, <1>4, <1>5, WholeFacts DEF ab
  <2> HIDE DEF d
  <2>2. d <= a
    BY <1>1, <2>1, WholeFacts
  <2> QED
    BY <2>2 DEF d
<1> QED
  BY <1>3, <1>5, <1>6 DEF a, b, of

\* assess_funding: the company takes no more than its rate of every lot.
LEMMA ShareFacts ==
    ASSUME NEW lots \in SUBSET Lots
    PROVE  /\ CorporateShare(lots) \in Nat /\ CorporateShare(lots) <= AmountOf(lots)
           /\ CorporateShare(lots) * Whole <= SumFunctionOnSet(Rated, lots)
           /\ SumFunctionOnSet(Rated, lots) \in Int
<1> DEFINE P == {Policy[l] : l \in lots}
           Of(p) == {l \in lots : Policy[l] = p}
           share == [p \in P |-> (AmountOf(Of(p)) * BasisPoints[p]) \div Whole]
           Under(s) == {l \in lots : Policy[l] \in s}
           Sum(s) == SumFunctionOnSet(share, s)
           Good(s) == /\ Sum(s) \in Nat /\ Sum(s) <= AmountOf(Under(s))
                      /\ Sum(s) * Whole <= SumFunctionOnSet(Rated, Under(s))
           Q == {s \in SUBSET P : Good(s)}
<1>1. IsFiniteSet(P)
  <2>1. IsFiniteSet(lots)
    BY AmountFacts
  <2>2. [l \in lots |-> Policy[l]] \in Surjection(lots, P)
    BY DEF Surjection
  <2> HIDE DEF P
  <2> QED
    BY <2>1, <2>2, FS_Surjection
<1>2. \A l \in lots : Amount[l] \in Int /\ Rated[l] \in Int
  BY Terms DEF Rated
<1>3. ASSUME NEW s \in SUBSET P
      PROVE  /\ Under(s) \in SUBSET Lots /\ IsFiniteSet(Under(s)) /\ AmountOf(Under(s)) \in Nat
             /\ SumFunctionOnSet(Rated, Under(s)) \in Int
  <2>1. Under(s) \in SUBSET Lots
    OBVIOUS
  <2>2. \A l \in Under(s) : Rated[l] \in Int
    BY <1>2
  <2> HIDE DEF Under
  <2>3. IsFiniteSet(Under(s)) /\ AmountOf(Under(s)) \in Nat
    BY <2>1, AmountFacts
  <2>4. SumFunctionOnSet(Rated, Under(s)) \in Int
    BY <2>2, <2>3, SumInt
  <2> QED
    BY <2>1, <2>3, <2>4
<1>4. {} \in Q
  <2>1. Under({}) = {}
    OBVIOUS
  <2>2. AmountOf({}) = 0 /\ SumFunctionOnSet(Rated, {}) = 0 /\ Sum({}) = 0
    BY SumOfNone DEF AmountOf
  <2>3. 0 * Whole = 0
    BY WholeFacts
  <2> QED
    BY <2>1, <2>2, <2>3
<1>5. ASSUME NEW s \in SUBSET P, s # {}, s \ {Picked(s)} \in Q PROVE s \in Q
  <2> DEFINE p == Picked(s)
             R == s \ {p}
  <2>1. IsFiniteSet(s) /\ p \in s /\ R \in SUBSET P /\ p \in P
    BY <1>1, <1>5, FS_Subset, PickedIn
  <2>2. Good(R)
    BY <1>5
  <2>3. Sum(s) = share[p] + Sum(R)
    <3> HIDE DEF share
    <3> QED
      BY <1>5, <2>1, SumStep
  <2>4. /\ share[p] \in Nat /\ share[p] <= AmountOf(Of(p))
        /\ share[p] * Whole <= SumFunctionOnSet(Rated, Of(p))
    <3>1. share[p] = (AmountOf(Of(p)) * BasisPoints[p]) \div Whole
      BY <2>1
    <3> HIDE DEF p, share
    <3> QED
      BY <2>1, <3>1, ShareOfPolicy
  <2>5. /\ Under(s) = Under(R) \cup Of(p) /\ Under(R) \cap Of(p) = {}
        /\ Of(p) = Under({p}) /\ {p} \in SUBSET P
    BY <2>1
  <2>6. /\ IsFiniteSet(Of(p)) /\ AmountOf(Of(p)) \in Nat /\ SumFunctionOnSet(Rated, Of(p)) \in Int
        /\ IsFiniteSet(Under(R)) /\ AmountOf(Under(R)) \in Nat
        /\ SumFunctionOnSet(Rated, Under(R)) \in Int
    BY <1>3, <2>1, <2>5
  <2>7. \A l \in Under(R) \cup Of(p) : Amount[l] \in Int /\ Rated[l] \in Int
    BY <1>2
  <2> HIDE DEF p, R, Of, Under, share, Sum
  <2>8. AmountOf(Under(s)) = AmountOf(Under(R)) + AmountOf(Of(p))
    <3>1. SumFunctionOnSet(Amount, Under(R) \cup Of(p)) =
              SumFunctionOnSet(Amount, Under(R)) + SumFunctionOnSet(Amount, Of(p))
      BY <2>5, <2>6, <2>7, SumSplits
    <3> QED
      BY <2>5, <3>1 DEF AmountOf
  <2>9. SumFunctionOnSet(Rated, Under(s)) =
            SumFunctionOnSet(Rated, Under(R)) + SumFunctionOnSet(Rated, Of(p))
    <3>1. SumFunctionOnSet(Rated, Under(R) \cup Of(p)) =
              SumFunctionOnSet(Rated, Under(R)) + SumFunctionOnSet(Rated, Of(p))
      BY <2>5, <2>6, <2>7, SumSplits
    <3> QED
      BY <2>5, <3>1
  <2>10. (share[p] + Sum(R)) * Whole = share[p] * Whole + Sum(R) * Whole
    BY <2>2, <2>4, WholeFacts
  <2>11. share[p] * Whole \in Int /\ Sum(R) * Whole \in Int
    BY <2>2, <2>4, WholeFacts
  <2>12. Sum(s) \in Nat /\ Sum(s) <= AmountOf(Under(s))
    BY <2>2, <2>3, <2>4, <2>6, <2>8
  <2>13. Sum(s) * Whole <= SumFunctionOnSet(Rated, Under(s))
    BY <2>2, <2>3, <2>4, <2>6, <2>9, <2>10, <2>11
  <2> QED
    BY <2>12, <2>13
<1> HIDE DEF Q
<1>6. P \in Q
  BY <1>1, <1>4, <1>5, SetInduction
<1>7. Good(P) /\ Under(P) = lots
  BY <1>6 DEF Q
<1>8. CorporateShare(lots) = Sum(P)
  BY DEF CorporateShare, SumFunction
<1>9. SumFunctionOnSet(Rated, lots) \in Int
  BY <1>3, <1>7
<1> HIDE DEF P, Sum, Under
<1> QED
  BY <1>7, <1>8, <1>9

-----------------------------------------------------------------------------
(***************************************************************************)
(* Items.                                                                  *)
(***************************************************************************)

LEMMA PaymentItems ==
    ASSUME NEW a \in Payables
    PROVE  /\ PayableOf(PrepareItem(a)) = a /\ PrepareItem(a) \in Items
           /\ PrepareItem(a) \notin Operations /\ PrepareItem(a)[1] = "prepare"
           /\ \A n : PayableOf(PaymentItem(a, n)) = a /\ PaymentItem(a, n)[4] = n
           /\ \A n \in 1..MaxAttempts : /\ PaymentItem(a, n) \in Operations
                                        /\ PaymentItem(a, n) \in Items
<1>1. PICK y \in Years, m \in Members \cup Corrections : a = <<y, m>>
  BY DEF Payables
<1>2. PrepareItem(a) = <<"prepare", y, m, 0>> /\ \A n : PaymentItem(a, n) = <<"pay", y, m, n>>
  BY <1>1 DEF PrepareItem, PaymentItem
<1>3. PayableOf(PrepareItem(a)) = a /\ PrepareItem(a)[1] = "prepare"
  BY <1>1, <1>2 DEF PayableOf
<1>4. \A n : PayableOf(PaymentItem(a, n)) = a /\ PaymentItem(a, n)[4] = n
  BY <1>1, <1>2 DEF PayableOf
<1>5. \A n \in 1..MaxAttempts : PaymentItem(a, n) \in Operations
  BY ItemsAssumption
<1>6. PrepareItem(a) \in Items /\ Operations \subseteq Items
  BY ItemsAssumption
<1>7. PrepareItem(a) \notin Operations
  <2>1. SUFFICES ASSUME NEW b \in Payables, NEW n \in 1..MaxAttempts, PrepareItem(a) = PaymentItem(b, n)
                 PROVE  FALSE
    BY ItemsAssumption
  <2>2. PaymentItem(b, n)[1] = "pay"
    BY DEF PaymentItem
  <2> QED
    BY <1>3, <2>1, <2>2
<1> QED
  BY <1>3, <1>4, <1>5, <1>6, <1>7

LEMMA OperationParts ==
    ASSUME NEW o \in Operations
    PROVE  /\ PayableOf(o) \in Payables /\ o[4] \in 1..MaxAttempts
           /\ o = PaymentItem(PayableOf(o), o[4])
           /\ o \in Items /\ o[1] = "pay"
<1>1. PICK a \in Payables, n \in 1..MaxAttempts : o = PaymentItem(a, n)
  BY ItemsAssumption
<1>2. PayableOf(o) = a /\ o[4] = n /\ o \in Items
  BY <1>1, PaymentItems
<1>3. o[1] = "pay"
  BY <1>1 DEF PaymentItem
<1> QED
  BY <1>1, <1>2, <1>3

LEMMA ItemParts ==
    ASSUME NEW i \in Items
    PROVE  /\ i[1] = "pay" => i \in Operations
           /\ i[1] = "prepare" => PayableOf(i) \in Payables /\ i \notin Operations
           /\ i[1] = "allocate" => i[2] \in Years /\ i \notin Operations
<1>1. CASE i \in Operations
  BY <1>1, OperationParts
<1>2. ASSUME NEW y \in Years, i = AllocateItem(y) PROVE i[1] = "allocate" /\ i[2] = y
  BY <1>2 DEF AllocateItem
<1>3. ASSUME NEW a \in Payables, i = PrepareItem(a) PROVE i[1] = "prepare" /\ PayableOf(i) = a
  BY <1>3, PaymentItems
<1>4. \A o \in Operations : o[1] = "pay"
  BY OperationParts
<1>5. CASE i \notin Operations
  <2>1. \/ \E y \in Years : i = AllocateItem(y)
        \/ \E a \in Payables : i = PrepareItem(a)
    BY <1>5, ItemsAssumption
  <2> QED
    BY <1>2, <1>3, <1>5, <2>1
<1> QED
  BY <1>1, <1>5

LEMMA YearItems == ASSUME NEW y \in Years
                   PROVE AllocateItem(y) \in Items /\ AllocateItem(y) \notin Operations
                         /\ AllocateItem(y)[1] = "allocate"
<1>1. AllocateItem(y) \in Items
  BY ItemsAssumption
<1>2. AllocateItem(y)[1] = "allocate"
  BY DEF AllocateItem
<1> QED
  BY <1>1, <1>2, OperationParts

-----------------------------------------------------------------------------
(***************************************************************************)
(* One share.                                                              *)
(***************************************************************************)

\* An outcome an attempt may take, and what it took before, stay its own.
LEMMA AdvanceFacts ==
    ASSUME NEW a \in PaymentState, NEW x \in Outcome, CanAdvance(a, x)
    PROVE  /\ Advance(a, x) \in PaymentState
           /\ Advance(a, x) # a =>
                 /\ x # "Pending" /\ Advance(a, x) = x
                 /\ \/ a = "Pending" /\ x \in Terminal
                    \/ a = "Settled" /\ x = "Reversed"
           /\ CanAdvance(Advance(a, x), x) /\ Advance(Advance(a, x), x) = Advance(a, x)
           /\ \A y \in Outcome : CanAdvance(a, y) /\ Advance(a, y) = a =>
                 CanAdvance(Advance(a, x), y) /\ Advance(Advance(a, x), y) = Advance(a, x)
BY DEF PaymentState, Outcome, CanAdvance, Advance, Terminal

LEMMA EvidencedParts ==
    ASSUME NEW p \in Payable, NEW n \in DOMAIN p.attempts, n \in 1..MaxAttempts,
           NEW outcome \in Outcome, CanAdvance(p.attempts[n], outcome)
    PROVE  LET d == Evidenced(p, n, outcome)
           IN  /\ d \in Payable /\ d.member = p.member /\ d.amount = p.amount /\ d.token = p.token
               /\ Len(d.attempts) = Len(p.attempts) /\ DOMAIN d.attempts = DOMAIN p.attempts
               /\ d.attempts[n] = Advance(p.attempts[n], outcome)
               /\ \A m \in DOMAIN p.attempts \ {n} : d.attempts[m] = p.attempts[m]
               /\ d.events = p.events \cup {<<n, outcome>>}
               /\ d.attempts \in Seq(PaymentState)
<1> DEFINE d == Evidenced(p, n, outcome)
           a == Advance(p.attempts[n], outcome)
           attempts == [p.attempts EXCEPT ![n] = a]
           events == p.events \cup {<<n, outcome>>}
<1>1. /\ p.attempts \in Seq(PaymentState) /\ p.attempts[n] \in PaymentState
      /\ p.member \in Members /\ p.amount \in Nat /\ p.token \in Tokens \cup {None}
      /\ p.events \in SUBSET ((1..MaxAttempts) \X Outcome)
  BY DEF Payable
<1>2. d = [p EXCEPT !.attempts[n] = a, !.events = events]
  BY DEF Evidenced
<1>3. a \in PaymentState
  BY <1>1, AdvanceFacts
<1>4. /\ attempts \in Seq(PaymentState) /\ Len(attempts) = Len(p.attempts)
      /\ DOMAIN attempts = DOMAIN p.attempts /\ attempts[n] = a
      /\ \A m \in DOMAIN p.attempts \ {n} : attempts[m] = p.attempts[m]
  <2> HIDE DEF a
  <2> QED
    BY <1>1, <1>3
<1>5. events \in SUBSET ((1..MaxAttempts) \X Outcome)
  BY <1>1
<1> HIDE DEF a, events
<1>6. /\ d.attempts = attempts /\ d.events = events
      /\ d.member = p.member /\ d.amount = p.amount /\ d.token = p.token
  BY <1>2 DEF Payable
<1>7. d = [member |-> p.member, amount |-> p.amount, token |-> p.token, attempts |-> attempts,
           events |-> events]
  BY <1>2 DEF Payable
<1> HIDE DEF attempts
<1>8. d \in Payable
  BY <1>1, <1>4, <1>5, <1>7 DEF Payable
<1> HIDE DEF d
<1> QED
  BY <1>4, <1>6, <1>8 DEF a, events, d

\* PaymentExecution::record_receipt: a share that took evidence can be loaded
\* again, and what is outstanding changes with an economic outcome only.
LEMMA EvidencedPlaced ==
    ASSUME NEW p \in Payable, Placed(p), NEW n \in DOMAIN p.attempts,
           NEW outcome \in Outcome, CanAdvance(p.attempts[n], outcome),
           Economic(p.attempts[n], outcome) => n = Len(p.attempts)
    PROVE  LET d == Evidenced(p, n, outcome)
           IN  /\ n \in 1..MaxAttempts
               /\ Placed(d)
               /\ Economic(p.attempts[n], outcome) =>
                     \/ outcome = "Settled" /\ State(p) = "Pending" /\ State(d) = "Settled"
                     \/ outcome = "Reversed" /\ State(p) = "Settled" /\ State(d) = "Reversed"
               /\ ~Economic(p.attempts[n], outcome) =>
                     ((State(d) = "Settled") <=> (State(p) = "Settled"))
<1> DEFINE d == Evidenced(p, n, outcome)
           L == Len(p.attempts)
<1>1. /\ p.attempts \in Seq(PaymentState) /\ p.events \in SUBSET ((1..MaxAttempts) \X Outcome)
      /\ p.token \in Tokens \cup {None}
  BY DEF Payable
<1>2. /\ L \in Nat /\ DOMAIN p.attempts = 1..L /\ p.attempts[n] \in PaymentState
      /\ L <= MaxAttempts /\ MaxAttempts \in Nat
      /\ n \in 1..L /\ L \in 1..L /\ p.attempts # << >>
  <2>1. L \in Nat /\ DOMAIN p.attempts = 1..L /\ p.attempts[n] \in PaymentState
    BY <1>1
  <2>2. L <= MaxAttempts /\ MaxAttempts \in Nat
    BY BoundsAssumption DEF Placed
  <2>3. n \in 1..L
    BY <2>1
  <2>4. L \in 1..L
    BY <2>1, <2>3
  <2>5. p.attempts # << >>
    BY <1>1, <2>1, <2>3
  <2> QED
    BY <2>1, <2>2, <2>3, <2>4, <2>5
<1>3. n \in 1..MaxAttempts
  BY <1>2
<1>4. /\ d.token = p.token
      /\ Len(d.attempts) = L /\ DOMAIN d.attempts = 1..L
      /\ d.attempts[n] = Advance(p.attempts[n], outcome)
      /\ \A m \in (1..L) \ {n} : d.attempts[m] = p.attempts[m]
      /\ d.events = p.events \cup {<<n, outcome>>}
      /\ d.attempts \in Seq(PaymentState)
  BY <1>2, <1>3, EvidencedParts
<1> HIDE DEF d, L
<1>5. /\ ExecutionLoads(p) /\ (p.token = None) = (p.attempts = << >>)
      /\ \A e \in p.events : e[1] \in 1..L
  BY <1>2 DEF Placed
<1>6. /\ d.attempts[n] # p.attempts[n] =>
            /\ outcome # "Pending" /\ d.attempts[n] = outcome
            /\ \/ p.attempts[n] = "Pending" /\ outcome \in Terminal
               \/ p.attempts[n] = "Settled" /\ outcome = "Reversed"
      /\ CanAdvance(d.attempts[n], outcome) /\ Advance(d.attempts[n], outcome) = d.attempts[n]
      /\ \A y \in Outcome : CanAdvance(p.attempts[n], y) /\ Advance(p.attempts[n], y) = p.attempts[n] =>
            CanAdvance(d.attempts[n], y) /\ Advance(d.attempts[n], y) = d.attempts[n]
  BY <1>2, <1>4, AdvanceFacts
<1>7. \A m \in 1..(L - 1) : d.attempts[m] \in {"Failed", "Voided"}
  <2> SUFFICES ASSUME NEW m \in 1..(L - 1) PROVE d.attempts[m] \in {"Failed", "Voided"}
    OBVIOUS
  <2>1. m \in 1..L
    BY <1>2
  <2>2. p.attempts[m] \in {"Failed", "Voided"}
    BY <1>5 DEF ExecutionLoads, L
  <2>3. m = n => d.attempts[n] = p.attempts[n]
    BY <1>6, <2>2
  <2> QED
    BY <1>4, <2>1, <2>2, <2>3
<1>8. ASSUME NEW m \in 1..L
      PROVE  /\ d.attempts[m] = "Reversed" => {<<m, "Settled">>, <<m, "Reversed">>} \subseteq d.events
             /\ d.attempts[m] \in Terminal => <<m, d.attempts[m]>> \in d.events
  <2>1. /\ p.attempts[m] = "Reversed" => {<<m, "Settled">>, <<m, "Reversed">>} \subseteq p.events
        /\ p.attempts[m] \in Terminal => <<m, p.attempts[m]>> \in p.events
    BY <1>2, <1>5 DEF ExecutionLoads
  <2>2. CASE d.attempts[m] = p.attempts[m]
    BY <1>4, <2>1, <2>2
  <2>3. CASE d.attempts[m] # p.attempts[m]
    <3>1. m = n
      BY <1>4, <2>3
    <3> QED
      BY <1>4, <1>6, <2>1, <2>3, <3>1 DEF Terminal
  <2> QED
    BY <2>2, <2>3
<1>9. ASSUME NEW e \in d.events
      PROVE  /\ CanAdvance(d.attempts[e[1]], e[2])
             /\ Advance(d.attempts[e[1]], e[2]) = d.attempts[e[1]]
             /\ e[1] \in DOMAIN d.attempts
  <2>1. CASE e = <<n, outcome>>
    BY <1>2, <1>4, <1>6, <2>1
  <2>2. CASE e \in p.events
    <3>1. /\ CanAdvance(p.attempts[e[1]], e[2]) /\ e[2] \in Outcome
          /\ Advance(p.attempts[e[1]], e[2]) = p.attempts[e[1]]
          /\ e[1] \in 1..L
      BY <1>1, <1>5, <2>2 DEF ExecutionLoads
    <3> QED
      BY <1>4, <1>6, <3>1
  <2> QED
    BY <1>4, <2>1, <2>2
<1>10. ExecutionLoads(d)
  BY <1>4, <1>7, <1>8, <1>9 DEF ExecutionLoads
<1>11. d.attempts # << >>
  BY <1>2, <1>4
<1>12. Placed(d)
  <2>1. (d.token = None) = (d.attempts = << >>)
    BY <1>2, <1>4, <1>5, <1>11
  <2> QED
    BY <1>2, <1>4, <1>9, <1>10, <2>1 DEF Placed
<1>13. State(p) = p.attempts[L] /\ State(d) = d.attempts[L]
  BY <1>2, <1>4, <1>11 DEF State, L
<1>14. Economic(p.attempts[n], outcome) =>
          \/ outcome = "Settled" /\ State(p) = "Pending" /\ State(d) = "Settled"
          \/ outcome = "Reversed" /\ State(p) = "Settled" /\ State(d) = "Reversed"
  BY <1>4, <1>6, <1>13 DEF Economic, Terminal, L
<1>15. ~Economic(p.attempts[n], outcome) => ((State(d) = "Settled") <=> (State(p) = "Settled"))
  <2>1. n # L => State(d) = State(p)
    BY <1>2, <1>4, <1>13
  <2>2. CASE n = L
    BY <1>4, <1>6, <1>13, <2>2 DEF Economic, Terminal
  <2> QED
    BY <2>1, <2>2
<1> QED
  BY <1>3, <1>12, <1>14, <1>15 DEF d

\* The share p when it is sent to the bank account t.
Retried(p, t) == [p EXCEPT !.token = t, !.attempts = Append(@, "Pending")]

\* MemberPayable::prepare: only what was never tried or definitely failed is
\* tried again.
LEMMA RetriedPlaced ==
    ASSUME NEW p \in Payable, Placed(p), NEW t \in Tokens,
           p.token = None \/ Retries(p), Len(p.attempts) + 1 <= MaxAttempts
    PROVE  LET d == Retried(p, t)
           IN  /\ d \in Payable /\ Placed(d) /\ d.member = p.member /\ d.amount = p.amount
               /\ Len(d.attempts) = Len(p.attempts) + 1
               /\ Len(d.attempts) \in DOMAIN d.attempts
               /\ Len(d.attempts) \in 1..MaxAttempts
               /\ d.attempts[Len(d.attempts)] = "Pending"
               /\ DOMAIN p.attempts \subseteq DOMAIN d.attempts
               /\ \A n \in DOMAIN d.attempts \ {Len(d.attempts)} :
                     n \in DOMAIN p.attempts /\ d.attempts[n] = p.attempts[n]
               /\ State(d) = "Pending" /\ State(p) # "Settled"
<1> DEFINE d == Retried(p, t)
           L == Len(p.attempts)
           A == Append(p.attempts, "Pending")
<1>1. /\ p.attempts \in Seq(PaymentState) /\ p.events \in SUBSET ((1..MaxAttempts) \X Outcome)
      /\ p.token \in Tokens \cup {None} /\ p.member \in Members /\ p.amount \in Nat
  BY DEF Payable
<1>2. L \in Nat /\ DOMAIN p.attempts = 1..L /\ MaxAttempts \in Nat /\ (p.attempts = << >> <=> L = 0)
  BY <1>1, BoundsAssumption
<1>3. /\ A \in Seq(PaymentState) /\ Len(A) = L + 1 /\ DOMAIN A = 1..(L + 1)
      /\ A[L + 1] = "Pending" /\ \A n \in 1..L : A[n] = p.attempts[n]
  <2>1. "Pending" \in PaymentState
    BY DEF PaymentState
  <2> QED
    BY <1>1, <2>1
<1>4. d = [p EXCEPT !.token = t, !.attempts = A]
  BY DEF Retried
<1> HIDE DEF A
<1>5. /\ d.token = t /\ d.attempts = A /\ d.events = p.events /\ d.member = p.member
      /\ d.amount = p.amount
      /\ d = [member |-> p.member, amount |-> p.amount, token |-> t, attempts |-> A,
              events |-> p.events]
  BY <1>4 DEF Payable
<1>6. d \in Payable
  BY <1>1, <1>3, <1>5 DEF Payable
<1> HIDE DEF d, L
<1>7. /\ ExecutionLoads(p) /\ (p.token = None) = (p.attempts = << >>)
      /\ \A e \in p.events : e[1] \in 1..L
  BY <1>2 DEF Placed
<1>8. L # 0 => p.attempts[L] = "Failed"
  <2>1. L # 0 => State(p) = "Failed"
    BY <1>2, <1>7 DEF Retries
  <2> QED
    BY <1>2, <2>1 DEF State, L
<1>9. \A n \in 1..L : d.attempts[n] \in {"Failed", "Voided"}
  <2> SUFFICES ASSUME NEW n \in 1..L PROVE p.attempts[n] \in {"Failed", "Voided"}
    BY <1>3, <1>5
  <2>1. CASE n = L
    BY <1>2, <1>8, <2>1
  <2>2. CASE n # L
    <3>1. n \in 1..(L - 1)
      BY <1>2, <2>2
    <3> QED
      BY <1>7, <3>1 DEF ExecutionLoads, L
  <2> QED
    BY <2>1, <2>2
<1>10. ASSUME NEW n \in 1..(L + 1)
       PROVE  /\ d.attempts[n] = "Reversed" => {<<n, "Settled">>, <<n, "Reversed">>} \subseteq d.events
              /\ d.attempts[n] \in Terminal => <<n, d.attempts[n]>> \in d.events
  <2>1. CASE n = L + 1
    BY <1>3, <1>5, <2>1 DEF Terminal
  <2>2. CASE n # L + 1
    <3>1. n \in 1..L /\ d.attempts[n] = p.attempts[n]
      BY <1>2, <1>3, <1>5, <2>2
    <3> QED
      BY <1>2, <1>5, <1>7, <3>1 DEF ExecutionLoads
  <2> QED
    BY <2>1, <2>2
<1>11. ASSUME NEW e \in d.events
       PROVE  /\ CanAdvance(d.attempts[e[1]], e[2])
              /\ Advance(d.attempts[e[1]], e[2]) = d.attempts[e[1]]
              /\ e[1] \in 1..(L + 1)
  <2>1. e \in p.events /\ e[1] \in 1..L
    BY <1>5, <1>7
  <2>2. d.attempts[e[1]] = p.attempts[e[1]] /\ e[1] \in 1..(L + 1)
    BY <1>2, <1>3, <1>5, <2>1
  <2> QED
    BY <1>7, <2>1, <2>2 DEF ExecutionLoads
<1>12. Len(d.attempts) = L + 1 /\ DOMAIN d.attempts = 1..(L + 1) /\ (L + 1) - 1 = L
  BY <1>2, <1>3, <1>5
<1>13. ExecutionLoads(d)
  BY <1>9, <1>10, <1>11, <1>12 DEF ExecutionLoads
<1>14. Placed(d)
  <2>1. d.attempts # << >>
    BY <1>2, <1>12
  <2>2. d.token # None
    BY <1>5, AbsentAssumption
  <2>3. Len(d.attempts) <= MaxAttempts
    BY <1>12 DEF L
  <2> QED
    BY <1>11, <1>12, <1>13, <2>1, <2>2, <2>3 DEF Placed
<1>15. State(d) = "Pending" /\ d.attempts[L + 1] = "Pending"
  <2>1. d.attempts # << >> /\ d.attempts[L + 1] = "Pending"
    BY <1>2, <1>3, <1>5, <1>12
  <2> QED
    BY <1>12, <2>1 DEF State
<1>16. State(p) # "Settled"
  <2>1. CASE L = 0
    BY <1>2, <2>1 DEF State
  <2>2. CASE L # 0
    BY <1>2, <1>8, <2>2 DEF State, L
  <2> QED
    BY <2>1, <2>2
<1>17. L + 1 \in DOMAIN d.attempts /\ L + 1 \in 1..MaxAttempts
  BY <1>2, <1>12 DEF L
<1>18. \A n \in DOMAIN d.attempts \ {L + 1} : n \in 1..L /\ d.attempts[n] = p.attempts[n]
  BY <1>2, <1>3, <1>5, <1>12
<1>19. DOMAIN p.attempts \subseteq DOMAIN d.attempts
  BY <1>2, <1>12
<1> QED
  BY <1>2, <1>5, <1>6, <1>12, <1>14, <1>15, <1>16, <1>17, <1>18, <1>19 DEF d, L

\* A share that was allocated.
LEMMA NewPlaced ==
    ASSUME NEW m \in Members, NEW amount \in Nat
    PROVE  LET p == NewPayable(m, amount)
           IN  /\ p \in Payable /\ p # None /\ Placed(p) /\ p.attempts = << >> /\ p.token = None
               /\ Outstanding(p) = amount
<1> DEFINE p == NewPayable(m, amount)
<1>1. p = [member |-> m, amount |-> amount, token |-> None, attempts |-> << >>, events |-> {}]
  BY DEF NewPayable
<1>2. p.attempts = << >> /\ p.token = None /\ p.events = {} /\ p.amount = amount
  BY <1>1
<1>3. << >> \in Seq(PaymentState) /\ Len(<< >>) = 0 /\ DOMAIN << >> = {}
  OBVIOUS
<1>4. p \in Payable
  BY <1>1, <1>3 DEF Payable
<1> HIDE DEF p
<1>5. p # None
  BY <1>4, AbsentAssumption
<1>6. ExecutionLoads(p)
  BY <1>2, <1>3 DEF ExecutionLoads
<1>7. Placed(p)
  BY <1>2, <1>3, <1>6, BoundsAssumption DEF Placed
<1>8. Outstanding(p) = amount
  BY <1>2 DEF Outstanding, State
<1> QED
  BY <1>2, <1>4, <1>5, <1>7, <1>8 DEF p

-----------------------------------------------------------------------------
(***************************************************************************)
(* The queue, the workers and the processor.                               *)
(***************************************************************************)

\* What a worker's step makes of it.
Moved(w, step, o, receipt) ==
    /\ worker' \in [Workers -> Worker]
    /\ worker'[w].step = step /\ worker'[w].item = o /\ worker'[w].receipt = receipt
    /\ \A v \in Workers \ {w} : worker'[v] = worker[v]

LEMMA WorkerMoves ==
    ASSUME worker \in [Workers -> Worker], NEW w \in Workers
    PROVE  /\ \A step \in {"lookup", "submit"} :
                 Proceed(w, step) => Moved(w, step, worker[w].item, worker[w].receipt)
           /\ \A result \in {"complete", "ready", "blocked"} :
                 Conclude(w, result) => Moved(w, "finish", worker[w].item, worker[w].receipt)
           /\ \A outcome \in Outcome :
                 Answered(w, outcome) => Moved(w, "confirm", worker[w].item, outcome)
           /\ worker' = [worker EXCEPT ![w] = IdleWorker] => Moved(w, "idle", None, "unknown")
           /\ \A i \in Items :
                 worker' = [worker EXCEPT ![w] = [IdleWorker EXCEPT !.step = "authorize", !.item = i]] =>
                     Moved(w, "authorize", i, "unknown")
<1>1. worker[w] \in Worker
  OBVIOUS
<1>2. ASSUME NEW step \in {"lookup", "submit"}, Proceed(w, step)
      PROVE  Moved(w, step, worker[w].item, worker[w].receipt)
  <2> DEFINE v == [worker[w] EXCEPT !.step = step]
  <2>1. v \in Worker /\ v.step = step /\ v.item = worker[w].item /\ v.receipt = worker[w].receipt
    BY <1>1 DEF Worker
  <2>2. worker' = [worker EXCEPT ![w] = v]
    BY <1>2 DEF Proceed
  <2> HIDE DEF v
  <2> QED
    BY <2>1, <2>2 DEF Moved
<1>3. ASSUME NEW result \in {"complete", "ready", "blocked"}, Conclude(w, result)
      PROVE  Moved(w, "finish", worker[w].item, worker[w].receipt)
  <2> DEFINE v == [worker[w] EXCEPT !.step = "finish", !.result = result]
  <2>1. v \in Worker /\ v.step = "finish" /\ v.item = worker[w].item /\ v.receipt = worker[w].receipt
    BY <1>1 DEF Worker
  <2>2. worker' = [worker EXCEPT ![w] = v]
    BY <1>3 DEF Conclude
  <2> HIDE DEF v
  <2> QED
    BY <2>1, <2>2 DEF Moved
<1>4. ASSUME NEW outcome \in Outcome, Answered(w, outcome)
      PROVE  Moved(w, "confirm", worker[w].item, outcome)
  <2> DEFINE v == [worker[w] EXCEPT !.step = "confirm", !.receipt = outcome]
  <2>1. v \in Worker /\ v.step = "confirm" /\ v.item = worker[w].item /\ v.receipt = outcome
    BY <1>1 DEF Worker
  <2>2. worker' = [worker EXCEPT ![w] = v]
    BY <1>4 DEF Answered
  <2> HIDE DEF v
  <2> QED
    BY <2>1, <2>2 DEF Moved
<1>5. worker' = [worker EXCEPT ![w] = IdleWorker] => Moved(w, "idle", None, "unknown")
  BY DEF Moved, IdleWorker, Worker
<1>6. ASSUME NEW i \in Items,
             worker' = [worker EXCEPT ![w] = [IdleWorker EXCEPT !.step = "authorize", !.item = i]]
      PROVE  Moved(w, "authorize", i, "unknown")
  <2> DEFINE v == [IdleWorker EXCEPT !.step = "authorize", !.item = i]
  <2>1. v \in Worker /\ v.step = "authorize" /\ v.item = i /\ v.receipt = "unknown"
    BY DEF Worker, IdleWorker
  <2>2. worker' = [worker EXCEPT ![w] = v]
    BY <1>6
  <2> HIDE DEF v
  <2> QED
    BY <2>1, <2>2 DEF Moved
<1> QED
  BY <1>2, <1>3, <1>4, <1>5, <1>6

LEMMA QueueFacts ==
    ASSUME Payments
    PROVE  /\ item \in [Items -> WorkItem] /\ worker \in [Workers -> Worker]
           /\ proc \in [Operations -> Terminal \cup {"Pending", "unknown"}]
           /\ reversed \in SUBSET Operations /\ faults \in 0..MaxFaults
           /\ payable \in [Payables -> Payable \cup {None}] /\ SharesPlaced(payable)
           /\ AttemptsTrue(payable, proc, reversed) /\ ReversedSettled(proc, reversed)
           /\ WorkBegun(payable, item, proc)
BY DEF Payments, QueueTypeOK

LEMMA FaultCounted == ASSUME Payments, Fault \/ UNCHANGED faults PROVE faults' \in 0..MaxFaults
<1>1. faults \in 0..MaxFaults /\ MaxFaults \in Nat
  BY QueueFacts, WorkersAssumption
<1> QED
  BY <1>1 DEF Fault

\* What stays when only the queue, the workers and the processor change.
LEMMA QueueKeeps ==
    ASSUME Payments, payable' = payable,
           item' \in [Items -> WorkItem], worker' \in [Workers -> Worker],
           proc' \in [Operations -> Terminal \cup {"Pending", "unknown"}],
           reversed' \in SUBSET Operations, faults' \in 0..MaxFaults,
           AttemptsTrue(payable, proc', reversed'), ReversedSettled(proc', reversed'),
           WorkBegun(payable, item', proc'),
           \A w \in Workers : WorkerSound(payable, worker'[w], proc')
    PROVE  Payments'
<1>1. QueueTypeOK'
  BY DEF QueueTypeOK
<1> QED
  BY <1>1, QueueFacts DEF Payments

\* ... when the processor's record stays too.
LEMMA WorkKeeps ==
    ASSUME Payments, payable' = payable, UNCHANGED <<proc, reversed>>,
           item' \in [Items -> WorkItem], worker' \in [Workers -> Worker],
           Fault \/ UNCHANGED faults,
           \A i \in Items : item'[i].status # "none" => HasShare(payable, i),
           \A w \in Workers : WorkerSound(payable, worker'[w], proc)
    PROVE  Payments'
<1>1. WorkBegun(payable, item', proc)
  BY QueueFacts DEF WorkBegun
<1> QED
  BY <1>1, QueueFacts, FaultCounted, QueueKeeps

\* Work that is claimed, tried again or waits for a worker has its share.
LEMMA ItemBegun ==
    ASSUME Payments, NEW i \in Items, item[i].status # "none"
    PROVE  HasShare(payable, i)
BY QueueFacts DEF WorkBegun

LEMMA ChargeBegun ==
    ASSUME Payments, NEW o \in Operations, proc[o] # "unknown"
    PROVE  Begun(payable, o)
BY QueueFacts DEF WorkBegun

LEMMA WorkersSound == ASSUME Payments, NEW w \in Workers PROVE WorkerSound(payable, worker[w], proc)
BY DEF Payments

LEMMA ClaimKeeps ==
    ASSUME Payments, NEW w \in Workers, NEW i \in Items, Claim(w, i), payable' = payable
    PROVE  Payments'
<1>1. /\ UNCHANGED <<proc, reversed>>
      /\ Fault \/ UNCHANGED faults
      /\ item' = [item EXCEPT ![i] = [status |-> "running", holder |-> w]]
      /\ worker' = [worker EXCEPT ![w] = [IdleWorker EXCEPT !.step = "authorize", !.item = i]]
      /\ item[i].status # "none"
  BY DEF Claim
<1>2. item \in [Items -> WorkItem] /\ worker \in [Workers -> Worker]
  BY QueueFacts
<1>3. HasShare(payable, i)
  BY <1>1, ItemBegun
<1>4. /\ item' \in [Items -> WorkItem]
      /\ \A j \in Items : item'[j].status # "none" => HasShare(payable, j)
  BY <1>1, <1>2, <1>3, ItemBegun DEF WorkItem
<1>5. Moved(w, "authorize", i, "unknown")
  BY <1>1, <1>2, WorkerMoves
<1>6. ASSUME NEW v \in Workers PROVE WorkerSound(payable, worker'[v], proc)
  <2>1. CASE v = w
    BY <1>3, <1>5, <2>1 DEF Moved, WorkerSound
  <2>2. CASE v # w
    BY <1>5, <2>2, WorkersSound DEF Moved
  <2> QED
    BY <2>1, <2>2
<1> QED
  BY <1>1, <1>4, <1>5, <1>6, WorkKeeps DEF Moved

\* A step of worker w that leaves the shares and the processor alone.
LEMMA MoveKeeps ==
    ASSUME Payments, payable' = payable, UNCHANGED <<proc, reversed>>, Fault \/ UNCHANGED faults,
           item' \in [Items -> WorkItem],
           \A i \in Items : item'[i].status # "none" => HasShare(payable, i),
           NEW w \in Workers, NEW step, NEW i, NEW receipt, Moved(w, step, i, receipt),
           step # "idle" => i \in Items /\ HasShare(payable, i),
           step \in {"lookup", "submit", "confirm"} => i \in Operations,
           step = "confirm" => EvidenceTrue(proc, i, receipt)
    PROVE  Payments'
<1>1. ASSUME NEW v \in Workers PROVE WorkerSound(payable, worker'[v], proc)
  <2>1. CASE v = w
    BY <2>1 DEF Moved, WorkerSound
  <2>2. CASE v # w
    BY <2>2, WorkersSound DEF Moved
  <2> QED
    BY <2>1, <2>2
<1> QED
  BY <1>1, WorkKeeps DEF Moved

LEMMA LookupKeeps == ASSUME Payments, payable' = payable, NEW w \in Workers, Lookup(w) PROVE Payments'
<1> DEFINE o == worker[w].item
<1>1. /\ worker[w].step = "lookup" /\ UNCHANGED <<item, proc, reversed, faults>>
      /\ IF proc[o] = "unknown" THEN Proceed(w, "submit") ELSE Answered(w, proc[o])
  BY DEF Lookup
<1>2. o \in Operations /\ o \in Items /\ HasShare(payable, o)
  BY <1>1, WorkersSound DEF WorkerSound
<1>3. /\ item \in [Items -> WorkItem] /\ worker \in [Workers -> Worker]
      /\ proc[o] \in Terminal \cup {"Pending", "unknown"}
      /\ \A i \in Items : item[i].status # "none" => HasShare(payable, i)
  BY <1>2, QueueFacts, ItemBegun
<1> HIDE DEF o
<1>4. CASE proc[o] = "unknown"
  <2>1. Moved(w, "submit", o, worker[w].receipt)
    BY <1>1, <1>3, <1>4, WorkerMoves DEF o
  <2> QED
    BY <1>1, <1>2, <1>3, <2>1, MoveKeeps
<1>5. CASE proc[o] # "unknown"
  <2>1. proc[o] \in Outcome /\ EvidenceTrue(proc, o, proc[o])
    BY <1>3, <1>5 DEF EvidenceTrue, Outcome, Terminal
  <2>2. Moved(w, "confirm", o, proc[o])
    BY <1>1, <1>3, <1>5, <2>1, WorkerMoves DEF o
  <2> QED
    BY <1>1, <1>2, <1>3, <2>1, <2>2, MoveKeeps
<1> QED
  BY <1>4, <1>5

LEMMA FinishKeeps == ASSUME Payments, payable' = payable, NEW w \in Workers, Finish(w) PROVE Payments'
<1> DEFINE i == worker[w].item
           done == [status |-> worker[w].result, holder |-> None]
<1>1. /\ worker[w].step = "finish" /\ UNCHANGED <<proc, reversed, faults>>
      /\ item' = IF item[i] = [status |-> "running", holder |-> w]
                 THEN [item EXCEPT ![i] = done] ELSE item
      /\ worker' = [worker EXCEPT ![w] = IdleWorker]
  BY DEF Finish
<1>2. i \in Items /\ HasShare(payable, i)
  BY <1>1, WorkersSound DEF WorkerSound
<1>3. /\ item \in [Items -> WorkItem] /\ worker \in [Workers -> Worker]
      /\ \A j \in Items : item[j].status # "none" => HasShare(payable, j)
  BY QueueFacts, ItemBegun
<1>4. done \in WorkItem
  BY <1>3 DEF WorkItem, Worker
<1>5. Moved(w, "idle", None, "unknown")
  BY <1>1, <1>3, WorkerMoves
<1> HIDE DEF i, done
<1>6. /\ item' \in [Items -> WorkItem]
      /\ \A j \in Items : item'[j].status # "none" => HasShare(payable, j)
  BY <1>1, <1>2, <1>3, <1>4
<1> QED
  BY <1>1, <1>5, <1>6, MoveKeeps

\* Whatever stops a worker, and work that is resumed.
LEMMA DisturbanceKeeps == ASSUME Payments, payable' = payable, Disturbance PROVE Payments'
<1>1. /\ item \in [Items -> WorkItem] /\ worker \in [Workers -> Worker]
      /\ proc \in [Operations -> Terminal \cup {"Pending", "unknown"}]
      /\ reversed \in SUBSET Operations /\ faults \in 0..MaxFaults
      /\ \A i \in Items : item[i].status # "none" => HasShare(payable, i)
  BY QueueFacts, ItemBegun
<1>2. ASSUME NEW w \in Workers, Unavailable(w) PROVE Payments'
  <2>1. Moved(w, "finish", worker[w].item, worker[w].receipt)
    BY <1>1, <1>2, WorkerMoves DEF Unavailable
  <2>2. worker[w].item \in Items /\ HasShare(payable, worker[w].item)
    BY <1>2, WorkersSound DEF Unavailable, WorkerSound
  <2> QED
    BY <1>1, <1>2, <2>1, <2>2, MoveKeeps DEF Unavailable
<1>3. ASSUME NEW w \in Workers, Crash(w) PROVE Payments'
  <2>1. Moved(w, "idle", None, "unknown")
    BY <1>1, <1>3, WorkerMoves DEF Crash
  <2> QED
    BY <1>1, <1>3, <2>1, MoveKeeps DEF Crash
<1>4. ASSUME NEW i \in Items, Resume(i) PROVE Payments'
  <2>1. /\ item[i].status = "blocked" /\ item' = [item EXCEPT ![i].status = "ready"]
        /\ UNCHANGED <<worker, proc, reversed>> /\ Fault
    BY <1>4 DEF Resume
  <2>2. /\ item' \in [Items -> WorkItem]
        /\ \A j \in Items : item'[j].status # "none" => item[j].status # "none"
    BY <1>1, <2>1 DEF WorkItem
  <2> QED
    BY <1>1, <2>1, <2>2, WorkersSound, WorkKeeps
<1>5. ASSUME NEW o \in Operations, Reverse(o) PROVE Payments'
  <2>1. /\ proc[o] = "Settled" /\ reversed' = reversed \cup {o}
        /\ UNCHANGED <<item, worker, proc, faults>>
    BY <1>5 DEF Reverse
  <2>2. AttemptsTrue(payable, proc, reversed') /\ ReversedSettled(proc, reversed')
    BY <2>1, QueueFacts DEF AttemptsTrue, ReversedSettled
  <2>3. reversed' \in SUBSET Operations /\ faults' \in 0..MaxFaults
    BY <1>1, <2>1
  <2> QED
    BY <1>1, <2>1, <2>2, <2>3, QueueFacts, WorkersSound, QueueKeeps
<1> QED
  BY <1>2, <1>3, <1>4, <1>5 DEF Disturbance

\* The attempts of a share are operations.
LEMMA AttemptsAre ==
    ASSUME Payments, NEW a \in Payables, payable[a] # None, NEW n \in DOMAIN payable[a].attempts
    PROVE  /\ payable[a] \in Payable /\ Placed(payable[a])
           /\ payable[a].attempts \in Seq(PaymentState)
           /\ n \in 1..Len(payable[a].attempts) /\ n \in 1..MaxAttempts
           /\ PaymentItem(a, n) \in Operations
<1>1. payable[a] \in Payable /\ Placed(payable[a])
  BY QueueFacts DEF SharesPlaced
<1>2. payable[a].attempts \in Seq(PaymentState)
  BY <1>1 DEF Payable
<1>3. n \in 1..Len(payable[a].attempts)
  BY <1>2
<1>4. Len(payable[a].attempts) <= MaxAttempts /\ MaxAttempts \in Nat /\ Len(payable[a].attempts) \in Nat
  BY <1>1, <1>2, BoundsAssumption DEF Placed
<1>5. n \in 1..MaxAttempts
  BY <1>3, <1>4
<1> QED
  BY <1>1, <1>2, <1>3, <1>5, PaymentItems

\* The processor puts an attempt on record, or what became of it: only what it
\* has not decided changes.
LEMMA ProcessorKeeps ==
    ASSUME Payments, payable' = payable, UNCHANGED <<item, reversed>>, Fault \/ UNCHANGED faults,
           NEW o \in Operations, Begun(payable, o),
           NEW outcome \in Terminal \cup {"Pending"}, proc[o] \in {"unknown", "Pending"},
           proc' = [proc EXCEPT ![o] = outcome],
           worker' \in [Workers -> Worker],
           \A w \in Workers : WorkerSound(payable, worker'[w], proc')
    PROVE  Payments'
<1>1. /\ item \in [Items -> WorkItem] /\ reversed \in SUBSET Operations
      /\ proc \in [Operations -> Terminal \cup {"Pending", "unknown"}]
  BY QueueFacts
<1>2. /\ AttemptsTrue(payable, proc, reversed) /\ ReversedSettled(proc, reversed)
      /\ WorkBegun(payable, item, proc)
  BY QueueFacts
<1>3. /\ proc' \in [Operations -> Terminal \cup {"Pending", "unknown"}]
      /\ proc'[o] = outcome /\ \A p \in Operations \ {o} : proc'[p] = proc[p]
  BY <1>1
<1>4. ReversedSettled(proc', reversed)
  BY <1>1, <1>2, <1>3 DEF ReversedSettled
<1>5. AttemptsTrue(payable, proc', reversed)
  <2> SUFFICES ASSUME NEW a \in Payables, payable[a] # None, NEW n \in DOMAIN payable[a].attempts
               PROVE  /\ payable[a].attempts[n] \in Terminal =>
                            proc'[PaymentItem(a, n)] = payable[a].attempts[n]
                      /\ payable[a].attempts[n] = "Reversed" =>
                            proc'[PaymentItem(a, n)] = "Settled" /\ PaymentItem(a, n) \in reversed
    BY DEF AttemptsTrue
  <2>1. /\ payable[a].attempts[n] \in Terminal => proc[PaymentItem(a, n)] = payable[a].attempts[n]
        /\ payable[a].attempts[n] = "Reversed" =>
              proc[PaymentItem(a, n)] = "Settled" /\ PaymentItem(a, n) \in reversed
    BY <1>2 DEF AttemptsTrue
  <2>2. PaymentItem(a, n) \in Operations
    BY AttemptsAre
  <2>3. proc[o] \notin Terminal
    BY DEF Terminal
  <2>4. proc[PaymentItem(a, n)] \in Terminal => proc'[PaymentItem(a, n)] = proc[PaymentItem(a, n)]
    BY <1>3, <2>2, <2>3
  <2> QED
    BY <2>1, <2>4 DEF Terminal
<1>6. WorkBegun(payable, item, proc')
  BY <1>2, <1>3 DEF WorkBegun
<1> QED
  BY <1>1, <1>3, <1>4, <1>5, <1>6, FaultCounted, QueueKeeps

\* What a worker was told stays true when only what was undecided changes.
LEMMA ToldKeeps ==
    ASSUME NEW P, NEW v, NEW R, NEW Q, WorkerSound(P, v, R),
           NEW o, Q[o] # "unknown", R[o] \notin Terminal,
           \A p \in Operations \ {o} : Q[p] = R[p]
    PROVE  WorkerSound(P, v, Q)
BY DEF WorkerSound, EvidenceTrue

LEMMA SubmitKeeps ==
    ASSUME Payments, payable' = payable, NEW w \in Workers,
           NEW outcome \in {"Settled", "Pending", "Failed"}, Submit(w, outcome)
    PROVE  Payments'
<1> DEFINE o == worker[w].item
<1>1. worker[w].step = "submit" /\ UNCHANGED <<item, reversed>>
  BY DEF Submit
<1>2. o \in Operations /\ o \in Items /\ HasShare(payable, o) /\ Begun(payable, o)
  BY <1>1, WorkersSound DEF WorkerSound, HasShare
<1>3. /\ item \in [Items -> WorkItem] /\ worker \in [Workers -> Worker]
      /\ proc \in [Operations -> Terminal \cup {"Pending", "unknown"}]
      /\ \A i \in Items : item[i].status # "none" => HasShare(payable, i)
  BY QueueFacts, ItemBegun
<1>4. CASE proc[o] # "unknown"
  <2>1. /\ Answered(w, proc[o]) /\ UNCHANGED <<proc, faults>>
    BY <1>4 DEF Submit
  <2>2. proc[o] \in Outcome /\ EvidenceTrue(proc, o, proc[o])
    BY <1>2, <1>3, <1>4 DEF EvidenceTrue, Outcome, Terminal
  <2> HIDE DEF o
  <2>3. Moved(w, "confirm", o, proc[o])
    BY <1>3, <2>1, <2>2, WorkerMoves DEF o
  <2> QED
    BY <1>1, <1>2, <1>3, <2>1, <2>2, <2>3, MoveKeeps
<1>5. CASE proc[o] = "unknown"
  <2>1. /\ proc' = [proc EXCEPT ![o] = outcome]
        /\ \/ Answered(w, outcome) /\ UNCHANGED faults
           \/ Conclude(w, "ready") /\ Fault
    BY <1>5 DEF Submit
  <2> HIDE DEF o
  <2>2. proc'[o] = outcome /\ \A p \in Operations \ {o} : proc'[p] = proc[p]
    BY <1>2, <1>3, <2>1
  <2>3. outcome \in Outcome /\ outcome \in Terminal \cup {"Pending"} /\ outcome # "unknown"
    BY DEF Outcome, Terminal
  <2>4. \/ Moved(w, "confirm", o, outcome)
        \/ Moved(w, "finish", o, worker[w].receipt)
    BY <1>3, <2>1, <2>3, WorkerMoves DEF o
  <2>5. ASSUME NEW v \in Workers PROVE WorkerSound(payable, worker'[v], proc')
    <3>1. CASE v = w
      BY <1>2, <2>2, <2>3, <2>4, <3>1 DEF Moved, WorkerSound, EvidenceTrue
    <3>2. CASE v # w
      <4>1. worker'[v] = worker[v] /\ proc[o] \notin Terminal
        BY <1>5, <2>4, <3>2 DEF Moved, Terminal
      <4> QED
        BY <2>2, <2>3, <4>1, WorkersSound, ToldKeeps
    <3> QED
      BY <3>1, <3>2
  <2>6. worker' \in [Workers -> Worker]
    BY <2>4 DEF Moved
  <2>7. proc[o] \in {"unknown", "Pending"}
    BY <1>5
  <2>8. Fault \/ UNCHANGED faults
    BY <2>1
  <2> QED
    BY <1>1, <1>2, <2>1, <2>3, <2>5, <2>6, <2>7, <2>8, ProcessorKeeps
<1> QED
  BY <1>4, <1>5

LEMMA ResolveKeeps ==
    ASSUME Payments, payable' = payable, NEW o \in Operations, NEW outcome \in Terminal,
           Resolve(o, outcome)
    PROVE  Payments'
<1>1. /\ proc[o] = "Pending" /\ proc' = [proc EXCEPT ![o] = outcome]
      /\ UNCHANGED <<item, worker, reversed, faults>>
  BY DEF Resolve
<1>2. /\ proc \in [Operations -> Terminal \cup {"Pending", "unknown"}]
      /\ worker \in [Workers -> Worker] /\ Begun(payable, o)
  BY <1>1, QueueFacts, ChargeBegun
<1>3. /\ proc'[o] = outcome /\ \A p \in Operations \ {o} : proc'[p] = proc[p]
      /\ outcome # "unknown" /\ proc[o] \notin Terminal
  BY <1>1, <1>2 DEF Terminal
<1>4. ASSUME NEW w \in Workers PROVE WorkerSound(payable, worker'[w], proc')
  BY <1>1, <1>3, WorkersSound, ToldKeeps
<1> QED
  BY <1>1, <1>2, <1>4, ProcessorKeeps

-----------------------------------------------------------------------------
(***************************************************************************)
(* The shares and their attempts.                                          *)
(***************************************************************************)

\* The shares D are the shares P, some with further attempts or evidence, and
\* perhaps new ones.
Extends(P, D) ==
    \A a \in Payables : P[a] # None =>
        D[a] # None /\ DOMAIN P[a].attempts \subseteq DOMAIN D[a].attempts

LEMMA ExtensionKeeps ==
    ASSUME NEW P, NEW D, Extends(P, D)
    PROVE  /\ \A o \in Operations : Begun(P, o) => Begun(D, o)
           /\ \A i \in Items : HasShare(P, i) => HasShare(D, i)
           /\ \A v, R : WorkerSound(P, v, R) => WorkerSound(D, v, R)
<1>1. ASSUME NEW o \in Operations, Begun(P, o) PROVE Begun(D, o)
  <2>1. PayableOf(o) \in Payables
    BY OperationParts
  <2> QED
    BY <1>1, <2>1 DEF Begun, Extends
<1>2. ASSUME NEW i \in Items, HasShare(P, i) PROVE HasShare(D, i)
  <2>1. i \in Operations => Begun(D, i)
    BY <1>1, <1>2 DEF HasShare
  <2>2. i[1] = "prepare" => P[PayableOf(i)] # None /\ PayableOf(i) \in Payables
    BY <1>2, ItemParts DEF HasShare
  <2> QED
    BY <2>1, <2>2 DEF HasShare, Extends
<1>3. ASSUME NEW v, NEW R, WorkerSound(P, v, R) PROVE WorkerSound(D, v, R)
  BY <1>2, <1>3 DEF WorkerSound
<1> QED
  BY <1>1, <1>2, <1>3

LEMMA EnqueuedParts ==
    ASSUME item \in [Items -> WorkItem], NEW work, item' \in {item, Enqueued(work)}
    PROVE  /\ item' \in [Items -> WorkItem]
           /\ \A i \in Items : item'[i].status # "none" => item[i].status # "none" \/ i \in work
<1>1. CASE item' = item
  BY <1>1
<1>2. CASE item' = Enqueued(work)
  <2>1. ASSUME NEW i \in Items
        PROVE  item'[i] \in WorkItem /\ (item'[i].status # "none" => item[i].status # "none" \/ i \in work)
    <3>1. item[i] \in WorkItem
      OBVIOUS
    <3>2. item'[i] = IF i \in work /\ item[i].status = "none"
                     THEN [item[i] EXCEPT !.status = "ready"] ELSE item[i]
      BY <1>2 DEF Enqueued
    <3> QED
      BY <3>1, <3>2 DEF WorkItem
  <2>2. item' = [i \in Items |-> item'[i]]
    BY <1>2 DEF Enqueued
  <2> QED
    BY <2>1, <2>2
<1> QED
  BY <1>1, <1>2

\* A worker that ends its work, or does not take part.
LEMMA ConcludeSound ==
    ASSUME Payments, \/ UNCHANGED worker
                     \/ \E w \in Workers, result \in {"complete", "ready", "blocked"} :
                            worker[w].step # "idle" /\ Conclude(w, result)
    PROVE  /\ worker' \in [Workers -> Worker]
           /\ \A v \in Workers : WorkerSound(payable, worker'[v], proc)
<1>1. worker \in [Workers -> Worker]
  BY QueueFacts
<1>2. ASSUME NEW w \in Workers, NEW result \in {"complete", "ready", "blocked"},
             worker[w].step # "idle", Conclude(w, result)
      PROVE  /\ worker' \in [Workers -> Worker]
             /\ \A v \in Workers : WorkerSound(payable, worker'[v], proc)
  <2>1. Moved(w, "finish", worker[w].item, worker[w].receipt)
    BY <1>1, <1>2, WorkerMoves
  <2>2. worker[w].item \in Items /\ HasShare(payable, worker[w].item)
    BY <1>2, WorkersSound DEF WorkerSound
  <2>3. ASSUME NEW v \in Workers PROVE WorkerSound(payable, worker'[v], proc)
    <3>1. CASE v = w
      BY <2>1, <2>2, <3>1 DEF Moved, WorkerSound
    <3>2. CASE v # w
      BY <2>1, <3>2, WorkersSound DEF Moved
    <3> QED
      BY <3>1, <3>2
  <2> QED
    BY <2>1, <2>3 DEF Moved
<1>3. CASE UNCHANGED worker
  BY <1>1, <1>3, WorkersSound
<1> QED
  BY <1>2, <1>3

\* What stays when shares are added, attempted or take evidence, and the work
\* that is enqueued is about shares that there are.
LEMMA SharesKeep ==
    ASSUME Payments, UNCHANGED <<proc, reversed, faults>>,
           payable' \in [Payables -> Payable \cup {None}],
           SharesPlaced(payable'), AttemptsTrue(payable', proc, reversed),
           Extends(payable, payable'),
           NEW work, item' \in {item, Enqueued(work)},
           \A i \in work : HasShare(payable', i),
           \/ UNCHANGED worker
           \/ \E w \in Workers, result \in {"complete", "ready", "blocked"} :
                  worker[w].step # "idle" /\ Conclude(w, result)
    PROVE  Payments'
<1>1. /\ item \in [Items -> WorkItem] /\ reversed \in SUBSET Operations /\ faults \in 0..MaxFaults
      /\ proc \in [Operations -> Terminal \cup {"Pending", "unknown"}]
      /\ ReversedSettled(proc, reversed) /\ WorkBegun(payable, item, proc)
  BY QueueFacts
<1>2. /\ worker' \in [Workers -> Worker]
      /\ \A v \in Workers : WorkerSound(payable, worker'[v], proc)
  BY ConcludeSound
<1>3. /\ item' \in [Items -> WorkItem]
      /\ \A i \in Items : item'[i].status # "none" => item[i].status # "none" \/ i \in work
  BY <1>1, EnqueuedParts
<1>4. WorkBegun(payable', item', proc)
  BY <1>1, <1>3, ExtensionKeeps DEF WorkBegun
<1>5. \A v \in Workers : WorkerSound(payable', worker'[v], proc)
  BY <1>2, ExtensionKeeps
<1>6. QueueTypeOK'
  BY <1>1, <1>2, <1>3 DEF QueueTypeOK
<1> QED
  BY <1>1, <1>4, <1>5, <1>6 DEF Payments

\* What changes nothing but the work of a worker that ends.
LEMMA ConcludeKeeps ==
    ASSUME Payments, payable' = payable, UNCHANGED <<proc, reversed, faults>>,
           NEW work, item' \in {item, Enqueued(work)}, \A i \in work : HasShare(payable, i),
           \/ UNCHANGED worker
           \/ \E w \in Workers, result \in {"complete", "ready", "blocked"} :
                  worker[w].step # "idle" /\ Conclude(w, result)
    PROVE  Payments'
BY QueueFacts, SharesKeep DEF Extends

\* Every share that there is may be prepared.
LEMMA PrepareItemsBegun ==
    ASSUME NEW i \in PrepareItems
    PROVE  HasShare(payable', i)
<1>1. PICK a \in Payables : i = PrepareItem(a) /\ payable'[a] # None
  BY DEF PrepareItems
<1> QED
  BY <1>1, PaymentItems DEF HasShare

\* What the share p of a says is what the processor says.
ShareTrue(a, p, R, V) ==
    \A n \in DOMAIN p.attempts :
        /\ p.attempts[n] \in Terminal => R[PaymentItem(a, n)] = p.attempts[n]
        /\ p.attempts[n] = "Reversed" =>
              R[PaymentItem(a, n)] = "Settled" /\ PaymentItem(a, n) \in V

\* One share changes.
LEMMA ShareKeeps ==
    ASSUME Payments, NEW a \in Payables, NEW d \in Payable, Placed(d),
           ShareTrue(a, d, proc, reversed),
           payable[a] # None => DOMAIN payable[a].attempts \subseteq DOMAIN d.attempts,
           payable' = [payable EXCEPT ![a] = d]
    PROVE  /\ payable' \in [Payables -> Payable \cup {None}]
           /\ SharesPlaced(payable') /\ AttemptsTrue(payable', proc, reversed)
           /\ Extends(payable, payable')
           /\ payable'[a] = d /\ payable'[a] # None
           /\ \A b \in Payables \ {a} : payable'[b] = payable[b]
<1>1. /\ payable \in [Payables -> Payable \cup {None}] /\ SharesPlaced(payable)
      /\ AttemptsTrue(payable, proc, reversed)
  BY QueueFacts
<1>2. /\ payable'[a] = d /\ \A b \in Payables \ {a} : payable'[b] = payable[b]
      /\ payable' \in [Payables -> Payable \cup {None}]
  BY <1>1
<1>3. d # None
  BY AbsentAssumption
<1>4. SharesPlaced(payable')
  BY <1>1, <1>2 DEF SharesPlaced
<1>5. AttemptsTrue(payable', proc, reversed)
  <2> SUFFICES ASSUME NEW b \in Payables, payable'[b] # None
               PROVE  ShareTrue(b, payable'[b], proc, reversed)
    BY DEF AttemptsTrue, ShareTrue
  <2>1. b # a => ShareTrue(b, payable[b], proc, reversed)
    BY <1>1, <1>2 DEF AttemptsTrue, ShareTrue
  <2> QED
    BY <1>2, <2>1
<1>6. Extends(payable, payable')
  <2> SUFFICES ASSUME NEW b \in Payables, payable[b] # None
               PROVE  payable'[b] # None /\ DOMAIN payable[b].attempts \subseteq DOMAIN payable'[b].attempts
    BY DEF Extends
  <2> QED
    BY <1>2, <1>3
<1> QED
  BY <1>2, <1>3, <1>4, <1>5, <1>6

\* What the processor says of an attempt may be taken as evidence.
Evidence(o, outcome) ==
    /\ outcome \in Outcome
    /\ outcome \in Terminal => proc[o] = outcome
    /\ outcome = "Reversed" => o \in reversed

\* confirm_payout takes the evidence, or changes nothing.
LEMMA EvidenceKeeps ==
    ASSUME Payments, NEW o \in Operations, Begun(payable, o), NEW outcome, Evidence(o, outcome),
           NEW at, ConfirmPayout(PayableOf(o), o[4], outcome, at)
    PROVE  /\ payable' \in [Payables -> Payable \cup {None}]
           /\ SharesPlaced(payable') /\ AttemptsTrue(payable', proc, reversed)
           /\ Extends(payable, payable')
<1> DEFINE a == PayableOf(o)
           n == o[4]
           p == payable[a]
<1>1. /\ payable \in [Payables -> Payable \cup {None}] /\ SharesPlaced(payable)
      /\ AttemptsTrue(payable, proc, reversed) /\ ReversedSettled(proc, reversed)
  BY QueueFacts
<1>2. a \in Payables /\ o = PaymentItem(a, n) /\ p # None /\ n \in DOMAIN p.attempts
  BY OperationParts DEF Begun
<1>3. p \in Payable /\ Placed(p) /\ p.attempts \in Seq(PaymentState) /\ n \in 1..MaxAttempts
  BY <1>2, AttemptsAre
<1>4. outcome \in Outcome
  BY DEF Evidence
<1>5. CASE UNCHANGED program
  BY <1>1, <1>5 DEF program, Extends
<1>6. CASE ~UNCHANGED program
  <2>1. /\ CanConfirm(a, n, outcome, at) /\ ~Known(a, n, outcome)
        /\ payable' = [payable EXCEPT ![a] = Evidenced(p, n, outcome)]
    BY <1>6 DEF ConfirmPayout
  <2> HIDE DEF a, n
  <2>2. /\ CanAdvance(p.attempts[n], outcome)
        /\ Economic(p.attempts[n], outcome) => n = Len(p.attempts)
    BY <2>1 DEF CanConfirm
  <2> DEFINE d == Evidenced(p, n, outcome)
  <2>3. payable' = [payable EXCEPT ![a] = d]
    BY <2>1
  <2> HIDE DEF p
  <2>4. /\ d \in Payable /\ DOMAIN d.attempts = DOMAIN p.attempts
        /\ d.attempts[n] = Advance(p.attempts[n], outcome)
        /\ \A m \in DOMAIN p.attempts \ {n} : d.attempts[m] = p.attempts[m]
    BY <1>2, <1>3, <1>4, <2>2, EvidencedParts
  <2>5. Placed(d)
    BY <1>2, <1>3, <1>4, <2>2, EvidencedPlaced
  <2> HIDE DEF d
  <2>6. p.attempts[n] \in PaymentState
    BY <1>2, <1>3
  <2>7. d.attempts[n] # p.attempts[n] => d.attempts[n] = outcome /\ outcome \in Terminal \cup {"Reversed"}
    BY <1>4, <2>2, <2>4, <2>6, AdvanceFacts DEF Terminal
  <2>8. ShareTrue(a, p, proc, reversed)
    BY <1>1, <1>2 DEF AttemptsTrue, ShareTrue, p
  <2>9. ShareTrue(a, d, proc, reversed)
    <3> SUFFICES ASSUME NEW m \in DOMAIN p.attempts
                 PROVE  /\ d.attempts[m] \in Terminal => proc[PaymentItem(a, m)] = d.attempts[m]
                        /\ d.attempts[m] = "Reversed" =>
                              proc[PaymentItem(a, m)] = "Settled" /\ PaymentItem(a, m) \in reversed
      BY <2>4 DEF ShareTrue
    <3>1. CASE d.attempts[m] = p.attempts[m]
      BY <2>8, <3>1 DEF ShareTrue
    <3>2. CASE d.attempts[m] # p.attempts[m]
      <4>1. m = n
        BY <2>4, <3>2
      <4>2. d.attempts[m] = outcome /\ PaymentItem(a, m) = o
        BY <1>2, <2>7, <3>2, <4>1
      <4>3. outcome = "Reversed" => o \in reversed /\ proc[o] = "Settled"
        BY <1>1 DEF Evidence, ReversedSettled
      <4> QED
        BY <4>2, <4>3 DEF Evidence
    <3> QED
      BY <3>1, <3>2
  <2>10. DOMAIN payable[a].attempts \subseteq DOMAIN d.attempts
    BY <2>4 DEF p
  <2>11. /\ payable' \in [Payables -> Payable \cup {None}]
         /\ SharesPlaced(payable') /\ AttemptsTrue(payable', proc, reversed)
         /\ Extends(payable, payable')
    BY <1>2, <2>3, <2>4, <2>5, <2>9, <2>10, ShareKeeps
  <2> QED
    BY <2>11
<1> QED
  BY <1>5, <1>6

LEMMA ConfirmPaymentKeeps ==
    ASSUME Payments, NEW w \in Workers, NEW at, ConfirmPayment(w, at)
    PROVE  Payments'
<1> DEFINE o == worker[w].item
           outcome == worker[w].receipt
<1>1. /\ worker[w].step = "confirm" /\ ConfirmPayout(PayableOf(o), o[4], outcome, at)
      /\ UNCHANGED <<item, proc, reversed, faults>>
      /\ \E result : Conclude(w, result) /\ result \in {"complete", "ready", "blocked"}
  BY DEF ConfirmPayment, ResultOf
<1>2. o \in Operations /\ HasShare(payable, o) /\ EvidenceTrue(proc, o, outcome)
  BY <1>1, WorkersSound DEF WorkerSound
<1>3. Begun(payable, o) /\ Evidence(o, outcome)
  BY <1>2 DEF HasShare, EvidenceTrue, Evidence, Outcome, Terminal
<1> HIDE DEF o, outcome
<1>4. /\ payable' \in [Payables -> Payable \cup {None}]
      /\ SharesPlaced(payable') /\ AttemptsTrue(payable', proc, reversed)
      /\ Extends(payable, payable')
  BY <1>1, <1>2, <1>3, EvidenceKeeps
<1>5. \E v \in Workers, result \in {"complete", "ready", "blocked"} :
          worker[v].step # "idle" /\ Conclude(v, result)
  BY <1>1
<1> DEFINE work == {}
<1>6. item' \in {item, Enqueued(work)} /\ \A i \in work : HasShare(payable', i)
  BY <1>1
<1> HIDE DEF work
<1> QED
  BY <1>1, <1>4, <1>5, <1>6, SharesKeep

LEMMA NotifyReversalKeeps ==
    ASSUME Payments, NEW o \in Operations, NEW at, NotifyReversal(o, at)
    PROVE  Payments'
<1>1. /\ o \in reversed /\ ConfirmPayout(PayableOf(o), o[4], "Reversed", at)
      /\ UNCHANGED <<item, worker, proc, reversed, faults>>
  BY DEF NotifyReversal, queue
<1>2. proc[o] = "Settled"
  BY <1>1, QueueFacts DEF ReversedSettled
<1>3. Begun(payable, o) /\ Evidence(o, "Reversed")
  BY <1>1, <1>2, ChargeBegun DEF Evidence, Outcome, Terminal
<1>4. /\ payable' \in [Payables -> Payable \cup {None}]
      /\ SharesPlaced(payable') /\ AttemptsTrue(payable', proc, reversed)
      /\ Extends(payable, payable')
  BY <1>1, <1>3, EvidenceKeeps
<1> DEFINE work == {}
<1>5. item' \in {item, Enqueued(work)} /\ \A i \in work : HasShare(payable', i)
  BY <1>1
<1> HIDE DEF work
<1> QED
  BY <1>1, <1>4, <1>5, SharesKeep

LEMMA AuthorizeKeeps ==
    ASSUME Payments, NEW w \in Workers, AuthorizePayment(w)
    PROVE  Payments'
<1> DEFINE i == worker[w].item
<1>1. /\ worker[w].step = "authorize" /\ i[1] = "pay"
      /\ UNCHANGED <<item, proc, reversed, faults>> /\ payable' = payable
      /\ \/ Proceed(w, "lookup")
         \/ Conclude(w, "complete")
  BY DEF AuthorizePayment, others, program
<1>2. i \in Items /\ HasShare(payable, i) /\ i \in Operations
  BY <1>1, WorkersSound, ItemParts DEF WorkerSound
<1>3. /\ item \in [Items -> WorkItem] /\ worker \in [Workers -> Worker]
      /\ \A j \in Items : item[j].status # "none" => HasShare(payable, j)
  BY QueueFacts, ItemBegun
<1> HIDE DEF i
<1>4. \/ Moved(w, "lookup", i, worker[w].receipt)
      \/ Moved(w, "finish", i, worker[w].receipt)
  BY <1>1, <1>3, WorkerMoves DEF i
<1>5. CASE Moved(w, "lookup", i, worker[w].receipt)
  BY <1>1, <1>2, <1>3, <1>5, MoveKeeps
<1>6. CASE Moved(w, "finish", i, worker[w].receipt)
  BY <1>1, <1>2, <1>3, <1>6, MoveKeeps
<1> QED
  BY <1>4, <1>5, <1>6

\* An attempt that is pending is the last.
LEMMA PendingAttempt ==
    ASSUME NEW p \in Payable, State(p) = "Pending"
    PROVE  Len(p.attempts) \in DOMAIN p.attempts
<1>1. p.attempts \in Seq(PaymentState)
  BY DEF Payable
<1>2. p.attempts # << >>
  BY DEF State
<1> QED
  BY <1>1, <1>2

\* prepare_distribution: the attempt is recorded with the work that makes it.
LEMMA PrepareParts ==
    ASSUME Payments, bank \in [Members -> [token : Tokens, version : Nat]],
           NEW a \in Payables, payable[a] # None, NEW at, Prepare(a, at)
    PROVE  /\ payable' \in [Payables -> Payable \cup {None}]
           /\ SharesPlaced(payable') /\ AttemptsTrue(payable', proc, reversed)
           /\ Extends(payable, payable')
           /\ \E work : /\ item' \in {item, Enqueued(work)}
                        /\ \A i \in work : HasShare(payable', i)
           /\ payable'[a] # None /\ Outstanding(payable'[a]) = Outstanding(payable[a])
           /\ \A b \in Payables \ {a} : payable'[b] = payable[b]
<1> DEFINE p == payable[a]
           t == bank[p.member].token
           next == IF p.token = None \/ Retries(p) THEN Retried(p, t) ELSE p
           o == PaymentItem(a, Len(next.attempts))
<1>1. /\ payable \in [Payables -> Payable \cup {None}] /\ SharesPlaced(payable)
      /\ AttemptsTrue(payable, proc, reversed)
  BY QueueFacts
<1>2. p \in Payable /\ Placed(p) /\ ShareTrue(a, p, proc, reversed)
  BY <1>1 DEF SharesPlaced, AttemptsTrue, ShareTrue
<1>3. /\ Len(next.attempts) <= MaxAttempts
      /\ payable' = [payable EXCEPT ![a] = next]
      /\ item' = IF State(next) = "Pending" THEN Enqueued({o}) ELSE item
  BY DEF Prepare, Retried
<1>4. t \in Tokens
  BY <1>2 DEF Payable
<1> HIDE DEF p, t
<1>5. /\ next \in Payable /\ Placed(next) /\ DOMAIN p.attempts \subseteq DOMAIN next.attempts
      /\ State(next) = "Pending" => Len(next.attempts) \in DOMAIN next.attempts
      /\ Outstanding(next) = Outstanding(p)
      /\ ShareTrue(a, next, proc, reversed)
  <2>1. CASE ~(p.token = None \/ Retries(p))
    BY <1>2, <2>1, PendingAttempt
  <2>2. CASE p.token = None \/ Retries(p)
    <3> DEFINE d == Retried(p, t)
    <3>1. next = d
      BY <2>2
    <3>2. Len(p.attempts) + 1 <= MaxAttempts
      <4>1. Len(d.attempts) = Len(p.attempts) + 1
        <5>1. p.attempts \in Seq(PaymentState)
          BY <1>2 DEF Payable
        <5>2. d.attempts = Append(p.attempts, "Pending")
          BY <1>2 DEF Retried, Payable
        <5> QED
          BY <5>1, <5>2
      <4> QED
        BY <1>3, <3>1, <4>1
    <3>3. /\ d \in Payable /\ Placed(d) /\ d.amount = p.amount
          /\ Len(d.attempts) \in DOMAIN d.attempts
          /\ d.attempts[Len(d.attempts)] = "Pending"
          /\ DOMAIN p.attempts \subseteq DOMAIN d.attempts
          /\ \A n \in DOMAIN d.attempts \ {Len(d.attempts)} :
                n \in DOMAIN p.attempts /\ d.attempts[n] = p.attempts[n]
          /\ State(d) = "Pending" /\ State(p) # "Settled"
      BY <1>2, <1>4, <2>2, <3>2, RetriedPlaced
    <3> HIDE DEF d
    <3>4. ShareTrue(a, d, proc, reversed)
      BY <1>2, <3>3 DEF ShareTrue, Terminal
    <3>5. Outstanding(d) = Outstanding(p)
      BY <3>3 DEF Outstanding
    <3> QED
      BY <3>1, <3>3, <3>4, <3>5
  <2> QED
    BY <2>1, <2>2
<1> HIDE DEF next
<1>6. payable[a] # None => DOMAIN payable[a].attempts \subseteq DOMAIN next.attempts
  BY <1>5 DEF p
<1>7. /\ payable' \in [Payables -> Payable \cup {None}]
      /\ SharesPlaced(payable') /\ AttemptsTrue(payable', proc, reversed)
      /\ Extends(payable, payable')
      /\ payable'[a] = next /\ payable'[a] # None
      /\ \A b \in Payables \ {a} : payable'[b] = payable[b]
  BY <1>3, <1>5, <1>6, ShareKeeps
<1>8. State(next) = "Pending" => HasShare(payable', o)
  <2>1. /\ PayableOf(o) = a /\ o[4] = Len(next.attempts)
    BY PaymentItems
  <2>2. o[1] = "pay"
    BY DEF PaymentItem
  <2> QED
    BY <1>5, <1>7, <2>1, <2>2 DEF HasShare, Begun
<1> HIDE DEF o
<1>9. \E work : item' \in {item, Enqueued(work)} /\ \A i \in work : HasShare(payable', i)
  <2>1. CASE State(next) = "Pending"
    BY <1>3, <1>8, <2>1
  <2>2. CASE State(next) # "Pending"
    <3> DEFINE work == {}
    <3>1. item' \in {item, Enqueued(work)} /\ \A i \in work : HasShare(payable', i)
      BY <1>3, <2>2
    <3> HIDE DEF work
    <3> QED
      BY <3>1
  <2> QED
    BY <2>1, <2>2
<1> QED
  BY <1>5, <1>7, <1>9 DEF p

LEMMA PrepareAgainKeeps ==
    ASSUME Payments, bank \in [Members -> [token : Tokens, version : Nat]],
           NEW a \in Payables, NEW at, PrepareAgain(a, at)
    PROVE  Payments'
<1>1. payable[a] # None /\ Prepare(a, at) /\ UNCHANGED <<worker, proc, reversed, faults>>
  BY DEF PrepareAgain
<1>2. /\ payable' \in [Payables -> Payable \cup {None}]
      /\ SharesPlaced(payable') /\ AttemptsTrue(payable', proc, reversed)
      /\ Extends(payable, payable')
      /\ \E work : item' \in {item, Enqueued(work)} /\ \A i \in work : HasShare(payable', i)
  BY <1>1, PrepareParts
<1> QED
  BY <1>1, <1>2, SharesKeep

LEMMA ExecutePrepareKeeps ==
    ASSUME Payments, bank \in [Members -> [token : Tokens, version : Nat]],
           NEW w \in Workers, NEW at, ExecutePrepare(w, at)
    PROVE  Payments'
<1> DEFINE a == PayableOf(worker[w].item)
<1>1. /\ worker[w].step = "authorize" /\ worker[w].item[1] = "prepare"
      /\ \/ Prepare(a, at) /\ Conclude(w, "complete")
         \/ /\ UNCHANGED <<program, item>>
            /\ \E result : Conclude(w, result) /\ result \in {"ready", "blocked"}
      /\ UNCHANGED <<proc, reversed, faults>>
  BY DEF ExecutePrepare
<1>2. a \in Payables /\ payable[a] # None
  BY <1>1, WorkersSound, ItemParts DEF WorkerSound, HasShare
<1> HIDE DEF a
<1>3. CASE Prepare(a, at) /\ Conclude(w, "complete")
  <2>1. /\ payable' \in [Payables -> Payable \cup {None}]
        /\ SharesPlaced(payable') /\ AttemptsTrue(payable', proc, reversed)
        /\ Extends(payable, payable')
        /\ \E work : item' \in {item, Enqueued(work)} /\ \A i \in work : HasShare(payable', i)
    BY <1>2, <1>3, PrepareParts
  <2>2. \E v \in Workers, result \in {"complete", "ready", "blocked"} :
            worker[v].step # "idle" /\ Conclude(v, result)
    BY <1>1, <1>3
  <2> QED
    BY <1>1, <2>1, <2>2, SharesKeep
<1>4. ASSUME UNCHANGED <<program, item>>, NEW result \in {"ready", "blocked"}, Conclude(w, result)
      PROVE  Payments'
  <2> DEFINE work == {}
  <2>1. item' \in {item, Enqueued(work)} /\ \A i \in work : HasShare(payable, i)
    BY <1>4
  <2>2. payable' = payable
    BY <1>4 DEF program
  <2> HIDE DEF work
  <2>3. \E v \in Workers, r \in {"complete", "ready", "blocked"} :
            worker[v].step # "idle" /\ Conclude(v, r)
    BY <1>1, <1>4
  <2> QED
    BY <1>1, <2>1, <2>2, <2>3, ConcludeKeeps
<1> QED
  BY <1>1, <1>3, <1>4

-----------------------------------------------------------------------------
(***************************************************************************)
(* The assessment of a year.                                               *)
(***************************************************************************)

Qualified(y) == {m \in Members : Qualifies(m, y)}
Funding(y) == {l \in Lots : Eligible(l, y)}
Corporate(y) == CorporateShare(Funding(y))
Divisible(y) == Available(AmountOf(Funding(y)) - Corporate(y))
Number(y) == Cardinality(Qualified(y))
Each(y) == IF Number(y) = 0 THEN 0 ELSE Divisible(y) \div Number(y)
Left(y) == IF Number(y) = 0 THEN Divisible(y) ELSE Divisible(y) % Number(y)
Shared(y) == IF Each(y) = 0 THEN {} ELSE {y} \X Qualified(y)

LEMMA FinalizeParts ==
    ASSUME NEW y \in Years, NEW at, Finalize(y, at)
    PROVE  /\ CanFinalize(y, at) /\ Atomic(at)
           /\ lot' = [l \in Lots |-> IF l \in Funding(y)
                                     THEN [lot[l] EXCEPT !.state = "assessed", !.year = y] ELSE lot[l]]
           /\ payable' = [a \in Payables |->
                             IF a \in Shared(y) THEN NewPayable(a[2], Each(y)) ELSE payable[a]]
           /\ allocation' = [allocation EXCEPT ![y] =
                  [members |-> Qualified(y), funding |-> Funding(y), each |-> Each(y),
                   remainder |-> Left(y), corporate |-> Corporate(y)]]
           /\ ledger' = [ledger EXCEPT
                  !.pending = [l \in Lots |->
                      IF l \in Funding(y) THEN ledger.pending[l] - Amount[l] ELSE ledger.pending[l]],
                  !.corporate = ledger.corporate + Corporate(y),
                  !.restricted = ledger.restricted + AmountOf(Funding(y)) - Corporate(y)
                                 - Each(y) * Number(y),
                  !.payable = [a \in Payables |->
                      IF a \in Shared(y) THEN ledger.payable[a] + Each(y) ELSE ledger.payable[a]]]
           /\ UNCHANGED <<disputed, member, published>>
BY DEF Finalize, Qualified, Funding, Corporate, Divisible, Number, Each, Left, Shared

LEMMA Division ==
    ASSUME NEW d \in Nat, NEW n \in Nat, n > 0
    PROVE  d \div n \in Nat /\ d % n \in Nat /\ d % n < n /\ d = (d \div n) * n + (d % n)
<1>1. d \in Int /\ n \in Int /\ d >= 0
  OBVIOUS
<1>2. d % n \in Int /\ d % n >= 0 /\ d % n < n
  BY <1>1
<1>3. d \div n \in Int
  BY <1>1
<1>6. d = n * (d \div n) + (d % n)
  BY <1>1, Z3
<1>4. d \div n >= 0
  BY <1>1
<1> DEFINE q == d \div n
           r == d % n
<1>7. q \in Int /\ r \in Int /\ d = n * q + r
  BY <1>2, <1>3, <1>6
<1> HIDE DEF q, r
<1>5. d = q * n + r
  BY <1>1, <1>7
<1>8. d = (d \div n) * n + (d % n)
  BY <1>5 DEF q, r
<1> QED
  BY <1>2, <1>3, <1>4, <1>8

\* The year's money is the company's, the members' in equal parts, or left.
LEMMA Figures ==
    ASSUME Records, NEW y \in Years
    PROVE  /\ Qualified(y) \in SUBSET Members /\ Funding(y) \in SUBSET Lots
           /\ IsFiniteSet(Qualified(y))
           /\ Number(y) \in Nat /\ Corporate(y) \in Nat /\ Each(y) \in Nat /\ Left(y) \in Nat
           /\ AmountOf(Funding(y)) \in Nat /\ Corporate(y) <= AmountOf(Funding(y))
           /\ ledger.restricted + AmountOf(Funding(y)) - Corporate(y) - Each(y) * Number(y) = Left(y)
           /\ Number(y) = 0 => Each(y) = 0 /\ Qualified(y) = {}
           /\ Number(y) > 0 => Left(y) < Number(y)
           /\ Shared(y) \in SUBSET Payables
           /\ \A a \in Shared(y) : a[1] = y /\ a[2] \in Qualified(y) /\ a[2] \in Members
<1>1. Qualified(y) \in SUBSET Members /\ Funding(y) \in SUBSET Lots
  BY DEF Qualified, Funding
<1>2. IsFiniteSet(Qualified(y)) /\ Number(y) \in Nat /\ (Number(y) = 0 => Qualified(y) = {})
  BY <1>1, FS_Subset, FS_CardinalityType, FS_EmptySet, FinitenessAssumption DEF Number
<1>3. /\ Corporate(y) \in Nat /\ AmountOf(Funding(y)) \in Nat
      /\ Corporate(y) <= AmountOf(Funding(y))
  BY <1>1, ShareFacts, AmountFacts DEF Corporate
<1>4. ledger.restricted \in Nat
  BY DEF Records
<1>5. /\ Divisible(y) = ledger.restricted + (AmountOf(Funding(y)) - Corporate(y))
      /\ Divisible(y) \in Nat
  BY <1>3, <1>4 DEF Divisible, Available
<1>6. /\ Each(y) \in Nat /\ Left(y) \in Nat
      /\ Divisible(y) = Each(y) * Number(y) + Left(y)
      /\ Number(y) = 0 => Each(y) = 0
      /\ Number(y) > 0 => Left(y) < Number(y)
  <2>1. CASE Number(y) = 0
    BY <1>5, <2>1 DEF Each, Left
  <2>2. CASE Number(y) # 0
    <3> DEFINE d == Divisible(y)
               n == Number(y)
               q == d \div n
               r == d % n
    <3>1. d \in Nat /\ n \in Nat /\ n > 0
      BY <1>2, <1>5, <2>2
    <3>2. Each(y) = q /\ Left(y) = r
      BY <2>2 DEF Each, Left
    <3> HIDE DEF d, n
    <3>3. q \in Nat /\ r \in Nat /\ r < n /\ d = q * n + r
      BY <3>1, Division
    <3> HIDE DEF q, r
    <3>4. Number(y) = n /\ Divisible(y) = d
      BY DEF d, n
    <3> QED
      BY <3>1, <3>2, <3>3, <3>4
  <2> QED
    BY <2>1, <2>2
<1>7. ledger.restricted + AmountOf(Funding(y)) - Corporate(y) - Each(y) * Number(y) = Left(y)
  <2> DEFINE e == Each(y) * Number(y)
  <2>1. e \in Nat
    BY <1>2, <1>6
  <2>2. Divisible(y) = e + Left(y)
    BY <1>6
  <2> HIDE DEF e
  <2>3. ledger.restricted + AmountOf(Funding(y)) - Corporate(y) - e = Left(y)
    BY <1>3, <1>4, <1>5, <1>6, <2>1, <2>2
  <2> QED
    BY <2>3 DEF e
<1>8. /\ Shared(y) \in SUBSET Payables
      /\ \A a \in Shared(y) : a[1] = y /\ a[2] \in Qualified(y) /\ a[2] \in Members
  BY <1>1 DEF Shared, Payables
<1> QED
  BY <1>1, <1>2, <1>3, <1>6, <1>7, <1>8

\* Every share of the year is new.
LEMMA FinalizeShares ==
    ASSUME Sound, NEW y \in Years, NEW at, Finalize(y, at)
    PROVE  /\ payable' \in [Payables -> Payable \cup {None}]
           /\ SharesPlaced(payable') /\ AttemptsTrue(payable', proc, reversed)
           /\ Extends(payable, payable')
           /\ \A a \in Shared(y) : /\ payable[a] = None /\ payable'[a] # None
                                   /\ Outstanding(payable'[a]) = Each(y)
           /\ \A a \in Payables \ Shared(y) : payable'[a] = payable[a]
<1>1. Payments /\ Records /\ SharesClosed
  BY DEF Sound
<1>2. /\ payable \in [Payables -> Payable \cup {None}] /\ SharesPlaced(payable)
      /\ AttemptsTrue(payable, proc, reversed)
  BY <1>1, QueueFacts
<1>3. payable' = [a \in Payables |->
                     IF a \in Shared(y) THEN NewPayable(a[2], Each(y)) ELSE payable[a]]
  BY FinalizeParts
<1>4. /\ Shared(y) \in SUBSET Payables /\ Each(y) \in Nat
      /\ \A a \in Shared(y) : a[1] = y /\ a[2] \in Members
  BY <1>1, Figures
<1>5. ASSUME NEW a \in Shared(y)
      PROVE  /\ a \in Payables /\ payable[a] = None
             /\ payable'[a] \in Payable /\ payable'[a] # None /\ Placed(payable'[a])
             /\ payable'[a].attempts = << >> /\ Outstanding(payable'[a]) = Each(y)
  <2>1. a \in Payables /\ payable'[a] = NewPayable(a[2], Each(y))
    BY <1>3, <1>4
  <2>2. allocation[y] = None
    BY FinalizeParts DEF CanFinalize
  <2>3. payable[a] = None
    BY <1>1, <1>4, <2>1, <2>2 DEF SharesClosed
  <2>4. /\ NewPayable(a[2], Each(y)) \in Payable /\ NewPayable(a[2], Each(y)) # None
        /\ Placed(NewPayable(a[2], Each(y)))
        /\ NewPayable(a[2], Each(y)).attempts = << >>
        /\ Outstanding(NewPayable(a[2], Each(y))) = Each(y)
    BY <1>4, NewPlaced
  <2> QED
    BY <2>1, <2>3, <2>4
<1>6. \A a \in Payables \ Shared(y) : payable'[a] = payable[a]
  BY <1>3
<1>7. payable' \in [Payables -> Payable \cup {None}]
  <2>1. \A a \in Payables : payable'[a] \in Payable \cup {None}
    BY <1>2, <1>5, <1>6
  <2>2. payable' = [a \in Payables |-> payable'[a]]
    BY <1>3
  <2> QED
    BY <2>1, <2>2
<1>8. SharesPlaced(payable')
  BY <1>2, <1>5, <1>6 DEF SharesPlaced
<1>9. AttemptsTrue(payable', proc, reversed)
  <2> SUFFICES ASSUME NEW a \in Payables, payable'[a] # None, NEW n \in DOMAIN payable'[a].attempts
               PROVE  /\ payable'[a].attempts[n] \in Terminal =>
                            proc[PaymentItem(a, n)] = payable'[a].attempts[n]
                      /\ payable'[a].attempts[n] = "Reversed" =>
                            proc[PaymentItem(a, n)] = "Settled" /\ PaymentItem(a, n) \in reversed
    BY DEF AttemptsTrue
  <2>1. a \notin Shared(y)
    BY <1>5
  <2>2. payable'[a] = payable[a]
    BY <1>6, <2>1
  <2> QED
    BY <1>2, <2>2 DEF AttemptsTrue
<1>10. Extends(payable, payable')
  BY <1>5, <1>6 DEF Extends
<1> QED
  BY <1>5, <1>6, <1>7, <1>8, <1>9, <1>10

LEMMA FinalizeKeeps ==
    ASSUME Sound, NEW y \in Years, NEW at, FinalizeAnnualDistribution(y, at)
    PROVE  Payments'
<1>1. Finalize(y, at) /\ item' = Enqueued(PrepareItems) /\ UNCHANGED <<worker, proc, reversed, faults>>
  BY DEF FinalizeAnnualDistribution
<1>2. /\ payable' \in [Payables -> Payable \cup {None}]
      /\ SharesPlaced(payable') /\ AttemptsTrue(payable', proc, reversed)
      /\ Extends(payable, payable')
  BY <1>1, FinalizeShares
<1>3. \A i \in PrepareItems : HasShare(payable', i)
  BY PrepareItemsBegun
<1>4. Payments /\ item' \in {item, Enqueued(PrepareItems)}
  BY <1>1 DEF Sound
<1> QED
  BY <1>1, <1>2, <1>3, <1>4, SharesKeep

LEMMA ExecuteAllocateKeeps ==
    ASSUME Sound, NEW w \in Workers, NEW at, ExecuteAllocate(w, at)
    PROVE  Payments'
<1> DEFINE y == worker[w].item[2]
<1>1. /\ worker[w].step = "authorize" /\ worker[w].item[1] = "allocate"
      /\ UNCHANGED <<proc, reversed, faults>>
      /\ \/ Finalize(y, at) /\ item' = Enqueued(PrepareItems) /\ Conclude(w, "complete")
         \/ /\ UNCHANGED program
            /\ item' \in {item, Enqueued(PrepareItems)}
            /\ \E result : Conclude(w, result) /\ result \in {"complete", "ready"}
  BY DEF ExecuteAllocate
<1>2. Payments
  BY DEF Sound
<1>3. y \in Years
  BY <1>1, <1>2, WorkersSound, ItemParts DEF WorkerSound
<1> HIDE DEF y
<1>4. \A i \in PrepareItems : HasShare(payable', i)
  BY PrepareItemsBegun
<1>5. \E v \in Workers, result \in {"complete", "ready", "blocked"} :
          worker[v].step # "idle" /\ Conclude(v, result)
  BY <1>1
<1>6. item' \in {item, Enqueued(PrepareItems)}
  BY <1>1
<1>7. CASE Finalize(y, at)
  <2>1. /\ payable' \in [Payables -> Payable \cup {None}]
        /\ SharesPlaced(payable') /\ AttemptsTrue(payable', proc, reversed)
        /\ Extends(payable, payable')
    BY <1>3, <1>7, FinalizeShares
  <2> QED
    BY <1>1, <1>2, <1>4, <1>5, <1>6, <2>1, SharesKeep
<1>8. CASE UNCHANGED program
  <2>1. payable' = payable
    BY <1>8 DEF program
  <2>2. \A i \in PrepareItems : HasShare(payable, i)
    BY <1>4, <2>1
  <2> QED
    BY <1>1, <1>2, <1>5, <1>6, <2>1, <2>2, ConcludeKeeps
<1> QED
  BY <1>1, <1>7, <1>8

LEMMA CompensateKeeps ==
    ASSUME Payments, NEW c \in Corrections, NEW m \in Members, NEW y \in Years, NEW at,
           CompensateMember(c, m, y, at)
    PROVE  /\ Payments' /\ <<y, c>> \in Payables
           /\ payable[<<y, c>>] = None /\ payable'[<<y, c>>] # None
           /\ Outstanding(payable'[<<y, c>>]) = 1
           /\ \A b \in Payables \ {<<y, c>>} : payable'[b] = payable[b]
<1> DEFINE a == <<y, c>>
           d == NewPayable(m, 1)
<1>1. /\ payable[a] = None /\ payable' = [payable EXCEPT ![a] = d]
      /\ item' = Enqueued(PrepareItems) /\ UNCHANGED <<worker, proc, reversed, faults>>
  BY DEF CompensateMember
<1>2. a \in Payables
  BY DEF Payables
<1>3. d \in Payable /\ Placed(d) /\ d.attempts = << >> /\ Outstanding(d) = 1
  BY NewPlaced
<1> HIDE DEF a, d
<1>4. ShareTrue(a, d, proc, reversed)
  BY <1>3 DEF ShareTrue
<1>5. /\ payable' \in [Payables -> Payable \cup {None}]
      /\ SharesPlaced(payable') /\ AttemptsTrue(payable', proc, reversed)
      /\ Extends(payable, payable')
      /\ payable'[a] = d /\ payable'[a] # None
      /\ \A b \in Payables \ {a} : payable'[b] = payable[b]
  BY <1>1, <1>2, <1>3, <1>4, ShareKeeps
<1> DEFINE work == PrepareItems
<1>6. \A i \in work : HasShare(payable', i)
  BY PrepareItemsBegun
<1>7. item' \in {item, Enqueued(work)}
  BY <1>1
<1> HIDE DEF work
<1>8. Payments'
  <2>1. /\ payable' \in [Payables -> Payable \cup {None}]
        /\ SharesPlaced(payable') /\ AttemptsTrue(payable', proc, reversed)
        /\ Extends(payable, payable')
    BY <1>5
  <2>2. UNCHANGED worker /\ UNCHANGED <<proc, reversed, faults>>
    BY <1>1
  <2> QED
    BY <1>6, <1>7, <2>1, <2>2, SharesKeep
<1> QED
  BY <1>1, <1>2, <1>3, <1>5, <1>8 DEF a

LEMMA PublishKeeps ==
    ASSUME Payments, NEW y \in Years, NEW at, Publish(y, at)
    PROVE  Payments'
<1> DEFINE work == {AllocateItem(y)}
<1>1. /\ item' \in {item, Enqueued(work)} /\ payable' = payable
      /\ UNCHANGED <<worker, proc, reversed, faults>>
  BY DEF Publish
<1>2. \A i \in work : HasShare(payable, i)
  BY YearItems DEF HasShare
<1> HIDE DEF work
<1> QED
  BY <1>1, <1>2, ConcludeKeeps

-----------------------------------------------------------------------------
(***************************************************************************)
(* The books.                                                              *)
(***************************************************************************)

\* The ledger whose accounts these are.
Books(clearing, pending, restricted, corporate, loss, owed, processor) ==
    [clearing |-> clearing, pending |-> pending, restricted |-> restricted,
     corporate |-> corporate, loss |-> loss, payable |-> owed, processor |-> processor]

LEMMA LedgerParts ==
    ASSUME ledger \in Ledger
    PROVE  /\ ledger.clearing \in Int /\ ledger.pending \in [Lots -> Int]
           /\ ledger.restricted \in Int /\ ledger.corporate \in Int /\ ledger.loss \in Int
           /\ ledger.payable \in [Payables -> Int] /\ ledger.processor \in Int
           /\ ledger = Books(ledger.clearing, ledger.pending, ledger.restricted, ledger.corporate,
                             ledger.loss, ledger.payable, ledger.processor)
BY DEF Ledger, Books

LEMMA BooksParts ==
    ASSUME NEW clearing \in Int, NEW pending \in [Lots -> Int], NEW restricted \in Int,
           NEW corporate \in Int, NEW loss \in Int, NEW owed \in [Payables -> Int],
           NEW processor \in Int,
           ledger' = Books(clearing, pending, restricted, corporate, loss, owed, processor)
    PROVE  /\ ledger' \in Ledger
           /\ ledger'.clearing = clearing /\ ledger'.pending = pending
           /\ ledger'.restricted = restricted /\ ledger'.corporate = corporate
           /\ ledger'.loss = loss /\ ledger'.payable = owed /\ ledger'.processor = processor
BY DEF Ledger, Books

LEMMA ForfeitureBooks ==
    ASSUME ledger \in Ledger, NEW l \in Lots, NEW at, NEW review, RecordForfeiture(l, at, review)
    PROVE  /\ ledger' \in Ledger
           /\ ledger'.clearing = ledger.clearing - Amount[l]
           /\ ledger'.pending = [ledger.pending EXCEPT ![l] = ledger.pending[l] + Amount[l]]
           /\ UNCHANGED <<ledger.restricted, ledger.corporate, ledger.loss, ledger.payable,
                          ledger.processor>>
<1> DEFINE c == ledger.clearing - Amount[l]
           p == [ledger.pending EXCEPT ![l] = ledger.pending[l] + Amount[l]]
<1>1. /\ ledger.clearing \in Int /\ ledger.pending \in [Lots -> Int]
      /\ ledger.restricted \in Int /\ ledger.corporate \in Int /\ ledger.loss \in Int
      /\ ledger.payable \in [Payables -> Int] /\ ledger.processor \in Int
  BY LedgerParts
<1>2. c \in Int /\ p \in [Lots -> Int]
  BY <1>1, Terms
<1>3. ledger' = [ledger EXCEPT !.clearing = c, !.pending = p]
  BY DEF RecordForfeiture
<1> HIDE DEF c, p
<1>4. ledger' = Books(c, p, ledger.restricted, ledger.corporate, ledger.loss, ledger.payable,
                      ledger.processor)
  BY <1>3 DEF Books, Ledger
<1>5. /\ ledger' \in Ledger
      /\ ledger'.clearing = c /\ ledger'.pending = p
      /\ ledger'.restricted = ledger.restricted /\ ledger'.corporate = ledger.corporate
      /\ ledger'.loss = ledger.loss /\ ledger'.payable = ledger.payable
      /\ ledger'.processor = ledger.processor
  BY <1>1, <1>2, <1>4, BooksParts
<1> QED
  BY <1>5 DEF c, p

LEMMA FinalizeBooks ==
    ASSUME Records, NEW y \in Years, NEW at, Finalize(y, at)
    PROVE  /\ ledger' \in Ledger /\ ledger'.restricted = Left(y)
           /\ ledger'.restricted = ledger.restricted + AmountOf(Funding(y)) - Corporate(y)
                                   - Each(y) * Number(y)
           /\ ledger'.corporate = ledger.corporate + Corporate(y)
           /\ ledger'.pending = [l \in Lots |->
                 IF l \in Funding(y) THEN ledger.pending[l] - Amount[l] ELSE ledger.pending[l]]
           /\ ledger'.payable = [a \in Payables |->
                 IF a \in Shared(y) THEN ledger.payable[a] + Each(y) ELSE ledger.payable[a]]
           /\ UNCHANGED <<ledger.clearing, ledger.loss, ledger.processor>>
<1> DEFINE p == [l \in Lots |->
                    IF l \in Funding(y) THEN ledger.pending[l] - Amount[l] ELSE ledger.pending[l]]
           c == ledger.corporate + Corporate(y)
           r == ledger.restricted + AmountOf(Funding(y)) - Corporate(y) - Each(y) * Number(y)
           o == [a \in Payables |->
                    IF a \in Shared(y) THEN ledger.payable[a] + Each(y) ELSE ledger.payable[a]]
<1>1. ledger \in Ledger
  BY DEF Records
<1>2. /\ ledger.clearing \in Int /\ ledger.pending \in [Lots -> Int]
      /\ ledger.restricted \in Int /\ ledger.corporate \in Int /\ ledger.loss \in Int
      /\ ledger.payable \in [Payables -> Int] /\ ledger.processor \in Int
  BY <1>1, LedgerParts
<1>3. Corporate(y) \in Nat /\ Each(y) \in Nat /\ Left(y) \in Nat /\ r = Left(y)
  BY Figures
<1>4. p \in [Lots -> Int] /\ c \in Int /\ o \in [Payables -> Int]
  <2>1. p \in [Lots -> Int]
    BY <1>2, Terms
  <2>2. c \in Int
    BY <1>2, <1>3
  <2>3. o \in [Payables -> Int]
    BY <1>2, <1>3
  <2> QED
    BY <2>1, <2>2, <2>3
<1>5. ledger' = [ledger EXCEPT !.pending = p, !.corporate = c, !.restricted = r, !.payable = o]
  BY FinalizeParts
<1> HIDE DEF p, c, r, o
<1>6. ledger' = Books(ledger.clearing, p, r, c, ledger.loss, o, ledger.processor)
  BY <1>1, <1>5 DEF Books, Ledger
<1>7. /\ ledger' \in Ledger
      /\ ledger'.clearing = ledger.clearing /\ ledger'.pending = p
      /\ ledger'.restricted = r /\ ledger'.corporate = c
      /\ ledger'.loss = ledger.loss /\ ledger'.payable = o
      /\ ledger'.processor = ledger.processor
  <2>1. r \in Int
    BY <1>3
  <2> QED
    BY <1>2, <1>4, <1>6, <2>1, BooksParts
<1> QED
  BY <1>3, <1>7 DEF p, c, r, o

LEMMA CompensationBooks ==
    ASSUME ledger \in Ledger, NEW c, NEW m, NEW y, NEW at, <<y, c>> \in Payables,
           CompensateMember(c, m, y, at)
    PROVE  /\ ledger' \in Ledger
           /\ ledger'.loss = ledger.loss - 1
           /\ ledger'.payable = [ledger.payable EXCEPT ![<<y, c>>] = ledger.payable[<<y, c>>] + 1]
           /\ UNCHANGED <<ledger.clearing, ledger.pending, ledger.restricted, ledger.corporate,
                          ledger.processor>>
<1> DEFINE a == <<y, c>>
           s == ledger.loss - 1
           o == [ledger.payable EXCEPT ![a] = ledger.payable[a] + 1]
<1>1. /\ ledger.clearing \in Int /\ ledger.pending \in [Lots -> Int]
      /\ ledger.restricted \in Int /\ ledger.corporate \in Int /\ ledger.loss \in Int
      /\ ledger.payable \in [Payables -> Int] /\ ledger.processor \in Int
  BY LedgerParts
<1>2. ledger' = [ledger EXCEPT !.loss = s, !.payable = o]
  BY DEF CompensateMember
<1>3. s \in Int /\ o \in [Payables -> Int]
  <2> HIDE DEF a
  <2> QED
    BY <1>1 DEF a
<1> HIDE DEF s, o
<1>4. ledger' = Books(ledger.clearing, ledger.pending, ledger.restricted, ledger.corporate, s, o,
                      ledger.processor)
  BY <1>2 DEF Books, Ledger
<1>5. /\ ledger' \in Ledger
      /\ ledger'.clearing = ledger.clearing /\ ledger'.pending = ledger.pending
      /\ ledger'.restricted = ledger.restricted /\ ledger'.corporate = ledger.corporate
      /\ ledger'.loss = s /\ ledger'.payable = o
      /\ ledger'.processor = ledger.processor
  BY <1>1, <1>3, <1>4, BooksParts
<1> QED
  BY <1>5 DEF s, o, a

\* What a confirmed outcome takes from what is owed.
Taken(a, state, outcome) ==
    IF Economic(state, outcome)
    THEN IF outcome = "Settled" THEN payable[a].amount ELSE 0 - payable[a].amount
    ELSE 0

LEMMA PayoutBooks ==
    ASSUME ledger \in Ledger, NEW a \in Payables, NEW state, NEW outcome, payable[a] \in Payable,
           ledger' = PaidBooks(a, state, outcome)
    PROVE  /\ ledger' \in Ledger /\ Taken(a, state, outcome) \in Int
           /\ ledger'.payable =
                 [ledger.payable EXCEPT ![a] = ledger.payable[a] - Taken(a, state, outcome)]
           /\ ledger'.processor = ledger.processor + Taken(a, state, outcome)
           /\ UNCHANGED <<ledger.clearing, ledger.pending, ledger.restricted, ledger.corporate,
                          ledger.loss>>
<1> DEFINE t == Taken(a, state, outcome)
           paid == CASE Economic(state, outcome) /\ outcome = "Settled"  -> payable[a].amount
                     [] Economic(state, outcome) /\ outcome = "Reversed" -> -payable[a].amount
                     [] OTHER -> 0
           o == [ledger.payable EXCEPT ![a] = ledger.payable[a] - t]
           b == ledger.processor + t
<1>1. /\ ledger.clearing \in Int /\ ledger.pending \in [Lots -> Int]
      /\ ledger.restricted \in Int /\ ledger.corporate \in Int /\ ledger.loss \in Int
      /\ ledger.payable \in [Payables -> Int] /\ ledger.processor \in Int
  BY LedgerParts
<1>2. payable[a].amount \in Nat
  BY DEF Payable
<1>3. t \in Int
  BY <1>2 DEF Taken
<1>4. paid = t
  <2>1. Economic(state, outcome) => outcome \in {"Settled", "Reversed"}
    BY DEF Economic
  <2> QED
    BY <1>2, <2>1 DEF Taken
<1>5. ledger' = [ledger EXCEPT !.payable[a] = ledger.payable[a] - paid,
                               !.processor = ledger.processor + paid]
  BY DEF PaidBooks
<1> HIDE DEF t, paid
<1>6. ledger' = [ledger EXCEPT !.payable = o, !.processor = b]
  BY <1>4, <1>5
<1>7. o \in [Payables -> Int] /\ b \in Int
  BY <1>1, <1>3
<1> HIDE DEF o, b
<1>8. ledger' = Books(ledger.clearing, ledger.pending, ledger.restricted, ledger.corporate,
                      ledger.loss, o, b)
  BY <1>6 DEF Books, Ledger
<1>9. /\ ledger' \in Ledger
      /\ ledger'.clearing = ledger.clearing /\ ledger'.pending = ledger.pending
      /\ ledger'.restricted = ledger.restricted /\ ledger'.corporate = ledger.corporate
      /\ ledger'.loss = ledger.loss /\ ledger'.payable = o
      /\ ledger'.processor = b
  BY <1>1, <1>7, <1>8 DEF Books, Ledger
<1> QED
  BY <1>3, <1>9 DEF t, o, b

-----------------------------------------------------------------------------
(***************************************************************************)
(* Lots, members and the clock.                                            *)
(***************************************************************************)

LEMMA Clock ==
    ASSUME Records, NEW at \in Reading, now' = now,
           Atomic(at) \/ AtomicLater(at) \/ UNCHANGED last
    PROVE  /\ now' \in 0..MaxTime /\ last' \in 0..MaxTime /\ last' <= now'
           /\ last \in Nat /\ last' \in Nat /\ last <= last' /\ at \in 0..MaxTime /\ at \in Nat
           /\ Atomic(at) => at >= last /\ last' = at
<1>1. now \in 0..MaxTime /\ last \in 0..MaxTime /\ last <= now /\ MaxTime \in Nat
  BY BoundsAssumption DEF Records
<1>2. at \in 0..now
  BY DEF Reading
<1>3. \/ at >= last /\ last' = at
      \/ last' = (IF at > last THEN at ELSE last)
      \/ last' = last
  BY DEF Atomic, AtomicLater, Later
<1> QED
  BY <1>1, <1>2, <1>3 DEF Atomic

\* The lot l becomes d.
LotBecomes(l, d) ==
    /\ lot' \in [Lots -> Lot]
    /\ lot'[l] = d
    /\ \A k \in Lots \ {l} : lot'[k] = lot[k]

LEMMA LotChanges ==
    ASSUME lot \in [Lots -> Lot], NEW l \in Lots, NEW d \in Lot, lot' = [lot EXCEPT ![l] = d]
    PROVE  LotBecomes(l, d)
BY DEF LotBecomes

LEMMA LotForfeited ==
    ASSUME lot \in [Lots -> Lot], NEW l \in Lots, NEW at \in Nat, NEW review \in BOOLEAN,
           RecordForfeiture(l, at, review)
    PROVE  \E d \in Lot : /\ LotBecomes(l, d) /\ d.state = "pending" /\ d.held = review /\ d.at = at
                          /\ d.year = lot[l].year
<1> DEFINE d == [lot[l] EXCEPT !.state = "pending", !.held = review, !.at = at]
<1>1. lot[l] \in Lot
  OBVIOUS
<1>2. d \in Lot /\ d.state = "pending" /\ d.held = review /\ d.at = at /\ d.year = lot[l].year
  BY <1>1 DEF Lot
<1>3. lot' = [lot EXCEPT ![l] = d]
  BY DEF RecordForfeiture
<1> HIDE DEF d
<1>4. LotBecomes(l, d)
  BY <1>2, <1>3, LotChanges
<1> QED
  BY <1>2, <1>4

LEMMA LotHeld ==
    ASSUME lot \in [Lots -> Lot], NEW l \in Lots, NEW held \in BOOLEAN, lot' = SetHold(l, held)
    PROVE  \E d \in Lot : /\ LotBecomes(l, d) /\ d.state = "pending" /\ d.held = held
                          /\ d.year = lot[l].year
<1> DEFINE d == [lot[l] EXCEPT !.state = "pending", !.held = held, !.cleared = 0]
<1>1. lot[l] \in Lot
  OBVIOUS
<1>2. d \in Lot /\ d.state = "pending" /\ d.held = held /\ d.year = lot[l].year
  BY <1>1 DEF Lot
<1>3. lot' = [lot EXCEPT ![l] = d]
  BY DEF SetHold
<1> HIDE DEF d
<1>4. LotBecomes(l, d)
  BY <1>2, <1>3, LotChanges
<1> QED
  BY <1>2, <1>4

LEMMA LotCleared ==
    ASSUME lot \in [Lots -> Lot], NEW l \in Lots, NEW at \in Nat, ClearMaturity(l, at)
    PROVE  \E d \in Lot : /\ LotBecomes(l, d) /\ d.state = "cleared" /\ d.cleared = at
                          /\ d.at = lot[l].at /\ d.held = lot[l].held /\ d.year = lot[l].year
<1> DEFINE d == [lot[l] EXCEPT !.state = "cleared", !.cleared = at]
<1>1. lot[l] \in Lot
  OBVIOUS
<1>2. /\ d \in Lot /\ d.state = "cleared" /\ d.cleared = at
      /\ d.at = lot[l].at /\ d.held = lot[l].held /\ d.year = lot[l].year
  BY <1>1 DEF Lot
<1>3. lot' = [lot EXCEPT ![l] = d]
  BY DEF ClearMaturity
<1> HIDE DEF d
<1>4. LotBecomes(l, d)
  BY <1>2, <1>3, LotChanges
<1> QED
  BY <1>2, <1>4

\* assess_funding: the lots of a year are assessed, the others stay.
LEMMA LotsAssessed ==
    ASSUME lot \in [Lots -> Lot], NEW y \in Years, NEW at, Finalize(y, at)
    PROVE  /\ lot' \in [Lots -> Lot]
           /\ \A l \in Funding(y) : /\ l \in Lots /\ lot[l].state = "cleared"
                                    /\ lot'[l].state = "assessed" /\ lot'[l].year = y
                                    /\ lot'[l].at = lot[l].at /\ lot'[l].cleared = lot[l].cleared
           /\ \A l \in Lots \ Funding(y) : lot'[l] = lot[l]
<1>1. lot' = [l \in Lots |-> IF l \in Funding(y)
                             THEN [lot[l] EXCEPT !.state = "assessed", !.year = y] ELSE lot[l]]
  BY FinalizeParts
<1>2. \A l \in Lots : lot[l] \in Lot
  OBVIOUS
<1>3. \A d \in Lot : LET e == [d EXCEPT !.state = "assessed", !.year = y]
                     IN  /\ e \in Lot /\ e.state = "assessed" /\ e.year = y
                         /\ e.at = d.at /\ e.cleared = d.cleared
  BY DEF Lot
<1>4. \A l \in Funding(y) : l \in Lots /\ lot[l].state = "cleared"
  BY DEF Funding, Eligible
<1> QED
  BY <1>1, <1>2, <1>3, <1>4

\* The member m becomes d.
MemberBecomes(m, d) ==
    /\ member' \in [Members -> Member \cup {None}]
    /\ d # None /\ member'[m] = d
    /\ \A k \in Members \ {m} : member'[k] = member[k]

LEMMA MemberChanges ==
    ASSUME member \in [Members -> Member \cup {None}], NEW m \in Members, NEW d \in Member,
           member' = [member EXCEPT ![m] = d]
    PROVE  MemberBecomes(m, d)
BY AbsentAssumption DEF MemberBecomes

\* The changes D are the changes C and one more, on the day at.
Changed(C, D, at) ==
    /\ DOMAIN D = 1..(Len(C) + 1) /\ D # << >>
    /\ D[Len(C) + 1][1] = at
    /\ \A k \in 1..Len(C) : D[k] = C[k]

LEMMA MemberEnrolled ==
    ASSUME member \in [Members -> Member \cup {None}], NEW m \in Members, NEW good \in BOOLEAN,
           NEW at \in Nat, Enroll(m, good, at)
    PROVE  \E d \in Member : MemberBecomes(m, d) /\ d.joined = at /\ Changed(<< >>, d.changes, at)
<1> DEFINE d == [joined |-> at, changes |-> <<<<at, good>>>>, days |-> {}]
<1>1. <<<<at, good>>>> \in Seq(Nat \X BOOLEAN)
  OBVIOUS
<1>2. d \in Member /\ d.joined = at /\ d.changes = <<<<at, good>>>> /\ d.days = {}
  BY <1>1 DEF Member
<1>3. member' = [member EXCEPT ![m] = d]
  BY DEF Enroll
<1> HIDE DEF d
<1>4. MemberBecomes(m, d)
  BY <1>2, <1>3, MemberChanges
<1>5. Changed(<< >>, d.changes, at)
  <2> DEFINE D == <<<<at, good>>>>
  <2>1. DOMAIN D = 1..1 /\ D # << >> /\ D[1] = <<at, good>> /\ Len(<< >>) = 0
    OBVIOUS
  <2>2. D[1][1] = at
    BY <2>1
  <2> HIDE DEF D
  <2>3. Changed(<< >>, D, at)
    BY <2>1, <2>2 DEF Changed
  <2> QED
    BY <1>2, <2>3 DEF D
<1> QED
  BY <1>2, <1>4, <1>5

LEMMA Appended ==
    ASSUME NEW S, NEW C \in Seq(S), NEW e \in S
    PROVE  LET c == Append(C, e)
           IN  /\ DOMAIN c = 1..(Len(C) + 1) /\ c # << >> /\ c[Len(C) + 1] = e
               /\ \A k \in 1..Len(C) : c[k] = C[k]
<1> DEFINE c == Append(C, e)
<1>1. Len(C) \in Nat
  OBVIOUS
<1>2. Len(c) = Len(C) + 1 /\ DOMAIN c = 1..Len(c)
  OBVIOUS
<1>3. c[Len(C) + 1] = e
  OBVIOUS
<1>4. \A k \in 1..Len(C) : c[k] = C[k]
  OBVIOUS
<1>5. c # << >>
  <2>1. Len(<< >>) = 0
    OBVIOUS
  <2> QED
    BY <1>1, <1>2, <2>1
<1> QED
  BY <1>2, <1>3, <1>4, <1>5

LEMMA MembershipSet ==
    ASSUME member \in [Members -> Member \cup {None}], NEW m \in Members, NEW good \in BOOLEAN,
           NEW at \in Nat, SetMembership(m, good, at)
    PROVE  /\ member[m] \in Member
           /\ \E d \in Member : /\ MemberBecomes(m, d) /\ d.joined = member[m].joined
                                /\ Changed(member[m].changes, d.changes, at)
                                /\ d.days = member[m].days
<1> DEFINE c == Append(member[m].changes, <<at, good>>)
           d == [member[m] EXCEPT !.changes = c]
<1>1. member[m] \in Member
  BY DEF SetMembership
<1>2. member' = [member EXCEPT ![m] = d]
  BY <1>1 DEF SetMembership
<1>3. c \in Seq(Nat \X BOOLEAN)
  <2>1. member[m].changes \in Seq(Nat \X BOOLEAN) /\ <<at, good>> \in Nat \X BOOLEAN
    BY <1>1 DEF Member
  <2> QED
    BY <2>1
<1> HIDE DEF c
<1>4. d \in Member /\ d.joined = member[m].joined /\ d.changes = c /\ d.days = member[m].days
  BY <1>1, <1>3 DEF Member
<1> HIDE DEF d
<1>5. MemberBecomes(m, d)
  BY <1>2, <1>4, MemberChanges
<1>6. Changed(member[m].changes, c, at)
  <2> DEFINE C == member[m].changes
             e == <<at, good>>
  <2>1. C \in Seq(Nat \X BOOLEAN) /\ e \in Nat \X BOOLEAN /\ e[1] = at
    BY <1>1 DEF Member
  <2>2. c = Append(C, e)
    BY DEF c
  <2> HIDE DEF C, e
  <2>3. /\ DOMAIN c = 1..(Len(C) + 1) /\ c # << >> /\ c[Len(C) + 1] = e
        /\ \A k \in 1..Len(C) : c[k] = C[k]
    BY <2>1, <2>2, Appended
  <2>4. Changed(C, c, at)
    BY <2>1, <2>3 DEF Changed
  <2> QED
    BY <2>4 DEF C
<1> QED
  BY <1>1, <1>4, <1>5, <1>6

LEMMA ActivityRecorded ==
    ASSUME member \in [Members -> Member \cup {None}], NEW m \in Members,
           NEW at \in 0..MaxTime, RecordActivity(m, at)
    PROVE  /\ member[m] \in Member
           /\ \E d \in Member : /\ MemberBecomes(m, d) /\ d.joined = member[m].joined
                                /\ d.changes = member[m].changes
                                /\ d.days = member[m].days \cup {at}
<1> DEFINE c == member[m].days \cup {at}
           d == [member[m] EXCEPT !.days = c]
<1>1. member[m] \in Member
  BY DEF RecordActivity
<1>2. member' = [member EXCEPT ![m] = d]
  BY <1>1 DEF RecordActivity
<1>3. c \in SUBSET (0..MaxTime)
  BY <1>1 DEF Member
<1> HIDE DEF c
<1>4. d \in Member /\ d.joined = member[m].joined /\ d.changes = member[m].changes /\ d.days = c
  BY <1>1, <1>3 DEF Member
<1> HIDE DEF d
<1>5. MemberBecomes(m, d)
  BY <1>2, <1>4, MemberChanges
<1> QED
  BY <1>1, <1>4, <1>5 DEF c

\* A year that is closed stays closed, as it was.
LEMMA YearCloses ==
    ASSUME Records, NEW y \in Years, NEW at, Finalize(y, at)
    PROVE  /\ allocation' \in [Years -> Allocation \cup {None}]
           /\ allocation[y] = None /\ allocation'[y] # None
           /\ allocation'[y] = [members |-> Qualified(y), funding |-> Funding(y), each |-> Each(y),
                                remainder |-> Left(y), corporate |-> Corporate(y)]
           /\ \A z \in Years \ {y} : allocation'[z] = allocation[z]
<1> DEFINE d == [members |-> Qualified(y), funding |-> Funding(y), each |-> Each(y),
                 remainder |-> Left(y), corporate |-> Corporate(y)]
<1>1. /\ Qualified(y) \in SUBSET Members /\ Funding(y) \in SUBSET Lots
      /\ Each(y) \in Nat /\ Left(y) \in Nat /\ Corporate(y) \in Nat
  BY Figures
<1>2. d \in Allocation
  BY <1>1 DEF Allocation
<1>3. allocation' = [allocation EXCEPT ![y] = d] /\ allocation[y] = None
  BY FinalizeParts DEF CanFinalize
<1>4. allocation \in [Years -> Allocation \cup {None}]
  BY DEF Records
<1>5. d # None
  BY <1>2, AbsentAssumption
<1> HIDE DEF d
<1>6. /\ allocation' \in [Years -> Allocation \cup {None}]
      /\ allocation'[y] = d /\ \A z \in Years \ {y} : allocation'[z] = allocation[z]
  BY <1>2, <1>3, <1>4
<1> QED
  BY <1>3, <1>5, <1>6 DEF d

-----------------------------------------------------------------------------
(***************************************************************************)
(* What every record keeps.                                                *)
(***************************************************************************)

LEMMA RecordsAre ==
    ASSUME Records
    PROVE  /\ now \in 0..MaxTime /\ last \in 0..MaxTime /\ last <= now
           /\ lot \in [Lots -> Lot] /\ disputed \in SUBSET Lots
           /\ member \in [Members -> Member \cup {None}] /\ published \in SUBSET Years
           /\ allocation \in [Years -> Allocation \cup {None}]
           /\ ledger \in Ledger /\ ledger.restricted \in Nat
           /\ bank \in [Members -> [token : Tokens, version : Nat]]
BY DEF Records

LEMMA LotCommandKeeps ==
    ASSUME Records, NEW at \in Reading, NEW l \in Lots,
           \/ NoteReversal(l, at) \/ ClearMaturity(l, at)
           \/ \E b \in BOOLEAN : RecordForfeiture(l, at, b) \/ Hold(l, b, at)
    PROVE  /\ Records'
           /\ UNCHANGED <<now, member, published, allocation, payable, bank, queue>>
<1>1. /\ lot \in [Lots -> Lot] /\ disputed \in SUBSET Lots /\ ledger \in Ledger
      /\ ledger.restricted \in Nat
  BY RecordsAre
<1>2. \A b \in BOOLEAN : RecordForfeiture(l, at, b) \/ Hold(l, b, at) =>
         UNCHANGED <<now, member, published, allocation, payable, bank, queue>>
  BY DEF RecordForfeiture, Hold
<1>3. NoteReversal(l, at) \/ ClearMaturity(l, at) =>
         UNCHANGED <<now, member, published, allocation, payable, bank, queue>>
  BY DEF NoteReversal, ClearMaturity
<1>4. UNCHANGED <<now, member, published, allocation, payable, bank, queue>>
  BY <1>2, <1>3
<1>5. Atomic(at) \/ AtomicLater(at)
  BY DEF NoteReversal, ClearMaturity, RecordForfeiture, Hold
<1>6. now' \in 0..MaxTime /\ last' \in 0..MaxTime /\ last' <= now' /\ at \in Nat
  BY <1>4, <1>5, Clock
<1>7. lot' \in [Lots -> Lot] /\ disputed' \subseteq Lots /\ ledger' \in Ledger /\ ledger'.restricted \in Nat
  <2>1. CASE NoteReversal(l, at)
    <3>1. lot' = lot \/ lot' = SetHold(l, TRUE)
      BY <2>1 DEF NoteReversal, HeldByReversal
    <3>2. lot' \in [Lots -> Lot]
      BY <1>1, <3>1, LotHeld DEF LotBecomes
    <3>3. disputed' \subseteq Lots /\ ledger' = ledger
      BY <1>1, <2>1 DEF NoteReversal
    <3> QED
      BY <1>1, <3>2, <3>3
  <2>2. CASE ClearMaturity(l, at)
    <3>1. lot' \in [Lots -> Lot]
      BY <1>1, <1>6, <2>2, LotCleared DEF LotBecomes
    <3> QED
      BY <1>1, <2>2, <3>1 DEF ClearMaturity
  <2>3. ASSUME NEW b \in BOOLEAN, RecordForfeiture(l, at, b)
        PROVE  lot' \in [Lots -> Lot] /\ disputed' \subseteq Lots /\ ledger' \in Ledger /\ ledger'.restricted \in Nat
    <3>1. lot' \in [Lots -> Lot]
      BY <1>1, <1>6, <2>3, LotForfeited DEF LotBecomes
    <3>2. ledger' \in Ledger /\ ledger'.restricted = ledger.restricted
      BY <1>1, <2>3, ForfeitureBooks
    <3>3. disputed' = disputed
      BY <2>3 DEF RecordForfeiture
    <3> QED
      BY <1>1, <3>1, <3>2, <3>3
  <2>4. ASSUME NEW b \in BOOLEAN, Hold(l, b, at)
        PROVE  lot' \in [Lots -> Lot] /\ disputed' \subseteq Lots /\ ledger' \in Ledger /\ ledger'.restricted \in Nat
    <3>1. lot' = SetHold(l, b) /\ ledger' = ledger /\ disputed' \subseteq disputed
      BY <2>4 DEF Hold
    <3>2. lot' \in [Lots -> Lot]
      BY <1>1, <3>1, LotHeld DEF LotBecomes
    <3> QED
      BY <1>1, <3>1, <3>2
  <2> QED
    BY <2>1, <2>2, <2>3, <2>4
<1>8. Records'
  BY <1>4, <1>6, <1>7 DEF Records
<1> QED
  BY <1>4, <1>8

LEMMA MemberCommandKeeps ==
    ASSUME Records, NEW at \in Reading, NEW m \in Members,
           \/ RecordActivity(m, at)
           \/ \E b \in BOOLEAN : Enroll(m, b, at) \/ SetMembership(m, b, at)
    PROVE  /\ Records'
           /\ UNCHANGED <<now, lot, disputed, published, allocation, payable, ledger, bank, queue>>
<1>1. member \in [Members -> Member \cup {None}]
  BY RecordsAre
<1>2. Atomic(at) /\ UNCHANGED <<now, lot, disputed, published, allocation, payable, ledger, bank, queue>>
  BY DEF RecordActivity, Enroll, SetMembership
<1>3. now' \in 0..MaxTime /\ last' \in 0..MaxTime /\ last' <= now' /\ at \in Nat /\ at \in 0..MaxTime
  BY <1>2, Clock
<1>4. member' \in [Members -> Member \cup {None}]
  <2>1. CASE RecordActivity(m, at)
    BY <1>1, <1>3, <2>1, ActivityRecorded DEF MemberBecomes
  <2>2. ASSUME NEW b \in BOOLEAN, Enroll(m, b, at) PROVE member' \in [Members -> Member \cup {None}]
    BY <1>1, <1>3, <2>2, MemberEnrolled DEF MemberBecomes
  <2>3. ASSUME NEW b \in BOOLEAN, SetMembership(m, b, at)
        PROVE  member' \in [Members -> Member \cup {None}]
    BY <1>1, <1>3, <2>3, MembershipSet DEF MemberBecomes
  <2> QED
    BY <2>1, <2>2, <2>3
<1>5. Records'
  BY <1>2, <1>3, <1>4, RecordsAre DEF Records
<1> QED
  BY <1>2, <1>5

LEMMA FinalizeRecords ==
    ASSUME Sound, NEW at \in Reading, NEW y \in Years, Finalize(y, at), UNCHANGED <<now, bank>>
    PROVE  Records' /\ SharesClosed'
<1>1. Records /\ SharesClosed
  BY DEF Sound
<1>2. Atomic(at) /\ UNCHANGED <<disputed, member, published>>
  BY FinalizeParts
<1>3. now' \in 0..MaxTime /\ last' \in 0..MaxTime /\ last' <= now'
  BY <1>1, <1>2, Clock
<1>4. lot' \in [Lots -> Lot]
  BY <1>1, RecordsAre, LotsAssessed
<1>5. /\ allocation' \in [Years -> Allocation \cup {None}]
      /\ allocation'[y] # None /\ \A z \in Years \ {y} : allocation'[z] = allocation[z]
  BY <1>1, YearCloses
<1>6. ledger' \in Ledger /\ ledger'.restricted \in Nat
  BY <1>1, FinalizeBooks, Figures
<1>7. Records'
  BY <1>1, <1>2, <1>3, <1>4, <1>5, <1>6 DEF Records
<1>8. SharesClosed'
  <2> SUFFICES ASSUME NEW a \in Payables, payable'[a] # None PROVE allocation'[a[1]] # None
    BY DEF SharesClosed
  <2>1. a \in Shared(y) => a[1] = y
    BY <1>1, Figures
  <2>2. a \notin Shared(y) => payable'[a] = payable[a]
    BY FinalizeShares
  <2>3. a[1] \in Years
    BY DEF Payables
  <2> QED
    BY <1>1, <1>5, <2>1, <2>2, <2>3 DEF SharesClosed
<1> QED
  BY <1>7, <1>8

LEMMA PublishRecords ==
    ASSUME Records, NEW at \in Reading, NEW y \in Years, Publish(y, at)
    PROVE  Records'
<1>1. Atomic(at) /\ published' = published \cup {y}
  BY DEF Publish
<1>2. UNCHANGED <<now, lot, disputed, member, allocation, payable, ledger, bank>>
  BY DEF Publish
<1>3. now' \in 0..MaxTime /\ last' \in 0..MaxTime /\ last' <= now'
  BY <1>1, <1>2, Clock
<1> QED
  BY <1>1, <1>2, <1>3, RecordsAre DEF Records

LEMMA CompensateRecords ==
    ASSUME Sound, NEW at \in Reading, NEW c \in Corrections, NEW m \in Members, NEW y \in Years,
           CompensateMember(c, m, y, at)
    PROVE  Records' /\ SharesClosed'
<1>1. Records /\ SharesClosed /\ Payments
  BY DEF Sound
<1>2. Atomic(at) /\ UNCHANGED <<now, lot, disputed, member, published, allocation, bank>>
  BY DEF CompensateMember
<1>3. now' \in 0..MaxTime /\ last' \in 0..MaxTime /\ last' <= now'
  BY <1>1, <1>2, Clock
<1>4. /\ <<y, c>> \in Payables /\ \A b \in Payables \ {<<y, c>>} : payable'[b] = payable[b]
  BY <1>1, CompensateKeeps
<1>5. ledger' \in Ledger /\ ledger'.restricted = ledger.restricted
  BY <1>1, <1>4, RecordsAre, CompensationBooks
<1>6. Records'
  BY <1>1, <1>2, <1>3, <1>5, RecordsAre DEF Records
<1>7. allocation[y] # None
  BY DEF CompensateMember
<1>8. SharesClosed'
  <2> SUFFICES ASSUME NEW a \in Payables, payable'[a] # None PROVE allocation'[a[1]] # None
    BY DEF SharesClosed
  <2>1. CASE a = <<y, c>>
    BY <1>2, <1>7, <2>1
  <2>2. CASE a # <<y, c>>
    BY <1>1, <1>2, <1>4, <2>2 DEF SharesClosed
  <2> QED
    BY <2>1, <2>2
<1> QED
  BY <1>6, <1>8

LEMMA PrepareRecords ==
    ASSUME Sound, NEW at \in Reading, NEW a \in Payables, payable[a] # None, Prepare(a, at),
           UNCHANGED <<now, bank>>
    PROVE  Records' /\ SharesClosed'
<1>1. Records /\ SharesClosed /\ Payments
  BY DEF Sound
<1>2. Atomic(at) /\ UNCHANGED <<lot, disputed, member, published, allocation, ledger>>
  BY DEF Prepare
<1>3. now' \in 0..MaxTime /\ last' \in 0..MaxTime /\ last' <= now'
  BY <1>1, <1>2, Clock
<1>4. Records'
  BY <1>1, <1>2, <1>3, RecordsAre DEF Records
<1>5. \A b \in Payables \ {a} : payable'[b] = payable[b]
  BY <1>1, RecordsAre, PrepareParts
<1>6. SharesClosed'
  BY <1>1, <1>2, <1>5 DEF SharesClosed
<1> QED
  BY <1>4, <1>6

\* confirm_payout: the books record what the share does.
LEMMA ConfirmRecords ==
    ASSUME Sound, NEW at \in Reading, NEW o \in Operations, Begun(payable, o), NEW outcome \in Outcome,
           ConfirmPayout(PayableOf(o), o[4], outcome, at), UNCHANGED <<now, bank>>
    PROVE  /\ Records' /\ SharesClosed'
           /\ UNCHANGED <<lot, disputed, member, published, allocation>>
<1> DEFINE a == PayableOf(o)
           n == o[4]
<1>1. Records /\ SharesClosed /\ Payments
  BY DEF Sound
<1>2. CASE UNCHANGED program
  BY <1>1, <1>2 DEF program, Records, SharesClosed
<1>3. CASE ~UNCHANGED program
  <2>1. /\ Atomic(at) /\ UNCHANGED <<lot, disputed, member, published, allocation>>
        /\ ledger' = PaidBooks(a, payable[a].attempts[n], outcome)
        /\ payable' = [payable EXCEPT ![a] = Evidenced(payable[a], n, outcome)]
    BY <1>3 DEF ConfirmPayout
  <2>2. a \in Payables /\ payable[a] # None /\ payable \in [Payables -> Payable \cup {None}]
    BY <1>1, OperationParts, QueueFacts DEF Begun
  <2>3. now' \in 0..MaxTime /\ last' \in 0..MaxTime /\ last' <= now'
    BY <1>1, <2>1, Clock
  <2> HIDE DEF a, n
  <2>4. payable[a] \in Payable
    BY <2>2
  <2>5. ledger' \in Ledger /\ ledger'.restricted = ledger.restricted
    BY <1>1, <2>1, <2>2, <2>4, RecordsAre, PayoutBooks
  <2>6. Records'
    BY <1>1, <2>1, <2>3, <2>5, RecordsAre DEF Records
  <2>7. \A b \in Payables : payable'[b] # None => payable[b] # None
    BY <2>1, <2>2
  <2>8. SharesClosed'
    BY <1>1, <2>1, <2>7 DEF SharesClosed
  <2> QED
    BY <2>1, <2>6, <2>8
<1> QED
  BY <1>2, <1>3

-----------------------------------------------------------------------------
(***************************************************************************)
(* Every step.                                                             *)
(***************************************************************************)

LotCommand(l, at) ==
    \/ NoteReversal(l, at) \/ ClearMaturity(l, at)
    \/ \E b \in BOOLEAN : RecordForfeiture(l, at, b) \/ Hold(l, b, at)

MemberCommand(m, at) ==
    \/ RecordActivity(m, at)
    \/ \E b \in BOOLEAN : Enroll(m, b, at) \/ SetMembership(m, b, at)

PreparedStep(a, at) == payable[a] # None /\ Prepare(a, at) /\ UNCHANGED <<now, bank>>

ConfirmedStep(o, outcome, at) ==
    /\ Begun(payable, o) /\ Evidence(o, outcome)
    /\ ConfirmPayout(PayableOf(o), o[4], outcome, at) /\ UNCHANGED <<now, bank>>

\* The program stays as it is.
Quiet ==
    /\ UNCHANGED program
    /\ now' \in 0..MaxTime /\ now <= now'
    /\ bank' \in [Members -> [token : Tokens, version : Nat]]

ProgramStep(at) ==
    \/ \E l \in Lots : LotCommand(l, at)
    \/ \E m \in Members : MemberCommand(m, at)
    \/ \E y \in Years : Publish(y, at) \/ (Finalize(y, at) /\ UNCHANGED <<now, bank>>)
    \/ \E y \in Years, c \in Corrections, m \in Members : CompensateMember(c, m, y, at)
    \/ \E a \in Payables : PreparedStep(a, at)
    \/ \E o \in Operations, outcome \in Outcome : ConfirmedStep(o, outcome, at)

\* What a step does to the program, whoever takes it.
LEMMA StepKinds ==
    ASSUME Sound, [Next]_vars
    PROVE  Quiet \/ \E at \in Reading : ProgramStep(at)
<1>1. Payments /\ Records
  BY DEF Sound
<1>2. now \in 0..MaxTime /\ MaxTime \in Nat /\ bank \in [Members -> [token : Tokens, version : Nat]]
  BY <1>1, RecordsAre, BoundsAssumption
<1>3. UNCHANGED others => Quiet
  BY <1>2 DEF others, Quiet
<1>4. ASSUME NEW at \in Reading, Command(at) PROVE ProgramStep(at)
  <2>1. ASSUME NEW l \in Lots, LotCommand(l, at) PROVE ProgramStep(at)
    BY <2>1 DEF ProgramStep
  <2>2. ASSUME NEW m \in Members, MemberCommand(m, at) PROVE ProgramStep(at)
    BY <2>2 DEF ProgramStep
  <2>3. ASSUME NEW y \in Years, FinalizeAnnualDistribution(y, at) PROVE ProgramStep(at)
    BY <2>3 DEF FinalizeAnnualDistribution, ProgramStep
  <2>4. ASSUME NEW y \in Years, Publish(y, at) PROVE ProgramStep(at)
    BY <2>4 DEF ProgramStep
  <2>5. ASSUME NEW y \in Years, NEW c \in Corrections, NEW m \in Members, CompensateMember(c, m, y, at)
        PROVE  ProgramStep(at)
    BY <2>5 DEF ProgramStep
  <2>6. ASSUME NEW a \in Payables, PrepareAgain(a, at) PROVE ProgramStep(at)
    BY <2>6 DEF PrepareAgain, PreparedStep, ProgramStep
  <2>7. ASSUME NEW o \in Operations, NotifyReversal(o, at) PROVE ProgramStep(at)
    <3>1. o \in reversed /\ ConfirmPayout(PayableOf(o), o[4], "Reversed", at) /\ UNCHANGED <<now, bank>>
      BY <2>7 DEF NotifyReversal
    <3>2. proc[o] = "Settled"
      BY <1>1, <3>1, QueueFacts DEF ReversedSettled
    <3>3. Begun(payable, o) /\ Evidence(o, "Reversed") /\ "Reversed" \in Outcome
      BY <1>1, <3>1, <3>2, ChargeBegun DEF Evidence, Outcome, Terminal
    <3>4. ConfirmedStep(o, "Reversed", at)
      BY <3>1, <3>3 DEF ConfirmedStep
    <3> QED
      BY <3>3, <3>4 DEF ProgramStep
  <2> QED
    BY <1>4, <2>1, <2>2, <2>3, <2>4, <2>5, <2>6, <2>7 DEF Command, LotCommand, MemberCommand
<1>5. ASSUME NEW w \in Workers, NEW at \in Reading, ExecuteAllocate(w, at) PROVE Quiet \/ ProgramStep(at)
  <2> DEFINE y == worker[w].item[2]
  <2>1. /\ worker[w].step = "authorize" /\ worker[w].item[1] = "allocate" /\ UNCHANGED <<now, bank>>
        /\ Finalize(y, at) \/ UNCHANGED program
    BY <1>5 DEF ExecuteAllocate
  <2>2. y \in Years
    BY <1>1, <2>1, WorkersSound, ItemParts DEF WorkerSound
  <2> HIDE DEF y
  <2>3. UNCHANGED program => Quiet
    BY <1>2, <2>1 DEF Quiet
  <2> QED
    BY <2>1, <2>2, <2>3 DEF ProgramStep
<1>6. ASSUME NEW w \in Workers, NEW at \in Reading, ExecutePrepare(w, at) PROVE Quiet \/ ProgramStep(at)
  <2> DEFINE a == PayableOf(worker[w].item)
  <2>1. /\ worker[w].step = "authorize" /\ worker[w].item[1] = "prepare" /\ UNCHANGED <<now, bank>>
        /\ Prepare(a, at) \/ UNCHANGED program
    BY <1>6 DEF ExecutePrepare
  <2>2. a \in Payables /\ payable[a] # None
    BY <1>1, <2>1, WorkersSound, ItemParts DEF WorkerSound, HasShare
  <2> HIDE DEF a
  <2>3. UNCHANGED program => Quiet
    BY <1>2, <2>1 DEF Quiet
  <2>4. Prepare(a, at) => PreparedStep(a, at)
    BY <2>1, <2>2 DEF PreparedStep
  <2> QED
    BY <2>1, <2>2, <2>3, <2>4 DEF ProgramStep
<1>7. ASSUME NEW w \in Workers, NEW at \in Reading, ConfirmPayment(w, at) PROVE ProgramStep(at)
  <2> DEFINE o == worker[w].item
             outcome == worker[w].receipt
  <2>1. /\ worker[w].step = "confirm" /\ ConfirmPayout(PayableOf(o), o[4], outcome, at)
        /\ UNCHANGED <<now, bank>>
    BY <1>7 DEF ConfirmPayment
  <2>2. o \in Operations /\ HasShare(payable, o) /\ EvidenceTrue(proc, o, outcome)
    BY <1>1, <2>1, WorkersSound DEF WorkerSound
  <2>3. Begun(payable, o) /\ Evidence(o, outcome) /\ outcome \in Outcome
    BY <2>2 DEF HasShare, EvidenceTrue, Evidence, Outcome, Terminal
  <2> HIDE DEF o, outcome
  <2>4. ConfirmedStep(o, outcome, at)
    BY <2>1, <2>3 DEF ConfirmedStep
  <2> QED
    BY <2>2, <2>3, <2>4 DEF ProgramStep
<1>8. ASSUME NEW w \in Workers, AuthorizePayment(w) PROVE Quiet
  BY <1>3, <1>8 DEF AuthorizePayment
<1>9. ASSUME NEW w \in Workers, NEW i \in Items, ClaimWork(w, i) PROVE Quiet
  BY <1>3, <1>9 DEF ClaimWork
<1>10. ASSUME NEW m \in Members, NEW t \in Tokens, RebindBank(m, t) PROVE Quiet
  <2> DEFINE b == [token |-> t, version |-> bank[m].version + 1]
  <2>1. bank' = [bank EXCEPT ![m] = b] /\ UNCHANGED <<now, program>>
    BY <1>10 DEF RebindBank
  <2>2. b \in [token : Tokens, version : Nat]
    BY <1>2
  <2> HIDE DEF b
  <2> QED
    BY <1>2, <2>1, <2>2 DEF Quiet
<1>11. CASE Tick
  BY <1>2, <1>11 DEF Tick, Quiet
<1>12. CASE UNCHANGED vars
  BY <1>3, <1>12 DEF vars, others
<1>13. Quiet \/ \E at \in Reading : ProgramStep(at)
  <2>1. ASSUME NEW w \in Workers, WorkerStep(w) PROVE Quiet \/ \E at \in Reading : ProgramStep(at)
    BY <1>3, <1>5, <1>6, <1>7, <1>8, <2>1 DEF WorkerStep
  <2>2. CASE Next
    BY <1>3, <1>4, <1>9, <1>10, <1>11, <2>1, <2>2 DEF Next
  <2> QED
    BY <1>12, <2>2
<1> QED
  BY <1>13

LEMMA PaymentsStep == ASSUME Sound, [Next]_vars PROVE Payments'
<1>1. Payments /\ bank \in [Members -> [token : Tokens, version : Nat]]
  BY RecordsAre DEF Sound
<1>2. ASSUME payable' = payable, UNCHANGED queue PROVE Payments'
  <2>1. item' = item /\ worker' = worker /\ proc' = proc /\ reversed' = reversed /\ faults' = faults
    BY <1>2 DEF queue
  <2> QED
    BY <1>1, <1>2, <2>1 DEF Payments, QueueTypeOK
<1>3. ASSUME NEW at \in Reading, Command(at) PROVE Payments'
  <2>1. ASSUME NEW l \in Lots, LotCommand(l, at) PROVE payable' = payable /\ UNCHANGED queue
    BY <2>1 DEF LotCommand, NoteReversal, ClearMaturity, RecordForfeiture, Hold
  <2>2. ASSUME NEW m \in Members, MemberCommand(m, at) PROVE payable' = payable /\ UNCHANGED queue
    BY <2>2 DEF MemberCommand, RecordActivity, Enroll, SetMembership
  <2>3. ASSUME NEW y \in Years, Publish(y, at) PROVE Payments'
    BY <1>1, <2>3, PublishKeeps
  <2>4. ASSUME NEW y \in Years, FinalizeAnnualDistribution(y, at) PROVE Payments'
    BY <2>4, FinalizeKeeps
  <2>5. ASSUME NEW y \in Years, NEW c \in Corrections, NEW m \in Members, CompensateMember(c, m, y, at)
        PROVE  Payments'
    BY <1>1, <2>5, CompensateKeeps
  <2>6. ASSUME NEW a \in Payables, PrepareAgain(a, at) PROVE Payments'
    BY <1>1, <2>6, PrepareAgainKeeps
  <2>7. ASSUME NEW o \in Operations, NotifyReversal(o, at) PROVE Payments'
    BY <1>1, <2>7, NotifyReversalKeeps
  <2>8. ASSUME NEW l \in Lots, LotCommand(l, at) PROVE Payments'
    BY <1>2, <2>1, <2>8
  <2>9. ASSUME NEW m \in Members, MemberCommand(m, at) PROVE Payments'
    BY <1>2, <2>2, <2>9
  <2> QED
    BY <1>3, <2>3, <2>4, <2>5, <2>6, <2>7, <2>8, <2>9 DEF Command, LotCommand, MemberCommand
<1>4. ASSUME NEW w \in Workers, WorkerStep(w) PROVE Payments'
  <2>1. ASSUME NEW at \in Reading, ExecuteAllocate(w, at) \/ ExecutePrepare(w, at) \/ ConfirmPayment(w, at)
        PROVE  Payments'
    BY <1>1, <2>1, ExecuteAllocateKeeps, ExecutePrepareKeeps, ConfirmPaymentKeeps
  <2>2. AuthorizePayment(w) => Payments'
    BY <1>1, AuthorizeKeeps
  <2>3. ASSUME TransportStep(w), UNCHANGED others PROVE Payments'
    <3>1. payable' = payable
      BY <2>3 DEF others, program
    <3> QED
      BY <1>1, <2>3, <3>1, LookupKeeps, FinishKeeps, SubmitKeeps DEF TransportStep
  <2> QED
    BY <1>4, <2>1, <2>2, <2>3 DEF WorkerStep
<1>5. ASSUME NEW w \in Workers, NEW i \in Items, ClaimWork(w, i) PROVE Payments'
  BY <1>1, <1>5, ClaimKeeps DEF ClaimWork, others, program
<1>6. ASSUME Disturbance, UNCHANGED others PROVE Payments'
  BY <1>1, <1>6, DisturbanceKeeps DEF others, program
<1>7. ASSUME NEW o \in Operations, NEW outcome \in Terminal, Resolve(o, outcome), UNCHANGED others
      PROVE  Payments'
  BY <1>1, <1>7, ResolveKeeps DEF others, program
<1>8. ASSUME NEW m \in Members, NEW t \in Tokens, RebindBank(m, t) PROVE Payments'
  BY <1>2, <1>8 DEF RebindBank, program
<1>9. Tick => Payments'
  BY <1>2 DEF Tick, program
<1>10. UNCHANGED vars => Payments'
  BY <1>2 DEF vars, program
<1>11. CASE Next
  BY <1>3, <1>4, <1>5, <1>6, <1>7, <1>8, <1>9, <1>11 DEF Next
<1> QED
  BY <1>10, <1>11

LEMMA SoundStep == ASSUME Sound, [Next]_vars PROVE Sound'
<1>1. Records /\ SharesClosed /\ Payments
  BY DEF Sound
<1>2. ASSUME Quiet PROVE Records' /\ SharesClosed'
  <2>1. /\ last' = last /\ lot' = lot /\ disputed' = disputed /\ member' = member
        /\ published' = published /\ allocation' = allocation /\ payable' = payable /\ ledger' = ledger
    BY <1>2 DEF Quiet, program
  <2>2. last \in 0..MaxTime /\ last <= now /\ now \in 0..MaxTime /\ MaxTime \in Nat
    BY <1>1, RecordsAre, BoundsAssumption
  <2>3. last <= now' /\ now' \in 0..MaxTime
    BY <1>2, <2>2 DEF Quiet
  <2>4. Records'
    BY <1>1, <1>2, <2>1, <2>3, RecordsAre DEF Quiet, Records
  <2> QED
    BY <1>1, <2>1, <2>4 DEF SharesClosed
<1>3. ASSUME NEW at \in Reading, NEW l \in Lots, LotCommand(l, at) PROVE Records' /\ SharesClosed'
  <2>1. Records' /\ UNCHANGED <<now, member, published, allocation, payable, bank, queue>>
    BY <1>1, <1>3, LotCommandKeeps DEF LotCommand
  <2> QED
    BY <1>1, <2>1 DEF SharesClosed
<1>4. ASSUME NEW at \in Reading, NEW m \in Members, MemberCommand(m, at) PROVE Records' /\ SharesClosed'
  <2>1. /\ Records'
        /\ UNCHANGED <<now, lot, disputed, published, allocation, payable, ledger, bank, queue>>
    BY <1>1, <1>4, MemberCommandKeeps DEF MemberCommand
  <2> QED
    BY <1>1, <2>1 DEF SharesClosed
<1>5. ASSUME NEW at \in Reading, NEW y \in Years, Publish(y, at) PROVE Records' /\ SharesClosed'
  <2>1. Records' /\ UNCHANGED <<payable, allocation>>
    BY <1>1, <1>5, PublishRecords DEF Publish
  <2> QED
    BY <1>1, <2>1 DEF SharesClosed
<1>6. ASSUME NEW at \in Reading, NEW y \in Years, Finalize(y, at), UNCHANGED <<now, bank>>
      PROVE  Records' /\ SharesClosed'
  BY <1>6, FinalizeRecords
<1>7. ASSUME NEW at \in Reading, NEW y \in Years, NEW c \in Corrections, NEW m \in Members,
             CompensateMember(c, m, y, at)
      PROVE  Records' /\ SharesClosed'
  BY <1>7, CompensateRecords
<1>8. ASSUME NEW at \in Reading, NEW a \in Payables, PreparedStep(a, at) PROVE Records' /\ SharesClosed'
  BY <1>8, PrepareRecords DEF PreparedStep
<1>9. ASSUME NEW at \in Reading, NEW o \in Operations, NEW outcome \in Outcome,
             ConfirmedStep(o, outcome, at)
      PROVE  Records' /\ SharesClosed'
  BY <1>9, ConfirmRecords DEF ConfirmedStep
<1>10. Records' /\ SharesClosed'
  BY <1>2, <1>3, <1>4, <1>5, <1>6, <1>7, <1>8, <1>9, StepKinds DEF ProgramStep
<1> QED
  BY <1>10, PaymentsStep DEF Sound

LEMMA SoundInit == ASSUME Init PROVE Sound
<1>1. /\ now = 0 /\ last = 0 /\ disputed = {} /\ published = {}
      /\ lot = [l \in Lots |-> [state |-> "none", held |-> FALSE, at |-> 0, cleared |-> 0, year |-> None]]
      /\ member = [m \in Members |-> None] /\ allocation = [y \in Years |-> None]
      /\ payable = [a \in Payables |-> None]
      /\ ledger = Books(0, [l \in Lots |-> 0], 0, 0, 0, [a \in Payables |-> 0], 0)
      /\ bank = [m \in Members |-> [token |-> FirstToken, version |-> 0]]
  BY DEF Init, Books
<1>2. /\ item = [i \in Items |-> [status |-> "none", holder |-> None]]
      /\ worker = [w \in Workers |-> IdleWorker]
      /\ proc = [o \in Operations |-> "unknown"] /\ reversed = {} /\ faults = 0
  BY DEF Init, QueueInit
<1>3. /\ 0 \in 0..MaxTime /\ 0 \in 0..MaxFaults /\ FirstToken \in Tokens
  BY BoundsAssumption, WorkersAssumption
<1>4. lot \in [Lots -> Lot]
  BY <1>1 DEF Lot
<1>5. ledger \in Ledger /\ ledger.restricted = 0
  BY <1>1 DEF Books, Ledger
<1>6. Records
  <2>1. /\ member \in [Members -> Member \cup {None}]
        /\ allocation \in [Years -> Allocation \cup {None}]
    BY <1>1
  <2>2. bank \in [Members -> [token : Tokens, version : Nat]]
    BY <1>1, <1>3
  <2>3. now \in 0..MaxTime /\ last \in 0..MaxTime /\ last <= now
    BY <1>1, <1>3
  <2>4. disputed \subseteq Lots /\ published \subseteq Years /\ ledger.restricted \in Nat
    BY <1>1, <1>5
  <2> QED
    BY <1>4, <1>5, <2>1, <2>2, <2>3, <2>4 DEF Records
<1>7. QueueTypeOK
  BY <1>2, <1>3 DEF QueueTypeOK, WorkItem, Worker, IdleWorker
<1>8. \A a \in Payables : payable[a] = None
  BY <1>1
<1>9. SharesPlaced(payable) /\ AttemptsTrue(payable, proc, reversed) /\ SharesClosed
  BY <1>8 DEF SharesPlaced, AttemptsTrue, SharesClosed
<1>10. ReversedSettled(proc, reversed) /\ WorkBegun(payable, item, proc)
  BY <1>2 DEF ReversedSettled, WorkBegun
<1>11. \A w \in Workers : WorkerSound(payable, worker[w], proc)
  BY <1>2 DEF WorkerSound, IdleWorker
<1>12. payable \in [Payables -> Payable \cup {None}]
  BY <1>1
<1>13. Payments
  BY <1>7, <1>9, <1>10, <1>11, <1>12 DEF Payments
<1> QED
  BY <1>6, <1>9, <1>13 DEF Sound

LEMMA AlwaysSound == Spec => []Sound
<1>1. Init => Sound
  BY SoundInit
<1>2. Sound /\ [Next]_vars => Sound'
  BY SoundStep
<1> QED
  BY <1>1, <1>2, PTL DEF Spec

\* Every record of the program, the queue and the processor keeps its shape,
\* whatever commands, crashes and lost answers come in which order.
THEOREM ProgramTypeCorrect == Spec => []TypeOK
<1>1. Sound => TypeOK
  BY DEF Sound, Records, Payments, TypeOK
<1> QED
  BY <1>1, AlwaysSound, PTL

\* Of the attempts at a share only the last may still be paid, and what was paid
\* is what the processor paid.
LEMMA OnePayment ==
    ASSUME Sound, NEW a \in Payables
    PROVE  LET live == {n \in 1..MaxAttempts : proc[PaymentItem(a, n)] \in {"Settled", "Pending"}}
           IN  /\ Cardinality(live) <= 1
               /\ payable[a] # None => \A n \in DOMAIN payable[a].attempts :
                     payable[a].attempts[n] \in {"Settled", "Reversed"} =>
                         proc[PaymentItem(a, n)] = "Settled"
<1> DEFINE live == {n \in 1..MaxAttempts : proc[PaymentItem(a, n)] \in {"Settled", "Pending"}}
           L == Len(payable[a].attempts)
<1>1. Payments /\ AttemptsTrue(payable, proc, reversed)
  BY QueueFacts DEF Sound
<1>2. ASSUME NEW n \in live PROVE n = L
  <2>1. /\ PaymentItem(a, n) \in Operations /\ proc[PaymentItem(a, n)] \in {"Settled", "Pending"}
        /\ PayableOf(PaymentItem(a, n)) = a /\ PaymentItem(a, n)[4] = n
    BY <1>2, PaymentItems
  <2>2. payable[a] # None /\ n \in DOMAIN payable[a].attempts
    BY <1>1, <2>1, ChargeBegun DEF Begun
  <2>3. /\ payable[a].attempts \in Seq(PaymentState) /\ Placed(payable[a])
        /\ n \in 1..L
    BY <1>1, <2>2, AttemptsAre
  <2>4. L \in Nat
    BY <2>3
  <2>5. CASE n # L
    <3>1. n \in 1..(L - 1)
      BY <2>3, <2>4, <2>5
    <3>2. payable[a].attempts[n] \in {"Failed", "Voided"}
      BY <2>3, <3>1 DEF Placed, ExecutionLoads
    <3>3. proc[PaymentItem(a, n)] = payable[a].attempts[n]
      BY <1>1, <2>2, <3>2 DEF AttemptsTrue, Terminal
    <3> QED
      BY <2>1, <3>2, <3>3
  <2> QED
    BY <2>5
<1>3. ASSUME payable[a] # None, NEW n \in DOMAIN payable[a].attempts,
             payable[a].attempts[n] \in {"Settled", "Reversed"}
      PROVE  proc[PaymentItem(a, n)] = "Settled"
  BY <1>1, <1>3 DEF AttemptsTrue, Terminal
<1> HIDE DEF live, L
<1>4. live = {} \/ live = {L}
  BY <1>2
<1>5. Cardinality({}) = 0 /\ Cardinality({L}) = 1
  BY FS_EmptySet, FS_Singleton
<1>6. Cardinality(live) <= 1
  BY <1>4, <1>5
<1> QED
  BY <1>3, <1>6 DEF live

\* A share is paid at most once, and counts as paid only if the processor paid
\* it, for any number of workers, crashes, lost answers, retries and changes of
\* the member's bank account (MemberPayable::prepare, confirm_payout and the
\* worker's payment batch).
THEOREM SharesPaidOnce == Spec => []PaidOnce
<1>1. Sound => PaidOnce
  BY OnePayment DEF PaidOnce
<1> QED
  BY <1>1, AlwaysSound, PTL

-----------------------------------------------------------------------------
(***************************************************************************)
(* The calendar: what was decided by a cutoff is decided.                  *)
(***************************************************************************)

LEMMA CalendarAre ==
    ASSUME Calendar
    PROVE  /\ \A l \in Lots : /\ LotLoads(l)
                              /\ (lot[l].state = "assessed") = (lot[l].year # None)
                              /\ lot[l].year # None => allocation[lot[l].year] # None
           /\ MembersDated
           /\ \A y \in Years : allocation[y] # None =>
                 /\ y \in published /\ Cutoff[y] <= last
                 /\ \A z \in published : Cutoff[z] <= Start[y] => allocation[z] # None
           /\ \A l \in disputed : lot[l].state = "pending" /\ lot[l].held
           /\ \A y \in Years : allocation[y] # None =>
                 /\ allocation[y].members = Qualified(y)
                 /\ allocation[y].funding = {l \in Lots : lot[l].state = "assessed" /\ lot[l].year = y}
                 /\ \A l \in Lots : ~Eligible(l, y)
BY DEF Calendar, LotsDated, YearsClosed, SnapshotIsFinal, Qualified

LEMMA Dates ==
    ASSUME NEW y \in Years
    PROVE  Start[y] \in Nat /\ Cutoff[y] \in Nat /\ Start[y] < Cutoff[y]
BY CalendarAssumption

\* Nothing that an assessment is about changes.
LEMMA SnapshotStays ==
    ASSUME SnapshotIsFinal, UNCHANGED <<lot, disputed, member, allocation>>
    PROVE  SnapshotIsFinal'
<1>1. \A m \in Members, y \in Years : Qualifies(m, y)' = Qualifies(m, y)
  BY DEF Qualifies
<1>2. \A l \in Lots, y \in Years : Eligible(l, y)' = Eligible(l, y)
  BY DEF Eligible
<1>3. \A y \in Years : {m \in Members : Qualifies(m, y)}' = {m \in Members : Qualifies(m, y)}
  BY <1>1
<1>4. \A y \in Years : {l \in Lots : lot'[l].state = "assessed" /\ lot'[l].year = y} =
                           {l \in Lots : lot[l].state = "assessed" /\ lot[l].year = y}
  OBVIOUS
<1>5. \A l \in disputed' : lot'[l].state = "pending" /\ lot'[l].held
  BY DEF SnapshotIsFinal
<1>6. ASSUME NEW y \in Years, allocation'[y] # None
      PROVE  /\ allocation'[y].members = {m \in Members : Qualifies(m, y)}'
             /\ allocation'[y].funding = {l \in Lots : lot'[l].state = "assessed" /\ lot'[l].year = y}
             /\ \A l \in Lots : ~Eligible(l, y)'
  <2>1. /\ allocation[y].members = {m \in Members : Qualifies(m, y)}
        /\ allocation[y].funding = {l \in Lots : lot[l].state = "assessed" /\ lot[l].year = y}
        /\ \A l \in Lots : ~Eligible(l, y)
    BY <1>6 DEF SnapshotIsFinal
  <2> QED
    BY <1>2, <1>3, <1>4, <2>1
<1> QED
  BY <1>5, <1>6 DEF SnapshotIsFinal

\* Time passes, and nothing else that the calendar is about.
LEMMA CalendarStays ==
    ASSUME Sound, Sound', Calendar, last <= last',
           UNCHANGED <<lot, disputed, member, published, allocation>>
    PROVE  Calendar'
<1>1. last \in Nat /\ last' \in Nat
  BY BoundsAssumption DEF Sound, Records
<1>2. LotsDated'
  BY DEF Calendar, LotsDated, LotLoads
<1>3. MembersDated'
  <2> SUFFICES ASSUME NEW m \in Members
               PROVE  /\ MemberLoads(m)
                      /\ member[m] # None => \A k \in DOMAIN member[m].changes :
                            member[m].changes[k][1] <= last'
    BY DEF MembersDated, MemberLoads
  <2>1. /\ MemberLoads(m)
        /\ member[m] # None => \A k \in DOMAIN member[m].changes : member[m].changes[k][1] <= last
    BY DEF Calendar, MembersDated
  <2>2. member[m] # None => /\ member[m].changes \in Seq(Nat \X BOOLEAN)
                            /\ \A k \in DOMAIN member[m].changes : member[m].changes[k][1] \in Nat
    <3>1. member[m] \in Member \cup {None}
      BY DEF Sound, Records
    <3> QED
      BY <3>1 DEF Member
  <2> QED
    BY <1>1, <2>1, <2>2
<1>4. YearsClosed'
  <2> SUFFICES ASSUME NEW y \in Years, allocation[y] # None
               PROVE  /\ y \in published /\ Cutoff[y] <= last'
                      /\ \A z \in published : Cutoff[z] <= Start[y] => allocation[z] # None
    BY DEF YearsClosed
  <2>1. /\ y \in published /\ Cutoff[y] <= last
        /\ \A z \in published : Cutoff[z] <= Start[y] => allocation[z] # None
    BY DEF Calendar, YearsClosed
  <2> QED
    BY <1>1, <2>1, Dates
<1>5. SnapshotIsFinal'
  BY SnapshotStays DEF Calendar
<1> QED
  BY <1>2, <1>3, <1>4, <1>5 DEF Calendar

\* A lot that is not assessed changes, on a day after the closed years.
LEMMA LotStepCalendar ==
    ASSUME Sound, Sound', Calendar, last <= last', UNCHANGED <<member, published, allocation>>,
           NEW l \in Lots, NEW d \in Lot, LotBecomes(l, d), lot[l].state # "assessed",
           d.state \in {"pending", "cleared"}, d.year = lot[l].year,
           d.state = "cleared" => d.cleared >= last /\ d.cleared >= d.at + MaturityDelay,
           \A k \in disputed' \ {l} : k \in disputed,
           l \in disputed' => d.state = "pending" /\ d.held
    PROVE  Calendar'
<1>1. last \in Nat /\ last' \in Nat
  BY BoundsAssumption DEF Sound, Records
<1>2. lot'[l] = d /\ \A k \in Lots \ {l} : lot'[k] = lot[k]
  BY DEF LotBecomes
<1>3. /\ \A k \in Lots : /\ LotLoads(k)
                         /\ (lot[k].state = "assessed") = (lot[k].year # None)
                         /\ lot[k].year # None => allocation[lot[k].year] # None
      /\ \A y \in Years : allocation[y] # None =>
            /\ y \in published /\ Cutoff[y] <= last
            /\ \A z \in published : Cutoff[z] <= Start[y] => allocation[z] # None
      /\ \A k \in disputed : lot[k].state = "pending" /\ lot[k].held
      /\ \A y \in Years : allocation[y] # None =>
            /\ allocation[y].members = Qualified(y)
            /\ allocation[y].funding = {k \in Lots : lot[k].state = "assessed" /\ lot[k].year = y}
            /\ \A k \in Lots : ~Eligible(k, y)
  BY CalendarAre
<1>4. d.year = None /\ d.state # "assessed"
  BY <1>3
<1>5. LotsDated'
  <2> SUFFICES ASSUME NEW k \in Lots
               PROVE  /\ lot'[k].state \in {"cleared", "assessed"} =>
                            lot'[k].cleared >= lot'[k].at + MaturityDelay
                      /\ (lot'[k].state = "assessed") = (lot'[k].year # None)
                      /\ lot'[k].year # None => allocation[lot'[k].year] # None
    BY DEF LotsDated, LotLoads
  <2>1. CASE k = l
    BY <1>2, <1>4, <2>1
  <2>2. CASE k # l
    BY <1>2, <1>3, <2>2 DEF LotLoads
  <2> QED
    BY <2>1, <2>2
<1>6. MembersDated' /\ YearsClosed'
  <2>1. MembersDated'
    <3> SUFFICES ASSUME NEW m \in Members
                 PROVE  /\ MemberLoads(m)
                        /\ member[m] # None => \A k \in DOMAIN member[m].changes :
                              member[m].changes[k][1] <= last'
      BY DEF MembersDated, MemberLoads
    <3>1. /\ MemberLoads(m)
          /\ member[m] # None => \A k \in DOMAIN member[m].changes : member[m].changes[k][1] <= last
      BY DEF Calendar, MembersDated
    <3>2. member[m] # None => \A k \in DOMAIN member[m].changes : member[m].changes[k][1] \in Nat
      <4>1. member[m] \in Member \cup {None}
        BY DEF Sound, Records
      <4> QED
        BY <4>1 DEF Member
    <3> QED
      BY <1>1, <3>1, <3>2
  <2>2. YearsClosed'
    BY <1>1, <1>3, Dates DEF YearsClosed
  <2> QED
    BY <2>1, <2>2
<1>7. \A k \in disputed' : lot'[k].state = "pending" /\ lot'[k].held
  <2> SUFFICES ASSUME NEW k \in disputed' PROVE lot'[k].state = "pending" /\ lot'[k].held
    OBVIOUS
  <2>1. k \in Lots
    BY DEF Sound, Records
  <2> QED
    BY <1>2, <1>3, <2>1
<1>8. ASSUME NEW y \in Years, allocation[y] # None
      PROVE  /\ allocation[y].members = Qualified(y)'
             /\ allocation[y].funding = {k \in Lots : lot'[k].state = "assessed" /\ lot'[k].year = y}
             /\ \A k \in Lots : ~(lot'[k].state = "cleared" /\ lot'[k].cleared < Cutoff[y])
  <2>1. Qualified(y)' = Qualified(y)
    BY DEF Qualified, Qualifies
  <2>2. \A k \in Lots : (lot'[k].state = "assessed" /\ lot'[k].year = y) <=>
                            (lot[k].state = "assessed" /\ lot[k].year = y)
    BY <1>2, <1>4
  <2>3. Cutoff[y] <= last /\ Cutoff[y] \in Nat
    BY <1>3, <1>8, Dates
  <2>4. \A k \in Lots : ~(lot'[k].state = "cleared" /\ lot'[k].cleared < Cutoff[y])
    <3> SUFFICES ASSUME NEW k \in Lots, lot'[k].state = "cleared", lot'[k].cleared < Cutoff[y]
                 PROVE  FALSE
      OBVIOUS
    <3>1. CASE k = l
      <4>1. d.cleared \in Nat
        BY DEF Lot
      <4> QED
        BY <1>1, <1>2, <2>3, <3>1, <4>1
    <3>2. CASE k # l
      BY <1>2, <1>3, <1>8, <3>2 DEF Eligible
    <3> QED
      BY <3>1, <3>2
  <2>5. {k \in Lots : lot'[k].state = "assessed" /\ lot'[k].year = y} =
            {k \in Lots : lot[k].state = "assessed" /\ lot[k].year = y}
    BY <2>2
  <2> QED
    BY <1>3, <1>8, <2>1, <2>4, <2>5
<1>9. SnapshotIsFinal'
  BY <1>7, <1>8 DEF SnapshotIsFinal, Eligible, Qualified
<1> QED
  BY <1>5, <1>6, <1>9 DEF Calendar

LEMMA LotCommandCalendar ==
    ASSUME Sound, Sound', Calendar, NEW at \in Reading, NEW l \in Lots, LotCommand(l, at)
    PROVE  Calendar'
<1>1. Records /\ lot \in [Lots -> Lot] /\ disputed \in SUBSET Lots
  BY RecordsAre DEF Sound
<1>2. UNCHANGED <<now, member, published, allocation, payable, bank, queue>>
  BY <1>1, LotCommandKeeps DEF LotCommand
<1>3. Atomic(at) \/ AtomicLater(at)
  BY DEF LotCommand, NoteReversal, ClearMaturity, RecordForfeiture, Hold
<1>4. last <= last' /\ at \in Nat /\ (Atomic(at) => at >= last)
  BY <1>1, <1>2, <1>3, Clock
<1>5. \A k \in disputed : lot[k].state = "pending" /\ lot[k].held
  BY CalendarAre
<1>6. ASSUME NEW b \in BOOLEAN, RecordForfeiture(l, at, b) PROVE Calendar'
  <2>1. PICK d \in Lot : /\ LotBecomes(l, d) /\ d.state = "pending" /\ d.held = b /\ d.at = at
                         /\ d.year = lot[l].year
    BY <1>1, <1>4, <1>6, LotForfeited
  <2>2. lot[l].state = "none" /\ disputed' = disputed
    BY <1>6 DEF RecordForfeiture
  <2>3. l \notin disputed'
    BY <1>5, <2>2
  <2> QED
    BY <1>2, <1>4, <2>1, <2>2, <2>3, LotStepCalendar
<1>7. ASSUME NEW b \in BOOLEAN, Hold(l, b, at) PROVE Calendar'
  <2>1. /\ lot[l].state \in {"pending", "cleared"} /\ lot' = SetHold(l, b)
        /\ disputed' = IF b THEN disputed ELSE disputed \ {l}
    BY <1>7 DEF Hold
  <2>2. PICK d \in Lot : LotBecomes(l, d) /\ d.state = "pending" /\ d.held = b /\ d.year = lot[l].year
    BY <1>1, <2>1, LotHeld
  <2>3. \A k \in disputed' \ {l} : k \in disputed
    BY <2>1
  <2>4. l \in disputed' => d.held
    BY <2>1, <2>2
  <2>5. lot[l].state # "assessed"
    BY <2>1
  <2> QED
    BY <1>2, <1>4, <2>2, <2>3, <2>4, <2>5, LotStepCalendar
<1>8. CASE ClearMaturity(l, at)
  <2>1. /\ lot[l].state = "cleared" \/ (lot[l].state = "pending" /\ ~lot[l].held)
        /\ at >= lot[l].at + MaturityDelay /\ Atomic(at) /\ disputed' = disputed
    BY <1>8 DEF ClearMaturity
  <2>2. PICK d \in Lot : /\ LotBecomes(l, d) /\ d.state = "cleared" /\ d.cleared = at
                         /\ d.at = lot[l].at /\ d.held = lot[l].held /\ d.year = lot[l].year
    BY <1>1, <1>4, <1>8, LotCleared
  <2>3. l \notin disputed'
    BY <1>5, <2>1
  <2>4. d.cleared >= last /\ d.cleared >= d.at + MaturityDelay
    BY <1>4, <2>1, <2>2
  <2>5. lot[l].state # "assessed"
    BY <2>1
  <2> QED
    BY <1>2, <1>4, <2>1, <2>2, <2>3, <2>4, <2>5, LotStepCalendar
<1>9. CASE NoteReversal(l, at)
  <2>1. CASE lot[l].state = "assessed"
    <3>1. lot' = lot /\ disputed' = disputed
      BY <1>9, <2>1 DEF NoteReversal, HeldByReversal
    <3> QED
      BY <1>2, <1>4, <3>1, CalendarStays
  <2>2. CASE lot[l].state # "assessed"
    <3>1. lot' = SetHold(l, TRUE) /\ disputed' = disputed \cup {l}
      BY <1>9, <2>2 DEF NoteReversal, HeldByReversal
    <3>2. PICK d \in Lot : /\ LotBecomes(l, d) /\ d.state = "pending" /\ d.held = TRUE
                           /\ d.year = lot[l].year
      BY <1>1, <3>1, LotHeld
    <3>3. \A k \in disputed' \ {l} : k \in disputed
      BY <3>1
    <3> QED
      BY <1>2, <1>4, <2>2, <3>2, <3>3, LotStepCalendar
  <2> QED
    BY <2>1, <2>2
<1> QED
  BY <1>6, <1>7, <1>8, <1>9 DEF LotCommand

\* The last of finitely many numbers is one of them.
LEMMA MaxIn ==
    ASSUME NEW S \in SUBSET Nat, IsFiniteSet(S), S # {}
    PROVE  Max(S) \in S
<1> DEFINE Q == {s \in SUBSET S : s # {} => \E x \in s : \A y \in s : x >= y}
<1>1. {} \in Q
  OBVIOUS
<1>2. ASSUME NEW s \in SUBSET S, s # {}, s \ {Picked(s)} \in Q PROVE s \in Q
  <2> DEFINE p == Picked(s)
  <2>1. p \in s /\ p \in Nat
    BY <1>2, PickedIn
  <2> HIDE DEF p
  <2>2. s \ {p} # {} => \E x \in s \ {p} : \A y \in s \ {p} : x >= y
    BY <1>2 DEF p
  <2>3. \E x \in s : \A y \in s : x >= y
    <3>1. CASE s \ {p} = {}
      BY <2>1, <3>1
    <3>2. CASE s \ {p} # {}
      <4>1. PICK x \in s \ {p} : \A y \in s \ {p} : x >= y
        BY <2>2, <3>2
      <4>2. x \in Nat /\ \A y \in s : y \in Nat
        OBVIOUS
      <4>3. CASE x >= p
        BY <2>1, <4>1, <4>3
      <4>4. CASE ~(x >= p)
        BY <2>1, <4>1, <4>2, <4>4
      <4> QED
        BY <4>3, <4>4
    <3> QED
      BY <3>1, <3>2
  <2> QED
    BY <2>3
<1> HIDE DEF Q
<1>3. S \in Q
  BY <1>1, <1>2, SetInduction
<1>4. \E x \in S : \A y \in S : x >= y
  BY <1>3 DEF Q
<1> QED
  BY <1>4 DEF Max

\* Member::qualifies: what a member does after the cutoff does not count.
LEMMA LateChange ==
    ASSUME NEW m \in Members, NEW y \in Years, NEW at \in Nat, Cutoff[y] <= at,
           member[m] \in Member, NEW d \in Member, MemberBecomes(m, d), d.joined = member[m].joined,
           \/ d.days = member[m].days /\ Changed(member[m].changes, d.changes, at)
           \/ d.changes = member[m].changes /\ d.days = member[m].days \cup {at}
    PROVE  Qualifies(m, y)' = Qualifies(m, y)
<1> DEFINE C == member[m].changes
           before == {k \in DOMAIN C : C[k][1] < Cutoff[y]}
           after == {k \in DOMAIN d.changes : d.changes[k][1] < Cutoff[y]}
           counted == {x \in member[m].days : Start[y] <= x /\ x < Cutoff[y]}
           late == {x \in d.days : Start[y] <= x /\ x < Cutoff[y]}
<1>1. C \in Seq(Nat \X BOOLEAN) /\ member[m].joined \in Nat /\ Cutoff[y] \in Nat
  BY Dates DEF Member
<1>2. late = counted
  <2>1. \A x \in d.days : x \in member[m].days \/ x = at
    OBVIOUS
  <2>2. member[m].days \subseteq d.days /\ ~(at < Cutoff[y])
    BY <1>1
  <2> QED
    BY <2>1, <2>2
<1>3. after = before /\ \A k \in before : d.changes[k] = C[k]
  <2>1. CASE d.changes # C
    <3>1. /\ DOMAIN C = 1..Len(C) /\ Len(C) \in Nat /\ DOMAIN d.changes = 1..(Len(C) + 1)
          /\ d.changes[Len(C) + 1][1] = at /\ \A k \in 1..Len(C) : d.changes[k] = C[k]
      BY <1>1, <2>1 DEF Changed
    <3>2. ~(d.changes[Len(C) + 1][1] < Cutoff[y])
      BY <1>1, <3>1
    <3>3. \A k \in 1..(Len(C) + 1) : k \in 1..Len(C) \/ k = Len(C) + 1
      BY <3>1
    <3>4. 1..Len(C) \subseteq 1..(Len(C) + 1)
      BY <3>1
    <3> QED
      BY <3>1, <3>2, <3>3, <3>4
  <2>2. CASE d.changes = C
    BY <2>2
  <2> HIDE DEF C, before, after
  <2> QED
    BY <2>1, <2>2
<1>4. before # {} => Max(before) \in before
  <2>1. before \in SUBSET Nat /\ before \in SUBSET (1..Len(C)) /\ Len(C) \in Nat
    BY <1>1
  <2> DEFINE n == Len(C)
  <2>3. n \in Int /\ 1 \in Int
    BY <2>1
  <2> HIDE DEF before, n
  <2>4. IsFiniteSet(1..n)
    BY <2>3, FS_Interval
  <2>2. IsFiniteSet(before)
    BY <2>1, <2>4, FS_Subset DEF n
  <2> QED
    BY <2>1, <2>2, MaxIn
<1>5. Qualifies(m, y) <=> /\ before # {} /\ C[Max(before)][2]
                          /\ member[m].joined + MinimumTenure <= Cutoff[y]
                          /\ Cardinality(counted) >= MinimumDays
  BY AbsentAssumption DEF Qualifies
<1>6. Qualifies(m, y)' <=> /\ after # {} /\ d.changes[Max(after)][2]
                           /\ d.joined + MinimumTenure <= Cutoff[y]
                           /\ Cardinality(late) >= MinimumDays
  BY DEF Qualifies, MemberBecomes
<1> HIDE DEF before, after, counted, late
<1>7. Qualifies(m, y)' <=> Qualifies(m, y)
  BY <1>2, <1>3, <1>4, <1>5, <1>6
<1> QED
  BY <1>7 DEF Qualifies

LEMMA LateEnrolment ==
    ASSUME NEW m \in Members, NEW y \in Years, NEW at \in Nat, Cutoff[y] <= at,
           member[m] = None, NEW d, MemberBecomes(m, d), Changed(<< >>, d.changes, at)
    PROVE  Qualifies(m, y)' = Qualifies(m, y)
<1> DEFINE after == {k \in DOMAIN d.changes : d.changes[k][1] < Cutoff[y]}
<1>1. \A k \in DOMAIN d.changes : d.changes[k][1] = at
  <2>1. Len(<< >>) = 0
    OBVIOUS
  <2> QED
    BY <2>1 DEF Changed
<1>2. after = {}
  BY <1>1, Dates
<1>3. Qualifies(m, y)' => after # {}
  BY DEF Qualifies, MemberBecomes
<1> HIDE DEF after
<1>4. ~Qualifies(m, y) /\ ~Qualifies(m, y)'
  BY <1>2, <1>3 DEF Qualifies
<1> QED
  BY <1>4 DEF Qualifies

\* A member changes on a day after the closed years, and nobody's standing in
\* them does.
LEMMA MemberStepCalendar ==
    ASSUME Sound, Sound', Calendar, last <= last', UNCHANGED <<lot, disputed, published, allocation>>,
           NEW m \in Members, NEW d, MemberBecomes(m, d),
           MemberLoads(m)', \A k \in DOMAIN d.changes : d.changes[k][1] <= last',
           \A y \in Years : Cutoff[y] <= last => Qualifies(m, y)' = Qualifies(m, y)
    PROVE  Calendar'
<1>1. last \in Nat /\ last' \in Nat
  BY BoundsAssumption DEF Sound, Records
<1>2. /\ d # None /\ member'[m] = d /\ \A k \in Members \ {m} : member'[k] = member[k]
      /\ member \in [Members -> Member \cup {None}]
  BY DEF MemberBecomes, Sound, Records
<1>3. LotsDated'
  BY DEF Calendar, LotsDated, LotLoads
<1>4. MembersDated'
  <2> SUFFICES ASSUME NEW k \in Members
               PROVE  /\ MemberLoads(k)'
                      /\ member'[k] # None => \A j \in DOMAIN member'[k].changes :
                            member'[k].changes[j][1] <= last'
    BY DEF MembersDated
  <2>1. CASE k = m
    BY <1>2, <2>1
  <2>2. CASE k # m
    <3>1. /\ MemberLoads(k)
          /\ member[k] # None => \A j \in DOMAIN member[k].changes : member[k].changes[j][1] <= last
      BY DEF Calendar, MembersDated
    <3>2. member'[k] = member[k]
      BY <1>2, <2>2
    <3>3. member[k] # None => \A j \in DOMAIN member[k].changes : member[k].changes[j][1] \in Nat
      BY <1>2 DEF Member
    <3>4. MemberLoads(k)'
      BY <3>1, <3>2 DEF MemberLoads
    <3> QED
      BY <1>1, <3>1, <3>2, <3>3, <3>4
  <2> QED
    BY <2>1, <2>2
<1>5. YearsClosed'
  <2> SUFFICES ASSUME NEW y \in Years, allocation[y] # None
               PROVE  /\ y \in published /\ Cutoff[y] <= last'
                      /\ \A z \in published : Cutoff[z] <= Start[y] => allocation[z] # None
    BY DEF YearsClosed
  <2> QED
    BY <1>1, CalendarAre, Dates
<1>6. ASSUME NEW y \in Years, allocation[y] # None PROVE Qualified(y)' = Qualified(y)
  <2>1. Cutoff[y] <= last
    BY <1>6, CalendarAre
  <2>2. ASSUME NEW k \in Members PROVE Qualifies(k, y)' <=> Qualifies(k, y)
    <3>1. CASE k = m
      BY <2>1, <3>1
    <3>2. CASE k # m
      BY <1>2, <3>2 DEF Qualifies
    <3> QED
      BY <3>1, <3>2
  <2> QED
    BY <2>2 DEF Qualified
<1>7. SnapshotIsFinal'
  <2>1. \A l \in disputed' : lot'[l].state = "pending" /\ lot'[l].held
    BY CalendarAre
  <2>2. ASSUME NEW y \in Years, allocation[y] # None
        PROVE  /\ allocation[y].members = Qualified(y)'
               /\ allocation[y].funding = {l \in Lots : lot[l].state = "assessed" /\ lot[l].year = y}
               /\ \A l \in Lots : ~Eligible(l, y)'
    BY <1>6, <2>2, CalendarAre DEF Eligible
  <2> QED
    BY <2>1, <2>2 DEF SnapshotIsFinal, Qualified
<1> QED
  BY <1>3, <1>4, <1>5, <1>7 DEF Calendar

LEMMA MemberCommandCalendar ==
    ASSUME Sound, Sound', Calendar, NEW at \in Reading, NEW m \in Members, MemberCommand(m, at)
    PROVE  Calendar'
<1>1. Records /\ member \in [Members -> Member \cup {None}]
  BY RecordsAre DEF Sound
<1>2. UNCHANGED <<now, lot, disputed, published, allocation>>
  BY <1>1, MemberCommandKeeps DEF MemberCommand
<1>3. Atomic(at)
  BY DEF MemberCommand, RecordActivity, Enroll, SetMembership
<1>4. /\ last <= last' /\ at \in Nat /\ at \in 0..MaxTime /\ at >= last /\ last' = at
      /\ last \in Nat
  BY <1>1, <1>2, <1>3, Clock
<1>5. ASSUME NEW y \in Years, Cutoff[y] <= last PROVE Cutoff[y] <= at
  BY <1>4, <1>5, Dates
<1>6. /\ MemberLoads(m)
      /\ member[m] # None => \A k \in DOMAIN member[m].changes : member[m].changes[k][1] <= last
  BY DEF Calendar, MembersDated
<1>7. ASSUME NEW good \in BOOLEAN, Enroll(m, good, at) PROVE Calendar'
  <2>1. PICK d \in Member : MemberBecomes(m, d) /\ d.joined = at /\ Changed(<< >>, d.changes, at)
    BY <1>1, <1>4, <1>7, MemberEnrolled
  <2>2. member[m] = None
    BY <1>7 DEF Enroll
  <2>3. ASSUME NEW y \in Years, Cutoff[y] <= last PROVE Qualifies(m, y)' = Qualifies(m, y)
    BY <1>4, <1>5, <2>1, <2>2, <2>3, LateEnrolment
  <2>4. /\ d.changes # << >> /\ DOMAIN d.changes = {1} /\ d.changes[1][1] = at
    <3>1. Len(<< >>) = 0 /\ 1..1 = {1}
      OBVIOUS
    <3> QED
      BY <2>1, <3>1 DEF Changed
  <2>5. MemberLoads(m)'
    BY <1>4, <2>1, <2>4 DEF MemberLoads, MemberBecomes
  <2>6. \A k \in DOMAIN d.changes : d.changes[k][1] <= last'
    BY <1>4, <2>4
  <2> QED
    BY <1>2, <1>4, <2>1, <2>3, <2>5, <2>6, MemberStepCalendar
<1>8. ASSUME NEW good \in BOOLEAN, SetMembership(m, good, at) PROVE Calendar'
  <2>1. member[m] \in Member
    BY <1>1, <1>4, <1>8, MembershipSet
  <2>2. PICK d \in Member : /\ MemberBecomes(m, d) /\ d.joined = member[m].joined
                            /\ Changed(member[m].changes, d.changes, at)
                            /\ d.days = member[m].days
    BY <1>1, <1>4, <1>8, MembershipSet
  <2>3. ASSUME NEW y \in Years, Cutoff[y] <= last PROVE Qualifies(m, y)' = Qualifies(m, y)
    BY <1>4, <1>5, <2>1, <2>2, <2>3, LateChange
  <2> DEFINE C == member[m].changes
             n == Len(C)
  <2>4. member[m] # None /\ C \in Seq(Nat \X BOOLEAN) /\ n \in Nat /\ DOMAIN C = 1..n
        /\ member[m].joined \in Nat
    BY <2>1, AbsentAssumption DEF Member
  <2>5. /\ DOMAIN d.changes = 1..(n + 1) /\ d.changes[n + 1][1] = at
        /\ \A k \in 1..n : d.changes[k] = C[k]
        /\ \A k \in 1..(n + 1) : k \in 1..n \/ k = n + 1
        /\ d.changes # << >>
    BY <2>2, <2>4 DEF Changed
  <2>6. /\ \A k \in 1..n : C[k][1] \in Nat /\ C[k][1] <= last /\ member[m].joined <= C[k][1]
        /\ \A j, k \in 1..n : j < k => C[j][1] <= C[k][1]
        /\ C # << >>
    <3>1. \A k \in 1..n : C[k] \in Nat \X BOOLEAN
      BY <2>4
    <3>2. \A k \in 1..n : C[k][1] \in Nat
      BY <3>1
    <3> QED
      BY <1>6, <2>4, <3>2 DEF MemberLoads
  <2>7. n >= 1
    BY <2>4, <2>6
  <2> HIDE DEF C, n
  <2>8. member[m].joined <= at
    BY <1>4, <2>4, <2>6, <2>7
  <2>9. d.changes[n + 1][1] = at
    BY <2>5
  <2>10. \A k \in DOMAIN d.changes : d.changes[k][1] <= at /\ d.joined <= d.changes[k][1]
    <3> SUFFICES ASSUME NEW k \in 1..(n + 1)
                 PROVE  d.changes[k][1] <= at /\ d.joined <= d.changes[k][1]
      BY <2>5
    <3>1. CASE k = n + 1
      BY <1>4, <2>2, <2>8, <2>9, <3>1
    <3>2. CASE k \in 1..n
      <4>1. /\ d.changes[k] = C[k] /\ C[k][1] \in Nat /\ C[k][1] <= last
            /\ member[m].joined <= C[k][1]
        BY <2>5, <2>6, <3>2
      <4> QED
        BY <1>4, <2>2, <4>1
    <3> QED
      BY <2>5, <3>1, <3>2
  <2>11. ASSUME NEW j \in DOMAIN d.changes, NEW k \in DOMAIN d.changes, j < k
         PROVE  d.changes[j][1] <= d.changes[k][1]
    <3>1. j \in 1..n
      BY <2>4, <2>5, <2>11
    <3>2. CASE k = n + 1
      BY <2>9, <2>10, <3>2
    <3>3. CASE k \in 1..n
      BY <2>5, <2>6, <2>11, <3>1, <3>3
    <3> QED
      BY <2>5, <3>2, <3>3
  <2>12. MemberLoads(m)'
    BY <2>2, <2>5, <2>10, <2>11 DEF MemberLoads, MemberBecomes
  <2>13. \A k \in DOMAIN d.changes : d.changes[k][1] <= last'
    BY <1>4, <2>10
  <2> QED
    BY <1>2, <1>4, <2>2, <2>3, <2>12, <2>13, MemberStepCalendar
<1>9. CASE RecordActivity(m, at)
  <2>1. member[m] \in Member /\ member[m] # None
    BY <1>1, <1>4, <1>9, ActivityRecorded DEF RecordActivity
  <2>2. PICK d \in Member : /\ MemberBecomes(m, d) /\ d.joined = member[m].joined
                            /\ d.changes = member[m].changes
                            /\ d.days = member[m].days \cup {at}
    BY <1>1, <1>4, <1>9, ActivityRecorded
  <2>3. ASSUME NEW y \in Years, Cutoff[y] <= last PROVE Qualifies(m, y)' = Qualifies(m, y)
    BY <1>4, <1>5, <2>1, <2>2, <2>3, LateChange
  <2>4. MemberLoads(m)'
    BY <1>6, <2>1, <2>2 DEF MemberLoads, MemberBecomes
  <2>5. \A k \in DOMAIN d.changes : d.changes[k][1] <= last'
    <3>1. \A k \in DOMAIN d.changes : d.changes[k][1] \in Nat
      BY DEF Member
    <3> QED
      BY <1>4, <1>6, <2>1, <2>2, <3>1
  <2> QED
    BY <1>2, <1>4, <2>2, <2>3, <2>4, <2>5, MemberStepCalendar
<1> QED
  BY <1>7, <1>8, <1>9 DEF MemberCommand

\* publish_annual_distribution: a year is published before it starts, so after
\* the closed ones.
LEMMA PublishCalendar ==
    ASSUME Sound, Sound', Calendar, NEW at \in Reading, NEW y \in Years, Publish(y, at)
    PROVE  Calendar'
<1>1. /\ at <= Start[y] /\ Atomic(at) /\ published' = published \cup {y}
      /\ UNCHANGED <<now, lot, disputed, member, allocation>>
  BY DEF Publish
<1>2. Records
  BY DEF Sound
<1>3. last <= last' /\ at \in Nat /\ at >= last /\ last' = at /\ last \in Nat
  BY <1>1, <1>2, Clock
<1>4. ASSUME NEW x \in Years, allocation[x] # None
      PROVE  /\ x \in published' /\ Cutoff[x] <= last'
             /\ \A z \in published' : Cutoff[z] <= Start[x] => allocation[z] # None
  <2>1. /\ x \in published /\ Cutoff[x] <= last
        /\ \A z \in published : Cutoff[z] <= Start[x] => allocation[z] # None
    BY <1>4, CalendarAre
  <2>2. ~(Cutoff[y] <= Start[x])
    <3>1. /\ Start[x] \in Nat /\ Cutoff[x] \in Nat /\ Start[x] < Cutoff[x]
          /\ Start[y] \in Nat /\ Cutoff[y] \in Nat /\ Start[y] < Cutoff[y]
      BY Dates
    <3> QED
      BY <1>1, <1>3, <2>1, <3>1
  <2> QED
    BY <1>1, <1>3, <2>1, <2>2, Dates
<1>5. YearsClosed'
  BY <1>1, <1>4 DEF YearsClosed
<1>9. UNCHANGED <<lot, disputed, member, allocation>>
  BY <1>1
<1>6. LotsDated'
  BY <1>9 DEF Calendar, LotsDated, LotLoads
<1>7. SnapshotIsFinal'
  BY <1>9, SnapshotStays DEF Calendar
<1>8. MembersDated'
  <2> SUFFICES ASSUME NEW k \in Members
               PROVE  /\ MemberLoads(k)
                      /\ member[k] # None => \A j \in DOMAIN member[k].changes :
                            member[k].changes[j][1] <= last'
    BY <1>1 DEF MembersDated, MemberLoads
  <2>1. /\ MemberLoads(k)
        /\ member[k] # None => \A j \in DOMAIN member[k].changes : member[k].changes[j][1] <= last
    BY DEF Calendar, MembersDated
  <2>2. member[k] # None => \A j \in DOMAIN member[k].changes : member[k].changes[j][1] \in Nat
    <3>1. member[k] \in Member \cup {None}
      BY <1>2, RecordsAre
    <3> QED
      BY <3>1 DEF Member
  <2> QED
    BY <1>3, <2>1, <2>2
<1> QED
  BY <1>5, <1>6, <1>7, <1>8 DEF Calendar

\* The year closes with every lot and every member it should have.
LEMMA FinalizeCalendar ==
    ASSUME Sound, Sound', Calendar, NEW at \in Reading, NEW y \in Years, Finalize(y, at), now' = now
    PROVE  Calendar'
<1>1. Records /\ lot \in [Lots -> Lot] /\ disputed \in SUBSET Lots
  BY RecordsAre DEF Sound
<1>2. /\ CanFinalize(y, at) /\ Atomic(at)
      /\ disputed' = disputed /\ member' = member /\ published' = published
  BY FinalizeParts
<1>3. last <= last' /\ last' = at /\ last \in Nat /\ last' \in Nat
  BY <1>1, <1>2, Clock
<1>4. /\ \A l \in Funding(y) : /\ l \in Lots /\ lot[l].state = "cleared"
                               /\ lot'[l].state = "assessed" /\ lot'[l].year = y
                               /\ lot'[l].at = lot[l].at /\ lot'[l].cleared = lot[l].cleared
      /\ \A l \in Lots \ Funding(y) : lot'[l] = lot[l]
  BY <1>1, LotsAssessed
<1>5. /\ allocation[y] = None /\ allocation'[y] # None
      /\ allocation'[y].members = Qualified(y) /\ allocation'[y].funding = Funding(y)
      /\ \A z \in Years \ {y} : allocation'[z] = allocation[z]
  <2>1. /\ allocation[y] = None /\ allocation'[y] # None
        /\ allocation'[y] = [members |-> Qualified(y), funding |-> Funding(y), each |-> Each(y),
                             remainder |-> Left(y), corporate |-> Corporate(y)]
        /\ \A z \in Years \ {y} : allocation'[z] = allocation[z]
    BY <1>1, YearCloses
  <2> QED
    BY <2>1
<1>6. /\ \A l \in Lots : /\ LotLoads(l)
                         /\ (lot[l].state = "assessed") = (lot[l].year # None)
                         /\ lot[l].year # None => allocation[lot[l].year] # None
      /\ \A z \in Years : allocation[z] # None =>
            /\ z \in published /\ Cutoff[z] <= last
            /\ \A x \in published : Cutoff[x] <= Start[z] => allocation[x] # None
      /\ \A l \in disputed : lot[l].state = "pending" /\ lot[l].held
      /\ \A z \in Years : allocation[z] # None =>
            /\ allocation[z].members = Qualified(z)
            /\ allocation[z].funding = {l \in Lots : lot[l].state = "assessed" /\ lot[l].year = z}
            /\ \A l \in Lots : ~Eligible(l, z)
  BY CalendarAre
<1>7. \A z \in Years : Qualified(z)' = Qualified(z)
  BY <1>2 DEF Qualified, Qualifies
<1>8. y # None
  BY AbsentAssumption
<1>9. \A z \in Years : allocation[z] # None => z # y /\ allocation'[z] = allocation[z]
  BY <1>5
<1>10. LotsDated'
  <2> SUFFICES ASSUME NEW l \in Lots
               PROVE  /\ lot'[l].state \in {"cleared", "assessed"} =>
                            lot'[l].cleared >= lot'[l].at + MaturityDelay
                      /\ (lot'[l].state = "assessed") = (lot'[l].year # None)
                      /\ lot'[l].year # None => allocation'[lot'[l].year] # None
    BY DEF LotsDated, LotLoads
  <2>1. CASE l \in Funding(y)
    BY <1>4, <1>5, <1>6, <1>8, <2>1 DEF LotLoads
  <2>2. CASE l \notin Funding(y)
    <3>1. lot'[l] = lot[l]
      BY <1>4, <2>2
    <3>2. lot[l].year \in Years \cup {None}
      BY <1>1 DEF Lot
    <3>3. lot[l].year # None => allocation'[lot[l].year] # None
      BY <1>6, <1>9, <3>2
    <3> QED
      BY <1>6, <3>1, <3>3 DEF LotLoads
  <2> QED
    BY <2>1, <2>2
<1>11. MembersDated'
  <2> SUFFICES ASSUME NEW m \in Members
               PROVE  /\ MemberLoads(m)
                      /\ member[m] # None => \A k \in DOMAIN member[m].changes :
                            member[m].changes[k][1] <= last'
    BY <1>2 DEF MembersDated, MemberLoads
  <2>1. /\ MemberLoads(m)
        /\ member[m] # None => \A k \in DOMAIN member[m].changes : member[m].changes[k][1] <= last
    BY DEF Calendar, MembersDated
  <2>2. member[m] # None => \A k \in DOMAIN member[m].changes : member[m].changes[k][1] \in Nat
    <3>1. member[m] \in Member \cup {None}
      BY DEF Sound, Records
    <3> QED
      BY <3>1 DEF Member
  <2> QED
    BY <1>3, <2>1, <2>2
<1>12. YearsClosed'
  <2> SUFFICES ASSUME NEW z \in Years, allocation'[z] # None
               PROVE  /\ z \in published /\ Cutoff[z] <= last'
                      /\ \A x \in published : Cutoff[x] <= Start[z] => allocation'[x] # None
    BY <1>2 DEF YearsClosed
  <2>1. published \subseteq Years
    BY <1>1, RecordsAre
  <2>2. \A x \in published : allocation[x] # None => allocation'[x] # None
    BY <1>9, <2>1
  <2>3. CASE z = y
    BY <1>2, <1>3, <2>2, <2>3 DEF CanFinalize
  <2>4. CASE z # y
    <3>1. /\ z \in published /\ Cutoff[z] <= last
          /\ \A x \in published : Cutoff[x] <= Start[z] => allocation[x] # None
      BY <1>5, <1>6, <2>4
    <3> QED
      BY <1>3, <2>2, <3>1, Dates
  <2> QED
    BY <2>3, <2>4
<1>13. \A l \in disputed' : lot'[l].state = "pending" /\ lot'[l].held
  <2> SUFFICES ASSUME NEW l \in disputed PROVE lot'[l].state = "pending" /\ lot'[l].held
    BY <1>2
  <2>1. l \in Lots /\ lot[l].state = "pending" /\ lot[l].held
    BY <1>1, <1>6
  <2>2. l \notin Funding(y)
    BY <1>4, <2>1
  <2> QED
    BY <1>4, <2>1, <2>2
<1>14. ASSUME NEW z \in Years, allocation'[z] # None
       PROVE  /\ allocation'[z].members = Qualified(z)'
              /\ allocation'[z].funding = {l \in Lots : lot'[l].state = "assessed" /\ lot'[l].year = z}
              /\ \A l \in Lots : ~(lot'[l].state = "cleared" /\ lot'[l].cleared < Cutoff[z])
  <2>1. \A l \in Lots : lot'[l].state = "cleared" => lot'[l] = lot[l]
    BY <1>4
  <2>2. CASE z = y
    <3>1. \A l \in Lots : l \in Funding(y) <=> (lot'[l].state = "assessed" /\ lot'[l].year = y)
      <4> SUFFICES ASSUME NEW l \in Lots
                   PROVE  l \in Funding(y) <=> (lot'[l].state = "assessed" /\ lot'[l].year = y)
        OBVIOUS
      <4>1. CASE l \in Funding(y)
        BY <1>4, <4>1
      <4>2. CASE l \notin Funding(y)
        BY <1>4, <1>5, <1>6, <1>8, <4>2
      <4> QED
        BY <4>1, <4>2
    <3>2. Funding(y) \subseteq Lots
      BY <1>4
    <3>3. Funding(y) = {l \in Lots : lot'[l].state = "assessed" /\ lot'[l].year = y}
      BY <3>1, <3>2
    <3>4. \A l \in Lots : ~(lot'[l].state = "cleared" /\ lot'[l].cleared < Cutoff[y])
      <4> SUFFICES ASSUME NEW l \in Lots, lot'[l].state = "cleared", lot'[l].cleared < Cutoff[y]
                   PROVE  FALSE
        OBVIOUS
      <4>1. l \in Funding(y)
        BY <2>1 DEF Funding, Eligible
      <4> QED
        BY <1>4, <4>1
    <3> QED
      BY <1>5, <1>7, <2>2, <3>3, <3>4
  <2>3. CASE z # y
    <3>1. allocation[z] # None /\ allocation'[z] = allocation[z]
      BY <1>5, <1>14, <2>3
    <3>2. \A l \in Lots : (lot'[l].state = "assessed" /\ lot'[l].year = z) <=>
                              (lot[l].state = "assessed" /\ lot[l].year = z)
      BY <1>4, <2>3
    <3>3. {l \in Lots : lot'[l].state = "assessed" /\ lot'[l].year = z} =
              {l \in Lots : lot[l].state = "assessed" /\ lot[l].year = z}
      BY <3>2
    <3>4. \A l \in Lots : ~(lot'[l].state = "cleared" /\ lot'[l].cleared < Cutoff[z])
      BY <1>6, <2>1, <3>1 DEF Eligible
    <3> QED
      BY <1>6, <1>7, <3>1, <3>3, <3>4
  <2> QED
    BY <2>2, <2>3
<1>15. SnapshotIsFinal'
  BY <1>13, <1>14 DEF SnapshotIsFinal, Eligible, Qualified
<1> QED
  BY <1>10, <1>11, <1>12, <1>15 DEF Calendar

LEMMA CalendarInit == ASSUME Init PROVE Calendar
<1>1. /\ disputed = {} /\ published = {}
      /\ lot = [l \in Lots |-> [state |-> "none", held |-> FALSE, at |-> 0, cleared |-> 0, year |-> None]]
      /\ member = [m \in Members |-> None] /\ allocation = [y \in Years |-> None]
  BY DEF Init
<1>2. LotsDated
  BY <1>1 DEF LotsDated, LotLoads
<1>3. MembersDated
  BY <1>1 DEF MembersDated, MemberLoads
<1>4. YearsClosed /\ SnapshotIsFinal
  BY <1>1 DEF YearsClosed, SnapshotIsFinal
<1> QED
  BY <1>2, <1>3, <1>4 DEF Calendar

LEMMA CalendarStep == ASSUME Sound, Calendar, [Next]_vars PROVE Calendar'
<1>1. Sound' /\ Records
  BY SoundStep DEF Sound
<1>2. CASE Quiet
  <2>1. UNCHANGED <<lot, disputed, member, published, allocation>> /\ last' = last
    BY <1>2 DEF Quiet, program
  <2>2. last <= last'
    BY <1>1, <2>1, RecordsAre, BoundsAssumption
  <2> QED
    BY <1>1, <2>1, <2>2, CalendarStays
<1>3. ASSUME NEW at \in Reading, NEW l \in Lots, LotCommand(l, at) PROVE Calendar'
  BY <1>1, <1>3, LotCommandCalendar
<1>4. ASSUME NEW at \in Reading, NEW m \in Members, MemberCommand(m, at) PROVE Calendar'
  BY <1>1, <1>4, MemberCommandCalendar
<1>5. ASSUME NEW at \in Reading, NEW y \in Years, Publish(y, at) PROVE Calendar'
  BY <1>1, <1>5, PublishCalendar
<1>6. ASSUME NEW at \in Reading, NEW y \in Years, Finalize(y, at), UNCHANGED <<now, bank>>
      PROVE  Calendar'
  BY <1>1, <1>6, FinalizeCalendar
<1>7. ASSUME NEW at \in Reading, NEW y \in Years, NEW c \in Corrections, NEW m \in Members,
             CompensateMember(c, m, y, at)
      PROVE  Calendar'
  <2>1. /\ UNCHANGED <<lot, disputed, member, published, allocation>>
        /\ now' = now /\ Atomic(at)
    BY <1>7 DEF CompensateMember
  <2>2. last <= last'
    BY <1>1, <2>1, Clock
  <2> QED
    BY <1>1, <2>1, <2>2, CalendarStays
<1>8. ASSUME NEW at \in Reading, NEW a \in Payables, PreparedStep(a, at) PROVE Calendar'
  <2>1. /\ UNCHANGED <<lot, disputed, member, published, allocation>>
        /\ now' = now /\ Atomic(at)
    BY <1>8 DEF PreparedStep, Prepare
  <2>2. last <= last'
    BY <1>1, <2>1, Clock
  <2> QED
    BY <1>1, <2>1, <2>2, CalendarStays
<1>9. ASSUME NEW at \in Reading, NEW o \in Operations, NEW outcome \in Outcome,
             ConfirmedStep(o, outcome, at)
      PROVE  Calendar'
  <2>1. UNCHANGED <<lot, disputed, member, published, allocation>> /\ now' = now
    BY <1>9, ConfirmRecords DEF ConfirmedStep
  <2>2. Atomic(at) \/ UNCHANGED last
    BY <1>9 DEF ConfirmedStep, ConfirmPayout, program
  <2>3. last <= last'
    BY <1>1, <2>1, <2>2, Clock
  <2> QED
    BY <1>1, <2>1, <2>3, CalendarStays
<1> QED
  BY <1>2, <1>3, <1>4, <1>5, <1>6, <1>7, <1>8, <1>9, StepKinds DEF ProgramStep

LEMMA AlwaysCalendar == Spec => [](Sound /\ Calendar)
<1>1. Init => Sound /\ Calendar
  BY SoundInit, CalendarInit
<1>2. Sound /\ Calendar /\ [Next]_vars => Sound' /\ Calendar'
  BY SoundStep, CalendarStep
<1> QED
  BY <1>1, <1>2, PTL DEF Spec

\* What a year's assessment decided stays right: no command, however its time
\* was read, changes who qualified before a cutoff that passed, adds a lot that
\* the year should have assessed or takes one back, and a lot whose payment was
\* reported as reversed is not distributed unless an operator released it.
THEOREM SnapshotKept == Spec => []SnapshotIsFinal
<1>1. Calendar => SnapshotIsFinal
  BY DEF Calendar
<1> QED
  BY <1>1, AlwaysCalendar, PTL

-----------------------------------------------------------------------------
(***************************************************************************)
(* The money.                                                              *)
(***************************************************************************)

Assessed == {l \in Lots : lot[l].state = "assessed"}
Closed == {y \in Years : allocation[y] # None}

\* What a closed year shared.
SharedOut == [y \in Closed |-> allocation[y].each * Cardinality(allocation[y].members)]

PoolAdds == AmountOf(Assessed) = ledger.corporate + ledger.restricted + SumFunctionOnSet(SharedOut, Closed)
PoolWaits ==
    \A y \in Closed : (\A z \in Closed \ {y} : Cutoff[z] <= Start[y]) =>
        /\ ledger.restricted = allocation[y].remainder
        /\ allocation[y].members # {} => ledger.restricted < Cardinality(allocation[y].members)
WithinRate == ledger.corporate * Whole <= SumFunctionOnSet(Rated, Assessed)
LotsOwed ==
    \A l \in Lots :
        ledger.pending[l] = IF lot[l].state \in {"pending", "cleared"} THEN Amount[l] ELSE 0

LEMMA PoolParts ==
    ASSUME PoolAccounted
    PROVE  PoolAdds /\ ledger.restricted >= 0 /\ PoolWaits /\ WithinRate /\ LotsOwed
<1>1. PoolAdds
  BY DEF PoolAccounted, PoolAdds, Assessed, Closed, SharedOut, SumFunction
<1>2. ledger.restricted >= 0 /\ PoolWaits
  BY DEF PoolAccounted, PoolWaits, Closed
<1>3. WithinRate /\ LotsOwed
  BY DEF PoolAccounted, WithinRate, LotsOwed, Assessed, Rated
<1> QED
  BY <1>1, <1>2, <1>3

LEMMA PoolOf ==
    ASSUME PoolAdds', ledger'.restricted >= 0, PoolWaits', WithinRate', LotsOwed'
    PROVE  PoolAccounted'
<1> DEFINE total == (SumFunctionOnSet(SharedOut, Closed))'
<1>1. /\ AmountOf(Assessed') = ledger'.corporate + ledger'.restricted + total
  BY DEF PoolAdds
<1>2. total = SumFunction(SharedOut')
  BY DEF SharedOut, SumFunction
<1> HIDE DEF total
<1>3. AmountOf(Assessed') = ledger'.corporate + ledger'.restricted + SumFunction(SharedOut')
  BY <1>1, <1>2
<1> QED
  BY <1>3 DEF PoolAccounted, PoolWaits, WithinRate, LotsOwed, Assessed, Closed, SharedOut, Rated

\* No lot is assessed and no year closes.
LEMMA PoolStays ==
    ASSUME PoolAccounted, LotsOwed', Assessed' = Assessed, allocation' = allocation,
           ledger'.corporate = ledger.corporate, ledger'.restricted = ledger.restricted
    PROVE  PoolAccounted'
<1>1. PoolAdds /\ ledger.restricted >= 0 /\ PoolWaits /\ WithinRate
  BY PoolParts
<1>2. Closed' = Closed /\ SharedOut' = SharedOut
  BY DEF Closed, SharedOut
<1>3. PoolAdds'
  BY <1>1, <1>2 DEF PoolAdds
<1>4. PoolWaits'
  BY <1>1, <1>2 DEF PoolWaits
<1>5. WithinRate'
  BY <1>1 DEF WithinRate
<1> QED
  BY <1>1, <1>3, <1>4, <1>5, PoolOf

\* The accounts' total.
LEMMA Total ==
    ASSUME ledger \in Ledger
    PROVE  /\ LedgerTotal = ledger.clearing + SumFunctionOnSet(ledger.pending, Lots) + ledger.restricted
                            + ledger.corporate + ledger.loss + SumFunctionOnSet(ledger.payable, Payables)
                            + ledger.processor
           /\ SumFunctionOnSet(ledger.pending, Lots) \in Int
           /\ SumFunctionOnSet(ledger.payable, Payables) \in Int
           /\ IsFiniteSet(Lots) /\ IsFiniteSet(Payables)
<1>1. ledger.pending \in [Lots -> Int] /\ ledger.payable \in [Payables -> Int]
  BY LedgerParts
<1>2. IsFiniteSet(Lots) /\ IsFiniteSet(Payables)
  <2>1. IsFiniteSet(Members \cup Corrections)
    BY FinitenessAssumption, FS_Union
  <2> QED
    BY <2>1, FinitenessAssumption, FS_Product DEF Payables
<1>3. DOMAIN ledger.pending = Lots /\ DOMAIN ledger.payable = Payables
  BY <1>1
<1>4. /\ SumFunctionOnSet(ledger.pending, Lots) \in Int
      /\ SumFunctionOnSet(ledger.payable, Payables) \in Int
  BY <1>1, <1>2, SumInt
<1>5. LedgerTotal = ledger.clearing + SumFunctionOnSet(ledger.pending, Lots) + ledger.restricted
                    + ledger.corporate + ledger.loss + SumFunctionOnSet(ledger.payable, Payables)
                    + ledger.processor
  BY <1>3 DEF LedgerTotal, SumFunction
<1> QED
  BY <1>2, <1>4, <1>5

\* The total as two steps' sums.
LEMMA TotalNext ==
    ASSUME ledger' \in Ledger
    PROVE  LedgerTotal' = ledger'.clearing + SumFunctionOnSet(ledger'.pending, Lots) + ledger'.restricted
                          + ledger'.corporate + ledger'.loss + SumFunctionOnSet(ledger'.payable, Payables)
                          + ledger'.processor
<1>1. /\ ledger'.pending \in [Lots -> Int] /\ ledger'.payable \in [Payables -> Int]
  BY DEF Ledger
<1>2. DOMAIN ledger'.pending = Lots /\ DOMAIN ledger'.payable = Payables
  BY <1>1
<1> QED
  BY <1>2 DEF LedgerTotal, SumFunction

LEMMA MoneyStays ==
    ASSUME Money, UNCHANGED <<lot, allocation, payable, ledger>>
    PROVE  Money'
<1>1. LedgerTotal' = LedgerTotal /\ SharesOwed' = SharesOwed
  BY DEF LedgerTotal, SharesOwed, Owed, Outstanding, State
<1>2. PoolAccounted /\ LedgerTotal = 0 /\ SharesOwed /\ \A y \in Years : AllocationLoads(y)
  BY DEF Money
<1>3. LotsOwed' /\ Assessed' = Assessed
  BY <1>2, PoolParts DEF LotsOwed, Assessed
<1>4. PoolAccounted'
  BY <1>2, <1>3, PoolStays
<1>5. \A y \in Years : AllocationLoads(y)'
  BY <1>2 DEF AllocationLoads
<1> QED
  BY <1>1, <1>2, <1>4, <1>5 DEF Money

\* The shares stay, and what is owed of them.
LEMMA OwedStays ==
    ASSUME SharesOwed, payable' = payable, ledger'.payable = ledger.payable
    PROVE  SharesOwed'
BY DEF SharesOwed, Owed, Outstanding, State

\* record_forfeiture: what was held for the request is the program's.
LEMMA ForfeitureMoney ==
    ASSUME Records, Money, NEW l \in Lots, NEW at \in Nat, NEW review \in BOOLEAN,
           RecordForfeiture(l, at, review)
    PROVE  Money'
<1>1. ledger \in Ledger /\ lot \in [Lots -> Lot]
  BY RecordsAre
<1>2. /\ LedgerTotal = 0 /\ SharesOwed /\ PoolAccounted /\ \A y \in Years : AllocationLoads(y)
  BY DEF Money
<1>3. lot[l].state = "none" /\ UNCHANGED <<allocation, payable>>
  BY DEF RecordForfeiture
<1>4. /\ ledger' \in Ledger
      /\ ledger'.clearing = ledger.clearing - Amount[l]
      /\ ledger'.pending = [ledger.pending EXCEPT ![l] = ledger.pending[l] + Amount[l]]
      /\ ledger'.restricted = ledger.restricted /\ ledger'.corporate = ledger.corporate
      /\ ledger'.loss = ledger.loss /\ ledger'.payable = ledger.payable
      /\ ledger'.processor = ledger.processor
  BY <1>1, ForfeitureBooks
<1>5. /\ ledger.clearing \in Int /\ ledger.pending \in [Lots -> Int]
      /\ ledger.restricted \in Int /\ ledger.corporate \in Int /\ ledger.loss \in Int
      /\ ledger.processor \in Int
  BY <1>1, LedgerParts
<1>6. Amount[l] \in Int
  BY Terms
<1>7. SumFunctionOnSet(ledger'.pending, Lots) = SumFunctionOnSet(ledger.pending, Lots) + Amount[l]
  <2> DEFINE f == ledger.pending
             g == [ledger.pending EXCEPT ![l] = ledger.pending[l] + Amount[l]]
  <2>1. /\ \A k \in Lots : f[k] \in Int /\ g[k] \in Int
        /\ \A k \in Lots \ {l} : g[k] = f[k]
        /\ g[l] = f[l] + Amount[l]
    BY <1>5, <1>6
  <2>2. IsFiniteSet(Lots) /\ SumFunctionOnSet(f, Lots) \in Int /\ f[l] \in Int
    BY <1>1, <1>5, Total
  <2>3. ledger'.pending = g
    BY <1>4
  <2> HIDE DEF f, g
  <2>4. SumFunctionOnSet(g, Lots) = SumFunctionOnSet(f, Lots) - f[l] + g[l]
    BY <2>1, <2>2, SumChanges
  <2>5. SumFunctionOnSet(g, Lots) = SumFunctionOnSet(f, Lots) + Amount[l]
    BY <1>6, <2>1, <2>2, <2>4
  <2> QED
    BY <2>3, <2>5 DEF f
<1>8. LedgerTotal' = LedgerTotal
  <2> DEFINE P == SumFunctionOnSet(ledger.pending, Lots)
             O == SumFunctionOnSet(ledger.payable, Payables)
  <2>1. /\ P \in Int /\ O \in Int
        /\ LedgerTotal = ledger.clearing + P + ledger.restricted + ledger.corporate + ledger.loss + O
                         + ledger.processor
    BY <1>1, Total
  <2>2. LedgerTotal' = (ledger.clearing - Amount[l]) + (P + Amount[l]) + ledger.restricted
                       + ledger.corporate + ledger.loss + O + ledger.processor
    BY <1>4, <1>7, TotalNext
  <2> HIDE DEF P, O
  <2> QED
    BY <1>5, <1>6, <2>1, <2>2
<1>9. SharesOwed'
  BY <1>2, <1>3, <1>4, OwedStays
<1>10. PICK d \in Lot : LotBecomes(l, d) /\ d.state = "pending"
  BY <1>1, LotForfeited
<1>11. lot'[l].state = "pending" /\ \A k \in Lots \ {l} : lot'[k] = lot[k]
  BY <1>10 DEF LotBecomes
<1>12. Assessed' = Assessed
  BY <1>3, <1>11 DEF Assessed
<1>13. LotsOwed'
  <2> SUFFICES ASSUME NEW k \in Lots
               PROVE  ledger'.pending[k] =
                          IF lot'[k].state \in {"pending", "cleared"} THEN Amount[k] ELSE 0
    BY DEF LotsOwed
  <2>1. ledger.pending[k] = IF lot[k].state \in {"pending", "cleared"} THEN Amount[k] ELSE 0
    BY <1>2, PoolParts DEF LotsOwed
  <2>2. CASE k = l
    BY <1>3, <1>4, <1>5, <1>6, <1>11, <2>1, <2>2
  <2>3. CASE k # l
    BY <1>4, <1>5, <1>11, <2>1, <2>3
  <2> QED
    BY <2>2, <2>3
<1>14. PoolAccounted'
  BY <1>2, <1>3, <1>4, <1>12, <1>13, PoolStays
<1>15. \A y \in Years : AllocationLoads(y)'
  BY <1>2, <1>3 DEF AllocationLoads
<1> QED
  BY <1>2, <1>8, <1>9, <1>14, <1>15 DEF Money

\* A lot that waits keeps waiting.
LEMMA WaitingMoney ==
    ASSUME Money, UNCHANGED <<allocation, payable, ledger>>, NEW l \in Lots,
           \A k \in Lots \ {l} : lot'[k] = lot[k],
           lot[l].state \in {"pending", "cleared"}, lot'[l].state \in {"pending", "cleared"}
    PROVE  Money'
<1>1. /\ LedgerTotal = 0 /\ SharesOwed /\ PoolAccounted /\ \A y \in Years : AllocationLoads(y)
  BY DEF Money
<1>2. LedgerTotal' = 0 /\ SharesOwed'
  BY <1>1, OwedStays DEF LedgerTotal
<1>3. Assessed' = Assessed
  BY DEF Assessed
<1>4. LotsOwed'
  <2> SUFFICES ASSUME NEW k \in Lots
               PROVE  ledger.pending[k] =
                          IF lot'[k].state \in {"pending", "cleared"} THEN Amount[k] ELSE 0
    BY DEF LotsOwed
  <2>1. ledger.pending[k] = IF lot[k].state \in {"pending", "cleared"} THEN Amount[k] ELSE 0
    BY <1>1, PoolParts DEF LotsOwed
  <2> QED
    BY <2>1
<1>5. PoolAccounted'
  BY <1>1, <1>3, <1>4, PoolStays
<1>6. \A y \in Years : AllocationLoads(y)'
  BY <1>1 DEF AllocationLoads
<1> QED
  BY <1>2, <1>5, <1>6 DEF Money

LEMMA LotCommandMoney ==
    ASSUME Records, Money, NEW at \in Reading, NEW l \in Lots, LotCommand(l, at)
    PROVE  Money'
<1>1. lot \in [Lots -> Lot]
  BY RecordsAre
<1>2. UNCHANGED <<now, allocation, payable>>
  BY LotCommandKeeps DEF LotCommand
<1>3. at \in Nat
  BY <1>2, Clock DEF LotCommand, NoteReversal, ClearMaturity, RecordForfeiture, Hold
<1>4. ASSUME NEW held \in BOOLEAN, lot[l].state \in {"pending", "cleared"}, lot' = SetHold(l, held),
             ledger' = ledger
      PROVE  Money'
  <2>1. PICK d \in Lot : LotBecomes(l, d) /\ d.state = "pending"
    BY <1>1, <1>4, LotHeld
  <2>2. lot'[l].state = "pending" /\ \A k \in Lots \ {l} : lot'[k] = lot[k]
    BY <2>1 DEF LotBecomes
  <2> QED
    BY <1>2, <1>4, <2>2, WaitingMoney
<1>5. ASSUME NEW b \in BOOLEAN, RecordForfeiture(l, at, b) PROVE Money'
  BY <1>3, <1>5, ForfeitureMoney
<1>6. ASSUME NEW b \in BOOLEAN, Hold(l, b, at) PROVE Money'
  BY <1>4, <1>6 DEF Hold
<1>7. CASE NoteReversal(l, at)
  <2>1. lot[l].state # "none" /\ ledger' = ledger /\ lot' = HeldByReversal(l)
    BY <1>7 DEF NoteReversal
  <2>2. lot[l].state \in {"none", "pending", "cleared", "assessed"}
    BY <1>1 DEF Lot
  <2>3. CASE lot[l].state = "assessed"
    BY <1>2, <2>1, <2>3, MoneyStays DEF HeldByReversal
  <2>4. CASE lot[l].state # "assessed"
    BY <1>4, <2>1, <2>2, <2>4 DEF HeldByReversal
  <2> QED
    BY <2>3, <2>4
<1>8. CASE ClearMaturity(l, at)
  <2>1. PICK d \in Lot : LotBecomes(l, d) /\ d.state = "cleared"
    BY <1>1, <1>3, <1>8, LotCleared
  <2>2. lot'[l].state = "cleared" /\ \A k \in Lots \ {l} : lot'[k] = lot[k]
    BY <2>1 DEF LotBecomes
  <2>3. lot[l].state \in {"pending", "cleared"} /\ ledger' = ledger
    BY <1>8 DEF ClearMaturity
  <2> QED
    BY <1>2, <2>2, <2>3, WaitingMoney
<1> QED
  BY <1>5, <1>6, <1>7, <1>8 DEF LotCommand

\* A share changes, and what is owed of it with it.
LEMMA ShareMoney ==
    ASSUME Records, Money, ledger' \in Ledger, UNCHANGED <<lot, allocation>>,
           NEW a \in Payables, NEW t \in Int,
           \A b \in Payables \ {a} : payable'[b] = payable[b],
           Owed(a)' = Owed(a) + t,
           ledger'.payable = [ledger.payable EXCEPT ![a] = ledger.payable[a] + t],
           UNCHANGED <<ledger.clearing, ledger.pending, ledger.restricted, ledger.corporate>>,
           ledger'.loss + ledger'.processor = ledger.loss + ledger.processor - t
    PROVE  Money'
<1>1. ledger \in Ledger
  BY RecordsAre
<1>2. /\ LedgerTotal = 0 /\ SharesOwed /\ PoolAccounted /\ \A y \in Years : AllocationLoads(y)
  BY DEF Money
<1>3. /\ ledger.clearing \in Int /\ ledger.restricted \in Int /\ ledger.corporate \in Int
      /\ ledger.loss \in Int /\ ledger.processor \in Int /\ ledger.payable \in [Payables -> Int]
  BY <1>1, LedgerParts
<1>4. ledger'.loss \in Int /\ ledger'.processor \in Int
  BY DEF Ledger
<1>5. SumFunctionOnSet(ledger'.payable, Payables) = SumFunctionOnSet(ledger.payable, Payables) + t
  <2> DEFINE f == ledger.payable
             g == [ledger.payable EXCEPT ![a] = ledger.payable[a] + t]
  <2>1. /\ \A b \in Payables : f[b] \in Int /\ g[b] \in Int
        /\ \A b \in Payables \ {a} : g[b] = f[b]
        /\ g[a] = f[a] + t
    BY <1>3
  <2>2. IsFiniteSet(Payables) /\ SumFunctionOnSet(f, Payables) \in Int /\ f[a] \in Int
    BY <1>1, <1>3, Total
  <2>3. ledger'.payable = g
    OBVIOUS
  <2> HIDE DEF f, g
  <2>4. SumFunctionOnSet(g, Payables) = SumFunctionOnSet(f, Payables) - f[a] + g[a]
    BY <2>1, <2>2, SumChanges
  <2>5. SumFunctionOnSet(g, Payables) = SumFunctionOnSet(f, Payables) + t
    BY <2>1, <2>2, <2>4
  <2> QED
    BY <2>3, <2>5 DEF f
<1>6. LedgerTotal' = 0
  <2> DEFINE P == SumFunctionOnSet(ledger.pending, Lots)
             O == SumFunctionOnSet(ledger.payable, Payables)
  <2>1. /\ P \in Int /\ O \in Int
        /\ LedgerTotal = ledger.clearing + P + ledger.restricted + ledger.corporate + ledger.loss + O
                         + ledger.processor
    BY <1>1, Total
  <2>2. LedgerTotal' = ledger.clearing + P + ledger.restricted
                       + ledger.corporate + ledger'.loss + (O + t) + ledger'.processor
    BY <1>5, TotalNext
  <2> HIDE DEF P, O
  <2> QED
    BY <1>2, <1>3, <1>4, <2>1, <2>2
<1>7. SharesOwed'
  <2> SUFFICES ASSUME NEW b \in Payables PROVE ledger'.payable[b] = Owed(b)'
    BY DEF SharesOwed
  <2>1. ledger.payable[b] = Owed(b)
    BY <1>2 DEF SharesOwed
  <2>2. CASE b = a
    BY <1>3, <2>1, <2>2
  <2>3. CASE b # a
    <3>1. Owed(b)' = Owed(b)
      BY <2>3 DEF Owed
    <3> QED
      BY <1>3, <2>1, <2>3, <3>1
  <2> QED
    BY <2>2, <2>3
<1>8. LotsOwed' /\ Assessed' = Assessed
  BY <1>2, PoolParts DEF LotsOwed, Assessed
<1>9. PoolAccounted'
  BY <1>2, <1>8, PoolStays
<1>10. \A y \in Years : AllocationLoads(y)'
  BY <1>2 DEF AllocationLoads
<1> QED
  BY <1>6, <1>7, <1>9, <1>10 DEF Money

\* compensate_member: the company pays.
LEMMA CompensateMoney ==
    ASSUME Sound, Money, NEW c \in Corrections, NEW m \in Members, NEW y \in Years, NEW at,
           CompensateMember(c, m, y, at)
    PROVE  Money'
<1> DEFINE a == <<y, c>>
<1>1. Records /\ Payments /\ ledger \in Ledger
  BY RecordsAre DEF Sound
<1>2. /\ a \in Payables /\ payable[a] = None /\ payable'[a] # None /\ Outstanding(payable'[a]) = 1
      /\ \A b \in Payables \ {a} : payable'[b] = payable[b]
  BY <1>1, CompensateKeeps
<1>3. /\ ledger' \in Ledger /\ ledger'.loss = ledger.loss - 1
      /\ ledger'.payable = [ledger.payable EXCEPT ![a] = ledger.payable[a] + 1]
      /\ UNCHANGED <<ledger.clearing, ledger.pending, ledger.restricted, ledger.corporate,
                     ledger.processor>>
  BY <1>1, <1>2, CompensationBooks
<1>4. UNCHANGED <<lot, allocation>>
  BY DEF CompensateMember
<1> HIDE DEF a
<1>5. Owed(a)' = Owed(a) + 1
  BY <1>2 DEF Owed, Outstanding, State
<1>6. ledger'.loss + ledger'.processor = ledger.loss + ledger.processor - 1
  BY <1>1, <1>3, LedgerParts
<1> QED
  BY <1>1, <1>2, <1>3, <1>4, <1>5, <1>6, ShareMoney

\* prepare_distribution: nothing is owed more or less.
LEMMA PrepareMoney ==
    ASSUME Sound, Money, NEW a \in Payables, payable[a] # None, NEW at, Prepare(a, at)
    PROVE  Money'
<1>1. Records /\ Payments /\ ledger \in Ledger /\ bank \in [Members -> [token : Tokens, version : Nat]]
  BY RecordsAre DEF Sound
<1>2. /\ payable'[a] # None /\ Outstanding(payable'[a]) = Outstanding(payable[a])
      /\ \A b \in Payables \ {a} : payable'[b] = payable[b]
  BY <1>1, PrepareParts
<1>3. UNCHANGED <<lot, allocation, ledger>>
  BY DEF Prepare
<1>4. LedgerTotal = 0 /\ SharesOwed /\ PoolAccounted /\ \A y \in Years : AllocationLoads(y)
  BY DEF Money
<1>5. LedgerTotal' = 0
  BY <1>3, <1>4 DEF LedgerTotal
<1>6. SharesOwed'
  <2> SUFFICES ASSUME NEW b \in Payables PROVE ledger'.payable[b] = Owed(b)'
    BY DEF SharesOwed
  <2>1. ledger.payable[b] = Owed(b)
    BY <1>4 DEF SharesOwed
  <2>2. Owed(b)' = Owed(b)
    <3>1. CASE b = a
      <4>1. Owed(a) = Outstanding(payable[a])
        BY DEF Owed
      <4>2. Owed(a)' = Outstanding(payable'[a])
        BY <1>2 DEF Owed, Outstanding, State
      <4> QED
        BY <1>2, <3>1, <4>1, <4>2
    <3>2. CASE b # a
      BY <1>2, <3>2 DEF Owed, Outstanding, State
    <3> QED
      BY <3>1, <3>2
  <2> QED
    BY <1>3, <2>1, <2>2
<1>7. LotsOwed' /\ Assessed' = Assessed
  BY <1>3, <1>4, PoolParts DEF LotsOwed, Assessed
<1>8. PoolAccounted'
  BY <1>3, <1>4, <1>7, PoolStays
<1>9. \A y \in Years : AllocationLoads(y)'
  BY <1>3, <1>4 DEF AllocationLoads
<1> QED
  BY <1>5, <1>6, <1>8, <1>9 DEF Money

\* What evidence takes from what is owed of a share.
LEMMA EvidenceOwed ==
    ASSUME NEW p \in Payable, Placed(p), NEW n \in DOMAIN p.attempts, n \in 1..MaxAttempts,
           NEW outcome \in Outcome, CanAdvance(p.attempts[n], outcome),
           Economic(p.attempts[n], outcome) => n = Len(p.attempts)
    PROVE  LET taken == IF Economic(p.attempts[n], outcome)
                        THEN IF outcome = "Settled" THEN p.amount ELSE 0 - p.amount
                        ELSE 0
           IN  Outstanding(Evidenced(p, n, outcome)) = Outstanding(p) - taken
<1> DEFINE d == Evidenced(p, n, outcome)
<1>1. /\ Economic(p.attempts[n], outcome) =>
            \/ outcome = "Settled" /\ State(p) = "Pending" /\ State(d) = "Settled"
            \/ outcome = "Reversed" /\ State(p) = "Settled" /\ State(d) = "Reversed"
      /\ ~Economic(p.attempts[n], outcome) => ((State(d) = "Settled") <=> (State(p) = "Settled"))
  BY EvidencedPlaced
<1>2. d.amount = p.amount
  BY EvidencedParts
<1>3. p.amount \in Nat
  BY DEF Payable
<1> HIDE DEF d
<1>4. CASE Economic(p.attempts[n], outcome)
  BY <1>1, <1>2, <1>3, <1>4 DEF Outstanding, d
<1>5. CASE ~Economic(p.attempts[n], outcome)
  BY <1>1, <1>2, <1>3, <1>5 DEF Outstanding, d
<1> QED
  BY <1>4, <1>5

\* confirm_payout: the books follow the share.
LEMMA ConfirmMoney ==
    ASSUME Sound, Money, NEW at, NEW o \in Operations, Begun(payable, o), NEW outcome \in Outcome,
           ConfirmPayout(PayableOf(o), o[4], outcome, at)
    PROVE  Money'
<1> DEFINE a == PayableOf(o)
           n == o[4]
           p == payable[a]
           s == p.attempts[n]
<1>1. Records /\ Payments /\ ledger \in Ledger
  BY RecordsAre DEF Sound
<1>2. CASE UNCHANGED program
  <2>1. UNCHANGED <<lot, allocation, payable, ledger>>
    BY <1>2 DEF program
  <2> QED
    BY <2>1, MoneyStays
<1>3. CASE ~UNCHANGED program
  <2>1. /\ CanConfirm(a, n, outcome, at) /\ ~Known(a, n, outcome)
        /\ payable' = [payable EXCEPT ![a] = Evidenced(p, n, outcome)]
        /\ ledger' = PaidBooks(a, s, outcome)
        /\ UNCHANGED <<lot, disputed, member, published, allocation>>
    BY <1>3 DEF ConfirmPayout
  <2>2. /\ a \in Payables /\ p # None /\ n \in DOMAIN p.attempts /\ n \in 1..MaxAttempts
        /\ payable \in [Payables -> Payable \cup {None}]
    BY <1>1, OperationParts, QueueFacts DEF Begun
  <2>3. p \in Payable /\ Placed(p)
    BY <1>1, <2>2, AttemptsAre
  <2> HIDE DEF a, n
  <2>4. CanAdvance(s, outcome) /\ (Economic(s, outcome) => n = Len(p.attempts))
    BY <2>1 DEF CanConfirm
  <2> DEFINE t == Taken(a, s, outcome)
             d == Evidenced(p, n, outcome)
  <2>5. /\ ledger' \in Ledger /\ t \in Int
        /\ ledger'.payable = [ledger.payable EXCEPT ![a] = ledger.payable[a] - t]
        /\ ledger'.processor = ledger.processor + t
        /\ UNCHANGED <<ledger.clearing, ledger.pending, ledger.restricted, ledger.corporate,
                       ledger.loss>>
    BY <1>1, <2>1, <2>2, <2>3, PayoutBooks
  <2>6. Outstanding(d) = Outstanding(p) - t /\ d \in Payable
    BY <2>2, <2>3, <2>4, EvidenceOwed, EvidencedParts DEF Taken
  <2>7. payable'[a] = d /\ d # None
    BY <2>1, <2>2, <2>6, AbsentAssumption
  <2>8. Owed(a) = Outstanding(p)
    BY <2>2 DEF Owed
  <2>9. Owed(a)' = Outstanding(d)
    BY <2>7 DEF Owed, Outstanding, State
  <2>10. \A b \in Payables \ {a} : payable'[b] = payable[b]
    BY <2>1, <2>2
  <2> DEFINE u == 0 - t
  <2>11. Outstanding(p) \in Int /\ ledger.payable \in [Payables -> Int]
    BY <1>1, <2>3, LedgerParts DEF Outstanding, Payable
  <2>12. UNCHANGED <<lot, allocation>>
    BY <2>1
  <2>13. UNCHANGED <<ledger.clearing, ledger.pending, ledger.restricted, ledger.corporate>>
    BY <2>5
  <2> HIDE DEF p, s, t, d
  <2>14. u \in Int
    BY <2>5
  <2>15. Owed(a)' = Owed(a) + u
    BY <2>5, <2>6, <2>8, <2>9, <2>11
  <2>16. ledger'.loss + ledger'.processor = ledger.loss + ledger.processor - u
    BY <1>1, <2>5, LedgerParts
  <2>17. ledger.payable[a] - t = ledger.payable[a] + u
    BY <2>2, <2>5, <2>11
  <2>18. ledger'.payable = [ledger.payable EXCEPT ![a] = ledger.payable[a] + u]
    BY <2>5, <2>17
  <2> HIDE DEF u
  <2> QED
    BY <1>1, <2>2, <2>5, <2>10, <2>12, <2>13, <2>14, <2>15, <2>16, <2>18, ShareMoney
<1> QED
  BY <1>2, <1>3

\* The lots that fund a year are no longer owed.
LEMMA FinalizePending ==
    ASSUME Records, NEW y \in Years, NEW at, Finalize(y, at)
    PROVE  SumFunctionOnSet(ledger'.pending, Lots) =
               SumFunctionOnSet(ledger.pending, Lots) - AmountOf(Funding(y))
<1> DEFINE F == Funding(y)
           f == ledger.pending
           g == [l \in Lots |-> IF l \in F THEN ledger.pending[l] - Amount[l] ELSE ledger.pending[l]]
           h == [l \in Lots |-> IF l \in F THEN Amount[l] * (0 - 1) ELSE 0]
<1>1. ledger \in Ledger /\ F \in SUBSET Lots
  BY RecordsAre, Figures
<1>2. ledger'.pending = g
  BY FinalizeBooks
<1>3. f \in [Lots -> Int] /\ \A l \in Lots : Amount[l] \in Int
  BY <1>1, LedgerParts, Terms
<1>4. IsFiniteSet(Lots) /\ IsFiniteSet(F) /\ AmountOf(F) \in Nat /\ SumFunctionOnSet(f, Lots) \in Int
  BY <1>1, AmountFacts, Total
<1> HIDE DEF F
<1>5. \A l \in Lots : f[l] \in Int /\ h[l] \in Int /\ g[l] = f[l] + h[l]
  <2> SUFFICES ASSUME NEW l \in Lots PROVE f[l] \in Int /\ h[l] \in Int /\ g[l] = f[l] + h[l]
    OBVIOUS
  <2>1. f[l] \in Int /\ Amount[l] \in Int
    BY <1>3
  <2>2. h[l] = IF l \in F THEN 0 - Amount[l] ELSE 0
    BY <2>1
  <2>3. g[l] = IF l \in F THEN f[l] - Amount[l] ELSE f[l]
    OBVIOUS
  <2> HIDE DEF f, g, h
  <2> QED
    BY <2>1, <2>2, <2>3
<1>6. /\ \A l \in F : Amount[l] \in Int /\ h[l] = Amount[l] * (0 - 1)
      /\ \A l \in Lots \ F : h[l] = 0
  BY <1>1, <1>3
<1> DEFINE k == 0 - 1
<1>7. \A l \in F : Amount[l] \in Int /\ h[l] = Amount[l] * k
  BY <1>6
<1>8. k \in Int
  OBVIOUS
<1> HIDE DEF f, g, h, k
<1>9. SumFunctionOnSet(g, Lots) = SumFunctionOnSet(f, Lots) + SumFunctionOnSet(h, Lots)
  BY <1>4, <1>5, SumAdds
<1>10. SumFunctionOnSet(h, Lots) = SumFunctionOnSet(h, F)
  BY <1>1, <1>4, <1>5, <1>6, SumWithin
<1>11. SumFunctionOnSet(h, F) = SumFunctionOnSet(Amount, F) * k
  BY <1>4, <1>7, <1>8, SumScales
<1>12. SumFunctionOnSet(h, F) = 0 - AmountOf(F)
  <2>1. SumFunctionOnSet(h, F) = AmountOf(F) * k
    BY <1>11 DEF AmountOf
  <2> QED
    BY <1>4, <2>1 DEF k
<1>13. SumFunctionOnSet(g, Lots) = SumFunctionOnSet(f, Lots) - AmountOf(F)
  BY <1>4, <1>9, <1>10, <1>12
<1> QED
  BY <1>2, <1>13 DEF f, F

\* The members' shares are owed.
LEMMA FinalizeOwed ==
    ASSUME Records, NEW y \in Years, NEW at, Finalize(y, at)
    PROVE  SumFunctionOnSet(ledger'.payable, Payables) =
               SumFunctionOnSet(ledger.payable, Payables) + Each(y) * Number(y)
<1> DEFINE S == Shared(y)
           e == Each(y)
           f == ledger.payable
           g == [a \in Payables |-> IF a \in S THEN ledger.payable[a] + e ELSE ledger.payable[a]]
           h == [a \in Payables |-> IF a \in S THEN e ELSE 0]
<1>1. /\ ledger \in Ledger /\ S \in SUBSET Payables /\ e \in Int /\ Number(y) \in Nat
      /\ IsFiniteSet(Qualified(y))
  BY RecordsAre, Figures
<1>2. ledger'.payable = g
  BY FinalizeBooks
<1>3. /\ f \in [Payables -> Int] /\ IsFiniteSet(Payables) /\ IsFiniteSet(S)
      /\ SumFunctionOnSet(f, Payables) \in Int
  BY <1>1, LedgerParts, Total, FS_Subset
<1>4. e * Cardinality(S) = e * Number(y)
  <2>1. CASE e = 0
    <3>1. S = {} /\ Cardinality({}) = 0
      BY <2>1, FS_EmptySet DEF Shared
    <3> QED
      BY <1>1, <2>1, <3>1
  <2>2. CASE e # 0
    <3>1. S = {y} \X Qualified(y)
      BY <2>2 DEF Shared
    <3>2. IsFiniteSet({y}) /\ Cardinality({y}) = 1
      BY FS_Singleton
    <3>3. Cardinality({y} \X Qualified(y)) = Cardinality({y}) * Cardinality(Qualified(y))
      BY <1>1, <3>2, FS_Product
    <3>4. Cardinality(S) = Number(y)
      BY <1>1, <3>1, <3>2, <3>3 DEF Number
    <3> QED
      BY <3>4
  <2> QED
    BY <2>1, <2>2
<1> HIDE DEF S, e
<1>5. /\ \A a \in Payables : f[a] \in Int /\ h[a] \in Int /\ g[a] = f[a] + h[a]
      /\ \A a \in S : h[a] = e
      /\ \A a \in Payables \ S : h[a] = 0
  BY <1>1, <1>3
<1> HIDE DEF f, g, h
<1>6. SumFunctionOnSet(g, Payables) = SumFunctionOnSet(f, Payables) + SumFunctionOnSet(h, Payables)
  BY <1>3, <1>5, SumAdds
<1>7. SumFunctionOnSet(h, Payables) = SumFunctionOnSet(h, S)
  BY <1>1, <1>3, <1>5, SumWithin
<1>8. SumFunctionOnSet(h, S) = e * Cardinality(S)
  BY <1>1, <1>3, <1>5, SumOfSame
<1>9. SumFunctionOnSet(g, Payables) = SumFunctionOnSet(f, Payables) + e * Number(y)
  BY <1>4, <1>6, <1>7, <1>8
<1> QED
  BY <1>2, <1>9 DEF f, e

\* What was shared is counted for the year.
LEMMA FinalizeShared ==
    ASSUME Records, NEW y \in Years, NEW at, Finalize(y, at)
    PROVE  /\ Closed' = Closed \cup {y} /\ y \notin Closed
           /\ SumFunctionOnSet(SharedOut', Closed') =
                  SumFunctionOnSet(SharedOut, Closed) + Each(y) * Number(y)
           /\ SumFunctionOnSet(SharedOut, Closed) \in Int
<1> DEFINE C == Closed
           D == Closed'
           f == SharedOut
           g == SharedOut'
<1>1. /\ allocation[y] = None /\ allocation'[y] # None
      /\ allocation'[y].members = Qualified(y) /\ allocation'[y].each = Each(y)
      /\ \A z \in Years \ {y} : allocation'[z] = allocation[z]
      /\ allocation \in [Years -> Allocation \cup {None}]
  <2>1. /\ allocation[y] = None /\ allocation'[y] # None
        /\ allocation'[y] = [members |-> Qualified(y), funding |-> Funding(y), each |-> Each(y),
                             remainder |-> Left(y), corporate |-> Corporate(y)]
        /\ \A z \in Years \ {y} : allocation'[z] = allocation[z]
    BY YearCloses
  <2> QED
    BY <2>1, RecordsAre
<1>2. D = C \cup {y} /\ y \notin C /\ D \ {y} = C
  BY <1>1 DEF Closed
<1>3. IsFiniteSet(C) /\ IsFiniteSet(D)
  <2>1. C \subseteq Years /\ D \subseteq Years
    BY DEF Closed
  <2> QED
    BY <2>1, FinitenessAssumption, FS_Subset
<1>4. Each(y) \in Nat /\ Number(y) \in Nat
  BY Figures
<1>5. g[y] = Each(y) * Number(y)
  BY <1>1, <1>2 DEF SharedOut, Number
<1>6. \A z \in C : g[z] = f[z]
  BY <1>1, <1>2 DEF SharedOut, Closed
<1>7. \A z \in C : f[z] \in Int
  <2> SUFFICES ASSUME NEW z \in C PROVE f[z] \in Int
    OBVIOUS
  <2>1. allocation[z] \in Allocation
    BY <1>1 DEF Closed
  <2>2. allocation[z].each \in Nat /\ allocation[z].members \in SUBSET Members
    BY <2>1 DEF Allocation
  <2>3. Cardinality(allocation[z].members) \in Nat
    BY <2>2, FinitenessAssumption, FS_Subset, FS_CardinalityType
  <2>4. f[z] = allocation[z].each * Cardinality(allocation[z].members)
    BY DEF SharedOut
  <2> QED
    BY <2>2, <2>3, <2>4
<1> DEFINE e == Each(y) * Number(y)
<1>8. e \in Int
  BY <1>4
<1> HIDE DEF C, D, f, g, e
<1>9. \A z \in D : g[z] \in Int
  BY <1>2, <1>5, <1>6, <1>7, <1>8 DEF e
<1>10. y \in D
  BY <1>2
<1>11. SumFunctionOnSet(g, D) = g[y] + SumFunctionOnSet(g, C)
  BY <1>2, <1>3, <1>9, <1>10, SumTakes
<1>12. SumFunctionOnSet(g, C) = SumFunctionOnSet(f, C)
  BY <1>3, <1>6, SumSame
<1>13. SumFunctionOnSet(f, C) \in Int
  BY <1>3, <1>7, SumInt
<1>14. SumFunctionOnSet(g, D) = SumFunctionOnSet(f, C) + e
  BY <1>5, <1>8, <1>11, <1>12, <1>13 DEF e
<1> QED
  BY <1>2, <1>13, <1>14 DEF C, D, f, g, e

\* finalize_annual_distribution: what is divided is what was assessed and what
\* earlier years left.
LEMMA FinalizeTotal ==
    ASSUME Records, LedgerTotal = 0, NEW y \in Years, NEW at, Finalize(y, at)
    PROVE  LedgerTotal' = 0
<1> DEFINE P == SumFunctionOnSet(ledger.pending, Lots)
           O == SumFunctionOnSet(ledger.payable, Payables)
           F == AmountOf(Funding(y))
           C == Corporate(y)
           e == Each(y) * Number(y)
<1>1. ledger \in Ledger /\ F \in Int /\ C \in Int
  BY RecordsAre, Figures
<1>2. e \in Int
  BY Figures
<1>3. /\ ledger' \in Ledger
      /\ ledger'.restricted = ledger.restricted + F - C - e
      /\ ledger'.corporate = ledger.corporate + C
      /\ UNCHANGED <<ledger.clearing, ledger.loss, ledger.processor>>
  BY FinalizeBooks
<1>4. SumFunctionOnSet(ledger'.pending, Lots) = P - F
  BY FinalizePending
<1>5. SumFunctionOnSet(ledger'.payable, Payables) = O + e
  BY FinalizeOwed
<1>6. /\ P \in Int /\ O \in Int
      /\ LedgerTotal = ledger.clearing + P + ledger.restricted + ledger.corporate + ledger.loss + O
                       + ledger.processor
  BY <1>1, Total
<1>7. LedgerTotal' = ledger'.clearing + SumFunctionOnSet(ledger'.pending, Lots) + ledger'.restricted
                     + ledger'.corporate + ledger'.loss + SumFunctionOnSet(ledger'.payable, Payables)
                     + ledger'.processor
  BY <1>3, TotalNext
<1>8. /\ ledger.clearing \in Int /\ ledger.restricted \in Int /\ ledger.corporate \in Int
      /\ ledger.loss \in Int /\ ledger.processor \in Int
  BY <1>1, LedgerParts
<1> HIDE DEF P, O, F, C, e
<1>9. LedgerTotal' = ledger.clearing + (P - F) + (ledger.restricted + F - C - e)
                     + (ledger.corporate + C) + ledger.loss + (O + e) + ledger.processor
  BY <1>3, <1>4, <1>5, <1>7
<1> QED
  BY <1>1, <1>2, <1>6, <1>8, <1>9

LEMMA FinalizePool ==
    ASSUME Records, Calendar, PoolAccounted, NEW y \in Years, NEW at, Finalize(y, at)
    PROVE  PoolAccounted'
<1> DEFINE F == Funding(y)
           e == Each(y) * Number(y)
<1>1. /\ ledger \in Ledger /\ lot \in [Lots -> Lot]
      /\ ledger.pending \in [Lots -> Int] /\ ledger.restricted \in Int /\ ledger.corporate \in Int
  BY RecordsAre, LedgerParts
<1>2. PoolAdds /\ PoolWaits /\ WithinRate /\ LotsOwed
  BY PoolParts
<1>3. /\ F \in SUBSET Lots /\ AmountOf(F) \in Nat /\ Corporate(y) \in Nat /\ Left(y) \in Nat
      /\ Number(y) > 0 => Left(y) < Number(y)
      /\ Number(y) = 0 => Qualified(y) = {}
      /\ Number(y) \in Nat
  BY Figures
<1>4. e \in Int
  BY Figures
<1>5. /\ ledger'.restricted = Left(y)
      /\ ledger'.restricted = ledger.restricted + AmountOf(F) - Corporate(y) - e
      /\ ledger'.corporate = ledger.corporate + Corporate(y)
      /\ ledger'.pending = [l \in Lots |-> IF l \in F THEN ledger.pending[l] - Amount[l] ELSE ledger.pending[l]]
  BY FinalizeBooks
<1>6. /\ \A l \in F : lot[l].state = "cleared" /\ lot'[l].state = "assessed"
      /\ \A l \in Lots \ F : lot'[l] = lot[l]
  BY <1>1, LotsAssessed
<1> DEFINE A == Assessed
<1>7. Assessed' = A \cup F /\ A \cap F = {}
  BY <1>3, <1>6 DEF Assessed
<1>8. A \in SUBSET Lots /\ IsFiniteSet(A) /\ IsFiniteSet(F) /\ AmountOf(A) \in Nat
  BY <1>3, AmountFacts DEF Assessed
<1>9. /\ Closed' = Closed \cup {y} /\ y \notin Closed
      /\ SumFunctionOnSet(SharedOut', Closed') = SumFunctionOnSet(SharedOut, Closed) + e
      /\ SumFunctionOnSet(SharedOut, Closed) \in Int
  BY FinalizeShared
<1>10. /\ allocation'[y].members = Qualified(y) /\ allocation'[y].remainder = Left(y)
       /\ allocation[y] = None
  <2>1. /\ allocation[y] = None
        /\ allocation'[y] = [members |-> Qualified(y), funding |-> Funding(y), each |-> Each(y),
                             remainder |-> Left(y), corporate |-> Corporate(y)]
    BY YearCloses
  <2> QED
    BY <2>1
<1> HIDE DEF F, e, A
<1>11. AmountOf(A \cup F) = AmountOf(A) + AmountOf(F)
  <2>1. \A l \in A \cup F : Amount[l] \in Int
    BY <1>3, <1>8, Terms
  <2> QED
    BY <1>7, <1>8, <2>1, SumSplits DEF AmountOf
<1>12. PoolAdds'
  <2>1. AmountOf(A) = ledger.corporate + ledger.restricted + SumFunctionOnSet(SharedOut, Closed)
    BY <1>2 DEF PoolAdds, A
  <2>2. AmountOf(Assessed') = AmountOf(A) + AmountOf(F)
    BY <1>7, <1>11
  <2>3. AmountOf(Assessed') = ledger'.corporate + ledger'.restricted
                              + SumFunctionOnSet(SharedOut', Closed')
    BY <1>1, <1>3, <1>4, <1>5, <1>8, <1>9, <2>1, <2>2
  <2> QED
    BY <2>3 DEF PoolAdds
<1>13. PoolWaits'
  <2> SUFFICES ASSUME NEW x \in Closed', \A z \in Closed' \ {x} : Cutoff[z] <= Start[x]
               PROVE  /\ ledger'.restricted = allocation'[x].remainder
                      /\ allocation'[x].members # {} =>
                             ledger'.restricted < Cardinality(allocation'[x].members)
    BY DEF PoolWaits
  <2>1. CASE x = y
    BY <1>3, <1>5, <1>10, <2>1 DEF Number
  <2>2. CASE x # y
    <3>1. x \in Years /\ allocation[x] # None
      BY <1>9, <2>2 DEF Closed
    <3>2. Cutoff[y] <= Start[x]
      BY <1>9, <2>2
    <3>3. y \in published
      BY FinalizeParts DEF CanFinalize
    <3>4. allocation[y] # None
      BY <3>1, <3>2, <3>3, CalendarAre
    <3> QED
      BY <1>10, <3>4
  <2> QED
    BY <2>1, <2>2
<1>14. WithinRate'
  <2> DEFINE a == SumFunctionOnSet(Rated, A)
             f == SumFunctionOnSet(Rated, F)
             c == Corporate(y)
  <2>1. /\ c * Whole <= f /\ f \in Int /\ a \in Int
    BY <1>3, <1>8, ShareFacts DEF Corporate, F
  <2>2. ledger.corporate * Whole <= a
    BY <1>2 DEF WithinRate, A
  <2>3. SumFunctionOnSet(Rated, A \cup F) = a + f
    <3>1. \A l \in A \cup F : Rated[l] \in Int
      <4> SUFFICES ASSUME NEW l \in Lots PROVE Rated[l] \in Int
        BY <1>3, <1>8
      <4>1. Amount[l] \in Nat /\ BasisPoints[Policy[l]] \in Nat
        BY Terms
      <4>2. Rated[l] = Amount[l] * BasisPoints[Policy[l]]
        BY DEF Rated
      <4> QED
        BY <4>1, <4>2
    <3> QED
      BY <1>7, <1>8, <3>1, SumSplits
  <2>4. c \in Int /\ Whole \in Nat
    BY <1>3, WholeFacts
  <2> HIDE DEF a, f, c
  <2>5. (ledger.corporate + c) * Whole = ledger.corporate * Whole + c * Whole
    BY <1>1, <2>4
  <2>6. (ledger.corporate + c) * Whole <= a + f
    <3> DEFINE u == ledger.corporate * Whole
               v == c * Whole
    <3>1. u \in Int /\ v \in Int
      BY <1>1, <2>4
    <3>2. (ledger.corporate + c) * Whole = u + v /\ u <= a /\ v <= f
      BY <2>1, <2>2, <2>5
    <3> HIDE DEF u, v
    <3> QED
      BY <2>1, <3>1, <3>2
  <2>7. ledger'.corporate = ledger.corporate + c
    BY <1>5 DEF c
  <2> QED
    BY <1>7, <2>3, <2>6, <2>7 DEF WithinRate
<1>15. LotsOwed'
  <2> SUFFICES ASSUME NEW l \in Lots
               PROVE  ledger'.pending[l] =
                          IF lot'[l].state \in {"pending", "cleared"} THEN Amount[l] ELSE 0
    BY DEF LotsOwed
  <2>1. /\ ledger.pending[l] = IF lot[l].state \in {"pending", "cleared"} THEN Amount[l] ELSE 0
        /\ Amount[l] \in Int
    BY <1>2, Terms DEF LotsOwed
  <2>2. CASE l \in F
    <3>1. ledger'.pending[l] = Amount[l] - Amount[l]
      BY <1>5, <1>6, <2>1, <2>2
    <3>2. lot'[l].state = "assessed"
      BY <1>6, <2>2
    <3> QED
      BY <2>1, <3>1, <3>2
  <2>3. CASE l \notin F
    BY <1>5, <1>6, <2>1, <2>3
  <2> QED
    BY <2>2, <2>3
<1>16. ledger'.restricted >= 0
  BY <1>3, <1>5
<1> QED
  BY <1>12, <1>13, <1>14, <1>15, <1>16, PoolOf

LEMMA FinalizeMoney ==
    ASSUME Sound, Calendar, Money, NEW y \in Years, NEW at, Finalize(y, at)
    PROVE  Money'
<1>1. Records
  BY DEF Sound
<1>2. /\ LedgerTotal = 0 /\ SharesOwed /\ PoolAccounted /\ \A z \in Years : AllocationLoads(z)
  BY DEF Money
<1>3. LedgerTotal' = 0 /\ PoolAccounted'
  BY <1>1, <1>2, FinalizeTotal, FinalizePool
<1>4. SharesOwed'
  <2> SUFFICES ASSUME NEW a \in Payables PROVE ledger'.payable[a] = Owed(a)'
    BY DEF SharesOwed
  <2>1. ledger.payable[a] = Owed(a)
    BY <1>2 DEF SharesOwed
  <2>2. ledger'.payable[a] = IF a \in Shared(y) THEN ledger.payable[a] + Each(y) ELSE ledger.payable[a]
    BY <1>1, FinalizeBooks
  <2>3. CASE a \in Shared(y)
    <3>1. payable[a] = None /\ payable'[a] # None /\ Outstanding(payable'[a]) = Each(y)
      BY <2>3, FinalizeShares
    <3>2. Owed(a) = 0 /\ Owed(a)' = Each(y)
      BY <3>1 DEF Owed, Outstanding, State
    <3>3. Each(y) \in Nat
      BY <1>1, Figures
    <3> QED
      BY <2>1, <2>2, <2>3, <3>2, <3>3
  <2>4. CASE a \notin Shared(y)
    <3>1. payable'[a] = payable[a]
      BY <2>4, FinalizeShares
    <3>2. Owed(a)' = Owed(a)
      BY <3>1 DEF Owed, Outstanding, State
    <3> QED
      BY <2>1, <2>2, <2>4, <3>2
  <2> QED
    BY <2>3, <2>4
<1>5. ASSUME NEW z \in Years PROVE AllocationLoads(z)'
  <2>1. /\ allocation'[y] = [members |-> Qualified(y), funding |-> Funding(y), each |-> Each(y),
                             remainder |-> Left(y), corporate |-> Corporate(y)]
        /\ \A x \in Years \ {y} : allocation'[x] = allocation[x]
    BY <1>1, YearCloses
  <2>2. CASE z = y
    <3>1. /\ Number(y) = 0 => Each(y) = 0
          /\ Number(y) > 0 => Left(y) < Number(y)
          /\ Corporate(y) <= AmountOf(Funding(y))
      BY <1>1, Figures
    <3>2. /\ allocation'[y].members = Qualified(y) /\ allocation'[y].funding = Funding(y)
          /\ allocation'[y].each = Each(y) /\ allocation'[y].remainder = Left(y)
          /\ allocation'[y].corporate = Corporate(y)
      BY <2>1
    <3> QED
      BY <2>2, <3>1, <3>2 DEF AllocationLoads, Number
  <2>3. CASE z # y
    BY <1>2, <2>1, <2>3 DEF AllocationLoads
  <2> QED
    BY <2>2, <2>3
<1> QED
  BY <1>3, <1>4, <1>5 DEF Money

LEMMA MoneyInit == ASSUME Init PROVE Money
<1> DEFINE zeros == [l \in Lots |-> 0]
           nils == [a \in Payables |-> 0]
<1>1. /\ ledger = Books(0, zeros, 0, 0, 0, nils, 0)
      /\ \A a \in Payables : payable[a] = None
      /\ \A y \in Years : allocation[y] = None
      /\ \A l \in Lots : lot[l].state = "none"
  BY DEF Init, Books
<1>2. ledger \in Ledger /\ ledger.pending = zeros /\ ledger.payable = nils
  BY <1>1 DEF Books, Ledger
<1>3. /\ ledger.clearing = 0 /\ ledger.restricted = 0 /\ ledger.corporate = 0 /\ ledger.loss = 0
      /\ ledger.processor = 0
  BY <1>1 DEF Books
<1>4. IsFiniteSet(Lots) /\ IsFiniteSet(Payables)
  BY <1>2, Total
<1>5. (\A l \in Lots : zeros[l] = 0) /\ (\A a \in Payables : nils[a] = 0)
  OBVIOUS
<1> HIDE DEF zeros, nils
<1>6. Cardinality(Lots) \in Nat /\ Cardinality(Payables) \in Nat
  BY <1>4, FS_CardinalityType
<1> DEFINE c == 0
<1>7. c \in Int /\ (\A l \in Lots : zeros[l] = c) /\ (\A a \in Payables : nils[a] = c)
  BY <1>5
<1> HIDE DEF c
<1>8. /\ SumFunctionOnSet(zeros, Lots) = c * Cardinality(Lots)
      /\ SumFunctionOnSet(nils, Payables) = c * Cardinality(Payables)
  BY <1>4, <1>7, SumOfSame
<1>9. SumFunctionOnSet(zeros, Lots) = 0 /\ SumFunctionOnSet(nils, Payables) = 0
  BY <1>6, <1>8 DEF c
<1>10. LedgerTotal = 0
  BY <1>2, <1>3, <1>9, Total
<1>11. SharesOwed
  BY <1>1, <1>2, <1>5 DEF SharesOwed, Owed
<1>12. PoolAccounted
  <2>1. /\ {y \in Years : allocation[y] # None} = {}
        /\ {l \in Lots : lot[l].state = "assessed"} = {}
    BY <1>1
  <2> DEFINE closed == {y \in Years : allocation[y] # None}
             assessed == {l \in Lots : lot[l].state = "assessed"}
             shares == [y \in closed |-> allocation[y].each * Cardinality(allocation[y].members)]
             rated == [l \in Lots |-> Amount[l] * BasisPoints[Policy[l]]]
  <2>2. SumFunction(shares) = SumFunctionOnSet(shares, closed)
    BY DEF SumFunction
  <2>3. closed = {} /\ assessed = {}
    BY <2>1
  <2> HIDE DEF closed, assessed, shares, rated
  <2>4. /\ SumFunction(shares) = 0 /\ AmountOf(assessed) = 0 /\ SumFunctionOnSet(rated, assessed) = 0
    BY <2>2, <2>3, SumOfNone DEF AmountOf
  <2>5. ledger.corporate * Whole = 0
    BY <1>3, WholeFacts
  <2>6. \A l \in Lots : ledger.pending[l] = IF lot[l].state \in {"pending", "cleared"} THEN Amount[l] ELSE 0
    BY <1>1, <1>2, <1>5
  <2>7. /\ AmountOf(assessed) = ledger.corporate + ledger.restricted + SumFunction(shares)
        /\ ledger.restricted >= 0
        /\ \A y \in closed : (\A z \in closed \ {y} : Cutoff[z] <= Start[y]) =>
              /\ ledger.restricted = allocation[y].remainder
              /\ allocation[y].members # {} => ledger.restricted < Cardinality(allocation[y].members)
        /\ ledger.corporate * Whole <= SumFunctionOnSet(rated, assessed)
    BY <1>3, <2>3, <2>4, <2>5
  <2> QED
    BY <2>6, <2>7 DEF PoolAccounted, closed, assessed, shares, rated
<1>13. \A y \in Years : AllocationLoads(y)
  BY <1>1 DEF AllocationLoads
<1> QED
  BY <1>10, <1>11, <1>12, <1>13 DEF Money

LEMMA MoneyStep == ASSUME Sound, Calendar, Money, [Next]_vars PROVE Money'
<1>1. Records
  BY DEF Sound
<1>2. CASE Quiet
  BY <1>2, MoneyStays DEF Quiet, program
<1>3. ASSUME NEW at \in Reading, NEW l \in Lots, LotCommand(l, at) PROVE Money'
  BY <1>1, <1>3, LotCommandMoney
<1>4. ASSUME NEW at \in Reading, NEW m \in Members, MemberCommand(m, at) PROVE Money'
  <2>1. UNCHANGED <<now, lot, disputed, published, allocation, payable, ledger, bank, queue>>
    BY <1>1, <1>4, MemberCommandKeeps DEF MemberCommand
  <2>2. UNCHANGED <<lot, allocation, payable, ledger>>
    BY <2>1
  <2> QED
    BY <2>2, MoneyStays
<1>5. ASSUME NEW at \in Reading, NEW y \in Years, Publish(y, at) PROVE Money'
  <2>1. UNCHANGED <<lot, allocation, payable, ledger>>
    BY <1>5 DEF Publish
  <2> QED
    BY <2>1, MoneyStays
<1>6. ASSUME NEW at \in Reading, NEW y \in Years, Finalize(y, at) PROVE Money'
  BY <1>6, FinalizeMoney
<1>7. ASSUME NEW at \in Reading, NEW y \in Years, NEW c \in Corrections, NEW m \in Members,
             CompensateMember(c, m, y, at)
      PROVE  Money'
  BY <1>7, CompensateMoney
<1>8. ASSUME NEW at \in Reading, NEW a \in Payables, PreparedStep(a, at) PROVE Money'
  BY <1>8, PrepareMoney DEF PreparedStep
<1>9. ASSUME NEW at \in Reading, NEW o \in Operations, NEW outcome \in Outcome,
             ConfirmedStep(o, outcome, at)
      PROVE  Money'
  BY <1>9, ConfirmMoney DEF ConfirmedStep
<1> QED
  BY <1>2, <1>3, <1>4, <1>5, <1>6, <1>7, <1>8, <1>9, StepKinds DEF ProgramStep

LEMMA AlwaysMoney == Spec => [](Sound /\ Calendar /\ Money)
<1>1. Init => Sound /\ Calendar /\ Money
  BY SoundInit, CalendarInit, MoneyInit
<1>2. Sound /\ Calendar /\ Money /\ [Next]_vars => Sound' /\ Calendar' /\ Money'
  BY SoundStep, CalendarStep, MoneyStep
<1> QED
  BY <1>1, <1>2, PTL DEF Spec

\* What an annual assessment decided stays right, and its money adds up: what was
\* assessed is the company's share, the members' equal shares or waits for the
\* next year, where less than one unit a member is left, and the company's part
\* never exceeds its rate (assess_funding and finalize_annual_distribution).
THEOREM AssessmentsKept == Spec => []AssessmentKept
<1>1. Calendar /\ Money => AssessmentKept
  BY DEF Calendar, Money, AssessmentKept
<1> QED
  BY <1>1, AlwaysMoney, PTL

\* FinancialProgram::restore accepts every state that the commands and the
\* evidence reach; the books balance and owe every member exactly what is
\* outstanding, after failures and reversals too.
THEOREM ProgramLoads == Spec => []StoredProgramLoads
<1>1. Sound /\ Calendar /\ Money => StoredProgramLoads
  <2> SUFFICES ASSUME Sound, Calendar, Money PROVE StoredProgramLoads
    OBVIOUS
  <2>1. TypeOK
    BY DEF Sound, Records, Payments, TypeOK
  <2>2. LedgerTotal = 0 /\ \A y \in Years : AllocationLoads(y)
    BY DEF Money
  <2>3. (\A m \in Members : MemberLoads(m)) /\ (\A l \in Lots : LotLoads(l))
    BY DEF Calendar, MembersDated, LotsDated
  <2>4. ASSUME NEW a \in Payables
        PROVE  /\ PayableLoads(a)
               /\ ledger.payable[a] = IF payable[a] = None THEN 0 ELSE Outstanding(payable[a])
    <3>1. ledger.payable[a] = Owed(a)
      BY DEF Money, SharesOwed
    <3>2. a[1] \in Years
      BY DEF Payables
    <3>3. DueAt[a[1]] \in Nat /\ Cutoff[a[1]] \in Nat /\ Cutoff[a[1]] <= DueAt[a[1]]
      BY <3>2, CalendarAssumption
    <3>4. payable[a] # None => Placed(payable[a])
      BY DEF Sound, Payments, SharesPlaced
    <3>5. PayableLoads(a)
      BY <3>3, <3>4 DEF PayableLoads, Placed
    <3> QED
      BY <3>1, <3>5 DEF Owed
  <2> QED
    BY <2>1, <2>2, <2>3, <2>4 DEF StoredProgramLoads
<1> QED
  BY <1>1, AlwaysMoney, PTL
=============================================================================
