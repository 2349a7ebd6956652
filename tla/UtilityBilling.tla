--------------------------- MODULE UtilityBilling ---------------------------
(***************************************************************************)
(* A member's annual service: the billing account and its contracts        *)
(* (cs-mail-billing/src/lib.rs), the attempts to collect one               *)
(* (cs-mail-finance/src/execution.rs), the bank accounts they are charged  *)
(* to (FundingSource), and the transactions of BillingService              *)
(* (cs-mail-application/src/billing/operations.rs and                      *)
(* cs-mail-storage-postgres/src/billing.rs) that members, workers and the  *)
(* identity provider call.                                                 *)
(*                                                                         *)
(* A contract is named by the start of its period, as its identifier is    *)
(* derived from it; an operation by its contract and attempt.  Prices are  *)
(* one unit.  A command that is refused, or sent again, leaves at most its *)
(* stored answer behind and is no step; one that is accepted names the     *)
(* account's current revision.                                             *)
(***************************************************************************)
EXTENDS FundingSource, PaymentWorkers, Integers, Sequences

CONSTANTS
    Offers,         \* published offers: collect, start, finish of the period, terms
    Tokens,         \* bank accounts
    FirstToken,     \* the one enrolled with
    MaxAttempts,    \* bound: attempts to collect a contract
    MaxVersion,     \* bound: bank verifications
    MaxTime         \* bound: the clock

Starts == {o.start : o \in Offers}

ASSUME BillingAssumption ==
    /\ \A o \in Offers : /\ DOMAIN o = {"collect", "start", "finish", "terms"}
                         /\ o.collect \in Nat /\ o.start \in Nat /\ o.finish \in Nat
                         /\ o.collect < o.start /\ o.start < o.finish
    /\ MaxAttempts \in Nat \ {0} /\ MaxVersion \in Nat \ {0} /\ MaxTime \in Nat
    /\ Items = Operations /\ Captures = Operations
    /\ Operations = Starts \X (1..MaxAttempts)
    /\ FirstToken \in Tokens

VARIABLES
    now,
    bank,       \* the account's verified bank: its token and version
    contract,   \* contract[s]: the contract for the period starting at s
    source,     \* source[t]: the FundingSource of a bank account
    verified,   \* verified[t]: the version of its verification
    ledger

account == <<bank, contract>>
vars == <<now, bank, contract, source, verified, ledger, queue>>

-----------------------------------------------------------------------------

Contract ==
    [ offer      : Offers,
      token      : Tokens,                              \* the operations' destination
      attempts   : Seq(PaymentState),
      events     : SUBSET ((1..MaxAttempts) \X Outcome),
      settlement : {"Unfunded", "Funded", "Reversed"},
      at         : Nat ]                                \* when it was funded

\* A record that is absent is no record.
ASSUME AbsentAssumption == None \notin Contract \cup Source

Ledger == [receipts : [Starts -> Nat], clearing : Int, loss : Int]

Init ==
    /\ now = 0
    /\ bank = [token |-> FirstToken, version |-> 1]
    /\ contract = [s \in Starts |-> None]
    /\ source = [t \in Tokens |-> IF t = FirstToken THEN VerifiedSource ELSE None]
    /\ verified = [t \in Tokens |-> IF t = FirstToken THEN 1 ELSE 0]
    /\ ledger = [receipts |-> [s \in Starts |-> 0], clearing |-> 0, loss |-> 0]
    /\ QueueInit

Current(c) == c.attempts[Len(c.attempts)]
OperationOf(s, c) == <<s, Len(c.attempts)>>

\* PaymentExecution::pending
PendingIn(s) == contract[s] # None /\ Current(contract[s]) = "Pending"

-----------------------------------------------------------------------------
(***************************************************************************)
(* The member's commands.                                                  *)
(***************************************************************************)

Overlap(a, b) == a.start < b.finish /\ b.start < a.finish

NewContract(o) ==
    [offer |-> o, token |-> bank.token, attempts |-> <<"Pending">>, events |-> {},
     settlement |-> "Unfunded", at |-> 0]

\* BillingAccount::purchase.  The same purchase again changes nothing.
CanPurchase(o) ==
    /\ contract[o.start] = None
    /\ \A s \in Starts : contract[s] # None => ~Overlap(contract[s].offer, o)

\* An accepted command saves the account and the source and enqueues the
\* collection, in one transaction.
Collect(s, c) ==
    LET operation == OperationOf(s, c)
    IN  /\ CanReserve(source[c.token], operation)
        /\ contract' = [contract EXCEPT ![s] = c]
        /\ source' = [source EXCEPT ![c.token] = Reserve(@, operation)]
        /\ item' = Enqueued({operation})
        /\ UNCHANGED <<now, bank, verified, ledger, worker, proc, reversed, faults>>

\* execute_command, PurchaseService.  Whether the product account allows it is
\* left open: nobody is bound to purchase.
Purchase(o) ==
    /\ now < o.finish
    /\ CanPurchase(o)
    /\ Collect(o.start, NewContract(o))

\* PaymentExecution::retry
CanRetry(c) == Current(c) \in {"Failed", "Voided"}

\* execute_command, RetryCollection
RetryCollection(s) ==
    /\ contract[s] # None
    /\ CanRetry(contract[s])
    /\ Len(contract[s].attempts) < MaxAttempts
    /\ Collect(s, [contract[s] EXCEPT !.attempts = Append(@, "Pending")])

-----------------------------------------------------------------------------
(***************************************************************************)
(* Dispatch and evidence.                                                  *)
(***************************************************************************)

\* The source an operation names is its destination's, which a rebound bank
\* does not change.
SourceToken(c) == c.token

\* authorize_dispatch
Authorize(w) ==
    LET i == worker[w].item
        c == contract[i[1]]
        t == SourceToken(c)
    IN  /\ worker[w].step = "authorize"
        /\ \/ now < c.offer.collect /\ Conclude(w, "ready") /\ UNCHANGED source
           \/ /\ now >= c.offer.collect
              /\ ~(PendingIn(i[1]) /\ OperationOf(i[1], c) = i)
              /\ Conclude(w, "complete") /\ UNCHANGED source
           \/ /\ now >= c.offer.collect
              /\ PendingIn(i[1]) /\ OperationOf(i[1], c) = i
              /\ IF source[t] # None /\ CanDispatch(source[t], i)
                 THEN Proceed(w, "lookup") /\ source' = [source EXCEPT ![t] = Dispatch(@, i)]
                 ELSE Conclude(w, "ready") /\ UNCHANGED source
        /\ UNCHANGED <<now, account, verified, ledger, item, proc, reversed, faults>>

\* PaymentExecution::record of a new event: an earlier attempt takes no
\* economic outcome.
Economic(state, outcome) == Advance(state, outcome) # state /\ outcome \in {"Settled", "Reversed"}

CanRecordCollection(c, n, outcome) ==
    /\ now >= c.offer.collect
    /\ \/ <<n, outcome>> \in c.events
       \/ /\ CanAdvance(c.attempts[n], outcome)
          /\ Economic(c.attempts[n], outcome) => n = Len(c.attempts)
          /\ Economic(c.attempts[n], outcome) /\ outcome = "Reversed" => c.settlement = "Funded"

\* Mutant: a reversal leaves the service funded.
RecordedKeptFunded(c, n, outcome) ==
    [c EXCEPT !.attempts[n] = Advance(@, outcome),
              !.events = @ \cup {<<n, outcome>>},
              !.settlement = IF Economic(c.attempts[n], outcome) THEN "Funded" ELSE @,
              !.at = IF Economic(c.attempts[n], outcome) THEN now ELSE @]

\* ServiceContract::record
Recorded(c, n, outcome) ==
    IF <<n, outcome>> \in c.events THEN c
    ELSE [c EXCEPT !.attempts[n] = Advance(@, outcome),
                   !.events = @ \cup {<<n, outcome>>},
                   !.settlement = IF ~Economic(c.attempts[n], outcome) THEN @
                                  ELSE IF outcome = "Settled" THEN "Funded" ELSE "Reversed",
                   !.at = IF Economic(c.attempts[n], outcome) /\ outcome = "Settled" THEN now ELSE @]

\* Mutant: what a report says is posted, however often it is told.
PostedAgain(s, c, n, outcome) ==
    CASE outcome = "Settled"  -> [ledger EXCEPT !.clearing = @ - 1, !.receipts[s] = @ + 1]
      [] outcome = "Reversed" -> [ledger EXCEPT !.loss = @ - 1, !.clearing = @ + 1]
      [] OTHER                -> ledger

\* The postings of ServiceContract::record.
Posted(s, c, n, outcome) ==
    CASE Economic(c.attempts[n], outcome) /\ outcome = "Settled" ->
             [ledger EXCEPT !.clearing = @ - 1, !.receipts[s] = @ + 1]
      [] Economic(c.attempts[n], outcome) /\ outcome = "Reversed" ->
             [ledger EXCEPT !.loss = @ - 1, !.clearing = @ + 1]
      [] OTHER -> ledger

\* confirm_payment: the contract and the source take the evidence together, or
\* neither does.
Recordable(o, outcome) ==
    LET c == contract[o[1]]
        t == SourceToken(c)
    IN  /\ CanRecordCollection(c, o[2], outcome)
        /\ source[t] # None /\ CanRecordOutcome(source[t], o, outcome)

\* Mutant: only money that moved concerns the source.
SourceAfterMoney(c, o, outcome) ==
    IF Economic(c.attempts[o[2]], outcome)
    THEN [source EXCEPT ![SourceToken(c)] = RecordOutcome(@, o, outcome)] ELSE source

SourceAfter(c, o, outcome) == [source EXCEPT ![SourceToken(c)] = RecordOutcome(@, o, outcome)]

ConfirmPayment(o, outcome) ==
    LET c == contract[o[1]]
        after == Recorded(c, o[2], outcome)
    IN  IF Recordable(o, outcome)
        THEN /\ contract' = [contract EXCEPT ![o[1]] = after]
             /\ source' = SourceAfter(c, o, outcome)
             /\ ledger' = Posted(o[1], c, o[2], outcome)
        ELSE UNCHANGED <<contract, source, ledger>>

Confirm(w) ==
    LET o == worker[w].item
        outcome == worker[w].receipt
    IN  /\ worker[w].step = "confirm"
        /\ ConfirmPayment(o, outcome)
        /\ Conclude(w, ResultOf(Recordable(o, outcome), outcome))
        /\ UNCHANGED <<now, bank, verified, item, proc, reversed, faults>>

\* The processor's report of a reversal, as often as it is repeated.
NotifyReversal(o) ==
    /\ o \in reversed
    /\ ConfirmPayment(o, "Reversed")
    /\ UNCHANGED <<now, bank, verified, queue>>

-----------------------------------------------------------------------------
(***************************************************************************)
(* The bank.                                                               *)
(***************************************************************************)

\* reverify_funding: newer evidence for the bank the account names.
ReverifyFunding(v) ==
    /\ v > verified[bank.token]
    /\ source' = [source EXCEPT ![bank.token] = Reverified(@)]
    /\ verified' = [verified EXCEPT ![bank.token] = v]
    /\ UNCHANGED <<now, account, ledger, queue>>

\* The identity provider's RebindBank (accounts/operations.rs): a source that
\* exists is kept as it is.
RebindBank(t, v) ==
    /\ v > bank.version
    /\ bank' = [token |-> t, version |-> v]
    /\ source' = [source EXCEPT ![t] = IF @ = None THEN VerifiedSource ELSE @]
    /\ verified' = [verified EXCEPT ![t] = IF source[t] = None THEN v ELSE @]
    /\ UNCHANGED <<now, contract, ledger, queue>>

Tick ==
    /\ now < MaxTime
    /\ now' = now + 1
    /\ UNCHANGED <<account, source, verified, ledger, queue>>

others == <<now, account, source, verified, ledger>>

\* work.rs, claim: an item is available from the collection date.
ClaimCollection(w, i) ==
    /\ contract[i[1]] # None /\ now >= contract[i[1]].offer.collect
    /\ Claim(w, i)
    /\ UNCHANGED others

WorkerStep(w) == Authorize(w) \/ Confirm(w) \/ (TransportStep(w) /\ UNCHANGED others)

Next ==
    \/ \E o \in Offers : Purchase(o)
    \/ \E s \in Starts : RetryCollection(s)
    \/ \E w \in Workers : WorkerStep(w) \/ \E i \in Items : ClaimCollection(w, i)
    \/ Disturbance /\ UNCHANGED others
    \/ \E o \in Operations, outcome \in Terminal : Resolve(o, outcome) /\ UNCHANGED others
    \/ \E o \in Operations : NotifyReversal(o)
    \/ \E v \in 1..MaxVersion : ReverifyFunding(v) \/ \E t \in Tokens : RebindBank(t, v)
    \/ Tick

Spec == Init /\ [][Next]_vars

\* Workers run in a loop and stop only by a crash, the clock advances, and the
\* processor resolves what it accepted.
Fairness ==
    /\ WF_vars(Tick)
    /\ \A w \in Workers : WF_vars(WorkerStep(w))
    /\ \A i \in Items : SF_vars(\E w \in Workers : ClaimCollection(w, i))
    /\ \A o \in Operations : WF_vars(\E outcome \in Terminal : Resolve(o, outcome) /\ UNCHANGED others)

FairSpec == Spec /\ Fairness

-----------------------------------------------------------------------------

\* Every record keeps its shape.
TypeOK ==
    /\ now \in 0..MaxTime
    /\ bank \in [token : Tokens, version : 1..MaxVersion]
    /\ contract \in [Starts -> Contract \cup {None}]
    /\ source \in [Tokens -> Source \cup {None}]
    /\ verified \in [Tokens -> 0..MaxVersion]
    /\ ledger \in Ledger
    /\ QueueTypeOK

\* PaymentExecution::validate
ExecutionValid(c) ==
    /\ \A n \in 1..(Len(c.attempts) - 1) : c.attempts[n] \in {"Failed", "Voided"}
    /\ \A n \in DOMAIN c.attempts :
          /\ c.attempts[n] = "Reversed" => {<<n, "Settled">>, <<n, "Reversed">>} \subseteq c.events
          /\ c.attempts[n] \in Terminal => <<n, c.attempts[n]>> \in c.events
    /\ \A e \in c.events : CanAdvance(c.attempts[e[1]], e[2])
                           /\ Advance(c.attempts[e[1]], e[2]) = c.attempts[e[1]]

\* ServiceContract::validate
ContractValid(c) ==
    /\ ExecutionValid(c)
    /\ CASE c.settlement = "Unfunded" -> Current(c) \in {"Pending", "Failed", "Voided"}
         [] c.settlement = "Funded"   -> Current(c) = "Settled" /\ c.at >= c.offer.collect
         [] c.settlement = "Reversed" -> Current(c) = "Reversed" /\ c.at >= c.offer.collect

\* The account that was stored can be loaded again: the decoder of BillingAccount
\* accepts every state that the operations reach.
StoredAccountLoads ==
    /\ TypeOK
    /\ \A s \in Starts : contract[s] # None =>
          /\ ContractValid(contract[s])
          /\ \A r \in Starts \ {s} : contract[r] # None => ~Overlap(contract[r].offer, contract[s].offer)

\* A period is paid for once: of all attempts at a contract, across retries,
\* workers that overlap and lost answers, the processor charged, or may still
\* charge, at most one, and it charged every contract that counts as funded.
ChargedOnce ==
    \A s \in Starts :
        LET live == {n \in 1..MaxAttempts : proc[<<s, n>>] \in {"Settled", "Pending"}}
        IN  /\ Cardinality(live) <= 1
            /\ contract[s] # None /\ contract[s].settlement # "Unfunded" =>
                  proc[OperationOf(s, contract[s])] = "Settled"
            /\ contract[s] # None /\ contract[s].settlement = "Reversed" =>
                  OperationOf(s, contract[s]) \in reversed

\* The two records of an attempt, the contract's and the source's, agree, and
\* it is in the source of its destination only, whatever the member's bank
\* became; nothing was charged without that source's grant.
SourceMatchesCollection ==
    \A o \in Operations, t \in Tokens : source[t] # None =>
        LET c == contract[o[1]]
        IN  /\ source[t].attempts[o] =
                  IF c # None /\ c.token = t /\ o[2] <= Len(c.attempts) THEN c.attempts[o[2]] ELSE "None"
            /\ proc[o] # "unknown" /\ c.token = t => o \in source[t].dispatched

\* The books say what the contracts say: a receipt for each period that was
\* funded, a loss for each that was reversed after that, and the rest is with
\* the processor, however often evidence was repeated.
BooksMatchContracts ==
    LET Of(settlement) == {s \in Starts : contract[s] # None /\ contract[s].settlement = settlement}
    IN  /\ \A s \in Starts : ledger.receipts[s] = IF s \in Of("Funded") \cup Of("Reversed") THEN 1 ELSE 0
        /\ ledger.clearing = -Cardinality(Of("Funded"))
        /\ ledger.loss = -Cardinality(Of("Reversed"))

\* Whatever was retried, repeated, lost or reversed, a period is charged and
\* booked once.
PeriodsPaidOnce == ChargedOnce /\ BooksMatchContracts

\* A collection is resolved, unless its bank account is restricted, although
\* workers crash, answers are lost and the processor is slow.
CollectionsConclude ==
    \A s \in Starts : PendingIn(s) ~> ~PendingIn(s) \/ source[contract[s].token].restricted
=============================================================================
