--------------------------- MODULE Receipts_proofs ---------------------------
(***************************************************************************)
(* Theorems about Receipts, for any requests, owners, commands, workers,   *)
(* windows and clocks.                                                     *)
(***************************************************************************)
EXTENDS Receipts, TLAPS

-----------------------------------------------------------------------------
(***************************************************************************)
(* The inductive invariant.                                                *)
(***************************************************************************)

\* The log's times never decrease.
TimesOrdered == \A p, q \in DOMAIN log : p < q => log[p].at <= log[q].at

\* What expired a request was received after its window, and is in the log.
ExpiryReceived ==
    \A r \in Requests :
        conv[r].life = "expired" => \E q \in DOMAIN log : log[q].at > conv[r].deadline

\* A task that was due for deadline due, against a conversation that may have
\* moved on since.
BelongsTo(kind, due, C) ==
    \/ kind = "timeout" /\ C.life # "none" /\ (C.life = "preparing" => C.deadline = due)
    \/ kind = "expire" /\ C.life \notin {"none", "preparing"} /\ (C.life = "awaiting" => C.deadline = due)

\* Every scheduled row is the one of its conversation's state.
RowsBelong ==
    \A r \in Requests : row[r].kind \in ScheduledKinds => BelongsTo(row[r].kind, row[r].due, conv[r])

\* A worker at work claimed a task that was due, and the version it has read is
\* the one of a conversation that has not moved on.
WorkersBelong ==
    \A w \in Workers : worker[w].step # "idle" =>
        /\ worker[w].r \in Requests
        /\ worker[w].kind \in ScheduledKinds
        /\ Due([kind |-> worker[w].kind, due |-> worker[w].due], worker[w].at)
        /\ BelongsTo(worker[w].kind, worker[w].due, conv[worker[w].r])
        /\ worker[w].step = "receive" /\ conv[worker[w].r].life = LifeOf(worker[w].kind)
           => worker[w].expected = conv[worker[w].r].version

\* A received scheduled command still fits the conversation, or the
\* conversation has moved on.
Fits(m, C) ==
    \/ /\ m.kind = "timeout" /\ C.life # "none"
       /\ C.life = "preparing" => C.version = m.expected /\ m.at >= C.deadline
    \/ /\ m.kind = "expire" /\ C.life \notin {"none", "preparing"}
       /\ C.life = "awaiting" => C.version = m.expected /\ m.at > C.deadline

ScheduledFit ==
    \A p \in DOMAIN log : log[p].kind \in ScheduledKinds => Fits(log[p], conv[log[p].r])

Ordered == OwnersInOrder /\ TimesOrdered
Overtaking == ExpiryReceived /\ DecisionsNotOvertaken
Scheduling == RowsBelong /\ WorkersBelong /\ ScheduledFit /\ ScheduledNeverRefused
IInv == TypeOK /\ Ordered /\ Overtaking /\ Scheduling

-----------------------------------------------------------------------------
(***************************************************************************)
(* What a step does to the log.                                            *)
(***************************************************************************)

\* Nothing but outcomes and failures of received commands changes.
Kept ==
    /\ DOMAIN log' = DOMAIN log
    /\ \A q \in DOMAIN log :
          /\ log'[q].r = log[q].r /\ log'[q].kind = log[q].kind
          /\ log'[q].expected = log[q].expected /\ log'[q].at = log[q].at

\* The fields of a received command.
LEMMA ReceiptFields ==
    ASSUME TypeOK, NEW p \in DOMAIN log
    PROVE  /\ log[p] \in Receipt /\ p \in Nat /\ p >= 1
           /\ log[p].r \in Requests /\ log[p].at \in Nat /\ log[p].expected \in Nat
           /\ conv[log[p].r] \in Conversation /\ conv[log[p].r].deadline \in Nat
<1>1. log[p] \in Receipt /\ p \in Nat /\ p >= 1
  BY DEF TypeOK
<1>2. log[p].r \in Requests /\ log[p].at \in Nat /\ log[p].expected \in Nat
  BY <1>1 DEF Receipt
<1>3. conv[log[p].r] \in Conversation
  BY <1>2 DEF TypeOK
<1> QED
  BY <1>1, <1>2, <1>3 DEF Conversation

\* Process records the outcome of one command and nothing else in the log.
LEMMA ResolvedKeeps ==
    ASSUME TypeOK, NEW p \in DOMAIN log, NEW o \in {"Applied", "Refused"}, Resolved(p, o)
    PROVE  /\ log' \in Seq(Receipt)
           /\ Kept
           /\ log'[p].outcome = o
           /\ \A q \in DOMAIN log : q # p => log'[q].outcome = log[q].outcome
<1> DEFINE m == [log[p] EXCEPT !.outcome = o, !.failure = "none"]
<1>1. log \in Seq(Receipt) /\ log[p] \in Receipt
  BY DEF TypeOK
<1>2. m \in Receipt
  BY <1>1 DEF Receipt, Failure
<1>3. log' = [log EXCEPT ![p] = m]
  BY <1>1 DEF Resolved
<1>4. m.outcome = o /\ m.r = log[p].r /\ m.kind = log[p].kind /\ m.expected = log[p].expected
      /\ m.at = log[p].at
  BY <1>1 DEF Receipt
<1> HIDE DEF m
<1>5. log' \in Seq(Receipt) /\ DOMAIN log' = DOMAIN log /\ log'[p] = m
      /\ \A q \in DOMAIN log : q # p => log'[q] = log[q]
  BY <1>1, <1>2, <1>3
<1> QED
  BY <1>4, <1>5 DEF Kept

\* A failed attempt, and the operator's resumption, change one failure only.
LEMMA FailureKeeps ==
    ASSUME TypeOK, NEW p \in DOMAIN log, NEW f \in Failure, log' = [log EXCEPT ![p].failure = f]
    PROVE  /\ log' \in Seq(Receipt)
           /\ Kept
           /\ \A q \in DOMAIN log : log'[q].outcome = log[q].outcome
<1> DEFINE m == [log[p] EXCEPT !.failure = f]
<1>1. log \in Seq(Receipt) /\ log[p] \in Receipt
  BY DEF TypeOK
<1>2. m \in Receipt
  BY <1>1 DEF Receipt
<1>3. log' = [log EXCEPT ![p] = m]
  BY <1>1
<1>4. m.outcome = log[p].outcome /\ m.r = log[p].r /\ m.kind = log[p].kind
      /\ m.expected = log[p].expected /\ m.at = log[p].at
  BY <1>1 DEF Receipt
<1> HIDE DEF m
<1>5. log' \in Seq(Receipt) /\ DOMAIN log' = DOMAIN log /\ log'[p] = m
      /\ \A q \in DOMAIN log : q # p => log'[q] = log[q]
  BY <1>1, <1>2, <1>3
<1> QED
  BY <1>4, <1>5 DEF Kept

\* A received command is appended as it was sent, unresolved.
LEMMA ReceivedKeeps ==
    ASSUME TypeOK, NEW c, NEW at \in Nat, c.key \in Keys, c.r \in Requests,
           c.kind \in ClientKinds \cup ScheduledKinds, c.expected \in Nat, log' = Received(c, at)
    PROVE  /\ log' \in Seq(Receipt)
           /\ DOMAIN log' = DOMAIN log \cup {Len(log) + 1}
           /\ \A q \in DOMAIN log : q < Len(log) + 1 /\ log'[q] = log[q]
           /\ log'[Len(log) + 1].r = c.r /\ log'[Len(log) + 1].kind = c.kind
           /\ log'[Len(log) + 1].expected = c.expected /\ log'[Len(log) + 1].at = at
           /\ log'[Len(log) + 1].outcome = "none"
<1> DEFINE m == [key |-> c.key, r |-> c.r, kind |-> c.kind, expected |-> c.expected,
                 at |-> at, failure |-> "none", outcome |-> "none"]
<1>1. log \in Seq(Receipt)
  BY DEF TypeOK
<1>2. m \in Receipt
  BY DEF Receipt, Failure
<1>3. log' = Append(log, m)
  BY DEF Received
<1>4. m.r = c.r /\ m.kind = c.kind /\ m.expected = c.expected /\ m.at = at /\ m.outcome = "none"
  OBVIOUS
<1> HIDE DEF m
<1>5. log' \in Seq(Receipt) /\ DOMAIN log' = 1..(Len(log) + 1) /\ DOMAIN log = 1..Len(log)
      /\ Len(log) \in Nat /\ log'[Len(log) + 1] = m /\ \A q \in 1..Len(log) : log'[q] = log[q]
  BY <1>1, <1>2, <1>3
<1> QED
  BY <1>4, <1>5

-----------------------------------------------------------------------------
(***************************************************************************)
(* What an applied command does to its conversation.                       *)
(***************************************************************************)

Same(C, D) == D.life = C.life /\ D.version = C.version /\ D.deadline = C.deadline

\* The conversation of r stays where it is, or moves on by one stage with the
\* task of its new stage.
Moves(r, at) ==
    LET C == conv[r]
        D == conv'[r]
    IN  \/ Same(C, D) /\ row'[r] = row[r]
        \/ C.life = "none" /\ D.life = "preparing" /\ row'[r] = Task("timeout", D.deadline)
        \/ C.life = "preparing" /\ D.life = "awaiting" /\ row'[r] = Task("expire", D.deadline)
        \/ /\ C.life \in {"preparing", "awaiting"} /\ D.life \in Terminal
           /\ D.deadline = C.deadline /\ row'[r] = NoRow
           /\ D.life = "expired" => at > C.deadline

OthersStay(r) == \A s \in Requests : s # r => conv'[s] = conv[s] /\ row'[s] = row[s]

\* The rows that Task makes are rows.
LEMMA TaskTyped ==
    ASSUME NEW kind \in ScheduledKinds \cup {"none"}, NEW due \in Nat
    PROVE  Task(kind, due) \in Row
BY DEF Task, Row

\* The fields of a conversation.
LEMMA ConversationFields ==
    ASSUME NEW C \in Conversation
    PROVE  C.life \in Life /\ C.version \in Nat /\ C.relationship \in Nat /\ C.deadline \in Nat
BY DEF Conversation

\* The end of a request (End).
LEMMA EndMoves ==
    ASSUME TypeOK, NEW r \in Requests, NEW life \in Terminal, NEW at \in Nat,
           conv[r].life \in {"preparing", "awaiting"},
           life = "expired" => at > conv[r].deadline, End(r, life)
    PROVE  /\ conv' \in [Requests -> Conversation]
           /\ row' \in [Requests -> Row]
           /\ OthersStay(r)
           /\ Moves(r, at)
<1>1. conv \in [Requests -> Conversation] /\ row \in [Requests -> Row]
  BY DEF TypeOK
<1>2. NoRow \in Row
  BY TaskTyped DEF NoRow
<1> DEFINE D == [conv[r] EXCEPT !.life = life, !.version = @ + 1]
           v == conv[r].version + 1
<1>a. conv[r] \in Conversation /\ conv[r].version \in Nat /\ life \in Life
  BY <1>1, ConversationFields DEF Life, Terminal
<1>b. v \in Nat
  BY <1>a
<1>3. D \in Conversation /\ D.life = life /\ D.deadline = conv[r].deadline
  <2>1. D = [conv[r] EXCEPT !.life = life, !.version = v]
    OBVIOUS
  <2> HIDE DEF D, v
  <2> QED
    BY <1>a, <1>b, <2>1 DEF Conversation
<1>4. conv' = [conv EXCEPT ![r] = D]
  BY <1>1 DEF End
<1> HIDE DEF D
<1>5. row' = [row EXCEPT ![r] = NoRow]
  BY DEF End
<1>6. conv' \in [Requests -> Conversation] /\ row' \in [Requests -> Row] /\ OthersStay(r)
  BY <1>1, <1>2, <1>3, <1>4, <1>5 DEF OthersStay
<1>7. conv'[r] = D /\ row'[r] = NoRow
  BY <1>1, <1>4, <1>5
<1> QED
  BY <1>3, <1>6, <1>7 DEF Moves

\* Every applied command moves its own conversation by at most one stage.
LEMMA AppliesMoves ==
    ASSUME TypeOK, NEW m \in Receipt, Applies(m)
    PROVE  /\ conv' \in [Requests -> Conversation]
           /\ row' \in [Requests -> Row]
           /\ OthersStay(m.r)
           /\ Moves(m.r, m.at)
<1> DEFINE r == m.r
           C == conv[r]
<1>1. /\ conv \in [Requests -> Conversation] /\ row \in [Requests -> Row]
      /\ r \in Requests /\ m.at \in Nat /\ C \in Conversation /\ row[r] \in Row
      /\ C.version \in Nat /\ C.relationship \in Nat /\ C.deadline \in Nat /\ C.life \in Life
  BY DEF TypeOK, Receipt, Conversation
<1>w. SubmissionWindow \in Nat /\ DecisionWindow \in Nat
  BY ReceiptsAssumption
\* A step that replaces one conversation and one row.
<1>u. ASSUME NEW D \in Conversation, NEW R \in Row, conv' = [conv EXCEPT ![r] = D],
             row' = [row EXCEPT ![r] = R]
      PROVE  /\ conv' \in [Requests -> Conversation] /\ row' \in [Requests -> Row]
             /\ OthersStay(r) /\ conv'[r] = D /\ row'[r] = R
  BY <1>1, <1>u DEF OthersStay
<1>n. row = [row EXCEPT ![r] = row[r]] /\ conv = [conv EXCEPT ![r] = conv[r]]
  BY <1>1
<1>2. CASE ApplyQuote(m)
  <2> DEFINE D == [C EXCEPT !.quote = "unsigned"]
  <2>1. D \in Conversation /\ Same(C, D)
    BY <1>1 DEF Conversation, Same
  <2>2. conv' = [conv EXCEPT ![r] = D] /\ row' = [row EXCEPT ![r] = row[r]]
    BY <1>1, <1>2, <1>n DEF ApplyQuote
  <2> HIDE DEF D
  <2> QED
    BY <1>1, <1>u, <2>1, <2>2 DEF Moves
<1>3. CASE ApplyCreate(m)
  <2> DEFINE d == m.at + SubmissionWindow
             D == [C EXCEPT !.life = "preparing", !.deadline = d]
  <2>0. d \in Nat
    BY <1>1, <1>w
  <2> HIDE DEF d
  <2>1. D \in Conversation /\ D.life = "preparing" /\ D.deadline = d
    BY <1>1, <2>0 DEF Conversation, Life
  <2> USE DEF d
  <2>2. Task("timeout", d) \in Row
    BY <1>1, <1>w, TaskTyped DEF ScheduledKinds
  <2>3. conv' = [conv EXCEPT ![r] = D] /\ row' = [row EXCEPT ![r] = Task("timeout", d)] /\ C.life = "none"
    BY <1>1, <1>3 DEF ApplyCreate
  <2> HIDE DEF D, d
  <2> QED
    BY <1>1, <1>u, <2>1, <2>2, <2>3 DEF Moves
<1>4. CASE ApplySubmit(m)
  <2> DEFINE d == m.at + DecisionWindow
             D == [C EXCEPT !.life = "awaiting", !.version = @ + 1, !.deadline = d]
             v == C.version + 1
  <2>0. d \in Nat /\ v \in Nat
    BY <1>1, <1>w
  <2>1. D \in Conversation /\ D.life = "awaiting" /\ D.deadline = d
    <3>1. D = [C EXCEPT !.life = "awaiting", !.version = v, !.deadline = d]
      OBVIOUS
    <3> HIDE DEF D, v, d
    <3> QED
      BY <1>1, <2>0, <3>1 DEF Conversation, Life
  <2>2. Task("expire", d) \in Row
    BY <1>1, <1>w, TaskTyped DEF ScheduledKinds
  <2>3. conv' = [conv EXCEPT ![r] = D] /\ row' = [row EXCEPT ![r] = Task("expire", d)]
        /\ C.life = "preparing"
    BY <1>1, <1>4 DEF ApplySubmit, SubmissionVersioned
  <2> HIDE DEF D, d
  <2> QED
    BY <1>1, <1>u, <2>1, <2>2, <2>3 DEF Moves
<1>5. CASE ApplySubmitFailing(m)
  <2>1. C.life = "preparing" /\ End(r, "cancelled")
    BY <1>5 DEF ApplySubmitFailing, SubmissionVersioned
  <2> QED
    BY <1>1, <2>1, EndMoves DEF Terminal
<1>6. CASE ApplyDecide(m)
  <2> DEFINE life == DecidedLife(C, m.at)
             v == IF life = C.life THEN C.version ELSE C.version + 1
             D == [C EXCEPT !.relationship = @ + 1, !.life = life, !.version = v]
             R == IF life = C.life THEN row[r] ELSE NoRow
  <2>1. \/ life = C.life
        \/ /\ C.life \in {"preparing", "awaiting"} /\ life \in Terminal /\ life # C.life
           /\ life = "expired" => m.at > C.deadline
    BY <1>1 DEF DecidedLife, Terminal, Life
  <2>2. life \in Life
    BY <1>1, <2>1 DEF Terminal, Life
  <2>3. v \in Nat
    BY <1>1
  <2>4. conv' = [conv EXCEPT ![r] = D] /\ row' = [row EXCEPT ![r] = R]
    BY <1>1, <1>6, <1>n DEF ApplyDecide
  <2>5. life = C.life => v = C.version
    OBVIOUS
  <2> HIDE DEF life, v
  <2>6. D \in Conversation /\ D.life = life /\ D.deadline = C.deadline /\ D.version = v
    <3> DEFINE n == C.relationship + 1
    <3>1. n \in Nat
      BY <1>1
    <3>2. D = [C EXCEPT !.relationship = n, !.life = life, !.version = v]
      OBVIOUS
    <3> HIDE DEF D, n
    <3> QED
      BY <1>1, <2>2, <2>3, <3>1, <3>2 DEF Conversation
  <2>7. R \in Row
    BY <1>1, TaskTyped DEF NoRow
  <2>8. life = C.life => Same(C, D) /\ R = row[r]
    BY <2>5, <2>6 DEF Same
  <2>9. life # C.life => R = NoRow
    OBVIOUS
  <2> HIDE DEF D, R
  <2>10. /\ conv' \in [Requests -> Conversation] /\ row' \in [Requests -> Row]
         /\ OthersStay(r) /\ conv'[r] = D /\ row'[r] = R
    BY <1>u, <2>4, <2>6, <2>7
  <2> QED
    BY <2>1, <2>6, <2>8, <2>9, <2>10 DEF Moves
<1>7. CASE ApplyScheduled(m)
  <2>1. CASE UNCHANGED <<conv, row>>
    BY <1>1, <2>1 DEF OthersStay, Moves, Same
  <2>2. CASE C.life = "preparing" /\ End(r, "cancelled")
    BY <1>1, <2>2, EndMoves DEF Terminal
  <2>3. CASE C.life = "awaiting" /\ ExpiryApplies(m) /\ End(r, "expired")
    BY <1>1, <2>3, EndMoves DEF Terminal, ExpiryApplies
  <2> QED
    BY <1>7, <2>1, <2>2, <2>3 DEF ApplyScheduled
<1> QED
  BY <1>2, <1>3, <1>4, <1>5, <1>6, <1>7 DEF Applies

-----------------------------------------------------------------------------
(***************************************************************************)
(* Order.                                                                  *)
(***************************************************************************)

\* A command received no earlier than all others keeps the order.
LEMMA AppendOrdered ==
    ASSUME TypeOK, Ordered, NEW at \in Nat, CanReceive(at), NEW n, n = Len(log) + 1,
           DOMAIN log' = DOMAIN log \cup {n},
           \A q \in DOMAIN log : q < n /\ log'[q] = log[q],
           log'[n].at = at, log'[n].outcome = "none"
    PROVE  Ordered'
<1>1. DOMAIN log \subseteq Nat /\ n \in Nat
  BY DEF TypeOK
<1>2. OwnersInOrder'
  <2> SUFFICES ASSUME NEW p \in DOMAIN log', NEW q \in DOMAIN log', p < q, Pending(p)',
                      Overlap(log'[p].r, log'[q].r)
               PROVE  Pending(q)'
    BY DEF OwnersInOrder, Overlap
  <2>1. CASE q = n
    BY <2>1 DEF Pending
  <2>2. CASE q # n
    <3>1. q \in DOMAIN log /\ p \in DOMAIN log
      BY <1>1, <2>2
    <3>2. Pending(p) /\ Overlap(log[p].r, log[q].r)
      BY <3>1 DEF Pending
    <3> QED
      BY <3>1, <3>2 DEF Ordered, OwnersInOrder, Pending
  <2> QED
    BY <2>1, <2>2
<1>3. TimesOrdered'
  <2> SUFFICES ASSUME NEW p \in DOMAIN log', NEW q \in DOMAIN log', p < q
               PROVE  log'[p].at <= log'[q].at
    BY DEF TimesOrdered
  <2>1. p \in DOMAIN log
    BY <1>1
  <2>2. CASE q = n
    BY <2>1, <2>2 DEF CanReceive
  <2>3. CASE q # n
    BY <2>1, <2>3 DEF Ordered, TimesOrdered
  <2> QED
    BY <2>2, <2>3
<1> QED
  BY <1>2, <1>3 DEF Ordered

\* Resolving the head of its owners, or nothing, keeps the order.
LEMMA KeptOrdered ==
    ASSUME TypeOK, Ordered, Kept, NEW p \in DOMAIN log,
           OwnerHead(p) \/ log'[p].outcome = log[p].outcome,
           \A q \in DOMAIN log : q # p => log'[q].outcome = log[q].outcome,
           log'[p].outcome = log[p].outcome \/ log'[p].outcome # "none"
    PROVE  Ordered'
<1>1. DOMAIN log \subseteq Nat /\ p \in Nat
  BY DEF TypeOK
<1>2. OwnersInOrder'
  <2> SUFFICES ASSUME NEW x \in DOMAIN log, NEW y \in DOMAIN log, x < y, Pending(x)',
                      Overlap(log'[x].r, log'[y].r)
               PROVE  Pending(y)'
    BY DEF OwnersInOrder, Kept, Overlap
  <2>1. Pending(x) /\ Overlap(log[x].r, log[y].r)
    BY DEF Pending, Kept
  <2>2. Pending(y)
    BY <2>1 DEF Ordered, OwnersInOrder
  <2>3. CASE y # p \/ log'[p].outcome = log[p].outcome
    BY <2>2, <2>3 DEF Pending
  <2>4. CASE y = p /\ OwnerHead(p)
    <3>1. x \in 1..(p - 1)
      BY <1>1, <2>4, x \in Nat, x >= 1 DEF TypeOK
    <3> QED
      BY <2>1, <2>4, <3>1 DEF OwnerHead
  <2> QED
    BY <2>3, <2>4
<1>3. TimesOrdered'
  BY DEF Kept, Ordered, TimesOrdered
<1> QED
  BY <1>2, <1>3 DEF Ordered

-----------------------------------------------------------------------------
(***************************************************************************)
(* Deadlines.                                                              *)
(***************************************************************************)

\* A command received after a request expired came after its window.
LEMMA AppendOvertaking ==
    ASSUME TypeOK, Overtaking, NEW at \in Nat, CanReceive(at), NEW n, UNCHANGED conv,
           DOMAIN log' = DOMAIN log \cup {n},
           \A q \in DOMAIN log : log'[q] = log[q],
           log'[n].r \in Requests, log'[n].at = at
    PROVE  Overtaking'
<1>1. ExpiryReceived'
  <2> SUFFICES ASSUME NEW r \in Requests, conv[r].life = "expired"
               PROVE  \E q \in DOMAIN log' : log'[q].at > conv[r].deadline
    BY DEF ExpiryReceived
  <2>1. PICK q \in DOMAIN log : log[q].at > conv[r].deadline
    BY DEF Overtaking, ExpiryReceived
  <2> QED
    BY <2>1
<1>2. DecisionsNotOvertaken'
  <2> SUFFICES ASSUME NEW p \in DOMAIN log', log'[p].kind = "decide",
                      conv[log'[p].r].life = "expired", log'[p].at <= conv[log'[p].r].deadline
               PROVE  ~Pending(p)'
    BY DEF DecisionsNotOvertaken
  <2>1. CASE p \in DOMAIN log
    BY <2>1 DEF Overtaking, DecisionsNotOvertaken, Pending
  <2>2. CASE p \notin DOMAIN log
    <3>1. p = n
      BY <2>2
    <3> DEFINE d == conv[log'[n].r].deadline
    <3>2. d \in Nat
      BY DEF TypeOK, Conversation
    <3>3. PICK q \in DOMAIN log : log[q].at > d
      BY <3>1 DEF Overtaking, ExpiryReceived
    <3>4. log[q].at \in Nat /\ log[q].at <= at
      BY ReceiptFields DEF CanReceive
    <3>5. at <= d
      BY <3>1
    <3> HIDE DEF d
    <3> QED
      BY <3>2, <3>3, <3>4, <3>5
  <2> QED
    BY <2>1, <2>2
<1> QED
  BY <1>1, <1>2 DEF Overtaking

\* A step in which no request expires and no outcome is taken back.
LEMMA KeptOvertaking ==
    ASSUME TypeOK, Overtaking, Kept,
           \A q \in DOMAIN log : log'[q].outcome = log[q].outcome \/ log'[q].outcome # "none",
           \A r \in Requests : conv'[r].life = "expired" =>
               conv[r].life = "expired" /\ conv'[r].deadline = conv[r].deadline
    PROVE  Overtaking'
<1>1. ExpiryReceived'
  <2> SUFFICES ASSUME NEW r \in Requests, conv'[r].life = "expired"
               PROVE  \E q \in DOMAIN log' : log'[q].at > conv'[r].deadline
    BY DEF ExpiryReceived
  <2>1. PICK q \in DOMAIN log : log[q].at > conv[r].deadline
    BY DEF Overtaking, ExpiryReceived
  <2> QED
    BY <2>1 DEF Kept
<1>2. DecisionsNotOvertaken'
  <2> SUFFICES ASSUME NEW p \in DOMAIN log, log'[p].kind = "decide",
                      conv'[log'[p].r].life = "expired", log'[p].at <= conv'[log'[p].r].deadline
               PROVE  ~Pending(p)'
    BY DEF DecisionsNotOvertaken, Kept
  <2>1. log[p].r \in Requests
    BY ReceiptFields
  <2>2. ~Pending(p)
    BY <2>1 DEF Overtaking, DecisionsNotOvertaken, Kept
  <2> QED
    BY <2>2 DEF Pending
<1> QED
  BY <1>1, <1>2 DEF Overtaking

\* Applying the head p of its owners expires p's request only.  No decision
\* received within the window is still pending: it would be earlier than p in the
\* log, and p is the earliest pending command of its owners.
LEMMA AppliedOvertaking ==
    ASSUME TypeOK, Ordered, Overtaking, Kept, NEW p \in DOMAIN log, OwnerHead(p),
           log'[p].outcome = "Applied",
           \A q \in DOMAIN log : q # p => log'[q].outcome = log[q].outcome,
           OthersStay(log[p].r), Moves(log[p].r, log[p].at)
    PROVE  Overtaking'
<1> DEFINE r == log[p].r
<1>1. r \in Requests /\ log[p].at \in Nat /\ conv[r].deadline \in Nat /\ OwnersOf[r] # {}
  BY ReceiptsAssumption, ReceiptFields
<1>2. CASE conv'[r].life = "expired" /\ conv[r].life # "expired"
  <2>1. conv'[r].deadline = conv[r].deadline /\ log[p].at > conv[r].deadline
    BY <1>2 DEF Moves, Same
  <2>2. ExpiryReceived'
    <3> SUFFICES ASSUME NEW s \in Requests, conv'[s].life = "expired"
                 PROVE  \E q \in DOMAIN log : log[q].at > conv'[s].deadline
      BY DEF ExpiryReceived, Kept
    <3>1. CASE s = r
      BY <2>1, <3>1
    <3>2. CASE s # r
      BY <3>2 DEF OthersStay, Overtaking, ExpiryReceived
    <3> QED
      BY <3>1, <3>2
  <2>3. DecisionsNotOvertaken'
    <3> SUFFICES ASSUME NEW q \in DOMAIN log, log'[q].kind = "decide",
                        conv'[log'[q].r].life = "expired", log'[q].at <= conv'[log'[q].r].deadline
                 PROVE  ~Pending(q)'
      BY DEF DecisionsNotOvertaken, Kept
    <3>0. log[q].r \in Requests /\ log[q].at \in Nat /\ log'[q].r = log[q].r /\ log'[q].at = log[q].at
          /\ log'[q].kind = log[q].kind
      BY ReceiptFields DEF Kept
    <3>1. CASE q = p
      BY <3>1 DEF Pending
    <3>2. CASE q # p /\ log[q].r # r
      <4>1. conv'[log[q].r] = conv[log[q].r]
        BY <3>0, <3>2 DEF OthersStay
      <4>2. ~Pending(q)
        BY <3>0, <4>1 DEF Overtaking, DecisionsNotOvertaken
      <4> QED
        BY <3>2, <4>2 DEF Pending
    <3>3. CASE q # p /\ log[q].r = r
      <4>1. log[q].at < log[p].at
        BY <1>1, <2>1, <3>0, <3>3
      <4>2. q < p
        <5>1. p \in Nat /\ q \in Nat
          BY DEF TypeOK
        <5>2. ~(p < q)
          BY <1>1, <3>0, <4>1 DEF Ordered, TimesOrdered
        <5> QED
          BY <3>3, <5>1, <5>2
      <4>3. q \in 1..(p - 1)
        BY <4>2, p \in Nat, q \in Nat, q >= 1 DEF TypeOK
      <4>4. Overlap(log[q].r, log[p].r)
        BY <1>1, <3>3 DEF Overlap
      <4>5. ~Pending(q)
        BY <4>3, <4>4 DEF OwnerHead
      <4> QED
        BY <3>3, <4>5 DEF Pending
    <3> QED
      BY <3>1, <3>2, <3>3
  <2> QED
    BY <2>2, <2>3 DEF Overtaking
<1>3. CASE ~(conv'[r].life = "expired" /\ conv[r].life # "expired")
  <2>1. ASSUME NEW s \in Requests, conv'[s].life = "expired"
        PROVE  conv[s].life = "expired" /\ conv'[s].deadline = conv[s].deadline
    <3>1. CASE s = r
      BY <1>3, <2>1, <3>1 DEF Moves, Same, Terminal
    <3>2. CASE s # r
      BY <2>1, <3>2 DEF OthersStay
    <3> QED
      BY <3>1, <3>2
  <2>2. \A q \in DOMAIN log : log'[q].outcome = log[q].outcome \/ log'[q].outcome # "none"
    OBVIOUS
  <2> QED
    BY <2>1, <2>2, KeptOvertaking
<1> QED
  BY <1>2, <1>3

-----------------------------------------------------------------------------
(***************************************************************************)
(* The schedule.                                                           *)
(***************************************************************************)

AllMove == \A r \in Requests : \E at \in Nat : Moves(r, at)

\* A task once scheduled belongs to its conversation as it moves on.
LEMMA MovesBelongs ==
    ASSUME NEW r \in Requests, NEW at \in Nat, Moves(r, at), NEW kind, NEW due,
           BelongsTo(kind, due, conv[r])
    PROVE  /\ BelongsTo(kind, due, conv'[r])
           /\ conv'[r].life = LifeOf(kind) => conv[r].life = LifeOf(kind) /\ conv'[r].version = conv[r].version
BY DEF Moves, Same, BelongsTo, LifeOf, Terminal

\* A received scheduled command fits its conversation as it moves on.
LEMMA MovesFits ==
    ASSUME NEW r \in Requests, NEW at \in Nat, Moves(r, at), NEW m, NEW n,
           n.kind = m.kind, n.expected = m.expected, n.at = m.at, Fits(m, conv[r])
    PROVE  Fits(n, conv'[r])
BY DEF Moves, Same, Fits, Terminal

\* The conversations move on, and no scheduled command is refused.
LEMMA MovesScheduling ==
    ASSUME TypeOK, Scheduling, AllMove, UNCHANGED worker, Kept,
           \A q \in DOMAIN log : log[q].kind \in ScheduledKinds =>
               log'[q].outcome # "Refused"
    PROVE  Scheduling'
<1>1. RowsBelong'
  <2> SUFFICES ASSUME NEW r \in Requests, row'[r].kind \in ScheduledKinds
               PROVE  BelongsTo(row'[r].kind, row'[r].due, conv'[r])
    BY DEF RowsBelong
  <2>1. PICK at \in Nat : Moves(r, at)
    BY DEF AllMove
  <2>2. CASE row'[r] = row[r]
    BY <2>1, <2>2, MovesBelongs DEF Scheduling, RowsBelong
  <2>3. CASE row'[r] # row[r]
    BY <2>1, <2>3 DEF Moves, Task, NoRow, BelongsTo, ScheduledKinds
  <2> QED
    BY <2>2, <2>3
<1>2. WorkersBelong'
  <2> SUFFICES ASSUME NEW w \in Workers, worker[w].step # "idle"
               PROVE  /\ worker[w].r \in Requests
                      /\ worker[w].kind \in ScheduledKinds
                      /\ Due([kind |-> worker[w].kind, due |-> worker[w].due], worker[w].at)
                      /\ BelongsTo(worker[w].kind, worker[w].due, conv'[worker[w].r])
                      /\ worker[w].step = "receive" /\ conv'[worker[w].r].life = LifeOf(worker[w].kind)
                         => worker[w].expected = conv'[worker[w].r].version
    BY DEF WorkersBelong
  <2> DEFINE r == worker[w].r
  <2>1. /\ r \in Requests
        /\ worker[w].kind \in ScheduledKinds
        /\ Due([kind |-> worker[w].kind, due |-> worker[w].due], worker[w].at)
        /\ BelongsTo(worker[w].kind, worker[w].due, conv[r])
        /\ worker[w].step = "receive" /\ conv[r].life = LifeOf(worker[w].kind)
           => worker[w].expected = conv[r].version
    BY DEF Scheduling, WorkersBelong
  <2>2. PICK at \in Nat : Moves(r, at)
    BY <2>1 DEF AllMove
  <2>3. /\ BelongsTo(worker[w].kind, worker[w].due, conv'[r])
        /\ conv'[r].life = LifeOf(worker[w].kind) =>
              conv[r].life = LifeOf(worker[w].kind) /\ conv'[r].version = conv[r].version
    BY <2>1, <2>2, MovesBelongs
  <2> QED
    BY <2>1, <2>3
<1>3. ScheduledFit'
  <2> SUFFICES ASSUME NEW q \in DOMAIN log, log[q].kind \in ScheduledKinds
               PROVE  Fits(log'[q], conv'[log[q].r])
    BY DEF ScheduledFit, Kept
  <2>1. log[q].r \in Requests
    BY ReceiptFields
  <2>2. PICK at \in Nat : Moves(log[q].r, at)
    BY <2>1 DEF AllMove
  <2>3. Fits(log[q], conv[log[q].r])
    BY DEF Scheduling, ScheduledFit
  <2> QED
    BY <2>1, <2>2, <2>3, MovesFits DEF Kept
<1>4. ScheduledNeverRefused'
  BY DEF ScheduledNeverRefused, Kept
<1> QED
  BY <1>1, <1>2, <1>3, <1>4 DEF Scheduling

\* A received command fits when it is scheduled.
LEMMA AppendScheduling ==
    ASSUME TypeOK, Scheduling, UNCHANGED <<conv, row>>, WorkersBelong', NEW n,
           DOMAIN log' = DOMAIN log \cup {n},
           \A q \in DOMAIN log : log'[q] = log[q],
           log'[n].outcome = "none",
           log'[n].kind \in ScheduledKinds => Fits(log'[n], conv[log'[n].r])
    PROVE  Scheduling'
<1>1. RowsBelong'
  BY DEF Scheduling, RowsBelong
<1>2. ScheduledFit'
  BY DEF Scheduling, ScheduledFit
<1>3. ScheduledNeverRefused'
  BY DEF Scheduling, ScheduledNeverRefused
<1> QED
  BY <1>1, <1>2, <1>3 DEF Scheduling

\* Claims, reads and crashes leave log and conversations alone.
LEMMA WorkerScheduling ==
    ASSUME Scheduling, UNCHANGED <<log, conv>>, RowsBelong', WorkersBelong'
    PROVE  Scheduling'
<1>1. ScheduledFit' /\ ScheduledNeverRefused'
  BY DEF Scheduling, ScheduledFit, ScheduledNeverRefused
<1> QED
  BY <1>1 DEF Scheduling

-----------------------------------------------------------------------------
(***************************************************************************)
(* Every action keeps the invariant.                                       *)
(***************************************************************************)

\* A conversation that keeps its stage moves by nothing.
LEMMA StayMoves ==
    ASSUME UNCHANGED row, \A r \in Requests : Same(conv[r], conv'[r])
    PROVE  AllMove
BY 0 \in Nat DEF AllMove, Moves

\* A step that changes failures of the log only.
LEMMA FailureStep ==
    ASSUME IInv, NEW p \in DOMAIN log, NEW f \in Failure, log' = [log EXCEPT ![p].failure = f],
           UNCHANGED <<now, conv, row, worker>>, faults' \in Nat
    PROVE  IInv'
<1>1. log' \in Seq(Receipt) /\ Kept /\ \A q \in DOMAIN log : log'[q].outcome = log[q].outcome
  BY FailureKeeps DEF IInv
<1>2. TypeOK'
  BY <1>1 DEF IInv, TypeOK
<1>3. Ordered'
  BY <1>1, KeptOrdered DEF IInv
<1>4. Overtaking'
  BY <1>1, KeptOvertaking DEF IInv
<1>5. AllMove
  BY StayMoves DEF Same
<1>6. \A q \in DOMAIN log : log[q].kind \in ScheduledKinds => log'[q].outcome # "Refused"
  BY <1>1 DEF IInv, Scheduling, ScheduledNeverRefused
<1>7. Scheduling'
  BY <1>1, <1>5, <1>6, MovesScheduling DEF IInv
<1> QED
  BY <1>2, <1>3, <1>4, <1>7 DEF IInv

\* Signing, and its resumption, change a quote only.
LEMMA QuoteStep ==
    ASSUME IInv, NEW r \in Requests, NEW q \in {"unsigned", "signed", "blocked"},
           conv' = [conv EXCEPT ![r].quote = q], UNCHANGED <<now, log, row, worker>>, faults' \in Nat
    PROVE  IInv'
<1> DEFINE D == [conv[r] EXCEPT !.quote = q]
<1>1. conv \in [Requests -> Conversation] /\ conv[r] \in Conversation
  BY DEF IInv, TypeOK
<1>2. D \in Conversation /\ Same(conv[r], D)
  BY <1>1 DEF Conversation, Same
<1>3. conv' = [conv EXCEPT ![r] = D]
  BY <1>1
<1> HIDE DEF D
<1>4. conv' \in [Requests -> Conversation] /\ \A s \in Requests : Same(conv[s], conv'[s])
  BY <1>1, <1>2, <1>3 DEF Same
<1>5. TypeOK'
  BY <1>4 DEF IInv, TypeOK
<1>6. Kept /\ \A p \in DOMAIN log : log'[p].outcome = log[p].outcome
  BY DEF Kept
<1>7. Ordered'
  BY DEF IInv, Ordered, OwnersInOrder, TimesOrdered, Pending
<1>8. Overtaking'
  BY <1>4, <1>6, KeptOvertaking DEF IInv, Same
<1>9. AllMove
  BY <1>4, StayMoves
<1>10. \A p \in DOMAIN log : log[p].kind \in ScheduledKinds => log'[p].outcome # "Refused"
  BY DEF IInv, Scheduling, ScheduledNeverRefused
<1>11. Scheduling'
  BY <1>6, <1>9, <1>10, MovesScheduling DEF IInv
<1> QED
  BY <1>5, <1>7, <1>8, <1>11 DEF IInv

\* A step of a worker that leaves log and conversations alone.
LEMMA WorkerStepKeeps ==
    ASSUME IInv, UNCHANGED <<log, conv>>, now' \in Nat, faults' \in Nat,
           row' \in [Requests -> Row], worker' \in [Workers -> Worker], RowsBelong', WorkersBelong'
    PROVE  IInv'
<1>1. TypeOK'
  BY DEF IInv, TypeOK
<1>2. Ordered'
  BY DEF IInv, Ordered, OwnersInOrder, TimesOrdered, Pending
<1>3. Overtaking'
  BY DEF IInv, Overtaking, ExpiryReceived, DecisionsNotOvertaken, Pending
<1>4. Scheduling'
  BY WorkerScheduling DEF IInv
<1> QED
  BY <1>1, <1>2, <1>3, <1>4 DEF IInv

\* Receive: a member's command.
LEMMA ReceiveKeeps ==
    ASSUME IInv, NEW c \in ClientCommands, NEW at \in Reading, Receive(c, at)
    PROVE  IInv'
<1> DEFINE n == Len(log) + 1
<1>0. at \in Nat
  BY DEF Reading, IInv, TypeOK
<1>1. c.key \in Keys /\ c.r \in Requests /\ c.kind \in ClientKinds /\ c.expected \in Nat
  BY ReceiptsAssumption DEF Keys
<1>2. /\ log' \in Seq(Receipt)
      /\ DOMAIN log' = DOMAIN log \cup {n}
      /\ \A q \in DOMAIN log : q < n /\ log'[q] = log[q]
      /\ log'[n].r = c.r /\ log'[n].kind = c.kind /\ log'[n].at = at /\ log'[n].outcome = "none"
  BY <1>0, <1>1, ReceivedKeeps DEF IInv, Receive
<1>3. CanReceive(at) /\ UNCHANGED <<now, conv, row, worker, faults>>
  BY DEF Receive
<1>4. TypeOK'
  BY <1>2, <1>3 DEF IInv, TypeOK
<1>5. Ordered'
  BY <1>0, <1>2, <1>3, AppendOrdered DEF IInv
<1>6. Overtaking'
  BY <1>0, <1>1, <1>2, <1>3, AppendOvertaking DEF IInv
<1>7. WorkersBelong'
  BY <1>3 DEF IInv, Scheduling, WorkersBelong
<1>8. c.kind \notin ScheduledKinds
  BY <1>1 DEF ClientKinds, ScheduledKinds
<1>9. Scheduling'
  BY <1>2, <1>3, <1>7, <1>8, AppendScheduling DEF IInv
<1> QED
  BY <1>4, <1>5, <1>6, <1>9 DEF IInv

\* Process: a command applied or refused.
LEMMA ProcessKeeps ==
    ASSUME IInv, NEW p \in DOMAIN log, Process(p)
    PROVE  IInv'
<1> DEFINE m == log[p]
<1>1. OwnerHead(p) /\ UNCHANGED <<now, worker, faults>>
  BY DEF Process, Chosen
<1>2. TypeOK /\ m \in Receipt /\ m.r \in Requests /\ m.at \in Nat
  BY ReceiptFields DEF IInv
<1>3. CASE Applies(m) /\ Resolved(p, "Applied")
  <2>1. /\ log' \in Seq(Receipt) /\ Kept /\ log'[p].outcome = "Applied"
        /\ \A q \in DOMAIN log : q # p => log'[q].outcome = log[q].outcome
    BY <1>2, <1>3, ResolvedKeeps
  <2>2. /\ conv' \in [Requests -> Conversation] /\ row' \in [Requests -> Row]
        /\ OthersStay(m.r) /\ Moves(m.r, m.at)
    BY <1>2, <1>3, AppliesMoves
  <2>3. TypeOK'
    BY <1>1, <2>1, <2>2 DEF IInv, TypeOK
  <2>4. Ordered'
    BY <1>1, <2>1, KeptOrdered DEF IInv
  <2>5. Overtaking'
    BY <1>1, <2>1, <2>2, AppliedOvertaking DEF IInv
  <2>6. AllMove
    <3> SUFFICES ASSUME NEW s \in Requests PROVE \E at \in Nat : Moves(s, at)
      BY DEF AllMove
    <3>1. CASE s = m.r
      BY <1>2, <2>2, <3>1
    <3>2. CASE s # m.r
      <4>1. Moves(s, 0)
        BY <2>2, <3>2 DEF OthersStay, Moves, Same
      <4> QED
        BY <4>1
    <3> QED
      BY <3>1, <3>2
  <2>7. \A q \in DOMAIN log : log[q].kind \in ScheduledKinds => log'[q].outcome # "Refused"
    BY <2>1 DEF IInv, Scheduling, ScheduledNeverRefused
  <2>8. Scheduling'
    BY <1>1, <2>1, <2>6, <2>7, MovesScheduling DEF IInv
  <2> QED
    BY <2>3, <2>4, <2>5, <2>8 DEF IInv
<1>4. CASE Refusable(m) /\ Resolved(p, "Refused") /\ UNCHANGED <<conv, row>>
  <2>1. /\ log' \in Seq(Receipt) /\ Kept /\ log'[p].outcome = "Refused"
        /\ \A q \in DOMAIN log : q # p => log'[q].outcome = log[q].outcome
    BY <1>2, <1>4, ResolvedKeeps
  <2>2. TypeOK'
    BY <1>1, <1>4, <2>1 DEF IInv, TypeOK
  <2>3. Ordered'
    BY <1>1, <2>1, KeptOrdered DEF IInv
  <2>4. Overtaking'
    BY <1>4, <2>1, KeptOvertaking DEF IInv
  <2>5. AllMove
    BY <1>4, StayMoves DEF Same
  <2>6. m.kind \notin ScheduledKinds
    <3>1. m.kind \in ScheduledKinds => Fits(m, conv[m.r])
      BY DEF IInv, Scheduling, ScheduledFit
    <3>2. conv[m.r].life \in Life
      BY <1>2, ReceiptFields, ConversationFields
    <3> QED
      BY <1>4, <3>1, <3>2 DEF Refusable, Fits, TimeoutApplies, ExpiryApplies, ScheduledKinds,
                              ClientKinds, Terminal
  <2>7. \A q \in DOMAIN log : log[q].kind \in ScheduledKinds => log'[q].outcome # "Refused"
    BY <2>1, <2>6 DEF IInv, Scheduling, ScheduledNeverRefused
  <2>8. Scheduling'
    BY <1>1, <2>1, <2>5, <2>7, MovesScheduling DEF IInv
  <2> QED
    BY <2>2, <2>3, <2>4, <2>8 DEF IInv
<1> QED
  BY <1>3, <1>4 DEF Process

\* What WorkersBelong says of one worker.
Belongs(W, C) ==
    /\ W.kind \in ScheduledKinds
    /\ Due([kind |-> W.kind, due |-> W.due], W.at)
    /\ BelongsTo(W.kind, W.due, C)
    /\ W.step = "receive" /\ C.life = LifeOf(W.kind) => W.expected = C.version

\* One worker changes; it is idle or still belongs to its conversation.
LEMMA OneWorkerBelongs ==
    ASSUME IInv, NEW w \in Workers, NEW W \in Worker, worker' = [worker EXCEPT ![w] = W],
           UNCHANGED conv, W.step # "idle" => W.r \in Requests /\ Belongs(W, conv[W.r])
    PROVE  worker' \in [Workers -> Worker] /\ WorkersBelong'
<1>1. worker \in [Workers -> Worker]
  BY DEF IInv, TypeOK
<1>2. worker' \in [Workers -> Worker] /\ worker'[w] = W
      /\ \A v \in Workers : v # w => worker'[v] = worker[v]
  BY <1>1
<1>3. ASSUME NEW v \in Workers, worker'[v].step # "idle"
      PROVE  worker'[v].r \in Requests /\ Belongs(worker'[v], conv[worker'[v].r])
  <2>1. CASE v = w
    BY <1>2, <1>3, <2>1
  <2>2. CASE v # w
    BY <1>2, <1>3, <2>2 DEF IInv, Scheduling, WorkersBelong, Belongs
  <2> QED
    BY <2>1, <2>2
<1>4. WorkersBelong'
  BY <1>3 DEF WorkersBelong, Belongs
<1> QED
  BY <1>2, <1>4

\* The idle worker is a worker.
LEMMA IdleTyped == IdleWorker \in Worker /\ IdleWorker.step = "idle"
BY DEF IdleWorker, Worker

\* The fields of a worker at work.
LEMMA WorkerFields ==
    ASSUME IInv, NEW w \in Workers, worker[w].step # "idle"
    PROVE  /\ worker[w] \in Worker /\ worker[w].r \in Requests
           /\ Belongs(worker[w], conv[worker[w].r])
           /\ worker[w].at \in Nat /\ worker[w].due \in Nat /\ worker[w].expected \in Nat
           /\ conv[worker[w].r] \in Conversation
<1>1. worker[w] \in Worker
  BY DEF IInv, TypeOK
<1>2. worker[w].r \in Requests /\ Belongs(worker[w], conv[worker[w].r])
  BY DEF IInv, Scheduling, WorkersBelong, Belongs
<1>3. conv[worker[w].r] \in Conversation
  BY <1>2 DEF IInv, TypeOK
<1> QED
  BY <1>1, <1>2, <1>3 DEF Worker

\* A crash, or an error return, of a worker.
LEMMA IdleKeeps ==
    ASSUME IInv, NEW w \in Workers, worker' = [worker EXCEPT ![w] = IdleWorker],
           UNCHANGED <<now, log, conv, row>>, faults' \in Nat
    PROVE  IInv'
<1>1. worker' \in [Workers -> Worker] /\ WorkersBelong'
  BY IdleTyped, OneWorkerBelongs
<1>2. now' \in Nat /\ row' \in [Requests -> Row]
  BY DEF IInv, TypeOK
<1>3. RowsBelong'
  BY DEF IInv, Scheduling, RowsBelong
<1> QED
  BY <1>1, <1>2, <1>3, WorkerStepKeeps

\* Claim: the row belongs to its conversation, and so does the worker that takes it.
LEMMA ClaimKeeps ==
    ASSUME IInv, NEW w \in Workers, NEW r \in Requests, NEW at \in Reading, Claim(w, r, at)
    PROVE  IInv'
<1> DEFINE W == [step |-> "validate", r |-> r, kind |-> row[r].kind, due |-> row[r].due,
                 at |-> at, expected |-> 0]
           R == [row[r] EXCEPT !.holder = w]
<1>1. /\ now \in Nat /\ faults \in Nat /\ row \in [Requests -> Row] /\ row[r] \in Row
  BY DEF IInv, TypeOK
<1>2. row[r].kind \in ScheduledKinds /\ row[r].due \in Nat /\ at \in Nat
  BY <1>1 DEF Row, Reading, Claim
<1>3. W \in Worker /\ W.r = r /\ W.kind = row[r].kind /\ W.due = row[r].due /\ W.at = at
      /\ W.step = "validate"
  BY <1>2 DEF Worker
<1>4. R \in Row /\ R.kind = row[r].kind /\ R.due = row[r].due
  BY <1>1 DEF Row
<1>5. worker' = [worker EXCEPT ![w] = W] /\ row' = [row EXCEPT ![r] = R] /\ UNCHANGED <<now, log, conv>>
  BY <1>1 DEF Claim
<1>6. Due([kind |-> row[r].kind, due |-> row[r].due], at)
  BY DEF Claim, Due
<1>7. BelongsTo(row[r].kind, row[r].due, conv[r])
  BY <1>2 DEF IInv, Scheduling, RowsBelong
<1>8. faults' \in Nat
  BY <1>1 DEF Claim, Fault
<1> HIDE DEF W, R
<1>9. Belongs(W, conv[r])
  BY <1>2, <1>3, <1>6, <1>7 DEF Belongs
<1>10. worker' \in [Workers -> Worker] /\ WorkersBelong'
  BY <1>3, <1>5, <1>9, OneWorkerBelongs
<1>11. row' \in [Requests -> Row] /\ row'[r] = R /\ \A s \in Requests : s # r => row'[s] = row[s]
  BY <1>1, <1>4, <1>5
<1>12. RowsBelong'
  BY <1>4, <1>5, <1>11 DEF IInv, Scheduling, RowsBelong
<1> QED
  BY <1>1, <1>5, <1>8, <1>10, <1>11, <1>12, WorkerStepKeeps

\* Validate and Snapshot: the worker goes on, or gives up.
LEMMA ReadKeeps ==
    ASSUME IInv, NEW w \in Workers, Validate(w) \/ Snapshot(w)
    PROVE  IInv'
<1> DEFINE V == worker[w]
           C == conv[V.r]
<1>1. V.step # "idle" /\ UNCHANGED <<now, log, conv, row, faults>> /\ faults' \in Nat
  BY DEF Validate, Snapshot, IInv, TypeOK
<1>2. V \in Worker /\ V.r \in Requests /\ Belongs(V, C) /\ C \in Conversation
  BY <1>1, WorkerFields
<1>3. C.version \in Nat
  BY <1>2, ConversationFields
<1>4. worker' \in [Workers -> Worker] /\ WorkersBelong'
  <2>1. CASE Validate(w) /\ HoldsClaim(w)
    <3> DEFINE W == [V EXCEPT !.step = "snapshot"]
    <3>1. worker' = [worker EXCEPT ![w] = W]
      BY <2>1 DEF Validate
    <3>2. W \in Worker /\ W.r = V.r /\ W.kind = V.kind /\ W.due = V.due /\ W.at = V.at
          /\ W.step = "snapshot"
      BY <1>2 DEF Worker
    <3> HIDE DEF W
    <3>3. Belongs(W, C)
      BY <1>2, <3>2 DEF Belongs
    <3>4. W.r \in Requests /\ Belongs(W, conv[W.r])
      BY <1>2, <3>2, <3>3
    <3> QED
      BY <1>1, <3>1, <3>2, <3>4, OneWorkerBelongs
  <2>2. CASE Validate(w) /\ ~HoldsClaim(w)
    BY <1>1, <2>2, IdleTyped, OneWorkerBelongs DEF Validate
  <2>3. CASE Snapshot(w) /\ C.life = LifeOf(V.kind)
    <3> DEFINE W == [V EXCEPT !.step = "receive", !.expected = C.version]
    <3>1. worker' = [worker EXCEPT ![w] = W]
      BY <2>3 DEF Snapshot
    <3>2. W \in Worker /\ W.r = V.r /\ W.kind = V.kind /\ W.due = V.due /\ W.at = V.at
          /\ W.expected = C.version
      BY <1>2, <1>3 DEF Worker
    <3> HIDE DEF W
    <3>3. Belongs(W, C)
      BY <1>2, <3>2 DEF Belongs
    <3>4. W.r \in Requests /\ Belongs(W, conv[W.r])
      BY <1>2, <3>2, <3>3
    <3> QED
      BY <1>1, <3>1, <3>2, <3>4, OneWorkerBelongs
  <2>4. CASE Snapshot(w) /\ C.life # LifeOf(V.kind)
    <3> DEFINE W == [V EXCEPT !.step = "complete"]
    <3>1. worker' = [worker EXCEPT ![w] = W]
      BY <2>4 DEF Snapshot
    <3>2. W \in Worker /\ W.r = V.r /\ W.kind = V.kind /\ W.due = V.due /\ W.at = V.at
          /\ W.step = "complete"
      BY <1>2 DEF Worker
    <3> HIDE DEF W
    <3>3. Belongs(W, C)
      BY <1>2, <3>2 DEF Belongs
    <3>4. W.r \in Requests /\ Belongs(W, conv[W.r])
      BY <1>2, <3>2, <3>3
    <3> QED
      BY <1>1, <3>1, <3>2, <3>4, OneWorkerBelongs
  <2> QED
    BY <2>1, <2>2, <2>3, <2>4
<1>5. now' \in Nat /\ row' \in [Requests -> Row]
  BY <1>1 DEF IInv, TypeOK
<1>6. RowsBelong'
  BY <1>1 DEF IInv, Scheduling, RowsBelong
<1> QED
  BY <1>1, <1>4, <1>5, <1>6, WorkerStepKeeps

\* Complete: at most the row disappears.
LEMMA CompleteKeeps ==
    ASSUME IInv, NEW w \in Workers, Complete(w)
    PROVE  IInv'
<1> DEFINE r == worker[w].r
<1>1. worker[w].step # "idle" /\ UNCHANGED <<now, log, conv, faults>>
      /\ worker' = [worker EXCEPT ![w] = IdleWorker]
      /\ (row' = row \/ row' = [row EXCEPT ![r] = NoRow])
  BY DEF Complete
<1>2. worker' \in [Workers -> Worker] /\ WorkersBelong'
  BY <1>1, IdleTyped, OneWorkerBelongs
<1>3. r \in Requests /\ row \in [Requests -> Row] /\ now' \in Nat /\ faults' \in Nat
  BY <1>1, WorkerFields DEF IInv, TypeOK
<1>4. NoRow \in Row /\ NoRow.kind \notin ScheduledKinds
  BY TaskTyped DEF NoRow, Task, ScheduledKinds
<1>5. row' \in [Requests -> Row] /\ \A s \in Requests : row'[s] = row[s] \/ row'[s] = NoRow
  BY <1>1, <1>3, <1>4
<1>6. RowsBelong'
  BY <1>1, <1>4, <1>5 DEF IInv, Scheduling, RowsBelong
<1> QED
  BY <1>1, <1>2, <1>3, <1>5, <1>6, WorkerStepKeeps

\* ReceiveScheduled: the command fits, because the task was due and the version
\* was read from a conversation that still has it.
LEMMA ReceiveScheduledKeeps ==
    ASSUME IInv, NEW w \in Workers, ReceiveScheduled(w)
    PROVE  IInv'
<1> DEFINE W == worker[w]
           C == conv[W.r]
           c == [key |-> <<W.kind, W.r>>, r |-> W.r, kind |-> W.kind, expected |-> W.expected]
           n == Len(log) + 1
<1>1. W.step = "receive" /\ UNCHANGED <<now, conv, row, faults>>
      /\ worker' = [worker EXCEPT ![w] = IdleWorker]
  BY DEF ReceiveScheduled
<1>2. W.r \in Requests /\ Belongs(W, C) /\ W.at \in Nat /\ W.due \in Nat /\ W.expected \in Nat
      /\ C \in Conversation
  BY <1>1, WorkerFields
<1>3. CASE log' = log
  BY <1>1, <1>3, IdleKeeps DEF IInv, TypeOK
<1>4. CASE CanReceive(W.at) /\ log' = Received(c, W.at)
  <2>1. c.key \in Keys /\ c.r \in Requests /\ c.kind \in ScheduledKinds /\ c.expected \in Nat
    BY <1>2 DEF Belongs, Keys
  <2>2. c.r = W.r /\ c.kind = W.kind /\ c.expected = W.expected
    OBVIOUS
  <2> HIDE DEF c
  <2>3. /\ log' \in Seq(Receipt)
        /\ DOMAIN log' = DOMAIN log \cup {n}
        /\ \A q \in DOMAIN log : q < n /\ log'[q] = log[q]
        /\ log'[n].r = W.r /\ log'[n].kind = W.kind /\ log'[n].expected = W.expected
        /\ log'[n].at = W.at /\ log'[n].outcome = "none"
    BY <1>2, <1>4, <2>1, <2>2, ReceivedKeeps DEF IInv
  <2>4. worker' \in [Workers -> Worker] /\ WorkersBelong'
    BY <1>1, IdleTyped, OneWorkerBelongs
  <2>5. TypeOK'
    BY <1>1, <2>3, <2>4 DEF IInv, TypeOK
  <2>6. Ordered'
    BY <1>2, <1>4, <2>3, AppendOrdered DEF IInv
  <2>7. Overtaking'
    BY <1>1, <1>2, <1>4, <2>3, AppendOvertaking DEF IInv
  <2>8. Fits(log'[n], C)
    <3>1. C.deadline \in Nat
      BY <1>2, ConversationFields
    <3>2. CASE W.kind = "timeout"
      <4>1. W.due <= W.at
        BY <1>2, <3>2 DEF Belongs, Due
      <4>2. C.life # "none" /\ (C.life = "preparing" => C.deadline = W.due /\ W.expected = C.version)
        BY <1>1, <1>2, <3>2 DEF Belongs, BelongsTo, LifeOf
      <4> QED
        BY <1>2, <2>3, <3>1, <3>2, <4>1, <4>2 DEF Fits
    <3>3. CASE W.kind = "expire"
      <4>1. W.due < W.at
        BY <1>2, <3>3 DEF Belongs, Due
      <4>2. C.life \notin {"none", "preparing"}
            /\ (C.life = "awaiting" => C.deadline = W.due /\ W.expected = C.version)
        BY <1>1, <1>2, <3>3 DEF Belongs, BelongsTo, LifeOf
      <4> QED
        BY <1>2, <2>3, <3>1, <3>3, <4>1, <4>2 DEF Fits
    <3> QED
      BY <1>2, <3>2, <3>3 DEF Belongs, ScheduledKinds
  <2>9. Scheduling'
    BY <1>1, <2>3, <2>4, <2>8, AppendScheduling DEF IInv
  <2> QED
    BY <2>5, <2>6, <2>7, <2>9 DEF IInv
<1> QED
  BY <1>3, <1>4 DEF ReceiveScheduled

\* Every step keeps the invariant.
LEMMA StepKeeps ==
    ASSUME IInv, [Next]_vars
    PROVE  IInv'
<1>0. now \in Nat /\ faults \in Nat /\ row \in [Requests -> Row] /\ worker \in [Workers -> Worker]
      /\ RowsBelong /\ WorkersBelong
  BY DEF IInv, TypeOK, Scheduling
<1>1. CASE Tick \/ UNCHANGED vars
  <2>1. UNCHANGED <<log, conv, row, worker, faults>> /\ now' \in Nat
    BY <1>0, <1>1 DEF Tick, vars
  <2>2. RowsBelong' /\ WorkersBelong'
    BY <1>0, <2>1 DEF RowsBelong, WorkersBelong
  <2> QED
    BY <1>0, <2>1, <2>2, WorkerStepKeeps
<1>2. ASSUME NEW c \in ClientCommands, NEW at \in Reading, Receive(c, at) PROVE IInv'
  BY <1>2, ReceiveKeeps
<1>3. ASSUME NEW p \in DOMAIN log, Process(p) PROVE IInv'
  BY <1>3, ProcessKeeps
<1>4. ASSUME NEW p \in DOMAIN log, ProcessFailing(p) PROVE IInv'
  <2>1. PICK f \in Failure : log' = [log EXCEPT ![p].failure = f]
    BY <1>4 DEF ProcessFailing, Failure
  <2>2. UNCHANGED <<now, conv, row, worker>> /\ faults' \in Nat
    BY <1>0, <1>4 DEF ProcessFailing, Fault
  <2> QED
    BY <2>1, <2>2, FailureStep
<1>5. ASSUME NEW p \in DOMAIN log, ResumeCommand(p) PROVE IInv'
  <2>1. log' = [log EXCEPT ![p].failure = "none"] /\ UNCHANGED <<now, conv, row, worker>> /\ faults' \in Nat
    BY <1>0, <1>5 DEF ResumeCommand
  <2> QED
    BY <2>1, FailureStep DEF Failure
<1>6. ASSUME NEW r \in Requests, SignQuote(r) \/ ResumeSigning(r) PROVE IInv'
  <2>1. PICK q \in {"unsigned", "signed", "blocked"} : conv' = [conv EXCEPT ![r].quote = q]
    BY <1>6 DEF SignQuote, ResumeSigning
  <2>2. UNCHANGED <<now, log, row, worker>> /\ faults' \in Nat
    BY <1>0, <1>6 DEF SignQuote, ResumeSigning, Fault
  <2> QED
    BY <2>1, <2>2, QuoteStep
<1>7. ASSUME NEW w \in Workers, NEW r \in Requests, NEW at \in Reading, Claim(w, r, at) PROVE IInv'
  BY <1>7, ClaimKeeps
<1>8. ASSUME NEW w \in Workers, WorkerStep(w) PROVE IInv'
  BY <1>8, ReadKeeps, CompleteKeeps, ReceiveScheduledKeeps DEF WorkerStep
<1>9. ASSUME NEW w \in Workers, Crash(w) PROVE IInv'
  <2>1. UNCHANGED <<now, log, conv, row>> /\ worker' = [worker EXCEPT ![w] = IdleWorker] /\ faults' \in Nat
    BY <1>0, <1>9 DEF Crash, Fault
  <2> QED
    BY <2>1, IdleKeeps
<1> QED
  BY <1>1, <1>2, <1>3, <1>4, <1>5, <1>6, <1>7, <1>8, <1>9
  DEF Next, System, Operator, ProcessNext, Attempt

\* The empty inbox satisfies the invariant.
LEMMA InitSound == Init => IInv
<1> SUFFICES ASSUME Init PROVE IInv
  OBVIOUS
<1>1. log = << >> /\ DOMAIN log = {} /\ log \in Seq(Receipt)
  BY DEF Init
<1>2. conv \in [Requests -> Conversation]
  BY DEF Init, Conversation, Life
<1>3. row \in [Requests -> Row] /\ \A r \in Requests : row[r].kind = "none"
  BY DEF Init, Row, NoRow, Task
<1>4. worker \in [Workers -> Worker] /\ \A w \in Workers : worker[w].step = "idle"
  BY DEF Init, Worker, IdleWorker
<1>5. TypeOK
  BY <1>1, <1>2, <1>3, <1>4 DEF Init, TypeOK
<1>6. Ordered /\ ScheduledFit /\ ScheduledNeverRefused /\ DecisionsNotOvertaken
  BY <1>1 DEF Ordered, OwnersInOrder, TimesOrdered, ScheduledFit, ScheduledNeverRefused,
              DecisionsNotOvertaken
<1>7. ExpiryReceived
  BY DEF Init, ExpiryReceived
<1>8. RowsBelong /\ WorkersBelong
  BY <1>3, <1>4 DEF RowsBelong, WorkersBelong, ScheduledKinds
<1> QED
  BY <1>5, <1>6, <1>7, <1>8 DEF IInv, Overtaking, Scheduling

\* The invariant holds in every reachable state.
LEMMA AlwaysSound == Spec => []IInv
<1>1. IInv /\ [Next]_vars => IInv'
  BY StepKeeps
<1> QED
  BY <1>1, InitSound, PTL DEF Spec

-----------------------------------------------------------------------------
(***************************************************************************)
(* Theorems.                                                               *)
(***************************************************************************)

\* Inbox, conversations, schedule and workers keep their shape.
THEOREM InboxTypeCorrect == Spec => []TypeOK
<1>1. IInv => TypeOK
  BY DEF IInv
<1> QED
  BY <1>1, AlwaysSound, PTL

\* Commands that share an owner are resolved in the order of their receipt
\* (process_next_received), for any owners and any failures.
THEOREM CommandsInOwnerOrder == Spec => []OwnersInOrder
<1>1. IInv => OwnersInOrder
  BY DEF IInv, Ordered
<1> QED
  BY <1>1, AlwaysSound, PTL

\* No request expires while a decision received within its window is unanswered
\* (record_received, claim_due_schedules, expire_request), for any windows, any
\* number of workers and clocks that are behind by any amount.
THEOREM DeadlineKept == Spec => []DecisionsNotOvertaken
<1>1. IInv => DecisionsNotOvertaken
  BY DEF IInv, Overtaking
<1> QED
  BY <1>1, AlwaysSound, PTL

\* A scheduled command is never refused, so that its only key never answers with
\* a refusal (schedule_idempotency).
THEOREM ScheduleNotPoisoned == Spec => []ScheduledNeverRefused
<1>1. IInv => ScheduledNeverRefused
  BY DEF IInv, Scheduling
<1> QED
  BY <1>1, AlwaysSound, PTL
=============================================================================
