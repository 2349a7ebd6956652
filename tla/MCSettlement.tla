----------------------------- MODULE MCSettlement -----------------------------
(***************************************************************************)
(* The instance of Settlement for TLC.  One run asks about two parts of    *)
(* it, chosen at first: two aliases of one sender, whose requests count in *)
(* one history, over three days; and the two directions between two        *)
(* members, over two, each deciding about the other.                       *)
(***************************************************************************)
EXTENDS Settlement, TLC

CONSTANTS r1, r2, e1, q1, q2, x1, x2, y1, y2, h1, h2, h3

Aliases == {x1, x2}
Pair == {y1, y2}

MCHistoryOf == [x \in Relationships |-> CASE x = y1 -> h2 [] x = y2 -> h3 [] OTHER -> h1]
MCOpposite == [x \in Relationships |-> CASE x = y1 -> y2 [] x = y2 -> y1 [] OTHER -> NoOpposite]

\* Charge and collateral of one unit each.
UnitCharge == [r \in Requests |-> 1]
UnitCollateral == [r \in Requests |-> 1]

\* No wait before the first request; one unit after it.
OneBackoff == <<0, 1>>

\* How often each recipient decides.
MCMaxVersion == [x \in Relationships |-> IF x = y2 THEN 3 ELSE 1]

\* Neither the aliases of one sender nor the identifiers tell anything apart.
AliasSymmetry ==
    Permutations(Requests) \cup Permutations(QuoteIds) \cup Permutations(Aliases)

-----------------------------------------------------------------------------

VARIABLE part
mcvars == <<vars, part>>

Decided(x) == Accept(x, FALSE) \/ Reject(x) \/ Block(x) \/ Revoke(x)

\* What only another direction between the same members makes of interest.
Opened(x) ==
    \/ \E granted \in BOOLEAN : GrantLane(x, granted)
    \/ Accept(x, TRUE) \/ Unblock(x)

Resolved(r) ==
    \/ \E refused \in BOOLEAN : SubmitFailing(r, refused)
    \/ CancelRequest(r) \/ ExpireRequest(r) \/ RunTask(r)
    \/ \E e \in PaymentEvidence : e.outcome \in {"Settled", "Voided"} /\ ConfirmPayment(r, e)

Quoted(x) == \E q \in QuoteIds : IssueTerms(x, q)

Asked ==
    \E r \in Requests : Submit(r) \/ \E q \in QuoteIds : CreateRequest(r, q)

MCInit == Init /\ part \in {"aliases", "pair"}
MCNext ==
    /\ UNCHANGED part
    /\ \/ \E r \in Requests : Resolved(r)
       \/ part = "aliases" /\ (Tick \/ Asked \/ \E x \in Aliases : Decided(x) \/ Quoted(x))
       \/ part = "pair" /\ \E x \in Pair : Decided(x) \/ Opened(x)
       \/ part = "pair" /\ now = 0 /\ (Tick \/ Asked \/ \E x \in Pair : Quoted(x))
MCSpec == MCInit /\ [][MCNext]_mcvars
=============================================================================
