----------------------------- MODULE MCReceipts -----------------------------
(***************************************************************************)
(* Instances of Receipts for TLC.                                          *)
(***************************************************************************)
EXTENDS Receipts, TLC

CONSTANTS r1, r2, r3, w1, w2, o1, o2, kq, kc, ks, kd, ke

\* Every request has owners of its own.
OwnOwners == [r \in Requests |-> IF r = r1 THEN {o1} ELSE {o2}]

\* The second request shares one owner with each of the others.
ChainedOwners == (r1 :> {o1}) @@ (r2 :> {o1, o2}) @@ (r3 :> {o2})

Command(key, r, kind, expected) == [key |-> key, r |-> r, kind |-> kind, expected |-> expected]

\* A request from its quote to a decision, and a second one that follows it or is
\* too early.
WholeRequest ==
    { Command(kq, r1, "quote", 0), Command(kc, r1, "create", 0), Command(ks, r1, "submit", 0),
      Command(kd, r1, "decide", 0), Command(ke, r1, "decide", 1) }

\* With the first of them only.
OneDecision == {c \in WholeRequest : c.key # ke}

\* Senders that ask for a quote and use it.
Senders == UNION {{Command(kq, r, "quote", 0), Command(kc, r, "create", 0)} : r \in Requests}

WorkerSymmetry == Permutations(Workers)
=============================================================================
