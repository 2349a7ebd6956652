--------------------------- MODULE MCExternalEmail ---------------------------
(***************************************************************************)
(* Instances of ExternalEmail for TLC.  One run asks two questions of it,  *)
(* each about a part of the system, chosen at first: the letters two       *)
(* workers submit while the member writes, withdraws and reads; and the    *)
(* mails two sessions receive while the member decides.                    *)
(***************************************************************************)
EXTENDS ExternalEmail, TLC

CONSTANTS k1, k2, m1, m2, i1, i2, e1, w1, w2, s1, s2

\* both messages are in the conversation the member starts; i1 replies to it
\* and i2, sent to the address, begins the other
MCInConversation == [m \in Outgoing |-> k1]
MCThread == [i \in Mails |-> IF i = i1 THEN k1 ELSE k2]

VARIABLE part
mcvars == <<vars, part>>

LettersNext ==
    \/ Cover \/ Decide("Blocked") \/ Command
    \/ \E w \in Workers : Worker(w)
    \/ Report \/ Client

RepliesNext ==
    \/ Decision \/ Start(m1) \/ RejectInvitation(k1)
    \/ (\E s \in Sessions : Receiver(s)) \/ NextDay
    \/ (Worker(w1) /\ worker'[w1].letter # Message(m1)) \/ Report

\* The letters know nothing of the address's policy.
MCInit == Init /\ part \in {"letters", "replies"} /\ (part = "letters" => address.policy = "Bonded")
MCNext ==
    /\ UNCHANGED part
    /\ \/ part = "letters" /\ LettersNext
       \/ part = "replies" /\ RepliesNext

\* No fair behaviour leaves the workers and the client out: what must happen
\* is asked of the letters alone.
MCSpec == MCInit /\ [][MCNext]_mcvars /\ Fairness
=============================================================================
