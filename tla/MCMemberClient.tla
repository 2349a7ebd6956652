--------------------------- MODULE MCMemberClient ---------------------------
(***************************************************************************)
(* Instances of MemberClient for TLC.  One run asks about two parts of the *)
(* device, chosen at first: two drafts sent as messages and letters beside *)
(* decisions; and one draft sent with a request or as its follow-up beside *)
(* the account's setup.                                                    *)
(***************************************************************************)
EXTENDS MemberClient, TLC

CONSTANTS d1, d2, q1

VARIABLE part
mcvars == <<vars, part>>

Letters ==
    /\ \A d \in DraftIds : drafts[d] # None => drafts[d].target # "Request"
    /\ \/ \E d \in DraftIds :
            \/ \E t \in {"Unaddressed", "Native", "External"} : OpenDraft(d, t) \/ EditDraft(d, t)
            \/ DiscardDraft(d) \/ ChooseDraft(d)
       \/ AbandonChoice
       \/ /\ Len(commands) < 3
          /\ \/ \E new \in BOOLEAN : SendMessage(new)
             \/ SendLetter \/ Decide \/ ControlExternal
       \/ Resume \/ Provider

Request ==
    \/ \E t \in {"Request", "Followup"} : OpenDraft(d1, t) \/ EditDraft(d1, t)
    \/ DiscardDraft(d1) \/ ChooseDraft(d1) \/ AbandonChoice
    \/ \E r \in Requests : QuoteRequest(r) \/ SendFollowup(r)
    \/ AuthorizeRequest \/ CancelRequest
    \/ SetUp \/ EditConversation
    \/ Resume \/ Provider

MCInit == Init /\ part \in {"letters", "requests"}
MCNext ==
    /\ UNCHANGED part
    /\ \/ part = "letters" /\ Letters
       \/ part = "requests" /\ Request
MCSpec == MCInit /\ [][MCNext]_mcvars /\ Fairness
=============================================================================
