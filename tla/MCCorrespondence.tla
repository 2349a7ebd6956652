-------------------------- MODULE MCCorrespondence --------------------------
(***************************************************************************)
(* Instances of Correspondence for TLC.  One run asks two questions, each  *)
(* about a part of the system, chosen at first: how two members who have   *)
(* never met come to write to each other; and what three who have may do   *)
(* with their addresses and their messages.                                *)
(***************************************************************************)
EXTENDS Correspondence, TLC

CONSTANTS ann, bob, cat, a1, b1, b2, b3, c1, k1, k2, k3

MCOwnerOf == [x \in AliasIds |-> CASE x = a1 -> ann [] x = c1 -> cat [] OTHER -> bob]
MCPolicyOf == [x \in AliasIds |-> IF x \in {b2, b3} THEN "AliasScoped" ELSE "Bonded"]

AnnToBob == {<<ann, bob>>}
BothWays == {<<ann, bob>>, <<bob, ann>>}
AnnsContacts == {<<ann, bob>>, <<bob, ann>>, <<ann, cat>>}
NeverMetOrMet == {{}, {<<ann, bob>>, <<ann, cat>>}}

NoneBegun == <<>>
TwoBegun == [k \in {k2, k3} |-> IF k = k2 THEN {ann, bob} ELSE {ann, cat}]

FollowupCommands == {"Submit", "Followup", "Block", "Unblock", "Revoke"}
AllCommands ==
    {"Grant", "Control", "Block", "Unblock", "Revoke", "Free", "Submit", "Followup",
     "Scope", "Permission", "Create", "Policy", "Accept", "Reject", "Expire", "NewAlias",
     "Restrict", "Replace", "Retire", "Approve"}

-----------------------------------------------------------------------------

VARIABLE part
mcvars == <<vars, part>>

MetBefore == \E d \in Directions : rel[d].state = "Accepted"

MCInit == Init /\ part = IF MetBefore THEN "content" ELSE "contact"

\* Ann and Bob, an address each and a conversation
Contact ==
    /\ \/ Tick
       \/ \E d \in BothWays :
            \/ ApplyGrant(d) \/ ReconfirmLane(d) \/ ControlRevoke(d)
            \/ ClaimSchedule(d) \/ LaneHorizon(d)
            \/ Block(d) \/ Revoke(d) \/ Unblock(d) \/ ScopeSender(d)
       \/ ChangePermission(b1)
       \/ /\ Len(msg) < 2
          /\ \/ \E d \in BothWays : \/ ApplyFree(d) \/ SendFollowup(d)
                                     \/ \E a \in {a1, b1} : SubmitRequest(d, a, k1)
             \/ \E a \in {a1, b1}, s \in {ann, bob} : Send(s, a, k1)
    /\ \A d \in BothWays : scope'[d] # None => scope'[d].aliases \subseteq {a1, b1}
    /\ \A p \in alias'[b1].permission.lanes : p.sender = ann

\* all of them, Bob's other addresses, and no lanes
Content ==
    /\ \/ now < 1 /\ Tick
       \/ /\ commands < 2
          /\ \/ \E d \in Directions :
                  \/ Accept(d) \/ Reject(d) \/ RequestExpires(d)
                  \/ \E k \in Conversations : CreateConversation(d, k)
                  \/ \E a \in AliasIds \ {b1}, k \in Conversations : SubmitRequest(d, a, k)
             \/ \E a \in {b2, b3} :
                  \/ NewAlias(a) \/ RestrictAddress(a) \/ Retire(a)
                  \/ ChangePermission(a) /\ alias'[a].permission.lanes = {}
                  \/ \E b \in AliasIds : Replace(a, b)
                  \/ \E s \in Members, k \in Conversations : Approve(a, s, k)
             \/ \E p \in Members, k \in Conversations : ChangePolicy(p, k)
       \/ \E a \in AliasIds \ {b1}, s \in Members, k \in Conversations : Send(s, a, k)
    /\ \A a \in {b2, b3} : alias'[a] # None => alias'[a].until <= 2

MCNext ==
    /\ UNCHANGED part
    /\ \/ part = "contact" /\ Contact
       \/ part = "content" /\ Content

MCSpec == MCInit /\ [][MCNext]_mcvars

\* All of it, for the run that looks at follow-ups.
FollowupsSpec == MCInit /\ [][Next /\ UNCHANGED part]_mcvars
=============================================================================
