---------------------------- MODULE MemberClient ----------------------------
(***************************************************************************)
(* A member's device: the journal of signed commands and the writing they  *)
(* carry.                                                                  *)
(*                                                                         *)
(* Every operation signs its command, saves it in the encrypted device     *)
(* state and only then transmits it; whatever interrupts it (no answer, a  *)
(* lost answer, the process ended) leaves the same bytes to be sent again  *)
(* by `sync` or `retry`, and the provider answers a command it has already *)
(* seen as it did the first time.  So a transmission is one action of the  *)
(* provider (Serve) and one of the device that learns the answer and saves *)
(* what follows from it; an interruption is any time that passes between.  *)
(* Operations exclude each other (the operation lock) and start only when  *)
(* no command is unresolved; writing is edited beside them under a lock of *)
(* its own, so a draft may change after it was chosen for submission.      *)
(*                                                                         *)
(* Encryption, documents, keys, what synchronization fetches and what the  *)
(* views show are left out.  Of the provider's rules the module keeps the  *)
(* lifecycle of the member's own requests; any command may be refused.     *)
(***************************************************************************)
EXTENDS Integers, FiniteSets, Sequences

CONSTANTS
    None,
    DraftIds,       \* identities of local writing
    Requests,       \* identities of requests the member may form
    Kinds,          \* the addressing a draft may be opened with
    Controls,       \* the slots of commands that carry no writing in use
    MaxWriting,     \* 256 drafts, the submitted one included
    MaxRevision,    \* bound: revision up to which a draft is edited or submitted
    MaxCommands     \* bound: commands ever signed

ASSUME ClientConstants ==
    /\ Kinds \subseteq {"Unaddressed", "Native", "External", "Request", "Followup"}
    /\ Controls \subseteq {"external", "editing", "pending", "setup"}
    /\ MaxWriting \in Nat \ {0} /\ MaxRevision \in Nat \ {0} /\ MaxCommands \in Nat

\* Revisions of a draft, the writing a command carries, the writing submitted,
\* and a native message being sent with the conversation it may begin.
Draft == [revision : Nat, target : Kinds]
Writing == [id : DraftIds, revision : Nat]
Submission == [id : DraftIds, revision : Nat, target : Kinds]
Sending == [create : Nat \cup {None}, send : Nat]

\* An absent value is none of the values that may be present.
ASSUME NoneIsAbsence ==
    /\ None \notin Nat /\ None \notin Draft /\ None \notin Writing
    /\ None \notin Submission /\ None \notin Sending

VARIABLES
    drafts,         \* editable writing: its revision and target, None when absent
    submitted,      \* the writing the journaled command carries
    written,        \* "New", "Kept" or "Discarded": what the member did with it
    chosen,         \* the draft submit_draft read before it took the operation lock
    requesting,     \* the request or follow-up being formed
    last_request,   \* how the last one ended
    sending,        \* the native message being sent and its new conversation
    slots,          \* the other journaled commands
    work,           \* the record of outgoing messages
    commands,       \* every command signed, with the provider's answer
    lifecycle, funded  \* the provider's view of the member's requests

device == <<drafts, submitted, requesting, last_request, sending, slots, work>>
vars == <<device, written, chosen, commands, lifecycle, funded>>

Slots == {"external", "editing", "pending", "setup"}
Ops == 1..MaxCommands

NoJourney == [kind |-> "None"]

(***************************************************************************)
(* Signed commands.                                                        *)
(***************************************************************************)

Command(kind, request, writing) ==
    [kind |-> kind, request |-> request, writing |-> writing, answer |-> "None"]

\* Operation identities are fresh, so the next command is the next number.
NextOp == Len(commands) + 1
Room(n) == Len(commands) + n <= MaxCommands

Answer(o) == commands[o].answer

\* The command a request in preparation waits for.
JourneyOp == IF requesting = NoJourney THEN None ELSE requesting.op

\* No operation starts while a command is unresolved.
Idle ==
    /\ requesting = NoJourney
    /\ sending = None
    /\ \A s \in Slots : slots[s] = None

(***************************************************************************)
(* Local writing.                                                          *)
(***************************************************************************)

\* Identities in the workspace, of the submitted writing too.
InWorkspace ==
    {d \in DraftIds : drafts[d] # None}
        \cup (IF submitted = None THEN {} ELSE {submitted.id})

EditableRecipient(target) == target \in {"Unaddressed", "Native", "External"}

OpenDraft(d, target) ==
    /\ written[d] = "New"
    /\ Cardinality(InWorkspace) < MaxWriting
    /\ drafts' = [drafts EXCEPT ![d] = [revision |-> 1, target |-> target]]
    /\ written' = [written EXCEPT ![d] = "Kept"]
    /\ UNCHANGED <<submitted, chosen, requesting, last_request, sending, slots, work,
                   commands, lifecycle, funded>>

\* One more revision, with the same recipient or, where it may be edited, another.
EditDraft(d, target) ==
    /\ drafts[d] # None
    /\ \/ target = drafts[d].target
       \/ EditableRecipient(drafts[d].target) /\ EditableRecipient(target)
    /\ drafts[d].revision < MaxRevision
    /\ drafts' = [drafts EXCEPT ![d] =
                    [revision |-> drafts[d].revision + 1, target |-> target]]
    /\ UNCHANGED <<submitted, written, chosen, requesting, last_request, sending, slots,
                   work, commands, lifecycle, funded>>

DiscardDraft(d) ==
    /\ drafts[d] # None
    /\ drafts' = [drafts EXCEPT ![d] = None]
    /\ written' = [written EXCEPT ![d] = "Discarded"]
    /\ UNCHANGED <<submitted, chosen, requesting, last_request, sending, slots, work,
                   commands, lifecycle, funded>>

\* submit_draft reads the writing before it waits for the operation lock.
ChooseDraft(d) ==
    /\ chosen = None
    /\ drafts[d] # None /\ drafts[d].target # "Unaddressed"
    /\ drafts[d].revision <= MaxRevision
    /\ chosen' = [id |-> d, revision |-> drafts[d].revision, target |-> drafts[d].target]
    /\ UNCHANGED <<device, written, commands, lifecycle, funded>>

\* The submission fails before anything is saved, or the process ends.
AbandonChoice ==
    /\ chosen # None
    /\ chosen' = None
    /\ UNCHANGED <<device, written, commands, lifecycle, funded>>

\* The writing of the command about to be journaled: None when it comes from no draft.
Chosen == IF chosen = None THEN None ELSE [id |-> chosen.id, revision |-> chosen.revision]

\* Mutant: any revision of the draft will do.
StillThere == drafts[chosen.id] # None

\* The revision chosen is still the draft's.
StillCurrent ==
    /\ drafts[chosen.id] # None
    /\ drafts[chosen.id].revision = chosen.revision

\* The draft leaves the editor in the transaction that journals the command.
CommitDraft(target) ==
    \/ /\ chosen = None
       /\ UNCHANGED <<drafts, submitted, chosen>>
    \/ /\ chosen # None /\ chosen.target = target
       /\ StillCurrent
       /\ submitted = None
       /\ drafts' = [drafts EXCEPT ![chosen.id] = None]
       /\ submitted' = [id |-> chosen.id, revision |-> drafts[chosen.id].revision,
                         target |-> drafts[chosen.id].target]
       /\ chosen' \in {None, chosen}   \* the member may have submitted it twice

\* The outcome restores the writing for another try, as a later revision, or removes it.
FinishDraft(restore) ==
    /\ submitted' = None
    /\ drafts' = IF submitted # None /\ restore
                 THEN [drafts EXCEPT ![submitted.id] =
                         [revision |-> submitted.revision + 1, target |-> submitted.target]]
                 ELSE drafts

\* One record per outgoing message, opened with its command ...
Prepare(o) == work' = [work EXCEPT ![o] = "AwaitingConfirmation"]

\* ... and closed by the outcome that leaves its slot of the journal empty.
ResolveWork(refused) ==
    LET Resolved(o) ==
            CASE commands[o].kind = "Send" /\ sending' = None ->
                    IF refused THEN "Refused" ELSE "Committed"
              [] commands[o].kind = "Letter" /\ slots'["external"] = None ->
                    IF refused THEN "Refused" ELSE "Queued"
              [] OTHER -> "AwaitingConfirmation"
    IN  work' = [o \in Ops |->
                    IF work[o] = "AwaitingConfirmation" THEN Resolved(o) ELSE work[o]]

(***************************************************************************)
(* Native messages and letters to mailboxes outside.                       *)
(***************************************************************************)

\* A message in a conversation known, or with the command that begins a new one.
SendMessage(new) ==
    /\ Idle
    /\ Room(IF new THEN 2 ELSE 1)
    /\ CommitDraft("Native")
    /\ LET send == Command("Send", None, Chosen)
           create == Command("Conversation", None, None)
           o == IF new THEN NextOp + 1 ELSE NextOp
       IN  /\ commands' = commands \o (IF new THEN <<create, send>> ELSE <<send>>)
           /\ sending' = [create |-> IF new THEN NextOp ELSE None, send |-> o]
           /\ Prepare(o)
    /\ UNCHANGED <<written, requesting, last_request, slots, lifecycle, funded>>

\* The refusal that ends a send is its conversation's or its own.
SendRefused ==
    \/ sending.create # None /\ Answer(sending.create) = "Refused"
    \/ Answer(sending.send) = "Refused"

TransmitSend ==
    /\ sending # None
    /\ SendRefused \/ Answer(sending.send) = "Done"
    /\ sending' = None
    /\ UNCHANGED slots
    /\ FinishDraft(SendRefused)
    /\ ResolveWork(SendRefused)
    /\ UNCHANGED <<written, chosen, requesting, last_request, commands, lifecycle, funded>>

SendLetter ==
    /\ Idle
    /\ Room(1)
    /\ CommitDraft("External")
    /\ commands' = Append(commands, Command("Letter", None, Chosen))
    /\ slots' = [slots EXCEPT !["external"] = NextOp]
    /\ Prepare(NextOp)
    /\ UNCHANGED <<written, requesting, last_request, sending, lifecycle, funded>>

\* Rejecting a guest, withdrawing or granting disclosure share the letters' slot.
TransmitExternal ==
    LET o == slots["external"] IN
    /\ o # None
    /\ Answer(o) # "None"
    /\ slots' = [slots EXCEPT !["external"] = None]
    /\ UNCHANGED sending
    /\ FinishDraft(Answer(o) = "Refused")
    /\ ResolveWork(Answer(o) = "Refused")
    /\ UNCHANGED <<written, chosen, requesting, last_request, commands, lifecycle, funded>>

(***************************************************************************)
(* Commands that carry no writing: a decision or control of a              *)
(* relationship, an edit of a conversation, external controls, and the     *)
(* setup of aliases, directory and service.                                *)
(***************************************************************************)

BeginControl(s) ==
    /\ s \in Controls
    /\ Room(1)
    /\ commands' = Append(commands, Command("Control", None, None))
    /\ slots' = [slots EXCEPT ![s] = NextOp]
    /\ UNCHANGED <<drafts, submitted, written, chosen, requesting, last_request, sending,
                   work, lifecycle, funded>>

\* A request is decided, a lane granted, a relationship controlled.
Decide == Idle /\ BeginControl("pending")

\* The policy of a conversation is changed, or copies of it are deleted.
EditConversation == Idle /\ BeginControl("editing")

\* A guest is rejected, disclosure granted or withdrawn.
ControlExternal == Idle /\ BeginControl("external")

\* Publishing an address and purchasing service ask only that no setup is unresolved.
SetUp == slots["setup"] = None /\ BeginControl("setup")

TransmitControl(s) ==
    /\ slots[s] # None
    /\ Answer(slots[s]) # "None"
    /\ slots' = [slots EXCEPT ![s] = None]
    /\ UNCHANGED <<drafts, submitted, written, chosen, requesting, last_request, sending,
                   work, commands, lifecycle, funded>>

SendPending == TransmitControl("pending")
TransmitConversationEdit == TransmitControl("editing")
FinishSetup == TransmitControl("setup")

(***************************************************************************)
(* Requests and follow-ups.                                                *)
(***************************************************************************)

\* Mutant: a cancelled request takes its writing with it.
RemovesWritingCancelled(status) ==
    status \in {"Submitted", "FollowupSent", "Changed", "Cancelled"}

\* How a request that ended disposes of its writing: only these outcomes remove it.
RemovesWriting(status) == status \in {"Submitted", "FollowupSent", "Changed"}

\* A journey that ended settles the writing with it.
PersistRequest(journey, status) ==
    /\ requesting' = journey
    /\ last_request' = status
    /\ UNCHANGED <<sending, slots>>
    /\ IF journey = NoJourney
       THEN FinishDraft(~RemovesWriting(status)) /\ ResolveWork(~RemovesWriting(status))
       ELSE UNCHANGED <<drafts, submitted, work>>
    /\ UNCHANGED <<written, chosen, lifecycle, funded>>

Working(work_) == requesting # NoJourney /\ requesting.work = work_
Initial == requesting.kind = "Initial"

\* The command of the next step of the journey, signed and journaled in one save.
Sign(kind, step) ==
    /\ Room(1)
    /\ commands' = Append(commands, Command(kind, requesting.request, requesting.document))
    /\ PersistRequest([requesting EXCEPT !.work = step, !.op = NextOp], last_request)

\* A step that signs nothing.
Step(step) ==
    /\ UNCHANGED commands
    /\ PersistRequest([requesting EXCEPT !.work = step, !.op = None], last_request)

End(status) == UNCHANGED commands /\ PersistRequest(NoJourney, status)

QuoteRequest(r) ==
    /\ Idle
    /\ Room(1)
    /\ lifecycle[r] = "None" /\ \A o \in DOMAIN commands : commands[o].request # r
    /\ commands' = Append(commands, Command("Quote", r, None))
    /\ PersistRequest([kind |-> "Initial", request |-> r, work |-> "Quoting",
                       op |-> NextOp, document |-> None], "None")

\* Terms to review; or no charge is required, or another request exists.
LearnQuote ==
    /\ Working("Quoting")
    /\ \/ Answer(JourneyOp) = "Done" /\ Step("Quoted")
       \/ Answer(JourneyOp) = "Refused" /\ End("Refused")
       \/ Answer(JourneyOp) = "NotNeeded" /\ End("CommunicationAvailable")

\* The member authorizes exactly the terms reviewed.
AuthorizeRequest ==
    /\ Working("Quoted")
    /\ Room(1)
    /\ CommitDraft("Request")
    /\ commands' = Append(commands, Command("Create", requesting.request, None))
    /\ requesting' = [requesting EXCEPT !.work = "Create", !.op = NextOp,
                                        !.document = Chosen]
    /\ UNCHANGED <<written, last_request, sending, slots, work, lifecycle, funded>>

\* A follow-up of a submitted request goes straight to staging.
SendFollowup(r) ==
    /\ Idle
    /\ lifecycle[r] \in {"Awaiting", "Closed"}
    /\ \E o \in DOMAIN commands : commands[o].kind = "Submit" /\ commands[o].request = r
                                  /\ Answer(o) = "Done"
    /\ CommitDraft("Followup")
    /\ requesting' = [kind |-> "Followup", request |-> r, work |-> "Stage",
                      op |-> None, document |-> Chosen]
    /\ UNCHANGED <<written, last_request, sending, slots, work, commands, lifecycle, funded>>

\* What the journey may still go on with at the provider.
StillOpen ==
    lifecycle[requesting.request] = IF Initial THEN "Preparing" ELSE "Awaiting"

LearnCreated ==
    /\ Working("Create")
    /\ \/ Answer(JourneyOp) = "Done" /\ Step("Funding")
       \/ Answer(JourneyOp) = "Refused" /\ End("Refused")

StillPreparing == lifecycle[requesting.request] = "Preparing"

\* Mutant: only the charge is looked at.
ObserveFundingOnly ==
    /\ Working("Funding")
    /\ funded[requesting.request]
    /\ Step("Stage")

ObserveFunding ==
    /\ Working("Funding")
    /\ \/ ~StillPreparing /\ End("Changed")
       \/ StillPreparing /\ funded[requesting.request] /\ Step("Stage")

\* Nothing is tried again after a refusal: the member cancels, or the request ends.
ObserveStopped ==
    /\ Working("Stopped")
    /\ ~StillPreparing
    /\ End("Changed")

\* Mutant: the submission is signed anew when it is tried again.
StageDocumentAnew ==
    /\ Working("Stage") \/ Working("Submit")
    /\ \/ ~StillOpen /\ End("Changed")
       \/ StillOpen /\ Sign(IF Initial THEN "Submit" ELSE "Followup", "Submit")

StageDocument ==
    /\ Working("Stage")
    /\ \/ ~StillOpen /\ End("Changed")
       \/ StillOpen /\ Sign(IF Initial THEN "Submit" ELSE "Followup", "Submit")

LearnSubmitted ==
    /\ Working("Submit")
    /\ \/ Answer(JourneyOp) = "Done" /\ End(IF Initial THEN "Submitted" ELSE "FollowupSent")
       \/ /\ Answer(JourneyOp) = "Refused"
          /\ IF Initial
             THEN /\ UNCHANGED commands
                  /\ PersistRequest([requesting EXCEPT !.work = "Stopped", !.op = None],
                                    "Refused")
             ELSE End("Refused")

LearnCancelled ==
    /\ Working("Cancel")
    /\ \/ Answer(JourneyOp) = "Done" /\ End("Cancelled")
       \/ /\ Answer(JourneyOp) = "Refused"
          /\ UNCHANGED commands
          /\ PersistRequest([requesting EXCEPT !.work = "Stopped", !.op = None], "Refused")

\* Before a cancellation the command in flight is settled, without going on.
ReconcileBeforeCancel ==
    /\ requesting # NoJourney /\ requesting.work \in {"Create", "Submit", "Cancel"}
    /\ Answer(JourneyOp) # "None"
    /\ IF requesting.work # "Create" /\ Answer(JourneyOp) = "Done"
       THEN End(IF requesting.work = "Cancel" THEN "Cancelled"
                ELSE IF Initial THEN "Submitted" ELSE "FollowupSent")
       ELSE IF requesting.work = "Create" /\ Answer(JourneyOp) = "Refused"
            THEN End("Refused")
            ELSE Step("Stopped")

CancelRequest ==
    \/ requesting # NoJourney /\ requesting.work \in {"Quoting", "Quoted"} /\ End(last_request)
    \/ ReconcileBeforeCancel
    \/ /\ requesting # NoJourney /\ requesting.work \in {"Funding", "Stage", "Stopped"}
       /\ CASE ~Initial -> End(last_request)
            [] Initial /\ ~StillOpen -> End("Changed")
            [] Initial /\ StillOpen -> Sign("Cancel", "Cancel")

(***************************************************************************)
(* The provider.                                                           *)
(***************************************************************************)

\* What a command may be answered, from the state of the request it names.
MayAnswer(o) ==
    LET c == commands[o]
        at == IF c.request = None THEN "None" ELSE lifecycle[c.request]
        permitted ==
            CASE c.kind = "Create" -> at = "None"
              [] c.kind = "Submit" -> at = "Preparing" /\ funded[c.request]
              [] c.kind = "Cancel" -> at = "Preparing"
              [] c.kind = "Followup" -> at = "Awaiting"
              [] OTHER -> TRUE
    IN  {"Refused"} \cup (IF permitted THEN {"Done"} ELSE {})
            \cup (IF c.kind = "Quote" THEN {"NotNeeded"} ELSE {})

\* A message is transmitted after its conversation was answered.
Transmitted(o) ==
    \A n \in DOMAIN commands :
        commands[n].kind = "Conversation" /\ o = n + 1 => Answer(n) = "Done"

After(kind, at) ==
    CASE kind = "Create" -> "Preparing"
      [] kind = "Submit" -> "Awaiting"
      [] kind = "Cancel" -> "Closed"
      [] OTHER -> at

\* A command is executed once, whenever its first transmission arrives.
Serve(o, answer) ==
    /\ o \in DOMAIN commands
    /\ Answer(o) = "None" /\ Transmitted(o)
    /\ answer \in MayAnswer(o)
    /\ commands' = [commands EXCEPT ![o].answer = answer]
    /\ LET r == commands[o].request IN
       lifecycle' = IF r = None \/ answer # "Done" THEN lifecycle
                    ELSE [lifecycle EXCEPT ![r] = After(commands[o].kind, @)]
    /\ UNCHANGED <<device, written, chosen, funded>>

\* The charge is funded; the preparation ends unsubmitted, the recipient decides.
Fund(r) ==
    /\ lifecycle[r] = "Preparing" /\ ~funded[r]
    /\ funded' = [funded EXCEPT ![r] = TRUE]
    /\ UNCHANGED <<device, written, chosen, commands, lifecycle>>
Close(r) ==
    /\ lifecycle[r] \in {"Preparing", "Awaiting"}
    /\ lifecycle' = [lifecycle EXCEPT ![r] = "Closed"]
    /\ UNCHANGED <<device, written, chosen, commands, funded>>

-----------------------------------------------------------------------------
Init ==
    /\ drafts = [d \in DraftIds |-> None]
    /\ submitted = None
    /\ written = [d \in DraftIds |-> "New"]
    /\ chosen = None
    /\ requesting = NoJourney
    /\ last_request = "None"
    /\ sending = None
    /\ slots = [s \in Slots |-> None]
    /\ work = [o \in Ops |-> "None"]
    /\ commands = <<>>
    /\ lifecycle = [r \in Requests |-> "None"]
    /\ funded = [r \in Requests |-> FALSE]

\* What sync and retry do with what is journaled; one of them for each command.
Resume ==
    \/ TransmitSend \/ TransmitExternal
    \/ SendPending \/ TransmitConversationEdit \/ FinishSetup
    \/ LearnQuote \/ LearnCreated \/ ObserveFunding \/ ObserveStopped
    \/ StageDocument \/ LearnSubmitted \/ LearnCancelled

Edit == \E d \in DraftIds :
    \/ \E t \in Kinds : OpenDraft(d, t) \/ EditDraft(d, t)
    \/ DiscardDraft(d) \/ ChooseDraft(d)

Begin ==
    \/ \E new \in BOOLEAN : SendMessage(new)
    \/ SendLetter
    \/ Decide \/ EditConversation \/ ControlExternal \/ SetUp
    \/ \E r \in Requests : QuoteRequest(r) \/ SendFollowup(r)
    \/ AuthorizeRequest

Provider ==
    \/ \E o \in Ops : \E a \in {"Done", "Refused", "NotNeeded"} : Serve(o, a)
    \/ \E r \in Requests : Fund(r) \/ Close(r)

Next == Edit \/ AbandonChoice \/ Begin \/ CancelRequest \/ Resume \/ Provider
Spec == Init /\ [][Next]_vars

\* The host keeps calling retry, the provider answers and requests end.
Fairness ==
    /\ WF_vars(Resume)
    /\ \A o \in Ops : WF_vars(\E a \in {"Done", "Refused", "NotNeeded"} : Serve(o, a))
    /\ \A r \in Requests : WF_vars(Close(r))
FairSpec == Spec /\ Fairness

-----------------------------------------------------------------------------
(***************************************************************************)
(* Properties.                                                             *)
(***************************************************************************)

\* The writing a journaled command carries.
Journaled ==
    IF sending # None THEN commands[sending.send].writing
    ELSE IF slots["external"] # None THEN commands[slots["external"]].writing
    ELSE IF requesting # NoJourney THEN requesting.document
    ELSE None

WritingSubmitted ==
    IF submitted = None THEN None
    ELSE [id |-> submitted.id, revision |-> submitted.revision]

Delivering == {"Send", "Letter", "Submit", "Followup"}
Carrying(w) == {o \in DOMAIN commands : commands[o].kind \in Delivering
                                         /\ commands[o].writing = w}
Delivered(w) == \E o \in Carrying(w) : Answer(o) = "Done"

(* The journal, the workspace and the record of outgoing messages tell one  *)
(* story in every state the device can be reopened in: the submitted        *)
(* writing is exactly the one an unresolved command was prepared from, it   *)
(* cannot be edited meanwhile, the workspace stays within the number of     *)
(* drafts it can be read back with, each message awaiting confirmation is   *)
(* in the journal, alone, and what is recorded of the others is what the    *)
(* provider answered, whichever of two commands was refused and however     *)
(* often they were transmitted (save_submission in commit_draft and         *)
(* finish_draft, Workspace::load, Personal::resolve).                       *)
JournalMatchesWorkspace ==
    /\ WritingSubmitted = Journaled
    /\ submitted # None => drafts[submitted.id] = None
    /\ Cardinality(InWorkspace) <= MaxWriting
    /\ \A o \in Ops :
        /\ work[o] = "AwaitingConfirmation" <=>
              \/ sending # None /\ sending.send = o
              \/ slots["external"] = o /\ commands[o].kind = "Letter"
        /\ work[o] \in {"Committed", "Queued"} => Answer(o) = "Done"
        /\ work[o] = "Refused" => Answer(o) # "Done"

(* One authorization sends a writing once: however often its command is     *)
(* transmitted, the operation interrupted or cancelled, or the draft        *)
(* submitted twice, no revision of a draft is delivered by two commands.    *)
SentOnce ==
    \A o, n \in DOMAIN commands :
        /\ o # n /\ commands[o].writing # None
        /\ {commands[o].kind, commands[n].kind} \subseteq Delivering
        /\ Answer(o) = "Done" /\ Answer(n) = "Done"
        => commands[o].writing # commands[n].writing

(* Writing that leaves the journal was delivered or is restored, never both *)
(* and never neither.  Two outcomes are apart: a request found changed, and *)
(* a follow-up, whose writing goes although it was perhaps never sent       *)
(* (persist_request).                                                       *)
WritingKept ==
    [][submitted # None /\ submitted' = None =>
        IF drafts'[submitted.id] # None
        THEN ~Delivered(WritingSubmitted)
        ELSE \/ Delivered(WritingSubmitted)
             \/ requesting # NoJourney /\ requesting.kind = "Followup"
             \/ requesting # NoJourney /\ last_request' = "Changed"]_vars

(* Writing does not stay submitted for ever: retry settles every command,   *)
(* and a request whose charge never clears or whose submission was refused  *)
(* ends at the provider, which the device learns.                           *)
SubmissionsResolve == submitted # None ~> submitted = None
=============================================================================
