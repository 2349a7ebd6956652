------------------------- MODULE MemberClient_proofs -------------------------
(***************************************************************************)
(* The device's journal, its workspace and the provider's answers, for any *)
(* drafts, requests and numbers of revisions and commands.                 *)
(*                                                                         *)
(* The argument: a revision of a draft leaves the editor once.  Either a   *)
(* command that is still journaled carries it, or a command that was       *)
(* answered did and the draft, when it is still there, is a later          *)
(* revision.  A request adds that its writing is signed into a submission  *)
(* only in the last stage of the journey, and that a journey which stopped *)
(* knows its submission was refused.                                       *)
(***************************************************************************)
EXTENDS MemberClient, FiniteSetTheorems, TLAPS

-----------------------------------------------------------------------------
(***************************************************************************)
(* The inductive invariant.  Its parts are stated of the commands C that   *)
(* were signed, and of the values of the other variables they speak of.    *)
(***************************************************************************)

SignedCommand ==
    [ kind    : {"Conversation", "Send", "Letter", "Control", "Quote", "Create", "Submit",
                 "Followup", "Cancel"},
      request : Requests \cup {None},
      writing : Writing \cup {None},
      answer  : {"None", "Done", "Refused", "NotNeeded"} ]

Journey ==
    [ kind     : {"Initial", "Followup"},
      request  : Requests,
      work     : {"Quoting", "Quoted", "Create", "Funding", "Stage", "Submit", "Stopped", "Cancel"},
      op       : Nat \cup {None},
      document : Writing \cup {None} ]

JourneyStatus ==
    {"None", "Refused", "CommunicationAvailable", "Submitted", "FollowupSent", "Changed",
     "Cancelled"}

TypeOK ==
    /\ drafts \in [DraftIds -> Draft \cup {None}]
    /\ submitted \in Submission \cup {None}
    /\ written \in [DraftIds -> {"New", "Kept", "Discarded"}]
    /\ chosen \in Submission \cup {None}
    /\ requesting \in Journey \cup {NoJourney}
    /\ last_request \in JourneyStatus
    /\ sending \in Sending \cup {None}
    /\ slots \in [Slots -> Nat \cup {None}]
    /\ work \in [Ops -> {"None", "AwaitingConfirmation", "Committed", "Queued", "Refused"}]
    /\ commands \in Seq(SignedCommand) /\ Len(commands) <= MaxCommands
    /\ lifecycle \in [Requests -> {"None", "Preparing", "Awaiting", "Closed"}]
    /\ funded \in [Requests -> BOOLEAN]

\* Commands that carry writing wait alone.
OneAtATime(s, letter, j) ==
    /\ s # None => letter = None /\ j = NoJourney
    /\ letter # None => j = NoJourney

\* What the journal names was signed, and for the writing submitted.
SendSigned(C, s) ==
    s # None =>
        /\ s.send \in DOMAIN C /\ C[s.send].kind = "Send"
        /\ s.create # None => /\ s.create \in DOMAIN C /\ C[s.create].kind = "Conversation"
                              /\ s.send = s.create + 1
LetterSigned(C, o) ==
    o # None => /\ o \in DOMAIN C /\ C[o].kind \in {"Letter", "Control"}
                /\ C[o].kind = "Control" => C[o].writing = None
JourneySigned(C, j) ==
    j # NoJourney =>
        /\ j.work \in {"Quoting", "Quoted"} => j.document = None
        /\ j.work = "Submit" => /\ j.op \in DOMAIN C /\ C[j.op].kind \in {"Submit", "Followup"}
                                /\ C[j.op].writing = j.document

CarriedBy(C, o, w) == C[o].kind \in Delivering /\ C[o].writing = w

\* A journey's writing is submitted at most once, in its last stage.
SubmissionKnown(C, j) ==
    j # NoJourney =>
        \A w \in Writing, o \in DOMAIN C : w = j.document /\ CarriedBy(C, o, w) =>
            /\ j.work \in {"Submit", "Stopped", "Cancel"}
            /\ j.work = "Submit" => o = j.op
            /\ j.work # "Submit" => C[o].answer \notin {"None", "Done"}

\* A message is answered after its conversation; only a quote may be unneeded.
AnswersInOrder(C) ==
    \A n \in DOMAIN C :
        /\ C[n].kind = "Conversation" /\ n + 1 \in DOMAIN C /\ C[n + 1].answer # "None" =>
              C[n].answer = "Done"
        /\ C[n].answer = "NotNeeded" => C[n].kind = "Quote"

\* The command was refused, or the conversation it needs was.
Hopeless(C, o) ==
    \/ C[o].answer = "Refused"
    \/ \E n \in DOMAIN C : o = n + 1 /\ C[n].kind = "Conversation" /\ C[n].answer = "Refused"

WorkFits(C, status, o, s, letter) ==
    /\ status # "None" => o \in DOMAIN C
    /\ status = "AwaitingConfirmation" <=>
          \/ s # None /\ s.send = o
          \/ letter = o /\ C[o].kind = "Letter"
    /\ status \in {"Committed", "Queued"} => C[o].answer = "Done"
    /\ status = "Refused" => Hopeless(C, o)

\* A revision that a command delivers is neither in the editor any more nor to
\* be submitted again, and no other command delivers it.
Spent(w, D, sub, known) ==
    /\ known[w.id] # "New"
    /\ D[w.id] # None => D[w.id].revision > w.revision
    /\ sub # None /\ sub.id = w.id => sub.revision >= w.revision
CarriedOnce(C) ==
    \A w \in Writing, o, n \in DOMAIN C : CarriedBy(C, o, w) /\ CarriedBy(C, n, w) => o = n
CarriedSpent(C, D, sub, known) ==
    \A w \in Writing, o \in DOMAIN C : CarriedBy(C, o, w) => Spent(w, D, sub, known)

\* Writing not begun is nowhere, the submitted one not in the editor, and the
\* workspace small enough to be read back.
WorkspaceFits(D, sub, known) ==
    /\ \A d \in DraftIds : known[d] = "New" => D[d] = None
    /\ sub # None => D[sub.id] = None /\ known[sub.id] # "New"
WorkspaceSmall == IsFiniteSet(InWorkspace) /\ Cardinality(InWorkspace) <= MaxWriting

IInv ==
    /\ TypeOK
    /\ WorkspaceFits(drafts, submitted, written)
    /\ WorkspaceSmall
    /\ WritingSubmitted = Journaled
    /\ OneAtATime(sending, slots["external"], requesting)
    /\ SendSigned(commands, sending)
    /\ LetterSigned(commands, slots["external"])
    /\ JourneySigned(commands, requesting)
    /\ SubmissionKnown(commands, requesting)
    /\ AnswersInOrder(commands)
    /\ \A o \in Ops : WorkFits(commands, work[o], o, sending, slots["external"])
    /\ CarriedOnce(commands)
    /\ CarriedSpent(commands, drafts, submitted, written)

-----------------------------------------------------------------------------
(***************************************************************************)
(* The commands signed: a sequence that grows, and answers that stay.      *)
(***************************************************************************)

Grows(C, D) ==
    /\ DOMAIN C \subseteq DOMAIN D
    /\ \A o \in DOMAIN C : /\ D[o].kind = C[o].kind /\ D[o].writing = C[o].writing
                           /\ C[o].answer # "None" => D[o].answer = C[o].answer

\* What the journal and the record of messages say stays true.
LEMMA GrowthKeeps ==
    ASSUME NEW C, NEW D, Grows(C, D), NEW s, NEW letter, NEW j
    PROVE  /\ SendSigned(C, s) => SendSigned(D, s)
           /\ LetterSigned(C, letter) => LetterSigned(D, letter)
           /\ JourneySigned(C, j) => JourneySigned(D, j)
           /\ \A o \in Ops : \A status :
                 SendSigned(C, s) /\ LetterSigned(C, letter) /\ WorkFits(C, status, o, s, letter) =>
                     WorkFits(D, status, o, s, letter)
<1>1. /\ SendSigned(C, s) => SendSigned(D, s)
      /\ LetterSigned(C, letter) => LetterSigned(D, letter)
      /\ JourneySigned(C, j) => JourneySigned(D, j)
  BY DEF Grows, SendSigned, LetterSigned, JourneySigned
<1>2. ASSUME NEW o \in Ops, NEW status, SendSigned(C, s), LetterSigned(C, letter),
             WorkFits(C, status, o, s, letter)
      PROVE  WorkFits(D, status, o, s, letter)
  <2>0. o # None
    BY NoneIsAbsence DEF Ops
  <2>1. status # "None" => o \in DOMAIN C /\ o \in DOMAIN D
    BY <1>2 DEF Grows, WorkFits
  <2>2. status = "AwaitingConfirmation" <=>
            \/ s # None /\ s.send = o
            \/ letter = o /\ D[o].kind = "Letter"
    <3>1. letter = o => D[o].kind = C[o].kind
      BY <1>2, <2>0 DEF Grows, LetterSigned
    <3> QED
      BY <1>2, <3>1 DEF WorkFits
  <2>3. status \in {"Committed", "Queued"} => D[o].answer = "Done"
    BY <1>2, <2>1 DEF Grows, WorkFits
  <2>4. status = "Refused" => Hopeless(D, o)
    BY <1>2, <2>1 DEF Grows, WorkFits, Hopeless
  <2> QED
    BY <2>1, <2>2, <2>3, <2>4 DEF WorkFits
<1> QED
  BY <1>1, <1>2

\* A command signed after C.
LEMMA AppendParts ==
    ASSUME NEW C \in Seq(SignedCommand), NEW c \in SignedCommand, c.answer = "None"
    PROVE  LET D == Append(C, c)
               n == Len(C) + 1
           IN  /\ D \in Seq(SignedCommand) /\ Len(D) = n /\ n \in Nat /\ Len(C) \in Nat
               /\ DOMAIN C = 1 .. Len(C) /\ DOMAIN D = 1 .. n
               /\ n \notin DOMAIN C /\ DOMAIN D = DOMAIN C \cup {n}
               /\ D[n] = c /\ \A o \in DOMAIN C : D[o] = C[o]
               /\ Grows(C, D)
               /\ AnswersInOrder(C) => AnswersInOrder(D)
<1> DEFINE D == Append(C, c)
           n == Len(C) + 1
<1>1. /\ D \in Seq(SignedCommand) /\ Len(D) = n /\ Len(C) \in Nat /\ n \in Nat
      /\ DOMAIN C = 1 .. Len(C) /\ DOMAIN D = 1 .. n
      /\ D[n] = c /\ \A o \in 1 .. Len(C) : D[o] = C[o]
  OBVIOUS
<1> SUFFICES /\ n \notin DOMAIN C /\ DOMAIN D = DOMAIN C \cup {n}
             /\ Grows(C, D)
             /\ AnswersInOrder(C) => AnswersInOrder(D)
  BY <1>1
<1> HIDE DEF D, n
<1>2. n = Len(C) + 1
  BY DEF n
<1>3. n \notin DOMAIN C /\ DOMAIN D = DOMAIN C \cup {n}
  BY <1>1, <1>2
<1>4. Grows(C, D)
  BY <1>1, <1>3 DEF Grows
<1>5. ASSUME AnswersInOrder(C) PROVE AnswersInOrder(D)
  <2>0. \A k \in DOMAIN D : D[k].answer = "NotNeeded" => D[k].kind = "Quote"
    BY <1>1, <1>3, <1>5 DEF AnswersInOrder
  <2> SUFFICES ASSUME NEW k \in DOMAIN D, D[k].kind = "Conversation", k + 1 \in DOMAIN D,
                      D[k + 1].answer # "None"
               PROVE  D[k].answer = "Done"
    BY <2>0 DEF AnswersInOrder
  <2>1. k + 1 # n
    BY <1>1
  <2>2. k \in DOMAIN C /\ k + 1 \in DOMAIN C
    BY <1>1, <1>2, <2>1
  <2>3. D[k] = C[k] /\ D[k + 1] = C[k + 1]
    BY <1>1, <2>2
  <2> QED
    BY <1>5, <2>2, <2>3 DEF AnswersInOrder
<1> QED
  BY <1>3, <1>4, <1>5

\* A command that delivers nothing, or writing that is delivered for the first time.
LEMMA AppendCarried ==
    ASSUME NEW C \in Seq(SignedCommand), NEW c \in SignedCommand, c.answer = "None",
           NEW D0, NEW sub, NEW known, NEW j,
           \A w \in Writing : c.kind \in Delivering /\ c.writing = w =>
               /\ \A o \in DOMAIN C : ~CarriedBy(C, o, w)
               /\ Spent(w, D0, sub, known)
    PROVE  LET D == Append(C, c)
           IN  /\ CarriedOnce(C) => CarriedOnce(D)
               /\ CarriedSpent(C, D0, sub, known) => CarriedSpent(D, D0, sub, known)
               /\ SubmissionKnown(C, j) /\ c.kind \notin Delivering => SubmissionKnown(D, j)
<1> DEFINE D == Append(C, c)
           n == Len(C) + 1
<1>1. /\ n \notin DOMAIN C /\ DOMAIN D = DOMAIN C \cup {n}
      /\ D[n] = c /\ \A o \in DOMAIN C : D[o] = C[o]
  BY AppendParts
<1> SUFFICES /\ CarriedOnce(C) => CarriedOnce(D)
             /\ CarriedSpent(C, D0, sub, known) => CarriedSpent(D, D0, sub, known)
             /\ SubmissionKnown(C, j) /\ c.kind \notin Delivering => SubmissionKnown(D, j)
  OBVIOUS
<1> HIDE DEF D, n
<1>2. ASSUME NEW w \in Writing, NEW o \in DOMAIN D, CarriedBy(D, o, w)
      PROVE  \/ o \in DOMAIN C /\ CarriedBy(C, o, w)
             \/ /\ o = n /\ c.kind \in Delivering /\ c.writing = w
                /\ \A k \in DOMAIN C : ~CarriedBy(C, k, w)
                /\ Spent(w, D0, sub, known)
  BY <1>1, <1>2 DEF CarriedBy
<1>3. CarriedOnce(C) => CarriedOnce(D)
  BY <1>2 DEF CarriedOnce
<1>4. CarriedSpent(C, D0, sub, known) => CarriedSpent(D, D0, sub, known)
  BY <1>2 DEF CarriedSpent
<1>5. SubmissionKnown(C, j) /\ c.kind \notin Delivering => SubmissionKnown(D, j)
  BY <1>1, <1>2 DEF SubmissionKnown
<1> QED
  BY <1>3, <1>4, <1>5
-----------------------------------------------------------------------------
(***************************************************************************)
(* Writing that is submitted and writing whose command was answered.       *)
(***************************************************************************)

\* Nothing is submitted when the journal carries no writing.
LEMMA NothingSubmitted == ASSUME IInv, Journaled = None PROVE submitted = None
<1>1. submitted # None => WritingSubmitted \in Writing
  BY DEF IInv, TypeOK, WritingSubmitted, Submission, Writing
<1> QED
  BY <1>1, NoneIsAbsence DEF IInv

\* The draft chosen leaves the editor as the writing of the command, which no
\* command delivered before.
LEMMA CommitLeaves ==
    ASSUME IInv, Journaled = None, NEW target, CommitDraft(target)
    PROVE  /\ drafts' \in [DraftIds -> Draft \cup {None}]
           /\ submitted' \in Submission \cup {None}
           /\ chosen' \in Submission \cup {None}
           /\ Chosen \in Writing \cup {None}
           /\ WritingSubmitted' = Chosen
           /\ InWorkspace' = InWorkspace
           /\ WorkspaceFits(drafts', submitted', written)
           /\ CarriedSpent(commands, drafts', submitted', written)
           /\ \A w \in Writing : w = Chosen =>
                 /\ \A o \in DOMAIN commands : ~CarriedBy(commands, o, w)
                 /\ Spent(w, drafts', submitted', written)
<1>1. /\ TypeOK /\ WorkspaceFits(drafts, submitted, written)
      /\ CarriedSpent(commands, drafts, submitted, written)
  BY DEF IInv
<1>2. submitted = None
  BY NothingSubmitted
<1>3. CASE chosen = None
  <2>1. UNCHANGED <<drafts, submitted, chosen>> /\ Chosen = None
    BY <1>3 DEF CommitDraft, Chosen
  <2>2. WritingSubmitted' = None
    BY <1>2, <2>1 DEF WritingSubmitted
  <2> QED
    BY <1>1, <2>1, <2>2, NoneIsAbsence DEF TypeOK, InWorkspace
<1>4. CASE chosen # None
  <2> DEFINE d == chosen.id
             v == drafts[d].revision
             sub == [id |-> d, revision |-> v, target |-> drafts[d].target]
             w0 == [id |-> d, revision |-> v]
  <2>1. /\ d \in DraftIds /\ drafts[d] # None /\ drafts[d].revision = chosen.revision
        /\ drafts' = [drafts EXCEPT ![d] = None] /\ submitted' = sub
        /\ chosen' \in {None, chosen}
    BY <1>1, <1>4 DEF CommitDraft, StillCurrent, TypeOK, Submission
  <2>2. drafts[d] \in Draft /\ v \in Nat
    BY <1>1, <2>1 DEF TypeOK, Draft
  <2>3. /\ sub \in Submission /\ sub # None /\ w0 \in Writing /\ sub.id = d /\ sub.revision = v
        /\ w0.id = d /\ w0.revision = v
    BY <2>1, <2>2, NoneIsAbsence DEF Submission, Writing, Draft
  <2>4. Chosen = w0
    BY <1>4, <2>1 DEF Chosen
  <2> HIDE DEF sub, w0, v
  <2>5. WritingSubmitted' = w0
    BY <2>1, <2>3 DEF WritingSubmitted, w0
  <2>6. /\ drafts' \in [DraftIds -> Draft \cup {None}] /\ drafts'[d] = None
        /\ \A x \in DraftIds \ {d} : drafts'[x] = drafts[x]
    BY <1>1, <2>1 DEF TypeOK
  <2>7. InWorkspace' = InWorkspace
    BY <1>2, <2>1, <2>3, <2>6 DEF InWorkspace
  <2>8. WorkspaceFits(drafts', submitted', written)
    BY <1>1, <2>1, <2>3, <2>6 DEF WorkspaceFits
  <2>9. ASSUME NEW w \in Writing, NEW o \in DOMAIN commands, CarriedBy(commands, o, w)
        PROVE  /\ Spent(w, drafts', submitted', written)
               /\ w # w0
    <3>1. Spent(w, drafts, submitted, written) /\ w.id \in DraftIds /\ w.revision \in Nat
      BY <1>1, <2>9 DEF CarriedSpent, Writing
    <3>2. w.id = d => v > w.revision
      BY <2>1, <3>1 DEF Spent, v
    <3>3. w # w0
      BY <2>2, <2>3, <3>1, <3>2
    <3>4. Spent(w, drafts', submitted', written)
      BY <2>1, <2>2, <2>3, <2>6, <3>1, <3>2 DEF Spent
    <3> QED
      BY <3>3, <3>4
  <2>10. Spent(w0, drafts', submitted', written)
    BY <1>1, <2>1, <2>2, <2>3, <2>6 DEF Spent, WorkspaceFits
  <2>11. chosen' \in Submission \cup {None}
    BY <1>1, <2>1 DEF TypeOK
  <2> QED
    BY <2>1, <2>3, <2>4, <2>5, <2>6, <2>7, <2>8, <2>9, <2>10, <2>11 DEF CarriedSpent
<1> QED
  BY <1>3, <1>4

\* Writing restored is a later revision; nothing enters the workspace.
LEMMA FinishLeaves ==
    ASSUME IInv, NEW restore \in BOOLEAN, FinishDraft(restore)
    PROVE  /\ drafts' \in [DraftIds -> Draft \cup {None}]
           /\ submitted' = None
           /\ WritingSubmitted' = None
           /\ InWorkspace' \subseteq InWorkspace
           /\ WorkspaceFits(drafts', submitted', written)
           /\ CarriedSpent(commands, drafts', submitted', written)
<1>1. /\ TypeOK /\ WorkspaceFits(drafts, submitted, written)
      /\ CarriedSpent(commands, drafts, submitted, written)
  BY DEF IInv
<1>2. submitted' = None /\ WritingSubmitted' = None
  BY DEF FinishDraft, WritingSubmitted
<1>3. CASE submitted # None /\ restore
  <2> DEFINE d == submitted.id
             back == [revision |-> submitted.revision + 1, target |-> submitted.target]
  <2>1. /\ d \in DraftIds /\ submitted.revision \in Nat /\ back \in Draft
        /\ back.revision = submitted.revision + 1 /\ back # None
    BY <1>1, <1>3, NoneIsAbsence DEF TypeOK, Submission, Draft
  <2>2. drafts' = [drafts EXCEPT ![d] = back]
    BY <1>3 DEF FinishDraft
  <2> HIDE DEF back
  <2>3. /\ drafts' \in [DraftIds -> Draft \cup {None}] /\ drafts'[d] = back
        /\ \A x \in DraftIds \ {d} : drafts'[x] = drafts[x]
    BY <1>1, <2>1, <2>2 DEF TypeOK
  <2>4. InWorkspace' \subseteq InWorkspace
    BY <1>2, <1>3, <2>3 DEF InWorkspace
  <2>5. WorkspaceFits(drafts', submitted', written)
    BY <1>1, <1>2, <1>3, <2>3 DEF WorkspaceFits
  <2>6. ASSUME NEW w \in Writing, NEW o \in DOMAIN commands, CarriedBy(commands, o, w)
        PROVE  Spent(w, drafts', submitted', written)
    <3>1. Spent(w, drafts, submitted, written) /\ w.id \in DraftIds /\ w.revision \in Nat
      BY <1>1, <2>6 DEF CarriedSpent, Writing
    <3>2. w.id = d => back.revision > w.revision
      BY <1>3, <2>1, <3>1 DEF Spent
    <3> QED
      BY <1>2, <2>3, <3>1, <3>2 DEF Spent
  <2> QED
    BY <1>2, <2>3, <2>4, <2>5, <2>6 DEF CarriedSpent
<1>4. CASE ~(submitted # None /\ restore)
  <2>1. drafts' = drafts
    BY <1>4 DEF FinishDraft
  <2>2. InWorkspace' \subseteq InWorkspace
    BY <1>2, <2>1 DEF InWorkspace
  <2>3. WorkspaceFits(drafts', submitted', written)
    BY <1>1, <1>2, <2>1 DEF WorkspaceFits
  <2>4. CarriedSpent(commands, drafts', submitted', written)
    BY <1>1, <1>2, <2>1 DEF CarriedSpent, Spent
  <2> QED
    BY <1>1, <1>2, <2>1, <2>2, <2>3, <2>4 DEF TypeOK
<1> QED
  BY <1>3, <1>4

\* A smaller workspace can be read back too.
LEMMA SmallerWorkspace ==
    ASSUME IInv, InWorkspace' \subseteq InWorkspace
    PROVE  WorkspaceSmall'
<1>1. IsFiniteSet(InWorkspace) /\ Cardinality(InWorkspace) <= MaxWriting
  BY DEF IInv, WorkspaceSmall
<1>2. IsFiniteSet(InWorkspace') /\ Cardinality(InWorkspace') <= Cardinality(InWorkspace)
  BY <1>1, FS_Subset
<1>3. Cardinality(InWorkspace) \in Nat /\ Cardinality(InWorkspace') \in Nat /\ MaxWriting \in Nat
  BY <1>1, <1>2, FS_CardinalityType, ClientConstants
<1> QED
  BY <1>1, <1>2, <1>3 DEF WorkspaceSmall
\* The record of a message that was answered.
LEMMA ResolvedFits ==
    ASSUME IInv, NEW refused \in BOOLEAN, ResolveWork(refused), sending' = None,
           slots'["external"] = None,
           \A o \in Ops : work[o] = "AwaitingConfirmation" =>
               IF refused THEN Hopeless(commands, o) ELSE commands[o].answer = "Done"
    PROVE  /\ work' \in [Ops -> {"None", "AwaitingConfirmation", "Committed", "Queued", "Refused"}]
           /\ \A o \in Ops : WorkFits(commands, work'[o], o, None, None)
<1> DEFINE Resolved(o) ==
               CASE commands[o].kind = "Send" /\ sending' = None ->
                       IF refused THEN "Refused" ELSE "Committed"
                 [] commands[o].kind = "Letter" /\ slots'["external"] = None ->
                       IF refused THEN "Refused" ELSE "Queued"
                 [] OTHER -> "AwaitingConfirmation"
<1>1. /\ work \in [Ops -> {"None", "AwaitingConfirmation", "Committed", "Queued", "Refused"}]
      /\ SendSigned(commands, sending)
      /\ \A o \in Ops : WorkFits(commands, work[o], o, sending, slots["external"])
  BY DEF IInv, TypeOK
<1>2. work' = [o \in Ops |-> IF work[o] = "AwaitingConfirmation" THEN Resolved(o) ELSE work[o]]
  BY DEF ResolveWork
<1>3. ASSUME NEW o \in Ops, work[o] = "AwaitingConfirmation"
      PROVE  /\ Resolved(o) \in {"Refused", "Committed", "Queued"}
             /\ Resolved(o) = "Refused" => refused
             /\ Resolved(o) # "Refused" => ~refused
             /\ o \in DOMAIN commands
  <2>1. o \in DOMAIN commands /\ commands[o].kind \in {"Send", "Letter"}
    BY <1>1, <1>3 DEF WorkFits, SendSigned
  <2>2. CASE commands[o].kind = "Send"
    <3>1. Resolved(o) = IF refused THEN "Refused" ELSE "Committed"
      BY <2>2
    <3> HIDE DEF Resolved
    <3> QED
      BY <2>1, <3>1
  <2>3. CASE commands[o].kind = "Letter"
    <3>1. Resolved(o) = IF refused THEN "Refused" ELSE "Queued"
      BY <2>3
    <3> HIDE DEF Resolved
    <3> QED
      BY <2>1, <3>1
  <2> HIDE DEF Resolved
  <2> QED
    BY <2>1, <2>2, <2>3
<1> HIDE DEF Resolved
<1>4. ASSUME NEW o \in Ops
      PROVE  /\ work'[o] \in {"None", "Committed", "Queued", "Refused"}
             /\ WorkFits(commands, work'[o], o, None, None)
  <2>1. o # None
    BY NoneIsAbsence DEF Ops
  <2>2. CASE work[o] = "AwaitingConfirmation"
    <3>1. work'[o] = Resolved(o)
      BY <1>2, <2>2
    <3> QED
      BY <1>3, <2>1, <2>2, <3>1 DEF WorkFits
  <2>3. CASE work[o] # "AwaitingConfirmation"
    <3>1. work'[o] = work[o] /\ work[o] \in {"None", "Committed", "Queued", "Refused"}
      BY <1>1, <1>2, <2>3
    <3>2. WorkFits(commands, work[o], o, sending, slots["external"])
      BY <1>1
    <3> QED
      BY <2>1, <3>1, <3>2 DEF WorkFits
  <2> QED
    BY <2>2, <2>3
<1> QED
  BY <1>2, <1>4

\* The outcome of a command that carries writing: the journal is empty of it,
\* the writing restored or removed, the record of messages closed.
LEMMA OutcomeKeeps ==
    ASSUME IInv, NEW refused \in BOOLEAN, FinishDraft(refused), ResolveWork(refused),
           UNCHANGED <<written, chosen, commands, lifecycle, funded>>,
           requesting' = NoJourney, sending' = None, slots'["external"] = None,
           slots' \in [Slots -> Nat \cup {None}], last_request' \in JourneyStatus,
           \A o \in Ops : work[o] = "AwaitingConfirmation" =>
               IF refused THEN Hopeless(commands, o) ELSE commands[o].answer = "Done"
    PROVE  IInv'
<1>1. TypeOK
  BY DEF IInv
<1>2. /\ drafts' \in [DraftIds -> Draft \cup {None}]
      /\ submitted' = None /\ WritingSubmitted' = None
      /\ InWorkspace' \subseteq InWorkspace
      /\ WorkspaceFits(drafts', submitted', written)
      /\ CarriedSpent(commands, drafts', submitted', written)
  BY FinishLeaves
<1>3. WorkspaceSmall'
  BY <1>2, SmallerWorkspace
<1>4. /\ work' \in [Ops -> {"None", "AwaitingConfirmation", "Committed", "Queued", "Refused"}]
      /\ \A o \in Ops : WorkFits(commands, work'[o], o, None, None)
  BY ResolvedFits
<1>5. TypeOK'
  BY <1>1, <1>2, <1>4 DEF TypeOK
<1>6. WritingSubmitted' = Journaled'
  BY <1>2 DEF Journaled
<1>7. /\ OneAtATime(sending', slots'["external"], requesting') /\ SendSigned(commands', sending')
      /\ LetterSigned(commands', slots'["external"]) /\ JourneySigned(commands', requesting')
      /\ SubmissionKnown(commands', requesting')
  BY DEF OneAtATime, SendSigned, LetterSigned, JourneySigned, SubmissionKnown
<1>8. AnswersInOrder(commands') /\ CarriedOnce(commands')
  BY DEF IInv
<1> QED
  BY <1>2, <1>3, <1>4, <1>5, <1>6, <1>7, <1>8 DEF IInv

\* While a request is being formed no message awaits an answer.
LEMMA NoMessageWaits ==
    ASSUME IInv, sending = None, slots["external"] = None
    PROVE  \A o \in Ops : work[o] # "AwaitingConfirmation"
<1>1. \A o \in Ops : o # None /\ WorkFits(commands, work[o], o, sending, slots["external"])
  BY NoneIsAbsence DEF IInv, Ops
<1> QED
  BY <1>1 DEF WorkFits

LEMMA JourneyAlone ==
    ASSUME IInv, requesting # NoJourney
    PROVE  /\ sending = None /\ slots["external"] = None
           /\ requesting \in Journey
           /\ WritingSubmitted = requesting.document /\ Journaled = requesting.document
  BY DEF IInv, OneAtATime, TypeOK, Journaled

\* A request ends with a status: its writing is restored or removed with it.
LEMMA EndKeeps ==
    ASSUME IInv, requesting # NoJourney, NEW status \in JourneyStatus, End(status)
    PROVE  IInv'
<1> DEFINE restore == ~RemovesWriting(status)
<1>1. /\ requesting' = NoJourney /\ last_request' = status
      /\ UNCHANGED <<sending, slots, written, chosen, commands, lifecycle, funded>>
      /\ FinishDraft(restore) /\ ResolveWork(restore)
  BY DEF End, PersistRequest
<1>2. restore \in BOOLEAN
  BY DEF RemovesWriting
<1> HIDE DEF restore
<1>3. sending' = None /\ slots'["external"] = None /\ slots' \in [Slots -> Nat \cup {None}]
  BY <1>1, JourneyAlone DEF IInv, TypeOK
<1>4. \A o \in Ops : work[o] # "AwaitingConfirmation"
  BY JourneyAlone, NoMessageWaits
<1> QED
  BY <1>1, <1>2, <1>3, <1>4, OutcomeKeeps
-----------------------------------------------------------------------------
(***************************************************************************)
(* Requests and follow-ups.                                                *)
(***************************************************************************)

JourneyWork == {"Quoting", "Quoted", "Create", "Funding", "Stage", "Submit", "Stopped", "Cancel"}

\* A request with its next step.
LEMMA NextJourney ==
    ASSUME requesting \in Journey, NEW step \in JourneyWork, NEW op \in Nat \cup {None}
    PROVE  LET j == [requesting EXCEPT !.work = step, !.op = op]
           IN  /\ j \in Journey /\ j # NoJourney /\ j.work = step /\ j.op = op
               /\ j.document = requesting.document /\ j.kind = requesting.kind
BY DEF Journey, NoJourney, JourneyWork

\* What stays when a request is formed, with the writing j names submitted.
LEMMA FormingKeeps ==
    ASSUME IInv, sending = None, slots["external"] = None,
           NEW j \in Journey, requesting' = j, j # NoJourney, WritingSubmitted' = j.document,
           UNCHANGED <<written, sending, slots, work, lifecycle, funded>>,
           drafts' \in [DraftIds -> Draft \cup {None}], submitted' \in Submission \cup {None},
           chosen' \in Submission \cup {None}, last_request' \in JourneyStatus,
           InWorkspace' \subseteq InWorkspace, WorkspaceFits(drafts', submitted', written),
           commands' \in Seq(SignedCommand), Len(commands') <= MaxCommands,
           Grows(commands, commands'),
           JourneySigned(commands', j), SubmissionKnown(commands', j), AnswersInOrder(commands'),
           CarriedOnce(commands'), CarriedSpent(commands', drafts', submitted', written)
    PROVE  IInv'
<1>1. TypeOK'
  BY DEF IInv, TypeOK
<1>2. WorkspaceFits(drafts', submitted', written') /\ WorkspaceSmall'
  BY SmallerWorkspace
<1>3. WritingSubmitted' = Journaled'
  BY DEF Journaled
<1>4. OneAtATime(sending', slots'["external"], requesting')
  BY DEF OneAtATime
<1>5. /\ SendSigned(commands', sending') /\ LetterSigned(commands', slots'["external"])
      /\ \A o \in Ops : WorkFits(commands', work'[o], o, sending', slots'["external"])
  <2>1. /\ SendSigned(commands, sending) /\ LetterSigned(commands, slots["external"])
        /\ \A o \in Ops : WorkFits(commands, work[o], o, sending, slots["external"])
    BY DEF IInv
  <2> QED
    BY <2>1, GrowthKeeps
<1> QED
  BY <1>1, <1>2, <1>3, <1>4, <1>5 DEF IInv

\* What stays when only the request's step changes.
LEMMA JourneyKeeps ==
    ASSUME IInv, requesting # NoJourney, NEW j \in Journey, requesting' = j,
           j # NoJourney, j.document = requesting.document,
           UNCHANGED <<drafts, submitted, written, chosen, sending, slots, work, lifecycle, funded>>,
           last_request' \in JourneyStatus,
           commands' \in Seq(SignedCommand), Len(commands') <= MaxCommands,
           Grows(commands, commands'),
           JourneySigned(commands', j), SubmissionKnown(commands', j), AnswersInOrder(commands'),
           CarriedOnce(commands'), CarriedSpent(commands', drafts, submitted, written)
    PROVE  IInv'
<1>1. /\ sending = None /\ slots["external"] = None
      /\ WritingSubmitted = requesting.document
  BY JourneyAlone
<1>2. /\ drafts \in [DraftIds -> Draft \cup {None}] /\ submitted \in Submission \cup {None}
      /\ chosen \in Submission \cup {None} /\ WorkspaceFits(drafts, submitted, written)
  BY DEF IInv, TypeOK
<1>3. WritingSubmitted' = j.document /\ InWorkspace' \subseteq InWorkspace
  BY <1>1 DEF WritingSubmitted, InWorkspace
<1> QED
  BY <1>1, <1>2, <1>3, FormingKeeps

\* A step that signs nothing.
LEMMA StepKeeps ==
    ASSUME IInv, requesting # NoJourney, NEW step \in JourneyWork, Step(step), step # "Submit",
           step \in {"Quoting", "Quoted"} => requesting.document = None,
           \A w \in Writing, o \in DOMAIN commands :
               w = requesting.document /\ CarriedBy(commands, o, w) =>
                   step \in {"Stopped", "Cancel"} /\ commands[o].answer \notin {"None", "Done"}
    PROVE  IInv'
<1> DEFINE j == [requesting EXCEPT !.work = step, !.op = None]
<1>1. /\ requesting \in Journey /\ j \in Journey /\ j # NoJourney /\ j.work = step /\ j.op = None
      /\ j.document = requesting.document
  <2>1. requesting \in Journey
    BY JourneyAlone
  <2> QED
    BY <2>1 DEF Journey, NoJourney, JourneyWork
<1>2. /\ requesting' = j /\ last_request' = last_request
      /\ UNCHANGED <<drafts, submitted, written, chosen, sending, slots, work, commands,
                     lifecycle, funded>>
  <2>1. PersistRequest(j, last_request) /\ UNCHANGED commands
    BY DEF Step
  <2> HIDE DEF j
  <2> QED
    BY <1>1, <2>1 DEF PersistRequest
<1> HIDE DEF j
<1>3. /\ AnswersInOrder(commands) /\ CarriedOnce(commands)
      /\ CarriedSpent(commands, drafts, submitted, written)
      /\ commands \in Seq(SignedCommand) /\ Len(commands) <= MaxCommands
      /\ last_request \in JourneyStatus
  BY DEF IInv, TypeOK
<1>4. JourneySigned(commands, j)
  BY <1>1 DEF JourneySigned
<1>5. SubmissionKnown(commands, j)
  BY <1>1 DEF SubmissionKnown
<1>6. Grows(commands, commands')
  BY <1>2 DEF Grows
<1> QED
  BY <1>1, <1>2, <1>3, <1>4, <1>5, <1>6, JourneyKeeps

\* Before its last stages the writing of a request was never submitted.
LEMMA NotYetSubmitted ==
    ASSUME IInv, requesting # NoJourney, requesting.work \notin {"Submit", "Stopped", "Cancel"}
    PROVE  \A w \in Writing, o \in DOMAIN commands :
               ~(w = requesting.document /\ CarriedBy(commands, o, w))
BY DEF IInv, SubmissionKnown

\* A request that stopped knows what became of its submission.
LEMMA StoppedRefused ==
    ASSUME IInv, requesting # NoJourney, requesting.work \in {"Submit", "Stopped", "Cancel"},
           requesting.work = "Submit" => Answer(JourneyOp) \notin {"None", "Done"}
    PROVE  \A w \in Writing, o \in DOMAIN commands :
               w = requesting.document /\ CarriedBy(commands, o, w) =>
                   commands[o].answer \notin {"None", "Done"}
BY DEF IInv, SubmissionKnown, Answer, JourneyOp

\* The submission, which carries the writing for the first time, or a cancellation.
LEMMA SignKeeps ==
    ASSUME IInv, requesting # NoJourney, NEW kind, NEW step, Sign(kind, step),
           \/ step = "Submit" /\ kind \in {"Submit", "Followup"} /\ requesting.work = "Stage"
           \/ step = "Cancel" /\ kind = "Cancel" /\ requesting.work \in {"Funding", "Stage", "Stopped"}
    PROVE  IInv'
<1> DEFINE n == Len(commands) + 1
           j == [requesting EXCEPT !.work = step, !.op = n]
           c == Command(kind, requesting.request, requesting.document)
<1>1. /\ TypeOK /\ AnswersInOrder(commands) /\ CarriedOnce(commands)
      /\ CarriedSpent(commands, drafts, submitted, written)
      /\ SubmissionKnown(commands, requesting)
      /\ commands \in Seq(SignedCommand) /\ Len(commands) \in Nat
      /\ n \in Nat
  BY DEF IInv, TypeOK
<1>2. /\ requesting \in Journey /\ j \in Journey /\ j # NoJourney /\ j.work = step /\ j.op = n
      /\ j.document = requesting.document
  <2>1. requesting \in Journey
    BY JourneyAlone
  <2>2. step \in JourneyWork /\ n \in Nat \cup {None}
    BY <1>1 DEF JourneyWork
  <2> QED
    BY <2>1, <2>2, NextJourney
<1>3. /\ requesting' = j /\ last_request' = last_request
      /\ commands' = Append(commands, c) /\ Len(commands) + 1 <= MaxCommands
      /\ UNCHANGED <<drafts, submitted, written, chosen, sending, slots, work, lifecycle, funded>>
  <2>1. /\ PersistRequest(j, last_request) /\ Room(1)
        /\ commands' = Append(commands, c)
    BY DEF Sign, NextOp
  <2> HIDE DEF j, c
  <2> QED
    BY <1>2, <2>1 DEF PersistRequest, Room
<1>4. /\ c \in SignedCommand /\ c.answer = "None" /\ c.kind = kind
      /\ c.writing = requesting.document
  BY <1>2 DEF SignedCommand, Command, Journey
<1> HIDE DEF c, j
<1>5. /\ commands' \in Seq(SignedCommand) /\ Len(commands') = n /\ n \in DOMAIN commands'
      /\ DOMAIN commands' = DOMAIN commands \cup {n} /\ commands'[n] = c
      /\ \A o \in DOMAIN commands : commands'[o] = commands[o]
      /\ Grows(commands, commands') /\ AnswersInOrder(commands')
  BY <1>1, <1>3, <1>4, AppendParts
<1>6. ASSUME NEW w \in Writing, c.kind \in Delivering, c.writing = w
      PROVE  /\ \A o \in DOMAIN commands : ~CarriedBy(commands, o, w)
             /\ Spent(w, drafts, submitted, written)
  <2>1. requesting.work = "Stage" /\ w = requesting.document
    BY <1>4, <1>6 DEF Delivering
  <2>2. \A o \in DOMAIN commands : ~CarriedBy(commands, o, w)
    BY <2>1, NotYetSubmitted
  <2>3. WritingSubmitted = w
    BY <2>1, JourneyAlone
  <2>4. submitted # None /\ submitted.id = w.id /\ submitted.revision = w.revision
    BY <2>3, NoneIsAbsence DEF WritingSubmitted
  <2>5. WorkspaceFits(drafts, submitted, written) /\ submitted.revision \in Nat
    BY <2>4 DEF IInv, TypeOK, Submission
  <2>6. Spent(w, drafts, submitted, written)
    BY <2>4, <2>5 DEF WorkspaceFits, Spent
  <2> QED
    BY <2>2, <2>6
<1>7. CarriedOnce(commands') /\ CarriedSpent(commands', drafts, submitted, written)
  BY <1>1, <1>3, <1>4, <1>6, AppendCarried
<1>8. JourneySigned(commands', j)
  BY <1>2, <1>4, <1>5 DEF JourneySigned
<1>9. SubmissionKnown(commands', j)
  <2> SUFFICES ASSUME NEW w \in Writing, NEW o \in DOMAIN commands', w = j.document,
                      CarriedBy(commands', o, w)
               PROVE  /\ j.work \in {"Submit", "Stopped", "Cancel"}
                      /\ j.work = "Submit" => o = j.op
                      /\ j.work # "Submit" => commands'[o].answer \notin {"None", "Done"}
    BY DEF SubmissionKnown
  <2>1. CASE o = n
    <3>1. kind \in Delivering
      BY <1>4, <1>5, <2>1 DEF CarriedBy
    <3> QED
      BY <1>2, <2>1, <3>1 DEF Delivering
  <2>2. CASE o \in DOMAIN commands
    <3>1. CarriedBy(commands, o, w) /\ w = requesting.document /\ commands'[o] = commands[o]
      BY <1>2, <1>5, <2>2 DEF CarriedBy
    <3>2. requesting.work \in {"Submit", "Stopped", "Cancel"}
      BY <2>2, <3>1, NotYetSubmitted
    <3>3. requesting.work = "Stopped" /\ step = "Cancel"
      BY <3>2
    <3>4. commands[o].answer \notin {"None", "Done"}
      BY <2>2, <3>1, <3>3, StoppedRefused
    <3> QED
      BY <1>2, <3>1, <3>3, <3>4
  <2> QED
    BY <1>5, <2>1, <2>2
<1>10. Len(commands') <= MaxCommands /\ last_request' \in JourneyStatus
  BY <1>1, <1>3, <1>5 DEF TypeOK
<1> QED
  BY <1>2, <1>3, <1>5, <1>7, <1>8, <1>9, <1>10, JourneyKeeps
\* A request is begun, with terms to be quoted.
LEMMA QuoteKeeps == ASSUME IInv, NEW r \in Requests, QuoteRequest(r) PROVE IInv'
<1> DEFINE n == Len(commands) + 1
           j == [kind |-> "Initial", request |-> r, work |-> "Quoting", op |-> n, document |-> None]
           c == Command("Quote", r, None)
<1>1. /\ TypeOK /\ AnswersInOrder(commands) /\ CarriedOnce(commands)
      /\ CarriedSpent(commands, drafts, submitted, written)
      /\ commands \in Seq(SignedCommand) /\ Len(commands) \in Nat /\ n \in Nat
      /\ sending = None /\ slots["external"] = None /\ requesting = NoJourney
      /\ drafts \in [DraftIds -> Draft \cup {None}] /\ submitted \in Submission \cup {None}
      /\ chosen \in Submission \cup {None} /\ WorkspaceFits(drafts, submitted, written)
  BY DEF IInv, TypeOK, QuoteRequest, Idle, Slots
<1>2. submitted = None
  <2>1. Journaled = None
    BY <1>1 DEF Journaled
  <2> QED
    BY <2>1, NothingSubmitted
<1>3. /\ j \in Journey /\ j # NoJourney /\ j.document = None /\ j.work = "Quoting"
      /\ c \in SignedCommand /\ c.answer = "None" /\ c.kind = "Quote"
  BY <1>1 DEF Journey, NoJourney, SignedCommand, Command
<1>4. /\ PersistRequest(j, "None") /\ commands' = Append(commands, c)
      /\ Len(commands) + 1 <= MaxCommands
  BY DEF QuoteRequest, NextOp, Room
<1> HIDE DEF j, c
<1>5. /\ requesting' = j /\ last_request' = "None"
      /\ UNCHANGED <<drafts, submitted, written, chosen, sending, slots, work, lifecycle, funded>>
  BY <1>3, <1>4 DEF PersistRequest
<1>6. /\ commands' \in Seq(SignedCommand) /\ Len(commands') = n
      /\ Grows(commands, commands') /\ AnswersInOrder(commands')
  BY <1>1, <1>3, <1>4, AppendParts
<1>7. /\ CarriedOnce(commands') /\ CarriedSpent(commands', drafts, submitted, written)
  <2>1. c.kind \notin Delivering
    BY <1>3 DEF Delivering
  <2> QED
    BY <1>1, <1>3, <1>4, <2>1, AppendCarried
<1>8. JourneySigned(commands', j) /\ SubmissionKnown(commands', j)
  BY <1>3, NoneIsAbsence DEF JourneySigned, SubmissionKnown
<1>9. /\ WritingSubmitted' = j.document /\ InWorkspace' \subseteq InWorkspace
      /\ Len(commands') <= MaxCommands /\ last_request' \in JourneyStatus
  BY <1>2, <1>3, <1>4, <1>5, <1>6 DEF WritingSubmitted, InWorkspace, JourneyStatus
<1> QED
  BY <1>1, <1>3, <1>5, <1>6, <1>7, <1>8, <1>9, FormingKeeps

\* The terms reviewed are authorized, with the writing submitted.
LEMMA AuthorizeKeeps == ASSUME IInv, AuthorizeRequest PROVE IInv'
<1> DEFINE n == Len(commands) + 1
           j == [requesting EXCEPT !.work = "Create", !.op = n, !.document = Chosen]
           c == Command("Create", requesting.request, None)
<1>1. /\ TypeOK /\ AnswersInOrder(commands) /\ CarriedOnce(commands)
      /\ commands \in Seq(SignedCommand) /\ Len(commands) \in Nat /\ n \in Nat
      /\ requesting # NoJourney /\ requesting.work = "Quoted"
      /\ JourneySigned(commands, requesting)
  BY DEF IInv, TypeOK, AuthorizeRequest, Working
<1>2. /\ sending = None /\ slots["external"] = None /\ requesting \in Journey
      /\ Journaled = None
  BY <1>1, JourneyAlone DEF JourneySigned
<1>3. /\ CommitDraft("Request") /\ commands' = Append(commands, c)
      /\ Len(commands) + 1 <= MaxCommands /\ requesting' = j
      /\ UNCHANGED <<written, last_request, sending, slots, work, lifecycle, funded>>
  BY DEF AuthorizeRequest, NextOp, Room
<1>4. /\ drafts' \in [DraftIds -> Draft \cup {None}] /\ submitted' \in Submission \cup {None}
      /\ chosen' \in Submission \cup {None} /\ Chosen \in Writing \cup {None}
      /\ WritingSubmitted' = Chosen /\ InWorkspace' = InWorkspace
      /\ WorkspaceFits(drafts', submitted', written)
      /\ CarriedSpent(commands, drafts', submitted', written)
      /\ \A w \in Writing : w = Chosen => \A o \in DOMAIN commands : ~CarriedBy(commands, o, w)
  BY <1>2, <1>3, CommitLeaves
<1>5. /\ j \in Journey /\ j # NoJourney /\ j.document = Chosen /\ j.work = "Create"
  BY <1>1, <1>2, <1>4 DEF Journey, NoJourney
<1>6. c \in SignedCommand /\ c.answer = "None" /\ c.kind = "Create"
  BY <1>2 DEF Journey, SignedCommand, Command
<1> HIDE DEF j, c
<1>7. /\ commands' \in Seq(SignedCommand) /\ Len(commands') = n
      /\ Grows(commands, commands') /\ AnswersInOrder(commands')
  BY <1>1, <1>3, <1>6, AppendParts
<1>8. SubmissionKnown(commands, j)
  BY <1>4, <1>5 DEF SubmissionKnown
<1>9. /\ CarriedOnce(commands') /\ CarriedSpent(commands', drafts', submitted', written)
      /\ SubmissionKnown(commands', j)
  <2>1. c.kind \notin Delivering
    BY <1>6 DEF Delivering
  <2> QED
    BY <1>1, <1>3, <1>4, <1>6, <1>8, <2>1, AppendCarried
<1>10. JourneySigned(commands', j)
  BY <1>5 DEF JourneySigned
<1>11. /\ InWorkspace' \subseteq InWorkspace /\ WritingSubmitted' = j.document
       /\ Len(commands') <= MaxCommands /\ last_request' \in JourneyStatus
  BY <1>1, <1>3, <1>4, <1>5, <1>7 DEF TypeOK
<1> QED
  BY <1>2, <1>3, <1>4, <1>5, <1>7, <1>9, <1>10, <1>11, FormingKeeps

\* A follow-up is staged at once.
LEMMA FollowupKeeps == ASSUME IInv, NEW r \in Requests, SendFollowup(r) PROVE IInv'
<1> DEFINE j == [kind |-> "Followup", request |-> r, work |-> "Stage", op |-> None,
                 document |-> Chosen]
<1>1. /\ TypeOK /\ AnswersInOrder(commands) /\ CarriedOnce(commands)
      /\ commands \in Seq(SignedCommand) /\ Len(commands) <= MaxCommands
      /\ sending = None /\ slots["external"] = None /\ requesting = NoJourney
  BY DEF IInv, TypeOK, SendFollowup, Idle, Slots
<1>2. Journaled = None
  BY <1>1 DEF Journaled
<1>3. /\ CommitDraft("Followup") /\ requesting' = j
      /\ UNCHANGED <<written, last_request, sending, slots, work, commands, lifecycle, funded>>
  BY DEF SendFollowup
<1>4. /\ drafts' \in [DraftIds -> Draft \cup {None}] /\ submitted' \in Submission \cup {None}
      /\ chosen' \in Submission \cup {None} /\ Chosen \in Writing \cup {None}
      /\ WritingSubmitted' = Chosen /\ InWorkspace' = InWorkspace
      /\ WorkspaceFits(drafts', submitted', written)
      /\ CarriedSpent(commands, drafts', submitted', written)
      /\ \A w \in Writing : w = Chosen => \A o \in DOMAIN commands : ~CarriedBy(commands, o, w)
  BY <1>2, <1>3, CommitLeaves
<1>5. /\ j \in Journey /\ j # NoJourney /\ j.document = Chosen /\ j.work = "Stage"
  BY <1>4 DEF Journey, NoJourney
<1> HIDE DEF j
<1>6. SubmissionKnown(commands, j) /\ JourneySigned(commands, j)
  BY <1>4, <1>5 DEF SubmissionKnown, JourneySigned
<1>7. /\ Grows(commands, commands') /\ InWorkspace' \subseteq InWorkspace
      /\ WritingSubmitted' = j.document /\ last_request' \in JourneyStatus
  BY <1>1, <1>3, <1>4, <1>5 DEF Grows, TypeOK
<1> QED
  BY <1>1, <1>3, <1>4, <1>5, <1>6, <1>7, FormingKeeps

\* A submission or a cancellation was refused: nothing is tried again.
LEMMA StopKeeps ==
    ASSUME IInv, requesting # NoJourney, requesting.work \in {"Submit", "Cancel"},
           Answer(JourneyOp) = "Refused", UNCHANGED commands,
           PersistRequest([requesting EXCEPT !.work = "Stopped", !.op = None], "Refused")
    PROVE  IInv'
<1> DEFINE j == [requesting EXCEPT !.work = "Stopped", !.op = None]
<1>1. /\ j \in Journey /\ j # NoJourney /\ j.work = "Stopped" /\ j.document = requesting.document
  <2>1. requesting \in Journey
    BY JourneyAlone
  <2> QED
    BY <2>1 DEF Journey, NoJourney
<1>2. PersistRequest(j, "Refused")
  OBVIOUS
<1> HIDE DEF j
<1>3. /\ requesting' = j /\ last_request' = "Refused"
      /\ UNCHANGED <<drafts, submitted, written, chosen, sending, slots, work, commands,
                     lifecycle, funded>>
  BY <1>1, <1>2 DEF PersistRequest
<1>4. /\ AnswersInOrder(commands) /\ CarriedOnce(commands)
      /\ CarriedSpent(commands, drafts, submitted, written)
      /\ commands \in Seq(SignedCommand) /\ Len(commands) <= MaxCommands
  BY DEF IInv, TypeOK
<1>5. SubmissionKnown(commands, j)
  BY <1>1, StoppedRefused DEF SubmissionKnown
<1>6. JourneySigned(commands, j) /\ Grows(commands, commands') /\ "Refused" \in JourneyStatus
  BY <1>1, <1>3 DEF JourneySigned, Grows, JourneyStatus
<1> QED
  BY <1>1, <1>3, <1>4, <1>5, <1>6, JourneyKeeps

\* The steps that follow an answer or an observation.
LEMMA LearnKeeps ==
    ASSUME IInv, \/ LearnQuote \/ LearnCreated \/ ObserveFunding \/ ObserveStopped
                 \/ StageDocument \/ LearnSubmitted \/ LearnCancelled
    PROVE  IInv'
<1>1. CASE LearnQuote
  <2>1. requesting # NoJourney /\ requesting.work = "Quoting"
    BY <1>1 DEF LearnQuote, Working
  <2>2. CASE Step("Quoted")
    <3>1. requesting.document = None
      BY <2>1 DEF IInv, JourneySigned
    <3> QED
      BY <2>1, <2>2, <3>1, NotYetSubmitted, StepKeeps DEF JourneyWork
  <2>3. CASE End("Refused") \/ End("CommunicationAvailable")
    BY <2>1, <2>3, EndKeeps DEF JourneyStatus
  <2> QED
    BY <1>1, <2>2, <2>3 DEF LearnQuote
<1>2. CASE LearnCreated
  <2>1. requesting # NoJourney /\ requesting.work = "Create"
    BY <1>2 DEF LearnCreated, Working
  <2>2. CASE Step("Funding")
    BY <2>1, <2>2, NotYetSubmitted, StepKeeps DEF JourneyWork
  <2>3. CASE End("Refused")
    BY <2>1, <2>3, EndKeeps DEF JourneyStatus
  <2> QED
    BY <1>2, <2>2, <2>3 DEF LearnCreated
<1>3. CASE ObserveFunding
  <2>1. requesting # NoJourney /\ requesting.work = "Funding"
    BY <1>3 DEF ObserveFunding, Working
  <2>2. CASE Step("Stage")
    BY <2>1, <2>2, NotYetSubmitted, StepKeeps DEF JourneyWork
  <2>3. CASE End("Changed")
    BY <2>1, <2>3, EndKeeps DEF JourneyStatus
  <2> QED
    BY <1>3, <2>2, <2>3 DEF ObserveFunding
<1>4. CASE ObserveStopped
  <2>1. requesting # NoJourney /\ End("Changed")
    BY <1>4 DEF ObserveStopped, Working
  <2> QED
    BY <2>1, EndKeeps DEF JourneyStatus
<1>5. CASE StageDocument
  <2>1. requesting # NoJourney /\ requesting.work = "Stage"
    BY <1>5 DEF StageDocument, Working
  <2>2. CASE End("Changed")
    BY <2>1, <2>2, EndKeeps DEF JourneyStatus
  <2>3. CASE Sign(IF Initial THEN "Submit" ELSE "Followup", "Submit")
    <3>1. (IF Initial THEN "Submit" ELSE "Followup") \in {"Submit", "Followup"}
      OBVIOUS
    <3> QED
      BY <2>1, <2>3, <3>1, SignKeeps
  <2> QED
    BY <1>5, <2>2, <2>3 DEF StageDocument
<1>6. CASE LearnSubmitted
  <2>1. requesting # NoJourney /\ requesting.work = "Submit"
    BY <1>6 DEF LearnSubmitted, Working
  <2>2. CASE End(IF Initial THEN "Submitted" ELSE "FollowupSent") \/ End("Refused")
    <3>1. (IF Initial THEN "Submitted" ELSE "FollowupSent") \in JourneyStatus
      BY DEF JourneyStatus
    <3> QED
      BY <2>1, <2>2, <3>1, EndKeeps DEF JourneyStatus
  <2>3. CASE /\ Answer(JourneyOp) = "Refused" /\ UNCHANGED commands
             /\ PersistRequest([requesting EXCEPT !.work = "Stopped", !.op = None], "Refused")
    BY <2>1, <2>3, StopKeeps
  <2> QED
    BY <1>6, <2>2, <2>3 DEF LearnSubmitted
<1>7. CASE LearnCancelled
  <2>1. requesting # NoJourney /\ requesting.work = "Cancel"
    BY <1>7 DEF LearnCancelled, Working
  <2>2. CASE End("Cancelled")
    BY <2>1, <2>2, EndKeeps DEF JourneyStatus
  <2>3. CASE /\ Answer(JourneyOp) = "Refused" /\ UNCHANGED commands
             /\ PersistRequest([requesting EXCEPT !.work = "Stopped", !.op = None], "Refused")
    BY <2>1, <2>3, StopKeeps
  <2> QED
    BY <1>7, <2>2, <2>3 DEF LearnCancelled
<1> QED
  BY <1>1, <1>2, <1>3, <1>4, <1>5, <1>6, <1>7

\* The member cancels, at whatever stage.
LEMMA CancelKeeps == ASSUME IInv, CancelRequest PROVE IInv'
<1>1. requesting # NoJourney /\ last_request \in JourneyStatus
  BY DEF CancelRequest, ReconcileBeforeCancel, IInv, TypeOK
<1>2. CASE requesting.work \in {"Quoting", "Quoted"} /\ End(last_request)
  BY <1>1, <1>2, EndKeeps
<1>3. CASE ReconcileBeforeCancel
  <2>1. requesting.work \in {"Create", "Submit", "Cancel"} /\ Answer(JourneyOp) # "None"
    BY <1>3 DEF ReconcileBeforeCancel
  <2>2. CASE requesting.work # "Create" /\ Answer(JourneyOp) = "Done"
    <3> DEFINE status == IF requesting.work = "Cancel" THEN "Cancelled"
                         ELSE IF Initial THEN "Submitted" ELSE "FollowupSent"
    <3>1. End(status)
      BY <1>3, <2>2 DEF ReconcileBeforeCancel
    <3>2. status \in JourneyStatus
      BY DEF JourneyStatus
    <3> HIDE DEF status
    <3> QED
      BY <1>1, <3>1, <3>2, EndKeeps
  <2>3. CASE requesting.work = "Create" /\ Answer(JourneyOp) = "Refused"
    <3>1. End("Refused")
      BY <1>3, <2>3 DEF ReconcileBeforeCancel
    <3> QED
      BY <1>1, <3>1, EndKeeps DEF JourneyStatus
  <2>4. CASE /\ ~(requesting.work # "Create" /\ Answer(JourneyOp) = "Done")
             /\ ~(requesting.work = "Create" /\ Answer(JourneyOp) = "Refused")
    <3>1. Step("Stopped")
      BY <1>3, <2>4 DEF ReconcileBeforeCancel
    <3>2. \A w \in Writing, o \in DOMAIN commands :
             w = requesting.document /\ CarriedBy(commands, o, w) =>
                 commands[o].answer \notin {"None", "Done"}
      <4>1. CASE requesting.work = "Create"
        BY <1>1, <4>1, NotYetSubmitted
      <4>2. CASE requesting.work # "Create"
        BY <1>1, <2>1, <2>4, <4>2, StoppedRefused
      <4> QED
        BY <4>1, <4>2
    <3> QED
      BY <1>1, <3>1, <3>2, StepKeeps DEF JourneyWork
  <2> QED
    BY <2>2, <2>3, <2>4
<1>4. CASE requesting.work \in {"Funding", "Stage", "Stopped"} /\ End(last_request)
  BY <1>1, <1>4, EndKeeps
<1>5. CASE requesting.work \in {"Funding", "Stage", "Stopped"} /\ End("Changed")
  BY <1>1, <1>5, EndKeeps DEF JourneyStatus
<1>6. CASE requesting.work \in {"Funding", "Stage", "Stopped"} /\ Sign("Cancel", "Cancel")
  BY <1>1, <1>6, SignKeeps
<1> QED
  BY <1>2, <1>3, <1>4, <1>5, <1>6 DEF CancelRequest, Initial
-----------------------------------------------------------------------------
(***************************************************************************)
(* The editor.                                                             *)
(***************************************************************************)

\* What stays when only the editor changes.
LEMMA EditorKeeps ==
    ASSUME IInv,
           UNCHANGED <<submitted, requesting, last_request, sending, slots, work, commands,
                       lifecycle, funded>>,
           drafts' \in [DraftIds -> Draft \cup {None}],
           written' \in [DraftIds -> {"New", "Kept", "Discarded"}],
           chosen' \in Submission \cup {None},
           WorkspaceSmall', WorkspaceFits(drafts', submitted, written'),
           CarriedSpent(commands, drafts', submitted, written')
    PROVE  IInv'
<1>1. TypeOK'
  BY DEF IInv, TypeOK
<1>2. WritingSubmitted' = Journaled'
  <2>1. WritingSubmitted = Journaled
    BY DEF IInv
  <2>2. WritingSubmitted' = WritingSubmitted /\ Journaled' = Journaled
    BY DEF WritingSubmitted, Journaled
  <2> QED
    BY <2>1, <2>2
<1>3. /\ OneAtATime(sending', slots'["external"], requesting') /\ SendSigned(commands', sending')
      /\ LetterSigned(commands', slots'["external"]) /\ JourneySigned(commands', requesting')
      /\ SubmissionKnown(commands', requesting') /\ AnswersInOrder(commands')
      /\ \A o \in Ops : WorkFits(commands', work'[o], o, sending', slots'["external"])
      /\ CarriedOnce(commands')
  BY DEF IInv
<1> QED
  BY <1>1, <1>2, <1>3 DEF IInv

LEMMA OpenKeeps ==
    ASSUME IInv, NEW d \in DraftIds, NEW target \in Kinds, OpenDraft(d, target)
    PROVE  IInv'
<1> DEFINE new == [revision |-> 1, target |-> target]
<1>1. /\ TypeOK /\ WorkspaceFits(drafts, submitted, written) /\ WorkspaceSmall
      /\ CarriedSpent(commands, drafts, submitted, written)
  BY DEF IInv
<1>2. /\ written[d] = "New" /\ Cardinality(InWorkspace) < MaxWriting
      /\ drafts' = [drafts EXCEPT ![d] = new] /\ written' = [written EXCEPT ![d] = "Kept"]
      /\ UNCHANGED <<submitted, chosen, requesting, last_request, sending, slots, work,
                     commands, lifecycle, funded>>
  BY DEF OpenDraft
<1>3. new \in Draft /\ new # None
  BY NoneIsAbsence DEF Draft
<1> HIDE DEF new
<1>4. /\ drafts' \in [DraftIds -> Draft \cup {None}] /\ drafts'[d] = new
      /\ \A x \in DraftIds \ {d} : drafts'[x] = drafts[x]
      /\ written' \in [DraftIds -> {"New", "Kept", "Discarded"}] /\ written'[d] = "Kept"
      /\ \A x \in DraftIds \ {d} : written'[x] = written[x]
  BY <1>1, <1>2, <1>3 DEF TypeOK
<1>5. submitted # None => submitted.id # d /\ submitted.id \in DraftIds
  BY <1>1, <1>2 DEF WorkspaceFits, TypeOK, Submission
<1>6. WorkspaceFits(drafts', submitted, written')
  BY <1>1, <1>4, <1>5 DEF WorkspaceFits
<1>7. CarriedSpent(commands, drafts', submitted, written')
  <2> SUFFICES ASSUME NEW w \in Writing, NEW o \in DOMAIN commands, CarriedBy(commands, o, w)
               PROVE  Spent(w, drafts', submitted, written')
    BY DEF CarriedSpent
  <2>1. Spent(w, drafts, submitted, written) /\ w.id \in DraftIds
    BY <1>1 DEF CarriedSpent, Writing
  <2>2. w.id # d
    BY <1>2, <2>1 DEF Spent
  <2> QED
    BY <1>4, <2>1, <2>2 DEF Spent
<1>8. WorkspaceSmall'
  <2>1. InWorkspace' = InWorkspace \cup {d}
    BY <1>2, <1>3, <1>4 DEF InWorkspace
  <2>2. IsFiniteSet(InWorkspace)
    BY <1>1 DEF WorkspaceSmall
  <2>3. /\ IsFiniteSet(InWorkspace')
        /\ Cardinality(InWorkspace') \in {Cardinality(InWorkspace), Cardinality(InWorkspace) + 1}
    BY <2>1, <2>2, FS_AddElement
  <2>4. Cardinality(InWorkspace) \in Nat /\ MaxWriting \in Nat
    BY <2>2, FS_CardinalityType, ClientConstants
  <2> QED
    BY <1>2, <2>3, <2>4 DEF WorkspaceSmall
<1>9. chosen' \in Submission \cup {None}
  BY <1>1, <1>2 DEF TypeOK
<1> QED
  BY <1>2, <1>4, <1>6, <1>7, <1>8, <1>9, EditorKeeps

\* One draft replaced by a later revision, or gone.
LEMMA DraftChanges ==
    ASSUME IInv, NEW d \in DraftIds, drafts[d] # None, NEW v \in Draft \cup {None},
           v # None => v.revision > drafts[d].revision, drafts' = [drafts EXCEPT ![d] = v],
           NEW known \in {"Kept", "Discarded"}, written' = [written EXCEPT ![d] = known],
           UNCHANGED <<submitted, chosen, requesting, last_request, sending, slots, work,
                       commands, lifecycle, funded>>
    PROVE  IInv'
<1>1. /\ TypeOK /\ WorkspaceFits(drafts, submitted, written) /\ WorkspaceSmall
      /\ CarriedSpent(commands, drafts, submitted, written)
  BY DEF IInv
<1>2. /\ drafts' \in [DraftIds -> Draft \cup {None}] /\ drafts'[d] = v
      /\ \A x \in DraftIds \ {d} : drafts'[x] = drafts[x]
      /\ written' \in [DraftIds -> {"New", "Kept", "Discarded"}] /\ written'[d] = known
      /\ \A x \in DraftIds \ {d} : written'[x] = written[x]
  BY <1>1 DEF TypeOK
<1>3. submitted # None => submitted.id # d /\ submitted.id \in DraftIds
  BY <1>1 DEF WorkspaceFits, TypeOK, Submission
<1>4. WorkspaceFits(drafts', submitted, written')
  BY <1>1, <1>2, <1>3 DEF WorkspaceFits
<1>5. CarriedSpent(commands, drafts', submitted, written')
  <2> SUFFICES ASSUME NEW w \in Writing, NEW o \in DOMAIN commands, CarriedBy(commands, o, w)
               PROVE  Spent(w, drafts', submitted, written')
    BY DEF CarriedSpent
  <2>1. Spent(w, drafts, submitted, written) /\ w.id \in DraftIds /\ w.revision \in Nat
    BY <1>1 DEF CarriedSpent, Writing
  <2>2. w.id = d => drafts[d].revision > w.revision
    BY <2>1 DEF Spent
  <2>3. drafts[d].revision \in Nat /\ (v # None => v.revision \in Nat)
    BY <1>1 DEF TypeOK, Draft
  <2> QED
    BY <1>2, <2>1, <2>2, <2>3 DEF Spent
<1>6. InWorkspace' \subseteq InWorkspace
  BY <1>2 DEF InWorkspace
<1>7. WorkspaceSmall' /\ chosen' \in Submission \cup {None}
  BY <1>1, <1>6, SmallerWorkspace DEF TypeOK
<1> QED
  BY <1>2, <1>4, <1>5, <1>7, EditorKeeps

LEMMA EditKeeps ==
    ASSUME IInv, NEW d \in DraftIds, NEW target \in Kinds, EditDraft(d, target)
    PROVE  IInv'
<1> DEFINE v == [revision |-> drafts[d].revision + 1, target |-> target]
<1>1. /\ TypeOK /\ WorkspaceFits(drafts, submitted, written)
  BY DEF IInv
<1>2. /\ drafts[d] # None /\ drafts' = [drafts EXCEPT ![d] = v]
      /\ UNCHANGED <<submitted, written, chosen, requesting, last_request, sending, slots, work,
                     commands, lifecycle, funded>>
  BY DEF EditDraft
<1>3. drafts[d] \in Draft /\ drafts[d].revision \in Nat
  BY <1>1, <1>2 DEF TypeOK, Draft
<1>4. v \in Draft \cup {None} /\ v.revision > drafts[d].revision
  BY <1>3 DEF Draft
<1> HIDE DEF v
<1>5. written[d] \in {"Kept", "Discarded"} /\ written' = [written EXCEPT ![d] = written[d]]
  BY <1>1, <1>2 DEF TypeOK, WorkspaceFits
<1> QED
  BY <1>2, <1>4, <1>5, DraftChanges

LEMMA DiscardKeeps == ASSUME IInv, NEW d \in DraftIds, DiscardDraft(d) PROVE IInv'
<1>1. /\ drafts[d] # None /\ drafts' = [drafts EXCEPT ![d] = None]
      /\ written' = [written EXCEPT ![d] = "Discarded"]
      /\ UNCHANGED <<submitted, chosen, requesting, last_request, sending, slots, work,
                     commands, lifecycle, funded>>
  BY DEF DiscardDraft
<1>2. None \in Draft \cup {None}
  OBVIOUS
<1> QED
  BY <1>1, <1>2, DraftChanges

LEMMA ChoiceKeeps ==
    ASSUME IInv, (\E d \in DraftIds : ChooseDraft(d)) \/ AbandonChoice
    PROVE  IInv'
<1>1. UNCHANGED <<drafts, submitted, written, requesting, last_request, sending, slots, work,
                  commands, lifecycle, funded>>
  BY DEF ChooseDraft, AbandonChoice, device
<1>2. /\ TypeOK /\ WorkspaceFits(drafts, submitted, written) /\ WorkspaceSmall
      /\ CarriedSpent(commands, drafts, submitted, written)
  BY DEF IInv
<1>3. chosen' \in Submission \cup {None}
  <2>1. CASE AbandonChoice
    BY <2>1 DEF AbandonChoice
  <2>2. ASSUME NEW d \in DraftIds, ChooseDraft(d) PROVE chosen' \in Submission
    <3>1. drafts[d] \in Draft
      BY <1>2, <2>2 DEF ChooseDraft, TypeOK
    <3> QED
      BY <2>2, <3>1 DEF ChooseDraft, Submission, Draft
  <2> QED
    BY <2>1, <2>2
<1>4. WorkspaceSmall'
  BY <1>1, <1>2 DEF WorkspaceSmall, InWorkspace
<1>5. /\ drafts' \in [DraftIds -> Draft \cup {None}]
      /\ written' \in [DraftIds -> {"New", "Kept", "Discarded"}]
      /\ WorkspaceFits(drafts', submitted, written')
      /\ CarriedSpent(commands, drafts', submitted, written')
  BY <1>1, <1>2 DEF TypeOK
<1> QED
  BY <1>1, <1>3, <1>4, <1>5, EditorKeeps
-----------------------------------------------------------------------------
(***************************************************************************)
(* Messages and letters.                                                   *)
(***************************************************************************)

LEMMA IdleJournal ==
    ASSUME IInv, Idle
    PROVE  /\ requesting = NoJourney /\ sending = None /\ slots["external"] = None
           /\ Journaled = None
BY DEF Idle, Slots, Journaled

\* A command c that carries the draft chosen follows the commands E, and its
\* message is recorded.
LEMMA CarryingCommand ==
    ASSUME IInv, Idle, NEW E \in Seq(SignedCommand), NEW c \in SignedCommand, NEW target,
           c.answer = "None", c.kind \in {"Send", "Letter"}, c.writing = Chosen,
           Grows(commands, E), AnswersInOrder(E), CarriedOnce(E),
           CommitDraft(target), CarriedSpent(E, drafts', submitted', written),
           \A w \in Writing : w = Chosen => \A o \in DOMAIN E : ~CarriedBy(E, o, w),
           commands' = Append(E, c), Len(E) + 1 <= MaxCommands, Prepare(Len(E) + 1),
           UNCHANGED <<written, requesting, last_request, lifecycle, funded>>,
           sending' \in Sending \cup {None}, slots' \in [Slots -> Nat \cup {None}]
    PROVE  LET o == Len(E) + 1
           IN  /\ TypeOK' /\ WorkspaceFits(drafts', submitted', written') /\ WorkspaceSmall'
               /\ WritingSubmitted' = Chosen /\ requesting' = NoJourney
               /\ SubmissionKnown(commands', requesting') /\ AnswersInOrder(commands')
               /\ CarriedOnce(commands') /\ CarriedSpent(commands', drafts', submitted', written')
               /\ Grows(E, commands') /\ o \in DOMAIN commands' /\ commands'[o] = c
               /\ o \in Ops /\ work'[o] = "AwaitingConfirmation"
               /\ \A k \in Ops \ {o} : WorkFits(commands', work'[k], k, None, None)
<1> DEFINE o == Len(E) + 1
<1>1. /\ requesting = NoJourney /\ sending = None /\ slots["external"] = None
      /\ Journaled = None
  BY IdleJournal
<1>2. /\ drafts' \in [DraftIds -> Draft \cup {None}] /\ submitted' \in Submission \cup {None}
      /\ chosen' \in Submission \cup {None} /\ Chosen \in Writing \cup {None}
      /\ WritingSubmitted' = Chosen /\ InWorkspace' = InWorkspace
      /\ WorkspaceFits(drafts', submitted', written)
      /\ \A w \in Writing : w = Chosen => Spent(w, drafts', submitted', written)
  BY <1>1, CommitLeaves
<1>3. /\ commands' \in Seq(SignedCommand) /\ Len(commands') = o /\ o \in Nat /\ Len(E) \in Nat
      /\ DOMAIN commands' = DOMAIN E \cup {o} /\ commands'[o] = c
      /\ Grows(E, commands') /\ AnswersInOrder(commands')
  BY AppendParts
<1>4. /\ CarriedOnce(commands') /\ CarriedSpent(commands', drafts', submitted', written)
  BY <1>2, AppendCarried
<1>5. TypeOK /\ work \in [Ops -> {"None", "AwaitingConfirmation", "Committed", "Queued", "Refused"}]
  BY DEF IInv, TypeOK
<1>6. MaxCommands \in Nat
  BY ClientConstants
<1>7. o \in Ops
  BY <1>3, <1>6 DEF Ops
<1> HIDE DEF o
<1>8. work' = [work EXCEPT ![o] = "AwaitingConfirmation"]
  BY DEF Prepare, o
<1>9. /\ work'[o] = "AwaitingConfirmation" /\ \A k \in Ops \ {o} : work'[k] = work[k]
      /\ work' \in [Ops -> {"None", "AwaitingConfirmation", "Committed", "Queued", "Refused"}]
  BY <1>5, <1>7, <1>8
<1>10. ASSUME NEW k \in Ops \ {o} PROVE WorkFits(commands', work'[k], k, None, None)
  <2>1. WorkFits(commands, work[k], k, None, None)
    BY <1>1 DEF IInv
  <2>2. SendSigned(commands, None) /\ LetterSigned(commands, None)
    BY DEF SendSigned, LetterSigned
  <2>3. SendSigned(E, None) /\ LetterSigned(E, None)
    BY DEF SendSigned, LetterSigned
  <2>4. WorkFits(E, work[k], k, None, None)
    BY <2>1, <2>2, GrowthKeeps
  <2>5. WorkFits(commands', work[k], k, None, None)
    BY <1>3, <2>3, <2>4, GrowthKeeps
  <2> QED
    BY <1>9, <2>5
<1>11. Len(commands') <= MaxCommands
  BY <1>3 DEF o
<1>12. TypeOK'
  BY <1>2, <1>3, <1>5, <1>9, <1>11 DEF TypeOK
<1>13. WorkspaceSmall'
  BY <1>2, SmallerWorkspace
<1>14. requesting' = NoJourney /\ SubmissionKnown(commands', requesting')
  BY <1>1 DEF SubmissionKnown
<1> QED
  BY <1>2, <1>3, <1>4, <1>7, <1>9, <1>10, <1>12, <1>13, <1>14 DEF o

LEMMA SendMessageKeeps == ASSUME IInv, NEW new \in BOOLEAN, SendMessage(new) PROVE IInv'
<1> DEFINE create == Command("Conversation", None, None)
           send == Command("Send", None, Chosen)
           E == IF new THEN Append(commands, create) ELSE commands
           o == Len(E) + 1
           first == Len(commands) + 1
           s == [create |-> IF new THEN first ELSE None, send |-> o]
<1>1. /\ Idle /\ CommitDraft("Native") /\ Journaled = None
      /\ commands \in Seq(SignedCommand) /\ Len(commands) \in Nat /\ AnswersInOrder(commands)
      /\ CarriedOnce(commands) /\ TypeOK
      /\ UNCHANGED <<written, requesting, last_request, slots, lifecycle, funded>>
  BY IdleJournal DEF SendMessage, IInv, TypeOK
<1>2. /\ Chosen \in Writing \cup {None}
      /\ CarriedSpent(commands, drafts', submitted', written)
      /\ \A w \in Writing : w = Chosen => \A k \in DOMAIN commands : ~CarriedBy(commands, k, w)
  BY <1>1, CommitLeaves
<1>3. /\ create \in SignedCommand /\ create.answer = "None" /\ create.kind = "Conversation"
      /\ send \in SignedCommand /\ send.answer = "None" /\ send.kind = "Send"
      /\ send.writing = Chosen
  BY <1>2 DEF Command, SignedCommand
<1>4. /\ commands' = Append(E, send) /\ sending' = s /\ Prepare(o)
      /\ o <= MaxCommands /\ o \in Nat /\ first \in Nat
  <2>1. CASE new
    <3>1. /\ commands' = commands \o <<create, send>> /\ sending' = [create |-> first, send |-> first + 1]
          /\ Prepare(first + 1) /\ Len(commands) + 2 <= MaxCommands
      BY <2>1 DEF SendMessage, NextOp, Room
    <3>2. E = Append(commands, create) /\ Len(E) = first
      BY <1>1, <1>3, <2>1
    <3>3. commands \o <<create, send>> = Append(Append(commands, create), send)
      BY <1>1, <1>3
    <3> QED
      BY <1>1, <2>1, <3>1, <3>2, <3>3
  <2>2. CASE ~new
    <3>1. /\ commands' = commands \o <<send>> /\ sending' = [create |-> None, send |-> first]
          /\ Prepare(first) /\ Len(commands) + 1 <= MaxCommands
      BY <2>2 DEF SendMessage, NextOp, Room
    <3>2. E = commands
      BY <2>2
    <3>3. commands \o <<send>> = Append(commands, send)
      BY <1>1, <1>3
    <3> QED
      BY <1>1, <2>2, <3>1, <3>2, <3>3
  <2> QED
    BY <2>1, <2>2
<1>5. s \in Sending /\ s # None /\ s.send = o /\ s.create = IF new THEN first ELSE None
  BY <1>4, NoneIsAbsence DEF Sending
<1> HIDE DEF create, send, s
<1>6. /\ E \in Seq(SignedCommand) /\ Grows(commands, E) /\ AnswersInOrder(E)
      /\ new => first \in DOMAIN E /\ E[first].kind = "Conversation" /\ o = first + 1
  <2>1. CASE new
    <3>1. E = Append(commands, create)
      BY <2>1
    <3> HIDE DEF E
    <3> QED
      BY <1>1, <1>3, <3>1, AppendParts
  <2>2. CASE ~new
    <3>1. E = commands
      BY <2>2
    <3> QED
      BY <1>1, <2>2, <3>1 DEF Grows
  <2> QED
    BY <2>1, <2>2
<1>7. /\ CarriedOnce(E) /\ CarriedSpent(E, drafts', submitted', written)
      /\ \A w \in Writing : w = Chosen => \A k \in DOMAIN E : ~CarriedBy(E, k, w)
  <2>1. CASE new
    <3>1. E = Append(commands, create)
      BY <2>1
    <3> HIDE DEF E
    <3>2. create.kind \notin Delivering
      BY <1>3 DEF Delivering
    <3>3. CarriedOnce(E) /\ CarriedSpent(E, drafts', submitted', written)
      BY <1>1, <1>2, <1>3, <3>1, <3>2, AppendCarried
    <3>4. /\ DOMAIN E = DOMAIN commands \cup {first} /\ E[first] = create
          /\ \A k \in DOMAIN commands : E[k] = commands[k]
      BY <1>1, <1>3, <3>1, AppendParts
    <3> QED
      BY <1>2, <3>2, <3>3, <3>4 DEF CarriedBy
  <2>2. CASE ~new
    <3>1. E = commands
      BY <2>2
    <3> QED
      BY <1>1, <1>2, <3>1
  <2> QED
    BY <2>1, <2>2
<1>8. sending' \in Sending \cup {None} /\ slots' \in [Slots -> Nat \cup {None}]
      /\ slots["external"] = None
  BY <1>1, <1>4, <1>5, IdleJournal DEF TypeOK
<1> HIDE DEF E
<1>9. /\ TypeOK' /\ WorkspaceFits(drafts', submitted', written') /\ WorkspaceSmall'
      /\ WritingSubmitted' = Chosen /\ requesting' = NoJourney
      /\ SubmissionKnown(commands', requesting') /\ AnswersInOrder(commands')
      /\ CarriedOnce(commands') /\ CarriedSpent(commands', drafts', submitted', written')
      /\ Grows(E, commands') /\ o \in DOMAIN commands' /\ commands'[o] = send
      /\ o \in Ops /\ work'[o] = "AwaitingConfirmation"
      /\ \A k \in Ops \ {o} : WorkFits(commands', work'[k], k, None, None)
  BY <1>1, <1>3, <1>4, <1>6, <1>7, <1>8, CarryingCommand
<1> HIDE DEF o, first
<1>10. SendSigned(commands', sending')
  BY <1>3, <1>4, <1>5, <1>6, <1>9 DEF SendSigned, Grows
<1>11. LetterSigned(commands', slots'["external"]) /\ JourneySigned(commands', requesting')
       /\ OneAtATime(sending', slots'["external"], requesting')
  BY <1>1, <1>8, <1>9 DEF LetterSigned, JourneySigned, OneAtATime
<1>12. WritingSubmitted' = Journaled'
  BY <1>3, <1>4, <1>5, <1>9 DEF Journaled
<1>13. ASSUME NEW k \in Ops PROVE WorkFits(commands', work'[k], k, sending', slots'["external"])
  <2>0. k # None /\ slots'["external"] = None
    BY <1>1, <1>8, NoneIsAbsence DEF Ops
  <2>1. CASE k = o
    BY <1>4, <1>5, <1>9, <2>1 DEF WorkFits
  <2>2. CASE k # o
    BY <1>4, <1>5, <1>9, <2>0, <2>2 DEF WorkFits
  <2> QED
    BY <2>1, <2>2
<1> QED
  BY <1>9, <1>10, <1>11, <1>12, <1>13 DEF IInv

LEMMA SendLetterKeeps == ASSUME IInv, SendLetter PROVE IInv'
<1> DEFINE o == Len(commands) + 1
           c == Command("Letter", None, Chosen)
<1>1. /\ Idle /\ CommitDraft("External") /\ Journaled = None
      /\ commands \in Seq(SignedCommand) /\ Len(commands) \in Nat /\ o \in Nat
      /\ AnswersInOrder(commands) /\ CarriedOnce(commands) /\ TypeOK
      /\ commands' = Append(commands, c) /\ o <= MaxCommands
      /\ slots' = [slots EXCEPT !["external"] = o] /\ Prepare(o)
      /\ UNCHANGED <<written, requesting, last_request, sending, lifecycle, funded>>
  BY IdleJournal DEF SendLetter, IInv, TypeOK, NextOp, Room
<1>2. /\ Chosen \in Writing \cup {None}
      /\ CarriedSpent(commands, drafts', submitted', written)
      /\ \A w \in Writing : w = Chosen => \A k \in DOMAIN commands : ~CarriedBy(commands, k, w)
  BY <1>1, CommitLeaves
<1>3. /\ c \in SignedCommand /\ c.answer = "None" /\ c.kind = "Letter" /\ c.writing = Chosen
  BY <1>2 DEF Command, SignedCommand
<1>4. /\ slots' \in [Slots -> Nat \cup {None}] /\ slots'["external"] = o
      /\ sending' \in Sending \cup {None} /\ sending' = None /\ sending = None
  BY <1>1, IdleJournal DEF TypeOK, Slots
<1> HIDE DEF c
<1>5. Grows(commands, commands)
  BY DEF Grows
<1>6. /\ TypeOK' /\ WorkspaceFits(drafts', submitted', written') /\ WorkspaceSmall'
      /\ WritingSubmitted' = Chosen /\ requesting' = NoJourney
      /\ SubmissionKnown(commands', requesting') /\ AnswersInOrder(commands')
      /\ CarriedOnce(commands') /\ CarriedSpent(commands', drafts', submitted', written')
      /\ o \in DOMAIN commands' /\ commands'[o] = c
      /\ o \in Ops /\ work'[o] = "AwaitingConfirmation"
      /\ \A k \in Ops \ {o} : WorkFits(commands', work'[k], k, None, None)
  BY <1>1, <1>2, <1>3, <1>4, <1>5, CarryingCommand
<1> HIDE DEF o
<1>7. LetterSigned(commands', slots'["external"]) /\ SendSigned(commands', sending')
      /\ JourneySigned(commands', requesting')
      /\ OneAtATime(sending', slots'["external"], requesting')
  BY <1>3, <1>4, <1>6 DEF LetterSigned, SendSigned, JourneySigned, OneAtATime
<1>8. WritingSubmitted' = Journaled'
  BY <1>1, <1>3, <1>4, <1>6, NoneIsAbsence DEF Journaled
<1>9. ASSUME NEW k \in Ops PROVE WorkFits(commands', work'[k], k, sending', slots'["external"])
  <2>1. CASE k = o
    BY <1>3, <1>4, <1>6, <2>1 DEF WorkFits
  <2>2. CASE k # o
    <3>1. k # None
      BY NoneIsAbsence DEF Ops
    <3> QED
      BY <1>4, <1>6, <2>2, <3>1 DEF WorkFits
  <2> QED
    BY <2>1, <2>2
<1> QED
  BY <1>6, <1>7, <1>8, <1>9 DEF IInv

\* A command that carries no writing is signed, while whatever else is unresolved.
LEMMA ControlKeeps ==
    ASSUME IInv, NEW slot \in Slots, slot = "external" => Idle, BeginControl(slot)
    PROVE  IInv'
<1> DEFINE n == Len(commands) + 1
           c == Command("Control", None, None)
<1>1. /\ commands \in Seq(SignedCommand) /\ Len(commands) \in Nat /\ n \in Nat
      /\ AnswersInOrder(commands) /\ CarriedOnce(commands) /\ TypeOK
      /\ CarriedSpent(commands, drafts, submitted, written)
      /\ SubmissionKnown(commands, requesting)
      /\ commands' = Append(commands, c) /\ n <= MaxCommands
      /\ slots' = [slots EXCEPT ![slot] = n] /\ slots \in [Slots -> Nat \cup {None}]
      /\ UNCHANGED <<drafts, submitted, written, chosen, requesting, last_request, sending,
                     work, lifecycle, funded>>
  BY DEF BeginControl, IInv, TypeOK, NextOp, Room
<1>2. /\ c \in SignedCommand /\ c.answer = "None" /\ c.kind = "Control" /\ c.writing = None
      /\ c.kind \notin Delivering
  BY DEF Command, SignedCommand, Delivering
<1> HIDE DEF c
<1>3. /\ commands' \in Seq(SignedCommand) /\ Len(commands') = n
      /\ n \notin DOMAIN commands /\ n \in DOMAIN commands' /\ commands'[n] = c
      /\ \A o \in DOMAIN commands : commands'[o] = commands[o]
      /\ Grows(commands, commands') /\ AnswersInOrder(commands')
  BY <1>1, <1>2, AppendParts
<1>4. /\ CarriedOnce(commands') /\ CarriedSpent(commands', drafts, submitted, written)
      /\ SubmissionKnown(commands', requesting)
  BY <1>1, <1>2, AppendCarried
<1> HIDE DEF n
<1>5. slots' \in [Slots -> Nat \cup {None}] /\ Len(commands') <= MaxCommands
  BY <1>1, <1>3
<1>6. TypeOK'
  BY <1>1, <1>3, <1>5 DEF TypeOK
<1>7. /\ WorkspaceFits(drafts', submitted', written') /\ WorkspaceSmall'
      /\ WritingSubmitted' = WritingSubmitted
  BY <1>1 DEF IInv, WorkspaceSmall, InWorkspace, WritingSubmitted
<1>8. /\ SendSigned(commands, sending) /\ LetterSigned(commands, slots["external"])
      /\ JourneySigned(commands, requesting) /\ WritingSubmitted = Journaled
      /\ OneAtATime(sending, slots["external"], requesting)
      /\ \A o \in Ops : WorkFits(commands, work[o], o, sending, slots["external"])
  BY DEF IInv
<1>9. SendSigned(commands', sending') /\ JourneySigned(commands', requesting')
  BY <1>1, <1>3, <1>8, GrowthKeeps
<1>10. CASE slot = "external"
  <2>1. /\ requesting = NoJourney /\ sending = None /\ slots["external"] = None
        /\ Journaled = None
    BY <1>10, IdleJournal
  <2>2. slots'["external"] = n /\ n # None
    BY <1>1, <1>10, NoneIsAbsence DEF Slots
  <2>3. LetterSigned(commands', slots'["external"])
    BY <1>2, <1>3, <2>2 DEF LetterSigned
  <2>4. OneAtATime(sending', slots'["external"], requesting')
    BY <1>1, <2>1 DEF OneAtATime
  <2>5. WritingSubmitted' = Journaled'
    BY <1>1, <1>2, <1>3, <1>7, <1>8, <2>1, <2>2 DEF Journaled
  <2>6. ASSUME NEW o \in Ops PROVE WorkFits(commands', work'[o], o, sending', slots'["external"])
    <3>1. WorkFits(commands', work[o], o, None, None)
      BY <1>3, <1>8, <2>1, GrowthKeeps
    <3>2. o # None /\ commands'[n].kind # "Letter"
      BY <1>2, <1>3, NoneIsAbsence DEF Ops
    <3> QED
      BY <1>1, <2>1, <2>2, <3>1, <3>2 DEF WorkFits
  <2> QED
    BY <1>1, <1>3, <1>4, <1>6, <1>7, <1>9, <2>3, <2>4, <2>5, <2>6 DEF IInv
<1>11. CASE slot # "external"
  <2>1. slots'["external"] = slots["external"]
    BY <1>1, <1>11 DEF Slots
  <2>2. LetterSigned(commands', slots'["external"])
    BY <1>3, <1>8, <2>1, GrowthKeeps
  <2>3. OneAtATime(sending', slots'["external"], requesting')
    BY <1>1, <1>8, <2>1
  <2>4. Journaled' = Journaled
    BY <1>1, <1>3, <1>8, <2>1 DEF Journaled, SendSigned, LetterSigned
  <2>5. WritingSubmitted' = Journaled'
    BY <1>7, <1>8, <2>4
  <2>6. ASSUME NEW o \in Ops PROVE WorkFits(commands', work'[o], o, sending', slots'["external"])
    <3>1. WorkFits(commands', work[o], o, sending, slots["external"])
      BY <1>3, <1>8, GrowthKeeps
    <3> QED
      BY <1>1, <2>1, <3>1
  <2> QED
    BY <1>1, <1>3, <1>4, <1>6, <1>7, <1>9, <2>2, <2>3, <2>5, <2>6 DEF IInv
<1> QED
  BY <1>10, <1>11
-----------------------------------------------------------------------------
(***************************************************************************)
(* Outcomes.                                                               *)
(***************************************************************************)

\* The send is settled: what refused it is its own answer or its conversation's.
LEMMA TransmitSendKeeps == ASSUME IInv, TransmitSend PROVE IInv'
<1>1. /\ sending # None /\ SendSigned(commands, sending) /\ TypeOK
      /\ slots["external"] = None /\ requesting = NoJourney
      /\ \A o \in Ops : WorkFits(commands, work[o], o, sending, slots["external"])
  BY DEF IInv, OneAtATime, TransmitSend
<1>2. /\ FinishDraft(SendRefused) /\ ResolveWork(SendRefused) /\ sending' = None
      /\ SendRefused \/ Answer(sending.send) = "Done"
      /\ UNCHANGED <<slots, written, chosen, requesting, last_request, commands, lifecycle, funded>>
  BY DEF TransmitSend
<1>3. SendRefused \in BOOLEAN
  BY DEF SendRefused
<1>4. ASSUME NEW o \in Ops, work[o] = "AwaitingConfirmation"
      PROVE  IF SendRefused THEN Hopeless(commands, o) ELSE commands[o].answer = "Done"
  <2>1. sending.send = o
    BY <1>1, <1>4, NoneIsAbsence DEF WorkFits, Ops
  <2>2. CASE SendRefused
    BY <1>1, <2>1, <2>2 DEF SendRefused, Answer, Hopeless, SendSigned
  <2>3. CASE ~SendRefused
    BY <1>2, <2>1, <2>3 DEF Answer
  <2> QED
    BY <2>2, <2>3
<1>5. /\ slots' \in [Slots -> Nat \cup {None}] /\ slots'["external"] = None
      /\ requesting' = NoJourney /\ last_request' \in JourneyStatus
  BY <1>1, <1>2 DEF TypeOK
<1> HIDE DEF SendRefused
<1> QED
  BY <1>2, <1>3, <1>4, <1>5, OutcomeKeeps

\* A letter, or a control that shares its slot, is settled.
LEMMA TransmitExternalKeeps == ASSUME IInv, TransmitExternal PROVE IInv'
<1> DEFINE l == slots["external"]
           refused == Answer(l) = "Refused"
<1>1. /\ l # None /\ LetterSigned(commands, l) /\ TypeOK /\ AnswersInOrder(commands)
      /\ sending = None /\ requesting = NoJourney
      /\ \A o \in Ops : WorkFits(commands, work[o], o, sending, slots["external"])
  BY DEF IInv, OneAtATime, TransmitExternal
<1>2. /\ FinishDraft(refused) /\ ResolveWork(refused)
      /\ Answer(l) # "None" /\ slots' = [slots EXCEPT !["external"] = None]
      /\ UNCHANGED <<sending, written, chosen, requesting, last_request, commands, lifecycle, funded>>
  BY DEF TransmitExternal
<1>3. refused \in BOOLEAN
  OBVIOUS
<1>4. ASSUME NEW o \in Ops, work[o] = "AwaitingConfirmation"
      PROVE  IF refused THEN Hopeless(commands, o) ELSE commands[o].answer = "Done"
  <2>1. l = o /\ o \in DOMAIN commands /\ commands[o].kind = "Letter"
    BY <1>1, <1>4 DEF WorkFits, LetterSigned
  <2>2. commands[o].answer \in {"Done", "Refused"}
    <3>1. commands[o] \in SignedCommand
      BY <1>1, <2>1 DEF TypeOK
    <3>2. commands[o].answer # "NotNeeded"
      BY <1>1, <2>1 DEF AnswersInOrder
    <3> QED
      BY <1>2, <2>1, <3>1, <3>2 DEF SignedCommand, Answer
  <2> QED
    BY <2>1, <2>2 DEF Hopeless, Answer
<1>5. /\ slots' \in [Slots -> Nat \cup {None}] /\ slots'["external"] = None
      /\ requesting' = NoJourney /\ sending' = None /\ last_request' \in JourneyStatus
  BY <1>1, <1>2 DEF TypeOK, Slots
<1> HIDE DEF refused
<1> QED
  BY <1>2, <1>3, <1>4, <1>5, OutcomeKeeps

\* A command that carried no writing is settled.
LEMMA TransmitControlKeeps ==
    ASSUME IInv, NEW slot \in Slots \ {"external"}, TransmitControl(slot)
    PROVE  IInv'
<1>1. /\ UNCHANGED <<drafts, submitted, written, chosen, requesting, last_request, sending,
                     work, commands, lifecycle, funded>>
      /\ slots' = [slots EXCEPT ![slot] = None]
  BY DEF TransmitControl
<1>2. slots' \in [Slots -> Nat \cup {None}] /\ slots'["external"] = slots["external"]
  BY <1>1 DEF IInv, TypeOK, Slots
<1>3. TypeOK'
  BY <1>1, <1>2 DEF IInv, TypeOK
<1>4. /\ WorkspaceFits(drafts', submitted', written') /\ WorkspaceSmall'
      /\ WritingSubmitted' = Journaled'
  BY <1>1, <1>2 DEF IInv, WorkspaceSmall, InWorkspace, WritingSubmitted, Journaled
<1> QED
  BY <1>1, <1>2, <1>3, <1>4 DEF IInv

-----------------------------------------------------------------------------
(***************************************************************************)
(* The provider.                                                           *)
(***************************************************************************)

\* A command is answered: what it carries stays, and its answer for good.
LEMMA ServeKeeps == ASSUME IInv, NEW k, NEW answer \in {"Done", "Refused", "NotNeeded"},
                           Serve(k, answer)
                    PROVE  IInv'
<1>1. /\ k \in DOMAIN commands /\ commands[k].answer = "None" /\ Transmitted(k)
      /\ answer \in MayAnswer(k)
      /\ commands' = [commands EXCEPT ![k].answer = answer]
      /\ UNCHANGED <<drafts, submitted, requesting, last_request, sending, slots, work,
                     written, chosen, funded>>
  BY DEF Serve, Answer, device
<1>2. TypeOK /\ commands \in Seq(SignedCommand) /\ commands[k] \in SignedCommand
  BY <1>1 DEF IInv, TypeOK
<1>3. /\ commands'[k] = [commands[k] EXCEPT !.answer = answer]
      /\ \A o \in DOMAIN commands \ {k} : commands'[o] = commands[o]
      /\ DOMAIN commands' = DOMAIN commands
  BY <1>1, <1>2
<1>4. /\ commands'[k].kind = commands[k].kind /\ commands'[k].writing = commands[k].writing
      /\ commands'[k].answer = answer /\ commands'[k] \in SignedCommand
  BY <1>2, <1>3 DEF SignedCommand
<1>5. \A o \in DOMAIN commands : /\ commands'[o].kind = commands[o].kind
                                 /\ commands'[o].writing = commands[o].writing
                                 /\ o # k => commands'[o].answer = commands[o].answer
  BY <1>3, <1>4
<1>6. Grows(commands, commands')
  BY <1>1, <1>3, <1>5 DEF Grows
<1>7. commands' \in Seq(SignedCommand) /\ Len(commands') = Len(commands)
  <2>1. /\ Len(commands) \in Nat /\ DOMAIN commands = 1 .. Len(commands)
        /\ commands \in [1 .. Len(commands) -> SignedCommand]
    BY <1>2
  <2>2. commands' \in [1 .. Len(commands) -> SignedCommand]
    BY <1>1, <1>3, <1>4, <2>1
  <2>3. commands' \in Seq(SignedCommand)
    BY <2>1, <2>2
  <2>4. DOMAIN commands' = 1 .. Len(commands) /\ Len(commands') \in Nat
        /\ DOMAIN commands' = 1 .. Len(commands')
    BY <1>3, <2>1, <2>3
  <2> QED
    BY <2>1, <2>3, <2>4
<1>8. lifecycle' \in [Requests -> {"None", "Preparing", "Awaiting", "Closed"}]
  <2> DEFINE r == commands[k].request
  <2>1. /\ lifecycle \in [Requests -> {"None", "Preparing", "Awaiting", "Closed"}]
        /\ r \in Requests \cup {None}
    BY <1>2 DEF TypeOK, SignedCommand
  <2>2. lifecycle' = IF r = None \/ answer # "Done" THEN lifecycle
                     ELSE [lifecycle EXCEPT ![r] = After(commands[k].kind, @)]
    BY DEF Serve
  <2> HIDE DEF r
  <2>3. CASE r = None \/ answer # "Done"
    BY <2>1, <2>2, <2>3
  <2>4. CASE r \in Requests /\ ~(r = None \/ answer # "Done")
    <3>1. After(commands[k].kind, lifecycle[r]) \in {"None", "Preparing", "Awaiting", "Closed"}
      BY <2>1, <2>4 DEF After
    <3>2. lifecycle' = [lifecycle EXCEPT ![r] = After(commands[k].kind, lifecycle[r])]
      BY <2>2, <2>4
    <3> QED
      BY <2>1, <3>1, <3>2
  <2> QED
    BY <2>1, <2>3, <2>4
<1>9. TypeOK'
  BY <1>1, <1>2, <1>7, <1>8 DEF TypeOK
<1>10. AnswersInOrder(commands')
  <2>1. AnswersInOrder(commands)
    BY DEF IInv
  <2> SUFFICES ASSUME NEW n \in DOMAIN commands
               PROVE  /\ /\ commands[n].kind = "Conversation" /\ n + 1 \in DOMAIN commands
                         /\ commands'[n + 1].answer # "None"
                         => commands'[n].answer = "Done"
                      /\ commands'[n].answer = "NotNeeded" => commands[n].kind = "Quote"
    BY <1>3, <1>5 DEF AnswersInOrder
  <2>2. ASSUME commands[n].kind = "Conversation", n + 1 \in DOMAIN commands,
               commands'[n + 1].answer # "None"
        PROVE  commands'[n].answer = "Done"
    <3>1. commands[n].answer = "Done"
      <4>1. CASE k = n + 1
        BY <1>1, <2>2, <4>1 DEF Transmitted, Answer
      <4>2. CASE k # n + 1
        BY <1>5, <2>1, <2>2, <4>2 DEF AnswersInOrder
      <4> QED
        BY <4>1, <4>2
    <3> QED
      BY <1>1, <1>5, <3>1
  <2>3. ASSUME commands'[n].answer = "NotNeeded" PROVE commands[n].kind = "Quote"
    <3>1. CASE n = k
      <4>1. "NotNeeded" \in MayAnswer(k)
        BY <1>1, <1>4, <2>3, <3>1
      <4> QED
        BY <3>1, <4>1 DEF MayAnswer
    <3>2. CASE n # k
      BY <1>5, <2>1, <2>3, <3>2 DEF AnswersInOrder
    <3> QED
      BY <3>1, <3>2
  <2> QED
    BY <2>2, <2>3
<1>11. \A w \in Writing, o \in DOMAIN commands : CarriedBy(commands', o, w) <=> CarriedBy(commands, o, w)
  BY <1>5 DEF CarriedBy
<1>12. CarriedOnce(commands') /\ CarriedSpent(commands', drafts, submitted, written)
  <2>1. CarriedOnce(commands) /\ CarriedSpent(commands, drafts, submitted, written)
    BY DEF IInv
  <2> QED
    BY <1>3, <1>11, <2>1 DEF CarriedOnce, CarriedSpent
<1>13. SubmissionKnown(commands', requesting)
  <2>1. SubmissionKnown(commands, requesting)
    BY DEF IInv
  <2>2. ASSUME NEW o \in DOMAIN commands, commands[o].answer \notin {"None", "Done"}
        PROVE  commands'[o].answer \notin {"None", "Done"}
    BY <1>1, <1>5, <2>2
  <2> QED
    BY <1>3, <1>11, <2>1, <2>2 DEF SubmissionKnown
<1>14. /\ SendSigned(commands, sending) /\ LetterSigned(commands, slots["external"])
       /\ JourneySigned(commands, requesting) /\ WritingSubmitted = Journaled
       /\ \A o \in Ops : WorkFits(commands, work[o], o, sending, slots["external"])
  BY DEF IInv
<1>15. /\ SendSigned(commands', sending) /\ LetterSigned(commands', slots["external"])
       /\ JourneySigned(commands', requesting)
       /\ \A o \in Ops : WorkFits(commands', work[o], o, sending, slots["external"])
  BY <1>6, <1>14, GrowthKeeps
<1>16. WritingSubmitted' = Journaled'
  <2>1. Journaled' = Journaled
    BY <1>1, <1>5, <1>14 DEF Journaled, SendSigned, LetterSigned
  <2> QED
    BY <1>1, <1>14, <2>1 DEF WritingSubmitted
<1>17. /\ WorkspaceFits(drafts', submitted', written') /\ WorkspaceSmall'
       /\ OneAtATime(sending', slots'["external"], requesting')
  BY <1>1 DEF IInv, WorkspaceSmall, InWorkspace
<1> QED
  BY <1>1, <1>9, <1>10, <1>12, <1>13, <1>15, <1>16, <1>17 DEF IInv

\* A charge is funded, a request ends: nothing on the device changes.
LEMMA ProviderKeeps == ASSUME IInv, NEW r \in Requests, Fund(r) \/ Close(r) PROVE IInv'
<1>1. /\ UNCHANGED <<drafts, submitted, requesting, last_request, sending, slots, work,
                     written, chosen, commands>>
      /\ lifecycle' \in [Requests -> {"None", "Preparing", "Awaiting", "Closed"}]
      /\ funded' \in [Requests -> BOOLEAN]
  BY DEF Fund, Close, device, IInv, TypeOK
<1>2. TypeOK'
  BY <1>1 DEF IInv, TypeOK
<1>3. /\ WorkspaceFits(drafts', submitted', written') /\ WorkspaceSmall'
      /\ WritingSubmitted' = Journaled'
  BY <1>1 DEF IInv, WorkspaceSmall, InWorkspace, WritingSubmitted, Journaled
<1> QED
  BY <1>1, <1>2, <1>3 DEF IInv

\* Whatever is neither the device's nor the provider's step changes nothing.
LEMMA StutterKeeps == ASSUME IInv, UNCHANGED vars PROVE IInv'
<1>1. UNCHANGED <<drafts, submitted, requesting, last_request, sending, slots, work,
                  written, chosen, commands, lifecycle, funded>>
  BY DEF vars, device
<1>2. TypeOK'
  BY <1>1 DEF IInv, TypeOK
<1>3. /\ WorkspaceFits(drafts', submitted', written') /\ WorkspaceSmall'
      /\ WritingSubmitted' = Journaled'
  BY <1>1 DEF IInv, WorkspaceSmall, InWorkspace, WritingSubmitted, Journaled
<1> QED
  BY <1>1, <1>2, <1>3 DEF IInv

LEMMA InitKeeps == ASSUME Init PROVE IInv
<1>1. /\ commands = <<>> /\ MaxCommands \in Nat /\ MaxWriting \in Nat
      /\ commands \in Seq(SignedCommand) /\ Len(commands) = 0 /\ DOMAIN commands = {}
  BY ClientConstants DEF Init
<1>2. TypeOK
  BY <1>1 DEF Init, TypeOK, JourneyStatus
<1>3. InWorkspace = {}
  BY DEF Init, InWorkspace
<1>4. WorkspaceSmall
  BY <1>1, <1>3, FS_EmptySet DEF WorkspaceSmall
<1>5. WorkspaceFits(drafts, submitted, written) /\ WritingSubmitted = Journaled
  BY DEF Init, WorkspaceFits, WritingSubmitted, Journaled, Slots
<1>6. /\ OneAtATime(sending, slots["external"], requesting) /\ SendSigned(commands, sending)
      /\ LetterSigned(commands, slots["external"]) /\ JourneySigned(commands, requesting)
      /\ SubmissionKnown(commands, requesting)
  BY DEF Init, OneAtATime, SendSigned, LetterSigned, JourneySigned, SubmissionKnown, Slots
<1>7. /\ AnswersInOrder(commands) /\ CarriedOnce(commands)
      /\ CarriedSpent(commands, drafts, submitted, written)
  BY <1>1 DEF AnswersInOrder, CarriedOnce, CarriedSpent
<1>8. ASSUME NEW o \in Ops PROVE WorkFits(commands, work[o], o, sending, slots["external"])
  BY NoneIsAbsence DEF Init, WorkFits, Slots, Ops
<1> QED
  BY <1>2, <1>4, <1>5, <1>6, <1>7, <1>8 DEF IInv

LEMMA NextKeeps == ASSUME IInv, Next PROVE IInv'
<1>1. CASE Edit
  BY <1>1, OpenKeeps, EditKeeps, DiscardKeeps, ChoiceKeeps DEF Edit
<1>2. CASE AbandonChoice
  BY <1>2, ChoiceKeeps
<1>3. CASE Begin
  <2>1. CASE \E new \in BOOLEAN : SendMessage(new)
    BY <2>1, SendMessageKeeps
  <2>2. CASE SendLetter
    BY <2>2, SendLetterKeeps
  <2>3. CASE Decide \/ EditConversation \/ ControlExternal \/ SetUp
    BY <2>3, ControlKeeps DEF Decide, EditConversation, ControlExternal, SetUp, Slots
  <2>4. CASE \E r \in Requests : QuoteRequest(r) \/ SendFollowup(r)
    BY <2>4, QuoteKeeps, FollowupKeeps
  <2>5. CASE AuthorizeRequest
    BY <2>5, AuthorizeKeeps
  <2> QED
    BY <1>3, <2>1, <2>2, <2>3, <2>4, <2>5 DEF Begin
<1>4. CASE CancelRequest
  BY <1>4, CancelKeeps
<1>5. CASE Resume
  <2>1. CASE SendPending \/ TransmitConversationEdit \/ FinishSetup
    BY <2>1, TransmitControlKeeps DEF SendPending, TransmitConversationEdit, FinishSetup, Slots
  <2>2. CASE \/ LearnQuote \/ LearnCreated \/ ObserveFunding \/ ObserveStopped
             \/ StageDocument \/ LearnSubmitted \/ LearnCancelled
    BY <2>2, LearnKeeps
  <2> QED
    BY <1>5, <2>1, <2>2, TransmitSendKeeps, TransmitExternalKeeps DEF Resume
<1>6. CASE Provider
  BY <1>6, ServeKeeps, ProviderKeeps DEF Provider
<1> QED
  BY <1>1, <1>2, <1>3, <1>4, <1>5, <1>6 DEF Next

LEMMA AlwaysFits == Spec => []IInv
<1>1. Init => IInv
  BY InitKeeps
<1>2. IInv /\ [Next]_vars => IInv'
  BY NextKeeps, StutterKeeps
<1> QED
  BY <1>1, <1>2, PTL DEF Spec

-----------------------------------------------------------------------------
(***************************************************************************)
(* What the runs check.                                                    *)
(***************************************************************************)

(* Everything the device keeps stays of its type, and the provider's view   *)
(* of the member's requests with it, whatever is edited, sent, answered and *)
(* cancelled in whatever order.                                             *)
THEOREM ClientTypeCorrect == Spec => []TypeOK
<1>1. IInv => TypeOK
  BY DEF IInv
<1> QED
  BY <1>1, AlwaysFits, PTL

\* A message whose conversation was refused is never delivered.
LEMMA HopelessUndone ==
    ASSUME IInv, NEW o \in DOMAIN commands, Hopeless(commands, o)
    PROVE  commands[o].answer # "Done"
<1>1. AnswersInOrder(commands)
  BY DEF IInv
<1>2. ASSUME NEW n \in DOMAIN commands, o = n + 1, commands[n].kind = "Conversation",
             commands[n].answer = "Refused"
      PROVE  commands[o].answer = "None"
  BY <1>1, <1>2 DEF AnswersInOrder
<1> QED
  BY <1>2 DEF Hopeless

(* What the device can be reopened with is one story: the writing submitted *)
(* is the one an unresolved command was prepared from (save_submission in   *)
(* commit_draft and finish_draft), the workspace can be read back           *)
(* (Workspace::load) and the record of messages says what the provider      *)
(* answered (Personal::resolve), for any drafts, requests and commands.     *)
THEOREM JournalMatches == Spec => []JournalMatchesWorkspace
<1>1. IInv => JournalMatchesWorkspace
  <2> SUFFICES ASSUME IInv PROVE JournalMatchesWorkspace
    OBVIOUS
  <2>1. WritingSubmitted = Journaled
    BY DEF IInv
  <2>2. submitted # None => drafts[submitted.id] = None
    BY DEF IInv, WorkspaceFits
  <2>3. Cardinality(InWorkspace) <= MaxWriting
    BY DEF IInv, WorkspaceSmall
  <2>4. ASSUME NEW o \in Ops
        PROVE  /\ work[o] = "AwaitingConfirmation" <=>
                     \/ sending # None /\ sending.send = o
                     \/ slots["external"] = o /\ commands[o].kind = "Letter"
               /\ work[o] \in {"Committed", "Queued"} => Answer(o) = "Done"
               /\ work[o] = "Refused" => Answer(o) # "Done"
    <3>1. WorkFits(commands, work[o], o, sending, slots["external"])
      BY DEF IInv
    <3>2. work[o] = "Refused" => Answer(o) # "Done"
      BY <3>1, HopelessUndone DEF WorkFits, Answer
    <3> QED
      BY <3>1, <3>2 DEF WorkFits, Answer
  <2> QED
    BY <2>1, <2>2, <2>3, <2>4 DEF JournalMatchesWorkspace
<1> QED
  BY <1>1, AlwaysFits, PTL

(* No revision of a draft is delivered by two commands: one authorization   *)
(* sends a writing once, however its command is interrupted, tried again or *)
(* cancelled and whatever is edited or submitted twice meanwhile            *)
(* (commit_draft checks the revision under the lock that journals it).      *)
THEOREM WritingSentOnce == Spec => []SentOnce
<1>1. IInv => SentOnce
  <2> SUFFICES ASSUME IInv,
                      NEW o \in DOMAIN commands, NEW n \in DOMAIN commands,
                      o # n, commands[o].writing # None,
                      {commands[o].kind, commands[n].kind} \subseteq Delivering,
                      commands[o].writing = commands[n].writing
               PROVE  FALSE
    BY DEF SentOnce
  <2>1. commands[o].writing \in Writing
    <3>1. commands \in Seq(SignedCommand)
      BY DEF IInv, TypeOK
    <3>2. commands[o] \in SignedCommand
      BY <3>1
    <3> QED
      BY <3>2 DEF SignedCommand
  <2> QED
    BY <2>1 DEF IInv, CarriedOnce, CarriedBy
<1> QED
  BY <1>1, AlwaysFits, PTL

\* What the outcome leaves of the writing that was submitted.
Kept(restored, delivered, allowed) == IF restored THEN ~delivered ELSE delivered \/ allowed

\* The writing submitted, and the commands that may have delivered it.
LEMMA SubmittedWriting ==
    ASSUME IInv, submitted # None
    PROVE  /\ WritingSubmitted \in Writing /\ Journaled = WritingSubmitted
           /\ drafts[submitted.id] = None /\ submitted.id \in DraftIds
           /\ \A o \in DOMAIN commands :
                 CarriedBy(commands, o, WritingSubmitted) =>
                     (Delivered(WritingSubmitted) <=> commands[o].answer = "Done")
<1>1. /\ WritingSubmitted \in Writing /\ submitted.id \in DraftIds
  BY DEF IInv, TypeOK, WritingSubmitted, Submission, Writing
<1>2. Journaled = WritingSubmitted /\ drafts[submitted.id] = None /\ CarriedOnce(commands)
  BY DEF IInv, WorkspaceFits
<1>3. ASSUME NEW o \in DOMAIN commands, CarriedBy(commands, o, WritingSubmitted)
      PROVE  Delivered(WritingSubmitted) <=> commands[o].answer = "Done"
  <2> DEFINE w == WritingSubmitted
  <2>1. \A k \in DOMAIN commands : CarriedBy(commands, k, w) => k = o
    BY <1>1, <1>2, <1>3 DEF CarriedOnce
  <2> HIDE DEF w
  <2>2. Carrying(w) = {k \in DOMAIN commands : CarriedBy(commands, k, w)}
    BY DEF Carrying, CarriedBy
  <2>3. o \in Carrying(w)
    BY <1>3, <2>2 DEF w
  <2>4. Delivered(w) <=> commands[o].answer = "Done"
    BY <2>1, <2>2, <2>3 DEF Delivered, Answer
  <2> QED
    BY <2>4 DEF w
<1> QED
  BY <1>1, <1>2, <1>3

\* FinishDraft restores the writing or leaves it out of the editor.
LEMMA FinishRestores ==
    ASSUME IInv, submitted # None, NEW restore \in BOOLEAN, FinishDraft(restore)
    PROVE  drafts'[submitted.id] # None <=> restore
<1> DEFINE back == [revision |-> submitted.revision + 1, target |-> submitted.target]
<1>1. /\ submitted \in Submission /\ drafts \in [DraftIds -> Draft \cup {None}]
      /\ drafts[submitted.id] = None /\ submitted.id \in DraftIds
  BY SubmittedWriting DEF IInv, TypeOK
<1>2. back \in Draft
  BY <1>1 DEF Submission, Draft
<1>3. back # None
  BY <1>2, NoneIsAbsence
<1>4. drafts' = IF restore THEN [drafts EXCEPT ![submitted.id] = back] ELSE drafts
  BY DEF FinishDraft
<1> HIDE DEF back
<1> QED
  BY <1>1, <1>3, <1>4

\* A message or a letter leaves the journal.
LEMMA MessageKept ==
    ASSUME IInv, submitted # None, TransmitSend \/ TransmitExternal, NEW allowed \in BOOLEAN
    PROVE  Kept(drafts'[submitted.id] # None, Delivered(WritingSubmitted), allowed)
<1>0. Journaled = WritingSubmitted /\ WritingSubmitted # None
  BY SubmittedWriting, NoneIsAbsence
<1>1. CASE TransmitSend
  <2>1. /\ sending # None
        /\ SendRefused \/ Answer(sending.send) = "Done"
        /\ FinishDraft(SendRefused)
    BY <1>1 DEF TransmitSend
  <2>2. SendSigned(commands, sending)
    BY DEF IInv
  <2>3. /\ sending.send \in DOMAIN commands
        /\ CarriedBy(commands, sending.send, WritingSubmitted)
    <3>1. sending.send \in DOMAIN commands /\ commands[sending.send].kind = "Send"
      BY <2>1, <2>2 DEF SendSigned
    <3>2. Journaled = commands[sending.send].writing
      BY <2>1 DEF Journaled
    <3> QED
      BY <1>0, <3>1, <3>2 DEF CarriedBy, Delivering
  <2>4. Delivered(WritingSubmitted) <=> commands[sending.send].answer = "Done"
    BY <2>3, SubmittedWriting
  <2>5. SendRefused => Hopeless(commands, sending.send)
    <3>1. \/ sending.create # None /\ commands[sending.create].answer = "Refused"
          \/ commands[sending.send].answer = "Refused"
          \/ ~SendRefused
      BY DEF SendRefused, Answer
    <3>2. sending.create # None =>
              /\ sending.create \in DOMAIN commands
              /\ commands[sending.create].kind = "Conversation"
              /\ sending.send = sending.create + 1
      BY <2>1, <2>2 DEF SendSigned
    <3> QED
      BY <3>1, <3>2 DEF Hopeless
  <2>6. SendRefused <=> commands[sending.send].answer # "Done"
    BY <2>1, <2>3, <2>5, HopelessUndone DEF Answer
  <2>7. SendRefused \in BOOLEAN
    BY DEF SendRefused
  <2>8. drafts'[submitted.id] # None <=> SendRefused
    BY <2>1, <2>7, FinishRestores
  <2> QED
    BY <2>4, <2>6, <2>8 DEF Kept
<1>2. CASE TransmitExternal
  <2> DEFINE l == slots["external"]
             refused == Answer(l) = "Refused"
  <2>1. l # None /\ Answer(l) # "None" /\ FinishDraft(refused)
    BY <1>2 DEF TransmitExternal
  <2>2. /\ LetterSigned(commands, l) /\ sending = None /\ AnswersInOrder(commands)
        /\ commands \in Seq(SignedCommand)
    BY <2>1 DEF IInv, OneAtATime, TypeOK
  <2>3. /\ l \in DOMAIN commands /\ commands[l].kind = "Letter"
        /\ CarriedBy(commands, l, WritingSubmitted)
    BY <1>0, <2>1, <2>2 DEF LetterSigned, Journaled, CarriedBy, Delivering
  <2>4. Delivered(WritingSubmitted) <=> commands[l].answer = "Done"
    BY <2>3, SubmittedWriting
  <2>5. commands[l] \in SignedCommand /\ commands[l].answer # "NotNeeded"
    BY <2>2, <2>3 DEF AnswersInOrder
  <2>6. refused <=> commands[l].answer # "Done"
    BY <2>1, <2>5 DEF SignedCommand, Answer
  <2>7. refused \in BOOLEAN
    OBVIOUS
  <2> HIDE DEF refused
  <2>8. drafts'[submitted.id] # None <=> refused
    BY <2>1, <2>7, FinishRestores
  <2> QED
    BY <2>4, <2>6, <2>8 DEF Kept
<1> QED
  BY <1>1, <1>2

\* A request that ends: its status says what becomes of the writing.
LEMMA EndDisposes ==
    ASSUME IInv, submitted # None, requesting # NoJourney, NEW status, End(status)
    PROVE  /\ drafts'[submitted.id] # None <=> ~RemovesWriting(status)
           /\ last_request' = status
           /\ WritingSubmitted = requesting.document
<1> DEFINE restore == ~RemovesWriting(status)
<1>1. last_request' = status /\ FinishDraft(restore)
  BY DEF End, PersistRequest
<1>2. restore \in BOOLEAN
  BY DEF RemovesWriting
<1> HIDE DEF restore
<1>3. drafts'[submitted.id] # None <=> restore
  BY <1>1, <1>2, FinishRestores
<1> QED
  BY <1>1, <1>3, JourneyAlone DEF restore

\* No command delivered the writing before the journey's last stage, and none
\* whose journey knows its submission was not done.
LEMMA NotDelivered ==
    ASSUME IInv, submitted # None, requesting # NoJourney,
           requesting.work = "Submit" => Answer(JourneyOp) \notin {"None", "Done"}
    PROVE  ~Delivered(WritingSubmitted)
<1>1. WritingSubmitted \in Writing /\ WritingSubmitted = requesting.document
  BY SubmittedWriting, JourneyAlone
<1>2. ASSUME NEW o \in DOMAIN commands, CarriedBy(commands, o, WritingSubmitted)
      PROVE  commands[o].answer # "Done"
  <2>1. CASE requesting.work \in {"Submit", "Stopped", "Cancel"}
    BY <1>1, <1>2, <2>1, StoppedRefused
  <2>2. CASE requesting.work \notin {"Submit", "Stopped", "Cancel"}
    BY <1>1, <1>2, <2>2, NotYetSubmitted
  <2> QED
    BY <2>1, <2>2
<1> QED
  BY <1>2 DEF Delivered, Carrying, CarriedBy, Answer

\* The submission that was answered delivered the writing.
LEMMA SubmissionDelivers ==
    ASSUME IInv, submitted # None, requesting # NoJourney, requesting.work = "Submit",
           Answer(JourneyOp) = "Done"
    PROVE  Delivered(WritingSubmitted)
<1>1. WritingSubmitted = requesting.document
  BY JourneyAlone
<1>2. /\ requesting.op \in DOMAIN commands
      /\ commands[requesting.op].kind \in {"Submit", "Followup"}
      /\ commands[requesting.op].writing = requesting.document
      /\ commands[requesting.op].answer = "Done"
  BY DEF IInv, JourneySigned, Answer, JourneyOp
<1> QED
  BY <1>1, <1>2 DEF Delivered, Carrying, Delivering, Answer

\* Before anything is authorized no writing is submitted.
LEMMA QuotedCarriesNothing ==
    ASSUME IInv, requesting # NoJourney, requesting.work \in {"Quoting", "Quoted"}
    PROVE  submitted = None
<1>1. Journaled = None
  BY JourneyAlone DEF IInv, JourneySigned
<1> QED
  BY <1>1, NothingSubmitted

\* What the steps of a request may do with the writing.
Disposes(followup, changed) ==
    Kept(drafts'[submitted.id] # None, Delivered(WritingSubmitted), followup \/ changed)

\* A request that ends keeps its writing or delivered it.
LEMMA EndKept ==
    ASSUME IInv, submitted # None, requesting # NoJourney, NEW status, End(status),
           \/ status = "Changed" /\ requesting.work # "Submit"
           \/ /\ requesting.work = "Submit" => Answer(JourneyOp) \notin {"None", "Done"}
              /\ ~RemovesWriting(status) \/ requesting.kind = "Followup"
           \/ requesting.work = "Submit" /\ Answer(JourneyOp) = "Done" /\ RemovesWriting(status)
    PROVE  Disposes(requesting.kind = "Followup", last_request' = "Changed")
<1>1. /\ drafts'[submitted.id] # None <=> ~RemovesWriting(status)
      /\ last_request' = status
  BY EndDisposes
<1>2. CASE status = "Changed"
  BY <1>1, <1>2 DEF Disposes, Kept, RemovesWriting
<1>3. CASE /\ requesting.work = "Submit" => Answer(JourneyOp) \notin {"None", "Done"}
           /\ ~RemovesWriting(status) \/ requesting.kind = "Followup"
  <2>1. ~Delivered(WritingSubmitted)
    BY <1>3, NotDelivered
  <2> QED
    BY <1>1, <1>3, <2>1 DEF Disposes, Kept
<1>4. CASE requesting.work = "Submit" /\ Answer(JourneyOp) = "Done" /\ RemovesWriting(status)
  <2>1. Delivered(WritingSubmitted)
    BY <1>4, SubmissionDelivers
  <2> QED
    BY <1>1, <1>4, <2>1 DEF Disposes, Kept
<1> QED
  BY <1>2, <1>3, <1>4

\* A step of a request that goes on leaves the writing submitted.
LEMMA GoesOn ==
    ASSUME NEW j, j # NoJourney, NEW status, PersistRequest(j, status)
    PROVE  submitted' = submitted
BY DEF PersistRequest

LEMMA StepGoesOn ==
    ASSUME IInv, requesting # NoJourney, NEW step \in JourneyWork, NEW op \in Nat \cup {None},
           NEW status, PersistRequest([requesting EXCEPT !.work = step, !.op = op], status)
    PROVE  submitted' = submitted
<1> DEFINE j == [requesting EXCEPT !.work = step, !.op = op]
<1>1. j # NoJourney
  BY JourneyAlone DEF Journey, NoJourney, JourneyWork
<1> HIDE DEF j
<1> QED
  BY <1>1, GoesOn DEF j

LEMMA SigningGoesOn ==
    ASSUME IInv, requesting # NoJourney, NEW kind, NEW step \in JourneyWork,
           Sign(kind, step) \/ Step(step)
    PROVE  submitted' = submitted
<1>1. CASE Sign(kind, step)
  <2>1. NextOp \in Nat
    BY DEF IInv, TypeOK, NextOp
  <2>2. PersistRequest([requesting EXCEPT !.work = step, !.op = NextOp], last_request)
    BY <1>1 DEF Sign
  <2> QED
    BY <2>1, <2>2, StepGoesOn
<1>2. CASE Step(step)
  BY <1>2, StepGoesOn DEF Step
<1> QED
  BY <1>1, <1>2

LEMMA StoppingGoesOn ==
    ASSUME IInv, requesting # NoJourney,
           PersistRequest([requesting EXCEPT !.work = "Stopped", !.op = None], "Refused")
    PROVE  submitted' = submitted
BY StepGoesOn DEF JourneyWork

\* The steps that follow an answer or an observation, and the writing.
LEMMA LearnDisposes ==
    ASSUME IInv, submitted # None, submitted' = None,
           \/ LearnQuote \/ LearnCreated \/ ObserveFunding \/ ObserveStopped
           \/ StageDocument \/ LearnSubmitted \/ LearnCancelled
    PROVE  /\ requesting # NoJourney
           /\ Disposes(requesting.kind = "Followup", last_request' = "Changed")
<1>1. CASE LearnQuote
  BY <1>1, QuotedCarriesNothing DEF LearnQuote, Working
<1>2. CASE LearnCreated
  <2>1. requesting # NoJourney /\ requesting.work = "Create"
    BY <1>2 DEF LearnCreated, Working
  <2>2. ~Step("Funding")
    BY <2>1, SigningGoesOn DEF JourneyWork
  <2>3. End("Refused")
    BY <1>2, <2>2 DEF LearnCreated
  <2> QED
    BY <2>1, <2>3, EndKept DEF RemovesWriting
<1>3. CASE ObserveFunding
  <2>1. requesting # NoJourney /\ requesting.work = "Funding"
    BY <1>3 DEF ObserveFunding, Working
  <2>2. ~Step("Stage")
    BY <2>1, SigningGoesOn DEF JourneyWork
  <2>3. End("Changed")
    BY <1>3, <2>2 DEF ObserveFunding
  <2> QED
    BY <2>1, <2>3, EndKept
<1>4. CASE ObserveStopped
  <2>1. requesting # NoJourney /\ requesting.work = "Stopped" /\ End("Changed")
    BY <1>4 DEF ObserveStopped, Working
  <2> QED
    BY <2>1, EndKept
<1>5. CASE StageDocument
  <2>1. requesting # NoJourney /\ requesting.work = "Stage"
    BY <1>5 DEF StageDocument, Working
  <2>2. ~Sign(IF Initial THEN "Submit" ELSE "Followup", "Submit")
    BY <2>1, SigningGoesOn DEF JourneyWork
  <2>3. End("Changed")
    BY <1>5, <2>2 DEF StageDocument
  <2> QED
    BY <2>1, <2>3, EndKept
<1>6. CASE LearnSubmitted
  <2>1. requesting # NoJourney /\ requesting.work = "Submit"
    BY <1>6 DEF LearnSubmitted, Working
  <2>2. ~PersistRequest([requesting EXCEPT !.work = "Stopped", !.op = None], "Refused")
    BY <2>1, StoppingGoesOn
  <2>3. CASE /\ Answer(JourneyOp) = "Done"
             /\ End(IF Initial THEN "Submitted" ELSE "FollowupSent")
    <3>1. RemovesWriting(IF Initial THEN "Submitted" ELSE "FollowupSent")
      BY DEF RemovesWriting
    <3> QED
      BY <2>1, <2>3, <3>1, EndKept
  <2>4. CASE Answer(JourneyOp) = "Refused" /\ End("Refused")
    <3>1. ~RemovesWriting("Refused")
      BY DEF RemovesWriting
    <3> QED
      BY <2>1, <2>4, <3>1, EndKept
  <2> QED
    BY <1>6, <2>1, <2>2, <2>3, <2>4 DEF LearnSubmitted
<1>7. CASE LearnCancelled
  <2>1. requesting # NoJourney /\ requesting.work = "Cancel"
    BY <1>7 DEF LearnCancelled, Working
  <2>2. ~PersistRequest([requesting EXCEPT !.work = "Stopped", !.op = None], "Refused")
    BY <2>1, StoppingGoesOn
  <2>3. End("Cancelled")
    BY <1>7, <2>2 DEF LearnCancelled
  <2> QED
    BY <2>1, <2>3, EndKept DEF RemovesWriting
<1> QED
  BY <1>1, <1>2, <1>3, <1>4, <1>5, <1>6, <1>7

\* The member cancels, and the writing.
LEMMA CancelDisposes ==
    ASSUME IInv, submitted # None, submitted' = None, CancelRequest
    PROVE  /\ requesting # NoJourney
           /\ Disposes(requesting.kind = "Followup", last_request' = "Changed")
<1>1. requesting # NoJourney /\ requesting \in Journey
  BY JourneyAlone DEF CancelRequest, ReconcileBeforeCancel
<1>2. requesting.work \notin {"Quoting", "Quoted"}
  BY <1>1, QuotedCarriesNothing
<1>3. CASE ReconcileBeforeCancel
  <2>1. requesting.work \in {"Create", "Submit", "Cancel"} /\ Answer(JourneyOp) # "None"
    BY <1>3 DEF ReconcileBeforeCancel
  <2>2. ~Step("Stopped")
    BY <1>1, SigningGoesOn DEF JourneyWork
  <2>3. CASE requesting.work = "Cancel"
    <3>1. End("Cancelled")
      BY <1>3, <2>2, <2>3 DEF ReconcileBeforeCancel
    <3> QED
      BY <1>1, <2>3, <3>1, EndKept DEF RemovesWriting
  <2>4. CASE requesting.work = "Submit"
    <3> DEFINE status == IF Initial THEN "Submitted" ELSE "FollowupSent"
    <3>1. Answer(JourneyOp) = "Done" /\ End(status)
      BY <1>3, <2>2, <2>4 DEF ReconcileBeforeCancel
    <3>2. RemovesWriting(status)
      BY DEF RemovesWriting
    <3> HIDE DEF status
    <3> QED
      BY <1>1, <2>4, <3>1, <3>2, EndKept
  <2>5. CASE requesting.work = "Create"
    <3>1. End("Refused")
      BY <1>3, <2>2, <2>5 DEF ReconcileBeforeCancel
    <3> QED
      BY <1>1, <2>5, <3>1, EndKept DEF RemovesWriting
  <2> QED
    BY <2>1, <2>3, <2>4, <2>5
<1>4. CASE /\ requesting.work \in {"Funding", "Stage", "Stopped"}
           /\ ~Initial /\ End(last_request)
  <2>1. requesting.kind = "Followup"
    BY <1>1, <1>4 DEF Initial, Journey
  <2> QED
    BY <1>1, <1>4, <2>1, EndKept
<1>5. CASE requesting.work \in {"Funding", "Stage", "Stopped"} /\ End("Changed")
  BY <1>1, <1>5, EndKept
<1>6. ~Sign("Cancel", "Cancel")
  BY <1>1, SigningGoesOn DEF JourneyWork
<1> QED
  BY <1>1, <1>2, <1>3, <1>4, <1>5, <1>6 DEF CancelRequest

\* No other step takes writing out of the journal.
LEMMA OthersLeaveSubmitted ==
    ASSUME IInv, submitted # None,
           \/ Edit \/ AbandonChoice \/ Begin
           \/ SendPending \/ TransmitConversationEdit \/ FinishSetup
           \/ Provider \/ UNCHANGED vars
    PROVE  submitted' # None
<1>1. CASE Begin
  <2>1. ASSUME NEW target, CommitDraft(target) PROVE submitted' = submitted
    BY <2>1 DEF CommitDraft
  <2>2. ASSUME NEW r \in Requests, QuoteRequest(r) PROVE submitted' = submitted
    <3> DEFINE j == [kind |-> "Initial", request |-> r, work |-> "Quoting", op |-> NextOp,
                     document |-> None]
    <3>1. j # NoJourney
      BY DEF NoJourney
    <3>2. PersistRequest(j, "None")
      BY <2>2 DEF QuoteRequest
    <3> HIDE DEF j
    <3> QED
      BY <3>1, <3>2, GoesOn
  <2>3. CASE \E s \in Slots : BeginControl(s)
    BY <2>3 DEF BeginControl
  <2> QED
    BY <1>1, <2>1, <2>2, <2>3
    DEF Begin, SendMessage, SendLetter, Decide, EditConversation, ControlExternal, SetUp,
        SendFollowup, AuthorizeRequest, Slots
<1>2. CASE Edit \/ AbandonChoice
  BY <1>2 DEF Edit, OpenDraft, EditDraft, DiscardDraft, ChooseDraft, AbandonChoice, device
<1>3. CASE SendPending \/ TransmitConversationEdit \/ FinishSetup
  BY <1>3 DEF SendPending, TransmitConversationEdit, FinishSetup, TransmitControl
<1>4. CASE Provider
  BY <1>4 DEF Provider, Serve, Fund, Close, device
<1>5. CASE UNCHANGED vars
  BY <1>5 DEF vars, device
<1> QED
  BY <1>1, <1>2, <1>3, <1>4, <1>5

(* Writing that leaves the journal was delivered or is back in the editor,  *)
(* never both and never neither, whatever was answered, cancelled or        *)
(* interrupted (finish_draft in persist_request and in the outcomes of a    *)
(* send and of a letter); a changed request and a follow-up apart, whose    *)
(* writing may go although it was never sent.                               *)
THEOREM WritingNeverLost == Spec => WritingKept
<1> DEFINE Outcome ==
               submitted # None /\ submitted' = None =>
                   IF drafts'[submitted.id] # None
                   THEN ~Delivered(WritingSubmitted)
                   ELSE \/ Delivered(WritingSubmitted)
                        \/ requesting # NoJourney /\ requesting.kind = "Followup"
                        \/ requesting # NoJourney /\ last_request' = "Changed"
<1>1. ASSUME IInv, [Next]_vars PROVE Outcome
  <2> SUFFICES ASSUME submitted # None, submitted' = None PROVE Outcome
    OBVIOUS
  <2>1. CASE TransmitSend \/ TransmitExternal
    <3>1. Kept(drafts'[submitted.id] # None, Delivered(WritingSubmitted), FALSE)
      BY <1>1, <2>1, MessageKept
    <3> QED
      BY <3>1 DEF Kept
  <2>2. CASE \/ LearnQuote \/ LearnCreated \/ ObserveFunding \/ ObserveStopped
             \/ StageDocument \/ LearnSubmitted \/ LearnCancelled
    <3>1. /\ requesting # NoJourney
          /\ Disposes(requesting.kind = "Followup", last_request' = "Changed")
      BY <1>1, <2>2, LearnDisposes
    <3> QED
      BY <3>1 DEF Disposes, Kept
  <2>3. CASE CancelRequest
    <3>1. /\ requesting # NoJourney
          /\ Disposes(requesting.kind = "Followup", last_request' = "Changed")
      BY <1>1, <2>3, CancelDisposes
    <3> QED
      BY <3>1 DEF Disposes, Kept
  <2>4. ~(\/ Edit \/ AbandonChoice \/ Begin
          \/ SendPending \/ TransmitConversationEdit \/ FinishSetup
          \/ Provider \/ UNCHANGED vars)
    BY <1>1, OthersLeaveSubmitted
  <2> QED
    BY <1>1, <2>1, <2>2, <2>3, <2>4 DEF Next, Resume
<1>2. IInv /\ [Next]_vars => [Outcome]_vars
  BY <1>1
<1> QED
  BY <1>2, AlwaysFits, PTL DEF Spec, WritingKept
=============================================================================
