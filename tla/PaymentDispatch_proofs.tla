---------------------- MODULE PaymentDispatch_proofs ----------------------
(***************************************************************************)
(* The engine's records follow the processor, for any number of requests,  *)
(* workers, crashes, lost answers and lapsed leases.                       *)
(*                                                                         *)
(* The argument: whatever evidence a worker holds or a record contains is  *)
(* evidence the processor issued for that operation, and an operation has  *)
(* at most two such pieces, a pending submission and what became of it.    *)
(* So a worker's late answer can only repeat or complete what is on        *)
(* record, and neither the record nor the payer's source refuses it.       *)
(***************************************************************************)
EXTENDS PaymentDispatch, TLAPS

-----------------------------------------------------------------------------
(***************************************************************************)
(* The record of one request: settlements and processor evidence keep it   *)
(* sound, for every charge and collateral the terms may name.              *)
(***************************************************************************)

\* Everything that is true of a record, and enough to be kept by each step:
\* the stored-record validation is what rules out a settlement other than a
\* cancellation before the funding is final.
Sound(r, f) ==
    /\ f \in Financials
    /\ StoredValid(r, f)
    /\ RefundMatchesOutcome(r, f)
    /\ BooksMatch(r, f)
    /\ ForfeitureMatches(r, f)

USE ContractAssumption

\* The record create_request stores is sound.
LEMMA NewIsSound ==
    ASSUME NEW r \in Requests
    PROVE  Sound(r, NewFinancials)
<1>1. NewFinancials \in Financials
  <2>1. [a \in Account |-> 0] \in [Account -> Int]
    OBVIOUS
  <2> QED
    BY <2>1 DEF NewFinancials, Financials, CaptureStatus, RefundStatus
<1>2. StoredValid(r, NewFinancials)
  BY DEF NewFinancials, StoredValid, StoredCaptureValid, StoredRefundValid, StoredEventsValid
<1>3. RefundMatchesOutcome(r, NewFinancials)
  BY DEF NewFinancials, RefundMatchesOutcome, RefundOwed, FundingFinalized
<1>4. BooksMatch(r, NewFinancials)
  <2>1. \A a \in Account : NewFinancials.books[a] = 0
    BY DEF NewFinancials
  <2>2. /\ NewFinancials.capture = "Pending"
        /\ NewFinancials.settlement = "None"
        /\ NewFinancials.refund = "None"
        /\ NewFinancials.refundAmount = 0
    BY DEF NewFinancials
  <2> QED
    BY <2>1, <2>2 DEF BooksMatch, FundingFinalized, Account
<1>5. ForfeitureMatches(r, NewFinancials)
  BY DEF NewFinancials, ForfeitureMatches
<1> QED
  BY <1>1, <1>2, <1>3, <1>4, <1>5 DEF Sound

\* The fields of a record, and the books of each account, as the provers need
\* them named.
LEMMA SoundTypes ==
    ASSUME NEW r \in Requests, NEW f, Sound(r, f)
    PROVE  /\ f.capture \in CaptureStatus
           /\ f.refund \in RefundStatus
           /\ f.refundAmount \in Nat
           /\ f.settlement \in RequestSettlement \cup {"None"}
           /\ f.events \subseteq PaymentEvidence
           /\ f.books \in [Account -> Int]
           /\ f.forfeiture \in {"None", "Recorded", "Held"}
           /\ ProcessingCharge[r] \in Nat
           /\ Collateral[r] \in Nat
           /\ CaptureAmount(r) \in Nat
           /\ CaptureAmount(r) = ProcessingCharge[r] + Collateral[r]
           /\ CaptureAmount(r) > 0
BY DEF Sound, Financials, CaptureAmount

\* A request without an outcome, funded or not, has no refund and no forfeiture,
\* and its whole capture, if any, is in escrow.
LEMMA UnsettledRecord ==
    ASSUME NEW r \in Requests, NEW f, Sound(r, f), f.settlement = "None"
    PROVE  /\ f.refund = "None"
           /\ f.refundAmount = 0
           /\ f.forfeiture = "None"
BY SoundTypes DEF Sound, RefundMatchesOutcome, RefundOwed, ForfeitureMatches

\* A rejection keeps the record sound: charge to revenue, collateral to the program.
LEMMA RejectedSound ==
    ASSUME NEW r \in Requests, NEW f, Sound(r, f), f.settlement = "None", FundingFinalized(f)
    PROVE  Sound(r, SettleRejected(r, f))
<1> DEFINE C  == ProcessingCharge[r]
           S  == Collateral[r]
           b1 == Transfer(f.books, "RequestEscrow", "ProcessingRevenue", C)
           b2 == Transfer(b1, "RequestEscrow", "ProgramClearing", S)
           g  == SettleRejected(r, f)
<1>1. /\ f.capture \in {"FundingFinalized", "Reversed"}
      /\ C \in Nat /\ S \in Nat
      /\ f.books \in [Account -> Int]
      /\ f.forfeiture = "None" /\ f.refund = "None" /\ f.refundAmount = 0
  BY SoundTypes, UnsettledRecord DEF FundingFinalized
<1>2. /\ b2 \in [Account -> Int]
      /\ b2["RequestEscrow"] = f.books["RequestEscrow"] - C - S
      /\ b2["ProcessingRevenue"] = f.books["ProcessingRevenue"] + C
      /\ b2["ProgramClearing"] = f.books["ProgramClearing"] + S
      /\ \A a \in {"ProcessorClearing", "RefundPayable", "CorporateLossClearing"} :
            b2[a] = f.books[a]
  BY <1>1 DEF Transfer, Account
<1>3. /\ g.capture = f.capture /\ g.refund = f.refund /\ g.refundAmount = f.refundAmount
      /\ g.settlement = "Rejected" /\ g.events = f.events /\ g.books = b2
      /\ g.forfeiture = IF S = 0 THEN f.forfeiture
                        ELSE IF f.capture = "Reversed" THEN "Held" ELSE "Recorded"
      /\ g \in Financials
  BY <1>1, <1>2 DEF SettleRejected, Sound, Financials, RequestSettlement
<1>4. StoredValid(r, g)
  BY <1>1, <1>3 DEF Sound, StoredValid, StoredCaptureValid, StoredRefundValid,
                    StoredEventsValid, HasEvidence
<1>5. RefundMatchesOutcome(r, g)
  BY <1>1, <1>3 DEF RefundMatchesOutcome, RefundOwed
<1>6. BooksMatch(r, g)
  <2>1. /\ f.books["RequestEscrow"] = C + S
        /\ f.books["RefundPayable"] = 0
        /\ f.books["ProcessorClearing"] = (IF f.capture = "Reversed" THEN C + S ELSE 0) - (C + S)
        /\ f.books["ProcessingRevenue"] = 0
        /\ f.books["ProgramClearing"] = 0
        /\ f.books["CorporateLossClearing"] = 0 - (IF f.capture = "Reversed" THEN C + S ELSE 0)
    BY <1>1 DEF Sound, BooksMatch, FundingFinalized
  <2> HIDE DEF b1, b2, g, C, S
  <2>2. /\ g.books["RequestEscrow"] = 0
        /\ g.books["RefundPayable"] = 0
        /\ g.books["ProcessingRevenue"] = C
        /\ g.books["ProgramClearing"] = S
        /\ g.books["ProcessorClearing"] = f.books["ProcessorClearing"]
        /\ g.books["CorporateLossClearing"] = f.books["CorporateLossClearing"]
    <3>1. C \in Nat /\ S \in Nat /\ g.books = b2
      BY <1>1, <1>3
    <3>2. b2["RequestEscrow"] = 0
      BY <1>2, <2>1, <3>1
    <3>3. b2["ProcessingRevenue"] = C /\ b2["ProgramClearing"] = S
      BY <1>2, <2>1, <3>1
    <3>4. /\ b2["RefundPayable"] = 0
          /\ b2["ProcessorClearing"] = f.books["ProcessorClearing"]
          /\ b2["CorporateLossClearing"] = f.books["CorporateLossClearing"]
      BY <1>2, <2>1
    <3> QED
      BY <3>1, <3>2, <3>3, <3>4
  <2> QED
    BY <1>1, <1>3, <2>1, <2>2 DEF BooksMatch, FundingFinalized, C, S
<1>7. ForfeitureMatches(r, g)
  BY <1>1, <1>3 DEF ForfeitureMatches
<1> QED
  BY <1>3, <1>4, <1>5, <1>6, <1>7 DEF Sound

\* An expiry keeps the record sound: charge to revenue, collateral refunded.
LEMMA ExpiredSound ==
    ASSUME NEW r \in Requests, NEW f, Sound(r, f), f.settlement = "None", FundingFinalized(f)
    PROVE  Sound(r, SettleExpired(r, f))
<1> DEFINE C  == ProcessingCharge[r]
           S  == Collateral[r]
           b1 == Transfer(f.books, "RequestEscrow", "ProcessingRevenue", C)
           b2 == IF S = 0 THEN b1 ELSE Transfer(b1, "RequestEscrow", "RefundPayable", S)
           g  == SettleExpired(r, f)
<1>1. /\ f.capture \in {"FundingFinalized", "Reversed"}
      /\ C \in Nat /\ S \in Nat
      /\ f.books \in [Account -> Int]
      /\ f.forfeiture = "None" /\ f.refund = "None" /\ f.refundAmount = 0
  BY SoundTypes, UnsettledRecord DEF FundingFinalized
<1>2. /\ b2 \in [Account -> Int]
      /\ b2["RequestEscrow"] = f.books["RequestEscrow"] - C - S
      /\ b2["ProcessingRevenue"] = f.books["ProcessingRevenue"] + C
      /\ b2["RefundPayable"] = f.books["RefundPayable"] + S
      /\ \A a \in {"ProcessorClearing", "ProgramClearing", "CorporateLossClearing"} :
            b2[a] = f.books[a]
  BY <1>1 DEF Transfer, Account
<1>3. /\ g.capture = f.capture
      /\ g.refund = IF S = 0 THEN "None" ELSE "Pending"
      /\ g.refundAmount = S
      /\ g.settlement = "Expired" /\ g.events = f.events /\ g.books = b2
      /\ g.forfeiture = "None"
      /\ g \in Financials
  BY <1>1, <1>2 DEF SettleExpired, CreateRefund, Sound, Financials, RequestSettlement, RefundStatus
<1>4. StoredValid(r, g)
  BY <1>1, <1>3 DEF Sound, StoredValid, StoredCaptureValid, StoredRefundValid,
                    StoredEventsValid, HasEvidence, FundingFinalized
<1>5. RefundMatchesOutcome(r, g)
  BY <1>1, <1>3 DEF RefundMatchesOutcome, RefundOwed, FundingFinalized
<1>6. BooksMatch(r, g)
  <2>1. /\ f.books["RequestEscrow"] = C + S
        /\ f.books["RefundPayable"] = 0
        /\ f.books["ProcessorClearing"] = (IF f.capture = "Reversed" THEN C + S ELSE 0) - (C + S)
        /\ f.books["ProcessingRevenue"] = 0
        /\ f.books["ProgramClearing"] = 0
        /\ f.books["CorporateLossClearing"] = 0 - (IF f.capture = "Reversed" THEN C + S ELSE 0)
    BY <1>1 DEF Sound, BooksMatch, FundingFinalized
  <2> HIDE DEF b1, b2, g, C, S
  <2>2. /\ g.books["RequestEscrow"] = 0
        /\ g.books["RefundPayable"] = S
        /\ g.books["ProcessingRevenue"] = C
        /\ g.books["ProgramClearing"] = 0
        /\ g.books["ProcessorClearing"] = f.books["ProcessorClearing"]
        /\ g.books["CorporateLossClearing"] = f.books["CorporateLossClearing"]
    <3>1. C \in Nat /\ S \in Nat /\ g.books = b2
      BY <1>1, <1>3
    <3>2. /\ b2["RequestEscrow"] = f.books["RequestEscrow"] - C - S
          /\ b2["ProcessingRevenue"] = f.books["ProcessingRevenue"] + C
          /\ b2["RefundPayable"] = f.books["RefundPayable"] + S
      BY <1>2
    <3>3. g.books["RequestEscrow"] = 0
      BY <2>1, <3>1, <3>2
    <3>4. g.books["RefundPayable"] = S /\ g.books["ProcessingRevenue"] = C
      BY <2>1, <3>1, <3>2
    <3>5. /\ b2["ProgramClearing"] = f.books["ProgramClearing"]
          /\ b2["ProcessorClearing"] = f.books["ProcessorClearing"]
          /\ b2["CorporateLossClearing"] = f.books["CorporateLossClearing"]
      BY <1>2
    <3> QED
      BY <2>1, <3>1, <3>3, <3>4, <3>5
  <2>3. g.refund # "Confirmed" /\ S \in Int
    BY <1>1, <1>3
  <2>4. CASE f.capture = "Reversed"
    <3>1. g.books["ProcessorClearing"] = 0 /\ g.books["CorporateLossClearing"] = 0 - (C + S)
      BY <1>1, <2>1, <2>2, <2>4
    <3>2. /\ g.capture = "Reversed" /\ g.settlement = "Expired" /\ g.refundAmount = S
          /\ C \in Nat /\ S \in Nat
      BY <1>1, <1>3, <2>4
    <3> QED
      BY <2>2, <2>3, <3>1, <3>2 DEF BooksMatch, FundingFinalized, C, S
  <2>5. CASE f.capture = "FundingFinalized"
    BY <1>1, <1>3, <2>1, <2>2, <2>3, <2>5 DEF BooksMatch, FundingFinalized, C, S
  <2> QED
    BY <1>1, <2>4, <2>5
<1>7. ForfeitureMatches(r, g)
  BY <1>1, <1>3 DEF ForfeitureMatches
<1> QED
  BY <1>3, <1>4, <1>5, <1>6, <1>7 DEF Sound

\* An acceptance or cancellation of a funded request keeps the record sound:
\* the whole capture becomes a refund.
LEMMA InFullSound ==
    ASSUME NEW r \in Requests, NEW f, Sound(r, f), f.settlement = "None", FundingFinalized(f),
           NEW s \in {"Accepted", "Cancelled"}
    PROVE  Sound(r, SettleInFull(r, f, s))
<1> DEFINE A == CaptureAmount(r)
           b == Transfer(f.books, "RequestEscrow", "RefundPayable", A)
           g == SettleInFull(r, f, s)
<1>1. /\ f.capture \in {"FundingFinalized", "Reversed"}
      /\ A \in Nat /\ A > 0 /\ A = ProcessingCharge[r] + Collateral[r]
      /\ f.books \in [Account -> Int]
      /\ f.forfeiture = "None" /\ f.refund = "None" /\ f.refundAmount = 0
  BY SoundTypes, UnsettledRecord DEF FundingFinalized
<1>2. /\ b \in [Account -> Int]
      /\ b["RequestEscrow"] = f.books["RequestEscrow"] - A
      /\ b["RefundPayable"] = f.books["RefundPayable"] + A
      /\ \A a \in {"ProcessorClearing", "ProcessingRevenue", "ProgramClearing",
                   "CorporateLossClearing"} : b[a] = f.books[a]
  BY <1>1 DEF Transfer, Account
<1>3. /\ g.capture = f.capture /\ g.refund = "Pending" /\ g.refundAmount = A
      /\ g.settlement = s /\ g.events = f.events /\ g.books = b
      /\ g.forfeiture = "None"
      /\ g \in Financials
  <2> DEFINE h == [f EXCEPT !.settlement = s]
  <2>1. /\ h \in Financials
        /\ h.capture = f.capture /\ h.refund = "None" /\ h.settlement = s
        /\ h.events = f.events /\ h.books = f.books /\ h.forfeiture = "None"
    BY <1>1 DEF Sound, Financials, RequestSettlement
  <2>2. g = [h EXCEPT !.refund = "Pending", !.refundAmount = A, !.books = b]
    BY <1>1, <2>1 DEF SettleInFull, CreateRefund
  <2> HIDE DEF A, b, g, h
  <2> QED
    BY <1>1, <1>2, <2>1, <2>2 DEF Financials, RefundStatus
<1> HIDE DEF A, b, g
<1>4. StoredValid(r, g)
  BY <1>1, <1>3 DEF Sound, StoredValid, StoredCaptureValid, StoredRefundValid,
                    StoredEventsValid, HasEvidence, FundingFinalized, A
<1>5. RefundMatchesOutcome(r, g)
  BY <1>1, <1>3 DEF RefundMatchesOutcome, RefundOwed, FundingFinalized, A
<1>6. BooksMatch(r, g)
  <2>1. /\ f.books["RequestEscrow"] = A
        /\ f.books["RefundPayable"] = 0
        /\ f.books["ProcessorClearing"] = (IF f.capture = "Reversed" THEN A ELSE 0) - A
        /\ f.books["ProcessingRevenue"] = 0
        /\ f.books["ProgramClearing"] = 0
        /\ f.books["CorporateLossClearing"] = 0 - (IF f.capture = "Reversed" THEN A ELSE 0)
    BY <1>1 DEF Sound, BooksMatch, FundingFinalized
  <2>2. /\ g.books["RequestEscrow"] = 0
        /\ g.books["RefundPayable"] = A
        /\ g.books["ProcessingRevenue"] = 0
        /\ g.books["ProgramClearing"] = 0
        /\ g.books["ProcessorClearing"] = f.books["ProcessorClearing"]
        /\ g.books["CorporateLossClearing"] = f.books["CorporateLossClearing"]
    <3>1. A \in Int /\ A - A = 0 /\ 0 + A = A
      BY <1>1
    <3> QED
      BY <1>2, <1>3, <2>1, <3>1
  <2> QED
    BY <1>1, <1>3, <2>1, <2>2 DEF BooksMatch, FundingFinalized
<1>7. ForfeitureMatches(r, g)
  BY <1>1, <1>3 DEF ForfeitureMatches
<1> QED
  BY <1>3, <1>4, <1>5, <1>6, <1>7 DEF Sound, g

\* The cancellation of a request whose capture is not final keeps the record
\* sound: nothing is owed and the capture is to be cancelled.
LEMMA UnfundedSound ==
    ASSUME NEW r \in Requests, NEW f, Sound(r, f), f.settlement = "None", ~FundingFinalized(f)
    PROVE  Sound(r, SettleUnfunded(f))
<1> DEFINE g == SettleUnfunded(f)
<1>1. /\ f.capture = "Pending"
      /\ f.refund = "None" /\ f.refundAmount = 0 /\ f.forfeiture = "None"
  BY SoundTypes, UnsettledRecord DEF Sound, StoredValid, StoredCaptureValid, CaptureStatus,
                                     FundingFinalized
<1>2. /\ g.capture = "CancellationRequested"
      /\ g.settlement = "Cancelled" /\ g.refund = "None" /\ g.refundAmount = 0
      /\ g.events = f.events /\ g.books = f.books /\ g.forfeiture = "None"
      /\ g \in Financials
  BY <1>1 DEF SettleUnfunded, Sound, Financials, CaptureStatus, RequestSettlement
<1> HIDE DEF g
<1>3. StoredValid(r, g)
  BY <1>1, <1>2 DEF Sound, StoredValid, StoredCaptureValid, StoredRefundValid, StoredEventsValid
<1>4. RefundMatchesOutcome(r, g)
  BY <1>1, <1>2 DEF RefundMatchesOutcome, RefundOwed, FundingFinalized
<1>5. BooksMatch(r, g)
  BY <1>1, <1>2 DEF Sound, BooksMatch, FundingFinalized
<1>6. ForfeitureMatches(r, g)
  BY <1>1, <1>2 DEF ForfeitureMatches
<1> QED
  BY <1>2, <1>3, <1>4, <1>5, <1>6 DEF Sound, g

\* A settlement the record accepts leaves a sound record.
LEMMA SettleSound ==
    ASSUME NEW r \in Requests, NEW f, Sound(r, f),
           NEW s \in RequestSettlement, CanSettle(f, s)
    PROVE  Sound(r, Settle(r, f, s))
<1>1. CASE f.settlement = s
  BY <1>1 DEF Settle
<1>2. CASE f.settlement # s
  <2>1. f.settlement = "None" /\ (s # "Cancelled" => FundingFinalized(f))
    BY <1>2 DEF CanSettle
  <2>2. CASE s = "Rejected"
    BY <1>2, <2>1, <2>2, RejectedSound DEF Settle
  <2>3. CASE s = "Expired"
    BY <1>2, <2>1, <2>3, ExpiredSound DEF Settle
  <2>4. CASE s = "Accepted"
    BY <1>2, <2>1, <2>4, InFullSound DEF Settle
  <2>5. CASE s = "Cancelled"
    BY <1>2, <2>1, <2>5, InFullSound, UnfundedSound DEF Settle
  <2> QED
    BY <2>2, <2>3, <2>4, <2>5 DEF RequestSettlement
<1> QED
  BY <1>1, <1>2

-----------------------------------------------------------------------------
\* Evidence that changes no status leaves a sound record with one more event.
LEMMA AddEventSound ==
    ASSUME NEW r \in Requests, NEW f, Sound(r, f), NEW e \in PaymentEvidence,
           e.op = "refund" => f.refund # "None"
    PROVE  Sound(r, [f EXCEPT !.events = @ \cup {e}])
<1> DEFINE g == [f EXCEPT !.events = @ \cup {e}]
<1>1. /\ g.capture = f.capture /\ g.refund = f.refund /\ g.refundAmount = f.refundAmount
      /\ g.settlement = f.settlement /\ g.events = f.events \cup {e} /\ g.books = f.books
      /\ g.forfeiture = f.forfeiture
      /\ g \in Financials
  BY DEF Sound, Financials
<1> HIDE DEF g
<1>2. \A op, o : HasEvidence(f, op, o) => HasEvidence(g, op, o)
  BY <1>1 DEF HasEvidence
<1>3. StoredCaptureValid(g)
  <2>1. StoredCaptureValid(f) /\ f.capture \in CaptureStatus
    BY SoundTypes DEF Sound, StoredValid
  <2> QED
    BY <1>1, <1>2, <2>1 DEF StoredCaptureValid, CaptureStatus
<1>4. StoredRefundValid(r, g) /\ StoredEventsValid(g)
  BY <1>1, <1>2 DEF Sound, StoredValid, StoredRefundValid, StoredEventsValid, FundingFinalized
<1>5. RefundMatchesOutcome(r, g) /\ ForfeitureMatches(r, g)
  BY <1>1 DEF Sound, RefundMatchesOutcome, RefundOwed, ForfeitureMatches, FundingFinalized
<1>6. BooksMatch(r, g)
  BY <1>1 DEF Sound, BooksMatch, FundingFinalized
<1> QED
  BY <1>1, <1>3, <1>4, <1>5, <1>6 DEF Sound, StoredValid, g

\* Before the funding is final there is at most a cancellation, and no money.
LEMMA UnfundedRecord ==
    ASSUME NEW r \in Requests, NEW f, Sound(r, f), ~FundingFinalized(f)
    PROVE  /\ f.settlement \in {"None", "Cancelled"}
           /\ f.capture \in {"Pending", "CancellationRequested", "Voided"}
           /\ f.refund = "None" /\ f.refundAmount = 0 /\ f.forfeiture = "None"
           /\ \A a \in Account : f.books[a] = 0
<1>1. /\ f.capture \in {"Pending", "CancellationRequested", "Voided"}
      /\ f.settlement \in {"None", "Cancelled"}
  BY SoundTypes DEF Sound, StoredValid, StoredCaptureValid, CaptureStatus, FundingFinalized
<1>2. f.refund = "None" /\ f.refundAmount = 0
  BY DEF Sound, RefundMatchesOutcome, RefundOwed
<1>3. f.forfeiture = "None"
  BY <1>1 DEF Sound, ForfeitureMatches
<1>4. \A a \in Account : f.books[a] = 0
  <2>1. BooksMatch(r, f)
    BY DEF Sound
  <2> QED
    BY <1>1, <1>2, <2>1 DEF BooksMatch, Account, FundingFinalized
<1> QED
  BY <1>1, <1>2, <1>3, <1>4

\* Evidence that the capture settled, on time or after the cancellation, keeps
\* the record sound.
LEMMA CaptureSettledSound ==
    ASSUME NEW r \in Requests, NEW f, Sound(r, f), ~FundingFinalized(f),
           NEW e \in PaymentEvidence, e.op = "capture", e.outcome = "Settled"
    PROVE  Sound(r, [CaptureSettled(r, f) EXCEPT !.events = @ \cup {e}])
<1> DEFINE A  == CaptureAmount(r)
           b1 == Transfer(f.books, "ProcessorClearing", "RequestEscrow", A)
           b2 == IF f.settlement = "Cancelled"
                 THEN Transfer(b1, "RequestEscrow", "RefundPayable", A) ELSE b1
           h  == [f EXCEPT !.capture = "FundingFinalized", !.books = b1]
           g  == [CaptureSettled(r, f) EXCEPT !.events = @ \cup {e}]
<1>1. A \in Nat /\ A > 0 /\ A = ProcessingCharge[r] + Collateral[r]
  BY SoundTypes
<1>2. /\ f.settlement \in {"None", "Cancelled"}
      /\ f.refund = "None" /\ f.refundAmount = 0 /\ f.forfeiture = "None"
      /\ \A a \in Account : f.books[a] = 0
      /\ f.books \in [Account -> Int]
  BY UnfundedRecord, SoundTypes
<1>3. /\ b1 \in [Account -> Int]
      /\ b2 \in [Account -> Int]
      /\ b2["ProcessorClearing"] = 0 - A
      /\ b2["RequestEscrow"] = IF f.settlement = "Cancelled" THEN 0 ELSE A
      /\ b2["RefundPayable"] = IF f.settlement = "Cancelled" THEN A ELSE 0
      /\ b2["ProcessingRevenue"] = 0 /\ b2["ProgramClearing"] = 0
      /\ b2["CorporateLossClearing"] = 0
  <2>1. /\ b1 \in [Account -> Int] /\ b1["ProcessorClearing"] = 0 - A /\ b1["RequestEscrow"] = A
        /\ \A a \in Account \ {"ProcessorClearing", "RequestEscrow"} : b1[a] = 0
    BY <1>1, <1>2 DEF Transfer, Account
  <2> HIDE DEF A, b1
  <2> QED
    BY <1>1, <2>1 DEF Transfer, Account
<1>4. /\ g.capture = "FundingFinalized"
      /\ g.refund = IF f.settlement = "Cancelled" THEN "Pending" ELSE "None"
      /\ g.refundAmount = IF f.settlement = "Cancelled" THEN A ELSE 0
      /\ g.settlement = f.settlement /\ g.events = f.events \cup {e} /\ g.books = b2
      /\ g.forfeiture = "None"
      /\ g \in Financials
  <2>1. /\ h.capture = "FundingFinalized" /\ h.refund = "None" /\ h.refundAmount = 0
        /\ h.settlement = f.settlement /\ h.events = f.events /\ h.books = b1
        /\ h.forfeiture = "None"
        /\ h \in Financials
    <3> HIDE DEF b1
    <3> QED
      BY <1>2, <1>3 DEF Sound, Financials, CaptureStatus
  <2>2. CASE f.settlement = "Cancelled"
    <3>1. CaptureSettled(r, f) = [h EXCEPT !.refund = "Pending", !.refundAmount = A,
                                           !.books = b2]
      BY <1>1, <2>1, <2>2 DEF CaptureSettled, CreateRefund
    <3> DEFINE k == [h EXCEPT !.refund = "Pending", !.refundAmount = A, !.books = b2]
    <3> HIDE DEF A, b1, b2, h
    <3>2. /\ k.capture = "FundingFinalized" /\ k.refund = "Pending" /\ k.refundAmount = A
          /\ k.settlement = f.settlement /\ k.events = f.events /\ k.books = b2
          /\ k.forfeiture = "None"
          /\ k \in Financials
      BY <1>1, <1>3, <2>1 DEF Financials, RefundStatus
    <3> HIDE DEF k
    <3>3. g = [k EXCEPT !.events = @ \cup {e}]
      BY <3>1 DEF k
    <3> HIDE DEF g
    <3> QED
      BY <2>2, <3>2, <3>3 DEF Financials
  <2>3. CASE f.settlement = "None"
    <3>1. CaptureSettled(r, f) = h /\ b2 = b1
      BY <2>3 DEF CaptureSettled
    <3> HIDE DEF A, b1, b2, h
    <3> QED
      BY <1>1, <1>2, <1>3, <2>1, <2>3, <3>1
         DEF Sound, Financials, CaptureStatus, RefundStatus, RequestSettlement
  <2> QED
    BY <1>2, <2>2, <2>3
<1> HIDE DEF A, b1, b2, h, g
<1>5. StoredValid(r, g)
  <2>1. HasEvidence(g, "capture", "Settled")
    BY <1>4 DEF HasEvidence
  <2> QED
    BY <1>2, <1>4, <2>1 DEF Sound, StoredValid, StoredCaptureValid, StoredRefundValid,
                            StoredEventsValid, FundingFinalized, A
<1>6. RefundMatchesOutcome(r, g)
  BY <1>1, <1>2, <1>4 DEF RefundMatchesOutcome, RefundOwed, FundingFinalized, A
<1>7. BooksMatch(r, g)
  BY <1>1, <1>2, <1>3, <1>4 DEF BooksMatch, FundingFinalized
<1>8. ForfeitureMatches(r, g)
  BY <1>2, <1>4 DEF ForfeitureMatches
<1> QED
  BY <1>4, <1>5, <1>6, <1>7, <1>8 DEF Sound, g

\* Evidence that the capture was voided or failed keeps the record sound.
LEMMA CaptureVoidedSound ==
    ASSUME NEW r \in Requests, NEW f, Sound(r, f), ~FundingFinalized(f),
           NEW e \in PaymentEvidence, e.op = "capture", e.outcome \in {"Voided", "Failed"}
    PROVE  Sound(r, [CaptureVoided(f) EXCEPT !.events = @ \cup {e}])
<1> DEFINE g == [CaptureVoided(f) EXCEPT !.events = @ \cup {e}]
<1>1. /\ f.refund = "None" /\ f.refundAmount = 0 /\ f.forfeiture = "None"
      /\ \A a \in Account : f.books[a] = 0
  BY UnfundedRecord
<1>2. /\ g.capture = "Voided" /\ g.settlement = "Cancelled"
      /\ g.refund = "None" /\ g.refundAmount = 0 /\ g.forfeiture = "None"
      /\ g.events = f.events \cup {e} /\ g.books = f.books
      /\ g \in Financials
  BY <1>1 DEF CaptureVoided, Sound, Financials, CaptureStatus, RequestSettlement
<1> HIDE DEF g
<1>3. StoredValid(r, g)
  <2>1. HasEvidence(g, "capture", "Voided") \/ HasEvidence(g, "capture", "Failed")
    BY <1>2 DEF HasEvidence
  <2> QED
    BY <1>1, <1>2, <2>1 DEF Sound, StoredValid, StoredCaptureValid, StoredRefundValid,
                            StoredEventsValid
<1>4. RefundMatchesOutcome(r, g)
  BY <1>2 DEF RefundMatchesOutcome, RefundOwed, FundingFinalized
<1>5. BooksMatch(r, g)
  BY <1>1, <1>2 DEF BooksMatch, FundingFinalized, Account
<1>6. ForfeitureMatches(r, g)
  BY <1>2 DEF ForfeitureMatches
<1> QED
  BY <1>2, <1>3, <1>4, <1>5, <1>6 DEF Sound, g

\* Evidence of a reversal keeps the record sound, before and after the outcome.
LEMMA CaptureReversedSound ==
    ASSUME NEW r \in Requests, NEW f, Sound(r, f), f.capture = "FundingFinalized",
           NEW e \in PaymentEvidence, e.op = "capture", e.outcome = "Reversed"
    PROVE  Sound(r, [CaptureReversed(r, f) EXCEPT !.events = @ \cup {e}])
<1> DEFINE A == CaptureAmount(r)
           b == Transfer(f.books, "CorporateLossClearing", "ProcessorClearing", A)
           v == IF f.settlement = "Rejected" /\ Collateral[r] > 0 THEN "Held" ELSE f.forfeiture
           g == [CaptureReversed(r, f) EXCEPT !.events = @ \cup {e}]
<1>1. /\ A \in Nat /\ A > 0 /\ A = ProcessingCharge[r] + Collateral[r]
      /\ f.books \in [Account -> Int]
      /\ f.refund \in RefundStatus /\ f.refundAmount \in Nat
      /\ f.settlement \in RequestSettlement \cup {"None"}
      /\ f.forfeiture \in {"None", "Recorded", "Held"}
  BY SoundTypes
<1>2. /\ b \in [Account -> Int]
      /\ b["CorporateLossClearing"] = f.books["CorporateLossClearing"] - A
      /\ b["ProcessorClearing"] = f.books["ProcessorClearing"] + A
      /\ \A a \in {"RequestEscrow", "RefundPayable", "ProgramClearing", "ProcessingRevenue"} :
            b[a] = f.books[a]
  BY <1>1 DEF Transfer, Account
<1>3. /\ g.capture = "Reversed" /\ g.settlement = f.settlement /\ g.refund = f.refund
      /\ g.refundAmount = f.refundAmount /\ g.events = f.events \cup {e} /\ g.books = b
      /\ g.forfeiture = v
      /\ g \in Financials
  <2> HIDE DEF A
  <2> QED
    BY <1>1, <1>2 DEF CaptureReversed, Sound, Financials, CaptureStatus, A
<1> HIDE DEF A, b, g
<1>4. StoredValid(r, g)
  <2>1. HasEvidence(f, "capture", "Settled")
    BY DEF Sound, StoredValid, StoredCaptureValid
  <2>2. HasEvidence(g, "capture", "Settled") /\ HasEvidence(g, "capture", "Reversed")
    BY <1>3, <2>1 DEF HasEvidence
  <2>3. HasEvidence(f, "refund", "Settled") => HasEvidence(g, "refund", "Settled")
    BY <1>3 DEF HasEvidence
  <2> QED
    BY <1>3, <2>2, <2>3 DEF Sound, StoredValid, StoredCaptureValid, StoredRefundValid,
                            StoredEventsValid, FundingFinalized
<1>5. RefundMatchesOutcome(r, g)
  BY <1>3 DEF Sound, RefundMatchesOutcome, RefundOwed, FundingFinalized
<1>6. BooksMatch(r, g)
  <2> DEFINE paid == IF f.refund = "Confirmed" THEN f.refundAmount ELSE 0
             kept == IF f.settlement \in {"Rejected", "Expired"} THEN ProcessingCharge[r] ELSE 0
             pool == IF f.settlement = "Rejected" THEN Collateral[r] ELSE 0
             held == IF f.settlement = "None" THEN A ELSE 0
  <2>1. BooksMatch(r, f) /\ f.capture # "Reversed"
    BY DEF Sound
  <2>2. /\ f.books["RequestEscrow"] = held
        /\ f.books["RefundPayable"] = f.refundAmount - paid
        /\ f.books["ProcessorClearing"] = 0 + paid - A
        /\ f.books["ProcessingRevenue"] = kept
        /\ f.books["ProgramClearing"] = pool
        /\ f.books["CorporateLossClearing"] = 0
    BY <1>1, <2>1 DEF BooksMatch, FundingFinalized
  <2>3. paid \in Nat
    BY <1>1
  <2> HIDE DEF paid, kept, pool, held
  <2>4. /\ g.books["RequestEscrow"] = held
        /\ g.books["RefundPayable"] = f.refundAmount - paid
        /\ g.books["ProcessorClearing"] = A + paid - A
        /\ g.books["ProcessingRevenue"] = kept
        /\ g.books["ProgramClearing"] = pool
        /\ g.books["CorporateLossClearing"] = 0 - A
    BY <1>1, <1>2, <1>3, <2>2, <2>3
  <2> QED
    BY <1>1, <1>3, <2>4 DEF BooksMatch, FundingFinalized, paid, kept, pool, held
<1>7. ForfeitureMatches(r, g)
  BY <1>1, <1>3 DEF Sound, ForfeitureMatches
<1> QED
  BY <1>3, <1>4, <1>5, <1>6, <1>7 DEF Sound, g

\* Evidence that the refund was paid keeps the record sound.
LEMMA RefundSettledSound ==
    ASSUME NEW r \in Requests, NEW f, Sound(r, f), f.refund = "Pending",
           NEW e \in PaymentEvidence, e.op = "refund", e.outcome = "Settled"
    PROVE  Sound(r, [RefundSettled(f) EXCEPT !.events = @ \cup {e}])
<1> DEFINE n == f.refundAmount
           b == Transfer(f.books, "RefundPayable", "ProcessorClearing", n)
           g == [RefundSettled(f) EXCEPT !.events = @ \cup {e}]
<1>1. n \in Nat /\ f.books \in [Account -> Int]
  BY SoundTypes
<1>2. /\ b \in [Account -> Int]
      /\ b["RefundPayable"] = f.books["RefundPayable"] - n
      /\ b["ProcessorClearing"] = f.books["ProcessorClearing"] + n
      /\ \A a \in {"RequestEscrow", "CorporateLossClearing", "ProgramClearing",
                   "ProcessingRevenue"} : b[a] = f.books[a]
  BY <1>1 DEF Transfer, Account
<1>3. /\ g.capture = f.capture /\ g.settlement = f.settlement /\ g.refund = "Confirmed"
      /\ g.refundAmount = n /\ g.events = f.events \cup {e} /\ g.books = b
      /\ g.forfeiture = f.forfeiture
      /\ g \in Financials
  BY <1>1, <1>2 DEF RefundSettled, Sound, Financials, RefundStatus
<1> HIDE DEF b, g
<1>4. StoredValid(r, g)
  <2>1. HasEvidence(g, "refund", "Settled")
    BY <1>3 DEF HasEvidence
  <2>2. \A op, o : HasEvidence(f, op, o) => HasEvidence(g, op, o)
    BY <1>3 DEF HasEvidence
  <2>3. StoredCaptureValid(g)
    <3>1. StoredCaptureValid(f) /\ f.capture \in CaptureStatus
      BY SoundTypes DEF Sound, StoredValid
    <3> QED
      BY <1>3, <2>2, <3>1 DEF StoredCaptureValid, CaptureStatus
  <2> QED
    BY <1>3, <2>1, <2>3 DEF Sound, StoredValid, StoredRefundValid, StoredEventsValid,
                            FundingFinalized
<1>5. RefundMatchesOutcome(r, g)
  BY <1>3 DEF Sound, RefundMatchesOutcome, RefundOwed, FundingFinalized
<1>6. BooksMatch(r, g)
  <2> DEFINE lost == IF f.capture = "Reversed"
                     THEN ProcessingCharge[r] + Collateral[r] ELSE 0
             fund == IF FundingFinalized(f) THEN ProcessingCharge[r] + Collateral[r] ELSE 0
  <2>1. /\ BooksMatch(r, f)
        /\ ProcessingCharge[r] \in Nat /\ Collateral[r] \in Nat
    BY SoundTypes DEF Sound
  <2>2. /\ f.books["RefundPayable"] = n - 0
        /\ f.books["ProcessorClearing"] = lost + 0 - fund
    BY <2>1 DEF BooksMatch
  <2>3. lost \in Int /\ fund \in Int
    BY <2>1
  <2> HIDE DEF lost, fund
  <2>4. /\ g.books["RefundPayable"] = n - n
        /\ g.books["ProcessorClearing"] = lost + n - fund
    BY <1>1, <1>2, <1>3, <2>2, <2>3
  <2> QED
    BY <1>1, <1>2, <1>3, <2>1, <2>4 DEF BooksMatch, FundingFinalized, lost, fund
<1>7. ForfeitureMatches(r, g)
  BY <1>3 DEF Sound, ForfeitureMatches
<1> QED
  BY <1>3, <1>4, <1>5, <1>6, <1>7 DEF Sound, g

\* Evidence the record accepts, in any order, leaves a sound record.
LEMMA RecordSound ==
    ASSUME NEW r \in Requests, NEW f, Sound(r, f),
           NEW e \in PaymentEvidence, CanRecord(f, e)
    PROVE  Sound(r, RecordPayment(r, f, e))
<1> DEFINE g(x) == [x EXCEPT !.events = @ \cup {e}]
<1>1. CASE e \in f.events
  BY <1>1 DEF RecordPayment
<1>2. CASE e \notin f.events
  <2>0. RecordPayment(r, f, e) = g(Reconcile(r, f, e))
    BY <1>2 DEF RecordPayment
  <2>1. e.op \in {"capture", "refund"} /\ e.outcome \in PaymentOutcome
    BY DEF PaymentEvidence
  <2>2. /\ e.op = "refund" => f.refund # "None"
        /\ e.outcome = "Reversed" => FundingFinalized(f)
    BY <1>2 DEF CanRecord
  <2>3. Sound(r, g(f))
    BY <2>2, AddEventSound
  <2>4. CASE e.op = "capture" /\ e.outcome = "Settled"
    <3>1. Reconcile(r, f, e) = CaptureSettled(r, f)
      BY <2>4 DEF Reconcile
    <3>2. CASE FundingFinalized(f)
      BY <2>0, <2>3, <3>1, <3>2 DEF CaptureSettled
    <3> QED
      BY <2>0, <2>4, <3>1, <3>2, CaptureSettledSound
  <2>5. CASE e.op = "capture" /\ e.outcome \in {"Voided", "Failed"}
    <3>1. Reconcile(r, f, e) = CaptureVoided(f)
      BY <2>5 DEF Reconcile
    <3>2. CASE FundingFinalized(f)
      BY <2>0, <2>3, <3>1, <3>2 DEF CaptureVoided
    <3> QED
      BY <2>0, <2>5, <3>1, <3>2, CaptureVoidedSound
  <2>6. CASE e.op = "capture" /\ e.outcome = "Reversed"
    <3>1. Reconcile(r, f, e) = CaptureReversed(r, f)
      BY <2>6 DEF Reconcile
    <3>2. CASE f.capture = "Reversed"
      BY <2>0, <2>3, <3>1, <3>2 DEF CaptureReversed
    <3>3. CASE f.capture = "FundingFinalized"
      BY <2>0, <2>6, <3>1, <3>3, CaptureReversedSound
    <3> QED
      BY <2>2, <2>6, <3>2, <3>3 DEF FundingFinalized
  <2>7. CASE e.op = "refund" /\ e.outcome = "Settled"
    <3>1. Reconcile(r, f, e) = RefundSettled(f)
      BY <2>7 DEF Reconcile
    <3>2. CASE f.refund # "Pending"
      BY <2>0, <2>3, <3>1, <3>2 DEF RefundSettled
    <3> QED
      BY <2>0, <2>7, <3>1, <3>2, RefundSettledSound
  <2>8. CASE \/ e.outcome = "Pending"
             \/ e.op = "refund" /\ e.outcome # "Settled"
    <3>1. Reconcile(r, f, e) = f
      BY <2>8 DEF Reconcile
    <3> QED
      BY <2>0, <2>3, <3>1
  <2> QED
    BY <2>1, <2>4, <2>5, <2>6, <2>7, <2>8 DEF PaymentOutcome
<1> QED
  BY <1>1, <1>2

-----------------------------------------------------------------------------
(***************************************************************************)
(* RequestPayments, the specification the dispatch implements: any number  *)
(* of requests under a processor that may report anything it can sign.     *)
(***************************************************************************)

\* The operators of the money that Payments instantiates are the ones the
\* queue's model itself uses: neither depends on a variable.
LEMMA SameMoney ==
    /\ Payments!RequestSettlement = RequestSettlement
    /\ Payments!PaymentEvidence = PaymentEvidence
    /\ Payments!NewFinancials = NewFinancials
    /\ \A f, s : Payments!CanSettle(f, s) <=> CanSettle(f, s)
    /\ \A f, e : Payments!CanRecord(f, e) <=> CanRecord(f, e)
    /\ \A r, f, s : Payments!Settle(r, f, s) = Settle(r, f, s)
    /\ \A r, f, e : Payments!RecordPayment(r, f, e) = RecordPayment(r, f, e)
    /\ Payments!Financials = Financials
<1>1. Payments!RequestSettlement = RequestSettlement
  BY DEF Payments!RequestSettlement, RequestSettlement
<1>2. Payments!PaymentEvidence = PaymentEvidence
  BY DEF Payments!PaymentEvidence, PaymentEvidence, Payments!PaymentOutcome, PaymentOutcome
<1>3. Payments!NewFinancials = NewFinancials
  BY DEF Payments!NewFinancials, NewFinancials, Payments!Account, Account
<1>4. ASSUME NEW f PROVE Payments!FundingFinalized(f) <=> FundingFinalized(f)
  BY DEF Payments!FundingFinalized, FundingFinalized
<1>5. ASSUME NEW r PROVE Payments!CaptureAmount(r) = CaptureAmount(r)
  BY DEF Payments!CaptureAmount, CaptureAmount
<1>6. ASSUME NEW books, NEW from, NEW to, NEW amount
      PROVE  Payments!Transfer(books, from, to, amount) = Transfer(books, from, to, amount)
  BY DEF Payments!Transfer, Transfer
<1>7. ASSUME NEW f, NEW amount PROVE Payments!CreateRefund(f, amount) = CreateRefund(f, amount)
  BY <1>6 DEF Payments!CreateRefund, CreateRefund
<1>8. ASSUME NEW f, NEW s PROVE Payments!CanSettle(f, s) <=> CanSettle(f, s)
  BY <1>4 DEF Payments!CanSettle, CanSettle
<1>9. ASSUME NEW f, NEW e PROVE Payments!CanRecord(f, e) <=> CanRecord(f, e)
  BY <1>4 DEF Payments!CanRecord, CanRecord
<1>10. ASSUME NEW r, NEW f, NEW s PROVE Payments!Settle(r, f, s) = Settle(r, f, s)
  <2>1. Payments!SettleInFull(r, f, s) = SettleInFull(r, f, s)
    BY <1>5, <1>7 DEF Payments!SettleInFull, SettleInFull
  <2>2. Payments!SettleExpired(r, f) = SettleExpired(r, f)
    BY <1>6, <1>7 DEF Payments!SettleExpired, SettleExpired
  <2>3. Payments!SettleRejected(r, f) = SettleRejected(r, f)
    BY <1>6 DEF Payments!SettleRejected, SettleRejected
  <2>4. Payments!SettleUnfunded(f) = SettleUnfunded(f)
    BY DEF Payments!SettleUnfunded, SettleUnfunded
  <2> QED
    BY <1>4, <2>1, <2>2, <2>3, <2>4 DEF Payments!Settle, Settle
<1>11. ASSUME NEW r, NEW f, NEW e PROVE Payments!RecordPayment(r, f, e) = RecordPayment(r, f, e)
  <2>1. Payments!CaptureSettled(r, f) = CaptureSettled(r, f)
    BY <1>4, <1>5, <1>6, <1>7 DEF Payments!CaptureSettled, CaptureSettled
  <2>2. Payments!CaptureVoided(f) = CaptureVoided(f)
    BY <1>4 DEF Payments!CaptureVoided, CaptureVoided
  <2>3. Payments!CaptureReversed(r, f) = CaptureReversed(r, f)
    BY <1>5, <1>6 DEF Payments!CaptureReversed, CaptureReversed
  <2>4. Payments!RefundSettled(f) = RefundSettled(f)
    BY <1>6 DEF Payments!RefundSettled, RefundSettled
  <2>5. Payments!Reconcile(r, f, e) = Reconcile(r, f, e)
    BY <2>1, <2>2, <2>3, <2>4 DEF Payments!Reconcile, Reconcile
  <2> QED
    BY <2>5 DEF Payments!RecordPayment, RecordPayment
<1>12. Payments!Financials = Financials
  BY <1>1, <1>2 DEF Payments!Financials, Financials, Payments!CaptureStatus, CaptureStatus,
     Payments!RefundStatus, RefundStatus, Payments!Account, Account
<1> QED
  BY <1>1, <1>2, <1>3, <1>8, <1>9, <1>10, <1>11, <1>12

\* Every record is sound.  The conjuncts of Sound are not inductive alone:
\* that the books balance needs the stored-record validation (no outcome but a
\* cancellation before the funding is final), and that a late void cannot
\* replace an outcome needs it too.
AllSound ==
    /\ opened \subseteq Requests
    /\ fin \in [Requests -> Financials]
    /\ \A r \in Requests : Sound(r, fin[r])

\* The first state and every settlement and evidence step keep every record sound.
THEOREM RecordsStaySound == Payments!Spec => []AllSound
<1>1. Payments!Init => AllSound
  <2> SUFFICES ASSUME Payments!Init PROVE AllSound
    OBVIOUS
  <2>1. \A r \in Requests : Sound(r, NewFinancials)
    BY NewIsSound
  <2>2. \A r \in Requests : NewFinancials \in Financials
    BY <2>1 DEF Sound
  <2> QED
    BY SameMoney, <2>1, <2>2 DEF Payments!Init, AllSound
<1>2. AllSound /\ [Payments!Next]_Payments!vars => AllSound'
  <2> SUFFICES ASSUME AllSound, [Payments!Next]_Payments!vars PROVE AllSound'
    OBVIOUS
  <2>1. ASSUME NEW r \in Requests, Payments!Open(r) PROVE AllSound'
    BY <2>1 DEF AllSound, Payments!Open
  <2>2. ASSUME NEW S \in SUBSET Requests, NEW ending \in [S -> RequestSettlement],
               Payments!SettleRequests(ending)
        PROVE  AllSound'
    <3>1. ASSUME NEW r \in S PROVE Sound(r, Settle(r, fin[r], ending[r]))
      BY SameMoney, <2>2, <3>1, SettleSound DEF AllSound, Payments!SettleRequests
    <3>2. fin' = [r \in Requests |-> IF r \in S THEN Settle(r, fin[r], ending[r]) ELSE fin[r]]
      BY SameMoney, <2>2 DEF Payments!SettleRequests
    <3>3. \A r \in S : Settle(r, fin[r], ending[r]) \in Financials
      BY <3>1 DEF Sound
    <3>4. opened' = opened
      BY <2>2 DEF Payments!SettleRequests
    <3> QED
      BY <3>1, <3>2, <3>3, <3>4 DEF AllSound
  <2>3. ASSUME NEW r \in Requests, NEW e \in PaymentEvidence, Payments!RecordEvidence(r, e)
        PROVE  AllSound'
    <3>1. Sound(r, RecordPayment(r, fin[r], e))
      BY SameMoney, <2>3, RecordSound DEF AllSound, Payments!RecordEvidence
    <3>2. fin' = [fin EXCEPT ![r] = RecordPayment(r, fin[r], e)]
      BY SameMoney, <2>3 DEF Payments!RecordEvidence
    <3>3. RecordPayment(r, fin[r], e) \in Financials
      BY <3>1 DEF Sound
    <3> QED
      BY <2>3, <3>1, <3>2, <3>3 DEF AllSound, Payments!RecordEvidence
  <2>4. CASE UNCHANGED Payments!vars
    BY <2>4 DEF AllSound, Payments!vars
  <2> QED
    BY SameMoney, <2>1, <2>2, <2>3, <2>4 DEF Payments!Next
<1> QED
  BY <1>1, <1>2, PTL DEF Payments!Spec

\* Type correctness of RequestPayments.
THEOREM TypeCorrect == Payments!Spec => []Payments!TypeOK
<1>1. AllSound => Payments!TypeOK
  BY SameMoney DEF AllSound, Payments!TypeOK
<1> QED
  BY <1>1, RecordsStaySound, PTL

\* Every stored record can be read back (TryFrom<StoredRequestFinancials>).
THEOREM StoredRecordsLoad == Payments!Spec => []StoredRecordLoads
<1>1. AllSound => StoredRecordLoads
  BY SameMoney DEF AllSound, StoredRecordLoads, Sound
<1> QED
  BY <1>1, RecordsStaySound, PTL

\* A settled, funded request owes exactly what its outcome promises.
THEOREM RefundFollowsOutcome == Payments!Spec => []OutcomeSetsRefund
<1>1. AllSound => OutcomeSetsRefund
  BY SameMoney DEF AllSound, OutcomeSetsRefund, Sound
<1> QED
  BY <1>1, RecordsStaySound, PTL

\* The six accounts are a function of the statuses.
THEOREM BooksFollowStatus == Payments!Spec => []BooksMatchStatus
<1>1. AllSound => BooksMatchStatus
  BY SameMoney DEF AllSound, BooksMatchStatus, Sound
<1> QED
  BY <1>1, RecordsStaySound, PTL

\* The ledger's overdraft refusal is never met.
THEOREM LedgerNeverRefuses == Payments!Spec => []NoOverdraft
<1>1. AllSound => NoOverdraft
  <2> SUFFICES ASSUME AllSound, NEW r \in Requests
               PROVE  \A a \in {"RequestEscrow", "RefundPayable", "ProcessingRevenue"} :
                         fin[r].books[a] >= 0
    BY DEF NoOverdraft
  <2>1. Sound(r, fin[r])
    BY DEF AllSound
  <2>2. /\ ProcessingCharge[r] \in Nat /\ Collateral[r] \in Nat
        /\ fin[r].refundAmount \in Nat
    BY <2>1, SoundTypes
  <2>3. BooksMatch(r, fin[r])
    BY <2>1 DEF Sound
  <2> QED
    BY <2>2, <2>3 DEF BooksMatch
<1> QED
  BY <1>1, RecordsStaySound, PTL

\* Collateral reaches the pool only by rejection, and a reversal holds it.
THEOREM ReversalHoldsForfeit == Payments!Spec => []ReversedForfeitHeld
<1>1. AllSound => ReversedForfeitHeld
  BY SameMoney DEF AllSound, ReversedForfeitHeld, Sound
<1> QED
  BY <1>1, RecordsStaySound, PTL

\* A settlement never replaces an outcome, a promised amount or a confirmation.
LEMMA SettleKeepsOutcome ==
    ASSUME NEW r \in Requests, NEW f, Sound(r, f), NEW s \in RequestSettlement, CanSettle(f, s)
    PROVE  LET g == Settle(r, f, s)
           IN  /\ f.settlement # "None" => g.settlement = f.settlement
               /\ f.refund # "None" => g.refundAmount = f.refundAmount
               /\ f.refund = "Confirmed" => g.refund = "Confirmed"
<1>1. CASE f.settlement = s
  BY <1>1 DEF Settle
<1>2. CASE f.settlement # s
  <2>1. f.settlement = "None"
    BY <1>2 DEF CanSettle
  <2> QED
    BY <2>1, UnsettledRecord
<1> QED
  BY <1>1, <1>2

\* Neither does any evidence, a void of an unsettled capture included.
LEMMA RecordKeepsOutcome ==
    ASSUME NEW r \in Requests, NEW f, Sound(r, f), NEW e \in PaymentEvidence, CanRecord(f, e)
    PROVE  LET g == RecordPayment(r, f, e)
           IN  /\ f.settlement # "None" => g.settlement = f.settlement
               /\ f.refund # "None" => g.refundAmount = f.refundAmount
               /\ f.refund = "Confirmed" => g.refund = "Confirmed"
<1> DEFINE Kept(g) == /\ f.settlement # "None" => g.settlement = f.settlement
                      /\ f.refund # "None" => g.refundAmount = f.refundAmount
                      /\ f.refund = "Confirmed" => g.refund = "Confirmed"
<1>0. f \in Financials
  BY DEF Sound
<1>1. Kept(CaptureSettled(r, f))
  BY <1>0 DEF CaptureSettled, CreateRefund, Financials
<1>2. Kept(CaptureVoided(f))
  <2>1. CASE FundingFinalized(f)
    BY <2>1 DEF CaptureVoided
  <2>2. CASE ~FundingFinalized(f)
    <3>1. f.settlement \in {"None", "Cancelled"} /\ f.refund = "None"
      BY <2>2, UnfundedRecord
    <3> QED
      BY <1>0, <2>2, <3>1 DEF CaptureVoided, Financials
  <2> QED
    BY <2>1, <2>2
<1>3. Kept(CaptureReversed(r, f))
  BY <1>0 DEF CaptureReversed, Financials
<1>4. Kept(RefundSettled(f))
  BY <1>0 DEF RefundSettled, Financials
<1>5. Kept(Reconcile(r, f, e))
  BY <1>1, <1>2, <1>3, <1>4 DEF Reconcile
<1>6. Kept(RecordPayment(r, f, e))
  BY <1>5 DEF RecordPayment
<1> QED
  BY <1>6

\* The outcome of a request, its refund and its confirmation are final.
THEOREM OutcomeIsFinal == Payments!Spec => SettlementIsFinal
<1> DEFINE Kept == \A r \in Requests :
             /\ fin[r].settlement # "None" => fin'[r].settlement = fin[r].settlement
             /\ fin[r].refund # "None" => fin'[r].refundAmount = fin[r].refundAmount
             /\ fin[r].refund = "Confirmed" => fin'[r].refund = "Confirmed"
<1>1. AllSound /\ [Payments!Next]_Payments!vars => [Kept]_<<opened, fin>>
  <2> SUFFICES ASSUME AllSound, Payments!Next PROVE Kept
    BY DEF Payments!vars
  <2>1. ASSUME NEW r \in Requests, Payments!Open(r) PROVE Kept
    BY <2>1 DEF Payments!Open
  <2>2. ASSUME NEW S \in SUBSET Requests, NEW ending \in [S -> RequestSettlement],
               Payments!SettleRequests(ending)
        PROVE  Kept
    <3>1. fin' = [r \in Requests |-> IF r \in S THEN Settle(r, fin[r], ending[r]) ELSE fin[r]]
      BY SameMoney, <2>2 DEF Payments!SettleRequests
    <3>2. \A r \in S : Sound(r, fin[r]) /\ CanSettle(fin[r], ending[r])
      BY SameMoney, <2>2 DEF Payments!SettleRequests, AllSound
    <3> QED
      BY <3>1, <3>2, SettleKeepsOutcome
  <2>3. ASSUME NEW r \in Requests, NEW e \in PaymentEvidence, Payments!RecordEvidence(r, e)
        PROVE  Kept
    <3>1. fin' = [fin EXCEPT ![r] = RecordPayment(r, fin[r], e)]
      BY SameMoney, <2>3 DEF Payments!RecordEvidence
    <3>2. Sound(r, fin[r]) /\ CanRecord(fin[r], e)
      BY SameMoney, <2>3 DEF Payments!RecordEvidence, AllSound
    <3> QED
      BY <3>1, <3>2, RecordKeepsOutcome DEF AllSound
  <2> QED
    BY SameMoney, <2>1, <2>2, <2>3 DEF Payments!Next
<1> QED
  BY <1>1, RecordsStaySound, PTL DEF Payments!Spec, SettlementIsFinal

-----------------------------------------------------------------------------
(***************************************************************************)
(* The inductive invariant.  Its parts speak of one request, one worker or *)
(* one work item, and of the rest through their arguments.                 *)
(***************************************************************************)

TypeOK ==
    /\ opened \subseteq Requests
    /\ fin \in [Requests -> Financials]
    /\ source \in Source
    /\ refused \subseteq Requests \X PaymentEvidence
    /\ item \in [Items -> WorkItem]
    /\ worker \in [Workers -> Worker]
    /\ proc \in [Operations -> PaymentEvidence \cup {NoReceipt}]
    /\ reversed \subseteq Requests
    /\ faults \in Nat

\* Nothing of this kind is to be asked of the processor.
NothingDue(f, kind) ==
    IF kind = "refund" THEN f.refund # "Pending"
    ELSE f.capture \notin {"Pending", "CancellationRequested"}

\* What the processor may have on record of an operation.
ProcessorRecord(o, p) ==
    \/ p = NoReceipt
    \/ \E x \in {"Settled", "Pending", "Failed"} : p = Evidence(o, "submission", x)
    \/ o[2] = "capture" /\ p = Evidence(o, "cancellation", "Voided")
    \/ \E x \in {"Settled", "Failed", "Voided"} :
          (x = "Voided" => o[2] = "capture") /\ p = Evidence(o, "resolution", x)

\* The evidence it may have answered with when this is its record.
Issued(o, p) ==
    IF p = NoReceipt THEN {}
    ELSE {p} \cup (IF p.id = <<o[2], "submission">> THEN {}
                   ELSE {Evidence(o, "submission", "Pending")})

ReversalOf(r) == Evidence(<<r, "capture">>, "reversal", "Reversed")

\* The record of a request against the processor's records c and d of its
\* capture and refund.
RecordMatches(r, f, c, d, back) ==
    /\ FundingFinalized(f) => c.outcome = "Settled"
    /\ f.capture = "Reversed" => r \in back
    /\ f.capture = "Voided" => c.outcome \in {"Voided", "Failed"}
    /\ f.refund = "Confirmed" <=> \E e \in f.events : e.op = "refund" /\ e.outcome = "Settled"
    /\ f.refund = "Confirmed" => d.outcome = "Settled"
    /\ d.outcome # "unknown" => f.refund # "None"

\* Its events were issued, and those that decide a capture were applied.
EventsMatch(r, f, c, d, back) ==
    \A e \in f.events :
        /\ \/ e = ReversalOf(r) /\ r \in back
           \/ e \in Issued(<<r, "capture">>, c)
           \/ e \in Issued(<<r, "refund">>, d)
        /\ e.op = "capture" /\ e.outcome \in {"Settled", "Voided", "Failed"} =>
              NothingDue(f, "capture")

\* The payer's source against the record and the processor.
AttemptMatches(f, a, c) ==
    /\ a \in CASE f.capture \in {"Pending", "CancellationRequested"} -> {"Pending"}
               [] f.capture = "FundingFinalized" -> {"Settled"}
               [] f.capture = "Voided" -> {"Voided", "Failed"}
               [] f.capture = "Reversed" -> {"Reversed"}
    /\ a \in {"Voided", "Failed"} => c.outcome = a

\* What a worker may rely on between its steps.
WorkerFits(v, known, F, granted, P) ==
    v.step # "idle" =>
        /\ v.item \in Items /\ v.item[1] \in known
        /\ v.item[2] = "refund" => F[v.item[1]].refund # "None"
        /\ v.step = "cancel" => v.item[2] # "refund"
        /\ v.step \in {"lookup", "submit"} /\ v.item[2] # "refund" => v.item[1] \in granted
        /\ v.step = "confirm" =>
              /\ v.receipt \in Issued(OperationOf(v.item), P[OperationOf(v.item)])
              /\ v.item[2] # "refund" /\ v.receipt.outcome # "Voided" => v.item[1] \in granted
        /\ v.step = "finish" =>
              /\ v.result \in {"complete", "ready", "blocked"}
              /\ v.result = "complete" => NothingDue(F[v.item[1]], v.item[2])

\* A work item exists when its operation may be due, and is complete only
\* when nothing is.
ItemFits(i, status, known, F) ==
    /\ status # "none" => i[1] \in known /\ (i[2] = "refund" => F[i[1]].refund # "None")
    /\ i[2] = "capture" /\ i[1] \in known => status # "none"
    /\ i[2] = "refund" /\ F[i[1]].refund # "None" => status # "none"
    /\ status = "complete" => NothingDue(F[i[1]], i[2])

MoneySound ==
    \A r \in Requests : Sound(r, fin[r]) /\ (r \notin opened => fin[r] = NewFinancials)
ProcessorSound == \A o \in Operations : ProcessorRecord(o, proc[o])
RecordsMatch ==
    \A r \in Requests :
        /\ RecordMatches(r, fin[r], proc[<<r, "capture">>], proc[<<r, "refund">>], reversed)
        /\ EventsMatch(r, fin[r], proc[<<r, "capture">>], proc[<<r, "refund">>], reversed)
AttemptsMatch ==
    \A r \in opened : AttemptMatches(fin[r], source.attempts[r], proc[<<r, "capture">>])
OnlyReversalsRefused == \A x \in refused : x[2].outcome = "Reversed"
WorkersFit == \A w \in Workers : WorkerFits(worker[w], opened, fin, source.dispatched, proc)
ItemsFit == \A i \in Items : ItemFits(i, item[i].status, opened, fin)

IInv ==
    /\ TypeOK /\ MoneySound /\ ProcessorSound /\ RecordsMatch /\ AttemptsMatch
    /\ ChargesAreGranted /\ OnlyReversalsRefused /\ WorkersFit /\ ItemsFit

-----------------------------------------------------------------------------
(***************************************************************************)
(* The processor's evidence.                                               *)
(***************************************************************************)

\* Items name operations; their parts.
LEMMA ItemParts ==
    ASSUME NEW i \in Items
    PROVE  /\ i[1] \in Requests /\ i[2] \in {"capture", "cancel", "refund"}
           /\ OperationOf(i) \in Operations /\ OperationOf(i)[1] = i[1]
           /\ OperationOf(i)[2] = IF i[2] = "refund" THEN "refund" ELSE "capture"
           /\ i[2] = "refund" => OperationOf(i) = <<i[1], "refund">>
           /\ i[2] # "refund" => OperationOf(i) = <<i[1], "capture">>
BY DEF Items, OperationOf, Operations

\* A piece of evidence as the processor forms it.
LEMMA EvidenceParts ==
    ASSUME NEW o \in Operations, NEW cause \in Causes, NEW x \in PaymentOutcome
    PROVE  LET e == Evidence(o, cause, x)
           IN  /\ e \in PaymentEvidence /\ e.op = o[2] /\ e.outcome = x
               /\ e.id = <<o[2], cause>>
<1> DEFINE e == Evidence(o, cause, x)
<1>1. o[2] \in {"capture", "refund"}
  BY DEF Operations
<1>2. e.op = o[2] /\ e.outcome = x /\ e.id = <<o[2], cause>>
  BY DEF Evidence
<1>3. <<o[2], cause>> \in EventIds
  BY <1>1, DispatchAssumption
<1>4. e \in PaymentEvidence
  BY <1>1, <1>3 DEF Evidence, PaymentEvidence
<1> QED
  BY <1>2, <1>4

\* NoReceipt is no evidence.
LEMMA NoReceiptApart ==
    NoReceipt.outcome = "unknown" /\ NoReceipt \notin PaymentEvidence
<1>1. \A e \in PaymentEvidence : e.outcome # "unknown"
  BY DEF PaymentEvidence, PaymentOutcome
<1> QED
  BY <1>1 DEF NoReceipt

\* What the processor has on record says what it is, and a pending operation
\* was submitted.
LEMMA RecordParts ==
    ASSUME NEW o \in Operations, NEW p, ProcessorRecord(o, p)
    PROVE  /\ p \in PaymentEvidence \cup {NoReceipt}
           /\ p.outcome = "unknown" <=> p = NoReceipt
           /\ p # NoReceipt =>
                 /\ p \in PaymentEvidence /\ p.op = o[2]
                 /\ p.outcome \in {"Settled", "Pending", "Failed", "Voided"}
                 /\ p.id \in {<<o[2], "submission">>, <<o[2], "cancellation">>,
                              <<o[2], "resolution">>}
           /\ p.outcome = "Pending" => p = Evidence(o, "submission", "Pending")
           /\ p.outcome = "Voided" => o[2] = "capture"
<1> USE DEF Causes, PaymentOutcome
<1>1. CASE p = NoReceipt
  BY <1>1, NoReceiptApart
<1>2. ASSUME NEW x \in {"Settled", "Pending", "Failed"}, p = Evidence(o, "submission", x)
      PROVE  /\ p \in PaymentEvidence /\ p.op = o[2] /\ p.outcome = x
             /\ p.id = <<o[2], "submission">>
  BY <1>2, EvidenceParts
<1>3. ASSUME p = Evidence(o, "cancellation", "Voided")
      PROVE  /\ p \in PaymentEvidence /\ p.op = o[2] /\ p.outcome = "Voided"
             /\ p.id = <<o[2], "cancellation">>
  BY <1>3, EvidenceParts
<1>4. ASSUME NEW x \in {"Settled", "Failed", "Voided"}, p = Evidence(o, "resolution", x)
      PROVE  /\ p \in PaymentEvidence /\ p.op = o[2] /\ p.outcome = x
             /\ p.id = <<o[2], "resolution">>
  BY <1>4, EvidenceParts
<1> QED
  BY <1>1, <1>2, <1>3, <1>4, NoReceiptApart DEF ProcessorRecord

\* Evidence the processor issued: of this operation, never a reversal, and
\* decisive only when it is the present record.
LEMMA IssuedParts ==
    ASSUME NEW o \in Operations, NEW p, ProcessorRecord(o, p), NEW e \in Issued(o, p)
    PROVE  /\ p # NoReceipt
           /\ e \in PaymentEvidence /\ e.op = o[2]
           /\ e.outcome \in {"Settled", "Pending", "Failed", "Voided"}
           /\ e = p \/ e.outcome = "Pending"
           /\ e.outcome = "Voided" => o[2] = "capture"
           /\ e.id \in {<<o[2], "submission">>, <<o[2], "cancellation">>, <<o[2], "resolution">>}
<1>1. LET d == Evidence(o, "submission", "Pending")
      IN  /\ d \in PaymentEvidence /\ d.op = o[2] /\ d.outcome = "Pending"
          /\ d.id = <<o[2], "submission">>
  BY EvidenceParts DEF Causes, PaymentOutcome
<1>2. p # NoReceipt /\ (e = p \/ e = Evidence(o, "submission", "Pending"))
  BY DEF Issued
<1> QED
  BY <1>1, <1>2, RecordParts

\* An identity names one piece of evidence.
LEMMA IssuedOnce ==
    ASSUME NEW o \in Operations, NEW p, ProcessorRecord(o, p),
           NEW d \in Issued(o, p), NEW e \in Issued(o, p), d.id = e.id
    PROVE  d = e
<1>1. Evidence(o, "submission", "Pending").id = <<o[2], "submission">>
  BY EvidenceParts DEF Causes, PaymentOutcome
<1> QED
  BY <1>1 DEF Issued

\* A record replaces nothing or a pending submission, which stays issued.
LEMMA IssuedGrows ==
    ASSUME NEW o \in Operations, NEW p, ProcessorRecord(o, p), NEW q, ProcessorRecord(o, q),
           \/ p = q
           \/ p = NoReceipt
           \/ p.outcome = "Pending" /\ q # NoReceipt /\ q.id # <<o[2], "submission">>
    PROVE  Issued(o, p) \subseteq Issued(o, q)
<1>1. ASSUME p.outcome = "Pending", q # NoReceipt, q.id # <<o[2], "submission">>
      PROVE  Issued(o, p) \subseteq Issued(o, q)
  <2>1. p = Evidence(o, "submission", "Pending")
    BY <1>1, RecordParts
  <2> QED
    BY <1>1, <2>1 DEF Issued
<1>2. p = NoReceipt => Issued(o, p) = {}
  BY DEF Issued
<1> QED
  BY <1>1, <1>2

-----------------------------------------------------------------------------
(***************************************************************************)
(* What a transition leaves of the parts.                                  *)
(***************************************************************************)

\* A record moves forward only: what is not due does not become due, except
\* that a refund is created once.
Forward(F, G) ==
    \A r \in Requests :
        /\ F[r].refund # "None" => G[r].refund # "None"
        /\ F[r].refund = "Confirmed" => G[r].refund = "Confirmed"
        /\ NothingDue(F[r], "capture") => NothingDue(G[r], "capture")

\* What a worker relies on survives whatever others do in between.
LEMMA WorkerStillFits ==
    ASSUME NEW v, NEW known, NEW known2, NEW F, NEW G, NEW granted, NEW granted2, NEW P, NEW Q,
           WorkerFits(v, known, F, granted, P),
           known \subseteq known2, granted \subseteq granted2, Forward(F, G),
           \A r \in Requests : F[r].refund \in RefundStatus,
           \A o \in Operations : Issued(o, P[o]) \subseteq Issued(o, Q[o])
    PROVE  WorkerFits(v, known2, G, granted2, Q)
<1> SUFFICES ASSUME v.step # "idle" PROVE WorkerFits(v, known2, G, granted2, Q)
  BY DEF WorkerFits
<1>1. v.item \in Items /\ v.item[1] \in known2
  BY DEF WorkerFits
<1>2. v.item[1] \in Requests /\ v.item[2] \in {"capture", "cancel", "refund"}
      /\ OperationOf(v.item) \in Operations
  BY <1>1, ItemParts
<1>3. v.item[2] = "refund" => F[v.item[1]].refund # "None" /\ G[v.item[1]].refund # "None"
  BY <1>2 DEF WorkerFits, Forward
<1>4. v.step = "finish" /\ v.result = "complete" => NothingDue(G[v.item[1]], v.item[2])
  <2> SUFFICES ASSUME NothingDue(F[v.item[1]], v.item[2])
               PROVE  NothingDue(G[v.item[1]], v.item[2])
    BY DEF WorkerFits
  <2>1. CASE v.item[2] = "refund"
    BY <1>2, <1>3, <2>1 DEF NothingDue, Forward, RefundStatus
  <2>2. CASE v.item[2] # "refund"
    BY <1>2, <2>2 DEF NothingDue, Forward
  <2> QED
    BY <2>1, <2>2
<1>5. v.step = "confirm" => v.receipt \in Issued(OperationOf(v.item), Q[OperationOf(v.item)])
  BY <1>2 DEF WorkerFits
<1> QED
  BY <1>1, <1>3, <1>4, <1>5 DEF WorkerFits

\* Without a change of the records, nothing moves.
LEMMA ForwardSame == ASSUME NEW F PROVE Forward(F, F)
BY DEF Forward

-----------------------------------------------------------------------------
(***************************************************************************)
(* What a settlement and a piece of evidence make of a record.             *)
(***************************************************************************)

\* A settlement cancels an unfunded capture and may create the refund.
LEMMA SettledRecord ==
    ASSUME NEW r \in Requests, NEW f, Sound(r, f), f.settlement = "None",
           NEW s \in RequestSettlement, CanSettle(f, s)
    PROVE  LET g == Settle(r, f, s)
           IN  /\ g.events = f.events
               /\ \/ g.capture = f.capture
                  \/ /\ ~FundingFinalized(f) /\ f.capture # "Voided"
                     /\ g.capture = "CancellationRequested"
               /\ f.refund = "None" /\ g.refund \in {"None", "Pending"}
<1> DEFINE g == Settle(r, f, s)
<1>1. f \in Financials /\ f.refund = "None"
  BY UnsettledRecord DEF Sound
<1>2. ASSUME NEW h \in Financials, NEW n, h.refund = "None"
      PROVE  LET k == CreateRefund(h, n)
             IN  k.events = h.events /\ k.capture = h.capture /\ k.refund \in {"None", "Pending"}
  BY <1>2 DEF CreateRefund, Financials
<1>3. CASE s = "Rejected"
  <2>1. g = SettleRejected(r, f)
    BY <1>3 DEF Settle
  <2>2. /\ SettleRejected(r, f).events = f.events
        /\ SettleRejected(r, f).capture = f.capture
        /\ SettleRejected(r, f).refund = f.refund
    BY <1>1 DEF SettleRejected, Financials
  <2> QED
    BY <1>1, <2>1, <2>2
<1>4. CASE s = "Expired"
  <2> DEFINE h == [f EXCEPT !.settlement = "Expired",
                            !.books = Transfer(f.books, "RequestEscrow", "ProcessingRevenue",
                                               ProcessingCharge[r])]
  <2>1. g = CreateRefund(h, Collateral[r])
    BY <1>4 DEF Settle, SettleExpired
  <2>2. h.events = f.events /\ h.capture = f.capture /\ h.refund = f.refund
    BY <1>1 DEF Financials
  <2> HIDE DEF h
  <2>3. /\ CreateRefund(h, Collateral[r]).events = h.events
        /\ CreateRefund(h, Collateral[r]).capture = h.capture
        /\ CreateRefund(h, Collateral[r]).refund \in {"None", "Pending"}
    BY <1>1, <2>2 DEF CreateRefund
  <2> QED
    BY <1>1, <2>1, <2>2, <2>3
<1>5. CASE s \in {"Accepted", "Cancelled"} /\ FundingFinalized(f)
  <2> DEFINE h == [f EXCEPT !.settlement = s]
  <2>1. g = CreateRefund(h, CaptureAmount(r))
    BY <1>5 DEF Settle, SettleInFull
  <2>2. h \in Financials /\ h.events = f.events /\ h.capture = f.capture /\ h.refund = "None"
    BY <1>1 DEF Financials
  <2> HIDE DEF h
  <2> QED
    BY <1>1, <1>2, <2>1, <2>2
<1>6. CASE s = "Cancelled" /\ ~FundingFinalized(f)
  <2>1. g = SettleUnfunded(f)
    BY <1>6 DEF Settle
  <2>2. g.events = f.events /\ g.refund = f.refund
        /\ g.capture = IF f.capture = "Voided" THEN f.capture ELSE "CancellationRequested"
    BY <1>1, <2>1 DEF SettleUnfunded, Financials
  <2> QED
    BY <1>1, <1>6, <2>2
<1>7. s = "Accepted" => FundingFinalized(f)
  BY DEF CanSettle
<1> QED
  BY <1>3, <1>4, <1>5, <1>6, <1>7 DEF RequestSettlement

\* What evidence that is new to a record makes of the capture.
CaptureAfter(f, e) ==
    IF e.op # "capture" THEN f.capture
    ELSE IF e.outcome = "Settled" /\ ~FundingFinalized(f) THEN "FundingFinalized"
    ELSE IF e.outcome \in {"Voided", "Failed"} /\ ~FundingFinalized(f) THEN "Voided"
    ELSE IF e.outcome = "Reversed" THEN "Reversed"
    ELSE f.capture

\* The events, the capture and the refund after new evidence.
LEMMA RecordedEvidence ==
    ASSUME NEW r \in Requests, NEW f, Sound(r, f), NEW e \in PaymentEvidence, e \notin f.events
    PROVE  LET g == RecordPayment(r, f, e)
           IN  /\ g.events = f.events \cup {e}
               /\ g.capture = CaptureAfter(f, e)
               /\ e.op = "capture" => g.refund = f.refund \/ (f.refund = "None" /\ g.refund = "Pending")
               /\ e.op = "refund" =>
                     g.refund = IF e.outcome = "Settled" /\ f.refund = "Pending"
                                THEN "Confirmed" ELSE f.refund
<1> DEFINE h == Reconcile(r, f, e)
           g == RecordPayment(r, f, e)
<1>1. f \in Financials
  BY DEF Sound
<1>2. e.op \in {"capture", "refund"} /\ e.outcome \in PaymentOutcome
  BY DEF PaymentEvidence
<1>3. CASE e.op = "capture" /\ e.outcome = "Settled"
  <2>1. g = [CaptureSettled(r, f) EXCEPT !.events = @ \cup {e}]
    BY <1>3 DEF RecordPayment, Reconcile
  <2> QED
    BY <1>1, <1>3, <2>1
    DEF CaptureSettled, CreateRefund, FundingFinalized, Financials, CaptureAfter
<1>4. CASE e.op = "capture" /\ e.outcome \in {"Voided", "Failed"}
  <2>1. g = [CaptureVoided(f) EXCEPT !.events = @ \cup {e}]
    BY <1>4 DEF RecordPayment, Reconcile
  <2> QED
    BY <1>1, <1>4, <2>1 DEF CaptureVoided, FundingFinalized, Financials, CaptureAfter
<1>5. CASE e.op = "capture" /\ e.outcome = "Reversed"
  <2>1. g = [CaptureReversed(r, f) EXCEPT !.events = @ \cup {e}]
    BY <1>5 DEF RecordPayment, Reconcile
  <2> QED
    BY <1>1, <1>5, <2>1 DEF CaptureReversed, FundingFinalized, Financials, CaptureAfter
<1>6. CASE e.op = "refund" /\ e.outcome = "Settled"
  <2>1. g = [RefundSettled(f) EXCEPT !.events = @ \cup {e}]
    BY <1>6 DEF RecordPayment, Reconcile
  <2> QED
    BY <1>1, <1>6, <2>1 DEF RefundSettled, Financials, CaptureAfter
<1>7. CASE e.outcome = "Pending" \/ (e.op = "refund" /\ e.outcome # "Settled")
  <2>1. g = [f EXCEPT !.events = @ \cup {e}]
    BY <1>7 DEF RecordPayment, Reconcile
  <2>2. /\ g.events = f.events \cup {e} /\ g.capture = f.capture /\ g.refund = f.refund
    BY <1>1, <2>1 DEF Financials
  <2> QED
    BY <1>2, <1>7, <2>2 DEF CaptureAfter
<1> HIDE DEF g
<1> QED
  BY <1>2, <1>3, <1>4, <1>5, <1>6, <1>7 DEF PaymentOutcome

-----------------------------------------------------------------------------
(***************************************************************************)
(* The initial states, and frames the actions share.                       *)
(***************************************************************************)

LEMMA InitFits == Init => IInv
<1> SUFFICES ASSUME Init PROVE IInv
  OBVIOUS
<1>1. \A r \in Requests : Sound(r, NewFinancials) /\ NewFinancials \in Financials
  BY NewIsSound DEF Sound
<1>2. /\ \A r \in Requests : fin[r] = NewFinancials
      /\ \A o \in Operations : proc[o] = NoReceipt
      /\ \A w \in Workers : worker[w] = IdleWorker
      /\ \A i \in Items : item[i].status = "none"
      /\ opened = {} /\ refused = {} /\ source = VerifiedSource
  BY DEF Init
<1>3. \A r \in Requests : <<r, "capture">> \in Operations /\ <<r, "refund">> \in Operations
  BY DEF Operations
<1>4. TypeOK
  <2>1. fin \in [Requests -> Financials]
    BY <1>1 DEF Init
  <2>2. source \in Source
    BY <1>2 DEF VerifiedSource, Source
  <2>3. item \in [Items -> WorkItem]
    BY DEF Init, WorkItem
  <2>4. worker \in [Workers -> Worker]
    BY DEF Init, Worker, IdleWorker, Step, Result
  <2>5. proc \in [Operations -> PaymentEvidence \cup {NoReceipt}]
    BY DEF Init
  <2> QED
    BY <2>1, <2>2, <2>3, <2>4, <2>5 DEF TypeOK, Init
<1>5. NewFinancials.capture = "Pending" /\ NewFinancials.refund = "None"
      /\ NewFinancials.events = {}
  BY DEF NewFinancials
<1>6. RecordsMatch
  BY <1>2, <1>3, <1>5, NoReceiptApart
  DEF RecordsMatch, RecordMatches, EventsMatch, FundingFinalized
<1>7. WorkersFit
  BY <1>2 DEF WorkersFit, WorkerFits, IdleWorker
<1>8. ItemsFit
  <2> SUFFICES ASSUME NEW i \in Items PROVE ItemFits(i, "none", {}, fin)
    BY <1>2 DEF ItemsFit
  <2> QED
    BY <1>2, <1>5, ItemParts DEF ItemFits
<1>9. ChargesAreGranted
  BY <1>2, <1>3, NoReceiptApart DEF ChargesAreGranted
<1> QED
  BY <1>1, <1>2, <1>4, <1>6, <1>7, <1>8, <1>9
  DEF IInv, MoneySound, ProcessorSound, ProcessorRecord, AttemptsMatch, OnlyReversalsRefused

\* The types of the fields the argument reads.
LEMMA FieldTypes ==
    ASSUME TypeOK
    PROVE  /\ \A r \in Requests : fin[r].refund \in RefundStatus
           /\ \A r \in Requests : fin[r].capture \in CaptureStatus
           /\ \A r \in Requests : fin[r].events \subseteq PaymentEvidence
           /\ source.dispatched \subseteq Requests
           /\ source.attempts \in [Requests -> PaymentState \cup {"None"}]
           /\ source.restricted \in BOOLEAN
BY DispatchAssumption DEF TypeOK, Financials, Source

\* A step of one worker that leaves the records and the processor alone.
LEMMA WorkerKeeps ==
    ASSUME IInv, NEW w \in Workers,
           UNCHANGED <<opened, fin, refused, reversed, proc>>,
           source' \in Source, source'.attempts = source.attempts,
           source.dispatched \subseteq source'.dispatched,
           item' \in [Items -> WorkItem],
           \A i \in Items : ItemFits(i, item'[i].status, opened, fin),
           faults' \in Nat,
           worker' \in [Workers -> Worker],
           \A u \in Workers \ {w} : worker'[u] = worker[u],
           WorkerFits(worker'[w], opened, fin, source'.dispatched, proc)
    PROVE  IInv'
<1>1. TypeOK /\ MoneySound /\ ProcessorSound /\ RecordsMatch /\ AttemptsMatch
      /\ ChargesAreGranted /\ OnlyReversalsRefused /\ WorkersFit /\ ItemsFit
  BY DEF IInv
<1>2. TypeOK'
  BY <1>1 DEF TypeOK
<1>3. MoneySound' /\ ProcessorSound' /\ RecordsMatch' /\ OnlyReversalsRefused'
  BY <1>1 DEF MoneySound, ProcessorSound, RecordsMatch, OnlyReversalsRefused
<1>4. AttemptsMatch'
  BY <1>1 DEF AttemptsMatch
<1>5. ChargesAreGranted'
  BY <1>1 DEF ChargesAreGranted
<1>6. WorkersFit'
  <2>1. ASSUME NEW u \in Workers \ {w}
        PROVE  WorkerFits(worker[u], opened, fin, source'.dispatched, proc)
    <3>1. WorkerFits(worker[u], opened, fin, source.dispatched, proc)
      BY <1>1 DEF WorkersFit
    <3>2. \A o \in Operations : Issued(o, proc[o]) \subseteq Issued(o, proc[o])
      OBVIOUS
    <3>3. \A r \in Requests : fin[r].refund \in RefundStatus
      BY <1>1, FieldTypes
    <3> QED
      BY <3>1, <3>2, <3>3, ForwardSame, WorkerStillFits
  <2> QED
    BY <2>1 DEF WorkersFit
<1>7. ItemsFit'
  BY DEF ItemsFit
<1> QED
  BY <1>2, <1>3, <1>4, <1>5, <1>6, <1>7 DEF IInv

\* The same, of a worker that touches nothing else.
LEMMA WorkerAloneKeeps ==
    ASSUME IInv, NEW w \in Workers,
           UNCHANGED <<opened, fin, source, refused, item, reversed, proc>>,
           faults' \in Nat, NEW v \in Worker,
           worker' = [worker EXCEPT ![w] = v],
           WorkerFits(v, opened, fin, source.dispatched, proc)
    PROVE  IInv'
<1>1. TypeOK /\ ItemsFit
  BY DEF IInv
<1>2. /\ worker' \in [Workers -> Worker] /\ worker'[w] = v
      /\ \A u \in Workers \ {w} : worker'[u] = worker[u]
  BY <1>1 DEF TypeOK
<1>3. \A i \in Items : ItemFits(i, item'[i].status, opened, fin)
  BY <1>1 DEF ItemsFit
<1>4. item' \in [Items -> WorkItem] /\ source' \in Source
  BY <1>1 DEF TypeOK
<1> QED
  BY <1>2, <1>3, <1>4, WorkerKeeps

-----------------------------------------------------------------------------
(***************************************************************************)
(* The worker's steps.                                                     *)
(***************************************************************************)

\* The worker's record after Proceed, Conclude and Answered.
LEMMA Proceeds ==
    ASSUME TypeOK, NEW w \in Workers, NEW step \in Step, Proceed(w, step)
    PROVE  \E v \in Worker : /\ worker' = [worker EXCEPT ![w] = v]
                             /\ v.step = step /\ v.item = worker[w].item
<1> DEFINE v == [worker[w] EXCEPT !.step = step]
<1>1. worker \in [Workers -> Worker] /\ worker[w] \in Worker
  BY DEF TypeOK
<1>2. v \in Worker /\ v.step = step /\ v.item = worker[w].item
  BY <1>1 DEF Worker
<1>3. worker' = [worker EXCEPT ![w] = v]
  BY <1>1 DEF Proceed
<1> QED
  BY <1>2, <1>3

LEMMA Concludes ==
    ASSUME TypeOK, NEW w \in Workers, NEW result \in Result, Conclude(w, result)
    PROVE  \E v \in Worker : /\ worker' = [worker EXCEPT ![w] = v]
                             /\ v.step = "finish" /\ v.result = result
                             /\ v.item = worker[w].item
<1> DEFINE v == [[worker[w] EXCEPT !.step = "finish"] EXCEPT !.result = result]
<1>1. worker \in [Workers -> Worker] /\ worker[w] \in Worker
  BY DEF TypeOK
<1>2. v \in Worker /\ v.step = "finish" /\ v.result = result /\ v.item = worker[w].item
  BY <1>1 DEF Worker, Step
<1>3. worker' = [worker EXCEPT ![w] = v]
  BY <1>1 DEF Conclude
<1> QED
  BY <1>2, <1>3

LEMMA Answers ==
    ASSUME TypeOK, NEW w \in Workers, NEW e \in PaymentEvidence, Answered(w, e)
    PROVE  \E v \in Worker : /\ worker' = [worker EXCEPT ![w] = v]
                             /\ v.step = "confirm" /\ v.receipt = e
                             /\ v.item = worker[w].item
<1> DEFINE v == [[worker[w] EXCEPT !.step = "confirm"] EXCEPT !.receipt = e]
<1>1. worker \in [Workers -> Worker] /\ worker[w] \in Worker
  BY DEF TypeOK
<1>2. v \in Worker /\ v.step = "confirm" /\ v.receipt = e /\ v.item = worker[w].item
  BY <1>1 DEF Worker, Step
<1>3. worker' = [worker EXCEPT ![w] = v]
  BY <1>1 DEF Answered
<1> QED
  BY <1>2, <1>3

\* What IInv says of the worker that takes a step, and of its operation.
LEMMA WorkerKnows ==
    ASSUME IInv, NEW w \in Workers, worker[w].step # "idle"
    PROVE  LET i == worker[w].item
               o == OperationOf(i)
           IN  /\ i \in Items /\ i[1] \in Requests /\ i[1] \in opened
               /\ o \in Operations /\ o[1] = i[1]
               /\ o[2] = IF i[2] = "refund" THEN "refund" ELSE "capture"
               /\ o = <<i[1], o[2]>>
               /\ i[2] \in {"capture", "cancel", "refund"}
               /\ ProcessorRecord(o, proc[o])
               /\ WorkerFits(worker[w], opened, fin, source.dispatched, proc)
               /\ o[2] = "refund" => fin[i[1]].refund # "None"
<1>1. WorkerFits(worker[w], opened, fin, source.dispatched, proc)
  BY DEF IInv, WorkersFit
<1>2. worker[w].item \in Items /\ worker[w].item[1] \in opened
      /\ (worker[w].item[2] = "refund" => fin[worker[w].item[1]].refund # "None")
  BY <1>1 DEF WorkerFits
<1>3. ProcessorRecord(OperationOf(worker[w].item), proc[OperationOf(worker[w].item)])
  BY <1>2, ItemParts DEF IInv, ProcessorSound
<1> QED
  BY <1>1, <1>2, <1>3, ItemParts

LEMMA ClaimKeeps == ASSUME IInv, NEW w \in Workers, NEW i \in Items, Claim(w, i) PROVE IInv'
<1> DEFINE v == [IdleWorker EXCEPT !.step = "authorize", !.item = i]
           s == [status |-> "running", holder |-> w]
<1>1. TypeOK /\ ItemsFit
  BY DEF IInv
<1>2. v \in Worker /\ v.step = "authorize" /\ v.item = i
  BY DEF IdleWorker, Worker, Step, Result
<1>3. s \in WorkItem /\ s.status = "running"
  BY DEF WorkItem
<1>4. item' = [item EXCEPT ![i] = s] /\ worker' = [worker EXCEPT ![w] = v]
  BY DEF Claim
<1>5. item[i].status \in {"ready", "running"}
  BY DEF Claim
<1> HIDE DEF v, s
<1>6. /\ worker' \in [Workers -> Worker] /\ worker'[w] = v
      /\ \A u \in Workers \ {w} : worker'[u] = worker[u]
      /\ item' \in [Items -> WorkItem] /\ item'[i] = s
      /\ \A j \in Items \ {i} : item'[j] = item[j]
  BY <1>1, <1>2, <1>3, <1>4 DEF TypeOK
<1>7. ItemFits(i, item[i].status, opened, fin)
  BY <1>1 DEF ItemsFit
<1>8. WorkerFits(v, opened, fin, source.dispatched, proc)
  BY <1>2, <1>5, <1>7 DEF WorkerFits, ItemFits
<1>9. \A j \in Items : ItemFits(j, item'[j].status, opened, fin)
  BY <1>1, <1>3, <1>5, <1>6, <1>7 DEF ItemsFit, ItemFits
<1>10. faults' \in Nat
  BY <1>1 DEF Claim, Fault, TypeOK
<1>11. source' \in Source /\ UNCHANGED <<opened, fin, refused, reversed, proc, source>>
  BY <1>1 DEF Claim, TypeOK
<1> QED
  BY <1>6, <1>8, <1>9, <1>10, <1>11, WorkerKeeps

LEMMA AuthorizeKeeps == ASSUME IInv, NEW w \in Workers, Authorize(w) PROVE IInv'
<1> DEFINE i == worker[w].item
           o == OperationOf(i)
<1>1. TypeOK /\ ItemsFit /\ worker[w].step = "authorize"
  BY DEF IInv, Authorize
<1>2. /\ i \in Items /\ i[1] \in Requests /\ i[1] \in opened
      /\ o[1] = i[1] /\ o[2] = IF i[2] = "refund" THEN "refund" ELSE "capture"
      /\ i[2] = "refund" => fin[i[1]].refund # "None"
  BY <1>1, WorkerKnows
<1> HIDE DEF o
<1>3. UNCHANGED <<opened, fin, refused, item, proc, reversed, faults>>
  BY DEF Authorize
<1>4. /\ faults' \in Nat /\ item' \in [Items -> WorkItem]
      /\ \A j \in Items : ItemFits(j, item'[j].status, opened, fin)
  BY <1>1, <1>3 DEF TypeOK, ItemsFit
<1>5. CASE PendingPayment(o) = "none"
  <2>1. Conclude(w, "complete") /\ source' = source
    BY <1>5 DEF Authorize, o
  <2>2. NothingDue(fin[i[1]], i[2])
    BY <1>2, <1>5 DEF PendingPayment, NothingDue
  <2>3. PICK v \in Worker : /\ worker' = [worker EXCEPT ![w] = v]
                            /\ v.step = "finish" /\ v.result = "complete" /\ v.item = i
    BY <1>1, <2>1, Concludes DEF Result
  <2>4. WorkerFits(v, opened, fin, source.dispatched, proc)
    BY <1>2, <2>2, <2>3 DEF WorkerFits
  <2> QED
    BY <1>3, <1>4, <2>1, <2>3, <2>4, WorkerAloneKeeps
<1>6. CASE PendingPayment(o) = "cancel"
  <2>1. Proceed(w, "cancel") /\ source' = source
    BY <1>6 DEF Authorize, o
  <2>2. i[2] # "refund"
    BY <1>2, <1>6 DEF PendingPayment
  <2>3. PICK v \in Worker : /\ worker' = [worker EXCEPT ![w] = v]
                            /\ v.step = "cancel" /\ v.item = i
    BY <1>1, <2>1, Proceeds DEF Step
  <2>4. WorkerFits(v, opened, fin, source.dispatched, proc)
    BY <1>2, <2>2, <2>3 DEF WorkerFits
  <2> QED
    BY <1>3, <1>4, <2>1, <2>3, <2>4, WorkerAloneKeeps
<1>7. CASE PendingPayment(o) = "submit"
  <2> DEFINE capture == o[2] = "capture"
  <2>1. IF capture /\ ~CanDispatch(source, o[1])
        THEN Conclude(w, "ready") /\ UNCHANGED source
        ELSE /\ Proceed(w, "lookup")
             /\ source' = IF capture THEN Dispatch(source, o[1]) ELSE source
    BY <1>7 DEF Authorize, o
  <2>2. ASSUME Conclude(w, "ready"), UNCHANGED source PROVE IInv'
    <3>1. PICK v \in Worker : /\ worker' = [worker EXCEPT ![w] = v]
                              /\ v.step = "finish" /\ v.result = "ready" /\ v.item = i
      BY <1>1, <2>2, Concludes DEF Result
    <3>2. WorkerFits(v, opened, fin, source.dispatched, proc)
      BY <1>2, <3>1 DEF WorkerFits
    <3> QED
      BY <1>3, <1>4, <2>2, <3>1, <3>2, WorkerAloneKeeps
  <2>3. ASSUME Proceed(w, "lookup"),
               source' = IF capture THEN Dispatch(source, o[1]) ELSE source
        PROVE  IInv'
    <3>1. PICK v \in Worker : /\ worker' = [worker EXCEPT ![w] = v]
                              /\ v.step = "lookup" /\ v.item = i
      BY <1>1, <2>3, Proceeds DEF Step
    <3>2. source \in Source /\ source.dispatched \subseteq Requests
      BY <1>1, FieldTypes DEF TypeOK
    <3>3. /\ source' \in Source /\ source'.attempts = source.attempts
          /\ source.dispatched \subseteq source'.dispatched
          /\ capture => o[1] \in source'.dispatched
      BY <1>2, <2>3, <3>2, DispatchAssumption DEF Dispatch, Source
    <3>4. WorkerFits(v, opened, fin, source'.dispatched, proc)
      BY <1>2, <3>1, <3>3 DEF WorkerFits
    <3>5. /\ worker' \in [Workers -> Worker] /\ worker'[w] = v
          /\ \A u \in Workers \ {w} : worker'[u] = worker[u]
      BY <1>1, <3>1 DEF TypeOK
    <3> QED
      BY <1>3, <1>4, <3>3, <3>4, <3>5, WorkerKeeps
  <2> QED
    BY <2>1, <2>2, <2>3
<1> QED
  BY <1>5, <1>6, <1>7 DEF PendingPayment

LEMMA UnavailableKeeps == ASSUME IInv, NEW w \in Workers, Unavailable(w) PROVE IInv'
<1>1. TypeOK /\ worker[w].step # "idle" /\ Conclude(w, "ready")
  BY DEF IInv, Unavailable
<1>2. PICK v \in Worker : /\ worker' = [worker EXCEPT ![w] = v] /\ v.step = "finish"
                          /\ v.result = "ready" /\ v.item = worker[w].item
  BY <1>1, Concludes DEF Result
<1>3. WorkerFits(v, opened, fin, source.dispatched, proc)
  BY <1>1, <1>2, WorkerKnows DEF WorkerFits
<1>4. faults' \in Nat /\ UNCHANGED <<opened, fin, source, refused, item, reversed, proc>>
  BY <1>1 DEF Unavailable, Fault, TypeOK
<1> QED
  BY <1>2, <1>3, <1>4, WorkerAloneKeeps

LEMMA CrashKeeps == ASSUME IInv, NEW w \in Workers, Crash(w) PROVE IInv'
<1>1. IdleWorker \in Worker /\ IdleWorker.step = "idle"
  BY DEF IdleWorker, Worker, Step, Result
<1>2. WorkerFits(IdleWorker, opened, fin, source.dispatched, proc)
  BY <1>1 DEF WorkerFits
<1>3. faults' \in Nat /\ UNCHANGED <<opened, fin, source, refused, item, reversed, proc>>
  BY DEF IInv, Crash, Fault, TypeOK
<1> QED
  BY <1>1, <1>2, <1>3, WorkerAloneKeeps DEF Crash

\* A worker takes an answer that the processor has on record.
LEMMA AnsweredFits ==
    ASSUME IInv, NEW w \in Workers, worker[w].step \in {"lookup", "submit", "cancel"},
           proc[OperationOf(worker[w].item)] # NoReceipt,
           Answered(w, proc[OperationOf(worker[w].item)]),
           UNCHANGED <<opened, fin, source, refused, item, reversed, proc, faults>>
    PROVE  IInv'
<1> DEFINE i == worker[w].item
           o == OperationOf(i)
           e == proc[o]
<1>1. TypeOK /\ ChargesAreGranted
  BY DEF IInv
<1>2. /\ i \in Items /\ i[1] \in Requests /\ i[1] \in opened /\ o \in Operations
      /\ o[2] = IF i[2] = "refund" THEN "refund" ELSE "capture"
      /\ o = <<i[1], o[2]>> /\ ProcessorRecord(o, e)
      /\ i[2] = "refund" => fin[i[1]].refund # "None"
  BY WorkerKnows
<1>3. e \in PaymentEvidence /\ e.outcome # "unknown" /\ e \in Issued(o, e)
  BY <1>2, RecordParts DEF Issued
<1>4. i[2] # "refund" /\ e.outcome # "Voided" => i[1] \in source.dispatched
  BY <1>1, <1>2, <1>3 DEF ChargesAreGranted
<1>5. PICK v \in Worker : /\ worker' = [worker EXCEPT ![w] = v] /\ v.step = "confirm"
                          /\ v.receipt = e /\ v.item = i
  BY <1>1, <1>3, Answers
<1> HIDE DEF o, e
<1>6. WorkerFits(v, opened, fin, source.dispatched, proc)
  BY <1>2, <1>3, <1>4, <1>5 DEF WorkerFits, o, e
<1>7. faults' \in Nat
  BY <1>1 DEF TypeOK
<1> QED
  BY <1>5, <1>6, <1>7, WorkerAloneKeeps

LEMMA LookupKeeps == ASSUME IInv, NEW w \in Workers, Lookup(w) PROVE IInv'
<1> DEFINE i == worker[w].item
           o == OperationOf(i)
<1>1. TypeOK /\ worker[w].step = "lookup"
  BY DEF IInv, Lookup
<1>2. UNCHANGED <<opened, fin, source, refused, item, reversed, proc, faults>>
  BY DEF Lookup
<1>3. CASE proc[o] # NoReceipt
  BY <1>1, <1>2, <1>3, AnsweredFits DEF Lookup
<1>4. CASE proc[o] = NoReceipt
  <2>1. PICK v \in Worker : /\ worker' = [worker EXCEPT ![w] = v] /\ v.step = "submit"
                            /\ v.item = i
    BY <1>1, <1>4, Proceeds DEF Lookup, Step
  <2>2. WorkerFits(v, opened, fin, source.dispatched, proc)
    BY <1>1, <2>1, WorkerKnows DEF WorkerFits
  <2>3. faults' \in Nat
    BY <1>1, <1>2 DEF TypeOK
  <2> QED
    BY <1>2, <2>1, <2>2, <2>3, WorkerAloneKeeps
<1> QED
  BY <1>3, <1>4

LEMMA FinishKeeps == ASSUME IInv, NEW w \in Workers, Finish(w) PROVE IInv'
<1> DEFINE i == worker[w].item
           s == [status |-> worker[w].result, holder |-> Idle]
<1>1. TypeOK /\ ItemsFit /\ worker[w].step = "finish"
  BY DEF IInv, Finish
<1>2. /\ i \in Items /\ i[1] \in opened /\ i[2] \in {"capture", "cancel", "refund"}
      /\ i[2] = "refund" => fin[i[1]].refund # "None"
      /\ worker[w].result \in {"complete", "ready", "blocked"}
      /\ worker[w].result = "complete" => NothingDue(fin[i[1]], i[2])
  BY <1>1, WorkerKnows DEF WorkerFits
<1>3. s \in WorkItem /\ s.status = worker[w].result
  BY <1>2 DEF WorkItem
<1>4. item' = item \/ item' = [item EXCEPT ![i] = s]
  BY DEF Finish
<1>5. worker' = [worker EXCEPT ![w] = IdleWorker]
  BY DEF Finish
<1>6. UNCHANGED <<opened, fin, source, refused, reversed, proc, faults>>
  BY DEF Finish
<1> HIDE DEF s
<1>7. ItemFits(i, s.status, opened, fin)
  BY <1>2, <1>3 DEF ItemFits
<1>8. item' \in [Items -> WorkItem]
  BY <1>1, <1>2, <1>3, <1>4 DEF TypeOK
<1>9. \A j \in Items : item'[j] = item[j] \/ (j = i /\ item'[j] = s)
  BY <1>1, <1>2, <1>4 DEF TypeOK
<1>10. \A j \in Items : ItemFits(j, item'[j].status, opened, fin)
  BY <1>1, <1>7, <1>9 DEF ItemsFit
<1>11. IdleWorker \in Worker /\ IdleWorker.step = "idle"
  BY DEF IdleWorker, Worker, Step, Result
<1>12. WorkerFits(IdleWorker, opened, fin, source'.dispatched, proc)
  BY <1>11 DEF WorkerFits
<1>13. /\ worker' \in [Workers -> Worker] /\ worker'[w] = IdleWorker
       /\ \A u \in Workers \ {w} : worker'[u] = worker[u]
  BY <1>1, <1>5, <1>11 DEF TypeOK
<1>14. faults' \in Nat /\ source' \in Source
  BY <1>1, <1>6 DEF TypeOK
<1> QED
  BY <1>6, <1>8, <1>10, <1>12, <1>13, <1>14, WorkerKeeps

-----------------------------------------------------------------------------
(***************************************************************************)
(* The processor's steps: a record replaces nothing or a pending           *)
(* submission, so nothing that was recorded of it becomes untrue.          *)
(***************************************************************************)

\* The parts that read the processor's records, after it writes q for o.
LEMMA ProcessorKeeps ==
    ASSUME IInv, NEW o \in Operations, NEW q,
           proc' = [proc EXCEPT ![o] = q], q # NoReceipt, ProcessorRecord(o, q),
           \/ proc[o] = NoReceipt
           \/ proc[o].outcome = "Pending" /\ q.id # <<o[2], "submission">>,
           o[2] = "refund" => fin[o[1]].refund # "None",
           o[2] = "capture" /\ q.outcome # "Voided" => o[1] \in source.dispatched,
           UNCHANGED <<opened, fin, source, refused, reversed>>
    PROVE  /\ proc' \in [Operations -> PaymentEvidence \cup {NoReceipt}]
           /\ ProcessorSound' /\ RecordsMatch' /\ AttemptsMatch' /\ ChargesAreGranted'
           /\ \A p \in Operations : Issued(p, proc[p]) \subseteq Issued(p, proc'[p])
<1>1. /\ proc \in [Operations -> PaymentEvidence \cup {NoReceipt}]
      /\ \A p \in Operations : ProcessorRecord(p, proc[p])
      /\ RecordsMatch /\ AttemptsMatch /\ ChargesAreGranted /\ opened \subseteq Requests
      /\ \A r \in Requests : fin[r].capture \in CaptureStatus
  BY FieldTypes DEF IInv, TypeOK, ProcessorSound
<1>2. q \in PaymentEvidence /\ q.outcome # "unknown"
  BY RecordParts
<1>3. proc'[o] = q /\ \A p \in Operations \ {o} : proc'[p] = proc[p]
  BY <1>1
<1>4. proc' \in [Operations -> PaymentEvidence \cup {NoReceipt}]
  BY <1>1, <1>2
<1>5. ASSUME NEW p \in Operations
      PROVE  ProcessorRecord(p, proc'[p]) /\ Issued(p, proc[p]) \subseteq Issued(p, proc'[p])
  <2>1. CASE p = o
    BY <1>1, <1>3, <2>1, IssuedGrows
  <2>2. CASE p # o
    BY <1>1, <1>3, <2>2
  <2> QED
    BY <2>1, <2>2
<1>6. proc[o].outcome \in {"unknown", "Pending"}
  BY NoReceiptApart
<1>7. ASSUME NEW r \in Requests
      PROVE  /\ <<r, "capture">> \in Operations /\ <<r, "refund">> \in Operations
             /\ <<r, "capture">> = o => o[1] = r /\ o[2] = "capture"
             /\ <<r, "refund">> = o => o[1] = r /\ o[2] = "refund"
  BY DEF Operations
<1>8. ASSUME NEW r \in Requests
      PROVE  /\ RecordMatches(r, fin[r], proc'[<<r, "capture">>], proc'[<<r, "refund">>], reversed)
             /\ EventsMatch(r, fin[r], proc'[<<r, "capture">>], proc'[<<r, "refund">>], reversed)
  <2>1. /\ RecordMatches(r, fin[r], proc[<<r, "capture">>], proc[<<r, "refund">>], reversed)
        /\ EventsMatch(r, fin[r], proc[<<r, "capture">>], proc[<<r, "refund">>], reversed)
    BY <1>1 DEF RecordsMatch
  <2>2. EventsMatch(r, fin[r], proc'[<<r, "capture">>], proc'[<<r, "refund">>], reversed)
    BY <1>5, <1>7, <2>1 DEF EventsMatch
  <2>3. RecordMatches(r, fin[r], proc'[<<r, "capture">>], proc'[<<r, "refund">>], reversed)
    <3>1. CASE <<r, "capture">> = o
      <4>1. proc'[<<r, "refund">>] = proc[<<r, "refund">>]
        BY <1>3, <1>7, <3>1
      <4>2. ~FundingFinalized(fin[r]) /\ fin[r].capture # "Voided"
        BY <1>6, <2>1, <3>1 DEF RecordMatches
      <4> QED
        BY <2>1, <4>1, <4>2 DEF RecordMatches
    <3>2. CASE <<r, "refund">> = o
      <4>1. proc'[<<r, "capture">>] = proc[<<r, "capture">>]
        BY <1>3, <1>7, <3>2
      <4>2. fin[r].refund \notin {"None", "Confirmed"}
        BY <1>6, <1>7, <2>1, <3>2 DEF RecordMatches
      <4> QED
        BY <2>1, <4>1, <4>2 DEF RecordMatches
    <3>3. CASE <<r, "capture">> # o /\ <<r, "refund">> # o
      BY <1>3, <1>7, <2>1, <3>3
    <3> QED
      BY <3>1, <3>2, <3>3
  <2> QED
    BY <2>2, <2>3
<1>9. RecordsMatch'
  BY <1>8 DEF RecordsMatch
<1>10. AttemptsMatch'
  <2> SUFFICES ASSUME NEW r \in opened
               PROVE  AttemptMatches(fin[r], source.attempts[r], proc'[<<r, "capture">>])
    BY DEF AttemptsMatch
  <2>1. AttemptMatches(fin[r], source.attempts[r], proc[<<r, "capture">>])
    BY <1>1 DEF AttemptsMatch
  <2>2. CASE <<r, "capture">> = o
    <3>1. source.attempts[r] \notin {"Voided", "Failed"}
      BY <1>6, <2>1, <2>2 DEF AttemptMatches
    <3> QED
      BY <2>1, <3>1 DEF AttemptMatches
  <2>3. CASE <<r, "capture">> # o
    BY <1>1, <1>3, <1>7, <2>1, <2>3
  <2> QED
    BY <2>2, <2>3
<1>11. ChargesAreGranted'
  <2> SUFFICES ASSUME NEW r \in Requests,
                      proc'[<<r, "capture">>].outcome \notin {"unknown", "Voided"}
               PROVE  r \in source.dispatched
    BY DEF ChargesAreGranted
  <2>1. CASE <<r, "capture">> = o
    BY <1>3, <1>7, <2>1
  <2>2. CASE <<r, "capture">> # o
    BY <1>1, <1>3, <1>7, <2>2 DEF ChargesAreGranted
  <2> QED
    BY <2>1, <2>2
<1>12. ProcessorSound'
  BY <1>5 DEF ProcessorSound
<1> QED
  BY <1>4, <1>5, <1>9, <1>10, <1>11, <1>12

\* The other workers, while the processor's record or that of a request moves.
LEMMA OthersFit ==
    ASSUME IInv, opened \subseteq opened', Forward(fin, fin'),
           source.dispatched \subseteq source'.dispatched,
           \A o \in Operations : Issued(o, proc[o]) \subseteq Issued(o, proc'[o]),
           NEW u \in Workers, worker'[u] = worker[u]
    PROVE  WorkerFits(worker'[u], opened', fin', source'.dispatched, proc')
<1>1. WorkerFits(worker[u], opened, fin, source.dispatched, proc)
  BY DEF IInv, WorkersFit
<1>2. \A r \in Requests : fin[r].refund \in RefundStatus
  BY FieldTypes DEF IInv
<1> QED
  BY <1>1, <1>2, WorkerStillFits

\* The answer of the processor, taken or lost.
LEMMA RespondKeeps ==
    ASSUME IInv, NEW w \in Workers, worker[w].step \in {"submit", "cancel"},
           NEW e \in PaymentEvidence, ProcessorRecord(OperationOf(worker[w].item), e),
           LET o == OperationOf(worker[w].item)
           IN  /\ Respond(w, o, e)
               /\ \/ proc[o] = NoReceipt
                  \/ proc[o].outcome = "Pending" /\ e.id # <<o[2], "submission">>
               /\ o[2] = "capture" /\ e.outcome # "Voided" => o[1] \in source.dispatched,
           UNCHANGED <<opened, fin, source, refused, item, reversed>>
    PROVE  IInv'
<1> DEFINE i == worker[w].item
           o == OperationOf(i)
<1>1. TypeOK /\ MoneySound /\ OnlyReversalsRefused /\ ItemsFit
  BY DEF IInv
<1>2. /\ i \in Items /\ i[1] \in Requests /\ i[1] \in opened /\ o \in Operations
      /\ o[1] = i[1] /\ o[2] = IF i[2] = "refund" THEN "refund" ELSE "capture"
      /\ o = <<i[1], o[2]>>
      /\ o[2] = "refund" => fin[i[1]].refund # "None"
  BY WorkerKnows
<1>3. proc' = [proc EXCEPT ![o] = e] /\ e # NoReceipt
  BY NoReceiptApart DEF Respond
<1>4. /\ proc' \in [Operations -> PaymentEvidence \cup {NoReceipt}]
      /\ ProcessorSound' /\ RecordsMatch' /\ AttemptsMatch' /\ ChargesAreGranted'
      /\ \A p \in Operations : Issued(p, proc[p]) \subseteq Issued(p, proc'[p])
  BY <1>2, <1>3, ProcessorKeeps
<1>5. e \in Issued(o, proc'[o]) /\ proc'[o] = e
  BY <1>1, <1>2, <1>3 DEF Issued, TypeOK
<1>6. PICK v \in Worker :
         /\ worker' = [worker EXCEPT ![w] = v] /\ v.item = i
         /\ (v.step = "confirm" /\ v.receipt = e) \/ (v.step = "finish" /\ v.result = "ready")
  <2>1. CASE Answered(w, e)
    BY <1>1, <2>1, Answers
  <2>2. CASE Conclude(w, "ready")
    BY <1>1, <2>2, Concludes DEF Result
  <2> QED
    BY <2>1, <2>2 DEF Respond
<1>7. faults' \in Nat
  BY <1>1 DEF Respond, Fault, TypeOK
<1> HIDE DEF o
<1>8. WorkerFits(v, opened, fin, source.dispatched, proc')
  BY <1>2, <1>5, <1>6 DEF WorkerFits, o
<1>9. worker' \in [Workers -> Worker] /\ worker'[w] = v
      /\ \A u \in Workers \ {w} : worker'[u] = worker[u]
  BY <1>1, <1>6 DEF TypeOK
<1>10. \A u \in Workers \ {w} : WorkerFits(worker'[u], opened', fin', source'.dispatched, proc')
  BY <1>4, <1>9, OthersFit, ForwardSame
<1>11. WorkersFit'
  BY <1>8, <1>9, <1>10 DEF WorkersFit
<1>12. TypeOK'
  BY <1>1, <1>4, <1>7, <1>9 DEF TypeOK
<1>13. MoneySound' /\ OnlyReversalsRefused' /\ ItemsFit'
  BY <1>1 DEF MoneySound, OnlyReversalsRefused, ItemsFit
<1> QED
  BY <1>4, <1>11, <1>12, <1>13 DEF IInv

LEMMA SubmitKeeps ==
    ASSUME IInv, NEW w \in Workers, NEW outcome \in {"Settled", "Pending", "Failed"},
           Submit(w, outcome)
    PROVE  IInv'
<1> DEFINE i == worker[w].item
           o == OperationOf(i)
           e == Evidence(o, "submission", outcome)
<1>1. TypeOK /\ worker[w].step = "submit"
  BY DEF IInv, Submit
<1>2. /\ i \in Items /\ i[1] \in Requests /\ o \in Operations /\ o[1] = i[1]
      /\ o[2] = IF i[2] = "refund" THEN "refund" ELSE "capture"
      /\ WorkerFits(worker[w], opened, fin, source.dispatched, proc)
  BY <1>1, WorkerKnows
<1>3. UNCHANGED <<opened, fin, source, refused, item, reversed>>
  BY DEF Submit
<1>4. CASE proc[o] # NoReceipt
  <2>1. Answered(w, proc[o]) /\ UNCHANGED <<proc, faults>>
    BY <1>4 DEF Submit
  <2> QED
    BY <1>1, <1>3, <1>4, <2>1, AnsweredFits
<1>5. CASE proc[o] = NoReceipt /\ Conclude(w, "blocked") /\ UNCHANGED <<proc, faults>>
  <2>1. PICK v \in Worker : /\ worker' = [worker EXCEPT ![w] = v] /\ v.step = "finish"
                            /\ v.result = "blocked" /\ v.item = i
    BY <1>1, <1>5, Concludes DEF Result
  <2>2. WorkerFits(v, opened, fin, source.dispatched, proc)
    BY <1>1, <2>1, WorkerKnows DEF WorkerFits
  <2>3. faults' \in Nat
    BY <1>1, <1>5 DEF TypeOK
  <2> QED
    BY <1>3, <1>5, <2>1, <2>2, <2>3, WorkerAloneKeeps
<1>6. CASE proc[o] = NoReceipt /\ Respond(w, o, e)
  <2>1. e \in PaymentEvidence /\ ProcessorRecord(o, e)
    BY <1>2, EvidenceParts DEF ProcessorRecord, Causes, PaymentOutcome
  <2>2. o[2] = "capture" => o[1] \in source.dispatched
    BY <1>1, <1>2 DEF WorkerFits
  <2> QED
    BY <1>1, <1>3, <1>6, <2>1, <2>2, RespondKeeps
<1> QED
  BY <1>4, <1>5, <1>6 DEF Submit

LEMMA CancelKeeps == ASSUME IInv, NEW w \in Workers, Cancel(w) PROVE IInv'
<1> DEFINE i == worker[w].item
           o == OperationOf(i)
           e == Evidence(o, "cancellation", "Voided")
<1>1. TypeOK /\ worker[w].step = "cancel"
  BY DEF IInv, Cancel
<1>2. /\ o \in Operations /\ o[2] = "capture"
  BY <1>1, WorkerKnows DEF WorkerFits
<1>3. UNCHANGED <<opened, fin, source, refused, item, reversed>>
  BY DEF Cancel
<1>4. CASE ~VoidsOnCancel(o)
  <2>1. Answered(w, proc[o]) /\ UNCHANGED <<proc, faults>> /\ proc[o] # NoReceipt
    BY <1>4 DEF Cancel, VoidsOnCancel
  <2> QED
    BY <1>1, <1>3, <2>1, AnsweredFits
<1>5. CASE VoidsOnCancel(o)
  <2>1. e \in PaymentEvidence /\ e.outcome = "Voided" /\ e.id = <<o[2], "cancellation">>
        /\ ProcessorRecord(o, e)
    BY <1>2, EvidenceParts DEF ProcessorRecord, Causes, PaymentOutcome
  <2>2. e.id # <<o[2], "submission">>
    BY <2>1
  <2>3. Respond(w, o, e)
    BY <1>5 DEF Cancel
  <2> QED
    BY <1>1, <1>3, <1>5, <2>1, <2>2, <2>3, RespondKeeps DEF VoidsOnCancel
<1> QED
  BY <1>4, <1>5

LEMMA ResolveKeeps ==
    ASSUME IInv, NEW o \in Operations, NEW outcome \in {"Settled", "Failed", "Voided"},
           Resolve(o, outcome)
    PROVE  IInv'
<1> DEFINE e == Evidence(o, "resolution", outcome)
<1>1. /\ TypeOK /\ MoneySound /\ ProcessorSound /\ RecordsMatch /\ ChargesAreGranted
      /\ OnlyReversalsRefused /\ ItemsFit
  BY DEF IInv
<1>2. /\ proc[o].outcome = "Pending" /\ (outcome = "Voided" => o[2] = "capture")
      /\ proc' = [proc EXCEPT ![o] = e]
      /\ UNCHANGED <<opened, fin, source, refused, item, worker, reversed, faults>>
  BY DEF Resolve
<1>3. /\ e \in PaymentEvidence /\ e.id = <<o[2], "resolution">> /\ e.outcome = outcome
      /\ ProcessorRecord(o, e)
  BY <1>2, EvidenceParts DEF ProcessorRecord, Causes, PaymentOutcome
<1>4. e # NoReceipt /\ e.id # <<o[2], "submission">>
  BY <1>3, NoReceiptApart
<1>5. o[1] \in Requests /\ o[2] \in {"capture", "refund"} /\ o = <<o[1], o[2]>>
  BY DEF Operations
<1>6. o[2] = "refund" => fin[o[1]].refund # "None"
  <2>1. RecordMatches(o[1], fin[o[1]], proc[<<o[1], "capture">>], proc[<<o[1], "refund">>],
                      reversed)
    BY <1>1, <1>5 DEF RecordsMatch
  <2> QED
    BY <1>2, <1>5, <2>1 DEF RecordMatches
<1>7. o[2] = "capture" => o[1] \in source.dispatched
  BY <1>1, <1>2, <1>5 DEF ChargesAreGranted
<1> HIDE DEF e
<1>8. /\ proc' \in [Operations -> PaymentEvidence \cup {NoReceipt}]
      /\ ProcessorSound' /\ RecordsMatch' /\ AttemptsMatch' /\ ChargesAreGranted'
      /\ \A p \in Operations : Issued(p, proc[p]) \subseteq Issued(p, proc'[p])
  BY <1>2, <1>3, <1>4, <1>6, <1>7, ProcessorKeeps
<1>9. WorkersFit'
  BY <1>2, <1>8, OthersFit, ForwardSame DEF WorkersFit
<1>10. TypeOK'
  BY <1>1, <1>2, <1>8 DEF TypeOK
<1>11. MoneySound' /\ OnlyReversalsRefused' /\ ItemsFit'
  BY <1>1, <1>2 DEF MoneySound, OnlyReversalsRefused, ItemsFit
<1> QED
  BY <1>8, <1>9, <1>10, <1>11 DEF IInv

-----------------------------------------------------------------------------
(***************************************************************************)
(* The transitions of a request.                                           *)
(***************************************************************************)

\* The work a change of the record causes.
LEMMA WorkEnqueued ==
    ASSUME TypeOK, NEW r \in Requests, NEW before, NEW after,
           item' = Enqueued(WorkCausedBy(r, before, after))
    PROVE  /\ item' \in [Items -> WorkItem]
           /\ \A i \in Items : \/ item'[i].status = item[i].status
                               \/ /\ item'[i].status = "ready" /\ i[1] = r
                                  /\ i[2] = "refund" => after.refund = "Pending"
           /\ before.refund = "None" /\ after.refund = "Pending" =>
                 \A i \in Items : i[1] = r /\ i[2] = "refund" => item'[i].status = "ready"
<1> DEFINE S == WorkCausedBy(r, before, after)
<1>1. \A i \in S : i[1] = r /\ (i[2] = "refund" => after.refund = "Pending")
  BY DEF WorkCausedBy
<1>2. before.refund = "None" /\ after.refund = "Pending" => <<r, "refund">> \in S
  BY DEF WorkCausedBy
<1>3. \A i \in Items : i[1] = r /\ i[2] = "refund" => i = <<r, "refund">>
  BY DEF Items
<1> HIDE DEF S
<1>4. \A i \in Items : /\ item'[i] = IF i \in S THEN [item[i] EXCEPT !.status = "ready"] ELSE item[i]
                       /\ item[i] \in WorkItem
  BY DEF Enqueued, TypeOK, S
<1>5. ASSUME NEW i \in Items
      PROVE  /\ [item[i] EXCEPT !.status = "ready"] \in WorkItem
             /\ [item[i] EXCEPT !.status = "ready"].status = "ready"
  BY <1>4 DEF WorkItem
<1>6. item' \in [Items -> WorkItem]
  <2>1. item' = [i \in Items |-> IF i \in S THEN [item[i] EXCEPT !.status = "ready"] ELSE item[i]]
    BY DEF Enqueued, S
  <2> QED
    BY <1>4, <1>5, <2>1
<1> QED
  BY <1>1, <1>2, <1>3, <1>4, <1>5, <1>6

\* The work items follow a record that moves forward.
LEMMA ItemsFollow ==
    ASSUME IInv, NEW r \in opened, NEW g,
           fin' = [fin EXCEPT ![r] = g], opened' = opened, g.refund \in RefundStatus,
           Forward(fin, fin'),
           fin[r].refund = "None" => g.refund \in {"None", "Pending"},
           item' = Enqueued(WorkCausedBy(r, fin[r], fin'[r]))
    PROVE  item' \in [Items -> WorkItem] /\ ItemsFit'
<1>1. TypeOK /\ ItemsFit /\ r \in Requests
  BY DEF IInv, TypeOK
<1>2. fin'[r] = g /\ \A s \in Requests \ {r} : fin'[s] = fin[s]
  BY <1>1 DEF TypeOK
<1>3. /\ item' \in [Items -> WorkItem]
      /\ \A i \in Items : \/ item'[i].status = item[i].status
                          \/ /\ item'[i].status = "ready" /\ i[1] = r
                             /\ i[2] = "refund" => fin'[r].refund = "Pending"
      /\ fin[r].refund = "None" /\ fin'[r].refund = "Pending" =>
            \A i \in Items : i[1] = r /\ i[2] = "refund" => item'[i].status = "ready"
  BY <1>1, WorkEnqueued
<1>4. ASSUME NEW i \in Items PROVE ItemFits(i, item'[i].status, opened, fin')
  <2>1. /\ ItemFits(i, item[i].status, opened, fin)
        /\ i[1] \in Requests /\ i[2] \in {"capture", "cancel", "refund"}
    BY <1>1, ItemParts DEF ItemsFit
  <2>2. fin[i[1]].refund # "None" => fin'[i[1]].refund # "None"
    BY <2>1 DEF Forward
  <2>3. CASE item'[i].status = "ready" /\ i[1] = r /\ (i[2] = "refund" => g.refund = "Pending")
    BY <1>2, <2>3 DEF ItemFits
  <2>4. CASE item'[i].status = item[i].status
    <3>1. item[i].status # "none" => i[1] \in opened /\ (i[2] = "refund" => fin'[i[1]].refund # "None")
      BY <2>1, <2>2 DEF ItemFits
    <3>2. i[2] = "capture" /\ i[1] \in opened => item[i].status # "none"
      BY <2>1 DEF ItemFits
    <3>3. i[2] = "refund" /\ fin'[i[1]].refund # "None" => item[i].status # "none"
      <4>1. CASE fin[i[1]].refund # "None"
        BY <2>1, <4>1 DEF ItemFits
      <4>2. CASE fin[i[1]].refund = "None"
        BY <1>2, <1>3, <2>1, <2>4, <4>2
      <4> QED
        BY <4>1, <4>2
    <3>4. item[i].status = "complete" => NothingDue(fin'[i[1]], i[2])
      <4>1. CASE i[2] # "refund"
        BY <2>1, <4>1 DEF ItemFits, NothingDue, Forward
      <4>2. CASE i[2] = "refund"
        <5>1. item[i].status = "complete" => fin[i[1]].refund = "Confirmed"
          BY <1>1, <2>1, <4>2, FieldTypes DEF ItemFits, NothingDue, RefundStatus
        <5> QED
          BY <2>1, <4>2, <5>1 DEF Forward, NothingDue
      <4> QED
        BY <4>1, <4>2
    <3> QED
      BY <2>4, <3>1, <3>2, <3>3, <3>4 DEF ItemFits
  <2> QED
    BY <1>2, <1>3, <2>3, <2>4
<1> QED
  BY <1>3, <1>4 DEF ItemsFit

LEMMA OpenKeeps == ASSUME IInv, NEW r \in Requests, Open(r) PROVE IInv'
<1>1. /\ TypeOK /\ MoneySound /\ ProcessorSound /\ RecordsMatch /\ AttemptsMatch
      /\ ChargesAreGranted /\ OnlyReversalsRefused /\ ItemsFit
  BY DEF IInv
<1>2. /\ r \notin opened /\ opened' = opened \cup {r} /\ source' = Reserve(source, r)
      /\ item' = Enqueued({<<r, "capture">>})
      /\ UNCHANGED <<fin, refused, worker, proc, reversed, faults>>
  BY DEF Open
<1>3. fin[r].capture = "Pending" /\ fin[r].refund = "None"
  BY <1>1, <1>2 DEF MoneySound, NewFinancials
<1>4. source \in Source /\ r \in Captures /\ opened \subseteq Requests
  BY <1>1, DispatchAssumption DEF TypeOK
<1>5. /\ source' \in Source /\ source'.dispatched = source.dispatched
      /\ source'.attempts[r] = "Pending"
      /\ \A s \in Requests \ {r} : source'.attempts[s] = source.attempts[s]
  BY <1>2, <1>4, DispatchAssumption DEF Reserve, Source, PaymentState
<1>6. ASSUME NEW i \in Items
      PROVE  /\ item'[i] \in WorkItem
             /\ i = <<r, "capture">> => item'[i].status = "ready"
             /\ i # <<r, "capture">> => item'[i] = item[i]
  BY <1>1, <1>2 DEF Enqueued, TypeOK, WorkItem
<1>7. item' \in [Items -> WorkItem]
  <2>1. item' = [i \in Items |-> item'[i]]
    BY <1>2 DEF Enqueued
  <2> QED
    BY <1>6, <2>1
<1>8. ItemsFit'
  <2> SUFFICES ASSUME NEW i \in Items PROVE ItemFits(i, item'[i].status, opened', fin)
    BY <1>2 DEF ItemsFit
  <2>1. i[1] \in Requests /\ i = <<i[1], i[2]>> /\ i[2] \in {"capture", "cancel", "refund"}
    BY DEF Items
  <2>2. ItemFits(i, item[i].status, opened, fin)
    BY <1>1 DEF ItemsFit
  <2>3. CASE i = <<r, "capture">>
    BY <1>2, <1>6, <2>1, <2>3 DEF ItemFits
  <2>4. CASE i # <<r, "capture">>
    <3>1. item'[i] = item[i]
      BY <1>6, <2>4
    <3>2. i[1] \in opened' => i[1] \in opened \/ i[2] # "capture"
      BY <1>2, <2>1, <2>4
    <3>3. opened \subseteq opened'
      BY <1>2
    <3> QED
      BY <2>2, <3>1, <3>2, <3>3 DEF ItemFits
  <2> QED
    BY <2>3, <2>4
<1>9. AttemptsMatch'
  <2> SUFFICES ASSUME NEW s \in opened'
               PROVE  AttemptMatches(fin[s], source'.attempts[s], proc[<<s, "capture">>])
    BY <1>2 DEF AttemptsMatch
  <2>1. CASE s = r
    BY <1>3, <1>5, <2>1 DEF AttemptMatches
  <2>2. CASE s # r
    BY <1>1, <1>2, <1>4, <1>5, <2>2 DEF AttemptsMatch
  <2> QED
    BY <2>1, <2>2
<1>10. WorkersFit'
  BY <1>2, <1>5, OthersFit, ForwardSame DEF WorkersFit
<1>11. TypeOK'
  BY <1>1, <1>2, <1>5, <1>7 DEF TypeOK
<1>12. MoneySound' /\ ProcessorSound' /\ RecordsMatch' /\ ChargesAreGranted' /\ OnlyReversalsRefused'
  BY <1>1, <1>2, <1>5
  DEF MoneySound, ProcessorSound, RecordsMatch, ChargesAreGranted, OnlyReversalsRefused
<1> QED
  BY <1>8, <1>9, <1>10, <1>11, <1>12 DEF IInv

LEMMA SettleRequestKeeps ==
    ASSUME IInv, NEW r \in Requests, NEW s \in RequestSettlement, SettleRequest(r, s)
    PROVE  IInv'
<1> DEFINE g == Settle(r, fin[r], s)
<1>1. /\ TypeOK /\ MoneySound /\ ProcessorSound /\ RecordsMatch /\ AttemptsMatch
      /\ ChargesAreGranted /\ OnlyReversalsRefused /\ ItemsFit
  BY DEF IInv
<1>2. /\ r \in opened /\ fin[r].settlement = "None" /\ CanSettle(fin[r], s)
      /\ fin' = [fin EXCEPT ![r] = g]
      /\ item' = Enqueued(WorkCausedBy(r, fin[r], fin'[r]))
      /\ UNCHANGED <<opened, source, refused, worker, proc, reversed, faults>>
  BY DEF SettleRequest
<1>3. Sound(r, fin[r]) /\ fin[r].capture \in CaptureStatus
  BY <1>1, FieldTypes DEF MoneySound
<1>4. /\ g.events = fin[r].events
      /\ \/ g.capture = fin[r].capture
         \/ /\ ~FundingFinalized(fin[r]) /\ fin[r].capture # "Voided"
            /\ g.capture = "CancellationRequested"
      /\ fin[r].refund = "None" /\ g.refund \in {"None", "Pending"}
  BY <1>2, <1>3, SettledRecord
<1>5. Sound(r, g) /\ g \in Financials
  BY <1>2, <1>3, SettleSound DEF Sound
<1> HIDE DEF g
<1>6. fin'[r] = g /\ \A x \in Requests \ {r} : fin'[x] = fin[x]
  BY <1>1, <1>2 DEF TypeOK
<1>7. fin' \in [Requests -> Financials]
  BY <1>1, <1>2, <1>5 DEF TypeOK
<1>8. fin[r].capture # g.capture => fin[r].capture \in {"Pending", "CancellationRequested"}
  BY <1>3, <1>4 DEF FundingFinalized, CaptureStatus
<1>9. Forward(fin, fin')
  BY <1>4, <1>6, <1>8 DEF Forward, NothingDue
<1>10. item' \in [Items -> WorkItem] /\ ItemsFit'
  BY <1>2, <1>4, <1>5, <1>9, ItemsFollow DEF Financials
<1>11. MoneySound'
  BY <1>1, <1>2, <1>5, <1>6 DEF MoneySound
<1>12. RecordsMatch'
  <2> SUFFICES ASSUME NEW x \in Requests
               PROVE  /\ RecordMatches(x, fin'[x], proc[<<x, "capture">>], proc[<<x, "refund">>],
                                       reversed)
                      /\ EventsMatch(x, fin'[x], proc[<<x, "capture">>], proc[<<x, "refund">>],
                                     reversed)
    BY <1>2 DEF RecordsMatch
  <2>1. /\ RecordMatches(x, fin[x], proc[<<x, "capture">>], proc[<<x, "refund">>], reversed)
        /\ EventsMatch(x, fin[x], proc[<<x, "capture">>], proc[<<x, "refund">>], reversed)
    BY <1>1 DEF RecordsMatch
  <2>2. CASE x = r
    <3>1. RecordMatches(r, g, proc[<<r, "capture">>], proc[<<r, "refund">>], reversed)
      BY <1>4, <2>1, <2>2 DEF RecordMatches, FundingFinalized
    <3>2. EventsMatch(r, g, proc[<<r, "capture">>], proc[<<r, "refund">>], reversed)
      BY <1>4, <1>8, <2>1, <2>2 DEF EventsMatch, NothingDue
    <3> QED
      BY <1>6, <2>2, <3>1, <3>2
  <2> QED
    BY <1>6, <2>1, <2>2
<1>13. AttemptsMatch'
  <2> SUFFICES ASSUME NEW x \in opened
               PROVE  AttemptMatches(fin'[x], source.attempts[x], proc[<<x, "capture">>])
    BY <1>2 DEF AttemptsMatch
  <2>1. AttemptMatches(fin[x], source.attempts[x], proc[<<x, "capture">>]) /\ x \in Requests
    BY <1>1 DEF AttemptsMatch, TypeOK
  <2>2. CASE x = r
    <3>1. AttemptMatches(g, source.attempts[r], proc[<<r, "capture">>])
      BY <1>4, <1>8, <2>1, <2>2 DEF AttemptMatches
    <3> QED
      BY <1>6, <2>2, <3>1
  <2> QED
    BY <1>6, <2>1, <2>2
<1>14. WorkersFit'
  BY <1>2, <1>9, OthersFit DEF WorkersFit
<1>15. TypeOK'
  BY <1>1, <1>2, <1>7, <1>10 DEF TypeOK
<1>16. ProcessorSound' /\ ChargesAreGranted' /\ OnlyReversalsRefused'
  BY <1>1, <1>2 DEF ProcessorSound, ChargesAreGranted, OnlyReversalsRefused
<1> QED
  BY <1>10, <1>11, <1>12, <1>13, <1>14, <1>15, <1>16 DEF IInv

-----------------------------------------------------------------------------
(***************************************************************************)
(* Evidence: a worker's answer, or the notification of a reversal.         *)
(***************************************************************************)

\* Evidence that may reach the engine: a reversal the processor made, or a
\* receipt it issued for an operation that was granted where it needs to be.
Genuine(r, e) ==
    \/ e = ReversalOf(r) /\ r \in reversed
    \/ /\ e \in Issued(<<r, e.op>>, proc[<<r, e.op>>]) /\ r \in opened
       /\ e.op = "refund" => fin[r].refund # "None"
       /\ e.op = "capture" /\ e.outcome # "Voided" => r \in source.dispatched

\* What such evidence is.
LEMMA GenuineParts ==
    ASSUME IInv, NEW r \in Requests, NEW e, e.op \in {"capture", "refund"}, Genuine(r, e)
    PROVE  /\ e \in PaymentEvidence
           /\ e.outcome \in PaymentOutcome
           /\ e.outcome = "Reversed" => e = ReversalOf(r) /\ e.op = "capture" /\ r \in reversed
           /\ e.outcome # "Reversed" =>
                 /\ r \in opened /\ e \in Issued(<<r, e.op>>, proc[<<r, e.op>>])
                 /\ e.op = "refund" => fin[r].refund # "None" /\ e.outcome # "Voided"
                 /\ e.op = "capture" /\ e.outcome # "Voided" => r \in source.dispatched
                 /\ e.outcome # "Pending" => proc[<<r, e.op>>] = e
<1>1. <<r, e.op>> \in Operations /\ <<r, "capture">> \in Operations
  BY DEF Operations
<1>2. ProcessorRecord(<<r, e.op>>, proc[<<r, e.op>>])
  BY <1>1 DEF IInv, ProcessorSound
<1>3. CASE e = ReversalOf(r) /\ r \in reversed
  <2>1. e \in PaymentEvidence /\ e.op = "capture" /\ e.outcome = "Reversed"
    BY <1>1, <1>3, EvidenceParts DEF ReversalOf, Causes, PaymentOutcome
  <2> QED
    BY <1>3, <2>1 DEF PaymentOutcome
<1>4. CASE ~(e = ReversalOf(r) /\ r \in reversed)
  <2>1. /\ e \in Issued(<<r, e.op>>, proc[<<r, e.op>>]) /\ r \in opened
        /\ e.op = "refund" => fin[r].refund # "None"
        /\ e.op = "capture" /\ e.outcome # "Voided" => r \in source.dispatched
    BY <1>4 DEF Genuine
  <2>2. /\ e \in PaymentEvidence
        /\ e.outcome \in {"Settled", "Pending", "Failed", "Voided"}
        /\ e = proc[<<r, e.op>>] \/ e.outcome = "Pending"
        /\ e.outcome = "Voided" => <<r, e.op>>[2] = "capture"
    BY <1>1, <1>2, <2>1, IssuedParts
  <2> QED
    BY <2>1, <2>2 DEF PaymentOutcome
<1> QED
  BY <1>3, <1>4

\* Its identity is not one of other evidence on record.
LEMMA GenuineIsNew ==
    ASSUME IInv, NEW r \in Requests, NEW e, e.op \in {"capture", "refund"}, Genuine(r, e)
    PROVE  \A old \in fin[r].events : old.id = e.id => old = e
<1> SUFFICES ASSUME NEW old \in fin[r].events, old.id = e.id PROVE old = e
  OBVIOUS
<1>1. <<r, "capture">> \in Operations /\ <<r, "refund">> \in Operations
  BY DEF Operations
<1>2. ProcessorRecord(<<r, "capture">>, proc[<<r, "capture">>])
      /\ ProcessorRecord(<<r, "refund">>, proc[<<r, "refund">>])
  BY <1>1 DEF IInv, ProcessorSound
<1>3. \/ old = ReversalOf(r)
      \/ old \in Issued(<<r, "capture">>, proc[<<r, "capture">>])
      \/ old \in Issued(<<r, "refund">>, proc[<<r, "refund">>])
  BY DEF IInv, RecordsMatch, EventsMatch
<1>4. \/ e = ReversalOf(r)
      \/ e \in Issued(<<r, "capture">>, proc[<<r, "capture">>])
      \/ e \in Issued(<<r, "refund">>, proc[<<r, "refund">>])
  BY DEF Genuine
<1>5. ReversalOf(r).id = <<"capture", "reversal">>
  BY DEF ReversalOf, Evidence
<1>6. ASSUME NEW d \in Issued(<<r, "capture">>, proc[<<r, "capture">>])
      PROVE  d.id \in {<<"capture", "submission">>, <<"capture", "cancellation">>,
                       <<"capture", "resolution">>}
  <2>1. d.id \in {<<<<r, "capture">>[2], "submission">>, <<<<r, "capture">>[2], "cancellation">>,
                  <<<<r, "capture">>[2], "resolution">>}
    BY <1>1, <1>2, IssuedParts
  <2> QED
    BY <2>1
<1>7. ASSUME NEW d \in Issued(<<r, "refund">>, proc[<<r, "refund">>])
      PROVE  d.id \in {<<"refund", "submission">>, <<"refund", "cancellation">>,
                       <<"refund", "resolution">>}
  <2>1. d.id \in {<<<<r, "refund">>[2], "submission">>, <<<<r, "refund">>[2], "cancellation">>,
                  <<<<r, "refund">>[2], "resolution">>}
    BY <1>1, <1>2, IssuedParts
  <2> QED
    BY <2>1
<1>8. CASE old = ReversalOf(r)
  BY <1>4, <1>5, <1>6, <1>7, <1>8
<1>9. CASE old \in Issued(<<r, "capture">>, proc[<<r, "capture">>])
  <2>1. old.id \in {<<"capture", "submission">>, <<"capture", "cancellation">>,
                    <<"capture", "resolution">>}
    BY <1>6, <1>9
  <2>2. e \in Issued(<<r, "capture">>, proc[<<r, "capture">>])
    BY <1>4, <1>5, <1>7, <2>1
  <2> QED
    BY <1>1, <1>2, <1>9, <2>2, IssuedOnce
<1>10. CASE old \in Issued(<<r, "refund">>, proc[<<r, "refund">>])
  <2>1. old.id \in {<<"refund", "submission">>, <<"refund", "cancellation">>,
                    <<"refund", "resolution">>}
    BY <1>7, <1>10
  <2>2. e \in Issued(<<r, "refund">>, proc[<<r, "refund">>])
    BY <1>4, <1>5, <1>6, <2>1
  <2> QED
    BY <1>1, <1>2, <1>10, <2>2, IssuedOnce
<1> QED
  BY <1>3, <1>8, <1>9, <1>10

\* Evidence other than a reversal is never refused: the record and the source
\* both take it.
LEMMA AnswerRecordable ==
    ASSUME IInv, NEW r \in Requests, NEW e, e.op \in {"capture", "refund"}, Genuine(r, e),
           e.outcome # "Reversed"
    PROVE  Recordable(r, e)
<1>1. /\ e \in PaymentEvidence /\ r \in opened
      /\ e.op = "refund" => fin[r].refund # "None" /\ e.outcome # "Voided"
      /\ e.op = "capture" /\ e.outcome # "Voided" => r \in source.dispatched
      /\ e.outcome # "Pending" => proc[<<r, e.op>>] = e
      /\ e.outcome \in PaymentOutcome
  BY GenuineParts
<1>2. <<r, e>> \notin refused
  <2>1. \A x \in refused : x[2].outcome = "Reversed"
    BY DEF IInv, OnlyReversalsRefused
  <2> QED
    BY <2>1
<1>3. CanRecord(fin[r], e)
  BY <1>1, GenuineIsNew DEF CanRecord
<1>4. e.op = "capture" => CanRecordOutcome(source, r, e.outcome)
  <2> SUFFICES ASSUME e.op = "capture" PROVE CanRecordOutcome(source, r, e.outcome)
    OBVIOUS
  <2>1. AttemptMatches(fin[r], source.attempts[r], proc[<<r, "capture">>])
    BY <1>1 DEF IInv, AttemptsMatch
  <2>2. RecordMatches(r, fin[r], proc[<<r, "capture">>], proc[<<r, "refund">>], reversed)
    BY DEF IInv, RecordsMatch
  <2>3. fin[r].capture \in CaptureStatus
    BY FieldTypes DEF IInv
  <2>4. source.attempts[r] # "None"
    BY <2>1, <2>3 DEF AttemptMatches, CaptureStatus
  <2>5. CanAdvance(source.attempts[r], e.outcome)
    <3>1. CASE e.outcome = "Pending"
      BY <3>1 DEF CanAdvance
    <3>2. CASE e.outcome # "Pending"
      <4>1. proc[<<r, "capture">>] = e
        BY <1>1, <3>2
      <4>2. CASE fin[r].capture \in {"Pending", "CancellationRequested"}
        BY <2>1, <4>2 DEF AttemptMatches, CanAdvance
      <4>3. CASE fin[r].capture = "FundingFinalized"
        BY <2>1, <2>2, <4>1, <4>3 DEF AttemptMatches, CanAdvance, RecordMatches, FundingFinalized
      <4>4. CASE fin[r].capture = "Voided"
        BY <2>1, <4>1, <4>4 DEF AttemptMatches, CanAdvance
      <4>5. CASE fin[r].capture = "Reversed"
        BY <2>1, <2>2, <4>1, <4>5 DEF AttemptMatches, CanAdvance, RecordMatches, FundingFinalized
      <4> QED
        BY <2>3, <4>2, <4>3, <4>4, <4>5 DEF CaptureStatus
    <3> QED
      BY <3>1, <3>2
  <2> QED
    BY <1>1, <2>4, <2>5 DEF CanRecordOutcome
<1> QED
  BY <1>2, <1>3, <1>4 DEF Recordable, SourceAccepts

\* The source after an outcome of one capture.
LEMMA OutcomeRecorded ==
    ASSUME TypeOK, NEW r \in Requests, NEW x \in PaymentOutcome
    PROVE  LET s == RecordOutcome(source, r, x)
           IN  /\ s \in Source /\ s.dispatched = source.dispatched
               /\ s.attempts[r] = Advance(source.attempts[r], x)
               /\ \A c \in Requests \ {r} : s.attempts[c] = source.attempts[c]
<1>1. source \in Source /\ r \in Captures /\ Captures = Requests
  BY DispatchAssumption DEF TypeOK
<1>2. Advance(source.attempts[r], x) \in PaymentState \cup {"None"}
  BY <1>1 DEF Advance, Source, PaymentState, PaymentOutcome
<1>3. RecordOutcome(source, r, x).attempts =
        [source.attempts EXCEPT ![r] = Advance(source.attempts[r], x)]
  BY <1>1 DEF RecordOutcome, Source
<1>4. RecordOutcome(source, r, x).dispatched = source.dispatched
  BY <1>1 DEF RecordOutcome, Source
<1>5. RecordOutcome(source, r, x) \in Source
  BY <1>1, <1>2 DEF RecordOutcome, Source
<1> QED
  BY <1>1, <1>2, <1>3, <1>4, <1>5 DEF Source

\* A record that takes genuine evidence still matches the processor.
LEMMA EvidenceMatches ==
    ASSUME IInv, NEW r \in Requests, NEW e, e.op \in {"capture", "refund"}, Genuine(r, e),
           e \notin fin[r].events, CanRecord(fin[r], e)
    PROVE  LET g == RecordPayment(r, fin[r], e)
               c == proc[<<r, "capture">>]
               d == proc[<<r, "refund">>]
           IN  /\ RecordMatches(r, g, c, d, reversed)
               /\ EventsMatch(r, g, c, d, reversed)
               /\ fin[r].refund # "None" => g.refund # "None"
               /\ fin[r].refund = "Confirmed" => g.refund = "Confirmed"
               /\ fin[r].refund = "None" => g.refund \in {"None", "Pending"}
               /\ NothingDue(fin[r], "capture") => NothingDue(g, "capture")
               /\ e.outcome \in {"Settled", "Voided"} => NothingDue(g, e.op)
<1> DEFINE f == fin[r]
           g == RecordPayment(r, fin[r], e)
           c == proc[<<r, "capture">>]
           d == proc[<<r, "refund">>]
<1>1. /\ e \in PaymentEvidence
      /\ e.outcome \in PaymentOutcome
      /\ e.outcome = "Reversed" => e = ReversalOf(r) /\ e.op = "capture" /\ r \in reversed
      /\ e.outcome # "Reversed" =>
            /\ e \in Issued(<<r, e.op>>, proc[<<r, e.op>>])
            /\ e.op = "refund" => fin[r].refund # "None" /\ e.outcome # "Voided"
            /\ e.outcome # "Pending" => proc[<<r, e.op>>] = e
  BY GenuineParts
<1>2. Sound(r, f) /\ f.refund \in RefundStatus /\ f.capture \in CaptureStatus
      /\ RecordMatches(r, f, c, d, reversed) /\ EventsMatch(r, f, c, d, reversed)
  BY FieldTypes DEF IInv, MoneySound, RecordsMatch
<1>3. /\ g.events = f.events \cup {e}
      /\ g.capture = CaptureAfter(f, e)
      /\ e.op = "capture" => g.refund = f.refund \/ (f.refund = "None" /\ g.refund = "Pending")
      /\ e.op = "refund" =>
            g.refund = IF e.outcome = "Settled" /\ f.refund = "Pending"
                       THEN "Confirmed" ELSE f.refund
  BY <1>1, <1>2, RecordedEvidence
<1>4. e.outcome = "Reversed" => FundingFinalized(f)
  BY DEF CanRecord
<1>5. /\ e.op = "capture" /\ e.outcome \in {"Settled", "Voided", "Failed"} => c = e
      /\ e.op = "refund" /\ e.outcome \in {"Settled", "Voided", "Failed"} => d = e
  BY <1>1
<1> HIDE DEF f, g, c, d
<1>6. g.capture \in {f.capture, "FundingFinalized", "Voided", "Reversed"}
  BY <1>3 DEF CaptureAfter
<1>7. NothingDue(f, "capture") => NothingDue(g, "capture")
  BY <1>6 DEF NothingDue
<1>8. e.op = "capture" /\ e.outcome \in {"Settled", "Voided", "Failed"} => NothingDue(g, "capture")
  BY <1>3 DEF CaptureAfter, NothingDue, FundingFinalized
<1>9. RecordMatches(r, g, c, d, reversed)
  <2>1. FundingFinalized(g) => c.outcome = "Settled"
    BY <1>2, <1>3, <1>4, <1>5 DEF RecordMatches, FundingFinalized, CaptureAfter
  <2>2. g.capture = "Reversed" => r \in reversed
    BY <1>1, <1>2, <1>3 DEF RecordMatches, CaptureAfter
  <2>3. g.capture = "Voided" => c.outcome \in {"Voided", "Failed"}
    BY <1>2, <1>3, <1>5 DEF RecordMatches, CaptureAfter
  <2>4. g.refund = "Confirmed" <=>
          f.refund = "Confirmed" \/ (e.op = "refund" /\ e.outcome = "Settled")
    BY <1>1, <1>2, <1>3 DEF RefundStatus, f
  <2>5. g.refund = "Confirmed" <=> \E x \in g.events : x.op = "refund" /\ x.outcome = "Settled"
    BY <1>2, <1>3, <2>4 DEF RecordMatches
  <2>6. g.refund = "Confirmed" => d.outcome = "Settled"
    BY <1>2, <1>5, <2>4 DEF RecordMatches
  <2>7. d.outcome # "unknown" => g.refund # "None"
    BY <1>2, <1>3 DEF RecordMatches
  <2> QED
    BY <2>1, <2>2, <2>3, <2>5, <2>6, <2>7 DEF RecordMatches
<1>10. EventsMatch(r, g, c, d, reversed)
  <2> SUFFICES ASSUME NEW x \in g.events
               PROVE  /\ \/ x = ReversalOf(r) /\ r \in reversed
                         \/ x \in Issued(<<r, "capture">>, c)
                         \/ x \in Issued(<<r, "refund">>, d)
                      /\ x.op = "capture" /\ x.outcome \in {"Settled", "Voided", "Failed"} =>
                            NothingDue(g, "capture")
    BY DEF EventsMatch
  <2>1. CASE x \in f.events
    BY <1>2, <1>7, <2>1 DEF EventsMatch
  <2>2. CASE x = e
    BY <1>1, <1>8, <2>2 DEF c, d
  <2> QED
    BY <1>3, <2>1, <2>2
<1>11. /\ f.refund # "None" => g.refund # "None"
       /\ f.refund = "Confirmed" => g.refund = "Confirmed"
       /\ f.refund = "None" => g.refund \in {"None", "Pending"}
  <2>1. e.op = "refund" => f.refund # "None"
    BY <1>1 DEF f
  <2> QED
    BY <1>1, <1>3, <2>1
<1>12. e.outcome \in {"Settled", "Voided"} => NothingDue(g, e.op)
  <2>1. CASE e.op = "capture"
    BY <1>8, <2>1
  <2>2. CASE e.op = "refund"
    BY <1>1, <1>3, <2>2 DEF NothingDue
  <2> QED
    BY <2>1, <2>2
<1> QED
  BY <1>7, <1>9, <1>10, <1>11, <1>12 DEF f, g, c, d

\* The source takes the same evidence in step with it.
LEMMA EvidenceAttempt ==
    ASSUME IInv, NEW r \in opened, NEW e, e.op = "capture", Genuine(r, e),
           e \notin fin[r].events, CanRecord(fin[r], e)
    PROVE  AttemptMatches(RecordPayment(r, fin[r], e), Advance(source.attempts[r], e.outcome),
                          proc[<<r, "capture">>])
<1> DEFINE f == fin[r]
           g == RecordPayment(r, fin[r], e)
           a == source.attempts[r]
           c == proc[<<r, "capture">>]
<1>1. r \in Requests
  BY DEF IInv, TypeOK
<1>2. /\ e \in PaymentEvidence /\ e.outcome \in PaymentOutcome
      /\ e.outcome \in {"Settled", "Voided", "Failed"} => c = e
  BY <1>1, GenuineParts
<1>3. Sound(r, f) /\ f.capture \in CaptureStatus
      /\ RecordMatches(r, f, c, proc[<<r, "refund">>], reversed) /\ AttemptMatches(f, a, c)
  BY <1>1, FieldTypes DEF IInv, MoneySound, RecordsMatch, AttemptsMatch
<1>4. g.capture = CaptureAfter(f, e)
  BY <1>1, <1>2, <1>3, RecordedEvidence
<1>5. e.outcome = "Reversed" => FundingFinalized(f)
  BY DEF CanRecord
<1>6. /\ FundingFinalized(f) => c.outcome = "Settled"
      /\ f.capture = "Voided" => c.outcome \in {"Voided", "Failed"}
  BY <1>3 DEF RecordMatches
<1> SUFFICES AttemptMatches(g, Advance(a, e.outcome), c)
  OBVIOUS
<1> HIDE DEF f, g, a, c
<1>7. CASE f.capture \in {"Pending", "CancellationRequested"}
  <2>1. a = "Pending" /\ ~FundingFinalized(f) /\ e.outcome # "Reversed"
    BY <1>3, <1>5, <1>7 DEF AttemptMatches, FundingFinalized
  <2>2. Advance(a, e.outcome) = e.outcome
    BY <2>1 DEF Advance
  <2>3. g.capture = CASE e.outcome = "Settled" -> "FundingFinalized"
                      [] e.outcome \in {"Voided", "Failed"} -> "Voided"
                      [] e.outcome = "Pending" -> f.capture
    BY <1>2, <1>4, <2>1 DEF CaptureAfter, PaymentOutcome
  <2> QED
    BY <1>2, <1>7, <2>1, <2>2, <2>3 DEF AttemptMatches, PaymentOutcome
<1>8. CASE f.capture = "FundingFinalized"
  <2>1. a = "Settled" /\ e.outcome \in {"Settled", "Pending", "Reversed"}
    BY <1>2, <1>3, <1>6, <1>8 DEF AttemptMatches, FundingFinalized, PaymentOutcome
  <2>2. Advance(a, e.outcome) = IF e.outcome = "Reversed" THEN "Reversed" ELSE "Settled"
    BY <2>1 DEF Advance
  <2>3. g.capture = IF e.outcome = "Reversed" THEN "Reversed" ELSE "FundingFinalized"
    BY <1>4, <1>8, <2>1 DEF CaptureAfter, FundingFinalized
  <2> QED
    BY <2>2, <2>3 DEF AttemptMatches
<1>9. CASE f.capture = "Voided"
  <2>1. /\ a \in {"Voided", "Failed"} /\ c.outcome = a /\ e.outcome # "Reversed"
        /\ e.outcome # "Settled" /\ ~FundingFinalized(f)
    BY <1>2, <1>3, <1>5, <1>9 DEF AttemptMatches, FundingFinalized
  <2>2. Advance(a, e.outcome) = a
    BY <2>1 DEF Advance
  <2>3. g.capture = "Voided"
    BY <1>4, <1>9, <2>1 DEF CaptureAfter
  <2> QED
    BY <2>1, <2>2, <2>3 DEF AttemptMatches
<1>10. CASE f.capture = "Reversed"
  <2>1. a = "Reversed" /\ FundingFinalized(f)
    BY <1>3, <1>10 DEF AttemptMatches, FundingFinalized
  <2>2. Advance(a, e.outcome) = "Reversed" /\ g.capture = "Reversed"
    BY <1>4, <1>10, <2>1 DEF Advance, CaptureAfter
  <2> QED
    BY <2>2 DEF AttemptMatches
<1> QED
  BY <1>3, <1>7, <1>8, <1>9, <1>10 DEF CaptureStatus

\* What the record takes of the processor's evidence is evidence of an open
\* request that its rules allow, repeated evidence included.
LEMMA EvidenceTaken ==
    ASSUME IInv, NEW r \in Requests, NEW e, e.op \in {"capture", "refund"}, Genuine(r, e),
           Recordable(r, e)
    PROVE  e \in PaymentEvidence /\ r \in opened /\ CanRecord(fin[r], e)
<1>1. /\ e \in PaymentEvidence
      /\ e.outcome \in PaymentOutcome
      /\ e.outcome = "Reversed" => e = ReversalOf(r) /\ e.op = "capture" /\ r \in reversed
      /\ e.outcome # "Reversed" =>
            /\ r \in opened /\ e \in Issued(<<r, e.op>>, proc[<<r, e.op>>])
            /\ e.op = "refund" => fin[r].refund # "None" /\ e.outcome # "Voided"
            /\ e.op = "capture" /\ e.outcome # "Voided" => r \in source.dispatched
            /\ e.outcome # "Pending" => proc[<<r, e.op>>] = e
  BY GenuineParts
<1>2. e \in fin[r].events \/ CanRecord(fin[r], e)
  BY DEF Recordable
<1>3. r \in opened
  <2> SUFFICES ASSUME r \notin opened PROVE FALSE
    OBVIOUS
  <2>1. fin[r].events = {} /\ ~FundingFinalized(fin[r]) /\ e.outcome = "Reversed"
    BY <1>1 DEF IInv, MoneySound, NewFinancials, FundingFinalized
  <2> QED
    BY <1>2, <2>1 DEF CanRecord
<1>4. CanRecord(fin[r], e)
  <2>1. CASE e \in fin[r].events
    <3>1. e.op = "refund" => fin[r].refund # "None" /\ e.outcome # "Voided"
      BY <1>1
    <3> QED
      BY <2>1, <3>1, GenuineIsNew DEF CanRecord
  <2> QED
    BY <1>2, <2>1
<1> QED
  BY <1>1, <1>3, <1>4

\* Everything but the workers after genuine evidence was offered.
LEMMA EvidenceKeeps ==
    ASSUME IInv, NEW r \in Requests, NEW e, e.op \in {"capture", "refund"}, Genuine(r, e),
           ConfirmPayment(r, e), UNCHANGED <<opened, proc, reversed>>
    PROVE  /\ fin' \in [Requests -> Financials] /\ source' \in Source
           /\ source'.dispatched = source.dispatched
           /\ refused' \subseteq Requests \X PaymentEvidence
           /\ item' \in [Items -> WorkItem]
           /\ MoneySound' /\ RecordsMatch' /\ AttemptsMatch' /\ OnlyReversalsRefused' /\ ItemsFit'
           /\ Forward(fin, fin')
           /\ Recordable(r, e) /\ e.outcome \in {"Settled", "Voided"} => NothingDue(fin'[r], e.op)
<1>1. /\ TypeOK /\ MoneySound /\ RecordsMatch /\ AttemptsMatch /\ OnlyReversalsRefused /\ ItemsFit
      /\ source \in Source /\ fin \in [Requests -> Financials]
      /\ refused \subseteq Requests \X PaymentEvidence
  BY DEF IInv, TypeOK
<1>2. /\ e \in PaymentEvidence
      /\ e.outcome \in PaymentOutcome
      /\ e.outcome = "Reversed" => e = ReversalOf(r) /\ e.op = "capture" /\ r \in reversed
      /\ e.outcome # "Reversed" =>
            /\ r \in opened /\ e \in Issued(<<r, e.op>>, proc[<<r, e.op>>])
            /\ e.op = "refund" => fin[r].refund # "None" /\ e.outcome # "Voided"
            /\ e.op = "capture" /\ e.outcome # "Voided" => r \in source.dispatched
            /\ e.outcome # "Pending" => proc[<<r, e.op>>] = e
  BY GenuineParts
<1>3. Sound(r, fin[r]) /\ fin[r].refund \in RefundStatus
  BY <1>1, FieldTypes DEF MoneySound
<1>4. CASE ~Recordable(r, e)
  <2>1. refused' = refused \cup {<<r, e>>} /\ UNCHANGED <<fin, source, item>>
    BY <1>4 DEF ConfirmPayment
  <2>2. e.outcome = "Reversed"
    BY <1>4, AnswerRecordable
  <2>3. OnlyReversalsRefused'
    BY <1>1, <2>1, <2>2 DEF OnlyReversalsRefused
  <2>4. refused' \subseteq Requests \X PaymentEvidence
    BY <1>1, <1>2, <2>1
  <2>5. MoneySound' /\ RecordsMatch' /\ AttemptsMatch' /\ ItemsFit'
    BY <1>1, <2>1 DEF MoneySound, RecordsMatch, AttemptsMatch, ItemsFit
  <2>6. Forward(fin, fin') /\ item' \in [Items -> WorkItem]
    BY <1>1, <2>1, ForwardSame DEF TypeOK
  <2> QED
    BY <1>1, <1>4, <2>1, <2>3, <2>4, <2>5, <2>6
<1>5. CASE Recordable(r, e)
  <2> DEFINE g == RecordPayment(r, fin[r], e)
  <2>1. /\ fin' = [fin EXCEPT ![r] = g]
        /\ source' = IF e.op = "capture" /\ e \notin fin[r].events
                     THEN RecordOutcome(source, r, e.outcome) ELSE source
        /\ item' = Enqueued(WorkCausedBy(r, fin[r], fin'[r]))
        /\ refused' = refused
    BY <1>5 DEF ConfirmPayment
  <2>2. e \in fin[r].events \/ CanRecord(fin[r], e)
    BY <1>5 DEF Recordable
  <2>3. r \in opened
    BY <1>5, EvidenceTaken
  <2>4. e \in fin[r].events => g = fin[r]
    BY DEF RecordPayment
  <2>5. CanRecord(fin[r], e)
    BY <1>5, EvidenceTaken
  <2>6. Sound(r, g) /\ g \in Financials
    BY <1>2, <1>3, <2>5, RecordSound DEF Sound
  <2>7. RecordMatches(r, fin[r], proc[<<r, "capture">>], proc[<<r, "refund">>], reversed)
        /\ EventsMatch(r, fin[r], proc[<<r, "capture">>], proc[<<r, "refund">>], reversed)
    BY <1>1 DEF RecordsMatch
  <2>8. /\ RecordMatches(r, g, proc[<<r, "capture">>], proc[<<r, "refund">>], reversed)
        /\ EventsMatch(r, g, proc[<<r, "capture">>], proc[<<r, "refund">>], reversed)
        /\ fin[r].refund # "None" => g.refund # "None"
        /\ fin[r].refund = "Confirmed" => g.refund = "Confirmed"
        /\ fin[r].refund = "None" => g.refund \in {"None", "Pending"}
        /\ NothingDue(fin[r], "capture") => NothingDue(g, "capture")
        /\ e.outcome \in {"Settled", "Voided"} => NothingDue(g, e.op)
    <3>1. CASE e \notin fin[r].events
      BY <2>5, <3>1, EvidenceMatches
    <3>2. CASE e \in fin[r].events
      <4>1. e.op = "capture" /\ e.outcome \in {"Settled", "Voided"} => NothingDue(fin[r], "capture")
        BY <2>7, <3>2 DEF EventsMatch
      <4>2. e.op = "refund" /\ e.outcome = "Settled" => NothingDue(fin[r], "refund")
        BY <2>7, <3>2 DEF RecordMatches, NothingDue
      <4>3. e.op = "refund" => e.outcome # "Voided"
        BY <2>5 DEF CanRecord
      <4> QED
        BY <2>4, <2>7, <3>2, <4>1, <4>2, <4>3
    <3> QED
      BY <3>1, <3>2
  <2>9. AttemptMatches(g, source'.attempts[r], proc[<<r, "capture">>])
        /\ source' \in Source /\ source'.dispatched = source.dispatched
        /\ \A x \in Requests \ {r} : source'.attempts[x] = source.attempts[x]
    <3>1. CASE e.op = "capture" /\ e \notin fin[r].events
      <4>1. source' = RecordOutcome(source, r, e.outcome)
        BY <2>1, <3>1
      <4>2. /\ source' \in Source /\ source'.dispatched = source.dispatched
            /\ source'.attempts[r] = Advance(source.attempts[r], e.outcome)
            /\ \A x \in Requests \ {r} : source'.attempts[x] = source.attempts[x]
        BY <1>1, <1>2, <4>1, OutcomeRecorded
      <4> QED
        BY <2>3, <2>5, <3>1, <4>2, EvidenceAttempt
    <3>2. CASE e.op = "refund" \/ e \in fin[r].events
      <4>1. source' = source
        BY <2>1, <3>2
      <4>2. AttemptMatches(fin[r], source.attempts[r], proc[<<r, "capture">>])
        BY <1>1, <2>3 DEF AttemptsMatch
      <4>3. g.capture = fin[r].capture
        <5>1. CASE e \in fin[r].events
          BY <2>4, <5>1
        <5>2. CASE e \notin fin[r].events /\ e.op = "refund"
          BY <1>2, <1>3, <5>2, RecordedEvidence DEF CaptureAfter
        <5> QED
          BY <3>2, <5>1, <5>2
      <4> QED
        BY <1>1, <4>1, <4>2, <4>3 DEF AttemptMatches
    <3> QED
      BY <3>1, <3>2
  <2> HIDE DEF g
  <2>10. fin'[r] = g /\ \A x \in Requests \ {r} : fin'[x] = fin[x]
    BY <1>1, <2>1
  <2>11. fin' \in [Requests -> Financials]
    BY <1>1, <2>1, <2>6
  <2>12. Forward(fin, fin')
    BY <2>8, <2>10 DEF Forward
  <2>13. item' \in [Items -> WorkItem] /\ ItemsFit'
    BY <2>1, <2>3, <2>6, <2>8, <2>12, ItemsFollow DEF Financials
  <2>14. MoneySound'
    BY <1>1, <2>3, <2>6, <2>10 DEF MoneySound
  <2>15. RecordsMatch'
    BY <1>1, <2>8, <2>10 DEF RecordsMatch
  <2>16. AttemptsMatch'
    BY <1>1, <2>3, <2>9, <2>10 DEF AttemptsMatch, TypeOK
  <2>17. OnlyReversalsRefused' /\ refused' \subseteq Requests \X PaymentEvidence
    BY <1>1, <2>1 DEF OnlyReversalsRefused
  <2> QED
    BY <2>8, <2>9, <2>10, <2>11, <2>12, <2>13, <2>14, <2>15, <2>16, <2>17
<1> QED
  BY <1>4, <1>5

LEMMA NotifyKeeps == ASSUME IInv, NEW r \in Requests, NotifyReversal(r) PROVE IInv'
<1> DEFINE e == ReversalOf(r)
<1>1. TypeOK /\ ProcessorSound /\ ChargesAreGranted
  BY DEF IInv
<1>2. r \in reversed /\ ConfirmPayment(r, e) /\ UNCHANGED <<opened, worker, proc, reversed, faults>>
  BY DEF NotifyReversal, ReversalOf
<1>3. e.op = "capture" /\ Genuine(r, e)
  BY <1>2 DEF ReversalOf, Evidence, Genuine
<1> HIDE DEF e
<1>4. /\ fin' \in [Requests -> Financials] /\ source' \in Source
      /\ source'.dispatched = source.dispatched
      /\ refused' \subseteq Requests \X PaymentEvidence
      /\ item' \in [Items -> WorkItem]
      /\ MoneySound' /\ RecordsMatch' /\ AttemptsMatch' /\ OnlyReversalsRefused' /\ ItemsFit'
      /\ Forward(fin, fin')
  BY <1>2, <1>3, EvidenceKeeps
<1>5. WorkersFit'
  BY <1>2, <1>4, OthersFit DEF WorkersFit
<1>6. TypeOK' /\ ProcessorSound' /\ ChargesAreGranted'
  BY <1>1, <1>2, <1>4 DEF TypeOK, ProcessorSound, ChargesAreGranted
<1> QED
  BY <1>4, <1>5, <1>6 DEF IInv

LEMMA ConfirmKeeps == ASSUME IInv, NEW w \in Workers, Confirm(w) PROVE IInv'
<1> DEFINE i == worker[w].item
           o == OperationOf(i)
           r == i[1]
           e == worker[w].receipt
<1>1. TypeOK /\ ProcessorSound /\ ChargesAreGranted /\ worker[w].step = "confirm"
  BY DEF IInv, Confirm
<1>2. /\ ConfirmPayment(r, e) /\ Conclude(w, ResultOf(r, e))
      /\ UNCHANGED <<opened, proc, reversed, faults>>
  BY DEF Confirm
<1>3. /\ i \in Items /\ r \in Requests /\ r \in opened /\ o \in Operations
      /\ o[1] = r /\ o[2] = IF i[2] = "refund" THEN "refund" ELSE "capture"
      /\ o = <<r, o[2]>>
      /\ i[2] \in {"capture", "cancel", "refund"}
      /\ ProcessorRecord(o, proc[o])
      /\ o[2] = "refund" => fin[r].refund # "None"
      /\ e \in Issued(o, proc[o])
      /\ i[2] # "refund" /\ e.outcome # "Voided" => r \in source.dispatched
  BY <1>1, WorkerKnows DEF WorkerFits
<1>4. e \in PaymentEvidence /\ e.op = o[2] /\ e.outcome # "Reversed"
      /\ e.outcome \in {"Settled", "Pending", "Failed", "Voided"}
  BY <1>3, IssuedParts
<1> HIDE DEF o, e
<1>5. Genuine(r, e) /\ e.op \in {"capture", "refund"}
  BY <1>3, <1>4 DEF Genuine
<1>6. Recordable(r, e)
  BY <1>3, <1>4, <1>5, AnswerRecordable
<1>7. /\ fin' \in [Requests -> Financials] /\ source' \in Source
      /\ source'.dispatched = source.dispatched
      /\ refused' \subseteq Requests \X PaymentEvidence
      /\ item' \in [Items -> WorkItem]
      /\ MoneySound' /\ RecordsMatch' /\ AttemptsMatch' /\ OnlyReversalsRefused' /\ ItemsFit'
      /\ Forward(fin, fin')
      /\ e.outcome \in {"Settled", "Voided"} => NothingDue(fin'[r], e.op)
  BY <1>2, <1>3, <1>5, <1>6, EvidenceKeeps
<1>8. /\ ResultOf(r, e) \in {"complete", "ready", "blocked"}
      /\ ResultOf(r, e) = "complete" => e.outcome \in {"Settled", "Voided"}
  BY <1>4, <1>6 DEF ResultOf
<1>9. PICK v \in Worker : /\ worker' = [worker EXCEPT ![w] = v] /\ v.step = "finish"
                          /\ v.result = ResultOf(r, e) /\ v.item = i
  BY <1>1, <1>2, <1>8, Concludes DEF Result
<1>10. worker' \in [Workers -> Worker] /\ worker'[w] = v
       /\ \A u \in Workers \ {w} : worker'[u] = worker[u]
  BY <1>1, <1>9 DEF TypeOK
<1>11. v.result = "complete" => NothingDue(fin'[r], i[2])
  BY <1>3, <1>4, <1>7, <1>8, <1>9 DEF NothingDue
<1>12. o[2] = "refund" => fin'[r].refund # "None"
  BY <1>3, <1>7 DEF Forward
<1>13. WorkerFits(v, opened, fin', source'.dispatched, proc)
  BY <1>3, <1>8, <1>9, <1>11, <1>12 DEF WorkerFits
<1>14. \A u \in Workers \ {w} : WorkerFits(worker'[u], opened', fin', source'.dispatched, proc')
  BY <1>2, <1>7, <1>10, OthersFit
<1>15. WorkersFit'
  BY <1>2, <1>10, <1>13, <1>14 DEF WorkersFit
<1>16. TypeOK' /\ ProcessorSound' /\ ChargesAreGranted'
  BY <1>1, <1>2, <1>7, <1>10 DEF TypeOK, ProcessorSound, ChargesAreGranted
<1> QED
  BY <1>7, <1>15, <1>16 DEF IInv

-----------------------------------------------------------------------------
(***************************************************************************)
(* The host and the payer's other payments.                                *)
(***************************************************************************)

LEMMA ResumeKeeps == ASSUME IInv, NEW i \in Items, Resume(i) PROVE IInv'
<1> DEFINE s == [item[i] EXCEPT !.status = "ready"]
<1>1. TypeOK /\ ItemsFit
  BY DEF IInv
<1>2. item[i] \in WorkItem /\ s \in WorkItem /\ s.status = "ready"
  BY <1>1 DEF TypeOK, WorkItem
<1>3. /\ item[i].status = "blocked" /\ item' = [item EXCEPT ![i] = s]
      /\ UNCHANGED <<opened, fin, source, refused, worker, proc, reversed, faults>>
  BY <1>1 DEF Resume, TypeOK
<1> HIDE DEF s
<1>4. item' \in [Items -> WorkItem] /\ item'[i] = s /\ \A j \in Items \ {i} : item'[j] = item[j]
  BY <1>1, <1>2, <1>3 DEF TypeOK
<1>5. ItemFits(i, s.status, opened, fin)
  <2>1. ItemFits(i, item[i].status, opened, fin)
    BY <1>1 DEF ItemsFit
  <2> QED
    BY <1>2, <1>3, <2>1 DEF ItemFits
<1>6. \A j \in Items : ItemFits(j, item'[j].status, opened, fin)
  BY <1>1, <1>4, <1>5 DEF ItemsFit
<1>7. ItemsFit' /\ TypeOK'
  BY <1>1, <1>3, <1>4, <1>6 DEF ItemsFit, TypeOK
<1>8. /\ MoneySound' /\ ProcessorSound' /\ RecordsMatch' /\ AttemptsMatch'
      /\ ChargesAreGranted' /\ OnlyReversalsRefused' /\ WorkersFit'
  BY <1>3 DEF IInv, MoneySound, ProcessorSound, RecordsMatch, AttemptsMatch, ChargesAreGranted,
              OnlyReversalsRefused, WorkersFit
<1> QED
  BY <1>7, <1>8 DEF IInv

\* A restriction of the source, or its end.
LEMMA RestrictionKeeps == ASSUME IInv, RestrictElsewhere \/ Reverify PROVE IInv'
<1>1. source \in Source /\ TypeOK
  BY DEF IInv, TypeOK
<1>2. /\ source' \in Source /\ source'.attempts = source.attempts
      /\ source'.dispatched = source.dispatched
  BY <1>1 DEF RestrictElsewhere, Reverify, Reverified, Source
<1>3. UNCHANGED <<opened, fin, refused, item, worker, proc, reversed>> /\ faults' \in Nat
  BY <1>1 DEF RestrictElsewhere, Reverify, Fault, TypeOK
<1>4. TypeOK'
  BY <1>1, <1>2, <1>3 DEF TypeOK
<1>5. /\ MoneySound' /\ ProcessorSound' /\ RecordsMatch' /\ AttemptsMatch'
      /\ ChargesAreGranted' /\ OnlyReversalsRefused' /\ WorkersFit' /\ ItemsFit'
  BY <1>2, <1>3 DEF IInv, MoneySound, ProcessorSound, RecordsMatch, AttemptsMatch,
                    ChargesAreGranted, OnlyReversalsRefused, WorkersFit, ItemsFit
<1> QED
  BY <1>4, <1>5 DEF IInv

\* The processor reverses a settled capture.
LEMMA ReverseKeeps == ASSUME IInv, NEW r \in Requests, Reverse(r) PROVE IInv'
<1>1. /\ reversed' = reversed \cup {r}
      /\ UNCHANGED <<opened, fin, source, refused, item, worker, proc, faults>>
  BY DEF Reverse
<1>2. TypeOK'
  BY <1>1 DEF IInv, TypeOK
<1>3. RecordsMatch'
  <2> SUFFICES ASSUME NEW x \in Requests
               PROVE  /\ RecordMatches(x, fin[x], proc[<<x, "capture">>], proc[<<x, "refund">>],
                                       reversed')
                      /\ EventsMatch(x, fin[x], proc[<<x, "capture">>], proc[<<x, "refund">>],
                                     reversed')
    BY <1>1 DEF RecordsMatch
  <2>1. /\ RecordMatches(x, fin[x], proc[<<x, "capture">>], proc[<<x, "refund">>], reversed)
        /\ EventsMatch(x, fin[x], proc[<<x, "capture">>], proc[<<x, "refund">>], reversed)
    BY DEF IInv, RecordsMatch
  <2>2. reversed \subseteq reversed'
    BY <1>1
  <2>3. RecordMatches(x, fin[x], proc[<<x, "capture">>], proc[<<x, "refund">>], reversed')
    BY <2>1, <2>2 DEF RecordMatches
  <2>4. EventsMatch(x, fin[x], proc[<<x, "capture">>], proc[<<x, "refund">>], reversed')
    BY <2>1, <2>2 DEF EventsMatch
  <2> QED
    BY <2>3, <2>4
<1>4. /\ MoneySound' /\ ProcessorSound' /\ AttemptsMatch'
      /\ ChargesAreGranted' /\ OnlyReversalsRefused' /\ WorkersFit' /\ ItemsFit'
  BY <1>1 DEF IInv, MoneySound, ProcessorSound, AttemptsMatch, ChargesAreGranted,
              OnlyReversalsRefused, WorkersFit, ItemsFit
<1> QED
  BY <1>2, <1>3, <1>4 DEF IInv

-----------------------------------------------------------------------------
(***************************************************************************)
(* What follows of every reachable state.                                  *)
(***************************************************************************)

LEMMA NextKeeps == IInv /\ [Next]_vars => IInv'
<1> SUFFICES ASSUME IInv, [Next]_vars PROVE IInv'
  OBVIOUS
<1>1. ASSUME NEW r \in Requests,
             \/ Open(r) \/ Reverse(r) \/ NotifyReversal(r)
             \/ \E s \in RequestSettlement : SettleRequest(r, s)
      PROVE  IInv'
  BY <1>1, OpenKeeps, ReverseKeeps, NotifyKeeps, SettleRequestKeeps
<1>2. ASSUME NEW w \in Workers, WorkerStep(w) PROVE IInv'
  BY <1>2, AuthorizeKeeps, LookupKeeps, CancelKeeps, ConfirmKeeps, FinishKeeps, SubmitKeeps
     DEF WorkerStep
<1>3. ASSUME NEW w \in Workers, (\E i \in Items : Claim(w, i)) \/ Unavailable(w) \/ Crash(w)
      PROVE  IInv'
  BY <1>3, ClaimKeeps, UnavailableKeeps, CrashKeeps
<1>4. CASE (\E i \in Items : Resume(i)) \/ RestrictElsewhere \/ Reverify
  BY <1>4, ResumeKeeps, RestrictionKeeps
<1>5. ASSUME NEW o \in Operations, NEW outcome \in {"Settled", "Failed", "Voided"},
             Resolve(o, outcome)
      PROVE  IInv'
  BY <1>5, ResolveKeeps
<1>6. CASE UNCHANGED vars
  BY <1>6 DEF vars, IInv, TypeOK, MoneySound, ProcessorSound, RecordsMatch, AttemptsMatch,
              ChargesAreGranted, OnlyReversalsRefused, WorkersFit, ItemsFit
<1> QED
  BY <1>1, <1>2, <1>3, <1>4, <1>5, <1>6 DEF Next

LEMMA AlwaysFits == Spec => []IInv
  BY InitFits, NextKeeps, PTL DEF Spec

\* Records, queue, workers and processor keep their shape.
THEOREM DispatchTypeCorrect == Spec => []TypeOK
<1>1. IInv => TypeOK
  BY DEF IInv
<1> QED
  BY <1>1, AlwaysFits, PTL

\* What the engine has on record is what the processor did, whatever answer was
\* lost, late or repeated by another worker.
THEOREM RecordsFollowProcessor == Spec => []RecordsMatchProcessor
<1>1. IInv => RecordsMatchProcessor
  BY DEF IInv, RecordsMatch, RecordMatches, RecordsMatchProcessor
<1> QED
  BY <1>1, AlwaysFits, PTL

\* The payer's source takes every piece of evidence the record takes, no
\* command but a reversal's is refused for good, and no charge was sent without
\* a committed grant.
THEOREM SourceInStep == Spec => []SourceAgrees
<1>1. IInv => SourceAgrees
  <2> SUFFICES ASSUME IInv PROVE SourceMatchesFinancials /\ ChargesAreGranted
    BY DEF SourceAgrees
  <2>1. AttemptsMatch /\ OnlyReversalsRefused /\ ChargesAreGranted
    BY DEF IInv
  <2>2. SourceMatchesFinancials
    BY <2>1 DEF AttemptsMatch, AttemptMatches, OnlyReversalsRefused, SourceMatchesFinancials
  <2> QED
    BY <2>1, <2>2
<1> QED
  BY <1>1, AlwaysFits, PTL

\* No operation that is still to be executed is ever without work: an item is
\* complete only when nothing of its kind is due.
THEOREM WorkForObligations == Spec => []ObligationHasWork
<1>1. IInv => ObligationHasWork
  <2> SUFFICES ASSUME IInv, NEW i \in Items, i[1] \in opened,
                      PendingPayment(OperationOf(i)) # "none"
               PROVE  \E j \in Items : /\ OperationOf(j) = OperationOf(i)
                                       /\ item[j].status \in {"ready", "running", "blocked"}
    BY DEF ObligationHasWork
  <2> DEFINE o == OperationOf(i)
  <2>1. /\ i[1] \in Requests /\ o = <<i[1], o[2]>> /\ o[2] \in {"capture", "refund"}
        /\ o \in Items /\ OperationOf(o) = o /\ o[1] = i[1]
    BY DEF Items, OperationOf
  <2>2. ItemFits(o, item[o].status, opened, fin) /\ item[o] \in WorkItem
    BY <2>1 DEF IInv, ItemsFit, TypeOK
  <2>3. PendingPayment(o) # "none"
    OBVIOUS
  <2> HIDE DEF o
  <2>4. ~NothingDue(fin[o[1]], o[2])
    BY <2>1, <2>3 DEF PendingPayment, NothingDue
  <2>5. o[2] = "refund" => fin[o[1]].refund # "None"
    BY <2>1, <2>3 DEF PendingPayment
  <2>6. item[o].status # "complete" /\ item[o].status # "none"
    BY <2>1, <2>2, <2>4, <2>5 DEF ItemFits
  <2>7. item[o].status \in {"ready", "running", "blocked"}
    BY <2>2, <2>6 DEF WorkItem
  <2> QED
    BY <2>1, <2>7 DEF o
<1> QED
  BY <1>1, AlwaysFits, PTL

\* A worker brings only evidence of the processor, for the operation it claimed.
LEMMA WorkerBringsEvidence ==
    ASSUME IInv, NEW w \in Workers, Confirm(w)
    PROVE  /\ worker[w].item[1] \in Requests
           /\ worker[w].receipt.op \in {"capture", "refund"}
           /\ Genuine(worker[w].item[1], worker[w].receipt)
<1> DEFINE i == worker[w].item
           o == OperationOf(i)
           r == i[1]
           e == worker[w].receipt
<1>1. worker[w].step = "confirm"
  BY DEF Confirm
<1>2. /\ i \in Items /\ r \in Requests /\ r \in opened /\ o \in Operations
      /\ o[1] = r /\ o[2] = IF i[2] = "refund" THEN "refund" ELSE "capture"
      /\ o = <<r, o[2]>>
      /\ ProcessorRecord(o, proc[o])
      /\ o[2] = "refund" => fin[r].refund # "None"
      /\ e \in Issued(o, proc[o])
      /\ i[2] # "refund" /\ e.outcome # "Voided" => r \in source.dispatched
  BY <1>1, WorkerKnows DEF WorkerFits
<1>3. e \in PaymentEvidence /\ e.op = o[2] /\ e.outcome # "Reversed"
  BY <1>2, IssuedParts
<1> HIDE DEF o, e
<1>4. Genuine(r, e) /\ e.op \in {"capture", "refund"}
  BY <1>2, <1>3 DEF Genuine
<1> QED
  BY <1>2, <1>4 DEF e

\* The engine with its workers implements the specification of the payments:
\* a worker's confirmation, whatever came between it and the processor's answer,
\* is a piece of evidence or nothing, so every theorem about RequestPayments
\* holds of records the workers write.
THEOREM DispatchKeepsPayments == Spec => PaymentsSpec
<1>1. Init => Payments!Init
  BY SameMoney DEF Init, Payments!Init
<1>2. IInv /\ [Next]_vars => [Payments!Next]_Payments!vars
  <2> SUFFICES ASSUME IInv, [Next]_vars PROVE Payments!Next \/ UNCHANGED <<opened, fin>>
    BY DEF Payments!vars
  <2>1. ASSUME NEW r \in Requests, NEW e, e.op \in {"capture", "refund"}, Genuine(r, e),
               ConfirmPayment(r, e), opened' = opened
        PROVE  Payments!Next \/ UNCHANGED <<opened, fin>>
    <3>1. CASE Recordable(r, e)
      <4>1. e \in PaymentEvidence /\ r \in opened /\ CanRecord(fin[r], e)
        BY <2>1, <3>1, EvidenceTaken
      <4>2. fin' = [fin EXCEPT ![r] = RecordPayment(r, @, e)]
        BY <2>1, <3>1 DEF ConfirmPayment
      <4>3. Payments!RecordEvidence(r, e)
        BY SameMoney, <2>1, <4>1, <4>2 DEF Payments!RecordEvidence
      <4> QED
        BY SameMoney, <4>1, <4>3 DEF Payments!Next
    <3>2. CASE ~Recordable(r, e)
      BY <2>1, <3>2 DEF ConfirmPayment
    <3> QED
      BY <3>1, <3>2
  <2>2. ASSUME NEW w \in Workers, Confirm(w) PROVE Payments!Next \/ UNCHANGED <<opened, fin>>
    <3>1. ConfirmPayment(worker[w].item[1], worker[w].receipt) /\ opened' = opened
      BY <2>2 DEF Confirm
    <3> QED
      BY <2>1, <2>2, <3>1, WorkerBringsEvidence
  <2>3. ASSUME NEW r \in Requests, NotifyReversal(r)
        PROVE  Payments!Next \/ UNCHANGED <<opened, fin>>
    <3>1. /\ r \in reversed /\ ConfirmPayment(r, ReversalOf(r)) /\ opened' = opened
      BY <2>3 DEF NotifyReversal, ReversalOf
    <3>2. ReversalOf(r).op = "capture" /\ Genuine(r, ReversalOf(r))
      BY <3>1 DEF ReversalOf, Evidence, Genuine
    <3> QED
      BY <2>1, <3>1, <3>2
  <2>4. ASSUME NEW r \in Requests, Open(r) PROVE Payments!Next
    <3>1. Payments!Open(r)
      BY <2>4 DEF Open, Payments!Open
    <3> QED
      BY <3>1 DEF Payments!Next
  <2>5. ASSUME NEW r \in Requests, NEW s \in RequestSettlement, SettleRequest(r, s)
        PROVE  Payments!Next
    <3> DEFINE ending == [x \in {r} |-> s]
    <3>1. /\ r \in opened /\ CanSettle(fin[r], s) /\ opened' = opened
          /\ fin' = [fin EXCEPT ![r] = Settle(r, fin[r], s)] /\ fin \in [Requests -> Financials]
      BY <2>5 DEF SettleRequest, IInv, TypeOK
    <3>2. DOMAIN ending = {r} /\ ending[r] = s /\ ending \in [{r} -> RequestSettlement]
      OBVIOUS
    <3> HIDE DEF ending
    <3>3. fin' = [x \in Requests |->
                     IF x \in DOMAIN ending THEN Settle(x, fin[x], ending[x]) ELSE fin[x]]
      BY <3>1, <3>2
    <3>4. Payments!SettleRequests(ending)
      BY SameMoney, <3>1, <3>2, <3>3 DEF Payments!SettleRequests
    <3> QED
      BY SameMoney, <3>2, <3>4 DEF Payments!Next
  <2>6. ASSUME NEW w \in Workers,
               \/ \E i \in Items : Claim(w, i)
               \/ Authorize(w) \/ Lookup(w) \/ Cancel(w) \/ Finish(w) \/ Unavailable(w) \/ Crash(w)
               \/ \E outcome \in {"Settled", "Pending", "Failed"} : Submit(w, outcome)
        PROVE  UNCHANGED <<opened, fin>>
    BY <2>6 DEF Claim, Authorize, Lookup, Cancel, Finish, Unavailable, Crash, Submit
  <2>7. CASE \/ \E i \in Items : Resume(i)
             \/ RestrictElsewhere \/ Reverify
             \/ \E o \in Operations, outcome \in {"Settled", "Failed", "Voided"} : Resolve(o, outcome)
             \/ \E r \in Requests : Reverse(r)
             \/ UNCHANGED vars
    BY <2>7 DEF Resume, RestrictElsewhere, Reverify, Resolve, Reverse, vars
  <2> QED
    BY <2>2, <2>3, <2>4, <2>5, <2>6, <2>7 DEF Next, WorkerStep
<1> QED
  BY <1>1, <1>2, AlwaysFits, PTL DEF Spec, PaymentsSpec, Payments!Spec

\* So what holds of the records whatever the processor reports holds of the
\* engine's: they load, owe what their outcomes promise, balance, overdraw no
\* account and hold a reversed forfeit, and no outcome is ever replaced.
THEOREM EngineKeepsRecords ==
    Spec => /\ [](StoredRecordLoads /\ OutcomeSetsRefund /\ BooksMatchStatus)
            /\ [](NoOverdraft /\ ReversedForfeitHeld)
            /\ SettlementIsFinal
BY DispatchKeepsPayments, StoredRecordsLoad, RefundFollowsOutcome, BooksFollowStatus,
   LedgerNeverRefuses, ReversalHoldsForfeit, OutcomeIsFinal, PTL DEF PaymentsSpec
=============================================================================
