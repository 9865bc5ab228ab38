------------------------ MODULE CustomerRequestsProofs ------------------------
(***************************************************************************)
(* Theorems on customer requests that overlap, for any number of requests, *)
(* any endpoints, every MaxIds and every set of nationalities: types, what *)
(* onboarding and approval promise however the transactions interleave,    *)
(* and that one request at a time is the serial life of the customer.      *)
(***************************************************************************)
EXTENDS CustomerRequests, TLAPS

-----------------------------------------------------------------------------
(***************************************************************************)
(* Types.                                                                  *)
(***************************************************************************)
LEMMA NewCustomerType == NewCustomer \in View
  BY DEF NewCustomer, View, KycStatus, RiskTier, CaseState, Funds, FreezeState

LEMMA ScoredTiersType == ScoredTiers \subseteq RiskTier
  BY DEF ScoredTiers, ScoreCustomerRisk, RiskTier

(* Every handler turns a view into a view. *)
LEMMA PatchType ==
  ASSUME NEW v \in View, NEW status \in KycStatus, NEW tier \in RiskTier
  PROVE  Patch(v, status, tier) \in View
  BY DEF Patch, View

LEMMA VerifyIdentityType ==
  ASSUME NEW v \in View, NEW answer
  PROVE  VerifyIdentity(v, answer) \in View
  BY DEF VerifyIdentity, View, KycStatus

LEMMA ScoreRiskType ==
  ASSUME NEW v \in View, NEW tier \in RiskTier
  PROVE  ScoreRisk(v, tier) \in View
<1>1. StatusAfterScore(v.status, tier) \in KycStatus
  BY DEF StatusAfterScore, View, KycStatus
<1>2. QED
  BY <1>1 DEF ScoreRisk, View

LEMMA RunKycPipelineType ==
  ASSUME NEW v \in View, NEW hasCnic, NEW answer, NEW tier \in RiskTier
  PROVE  RunKycPipeline(v, hasCnic, answer, tier) \in View
  BY VerifyIdentityType, ScoreRiskType DEF RunKycPipeline

LEMMA UploadStoredType ==
  ASSUME NEW v \in View, NEW kind \in DocKind, NEW ocrPass
  PROVE  UploadStored(v, kind, ocrPass) \in View
  BY DEF UploadStored, View, KycStatus

LEMMA FaceMatchType ==
  ASSUME NEW v \in View, NEW kind, NEW faceOk
  PROVE  FaceMatch(v, kind, faceOk) \in View
  BY DEF FaceMatch, View, KycStatus

LEMMA StartEddType ==
  ASSUME NEW v \in View, NEW id
  PROVE  StartEdd(v, id) \in View
  BY DEF StartEdd, View, KycStatus, CaseState

LEMMA SubmitSourceOfFundsType ==
  ASSUME NEW v \in View, NEW verified
  PROVE  SubmitSourceOfFunds(v, verified) \in View
  BY DEF SubmitSourceOfFunds, View, Funds

LEMMA DecideEddType ==
  ASSUME NEW v \in View, NEW verdict \in {"approved", "rejected"}
  PROVE  DecideEdd(v, verdict) \in View
  BY DEF DecideEdd, View, KycStatus, CaseState

LEMMA FreezeType ==
  ASSUME NEW v \in View, NEW id
  PROVE  Freeze(v, id) \in View
  BY DEF Freeze, View, KycStatus, FreezeState

LEMMA ReportFreezeType ==
  ASSUME NEW v \in View
  PROVE  ReportFreezeToFmu(v) \in View
  BY DEF ReportFreezeToFmu, View, FreezeState

LEMMA UnfreezeType ==
  ASSUME NEW v \in View, NEW reason
  PROVE  Unfreeze(v, reason) \in View
  BY DEF Unfreeze, View, KycStatus, FreezeState

(* What a session writes and reads is a view. *)
LEMMA WriteType ==
  ASSUME NEW now \in View, NEW seen \in View, NEW new \in View
  PROVE  Write(now, seen, new) \in View
<1>1. /\ Rows(now.cases, seen.cases, new.cases) \in [Id -> CaseState]
      /\ Rows(now.funds, seen.funds, new.funds) \in [Id -> Funds]
      /\ Rows(now.freezes, seen.freezes, new.freezes) \in [Id -> FreezeState]
  BY DEF Rows, Column, View
<1>2. QED
  BY <1>1 DEF Write, Column, View

LEMMA LoadedType == ASSUME NEW v \in View PROVE Loaded(v) \in View
  BY NewCustomerType DEF Loaded, View

LEMMA RelatedType == ASSUME cust \in View, NEW v \in View PROVE Related(v) \in View
  BY DEF Related, View

LEMMA KindOfType == ASSUME NEW op PROVE KindOf(op) \in DocKind
  BY DEF KindOf, DocKind

(* What a handler leaves in its session: w, of the values v it has read.   *)
(* It may complete the liveness check only with both documents, approves   *)
(* only with the EDD case, and touches a case only together with the status*)
Moves(op, v, w) ==
  /\ w.docs = v.docs /\ (v.patched => w.patched)
  /\ \/ w.status = v.status \/ w.patched \/ w.status \notin Serial!PastLiveness
     \/ v.status \in Serial!PastLiveness
     \/ op \in Uploads /\ {"id", "selfie"} \subseteq w.docs \cup {KindOf(op)}
  /\ w.cases # v.cases => w.status # v.status /\ op \notin Uploads
  /\ w.status = "approved" /\ v.status # "approved" /\ ~w.patched
       => \E i \in Id : v.cases[i] = "pending" /\ w.cases[i] = "approved"

LEMMA PatchMoves ==
  ASSUME NEW op, NEW v \in View, NEW status \in KycStatus, NEW tier \in RiskTier
  PROVE  Moves(op, v, Patch(v, status, tier))
  BY DEF Moves, Patch, View

LEMMA VerifyIdentityMoves ==
  ASSUME NEW op, NEW v \in View, NEW answer
  PROVE  Moves(op, v, VerifyIdentity(v, answer))
  BY DEF Moves, VerifyIdentity, View, Serial!PastLiveness

LEMMA ScoreRiskMoves ==
  ASSUME NEW op, NEW v \in View, NEW tier \in RiskTier
  PROVE  Moves(op, v, ScoreRisk(v, tier))
<1>1. LET s == StatusAfterScore(v.status, tier)
      IN  s = v.status \/ (v.status \in {"liveness_checked", "risk_scored"} /\ s # "approved")
  BY DEF StatusAfterScore, View, KycStatus
<1>2. QED
  BY <1>1 DEF Moves, ScoreRisk, View, Serial!PastLiveness

LEMMA RunKycPipelineMoves ==
  ASSUME NEW op, NEW v \in View, NEW hasCnic, NEW answer, NEW tier \in RiskTier
  PROVE  Moves(op, v, RunKycPipeline(v, hasCnic, answer, tier))
<1>1. CASE NeedsNadra(v, hasCnic)
  <2>1. VerifyIdentity(v, answer).status # "liveness_checked"
    BY <1>1 DEF NeedsNadra, VerifyIdentity, View
  <2>2. QED
    BY <1>1, <2>1, VerifyIdentityMoves DEF RunKycPipeline
<1>2. CASE ~NeedsNadra(v, hasCnic) /\ v.status = "liveness_checked"
  BY <1>2, ScoreRiskMoves DEF RunKycPipeline
<1>3. CASE ~NeedsNadra(v, hasCnic) /\ v.status # "liveness_checked"
  BY <1>3 DEF RunKycPipeline, Moves
<1>4. QED
  BY <1>1, <1>2, <1>3

LEMMA FaceMatchMoves ==
  ASSUME NEW op \in Uploads, NEW v \in View, NEW faceOk
  PROVE  Moves(op, v, FaceMatch(v, KindOf(op), faceOk))
  BY DEF Moves, FaceMatch, View, Serial!PastLiveness, Uploads, KindOf

LEMMA StartEddMoves ==
  ASSUME NEW op, op \notin Uploads, NEW v \in View, NEW id, CanStartEdd(v)
  PROVE  Moves(op, v, StartEdd(v, id))
  BY DEF Moves, CanStartEdd, StartEdd, View, Serial!PastLiveness

LEMMA SubmitSourceOfFundsMoves ==
  ASSUME NEW op, NEW v \in View, NEW verified
  PROVE  Moves(op, v, SubmitSourceOfFunds(v, verified))
  BY DEF Moves, SubmitSourceOfFunds, View

LEMMA DecideEddMoves ==
  ASSUME NEW op, op \notin Uploads, NEW v \in View, NEW verdict \in {"approved", "rejected"},
         CanDecideEdd(v)
  PROVE  Moves(op, v, DecideEdd(v, verdict))
<1>1. PICK i \in Id : Cases(v) = {i} /\ v.cases[i] = "pending"
  BY DEF CanDecideEdd, HasOneCase
<1>2. DecideEdd(v, verdict).cases[i] = verdict
  BY <1>1 DEF DecideEdd, View
<1>3. /\ DecideEdd(v, verdict).status = verdict /\ DecideEdd(v, verdict).docs = v.docs
      /\ DecideEdd(v, verdict).patched = v.patched
      /\ v.status = "edd_in_progress"
  BY DEF DecideEdd, CanDecideEdd, View
<1>4. QED
  BY <1>1, <1>2, <1>3 DEF Moves, Serial!PastLiveness

LEMMA FreezeMoves ==
  ASSUME NEW op, NEW v \in View, NEW id
  PROVE  Moves(op, v, Freeze(v, id))
  BY DEF Moves, Freeze, View, Serial!PastLiveness

LEMMA ReportFreezeMoves ==
  ASSUME NEW op, NEW v \in View
  PROVE  Moves(op, v, ReportFreezeToFmu(v))
  BY DEF Moves, ReportFreezeToFmu, View

LEMMA UnfreezeMoves ==
  ASSUME NEW op, NEW v \in View, NEW reason
  PROVE  Moves(op, v, Unfreeze(v, reason))
  BY DEF Moves, Unfreeze, View, Serial!PastLiveness

(* Every handler ends by committing a view that it may leave.              *)
LEMMA HandlerEnds ==
  ASSUME TypeOK, NEW r \in Req, Handler(r)
  PROVE  /\ req[r].pc = "read"
         /\ \E w \in View : Finish(r, w) /\ Moves(req[r].op, req[r].new, w)
<1>1. req[r].new \in View
  BY DEF TypeOK, Request
<1>2. CASE PatchCustomer(r)
  BY <1>1, <1>2, PatchType, PatchMoves DEF PatchCustomer, Ready
<1>3. CASE VerifyNadra(r)
  BY <1>1, <1>3, VerifyIdentityType, VerifyIdentityMoves DEF VerifyNadra, Ready
<1>4. CASE ScoreRiskRequest(r)
  BY <1>1, <1>4, ScoreRiskType, ScoreRiskMoves, ScoredTiersType DEF ScoreRiskRequest, Ready
<1>5. CASE RunPipeline(r)
  BY <1>1, <1>5, RunKycPipelineType, RunKycPipelineMoves, ScoredTiersType DEF RunPipeline, Ready
<1>6. CASE UploadDocument(r)
  BY <1>1, <1>6, FaceMatchType, FaceMatchMoves DEF UploadDocument, Ready
<1>7. CASE StartEddRequest(r)
  BY <1>1, <1>7, StartEddType, StartEddMoves DEF StartEddRequest, Ready, Uploads
<1>8. CASE SubmitFunds(r)
  BY <1>1, <1>8, SubmitSourceOfFundsType, SubmitSourceOfFundsMoves DEF SubmitFunds, Ready
<1>9. CASE ApproveEdd(r)
  BY <1>1, <1>9, DecideEddType, DecideEddMoves DEF ApproveEdd, Ready, Uploads
<1>10. CASE RejectEdd(r)
  BY <1>1, <1>10, DecideEddType, DecideEddMoves DEF RejectEdd, Ready, Uploads
<1>11. CASE FreezeCustomer(r)
  BY <1>1, <1>11, FreezeType, FreezeMoves DEF FreezeCustomer, Ready
<1>12. CASE ReportFreeze(r)
  BY <1>1, <1>12, ReportFreezeType, ReportFreezeMoves DEF ReportFreeze, Ready
<1>13. CASE UnfreezeCustomer(r)
  BY <1>1, <1>13, UnfreezeType, UnfreezeMoves DEF UnfreezeCustomer, Ready
<1>14. QED
  BY <1>2, <1>3, <1>4, <1>5, <1>6, <1>7, <1>8, <1>9, <1>10, <1>11, <1>12, <1>13 DEF Handler

-----------------------------------------------------------------------------
LEMMA InitType == Init => TypeOK
  BY NewCustomerType, MaxIdsAssumption DEF Init, TypeOK, Request, Idle

LEMMA IdleType == Idle \in Request
  BY NewCustomerType, MaxIdsAssumption DEF Request, Idle

LEMMA StepType == TypeOK /\ [Next]_vars => TypeOK'
<1> SUFFICES ASSUME TypeOK, [Next]_vars PROVE TypeOK'
  OBVIOUS
<1>1. CASE UNCHANGED vars
  BY <1>1 DEF TypeOK, vars
<1>2. ASSUME NEW r \in Req, ReadRow(r) PROVE TypeOK'
  <2>1. PICK op \in Ops, id \in 0..MaxIds : Open(r, op, id)
    BY <1>2, MaxIdsAssumption DEF ReadRow, Id
  <2>2. [pc |-> "row", op |-> op, seen |-> Loaded(cust), new |-> Loaded(cust), id |-> id]
           \in Request
    BY LoadedType, OpsAssumption DEF TypeOK, Request
  <2>3. req' \in [Req -> Request]
    BY <2>1, <2>2 DEF Open, TypeOK
  <2>4. nextId' \in 1..(MaxIds + 1)
    BY <1>2, MaxIdsAssumption DEF ReadRow, TypeOK, Id
  <2>5. QED
    BY <1>2, <2>3, <2>4 DEF ReadRow, TypeOK
<1>3. ASSUME NEW r \in Req, StoreDocument(r) PROVE TypeOK'
  <2>1. PICK ocrPass \in BOOLEAN :
          /\ req' = [req EXCEPT ![r].pc = "stored",
                                ![r].new = UploadStored(req[r].seen, KindOf(req[r].op), ocrPass)]
          /\ rowLock' \in {r, rowLock}
    BY <1>3 DEF StoreDocument
  <2>2. UploadStored(req[r].seen, KindOf(req[r].op), ocrPass) \in View
    BY UploadStoredType, KindOfType DEF TypeOK, Request
  <2>3. req' \in [Req -> Request]
    BY <2>1, <2>2 DEF TypeOK, Request
  <2>4. QED
    BY <1>3, <2>1, <2>3 DEF StoreDocument, TypeOK
<1>4. ASSUME NEW r \in Req, ReadRelated(r) PROVE TypeOK'
  <2>1. PICK seen \in View : seen = Related(req[r].seen)
    BY RelatedType DEF TypeOK, Request
  <2>2. PICK own : own = [seen EXCEPT !.status = req[r].new.status,
                                      !.docs = @ \cup req[r].new.docs]
    OBVIOUS
  <2>3. own \in View
    BY <2>1, <2>2 DEF TypeOK, Request, View
  <2>4. req' \in [Req -> Request]
    <3>1. req' = [req EXCEPT ![r].pc = "read", ![r].seen = seen, ![r].new = own]
      BY <1>4, <2>1, <2>2 DEF ReadRelated
    <3>2. PICK q : q = [req[r] EXCEPT !.pc = "read", !.seen = seen, !.new = own]
      OBVIOUS
    <3>3. q \in Request
      BY <2>1, <2>3, <3>2 DEF TypeOK, Request
    <3>4. req' = [req EXCEPT ![r] = q]
      BY <3>1, <3>2 DEF TypeOK
    <3>5. QED
      BY <3>3, <3>4 DEF TypeOK
  <2>5. QED
    BY <1>4, <2>4 DEF ReadRelated, TypeOK
<1>5. ASSUME NEW r \in Req, Handler(r) PROVE TypeOK'
  <2>1. PICK w \in View : Finish(r, w)
    BY <1>5, HandlerEnds
  <2>2. cust' \in View
    BY <2>1, WriteType DEF Finish, TypeOK, Request
  <2>3. QED
    BY <2>1, <2>2, IdleType DEF Finish, TypeOK
<1>6. ASSUME NEW r \in Req, Rollback(r) PROVE TypeOK'
  BY <1>6, IdleType DEF Rollback, TypeOK
<1>7. QED
  BY <1>1, <1>2, <1>3, <1>4, <1>5, <1>6 DEF Next

(* Type correctness: no overlap of requests leaves a value outside the type*)
(* of its column, an open request outside its steps, or the row lock with  *)
(* nobody it could belong to.                                              *)
THEOREM RequestTypes == Spec => []TypeOK
  BY InitType, StepType, PTL DEF Spec

-----------------------------------------------------------------------------
(***************************************************************************)
(* Onboarding and approval.  What an open request has read may be stale,   *)
(* but not in any order: the documents it has seen are still on file, and  *)
(* a status past the liveness check that it has seen had both documents    *)
(* then.  Its session differs from what it has seen by its own document    *)
(* and the status that the upload gave.                                    *)
(***************************************************************************)
BothDocs == {"id", "selfie"}

Working(q) ==
  q.pc # "idle" =>
    /\ q.seen.docs \subseteq cust.docs
    /\ ~cust.patched /\ q.seen.status \in Serial!PastLiveness => BothDocs \subseteq cust.docs
    /\ ~q.seen.patched /\ ~q.new.patched
    /\ q.new.cases = q.seen.cases /\ q.seen.docs \subseteq q.new.docs
    /\ \/ q.new.status = q.seen.status
       \/ q.op \in Uploads /\ q.new.status \notin Serial!PastLiveness
    /\ q.pc # "row" /\ q.op \in Uploads => KindOf(q.op) \in q.new.docs

Onboarding ==
  /\ TypeOK
  /\ \A r \in Req : Working(req[r])
  /\ LivenessHasBothDocs
  /\ ApprovalHasDecision

LEMMA InitOnboarding == Init => Onboarding
<1> SUFFICES ASSUME Init PROVE Onboarding
  OBVIOUS
<1>1. TypeOK
  BY InitType
<1>2. \A r \in Req : Working(req[r])
  BY DEF Init, Working, Idle
<1>3. LivenessHasBothDocs /\ ApprovalHasDecision
  BY DEF Init, NewCustomer, LivenessHasBothDocs, ApprovalHasDecision,
         Serial!LivenessHasBothDocs, Serial!ApprovalHasDecision, Serial!PastLiveness
<1>4. QED
  BY <1>1, <1>2, <1>3 DEF Onboarding

(* An open request keeps working while others commit: documents are only   *)
(* added, and the history of PATCH is not forgotten.                       *)
LEMMA OthersKeepWorking ==
  ASSUME NEW r \in Req, \A t \in Req : Working(req[t]),
         \A t \in Req \ {r} : req'[t] = req[t],
         cust.docs \subseteq cust'.docs, cust.patched => cust'.patched,
         Working(req[r])'
  PROVE  \A t \in Req : Working(req[t])'
<1>1. ASSUME NEW t \in Req \ {r} PROVE Working(req[t])'
  BY <1>1 DEF Working
<1>2. QED
  BY <1>1

(* A step that leaves the customer alone keeps what is promised of it. *)
LEMMA SameCustomer ==
  ASSUME cust' = cust, LivenessHasBothDocs, ApprovalHasDecision
  PROVE  LivenessHasBothDocs' /\ ApprovalHasDecision'
  BY DEF LivenessHasBothDocs, ApprovalHasDecision,
         Serial!LivenessHasBothDocs, Serial!ApprovalHasDecision

LEMMA ReadRowOnboarding ==
  ASSUME Onboarding, TypeOK', NEW r \in Req, ReadRow(r)
  PROVE  Onboarding'
<1>1. PICK op, id : Open(r, op, id)
  BY DEF ReadRow
<1>2. cust' = cust
  BY DEF ReadRow
<1>3. req'[r] = [pc |-> "row", op |-> op, seen |-> Loaded(cust),
                 new |-> Loaded(cust), id |-> id]
  BY <1>1 DEF Open, Onboarding, TypeOK
<1>4. /\ Loaded(cust).docs = {} /\ Loaded(cust).status = cust.status
      /\ Loaded(cust).patched = FALSE
  BY DEF Loaded, NewCustomer
<1>5. Working(req[r])'
  BY <1>2, <1>3, <1>4
     DEF Working, Onboarding, LivenessHasBothDocs, Serial!LivenessHasBothDocs, BothDocs
<1>6. \A t \in Req \ {r} : req'[t] = req[t]
  BY <1>1 DEF Open, Onboarding, TypeOK
<1>7. \A t \in Req : Working(req[t])'
  BY <1>2, <1>5, <1>6, OthersKeepWorking DEF Onboarding
<1>8. QED
  BY <1>2, <1>7, SameCustomer DEF Onboarding

LEMMA StoreDocumentOnboarding ==
  ASSUME Onboarding, TypeOK', NEW r \in Req, StoreDocument(r)
  PROVE  Onboarding'
<1>1. PICK ocrPass \in BOOLEAN :
        req' = [req EXCEPT ![r].pc = "stored",
                           ![r].new = UploadStored(req[r].seen, KindOf(req[r].op), ocrPass)]
  BY DEF StoreDocument
<1>2. cust' = cust /\ req[r].pc = "row" /\ req[r].op \in Uploads
  BY DEF StoreDocument
<1>3. PICK new : new = UploadStored(req[r].seen, KindOf(req[r].op), ocrPass)
  OBVIOUS
<1>4. req[r] \in Request /\ req[r].seen \in View
  BY DEF Onboarding, TypeOK, Request
<1>5. /\ new.docs = req[r].seen.docs \cup {KindOf(req[r].op)}
      /\ new.cases = req[r].seen.cases /\ new.patched = req[r].seen.patched
      /\ new.status = req[r].seen.status \/ new.status \in {"documents_uploaded", "identity_verified"}
  BY <1>3, <1>4 DEF UploadStored, View
<1>6. /\ req'[r].seen = req[r].seen /\ req'[r].op = req[r].op
      /\ req'[r].new = new /\ req'[r].pc = "stored"
  BY <1>1, <1>3, <1>4 DEF Onboarding, TypeOK, Request
<1>7. Working(req[r])'
  BY <1>2, <1>5, <1>6 DEF Onboarding, Working, Serial!PastLiveness
<1>8. \A t \in Req \ {r} : req'[t] = req[t]
  BY <1>1 DEF Onboarding, TypeOK
<1>9. \A t \in Req : Working(req[t])'
  BY <1>2, <1>7, <1>8, OthersKeepWorking DEF Onboarding
<1>10. QED
  BY <1>2, <1>9, SameCustomer DEF Onboarding

LEMMA ReadRelatedOnboarding ==
  ASSUME Onboarding, TypeOK', NEW r \in Req, ReadRelated(r)
  PROVE  Onboarding'
<1>1. PICK seen, own :
        /\ seen = Related(req[r].seen)
        /\ own = [seen EXCEPT !.status = req[r].new.status, !.docs = @ \cup req[r].new.docs]
        /\ req' = [req EXCEPT ![r].pc = "read", ![r].seen = seen, ![r].new = own]
  BY DEF ReadRelated
<1>2. cust' = cust /\ req[r].pc # "idle" /\ (req[r].op \in Uploads => req[r].pc = "stored")
  BY DEF ReadRelated
<1>3. req[r] \in Request /\ req[r].seen \in View /\ req[r].new \in View /\ cust \in View
  BY DEF Onboarding, TypeOK, Request
<1>4. /\ seen.status = req[r].seen.status /\ seen.docs = cust.docs
      /\ seen.patched = FALSE
      /\ own.cases = seen.cases /\ own.patched = FALSE
      /\ own.status = req[r].new.status /\ own.docs = cust.docs \cup req[r].new.docs
  BY <1>1, <1>3 DEF Related, View
<1>5. /\ req'[r].seen = seen /\ req'[r].op = req[r].op
      /\ req'[r].new = own /\ req'[r].pc = "read"
  BY <1>1, <1>3 DEF Onboarding, TypeOK, Request
<1>6. Working(req[r])
  BY DEF Onboarding
<1>7. Working(req[r])'
  BY <1>2, <1>4, <1>5, <1>6 DEF Working
<1>8. \A t \in Req \ {r} : req'[t] = req[t]
  BY <1>1 DEF Onboarding, TypeOK
<1>9. \A t \in Req : Working(req[t])'
  BY <1>2, <1>7, <1>8, OthersKeepWorking DEF Onboarding
<1>10. QED
  BY <1>2, <1>9, SameCustomer DEF Onboarding

(* A commit puts the status it changed next to the documents and the cases *)
(* that the others have committed meanwhile.                               *)
LEMMA HandlerOnboarding ==
  ASSUME Onboarding, TypeOK', NEW r \in Req, Handler(r)
  PROVE  Onboarding'
<1>1. PICK w \in View : Finish(r, w) /\ Moves(req[r].op, req[r].new, w)
  BY HandlerEnds DEF Onboarding
<1>2. PICK q \in Request : q = req[r] /\ q.pc = "read" /\ Working(q)
  BY HandlerEnds DEF Onboarding, TypeOK
<1>3. q.seen \in View /\ q.new \in View /\ cust \in View /\ cust' \in View
  BY <1>2 DEF Onboarding, TypeOK, Request
<1>4. cust' = Write(cust, q.seen, w) /\ Moves(q.op, q.new, w)
  BY <1>1, <1>2 DEF Finish
<1>5. /\ cust'.docs = cust.docs \cup (w.docs \ q.seen.docs)
      /\ cust'.status = IF w.status = q.seen.status THEN cust.status ELSE w.status
      /\ cust'.cases = Rows(cust.cases, q.seen.cases, w.cases)
      /\ cust'.patched = (cust.patched \/ w.patched)
  BY <1>4 DEF Write, Column
<1>6. w.docs \subseteq cust'.docs
  BY <1>2, <1>5 DEF Working
<1>7. \A t \in Req : Working(req[t])'
  <2>1. req'[r] = Idle /\ \A t \in Req \ {r} : req'[t] = req[t]
    BY <1>1 DEF Finish, Onboarding, TypeOK
  <2>2. Working(req[r])'
    BY <2>1 DEF Working, Idle
  <2>3. cust.docs \subseteq cust'.docs /\ (cust.patched => cust'.patched)
    BY <1>5
  <2>4. QED
    BY <2>1, <2>2, <2>3, OthersKeepWorking DEF Onboarding
<1>8. LivenessHasBothDocs'
  <2> SUFFICES ASSUME ~cust'.patched, cust'.status \in Serial!PastLiveness
               PROVE  BothDocs \subseteq cust'.docs
    BY DEF LivenessHasBothDocs, Serial!LivenessHasBothDocs, BothDocs, Serial!PastLiveness
  <2>1. ~cust.patched /\ ~w.patched
    BY <1>5
  <2>2. CASE w.status = q.seen.status
    BY <1>5, <2>1, <2>2
       DEF Onboarding, LivenessHasBothDocs, Serial!LivenessHasBothDocs, BothDocs
  <2>3. CASE w.status # q.seen.status /\ q.new.status \in Serial!PastLiveness
    BY <1>2, <1>5, <2>1, <2>3 DEF Working
  <2>4. CASE w.status # q.seen.status /\ q.new.status \notin Serial!PastLiveness
    <3>1. q.op \in Uploads /\ BothDocs \subseteq w.docs \cup {KindOf(q.op)}
      BY <1>4, <1>5, <2>1, <2>4 DEF Moves, BothDocs
    <3>2. KindOf(q.op) \in w.docs
      BY <1>2, <1>4, <3>1 DEF Working, Moves
    <3>3. QED
      BY <1>6, <3>1, <3>2
  <2>5. QED
    BY <2>2, <2>3, <2>4
<1>9. ApprovalHasDecision'
  <2> SUFFICES ASSUME ~cust'.patched, cust'.status = "approved"
               PROVE  \E i \in Id : cust'.cases[i] = "approved"
    BY DEF ApprovalHasDecision, Serial!ApprovalHasDecision, Serial!Id, Id
  <2>1. ~cust.patched /\ ~w.patched
    BY <1>5
  <2>2. CASE w.status = q.seen.status
    <3>1. PICK i \in Id : cust.cases[i] = "approved"
      BY <1>5, <2>1, <2>2 DEF Onboarding, ApprovalHasDecision, Serial!ApprovalHasDecision,
                              Serial!Id, Id
    <3>2. w.cases = q.seen.cases
      BY <1>2, <1>4, <2>2 DEF Working, Moves
    <3>3. cust'.cases[i] = "approved"
      BY <1>5, <3>1, <3>2 DEF Rows, Column
    <3>4. QED
      BY <3>3
  <2>3. CASE w.status # q.seen.status
    <3>1. w.status = "approved" /\ q.new.status # "approved"
      BY <1>2, <1>5, <2>3 DEF Working, Serial!PastLiveness
    <3>2. PICK i \in Id : q.new.cases[i] = "pending" /\ w.cases[i] = "approved"
      BY <1>4, <2>1, <3>1 DEF Moves
    <3>3. cust'.cases[i] = "approved"
      BY <1>2, <1>5, <3>2 DEF Working, Rows, Column
    <3>4. QED
      BY <3>3
  <2>4. QED
    BY <2>2, <2>3
<1>10. QED
  BY <1>7, <1>8, <1>9 DEF Onboarding

LEMMA RollbackOnboarding ==
  ASSUME Onboarding, TypeOK', NEW r \in Req, Rollback(r)
  PROVE  Onboarding'
<1>1. req'[r] = Idle /\ \A t \in Req \ {r} : req'[t] = req[t]
  BY DEF Rollback, Onboarding, TypeOK
<1>2. cust' = cust /\ Working(req[r])'
  BY <1>1 DEF Rollback, Working, Idle
<1>3. \A t \in Req : Working(req[t])'
  BY <1>1, <1>2, OthersKeepWorking DEF Onboarding
<1>4. QED
  BY <1>2, <1>3, SameCustomer DEF Onboarding

LEMMA StepOnboarding == Onboarding /\ [Next]_vars => Onboarding'
<1> SUFFICES ASSUME Onboarding, [Next]_vars PROVE Onboarding'
  OBVIOUS
<1>1. TypeOK'
  BY StepType DEF Onboarding
<1>2. CASE UNCHANGED vars
  <2>1. cust' = cust /\ req' = req
    BY <1>2 DEF vars
  <2>2. \A r \in Req : Working(req[r])'
    BY <2>1 DEF Onboarding, Working
  <2>3. QED
    BY <1>1, <2>1, <2>2, SameCustomer DEF Onboarding
<1>3. CASE Next
  BY <1>1, <1>3, ReadRowOnboarding, StoreDocumentOnboarding, ReadRelatedOnboarding,
     HandlerOnboarding, RollbackOnboarding DEF Next
<1>4. QED
  BY <1>2, <1>3

LEMMA OnboardingInvariance == Spec => []Onboarding
  BY InitOnboarding, StepOnboarding, PTL DEF Spec

(* However many requests overlap, and whatever they are: unless PATCH moved*)
(* the customer, nobody gets past the liveness check without both documents*)
THEOREM LivenessNeedsDocuments == Spec => []LivenessHasBothDocs
  BY OnboardingInvariance, PTL DEF Onboarding

(* However many requests overlap, approvals and rejections of the same EDD *)
(* case included: unless PATCH moved the customer, an approved one has an  *)
(* approved case.                                                          *)
THEOREM ApprovalNeedsDecision == Spec => []ApprovalHasDecision
  BY OnboardingInvariance, PTL DEF Onboarding

-----------------------------------------------------------------------------
(***************************************************************************)
(* One request at a time.  Nobody writes while a request is open, so what  *)
(* it has read is what is committed (it cannot see the history of PATCH),  *)
(* and what it flushes is what the handler makes of that: the commit is    *)
(* the endpoint of CustomerLifecycle, and every other step a stutter.      *)
(***************************************************************************)
Life == INSTANCE CustomerLifecycleProofs

LEMMA LatestIsLargest ==
  ASSUME NEW S, S \subseteq Id, S # {}
  PROVE  Latest(S) \in S
  BY Life!LatestIsLargest, MaxIdsAssumption, CountriesAssumption
     DEF Life!Latest, Life!Id, Latest, Id

Unpatched(v) == [v EXCEPT !.patched = FALSE]
Repatched(v, w) == [w EXCEPT !.patched = v.patched \/ w.patched]

(* Each handler does the same to a view whether or not it sees the history.*)
LEMMA PatchSerial ==
  ASSUME NEW v \in View, NEW status, NEW tier
  PROVE  Repatched(v, Patch(Unpatched(v), status, tier)) = Serial!Patch(v, status, tier)
  BY DEF Repatched, Unpatched, Patch, Serial!Patch, View

LEMMA VerifyIdentitySerial ==
  ASSUME NEW v \in View, NEW answer
  PROVE  Repatched(v, VerifyIdentity(Unpatched(v), answer)) = Serial!VerifyIdentity(v, answer)
  BY DEF Repatched, Unpatched, VerifyIdentity, Serial!VerifyIdentity, View

LEMMA ScoreRiskSerial ==
  ASSUME NEW v \in View, NEW tier
  PROVE  Repatched(v, ScoreRisk(Unpatched(v), tier)) = Serial!ScoreRisk(v, tier)
  BY DEF Repatched, Unpatched, ScoreRisk, Serial!ScoreRisk,
         StatusAfterScore, Serial!StatusAfterScore, View

LEMMA RunKycPipelineSerial ==
  ASSUME NEW v \in View, NEW hasCnic, NEW answer, NEW tier
  PROVE  Repatched(v, RunKycPipeline(Unpatched(v), hasCnic, answer, tier)) =
           Serial!RunKycPipeline(v, hasCnic, answer, tier)
<1>1. NeedsNadra(Unpatched(v), hasCnic) = Serial!NeedsNadra(v, hasCnic)
  BY DEF NeedsNadra, Serial!NeedsNadra, Unpatched, View
<1>2. CASE NeedsNadra(Unpatched(v), hasCnic)
  <2>1. /\ VerifyIdentity(Unpatched(v), answer).status # "liveness_checked"
        /\ Serial!VerifyIdentity(v, answer).status # "liveness_checked"
    BY <1>2 DEF NeedsNadra, VerifyIdentity, Serial!VerifyIdentity, Unpatched, View
  <2>2. QED
    BY <1>1, <1>2, <2>1, VerifyIdentitySerial DEF RunKycPipeline, Serial!RunKycPipeline
<1>3. CASE ~NeedsNadra(Unpatched(v), hasCnic)
  <2>1. Unpatched(v).status = v.status /\ Repatched(v, Unpatched(v)) = v
    BY DEF Unpatched, Repatched, View
  <2>2. QED
    BY <1>1, <1>3, <2>1, ScoreRiskSerial DEF RunKycPipeline, Serial!RunKycPipeline
<1>4. QED
  BY <1>2, <1>3

LEMMA UploadSerial ==
  ASSUME NEW v \in View, NEW kind, NEW ocrPass, NEW faceOk
  PROVE  Repatched(v, FaceMatch(UploadStored(Unpatched(v), kind, ocrPass), kind, faceOk)) =
           Serial!FaceMatch(Serial!UploadStored(v, kind, ocrPass), kind, faceOk)
<1>1. PICK u, w : /\ u = UploadStored(Unpatched(v), kind, ocrPass)
                  /\ w = Serial!UploadStored(v, kind, ocrPass)
  OBVIOUS
<1>2. /\ u = [w EXCEPT !.patched = FALSE] /\ w.patched = v.patched
      /\ DOMAIN w = DOMAIN v /\ w = [f \in DOMAIN v |-> w[f]]
  BY <1>1 DEF UploadStored, Serial!UploadStored, Unpatched, View
<1>3. Repatched(v, FaceMatch(u, kind, faceOk)) = Serial!FaceMatch(w, kind, faceOk)
  BY <1>2 DEF FaceMatch, Serial!FaceMatch, Repatched, View
<1>4. QED
  BY <1>1, <1>3

LEMMA StartEddSerial ==
  ASSUME NEW v \in View, NEW id
  PROVE  Repatched(v, StartEdd(Unpatched(v), id)) = Serial!StartEdd(v, id)
  BY DEF Repatched, Unpatched, StartEdd, Serial!StartEdd, View

LEMMA CasesSerial ==
  ASSUME NEW v \in View
  PROVE  Cases(Unpatched(v)) = Serial!Cases(v)
  BY DEF Cases, Serial!Cases, Id, Serial!Id, Unpatched, View

LEMMA SubmitSourceOfFundsSerial ==
  ASSUME NEW v \in View, NEW verified
  PROVE  Repatched(v, SubmitSourceOfFunds(Unpatched(v), verified)) =
           Serial!SubmitSourceOfFunds(v, verified)
  BY CasesSerial DEF Repatched, Unpatched, SubmitSourceOfFunds, Serial!SubmitSourceOfFunds,
                     Id, Serial!Id, View

LEMMA DecideEddSerial ==
  ASSUME NEW v \in View, NEW verdict
  PROVE  Repatched(v, DecideEdd(Unpatched(v), verdict)) = Serial!DecideEdd(v, verdict)
  BY CasesSerial DEF Repatched, Unpatched, DecideEdd, Serial!DecideEdd, Id, Serial!Id, View

LEMMA FreezeSerial ==
  ASSUME NEW v \in View, NEW id
  PROVE  Repatched(v, Freeze(Unpatched(v), id)) = Serial!Freeze(v, id)
  BY DEF Repatched, Unpatched, Freeze, Serial!Freeze, View

LEMMA RecordsSerial ==
  ASSUME NEW v \in View, NEW states
  PROVE  /\ Records(Unpatched(v), states) = Serial!Records(v, states)
         /\ Latest(Records(Unpatched(v), states)) = Serial!Latest(Serial!Records(v, states))
<1>1. Records(Unpatched(v), states) = Serial!Records(v, states)
  BY DEF Records, Serial!Records, Id, Serial!Id, Unpatched, View
<1>2. QED
  BY <1>1 DEF Latest, Serial!Latest

LEMMA ReportFreezeSerial ==
  ASSUME NEW v \in View
  PROVE  Repatched(v, ReportFreezeToFmu(Unpatched(v))) = Serial!ReportFreezeToFmu(v)
  BY RecordsSerial DEF Repatched, Unpatched, ReportFreezeToFmu, Serial!ReportFreezeToFmu, View

LEMMA UnfreezeSerial ==
  ASSUME NEW v \in View, NEW reason
  PROVE  Repatched(v, Unfreeze(Unpatched(v), reason)) = Serial!Unfreeze(v, reason)
  BY RecordsSerial DEF Repatched, Unpatched, Unfreeze, Serial!Unfreeze,
                       Active, Serial!Active, View

(* Each handler adds to the documents and results of a view, and uses no   *)
(* number but its own for a new row.                                       *)
Grows(v, w, ids) ==
  v.docs \subseteq w.docs /\ (v.nadra => w.nadra) /\ Used(w) \subseteq Used(v) \cup ids

LEMMA SameRowsGrow ==
  ASSUME NEW v, NEW w, v.docs \subseteq w.docs, v.nadra => w.nadra,
         w.cases = v.cases, w.freezes = v.freezes
  PROVE  Grows(v, w, {})
  BY DEF Grows, Used

LEMMA PatchGrows ==
  ASSUME NEW v \in View, NEW status, NEW tier
  PROVE  Grows(v, Patch(v, status, tier), {})
  BY SameRowsGrow DEF Patch, View

LEMMA VerifyIdentityGrows ==
  ASSUME NEW v \in View, NEW answer
  PROVE  Grows(v, VerifyIdentity(v, answer), {})
  BY SameRowsGrow DEF VerifyIdentity, View

LEMMA ScoreRiskGrows ==
  ASSUME NEW v \in View, NEW tier
  PROVE  Grows(v, ScoreRisk(v, tier), {})
  BY SameRowsGrow DEF ScoreRisk, View

LEMMA RunKycPipelineGrows ==
  ASSUME NEW v \in View, NEW hasCnic, NEW answer, NEW tier
  PROVE  Grows(v, RunKycPipeline(v, hasCnic, answer, tier), {})
<1>1. PICK u : u = IF NeedsNadra(v, hasCnic) THEN VerifyIdentity(v, answer) ELSE v
  OBVIOUS
<1>2. u \in View /\ Grows(v, u, {})
  BY <1>1, VerifyIdentityType, VerifyIdentityGrows, SameRowsGrow
<1>3. Grows(u, ScoreRisk(u, tier), {})
  BY <1>2, ScoreRiskGrows
<1>4. RunKycPipeline(v, hasCnic, answer, tier) \in {u, ScoreRisk(u, tier)}
  BY <1>1 DEF RunKycPipeline
<1>5. QED
  BY <1>2, <1>3, <1>4 DEF Grows

LEMMA UploadGrows ==
  ASSUME NEW v \in View, NEW kind \in DocKind, NEW ocrPass, NEW faceOk
  PROVE  Grows(v, FaceMatch(UploadStored(v, kind, ocrPass), kind, faceOk), {})
<1>1. PICK u \in View : u = UploadStored(v, kind, ocrPass)
  BY UploadStoredType
<1>2. Grows(v, u, {})
  BY <1>1, SameRowsGrow DEF UploadStored, View
<1>3. Grows(u, FaceMatch(u, kind, faceOk), {})
  BY SameRowsGrow DEF FaceMatch, View
<1>4. QED
  BY <1>1, <1>2, <1>3 DEF Grows

LEMMA StartEddGrows ==
  ASSUME NEW v \in View, NEW id
  PROVE  Grows(v, StartEdd(v, id), {id})
  BY DEF Grows, Used, StartEdd, View

LEMMA SubmitSourceOfFundsGrows ==
  ASSUME NEW v \in View, NEW verified
  PROVE  Grows(v, SubmitSourceOfFunds(v, verified), {})
  BY SameRowsGrow DEF SubmitSourceOfFunds, View

LEMMA DecideEddGrows ==
  ASSUME NEW v \in View, NEW verdict
  PROVE  Grows(v, DecideEdd(v, verdict), {})
  BY DEF Grows, Used, Cases, DecideEdd, View

LEMMA FreezeGrows ==
  ASSUME NEW v \in View, NEW id
  PROVE  Grows(v, Freeze(v, id), {id})
  BY DEF Grows, Used, Freeze, View

LEMMA ReportFreezeGrows ==
  ASSUME NEW v \in View, CanReportFreeze(v)
  PROVE  Grows(v, ReportFreezeToFmu(v), {})
<1>1. PICK i : i = Latest(Records(v, {"frozen"}))
  OBVIOUS
<1>2. i \in Records(v, {"frozen"})
  BY <1>1, LatestIsLargest DEF CanReportFreeze, Records
<1>3. i \in Used(v)
  BY <1>2 DEF Records, Used
<1>4. ReportFreezeToFmu(v) = [v EXCEPT !.freezes[i] = "reported_to_fmu"]
  BY <1>1 DEF ReportFreezeToFmu
<1>5. QED
  BY <1>3, <1>4 DEF Grows, Used, View

LEMMA UnfreezeGrows ==
  ASSUME NEW v \in View, NEW reason, CanUnfreeze(v)
  PROVE  Grows(v, Unfreeze(v, reason), {})
<1>1. PICK i : i = Latest(Records(v, Active))
  OBVIOUS
<1>2. i \in Records(v, Active)
  BY <1>1, LatestIsLargest DEF CanUnfreeze, Records
<1>3. i \in Used(v)
  BY <1>2 DEF Records, Used, Active
<1>4. Unfreeze(v, reason) = [v EXCEPT !.freezes[i] = "unfrozen", !.status = "rejected"]
  BY <1>1 DEF Unfreeze
<1>5. QED
  BY <1>3, <1>4 DEF Grows, Used, View

-----------------------------------------------------------------------------
(* The values that a request which is alone has read and is working on.    *)
Alone(q) ==
  /\ q.pc \in {"row", "stored"} => q.seen = Loaded(cust)
  /\ q.pc = "row" => q.new = Loaded(cust)
  /\ q.pc = "stored" =>
       /\ q.op \in Uploads /\ CanUpload(Loaded(cust), KindOf(q.op))
       /\ \E ocrPass \in BOOLEAN : q.new = UploadStored(Loaded(cust), KindOf(q.op), ocrPass)
  /\ q.pc = "read" => q.seen = Unpatched(cust)
  /\ q.pc = "read" /\ q.op \notin Uploads => q.new = Unpatched(cust)
  /\ q.pc = "read" /\ q.op \in Uploads =>
       /\ CanUpload(Unpatched(cust), KindOf(q.op))
       /\ \E ocrPass \in BOOLEAN : q.new = UploadStored(Unpatched(cust), KindOf(q.op), ocrPass)
  /\ q.pc # "idle" /\ q.op \in CreatesRow =>
       q.id \in Id /\ q.id < nextId /\ \A i \in Used(cust) : i < q.id

OneOpen ==
  /\ TypeOK
  /\ \A i \in Used(cust) : i < nextId
  /\ \A r \in Req : Alone(req[r])

LEMMA InitOneOpen == Init => OneOpen
  BY InitType DEF Init, OneOpen, Alone, Idle, Used, NewCustomer

LEMMA CommitAlone ==
  ASSUME TypeOK, NEW r \in Req, NEW w \in View, Finish(r, w),
         req[r].seen = Unpatched(cust), NEW ids, Grows(Unpatched(cust), w, ids)
  PROVE  cust' = Repatched(cust, w) /\ Used(cust') \subseteq Used(cust) \cup ids
<1>1. PICK s : s = Unpatched(cust)
  OBVIOUS
<1>2. /\ s.status = cust.status /\ s.tier = cust.tier /\ s.docs = cust.docs
      /\ s.nadra = cust.nadra /\ s.cases = cust.cases /\ s.funds = cust.funds
      /\ s.freezes = cust.freezes
  BY <1>1 DEF Unpatched, TypeOK, View
<1>3. /\ Rows(cust.cases, s.cases, w.cases) = w.cases
      /\ Rows(cust.funds, s.funds, w.funds) = w.funds
      /\ Rows(cust.freezes, s.freezes, w.freezes) = w.freezes
  BY <1>2 DEF Rows, Column, View
<1>4. cust.docs \cup (w.docs \ s.docs) = w.docs
  BY <1>1, <1>2 DEF Grows
<1>5. (cust.nadra \/ (w.nadra /\ ~s.nadra)) = w.nadra
  BY <1>1, <1>2 DEF Grows, TypeOK, View
<1>6. cust' = [status |-> w.status, tier |-> w.tier, docs |-> w.docs, nadra |-> w.nadra,
               cases |-> w.cases, funds |-> w.funds, freezes |-> w.freezes,
               patched |-> cust.patched \/ w.patched]
  BY <1>1, <1>2, <1>3, <1>4, <1>5 DEF Finish, Write, Column
<1>7. cust' = Repatched(cust, w)
  BY <1>6 DEF Repatched, View
<1>8. Used(cust') = Used(w) /\ Used(s) = Used(cust)
  BY <1>2, <1>6 DEF Used
<1>9. QED
  BY <1>1, <1>7, <1>8 DEF Grows

(* A handler that is alone ends as its endpoint does. *)
LEMMA HandlerIsEndpoint ==
  ASSUME OneOpen, NEW r \in Req, Handler(r)
  PROVE  /\ Serial!Next
         /\ \E ids \in SUBSET Id :
              /\ Used(cust') \subseteq Used(cust) \cup ids
              /\ ids # {} => ids = {req[r].id} /\ req[r].id < nextId
<1> DEFINE Commits(w, ids) == /\ cust' = Repatched(cust, w)
                              /\ Used(cust') \subseteq Used(cust) \cup ids
<1>1. PICK v \in View : v = Unpatched(cust)
  BY DEF OneOpen, TypeOK, Unpatched, View
<1>2. cust \in View /\ req[r].pc = "read" /\ req[r].seen = v /\ v.status = cust.status
  BY <1>1, HandlerEnds DEF OneOpen, TypeOK, Alone, Unpatched, View
<1>3. req[r].op \notin Uploads => req[r].new = v
  BY <1>1, <1>2 DEF OneOpen, Alone
<1>4. req[r].op \in CreatesRow =>
        req[r].id \in Id /\ req[r].id < nextId /\ \A i \in Used(cust) : i < req[r].id
  BY <1>2 DEF OneOpen, Alone
<1>5. \A w \in View : \A ids : Finish(r, w) /\ Grows(v, w, ids) => Commits(w, ids)
  BY <1>1, <1>2, CommitAlone DEF OneOpen
<1>6. Serial!Used(cust) = Used(cust)
  BY DEF Serial!Used, Used, Serial!Id, Id
<1> HIDE DEF Commits
<1>7. CASE PatchCustomer(r)
  <2>1. PICK status \in KycStatus, tier \in RiskTier :
          CanTransition(v.status, status) /\ Finish(r, Patch(v, status, tier))
    BY <1>3, <1>7 DEF PatchCustomer, Ready, Uploads
  <2>2. Commits(Patch(v, status, tier), {})
    BY <1>5, <2>1, PatchType, PatchGrows
  <2>3. cust' = Serial!Patch(cust, status, tier)
    BY <1>1, <1>2, <2>2, PatchSerial DEF Commits
  <2>4. Serial!PatchCustomer
    BY <1>2, <2>1, <2>3 DEF Serial!PatchCustomer, Serial!KycStatus, KycStatus,
       Serial!RiskTier, RiskTier, Serial!CanTransition, CanTransition,
       Serial!KycTransitions, KycTransitions
  <2>5. QED
    BY <2>2, <2>4 DEF Commits, Serial!Next
<1>8. CASE VerifyNadra(r)
  <2>1. PICK answer \in {"pass", "fail", "pending"} : Finish(r, VerifyIdentity(v, answer))
    BY <1>3, <1>8 DEF VerifyNadra, Ready, Uploads
  <2>2. Commits(VerifyIdentity(v, answer), {})
    BY <1>5, <2>1, VerifyIdentityType, VerifyIdentityGrows
  <2>3. Serial!VerifyNadra
    BY <1>1, <1>2, <2>2, VerifyIdentitySerial DEF Commits, Serial!VerifyNadra
  <2>4. QED
    BY <2>2, <2>3 DEF Commits, Serial!Next
<1>9. ScoredTiers = Serial!ScoredTiers
  BY DEF ScoredTiers, Serial!ScoredTiers, ScoreCustomerRisk, Serial!ScoreCustomerRisk
<1>10. CASE ScoreRiskRequest(r)
  <2>1. PICK tier \in ScoredTiers : Finish(r, ScoreRisk(v, tier))
    BY <1>3, <1>10 DEF ScoreRiskRequest, Ready, Uploads
  <2>2. Commits(ScoreRisk(v, tier), {})
    BY <1>5, <2>1, ScoreRiskType, ScoreRiskGrows, ScoredTiersType
  <2>3. Serial!ScoreRiskRequest
    BY <1>1, <1>2, <1>9, <2>2, ScoreRiskSerial DEF Commits, Serial!ScoreRiskRequest
  <2>4. QED
    BY <2>2, <2>3 DEF Commits, Serial!Next
<1>11. CASE RunPipeline(r)
  <2>1. PICK hasCnic \in BOOLEAN, answer \in {"pass", "fail", "pending"}, tier \in ScoredTiers :
          Finish(r, RunKycPipeline(v, hasCnic, answer, tier))
    BY <1>3, <1>11 DEF RunPipeline, Ready, Uploads
  <2>2. Commits(RunKycPipeline(v, hasCnic, answer, tier), {})
    BY <1>5, <2>1, RunKycPipelineType, RunKycPipelineGrows, ScoredTiersType
  <2>3. Serial!RunPipeline
    BY <1>1, <1>2, <1>9, <2>2, RunKycPipelineSerial DEF Commits, Serial!RunPipeline
  <2>4. QED
    BY <2>2, <2>3 DEF Commits, Serial!Next
<1>12. CASE UploadDocument(r)
  <2>1. PICK op \in Uploads, faceOk \in BOOLEAN :
          req[r].op = op /\ Finish(r, FaceMatch(req[r].new, KindOf(op), faceOk))
    BY <1>12 DEF UploadDocument, Ready
  <2>2. PICK kind \in DocKind : kind = KindOf(op)
    BY KindOfType
  <2>3. CanUpload(v, kind)
    BY <1>1, <1>2, <2>1, <2>2 DEF OneOpen, Alone
  <2>4. PICK ocrPass \in BOOLEAN : req[r].new = UploadStored(v, kind, ocrPass)
    BY <1>1, <1>2, <2>1, <2>2 DEF OneOpen, Alone
  <2>5. Finish(r, FaceMatch(UploadStored(v, kind, ocrPass), kind, faceOk))
    BY <2>1, <2>2, <2>4
  <2>6. Commits(FaceMatch(UploadStored(v, kind, ocrPass), kind, faceOk), {})
    BY <1>5, <2>5, UploadStoredType, FaceMatchType, UploadGrows
  <2>7. Serial!CanUpload(cust, kind)
    BY <1>2, <2>3 DEF CanUpload, Serial!CanUpload
  <2>8. Serial!UploadDocument
    BY <1>1, <1>2, <2>6, <2>7, UploadSerial
       DEF Commits, Serial!UploadDocument, Serial!DocKind, DocKind
  <2>9. QED
    BY <2>6, <2>8 DEF Commits, Serial!Next
<1>13. CASE StartEddRequest(r)
  <2>1. /\ req[r].op \in CreatesRow /\ CanStartEdd(v)
        /\ Finish(r, StartEdd(v, req[r].id))
    BY <1>3, <1>13 DEF StartEddRequest, Ready, Uploads, CreatesRow
  <2>2. Commits(StartEdd(v, req[r].id), {req[r].id})
    BY <1>5, <2>1, StartEddType, StartEddGrows
  <2>3. Serial!CanStartEdd(cust)
    BY <1>1, <1>2, <2>1, CasesSerial DEF CanStartEdd, Serial!CanStartEdd
  <2>4. Serial!Fresh(req[r].id) /\ req[r].id \in Serial!Id
    BY <1>4, <1>6, <2>1 DEF Serial!Fresh, Serial!Id, Id
  <2>5. Serial!StartEddRequest
    BY <1>1, <1>2, <2>2, <2>3, <2>4, StartEddSerial DEF Commits, Serial!StartEddRequest
  <2>6. QED
    BY <1>4, <2>1, <2>2, <2>5 DEF Commits, Serial!Next
<1>14. \A states : HasOneCase(v, states) = Serial!HasOneCase(cust, states)
  BY <1>1, <1>2, CasesSerial DEF HasOneCase, Serial!HasOneCase, Id, Serial!Id, Unpatched, View
<1>15. CASE SubmitFunds(r)
  <2>1. PICK verified \in BOOLEAN :
          CanSubmitSourceOfFunds(v) /\ Finish(r, SubmitSourceOfFunds(v, verified))
    BY <1>3, <1>15 DEF SubmitFunds, Ready, Uploads
  <2>2. Commits(SubmitSourceOfFunds(v, verified), {})
    BY <1>5, <2>1, SubmitSourceOfFundsType, SubmitSourceOfFundsGrows
  <2>3. Serial!CanSubmitSourceOfFunds(cust)
    BY <1>14, <2>1 DEF CanSubmitSourceOfFunds, Serial!CanSubmitSourceOfFunds
  <2>4. Serial!SubmitFunds
    BY <1>1, <1>2, <2>2, <2>3, SubmitSourceOfFundsSerial DEF Commits, Serial!SubmitFunds
  <2>5. QED
    BY <2>2, <2>4 DEF Commits, Serial!Next
<1>16. CASE ApproveEdd(r) \/ RejectEdd(r)
  <2>1. PICK verdict \in {"approved", "rejected"} :
          CanDecideEdd(v) /\ Finish(r, DecideEdd(v, verdict))
    BY <1>3, <1>16 DEF ApproveEdd, RejectEdd, Ready, Uploads
  <2>2. Commits(DecideEdd(v, verdict), {})
    BY <1>5, <2>1, DecideEddType, DecideEddGrows
  <2>3. Serial!CanDecideEdd(cust)
    BY <1>2, <1>14, <2>1 DEF CanDecideEdd, Serial!CanDecideEdd
  <2>4. Serial!ApproveEdd \/ Serial!RejectEdd
    BY <1>1, <1>2, <2>2, <2>3, DecideEddSerial
       DEF Commits, Serial!ApproveEdd, Serial!RejectEdd, Serial!EddApproverRoles, Serial!UserRole
  <2>5. QED
    BY <2>2, <2>4 DEF Commits, Serial!Next
<1>17. CASE FreezeCustomer(r)
  <2>1. req[r].op \in CreatesRow /\ Finish(r, Freeze(v, req[r].id))
    BY <1>3, <1>17 DEF FreezeCustomer, Ready, Uploads, CreatesRow
  <2>2. Commits(Freeze(v, req[r].id), {req[r].id})
    BY <1>5, <2>1, FreezeType, FreezeGrows
  <2>3. Serial!Fresh(req[r].id) /\ req[r].id \in Serial!Id
    BY <1>4, <1>6, <2>1 DEF Serial!Fresh, Serial!Id, Id
  <2>4. Serial!FreezeCustomer
    BY <1>1, <1>2, <2>2, <2>3, FreezeSerial
       DEF Commits, Serial!FreezeCustomer, Serial!FreezeRoles, Serial!UserRole
  <2>5. QED
    BY <1>4, <2>1, <2>2, <2>4 DEF Commits, Serial!Next
<1>18. CASE ReportFreeze(r)
  <2>1. CanReportFreeze(v) /\ Finish(r, ReportFreezeToFmu(v))
    BY <1>3, <1>18 DEF ReportFreeze, Ready, Uploads
  <2>2. Commits(ReportFreezeToFmu(v), {})
    BY <1>5, <2>1, ReportFreezeType, ReportFreezeGrows
  <2>3. Serial!CanReportFreeze(cust)
    BY <1>1, <1>2, <2>1, RecordsSerial DEF CanReportFreeze, Serial!CanReportFreeze
  <2>4. Serial!ReportFreeze
    BY <1>1, <1>2, <2>2, <2>3, ReportFreezeSerial DEF Commits, Serial!ReportFreeze
  <2>5. QED
    BY <2>2, <2>4 DEF Commits, Serial!Next
<1>19. CASE UnfreezeCustomer(r)
  <2>1. PICK reason \in UnfreezeReason : CanUnfreeze(v) /\ Finish(r, Unfreeze(v, reason))
    BY <1>3, <1>19 DEF UnfreezeCustomer, Ready, Uploads
  <2>2. Commits(Unfreeze(v, reason), {})
    BY <1>5, <2>1, UnfreezeType, UnfreezeGrows
  <2>3. Serial!CanUnfreeze(cust)
    BY <1>1, <1>2, <2>1, RecordsSerial
       DEF CanUnfreeze, Serial!CanUnfreeze, Active, Serial!Active
  <2>4. Serial!UnfreezeCustomer
    BY <1>1, <1>2, <2>1, <2>2, <2>3, UnfreezeSerial
       DEF Commits, Serial!UnfreezeCustomer, Serial!UnfreezeRoles, Serial!UserRole,
           UnfreezeReason, Serial!UnfreezeReason
  <2>5. QED
    BY <2>2, <2>4 DEF Commits, Serial!Next
<1>20. QED
  BY <1>7, <1>8, <1>10, <1>11, <1>12, <1>13, <1>15, <1>16, <1>17, <1>18, <1>19 DEF Handler

LEMMA ReadRowOneOpen ==
  ASSUME OneOpen, TypeOK', NEW r \in Req, \A t \in Req : t = r, ReadRow(r)
  PROVE  OneOpen'
<1>0. PICK op \in Ops : \E id :
        /\ Open(r, op, id)
        /\ \/ op \notin CreatesRow /\ nextId' = nextId
           \/ op \in CreatesRow /\ id = nextId /\ nextId \in Id /\ nextId' = nextId + 1
  BY DEF ReadRow
<1>1. PICK id :
        /\ Open(r, op, id)
        /\ \/ op \notin CreatesRow /\ nextId' = nextId
           \/ op \in CreatesRow /\ id = nextId /\ nextId \in Id /\ nextId' = nextId + 1
  BY <1>0
<1>2. req'[r] = [pc |-> "row", op |-> op, seen |-> Loaded(cust), new |-> Loaded(cust), id |-> id]
  BY <1>1 DEF Open, OneOpen, TypeOK
<1>3. cust' = cust /\ nextId \in Int /\ nextId' \in {nextId, nextId + 1}
  BY <1>1, MaxIdsAssumption DEF ReadRow, OneOpen, TypeOK
<1>4. \A i \in Used(cust) : i \in Int /\ i < nextId
  BY MaxIdsAssumption DEF OneOpen, Used, Id
<1>5. Alone(req[r])'
  BY <1>1, <1>2, <1>3, <1>4 DEF Alone
<1>6. \A i \in Used(cust)' : i < nextId'
  BY <1>3, <1>4
<1>7. QED
  BY <1>5, <1>6 DEF OneOpen

LEMMA StoreDocumentOneOpen ==
  ASSUME OneOpen, TypeOK', NEW r \in Req, \A t \in Req : t = r, StoreDocument(r)
  PROVE  OneOpen'
<1>1. PICK ocrPass \in BOOLEAN :
        req' = [req EXCEPT ![r].pc = "stored",
                           ![r].new = UploadStored(req[r].seen, KindOf(req[r].op), ocrPass)]
  BY DEF StoreDocument
<1>2. /\ cust' = cust /\ nextId' = nextId /\ req[r].pc = "row"
      /\ req[r].op \in Uploads /\ CanUpload(req[r].seen, KindOf(req[r].op))
  BY DEF StoreDocument
<1>3. /\ req'[r].seen = req[r].seen /\ req'[r].op = req[r].op /\ req'[r].pc = "stored"
      /\ req'[r].new = UploadStored(req[r].seen, KindOf(req[r].op), ocrPass)
  BY <1>1 DEF OneOpen, TypeOK, Request
<1>4. req[r].seen = Loaded(cust)
  BY <1>2 DEF OneOpen, Alone
<1>5. Alone(req[r])'
  BY <1>2, <1>3, <1>4 DEF Alone, Uploads, CreatesRow
<1>6. QED
  BY <1>2, <1>5 DEF OneOpen

LEMMA ReadRelatedOneOpen ==
  ASSUME OneOpen, TypeOK', NEW r \in Req, \A t \in Req : t = r, ReadRelated(r)
  PROVE  OneOpen'
<1>1. PICK seen, own :
        /\ seen = Related(req[r].seen)
        /\ own = [seen EXCEPT !.status = req[r].new.status, !.docs = @ \cup req[r].new.docs]
        /\ req' = [req EXCEPT ![r].pc = "read", ![r].seen = seen, ![r].new = own]
  BY DEF ReadRelated
<1>2. /\ cust' = cust /\ nextId' = nextId
      /\ req[r].pc = IF req[r].op \in Uploads THEN "stored" ELSE "row"
  BY DEF ReadRelated
<1>3. cust \in View /\ req[r].seen = Loaded(cust)
  BY <1>2 DEF OneOpen, TypeOK, Alone
<1>4. seen = Unpatched(cust)
  BY <1>1, <1>3 DEF Related, Loaded, NewCustomer, Unpatched, View
<1>5. /\ req'[r].seen = seen /\ req'[r].new = own /\ req'[r].pc = "read"
      /\ req'[r].op = req[r].op /\ req'[r].id = req[r].id
  BY <1>1 DEF OneOpen, TypeOK, Request
<1>6. ASSUME req[r].op \notin Uploads PROVE own = Unpatched(cust)
  <2>1. req[r].new = Loaded(cust)
    BY <1>2, <1>6 DEF OneOpen, Alone
  <2>2. req[r].new.status = cust.status /\ req[r].new.docs = {}
    BY <2>1 DEF Loaded, NewCustomer
  <2>3. QED
    BY <1>1, <1>3, <1>4, <2>2 DEF Unpatched, View
<1>7. ASSUME req[r].op \in Uploads
      PROVE  /\ CanUpload(Unpatched(cust), KindOf(req[r].op))
             /\ \E ocrPass \in BOOLEAN :
                  own = UploadStored(Unpatched(cust), KindOf(req[r].op), ocrPass)
  <2>1. PICK ocrPass \in BOOLEAN :
          /\ CanUpload(Loaded(cust), KindOf(req[r].op))
          /\ req[r].new = UploadStored(Loaded(cust), KindOf(req[r].op), ocrPass)
    BY <1>2, <1>7 DEF OneOpen, Alone
  <2>2. Loaded(cust).status = cust.status /\ Loaded(cust).docs = {}
    BY DEF Loaded, NewCustomer
  <2>3. req[r].new.docs = {KindOf(req[r].op)}
    BY <2>1, <2>2 DEF UploadStored, Loaded, NewCustomer
  <2>4. req[r].new.status = UploadStored(Unpatched(cust), KindOf(req[r].op), ocrPass).status
    BY <1>3, <2>1, <2>2 DEF UploadStored, Loaded, NewCustomer, Unpatched, View
  <2>5. own = UploadStored(Unpatched(cust), KindOf(req[r].op), ocrPass)
    BY <1>1, <1>3, <1>4, <2>3, <2>4 DEF UploadStored, Unpatched, View
  <2>6. CanUpload(Unpatched(cust), KindOf(req[r].op))
    BY <1>3, <2>1, <2>2 DEF CanUpload, Unpatched, View
  <2>7. QED
    BY <2>5, <2>6
<1>8. Alone(req[r])'
  BY <1>2, <1>4, <1>5, <1>6, <1>7 DEF OneOpen, Alone
<1>9. QED
  BY <1>2, <1>8 DEF OneOpen

LEMMA HandlerOneOpen ==
  ASSUME OneOpen, TypeOK', NEW r \in Req, \A t \in Req : t = r, Handler(r)
  PROVE  OneOpen'
<1>1. PICK w : Finish(r, w)
  BY HandlerEnds DEF OneOpen
<1>2. req'[r] = Idle /\ nextId' = nextId
  BY <1>1 DEF Finish, OneOpen, TypeOK
<1>3. Alone(req[r])'
  BY <1>2 DEF Alone, Idle
<1>4. PICK ids \in SUBSET Id :
        /\ Used(cust') \subseteq Used(cust) \cup ids
        /\ ids # {} => ids = {req[r].id} /\ req[r].id < nextId
  BY HandlerIsEndpoint
<1>5. \A i \in Used(cust)' : i < nextId'
  BY <1>2, <1>4 DEF OneOpen
<1>6. QED
  BY <1>3, <1>5 DEF OneOpen

LEMMA StepOneOpen ==
  ASSUME \A r, t \in Req : r = t, OneOpen, [Next]_vars
  PROVE  OneOpen'
<1>1. TypeOK'
  BY StepType DEF OneOpen
<1>2. CASE UNCHANGED vars
  BY <1>1, <1>2 DEF OneOpen, Alone, vars
<1>3. ASSUME NEW r \in Req, Rollback(r) PROVE OneOpen'
  <2>1. req'[r] = Idle /\ nextId' = nextId /\ cust' = cust
    BY <1>3 DEF Rollback, OneOpen, TypeOK
  <2>2. Alone(req[r])'
    BY <2>1 DEF Alone, Idle
  <2>3. QED
    BY <1>1, <2>1, <2>2 DEF OneOpen
<1>4. QED
  BY <1>1, <1>2, <1>3, ReadRowOneOpen, StoreDocumentOneOpen, ReadRelatedOneOpen,
     HandlerOneOpen DEF Next

(* When there is one request at a time, every transaction of the detailed  *)
(* model (its reads, its flush under the row lock, its column-wise commit, *)
(* its rollback) amounts to one atomic endpoint of CustomerLifecycle, so   *)
(* what is proved there holds of the transactions.                         *)
THEOREM OneRequestIsSerial ==
  ASSUME \A r, t \in Req : r = t
  PROVE  Spec => OneAtATime
<1>1. Init => OneOpen /\ Serial!Init
  BY InitOneOpen DEF Init, Serial!Init, NewCustomer, Serial!NewCustomer, Id, Serial!Id
<1>2. OneOpen /\ [Next]_vars => OneOpen'
  BY StepOneOpen
<1>3. OneOpen /\ [Next]_vars => [Serial!Next]_cust
  <2> SUFFICES ASSUME OneOpen, [Next]_vars, cust' # cust PROVE Serial!Next
    OBVIOUS
  <2>1. PICK r \in Req : Handler(r)
    BY DEF Next, vars, ReadRow, StoreDocument, ReadRelated, Rollback
  <2>2. QED
    BY <2>1, HandlerIsEndpoint
<1>4. QED
  BY <1>1, <1>2, <1>3, PTL DEF Spec, OneAtATime, Serial!Spec
=============================================================================
