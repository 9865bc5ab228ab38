------------------------ MODULE CustomerLifecycleProofs ------------------------
(***************************************************************************)
(* For every MaxIds and every set of nationalities: what long sequences of *)
(* customer requests, one after the other, keep.                           *)
(***************************************************************************)
EXTENDS CustomerLifecycle, TLAPS, NaturalsInduction, WellFoundedInduction

(* The values a scoring may return are tiers. *)
LEMMA ScoredTiersType == ScoredTiers \subseteq RiskTier
  BY DEF ScoredTiers, ScoreCustomerRisk, RiskTier

(* Every handler turns a view into a view. *)
LEMMA PatchType ==
  ASSUME NEW v \in View, NEW status \in KycStatus, NEW tier \in RiskTier
  PROVE  Patch(v, status, tier) \in View
  BY DEF Patch, View

LEMMA VerifyIdentityType ==
  ASSUME NEW v \in View, NEW answer
  PROVE  VerifyIdentity(v, answer) \in View
  BY DEF VerifyIdentity, View, KycStatus

LEMMA ScoreRiskType ==
  ASSUME NEW v \in View, NEW tier \in RiskTier
  PROVE  ScoreRisk(v, tier) \in View
<1>1. StatusAfterScore(v.status, tier) \in KycStatus
  BY DEF StatusAfterScore, View, KycStatus
<1>2. QED
  BY <1>1 DEF ScoreRisk, View

LEMMA RunKycPipelineType ==
  ASSUME NEW v \in View, NEW hasCnic, NEW answer, NEW tier \in RiskTier
  PROVE  RunKycPipeline(v, hasCnic, answer, tier) \in View
  BY VerifyIdentityType, ScoreRiskType DEF RunKycPipeline

LEMMA UploadStoredType ==
  ASSUME NEW v \in View, NEW kind \in DocKind, NEW ocrPass
  PROVE  UploadStored(v, kind, ocrPass) \in View
  BY DEF UploadStored, View, KycStatus

LEMMA FaceMatchType ==
  ASSUME NEW v \in View, NEW kind, NEW faceOk
  PROVE  FaceMatch(v, kind, faceOk) \in View
  BY DEF FaceMatch, View, KycStatus

LEMMA StartEddType ==
  ASSUME NEW v \in View, NEW id
  PROVE  StartEdd(v, id) \in View
  BY DEF StartEdd, View, KycStatus, CaseState

LEMMA SubmitSourceOfFundsType ==
  ASSUME NEW v \in View, NEW verified
  PROVE  SubmitSourceOfFunds(v, verified) \in View
  BY DEF SubmitSourceOfFunds, View, Funds

LEMMA DecideEddType ==
  ASSUME NEW v \in View, NEW verdict \in {"approved", "rejected"}
  PROVE  DecideEdd(v, verdict) \in View
  BY DEF DecideEdd, View, KycStatus, CaseState

LEMMA FreezeType ==
  ASSUME NEW v \in View, NEW id
  PROVE  Freeze(v, id) \in View
  BY DEF Freeze, View, KycStatus, FreezeState

LEMMA ReportFreezeType ==
  ASSUME NEW v \in View
  PROVE  ReportFreezeToFmu(v) \in View
  BY DEF ReportFreezeToFmu, View, FreezeState

LEMMA UnfreezeType ==
  ASSUME NEW v \in View, NEW reason
  PROVE  Unfreeze(v, reason) \in View
  BY DEF Unfreeze, View, KycStatus, FreezeState

-----------------------------------------------------------------------------
LEMMA InitType == Init => TypeOK
  BY DEF Init, TypeOK, NewCustomer, View, KycStatus, RiskTier, CaseState, Funds, FreezeState

LEMMA StepType == TypeOK /\ [Next]_cust => TypeOK'
<1> SUFFICES ASSUME cust \in View, [Next]_cust PROVE cust' \in View
  BY DEF TypeOK
<1>1. CASE PatchCustomer
  BY <1>1, PatchType DEF PatchCustomer
<1>2. CASE VerifyNadra
  BY <1>2, VerifyIdentityType DEF VerifyNadra
<1>3. CASE ScoreRiskRequest
  BY <1>3, ScoreRiskType, ScoredTiersType DEF ScoreRiskRequest
<1>4. CASE RunPipeline
  BY <1>4, RunKycPipelineType, ScoredTiersType DEF RunPipeline
<1>5. CASE UploadDocument
  BY <1>5, UploadStoredType, FaceMatchType DEF UploadDocument
<1>6. CASE StartEddRequest
  BY <1>6, StartEddType DEF StartEddRequest
<1>7. CASE SubmitFunds
  BY <1>7, SubmitSourceOfFundsType DEF SubmitFunds
<1>8. CASE ApproveEdd
  BY <1>8, DecideEddType DEF ApproveEdd
<1>9. CASE RejectEdd
  BY <1>9, DecideEddType DEF RejectEdd
<1>10. CASE FreezeCustomer
  BY <1>10, FreezeType DEF FreezeCustomer
<1>11. CASE ReportFreeze
  BY <1>11, ReportFreezeType DEF ReportFreeze
<1>12. CASE UnfreezeCustomer
  BY <1>12, UnfreezeType DEF UnfreezeCustomer
<1>13. CASE UNCHANGED cust
  BY <1>13
<1>14. QED
  BY <1>1, <1>2, <1>3, <1>4, <1>5, <1>6, <1>7, <1>8, <1>9, <1>10, <1>11, <1>12, <1>13 DEF Next

(* Type correctness: no request leaves a value outside its column's type.  *)
THEOREM TypeCorrect == Spec => []TypeOK
  BY InitType, StepType, PTL DEF Spec

-----------------------------------------------------------------------------
(***************************************************************************)
(* The handlers by what they leave alone: the status moves of the          *)
(* automated steps, and the rows that the EDD and freeze handlers touch.   *)
(***************************************************************************)
LEMMA PatchFacts ==
  ASSUME NEW v \in View, NEW status \in KycStatus, NEW tier \in RiskTier,
         CanTransition(v.status, status)
  PROVE  LET w == Patch(v, status, tier) IN
         /\ w.cases = v.cases /\ w.funds = v.funds /\ w.freezes = v.freezes
         /\ w.docs = v.docs
         /\ w.status = v.status \/ <<v.status, w.status>> \in KycTransitions
         /\ w.status # v.status => w.patched
         /\ w.status = v.status => w.patched = v.patched
  BY DEF Patch, View, CanTransition

(* The moves of verification, scoring, the pipeline and document uploads. *)
AutomatedMoves ==
  {<<"initiated", "documents_uploaded">>, <<"initiated", "identity_verified">>,
   <<"initiated", "liveness_checked">>,
   <<"documents_uploaded", "identity_verified">>,
   <<"documents_uploaded", "liveness_checked">>,
   <<"identity_verified", "liveness_checked">>,
   <<"liveness_checked", "risk_scored">>,
   <<"risk_scored", "rejected">>, <<"risk_scored", "edd_required">>}

(* An automated step: it moves the status along AutomatedMoves, and may    *)
(* complete the liveness check only with both documents on file.           *)
Automated(v, w) ==
  /\ w.cases = v.cases /\ w.funds = v.funds /\ w.freezes = v.freezes
  /\ v.docs \subseteq w.docs /\ w.patched = v.patched
  /\ w.status = v.status \/ <<v.status, w.status>> \in AutomatedMoves
  /\ v.status # "liveness_checked" /\ w.status = "liveness_checked"
       => {"id", "selfie"} \subseteq w.docs

LEMMA VerifyIdentityFacts ==
  ASSUME NEW v \in View, NEW answer
  PROVE  Automated(v, VerifyIdentity(v, answer))
  BY DEF Automated, AutomatedMoves, VerifyIdentity, View

LEMMA ScoreRiskFacts ==
  ASSUME NEW v \in View, NEW tier \in RiskTier
  PROVE  Automated(v, ScoreRisk(v, tier))
<1>1. LET s == StatusAfterScore(v.status, tier)
      IN  s = v.status \/ (<<v.status, s>> \in AutomatedMoves /\ s # "liveness_checked")
  BY DEF StatusAfterScore, AutomatedMoves, View, KycStatus
<1>2. QED
  BY <1>1 DEF Automated, ScoreRisk, View

LEMMA RunKycPipelineFacts ==
  ASSUME NEW v \in View, NEW hasCnic, NEW answer, NEW tier \in RiskTier
  PROVE  Automated(v, RunKycPipeline(v, hasCnic, answer, tier))
<1> DEFINE w == IF NeedsNadra(v, hasCnic) THEN VerifyIdentity(v, answer) ELSE v
<1>1. CASE NeedsNadra(v, hasCnic)
  <2>1. w.status \in {"documents_uploaded", "identity_verified"}
    BY <1>1 DEF NeedsNadra, VerifyIdentity, View
  <2>2. RunKycPipeline(v, hasCnic, answer, tier) = VerifyIdentity(v, answer)
    BY <1>1, <2>1 DEF RunKycPipeline
  <2>3. QED
    BY <2>2, VerifyIdentityFacts
<1>2. CASE ~NeedsNadra(v, hasCnic)
  <2>1. Automated(v, v)
    BY DEF Automated
  <2>2. QED
    BY <1>2, <2>1, ScoreRiskFacts DEF RunKycPipeline
<1>3. QED
  BY <1>1, <1>2

LEMMA UploadFacts ==
  ASSUME NEW v \in View, NEW kind \in DocKind, NEW ocrPass, NEW faceOk
  PROVE  Automated(v, FaceMatch(UploadStored(v, kind, ocrPass), kind, faceOk))
<1>0. PICK u : u = UploadStored(v, kind, ocrPass)
  OBVIOUS
<1>1. /\ u \in View
      /\ u.cases = v.cases /\ u.funds = v.funds /\ u.freezes = v.freezes
      /\ u.docs = v.docs \cup {kind} /\ u.patched = v.patched
  BY <1>0, UploadStoredType DEF UploadStored, View
<1>2. \/ u.status = v.status
      \/ <<v.status, u.status>> \in {<<"initiated", "documents_uploaded">>,
           <<"initiated", "identity_verified">>, <<"documents_uploaded", "identity_verified">>}
  BY <1>0 DEF UploadStored, View
<1>3. \/ FaceMatch(u, kind, faceOk) = u
      \/ /\ u.status = "identity_verified" /\ {"id", "selfie"} \subseteq u.docs
         /\ FaceMatch(u, kind, faceOk) = [u EXCEPT !.status = "liveness_checked"]
  BY <1>1 DEF FaceMatch, View
<1>4. CASE FaceMatch(u, kind, faceOk) = u
  BY <1>0, <1>1, <1>2, <1>4 DEF Automated, AutomatedMoves
<1>5. CASE /\ u.status = "identity_verified" /\ {"id", "selfie"} \subseteq u.docs
           /\ FaceMatch(u, kind, faceOk) = [u EXCEPT !.status = "liveness_checked"]
  BY <1>0, <1>1, <1>2, <1>5 DEF Automated, AutomatedMoves, View
<1>6. QED
  BY <1>3, <1>4, <1>5

(* The four automated endpoints are automated steps. *)
LEMMA AutomatedSteps ==
  ASSUME cust \in View,
         VerifyNadra \/ ScoreRiskRequest \/ RunPipeline \/ UploadDocument
  PROVE  Automated(cust, cust')
<1>1. CASE VerifyNadra
  BY <1>1, VerifyIdentityFacts DEF VerifyNadra
<1>2. CASE ScoreRiskRequest
  BY <1>2, ScoreRiskFacts, ScoredTiersType DEF ScoreRiskRequest
<1>3. CASE RunPipeline
  BY <1>3, RunKycPipelineFacts, ScoredTiersType DEF RunPipeline
<1>4. CASE UploadDocument
  BY <1>4, UploadFacts DEF UploadDocument
<1>5. QED
  BY <1>1, <1>2, <1>3, <1>4

LEMMA PatchSteps ==
  ASSUME cust \in View, PatchCustomer
  PROVE  /\ cust'.cases = cust.cases /\ cust'.funds = cust.funds
         /\ cust'.freezes = cust.freezes /\ cust'.docs = cust.docs
         /\ cust'.status = cust.status \/ <<cust.status, cust'.status>> \in KycTransitions
         /\ cust'.status # cust.status => cust'.patched
         /\ cust'.status = cust.status => cust'.patched = cust.patched
  BY PatchFacts DEF PatchCustomer

LEMMA StartEddSteps ==
  ASSUME cust \in View, StartEddRequest
  PROVE  \E id \in Id :
           /\ cust.status = "edd_required" /\ cust'.status = "edd_in_progress"
           /\ Cases(cust) = {}
           /\ cust'.cases = [cust.cases EXCEPT ![id] = "pending"]
           /\ cust'.freezes = cust.freezes /\ cust'.funds = cust.funds
           /\ cust'.docs = cust.docs /\ cust'.patched = cust.patched
  BY DEF StartEddRequest, CanStartEdd, StartEdd, View

LEMMA DecideEddSteps ==
  ASSUME cust \in View, ApproveEdd \/ RejectEdd
  PROVE  \E i \in Id, verdict \in {"approved", "rejected"} :
           /\ cust.status = "edd_in_progress" /\ cust'.status = verdict
           /\ Cases(cust) = {i} /\ cust.cases[i] = "pending"
           /\ cust'.cases = [cust.cases EXCEPT ![i] = verdict]
           /\ cust'.freezes = cust.freezes /\ cust'.funds = cust.funds
           /\ cust'.docs = cust.docs /\ cust'.patched = cust.patched
<1>1. PICK verdict \in {"approved", "rejected"} :
        CanDecideEdd(cust) /\ cust' = DecideEdd(cust, verdict)
  BY DEF ApproveEdd, RejectEdd
<1>2. PICK i \in Id : Cases(cust) = {i} /\ cust.cases[i] = "pending"
  BY <1>1 DEF CanDecideEdd, HasOneCase
<1>3. cust'.cases = [j \in Id |-> IF j \in Cases(cust) THEN verdict ELSE cust.cases[j]]
  BY <1>1 DEF DecideEdd, View
<1>4. cust'.cases = [cust.cases EXCEPT ![i] = verdict]
  BY <1>2, <1>3 DEF View
<1>5. QED
  BY <1>1, <1>2, <1>4 DEF CanDecideEdd, DecideEdd, View

LEMMA SubmitFundsSteps ==
  ASSUME cust \in View, SubmitFunds
  PROVE  /\ \E i \in Id : /\ Cases(cust) = {i} /\ cust.cases[i] = "pending"
                          /\ \A j \in Id \ {i} : cust'.funds[j] = cust.funds[j]
         /\ cust'.status = cust.status /\ cust'.cases = cust.cases
         /\ cust'.freezes = cust.freezes
         /\ cust'.docs = cust.docs /\ cust'.patched = cust.patched
<1>1. PICK verified \in BOOLEAN : cust' = SubmitSourceOfFunds(cust, verified)
  BY DEF SubmitFunds
<1>2. PICK i \in Id : Cases(cust) = {i} /\ cust.cases[i] = "pending"
  BY DEF SubmitFunds, CanSubmitSourceOfFunds, HasOneCase
<1>3. \A j \in Id \ {i} : cust'.funds[j] = cust.funds[j]
  BY <1>1, <1>2 DEF SubmitSourceOfFunds, View
<1>4. QED
  BY <1>1, <1>2, <1>3 DEF SubmitSourceOfFunds, View

(* A non-empty set of row numbers has a largest one. *)
LEMMA SmallestOfNaturals ==
  ASSUME NEW T, T \subseteq Nat, T # {}
  PROVE  \E m \in T : \A n \in T : m <= n
<1>1. OpToRel(<, Nat) = {ss \in Nat \X Nat : ss[1] < ss[2]}
  BY DEF OpToRel
<1>2. PICK R : R = {ss \in Nat \X Nat : ss[1] < ss[2]} /\ IsWellFoundedOn(R, Nat)
  BY <1>1, NatLessThanWellFounded
<1>3. PICK m \in T : \A n \in T : <<n, m>> \notin R
  BY <1>2, WFMin
<1>4. \A n \in T : ~(n < m)
  BY <1>2, <1>3
<1>5. QED
  BY <1>4

LEMMA LatestIsLargest ==
  ASSUME NEW S, S \subseteq Id, S # {}
  PROVE  Latest(S) \in S
<1>1. PICK T : T = {MaxIds - i : i \in S}
  OBVIOUS
<1>2. \A i \in S : i \in Int /\ MaxIds - i \in Nat
  BY MaxIdsAssumption DEF Id
<1>3. T \subseteq Nat
  BY <1>1, <1>2
<1>4. T # {}
  BY <1>1
<1>5. PICK m \in T : \A n \in T : m <= n
  BY <1>3, <1>4, SmallestOfNaturals
<1>6. PICK i \in S : m = MaxIds - i
  BY <1>1
<1>7. \A j \in S : MaxIds - i <= MaxIds - j
  BY <1>1, <1>5, <1>6
<1>8. \A j \in S : j <= i
  BY <1>2, <1>7, MaxIdsAssumption
<1>9. QED
  BY <1>8 DEF Latest

LEMMA FreezeSteps ==
  ASSUME cust \in View, FreezeCustomer
  PROVE  \E id \in Id :
           /\ cust'.status = "frozen" /\ cust'.freezes[id] = "frozen"
           /\ cust'.cases = cust.cases /\ cust'.funds = cust.funds
           /\ cust'.docs = cust.docs /\ cust'.patched = cust.patched
  BY DEF FreezeCustomer, Freeze, View

LEMMA ReportFreezeSteps ==
  ASSUME cust \in View, ReportFreeze
  PROVE  /\ \A i \in Id : cust.freezes[i] \in Active => cust'.freezes[i] \in Active
         /\ cust'.status = cust.status /\ cust'.cases = cust.cases
         /\ cust'.funds = cust.funds
         /\ cust'.docs = cust.docs /\ cust'.patched = cust.patched
  BY DEF ReportFreeze, ReportFreezeToFmu, View, Active

LEMMA UnfreezeSteps ==
  ASSUME cust \in View, UnfreezeCustomer
  PROVE  /\ \E i \in Records(cust, Active) : cust'.freezes[i] = "unfrozen"
         /\ cust'.status = "rejected" /\ cust'.cases = cust.cases
         /\ cust'.funds = cust.funds
         /\ cust'.docs = cust.docs /\ cust'.patched = cust.patched
<1>1. PICK reason \in UnfreezeReason : CanUnfreeze(cust) /\ cust' = Unfreeze(cust, reason)
  BY DEF UnfreezeCustomer
<1>2. PICK i : i = Latest(Records(cust, Active))
  OBVIOUS
<1>3. i \in Records(cust, Active)
  BY <1>1, <1>2, LatestIsLargest DEF CanUnfreeze, Records
<1>4. cust' = [cust EXCEPT !.freezes[i] = "unfrozen", !.status = "rejected"]
  BY <1>1, <1>2 DEF Unfreeze
<1>5. QED
  BY <1>3, <1>4 DEF View, Records

-----------------------------------------------------------------------------
(***************************************************************************)
(* The inductive invariant.  Each conjunct is preserved because every      *)
(* handler that moves the status also writes the row the conjunct relates  *)
(* it to, or checks that row first; given the types, none needs another.   *)
(***************************************************************************)
IInv ==
  /\ TypeOK
  /\ FrozenHasActiveRecord
  /\ EddCaseMatchesStatus
  /\ LivenessHasBothDocs
  /\ ApprovalHasDecision

LEMMA InitIInv == Init => IInv
<1> SUFFICES ASSUME Init PROVE IInv
  OBVIOUS
<1>1. TypeOK
  BY InitType
<1>2. Cases(cust) = {}
  BY DEF Init, NewCustomer, Cases
<1>3. cust.status = "initiated"
  BY DEF Init, NewCustomer
<1>4. QED
  BY <1>1, <1>2, <1>3 DEF IInv, FrozenHasActiveRecord, EddCaseMatchesStatus,
     LivenessHasBothDocs, ApprovalHasDecision, PastLiveness

(* A step that leaves cases and freeze records alone, as most do. *)
LEMMA SameRows ==
  ASSUME cust.cases' = cust.cases
  PROVE  Cases(cust)' = Cases(cust)
  BY DEF Cases

LEMMA StepFrozen ==
  ASSUME IInv, [Next]_cust
  PROVE  FrozenHasActiveRecord'
<1> USE DEF IInv, TypeOK
<1>1. CASE VerifyNadra \/ ScoreRiskRequest \/ RunPipeline \/ UploadDocument
  BY <1>1, AutomatedSteps DEF Automated, AutomatedMoves, FrozenHasActiveRecord, Records
<1>2. CASE PatchCustomer
  BY <1>2, PatchSteps DEF KycTransitions, FrozenHasActiveRecord, Records
<1>3. CASE StartEddRequest
  BY <1>3, StartEddSteps DEF FrozenHasActiveRecord
<1>4. CASE SubmitFunds
  BY <1>4, SubmitFundsSteps DEF FrozenHasActiveRecord, Records
<1>5. CASE ApproveEdd \/ RejectEdd
  BY <1>5, DecideEddSteps DEF FrozenHasActiveRecord
<1>6. CASE FreezeCustomer
  BY <1>6, FreezeSteps DEF FrozenHasActiveRecord, Records, Active
<1>7. CASE ReportFreeze
  BY <1>7, ReportFreezeSteps DEF FrozenHasActiveRecord, Records
<1>8. CASE UnfreezeCustomer
  BY <1>8, UnfreezeSteps DEF FrozenHasActiveRecord
<1>9. CASE UNCHANGED cust
  BY <1>9 DEF FrozenHasActiveRecord, Records
<1>10. QED
  BY <1>1, <1>2, <1>3, <1>4, <1>5, <1>6, <1>7, <1>8, <1>9 DEF Next

LEMMA StepEddCase ==
  ASSUME IInv, [Next]_cust
  PROVE  EddCaseMatchesStatus'
<1> USE DEF IInv, TypeOK
<1>1. CASE VerifyNadra \/ ScoreRiskRequest \/ RunPipeline \/ UploadDocument
  BY <1>1, AutomatedSteps DEF Automated, AutomatedMoves, EddCaseMatchesStatus, Cases
<1>2. CASE PatchCustomer
  BY <1>2, PatchSteps DEF KycTransitions, EddCaseMatchesStatus, Cases
<1>3. CASE StartEddRequest
  <2>1. PICK id \in Id : /\ cust'.status = "edd_in_progress" /\ Cases(cust) = {}
                        /\ cust'.cases = [cust.cases EXCEPT ![id] = "pending"]
    BY <1>3, StartEddSteps
  <2>2. Cases(cust)' = {id} /\ cust'.cases[id] = "pending"
    BY <2>1 DEF Cases, View
  <2>3. QED
    BY <2>1, <2>2 DEF EddCaseMatchesStatus
<1>4. CASE SubmitFunds
  BY <1>4, SubmitFundsSteps DEF EddCaseMatchesStatus, Cases
<1>5. CASE ApproveEdd \/ RejectEdd
  <2>1. PICK i \in Id, verdict \in {"approved", "rejected"} :
          /\ cust'.status = verdict
          /\ Cases(cust) = {i} /\ cust.cases[i] = "pending"
          /\ cust'.cases = [cust.cases EXCEPT ![i] = verdict]
    BY <1>5, DecideEddSteps
  <2>2. Cases(cust)' = {i} /\ cust'.cases[i] = verdict
    BY <2>1 DEF Cases, View
  <2>3. QED
    BY <2>1, <2>2 DEF EddCaseMatchesStatus
<1>6. CASE FreezeCustomer
  BY <1>6, FreezeSteps DEF EddCaseMatchesStatus, Cases
<1>7. CASE ReportFreeze
  BY <1>7, ReportFreezeSteps DEF EddCaseMatchesStatus, Cases
<1>8. CASE UnfreezeCustomer
  BY <1>8, UnfreezeSteps DEF EddCaseMatchesStatus, Cases
<1>9. CASE UNCHANGED cust
  BY <1>9 DEF EddCaseMatchesStatus, Cases
<1>10. QED
  BY <1>1, <1>2, <1>3, <1>4, <1>5, <1>6, <1>7, <1>8, <1>9 DEF Next

LEMMA StepLiveness ==
  ASSUME IInv, [Next]_cust
  PROVE  LivenessHasBothDocs'
<1> USE DEF IInv, TypeOK, LivenessHasBothDocs, PastLiveness
<1>1. CASE VerifyNadra \/ ScoreRiskRequest \/ RunPipeline \/ UploadDocument
  BY <1>1, AutomatedSteps DEF Automated, AutomatedMoves
<1>2. CASE PatchCustomer
  BY <1>2, PatchSteps
<1>3. CASE StartEddRequest
  BY <1>3, StartEddSteps
<1>4. CASE SubmitFunds
  BY <1>4, SubmitFundsSteps
<1>5. CASE ApproveEdd \/ RejectEdd
  BY <1>5, DecideEddSteps
<1>6. CASE FreezeCustomer
  BY <1>6, FreezeSteps
<1>7. CASE ReportFreeze
  BY <1>7, ReportFreezeSteps
<1>8. CASE UnfreezeCustomer
  BY <1>8, UnfreezeSteps
<1>9. CASE UNCHANGED cust
  BY <1>9
<1>10. QED
  BY <1>1, <1>2, <1>3, <1>4, <1>5, <1>6, <1>7, <1>8, <1>9 DEF Next

LEMMA StepApproval ==
  ASSUME IInv, [Next]_cust
  PROVE  ApprovalHasDecision'
<1> USE DEF IInv, TypeOK, ApprovalHasDecision
<1>1. CASE VerifyNadra \/ ScoreRiskRequest \/ RunPipeline \/ UploadDocument
  BY <1>1, AutomatedSteps DEF Automated, AutomatedMoves
<1>2. CASE PatchCustomer
  BY <1>2, PatchSteps
<1>3. CASE StartEddRequest
  BY <1>3, StartEddSteps
<1>4. CASE SubmitFunds
  BY <1>4, SubmitFundsSteps
<1>5. CASE ApproveEdd \/ RejectEdd
  BY <1>5, DecideEddSteps DEF View
<1>6. CASE FreezeCustomer
  BY <1>6, FreezeSteps
<1>7. CASE ReportFreeze
  BY <1>7, ReportFreezeSteps
<1>8. CASE UnfreezeCustomer
  BY <1>8, UnfreezeSteps
<1>9. CASE UNCHANGED cust
  BY <1>9
<1>10. QED
  BY <1>1, <1>2, <1>3, <1>4, <1>5, <1>6, <1>7, <1>8, <1>9 DEF Next

LEMMA Invariance == Spec => []IInv
<1>1. IInv /\ [Next]_cust => IInv'
  BY StepType, StepFrozen, StepEddCase, StepLiveness, StepApproval DEF IInv
<1>2. QED
  BY InitIInv, <1>1, PTL DEF Spec

(* A frozen customer can always be found by unfreeze. *)
THEOREM FrozenAlwaysReleasable == Spec => []FrozenHasActiveRecord
  BY Invariance, PTL DEF IInv

(* The EDD case and the customer never contradict each other. *)
THEOREM EddCaseConsistent == Spec => []EddCaseMatchesStatus
  BY Invariance, PTL DEF IInv

(* Without PATCH, the liveness check is passed only with both documents.   *)
THEOREM LivenessNeedsDocuments == Spec => []LivenessHasBothDocs
  BY Invariance, PTL DEF IInv

(* Without PATCH, approval is a senior decision on an EDD case. *)
THEOREM ApprovalNeedsDecision == Spec => []ApprovalHasDecision
  BY Invariance, PTL DEF IInv

-----------------------------------------------------------------------------
(* Only unfreeze leaves "frozen", and it releases an active record. *)
THEOREM OnlyUnfreezeLeavesFrozen == Spec => FrozenLeavesByUnfreeze
<1> DEFINE A == cust.status = "frozen" /\ cust'.status # "frozen" =>
                  \E i \in Records(cust, Active) : cust'.freezes[i] = "unfrozen"
<1>1. ASSUME TypeOK, Next PROVE A
  <2> USE <1>1 DEF TypeOK
  <2>1. CASE VerifyNadra \/ ScoreRiskRequest \/ RunPipeline \/ UploadDocument
    BY <2>1, AutomatedSteps DEF Automated, AutomatedMoves
  <2>2. CASE PatchCustomer
    BY <2>2, PatchSteps DEF KycTransitions
  <2>3. CASE StartEddRequest
    BY <2>3, StartEddSteps
  <2>4. CASE SubmitFunds
    BY <2>4, SubmitFundsSteps
  <2>5. CASE ApproveEdd \/ RejectEdd
    BY <2>5, DecideEddSteps
  <2>6. CASE FreezeCustomer
    BY <2>6, FreezeSteps
  <2>7. CASE ReportFreeze
    BY <2>7, ReportFreezeSteps
  <2>8. CASE UnfreezeCustomer
    BY <2>8, UnfreezeSteps
  <2>9. QED
    BY <2>1, <2>2, <2>3, <2>4, <2>5, <2>6, <2>7, <2>8 DEF Next
<1>2. TypeOK /\ [Next]_cust => [A]_cust
  BY <1>1
<1>3. QED
  BY TypeCorrect, <1>2, PTL DEF Spec, FrozenLeavesByUnfreeze

(* A decided or frozen customer never goes back into onboarding. *)
THEOREM DecidedCustomerStays == Spec => DecidedStays
<1> DEFINE A == /\ cust.status \in {"approved", "rejected", "frozen"} =>
                     cust'.status \in {"approved", "rejected", "frozen"}
                /\ cust.status = "rejected" => cust'.status # "approved"
<1>1. ASSUME TypeOK, Next PROVE A
  <2> USE <1>1 DEF TypeOK
  <2>1. CASE VerifyNadra \/ ScoreRiskRequest \/ RunPipeline \/ UploadDocument
    BY <2>1, AutomatedSteps DEF Automated, AutomatedMoves
  <2>2. CASE PatchCustomer
    BY <2>2, PatchSteps DEF KycTransitions
  <2>3. CASE StartEddRequest
    BY <2>3, StartEddSteps
  <2>4. CASE SubmitFunds
    BY <2>4, SubmitFundsSteps
  <2>5. CASE ApproveEdd \/ RejectEdd
    BY <2>5, DecideEddSteps
  <2>6. CASE FreezeCustomer
    BY <2>6, FreezeSteps
  <2>7. CASE ReportFreeze
    BY <2>7, ReportFreezeSteps
  <2>8. CASE UnfreezeCustomer
    BY <2>8, UnfreezeSteps
  <2>9. QED
    BY <2>1, <2>2, <2>3, <2>4, <2>5, <2>6, <2>7, <2>8 DEF Next
<1>2. TypeOK /\ [Next]_cust => [A]_cust
  BY <1>1
<1>3. QED
  BY TypeCorrect, <1>2, PTL DEF Spec, DecidedStays

(* The source of funds on file is the one that the decision was taken on. *)
THEOREM FundsFixed == Spec => FundsFixedByDecision
<1> DEFINE A == \A i \in Id : cust.cases[i] \in {"approved", "rejected"} =>
                  cust'.funds[i] = cust.funds[i]
<1>1. ASSUME TypeOK, Next PROVE A
  <2> USE <1>1 DEF TypeOK
  <2>1. CASE VerifyNadra \/ ScoreRiskRequest \/ RunPipeline \/ UploadDocument
    BY <2>1, AutomatedSteps DEF Automated
  <2>2. CASE PatchCustomer
    BY <2>2, PatchSteps
  <2>3. CASE StartEddRequest
    BY <2>3, StartEddSteps
  <2>4. CASE SubmitFunds
    BY <2>4, SubmitFundsSteps
  <2>5. CASE ApproveEdd \/ RejectEdd
    BY <2>5, DecideEddSteps
  <2>6. CASE FreezeCustomer
    BY <2>6, FreezeSteps
  <2>7. CASE ReportFreeze
    BY <2>7, ReportFreezeSteps
  <2>8. CASE UnfreezeCustomer
    BY <2>8, UnfreezeSteps
  <2>9. QED
    BY <2>1, <2>2, <2>3, <2>4, <2>5, <2>6, <2>7, <2>8 DEF Next
<1>2. TypeOK /\ [Next]_cust => [A]_cust
  BY <1>1
<1>3. QED
  BY TypeCorrect, <1>2, PTL DEF Spec, FundsFixedByDecision
=============================================================================
