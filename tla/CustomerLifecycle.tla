--------------------------- MODULE CustomerLifecycle ---------------------------
(***************************************************************************)
(* The life of one customer when its requests do not overlap: each action  *)
(* is one endpoint, from its first read to its commit.  A request that     *)
(* raises is rolled back and is no step.  Customers share no row, so one   *)
(* stands for all.                                                         *)
(***************************************************************************)
EXTENDS CustomerHandlers

VARIABLE cust      \* the customer and its rows, as committed

TypeOK == cust \in View

Init == cust = NewCustomer

(* A request that creates a row gives it a number above those in use; the  *)
(* bound MaxIds ends the creation of rows.                                 *)
Fresh(id) == \A i \in Used(cust) : i < id

PatchCustomer ==
  \E status \in KycStatus, tier \in RiskTier :
    CanTransition(cust.status, status) /\ cust' = Patch(cust, status, tier)

VerifyNadra ==
  \E answer \in {"pass", "fail", "pending"} : cust' = VerifyIdentity(cust, answer)

ScoreRiskRequest == \E tier \in ScoredTiers : cust' = ScoreRisk(cust, tier)

RunPipeline ==
  \E hasCnic \in BOOLEAN, answer \in {"pass", "fail", "pending"}, tier \in ScoredTiers :
    cust' = RunKycPipeline(cust, hasCnic, answer, tier)

UploadDocument ==
  \E kind \in DocKind, ocrPass, faceOk \in BOOLEAN :
    /\ CanUpload(cust, kind)
    /\ cust' = FaceMatch(UploadStored(cust, kind, ocrPass), kind, faceOk)

StartEddRequest ==
  \E id \in Id : Fresh(id) /\ CanStartEdd(cust) /\ cust' = StartEdd(cust, id)

SubmitFunds ==
  \E verified \in BOOLEAN :
    CanSubmitSourceOfFunds(cust) /\ cust' = SubmitSourceOfFunds(cust, verified)

ApproveEdd ==
  \E role \in UserRole :
    role \in EddApproverRoles /\ CanDecideEdd(cust) /\ cust' = DecideEdd(cust, "approved")

RejectEdd ==
  \E role \in UserRole :
    role \in EddApproverRoles /\ CanDecideEdd(cust) /\ cust' = DecideEdd(cust, "rejected")

FreezeCustomer ==
  \E role \in UserRole, id \in Id :
    role \in FreezeRoles /\ Fresh(id) /\ cust' = Freeze(cust, id)

ReportFreeze == CanReportFreeze(cust) /\ cust' = ReportFreezeToFmu(cust)

UnfreezeCustomer ==
  \E role \in UserRole, reason \in UnfreezeReason :
    role \in UnfreezeRoles /\ CanUnfreeze(cust) /\ cust' = Unfreeze(cust, reason)

Next ==
  \/ PatchCustomer \/ VerifyNadra \/ ScoreRiskRequest \/ RunPipeline
  \/ UploadDocument
  \/ StartEddRequest \/ SubmitFunds \/ ApproveEdd \/ RejectEdd
  \/ FreezeCustomer \/ ReportFreeze \/ UnfreezeCustomer

Spec == Init /\ [][Next]_cust

-----------------------------------------------------------------------------
(***************************************************************************)
(* Safety.                                                                 *)
(***************************************************************************)
(* A frozen customer always has a freeze record that unfreeze can find:    *)
(* without one the endpoint answers 404 and nothing else leaves "frozen".  *)
FrozenHasActiveRecord == cust.status = "frozen" => Records(cust, Active) # {}

(* What the EDD case says and what the customer is do not contradict each  *)
(* other: a case exists only from edd_in_progress on, an approved case     *)
(* belongs to a customer that was approved (and perhaps frozen and released*)
(* since), a rejected case never to an approved one, and there is at most  *)
(* one case.                                                               *)
EddCaseMatchesStatus ==
  /\ \A i, j \in Cases(cust) : i = j
  /\ \A i \in Cases(cust) :
       /\ cust.status \in {"edd_in_progress", "approved", "rejected", "frozen"}
       /\ cust.cases[i] = "approved" => cust.status # "edd_in_progress"
       /\ cust.cases[i] = "rejected" => cust.status \in {"rejected", "frozen"}

(* The statuses that onboarding reaches only through the liveness check. *)
PastLiveness == {"liveness_checked", "risk_scored", "edd_required",
                 "edd_in_progress", "approved"}

(* Unless PATCH moved the customer, one past the liveness check has an     *)
(* identity document and a selfie on file, whatever order they came in.    *)
LivenessHasBothDocs ==
  ~cust.patched /\ cust.status \in PastLiveness => {"id", "selfie"} \subseteq cust.docs

(* Unless PATCH moved the customer, an approved one was approved by a      *)
(* senior decision on its EDD case: no automated step approves.            *)
ApprovalHasDecision ==
  ~cust.patched /\ cust.status = "approved" => \E i \in Id : cust.cases[i] = "approved"

(* Nothing but unfreeze takes a customer out of "frozen", and it then      *)
(* releases a record that was active.                                      *)
FrozenLeavesByUnfreeze ==
  [][cust.status = "frozen" /\ cust'.status # "frozen" =>
       \E i \in Records(cust, Active) : cust'.freezes[i] = "unfrozen"]_cust

(* A customer that was decided or frozen never goes back into onboarding,  *)
(* and a rejected one is never approved.                                   *)
DecidedStays ==
  [][/\ cust.status \in {"approved", "rejected", "frozen"} =>
          cust'.status \in {"approved", "rejected", "frozen"}
     /\ cust.status = "rejected" => cust'.status # "approved"]_cust

(* The source of funds of an EDD case is fixed once the case is decided.   *)
FundsFixedByDecision ==
  [][\A i \in Id : cust.cases[i] \in {"approved", "rejected"} =>
       cust'.funds[i] = cust.funds[i]]_cust

-----------------------------------------------------------------------------
(***************************************************************************)
(* What comments and docstrings of the code say and the code does not do.  *)
(***************************************************************************)
(* orchestrator.py: "Prohibited -> reject (handled by score_risk)": after  *)
(* the pipeline scored a customer prohibited, the customer is rejected.    *)
PipelineRejectsProhibited ==
  [][RunPipeline /\ cust.status = "liveness_checked" /\ cust'.tier = "prohibited"
       => cust'.status = "rejected"]_cust
=============================================================================
