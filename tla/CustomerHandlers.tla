--------------------------- MODULE CustomerHandlers ---------------------------
(***************************************************************************)
(* What each customer endpoint of the identity module does to a customer   *)
(* and the rows that hang off it, as operators on a VIEW: the values the   *)
(* request has read.  A handler h has an effect h(v, ...) and, when it can *)
(* refuse, a guard Can_h(v, ...).  CustomerLifecycle applies them to the   *)
(* database one request at a time; CustomerRequests lets requests overlap. *)
(*                                                                         *)
(* A view holds the columns the workflow decides on (status, tier), the    *)
(* kinds of documents stored, whether an identity verification result      *)
(* exists, the EDD cases and the freeze records of the customer.  The      *)
(* field "patched" is history: PATCH has moved the status at least once.   *)
(***************************************************************************)
EXTENDS Integers

CONSTANTS
  MaxIds,      \* how many EDD cases and freeze records are ever created
  Countries    \* the nationalities that the run scores

ASSUME MaxIdsAssumption == MaxIds \in Nat
ASSUME CountriesAssumption ==
  Countries \subseteq {"prohibited", "high_risk", "low_risk", "other"}

Id == 1..MaxIds

(* A mutant: the enum as it was before asset freeze. *)
KycStatusBeforeFreeze ==
  {"initiated", "documents_uploaded", "identity_verified",
   "liveness_checked", "risk_scored", "approved", "rejected",
   "edd_required", "edd_in_progress"}

KycStatus == {"initiated", "documents_uploaded", "identity_verified",
              "liveness_checked", "risk_scored", "approved", "rejected",
              "edd_required", "edd_in_progress", "frozen"}
RiskTier == {"low", "medium", "high", "prohibited"}
DocKind  == {"id", "selfie", "edd"}     \* cnic, passport and licence are "id"
CaseState   == {"none", "pending", "approved", "rejected"}
Funds       == {"none", "declared", "verified"}
FreezeState == {"none", "frozen", "reported_to_fmu", "unfrozen"}

View == [status  : KycStatus,
         tier    : RiskTier,
         docs    : SUBSET DocKind,
         nadra   : BOOLEAN,
         cases   : [Id -> CaseState],
         funds   : [Id -> Funds],
         freezes : [Id -> FreezeState],
         patched : BOOLEAN]

NewCustomer == [status  |-> "initiated",
                tier    |-> "medium",
                docs    |-> {},
                nadra   |-> FALSE,
                cases   |-> [i \in Id |-> "none"],
                funds   |-> [i \in Id |-> "none"],
                freezes |-> [i \in Id |-> "none"],
                patched |-> FALSE]

(* UserRole, and the roles that each restricted endpoint lets in. *)
UserRole == {"platform_admin", "mlro", "compliance_officer", "other"}
EddApproverRoles == {"mlro", "platform_admin"}
UnfreezeReason   == {"fmu_order", "court_order", "false_positive_confirmed"}
UnfreezeRoles    == {"mlro", "platform_admin"}
FreezeRoles      == {"mlro", "compliance_officer", "platform_admin"}

-----------------------------------------------------------------------------
(* workflows.py: the state machine.  "frozen" is no key of the table. *)
KycTransitions ==
  {<<"initiated", "documents_uploaded">>, <<"initiated", "rejected">>,
   <<"documents_uploaded", "identity_verified">>, <<"documents_uploaded", "rejected">>,
   <<"identity_verified", "liveness_checked">>, <<"identity_verified", "rejected">>,
   <<"liveness_checked", "risk_scored">>, <<"liveness_checked", "rejected">>,
   <<"risk_scored", "approved">>, <<"risk_scored", "rejected">>,
   <<"risk_scored", "edd_required">>,
   <<"edd_required", "edd_in_progress">>, <<"edd_required", "rejected">>,
   <<"edd_in_progress", "approved">>, <<"edd_in_progress", "rejected">>}

CanTransition(from, to) == from = to \/ <<from, to>> \in KycTransitions

(* PATCH /customers/{id}: status and tier, from any role. *)
Patch(v, status, tier) ==
  [v EXCEPT !.status = status, !.tier = tier,
            !.patched = @ \/ status # v.status]

-----------------------------------------------------------------------------
(* A mutant: the answer advances the customer whatever its status. *)
VerifyIdentityUnguarded(v, answer) ==
  [v EXCEPT !.nadra = @ \/ answer # "pending",
            !.status = IF answer = "pass" THEN "identity_verified" ELSE @]

(***************************************************************************)
(* POST verify-nadra, and the Shufti callback.  "pass" and "fail" are the  *)
(* answers that become a verification result; "pending" is a Shufti        *)
(* request whose callback has not come.                                    *)
(***************************************************************************)
VerifyIdentity(v, answer) ==
  [v EXCEPT !.nadra = @ \/ answer # "pending",
            !.status = IF answer = "pass" /\ @ = "documents_uploaded"
                       THEN "identity_verified" ELSE @]

(* risk_scoring.py *)
ScoreCustomerRisk(country, pep) ==
  IF country = "prohibited" \/ (country = "high_risk" /\ pep) THEN "prohibited"
  ELSE IF country = "high_risk" \/ pep THEN "high"
  ELSE IF country = "low_risk" THEN "low"
  ELSE "medium"

(* The tiers that scoring can return in this run. *)
ScoredTiers == {ScoreCustomerRisk(c, pep) : c \in Countries, pep \in BOOLEAN}

(* A mutant: a prohibited tier rejects from every status, frozen included. *)
StatusAfterScoreAnywhere(status, tier) ==
  CASE status = "liveness_checked" -> "risk_scored"
    [] status # "liveness_checked" /\ tier = "prohibited" -> "rejected"
    [] status = "risk_scored" /\ tier = "high" -> "edd_required"
    [] OTHER                       -> status

(* A mutant: scoring approves a low tier on its own. *)
StatusAfterScoreAutoApprove(status, tier) ==
  CASE status = "liveness_checked" -> "risk_scored"
    [] status = "risk_scored" /\ tier = "prohibited" -> "rejected"
    [] status = "risk_scored" /\ tier = "high"       -> "edd_required"
    [] status = "risk_scored" /\ tier = "low"        -> "approved"
    [] OTHER                       -> status

(* Only a second scoring, of a customer already risk_scored, sorts by tier. *)
StatusAfterScore(status, tier) ==
  CASE status = "liveness_checked" -> "risk_scored"
    [] status = "risk_scored" /\ tier = "prohibited" -> "rejected"
    [] status = "risk_scored" /\ tier = "high"       -> "edd_required"
    [] OTHER                       -> status

(* POST score-risk *)
ScoreRisk(v, tier) ==
  [v EXCEPT !.tier = tier, !.status = StatusAfterScore(@, tier)]

(* POST run-kyc-pipeline: orchestrator.py *)
NeedsNadra(v, hasCnic) ==
  /\ v.status \in {"documents_uploaded", "identity_verified"}
  /\ hasCnic
  /\ ~v.nadra

RunKycPipeline(v, hasCnic, answer, tier) ==
  LET w == IF NeedsNadra(v, hasCnic) THEN VerifyIdentity(v, answer) ELSE v
  IN  IF w.status = "liveness_checked" THEN ScoreRisk(w, tier) ELSE w

-----------------------------------------------------------------------------
(***************************************************************************)
(* POST documents.  The document is stored and the status moved            *)
(* (UploadStored); the stored documents are then read again for the face   *)
(* match (FaceMatch).                                                      *)
(***************************************************************************)
CanUpload(v, kind) == kind = "edd" => v.status = "edd_in_progress"

UploadStored(v, kind, ocrPass) ==
  [v EXCEPT
     !.docs   = @ \cup {kind},
     !.status = IF kind = "id" /\ ocrPass /\ @ \in {"initiated", "documents_uploaded"}
                THEN "identity_verified"
                ELSE IF @ = "initiated" THEN "documents_uploaded" ELSE @]

(* A mutant: the counterpart of the face match is not required. *)
FaceMatchAlone(v, kind, faceOk) ==
  [v EXCEPT !.status =
     IF kind # "edd" /\ faceOk /\ @ = "identity_verified"
     THEN "liveness_checked" ELSE @]

FaceMatch(v, kind, faceOk) ==
  LET counterpart == IF kind = "selfie" THEN "id" ELSE "selfie"
  IN [v EXCEPT !.status =
        IF /\ kind \in {"id", "selfie"} /\ counterpart \in v.docs
           /\ faceOk /\ @ = "identity_verified"
        THEN "liveness_checked" ELSE @]

-----------------------------------------------------------------------------
(* The numbers that committed rows of a view have. *)
Used(v) == {i \in Id : v.cases[i] # "none" \/ v.freezes[i] # "none"}

(* EDD: edd_service.py.  More than one case is an error in every handler. *)
Cases(v) == {i \in Id : v.cases[i] # "none"}

HasOneCase(v, states) == \E i \in Id : Cases(v) = {i} /\ v.cases[i] \in states

CanStartEdd(v) == v.status = "edd_required" /\ Cases(v) = {}

StartEdd(v, id) ==
  [v EXCEPT !.status = "edd_in_progress", !.cases[id] = "pending"]

(* A mutant: funds are accepted for any case there is. *)
CanSubmitSourceOfFundsAnytime(v) == HasOneCase(v, CaseState \ {"none"})

CanSubmitSourceOfFunds(v) == HasOneCase(v, {"pending"})

SubmitSourceOfFunds(v, verified) ==
  [v EXCEPT !.funds = [i \in Id |->
     IF i \in Cases(v) THEN (IF verified THEN "verified" ELSE "declared")
                       ELSE v.funds[i]]]

CanDecideEdd(v) ==
  /\ HasOneCase(v, {"pending"})
  /\ v.status = "edd_in_progress"

(* A mutant: the decision is not carried over to the customer. *)
DecideEddCaseOnly(v, verdict) ==
  [v EXCEPT !.cases = [i \in Id |-> IF i \in Cases(v) THEN verdict ELSE v.cases[i]]]

(* approve and reject: the verdict is the new state of case and customer. *)
DecideEdd(v, verdict) ==
  [v EXCEPT !.status = verdict,
            !.cases = [i \in Id |-> IF i \in Cases(v) THEN verdict ELSE v.cases[i]]]

-----------------------------------------------------------------------------
(* Asset freeze: router.py.  Records are numbered in the order of frozen_at. *)
Records(v, states) == {i \in Id : v.freezes[i] \in states}

Latest(ids) == CHOOSE i \in ids : \A j \in ids : j <= i

Active == {"frozen", "reported_to_fmu"}

Freeze(v, id) == [v EXCEPT !.status = "frozen", !.freezes[id] = "frozen"]

CanReportFreeze(v) == Records(v, {"frozen"}) # {}

ReportFreezeToFmu(v) ==
  [v EXCEPT !.freezes[Latest(Records(v, {"frozen"}))] = "reported_to_fmu"]

CanUnfreeze(v) == Records(v, Active) # {}

(* A mutant: the record is released and the customer left as it is. *)
UnfreezeRecordOnly(v, reason) ==
  [v EXCEPT !.freezes[Latest(Records(v, Active))] = "unfrozen"]

(* Both arms of the test on the reason set the customer to rejected. *)
Unfreeze(v, reason) ==
  [v EXCEPT !.freezes[Latest(Records(v, Active))] = "unfrozen",
            !.status = IF reason = "false_positive_confirmed" THEN "rejected"
                                                              ELSE "rejected"]
=============================================================================
