---------------------------- MODULE CustomerPages ----------------------------
(***************************************************************************)
(* The page on one customer (kyc/customers/[id]/page.tsx), against the      *)
(* handlers of the identity module, which CustomerHandlers gives.          *)
(***************************************************************************)
EXTENDS Console

KycBackend == INSTANCE CustomerHandlers
           WITH MaxIds <- 1, Countries <- {"prohibited", "high_risk", "low_risk", "other"}

(* The roles that decide an EDD case, and one that does not. *)
CustomerRole == {"mlro", "compliance_officer"}

-----------------------------------------------------------------------------
(* Customers as the workflow brings them to each status.                   *)
Arrived(status) ==
  [KycBackend!NewCustomer EXCEPT
     !.status = status,
     !.docs   = CASE status = "initiated" -> {}
                  [] status \in {"documents_uploaded", "identity_verified"} -> {"id"}
                  [] OTHER -> {"id", "selfie"},
     !.nadra  = status = "identity_verified",
     !.tier   = IF status \in {"edd_required", "edd_in_progress"} THEN "high" ELSE @,
     !.cases  = IF status = "edd_in_progress" THEN [i \in {1} |-> "pending"] ELSE @]

(* The results of verifications are read by an effect, again whenever the  *)
(* status shown changes; its failure is ignored.  The read that it makes   *)
(* when the page is mounted comes after the customer's here.  eddCase is   *)
(* loaded in the same way but never rendered, and left out.                *)
CustomerInit ==
  /\ page = "customer"
  /\ \E role \in CustomerRole :
       ui = [status |-> "none", nadra |-> FALSE, error |-> FALSE,
             rejectOpen |-> FALSE, role |-> role]
  /\ \E status \in KycBackend!KycStatus \ {"frozen"} : srv = Arrived(status)
  /\ Mounted("getCustomer", "none", {"loading"})

CustomerRendered == "loading" \notin busy /\ ~ui.error /\ ui.status # "none"

(* setCustomer: the handler ends, and the effect runs if the status has    *)
(* changed.                                                                *)
setCustomer(s, status) ==
  /\ ui' = [ui EXCEPT !.status = status]
  /\ IF status # ui.status THEN EndThen(s, "getResults", "none", {}) ELSE End(s)

-----------------------------------------------------------------------------
(* What the page offers in each status.  A control is named after the flag *)
(* that disables it while its handler runs; the second card on EDD has the *)
(* same controls without a flag.                                           *)
canUpload == {"initiated", "documents_uploaded", "identity_verified"}
canRunKycPipeline == {"documents_uploaded", "identity_verified", "liveness_checked"}

canVerifyNadra == ~ui.nadra /\ ui.status \in {"documents_uploaded", "identity_verified"}

UploadKinds ==
  CASE ui.status \in canUpload         -> {"id", "selfie"}
    [] ui.status = "edd_in_progress"   -> {"edd"}
    [] OTHER                           -> {}

EddControls ==
  CASE ui.status = "edd_required"    -> {"startEdd"}
    [] ui.status = "edd_in_progress" -> {"submitSof", "approve", "reject"}
    [] OTHER                         -> {}

CustomerControls ==
  (IF ui.status \in canRunKycPipeline THEN {"runKyc"} ELSE {})
    \cup (IF canVerifyNadra THEN {"verifyNadra"} ELSE {})
    \cup (IF ui.status = "liveness_checked" THEN {"scoreRisk"} ELSE {})
    \cup (IF UploadKinds # {} THEN {"upload"} ELSE {})
    \cup EddControls

(* The five steps of the timeline, by the place of the status in the page's *)
(* own order, in which "rejected" and the EDD statuses follow "approved".   *)
STATUS_ORDER ==
  [initiated |-> 0, documents_uploaded |-> 1, identity_verified |-> 2,
   liveness_checked |-> 3, risk_scored |-> 4, approved |-> 5, rejected |-> 6,
   edd_required |-> 7, edd_in_progress |-> 8, frozen |-> -1]

getStepStatus(step, status) ==
  CASE STATUS_ORDER[step] < STATUS_ORDER[status] -> "complete"
    [] STATUS_ORDER[step] = STATUS_ORDER[status] -> "current"
    [] OTHER                                     -> "pending"

(* What the cards on the results and on the customer show. *)
ResultsCard == ui.nadra
DetailsShown == ui.status

-----------------------------------------------------------------------------
Click(control, arg, flags) ==
  /\ CustomerRendered
  /\ control \in CustomerControls
  /\ flags \cap busy = {}
  /\ Send(control, arg, flags)
  /\ UNCHANGED <<page, ui, srv>>

(* A handler that has been answered: what follows a success, or its error. *)
After(s, op, success) ==
  /\ Awaits(s, op)
  /\ IF Succeeded(s) THEN success ELSE End(s) /\ UNCHANGED ui
  /\ UNCHANGED <<page, srv>>

handleUpload == \E kind \in UploadKinds : Click("upload", kind, {"uploading"})
handleVerifyNadra == Click("verifyNadra", "none", {"verifyingNadra"})
handleScoreRisk == Click("scoreRisk", "none", {"scoringRisk"})
handleRunKycPipeline == Click("runKyc", "none", {"runningKyc"})
handleStartEdd == Click("startEdd", "none", {"startEddLoading"})
handleSubmitSof == Click("submitSof", "none", {"submitSofLoading"})
handleApproveEdd == Click("approve", "none", {"approveLoading"})

OpenReject ==
  /\ CustomerRendered /\ "reject" \in CustomerControls /\ "rejectLoading" \notin busy
  /\ \E open \in BOOLEAN : ui' = [ui EXCEPT !.rejectOpen = open]
  /\ NoCall /\ UNCHANGED <<page, srv>>

handleRejectEdd == ui.rejectOpen /\ Click("reject", "none", {"rejectLoading"})

(* The second card: nothing is disabled and every error is swallowed. *)
SecondEddCard == \E control \in EddControls : Click(control, "second", {})

(* Upload and NADRA: the customer and the results are loaded again. *)
Uploaded(s) == After(s, "upload", Chain(s, "reload", "none", {}) /\ UNCHANGED ui)
NadraVerified(s) == After(s, "verifyNadra", Chain(s, "reload", "none", {}) /\ UNCHANGED ui)

Reloaded(s) ==
  After(s, "reload",
        LET d == calls[s].ans.data IN
        /\ ui' = [ui EXCEPT !.status = d.status, !.nadra = d.nadra]
        /\ IF d.status # ui.status THEN EndThen(s, "getResults", "none", {}) ELSE End(s))

RiskScored(s) == After(s, "scoreRisk", setCustomer(s, calls[s].ans.data.status))

(* The pipeline answers with the customer; the results are read after it,   *)
(* which stands for the read by the effect as well.                         *)
KycRun(s) ==
  After(s, "runKyc", /\ Chain(s, "getResults", "none", {})
                     /\ ui' = [ui EXCEPT !.status = calls[s].ans.data.status])

ResultsRead(s) ==
  After(s, "getResults", End(s) /\ ui' = [ui EXCEPT !.nadra = calls[s].ans.data.nadra])

(* Starting EDD reads the customer again, and in the first card its case. *)
EddStarted(s) == After(s, "startEdd", Chain(s, "getCustomer", "again", {}) /\ UNCHANGED ui)

(* Funds: the first card reads the case again, the second the customer. *)
SofSubmitted(s) ==
  After(s, "submitSof",
        /\ UNCHANGED ui
        /\ Chain(s, IF calls[s].arg = "second" THEN "getCustomer" ELSE "getEdd", "again", {}))

EddRead(s) == Awaits(s, "getEdd") /\ End(s) /\ UNCHANGED <<page, ui, srv>>

(* Both verdicts answer with the customer.  Notes are cleared, the dialog   *)
(* is not closed.                                                           *)
EddDecided(s) ==
  \E verdict \in {"approve", "reject"} :
    After(s, verdict, setCustomer(s, calls[s].ans.data.status))

(* getCustomer: an error replaces the page at the first load alone. *)
CustomerLoaded(s) ==
  /\ Awaits(s, "getCustomer")
  /\ IF Succeeded(s) THEN setCustomer(s, calls[s].ans.data.status)
     ELSE End(s) /\ ui' = [ui EXCEPT !.error = @ \/ calls[s].arg = "none"]
  /\ UNCHANGED <<page, srv>>

-----------------------------------------------------------------------------
(* The endpoints, one request at a time.  Every answer that the page uses   *)
(* is a projection of the rows.                                             *)
Answer(v) == [status |-> v.status, nadra |-> v.nadra]
Done(v) == Reply(v, Ok(Answer(v)))
If(allowed, v) == IF allowed THEN {Done(v)} ELSE Refuse

CustomerReplies(s) ==
  LET op == calls[s].op  v == srv IN
  CASE op \in {"getCustomer", "getResults", "reload", "getEdd"} -> {Done(v)}
    [] op = "upload" ->
         IF KycBackend!CanUpload(v, calls[s].arg)
         THEN {Done(KycBackend!FaceMatch(KycBackend!UploadStored(v, calls[s].arg, ocr),
                                      calls[s].arg, face)) : ocr, face \in BOOLEAN}
         ELSE Refuse
    [] op = "verifyNadra" ->
         {Done(KycBackend!VerifyIdentity(v, answer)) : answer \in {"pass", "fail", "pending"}}
    [] op = "scoreRisk" -> {Done(KycBackend!ScoreRisk(v, t)) : t \in {"low", "high"}}
    [] op = "runKyc" ->
         {Done(KycBackend!RunKycPipeline(v, TRUE, answer, t)) :
            answer \in {"pass", "fail", "pending"}, t \in {"low", "high"}}
    [] op = "startEdd"  -> If(KycBackend!CanStartEdd(v), KycBackend!StartEdd(v, 1))
    [] op = "submitSof" -> If(KycBackend!CanSubmitSourceOfFunds(v),
                              KycBackend!SubmitSourceOfFunds(v, FALSE))
    [] op \in {"approve", "reject"} ->
         If(KycBackend!CanDecideEdd(v) /\ ui.role \in KycBackend!EddApproverRoles,
            KycBackend!DecideEdd(v, IF op = "approve" THEN "approved" ELSE "rejected"))

(* The callback of Shufti, and a freeze by the API. *)
CustomerColleague ==
  \/ Others(KycBackend!VerifyIdentity(srv, "pass"))
  \/ srv.freezes[1] = "none" /\ Others(KycBackend!Freeze(srv, 1))

CustomerNext ==
  /\ page = "customer"
  /\ \/ handleUpload \/ handleVerifyNadra \/ handleScoreRisk \/ handleRunKycPipeline
     \/ handleStartEdd \/ handleSubmitSof \/ handleApproveEdd \/ OpenReject
     \/ handleRejectEdd \/ SecondEddCard
     \/ CustomerColleague
     \/ \E s \in Slot :
          \/ Uploaded(s) \/ NadraVerified(s) \/ Reloaded(s) \/ RiskScored(s)
          \/ KycRun(s) \/ ResultsRead(s) \/ EddStarted(s) \/ SofSubmitted(s)
          \/ EddRead(s) \/ EddDecided(s) \/ CustomerLoaded(s)
          \/ Serve(s, CustomerReplies(s)) \/ Lose(s)
=============================================================================
