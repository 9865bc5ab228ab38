--------------------------- MODULE CustomerRequests ---------------------------
(***************************************************************************)
(* The customer endpoints with overlapping requests.  get_db gives every   *)
(* request one READ COMMITTED transaction: it reads the customer row, then *)
(* the rows that hang off it, awaits adapters and storage in between, and  *)
(* at its end writes the columns it CHANGED, by primary key and without a  *)
(* version check.  What the others committed meanwhile to a column it did  *)
(* not change survives; what it changed is overwritten.                    *)
(*                                                                         *)
(* Every write of a request happens in its Commit, except the first flush  *)
(* of a document upload, which takes the row lock and keeps it while the   *)
(* other documents are read.                                               *)
(***************************************************************************)
EXTENDS CustomerHandlers

CONSTANTS
  Req,       \* the requests that can be open at the same time
  Ops,       \* the endpoints they call
  NoReq      \* no request: nobody has the row lock

AllOps == {"patch", "verify", "score", "pipeline",
           "upload_id", "upload_selfie", "upload_edd",
           "start_edd", "funds", "approve_edd", "reject_edd",
           "freeze", "report", "unfreeze"}

ASSUME OpsAssumption == Ops \subseteq AllOps
ASSUME NoReqAssumption == NoReq \notin Req

VARIABLES
  cust,      \* the customer and its rows, as committed
  req,       \* the open requests
  rowLock,   \* the request that has flushed the customer row and not ended
  nextId     \* the number of the next request that will create a row

vars == <<cust, req, rowLock, nextId>>

(* A request: how far it is, what it does, what it has read, the number of *)
(* the row it creates, and what it will write on top of what it read.      *)
Request == [pc : {"idle", "row", "stored", "read"}, op : AllOps \cup {"none"},
            seen : View, new : View, id : 0..MaxIds]

Idle == [pc |-> "idle", op |-> "none", seen |-> NewCustomer,
         new |-> NewCustomer, id |-> 0]

TypeOK == /\ cust \in View
          /\ req \in [Req -> Request]
          /\ rowLock \in Req \cup {NoReq}
          /\ nextId \in 1..(MaxIds + 1)

Init == /\ cust = NewCustomer
        /\ req = [r \in Req |-> Idle]
        /\ rowLock = NoReq
        /\ nextId = 1

CreatesRow == {"start_edd", "freeze"}
Uploads == {"upload_id", "upload_selfie", "upload_edd"}
KindOf(op) == CASE op = "upload_id"     -> "id"
                [] op = "upload_selfie" -> "selfie"
                [] OTHER                -> "edd"

-----------------------------------------------------------------------------
(***************************************************************************)
(* What a session writes at flush: the changed columns only.               *)
(***************************************************************************)
Column(now, seen, new) == IF new = seen THEN now ELSE new
Rows(now, seen, new) == [i \in Id |-> Column(now[i], seen[i], new[i])]

(* A mutant: the session writes the whole status column back. *)
WriteWholeRow(now, seen, new) ==
  [status  |-> new.status,
   tier    |-> Column(now.tier, seen.tier, new.tier),
   docs    |-> now.docs \cup (new.docs \ seen.docs),
   nadra   |-> now.nadra \/ (new.nadra /\ ~seen.nadra),
   cases   |-> new.cases,
   funds   |-> Rows(now.funds, seen.funds, new.funds),
   freezes |-> Rows(now.freezes, seen.freezes, new.freezes),
   patched |-> now.patched \/ new.patched]

Write(now, seen, new) ==
  [status  |-> Column(now.status, seen.status, new.status),
   tier    |-> Column(now.tier, seen.tier, new.tier),
   docs    |-> now.docs \cup (new.docs \ seen.docs),
   nadra   |-> now.nadra \/ (new.nadra /\ ~seen.nadra),
   cases   |-> Rows(now.cases, seen.cases, new.cases),
   funds   |-> Rows(now.funds, seen.funds, new.funds),
   freezes |-> Rows(now.freezes, seen.freezes, new.freezes),
   patched |-> now.patched \/ new.patched]

RowDirty(seen, new) == new.status # seen.status \/ new.tier # seen.tier

-----------------------------------------------------------------------------
(* The request has loaded the customer; nothing else is read yet. *)
Loaded(v) == [NewCustomer EXCEPT !.status = v.status, !.tier = v.tier]

(* A mutant: the documents that open requests have flushed are read too.   *)
RelatedUncommitted(v) ==
  [cust EXCEPT !.status = v.status, !.tier = v.tier, !.patched = FALSE,
               !.docs = @ \cup UNION {req[r].new.docs : r \in Req}]

(* The related rows as committed now, under the customer row as loaded. *)
Related(v) == [cust EXCEPT !.status = v.status, !.tier = v.tier, !.patched = FALSE]

Open(r, op, id) ==
  req' = [req EXCEPT ![r] = [pc |-> "row", op |-> op, seen |-> Loaded(cust),
                             new |-> Loaded(cust), id |-> id]]

(* The handler starts and selects the customer. *)
ReadRow(r) ==
  /\ req[r].pc = "idle"
  /\ \E op \in Ops :
       \/ op \notin CreatesRow /\ Open(r, op, 0) /\ UNCHANGED nextId
       \/ op \in CreatesRow /\ nextId \in Id /\ Open(r, op, nextId) /\ nextId' = nextId + 1
  /\ UNCHANGED <<cust, rowLock>>

(* A mutant: the status is not asked for before an EDD document is stored. *)
StoreDocumentUnguarded(r) ==
  LET q == req[r] IN
  /\ q.pc = "row" /\ q.op \in Uploads
  /\ \E ocrPass \in BOOLEAN :
       LET new == UploadStored(q.seen, KindOf(q.op), ocrPass) IN
       /\ req' = [req EXCEPT ![r].pc = "stored", ![r].new = new]
       /\ IF RowDirty(q.seen, new)
          THEN rowLock = NoReq /\ rowLock' = r
          ELSE UNCHANGED rowLock
  /\ UNCHANGED <<cust, nextId>>

(* An upload flushes its document, with the status when that has moved.    *)
StoreDocument(r) ==
  LET q == req[r] IN
  /\ q.pc = "row" /\ q.op \in Uploads
  /\ CanUpload(q.seen, KindOf(q.op))
  /\ \E ocrPass \in BOOLEAN :
       LET new == UploadStored(q.seen, KindOf(q.op), ocrPass) IN
       /\ req' = [req EXCEPT ![r].pc = "stored", ![r].new = new]
       /\ IF RowDirty(q.seen, new)
          THEN rowLock = NoReq /\ rowLock' = r
          ELSE UNCHANGED rowLock
  /\ UNCHANGED <<cust, nextId>>

(* The handler selects the rows that hang off the customer.  An upload sees*)
(* the document it has stored too.                                         *)
ReadRelated(r) ==
  LET q == req[r] IN
  /\ q.pc = IF q.op \in Uploads THEN "stored" ELSE "row"
  /\ q.pc # "idle"
  /\ LET seen == Related(q.seen)
         own  == [seen EXCEPT !.status = q.new.status, !.docs = @ \cup q.new.docs]
     IN req' = [req EXCEPT ![r].pc = "read", ![r].seen = seen, ![r].new = own]
  /\ UNCHANGED <<cust, rowLock, nextId>>

-----------------------------------------------------------------------------
(***************************************************************************)
(* The end of a handler: the values it leaves in its session are flushed   *)
(* and committed; flushing the customer row waits for its lock.            *)
(***************************************************************************)
Ready(r, op) == req[r].pc = "read" /\ req[r].op = op

Finish(r, new) ==
  /\ RowDirty(req[r].seen, new) => rowLock \in {NoReq, r}
  /\ cust' = Write(cust, req[r].seen, new)
  /\ req' = [req EXCEPT ![r] = Idle]
  /\ rowLock' = IF rowLock = r THEN NoReq ELSE rowLock
  /\ UNCHANGED nextId

PatchCustomer(r) ==
  /\ Ready(r, "patch")
  /\ \E status \in KycStatus, tier \in RiskTier :
       /\ CanTransition(req[r].new.status, status)
       /\ Finish(r, Patch(req[r].new, status, tier))

VerifyNadra(r) ==
  /\ Ready(r, "verify")
  /\ \E answer \in {"pass", "fail", "pending"} :
       Finish(r, VerifyIdentity(req[r].new, answer))

ScoreRiskRequest(r) ==
  /\ Ready(r, "score")
  /\ \E tier \in ScoredTiers : Finish(r, ScoreRisk(req[r].new, tier))

RunPipeline(r) ==
  /\ Ready(r, "pipeline")
  /\ \E hasCnic \in BOOLEAN, answer \in {"pass", "fail", "pending"}, tier \in ScoredTiers :
       Finish(r, RunKycPipeline(req[r].new, hasCnic, answer, tier))

UploadDocument(r) ==
  \E op \in Uploads, faceOk \in BOOLEAN :
    /\ Ready(r, op)
    /\ Finish(r, FaceMatch(req[r].new, KindOf(op), faceOk))

StartEddRequest(r) ==
  /\ Ready(r, "start_edd")
  /\ CanStartEdd(req[r].new)
  /\ Finish(r, StartEdd(req[r].new, req[r].id))

SubmitFunds(r) ==
  /\ Ready(r, "funds")
  /\ CanSubmitSourceOfFunds(req[r].new)
  /\ \E verified \in BOOLEAN : Finish(r, SubmitSourceOfFunds(req[r].new, verified))

ApproveEdd(r) ==
  /\ Ready(r, "approve_edd")
  /\ CanDecideEdd(req[r].new)
  /\ Finish(r, DecideEdd(req[r].new, "approved"))

RejectEdd(r) ==
  /\ Ready(r, "reject_edd")
  /\ CanDecideEdd(req[r].new)
  /\ Finish(r, DecideEdd(req[r].new, "rejected"))

FreezeCustomer(r) == Ready(r, "freeze") /\ Finish(r, Freeze(req[r].new, req[r].id))

ReportFreeze(r) ==
  /\ Ready(r, "report")
  /\ CanReportFreeze(req[r].new)
  /\ Finish(r, ReportFreezeToFmu(req[r].new))

UnfreezeCustomer(r) ==
  /\ Ready(r, "unfreeze")
  /\ CanUnfreeze(req[r].new)
  /\ \E reason \in UnfreezeReason : Finish(r, Unfreeze(req[r].new, reason))

(* The handler raises, or its process dies: the transaction rolls back. *)
Rollback(r) ==
  /\ req[r].pc # "idle"
  /\ req' = [req EXCEPT ![r] = Idle]
  /\ rowLock' = IF rowLock = r THEN NoReq ELSE rowLock
  /\ UNCHANGED <<cust, nextId>>

Handler(r) ==
  \/ PatchCustomer(r) \/ VerifyNadra(r) \/ ScoreRiskRequest(r) \/ RunPipeline(r)
  \/ UploadDocument(r)
  \/ StartEddRequest(r) \/ SubmitFunds(r) \/ ApproveEdd(r) \/ RejectEdd(r)
  \/ FreezeCustomer(r) \/ ReportFreeze(r) \/ UnfreezeCustomer(r)

Next ==
  \E r \in Req : ReadRow(r) \/ StoreDocument(r) \/ ReadRelated(r) \/ Handler(r) \/ Rollback(r)

Spec == Init /\ [][Next]_vars

-----------------------------------------------------------------------------
(***************************************************************************)
(* What survives overlapping requests.                                     *)
(***************************************************************************)
Serial == INSTANCE CustomerLifecycle

(* The two promises about onboarding and approval hold for any overlap of  *)
(* requests: each is kept by rows that one commit writes together.         *)
LivenessHasBothDocs == Serial!LivenessHasBothDocs
ApprovalHasDecision == Serial!ApprovalHasDecision

(* One request at a time, the transactions are the atomic endpoints.       *)
OneAtATime == Serial!Spec

=============================================================================
