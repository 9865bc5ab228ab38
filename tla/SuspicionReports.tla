--------------------------- MODULE SuspicionReports ---------------------------
(***************************************************************************)
(* One ISAR (Form A7) from its draft to the STR reports generated from it, *)
(* under requests that overlap.  A request reads the row once, checks its  *)
(* guard on what it read and writes, at its commit, the columns it changed:*)
(* the others keep what was committed meanwhile.  The row has no version   *)
(* column and is read without a lock.  ISARs share no row that a request   *)
(* writes, so one stands for all; a request that raises is rolled back and *)
(* is no step.                                                             *)
(***************************************************************************)
EXTENDS Naturals, Sequences

CONSTANTS
  Request,      \* the requests under way at a time
  User,         \* the users of the tenant
  Approver,     \* those with a role of ISAR_APPROVER_ROLES
  Text,         \* the contents that the sections of the form can have
  NoOne,        \* a column that holds no user
  MaxReports    \* how many STR reports are ever generated

ASSUME UserAssumption == Approver \subseteq User /\ NoOne \notin User
ASSUME MaxReportsAssumption == MaxReports \in Nat

VARIABLES
  isar,         \* the committed row
  reports,      \* the contents of the committed STR reports
  req           \* the requests

vars == <<isar, reports, req>>

(* A mutant: an enum of the database that lacks its last value. *)
IsarStatusBeforeFiling == {"draft", "submitted_for_review", "approved", "rejected"}

IsarStatus == {"draft", "submitted_for_review", "approved", "rejected", "filed_as_str"}

Isar == [status      : IsarStatus,
         text        : Text,
         reviewed_by : User \cup {NoOne},
         approved_by : User \cup {NoOne},
         rationale   : BOOLEAN]            \* whether a rejection_rationale is set

Op == {"update", "submit", "approve", "reject", "revise", "file", "generate"}

Idle == [op |-> "none"]

(* A request with the row it has read. *)
Loaded == [op : Op, by : User, text : Text, seen : Isar]

TypeOK ==
  /\ isar \in Isar
  /\ reports \in Seq(Text)
  /\ req \in [Request -> Loaded \cup {Idle}]

Init ==
  /\ \E text \in Text :
       isar = [status |-> "draft", text |-> text, reviewed_by |-> NoOne,
               approved_by |-> NoOne, rationale |-> FALSE]
  /\ reports = <<>>
  /\ req = [r \in Request |-> Idle]

-----------------------------------------------------------------------------
(* Two mutants: reports are generated from an ISAR under review as well,   *)
(* and an approved ISAR can still be updated.                              *)
FromWhileReviewed(op) ==
  CASE op \in {"update", "submit"}  -> {"draft"}
    [] op \in {"approve", "reject"} -> {"submitted_for_review"}
    [] op = "revise"                -> {"rejected"}
    [] op = "file"                  -> {"approved"}
    [] op = "generate"              -> {"submitted_for_review", "approved", "filed_as_str"}

FromWithLateUpdate(op) ==
  CASE op = "update"                -> {"draft", "approved"}
    [] op = "submit"                -> {"draft"}
    [] op \in {"approve", "reject"} -> {"submitted_for_review"}
    [] op = "revise"                -> {"rejected"}
    [] op = "file"                  -> {"approved"}
    [] op = "generate"              -> {"approved", "filed_as_str"}

(* The statuses from which each operation is accepted. *)
From(op) ==
  CASE op \in {"update", "submit"}  -> {"draft"}
    [] op \in {"approve", "reject"} -> {"submitted_for_review"}
    [] op = "revise"                -> {"rejected"}
    [] op = "file"                  -> {"approved"}
    [] op = "generate"              -> {"approved", "filed_as_str"}

May(u, op) == op \in {"approve", "reject", "file"} => u \in Approver

(* The role is checked first, then the row is read and its status checked. *)
Load(r) ==
  /\ req[r] = Idle
  /\ \E op \in Op, u \in User, text \in Text :
       /\ May(u, op) /\ isar.status \in From(op)
       /\ req' = [req EXCEPT ![r] = [op |-> op, by |-> u, text |-> text, seen |-> isar]]
  /\ UNCHANGED <<isar, reports>>

(* A mutant: revising keeps the rationale of the rejection. *)
RevisedKeepsRationale(i) == [i EXCEPT !.status = "draft", !.reviewed_by = NoOne]

Revised(i) ==
  [i EXCEPT !.status = "draft", !.reviewed_by = NoOne, !.rationale = FALSE]

(* The row as the handler of request q leaves it in its session. *)
After(q) ==
  CASE q.op = "update"   -> [q.seen EXCEPT !.text = q.text]
    [] q.op = "submit"   -> [q.seen EXCEPT !.status = "submitted_for_review"]
    [] q.op = "approve"  -> [q.seen EXCEPT !.status = "approved", !.reviewed_by = q.by,
                                           !.approved_by = q.by]
    [] q.op = "reject"   -> [q.seen EXCEPT !.status = "rejected", !.reviewed_by = q.by,
                                           !.rationale = TRUE]
    [] q.op = "revise"   -> Revised(q.seen)
    [] q.op = "file"     -> [q.seen EXCEPT !.status = "filed_as_str"]
    [] q.op = "generate" -> q.seen

(* A column is written when the session changed it. *)
Column(seen, new, now) == IF new = seen THEN now ELSE new

Merge(seen, new, now) ==
  [status      |-> Column(seen.status, new.status, now.status),
   text        |-> Column(seen.text, new.text, now.text),
   reviewed_by |-> Column(seen.reviewed_by, new.reviewed_by, now.reviewed_by),
   approved_by |-> Column(seen.approved_by, new.approved_by, now.approved_by),
   rationale   |-> Column(seen.rationale, new.rationale, now.rationale)]

(* A mutant: filing swallows the failure to generate the report. *)
GeneratedOrNot(q) == IF q.op = "generate" THEN <<q.seen.text>> ELSE <<>>

(* The report made from what was read; a failure raises, so filing and its *)
(* report are committed together or not at all.                            *)
Generated(q) == IF q.op \in {"file", "generate"} THEN <<q.seen.text>> ELSE <<>>

Commit(r) ==
  LET q == req[r] IN
  /\ q # Idle
  /\ Len(reports \o Generated(q)) <= MaxReports
  /\ isar' = Merge(q.seen, After(q), isar)
  /\ reports' = reports \o Generated(q)
  /\ req' = [req EXCEPT ![r] = Idle]

(* The request raises after its read, and is rolled back. *)
Abort(r) ==
  /\ req[r] # Idle
  /\ req' = [req EXCEPT ![r] = Idle]
  /\ UNCHANGED <<isar, reports>>

Next == \E r \in Request : Load(r) \/ Commit(r) \/ Abort(r)

Spec == Init /\ [][Next]_vars

-----------------------------------------------------------------------------
(***************************************************************************)
(* Whatever the interleaving.                                              *)
(***************************************************************************)
(* No STR report and no filing comes without an approver's decision on the *)
(* ISAR, whatever requests overlap: approve is the only way into it.       *)
StrNeedsApproval ==
  reports # <<>> \/ isar.status = "filed_as_str" => isar.approved_by \in Approver

(* An ISAR that was filed has the report that is sent to the FMU: the two  *)
(* are committed together, and a failed generation undoes the filing.      *)
FiledHasReport == isar.status = "filed_as_str" => reports # <<>>

-----------------------------------------------------------------------------
(* update: "Only drafts can be updated."  The code does not keep this when *)
(* an approval overlaps the update.                                        *)
OnlyDraftsUpdated == [][isar'.text # isar.text => isar.status = "draft"]_vars
=============================================================================
