-------------------------- MODULE SuspicionHistory --------------------------
(***************************************************************************)
(* SuspicionReports with a history variable, to say what holds of an ISAR  *)
(* as long as no two requests on it overlapped.                            *)
(***************************************************************************)
EXTENDS SuspicionReports, FiniteSets

VARIABLE overlapped

UnderWay == {r \in Request : req[r] # Idle}

HistoryInit == Init /\ overlapped = FALSE

HistoryNext == Next /\ overlapped' = (overlapped \/ Cardinality(UnderWay') > 1)

HistorySpec == HistoryInit /\ [][HistoryNext]_<<vars, overlapped>>

(* What was reported is what the MLRO approved: once there is a report the *)
(* ISAR stays approved or filed, with the text that was reported.          *)
ReportsAreApprovedText ==
  ~overlapped => \A n \in 1..Len(reports) :
    isar.status \in {"approved", "filed_as_str"} /\ reports[n] = isar.text

(* The traces of the review fit the status, however often an ISAR went     *)
(* around: a rationale is there exactly when it is rejected, and an        *)
(* approved one was reviewed by the person who approved it.                *)
ReviewFitsStatus ==
  ~overlapped =>
    /\ isar.rationale <=> isar.status = "rejected"
    /\ isar.status = "rejected" => isar.reviewed_by \in Approver
    /\ isar.status \in {"approved", "filed_as_str"} =>
         isar.reviewed_by = isar.approved_by /\ isar.approved_by \in Approver
=============================================================================
