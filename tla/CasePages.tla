------------------------------ MODULE CasePages ------------------------------
(***************************************************************************)
(* The page on one compliance case (cases/[id]/page.tsx), against the      *)
(* endpoints of the compliance module; ListPages has the list of cases.    *)
(***************************************************************************)
EXTENDS Console

CONSTANTS MaxNotes       \* how many notes there are at most

(* The transition table of the backend, and the roles that may close. *)
CaseBackend == INSTANCE CaseWorkflow WITH Request <- {}, case <- srv, req <- <<>>

CaseStatus == CaseBackend!CaseStatus
UserRole   == CaseBackend!UserRole

(* lib/case-workflow.ts: the console's own copy of the table. *)
CASE_TRANSITIONS ==
  [open             |-> {"investigating", "escalated"},
   investigating    |-> {"escalated", "closed_no_action", "closed_str_filed"},
   escalated        |-> {"closed_no_action", "closed_str_filed"},
   closed_no_action |-> {"open"},
   closed_str_filed |-> {}]

isCaseClosed(status) == status \in {"closed_no_action", "closed_str_filed"}

-----------------------------------------------------------------------------
(* One case.  A CaseResponse carries the status and no note. *)
CaseResponse(rows) == [status |-> rows.status, notes |-> 0]

CaseInit ==
  /\ page = "case"
  /\ \E role \in UserRole :
       ui = [case |-> "none", notes |-> 0, error |-> FALSE, noteText |-> FALSE,
             pendingStatus |-> "none", confirmOpen |-> FALSE, role |-> role]
  /\ \E status \in CaseStatus : srv = [status |-> status, notes |-> 0]
  /\ Mounted("getCase", "none", {"loading"})

(* The page proper is only rendered with a case, without an error, and     *)
(* while no load is under way.                                             *)
CaseRendered == "loading" \notin busy /\ ~ui.error /\ ui.case # "none"

(* The menu of statuses: a closed case can only be reopened by the MLRO. *)
StatusMenu ==
  IF isCaseClosed(ui.case) /\ ui.role # "mlro" THEN {} ELSE CASE_TRANSITIONS[ui.case]

(* Choosing a status opens the dialog that asks for confirmation. *)
handleStatusSelect ==
  /\ CaseRendered
  /\ "updatingStatus" \notin busy
  /\ \E newStatus \in StatusMenu :
       ui' = [ui EXCEPT !.pendingStatus = newStatus, !.confirmOpen = TRUE]
  /\ NoCall /\ UNCHANGED <<page, srv>>

(* Cancel clears the choice; Escape closes the dialog alone. *)
CancelStatus ==
  /\ CaseRendered /\ ui.confirmOpen
  /\ \E status \in {ui.pendingStatus, "none"} :
       ui' = [ui EXCEPT !.confirmOpen = FALSE, !.pendingStatus = status]
  /\ NoCall /\ UNCHANGED <<page, srv>>

handleStatusConfirm ==
  /\ CaseRendered /\ ui.confirmOpen /\ ui.pendingStatus # "none"
  /\ ui' = [ui EXCEPT !.confirmOpen = FALSE]
  /\ Send("patchCase", ui.pendingStatus, {"updatingStatus"})
  /\ UNCHANGED <<page, srv>>

StatusConfirmed(s) ==
  /\ Awaits(s, "patchCase")
  /\ ui' = [ui EXCEPT !.pendingStatus = "none",
                      !.case = IF Succeeded(s) THEN calls[s].ans.data.status ELSE @,
                      !.notes = IF Succeeded(s) THEN calls[s].ans.data.notes ELSE @]
  /\ End(s) /\ UNCHANGED <<page, srv>>

TypeNote ==
  /\ CaseRendered /\ ~ui.noteText
  /\ ui' = [ui EXCEPT !.noteText = TRUE]
  /\ NoCall /\ UNCHANGED <<page, srv>>

(* The button is disabled while a note is being added; the Enter key of    *)
(* the input calls the handler all the same.                               *)
handleAddNote ==
  /\ CaseRendered /\ ui.noteText /\ srv.notes < MaxNotes
  /\ Send("addNote", "none", {"addingNote"})
  /\ UNCHANGED <<page, ui, srv>>

(* After the note, the case is loaded again before the handler ends. *)
NoteAdded(s) ==
  /\ Awaits(s, "addNote")
  /\ IF Succeeded(s)
     THEN /\ ui' = [ui EXCEPT !.noteText = FALSE, !.error = FALSE]
          /\ Chain(s, "getCase", "none", {"loading"})
     ELSE End(s) /\ UNCHANGED ui
  /\ UNCHANGED <<page, srv>>

fetchCase(s) ==
  /\ Awaits(s, "getCase")
  /\ ui' = IF Succeeded(s)
           THEN [ui EXCEPT !.case = calls[s].ans.data.status, !.notes = calls[s].ans.data.notes]
           ELSE [ui EXCEPT !.error = TRUE]
  /\ End(s) /\ UNCHANGED <<page, srv>>

(* PATCH and POST notes of the backend, one request at a time. *)
CasePatched(status) ==
  IF /\ CaseBackend!CanTransition(srv.status, status)
     /\ isCaseClosed(status) => ui.role \in CaseBackend!CloserRoles
  THEN LET rows == [srv EXCEPT !.status = status] IN {Reply(rows, Ok(CaseResponse(rows)))}
  ELSE Refuse

CaseReplies(s) ==
  CASE calls[s].op = "getCase"   -> {Reply(srv, Ok(CaseResponse(srv)))}
    [] calls[s].op = "patchCase" -> CasePatched(calls[s].arg)
    [] calls[s].op = "addNote"   -> {Reply([srv EXCEPT !.notes = @ + 1], Ok("note"))}

CaseColleague ==
  \E status \in CASE_TRANSITIONS[srv.status] : Others([srv EXCEPT !.status = status])

CaseNext ==
  /\ page = "case"
  /\ \/ handleStatusSelect \/ CancelStatus \/ handleStatusConfirm
     \/ TypeNote \/ handleAddNote
     \/ CaseColleague
     \/ \E s \in Slot : \/ StatusConfirmed(s) \/ NoteAdded(s) \/ fetchCase(s)
                        \/ Serve(s, CaseReplies(s)) \/ Lose(s)
=============================================================================
