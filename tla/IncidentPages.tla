---------------------------- MODULE IncidentPages ----------------------------
(***************************************************************************)
(* One incident (incidents/[id]/page.tsx): the authority is notified, a    *)
(* detailed report submitted, the incident resolved or edited.  Each       *)
(* handler awaits its call and then a load of the incident.                *)
(***************************************************************************)
EXTENDS Console

(* A mutant: the enum lacks the submitted report. *)
IncidentStatusBeforeReport ==
  {"detected", "authority_notified", "investigating", "resolved", "closed"}

IncidentStatus ==
  {"detected", "authority_notified", "investigating", "report_submitted", "resolved", "closed"}

(* The place of a status in the timeline. *)
STATUS_STEPS ==
  [detected |-> 0, authority_notified |-> 1, investigating |-> 2,
   report_submitted |-> 3, resolved |-> 4, closed |-> 5]

-----------------------------------------------------------------------------
(* The answer of every endpoint has its keys in camel case; the page reads  *)
(* keys in snake case.                                                      *)
IncidentResponse(rows) ==
  [status |-> rows.status, containmentSteps |-> rows.containment,
   notifiedAt |-> rows.notified, reportSubmittedAt |-> rows.reported]

Text(value) == OrElse(value, "")

IncidentInit ==
  /\ page = "incident"
  /\ ui = [incident |-> [status |-> "none"], error |-> FALSE, dialog |-> "none",
           containment |-> ""]
  /\ \E status \in IncidentStatus, text \in {"null", "steps"} :
       srv = [status |-> status, containment |-> text,
              notified |-> IF status = "detected" THEN "null" ELSE "time",
              reported |-> IF STATUS_STEPS[status] < 3 THEN "null" ELSE "time"]
  /\ Mounted("getIncident", "none", {"loading"})

IncidentRendered == "loading" \notin busy /\ ~ui.error /\ ui.incident.status # "none"

(* A mutant: the authority can be notified again until it is resolved. *)
IncidentControlsLong ==
  CASE ui.incident.status \in {"detected", "report_submitted"} -> {"notify", "edit"}
    [] OTHER -> {"edit"}

(* What the header offers; Submit Report opens a dialog, Resolve another. *)
IncidentControls ==
  LET i == ui.incident IN
  CASE i.status = "detected" -> {"notify", "edit"}
    [] /\ i.status \in {"authority_notified", "investigating"}
       /\ Text(KeyOf(i, "report_submitted_at")) = "" -> {"report", "edit"}
    [] i.status = "report_submitted" -> {"resolve", "edit"}
    [] OTHER -> {"edit"}

OpenDialog ==
  /\ IncidentRendered /\ ui.dialog = "none"
  /\ \E d \in IncidentControls \ {"notify"} : ui' = [ui EXCEPT !.dialog = d]
  /\ NoCall /\ UNCHANGED <<page, srv>>

CloseDialog ==
  /\ IncidentRendered /\ ui.dialog # "none"
  /\ ui' = [ui EXCEPT !.dialog = "none"]
  /\ NoCall /\ UNCHANGED <<page, srv>>

TypeContainment ==
  /\ IncidentRendered /\ ui.dialog = "edit" /\ ui.containment # "typed"
  /\ ui' = [ui EXCEPT !.containment = "typed"]
  /\ NoCall /\ UNCHANGED <<page, srv>>

(* A mutant: the buttons are not disabled. *)
PressAgain(op, arg, flag) ==
  /\ IncidentRendered
  /\ Send(op, arg, {flag})
  /\ UNCHANGED <<page, ui, srv>>

Press(op, arg, flag) ==
  /\ IncidentRendered
  /\ flag \notin busy
  /\ Send(op, arg, {flag})
  /\ UNCHANGED <<page, ui, srv>>

handleNotifyAuthority ==
  /\ ui.dialog = "none" /\ "notify" \in IncidentControls
  /\ Press("notify", "none", "notifying")

handleSubmitReport == ui.dialog = "report" /\ Press("report", "none", "submittingReport")
handleResolve == ui.dialog = "resolve" /\ Press("resolve", "none", "resolving")
handleEdit == ui.dialog = "edit" /\ Press("edit", ui.containment, "saving")

(* Each handler closes its own dialog and loads the incident; an error      *)
(* leaves the dialog open.                                                  *)
IncidentChanged(s) ==
  /\ calls[s].op \in {"notify", "report", "resolve", "edit"} /\ Awaits(s, calls[s].op)
  /\ IF Succeeded(s)
     THEN /\ ui' = [ui EXCEPT !.dialog = IF @ = calls[s].op THEN "none" ELSE @,
                              !.error = FALSE]
          /\ Chain(s, "getIncident", "none", {"loading"})
     ELSE End(s) /\ UNCHANGED ui
  /\ UNCHANGED <<page, srv>>

(* The load also fills the form of the edit dialog. *)
fetchIncident(s) ==
  /\ Awaits(s, "getIncident")
  /\ ui' = IF Succeeded(s)
           THEN [ui EXCEPT !.incident = calls[s].ans.data,
                           !.containment =
                             Text(KeyOf(calls[s].ans.data, "containment_steps"))]
           ELSE [ui EXCEPT !.error = TRUE]
  /\ End(s) /\ UNCHANGED <<page, srv>>

(* The cards show what the page has read, or a dash. *)
DetailsCard == Text(KeyOf(ui.incident, "containment_steps"))
TimelineCard ==
  {st \in IncidentStatus : STATUS_STEPS[st] <= STATUS_STEPS[ui.incident.status]}
DeadlinesCard ==
  [notified |-> Text(KeyOf(ui.incident, "notified_at")),
   reported |-> Text(KeyOf(ui.incident, "report_submitted_at"))]

-----------------------------------------------------------------------------
(* The endpoints have no guard on the status. *)
mark_authority_notified == [srv EXCEPT !.status = "authority_notified", !.notified = "time"]
submit_detailed_report == [srv EXCEPT !.status = "report_submitted", !.reported = "time"]
resolve_incident == [srv EXCEPT !.status = "resolved"]
update_incident(text) == [srv EXCEPT !.containment = text]

IncidentReplies(s) ==
  LET rows == CASE calls[s].op = "getIncident" -> srv
                [] calls[s].op = "notify"      -> mark_authority_notified
                [] calls[s].op = "report"      -> submit_detailed_report
                [] calls[s].op = "resolve"     -> resolve_incident
                [] calls[s].op = "edit"        -> update_incident(calls[s].arg)
  IN {Reply(rows, Ok(IncidentResponse(rows)))}

IncidentColleague ==
  \/ Others(mark_authority_notified)
  \/ Others(submit_detailed_report)
  \/ Others(resolve_incident)

IncidentNext ==
  /\ page = "incident"
  /\ \/ OpenDialog \/ CloseDialog \/ TypeContainment
     \/ handleNotifyAuthority \/ handleSubmitReport \/ handleResolve \/ handleEdit
     \/ IncidentColleague
     \/ \E s \in Slot : \/ IncidentChanged(s) \/ fetchIncident(s)
                        \/ Serve(s, IncidentReplies(s)) \/ Lose(s)

-----------------------------------------------------------------------------
(* As long as no call was lost or overlapped another and nobody else     *)
(* wrote, the console never takes an incident back.                      *)
IncidentMovesForward ==
  page = "incident" /\ smooth' => STATUS_STEPS[srv'.status] >= STATUS_STEPS[srv.status]

IncidentFresh ==
  smooth /\ Quiet /\ IncidentRendered =>
    /\ \A st \in TimelineCard : STATUS_STEPS[st] <= STATUS_STEPS[srv.status]
    /\ ui.incident = IncidentResponse(srv)
=============================================================================
