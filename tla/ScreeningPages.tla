---------------------------- MODULE ScreeningPages ----------------------------
(***************************************************************************)
(* The pages on screening: the results with the panel that disposes of one *)
(* (screening/results with components/screening/disposition-panel), and    *)
(* the batch jobs, which the page polls while one is active                *)
(* (screening/batch).                                                      *)
(***************************************************************************)
EXTENDS Console

CONSTANTS MaxJobs        \* how many batch jobs there are at most

ScreeningRole == {"mlro", "analyst"}
Disposition == {"true_positive", "false_positive", "escalated"}

(* A match with a sanctions list and one with a list of exposed persons. *)
Match == {"sanctions", "pep"}

-----------------------------------------------------------------------------
(* The results.  They are loaded again whenever the panel opens or closes   *)
(* or the filter changes, without dropping the load before; "loading" is    *)
(* only raised when the page is mounted, and lowered by any load.           *)
ResultsInit ==
  /\ page = "results"
  /\ \E role \in ScreeningRole :
       ui = [filter |-> "", rows |-> <<>>, panel |-> "none", matches |-> "none",
             asked |-> "none", warning |-> FALSE, reload |-> FALSE, role |-> role]
  /\ srv = [m \in Match |-> "pending"]
  /\ Mounted("list", [filter |-> ""], {"loading"})

ChooseDisposition ==
  /\ ui.panel = "none"
  /\ \E filter \in {"", "pending"} \ {ui.filter} :
       /\ ui' = [ui EXCEPT !.filter = filter]
       /\ SendAlso("list", [filter |-> filter], {"loading"})
  /\ UNCHANGED <<page, srv>>

ResultsArrived(s) ==
  /\ Awaits(s, "list")
  /\ ui' = [ui EXCEPT !.rows = IF Succeeded(s) THEN calls[s].ans.data ELSE <<>>]
  /\ End(s) /\ UNCHANGED <<page, srv>>

(* A panel that opens forgets the warning of the one before. *)
OpenPanel ==
  /\ ui.panel = "none" /\ "loading" \notin busy
  /\ \E m \in DOMAIN ui.rows : ui' = [ui EXCEPT !.panel = m, !.warning = FALSE]
  /\ SendAlso("list", [filter |-> ui.filter], {"loading"})
  /\ UNCHANGED <<page, srv>>

ClosePanel ==
  /\ ui.panel # "none"
  /\ ui' = [ui EXCEPT !.panel = "none", !.matches = "none", !.asked = "none"]
  /\ SendAlso("list", [filter |-> ui.filter], {"loading"})
  /\ UNCHANGED <<page, srv>>

(* The panel's own effect, which comes after the page's here: the details   *)
(* of the matches.  An answer is shown whichever result is open by then.    *)
LoadMatches ==
  /\ ui.panel # "none" /\ ui.asked # ui.panel
  /\ ui' = [ui EXCEPT !.asked = ui.panel, !.matches = "none"]
  /\ Send("getResult", [match |-> ui.panel], {"loadingMatches"})
  /\ UNCHANGED <<page, srv>>

MatchesArrived(s) ==
  /\ Awaits(s, "getResult")
  /\ ui' = [ui EXCEPT !.matches = IF Succeeded(s) THEN calls[s].arg.match ELSE "none"]
  /\ End(s) /\ UNCHANGED <<page, srv>>

(* The buttons are not disabled while a disposition is under way, nor by an *)
(* empty rationale.                                                         *)
isSanctionsSource == ui.panel = "sanctions" \/ ui.matches = "sanctions"

handleDisposition ==
  /\ ui.panel # "none" /\ ~ui.warning
  /\ \E d \in Disposition :
       Send("dispose", [match |-> ui.panel, disposition |-> d, filter |-> ui.filter,
                        hit |-> d = "true_positive" /\ isSanctionsSource], {})
  /\ UNCHANGED <<page, ui, srv>>

(* A success closes the panel, whichever result it is about by then, and    *)
(* loads the results of the filter that it was clicked under; the panel     *)
(* closing, the page's effect loads them as well.  An error is swallowed.   *)
(* The panel goes on either way: the warning is set after the panel has     *)
(* closed, or after an error.                                              *)
DispositionEnds(s) ==
  /\ Awaits(s, "dispose")
  /\ LET a == calls[s].arg
         warning == ui.warning \/ a.hit
     IN IF Succeeded(s)
        THEN /\ ui' = [ui EXCEPT !.panel = "none", !.matches = "none", !.asked = "none",
                                 !.warning = warning,
                                 !.reload = ui.reload \/ ui.panel # "none"]
             /\ EndThen(s, "list", [filter |-> a.filter], {})
        ELSE ui' = [ui EXCEPT !.warning = warning] /\ End(s)
  /\ UNCHANGED <<page, srv>>

(* The page's effect of that closing comes after the load of the handler,   *)
(* whether or not that was answered.                                       *)
ReloadResults ==
  /\ ui.reload
  /\ ui' = [ui EXCEPT !.reload = FALSE]
  /\ SendAlso("list", [filter |-> ui.filter], {"loading"})
  /\ UNCHANGED <<page, srv>>

(* POST dispositions: analysts may not dismiss a match with a sanctions     *)
(* list; a disposition can be changed.                                      *)
dispose(a) ==
  IF a.disposition = "false_positive" /\ a.match = "sanctions" /\ ui.role = "analyst"
  THEN Refuse
  ELSE {Reply([srv EXCEPT ![a.match] = a.disposition], Ok([disposition |-> a.disposition]))}

list_results(filter) ==
  LET found == {m \in Match : filter = "" \/ srv[m] = filter} IN [m \in found |-> srv[m]]

ResultsReplies(s) ==
  CASE calls[s].op = "list"      -> {Reply(srv, Ok(list_results(calls[s].arg.filter)))}
    [] calls[s].op = "getResult" -> {Reply(srv, Ok([matches |-> "some"]))}
    [] calls[s].op = "dispose"   -> dispose(calls[s].arg)

ResultsColleague == \E m \in Match, d \in Disposition : Others([srv EXCEPT ![m] = d])

ResultsNext ==
  /\ page = "results"
  /\ \/ ChooseDisposition \/ OpenPanel \/ ClosePanel \/ LoadMatches \/ handleDisposition
     \/ ReloadResults \/ ResultsColleague
     \/ \E s \in Slot : \/ ResultsArrived(s) \/ MatchesArrived(s) \/ DispositionEnds(s)
                        \/ Serve(s, ResultsReplies(s)) \/ Lose(s)

-----------------------------------------------------------------------------
(* The batch jobs, newest last; BatchPromise says how one goes on. *)
Active == {"queued", "processing"}

BatchInit ==
  /\ page = "batch"
  /\ ui = [jobs |-> <<>>, error |-> FALSE]
  /\ srv \in {<<>>, <<"queued">>, <<"complete">>}
  /\ Mounted("listJobs", "none", {"loading"})

(* A mutant: a job that is queued is not polled. *)
hasProcessingJobs == \E i \in DOMAIN ui.jobs : ui.jobs[i] = "processing"

hasActiveJobs == \E i \in DOMAIN ui.jobs : ui.jobs[i] \in Active

(* The interval ticks, whether or not the poll before was answered.  Every  *)
(* load of the jobs lowers "loading", which only the first has raised.      *)
Poll ==
  /\ hasActiveJobs
  /\ SendAlso("listJobs", "none", {"loading"})
  /\ UNCHANGED <<page, ui, srv>>

handleFileChange ==
  /\ "uploading" \notin busy /\ Len(srv) < MaxJobs
  /\ Send("upload", "none", {"uploading"})
  /\ ui' = [ui EXCEPT !.error = FALSE]
  /\ UNCHANGED <<page, srv>>

BatchUploaded(s) ==
  /\ Awaits(s, "upload")
  /\ IF Succeeded(s) THEN ChainAlso(s, "listJobs", "none", {"loading"}) /\ UNCHANGED ui
     ELSE End(s) /\ ui' = [ui EXCEPT !.error = TRUE]
  /\ UNCHANGED <<page, srv>>

(* The error of a load stays until the next upload. *)
fetchJobs(s) ==
  /\ Awaits(s, "listJobs")
  /\ ui' = IF Succeeded(s) THEN [ui EXCEPT !.jobs = calls[s].ans.data]
           ELSE [ui EXCEPT !.error = TRUE]
  /\ End(s) /\ UNCHANGED <<page, srv>>

BatchReplies(s) ==
  CASE calls[s].op = "listJobs" -> {Reply(srv, Ok(srv))}
    [] calls[s].op = "upload"   -> {Reply(Append(srv, "queued"), Ok(<<"queued">>))} \cup Refuse

WorkerStep ==
  /\ \E i \in DOMAIN srv :
       /\ srv[i] \in Active
       /\ \E st \in IF srv[i] = "queued" THEN {"processing", "failed"} ELSE {"complete", "failed"} :
            srv' = [srv EXCEPT ![i] = st]
  /\ UNCHANGED <<page, ui, busy, calls, smooth>>

BatchColleague == Len(srv) < MaxJobs /\ Others(Append(srv, "queued"))

BatchNext ==
  /\ page = "batch"
  /\ \/ Poll \/ handleFileChange \/ WorkerStep \/ BatchColleague
     \/ \E s \in Slot : \/ BatchUploaded(s) \/ fetchJobs(s)
                        \/ Serve(s, BatchReplies(s)) \/ Lose(s)

-----------------------------------------------------------------------------
(* The results shown are those of the filter, and polling stops only when   *)
(* every job is shown as it ended.                                          *)
ScreeningFresh ==
  smooth /\ Quiet =>
    /\ page = "results" => ui.rows = list_results(ui.filter)
    /\ page = "batch" => hasActiveJobs \/ ui.jobs = srv

ScreeningPageInit == ResultsInit \/ BatchInit
ScreeningPageNext == ResultsNext \/ BatchNext
=============================================================================
