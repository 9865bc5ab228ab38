----------------------------- MODULE ReportPages -----------------------------
(***************************************************************************)
(* The pages on reports: one ISAR (reports/isars/[id]), the wizard that    *)
(* makes one (reports/isars/new), the STR reports (reports/str-ctr), and   *)
(* Forms A5 and A6, against the reports endpoints; SuspicionReports has    *)
(* the statuses from which they accept an operation.                       *)
(***************************************************************************)
EXTENDS Console

CONSTANTS MaxStrs        \* how many STR reports there are at most

ReportRole == {"mlro", "analyst"}

Reporting == INSTANCE SuspicionReports
             WITH Request <- {}, User <- ReportRole, Approver <- {"mlro"}, Text <- {},
                  NoOne <- "no one", MaxReports <- MaxStrs,
                  isar <- srv, reports <- <<>>, req <- <<>>

(* The keys that the body of each request must have. *)
Required ==
  [createIsar  |-> {"subjectCustomerId", "suspicionType", "narrative"},
   submit      |-> {},
   approve     |-> {},
   reject      |-> {"rejectionRationale"},
   file        |-> {},
   generateStr |-> {"isarId"}]

-----------------------------------------------------------------------------
(* Downloads, which every page but the wizard has: they carry the token of  *)
(* the moment and are not retried when it has expired.                      *)
handleDownload ==
  /\ "downloading" \notin busy
  /\ \E format \in {"pdf", "docx"} : Send("download", format, {"downloading"})
  /\ UNCHANGED <<page, ui, srv>>

Downloaded(s) == Awaits(s, "download") /\ End(s) /\ UNCHANGED <<page, ui, srv>>

-----------------------------------------------------------------------------
(* One ISAR.  The five sections of the form have other names in the answer  *)
(* than on the page, and the subject is not named in it.                    *)
IsarResponse(rows) ==
  [status |-> rows.status, narrative |-> "text", reporterDetails |-> "section",
   customerDetails |-> "section", transactionDetails |-> "section",
   mlroDetermination |-> "section"]

IsarInit ==
  /\ page = "isar"
  /\ \E role \in ReportRole :
       ui = [isar |-> [status |-> "none"], error |-> FALSE, dialog |-> "none",
             rationale |-> FALSE, role |-> role]
  /\ \E status \in Reporting!IsarStatus : srv = [status |-> status, strs |-> 0]
  /\ Mounted("getIsar", "none", {"loading"})

IsarRendered == "loading" \notin busy /\ ~ui.error /\ ui.isar.status # "none"

(* The buttons under the report; each opens a dialog that asks again. *)
IsarControls ==
  CASE ui.isar.status = "draft"                -> {"submit"}
    [] ui.isar.status = "submitted_for_review" -> {"approve", "reject"}
    [] ui.isar.status = "approved"             -> {"file"}
    [] OTHER                                   -> {}

(* The dots of the timeline that are passed; a rejected report has none. *)
PassedSteps ==
  LET order == [draft |-> 1, submitted_for_review |-> 2, approved |-> 3, filed_as_str |-> 4]
  IN IF ui.isar.status \notin DOMAIN order THEN {}
     ELSE {step \in DOMAIN order : order[step] < order[ui.isar.status]}

IsarSections ==
  {key \in {"section_1_subject", "section_2_suspicion", "section_3_evidence",
            "section_4_analysis", "section_5_recommendation"} :
     KeyOf(ui.isar, key) # "undefined"}

OpenIsarDialog ==
  /\ IsarRendered /\ "actionLoading" \notin busy /\ ui.dialog = "none"
  /\ \E d \in IsarControls : ui' = [ui EXCEPT !.dialog = d]
  /\ NoCall /\ UNCHANGED <<page, srv>>

CloseIsarDialog ==
  /\ IsarRendered /\ ui.dialog # "none"
  /\ ui' = [ui EXCEPT !.dialog = "none", !.rationale = FALSE]
  /\ NoCall /\ UNCHANGED <<page, srv>>

TypeRationale ==
  /\ IsarRendered /\ ui.dialog = "reject"
  /\ ui' = [ui EXCEPT !.rationale = TRUE]
  /\ NoCall /\ UNCHANGED <<page, srv>>

(* The click that confirms also closes the dialog. *)
ConfirmIsar(op, keys) ==
  /\ IsarRendered
  /\ ui.dialog = op
  /\ "actionLoading" \notin busy
  /\ Send(op, keys, {"actionLoading"})
  /\ ui' = [ui EXCEPT !.dialog = "none", !.rationale = FALSE]
  /\ UNCHANGED <<page, srv>>

handleSubmitForReview == ConfirmIsar("submit", {})
handleApprove == ConfirmIsar("approve", {"notes"})
handleReject == ui.rationale /\ ConfirmIsar("reject", {"rationale"})
handleFileAsStr == ConfirmIsar("file", {})

(* After a success the report is loaded again. *)
IsarActed(s) ==
  /\ calls[s].op \in {"submit", "approve", "reject", "file"} /\ Awaits(s, calls[s].op)
  /\ IF Succeeded(s) THEN Chain(s, "getIsar", "none", {"loading"}) /\ ui' = [ui EXCEPT !.error = FALSE]
     ELSE End(s) /\ UNCHANGED ui
  /\ UNCHANGED <<page, srv>>

fetchIsar(s) ==
  /\ Awaits(s, "getIsar")
  /\ ui' = IF Succeeded(s) THEN [ui EXCEPT !.isar = calls[s].ans.data]
           ELSE [ui EXCEPT !.error = TRUE]
  /\ End(s) /\ UNCHANGED <<page, srv>>

(* Filing makes an STR report as well. *)
IsarAfter(op) ==
  CASE op = "submit"  -> [srv EXCEPT !.status = "submitted_for_review"]
    [] op = "approve" -> [srv EXCEPT !.status = "approved"]
    [] op = "reject"  -> [srv EXCEPT !.status = "rejected"]
    [] op = "file"    -> [srv EXCEPT !.status = "filed_as_str", !.strs = 1]

IsarReplies(s) ==
  LET op == calls[s].op IN
  CASE op = "getIsar"  -> {Reply(srv, Ok(IsarResponse(srv)))}
    [] op = "download" -> {Reply(srv, Ok("file"))}
    [] OTHER ->
         IF /\ Reporting!May(ui.role, op) /\ srv.status \in Reporting!From(op)
            /\ Required[op] \subseteq calls[s].arg
         THEN {Reply(IsarAfter(op), Ok("isar"))}
         ELSE Refuse

IsarColleague ==
  \E op \in {"submit", "approve", "reject", "file"} :
    srv.status \in Reporting!From(op) /\ Others(IsarAfter(op))

IsarNext ==
  /\ page = "isar"
  /\ \/ OpenIsarDialog \/ CloseIsarDialog \/ TypeRationale
     \/ handleSubmitForReview \/ handleApprove \/ handleReject \/ handleFileAsStr
     \/ IsarRendered /\ handleDownload
     \/ IsarColleague
     \/ \E s \in Slot : \/ IsarActed(s) \/ fetchIsar(s) \/ Downloaded(s)
                        \/ Serve(s, IsarReplies(s)) \/ Lose(s)

-----------------------------------------------------------------------------
(* The wizard: four steps, none of which checks its fields. *)
NewIsarInit ==
  /\ page = "newIsar"
  /\ ui = [step |-> 1, customer |-> FALSE, customers |-> FALSE]
  /\ srv = [isars |-> 0]
  /\ Mounted("listCustomers", "none", {"loadingCustomers"})

loadCustomers(s) ==
  /\ Awaits(s, "listCustomers")
  /\ ui' = [ui EXCEPT !.customers = Succeeded(s)]
  /\ End(s) /\ UNCHANGED <<page, srv>>

ChooseCustomer ==
  /\ ui.step = 1 /\ ui.customers
  /\ ui' = [ui EXCEPT !.customer = ~@]
  /\ NoCall /\ UNCHANGED <<page, srv>>

IsarBody ==
  {"subject_name", "suspicion_type", "narrative"}
    \cup (IF ui.customer THEN {"customer_id"} ELSE {})

handleNext ==
  /\ "submitting" \notin busy
  /\ IF ui.step < 4 THEN ui' = [ui EXCEPT !.step = @ + 1] /\ NoCall
     ELSE Send("createIsar", IsarBody, {"submitting"}) /\ UNCHANGED ui
  /\ UNCHANGED <<page, srv>>

handleBack ==
  /\ ui.step > 1
  /\ ui' = [ui EXCEPT !.step = @ - 1]
  /\ NoCall /\ UNCHANGED <<page, srv>>

IsarCreated(s) ==
  /\ Awaits(s, "createIsar")
  /\ IF Succeeded(s) THEN Leave ELSE End(s) /\ UNCHANGED <<page, ui, srv>>

NewIsarReplies(s) ==
  CASE calls[s].op = "listCustomers" -> {Reply(srv, Ok("customers"))}
    [] calls[s].op = "createIsar" ->
         IF Required["createIsar"] \subseteq calls[s].arg
         THEN {Reply([srv EXCEPT !.isars = @ + 1], Ok("isar"))} ELSE Refuse

NewIsarNext ==
  /\ page = "newIsar"
  /\ \/ ChooseCustomer \/ handleNext \/ handleBack
     \/ \E s \in Slot : \/ loadCustomers(s) \/ IsarCreated(s)
                        \/ Serve(s, NewIsarReplies(s)) \/ Lose(s)

-----------------------------------------------------------------------------
(* STR reports.  The answer calls the status filingStatus, the page reads   *)
(* status and takes "filed" by default.                                     *)
StrReportResponse(n) == [i \in 1 .. n |-> [isarId |-> "isar", filingStatus |-> "generated"]]
StatusShown(report) == OrElse(KeyOf(report, "status"), "filed")

StrsInit ==
  /\ page = "strs"
  /\ ui = [reports |-> <<>>, error |-> FALSE, generateOpen |-> FALSE]
  /\ \E n \in 0 .. MaxStrs : srv = [strs |-> n]
  /\ Mounted("listStrs", "none", {"loading"})

(* One hook names the report that is being downloaded: a flag for each. *)
DownloadingXml == <<"first report", "second report">>

handleDownloadXml ==
  /\ "loading" \notin busy
  /\ \E i \in DOMAIN ui.reports \cap DOMAIN DownloadingXml :
       /\ DownloadingXml[i] \notin busy
       /\ SendShared("download", "xml", DownloadingXml[i], Range(DownloadingXml))
  /\ UNCHANGED <<page, ui, srv>>

SetGenerateOpen ==
  /\ ui.generateOpen \/ "generating" \notin busy
  /\ ui' = [ui EXCEPT !.generateOpen = ~@]
  /\ NoCall /\ UNCHANGED <<page, srv>>

handleGenerateStr ==
  /\ ui.generateOpen /\ "generating" \notin busy
  /\ Send("generateStr", {}, {"generating"})
  /\ ui' = [ui EXCEPT !.generateOpen = FALSE]
  /\ UNCHANGED <<page, srv>>

StrGenerated(s) ==
  /\ Awaits(s, "generateStr")
  /\ IF Succeeded(s) THEN Chain(s, "listStrs", "none", {"loading"}) ELSE End(s)
  /\ UNCHANGED <<page, ui, srv>>

fetchReports(s) ==
  /\ Awaits(s, "listStrs")
  /\ ui' = IF Succeeded(s) THEN [ui EXCEPT !.reports = calls[s].ans.data, !.error = FALSE]
           ELSE [ui EXCEPT !.error = TRUE]
  /\ End(s) /\ UNCHANGED <<page, srv>>

StrsReplies(s) ==
  CASE calls[s].op = "listStrs" -> {Reply(srv, Ok(StrReportResponse(srv.strs)))}
    [] calls[s].op = "download" -> {Reply(srv, Ok("xml"))}
    [] calls[s].op = "generateStr" ->
         IF Required["generateStr"] \subseteq calls[s].arg
         THEN {Reply(srv, Ok("report"))} ELSE Refuse

StrsColleague == srv.strs < MaxStrs /\ Others([srv EXCEPT !.strs = @ + 1])

StrsNext ==
  /\ page = "strs"
  /\ \/ handleDownloadXml \/ SetGenerateOpen \/ handleGenerateStr \/ StrsColleague
     \/ \E s \in Slot : \/ StrGenerated(s) \/ fetchReports(s) \/ Downloaded(s)
                        \/ Serve(s, StrsReplies(s)) \/ Lose(s)

-----------------------------------------------------------------------------
(* Form A5: the tenant and the preview are loaded together, and what fails  *)
(* leaves its default.  The register has another name in the answer.        *)
FormA5Init ==
  /\ page = "formA5"
  /\ ui = [entries |-> 0]
  /\ \E n \in {0, 1} : srv = [register |-> n]
  /\ Mounted("getFormA5", "none", {"loading"})

FormA5Loaded(s) ==
  /\ Awaits(s, "getFormA5")
  /\ ui' = IF Succeeded(s)
           THEN [ui EXCEPT !.entries =
                   OrElse(KeyOf(calls[s].ans.data, "entries"),
                          OrElse(KeyOf(calls[s].ans.data, "outsourcing_arrangements"), 0))]
           ELSE ui
  /\ End(s) /\ UNCHANGED <<page, srv>>

FormA5Replies(s) ==
  CASE calls[s].op = "getFormA5" -> {Reply(srv, Ok([outsourcingRegister |-> srv.register]))}
    [] calls[s].op = "download"  -> {Reply(srv, Ok("file"))}

FormA5Next ==
  /\ page = "formA5"
  /\ \/ handleDownload
     \/ \E s \in Slot : FormA5Loaded(s) \/ Downloaded(s) \/ Serve(s, FormA5Replies(s)) \/ Lose(s)

-----------------------------------------------------------------------------
(* Form A6: every change of the year loads the statistics again, without    *)
(* dropping the load before; a year out of range is refused.                *)
Year == {"this year", "last year", "out of range"}

FormA6Init ==
  /\ page = "formA6"
  /\ ui = [year |-> "this year", statsOf |-> "zero"]
  /\ srv = "statistics"
  /\ Mounted("getStats", "this year", {"loading"})

ChooseYear ==
  /\ \E y \in Year \ {ui.year} :
       ui' = [ui EXCEPT !.year = y] /\ Send("getStats", y, {"loading"})
  /\ UNCHANGED <<page, srv>>

fetchStats(s) ==
  /\ Awaits(s, "getStats")
  /\ ui' = [ui EXCEPT !.statsOf = IF Succeeded(s) THEN calls[s].arg ELSE "zero"]
  /\ End(s) /\ UNCHANGED <<page, srv>>

FormA6Replies(s) ==
  IF calls[s].arg = "out of range" THEN Refuse ELSE {Reply(srv, Ok("numbers"))}

FormA6Next ==
  /\ page = "formA6"
  /\ \/ ChooseYear \/ handleDownload
     \/ \E s \in Slot : fetchStats(s) \/ Downloaded(s) \/ Serve(s, FormA6Replies(s)) \/ Lose(s)

-----------------------------------------------------------------------------
ReportFresh ==
  smooth /\ Quiet =>
    /\ page = "isar" /\ IsarRendered => ui.isar = IsarResponse(srv)
    /\ page = "strs" => Len(ui.reports) = srv.strs
    /\ page = "formA6" => ui.statsOf = IF ui.year = "out of range" THEN "zero" ELSE ui.year

ReportPageInit == IsarInit \/ NewIsarInit \/ StrsInit \/ FormA5Init \/ FormA6Init
ReportPageNext == IsarNext \/ NewIsarNext \/ StrsNext \/ FormA5Next \/ FormA6Next
=============================================================================
