---------------------------- MODULE ConsolePages ----------------------------
(***************************************************************************)
(* The console: one of its pages is open, its calls run against the        *)
(* backend, and the user may leave for another page at any time.  The      *)
(* properties are those that every page must have, whatever it is about,   *)
(* and those of single pages.                                              *)
(***************************************************************************)
EXTENDS CasePages, CustomerPages, ListPages, IncidentPages, ReportPages,
        SettingsPages, EditorPages, ApplicationPages, ScreeningPages, SessionPages

ConsoleInit ==
  \/ CaseInit \/ CustomerInit \/ ListInit \/ IncidentInit \/ ReportPageInit
  \/ SettingsPageInit \/ EditorPageInit \/ ApplicationPageInit \/ ScreeningPageInit
  \/ SessionPageInit

PageNext ==
  \/ CaseNext \/ CustomerNext \/ ListNext \/ IncidentNext \/ ReportPageNext
  \/ SettingsPageNext \/ EditorPageNext \/ ApplicationPageNext \/ ScreeningPageNext
  \/ SessionPageNext

LeavePage == page # "elsewhere" /\ Leave

(* What is open next is another run; its calls are dropped with the page.  *)
ConsoleDone == page = "elsewhere" /\ UNCHANGED consoleVars

ConsoleNext == PageNext \/ LeavePage \/ ConsoleDone
ConsoleSpec == ConsoleInit /\ [][ConsoleNext]_consoleVars

SlotSymmetry == Permutations(Slot)

-----------------------------------------------------------------------------
Page ==
  {"case", "customer", "incident", "isar", "newIsar", "strs", "formA5", "formA6", "notifications",
   "advanced", "apiKeys", "tenant", "apply", "applications", "onboarding", "results", "batch",
   "session", "header", "elsewhere"}
    \cup DOMAIN FormPage \cup DOMAIN EditorPage \cup DOMAIN ListPage

(* The calls of every page, and the rows and statuses of single ones. *)
ConsoleTypeOK ==
  /\ page \in Page
  /\ DOMAIN calls = Slot
  /\ \A s \in Slot : DOMAIN calls[s] = IF InFlight(s) THEN {"op", "arg", "flags", "ans"}
                                       ELSE {"op", "flags"}
  /\ smooth \in BOOLEAN
  /\ page = "customer" => srv \in KycBackend!View /\ ui.status \in KycBackend!KycStatus \cup {"none"}
  /\ page = "case" => {srv.status, ui.case} \subseteq CaseStatus \cup {"none"}
  /\ page = "incident" => {srv.status, ui.incident.status} \subseteq IncidentStatus \cup {"none"}
  /\ page = "isar" => {srv.status, ui.isar.status} \subseteq Reporting!IsarStatus \cup {"none"}

(* A control that is disabled, and a page that says that it is loading, is  *)
(* so because of a call that will end: no handler forgets to lower a hook   *)
(* that it raised, on any path, and no other handler takes its place.       *)
BusyHasCall == \A f \in busy : \E s \in Slot : InFlight(s) /\ f \in calls[s].flags

(* An operation whose control is disabled while it runs is not run twice at *)
(* the same time.  Left out are loads, which overlap on purpose, and the    *)
(* hooks that do not keep their promise: the Enter key calls the handlers   *)
(* of notes and of new cases past their disabled button, Escape frees the   *)
(* one of an application under review, the buttons of a settings page share *)
(* one hook, as do the downloads of the STR list.                           *)
Overlapping ==
  {"loading", "loadingMatches", "addingNote", "creatingCase", "submitting", "threshold", "sources",
   "monitoring", "retention", "expiry"} \cup Range(DownloadingXml)
OneInFlight ==
  \A s, t \in Slot : s # t => calls[s].flags \cap calls[t].flags \subseteq Overlapping

CaseFresh == page = "case" /\ CaseRendered /\ smooth /\ Quiet => ui.case = srv.status
CustomerFresh ==
  page = "customer" /\ CustomerRendered /\ smooth /\ Quiet =>
    DetailsShown = srv.status /\ ResultsCard = srv.nadra

(* When nothing is under way, no call was lost or has overlapped another  *)
(* and nobody else has written, every page shows the rows of the backend. *)
PageIsFresh ==
  /\ CaseFresh /\ CustomerFresh /\ ReportFresh /\ SettingsFresh /\ EditorFresh
  /\ ApplicationsFresh /\ ScreeningFresh /\ HeaderFresh
  /\ page = "incident" => IncidentFresh
  /\ page \in DOMAIN ListPage => ListFresh

(* A table that cancels stale loads never shows rows of another filter, and *)
(* one that turns back to its first page is never left past its last row.   *)
TablesAnswerTheirFilter == page \in DOMAIN ListPage => ListIsAsked /\ ListNotStranded

(* As long as no call was lost or overlapped another and nobody else      *)
(* wrote, the console takes no incident back to an earlier status and     *)
(* decides no application twice.                                          *)
NothingIsUndone == [][IncidentMovesForward /\ ApplicationDecidedOnce]_consoleVars
=============================================================================
