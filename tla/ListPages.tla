------------------------------ MODULE ListPages ------------------------------
(***************************************************************************)
(* The pages that are one table of rows under filters: cases, customers,   *)
(* alerts, wallets, incidents, ISARs, and the administrator's tenants and  *)
(* audit log.  The table and its pager are components/tables/data-table.   *)
(* What tells the pages apart is a record each: how the effect that loads  *)
(* the rows runs (Effect) and how the table is controlled (Table).         *)
(*                                                                         *)
(* Rows are counted by the filter value that they match.                   *)
(***************************************************************************)
EXTENDS Console

CONSTANTS
  PerPage,     \* the rows on a page of a table
  Limit        \* the rows that the pages without server paging get at most

ASSUME ListAssumption == PerPage \in Nat \ {0} /\ Limit \in Nat \ {0}

-----------------------------------------------------------------------------
(* The effects.  paged: the call asks for one page of rows; cancels: the    *)
(* cleanup drops the call before; raises: loading is raised at every run;   *)
(* clears: an error empties the rows; counts: the answer has the total.     *)
Effect(paged, cancels, raises, clears, counts) ==
  [paged |-> paged, cancels |-> cancels, raises |-> raises, clears |-> clears,
   counts |-> counts]

(* A mutant: the cleanup does not drop the call before. *)
AlertsEffectKeeps == Effect(TRUE, FALSE, FALSE, TRUE, TRUE)

CasesEffect     == Effect(FALSE, FALSE, TRUE,  FALSE, FALSE)
CustomersEffect == Effect(FALSE, FALSE, TRUE,  FALSE, TRUE)
AlertsEffect    == Effect(TRUE,  TRUE,  FALSE, TRUE,  TRUE)
WalletsEffect   == Effect(TRUE,  TRUE,  FALSE, TRUE,  TRUE)
IncidentsEffect == Effect(TRUE,  FALSE, TRUE,  FALSE, TRUE)
IsarsEffect     == Effect(FALSE, FALSE, TRUE,  FALSE, FALSE)
TenantsEffect   == Effect(FALSE, FALSE, TRUE,  FALSE, FALSE)
AuditEffect     == Effect(TRUE,  FALSE, TRUE,  FALSE, TRUE)

(* The tables.  options: the values of its first filter; pages: whether the *)
(* pager turns pages; resets: a new filter turns back to the first page;    *)
(* search: rows already loaded can be searched; own: the filters and the     *)
(* pager are the page's own, so that the filter is a hook and not in the    *)
(* address, and the pager stays when there is no row.                       *)
Table(options, pages, resets, search, own) ==
  [options |-> options, pages |-> pages, resets |-> resets, search |-> search, own |-> own]

CasesTable ==
  Table({"open", "investigating", "escalated", "closed_no_action", "closed_str_filed"},
        FALSE, FALSE, FALSE, FALSE)
CustomersTable ==
  Table({"approved", "rejected", "initiated", "documents_uploaded", "edd_required"},
        TRUE, FALSE, TRUE, FALSE)
AlertsTable == Table({"critical", "high", "medium", "low"}, TRUE, FALSE, FALSE, FALSE)
WalletsTable == Table({"low", "medium", "high", "severe"}, TRUE, FALSE, FALSE, FALSE)
IncidentsTable == Table({"critical", "high", "medium", "low"}, TRUE, TRUE, FALSE, FALSE)
IsarsTable ==
  Table({"draft", "submitted_for_review", "approved", "rejected", "filed_as_str"},
        FALSE, FALSE, FALSE, FALSE)
TenantsTable == Table({}, TRUE, FALSE, FALSE, FALSE)
AuditTable ==
  Table({"screening.check", "isar.approve", "tenant.update", "tenant.create",
         "kyc.status_change", "screening.disposition", "case.create"},
        TRUE, TRUE, FALSE, TRUE)

ListOf(effect, table) ==
  [paged |-> effect.paged, cancels |-> effect.cancels, raises |-> effect.raises,
   clears |-> effect.clears, counts |-> effect.counts,
   options |-> table.options, pages |-> table.pages, resets |-> table.resets,
   search |-> table.search, own |-> table.own]

ListPage ==
  [cases     |-> ListOf(CasesEffect, CasesTable),
   customers |-> ListOf(CustomersEffect, CustomersTable),
   alerts    |-> ListOf(AlertsEffect, AlertsTable),
   wallets   |-> ListOf(WalletsEffect, WalletsTable),
   incidents |-> ListOf(IncidentsEffect, IncidentsTable),
   isars     |-> ListOf(IsarsEffect, IsarsTable),
   tenants   |-> ListOf(TenantsEffect, TenantsTable),
   audit     |-> ListOf(AuditEffect, AuditTable)]

(* Two values of the filter are enough to tell rows apart. *)
Kind(l) ==
  IF Cardinality(ListPage[l].options) < 2 THEN {"any"}
  ELSE CHOOSE k \in SUBSET ListPage[l].options : Cardinality(k) = 2

-----------------------------------------------------------------------------
List == ListPage[page]

(* How many rows a filter leaves; without one, all of them. *)
Matching(filter, rows) ==
  Cardinality(UNION {{kind} \X (1 .. rows[kind]) :
                       kind \in {k \in DOMAIN rows : filter \in {"", k}}})

Asked(filter, number) == [filter |-> filter, number |-> IF List.paged THEN number ELSE 1]

ListInit ==
  \E l \in DOMAIN ListPage :
    /\ page = l
    /\ ui = [filter |-> "", next |-> "", number |-> 1, search |-> FALSE, total |-> 0, error |-> FALSE,
             shown |-> [filter |-> "", number |-> 1], createOpen |-> FALSE]
    /\ srv \in [Kind(l) -> 0 .. 2]
    /\ Mounted("list", [filter |-> "", number |-> 1], {"loading"})

(* The rows at hand, those that a search leaves, and the pages of the pager. *)
Loaded(u) == IF List.paged THEN u.total ELSE SmallerOf(u.total, Limit)
Found(u) == IF u.search THEN SmallerOf(1, Loaded(u)) ELSE Loaded(u)
PagerTotal(u) == IF u.search \/ ~List.counts THEN Found(u) ELSE u.total
TotalPages(u) == LargerOf(1, (PagerTotal(u) + PerPage - 1) \div PerPage)

(* Whether a row is on the page, and whether the pager is. *)
HasRows(u) ==
  LET number == IF List.paged THEN u.shown.number ELSE IF List.pages THEN u.number ELSE 1
  IN Found(u) > (number - 1) * PerPage
HasPager(u) == "loading" \notin busy /\ PagerTotal(u) > 0 /\ (HasRows(u) \/ List.own)

(* The effect runs again for new dependencies. *)
Load(u) ==
  LET arg == Asked(u.filter, u.number)
      pending == {s \in Slot : InFlight(s)}
  IN IF List.cancels /\ pending # {}
     THEN \E s \in pending : Replace(s, "list", arg)
     ELSE Send("list", arg, IF List.raises THEN {"loading"} ELSE {})

(* A filter in the address changes after the hook of the page: a page that  *)
(* turns back to the first page loads it under the old filter before.       *)
ChooseFilter ==
  \E filter \in (Kind(page) \cap List.options) \cup {""} :
    /\ filter # ui.filter
    /\ LET number == IF List.resets THEN 1 ELSE ui.number
       IN ui' = [ui EXCEPT !.next = filter, !.number = number,
                           !.filter = IF List.own \/ number = ui.number THEN filter ELSE @]
    /\ Load(ui') /\ UNCHANGED <<page, srv>>

AddressChanged ==
  /\ ui.next # ui.filter
  /\ ui' = [ui EXCEPT !.filter = ui.next]
  /\ Load(ui') /\ UNCHANGED <<page, srv>>

(* Previous and Next; the effect only depends on the page if it asks for   *)
(* it.  The address is taken to have changed by the next click.            *)
TurnPage ==
  /\ List.pages /\ HasPager(ui) /\ ui.next = ui.filter
  /\ \E number \in {ui.number - 1, ui.number + 1} \cap 1 .. TotalPages(ui) :
       ui' = [ui EXCEPT !.number = number]
  /\ IF List.paged THEN Load(ui') ELSE NoCall
  /\ UNCHANGED <<page, srv>>

Search ==
  /\ List.search
  /\ ui' = [ui EXCEPT !.search = ~@]
  /\ NoCall /\ UNCHANGED <<page, srv>>

ListArrived(s) ==
  /\ Awaits(s, "list")
  /\ ui' = IF Succeeded(s)
           THEN [ui EXCEPT !.total = calls[s].ans.data, !.shown = calls[s].arg, !.error = FALSE]
           ELSE [ui EXCEPT !.total = IF List.clears THEN 0 ELSE @, !.error = TRUE]
  /\ End(s) /\ UNCHANGED <<page, srv>>

(* The dialog of the cases and of the tenants that makes a row.  Its button *)
(* closes it and is disabled during a creation; the Enter key, on cases,    *)
(* does not close it and creates all the same.  Bound: two rows of a kind.  *)
SetCreateOpen ==
  /\ page \in {"cases", "tenants"}
  /\ ui' = [ui EXCEPT !.createOpen = ~@]
  /\ NoCall /\ UNCHANGED <<page, srv>>

handleCreate ==
  /\ ui.createOpen /\ \A k \in DOMAIN srv : srv[k] < 2
  /\ LET flag == IF page = "cases" THEN "creatingCase" ELSE "creating" IN
     /\ \/ flag \notin busy /\ ui' = [ui EXCEPT !.createOpen = FALSE]
        \/ page = "cases" /\ UNCHANGED ui
     /\ Send("create", "none", {flag})
  /\ UNCHANGED <<page, srv>>

(* A new case is opened, a new tenant is listed. *)
RowCreated(s) ==
  /\ Awaits(s, "create")
  /\ IF ~Succeeded(s) THEN End(s) /\ UNCHANGED <<page, ui, srv>>
     ELSE IF page = "cases" THEN Leave
     ELSE /\ ui' = [ui EXCEPT !.createOpen = FALSE]
          /\ EndThen(s, "list", Asked(ui.filter, ui.number), {"loading"})
          /\ UNCHANGED <<page, srv>>

(* A tenant is refused when its slug is taken. *)
ListReplies(s) ==
  CASE calls[s].op = "list"   -> {Reply(srv, Ok(Matching(calls[s].arg.filter, srv)))}
    [] calls[s].op = "create" ->
         {Reply([srv EXCEPT ![k] = @ + 1], Ok("row")) : k \in DOMAIN srv} \cup Refuse

ListColleague ==
  \E k \in DOMAIN srv, n \in 0 .. 2 : Others([srv EXCEPT ![k] = n])

ListNext ==
  /\ page \in DOMAIN ListPage
  /\ \/ ChooseFilter \/ AddressChanged \/ TurnPage \/ Search \/ ListColleague
     \/ SetCreateOpen \/ handleCreate
     \/ \E s \in Slot : ListArrived(s) \/ RowCreated(s) \/ Serve(s, ListReplies(s)) \/ Lose(s)

-----------------------------------------------------------------------------
(* What the table shows once nothing is under way. *)
ListFresh ==
  smooth /\ Quiet => /\ ui.shown = Asked(ui.filter, ui.number)
                     /\ ui.total = Matching(ui.filter, srv)

(* Alerts and wallets, whose effect cancels, show rows of their filter      *)
(* however calls overlapped.                                                *)
ListIsAsked == page \in {"alerts", "wallets"} /\ Quiet => ui.shown = Asked(ui.filter, ui.number) \/ ui.total = 0

(* Incidents and the audit log, which turn back to the first page, show a   *)
(* row if there is one.                                                     *)
ListNotStranded ==
  page \in {"incidents", "audit"} /\ smooth /\ Quiet => (HasRows(ui) <=> Matching(ui.filter, srv) > 0)
=============================================================================
