----------------------------- MODULE SessionPages -----------------------------
(***************************************************************************)
(* What surrounds every page: the session that lib/auth and lib/api keep   *)
(* in the browser's storage, the login page, the guards of the layouts;    *)
(* and the header, with its notifications and its search.                  *)
(***************************************************************************)
EXTENDS Console

Person == {"officer", "administrator"}

-----------------------------------------------------------------------------
(* The session.  A token is known by the person it was made for; tokens     *)
(* expire, so that a request that carries one may be refused at any time.   *)
(* The storage is shared with the other tabs of the browser.                *)
SessionInit ==
  /\ page = "session"
  /\ \E p \in Person \cup {"none"} :
       ui = [user |-> p, access |-> p, refresh |-> p, place |-> "login"]
  /\ srv = [active |-> Person]
  /\ MountedIdle

storeAuth(u, p) == [u EXCEPT !.user = p, !.access = p, !.refresh = p]
clearAuth(u) == storeAuth(u, "none")

(* Where a layout takes whoever is stored: its guard reads the user alone,  *)
(* and only when the layout is mounted.                                     *)
Guarded(layout, user) ==
  CASE user = "none"                              -> "login"
    [] layout = "admin" /\ user # "administrator" -> "dashboard"
    [] OTHER                                      -> layout

OpenLayout ==
  /\ \E layout \in {"dashboard", "admin"} :
       ui' = [ui EXCEPT !.place = Guarded(layout, ui.user)]
  /\ NoCall /\ UNCHANGED <<page, srv>>

Login ==
  /\ ui.place = "login" /\ "isSubmitting" \notin busy
  /\ \E p \in Person : Send("login", p, {"isSubmitting"})
  /\ UNCHANGED <<page, ui, srv>>

LoggedIn(s) ==
  /\ Awaits(s, "login")
  /\ LET p == calls[s].arg
         layout == IF p = "administrator" THEN "admin" ELSE "dashboard"
     IN ui' = IF Succeeded(s) THEN [storeAuth(ui, p) EXCEPT !.place = Guarded(layout, p)] ELSE ui
  /\ End(s) /\ UNCHANGED <<page, srv>>

handleLogout ==
  /\ ui.place # "login"
  /\ ui' = [clearAuth(ui) EXCEPT !.place = "login"]
  /\ NoCall /\ UNCHANGED <<page, srv>>

apiRequest ==
  /\ ui.place # "login"
  /\ Send("request", ui.access, {})
  /\ UNCHANGED <<page, ui, srv>>

(* A refused request reads the refresh token that is stored by then, and is *)
(* made again after a refresh, as often as it takes.  When that fails the   *)
(* event "cip:auth-expired" is sent, to which nobody listens.               *)
RequestAnswered(s) ==
  /\ Awaits(s, "request")
  /\ IF Succeeded(s) /\ calls[s].ans.data = "unauthorized" /\ ui.refresh # "none"
     THEN Chain(s, "refresh", ui.refresh, {}) ELSE End(s)
  /\ UNCHANGED <<page, ui, srv>>

(* A mutant: the tokens are stored without their user. *)
refreshAuthTokens(u, p) == [u EXCEPT !.access = p, !.refresh = p]

(* The answer of a refresh has both tokens and the user. *)
refreshAuth(u, p) == storeAuth(u, p)

Refreshed(s) ==
  /\ Awaits(s, "refresh")
  /\ IF Succeeded(s)
     THEN /\ ui' = refreshAuth(ui, calls[s].arg)
          /\ Chain(s, "request", calls[s].arg, {})
     ELSE End(s) /\ UNCHANGED ui
  /\ UNCHANGED <<page, srv>>

SessionReplies(s) ==
  LET p == calls[s].arg IN
  CASE calls[s].op = "request" ->
         {Reply(srv, Ok("unauthorized"))}
           \cup (IF p \in srv.active THEN {Reply(srv, Ok("data"))} ELSE {})
    [] OTHER -> IF p \in srv.active THEN {Reply(srv, Ok("tokens"))} ELSE Refuse

(* Another tab signs in, signs out or refreshes; an account is deactivated. *)
OtherTab ==
  /\ smooth \/ Again
  /\ \E p \in Person \cup {"none"} : ui' = storeAuth(ui, p)
  /\ smooth' = FALSE
  /\ UNCHANGED <<page, busy, calls, srv>>

Deactivate == \E p \in srv.active : Others([srv EXCEPT !.active = @ \ {p}])

SessionNext ==
  /\ page = "session"
  /\ \/ OpenLayout \/ Login \/ handleLogout \/ apiRequest \/ OtherTab \/ Deactivate
     \/ \E s \in Slot : \/ LoggedIn(s) \/ RequestAnswered(s) \/ Refreshed(s)
                        \/ Serve(s, SessionReplies(s)) \/ Lose(s)

-----------------------------------------------------------------------------
(* The header.  Notifications are polled; marking them as read changes what *)
(* is shown after the answer, and marking all of them after an error too.   *)
Notification == {"one", "another"}

HeaderInit ==
  /\ page = "header"
  /\ ui = [unread |-> {}, count |-> 0, query |-> "", timer |-> FALSE, searching |-> FALSE,
           results |-> {}, open |-> FALSE]
  /\ srv \in SUBSET Notification
  /\ Mounted("poll", {}, {})

PollNotifications ==
  /\ Send("poll", {}, {})
  /\ UNCHANGED <<page, ui, srv>>

fetchNotifications(s) ==
  /\ Awaits(s, "poll")
  /\ ui' = IF Succeeded(s)
           THEN [ui EXCEPT !.unread = calls[s].ans.data, !.count = Cardinality(calls[s].ans.data)]
           ELSE ui
  /\ End(s) /\ UNCHANGED <<page, srv>>

(* Every notification shown can be clicked, whether or not it is read. *)
handleMarkRead ==
  /\ \E n \in Notification : Send("markRead", {n}, {})
  /\ UNCHANGED <<page, ui, srv>>

handleMarkAllRead ==
  /\ ui.count > 0
  /\ Send("markRead", Notification, {})
  /\ UNCHANGED <<page, ui, srv>>

MarkedRead(s) ==
  /\ Awaits(s, "markRead")
  /\ LET all == calls[s].arg = Notification IN
     ui' = IF Succeeded(s) \/ all
           THEN [ui EXCEPT !.unread = @ \ calls[s].arg,
                           !.count = IF all THEN 0 ELSE LargerOf(0, @ - 1)]
           ELSE ui
  /\ End(s) /\ UNCHANGED <<page, srv>>

(* The search: a change starts a timer over, an empty text only stops it.   *)
handleSearchChange ==
  /\ \E text \in {"", "some text", "another text"} \ {ui.query} :
       ui' = IF text = ""
             THEN [ui EXCEPT !.query = "", !.timer = FALSE, !.results = {}, !.open = FALSE]
             ELSE [ui EXCEPT !.query = text, !.timer = TRUE, !.searching = TRUE, !.open = TRUE]
  /\ NoCall /\ UNCHANGED <<page, srv>>

SearchTimer ==
  /\ ui.timer
  /\ ui' = [ui EXCEPT !.timer = FALSE]
  /\ Send("search", {ui.query}, {})
  /\ UNCHANGED <<page, srv>>

(* Of the three searches, those that fail are left out. *)
SearchArrived(s) ==
  /\ Awaits(s, "search")
  /\ ui' = [ui EXCEPT !.results = IF Succeeded(s) THEN calls[s].arg ELSE {}, !.searching = FALSE]
  /\ End(s) /\ UNCHANGED <<page, srv>>

(* A result that is chosen leaves the list of results as it is. *)
handleSearchSelect ==
  /\ ui.open /\ ~ui.searching /\ ui.results # {}
  /\ ui' = [ui EXCEPT !.open = FALSE, !.query = ""]
  /\ NoCall /\ UNCHANGED <<page, srv>>

(* The shortcut and the focus open the list, Escape and a blur close it. *)
OpenSearch ==
  /\ ui' = [ui EXCEPT !.open = ~@]
  /\ NoCall /\ UNCHANGED <<page, srv>>

HeaderReplies(s) ==
  CASE calls[s].op = "poll"     -> {Reply(srv, Ok(srv))}
    [] calls[s].op = "markRead" -> {Reply(srv \ calls[s].arg, Ok({}))}
    [] calls[s].op = "search"   -> {Reply(srv, Ok({}))}

HeaderColleague == \E n \in Notification : Others(srv \cup {n})

HeaderNext ==
  /\ page = "header"
  /\ \/ PollNotifications \/ handleMarkRead \/ handleMarkAllRead
     \/ handleSearchChange \/ SearchTimer \/ handleSearchSelect \/ OpenSearch
     \/ HeaderColleague
     \/ \E s \in Slot : \/ fetchNotifications(s) \/ MarkedRead(s) \/ SearchArrived(s)
                        \/ Serve(s, HeaderReplies(s)) \/ Lose(s)

-----------------------------------------------------------------------------
(* The user stored and both tokens are always of one person. *)
SessionIsOnePersons ==
  page = "session" => ui.user = ui.access /\ ui.access = ui.refresh

(* The dot of the bell is not shown without an unread notification, and     *)
(* what is shown and searched is up to date after smooth work.              *)
HeaderFresh ==
  page = "header" =>
    /\ ui.count <= Cardinality(ui.unread)
    /\ smooth /\ Quiet => ui.unread = srv
    /\ smooth /\ Quiet /\ ~ui.timer /\ ui.query # "" =>
         ui.results = {ui.query} /\ ~ui.searching

SessionPageInit == SessionInit \/ HeaderInit
SessionPageNext == SessionNext \/ HeaderNext
=============================================================================
