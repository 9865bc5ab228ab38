----------------------------- MODULE EditorPages -----------------------------
(***************************************************************************)
(* The pages that list rows and change them in dialogs: plans, coupons and *)
(* subscriptions (the tabs of admin/billing), monitoring rules, a tenant's *)
(* team; and two pages that make API keys: the tenant's own                *)
(* (settings/api-keys) and one tenant as the administrator sees it         *)
(* (admin/tenants/[id]).                                                   *)
(***************************************************************************)
EXTENDS Console

-----------------------------------------------------------------------------
(* What tells the lists apart.  flags: the hook that each operation raises, *)
(* if any; closes: a click on the button that confirms closes the dialog;   *)
(* hides: nothing is shown while rows are loaded; clears: an error empties  *)
(* the rows; accepted: the keys that the endpoint of an edit takes from the *)
(* body, and ignored: those that it is sent and does not take.              *)
Editor(flags, closes, hides, clears, accepted, ignored) ==
  [flags |-> flags, closes |-> closes, hides |-> hides, clears |-> clears,
   accepted |-> accepted, ignored |-> ignored]

PlansTab ==
  Editor([create |-> {"creating"}, edit |-> {"saving"}], TRUE, TRUE, FALSE,
         {"base_price"}, {"pricing_rules"})
CouponsTab ==
  Editor([create |-> {"creating"}, edit |-> {"editSaving"}, delete |-> {"deleting"}],
         TRUE, TRUE, TRUE, {"max_uses"}, {"discount_value"})
SubscriptionsTab == Editor(<<>>, FALSE, TRUE, TRUE, {}, {})
SettingsMonitoringPage ==
  Editor([create |-> {}, edit |-> {}, delete |-> {}], FALSE, FALSE, FALSE, {"conditions"}, {})
SettingsTeamPage == Editor([create |-> {"inviting"}], FALSE, TRUE, TRUE, {"email"}, {})

EditorPage ==
  [plans |-> PlansTab, coupons |-> CouponsTab, subscriptions |-> SubscriptionsTab,
   rules |-> SettingsMonitoringPage, team |-> SettingsTeamPage]

RowId == {"one row", "another row"}
Ed == EditorPage[page]
EditorKeys == Ed.accepted \cup Ed.ignored

-----------------------------------------------------------------------------
(* A row is the set of its keys that differ from what they were first; a    *)
(* dialog that is closed forgets what was typed.                            *)
EditorInit ==
  \E p \in DOMAIN EditorPage :
    /\ page = p
    /\ ui = [rows |-> <<>>, dialog |-> "none", row |-> "none", form |-> {}]
    /\ \E ids \in SUBSET RowId : srv = [r \in ids |-> {}]
    /\ Mounted("list", <<>>, {"loading"})

EditorShown == Ed.hides => "loading" \notin busy

(* Lists come with their rows, and the dialogs act on one of them. *)
OpenEditor ==
  /\ EditorShown /\ "loading" \notin busy /\ ui.dialog = "none"
  /\ \/ /\ "create" \in DOMAIN Ed.flags
        /\ ui' = [ui EXCEPT !.dialog = "create", !.form = {}]
     \/ \E op \in DOMAIN Ed.flags \ {"create"}, r \in DOMAIN ui.rows :
          ui' = [ui EXCEPT !.dialog = op, !.row = r, !.form = ui.rows[r]]
  /\ NoCall /\ UNCHANGED <<page, srv>>

TypeInEditor ==
  /\ EditorShown /\ ui.dialog \in {"create", "edit"}
  /\ ui.form # EditorKeys /\ ui' = [ui EXCEPT !.form = EditorKeys]
  /\ NoCall /\ UNCHANGED <<page, srv>>

EditorClosed(u) == [u EXCEPT !.dialog = "none", !.row = "none", !.form = {}]

CloseEditor ==
  /\ EditorShown /\ ui.dialog # "none"
  /\ ui' = EditorClosed(ui)
  /\ NoCall /\ UNCHANGED <<page, srv>>

(* Something must be typed for a new row; a body carries every key. *)
SubmitEditor ==
  /\ EditorShown /\ ui.dialog # "none"
  /\ Ed.flags[ui.dialog] \cap busy = {}
  /\ ui.dialog = "create" => ui.form # {} /\ RowId \ DOMAIN srv # {}
  /\ Send(ui.dialog, [row |-> ui.row, keys |-> ui.form], Ed.flags[ui.dialog])
  /\ ui' = IF Ed.closes \/ ui.dialog = "delete" THEN EditorClosed(ui) ELSE ui
  /\ UNCHANGED <<page, srv>>

(* A handler closes the dialog that is open for its operation, whatever row *)
(* it is about by then; new rules and edited ones share a dialog.           *)
ClosedBy(op) ==
  IF page = "rules" /\ op # "delete" THEN {"create", "edit"} ELSE {op}

(* The rows are loaded again, but for a deleted rule, which is taken off    *)
(* the list, and the team, whose handler awaits the load.                   *)
EditorAnswered(s) ==
  /\ calls[s].op \in {"create", "edit", "delete"} /\ Awaits(s, calls[s].op)
  /\ IF ~Succeeded(s) THEN End(s) /\ UNCHANGED ui
     ELSE LET op == calls[s].op
              closed == IF ui.dialog \in ClosedBy(op) THEN EditorClosed(ui) ELSE ui
          IN IF page = "rules" /\ op = "delete"
             THEN End(s) /\ ui' = [closed EXCEPT !.rows = Restrict(@, DOMAIN @ \ {calls[s].arg.row})]
             ELSE /\ ui' = closed
                  /\ IF page = "team" THEN Chain(s, "list", <<>>, {})
                     ELSE EndThen(s, "list", <<>>, {"loading"})
  /\ UNCHANGED <<page, srv>>

RowsArrived(s) ==
  /\ Awaits(s, "list")
  /\ ui' = IF Succeeded(s) THEN [ui EXCEPT !.rows = calls[s].ans.data]
           ELSE IF Ed.clears THEN [ui EXCEPT !.rows = <<>>] ELSE ui
  /\ End(s) /\ UNCHANGED <<page, srv>>

(* Refresh, where there is such a button: above a list that is not empty. *)
RefreshRows ==
  /\ page = "subscriptions" /\ EditorShown /\ DOMAIN ui.rows # {}
  /\ Send("list", <<>>, {"loading"})
  /\ UNCHANGED <<page, ui, srv>>

(* A row is created as it is typed; an edit takes the keys it accepts.  The *)
(* deletion of a coupon is answered without a body, which apiRequest cannot *)
(* read: it fails although the row is gone.                                 *)
Edited(row, keys) == (row \ Ed.accepted) \cup (keys \cap Ed.accepted)

EditorReplies(s) ==
  LET arg == calls[s].arg IN
  CASE calls[s].op = "list" -> {Reply(srv, Ok(srv))}
    [] calls[s].op = "create" ->
         IF RowId = DOMAIN srv THEN Refuse
         ELSE {Reply((r :> arg.keys) @@ srv, Ok("row")) : r \in RowId \ DOMAIN srv}
    [] calls[s].op = "edit" ->
         IF arg.row \notin DOMAIN srv THEN Refuse
         ELSE {Reply([srv EXCEPT ![arg.row] = Edited(@, arg.keys)], Ok("row"))}
    [] calls[s].op = "delete" ->
         IF arg.row \notin DOMAIN srv THEN Refuse
         ELSE {Reply(Restrict(srv, DOMAIN srv \ {arg.row}),
                     IF page = "coupons" THEN Failed ELSE Ok("deleted"))}

EditorColleague == \E r \in DOMAIN srv : Others(Restrict(srv, DOMAIN srv \ {r}))

EditorNext ==
  /\ page \in DOMAIN EditorPage
  /\ \/ OpenEditor \/ TypeInEditor \/ CloseEditor \/ SubmitEditor \/ RefreshRows
     \/ EditorColleague
     \/ \E s \in Slot : \/ EditorAnswered(s) \/ RowsArrived(s)
                        \/ Serve(s, EditorReplies(s)) \/ Lose(s)

-----------------------------------------------------------------------------
(* A tenant's own keys.  A tenant has one key, and a new one replaces it.   *)
(* The answers call it api_key, the page reads key; what is listed has no   *)
(* items, so that no key is ever shown that could be revoked.               *)
Key == {"first key", "second key"}

ApiKeysInit ==
  /\ page = "apiKeys"
  /\ ui = [error |-> FALSE, newKey |-> "none"]
  /\ srv = [key |-> "first key"]
  /\ Mounted("listKeys", "none", {"loading"})

handleCreateKey ==
  /\ "creating" \notin busy /\ "loading" \notin busy
  /\ Send("createKey", "none", {"creating"})
  /\ UNCHANGED <<page, ui, srv>>

KeyCreated(s) ==
  /\ Awaits(s, "createKey")
  /\ IF Succeeded(s)
     THEN /\ ui' = [error |-> FALSE, newKey |-> KeyOf(calls[s].ans.data, "key")]
          /\ EndThen(s, "listKeys", "none", {"loading"})
     ELSE End(s) /\ UNCHANGED ui
  /\ UNCHANGED <<page, srv>>

closeNewKeyDialog ==
  /\ ui.newKey # "none"
  /\ ui' = [ui EXCEPT !.newKey = "none"]
  /\ NoCall /\ UNCHANGED <<page, srv>>

fetchKeys(s) ==
  /\ Awaits(s, "listKeys")
  /\ ui' = [ui EXCEPT !.error = ~Succeeded(s)]
  /\ End(s) /\ UNCHANGED <<page, srv>>

RetryKeys ==
  /\ ui.error /\ "loading" \notin busy
  /\ Send("listKeys", "none", {"loading"}) /\ ui' = [ui EXCEPT !.error = FALSE]
  /\ UNCHANGED <<page, srv>>

ApiKeysReplies(s) ==
  CASE calls[s].op = "listKeys"  -> {Reply(srv, Ok([has_key |-> TRUE]))}
    [] calls[s].op = "createKey" ->
         {Reply([key |-> key], Ok([api_key |-> key])) : key \in Key \ {srv.key}}

ApiKeysNext ==
  /\ page = "apiKeys"
  /\ \/ handleCreateKey \/ closeNewKeyDialog \/ RetryKeys
     \/ \E s \in Slot : \/ KeyCreated(s) \/ fetchKeys(s)
                        \/ Serve(s, ApiKeysReplies(s)) \/ Lose(s)

-----------------------------------------------------------------------------
(* One tenant.  The body of a save names its flags feature_flags, which the *)
(* endpoint does not take; a termination is answered without a body.        *)
TenantStatus == {"trial", "active", "suspended", "terminated"}

TenantInit ==
  /\ page = "tenant"
  /\ ui = [found |-> FALSE, status |-> "active", flags |-> "default", dialog |-> "none",
           rotatedKey |-> "none", seen |-> {"first key"}]
  /\ \E status \in TenantStatus : srv = [status |-> status, flags |-> "stored", key |-> "first key"]
  /\ Mounted("getTenant", "none", {"loading"})

TenantShown == "loading" \notin busy /\ ui.found

(* Choosing "suspended" opens the dialog of the danger zone instead. *)
ChooseStatus ==
  /\ TenantShown /\ ui.dialog = "none"
  /\ \E status \in {"trial", "active", "suspended"} \ {ui.status} :
       ui' = IF status = "suspended" THEN [ui EXCEPT !.dialog = "suspend"]
             ELSE [ui EXCEPT !.status = status]
  /\ NoCall /\ UNCHANGED <<page, srv>>

ChooseFlags ==
  /\ TenantShown /\ ui.dialog = "none" /\ ui.flags # "typed"
  /\ ui' = [ui EXCEPT !.flags = "typed"]
  /\ NoCall /\ UNCHANGED <<page, srv>>

handleSave ==
  /\ TenantShown /\ ui.dialog = "none" /\ "saving" \notin busy
  /\ Send("patch", [status |-> ui.status, feature_flags |-> ui.flags], {"saving"})
  /\ UNCHANGED <<page, ui, srv>>

OpenTenantDialog ==
  /\ TenantShown /\ ui.dialog = "none"
  /\ \E d \in {"rotate", "terminate"} \cup (IF ui.status = "suspended" THEN {} ELSE {"suspend"}) :
       ui' = [ui EXCEPT !.dialog = d]
  /\ NoCall /\ UNCHANGED <<page, srv>>

CloseTenantDialog ==
  /\ TenantShown /\ ui.dialog # "none"
  /\ ui' = [ui EXCEPT !.dialog = "none"]
  /\ NoCall /\ UNCHANGED <<page, srv>>

(* Confirming closes the dialog; only the rotation has a flag. *)
ConfirmTenant(d, op, arg, flags) ==
  /\ TenantShown /\ ui.dialog = d
  /\ flags \cap busy = {}
  /\ Send(op, arg, flags)
  /\ ui' = [ui EXCEPT !.dialog = "none"]
  /\ UNCHANGED <<page, srv>>

handleSuspend == ConfirmTenant("suspend", "patch", [status |-> "suspended"], {})
handleTerminate == ConfirmTenant("terminate", "terminate", "none", {})
handleRotateKey == ConfirmTenant("rotate", "rotate", "none", {"rotatingKey"})

(* Suspending shows its status before the load; both handlers close their   *)
(* dialog once more and load the tenant without awaiting it.                *)
TenantPatched(s) ==
  /\ Awaits(s, "patch")
  /\ LET suspends == "feature_flags" \notin DOMAIN calls[s].arg
         closed == IF suspends /\ ui.dialog = "suspend" THEN [ui EXCEPT !.dialog = "none"] ELSE ui
     IN IF Succeeded(s)
        THEN /\ EndThen(s, "getTenant", "none", {"loading"})
             /\ ui' = IF suspends THEN [closed EXCEPT !.status = "suspended"] ELSE ui
        ELSE End(s) /\ ui' = closed
  /\ UNCHANGED <<page, srv>>

TenantTerminated(s) ==
  /\ Awaits(s, "terminate")
  /\ IF Succeeded(s) THEN Leave
     ELSE /\ ui' = [ui EXCEPT !.dialog = IF @ = "terminate" THEN "none" ELSE @]
          /\ End(s) /\ UNCHANGED <<page, srv>>

(* A mutant: the answer is taken to call the key "key". *)
KeyRotatedOther(s) ==
  /\ Awaits(s, "rotate")
  /\ LET closed == [ui EXCEPT !.dialog = IF @ = "rotate" THEN "none" ELSE @] IN
     ui' = IF Succeeded(s)
           THEN LET key == KeyOf(calls[s].ans.data, "key")
                IN [closed EXCEPT !.rotatedKey = key, !.seen = @ \cup {key}]
           ELSE closed
  /\ End(s) /\ UNCHANGED <<page, srv>>

KeyRotated(s) ==
  /\ Awaits(s, "rotate")
  /\ LET closed == [ui EXCEPT !.dialog = IF @ = "rotate" THEN "none" ELSE @] IN
     ui' = IF Succeeded(s)
           THEN LET key == KeyOf(calls[s].ans.data, "apiKey")
                IN [closed EXCEPT !.rotatedKey = key, !.seen = @ \cup {key}]
           ELSE closed
  /\ End(s) /\ UNCHANGED <<page, srv>>

(* A tenant that cannot be loaded again stays as it was. *)
fetchTenant(s) ==
  /\ Awaits(s, "getTenant")
  /\ ui' = IF Succeeded(s)
           THEN [ui EXCEPT !.found = TRUE, !.status = calls[s].ans.data.status,
                           !.flags = OrElse(KeyOf(calls[s].ans.data, "feature_flags"),
                                            KeyOf(calls[s].ans.data, "featureFlags"))]
           ELSE ui
  /\ End(s) /\ UNCHANGED <<page, srv>>

TenantAfter(body) ==
  [srv EXCEPT !.status = KeyOf(body, "status"),
              !.flags = OrElse(KeyOf(body, "featureFlags"), @)]

TenantReplies(s) ==
  CASE calls[s].op = "getTenant" ->
         {Reply(srv, Ok([status |-> srv.status, featureFlags |-> srv.flags]))}
    [] calls[s].op = "patch" -> {Reply(TenantAfter(calls[s].arg), Ok("tenant"))}
    [] calls[s].op = "terminate" -> {Reply([srv EXCEPT !.status = "terminated"], Failed)}
    [] calls[s].op = "rotate" ->
         {Reply([srv EXCEPT !.key = key], Ok([apiKey |-> key])) : key \in Key \ {srv.key}}

TenantNext ==
  /\ page = "tenant"
  /\ \/ ChooseStatus \/ ChooseFlags \/ handleSave \/ OpenTenantDialog \/ CloseTenantDialog
     \/ handleSuspend \/ handleTerminate \/ handleRotateKey
     \/ \E s \in Slot : \/ TenantPatched(s) \/ TenantTerminated(s) \/ KeyRotated(s)
                        \/ fetchTenant(s) \/ Serve(s, TenantReplies(s)) \/ Lose(s)

-----------------------------------------------------------------------------
(* The lists show the rows there are; a deleted coupon stays (see README).  *)
EditorFresh ==
  smooth /\ Quiet /\ page \in DOMAIN EditorPage \ {"coupons"} => ui.rows = srv

(* The key that a tenant has is one that somebody was shown. *)
RotatedKeyIsShown == smooth /\ Quiet /\ page = "tenant" => srv.key \in ui.seen

EditorPageInit == EditorInit \/ ApiKeysInit \/ TenantInit
EditorPageNext == EditorNext \/ ApiKeysNext \/ TenantNext
=============================================================================
