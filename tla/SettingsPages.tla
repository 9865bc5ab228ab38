---------------------------- MODULE SettingsPages ----------------------------
(***************************************************************************)
(* The pages that load a form, let it be edited and save it: the tabs of   *)
(* the platform settings (admin/settings) and a tenant's settings for      *)
(* screening, retention, analytics and webhooks.  A record says what tells *)
(* the forms apart; the list of raw settings (the tab Advanced) and the    *)
(* switches for notifications have their own actions.                      *)
(***************************************************************************)
EXTENDS Console, FiniteSetsExt

(* buttons: what each button saves, by the flag it raises; needs: without   *)
(* an answer there is no form, otherwise it shows defaults; platform: the   *)
(* settings are rows that always exist, otherwise entries of one column of  *)
(* the tenant.                                                              *)
Form(buttons, needs, platform) == [buttons |-> buttons, needs |-> needs, platform |-> platform]

IdentityTab ==
  Form([saving |-> {"identity_primary_provider", "identity_fallback_provider",
                    "identity_fallback_trigger", "identity_fallback_timeout_ms",
                    "identity_fallback_confidence_threshold"}], TRUE, TRUE)
ChatTab == Form([saving |-> {"enabled", "welcome_message"}], TRUE, TRUE)
VaspTab ==
  Form([saving |-> {"vasp_settings_team_enabled", "vasp_settings_api_keys_enabled",
                    "vasp_settings_webhooks_enabled", "vasp_settings_screening_enabled",
                    "vasp_settings_monitoring_enabled", "vasp_settings_retention_enabled",
                    "vasp_settings_analytics_enabled", "vasp_settings_billing_enabled",
                    "vasp_settings_api_explorer_enabled"}], TRUE, TRUE)
ServiceSettings ==
  {"platform_name", "default_currency", "ctr_threshold_amount",
   "sanctions_screening_enabled", "pep_screening_enabled", "analytics_l1_enabled",
   "analytics_l2_enabled", "analytics_l3_enabled", "analytics_l3_provider", "subsquid_mode"}
ServiceConfigTab == Form([saving |-> ServiceSettings], FALSE, TRUE)
SettingsScreeningPage ==
  Form([threshold  |-> {"fuzzy_threshold"},
        sources    |-> {"sources_enabled"},
        monitoring |-> {"ongoing_monitoring_enabled"}], FALSE, FALSE)
SettingsRetentionPage ==
  Form([retention |-> {"retention_years"}, expiry |-> {"auto_delete_expired"}], FALSE, FALSE)
SettingsAnalyticsPage ==
  Form([saving |-> {"analytics_layer1_enabled", "analytics_layer2_enabled",
                    "analytics_layer3_enabled", "analytics_default_depth"}], FALSE, FALSE)
SettingsWebhooksPage == Form([saving |-> {"webhook_url"}], FALSE, FALSE)

FormPage ==
  [identity |-> IdentityTab, chat |-> ChatTab, vasp |-> VaspTab,
   service |-> ServiceConfigTab, screening |-> SettingsScreeningPage,
   retention |-> SettingsRetentionPage, analytics |-> SettingsAnalyticsPage,
   webhooks |-> SettingsWebhooksPage]

(* Two settings of a button are enough: one that is edited and one not. *)
Shown(keys) == IF Cardinality(keys) < 3 THEN keys ELSE CHOOSE k \in kSubset(2, keys) : TRUE

Saves(p, button) == Shown(FormPage[p].buttons[button])
Settings(p) == UNION {Saves(p, b) : b \in DOMAIN FormPage[p].buttons}

(* What an input may hold; the years of retention must be from 7 to 15. *)
Typed(key) == IF key = "retention_years" THEN {"typed", "out of range"} ELSE {"typed"}

-----------------------------------------------------------------------------
FormInit ==
  \E p \in DOMAIN FormPage :
    /\ page = p
    /\ ui = [form |-> [k \in Settings(p) |-> "default"], loaded |-> FALSE]
    /\ srv \in [Settings(p) -> IF FormPage[p].platform THEN {"stored"} ELSE {"stored", "unset"}]
    /\ Mounted("load", <<>>, {"loading"})

(* Each setting of the answer replaces the default, if it is set. *)
FormLoaded(s) ==
  /\ Awaits(s, "load")
  /\ ui' = IF Succeeded(s)
           THEN [form |-> [k \in DOMAIN ui.form |->
                             IF calls[s].ans.data[k] = "unset" THEN ui.form[k]
                             ELSE calls[s].ans.data[k]],
                 loaded |-> TRUE]
           ELSE ui
  /\ End(s) /\ UNCHANGED <<page, srv>>

(* A mutant: the form is shown without an answer. *)
FormShownAlways == "loading" \notin busy

FormShown == "loading" \notin busy /\ (FormPage[page].needs => ui.loaded)

EditSetting ==
  /\ FormShown
  /\ \E k \in DOMAIN ui.form, v \in {"typed", "out of range"} :
       /\ v \in Typed(k) /\ v # ui.form[k]
       /\ ui' = [ui EXCEPT !.form[k] = v]
  /\ NoCall /\ UNCHANGED <<page, srv>>

isValid(button) == \A k \in Saves(page, button) : ui.form[k] # "out of range"

(* A button is only disabled while its own save is under way; the buttons   *)
(* of a page share the hook that says which one is.                         *)
SaveForm ==
  /\ FormShown
  /\ \E b \in DOMAIN FormPage[page].buttons :
       /\ b \notin busy /\ isValid(b)
       /\ SendShared("save", [k \in Saves(page, b) |-> ui.form[k]], b,
                     DOMAIN FormPage[page].buttons)
  /\ UNCHANGED <<page, ui, srv>>

FormSaved(s) == Awaits(s, "save") /\ End(s) /\ UNCHANGED <<page, ui, srv>>

(* The platform's settings are rows of their own.  Those of a tenant are    *)
(* read with its user, changed, and written back together at the commit.    *)
Overwritten(rows, by) == [k \in DOMAIN rows |-> IF k \in DOMAIN by THEN by[k] ELSE rows[k]]

FormReplies(s) ==
  CASE calls[s].op = "load" -> {Reply(srv, Ok(srv))}
    [] calls[s].op = "save" ->
         IF FormPage[page].platform THEN {Reply(Overwritten(srv, calls[s].arg), Ok("saved"))} ELSE {}

ReadTenant(s) ==
  /\ InFlight(s) /\ calls[s].op = "save" /\ calls[s].ans = Pending
  /\ ~FormPage[page].platform
  /\ calls' = [calls EXCEPT ![s].ans = [state |-> "pending", flags |-> srv]]
  /\ UNCHANGED <<page, ui, busy, srv, smooth>>

CommitTenant(s) ==
  /\ InFlight(s) /\ "flags" \in DOMAIN calls[s].ans
  /\ srv' = Overwritten(calls[s].ans.flags, calls[s].arg)
  /\ calls' = [calls EXCEPT ![s].ans = Ok("saved")]
  /\ UNCHANGED <<page, ui, busy, smooth>>

FormColleague == \E k \in DOMAIN srv : Others([srv EXCEPT ![k] = "other"])

FormNext ==
  /\ page \in DOMAIN FormPage
  /\ \/ EditSetting \/ SaveForm \/ FormColleague
     \/ \E s \in Slot : \/ FormLoaded(s) \/ FormSaved(s) \/ ReadTenant(s) \/ CommitTenant(s)
                        \/ Serve(s, FormReplies(s)) \/ Lose(s)

-----------------------------------------------------------------------------
(* Notifications.  The answer has the settings as texts; a text counts as   *)
(* true whatever it says, and a toggle turns it into its negation.  What is *)
(* saved is made a text again.                                              *)
SwitchText == {"'true'", "'false'", "'True'", "'False'"}

Truthy(value) == value # "false"
Toggled(value) == IF Truthy(value) THEN "false" ELSE "true"
AsText(value) ==
  CASE value = "true" -> "'True'" [] value = "false" -> "'False'" [] OTHER -> value

NotificationsInit ==
  /\ page = "notifications"
  /\ ui = [switch |-> "none"]
  /\ \E text \in {"'true'", "'false'"} : srv = [switch |-> text]
  /\ Mounted("load", "none", {"loading"})

NotificationsLoaded(s) ==
  /\ Awaits(s, "load")
  /\ ui' = IF Succeeded(s) THEN calls[s].ans.data ELSE ui
  /\ End(s) /\ UNCHANGED <<page, srv>>

NotificationsShown == "loading" \notin busy /\ ui.switch # "none"

toggle ==
  /\ NotificationsShown
  /\ ui' = [ui EXCEPT !.switch = Toggled(@)]
  /\ NoCall /\ UNCHANGED <<page, srv>>

SaveNotifications ==
  /\ NotificationsShown /\ "saving" \notin busy
  /\ Send("save", ui.switch, {"saving"})
  /\ UNCHANGED <<page, ui, srv>>

NotificationsReplies(s) ==
  CASE calls[s].op = "load" -> {Reply(srv, Ok(srv))}
    [] calls[s].op = "save" -> {Reply([switch |-> AsText(calls[s].arg)], Ok("saved"))}

NotificationsColleague == \E text \in SwitchText : Others([switch |-> text])

NotificationsNext ==
  /\ page = "notifications"
  /\ \/ toggle \/ SaveNotifications \/ NotificationsColleague
     \/ \E s \in Slot : \/ NotificationsLoaded(s) \/ FormSaved(s)
                        \/ Serve(s, NotificationsReplies(s)) \/ Lose(s)

-----------------------------------------------------------------------------
(* Advanced: the changes are kept apart from the settings until they are    *)
(* saved; then all are forgotten, also what was typed during the save, and  *)
(* the settings are loaded again.  The inputs keep what was typed, until    *)
(* their category is collapsed.                                             *)
RawSetting == {"smtp_host", "smtp_password"}

AdvancedInit ==
  /\ page = "advanced"
  /\ ui = [groups |-> [k \in RawSetting |-> "none"], editing |-> {}, typed |-> {}, expanded |-> FALSE]
  /\ srv = [k \in RawSetting |-> "stored"]
  /\ Mounted("load", "none", {"loading"})

(* A category that cannot be loaded is empty, and the first that is not     *)
(* empty is expanded.                                                       *)
AdvancedLoaded(s) ==
  /\ Awaits(s, "load")
  /\ ui' = IF Succeeded(s)
           THEN [ui EXCEPT !.groups = calls[s].ans.data, !.expanded = TRUE]
           ELSE [ui EXCEPT !.groups = [k \in RawSetting |-> "none"], !.typed = {}]
  /\ End(s) /\ UNCHANGED <<page, srv>>

HasGroups == "loading" \notin busy /\ \A k \in RawSetting : ui.groups[k] # "none"

toggleExpand ==
  /\ HasGroups
  /\ ui' = [ui EXCEPT !.expanded = ~@, !.typed = {}]
  /\ NoCall /\ UNCHANGED <<page, srv>>

TypeRaw ==
  /\ HasGroups /\ ui.expanded
  /\ \E k \in RawSetting :
       ui' = [ui EXCEPT !.editing = @ \cup {k}, !.typed = @ \cup {k}]
  /\ NoCall /\ UNCHANGED <<page, srv>>

Discard ==
  /\ "loading" \notin busy /\ ui.editing # {} /\ "saving" \notin busy
  /\ ui' = [ui EXCEPT !.editing = {}]
  /\ NoCall /\ UNCHANGED <<page, srv>>

SaveRaw ==
  /\ "loading" \notin busy /\ ui.editing # {} /\ "saving" \notin busy
  /\ Send("save", ui.editing, {"saving"})
  /\ UNCHANGED <<page, ui, srv>>

RawSaved(s) ==
  /\ Awaits(s, "save")
  /\ IF Succeeded(s) THEN EndThen(s, "load", "none", {}) /\ ui' = [ui EXCEPT !.editing = {}]
     ELSE End(s) /\ UNCHANGED ui
  /\ UNCHANGED <<page, srv>>

AdvancedReplies(s) ==
  CASE calls[s].op = "load" -> {Reply(srv, Ok(srv))}
    [] calls[s].op = "save" ->
         {Reply([k \in RawSetting |-> IF k \in calls[s].arg THEN "typed" ELSE srv[k]], Ok("saved"))}

AdvancedColleague == \E k \in RawSetting : Others([srv EXCEPT ![k] = "other"])

AdvancedNext ==
  /\ page = "advanced"
  /\ \/ toggleExpand \/ TypeRaw \/ Discard \/ SaveRaw \/ AdvancedColleague
     \/ \E s \in Slot : \/ AdvancedLoaded(s) \/ RawSaved(s)
                        \/ Serve(s, AdvancedReplies(s)) \/ Lose(s)

-----------------------------------------------------------------------------
(* A setting that was never shown to the user is not overwritten by a       *)
(* default, and no retention period out of range is stored.                 *)
SettingsKept ==
  page \in DOMAIN FormPage =>
    \A k \in DOMAIN srv :
      srv[k] # "out of range" /\ (FormPage[page].needs => srv[k] # "default")

SettingsFresh ==
  smooth /\ Quiet =>
    /\ page \in DOMAIN FormPage /\ ui.loaded =>
         \A k \in DOMAIN srv : ui.form[k] \in {"typed", "out of range",
                                      IF srv[k] = "unset" THEN "default" ELSE srv[k]}
    /\ page = "advanced" => ui.groups = srv

SettingsPageInit == FormInit \/ NotificationsInit \/ AdvancedInit
SettingsPageNext == FormNext \/ NotificationsNext \/ AdvancedNext
=============================================================================
