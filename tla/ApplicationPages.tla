--------------------------- MODULE ApplicationPages ---------------------------
(***************************************************************************)
(* How a VASP becomes a tenant: the public form (apply), the               *)
(* administrator's review of what it has sent (admin/applications), and    *)
(* the wizard that registers a tenant by hand (admin/onboarding).          *)
(***************************************************************************)
EXTENDS Console

Application == {"one application", "another application"}

-----------------------------------------------------------------------------
(* The form: the first three steps are left when their fields are valid.    *)
(* Its body has its keys in snake case, the endpoint reads camel case and   *)
(* takes an absent key for empty.                                           *)
ApplyInit ==
  /\ page = "apply"
  /\ ui = [step |-> 1, valid |-> {}, submitted |-> FALSE, error |-> FALSE]
  /\ srv = [applications |-> 0, named |-> FALSE]
  /\ MountedIdle

FillStep ==
  /\ ~ui.submitted /\ ui.step < 4 /\ ui.step \notin ui.valid
  /\ ui' = [ui EXCEPT !.valid = @ \cup {ui.step}]
  /\ NoCall /\ UNCHANGED <<page, srv>>

ApplyNextStep ==
  /\ ~ui.submitted /\ ui.step < 4 /\ ui.step \in ui.valid
  /\ ui' = [ui EXCEPT !.step = @ + 1]
  /\ NoCall /\ UNCHANGED <<page, srv>>

ApplyBack ==
  /\ ~ui.submitted /\ ui.step > 1
  /\ ui' = [ui EXCEPT !.step = @ - 1]
  /\ NoCall /\ UNCHANGED <<page, srv>>

SubmitApplication ==
  /\ ~ui.submitted /\ ui.step = 4 /\ "submitting" \notin busy
  /\ srv.applications < 2
  /\ Send("apply", [company_name |-> "name"], {"submitting"})
  /\ ui' = [ui EXCEPT !.error = FALSE]
  /\ UNCHANGED <<page, srv>>

ApplicationSubmitted(s) ==
  /\ Awaits(s, "apply")
  /\ ui' = IF Succeeded(s) THEN [ui EXCEPT !.submitted = TRUE] ELSE [ui EXCEPT !.error = TRUE]
  /\ End(s) /\ UNCHANGED <<page, srv>>

create_application(s) ==
  {Reply([applications |-> srv.applications + 1,
          named |-> OrElse(KeyOf(calls[s].arg, "companyName"), "") # ""], Ok("application"))}

ApplyNext ==
  /\ page = "apply"
  /\ \/ FillStep \/ ApplyNextStep \/ ApplyBack \/ SubmitApplication
     \/ \E s \in Slot : \/ ApplicationSubmitted(s) \/ Serve(s, create_application(s)) \/ Lose(s)

-----------------------------------------------------------------------------
(* The review.  Approving may ask for a tenant, which the endpoint only     *)
(* makes when it is sent a slug.                                            *)
ApplicationsInit ==
  /\ page = "applications"
  /\ ui = [rows |-> <<>>, error |-> FALSE, review |-> "none", action |-> "none",
           createTenant |-> TRUE]
  /\ \E rest \in {"pending", "approved", "rejected"} :
       srv = [status |-> [a \in Application |-> IF a = "one application" THEN "pending" ELSE rest],
              tenants |-> {}]
  /\ Mounted("list", "none", {"loading"})

ApplicationsShown == "loading" \notin busy /\ ~ui.error

openReviewDialog ==
  /\ ApplicationsShown /\ ui.review = "none"
  /\ \E a \in DOMAIN ui.rows, action \in {"approve", "reject"} :
       /\ ui.rows[a] = "pending"
       /\ ui' = [ui EXCEPT !.review = a, !.action = action, !.createTenant = (action = "approve")]
  /\ NoCall /\ UNCHANGED <<page, srv>>

ToggleCreateTenant ==
  /\ ui.review # "none" /\ ui.action = "approve"
  /\ ui' = [ui EXCEPT !.createTenant = ~@]
  /\ NoCall /\ UNCHANGED <<page, srv>>

Closed(u) == [u EXCEPT !.review = "none", !.action = "none", !.createTenant = TRUE]

(* Cancel is disabled during a submission, Escape is not: the flag is       *)
(* lowered while the call is still under way.                               *)
closeReviewDialog ==
  /\ ui.review # "none"
  /\ ui' = Closed(ui)
  /\ busy' = busy \ {"submitting"}
  /\ UNCHANGED <<page, calls, srv, smooth>>

handleReviewSubmit ==
  /\ ui.review # "none" /\ "submitting" \notin busy
  /\ Send("review", [app |-> ui.review, action |-> ui.action,
                     create_tenant |-> ui.action = "approve" /\ ui.createTenant], {"submitting"})
  /\ UNCHANGED <<page, ui, srv>>

(* The dialog is closed, whichever application it is about by then.  The    *)
(* message that follows tells of a tenant if the box is ticked.             *)
Reviewed(s) ==
  /\ Awaits(s, "review")
  /\ IF Succeeded(s)
     THEN /\ ui' = [Closed(ui) EXCEPT !.error = FALSE]
          /\ EndThen(s, "list", "none", {"loading"})
     ELSE End(s) /\ UNCHANGED ui
  /\ UNCHANGED <<page, srv>>

fetchApplications(s) ==
  /\ Awaits(s, "list")
  /\ ui' = IF Succeeded(s) THEN [ui EXCEPT !.rows = calls[s].ans.data]
           ELSE [ui EXCEPT !.rows = <<>>, !.error = TRUE]
  /\ End(s) /\ UNCHANGED <<page, srv>>

RefreshApplications ==
  /\ "loading" \notin busy /\ ui.review = "none"
  /\ Send("list", "none", {"loading"})
  /\ ui' = [ui EXCEPT !.error = FALSE]
  /\ UNCHANGED <<page, srv>>

update_application(body) ==
  [status  |-> [srv.status EXCEPT ![body.app] = IF body.action = "approve" THEN "approved" ELSE "rejected"],
   tenants |-> IF body.action = "approve" /\ body.create_tenant /\ KeyOf(body, "tenant_slug") # "undefined"
               THEN srv.tenants \cup {body.app} ELSE srv.tenants]

ApplicationsReplies(s) ==
  CASE calls[s].op = "list"   -> {Reply(srv, Ok(srv.status))}
    [] calls[s].op = "review" -> {Reply(update_application(calls[s].arg), Ok("application"))}

ApplicationsColleague ==
  \E a \in Application, action \in {"approve", "reject"} :
    Others(update_application([app |-> a, action |-> action, create_tenant |-> FALSE]))

ApplicationsNext ==
  /\ page = "applications"
  /\ \/ openReviewDialog \/ ToggleCreateTenant \/ closeReviewDialog \/ handleReviewSubmit
     \/ RefreshApplications \/ ApplicationsColleague
     \/ \E s \in Slot : \/ Reviewed(s) \/ fetchApplications(s)
                        \/ Serve(s, ApplicationsReplies(s)) \/ Lose(s)

-----------------------------------------------------------------------------
(* The wizard calls nothing: its last step only shows that it is done. *)
OnboardingInit ==
  /\ page = "onboarding"
  /\ ui = [step |-> 1, created |-> FALSE]
  /\ srv = [tenants |-> {}]
  /\ MountedIdle

OnboardingStep ==
  /\ ~ui.created
  /\ \E step \in {ui.step - 1, ui.step + 1} \cap 1 .. 4 : ui' = [ui EXCEPT !.step = step]
  /\ NoCall /\ UNCHANGED <<page, srv>>

OnboardingCreate ==
  /\ ~ui.created /\ ui.step = 4
  /\ ui' = [ui EXCEPT !.created = TRUE]
  /\ NoCall /\ UNCHANGED <<page, srv>>

OnboardingNext == page = "onboarding" /\ (OnboardingStep \/ OnboardingCreate)

-----------------------------------------------------------------------------
ApplicationsFresh ==
  smooth /\ Quiet /\ page = "applications" /\ ApplicationsShown => ui.rows = srv.status

(* What the console does not undo: as long as no call was lost or           *)
(* overlapped another and nobody else wrote, an application is decided once.*)
ApplicationDecidedOnce ==
  page = "applications" /\ smooth' =>
    \A a \in Application : srv.status[a] # "pending" => srv'.status[a] = srv.status[a]

ApplicationPageInit == ApplyInit \/ ApplicationsInit \/ OnboardingInit
ApplicationPageNext == ApplyNext \/ ApplicationsNext \/ OnboardingNext
=============================================================================
