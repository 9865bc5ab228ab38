---------------------------- MODULE ConsoleProofs ----------------------------
(***************************************************************************)
(* Theorems about the console, for any number of calls under way together  *)
(* and any size of the pages' data: the hooks of all pages, and what the   *)
(* session, the settings, the key of a tenant, applications and incidents  *)
(* promise however calls overlap.                                          *)
(***************************************************************************)
EXTENDS ConsolePages, TLAPS

CallFields == {"op", "arg", "flags", "ans"}

(* calls is a function on the slots, of calls and free slots. *)
CallsOK ==
  /\ calls = [s \in Slot |-> calls[s]]
  /\ \A s \in Slot : calls[s] = Free \/ DOMAIN calls[s] = CallFields

(* Hooks that are not shared are up for as long as their call is under way. *)
FlagIsUp == \A s \in Slot : \A f \in calls[s].flags : f \in busy \/ f \in Overlapping

(* As long as all goes smoothly there is one call at a time. *)
Alone ==
  /\ smooth \in BOOLEAN
  /\ smooth => \A s, t \in Slot : InFlight(s) /\ InFlight(t) => s = t

CallsInv == CallsOK /\ BusyHasCall /\ FlagIsUp /\ OneInFlight /\ Alone

(* A call that is awaited is under way. *)
LEMMA AwaitsIsInFlight ==
  ASSUME NEW s \in Slot, NEW op, op # "free", Awaits(s, op)
  PROVE  InFlight(s)
BY DEF Awaits, InFlight, Free

(* A call is no free slot, and has the fields it is made of. *)
LEMMA CallIsCall ==
  ASSUME NEW op, NEW arg, NEW flags
  PROVE  /\ Call(op, arg, flags) # Free
         /\ DOMAIN Call(op, arg, flags) = CallFields
         /\ Call(op, arg, flags).flags = flags
         /\ Free.flags = {}
<1>1. Call(op, arg, flags).flags = flags /\ Free.flags = {}
  BY DEF Call, Free
<1>2. DOMAIN Call(op, arg, flags) = CallFields /\ DOMAIN Free = {"op", "flags"}
  BY DEF Call, Free, CallFields
<1>3. "arg" \in CallFields /\ "arg" \notin {"op", "flags"}
  BY DEF CallFields
<1> QED BY <1>1, <1>2, <1>3

(* A slot gets a call that is new. *)
LEMMA SetSlot ==
  ASSUME CallsOK, NEW s \in Slot, NEW op, NEW arg, NEW flags,
         calls' = [calls EXCEPT ![s] = Call(op, arg, flags)]
  PROVE  /\ CallsOK'
         /\ InFlight(s)' /\ calls'[s].flags = flags
         /\ \A t \in Slot \ {s} : calls'[t] = calls[t]
<1>1. calls' = [t \in Slot |-> IF t = s THEN Call(op, arg, flags) ELSE calls[t]]
  BY DEF CallsOK
<1>2. calls'[s] = Call(op, arg, flags) /\ \A t \in Slot \ {s} : calls'[t] = calls[t]
  BY <1>1
<1> QED BY <1>1, <1>2, CallIsCall DEF CallsOK, InFlight

(* A slot becomes free. *)
LEMMA FreeSlot ==
  ASSUME CallsOK, NEW s \in Slot, calls' = [calls EXCEPT ![s] = Free]
  PROVE  /\ CallsOK'
         /\ calls'[s].flags = {}
         /\ \A t \in Slot \ {s} : calls'[t] = calls[t]
<1>1. calls' = [t \in Slot |-> IF t = s THEN Free ELSE calls[t]]
  BY DEF CallsOK
<1>2. calls'[s] = Free /\ \A t \in Slot \ {s} : calls'[t] = calls[t]
  BY <1>1
<1> QED BY <1>1, <1>2, CallIsCall DEF CallsOK

(* One lemma for each way in which a handler calls and ends. *)
LEMMA SendKeeps ==
  ASSUME CallsInv, NEW op, NEW arg, NEW flags, flags \cap busy \subseteq Overlapping,
         Send(op, arg, flags)
  PROVE  CallsInv'
<1>1. PICK s \in Slot : ~InFlight(s) /\ calls' = [calls EXCEPT ![s] = Call(op, arg, flags)]
  BY DEF Send
<1>2. busy' = busy \cup flags
  BY DEF Send
<1>3. /\ CallsOK'
      /\ InFlight(s)' /\ calls'[s].flags = flags
      /\ \A t \in Slot \ {s} : calls'[t] = calls[t]
  BY <1>1, SetSlot DEF CallsInv
<1>4. BusyHasCall'
  BY <1>1, <1>2, <1>3 DEF CallsInv, BusyHasCall, InFlight
<1>5. FlagIsUp'
  BY <1>2, <1>3 DEF CallsInv, FlagIsUp, Overlapping
<1>6. OneInFlight'
  BY <1>3 DEF CallsInv, FlagIsUp, OneInFlight, Overlapping
<1>7. Alone'
  <2>1. smooth' \in BOOLEAN /\ (smooth' => Quiet)
    BY DEF Send
  <2> QED BY <1>3, <2>1 DEF Alone, Quiet, InFlight, Free
<1> QED BY <1>3, <1>4, <1>5, <1>6, <1>7 DEF CallsInv

LEMMA SendSharedKeeps ==
  ASSUME CallsInv, NEW op, NEW arg, NEW flag, NEW shared,
         flag \in shared, shared \subseteq {flag} \cup Overlapping, flag \notin busy,
         SendShared(op, arg, flag, shared)
  PROVE  CallsInv'
<1>1. PICK s \in Slot : ~InFlight(s) /\ calls' = [calls EXCEPT ![s] = Call(op, arg, shared)]
  BY DEF SendShared
<1>2. busy' = (busy \ shared) \cup {flag}
  BY DEF SendShared
<1>3. /\ CallsOK'
      /\ InFlight(s)' /\ calls'[s].flags = shared
      /\ \A t \in Slot \ {s} : calls'[t] = calls[t]
  BY <1>1, SetSlot DEF CallsInv
<1>4. BusyHasCall'
  BY <1>1, <1>2, <1>3 DEF CallsInv, BusyHasCall, InFlight
<1>5. FlagIsUp'
  BY <1>2, <1>3 DEF CallsInv, FlagIsUp, Overlapping
<1>6. OneInFlight'
  BY <1>3 DEF CallsInv, FlagIsUp, OneInFlight, Overlapping
<1>7. Alone'
  <2>1. smooth' \in BOOLEAN /\ (smooth' => Quiet)
    BY DEF SendShared
  <2> QED BY <1>3, <2>1 DEF Alone, Quiet, InFlight, Free
<1> QED BY <1>3, <1>4, <1>5, <1>6, <1>7 DEF CallsInv

LEMMA SendAlsoKeeps ==
  ASSUME CallsInv, NEW op, NEW arg, NEW flags, flags \subseteq Overlapping,
         SendAlso(op, arg, flags)
  PROVE  CallsInv'
<1>1. PICK s \in Slot : ~InFlight(s) /\ calls' = [calls EXCEPT ![s] = Call(op, arg, flags)]
  BY DEF SendAlso
<1>2. busy' = busy
  BY DEF SendAlso
<1>3. /\ CallsOK'
      /\ InFlight(s)' /\ calls'[s].flags = flags
      /\ \A t \in Slot \ {s} : calls'[t] = calls[t]
  BY <1>1, SetSlot DEF CallsInv
<1>4. BusyHasCall'
  BY <1>1, <1>2, <1>3 DEF CallsInv, BusyHasCall, InFlight
<1>5. FlagIsUp'
  BY <1>2, <1>3 DEF CallsInv, FlagIsUp, Overlapping
<1>6. OneInFlight'
  BY <1>3 DEF CallsInv, FlagIsUp, OneInFlight, Overlapping
<1>7. Alone'
  <2>1. smooth' \in BOOLEAN /\ (smooth' => Quiet)
    BY DEF SendAlso
  <2> QED BY <1>3, <2>1 DEF Alone, Quiet, InFlight, Free
<1> QED BY <1>3, <1>4, <1>5, <1>6, <1>7 DEF CallsInv

LEMMA ChainKeeps ==
  ASSUME CallsInv, NEW s \in Slot, InFlight(s), NEW op, NEW arg, NEW flags,
         flags \subseteq Overlapping, Chain(s, op, arg, flags)
  PROVE  CallsInv'
<1>1. calls' = [calls EXCEPT ![s] = Call(op, arg, calls[s].flags \cup flags)]
  BY DEF Chain
<1>2. busy' = busy \cup flags
  BY DEF Chain
<1>3. /\ CallsOK'
      /\ InFlight(s)' /\ calls'[s].flags = calls[s].flags \cup flags
      /\ \A t \in Slot \ {s} : calls'[t] = calls[t]
  BY <1>1, SetSlot DEF CallsInv
<1>4. BusyHasCall'
  BY <1>2, <1>3 DEF CallsInv, BusyHasCall, InFlight
<1>5. FlagIsUp'
  BY <1>2, <1>3 DEF CallsInv, FlagIsUp, Overlapping
<1>6. OneInFlight'
  BY <1>3 DEF CallsInv, FlagIsUp, OneInFlight, Overlapping
<1>7. Alone'
  BY <1>3 DEF Chain, CallsInv, Alone, InFlight, Free
<1> QED BY <1>3, <1>4, <1>5, <1>6, <1>7 DEF CallsInv

LEMMA ChainAlsoKeeps ==
  ASSUME CallsInv, NEW s \in Slot, InFlight(s), NEW op, NEW arg, NEW flags,
         flags \subseteq Overlapping, ChainAlso(s, op, arg, flags)
  PROVE  CallsInv'
<1>1. calls' = [calls EXCEPT ![s] = Call(op, arg, calls[s].flags \cup flags)]
  BY DEF ChainAlso
<1>2. busy' = busy
  BY DEF ChainAlso
<1>3. /\ CallsOK'
      /\ InFlight(s)' /\ calls'[s].flags = calls[s].flags \cup flags
      /\ \A t \in Slot \ {s} : calls'[t] = calls[t]
  BY <1>1, SetSlot DEF CallsInv
<1>4. BusyHasCall'
  BY <1>2, <1>3 DEF CallsInv, BusyHasCall, InFlight
<1>5. FlagIsUp'
  BY <1>2, <1>3 DEF CallsInv, FlagIsUp, Overlapping
<1>6. OneInFlight'
  BY <1>3 DEF CallsInv, FlagIsUp, OneInFlight, Overlapping
<1>7. Alone'
  BY <1>3 DEF ChainAlso, CallsInv, Alone, InFlight, Free
<1> QED BY <1>3, <1>4, <1>5, <1>6, <1>7 DEF CallsInv

LEMMA EndKeeps ==
  ASSUME CallsInv, NEW s \in Slot, End(s)
  PROVE  CallsInv'
<1>1. calls' = [calls EXCEPT ![s] = Free] /\ busy' = busy \ calls[s].flags
  BY DEF End
<1>2. /\ CallsOK'
      /\ calls'[s].flags = {}
      /\ \A t \in Slot \ {s} : calls'[t] = calls[t]
  BY <1>1, FreeSlot DEF CallsInv
<1>3. BusyHasCall'
  BY <1>1, <1>2 DEF CallsInv, BusyHasCall, InFlight
<1>4. FlagIsUp'
  BY <1>1, <1>2 DEF CallsInv, FlagIsUp, OneInFlight, Overlapping
<1>5. OneInFlight'
  BY <1>2 DEF CallsInv, OneInFlight, Overlapping
<1>6. Alone'
  BY <1>1, <1>2, CallIsCall DEF End, CallsInv, CallsOK, Alone, InFlight, Free
<1> QED BY <1>2, <1>3, <1>4, <1>5, <1>6 DEF CallsInv

LEMMA EndThenKeeps ==
  ASSUME CallsInv, NEW s \in Slot, InFlight(s), NEW op, NEW arg, NEW flags,
         flags \subseteq Overlapping, EndThen(s, op, arg, flags)
  PROVE  CallsInv'
<1>1. calls' = [calls EXCEPT ![s] = Call(op, arg, flags)]
  BY DEF EndThen
<1>2. busy' = (busy \ calls[s].flags) \cup flags
  BY DEF EndThen
<1>3. /\ CallsOK'
      /\ InFlight(s)' /\ calls'[s].flags = flags
      /\ \A t \in Slot \ {s} : calls'[t] = calls[t]
  BY <1>1, SetSlot DEF CallsInv
<1>4. BusyHasCall'
  BY <1>2, <1>3 DEF CallsInv, BusyHasCall, InFlight
<1>5. FlagIsUp'
  BY <1>2, <1>3 DEF CallsInv, FlagIsUp, OneInFlight, Overlapping
<1>6. OneInFlight'
  BY <1>3 DEF CallsInv, OneInFlight, Overlapping
<1>7. Alone'
  BY <1>3 DEF EndThen, CallsInv, Alone, InFlight, Free
<1> QED BY <1>3, <1>4, <1>5, <1>6, <1>7 DEF CallsInv

LEMMA ReplaceKeeps ==
  ASSUME CallsInv, NEW s \in Slot, InFlight(s), NEW op, NEW arg, Replace(s, op, arg)
  PROVE  CallsInv'
<1>1. calls' = [calls EXCEPT ![s] = Call(op, arg, calls[s].flags)] /\ busy' = busy
  BY DEF Replace
<1>2. /\ CallsOK'
      /\ InFlight(s)' /\ calls'[s].flags = calls[s].flags
      /\ \A t \in Slot \ {s} : calls'[t] = calls[t]
  BY <1>1, SetSlot DEF CallsInv
<1>3. BusyHasCall'
  BY <1>1, <1>2 DEF CallsInv, BusyHasCall, InFlight
<1>4. FlagIsUp'
  BY <1>1, <1>2 DEF CallsInv, FlagIsUp, Overlapping
<1>5. OneInFlight'
  BY <1>2 DEF CallsInv, OneInFlight, Overlapping
<1>6. Alone'
  BY <1>2 DEF Replace, CallsInv, Alone, InFlight, Free
<1> QED BY <1>2, <1>3, <1>4, <1>5, <1>6 DEF CallsInv

(* What an answer, or the backend's own progress, does to the calls. *)
LEMMA AnswerKeeps ==
  ASSUME CallsInv, NEW s \in Slot, InFlight(s), NEW ans,
         calls' = [calls EXCEPT ![s].ans = ans], busy' = busy, (smooth' = smooth \/ smooth' = FALSE)
  PROVE  CallsInv'
<1>1. /\ calls[s] # Free
      /\ DOMAIN calls[s] = CallFields
  BY DEF CallsInv, CallsOK, InFlight
<1>2. calls' = [t \in Slot |-> IF t = s THEN [calls[s] EXCEPT !.ans = ans] ELSE calls[t]]
  BY DEF CallsInv, CallsOK
<1>3. DOMAIN Free # CallFields
  <2>1. DOMAIN Free = {"op", "flags"}
    BY DEF Free
  <2> QED BY <2>1 DEF CallFields
<1>4. /\ calls'[s] = [calls[s] EXCEPT !.ans = ans]
      /\ \A t \in Slot \ {s} : calls'[t] = calls[t]
  BY <1>2
<1>5. /\ DOMAIN calls'[s] = CallFields
      /\ calls'[s].flags = calls[s].flags
      /\ calls'[s] # Free
  <2>1. DOMAIN calls'[s] = CallFields
    BY <1>1, <1>4
  <2>2. calls'[s].flags = calls[s].flags
    BY <1>1, <1>4 DEF CallFields
  <2> QED BY <1>3, <2>1, <2>2
<1>6. CallsOK'
  <2>1. calls' = [t \in Slot |-> calls'[t]]
    BY <1>2
  <2> QED BY <1>4, <1>5, <2>1 DEF CallsInv, CallsOK, CallFields, Free
<1>7. BusyHasCall'
  BY <1>4, <1>5 DEF CallsInv, BusyHasCall, InFlight, Free
<1>8. FlagIsUp'
  BY <1>4, <1>5 DEF CallsInv, FlagIsUp, Overlapping
<1>9. OneInFlight'
  BY <1>4, <1>5 DEF CallsInv, OneInFlight, Overlapping
<1>10. Alone'
  <2>1. smooth \in BOOLEAN
    BY DEF CallsInv, Alone
  <2>2. smooth' \in BOOLEAN
    BY <2>1, Zenon
  <2>3. smooth' => smooth
    OBVIOUS
  <2> QED BY <1>4, <1>5, <2>2, <2>3 DEF CallsInv, Alone, InFlight, Free
<1> QED BY <1>6, <1>7, <1>8, <1>9, <1>10 DEF CallsInv

(* The backend, and what is lost on the way, only change answers. *)
LEMMA ServeKeeps ==
  ASSUME CallsInv, NEW s \in Slot, NEW replies, Serve(s, replies)
  PROVE  CallsInv' /\ page' = page
<1>1. InFlight(s) /\ busy' = busy /\ page' = page /\ smooth' = smooth
  BY DEF Serve
<1>2. PICK r \in replies : calls' = [calls EXCEPT ![s].ans = r.ans]
  BY DEF Serve
<1> QED BY <1>1, <1>2, AnswerKeeps

LEMMA LoseKeeps ==
  ASSUME CallsInv, NEW s \in Slot, Lose(s)
  PROVE  CallsInv' /\ page' = page
<1>1. /\ InFlight(s) /\ busy' = busy /\ page' = page /\ smooth' = FALSE
      /\ calls' = [calls EXCEPT ![s].ans = Failed]
  BY DEF Lose
<1> QED BY <1>1, AnswerKeeps

(* Nothing but hooks that are not up, or hooks that are shared, change. *)
LEMMA SameCallsKeep ==
  ASSUME CallsInv, calls' = calls, (smooth' = smooth \/ smooth' = FALSE),
         busy' \subseteq busy, busy \ busy' \subseteq Overlapping
  PROVE  CallsInv'
<1>1. CallsOK' /\ OneInFlight'
  BY DEF CallsInv, CallsOK, OneInFlight, Overlapping, Free, CallFields
<1>2. BusyHasCall'
  BY DEF CallsInv, BusyHasCall, InFlight, Free
<1>3. FlagIsUp'
  BY DEF CallsInv, FlagIsUp, Overlapping
<1>4. Alone'
  <2>1. smooth \in BOOLEAN
    BY DEF CallsInv, Alone
  <2>2. smooth' \in BOOLEAN
    BY <2>1, Zenon
  <2>3. smooth' => smooth
    OBVIOUS
  <2> QED BY <2>2, <2>3 DEF CallsInv, Alone, InFlight, Free
<1> QED BY <1>1, <1>2, <1>3, <1>4 DEF CallsInv

(* Leaving drops the calls and the hooks together. *)
LEMMA LeaveKeeps ==
  ASSUME CallsInv, Leave
  PROVE  CallsInv' /\ page' = "elsewhere"
<1>1. calls' = [s \in Slot |-> Free] /\ busy' = {} /\ page' = "elsewhere"
  BY DEF Leave
<1>2. \A s \in Slot : calls'[s] = Free /\ calls'[s].flags = {}
  BY <1>1, CallIsCall
<1>3. CallsOK'
  BY <1>1, <1>2 DEF CallsOK, Free
<1>4. BusyHasCall' /\ FlagIsUp' /\ OneInFlight' /\ Alone'
  BY <1>1, <1>2 DEF Leave, CallsInv, BusyHasCall, FlagIsUp, OneInFlight, Alone, InFlight, Free
<1> QED BY <1>1, <1>3, <1>4 DEF CallsInv

-----------------------------------------------------------------------------
(* A settings page with more than one button has shared hooks. *)
LEMMA SharedButtons ==
  ASSUME NEW p \in DOMAIN FormPage, NEW b \in DOMAIN FormPage[p].buttons
  PROVE  DOMAIN FormPage[p].buttons \subseteq {b} \cup Overlapping
<1>1. CASE p = "identity"
  BY <1>1 DEF FormPage, IdentityTab, Form
<1>2. CASE p = "chat"
  BY <1>2 DEF FormPage, ChatTab, Form
<1>3. CASE p = "vasp"
  BY <1>3 DEF FormPage, VaspTab, Form
<1>4. CASE p = "service"
  BY <1>4 DEF FormPage, ServiceConfigTab, Form
<1>5. CASE p = "screening"
  BY <1>5 DEF FormPage, SettingsScreeningPage, Form, Overlapping
<1>6. CASE p = "retention"
  BY <1>6 DEF FormPage, SettingsRetentionPage, Form, Overlapping
<1>7. CASE p = "analytics"
  BY <1>7 DEF FormPage, SettingsAnalyticsPage, Form
<1>8. CASE p = "webhooks"
  BY <1>8 DEF FormPage, SettingsWebhooksPage, Form
<1> QED BY <1>1, <1>2, <1>3, <1>4, <1>5, <1>6, <1>7, <1>8 DEF FormPage

(* The dialog that confirms a new status of a case is only open while no    *)
(* other is being saved: handleStatusConfirm relies on it, unguarded.       *)
CaseDialog ==
  page = "case" =>
    /\ "confirmOpen" \in DOMAIN ui
    /\ ui.confirmOpen => "updatingStatus" \notin busy

-----------------------------------------------------------------------------
(* What every step of a page does. *)
StepKeeps == CallsInv' /\ page' \in {page, "elsewhere"}

(* One lemma for each page. *)
LEMMA CaseKeeps ==
  ASSUME CallsInv, CaseDialog, CaseNext
  PROVE  StepKeeps
<1>1. CASE handleStatusSelect
  BY <1>1, SameCallsKeep DEF handleStatusSelect, NoCall, StepKeeps
<1>2. CASE CancelStatus
  BY <1>2, SameCallsKeep DEF CancelStatus, NoCall, StepKeeps
<1>3. CASE handleStatusConfirm
  <2>1. "updatingStatus" \notin busy
    BY <1>3 DEF handleStatusConfirm, CaseDialog, CaseNext
  <2> QED BY <1>3, <2>1, SendKeeps DEF handleStatusConfirm, StepKeeps
<1>4. CASE TypeNote
  BY <1>4, SameCallsKeep DEF TypeNote, NoCall, StepKeeps
<1>5. CASE handleAddNote
  BY <1>5, SendKeeps DEF handleAddNote, Overlapping, StepKeeps
<1>6. CASE CaseColleague
  BY <1>6, SameCallsKeep DEF CaseColleague, Others, StepKeeps
<1>7. ASSUME NEW s \in Slot, StatusConfirmed(s) PROVE StepKeeps
  BY <1>7, EndKeeps DEF StatusConfirmed, StepKeeps
<1>8. ASSUME NEW s \in Slot, NoteAdded(s) PROVE StepKeeps
  BY <1>8, AwaitsIsInFlight, ChainKeeps, EndKeeps DEF NoteAdded, Overlapping,
     StepKeeps
<1>9. ASSUME NEW s \in Slot, fetchCase(s) PROVE StepKeeps
  BY <1>9, EndKeeps DEF fetchCase, StepKeeps
<1>10. ASSUME NEW s \in Slot, Serve(s, CaseReplies(s)) PROVE StepKeeps
  BY <1>10, ServeKeeps DEF StepKeeps
<1>11. ASSUME NEW s \in Slot, Lose(s) PROVE StepKeeps
  BY <1>11, LoseKeeps DEF StepKeeps
<1> QED BY <1>1, <1>2, <1>3, <1>4, <1>5, <1>6, <1>7, <1>8, <1>9, <1>10, <1>11
   DEF CaseNext

LEMMA CustomerKeeps ==
  ASSUME CallsInv, CustomerNext
  PROVE  StepKeeps
<1>1. CASE handleUpload
  BY <1>1, SendKeeps DEF handleUpload, Click, Overlapping, StepKeeps
<1>2. CASE handleVerifyNadra
  BY <1>2, SendKeeps DEF handleVerifyNadra, Click, Overlapping, StepKeeps
<1>3. CASE handleScoreRisk
  BY <1>3, SendKeeps DEF handleScoreRisk, Click, Overlapping, StepKeeps
<1>4. CASE handleRunKycPipeline
  BY <1>4, SendKeeps DEF handleRunKycPipeline, Click, Overlapping, StepKeeps
<1>5. CASE handleStartEdd
  BY <1>5, SendKeeps DEF handleStartEdd, Click, Overlapping, StepKeeps
<1>6. CASE handleSubmitSof
  BY <1>6, SendKeeps DEF handleSubmitSof, Click, Overlapping, StepKeeps
<1>7. CASE handleApproveEdd
  BY <1>7, SendKeeps DEF handleApproveEdd, Click, Overlapping, StepKeeps
<1>8. CASE OpenReject
  BY <1>8, SameCallsKeep DEF OpenReject, NoCall, StepKeeps
<1>9. CASE handleRejectEdd
  BY <1>9, SendKeeps DEF handleRejectEdd, Click, Overlapping, StepKeeps
<1>10. CASE SecondEddCard
  BY <1>10, SendKeeps DEF SecondEddCard, Click, Overlapping, StepKeeps
<1>11. CASE CustomerColleague
  BY <1>11, SameCallsKeep DEF CustomerColleague, Others, StepKeeps
<1>12. ASSUME NEW s \in Slot, Uploaded(s) PROVE StepKeeps
  BY <1>12, AwaitsIsInFlight, EndKeeps, ChainKeeps DEF Uploaded, After,
     Overlapping, StepKeeps
<1>13. ASSUME NEW s \in Slot, NadraVerified(s) PROVE StepKeeps
  BY <1>13, AwaitsIsInFlight, EndKeeps, ChainKeeps DEF NadraVerified, After,
     Overlapping, StepKeeps
<1>14. ASSUME NEW s \in Slot, Reloaded(s) PROVE StepKeeps
  BY <1>14, AwaitsIsInFlight, EndKeeps, EndThenKeeps DEF Reloaded, After,
     Overlapping, StepKeeps
<1>15. ASSUME NEW s \in Slot, RiskScored(s) PROVE StepKeeps
  BY <1>15, AwaitsIsInFlight, EndKeeps, EndThenKeeps DEF RiskScored, After,
     setCustomer, Overlapping, StepKeeps
<1>16. ASSUME NEW s \in Slot, KycRun(s) PROVE StepKeeps
  BY <1>16, AwaitsIsInFlight, EndKeeps, ChainKeeps DEF KycRun, After,
     Overlapping, StepKeeps
<1>17. ASSUME NEW s \in Slot, ResultsRead(s) PROVE StepKeeps
  BY <1>17, EndKeeps DEF ResultsRead, After, StepKeeps
<1>18. ASSUME NEW s \in Slot, EddStarted(s) PROVE StepKeeps
  BY <1>18, AwaitsIsInFlight, EndKeeps, ChainKeeps DEF EddStarted, After,
     Overlapping, StepKeeps
<1>19. ASSUME NEW s \in Slot, SofSubmitted(s) PROVE StepKeeps
  BY <1>19, AwaitsIsInFlight, EndKeeps, ChainKeeps DEF SofSubmitted, After,
     Overlapping, StepKeeps
<1>20. ASSUME NEW s \in Slot, EddRead(s) PROVE StepKeeps
  BY <1>20, EndKeeps DEF EddRead, StepKeeps
<1>21. ASSUME NEW s \in Slot, EddDecided(s) PROVE StepKeeps
  BY <1>21, AwaitsIsInFlight, EndKeeps, EndThenKeeps DEF EddDecided, After,
     setCustomer, Overlapping, StepKeeps
<1>22. ASSUME NEW s \in Slot, CustomerLoaded(s) PROVE StepKeeps
  BY <1>22, AwaitsIsInFlight, EndThenKeeps, EndKeeps DEF CustomerLoaded,
     setCustomer, Overlapping, StepKeeps
<1>23. ASSUME NEW s \in Slot, Serve(s, CustomerReplies(s)) PROVE StepKeeps
  BY <1>23, ServeKeeps DEF StepKeeps
<1>24. ASSUME NEW s \in Slot, Lose(s) PROVE StepKeeps
  BY <1>24, LoseKeeps DEF StepKeeps
<1> QED BY <1>1, <1>2, <1>3, <1>4, <1>5, <1>6, <1>7, <1>8, <1>9, <1>10, <1>11,
   <1>12, <1>13, <1>14, <1>15, <1>16, <1>17, <1>18, <1>19, <1>20, <1>21,
   <1>22, <1>23, <1>24 DEF CustomerNext

LEMMA ListKeeps ==
  ASSUME CallsInv, ListNext
  PROVE  StepKeeps
<1>1. CASE ChooseFilter
  BY <1>1, ReplaceKeeps, SendKeeps DEF ChooseFilter, Load, Overlapping,
     StepKeeps
<1>2. CASE AddressChanged
  BY <1>2, ReplaceKeeps, SendKeeps DEF AddressChanged, Load, Overlapping,
     StepKeeps
<1>3. CASE TurnPage
  BY <1>3, ReplaceKeeps, SendKeeps, SameCallsKeep DEF TurnPage, Load,
     Overlapping, NoCall, StepKeeps
<1>4. CASE Search
  BY <1>4, SameCallsKeep DEF Search, NoCall, StepKeeps
<1>5. CASE ListColleague
  BY <1>5, SameCallsKeep DEF ListColleague, Others, StepKeeps
<1>6. ASSUME NEW s \in Slot, ListArrived(s) PROVE StepKeeps
  BY <1>6, EndKeeps DEF ListArrived, StepKeeps
<1>7. ASSUME NEW s \in Slot, Serve(s, ListReplies(s)) PROVE StepKeeps
  BY <1>7, ServeKeeps DEF StepKeeps
<1>8. ASSUME NEW s \in Slot, Lose(s) PROVE StepKeeps
  BY <1>8, LoseKeeps DEF StepKeeps
<1>9. CASE SetCreateOpen
  BY <1>9, SameCallsKeep DEF SetCreateOpen, NoCall, StepKeeps
<1>10. CASE handleCreate
  BY <1>10, SendKeeps DEF handleCreate, Overlapping, StepKeeps
<1>11. ASSUME NEW s \in Slot, RowCreated(s) PROVE StepKeeps
  BY <1>11, AwaitsIsInFlight, LeaveKeeps, EndThenKeeps, EndKeeps DEF RowCreated,
     Overlapping, StepKeeps
<1> QED BY <1>1, <1>2, <1>3, <1>4, <1>5, <1>6, <1>7, <1>8, <1>9, <1>10, <1>11
   DEF ListNext

LEMMA IncidentKeeps ==
  ASSUME CallsInv, IncidentNext
  PROVE  StepKeeps
<1>1. CASE OpenDialog
  BY <1>1, SameCallsKeep DEF OpenDialog, NoCall, StepKeeps
<1>2. CASE CloseDialog
  BY <1>2, SameCallsKeep DEF CloseDialog, NoCall, StepKeeps
<1>3. CASE TypeContainment
  BY <1>3, SameCallsKeep DEF TypeContainment, NoCall, StepKeeps
<1>4. CASE handleNotifyAuthority
  BY <1>4, SendKeeps DEF handleNotifyAuthority, Press, Overlapping, StepKeeps
<1>5. CASE handleSubmitReport
  BY <1>5, SendKeeps DEF handleSubmitReport, Press, Overlapping, StepKeeps
<1>6. CASE handleResolve
  BY <1>6, SendKeeps DEF handleResolve, Press, Overlapping, StepKeeps
<1>7. CASE handleEdit
  BY <1>7, SendKeeps DEF handleEdit, Press, Overlapping, StepKeeps
<1>8. CASE IncidentColleague
  BY <1>8, SameCallsKeep DEF IncidentColleague, Others, StepKeeps
<1>9. ASSUME NEW s \in Slot, IncidentChanged(s) PROVE StepKeeps
  BY <1>9, AwaitsIsInFlight, ChainKeeps, EndKeeps DEF IncidentChanged,
     Overlapping, StepKeeps
<1>10. ASSUME NEW s \in Slot, fetchIncident(s) PROVE StepKeeps
  BY <1>10, EndKeeps DEF fetchIncident, StepKeeps
<1>11. ASSUME NEW s \in Slot, Serve(s, IncidentReplies(s)) PROVE StepKeeps
  BY <1>11, ServeKeeps DEF StepKeeps
<1>12. ASSUME NEW s \in Slot, Lose(s) PROVE StepKeeps
  BY <1>12, LoseKeeps DEF StepKeeps
<1> QED BY <1>1, <1>2, <1>3, <1>4, <1>5, <1>6, <1>7, <1>8, <1>9, <1>10, <1>11,
   <1>12 DEF IncidentNext

LEMMA IsarKeeps ==
  ASSUME CallsInv, IsarNext
  PROVE  StepKeeps
<1>1. CASE OpenIsarDialog
  BY <1>1, SameCallsKeep DEF OpenIsarDialog, NoCall, StepKeeps
<1>2. CASE CloseIsarDialog
  BY <1>2, SameCallsKeep DEF CloseIsarDialog, NoCall, StepKeeps
<1>3. CASE TypeRationale
  BY <1>3, SameCallsKeep DEF TypeRationale, NoCall, StepKeeps
<1>4. CASE handleSubmitForReview
  BY <1>4, SendKeeps DEF handleSubmitForReview, ConfirmIsar, Overlapping,
     StepKeeps
<1>5. CASE handleApprove
  BY <1>5, SendKeeps DEF handleApprove, ConfirmIsar, Overlapping, StepKeeps
<1>6. CASE handleReject
  BY <1>6, SendKeeps DEF handleReject, ConfirmIsar, Overlapping, StepKeeps
<1>7. CASE handleFileAsStr
  BY <1>7, SendKeeps DEF handleFileAsStr, ConfirmIsar, Overlapping, StepKeeps
<1>8. CASE handleDownload
  BY <1>8, SendKeeps DEF handleDownload, Overlapping, StepKeeps
<1>9. CASE IsarColleague
  BY <1>9, SameCallsKeep DEF IsarColleague, Others, StepKeeps
<1>10. ASSUME NEW s \in Slot, IsarActed(s) PROVE StepKeeps
  BY <1>10, AwaitsIsInFlight, ChainKeeps, EndKeeps DEF IsarActed, Overlapping,
     StepKeeps
<1>11. ASSUME NEW s \in Slot, fetchIsar(s) PROVE StepKeeps
  BY <1>11, EndKeeps DEF fetchIsar, StepKeeps
<1>12. ASSUME NEW s \in Slot, Downloaded(s) PROVE StepKeeps
  BY <1>12, EndKeeps DEF Downloaded, StepKeeps
<1>13. ASSUME NEW s \in Slot, Serve(s, IsarReplies(s)) PROVE StepKeeps
  BY <1>13, ServeKeeps DEF StepKeeps
<1>14. ASSUME NEW s \in Slot, Lose(s) PROVE StepKeeps
  BY <1>14, LoseKeeps DEF StepKeeps
<1> QED BY <1>1, <1>2, <1>3, <1>4, <1>5, <1>6, <1>7, <1>8, <1>9, <1>10, <1>11,
   <1>12, <1>13, <1>14 DEF IsarNext

LEMMA NewIsarKeeps ==
  ASSUME CallsInv, NewIsarNext
  PROVE  StepKeeps
<1>1. CASE ChooseCustomer
  BY <1>1, SameCallsKeep DEF ChooseCustomer, NoCall, StepKeeps
<1>2. CASE handleNext
  BY <1>2, SameCallsKeep, SendKeeps DEF handleNext, NoCall, Overlapping,
     StepKeeps
<1>3. CASE handleBack
  BY <1>3, SameCallsKeep DEF handleBack, NoCall, StepKeeps
<1>4. ASSUME NEW s \in Slot, loadCustomers(s) PROVE StepKeeps
  BY <1>4, EndKeeps DEF loadCustomers, StepKeeps
<1>5. ASSUME NEW s \in Slot, IsarCreated(s) PROVE StepKeeps
  BY <1>5, LeaveKeeps, EndKeeps DEF IsarCreated, StepKeeps
<1>6. ASSUME NEW s \in Slot, Serve(s, NewIsarReplies(s)) PROVE StepKeeps
  BY <1>6, ServeKeeps DEF StepKeeps
<1>7. ASSUME NEW s \in Slot, Lose(s) PROVE StepKeeps
  BY <1>7, LoseKeeps DEF StepKeeps
<1> QED BY <1>1, <1>2, <1>3, <1>4, <1>5, <1>6, <1>7 DEF NewIsarNext

LEMMA StrsKeeps ==
  ASSUME CallsInv, StrsNext
  PROVE  StepKeeps
<1>1. CASE handleDownloadXml
  <2>1. PICK i \in DOMAIN DownloadingXml :
          /\ DownloadingXml[i] \notin busy
          /\ SendShared("download", "xml", DownloadingXml[i], Range(DownloadingXml))
    BY <1>1 DEF handleDownloadXml
  <2>2. DownloadingXml[i] \in Range(DownloadingXml) /\ Range(DownloadingXml) \subseteq Overlapping
    BY DEF Range, Overlapping
  <2>3. CallsInv'
    BY <2>1, <2>2, SendSharedKeeps
  <2> QED BY <1>1, <2>3 DEF handleDownloadXml, StepKeeps
<1>2. CASE SetGenerateOpen
  BY <1>2, SameCallsKeep DEF SetGenerateOpen, NoCall, StepKeeps
<1>3. CASE handleGenerateStr
  BY <1>3, SendKeeps DEF handleGenerateStr, Overlapping, StepKeeps
<1>4. CASE StrsColleague
  BY <1>4, SameCallsKeep DEF StrsColleague, Others, StepKeeps
<1>5. ASSUME NEW s \in Slot, StrGenerated(s) PROVE StepKeeps
  BY <1>5, AwaitsIsInFlight, ChainKeeps, EndKeeps DEF StrGenerated,
     Overlapping, StepKeeps
<1>6. ASSUME NEW s \in Slot, fetchReports(s) PROVE StepKeeps
  BY <1>6, EndKeeps DEF fetchReports, StepKeeps
<1>7. ASSUME NEW s \in Slot, Downloaded(s) PROVE StepKeeps
  BY <1>7, EndKeeps DEF Downloaded, StepKeeps
<1>8. ASSUME NEW s \in Slot, Serve(s, StrsReplies(s)) PROVE StepKeeps
  BY <1>8, ServeKeeps DEF StepKeeps
<1>9. ASSUME NEW s \in Slot, Lose(s) PROVE StepKeeps
  BY <1>9, LoseKeeps DEF StepKeeps
<1> QED BY <1>1, <1>2, <1>3, <1>4, <1>5, <1>6, <1>7, <1>8, <1>9 DEF StrsNext

LEMMA FormA5Keeps ==
  ASSUME CallsInv, FormA5Next
  PROVE  StepKeeps
<1>1. CASE handleDownload
  BY <1>1, SendKeeps DEF handleDownload, Overlapping, StepKeeps
<1>2. ASSUME NEW s \in Slot, FormA5Loaded(s) PROVE StepKeeps
  BY <1>2, EndKeeps DEF FormA5Loaded, StepKeeps
<1>3. ASSUME NEW s \in Slot, Downloaded(s) PROVE StepKeeps
  BY <1>3, EndKeeps DEF Downloaded, StepKeeps
<1>4. ASSUME NEW s \in Slot, Serve(s, FormA5Replies(s)) PROVE StepKeeps
  BY <1>4, ServeKeeps DEF StepKeeps
<1>5. ASSUME NEW s \in Slot, Lose(s) PROVE StepKeeps
  BY <1>5, LoseKeeps DEF StepKeeps
<1> QED BY <1>1, <1>2, <1>3, <1>4, <1>5 DEF FormA5Next

LEMMA FormA6Keeps ==
  ASSUME CallsInv, FormA6Next
  PROVE  StepKeeps
<1>1. CASE ChooseYear
  BY <1>1, SendKeeps DEF ChooseYear, Overlapping, StepKeeps
<1>2. CASE handleDownload
  BY <1>2, SendKeeps DEF handleDownload, Overlapping, StepKeeps
<1>3. ASSUME NEW s \in Slot, fetchStats(s) PROVE StepKeeps
  BY <1>3, EndKeeps DEF fetchStats, StepKeeps
<1>4. ASSUME NEW s \in Slot, Downloaded(s) PROVE StepKeeps
  BY <1>4, EndKeeps DEF Downloaded, StepKeeps
<1>5. ASSUME NEW s \in Slot, Serve(s, FormA6Replies(s)) PROVE StepKeeps
  BY <1>5, ServeKeeps DEF StepKeeps
<1>6. ASSUME NEW s \in Slot, Lose(s) PROVE StepKeeps
  BY <1>6, LoseKeeps DEF StepKeeps
<1> QED BY <1>1, <1>2, <1>3, <1>4, <1>5, <1>6 DEF FormA6Next

LEMMA FormKeeps ==
  ASSUME CallsInv, FormNext
  PROVE  StepKeeps
<1>1. CASE EditSetting
  BY <1>1, SameCallsKeep DEF EditSetting, NoCall, StepKeeps
<1>2. CASE SaveForm
  <2> DEFINE shared == DOMAIN FormPage[page].buttons
  <2>1. PICK b \in shared :
          /\ b \notin busy
          /\ SendShared("save", [key \in Saves(page, b) |-> ui.form[key]], b, shared)
    BY <1>2 DEF SaveForm
  <2>2. page \in DOMAIN FormPage
    BY DEF FormNext
  <2>3. shared \subseteq {b} \cup Overlapping
    BY <2>2, SharedButtons
  <2>4. CallsInv'
    BY <2>1, <2>3, SendSharedKeeps
  <2> QED BY <1>2, <2>4 DEF SaveForm, StepKeeps
<1>3. CASE FormColleague
  BY <1>3, SameCallsKeep DEF FormColleague, Others, StepKeeps
<1>4. ASSUME NEW s \in Slot, FormLoaded(s) PROVE StepKeeps
  BY <1>4, EndKeeps DEF FormLoaded, StepKeeps
<1>5. ASSUME NEW s \in Slot, FormSaved(s) PROVE StepKeeps
  BY <1>5, EndKeeps DEF FormSaved, StepKeeps
<1>6. ASSUME NEW s \in Slot, ReadTenant(s) PROVE StepKeeps
  BY <1>6, AnswerKeeps DEF ReadTenant, StepKeeps
<1>7. ASSUME NEW s \in Slot, CommitTenant(s) PROVE StepKeeps
  BY <1>7, AnswerKeeps DEF CommitTenant, StepKeeps
<1>8. ASSUME NEW s \in Slot, Serve(s, FormReplies(s)) PROVE StepKeeps
  BY <1>8, ServeKeeps DEF StepKeeps
<1>9. ASSUME NEW s \in Slot, Lose(s) PROVE StepKeeps
  BY <1>9, LoseKeeps DEF StepKeeps
<1> QED BY <1>1, <1>2, <1>3, <1>4, <1>5, <1>6, <1>7, <1>8, <1>9 DEF FormNext

LEMMA NotificationsKeeps ==
  ASSUME CallsInv, NotificationsNext
  PROVE  StepKeeps
<1>1. CASE toggle
  BY <1>1, SameCallsKeep DEF toggle, NoCall, StepKeeps
<1>2. CASE SaveNotifications
  BY <1>2, SendKeeps DEF SaveNotifications, Overlapping, StepKeeps
<1>3. CASE NotificationsColleague
  BY <1>3, SameCallsKeep DEF NotificationsColleague, Others, StepKeeps
<1>4. ASSUME NEW s \in Slot, NotificationsLoaded(s) PROVE StepKeeps
  BY <1>4, EndKeeps DEF NotificationsLoaded, StepKeeps
<1>5. ASSUME NEW s \in Slot, FormSaved(s) PROVE StepKeeps
  BY <1>5, EndKeeps DEF FormSaved, StepKeeps
<1>6. ASSUME NEW s \in Slot, Serve(s, NotificationsReplies(s)) PROVE StepKeeps
  BY <1>6, ServeKeeps DEF StepKeeps
<1>7. ASSUME NEW s \in Slot, Lose(s) PROVE StepKeeps
  BY <1>7, LoseKeeps DEF StepKeeps
<1> QED BY <1>1, <1>2, <1>3, <1>4, <1>5, <1>6, <1>7 DEF NotificationsNext

LEMMA AdvancedKeeps ==
  ASSUME CallsInv, AdvancedNext
  PROVE  StepKeeps
<1>1. CASE toggleExpand
  BY <1>1, SameCallsKeep DEF toggleExpand, NoCall, StepKeeps
<1>2. CASE TypeRaw
  BY <1>2, SameCallsKeep DEF TypeRaw, NoCall, StepKeeps
<1>3. CASE Discard
  BY <1>3, SameCallsKeep DEF Discard, NoCall, StepKeeps
<1>4. CASE SaveRaw
  BY <1>4, SendKeeps DEF SaveRaw, Overlapping, StepKeeps
<1>5. CASE AdvancedColleague
  BY <1>5, SameCallsKeep DEF AdvancedColleague, Others, StepKeeps
<1>6. ASSUME NEW s \in Slot, AdvancedLoaded(s) PROVE StepKeeps
  BY <1>6, EndKeeps DEF AdvancedLoaded, StepKeeps
<1>7. ASSUME NEW s \in Slot, RawSaved(s) PROVE StepKeeps
  BY <1>7, AwaitsIsInFlight, EndThenKeeps, EndKeeps DEF RawSaved, Overlapping,
     StepKeeps
<1>8. ASSUME NEW s \in Slot, Serve(s, AdvancedReplies(s)) PROVE StepKeeps
  BY <1>8, ServeKeeps DEF StepKeeps
<1>9. ASSUME NEW s \in Slot, Lose(s) PROVE StepKeeps
  BY <1>9, LoseKeeps DEF StepKeeps
<1> QED BY <1>1, <1>2, <1>3, <1>4, <1>5, <1>6, <1>7, <1>8, <1>9 DEF
   AdvancedNext

LEMMA EditorKeeps ==
  ASSUME CallsInv, EditorNext
  PROVE  StepKeeps
<1>1. CASE OpenEditor
  BY <1>1, SameCallsKeep DEF OpenEditor, NoCall, StepKeeps
<1>2. CASE TypeInEditor
  BY <1>2, SameCallsKeep DEF TypeInEditor, NoCall, StepKeeps
<1>3. CASE CloseEditor
  BY <1>3, SameCallsKeep DEF CloseEditor, NoCall, StepKeeps
<1>4. CASE SubmitEditor
  BY <1>4, SendKeeps DEF SubmitEditor, Overlapping, StepKeeps
<1>5. CASE RefreshRows
  BY <1>5, SendKeeps DEF RefreshRows, Overlapping, StepKeeps
<1>6. CASE EditorColleague
  BY <1>6, SameCallsKeep DEF EditorColleague, Others, StepKeeps
<1>7. ASSUME NEW s \in Slot, EditorAnswered(s) PROVE StepKeeps
  BY <1>7, AwaitsIsInFlight, EndKeeps, ChainKeeps, EndThenKeeps DEF
     EditorAnswered, Overlapping, StepKeeps
<1>8. ASSUME NEW s \in Slot, RowsArrived(s) PROVE StepKeeps
  BY <1>8, EndKeeps DEF RowsArrived, StepKeeps
<1>9. ASSUME NEW s \in Slot, Serve(s, EditorReplies(s)) PROVE StepKeeps
  BY <1>9, ServeKeeps DEF StepKeeps
<1>10. ASSUME NEW s \in Slot, Lose(s) PROVE StepKeeps
  BY <1>10, LoseKeeps DEF StepKeeps
<1> QED BY <1>1, <1>2, <1>3, <1>4, <1>5, <1>6, <1>7, <1>8, <1>9, <1>10 DEF
   EditorNext

LEMMA ApiKeysKeeps ==
  ASSUME CallsInv, ApiKeysNext
  PROVE  StepKeeps
<1>1. CASE handleCreateKey
  BY <1>1, SendKeeps DEF handleCreateKey, Overlapping, StepKeeps
<1>2. CASE closeNewKeyDialog
  BY <1>2, SameCallsKeep DEF closeNewKeyDialog, NoCall, StepKeeps
<1>3. CASE RetryKeys
  BY <1>3, SendKeeps DEF RetryKeys, Overlapping, StepKeeps
<1>4. ASSUME NEW s \in Slot, KeyCreated(s) PROVE StepKeeps
  BY <1>4, AwaitsIsInFlight, EndThenKeeps, EndKeeps DEF KeyCreated,
     Overlapping, StepKeeps
<1>5. ASSUME NEW s \in Slot, fetchKeys(s) PROVE StepKeeps
  BY <1>5, EndKeeps DEF fetchKeys, StepKeeps
<1>6. ASSUME NEW s \in Slot, Serve(s, ApiKeysReplies(s)) PROVE StepKeeps
  BY <1>6, ServeKeeps DEF StepKeeps
<1>7. ASSUME NEW s \in Slot, Lose(s) PROVE StepKeeps
  BY <1>7, LoseKeeps DEF StepKeeps
<1> QED BY <1>1, <1>2, <1>3, <1>4, <1>5, <1>6, <1>7 DEF ApiKeysNext

LEMMA TenantKeeps ==
  ASSUME CallsInv, TenantNext
  PROVE  StepKeeps
<1>1. CASE ChooseStatus
  BY <1>1, SameCallsKeep DEF ChooseStatus, NoCall, StepKeeps
<1>2. CASE ChooseFlags
  BY <1>2, SameCallsKeep DEF ChooseFlags, NoCall, StepKeeps
<1>3. CASE handleSave
  BY <1>3, SendKeeps DEF handleSave, Overlapping, StepKeeps
<1>4. CASE OpenTenantDialog
  BY <1>4, SameCallsKeep DEF OpenTenantDialog, NoCall, StepKeeps
<1>5. CASE CloseTenantDialog
  BY <1>5, SameCallsKeep DEF CloseTenantDialog, NoCall, StepKeeps
<1>6. CASE handleSuspend
  BY <1>6, SendKeeps DEF handleSuspend, ConfirmTenant, Overlapping, StepKeeps
<1>7. CASE handleTerminate
  BY <1>7, SendKeeps DEF handleTerminate, ConfirmTenant, Overlapping,
     StepKeeps
<1>8. CASE handleRotateKey
  BY <1>8, SendKeeps DEF handleRotateKey, ConfirmTenant, Overlapping,
     StepKeeps
<1>9. ASSUME NEW s \in Slot, TenantPatched(s) PROVE StepKeeps
  BY <1>9, AwaitsIsInFlight, EndThenKeeps, EndKeeps DEF TenantPatched,
     Overlapping, StepKeeps
<1>10. ASSUME NEW s \in Slot, TenantTerminated(s) PROVE StepKeeps
  BY <1>10, LeaveKeeps, EndKeeps DEF TenantTerminated, StepKeeps
<1>11. ASSUME NEW s \in Slot, KeyRotated(s) PROVE StepKeeps
  BY <1>11, EndKeeps DEF KeyRotated, StepKeeps
<1>12. ASSUME NEW s \in Slot, fetchTenant(s) PROVE StepKeeps
  BY <1>12, EndKeeps DEF fetchTenant, StepKeeps
<1>13. ASSUME NEW s \in Slot, Serve(s, TenantReplies(s)) PROVE StepKeeps
  BY <1>13, ServeKeeps DEF StepKeeps
<1>14. ASSUME NEW s \in Slot, Lose(s) PROVE StepKeeps
  BY <1>14, LoseKeeps DEF StepKeeps
<1> QED BY <1>1, <1>2, <1>3, <1>4, <1>5, <1>6, <1>7, <1>8, <1>9, <1>10, <1>11,
   <1>12, <1>13, <1>14 DEF TenantNext

LEMMA ApplyKeeps ==
  ASSUME CallsInv, ApplyNext
  PROVE  StepKeeps
<1>1. CASE FillStep
  BY <1>1, SameCallsKeep DEF FillStep, NoCall, StepKeeps
<1>2. CASE ApplyNextStep
  BY <1>2, SameCallsKeep DEF ApplyNextStep, NoCall, StepKeeps
<1>3. CASE ApplyBack
  BY <1>3, SameCallsKeep DEF ApplyBack, NoCall, StepKeeps
<1>4. CASE SubmitApplication
  BY <1>4, SendKeeps DEF SubmitApplication, Overlapping, StepKeeps
<1>5. ASSUME NEW s \in Slot, ApplicationSubmitted(s) PROVE StepKeeps
  BY <1>5, EndKeeps DEF ApplicationSubmitted, StepKeeps
<1>6. ASSUME NEW s \in Slot, Serve(s, create_application(s)) PROVE StepKeeps
  BY <1>6, ServeKeeps DEF StepKeeps
<1>7. ASSUME NEW s \in Slot, Lose(s) PROVE StepKeeps
  BY <1>7, LoseKeeps DEF StepKeeps
<1> QED BY <1>1, <1>2, <1>3, <1>4, <1>5, <1>6, <1>7 DEF ApplyNext

LEMMA ApplicationsKeeps ==
  ASSUME CallsInv, ApplicationsNext
  PROVE  StepKeeps
<1>1. CASE openReviewDialog
  BY <1>1, SameCallsKeep DEF openReviewDialog, NoCall, StepKeeps
<1>2. CASE ToggleCreateTenant
  BY <1>2, SameCallsKeep DEF ToggleCreateTenant, NoCall, StepKeeps
<1>3. CASE closeReviewDialog
  BY <1>3, SameCallsKeep DEF closeReviewDialog, Overlapping, StepKeeps
<1>4. CASE handleReviewSubmit
  BY <1>4, SendKeeps DEF handleReviewSubmit, Overlapping, StepKeeps
<1>5. CASE RefreshApplications
  BY <1>5, SendKeeps DEF RefreshApplications, Overlapping, StepKeeps
<1>6. CASE ApplicationsColleague
  BY <1>6, SameCallsKeep DEF ApplicationsColleague, Others, StepKeeps
<1>7. ASSUME NEW s \in Slot, Reviewed(s) PROVE StepKeeps
  BY <1>7, AwaitsIsInFlight, EndThenKeeps, EndKeeps DEF Reviewed, Overlapping,
     StepKeeps
<1>8. ASSUME NEW s \in Slot, fetchApplications(s) PROVE StepKeeps
  BY <1>8, EndKeeps DEF fetchApplications, StepKeeps
<1>9. ASSUME NEW s \in Slot, Serve(s, ApplicationsReplies(s)) PROVE StepKeeps
  BY <1>9, ServeKeeps DEF StepKeeps
<1>10. ASSUME NEW s \in Slot, Lose(s) PROVE StepKeeps
  BY <1>10, LoseKeeps DEF StepKeeps
<1> QED BY <1>1, <1>2, <1>3, <1>4, <1>5, <1>6, <1>7, <1>8, <1>9, <1>10 DEF
   ApplicationsNext

LEMMA OnboardingKeeps ==
  ASSUME CallsInv, OnboardingNext
  PROVE  StepKeeps
<1>1. CASE OnboardingStep
  BY <1>1, SameCallsKeep DEF OnboardingStep, NoCall, StepKeeps
<1>2. CASE OnboardingCreate
  BY <1>2, SameCallsKeep DEF OnboardingCreate, NoCall, StepKeeps
<1> QED BY <1>1, <1>2 DEF OnboardingNext

LEMMA ResultsKeeps ==
  ASSUME CallsInv, ResultsNext
  PROVE  StepKeeps
<1>1. CASE ChooseDisposition
  BY <1>1, SendAlsoKeeps DEF ChooseDisposition, Overlapping, StepKeeps
<1>2. CASE OpenPanel
  BY <1>2, SendAlsoKeeps DEF OpenPanel, Overlapping, StepKeeps
<1>3. CASE ClosePanel
  BY <1>3, SendAlsoKeeps DEF ClosePanel, Overlapping, StepKeeps
<1>4. CASE LoadMatches
  BY <1>4, SendKeeps DEF LoadMatches, Overlapping, StepKeeps
<1>5. CASE handleDisposition
  BY <1>5, SendKeeps DEF handleDisposition, Overlapping, StepKeeps
<1>6. CASE ResultsColleague
  BY <1>6, SameCallsKeep DEF ResultsColleague, Others, StepKeeps
<1>7. ASSUME NEW s \in Slot, ResultsArrived(s) PROVE StepKeeps
  BY <1>7, EndKeeps DEF ResultsArrived, StepKeeps
<1>8. ASSUME NEW s \in Slot, MatchesArrived(s) PROVE StepKeeps
  BY <1>8, EndKeeps DEF MatchesArrived, StepKeeps
<1>9. ASSUME NEW s \in Slot, DispositionEnds(s) PROVE StepKeeps
  BY <1>9, AwaitsIsInFlight, EndThenKeeps, EndKeeps DEF DispositionEnds,
     Overlapping, StepKeeps
<1>10. ASSUME NEW s \in Slot, Serve(s, ResultsReplies(s)) PROVE StepKeeps
  BY <1>10, ServeKeeps DEF StepKeeps
<1>11. ASSUME NEW s \in Slot, Lose(s) PROVE StepKeeps
  BY <1>11, LoseKeeps DEF StepKeeps
<1>12. CASE ReloadResults
  BY <1>12, SendAlsoKeeps DEF ReloadResults, Overlapping, StepKeeps
<1> QED BY <1>1, <1>2, <1>3, <1>4, <1>5, <1>6, <1>7, <1>8, <1>9, <1>10, <1>11, <1>12
   DEF ResultsNext

LEMMA BatchKeeps ==
  ASSUME CallsInv, BatchNext
  PROVE  StepKeeps
<1>1. CASE Poll
  BY <1>1, SendAlsoKeeps DEF Poll, Overlapping, StepKeeps
<1>2. CASE handleFileChange
  BY <1>2, SendKeeps DEF handleFileChange, Overlapping, StepKeeps
<1>3. CASE WorkerStep
  BY <1>3, SameCallsKeep DEF WorkerStep, StepKeeps
<1>4. CASE BatchColleague
  BY <1>4, SameCallsKeep DEF BatchColleague, Others, StepKeeps
<1>5. ASSUME NEW s \in Slot, BatchUploaded(s) PROVE StepKeeps
  BY <1>5, AwaitsIsInFlight, ChainAlsoKeeps, EndKeeps DEF BatchUploaded,
     Overlapping, StepKeeps
<1>6. ASSUME NEW s \in Slot, fetchJobs(s) PROVE StepKeeps
  BY <1>6, EndKeeps DEF fetchJobs, StepKeeps
<1>7. ASSUME NEW s \in Slot, Serve(s, BatchReplies(s)) PROVE StepKeeps
  BY <1>7, ServeKeeps DEF StepKeeps
<1>8. ASSUME NEW s \in Slot, Lose(s) PROVE StepKeeps
  BY <1>8, LoseKeeps DEF StepKeeps
<1> QED BY <1>1, <1>2, <1>3, <1>4, <1>5, <1>6, <1>7, <1>8 DEF BatchNext

LEMMA SessionKeeps ==
  ASSUME CallsInv, SessionNext
  PROVE  StepKeeps
<1>1. CASE OpenLayout
  BY <1>1, SameCallsKeep DEF OpenLayout, NoCall, StepKeeps
<1>2. CASE Login
  BY <1>2, SendKeeps DEF Login, Overlapping, StepKeeps
<1>3. CASE handleLogout
  BY <1>3, SameCallsKeep DEF handleLogout, NoCall, StepKeeps
<1>4. CASE apiRequest
  BY <1>4, SendKeeps DEF apiRequest, Overlapping, StepKeeps
<1>5. CASE OtherTab
  BY <1>5, SameCallsKeep DEF OtherTab, StepKeeps
<1>6. CASE Deactivate
  BY <1>6, SameCallsKeep DEF Deactivate, Others, StepKeeps
<1>7. ASSUME NEW s \in Slot, LoggedIn(s) PROVE StepKeeps
  BY <1>7, EndKeeps DEF LoggedIn, StepKeeps
<1>8. ASSUME NEW s \in Slot, RequestAnswered(s) PROVE StepKeeps
  BY <1>8, AwaitsIsInFlight, ChainKeeps, EndKeeps DEF RequestAnswered,
     Overlapping, StepKeeps
<1>9. ASSUME NEW s \in Slot, Refreshed(s) PROVE StepKeeps
  BY <1>9, AwaitsIsInFlight, ChainKeeps, EndKeeps DEF Refreshed, Overlapping,
     StepKeeps
<1>10. ASSUME NEW s \in Slot, Serve(s, SessionReplies(s)) PROVE StepKeeps
  BY <1>10, ServeKeeps DEF StepKeeps
<1>11. ASSUME NEW s \in Slot, Lose(s) PROVE StepKeeps
  BY <1>11, LoseKeeps DEF StepKeeps
<1> QED BY <1>1, <1>2, <1>3, <1>4, <1>5, <1>6, <1>7, <1>8, <1>9, <1>10, <1>11
   DEF SessionNext

LEMMA HeaderKeeps ==
  ASSUME CallsInv, HeaderNext
  PROVE  StepKeeps
<1>1. CASE PollNotifications
  BY <1>1, SendKeeps DEF PollNotifications, Overlapping, StepKeeps
<1>2. CASE handleMarkRead
  BY <1>2, SendKeeps DEF handleMarkRead, Overlapping, StepKeeps
<1>3. CASE handleMarkAllRead
  BY <1>3, SendKeeps DEF handleMarkAllRead, Overlapping, StepKeeps
<1>4. CASE handleSearchChange
  BY <1>4, SameCallsKeep DEF handleSearchChange, NoCall, StepKeeps
<1>5. CASE SearchTimer
  BY <1>5, SendKeeps DEF SearchTimer, Overlapping, StepKeeps
<1>6. CASE handleSearchSelect
  BY <1>6, SameCallsKeep DEF handleSearchSelect, NoCall, StepKeeps
<1>7. CASE OpenSearch
  BY <1>7, SameCallsKeep DEF OpenSearch, NoCall, StepKeeps
<1>8. CASE HeaderColleague
  BY <1>8, SameCallsKeep DEF HeaderColleague, Others, StepKeeps
<1>9. ASSUME NEW s \in Slot, fetchNotifications(s) PROVE StepKeeps
  BY <1>9, EndKeeps DEF fetchNotifications, StepKeeps
<1>10. ASSUME NEW s \in Slot, MarkedRead(s) PROVE StepKeeps
  BY <1>10, EndKeeps DEF MarkedRead, StepKeeps
<1>11. ASSUME NEW s \in Slot, SearchArrived(s) PROVE StepKeeps
  BY <1>11, EndKeeps DEF SearchArrived, StepKeeps
<1>12. ASSUME NEW s \in Slot, Serve(s, HeaderReplies(s)) PROVE StepKeeps
  BY <1>12, ServeKeeps DEF StepKeeps
<1>13. ASSUME NEW s \in Slot, Lose(s) PROVE StepKeeps
  BY <1>13, LoseKeeps DEF StepKeeps
<1> QED BY <1>1, <1>2, <1>3, <1>4, <1>5, <1>6, <1>7, <1>8, <1>9, <1>10, <1>11,
   <1>12, <1>13 DEF HeaderNext


LEMMA CaseDialogKeeps ==
  ASSUME CallsInv, CaseDialog, CaseNext
  PROVE  CaseDialog'
<1> USE DEF CaseDialog
<1>0. page = "case" /\ "confirmOpen" \in DOMAIN ui
  BY DEF CaseNext
<1>1. CASE handleStatusSelect
  BY <1>0, <1>1 DEF handleStatusSelect, NoCall
<1>2. CASE CancelStatus
  BY <1>0, <1>2 DEF CancelStatus, NoCall
<1>3. CASE handleStatusConfirm
  BY <1>0, <1>3 DEF handleStatusConfirm
<1>4. CASE TypeNote
  BY <1>0, <1>4 DEF TypeNote, NoCall
<1>5. CASE handleAddNote
  BY <1>0, <1>5 DEF handleAddNote, Send
<1>6. CASE CaseColleague
  BY <1>0, <1>6 DEF CaseColleague, Others
<1>7. ASSUME NEW s \in Slot, StatusConfirmed(s) PROVE CaseDialog'
  BY <1>0, <1>7 DEF StatusConfirmed, End
<1>8. ASSUME NEW s \in Slot, NoteAdded(s) PROVE CaseDialog'
  BY <1>0, <1>8 DEF NoteAdded, Chain, End
<1>9. ASSUME NEW s \in Slot, fetchCase(s) PROVE CaseDialog'
  BY <1>0, <1>9 DEF fetchCase, End
<1>10. ASSUME NEW s \in Slot, Serve(s, CaseReplies(s)) PROVE CaseDialog'
  BY <1>0, <1>10 DEF Serve
<1>11. ASSUME NEW s \in Slot, Lose(s) PROVE CaseDialog'
  BY <1>0, <1>11 DEF Lose
<1> QED BY <1>1, <1>2, <1>3, <1>4, <1>5, <1>6, <1>7, <1>8, <1>9, <1>10, <1>11 DEF CaseNext

-----------------------------------------------------------------------------
(* A page that was just mounted. *)
LEMMA MountedStarts ==
  ASSUME NEW op, NEW arg, NEW flags, Mounted(op, arg, flags)
  PROVE  CallsInv
<1>1. PICK s0 \in Slot :
        calls = [s \in Slot |-> IF s = s0 THEN Call(op, arg, flags) ELSE Free]
  BY DEF Mounted
<1>2. /\ calls[s0] = Call(op, arg, flags) /\ calls[s0].flags = flags
      /\ \A s \in Slot \ {s0} : calls[s] = Free /\ calls[s].flags = {}
  BY <1>1, CallIsCall
<1>3. CallsOK
  BY <1>1, <1>2, CallIsCall DEF CallsOK
<1>4. BusyHasCall /\ FlagIsUp /\ OneInFlight /\ Alone
  BY <1>2, CallIsCall DEF Mounted, BusyHasCall, FlagIsUp, OneInFlight, Alone, InFlight
<1> QED BY <1>3, <1>4 DEF CallsInv

LEMMA MountedIdleStarts ==
  ASSUME MountedIdle
  PROVE  CallsInv
<1>1. /\ calls = [s \in Slot |-> Free] /\ busy = {} /\ \A s \in Slot : calls[s].flags = {}
      /\ smooth = TRUE
  BY CallIsCall DEF MountedIdle
<1> QED BY <1>1 DEF CallsInv, CallsOK, BusyHasCall, FlagIsUp, OneInFlight, Alone, InFlight

ConsoleInv == CallsInv /\ CaseDialog

LEMMA ConsoleStarts ==
  ASSUME ConsoleInit
  PROVE  ConsoleInv
<1> USE DEF ConsoleInv, CaseDialog
<1>1. CASE CaseInit
  BY <1>1, MountedStarts DEF CaseInit
<1>2. CASE CustomerInit
  BY <1>2, MountedStarts DEF CustomerInit
<1>3. CASE ListInit
  <2>1. page \in DOMAIN ListPage /\ CallsInv
    BY <1>3, MountedStarts DEF ListInit
  <2>2. "case" \notin DOMAIN ListPage
    BY DEF ListPage
  <2> QED BY <2>1, <2>2
<1>4. CASE IncidentInit
  BY <1>4, MountedStarts DEF IncidentInit
<1>5. CASE IsarInit
  BY <1>5, MountedStarts DEF IsarInit
<1>6. CASE NewIsarInit
  BY <1>6, MountedStarts DEF NewIsarInit
<1>7. CASE StrsInit
  BY <1>7, MountedStarts DEF StrsInit
<1>8. CASE FormA5Init
  BY <1>8, MountedStarts DEF FormA5Init
<1>9. CASE FormA6Init
  BY <1>9, MountedStarts DEF FormA6Init
<1>10. CASE FormInit
  <2>1. page \in DOMAIN FormPage /\ CallsInv
    BY <1>10, MountedStarts DEF FormInit
  <2>2. "case" \notin DOMAIN FormPage
    BY DEF FormPage
  <2> QED BY <2>1, <2>2
<1>11. CASE NotificationsInit
  BY <1>11, MountedStarts DEF NotificationsInit
<1>12. CASE AdvancedInit
  BY <1>12, MountedStarts DEF AdvancedInit
<1>13. CASE EditorInit
  <2>1. page \in DOMAIN EditorPage /\ CallsInv
    BY <1>13, MountedStarts DEF EditorInit
  <2>2. "case" \notin DOMAIN EditorPage
    BY DEF EditorPage
  <2> QED BY <2>1, <2>2
<1>14. CASE ApiKeysInit
  BY <1>14, MountedStarts DEF ApiKeysInit
<1>15. CASE TenantInit
  BY <1>15, MountedStarts DEF TenantInit
<1>16. CASE ApplyInit
  BY <1>16, MountedIdleStarts DEF ApplyInit
<1>17. CASE ApplicationsInit
  BY <1>17, MountedStarts DEF ApplicationsInit
<1>18. CASE OnboardingInit
  BY <1>18, MountedIdleStarts DEF OnboardingInit
<1>19. CASE ResultsInit
  BY <1>19, MountedStarts DEF ResultsInit
<1>20. CASE BatchInit
  BY <1>20, MountedStarts DEF BatchInit
<1>21. CASE SessionInit
  BY <1>21, MountedIdleStarts DEF SessionInit
<1>22. CASE HeaderInit
  BY <1>22, MountedStarts DEF HeaderInit
<1> QED BY <1>1, <1>2, <1>3, <1>4, <1>5, <1>6, <1>7, <1>8, <1>9, <1>10, <1>11,
   <1>12, <1>13, <1>14, <1>15, <1>16, <1>17, <1>18, <1>19, <1>20, <1>21, <1>22
   DEF ConsoleInit, ReportPageInit, SettingsPageInit, EditorPageInit,
   ApplicationPageInit, ScreeningPageInit, SessionPageInit

(* Every step of a page keeps the invariant, and the page or leaves it. *)
LEMMA PageKeeps ==
  ASSUME ConsoleInv, PageNext
  PROVE  ConsoleInv' /\ page' \in {page, "elsewhere"}
<1>1. CASE CaseNext
  BY <1>1, CaseKeeps, CaseDialogKeeps DEF ConsoleInv, StepKeeps
<1>2. ASSUME ~CaseNext PROVE page # "case" /\ StepKeeps
  <2>1. CASE CustomerNext
    BY <2>1, CustomerKeeps DEF ConsoleInv, CustomerNext
  <2>2. CASE ListNext
    BY <2>2, ListKeeps DEF ConsoleInv, ListNext, ListPage
  <2>3. CASE IncidentNext
    BY <2>3, IncidentKeeps DEF ConsoleInv, IncidentNext
  <2>4. CASE IsarNext
    BY <2>4, IsarKeeps DEF ConsoleInv, IsarNext
  <2>5. CASE NewIsarNext
    BY <2>5, NewIsarKeeps DEF ConsoleInv, NewIsarNext
  <2>6. CASE StrsNext
    BY <2>6, StrsKeeps DEF ConsoleInv, StrsNext
  <2>7. CASE FormA5Next
    BY <2>7, FormA5Keeps DEF ConsoleInv, FormA5Next
  <2>8. CASE FormA6Next
    BY <2>8, FormA6Keeps DEF ConsoleInv, FormA6Next
  <2>9. CASE FormNext
    BY <2>9, FormKeeps DEF ConsoleInv, FormNext, FormPage
  <2>10. CASE NotificationsNext
    BY <2>10, NotificationsKeeps DEF ConsoleInv, NotificationsNext
  <2>11. CASE AdvancedNext
    BY <2>11, AdvancedKeeps DEF ConsoleInv, AdvancedNext
  <2>12. CASE EditorNext
    BY <2>12, EditorKeeps DEF ConsoleInv, EditorNext, EditorPage
  <2>13. CASE ApiKeysNext
    BY <2>13, ApiKeysKeeps DEF ConsoleInv, ApiKeysNext
  <2>14. CASE TenantNext
    BY <2>14, TenantKeeps DEF ConsoleInv, TenantNext
  <2>15. CASE ApplyNext
    BY <2>15, ApplyKeeps DEF ConsoleInv, ApplyNext
  <2>16. CASE ApplicationsNext
    BY <2>16, ApplicationsKeeps DEF ConsoleInv, ApplicationsNext
  <2>17. CASE OnboardingNext
    BY <2>17, OnboardingKeeps DEF ConsoleInv, OnboardingNext
  <2>18. CASE ResultsNext
    BY <2>18, ResultsKeeps DEF ConsoleInv, ResultsNext
  <2>19. CASE BatchNext
    BY <2>19, BatchKeeps DEF ConsoleInv, BatchNext
  <2>20. CASE SessionNext
    BY <2>20, SessionKeeps DEF ConsoleInv, SessionNext
  <2>21. CASE HeaderNext
    BY <2>21, HeaderKeeps DEF ConsoleInv, HeaderNext
  <2> QED BY <1>2, <2>1, <2>2, <2>3, <2>4, <2>5, <2>6, <2>7, <2>8, <2>9,
     <2>10, <2>11, <2>12, <2>13, <2>14, <2>15, <2>16, <2>17, <2>18, <2>19,
     <2>20, <2>21 DEF PageNext, ReportPageNext, SettingsPageNext,
     EditorPageNext, ApplicationPageNext, ScreeningPageNext, SessionPageNext
<1> QED BY <1>1, <1>2 DEF ConsoleInv, CaseDialog, StepKeeps

LEMMA ConsoleStep ==
  ASSUME ConsoleInv, [ConsoleNext]_consoleVars
  PROVE  ConsoleInv'
<1>1. CASE PageNext
  BY <1>1, PageKeeps
<1>2. CASE LeavePage
  BY <1>2, LeaveKeeps DEF LeavePage, ConsoleInv, CaseDialog
<1>3. CASE UNCHANGED consoleVars
  BY <1>3, SameCallsKeep DEF consoleVars, ConsoleInv, CaseDialog
<1> QED BY <1>1, <1>2, <1>3 DEF ConsoleNext, ConsoleDone

(* The slots, the hooks that are up and the calls fit together. *)
THEOREM ConsoleInvariant == ConsoleSpec => []ConsoleInv
<1>1. ConsoleInit => ConsoleInv
  BY ConsoleStarts
<1>2. ConsoleInv /\ [ConsoleNext]_consoleVars => ConsoleInv'
  BY ConsoleStep
<1> QED BY <1>1, <1>2, PTL DEF ConsoleSpec

(* On every page, and however many calls are under way, a control that is   *)
(* disabled or a page that is loading waits for a call that will end.       *)
THEOREM NoControlStaysBusy == ConsoleSpec => []BusyHasCall
BY ConsoleInvariant, PTL DEF ConsoleInv, CallsInv

(* No operation with a hook of its own runs twice at the same time.         *)
THEOREM NoOperationOverlapsItself == ConsoleSpec => []OneInFlight
BY ConsoleInvariant, PTL DEF ConsoleInv, CallsInv

-----------------------------------------------------------------------------
(* Single pages. *)

(* A step of PageNext is one of the page that is open. *)
LEMMA StepsOfPage ==
  ASSUME PageNext
  PROVE  /\ page = "case" => CaseNext
         /\ page = "customer" => CustomerNext
         /\ page = "incident" => IncidentNext
         /\ page = "isar" => IsarNext
         /\ page = "strs" => StrsNext
         /\ page = "formA6" => FormA6Next
         /\ page = "advanced" => AdvancedNext
         /\ page = "tenant" => TenantNext
         /\ page = "applications" => ApplicationsNext
         /\ page = "results" => ResultsNext
         /\ page = "batch" => BatchNext
         /\ page = "session" => SessionNext
         /\ page = "header" => HeaderNext
         /\ page \in DOMAIN FormPage => FormNext
         /\ page \in DOMAIN EditorPage => EditorNext
         /\ page \in DOMAIN ListPage => ListNext
<1>1. /\ CaseNext => page = "case"
      /\ CustomerNext => page = "customer"
      /\ IncidentNext => page = "incident"
  BY DEF CaseNext, CustomerNext, IncidentNext
<1>2. /\ IsarNext => page = "isar"
      /\ NewIsarNext => page = "newIsar"
      /\ StrsNext => page = "strs"
      /\ FormA5Next => page = "formA5"
      /\ FormA6Next => page = "formA6"
  BY DEF IsarNext, NewIsarNext, StrsNext, FormA5Next, FormA6Next
<1>3. /\ FormNext => page \in DOMAIN FormPage
      /\ NotificationsNext => page = "notifications"
      /\ AdvancedNext => page = "advanced"
  BY DEF FormNext, NotificationsNext, AdvancedNext
<1>4. /\ EditorNext => page \in DOMAIN EditorPage
      /\ ApiKeysNext => page = "apiKeys"
      /\ TenantNext => page = "tenant"
  BY DEF EditorNext, ApiKeysNext, TenantNext
<1>5. /\ ApplyNext => page = "apply"
      /\ ApplicationsNext => page = "applications"
      /\ OnboardingNext => page = "onboarding"
  BY DEF ApplyNext, ApplicationsNext, OnboardingNext
<1>6. /\ ResultsNext => page = "results"
      /\ BatchNext => page = "batch"
      /\ SessionNext => page = "session"
      /\ HeaderNext => page = "header"
      /\ ListNext => page \in DOMAIN ListPage
  BY DEF ResultsNext, BatchNext, SessionNext, HeaderNext, ListNext
<1>7. DOMAIN FormPage = {"identity", "chat", "vasp", "service", "screening", "retention",
                         "analytics", "webhooks"}
  BY DEF FormPage
<1>8. DOMAIN EditorPage = {"plans", "coupons", "subscriptions", "rules", "team"}
  BY DEF EditorPage
<1>9. DOMAIN ListPage = {"cases", "customers", "alerts", "wallets", "incidents", "isars",
                         "tenants", "audit"}
  BY DEF ListPage
<1> QED BY <1>1, <1>2, <1>3, <1>4, <1>5, <1>6, <1>7, <1>8, <1>9
        DEF PageNext, ReportPageNext, SettingsPageNext, EditorPageNext,
            ApplicationPageNext, ScreeningPageNext, SessionPageNext

(* A step leaves the page as it is, is one of PageNext, or takes it away. *)
LEMMA StepKinds ==
  ASSUME ConsoleInv, [ConsoleNext]_consoleVars
  PROVE  \/ UNCHANGED consoleVars
         \/ PageNext /\ page' = page
         \/ page' = "elsewhere"
<1>1. CASE PageNext
  BY <1>1, PageKeeps
<1>2. CASE LeavePage
  BY <1>2 DEF LeavePage, Leave
<1> QED BY <1>1, <1>2 DEF ConsoleNext, ConsoleDone

(* A page that is open has just been mounted. *)
LEMMA InitOfPage ==
  ASSUME ConsoleInit
  PROVE  /\ page = "case" => CaseInit
         /\ page = "customer" => CustomerInit
         /\ page = "incident" => IncidentInit
         /\ page = "isar" => IsarInit
         /\ page = "strs" => StrsInit
         /\ page = "formA6" => FormA6Init
         /\ page = "advanced" => AdvancedInit
         /\ page = "tenant" => TenantInit
         /\ page = "applications" => ApplicationsInit
         /\ page = "results" => ResultsInit
         /\ page = "batch" => BatchInit
         /\ page = "session" => SessionInit
         /\ page = "header" => HeaderInit
         /\ page \in DOMAIN FormPage => FormInit
         /\ page \in DOMAIN EditorPage => EditorInit
         /\ page \in DOMAIN ListPage => ListInit
<1>1. /\ CaseInit => page = "case"
      /\ CustomerInit => page = "customer"
      /\ IncidentInit => page = "incident"
  BY DEF CaseInit, CustomerInit, IncidentInit
<1>2. /\ IsarInit => page = "isar"
      /\ NewIsarInit => page = "newIsar"
      /\ StrsInit => page = "strs"
      /\ FormA5Init => page = "formA5"
      /\ FormA6Init => page = "formA6"
  BY DEF IsarInit, NewIsarInit, StrsInit, FormA5Init, FormA6Init
<1>3. /\ FormInit => page \in DOMAIN FormPage
      /\ NotificationsInit => page = "notifications"
      /\ AdvancedInit => page = "advanced"
  BY DEF FormInit, NotificationsInit, AdvancedInit
<1>4. /\ EditorInit => page \in DOMAIN EditorPage
      /\ ApiKeysInit => page = "apiKeys"
      /\ TenantInit => page = "tenant"
  BY DEF EditorInit, ApiKeysInit, TenantInit
<1>5. /\ ApplyInit => page = "apply"
      /\ ApplicationsInit => page = "applications"
      /\ OnboardingInit => page = "onboarding"
  BY DEF ApplyInit, ApplicationsInit, OnboardingInit
<1>6. /\ ResultsInit => page = "results"
      /\ BatchInit => page = "batch"
      /\ SessionInit => page = "session"
      /\ HeaderInit => page = "header"
      /\ ListInit => page \in DOMAIN ListPage
  BY DEF ResultsInit, BatchInit, SessionInit, HeaderInit, ListInit
<1>7. DOMAIN FormPage = {"identity", "chat", "vasp", "service", "screening", "retention",
                         "analytics", "webhooks"}
  BY DEF FormPage
<1>8. DOMAIN EditorPage = {"plans", "coupons", "subscriptions", "rules", "team"}
  BY DEF EditorPage
<1>9. DOMAIN ListPage = {"cases", "customers", "alerts", "wallets", "incidents", "isars",
                         "tenants", "audit"}
  BY DEF ListPage
<1> QED BY <1>1, <1>2, <1>3, <1>4, <1>5, <1>6, <1>7, <1>8, <1>9
        DEF ConsoleInit, ReportPageInit, SettingsPageInit, EditorPageInit,
            ApplicationPageInit, ScreeningPageInit, SessionPageInit

(* What the calls are after a step that makes one, ... *)
LEMMA NewCall ==
  ASSUME CallsOK, NEW s \in Slot, NEW op, NEW arg, NEW flags,
         calls' = [calls EXCEPT ![s] = Call(op, arg, flags)]
  PROVE  /\ calls'[s] = Call(op, arg, flags)
         /\ \A t \in Slot \ {s} : calls'[t] = calls[t]
BY DEF CallsOK

LEMMA SentCall ==
  ASSUME CallsInv, NEW op, NEW arg, NEW flags, Send(op, arg, flags)
  PROVE  /\ \E s \in Slot : /\ ~InFlight(s)
                           /\ calls'[s] = Call(op, arg, flags)
                           /\ \A t \in Slot \ {s} : calls'[t] = calls[t]
         /\ busy' = busy \cup flags
         /\ smooth' => smooth /\ Quiet
<1>1. PICK s \in Slot : ~InFlight(s) /\ calls' = [calls EXCEPT ![s] = Call(op, arg, flags)]
  BY DEF Send
<1>2. calls'[s] = Call(op, arg, flags) /\ \A t \in Slot \ {s} : calls'[t] = calls[t]
  BY <1>1, NewCall DEF CallsInv
<1> QED BY <1>1, <1>2 DEF Send

(* ... after one that ends it, ... *)
LEMMA EndedCall ==
  ASSUME CallsInv, NEW s \in Slot, calls' = [calls EXCEPT ![s] = Free]
  PROVE  /\ calls'[s] = Free
         /\ \A t \in Slot \ {s} : calls'[t] = calls[t]
BY DEF CallsInv, CallsOK

(* ... and after one that answers it. *)
LEMMA AnsweredCall ==
  ASSUME CallsInv, NEW s \in Slot, InFlight(s), NEW ans,
         calls' = [calls EXCEPT ![s].ans = ans]
  PROVE  /\ calls'[s].op = calls[s].op /\ calls'[s].arg = calls[s].arg
         /\ calls'[s].ans = ans /\ calls'[s].flags = calls[s].flags
         /\ \A t \in Slot \ {s} : calls'[t] = calls[t]
<1>1. DOMAIN calls[s] = CallFields
  BY DEF CallsInv, CallsOK, InFlight
<1>2. calls' = [t \in Slot |-> IF t = s THEN [calls[s] EXCEPT !.ans = ans] ELSE calls[t]]
  BY DEF CallsInv, CallsOK
<1>3. calls'[s] = [calls[s] EXCEPT !.ans = ans] /\ \A t \in Slot \ {s} : calls'[t] = calls[t]
  BY <1>2
<1> QED BY <1>1, <1>3 DEF CallFields

(* The fields of a call and of an answer. *)
LEMMA Fields ==
  ASSUME NEW op, NEW arg, NEW flags
  PROVE  /\ Call(op, arg, flags).op = op /\ Call(op, arg, flags).arg = arg
         /\ Call(op, arg, flags).ans = Pending /\ Call(op, arg, flags) # Free
         /\ Pending.state = "pending" /\ DOMAIN Pending = {"state"}
<1>1. Call(op, arg, flags) # Free
  BY CallIsCall
<1> QED BY <1>1 DEF Call, Pending

LEMMA AnswerFields ==
  ASSUME NEW data
  PROVE  /\ Ok(data).state = "ok" /\ Ok(data).data = data
         /\ DOMAIN Ok(data) = {"state", "data"}
         /\ Failed.state = "failed" /\ DOMAIN Failed = {"state"}
BY DEF Ok, Failed

-----------------------------------------------------------------------------
(* The session: the three parts are only written together. *)
SessionInv ==
  page = "session" =>
    /\ ui = [user |-> ui.user, access |-> ui.user, refresh |-> ui.user, place |-> ui.place]

LEMMA SessionStarts ==
  ASSUME ConsoleInit
  PROVE  SessionInv
BY InitOfPage DEF SessionInit, SessionInv

LEMMA SessionStep ==
  ASSUME SessionInv, SessionNext
  PROVE  SessionInv'
<1> USE DEF SessionInv, storeAuth, clearAuth, NoCall
<1>0. page = "session"
  BY DEF SessionNext
<1>1. CASE OpenLayout
  BY <1>0, <1>1 DEF OpenLayout
<1>2. CASE Login \/ apiRequest
  BY <1>0, <1>2 DEF Login, apiRequest
<1>3. CASE handleLogout
  BY <1>0, <1>3 DEF handleLogout
<1>4. CASE OtherTab
  BY <1>0, <1>4 DEF OtherTab
<1>5. CASE Deactivate
  BY <1>0, <1>5 DEF Deactivate, Others
<1>6. ASSUME NEW s \in Slot, LoggedIn(s) PROVE SessionInv'
  BY <1>0, <1>6 DEF LoggedIn
<1>7. ASSUME NEW s \in Slot, RequestAnswered(s) PROVE SessionInv'
  BY <1>0, <1>7 DEF RequestAnswered
<1>8. ASSUME NEW s \in Slot, Refreshed(s) PROVE SessionInv'
  BY <1>0, <1>8 DEF Refreshed, refreshAuth
<1>9. ASSUME NEW s \in Slot, Serve(s, SessionReplies(s)) \/ Lose(s) PROVE SessionInv'
  BY <1>0, <1>9 DEF Serve, Lose
<1> QED BY <1>1, <1>2, <1>3, <1>4, <1>5, <1>6, <1>7, <1>8, <1>9 DEF SessionNext

(* The tokens are never of one person and the stored user another, however  *)
(* sign-ins, refreshes, sign-outs and other tabs overlap.                   *)
THEOREM SessionStaysOnePersons == ConsoleSpec => []SessionIsOnePersons
<1>1. ConsoleInit => SessionInv
  BY SessionStarts
<1>2. ConsoleInv /\ SessionInv /\ [ConsoleNext]_consoleVars => SessionInv'
  <2> SUFFICES ASSUME ConsoleInv, SessionInv, [ConsoleNext]_consoleVars PROVE SessionInv'
    OBVIOUS
  <2>1. CASE UNCHANGED consoleVars
    BY <2>1 DEF SessionInv, consoleVars
  <2>2. CASE PageNext /\ page' = page
    BY <2>2, StepsOfPage, SessionStep DEF SessionInv
  <2> QED BY <2>1, <2>2, StepKinds DEF SessionInv
<1>3. SessionInv => SessionIsOnePersons
  BY DEF SessionInv, SessionIsOnePersons
<1> QED BY <1>1, <1>2, <1>3, ConsoleInvariant, PTL DEF ConsoleSpec

-----------------------------------------------------------------------------
(* The settings.  What the backend holds, what it answers and what is on    *)
(* its way to it may all be kept; a form that needs an answer is only saved *)
(* with what it was answered or what was typed.                             *)
Keepable(p, v) == v # "out of range" /\ (FormPage[p].needs => v \notin {"default", "unset"})
KeepableRows(p, f) ==
  f = [k \in Settings(p) |-> f[k]] /\ \A k \in Settings(p) : Keepable(p, f[k])
KeepablePart(p, f) ==
  /\ DOMAIN f \subseteq Settings(p)
  /\ \A k \in DOMAIN f : Keepable(p, f[k])

FormCall(p, c) ==
  c = Free \/ /\ c.op \in {"load", "save"}
              /\ c.op = "save" => KeepablePart(p, c.arg)
              /\ c.op = "load" /\ c.ans.state = "ok" => KeepableRows(p, c.ans.data)
              /\ "flags" \in DOMAIN c.ans => c.op = "save" /\ KeepableRows(p, c.ans.flags)

FormInv ==
  page \in DOMAIN FormPage =>
    /\ ui = [form |-> ui.form, loaded |-> ui.loaded]
    /\ ui.form = [k \in Settings(page) |-> ui.form[k]]
    /\ FormPage[page].needs /\ ui.loaded =>
         \A k \in Settings(page) : ui.form[k] \notin {"default", "unset"}
    /\ KeepableRows(page, srv)
    /\ \A s \in Slot : FormCall(page, calls[s])

(* A tab that needs an answer is one of the platform's. *)
LEMMA NeedsIsPlatform ==
  ASSUME NEW p \in DOMAIN FormPage, FormPage[p].needs
  PROVE  FormPage[p].platform
<1> USE DEF FormPage, Form
<1>1. CASE p = "identity"
  BY <1>1 DEF IdentityTab
<1>2. CASE p = "chat"
  BY <1>2 DEF ChatTab
<1>3. CASE p = "vasp"
  BY <1>3 DEF VaspTab
<1>4. CASE p = "service"
  BY <1>4 DEF ServiceConfigTab
<1>5. CASE p = "screening"
  BY <1>5 DEF SettingsScreeningPage
<1>6. CASE p = "retention"
  BY <1>6 DEF SettingsRetentionPage
<1>7. CASE p = "analytics"
  BY <1>7 DEF SettingsAnalyticsPage
<1>8. CASE p = "webhooks"
  BY <1>8 DEF SettingsWebhooksPage
<1> QED BY <1>1, <1>2, <1>3, <1>4, <1>5, <1>6, <1>7, <1>8

LEMMA FormStarts ==
  ASSUME ConsoleInit
  PROVE  FormInv
<1> SUFFICES ASSUME page \in DOMAIN FormPage PROVE FormInv
  BY DEF FormInv
<1>1. FormInit
  BY InitOfPage
<1>2. /\ ui = [form |-> [k \in Settings(page) |-> "default"], loaded |-> FALSE]
      /\ srv \in [Settings(page) -> IF FormPage[page].platform THEN {"stored"}
                                    ELSE {"stored", "unset"}]
      /\ Mounted("load", <<>>, {"loading"})
  BY <1>1 DEF FormInit
<1>3. KeepableRows(page, srv)
  BY <1>2, NeedsIsPlatform DEF KeepableRows, Keepable
<1>4. \A s \in Slot : FormCall(page, calls[s])
  <2>1. PICK s0 \in Slot :
          calls = [s \in Slot |-> IF s = s0 THEN Call("load", <<>>, {"loading"}) ELSE Free]
    BY <1>2 DEF Mounted
  <2> QED BY <2>1, Fields DEF FormCall
<1> QED BY <1>2, <1>3, <1>4 DEF FormInv

(* A slot that changes, and only one does. *)
LEMMA FormSlot ==
  ASSUME FormInv, page \in DOMAIN FormPage, page' = page,
         NEW s \in Slot, \A t \in Slot \ {s} : calls'[t] = calls[t], FormCall(page, calls[s])'
  PROVE  (\A t \in Slot : FormCall(page, calls[t]))'
BY DEF FormInv

(* An answer that came before a call is taken up, with what it has kept. *)
LEMMA FormAnswer ==
  ASSUME ConsoleInv, FormInv, page \in DOMAIN FormPage, page' = page,
         NEW s \in Slot, InFlight(s), NEW ans, calls' = [calls EXCEPT ![s].ans = ans],
         calls[s].op = "load" /\ ans.state = "ok" => KeepableRows(page, ans.data),
         "flags" \in DOMAIN ans => calls[s].op = "save" /\ KeepableRows(page, ans.flags)
  PROVE  (\A t \in Slot : FormCall(page, calls[t]))'
<1>1. /\ calls'[s].op = calls[s].op /\ calls'[s].arg = calls[s].arg /\ calls'[s].ans = ans
      /\ \A t \in Slot \ {s} : calls'[t] = calls[t]
  BY AnsweredCall DEF ConsoleInv
<1>2. FormCall(page, calls[s]) /\ calls[s] # Free
  BY DEF FormInv, InFlight
<1>3. FormCall(page, calls[s])'
  BY <1>1, <1>2 DEF FormCall, Free
<1> QED BY <1>1, <1>3, FormSlot

LEMMA FormStep ==
  ASSUME ConsoleInv, FormInv, FormNext, page' = page
  PROVE  FormInv'
<1>0. page \in DOMAIN FormPage
  BY DEF FormNext
<1>1. CASE EditSetting
  <2>1. PICK k \in DOMAIN ui.form, v \in {"typed", "out of range"} :
          ui' = [ui EXCEPT !.form[k] = v]
    BY <1>1 DEF EditSetting
  <2>2. srv' = srv /\ calls' = calls
    BY <1>1 DEF EditSetting, NoCall
  <2> QED BY <1>0, <2>1, <2>2 DEF FormInv, FormCall
<1>2. CASE SaveForm
  <2>1. PICK b \in DOMAIN FormPage[page].buttons :
          /\ isValid(b)
          /\ SendShared("save", [k \in Saves(page, b) |-> ui.form[k]], b,
                        DOMAIN FormPage[page].buttons)
    BY <1>2 DEF SaveForm
  <2>2. PICK s \in Slot :
          calls' = [calls EXCEPT ![s] = Call("save", [k \in Saves(page, b) |-> ui.form[k]],
                                             DOMAIN FormPage[page].buttons)]
    BY <2>1 DEF SendShared
  <2>3. /\ calls'[s] = Call("save", [k \in Saves(page, b) |-> ui.form[k]],
                            DOMAIN FormPage[page].buttons)
        /\ \A t \in Slot \ {s} : calls'[t] = calls[t]
    BY <2>2, NewCall DEF ConsoleInv, CallsInv
  <2>4. KeepablePart(page, [k \in Saves(page, b) |-> ui.form[k]])
    <3>1. Saves(page, b) \subseteq Settings(page)
      BY DEF Settings
    <3> QED BY <1>0, <1>2, <2>1, <3>1
            DEF FormInv, SaveForm, FormShown, isValid, KeepablePart, Keepable
  <2>5. FormCall(page, calls[s])'
    <3>1. KeepablePart(page, [k \in Saves(page, b) |-> ui.form[k]])'
      BY <1>2, <2>4 DEF SaveForm
    <3>2. calls'[s].op = "save" /\ calls'[s].ans = Pending /\ KeepablePart(page, calls[s].arg)'
      BY <1>2, <2>3, <3>1, Fields DEF SaveForm
    <3> QED BY <3>2, Fields DEF FormCall
  <2>6. (\A t \in Slot : FormCall(page, calls[t]))'
    BY <1>0, <2>3, <2>5, FormSlot
  <2> QED BY <1>0, <1>2, <2>6 DEF SaveForm, FormInv
<1>3. CASE FormColleague
  <2>1. PICK k \in DOMAIN srv : Others([srv EXCEPT ![k] = "other"])
    BY <1>3 DEF FormColleague
  <2>2. srv' = [srv EXCEPT ![k] = "other"] /\ ui' = ui /\ calls' = calls
    BY <2>1 DEF Others
  <2>3. KeepableRows(page, srv')
    BY <1>0, <2>2 DEF FormInv, KeepableRows, Keepable
  <2> QED BY <1>0, <2>2, <2>3 DEF FormInv
<1>4. ASSUME NEW s \in Slot, FormLoaded(s) PROVE FormInv'
  <2>1. /\ calls'[s] = Free /\ \A t \in Slot \ {s} : calls'[t] = calls[t]
        /\ srv' = srv
    BY <1>4, EndedCall DEF FormLoaded, End, ConsoleInv
  <2>2. (\A t \in Slot : FormCall(page, calls[t]))'
    <3>1. FormCall(page, calls[s])'
      BY <2>1 DEF FormCall
    <3> QED BY <1>0, <2>1, <3>1, FormSlot
  <2>3. CASE Succeeded(s)
    <3>1. KeepableRows(page, calls[s].ans.data)
      BY <1>0, <1>4, <2>3 DEF FormLoaded, Awaits, Succeeded, FormInv, FormCall, Free
    <3>2. ui' = [form |-> [k \in DOMAIN ui.form |->
                             IF calls[s].ans.data[k] = "unset" THEN ui.form[k]
                             ELSE calls[s].ans.data[k]],
                 loaded |-> TRUE]
      BY <1>4, <2>3 DEF FormLoaded
    <3>3. /\ ui' = [form |-> ui'.form, loaded |-> ui'.loaded]
          /\ ui'.form = [k \in Settings(page) |-> ui'.form[k]]
          /\ FormPage[page].needs =>
               \A k \in Settings(page) : ui'.form[k] \notin {"default", "unset"}
      BY <1>0, <3>1, <3>2 DEF FormInv, KeepableRows, Keepable
    <3> QED BY <1>0, <2>1, <2>2, <3>3 DEF FormInv
  <2>4. CASE ~Succeeded(s)
    BY <1>0, <1>4, <2>1, <2>2, <2>4 DEF FormLoaded, FormInv
  <2> QED BY <2>3, <2>4
<1>5. ASSUME NEW s \in Slot, FormSaved(s) PROVE FormInv'
  <2>1. /\ calls'[s] = Free /\ \A t \in Slot \ {s} : calls'[t] = calls[t]
        /\ srv' = srv /\ ui' = ui
    BY <1>5, EndedCall DEF FormSaved, End, ConsoleInv
  <2>2. FormCall(page, calls[s])'
    BY <2>1 DEF FormCall
  <2>3. (\A t \in Slot : FormCall(page, calls[t]))'
    BY <1>0, <2>1, <2>2, FormSlot
  <2> QED BY <1>0, <2>1, <2>3 DEF FormInv
<1>6. ASSUME NEW s \in Slot, ReadTenant(s) PROVE FormInv'
  <2> DEFINE read == [state |-> "pending", flags |-> srv]
  <2>1. InFlight(s) /\ calls' = [calls EXCEPT ![s].ans = read] /\ srv' = srv /\ ui' = ui
    BY <1>6 DEF ReadTenant
  <2>2. calls[s].op = "save" /\ read.state # "ok" /\ KeepableRows(page, read.flags)
    BY <1>0, <1>6 DEF FormInv, ReadTenant
  <2>3. (\A t \in Slot : FormCall(page, calls[t]))'
    BY <1>0, <2>1, <2>2, FormAnswer
  <2> QED BY <1>0, <2>1, <2>3 DEF FormInv
<1>7. ASSUME NEW s \in Slot, CommitTenant(s) PROVE FormInv'
  <2>1. /\ InFlight(s) /\ "flags" \in DOMAIN calls[s].ans
        /\ srv' = Overwritten(calls[s].ans.flags, calls[s].arg) /\ ui' = ui
        /\ calls' = [calls EXCEPT ![s].ans = Ok("saved")]
    BY <1>7 DEF CommitTenant
  <2>2. FormCall(page, calls[s]) /\ calls[s] # Free
    BY <1>0, <2>1 DEF FormInv, InFlight
  <2>3. KeepableRows(page, srv')
    BY <1>0, <2>1, <2>2 DEF FormCall, Overwritten, KeepableRows, KeepablePart, Keepable
  <2>4. (\A t \in Slot : FormCall(page, calls[t]))'
    <3>1. calls[s].op = "save" /\ "flags" \notin DOMAIN Ok("saved")
      BY <2>1, <2>2, AnswerFields DEF FormCall
    <3> QED BY <1>0, <2>1, <3>1, FormAnswer
  <2> QED BY <1>0, <2>1, <2>3, <2>4 DEF FormInv
<1>8. ASSUME NEW s \in Slot, Serve(s, FormReplies(s)) PROVE FormInv'
  <2>1. PICK r \in FormReplies(s) : srv' = r.rows /\ calls' = [calls EXCEPT ![s].ans = r.ans]
    BY <1>8 DEF Serve
  <2>2. InFlight(s) /\ ui' = ui
    BY <1>8 DEF Serve
  <2>3. FormCall(page, calls[s]) /\ calls[s] # Free
    BY <1>0, <2>2 DEF FormInv, InFlight
  <2>4. CASE calls[s].op = "load"
    <3>1. srv' = srv /\ r.ans = Ok(srv)
      BY <2>1, <2>4 DEF FormReplies, Reply
    <3>2. (\A t \in Slot : FormCall(page, calls[t]))'
      <4>1. KeepableRows(page, Ok(srv).data) /\ "flags" \notin DOMAIN Ok(srv)
        BY <1>0, AnswerFields DEF FormInv
      <4> QED BY <1>0, <2>1, <2>2, <3>1, <4>1, FormAnswer
    <3> QED BY <1>0, <2>2, <3>1, <3>2 DEF FormInv
  <2>5. CASE calls[s].op = "save"
    <3>1. srv' = Overwritten(srv, calls[s].arg) /\ r.ans = Ok("saved")
      BY <2>1, <2>5 DEF FormReplies, Reply
    <3>2. KeepableRows(page, srv')
      BY <1>0, <2>3, <2>5, <3>1
         DEF FormInv, FormCall, Overwritten, KeepableRows, KeepablePart, Keepable
    <3>3. (\A t \in Slot : FormCall(page, calls[t]))'
      BY <1>0, <2>1, <2>2, <2>5, <3>1, AnswerFields, FormAnswer
    <3> QED BY <1>0, <2>2, <3>2, <3>3 DEF FormInv
  <2> QED BY <2>3, <2>4, <2>5 DEF FormCall
<1>9. ASSUME NEW s \in Slot, Lose(s) PROVE FormInv'
  <2>1. InFlight(s) /\ calls' = [calls EXCEPT ![s].ans = Failed] /\ srv' = srv /\ ui' = ui
    BY <1>9 DEF Lose
  <2>2. (\A t \in Slot : FormCall(page, calls[t]))'
    BY <1>0, <2>1, AnswerFields, FormAnswer
  <2> QED BY <1>0, <2>1, <2>2 DEF FormInv
<1> QED BY <1>1, <1>2, <1>3, <1>4, <1>5, <1>6, <1>7, <1>8, <1>9 DEF FormNext

LEMMA FormInvStep ==
  ASSUME ConsoleInv, FormInv, [ConsoleNext]_consoleVars
  PROVE  FormInv'
<1>1. CASE UNCHANGED consoleVars
  BY <1>1 DEF FormInv, consoleVars
<1>2. CASE PageNext /\ page' = page
  BY <1>2, StepsOfPage, FormStep DEF FormInv
<1>3. "elsewhere" \notin DOMAIN FormPage
  BY DEF FormPage
<1> QED BY <1>1, <1>2, <1>3, StepKinds DEF FormInv

(* However loads, edits and saves of the settings overlap and fail, no tab  *)
(* that needs an answer stores a default, and no page a period out of range. *)
THEOREM SettingsStayKept == ConsoleSpec => []SettingsKept
<1>1. ConsoleInit => FormInv
  BY FormStarts
<1>2. ConsoleInv /\ FormInv /\ [ConsoleNext]_consoleVars => FormInv'
  BY FormInvStep
<1>3. FormInv => SettingsKept
  BY DEF FormInv, SettingsKept, KeepableRows, Keepable
<1> QED BY <1>1, <1>2, <1>3, ConsoleInvariant, PTL DEF ConsoleSpec

-----------------------------------------------------------------------------
(* The key of a tenant.  A key that nobody was shown is on its way: the     *)
(* answer that carries it has arrived, and its handler has not yet run.     *)
TenantCall(c) == c = Free \/ c.op \in {"getTenant", "patch", "terminate", "rotate"}

CarriesKey(c, key) ==
  /\ c.op = "rotate" /\ c.ans.state = "ok"
  /\ "apiKey" \in DOMAIN c.ans.data /\ c.ans.data.apiKey = key

TenantInv ==
  page = "tenant" =>
    /\ {"seen", "dialog", "rotatedKey"} \subseteq DOMAIN ui
    /\ srv = [status |-> srv.status, flags |-> srv.flags, key |-> srv.key]
    /\ \A s \in Slot : TenantCall(calls[s])
    /\ smooth => \/ srv.key \in ui.seen
                 \/ \E s \in Slot : CarriesKey(calls[s], srv.key)

LEMMA TenantStarts ==
  ASSUME ConsoleInit
  PROVE  TenantInv
<1> SUFFICES ASSUME page = "tenant" PROVE TenantInv
  BY DEF TenantInv
<1>1. TenantInit
  BY InitOfPage
<1>2. PICK s0 \in Slot :
        calls = [s \in Slot |-> IF s = s0 THEN Call("getTenant", "none", {"loading"}) ELSE Free]
  BY <1>1 DEF TenantInit, Mounted
<1>3. \A s \in Slot : TenantCall(calls[s])
  BY <1>2, Fields DEF TenantCall
<1>4. {"seen", "dialog", "rotatedKey"} \subseteq DOMAIN ui /\ ui.seen = {"first key"}
  BY <1>1 DEF TenantInit
<1>5. PICK status \in TenantStatus :
        srv = [status |-> status, flags |-> "stored", key |-> "first key"]
  BY <1>1 DEF TenantInit
<1> QED BY <1>3, <1>4, <1>5 DEF TenantInv

(* A call that is made or that ends, and carried no key. *)
LEMMA TenantSlot ==
  ASSUME TenantInv, page = "tenant", page' = page, srv' = srv,
         NEW s \in Slot, \A t \in Slot \ {s} : calls'[t] = calls[t],
         TenantCall(calls'[s]), ~CarriesKey(calls[s], srv.key),
         smooth' => smooth, ui.seen \subseteq ui'.seen,
         DOMAIN ui' = DOMAIN ui
  PROVE  TenantInv'
<1>1. ASSUME NEW t \in Slot, CarriesKey(calls[t], srv.key)
      PROVE  CarriesKey(calls'[t], srv.key)
  BY <1>1
<1> QED BY <1>1 DEF TenantInv

LEMMA TenantSend ==
  ASSUME ConsoleInv, TenantInv, page = "tenant", page' = page, srv' = srv,
         NEW op \in {"patch", "terminate", "rotate"}, NEW arg, NEW flags, Send(op, arg, flags),
         ui.seen = ui'.seen, DOMAIN ui' = DOMAIN ui
  PROVE  TenantInv'
<1>1. PICK s \in Slot : /\ ~InFlight(s)
                        /\ calls'[s] = Call(op, arg, flags)
                        /\ \A t \in Slot \ {s} : calls'[t] = calls[t]
  BY SentCall DEF ConsoleInv
<1>2. smooth' => smooth
  BY SentCall DEF ConsoleInv
<1>3. TenantCall(calls'[s])
  BY <1>1, Fields DEF TenantCall
<1>4. ~CarriesKey(calls[s], srv.key)
  BY <1>1 DEF InFlight, CarriesKey, Free
<1> QED BY <1>1, <1>2, <1>3, <1>4, TenantSlot

LEMMA TenantStep ==
  ASSUME ConsoleInv, TenantInv, TenantNext, page' = page
  PROVE  TenantInv'
<1>0. page = "tenant"
  BY DEF TenantNext
<1>1. CASE ChooseStatus \/ ChooseFlags \/ OpenTenantDialog \/ CloseTenantDialog
  <2>1. srv' = srv /\ calls' = calls /\ smooth' = smooth
    BY <1>1 DEF ChooseStatus, ChooseFlags, OpenTenantDialog, CloseTenantDialog, NoCall
  <2>2. ui'.seen = ui.seen /\ DOMAIN ui' = DOMAIN ui
    BY <1>0, <1>1 DEF ChooseStatus, ChooseFlags, OpenTenantDialog, CloseTenantDialog, TenantInv
  <2> QED BY <1>0, <2>1, <2>2 DEF TenantInv
<1>2. CASE handleSave
  BY <1>0, <1>2, TenantSend DEF handleSave
<1>3. ASSUME NEW d, NEW op \in {"patch", "terminate", "rotate"}, NEW arg, NEW flags,
             ConfirmTenant(d, op, arg, flags)
      PROVE  TenantInv'
  <2>1. ui' = [ui EXCEPT !.dialog = "none"] /\ srv' = srv /\ Send(op, arg, flags)
    BY <1>3 DEF ConfirmTenant
  <2>2. ui'.seen = ui.seen /\ DOMAIN ui' = DOMAIN ui
    BY <1>0, <2>1 DEF TenantInv
  <2> QED BY <1>0, <2>1, <2>2, TenantSend
<1>4. ASSUME NEW s \in Slot, TenantPatched(s) PROVE TenantInv'
  <2>1. Awaits(s, "patch") /\ srv' = srv
    BY <1>4 DEF TenantPatched
  <2>2. ~CarriesKey(calls[s], srv.key)
    BY <2>1 DEF Awaits, CarriesKey
  <2>3. ui'.seen = ui.seen /\ DOMAIN ui' = DOMAIN ui
    BY <1>0, <1>4 DEF TenantPatched, TenantInv
  <2>4. CASE Succeeded(s)
    <3>1. /\ calls' = [calls EXCEPT ![s] = Call("getTenant", "none", {"loading"})]
          /\ smooth' = smooth
      BY <1>4, <2>4 DEF TenantPatched, EndThen
    <3>2. /\ calls'[s] = Call("getTenant", "none", {"loading"})
          /\ \A t \in Slot \ {s} : calls'[t] = calls[t]
      BY <3>1, NewCall DEF ConsoleInv, CallsInv
    <3>3. TenantCall(calls'[s])
      BY <3>2, Fields DEF TenantCall
    <3> QED BY <1>0, <2>1, <2>2, <2>3, <3>1, <3>2, <3>3, TenantSlot
  <2>5. CASE ~Succeeded(s)
    <3>1. /\ calls'[s] = Free /\ \A t \in Slot \ {s} : calls'[t] = calls[t]
          /\ smooth' = smooth
      BY <1>4, <2>5, EndedCall DEF TenantPatched, End, ConsoleInv
    <3>2. TenantCall(calls'[s])
      BY <3>1 DEF TenantCall
    <3> QED BY <1>0, <2>1, <2>2, <2>3, <3>1, <3>2, TenantSlot
  <2> QED BY <2>4, <2>5
<1>5. ASSUME NEW s \in Slot, TenantTerminated(s) \/ fetchTenant(s) PROVE TenantInv'
  <2>1. ~Leave
    BY <1>0 DEF Leave
  <2>2. (Awaits(s, "terminate") \/ Awaits(s, "getTenant")) /\ srv' = srv /\ End(s)
    BY <1>5, <2>1 DEF TenantTerminated, fetchTenant
  <2>3. ~CarriesKey(calls[s], srv.key)
    BY <2>2 DEF Awaits, CarriesKey
  <2>4. ui'.seen = ui.seen /\ DOMAIN ui' = DOMAIN ui
    BY <1>0, <1>5, <2>1 DEF TenantTerminated, fetchTenant, TenantInv
  <2>5. /\ calls'[s] = Free /\ \A t \in Slot \ {s} : calls'[t] = calls[t]
        /\ smooth' = smooth
    BY <2>2, EndedCall DEF End, ConsoleInv
  <2>6. TenantCall(calls'[s])
    BY <2>5 DEF TenantCall
  <2> QED BY <1>0, <2>2, <2>3, <2>4, <2>5, <2>6, TenantSlot
<1>6. ASSUME NEW s \in Slot, KeyRotated(s) PROVE TenantInv'
  <2>1. Awaits(s, "rotate") /\ srv' = srv
    BY <1>6 DEF KeyRotated
  <2>2. /\ calls'[s] = Free /\ \A t \in Slot \ {s} : calls'[t] = calls[t]
        /\ smooth' = smooth
    BY <1>6, EndedCall DEF KeyRotated, End, ConsoleInv
  <2>3. \A t \in Slot : TenantCall(calls'[t])
    BY <1>0, <2>2 DEF TenantCall, TenantInv
  <2>4. /\ ui.seen \subseteq ui'.seen /\ DOMAIN ui' = DOMAIN ui
        /\ Succeeded(s) => KeyOf(calls[s].ans.data, "apiKey") \in ui'.seen
    BY <1>0, <1>6 DEF KeyRotated, TenantInv
  <2>5. CarriesKey(calls[s], srv.key) => srv.key \in ui'.seen
    BY <2>4 DEF CarriesKey, Succeeded, KeyOf
  <2>6. \A t \in Slot \ {s} : CarriesKey(calls[t], srv.key) => CarriesKey(calls'[t], srv.key)
    BY <2>2
  <2>7. smooth' => srv.key \in ui'.seen \/ \E t \in Slot : CarriesKey(calls'[t], srv.key)
    BY <1>0, <2>2, <2>4, <2>5, <2>6 DEF TenantInv
  <2> QED BY <1>0, <2>1, <2>3, <2>4, <2>7 DEF TenantInv
<1>7. ASSUME NEW s \in Slot, Serve(s, TenantReplies(s)) PROVE TenantInv'
  <2>1. PICK r \in TenantReplies(s) : srv' = r.rows /\ calls' = [calls EXCEPT ![s].ans = r.ans]
    BY <1>7 DEF Serve
  <2>2. InFlight(s) /\ calls[s].ans = Pending /\ ui' = ui /\ smooth' = smooth
    BY <1>7 DEF Serve
  <2>3. /\ calls'[s].op = calls[s].op /\ calls'[s].ans = r.ans
        /\ \A t \in Slot \ {s} : calls'[t] = calls[t]
    BY <2>1, <2>2, AnsweredCall DEF ConsoleInv
  <2>4. calls[s].op \in {"getTenant", "patch", "terminate", "rotate"}
    BY <1>0, <2>2 DEF TenantInv, TenantCall, InFlight
  <2>5. \A t \in Slot : TenantCall(calls'[t])
    BY <1>0, <2>3, <2>4 DEF TenantInv, TenantCall
  <2>6. ~CarriesKey(calls[s], srv.key)
    BY <2>2 DEF CarriesKey, Pending
  <2>7. CASE calls[s].op # "rotate"
    <3>1. srv' = [status |-> srv'.status, flags |-> srv'.flags, key |-> srv.key]
      <4>1. srv = [status |-> srv.status, flags |-> srv.flags, key |-> srv.key]
        BY <1>0 DEF TenantInv
      <4>2. CASE calls[s].op = "getTenant"
        BY <2>1, <4>1, <4>2 DEF TenantReplies, Reply
      <4>3. CASE calls[s].op = "patch"
        <5>1. srv' = TenantAfter(calls[s].arg)
          BY <2>1, <4>3 DEF TenantReplies, Reply
        <5> QED BY <4>1, <5>1 DEF TenantAfter
      <4>4. CASE calls[s].op = "terminate"
        BY <2>1, <4>1, <4>4 DEF TenantReplies, Reply
      <4> QED BY <2>4, <2>7, <4>2, <4>3, <4>4
    <3>2. \A t \in Slot : CarriesKey(calls[t], srv.key) => CarriesKey(calls'[t], srv'.key)
      BY <2>3, <2>6, <3>1
    <3> QED BY <1>0, <2>2, <2>5, <3>1, <3>2 DEF TenantInv
  <2>8. CASE calls[s].op = "rotate"
    <3>1. PICK key \in Key \ {srv.key} :
            r = Reply([srv EXCEPT !.key = key], Ok([apiKey |-> key]))
      BY <2>1, <2>8 DEF TenantReplies
    <3>2. srv' = [srv EXCEPT !.key = key] /\ calls'[s].ans = Ok([apiKey |-> key])
      BY <2>1, <2>3, <3>1 DEF Reply
    <3>3. srv' = [status |-> srv'.status, flags |-> srv'.flags, key |-> srv'.key] /\ srv'.key = key
      BY <1>0, <3>2 DEF TenantInv
    <3>4. CarriesKey(calls'[s], srv'.key)
      BY <2>3, <2>8, <3>2, <3>3, AnswerFields DEF CarriesKey
    <3> QED BY <1>0, <2>2, <2>5, <3>3, <3>4 DEF TenantInv
  <2> QED BY <2>7, <2>8
<1>8. ASSUME NEW s \in Slot, Lose(s) PROVE TenantInv'
  <2>1. /\ InFlight(s) /\ calls' = [calls EXCEPT ![s].ans = Failed]
        /\ srv' = srv /\ ui' = ui /\ smooth' = FALSE
    BY <1>8 DEF Lose
  <2>2. calls'[s].op = calls[s].op /\ \A t \in Slot \ {s} : calls'[t] = calls[t]
    BY <2>1, AnsweredCall DEF ConsoleInv
  <2>3. \A t \in Slot : TenantCall(calls'[t])
    BY <1>0, <2>1, <2>2 DEF TenantInv, TenantCall, InFlight
  <2> QED BY <1>0, <2>1, <2>3 DEF TenantInv
<1> QED BY <1>1, <1>2, <1>3, <1>4, <1>5, <1>6, <1>7, <1>8
        DEF TenantNext, handleSuspend, handleTerminate, handleRotateKey

(* As long as no call was lost or overlapped another, the key that a      *)
(* tenant has once nothing is under way was shown to the administrator    *)
(* who rotated it.                                                        *)
THEOREM RotatedKeyStaysKnown == ConsoleSpec => []RotatedKeyIsShown
<1>1. ConsoleInit => TenantInv
  BY TenantStarts
<1>2. ConsoleInv /\ TenantInv /\ [ConsoleNext]_consoleVars => TenantInv'
  <2> SUFFICES ASSUME ConsoleInv, TenantInv, [ConsoleNext]_consoleVars PROVE TenantInv'
    OBVIOUS
  <2>1. CASE UNCHANGED consoleVars
    BY <2>1 DEF TenantInv, consoleVars
  <2>2. CASE PageNext /\ page' = page
    BY <2>2, StepsOfPage, TenantStep DEF TenantInv
  <2> QED BY <2>1, <2>2, StepKinds DEF TenantInv
<1>3. TenantInv => RotatedKeyIsShown
  BY DEF TenantInv, RotatedKeyIsShown, Quiet, InFlight, CarriesKey, Free
<1> QED BY <1>1, <1>2, <1>3, ConsoleInvariant, PTL DEF ConsoleSpec

-----------------------------------------------------------------------------
(* Applications.  While all goes smoothly, what is offered for a review is  *)
(* pending until the call of the review is served: a table that is older    *)
(* than the last review is only there while that call, or the load that     *)
(* follows it, is under way.                                                *)
LEMMA AloneIsFree ==
  ASSUME ConsoleInv, smooth, NEW s \in Slot, InFlight(s), NEW t \in Slot \ {s}
  PROVE  calls[t] = Free
BY DEF ConsoleInv, CallsInv, Alone, InFlight

Undecided(a, status) == a \in Application /\ status[a] = "pending"
UndecidedRows(rows, status) ==
  \A a \in DOMAIN rows : rows[a] = "pending" => Undecided(a, status)

ApplicationsCall(c) == c = Free \/ c.op \in {"list", "review"}

ReviewsFit ==
  /\ Quiet => /\ UndecidedRows(ui.rows, srv.status)
              /\ ui.review # "none" => Undecided(ui.review, srv.status)
  /\ \A s \in Slot : calls[s].op = "list" =>
       /\ "loading" \in busy /\ ui.review = "none"
       /\ calls[s].ans.state = "ok" => UndecidedRows(calls[s].ans.data, srv.status)
  /\ \A s \in Slot : calls[s].op = "review" =>
       /\ calls[s].ans = Pending \/ calls[s].ans.state = "ok"
       /\ calls[s].ans = Pending => Undecided(calls[s].arg.app, srv.status)

ApplicationsInv ==
  page = "applications" =>
    /\ {"rows", "error", "review", "action", "createTenant"} \subseteq DOMAIN ui
    /\ srv = [status |-> srv.status, tenants |-> srv.tenants]
    /\ srv.status = [a \in Application |-> srv.status[a]]
    /\ \A s \in Slot : ApplicationsCall(calls[s])
    /\ smooth => ReviewsFit

LEMMA ApplicationsStarts ==
  ASSUME ConsoleInit
  PROVE  ApplicationsInv
<1> SUFFICES ASSUME page = "applications" PROVE ApplicationsInv
  BY DEF ApplicationsInv
<1>1. ApplicationsInit
  BY InitOfPage
<1>2. PICK s0 \in Slot :
        /\ calls = [s \in Slot |-> IF s = s0 THEN Call("list", "none", {"loading"}) ELSE Free]
        /\ busy = {"loading"}
  BY <1>1 DEF ApplicationsInit, Mounted
<1>3. /\ calls[s0].op = "list" /\ calls[s0].ans = Pending /\ calls[s0] # Free
      /\ \A s \in Slot \ {s0} : calls[s] = Free /\ calls[s].op = "free"
  BY <1>2, Fields DEF Free
<1>4. /\ {"rows", "error", "review", "action", "createTenant"} \subseteq DOMAIN ui
      /\ ui.review = "none"
  BY <1>1 DEF ApplicationsInit
<1>5. PICK rest \in {"pending", "approved", "rejected"} :
        srv = [status |-> [a \in Application |-> IF a = "one application" THEN "pending" ELSE rest],
               tenants |-> {}]
  BY <1>1 DEF ApplicationsInit
<1>6. ReviewsFit
  BY <1>2, <1>3, <1>4, Fields DEF ReviewsFit, Quiet, InFlight
<1> QED BY <1>3, <1>4, <1>5, <1>6 DEF ApplicationsInv, ApplicationsCall

(* A call that is made while nothing is under way. *)
LEMMA ApplicationsSend ==
  ASSUME ConsoleInv, ApplicationsInv, page = "applications", page' = page, srv' = srv,
         NEW op \in {"list", "review"}, NEW arg, NEW flags, Send(op, arg, flags),
         DOMAIN ui' = DOMAIN ui,
         op = "list" => ui'.review = "none" /\ "loading" \in flags,
         op = "review" /\ smooth /\ Quiet => Undecided(arg.app, srv.status)
  PROVE  ApplicationsInv'
<1>1. PICK s \in Slot : /\ ~InFlight(s)
                        /\ calls'[s] = Call(op, arg, flags)
                        /\ \A t \in Slot \ {s} : calls'[t] = calls[t]
  BY SentCall DEF ConsoleInv
<1>2. (smooth' => smooth /\ Quiet) /\ busy' = busy \cup flags
  BY SentCall DEF ConsoleInv
<1>3. /\ calls'[s].op = op /\ calls'[s].arg = arg /\ calls'[s].ans = Pending
      /\ calls'[s] # Free /\ Pending.state = "pending"
  BY <1>1, Fields
<1>4. \A t \in Slot : ApplicationsCall(calls'[t])
  BY <1>1, <1>3 DEF ApplicationsInv, ApplicationsCall
<1>5. ASSUME smooth' PROVE ReviewsFit'
  <2>1. \A t \in Slot \ {s} : calls'[t].op = "free"
    BY <1>1, <1>2, <1>5 DEF Quiet, InFlight, Free
  <2>2. ~Quiet'
    BY <1>3 DEF Quiet, InFlight
  <2> QED BY <1>2, <1>3, <1>5, <2>1, <2>2 DEF ReviewsFit
<1> QED BY <1>4, <1>5 DEF ApplicationsInv

(* A call that is answered while it is alone. *)
LEMMA ApplicationsAnswer ==
  ASSUME ConsoleInv, ApplicationsInv, page = "applications", page' = page, ui' = ui, busy' = busy,
         NEW s \in Slot, InFlight(s), NEW ans, calls' = [calls EXCEPT ![s].ans = ans],
         srv' = [status |-> srv'.status, tenants |-> srv'.tenants],
         srv'.status = [a \in Application |-> srv'.status[a]],
         smooth' => /\ smooth /\ ans.state = "ok" /\ ans # Pending
                    /\ calls[s].op = "list" => UndecidedRows(ans.data, srv'.status)
  PROVE  ApplicationsInv'
<1>1. /\ calls'[s].op = calls[s].op /\ calls'[s].ans = ans
      /\ \A t \in Slot \ {s} : calls'[t] = calls[t]
  BY AnsweredCall DEF ConsoleInv
<1>2. \A t \in Slot : ApplicationsCall(calls'[t])
  BY <1>1 DEF ApplicationsInv, ApplicationsCall, InFlight
<1>3. ASSUME smooth' PROVE ReviewsFit'
  <2>1. \A t \in Slot \ {s} : calls'[t].op = "free"
    BY <1>1, <1>3, AloneIsFree DEF Free
  <2>2. calls'[s].op \in {"list", "review"}
    BY <1>1 DEF ApplicationsInv, ApplicationsCall, InFlight
  <2>3. ~Quiet'
    BY <2>2 DEF Quiet, InFlight, Free
  <2>4. calls[s].op = "list" => "loading" \in busy /\ ui.review = "none"
    BY <1>3 DEF ApplicationsInv, ReviewsFit
  <2> QED BY <1>1, <1>3, <2>1, <2>2, <2>3, <2>4 DEF ReviewsFit
<1> QED BY <1>2, <1>3 DEF ApplicationsInv

LEMMA ApplicationsStep ==
  ASSUME ConsoleInv, ApplicationsInv, ApplicationsNext, page' = page
  PROVE  ApplicationsInv' /\ ApplicationDecidedOnce
<1>0. page = "applications"
  BY DEF ApplicationsNext
<1> USE <1>0
<1>a. srv' = srv \/ ~smooth' => ApplicationDecidedOnce
  BY DEF ApplicationDecidedOnce
<1>1. CASE openReviewDialog
  <2>1. srv' = srv /\ calls' = calls /\ smooth' = smooth /\ busy' = busy
    BY <1>1 DEF openReviewDialog, NoCall
  <2>2. PICK a \in DOMAIN ui.rows, action \in {"approve", "reject"} :
          /\ ui.rows[a] = "pending" /\ "loading" \notin busy
          /\ ui' = [ui EXCEPT !.review = a, !.action = action, !.createTenant = (action = "approve")]
    BY <1>1 DEF openReviewDialog, ApplicationsShown
  <2>3. DOMAIN ui' = DOMAIN ui /\ ui'.review = a /\ ui'.rows = ui.rows
    BY <2>2 DEF ApplicationsInv
  <2>4. ASSUME smooth' PROVE ReviewsFit'
    BY <2>1, <2>2, <2>3, <2>4 DEF ApplicationsInv, ReviewsFit, UndecidedRows, Quiet, InFlight
  <2> QED BY <1>a, <2>1, <2>3, <2>4 DEF ApplicationsInv
<1>2. CASE ToggleCreateTenant
  <2>1. srv' = srv /\ calls' = calls /\ smooth' = smooth /\ busy' = busy
    BY <1>2 DEF ToggleCreateTenant, NoCall
  <2>2. DOMAIN ui' = DOMAIN ui /\ ui'.review = ui.review /\ ui'.rows = ui.rows
    BY <1>2 DEF ToggleCreateTenant, ApplicationsInv
  <2>3. ASSUME smooth' PROVE ReviewsFit'
    BY <2>1, <2>2, <2>3 DEF ApplicationsInv, ReviewsFit, Quiet, InFlight
  <2> QED BY <1>a, <2>1, <2>2, <2>3 DEF ApplicationsInv
<1>3. CASE closeReviewDialog
  <2>1. srv' = srv /\ calls' = calls /\ smooth' = smooth /\ busy' = busy \ {"submitting"}
    BY <1>3 DEF closeReviewDialog
  <2>2. DOMAIN ui' = DOMAIN ui /\ ui'.review = "none" /\ ui'.rows = ui.rows
    BY <1>3 DEF closeReviewDialog, Closed, ApplicationsInv
  <2>3. ASSUME smooth' PROVE ReviewsFit'
    BY <2>1, <2>2, <2>3 DEF ApplicationsInv, ReviewsFit, Quiet, InFlight
  <2> QED BY <1>a, <2>1, <2>2, <2>3 DEF ApplicationsInv
<1>4. CASE handleReviewSubmit
  <2> DEFINE body == [app |-> ui.review, action |-> ui.action,
                      create_tenant |-> ui.action = "approve" /\ ui.createTenant]
  <2>1. ui.review # "none" /\ ui' = ui /\ srv' = srv /\ Send("review", body, {"submitting"})
    BY <1>4 DEF handleReviewSubmit
  <2>2. smooth /\ Quiet => Undecided(body.app, srv.status)
    BY <2>1 DEF ApplicationsInv, ReviewsFit
  <2> HIDE DEF body
  <2>3. ApplicationsInv'
    BY <2>1, <2>2, ApplicationsSend
  <2> QED BY <1>a, <2>1, <2>3
<1>5. CASE RefreshApplications
  <2>1. /\ ui.review = "none" /\ ui' = [ui EXCEPT !.error = FALSE] /\ srv' = srv
        /\ Send("list", "none", {"loading"})
    BY <1>5 DEF RefreshApplications
  <2>2. DOMAIN ui' = DOMAIN ui /\ ui'.review = "none"
    BY <2>1 DEF ApplicationsInv
  <2>3. ApplicationsInv'
    BY <2>1, <2>2, ApplicationsSend
  <2> QED BY <1>a, <2>1, <2>3
<1>6. CASE ApplicationsColleague
  <2>1. PICK body : Others(update_application(body))
    BY <1>6 DEF ApplicationsColleague
  <2>2. srv' = update_application(body) /\ ui' = ui /\ calls' = calls /\ smooth' = FALSE
    BY <2>1 DEF Others
  <2>3. /\ srv' = [status |-> srv'.status, tenants |-> srv'.tenants]
        /\ srv'.status = [a \in Application |-> srv'.status[a]]
    BY <2>2 DEF update_application, ApplicationsInv
  <2> QED BY <1>a, <2>2, <2>3 DEF ApplicationsInv
<1>7. ASSUME NEW s \in Slot, Reviewed(s) PROVE ApplicationsInv' /\ ApplicationDecidedOnce
  <2>1. Awaits(s, "review") /\ InFlight(s) /\ srv' = srv
    BY <1>7, AwaitsIsInFlight DEF Reviewed
  <2>2. CASE Succeeded(s)
    <3>1. /\ calls' = [calls EXCEPT ![s] = Call("list", "none", {"loading"})]
          /\ busy' = (busy \ calls[s].flags) \cup {"loading"} /\ smooth' = smooth
          /\ ui' = [Closed(ui) EXCEPT !.error = FALSE]
      BY <1>7, <2>2 DEF Reviewed, EndThen
    <3>2. DOMAIN ui' = DOMAIN ui /\ ui'.review = "none"
      BY <3>1 DEF Closed, ApplicationsInv
    <3>3. /\ calls'[s] = Call("list", "none", {"loading"})
          /\ \A t \in Slot \ {s} : calls'[t] = calls[t]
      BY <3>1, NewCall DEF ConsoleInv, CallsInv
    <3>4. /\ calls'[s].op = "list" /\ calls'[s].ans = Pending /\ Pending.state = "pending"
          /\ calls'[s] # Free
      BY <3>3, Fields
    <3>5. \A t \in Slot : ApplicationsCall(calls'[t])
      BY <3>3, <3>4 DEF ApplicationsInv, ApplicationsCall
    <3>6. ASSUME smooth' PROVE ReviewsFit'
      <4>1. \A t \in Slot \ {s} : calls'[t].op = "free"
        BY <2>1, <3>1, <3>3, <3>6, AloneIsFree DEF Free
      <4>2. ~Quiet'
        BY <3>4 DEF Quiet, InFlight
      <4> QED BY <3>1, <3>2, <3>4, <4>1, <4>2 DEF ReviewsFit
    <3> QED BY <1>a, <2>1, <3>2, <3>5, <3>6 DEF ApplicationsInv
  <2>3. CASE ~Succeeded(s)
    <3>1. ~smooth
      BY <2>1, <2>3 DEF ApplicationsInv, ReviewsFit, Awaits, Succeeded, Pending
    <3>2. /\ calls'[s] = Free /\ \A t \in Slot \ {s} : calls'[t] = calls[t]
          /\ smooth' = smooth /\ ui' = ui
      BY <1>7, <2>3, EndedCall DEF Reviewed, End, ConsoleInv
    <3> QED BY <1>a, <2>1, <3>1, <3>2 DEF ApplicationsInv, ApplicationsCall
  <2> QED BY <2>2, <2>3
<1>8. ASSUME NEW s \in Slot, fetchApplications(s)
      PROVE ApplicationsInv' /\ ApplicationDecidedOnce
  <2>1. Awaits(s, "list") /\ InFlight(s) /\ srv' = srv
    BY <1>8, AwaitsIsInFlight DEF fetchApplications
  <2>2. /\ calls'[s] = Free /\ \A t \in Slot \ {s} : calls'[t] = calls[t]
        /\ smooth' = smooth
    BY <1>8, EndedCall DEF fetchApplications, End, ConsoleInv
  <2>3. /\ DOMAIN ui' = DOMAIN ui /\ ui'.review = ui.review
        /\ ui'.rows = IF Succeeded(s) THEN calls[s].ans.data ELSE <<>>
    BY <1>8 DEF fetchApplications, ApplicationsInv
  <2>4. ASSUME smooth' PROVE ReviewsFit'
    <3>1. \A t \in Slot : calls'[t] = Free /\ calls'[t].op = "free"
      BY <2>1, <2>2, <2>4, AloneIsFree DEF Free
    <3>2. ui.review = "none" /\ (Succeeded(s) => UndecidedRows(calls[s].ans.data, srv.status))
      BY <2>1, <2>2, <2>4 DEF ApplicationsInv, ReviewsFit, Awaits, Succeeded
    <3>3. UndecidedRows(<<>>, srv.status)
      BY DEF UndecidedRows
    <3> QED BY <2>1, <2>3, <3>1, <3>2, <3>3 DEF ReviewsFit
  <2> QED BY <1>a, <2>1, <2>2, <2>3, <2>4 DEF ApplicationsInv, ApplicationsCall
<1>9. ASSUME NEW s \in Slot, Serve(s, ApplicationsReplies(s))
      PROVE ApplicationsInv' /\ ApplicationDecidedOnce
  <2>1. PICK r \in ApplicationsReplies(s) :
          srv' = r.rows /\ calls' = [calls EXCEPT ![s].ans = r.ans]
    BY <1>9 DEF Serve
  <2>2. /\ InFlight(s) /\ calls[s].ans = Pending /\ ui' = ui /\ busy' = busy /\ smooth' = smooth
    BY <1>9 DEF Serve
  <2>3. calls[s].op \in {"list", "review"}
    BY <2>2 DEF ApplicationsInv, ApplicationsCall, InFlight
  <2>4. CASE calls[s].op = "list"
    <3>1. srv' = srv /\ r.ans = Ok(srv.status)
      BY <2>1, <2>4 DEF ApplicationsReplies, Reply
    <3>2. UndecidedRows(srv.status, srv'.status)
      BY <3>1 DEF UndecidedRows, Undecided, ApplicationsInv
    <3>3. Ok(srv.status).state = "ok" /\ Ok(srv.status).data = srv.status /\ Ok(srv.status) # Pending
      BY AnswerFields, Fields
    <3>4. ApplicationsInv'
      BY <2>1, <2>2, <3>1, <3>2, <3>3, ApplicationsAnswer DEF ApplicationsInv
    <3> QED BY <1>a, <3>1, <3>4
  <2>5. CASE calls[s].op = "review"
    <3>1. srv' = update_application(calls[s].arg) /\ r.ans = Ok("application")
      BY <2>1, <2>5 DEF ApplicationsReplies, Reply
    <3>2. /\ srv' = [status |-> srv'.status, tenants |-> srv'.tenants]
          /\ srv'.status = [a \in Application |-> srv'.status[a]]
          /\ \A a \in Application : a # calls[s].arg.app => srv'.status[a] = srv.status[a]
      BY <3>1 DEF update_application, ApplicationsInv
    <3>3. Ok("application").state = "ok" /\ Ok("application") # Pending
      BY AnswerFields, Fields
    <3>4. ApplicationsInv'
      BY <2>1, <2>2, <2>5, <3>1, <3>2, <3>3, ApplicationsAnswer
    <3>5. ApplicationDecidedOnce
      BY <2>2, <2>5, <3>2 DEF ApplicationDecidedOnce, ApplicationsInv, ReviewsFit, Undecided
    <3> QED BY <3>4, <3>5
  <2> QED BY <2>3, <2>4, <2>5
<1>10. ASSUME NEW s \in Slot, Lose(s) PROVE ApplicationsInv' /\ ApplicationDecidedOnce
  <2>1. /\ InFlight(s) /\ calls' = [calls EXCEPT ![s].ans = Failed]
        /\ srv' = srv /\ ui' = ui /\ busy' = busy /\ smooth' = FALSE
    BY <1>10 DEF Lose
  <2>2. ApplicationsInv'
    BY <2>1, ApplicationsAnswer DEF ApplicationsInv
  <2> QED BY <1>a, <2>1, <2>2
<1> QED BY <1>1, <1>2, <1>3, <1>4, <1>5, <1>6, <1>7, <1>8, <1>9, <1>10 DEF ApplicationsNext

-----------------------------------------------------------------------------
(* Incidents.  While all goes smoothly, a dialog that is open and a call    *)
(* that is not yet served fit the status of the incident; what is shown is  *)
(* old only until the load that follows a call has arrived.                 *)
DialogFits(d, status) ==
  \/ d \in {"none", "edit"}
  \/ d = "report" /\ status \in {"authority_notified", "investigating"}
  \/ d = "resolve" /\ status = "report_submitted"

CallFits(op, status) ==
  /\ op = "notify" => status = "detected"
  /\ op = "report" => status \in {"authority_notified", "investigating"}
  /\ op = "resolve" => status = "report_submitted"

IncidentOp == {"notify", "report", "resolve", "edit"}
IncidentCall(c) == c = Free \/ c.op \in IncidentOp \cup {"getIncident"}

IncidentFits ==
  /\ Quiet => DialogFits(ui.dialog, srv.status) /\ ui.incident.status = srv.status
  /\ \A s \in Slot : calls[s].op = "getIncident" =>
       /\ "loading" \in busy /\ DialogFits(ui.dialog, srv.status)
       /\ calls[s].ans = Pending \/ calls[s].ans.state = "ok"
       /\ calls[s].ans.state = "ok" => calls[s].ans.data.status = srv.status
  /\ \A s \in Slot : calls[s].op \in IncidentOp =>
       /\ calls[s].ans = Pending \/ calls[s].ans.state = "ok"
       /\ DialogFits(ui.dialog, ui.incident.status)
       /\ CallFits(calls[s].op, ui.incident.status)
       /\ calls[s].ans = Pending \/ calls[s].op = "edit" => ui.incident.status = srv.status

IncidentInv ==
  page = "incident" =>
    /\ {"incident", "error", "dialog", "containment"} \subseteq DOMAIN ui
    /\ srv = [status |-> srv.status, containment |-> srv.containment,
              notified |-> srv.notified, reported |-> srv.reported]
    /\ srv.status \in IncidentStatus
    /\ \A s \in Slot : IncidentCall(calls[s])
    /\ smooth => IncidentFits

LEMMA IncidentStarts ==
  ASSUME ConsoleInit
  PROVE  IncidentInv
<1> SUFFICES ASSUME page = "incident" PROVE IncidentInv
  BY DEF IncidentInv
<1>1. IncidentInit
  BY InitOfPage
<1>2. PICK s0 \in Slot :
        /\ calls = [s \in Slot |-> IF s = s0 THEN Call("getIncident", "none", {"loading"}) ELSE Free]
        /\ busy = {"loading"}
  BY <1>1 DEF IncidentInit, Mounted
<1>3. /\ calls[s0].op = "getIncident" /\ calls[s0].ans = Pending /\ calls[s0] # Free
      /\ \A s \in Slot \ {s0} : calls[s] = Free /\ calls[s].op = "free"
  BY <1>2, Fields DEF Free
<1>4. /\ {"incident", "error", "dialog", "containment"} \subseteq DOMAIN ui
      /\ ui.dialog = "none"
  BY <1>1 DEF IncidentInit
<1>5. PICK status \in IncidentStatus, text \in {"null", "steps"} :
        srv = [status |-> status, containment |-> text,
               notified |-> IF status = "detected" THEN "null" ELSE "time",
               reported |-> IF STATUS_STEPS[status] < 3 THEN "null" ELSE "time"]
  BY <1>1 DEF IncidentInit
<1>6. IncidentFits
  BY <1>2, <1>3, <1>4, Fields DEF IncidentFits, IncidentOp, DialogFits, Quiet, InFlight
<1> QED BY <1>3, <1>4, <1>5, <1>6 DEF IncidentInv, IncidentCall

LEMMA IncidentPress ==
  ASSUME ConsoleInv, IncidentInv, page = "incident", page' = page,
         NEW op \in IncidentOp, NEW arg, NEW flag, Press(op, arg, flag),
         smooth /\ Quiet => CallFits(op, ui.incident.status)
  PROVE  IncidentInv' /\ srv' = srv
<1>1. Send(op, arg, {flag}) /\ srv' = srv /\ ui' = ui
  BY DEF Press
<1>2. PICK s \in Slot : /\ ~InFlight(s)
                        /\ calls'[s] = Call(op, arg, {flag})
                        /\ \A t \in Slot \ {s} : calls'[t] = calls[t]
  BY <1>1, SentCall DEF ConsoleInv
<1>3. smooth' => smooth /\ Quiet
  BY <1>1, SentCall DEF ConsoleInv
<1>4. calls'[s].op = op /\ calls'[s].ans = Pending /\ calls'[s] # Free
  BY <1>2, Fields
<1>5. \A t \in Slot : IncidentCall(calls'[t])
  BY <1>2, <1>4 DEF IncidentInv, IncidentCall
<1>6. ASSUME smooth' PROVE IncidentFits'
  <2>1. \A t \in Slot \ {s} : calls'[t].op = "free"
    BY <1>2, <1>3, <1>6 DEF Quiet, InFlight, Free
  <2>2. ~Quiet'
    BY <1>4 DEF Quiet, InFlight
  <2>3. DialogFits(ui.dialog, ui.incident.status) /\ ui.incident.status = srv.status
    BY <1>3, <1>6 DEF IncidentInv, IncidentFits
  <2> QED BY <1>1, <1>3, <1>4, <1>6, <2>1, <2>2, <2>3 DEF IncidentFits, IncidentOp
<1> QED BY <1>1, <1>5, <1>6 DEF IncidentInv

(* What a call does to the status, if it fits. *)
LEMMA IncidentServed ==
  ASSUME NEW s \in Slot, NEW r \in IncidentReplies(s),
         srv = [status |-> srv.status, containment |-> srv.containment,
                notified |-> srv.notified, reported |-> srv.reported],
         srv.status \in IncidentStatus, calls[s].op \in IncidentOp \cup {"getIncident"}
  PROVE  /\ r.ans = Ok(IncidentResponse(r.rows))
         /\ r.rows = [status |-> r.rows.status, containment |-> r.rows.containment,
                      notified |-> r.rows.notified, reported |-> r.rows.reported]
         /\ r.rows.status \in IncidentStatus
         /\ calls[s].op \in {"getIncident", "edit"} => r.rows.status = srv.status
         /\ CallFits(calls[s].op, srv.status) =>
              STATUS_STEPS[r.rows.status] >= STATUS_STEPS[srv.status]
<1> USE DEF IncidentReplies, Reply, IncidentStatus
<1>1. CASE calls[s].op = "getIncident"
  BY <1>1 DEF STATUS_STEPS
<1>2. CASE calls[s].op = "edit"
  BY <1>2 DEF STATUS_STEPS, update_incident
<1>3. CASE calls[s].op = "notify"
  <2>1. /\ r.rows = mark_authority_notified
        /\ r.ans = Ok(IncidentResponse(r.rows))
    BY <1>3
  <2>2. /\ r.rows = [status |-> r.rows.status, containment |-> r.rows.containment,
                     notified |-> r.rows.notified, reported |-> r.rows.reported]
        /\ r.rows.status = "authority_notified"
    BY <2>1 DEF mark_authority_notified
  <2>3. CallFits("notify", srv.status) => STATUS_STEPS["authority_notified"] >= STATUS_STEPS[srv.status]
    BY DEF CallFits, STATUS_STEPS
  <2> QED BY <1>3, <2>1, <2>2, <2>3
<1>4. CASE calls[s].op = "report"
  <2>1. /\ r.rows = submit_detailed_report
        /\ r.ans = Ok(IncidentResponse(r.rows))
    BY <1>4
  <2>2. /\ r.rows = [status |-> r.rows.status, containment |-> r.rows.containment,
                     notified |-> r.rows.notified, reported |-> r.rows.reported]
        /\ r.rows.status = "report_submitted"
    BY <2>1 DEF submit_detailed_report
  <2>3. CallFits("report", srv.status) => STATUS_STEPS["report_submitted"] >= STATUS_STEPS[srv.status]
    BY DEF CallFits, STATUS_STEPS
  <2> QED BY <1>4, <2>1, <2>2, <2>3
<1>5. CASE calls[s].op = "resolve"
  BY <1>5 DEF STATUS_STEPS, resolve_incident, CallFits
<1> QED BY <1>1, <1>2, <1>3, <1>4, <1>5 DEF IncidentOp

LEMMA IncidentStep ==
  ASSUME ConsoleInv, IncidentInv, IncidentNext, page' = page
  PROVE  IncidentInv' /\ IncidentMovesForward
<1>0. page = "incident"
  BY DEF IncidentNext
<1> USE <1>0
<1>a. IncidentInv' /\ (srv' = srv \/ ~smooth') => IncidentMovesForward
  BY DEF IncidentMovesForward, IncidentInv, STATUS_STEPS, IncidentStatus
<1>1. CASE OpenDialog
  <2>1. srv' = srv /\ calls' = calls /\ smooth' = smooth /\ busy' = busy
    BY <1>1 DEF OpenDialog, NoCall
  <2>2. PICK d \in IncidentControls \ {"notify"} :
          "loading" \notin busy /\ ui' = [ui EXCEPT !.dialog = d]
    BY <1>1 DEF OpenDialog, IncidentRendered
  <2>3. /\ DOMAIN ui' = DOMAIN ui /\ ui'.dialog = d /\ ui'.incident = ui.incident
        /\ DialogFits(d, ui.incident.status)
    BY <2>2 DEF IncidentInv, IncidentControls, DialogFits
  <2>4. ASSUME smooth' PROVE IncidentFits'
    BY <2>1, <2>2, <2>3, <2>4 DEF IncidentInv, IncidentFits, Quiet, InFlight
  <2> QED BY <1>a, <2>1, <2>3, <2>4 DEF IncidentInv
<1>2. CASE CloseDialog \/ TypeContainment
  <2>1. srv' = srv /\ calls' = calls /\ smooth' = smooth /\ busy' = busy
    BY <1>2 DEF CloseDialog, TypeContainment, NoCall
  <2>2. /\ DOMAIN ui' = DOMAIN ui /\ ui'.dialog \in {"none", ui.dialog}
        /\ ui'.incident = ui.incident
    BY <1>2 DEF CloseDialog, TypeContainment, IncidentInv
  <2>3. ASSUME smooth' PROVE IncidentFits'
    BY <2>1, <2>2, <2>3 DEF IncidentInv, IncidentFits, DialogFits, Quiet, InFlight
  <2> QED BY <1>a, <2>1, <2>2, <2>3 DEF IncidentInv
<1>3. CASE handleNotifyAuthority \/ handleSubmitReport \/ handleResolve \/ handleEdit
  <2>1. CASE handleNotifyAuthority
    <3>1. CallFits("notify", ui.incident.status) /\ Press("notify", "none", "notifying")
      BY <2>1 DEF handleNotifyAuthority, IncidentControls, CallFits
    <3> QED BY <1>a, <3>1, IncidentPress DEF IncidentOp
  <2>2. CASE handleSubmitReport
    <3>1. Press("report", "none", "submittingReport") /\ ui.dialog = "report"
      BY <2>2 DEF handleSubmitReport
    <3>2. smooth /\ Quiet => CallFits("report", ui.incident.status)
      BY <3>1 DEF IncidentInv, IncidentFits, DialogFits, CallFits
    <3> QED BY <1>a, <3>1, <3>2, IncidentPress DEF IncidentOp
  <2>3. CASE handleResolve
    <3>1. Press("resolve", "none", "resolving") /\ ui.dialog = "resolve"
      BY <2>3 DEF handleResolve
    <3>2. smooth /\ Quiet => CallFits("resolve", ui.incident.status)
      BY <3>1 DEF IncidentInv, IncidentFits, DialogFits, CallFits
    <3> QED BY <1>a, <3>1, <3>2, IncidentPress DEF IncidentOp
  <2>4. CASE handleEdit
    <3>1. Press("edit", ui.containment, "saving") /\ CallFits("edit", ui.incident.status)
      BY <2>4 DEF handleEdit, CallFits
    <3> QED BY <1>a, <3>1, IncidentPress DEF IncidentOp
  <2> QED BY <1>3, <2>1, <2>2, <2>3, <2>4
<1>4. CASE IncidentColleague
  <2>1. /\ srv' \in {mark_authority_notified, submit_detailed_report, resolve_incident}
        /\ ui' = ui /\ calls' = calls /\ smooth' = FALSE
    BY <1>4 DEF IncidentColleague, Others
  <2>2. /\ srv' = [status |-> srv'.status, containment |-> srv'.containment,
                   notified |-> srv'.notified, reported |-> srv'.reported]
        /\ srv'.status \in IncidentStatus
    BY <2>1 DEF IncidentInv, mark_authority_notified, submit_detailed_report, resolve_incident,
                IncidentStatus
  <2> QED BY <1>a, <2>1, <2>2 DEF IncidentInv
<1>5. ASSUME NEW s \in Slot, IncidentChanged(s) PROVE IncidentInv' /\ IncidentMovesForward
  <2>1. calls[s].op \in IncidentOp /\ Awaits(s, calls[s].op) /\ srv' = srv
    BY <1>5 DEF IncidentChanged, IncidentOp
  <2>2. InFlight(s)
    BY <2>1 DEF IncidentOp, InFlight, Free
  <2>3. CASE Succeeded(s)
    <3>1. /\ calls' = [calls EXCEPT ![s] = Call("getIncident", "none", calls[s].flags \cup {"loading"})]
          /\ busy' = busy \cup {"loading"} /\ smooth' = smooth
          /\ ui' = [ui EXCEPT !.dialog = IF @ = calls[s].op THEN "none" ELSE @, !.error = FALSE]
      BY <1>5, <2>3 DEF IncidentChanged, Chain
    <3>2. /\ calls'[s] = Call("getIncident", "none", calls[s].flags \cup {"loading"})
          /\ \A t \in Slot \ {s} : calls'[t] = calls[t]
      BY <3>1, NewCall DEF ConsoleInv, CallsInv
    <3>3. /\ calls'[s].op = "getIncident" /\ calls'[s].ans = Pending
          /\ Pending.state = "pending" /\ calls'[s] # Free
      BY <3>2, Fields
    <3>4. DOMAIN ui' = DOMAIN ui /\ ui'.dialog = IF ui.dialog = calls[s].op THEN "none" ELSE ui.dialog
      BY <3>1 DEF IncidentInv
    <3>5. \A t \in Slot : IncidentCall(calls'[t])
      BY <3>2, <3>3 DEF IncidentInv, IncidentCall
    <3>6. ASSUME smooth' PROVE IncidentFits'
      <4>1. \A t \in Slot \ {s} : calls'[t].op = "free"
        BY <2>2, <3>1, <3>2, <3>6, AloneIsFree DEF Free
      <4>2. ~Quiet'
        BY <3>3 DEF Quiet, InFlight
      <4>3. /\ DialogFits(ui.dialog, ui.incident.status)
            /\ CallFits(calls[s].op, ui.incident.status)
            /\ calls[s].op = "edit" => ui.incident.status = srv.status
        BY <2>1, <3>1, <3>6 DEF IncidentInv, IncidentFits
      <4>4. DialogFits(ui'.dialog, srv.status)
        BY <2>1, <3>4, <4>3 DEF DialogFits, CallFits, IncidentOp
      <4> QED BY <2>1, <3>1, <3>3, <4>1, <4>2, <4>4 DEF IncidentFits, IncidentOp
    <3> QED BY <1>a, <2>1, <3>4, <3>5, <3>6 DEF IncidentInv
  <2>4. CASE ~Succeeded(s)
    <3>1. ~smooth
      BY <2>1, <2>4 DEF IncidentInv, IncidentFits, Awaits, Succeeded, Pending
    <3>2. /\ calls'[s] = Free /\ \A t \in Slot \ {s} : calls'[t] = calls[t]
          /\ smooth' = smooth /\ ui' = ui
      BY <1>5, <2>4, EndedCall DEF IncidentChanged, End, ConsoleInv
    <3> QED BY <1>a, <2>1, <3>1, <3>2 DEF IncidentInv, IncidentCall
  <2> QED BY <2>3, <2>4
<1>6. ASSUME NEW s \in Slot, fetchIncident(s) PROVE IncidentInv' /\ IncidentMovesForward
  <2>1. Awaits(s, "getIncident") /\ InFlight(s) /\ srv' = srv
    BY <1>6, AwaitsIsInFlight DEF fetchIncident
  <2>2. /\ calls'[s] = Free /\ \A t \in Slot \ {s} : calls'[t] = calls[t]
        /\ smooth' = smooth
    BY <1>6, EndedCall DEF fetchIncident, End, ConsoleInv
  <2>3. /\ DOMAIN ui' = DOMAIN ui /\ ui'.dialog = ui.dialog
        /\ Succeeded(s) => ui'.incident = calls[s].ans.data
    BY <1>6 DEF fetchIncident, IncidentInv
  <2>4. ASSUME smooth' PROVE IncidentFits'
    <3>1. \A t \in Slot : calls'[t] = Free /\ calls'[t].op = "free"
      BY <2>1, <2>2, <2>4, AloneIsFree DEF Free
    <3>2. /\ Succeeded(s) /\ calls[s].ans.data.status = srv.status
          /\ DialogFits(ui.dialog, srv.status)
      BY <2>1, <2>2, <2>4 DEF IncidentInv, IncidentFits, Awaits, Succeeded, Pending
    <3> QED BY <2>1, <2>3, <3>1, <3>2 DEF IncidentFits, IncidentOp
  <2> QED BY <1>a, <2>1, <2>2, <2>3, <2>4 DEF IncidentInv, IncidentCall
<1>7. ASSUME NEW s \in Slot, Serve(s, IncidentReplies(s)) PROVE IncidentInv' /\ IncidentMovesForward
  <2>1. PICK r \in IncidentReplies(s) : srv' = r.rows /\ calls' = [calls EXCEPT ![s].ans = r.ans]
    BY <1>7 DEF Serve
  <2>2. /\ InFlight(s) /\ calls[s].ans = Pending /\ ui' = ui /\ busy' = busy /\ smooth' = smooth
    BY <1>7 DEF Serve
  <2>3. calls[s].op \in IncidentOp \cup {"getIncident"}
    BY <2>2 DEF IncidentInv, IncidentCall, InFlight
  <2>4. /\ r.ans = Ok(IncidentResponse(srv'))
        /\ srv' = [status |-> srv'.status, containment |-> srv'.containment,
                   notified |-> srv'.notified, reported |-> srv'.reported]
        /\ srv'.status \in IncidentStatus
        /\ calls[s].op \in {"getIncident", "edit"} => srv'.status = srv.status
        /\ CallFits(calls[s].op, srv.status) =>
             STATUS_STEPS[srv'.status] >= STATUS_STEPS[srv.status]
    BY <2>1, <2>3, IncidentServed DEF IncidentInv
  <2>5. /\ r.ans.state = "ok" /\ r.ans.data = IncidentResponse(srv') /\ r.ans # Pending
        /\ IncidentResponse(srv').status = srv'.status
    BY <2>4, AnswerFields, Fields DEF IncidentResponse
  <2>6. /\ calls'[s].op = calls[s].op /\ calls'[s].ans = r.ans
        /\ \A t \in Slot \ {s} : calls'[t] = calls[t]
    BY <2>1, <2>2, AnsweredCall DEF ConsoleInv
  <2>7. \A t \in Slot : IncidentCall(calls'[t])
    BY <2>3, <2>6 DEF IncidentInv, IncidentCall
  <2>8. ASSUME smooth' PROVE IncidentFits' /\ IncidentMovesForward
    <3>1. \A t \in Slot \ {s} : calls'[t].op = "free"
      BY <2>2, <2>6, <2>8, AloneIsFree DEF Free
    <3>2. ~Quiet'
      BY <2>3, <2>6 DEF Quiet, InFlight, Free, IncidentOp
    <3>3. IncidentFits
      BY <2>2, <2>8 DEF IncidentInv
    <3>4. CASE calls[s].op = "getIncident"
      <4>1. srv'.status = srv.status
        BY <2>4, <3>4
      <4>2. IncidentFits'
        BY <2>2, <2>5, <2>6, <3>1, <3>2, <3>3, <3>4, <4>1 DEF IncidentFits, IncidentOp
      <4>3. CallFits(calls[s].op, srv.status)
        BY <3>4 DEF CallFits
      <4> QED BY <2>4, <4>2, <4>3 DEF IncidentMovesForward
    <3>5. CASE calls[s].op \in IncidentOp
      <4>1. /\ DialogFits(ui.dialog, ui.incident.status)
            /\ CallFits(calls[s].op, ui.incident.status) /\ ui.incident.status = srv.status
        BY <2>2, <3>3, <3>5 DEF IncidentFits
      <4>2. IncidentFits'
        BY <2>2, <2>4, <2>5, <2>6, <3>1, <3>2, <3>5, <4>1 DEF IncidentFits, IncidentOp
      <4> QED BY <2>4, <4>1, <4>2 DEF IncidentMovesForward
    <3> QED BY <2>3, <3>4, <3>5
  <2>9. IncidentInv'
    BY <2>2, <2>4, <2>7, <2>8 DEF IncidentInv
  <2> QED BY <1>a, <2>8, <2>9
<1>8. ASSUME NEW s \in Slot, Lose(s) PROVE IncidentInv' /\ IncidentMovesForward
  <2>1. /\ InFlight(s) /\ calls' = [calls EXCEPT ![s].ans = Failed]
        /\ srv' = srv /\ ui' = ui /\ smooth' = FALSE
    BY <1>8 DEF Lose
  <2>2. calls'[s].op = calls[s].op /\ \A t \in Slot \ {s} : calls'[t] = calls[t]
    BY <2>1, AnsweredCall DEF ConsoleInv
  <2>3. \A t \in Slot : IncidentCall(calls'[t])
    BY <2>1, <2>2 DEF IncidentInv, IncidentCall, InFlight
  <2> QED BY <1>a, <2>1, <2>3 DEF IncidentInv
<1> QED BY <1>1, <1>2, <1>3, <1>4, <1>5, <1>6, <1>7, <1>8 DEF IncidentNext

-----------------------------------------------------------------------------
UndoneInv == ConsoleInv /\ ApplicationsInv /\ IncidentInv

(* Neither page leads to another. *)
LEMMA PagesStay ==
  (IncidentNext \/ ApplicationsNext) => page' = page
<1>1. IncidentNext => page' = page
  BY DEF IncidentNext, OpenDialog, CloseDialog, TypeContainment, handleNotifyAuthority,
         handleSubmitReport, handleResolve, handleEdit, Press, IncidentColleague, Others,
         IncidentChanged, fetchIncident, Serve, Lose
<1>2. ApplicationsNext => page' = page
  BY DEF ApplicationsNext, openReviewDialog, ToggleCreateTenant, closeReviewDialog,
         handleReviewSubmit, RefreshApplications, ApplicationsColleague, Others,
         Reviewed, fetchApplications, Serve, Lose
<1> QED BY <1>1, <1>2

LEMMA UndoneStep ==
  ASSUME UndoneInv, [ConsoleNext]_consoleVars
  PROVE  UndoneInv' /\ [IncidentMovesForward /\ ApplicationDecidedOnce]_consoleVars
<1> USE DEF UndoneInv
<1>0. ConsoleInv'
  BY ConsoleStep
<1>1. CASE UNCHANGED consoleVars
  BY <1>0, <1>1 DEF consoleVars, ApplicationsInv, ReviewsFit, IncidentInv, IncidentFits, Quiet, InFlight
<1>2. CASE PageNext
  <2>1. page = "applications" => page' = page
    BY <1>2, StepsOfPage, PagesStay
  <2>2. page = "incident" => page' = page
    BY <1>2, StepsOfPage, PagesStay
  <2>3. page = "applications" => ApplicationsInv' /\ ApplicationDecidedOnce
    BY <1>2, <2>1, StepsOfPage, ApplicationsStep
  <2>4. page = "incident" => IncidentInv' /\ IncidentMovesForward
    BY <1>2, <2>2, StepsOfPage, IncidentStep
  <2>5. page' \in {page, "elsewhere"}
    BY <1>2, PageKeeps
  <2>6. page # "applications" => ApplicationsInv' /\ ApplicationDecidedOnce
    BY <2>5 DEF ApplicationsInv, ApplicationDecidedOnce
  <2>7. page # "incident" => IncidentInv' /\ IncidentMovesForward
    BY <2>5 DEF IncidentInv, IncidentMovesForward
  <2> QED BY <1>0, <2>3, <2>4, <2>6, <2>7
<1>3. CASE LeavePage
  <2>1. page' = "elsewhere" /\ srv' = srv
    BY <1>3 DEF LeavePage, Leave
  <2>2. IncidentMovesForward
    BY <2>1 DEF IncidentMovesForward, IncidentInv, STATUS_STEPS, IncidentStatus
  <2> QED BY <1>0, <2>1, <2>2 DEF ApplicationsInv, IncidentInv, ApplicationDecidedOnce
<1> QED BY <1>1, <1>2, <1>3 DEF ConsoleNext, ConsoleDone

(* As long as no call was lost or overlapped another and nobody else     *)
(* wrote, the console takes no incident back and decides no application  *)
(* twice.                                                                *)
THEOREM NothingIsEverUndone == ConsoleSpec => NothingIsUndone
<1>1. ConsoleInit => UndoneInv
  BY ConsoleStarts, ApplicationsStarts, IncidentStarts DEF UndoneInv
<1>2. UndoneInv /\ [ConsoleNext]_consoleVars =>
        UndoneInv' /\ [IncidentMovesForward /\ ApplicationDecidedOnce]_consoleVars
  BY UndoneStep
<1> QED BY <1>1, <1>2, PTL DEF ConsoleSpec, NothingIsUndone
=============================================================================
