------------------------------- MODULE Console -------------------------------
(***************************************************************************)
(* What the pages of the Next.js console have in common: a page is a set   *)
(* of React state hooks and of handlers that await calls of the API.       *)
(* Between two awaits a handler runs without interruption; while it waits, *)
(* other handlers, effects and answers run, and answers arrive in any      *)
(* order.  The modules of the pages (CasePages, CustomerPages, ...) give   *)
(* each handler as the actions before and after its awaits.                *)
(*                                                                         *)
(* Calls are kept in slots: how many can be under way together is a bound, *)
(* and so is whether they overlap, and others write, more than once.       *)
(***************************************************************************)
EXTENDS Integers, FiniteSets, Sequences, Functions, TLC

CONSTANTS
  Slot,     \* the calls that one page has under way at a time
  Again     \* whether calls overlap, and others write, time and again, or
            \* once after a smooth start

ASSUME AgainAssumption == Again \in BOOLEAN

VARIABLES
  page,     \* the page that is open, by name
  ui,       \* its hooks, apart from those that only say "busy"
  busy,     \* its hooks that are TRUE while something is under way, by name
  calls,    \* the calls under way and the handlers that await them
  srv,      \* the rows of the backend that the page works on
  smooth    \* history: no call was lost or overlapped another, nobody else wrote

consoleVars == <<page, ui, busy, calls, srv, smooth>>

-----------------------------------------------------------------------------
SmallerOf(m, n) == IF m < n THEN m ELSE n
LargerOf(m, n) == IF m > n THEN m ELSE n

(* A call, the data it carries, the flags its handler lowers when it ends,  *)
(* and what has come back.                                                  *)
Pending  == [state |-> "pending"]
Failed   == [state |-> "failed"]
Ok(data) == [state |-> "ok", data |-> data]

Call(op, arg, flags) == [op |-> op, arg |-> arg, flags |-> flags, ans |-> Pending]
Free == [op |-> "free", flags |-> {}]

InFlight(s) == calls[s] # Free
Awaits(s, op) == calls[s].op = op /\ calls[s].ans.state # "pending"
Succeeded(s) == calls[s].ans.state = "ok"
Quiet == \A s \in Slot : ~InFlight(s)

(* A page as it is mounted, its first effect having called the API. *)
Mounted(op, arg, flags) ==
  \E s0 \in Slot :
    /\ calls = [s \in Slot |-> IF s = s0 THEN Call(op, arg, flags) ELSE Free]
    /\ busy = flags
    /\ smooth = TRUE

(* A page that calls nothing when it is mounted. *)
MountedIdle == calls = [s \in Slot |-> Free] /\ busy = {} /\ smooth = TRUE

(* Bound: without Again, nothing overlaps what is no longer smooth. *)
MayOverlap == smooth \/ Quiet \/ Again

(* A handler raises its flags and makes its first call. *)
Send(op, arg, flags) ==
  /\ MayOverlap
  /\ \E s \in Slot :
       /\ ~InFlight(s)
       /\ calls' = [calls EXCEPT ![s] = Call(op, arg, flags)]
  /\ busy' = busy \cup flags
  /\ smooth' = (smooth /\ Quiet)

(* Several controls share one hook, which names the one that is busy: the   *)
(* end of any of them lowers it.                                            *)
SendShared(op, arg, flag, shared) ==
  /\ MayOverlap
  /\ \E s \in Slot :
       /\ ~InFlight(s)
       /\ calls' = [calls EXCEPT ![s] = Call(op, arg, shared)]
  /\ busy' = (busy \ shared) \cup {flag}
  /\ smooth' = (smooth /\ Quiet)

(* A call whose end lowers flags that another call raised. *)
SendAlso(op, arg, flags) ==
  /\ MayOverlap
  /\ \E s \in Slot :
       /\ ~InFlight(s)
       /\ calls' = [calls EXCEPT ![s] = Call(op, arg, flags)]
  /\ smooth' = (smooth /\ Quiet)
  /\ UNCHANGED busy

(* A handler makes its next call, perhaps with more flags raised. *)
Chain(s, op, arg, flags) ==
  /\ calls' = [calls EXCEPT ![s] = Call(op, arg, calls[s].flags \cup flags)]
  /\ busy' = busy \cup flags
  /\ UNCHANGED smooth

(* The next call is one whose end also lowers flags of another call. *)
ChainAlso(s, op, arg, flags) ==
  /\ calls' = [calls EXCEPT ![s] = Call(op, arg, calls[s].flags \cup flags)]
  /\ UNCHANGED <<busy, smooth>>

(* A mutant: the flags are only lowered after a success. *)
EndIfOk(s) ==
  /\ calls' = [calls EXCEPT ![s] = Free]
  /\ busy' = IF Succeeded(s) THEN busy \ calls[s].flags ELSE busy
  /\ UNCHANGED smooth

(* A handler ends: its finally block lowers its flags. *)
End(s) ==
  /\ calls' = [calls EXCEPT ![s] = Free]
  /\ busy' = busy \ calls[s].flags
  /\ UNCHANGED smooth

(* A handler ends, and an effect or a load that it does not await calls on. *)
EndThen(s, op, arg, flags) ==
  /\ calls' = [calls EXCEPT ![s] = Call(op, arg, flags)]
  /\ busy' = (busy \ calls[s].flags) \cup flags
  /\ UNCHANGED smooth

(* The cleanup of an effect sets "cancelled": what its call still answers   *)
(* is ignored, and the effect calls again.                                  *)
Replace(s, op, arg) ==
  /\ calls' = [calls EXCEPT ![s] = Call(op, arg, calls[s].flags)]
  /\ UNCHANGED <<busy, smooth>>

(* A handler that only sets hooks. *)
NoCall == UNCHANGED <<busy, calls, smooth>>

(* The user is taken to another page. *)
Leave ==
  /\ page' = "elsewhere"
  /\ ui' = [left |-> page]
  /\ busy' = {}
  /\ calls' = [s \in Slot |-> Free]
  /\ UNCHANGED <<srv, smooth>>

(* An answer is a record of keys; an absent key reads as undefined, and     *)
(* undefined and null give way to a default.                                *)
KeyOf(data, key) == IF key \in DOMAIN data THEN data[key] ELSE "undefined"
OrElse(value, default) == IF value \in {"undefined", "null"} THEN default ELSE value

-----------------------------------------------------------------------------
(* The other end.  replies is what the backend may do with the call: the   *)
(* rows it leaves and the answer; it refuses by answering Failed.          *)
Reply(rows, ans) == [rows |-> rows, ans |-> ans]
Refuse == {Reply(srv, Failed)}

Serve(s, replies) ==
  /\ InFlight(s)
  /\ calls[s].ans = Pending
  /\ \E r \in replies :
       /\ srv' = r.rows
       /\ calls' = [calls EXCEPT ![s].ans = r.ans]
  /\ UNCHANGED <<page, ui, busy, smooth>>

(* The call or its answer is lost, or the backend breaks: the rows may or  *)
(* may not have been written.                                              *)
Lose(s) ==
  /\ InFlight(s)
  /\ calls[s].ans # Failed
  /\ calls' = [calls EXCEPT ![s].ans = Failed]
  /\ smooth' = FALSE
  /\ UNCHANGED <<page, ui, busy, srv>>

(* Somebody else, or a worker, writes the rows; without Again once, after a *)
(* smooth start.                                                           *)
Others(rows) ==
  /\ smooth \/ Again
  /\ rows # srv
  /\ srv' = rows
  /\ smooth' = FALSE
  /\ UNCHANGED <<page, ui, busy, calls>>
=============================================================================
