----------------------------- MODULE CaseWorkflow -----------------------------
(***************************************************************************)
(* The status of one compliance case under requests that overlap: PATCH    *)
(* and the reopen endpoint.  As everywhere in the service, a request reads *)
(* the row once, without a lock, and its commit writes the columns that it *)
(* changed.  Alert, customer and ISAR links do not touch the status.       *)
(***************************************************************************)
EXTENDS FiniteSets

CONSTANTS Request      \* the requests under way at a time

VARIABLES
  case,                \* the committed row: status, and whether closed_at is set
  req                  \* the requests

vars == <<case, req>>

CaseStatus == {"open", "investigating", "escalated", "closed_no_action", "closed_str_filed"}
Closed == {"closed_no_action", "closed_str_filed"}

UserRole == {"mlro", "compliance_officer", "analyst", "developer",
             "platform_admin", "platform_support"}
CloserRoles   == {"mlro", "compliance_officer", "platform_admin"}
ReopenerRoles == {"mlro", "compliance_officer", "platform_admin"}

Case == [status : CaseStatus, closed_at : BOOLEAN]
Idle == [role |-> "none"]

(* A request: the row it read and the row that its session holds after it. *)
Loaded == [role : UserRole, reopen : BOOLEAN, seen : Case, new : Case, stamps : BOOLEAN]

TypeOK == case \in Case /\ req \in [Request -> Loaded \cup {Idle}]

(* A mutant: the row is created without its default status. *)
NewCaseUnset == [status |-> "none", closed_at |-> FALSE]

NewCase == [status |-> "open", closed_at |-> FALSE]

Init ==
  /\ case = NewCase
  /\ req = [r \in Request |-> Idle]

-----------------------------------------------------------------------------
CaseTransitions ==
  {<<"open", "investigating">>, <<"open", "escalated">>,
   <<"investigating", "escalated">>, <<"investigating", "closed_no_action">>,
   <<"investigating", "closed_str_filed">>,
   <<"escalated", "closed_no_action">>, <<"escalated", "closed_str_filed">>,
   <<"closed_no_action", "open">>}

CanTransition(from, to) == from = to \/ <<from, to>> \in CaseTransitions

(* A mutant: closed_at is only set on the way to closed_str_filed. *)
StampsFiled(status) == status = "closed_str_filed"

(* Whether PATCH to the status sets closed_at, to the time of the request. *)
Stamps(status) == status \in Closed

(* PATCH /cases/{id}: closing needs a role, reopening needs none here.     *)
(* Title, description and assignee, which PATCH refuses to change on a     *)
(* closed case, and the note that a reopening adds, touch no status and    *)
(* are left out.                                                           *)
LoadPatch(r) ==
  \E role \in UserRole, status \in CaseStatus :
    /\ req[r] = Idle
    /\ CanTransition(case.status, status)
    /\ status \in Closed => role \in CloserRoles
    /\ req' = [req EXCEPT ![r] =
         [role |-> role, reopen |-> FALSE, seen |-> case, stamps |-> Stamps(status),
          new |-> [status |-> status, closed_at |-> case.closed_at \/ Stamps(status)]]]
    /\ UNCHANGED case

(* POST /cases/{id}/reopen *)
LoadReopen(r) ==
  \E role \in ReopenerRoles :
    /\ req[r] = Idle
    /\ case.status = "closed_no_action"
    /\ req' = [req EXCEPT ![r] =
         [role |-> role, reopen |-> TRUE, seen |-> case, stamps |-> FALSE,
          new |-> [status |-> "open", closed_at |-> FALSE]]]
    /\ UNCHANGED case

Commit(r) ==
  LET q == req[r] IN
  /\ q # Idle
  /\ case' = [status    |-> IF q.new.status = q.seen.status THEN case.status ELSE q.new.status,
              closed_at |-> IF q.new.closed_at = q.seen.closed_at /\ ~q.stamps
                            THEN case.closed_at ELSE q.new.closed_at]
  /\ req' = [req EXCEPT ![r] = Idle]

Abort(r) == req[r] # Idle /\ req' = [req EXCEPT ![r] = Idle] /\ UNCHANGED case

Next == \E r \in Request : LoadPatch(r) \/ LoadReopen(r) \/ Commit(r) \/ Abort(r)

Spec == Init /\ [][Next]_vars

-----------------------------------------------------------------------------
(* A closed case says when it was closed, whatever closings and reopenings *)
(* overlap: each writes the status and closed_at together.                 *)
ClosedHasTime == case.status \in Closed => case.closed_at
=============================================================================
