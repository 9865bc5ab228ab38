-------------------------- MODULE CaseWorkflowProofs --------------------------
(***************************************************************************)
(* Theorems on CaseWorkflow: types and the closing time, for any number of *)
(* requests under way.                                                     *)
(***************************************************************************)
EXTENDS CaseWorkflow, TLAPS

-----------------------------------------------------------------------------
(* What a request q leaves in its session: a reopening writes "open"; a    *)
(* PATCH that closes stamps, and never takes the closing time away.        *)
SessionFits(q) ==
  IF q.reopen
  THEN q.seen.status = "closed_no_action" /\ q.new.status = "open"
  ELSE /\ q.stamps <=> q.new.status \in Closed
       /\ q.new.closed_at <=> (q.seen.closed_at \/ q.stamps)

RequestsFit == \A r \in Request : req[r] # Idle => SessionFits(req[r])

IInv == TypeOK /\ RequestsFit /\ ClosedHasTime

-----------------------------------------------------------------------------
LEMMA InitIInv == Init => IInv
BY DEF Init, IInv, TypeOK, RequestsFit, ClosedHasTime, NewCase, Case, CaseStatus, Closed, Idle

(* Idle is told from a loaded request by its role, which no user has. *)
LEMMA LoadedOrIdle ==
  ASSUME TypeOK, NEW r \in Request, req[r] # Idle
  PROVE  req[r] \in Loaded
BY DEF TypeOK

(* A request that loads keeps the row, and fits. *)
LEMMA Loads ==
  ASSUME IInv, NEW r \in Request, NEW q \in Loaded, SessionFits(q),
         req' = [req EXCEPT ![r] = q], UNCHANGED case
  PROVE  IInv'
<1>1. TypeOK'
  BY DEF IInv, TypeOK
<1>2. RequestsFit'
  BY DEF IInv, TypeOK, RequestsFit
<1>3. ClosedHasTime'
  BY DEF IInv, ClosedHasTime
<1> QED
  BY <1>1, <1>2, <1>3 DEF IInv

LEMMA LoadPatchIInv ==
  ASSUME IInv, NEW r \in Request, LoadPatch(r)
  PROVE  IInv'
<1>1. PICK role \in UserRole, status \in CaseStatus :
        /\ req' = [req EXCEPT ![r] =
             [role |-> role, reopen |-> FALSE, seen |-> case, stamps |-> Stamps(status),
              new |-> [status |-> status, closed_at |-> case.closed_at \/ Stamps(status)]]]
        /\ UNCHANGED case
  BY DEF LoadPatch
<1>2. PICK stamps \in BOOLEAN : stamps = Stamps(status)
  <2>1. CASE status \in Closed
    <3>1. Stamps(status) = TRUE
      BY <2>1 DEF Stamps
    <3> QED
      BY <3>1
  <2>2. CASE status \notin Closed
    <3>1. Stamps(status) = FALSE
      BY <2>2 DEF Stamps
    <3> QED
      BY <3>1
  <2> QED
    BY <2>1, <2>2
<1>3. PICK q : q = [role |-> role, reopen |-> FALSE, seen |-> case, stamps |-> stamps,
                    new |-> [status |-> status, closed_at |-> case.closed_at \/ stamps]]
  OBVIOUS
<1>4. case \in Case
  BY DEF IInv, TypeOK
<1>5. q \in Loaded
  BY <1>2, <1>3, <1>4 DEF Loaded, Case
<1>6. SessionFits(q)
  BY <1>2, <1>3 DEF SessionFits, Stamps
<1>7. req' = [req EXCEPT ![r] = q]
  BY <1>1, <1>2, <1>3
<1> QED
  BY <1>1, <1>5, <1>6, <1>7, Loads

LEMMA LoadReopenIInv ==
  ASSUME IInv, NEW r \in Request, LoadReopen(r)
  PROVE  IInv'
<1>1. PICK role \in ReopenerRoles :
        /\ case.status = "closed_no_action"
        /\ req' = [req EXCEPT ![r] =
             [role |-> role, reopen |-> TRUE, seen |-> case, stamps |-> FALSE,
              new |-> [status |-> "open", closed_at |-> FALSE]]]
        /\ UNCHANGED case
  BY DEF LoadReopen
<1>2. PICK q : q = [role |-> role, reopen |-> TRUE, seen |-> case, stamps |-> FALSE,
                    new |-> [status |-> "open", closed_at |-> FALSE]]
  OBVIOUS
<1>3. case \in Case
  BY DEF IInv, TypeOK
<1>4. q \in Loaded
  BY <1>2, <1>3 DEF Loaded, Case, CaseStatus, UserRole, ReopenerRoles
<1>5. SessionFits(q)
  BY <1>1, <1>2 DEF SessionFits
<1>6. req' = [req EXCEPT ![r] = q]
  BY <1>1, <1>2
<1> QED
  BY <1>1, <1>4, <1>5, <1>6, Loads

LEMMA CommitIInv ==
  ASSUME IInv, NEW r \in Request, Commit(r)
  PROVE  IInv'
<1>1. TypeOK /\ RequestsFit /\ ClosedHasTime
  BY DEF IInv
<1>2. PICK q : q = req[r]
  OBVIOUS
<1>3. /\ q # Idle
      /\ case' = [status    |-> IF q.new.status = q.seen.status THEN case.status ELSE q.new.status,
                  closed_at |-> IF q.new.closed_at = q.seen.closed_at /\ ~q.stamps
                                THEN case.closed_at ELSE q.new.closed_at]
      /\ req' = [req EXCEPT ![r] = Idle]
  BY <1>2 DEF Commit
<1>4. q \in Loaded /\ SessionFits(q)
  BY <1>1, <1>2, <1>3, LoadedOrIdle DEF RequestsFit
<1>5. /\ q.new.status \in CaseStatus /\ q.new.closed_at \in BOOLEAN
      /\ q.seen.closed_at \in BOOLEAN /\ q.stamps \in BOOLEAN /\ q.reopen \in BOOLEAN
      /\ case.status \in CaseStatus /\ case.closed_at \in BOOLEAN
  BY <1>1, <1>4 DEF Loaded, Case, TypeOK
<1>6. case' \in Case
  BY <1>3, <1>5 DEF Case
<1>7. TypeOK'
  BY <1>1, <1>3, <1>6 DEF TypeOK
<1>8. RequestsFit'
  BY <1>1, <1>3 DEF RequestsFit, TypeOK
<1>9. ClosedHasTime'
  <2>1. CASE q.reopen
    BY <1>3, <1>4, <2>1 DEF SessionFits, ClosedHasTime, Closed
  <2>2. CASE ~q.reopen
    <3>1. /\ q.stamps <=> q.new.status \in Closed
          /\ q.new.closed_at <=> (q.seen.closed_at \/ q.stamps)
      BY <1>4, <2>2 DEF SessionFits
    <3>2. SUFFICES ASSUME case'.status \in Closed PROVE case'.closed_at
      BY DEF ClosedHasTime
    <3>3. CASE q.stamps
      BY <1>3, <3>1, <3>3
    <3>4. CASE ~q.stamps
      <4>1. case'.status = case.status /\ case.status \in Closed
        BY <1>3, <3>1, <3>2, <3>4
      <4>2. case.closed_at
        BY <1>1, <4>1 DEF ClosedHasTime
      <4>3. q.new.closed_at = q.seen.closed_at
        BY <1>5, <3>1, <3>4
      <4> QED
        BY <1>3, <3>4, <4>2, <4>3
    <3> QED
      BY <3>3, <3>4
  <2> QED
    BY <2>1, <2>2
<1> QED
  BY <1>7, <1>8, <1>9 DEF IInv

LEMMA NextIInv == IInv /\ [Next]_vars => IInv'
<1> SUFFICES ASSUME IInv, [Next]_vars PROVE IInv'
  OBVIOUS
<1>1. ASSUME NEW r \in Request, Abort(r) PROVE IInv'
  BY <1>1 DEF Abort, IInv, TypeOK, RequestsFit, ClosedHasTime
<1>2. CASE UNCHANGED vars
  BY <1>2 DEF vars, IInv, TypeOK, RequestsFit, ClosedHasTime
<1> QED
  BY <1>1, <1>2, LoadPatchIInv, LoadReopenIInv, CommitIInv DEF Next

LEMMA AlwaysIInv == Spec => []IInv
BY InitIInv, NextIInv, PTL DEF Spec

-----------------------------------------------------------------------------
(* The row and what the requests hold of it are of their types. *)
THEOREM CaseTypes == Spec => []TypeOK
<1>1. IInv => TypeOK
  BY DEF IInv
<1> QED
  BY <1>1, AlwaysIInv, PTL

(* A closed case has a closing time, however many PATCH and reopen requests*)
(* overlap, each writing only the columns that it changed.                 *)
THEOREM ClosedCaseHasTime == Spec => []ClosedHasTime
<1>1. IInv => ClosedHasTime
  BY DEF IInv
<1> QED
  BY <1>1, AlwaysIInv, PTL
=============================================================================
