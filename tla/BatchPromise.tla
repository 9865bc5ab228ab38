----------------------------- MODULE BatchPromise -----------------------------
(***************************************************************************)
(* What batch screening promises its tenant: the job that was accepted is  *)
(* taken up once, every named row is screened at most once, and a complete *)
(* job has a result for each named row and a report that lists exactly     *)
(* those results.  BatchScreening implements this.                         *)
(***************************************************************************)
CONSTANT Named            \* the rows that have a name

VARIABLES
  status,                 \* "none" before the job is accepted
  screened,               \* the rows that have a result
  report                  \* the rows that the downloadable report lists

Init == status = "none" /\ screened = {} /\ report = {}

Accept == status = "none" /\ status' = "queued" /\ UNCHANGED <<screened, report>>

Start == status = "queued" /\ status' = "processing" /\ UNCHANGED <<screened, report>>

Progress ==
  /\ status = "processing"
  /\ \E more \in SUBSET (Named \ screened) : screened' = screened \cup more
  /\ UNCHANGED <<status, report>>

Complete ==
  /\ status = "processing" /\ status' = "complete"
  /\ screened' = Named /\ report' = Named

Fail ==
  /\ status \in {"queued", "processing"} /\ status' = "failed"
  /\ UNCHANGED <<screened, report>>

Next == Accept \/ Start \/ Progress \/ Complete \/ Fail

vars == <<status, screened, report>>

Spec == Init /\ [][Next]_vars
=============================================================================
