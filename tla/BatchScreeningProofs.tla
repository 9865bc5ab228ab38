------------------------- MODULE BatchScreeningProofs -------------------------
(***************************************************************************)
(* Theorems on BatchScreening, for any number of deliveries, rows and chunk*)
(* size, and all the faults: types, the results of a complete job and,     *)
(* while the message has been delivered once, the promise to the tenant.   *)
(***************************************************************************)
EXTENDS BatchScreening, TLAPS, FiniteSetTheorems

-----------------------------------------------------------------------------
Pc == {"waiting", "started", "queued", "screening", "uploaded", "ended",
       "dead"}

RunRecord == [pc : Pc, next : 1..(RowCount + 1), processed : 0..RowCount,
              made : SUBSET Row, kept : SUBSET Row]

(* How far a run is, and what it has made: the named rows before the next  *)
(* one, as many as it counts.                                              *)
MadeSoFar(p) == p.made = {i \in Named : i < p.next}

(* The counter is bounded by the row the run is at. *)
RunFits(p) ==
  /\ p.processed < p.next
  /\ MadeSoFar(p)
  /\ p.pc = "uploaded" => p.next = RowCount + 1

IInv ==
  /\ TypeOK
  /\ \A d \in Run : RunFits(run[d])
  /\ CompleteHasResults

-----------------------------------------------------------------------------
LEMMA RunsTyped == TypeOK => run \in [Run -> RunRecord]
BY DEF TypeOK, RunRecord, Pc

LEMMA KeptType ==
  ASSUME results \subseteq Result, NEW d \in Run, NEW rows \in SUBSET Row
  PROVE  /\ Kept(d, rows) \subseteq Result
         /\ results \subseteq Kept(d, rows)
         /\ \A i \in rows : <<d, i>> \in Kept(d, rows)
BY DEF Kept, Result

(* A complete job keeps its results as long as results are only added. *)
LEMMA CompleteKept ==
  ASSUME CompleteHasResults, results \subseteq results',
         job'.status = "complete" => job.status = "complete"
  PROVE  CompleteHasResults'
BY DEF CompleteHasResults

(* Moving a run to another point of its program. *)
LEMMA Moved ==
  ASSUME TypeOK, \A e \in Run : RunFits(run[e]),
         NEW d \in Run, NEW pc \in Pc, Goto(d, pc),
         pc = "uploaded" => run[d].next = RowCount + 1
  PROVE  run' \in [Run -> RunRecord] /\ \A e \in Run : RunFits(run'[e])
<1>1. run \in [Run -> RunRecord]
  BY RunsTyped
<1>2. PICK p : p = [run[d] EXCEPT !.pc = pc]
  OBVIOUS
<1>3. run' = [run EXCEPT ![d] = p]
  BY <1>1, <1>2 DEF Goto
<1>4. p \in RunRecord
  BY <1>1, <1>2 DEF RunRecord
<1>5. RunFits(p)
  BY <1>1, <1>2 DEF RunFits, MadeSoFar, RunRecord
<1> QED
  BY <1>1, <1>3, <1>4, <1>5

LEMMA FailedJobType ==
  TypeOK => /\ FailedJob \in [status : JobStatus, processed : 0..RowCount, file : BOOLEAN]
            /\ FailedJob.status = "complete" => job.status = "complete"
BY DEF TypeOK, FailedJob, JobStatus

-----------------------------------------------------------------------------
LEMMA InitIInv == Init => IInv
<1> SUFFICES ASSUME Init PROVE IInv
  OBVIOUS
<1>1. 1 \in 1..(RowCount + 1) /\ 0 \in 0..RowCount
  BY RowsAssumption
<1>2. TypeOK
  BY <1>1 DEF Init, TypeOK, JobStatus
<1>3. \A d \in Run : RunFits(run[d])
  BY RowsAssumption DEF Init, RunFits, MadeSoFar, Named, Row
<1> QED
  BY <1>2, <1>3 DEF Init, IInv, CompleteHasResults

(* The steps that only move a run. *)
LEMMA MoveSteps ==
  ASSUME IInv, NEW d \in Run,
         Deliver(d) \/ ReadJob(d) \/ MarkProcessing(d) \/ UploadCsv(d) \/ Raise(d) \/ Crash(d)
  PROVE  IInv'
<1>1. TypeOK /\ CompleteHasResults /\ \A e \in Run : RunFits(run[e])
  BY DEF IInv
<1>2. \E pc \in Pc : Goto(d, pc) /\ (pc = "uploaded" => run[d].next = RowCount + 1)
  <2>1. Raise(d) => Goto(d, "ended") \/ Goto(d, "dead")
    BY DEF Raise
  <2>2. Crash(d) => Goto(d, "dead")
    BY DEF Crash
  <2>3. ReadJob(d) => Goto(d, "queued") \/ Goto(d, "ended")
    BY DEF ReadJob
  <2>4. UploadCsv(d) => Goto(d, "uploaded") /\ run[d].next = RowCount + 1
    BY DEF UploadCsv
  <2>5. /\ Deliver(d) => Goto(d, "started")
        /\ MarkProcessing(d) => Goto(d, "screening")
    BY DEF Deliver, MarkProcessing
  <2> QED BY <2>1, <2>2, <2>3, <2>4, <2>5 DEF Pc
<1>3. run' \in [Run -> RunRecord] /\ \A e \in Run : RunFits(run'[e])
  BY <1>1, <1>2, Moved
<1>4. results' = results /\ usage' = usage /\ request' = request
  BY DEF Deliver, ReadJob, MarkProcessing, UploadCsv, Raise, Crash
<1>5. /\ job' \in [status : JobStatus, processed : 0..RowCount, file : BOOLEAN]
      /\ job'.status = "complete" => job.status = "complete"
  <2>1. CASE UNCHANGED job
    BY <1>1, <2>1 DEF TypeOK
  <2>2. CASE job' = FailedJob
    BY <1>1, <2>2, FailedJobType
  <2>3. CASE MarkProcessing(d)
    BY <1>1, <2>3 DEF MarkProcessing, TypeOK, JobStatus
  <2> QED
    BY <2>1, <2>2, <2>3 DEF Deliver, ReadJob, UploadCsv, Raise, Crash
<1>6. csv' \subseteq Result
  <2>1. CASE UploadCsv(d)
    BY <1>1, <2>1, RunsTyped DEF UploadCsv, Result, RunRecord
  <2>2. CASE UNCHANGED csv
    BY <1>1, <2>2 DEF TypeOK
  <2> QED
    BY <2>1, <2>2 DEF Deliver, ReadJob, MarkProcessing, Raise, Crash
<1>7. TypeOK'
  BY <1>1, <1>3, <1>4, <1>5, <1>6 DEF TypeOK, RunRecord, Pc
<1>8. CompleteHasResults'
  BY <1>1, <1>4, <1>5, CompleteKept
<1> QED
  BY <1>3, <1>7, <1>8 DEF IInv

LEMMA ScreenRowIInv ==
  ASSUME IInv, NEW d \in Run, ScreenRow(d)
  PROVE  IInv'
<1>1. TypeOK /\ CompleteHasResults /\ \A e \in Run : RunFits(run[e])
  BY DEF IInv
<1>2. run \in [Run -> RunRecord] /\ RowCount \in Nat /\ Chunk \in Nat \ {0}
  BY <1>1, RunsTyped, RowsAssumption, ChunkAssumption
<1>3. PICK i : i = run[d].next
  OBVIOUS
<1>4. PICK n : n = run[d].processed + 1
  OBVIOUS
<1>5. PICK made : made = run[d].made \cup {i}
  OBVIOUS
<1>6. /\ run[d].pc = "screening" /\ i \in Row
      /\ UNCHANGED <<request, csv, usage>>
  BY <1>3 DEF ScreenRow, At
<1>7. i \in 1..RowCount /\ n \in 1..RowCount /\ n < i + 1
  BY <1>1, <1>2, <1>3, <1>4, <1>6 DEF RunFits, Row, RunRecord
<1>8. run[d].made = {j \in Named : j < i}
  BY <1>1, <1>3 DEF RunFits, MadeSoFar
<1>9. \E p \in RunRecord :
        /\ run' = [run EXCEPT ![d] = p]
        /\ RunFits(p)
        /\ \/ UNCHANGED <<job, results>>
           \/ job' = [job EXCEPT !.processed = n] /\ results' = Kept(d, made)
  <2>1. CASE i \in Blank
    <3>1. PICK p : p = [run[d] EXCEPT !.next = i + 1]
      OBVIOUS
    <3>2. run' = [run EXCEPT ![d] = p] /\ UNCHANGED <<job, results>>
      BY <1>2, <1>3, <2>1, <3>1 DEF ScreenRow
    <3>3. p \in RunRecord
      BY <1>2, <1>7, <3>1 DEF RunRecord
    <3>4. {j \in Named : j < i} = {j \in Named : j < i + 1}
      BY <1>7, <2>1 DEF Named, Row
    <3>5. RunFits(p)
      BY <1>1, <1>2, <1>3, <1>6, <1>7, <1>8, <3>1, <3>4 DEF RunFits, MadeSoFar, RunRecord
    <3> QED
      BY <3>2, <3>3, <3>5
  <2>2. CASE i \notin Blank
    <3>1. made \subseteq Row /\ made = {j \in Named : j < i + 1}
      BY <1>5, <1>6, <1>7, <1>8, <2>2 DEF Named, Row
    <3>2. PICK p : p = [run[d] EXCEPT !.next = i + 1, !.processed = n, !.made = made, !.kept = made]
      OBVIOUS
    <3>3. PICK q : q = [run[d] EXCEPT !.next = i + 1, !.processed = n, !.made = made]
      OBVIOUS
    <3>4. p \in RunRecord /\ q \in RunRecord
      <4>1. run[d] \in RunRecord
        BY <1>2
      <4>2. i + 1 \in 1..(RowCount + 1) /\ n \in 0..RowCount /\ made \in SUBSET Row
        BY <1>2, <1>7, <3>1
      <4>3. p \in RunRecord
        BY <4>1, <4>2, <3>2 DEF RunRecord
      <4>4. q \in RunRecord
        BY <4>1, <4>2, <3>3 DEF RunRecord
      <4> QED
        BY <4>3, <4>4
    <3>5. RunFits(p) /\ RunFits(q)
      <4>1. run[d] \in RunRecord
        BY <1>2
      <4>2. RunFits(p)
        BY <4>1, <1>6, <1>7, <3>1, <3>2 DEF RunFits, MadeSoFar, RunRecord
      <4>3. RunFits(q)
        BY <4>1, <1>6, <1>7, <3>1, <3>3 DEF RunFits, MadeSoFar, RunRecord
      <4> QED
        BY <4>2, <4>3
    <3>6. CASE n % Chunk = 0
      <4>1. run' = [run EXCEPT ![d].next = i + 1, ![d].processed = n,
                               ![d].made = made, ![d].kept = made]
        BY <1>3, <1>4, <1>5, <2>2, <3>6 DEF ScreenRow
      <4>2. run' = [run EXCEPT ![d] = p]
        BY <1>2, <3>2, <4>1
      <4>3. job' = [job EXCEPT !.processed = n] /\ results' = Kept(d, made)
        BY <1>3, <1>4, <1>5, <2>2, <3>6 DEF ScreenRow, Progress
      <4> QED
        BY <3>4, <3>5, <4>2, <4>3
    <3>7. CASE n % Chunk # 0
      <4>1. /\ run' = [run EXCEPT ![d].next = i + 1, ![d].processed = n, ![d].made = made]
            /\ UNCHANGED <<job, results>>
        BY <1>3, <1>4, <1>5, <2>2, <3>7 DEF ScreenRow
      <4>2. run' = [run EXCEPT ![d] = q]
        BY <1>2, <3>3, <4>1
      <4> QED
        BY <3>4, <3>5, <4>1, <4>2
    <3> QED
      BY <3>6, <3>7
  <2> QED
    BY <2>1, <2>2
<1>10. run' \in [Run -> RunRecord] /\ \A e \in Run : RunFits(run'[e])
  BY <1>1, <1>2, <1>9
<1>11. made \in SUBSET Row
  BY <1>2, <1>5, <1>6 DEF RunRecord
<1>12. results \subseteq results' /\ results' \subseteq Result
  BY <1>1, <1>9, <1>11, KeptType DEF TypeOK
<1>13. /\ job' \in [status : JobStatus, processed : 0..RowCount, file : BOOLEAN]
       /\ job'.status = job.status
  BY <1>1, <1>2, <1>7, <1>9 DEF TypeOK
<1>14. TypeOK'
  BY <1>1, <1>6, <1>10, <1>12, <1>13 DEF TypeOK, RunRecord, Pc
<1>15. CompleteHasResults'
  BY <1>1, <1>12, <1>13, CompleteKept
<1> QED
  BY <1>10, <1>14, <1>15 DEF IInv

LEMMA CompleteIInv ==
  ASSUME IInv, NEW d \in Run, Complete(d)
  PROVE  IInv'
<1>1. TypeOK /\ CompleteHasResults /\ \A e \in Run : RunFits(run[e])
  BY DEF IInv
<1>2. run \in [Run -> RunRecord] /\ RowCount \in Nat
  BY <1>1, RunsTyped, RowsAssumption
<1>3. /\ run[d].pc = "uploaded" /\ Goto(d, "ended")
      /\ job' = [status |-> "complete", processed |-> run[d].processed, file |-> TRUE]
      /\ results' = Kept(d, run[d].made)
      /\ usage' = usage + 1 /\ UNCHANGED <<request, csv>>
  BY DEF Complete, CommitOf, At
<1>4. run[d].made = Named
  BY <1>1, <1>2, <1>3 DEF RunFits, MadeSoFar, Named, Row
<1>5. run' \in [Run -> RunRecord] /\ \A e \in Run : RunFits(run'[e])
  BY <1>1, <1>3, Moved DEF Pc
<1>6. /\ results' \subseteq Result
      /\ \A i \in Named : <<d, i>> \in results'
  BY <1>1, <1>3, <1>4, KeptType DEF TypeOK, Named
<1>7. TypeOK'
  BY <1>1, <1>2, <1>3, <1>5, <1>6 DEF TypeOK, RunRecord, Pc, JobStatus
<1>8. CompleteHasResults'
  BY <1>6 DEF CompleteHasResults
<1> QED
  BY <1>5, <1>7, <1>8 DEF IInv

LEMMA NextIInv == IInv /\ [Next]_vars => IInv'
<1> SUFFICES ASSUME IInv, [Next]_vars PROVE IInv'
  OBVIOUS
<1>1. CASE Enqueue \/ EndRequest
  BY <1>1 DEF Enqueue, EndRequest, IInv, TypeOK, CompleteHasResults
<1>2. ASSUME NEW d \in Run, Step(d) \/ Raise(d) \/ Crash(d) PROVE IInv'
  BY <1>2, MoveSteps, ScreenRowIInv, CompleteIInv DEF Step
<1>3. CASE UNCHANGED vars
  BY <1>3 DEF vars, IInv, TypeOK, CompleteHasResults
<1> QED
  BY <1>1, <1>2, <1>3 DEF Next

LEMMA AlwaysIInv == Spec => []IInv
BY InitIInv, NextIInv, PTL DEF Spec

-----------------------------------------------------------------------------
(* The job, its results and its runs are of their types: the progress and  *)
(* the row counter never leave the rows of the job.                        *)
THEOREM BatchTypes == Spec => []TypeOK
<1>1. IInv => TypeOK
  BY DEF IInv
<1> QED
  BY <1>1, AlwaysIInv, PTL

(* A complete job has a result for every named row, however often its      *)
(* message is delivered, whatever the size of a chunk and wherever a run   *)
(* raises or dies.                                                         *)
THEOREM CompleteJobIsScreened == Spec => []CompleteHasResults
<1>1. IInv => CompleteHasResults
  BY DEF IInv
<1> QED
  BY <1>1, AlwaysIInv, PTL

-----------------------------------------------------------------------------
(***************************************************************************)
(* A job whose message is delivered once: BatchScreening implements        *)
(* BatchPromise, and its progress is true.                                 *)
(***************************************************************************)
Delivered == {d \in Run : ~At(d, "waiting")}
Single == \A d, e \in Delivered : d = e

FreshJob == [status |-> "queued", processed |-> 0, file |-> FALSE]

(* A run counts the rows it has screened. *)
Counts(p) == IsFiniteSet(p.made) /\ Cardinality(p.made) = p.processed

(* Every result was made by the run that it names; a run that has not been *)
(* delivered has made none.                                                *)
OwnRows ==
  /\ \A d \in Run, i \in Row : <<d, i>> \in results => i \in run[d].made
  /\ \A d \in Run : At(d, "waiting") => run[d].made = {}

(* No run finds the job before the request commits, and nobody changes it. *)
BeforeCommit ==
  request # "committed" =>
    job = FreshJob /\ \A d \in Run : run[d].pc \in {"waiting", "started", "ended", "dead"}

BeforeDelivery == Delivered = {} => job = FreshJob

(* The job is where its only run is. *)
Follows(d) ==
  /\ Alive(d) => ~job.file
  /\ run[d].pc \in {"started", "queued"} => job.status = "queued"
  /\ run[d].pc \in {"screening", "uploaded"} => job.status = "processing"
  /\ At(d, "uploaded") => csv = {d} \X run[d].made

JobFollows == Single => \A d \in Delivered : Follows(d)

ProgressCounted == Single => job.processed = Cardinality(results)

PInv ==
  /\ IInv
  /\ IsFiniteSet(Delivered)
  /\ \A d \in Run : Counts(run[d])
  /\ OwnRows /\ BeforeCommit /\ BeforeDelivery /\ JobFollows /\ ProgressCounted

-----------------------------------------------------------------------------
(* A finite set has at most one element if it has no two. *)
LEMMA AtMostOne ==
  ASSUME NEW S, IsFiniteSet(S)
  PROVE  Cardinality(S) <= 1 <=> \A x, y \in S : x = y
<1>1. CASE S = {}
  BY <1>1, FS_EmptySet
<1>2. CASE S # {}
  <2>1. PICK x \in S : TRUE
    BY <1>2
  <2>2. IsFiniteSet(S \ {x}) /\ Cardinality(S \ {x}) = Cardinality(S) - 1
    BY FS_RemoveElement
  <2>3. Cardinality(S \ {x}) = 0 <=> S \ {x} = {}
    BY <2>2, FS_EmptySet
  <2>4. Cardinality(S) \in Nat /\ Cardinality(S \ {x}) \in Nat
    BY <2>2, FS_CardinalityType
  <2> QED BY <2>1, <2>2, <2>3, <2>4
<1> QED BY <1>1, <1>2

(* As many pairs as second components. *)
LEMMA PairsCount ==
  ASSUME NEW d, NEW S, IsFiniteSet(S)
  PROVE  Cardinality({d} \X S) = Cardinality(S)
<1>1. IsFiniteSet({d}) /\ Cardinality({d}) = 1
  BY FS_Singleton
<1>2. Cardinality({d} \X S) = Cardinality({d}) * Cardinality(S)
  BY <1>1, FS_Product
<1>3. Cardinality(S) \in Nat
  BY FS_CardinalityType
<1> QED BY <1>1, <1>2, <1>3

LEMMA SingleIsOneDelivery == IsFiniteSet(Delivered) => (Single <=> OneDelivery)
<1> SUFFICES ASSUME IsFiniteSet(Delivered) PROVE Single <=> OneDelivery
  OBVIOUS
<1>1. Cardinality(Delivered) <= 1 <=> Single
  BY AtMostOne DEF Single
<1> QED BY <1>1 DEF OneDelivery, Delivered

(* Only the place of one run changes. *)
LEMMA MovedParts ==
  ASSUME TypeOK, NEW d \in Run, NEW pc, Goto(d, pc)
  PROVE  /\ run'[d].pc = pc /\ run'[d].next = run[d].next
         /\ run'[d].processed = run[d].processed /\ run'[d].made = run[d].made
         /\ \A e \in Run \ {d} : run'[e] = run[e]
BY RunsTyped DEF Goto, RunRecord

(* What is delivered stays so. *)
LEMMA DeliveredGrows ==
  ASSUME PInv, NEW d \in Run, ~At(d, "waiting")', \A e \in Run \ {d} : run'[e] = run[e]
  PROVE  /\ Delivered' = Delivered \cup {d}
         /\ IsFiniteSet(Delivered')
         /\ Single' => Single /\ Delivered' = {d}
<1>1. Delivered' = Delivered \cup {d}
  BY DEF Delivered, At
<1>2. IsFiniteSet(Delivered')
  BY <1>1, FS_AddElement DEF PInv
<1> QED BY <1>1, <1>2 DEF Single

-----------------------------------------------------------------------------
LEMMA PInvStarts == Init => PInv
<1> SUFFICES ASSUME Init PROVE PInv
  OBVIOUS
<1>1. /\ job = FreshJob /\ results = {} /\ csv = {} /\ request = "new"
      /\ \A d \in Run : run[d].pc = "waiting" /\ run[d].made = {} /\ run[d].processed = 0
  BY DEF Init, FreshJob
<1>2. Delivered = {}
  BY <1>1 DEF Delivered, At
<1>3. IsFiniteSet(Delivered) /\ \A d \in Run : Counts(run[d])
  BY <1>1, <1>2, FS_EmptySet DEF Counts
<1>4. OwnRows /\ BeforeCommit /\ BeforeDelivery /\ JobFollows
  BY <1>1, <1>2 DEF OwnRows, BeforeCommit, BeforeDelivery, JobFollows
<1>5. ProgressCounted
  BY <1>1, FS_EmptySet DEF ProgressCounted, FreshJob
<1> QED BY <1>3, <1>4, <1>5, InitIInv DEF PInv

(* The steps of a run that make no result. *)
LEMMA MovesKeep ==
  ASSUME PInv, NEW d \in Run,
         Deliver(d) \/ ReadJob(d) \/ MarkProcessing(d) \/ UploadCsv(d) \/ Raise(d) \/ Crash(d)
  PROVE  PInv'
<1>1. TypeOK /\ IInv'
  BY MoveSteps DEF PInv, IInv
<1>2. PICK pc \in {"started", "queued", "screening", "uploaded", "ended", "dead"} : Goto(d, pc)
  BY DEF Deliver, ReadJob, MarkProcessing, UploadCsv, Raise, Crash
<1>3. /\ run'[d].pc = pc /\ run'[d].made = run[d].made /\ run'[d].processed = run[d].processed
      /\ \A e \in Run \ {d} : run'[e] = run[e]
  BY <1>1, <1>2, MovedParts
<1>4. ~At(d, "waiting")'
  BY <1>2, <1>3 DEF At
<1>5. /\ Delivered' = Delivered \cup {d} /\ IsFiniteSet(Delivered')
      /\ Single' => Single /\ Delivered' = {d}
  BY <1>3, <1>4, DeliveredGrows
<1>6. results' = results /\ request' = request
  BY DEF Deliver, ReadJob, MarkProcessing, UploadCsv, Raise, Crash
<1>7. \A e \in Run : Counts(run'[e])
  BY <1>3 DEF PInv, Counts
<1>8. OwnRows'
  BY <1>3, <1>4, <1>6 DEF PInv, OwnRows, At
<1>9. job' = job \/ (request = "committed" /\ job' = [job EXCEPT !.status = "failed"])
      \/ MarkProcessing(d)
  BY DEF Deliver, ReadJob, UploadCsv, Raise, Crash, FailedJob
<1>10. BeforeCommit'
  <2>1. request # "committed" => ~MarkProcessing(d) /\ ~UploadCsv(d)
    BY DEF PInv, BeforeCommit, MarkProcessing, UploadCsv, At
  <2>2. request # "committed" => run'[d].pc \in {"waiting", "started", "ended", "dead"}
    BY <2>1, <1>1, <1>3, MovedParts DEF Deliver, ReadJob, Raise, Crash
  <2> QED BY <1>3, <1>6, <1>9, <2>1, <2>2 DEF PInv, BeforeCommit
<1>11. BeforeDelivery'
  BY <1>5 DEF BeforeDelivery
<1>12. ProgressCounted'
  <2>1. job'.processed = job.processed
    BY <1>1, <1>9 DEF MarkProcessing, TypeOK
  <2> QED BY <1>5, <1>6, <2>1 DEF PInv, ProgressCounted
<1>13. ASSUME Single' PROVE Follows(d)'
  <2>1. Single /\ (d \in Delivered => Follows(d))
    BY <1>5, <1>13 DEF PInv, JobFollows
  <2>2. CASE Deliver(d)
    <3>1. Delivered = {}
      BY <1>5, <1>13, <2>2 DEF Deliver, Delivered, At
    <3>2. job = FreshJob /\ job' = job /\ run'[d].pc = "started"
      BY <1>1, <2>2, <3>1, MovedParts DEF PInv, BeforeDelivery, Deliver
    <3> QED BY <3>2 DEF Follows, FreshJob, At
  <2>3. CASE ReadJob(d)
    <3>1. Follows(d) /\ job' = job /\ run[d].pc = "started"
      BY <2>1, <2>3 DEF ReadJob, At, Delivered
    <3>2. \/ run'[d].pc = "queued" /\ job.status = "queued"
          \/ run'[d].pc = "ended"
      BY <1>1, <2>3, MovedParts DEF ReadJob
    <3> QED BY <3>1, <3>2 DEF Follows, At, Alive
  <2>4. CASE MarkProcessing(d)
    <3>1. Follows(d) /\ job' = [job EXCEPT !.status = "processing"] /\ run[d].pc = "queued"
      BY <2>1, <2>4 DEF MarkProcessing, At, Delivered
    <3>2. run'[d].pc = "screening"
      BY <1>1, <2>4, MovedParts DEF MarkProcessing
    <3>3. job'.status = "processing" /\ job'.file = job.file
      BY <1>1, <3>1 DEF TypeOK
    <3> QED BY <3>1, <3>2, <3>3 DEF Follows, At, Alive
  <2>5. CASE UploadCsv(d)
    <3>1. Follows(d) /\ job' = job /\ run[d].pc = "screening" /\ csv' = {d} \X run[d].made
      BY <2>1, <2>5 DEF UploadCsv, At, Delivered
    <3>2. run'[d].pc = "uploaded"
      BY <1>1, <2>5, MovedParts DEF UploadCsv
    <3> QED BY <1>3, <3>1, <3>2 DEF Follows, At, Alive
  <2>6. CASE Raise(d) \/ Crash(d)
    <3>1. run'[d].pc \in {"ended", "dead"}
      BY <1>1, <2>6, MovedParts DEF Raise, Crash
    <3> QED BY <3>1 DEF Follows, At, Alive
  <2> QED BY <2>2, <2>3, <2>4, <2>5, <2>6
<1>14. JobFollows'
  BY <1>5, <1>13 DEF JobFollows
<1> QED BY <1>1, <1>5, <1>7, <1>8, <1>10, <1>11, <1>12, <1>14 DEF PInv

(* What a screened row changes. *)
LEMMA RowParts ==
  ASSUME PInv, NEW d \in Run, ScreenRow(d)
  PROVE  /\ run[d].pc = "screening" /\ run'[d].pc = "screening"
         /\ UNCHANGED <<request, csv, usage>>
         /\ \A e \in Run \ {d} : run'[e] = run[e]
         /\ \/ /\ run'[d].made = run[d].made /\ run'[d].processed = run[d].processed
               /\ UNCHANGED <<job, results>>
            \/ \E i \in Row \ run[d].made :
                 /\ run'[d].made = run[d].made \cup {i}
                 /\ run'[d].processed = run[d].processed + 1
                 /\ \/ UNCHANGED <<job, results>>
                    \/ /\ job' = [job EXCEPT !.processed = run'[d].processed]
                       /\ results' = Kept(d, run'[d].made)
<1>1. TypeOK /\ MadeSoFar(run[d])
  BY DEF PInv, IInv, RunFits
<1>2. run \in [Run -> RunRecord] /\ run[d] \in RunRecord
  BY <1>1, RunsTyped
<1>3. PICK i : i = run[d].next
  OBVIOUS
<1>4. /\ run[d].pc = "screening" /\ i \in Row /\ UNCHANGED <<request, csv, usage>>
  BY <1>3 DEF ScreenRow, At
<1>5. i \notin run[d].made
  BY <1>1, <1>3, <1>4 DEF MadeSoFar, Row
<1>6. CASE i \in Blank
  <2>1. run' = [run EXCEPT ![d].next = i + 1] /\ UNCHANGED <<job, results>>
    BY <1>3, <1>6 DEF ScreenRow
  <2> QED BY <1>2, <1>4, <2>1 DEF RunRecord
<1>7. CASE i \notin Blank /\ (run[d].processed + 1) % Chunk = 0
  <2>1. /\ run' = [run EXCEPT ![d].next = i + 1, ![d].processed = run[d].processed + 1,
                             ![d].made = run[d].made \cup {i},
                             ![d].kept = run[d].made \cup {i}]
        /\ job' = [job EXCEPT !.processed = run[d].processed + 1]
        /\ results' = Kept(d, run[d].made \cup {i})
    BY <1>3, <1>7 DEF ScreenRow, Progress
  <2>2. /\ run'[d].pc = "screening" /\ run'[d].made = run[d].made \cup {i}
        /\ run'[d].processed = run[d].processed + 1
        /\ \A e \in Run \ {d} : run'[e] = run[e]
    BY <1>2, <1>4, <2>1 DEF RunRecord
  <2> QED BY <1>4, <1>5, <2>1, <2>2
<1>8. CASE i \notin Blank /\ (run[d].processed + 1) % Chunk # 0
  <2>1. /\ run' = [run EXCEPT ![d].next = i + 1, ![d].processed = run[d].processed + 1,
                             ![d].made = run[d].made \cup {i}]
        /\ UNCHANGED <<job, results>>
    BY <1>3, <1>8 DEF ScreenRow
  <2>2. /\ run'[d].pc = "screening" /\ run'[d].made = run[d].made \cup {i}
        /\ run'[d].processed = run[d].processed + 1
        /\ \A e \in Run \ {d} : run'[e] = run[e]
    BY <1>2, <1>4, <2>1 DEF RunRecord
  <2> QED BY <1>4, <1>5, <2>1, <2>2
<1> QED BY <1>6, <1>7, <1>8

(* While there is one delivery, all results are of its run. *)
LEMMA ResultsOfTheRun ==
  ASSUME PInv, Single, NEW d \in Delivered
  PROVE  results \subseteq {d} \X run[d].made
<1>1. \A e \in Run, i \in Row : <<e, i>> \in results => i \in run[e].made /\ e = d
  BY DEF PInv, OwnRows, Single, Delivered
<1>2. results \subseteq Run \X Row /\ d \in Run
  BY DEF PInv, IInv, TypeOK, Result, Delivered
<1> QED BY <1>1, <1>2

(* A commit leaves as many results as the run has counted. *)
LEMMA CommitCounts ==
  ASSUME PInv, Single, NEW d \in Delivered, NEW rows,
         run[d].made \subseteq rows, results' = Kept(d, rows), IsFiniteSet(rows)
  PROVE  results' = {d} \X rows /\ Cardinality(results') = Cardinality(rows)
<1>1. results' = {d} \X rows
  BY ResultsOfTheRun DEF Kept
<1> QED BY <1>1, PairsCount

LEMMA RowKeeps ==
  ASSUME PInv, NEW d \in Run, ScreenRow(d)
  PROVE  PInv'
<1>1. TypeOK /\ IInv'
  BY ScreenRowIInv DEF PInv, IInv
<1>2. /\ run[d].pc = "screening" /\ run'[d].pc = "screening"
      /\ UNCHANGED <<request, csv, usage>>
      /\ \A e \in Run \ {d} : run'[e] = run[e]
  BY RowParts
<1>3. /\ Delivered' = Delivered \cup {d} /\ IsFiniteSet(Delivered')
      /\ Single' => Single /\ Delivered' = {d}
      /\ d \in Delivered
  BY <1>2, DeliveredGrows DEF At, Delivered
<1>4. run[d].made \subseteq run'[d].made /\ run'[d].made \subseteq Row
  <2>1. run[d].made \subseteq Row
    BY <1>1, RunsTyped DEF RunRecord
  <2> QED BY <2>1, RowParts
<1>5. Counts(run'[d])
  <2>1. IsFiniteSet(run[d].made) /\ Cardinality(run[d].made) = run[d].processed
    BY DEF PInv, Counts
  <2>2. ASSUME NEW i \in Row \ run[d].made, run'[d].made = run[d].made \cup {i},
               run'[d].processed = run[d].processed + 1
        PROVE  Counts(run'[d])
    BY <2>1, <2>2, FS_AddElement DEF Counts
  <2> QED BY <2>1, <2>2, RowParts DEF Counts
<1>6. \A e \in Run : Counts(run'[e])
  BY <1>2, <1>5 DEF PInv
<1>7. results' = results \/ results' = Kept(d, run'[d].made)
  BY RowParts
<1>8. OwnRows'
  <2>1. \A e \in Run, i \in Row : <<e, i>> \in results' => i \in run'[e].made
    BY <1>2, <1>4, <1>7 DEF PInv, OwnRows, Kept
  <2>2. \A e \in Run : At(e, "waiting")' => run'[e].made = {}
    BY <1>2 DEF PInv, OwnRows, At
  <2> QED BY <2>1, <2>2 DEF OwnRows
<1>9. request' = "committed"
  BY <1>2 DEF PInv, BeforeCommit
<1>10. BeforeCommit' /\ BeforeDelivery'
  BY <1>3, <1>9 DEF BeforeCommit, BeforeDelivery
<1>11. job'.status = job.status /\ job'.file = job.file
  BY <1>1, RowParts DEF TypeOK
<1>12. JobFollows'
  <2> SUFFICES ASSUME Single' PROVE Follows(d)'
    BY <1>3 DEF JobFollows
  <2>1. Follows(d)
    BY <1>3 DEF PInv, JobFollows
  <2> QED BY <1>2, <1>11, <2>1 DEF Follows, At, Alive
<1>13. ProgressCounted'
  <2> SUFFICES ASSUME Single' PROVE job'.processed = Cardinality(results')
    BY DEF ProgressCounted
  <2>1. CASE UNCHANGED <<job, results>>
    BY <1>3, <2>1 DEF PInv, ProgressCounted
  <2>2. CASE job' = [job EXCEPT !.processed = run'[d].processed]
             /\ results' = Kept(d, run'[d].made)
    <3>1. Cardinality(results') = Cardinality(run'[d].made)
      BY <1>3, <1>4, <1>5, <2>2, CommitCounts DEF Counts
    <3>2. job'.processed = run'[d].processed
      BY <1>1, <2>2 DEF TypeOK
    <3> QED BY <1>5, <3>1, <3>2 DEF Counts
  <2> QED BY <2>1, <2>2, RowParts
<1> QED BY <1>1, <1>3, <1>6, <1>8, <1>10, <1>12, <1>13 DEF PInv

LEMMA CompleteKeeps ==
  ASSUME PInv, NEW d \in Run, Complete(d)
  PROVE  PInv'
<1>1. TypeOK /\ IInv'
  BY CompleteIInv DEF PInv, IInv
<1>2. /\ run[d].pc = "uploaded" /\ Goto(d, "ended") /\ UNCHANGED <<request, csv>>
      /\ job' = [status |-> "complete", processed |-> run[d].processed, file |-> TRUE]
      /\ results' = Kept(d, run[d].made)
  BY DEF Complete, CommitOf, At
<1>3. /\ run'[d].pc = "ended" /\ run'[d].made = run[d].made
      /\ run'[d].processed = run[d].processed
      /\ \A e \in Run \ {d} : run'[e] = run[e]
  BY <1>1, <1>2, MovedParts
<1>4. /\ Delivered' = Delivered \cup {d} /\ IsFiniteSet(Delivered')
      /\ Single' => Single /\ Delivered' = {d}
      /\ d \in Delivered
  BY <1>2, <1>3, DeliveredGrows DEF At, Delivered
<1>5. \A e \in Run : Counts(run'[e])
  BY <1>3 DEF PInv, Counts
<1>6. OwnRows'
  BY <1>2, <1>3 DEF PInv, OwnRows, Kept, At
<1>7. request' = "committed"
  BY <1>2 DEF PInv, BeforeCommit
<1>8. BeforeCommit' /\ BeforeDelivery'
  BY <1>4, <1>7 DEF BeforeCommit, BeforeDelivery
<1>9. JobFollows'
  BY <1>3, <1>4 DEF JobFollows, Follows, At, Alive
<1>10. ProgressCounted'
  <2> SUFFICES ASSUME Single' PROVE job'.processed = Cardinality(results')
    BY DEF ProgressCounted
  <2>1. Counts(run[d])
    BY DEF PInv
  <2>2. Cardinality(results') = Cardinality(run[d].made)
    BY <1>2, <1>4, <2>1, CommitCounts DEF Counts
  <2> QED BY <1>2, <2>1, <2>2 DEF Counts
<1> QED BY <1>1, <1>4, <1>5, <1>6, <1>8, <1>9, <1>10 DEF PInv

(* The request takes no part once it has committed. *)
LEMMA RequestKeeps ==
  ASSUME PInv, Enqueue \/ EndRequest
  PROVE  PInv'
<1>1. IInv'
  BY NextIInv DEF PInv, Next
<1>2. request # "committed" /\ UNCHANGED <<job, results, csv, usage, run>>
  BY DEF Enqueue, EndRequest
<1>3. BeforeCommit'
  BY <1>2 DEF PInv, BeforeCommit
<1> QED BY <1>1, <1>2, <1>3 DEF PInv, OwnRows, BeforeDelivery, JobFollows, Follows, Alive,
                                ProgressCounted, Single, Delivered, At

LEMMA StepKeeps == PInv /\ [Next]_vars => PInv'
<1> SUFFICES ASSUME PInv, [Next]_vars PROVE PInv'
  OBVIOUS
<1>1. CASE Enqueue \/ EndRequest
  BY <1>1, RequestKeeps
<1>2. ASSUME NEW d \in Run, Step(d) \/ Raise(d) \/ Crash(d) PROVE PInv'
  BY <1>2, MovesKeep, RowKeeps, CompleteKeeps DEF Step
<1>3. CASE UNCHANGED vars
  <2>1. IInv'
    BY <1>3, NextIInv DEF PInv
  <2> QED BY <1>3, <2>1 DEF vars, PInv, OwnRows, BeforeCommit, BeforeDelivery, JobFollows,
                            Follows, Alive, ProgressCounted, Single, Delivered, At
<1> QED BY <1>1, <1>2, <1>3 DEF Next

LEMMA AlwaysPInv == Spec => []PInv
BY PInvStarts, StepKeeps, PTL DEF Spec

-----------------------------------------------------------------------------
(* While its message has been delivered once, the progress shown for a job *)
(* is the number of its committed results, for any number of rows and any  *)
(* chunk size, wherever the run raises or dies.                            *)
THEOREM ProgressIsTrue == Spec => []ProgressIsCommitted
<1>1. PInv => ProgressIsCommitted
  BY SingleIsOneDelivery DEF PInv, ProgressCounted, ProgressIsCommitted
<1> QED
  BY <1>1, AlwaysPInv, PTL

-----------------------------------------------------------------------------
(* What the reader of the job sees. *)
Shown == IF request = "committed" THEN job.status ELSE "none"
Screened == {i \in Row : \E d \in Run : <<d, i>> \in results}
Listed == IF job.file THEN {i \in Row : \E d \in Run : <<d, i>> \in csv} ELSE {}

PromiseStep == [Promise!Next]_(Promise!vars)

LEMMA PromiseStarts == Init => Promise!Init
BY DEF Init, Promise!Init

(* A step that changes nothing of what is seen. *)
LEMMA Unseen ==
  ASSUME UNCHANGED <<Shown, Screened, Listed>>
  PROVE  PromiseStep
BY DEF PromiseStep, Promise!vars, Shown, Screened, Listed

LEMMA RequestPromises ==
  ASSUME PInv, Enqueue \/ EndRequest
  PROVE  PromiseStep
<1>1. request # "committed" /\ UNCHANGED <<job, results, csv, usage, run>>
  BY DEF Enqueue, EndRequest
<1>2. job.status = "queued"
  BY <1>1 DEF PInv, BeforeCommit, FreshJob
<1>3. CASE request' = "committed"
  <2>1. Promise!Accept
    BY <1>1, <1>2, <1>3 DEF Promise!Accept
  <2> QED BY <2>1 DEF PromiseStep, Promise!Next
<1>4. CASE request' # "committed"
  BY <1>1, <1>4, Unseen DEF Shown, Screened, Listed
<1> QED BY <1>3, <1>4

(* The only run finds the job where it left it. *)
LEMMA OnlyRun ==
  ASSUME PInv, Single, NEW d \in Delivered
  PROVE  Follows(d) /\ d \in Run
BY DEF PInv, JobFollows, Delivered

LEMMA RunningIsDelivered ==
  ASSUME NEW d \in Run, ~At(d, "waiting"), ~At(d, "waiting")', Single',
         \A e \in Run \ {d} : run'[e] = run[e]
  PROVE  d \in Delivered /\ Single
BY DEF Single, Delivered, At

(* The rows that have a result when they are all of one run. *)
LEMMA ScreenedByOne ==
  ASSUME NEW d \in Run, NEW rows \in SUBSET Row, NEW made, made = {d} \X rows
  PROVE  {i \in Row : \E e \in Run : <<e, i>> \in made} = rows
OBVIOUS

LEMMA MovesPromise ==
  ASSUME PInv, PInv', Single', NEW d \in Run,
         Deliver(d) \/ ReadJob(d) \/ MarkProcessing(d) \/ UploadCsv(d) \/ Raise(d) \/ Crash(d)
  PROVE  PromiseStep
<1>1. TypeOK
  BY DEF PInv, IInv
<1>2. request' = request /\ results' = results
  BY DEF Deliver, ReadJob, MarkProcessing, UploadCsv, Raise, Crash
<1>3. CASE UNCHANGED <<job, csv>>
  BY <1>2, <1>3, Unseen DEF Shown, Screened, Listed
<1>4. ASSUME MarkProcessing(d) \/ UploadCsv(d) \/ Raise(d)
      PROVE  /\ Follows(d) /\ Alive(d)
  <2>1. \E pc \in Pc \ {"waiting"} : Goto(d, pc)
    BY <1>4 DEF MarkProcessing, UploadCsv, Raise, Pc
  <2>2. /\ ~At(d, "waiting")' /\ \A e \in Run \ {d} : run'[e] = run[e]
    BY <1>1, <2>1, MovedParts DEF At
  <2>3. Alive(d)
    BY <1>4 DEF MarkProcessing, UploadCsv, Raise, Alive, At
  <2>4. Single /\ d \in Delivered
    BY <2>2, <2>3, RunningIsDelivered DEF At, Alive
  <2> QED BY <2>3, <2>4, OnlyRun
<1>5. CASE MarkProcessing(d)
  <2>1. /\ run[d].pc = "queued" /\ job' = [job EXCEPT !.status = "processing"]
        /\ UNCHANGED <<request, results, csv>>
    BY <1>5 DEF MarkProcessing, At
  <2>2. request = "committed" /\ job.status = "queued"
    BY <1>4, <1>5, <2>1 DEF PInv, BeforeCommit, Follows
  <2>3. job'.status = "processing" /\ job'.file = job.file
    BY <1>1, <2>1 DEF TypeOK
  <2>4. Promise!Start
    BY <2>1, <2>2, <2>3 DEF Promise!Start
  <2> QED BY <2>4 DEF PromiseStep, Promise!Next
<1>6. CASE UploadCsv(d)
  <2>1. job' = job
    BY <1>6 DEF UploadCsv
  <2>2. ~job.file
    BY <1>4, <1>6 DEF Follows
  <2> QED BY <1>2, <2>1, <2>2, Unseen DEF Shown, Screened, Listed
<1>7. CASE Raise(d) /\ request = "committed" /\ job' = FailedJob
  <2>1. job' = [job EXCEPT !.status = "failed"] /\ UNCHANGED csv
    BY <1>7 DEF Raise, FailedJob
  <2>2. job'.status = "failed" /\ job'.file = job.file
    BY <1>1, <2>1 DEF TypeOK
  <2>3. job.status \in {"queued", "processing"}
    BY <1>4, <1>7 DEF Follows, Alive
  <2>4. Promise!Fail
    BY <1>2, <1>7, <2>1, <2>2, <2>3 DEF Promise!Fail
  <2> QED BY <2>4 DEF PromiseStep, Promise!Next
<1> QED BY <1>3, <1>5, <1>6, <1>7 DEF Deliver, ReadJob, Raise, Crash, FailedJob

LEMMA RowPromises ==
  ASSUME PInv, PInv', Single', NEW d \in Run, ScreenRow(d)
  PROVE  PromiseStep
<1>1. TypeOK /\ TypeOK' /\ MadeSoFar(run[d])'
  BY DEF PInv, IInv, RunFits
<1>2. /\ run[d].pc = "screening" /\ run'[d].pc = "screening"
      /\ UNCHANGED <<request, csv, usage>>
      /\ \A e \in Run \ {d} : run'[e] = run[e]
  BY RowParts
<1>3. Single /\ d \in Delivered
  BY <1>2, RunningIsDelivered DEF At
<1>4. Follows(d)
  BY <1>3, OnlyRun
<1>5. CASE UNCHANGED <<job, results>>
  BY <1>2, <1>5, Unseen DEF Shown, Screened, Listed
<1>6. CASE /\ job' = [job EXCEPT !.processed = run'[d].processed]
           /\ results' = Kept(d, run'[d].made)
           /\ run[d].made \subseteq run'[d].made
  <2>1. job'.status = job.status /\ job'.file = job.file
    BY <1>1, <1>6 DEF TypeOK
  <2>2. run'[d].made \subseteq Named /\ Named \subseteq Row
    BY <1>1 DEF MadeSoFar, Named
  <2>3. results' = {d} \X run'[d].made
    BY <1>3, <1>6, ResultsOfTheRun DEF Kept
  <2>4. Screened' = run'[d].made
    <3>1. PICK rows \in SUBSET Row : rows = run'[d].made
      BY <2>2
    <3>2. results' = {d} \X rows
      BY <2>3, <3>1
    <3>3. Screened' = rows
      BY <3>1, <3>2, ScreenedByOne DEF Screened
    <3> QED BY <3>1, <3>3
  <2>5. results \subseteq results'
    BY <1>6 DEF Kept
  <2>6. Screened \subseteq Screened'
    BY <2>5 DEF Screened
  <2>7. \E more \in SUBSET (Named \ Screened) : Screened' = Screened \cup more
    <3>1. Screened' \ Screened \in SUBSET (Named \ Screened)
      BY <2>2, <2>4
    <3> QED BY <2>6, <3>1
  <2>8. request = "committed" /\ job.status = "processing" /\ ~job.file
    BY <1>2, <1>4 DEF PInv, BeforeCommit, Follows, Alive
  <2>9. Promise!Progress
    BY <1>2, <2>1, <2>7, <2>8 DEF Promise!Progress, Screened
  <2> QED BY <2>9 DEF PromiseStep, Promise!Next
<1>7. run[d].made \subseteq run'[d].made
  BY RowParts
<1> QED BY <1>5, <1>6, <1>7, RowParts

LEMMA CompletePromises ==
  ASSUME PInv, PInv', Single', NEW d \in Run, Complete(d)
  PROVE  PromiseStep
<1>1. TypeOK /\ RunFits(run[d])
  BY DEF PInv, IInv
<1>2. /\ run[d].pc = "uploaded" /\ Goto(d, "ended") /\ UNCHANGED <<request, csv>>
      /\ job' = [status |-> "complete", processed |-> run[d].processed, file |-> TRUE]
      /\ results' = Kept(d, run[d].made)
  BY DEF Complete, CommitOf, At
<1>3. /\ ~At(d, "waiting")' /\ \A e \in Run \ {d} : run'[e] = run[e]
  BY <1>1, <1>2, MovedParts DEF At
<1>4. Single /\ d \in Delivered
  BY <1>2, <1>3, RunningIsDelivered DEF At
<1>5. Follows(d)
  BY <1>4, OnlyRun
<1>6. run[d].made = Named /\ Named \subseteq Row
  BY <1>1, <1>2, RowsAssumption DEF RunFits, MadeSoFar, Named, Row
<1>7. csv = {d} \X Named /\ results' = {d} \X Named
  BY <1>2, <1>4, <1>5, <1>6, ResultsOfTheRun DEF Follows, At, Kept
<1>8. Screened' = Named /\ Listed' = Named
  BY <1>2, <1>6, <1>7, ScreenedByOne DEF Screened, Listed
<1>9. request = "committed" /\ job.status = "processing" /\ job'.status = "complete"
  BY <1>2, <1>5 DEF PInv, BeforeCommit, Follows
<1>10. Promise!Complete
  BY <1>2, <1>8, <1>9 DEF Promise!Complete, Screened, Listed
<1> QED BY <1>10 DEF PromiseStep, Promise!Next

LEMMA EveryStepPromises ==
  ASSUME PInv, PInv', [Next]_vars, Single'
  PROVE  PromiseStep
<1>1. CASE Enqueue \/ EndRequest
  BY <1>1, RequestPromises
<1>2. ASSUME NEW d \in Run, Step(d) \/ Raise(d) \/ Crash(d) PROVE PromiseStep
  BY <1>2, MovesPromise, RowPromises, CompletePromises DEF Step
<1>3. CASE UNCHANGED vars
  BY <1>3, Unseen DEF vars, Shown, Screened, Listed
<1> QED BY <1>1, <1>2, <1>3 DEF Next

(* While its message has been delivered once, a job keeps what batch       *)
(* screening promises, through exceptions and crashes: it is taken up      *)
(* once, no named row is screened twice, and a complete job's report lists *)
(* a result for each named row.                                            *)
THEOREM BatchKeepsPromise == Spec => KeepsPromise
<1>1. PInv /\ PInv' /\ [Next]_vars => [OneDelivery' => Promise!Next]_(Promise!vars)
  <2> SUFFICES ASSUME PInv, PInv', [Next]_vars
               PROVE  [OneDelivery' => Promise!Next]_(Promise!vars)
    OBVIOUS
  <2>1. IsFiniteSet(Delivered')
    BY DEF PInv
  <2>2. OneDelivery' => Single'
    BY <2>1, AtMostOne DEF OneDelivery, Single, Delivered
  <2>3. Single' => PromiseStep
    BY EveryStepPromises
  <2> QED BY <2>2, <2>3 DEF PromiseStep
<1> QED
  BY <1>1, PromiseStarts, AlwaysPInv, PTL DEF Spec, KeepsPromise
=============================================================================
