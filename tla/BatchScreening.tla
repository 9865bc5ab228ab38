---------------------------- MODULE BatchScreening ----------------------------
(***************************************************************************)
(* One batch screening job, from the request that submits it to the worker *)
(* that runs it.  The request enqueues the Celery task before its own      *)
(* transaction commits.  The task commits when it starts, after every      *)
(* Chunk screened rows and at its end, so that results, alerts and the     *)
(* progress of a chunk become visible together.                            *)
(*                                                                         *)
(* The broker is Redis: a message that a busy worker has reserved for too  *)
(* long is delivered to another one as well.  A run is one delivery.       *)
(***************************************************************************)
EXTENDS Naturals, FiniteSets

CONSTANTS
  Run,         \* the deliveries of the task message
  RowCount,    \* the rows of the job
  Blank,       \* those without a name, which are skipped
  Chunk,       \* the rows between two commits (100 in the code)
  Faults       \* what can go wrong: "raise", "crash", "mark_lost"

ASSUME RowsAssumption == RowCount \in Nat /\ Blank \subseteq 1..RowCount
ASSUME ChunkAssumption == Chunk \in Nat \ {0}

Row == 1..RowCount
Named == Row \ Blank
Result == Run \X Row          \* a ScreeningResult: who made it, for which row

VARIABLES
  request,     \* the submitting request
  job,         \* the BatchJob row, visible from the commit of the request on
  results,     \* the committed ScreeningResult rows
  csv,         \* the results listed by the object at batch_jobs/<id>/results.csv
  usage,       \* the committed usage events of the job
  run          \* the runs of the task

vars == <<request, job, results, csv, usage, run>>

(* A mutant: the enum of the database lacks its last value.                *)
JobStatusBeforeFailure == {"queued", "processing", "complete"}

JobStatus == {"queued", "processing", "complete", "failed"}

TypeOK ==
  /\ request \in {"new", "enqueued", "committed", "rolled_back"}
  /\ job \in [status : JobStatus, processed : 0..RowCount, file : BOOLEAN]
  /\ results \subseteq Result /\ csv \subseteq Result
  /\ usage \in Nat
  /\ run \in [Run -> [pc   : {"waiting", "started", "queued", "screening", "uploaded", "ended", "dead"},
                      next : 1..(RowCount + 1), processed : 0..RowCount,
                      made : SUBSET Row,        \* screened, perhaps not committed
                      kept : SUBSET Row]]       \* screened and committed

Init ==
  /\ request = "new"
  /\ job = [status |-> "queued", processed |-> 0, file |-> FALSE]
  /\ results = {} /\ csv = {} /\ usage = 0
  /\ run = [d \in Run |-> [pc |-> "waiting", next |-> 1, processed |-> 0,
                           made |-> {}, kept |-> {}]]

-----------------------------------------------------------------------------
(* create_batch_job: the job row is flushed and the task sent.             *)
Enqueue ==
  /\ request = "new" /\ request' = "enqueued"
  /\ UNCHANGED <<job, results, csv, usage, run>>

(* get_db: the transaction of the request ends.                            *)
EndRequest ==
  /\ \/ request = "enqueued" /\ request' = "committed"
     \/ request \in {"new", "enqueued"} /\ request' = "rolled_back"
  /\ UNCHANGED <<job, results, csv, usage, run>>

-----------------------------------------------------------------------------
At(d, pc) == run[d].pc = pc
Goto(d, pc) == run' = [run EXCEPT ![d].pc = pc]

Deliver(d) ==
  /\ At(d, "waiting") /\ request # "new"
  /\ Goto(d, "started")
  /\ UNCHANGED <<request, job, results, csv, usage>>

(* "Job not found" and "Job already ..." end the run.                      *)
ReadJob(d) ==
  /\ At(d, "started")
  /\ Goto(d, IF request = "committed" /\ job.status = "queued" THEN "queued" ELSE "ended")
  /\ UNCHANGED <<request, job, results, csv, usage>>

MarkProcessing(d) ==
  /\ At(d, "queued")
  /\ job' = [job EXCEPT !.status = "processing"]
  /\ Goto(d, "screening")
  /\ UNCHANGED <<request, results, csv, usage>>

(* The results of d once its transaction commits.                          *)
Kept(d, rows) == results \cup ({d} \X rows)

(* A mutant: the progress is counted in rows read, blank ones too.         *)
ProgressInRowsRead(next, processed) == next

Progress(next, processed) == processed

ScreenRow(d) ==
  LET i == run[d].next
      n == run[d].processed + 1
      made == run[d].made \cup {i}
  IN
  /\ At(d, "screening") /\ i \in Row
  /\ IF i \in Blank
     THEN run' = [run EXCEPT ![d].next = i + 1] /\ UNCHANGED <<job, results>>
     ELSE IF n % Chunk = 0
     THEN /\ run' = [run EXCEPT ![d].next = i + 1, ![d].processed = n,
                                ![d].made = made, ![d].kept = made]
          /\ job' = [job EXCEPT !.processed = Progress(i, n)]
          /\ results' = Kept(d, made)
     ELSE /\ run' = [run EXCEPT ![d].next = i + 1, ![d].processed = n, ![d].made = made]
          /\ UNCHANGED <<job, results>>
  /\ UNCHANGED <<request, csv, usage>>

UploadCsv(d) ==
  /\ At(d, "screening") /\ run[d].next = RowCount + 1
  /\ csv' = {d} \X run[d].made
  /\ Goto(d, "uploaded")
  /\ UNCHANGED <<request, job, results, usage>>

(* A mutant: the session is not committed with the last rows.              *)
LastCommit(d) == results

(* The last commit covers the rows since the latest chunk.                 *)
CommitOf(d) == Kept(d, run[d].made)

Complete(d) ==
  /\ At(d, "uploaded")
  /\ job' = [status |-> "complete", processed |-> run[d].processed, file |-> TRUE]
  /\ results' = CommitOf(d)
  /\ usage' = usage + 1
  /\ Goto(d, "ended")
  /\ UNCHANGED <<request, csv>>

Alive(d) == run[d].pc \in {"started", "queued", "screening", "uploaded"}

(* A mutant: the handler only rolls back.                                  *)
FailedJobUnmarked == job

(* The UPDATE to failed has no condition but the id, and finds the job     *)
(* once the request has committed.                                         *)
FailedJob == IF request = "committed" THEN [job EXCEPT !.status = "failed"] ELSE job

(* An exception: rollback, then the job is marked; the mark may fail too.  *)
Raise(d) ==
  /\ "raise" \in Faults /\ Alive(d)
  /\ \/ job' = FailedJob /\ Goto(d, "ended")
     \/ "mark_lost" \in Faults /\ UNCHANGED job /\ Goto(d, "dead")
  /\ UNCHANGED <<request, results, csv, usage>>

(* The worker process dies; the message was acknowledged before the run.   *)
Crash(d) ==
  /\ "crash" \in Faults /\ Alive(d)
  /\ Goto(d, "dead")
  /\ UNCHANGED <<request, job, results, csv, usage>>

Step(d) == \/ Deliver(d) \/ ReadJob(d) \/ MarkProcessing(d) \/ ScreenRow(d)
           \/ UploadCsv(d) \/ Complete(d)

Next == Enqueue \/ EndRequest \/ \E d \in Run : Step(d) \/ Raise(d) \/ Crash(d)

Spec == Init /\ [][Next]_vars

(* The API process ends its requests, the workers go on with their runs.   *)
FairSpec == Spec /\ WF_vars(EndRequest) /\ \A d \in Run : WF_vars(Step(d))

-----------------------------------------------------------------------------
Ended == job.status \in {"complete", "failed"}

(* The job row as a reader sees it: absent before the commit.              *)
Promise == INSTANCE BatchPromise
  WITH status   <- IF request = "committed" THEN job.status ELSE "none",
       screened <- {i \in Row : \E d \in Run : <<d, i>> \in results},
       report   <- IF job.file THEN {i \in Row : \E d \in Run : <<d, i>> \in csv} ELSE {}

(* The message has been delivered at most once so far.                     *)
OneDelivery == Cardinality({d \in Run : ~At(d, "waiting")}) <= 1

(* As long as there is one delivery, every step keeps the promise, through *)
(* exceptions and crashes.                                                 *)
KeepsPromise == Promise!Init /\ [][OneDelivery' => Promise!Next]_(Promise!vars)

(* Then the progress shown for a job is the number of its committed        *)
(* results, whatever happened since.                                       *)
ProgressIsCommitted == OneDelivery => job.processed = Cardinality(results)

(* However often the message is delivered, a complete job has a result for *)
(* every named row.                                                        *)
CompleteHasResults ==
  job.status = "complete" => \A i \in Named : \E d \in Run : <<d, i>> \in results

(* A job that is being processed ends, complete or failed, unless a worker *)
(* died or could not even record the failure.                              *)
StartedJobEnds == job.status = "processing" ~> Ended \/ \E d \in Run : At(d, "dead")

-----------------------------------------------------------------------------
(* create_batch_job: "Create batch job and enqueue Celery task.": the task *)
(* of a job that was accepted runs it.                                     *)
AcceptedJobRuns == request = "committed" ~> job.status # "queued"
=============================================================================
