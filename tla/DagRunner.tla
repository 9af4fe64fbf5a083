----------------------------- MODULE DagRunner -----------------------------
(***************************************************************************)
(* DagPipelineRunner.execute_pipeline in execution/stage_runner.py: a      *)
(* graphlib.TopologicalSorter hands out the jobs whose dependencies are    *)
(* done, and each set it hands out is one batch of BaseRunner.             *)
(***************************************************************************)
EXTENDS BaseRunner, Sequences

VARIABLES
    pc,              \* where execute_pipeline is
    passed,          \* nodes the sorter has handed out (get_ready)
    finished,        \* nodes marked done in the sorter
    failed_jobs,     \* jobs that failed hard or softly
    success,
    first_error,     \* the job whose error will be raised, or NoJob
    raising,         \* an exception is leaving execute_pipeline
    cancel_event,    \* set by the other thread, read by is_cancelled
    calls            \* the pipeline-level callbacks called so far

dagVars == <<pc, passed, finished, failed_jobs, success, first_error, raising, calls>>
vars == <<config, batchVars, dagVars, cancel_event>>

PCs == {"start", "build", "check", "ready", "run", "over", "finally", "returned", "raised"}
Callbacks == {"start", "cancelled", "complete_ok", "complete_failed"}

Init ==
    /\ BatchInit
    /\ pc = "start"
    /\ passed = {}
    /\ finished = {}
    /\ failed_jobs = {}
    /\ success = TRUE
    /\ first_error = NoJob
    /\ raising = FALSE
    /\ cancel_event = FALSE
    /\ calls = << >>

-----------------------------------------------------------------------------
(* The graph (build_dag).                                                  *)

EarlierStage(j) == {k \in Jobs : pipeline.stage[k] < pipeline.stage[j]}

\* (mutant) a job without needs: depends on nothing
PredecessorsNamed(j) == pipeline.needs[j]

\* A job with needs: depends on them alone, one without on every job of an earlier stage.
Predecessors(j) == IF pipeline.needs[j] # {} THEN pipeline.needs[j] ELSE EarlierStage(j)

\* The sorter knows the jobs and every name some needs: mentions.
Nodes == Jobs \cup (UNION {pipeline.needs[j] : j \in Jobs})

\* ts.prepare() raises CycleError: some set of jobs has no first one.
Cyclic == \E js \in SUBSET Jobs \ {{}} : \A j \in js : Predecessors(j) \cap js # {}

TypeOK ==
    /\ BatchTypeOK
    /\ pc \in PCs
    /\ passed \subseteq Nodes
    /\ finished \subseteq Nodes
    /\ failed_jobs \subseteq Jobs
    /\ success \in BOOLEAN
    /\ first_error \in Jobs \cup {NoJob}
    /\ raising \in BOOLEAN
    /\ cancel_event \in BOOLEAN
    /\ calls \in Seq(Callbacks)

Ready == {n \in Nodes \ passed : n \in Jobs => Predecessors(n) \subseteq finished}

\* (mutant) any failure counts for a job with needs: too
SelectedStrictly(j) ==
    \/ pipeline.when[j] = "always"
    \/ pipeline.when[j] = "on_failure" /\ failed_jobs # {}
    \/ pipeline.when[j] = "on_success" /\ failed_jobs = {}

\* (mutant) only the failures that needs: names count, for a job without needs: as well
SelectedLoosely(j) ==
    \/ pipeline.when[j] = "always"
    \/ pipeline.when[j] = "on_failure" /\ failed_jobs # {}
    \/ pipeline.when[j] = "on_success" /\ pipeline.needs[j] \cap failed_jobs = {}

\* The when: test of a ready job.  With needs: only the needs count, without them any
\* failure of the run so far does.
Selected(j) ==
    \/ pipeline.when[j] = "always"
    \/ pipeline.when[j] = "on_failure" /\ failed_jobs # {}
    \/ /\ pipeline.when[j] = "on_success"
       /\ IF pipeline.needs[j] # {} THEN pipeline.needs[j] \cap failed_jobs = {}
                                    ELSE failed_jobs = {}

-----------------------------------------------------------------------------
Start ==
    /\ pc = "start"
    /\ pc' = "build"
    /\ calls' = Append(calls, "start")
    /\ UNCHANGED <<config, batchVars, passed, finished, failed_jobs, success, first_error,
                   raising, cancel_event>>

\* A cycle raises before the try block is entered.
BuildDag ==
    /\ pc = "build"
    /\ pc' = IF Cyclic THEN "raised" ELSE "check"
    /\ raising' = Cyclic
    /\ UNCHANGED <<config, batchVars, passed, finished, failed_jobs, success, first_error,
                   cancel_event, calls>>

\* ts.is_active()
IsActive == finished # passed \/ Ready # {}

\* The check at the head of the loop; a cancelled run returns without raising first_error.
CheckCancelled ==
    /\ pc = "check"
    /\ IsActive
    /\ cancel_event
    /\ pc' = "finally"
    /\ success' = FALSE
    /\ calls' = Append(calls, "cancelled")
    /\ UNCHANGED <<config, batchVars, passed, finished, failed_jobs, first_error, raising,
                   cancel_event>>

CheckPassed ==
    /\ pc = "check"
    /\ IsActive
    /\ ~cancel_event
    /\ pc' = "ready"
    /\ UNCHANGED <<config, batchVars, passed, finished, failed_jobs, success, first_error,
                   raising, cancel_event, calls>>

\* get_ready and the loop over its names: an empty list ends the loop; names without a job
\* and jobs that are not selected are done at once, the rest is the next batch.
TakeReady ==
    LET batch == {j \in Ready \cap Jobs : Selected(j)}
    IN  /\ pc = "ready"
        /\ passed' = passed \cup Ready
        /\ finished' = finished \cup (Ready \ batch)
        /\ pc' = IF Ready = {} THEN "over" ELSE IF batch = {} THEN "check" ELSE "run"
        /\ IF batch = {} THEN UNCHANGED batchVars ELSE StartBatch(batch)
        /\ UNCHANGED <<config, failed_jobs, success, first_error, raising, cancel_event, calls>>

Dispatch ==
    /\ pc = "run"
    /\ DispatchStep(FALSE)
    /\ UNCHANGED <<config, dagVars, cancel_event>>

Worker ==
    /\ WorkerStep
    /\ UNCHANGED <<config, dagVars, cancel_event>>

StillSuccess == success /\ HardFailures = {}

\* The error of the first hard failure in the list of outcomes, in order of completion.
NoteFirstError ==
    IF HardFailures # {} /\ first_error = NoJob
    THEN first_error' \in HardFailures
    ELSE first_error' = first_error

\* on_stage_complete, then ts.done for every outcome of the batch.
CompleteBatch ==
    /\ pc = "run"
    /\ BatchDone
    /\ mode' = "idle"
    /\ pc' = "check"
    /\ finished' = finished \cup outcomes
    /\ failed_jobs' = failed_jobs \cup HardFailures \cup AllowedFailures
    /\ success' = StillSuccess
    /\ NoteFirstError
    /\ UNCHANGED <<config, todo, outcomes, work, ending, outcome, completed, known, collected,
                   inputs, recorded, passed, raising, cancel_event, calls>>

BatchRaises ==
    /\ pc = "run"
    /\ mode = "raised"
    /\ pc' = "finally"
    /\ success' = FALSE
    /\ raising' = TRUE
    /\ UNCHANGED <<config, batchVars, passed, finished, failed_jobs, first_error,
                   cancel_event, calls>>

\* Behind the loop: a second look at the cancel event, then raise first_error.
LastBatchDone ==
    /\ pc \in {"check", "over"}
    /\ pc = "check" => ~IsActive
    /\ pc' = "finally"
    /\ success' = (success /\ ~cancel_event)
    /\ raising' = (first_error # NoJob)
    /\ calls' = IF cancel_event THEN Append(calls, "cancelled") ELSE calls
    /\ UNCHANGED <<config, batchVars, passed, finished, failed_jobs, first_error, cancel_event>>

Finally ==
    /\ pc = "finally"
    /\ calls' = Append(calls, IF success THEN "complete_ok" ELSE "complete_failed")
    /\ pc' = IF raising THEN "raised" ELSE "returned"
    /\ UNCHANGED <<config, batchVars, passed, finished, failed_jobs, success, first_error,
                   raising, cancel_event>>

Cancel ==
    /\ ~cancel_event
    /\ pc \notin {"returned", "raised"}
    /\ cancel_event' = TRUE
    /\ UNCHANGED <<config, batchVars, dagVars>>

Ended == pc \in {"returned", "raised"}
Terminated == Ended /\ UNCHANGED vars

RunnerStep ==
    \/ Start \/ BuildDag \/ CheckCancelled \/ CheckPassed \/ TakeReady \/ Dispatch
    \/ CompleteBatch \/ BatchRaises \/ LastBatchDone \/ Finally

Next == RunnerStep \/ Worker \/ Cancel \/ Terminated

Spec == Init /\ [][Next]_vars

\* The dispatching thread keeps running; scripts end or are killed by their timeout.
Fairness == WF_vars(RunnerStep) /\ WF_vars(Worker)
FairSpec == Spec /\ Fairness

-----------------------------------------------------------------------------
(* Safety.                                                                 *)

Failed(j) == outcome[j] \in {"hard", "allowed"}

\* The jobs that j must wait for: the ones it names, or else all of the earlier stages.
Awaited(j) ==
    {k \in Jobs : \/ k \in pipeline.needs[j]
                  \/ pipeline.needs[j] = {} /\ pipeline.stage[k] < pipeline.stage[j]}

\* The run was broken off, by an exception that left a batch or by a cyclic graph.
Broken == pc = "raised" /\ (mode = "raised" \/ first_error = NoJob)

\* A launched job depends on nothing that is queued, running or not yet reaped, or that
\* the run has not dealt with; batches never overlap.
PrecedenceRespected ==
    \A j \in Launched : \A k \in Awaited(j) :
        k \in finished /\ work[k] \in {"idle", "done"}

\* An on_success job with needs: runs only if none of them failed hard, one without only if
\* no job of an earlier stage did; an on_failure job runs only after a failure.
WhenHonoured ==
    \A j \in Launched :
        /\ pipeline.when[j] = "on_success" => \A k \in Awaited(j) : outcome[k] # "hard"
        /\ pipeline.when[j] = "on_failure" => \E k \in Jobs \ {j} : Failed(k)
        /\ pipeline.when[j] \notin {"manual", "never"}

\* What an on_success job may be stopped by: the jobs it needs, or any job if it needs none.
Stoppers(j) == {k \in Jobs : pipeline.needs[j] # {} => k \in pipeline.needs[j]}

\* What a job may be left out for: it is manual or never, an on_success job behind a hard
\* failure, or an on_failure job none of the jobs it awaits failed.
LeftOutRightly(j) ==
    \/ pipeline.when[j] \in {"manual", "never"}
    \/ pipeline.when[j] = "on_success" /\ \E k \in Stoppers(j) : outcome[k] = "hard"
    \/ pipeline.when[j] = "on_failure" /\ \A k \in Awaited(j) : ~Failed(k)

\* The reason that the code has and the documentation does not know: an on_success job
\* behind a failure that allow_failure tolerates (failed_jobs is commented as the jobs that
\* hard-failed, and has these too).  StageRunner has the same of the other mode.
LeftOutBehindAllowed(j) ==
    pipeline.when[j] = "on_success" /\ \E k \in Stoppers(j) : outcome[k] = "allowed"

\* No job is forgotten: a run that was neither cancelled nor broken off has a reason for
\* every job it did not launch, whatever graph the sorter worked on.
NobodyForgotten ==
    (Ended /\ ~Broken /\ \A i \in DOMAIN calls : calls[i] # "cancelled") =>
        \A j \in Jobs \ Launched : LeftOutRightly(j) \/ LeftOutBehindAllowed(j)

-----------------------------------------------------------------------------
(* Behaviour over time, and the refinement.                                *)

\* execute_pipeline ends: the batches never run dry while the sorter is active.
Termination == <>Ended

StatusOf(j) ==
    CASE work[j] \in {"queued", "running"} -> "active"
      [] work[j] = "exited" -> "ended"
      [] work[j] = "done" ->
            (CASE outcome[j] = "hard" -> "failed"
               [] outcome[j] = "allowed" -> "tolerated"
               [] OTHER -> "succeeded")
      [] OTHER -> IF j \in finished THEN "skipped" ELSE "waiting"

Abstract == INSTANCE PipelineSpec WITH
    before  <- [j \in Jobs |-> Awaited(j)],
    status  <- [j \in Jobs |-> StatusOf(j)],
    verdict <- IF ~Ended THEN "open"
               ELSE IF success /\ ~Broken THEN "passed" ELSE "failed"

\* Every step of the DAG runner is a step of the abstract pipeline, or changes nothing
\* that the abstract pipeline knows of.
ImplementsPipelineSpec == Abstract!Spec

=============================================================================
