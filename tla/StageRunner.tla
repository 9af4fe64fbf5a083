---------------------------- MODULE StageRunner ----------------------------
(***************************************************************************)
(* StagePipelineRunner.execute_pipeline in execution/stage_runner.py: the  *)
(* stages run one after the other, each as one batch of BaseRunner; when:  *)
(* decides which jobs of a stage are in its batch.  The cancel event is    *)
(* set by another thread (the text user interface) at any moment.          *)
(***************************************************************************)
EXTENDS BaseRunner, Sequences

VARIABLES
    pc,                  \* where execute_pipeline is
    stage,               \* index of the stage the loop is at
    prior_had_failure,
    success,
    first_error,         \* the job whose error will be raised, or NoJob
    raising,             \* an exception is leaving execute_pipeline
    has_manual_skipped,
    cancel_event,        \* set by the other thread, read by is_cancelled
    calls                \* the pipeline-level callbacks called so far

stageVars == <<pc, stage, prior_had_failure, success, first_error, raising,
               has_manual_skipped, calls>>
vars == <<config, batchVars, stageVars, cancel_event>>

PCs == {"start", "check", "filter", "run", "finally", "returned", "raised"}
Callbacks == {"start", "cancelled", "awaiting_manual", "complete_ok", "complete_failed"}

TypeOK ==
    /\ BatchTypeOK
    /\ pc \in PCs
    /\ stage \in 1..(NStages + 1)
    /\ prior_had_failure \in BOOLEAN
    /\ success \in BOOLEAN
    /\ first_error \in Jobs \cup {NoJob}
    /\ raising \in BOOLEAN
    /\ has_manual_skipped \in BOOLEAN
    /\ cancel_event \in BOOLEAN
    /\ calls \in Seq(Callbacks)

Init ==
    /\ BatchInit
    /\ pc = "start"
    /\ stage = 1
    /\ prior_had_failure = FALSE
    /\ success = TRUE
    /\ first_error = NoJob
    /\ raising = FALSE
    /\ has_manual_skipped = FALSE
    /\ cancel_event = FALSE
    /\ calls = << >>

-----------------------------------------------------------------------------
\* organize_jobs_by_stage
JobsOf(s) == {j \in Jobs : pipeline.stage[j] = s}

\* filter_jobs_by_when, for one job
Selected(j, failed) ==
    \/ pipeline.when[j] = "always"
    \/ pipeline.when[j] = "on_failure" /\ failed
    \/ pipeline.when[j] = "on_success" /\ ~failed

\* The jobs of js that filter_jobs_by_when keeps
FilterJobsByWhen(js, failed) == {j \in js : Selected(j, failed)}

-----------------------------------------------------------------------------
Start ==
    /\ pc = "start"
    /\ pc' = "check"
    /\ calls' = Append(calls, "start")
    /\ UNCHANGED <<config, batchVars, stage, prior_had_failure, success, first_error,
                   raising, has_manual_skipped, cancel_event>>

\* The check at the head of the loop; a cancelled run returns without raising the error
\* of a stage that failed.
CheckCancelled ==
    /\ pc = "check"
    /\ stage <= NStages
    /\ cancel_event
    /\ pc' = "finally"
    /\ success' = FALSE
    /\ calls' = Append(calls, "cancelled")
    /\ UNCHANGED <<config, batchVars, stage, prior_had_failure, first_error, raising,
                   has_manual_skipped, cancel_event>>

CheckPassed ==
    /\ pc = "check"
    /\ stage <= NStages
    /\ ~cancel_event
    /\ pc' = "filter"
    /\ UNCHANGED <<config, batchVars, stage, prior_had_failure, success, first_error,
                   raising, has_manual_skipped, cancel_event, calls>>

\* Manual jobs are remembered; on_stage_skip when the filter leaves nothing to run.
FilterStage ==
    LET js == FilterJobsByWhen(JobsOf(stage), prior_had_failure)
    IN  /\ pc = "filter"
        /\ has_manual_skipped' =
              (has_manual_skipped \/ \E j \in JobsOf(stage) : pipeline.when[j] = "manual")
        /\ \/ /\ js = {}
              /\ pc' = "check"
              /\ stage' = stage + 1
              /\ UNCHANGED batchVars
           \/ /\ js # {}
              /\ pc' = "run"
              /\ stage' = stage
              /\ StartBatch(js)
        /\ UNCHANGED <<config, prior_had_failure, success, first_error, raising, cancel_event,
                       calls>>

Dispatch ==
    /\ pc = "run"
    /\ DispatchStep(TRUE)
    /\ UNCHANGED <<config, stageVars, cancel_event>>

Worker ==
    /\ WorkerStep
    /\ UNCHANGED <<config, stageVars, cancel_event>>

\* (mutant) a clean stage makes up for a failed one
LatestStageSucceeded == HardFailures = {}

StillSuccess == success /\ HardFailures = {}

\* (mutant) the last error wins
NoteLastError ==
    IF HardFailures # {} THEN first_error' \in HardFailures ELSE first_error' = first_error

\* The error of the first hard failure in the list of outcomes, in order of completion.
NoteFirstError ==
    IF HardFailures # {} /\ first_error = NoJob
    THEN first_error' \in HardFailures
    ELSE first_error' = first_error

\* (mutant) only the latest stage counts
FailedLately == HardFailures # {} \/ AllowedFailures # {}

\* Hard and allowed failures alike, of this stage or an earlier one.
FailedSoFar == prior_had_failure \/ HardFailures # {} \/ AllowedFailures # {}

\* on_stage_complete and the bookkeeping of the outcomes.
CompleteStage ==
    /\ pc = "run"
    /\ BatchDone
    /\ mode' = "idle"
    /\ pc' = "check"
    /\ stage' = stage + 1
    /\ prior_had_failure' = FailedSoFar
    /\ success' = StillSuccess
    /\ NoteFirstError
    /\ UNCHANGED <<config, todo, outcomes, work, ending, outcome, completed, known, collected,
                   inputs, recorded, raising, has_manual_skipped, cancel_event, calls>>

\* An exception left run_stage: the except clause records the failure and re-raises.
StageRaises ==
    /\ pc = "run"
    /\ mode = "raised"
    /\ pc' = "finally"
    /\ success' = FALSE
    /\ raising' = TRUE
    /\ UNCHANGED <<config, batchVars, stage, prior_had_failure, first_error,
                   has_manual_skipped, cancel_event, calls>>

\* After the last stage: a second look at the cancel event, then raise first_error.
LastStageDone ==
    /\ pc = "check"
    /\ stage > NStages
    /\ pc' = "finally"
    /\ success' = (success /\ ~cancel_event)
    /\ raising' = (first_error # NoJob)
    /\ calls' = IF cancel_event THEN Append(calls, "cancelled") ELSE calls
    /\ UNCHANGED <<config, batchVars, stage, prior_had_failure, first_error,
                   has_manual_skipped, cancel_event>>

\* (mutant) manual jobs are announced after a failure as well
AnnounceAlways == IF has_manual_skipped THEN <<"awaiting_manual">> ELSE << >>

AnnounceManual == IF has_manual_skipped /\ success THEN <<"awaiting_manual">> ELSE << >>

\* The finally clause, then the exception in flight (if there is one) leaves the method.
Finally ==
    /\ pc = "finally"
    /\ calls' = calls \o AnnounceManual \o <<IF success THEN "complete_ok" ELSE "complete_failed">>
    /\ pc' = IF raising THEN "raised" ELSE "returned"
    /\ UNCHANGED <<config, batchVars, stage, prior_had_failure, success, first_error,
                   raising, has_manual_skipped, cancel_event>>

\* The user asks for the run to stop.
Cancel ==
    /\ ~cancel_event
    /\ pc \notin {"returned", "raised"}
    /\ cancel_event' = TRUE
    /\ UNCHANGED <<config, batchVars, stageVars>>

Ended == pc \in {"returned", "raised"}
Terminated == Ended /\ UNCHANGED vars

RunnerStep ==
    \/ Start \/ CheckCancelled \/ CheckPassed \/ FilterStage \/ Dispatch
    \/ CompleteStage \/ StageRaises \/ LastStageDone \/ Finally

Next == RunnerStep \/ Worker \/ Cancel \/ Terminated

Spec == Init /\ [][Next]_vars

\* The dispatching thread keeps running and a job that was taken by a worker ends: every
\* job is taken to have a script that ends, or a timeout that kills it.
Fairness == WF_vars(RunnerStep) /\ WF_vars(Worker)
FairSpec == Spec /\ Fairness

-----------------------------------------------------------------------------
(* Safety.                                                                 *)

Failed(j) == outcome[j] \in {"hard", "allowed"}
EarlierStage(j) == {k \in Jobs : pipeline.stage[k] < pipeline.stage[j]}
Completed(c) == Len(calls) > 0 /\ calls[Len(calls)] = c

\* The barrier between stages: once a job is launched, no job of an earlier stage is still
\* queued, running or waiting to be reaped, and none of a later stage is launched.
StageBarrier ==
    \A j \in Jobs : j \in Launched =>
        /\ pipeline.stage[j] <= stage
        /\ \A k \in EarlierStage(j) : work[k] \in {"idle", "done"}

\* when: is decided on the outcomes of the earlier stages, all of them and none of the
\* job's own stage: no on_success job runs behind a hard failure, an on_failure job only
\* behind a failure, which may be an allowed one, and manual and never are not run.
WhenHonoured ==
    \A j \in Launched :
        /\ pipeline.when[j] = "on_success" => \A k \in EarlierStage(j) : outcome[k] # "hard"
        /\ pipeline.when[j] = "on_failure" => \E k \in EarlierStage(j) : Failed(k)
        /\ pipeline.when[j] \notin {"manual", "never"}

\* on_pipeline_complete(True) is never called over a hard failure, over a job that is
\* still in the pool or unreaped, or after the cancel was noticed.
SuccessIsTruthful ==
    Completed("complete_ok") =>
        /\ \A j \in Jobs : work[j] \in {"idle", "done"} /\ outcome[j] # "hard"
        /\ \A i \in DOMAIN calls : calls[i] # "cancelled"

\* A run with a hard failure ends in the exception of a job that failed hard in the first
\* stage that had such a failure; it returns normally only if it was cancelled.
FirstFailureRaised ==
    /\ (pc = "returned" /\ \E j \in Jobs : outcome[j] = "hard") =>
          \E i \in DOMAIN calls : calls[i] = "cancelled"
    /\ pc = "raised" /\ mode # "raised" =>
          /\ first_error \in Jobs
          /\ outcome[first_error] = "hard"
          /\ \A k \in EarlierStage(first_error) : outcome[k] # "hard"

\* What a job may be left out for: it is manual or never, an on_success job behind a hard
\* failure, an on_failure job behind none at all, or a sibling that failed hard stopped its
\* stage, which only the serial dispatch does.
LeftOutRightly(j) ==
    \/ pipeline.when[j] \in {"manual", "never"}
    \/ pipeline.when[j] = "on_success" /\ \E k \in EarlierStage(j) : outcome[k] = "hard"
    \/ pipeline.when[j] = "on_failure" /\ \A k \in EarlierStage(j) : ~Failed(k)
    \/ options.workers = 1 /\ \E k \in JobsOf(pipeline.stage[j]) : outcome[k] = "hard"

\* The reason that the code has and the documentation does not know: an on_success job
\* behind a failure that allow_failure tolerates.
LeftOutBehindAllowed(j) ==
    pipeline.when[j] = "on_success" /\ \E k \in EarlierStage(j) : outcome[k] = "allowed"

\* The jobs that a run did not launch although it was neither cancelled nor broken off.
LeftOut ==
    IF Ended /\ mode # "raised" /\ \A i \in DOMAIN calls : calls[i] # "cancelled"
    THEN Jobs \ Launched ELSE {}

\* No job is forgotten: whatever the interleaving of workers and failures, a run that ends
\* by itself has a reason for every job it did not launch.
NobodyForgotten == \A j \in LeftOut : LeftOutRightly(j) \/ LeftOutBehindAllowed(j)

\* What the docstring of filter_jobs_by_when and docs/concepts.md say, and the code does not
\* do: only a hard failure keeps the on_success jobs of later stages from running.
OnlyHardFailuresStop == \A j \in LeftOut : LeftOutRightly(j)

\* A job that runs sees the collected outputs of every job of an earlier stage it depends
\* on, in the calling thread, in the pool or in a worktree, and keeps them to its end.  A
\* job that ended in "other" may be one the pool broke off before it ran.
InputsComplete ==
    \A j \in Jobs : work[j] = "running" \/ ending[j] \in {"clean", "listed", "unlisted"} =>
        \A k \in EarlierStage(j) \cap collected :
            (pipeline.inherits[j] \/ k \in pipeline.dependencies[j]) => k \in inputs[j]

\* A fingerprint is recorded only over a success whose outputs are in the store, so a
\* later --incremental run that skips the job finds what the record promises.  In a
\* worktree an OSError while collecting is only printed: there alone a record may be hollow.
RecordedIsUsable ==
    \A j \in recorded :
        /\ outcome[j] = "success"
        /\ Collects(j, TRUE) => j \in collected \/ (options.worktrees /\ options.store_fails)

\* A job that allows certain exit codes and ends with one of them is an allowed failure,
\* in whatever thread or process it ran.
ListedExitCodeIsAllowed ==
    \A j \in Jobs :
        (work[j] = "done" /\ pipeline.allow[j] = "listed" /\ ending[j] = "listed") =>
            outcome[j] = "allowed"

\* on_pipeline_start first, at most one on_cancelled, exactly one on_pipeline_complete,
\* which is the last call; awaiting_manual is announced only before a successful end.
CallProtocol ==
    /\ Ended => calls \in { <<"start", "complete_ok">>,
                            <<"start", "awaiting_manual", "complete_ok">>,
                            <<"start", "complete_failed">>,
                            <<"start", "cancelled", "complete_failed">> }
    /\ ~Ended => \A i \in DOMAIN calls : calls[i] \in {"start", "cancelled"}

-----------------------------------------------------------------------------
(* Behaviour over time.                                                    *)

\* execute_pipeline ends, cancelled or not, whatever fails.
Termination == <>Ended

-----------------------------------------------------------------------------
(* Refinement: the stage runner is an implementation of PipelineSpec.      *)

StatusOf(j) ==
    CASE work[j] \in {"queued", "running"} -> "active"
      [] work[j] = "exited" -> "ended"
      [] work[j] = "done" ->
            (CASE outcome[j] = "hard" -> "failed"
               [] outcome[j] = "allowed" -> "tolerated"
               [] OTHER -> "succeeded")
      [] OTHER -> IF pipeline.stage[j] < stage THEN "skipped" ELSE "waiting"

Abstract == INSTANCE PipelineSpec WITH
    before  <- [j \in Jobs |-> EarlierStage(j)],
    status  <- [j \in Jobs |-> StatusOf(j)],
    verdict <- IF ~Ended THEN "open" ELSE IF success THEN "passed" ELSE "failed"

\* Every step of the stage runner is a step of the abstract pipeline, or changes nothing
\* that the abstract pipeline knows of.
ImplementsPipelineSpec == Abstract!Spec

=============================================================================
