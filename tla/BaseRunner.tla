----------------------------- MODULE BaseRunner -----------------------------
(***************************************************************************)
(* The dispatch engine that both pipeline runners share: BaseRunner in     *)
(* execution/stage_runner.py.  A runner hands it one batch of jobs at a    *)
(* time (the jobs of a stage, or the ready jobs of the DAG); the engine    *)
(* runs the batch one job after the other in the calling thread, or        *)
(* submits it to a pool of worker processes or threads and polls the       *)
(* futures.  StageRunner and DagRunner extend this module with the loop    *)
(* that chooses the batches.                                               *)
(*                                                                         *)
(* What a job's script does is not modelled: it ends in one of Endings.    *)
(* Job lists are sets.  Every order in which a set can be walked is the    *)
(* order of some configuration file, and each job is walked once.          *)
(***************************************************************************)
EXTENDS Integers, FiniteSets

CONSTANTS
    Jobs,              \* the names of the jobs of the pipeline
    NoJob,             \* first_error is None
    Removed,           \* names that needs: may mention but no job has (filtered out)
    NStages,           \* number of entries of the stages: list
    Settings           \* the pairs of a pipeline and options considered

Stages == 1..NStages
Whens == {"on_success", "on_failure", "always", "manual", "never"}
AllowModes == {"no", "any", "listed"}
Policies == {"none", "on_success", "on_failure", "always"}

\* How execute_job ends: it returns, or it raises.  "listed" is a JobExecutionError whose
\* cause is an exit code named by allow_failure:exit_codes, "unlisted" one with another
\* exit code, "other" an exception with no exit code behind it (a timeout, for instance).
Endings == {"clean", "listed", "unlisted", "other"}

\* JobConfig, reduced to the fields the runners read; one function per field.
PipelineConfig ==
    [ stage        : [Jobs -> Stages],
      when         : [Jobs -> Whens],
      allow        : [Jobs -> AllowModes],
      artifacts    : [Jobs -> Policies],
      inherits     : [Jobs -> BOOLEAN],              \* dependencies: omitted
      dependencies : [Jobs -> SUBSET Jobs],          \* dependencies: as listed
      needs        : [Jobs -> SUBSET (Jobs \cup Removed)] ]

\* How the runner was configured, and how the world around it may fail.
RunnerOptions ==
    [ workers     : Nat \ {0},              \* maximum_degree_of_parallelism
      backend     : {"process", "thread"},   \* parallel_backend
      worktrees   : BOOLEAN,                 \* use_worktrees(): a checkout per parallel job
      incremental : BOOLEAN,                 \* a FingerprintManager is present
      store_fails : BOOLEAN,                 \* collect_artifacts may raise an OSError
      pool_breaks : BOOLEAN ]                \* a worker process may die

ASSUME JobsAssumption == IsFiniteSet(Jobs) /\ NoJob \notin Jobs /\ Jobs \cap Removed = {}
ASSUME StagesAssumption == NStages \in Nat
ASSUME SettingsAssumption ==
    \A s \in Settings : s.pipeline \in PipelineConfig /\ s.options \in RunnerOptions

VARIABLES
    pipeline,      \* the configuration being run; never changes
    options,       \* the options of the run; never change
    mode,          \* what the dispatching thread is doing with the batch
    todo,          \* the jobs of the batch that its loop has not reached yet
    outcomes,      \* the jobs of the batch that have a JobOutcome
    work,          \* where each job is
    ending,        \* how each job's execute_job ended, in the place it ran
    outcome,       \* the JobOutcome of each job, as the runner classified it
    completed,     \* completed_jobs
    known,         \* completed_jobs as each job was launched with
    collected,     \* jobs whose outputs this run may read from .bitrab/artifacts
    inputs,        \* jobs whose outputs were injected into each job's tree
    recorded       \* jobs whose fingerprint this run recorded

config == <<pipeline, options>>
batchVars == <<mode, todo, outcomes, work, ending, outcome, completed, known,
               collected, inputs, recorded>>

Modes == {"idle", "serial", "submitting", "polling", "draining", "raised"}
WorkStates == {"idle", "queued", "running", "exited", "done"}
Outcomes == {"none", "success", "allowed", "hard", "memoized"}

BatchTypeOK ==
    /\ pipeline \in PipelineConfig
    /\ options \in RunnerOptions
    /\ mode \in Modes
    /\ todo \subseteq Jobs
    /\ outcomes \subseteq Jobs
    /\ work \in [Jobs -> WorkStates]
    /\ ending \in [Jobs -> Endings \cup {"none"}]
    /\ outcome \in [Jobs -> Outcomes]
    /\ completed \subseteq Jobs
    /\ known \in [Jobs -> SUBSET Jobs]
    /\ collected \subseteq Jobs
    /\ inputs \in [Jobs -> SUBSET Jobs]
    /\ recorded \subseteq Jobs

BatchInit ==
    /\ \E s \in Settings : pipeline = s.pipeline /\ options = s.options
    /\ mode = "idle"
    /\ todo = {}
    /\ outcomes = {}
    /\ work = [j \in Jobs |-> "idle"]
    /\ ending = [j \in Jobs |-> "none"]
    /\ outcome = [j \in Jobs |-> "none"]
    /\ completed = {}
    /\ known = [j \in Jobs |-> {}]
    /\ collected = {}
    /\ inputs = [j \in Jobs |-> {}]
    /\ recorded = {}

-----------------------------------------------------------------------------
(* Classifying an ending.                                                  *)

\* is_failure_allowed: exit codes are read from the exception or its cause.
IsFailureAllowed(j, e) ==
    \/ pipeline.allow[j] = "any"
    \/ pipeline.allow[j] = "listed" /\ e = "listed"

Classify(j, e) ==
    IF e = "clean" THEN "success" ELSE IF IsFailureAllowed(j, e) THEN "allowed" ELSE "hard"

\* The exception that future.result() raises in the runner.  An exception that crosses a
\* process boundary is rebuilt with the remote traceback as its cause, so the
\* CalledProcessError that carried the exit code is no longer its cause.
Transported(e) ==
    IF options.backend = "process" /\ e \in {"listed", "unlisted"} THEN "other" ELSE e

Succeeds(o) == o \in {"success", "allowed", "memoized"}

-----------------------------------------------------------------------------
(* Artifacts.                                                              *)

\* collect_artifacts copies the job's paths into the store if artifacts:when: says so.
Collects(j, succeeded) ==
    \/ pipeline.artifacts[j] = "always"
    \/ pipeline.artifacts[j] = "on_success" /\ succeeded
    \/ pipeline.artifacts[j] = "on_failure" /\ ~succeeded

CollectInto(store, j, succeeded) == IF Collects(j, succeeded) THEN store \cup {j} ELSE store

\* (mutant) a dependencies: list is taken for an empty one
InjectedInherited(j, done) == collected \cap (IF pipeline.inherits[j] THEN done ELSE {})

\* inject_dependencies copies what the store holds of the listed jobs, or of every
\* completed job when dependencies: is omitted.
Injected(j, done) ==
    collected \cap (IF pipeline.inherits[j] THEN done ELSE pipeline.dependencies[j])

\* (mutant) failures are recorded too
RecordedAnyway(j, ok) == IF options.incremental THEN recorded \cup {j} ELSE recorded

\* record_fingerprint, if the job succeeded
Recorded(j, ok) == IF options.incremental /\ ok THEN recorded \cup {j} ELSE recorded

-----------------------------------------------------------------------------
(* Starting a batch: run_stage and run_batch choose serial or parallel.    *)

StartBatch(jobs) ==
    /\ mode' = IF options.workers = 1 \/ Cardinality(jobs) = 1 THEN "serial" ELSE "submitting"
    /\ todo' = jobs
    /\ outcomes' = {}
    /\ UNCHANGED <<work, ending, outcome, completed, known, collected, inputs, recorded>>

Running == {j \in Jobs : work[j] = "running"}

\* (mutant) jobs that are over are counted as well
Submitted == {j \in Jobs : work[j] # "idle"}

InPool == {j \in Jobs : work[j] \in {"queued", "running"}}
Launched == {j \in Jobs : work[j] # "idle"}

\* check_memoized hit and complete_memoized: nothing runs, the outputs of the recorded run
\* are still in the store.  Both loops consult the fingerprint before launching a job.
Memoize(j) ==
    /\ mode \in {"serial", "submitting"}
    /\ mode = "serial" => Running = {}
    /\ options.incremental
    /\ j \in todo
    /\ todo' = todo \ {j}
    /\ work' = [work EXCEPT ![j] = "done"]
    /\ outcome' = [outcome EXCEPT ![j] = "memoized"]
    /\ outcomes' = outcomes \cup {j}
    /\ completed' = completed \cup {j}
    /\ collected' = IF pipeline.artifacts[j] = "none" THEN collected ELSE collected \cup {j}
    /\ UNCHANGED <<mode, ending, known, inputs, recorded>>

-----------------------------------------------------------------------------
(* run_jobs_serial.                                                        *)

\* on_job_start, inject_dependencies, then execute_job is entered.
SerialStart(j) ==
    /\ mode = "serial"
    /\ Running = {}
    /\ j \in todo
    /\ todo' = todo \ {j}
    /\ work' = [work EXCEPT ![j] = "running"]
    /\ known' = [known EXCEPT ![j] = completed]
    /\ inputs' = [inputs EXCEPT ![j] = Injected(j, completed)]
    /\ UNCHANGED <<mode, outcomes, ending, outcome, completed, collected, recorded>>

\* execute_job ends; the outputs are collected, the fingerprint recorded unless the job
\* failed or changed files it should not have, and on_job_complete is called.  A stage
\* stops at its first hard failure, a DAG batch does not.
SerialFinish(j, e, mutated, stop_on_failure) ==
    LET o == Classify(j, e)
        ok == e = "clean"
    IN  /\ mode = "serial"
        /\ work[j] = "running"
        /\ work' = [work EXCEPT ![j] = "done"]
        /\ ending' = [ending EXCEPT ![j] = e]
        /\ outcome' = [outcome EXCEPT ![j] = o]
        /\ outcomes' = outcomes \cup {j}
        /\ completed' = completed \cup {j}
        /\ collected' = CollectInto(collected, j, ok)
        /\ recorded' = Recorded(j, ok /\ ~mutated)
        /\ todo' = IF stop_on_failure /\ ~Succeeds(o) THEN {} ELSE todo
        /\ UNCHANGED <<mode, known, inputs>>

\* collect_artifacts raises inside the finally block: the job is neither in completed_jobs
\* nor in the outcomes, and the exception leaves the runner's loop.
SerialCollectFails(j, e) ==
    /\ options.store_fails
    /\ mode = "serial"
    /\ work[j] = "running"
    /\ Collects(j, e = "clean")
    /\ mode' = "raised"
    /\ work' = [work EXCEPT ![j] = "exited"]
    /\ ending' = [ending EXCEPT ![j] = e]
    /\ UNCHANGED <<todo, outcomes, outcome, completed, known, collected, inputs, recorded>>

-----------------------------------------------------------------------------
(* run_jobs_parallel: the dispatching thread.                              *)

\* on_job_start, inject_dependencies unless the worktree does it, pool.submit.
Submit(j) ==
    /\ mode = "submitting"
    /\ j \in todo
    /\ todo' = todo \ {j}
    /\ work' = [work EXCEPT ![j] = "queued"]
    /\ known' = [known EXCEPT ![j] = completed]
    /\ inputs' = [inputs EXCEPT ![j] = IF options.worktrees THEN @ ELSE Injected(j, completed)]
    /\ UNCHANGED <<mode, outcomes, ending, outcome, completed, collected, recorded>>

\* (mutant) polling begins before every job is submitted
StartPollingEarly ==
    /\ mode = "submitting"
    /\ mode' = "polling"
    /\ UNCHANGED <<todo, outcomes, work, ending, outcome, completed, known, collected,
                   inputs, recorded>>

StartPolling ==
    /\ mode = "submitting"
    /\ todo = {}
    /\ mode' = "polling"
    /\ UNCHANGED <<todo, outcomes, work, ending, outcome, completed, known, collected,
                   inputs, recorded>>

\* The loop over the futures that wait() reports as done.  No mutation check here.
Reap(j) ==
    LET e == Transported(ending[j])
        ok == e = "clean"
    IN  /\ mode = "polling"
        /\ work[j] = "exited"
        /\ work' = [work EXCEPT ![j] = "done"]
        /\ outcome' = [outcome EXCEPT ![j] = Classify(j, e)]
        /\ outcomes' = outcomes \cup {j}
        /\ completed' = completed \cup {j}
        /\ collected' = IF options.worktrees THEN collected ELSE CollectInto(collected, j, ok)
        /\ recorded' = Recorded(j, ok)
        /\ UNCHANGED <<mode, todo, ending, known, inputs>>

\* collect_artifacts raises in the dispatching thread: the pool's context manager waits
\* for every submitted job before the exception leaves run_jobs_parallel.
ReapCollectFails(j) ==
    /\ options.store_fails
    /\ ~options.worktrees
    /\ mode = "polling"
    /\ work[j] = "exited"
    /\ Collects(j, ending[j] = "clean")
    /\ mode' = "draining"
    /\ UNCHANGED <<todo, outcomes, work, ending, outcome, completed, known, collected,
                   inputs, recorded>>

PoolShutDown ==
    /\ mode = "draining"
    /\ InPool = {}
    /\ mode' = "raised"
    /\ UNCHANGED <<todo, outcomes, work, ending, outcome, completed, known, collected,
                   inputs, recorded>>

-----------------------------------------------------------------------------
(* The workers of the pool.                                                *)

\* A free worker takes a submitted job.  worktree_worker injects the upstream artifacts
\* into its checkout now, with the completed_jobs it was submitted with.
WorkerStart(j) ==
    /\ mode # "serial"
    /\ work[j] = "queued"
    /\ Cardinality(Running) < options.workers
    /\ work' = [work EXCEPT ![j] = "running"]
    /\ inputs' = [inputs EXCEPT ![j] = IF options.worktrees THEN Injected(j, known[j]) ELSE @]
    /\ UNCHANGED <<mode, todo, outcomes, ending, outcome, completed, known, collected, recorded>>

\* The job ends and its future is resolved.  worktree_worker has collected the outputs
\* from the checkout by then; an OSError while collecting is only printed.
WorkerExit(j, e) ==
    /\ mode # "serial"
    /\ work[j] = "running"
    /\ work' = [work EXCEPT ![j] = "exited"]
    /\ ending' = [ending EXCEPT ![j] = e]
    /\ \/ collected' = IF options.worktrees THEN CollectInto(collected, j, e = "clean") ELSE collected
       \/ options.worktrees /\ options.store_fails /\ collected' = collected
    /\ UNCHANGED <<mode, todo, outcomes, outcome, completed, known, inputs, recorded>>

\* A worker process dies: every future of the pool that is not resolved raises
\* BrokenProcessPool, those of the jobs that never ran included.
PoolBreaks ==
    /\ options.pool_breaks
    /\ options.backend = "process"
    /\ mode \in {"polling", "draining"}
    /\ Running # {}
    /\ work' = [j \in Jobs |-> IF j \in InPool THEN "exited" ELSE work[j]]
    /\ ending' = [j \in Jobs |-> IF j \in InPool THEN "other" ELSE ending[j]]
    /\ UNCHANGED <<mode, todo, outcomes, outcome, completed, known, collected, inputs, recorded>>

-----------------------------------------------------------------------------
\* (mutant) the last job is not waited for, a resolved future not reaped
BatchDoneEarly ==
    \/ mode = "serial" /\ todo = {}
    \/ mode = "polling" /\ InPool = {}

\* The batch has returned its list of outcomes.
BatchDone ==
    \/ mode = "serial" /\ todo = {} /\ Running = {}
    \/ mode = "polling" /\ \A j \in Jobs : work[j] \in {"idle", "done"}

HardFailures == {j \in outcomes : ~Succeeds(outcome[j])}

AllowedFailures == {j \in outcomes : outcome[j] = "allowed"}

\* What the dispatching thread and the workers do inside a batch.
DispatchStep(stop_on_failure) ==
    \/ \E j \in Jobs :
        \/ Memoize(j)
        \/ SerialStart(j)
        \/ \E e \in Endings, mutated \in BOOLEAN : SerialFinish(j, e, mutated, stop_on_failure)
        \/ \E e \in Endings : SerialCollectFails(j, e)
        \/ Submit(j)
        \/ Reap(j)
        \/ ReapCollectFails(j)
    \/ StartPolling
    \/ PoolShutDown

WorkerStep ==
    \/ \E j \in Jobs :
        \/ WorkerStart(j)
        \/ \E e \in Endings : WorkerExit(j, e)
    \/ PoolBreaks

=============================================================================
