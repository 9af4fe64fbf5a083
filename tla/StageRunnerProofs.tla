------------------------- MODULE StageRunnerProofs -------------------------
(***************************************************************************)
(* Theorems about StageRunner for every set of jobs, number of stages,     *)
(* degree of parallelism, backend and pipeline configuration.              *)
(***************************************************************************)
EXTENDS StageRunner, BaseRunnerProofs, SequenceTheorems, FiniteSetTheorems

Active(j) == work[j] \in {"queued", "running", "exited"}

\* What the dispatch engine and the loop around it keep true of each other: outside a
\* batch nothing is in flight, and a batch only holds jobs of the stage the loop is at.
BatchInv ==
    /\ pc \in {"start", "check", "filter"} => mode = "idle"
    /\ pc \in {"filter", "run"} => stage <= NStages
    /\ mode # "idle" => todo \subseteq JobsOf(stage)
    /\ mode = "serial" => \A j \in Jobs : work[j] \in {"idle", "running", "done"}
    /\ \A j \in Jobs : work[j] # "idle" => pipeline.stage[j] <= stage
    /\ \A j \in Jobs : Active(j) => mode # "idle" /\ pipeline.stage[j] = stage

BarrierInv == TypeOK /\ BatchInv

-----------------------------------------------------------------------------
(* Types.                                                                  *)

LEMMA TypeInit == ASSUME Init PROVE TypeOK
<1>1. pipeline \in PipelineConfig /\ options \in RunnerOptions
  BY SettingsAssumption DEF Init, BatchInit
<1>2. /\ stage \in 1..(NStages + 1)
      /\ calls \in Seq(Callbacks)
  BY StagesAssumption DEF Init
<1>3. BatchTypeOK
  BY <1>1 DEF Init, BatchInit, BatchTypeOK, Modes, WorkStates, Outcomes
<1> QED
  BY <1>2, <1>3 DEF Init, TypeOK, PCs

\* A call appended to the calls so far is still a sequence of callbacks.
LEMMA AppendKeepsCalls ==
    ASSUME NEW s \in Seq(Callbacks), NEW c \in Callbacks
    PROVE  Append(s, c) \in Seq(Callbacks)
OBVIOUS

LEMMA ConcatKeepsCalls ==
    ASSUME NEW s \in Seq(Callbacks), NEW t \in Seq(Callbacks), NEW u \in Seq(Callbacks)
    PROVE  (s \o t) \o u \in Seq(Callbacks)
OBVIOUS

LEMMA AnnouncementIsCalls == AnnounceManual \in Seq(Callbacks)
<1>1. << >> \in Seq(Callbacks) /\ <<"awaiting_manual">> \in Seq(Callbacks)
  BY DEF Callbacks
<1> QED
  BY <1>1 DEF AnnounceManual

LEMMA TypeNext ==
    ASSUME TypeOK, BatchInv, [Next]_vars
    PROVE  TypeOK'
<1> USE StagesAssumption DEF config, TypeOK, PCs, Callbacks
<1>1. CASE Start
  <2>1. calls' \in Seq(Callbacks)
    BY <1>1, AppendKeepsCalls DEF Start
  <2>2. BatchTypeOK'
    BY <1>1 DEF Start, batchVars, BatchTypeOK
  <2> QED
    BY <1>1, <2>1, <2>2 DEF Start
<1>2. CASE CheckCancelled
  <2>1. calls' \in Seq(Callbacks)
    BY <1>2, AppendKeepsCalls DEF CheckCancelled
  <2>2. BatchTypeOK'
    BY <1>2 DEF CheckCancelled, batchVars, BatchTypeOK
  <2> QED
    BY <1>2, <2>1, <2>2 DEF CheckCancelled
<1>3. CASE CheckPassed
  BY <1>3 DEF CheckPassed, batchVars, BatchTypeOK
<1>4. CASE FilterStage
  <2>1. BatchTypeOK'
    BY <1>4 DEF FilterStage, StartBatch, batchVars, BatchTypeOK, Modes, FilterJobsByWhen, JobsOf
  <2>2. stage' \in 1..(NStages + 1)
    BY <1>4 DEF FilterStage, BatchInv
  <2> QED
    BY <1>4, <2>1, <2>2 DEF FilterStage
<1>5. CASE Dispatch
  <2>1. BatchTypeOK'
    BY <1>5, DispatchKeepsType DEF Dispatch, TypeOK
  <2> QED
    BY <1>5, <2>1 DEF Dispatch, stageVars
<1>6. CASE CompleteStage
  <2>1. BatchTypeOK'
    BY <1>6 DEF CompleteStage, BatchTypeOK, Modes
  <2>2. stage' \in 1..(NStages + 1)
    BY <1>6 DEF CompleteStage, BatchInv
  <2>3. first_error' \in Jobs \cup {NoJob}
    BY <1>6 DEF CompleteStage, NoteFirstError, HardFailures, BatchTypeOK
  <2>4. prior_had_failure' \in BOOLEAN /\ success' \in BOOLEAN
    BY <1>6 DEF CompleteStage, StillSuccess, FailedSoFar
  <2> QED
    BY <1>6, <2>1, <2>2, <2>3, <2>4 DEF CompleteStage
<1>7. CASE StageRaises
  BY <1>7 DEF StageRaises, batchVars, BatchTypeOK
<1>8. CASE LastStageDone
  <2>1. calls' \in Seq(Callbacks)
    BY <1>8, AppendKeepsCalls DEF LastStageDone
  <2>2. BatchTypeOK'
    BY <1>8 DEF LastStageDone, batchVars, BatchTypeOK
  <2> QED
    BY <1>8, <2>1, <2>2 DEF LastStageDone
<1>9. CASE Finally
  <2> DEFINE closing == <<IF success THEN "complete_ok" ELSE "complete_failed">>
  <2>1. calls' \in Seq(Callbacks)
    <3>1. AnnounceManual \in Seq(Callbacks)
      BY AnnouncementIsCalls
    <3>2. closing \in Seq(Callbacks)
      OBVIOUS
    <3>3. calls' = (calls \o AnnounceManual) \o closing
      BY <1>9 DEF Finally
    <3> HIDE DEF closing
    <3> QED
      BY <3>1, <3>2, <3>3, ConcatKeepsCalls
  <2>2. BatchTypeOK'
    BY <1>9 DEF Finally, batchVars, BatchTypeOK
  <2> QED
    BY <1>9, <2>1, <2>2 DEF Finally
<1>10. CASE Worker
  <2>1. BatchTypeOK'
    BY <1>10, WorkerKeepsType DEF Worker
  <2> QED
    BY <1>10, <2>1 DEF Worker, stageVars
<1>11. CASE Cancel
  BY <1>11 DEF Cancel, batchVars, stageVars, BatchTypeOK
<1>12. CASE UNCHANGED vars
  BY <1>12 DEF vars, batchVars, stageVars, BatchTypeOK
<1> QED
  BY <1>1, <1>2, <1>3, <1>4, <1>5, <1>6, <1>7, <1>8, <1>9, <1>10, <1>11, <1>12
     DEF Next, RunnerStep, Terminated

-----------------------------------------------------------------------------
(* The batch invariant is inductive.                                       *)

LEMMA BatchInit0 == ASSUME Init PROVE BatchInv
BY StagesAssumption DEF Init, BatchInit, BatchInv, Active

LEMMA DispatchKeepsBatchInv ==
    ASSUME TypeOK, BatchInv, Dispatch
    PROVE  BatchInv'
<1>1. /\ pc = "run" /\ pc' = pc /\ stage' = stage /\ pipeline' = pipeline
      /\ DispatchStep(TRUE)
  BY DEF config, Dispatch, stageVars
<1> USE DEF config, TypeOK, BatchTypeOK, BatchInv, Active, JobsOf, WorkStates
<1>2. CASE \E j \in Jobs : Memoize(j)
  BY <1>1, <1>2 DEF Memoize
<1>3. CASE \E j \in Jobs : SerialStart(j)
  BY <1>1, <1>3 DEF SerialStart
<1>4. CASE \E j \in Jobs : \E e \in Endings, mutated \in BOOLEAN :
              SerialFinish(j, e, mutated, TRUE)
  BY <1>1, <1>4 DEF SerialFinish
<1>5. CASE \E j \in Jobs : \E e \in Endings : SerialCollectFails(j, e)
  BY <1>1, <1>5 DEF SerialCollectFails
<1>6. CASE \E j \in Jobs : Submit(j)
  BY <1>1, <1>6 DEF Submit
<1>7. CASE \E j \in Jobs : Reap(j)
  BY <1>1, <1>7 DEF Reap
<1>8. CASE \E j \in Jobs : ReapCollectFails(j)
  BY <1>1, <1>8 DEF ReapCollectFails
<1>9. CASE StartPolling
  BY <1>1, <1>9 DEF StartPolling
<1>10. CASE PoolShutDown
  BY <1>1, <1>10 DEF PoolShutDown
<1> QED
  BY <1>1, <1>2, <1>3, <1>4, <1>5, <1>6, <1>7, <1>8, <1>9, <1>10 DEF DispatchStep

LEMMA WorkerKeepsBatchInv ==
    ASSUME TypeOK, BatchInv, Worker
    PROVE  BatchInv'
<1>1. /\ pc' = pc /\ stage' = stage /\ pipeline' = pipeline
      /\ WorkerStep
  BY DEF config, Worker, stageVars
<1> USE DEF config, TypeOK, BatchTypeOK, BatchInv, Active, JobsOf, WorkStates
<1>2. CASE \E j \in Jobs : WorkerStart(j)
  BY <1>1, <1>2 DEF WorkerStart
<1>3. CASE \E j \in Jobs : \E e \in Endings : WorkerExit(j, e)
  BY <1>1, <1>3 DEF WorkerExit
<1>4. CASE PoolBreaks
  BY <1>1, <1>4 DEF PoolBreaks, InPool
<1> QED
  BY <1>1, <1>2, <1>3, <1>4 DEF WorkerStep

LEMMA BatchNext ==
    ASSUME TypeOK, BatchInv, [Next]_vars
    PROVE  BatchInv'
<1> USE DEF config, TypeOK, BatchTypeOK, BatchInv, Active, JobsOf
<1>1. CASE Start
  BY <1>1 DEF Start, batchVars
<1>2. CASE CheckCancelled
  BY <1>2 DEF CheckCancelled, batchVars
<1>3. CASE CheckPassed
  BY <1>3 DEF CheckPassed, batchVars
<1>4. CASE FilterStage
  <2> DEFINE js == FilterJobsByWhen(JobsOf(stage), prior_had_failure)
  <2>1. /\ pc = "filter" /\ mode = "idle" /\ pipeline' = pipeline /\ work' = work
        /\ \A j \in Jobs : work[j] \in {"idle", "done"}
        /\ js \subseteq JobsOf(stage)
    BY <1>4 DEF FilterStage, batchVars, StartBatch, WorkStates, FilterJobsByWhen
  <2>2. CASE js = {} /\ pc' = "check" /\ stage' = stage + 1 /\ UNCHANGED batchVars
    BY <2>1, <2>2, StagesAssumption DEF batchVars, PipelineConfig, Stages
  <2>3. CASE js # {} /\ pc' = "run" /\ stage' = stage /\ StartBatch(js)
    <3> HIDE DEF js
    <3>1. todo' = js
      BY <2>3 DEF StartBatch
    <3> QED
      BY <2>1, <2>3, <3>1
  <2> QED
    BY <1>4, <2>2, <2>3 DEF FilterStage
<1>5. CASE Dispatch
  BY <1>5, DispatchKeepsBatchInv
<1>6. CASE CompleteStage
  <2>1. \A j \in Jobs : work[j] \in {"idle", "done"}
    BY <1>6 DEF CompleteStage, BatchDone, Running
  <2>2. /\ work' = work /\ pipeline' = pipeline /\ mode' = "idle" /\ pc' = "check"
        /\ stage' = stage + 1 /\ stage \in Int
    BY <1>6, StagesAssumption DEF CompleteStage
  <2>3. \A j \in Jobs : work[j] # "idle" => pipeline.stage[j] <= stage + 1
    BY <2>2 DEF PipelineConfig, Stages
  <2> QED
    BY <2>1, <2>2, <2>3
<1>7. CASE StageRaises
  BY <1>7 DEF StageRaises, batchVars
<1>8. CASE LastStageDone
  BY <1>8 DEF LastStageDone, batchVars
<1>9. CASE Finally
  BY <1>9 DEF Finally, batchVars
<1>10. CASE Worker
  BY <1>10, WorkerKeepsBatchInv
<1>11. CASE Cancel
  BY <1>11 DEF Cancel, batchVars, stageVars
<1>12. CASE UNCHANGED vars
  BY <1>12 DEF vars, batchVars, stageVars
<1> QED
  BY <1>1, <1>2, <1>3, <1>4, <1>5, <1>6, <1>7, <1>8, <1>9, <1>10, <1>11, <1>12
     DEF Next, RunnerStep, Terminated

LEMMA BarrierInvHolds == Spec => []BarrierInv
<1>1. Init => BarrierInv
  BY TypeInit, BatchInit0 DEF BarrierInv
<1>2. BarrierInv /\ [Next]_vars => BarrierInv'
  BY TypeNext, BatchNext DEF BarrierInv
<1> QED
  BY <1>1, <1>2, PTL DEF Spec

-----------------------------------------------------------------------------
(* What the loop knows of the past when it filters a stage.                *)

PastFailures == {k \in Jobs : pipeline.stage[k] < stage /\ Failed(k)}

\* The jobs a batch has not reached are idle and its outcomes are those of its stage, whose
\* jobs nobody touched before; prior_had_failure sums up the earlier stages, and only
\* jobs that it selects are launched.
PastInv ==
    /\ \A j \in Jobs : outcome[j] # "none" => work[j] = "done"
    /\ mode # "idle" => \A j \in todo : work[j] = "idle"
    /\ mode # "idle" => outcomes = {j \in JobsOf(stage) : outcome[j] # "none"}
    /\ mode = "idle" => \A j \in Jobs : pipeline.stage[j] >= stage => work[j] = "idle"
    /\ prior_had_failure <=> PastFailures # {}
    /\ mode # "idle" => \A j \in Jobs :
          j \in todo \/ (work[j] # "idle" /\ pipeline.stage[j] = stage)
             => Selected(j, prior_had_failure)

\* The when: of a launched job as the code decides it, an allowed failure being a failure.
LaunchedInTime ==
    \A j \in Launched :
        /\ pipeline.when[j] = "on_success" => \A k \in EarlierStage(j) : ~Failed(k)
        /\ pipeline.when[j] = "on_failure" => \E k \in EarlierStage(j) : Failed(k)
        /\ pipeline.when[j] \notin {"manual", "never"}

WhenInv == BarrierInv /\ PastInv /\ LaunchedInTime

LEMMA PastInit == ASSUME Init PROVE PastInv /\ LaunchedInTime
<1>1. \A j \in Jobs : work[j] = "idle" /\ outcome[j] = "none"
  BY DEF Init, BatchInit
<1>2. PastFailures = {} /\ Launched = {}
  BY <1>1 DEF PastFailures, Failed, Launched
<1> QED
  BY <1>1, <1>2 DEF Init, BatchInit, PastInv, LaunchedInTime

\* What a step inside a batch has to leave alone.
BatchFrame ==
    /\ mode # "idle" /\ mode' # "idle"
    /\ UNCHANGED <<config, stage, prior_had_failure>>
    /\ todo' \subseteq todo
    /\ \A j \in todo' : work'[j] = "idle"
    /\ \A j \in Jobs :
          /\ pipeline.stage[j] # stage => work'[j] = work[j] /\ outcome'[j] = outcome[j]
          /\ work'[j] # "idle" => work[j] # "idle" \/ j \in todo
          /\ outcome'[j] # "none" => work'[j] = "done"
    /\ outcomes' = {j \in JobsOf(stage) : outcome'[j] # "none"}

LEMMA FrameKeepsPast ==
    ASSUME WhenInv, BatchFrame
    PROVE  PastInv' /\ LaunchedInTime'
<1>1. /\ pipeline' = pipeline /\ stage' = stage /\ prior_had_failure' = prior_had_failure
      /\ \A j \in Jobs : pipeline.stage[j] \in Int
      /\ stage \in Int
  BY StagesAssumption
     DEF BatchFrame, config, WhenInv, BarrierInv, TypeOK, BatchTypeOK, PipelineConfig, Stages
<1>2. PastFailures' = PastFailures
  BY <1>1 DEF BatchFrame, PastFailures, Failed
<1>3. \A j \in Jobs : j \in todo' \/ (work'[j] # "idle" /\ pipeline.stage[j] = stage)
          => Selected(j, prior_had_failure)
  BY DEF BatchFrame, WhenInv, PastInv
<1>4. PastInv'
  <2>1. prior_had_failure' <=> PastFailures' # {}
    BY <1>1, <1>2 DEF WhenInv, PastInv
  <2>2. outcomes' = {j \in JobsOf(stage)' : outcome'[j] # "none"}
    BY <1>1 DEF BatchFrame, JobsOf
  <2>3. \A j \in Jobs : j \in todo' \/ (work'[j] # "idle" /\ pipeline'.stage[j] = stage')
            => Selected(j, prior_had_failure)'
    BY <1>1, <1>3 DEF Selected
  <2> QED
    BY <2>1, <2>2, <2>3 DEF BatchFrame, PastInv
<1>5. LaunchedInTime'
  <2> SUFFICES ASSUME NEW j \in Jobs, work'[j] # "idle"
               PROVE  /\ pipeline.when[j] = "on_success" => \A k \in EarlierStage(j) : ~Failed(k)'
                      /\ pipeline.when[j] = "on_failure" => \E k \in EarlierStage(j) : Failed(k)'
                      /\ pipeline.when[j] \notin {"manual", "never"}
    BY <1>1 DEF LaunchedInTime, Launched, EarlierStage, Failed
  <2>1. pipeline.stage[j] <= stage
    BY <1>1 DEF BatchFrame, WhenInv, BarrierInv, BatchInv, JobsOf
  <2>2. \A k \in EarlierStage(j) : Failed(k)' <=> Failed(k)
    BY <1>1, <2>1 DEF BatchFrame, EarlierStage, Failed
  <2>3. CASE pipeline.stage[j] = stage
    <3>1. Selected(j, prior_had_failure)
      BY <1>3, <2>3
    <3>2. prior_had_failure <=> PastFailures # {}
      BY DEF WhenInv, PastInv
    <3>3. EarlierStage(j) = {k \in Jobs : pipeline.stage[k] < stage}
      BY <2>3 DEF EarlierStage
    <3> QED
      BY <2>2, <3>1, <3>2, <3>3 DEF Selected, PastFailures
  <2>4. CASE pipeline.stage[j] # stage
    <3>1. j \in Launched
      BY <2>4 DEF BatchFrame, Launched
    <3> QED
      BY <2>2, <3>1 DEF WhenInv, LaunchedInTime
  <2> QED
    BY <2>3, <2>4
<1> QED
  BY <1>4, <1>5

LEMMA DispatchIsFramed ==
    ASSUME WhenInv, Dispatch
    PROVE  BatchFrame
<1>1. /\ UNCHANGED <<config, stage, prior_had_failure>> /\ pipeline' = pipeline
      /\ DispatchStep(TRUE)
  BY DEF Dispatch, stageVars, config
<1> USE DEF WhenInv, BarrierInv, TypeOK, BatchTypeOK, BatchInv, PastInv, Active, JobsOf,
            BatchFrame, WorkStates, Outcomes
<1>2. CASE \E j \in Jobs : Memoize(j)
  BY <1>1, <1>2 DEF Memoize
<1>3. CASE \E j \in Jobs : SerialStart(j)
  BY <1>1, <1>3 DEF SerialStart
<1>4. CASE \E j \in Jobs : \E e \in Endings, mutated \in BOOLEAN :
              SerialFinish(j, e, mutated, TRUE)
  BY <1>1, <1>4 DEF SerialFinish, Classify
<1>5. CASE \E j \in Jobs : \E e \in Endings : SerialCollectFails(j, e)
  BY <1>1, <1>5 DEF SerialCollectFails
<1>6. CASE \E j \in Jobs : Submit(j)
  BY <1>1, <1>6 DEF Submit
<1>7. CASE \E j \in Jobs : Reap(j)
  BY <1>1, <1>7 DEF Reap, Classify
<1>8. CASE \E j \in Jobs : ReapCollectFails(j)
  BY <1>1, <1>8 DEF ReapCollectFails
<1>9. CASE StartPolling
  BY <1>1, <1>9 DEF StartPolling
<1>10. CASE PoolShutDown
  BY <1>1, <1>10 DEF PoolShutDown
<1> QED
  BY <1>1, <1>2, <1>3, <1>4, <1>5, <1>6, <1>7, <1>8, <1>9, <1>10 DEF DispatchStep

LEMMA WorkerIsFramed ==
    ASSUME WhenInv, Worker
    PROVE  BatchFrame
<1>1. /\ UNCHANGED <<config, stage, prior_had_failure>> /\ pipeline' = pipeline
      /\ WorkerStep
  BY DEF Worker, stageVars, config
<1> USE DEF WhenInv, BarrierInv, TypeOK, BatchTypeOK, BatchInv, PastInv, Active, JobsOf,
            BatchFrame, WorkStates, Outcomes
<1>2. CASE \E j \in Jobs : WorkerStart(j)
  BY <1>1, <1>2 DEF WorkerStart
<1>3. CASE \E j \in Jobs : \E e \in Endings : WorkerExit(j, e)
  BY <1>1, <1>3 DEF WorkerExit
<1>4. CASE PoolBreaks
  BY <1>1, <1>4 DEF PoolBreaks, InPool
<1> QED
  BY <1>1, <1>2, <1>3, <1>4 DEF WorkerStep

\* A step that leaves the batch, the stage and the failure flag alone.
LEMMA StutterKeepsPast ==
    ASSUME PastInv, LaunchedInTime, UNCHANGED <<config, batchVars, stage, prior_had_failure>>
    PROVE  PastInv' /\ LaunchedInTime'
<1>1. PastFailures' = PastFailures
  BY DEF PastFailures, Failed, config, batchVars
<1>2. PastInv'
  BY <1>1 DEF PastInv, JobsOf, Selected, config, batchVars
<1>3. LaunchedInTime'
  BY DEF LaunchedInTime, Launched, EarlierStage, Failed, config, batchVars
<1> QED
  BY <1>2, <1>3

LEMMA FilterKeepsPast ==
    ASSUME WhenInv, FilterStage
    PROVE  PastInv' /\ LaunchedInTime'
<1> DEFINE js == FilterJobsByWhen(JobsOf(stage), prior_had_failure)
<1>1. /\ mode = "idle" /\ pipeline' = pipeline /\ prior_had_failure' = prior_had_failure
      /\ work' = work /\ outcome' = outcome
      /\ stage \in Int /\ \A j \in Jobs : pipeline.stage[j] \in Int
  BY StagesAssumption DEF FilterStage, StartBatch, batchVars, config, WhenInv, BarrierInv,
                        TypeOK, BatchTypeOK, BatchInv, PipelineConfig, Stages
<1>2. \A j \in Jobs : pipeline.stage[j] >= stage => work[j] = "idle" /\ outcome[j] = "none"
  BY <1>1 DEF WhenInv, PastInv
<1>3. LaunchedInTime'
  BY <1>1 DEF WhenInv, LaunchedInTime, Launched, EarlierStage, Failed
<1>4. CASE js = {} /\ stage' = stage + 1 /\ UNCHANGED batchVars
  <2>1. PastFailures' = PastFailures
    BY <1>1, <1>2, <1>4 DEF PastFailures, Failed
  <2> QED
    BY <1>1, <1>3, <1>4, <2>1 DEF WhenInv, PastInv, batchVars
<1>5. CASE js # {} /\ stage' = stage /\ StartBatch(js)
  <2>1. PastFailures' = PastFailures
    BY <1>1, <1>5 DEF PastFailures, Failed
  <2>2. \A j \in js : Selected(j, prior_had_failure) /\ work[j] = "idle"
    BY <1>1, <1>2 DEF FilterJobsByWhen, JobsOf
  <2>3. todo' = js /\ outcomes' = {} /\ mode' # "idle"
    BY <1>5 DEF StartBatch
  <2>4. {j \in JobsOf(stage) : outcome[j] # "none"} = {}
    BY <1>1, <1>2 DEF JobsOf
  <2> HIDE DEF js
  <2> QED
    BY <1>1, <1>2, <1>3, <1>5, <2>1, <2>2, <2>3, <2>4 DEF WhenInv, PastInv, JobsOf, Selected
<1> QED
  BY <1>4, <1>5 DEF FilterStage

LEMMA CompleteKeepsPast ==
    ASSUME WhenInv, CompleteStage
    PROVE  PastInv' /\ LaunchedInTime'
<1>1. /\ mode # "idle" /\ mode' = "idle" /\ stage' = stage + 1 /\ pipeline' = pipeline
      /\ work' = work /\ outcome' = outcome
      /\ stage \in Int /\ \A j \in Jobs : pipeline.stage[j] \in Int
      /\ \A j \in Jobs : outcome[j] \in Outcomes
  BY StagesAssumption DEF CompleteStage, BatchDone, config, WhenInv, BarrierInv,
                        TypeOK, BatchTypeOK, PipelineConfig, Stages
<1>2. LaunchedInTime'
  BY <1>1 DEF WhenInv, LaunchedInTime, Launched, EarlierStage, Failed
<1>3. PastFailures' = PastFailures \cup HardFailures \cup AllowedFailures
  <2>1. outcomes = {j \in JobsOf(stage) : outcome[j] # "none"}
    BY <1>1 DEF WhenInv, PastInv
  <2>2. HardFailures \cup AllowedFailures = {j \in JobsOf(stage) : Failed(j)}
    BY <1>1, <2>1 DEF HardFailures, AllowedFailures, Failed, Succeeds, Outcomes, JobsOf
  <2>3. PastFailures' = PastFailures \cup {j \in JobsOf(stage) : Failed(j)}
    BY <1>1 DEF PastFailures, JobsOf, Failed
  <2> QED
    BY <2>2, <2>3
<1>4. prior_had_failure' <=> PastFailures' # {}
  BY <1>3 DEF CompleteStage, FailedSoFar, WhenInv, PastInv
<1>5. \A j \in Jobs : pipeline.stage[j] >= stage + 1 => work[j] = "idle"
  BY <1>1 DEF WhenInv, BarrierInv, BatchInv
<1>6. \A j \in Jobs : outcome[j] # "none" => work[j] = "done"
  BY DEF WhenInv, PastInv
<1> QED
  BY <1>1, <1>2, <1>4, <1>5, <1>6 DEF PastInv

LEMMA PastNext ==
    ASSUME WhenInv, [Next]_vars
    PROVE  PastInv' /\ LaunchedInTime'
<1> USE StutterKeepsPast DEF WhenInv
<1>1. CASE Start
  BY <1>1 DEF Start
<1>2. CASE CheckCancelled
  BY <1>2 DEF CheckCancelled
<1>3. CASE CheckPassed
  BY <1>3 DEF CheckPassed
<1>4. CASE FilterStage
  BY <1>4, FilterKeepsPast
<1>5. CASE Dispatch
  BY <1>5, DispatchIsFramed, FrameKeepsPast
<1>6. CASE CompleteStage
  BY <1>6, CompleteKeepsPast
<1>7. CASE StageRaises
  BY <1>7 DEF StageRaises
<1>8. CASE LastStageDone
  BY <1>8 DEF LastStageDone
<1>9. CASE Finally
  BY <1>9 DEF Finally
<1>10. CASE Worker
  BY <1>10, WorkerIsFramed, FrameKeepsPast
<1>11. CASE Cancel
  BY <1>11 DEF Cancel, stageVars
<1>12. CASE UNCHANGED vars
  BY <1>12 DEF vars, stageVars
<1> QED
  BY <1>1, <1>2, <1>3, <1>4, <1>5, <1>6, <1>7, <1>8, <1>9, <1>10, <1>11, <1>12
     DEF Next, RunnerStep, Terminated

-----------------------------------------------------------------------------
(* What success stands for.                                                *)

\* While success is TRUE, a hard failure can only be one of the batch that is still to be
\* looked at, and no cancel was announced; the loop is left with no batch, or with one that
\* raised; and complete is called last, with success.
SuccessInv ==
    /\ success => \A j \in Jobs :
          outcome[j] = "hard" => mode # "idle" /\ pipeline.stage[j] = stage
    /\ success => \A i \in DOMAIN calls : calls[i] # "cancelled"
    /\ pc \in {"finally", "returned", "raised"} =>
          mode = "idle" \/ (mode = "raised" /\ ~success)
    /\ Completed("complete_ok") => Ended /\ success
    /\ ~Ended => \A i \in DOMAIN calls : calls[i] \in {"start", "cancelled"}

TruthInv == WhenInv /\ SuccessInv

LEMMA SuccessInit == ASSUME Init PROVE SuccessInv
BY DEF Init, BatchInit, SuccessInv, Completed, Ended

\* A step that leaves the calls, the verdict and the end of the loop alone.
LEMMA QuietKeepsSuccess ==
    ASSUME SuccessInv, UNCHANGED <<config, batchVars, success, stage, calls>>,
           pc' \notin {"finally", "returned", "raised"} \/ pc' = pc, ~Ended \/ pc' = pc
    PROVE  SuccessInv'
BY DEF SuccessInv, Completed, Ended, config, batchVars

\* Inside a batch only jobs of the current stage fail.
LEMMA FrameKeepsSuccess ==
    ASSUME TruthInv, BatchFrame, UNCHANGED <<pc, success, calls>>,
           pc = "run" \/ mode' = mode
    PROVE  SuccessInv'
BY DEF TruthInv, SuccessInv, BatchFrame, Completed, Ended, config

LEMMA CompleteKeepsSuccess ==
    ASSUME TruthInv, CompleteStage
    PROVE  SuccessInv'
<1>1. /\ mode # "idle" /\ pc = "run" /\ pc' = "check" /\ calls' = calls /\ outcome' = outcome
      /\ success' = (success /\ HardFailures = {})
  BY DEF CompleteStage, BatchDone, StillSuccess
<1>2. ASSUME success', NEW j \in Jobs, outcome[j] = "hard"
      PROVE  FALSE
  <2>1. pipeline.stage[j] = stage
    BY <1>1, <1>2 DEF TruthInv, SuccessInv
  <2>2. j \in HardFailures
    BY <1>1, <1>2, <2>1 DEF TruthInv, WhenInv, PastInv, JobsOf, HardFailures, Succeeds
  <2> QED
    BY <1>1, <1>2, <2>2
<1> QED
  BY <1>1, <1>2 DEF TruthInv, SuccessInv, Completed, Ended

\* Appending a call of the run up to its end.
LEMMA CallKeepsSuccess ==
    ASSUME TypeOK, BatchInv, SuccessInv, Start \/ CheckCancelled \/ LastStageDone
    PROVE  SuccessInv'
<1>1. calls \in Seq(Callbacks)
  BY DEF TypeOK
<1>2. ASSUME NEW c \in {"start", "cancelled"}
      PROVE  /\ \A i \in DOMAIN Append(calls, c) :
                   Append(calls, c)[i] = c \/ (i \in DOMAIN calls /\ Append(calls, c)[i] = calls[i])
             /\ Append(calls, c)[Len(Append(calls, c))] = c
  BY <1>1
<1>3. mode = "idle" /\ ~Ended /\ pc' \notin {"returned", "raised"}
      /\ UNCHANGED <<config, batchVars, stage>>
  BY DEF BatchInv, Start, CheckCancelled, LastStageDone, Ended
<1>4. CASE Start
  BY <1>2, <1>3, <1>4 DEF Start, SuccessInv, Completed, Ended, config, batchVars
<1>5. CASE CheckCancelled
  BY <1>2, <1>3, <1>5 DEF CheckCancelled, SuccessInv, Completed, Ended, config, batchVars
<1>6. CASE LastStageDone
  BY <1>2, <1>3, <1>6 DEF LastStageDone, SuccessInv, Completed, Ended, config, batchVars
<1> QED
  BY <1>4, <1>5, <1>6

LEMMA FinallyKeepsSuccess ==
    ASSUME TypeOK, SuccessInv, Finally
    PROVE  SuccessInv'
<1> DEFINE closing == IF success THEN "complete_ok" ELSE "complete_failed"
<1>1. calls \in Seq(Callbacks) /\ AnnounceManual \in Seq(Callbacks)
      /\ \A i \in DOMAIN AnnounceManual : AnnounceManual[i] = "awaiting_manual"
  BY AnnouncementIsCalls DEF TypeOK, AnnounceManual
<1>2. /\ calls' = (calls \o AnnounceManual) \o <<closing>>
      /\ pc = "finally" /\ pc' \in {"returned", "raised"}
      /\ UNCHANGED <<config, batchVars, stage, success>>
  BY DEF Finally
<1>3. closing \in {"complete_ok", "complete_failed"} /\ (closing = "complete_ok" => success)
  OBVIOUS
<1> HIDE DEF closing
<1>4. /\ \A i \in DOMAIN calls' : \/ i \in DOMAIN calls /\ calls'[i] = calls[i]
                                  \/ calls'[i] \in {"awaiting_manual", closing}
      /\ calls'[Len(calls')] = closing
  BY <1>1, <1>2
<1> QED
  BY <1>2, <1>3, <1>4 DEF SuccessInv, Completed, Ended, config, batchVars

LEMMA SuccessNext ==
    ASSUME TruthInv, [Next]_vars
    PROVE  SuccessInv'
<1>1. CASE Start \/ CheckCancelled \/ LastStageDone
  BY <1>1, CallKeepsSuccess DEF TruthInv, WhenInv, BarrierInv
<1>2. CASE CheckPassed
  BY <1>2, QuietKeepsSuccess DEF CheckPassed, TruthInv, Ended
<1>3. CASE FilterStage
  <2>1. /\ mode = "idle" /\ pc = "filter" /\ pc' \in {"check", "run"}
        /\ UNCHANGED <<outcome, success, calls>>
    BY <1>3 DEF FilterStage, StartBatch, batchVars, TruthInv, WhenInv, BarrierInv, BatchInv
  <2> QED
    BY <2>1 DEF TruthInv, SuccessInv, Completed, Ended
<1>4. CASE Dispatch
  BY <1>4, DispatchIsFramed, FrameKeepsSuccess DEF TruthInv, Dispatch, stageVars
<1>5. CASE CompleteStage
  BY <1>5, CompleteKeepsSuccess
<1>6. CASE StageRaises
  BY <1>6 DEF StageRaises, TruthInv, SuccessInv, Completed, Ended, batchVars, config
<1>7. CASE Finally
  BY <1>7, FinallyKeepsSuccess DEF TruthInv, WhenInv, BarrierInv
<1>8. CASE Worker
  <2>1. mode' = mode /\ UNCHANGED <<pc, success, calls>>
    BY <1>8 DEF Worker, WorkerStep, WorkerStart, WorkerExit, PoolBreaks, stageVars
  <2> QED
    BY <1>8, <2>1, WorkerIsFramed, FrameKeepsSuccess DEF TruthInv
<1>9. CASE Cancel
  BY <1>9, QuietKeepsSuccess DEF Cancel, TruthInv, stageVars
<1>10. CASE UNCHANGED vars
  BY <1>10, QuietKeepsSuccess DEF vars, TruthInv, stageVars
<1> QED
  BY <1>1, <1>2, <1>3, <1>4, <1>5, <1>6, <1>7, <1>8, <1>9, <1>10
     DEF Next, RunnerStep, Terminated

LEMMA TruthHolds == Spec => []TruthInv
<1>1. Init => TruthInv
  BY TypeInit, BatchInit0, PastInit, SuccessInit DEF TruthInv, WhenInv, BarrierInv
<1>2. TruthInv /\ [Next]_vars => TruthInv'
  BY TypeNext, BatchNext, PastNext, SuccessNext DEF TruthInv, WhenInv, BarrierInv
<1> QED
  BY <1>1, <1>2, PTL DEF Spec

-----------------------------------------------------------------------------
(* The calls made so far, by where the method is.                          *)

CallInv ==
    /\ pc = "start" => calls = << >>
    /\ pc \in {"check", "filter", "run"} => calls = <<"start">>
    /\ pc = "finally" => calls = <<"start">> \/ (calls = <<"start", "cancelled">> /\ ~success)
    /\ Ended => calls \in { <<"start", "complete_ok">>,
                            <<"start", "awaiting_manual", "complete_ok">>,
                            <<"start", "complete_failed">>,
                            <<"start", "cancelled", "complete_failed">> }

\* Two and three calls, put together.
LEMMA TwoCalls ==
    ASSUME NEW c, NEW d
    PROVE  <<c>> \o <<d>> = <<c, d>> /\ Append(<<c>>, d) = <<c, d>>
<1> DEFINE S == {c, d}
<1>0. c \in S /\ d \in S
  OBVIOUS
<1> HIDE DEF S
<1>1. /\ <<c>> \in Seq(S) /\ <<d>> \in Seq(S) /\ <<c, d>> \in Seq(S)
      /\ Len(<<c>>) = 1 /\ Len(<<d>>) = 1 /\ Len(<<c, d>>) = 2
  BY <1>0
<1>2. <<c>> \o <<d>> = <<c, d>>
  <2>1. <<c>> \o <<d>> \in Seq(S) /\ Len(<<c>> \o <<d>>) = 2
    BY <1>0, <1>1
  <2>2. \A i \in 1..2 : (<<c>> \o <<d>>)[i] = <<c, d>>[i]
    BY <1>0, <1>1
  <2> QED
    BY <1>1, <2>1, <2>2, SeqEqual
<1>3. Append(<<c>>, d) = <<c, d>>
  <2>1. Append(<<c>>, d) \in Seq(S) /\ Len(Append(<<c>>, d)) = 2
    BY <1>0, <1>1
  <2>2. \A i \in 1..2 : Append(<<c>>, d)[i] = <<c, d>>[i]
    BY <1>0, <1>1
  <2> QED
    BY <1>1, <2>1, <2>2, SeqEqual
<1> QED
  BY <1>2, <1>3

LEMMA ThreeCalls ==
    ASSUME NEW c, NEW d, NEW e
    PROVE  <<c, d>> \o <<e>> = <<c, d, e>>
<1> DEFINE S == {c, d, e}
<1>0. c \in S /\ d \in S /\ e \in S
  OBVIOUS
<1> HIDE DEF S
<1>1. /\ <<c, d>> \in Seq(S) /\ <<e>> \in Seq(S) /\ <<c, d, e>> \in Seq(S)
      /\ Len(<<c, d>>) = 2 /\ Len(<<e>>) = 1 /\ Len(<<c, d, e>>) = 3
  BY <1>0
<1>2. <<c, d>> \o <<e>> \in Seq(S) /\ Len(<<c, d>> \o <<e>>) = 3
  BY <1>0, <1>1
<1>3. \A i \in 1..3 : (<<c, d>> \o <<e>>)[i] = <<c, d, e>>[i]
  BY <1>0, <1>1
<1> QED
  BY <1>1, <1>2, <1>3, SeqEqual

LEMMA CallInit == ASSUME Init PROVE CallInv
BY DEF Init, CallInv, Ended

\* Within the loop, or where it stands, no call is made.
LEMMA QuietKeepsCalls ==
    ASSUME CallInv, calls' = calls,
           \/ pc' = pc /\ success' = success
           \/ pc \in {"check", "filter", "run"} /\ pc' \in {"check", "filter", "run", "finally"}
    PROVE  CallInv'
BY DEF CallInv, Ended

LEMMA FinallyKeepsCalls ==
    ASSUME TypeOK, CallInv, Finally
    PROVE  CallInv'
<1>1. /\ pc = "finally" /\ pc' \in {"returned", "raised"} /\ calls \in Seq(Callbacks)
      /\ calls = <<"start">> \/ (calls = <<"start", "cancelled">> /\ ~success)
  BY DEF Finally, CallInv, TypeOK
<1>2. calls \o << >> = calls
  BY <1>1, ConcatEmptySeq
<1>3. CASE success /\ has_manual_skipped
  <2>1. calls' = (<<"start">> \o <<"awaiting_manual">>) \o <<"complete_ok">>
    BY <1>1, <1>3 DEF Finally, AnnounceManual
  <2>2. calls' = <<"start", "awaiting_manual">> \o <<"complete_ok">>
    BY <2>1, TwoCalls
  <2>3. <<"start", "awaiting_manual">> \o <<"complete_ok">>
            = <<"start", "awaiting_manual", "complete_ok">>
    BY ThreeCalls
  <2> QED
    BY <1>1, <2>2, <2>3 DEF CallInv, Ended
<1>4. CASE success /\ ~has_manual_skipped
  <2>1. calls' = <<"start">> \o <<"complete_ok">>
    BY <1>1, <1>2, <1>4 DEF Finally, AnnounceManual
  <2>2. calls' = <<"start", "complete_ok">>
    BY <2>1, TwoCalls
  <2> QED
    BY <1>1, <2>2 DEF CallInv, Ended
<1>5. CASE ~success
  <2>1. calls' = calls \o <<"complete_failed">>
    BY <1>1, <1>2, <1>5 DEF Finally, AnnounceManual
  <2>2. calls' \in {<<"start", "complete_failed">>, <<"start", "cancelled", "complete_failed">>}
    BY <1>1, <2>1, TwoCalls, ThreeCalls
  <2> QED
    BY <1>1, <2>2 DEF CallInv, Ended
<1> QED
  BY <1>3, <1>4, <1>5

LEMMA CallNext ==
    ASSUME TypeOK, CallInv, [Next]_vars
    PROVE  CallInv'
<1> USE QuietKeepsCalls
<1>1. CASE Start
  BY <1>1 DEF Start, CallInv, Ended
<1>2. CASE CheckCancelled
  <2>1. pc = "check" /\ pc' = "finally" /\ ~success' /\ calls = <<"start">>
    BY <1>2 DEF CheckCancelled, CallInv
  <2>2. calls' = <<"start", "cancelled">>
    BY <1>2, <2>1, TwoCalls DEF CheckCancelled
  <2> QED
    BY <2>1, <2>2 DEF CallInv, Ended
<1>3. CASE CheckPassed
  BY <1>3 DEF CheckPassed
<1>4. CASE FilterStage
  BY <1>4 DEF FilterStage
<1>5. CASE Dispatch
  BY <1>5 DEF Dispatch, stageVars
<1>6. CASE CompleteStage
  BY <1>6 DEF CompleteStage
<1>7. CASE StageRaises
  BY <1>7 DEF StageRaises
<1>8. CASE LastStageDone
  <2>1. pc = "check" /\ pc' = "finally" /\ calls = <<"start">>
    BY <1>8 DEF LastStageDone, CallInv
  <2>2. CASE cancel_event
    <3>1. calls' = <<"start", "cancelled">> /\ ~success'
      BY <1>8, <2>1, <2>2, TwoCalls DEF LastStageDone
    <3> QED
      BY <2>1, <3>1 DEF CallInv, Ended
  <2>3. CASE ~cancel_event
    BY <1>8, <2>1, <2>3 DEF LastStageDone, CallInv, Ended
  <2> QED
    BY <2>2, <2>3
<1>9. CASE Finally
  BY <1>9, FinallyKeepsCalls
<1>10. CASE Worker
  BY <1>10 DEF Worker, stageVars
<1>11. CASE Cancel
  BY <1>11 DEF Cancel, stageVars
<1>12. CASE UNCHANGED vars
  BY <1>12 DEF vars, stageVars
<1> QED
  BY <1>1, <1>2, <1>3, <1>4, <1>5, <1>6, <1>7, <1>8, <1>9, <1>10, <1>11, <1>12
     DEF Next, RunnerStep, Terminated

-----------------------------------------------------------------------------
(* The error that is remembered.                                           *)

CancelNoted == \E i \in DOMAIN calls : calls[i] = "cancelled"
AtEnd == pc \in {"finally", "returned", "raised"}

\* The job whose error is remembered failed hard in an earlier stage, and no job did before
\* that stage; while none is remembered, a hard failure is one of the batch that is still
\* to be looked at.
FirstInv ==
    /\ first_error = NoJob => \A j \in Jobs :
          outcome[j] = "hard" => mode # "idle" /\ pipeline.stage[j] = stage
    /\ first_error # NoJob =>
          /\ outcome[first_error] = "hard"
          /\ pipeline.stage[first_error] < stage
          /\ \A k \in EarlierStage(first_error) : outcome[k] # "hard"

\* What leaves the method: the exception of a batch, or the remembered error unless the
\* loop was left by a cancel.
RaisingInv ==
    /\ ~AtEnd => ~raising
    /\ AtEnd => mode = "idle" \/ (mode = "raised" /\ raising)
    /\ AtEnd /\ ~raising => first_error = NoJob \/ CancelNoted
    /\ AtEnd /\ raising => mode = "raised" \/ first_error # NoJob
    /\ pc = "returned" => ~raising
    /\ pc = "raised" => raising

ErrorInv == TruthInv /\ CallInv /\ FirstInv /\ RaisingInv

LEMMA ErrorInit == ASSUME Init PROVE FirstInv /\ RaisingInv
BY DEF Init, BatchInit, FirstInv, RaisingInv, AtEnd

\* A step inside a batch changes the outcomes of the current stage only.
LEMMA FrameKeepsFirst ==
    ASSUME ErrorInv, BatchFrame, first_error' = first_error
    PROVE  FirstInv'
<1>1. /\ pipeline' = pipeline /\ stage' = stage /\ stage \in Int
      /\ \A j \in Jobs : pipeline.stage[j] \in Int
      /\ first_error \in Jobs \cup {NoJob}
  BY StagesAssumption
     DEF BatchFrame, config, ErrorInv, TruthInv, WhenInv, BarrierInv, TypeOK, BatchTypeOK,
         PipelineConfig, Stages
<1>2. CASE first_error = NoJob
  BY <1>1, <1>2 DEF BatchFrame, ErrorInv, FirstInv
<1>3. CASE first_error # NoJob
  <2>1. /\ first_error \in Jobs /\ outcome[first_error] = "hard"
        /\ pipeline.stage[first_error] < stage
        /\ \A k \in EarlierStage(first_error) : outcome[k] # "hard"
    BY <1>1, <1>3 DEF ErrorInv, FirstInv
  <2>2. outcome'[first_error] = outcome[first_error]
    BY <1>1, <2>1 DEF BatchFrame
  <2>3. \A k \in EarlierStage(first_error) : outcome'[k] = outcome[k]
    BY <1>1, <2>1 DEF BatchFrame, EarlierStage
  <2> QED
    BY <1>1, <1>3, <2>1, <2>2, <2>3 DEF FirstInv, EarlierStage
<1> QED
  BY <1>2, <1>3

LEMMA CompleteKeepsFirst ==
    ASSUME ErrorInv, CompleteStage
    PROVE  FirstInv'
<1>1. /\ mode # "idle" /\ mode' = "idle" /\ stage' = stage + 1 /\ pipeline' = pipeline
      /\ outcome' = outcome /\ NoteFirstError
      /\ stage \in Int /\ \A j \in Jobs : pipeline.stage[j] \in Int
      /\ \A j \in Jobs : outcome[j] \in Outcomes
      /\ first_error \in Jobs \cup {NoJob}
  BY StagesAssumption DEF CompleteStage, BatchDone, config, ErrorInv, TruthInv, WhenInv,
                        BarrierInv, TypeOK, BatchTypeOK, PipelineConfig, Stages
<1>2. HardFailures = {j \in JobsOf(stage) : outcome[j] = "hard"}
  <2>1. outcomes = {j \in JobsOf(stage) : outcome[j] # "none"}
    BY <1>1 DEF ErrorInv, TruthInv, WhenInv, PastInv
  <2> QED
    BY <1>1, <2>1 DEF HardFailures, Succeeds, Outcomes, JobsOf
<1>3. CASE first_error # NoJob
  <2>1. first_error' = first_error
    BY <1>1, <1>3 DEF NoteFirstError
  <2> QED
    BY <1>1, <1>3, <2>1 DEF ErrorInv, FirstInv, EarlierStage
<1>4. CASE first_error = NoJob
  <2>1. \A j \in Jobs : outcome[j] = "hard" => pipeline.stage[j] = stage
    BY <1>4 DEF ErrorInv, FirstInv
  <2>2. CASE HardFailures = {}
    <3>1. first_error' = NoJob
      BY <1>1, <1>4, <2>2 DEF NoteFirstError
    <3>2. \A j \in Jobs : outcome[j] # "hard"
      BY <1>2, <2>1, <2>2 DEF JobsOf
    <3> QED
      BY <1>1, <3>1, <3>2 DEF FirstInv
  <2>3. CASE HardFailures # {}
    <3>1. first_error' \in HardFailures
      BY <1>1, <1>4, <2>3 DEF NoteFirstError
    <3>2. /\ first_error' \in Jobs /\ pipeline.stage[first_error'] = stage
          /\ outcome[first_error'] = "hard"
      BY <1>2, <3>1 DEF JobsOf
    <3>3. first_error' # NoJob
      BY <3>2, JobsAssumption
    <3>4. \A k \in Jobs : pipeline.stage[k] < pipeline.stage[first_error'] => outcome[k] # "hard"
      BY <1>1, <2>1, <3>2
    <3> QED
      BY <1>1, <3>2, <3>3, <3>4 DEF FirstInv, EarlierStage
  <2> QED
    BY <2>2, <2>3
<1> QED
  BY <1>3, <1>4

LEMMA FirstNext ==
    ASSUME ErrorInv, [Next]_vars
    PROVE  FirstInv'
<1>1. ASSUME UNCHANGED <<config, batchVars, stage, first_error>>
      PROVE  FirstInv'
  BY <1>1 DEF ErrorInv, FirstInv, EarlierStage, config, batchVars
<1>2. CASE Start \/ CheckCancelled \/ CheckPassed \/ StageRaises \/ LastStageDone \/ Finally
  BY <1>1, <1>2 DEF Start, CheckCancelled, CheckPassed, StageRaises, LastStageDone, Finally
<1>3. CASE FilterStage
  <2>1. /\ mode = "idle" /\ pipeline' = pipeline /\ outcome' = outcome
        /\ first_error' = first_error /\ stage' \in {stage, stage + 1}
        /\ stage \in Int /\ \A j \in Jobs : pipeline.stage[j] \in Int
        /\ first_error \in Jobs \cup {NoJob}
    BY <1>3, StagesAssumption
       DEF FilterStage, StartBatch, batchVars, config, ErrorInv, TruthInv, WhenInv, BarrierInv,
           TypeOK, BatchTypeOK, BatchInv, PipelineConfig, Stages
  <2> QED
    BY <2>1 DEF ErrorInv, FirstInv, EarlierStage
<1>4. CASE Dispatch
  BY <1>4, DispatchIsFramed, FrameKeepsFirst DEF ErrorInv, TruthInv, Dispatch, stageVars
<1>5. CASE CompleteStage
  BY <1>5, CompleteKeepsFirst
<1>6. CASE Worker
  BY <1>6, WorkerIsFramed, FrameKeepsFirst DEF ErrorInv, TruthInv, Worker, stageVars
<1>7. CASE Cancel
  BY <1>1, <1>7 DEF Cancel, stageVars
<1>8. CASE UNCHANGED vars
  BY <1>1, <1>8 DEF vars, stageVars
<1> QED
  BY <1>2, <1>3, <1>4, <1>5, <1>6, <1>7, <1>8 DEF Next, RunnerStep, Terminated

LEMMA NotesCancel ==
    ASSUME CallInv, CheckCancelled
    PROVE  CancelNoted'
<1>1. calls = <<"start">> /\ calls' = Append(calls, "cancelled")
  BY DEF CheckCancelled, CallInv
<1>2. calls' = <<"start", "cancelled">>
  BY <1>1, TwoCalls
<1>3. 2 \in DOMAIN calls' /\ calls'[2] = "cancelled"
  BY <1>2
<1> QED
  BY <1>3 DEF CancelNoted

\* A cancel that was announced stays announced.
LEMMA FinallyKeepsNote ==
    ASSUME ErrorInv, Finally
    PROVE  CancelNoted => CancelNoted'
<1>1. CASE success
  BY <1>1 DEF CancelNoted, ErrorInv, TruthInv, SuccessInv
<1>2. CASE ~success
  <2>1. calls' = (calls \o << >>) \o <<"complete_failed">>
    BY <1>2 DEF Finally, AnnounceManual
  <2>2. calls \in Seq(Callbacks)
    BY DEF ErrorInv, TruthInv, WhenInv, BarrierInv, TypeOK
  <2>3. \A i \in DOMAIN calls : i \in DOMAIN calls' /\ calls'[i] = calls[i]
    BY <2>1, <2>2
  <2> QED
    BY <2>3 DEF CancelNoted
<1> QED
  BY <1>1, <1>2

LEMMA RaisingNext ==
    ASSUME ErrorInv, [Next]_vars
    PROVE  RaisingInv'
<1>1. ASSUME UNCHANGED <<pc, mode, raising, first_error, calls>>
      PROVE  RaisingInv'
  BY <1>1 DEF ErrorInv, RaisingInv, AtEnd, CancelNoted
<1>2. ASSUME ~AtEnd, ~AtEnd', raising' = raising
      PROVE  RaisingInv'
  BY <1>2 DEF ErrorInv, RaisingInv, AtEnd
<1>3. CASE Start \/ CheckPassed \/ FilterStage \/ Dispatch \/ CompleteStage
  BY <1>2, <1>3 DEF Start, CheckPassed, FilterStage, Dispatch, CompleteStage, AtEnd, stageVars
<1>4. CASE CheckCancelled
  <2>1. /\ mode = "idle" /\ mode' = mode /\ pc = "check" /\ pc' = "finally"
        /\ raising' = raising /\ calls = <<"start">> /\ calls' = Append(calls, "cancelled")
    BY <1>4 DEF CheckCancelled, batchVars, ErrorInv, CallInv, TruthInv, WhenInv, BarrierInv, BatchInv
  <2>2. CancelNoted'
    BY <1>4, NotesCancel DEF ErrorInv
  <2> QED
    BY <2>1, <2>2 DEF ErrorInv, RaisingInv, AtEnd
<1>5. CASE StageRaises
  BY <1>5 DEF StageRaises, batchVars, ErrorInv, RaisingInv, AtEnd
<1>6. CASE LastStageDone
  BY <1>6 DEF LastStageDone, batchVars, ErrorInv, RaisingInv, AtEnd, TruthInv, WhenInv,
              BarrierInv, BatchInv
<1>7. CASE Finally
  <2>1. /\ pc = "finally" /\ pc' \in {"returned", "raised"} /\ mode' = mode
        /\ raising' = raising /\ first_error' = first_error
        /\ pc' = IF raising THEN "raised" ELSE "returned"
    BY <1>7 DEF Finally, batchVars
  <2>2. CancelNoted => CancelNoted'
    BY <1>7, FinallyKeepsNote
  <2> QED
    BY <2>1, <2>2 DEF ErrorInv, RaisingInv, AtEnd
<1>8. CASE Worker
  BY <1>1, <1>8 DEF Worker, WorkerStep, WorkerStart, WorkerExit, PoolBreaks, stageVars
<1>9. CASE Cancel
  BY <1>1, <1>9 DEF Cancel, stageVars, batchVars
<1>10. CASE UNCHANGED vars
  BY <1>1, <1>10 DEF vars, stageVars, batchVars
<1> QED
  BY <1>3, <1>4, <1>5, <1>6, <1>7, <1>8, <1>9, <1>10 DEF Next, RunnerStep, Terminated

LEMMA ErrorHolds == Spec => []ErrorInv
<1>1. Init => ErrorInv
  BY TypeInit, BatchInit0, PastInit, SuccessInit, CallInit, ErrorInit
     DEF ErrorInv, TruthInv, WhenInv, BarrierInv
<1>2. ErrorInv /\ [Next]_vars => ErrorInv'
  BY TypeNext, BatchNext, PastNext, SuccessNext, CallNext, FirstNext, RaisingNext
     DEF ErrorInv, TruthInv, WhenInv, BarrierInv
<1> QED
  BY <1>1, <1>2, PTL DEF Spec

-----------------------------------------------------------------------------
(* The jobs that were not run.                                             *)

StoppedBySibling(s) == options.workers = 1 /\ \E k \in JobsOf(s) : outcome[k] = "hard"

\* The job was launched, or there is a reason why it was not.
Accounted(j) ==
    \/ j \in Launched
    \/ pipeline.when[j] \in {"manual", "never"}
    \/ pipeline.when[j] = "on_success" /\ (\E k \in EarlierStage(j) : Failed(k))
    \/ pipeline.when[j] = "on_failure" /\ (\A k \in EarlierStage(j) : ~Failed(k))
    \/ StoppedBySibling(pipeline.stage[j])

InBatch == mode \in {"serial", "submitting", "polling", "draining"}

\* In a batch, a job of the stage that the filter selected is still to be launched, or was,
\* or the serial loop stopped at a hard failure.  With several workers only a batch of one
\* job is run serially, and there is nothing left for the loop to drop when that one fails.
BatchAccount ==
    /\ InBatch => \A j \in JobsOf(stage) :
          \/ j \in todo \/ work[j] # "idle"
          \/ ~Selected(j, prior_had_failure)
          \/ StoppedBySibling(stage)
    /\ mode \in {"polling", "draining"} => todo = {}
    /\ mode = "serial" /\ options.workers # 1 =>
          /\ \A j, k \in todo : j = k
          /\ (\E j \in JobsOf(stage) : work[j] # "idle") => todo = {}

AccountInv ==
    /\ \A j \in Jobs : pipeline.stage[j] < stage => Accounted(j)
    /\ BatchAccount
    /\ AtEnd /\ mode # "raised" /\ ~CancelNoted => stage > NStages

LEMMA AccountInit == ASSUME Init PROVE AccountInv
<1>1. \A j \in Jobs : ~(pipeline.stage[j] < stage)
  BY StagesAssumption, SettingsAssumption DEF Init, BatchInit, PipelineConfig, Stages
<1> QED
  BY <1>1 DEF Init, BatchInit, AccountInv, BatchAccount, InBatch, AtEnd

LEMMA DispatchKeepsAccount ==
    ASSUME WhenInv, BatchAccount, Dispatch
    PROVE  BatchAccount'
<1>1. /\ pipeline' = pipeline /\ options' = options /\ stage' = stage
      /\ prior_had_failure' = prior_had_failure
      /\ DispatchStep(TRUE)
  BY DEF Dispatch, stageVars, config
<1> USE DEF WhenInv, BarrierInv, TypeOK, BatchTypeOK, BatchInv, PastInv, Active, JobsOf,
            WorkStates, BatchAccount, InBatch, StoppedBySibling, Selected
<1>2. CASE \E j \in Jobs : Memoize(j)
  BY <1>1, <1>2 DEF Memoize
<1>3. CASE \E j \in Jobs : SerialStart(j)
  BY <1>1, <1>3 DEF SerialStart
<1>4. CASE \E j \in Jobs : \E e \in Endings, mutated \in BOOLEAN :
              SerialFinish(j, e, mutated, TRUE)
  BY <1>1, <1>4 DEF SerialFinish, Classify, Succeeds
<1>5. CASE \E j \in Jobs : \E e \in Endings : SerialCollectFails(j, e)
  BY <1>1, <1>5 DEF SerialCollectFails
<1>6. CASE \E j \in Jobs : Submit(j)
  BY <1>1, <1>6 DEF Submit
<1>7. CASE \E j \in Jobs : Reap(j)
  BY <1>1, <1>7 DEF Reap
<1>8. CASE \E j \in Jobs : ReapCollectFails(j)
  BY <1>1, <1>8 DEF ReapCollectFails
<1>9. CASE StartPolling
  BY <1>1, <1>9 DEF StartPolling
<1>10. CASE PoolShutDown
  BY <1>1, <1>10 DEF PoolShutDown
<1> QED
  BY <1>1, <1>2, <1>3, <1>4, <1>5, <1>6, <1>7, <1>8, <1>9, <1>10 DEF DispatchStep

LEMMA WorkerKeepsAccount ==
    ASSUME WhenInv, BatchAccount, Worker
    PROVE  BatchAccount'
<1>1. /\ pipeline' = pipeline /\ options' = options /\ stage' = stage
      /\ prior_had_failure' = prior_had_failure
      /\ WorkerStep
  BY DEF Worker, stageVars, config
<1> USE DEF WhenInv, BarrierInv, TypeOK, BatchTypeOK, JobsOf, WorkStates, BatchAccount, InBatch,
            StoppedBySibling, Selected
<1>2. CASE \E j \in Jobs : WorkerStart(j)
  BY <1>1, <1>2 DEF WorkerStart
<1>3. CASE \E j \in Jobs : \E e \in Endings : WorkerExit(j, e)
  BY <1>1, <1>3 DEF WorkerExit
<1>4. CASE PoolBreaks
  BY <1>1, <1>4 DEF PoolBreaks, InPool
<1> QED
  BY <1>1, <1>2, <1>3, <1>4 DEF WorkerStep

\* What is over stays as it is: a batch changes jobs of the current stage only.
LEMMA FrameKeepsAccounts ==
    ASSUME WhenInv, BatchFrame, \A j \in Jobs : pipeline.stage[j] < stage => Accounted(j)
    PROVE  (\A j \in Jobs : pipeline.stage[j] < stage => Accounted(j))'
<1>1. /\ pipeline' = pipeline /\ options' = options /\ stage' = stage /\ stage \in Int
      /\ \A j \in Jobs : pipeline.stage[j] \in Int
  BY StagesAssumption
     DEF BatchFrame, config, WhenInv, BarrierInv, TypeOK, BatchTypeOK, PipelineConfig, Stages
<1>2. SUFFICES ASSUME NEW j \in Jobs, pipeline.stage[j] < stage
               PROVE  Accounted(j)'
  BY <1>1
<1>3. /\ work'[j] = work[j]
      /\ \A k \in EarlierStage(j) : Failed(k)' <=> Failed(k)
      /\ \A k \in JobsOf(pipeline.stage[j]) : outcome'[k] = outcome[k]
  BY <1>1, <1>2 DEF BatchFrame, EarlierStage, JobsOf, Failed
<1>4. Accounted(j)
  BY <1>2
<1>5. /\ EarlierStage(j)' = EarlierStage(j)
      /\ JobsOf(pipeline.stage[j])' = JobsOf(pipeline.stage[j])
  BY <1>1 DEF EarlierStage, JobsOf
<1>6. CASE j \in Launched
  BY <1>3, <1>6 DEF Accounted, Launched
<1>7. CASE StoppedBySibling(pipeline.stage[j])
  BY <1>1, <1>3, <1>5, <1>7 DEF Accounted, StoppedBySibling
<1>8. CASE j \notin Launched /\ ~StoppedBySibling(pipeline.stage[j])
  BY <1>1, <1>3, <1>4, <1>5, <1>8 DEF Accounted
<1> QED
  BY <1>6, <1>7, <1>8

\* A job that the filter leaves out is out for the reason its when: gives.
LEMMA UnselectedIsAccounted ==
    ASSUME WhenInv, NEW j \in JobsOf(stage), ~Selected(j, prior_had_failure)
    PROVE  Accounted(j)
<1>1. /\ j \in Jobs /\ pipeline.stage[j] = stage /\ pipeline.when[j] \in Whens
  BY DEF JobsOf, WhenInv, BarrierInv, TypeOK, BatchTypeOK, PipelineConfig
<1>2. prior_had_failure <=> PastFailures # {}
  BY DEF WhenInv, PastInv
<1>3. EarlierStage(j) = {k \in Jobs : pipeline.stage[k] < stage}
  BY <1>1 DEF EarlierStage
<1> QED
  BY <1>1, <1>2, <1>3 DEF Selected, Accounted, PastFailures, Whens

AllInv == ErrorInv /\ AccountInv

LEMMA FilterKeepsAccount ==
    ASSUME AllInv, FilterStage
    PROVE  AccountInv'
<1> DEFINE js == FilterJobsByWhen(JobsOf(stage), prior_had_failure)
<1>1. /\ mode = "idle" /\ pipeline' = pipeline /\ options' = options
      /\ prior_had_failure' = prior_had_failure /\ work' = work /\ outcome' = outcome
      /\ stage \in Int /\ \A j \in Jobs : pipeline.stage[j] \in Int
      /\ ~AtEnd' /\ js \subseteq Jobs
      /\ \A j \in Jobs : Accounted(j)' <=> Accounted(j)
  <2>1. /\ WhenInv /\ BatchInv /\ TypeOK /\ pc = "filter"
    BY DEF AllInv, ErrorInv, TruthInv, WhenInv, BarrierInv, FilterStage
  <2>2. /\ mode = "idle" /\ pipeline' = pipeline /\ options' = options
        /\ prior_had_failure' = prior_had_failure /\ work' = work /\ outcome' = outcome
        /\ ~AtEnd'
    BY <2>1 DEF FilterStage, StartBatch, batchVars, config, BatchInv, AtEnd
  <2>3. stage \in Int /\ \A j \in Jobs : pipeline.stage[j] \in Int
    BY <2>1, StagesAssumption DEF TypeOK, BatchTypeOK, PipelineConfig, Stages
  <2>4. \A j \in Jobs : Accounted(j)' <=> Accounted(j)
    BY <2>2 DEF Accounted, Launched, EarlierStage, Failed, StoppedBySibling, JobsOf
  <2> QED
    BY <2>2, <2>3, <2>4 DEF FilterJobsByWhen, JobsOf
<1>2. CASE js = {} /\ stage' = stage + 1 /\ UNCHANGED batchVars
  <2>1. \A j \in JobsOf(stage) : Accounted(j)
    <3>1. \A j \in JobsOf(stage) : ~Selected(j, prior_had_failure)
      BY <1>2 DEF FilterJobsByWhen
    <3> QED
      BY <3>1, UnselectedIsAccounted DEF AllInv, ErrorInv, TruthInv
  <2>2. \A j \in Jobs : pipeline.stage[j] < stage' => Accounted(j)
    BY <1>1, <1>2, <2>1 DEF AllInv, AccountInv, JobsOf
  <2>3. mode' = "idle"
    BY <1>1, <1>2 DEF batchVars
  <2> QED
    BY <1>1, <2>2, <2>3 DEF AccountInv, BatchAccount, InBatch
<1>3. CASE js # {} /\ stage' = stage /\ StartBatch(js)
  <2>1. /\ todo' = js
        /\ mode' = IF options.workers = 1 \/ Cardinality(js) = 1 THEN "serial" ELSE "submitting"
    BY <1>3 DEF StartBatch
  <2>2. \A j \in JobsOf(stage) : j \in js \/ ~Selected(j, prior_had_failure)
    BY DEF FilterJobsByWhen
  <2>3. \A j \in JobsOf(stage) : work[j] = "idle"
    BY <1>1 DEF AllInv, ErrorInv, TruthInv, WhenInv, PastInv, JobsOf
  <2>4. ASSUME mode' = "serial", options.workers # 1, NEW j \in js, NEW k \in js
        PROVE  j = k
    <3>1. Cardinality(js) = 1
      BY <2>1, <2>4
    <3>2. IsFiniteSet(js)
      BY <1>1, JobsAssumption, FS_Subset
    <3>3. PICK x : js = {x}
      BY <3>1, <3>2, FS_Singleton
    <3> HIDE DEF js
    <3> QED
      BY <2>4, <3>3
  <2>5. \A j \in Jobs : pipeline.stage[j] < stage' => Accounted(j)
    BY <1>3 DEF AllInv, AccountInv
  <2> HIDE DEF js
  <2>6. BatchAccount'
    BY <1>1, <1>3, <2>1, <2>2, <2>3, <2>4 DEF BatchAccount, JobsOf, Selected
  <2> QED
    BY <1>1, <2>5, <2>6 DEF AccountInv
<1> QED
  BY <1>2, <1>3 DEF FilterStage

LEMMA CompleteKeepsAccount ==
    ASSUME AllInv, CompleteStage
    PROVE  AccountInv'
<1>1. /\ WhenInv /\ BatchDone /\ pipeline' = pipeline /\ options' = options /\ work' = work
      /\ outcome' = outcome /\ stage' = stage + 1 /\ mode' = "idle" /\ ~AtEnd'
  BY DEF AllInv, ErrorInv, TruthInv, CompleteStage, config, AtEnd
<1>2. stage \in Int /\ \A j \in Jobs : pipeline.stage[j] \in Int
  BY <1>1, StagesAssumption DEF WhenInv, BarrierInv, TypeOK, BatchTypeOK, PipelineConfig, Stages
<1>3. \A j \in Jobs : Accounted(j)' <=> Accounted(j)
  BY <1>1 DEF Accounted, Launched, EarlierStage, Failed, StoppedBySibling, JobsOf
<1>4. ASSUME NEW j \in JobsOf(stage)
      PROVE  Accounted(j)
  <2>1. InBatch /\ todo = {}
    BY <1>1 DEF BatchDone, InBatch, AllInv, AccountInv, BatchAccount
  <2>2. work[j] # "idle" \/ ~Selected(j, prior_had_failure) \/ StoppedBySibling(stage)
    BY <2>1 DEF AllInv, AccountInv, BatchAccount
  <2>3. j \in Jobs /\ pipeline.stage[j] = stage
    BY DEF JobsOf
  <2>4. CASE ~Selected(j, prior_had_failure)
    BY <1>1, <2>4, UnselectedIsAccounted
  <2> QED
    BY <2>2, <2>3, <2>4 DEF Accounted, Launched
<1>5. \A j \in Jobs : pipeline.stage[j] < stage + 1 => Accounted(j)
  BY <1>2, <1>4 DEF AllInv, AccountInv, JobsOf
<1> QED
  BY <1>1, <1>3, <1>5 DEF AccountInv, BatchAccount, InBatch

\* A step that leaves the batch and the stage alone and does not leave the loop.
LEMMA StillKeepsAccount ==
    ASSUME AccountInv, UNCHANGED <<config, batchVars, stage, prior_had_failure>>,
           ~AtEnd' \/ (AtEnd /\ (CancelNoted => CancelNoted'))
                   \/ CancelNoted' \/ mode = "raised" \/ stage > NStages
    PROVE  AccountInv'
<1>1. \A j \in Jobs : Accounted(j)' <=> Accounted(j)
  BY DEF Accounted, Launched, EarlierStage, Failed, StoppedBySibling, JobsOf, config, batchVars
<1>2. BatchAccount'
  BY DEF AccountInv, BatchAccount, InBatch, JobsOf, Selected, StoppedBySibling, config, batchVars
<1>3. (AtEnd /\ mode # "raised" /\ ~CancelNoted => stage > NStages)'
  BY DEF AccountInv, batchVars
<1> QED
  BY <1>1, <1>2, <1>3 DEF AccountInv, config

LEMMA AccountNext ==
    ASSUME AllInv, [Next]_vars
    PROVE  AccountInv'
<1> USE StillKeepsAccount
<1>0. ErrorInv /\ AccountInv /\ WhenInv
  BY DEF AllInv, ErrorInv, TruthInv
<1>1. CASE Start \/ CheckPassed
  BY <1>0, <1>1 DEF Start, CheckPassed, AtEnd
<1>2. CASE CheckCancelled
  <2>1. CancelNoted'
    BY <1>0, <1>2, NotesCancel DEF ErrorInv
  <2> QED
    BY <1>0, <1>2, <2>1 DEF CheckCancelled
<1>3. CASE FilterStage
  BY <1>3, FilterKeepsAccount
<1>4. CASE Dispatch
  <2>1. BatchAccount'
    BY <1>0, <1>4, DispatchKeepsAccount DEF AccountInv
  <2>2. (\A j \in Jobs : pipeline.stage[j] < stage => Accounted(j))'
    BY <1>0, <1>4, DispatchIsFramed, FrameKeepsAccounts DEF AccountInv
  <2>3. ~AtEnd'
    BY <1>4 DEF Dispatch, stageVars, AtEnd
  <2> QED
    BY <2>1, <2>2, <2>3 DEF AccountInv
<1>5. CASE CompleteStage
  BY <1>5, CompleteKeepsAccount
<1>6. CASE StageRaises
  BY <1>0, <1>6 DEF StageRaises
<1>7. CASE LastStageDone
  BY <1>0, <1>7 DEF LastStageDone
<1>8. CASE Finally
  <2>1. AtEnd /\ (CancelNoted => CancelNoted')
    BY <1>0, <1>8, FinallyKeepsNote DEF Finally, AtEnd
  <2> QED
    BY <1>0, <1>8, <2>1 DEF Finally
<1>9. CASE Worker
  <2>1. BatchAccount'
    BY <1>0, <1>9, WorkerKeepsAccount DEF AccountInv
  <2>2. (\A j \in Jobs : pipeline.stage[j] < stage => Accounted(j))'
    BY <1>0, <1>9, WorkerIsFramed, FrameKeepsAccounts DEF AccountInv
  <2>3. UNCHANGED <<pc, calls, stage, mode>>
    BY <1>9 DEF Worker, WorkerStep, WorkerStart, WorkerExit, PoolBreaks, stageVars
  <2>4. (AtEnd /\ mode # "raised" /\ ~CancelNoted => stage > NStages)'
    BY <1>0, <2>3 DEF AccountInv, AtEnd, CancelNoted
  <2> QED
    BY <2>1, <2>2, <2>4 DEF AccountInv
<1>10. CASE Cancel \/ UNCHANGED vars
  <2>1. UNCHANGED <<config, batchVars, stage, prior_had_failure, pc, calls>>
    BY <1>10 DEF Cancel, vars, stageVars
  <2>2. ~AtEnd' \/ (AtEnd /\ (CancelNoted => CancelNoted'))
    BY <2>1 DEF AtEnd, CancelNoted
  <2> QED
    BY <1>0, <2>1, <2>2
<1> QED
  BY <1>1, <1>2, <1>3, <1>4, <1>5, <1>6, <1>7, <1>8, <1>9, <1>10
     DEF Next, RunnerStep, Terminated

-----------------------------------------------------------------------------
(* The abstract pipeline.                                                  *)

\* Nothing is left in the pool when an exception leaves a batch, and the serial loop runs one
\* job at a time.
PoolInv ==
    /\ mode = "serial" => \A j, k \in Running : j = k
    /\ mode = "raised" => InPool = {}

RefineInv == AllInv /\ PoolInv

LEMMA PoolNext ==
    ASSUME WhenInv, PoolInv, [Next]_vars
    PROVE  PoolInv'
<1> USE DEF WhenInv, BarrierInv, BatchInv, PoolInv, Running, InPool, Active
<1>1. ASSUME UNCHANGED <<mode, work>>
      PROVE  PoolInv'
  BY <1>1
<1>2. CASE Start \/ CheckCancelled \/ CheckPassed \/ StageRaises \/ LastStageDone \/ Finally
  BY <1>1, <1>2
     DEF Start, CheckCancelled, CheckPassed, StageRaises, LastStageDone, Finally, batchVars
<1>3. CASE FilterStage
  BY <1>3 DEF FilterStage, StartBatch, batchVars
<1>4. CASE CompleteStage
  BY <1>4 DEF CompleteStage
<1>5. CASE Dispatch
  <2>1. DispatchStep(TRUE) /\ \A j \in Jobs : work[j] \in WorkStates
    BY <1>5 DEF Dispatch, TypeOK, BatchTypeOK
  <2> USE DEF TypeOK, BatchTypeOK, WorkStates
  <2>2. CASE \E j \in Jobs : Memoize(j)
    BY <2>2 DEF Memoize
  <2>3. CASE \E j \in Jobs : SerialStart(j)
    BY <2>3 DEF SerialStart
  <2>4. CASE \E j \in Jobs : \E e \in Endings, mutated \in BOOLEAN :
                SerialFinish(j, e, mutated, TRUE)
    BY <2>4 DEF SerialFinish
  <2>5. CASE \E j \in Jobs : \E e \in Endings : SerialCollectFails(j, e)
    BY <2>5 DEF SerialCollectFails
  <2>6. CASE \E j \in Jobs : Submit(j)
    BY <2>6 DEF Submit
  <2>7. CASE \E j \in Jobs : Reap(j)
    BY <2>7 DEF Reap
  <2>8. CASE \E j \in Jobs : ReapCollectFails(j)
    BY <2>8 DEF ReapCollectFails
  <2>9. CASE StartPolling \/ PoolShutDown
    BY <2>9 DEF StartPolling, PoolShutDown
  <2> QED
    BY <2>1, <2>2, <2>3, <2>4, <2>5, <2>6, <2>7, <2>8, <2>9 DEF DispatchStep
<1>6. CASE Worker
  <2> USE DEF TypeOK, BatchTypeOK, WorkStates
  <2>1. CASE \E j \in Jobs : WorkerStart(j)
    BY <2>1 DEF WorkerStart
  <2>2. CASE \E j \in Jobs : \E e \in Endings : WorkerExit(j, e)
    BY <2>2 DEF WorkerExit
  <2>3. CASE PoolBreaks
    BY <2>3 DEF PoolBreaks
  <2> QED
    BY <1>6, <2>1, <2>2, <2>3 DEF Worker, WorkerStep
<1>7. CASE Cancel \/ UNCHANGED vars
  BY <1>1, <1>7 DEF Cancel, vars, batchVars
<1> QED
  BY <1>2, <1>3, <1>4, <1>5, <1>6, <1>7 DEF Next, RunnerStep, Terminated

LEMMA RefineHolds == Spec => []RefineInv
<1>1. Init => AccountInv /\ PoolInv
  BY AccountInit DEF Init, BatchInit, PoolInv
<1>2. ErrorInv /\ AccountInv /\ PoolInv /\ [Next]_vars => AccountInv' /\ PoolInv'
  BY AccountNext, PoolNext DEF AllInv, ErrorInv, TruthInv
<1>3. ErrorInv /\ AccountInv /\ PoolInv => RefineInv
  BY DEF RefineInv, AllInv
<1> QED
  BY <1>1, <1>2, <1>3, ErrorHolds, PTL DEF Spec

\* The variables of PipelineSpec as the runner's.
Before == [j \in Jobs |-> EarlierStage(j)]
Status == [j \in Jobs |-> StatusOf(j)]
Verdict == IF ~Ended THEN "open" ELSE IF success THEN "passed" ELSE "failed"
Settled == {"succeeded", "tolerated", "failed", "skipped"}

LEMMA StatusIs ==
    ASSUME RefineInv, NEW j \in Jobs
    PROVE  /\ Status[j] = StatusOf(j)
           /\ work[j] = "idle" /\ pipeline.stage[j] >= stage => StatusOf(j) = "waiting"
           /\ work[j] = "idle" /\ pipeline.stage[j] < stage => StatusOf(j) = "skipped"
           /\ work[j] \in {"queued", "running"} => StatusOf(j) = "active"
           /\ work[j] = "exited" => StatusOf(j) = "ended"
           /\ work[j] = "done" => StatusOf(j) \in Settled \ {"skipped"}
           /\ pipeline.stage[j] < stage => StatusOf(j) \in Settled
<1>1. /\ work[j] \in WorkStates /\ pipeline.stage[j] \in Int /\ stage \in Int
      /\ Active(j) => pipeline.stage[j] = stage
  BY StagesAssumption
     DEF RefineInv, AllInv, ErrorInv, TruthInv, WhenInv, BarrierInv, BatchInv, TypeOK,
         BatchTypeOK, PipelineConfig, Stages
<1> QED
  BY <1>1 DEF Status, StatusOf, Settled, WorkStates, Active

\* The jobs before one of the current stage are settled.
LEMMA EarlierAreSettled ==
    ASSUME RefineInv, NEW j \in Jobs, pipeline.stage[j] = stage, NEW k \in EarlierStage(j)
    PROVE  k \in Jobs /\ Status[k] \in Settled
BY StatusIs DEF EarlierStage

\* A step that moves one job of a batch moves its status only.
LEMMA OneStatus ==
    ASSUME NEW j \in Jobs, UNCHANGED <<config, stage>>,
           \A k \in Jobs \ {j} : work'[k] = work[k] /\ outcome'[k] = outcome[k]
    PROVE  Before' = Before /\ Status' = [Status EXCEPT ![j] = StatusOf(j)']
<1>1. pipeline' = pipeline /\ stage' = stage
  BY DEF config
<1>2. Before' = Before
  BY <1>1 DEF Before, EarlierStage
<1>3. ASSUME NEW k \in Jobs \ {j} PROVE StatusOf(k)' = StatusOf(k)
  <2>1. work'[k] = work[k] /\ outcome'[k] = outcome[k]
    OBVIOUS
  <2> QED
    BY <2>1, <1>1 DEF StatusOf
<1>4. Status' = [Status EXCEPT ![j] = StatusOf(j)']
  BY <1>3 DEF Status
<1> QED
  BY <1>2, <1>4

\* A step of the abstract pipeline before its verdict, told by what it does to one status.
LEMMA OneJobStep ==
    ASSUME RefineInv, NEW j \in Jobs, UNCHANGED <<config, stage, pc, success>>, ~Ended,
           pipeline.stage[j] = stage,
           \A k \in Jobs \ {j} : work'[k] = work[k] /\ outcome'[k] = outcome[k],
           \/ /\ StatusOf(j) = "waiting"
              /\ StatusOf(j)' \in {"active", "succeeded"}
           \/ StatusOf(j) = "active" /\ StatusOf(j)' = "ended"
           \/ /\ StatusOf(j) \in {"active", "ended"}
              /\ StatusOf(j)' \in {"succeeded", "tolerated", "failed"}
    PROVE  Abstract!Next
<1>1. /\ Before' = Before /\ Status' = [Status EXCEPT ![j] = StatusOf(j)']
      /\ Status[j] = StatusOf(j) /\ Verdict = "open" /\ Verdict' = "open"
  BY OneStatus, StatusIs DEF Verdict, Ended
<1>2. Before[j] = EarlierStage(j) /\ \A k \in EarlierStage(j) : Status[k] \in Settled
  BY EarlierAreSettled DEF Before
<1> DEFINE t == StatusOf(j)'
<1>3. t = StatusOf(j)'
  OBVIOUS
<1> HIDE DEF t
<1>4. CASE StatusOf(j) = "waiting" /\ t = "active"
  <2>1. Abstract!Launch(j)
    BY <1>1, <1>2, <1>3, <1>4
       DEF Abstract!Launch, Abstract!Settled, Abstract!Settlements, Status, Before, Settled
  <2> QED
    BY <1>1, <2>1 DEF Abstract!Next, Before, Verdict
<1>5. CASE StatusOf(j) = "waiting" /\ t = "succeeded"
  <2>1. Abstract!Recall(j)
    BY <1>1, <1>2, <1>3, <1>5
       DEF Abstract!Recall, Abstract!Settled, Abstract!Settlements, Status, Before, Settled
  <2> QED
    BY <1>1, <2>1 DEF Abstract!Next, Before, Verdict
<1>6. CASE StatusOf(j) = "active" /\ t = "ended"
  <2>1. Status' = [k \in Jobs |-> IF k \in {j} THEN "ended" ELSE Status[k]]
    BY <1>1, <1>3, <1>6 DEF Status
  <2>2. Abstract!End({j})
    BY <1>1, <1>6, <2>1 DEF Abstract!End, Status
  <2> QED
    BY <1>1, <2>2 DEF Abstract!Next, Before, Verdict
<1>7. CASE StatusOf(j) \in {"active", "ended"} /\ t \in {"succeeded", "tolerated", "failed"}
  <2>1. Abstract!Settle(j)
    BY <1>1, <1>3, <1>7 DEF Abstract!Settle, Abstract!Settlements, Status
  <2> QED
    BY <1>1, <2>1 DEF Abstract!Next, Before, Verdict
<1> QED
  BY <1>3, <1>4, <1>5, <1>6, <1>7

\* A step that no variable of the abstract pipeline notices.
LEMMA Unnoticed ==
    ASSUME UNCHANGED config, Status' = Status, Verdict' = Verdict
    PROVE  UNCHANGED Abstract!vars
<1>1. Before' = Before
  BY DEF Before, EarlierStage, config
<1> QED
  BY <1>1 DEF Abstract!vars, Before, Status, Verdict

LEMMA DispatchRefines ==
    ASSUME RefineInv, Dispatch
    PROVE  [Abstract!Next]_(Abstract!vars)
<1>1. /\ pc = "run" /\ ~Ended /\ UNCHANGED <<config, stage, pc, success>>
      /\ UNCHANGED pipeline /\ DispatchStep(TRUE)
  BY DEF Dispatch, stageVars, config, Ended
<1>2. /\ \A j \in Jobs : work[j] \in WorkStates /\ pipeline.stage[j] \in Int
      /\ mode # "idle" => todo \subseteq JobsOf(stage) /\ \A j \in todo : work[j] = "idle"
      /\ \A j \in Jobs : Active(j) => pipeline.stage[j] = stage
      /\ work \in [Jobs -> WorkStates] /\ outcome \in [Jobs -> Outcomes] /\ stage \in Int
  BY StagesAssumption
     DEF RefineInv, AllInv, ErrorInv, TruthInv, WhenInv, BarrierInv, BatchInv, PastInv,
         TypeOK, BatchTypeOK, PipelineConfig, Stages
<1>3. ASSUME UNCHANGED <<work, outcome>>
      PROVE  UNCHANGED Abstract!vars
  <2>1. Status' = Status /\ Verdict' = Verdict
    BY <1>1, <1>3 DEF Status, StatusOf, Verdict, Ended
  <2> QED
    BY <1>1, <2>1, Unnoticed
<1>4. ASSUME NEW j \in Jobs, Memoize(j)
      PROVE  Abstract!Next
  <2>1. /\ work[j] = "idle" /\ pipeline.stage[j] = stage
        /\ work' = [work EXCEPT ![j] = "done"] /\ outcome' = [outcome EXCEPT ![j] = "memoized"]
    BY <1>2, <1>4 DEF Memoize, JobsOf
  <2>2. StatusOf(j) = "waiting" /\ StatusOf(j)' = "succeeded"
    BY <1>1, <1>2, <2>1 DEF StatusOf
  <2> QED
    BY <1>1, <1>2, <2>1, <2>2, OneJobStep
<1>5. ASSUME NEW j \in Jobs, SerialStart(j) \/ Submit(j)
      PROVE  Abstract!Next
  <2>1. /\ work[j] = "idle" /\ pipeline.stage[j] = stage
        /\ \E w \in {"running", "queued"} : work' = [work EXCEPT ![j] = w]
        /\ outcome' = outcome
    BY <1>2, <1>5 DEF SerialStart, Submit, JobsOf
  <2>2. StatusOf(j) = "waiting" /\ StatusOf(j)' = "active"
    BY <1>1, <1>2, <2>1 DEF StatusOf
  <2> QED
    BY <1>1, <1>2, <2>1, <2>2, OneJobStep
<1>6. ASSUME NEW j \in Jobs,
             Reap(j) \/ \E e \in Endings, mutated \in BOOLEAN : SerialFinish(j, e, mutated, TRUE)
      PROVE  Abstract!Next
  <2>1. /\ work[j] \in {"running", "exited"}
        /\ work' = [work EXCEPT ![j] = "done"]
        /\ \E o \in Outcomes : outcome' = [outcome EXCEPT ![j] = o]
    BY <1>6 DEF SerialFinish, Reap, Classify, Outcomes
  <2>2. pipeline.stage[j] = stage
    BY <1>2, <2>1 DEF Active
  <2>3. /\ StatusOf(j) \in {"active", "ended"}
        /\ StatusOf(j)' \in {"succeeded", "tolerated", "failed"}
    BY <1>1, <1>2, <2>1 DEF StatusOf
  <2> QED
    BY <1>1, <1>2, <2>1, <2>2, <2>3, OneJobStep
<1>7. ASSUME NEW j \in Jobs, NEW e \in Endings, SerialCollectFails(j, e)
      PROVE  Abstract!Next
  <2>1. work[j] = "running" /\ work' = [work EXCEPT ![j] = "exited"] /\ outcome' = outcome
    BY <1>7 DEF SerialCollectFails
  <2>2. StatusOf(j) = "active" /\ StatusOf(j)' = "ended" /\ pipeline.stage[j] = stage
    BY <1>1, <1>2, <2>1 DEF StatusOf, Active
  <2> QED
    BY <1>1, <1>2, <2>1, <2>2, OneJobStep
<1>8. CASE StartPolling \/ PoolShutDown \/ \E j \in Jobs : ReapCollectFails(j)
  BY <1>3, <1>8 DEF StartPolling, PoolShutDown, ReapCollectFails
<1> QED
  BY <1>1, <1>4, <1>5, <1>6, <1>7, <1>8 DEF DispatchStep

\* A worker is at work only while the run is open.
LEMMA WorkersBeforeEnd ==
    ASSUME RefineInv, InPool # {}
    PROVE  ~Ended /\ \A j \in InPool : pipeline.stage[j] = stage
BY DEF RefineInv, AllInv, ErrorInv, RaisingInv, AtEnd, Ended, PoolInv, TruthInv, WhenInv,
       BarrierInv, BatchInv, Active, InPool

LEMMA WorkerRefines ==
    ASSUME RefineInv, Worker
    PROVE  [Abstract!Next]_(Abstract!vars)
<1>1. /\ UNCHANGED <<config, stage, pc, success>> /\ UNCHANGED pipeline /\ WorkerStep
      /\ outcome' = outcome
  BY DEF Worker, WorkerStep, WorkerStart, WorkerExit, PoolBreaks, stageVars, config
<1>2. work \in [Jobs -> WorkStates]
  BY DEF RefineInv, AllInv, ErrorInv, TruthInv, WhenInv, BarrierInv, TypeOK, BatchTypeOK
<1>3. ASSUME NEW j \in Jobs, WorkerStart(j)
      PROVE  UNCHANGED Abstract!vars
  <2>1. work[j] = "queued" /\ work' = [work EXCEPT ![j] = "running"]
    BY <1>3 DEF WorkerStart
  <2>2. Status' = Status /\ Verdict' = Verdict
    BY <1>1, <1>2, <2>1 DEF Status, StatusOf, Verdict, Ended
  <2> QED
    BY <1>1, <2>2, Unnoticed
<1>4. ASSUME NEW j \in Jobs, NEW e \in Endings, WorkerExit(j, e)
      PROVE  Abstract!Next
  <2>1. work[j] = "running" /\ work' = [work EXCEPT ![j] = "exited"]
    BY <1>4 DEF WorkerExit
  <2>2. ~Ended /\ pipeline.stage[j] = stage
    BY <2>1, WorkersBeforeEnd DEF InPool
  <2>3. StatusOf(j) = "active" /\ StatusOf(j)' = "ended"
    BY <1>1, <1>2, <2>1 DEF StatusOf
  <2> QED
    BY <1>1, <1>2, <2>1, <2>2, <2>3, OneJobStep
<1>5. CASE PoolBreaks
  <2>1. /\ InPool # {} /\ InPool \in SUBSET Jobs
        /\ work' = [j \in Jobs |-> IF j \in InPool THEN "exited" ELSE work[j]]
    BY <1>5 DEF PoolBreaks, InPool, Running
  <2>2. /\ Before' = Before /\ Verdict = "open" /\ Verdict' = "open"
        /\ \A j \in InPool : Status[j] = "active"
        /\ Status' = [j \in Jobs |-> IF j \in InPool THEN "ended" ELSE Status[j]]
    BY <1>1, <1>2, <2>1, WorkersBeforeEnd
       DEF Before, EarlierStage, Status, StatusOf, Verdict, Ended, InPool
  <2>3. Abstract!End(InPool)
    BY <2>1, <2>2 DEF Abstract!End, Status
  <2> QED
    BY <2>1, <2>2, <2>3 DEF Abstract!Next, Before, Verdict
<1> QED
  BY <1>1, <1>3, <1>4, <1>5 DEF WorkerStep

\* The loop goes on to the next stage: the jobs of this one that were not launched are skipped.
LEMMA AdvanceRefines ==
    ASSUME RefineInv, UNCHANGED <<config, work, outcome>>, ~Ended, ~Ended', stage' = stage + 1,
           \A j \in Jobs : work[j] \in {"idle", "done"}
    PROVE  [Abstract!Next]_(Abstract!vars)
<1> DEFINE js == {j \in JobsOf(stage) : work[j] = "idle"}
<1>1. /\ pipeline' = pipeline /\ stage \in Int /\ \A j \in Jobs : pipeline.stage[j] \in Int
      /\ Verdict = "open" /\ Verdict' = "open"
  BY StagesAssumption
     DEF config, RefineInv, AllInv, ErrorInv, TruthInv, WhenInv, BarrierInv, TypeOK, BatchTypeOK,
         PipelineConfig, Stages, Verdict
<1>2. js \in SUBSET Jobs
  BY DEF JobsOf
<1>3. Before' = Before
  BY <1>1 DEF Before, EarlierStage
<1>4. ASSUME NEW j \in Jobs
      PROVE  StatusOf(j)' = IF j \in js THEN "skipped" ELSE Status[j]
  <2>1. CASE work[j] = "done"
    BY <2>1 DEF StatusOf, Status
  <2>2. CASE work[j] = "idle"
    BY <1>1, <2>2 DEF StatusOf, Status, JobsOf
  <2> QED
    BY <2>1, <2>2
<1>5. \A j \in js : Status[j] = "waiting" /\ \A k \in Before[j] : Status[k] \in Settled
  BY <1>1, StatusIs, EarlierAreSettled DEF JobsOf, Before
<1> HIDE DEF js
<1>6. Status' = [j \in Jobs |-> IF j \in js THEN "skipped" ELSE Status[j]]
  BY <1>4 DEF Status
<1>7. CASE js = {}
  <2>1. Status' = Status
    BY <1>6, <1>7 DEF Status
  <2> QED
    BY <1>1, <2>1, Unnoticed
<1>8. CASE js # {}
  <2>1. Abstract!Skip(js)
    BY <1>2, <1>5, <1>6, <1>8
       DEF Abstract!Skip, Abstract!Settled, Abstract!Settlements, Status, Before, Settled
  <2> QED
    BY <1>1, <1>2, <1>3, <2>1 DEF Abstract!Next, Before, Verdict
<1> QED
  BY <1>7, <1>8

LEMMA FinallyRefines ==
    ASSUME RefineInv, Finally
    PROVE  Abstract!Next
<1>1. /\ pc = "finally" /\ ~Ended /\ Ended' /\ success' = success /\ pipeline' = pipeline
      /\ UNCHANGED <<work, outcome, stage>> /\ success \in BOOLEAN
  BY DEF Finally, config, batchVars, Ended, RefineInv, AllInv, ErrorInv, TruthInv, WhenInv,
         BarrierInv, TypeOK
<1>2. Before' = Before /\ Status' = Status /\ Verdict = "open"
  BY <1>1 DEF Before, EarlierStage, Status, StatusOf, Verdict
<1>3. \A j \in Jobs : work[j] \in WorkStates \ {"queued", "running"}
  <2>1. InPool = {}
    BY <1>1 DEF RefineInv, AllInv, ErrorInv, RaisingInv, AtEnd, PoolInv, TruthInv, WhenInv,
                BarrierInv, BatchInv, Active, InPool
  <2> QED
    BY <2>1 DEF RefineInv, AllInv, ErrorInv, TruthInv, WhenInv, BarrierInv, TypeOK, BatchTypeOK,
                InPool
<1>4. \A j \in Jobs : Status[j] # "active"
  BY <1>3 DEF Status, StatusOf, WorkStates
<1>5. ASSUME success, NEW j \in Jobs
      PROVE  Status[j] \in Settled /\ Status[j] # "failed"
  <2>1. mode = "idle" /\ ~CancelNoted /\ outcome[j] # "hard"
    BY <1>1, <1>5 DEF RefineInv, AllInv, ErrorInv, TruthInv, SuccessInv, CancelNoted
  <2>2. stage > NStages
    BY <1>1, <2>1 DEF RefineInv, AllInv, AccountInv, AtEnd
  <2>3. pipeline.stage[j] < stage
    BY <2>2, StagesAssumption
       DEF RefineInv, AllInv, ErrorInv, TruthInv, WhenInv, BarrierInv, TypeOK, BatchTypeOK,
           PipelineConfig, Stages
  <2>4. Status[j] \in Settled
    BY <2>3, StatusIs
  <2>5. Status[j] # "failed"
    BY <2>1 DEF Status, StatusOf
  <2> QED
    BY <2>4, <2>5
<1>6. CASE success
  <2>1. Verdict' = "passed"
    BY <1>1, <1>6 DEF Verdict
  <2>2. Abstract!Close("passed")
    BY <1>2, <1>4, <1>5, <1>6, <2>1
       DEF Abstract!Close, Abstract!Settled, Abstract!Settlements, Status, Settled, Verdict
  <2> QED
    BY <1>2, <2>2 DEF Abstract!Next, Before, Verdict
<1>7. CASE ~success
  <2>1. Verdict' = "failed"
    BY <1>1, <1>7 DEF Verdict
  <2>2. Abstract!Close("failed")
    BY <1>2, <1>4, <2>1 DEF Abstract!Close, Status, Verdict
  <2> QED
    BY <1>2, <2>2 DEF Abstract!Next, Before, Verdict
<1> QED
  BY <1>6, <1>7

LEMMA StepRefines ==
    ASSUME RefineInv, [Next]_vars
    PROVE  [Abstract!Next]_(Abstract!vars)
<1>1. ASSUME UNCHANGED <<config, work, outcome, stage>>,
             (~Ended /\ ~Ended') \/ UNCHANGED <<pc, success>>
      PROVE  UNCHANGED Abstract!vars
  <2>1. Status' = Status /\ Verdict' = Verdict
    BY <1>1 DEF Status, StatusOf, Verdict, Ended, config
  <2> QED
    BY <1>1, <2>1, Unnoticed
<1>2. CASE Start \/ CheckCancelled \/ CheckPassed \/ StageRaises \/ LastStageDone
  BY <1>1, <1>2
     DEF Start, CheckCancelled, CheckPassed, StageRaises, LastStageDone, batchVars, Ended
<1>3. CASE FilterStage
  <2>1. /\ mode = "idle" /\ UNCHANGED <<config, work, outcome>> /\ ~Ended /\ ~Ended'
        /\ stage' \in {stage, stage + 1}
    BY <1>3 DEF FilterStage, StartBatch, batchVars, Ended, RefineInv, AllInv, ErrorInv, TruthInv,
                WhenInv, BarrierInv, BatchInv
  <2>2. \A j \in Jobs : work[j] \in {"idle", "done"}
    BY <2>1 DEF RefineInv, AllInv, ErrorInv, TruthInv, WhenInv, BarrierInv, BatchInv, Active,
                TypeOK, BatchTypeOK, WorkStates
  <2> QED
    BY <1>1, <2>1, <2>2, AdvanceRefines
<1>4. CASE Dispatch
  BY <1>4, DispatchRefines
<1>5. CASE CompleteStage
  <2>1. /\ BatchDone /\ UNCHANGED <<config, work, outcome>> /\ ~Ended /\ ~Ended'
        /\ stage' = stage + 1
    BY <1>5 DEF CompleteStage, Ended
  <2>2. \A j \in Jobs : work[j] \in {"idle", "done"}
    BY <2>1 DEF BatchDone, Running, RefineInv, AllInv, ErrorInv, TruthInv, WhenInv, BarrierInv,
                BatchInv
  <2> QED
    BY <2>1, <2>2, AdvanceRefines
<1>6. CASE Finally
  BY <1>6, FinallyRefines
<1>7. CASE Worker
  BY <1>7, WorkerRefines
<1>8. CASE Cancel \/ UNCHANGED vars
  BY <1>1, <1>8 DEF Cancel, vars, batchVars, stageVars
<1> QED
  BY <1>2, <1>3, <1>4, <1>5, <1>6, <1>7, <1>8 DEF Next, RunnerStep, Terminated

LEMMA InitRefines ==
    ASSUME Init
    PROVE  Abstract!Init
<1>1. \A j \in Jobs : work[j] = "idle" /\ pipeline.stage[j] \in Stages /\ stage = 1
  BY SettingsAssumption DEF Init, BatchInit, PipelineConfig
<1>2. \A j \in Jobs : StatusOf(j) = "waiting"
  BY <1>1, StagesAssumption DEF StatusOf, Stages
<1>3. pc = "start"
  BY DEF Init
<1> QED
  BY <1>2, <1>3 DEF Abstract!Init, EarlierStage, Ended

-----------------------------------------------------------------------------
(* What jobs read and what is left of them.                                *)

\* Every output of an earlier stage that j depends on is among its inputs.
InputsOk(j) ==
    \A k \in EarlierStage(j) \cap collected :
        (pipeline.inherits[j] \/ k \in pipeline.dependencies[j]) => k \in inputs[j]

\* Where the outputs of j are read from and where its own are left.  completed_jobs are the
\* done ones, only jobs that are over have outputs in the store, and a job in the pool was
\* submitted with every job of an earlier stage that has some: none is added while its own
\* stage runs.  A clean exit in a worktree has left its outputs in the store before the
\* runner hears of it, and what is recorded is a success whose outputs are there.
DataOf(j) ==
    /\ work[j] = "done" <=> j \in completed
    /\ j \in collected => work[j] \in {"exited", "done"}
    /\ ending[j] # "none" => work[j] \in {"exited", "done"}
    /\ work[j] \in {"queued", "running"} => EarlierStage(j) \cap collected \subseteq known[j]
    /\ \/ work[j] = "running"
       \/ work[j] = "queued" /\ ~options.worktrees
       \/ ending[j] \in {"clean", "listed", "unlisted"}
       => InputsOk(j)
    /\ /\ work[j] = "exited" /\ ending[j] = "clean" /\ Collects(j, TRUE)
       /\ options.worktrees /\ ~options.store_fails
       => j \in collected
    /\ j \in recorded =>
          /\ work[j] = "done" /\ outcome[j] = "success"
          /\ Collects(j, TRUE) =>
                j \in collected \/ (options.worktrees /\ options.store_fails)

DataInv == \A j \in Jobs : DataOf(j)

LEMMA DataInit == ASSUME Init PROVE DataInv
BY DEF Init, BatchInit, DataInv, DataOf

\* What a step of job j must leave alone of the others.
OnlyMoves(j) ==
    /\ \A i \in Jobs \ {j} :
          /\ work'[i] = work[i] /\ ending'[i] = ending[i] /\ outcome'[i] = outcome[i]
          /\ known'[i] = known[i] /\ inputs'[i] = inputs[i]
          /\ i \in completed' <=> i \in completed
          /\ i \in collected' <=> i \in collected
          /\ i \in recorded' <=> i \in recorded
    /\ collected \subseteq collected'

\* A job of the current stage is in no earlier stage than a launched job, so it disturbs the
\* data of no other one.
LEMMA OthersKeepData ==
    ASSUME WhenInv, DataInv, UNCHANGED config,
           NEW j \in Jobs, pipeline.stage[j] = stage, OnlyMoves(j),
           NEW i \in Jobs, i # j
    PROVE  DataOf(i)'
<1>1. DataOf(i)
  BY DEF DataInv
<1>2. /\ EarlierStage(i)' = EarlierStage(i)
      /\ EarlierStage(i) \subseteq Jobs
      /\ Collects(i, TRUE)' <=> Collects(i, TRUE)
  BY DEF config, EarlierStage, Collects
<1>3. /\ work'[i] = work[i] /\ ending'[i] = ending[i] /\ outcome'[i] = outcome[i]
      /\ known'[i] = known[i] /\ inputs'[i] = inputs[i]
      /\ i \in completed' <=> i \in completed
      /\ i \in collected' <=> i \in collected
      /\ i \in recorded' <=> i \in recorded
  BY DEF OnlyMoves
<1>4. CASE work[i] = "idle"
  BY <1>1, <1>2, <1>3, <1>4 DEF DataOf
<1>5. CASE work[i] # "idle"
  <2>1. pipeline.stage[i] <= stage /\ pipeline.stage[i] \in Int /\ stage \in Int
    BY <1>5, StagesAssumption
       DEF WhenInv, BarrierInv, BatchInv, TypeOK, BatchTypeOK, PipelineConfig, Stages
  <2>2. j \notin EarlierStage(i)
    BY <2>1 DEF EarlierStage
  <2>3. EarlierStage(i)' \cap collected' = EarlierStage(i) \cap collected
    BY <1>2, <2>2 DEF OnlyMoves
  <2>4. InputsOk(i)' <=> InputsOk(i)
    BY <1>3, <2>3 DEF InputsOk, config
  <2> QED
    BY <1>1, <1>2, <1>3, <2>3, <2>4 DEF DataOf, config
<1> QED
  BY <1>4, <1>5

\* At a launch, every job of an earlier stage that has outputs in the store is completed.
LEMMA EarlierAreCompleted ==
    ASSUME WhenInv, DataInv, NEW j \in Jobs, pipeline.stage[j] = stage
    PROVE  EarlierStage(j) \cap collected \subseteq completed
<1> SUFFICES ASSUME NEW k \in EarlierStage(j) \cap collected PROVE k \in completed
  OBVIOUS
<1>1. k \in Jobs /\ pipeline.stage[k] < stage /\ pipeline.stage[k] \in Int /\ stage \in Int
  BY StagesAssumption
     DEF EarlierStage, WhenInv, BarrierInv, TypeOK, BatchTypeOK, PipelineConfig, Stages
<1>2. ~Active(k)
  BY <1>1 DEF WhenInv, BarrierInv, BatchInv
<1> QED
  BY <1>1, <1>2 DEF Active, DataInv, DataOf

\* The outputs of j itself are none of its inputs.
LEMMA InputsStay ==
    ASSUME UNCHANGED config, BatchTypeOK, NEW j \in Jobs, InputsOk(j), inputs'[j] = inputs[j],
           collected' \subseteq collected \cup {j}
    PROVE  InputsOk(j)'
<1>1. pipeline.stage[j] \in Int
  BY StagesAssumption DEF BatchTypeOK, PipelineConfig, Stages
<1> QED
  BY <1>1 DEF InputsOk, EarlierStage, config

LEMMA StepKeepsData ==
    ASSUME WhenInv, DataInv, UNCHANGED config,
           NEW j \in Jobs, pipeline.stage[j] = stage, OnlyMoves(j), DataOf(j)'
    PROVE  DataInv'
BY OthersKeepData DEF DataInv

LEMMA DispatchKeepsData ==
    ASSUME WhenInv, DataInv, Dispatch
    PROVE  DataInv'
<1>1. /\ UNCHANGED config /\ DispatchStep(TRUE)
      /\ BatchTypeOK
      /\ mode # "idle" => todo \subseteq JobsOf(stage) /\ \A j \in todo : work[j] = "idle"
      /\ \A j \in Jobs : Active(j) => pipeline.stage[j] = stage
  BY DEF Dispatch, WhenInv, BarrierInv, BatchInv, PastInv, TypeOK
<1>2. \A j \in Jobs : /\ EarlierStage(j)' = EarlierStage(j) /\ j \notin EarlierStage(j)
                      /\ Collects(j, TRUE)' <=> Collects(j, TRUE)
                      /\ EarlierStage(j) \subseteq Jobs
                      /\ pipeline.stage[j] \in Int
  BY <1>1, StagesAssumption DEF config, EarlierStage, Collects, BatchTypeOK, PipelineConfig, Stages
<1> USE DEF BatchTypeOK
<1>3. ASSUME NEW j \in Jobs, Memoize(j) PROVE DataInv'
  <2>1. pipeline.stage[j] = stage /\ work[j] = "idle"
    BY <1>1, <1>3 DEF Memoize, JobsOf
  <2>2. OnlyMoves(j)
    BY <1>3 DEF Memoize, OnlyMoves
  <2>3. DataOf(j)'
    BY <1>1, <1>2, <1>3, <2>1 DEF Memoize, DataInv, DataOf
  <2> QED
    BY <1>1, <2>1, <2>2, <2>3, StepKeepsData
<1>4. ASSUME NEW j \in Jobs, SerialStart(j) \/ Submit(j) PROVE DataInv'
  <2>1. pipeline.stage[j] = stage /\ work[j] = "idle"
    BY <1>1, <1>4 DEF SerialStart, Submit, JobsOf
  <2>2. OnlyMoves(j)
    BY <1>1, <1>4 DEF SerialStart, Submit, OnlyMoves
  <2>3. EarlierStage(j) \cap collected \subseteq completed
    BY <2>1, EarlierAreCompleted
  <2>4. /\ known'[j] = completed /\ collected' = collected /\ completed' = completed
        /\ recorded' = recorded /\ ending' = ending
        /\ work'[j] = "running" \/ (work'[j] = "queued")
        /\ \/ work'[j] = "queued" /\ options.worktrees
           \/ inputs'[j] = Injected(j, completed)
    BY <1>1, <1>4 DEF SerialStart, Submit
  <2>5. inputs'[j] = Injected(j, completed) => InputsOk(j)'
    BY <1>1, <1>2, <2>3, <2>4 DEF InputsOk, Injected, config
  <2>6. DataOf(j)'
    BY <1>1, <1>2, <2>1, <2>3, <2>4, <2>5 DEF DataInv, DataOf, config
  <2> QED
    BY <1>1, <2>1, <2>2, <2>6, StepKeepsData
<1>5. ASSUME NEW j \in Jobs, NEW e \in Endings, NEW mutated \in BOOLEAN,
             SerialFinish(j, e, mutated, TRUE)
      PROVE  DataInv'
  <2>1. pipeline.stage[j] = stage /\ work[j] = "running"
    BY <1>1, <1>5 DEF SerialFinish, Active
  <2>2. OnlyMoves(j)
    BY <1>5 DEF SerialFinish, OnlyMoves, CollectInto, Recorded
  <2>3. InputsOk(j)'
    <3>1. InputsOk(j) /\ inputs' = inputs /\ collected' \subseteq collected \cup {j}
      BY <1>5, <2>1 DEF DataInv, DataOf, SerialFinish, CollectInto
    <3> QED
      BY <1>1, <3>1, InputsStay
  <2>4. j \in recorded' =>
            /\ outcome'[j] = "success"
            /\ Collects(j, TRUE) => j \in collected'
    <3> SUFFICES ASSUME j \in recorded'
                 PROVE  outcome'[j] = "success" /\ (Collects(j, TRUE) => j \in collected')
      OBVIOUS
    <3>1. j \notin recorded
      BY <2>1 DEF DataInv, DataOf
    <3>2. e = "clean"
      BY <1>5, <3>1 DEF SerialFinish, Recorded
    <3> QED
      BY <1>1, <1>5, <3>2 DEF SerialFinish, CollectInto, Collects, Classify
  <2>5. work'[j] = "done" /\ j \in completed'
    BY <1>1, <1>5 DEF SerialFinish
  <2>6. DataOf(j)'
    BY <1>1, <1>2, <2>3, <2>4, <2>5 DEF DataOf, config
  <2> QED
    BY <1>1, <2>1, <2>2, <2>6, StepKeepsData
<1>6. ASSUME NEW j \in Jobs, NEW e \in Endings, SerialCollectFails(j, e) PROVE DataInv'
  <2>1. pipeline.stage[j] = stage /\ work[j] = "running"
    BY <1>1, <1>6 DEF SerialCollectFails, Active
  <2>2. OnlyMoves(j)
    BY <1>6 DEF SerialCollectFails, OnlyMoves
  <2>3. InputsOk(j)'
    BY <1>1, <1>6, <2>1, InputsStay DEF DataInv, DataOf, SerialCollectFails
  <2>4. DataOf(j)'
    BY <1>1, <1>6, <2>1, <2>3 DEF SerialCollectFails, DataInv, DataOf, config
  <2> QED
    BY <1>1, <2>1, <2>2, <2>4, StepKeepsData
<1>7. ASSUME NEW j \in Jobs, Reap(j) PROVE DataInv'
  <2>1. pipeline.stage[j] = stage /\ work[j] = "exited"
    BY <1>1, <1>7 DEF Reap, Active
  <2>2. OnlyMoves(j)
    BY <1>7 DEF Reap, OnlyMoves, CollectInto, Recorded
  <2>3. ending[j] \in {"clean", "listed", "unlisted"} => InputsOk(j)'
    <3>1. inputs' = inputs /\ collected' \subseteq collected \cup {j}
      BY <1>7 DEF Reap, CollectInto
    <3> QED
      BY <1>1, <3>1, InputsStay DEF DataInv, DataOf
  <2>4. j \in recorded' =>
            /\ outcome'[j] = "success"
            /\ Collects(j, TRUE) => j \in collected' \/ (options.worktrees /\ options.store_fails)
    <3>1. CASE j \in recorded
      BY <2>1, <3>1 DEF DataInv, DataOf
    <3>2. CASE j \in recorded' /\ j \notin recorded
      <4>1. Transported(ending[j]) = "clean"
        BY <1>7, <3>2 DEF Reap, Recorded
      <4>2. ending[j] = "clean"
        BY <4>1 DEF Transported
      <4>3. outcome'[j] = "success"
        BY <1>1, <1>7, <4>1 DEF Reap, Classify
      <4>4. CASE options.worktrees
        BY <1>7, <2>1, <4>2, <4>3, <4>4 DEF Reap, DataInv, DataOf
      <4>5. CASE ~options.worktrees
        BY <1>7, <4>1, <4>3, <4>5 DEF Reap, CollectInto
      <4> QED
        BY <4>4, <4>5
    <3> QED
      BY <3>1, <3>2
  <2>5. work'[j] = "done" /\ j \in completed' /\ ending' = ending
    BY <1>1, <1>7 DEF Reap
  <2>6. DataOf(j)'
    BY <1>1, <1>2, <2>3, <2>4, <2>5 DEF DataOf, config
  <2> QED
    BY <1>1, <2>1, <2>2, <2>6, StepKeepsData
<1>8. ASSUME UNCHANGED <<work, ending, outcome, completed, known, collected, inputs, recorded>>
      PROVE  DataInv'
  BY <1>1, <1>2, <1>8 DEF DataInv, DataOf, InputsOk, config
<1>9. CASE StartPolling \/ PoolShutDown \/ \E j \in Jobs : ReapCollectFails(j)
  BY <1>8, <1>9 DEF StartPolling, PoolShutDown, ReapCollectFails
<1> QED
  BY <1>1, <1>3, <1>4, <1>5, <1>6, <1>7, <1>9 DEF DispatchStep

LEMMA WorkerKeepsData ==
    ASSUME WhenInv, DataInv, Worker
    PROVE  DataInv'
<1>1. /\ UNCHANGED config /\ WorkerStep /\ BatchTypeOK
      /\ \A j \in Jobs : Active(j) => pipeline.stage[j] = stage
  BY DEF Worker, WhenInv, BarrierInv, BatchInv, TypeOK
<1>2. \A j \in Jobs : /\ EarlierStage(j)' = EarlierStage(j) /\ j \notin EarlierStage(j)
                      /\ Collects(j, TRUE)' <=> Collects(j, TRUE)
                      /\ EarlierStage(j) \subseteq Jobs
                      /\ pipeline.stage[j] \in Int
  BY <1>1, StagesAssumption DEF config, EarlierStage, Collects, BatchTypeOK, PipelineConfig, Stages
<1> USE DEF BatchTypeOK
<1>3. ASSUME NEW j \in Jobs, WorkerStart(j) PROVE DataInv'
  <2>1. pipeline.stage[j] = stage /\ work[j] = "queued"
    BY <1>1, <1>3 DEF WorkerStart, Active
  <2>2. OnlyMoves(j)
    BY <1>3 DEF WorkerStart, OnlyMoves
  <2>3. DataOf(j)
    BY DEF DataInv
  <2>4. InputsOk(j)'
    BY <1>1, <1>2, <1>3, <2>1, <2>3 DEF DataOf, InputsOk, WorkerStart, Injected, config
  <2>5. DataOf(j)'
    BY <1>1, <1>2, <1>3, <2>1, <2>3, <2>4 DEF DataOf, WorkerStart, config
  <2> QED
    BY <1>1, <2>1, <2>2, <2>5, StepKeepsData
<1>4. ASSUME NEW j \in Jobs, NEW e \in Endings, WorkerExit(j, e) PROVE DataInv'
  <2>1. pipeline.stage[j] = stage /\ work[j] = "running"
    BY <1>1, <1>4 DEF WorkerExit, Active
  <2>2. OnlyMoves(j)
    BY <1>4 DEF WorkerExit, OnlyMoves, CollectInto
  <2>3. DataOf(j)
    BY DEF DataInv
  <2>4. InputsOk(j)'
    <3>1. inputs' = inputs /\ collected' \subseteq collected \cup {j}
      BY <1>4 DEF WorkerExit, CollectInto
    <3> QED
      BY <1>1, <2>1, <2>3, <3>1, InputsStay DEF DataOf
  <2>5. /\ e = "clean" /\ Collects(j, TRUE) /\ options.worktrees /\ ~options.store_fails
        => j \in collected'
    BY <1>4 DEF WorkerExit, CollectInto
  <2>6. /\ work'[j] = "exited" /\ ending'[j] = e
        /\ completed' = completed /\ recorded' = recorded
    BY <1>1, <1>4 DEF WorkerExit
  <2>7. DataOf(j)'
    BY <1>1, <1>2, <2>1, <2>3, <2>4, <2>5, <2>6 DEF DataOf, config
  <2> QED
    BY <1>1, <2>1, <2>2, <2>7, StepKeepsData
<1>5. CASE PoolBreaks
  <2>1. UNCHANGED <<outcome, completed, known, collected, inputs, recorded>>
    BY <1>5 DEF PoolBreaks
  <2>2. \A j \in Jobs : InputsOk(j)' <=> InputsOk(j)
    BY <1>1, <1>2, <2>1 DEF InputsOk, config
  <2>3. ASSUME NEW j \in Jobs PROVE DataOf(j)'
    <3>1. /\ work'[j] = IF j \in InPool THEN "exited" ELSE work[j]
          /\ ending'[j] = IF j \in InPool THEN "other" ELSE ending[j]
      BY <1>5 DEF PoolBreaks
    <3> QED
      BY <1>1, <1>2, <2>1, <2>2, <3>1 DEF DataInv, DataOf, InPool, config
  <2> QED
    BY <2>3 DEF DataInv
<1> QED
  BY <1>1, <1>3, <1>4, <1>5 DEF WorkerStep

LEMMA DataNext ==
    ASSUME WhenInv, DataInv, [Next]_vars
    PROVE  DataInv'
<1>1. ASSUME UNCHANGED <<config, work, ending, outcome, completed, known, collected, inputs,
                         recorded>>
      PROVE  DataInv'
  BY <1>1 DEF DataInv, DataOf, InputsOk, EarlierStage, Collects, config
<1>2. CASE Start \/ CheckCancelled \/ CheckPassed \/ FilterStage \/ CompleteStage
           \/ StageRaises \/ LastStageDone \/ Finally \/ Cancel \/ UNCHANGED vars
  BY <1>1, <1>2
     DEF Start, CheckCancelled, CheckPassed, FilterStage, StartBatch, CompleteStage,
         StageRaises, LastStageDone, Finally, Cancel, vars, batchVars
<1> QED
  BY <1>2, DispatchKeepsData, WorkerKeepsData DEF Next, RunnerStep, Terminated

LEMMA DataHolds == Spec => []DataInv
<1>1. Init => DataInv
  BY DataInit
<1>2. TruthInv /\ DataInv /\ [Next]_vars => DataInv'
  BY DataNext DEF TruthInv
<1> QED
  BY <1>1, <1>2, TruthHolds, PTL DEF Spec

-----------------------------------------------------------------------------
(* The theorems.                                                           *)

\* Every variable of the stage runner keeps its type, whatever the configuration is and
\* however the workers, the dispatching thread and the user interleave.
THEOREM TypeCorrect == Spec => []TypeOK
<1>1. BarrierInv => TypeOK
  BY DEF BarrierInv
<1> QED
  BY <1>1, BarrierInvHolds, PTL

\* Stages do not overlap: while a job of a stage is launched, every job of an earlier one
\* is done or was never launched, and no job of a later one is launched.
THEOREM StageBarrierHolds == Spec => []StageBarrier
<1>1. BarrierInv => StageBarrier
  <2> SUFFICES ASSUME BarrierInv, NEW j \in Jobs, j \in Launched
               PROVE  /\ pipeline.stage[j] <= stage
                      /\ \A k \in EarlierStage(j) : work[k] \in {"idle", "done"}
    BY DEF StageBarrier
  <2>1. pipeline.stage[j] <= stage
    BY DEF BarrierInv, BatchInv, Launched
  <2>2. ASSUME NEW k \in EarlierStage(j)
        PROVE  work[k] \in {"idle", "done"}
    <3>1. /\ k \in Jobs /\ pipeline.stage[k] < pipeline.stage[j]
          /\ pipeline.stage[k] \in Int /\ pipeline.stage[j] \in Int /\ stage \in Int
          /\ work[k] \in WorkStates
      BY <2>2, StagesAssumption
         DEF EarlierStage, BarrierInv, TypeOK, BatchTypeOK, PipelineConfig, Stages
    <3>2. pipeline.stage[k] # stage
      BY <2>1, <3>1
    <3>3. ~Active(k)
      BY <3>1, <3>2 DEF BarrierInv, BatchInv
    <3> QED
      BY <3>1, <3>3 DEF Active, WorkStates
  <2> QED
    BY <2>1, <2>2
<1> QED
  BY <1>1, BarrierInvHolds, PTL

\* when: is decided on the outcomes of all the earlier stages and nothing else: on_success
\* never runs behind a failure, on_failure never without one, manual and never never run.
THEOREM WhenIsHonoured == Spec => []WhenHonoured
<1>1. Init => WhenInv
  BY TypeInit, BatchInit0, PastInit DEF WhenInv, BarrierInv
<1>2. WhenInv /\ [Next]_vars => WhenInv'
  BY TypeNext, BatchNext, PastNext DEF WhenInv, BarrierInv
<1>3. WhenInv => WhenHonoured
  BY DEF WhenInv, LaunchedInTime, WhenHonoured, Failed
<1> QED
  BY <1>1, <1>2, <1>3, PTL DEF Spec

\* on_pipeline_complete(True) is never called over a hard failure, over a job in flight, or
\* after a cancel was announced, whatever fails around the runner.
THEOREM SuccessHolds == Spec => []SuccessIsTruthful
<1>1. TruthInv => SuccessIsTruthful
  <2> SUFFICES ASSUME TruthInv, Completed("complete_ok")
               PROVE  /\ \A j \in Jobs : work[j] \in {"idle", "done"} /\ outcome[j] # "hard"
                      /\ \A i \in DOMAIN calls : calls[i] # "cancelled"
    BY DEF SuccessIsTruthful
  <2>1. success /\ mode = "idle"
    BY DEF TruthInv, SuccessInv, Ended
  <2>2. \A j \in Jobs : work[j] \in WorkStates /\ ~Active(j)
    BY <2>1 DEF TruthInv, WhenInv, BarrierInv, BatchInv, TypeOK, BatchTypeOK
  <2> QED
    BY <2>1, <2>2 DEF TruthInv, SuccessInv, Active, WorkStates
<1> QED
  BY <1>1, TruthHolds, PTL

\* on_pipeline_start comes first and on_pipeline_complete last, once; a cancel is announced at
\* most once and never before a success.
THEOREM CallsFollowProtocol == Spec => []CallProtocol
<1>1. ErrorInv => CallProtocol
  BY DEF ErrorInv, CallInv, TruthInv, SuccessInv, CallProtocol
<1> QED
  BY <1>1, ErrorHolds, PTL

\* The exception that leaves the runner is of a job that failed hard in the first stage with
\* such a failure, and only a cancel lets a run with a hard failure return.
THEOREM FirstFailureIsRaised == Spec => []FirstFailureRaised
<1>1. ErrorInv => FirstFailureRaised
  <2> SUFFICES ASSUME ErrorInv PROVE FirstFailureRaised
    OBVIOUS
  <2>1. ASSUME pc = "returned", NEW j \in Jobs, outcome[j] = "hard"
        PROVE  \E i \in DOMAIN calls : calls[i] = "cancelled"
    <3>1. first_error = NoJob \/ CancelNoted
      BY <2>1 DEF ErrorInv, RaisingInv, AtEnd
    <3>2. mode = "idle"
      BY <2>1 DEF ErrorInv, RaisingInv, AtEnd
    <3>3. first_error # NoJob
      BY <2>1, <3>2 DEF ErrorInv, FirstInv
    <3> QED
      BY <3>1, <3>3 DEF CancelNoted
  <2>2. ASSUME pc = "raised", mode # "raised"
        PROVE  /\ first_error \in Jobs
               /\ outcome[first_error] = "hard"
               /\ \A k \in EarlierStage(first_error) : outcome[k] # "hard"
    <3>1. first_error # NoJob
      BY <2>2 DEF ErrorInv, RaisingInv, AtEnd
    <3>2. first_error \in Jobs
      BY <3>1 DEF ErrorInv, TruthInv, WhenInv, BarrierInv, TypeOK
    <3> QED
      BY <3>1, <3>2 DEF ErrorInv, FirstInv
  <2> QED
    BY <2>1, <2>2 DEF FirstFailureRaised
<1> QED
  BY <1>1, ErrorHolds, PTL

\* Once the run is over without a cancel and nothing broke it off, every job was launched or is
\* left out for a reason: its when:, or a serial sibling that failed hard.
THEOREM NobodyIsForgotten == Spec => []NobodyForgotten
<1>1. Init => AccountInv
  BY AccountInit
<1>2. ErrorInv /\ AccountInv /\ [Next]_vars => AccountInv'
  BY AccountNext DEF AllInv
<1>3. ErrorInv /\ AccountInv => NobodyForgotten
  <2> SUFFICES ASSUME ErrorInv, AccountInv, Ended, mode # "raised", ~CancelNoted, NEW j \in Jobs
               PROVE  Accounted(j)
    BY DEF NobodyForgotten, LeftOut, LeftOutRightly, LeftOutBehindAllowed, CancelNoted,
           Accounted, StoppedBySibling, Failed
  <2>1. stage > NStages
    BY DEF AccountInv, AtEnd, Ended
  <2>2. pipeline.stage[j] \in 1..NStages /\ stage \in Int
    BY StagesAssumption DEF ErrorInv, TruthInv, WhenInv, BarrierInv, TypeOK, BatchTypeOK,
                          PipelineConfig, Stages
  <2>3. pipeline.stage[j] < stage
    BY <2>1, <2>2, StagesAssumption
  <2> QED
    BY <2>3 DEF AccountInv
<1> QED
  BY <1>1, <1>2, <1>3, ErrorHolds, PTL DEF Spec

\* A job that runs has the collected outputs of every job of an earlier stage it depends on,
\* whether it was given them at its launch or by the worker that took it up in a worktree.
THEOREM InputsAreComplete == Spec => []InputsComplete
<1>1. DataInv => InputsComplete
  BY DEF DataInv, DataOf, InputsOk, InputsComplete
<1> QED
  BY <1>1, DataHolds, PTL

\* A recorded fingerprint is of a success whose outputs are in the store, whatever becomes of
\* the pool; only a collection that fails in a worktree leaves a record without outputs.
THEOREM RecordedAreUsable == Spec => []RecordedIsUsable
<1>1. TypeOK /\ DataInv => RecordedIsUsable
  BY DEF TypeOK, BatchTypeOK, DataInv, DataOf, RecordedIsUsable
<1> QED
  BY <1>1, DataHolds, TypeCorrect, PTL

\* The stage runner implements the abstract pipeline: jobs start behind everything before them,
\* settle once, and "passed" is said only of a run in which every job is settled and none failed.
THEOREM RunnerImplementsSpec == Spec => ImplementsPipelineSpec
<1>1. Init => Abstract!Init
  BY InitRefines
<1>2. RefineInv /\ [Next]_vars => [Abstract!Next]_(Abstract!vars)
  BY StepRefines
<1> QED
  BY <1>1, <1>2, RefineHolds, PTL DEF Spec, ImplementsPipelineSpec, Abstract!Spec

=============================================================================
