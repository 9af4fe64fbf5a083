-------------------------- MODULE DagRunnerProofs --------------------------
(***************************************************************************)
(* Theorems about DagRunner, for every set of jobs and every setting.      *)
(* What happens inside a batch comes from BaseRunnerProofs; the invariants *)
(* here relate the sorter (passed, finished) to the batch it handed out,   *)
(* and the when: test of a job to what the failures of the run are later.  *)
(***************************************************************************)
EXTENDS DagRunner, BaseRunnerProofs

-----------------------------------------------------------------------------
(* Types.                                                                  *)

LEMMA InitType == ASSUME Init PROVE TypeOK
<1>1. BatchTypeOK
  BY SettingsAssumption
     DEF Init, BatchInit, BatchTypeOK, Modes, WorkStates, Outcomes, Endings
<1>2. << >> \in Seq(Callbacks)
  OBVIOUS
<1> QED
  BY <1>1, <1>2 DEF Init, TypeOK, PCs

LEMMA AppendType ==
    ASSUME NEW s \in Seq(Callbacks), NEW c \in Callbacks
    PROVE  Append(s, c) \in Seq(Callbacks)
OBVIOUS

LEMMA StartBatchType ==
    ASSUME BatchTypeOK, NEW js \in SUBSET Jobs, StartBatch(js), UNCHANGED config
    PROVE  BatchTypeOK'
BY DEF config, BatchTypeOK, StartBatch, Modes

LEMMA TakeReadyType == ASSUME TypeOK, TakeReady PROVE TypeOK'
<1>1. \/ UNCHANGED <<config, batchVars>>
      \/ UNCHANGED config /\ StartBatch({j \in Ready \cap Jobs : Selected(j)})
  BY DEF TakeReady
<1>2. CASE UNCHANGED <<config, batchVars>>
  <2>1. Nodes' = Nodes /\ BatchTypeOK'
    BY <1>2 DEF Nodes, config, batchVars, TypeOK, BatchTypeOK
  <2> QED
    BY <2>1 DEF TakeReady, TypeOK, Ready, PCs
<1>3. CASE UNCHANGED config /\ StartBatch({j \in Ready \cap Jobs : Selected(j)})
  <2>1. Nodes' = Nodes
    BY <1>3 DEF Nodes, config
  <2>2. BatchTypeOK'
    BY <1>3, StartBatchType DEF TypeOK
  <2> QED
    BY <2>1, <2>2 DEF TakeReady, TypeOK, Ready, PCs
<1> QED
  BY <1>1, <1>2, <1>3

LEMMA CompleteBatchType == ASSUME TypeOK, CompleteBatch PROVE TypeOK'
<1>1. BatchTypeOK' /\ Nodes' = Nodes
  BY DEF CompleteBatch, config, TypeOK, BatchTypeOK, Modes, Nodes
<1>2. first_error' \in Jobs \cup {NoJob}
  BY DEF CompleteBatch, NoteFirstError, HardFailures, TypeOK, BatchTypeOK
<1>3. outcomes \subseteq Nodes
  BY DEF Nodes, TypeOK, BatchTypeOK
<1>4. failed_jobs' \subseteq Jobs
  BY DEF CompleteBatch, HardFailures, AllowedFailures, TypeOK, BatchTypeOK
<1>5. success' \in BOOLEAN
  BY DEF CompleteBatch, StillSuccess, TypeOK
<1> QED
  BY <1>1, <1>2, <1>3, <1>4, <1>5 DEF CompleteBatch, TypeOK, PCs

LEMMA NextType == ASSUME TypeOK, Next PROVE TypeOK'
<1>1. CASE Start \/ BuildDag \/ CheckCancelled \/ CheckPassed \/ BatchRaises
           \/ LastBatchDone \/ Finally \/ Cancel \/ Terminated
  <2>1. BatchTypeOK' /\ Nodes' = Nodes
    BY <1>1 DEF Start, BuildDag, CheckCancelled, CheckPassed, BatchRaises, LastBatchDone,
                Finally, Cancel, Terminated, vars, config, batchVars, TypeOK, BatchTypeOK,
                Nodes
  <2>2. CASE Start \/ CheckCancelled \/ LastBatchDone \/ Finally
    <3>1. calls' \in Seq(Callbacks)
      BY <2>2, AppendType
         DEF Start, CheckCancelled, LastBatchDone, Finally, TypeOK, Callbacks
    <3> QED
      BY <2>1, <2>2, <3>1
         DEF Start, CheckCancelled, LastBatchDone, Finally, TypeOK, PCs
  <2>3. CASE BuildDag \/ CheckPassed \/ BatchRaises \/ Cancel \/ Terminated
    <3>1. Cyclic \in BOOLEAN
      BY DEF Cyclic
    <3> QED
      BY <2>1, <2>3, <3>1 DEF BuildDag, CheckPassed, BatchRaises, Cancel, Terminated, vars,
                              dagVars, TypeOK, PCs
  <2> QED
    BY <1>1, <2>2, <2>3
<1>2. CASE TakeReady
  BY <1>2, TakeReadyType
<1>3. CASE Dispatch
  <2>1. BatchTypeOK' /\ Nodes' = Nodes
    BY <1>3, DispatchKeepsType DEF Dispatch, TypeOK, Nodes, config
  <2> QED
    BY <1>3, <2>1 DEF Dispatch, dagVars, TypeOK
<1>4. CASE Worker
  <2>1. BatchTypeOK' /\ Nodes' = Nodes
    BY <1>4, WorkerKeepsType DEF Worker, TypeOK, Nodes, config
  <2> QED
    BY <1>4, <2>1 DEF Worker, dagVars, TypeOK
<1>5. CASE CompleteBatch
  BY <1>5, CompleteBatchType
<1> QED
  BY <1>1, <1>2, <1>3, <1>4, <1>5 DEF Next, RunnerStep

\* Every variable of the DAG runner keeps its type.
THEOREM DagTypeCorrect == Spec => []TypeOK
<1>1. Init => TypeOK
  BY InitType
<1>2. TypeOK /\ [Next]_vars => TypeOK'
  <2>1. ASSUME TypeOK, UNCHANGED vars PROVE TypeOK'
    BY <2>1 DEF vars, config, batchVars, dagVars, TypeOK, BatchTypeOK, Nodes
  <2> QED
    BY <2>1, NextType
<1> QED
  BY <1>1, <1>2, PTL DEF Spec

-----------------------------------------------------------------------------
(* The inductive invariant.                                                *)

\* Which part of execute_pipeline holds a batch, and in what state.
PhaseInv ==
    /\ pc \in {"start", "build", "check", "ready", "over"} => mode = "idle"
    /\ pc = "run" => mode # "idle"
    /\ pc \in {"finally", "returned", "raised"} => mode \in {"idle", "raised"}
    /\ pc \in {"start", "build"} => passed = {} /\ first_error = NoJob

\* The sorter and the batch.  What was handed out is done in the sorter or in the batch;
\* a job is handed out when its predecessors are done in the sorter, launched after it was
\* handed out, and done in the sorter when nothing will happen to it any more.
GraphInv ==
    /\ finished \subseteq passed
    /\ passed \ finished \subseteq Jobs
    /\ mode = "idle" => passed = finished
    /\ mode # "idle" => /\ todo \subseteq passed \ finished
                        /\ outcomes = {j \in passed \ finished : work[j] = "done"}
    /\ mode \notin {"idle", "raised"} =>
          \A j \in passed \ finished : j \in todo \/ work[j] # "idle"
    /\ \A j \in Jobs :
          /\ j \in passed => Predecessors(j) \subseteq finished
          /\ work[j] # "idle" => j \in passed
          /\ j \in finished => work[j] \in {"idle", "done"}

\* The when: test of j, as it stood when j was handed out, in terms of jobs that the
\* sorter had done by then.
Earned(j) ==
    /\ pipeline.when[j] = "on_success" => \A k \in Awaited(j) : ~Failed(k)
    /\ pipeline.when[j] = "on_failure" => \E k \in (finished \cap Jobs) \ {j} : Failed(k)
    /\ pipeline.when[j] \notin {"manual", "never"}

\* Why j was not launched, or that it was.
Accounted(j) ==
    \/ j \in Launched
    \/ pipeline.when[j] \in {"manual", "never"}
    \/ pipeline.when[j] = "on_success" /\ \E k \in Stoppers(j) : Failed(k)
    \/ pipeline.when[j] = "on_failure" /\ \A k \in Awaited(j) : ~Failed(k)

\* failed_jobs is exactly the failures among what the sorter has done, what is launched or
\* about to be has earned it, and what the sorter has done is accounted for.
OutcomeInv ==
    /\ failed_jobs = {k \in finished \cap Jobs : Failed(k)}
    /\ \A j \in Jobs : work[j] # "idle" \/ (mode # "idle" /\ j \in todo) => Earned(j)
    /\ \A j \in finished \cap Jobs : Accounted(j)

DagInv == TypeOK /\ EngineInv /\ PhaseInv /\ GraphInv /\ OutcomeInv

LEMMA AwaitedArePredecessors ==
    ASSUME TypeOK, NEW j \in Jobs
    PROVE  /\ Awaited(j) = Predecessors(j) \cap Jobs
           /\ Predecessors(j) \subseteq Nodes
<1>1. pipeline.needs[j] \subseteq Jobs \cup Removed
  BY DEF TypeOK, BatchTypeOK, PipelineConfig
<1>2. CASE pipeline.needs[j] = {}
  BY <1>2 DEF Awaited, Predecessors, EarlierStage, Nodes
<1>3. CASE pipeline.needs[j] # {}
  BY <1>1, <1>3 DEF Awaited, Predecessors, Nodes
<1> QED
  BY <1>2, <1>3

\* A failure is never taken back.
LEMMA FailuresStay ==
    ASSUME EngineInv, EngineFrame, NEW j \in Jobs, Failed(j)
    PROVE  Failed(j)'
BY DEF EngineInv, EngineFrame, Failed

\* What the sorter has done stays as it is while a batch runs.
LEMMA FinishedFrozen ==
    ASSUME GraphInv, EngineFrame
    PROVE  \A j \in finished \cap Jobs :
              work'[j] = work[j] /\ outcome'[j] = outcome[j]
BY DEF GraphInv, EngineFrame

\* A step inside a batch, of the dispatching thread or of a worker.
LEMMA BatchKeepsGraph ==
    ASSUME TypeOK, EngineInv, GraphInv, EngineFrame, UNCHANGED <<config, dagVars>>,
           mode' = "raised" \/ \A j \in todo : j \in todo' \/ work'[j] # "idle"
    PROVE  GraphInv'
<1> USE DEF GraphInv, EngineFrame, config, dagVars
<1>1. \A j \in Jobs : Predecessors(j)' = Predecessors(j)
  BY DEF Predecessors, EarlierStage
<1>2. todo \subseteq Jobs /\ outcomes \subseteq Jobs
  BY DEF TypeOK, BatchTypeOK
<1>3. \A j \in Jobs : work'[j] # "idle" => j \in passed
  OBVIOUS
<1>4. \A j \in Jobs : j \in finished => work'[j] \in {"idle", "done"}
  OBVIOUS
<1>5. outcomes' = {j \in passed \ finished : work'[j] = "done"}
  <2>1. \A j \in passed \ finished : work[j] = "done" => work'[j] = "done"
    OBVIOUS
  <2>2. \A j \in Jobs : work[j] # "done" /\ work'[j] = "done" => j \in passed \ finished
    <3>1. \A j \in Jobs : j \in finished => work'[j] = work[j]
      BY FinishedFrozen
    <3> QED
      BY <1>3, <3>1
  <2> QED
    BY <2>1, <2>2
<1>6. mode' # "raised" => \A j \in passed \ finished : j \in todo' \/ work'[j] # "idle"
  OBVIOUS
<1> QED
  BY <1>1, <1>2, <1>3, <1>4, <1>5, <1>6

LEMMA BatchKeepsOutcome ==
    ASSUME TypeOK, EngineInv, GraphInv, OutcomeInv, EngineFrame, UNCHANGED <<config, dagVars>>
    PROVE  OutcomeInv'
<1> USE DEF config, dagVars
<1>1. \A j \in finished \cap Jobs : Failed(j)' <=> Failed(j)
  BY FinishedFrozen DEF Failed
<1>2. failed_jobs' = {k \in finished' \cap Jobs : Failed(k)'}
  BY <1>1 DEF OutcomeInv
<1>3. \A j \in Jobs : Awaited(j)' = Awaited(j)
  BY DEF Awaited
<1>4. \A j \in passed \cap Jobs : Awaited(j) \subseteq finished \cap Jobs
  BY AwaitedArePredecessors DEF GraphInv
<1>5. ASSUME NEW j \in Jobs, work'[j] # "idle" \/ (mode' # "idle" /\ j \in todo')
      PROVE  Earned(j)'
  <2>1. j \in passed /\ (work[j] # "idle" \/ (mode # "idle" /\ j \in todo))
    BY <1>5 DEF GraphInv, EngineFrame
  <2>2. Earned(j)
    BY <2>1 DEF OutcomeInv
  <2> QED
    BY <1>1, <1>3, <1>4, <2>1, <2>2 DEF Earned
<1>6. ASSUME NEW j \in finished \cap Jobs PROVE Accounted(j)'
  <2>1. Accounted(j) /\ Awaited(j) \subseteq finished \cap Jobs
    BY <1>4 DEF OutcomeInv, GraphInv
  <2>2. j \in Launched => j \in Launched'
    BY DEF Launched, EngineFrame
  <2>3. \A k \in Jobs : Failed(k) => Failed(k)'
    BY FailuresStay
  <2> QED
    BY <1>1, <1>3, <2>1, <2>2, <2>3 DEF Accounted, Stoppers
<1> QED
  BY <1>2, <1>5, <1>6 DEF OutcomeInv

-----------------------------------------------------------------------------
(* The steps of the runner.                                                *)

\* Steps that touch neither the sorter nor the batch.
LEMMA QuietKeepsInv ==
    ASSUME EngineInv, GraphInv, OutcomeInv,
           UNCHANGED <<config, batchVars, passed, finished, failed_jobs>>
    PROVE  EngineInv' /\ GraphInv' /\ OutcomeInv'
<1> USE DEF config, batchVars
<1>1. EngineInv'
  BY DEF EngineInv, Running, InPool
<1>2. GraphInv'
  BY DEF GraphInv, Predecessors, EarlierStage
<1>3. OutcomeInv'
  BY DEF OutcomeInv, Earned, Accounted, Stoppers, Awaited, Failed, Launched
<1> QED
  BY <1>1, <1>2, <1>3

\* What TakeReady works on: the ready jobs are new to the sorter and to the engine, and
\* depend on nothing but what the sorter has done.
LEMMA ReadyIsFresh ==
    ASSUME TypeOK, GraphInv
    PROVE  /\ Ready \subseteq Nodes \ passed
           /\ \A j \in Ready \cap Jobs : work[j] = "idle" /\ Predecessors(j) \subseteq finished
           /\ \A j \in Ready \cap Jobs : Awaited(j) \subseteq finished
BY AwaitedArePredecessors DEF Ready, GraphInv

LEMMA TakeReadyGraph ==
    ASSUME TypeOK, EngineInv, PhaseInv, GraphInv, TakeReady
    PROVE  EngineInv' /\ GraphInv'
<1> DEFINE batch == {j \in Ready \cap Jobs : Selected(j)}
<1>1. /\ mode = "idle" /\ passed = finished
      /\ passed' = passed \cup Ready
      /\ finished' = finished \cup (Ready \ batch)
      /\ work' = work /\ outcome' = outcome /\ UNCHANGED config
  BY DEF TakeReady, PhaseInv, GraphInv, batchVars, StartBatch
<1>2. batch \subseteq Jobs /\ \A j \in batch : work[j] = "idle" /\ j \notin passed
  BY ReadyIsFresh
<1>3. \/ batch = {} /\ UNCHANGED batchVars
      \/ StartBatch(batch)
  BY DEF TakeReady
<1>4. EngineInv'
  <2>1. CASE UNCHANGED batchVars
    BY <2>1 DEF EngineInv, batchVars, Running, InPool
  <2>2. CASE StartBatch(batch)
    BY <1>1, <1>2, <2>2, StartKeepsEngine
  <2> QED
    BY <1>3, <2>1, <2>2
<1>5. passed' \ finished' = batch
  BY <1>1, ReadyIsFresh
<1>6. \A j \in Jobs : Predecessors(j)' = Predecessors(j)
  BY <1>1 DEF config, Predecessors, EarlierStage
<1>7. \A j \in Jobs : /\ j \in passed' => Predecessors(j)' \subseteq finished'
                      /\ work'[j] # "idle" => j \in passed'
                      /\ j \in finished' => work'[j] \in {"idle", "done"}
  BY <1>1, <1>6, ReadyIsFresh DEF GraphInv
<1>8. finished' \subseteq passed'
  BY <1>1
<1> HIDE DEF batch
<1>9. CASE batch = {} /\ UNCHANGED batchVars
  <2>1. mode' = "idle" /\ passed' = finished'
    BY <1>1, <1>5, <1>9, <1>8 DEF batchVars
  <2> QED
    BY <1>4, <1>7, <2>1 DEF GraphInv
<1>10. CASE StartBatch(batch)
  <2>1. mode' \in {"serial", "submitting"} /\ todo' = batch /\ outcomes' = {}
    BY <1>10 DEF StartBatch
  <2>2. outcomes' = {j \in passed' \ finished' : work'[j] = "done"}
    BY <1>1, <1>2, <1>5, <2>1
  <2> QED
    BY <1>2, <1>4, <1>5, <1>7, <1>8, <2>1, <2>2 DEF GraphInv
<1> QED
  BY <1>3, <1>9, <1>10

\* The when: test is made against everything the sorter has done so far.
LEMMA TakeReadyOutcome ==
    ASSUME TypeOK, EngineInv, PhaseInv, GraphInv, OutcomeInv, TakeReady
    PROVE  OutcomeInv'
<1> DEFINE batch == {j \in Ready \cap Jobs : Selected(j)}
<1>1. /\ passed = finished
      /\ finished' = finished \cup (Ready \ batch)
      /\ UNCHANGED <<config, work, outcome, failed_jobs>>
  BY DEF TakeReady, PhaseInv, GraphInv, batchVars, StartBatch
<1>2. \A j \in Jobs : /\ Awaited(j)' = Awaited(j) /\ (Failed(j)' <=> Failed(j))
                      /\ (j \in Launched' <=> j \in Launched)
  BY <1>1 DEF config, Awaited, Failed, Launched
<1>3. \A j \in Ready \cap Jobs : ~Failed(j)
  BY ReadyIsFresh DEF EngineInv, Failed
<1>4. failed_jobs' = {k \in finished' \cap Jobs : Failed(k)'}
  BY <1>1, <1>2, <1>3 DEF OutcomeInv
<1>5. ASSUME NEW j \in batch PROVE Earned(j)'
  <2>1. j \in Jobs /\ j \notin finished /\ Selected(j)
    BY <1>1, ReadyIsFresh
  <2>2. Awaited(j) \subseteq finished \cap Jobs
    BY ReadyIsFresh DEF Awaited
  <2>3. pipeline.when[j] = "on_success" => \A k \in Awaited(j) : ~Failed(k)
    BY <2>1, <2>2 DEF Selected, OutcomeInv, Awaited
  <2>4. pipeline.when[j] = "on_failure" =>
            \E k \in (finished \cap Jobs) \ {j} : Failed(k)
    BY <2>1 DEF Selected, OutcomeInv
  <2>5. pipeline.when[j] \notin {"manual", "never"}
    BY <2>1 DEF Selected
  <2> QED
    BY <1>1, <1>2, <2>1, <2>2, <2>3, <2>4, <2>5 DEF Earned, config
<1>6. \A j \in Jobs : work[j] # "idle" => Earned(j)'
  BY <1>1, <1>2 DEF OutcomeInv, Earned, config, Awaited
<1>7. \A j \in Jobs : mode' # "idle" /\ j \in todo' => j \in batch
  BY DEF TakeReady, PhaseInv, batchVars, StartBatch
<1>8. ASSUME NEW j \in (Ready \ batch) \cap Jobs PROVE Accounted(j)'
  <2>1. ~Selected(j) /\ Awaited(j) \subseteq finished \cap Jobs
    BY ReadyIsFresh DEF Awaited
  <2>2. pipeline.when[j] \in Whens
    BY DEF TypeOK, BatchTypeOK, PipelineConfig
  <2>3. CASE pipeline.when[j] = "on_success"
    BY <2>1, <2>3, <1>1, <1>2 DEF Selected, OutcomeInv, Accounted, Stoppers, config
  <2>4. CASE pipeline.when[j] = "on_failure"
    BY <2>1, <2>4, <1>1, <1>2 DEF Selected, OutcomeInv, Accounted, config
  <2>5. CASE pipeline.when[j] \in {"manual", "never"}
    BY <2>5, <1>1 DEF Accounted, config
  <2> QED
    BY <2>1, <2>2, <2>3, <2>4, <2>5 DEF Selected, Whens
<1>9. \A j \in finished \cap Jobs : Accounted(j)'
  BY <1>1, <1>2 DEF OutcomeInv, Accounted, Stoppers, config, Awaited
<1> QED
  BY <1>1, <1>4, <1>5, <1>6, <1>7, <1>8, <1>9 DEF OutcomeInv

\* A batch that is over has dealt with every job it was given.
LEMMA DoneIsDone ==
    ASSUME TypeOK, EngineInv, GraphInv, BatchDone
    PROVE  /\ mode # "idle"
           /\ passed = finished \cup outcomes
           /\ \A j \in Jobs : work[j] \in {"idle", "done"}
           /\ \A j \in outcomes : j \in Jobs /\ work[j] = "done"
BY DEF BatchDone, TypeOK, BatchTypeOK, EngineInv, GraphInv, Running, WorkStates

LEMMA CompleteBatchKeepsInv ==
    ASSUME TypeOK, EngineInv, GraphInv, OutcomeInv, CompleteBatch
    PROVE  EngineInv' /\ GraphInv' /\ OutcomeInv'
<1>1. /\ mode' = "idle" /\ finished' = finished \cup outcomes
      /\ failed_jobs' = failed_jobs \cup HardFailures \cup AllowedFailures
      /\ UNCHANGED <<config, todo, work, outcome, passed>>
      /\ BatchDone
  BY DEF CompleteBatch
<1>2. EngineInv'
  BY <1>1, DoneIsDone DEF EngineInv, Running, InPool
<1>3. GraphInv'
  BY <1>1, DoneIsDone DEF GraphInv, config, Predecessors, EarlierStage
<1>4. \A j \in Jobs : /\ Awaited(j)' = Awaited(j) /\ (Failed(j)' <=> Failed(j))
                      /\ (j \in Launched' <=> j \in Launched)
  BY <1>1 DEF config, Awaited, Failed, Launched
<1>5. HardFailures \cup AllowedFailures = {j \in outcomes : Failed(j)}
  BY <1>1, DoneIsDone
     DEF HardFailures, AllowedFailures, Failed, Succeeds, EngineInv, TypeOK, BatchTypeOK,
         Outcomes
<1>6. failed_jobs' = {k \in finished' \cap Jobs : Failed(k)'}
  BY <1>1, <1>4, <1>5, DoneIsDone DEF OutcomeInv
<1>7. \A j \in Jobs : work'[j] # "idle" => Earned(j)'
  BY <1>1, <1>4 DEF OutcomeInv, Earned, config, Awaited
<1>8. \A j \in outcomes : Accounted(j)'
  BY <1>1, DoneIsDone DEF Accounted, Launched
<1>9. \A j \in finished \cap Jobs : Accounted(j)'
  BY <1>1, <1>4 DEF OutcomeInv, Accounted, Stoppers, config, Awaited
<1> QED
  BY <1>1, <1>2, <1>3, <1>6, <1>7, <1>8, <1>9 DEF OutcomeInv

\* Steps inside a batch.
LEMMA DispatchKeepsInv ==
    ASSUME DagInv, Dispatch
    PROVE  EngineInv' /\ GraphInv' /\ OutcomeInv'
<1>1. EngineInv' /\ EngineFrame
  BY DispatchKeepsEngine DEF DagInv, TypeOK, Dispatch
<1>2. \A j \in todo : j \in todo' \/ work'[j] # "idle"
  BY NothingDropped DEF DagInv, TypeOK, Dispatch
<1> QED
  BY <1>1, <1>2, BatchKeepsGraph, BatchKeepsOutcome DEF DagInv, Dispatch

LEMMA WorkerKeepsInv ==
    ASSUME DagInv, Worker
    PROVE  EngineInv' /\ GraphInv' /\ OutcomeInv' /\ mode' = mode
<1>1. EngineInv' /\ EngineFrame /\ UNCHANGED <<mode, todo>>
  BY WorkerKeepsEngine DEF DagInv, TypeOK, Worker
<1> QED
  BY <1>1, BatchKeepsGraph, BatchKeepsOutcome DEF DagInv, Worker

LEMMA InitInv == ASSUME Init PROVE DagInv
<1>1. TypeOK /\ EngineInv
  BY InitType, EngineInit DEF Init
<1>2. PhaseInv /\ GraphInv /\ OutcomeInv
  BY DEF Init, BatchInit, PhaseInv, GraphInv, OutcomeInv, Failed
<1> QED
  BY <1>1, <1>2 DEF DagInv

LEMMA NextInv == ASSUME DagInv, Next PROVE DagInv'
<1> USE DEF DagInv
<1>1. TypeOK'
  BY NextType
<1>2. CASE Start \/ BuildDag \/ CheckCancelled \/ CheckPassed \/ BatchRaises
           \/ LastBatchDone \/ Finally \/ Cancel \/ Terminated
  <2>1. UNCHANGED <<config, batchVars, passed, finished, failed_jobs>>
    BY <1>2 DEF Start, BuildDag, CheckCancelled, CheckPassed, BatchRaises, LastBatchDone,
                Finally, Cancel, Terminated, vars, dagVars
  <2>2. PhaseInv'
    BY <1>2, <2>1 DEF PhaseInv, batchVars, Start, BuildDag, CheckCancelled, CheckPassed,
                BatchRaises, LastBatchDone, Finally, Cancel, Terminated, vars, dagVars
  <2> QED
    BY <1>1, <2>1, <2>2, QuietKeepsInv
<1>3. CASE TakeReady
  <2>1. PhaseInv'
    BY <1>3 DEF PhaseInv, TakeReady, StartBatch, batchVars
  <2> QED
    BY <1>1, <1>3, <2>1, TakeReadyGraph, TakeReadyOutcome
<1>4. CASE Dispatch
  <2>1. PhaseInv'
    BY <1>4, DispatchKeepsEngine DEF PhaseInv, Dispatch, dagVars, TypeOK, EngineFrame
  <2> QED
    BY <1>1, <1>4, <2>1, DispatchKeepsInv
<1>5. CASE Worker
  <2>1. PhaseInv'
    BY <1>5, WorkerKeepsInv DEF PhaseInv, Worker, dagVars
  <2> QED
    BY <1>1, <1>5, <2>1, WorkerKeepsInv
<1>6. CASE CompleteBatch
  <2>1. PhaseInv'
    BY <1>6 DEF PhaseInv, CompleteBatch
  <2> QED
    BY <1>1, <1>6, <2>1, CompleteBatchKeepsInv
<1> QED
  BY <1>2, <1>3, <1>4, <1>5, <1>6 DEF Next, RunnerStep

LEMMA SpecImpliesInv == Spec => []DagInv
<1>1. Init => DagInv
  BY InitInv
<1>2. DagInv /\ [Next]_vars => DagInv'
  <2>1. ASSUME DagInv, UNCHANGED vars PROVE DagInv'
    <3>1. TypeOK' /\ PhaseInv'
      BY <2>1 DEF DagInv, vars, config, batchVars, dagVars, TypeOK, BatchTypeOK, Nodes,
                  PhaseInv
    <3>2. UNCHANGED <<config, batchVars, passed, finished, failed_jobs>>
      BY <2>1 DEF vars, dagVars
    <3> QED
      BY <2>1, <3>1, <3>2, QuietKeepsInv DEF DagInv
  <2> QED
    BY <2>1, NextInv
<1> QED
  BY <1>1, <1>2, PTL DEF Spec

\* A launched job depends on nothing that is in flight or that the sorter has not done:
\* batches never overlap, in whatever order the pool finishes their jobs.
THEOREM PrecedenceHolds == Spec => []PrecedenceRespected
<1>1. DagInv => PrecedenceRespected
  <2> SUFFICES ASSUME DagInv, NEW j \in Launched, NEW k \in Awaited(j)
               PROVE  k \in finished /\ work[k] \in {"idle", "done"}
    BY DEF PrecedenceRespected
  <2>1. j \in Jobs /\ j \in passed
    BY DEF DagInv, GraphInv, Launched
  <2>2. k \in Jobs /\ k \in Predecessors(j)
    BY <2>1, AwaitedArePredecessors DEF DagInv
  <2> QED
    BY <2>1, <2>2 DEF DagInv, GraphInv
<1> QED
  BY <1>1, SpecImpliesInv, PTL

\* The when: test a job passed when it was handed out still describes the run at its end:
\* no failure it was to wait for shows up later.
THEOREM WhenIsHonoured == Spec => []WhenHonoured
<1>1. DagInv => WhenHonoured
  BY DEF DagInv, OutcomeInv, Earned, WhenHonoured, Launched, Failed
<1> QED
  BY <1>1, SpecImpliesInv, PTL

-----------------------------------------------------------------------------
(* How a run ends.                                                         *)

CancelNoted == \E i \in DOMAIN calls : calls[i] = "cancelled"

\* A run that ends without having been cancelled or broken off has dealt with every job.
EndInv ==
    /\ pc \in {"check", "ready", "run", "over", "finally"} => ~Cyclic
    /\ pc = "over" => Ready = {}
    /\ /\ pc \in {"finally", "returned", "raised"}
       /\ mode # "raised"
       /\ ~CancelNoted
       => Jobs \subseteq finished \/ (pc = "raised" /\ first_error = NoJob)
    /\ mode = "raised" /\ pc \in {"finally", "returned", "raised"} =>
          raising /\ pc # "returned"

\* success is only kept while nothing has failed hard but jobs of the current batch.
SuccessInv ==
    success =>
        /\ \A j \in Jobs : outcome[j] = "hard" => mode # "idle" /\ j \notin finished
        /\ ~CancelNoted
        /\ pc \in {"finally", "returned", "raised"} => mode # "raised"

LEMMA CancelStaysNoted ==
    ASSUME TypeOK, NEW c \in Callbacks, calls' = Append(calls, c)
    PROVE  CancelNoted' <=> CancelNoted \/ c = "cancelled"
<1>1. /\ DOMAIN calls = 1..Len(calls)
      /\ DOMAIN calls' = 1..(Len(calls) + 1)
      /\ \A i \in 1..Len(calls) : calls'[i] = calls[i]
      /\ calls'[Len(calls) + 1] = c
      /\ Len(calls) \in Nat
  BY DEF TypeOK
<1> QED
  BY <1>1 DEF CancelNoted

\* While some job is left and the graph has no cycle, some node is ready: each job left
\* over would otherwise wait for another one.
LEMMA ExhaustedIsComplete ==
    ASSUME TypeOK, GraphInv, passed = finished, Ready = {}, ~Cyclic
    PROVE  Jobs \subseteq finished
<1> DEFINE left == Jobs \ passed
<1>1. ASSUME NEW j \in left PROVE Predecessors(j) \cap left # {}
  <2>1. PICK n \in Predecessors(j) : n \notin finished
    BY DEF Ready, Nodes
  <2>2. n \in Nodes \ passed
    BY <2>1, AwaitedArePredecessors
  <2>3. n \in Jobs
    BY <2>2 DEF Ready
  <2> QED
    BY <2>1, <2>2, <2>3
<1>2. left = {}
  BY <1>1 DEF Cyclic
<1> QED
  BY <1>2

LEMMA CyclicIsFixed == ASSUME UNCHANGED config PROVE Cyclic' <=> Cyclic
BY DEF config, Cyclic, Predecessors, EarlierStage

LEMMA NextEnd == ASSUME DagInv, EndInv, Next PROVE EndInv'
<1> USE DEF EndInv
<1>1. UNCHANGED config
  BY DEF Next, RunnerStep, Start, BuildDag, CheckCancelled, CheckPassed, TakeReady, Dispatch,
         CompleteBatch, BatchRaises, LastBatchDone, Finally, Worker, Cancel, Terminated, vars
<1>2. Cyclic' <=> Cyclic
  BY <1>1, CyclicIsFixed
<1> DEFINE Stays == UNCHANGED <<config, passed, finished>> => Ready' = Ready
<1>0. Stays
  BY DEF Ready, Nodes, Predecessors, EarlierStage, config
<1>3. CASE Start \/ CheckPassed \/ TakeReady \/ CompleteBatch
  <2>1. ASSUME TakeReady, Ready = {} PROVE Ready' = {}
    BY <2>1, <1>0, <1>1 DEF TakeReady
  <2> QED
    BY <1>2, <1>3, <2>1 DEF Start, CheckPassed, TakeReady, CompleteBatch
<1>4. CASE BuildDag
  BY <1>2, <1>4 DEF BuildDag, DagInv, PhaseInv, batchVars
<1>5. CASE CheckCancelled
  BY <1>2, <1>5, CancelStaysNoted DEF CheckCancelled, DagInv, PhaseInv, Callbacks, batchVars
<1>6. CASE BatchRaises
  BY <1>2, <1>6 DEF BatchRaises, batchVars
<1>7. CASE LastBatchDone
  <2>1. Jobs \subseteq finished
    BY <1>7, ExhaustedIsComplete DEF LastBatchDone, IsActive, DagInv, PhaseInv, GraphInv
  <2> QED
    BY <1>2, <1>7, <2>1 DEF LastBatchDone, DagInv, PhaseInv, batchVars
<1>8. CASE Finally
  <2>1. CancelNoted => CancelNoted'
    BY <1>8, CancelStaysNoted DEF Finally, DagInv, Callbacks
  <2> QED
    BY <1>2, <1>8, <2>1 DEF Finally, batchVars
<1>9. CASE Dispatch
  BY <1>2, <1>9 DEF Dispatch, dagVars
<1>10. CASE Worker
  BY <1>0, <1>1, <1>2, <1>10, WorkerKeepsInv DEF Worker, dagVars, CancelNoted
<1>11. CASE Cancel \/ Terminated
  BY <1>0, <1>1, <1>2, <1>11 DEF Cancel, Terminated, vars, dagVars, batchVars, CancelNoted
<1> QED
  BY <1>3, <1>4, <1>5, <1>6, <1>7, <1>8, <1>9, <1>10, <1>11 DEF Next, RunnerStep

\* A hard failure inside a batch is a failure of a job of that batch.
LEMMA BatchKeepsSuccess ==
    ASSUME DagInv, SuccessInv, EngineFrame, UNCHANGED <<config, dagVars>>, mode' # "idle",
           pc \notin {"finally", "returned", "raised"}
    PROVE  SuccessInv'
<1>1. \A j \in finished \cap Jobs : outcome'[j] = outcome[j]
  BY FinishedFrozen DEF DagInv
<1> QED
  BY <1>1 DEF SuccessInv, dagVars, CancelNoted

LEMMA NextSuccess == ASSUME DagInv, SuccessInv, Next PROVE SuccessInv'
<1>1. CASE Start \/ BuildDag \/ CheckCancelled \/ CheckPassed \/ BatchRaises
           \/ LastBatchDone \/ Finally \/ Cancel \/ Terminated
  <2>1. UNCHANGED <<batchVars, finished>> /\ (success' => success)
    <3>1. CASE CheckCancelled \/ BatchRaises \/ LastBatchDone
      BY <3>1, Zenon DEF CheckCancelled, BatchRaises, LastBatchDone
    <3>2. CASE Start \/ BuildDag \/ CheckPassed \/ Finally \/ Cancel \/ Terminated
      BY <3>2 DEF Start, BuildDag, CheckPassed, Finally, Cancel, Terminated, vars, dagVars
    <3> QED
      BY <1>1, <3>1, <3>2
  <2>2. success' => ~CancelNoted'
    <3>1. CASE Start \/ LastBatchDone \/ Finally
      BY <2>1, <3>1, CancelStaysNoted
         DEF SuccessInv, DagInv, Start, LastBatchDone, Finally, Callbacks, CancelNoted
    <3>2. CASE CheckCancelled
      BY <3>2 DEF CheckCancelled
    <3>3. CASE BuildDag \/ CheckPassed \/ BatchRaises \/ Cancel \/ Terminated
      BY <2>1, <3>3 DEF SuccessInv, BuildDag, CheckPassed, BatchRaises, Cancel, Terminated,
                        vars, dagVars, CancelNoted
    <3> QED
      BY <1>1, <3>1, <3>2, <3>3
  <2>3. success' /\ pc' \in {"finally", "returned", "raised"} => mode' # "raised"
    BY <1>1, <2>1 DEF SuccessInv, DagInv, PhaseInv, batchVars, Start, BuildDag,
                      CheckCancelled, CheckPassed, BatchRaises, LastBatchDone, Finally,
                      Cancel, Terminated, vars, dagVars
  <2> QED
    BY <2>1, <2>2, <2>3 DEF SuccessInv, batchVars
<1>2. CASE TakeReady
  <2>1. outcome' = outcome /\ UNCHANGED <<success, calls>> /\ mode = "idle"
    BY <1>2 DEF TakeReady, DagInv, PhaseInv, batchVars, StartBatch
  <2> QED
    BY <1>2, <2>1 DEF SuccessInv, CancelNoted, TakeReady
<1>3. CASE Dispatch
  <2>1. EngineFrame
    BY <1>3, DispatchKeepsEngine DEF DagInv, TypeOK, Dispatch
  <2> QED
    BY <1>3, <2>1, BatchKeepsSuccess DEF Dispatch, EngineFrame
<1>4. CASE Worker
  <2>1. EngineFrame /\ mode' = mode /\ mode \notin {"idle", "raised"}
    BY <1>4, WorkerKeepsEngine, WorkerMoves DEF DagInv, TypeOK, Worker, EngineFrame, EngineInv
  <2> QED
    BY <1>4, <2>1, BatchKeepsSuccess DEF Worker, DagInv, PhaseInv
<1>5. CASE CompleteBatch
  <2>1. success' => success /\ \A j \in outcomes : outcome[j] # "hard"
    BY <1>5 DEF CompleteBatch, StillSuccess, HardFailures, Succeeds
  <2>2. \A j \in Jobs : outcome[j] = "hard" => j \in finished \/ j \in outcomes
    BY <1>5, DoneIsDone DEF CompleteBatch, DagInv, EngineInv, GraphInv
  <2> QED
    BY <1>5, <2>1, <2>2 DEF CompleteBatch, SuccessInv, CancelNoted
<1> QED
  BY <1>1, <1>2, <1>3, <1>4, <1>5 DEF Next, RunnerStep

LEMMA SpecImpliesEnd == Spec => [](EndInv /\ SuccessInv)
<1>1. Init => EndInv /\ SuccessInv
  BY DEF Init, BatchInit, EndInv, SuccessInv, CancelNoted
<1>2. DagInv /\ EndInv /\ SuccessInv /\ [Next]_vars => (EndInv /\ SuccessInv)'
  <2>1. ASSUME EndInv, SuccessInv, UNCHANGED vars PROVE EndInv' /\ SuccessInv'
    BY <2>1, CyclicIsFixed
       DEF EndInv, SuccessInv, CancelNoted, Ready, Nodes, Predecessors, EarlierStage, vars,
           config, batchVars, dagVars
  <2> QED
    BY <2>1, NextEnd, NextSuccess
<1> QED
  BY <1>1, <1>2, SpecImpliesInv, PTL DEF Spec

\* A run that was neither cancelled nor broken off leaves no job out without a reason.
THEOREM NobodyIsForgotten == Spec => []NobodyForgotten
<1>1. DagInv /\ EndInv => NobodyForgotten
  <2> SUFFICES ASSUME DagInv, EndInv, Ended, ~Broken, ~CancelNoted
               PROVE  \A j \in Jobs : Accounted(j)
    BY DEF NobodyForgotten, LeftOutRightly, LeftOutBehindAllowed, Accounted, Failed, CancelNoted
  <2>1. mode # "raised"
    BY DEF Ended, Broken, EndInv
  <2>2. Jobs \subseteq finished
    BY <2>1 DEF EndInv, Ended, Broken
  <2> QED
    BY <2>2 DEF DagInv, OutcomeInv
<1> QED
  BY <1>1, SpecImpliesInv, SpecImpliesEnd, PTL

-----------------------------------------------------------------------------
(* The refinement.                                                         *)

\* The variables of PipelineSpec as the runner's.
Before == [j \in Jobs |-> Awaited(j)]
Status == [j \in Jobs |-> StatusOf(j)]
Verdict == IF ~Ended THEN "open"
           ELSE IF success /\ ~Broken THEN "passed" ELSE "failed"
Settled == {"succeeded", "tolerated", "failed", "skipped"}

RefineInv == DagInv /\ EndInv /\ SuccessInv

LEMMA StatusIs ==
    ASSUME DagInv, NEW j \in Jobs
    PROVE  /\ Status[j] = StatusOf(j) /\ Before[j] = Awaited(j)
           /\ work[j] = "idle" /\ j \notin finished => StatusOf(j) = "waiting"
           /\ work[j] \in {"queued", "running"} => StatusOf(j) = "active"
           /\ work[j] = "exited" => StatusOf(j) = "ended"
           /\ work[j] = "done" => StatusOf(j) \in Settled \ {"skipped"}
           /\ j \in finished => StatusOf(j) \in Settled
<1>1. work[j] \in WorkStates /\ (j \in finished => work[j] \in {"idle", "done"})
  BY DEF DagInv, TypeOK, BatchTypeOK, GraphInv
<1> QED
  BY <1>1 DEF Status, Before, StatusOf, Settled, WorkStates

\* What a handed out job awaits is settled.
LEMMA AwaitedAreSettled ==
    ASSUME DagInv, NEW j \in Jobs, Awaited(j) \subseteq finished
    PROVE  \A k \in Before[j] : k \in Jobs /\ Status[k] \in Settled
BY StatusIs DEF Awaited

LEMMA PassedAwait ==
    ASSUME DagInv, NEW j \in Jobs, j \in passed
    PROVE  Awaited(j) \subseteq finished
BY AwaitedArePredecessors DEF DagInv, GraphInv

\* A step that no variable of the abstract pipeline notices.
LEMMA Unnoticed ==
    ASSUME UNCHANGED config, Status' = Status, Verdict' = Verdict
    PROVE  UNCHANGED Abstract!vars
<1>1. Before' = Before
  BY DEF Before, Awaited, config
<1> QED
  BY <1>1 DEF Abstract!vars, Before, Status, Verdict

\* A step of a batch that moves one job is a step of the abstract pipeline, or unnoticed.
LEMMA OneJobStep ==
    ASSUME DagInv, ~Ended, mode # "idle", UNCHANGED <<config, dagVars>>,
           NEW j \in Jobs, Moves(j)
    PROVE  [Abstract!Next]_(Abstract!vars)
<1> DEFINE t == StatusOf(j)'
<1>1. /\ Before' = Before /\ Status' = [Status EXCEPT ![j] = t]
      /\ Status[j] = StatusOf(j) /\ Before[j] = Awaited(j)
      /\ Verdict = "open" /\ Verdict' = "open"
  <2>1. \A k \in Jobs \ {j} : work'[k] = work[k] /\ outcome'[k] = outcome[k]
    BY DEF Moves
  <2>2. /\ Before' = Before /\ \A k \in Jobs \ {j} : StatusOf(k)' = StatusOf(k)
        /\ Verdict = "open" /\ Verdict' = "open"
    BY <2>1 DEF Before, Awaited, StatusOf, Verdict, Ended, config, dagVars
  <2> QED
    BY <2>2, StatusIs DEF Status
<1>2. ASSUME j \in todo
      PROVE  /\ j \notin finished
             /\ \A k \in Before[j] : k \in Jobs /\ Status[k] \in Settled
  BY <1>2, PassedAwait, AwaitedAreSettled DEF DagInv, GraphInv
<1>3. finished' = finished
  BY DEF dagVars
<1>4. CASE j \in todo /\ work[j] = "idle" /\ work'[j] \in {"queued", "running"}
  <2>1. StatusOf(j) = "waiting" /\ t = "active"
    BY <1>2, <1>4 DEF StatusOf
  <2> HIDE DEF t
  <2>2. Abstract!Launch(j)
    BY <1>1, <1>2, <1>4, <2>1
       DEF Abstract!Launch, Abstract!Settled, Abstract!Settlements, Status, Before, Settled
  <2> QED
    BY <1>1, <2>2 DEF Abstract!Next, Before, Verdict
<1>5. CASE /\ j \in todo /\ work[j] = "idle" /\ work'[j] = "done"
           /\ outcome'[j] = "memoized"
  <2>1. StatusOf(j) = "waiting" /\ t = "succeeded"
    BY <1>2, <1>5 DEF StatusOf
  <2> HIDE DEF t
  <2>2. Abstract!Recall(j)
    BY <1>1, <1>2, <1>5, <2>1
       DEF Abstract!Recall, Abstract!Settled, Abstract!Settlements, Status, Before, Settled
  <2> QED
    BY <1>1, <2>2 DEF Abstract!Next, Before, Verdict
<1>6. CASE work[j] = "queued" /\ work'[j] = "running"
  <2>1. t = Status[j]
    BY <1>1, <1>6 DEF StatusOf
  <2> HIDE DEF t
  <2>2. Status' = Status
    BY <1>1, <2>1 DEF Status
  <2> QED
    BY <1>1, <2>2, Unnoticed
<1>7. CASE work[j] = "running" /\ work'[j] = "exited"
  <2>1. StatusOf(j) = "active" /\ t = "ended"
    BY <1>7 DEF StatusOf
  <2> HIDE DEF t
  <2>2. Status' = [k \in Jobs |-> IF k \in {j} THEN "ended" ELSE Status[k]]
    BY <1>1, <2>1 DEF Status
  <2>3. Abstract!End({j})
    BY <1>1, <2>1, <2>2 DEF Abstract!End, Status
  <2> QED
    BY <1>1, <2>3 DEF Abstract!Next, Before, Verdict
<1>8. CASE /\ work[j] \in {"running", "exited"} /\ work'[j] = "done"
           /\ outcome'[j] \in {"success", "allowed", "hard"}
  <2>1. /\ StatusOf(j) \in {"active", "ended"}
        /\ t \in {"succeeded", "tolerated", "failed"}
    BY <1>8 DEF StatusOf
  <2> HIDE DEF t
  <2>2. Abstract!Settle(j)
    BY <1>1, <2>1 DEF Abstract!Settle, Abstract!Settlements, Status
  <2> QED
    BY <1>1, <2>2 DEF Abstract!Next, Before, Verdict
<1> QED
  BY <1>4, <1>5, <1>6, <1>7, <1>8 DEF Moves

LEMMA DispatchRefines ==
    ASSUME DagInv, Dispatch
    PROVE  [Abstract!Next]_(Abstract!vars)
<1>1. /\ ~Ended /\ mode # "idle" /\ UNCHANGED <<config, dagVars>>
      /\ UNCHANGED <<work, outcome>> \/ \E j \in Jobs : Moves(j)
  BY DispatchMoves DEF Dispatch, Ended, DagInv, TypeOK, PhaseInv
<1>2. CASE UNCHANGED <<work, outcome>>
  <2>1. Status' = Status /\ Verdict' = Verdict
    BY <1>1, <1>2 DEF Status, StatusOf, Verdict, Ended, dagVars
  <2> QED
    BY <1>1, <2>1, Unnoticed
<1> QED
  BY <1>1, <1>2, OneJobStep

LEMMA WorkerRefines ==
    ASSUME DagInv, Worker
    PROVE  [Abstract!Next]_(Abstract!vars)
<1>1. /\ InPool # {} /\ outcome' = outcome /\ UNCHANGED <<config, dagVars>>
      /\ \/ \E j \in InPool : Moves(j)
         \/ work' = [j \in Jobs |-> IF j \in InPool THEN "exited" ELSE work[j]]
  BY WorkerMoves DEF Worker, DagInv, TypeOK
<1>2. mode # "idle" /\ ~Ended
  BY <1>1 DEF DagInv, EngineInv, PhaseInv, InPool, Ended
<1>3. CASE \E j \in InPool : Moves(j)
  BY <1>1, <1>2, <1>3, OneJobStep DEF InPool
<1>4. CASE work' = [j \in Jobs |-> IF j \in InPool THEN "exited" ELSE work[j]]
  <2>1. /\ Before' = Before /\ Verdict = "open" /\ Verdict' = "open"
        /\ \A j \in InPool : Status[j] = "active"
        /\ Status' = [j \in Jobs |-> IF j \in InPool THEN "ended" ELSE Status[j]]
    BY <1>1, <1>2, <1>4
       DEF Before, Awaited, Status, StatusOf, Verdict, Ended, InPool, config, dagVars
  <2>2. Abstract!End(InPool) /\ InPool \in SUBSET Jobs
    BY <1>1, <2>1 DEF Abstract!End, Status, InPool
  <2> QED
    BY <2>1, <2>2 DEF Abstract!Next, Before, Verdict
<1> QED
  BY <1>1, <1>3, <1>4

\* get_ready and its loop: the ready jobs that are not selected are skipped, and those jobs
\* await nothing but what the sorter had done before.
LEMMA TakeReadyRefines ==
    ASSUME DagInv, TakeReady
    PROVE  [Abstract!Next]_(Abstract!vars)
<1> DEFINE batch == {j \in Ready \cap Jobs : Selected(j)}
           out == (Ready \cap Jobs) \ batch
<1>1. /\ finished' = finished \cup (Ready \ batch) /\ passed = finished
      /\ UNCHANGED <<config, work, outcome>>
      /\ ~Ended /\ ~Ended'
  BY DEF TakeReady, DagInv, PhaseInv, GraphInv, batchVars, StartBatch, Ended
<1>2. /\ out \in SUBSET Jobs
      /\ \A j \in out : work[j] = "idle" /\ j \notin finished /\ Awaited(j) \subseteq finished
  BY <1>1, ReadyIsFresh DEF DagInv
<1>3. \A j \in Jobs : j \in finished' <=> j \in finished \/ j \in out
  BY <1>1
<1> HIDE DEF batch, out
<1>4. Before' = Before /\ Verdict = "open" /\ Verdict' = "open"
  BY <1>1 DEF Before, Awaited, Verdict, config
<1>5. ASSUME NEW j \in Jobs
      PROVE  StatusOf(j)' = IF j \in out THEN "skipped" ELSE StatusOf(j)
  BY <1>1, <1>2, <1>3 DEF StatusOf
<1>6. Status' = [j \in Jobs |-> IF j \in out THEN "skipped" ELSE Status[j]]
  BY <1>5 DEF Status
<1>7. CASE out = {}
  <2>1. Status' = Status
    BY <1>6, <1>7 DEF Status
  <2> QED
    BY <1>1, <1>4, <2>1, Unnoticed
<1>8. CASE out # {}
  <2>1. \A j \in out : Status[j] = "waiting" /\ \A k \in Before[j] : Status[k] \in Settled
    BY <1>2, StatusIs, AwaitedAreSettled
  <2>2. Abstract!Skip(out)
    BY <1>2, <1>6, <1>8, <2>1
       DEF Abstract!Skip, Abstract!Settled, Abstract!Settlements, Status, Before, Settled
  <2> QED
    BY <1>2, <1>4, <2>2 DEF Abstract!Next, Before, Verdict
<1> QED
  BY <1>7, <1>8

\* The two steps that end a run: nothing is in flight, and success is only said of a run
\* whose jobs are all settled.
LEMMA EndingRefines ==
    ASSUME RefineInv, DagInv', EndInv', ~Ended, Ended', mode' = mode,
           UNCHANGED <<config, work, outcome, finished>>, SuccessInv'
    PROVE  Abstract!Next
<1>1. Before' = Before /\ Status' = Status /\ Verdict = "open"
  BY DEF Before, Awaited, Status, StatusOf, Verdict, config
<1>2. \A j \in Jobs : Status[j] # "active"
  <2>1. mode \in {"idle", "raised"}
    BY DEF DagInv, PhaseInv, Ended
  <2>2. \A j \in Jobs : work[j] \notin {"queued", "running"}
    BY <2>1 DEF RefineInv, DagInv, EngineInv, InPool
  <2> QED
    BY <2>2 DEF Status, StatusOf
<1>3. CASE success' /\ ~Broken'
  <2>1. mode # "raised" /\ ~CancelNoted'
    BY <1>3 DEF SuccessInv, Ended
  <2>2. Jobs \subseteq finished
    BY <1>3, <2>1 DEF EndInv, Ended, Broken
  <2>3. \A j \in Jobs : outcome[j] # "hard"
    BY <1>3, <2>2 DEF SuccessInv
  <2>4. \A j \in Jobs : Status[j] \in Settled /\ Status[j] # "failed"
    <3>1. \A j \in Jobs : StatusOf(j) # "failed"
      BY <2>3 DEF StatusOf
    <3> QED
      BY <2>2, <3>1, StatusIs DEF RefineInv
  <2>5. Abstract!Close("passed")
    BY <1>1, <1>2, <1>3, <2>4
       DEF Abstract!Close, Abstract!Settled, Abstract!Settlements, Status, Settled, Verdict
  <2> QED
    BY <1>1, <2>5 DEF Abstract!Next, Before, Verdict
<1>4. CASE ~(success' /\ ~Broken')
  <2>1. Abstract!Close("failed")
    BY <1>1, <1>2, <1>4 DEF Abstract!Close, Status, Verdict
  <2> QED
    BY <1>1, <2>1 DEF Abstract!Next, Before, Verdict
<1> QED
  BY <1>3, <1>4

LEMMA StepRefines ==
    ASSUME RefineInv, RefineInv', [Next]_vars
    PROVE  [Abstract!Next]_(Abstract!vars)
<1>1. ASSUME UNCHANGED <<config, work, outcome>>,
             \A j \in Jobs : work[j] = "idle" => (j \in finished' <=> j \in finished),
             (~Ended /\ ~Ended') \/ UNCHANGED <<pc, success, mode, first_error>>
      PROVE  UNCHANGED Abstract!vars
  <2>1. \A j \in Jobs : work[j] \in WorkStates
    BY DEF RefineInv, DagInv, TypeOK, BatchTypeOK
  <2>2. \A j \in Jobs : StatusOf(j)' = StatusOf(j)
    BY <1>1, <2>1 DEF StatusOf, WorkStates
  <2>3. Verdict' = Verdict
    BY <1>1 DEF Verdict, Ended, Broken
  <2> QED
    BY <1>1, <2>2, <2>3, Unnoticed DEF Status
<1>2. CASE Start \/ CheckCancelled \/ CheckPassed \/ BatchRaises \/ LastBatchDone
  BY <1>1, <1>2
     DEF Start, CheckCancelled, CheckPassed, BatchRaises, LastBatchDone, batchVars, Ended
<1>3. CASE TakeReady
  BY <1>3, TakeReadyRefines DEF RefineInv
<1>4. CASE Dispatch
  BY <1>4, DispatchRefines DEF RefineInv
<1>5. CASE CompleteBatch
  <2>1. \A j \in Jobs : work[j] = "idle" => (j \in finished' <=> j \in finished)
    BY <1>5, DoneIsDone DEF CompleteBatch, RefineInv, DagInv
  <2> QED
    BY <1>1, <1>5, <2>1 DEF CompleteBatch, Ended
<1>6. CASE BuildDag \/ Finally
  <2>1. /\ ~Ended /\ UNCHANGED <<config, work, outcome, finished, mode>>
    BY <1>6 DEF BuildDag, Finally, batchVars, Ended
  <2>2. CASE Ended'
    BY <2>1, <2>2, EndingRefines DEF RefineInv
  <2>3. CASE ~Ended'
    BY <1>1, <2>1, <2>3
  <2> QED
    BY <2>2, <2>3
<1>7. CASE Worker
  BY <1>7, WorkerRefines DEF RefineInv
<1>8. CASE Cancel \/ UNCHANGED vars
  BY <1>1, <1>8 DEF Cancel, vars, batchVars, dagVars
<1> QED
  BY <1>2, <1>3, <1>4, <1>5, <1>6, <1>7, <1>8 DEF Next, RunnerStep, Terminated

LEMMA InitRefines == ASSUME Init PROVE Abstract!Init
BY DEF Init, BatchInit, Abstract!Init, StatusOf, Awaited, Ended

\* The DAG runner implements the same abstract pipeline as the stage runner: jobs start behind
\* everything they await, settle once, and "passed" is said only of a run in which every job
\* is settled and none failed.
THEOREM DagImplementsSpec == Spec => ImplementsPipelineSpec
<1>1. Init => Abstract!Init
  BY InitRefines
<1>2. RefineInv /\ RefineInv' /\ [Next]_vars => [Abstract!Next]_(Abstract!vars)
  BY StepRefines
<1>3. DagInv /\ EndInv /\ SuccessInv <=> RefineInv
  BY DEF RefineInv
<1> QED
  BY <1>1, <1>2, <1>3, SpecImpliesInv, SpecImpliesEnd, PTL
     DEF Spec, ImplementsPipelineSpec, Abstract!Spec

=============================================================================
