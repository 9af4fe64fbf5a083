-------------------------- MODULE BaseRunnerProofs --------------------------
(***************************************************************************)
(* Lemmas about the dispatch engine that StageRunner and DagRunner share:  *)
(* what a batch keeps true of itself, whatever loop handed it out, and     *)
(* what a step inside a batch may change.                                  *)
(***************************************************************************)
EXTENDS BaseRunner, TLAPS

-----------------------------------------------------------------------------
(* Types.                                                                  *)

LEMMA DispatchKeepsType ==
    ASSUME BatchTypeOK, NEW stop \in BOOLEAN, DispatchStep(stop), UNCHANGED config
    PROVE  BatchTypeOK'
<1> USE DEF config, BatchTypeOK, Modes, WorkStates, Outcomes, Endings, Classify, CollectInto,
            Injected, Transported
<1>1. CASE \E j \in Jobs : Memoize(j)
  BY <1>1 DEF Memoize
<1>2. CASE \E j \in Jobs : SerialStart(j)
  BY <1>2 DEF SerialStart
<1>3. CASE \E j \in Jobs : \E e \in Endings, mutated \in BOOLEAN :
              SerialFinish(j, e, mutated, stop)
  BY <1>3 DEF SerialFinish, Recorded
<1>4. CASE \E j \in Jobs : \E e \in Endings : SerialCollectFails(j, e)
  BY <1>4 DEF SerialCollectFails
<1>5. CASE \E j \in Jobs : Submit(j)
  BY <1>5 DEF Submit
<1>6. CASE \E j \in Jobs : Reap(j)
  BY <1>6 DEF Reap, Recorded
<1>7. CASE \E j \in Jobs : ReapCollectFails(j)
  BY <1>7 DEF ReapCollectFails
<1>8. CASE StartPolling
  BY <1>8 DEF StartPolling
<1>9. CASE PoolShutDown
  BY <1>9 DEF PoolShutDown
<1> QED
  BY <1>1, <1>2, <1>3, <1>4, <1>5, <1>6, <1>7, <1>8, <1>9 DEF DispatchStep

LEMMA WorkerKeepsType ==
    ASSUME BatchTypeOK, WorkerStep, UNCHANGED config
    PROVE  BatchTypeOK'
<1> USE DEF config, BatchTypeOK, Modes, WorkStates, Outcomes, Endings, CollectInto, Injected
<1>1. CASE \E j \in Jobs : WorkerStart(j)
  BY <1>1 DEF WorkerStart
<1>2. CASE \E j \in Jobs : \E e \in Endings : WorkerExit(j, e)
  BY <1>2 DEF WorkerExit
<1>3. CASE PoolBreaks
  BY <1>3 DEF PoolBreaks
<1> QED
  BY <1>1, <1>2, <1>3 DEF WorkerStep

-----------------------------------------------------------------------------
(* What a batch keeps true of itself.                                      *)

\* A job has an outcome when it is done and not before; what is still to be launched is
\* idle; between batches nothing is in flight, a serial batch has one job in flight at a
\* time, and an exception leaves a batch with nothing in the pool.
EngineInv ==
    /\ \A j \in Jobs : work[j] = "done" <=> outcome[j] # "none"
    /\ mode = "idle" => \A j \in Jobs : work[j] \in {"idle", "done"}
    /\ mode # "idle" => \A j \in todo : work[j] = "idle"
    /\ mode = "serial" =>
          /\ \A j \in Jobs : work[j] \in {"idle", "running", "done"}
          /\ \A j, k \in Running : j = k
    /\ mode \in {"polling", "draining"} => todo = {}
    /\ mode = "raised" => InPool = {}

\* What a step inside a batch leaves alone: jobs that are neither to be launched nor in
\* flight stay as they are, and the list of outcomes gains those that become done.
EngineFrame ==
    /\ mode # "idle" /\ mode' # "idle"
    /\ mode = "raised" => mode' = "raised"
    /\ todo' \subseteq todo
    /\ \A j \in Jobs : work[j] # "idle" => work'[j] # "idle"
    /\ \A j \in Jobs : work[j] = "done" \/ (work[j] = "idle" /\ j \notin todo) =>
          work'[j] = work[j] /\ outcome'[j] = outcome[j]
    /\ outcomes' = outcomes \cup {j \in Jobs : work[j] # "done" /\ work'[j] = "done"}

LEMMA EngineInit == ASSUME BatchInit PROVE EngineInv
BY DEF BatchInit, EngineInv, Running, InPool

LEMMA StartKeepsEngine ==
    ASSUME EngineInv, NEW js \in SUBSET Jobs, StartBatch(js), mode = "idle",
           \A j \in js : work[j] = "idle"
    PROVE  EngineInv'
BY DEF EngineInv, StartBatch, Running, InPool

LEMMA DispatchKeepsEngine ==
    ASSUME BatchTypeOK, EngineInv, NEW stop \in BOOLEAN, DispatchStep(stop)
    PROVE  EngineInv' /\ EngineFrame
<1> USE DEF BatchTypeOK, EngineInv, EngineFrame, WorkStates, Outcomes, Running, InPool
<1>1. CASE \E j \in Jobs : Memoize(j)
  BY <1>1 DEF Memoize
<1>2. CASE \E j \in Jobs : SerialStart(j)
  BY <1>2 DEF SerialStart
<1>3. CASE \E j \in Jobs : \E e \in Endings, mutated \in BOOLEAN :
              SerialFinish(j, e, mutated, stop)
  BY <1>3 DEF SerialFinish, Classify
<1>4. CASE \E j \in Jobs : \E e \in Endings : SerialCollectFails(j, e)
  BY <1>4 DEF SerialCollectFails
<1>5. CASE \E j \in Jobs : Submit(j)
  BY <1>5 DEF Submit
<1>6. CASE \E j \in Jobs : Reap(j)
  BY <1>6 DEF Reap, Classify
<1>7. CASE \E j \in Jobs : ReapCollectFails(j)
  BY <1>7 DEF ReapCollectFails
<1>8. CASE StartPolling
  BY <1>8 DEF StartPolling
<1>9. CASE PoolShutDown
  BY <1>9 DEF PoolShutDown
<1> QED
  BY <1>1, <1>2, <1>3, <1>4, <1>5, <1>6, <1>7, <1>8, <1>9 DEF DispatchStep

LEMMA WorkerKeepsEngine ==
    ASSUME BatchTypeOK, EngineInv, WorkerStep
    PROVE  EngineInv' /\ EngineFrame /\ UNCHANGED <<mode, todo>>
<1> USE DEF BatchTypeOK, EngineInv, EngineFrame, WorkStates, Running, InPool
<1>1. CASE \E j \in Jobs : WorkerStart(j)
  BY <1>1 DEF WorkerStart
<1>2. CASE \E j \in Jobs : \E e \in Endings : WorkerExit(j, e)
  BY <1>2 DEF WorkerExit
<1>3. CASE PoolBreaks
  BY <1>3 DEF PoolBreaks
<1> QED
  BY <1>1, <1>2, <1>3 DEF WorkerStep

\* Without stop_on_failure, no job leaves the batch but by being launched or recalled.
LEMMA NothingDropped ==
    ASSUME BatchTypeOK, DispatchStep(FALSE)
    PROVE  \A j \in todo : j \in todo' \/ work'[j] # "idle"
<1> USE DEF BatchTypeOK, WorkStates
<1>1. CASE \E j \in Jobs : Memoize(j) \/ SerialStart(j) \/ Submit(j)
  BY <1>1 DEF Memoize, SerialStart, Submit
<1>2. CASE \E j \in Jobs : \E e \in Endings, mutated \in BOOLEAN :
              SerialFinish(j, e, mutated, FALSE)
  BY <1>2 DEF SerialFinish
<1>3. CASE \E j \in Jobs : \E e \in Endings : SerialCollectFails(j, e)
  BY <1>3 DEF SerialCollectFails
<1>4. CASE \E j \in Jobs : Reap(j) \/ ReapCollectFails(j)
  BY <1>4 DEF Reap, ReapCollectFails
<1>5. CASE StartPolling \/ PoolShutDown
  BY <1>5 DEF StartPolling, PoolShutDown
<1> QED
  BY <1>1, <1>2, <1>3, <1>4, <1>5 DEF DispatchStep

-----------------------------------------------------------------------------
(* How jobs move.                                                          *)

\* One job is launched, recalled from an earlier run, taken up by a worker, over, or settled.
Moves(j) ==
    /\ \A k \in Jobs \ {j} : work'[k] = work[k] /\ outcome'[k] = outcome[k]
    /\ \/ /\ j \in todo /\ work[j] = "idle" /\ work'[j] \in {"queued", "running"}
          /\ outcome'[j] = outcome[j]
       \/ /\ j \in todo /\ work[j] = "idle" /\ work'[j] = "done"
          /\ outcome'[j] = "memoized"
       \/ work[j] = "queued" /\ work'[j] = "running" /\ outcome'[j] = outcome[j]
       \/ work[j] = "running" /\ work'[j] = "exited" /\ outcome'[j] = outcome[j]
       \/ /\ work[j] \in {"running", "exited"} /\ work'[j] = "done"
          /\ outcome'[j] \in {"success", "allowed", "hard"}

LEMMA DispatchMoves ==
    ASSUME BatchTypeOK, EngineInv, NEW stop \in BOOLEAN, DispatchStep(stop)
    PROVE  UNCHANGED <<work, outcome>> \/ \E j \in Jobs : Moves(j)
<1> USE DEF BatchTypeOK, EngineInv, Moves
<1>1. CASE \E j \in Jobs : Memoize(j)
  BY <1>1 DEF Memoize
<1>2. CASE \E j \in Jobs : SerialStart(j)
  BY <1>2 DEF SerialStart
<1>3. CASE \E j \in Jobs : \E e \in Endings, mutated \in BOOLEAN :
              SerialFinish(j, e, mutated, stop)
  BY <1>3 DEF SerialFinish, Classify
<1>4. CASE \E j \in Jobs : \E e \in Endings : SerialCollectFails(j, e)
  BY <1>4 DEF SerialCollectFails
<1>5. CASE \E j \in Jobs : Submit(j)
  BY <1>5 DEF Submit
<1>6. CASE \E j \in Jobs : Reap(j)
  BY <1>6 DEF Reap, Classify
<1>7. CASE StartPolling \/ PoolShutDown \/ \E j \in Jobs : ReapCollectFails(j)
  BY <1>7 DEF StartPolling, PoolShutDown, ReapCollectFails
<1> QED
  BY <1>1, <1>2, <1>3, <1>4, <1>5, <1>6, <1>7 DEF DispatchStep

LEMMA WorkerMoves ==
    ASSUME BatchTypeOK, WorkerStep
    PROVE  /\ outcome' = outcome /\ InPool # {}
           /\ \/ \E j \in InPool : Moves(j)
              \/ work' = [j \in Jobs |-> IF j \in InPool THEN "exited" ELSE work[j]]
<1> USE DEF BatchTypeOK, Moves, InPool, Running
<1>1. CASE \E j \in Jobs : WorkerStart(j)
  BY <1>1 DEF WorkerStart
<1>2. CASE \E j \in Jobs : \E e \in Endings : WorkerExit(j, e)
  BY <1>2 DEF WorkerExit
<1>3. CASE PoolBreaks
  BY <1>3 DEF PoolBreaks
<1> QED
  BY <1>1, <1>2, <1>3 DEF WorkerStep

=============================================================================
