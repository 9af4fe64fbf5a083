----------------------------- MODULE TuiSession -----------------------------
(***************************************************************************)
(* tui/app.py and tui/orchestrator.py: a session of the terminal           *)
(* interface.  Threads run the pipeline, stage by stage, or one job of it, *)
(* and report to the event loop of the screen in two ways: the state of a  *)
(* job is posted, and handled when its turn comes; what concerns the whole *)
(* pipeline is called on the event loop at once, and overtakes what is     *)
(* posted.  Meanwhile the user cancels and restarts.  The output of jobs,  *)
(* the summary line, copying and quitting are left out.  So is the button  *)
(* that cancels one job: it kills a worker of the pool, and what comes of  *)
(* that is among the ends of a job and of a run that are possible anyway.  *)
(***************************************************************************)
EXTENDS Integers, Sequences, FiniteSets, SequencesExt

CONSTANTS
    Jobs,
    Pipelines,     \* the pipelines considered
    MaxRuns,       \* bound on the runs of the pipeline in the session
    MaxInlines,    \* bound on the single jobs that run at once
    MaxMessages,   \* bound on the messages not handled yet
    None

Pipeline ==
    [ stages : Seq(Seq(Jobs)),
      when : [Jobs -> {"on_success", "on_failure", "always", "manual"}],
      parallel : BOOLEAN ]              \* more than one worker

ASSUME PipelinesAssumption == Pipelines \subseteq Pipeline
ASSUME BoundsAssumption == MaxRuns \in Nat \ {0} /\ MaxInlines \in Nat /\ MaxMessages \in Nat \ {0, 1}

VARIABLES
    pipeline,          \* never changes
    cancel_event,      \* of the orchestrator; the runs share it
    pipeline_success,  \* of the app: None until a run is over
    lit,               \* the jobs whose tab has the icon of "running"
    messages,          \* the posted JobStatusChanged: pairs of a job, and whether it runs
    run,               \* the threads of the pipeline: where each is, and what it has seen
    todo,              \* the jobs of the stage that each thread has not started
    running,           \* the jobs that each thread has started
    inline,            \* the threads that run one job: [job, at]
    ever_cancelled,    \* ghost: the user has cancelled
    orphans            \* ghost: the jobs of which a run that broke off never told the end

screen == <<pipeline_success, lit, messages>>
threads == <<run, todo, running>>
ghosts == <<ever_cancelled, orphans>>
vars == <<pipeline, cancel_event, screen, threads, inline, ghosts>>

JobsOf(P) == UNION {ToSet(P.stages[s]) : s \in DOMAIN P.stages}
Idle == [at |-> "idle", stage |-> 1, success |-> TRUE, failure |-> FALSE]
Launched == [Idle EXCEPT !.at = "loop"]
Active == {r \in 1..MaxRuns : run[r].at \notin {"idle", "over"}}

\* on_mount launches the first run.
Init ==
    /\ pipeline \in Pipelines
    /\ cancel_event = FALSE
    /\ pipeline_success = None /\ lit = {} /\ messages = << >>
    /\ run = [r \in 1..MaxRuns |-> IF r = 1 THEN Launched ELSE Idle]
    /\ todo = [r \in 1..MaxRuns |-> << >>] /\ running = [r \in 1..MaxRuns |-> {}]
    /\ inline = << >>
    /\ ever_cancelled = FALSE /\ orphans = {}

Post(j, runs) == Len(messages) < MaxMessages /\ messages' = Append(messages, <<j, runs>>)

-----------------------------------------------------------------------------
(* A run: StagePipelineRunner.execute_pipeline with TUICallbacks.          *)

\* filter_jobs_by_when
Selected(s, failure) ==
    SelectSeq(pipeline.stages[s],
              LAMBDA j : pipeline.when[j] \in {"always", IF failure THEN "on_failure" ELSE "on_success"})

Serial(r) == ~pipeline.parallel \/ Len(Selected(run[r].stage, run[r].failure)) = 1

Goto(r, place) == run' = [run EXCEPT ![r].at = place]

\* The head of the loop over the stages, and the same look at the event after the last one.
\* A run that was told to stop takes success = False with it.
Loop(r) ==
    LET s == run[r].stage IN
    /\ run[r].at = "loop"
    /\ \/ /\ cancel_event
          /\ run' = [run EXCEPT ![r].at = "cancelled", ![r].success = FALSE]
          /\ UNCHANGED todo
       \/ /\ ~cancel_event /\ s > Len(pipeline.stages)
          /\ Goto(r, IF /\ run[r].success
                        /\ \E j \in JobsOf(pipeline) : pipeline.when[j] = "manual"
                     THEN "paused" ELSE "closing")
          /\ UNCHANGED todo
       \/ /\ ~cancel_event /\ s <= Len(pipeline.stages) /\ Selected(s, run[r].failure) = << >>
          /\ run' = [run EXCEPT ![r].stage = s + 1]
          /\ UNCHANGED todo
       \/ /\ ~cancel_event /\ s <= Len(pipeline.stages) /\ Selected(s, run[r].failure) # << >>
          /\ Goto(r, "stage")
          /\ todo' = [todo EXCEPT ![r] = Selected(s, run[r].failure)]
    /\ UNCHANGED <<pipeline, cancel_event, screen, running, inline, ghosts>>

\* on_job_start: serially one job at a time, in a pool all of them
StartJob(r) ==
    /\ run[r].at = "stage" /\ todo[r] # << >> /\ (Serial(r) => running[r] = {})
    /\ todo' = [todo EXCEPT ![r] = Tail(@)]
    /\ running' = [running EXCEPT ![r] = @ \cup {Head(todo[r])}]
    /\ Post(Head(todo[r]), TRUE)
    /\ UNCHANGED <<pipeline, cancel_event, pipeline_success, lit, run, inline, ghosts>>

\* complete_memoized
Memoized(r) ==
    /\ run[r].at = "stage" /\ todo[r] # << >> /\ (Serial(r) => running[r] = {})
    /\ todo' = [todo EXCEPT ![r] = Tail(@)]
    /\ Len(messages) + 2 <= MaxMessages
    /\ messages' = messages \o << <<Head(todo[r]), TRUE>>, <<Head(todo[r]), FALSE>> >>
    /\ UNCHANGED <<pipeline, cancel_event, pipeline_success, lit, run, running, inline, ghosts>>

\* What the end of a job means for its stage, and for the run.
Ended(r, j, passed) ==
    /\ running' = [running EXCEPT ![r] = @ \ {j}]
    /\ todo' = [todo EXCEPT ![r] = IF Serial(r) /\ ~passed THEN << >> ELSE @]
    /\ run' = [run EXCEPT ![r].success = @ /\ passed]

\* (mutant) the serial loop breaks before it calls on_job_complete
EndJobBreaking(r, j) ==
    /\ j \in running[r] /\ (Serial(r) \/ todo[r] = << >>)
    /\ \E passed \in BOOLEAN :
          /\ Ended(r, j, passed)
          /\ IF Serial(r) /\ ~passed THEN UNCHANGED messages ELSE Post(j, FALSE)
    /\ UNCHANGED <<pipeline, cancel_event, pipeline_success, lit, inline, ghosts>>

\* on_job_complete; results of a pool are looked at once all its jobs are submitted
EndJob(r, j) ==
    /\ j \in running[r] /\ (Serial(r) \/ todo[r] = << >>)
    /\ \E passed \in BOOLEAN : Ended(r, j, passed) /\ Post(j, FALSE)
    /\ UNCHANGED <<pipeline, cancel_event, pipeline_success, lit, inline, ghosts>>

\* A stage in which a job failed, allowed to or not, is followed by on_failure jobs.
EndStage(r) ==
    /\ run[r].at = "stage" /\ todo[r] = << >> /\ running[r] = {}
    /\ \E warned \in BOOLEAN :
          run' = [run EXCEPT ![r].at = "loop", ![r].stage = @ + 1,
                             ![r].failure = @ \/ ~run[r].success \/ warned]
    /\ UNCHANGED <<pipeline, cancel_event, screen, todo, running, inline, ghosts>>

\* Anything raised outside of the scripts of a job: the artifact store, a broken pool, ...
Crash(r) ==
    /\ run[r].at = "stage"
    /\ run' = [run EXCEPT ![r].at = "closing", ![r].success = FALSE]
    /\ orphans' = orphans \cup running[r]
    /\ todo' = [todo EXCEPT ![r] = << >>]
    /\ running' = [running EXCEPT ![r] = {}]
    /\ UNCHANGED <<pipeline, cancel_event, screen, inline, ever_cancelled>>

\* PipelineApp.on_pipeline_cancelled
ShowCancelled ==
    /\ pipeline_success' = FALSE
    /\ lit' = {}

\* on_cancelled, then the finally clause
OnCancelled(r) ==
    /\ run[r].at = "cancelled" /\ Goto(r, "closing")
    /\ ShowCancelled
    /\ UNCHANGED <<pipeline, cancel_event, messages, todo, running, inline, ghosts>>

\* on_pipeline_awaiting_manual
AwaitManual(r) ==
    /\ run[r].at = "paused" /\ Goto(r, "closing")
    /\ pipeline_success' = TRUE
    /\ UNCHANGED <<pipeline, cancel_event, lit, messages, todo, running, inline, ghosts>>

\* TUICallbacks.on_pipeline_complete looks at the event ...
Close(r) ==
    /\ run[r].at = "closing"
    /\ Goto(r, IF cancel_event THEN "ending cancelled" ELSE "ending")
    /\ UNCHANGED <<pipeline, cancel_event, screen, todo, running, inline, ghosts>>

\* (mutant) ... and leaves a cancelled run to on_cancelled
CompleteUnlessCancelled(r) ==
    /\ run[r].at \in {"ending", "ending cancelled"}
    /\ run' = [run EXCEPT ![r] = [Idle EXCEPT !.at = "over"]]
    /\ \/ /\ run[r].at = "ending"
          /\ pipeline_success' = run[r].success
       \/ /\ run[r].at = "ending cancelled"
          /\ UNCHANGED pipeline_success
    /\ UNCHANGED <<pipeline, cancel_event, lit, messages, todo, running, inline, ghosts>>

\* ... and then calls on_pipeline_cancelled or PipelineApp.on_pipeline_complete.
Complete(r) ==
    /\ run[r].at \in {"ending", "ending cancelled"}
    /\ run' = [run EXCEPT ![r] = [Idle EXCEPT !.at = "over"]]
    /\ \/ /\ run[r].at = "ending"
          /\ pipeline_success' = run[r].success
          /\ UNCHANGED lit
       \/ /\ run[r].at = "ending cancelled"
          /\ ShowCancelled
    /\ UNCHANGED <<pipeline, cancel_event, messages, todo, running, inline, ghosts>>

RunStep(r) ==
    \/ Loop(r) \/ StartJob(r) \/ Memoized(r) \/ EndStage(r) \/ Crash(r)
    \/ OnCancelled(r) \/ AwaitManual(r) \/ Close(r) \/ Complete(r)
    \/ \E j \in Jobs : EndJob(r, j)

-----------------------------------------------------------------------------
(* A single job: TUIOrchestrator.run_job_inline.                           *)

InlineStart(n) ==
    /\ inline[n].at = "launched"
    /\ inline' = [inline EXCEPT ![n].at = "running"]
    /\ Post(inline[n].job, TRUE)
    /\ UNCHANGED <<pipeline, cancel_event, pipeline_success, lit, threads, ghosts>>

InlineEnd(n) ==
    /\ inline[n].at = "running"
    /\ inline' = RemoveAt(inline, n)
    /\ Post(inline[n].job, FALSE)
    /\ UNCHANGED <<pipeline, cancel_event, pipeline_success, lit, threads, ghosts>>

-----------------------------------------------------------------------------
(* The event loop and the user.                                            *)

\* on_job_status_changed
Deliver ==
    /\ messages # << >> /\ messages' = Tail(messages)
    /\ LET j == messages[1][1] IN lit' = IF messages[1][2] THEN lit \cup {j} ELSE lit \ {j}
    /\ UNCHANGED <<pipeline, cancel_event, pipeline_success, threads, inline, ghosts>>

\* action_cancel_pipeline
Cancel ==
    /\ ~cancel_event
    /\ cancel_event' = TRUE /\ ever_cancelled' = TRUE
    /\ UNCHANGED <<pipeline, screen, threads, inline, orphans>>

\* What action_restart_pipeline does past its guard: reset, then one more thread.
Relaunch ==
    /\ cancel_event' = FALSE /\ pipeline_success' = None
    /\ lit' = {}
    /\ \E r \in 1..MaxRuns :
          /\ run[r].at = "idle" /\ \A q \in 1..(r - 1) : run[q].at # "idle"
          /\ run' = [run EXCEPT ![r] = Launched]
    /\ UNCHANGED <<pipeline, messages, todo, running, inline, ghosts>>

\* (mutant) a restart that does not ask whether the pipeline is running
RestartUnasked == Relaunch

\* action_restart_pipeline: not while pipeline_success is None and is_running()
Restart == (pipeline_success # None \/ cancel_event) /\ Relaunch

\* action_restart_job, for whichever tab is active
RestartJob(j) ==
    /\ Len(inline) < MaxInlines /\ j \in JobsOf(pipeline) /\ j \notin lit
    /\ inline' = Append(inline, [job |-> j, at |-> "launched"])
    /\ UNCHANGED <<pipeline, cancel_event, screen, threads, ghosts>>

Next ==
    \/ \E r \in 1..MaxRuns : RunStep(r)
    \/ \E n \in DOMAIN inline : InlineStart(n) \/ InlineEnd(n)
    \/ Deliver
    \/ Cancel \/ Restart \/ \E j \in Jobs : RestartJob(j)

Spec == Init /\ [][Next]_vars

\* The threads go on, given that the scripts of jobs end, and so does the event loop; the
\* user need not do anything.
FairSpec == Spec /\ WF_vars(Deliver) /\ \A r \in 1..MaxRuns : WF_vars(RunStep(r))

-----------------------------------------------------------------------------
(* Properties.                                                             *)

\* The guard of Restart looks at pipeline_success and at the cancel event, never at the
\* threads.  Still, two runs of the pipeline execute at once only if the user has cancelled
\* one, or may restart between on_pipeline_awaiting_manual and on_pipeline_complete.
OneRunAtATime ==
    \/ Cardinality(Active) <= 1
    \/ ever_cancelled
    \/ \E j \in JobsOf(pipeline) : pipeline.when[j] = "manual"

\* Once every thread has ended and every message is handled no tab shows a job as running,
\* in whatever order cancellations, restarts, messages and calls came; but for the jobs of a
\* run that broke off, of which nothing more is told.
NothingLooksRunning ==
    Active = {} /\ messages = << >> /\ inline = << >> => lit \subseteq orphans

\* The user who cancels a running pipeline is told that it is over, even if the last look at
\* the event was before; unless it is restarted first.
CancelIsShown == (cancel_event /\ pipeline_success = None) ~> (pipeline_success # None \/ ~cancel_event)
=============================================================================
