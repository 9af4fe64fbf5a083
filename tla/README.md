# A TLA+ model of bitrab

bitrab runs a GitLab CI pipeline on the local machine. It loads
`.gitlab-ci.yml`, turns it into a list of jobs, and runs them stage by stage or
along the graph of their `needs:`, one after the other or in a pool of threads
or processes. This directory models the parts that decide what runs, when, over
what, and what is told of it; TLC checks the models on small instances and TLAPS
proves theorems about them for any. The modules are translated
from the sources in `src/bitrab`; `PROJECT.json` names the lines behind every
definition.

## The system

| part | source | state it keeps | operations |
|---|---|---|---|
| dispatch engine | `execution/stage_runner.py` `BaseRunner` | completed jobs, pool, futures, outcomes | run a batch serially, submit, reap, memoize |
| stage runner | `StagePipelineRunner` | stage index, failure so far, first error | filter by `when:`, run a stage, call back |
| DAG runner | `DagPipelineRunner`, `graphlib` | sorter, failed jobs, first error | build the graph, take the ready jobs, run a batch |
| job executor | `execution/job.py` | attempt, last exception, deadline | lock a resource group, run scripts, retry, save caches |
| shell | `execution/shell.py` `run_bash` | bash process, pipes, timer thread | stream, kill at the timeout, judge |
| file lock | `utils/filelock.py` | one lock file per name | poll, release; dropped when the process dies |
| artifacts | `execution/artifacts.py` | `.bitrab/artifacts/<job>` | collect after a job, inject before one |
| cache store | `execution/cache.py` | generations per key, a pointer to the latest | restore, stage, publish, collect garbage |
| fingerprints | `execution/fingerprint.py` | one record per job | prepare, check, record |
| worktrees | `git_worktree.py` | `.bitrab/worktrees/<job>` | create, remove, prune |
| TUI | `tui/orchestrator.py`, `tui/app.py` | cancel event, output queue, worker pids | cancel, restart, cancel one job, drain output |
| CI mode | `tui/ci_mode.py`, `CIFileCallbacks` | log table of the stage | print the logs of a stage |
| events, run log | `execution/events.py`, `folder.py` | event list, `.bitrab/logs` | collect, summarise, persist, clean |
| watch | `watch.py` | time of the last trigger | run again on a save |
| configuration | `config/*`, `plan.py`, `changes.py` | none (pure) | include, interpolate, extend, expand, filter, rules, validate |
| vendored includes | `vendor.py`, `include_cache.py` | lock file and store of snapshots | vendor, verify, resolve |
| command line and output | `cli.py`, `console.py`, `graph.py`, `hooks.py` | none | parse, print |

**How they interact.** `plan.LocalGitLabRunner` builds the pipeline and hands it
to a runner. The runner calls the pipeline callbacks (printing, TUI, CI files,
event collector) in the dispatching thread, asks the fingerprints whether a job
may be skipped, injects artifacts, and calls the job executor directly or
through a pool worker, which may first make a worktree. The executor takes file
locks shared with other executions and other bitrab processes, restores and
saves caches, and calls the shell. The TUI's thread and the runner share the
cancel event and the output queue. Watch mode calls the whole of this again and
again in the thread that delivers file events. Everything under `.bitrab` is
shared with other bitrab processes and outlives the one that wrote it.

**What is hard.** Futures resolve in any order while the dispatching thread
decides who failed and what may run next; a pool may break and an artifact
store may fail in the middle of a batch; a cancel arrives at any moment; jobs
contend for resource groups across processes that may be killed; one deadline
spans all attempts of a job and its after_script; the timer thread, bash and
bash's children race for the verdict. Caches, checkouts, fingerprints and
vendored includes are left behind half written by whoever is killed, and found by
the next. The screen is told of a run through two channels that overtake each
other. Servers and files change while they are read one by one. `PROJECT.json` lists
these as hazards, each at its line, with the properties that are there for it.

**What correctness means, part by part.**

* runners: stages and dependencies are barriers, `when:` is decided on the right
  past, success is never reported over a hard failure or a job in flight, no job is
  forgotten without a reason, every run ends and is reported once;
* artifacts: a job sees the outputs of every job it depends on; a recorded
  fingerprint stands for outputs that are in the store;
* executor: a resource group is serialized but for what a killed execution leaves running,
  every attempt is justified by the retry section, the verdict is that of the last attempt, and
  the caches that this verdict asks for are saved unless saving fails;
* shell: a killed script is a timeout, a timer that was called off kills nothing;
* cache store: one register per key, whoever is killed; what lies about in it besides is
  accounted for by jobs that were killed and by what rmtree cannot remove;
* fingerprints: a job is skipped only on the inputs with which it succeeded, and is
  skipped when nothing has changed, but for three named cases;
* worktrees: of what killed runs leave behind only a directory that cannot be deleted and a
  registration left locked keep a job from its checkout;
* TUI: one run at a time, no tab that looks running for ever, a cancel is shown;
* watch: no save of a watched file is lost;
* configuration: the last layer that gives a value wins, a bad `extends:` is refused,
  `--changed` keeps exactly what a change reaches;
* vendored includes: a snapshot is complete, and a locked include is used as locked.

## Modules

| module | models | extends |
|---|---|---|
| `PipelineSpec` | the promise of a run: precedence, one settlement per job, a truthful verdict | |
| `BaseRunner` | one batch: serial loop, pool, workers, artifacts, memoization | |
| `StageRunner` | `StagePipelineRunner.execute_pipeline` around the batches | `BaseRunner` |
| `DagRunner` | `build_dag`, `TopologicalSorter`, `DagPipelineRunner.execute_pipeline` | `BaseRunner` |
| `JobExecutor` | concurrent executions of one job each, with the lock of their group | |
| `Shell` | `run_bash` in streaming mode | |
| `CacheRegister` | the promise of the cache: a register per key | |
| `CacheStore` | `execution/cache.py` over `FileLock`: restores, saves, crashes | |
| `Incremental` | several runs over one record store: `FingerprintManager` and its callers | |
| `TuiSession` | a session of the terminal interface: runs, messages, cancel, restart | |
| `RemoteIncludes` | `bitrab vendor` beside loads of a configuration | |
| `Worktrees` | checkouts of parallel jobs, leftovers, `folder clean` | |
| `Planning` | from a configuration to the jobs of a run | |
| `Watch` | `bitrab watch` | |
| `BaseRunnerProofs` | lemmas about one batch, for both runners | `BaseRunner` |
| `StageRunnerProofs`, `DagRunnerProofs` | theorems | the module they are named after, `BaseRunnerProofs` |
| `CacheStoreProofs`, `IncrementalProofs`, `TuiSessionProofs` | theorems | the module they are named after |
| `JobExecutorProofs` | theorems | `JobExecutor`, `Shell` |
| `PreparationProofs` | theorems | `RemoteIncludes`, `Worktrees`, `Watch`, `Planning` |
| `MCStageRunner`, `MCDagRunner`, `MCJobExecutor`, `MCCacheStore`, `MCIncremental`, `MCTuiSession` | the configurations over which TLC checks them | the module they are named after |
| `MCPreparation` | four parts side by side, and their configurations | `RemoteIncludes`, `Worktrees`, `Watch`, `Planning` |

### BaseRunner, StageRunner, DagRunner

`work[j]` follows a job: `idle`, `queued` (submitted to the pool), `running`,
`exited` (its future is resolved), `done` (the runner has its outcome).
`options` is how the runner was configured and which failures may happen around it.
`mode` is where the dispatching thread is in `run_jobs_serial` (`serial`) or in
`run_jobs_parallel` (`submitting`, `polling`, `draining` when an exception waits
for the pool to shut down, `raised`). An execution of a job ends in one of four
ways (`Endings`), told apart by what `is_failure_allowed` can see of them;
`Transported` is what a process boundary leaves of them.

Each `if`, early return and `except` of `execute_pipeline` is an action or a
disjunct: `CheckCancelled`/`CheckPassed` are the head of the loop,
`FilterStage`/`TakeReady` choose the batch, `Dispatch` and `Worker` are the steps of
`BaseRunner`, `CompleteStage`/`CompleteBatch` do the bookkeeping,
`StageRaises`/`BatchRaises` are the `except` clause, `LastStageDone`/`LastBatchDone`
what follows the loop, `Finally` the `finally` clause. `Cancel` is the other thread.
A batch walks a set where the code walks a list: any order of a set is the
order of some configuration file, so nothing is lost.

Both runners implement `PipelineSpec` under a refinement mapping: `before` is the
earlier stages or the predecessors in the graph, `status` is read off `work`,
`outcome` and the progress of the loop, `verdict` off `success` and `pc`.

Left out: the dry run (nothing is executed), dotenv reports (they follow the
artifacts), an exception of a callback or of an injection, a pool that breaks while
jobs are still being submitted, and jobs whose stage is not in `stages:`.

### JobExecutor

Each execution has the program counter of `execute_with_context`: waiting for the
group's lock, restoring, attempting (before_script, script), the `finally` clause with
after_script, and the decision to retry. A script is entered (`..._run`) only while the
deadline has not passed. `leaving` and `exc` are what the `try` statement is being
left with, which after_script may replace. Delays between attempts are not
modelled. before_script and script share one result per attempt because one
handler deals with both.

`cache` is the list of the job's entries, of which `Due` are those to be saved under a verdict; an error at
one of them leaves those before it saved (`SavedInPart`), and what raised it decides whether the list is
gone through again, under the other verdict. `saves` records these calls. `Die` is the death of the
process: its file lock is free at once, but a bash that it has started goes on (`orphans`) until `OrphanEnds`.
A kill of the whole process group is `Die` followed at once by `OrphanEnds`.

### Shell

`caller` is the thread in `run_bash`, `timer` the thread `kill_on_timeout`. `PipeClosed`
is when the streaming threads reach the end of their pipes: a command that bash
has started holds them, unless output was redirected before. The script may exceed
the pipe's buffer, then writing it waits for bash.

### CacheStore, CacheRegister

`pc[j]` walks `restore_caches`, the script (`Work`: any files, any verdict) and
`save_caches`, entry by entry of the job's `cache:` section. An entry's key is a string
or what its key files contain at that moment, in the job's own tree, so a job may save
under another key than it restored. A restore takes the lock of the key (or gives up,
`RestoreSkipped`), reads the pointer, and copies file by file; a save stages its files
without the lock, and under it renames (`Publish`), writes the new pointer beside the old one
(`WritePointer`), puts it in place (`Point`) and removes the
superseded generations one by one (`Collect`), of which rmtree may fail to remove some (`stuck`). `Die` may
come between any two steps; it leaves what it finds: the directory staged under `.tmp`, the pointer that is
not in place (`pointers`), and generations that nothing points to. `broken` remembers, for the
properties, who was killed while publishing since the last publication that ended. The
refinement maps a register's value to what the pointer leads to. Errors of the disk other than that of rmtree
(one of them ends `publish_generation` by an exception, leaves behind at most what a kill at the same place does, and
goes on in `JobExecutor` as `SavedInPart`), and keys that become one name when sanitized, are left out.

### Incremental

`run[p]` is a bitrab process with its mode; `computed`, `digest` and `calls` are what its
`FingerprintManager` has memoized and the calls of `fingerprint_for` it is in, with the files that each
of them has read. `Reach` is the moment at which a runner asks about a job: it reads the job's files
(`Call`), then calls itself for the jobs upstream that the memo does not have (`Descend`), and each
call that returns (`Return`) puts a fingerprint of the files read *then* into the memo; with the
first of them the job is cached or started. A look at the record that another run keeps locked
(`LockedOut`) is a miss. A `when: manual` job is never reached, and its fingerprint is
computed when another job asks for it. `Finish` collects what there is to collect (`Collected`: the directory, and the
dotenv report, which the scripts may not have written, after which no check finds it), `Record` writes the record
or, locked out of it, does without (`"unrecorded"`), and other processes, edits and cleanings come between any two of these steps. A fingerprint is the record
of what its hash covers, so two are equal when no input differs. What jobs write into the project is left
out; they change no input files.

### TuiSession

`run[r]` is a thread that executes `StagePipelineRunner.execute_pipeline` with
`TUICallbacks`; it posts the state of jobs (`messages`, handled by `Deliver` in
order), and calls the event loop for the rest (`call_from_thread`: at once, overtaking what is posted).
`Cancel`, `Restart` and `RestartJob` are the user's. The threads share one `cancel_event`,
which `reset` clears. Left out: the output of jobs, copying, quitting, and the
button that kills one worker, whose effects on the screen are among the ends of a job anyway.

### RemoteIncludes

A process is a `vendor`, which holds the lock and fetches breadth-first (`Fetch`), writes the payloads
one by one (`WritePayload`) and the lock file last (`WriteLock`), or a load, which takes
each URL from the snapshot (`ReadVendored`), from a fresh entry of the include cache or from the
server (`FetchRemote`). Servers publish new versions, whose includes differ, files are edited,
processes are killed at any step. A checksum is the version it is the checksum of. What `check_vendor`
reaches, by a loop over a worklist, is stated as what that loop computes: the least set that
has the roots and, with a locked URL whose file is valid, what that file includes (`Reached`).

### Worktrees

A worker looks whether something is in its way (`Look`), removes it (`RemoveWorktree`, `Unregister`: git deletes the
directory first; `Rmtree`, which ignores errors), prunes, adds, works, and removes its checkout in the same way
(`leaving`). `git worktree add` is three steps: it registers the worktree and locks the registration (`Add`),
writes the files (`Checkout`), unlocks (`Unlock`). `KillWorker` takes the git command or the script with it or
leaves it to go on alone (`alive` is false): it then finishes the command it is in and no more. A directory in
which a job has left something that cannot be deleted is `stuck`. A cleanup prunes first
and removes the directories later. That git fails for other reasons (a full disk, no commit yet) is left out.

### Planning

`phase` walks `run_pipeline` from `workflow:` to the jobs a runner gets, one action per step; actions
and operators carry the names of the methods (`process_job`, `expand_parallel_jobs`,
`resolve_expanded_needs`, `filter_pipeline`, `evaluate_rules`, ...). Two steps recurse or loop in the
code, and are several actions here:

* `resolve_extends` calls `resolve_one` for each block, which calls itself for each parent. `chain` is
  the stack of these calls, each with the parents it has merged so far: `StartResolve`, `ResolveParent`
  (the recursive call, or the error for a parent that is unknown or already in the stack), `MergeParent`,
  `ResolveReturns`. Blocks start in any order; the code takes that of the file.
* `select_changed_jobs` works through a list of names. `SelectChanged` puts the touched jobs into
  `selected`, and each `SelectDependents` adds what needs one of them, until nothing is added.

`variables` stands for the keys that are merged, `before_script`, `needs` and the like for those
replaced as a whole. `if:` is a sequence of comparisons, `&&` and `||`, of which the comparisons hold or not; a
glob is the set of files it matches. `Unset` is what a file or an option does not give. The order of jobs
matters to no step, so they are a set.

The properties are stated by definitions of their own: `Inherited` and `Overlaid` (a value is that of
the last layer that has one, layers taken all at once), `Holds` (an `if:` as it reads, with
nothing split), and closed sets of names (a circle of `extends:`, what a change reaches).

### Watch

`stage` follows `run_watch`. A run loads the root file and its includes depth-first as they
are at that time (`LoadFile`), and may end at any point. `OnModified` is executed by the thread that
runs, so events wait in `queue`; `recent` is true for a second after a *trigger*.

## Runs

Each run covers a family of settings: a constant of the module is a set of
configurations, and the initial states range over it.

| run | settings | what it shows |
|---|---|---|
| `StageSafety` | 3 jobs, in 2 stages or one in each of 3: every `stage`, `when:` (4) and `allow_failure` (2) with 1 and with 2 threads; every placement, artifact policy and one `dependencies:` list in worktrees under `--incremental`; a process pool that breaks over a store that fails, in worktrees too | barrier, `when:`, truthful success, first error, nobody forgotten, callback protocol, inputs, fingerprints |
| `StageTime` | the failing pool and store, fair | refinement of `PipelineSpec`, end of every run |
| `Dag` | 3 jobs, fair: acyclic and mixed graphs with a removed name and every `when:`, with 1 and with 2 threads; artifacts along the edges in worktrees; `always` jobs over a store that fails; and every graph, cyclic ones too, over the failing pool and store | precedence, `when:`, nobody forgotten, refinement of `PipelineSpec`, end of every run |
| `Executor` | 1 execution with every configuration and lists of up to 3 caches, 2 of one group; kills and failing caches, fair; beside them a script of 3 commands | attempts, verdict, caches, serialization, no waiting for ever; the race of timer and bash |
| `CacheStore` | 2 jobs, 2 files, 2 entries; kills, lock timeouts and failing removals anywhere | no dangling pointer, whose the litter is, refinement of `CacheRegister` |
| `Incremental` | a chain of 3 stages, the chain with its first two jobs manual, and a pair in one stage; 2 processes, 3 runs, every mode, serial and parallel, kills, 1 edit or cleaning | a hit is earned, nothing is redone but in the named cases |
| `Session` | 2 jobs: a serial pipeline with a manual job, a parallel one; 2 runs, 1 single job, fair | one run at a time, no tab stays running, a cancel is shown |
| `Preparation` | four independent parts side by side: loads beside `vendor`; worktrees; plans; watch | snapshots, leftovers, layers, `extends:`, `--changed`, saves |

A cancel is possible at any moment of every run of a runner. The behaviours of `Preparation`
move the part that `part` names and leave the others where they began, so
its state graph is those of the four side by side and not their product.
The parts of `Executor`, `JobExecutor` and `Shell`, stand side by side in the same way.
`CacheStore`, `Incremental`, `Session` and `Preparation` do not check deadlock: their
jobs, runs, edits and messages are bounded, and a behaviour that has used them up has ended.

Bounds. Three jobs in two stages are enough for one job to be before, beside and
after another at once, with a pool of two workers full and a third job queued; three stages of
one job each let what happened in the first reach the last over a stage that had nothing to do with it.
Three nodes are the smallest graph with a transitive dependency, a join, and cycles of
length one, two and three. Two retries give a first, a middle and a last attempt; two exit codes
one that is retried and one that is not. Three caches, with each `when:`, are one before the one that
fails and one behind it, under either verdict. Two executions contend for one lock, and a killed one leaves a script
beside the other. Three
commands are one before, one during and one after a redirection or a kill.
Two jobs with two entries each let a restore copy while two saves supersede each other, and
let an entry be keyed by a file that the job rewrites; three publications under one key let the last
find what two deaths have left. A chain of three stages
has a dependency that is only indirect, and, when the jobs before the last are manual, three calls of
`fingerprint_for` in one another; two processes over it one after another, and
side by side over the pair, make a record older than, newer than and written during a
run, or locked by the other; of side-by-side runs of the chain nothing new comes but states, so only those of the pair
(`Beside`) overlap, and its starts, edits and cleanings together are three. Two runs are the
cancelled one and the one restarted over it; two messages are one that is handled and one that
is overtaken. Two URLs whose second versions include each other make the snapshot grow while it
is fetched (the second server starts with its first version, the first with either); two processes are a `vendor` and a
load, or two of either; a third start finds
what two have left. Two workers over two names share a directory or do not, and a third one spawned finds what is left
of one killed and of the git command that outlived it. In watch mode three
saves are one that triggers, one during the run, and one in the window or after it; three files
one that is always included, one at times, and one reached twice. The plans range over five places
that give a variable, with and without a rule and a node of a matrix that give it too; over `extends:` among two
jobs and a template that nest, share a template, are circular or name a block that does not exist; and
over `needs:` among three jobs with and without `parallel:`, circles and names of
instances included, with each file changed.
The settings of `StageSafety`, the processes and contents of `Incremental` and the processes of
`Preparation` are closed under permutation and used for symmetry; no run with a
liveness property uses any.

Four runs end in a violation, on purpose: each checks a sentence of the repository,
and TLC shows the behaviour of the code that contradicts it (`findings` in
`PROJECT.json`):

| run | sentence that does not hold |
|---|---|
| `StageDocExitCodes` | an allowed exit code does not fail the pipeline (process backend, parallel) |
| `ShellDocTimeout` | the timeout bounds the time a job may run |
| `StageDocAllowedFailure` | only a hard failure stops later `on_success` work |
| `WorktreesDocLeftovers` | what a crashed run has left is removed before a worktree is created |

Definitions marked `(mutant)` are slips of the definition that follows them. Putting
one in its place makes TLC refute the property `PROJECT.json` names beside it, so
every property is known to be able to fail. `TypeOK` of `StageRunner`, `BaseRunner` and
`CacheStore` is proved and therefore not among the properties of a run.

### Other differences between documentation and code

Met while translating, visible in the modules or in what their properties except, and
not worth a run of their own.

Running:

* `docs/developer/execution-model.md:76`: "stops stage-mode execution on the first
  hard failure". `CompleteStage` goes on; `always` and `on_failure` jobs of later stages run.
* `stage_runner.py:781`: `failed_jobs` are "jobs that hard-failed". Line 850 adds the allowed failures, so in DAG mode
  too an `on_success` job is left out behind one (`LeftOutBehindAllowed`); `StageDocAllowedFailure` shows this of stage
  mode, and `NobodyForgotten` of both runners names it as the one reason to leave a job out that no document gives.
* `docs/concepts.md:87`: `on_success` runs when prior required work succeeded. In DAG mode
  a skipped need is marked done and is no failure (`TakeReady`), so a job behind it runs.
* `docs/running.md:39`: jobs are released as soon as their `needs:` are satisfied. The
  sorter is asked again only after the whole batch was reaped (`CompleteBatch`).
* `stage_runner.py:140`: `on_pipeline_awaiting_manual` is called when manual jobs remain. The
  DAG runner never calls it.
* `stage_runner.py:79`: `on_pipeline_complete` is called once. A cyclic graph raises
  after `on_pipeline_start` and before the `try` statement (`BuildDag`).
* `stage_runner.py:643`: a job whose stage is not in `stages:` never runs, and nothing says so.
* `stage_runner.py:283`: an error while the outputs of a worktree are collected is only
  printed, and the fingerprint is recorded all the same. `RecordedIsUsable` excepts this.
* `docs/differences.md:78`: a `resource_group` serializes jobs across runs. The lock goes with a killed process and not
  with its bash, so the script of a killed job may run beside the next of its group. `GroupSerialized` excepts
  this one script.
* `cache.py:372`: caches are saved in a loop. An error at the second leaves the first saved; in a
  job whose script had passed it counts as a failure of the job, after which the caches are saved
  again, under the verdict `on_failure` (`SavedWithVerdict`).
* `job.py:285`: Ctrl-C during a script is caught like any failure, and the script may be retried.
* `cache.py:367`: `when:` gates the save on the job's outcome. The save comes before
  after_script, which may still make the job fail (`AfterRaises`).
* `docs/concepts.md:26`: after_script follows the script. After a timeout nothing of the
  deadline is left for it (`AfterRaises` with `"timeout"`).
* `plan.py:966`: the run log is written only when the runner did not raise, so a run
  whose job failed hard has none.
* `orchestrator.py:264` (CI files): the end of a stage prints every job of it that did not fail as
  a success, serial jobs that a failure kept from starting too; in DAG mode the
  starts of several stages precede one batch, and each empties the table of the one before.

Incremental runs and artifacts (`Incremental`):

* `docs/running.md:147`: failed jobs always re-run. A failing `--refresh` run leaves the
  record of an earlier success (`fingerprint.py:429`), and the next run hits it.
* `fingerprint.py:293` and `:430`: fingerprints are of the "pre-run state". They are computed
  when a job is reached (`Reach`), after the jobs before it have run.
* `artifacts.py:111`: what an earlier run left in the store is injected for a listed job that has
  not run in this one. A plain, a failed or a concurrent run replaces the outputs that
  a record stands for.
* A job runs again although nothing was touched when another run keeps its record locked, be it for reading it
  (`fingerprint.py:115`) or, in the run before, for writing it (`:148`, `"unrecorded"`, after which `settled` is not claimed); when it declares a dotenv report that its script
  did not write (`:423`); and when it has `artifacts: when: on_failure`, since a success leaves nothing to
  find. `NothingToRedo` excepts these.

Stores:

* `filelock.py:62`: the lock file is never deleted. `folder.py:408` deletes those of the
  cache with the cache.
* `cache.py:192`: superseded generations are collected by the next publication. What a killed save has under `.tmp`, or
  as `latest.*.tmp`, nobody collects, and a generation that rmtree cannot remove stays (`LitterIsOfKills`).
* A cache key `a.lock` is the lock file of key `a` (`cache.py:152`).
* `folder.py:454`: pruning keeps stale registrations from lingering. It is done before
  the directories are removed, so they stay until the next worktree is created.
* `git_worktree.py:130`: two runs, or two jobs whose names are sanitized alike, share a
  directory; the second removes the first one's checkout. `LeftoversNeverBlock` excepts this.
* `git_worktree.py:135`: what is left of a crashed run is removed first. A registration that was left locked is not
  (`WorktreesDocLeftovers`), nor is a directory that rmtree cannot delete (`:154`), of which `create_worktree` says
  nothing until `git worktree add` refuses it.
* `vendor.py:258`: "every remote include reachable". Local includes of a remote body, and URLs
  that are interpolated, are not followed.
* A `vendor` that is killed after a payload makes the snapshot unusable until it is repeated; a
  load during which one ends may mix two snapshots. `LockedOrNothing` excepts the latter.

Terminal interface (`TuiSession`):

* `app.py:405`: "Reset all UI state". `awaiting_manual` is never reset.
* `orchestrator.py:382`: a restart after a cancel clears the event that the old run
  has yet to see, so both go on. `OneRunAtATime` excepts this, and the moment between
  `on_pipeline_awaiting_manual` and `on_pipeline_complete`.
* The guard of a single job's restart looks at its icon, which lags; one job may run twice.
* `orchestrator.py:80`, `:389`: with the thread backend the process recorded for a job is bitrab.
* Two threads may empty the output queue, each writing what it took; lines may change places.

Watch mode (`Watch`, all excepted by `unnoticed`):

* `docs/running.md:157`: the pipeline is run again when a file changes. A save
  less than a second after the last trigger is dropped even if the run has loaded the file; one
  during the initial run, one that renames a new file over the old, and files that are
  included later, are not noticed.

Planning:

* `plan.py:194`: `workflow` is not among the reserved words, and becomes a job without a script.
* `rules: needs` is applied after `needs:` were expanded and after `--changed` has selected.
* A job named `x 1/2`, or with `: [` in its name, is taken for an instance of another one.

## Fairness

`FairSpec` of the runners assumes that the dispatching thread takes its next step
and that the workers do. The first is a plain loop that waits on nothing but
futures (with a 0.05 s poll), the second that every job's execution ends:
`JobExecutor` (`EveryExecutionEnds`) and `Shell` (`RunBashEnds`) show that it does when
its script does, and `ShellDocTimeout` that a timeout alone does not ensure it.
`JobExecutor` assumes each execution takes its steps, polling the lock included; two
executions are never kept from the lock for ever because each holder ends. `Shell`
assumes only its own threads, and a script that ends where `RunBashEnds` needs one.
`TuiSession` assumes the event loop, which handles one message after another, and the threads of runs,
for the same reason as above. The user, cancelling, dying and breaking are never fair. The other
modules claim safety only.

## Proofs

Eight modules prove theorems, each for every value of the constants that satisfies the
named assumptions of the module it extends. None of the safety properties is
inductive; each of them, and each invariant below, passed in a run of TLC before it was
proved. (Where an invariant quantifies over all sequences, TLC was given the
same statement about the fields.)

**`BaseRunnerProofs`** has what both runners need of the engine: that `Dispatch` and `Worker` keep the
types of a batch, what a step of a batch may touch, that an exception
leaves a batch with nothing in the pool, that a job is in one place at a time, and that a step which moves
one job is `Launch`, `Recall`, `End` or `Settle` of `PipelineSpec`.

**`StageRunnerProofs`**, for every set of jobs, number of stages, pipeline and
options (parallelism, backend, worktrees, failures): `TypeCorrect`,
`StageBarrierHolds`, `WhenIsHonoured`, `SuccessHolds`, `CallsFollowProtocol`,
`FirstFailureIsRaised`, `NobodyIsForgotten`, `RunnerImplementsSpec`, `InputsAreComplete`,
`RecordedAreUsable`. The invariant is built in layers.

1. `StageBarrier` does not say that a job in flight belongs to the current stage, so the
   step to the next stage could leave one behind. `BatchInv` adds what the engine and the
   loop keep true of each other: outside a batch nothing is in flight, in a batch only
   jobs of the current stage are, and `todo` holds jobs of that stage only.
   `BarrierInv` is `TypeOK /\ BatchInv`.
2. `WhenHonoured` says nothing of `prior_had_failure`, on which the filter relies.
   `PastInv` relates it to the failures of the earlier stages, says that a batch's
   outcomes are those of its stage, and that what is launched or still to be launched was selected.
   `BatchFrame` is what a step inside a batch may touch; every step of the dispatching
   thread and the workers is shown to respect it (`DispatchIsFramed`,
   `WorkerIsFramed`), and a step that does keeps the invariant (`FrameKeepsPast`).
3. `SuccessIsTruthful` is about the last call. `SuccessInv` ties it to the flag `success`
   and the flag to the outcomes: while it is true a hard failure can only be one of the batch
   that the loop has not looked at, and `CompleteStage` looks at all of them because of layer 2.
4. `CallProtocol` only speaks of the finished list; `CallInv` says what it is at each point of
   the method. `FirstFailureRaised` needs to know where `first_error` came from:
   `FirstInv` says that the remembered job failed in an earlier stage with no hard failure before it, and
   that while none is remembered a hard failure is one the loop has not looked at;
   `RaisingInv` relates the exception in flight to it.
5. `NobodyForgotten` is about the end. `AccountInv` keeps the account stage by stage: every job of a stage
   that is over was launched or has a reason not to be (`Accounted`), and in a batch a
   selected job is in `todo`, was launched, or was dropped by the serial loop
   (`BatchAccount`). The last clause of it is what a serial batch with
   several workers needs: it has one job, so its failure drops nobody.
6. The refinement of `PipelineSpec` needs one more fact: an exception leaves a batch
   with nothing in the pool, so no worker moves after the verdict. Going to
   the next stage is `Skip` of what was not launched (`AdvanceRefines`), and the finally clause is
   `Close` (`FinallyRefines`): it says "passed" over settled jobs only because of layers 3 and 5.
7. `InputsComplete` and `RecordedIsUsable` relate the inputs of a job and the store. `DataInv` says where the
   first come from and how the second gets there: only jobs that are over have
   outputs in the store, a job was submitted to the pool with every job of an earlier stage that has some, and a
   clean exit in a worktree has left its outputs before the runner hears of it. It needs the barrier: a job
   of the current stage is none of those that a launched job reads from.

**`DagRunnerProofs`**, for every set of jobs, every graph (cyclic ones and names without a job
included), pipeline and options: `DagTypeCorrect`, `PrecedenceHolds`, `WhenIsHonoured`,
`NobodyIsForgotten`, `DagImplementsSpec`. `GraphInv` relates the sorter to the batch: what was handed out is
in the batch or marked done, and was handed out when its predecessors were done. A skipped
job, a name without a job and a finished job are marked done by different branches, and
all must keep it. `OutcomeInv` says that `failed_jobs` is exactly the failures among what the
sorter has done, that what is launched has earned it by outcomes that cannot change any more,
and that what the sorter has done is accounted for. `EndInv` adds that a run which ends
without a cancel or an exception has used up the sorter, and `SuccessInv` is as in the stage runner. The proof of
`EndInv` showed that a run is also broken off when an exception leaves a batch *after* an earlier job failed
hard: then `first_error` is set and jobs are left out all the same. `Broken` says so, and
`Dag` has such runs.

**`JobExecutorProofs`**, for any number of executions, any jobs, retries and exit codes:
`GroupIsSerialized`, `AttemptsAreJustified`, `VerdictIsExplained`, `SavesAreTheVerdict`. `LockInv` adds that a member of the group at work is
the holder of the lock; three lemmas cover the ways a step may treat the lock (go on,
end, acquire), and each action is an instance of one of them. `OrphanInv` adds that scripts outlive dead executions only. `StoryInv` relates,
for each execution, the number of attempts to the number of results (`Counted`), every result
but the latest to the retry that followed it (`Justified`), and the way an attempt is being left
to what its script or after_script did (`Left`, `Explained`); each action is again an instance of
one of a few lemmas (a script ends, an execution goes on, fails before its first attempt, is quiet).
`SavesInv` says which calls of `save_caches` there were at each point of the `try` statement: while the verdict is
open only calls that were broken off and made their attempt fail (`Retold`), and once it is known one more, with that
verdict, complete or the cause of the end (`Closed`).

**`CacheStoreProofs`**, for any jobs, files, keys and entries: `StoreIsTyped`, `PointersAreLive`,
`StoreIsRegister`, the refinement of `CacheRegister`, and `LitterIsExplained`. Under the lock (`Exclusion`) a job that
copies holds what the live generation holds so far (`Copying`), and one that publishes has its
whole tree in a generation of its own (`Staging`), whose name is not in use (`Freshness`). Each
action is then `Save`, `Restore`, `Work` of the register, or a stutter. `Small` counts the generations that rmtree
has not failed on: a key has one, one more for each job killed in a publication since the last
that ended, and one more while somebody publishes under it, which `Collect` takes back or a death turns into one of
the dead; a publication that ends has removed them all, and so the count starts again. `Litter` says of
a staged directory and of a pointer not in place which save they belong to, so a job that is over has left none.

**`IncrementalProofs`**, for any pipelines, files, contents and number of runs: `IncrementalTypeCorrect`,
`HitsAreEarned`, `NothingIsRedone`, the latter but for the three cases that `NothingToRedo` names. A memo that is right is a *table* over what the files held
(`IsTable`): of each of its jobs it has the fingerprint over those files, and it has the jobs upstream.
Equal fingerprints, of whatever depth, were computed over equal inputs (`FingerprintsTellInputs`), and over
equal files two tables have equal fingerprints (`TablesAgree`). Both are shown by taking the first job, in the
order of the pipeline, of a set that would be the counterexample (`FirstJob`, from `LeastNat`).
`CalmInv` says that a run which nothing disturbs has a table over the files as they
are, and so have the calls it is in; that disturbing one disturbs all that are at work is its first conjunct, and
what makes it inductive. `StoreInv` and `BasisInv` carry this over to the records, of the present
and of earlier runs, and `SettledInv` from a good run to all that follow: the records are those of the files, and
of the artifacts no directory is missing that is kept on success.

`JobExecutorProofs` also has the theorems about **`Shell`**, for any number of commands: `KilledIsReported` and
`NobodyIsKilledLate`. The timer sets the flag before it kills, and the caller has seen bash end before
it reads the flag.

**`TuiSessionProofs`**, for every pipeline and any number of runs: `RunsAreSerial` and `TabsSettle`. `Restart` looks at flags,
never at threads; `FlagsAreTrue` says that they tell the truth while nobody has cancelled and no
job is manual. `NothingLooksRunning` is about a session at rest; `TabsInv` says at any time that a job which will be shown as
running once all messages are handled (`Told`) is being run by a thread that will say when it ends, or
is one of those of which nobody will (`Meant`).

**`PreparationProofs`** has four parts.
* For any URLs, contents and processes: `SnapshotsAreComplete`, `LockIsHonoured`, `CheckedLoadsSucceed`. While `vendor`
  runs, what it has fetched includes only what it has fetched or is about to fetch
  (`Complete`), and what it has written is what it has fetched (`Gathering`); nobody else writes meanwhile. A load stays
  `Honest`: it has used the locked version of what is locked, asks a server only for a URL that is not, and
  looks only for what is included (`Sought`: for what is in every set that is closed under inclusion). What
  `check_vendor` reaches is such a set, so a load finds all it looks for.
* For any workers and names: `NothingBlocks`. Two workers of one directory, or what is left of them, both
  know (`SharingIsKnown`), so a git command that has outlived its worker disturbs only who knows of it; and what an
  undisturbed worker has cleared away stays away, but for what is stuck or locked, as what git makes for it stays
  (`WayIsClear`).
* For any files, includes and number of saves: `EverySaveIsSeen`. At any time a file that the last run has
  loaded is as it was loaded, or was saved unnoticed, or is not watched, or its event waits and is
  not going to be dropped (`UpToDate`).
* For any blocks, rules, needs, options and repository: `ExtendsIsRefusedRightly`, `LastLayerCounts`,
  `ChangesReachFarEnough`. The one assumption, `RequestsAssumption`, is that `extends:` is a sequence of names
  and `rules:` a sequence of rules whose `if:` is one of tokens.
  `ExtendsInv` says of the blocks resolved so far that their parents were resolved before them, so that no
  set of them is a circle, and of the calls under way that each has merged its first parents and waits for the
  next call (`CallsNest`). A name that comes up twice is then a circle in the stack, and once all
  are resolved there is none. The recursion that defines `Inherited` has then the resolved blocks as
  its only solution (`InheritedIsResolved`): a block on which the two differ has a parent on which they
  differ, so the blocks on which they do would be a circle.
  `LayersInv` follows the layers: global variables with those of `workflow:` in each phase, and a job
  up to its node, because `rules:` comes later and adds the last layer (`RulesAddLayer`). Merging step by step gives
  the last layer that has a key (`LastLayerUpdates`), and splitting at `||` and then at `&&` what the
  text reads (`IfReadsAsText`).
  `ChangedInv` says of `selected` that it is below every set of names that has the touched jobs and what needs
  them, so when nothing is added it is the least of these. The needs are those after
  `resolve_expanded_needs`; `NeedsByEitherName` shows that this is to need a job by its own name or by
  the name it had before its expansion.

Model-checked only: liveness (`Termination`, `EveryExecutionEnds`, `RunBashEnds`, `CancelIsShown`)
under fairness, which is out of the prover's reach; and the four runs that end in a violation, whose
traces are what they show.

## Not modelled

* *Events and run summary, scheduler callbacks, CI mode and CI files.* Callbacks, called in one
  thread, that append to a list or print. The order in which they are called is `CallProtocol`;
  what the CI-file callbacks make of it in DAG mode is described above.
* *Run log, folder listing, hooks.* Sequential code that writes or removes files once.
* *Validation, schema, capabilities, graph printing, console, TOML and JSON backends, command line.*
  Stateless: they turn a value into messages or text.
* *Parts of modelled components.* Dry run; dotenv reports, but for whether there is one (`Incremental`): their variables take
  precedence differently in a pool and in the serial loop; the contents of artifacts, hence
  also which run wrote them; snapshots of mutation detection; a pool that breaks
  while jobs are being submitted; interpolation, `!reference`, components and the merging of
  included bodies; comparison operators of `if:` and glob syntax; the environment of a script; the
  output of jobs in the interface; errors of the disk other than in the artifact store, in `save_caches` and where rmtree
  ignores them.
* *External.* watchdog, git, bash, the pool of `concurrent.futures`, `graphlib`'s sorter, and servers are modelled
  by what the code relies on, and marked external in `PROJECT.json`.

## What could come next

The two consumers of the output queue; artifacts with the run that wrote them, so that what
`inject_dependencies` takes over from an earlier run can be stated.
