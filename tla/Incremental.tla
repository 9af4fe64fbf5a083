---------------------------- MODULE Incremental ----------------------------
(***************************************************************************)
(* execution/fingerprint.py, with the parts of stage_runner.py that use it *)
(* and of artifacts.py that it looks at: runs of one pipeline, plain and   *)
(* --incremental, one after another or side by side, over one project      *)
(* directory that is edited and cleaned meanwhile.  What a job writes is   *)
(* left out, but for what the artifact store has of it.                    *)
(* Jobs have when: on_success or manual and no needs: here (a needs: makes *)
(* the run a DAG run); StageRunner and DagRunner have the others.          *)
(***************************************************************************)
EXTENDS Integers, Sequences, FiniteSets, SequencesExt

CONSTANTS
    Runs,          \* the processes that run bitrab
    Jobs,
    Files,         \* the files of the project that git tracks
    Contents,      \* what a file may hold
    Pipelines,     \* the configurations considered
    Options,       \* the ways to run considered: [mode, parallel]
    Beside,        \* bound: the pipelines of which several runs may be under way at once, and
                   \*   for which MaxStarts bounds the edits and cleanings too
    MaxTouches,    \* bound on the edits of files and the cleanings of the store
    MaxStarts,     \* bound on the runs started
    None           \* no digest

Pipeline ==
    [ jobs : Seq(Jobs),                      \* in the order of the file
      stage : [Jobs -> Nat],
      manual : [Jobs -> BOOLEAN],              \* when: manual, not on_success
      inherits : [Jobs -> BOOLEAN],          \* no dependencies: key
      dependencies : [Jobs -> SUBSET Jobs],  \* what the key lists, if there is one
      paths : [Jobs -> SUBSET Files],        \* BITRAB_FINGERPRINT_PATHS
      key_files : [Jobs -> SUBSET Files],    \* of its cache: sections
      changes : [Jobs -> SUBSET Files],      \* of its rules:
      artifacts : [Jobs -> SUBSET {"files", "report"}],   \* paths:, and reports: dotenv:
      artifacts_when : [Jobs -> {"on_success", "on_failure", "always"}] ]

\* Where a job is in the order in which a serial run reaches the jobs.
Before(P, i, j) ==
    \/ P.stage[i] < P.stage[j]
    \/ /\ P.stage[i] = P.stage[j]
       /\ \E n, m \in DOMAIN P.jobs : n < m /\ P.jobs[n] = i /\ P.jobs[m] = j

\* A name is given to one job.  dependencies: name jobs of the pipeline that come before, or
\* jobs that it does not have.
ASSUME PipelinesAssumption ==
    \A P \in Pipelines :
        /\ P \in Pipeline
        /\ \A n, m \in DOMAIN P.jobs : P.jobs[n] = P.jobs[m] => n = m
        /\ \A j \in ToSet(P.jobs) : \A i \in P.dependencies[j] \cap ToSet(P.jobs) : Before(P, i, j)
ASSUME OptionsAssumption ==
    Options \subseteq [mode : {"plain", "incremental", "refresh"}, parallel : BOOLEAN]
ASSUME BoundsAssumption == MaxTouches \in Nat /\ MaxStarts \in Nat
ASSUME NoneAssumption == None \notin [Files -> Contents]

VARIABLES
    pipeline,   \* the .gitlab-ci.yml; never changes
    content,    \* the files
    record,     \* .bitrab/fingerprints: the fingerprints of the jobs that have a record
    outputs,    \* .bitrab/artifacts: <<job, "files">> for its directory there, and
                \*   <<job, "report">> for its dotenv report
    run,        \* what each process does: [mode, parallel]
    computed,   \* FingerprintManager.computed of each process: the fingerprints by job
    calls,      \* the calls of fingerprint_for each process is in: the files they read, by job
    digest,     \* FingerprintManager.git_digest of each process
    status,     \* how far each process is with each job
    starts, touches,
    basis,      \* ghost: {the inputs behind the record of a job}, {} if they changed meanwhile
    disturbed,  \* ghost: the runs during which files were edited or the store was cleaned,
                \*   and those started beside one
    settled     \* ghost: an --incremental run succeeded, and nothing was touched since

project == <<content, record, outputs>>
process == <<run, computed, calls, digest, status>>
ghosts == <<basis, disturbed, settled>>
vars == <<pipeline, project, process, starts, touches, ghosts>>

Idle == [mode |-> "idle", parallel |-> FALSE]
Unreached == [j \in Jobs |-> "waiting"]

Init ==
    /\ pipeline \in Pipelines
    /\ content \in [Files -> Contents]
    /\ record = << >> /\ outputs = {}
    /\ run = [p \in Runs |-> Idle]
    /\ computed = [p \in Runs |-> << >>] /\ calls = [p \in Runs |-> << >>]
    /\ digest = [p \in Runs |-> None]
    /\ status = [p \in Runs |-> Unreached]
    /\ starts = 0 /\ touches = 0
    /\ basis = [j \in Jobs |-> {}] /\ disturbed = {} /\ settled = FALSE

-----------------------------------------------------------------------------
(* FingerprintManager.                                                     *)

\* A dictionary after dict[key] = value
Put(dict, key, value) == [k \in DOMAIN dict \cup {key} |-> IF k = key THEN value ELSE dict[k]]

Here == ToSet(pipeline.jobs)

\* The jobs that prepare makes upstream of j.
Upstream(j) ==
    IF pipeline.inherits[j] THEN {i \in Here : pipeline.stage[i] < pipeline.stage[j]}
    ELSE pipeline.dependencies[j] \ {j}

\* The files that count for j, and {} for all that git tracks.
DeclaredInputs(j) ==
    IF pipeline.paths[j] # {} THEN pipeline.paths[j]
    ELSE IF pipeline.key_files[j] # {} THEN pipeline.key_files[j]
    ELSE pipeline.changes[j]

GitDigest(p) == IF digest[p] # None THEN digest[p] ELSE content

\* A digest is modelled by what it is a digest of.
FilesDigest(p, j) ==
    LET D == DeclaredInputs(j) IN
    IF D = {} THEN GitDigest(p) ELSE [f \in D |-> content[f]]

\* (mutant) a fingerprint without those of the upstream jobs
FingerprintAlone(j, files, memo) == [job |-> j, files |-> files, needs |-> << >>]

Fingerprint(j, files, memo) ==
    [ job |-> j, files |-> files,
      needs |-> [d \in Upstream(j) |-> IF d \in Here THEN memo[d] ELSE [missing |-> d]] ]

\* A call of fingerprint_for that finds nothing in the memo reads the files first.
Call(p, j) ==
    /\ calls' = [calls EXCEPT ![p] = Put(@, j, FilesDigest(p, j))]
    /\ digest' = [digest EXCEPT ![p] = IF DeclaredInputs(j) = {} THEN GitDigest(p) ELSE @]

\* The call that no other one waits in: a job comes after those it calls for, so there is no
\* cycle and what is called last is upstream of all the others.
Innermost(p, j) == j \in DOMAIN calls[p] /\ Upstream(j) \cap DOMAIN calls[p] = {}

\* The next job upstream that has no fingerprint yet
Descend(p, j, d) ==
    /\ Innermost(p, j)
    /\ d \in Upstream(j) \cap Here /\ d \notin DOMAIN computed[p]
    /\ Call(p, d)
    /\ UNCHANGED <<pipeline, project, run, computed, status, starts, touches, ghosts>>

\* Another run is reading or writing the record of j, and is at it for as long as p waits
\* for the lock of that record: FileLockTimeout.
LockedOut(p, j) ==
    \E q \in Runs \ {p} :
        \/ run[q].mode = "incremental" /\ status[q][j] = "asked"
        \/ run[q].mode # "plain" /\ status[q][j] = "collected"

Hit(p, j, fingerprint) ==
    /\ run[p].mode = "incremental"
    /\ j \in DOMAIN record /\ record[j] = fingerprint
    /\ \A kind \in pipeline.artifacts[j] : <<j, kind>> \in outputs

\* The fingerprint goes into the memo.  The call that check made is followed by its look at
\* the record, a miss if it cannot have the lock, and at the artifacts, and by
\* complete_memoized or the start of the job.
Return(p, j) ==
    LET fingerprint == Fingerprint(j, calls[p][j], computed[p]) IN
    /\ Innermost(p, j) /\ Upstream(j) \cap Here \subseteq DOMAIN computed[p]
    /\ computed' = [computed EXCEPT ![p] = Put(@, j, fingerprint)]
    /\ calls' = [calls EXCEPT ![p] = [i \in DOMAIN @ \ {j} |-> @[i]]]
    /\ \/ status[p][j] # "asked" /\ UNCHANGED status
       \/ /\ status[p][j] = "asked" /\ Hit(p, j, fingerprint)
          /\ status' = [status EXCEPT ![p][j] = "cached"]
       \/ /\ status[p][j] = "asked" /\ (Hit(p, j, fingerprint) => LockedOut(p, j))
          /\ status' = [status EXCEPT ![p][j] = "running"]
    /\ UNCHANGED <<pipeline, project, run, digest, starts, touches, ghosts>>

-----------------------------------------------------------------------------
(* A run: run_jobs_serial and run_jobs_parallel, stage after stage.        *)

\* The bounds
MayStart == starts < MaxStarts /\ (pipeline \in Beside => starts + touches < MaxStarts)
MayTouch == touches < MaxTouches /\ (pipeline \in Beside => starts + touches < MaxStarts)

Active == {p \in Runs : run[p] # Idle}
Picked == {j \in Here : ~pipeline.manual[j]}    \* filter_jobs_by_when
StageOf(j) == {i \in Picked : pipeline.stage[i] = pipeline.stage[j]}
Serial(p, j) == ~run[p].parallel \/ Cardinality(StageOf(j)) = 1
Good == {"passed", "unrecorded", "mutated", "cached"}

\* A new process with an empty memo.  With one job per stage every run is serial.
Start(p) ==
    /\ run[p] = Idle /\ MayStart /\ (Active = {} \/ pipeline \in Beside)
    /\ starts' = starts + 1
    /\ \E options \in Options :
          /\ options.parallel => \E j \in Picked : Cardinality(StageOf(j)) > 1
          /\ run' = [run EXCEPT ![p] = options]
    /\ disturbed' = IF disturbed = {} THEN {} ELSE disturbed \cup {p}
    /\ UNCHANGED <<pipeline, project, computed, calls, digest, status, touches, basis, settled>>

\* After the earlier stages; inside a stage in the order of the file, serially not before
\* the job in front has passed.
Reachable(p, j) ==
    /\ run[p] # Idle /\ j \in Picked /\ status[p][j] = "waiting"
    /\ \A i \in Picked :
          Before(pipeline, i, j) =>
              IF i \in StageOf(j) /\ ~Serial(p, j) THEN status[p][i] \notin {"waiting", "asked"}
              ELSE status[p][i] \in Good

\* The start of the job, or the call of check_memoized.  Of the jobs after those reached so
\* far, none is in the memo.
Reach(p, j) ==
    /\ Reachable(p, j)
    /\ \/ /\ run[p].mode = "plain"
          /\ status' = [status EXCEPT ![p][j] = "running"]
          /\ UNCHANGED <<calls, digest>>
       \/ /\ run[p].mode # "plain"
          /\ status' = [status EXCEPT ![p][j] = "asked"]
          /\ Call(p, j)
    /\ UNCHANGED <<pipeline, project, run, computed, starts, touches, ghosts>>

\* What collect_artifacts and collect_dotenv_report may store of j; there need not be a report.
Collected(j, succeeded) ==
    IF pipeline.artifacts_when[j] \in {"always", IF succeeded THEN "on_success" ELSE "on_failure"}
    THEN {{j} \X kinds : kinds \in {pipeline.artifacts[j], pipeline.artifacts[j] \ {"report"}}}
    ELSE {{}}

\* The scripts end, their artifacts are collected, and in a serial stage comes the look for
\* changed files.  A parallel stage looks at results once all its jobs have been submitted.
Finish(p, j) ==
    /\ status[p][j] = "running"
    /\ ~Serial(p, j) => \A i \in StageOf(j) : status[p][i] \notin {"waiting", "asked"}
    /\ \E end \in {"failed", "collected", "mutated"} :
          /\ end = "mutated" => Serial(p, j)
          /\ status' = [status EXCEPT ![p][j] = end]
          /\ \E new \in Collected(j, end # "failed") : outputs' = outputs \cup new
    /\ UNCHANGED <<pipeline, content, record, run, computed, calls, digest, starts, touches, ghosts>>

\* The jobs that j depends on, directly or not, and j: the least set with j that is closed.
Behind(j) ==
    {i \in Jobs : \A S \in SUBSET Jobs :
        j \in S /\ (\A k \in S : Upstream(k) \cap Here \subseteq S) => i \in S}

\* What the files hold that count for j or for one of those jobs
Inputs(j) ==
    [ f \in UNION {IF DeclaredInputs(i) = {} THEN Files ELSE DeclaredInputs(i) : i \in Behind(j)}
          |-> content[f] ]

Recorded(p, j) ==
    /\ status' = [status EXCEPT ![p][j] = "passed"]
    /\ record' = Put(record, j, computed[p][j])
    /\ basis' = [basis EXCEPT ![j] = IF p \in disturbed THEN {} ELSE {Inputs(j)}]

NotRecorded(p, j) ==
    /\ status' = [status EXCEPT ![p][j] = "unrecorded"]
    /\ UNCHANGED <<record, basis>>

\* (mutant) --refresh runs the jobs and records nothing
RecordUnlessRefresh(p, j) ==
    /\ status[p][j] = "collected"
    /\ \/ run[p].mode = "incremental" /\ Recorded(p, j)
       \/ /\ run[p].mode # "incremental"
          /\ status' = [status EXCEPT ![p][j] = "passed"] /\ UNCHANGED <<record, basis>>
    /\ UNCHANGED <<pipeline, content, outputs, run, computed, calls, digest, starts, touches, disturbed, settled>>

\* record_fingerprint: the memoized one, from when the job was reached; not with --incremental
\* off, nor when the lock of the record cannot be had
Record(p, j) ==
    /\ status[p][j] = "collected"
    /\ \/ run[p].mode # "plain" /\ Recorded(p, j)
       \/ (run[p].mode = "plain" \/ LockedOut(p, j)) /\ NotRecorded(p, j)
    /\ UNCHANGED <<pipeline, content, outputs, run, computed, calls, digest, starts, touches, disturbed, settled>>

Leave(p) ==
    /\ run' = [run EXCEPT ![p] = Idle]
    /\ computed' = [computed EXCEPT ![p] = << >>] /\ calls' = [calls EXCEPT ![p] = << >>]
    /\ digest' = [digest EXCEPT ![p] = None]
    /\ status' = [status EXCEPT ![p] = Unreached]
    /\ disturbed' = disturbed \ {p}
    /\ UNCHANGED <<pipeline, project, starts, touches, basis>>

\* The run is over: all its jobs are, or one has failed and nothing more is reached.
End(p) ==
    /\ run[p] # Idle
    /\ \A j \in Jobs : status[p][j] \notin {"asked", "running", "collected"} /\ ~Reachable(p, j)
    /\ settled' = \/ settled
                  \/ /\ run[p].mode # "plain"
                     /\ \A j \in Picked : status[p][j] \in {"passed", "cached"}
                     /\ disturbed \cap Active = {}
    /\ Leave(p)

\* The process is killed.
Kill(p) == run[p] # Idle /\ Leave(p) /\ UNCHANGED settled

-----------------------------------------------------------------------------
(* What else happens in the project directory.                             *)

Touch ==
    /\ MayTouch /\ touches' = touches + 1
    /\ disturbed' = Active /\ settled' = FALSE

Edit ==
    /\ Touch
    /\ \E f \in Files, c \in Contents : c # content[f] /\ content' = [content EXCEPT ![f] = c]
    /\ UNCHANGED <<pipeline, record, outputs, process, starts, basis>>

\* bitrab clean, of the artifacts or of the fingerprints
Clean ==
    /\ Touch
    /\ \/ outputs # {} /\ outputs' = {} /\ UNCHANGED record
       \/ record # << >> /\ record' = << >> /\ UNCHANGED outputs
    /\ UNCHANGED <<pipeline, content, process, starts, basis>>

Next ==
    \/ \E p \in Runs : \/ Start(p) \/ End(p) \/ Kill(p)
                       \/ \E j \in Jobs : \/ Reach(p, j) \/ Return(p, j)
                                           \/ Finish(p, j) \/ Record(p, j)
                                           \/ \E d \in Jobs : Descend(p, j, d)
    \/ Edit
    \/ Clean

Spec == Init /\ [][Next]_vars

-----------------------------------------------------------------------------
(* Properties.                                                             *)

\* A job is reported as cached only on the very inputs, its own and those of every job it
\* depends on, directly or not, with which it once succeeded: an edit upstream is never
\* missed, whatever failed, was killed, refreshed, cleaned or ran side by side in between.
\* Not covered: files edited, or stores cleaned, while one of the two runs was under way.
HitIsEarned ==
    [][ \A p \in Runs, j \in Jobs :
            status[p][j] # "cached" /\ status'[p][j] = "cached" /\ p \notin disturbed =>
                basis[j] \subseteq {Inputs(j)} ]_vars

\* After a run with --incremental or --refresh in which every job was cached or passed with
\* its fingerprint recorded, as long as nothing is edited or cleaned, an --incremental run
\* executes a job again in three cases only: another run keeps it from the job's record, its
\* artifacts are kept on failure only, or its dotenv report was never written.
NothingToRedo ==
    [][ \A p \in Runs, j \in Jobs :
            settled /\ status[p][j] # "running" /\ status'[p][j] = "running" =>
                \/ run[p].mode # "incremental"
                \/ LockedOut(p, j)
                \/ pipeline.artifacts[j] # {} /\ pipeline.artifacts_when[j] = "on_failure"
                \/ "report" \in pipeline.artifacts[j] /\ <<j, "report">> \notin outputs ]_vars
=============================================================================
