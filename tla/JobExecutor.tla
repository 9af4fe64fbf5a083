---------------------------- MODULE JobExecutor ----------------------------
(***************************************************************************)
(* JobExecutor in execution/job.py: executions of one job each, in threads *)
(* or processes of their own.  An execution waits for the file lock of its *)
(* resource_group, restores the job's cache, then attempts before_script,  *)
(* script and after_script until an attempt succeeds or no retry is due.   *)
(* A script ends with exit code 0 ("ok"), with one of Codes, by the job's  *)
(* deadline ("timeout"), or it raises something else ("crash").            *)
(***************************************************************************)
EXTENDS Integers, Sequences, FiniteSets

CONSTANTS
    Execs,           \* names of the concurrent executions
    Codes,           \* the non-zero exit codes considered
    MaxRetries,      \* bound on retry_max
    MaxCaches,       \* bound on the entries of cache:
    NoExec,          \* the lock file is not locked
    Workloads        \* which executions there are, and the job of each

RetryWhens == {"unset", "always", "script_failure", "unsupported"}
\* when: of a cache entry; an entry with policy: pull is never saved
CacheWhens == {"on_success", "on_failure", "always", "pull"}

\* JobConfig and JobRuntimeContext, reduced to what the executor reads.
JobConfig ==
    [ retry_max        : 0..MaxRetries,
      retry_when       : RetryWhens,
      retry_exit_codes : SUBSET Codes,
      before_script    : BOOLEAN,
      after_script     : BOOLEAN,
      timeout          : BOOLEAN,          \* the context has a timeout
      cache            : UNION {[1..n -> CacheWhens] : n \in 0..MaxCaches},
      resource_group   : BOOLEAN ]

ASSUME ExecsAssumption == IsFiniteSet(Execs) /\ NoExec \notin Execs
ASSUME CodesAssumption == Codes \cap {"ok", "timeout", "crash", "none"} = {}
ASSUME RetriesAssumption == MaxRetries \in Nat /\ MaxCaches \in Nat
ASSUME WorkloadsAssumption ==
    \A w \in Workloads : DOMAIN w \subseteq Execs /\ w \in [DOMAIN w -> JobConfig]

VARIABLES
    job,          \* the job of each execution of this run; never changes
    pc,           \* where each execution is
    holder,       \* who has the resource_group's file lock
    expired,      \* the executions whose deadline has passed
    attempt,      \* attempts begun
    last_exc,     \* last_exc, or "none"
    leaving,      \* how the try block is being left: "no", "return" or "raise"
    exc,          \* the exception in flight when leaving by "raise"
    results,      \* how the script part of each attempt ended, in order
    saves,        \* the calls of save_caches: the attempt, the verdict they were called
                  \*   with, the entries they saved, and whether they raised at the next one
    cleaned,      \* attempts after which after_script was run
    orphans       \* killed executions whose bash is still running

vars == <<job, pc, holder, expired, attempt, last_exc, leaving, exc, results, saves, cleaned,
          orphans>>

InScripts == {"before_run", "script_run", "after_run"}
Ended == {"returned", "raised", "dead"}
PCs == {"new", "waiting", "restore", "attempt", "before", "script", "finally", "after",
        "leave", "decide"} \cup InScripts \cup Ended

Init ==
    /\ job \in Workloads
    /\ pc = [p \in DOMAIN job |-> "new"]
    /\ holder = NoExec
    /\ expired = {}
    /\ attempt = [p \in DOMAIN job |-> 0]
    /\ last_exc = [p \in DOMAIN job |-> "none"]
    /\ leaving = [p \in DOMAIN job |-> "no"]
    /\ exc = [p \in DOMAIN job |-> "none"]
    /\ results = [p \in DOMAIN job |-> << >>]
    /\ saves = [p \in DOMAIN job |-> << >>]
    /\ cleaned = [p \in DOMAIN job |-> {}]
    /\ orphans = {}

-----------------------------------------------------------------------------
(* Helpers.                                                                *)

Goto(p, where) == pc' = [pc EXCEPT ![p] = where]

MaxAttempts(p) == 1 + job[p].retry_max

\* should_retry_exit_codes, then should_retry_when
RetryAllowedByCode(p, e) == job[p].retry_exit_codes = {} \/ e \in job[p].retry_exit_codes
RetryAllowedByWhen(p, e) ==
    \/ job[p].retry_when \in {"unset", "always"}
    \/ job[p].retry_when = "script_failure" /\ e \in Codes

\* The entries that save_caches saves for this verdict
Due(p, succeeded) ==
    LET when == IF succeeded THEN "on_success" ELSE "on_failure" IN
    {i \in DOMAIN job[p].cache : job[p].cache[i] \in {"always", when}}

Called(p, succeeded, entries, raised) ==
    saves' = [saves EXCEPT ![p] = Append(@, [ attempt |-> attempt[p], succeeded |-> succeeded,
                                              entries |-> entries, raised |-> raised ])]

\* save_caches, which is called if the job has caches in use
Saved(p, succeeded) ==
    IF job[p].cache = << >> THEN UNCHANGED saves
    ELSE Called(p, succeeded, Due(p, succeeded), FALSE)

\* An error at an entry ends save_caches; the entries before it have been saved.
SavedInPart(p, succeeded) ==
    \E i \in Due(p, succeeded) : Called(p, succeeded, {j \in Due(p, succeeded) : j < i}, TRUE)

\* (mutant) the caches of a failed execution are forgotten
RaisedUnsaved(p, e) == UNCHANGED saves /\ exc' = [exc EXCEPT ![p] = e]

\* Raising e after save_caches(succeeded=False), whose own exception would replace e.
SavedThenRaised(p, e) ==
    \/ Saved(p, FALSE) /\ exc' = [exc EXCEPT ![p] = e]
    \/ SavedInPart(p, FALSE) /\ exc' = [exc EXCEPT ![p] = "crash"]

\* (mutant) an exception keeps the file lock
ExitKeepingLock(p, how) ==
    /\ Goto(p, how)
    /\ holder' = IF holder = p /\ how # "raised" THEN NoExec ELSE holder

\* Leaving execute_with_context releases the file lock, by return or by exception.
Exit(p, how) ==
    /\ Goto(p, how)
    /\ holder' = IF holder = p THEN NoExec ELSE holder

-----------------------------------------------------------------------------
(* execute_with_context: the resource_group lock.                          *)

Enter(p) ==
    /\ pc[p] = "new"
    /\ Goto(p, IF job[p].resource_group THEN "waiting" ELSE "restore")
    /\ UNCHANGED <<job, holder, expired, attempt, last_exc, leaving, exc,
                   results, saves, cleaned, orphans>>

\* (mutant) the lock file is not tested
AcquireAnyway(p) ==
    /\ pc[p] = "waiting"
    /\ holder' = p
    /\ Goto(p, "restore")
    /\ UNCHANGED <<job, expired, attempt, last_exc, leaving, exc,
                   results, saves, cleaned, orphans>>

\* One successful poll of FileLock.acquire.  The deadline of the job starts afterwards.
Acquire(p) ==
    /\ pc[p] = "waiting"
    /\ holder = NoExec
    /\ holder' = p
    /\ Goto(p, "restore")
    /\ UNCHANGED <<job, expired, attempt, last_exc, leaving, exc,
                   results, saves, cleaned, orphans>>

\* FileLockTimeout becomes a JobExecutionError; without a job timeout the wait is a year.
LockTimeout(p) ==
    /\ pc[p] = "waiting"
    /\ job[p].timeout
    /\ holder # NoExec
    /\ Goto(p, "raised")
    /\ exc' = [exc EXCEPT ![p] = "crash"]
    /\ UNCHANGED <<job, holder, expired, attempt, last_exc, leaving,
                   results, saves, cleaned, orphans>>

-----------------------------------------------------------------------------
(* The attempts.                                                           *)

\* The deadline is set, restore_caches is called.
Restore(p) ==
    /\ pc[p] = "restore"
    /\ Goto(p, "attempt")
    /\ UNCHANGED <<job, holder, expired, attempt, last_exc, leaving, exc,
                   results, saves, cleaned, orphans>>

\* The deadline passes; it is shared by all the attempts.
Expire(p) ==
    /\ job[p].timeout
    /\ pc[p] \notin {"new", "waiting", "restore"} \cup Ended
    /\ p \notin expired
    /\ expired' = expired \cup {p}
    /\ UNCHANGED <<job, pc, holder, attempt, last_exc, leaving, exc,
                   results, saves, cleaned, orphans>>

\* restore_caches raises before the first attempt.
RestoreFails(p) ==
    /\ pc[p] = "restore"
    /\ job[p].cache # << >>
    /\ exc' = [exc EXCEPT ![p] = "crash"]
    /\ Exit(p, "raised")
    /\ UNCHANGED <<job, expired, attempt, last_exc, leaving, results, saves, cleaned, orphans>>

BeginAttempt(p) ==
    /\ pc[p] = "attempt"
    /\ attempt[p] < MaxAttempts(p)
    /\ attempt' = [attempt EXCEPT ![p] = @ + 1]
    /\ leaving' = [leaving EXCEPT ![p] = "no"]
    /\ Goto(p, IF job[p].before_script THEN "before" ELSE "script")
    /\ UNCHANGED <<job, holder, expired, last_exc, exc, results, saves, cleaned, orphans>>

\* execute_scripts enters run_bash only while time remains.
BeginScripts(p) ==
    /\ pc[p] \in {"before", "script", "after"}
    /\ p \notin expired
    /\ Goto(p, CASE pc[p] = "before" -> "before_run"
                 [] pc[p] = "script" -> "script_run"
                 [] pc[p] = "after" -> "after_run")
    /\ UNCHANGED <<job, holder, expired, attempt, last_exc, leaving, exc,
                   results, saves, cleaned, orphans>>

\* before_script passes; script follows under the same deadline.
BeforeOk(p) ==
    /\ pc[p] = "before_run"
    /\ Goto(p, "script")
    /\ UNCHANGED <<job, holder, expired, attempt, last_exc, leaving, exc,
                   results, saves, cleaned, orphans>>

\* script passes: save_caches(succeeded=True), then return through the finally block.
ScriptOk(p) ==
    /\ pc[p] = "script_run"
    /\ Saved(p, TRUE)
    /\ results' = [results EXCEPT ![p] = Append(@, "ok")]
    /\ leaving' = [leaving EXCEPT ![p] = "return"]
    /\ Goto(p, "finally")
    /\ UNCHANGED <<job, holder, expired, attempt, last_exc, exc, cleaned, orphans>>

\* save_caches raises inside the try block: the attempt counts as failed.
SaveFails(p) ==
    /\ pc[p] = "script_run"
    /\ SavedInPart(p, TRUE)
    /\ results' = [results EXCEPT ![p] = Append(@, "crash")]
    /\ last_exc' = [last_exc EXCEPT ![p] = "crash"]
    /\ Goto(p, "finally")
    /\ UNCHANGED <<job, holder, expired, attempt, leaving, exc, cleaned, orphans>>

\* (mutant) the exception of the first failed attempt is kept
ScriptFailsFirst(p, r) ==
    /\ pc[p] \in {"before_run", "script_run"}
    /\ r \in Codes \cup {"crash"}
    /\ results' = [results EXCEPT ![p] = Append(@, r)]
    /\ last_exc' = [last_exc EXCEPT ![p] = IF @ = "none" THEN r ELSE @]
    /\ Goto(p, "finally")
    /\ UNCHANGED <<job, holder, expired, attempt, leaving, exc, saves, cleaned, orphans>>

\* before_script or script fails with an exit code or any exception but a timeout, Ctrl-C
\* included: the exception is kept and the finally block runs.
ScriptFails(p, r) ==
    /\ pc[p] \in {"before_run", "script_run"}
    /\ r \in Codes \cup {"crash"}
    /\ results' = [results EXCEPT ![p] = Append(@, r)]
    /\ last_exc' = [last_exc EXCEPT ![p] = r]
    /\ Goto(p, "finally")
    /\ UNCHANGED <<job, holder, expired, attempt, leaving, exc, saves, cleaned, orphans>>

\* No time remains before the script starts, or run_bash kills it at the deadline:
\* save_caches(succeeded=False), and the JobTimeoutError is re-raised without a retry.
ScriptTimesOut(p) ==
    /\ pc[p] \in {"before", "script", "before_run", "script_run"}
    /\ p \in expired
    /\ SavedThenRaised(p, "timeout")
    /\ results' = [results EXCEPT ![p] = Append(@, "timeout")]
    /\ leaving' = [leaving EXCEPT ![p] = "raise"]
    /\ Goto(p, "finally")
    /\ UNCHANGED <<job, holder, expired, attempt, last_exc, cleaned, orphans>>

-----------------------------------------------------------------------------
(* The finally block of an attempt.                                        *)

Finally(p) ==
    /\ pc[p] = "finally"
    /\ Goto(p, IF job[p].after_script THEN "after" ELSE "leave")
    /\ UNCHANGED <<job, holder, expired, attempt, last_exc, leaving, exc,
                   results, saves, cleaned, orphans>>

\* after_script ends; a non-zero exit code is kept only if nothing failed before it.
AfterEnds(p, r) ==
    /\ pc[p] = "after_run"
    /\ r \in Codes \cup {"ok"}
    /\ last_exc' = [last_exc EXCEPT ![p] = IF r # "ok" /\ @ = "none" THEN r ELSE @]
    /\ cleaned' = [cleaned EXCEPT ![p] = @ \cup {attempt[p]}]
    /\ Goto(p, "leave")
    /\ UNCHANGED <<job, holder, expired, attempt, leaving, exc, results, saves, orphans>>

\* Any other exception of after_script replaces whatever the try block was leaving with:
\* a timeout (before it starts or while it runs), or a crash.
AfterRaises(p, e) ==
    /\ \/ e = "timeout" /\ pc[p] \in {"after", "after_run"} /\ p \in expired
       \/ e = "crash" /\ pc[p] = "after_run"
    /\ leaving' = [leaving EXCEPT ![p] = "raise"]
    /\ exc' = [exc EXCEPT ![p] = e]
    /\ Goto(p, "leave")
    /\ UNCHANGED <<job, holder, expired, attempt, last_exc, results, saves, cleaned, orphans>>

Leave(p) ==
    /\ pc[p] = "leave"
    /\ \/ leaving[p] = "return" /\ Exit(p, "returned")
       \/ leaving[p] = "raise" /\ Exit(p, "raised")
       \/ leaving[p] = "no" /\ Goto(p, "decide") /\ UNCHANGED holder
    /\ UNCHANGED <<job, expired, attempt, last_exc, leaving, exc,
                   results, saves, cleaned, orphans>>

-----------------------------------------------------------------------------
(* After a failed attempt.                                                 *)

\* (mutant) retry:when: is not looked at
RetryAnyway(p) ==
    /\ pc[p] = "decide"
    /\ attempt[p] < MaxAttempts(p)
    /\ RetryAllowedByCode(p, last_exc[p])
    /\ Goto(p, "attempt")
    /\ UNCHANGED <<job, holder, expired, attempt, last_exc, leaving, exc,
                   results, saves, cleaned, orphans>>

Retry(p) ==
    /\ pc[p] = "decide"
    /\ attempt[p] < MaxAttempts(p)
    /\ RetryAllowedByCode(p, last_exc[p])
    /\ RetryAllowedByWhen(p, last_exc[p])
    /\ Goto(p, "attempt")
    /\ UNCHANGED <<job, holder, expired, attempt, last_exc, leaving, exc,
                   results, saves, cleaned, orphans>>

\* save_caches(succeeded=False), then a JobExecutionError caused by last_exc.
GiveUp(p) ==
    /\ pc[p] = "decide"
    /\ \/ attempt[p] >= MaxAttempts(p)
       \/ ~RetryAllowedByCode(p, last_exc[p])
       \/ ~RetryAllowedByWhen(p, last_exc[p])
    /\ SavedThenRaised(p, last_exc[p])
    /\ Exit(p, "raised")
    /\ UNCHANGED <<job, expired, attempt, last_exc, leaving, results, cleaned, orphans>>

\* The process is killed: the operating system drops its file lock, but a bash that it has
\* started lives on.
Die(p) ==
    /\ pc[p] \notin Ended
    /\ orphans' = orphans \cup (IF pc[p] \in InScripts THEN {p} ELSE {})
    /\ Exit(p, "dead")
    /\ UNCHANGED <<job, expired, attempt, last_exc, leaving, exc, results, saves, cleaned>>

\* The script of a killed execution comes to its end.
OrphanEnds(p) ==
    /\ p \in orphans
    /\ orphans' = orphans \ {p}
    /\ UNCHANGED <<job, pc, holder, expired, attempt, last_exc, leaving, exc, results, saves,
                   cleaned>>

-----------------------------------------------------------------------------
Step(p) ==
    \/ Enter(p) \/ Acquire(p) \/ Restore(p) \/ RestoreFails(p) \/ BeginAttempt(p)
    \/ BeginScripts(p) \/ BeforeOk(p) \/ ScriptOk(p) \/ SaveFails(p)
    \/ (\E r \in Codes \cup {"crash"} : ScriptFails(p, r)) \/ ScriptTimesOut(p)
    \/ Finally(p) \/ (\E r \in Codes \cup {"ok"} : AfterEnds(p, r))
    \/ (\E e \in {"timeout", "crash"} : AfterRaises(p, e))
    \/ Leave(p) \/ Retry(p) \/ GiveUp(p)

AllEnded == \A p \in DOMAIN job : pc[p] \in Ended
Terminated == AllEnded /\ UNCHANGED vars

Next == \/ \E p \in DOMAIN job :
            Step(p) \/ LockTimeout(p) \/ Expire(p) \/ Die(p) \/ OrphanEnds(p)
        \/ Terminated

Spec == Init /\ [][Next]_vars

\* Every execution proceeds: its scripts end, and its polls of the lock go on.
ExecutionsFair == \A p \in Execs : WF_vars(p \in DOMAIN job /\ Step(p))
FairSpec == Spec /\ ExecutionsFair

-----------------------------------------------------------------------------
(* Safety.                                                                 *)

Busy(p) == pc[p] \notin {"new", "waiting"} \cup Ended

\* A bash of the execution is running.
Scripting(p) == pc[p] \in InScripts \/ p \in orphans

\* Jobs of one resource_group never overlap, from the restore of the cache to the end of
\* the last after_script, whatever times out, crashes or is killed; the lock is never left
\* behind by an execution that is over.  What the lock does not cover is the bash of a
\* killed execution: the one script that may run beside another of its group.
GroupSerialized ==
    /\ \A p, q \in DOMAIN job :
          (p # q /\ job[p].resource_group /\ job[q].resource_group) =>
              /\ ~(Busy(p) /\ Busy(q))
              /\ Scripting(p) /\ Scripting(q) => pc[p] = "dead" \/ pc[q] = "dead"
    /\ holder # NoExec => Busy(holder)

\* The attempts explain one another: every attempt but the last failed in a way the
\* retry: section retries, and none follows a timeout.
AttemptsExplained ==
    \A p \in DOMAIN job :
        /\ Len(results[p]) <= attempt[p]
        /\ attempt[p] <= Len(results[p]) + 1
        /\ \A i \in 1..(attempt[p] - 1) :
              /\ results[p][i] \notin {"ok", "timeout"}
              /\ RetryAllowedByCode(p, results[p][i])
              /\ RetryAllowedByWhen(p, results[p][i])

\* An execution returns only after an attempt that passed, and what it raises is how its
\* last attempt ended, or an exception of after_script or of the lock.
VerdictExplained ==
    \A p \in DOMAIN job :
        /\ pc[p] = "returned" => results[p][Len(results[p])] = "ok"
        /\ (pc[p] = "raised" /\ exc[p] \in Codes) => results[p][Len(results[p])] = exc[p]
        /\ (pc[p] = "raised" /\ exc[p] = "timeout") => p \in expired

\* Without an after_script to interfere, the last call of save_caches carries the verdict
\* that the execution ends with, and saves every entry whose when: asks for it unless its
\* own error is what the execution ends with.  A call before that was broken off by an
\* error, and is why its attempt, whose script had passed, counts as failed.
SavedWithVerdict ==
    \A p \in DOMAIN job :
        LET calls == saves[p]
            last == calls[Len(calls)]
        IN  (/\ pc[p] \in {"returned", "raised"} /\ attempt[p] > 0
             /\ ~job[p].after_script /\ job[p].cache # << >>) =>
                /\ calls # << >>
                /\ last.succeeded = (pc[p] = "returned")
                /\ last.entries = Due(p, last.succeeded) \/ (last.raised /\ exc[p] = "crash")
                /\ \A i \in 1..(Len(calls) - 1) :
                      /\ calls[i].succeeded /\ calls[i].raised
                      /\ results[p][calls[i].attempt] = "crash"
                      /\ i > 1 => calls[i - 1].attempt < calls[i].attempt

-----------------------------------------------------------------------------
(* Behaviour over time.                                                    *)

\* Every execution ends, those that wait for the lock included.
EveryExecutionEnds == <>AllEnded

=============================================================================
