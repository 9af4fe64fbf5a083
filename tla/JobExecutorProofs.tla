------------------------- MODULE JobExecutorProofs -------------------------
(***************************************************************************)
(* Theorems about JobExecutor for any number of executions, retries, exit  *)
(* codes and jobs: which of them hold a resource_group's lock, and when;   *)
(* why an attempt follows another; and what an execution's verdict is.     *)
(* And about Shell, the run of one script, for any number of commands.     *)
(***************************************************************************)
EXTENDS JobExecutor, Shell, TLAPS

\* The holder of the file lock is at work, and a member of the group at work is its holder.
LockInv ==
    /\ DOMAIN job \subseteq Execs
    /\ pc \in [DOMAIN job -> PCs]
    /\ \A p \in DOMAIN job : job[p].resource_group /\ Busy(p) => holder = p
    /\ holder # NoExec => holder \in DOMAIN job /\ Busy(holder)

-----------------------------------------------------------------------------
(* The three ways in which a step treats the lock.                         *)

\* p goes on, with the lock if it had it, without it if not.
LEMMA GoingOnKeepsLock ==
    ASSUME LockInv, NEW p \in DOMAIN job, NEW where \in PCs,
           UNCHANGED <<job, holder>>, Goto(p, where),
           \/ Busy(p) /\ where \notin {"new", "waiting"} \cup Ended
           \/ ~Busy(p) /\ where \in {"new", "waiting"} \cup Ended
           \/ ~job[p].resource_group /\ holder # p
    PROVE  LockInv'
BY DEF LockInv, Goto, Busy

\* p comes to an end, and drops the lock if it has it.
LEMMA EndingKeepsLock ==
    ASSUME LockInv, NEW p \in DOMAIN job, NEW how \in Ended,
           UNCHANGED job, Exit(p, how)
    PROVE  LockInv'
<1>1. how \in PCs /\ holder' = (IF holder = p THEN NoExec ELSE holder)
      /\ pc' = [pc EXCEPT ![p] = how] /\ NoExec \notin DOMAIN job
  BY ExecsAssumption DEF PCs, Exit, Goto, LockInv
<1> QED
  BY <1>1 DEF LockInv, Busy

\* p takes the lock that nobody has.
LEMMA AcquiringKeepsLock ==
    ASSUME LockInv, NEW p \in DOMAIN job, Acquire(p)
    PROVE  LockInv'
BY ExecsAssumption DEF LockInv, Acquire, Goto, Busy, PCs, Ended, InScripts

-----------------------------------------------------------------------------
LEMMA LockInit == ASSUME Init PROVE LockInv
BY WorkloadsAssumption DEF Init, LockInv, Busy, PCs

LEMMA StepKeepsLock ==
    ASSUME LockInv, NEW p \in DOMAIN job, Step(p)
    PROVE  LockInv'
<1> USE DEF PCs, InScripts, Ended, Busy
<1>1. CASE Enter(p)
  <2>1. CASE job[p].resource_group
    BY <1>1, <2>1, GoingOnKeepsLock DEF Enter
  <2>2. CASE ~job[p].resource_group
    BY <1>1, <2>2, ExecsAssumption, GoingOnKeepsLock DEF Enter, LockInv
  <2> QED
    BY <2>1, <2>2
<1>2. CASE Acquire(p)
  BY <1>2, AcquiringKeepsLock
<1>3. CASE Restore(p)
  BY <1>3, GoingOnKeepsLock DEF Restore
<1>4. CASE RestoreFails(p)
  BY <1>4, EndingKeepsLock DEF RestoreFails
<1>5. CASE BeginAttempt(p)
  BY <1>5, GoingOnKeepsLock DEF BeginAttempt
<1>6. CASE BeginScripts(p)
  BY <1>6, GoingOnKeepsLock DEF BeginScripts
<1>7. CASE BeforeOk(p)
  BY <1>7, GoingOnKeepsLock DEF BeforeOk
<1>8. CASE ScriptOk(p)
  BY <1>8, GoingOnKeepsLock DEF ScriptOk
<1>9. CASE SaveFails(p)
  BY <1>9, GoingOnKeepsLock DEF SaveFails
<1>10. CASE \E r \in Codes \cup {"crash"} : ScriptFails(p, r)
  BY <1>10, GoingOnKeepsLock DEF ScriptFails
<1>11. CASE ScriptTimesOut(p)
  BY <1>11, GoingOnKeepsLock DEF ScriptTimesOut
<1>12. CASE Finally(p)
  BY <1>12, GoingOnKeepsLock DEF Finally
<1>13. CASE \E r \in Codes \cup {"ok"} : AfterEnds(p, r)
  BY <1>13, GoingOnKeepsLock DEF AfterEnds
<1>14. CASE \E e \in {"timeout", "crash"} : AfterRaises(p, e)
  BY <1>14, GoingOnKeepsLock DEF AfterRaises
<1>15. CASE Leave(p)
  <2>1. CASE Exit(p, "returned")
    BY <1>15, <2>1, EndingKeepsLock DEF Leave
  <2>2. CASE Exit(p, "raised")
    BY <1>15, <2>2, EndingKeepsLock DEF Leave
  <2>3. CASE Goto(p, "decide") /\ UNCHANGED holder
    BY <1>15, <2>3, GoingOnKeepsLock DEF Leave
  <2> QED
    BY <1>15, <2>1, <2>2, <2>3 DEF Leave
<1>16. CASE Retry(p)
  BY <1>16, GoingOnKeepsLock DEF Retry
<1>17. CASE GiveUp(p)
  BY <1>17, EndingKeepsLock DEF GiveUp
<1> QED
  BY <1>1, <1>2, <1>3, <1>4, <1>5, <1>6, <1>7, <1>8, <1>9, <1>10, <1>11, <1>12, <1>13,
     <1>14, <1>15, <1>16, <1>17 DEF Step

LEMMA LockNext ==
    ASSUME LockInv, [Next]_vars
    PROVE  LockInv'
<1>1. CASE \E p \in DOMAIN job : Step(p)
  BY <1>1, StepKeepsLock
<1>2. CASE \E p \in DOMAIN job : LockTimeout(p)
  BY <1>2, GoingOnKeepsLock DEF LockTimeout, PCs, Ended, Busy
<1>3. CASE \E p \in DOMAIN job : Expire(p)
  BY <1>3 DEF Expire, LockInv, Busy
<1>4. CASE \E p \in DOMAIN job : Die(p)
  BY <1>4, EndingKeepsLock DEF Die, Ended
<1>5. CASE \E p \in DOMAIN job : OrphanEnds(p)
  BY <1>5 DEF OrphanEnds, LockInv, Busy
<1>6. CASE UNCHANGED vars
  BY <1>6 DEF vars, LockInv, Busy
<1> QED
  BY <1>1, <1>2, <1>3, <1>4, <1>5, <1>6 DEF Next, Terminated

\* A bash without its execution belonged to one that was killed; nobody is revived.
OrphanInv == orphans \subseteq {p \in DOMAIN job : pc[p] = "dead"}

LEMMA OrphansNext ==
    ASSUME LockInv, OrphanInv, [Next]_vars
    PROVE  OrphanInv'
<1>1. pc \in [DOMAIN job -> PCs]
  BY DEF LockInv
<1>2. ASSUME NEW p \in DOMAIN job, Step(p) \/ LockTimeout(p) \/ Expire(p)
      PROVE  /\ UNCHANGED <<job, orphans>> /\ pc[p] # "dead"
             /\ \A q \in DOMAIN job \ {p} : pc'[q] = pc[q]
  BY <1>1, <1>2 DEF Step, LockTimeout, Expire, Enter, Acquire, Restore, RestoreFails, BeginAttempt,
     BeginScripts, BeforeOk, ScriptOk, SaveFails, ScriptFails, ScriptTimesOut, Finally, AfterEnds,
     AfterRaises, Leave, Retry, GiveUp, Goto, Exit, Ended, InScripts
<1>3. ASSUME NEW p \in DOMAIN job, Step(p) \/ LockTimeout(p) \/ Expire(p)
      PROVE  OrphanInv'
  BY <1>2, <1>3 DEF OrphanInv
<1>4. ASSUME NEW p \in DOMAIN job, Die(p) PROVE OrphanInv'
  <2>1. /\ UNCHANGED job /\ orphans' \subseteq orphans \cup {p}
        /\ pc'[p] = "dead" /\ \A q \in DOMAIN job \ {p} : pc'[q] = pc[q]
    BY <1>1, <1>4 DEF Die, Exit, Goto
  <2> QED
    BY <2>1 DEF OrphanInv
<1>5. ASSUME NEW p \in DOMAIN job, OrphanEnds(p) PROVE OrphanInv'
  BY <1>5 DEF OrphanEnds, OrphanInv
<1>6. CASE UNCHANGED vars
  BY <1>6 DEF vars, OrphanInv
<1> QED
  BY <1>3, <1>4, <1>5, <1>6 DEF Next, Terminated

-----------------------------------------------------------------------------
(* The attempts of an execution.                                           *)

Failures == Codes \cup {"crash"}
Results == Failures \cup {"ok", "timeout"}

Untried == {"new", "waiting", "restore"}
Trying == {"before", "before_run", "script", "script_run"}
Tried == {"finally", "after", "after_run", "leave", "decide"}

\* How the latest attempt ended
Latest(p) == results[p][Len(results[p])]

\* An attempt that ended like this is followed by another one.
Retried(p, r) == r \in Failures /\ RetryAllowedByCode(p, r) /\ RetryAllowedByWhen(p, r)

Typed ==
    /\ pc \in [DOMAIN job -> PCs]
    /\ attempt \in [DOMAIN job -> Nat]
    /\ results \in [DOMAIN job -> Seq(Results)]
    /\ last_exc \in [DOMAIN job -> Results \cup {"none"}]
    /\ leaving \in [DOMAIN job -> {"no", "return", "raise"}]
    /\ exc \in [DOMAIN job -> Results \cup {"none"}]

\* Each result belongs to an attempt, and only the attempt under way may have none yet.
Counted(p) ==
    /\ attempt[p] \in {Len(results[p]), Len(results[p]) + 1}
    /\ pc[p] \in Untried => attempt[p] = 0
    /\ pc[p] \in Trying => attempt[p] = Len(results[p]) + 1
    /\ pc[p] \in Tried \cup {"attempt"} => attempt[p] = Len(results[p])
    /\ pc[p] \in Tried => attempt[p] > 0

\* All attempts but the one under way were retried.
Justified(p) ==
    /\ \A i \in 1..(attempt[p] - 1) : Retried(p, results[p][i])
    /\ pc[p] = "attempt" => \A i \in 1..attempt[p] : Retried(p, results[p][i])

\* How an attempt is left is what its script did to it, or its after_script.
Left(p) ==
    /\ pc[p] \in Trying => leaving[p] = "no"
    /\ pc[p] = "decide" => leaving[p] = "no"
    /\ pc[p] \in Tried =>
          \/ leaving[p] = "no" /\ last_exc[p] = Latest(p) /\ Latest(p) \in Failures
          \/ leaving[p] = "return" /\ Latest(p) = "ok"
          \/ leaving[p] = "raise" /\ (exc[p] = "crash" \/ (exc[p] = "timeout" /\ p \in expired))

Explained(p) ==
    /\ pc[p] = "returned" => Latest(p) = "ok"
    /\ (pc[p] = "raised" /\ exc[p] \in Codes) => Latest(p) = exc[p]
    /\ (pc[p] = "raised" /\ exc[p] = "timeout") => p \in expired

Story(p) == Counted(p) /\ Justified(p) /\ Left(p) /\ Explained(p)

StoryInv == Typed /\ \A p \in DOMAIN job : Story(p)

\* Nothing has been attempted at first.
LEMMA StoryInit == ASSUME Init PROVE StoryInv
<1>1. Typed
  BY DEF Init, Typed, PCs
<1>2. ASSUME NEW p \in DOMAIN job
      PROVE  Story(p)
  BY <1>2 DEF Init, Story, Counted, Justified, Left, Explained, Untried, Trying, Tried
<1> QED
  BY <1>1, <1>2 DEF StoryInv

\* A step of one execution leaves the story of the others as it is.
LEMMA OneMoves ==
    ASSUME StoryInv, NEW p \in DOMAIN job, UNCHANGED job, expired \subseteq expired',
           \A q \in DOMAIN job \ {p} :
               /\ pc'[q] = pc[q] /\ attempt'[q] = attempt[q] /\ results'[q] = results[q]
               /\ last_exc'[q] = last_exc[q] /\ leaving'[q] = leaving[q] /\ exc'[q] = exc[q],
           Typed', Story(p)'
    PROVE  StoryInv'
<1>1. ASSUME NEW q \in DOMAIN job, q # p
      PROVE  Story(q)'
  <2>1. /\ pc'[q] = pc[q] /\ attempt'[q] = attempt[q] /\ results'[q] = results[q]
        /\ last_exc'[q] = last_exc[q] /\ leaving'[q] = leaving[q] /\ exc'[q] = exc[q]
        /\ Story(q)
    BY <1>1 DEF StoryInv
  <2>2. Latest(q)' = Latest(q)
    BY <2>1 DEF Latest
  <2>3. \A r : Retried(q, r)' = Retried(q, r)
    BY DEF Retried, RetryAllowedByCode, RetryAllowedByWhen
  <2>4. Counted(q)'
    BY <2>1 DEF Story, Counted
  <2>5. Justified(q)'
    BY <2>1, <2>3 DEF Story, Justified
  <2>6. Left(q)'
    BY <2>1, <2>2 DEF Story, Left
  <2>7. Explained(q)'
    BY <2>1, <2>2 DEF Story, Explained
  <2> QED
    BY <2>4, <2>5, <2>6, <2>7 DEF Story
<1> QED
  BY <1>1 DEF StoryInv

\* One more result comes after the others.
LEMMA ResultAppended ==
    ASSUME StoryInv, NEW p \in DOMAIN job, NEW r \in Results,
           results' = [results EXCEPT ![p] = Append(@, r)]
    PROVE  /\ results' \in [DOMAIN job -> Seq(Results)]
           /\ Len(results'[p]) = Len(results[p]) + 1
           /\ results'[p][Len(results'[p])] = r
           /\ \A i \in 1..Len(results[p]) : results'[p][i] = results[p][i]
           /\ \A q \in DOMAIN job \ {p} : results'[q] = results[q]
<1>1. results[p] \in Seq(Results) /\ DOMAIN results = DOMAIN job
  BY DEF StoryInv, Typed
<1>2. results'[p] = Append(results[p], r)
  BY <1>1
<1> QED
  BY <1>1, <1>2 DEF StoryInv, Typed

\* A script comes to an end: its attempt has a result, and is left accordingly.
LEMMA ScriptEnds ==
    ASSUME StoryInv, NEW p \in DOMAIN job, NEW r \in Results,
           results' = [results EXCEPT ![p] = Append(@, r)],
           pc[p] \in Trying, Goto(p, "finally"),
           UNCHANGED <<job, expired, attempt>>,
           \/ r \in Failures /\ last_exc' = [last_exc EXCEPT ![p] = r] /\ UNCHANGED <<leaving, exc>>
           \/ r = "ok" /\ leaving' = [leaving EXCEPT ![p] = "return"] /\ UNCHANGED <<last_exc, exc>>
           \/ /\ r = "timeout" /\ leaving' = [leaving EXCEPT ![p] = "raise"] /\ UNCHANGED last_exc
              /\ p \in expired /\ \E e \in {"timeout", "crash"} : exc' = [exc EXCEPT ![p] = e]
    PROVE  StoryInv'
<1>1. Typed'
  <2>1. results' \in [DOMAIN job -> Seq(Results)]
    BY ResultAppended
  <2>2. pc' \in [DOMAIN job -> PCs]
    BY DEF StoryInv, Typed, PCs, Goto
  <2>3. last_exc' \in [DOMAIN job -> Results \cup {"none"}]
    BY DEF StoryInv, Typed
  <2>4. leaving' \in [DOMAIN job -> {"no", "return", "raise"}]
    BY DEF StoryInv, Typed
  <2>5. exc' \in [DOMAIN job -> Results \cup {"none"}]
    BY DEF StoryInv, Typed, Results, Failures
  <2> QED
    BY <2>1, <2>2, <2>3, <2>4, <2>5 DEF StoryInv, Typed
<1>2. attempt[p] = Len(results[p]) + 1 /\ leaving[p] = "no" /\ Len(results[p]) \in Nat
  BY DEF StoryInv, Typed, Story, Counted, Left
<1>3. pc'[p] = "finally" /\ "finally" \in Tried /\ "finally" \notin Trying \cup Untried
      /\ "finally" \notin {"attempt", "decide", "returned", "raised"}
  BY DEF StoryInv, Typed, Tried, Trying, Untried, Goto
<1>4. Counted(p)'
  <2>1. Len(results'[p]) = Len(results[p]) + 1 /\ attempt'[p] = attempt[p]
    BY ResultAppended
  <2> QED
    BY <1>2, <1>3, <2>1 DEF Counted
<1>5. Justified(p)'
  <2>1. \A i \in 1..(attempt[p] - 1) : Retried(p, results[p][i])
    BY DEF StoryInv, Story, Justified
  <2> QED
    BY <1>2, <1>3, <2>1, ResultAppended
       DEF Justified, Retried, RetryAllowedByCode, RetryAllowedByWhen
<1>6. Left(p)'
  BY <1>2, <1>3, ResultAppended DEF Left, Latest, StoryInv, Typed
<1>7. Explained(p)'
  BY <1>3 DEF Explained
<1>8. Story(p)'
  BY <1>4, <1>5, <1>6, <1>7 DEF Story
<1>9. \A q \in DOMAIN job \ {p} :
          /\ pc'[q] = pc[q] /\ attempt'[q] = attempt[q] /\ results'[q] = results[q]
          /\ last_exc'[q] = last_exc[q] /\ leaving'[q] = leaving[q] /\ exc'[q] = exc[q]
  <2>1. ASSUME NEW q \in DOMAIN job, q # p
        PROVE  pc'[q] = pc[q] /\ results'[q] = results[q] /\ attempt'[q] = attempt[q]
    BY <2>1 DEF StoryInv, Typed, Goto
  <2>2. ASSUME NEW q \in DOMAIN job, q # p
        PROVE  last_exc'[q] = last_exc[q] /\ leaving'[q] = leaving[q] /\ exc'[q] = exc[q]
    BY <2>2 DEF StoryInv, Typed
  <2> QED
    BY <2>1, <2>2
<1>10. UNCHANGED job /\ expired \subseteq expired'
  OBVIOUS
<1> QED
  BY <1>1, <1>8, <1>9, <1>10, OneMoves

\* Saving the caches of a failed execution raises e, or an exception of its own.
LEMMA RaisedIsKnown ==
    ASSUME NEW p, NEW e, SavedThenRaised(p, e)
    PROVE  exc' = [exc EXCEPT ![p] = e] \/ exc' = [exc EXCEPT ![p] = "crash"]
BY DEF SavedThenRaised

\* A step that adds no result.
LEMMA Quiet ==
    ASSUME StoryInv, NEW p \in DOMAIN job, UNCHANGED <<job, results>>, expired \subseteq expired',
           \A q \in DOMAIN job \ {p} :
               /\ pc'[q] = pc[q] /\ attempt'[q] = attempt[q]
               /\ last_exc'[q] = last_exc[q] /\ leaving'[q] = leaving[q] /\ exc'[q] = exc[q],
           Typed', Counted(p)', Justified(p)', Left(p)', Explained(p)'
    PROVE  StoryInv'
BY OneMoves DEF Story

\* A step to the next place of the same kind, and the end of a process that is killed.
LEMMA GoingOn ==
    ASSUME StoryInv, NEW p \in DOMAIN job, NEW where \in PCs, Goto(p, where),
           UNCHANGED <<job, results, attempt, last_exc, leaving, exc>>, expired \subseteq expired',
           \/ pc[p] \in Untried /\ where \in Untried \cup {"attempt"}
           \/ pc[p] \in Trying /\ where \in Trying
           \/ pc[p] \in Tried \ {"decide"} /\ where \in Tried \ {"decide"}
           \/ pc[p] = "leave" /\ leaving[p] = "no" /\ where = "decide"
           \/ where = "dead"
    PROVE  StoryInv'
<1>1. /\ pc'[p] = where
      /\ \A q \in DOMAIN job \ {p} : pc'[q] = pc[q]
      /\ pc' \in [DOMAIN job -> PCs]
  BY DEF Goto, StoryInv, Typed
<1>2. Story(p) /\ Typed /\ attempt[p] \in Nat /\ Len(results[p]) \in Nat
  BY DEF StoryInv, Typed
<1>3. Typed'
  BY <1>1, <1>2 DEF Typed
<1> USE DEF Untried, Trying, Tried
<1>4. Counted(p)'
  BY <1>1, <1>2 DEF Story, Counted
<1>5. Justified(p)'
  BY <1>1, <1>2 DEF Story, Justified, Counted, Retried, RetryAllowedByCode, RetryAllowedByWhen
<1>6. Left(p)'
  BY <1>1, <1>2 DEF Story, Left, Latest
<1>7. Explained(p)'
  BY <1>1 DEF Explained
<1> QED
  BY <1>1, <1>3, <1>4, <1>5, <1>6, <1>7, Quiet

\* An execution that fails before its first attempt, for the lock or for the cache.
LEMMA FailingEarly ==
    ASSUME StoryInv, NEW p \in DOMAIN job, pc[p] \in Untried, Goto(p, "raised"),
           exc' = [exc EXCEPT ![p] = "crash"],
           UNCHANGED <<job, expired, attempt, last_exc, leaving, results>>
    PROVE  StoryInv'
<1>1. Story(p) /\ Typed /\ Len(results[p]) \in Nat
  BY DEF StoryInv, Typed
<1>2. /\ pc'[p] = "raised" /\ exc'[p] = "crash"
      /\ \A q \in DOMAIN job \ {p} : pc'[q] = pc[q] /\ exc'[q] = exc[q]
  BY <1>1 DEF Typed, Goto
<1>3. Typed'
  <2>1. pc' \in [DOMAIN job -> PCs]
    BY <1>1 DEF Typed, Goto, PCs, Ended
  <2>2. exc' \in [DOMAIN job -> Results \cup {"none"}]
    BY <1>1 DEF Typed, Results, Failures
  <2> QED
    BY <1>1, <2>1, <2>2 DEF Typed
<1>4. Counted(p)' /\ Justified(p)' /\ Left(p)'
  BY <1>1, <1>2 DEF Story, Counted, Justified, Left, Untried, Trying, Tried, Retried,
                    RetryAllowedByCode, RetryAllowedByWhen
<1>5. Explained(p)'
  BY <1>2, CodesAssumption DEF Explained
<1> QED
  BY <1>2, <1>3, <1>4, <1>5, Quiet

\* The steps of one execution that do not end a script.
LEMMA StepKeepsStory ==
    ASSUME StoryInv, NEW p \in DOMAIN job, Step(p)
    PROVE  StoryInv'
<1>0. /\ pc[p] \in PCs /\ attempt[p] \in Nat /\ results[p] \in Seq(Results) /\ Len(results[p]) \in Nat
      /\ Story(p) /\ Typed
  BY DEF StoryInv, Typed
<1> USE CodesAssumption DEF Untried, Trying, Tried, PCs, Ended, InScripts, Results, Failures
<1>1. CASE Enter(p)
  <2>1. CASE job[p].resource_group
    BY <1>1, <2>1, GoingOn DEF Enter
  <2>2. CASE ~job[p].resource_group
    BY <1>1, <2>2, GoingOn DEF Enter
  <2> QED
    BY <2>1, <2>2
<1>2. CASE Acquire(p)
  BY <1>2, GoingOn DEF Acquire
<1>3. CASE Restore(p)
  BY <1>3, GoingOn DEF Restore
<1>4. CASE RestoreFails(p)
  BY <1>4, FailingEarly DEF RestoreFails, Exit
<1>5. CASE BeginAttempt(p)
  <2>1. PICK where \in {"before", "script"} : Goto(p, where)
    BY <1>5 DEF BeginAttempt
  <2>2. /\ pc[p] = "attempt" /\ pc'[p] = where
        /\ attempt'[p] = attempt[p] + 1 /\ leaving'[p] = "no"
        /\ UNCHANGED <<job, expired, last_exc, exc, results>>
        /\ \A q \in DOMAIN job \ {p} :
              pc'[q] = pc[q] /\ attempt'[q] = attempt[q] /\ leaving'[q] = leaving[q]
    BY <1>0, <1>5, <2>1 DEF BeginAttempt, Goto, Typed
  <2>3. Typed'
    BY <1>0, <1>5, <2>1 DEF BeginAttempt, Goto, Typed
  <2>4. Counted(p)'
    BY <1>0, <2>2 DEF Story, Counted
  <2>5. Justified(p)'
    BY <1>0, <2>2 DEF Story, Justified, Retried, RetryAllowedByCode, RetryAllowedByWhen
  <2>6. Left(p)' /\ Explained(p)'
    BY <2>2 DEF Left, Explained
  <2> QED
    BY <2>2, <2>3, <2>4, <2>5, <2>6, Quiet
<1>6. CASE BeginScripts(p)
  <2>1. CASE pc[p] = "before"
    BY <1>6, <2>1, GoingOn DEF BeginScripts
  <2>2. CASE pc[p] = "script"
    BY <1>6, <2>2, GoingOn DEF BeginScripts
  <2>3. CASE pc[p] = "after"
    BY <1>6, <2>3, GoingOn DEF BeginScripts
  <2> QED
    BY <1>6, <2>1, <2>2, <2>3 DEF BeginScripts
<1>7. CASE BeforeOk(p)
  BY <1>7, GoingOn DEF BeforeOk
<1>8. CASE ScriptOk(p)
  BY <1>8, ScriptEnds DEF ScriptOk
<1>9. CASE SaveFails(p)
  BY <1>9, ScriptEnds DEF SaveFails
<1>10. CASE \E r \in Codes \cup {"crash"} : ScriptFails(p, r)
  BY <1>10, ScriptEnds DEF ScriptFails
<1>11. CASE ScriptTimesOut(p)
  <2>1. \E e \in {"timeout", "crash"} : exc' = [exc EXCEPT ![p] = e]
    BY <1>11, RaisedIsKnown DEF ScriptTimesOut
  <2>2. /\ p \in expired /\ pc[p] \in Trying /\ Goto(p, "finally")
        /\ results' = [results EXCEPT ![p] = Append(@, "timeout")]
        /\ leaving' = [leaving EXCEPT ![p] = "raise"]
        /\ UNCHANGED <<job, expired, attempt, last_exc>>
    BY <1>11 DEF ScriptTimesOut
  <2> QED
    BY <2>1, <2>2, ScriptEnds
<1>12. CASE Finally(p)
  <2>1. CASE job[p].after_script
    BY <1>12, <2>1, GoingOn DEF Finally
  <2>2. CASE ~job[p].after_script
    BY <1>12, <2>2, GoingOn DEF Finally
  <2> QED
    BY <2>1, <2>2
<1>13. ASSUME NEW r \in Codes \cup {"ok"}, AfterEnds(p, r) PROVE StoryInv'
  <2>1. /\ pc[p] = "after_run" /\ Goto(p, "leave")
        /\ UNCHANGED <<job, expired, attempt, leaving, exc, results>>
        /\ last_exc' = [last_exc EXCEPT ![p] = IF r # "ok" /\ @ = "none" THEN r ELSE @]
    BY <1>13 DEF AfterEnds
  <2>2. /\ pc'[p] = "leave" /\ Typed'
        /\ \A q \in DOMAIN job \ {p} : pc'[q] = pc[q] /\ last_exc'[q] = last_exc[q]
    BY <1>0, <2>1 DEF Goto, Typed
  <2>3. Counted(p)' /\ Justified(p)' /\ Explained(p)'
    BY <1>0, <2>1, <2>2
       DEF Story, Counted, Justified, Explained, Retried, RetryAllowedByCode, RetryAllowedByWhen
  <2>4. leaving[p] = "no" => last_exc'[p] = last_exc[p]
    BY <1>0, <2>1 DEF Story, Left
  <2>5. Left(p)'
    BY <1>0, <2>1, <2>2, <2>4 DEF Story, Left, Latest
  <2> QED
    BY <2>1, <2>2, <2>3, <2>5, Quiet
<1>14. ASSUME NEW e \in {"timeout", "crash"}, AfterRaises(p, e) PROVE StoryInv'
  <2>1. /\ pc[p] \in {"after", "after_run"} /\ Goto(p, "leave")
        /\ UNCHANGED <<job, expired, attempt, last_exc, results>>
        /\ leaving' = [leaving EXCEPT ![p] = "raise"] /\ exc' = [exc EXCEPT ![p] = e]
        /\ e = "crash" \/ p \in expired
    BY <1>14 DEF AfterRaises
  <2>2. /\ pc'[p] = "leave" /\ leaving'[p] = "raise" /\ exc'[p] = e /\ Typed'
        /\ \A q \in DOMAIN job \ {p} :
              pc'[q] = pc[q] /\ leaving'[q] = leaving[q] /\ exc'[q] = exc[q]
    BY <1>0, <2>1 DEF Goto, Typed
  <2>3. Counted(p)' /\ Justified(p)' /\ Left(p)' /\ Explained(p)'
    BY <1>0, <2>1, <2>2 DEF Story, Counted, Justified, Left, Explained, Retried,
                            RetryAllowedByCode, RetryAllowedByWhen
  <2> QED
    BY <2>1, <2>2, <2>3, Quiet
<1>15. CASE Leave(p)
  <2>1. UNCHANGED <<job, results, attempt, last_exc, leaving, exc, expired>> /\ pc[p] = "leave"
    BY <1>15 DEF Leave
  <2>2. CASE leaving[p] = "no" /\ Goto(p, "decide")
    BY <2>1, <2>2, GoingOn
  <2>3. ASSUME NEW how \in {"returned", "raised"}, Goto(p, how),
               leaving[p] = IF how = "returned" THEN "return" ELSE "raise"
        PROVE  StoryInv'
    <3>1. pc'[p] = how /\ Typed' /\ \A q \in DOMAIN job \ {p} : pc'[q] = pc[q]
      BY <1>0, <2>1, <2>3 DEF Goto, Typed
    <3>2. Counted(p)' /\ Justified(p)' /\ Left(p)'
      BY <1>0, <2>1, <3>1
         DEF Story, Counted, Justified, Left, Retried, RetryAllowedByCode, RetryAllowedByWhen
    <3>3. Explained(p)'
      BY <1>0, <2>1, <2>3, <3>1 DEF Story, Left, Explained, Latest
    <3> QED
      BY <2>1, <3>1, <3>2, <3>3, Quiet
  <2> QED
    BY <1>15, <2>2, <2>3 DEF Leave, Exit
<1>16. CASE Retry(p)
  <2>1. /\ pc[p] = "decide" /\ Goto(p, "attempt") /\ Retried(p, Latest(p))
        /\ UNCHANGED <<job, expired, attempt, last_exc, leaving, exc, results>>
    BY <1>16, <1>0 DEF Retry, Story, Left, Retried
  <2>2. pc'[p] = "attempt" /\ Typed' /\ \A q \in DOMAIN job \ {p} : pc'[q] = pc[q]
    BY <1>0, <2>1 DEF Goto, Typed
  <2>3. Counted(p)' /\ Left(p)' /\ Explained(p)'
    BY <1>0, <2>1, <2>2 DEF Story, Counted, Left, Explained
  <2>4. \A i \in 1..attempt[p] : Retried(p, results[p][i])
    BY <1>0, <2>1 DEF Story, Counted, Justified, Latest
  <2>5. Justified(p)'
    BY <1>0, <2>1, <2>4 DEF Justified, Retried, RetryAllowedByCode, RetryAllowedByWhen
  <2> QED
    BY <2>1, <2>2, <2>3, <2>5, Quiet
<1>17. CASE GiveUp(p)
  <2>1. PICK e \in {last_exc[p], "crash"} : exc' = [exc EXCEPT ![p] = e]
    BY <1>17, RaisedIsKnown DEF GiveUp
  <2>2. /\ pc[p] = "decide" /\ Goto(p, "raised")
        /\ UNCHANGED <<job, expired, attempt, last_exc, leaving, results>>
    BY <1>17 DEF GiveUp, Exit
  <2>3. last_exc[p] = Latest(p) /\ Latest(p) \in Failures
    BY <1>0, <2>2 DEF Story, Left
  <2>4. /\ pc'[p] = "raised" /\ exc'[p] = e /\ Typed'
        /\ \A q \in DOMAIN job \ {p} : pc'[q] = pc[q] /\ exc'[q] = exc[q]
    BY <1>0, <2>1, <2>2, <2>3 DEF Goto, Typed
  <2>5. Counted(p)' /\ Justified(p)' /\ Left(p)'
    BY <1>0, <2>2, <2>4
       DEF Story, Counted, Justified, Left, Retried, RetryAllowedByCode, RetryAllowedByWhen
  <2>6. Explained(p)'
    BY <2>1, <2>2, <2>3, <2>4 DEF Explained, Latest
  <2> QED
    BY <2>2, <2>4, <2>5, <2>6, Quiet
<1> QED
  BY <1>1, <1>2, <1>3, <1>4, <1>5, <1>6, <1>7, <1>8, <1>9, <1>10, <1>11, <1>12, <1>13,
     <1>14, <1>15, <1>16, <1>17 DEF Step

LEMMA StoryNext ==
    ASSUME StoryInv, [Next]_vars
    PROVE  StoryInv'
<1>1. CASE \E p \in DOMAIN job : Step(p)
  BY <1>1, StepKeepsStory
<1>2. CASE \E p \in DOMAIN job : LockTimeout(p)
  BY <1>2, FailingEarly DEF LockTimeout, Untried
<1>3. CASE \E p \in DOMAIN job : Expire(p)
  BY <1>3 DEF Expire, StoryInv, Typed, Story, Counted, Justified, Left, Explained, Latest,
              Retried, RetryAllowedByCode, RetryAllowedByWhen
<1>4. CASE \E p \in DOMAIN job : Die(p)
  BY <1>4, GoingOn DEF Die, Exit, Ended, PCs
<1>5. CASE UNCHANGED vars \/ \E p \in DOMAIN job : OrphanEnds(p)
  BY <1>5 DEF vars, OrphanEnds, StoryInv, Typed, Story, Counted, Justified, Left, Explained,
              Latest, Retried, RetryAllowedByCode, RetryAllowedByWhen
<1> QED
  BY <1>1, <1>2, <1>3, <1>4, <1>5 DEF Next, Terminated

\* The story of the attempts holds at any time.
LEMMA StoryHolds == Spec => []StoryInv
<1>1. Init => StoryInv
  BY StoryInit
<1>2. StoryInv /\ [Next]_vars => StoryInv'
  BY StoryNext
<1> QED
  BY <1>1, <1>2, PTL DEF Spec

-----------------------------------------------------------------------------
(* The caches of an execution without after_script.                        *)

Calls == [ attempt : Nat, succeeded : BOOLEAN,
           entries : SUBSET UNION {DOMAIN job[p].cache : p \in DOMAIN job}, raised : BOOLEAN ]

\* The i-th of these calls was broken off, and its attempt ended as failed for it.
BrokenOff(calls, ends, i) ==
    /\ calls[i].succeeded = TRUE /\ calls[i].raised = TRUE
    /\ calls[i].attempt \in 1..Len(ends)
    /\ ends[calls[i].attempt] = "crash"

\* So were the first n calls, each in an attempt of its own.
Retold(calls, ends, n) ==
    \A i \in 1..n : BrokenOff(calls, ends, i) /\ (i > 1 => calls[i - 1].attempt < calls[i].attempt)

\* After such calls came the one with the verdict, complete or the cause of the end.
Closed(p, succeeded) ==
    /\ saves[p] # << >>
    /\ Retold(saves[p], results[p], Len(saves[p]) - 1)
    /\ saves[p][Len(saves[p])].succeeded = succeeded
    /\ \/ saves[p][Len(saves[p])].entries = Due(p, succeeded)
       \/ saves[p][Len(saves[p])].raised = TRUE /\ exc[p] = "crash"

\* No verdict is saved before it is known, and nothing after it.
SavesOf(p) ==
    (~job[p].after_script /\ job[p].cache # << >>) =>
        /\ pc[p] \notin {"after", "after_run"}
        /\ pc[p] \in Untried \cup Trying \cup {"attempt", "decide"} => Retold(saves[p], results[p], Len(saves[p]))
        /\ pc[p] \in {"finally", "leave"} =>
              /\ leaving[p] = "no" => Retold(saves[p], results[p], Len(saves[p]))
              /\ leaving[p] = "return" => Closed(p, TRUE)
              /\ leaving[p] = "raise" => Closed(p, FALSE)
        /\ pc[p] = "returned" => Closed(p, TRUE)
        /\ pc[p] = "raised" => attempt[p] = 0 \/ Closed(p, FALSE)

SavesInv ==
    /\ saves \in [DOMAIN job -> Seq(Calls)]
    /\ \A p \in DOMAIN job : SavesOf(p)

LEMMA SavesInit == ASSUME Init PROVE SavesInv
<1>1. << >> \in Seq(Calls)
  OBVIOUS
<1>2. saves \in [DOMAIN job -> Seq(Calls)]
  BY <1>1 DEF Init
<1>3. ASSUME NEW p \in DOMAIN job PROVE Retold(saves[p], results[p], Len(saves[p])) /\ pc[p] = "new"
  BY <1>3 DEF Init, Retold
<1> QED
  BY <1>2, <1>3 DEF SavesInv, SavesOf

\* What is told of an execution whose calls and results do not change stays told.
LEMMA StaysTold ==
    ASSUME UNCHANGED job, NEW p \in DOMAIN job, saves'[p] = saves[p], results'[p] = results[p]
    PROVE  \A b : Closed(p, b) /\ exc'[p] = exc[p] => Closed(p, b)'
<1>1. \A b : Due(p, b)' = Due(p, b)
  BY DEF Due
<1> QED
  BY <1>1 DEF Closed

\* The steps of one execution leave what the others have saved as it is.
LEMMA OthersKeepSaves ==
    ASSUME SavesInv, NEW p \in DOMAIN job, UNCHANGED job, saves' \in [DOMAIN job -> Seq(Calls)],
           \A q \in DOMAIN job \ {p} :
               /\ pc'[q] = pc[q] /\ leaving'[q] = leaving[q] /\ exc'[q] = exc[q]
               /\ saves'[q] = saves[q] /\ results'[q] = results[q] /\ attempt'[q] = attempt[q],
           SavesOf(p)'
    PROVE  SavesInv'
<1>1. ASSUME NEW q \in DOMAIN job, q # p
      PROVE  SavesOf(q)'
  <2>1. \A b : Closed(q, b) => Closed(q, b)'
    BY <1>1, StaysTold
  <2> QED
    BY <1>1, <2>1 DEF SavesInv, SavesOf
<1>2. Calls' = Calls
  BY DEF Calls
<1> QED
  BY <1>1, <1>2 DEF SavesInv

\* A step of p that saves nothing and ends no script.
LEMMA MovingKeepsSaves ==
    ASSUME StoryInv, SavesInv, NEW p \in DOMAIN job, UNCHANGED <<job, saves, results>>,
           NEW where \in PCs, Goto(p, where),
           \A q \in DOMAIN job \ {p} :
               leaving'[q] = leaving[q] /\ exc'[q] = exc[q] /\ attempt'[q] = attempt[q],
           SavesOf(p)'
    PROVE  SavesInv'
BY OthersKeepSaves DEF SavesInv, StoryInv, Typed, Goto

LEMMA Appended ==
    ASSUME NEW S, NEW s \in Seq(S), NEW x \in S
    PROVE  /\ Append(s, x) \in Seq(S) /\ Append(s, x) # << >>
           /\ Len(s) \in Nat /\ Len(Append(s, x)) = Len(s) + 1
           /\ \A i \in 1..Len(s) : Append(s, x)[i] = s[i]
           /\ Append(s, x)[Len(s) + 1] = x
OBVIOUS

\* A call comes after the others.
LEMMA CallAppended ==
    ASSUME StoryInv, SavesInv, NEW p \in DOMAIN job, NEW b \in BOOLEAN, NEW r \in BOOLEAN,
           NEW E \in SUBSET DOMAIN job[p].cache, Called(p, b, E, r)
    PROVE  /\ saves' \in [DOMAIN job -> Seq(Calls)]
           /\ saves'[p] # << >> /\ Len(saves'[p]) = Len(saves[p]) + 1
           /\ \A i \in 1..Len(saves[p]) : saves'[p][i] = saves[p][i]
           /\ saves'[p][Len(saves[p]) + 1] =
                  [attempt |-> attempt[p], succeeded |-> b, entries |-> E, raised |-> r]
           /\ \A q \in DOMAIN job \ {p} : saves'[q] = saves[q]
<1> DEFINE call == [attempt |-> attempt[p], succeeded |-> b, entries |-> E, raised |-> r]
<1>1. saves \in [DOMAIN job -> Seq(Calls)] /\ attempt[p] \in Nat
  BY DEF StoryInv, Typed, SavesInv
<1>2. call \in Calls
  BY <1>1 DEF Calls
<1> HIDE DEF call
<1>3. saves' = [saves EXCEPT ![p] = Append(saves[p], call)]
  BY DEF Called, call
<1>4. /\ Append(saves[p], call) \in Seq(Calls) /\ Append(saves[p], call) # << >>
      /\ Len(Append(saves[p], call)) = Len(saves[p]) + 1
      /\ \A i \in 1..Len(saves[p]) : Append(saves[p], call)[i] = saves[p][i]
      /\ Append(saves[p], call)[Len(saves[p]) + 1] = call
  BY <1>1, <1>2, Appended
<1>5. saves'[p] = Append(saves[p], call) /\ \A q \in DOMAIN job \ {p} : saves'[q] = saves[q]
  BY <1>1, <1>3
<1>6. saves' \in [DOMAIN job -> Seq(Calls)]
  BY <1>1, <1>3, <1>4
<1> QED
  BY <1>4, <1>5, <1>6 DEF call

\* More calls and more results do not change what was told.
LEMMA RetoldStays ==
    ASSUME NEW calls, NEW ends, NEW more, NEW later, NEW n \in Nat,
           Len(ends) \in Nat, Len(later) \in Nat, Len(ends) <= Len(later),
           \A i \in 1..Len(ends) : later[i] = ends[i],
           \A i \in 1..n : more[i] = calls[i],
           Retold(calls, ends, n)
    PROVE  Retold(more, later, n)
<1>1. ASSUME NEW i \in 1..n PROVE BrokenOff(more, later, i)
  <2>1. BrokenOff(calls, ends, i) /\ more[i] = calls[i]
    BY DEF Retold
  <2>2. calls[i].attempt \in 1..Len(ends)
    BY <2>1 DEF BrokenOff
  <2>3. calls[i].attempt \in 1..Len(later) /\ later[calls[i].attempt] = ends[calls[i].attempt]
    BY <2>2
  <2> QED
    BY <2>1, <2>3 DEF BrokenOff
<1>2. \A i \in 1..n : i > 1 => more[i - 1] = calls[i - 1] /\ more[i] = calls[i]
  OBVIOUS
<1> QED
  BY <1>1, <1>2 DEF Retold

\* The results of p after a step that adds one, or none.
LEMMA ResultsGrow ==
    ASSUME StoryInv, NEW p \in DOMAIN job, NEW r \in Results,
           results' = [results EXCEPT ![p] = Append(@, r)] \/ UNCHANGED results
    PROVE  /\ Len(results[p]) \in Nat /\ Len(results'[p]) \in Nat
           /\ Len(results[p]) <= Len(results'[p])
           /\ \A i \in 1..Len(results[p]) : results'[p][i] = results[p][i]
<1>1. CASE UNCHANGED results
  BY <1>1 DEF StoryInv, Typed
<1>2. CASE results' = [results EXCEPT ![p] = Append(@, r)]
  BY <1>2, ResultAppended DEF StoryInv, Typed
<1> QED
  BY <1>1, <1>2

\* The verdict is saved by an execution that has none yet.
LEMMA SavingCloses ==
    ASSUME StoryInv, SavesInv, NEW p \in DOMAIN job, NEW b \in BOOLEAN, NEW r \in BOOLEAN,
           NEW E \in SUBSET DOMAIN job[p].cache, Called(p, b, E, r), UNCHANGED job,
           NEW x \in Results,
           results' = [results EXCEPT ![p] = Append(@, x)] \/ UNCHANGED results,
           Retold(saves[p], results[p], Len(saves[p])),
           E = Due(p, b) \/ (r = TRUE /\ exc'[p] = "crash")
    PROVE  Closed(p, b)'
<1>1. Len(saves[p]) \in Nat /\ Due(p, b)' = Due(p, b)
  BY DEF SavesInv, Due
<1>2. /\ saves'[p] # << >> /\ Len(saves'[p]) = Len(saves[p]) + 1
      /\ \A i \in 1..Len(saves[p]) : saves'[p][i] = saves[p][i]
      /\ saves'[p][Len(saves[p]) + 1] =
             [attempt |-> attempt[p], succeeded |-> b, entries |-> E, raised |-> r]
  BY CallAppended
<1>3. Retold(saves'[p], results'[p], Len(saves[p]))
  BY <1>1, <1>2, ResultsGrow, RetoldStays
<1>4. Len(saves'[p]) - 1 = Len(saves[p])
  BY <1>1, <1>2
<1> QED
  BY <1>1, <1>2, <1>3, <1>4 DEF Closed

\* The last attempt fails although its script passed, because saving its caches was broken off.
LEMMA BreakingOffIsTold ==
    ASSUME StoryInv, SavesInv, NEW p \in DOMAIN job, NEW E \in SUBSET DOMAIN job[p].cache,
           Called(p, TRUE, E, TRUE), UNCHANGED job, attempt[p] = Len(results[p]) + 1,
           results' = [results EXCEPT ![p] = Append(@, "crash")],
           Retold(saves[p], results[p], Len(saves[p]))
    PROVE  Retold(saves'[p], results'[p], Len(saves'[p]))
<1> DEFINE n == Len(saves[p])
           m == Len(results[p])
<1>1. n \in Nat /\ m \in Nat /\ "crash" \in Results
  BY DEF SavesInv, StoryInv, Typed, Results, Failures
<1>2. /\ Len(saves'[p]) = n + 1
      /\ \A i \in 1..n : saves'[p][i] = saves[p][i]
      /\ saves'[p][n + 1] =
             [attempt |-> attempt[p], succeeded |-> TRUE, entries |-> E, raised |-> TRUE]
  BY CallAppended
<1>3. Retold(saves'[p], results'[p], n)
  BY <1>1, <1>2, ResultsGrow, RetoldStays
<1>4. Len(results'[p]) = m + 1 /\ results'[p][m + 1] = "crash"
  <2>1. Len(results'[p]) = Len(results[p]) + 1 /\ results'[p][Len(results'[p])] = "crash"
    BY <1>1, ResultAppended
  <2> QED
    BY <2>1
<1>5. saves'[p][n + 1].succeeded = TRUE /\ saves'[p][n + 1].raised = TRUE
      /\ saves'[p][n + 1].attempt = m + 1
  BY <1>2
<1>6. BrokenOff(saves'[p], results'[p], n + 1)
  BY <1>1, <1>4, <1>5 DEF BrokenOff
<1>7. n > 0 => saves'[p][n].attempt \in 1..m
  BY <1>1, <1>2 DEF Retold, BrokenOff
<1>8. n + 1 > 1 => saves'[p][(n + 1) - 1].attempt < saves'[p][n + 1].attempt
  BY <1>1, <1>5, <1>7
<1> HIDE DEF n, m
<1>9. \A i \in 1..(n + 1) : i \in 1..n \/ i = n + 1
  BY <1>1
<1> QED
  BY <1>2, <1>3, <1>6, <1>8, <1>9 DEF Retold

\* What save_caches does whatever the job has besides.
LEMMA DueIsTyped == ASSUME NEW p, NEW b PROVE Due(p, b) \in SUBSET DOMAIN job[p].cache
BY DEF Due

LEMMA SavedIsTyped ==
    ASSUME StoryInv, SavesInv, NEW p \in DOMAIN job, NEW b \in BOOLEAN,
           Saved(p, b) \/ SavedInPart(p, b) \/ UNCHANGED saves
    PROVE  /\ saves' \in [DOMAIN job -> Seq(Calls)]
           /\ \A q \in DOMAIN job \ {p} : saves'[q] = saves[q]
<1>1. CASE UNCHANGED saves
  BY <1>1 DEF SavesInv
<1>2. CASE Called(p, b, Due(p, b), FALSE)
  BY <1>2, DueIsTyped, CallAppended
<1>3. ASSUME NEW E \in SUBSET Due(p, b), Called(p, b, E, TRUE)
      PROVE  /\ saves' \in [DOMAIN job -> Seq(Calls)]
             /\ \A q \in DOMAIN job \ {p} : saves'[q] = saves[q]
  <2>1. E \in SUBSET DOMAIN job[p].cache
    BY DueIsTyped
  <2> QED
    BY <1>3, <2>1, CallAppended
<1>4. SavedInPart(p, b) => \E E \in SUBSET Due(p, b) : Called(p, b, E, TRUE)
  <2> SUFFICES ASSUME NEW i \in Due(p, b), Called(p, b, {j \in Due(p, b) : j < i}, TRUE)
               PROVE  \E E \in SUBSET Due(p, b) : Called(p, b, E, TRUE)
    BY DEF SavedInPart
  <2>1. {j \in Due(p, b) : j < i} \in SUBSET Due(p, b)
    OBVIOUS
  <2> QED
    BY <2>1
<1> QED
  BY <1>1, <1>2, <1>3, <1>4 DEF Saved

\* The two steps that raise after saving the caches as failed.
LEMMA FailingKeepsSaves ==
    ASSUME StoryInv, SavesInv, NEW p \in DOMAIN job, NEW e \in Results, SavedThenRaised(p, e),
           UNCHANGED <<job, attempt>>, pc[p] \in Trying \cup {"decide"},
           pc'[p] = "raised" \/ (pc'[p] = "finally" /\ leaving'[p] = "raise"),
           results' = [results EXCEPT ![p] = Append(@, "timeout")] \/ UNCHANGED results,
           \A q \in DOMAIN job \ {p} : pc'[q] = pc[q] /\ leaving'[q] = leaving[q]
    PROVE  SavesInv'
<1>1. exc \in [DOMAIN job -> Results \cup {"none"}] /\ results \in [DOMAIN job -> Seq(Results)]
      /\ "timeout" \in Results
  BY DEF StoryInv, Typed, Results
<1>2. /\ saves' \in [DOMAIN job -> Seq(Calls)]
      /\ \A q \in DOMAIN job \ {p} :
            saves'[q] = saves[q] /\ exc'[q] = exc[q] /\ results'[q] = results[q]
  <2>1. Saved(p, FALSE) \/ SavedInPart(p, FALSE) \/ UNCHANGED saves
    BY DEF SavedThenRaised
  <2>2. \A q \in DOMAIN job \ {p} : exc'[q] = exc[q] /\ results'[q] = results[q]
    BY <1>1 DEF SavedThenRaised
  <2> QED
    BY <2>1, <2>2, SavedIsTyped
<1>3. SavesOf(p)'
  <2>1. CASE job[p].after_script \/ job[p].cache = << >>
    BY <2>1 DEF SavesOf
  <2>2. CASE ~job[p].after_script /\ job[p].cache # << >>
    <3>1. Retold(saves[p], results[p], Len(saves[p]))
      BY <2>2 DEF SavesInv, SavesOf
    <3>2. \E E \in SUBSET DOMAIN job[p].cache, r \in BOOLEAN :
              Called(p, FALSE, E, r) /\ (E = Due(p, FALSE) \/ (r = TRUE /\ exc'[p] = "crash"))
      <4>1. CASE Saved(p, FALSE)
        BY <2>2, <4>1, DueIsTyped DEF Saved
      <4>2. CASE SavedInPart(p, FALSE) /\ exc' = [exc EXCEPT ![p] = "crash"]
        <5>1. PICK i \in Due(p, FALSE) : Called(p, FALSE, {j \in Due(p, FALSE) : j < i}, TRUE)
          BY <4>2 DEF SavedInPart
        <5>2. {j \in Due(p, FALSE) : j < i} \in SUBSET DOMAIN job[p].cache
          BY DueIsTyped
        <5>3. exc'[p] = "crash"
          BY <1>1, <4>2
        <5> QED
          BY <5>1, <5>2, <5>3
      <4> QED
        BY <4>1, <4>2 DEF SavedThenRaised
    <3>3. PICK E \in SUBSET DOMAIN job[p].cache, r \in BOOLEAN :
              Called(p, FALSE, E, r) /\ (E = Due(p, FALSE) \/ (r = TRUE /\ exc'[p] = "crash"))
      BY <3>2
    <3>4. Closed(p, FALSE)'
      BY <1>1, <3>1, <3>3, SavingCloses
    <3> QED
      BY <3>4 DEF SavesOf, Untried, Trying
  <2> QED
    BY <2>1, <2>2
<1> QED
  BY <1>2, <1>3, OthersKeepSaves

LEMMA StepKeepsSaves ==
    ASSUME StoryInv, SavesInv, NEW p \in DOMAIN job, Step(p)
    PROVE  SavesInv'
<1>1. /\ pc \in [DOMAIN job -> PCs] /\ leaving \in [DOMAIN job -> {"no", "return", "raise"}]
      /\ exc \in [DOMAIN job -> Results \cup {"none"}]
      /\ attempt \in [DOMAIN job -> Nat] /\ results \in [DOMAIN job -> Seq(Results)]
      /\ pc[p] \in Trying => attempt[p] = Len(results[p]) + 1
      /\ pc[p] \in Trying \cup {"decide"} => leaving[p] = "no"
      /\ pc[p] \in Untried => attempt[p] = 0
      /\ saves \in [DOMAIN job -> Seq(Calls)] /\ SavesOf(p) /\ Len(saves[p]) \in Nat
  BY DEF StoryInv, Typed, Story, Counted, Left, SavesInv
<1>0. UNCHANGED <<job, saves, results>> =>
          \A b : Closed(p, b) /\ exc'[p] = exc[p] => Closed(p, b)'
  BY StaysTold
<1> USE DEF Untried, Trying, PCs, Ended, InScripts
<1>2. CASE Enter(p) \/ Acquire(p) \/ Restore(p)
  <2>1. PICK where \in {"waiting", "restore", "attempt"} : Goto(p, where)
    BY <1>2 DEF Enter, Acquire, Restore
  <2>2. /\ pc[p] \in Untried /\ pc'[p] = where
        /\ UNCHANGED <<job, leaving, exc, saves, results, attempt>>
    BY <1>1, <1>2, <2>1 DEF Enter, Acquire, Restore, Goto
  <2>3. SavesOf(p)'
    BY <1>0, <1>1, <2>2 DEF SavesOf
  <2> QED
    BY <2>1, <2>2, <2>3, MovingKeepsSaves
<1>3. CASE RestoreFails(p)
  <2>1. /\ Goto(p, "raised") /\ pc'[p] = "raised" /\ exc'[p] = "crash" /\ pc[p] = "restore"
        /\ UNCHANGED <<job, leaving, saves, results, attempt>>
        /\ \A q \in DOMAIN job \ {p} : exc'[q] = exc[q]
    BY <1>1, <1>3 DEF RestoreFails, Exit, Goto
  <2>2. SavesOf(p)'
    BY <1>1, <2>1 DEF SavesOf
  <2> QED
    BY <2>1, <2>2, MovingKeepsSaves
<1>4. CASE BeginAttempt(p)
  <2>1. PICK where \in {"before", "script"} : Goto(p, where)
    BY <1>4 DEF BeginAttempt
  <2>2. /\ pc[p] = "attempt" /\ pc'[p] = where /\ UNCHANGED <<job, exc, saves, results>>
        /\ \A q \in DOMAIN job \ {p} : leaving'[q] = leaving[q] /\ attempt'[q] = attempt[q]
    BY <1>1, <1>4, <2>1 DEF BeginAttempt, Goto
  <2>3. SavesOf(p)'
    BY <1>0, <1>1, <2>2 DEF SavesOf
  <2> QED
    BY <2>1, <2>2, <2>3, MovingKeepsSaves
<1>5. CASE BeginScripts(p) \/ BeforeOk(p)
  <2>1. PICK where \in InScripts \cup {"script"} :
            Goto(p, where) /\ (where = "after_run" <=> pc[p] = "after")
    BY <1>5 DEF BeginScripts, BeforeOk
  <2>2. /\ pc[p] \in Trying \cup {"after"} /\ pc'[p] = where
        /\ UNCHANGED <<job, leaving, exc, saves, results, attempt>>
    BY <1>1, <1>5, <2>1 DEF BeginScripts, BeforeOk, Goto
  <2>3. SavesOf(p)'
    BY <1>0, <1>1, <2>1, <2>2 DEF SavesOf
  <2> QED
    BY <2>1, <2>2, <2>3, MovingKeepsSaves
<1>6. CASE ScriptOk(p)
  <2>1. /\ pc[p] = "script_run" /\ pc'[p] = "finally" /\ leaving'[p] = "return"
        /\ UNCHANGED <<job, exc, attempt>> /\ Saved(p, TRUE)
        /\ results' = [results EXCEPT ![p] = Append(@, "ok")] /\ "ok" \in Results
        /\ \A q \in DOMAIN job \ {p} :
              pc'[q] = pc[q] /\ leaving'[q] = leaving[q] /\ results'[q] = results[q]
    BY <1>1, <1>6 DEF ScriptOk, Goto, Results
  <2>2. saves' \in [DOMAIN job -> Seq(Calls)] /\ \A q \in DOMAIN job \ {p} : saves'[q] = saves[q]
    BY <2>1, SavedIsTyped
  <2>3. SavesOf(p)'
    <3>1. CASE job[p].after_script \/ job[p].cache = << >>
      BY <2>1, <3>1 DEF SavesOf
    <3>2. CASE ~job[p].after_script /\ job[p].cache # << >>
      <4>1. Retold(saves[p], results[p], Len(saves[p])) /\ Called(p, TRUE, Due(p, TRUE), FALSE)
        BY <1>1, <2>1, <3>2 DEF SavesOf, Saved
      <4>2. Closed(p, TRUE)'
        BY <2>1, <4>1, DueIsTyped, SavingCloses
      <4> QED
        BY <2>1, <4>2 DEF SavesOf
    <3> QED
      BY <3>1, <3>2
  <2> QED
    BY <2>1, <2>2, <2>3, OthersKeepSaves
<1>7. CASE SaveFails(p)
  <2>1. /\ pc[p] = "script_run" /\ pc'[p] = "finally"
        /\ UNCHANGED <<job, leaving, exc, attempt>> /\ SavedInPart(p, TRUE)
        /\ results' = [results EXCEPT ![p] = Append(@, "crash")]
        /\ \A q \in DOMAIN job \ {p} : pc'[q] = pc[q] /\ results'[q] = results[q]
    BY <1>1, <1>7 DEF SaveFails, Goto
  <2>2. saves' \in [DOMAIN job -> Seq(Calls)] /\ \A q \in DOMAIN job \ {p} : saves'[q] = saves[q]
    BY <2>1, SavedIsTyped
  <2>3. PICK i \in Due(p, TRUE) : Called(p, TRUE, {j \in Due(p, TRUE) : j < i}, TRUE)
    BY <2>1 DEF SavedInPart
  <2>4. {j \in Due(p, TRUE) : j < i} \in SUBSET DOMAIN job[p].cache
    BY DueIsTyped
  <2>5. (~job[p].after_script /\ job[p].cache # << >>) => Retold(saves'[p], results'[p], Len(saves'[p]))
    BY <1>1, <2>1, <2>3, <2>4, BreakingOffIsTold DEF SavesOf
  <2>6. SavesOf(p)'
    BY <1>1, <2>1, <2>5 DEF SavesOf
  <2> QED
    BY <2>1, <2>2, <2>6, OthersKeepSaves
<1>14. ASSUME NEW r \in Codes \cup {"crash"}, ScriptFails(p, r) PROVE SavesInv'
  <2>1. /\ pc'[p] = "finally" /\ pc[p] \in Trying /\ r \in Results
        /\ UNCHANGED <<job, leaving, exc, saves, attempt>>
        /\ results' = [results EXCEPT ![p] = Append(@, r)]
        /\ \A q \in DOMAIN job \ {p} : pc'[q] = pc[q] /\ results'[q] = results[q]
    BY <1>1, <1>14 DEF ScriptFails, Goto, Results, Failures
  <2>2. Retold(saves[p], results[p], Len(saves[p])) => Retold(saves'[p], results'[p], Len(saves'[p]))
    BY <1>1, <2>1, ResultsGrow, RetoldStays
  <2>3. SavesOf(p)'
    BY <1>1, <2>1, <2>2 DEF SavesOf
  <2> QED
    BY <1>1, <2>1, <2>3, OthersKeepSaves
<1>8. CASE ScriptTimesOut(p)
  <2>1. /\ pc[p] \in Trying /\ pc'[p] = "finally" /\ leaving'[p] = "raise" /\ "timeout" \in Results
        /\ UNCHANGED <<job, attempt>> /\ SavedThenRaised(p, "timeout")
        /\ results' = [results EXCEPT ![p] = Append(@, "timeout")]
        /\ \A q \in DOMAIN job \ {p} : pc'[q] = pc[q] /\ leaving'[q] = leaving[q]
    BY <1>1, <1>8 DEF ScriptTimesOut, Goto, Results
  <2> QED
    BY <1>1, <2>1, FailingKeepsSaves
<1>9. CASE Finally(p)
  <2>1. PICK where \in {"after", "leave"} :
            Goto(p, where) /\ (where = "after" <=> job[p].after_script)
    BY <1>9 DEF Finally
  <2>2. pc[p] = "finally" /\ pc'[p] = where /\ UNCHANGED <<job, leaving, exc, saves, results, attempt>>
    BY <1>1, <1>9, <2>1 DEF Finally, Goto
  <2>3. SavesOf(p)'
    BY <1>0, <1>1, <2>1, <2>2 DEF SavesOf
  <2> QED
    BY <2>1, <2>2, <2>3, MovingKeepsSaves
<1>10. CASE \/ \E r \in Codes \cup {"ok"} : AfterEnds(p, r)
            \/ \E e \in {"timeout", "crash"} : AfterRaises(p, e)
  <2>1. /\ pc[p] \in {"after", "after_run"} /\ Goto(p, "leave")
        /\ UNCHANGED <<job, saves, results, attempt>>
        /\ \A q \in DOMAIN job \ {p} : leaving'[q] = leaving[q] /\ exc'[q] = exc[q]
    BY <1>1, <1>10 DEF AfterEnds, AfterRaises
  <2>2. SavesOf(p)'
    BY <1>1, <2>1 DEF SavesOf
  <2> QED
    BY <2>1, <2>2, MovingKeepsSaves
<1>11. CASE Leave(p)
  <2>1. PICK where \in {"returned", "raised", "decide"} :
            /\ Goto(p, where)
            /\ leaving[p] = (CASE where = "returned" -> "return"
                               [] where = "raised" -> "raise"
                               [] OTHER -> "no")
    BY <1>11 DEF Leave, Exit
  <2>2. pc[p] = "leave" /\ pc'[p] = where /\ UNCHANGED <<job, leaving, exc, saves, results, attempt>>
    BY <1>1, <1>11, <2>1 DEF Leave, Goto
  <2>3. SavesOf(p)'
    BY <1>0, <1>1, <2>1, <2>2 DEF SavesOf
  <2> QED
    BY <2>1, <2>2, <2>3, MovingKeepsSaves
<1>12. CASE Retry(p)
  <2>1. /\ Goto(p, "attempt") /\ pc'[p] = "attempt" /\ pc[p] = "decide"
        /\ UNCHANGED <<job, leaving, exc, saves, results, attempt>>
    BY <1>1, <1>12 DEF Retry, Goto
  <2>2. SavesOf(p)'
    BY <1>0, <1>1, <2>1 DEF SavesOf
  <2> QED
    BY <2>1, <2>2, MovingKeepsSaves
<1>13. CASE GiveUp(p)
  <2>1. /\ pc[p] = "decide" /\ pc'[p] = "raised" /\ last_exc[p] \in Results
        /\ UNCHANGED <<job, leaving, results, attempt>> /\ SavedThenRaised(p, last_exc[p])
        /\ \A q \in DOMAIN job \ {p} : pc'[q] = pc[q]
    <3>1. last_exc[p] \in Failures
      BY <1>13 DEF GiveUp, StoryInv, Story, Left, Tried
    <3> QED
      BY <1>1, <1>13, <3>1 DEF GiveUp, Exit, Goto, Results
  <2> QED
    BY <1>1, <2>1, FailingKeepsSaves
<1> QED
  BY <1>2, <1>3, <1>4, <1>5, <1>6, <1>7, <1>8, <1>9, <1>10, <1>11, <1>12, <1>13, <1>14 DEF Step

LEMMA SavesNext ==
    ASSUME StoryInv, SavesInv, [Next]_vars
    PROVE  SavesInv'
<1> USE DEF Untried, Trying, PCs, Ended, InScripts
<1>0. ASSUME UNCHANGED <<job, saves, results>>, NEW p \in DOMAIN job
      PROVE  \A b : Closed(p, b) /\ exc'[p] = exc[p] => Closed(p, b)'
  BY <1>0, StaysTold
<1>1. CASE \E p \in DOMAIN job : Step(p)
  BY <1>1, StepKeepsSaves
<1>2. ASSUME NEW p \in DOMAIN job, LockTimeout(p) PROVE SavesInv'
  <2>1. /\ pc[p] = "waiting" /\ Goto(p, "raised")
        /\ UNCHANGED <<job, leaving, saves, results, attempt>>
        /\ pc'[p] = "raised" /\ exc'[p] = "crash" /\ attempt[p] = 0
        /\ \A q \in DOMAIN job \ {p} : exc'[q] = exc[q]
    BY <1>2 DEF LockTimeout, Goto, StoryInv, Typed, Story, Counted
  <2>2. SavesOf(p)'
    BY <2>1 DEF SavesOf
  <2> QED
    BY <2>1, <2>2, MovingKeepsSaves
<1>3. CASE UNCHANGED <<job, pc, leaving, exc, saves, results, attempt>>
  <2>1. ASSUME NEW p \in DOMAIN job PROVE SavesOf(p)'
    BY <1>0, <1>3, <2>1 DEF SavesInv, SavesOf
  <2>2. Calls' = Calls
    BY <1>3 DEF Calls
  <2> QED
    BY <1>3, <2>1, <2>2 DEF SavesInv
<1>4. ASSUME NEW p \in DOMAIN job, Die(p) PROVE SavesInv'
  <2>1. /\ Goto(p, "dead") /\ pc'[p] = "dead"
        /\ UNCHANGED <<job, leaving, exc, saves, results, attempt>>
    BY <1>4 DEF Die, Exit, Goto, StoryInv, Typed
  <2>2. SavesOf(p)'
    BY <2>1 DEF SavesOf
  <2> QED
    BY <2>1, <2>2, MovingKeepsSaves
<1>5. (\E p \in DOMAIN job : Expire(p) \/ OrphanEnds(p)) \/ UNCHANGED vars =>
          UNCHANGED <<job, pc, leaving, exc, saves, results, attempt>>
  BY DEF Expire, OrphanEnds, vars
<1> QED
  BY <1>1, <1>2, <1>3, <1>4, <1>5 DEF Next, Terminated

LEMMA SavesHolds == Spec => []SavesInv
<1>1. Init => SavesInv
  BY SavesInit
<1>2. StoryInv /\ SavesInv /\ [Next]_vars => SavesInv'
  BY SavesNext
<1> QED
  BY <1>1, <1>2, StoryHolds, PTL DEF Spec

-----------------------------------------------------------------------------
(* The theorems.                                                           *)

\* Jobs of one resource_group never overlap and their lock is never left behind, however
\* many executions there are and whichever of them fail, time out or are killed; and only
\* the bash of a killed one runs beside the script of another.
THEOREM GroupIsSerialized == Spec => []GroupSerialized
<1>1. Init => LockInv /\ OrphanInv
  BY LockInit DEF Init, OrphanInv
<1>2. LockInv /\ OrphanInv /\ [Next]_vars => LockInv' /\ OrphanInv'
  BY LockNext, OrphansNext
<1>3. LockInv /\ OrphanInv => GroupSerialized
  <2> SUFFICES ASSUME LockInv, OrphanInv PROVE GroupSerialized
    OBVIOUS
  <2>1. \A p \in DOMAIN job : Scripting(p) => Busy(p) \/ pc[p] = "dead"
    BY DEF OrphanInv, Scripting, Busy, InScripts, Ended
  <2> QED
    BY <2>1 DEF LockInv, GroupSerialized
<1> QED
  BY <1>1, <1>2, <1>3, PTL DEF Spec

\* Every attempt but the last failed in a way that the retry: section retries, whatever the
\* section says; none follows a timeout or a success.
THEOREM AttemptsAreJustified == Spec => []AttemptsExplained
<1>1. StoryInv => AttemptsExplained
  <2> SUFFICES ASSUME StoryInv, NEW p \in DOMAIN job
               PROVE  /\ Len(results[p]) <= attempt[p]
                      /\ attempt[p] <= Len(results[p]) + 1
                      /\ \A i \in 1..(attempt[p] - 1) :
                            /\ results[p][i] \notin {"ok", "timeout"}
                            /\ RetryAllowedByCode(p, results[p][i])
                            /\ RetryAllowedByWhen(p, results[p][i])
    BY DEF AttemptsExplained
  <2>1. Story(p) /\ attempt[p] \in Nat /\ Len(results[p]) \in Nat
    BY DEF StoryInv, Typed
  <2> QED
    BY <2>1, CodesAssumption DEF Story, Counted, Justified, Retried, Failures
<1> QED
  BY <1>1, StoryHolds, PTL

\* An execution returns only after an attempt that passed, and raises what its last attempt
\* or its after_script ended with, or what the lock or the cache did.
THEOREM VerdictIsExplained == Spec => []VerdictExplained
<1>1. StoryInv => VerdictExplained
  BY DEF StoryInv, Story, Explained, Latest, VerdictExplained
<1> QED
  BY <1>1, StoryHolds, PTL

\* Without an after_script the last call of save_caches carries the verdict that the
\* execution ends with, for any cache: section and number of attempts, and is complete unless
\* its own error is that end; the calls before it were broken off, one for each of the
\* attempts that count as failed for it.
THEOREM SavesAreTheVerdict == Spec => []SavedWithVerdict
<1>1. StoryInv /\ SavesInv => SavedWithVerdict
  <2> SUFFICES ASSUME StoryInv, SavesInv, NEW p \in DOMAIN job,
                      pc[p] \in {"returned", "raised"}, attempt[p] > 0,
                      ~job[p].after_script, job[p].cache # << >>
               PROVE  LET calls == saves[p]
                          last == calls[Len(calls)]
                      IN  /\ calls # << >>
                          /\ last.succeeded = (pc[p] = "returned")
                          /\ last.entries = Due(p, last.succeeded) \/ (last.raised /\ exc[p] = "crash")
                          /\ \A i \in 1..(Len(calls) - 1) :
                                /\ calls[i].succeeded /\ calls[i].raised
                                /\ results[p][calls[i].attempt] = "crash"
                                /\ i > 1 => calls[i - 1].attempt < calls[i].attempt
    BY DEF SavedWithVerdict
  <2>1. attempt[p] # 0
    OBVIOUS
  <2>2. CASE pc[p] = "returned"
    <3>1. Closed(p, TRUE)
      BY <2>2 DEF SavesInv, SavesOf
    <3> QED
      BY <2>2, <3>1 DEF Closed, Retold, BrokenOff
  <2>3. CASE pc[p] = "raised"
    <3>1. Closed(p, FALSE)
      BY <2>1, <2>3 DEF SavesInv, SavesOf
    <3> QED
      BY <2>3, <3>1 DEF Closed, Retold, BrokenOff
  <2> QED
    BY <2>2, <2>3
<1> QED
  BY <1>1, StoryHolds, SavesHolds, PTL

-----------------------------------------------------------------------------
(* Shell: KilledIsTimeout and NoLateKill, for a script of any number of    *)
(* commands.  Both rest on the order of two threads: the timer sets the    *)
(* flag before it kills, and the caller waits for bash before it reads the *)
(* flag.                                                                   *)

ShellInv ==
    /\ bash \in {"running", "exited", "killed"}
    /\ timer = "killing" => process_killed_by_timeout = TRUE
    /\ bash = "killed" => process_killed_by_timeout = TRUE
    /\ caller \in {"cancelling", "joining", "result", "timeout"} => bash # "running"
    /\ KilledIsTimeout

\* Every step of the script, of the timer and of the caller keeps the invariant.
LEMMA ShellNextInv == ShellInv /\ [ShellNext]_shellVars => ShellInv'
<1> SUFFICES ASSUME ShellInv, [ShellNext]_shellVars PROVE ShellInv'
  OBVIOUS
<1> USE DEF ShellInv, KilledIsTimeout, script, timing
<1>1. CASE Script
  BY <1>1 DEF Script, StartCommand, CommandEnds, Redirect, ReadRest, BashExits, BashIsFree
<1>2. CASE Timer
  BY <1>2 DEF Timer, TimerExpires, TimerCancelled, SetFlag, Kill
<1>3. CASE Caller
  <2>1. CASE ScriptWritten \/ WriteFails \/ StreamsJoined \/ Waited \/ CancelTimer
    BY <2>1 DEF ScriptWritten, WriteFails, StreamsJoined, Waited, CancelTimer
  <2>2. CASE Verdict
    BY <2>2 DEF Verdict
  <2> QED
    BY <1>3, <2>1, <2>2 DEF Caller
<1>4. CASE ShellTerminated \/ UNCHANGED shellVars
  BY <1>4 DEF ShellTerminated, shellVars
<1> QED
  BY <1>1, <1>2, <1>3, <1>4 DEF ShellNext

\* bash is running at first, and nobody has been killed.
LEMMA ShellInitInv == ShellInit => ShellInv
BY DEF ShellInit, ShellInv, KilledIsTimeout

\* A script that the timer killed is never reported by an exit code.
THEOREM KilledIsReported == ShellSpec => []KilledIsTimeout
<1>1. ShellInv => KilledIsTimeout
  BY DEF ShellInv
<1> QED
  BY <1>1, ShellInitInv, ShellNextInv, PTL DEF ShellSpec

\* The timer never kills once the caller has seen bash's end.
THEOREM NobodyIsKilledLate == ShellSpec => NoLateKill
<1>1. ShellInv /\ [ShellNext]_shellVars =>
          [bash' # bash => caller \notin {"cancelling", "joining", "result", "timeout"}]_shellVars
  <2> SUFFICES ASSUME ShellInv, [ShellNext]_shellVars, bash # "running" PROVE bash' = bash
    BY DEF ShellInv
  <2>1. CASE Script
    BY <2>1 DEF Script, StartCommand, CommandEnds, Redirect, ReadRest, BashExits, BashIsFree
  <2>2. CASE Timer
    BY <2>2 DEF Timer, TimerExpires, TimerCancelled, SetFlag, Kill, script
  <2>3. CASE Caller
    BY <2>3 DEF Caller, ScriptWritten, WriteFails, StreamsJoined, Waited, CancelTimer,
                Verdict, script
  <2>4. CASE ShellTerminated \/ UNCHANGED shellVars
    BY <2>4 DEF ShellTerminated, shellVars, script
  <2> QED
    BY <2>1, <2>2, <2>3, <2>4 DEF ShellNext
<1> QED
  BY <1>1, ShellInitInv, ShellNextInv, PTL DEF ShellSpec, NoLateKill
=============================================================================
