---------------------------- MODULE PipelineSpec ----------------------------
(***************************************************************************)
(* What either pipeline runner promises to the caller of execute_pipeline, *)
(* without stages, batches, pools or callbacks: jobs start in an order     *)
(* that respects a precedence relation, each settles at most once, and the *)
(* verdict of the run is truthful.                                         *)
(***************************************************************************)
CONSTANT Jobs

VARIABLES
    before,     \* the jobs that must be settled before each job starts
    status,     \* what has become of each job
    verdict     \* "open" until the run is reported as "passed" or "failed"

vars == <<before, verdict, status>>

Settlements == {"succeeded", "tolerated", "failed", "skipped"}
Statuses == {"waiting", "active", "ended"} \cup Settlements

TypeOK ==
    /\ before \in [Jobs -> SUBSET Jobs]
    /\ status \in [Jobs -> Statuses]
    /\ verdict \in {"open", "passed", "failed"}

Settled(j) == status[j] \in Settlements

Init ==
    /\ before \in [Jobs -> SUBSET Jobs]
    /\ status = [j \in Jobs |-> "waiting"]
    /\ verdict = "open"

\* A job may start when everything before it is settled.
Launch(j) ==
    /\ status[j] = "waiting"
    /\ \A k \in before[j] : Settled(k)
    /\ status' = [status EXCEPT ![j] = "active"]

\* Jobs that are over, with a result nobody has looked at yet.
End(js) ==
    /\ js # {}
    /\ \A j \in js : status[j] = "active"
    /\ status' = [j \in Jobs |-> IF j \in js THEN "ended" ELSE status[j]]

\* The result of a job is taken up.
Settle(j) ==
    /\ status[j] \in {"active", "ended"}
    /\ \E s \in Settlements \ {"skipped"} : status' = [status EXCEPT ![j] = s]

\* A job whose result is known from an earlier run succeeds without being started.
Recall(j) ==
    /\ status[j] = "waiting"
    /\ \A k \in before[j] : Settled(k)
    /\ status' = [status EXCEPT ![j] = "succeeded"]

\* Jobs that will not run.
Skip(js) ==
    /\ js # {}
    /\ \A j \in js : status[j] = "waiting" /\ \A k \in before[j] : Settled(k) \/ k \in js
    /\ status' = [j \in Jobs |-> IF j \in js THEN "skipped" ELSE status[j]]

\* The run is reported.  "passed" is said of a run in which every job is settled and none
\* failed; no verdict is given while a job is active.
Close(v) ==
    /\ \A j \in Jobs : status[j] # "active"
    /\ v = "passed" => \A j \in Jobs : Settled(j) /\ status[j] # "failed"
    /\ verdict' = v
    /\ UNCHANGED status

Next ==
    /\ verdict = "open"
    /\ UNCHANGED before
    /\ \/ /\ \/ \E j \in Jobs : Launch(j) \/ Settle(j) \/ Recall(j)
             \/ \E js \in SUBSET Jobs : End(js) \/ Skip(js)
          /\ UNCHANGED verdict
       \/ \E v \in {"passed", "failed"} : Close(v)

Spec == Init /\ [][Next]_vars

=============================================================================
