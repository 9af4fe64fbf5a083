---------------------------- MODULE MCDagRunner ----------------------------
(* The sets of configurations over which TLC checks DagRunner.             *)
EXTENDS DagRunner, TLC

CONSTANTS a, b, c, gone

MCJobs == {a, b, c}
MCRemoved == {gone}

Inherit == [j \in Jobs |-> TRUE]
Nothing == [j \in Jobs |-> {}]

\* Acyclic and mixed graphs: a job needs any of the jobs before it, nothing, or a name
\* that the job filter removed; jobs without needs: follow their stage.  Nothing has failed
\* before a, so it runs or does not; nothing depends on c, so its when: is one of the two
\* that look at the jobs before it.
NeedsOf(j) == CASE j = a -> {{}, {gone}}
                [] j = b -> {{}, {a}}
                [] j = c -> {{}, {b}, {a, b}}

AcyclicNeeds == {n \in [Jobs -> SUBSET (Jobs \cup Removed)] :
                    (\A j \in Jobs : n[j] \in NeedsOf(j)) /\ \E j \in Jobs : n[j] # {}}

ControlPipelines ==
    [ stage : {[j \in Jobs |-> IF j = a THEN 1 ELSE IF j = b THEN s ELSE 2] : s \in Stages},
      when : {w \in [Jobs -> {"on_success", "on_failure", "always", "manual"}] :
                 w[a] \in {"on_success", "manual"} /\ w[c] \in {"on_success", "on_failure"}},
      allow : {[j \in Jobs |-> IF j = a THEN m ELSE "no"] : m \in {"no", "any"}},
      artifacts : {[j \in Jobs |-> "none"]},
      inherits : {Inherit}, dependencies : {Nothing},
      needs : AcyclicNeeds ]

\* Every graph over three jobs, cyclic ones too, whose jobs may share a stage.
AnyGraphPipelines ==
    [ stage : {[j \in Jobs |-> 1], [j \in Jobs |-> IF j = a THEN 2 ELSE 1]},
      when : {[j \in Jobs |-> "on_success"]},
      allow : {[j \in Jobs |-> "no"]},
      artifacts : {[j \in Jobs |-> "on_success"]},
      inherits : {Inherit}, dependencies : {Nothing},
      needs : [Jobs -> SUBSET Jobs] \ {Nothing} ]

\* Outputs passed along a graph by inheritance or by an explicit dependencies: list.
DataPipelines ==
    [ stage : {[j \in Jobs |-> IF j = a THEN 1 ELSE 2]},
      when : {[j \in Jobs |-> "always"]},
      allow : {[j \in Jobs |-> "any"]},
      artifacts : {f \in [Jobs -> {"on_success", "always"}] : f[c] = "always"},
      inherits : {Inherit, [j \in Jobs |-> j # c]},
      dependencies : {[j \in Jobs |-> IF j = c THEN {a} ELSE {}]},
      needs : AcyclicNeeds ]

\* Jobs that run whatever has failed, over a store that fails: a batch may break off a run
\* in which an earlier one has failed.
UnstoppablePipelines ==
    [ stage : {[j \in Jobs |-> IF j = a THEN 1 ELSE 2]},
      when : {[j \in Jobs |-> "always"]},
      allow : {[j \in Jobs |-> "no"]},
      artifacts : {[j \in Jobs |-> IF j = b THEN "always" ELSE "none"]},
      inherits : {Inherit}, dependencies : {Nothing},
      needs : AcyclicNeeds ]

Options(workers, backend, flags) ==
    [ workers |-> workers, backend |-> backend,
      worktrees |-> "worktrees" \in flags, incremental |-> "incremental" \in flags,
      store_fails |-> "store_fails" \in flags, pool_breaks |-> "pool_breaks" \in flags ]

With(pipelines, opts) == {[pipeline |-> p, options |-> o] : p \in pipelines, o \in opts}

EverythingFails == {"incremental", "store_fails", "pool_breaks"}

MCSettings ==
    With({p \in ControlPipelines : p.stage[b] = 1}, {Options(1, "thread", {})})
    \cup With(ControlPipelines, {Options(2, "thread", {})})
    \cup With(DataPipelines, {Options(2, "process", {"worktrees"})})
    \cup With(UnstoppablePipelines, {Options(w, "thread", {"store_fails"}) : w \in {1, 2}})
    \cup With(AnyGraphPipelines, {Options(2, "process", EverythingFails)})

=============================================================================
