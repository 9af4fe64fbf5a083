--------------------------- MODULE MCStageRunner ---------------------------
(* The sets of configurations over which TLC checks StageRunner.           *)
EXTENDS StageRunner, TLC

CONSTANTS a, b, c

MCJobs == {a, b, c}
Symmetry == Permutations(MCJobs)

Inherit == [j \in Jobs |-> TRUE]
Nothing == [j \in Jobs |-> {}]

\* Every assignment of the jobs to two stages, and one job in each of three.
StageLists == {f \in [Jobs -> Stages] : f \in [Jobs -> 1..2] \/ \A j, k \in Jobs : f[j] = f[k] => j = k}

\* Every assignment of stages, when: and allow_failure to the jobs.
ControlPipelines ==
    [ stage : StageLists,
      when : [Jobs -> {"on_success", "on_failure", "always", "manual"}],
      allow : [Jobs -> {"no", "any"}],
      artifacts : {[j \in Jobs |-> "none"]},
      inherits : {Inherit}, dependencies : {Nothing}, needs : {Nothing} ]

\* Every artifact policy, for jobs that always run; all inherit the outputs of the earlier
\* stages, but for one that lists a single job under dependencies:.
DataPipelines ==
    UNION { [ stage : [Jobs -> 1..2],
              when : {[j \in Jobs |-> "always"]},
              allow : {[j \in Jobs |-> "any"]},
              artifacts : [Jobs -> {"on_success", "always"}],
              inherits : {[j \in Jobs |-> j # x]},
              dependencies : {[j \in Jobs |-> IF j = x THEN {y} ELSE {}] : y \in Jobs \ {x}},
              needs : {Nothing} ] : x \in Jobs }

\* allow_failure:exit_codes next to no allowance at all, for jobs of any stage.
ExitCodePipelines ==
    [ stage : [Jobs -> Stages],
      when : {[j \in Jobs |-> "on_success"]},
      allow : [Jobs -> {"no", "listed"}],
      artifacts : {[j \in Jobs |-> "none"]},
      inherits : {Inherit}, dependencies : {Nothing}, needs : {Nothing} ]

\* Job x may fail softly; z shares the stage of the others or follows it.
BrokenPipelines(x, z) ==
    [ stage : {[j \in Jobs |-> 1], [j \in Jobs |-> IF j = z THEN 2 ELSE 1]},
      when : {[j \in Jobs |-> IF j = z THEN w ELSE "on_success"] :
                 w \in {"on_success", "on_failure", "manual"}},
      allow : {[j \in Jobs |-> IF j = x THEN "any" ELSE "no"]},
      artifacts : {[j \in Jobs |-> "on_success"]},
      inherits : {Inherit}, dependencies : {Nothing}, needs : {Nothing} ]

Options(workers, backend, flags) ==
    [ workers |-> workers, backend |-> backend,
      worktrees |-> "worktrees" \in flags, incremental |-> "incremental" \in flags,
      store_fails |-> "store_fails" \in flags, pool_breaks |-> "pool_breaks" \in flags ]

With(pipelines, opts) == {[pipeline |-> p, options |-> o] : p \in pipelines, o \in opts}

EverythingFails == {"incremental", "store_fails", "pool_breaks"}

\* Closed under permutations of the jobs, so Symmetry is sound for it.
SafetySettings ==
    With(ControlPipelines, {Options(1, "thread", {}), Options(2, "thread", {})})
    \cup With(DataPipelines, {Options(2, "process", {"worktrees", "incremental"})})
    \cup UNION {With(BrokenPipelines(x, z),
                     {Options(2, "process", EverythingFails),
                      Options(2, "process", EverythingFails \cup {"worktrees"})}) :
                    x \in Jobs, z \in Jobs}

TimeSettings ==
    With(BrokenPipelines(a, c), {Options(w, "process", EverythingFails) : w \in {1, 2}})

ExitCodeSettings == With(ExitCodePipelines, {Options(2, "process", {})})

\* The jobs that may fail, some of them softly, and on_success jobs behind them.
AllowedSettings ==
    With({p \in ControlPipelines : \A j \in Jobs : p.when[j] = "on_success"},
         {Options(w, "thread", {}) : w \in {1, 2}})

=============================================================================
