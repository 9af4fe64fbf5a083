---------------------------- MODULE MCIncremental ----------------------------
(* The pipelines over which TLC checks Incremental.                        *)
EXTENDS Incremental, TLC

CONSTANTS p, q, a, b, c, f, g, old, new

MCRuns == {p, q}
MCJobs == {a, b, c}
MCFiles == {f, g}
MCContents == {old, new}
Symmetry == Permutations(MCRuns) \cup Permutations(MCContents)

Nothing == [j \in Jobs |-> {}]

\* Chain: three stages, where c depends on b alone, and so on a only through b; its jobs
\* declare their files in each of the three ways.  Pair: two jobs of one stage, one of which
\* declares nothing and depends on a job that the pipeline does not have.
Chain ==
    [ jobs |-> <<a, b, c>>, stage |-> (a :> 1 @@ b :> 2 @@ c :> 3),
      manual |-> [j \in Jobs |-> FALSE],
      inherits |-> (a :> TRUE @@ b :> TRUE @@ c :> FALSE),
      dependencies |-> (a :> {} @@ b :> {} @@ c :> {b}),
      paths |-> (a :> {f} @@ b :> {} @@ c :> {}),
      key_files |-> (a :> {g} @@ b :> {g} @@ c :> {}),
      changes |-> (a :> {} @@ b :> {} @@ c :> {g}),
      artifacts |-> (a :> {"files"} @@ b :> {} @@ c :> {}),
      artifacts_when |-> [j \in Jobs |-> "on_success"] ]

Pair ==
    [ jobs |-> <<a, b>>, stage |-> (a :> 1 @@ b :> 1 @@ c :> 2),
      manual |-> [j \in Jobs |-> FALSE],
      inherits |-> (a :> TRUE @@ b :> FALSE @@ c :> TRUE),
      dependencies |-> (a :> {} @@ b :> {c} @@ c :> {}),
      paths |-> Nothing, key_files |-> Nothing, changes |-> (a :> {g} @@ b :> {} @@ c :> {}),
      artifacts |-> (a :> {"report"} @@ b :> {"files"} @@ c :> {}),
      artifacts_when |-> (a :> "always" @@ b :> "on_failure" @@ c :> "on_success") ]

\* Gate: a job behind two manual ones.
Gate ==
    [ jobs |-> <<a, b, c>>, stage |-> (a :> 1 @@ b :> 2 @@ c :> 3),
      manual |-> (a :> TRUE @@ b :> TRUE @@ c :> FALSE),
      inherits |-> (a :> TRUE @@ b :> TRUE @@ c :> FALSE),
      dependencies |-> (a :> {} @@ b :> {} @@ c :> {b}),
      paths |-> (a :> {f} @@ b :> {} @@ c :> {g}),
      key_files |-> Nothing, changes |-> Nothing,
      artifacts |-> Nothing, artifacts_when |-> [j \in Jobs |-> "on_success"] ]

MCPipelines == {Chain, Pair, Gate}
\* A plain run and one with --refresh are serial here: the interleavings of a parallel stage
\* are those of an --incremental run that finds no record.
MCOptions == [mode : {"plain", "incremental", "refresh"}, parallel : {FALSE}]
                 \cup {[mode |-> "incremental", parallel |-> TRUE]}
MCBeside == {Pair}
=============================================================================
