---------------------------- MODULE MCTuiSession ----------------------------
(* The pipelines over which TLC checks TuiSession.                         *)
EXTENDS TuiSession, TLC

CONSTANTS a, b

MCJobs == {a, b}

\* One job, then one that waits for the user; and two jobs in a pool.
MCPipelines ==
    { [ stages |-> << <<a>>, <<b>> >>, parallel |-> FALSE,
        when |-> (a :> "on_success" @@ b :> "manual") ],
      [ stages |-> << <<a, b>> >>, parallel |-> TRUE,
        when |-> (a :> "on_success" @@ b :> "always") ] }
=============================================================================
