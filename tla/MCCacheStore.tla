---------------------------- MODULE MCCacheStore ----------------------------
(* The cache: sections over which TLC checks CacheStore.                   *)
EXTENDS CacheStore, TLC

CONSTANTS r, s, x, y, shared

MCJobs == {r, s}
MCFiles == {x, y}

Entry(keyFiles, policy, when) ==
    [key |-> shared, key_files |-> keyFiles, policy |-> policy, when |-> when]

\* A restore against two saves; two jobs that restore and save with different when:; two
\* entries of one job, the second of which is keyed by a file the job may write; and three
\* saves under one key, the last of which may find what two of them left.
MCWorkloads ==
    { r :> <<Entry({}, "pull", "always")>>
        @@ s :> <<Entry({}, "push", "always"), Entry({}, "push", "on_success")>>,
      r :> <<Entry({}, "pull-push", "on_success")>>
        @@ s :> <<Entry({}, "pull-push", "on_failure")>>,
      r :> <<Entry({}, "push", "always"), Entry({x}, "pull-push", "always")>>
        @@ s :> <<Entry({}, "pull", "always")>>,
      r :> <<Entry({}, "push", "always")>>
        @@ s :> <<Entry({}, "push", "always"), Entry({}, "push", "always")>> }
=============================================================================
