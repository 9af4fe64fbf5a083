----------------------------- MODULE Worktrees -----------------------------
(***************************************************************************)
(* git_worktree.py and worktree_worker: every parallel job gets a checkout *)
(* of its own under .bitrab/worktrees, named after the job, and gives it   *)
(* back when it ends.  Workers of one or of several runs share the project *)
(* directory; they are killed at any point, with or without the git or the *)
(* scripts they wait for, and `bitrab folder clean` runs beside them.      *)
(* Git is external.  Of it the model has what the code relies on:          *)
(* `worktree add` refuses a path that exists or is registered; it          *)
(* registers the worktree, locks the registration for as long as it checks *)
(* out, and cleans up if that fails, but not if it is killed.  `worktree   *)
(* remove --force` refuses what is locked or not registered, and deletes   *)
(* the directory before the registration.  `worktree prune` drops the      *)
(* registrations that are not locked and whose directory is gone.          *)
(***************************************************************************)
EXTENDS Integers, FiniteSets

CONSTANTS
    Workers,
    Names,         \* the directory names that sanitize_name gives to the jobs
    MaxSpawns,     \* bound on the workers started
    Nobody           \* no worker

VARIABLES
    dirs,          \* the directories under .bitrab/worktrees
    registered,    \* the worktrees that .git/worktrees knows
    locked,        \* those that git has locked there
    stuck,         \* the directories that can be deleted by nobody here, such as one in which a
                   \*   job has left a folder without write permission
    worker,        \* what each worker does, or what is left of it when it has been killed
    cleaning,      \* `folder clean` has pruned, and will remove the directories
    spawned

git == <<registered, locked>>
worktreesVars == <<dirs, git, stuck, worker, cleaning, spawned>>

WorktreesInit ==
    /\ dirs = {} /\ registered = {} /\ locked = {} /\ stuck = {}
    /\ worker = [v \in Workers |-> Nobody]
    /\ cleaning = FALSE /\ spawned = 0

At(v, step) == worker[v] # Nobody /\ worker[v].at = step
NameOf(v) == worker[v].name
Quits(v) == worker' = [worker EXCEPT ![v] = Nobody]

\* The step that follows.  A command whose worker was killed is the last one.
Then(v, step) == IF worker[v].alive THEN worker' = [worker EXCEPT ![v].at = step] ELSE Quits(v)

\* The workers and the remains of workers that v has to share its directory with
Beside(v) == {o \in Workers \ {v} : worker[o] # Nobody /\ worker[o].name = worker[v].name}

\* The deletion of the directory fails if it is stuck, and it may if something is at work there.
DeleteDirectory(v) ==
    \/ NameOf(v) \notin stuck /\ dirs' = dirs \ {NameOf(v)}
    \/ NameOf(v) \in stuck /\ UNCHANGED dirs
    \/ Beside(v) # {} /\ UNCHANGED dirs

\* A job is handed to a worker.  "disturbed" is a ghost: at some time another worker had the
\* same directory, of another run or of a job whose name is sanitized alike, or the directory
\* was cleaned away while git was at it.
Spawn(v) ==
    /\ worker[v] = Nobody /\ spawned < MaxSpawns /\ spawned' = spawned + 1
    /\ \E name \in Names :
          LET same == {o \in Workers : worker[o] # Nobody /\ worker[o].name = name}
          IN  worker' = [o \in Workers |->
                  IF o = v THEN [ name |-> name, at |-> "create", alive |-> TRUE,
                                  leaving |-> FALSE, disturbed |-> same # {} ]
                  ELSE IF o \in same THEN [worker[o] EXCEPT !.disturbed = TRUE]
                  ELSE worker[o]]
    /\ UNCHANGED <<dirs, git, stuck, cleaning>>

\* create_worktree: is anything in the way?
Look(v) ==
    /\ At(v, "create")
    /\ Then(v, IF NameOf(v) \in dirs THEN "remove" ELSE "prune")
    /\ UNCHANGED <<dirs, git, stuck, cleaning, spawned>>

\* git worktree remove --force, of create_worktree and of remove_worktree
RemoveWorktree(v) ==
    /\ At(v, "remove")
    /\ \/ /\ NameOf(v) \in registered \ locked
          /\ DeleteDirectory(v)
          /\ worker' = [worker EXCEPT ![v].at = "unregister"]
       \/ NameOf(v) \notin registered \ locked /\ UNCHANGED dirs /\ Then(v, "rmtree")
    /\ UNCHANGED <<git, stuck, cleaning, spawned>>

Unregister(v) ==
    /\ At(v, "unregister")
    /\ registered' = registered \ {NameOf(v)} /\ Then(v, "rmtree")
    /\ UNCHANGED <<dirs, locked, stuck, cleaning, spawned>>

\* rmtree(ignore_errors=True) of what git has left.  It is the last step of remove_worktree.
Rmtree(v) ==
    /\ At(v, "rmtree")
    /\ DeleteDirectory(v)
    /\ IF worker[v].leaving THEN Quits(v) ELSE Then(v, "prune")
    /\ UNCHANGED <<git, stuck, cleaning, spawned>>

\* (mutant) nothing is pruned before the worktree is added
SkipPrune(v) ==
    /\ At(v, "prune") /\ Then(v, "add")
    /\ UNCHANGED <<dirs, git, stuck, cleaning, spawned>>

Prune(v) ==
    /\ At(v, "prune") /\ Then(v, "add")
    /\ registered' = registered \cap (dirs \cup locked)
    /\ UNCHANGED <<dirs, locked, stuck, cleaning, spawned>>

\* git worktree add --detach; its failure is a RuntimeError that fails the job.
Add(v) ==
    /\ At(v, "add")
    /\ \/ NameOf(v) \in dirs \cup registered /\ Then(v, "failed") /\ UNCHANGED git
       \/ /\ NameOf(v) \notin dirs \cup registered
          /\ registered' = registered \cup {NameOf(v)} /\ locked' = locked \cup {NameOf(v)}
          /\ worker' = [worker EXCEPT ![v].at = "checkout"]
    /\ UNCHANGED <<dirs, stuck, cleaning, spawned>>

\* It goes on: the directory is made and the files of HEAD are written.
Checkout(v) ==
    /\ At(v, "checkout")
    /\ dirs' = dirs \cup {NameOf(v)}
    /\ worker' = [worker EXCEPT ![v].at = "unlock"]
    /\ UNCHANGED <<git, stuck, cleaning, spawned>>

\* It ends.  Without the directory it could not write the files, and it drops the registration.
Unlock(v) ==
    /\ At(v, "unlock")
    /\ locked' = locked \ {NameOf(v)}
    /\ \/ NameOf(v) \in dirs /\ Then(v, "work") /\ UNCHANGED registered
       \/ /\ NameOf(v) \notin dirs /\ Then(v, "failed")
          /\ registered' = registered \ {NameOf(v)}
    /\ UNCHANGED <<dirs, stuck, cleaning, spawned>>

\* The job is done, successfully or not, and its outputs collected: remove_worktree.
Work(v) ==
    /\ At(v, "work")
    /\ stuck' \in {stuck, stuck \cup ({NameOf(v)} \cap dirs)}
    /\ IF worker[v].alive
       THEN worker' = [worker EXCEPT ![v].at = "remove", ![v].leaving = TRUE]
       ELSE Quits(v)
    /\ UNCHANGED <<dirs, git, cleaning, spawned>>

Fail(v) ==
    /\ At(v, "failed") /\ Quits(v)
    /\ UNCHANGED <<dirs, git, stuck, cleaning, spawned>>

\* The steps in which a worker waits for git or for its scripts
Waiting == {"remove", "unregister", "prune", "add", "checkout", "unlock", "work"}

\* What the worker waits for is killed with it, or lives on without it.
KillWorker(v) ==
    /\ worker[v] # Nobody
    /\ \/ Quits(v)
       \/ /\ worker[v].alive /\ worker[v].at \in Waiting
          /\ worker' = [worker EXCEPT ![v].alive = FALSE]
    /\ UNCHANGED <<dirs, git, stuck, cleaning, spawned>>

\* prune_worktrees, from clean_worktrees and clean_all: it prunes first, and may be killed
\* before it removes the directories.
CleanPrunes ==
    /\ ~cleaning /\ cleaning' = TRUE
    /\ registered' = registered \cap (dirs \cup locked)
    /\ UNCHANGED <<dirs, locked, stuck, worker, spawned>>

CleanRemoves ==
    /\ cleaning /\ cleaning' = FALSE
    /\ \/ UNCHANGED <<dirs, worker>>
       \/ /\ dirs' = dirs \cap stuck
          /\ worker' = [v \in Workers |->
                 IF At(v, "unlock") THEN [worker[v] EXCEPT !.disturbed = TRUE] ELSE worker[v]]
    /\ UNCHANGED <<git, stuck, spawned>>

WorktreesNext ==
    \/ \E v \in Workers :
          \/ Spawn(v) \/ Look(v) \/ RemoveWorktree(v) \/ Unregister(v) \/ Rmtree(v) \/ Prune(v)
          \/ Add(v) \/ Checkout(v) \/ Unlock(v) \/ Work(v) \/ Fail(v) \/ KillWorker(v)
    \/ CleanPrunes
    \/ CleanRemoves

WorktreesSpec == WorktreesInit /\ [][WorktreesNext]_worktreesVars

-----------------------------------------------------------------------------
(* Properties.                                                             *)

\* Of all that killed runs and cleanings leave behind, in .bitrab or in .git, only two things
\* keep a job that is undisturbed from its checkout: a directory that cannot be deleted, and
\* a registration that a killed `git worktree add` has left locked.
LeftoversNeverBlock ==
    \A v \in Workers :
        At(v, "failed") => worker[v].disturbed \/ NameOf(v) \in stuck \cup locked

\* What a crashed run has left is removed first, as create_worktree says of itself, so that
\* no locked registration keeps a job from its checkout either.
LeftoversAreRemoved ==
    \A v \in Workers : At(v, "failed") => worker[v].disturbed \/ NameOf(v) \in stuck
=============================================================================
