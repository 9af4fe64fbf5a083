------------------------------- MODULE Watch -------------------------------
(***************************************************************************)
(* watch.py: `bitrab watch` runs the pipeline once, looks up which local   *)
(* files the configuration is made of, and then runs the pipeline again    *)
(* whenever one of them is modified.  The run is executed by the thread    *)
(* that delivers the events, so events wait while it lasts; an event less  *)
(* than DEBOUNCE_SECONDS after the last trigger is dropped.  Of watchdog   *)
(* (external) the model has that events are delivered one at a time and in *)
(* order, and that an event like the last one that waits may be left out.  *)
(* Of a run it has only which content of which file it loads.              *)
(***************************************************************************)
EXTENDS Integers, Sequences, FiniteSets

CONSTANTS
    Files, Root,
    Contents,
    Includes,     \* Includes[f][c]: the local files that content c of f includes, in order
    MaxSaves      \* bound on the saves

ASSUME RootAssumption == Root \in Files
ASSUME IncludesAssumption == Includes \in [Files -> [Contents -> Seq(Files)]]
ASSUME SavesAssumption == MaxSaves \in Nat

VARIABLES
    saved,        \* the content of each file
    stage,        \* "initial", "collect", "start", "watching", "stopping" or "stopped"
    watched,      \* PipelineRerunHandler.watched
    queue,        \* the modified files whose events were not handled yet
    running,      \* a run is being executed
    pending,      \* the files the run has yet to load
    loaded,       \* what the last run has loaded
    recent,       \* less than DEBOUNCE_SECONDS have passed since last_triggered
    saves,
    unnoticed     \* ghost: the files saved at a time or in a way that watch mode does not
                  \* notice, since the last run was started

watchVars == <<saved, stage, watched, queue, running, pending, loaded, recent, saves, unnoticed>>

WatchInit ==
    /\ saved \in [Files -> Contents]
    /\ stage = "initial" /\ watched = {} /\ queue = << >>
    /\ running = TRUE /\ pending = <<Root>> /\ loaded = << >>
    /\ recent = FALSE /\ saves = 0 /\ unnoticed = {}

-----------------------------------------------------------------------------
(* A run, which may fail at any time.                                      *)

LoadFile ==
    /\ running /\ pending # << >>
    /\ LET f == Head(pending) IN
       IF f \in DOMAIN loaded
       THEN pending' = Tail(pending) /\ UNCHANGED loaded
       ELSE /\ pending' = Includes[f][saved[f]] \o Tail(pending)
            /\ loaded' = [g \in DOMAIN loaded \cup {f} |-> IF g = f THEN saved[f] ELSE loaded[g]]
    /\ UNCHANGED <<saved, stage, watched, queue, running, recent, saves, unnoticed>>

\* (mutant) the window is measured from the end of the run
RunEndsLate ==
    /\ running /\ running' = FALSE /\ pending' = << >>
    /\ recent' = (stage = "watching")
    /\ stage' = IF stage = "initial" THEN "collect" ELSE stage
    /\ UNCHANGED <<saved, watched, queue, loaded, saves, unnoticed>>

\* The run returns or raises, in both cases to run_watch or to on_modified, which go on.
RunEnds ==
    /\ running /\ running' = FALSE /\ pending' = << >>
    /\ stage' = IF stage = "initial" THEN "collect" ELSE stage
    /\ UNCHANGED <<saved, watched, queue, loaded, recent, saves, unnoticed>>

-----------------------------------------------------------------------------
(* run_watch and the handler.                                              *)

\* collect_include_paths: the files reached from the root by the includes they have now.
IncludedBy(f) == {Includes[f][saved[f]][i] : i \in 1..Len(Includes[f][saved[f]])}
IncludePaths ==
    LET reached[n \in 0..Cardinality(Files)] ==
            IF n = 0 THEN {Root}
            ELSE LET seen == reached[n - 1] IN seen \cup UNION {IncludedBy(f) : f \in seen}
    IN  reached[Cardinality(Files)]

\* The paths are collected once.
Collect ==
    /\ stage = "collect" /\ stage' = "start"
    /\ watched' = IncludePaths
    /\ UNCHANGED <<saved, queue, running, pending, loaded, recent, saves, unnoticed>>

StartObserver ==
    /\ stage = "start" /\ stage' = "watching"
    /\ UNCHANGED <<saved, watched, queue, running, pending, loaded, recent, saves, unnoticed>>

\* on_modified: an event of another file of the same directory and one within the window
\* are dropped, any other one is the next trigger.
OnModified ==
    /\ stage = "watching" /\ ~running /\ queue # << >>
    /\ queue' = Tail(queue)
    /\ IF Head(queue) \notin watched \/ recent
       THEN UNCHANGED <<running, pending, loaded, recent, unnoticed>>
       ELSE /\ recent' = TRUE
            /\ running' = TRUE /\ pending' = <<Root>> /\ loaded' = << >>
            /\ unnoticed' = {}
    /\ UNCHANGED <<saved, stage, watched, saves>>

\* DEBOUNCE_SECONDS have passed since the trigger, whatever the run does meanwhile.
Tick ==
    /\ recent /\ recent' = FALSE
    /\ UNCHANGED <<saved, stage, watched, queue, running, pending, loaded, saves, unnoticed>>

\* Ctrl-C: observer.stop and observer.join, which waits for the run that is being executed.
Interrupt ==
    /\ stage = "watching" /\ stage' = "stopping"
    /\ UNCHANGED <<saved, watched, queue, running, pending, loaded, recent, saves, unnoticed>>

Stopped ==
    /\ stage = "stopping" /\ ~running /\ stage' = "stopped"
    /\ UNCHANGED <<saved, watched, queue, running, pending, loaded, recent, saves, unnoticed>>

-----------------------------------------------------------------------------
(* A file is saved.  An editor that renames a new file over the old one    *)
(* causes no `modified` event of the file.                                 *)

Save ==
    /\ saves < MaxSaves /\ saves' = saves + 1
    /\ \E f \in Files, c \in Contents, in_place \in BOOLEAN :
          /\ c # saved[f] /\ saved' = [saved EXCEPT ![f] = c]
          /\ \/ queue' = Append(queue, f) /\ stage = "watching" /\ in_place
             \/ UNCHANGED queue /\ ~(stage = "watching" /\ in_place)
             \/ UNCHANGED queue /\ queue # << >> /\ queue[Len(queue)] = f
          /\ unnoticed' = IF stage = "watching" /\ in_place /\ ~recent
                          THEN unnoticed ELSE unnoticed \cup {f}
    /\ UNCHANGED <<stage, watched, running, pending, loaded, recent>>

WatchNext ==
    \/ LoadFile \/ RunEnds
    \/ Collect \/ StartObserver \/ OnModified \/ Tick \/ Interrupt \/ Stopped
    \/ Save

WatchSpec == WatchInit /\ [][WatchNext]_watchVars

-----------------------------------------------------------------------------
(* Properties.                                                             *)

\* However long a run takes and however many saves come during it: when watch mode is idle,
\* what the last run loaded of a watched file is what the file contains.  The exceptions are
\* the saves before the observer was started, those that replace the file, and those less
\* than DEBOUNCE_SECONDS after the last trigger, which are dropped even when that run has
\* loaded the file already.
SavesAreSeen ==
    stage = "watching" /\ ~running /\ queue = << >> =>
        \A f \in (watched \cap DOMAIN loaded) \ unnoticed : loaded[f] = saved[f]
=============================================================================
