---------------------------- MODULE CacheStore ----------------------------
(***************************************************************************)
(* execution/cache.py over utils/filelock.py: jobs that restore and save   *)
(* the entries of their cache: sections, each job in a tree of its own.    *)
(* The store is shared and keeps, per key, generations, a pointer to the   *)
(* live one and a lock file.  A job may be killed between any two steps;   *)
(* the system then drops its lock, and nothing else is cleaned up.         *)
(***************************************************************************)
EXTENDS Integers, Sequences, FiniteSets

CONSTANTS
    Jobs,          \* the processes or threads that run a job
    Files,         \* the paths a cache: section matches
    Literals,      \* the keys that are written as a string
    MaxEntries,    \* bound on the entries of a cache: section
    Workloads,     \* the cache: sections considered
    NoJob,         \* nobody has the lock
    None           \* no file, no generation, no snapshot

Versions == Jobs \cup {None}
Trees == [Files -> Versions]

\* resolve_cache_key: a string, or what the files of key: files: hold
Keys == Literals \cup UNION {[S -> Versions] : S \in (SUBSET Files) \ {{}}}

CacheConfig ==
    [ key : Literals, key_files : SUBSET Files,
      policy : {"pull-push", "pull", "push"},
      when : {"on_success", "on_failure", "always"} ]

\* The save of entry i by job j makes generation <<j, i>>.
Generations == Jobs \X (1..MaxEntries)

ASSUME NobodyAssumption == NoJob \notin Jobs /\ None \notin Jobs \cup Generations
ASSUME BoundAssumption == MaxEntries \in Nat
ASSUME WorkloadsAssumption ==
    Workloads \subseteq [Jobs -> {s \in Seq(CacheConfig) : Len(s) <= MaxEntries}]

VARIABLES
    cache,      \* the cache: section of each job; never changes
    tree,       \* the files of each job's working directory
    pc, entry,  \* where each job is, and at which entry
    key,        \* the key its entry was resolved to
    source,     \* the generation it is copying from
    todo,       \* the files it has still to copy
    copied,     \* the files it copied from that generation
    succeeded,  \* the verdict of its script
    staged,     \* its directory under .tmp
    disk,       \* the generations of each key, as key -> generation -> files
    latest,     \* the pointer file of each key
    pointers,   \* the latest.*.tmp files of each key, as the generations they name
    stuck,      \* the generations rmtree has failed to remove
    lock,       \* who has the lock file of each key
    answer,     \* the latest restore of each job, for the properties
    broken      \* who was killed while publishing under each key, since the last
                \* publication under it that ended; for the properties

local == <<tree, entry, key, source, todo, copied, succeeded, staged, answer>>
store == <<disk, latest, pointers, stuck, broken>>
vars == <<cache, pc, lock, local, store>>

PCs == {"restore", "restore_wait", "read", "copy", "work",
        "save", "save_wait", "publish", "point", "replace", "collect", "done", "dead"}
Published == {"point", "replace", "collect"}
Holding == {"read", "copy", "publish", "point", "replace", "collect"}

LitterTypeOK ==
    /\ pointers \in [Keys -> SUBSET Generations] /\ stuck \in SUBSET Generations
    /\ broken \in [Keys -> SUBSET Jobs]

TypeOK ==
    /\ cache \in Workloads
    /\ tree \in [Jobs -> Trees] /\ pc \in [Jobs -> PCs]
    /\ entry \in [Jobs -> 1..(MaxEntries + 1)] /\ key \in [Jobs -> Keys \cup {None}]
    /\ source \in [Jobs -> Generations \cup {None}]
    /\ todo \in [Jobs -> SUBSET Files] /\ copied \in [Jobs -> Trees]
    /\ succeeded \in [Jobs -> BOOLEAN] /\ staged \in [Jobs -> Trees \cup {None}]
    /\ DOMAIN disk = Keys
    /\ \A k \in Keys : DOMAIN disk[k] \subseteq Generations /\ disk[k] \in [DOMAIN disk[k] -> Trees]
    /\ latest \in [Keys -> Generations \cup {None}] /\ lock \in [Keys -> Jobs \cup {NoJob}]
    /\ answer \in [Jobs -> {None} \cup (Keys \X (Trees \cup {None}))]
    /\ LitterTypeOK

NoFiles == [f \in Files |-> None]
Present(t) == {f \in Files : t[f] # None}

Init ==
    /\ cache \in Workloads
    /\ tree = [j \in Jobs |-> NoFiles]
    /\ pc = [j \in Jobs |-> "restore"]
    /\ entry = [j \in Jobs |-> 1]
    /\ key = [j \in Jobs |-> None]
    /\ source = [j \in Jobs |-> None]
    /\ todo = [j \in Jobs |-> {}]
    /\ copied = [j \in Jobs |-> NoFiles]
    /\ succeeded = [j \in Jobs |-> FALSE]
    /\ staged = [j \in Jobs |-> None]
    /\ disk = [k \in Keys |-> << >>]
    /\ latest = [k \in Keys |-> None]
    /\ lock = [k \in Keys |-> NoJob]
    /\ answer = [j \in Jobs |-> None]
    /\ pointers = [k \in Keys |-> {}] /\ stuck = {}
    /\ broken = [k \in Keys |-> {}]

-----------------------------------------------------------------------------
(* Helpers.                                                                *)

Goto(j, where) == pc' = [pc EXCEPT ![j] = where]
Config(j) == cache[j][entry[j]]
HasEntry(j) == entry[j] <= Len(cache[j])
NextEntry(j) == entry' = [entry EXCEPT ![j] = @ + 1]

ResolveCacheKey(j) ==
    LET c == Config(j) IN
    IF c.key_files = {} THEN c.key ELSE [f \in c.key_files |-> tree[j][f]]

\* restore_caches and save_caches: the entries they pass over
Restorable(j) == Config(j).policy # "push"
Saveable(j) ==
    /\ Config(j).policy # "pull"
    /\ Config(j).when = "always" \/ (Config(j).when = "on_success") = succeeded[j]

\* FileLock.acquire succeeds at one of its polls.
Lock(j) == lock[key[j]] = NoJob /\ lock' = [lock EXCEPT ![key[j]] = j]
Unlock(j) == lock' = [lock EXCEPT ![key[j]] = NoJob]
\* FileLock.acquire raises FileLockTimeout: at its last poll somebody else had the lock.
LockTimeout(j) == lock[key[j]] # NoJob

-----------------------------------------------------------------------------
(* restore_caches, restore_cache_entry, read_latest_generation,            *)
(* copy_tree_into.                                                         *)

RestoreEntry(j) ==
    /\ pc[j] = "restore" /\ HasEntry(j)
    /\ IF Restorable(j)
       THEN Goto(j, "restore_wait") /\ key' = [key EXCEPT ![j] = ResolveCacheKey(j)] /\ UNCHANGED entry
       ELSE NextEntry(j) /\ UNCHANGED <<pc, key>>
    /\ UNCHANGED <<cache, tree, source, todo, copied, succeeded, staged, answer, store, lock>>

RestoresDone(j) ==
    /\ pc[j] = "restore" /\ ~HasEntry(j)
    /\ Goto(j, "work")
    /\ UNCHANGED <<cache, local, store, lock>>

\* (mutant) a restore only reads, so it takes no lock
RestoreUnlocked(j) ==
    /\ pc[j] = "restore_wait"
    /\ Goto(j, "read")
    /\ UNCHANGED <<cache, local, store, lock>>

RestoreLocked(j) ==
    /\ pc[j] = "restore_wait"
    /\ Lock(j)
    /\ Goto(j, "read")
    /\ UNCHANGED <<cache, local, store>>

RestoreSkipped(j) ==
    /\ pc[j] = "restore_wait"
    /\ LockTimeout(j)
    /\ Goto(j, "restore") /\ NextEntry(j)
    /\ UNCHANGED <<cache, tree, key, source, todo, copied, succeeded, staged, answer, store, lock>>

\* No pointer, or a pointer to nothing, is a miss.
ReadLatest(j) ==
    LET k == key[j] IN
    /\ pc[j] = "read"
    /\ \/ /\ latest[k] \notin DOMAIN disk[k]
          /\ answer' = [answer EXCEPT ![j] = <<k, None>>]
          /\ Unlock(j) /\ Goto(j, "restore") /\ NextEntry(j)
          /\ UNCHANGED <<source, todo, copied>>
       \/ /\ latest[k] \in DOMAIN disk[k]
          /\ source' = [source EXCEPT ![j] = latest[k]]
          /\ todo' = [todo EXCEPT ![j] = Present(disk[k][latest[k]])]
          /\ copied' = [copied EXCEPT ![j] = NoFiles]
          /\ Goto(j, "copy")
          /\ UNCHANGED <<lock, answer, entry>>
    /\ UNCHANGED <<cache, tree, key, succeeded, staged, store>>

\* One file; a generation collected meanwhile has none.
CopyFile(j, f) ==
    LET k == key[j]
        v == IF source[j] \in DOMAIN disk[k] THEN disk[k][source[j]][f] ELSE None IN
    /\ pc[j] = "copy" /\ f \in todo[j]
    /\ todo' = [todo EXCEPT ![j] = @ \ {f}]
    /\ copied' = [copied EXCEPT ![j][f] = v]
    /\ tree' = [tree EXCEPT ![j][f] = v]
    /\ UNCHANGED <<cache, pc, lock, entry, key, source, succeeded, staged, answer, store>>

Restored(j) ==
    /\ pc[j] = "copy" /\ todo[j] = {}
    /\ answer' = [answer EXCEPT ![j] = <<key[j], copied[j]>>]
    /\ Unlock(j) /\ Goto(j, "restore") /\ NextEntry(j)
    /\ UNCHANGED <<cache, tree, key, source, todo, copied, succeeded, staged, store>>

-----------------------------------------------------------------------------
\* The scripts of the job write some of the files and pass or fail.
Work(j) ==
    /\ pc[j] = "work"
    /\ \E W \in SUBSET Files : tree' = [tree EXCEPT ![j] = [f \in Files |-> IF f \in W THEN j ELSE @[f]]]
    /\ \E s \in BOOLEAN : succeeded' = [succeeded EXCEPT ![j] = s]
    /\ entry' = [entry EXCEPT ![j] = 1]
    /\ Goto(j, "save")
    /\ UNCHANGED <<cache, key, source, todo, copied, staged, answer, store, lock>>

-----------------------------------------------------------------------------
(* save_caches, save_cache_entry, stage_matched_paths, publish_generation. *)

\* Staging needs no lock; with nothing matched there is nothing to save.
SaveEntry(j) ==
    /\ pc[j] = "save" /\ HasEntry(j)
    /\ IF Saveable(j) /\ Present(tree[j]) # {}
       THEN /\ key' = [key EXCEPT ![j] = ResolveCacheKey(j)]
            /\ staged' = [staged EXCEPT ![j] = tree[j]]
            /\ Goto(j, "save_wait")
            /\ UNCHANGED entry
       ELSE NextEntry(j) /\ UNCHANGED <<pc, key, staged>>
    /\ UNCHANGED <<cache, tree, source, todo, copied, succeeded, answer, store, lock>>

SavesDone(j) ==
    /\ pc[j] = "save" /\ ~HasEntry(j)
    /\ Goto(j, "done")
    /\ UNCHANGED <<cache, local, store, lock>>

\* (mutant) a save does not wait for the restores
SaveUnlocked(j) ==
    /\ pc[j] = "save_wait"
    /\ lock' = [lock EXCEPT ![key[j]] = j]
    /\ Goto(j, "publish")
    /\ UNCHANGED <<cache, local, store>>

SaveLocked(j) ==
    /\ pc[j] = "save_wait"
    /\ Lock(j)
    /\ Goto(j, "publish")
    /\ UNCHANGED <<cache, local, store>>

SaveSkipped(j) ==
    /\ pc[j] = "save_wait"
    /\ LockTimeout(j)
    /\ staged' = [staged EXCEPT ![j] = None]
    /\ Goto(j, "save") /\ NextEntry(j)
    /\ UNCHANGED <<cache, tree, key, source, todo, copied, succeeded, answer, store, lock>>

\* os.replace(staged_dir, gen_dir)
Publish(j) ==
    LET k == key[j]
        g == <<j, entry[j]>> IN
    /\ pc[j] = "publish"
    /\ disk' = [disk EXCEPT ![k] = [h \in DOMAIN @ \cup {g} |-> IF h = g THEN staged[j] ELSE @[h]]]
    /\ staged' = [staged EXCEPT ![j] = None]
    /\ Goto(j, "point")
    /\ UNCHANGED <<cache, tree, entry, key, source, todo, copied, succeeded, answer,
                   latest, pointers, stuck, broken, lock>>

\* pointer_tmp.write_text(generation)
WritePointer(j) ==
    /\ pc[j] = "point"
    /\ pointers' = [pointers EXCEPT ![key[j]] = @ \cup {<<j, entry[j]>>}]
    /\ Goto(j, "replace")
    /\ UNCHANGED <<cache, local, disk, latest, stuck, broken, lock>>

\* os.replace(pointer_tmp, kdir / LATEST_POINTER)
Point(j) ==
    /\ pc[j] = "replace"
    /\ latest' = [latest EXCEPT ![key[j]] = <<j, entry[j]>>]
    /\ pointers' = [pointers EXCEPT ![key[j]] = @ \ {<<j, entry[j]>>}]
    /\ Goto(j, "collect")
    /\ UNCHANGED <<cache, local, disk, stuck, broken, lock>>

EndSave(j) ==
    /\ Unlock(j) /\ Goto(j, "save") /\ NextEntry(j)
    /\ broken' = [broken EXCEPT ![key[j]] = {}]

\* (mutant) one superseded generation is enough
CollectOne(j) ==
    LET k == key[j]
        old == DOMAIN disk[k] \ {<<j, entry[j]>>} IN
    /\ pc[j] = "collect"
    /\ IF old = {} THEN UNCHANGED disk
       ELSE \E g \in old : disk' = [disk EXCEPT ![k] = [h \in DOMAIN @ \ {g} |-> @[h]]]
    /\ EndSave(j)
    /\ UNCHANGED <<cache, tree, key, source, todo, copied, succeeded, staged, answer,
                   latest, pointers, stuck>>

\* The directories of superseded generations are removed one after another, where rmtree
\* can; whatever else the directory of the key holds stays.  Then the lock is released.
Collect(j) ==
    LET k == key[j]
        old == DOMAIN disk[k] \ {<<j, entry[j]>>} IN
    /\ pc[j] = "collect"
    /\ \/ /\ \E g \in old : disk' = [disk EXCEPT ![k] = [h \in DOMAIN @ \ {g} |-> @[h]]]
          /\ UNCHANGED <<pc, lock, entry, stuck, broken>>
       \/ /\ \E g \in old \ stuck : stuck' = stuck \cup {g}
          /\ UNCHANGED <<pc, lock, entry, disk, broken>>
       \/ /\ old \subseteq stuck
          /\ EndSave(j)
          /\ UNCHANGED <<disk, stuck>>
    /\ UNCHANGED <<cache, tree, key, source, todo, copied, succeeded, staged, answer,
                   latest, pointers>>

\* The process is killed: the system releases its lock; .tmp and the store stay as they are.
Die(j) ==
    /\ pc[j] \notin {"done", "dead"}
    /\ lock' = [k \in Keys |-> IF lock[k] = j THEN NoJob ELSE lock[k]]
    /\ broken' = IF pc[j] \in Published THEN [broken EXCEPT ![key[j]] = @ \cup {j}] ELSE broken
    /\ Goto(j, "dead")
    /\ UNCHANGED <<cache, local, disk, latest, pointers, stuck>>

-----------------------------------------------------------------------------
Step(j) ==
    \/ RestoreEntry(j) \/ RestoresDone(j) \/ RestoreLocked(j) \/ RestoreSkipped(j)
    \/ ReadLatest(j) \/ (\E f \in Files : CopyFile(j, f)) \/ Restored(j)
    \/ Work(j)
    \/ SaveEntry(j) \/ SavesDone(j) \/ SaveLocked(j) \/ SaveSkipped(j)
    \/ Publish(j) \/ WritePointer(j) \/ Point(j) \/ Collect(j)

Next == \E j \in Jobs : Step(j) \/ Die(j)
Spec == Init /\ [][Next]_vars

-----------------------------------------------------------------------------
(* Properties.                                                             *)

\* A pointer never names a generation that is not there, not even between two steps of a
\* publication, nor after a crash in the middle of one: what has been saved once can
\* always be restored (publish_generation).
PointerNeverDangles ==
    \A k \in Keys : latest[k] = None \/ latest[k] \in DOMAIN disk[k]

\* the pointers of j not put in place, as <<key, entry>>
Unfinished(j) == {p \in Keys \X (1..MaxEntries) : <<j, p[2]>> \in pointers[p[1]]}

\* What a save leaves on the disk.  The generations of a key that nobody has locked are the
\* live one, at most one more for each job killed between the rename and the end of a
\* publication since the last publication that did end, and those rmtree cannot remove: the
\* next publication collects what a kill leaves there.  A directory under .tmp and a pointer
\* that was never put in place stay for good, and only of a job that was killed, at most one
\* of the two for each (save_cache_entry, publish_generation).
LitterIsOfKills ==
    /\ \A k \in Keys :
          lock[k] = NoJob =>
              Cardinality(DOMAIN disk[k] \ stuck) <= 1 + Cardinality(broken[k])
    /\ \A j \in Jobs :
          /\ staged[j] # None =>
                 pc[j] \in {"save_wait", "publish", "dead"} /\ Unfinished(j) = {}
          /\ Unfinished(j) # {} => pc[j] \in {"replace", "dead"}
          /\ \A p, q \in Unfinished(j) : p = q

Register == INSTANCE CacheRegister WITH
    Miss <- None,
    offered <- tree,
    value <- [k \in Keys |-> IF latest[k] \in DOMAIN disk[k] THEN disk[k][latest[k]] ELSE None]

\* The store is one register per key: a restore returns one whole snapshot, the live one,
\* although it copies file by file; a save replaces it at one instant by everything the job
\* had in its tree; neither is disturbed by other jobs, timeouts of locks or crashes.
ImplementsRegister == Register!Spec
=============================================================================
