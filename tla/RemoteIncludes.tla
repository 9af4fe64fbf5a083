--------------------------- MODULE RemoteIncludes ---------------------------
(***************************************************************************)
(* vendor.py, include_cache.py and the part of config/loader.py that finds *)
(* remote includes: bitrab processes that load a configuration, online or  *)
(* offline, or run `bitrab vendor`, over one project directory, while the  *)
(* local files are edited, the servers publish new versions and processes  *)
(* are killed.  A content is its URL and its version; what it includes in  *)
(* turn is Nested.  Contents that do not parse, includes with inputs, and  *)
(* what the includes are merged into, are left out.                        *)
(***************************************************************************)
EXTENDS Integers, Sequences, FiniteSets, SequencesExt

CONSTANTS
    Urls, Versions,
    Roots,         \* what the local files may include: sequences of URLs
    Nested,        \* Nested[u][v]: what version v of u includes, in order
    Processes,
    MaxChanges,    \* bound on the edits and the changes of what the servers answer
    MaxStarts,     \* bound on the processes started
    None           \* no answer, no file

ASSUME RootsAssumption == Roots \subseteq Seq(Urls)
ASSUME NestedAssumption == Nested \in [Urls -> [Versions -> Seq(Urls)]]
ASSUME BoundsAssumption == MaxChanges \in Nat /\ MaxStarts \in Nat
ASSUME NoneAssumption == None \notin UNION {[urls -> Versions] : urls \in SUBSET Urls}

VARIABLES
    roots,      \* the URLs that the local files include, in some order
    served,     \* the version that each server answers with, or None
    lockfile,   \* vendor.lock: the version of each locked URL; or None
    payload,    \* the files under .bitrab/vendor
    cached,     \* .bitrab/include-cache: [version, fresh], or None
    process,    \* what each process does
    changes, starts,
    whole,      \* ghost: a `bitrab vendor` was completed since the last edit, and none
                \* began to write since
    steady      \* ghost: the loads during which nothing was edited and no vendor.lock written

store == <<lockfile, payload, cached>>
ghosts == <<whole, steady>>
vars == <<roots, served, store, process, changes, starts, ghosts>>

Idle == [kind |-> "none"]

Init ==
    /\ roots \in Roots /\ served \in [Urls -> Versions]
    /\ lockfile = None /\ payload = [u \in Urls |-> None] /\ cached = [u \in Urls |-> None]
    /\ process = [p \in Processes |-> Idle]
    /\ changes = 0 /\ starts = 0
    /\ whole = FALSE /\ steady = {}

Locked == IF lockfile = None THEN {} ELSE DOMAIN lockfile
Busy(p, kind) == process[p].kind = kind

\* What is known of some URLs, and of one more
With(known, u, version) ==
    [x \in DOMAIN known \cup {u} |-> IF x \in DOMAIN known THEN known[x] ELSE version]

\* The FileLock on vendor.lock.lock, which the system releases when its holder is killed.
\* A load holds it for one read only.
LockFree == \A p \in Processes : ~Busy(p, "vendor")

-----------------------------------------------------------------------------
(* bitrab vendor.                                                          *)

Vendor(p) ==
    /\ process[p] = Idle /\ starts < MaxStarts /\ LockFree
    /\ starts' = starts + 1
    /\ process' = [process EXCEPT ![p] =
                      [ kind |-> "vendor", from |-> roots, pending |-> roots,
                        payloads |-> << >>, left |-> {} ]]
    /\ UNCHANGED <<roots, served, store, changes, ghosts>>

\* (mutant) the includes of what was fetched are not followed
FetchRootsOnly(p) ==
    /\ Busy(p, "vendor") /\ process[p].pending # << >>
    /\ LET u == Head(process[p].pending)
           got == process[p].payloads
       IN  IF u \in DOMAIN got \/ served[u] # None
           THEN process' = [process EXCEPT
                    ![p].pending = Tail(@),
                    ![p].payloads = IF u \in DOMAIN got THEN @ ELSE With(@, u, served[u]),
                    ![p].left = IF u \in DOMAIN got THEN @ ELSE @ \cup {u}]
           ELSE process' = [process EXCEPT ![p] = Idle]
    /\ UNCHANGED <<roots, served, store, changes, starts, ghosts>>

\* The next pending URL is fetched and what it includes is pending as well; a server that
\* does not answer ends the whole command, which has written nothing yet.
Fetch(p) ==
    /\ Busy(p, "vendor") /\ process[p].pending # << >>
    /\ LET u == Head(process[p].pending)
           got == process[p].payloads
       IN  \/ /\ u \in DOMAIN got
              /\ process' = [process EXCEPT ![p].pending = Tail(@)]
           \/ /\ u \notin DOMAIN got /\ served[u] = None
              /\ process' = [process EXCEPT ![p] = Idle]
           \/ /\ u \notin DOMAIN got /\ served[u] # None
              /\ process' = [process EXCEPT
                    ![p].pending = Tail(@) \o Nested[u][served[u]],
                    ![p].payloads = With(@, u, served[u]),
                    ![p].left = @ \cup {u}]
    /\ UNCHANGED <<roots, served, store, changes, starts, ghosts>>

\* One _atomic_write after the other
WritePayload(p) ==
    /\ Busy(p, "vendor") /\ process[p].pending = << >>
    /\ \E u \in process[p].left :
          /\ payload' = [payload EXCEPT ![u] = process[p].payloads[u]]
          /\ process' = [process EXCEPT ![p].left = @ \ {u}]
    /\ whole' = FALSE
    /\ UNCHANGED <<roots, served, lockfile, cached, changes, starts, steady>>

WriteLock(p) ==
    /\ Busy(p, "vendor") /\ process[p].pending = << >> /\ process[p].left = {}
    /\ lockfile' = process[p].payloads
    /\ process' = [process EXCEPT ![p] = Idle]
    /\ whole' = (process[p].from = roots) /\ steady' = {}
    /\ UNCHANGED <<roots, served, payload, cached, changes, starts>>

\* (mutant) the file is not compared with the lock
PresentPayload(u) == payload[u] # None

\* What read_vendored and check_vendor accept: the file is there and has the locked hash.
ValidPayload(u) == payload[u] = lockfile[u]

\* A set that has what the local files include and, with a locked URL whose file is valid,
\* what that file includes: check_vendor parses no other file.
Follows(urls) ==
    /\ ToSet(roots) \subseteq urls
    /\ \A u \in urls \cap Locked :
          payload[u] = lockfile[u] => ToSet(Nested[u][lockfile[u]]) \subseteq urls

\* What check_vendor reaches from the local files: the least such set.
Reached == {u \in Urls : \A urls \in SUBSET Urls : Follows(urls) => u \in urls}

\* (mutant) only the files are compared with the lock
CheckFiles == \A u \in Locked : payload[u] = lockfile[u]

\* check_vendor has no error to report.
CheckVendor == (\A u \in Locked : payload[u] = lockfile[u]) /\ Reached \subseteq Locked

-----------------------------------------------------------------------------
(* Loading a configuration: _process_includes and _fetch_remote_yaml.      *)

Load(p) ==
    /\ process[p] = Idle /\ starts < MaxStarts
    /\ starts' = starts + 1
    /\ \E offline, no_include_cache \in BOOLEAN :
          process' = [process EXCEPT ![p] =
              [ kind |-> "load", at |-> "next", pending |-> roots, used |-> << >>,
                offline |-> offline, no_include_cache |-> no_include_cache ]]
    /\ steady' = steady \cup {p}
    /\ UNCHANGED <<roots, served, store, changes, whole>>

\* An include that was expanded before is skipped; what a new one includes comes before
\* what comes after it.
Used(p, u, version) ==
    process' = [process EXCEPT ![p].at = "next",
                               ![p].pending = Nested[u][version] \o Tail(@),
                               ![p].used = With(@, u, version)]

Fails(p) == process' = [process EXCEPT ![p].at = "failed"]

\* read_vendored, which takes the lock if there is a lock file.  It may wait for the lock
\* in vain.
ReadVendored(p) ==
    /\ Busy(p, "load") /\ process[p].at = "next" /\ process[p].pending # << >>
    /\ LET u == Head(process[p].pending) IN
       \/ /\ u \in DOMAIN process[p].used
          /\ process' = [process EXCEPT ![p].pending = Tail(@)]
       \/ /\ u \notin DOMAIN process[p].used /\ lockfile # None /\ ~LockFree
          /\ Fails(p)
       \/ /\ u \notin DOMAIN process[p].used /\ (lockfile = None \/ LockFree)
          /\ \/ u \in Locked /\ ValidPayload(u) /\ Used(p, u, payload[u])
             \/ u \in Locked /\ ~ValidPayload(u) /\ Fails(p)
             \/ u \notin Locked /\ process[p].offline /\ Fails(p)
             \/ /\ u \notin Locked /\ ~process[p].offline
                /\ process' = [process EXCEPT ![p].at = "remote"]
    /\ UNCHANGED <<roots, served, store, changes, starts, ghosts>>

Fresh(u) == cached[u] # None /\ cached[u].fresh

\* read_cached, else the server, and then write_cached
FetchRemote(p) ==
    /\ Busy(p, "load") /\ process[p].at = "remote"
    /\ LET u == Head(process[p].pending)
           with_cache == ~process[p].no_include_cache
       IN  \/ /\ with_cache /\ Fresh(u)
              /\ Used(p, u, cached[u].version) /\ UNCHANGED cached
           \/ /\ ~(with_cache /\ Fresh(u)) /\ served[u] = None
              /\ Fails(p) /\ UNCHANGED cached
           \/ /\ ~(with_cache /\ Fresh(u)) /\ served[u] # None
              /\ Used(p, u, served[u])
              /\ cached' = IF with_cache
                           THEN [cached EXCEPT ![u] = [version |-> served[u], fresh |-> TRUE]]
                           ELSE cached
    /\ UNCHANGED <<roots, served, lockfile, payload, changes, starts, ghosts>>

\* The load is done, or has failed.
Leave(p) ==
    /\ Busy(p, "load")
    /\ process[p].at = "failed" \/ (process[p].at = "next" /\ process[p].pending = << >>)
    /\ process' = [process EXCEPT ![p] = Idle] /\ steady' = steady \ {p}
    /\ UNCHANGED <<roots, served, store, changes, starts, whole>>

-----------------------------------------------------------------------------
(* The world around.                                                       *)

Kill(p) ==
    /\ process[p] # Idle
    /\ process' = [process EXCEPT ![p] = Idle] /\ steady' = steady \ {p}
    /\ UNCHANGED <<roots, served, store, changes, starts, whole>>

\* The local files are edited.
Edit ==
    /\ changes < MaxChanges /\ changes' = changes + 1
    /\ \E other \in Roots : other # roots /\ roots' = other
    /\ whole' = FALSE /\ steady' = {}
    /\ UNCHANGED <<served, store, process, starts>>

Publish ==
    /\ changes < MaxChanges /\ changes' = changes + 1
    /\ \E u \in Urls, v \in Versions \cup {None} : v # served[u] /\ served' = [served EXCEPT ![u] = v]
    /\ UNCHANGED <<roots, store, process, starts, ghosts>>

\* The time to live of a cached response is over.
Expire ==
    /\ \E u \in Urls : Fresh(u) /\ cached' = [cached EXCEPT ![u].fresh = FALSE]
    /\ UNCHANGED <<roots, served, lockfile, payload, process, changes, starts, ghosts>>

Next ==
    \/ \E p \in Processes :
          \/ Vendor(p) \/ Fetch(p) \/ WritePayload(p) \/ WriteLock(p)
          \/ Load(p) \/ ReadVendored(p) \/ FetchRemote(p) \/ Leave(p) \/ Kill(p)
    \/ Edit
    \/ Publish
    \/ Expire

Spec == Init /\ [][Next]_vars

-----------------------------------------------------------------------------
(* Properties.                                                             *)

\* What `bitrab vendor` leaves is complete, whatever the servers did while it fetched and
\* however often it was killed before: --check has nothing to report, so no URL that the
\* locked contents include, directly or not, is missing.
SnapshotIsComplete == whole => CheckVendor

\* When --check has nothing to report, a load that no `bitrab vendor` interferes with neither
\* fails nor asks for anything that is not in the snapshot.
CheckedNeedsNoNetwork ==
    [][ \A p \in steady \cap steady' :
            process[p].at = "next" /\ lockfile # None /\ CheckVendor /\ LockFree =>
                process'[p].at = "next" ]_vars

\* Of what is locked a load uses the locked version or nothing: what a `bitrab vendor` left
\* that was killed while it wrote is found out.  A load during which vendor.lock was written
\* may have used two snapshots.
LockedOrNothing ==
    \A p \in steady : \A u \in DOMAIN process[p].used \cap Locked : process[p].used[u] = lockfile[u]
=============================================================================
