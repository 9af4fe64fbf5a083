------------------------ MODULE PreparationProofs ------------------------
(***************************************************************************)
(* What is prepared before the jobs start, for every value of the          *)
(* constants: the snapshot that `bitrab vendor` leaves and the loads that  *)
(* use it (RemoteIncludes), the checkouts of parallel jobs (Worktrees),    *)
(* the saves that trigger a run (Watch) and the jobs that a configuration  *)
(* plans (Planning).                                                       *)
(***************************************************************************)
EXTENDS RemoteIncludes, Worktrees, Watch, Planning, SequenceTheorems, WellFoundedInduction, TLAPS

-----------------------------------------------------------------------------
(* The elements of sequences.                                              *)

\* A sequence that is not empty has its head and the elements of its tail.
LEMMA SetOfHeadAndTail ==
    ASSUME NEW S, NEW s \in Seq(S), s # << >>
    PROVE  /\ Head(s) \in S /\ Tail(s) \in Seq(S)
           /\ ToSet(s) = {Head(s)} \cup ToSet(Tail(s))
<1>1. Head(s) \in S /\ Tail(s) \in Seq(S) /\ Len(s) \in Nat /\ Len(s) >= 1
  OBVIOUS
<1>2. Len(Tail(s)) = Len(s) - 1 /\ \A i \in 1..(Len(s) - 1) : Tail(s)[i] = s[i + 1]
  OBVIOUS
<1>3. ASSUME NEW x \in ToSet(s) PROVE x \in {Head(s)} \cup ToSet(Tail(s))
  <2>1. PICK i \in 1..Len(s) : x = s[i]
    BY <1>3 DEF ToSet
  <2>2. CASE i = 1
    BY <2>1, <2>2
  <2>3. CASE i # 1
    <3>1. i - 1 \in 1..Len(Tail(s)) /\ Tail(s)[i - 1] = x
      BY <1>1, <1>2, <2>1, <2>3
    <3>2. i - 1 \in DOMAIN Tail(s)
      BY <1>1, <3>1
    <3> QED
      BY <3>1, <3>2 DEF ToSet
  <2> QED
    BY <2>2, <2>3
<1>4. ASSUME NEW x \in ToSet(Tail(s)) PROVE x \in ToSet(s)
  <2>1. PICK i \in 1..Len(Tail(s)) : x = Tail(s)[i]
    BY <1>1, <1>4 DEF ToSet
  <2>2. i + 1 \in 1..Len(s) /\ s[i + 1] = x
    BY <1>1, <1>2, <2>1
  <2> QED
    BY <2>2 DEF ToSet
<1>5. Head(s) \in ToSet(s)
  <2>1. 1 \in DOMAIN s /\ Head(s) = s[1]
    BY <1>1
  <2> QED
    BY <2>1 DEF ToSet
<1> QED
  BY <1>1, <1>3, <1>4, <1>5

\* A concatenation has the elements of both sequences.
LEMMA SetOfConcat ==
    ASSUME NEW S, NEW s \in Seq(S), NEW t \in Seq(S)
    PROVE  s \o t \in Seq(S) /\ ToSet(s \o t) = ToSet(s) \cup ToSet(t)
<1>1. /\ s \o t \in Seq(S) /\ Len(s \o t) = Len(s) + Len(t)
      /\ Len(s) \in Nat /\ Len(t) \in Nat
  OBVIOUS
<1>2. \A i \in 1..Len(s) : (s \o t)[i] = s[i]
  OBVIOUS
<1>3. \A i \in 1..Len(t) : (s \o t)[i + Len(s)] = t[i]
  OBVIOUS
<1>4. DOMAIN s = 1..Len(s) /\ DOMAIN t = 1..Len(t) /\ DOMAIN (s \o t) = 1..(Len(s) + Len(t))
  BY <1>1
<1>5. ASSUME NEW x \in ToSet(s \o t) PROVE x \in ToSet(s) \cup ToSet(t)
  <2>1. PICK i \in 1..(Len(s) + Len(t)) : x = (s \o t)[i]
    BY <1>4, <1>5 DEF ToSet
  <2>2. CASE i \in 1..Len(s)
    BY <1>2, <1>4, <2>1, <2>2 DEF ToSet
  <2>3. CASE i \notin 1..Len(s)
    <3>1. i - Len(s) \in 1..Len(t) /\ (i - Len(s)) + Len(s) = i
      BY <1>1, <2>1, <2>3
    <3>2. t[i - Len(s)] = x
      BY <1>3, <2>1, <3>1
    <3> QED
      BY <1>4, <3>1, <3>2 DEF ToSet
  <2> QED
    BY <2>2, <2>3
<1>6. ASSUME NEW x \in ToSet(s) PROVE x \in ToSet(s \o t)
  <2>1. PICK i \in 1..Len(s) : x = s[i]
    BY <1>4, <1>6 DEF ToSet
  <2>2. i \in 1..(Len(s) + Len(t)) /\ (s \o t)[i] = x
    BY <1>1, <1>2, <2>1
  <2> QED
    BY <1>4, <2>2 DEF ToSet
<1>7. ASSUME NEW x \in ToSet(t) PROVE x \in ToSet(s \o t)
  <2>1. PICK i \in 1..Len(t) : x = t[i]
    BY <1>4, <1>7 DEF ToSet
  <2>2. i + Len(s) \in 1..(Len(s) + Len(t)) /\ (s \o t)[i + Len(s)] = x
    BY <1>1, <1>3, <2>1
  <2> QED
    BY <1>4, <2>2 DEF ToSet
<1> QED
  BY <1>1, <1>5, <1>6, <1>7

\* No element
LEMMA SetOfNone == ToSet(<< >>) = {}
BY DEF ToSet

-----------------------------------------------------------------------------
(* The snapshot.  While `bitrab vendor` runs, what it has fetched includes *)
(* nothing but what it has fetched or is about to fetch, and what it has   *)
(* written is what it has fetched.  Nobody else writes meanwhile, so what  *)
(* it leaves is closed under inclusion, and valid until the next one       *)
(* begins to write or the local files are edited.                          *)

Snapshots == UNION {[urls -> Versions] : urls \in SUBSET Urls}

\* What the first URLs and the known contents include is known or still to come.
Complete(known, first, rest) ==
    /\ ToSet(first) \subseteq DOMAIN known \cup ToSet(rest)
    /\ \A u \in DOMAIN known : ToSet(Nested[u][known[u]]) \subseteq DOMAIN known \cup ToSet(rest)

VendorOf(from, todo, payloads, left) ==
    [kind |-> "vendor", from |-> from, pending |-> todo, payloads |-> payloads, left |-> left]

\* What `bitrab vendor` knows is complete, and it has written nothing before it knows all.
Gathering(vendor) ==
    \E from \in Seq(Urls), todo \in Seq(Urls), payloads \in Snapshots, left \in SUBSET Urls :
        /\ vendor = VendorOf(from, todo, payloads, left)
        /\ left \subseteq DOMAIN payloads
        /\ Complete(payloads, from, todo)
        /\ todo # << >> => left = DOMAIN payloads
        /\ \A u \in DOMAIN payloads \ left : payload[u] = payloads[u]

FilesAreTyped ==
    /\ roots \in Seq(Urls)
    /\ served \in [Urls -> Versions \cup {None}]
    /\ DOMAIN payload = Urls
    /\ lockfile \in Snapshots \cup {None}
    /\ cached \in [Urls -> [version : Versions, fresh : BOOLEAN] \cup {None}]

VendorsGather ==
    /\ DOMAIN process = Processes
    /\ \A p \in Processes : "kind" \in DOMAIN process[p]
    /\ \A p \in Processes : Busy(p, "vendor") => Gathering(process[p])
    /\ \A p, o \in Processes : Busy(p, "vendor") /\ Busy(o, "vendor") => p = o

WholeIsComplete ==
    whole =>
        /\ lockfile # None
        /\ Complete(lockfile, roots, << >>)
        /\ \A u \in Locked : payload[u] = lockfile[u]

SnapshotInv == FilesAreTyped /\ VendorsGather /\ WholeIsComplete

\* Nothing is known at first.
LEMMA EmptyIsComplete ==
    ASSUME NEW first \in Seq(Urls)
    PROVE  << >> \in Snapshots /\ Complete(<< >>, first, first)
<1>1. << >> \in [{} -> Versions]
  OBVIOUS
<1>2. << >> \in Snapshots
  BY <1>1 DEF Snapshots
<1> QED
  BY <1>2 DEF Complete

\* A known content that is to come again can be left out.
LEMMA KnownIsSkipped ==
    ASSUME NEW known \in Snapshots, NEW first \in Seq(Urls), NEW rest \in Seq(Urls),
           rest # << >>, Complete(known, first, rest), Head(rest) \in DOMAIN known
    PROVE  Tail(rest) \in Seq(Urls) /\ Complete(known, first, Tail(rest))
<1>1. Tail(rest) \in Seq(Urls) /\ ToSet(rest) = {Head(rest)} \cup ToSet(Tail(rest))
  BY SetOfHeadAndTail
<1> QED
  BY <1>1 DEF Complete

\* One more known content
LEMMA OneMoreIsKnown ==
    ASSUME NEW known \in Snapshots, NEW u \in Urls, NEW version \in Versions, u \notin DOMAIN known
    PROVE  /\ With(known, u, version) \in Snapshots
           /\ DOMAIN With(known, u, version) = DOMAIN known \cup {u}
           /\ With(known, u, version)[u] = version
           /\ \A x \in DOMAIN known : With(known, u, version)[x] = known[x]
           /\ Nested[u][version] \in Seq(Urls)
<1>1. PICK urls \in SUBSET Urls : known \in [urls -> Versions]
  BY DEF Snapshots
<1>2. With(known, u, version) \in [urls \cup {u} -> Versions]
  BY <1>1 DEF With
<1>3. With(known, u, version) \in Snapshots
  BY <1>2 DEF Snapshots
<1> QED
  BY <1>3, NestedAssumption DEF With

\* What is fetched next is known, and what it includes is to come.
LEMMA FetchedIsComplete ==
    ASSUME NEW known \in Snapshots, NEW first \in Seq(Urls), NEW rest \in Seq(Urls),
           rest # << >>, Complete(known, first, rest), Head(rest) \notin DOMAIN known,
           NEW version \in Versions
    PROVE  LET u == Head(rest)
               more == Tail(rest) \o Nested[u][version]
           IN  /\ more \in Seq(Urls)
               /\ With(known, u, version) \in Snapshots
               /\ Complete(With(known, u, version), first, more)
<1> DEFINE u == Head(rest)
           included == Nested[u][version]
           more == Tail(rest) \o included
           now == With(known, u, version)
<1>1. u \in Urls /\ Tail(rest) \in Seq(Urls) /\ ToSet(rest) = {u} \cup ToSet(Tail(rest))
  BY SetOfHeadAndTail
<1> HIDE DEF u
<1>2. /\ now \in Snapshots /\ DOMAIN now = DOMAIN known \cup {u} /\ now[u] = version
      /\ \A x \in DOMAIN known : now[x] = known[x]
      /\ included \in Seq(Urls)
  <2>1. u \notin DOMAIN known
    BY DEF u
  <2>2. /\ With(known, u, version) \in Snapshots
        /\ DOMAIN With(known, u, version) = DOMAIN known \cup {u}
        /\ With(known, u, version)[u] = version
        /\ \A x \in DOMAIN known : With(known, u, version)[x] = known[x]
        /\ Nested[u][version] \in Seq(Urls)
    BY <1>1, <2>1, OneMoreIsKnown, Zenon
  <2> QED
    BY <2>2
<1>3. more \in Seq(Urls) /\ ToSet(more) = ToSet(Tail(rest)) \cup ToSet(included)
  <2> DEFINE waiting == Tail(rest)
  <2>1. waiting \in Seq(Urls) /\ included \in Seq(Urls)
    BY <1>1, <1>2
  <2> HIDE DEF included, waiting
  <2>2. waiting \o included \in Seq(Urls) /\ ToSet(waiting \o included) = ToSet(waiting) \cup ToSet(included)
    BY <2>1, SetOfConcat, Zenon
  <2> QED
    BY <2>2 DEF waiting
<1>4. Complete(now, first, more)
  <2>1. DOMAIN known \cup ToSet(rest) \subseteq DOMAIN now \cup ToSet(more)
    BY <1>1, <1>2, <1>3
  <2>2. ToSet(Nested[u][now[u]]) \subseteq DOMAIN now \cup ToSet(more)
    BY <1>2, <1>3
  <2> HIDE DEF now, more
  <2>3. \A x \in DOMAIN now : ToSet(Nested[x][now[x]]) \subseteq DOMAIN now \cup ToSet(more)
    BY <1>2, <2>1, <2>2 DEF Complete
  <2> QED
    BY <2>1, <2>3 DEF Complete
<1> QED
  BY <1>2, <1>3, <1>4 DEF u

\* A step of one process that writes no file keeps the invariant if what the process does
\* then is no `bitrab vendor`, or the only one, which gathers.
LEMMA OneGathers ==
    ASSUME SnapshotInv, NEW p \in Processes, NEW q, process' = [process EXCEPT ![p] = q],
           UNCHANGED <<roots, served, lockfile, payload, whole>>, FilesAreTyped',
           "kind" \in DOMAIN q,
           q.kind = "vendor" => Gathering(q) /\ (Busy(p, "vendor") \/ LockFree)
    PROVE  SnapshotInv'
<1>1. \A o \in Processes : process'[o] = IF o = p THEN q ELSE process[o]
  BY DEF SnapshotInv, VendorsGather
<1>2. DOMAIN process' = Processes
  BY DEF SnapshotInv, VendorsGather
<1>3. \A o \in Processes : "kind" \in DOMAIN process'[o]
  BY <1>1 DEF SnapshotInv, VendorsGather
<1>4. \A o \in Processes : Busy(o, "vendor")' =>
          \/ o = p /\ q.kind = "vendor" /\ process'[o] = q
          \/ o # p /\ Busy(o, "vendor") /\ process'[o] = process[o]
  BY <1>1 DEF Busy
<1>5. ASSUME NEW o \in Processes, Busy(o, "vendor")' PROVE Gathering(process'[o])
  BY <1>4, <1>5 DEF SnapshotInv, VendorsGather
<1>6. \A o \in Processes : Busy(o, "vendor")' => Gathering(process[o])'
  BY <1>5 DEF Gathering
<1>7. \A x, y \in Processes : Busy(x, "vendor")' /\ Busy(y, "vendor")' => x = y
  BY <1>4 DEF SnapshotInv, VendorsGather, LockFree
<1>8. WholeIsComplete'
  BY DEF SnapshotInv, WholeIsComplete, Complete, Locked
<1> QED
  BY <1>2, <1>3, <1>6, <1>7, <1>8 DEF SnapshotInv, VendorsGather

\* Nobody runs `bitrab vendor` at first.
LEMMA InitSnapshot == Init => SnapshotInv
<1> SUFFICES ASSUME Init PROVE SnapshotInv
  OBVIOUS
<1>1. FilesAreTyped
  BY RootsAssumption DEF Init, FilesAreTyped
<1>2. VendorsGather
  BY DEF Init, VendorsGather, Busy, Idle
<1> QED
  BY <1>1, <1>2 DEF Init, SnapshotInv, WholeIsComplete

\* A step of `bitrab vendor`
LEMMA FetchSnapshot == ASSUME SnapshotInv, NEW p \in Processes, Fetch(p) PROVE SnapshotInv'
<1> USE DEF store, ghosts
<1>1. UNCHANGED <<roots, served, lockfile, payload, cached, whole>> /\ FilesAreTyped'
  BY DEF Fetch, SnapshotInv, FilesAreTyped
<1>2. PICK from \in Seq(Urls), todo \in Seq(Urls), payloads \in Snapshots, left \in SUBSET Urls :
          /\ process[p] = VendorOf(from, todo, payloads, left)
          /\ left \subseteq DOMAIN payloads
          /\ Complete(payloads, from, todo)
          /\ todo # << >> => left = DOMAIN payloads
          /\ \A u \in DOMAIN payloads \ left : payload[u] = payloads[u]
  BY DEF Fetch, SnapshotInv, VendorsGather, Gathering
<1>3. process[p].pending = todo /\ process[p].payloads = payloads /\ process[p].left = left
  BY <1>2 DEF VendorOf
<1>4. todo # << >> /\ left = DOMAIN payloads
  BY <1>2, <1>3 DEF Fetch
<1> DEFINE u == Head(todo)
<1>5. u \in Urls
  BY <1>4, SetOfHeadAndTail
<1>6. CASE u \in DOMAIN payloads /\ process' = [process EXCEPT ![p].pending = Tail(@)]
  <2>1. PICK rest : rest = Tail(todo)
    OBVIOUS
  <2>2. rest \in Seq(Urls) /\ Complete(payloads, from, rest)
    BY <1>2, <1>4, <1>6, <2>1, KnownIsSkipped
  <2> DEFINE q == [process[p] EXCEPT !.pending = rest]
  <2>3. process' = [process EXCEPT ![p] = q]
    BY <1>3, <1>6, <2>1
  <2>4. q = VendorOf(from, rest, payloads, left)
    BY <1>2 DEF VendorOf
  <2> HIDE DEF q
  <2>5. Gathering(q) /\ "kind" \in DOMAIN q
    <3>1. Gathering(q)
      BY <1>2, <1>4, <2>2, <2>4 DEF Gathering
    <3> QED
      BY <2>4, <3>1 DEF VendorOf
  <2> QED
    BY <1>1, <2>3, <2>5, OneGathers DEF Fetch
<1>7. CASE process' = [process EXCEPT ![p] = Idle]
  <2>1. "kind" \in DOMAIN Idle /\ Idle.kind # "vendor"
    BY DEF Idle
  <2> QED
    BY <1>1, <1>7, <2>1, OneGathers
<1>8. CASE /\ u \notin DOMAIN payloads /\ served[u] # None
           /\ process' = [process EXCEPT
                  ![p].pending = Tail(@) \o Nested[u][served[u]],
                  ![p].payloads = With(@, u, served[u]),
                  ![p].left = @ \cup {u}]
  <2>1. served[u] \in Versions
    BY <1>5, <1>8 DEF SnapshotInv, FilesAreTyped
  <2>2. PICK more, now, new :
            more = Tail(todo) \o Nested[u][served[u]] /\ now = With(payloads, u, served[u])
            /\ new = left \cup {u}
    OBVIOUS
  <2>3. more \in Seq(Urls) /\ now \in Snapshots /\ Complete(now, from, more)
    BY <1>2, <1>4, <1>8, <2>1, <2>2, FetchedIsComplete
  <2>4. DOMAIN now = new /\ new \in SUBSET Urls
    BY <1>4, <1>5, <2>2 DEF With
  <2> DEFINE q1 == [process[p] EXCEPT !.pending = more]
             q2 == [q1 EXCEPT !.payloads = now]
             q == [q2 EXCEPT !.left = new]
  <2>5. process' = [process EXCEPT ![p] = q]
    <3> HIDE DEF u
    <3> QED
      BY <1>3, <1>8, <2>2
  <2>6. q = VendorOf(from, more, now, new)
    <3>1. q1 = VendorOf(from, more, payloads, left)
      BY <1>2 DEF VendorOf
    <3> HIDE DEF q1
    <3>2. q2 = VendorOf(from, more, now, left)
      BY <3>1 DEF VendorOf
    <3> HIDE DEF q2
    <3> QED
      BY <3>2 DEF VendorOf
  <2> HIDE DEF q
  <2>7. Gathering(q) /\ "kind" \in DOMAIN q
    <3>1. Gathering(q)
      BY <2>3, <2>4, <2>6 DEF Gathering
    <3> QED
      BY <2>6, <3>1 DEF VendorOf
  <2> QED
    BY <1>1, <2>5, <2>7, OneGathers DEF Fetch
<1> QED
  BY <1>3, <1>6, <1>7, <1>8 DEF Fetch

\* A payload is written: no snapshot is whole, and no other `bitrab vendor` runs.
LEMMA WritePayloadSnapshot ==
    ASSUME SnapshotInv, NEW p \in Processes, WritePayload(p) PROVE SnapshotInv'
<1> USE DEF store, ghosts
<1>1. PICK from \in Seq(Urls), todo \in Seq(Urls), payloads \in Snapshots, left \in SUBSET Urls :
          /\ process[p] = VendorOf(from, todo, payloads, left)
          /\ left \subseteq DOMAIN payloads
          /\ Complete(payloads, from, todo)
          /\ todo # << >> => left = DOMAIN payloads
          /\ \A u \in DOMAIN payloads \ left : payload[u] = payloads[u]
  BY DEF WritePayload, SnapshotInv, VendorsGather, Gathering
<1>2. process[p].pending = todo /\ process[p].payloads = payloads /\ process[p].left = left
  BY <1>1 DEF VendorOf
<1>3. PICK u \in left :
          /\ payload' = [payload EXCEPT ![u] = payloads[u]]
          /\ process' = [process EXCEPT ![p].left = @ \ {u}]
  BY <1>2 DEF WritePayload
<1>4. PICK fewer : fewer = left \ {u}
  OBVIOUS
<1>5. PICK q : q = [process[p] EXCEPT !.left = fewer] /\ process' = [process EXCEPT ![p] = q]
  BY <1>2, <1>3, <1>4
<1>6. q = VendorOf(from, todo, payloads, fewer)
  BY <1>1, <1>5 DEF VendorOf
<1>7. Gathering(q)'
  <2>1. \A x \in DOMAIN payloads \ fewer : payload'[x] = payloads[x]
    BY <1>1, <1>3, <1>4 DEF SnapshotInv, FilesAreTyped
  <2>2. todo = << >> /\ fewer \in SUBSET Urls /\ fewer \subseteq DOMAIN payloads
    BY <1>1, <1>2, <1>4 DEF WritePayload
  <2> QED
    BY <1>1, <1>6, <2>1, <2>2 DEF Gathering
<1>8. \A o \in Processes : process'[o] = IF o = p THEN q ELSE process[o]
  BY <1>5 DEF SnapshotInv, VendorsGather
<1>9. \A o \in Processes : Busy(o, "vendor")' => o = p
  BY <1>8 DEF WritePayload, SnapshotInv, VendorsGather, Busy
<1>10. "kind" \in DOMAIN q
  BY <1>6 DEF VendorOf
<1>11. process'[p] = q
  BY <1>8
<1>12. Gathering(process[p])'
  BY <1>7, <1>11 DEF Gathering
<1>13. VendorsGather'
  <2>1. DOMAIN process' = Processes
    BY <1>5 DEF SnapshotInv, VendorsGather
  <2>2. \A o \in Processes : "kind" \in DOMAIN process'[o]
    BY <1>8, <1>10 DEF SnapshotInv, VendorsGather
  <2> QED
    BY <1>9, <1>12, <2>1, <2>2 DEF VendorsGather
<1>14. FilesAreTyped'
  BY <1>3 DEF WritePayload, SnapshotInv, FilesAreTyped
<1>15. ~whole'
  BY DEF WritePayload
<1> QED
  BY <1>13, <1>14, <1>15 DEF SnapshotInv, WholeIsComplete

\* vendor.lock is written when all is known and written: the snapshot is whole if the local
\* files were not edited since `bitrab vendor` read them.
LEMMA WriteLockSnapshot ==
    ASSUME SnapshotInv, NEW p \in Processes, WriteLock(p) PROVE SnapshotInv'
<1> USE DEF store, ghosts
<1>1. PICK from \in Seq(Urls), todo \in Seq(Urls), payloads \in Snapshots, left \in SUBSET Urls :
          /\ process[p] = VendorOf(from, todo, payloads, left)
          /\ Complete(payloads, from, todo)
          /\ \A u \in DOMAIN payloads \ left : payload[u] = payloads[u]
  BY DEF WriteLock, SnapshotInv, VendorsGather, Gathering
<1>2. /\ process[p].pending = todo /\ process[p].payloads = payloads
      /\ process[p].left = left /\ process[p].from = from
  BY <1>1 DEF VendorOf
<1>3. /\ todo = << >> /\ left = {} /\ lockfile' = payloads
      /\ process' = [process EXCEPT ![p] = Idle]
      /\ whole' = (from = roots)
      /\ UNCHANGED <<roots, served, payload, cached>>
  BY <1>2 DEF WriteLock
<1>4. FilesAreTyped'
  BY <1>1, <1>3 DEF SnapshotInv, FilesAreTyped
<1>5. VendorsGather'
  <2>1. \A o \in Processes : process'[o] = IF o = p THEN Idle ELSE process[o]
    BY <1>3 DEF SnapshotInv, VendorsGather
  <2>2. \A o \in Processes : ~Busy(o, "vendor")'
    BY <2>1 DEF WriteLock, SnapshotInv, VendorsGather, Busy, Idle
  <2>3. DOMAIN process' = Processes /\ \A o \in Processes : "kind" \in DOMAIN process'[o]
    BY <1>3, <2>1 DEF SnapshotInv, VendorsGather, Idle
  <2> QED
    BY <2>2, <2>3 DEF VendorsGather
<1>6. payloads # None
  BY NoneAssumption DEF Snapshots
<1>7. WholeIsComplete'
  <2> SUFFICES ASSUME whole'
               PROVE  /\ lockfile' # None
                      /\ Complete(lockfile, roots, << >>)'
                      /\ \A u \in Locked' : payload'[u] = lockfile'[u]
    BY DEF WholeIsComplete
  <2>1. roots' = from /\ lockfile' = payloads
    BY <1>3
  <2>2. Complete(lockfile, roots, << >>)'
    BY <1>1, <1>3, <2>1 DEF Complete
  <2>3. Locked' = DOMAIN payloads
    BY <1>6, <2>1 DEF Locked
  <2> QED
    BY <1>1, <1>3, <1>6, <2>1, <2>2, <2>3
<1> QED
  BY <1>4, <1>5, <1>7 DEF SnapshotInv

\* A load, or a process that ends, does not gather.
LEMMA OtherSnapshot ==
    ASSUME SnapshotInv, NEW p \in Processes,
           Load(p) \/ ReadVendored(p) \/ FetchRemote(p) \/ Leave(p) \/ Kill(p)
    PROVE  SnapshotInv'
<1> USE DEF store, ghosts
<1>1. UNCHANGED <<roots, served, lockfile, payload, whole>>
  BY DEF Load, ReadVendored, FetchRemote, Leave, Kill
<1>2. PICK q : /\ process' = [process EXCEPT ![p] = q]
               /\ "kind" \in DOMAIN q /\ q.kind # "vendor"
  <2>1. CASE Load(p)
    <3>1. PICK offline, no_include_cache :
              process' = [process EXCEPT ![p] =
                  [ kind |-> "load", at |-> "next", pending |-> roots, used |-> << >>,
                    offline |-> offline, no_include_cache |-> no_include_cache ]]
      BY <2>1 DEF Load
    <3> DEFINE q == [ kind |-> "load", at |-> "next", pending |-> roots, used |-> << >>,
                      offline |-> offline, no_include_cache |-> no_include_cache ]
    <3>2. process' = [process EXCEPT ![p] = q] /\ "kind" \in DOMAIN q /\ q.kind # "vendor"
      BY <3>1
    <3> HIDE DEF q
    <3> QED
      BY <3>2
  <2>2. CASE Leave(p) \/ Kill(p)
    BY <2>2 DEF Leave, Kill, Idle
  <2>3. CASE ReadVendored(p) \/ FetchRemote(p)
    <3>1. "kind" \in DOMAIN process[p] /\ process[p].kind = "load"
      BY <2>3 DEF ReadVendored, FetchRemote, SnapshotInv, VendorsGather, Busy
    <3>2. CASE process' = [process EXCEPT ![p].pending = Tail(@)]
      <4> DEFINE q == [process[p] EXCEPT !.pending = Tail(@)]
      <4>1. process' = [process EXCEPT ![p] = q] /\ "kind" \in DOMAIN q /\ q.kind = "load"
        BY <3>1, <3>2
      <4> HIDE DEF q
      <4> QED
        BY <4>1
    <3>3. ASSUME NEW at, process' = [process EXCEPT ![p].at = at]
          PROVE  \E q : /\ process' = [process EXCEPT ![p] = q]
                        /\ "kind" \in DOMAIN q /\ q.kind # "vendor"
      <4> DEFINE q == [process[p] EXCEPT !.at = at]
      <4>1. process' = [process EXCEPT ![p] = q] /\ "kind" \in DOMAIN q /\ q.kind = "load"
        BY <3>1, <3>3
      <4> HIDE DEF q
      <4> QED
        BY <4>1
    <3>4. ASSUME NEW u, NEW version, Used(p, u, version)
          PROVE  \E q : /\ process' = [process EXCEPT ![p] = q]
                        /\ "kind" \in DOMAIN q /\ q.kind # "vendor"
      <4> DEFINE q == [process[p] EXCEPT !.at = "next",
                                         !.pending = Nested[u][version] \o Tail(@),
                                         !.used = With(@, u, version)]
      <4>1. process' = [process EXCEPT ![p] = q]
        BY <3>4 DEF Used
      <4>2. "kind" \in DOMAIN q /\ q.kind = "load"
        BY <3>1
      <4> HIDE DEF q
      <4> QED
        BY <4>1, <4>2
    <3> QED
      BY <2>3, <3>2, <3>3, <3>4 DEF ReadVendored, FetchRemote, Fails
  <2> QED
    BY <2>1, <2>2, <2>3
<1>3. FilesAreTyped'
  <2>1. cached' \in [Urls -> [version : Versions, fresh : BOOLEAN] \cup {None}]
    <3>1. CASE UNCHANGED cached
      BY <3>1 DEF SnapshotInv, FilesAreTyped
    <3>2. CASE cached' # cached
      <4>1. FetchRemote(p)
        BY <3>2 DEF Load, ReadVendored, Leave, Kill
      <4>2. PICK u : /\ served[u] # None
                     /\ cached' = [cached EXCEPT ![u] = [version |-> served[u], fresh |-> TRUE]]
        BY <3>2, <4>1 DEF FetchRemote
      <4>3. u \in Urls => served[u] \in Versions
        BY <4>2 DEF SnapshotInv, FilesAreTyped
      <4> QED
        BY <4>2, <4>3 DEF SnapshotInv, FilesAreTyped
    <3> QED
      BY <3>1, <3>2
  <2> QED
    BY <1>1, <2>1 DEF SnapshotInv, FilesAreTyped
<1> QED
  BY <1>1, <1>2, <1>3, OneGathers

\* Every step keeps the invariant.
LEMMA NextSnapshot == SnapshotInv /\ [Next]_vars => SnapshotInv'
<1> SUFFICES ASSUME SnapshotInv, [Next]_vars PROVE SnapshotInv'
  OBVIOUS
<1> USE DEF store, ghosts
<1>1. ASSUME NEW p \in Processes, Vendor(p) PROVE SnapshotInv'
  <2> DEFINE q == VendorOf(roots, roots, << >>, {})
  <2>1. /\ process' = [process EXCEPT ![p] = q] /\ LockFree
        /\ UNCHANGED <<roots, served, lockfile, payload, cached, whole>>
    BY <1>1 DEF Vendor, VendorOf
  <2>2. FilesAreTyped' /\ roots \in Seq(Urls)
    BY <2>1 DEF SnapshotInv, FilesAreTyped
  <2>3. << >> \in Snapshots /\ Complete(<< >>, roots, roots) /\ DOMAIN << >> = {}
    BY <2>2, EmptyIsComplete
  <2>4. Gathering(q)
    BY <2>2, <2>3 DEF Gathering
  <2>5. "kind" \in DOMAIN q
    BY DEF VendorOf
  <2> HIDE DEF q
  <2> QED
    BY <2>1, <2>2, <2>4, <2>5, OneGathers
<1>2. CASE Edit
  <2>1. UNCHANGED <<process, payload, lockfile, served, cached>> /\ ~whole' /\ roots' \in Roots
    BY <1>2 DEF Edit
  <2>2. FilesAreTyped'
    BY <2>1, RootsAssumption DEF SnapshotInv, FilesAreTyped
  <2>3. VendorsGather'
    BY <2>1 DEF SnapshotInv, VendorsGather, Busy, Gathering
  <2> QED
    BY <2>1, <2>2, <2>3 DEF SnapshotInv, WholeIsComplete
<1>3. CASE Publish \/ Expire \/ UNCHANGED vars
  <2>1. UNCHANGED <<process, payload, lockfile, roots, whole>>
    BY <1>3 DEF Publish, Expire, vars
  <2>2. served' \in [Urls -> Versions \cup {None}]
    BY <1>3 DEF Publish, Expire, vars, SnapshotInv, FilesAreTyped
  <2>3. cached' \in [Urls -> [version : Versions, fresh : BOOLEAN] \cup {None}]
    <3>1. cached \in [Urls -> [version : Versions, fresh : BOOLEAN] \cup {None}]
      BY DEF SnapshotInv, FilesAreTyped
    <3>2. CASE UNCHANGED cached
      BY <3>1, <3>2
    <3>3. CASE Expire
      <4>1. PICK u \in Urls : Fresh(u) /\ cached' = [cached EXCEPT ![u].fresh = FALSE]
        BY <3>3 DEF Expire
      <4>2. cached[u] \in [version : Versions, fresh : BOOLEAN]
        BY <3>1, <4>1 DEF Fresh
      <4>3. [cached[u] EXCEPT !.fresh = FALSE] \in [version : Versions, fresh : BOOLEAN]
        BY <4>2
      <4> QED
        BY <3>1, <4>1, <4>3
    <3> QED
      BY <1>3, <3>2, <3>3 DEF Publish, vars
  <2>4. FilesAreTyped'
    BY <2>1, <2>2, <2>3 DEF SnapshotInv, FilesAreTyped
  <2>5. VendorsGather'
    BY <2>1 DEF SnapshotInv, VendorsGather, Busy, Gathering
  <2>6. WholeIsComplete'
    BY <2>1 DEF SnapshotInv, WholeIsComplete, Complete, Locked
  <2> QED
    BY <2>4, <2>5, <2>6 DEF SnapshotInv
<1> QED
  BY <1>1, <1>2, <1>3, FetchSnapshot, WritePayloadSnapshot, WriteLockSnapshot, OtherSnapshot
     DEF Next

\* What a completed `bitrab vendor` leaves has everything that it includes, until the files
\* that it was made from are edited or the next one begins to write.
THEOREM SnapshotsAreComplete == Spec => []SnapshotIsComplete
<1>1. SnapshotInv => SnapshotIsComplete
  <2> SUFFICES ASSUME SnapshotInv, whole PROVE CheckVendor
    BY DEF SnapshotIsComplete
  <2>1. /\ lockfile # None /\ Complete(lockfile, roots, << >>)
        /\ \A u \in Locked : payload[u] = lockfile[u]
    BY DEF SnapshotInv, WholeIsComplete
  <2>2. Locked = DOMAIN lockfile /\ Locked \in SUBSET Urls
    BY <2>1 DEF Locked, SnapshotInv, FilesAreTyped, Snapshots
  <2>3. Follows(Locked)
    BY <2>1, <2>2, SetOfNone DEF Follows, Complete
  <2> QED
    BY <2>1, <2>2, <2>3 DEF CheckVendor, Reached
<1> QED
  BY <1>1, InitSnapshot, NextSnapshot, PTL DEF Spec

-----------------------------------------------------------------------------
(* The loads.  What a load has used is compared with vendor.lock when it   *)
(* is used; a load that goes to the server has found its URL not locked,   *)
(* and what is locked changes only when vendor.lock is written, which ends *)
(* the claim for every load that is under way.  What a load has yet to     *)
(* look for is what the local files and the contents it has used include,  *)
(* so it is in every set that is closed under inclusion.                   *)

LoadSteps == {"next", "remote", "failed"}

LoadOf(at, todo, used, offline, no_include_cache) ==
    [ kind |-> "load", at |-> at, pending |-> todo, used |-> used,
      offline |-> offline, no_include_cache |-> no_include_cache ]

\* A set that has what the local files include and what its contents that were used include
Closed(urls, used) ==
    /\ ToSet(roots) \subseteq urls
    /\ \A u \in urls \cap DOMAIN used : ToSet(Nested[u][used[u]]) \subseteq urls

\* What is used and what is still to come is included by the local files or by what was used.
Sought(todo, used) ==
    \A urls \in SUBSET Urls : Closed(urls, used) => DOMAIN used \cup ToSet(todo) \subseteq urls

\* A load that has used of the locked URLs the locked version, has looked for nothing that
\* is not included and, if it is about to ask a server, does so for a URL that is new and
\* not locked.
Honest(load) ==
    \E at \in LoadSteps, todo \in Seq(Urls), used \in Snapshots, offline \in BOOLEAN,
       no_include_cache \in BOOLEAN :
        /\ load = LoadOf(at, todo, used, offline, no_include_cache)
        /\ \A u \in DOMAIN used \cap Locked : used[u] = lockfile[u]
        /\ at = "remote" => todo # << >> /\ Head(todo) \notin Locked \cup DOMAIN used
        /\ Sought(todo, used)

LoadsInv ==
    /\ steady \subseteq Processes
    /\ \A p \in steady : Honest(process[p])

\* Nobody is at work at first.
LEMMA InitLoads == Init => LoadsInv
BY DEF Init, LoadsInv

\* Honesty depends on vendor.lock and the local files only.
LEMMA StaysHonest ==
    ASSUME UNCHANGED <<lockfile, roots>>, NEW p \in Processes, Honest(process'[p])
    PROVE  Honest(process[p])'
<1>1. PICK at \in LoadSteps, todo \in Seq(Urls), used \in Snapshots, offline \in BOOLEAN,
           no_include_cache \in BOOLEAN :
          /\ process'[p] = LoadOf(at, todo, used, offline, no_include_cache)
          /\ \A u \in DOMAIN used \cap Locked : used[u] = lockfile[u]
          /\ at = "remote" => todo # << >> /\ Head(todo) \notin Locked \cup DOMAIN used
          /\ Sought(todo, used)
  BY DEF Honest
<1>2. Locked' = Locked
  BY DEF Locked
<1>3. Sought(todo, used)'
  BY <1>1 DEF Sought, Closed
<1> QED
  BY <1>1, <1>2, <1>3 DEF Honest

\* A step of one process that leaves vendor.lock and the local files alone keeps the claim if
\* the process is honest after it, or is no steady load then.
LEMMA OneMoves ==
    ASSUME SnapshotInv, LoadsInv, NEW p \in Processes, NEW q,
           process' = [process EXCEPT ![p] = q],
           UNCHANGED <<lockfile, roots>>, steady' \subseteq steady \cup {p},
           p \in steady' => Honest(q)
    PROVE  LoadsInv'
<1>1. \A o \in Processes : process'[o] = IF o = p THEN q ELSE process[o]
  BY DEF SnapshotInv, VendorsGather
<1>2. ASSUME NEW o \in steady' PROVE Honest(process'[o])
  BY <1>1, <1>2 DEF LoadsInv
<1>3. steady' \subseteq Processes
  BY DEF LoadsInv
<1>4. \A o \in steady' : Honest(process[o])'
  BY <1>2, <1>3, StaysHonest
<1> QED
  BY <1>3, <1>4 DEF LoadsInv

\* A load that fails has used what it has used.
LEMMA FailStep ==
    ASSUME SnapshotInv, LoadsInv, NEW p \in Processes, Fails(p),
           UNCHANGED <<lockfile, roots, steady>>
    PROVE  LoadsInv'
<1> DEFINE q == [process[p] EXCEPT !.at = "failed"]
<1>1. process' = [process EXCEPT ![p] = q]
  BY DEF Fails
<1>2. ASSUME p \in steady PROVE Honest(q)
  <2>1. PICK at \in LoadSteps, todo \in Seq(Urls), used \in Snapshots, offline \in BOOLEAN,
             no_include_cache \in BOOLEAN :
            /\ process[p] = LoadOf(at, todo, used, offline, no_include_cache)
            /\ \A x \in DOMAIN used \cap Locked : used[x] = lockfile[x]
            /\ Sought(todo, used)
    BY <1>2 DEF LoadsInv, Honest
  <2>2. q = LoadOf("failed", todo, used, offline, no_include_cache)
    BY <2>1 DEF LoadOf
  <2> HIDE DEF q
  <2> QED
    BY <2>1, <2>2 DEF Honest, LoadSteps
<1> HIDE DEF q
<1> QED
  BY <1>1, <1>2, OneMoves

\* What a load looks for, once it has used one more content, is what it looked for or what
\* that content includes.
LEMMA UsedIsSought ==
    ASSUME SnapshotInv, NEW todo \in Seq(Urls), todo # << >>, NEW used \in Snapshots,
           Sought(todo, used), NEW version \in Versions, Head(todo) \notin DOMAIN used
    PROVE  LET u == Head(todo)
               rest == Nested[u][version] \o Tail(todo)
               more == With(used, u, version)
           IN  rest \in Seq(Urls) /\ more \in Snapshots /\ Sought(rest, more)
<1> DEFINE u == Head(todo)
           included == Nested[u][version]
           rest == included \o Tail(todo)
           more == With(used, u, version)
<1>1. u \in Urls /\ Tail(todo) \in Seq(Urls) /\ ToSet(todo) = {u} \cup ToSet(Tail(todo))
  BY SetOfHeadAndTail
<1>2. u \notin DOMAIN used
  OBVIOUS
<1> HIDE DEF u
<1>3. /\ more \in Snapshots /\ DOMAIN more = DOMAIN used \cup {u} /\ more[u] = version
      /\ \A x \in DOMAIN used : more[x] = used[x]
      /\ included \in Seq(Urls)
  <2>1. /\ With(used, u, version) \in Snapshots
        /\ DOMAIN With(used, u, version) = DOMAIN used \cup {u}
        /\ With(used, u, version)[u] = version
        /\ \A x \in DOMAIN used : With(used, u, version)[x] = used[x]
        /\ Nested[u][version] \in Seq(Urls)
    BY <1>1, <1>2, OneMoreIsKnown, Zenon
  <2> QED
    BY <2>1
<1>4. rest \in Seq(Urls) /\ ToSet(rest) = ToSet(included) \cup ToSet(Tail(todo))
  <2>1. \A x, y \in Seq(Urls) : x \o y \in Seq(Urls) /\ ToSet(x \o y) = ToSet(x) \cup ToSet(y)
    BY SetOfConcat
  <2>2. included \in Seq(Urls) /\ Tail(todo) \in Seq(Urls)
    BY <1>1, <1>3
  <2> HIDE DEF included, more
  <2> QED
    BY <2>1, <2>2
<1>5. Sought(rest, more)
  <2> SUFFICES ASSUME NEW urls \in SUBSET Urls, Closed(urls, more)
               PROVE  DOMAIN more \cup ToSet(rest) \subseteq urls
    BY DEF Sought
  <2>1. ToSet(Nested[u][more[u]]) = ToSet(included)
    BY <1>3
  <2> HIDE DEF more, rest, included
  <2>2. Closed(urls, used)
    BY <1>3 DEF Closed
  <2>3. DOMAIN used \cup ToSet(todo) \subseteq urls
    BY <2>2 DEF Sought
  <2>4. u \in urls \cap DOMAIN more
    BY <1>1, <1>3, <2>3
  <2>5. ToSet(included) \subseteq urls
    BY <2>1, <2>4 DEF Closed
  <2> QED
    BY <1>1, <1>3, <1>4, <2>3, <2>5
<1> QED
  BY <1>3, <1>4, <1>5 DEF u

\* A load that uses one more content is honest if the content is the locked one or its URL
\* is not locked.
LEMMA UseStep ==
    ASSUME SnapshotInv, LoadsInv, NEW p \in Processes, NEW version,
           Used(p, Head(process[p].pending), version), UNCHANGED <<lockfile, roots, steady>>,
           p \in steady =>
               /\ process[p].pending # << >>
               /\ Head(process[p].pending) \notin DOMAIN process[p].used
               /\ version \in Versions
               /\ Head(process[p].pending) \in Locked =>
                      version = lockfile[Head(process[p].pending)]
    PROVE  LoadsInv'
<1> DEFINE u == Head(process[p].pending)
           rest == Nested[u][version] \o Tail(process[p].pending)
           more == With(process[p].used, u, version)
           q == [process[p] EXCEPT !.at = "next", !.pending = rest, !.used = more]
<1>1. process' = [process EXCEPT ![p] = q]
  BY DEF Used
<1>2. ASSUME p \in steady PROVE Honest(q)
  <2>1. PICK at \in LoadSteps, todo \in Seq(Urls), used \in Snapshots, offline \in BOOLEAN,
             no_include_cache \in BOOLEAN :
            /\ process[p] = LoadOf(at, todo, used, offline, no_include_cache)
            /\ \A x \in DOMAIN used \cap Locked : used[x] = lockfile[x]
            /\ Sought(todo, used)
    BY <1>2 DEF LoadsInv, Honest
  <2>2. process[p].pending = todo /\ process[p].used = used
    BY <2>1 DEF LoadOf
  <2>3. /\ u = Head(todo) /\ rest = Nested[Head(todo)][version] \o Tail(todo)
        /\ more = With(used, Head(todo), version)
    BY <2>2
  <2>4. /\ todo # << >> /\ Head(todo) \notin DOMAIN used /\ version \in Versions
        /\ Head(todo) \in Locked => version = lockfile[Head(todo)]
    BY <1>2, <2>2
  <2>5. rest \in Seq(Urls) /\ more \in Snapshots /\ Sought(rest, more)
    BY <2>1, <2>3, <2>4, UsedIsSought
  <2>6. \A x \in DOMAIN more \cap Locked : more[x] = lockfile[x]
    BY <2>1, <2>3, <2>4 DEF With
  <2> HIDE DEF u, rest, more
  <2>7. q = LoadOf("next", rest, more, offline, no_include_cache)
    <3> DEFINE q1 == [process[p] EXCEPT !.at = "next"]
               q2 == [q1 EXCEPT !.pending = rest]
    <3>1. q1 = LoadOf("next", todo, used, offline, no_include_cache)
      BY <2>1 DEF LoadOf
    <3>2. q2 = LoadOf("next", rest, used, offline, no_include_cache)
      <4> HIDE DEF q1
      <4> QED
        BY <3>1 DEF LoadOf
    <3>3. [q2 EXCEPT !.used = more] = LoadOf("next", rest, more, offline, no_include_cache)
      <4> HIDE DEF q2
      <4> QED
        BY <3>2 DEF LoadOf
    <3>4. q = [q2 EXCEPT !.used = more]
      OBVIOUS
    <3> QED
      BY <3>3, <3>4
  <2> HIDE DEF q
  <2> QED
    BY <2>5, <2>6, <2>7 DEF Honest, LoadSteps
<1> HIDE DEF q
<1> QED
  BY <1>1, <1>2, OneMoves

\* A process that runs `bitrab vendor` or nothing is no steady load.
LEMMA OthersAreNotSteady ==
    ASSUME LoadsInv, NEW p \in Processes, Busy(p, "vendor") \/ process[p] = Idle
    PROVE  p \notin steady
<1> SUFFICES ASSUME p \in steady PROVE FALSE
  OBVIOUS
<1>1. PICK at, todo, used, offline, no_include_cache :
          process[p] = LoadOf(at, todo, used, offline, no_include_cache)
  BY DEF LoadsInv, Honest
<1>2. process[p].kind = "load"
  BY <1>1 DEF LoadOf
<1> QED
  BY <1>2 DEF Busy, Idle

\* read_vendored
LEMMA ReadVendoredLoads ==
    ASSUME SnapshotInv, LoadsInv, NEW p \in Processes, ReadVendored(p) PROVE LoadsInv'
<1> DEFINE u == Head(process[p].pending)
<1>1. /\ process[p].at = "next" /\ process[p].pending # << >>
      /\ UNCHANGED <<lockfile, roots, steady>>
  BY DEF ReadVendored, store, ghosts
<1>2. ASSUME p \in steady
      PROVE  \E todo \in Seq(Urls), used \in Snapshots, offline \in BOOLEAN,
                no_include_cache \in BOOLEAN :
                 /\ process[p] = LoadOf("next", todo, used, offline, no_include_cache)
                 /\ todo # << >> /\ u = Head(todo)
                 /\ process[p].pending = todo /\ process[p].used = used
                 /\ \A x \in DOMAIN used \cap Locked : used[x] = lockfile[x]
                 /\ Sought(todo, used)
  <2>1. PICK at \in LoadSteps, todo \in Seq(Urls), used \in Snapshots, offline \in BOOLEAN,
             no_include_cache \in BOOLEAN :
            /\ process[p] = LoadOf(at, todo, used, offline, no_include_cache)
            /\ \A x \in DOMAIN used \cap Locked : used[x] = lockfile[x]
            /\ Sought(todo, used)
    BY <1>2 DEF LoadsInv, Honest
  <2>2. at = "next" /\ process[p].pending = todo /\ process[p].used = used
    BY <1>1, <2>1 DEF LoadOf
  <2> QED
    BY <1>1, <2>1, <2>2
<1>3. CASE u \in DOMAIN process[p].used /\ process' = [process EXCEPT ![p].pending = Tail(@)]
  <2> DEFINE rest == Tail(process[p].pending)
             q == [process[p] EXCEPT !.pending = rest]
  <2>1. process' = [process EXCEPT ![p] = q]
    BY <1>3
  <2>2. ASSUME p \in steady PROVE Honest(q)
    <3>1. PICK todo \in Seq(Urls), used \in Snapshots, offline \in BOOLEAN,
              no_include_cache \in BOOLEAN :
              /\ process[p] = LoadOf("next", todo, used, offline, no_include_cache)
              /\ todo # << >> /\ u = Head(todo)
              /\ process[p].pending = todo /\ process[p].used = used
              /\ \A x \in DOMAIN used \cap Locked : used[x] = lockfile[x]
              /\ Sought(todo, used)
      BY <1>2, <2>2
    <3>2. rest = Tail(todo) /\ rest \in Seq(Urls) /\ ToSet(rest) \subseteq ToSet(todo)
      BY <3>1, SetOfHeadAndTail
    <3> HIDE DEF rest
    <3>3. q = LoadOf("next", rest, used, offline, no_include_cache)
      BY <3>1 DEF LoadOf
    <3>4. Sought(rest, used)
      BY <3>1, <3>2 DEF Sought
    <3> HIDE DEF q
    <3> QED
      BY <3>1, <3>2, <3>3, <3>4 DEF Honest, LoadSteps
  <2> HIDE DEF q
  <2> QED
    BY <1>1, <2>1, <2>2, OneMoves
<1>4. CASE Fails(p)
  BY <1>1, <1>4, FailStep
<1>5. CASE /\ u \notin DOMAIN process[p].used /\ u \in Locked /\ ValidPayload(u)
           /\ Used(p, u, payload[u])
  <2>1. payload[u] = lockfile[u] /\ lockfile[u] \in Versions
    BY <1>5 DEF ValidPayload, Locked, SnapshotInv, FilesAreTyped, Snapshots
  <2> QED
    BY <1>1, <1>5, <2>1, UseStep
<1>6. CASE /\ u \notin DOMAIN process[p].used /\ u \notin Locked
           /\ process' = [process EXCEPT ![p].at = "remote"]
  <2> DEFINE q == [process[p] EXCEPT !.at = "remote"]
  <2>1. process' = [process EXCEPT ![p] = q]
    BY <1>6
  <2>2. ASSUME p \in steady PROVE Honest(q)
    <3>1. PICK todo \in Seq(Urls), used \in Snapshots, offline \in BOOLEAN,
              no_include_cache \in BOOLEAN :
              /\ process[p] = LoadOf("next", todo, used, offline, no_include_cache)
              /\ todo # << >> /\ u = Head(todo)
              /\ process[p].pending = todo /\ process[p].used = used
              /\ \A x \in DOMAIN used \cap Locked : used[x] = lockfile[x]
              /\ Sought(todo, used)
      BY <1>2, <2>2
    <3>2. q = LoadOf("remote", todo, used, offline, no_include_cache)
      BY <3>1 DEF LoadOf
    <3>3. Head(todo) \notin Locked \cup DOMAIN used
      BY <1>6, <3>1
    <3> HIDE DEF q, u
    <3> QED
      BY <3>1, <3>2, <3>3 DEF Honest, LoadSteps
  <2> HIDE DEF q
  <2> QED
    BY <1>1, <2>1, <2>2, OneMoves
<1> QED
  BY <1>3, <1>4, <1>5, <1>6 DEF ReadVendored

\* _fetch_remote_yaml without a vendored content
LEMMA FetchRemoteLoads ==
    ASSUME SnapshotInv, LoadsInv, NEW p \in Processes, FetchRemote(p) PROVE LoadsInv'
<1> DEFINE u == Head(process[p].pending)
<1>1. process[p].at = "remote" /\ UNCHANGED <<lockfile, roots, steady>>
  BY DEF FetchRemote, ghosts
<1>2. ASSUME p \in steady
      PROVE  process[p].pending # << >> /\ u \in Urls /\ u \notin Locked \cup DOMAIN process[p].used
  <2>1. PICK at \in LoadSteps, todo \in Seq(Urls), used \in Snapshots, offline \in BOOLEAN,
             no_include_cache \in BOOLEAN :
            /\ process[p] = LoadOf(at, todo, used, offline, no_include_cache)
            /\ at = "remote" => todo # << >> /\ Head(todo) \notin Locked \cup DOMAIN used
    BY <1>2 DEF LoadsInv, Honest
  <2>2. at = "remote" /\ process[p].pending = todo /\ process[p].used = used
    BY <1>1, <2>1 DEF LoadOf
  <2> QED
    BY <2>1, <2>2, SetOfHeadAndTail
<1>3. CASE Fails(p)
  BY <1>1, <1>3, FailStep
<1>4. ASSUME NEW version, Used(p, u, version), u \in Urls => version \in Versions
      PROVE  LoadsInv'
  BY <1>1, <1>2, <1>4, UseStep
<1>5. CASE Fresh(u) /\ Used(p, u, cached[u].version)
  <2>1. u \in Urls => cached[u].version \in Versions
    BY <1>5 DEF Fresh, SnapshotInv, FilesAreTyped
  <2> HIDE DEF u
  <2> QED
    BY <1>4, <1>5, <2>1
<1>6. CASE served[u] # None /\ Used(p, u, served[u])
  <2>1. u \in Urls => served[u] \in Versions
    BY <1>6 DEF SnapshotInv, FilesAreTyped
  <2> HIDE DEF u
  <2> QED
    BY <1>4, <1>6, <2>1
<1> QED
  BY <1>3, <1>5, <1>6 DEF FetchRemote

\* Every step keeps the invariant.
LEMMA NextLoads == SnapshotInv /\ LoadsInv /\ [Next]_vars => LoadsInv'
<1> SUFFICES ASSUME SnapshotInv, LoadsInv, [Next]_vars PROVE LoadsInv'
  OBVIOUS
<1> USE DEF store, ghosts
<1>1. ASSUME NEW p \in Processes, Vendor(p) PROVE LoadsInv'
  <2>1. p \notin steady /\ UNCHANGED <<lockfile, roots, steady>>
    BY <1>1, OthersAreNotSteady DEF Vendor
  <2>2. PICK q : process' = [process EXCEPT ![p] = q]
    BY <1>1 DEF Vendor
  <2> QED
    BY <2>1, <2>2, OneMoves
<1>2. ASSUME NEW p \in Processes, Fetch(p) PROVE LoadsInv'
  <2>1. p \notin steady /\ UNCHANGED <<lockfile, roots, steady>>
    BY <1>2, OthersAreNotSteady DEF Fetch
  <2>2. PICK q : process' = [process EXCEPT ![p] = q]
    BY <1>2 DEF Fetch
  <2> QED
    BY <2>1, <2>2, OneMoves
<1>3. ASSUME NEW p \in Processes, WritePayload(p) PROVE LoadsInv'
  <2>1. p \notin steady /\ UNCHANGED <<lockfile, roots, steady>>
    BY <1>3, OthersAreNotSteady DEF WritePayload
  <2>2. PICK q : process' = [process EXCEPT ![p] = q]
    BY <1>3 DEF WritePayload
  <2> QED
    BY <2>1, <2>2, OneMoves
<1>4. ASSUME NEW p \in Processes, WriteLock(p) PROVE LoadsInv'
  BY <1>4 DEF WriteLock, LoadsInv
<1>5. ASSUME NEW p \in Processes, Load(p) PROVE LoadsInv'
  <2>1. PICK offline \in BOOLEAN, no_include_cache \in BOOLEAN :
            process' = [process EXCEPT ![p] =
                            LoadOf("next", roots, << >>, offline, no_include_cache)]
    BY <1>5 DEF Load, LoadOf
  <2>2. UNCHANGED <<lockfile, roots>> /\ steady' = steady \cup {p}
    BY <1>5 DEF Load
  <2>3. Honest(LoadOf("next", roots, << >>, offline, no_include_cache))
    <3>1. roots \in Seq(Urls) /\ << >> \in Snapshots /\ DOMAIN << >> = {}
      BY EmptyIsComplete DEF SnapshotInv, FilesAreTyped
    <3>2. \A x \in DOMAIN << >> \cap Locked : << >>[x] = lockfile[x]
      OBVIOUS
    <3>3. Sought(roots, << >>)
      BY <3>1 DEF Sought, Closed
    <3> QED
      BY <3>1, <3>2, <3>3 DEF Honest, LoadSteps
  <2> QED
    BY <2>1, <2>2, <2>3, OneMoves
<1>6. ASSUME NEW p \in Processes, Leave(p) \/ Kill(p) PROVE LoadsInv'
  <2>1. /\ process' = [process EXCEPT ![p] = Idle] /\ steady' = steady \ {p}
        /\ UNCHANGED <<lockfile, roots>>
    BY <1>6 DEF Leave, Kill
  <2> QED
    BY <2>1, OneMoves
<1>7. CASE Edit
  BY <1>7 DEF Edit, LoadsInv
<1>8. CASE Publish \/ Expire \/ UNCHANGED vars
  <2>1. UNCHANGED <<process, lockfile, roots, steady>>
    BY <1>8 DEF Publish, Expire, vars
  <2>2. \A p \in steady : Honest(process'[p])
    BY <2>1 DEF LoadsInv
  <2>3. \A p \in steady' : Honest(process[p])'
    BY <2>1, <2>2, StaysHonest DEF LoadsInv
  <2> QED
    BY <2>1, <2>3 DEF LoadsInv
<1> QED
  BY <1>1, <1>2, <1>3, <1>4, <1>5, <1>6, <1>7, <1>8, ReadVendoredLoads, FetchRemoteLoads DEF Next

\* A load that no `bitrab vendor` interferes with uses of what is locked the locked version
\* or nothing.
THEOREM LockIsHonoured == Spec => []LockedOrNothing
<1>1. LoadsInv => LockedOrNothing
  <2> SUFFICES ASSUME LoadsInv, NEW p \in steady, NEW u \in DOMAIN process[p].used \cap Locked
               PROVE  process[p].used[u] = lockfile[u]
    BY DEF LockedOrNothing
  <2>1. PICK at, todo, used, offline, no_include_cache :
            /\ process[p] = LoadOf(at, todo, used, offline, no_include_cache)
            /\ \A x \in DOMAIN used \cap Locked : used[x] = lockfile[x]
    BY DEF LoadsInv, Honest
  <2>2. process[p].used = used
    BY <2>1 DEF LoadOf
  <2> QED
    BY <2>1, <2>2
<1> QED
  BY <1>1, InitSnapshot, NextSnapshot, InitLoads, NextLoads, PTL DEF Spec

\* What check_vendor reaches follows the includes itself.
LEMMA ReachedFollows == ASSUME SnapshotInv PROVE Reached \in SUBSET Urls /\ Follows(Reached)
<1>1. ASSUME NEW u \in Locked PROVE ToSet(Nested[u][lockfile[u]]) \subseteq Urls
  <2>1. lockfile \in Snapshots /\ u \in DOMAIN lockfile
    BY <1>1 DEF Locked, SnapshotInv, FilesAreTyped
  <2>2. u \in Urls /\ lockfile[u] \in Versions
    BY <2>1 DEF Snapshots
  <2>3. Nested[u][lockfile[u]] \in Seq(Urls)
    BY <2>2, NestedAssumption
  <2> QED
    BY <2>3 DEF ToSet
<1>2. ToSet(roots) \subseteq Urls
  <2>1. roots \in Seq(Urls)
    BY DEF SnapshotInv, FilesAreTyped
  <2> QED
    BY <2>1 DEF ToSet
<1> QED
  BY <1>1, <1>2 DEF Reached, Follows

\* What a load looks for next when --check has nothing to report is locked, and its file is
\* valid.
LEMMA NextIsLocked ==
    ASSUME SnapshotInv, LoadsInv, CheckVendor, NEW p \in steady, process[p].pending # << >>
    PROVE  Head(process[p].pending) \in Locked /\ ValidPayload(Head(process[p].pending))
<1>1. PICK at \in LoadSteps, todo \in Seq(Urls), used \in Snapshots, offline \in BOOLEAN,
           no_include_cache \in BOOLEAN :
          /\ process[p] = LoadOf(at, todo, used, offline, no_include_cache)
          /\ \A x \in DOMAIN used \cap Locked : used[x] = lockfile[x]
          /\ Sought(todo, used)
  BY DEF LoadsInv, Honest
<1>2. process[p].pending = todo
  BY <1>1 DEF LoadOf
<1>3. Reached \in SUBSET Urls /\ Follows(Reached)
  BY ReachedFollows
<1>4. Closed(Reached, used)
  <2> SUFFICES ASSUME NEW u \in Reached \cap DOMAIN used
               PROVE  ToSet(Nested[u][used[u]]) \subseteq Reached
    BY <1>3 DEF Closed, Follows
  <2>1. u \in Locked /\ payload[u] = lockfile[u]
    BY DEF CheckVendor
  <2>2. used[u] = lockfile[u]
    BY <1>1, <2>1
  <2> QED
    BY <1>3, <2>1, <2>2 DEF Follows
<1>5. Head(todo) \in Reached
  BY <1>1, <1>2, <1>3, <1>4, SetOfHeadAndTail DEF Sought
<1> QED
  BY <1>2, <1>5 DEF CheckVendor, ValidPayload

\* A load finds all that it looks for in a snapshot for which --check has nothing to report.
THEOREM CheckedLoadsSucceed == Spec => CheckedNeedsNoNetwork
<1> DEFINE GoesOn ==
        \A p \in steady \cap steady' :
            process[p].at = "next" /\ lockfile # None /\ CheckVendor /\ LockFree =>
                process'[p].at = "next"
<1>1. SnapshotInv /\ LoadsInv /\ [Next]_vars => [GoesOn]_vars
  <2> SUFFICES ASSUME SnapshotInv, LoadsInv, Next,
                      NEW p \in steady, p \in steady',
                      process[p].at = "next", lockfile # None, CheckVendor, LockFree
               PROVE  process'[p].at = "next"
    OBVIOUS
  <2> USE DEF store, ghosts
  <2>1. PICK todo, used, offline, no_include_cache :
            process[p] = LoadOf("next", todo, used, offline, no_include_cache)
    <3>1. PICK at, todo, used, offline, no_include_cache :
              process[p] = LoadOf(at, todo, used, offline, no_include_cache)
      BY DEF LoadsInv, Honest
    <3>2. at = "next"
      BY <3>1 DEF LoadOf
    <3> QED
      BY <3>1, <3>2
  <2>2. p \in Processes /\ process[p] # Idle /\ ~Busy(p, "vendor")
    BY OthersAreNotSteady DEF LoadsInv
  <2>3. ASSUME NEW o \in Processes, NEW q, process' = [process EXCEPT ![o] = q], o # p
        PROVE  process'[p].at = "next"
    BY <2>2, <2>3 DEF SnapshotInv, VendorsGather
  <2>4. ASSUME UNCHANGED process PROVE process'[p].at = "next"
    BY <2>4
  <2>5. ASSUME NEW o \in Processes, Vendor(o) \/ Fetch(o) \/ WritePayload(o)
        PROVE  process'[p].at = "next"
    <3>1. o # p
      BY <2>2, <2>5 DEF Vendor, Fetch, WritePayload
    <3>2. PICK q : process' = [process EXCEPT ![o] = q]
      BY <2>5 DEF Vendor, Fetch, WritePayload
    <3> QED
      BY <2>3, <3>1, <3>2
  <2>6. ASSUME NEW o \in Processes, WriteLock(o) PROVE FALSE
    BY <2>6 DEF WriteLock
  <2>7. ASSUME NEW o \in Processes, Load(o) PROVE process'[p].at = "next"
    <3>1. o # p
      BY <2>2, <2>7 DEF Load
    <3>2. PICK q : process' = [process EXCEPT ![o] = q]
      BY <2>7 DEF Load
    <3> QED
      BY <2>3, <3>1, <3>2
  <2>8. ASSUME NEW o \in Processes, Leave(o) \/ Kill(o) PROVE process'[p].at = "next"
    <3>1. o # p
      BY <2>8 DEF Leave, Kill
    <3>2. process' = [process EXCEPT ![o] = Idle]
      BY <2>8 DEF Leave, Kill
    <3> QED
      BY <2>3, <3>1, <3>2
  <2>9. ASSUME NEW o \in Processes, o # p, ReadVendored(o) \/ FetchRemote(o)
        PROVE  process'[p].at = "next"
    <3>1. PICK q : process' = [process EXCEPT ![o] = q]
      BY <2>9 DEF ReadVendored, FetchRemote, Used, Fails
    <3> QED
      BY <2>3, <2>9, <3>1
  <2>10. ASSUME FetchRemote(p) PROVE FALSE
    BY <2>10 DEF FetchRemote
  <2>11. ASSUME ReadVendored(p) PROVE process'[p].at = "next"
    <3> DEFINE u == Head(process[p].pending)
    <3>1. u \in Locked /\ ValidPayload(u)
      BY <2>11, NextIsLocked DEF ReadVendored
    <3>2. \/ process' = [process EXCEPT ![p].pending = Tail(@)]
          \/ Used(p, u, payload[u])
      BY <2>11, <3>1 DEF ReadVendored
    <3> HIDE DEF u
    <3>3. "at" \in DOMAIN process[p]
      BY <2>1 DEF LoadOf
    <3>4. p \in DOMAIN process
      BY <2>2 DEF SnapshotInv, VendorsGather
    <3> QED
      BY <3>2, <3>3, <3>4 DEF Used
  <2>12. ASSUME Edit PROVE FALSE
    BY <2>12 DEF Edit
  <2>13. ASSUME Publish \/ Expire PROVE UNCHANGED process
    BY <2>13 DEF Publish, Expire
  <2> QED
    BY <2>4, <2>5, <2>6, <2>7, <2>8, <2>9, <2>10, <2>11, <2>12, <2>13 DEF Next
<1> QED
  BY <1>1, InitSnapshot, NextSnapshot, InitLoads, NextLoads, PTL DEF Spec, CheckedNeedsNoNetwork

-----------------------------------------------------------------------------
(* Worktrees.  A worker that is undisturbed finds, step by step of         *)
(* create_worktree, that the directory and then the registration are gone, *)
(* or that they are one of the two things that nothing there removes.      *)

Steps == { "create", "remove", "unregister", "rmtree", "prune", "add", "checkout", "unlock",
           "work", "failed" }
Jobs == [name : Names, at : Steps, alive : BOOLEAN, leaving : BOOLEAN, disturbed : BOOLEAN]
Live(v) == worker[v] # Nobody

\* Two workers with one directory both know that they share it.
SharingIsKnown ==
    \A v, o \in Workers :
        v # o /\ Live(v) /\ Live(o) /\ worker[v].name = worker[o].name => worker[v].disturbed

\* What an undisturbed worker has cleared away stays away, and what git makes for it stays.
WayIsClear ==
    \A v \in Workers :
        Live(v) /\ ~worker[v].disturbed =>
            /\ worker[v].at \in {"prune", "add"} => worker[v].name \notin dirs \ stuck
            /\ worker[v].at = "add" => worker[v].name \notin registered \ (dirs \cup locked)
            /\ worker[v].at = "unlock" => worker[v].name \in dirs
            /\ worker[v].at = "failed" => worker[v].name \in stuck \cup locked

WorktreesInv ==
    /\ worker \in [Workers -> Jobs \cup {Nobody}]
    /\ SharingIsKnown
    /\ WayIsClear

\* At first nobody is alive.
LEMMA InitWorktrees == WorktreesInit => WorktreesInv
BY DEF WorktreesInit, WorktreesInv, SharingIsKnown, WayIsClear, Live

\* Every step of a worker, of another worker and of `folder clean` keeps the invariant: what
\* was cleared away under a name comes back only through the steps of `git worktree add`.
LEMMA NextWorktrees == WorktreesInv /\ [WorktreesNext]_worktreesVars => WorktreesInv'
<1> SUFFICES ASSUME WorktreesInv, [WorktreesNext]_worktreesVars PROVE WorktreesInv'
  OBVIOUS
<1> USE DEF WorktreesInv, Jobs, Steps, Live, At, NameOf, Then, Quits, git
<1>1. ASSUME NEW v \in Workers, Spawn(v) PROVE WorktreesInv'
  <2>1. PICK name \in Names :
            LET same == {o \in Workers : worker[o] # Nobody /\ worker[o].name = name}
            IN  worker' = [o \in Workers |->
                    IF o = v THEN [ name |-> name, at |-> "create", alive |-> TRUE,
                                    leaving |-> FALSE, disturbed |-> same # {} ]
                    ELSE IF o \in same THEN [worker[o] EXCEPT !.disturbed = TRUE]
                    ELSE worker[o]]
    BY <1>1 DEF Spawn
  <2> DEFINE same == {o \in Workers : worker[o] # Nobody /\ worker[o].name = name}
  <2>2. worker' \in [Workers -> Jobs \cup {Nobody}]
    BY <2>1
  <2>3. SharingIsKnown'
    <3> SUFFICES ASSUME NEW x \in Workers, NEW y \in Workers, x # y,
                        worker'[x] # Nobody, worker'[y] # Nobody, worker'[x].name = worker'[y].name
                 PROVE  worker'[x].disturbed
      BY DEF SharingIsKnown
    <3>1. CASE x = v
      BY <3>1, <2>1, <1>1 DEF Spawn
    <3>2. CASE x # v /\ y = v
      BY <3>2, <2>1, <1>1 DEF Spawn
    <3>3. CASE x # v /\ y # v
      BY <3>3, <2>1, <1>1 DEF Spawn, SharingIsKnown
    <3> QED
      BY <3>1, <3>2, <3>3
  <2>4. WayIsClear'
    BY <2>1, <1>1 DEF Spawn, WayIsClear
  <2> QED
    BY <2>2, <2>3, <2>4
<1>2. ASSUME NEW v \in Workers, Look(v) PROVE WorktreesInv'
  BY <1>2 DEF Look, SharingIsKnown, WayIsClear
<1>3. ASSUME NEW v \in Workers, RemoveWorktree(v) PROVE WorktreesInv'
  BY <1>3 DEF RemoveWorktree, DeleteDirectory, SharingIsKnown, WayIsClear
<1>4. ASSUME NEW v \in Workers, Unregister(v) PROVE WorktreesInv'
  BY <1>4 DEF Unregister, SharingIsKnown, WayIsClear
<1>5. ASSUME NEW v \in Workers, Rmtree(v) PROVE WorktreesInv'
  BY <1>5 DEF Rmtree, DeleteDirectory, Beside, SharingIsKnown, WayIsClear
<1>6. ASSUME NEW v \in Workers, Prune(v) PROVE WorktreesInv'
  BY <1>6 DEF Prune, SharingIsKnown, WayIsClear
<1>7. ASSUME NEW v \in Workers, Add(v) PROVE WorktreesInv'
  BY <1>7 DEF Add, SharingIsKnown, WayIsClear
<1>8. ASSUME NEW v \in Workers, Checkout(v) PROVE WorktreesInv'
  BY <1>8 DEF Checkout, SharingIsKnown, WayIsClear
<1>9. ASSUME NEW v \in Workers, Unlock(v) PROVE WorktreesInv'
  BY <1>9 DEF Unlock, SharingIsKnown, WayIsClear
<1>10. ASSUME NEW v \in Workers, Work(v) PROVE WorktreesInv'
  BY <1>10 DEF Work, SharingIsKnown, WayIsClear
<1>11. ASSUME NEW v \in Workers, Fail(v) PROVE WorktreesInv'
  BY <1>11 DEF Fail, SharingIsKnown, WayIsClear
<1>12. ASSUME NEW v \in Workers, KillWorker(v) PROVE WorktreesInv'
  <2>1. CASE Quits(v)
    BY <1>12, <2>1 DEF KillWorker, SharingIsKnown, WayIsClear
  <2>2. CASE worker' = [worker EXCEPT ![v].alive = FALSE]
    <3>1. worker' \in [Workers -> Jobs \cup {Nobody}]
      BY <1>12, <2>2 DEF KillWorker
    <3>2. \A o \in Workers : Live(o)' => Live(o)
      BY <1>12, <2>2, <3>1 DEF KillWorker
    <3>3. \A o \in Workers : Live(o) => /\ worker'[o].name = worker[o].name
                                        /\ worker'[o].at = worker[o].at
                                        /\ worker'[o].disturbed = worker[o].disturbed
      BY <1>12, <2>2 DEF KillWorker
    <3> QED
      BY <1>12, <3>1, <3>2, <3>3 DEF KillWorker, SharingIsKnown, WayIsClear
  <2> QED
    BY <1>12, <2>1, <2>2 DEF KillWorker
<1>13. CASE CleanPrunes
  BY <1>13 DEF CleanPrunes, SharingIsKnown, WayIsClear
<1>14. CASE CleanRemoves
  <2>1. CASE UNCHANGED worker /\ UNCHANGED dirs
    BY <1>14, <2>1 DEF CleanRemoves, SharingIsKnown, WayIsClear
  <2>2. CASE /\ dirs' = dirs \cap stuck
             /\ worker' = [v \in Workers |->
                    IF At(v, "unlock") THEN [worker[v] EXCEPT !.disturbed = TRUE] ELSE worker[v]]
    <3>1. worker' \in [Workers -> Jobs \cup {Nobody}]
      BY <2>2
    <3>2. \A o \in Workers : Live(o)' => Live(o)
      BY <2>2, <3>1
    <3>3. \A o \in Workers : Live(o) =>
              /\ worker'[o].name = worker[o].name /\ worker'[o].at = worker[o].at
              /\ worker'[o].disturbed = (worker[o].disturbed \/ worker[o].at = "unlock")
      BY <2>2
    <3> QED
      BY <1>14, <2>2, <3>1, <3>2, <3>3 DEF CleanRemoves, SharingIsKnown, WayIsClear
  <2> QED
    BY <1>14, <2>1, <2>2 DEF CleanRemoves
<1>15. CASE UNCHANGED worktreesVars
  BY <1>15 DEF worktreesVars, SharingIsKnown, WayIsClear
<1> QED
  BY <1>1, <1>2, <1>3, <1>4, <1>5, <1>6, <1>7, <1>8, <1>9, <1>10, <1>11, <1>12, <1>13, <1>14, <1>15
     DEF WorktreesNext

\* For every number of workers, runs and jobs, whatever was killed or cleaned up at any
\* point, `git worktree add` fails an undisturbed job only over a directory that cannot be
\* deleted and over a registration that a killed `git worktree add` has left locked.
THEOREM NothingBlocks == WorktreesSpec => []LeftoversNeverBlock
<1>1. WorktreesInv => LeftoversNeverBlock
  BY DEF WorktreesInv, WayIsClear, LeftoversNeverBlock, At, NameOf, Live, Jobs
<1> QED
  BY <1>1, InitWorktrees, NextWorktrees, PTL DEF WorktreesSpec

-----------------------------------------------------------------------------
(* Watch mode.  SavesAreSeen speaks of the idle handler only; the          *)
(* invariant says at any time why a file that the last run has loaded may  *)
(* differ from what was loaded: its event still waits, and is not going to *)
(* be dropped.                                                             *)

WatchTyped ==
    /\ saved \in [Files -> Contents]
    /\ queue \in Seq(Files)
    /\ pending \in Seq(Files)
    /\ recent \in BOOLEAN

Waits(f) == \E i \in 1..Len(queue) : queue[i] = f
Unwatched(f) == stage \notin {"initial", "collect", "start"} /\ f \notin watched

UpToDate ==
    \A f \in DOMAIN loaded :
        \/ loaded[f] = saved[f]
        \/ f \in unnoticed
        \/ Waits(f) /\ ~recent
        \/ Unwatched(f)

WatchInv == WatchTyped /\ UpToDate

\* Nothing is loaded at first.
LEMMA InitWatch == WatchInit => WatchInv
<1> SUFFICES ASSUME WatchInit PROVE WatchInv
  OBVIOUS
<1>1. <<Root>> \in Seq(Files) /\ << >> \in Seq(Files)
  BY RootAssumption
<1>2. WatchTyped
  BY <1>1 DEF WatchInit, WatchTyped
<1>3. DOMAIN loaded = {}
  BY DEF WatchInit
<1> QED
  BY <1>2, <1>3 DEF WatchInv, UpToDate

\* A file that waits goes on waiting when another one is appended.
LEMMA AppendKeepsWaiting ==
    ASSUME queue \in Seq(Files), NEW g \in Files, queue' = Append(queue, g)
    PROVE  /\ queue' \in Seq(Files)
           /\ Waits(g)'
           /\ \A f : Waits(f) => Waits(f)'
<1>1. queue' \in Seq(Files) /\ Len(queue') = Len(queue) + 1
  OBVIOUS
<1>2. queue'[Len(queue')] = g
  OBVIOUS
<1>3. \A i \in 1..Len(queue) : queue'[i] = queue[i]
  OBVIOUS
<1> QED
  BY <1>1, <1>2, <1>3 DEF Waits

\* Of the files that wait only the first one stops waiting when its event is handled.
LEMMA TailKeepsWaiting ==
    ASSUME queue \in Seq(Files), queue # << >>, queue' = Tail(queue)
    PROVE  /\ queue' \in Seq(Files)
           /\ \A f : Waits(f) /\ f # Head(queue) => Waits(f)'
<1>1. queue' \in Seq(Files) /\ Len(queue') = Len(queue) - 1
  OBVIOUS
<1>2. ASSUME NEW f, NEW i \in 1..Len(queue), queue[i] = f, f # Head(queue)
      PROVE  i - 1 \in 1..Len(queue') /\ queue'[i - 1] = f
  <2>1. i # 1
    BY <1>2
  <2> QED
    BY <1>1, <1>2, <2>1
<1> QED
  BY <1>1, <1>2 DEF Waits

\* A save leaves its file waiting or unnoticed, and disturbs no other file.
LEMMA SaveInv == ASSUME WatchInv, Save PROVE WatchInv'
<1> USE DEF WatchInv, WatchTyped
<1>1. PICK g \in Files, c \in Contents, in_place \in BOOLEAN :
          /\ saved' = [saved EXCEPT ![g] = c]
          /\ \/ queue' = Append(queue, g) /\ stage = "watching" /\ in_place
             \/ UNCHANGED queue /\ ~(stage = "watching" /\ in_place)
             \/ UNCHANGED queue /\ queue # << >> /\ queue[Len(queue)] = g
          /\ unnoticed' = IF stage = "watching" /\ in_place /\ ~recent
                          THEN unnoticed ELSE unnoticed \cup {g}
  BY DEF Save
<1>2. UNCHANGED <<stage, watched, pending, loaded, recent>>
  BY DEF Save
<1>3. /\ queue' \in Seq(Files)
      /\ \A f : Waits(f) => Waits(f)'
      /\ g \in unnoticed' \/ (Waits(g)' /\ ~recent)
  <2>1. CASE queue' = Append(queue, g)
    BY <2>1, <1>1, AppendKeepsWaiting
  <2>2. CASE UNCHANGED queue /\ ~(stage = "watching" /\ in_place)
    BY <2>2, <1>1 DEF Waits
  <2>3. CASE UNCHANGED queue /\ queue # << >> /\ queue[Len(queue)] = g
    <3>1. Len(queue) \in 1..Len(queue)
      BY <2>3
    <3> QED
      BY <3>1, <2>3, <1>1 DEF Waits
  <2> QED
    BY <1>1, <2>1, <2>2, <2>3
<1>4. WatchTyped'
  BY <1>1, <1>2, <1>3
<1>5. UpToDate'
  <2> SUFFICES ASSUME NEW f \in DOMAIN loaded
               PROVE  \/ loaded[f] = saved'[f]
                      \/ f \in unnoticed'
                      \/ Waits(f)' /\ ~recent'
                      \/ Unwatched(f)'
    BY <1>2 DEF UpToDate
  <2>1. CASE f = g
    BY <2>1, <1>2, <1>3
  <2>2. CASE f # g
    BY <2>2, <1>1, <1>2, <1>3 DEF UpToDate, Unwatched
  <2> QED
    BY <2>1, <2>2
<1> QED
  BY <1>4, <1>5

\* Handling an event starts a run that has loaded nothing yet, or drops the event of a file
\* that is not watched or, within the window, of one that the last run has to thank for.
LEMMA OnModifiedInv == ASSUME WatchInv, OnModified PROVE WatchInv'
<1> USE DEF WatchInv, WatchTyped
<1>1. /\ queue' \in Seq(Files)
      /\ \A f : Waits(f) /\ f # Head(queue) => Waits(f)'
  BY TailKeepsWaiting DEF OnModified
<1>2. CASE Head(queue) \notin watched \/ recent
  <2>1. UNCHANGED <<saved, stage, watched, pending, loaded, recent, unnoticed>> /\ stage = "watching"
    BY <1>2 DEF OnModified
  <2> QED
    BY <1>1, <1>2, <2>1 DEF UpToDate, Unwatched
<1>3. CASE ~(Head(queue) \notin watched \/ recent)
  <2>1. loaded' = << >> /\ pending' = <<Root>> /\ recent' = TRUE /\ saved' = saved
    BY <1>3 DEF OnModified
  <2> QED
    BY <1>1, <2>1, RootAssumption DEF UpToDate
<1> QED
  BY <1>2, <1>3

\* Every step keeps the invariant.
LEMMA NextWatch == WatchInv /\ [WatchNext]_watchVars => WatchInv'
<1> SUFFICES ASSUME WatchInv, [WatchNext]_watchVars PROVE WatchInv'
  OBVIOUS
<1> USE DEF WatchInv, WatchTyped
<1>1. CASE LoadFile
  <2>1. UNCHANGED <<saved, stage, watched, queue, recent, unnoticed>>
    BY <1>1 DEF LoadFile
  <2>2. pending' \in Seq(Files)
    <3>1. Head(pending) \in Files /\ Tail(pending) \in Seq(Files)
      BY <1>1 DEF LoadFile
    <3>2. Includes[Head(pending)][saved[Head(pending)]] \in Seq(Files)
      BY <3>1, IncludesAssumption
    <3>3. Includes[Head(pending)][saved[Head(pending)]] \o Tail(pending) \in Seq(Files)
      BY <3>1, <3>2
    <3> QED
      BY <1>1, <3>1, <3>3 DEF LoadFile
  <2>3. \A f \in DOMAIN loaded' : \/ f \in DOMAIN loaded /\ loaded'[f] = loaded[f]
                                  \/ loaded'[f] = saved[f]
    BY <1>1 DEF LoadFile
  <2>4. UpToDate'
    BY <2>1, <2>3 DEF UpToDate, Waits, Unwatched
  <2> QED
    BY <2>1, <2>2, <2>4
<1>2. CASE RunEnds
  BY <1>2 DEF RunEnds, UpToDate, Waits, Unwatched
<1>3. CASE Collect
  BY <1>3 DEF Collect, UpToDate, Waits, Unwatched
<1>4. CASE StartObserver
  BY <1>4 DEF StartObserver, UpToDate, Waits, Unwatched
<1>5. CASE OnModified
  BY <1>5, OnModifiedInv
<1>6. CASE Tick
  BY <1>6 DEF Tick, UpToDate, Waits, Unwatched
<1>7. CASE Interrupt
  BY <1>7 DEF Interrupt, UpToDate, Waits, Unwatched
<1>8. CASE Stopped
  BY <1>8 DEF Stopped, UpToDate, Waits, Unwatched
<1>9. CASE Save
  BY <1>9, SaveInv
<1>10. CASE UNCHANGED watchVars
  BY <1>10 DEF watchVars, UpToDate, Waits, Unwatched
<1> QED
  BY <1>1, <1>2, <1>3, <1>4, <1>5, <1>6, <1>7, <1>8, <1>9, <1>10 DEF WatchNext

\* Watch mode that is idle has run with what the watched files contain, but for the saves
\* that it does not notice.
THEOREM EverySaveIsSeen == WatchSpec => []SavesAreSeen
<1>1. WatchInv => SavesAreSeen
  <2> SUFFICES ASSUME WatchInv, stage = "watching", queue = << >>,
                      NEW f \in (watched \cap DOMAIN loaded) \ unnoticed
               PROVE  loaded[f] = saved[f]
    BY DEF SavesAreSeen
  <2>1. ~Waits(f) /\ ~Unwatched(f)
    BY DEF Waits, Unwatched
  <2> QED
    BY <2>1 DEF WatchInv, UpToDate
<1> QED
  BY <1>1, InitWatch, NextWatch, PTL DEF WatchSpec

-----------------------------------------------------------------------------
(* Planning: dictionaries and layers.                                      *)

\* A nonempty set of natural numbers has a least one.
LEMMA LeastNat ==
    ASSUME NEW T, T \subseteq Nat, T # {}
    PROVE  \E x \in T : \A y \in T : x <= y
<1>1. PICK x \in T : \A y \in T : ~ (<<y, x>> \in OpToRel(<, Nat))
  BY NatLessThanWellFounded, WFMin
<1>2. \A y \in T : ~(y < x)
  BY <1>1 DEF OpToRel
<1> QED
  BY <1>2

\* What an empty dictionary does to another one, below it and above it
LEMMA UpdateNothing ==
    ASSUME NEW f, NEW g
    PROVE  /\ Update(Update(f, g), << >>) = Update(f, g)
           /\ Update(Update(<< >>, f), g) = Update(f, g)
           /\ Update(f, Update(<< >>, g)) = Update(f, g)
  BY DEF Update

\* A further layer updates what the layers below it give.
LEMMA LastLayerUpdates ==
    ASSUME NEW S, NEW layers \in Seq(S), NEW layer
    PROVE  Overlaid(Append(layers, layer)) = Update(Overlaid(layers), layer)
<1> DEFINE more == Append(layers, layer)
           Having(key) == {i \in DOMAIN layers : key \in DOMAIN layers[i]}
           HavingMore(key) == {i \in DOMAIN more : key \in DOMAIN more[i]}
<1>1. more \in Seq(S \cup {layer})
  OBVIOUS
<1>2. /\ Len(layers) \in Nat /\ DOMAIN layers = 1..Len(layers)
      /\ DOMAIN more = 1..(Len(layers) + 1) /\ more[Len(layers) + 1] = layer
      /\ \A i \in DOMAIN layers : more[i] = layers[i]
  BY <1>1
<1> HIDE DEF more
<1>3. UNION {DOMAIN more[i] : i \in DOMAIN more} =
          (UNION {DOMAIN layers[i] : i \in DOMAIN layers}) \cup DOMAIN layer
  <2>1. DOMAIN more = DOMAIN layers \cup {Len(layers) + 1}
    BY <1>2
  <2> QED
    BY <1>2, <2>1
<1>4. ASSUME NEW key \in DOMAIN layer
      PROVE  more[CHOOSE i \in HavingMore(key) : \A k \in HavingMore(key) : k <= i][key] = layer[key]
  <2>1. Len(layers) + 1 \in HavingMore(key) /\ \A k \in HavingMore(key) : k \in Int /\ k <= Len(layers) + 1
    BY <1>2, <1>4
  <2>2. (CHOOSE i \in HavingMore(key) : \A k \in HavingMore(key) : k <= i) = Len(layers) + 1
    <3> HIDE DEF HavingMore
    <3>1. \A i \in HavingMore(key) : (\A k \in HavingMore(key) : k <= i) => i = Len(layers) + 1
      BY <1>2, <2>1
    <3> QED
      BY <2>1, <3>1
  <2> QED
    BY <1>2, <2>2
<1>5. ASSUME NEW key \in (UNION {DOMAIN layers[i] : i \in DOMAIN layers}) \ DOMAIN layer
      PROVE  more[CHOOSE i \in HavingMore(key) : \A k \in HavingMore(key) : k <= i][key]
                 = layers[CHOOSE i \in Having(key) : \A k \in Having(key) : k <= i][key]
  <2>1. HavingMore(key) = Having(key) /\ Having(key) \subseteq 1..Len(layers) /\ Having(key) # {}
    BY <1>2, <1>5
  <2>2. \E i \in Having(key) : \A k \in Having(key) : k <= i
    <3> DEFINE T == {Len(layers) - i : i \in Having(key)}
    <3>1. T \subseteq Nat /\ T # {}
      BY <1>2, <2>1
    <3> HIDE DEF T
    <3>2. PICK x \in T : \A y \in T : x <= y
      BY <3>1, LeastNat
    <3> USE DEF T
    <3>3. PICK i \in Having(key) : x = Len(layers) - i
      OBVIOUS
    <3>4. \A k \in Having(key) : k <= i
      <4>1. \A k \in Having(key) : Len(layers) - i <= Len(layers) - k
        BY <3>2, <3>3
      <4> QED
        BY <1>2, <2>1, <4>1
    <3> QED
      BY <3>4
  <2>3. (CHOOSE i \in Having(key) : \A k \in Having(key) : k <= i) \in DOMAIN layers
    <3> HIDE DEF Having
    <3>1. (CHOOSE i \in Having(key) : \A k \in Having(key) : k <= i) \in Having(key)
      BY <2>2
    <3> QED
      BY <1>2, <2>1, <3>1
  <2> QED
    BY <1>2, <2>1, <2>3
<1> DEFINE Value(key) == layers[CHOOSE i \in Having(key) : \A k \in Having(key) : k <= i][key]
           ValueMore(key) == more[CHOOSE i \in HavingMore(key) : \A k \in HavingMore(key) : k <= i][key]
<1>6. Overlaid(more) = [key \in UNION {DOMAIN more[i] : i \in DOMAIN more} |-> ValueMore(key)]
  BY DEF Overlaid
<1>7. Overlaid(layers) = [key \in UNION {DOMAIN layers[i] : i \in DOMAIN layers} |-> Value(key)]
  BY DEF Overlaid
<1>8. /\ \A key \in DOMAIN layer : ValueMore(key) = layer[key]
      /\ \A key \in (UNION {DOMAIN layers[i] : i \in DOMAIN layers}) \ DOMAIN layer :
             ValueMore(key) = Value(key)
  BY <1>4, <1>5
<1> HIDE DEF Value, ValueMore
<1>9. DOMAIN Overlaid(more) = DOMAIN Overlaid(layers) \cup DOMAIN layer
  BY <1>3, <1>6, <1>7
<1>10. \A key \in DOMAIN Overlaid(more) :
          Overlaid(more)[key] = IF key \in DOMAIN layer THEN layer[key] ELSE Overlaid(layers)[key]
  BY <1>3, <1>6, <1>7, <1>8
<1> QED
  BY <1>6, <1>9, <1>10 DEF more, Update

\* No layer gives nothing.
LEMMA NoLayer == Overlaid(<< >>) = << >>
  BY DEF Overlaid

\* Six layers, one after the other
LEMMA SixLayers ==
    ASSUME NEW a, NEW b, NEW c, NEW d, NEW e, NEW f
    PROVE  Overlaid(<<a, b, c, d, e, f>>) =
               Update(Update(Update(Update(Update(Update(<< >>, a), b), c), d), e), f)
<1> DEFINE S == {a, b, c, d, e, f}
<1>1. /\ <<a>> = Append(<< >>, a) /\ << >> \in Seq(S)
      /\ <<a, b>> = Append(<<a>>, b) /\ <<a>> \in Seq(S)
      /\ <<a, b, c>> = Append(<<a, b>>, c) /\ <<a, b>> \in Seq(S)
      /\ <<a, b, c, d>> = Append(<<a, b, c>>, d) /\ <<a, b, c>> \in Seq(S)
      /\ <<a, b, c, d, e>> = Append(<<a, b, c, d>>, e) /\ <<a, b, c, d>> \in Seq(S)
      /\ <<a, b, c, d, e, f>> = Append(<<a, b, c, d, e>>, f) /\ <<a, b, c, d, e>> \in Seq(S)
  OBVIOUS
<1> HIDE DEF S
<1>2. Overlaid(<<a, b>>) = Update(Update(<< >>, a), b)
  <2>1. Overlaid(<<a>>) = Update(<< >>, a)
    BY <1>1, LastLayerUpdates, NoLayer
  <2> QED
    BY <1>1, <2>1, LastLayerUpdates
<1>3. Overlaid(<<a, b, c>>) = Update(Update(Update(<< >>, a), b), c)
  BY <1>1, <1>2, LastLayerUpdates
<1>4. Overlaid(<<a, b, c, d>>) = Update(Update(Update(Update(<< >>, a), b), c), d)
  BY <1>1, <1>3, LastLayerUpdates
<1>5. Overlaid(<<a, b, c, d, e>>) = Update(Update(Update(Update(Update(<< >>, a), b), c), d), e)
  BY <1>1, <1>4, LastLayerUpdates
<1> QED
  BY <1>1, <1>5, LastLayerUpdates

-----------------------------------------------------------------------------
(* Planning: if:.                                                          *)

Ends(tokens, operator) == {0, Len(tokens) + 1} \cup {i \in DOMAIN tokens : tokens[i] = operator}
Consecutive(ends, a, b) == a \in ends /\ b \in ends /\ a < b /\ \A m \in ends : m <= a \/ b <= m

\* The parts are what is between an end and the next one.
LEMMA PartsOfSplit ==
    ASSUME NEW tokens \in Seq(STRING), NEW operator, NEW part
    PROVE  part \in Split(tokens, operator) <=>
               \E a, b \in 0..(Len(tokens) + 1) :
                   Consecutive(Ends(tokens, operator), a, b) /\ part = SubSeq(tokens, a + 1, b - 1)
<1> DEFINE E == Ends(tokens, operator)
<1>1. E \subseteq 0..(Len(tokens) + 1)
  BY DEF Ends
<1>2. part \in Split(tokens, operator) <=>
          \E e \in {d \in E \X E : d[1] < d[2] /\ \A m \in E : m <= d[1] \/ d[2] <= m} :
              part = SubSeq(tokens, e[1] + 1, e[2] - 1)
  BY DEF Split, Ends
<1> HIDE DEF E
<1>3. (\E e \in {d \in E \X E : d[1] < d[2] /\ \A m \in E : m <= d[1] \/ d[2] <= m} :
          part = SubSeq(tokens, e[1] + 1, e[2] - 1))
      <=> \E a, b \in E : Consecutive(E, a, b) /\ part = SubSeq(tokens, a + 1, b - 1)
  <2>1. ASSUME NEW e \in E \X E, e[1] < e[2] /\ \A m \in E : m <= e[1] \/ e[2] <= m,
               part = SubSeq(tokens, e[1] + 1, e[2] - 1)
        PROVE  e[1] \in E /\ e[2] \in E /\ Consecutive(E, e[1], e[2])
    BY <2>1 DEF Consecutive
  <2>2. ASSUME NEW a \in E, NEW b \in E, Consecutive(E, a, b)
        PROVE  /\ <<a, b>> \in E \X E /\ <<a, b>>[1] = a /\ <<a, b>>[2] = b
               /\ a < b /\ \A m \in E : m <= a \/ b <= m
    BY <2>2 DEF Consecutive
  <2>3. ASSUME NEW a \in E, NEW b \in E, Consecutive(E, a, b), part = SubSeq(tokens, a + 1, b - 1)
        PROVE  \E e \in {d \in E \X E : d[1] < d[2] /\ \A m \in E : m <= d[1] \/ d[2] <= m} :
                   part = SubSeq(tokens, e[1] + 1, e[2] - 1)
    <3>1. <<a, b>> \in {d \in E \X E : d[1] < d[2] /\ \A m \in E : m <= d[1] \/ d[2] <= m}
      BY <2>2, <2>3
    <3>2. part = SubSeq(tokens, <<a, b>>[1] + 1, <<a, b>>[2] - 1)
      BY <2>3
    <3> QED
      BY <3>1, <3>2
  <2>4. ASSUME NEW e \in {d \in E \X E : d[1] < d[2] /\ \A m \in E : m <= d[1] \/ d[2] <= m},
               part = SubSeq(tokens, e[1] + 1, e[2] - 1)
        PROVE  \E a, b \in E : Consecutive(E, a, b) /\ part = SubSeq(tokens, a + 1, b - 1)
    BY <2>1, <2>4
  <2> QED
    BY <2>3, <2>4
<1>4. ASSUME NEW a, NEW b, Consecutive(E, a, b) PROVE a \in E /\ b \in E
  BY <1>4 DEF Consecutive
<1> QED
  BY <1>1, <1>2, <1>3, <1>4 DEF E

\* Behind an end there is a next one, and before an end there is one.
LEMMA EndsAround ==
    ASSUME NEW tokens \in Seq(STRING), NEW operator, NEW m \in 0..(Len(tokens) + 1)
    PROVE  /\ m <= Len(tokens) => \E b \in Ends(tokens, operator) :
                  m < b /\ \A k \in Ends(tokens, operator) : k <= m \/ b <= k
           /\ 1 <= m => \E a \in Ends(tokens, operator) :
                  a < m /\ \A k \in Ends(tokens, operator) : k <= a \/ m <= k
<1> DEFINE E == Ends(tokens, operator)
<1>1. E \subseteq 0..(Len(tokens) + 1) /\ 0 \in E /\ Len(tokens) + 1 \in E /\ Len(tokens) \in Nat
  BY DEF Ends
<1> HIDE DEF E
<1>2. ASSUME m <= Len(tokens) PROVE \E b \in E : m < b /\ \A k \in E : k <= m \/ b <= k
  <2> DEFINE T == {k \in E : m < k}
  <2>1. T \subseteq Nat /\ T # {}
    <3>1. Len(tokens) + 1 \in T
      BY <1>1, <1>2
    <3>2. \A k \in T : k \in 0..(Len(tokens) + 1)
      BY <1>1
    <3> HIDE DEF T
    <3> QED
      BY <3>1, <3>2
  <2>2. PICK b \in T : \A k \in T : b <= k
    BY <2>1, LeastNat
  <2> QED
    BY <1>1, <2>2
<1>3. ASSUME 1 <= m PROVE \E a \in E : a < m /\ \A k \in E : k <= a \/ m <= k
  <2> DEFINE T == {m - k : k \in {i \in E : i < m}}
  <2>1. T \subseteq Nat /\ T # {}
    BY <1>1, <1>3
  <2> HIDE DEF T
  <2>2. PICK x \in T : \A y \in T : x <= y
    BY <2>1, LeastNat
  <2>3. PICK a \in E : a < m /\ x = m - a
    BY <2>2 DEF T
  <2>4. ASSUME NEW k \in E, k < m PROVE k <= a
    <3>1. m - k \in T
      BY <2>4 DEF T
    <3>2. m - a <= m - k
      BY <2>2, <2>3, <3>1
    <3> QED
      BY <1>1, <2>3, <3>2
  <2> QED
    BY <1>1, <2>3, <2>4
<1> QED
  BY <1>2, <1>3 DEF E

\* Comparisons that hold, joined by &&
Joined(part, true) ==
    /\ 1 <= Len(part) /\ part[1] \in true /\ part[Len(part)] \in true
    /\ \A m \in 1..Len(part) : part[m] \in true \cup {"&&"}
    /\ \A m \in 1..(Len(part) - 1) : part[m] = "&&" <=> part[m + 1] # "&&"

\* A part without || holds as a whole if and only if it is such a text.
LEMMA TermsHold ==
    ASSUME NEW part \in Seq(STRING), NEW env, \A m \in DOMAIN part : part[m] # "||"
    PROVE  (\A term \in Split(part, "&&") : Len(term) = 1 /\ term[1] \in env)
               <=> Joined(part, env \ {"&&", "||"})
<1> DEFINE E == Ends(part, "&&")
           n == Len(part)
           true == env \ {"&&", "||"}
<1>1. /\ E \subseteq 0..(n + 1) /\ 0 \in E /\ n + 1 \in E /\ n \in Nat /\ DOMAIN part = 1..n
      /\ \A m \in 1..n : m \in E <=> part[m] = "&&"
  BY DEF Ends
<1>2. (\A term \in Split(part, "&&") : Len(term) = 1 /\ term[1] \in env)
          <=> \A a, b \in 0..(n + 1) : Consecutive(E, a, b) => b = a + 2 /\ part[a + 1] \in env
  <2>1. ASSUME NEW a \in 0..(n + 1), NEW b \in 0..(n + 1), a < b
        PROVE  (Len(SubSeq(part, a + 1, b - 1)) = 1 /\ SubSeq(part, a + 1, b - 1)[1] \in env)
                   <=> (b = a + 2 /\ part[a + 1] \in env)
    <3>1. Len(SubSeq(part, a + 1, b - 1)) = b - 1 - a
      BY <1>1, <2>1
    <3>2. b = a + 2 => SubSeq(part, a + 1, b - 1)[1] = part[a + 1]
      BY <1>1, <2>1
    <3> QED
      BY <3>1, <3>2
  <2>2. \A a, b : Consecutive(E, a, b) => a < b
    BY DEF Consecutive
  <2> HIDE DEF E
  <2>3. \A term : term \in Split(part, "&&") <=>
            \E a, b \in 0..(n + 1) : Consecutive(E, a, b) /\ term = SubSeq(part, a + 1, b - 1)
    BY PartsOfSplit DEF E
  <2>4. (\A term \in Split(part, "&&") : Len(term) = 1 /\ term[1] \in env)
            <=> \A a, b \in 0..(n + 1) : Consecutive(E, a, b) =>
                    Len(SubSeq(part, a + 1, b - 1)) = 1 /\ SubSeq(part, a + 1, b - 1)[1] \in env
    <3> HIDE DEF n
    <3>1. ASSUME \A term \in Split(part, "&&") : Len(term) = 1 /\ term[1] \in env,
                 NEW a \in 0..(n + 1), NEW b \in 0..(n + 1), Consecutive(E, a, b)
          PROVE  Len(SubSeq(part, a + 1, b - 1)) = 1 /\ SubSeq(part, a + 1, b - 1)[1] \in env
      <4>1. SubSeq(part, a + 1, b - 1) \in Split(part, "&&")
        BY <2>3, <3>1
      <4> QED
        BY <3>1, <4>1
    <3>2. ASSUME \A a, b \in 0..(n + 1) : Consecutive(E, a, b) =>
                     Len(SubSeq(part, a + 1, b - 1)) = 1 /\ SubSeq(part, a + 1, b - 1)[1] \in env,
                 NEW term \in Split(part, "&&")
          PROVE  Len(term) = 1 /\ term[1] \in env
      <4>1. PICK a, b \in 0..(n + 1) : Consecutive(E, a, b) /\ term = SubSeq(part, a + 1, b - 1)
        BY <2>3
      <4> QED
        BY <3>2, <4>1
    <3> QED
      BY <3>1, <3>2
  <2> HIDE DEF n
  <2> QED
    BY <2>1, <2>2, <2>4
<1>3. ASSUME \A a, b \in 0..(n + 1) : Consecutive(E, a, b) => b = a + 2 /\ part[a + 1] \in env
      PROVE  Joined(part, true)
  <2>1. \A a \in E : a <= n => a + 2 \in E /\ a + 1 <= n /\ part[a + 1] \in env /\ a + 1 \notin E
    <3> SUFFICES ASSUME NEW a \in E, a <= n
                 PROVE  a + 2 \in E /\ a + 1 <= n /\ part[a + 1] \in env /\ a + 1 \notin E
      OBVIOUS
    <3>1. PICK b \in E : a < b /\ \A k \in E : k <= a \/ b <= k
      BY <1>1, EndsAround
    <3>2. b = a + 2 /\ part[a + 1] \in env
      BY <1>1, <1>3, <3>1 DEF Consecutive
    <3> QED
      BY <1>1, <3>1, <3>2
  <2>2. \A m \in 1..n : m \notin E => m - 1 \in E
    <3> SUFFICES ASSUME NEW m \in 1..n, m \notin E PROVE m - 1 \in E
      OBVIOUS
    <3>1. PICK a \in E : a < m /\ \A k \in E : k <= a \/ m <= k
      BY <1>1, EndsAround
    <3>2. a + 2 \in E
      BY <1>1, <2>1, <3>1
    <3> QED
      BY <1>1, <3>1, <3>2
  <2>3. \A m \in 1..n : m \notin E => part[m] \in true
    <3> SUFFICES ASSUME NEW m \in 1..n, m \notin E PROVE part[m] \in true
      OBVIOUS
    <3>1. m - 1 \in E /\ m - 1 <= n /\ (m - 1) + 1 = m
      BY <1>1, <2>2
    <3>2. part[m] \in env
      BY <2>1, <3>1
    <3> QED
      BY <1>1, <3>2
  <2>4. 1 <= n /\ 1 \notin E
    BY <1>1, <2>1
  <2>5. n \notin E
    BY <1>1, <2>1
  <2>6. \A m \in 1..(n - 1) : m \in E <=> m + 1 \notin E
    <3> SUFFICES ASSUME NEW m \in 1..(n - 1) PROVE m \in E <=> m + 1 \notin E
      OBVIOUS
    <3>1. m \in E => m + 1 \notin E
      BY <1>1, <2>1
    <3>2. m + 1 \notin E => (m + 1) - 1 \in E
      BY <1>1, <2>2
    <3> QED
      BY <1>1, <3>1, <3>2
  <2> HIDE DEF true
  <2> QED
    BY <1>1, <2>3, <2>4, <2>5, <2>6 DEF Joined
<1>4. ASSUME Joined(part, true), NEW a \in 0..(n + 1), NEW b \in 0..(n + 1), Consecutive(E, a, b)
      PROVE  b = a + 2 /\ part[a + 1] \in env
  <2>1. a \in E /\ b \in E /\ a < b /\ \A m \in E : m <= a \/ b <= m
    BY <1>4 DEF Consecutive
  <2>2. "&&" \notin true
    OBVIOUS
  <2> HIDE DEF E, true
  <2>3. 1 <= n /\ 1 \notin E /\ n \notin E
    BY <1>1, <1>4, <2>2 DEF Joined
  <2>4. a + 1 \in 1..n /\ a + 1 \notin E
    <3>1. a < n
      BY <1>1, <2>1, <2>3
    <3>2. CASE a = 0
      BY <1>1, <2>3, <3>2
    <3>3. CASE a # 0
      BY <1>1, <1>4, <2>1, <3>1, <3>3 DEF Joined
    <3> QED
      BY <3>2, <3>3
  <2>5. part[a + 1] \in true
    BY <1>1, <1>4, <2>4 DEF Joined
  <2>6. a + 2 \in E
    <3>1. CASE a + 1 = n
      BY <1>1, <3>1
    <3>2. CASE a + 1 # n
      <4>1. a + 1 \in 1..(n - 1) /\ a + 2 \in 1..n /\ (a + 1) + 1 = a + 2
        <5> HIDE DEF n
        <5> QED
          BY <1>1, <2>4, <3>2
      <4>2. part[a + 1] = "&&" <=> part[(a + 1) + 1] # "&&"
        BY <1>4, <4>1 DEF Joined
      <4> QED
        BY <1>1, <2>4, <4>1, <4>2
    <3> QED
      BY <3>1, <3>2
  <2>7. b = a + 2
    BY <1>1, <2>1, <2>4, <2>6
  <2> QED
    BY <2>5, <2>7 DEF true
<1> QED
  BY <1>2, <1>3, <1>4

\* evaluate_if: an if: holds as its text reads.
LEMMA IfReadsAsText ==
    ASSUME NEW tokens \in Seq(STRING), NEW env
    PROVE  evaluate_if(tokens, env) <=> Holds(tokens, env)
<1> DEFINE E == Ends(tokens, "||")
           n == Len(tokens)
           true == env \ {"&&", "||"}
           Between(a, b) == SubSeq(tokens, a + 1, b - 1)
<1>1. /\ E \subseteq 0..(n + 1) /\ 0 \in E /\ n + 1 \in E /\ n \in Nat /\ DOMAIN tokens = 1..n
      /\ \A m \in 1..n : m \in E <=> tokens[m] = "||"
  BY DEF Ends
<1>2. \A a, b \in 0..(n + 1) : a < b =>
          /\ Between(a, b) \in Seq(STRING) /\ Len(Between(a, b)) = b - a - 1
          /\ \A m \in 1..(b - a - 1) : Between(a, b)[m] = tokens[a + m]
  BY <1>1
<1> HIDE DEF Between, E
<1>3. evaluate_if(tokens, env) <=>
          \E a, b \in 0..(n + 1) : Consecutive(E, a, b) /\ Joined(Between(a, b), true)
  <2>1. ASSUME NEW a \in 0..(n + 1), NEW b \in 0..(n + 1), Consecutive(E, a, b)
        PROVE  (\A term \in Split(Between(a, b), "&&") : Len(term) = 1 /\ term[1] \in env)
                   <=> Joined(Between(a, b), true)
    <3>1. a < b /\ \A m \in E : m <= a \/ b <= m
      BY <2>1 DEF Consecutive
    <3>2. \A m \in DOMAIN Between(a, b) : Between(a, b)[m] # "||"
      <4> SUFFICES ASSUME NEW m \in DOMAIN Between(a, b) PROVE Between(a, b)[m] # "||"
        OBVIOUS
      <4>1. m \in 1..(b - a - 1) /\ Between(a, b)[m] = tokens[a + m]
        BY <1>2, <3>1
      <4>2. a + m \in 1..n /\ a < a + m /\ a + m < b
        BY <1>1, <4>1
      <4>3. a + m \notin E
        BY <1>1, <3>1, <4>2
      <4> QED
        BY <1>1, <4>1, <4>2, <4>3
    <3>3. Between(a, b) \in Seq(STRING)
      BY <1>2, <3>1
    <3> QED
      BY <3>2, <3>3, TermsHold
  <2>2. evaluate_if(tokens, env) <=>
            \E a, b \in 0..(n + 1) :
                /\ Consecutive(E, a, b)
                /\ \A term \in Split(Between(a, b), "&&") : Len(term) = 1 /\ term[1] \in env
    <3>1. \A part : part \in Split(tokens, "||") <=>
              \E a, b \in 0..(n + 1) : Consecutive(E, a, b) /\ part = Between(a, b)
      BY PartsOfSplit DEF E, Between
    <3> QED
      BY <3>1 DEF evaluate_if
  <2> QED
    BY <2>1, <2>2
<1>4. Holds(tokens, env) <=>
          \E a, b \in 0..(n + 1) :
              /\ a + 1 < b /\ (a = 0 \/ tokens[a] = "||") /\ (b = n + 1 \/ tokens[b] = "||")
              /\ tokens[a + 1] \in true /\ tokens[b - 1] \in true
              /\ \A m \in (a + 1)..(b - 1) : tokens[m] \in true \cup {"&&"}
              /\ \A m \in (a + 1)..(b - 2) : tokens[m] = "&&" <=> tokens[m + 1] # "&&"
  BY DEF Holds
<1>5. "||" \notin true \cup {"&&"}
  OBVIOUS
<1> HIDE DEF true
<1>6. ASSUME NEW a \in 0..(n + 1), NEW b \in 0..(n + 1)
      PROVE  (Consecutive(E, a, b) /\ Joined(Between(a, b), true)) <=>
              /\ a + 1 < b /\ (a = 0 \/ tokens[a] = "||") /\ (b = n + 1 \/ tokens[b] = "||")
              /\ tokens[a + 1] \in true /\ tokens[b - 1] \in true
              /\ \A m \in (a + 1)..(b - 1) : tokens[m] \in true \cup {"&&"}
              /\ \A m \in (a + 1)..(b - 2) : tokens[m] = "&&" <=> tokens[m + 1] # "&&"
  <2> DEFINE part == Between(a, b)
             InPart == /\ \A m \in 1..(b - a - 1) : part[m] \in true \cup {"&&"}
                       /\ \A m \in 1..(b - a - 2) : part[m] = "&&" <=> part[m + 1] # "&&"
             InTokens == /\ \A m \in (a + 1)..(b - 1) : tokens[m] \in true \cup {"&&"}
                         /\ \A m \in (a + 1)..(b - 2) : tokens[m] = "&&" <=> tokens[m + 1] # "&&"
  <2> SUFFICES ASSUME a + 1 < b
               PROVE  (Consecutive(E, a, b) /\ Joined(part, true)) <=>
                        /\ (a = 0 \/ tokens[a] = "||") /\ (b = n + 1 \/ tokens[b] = "||")
                        /\ tokens[a + 1] \in true /\ tokens[b - 1] \in true /\ InTokens
    <3>1. Consecutive(E, a, b) /\ Joined(part, true) => a + 1 < b
      <4>1. ASSUME Consecutive(E, a, b), Joined(part, true) PROVE a + 1 < b
        <5>1. a < b
          BY <4>1 DEF Consecutive
        <5>2. Len(part) = b - a - 1 /\ 1 <= Len(part)
          BY <1>2, <4>1, <5>1 DEF Joined
        <5> QED
          BY <5>2
      <4> QED
        BY <4>1
    <3> QED
      BY <3>1
  <2>1. Len(part) = b - a - 1 /\ \A m \in 1..(b - a - 1) : part[m] = tokens[a + m]
    BY <1>2
  <2> HIDE DEF part
  <2>2. Joined(part, true) <=> part[1] \in true /\ part[b - a - 1] \in true /\ InPart
    BY <2>1 DEF Joined
  <2>3. part[1] = tokens[a + 1] /\ part[b - a - 1] = tokens[b - 1]
    BY <2>1
  <2>4. InPart <=> InTokens
    <3>1. ASSUME InPart PROVE InTokens
      <4>1. ASSUME NEW m \in (a + 1)..(b - 1)
            PROVE  m - a \in 1..(b - a - 1) /\ tokens[m] = part[m - a]
        BY <2>1
      <4>2. ASSUME NEW m \in (a + 1)..(b - 2)
            PROVE  m - a \in 1..(b - a - 2) /\ tokens[m] = part[m - a] /\ tokens[m + 1] = part[(m - a) + 1]
        BY <2>1
      <4> QED
        BY <3>1, <4>1, <4>2
    <3>2. ASSUME InTokens PROVE InPart
      <4>1. ASSUME NEW m \in 1..(b - a - 1)
            PROVE  a + m \in (a + 1)..(b - 1) /\ part[m] = tokens[a + m]
        BY <2>1
      <4>2. ASSUME NEW m \in 1..(b - a - 2)
            PROVE  a + m \in (a + 1)..(b - 2) /\ part[m] = tokens[a + m] /\ part[m + 1] = tokens[(a + m) + 1]
        BY <2>1
      <4>3. \A m \in 1..(b - a - 1) : part[m] \in true \cup {"&&"}
        BY <3>2, <4>1
      <4>4. \A m \in 1..(b - a - 2) : part[m] = "&&" <=> part[m + 1] # "&&"
        BY <3>2, <4>2
      <4> QED
        BY <4>3, <4>4
    <3> QED
      BY <3>1, <3>2
  <2>5. InTokens => (Consecutive(E, a, b) <=> (a = 0 \/ tokens[a] = "||") /\ (b = n + 1 \/ tokens[b] = "||"))
    <3> SUFFICES ASSUME InTokens
                 PROVE  Consecutive(E, a, b) <=> (a = 0 \/ tokens[a] = "||") /\ (b = n + 1 \/ tokens[b] = "||")
      OBVIOUS
    <3>1. a \in 0..n /\ b \in 1..(n + 1) /\ a < b
      BY <1>1
    <3>2. \A m \in E : m <= a \/ b <= m
      <4> SUFFICES ASSUME NEW m \in E, a < m, m < b PROVE FALSE
        BY <1>1
      <4>1. m \in 1..n /\ tokens[m] = "||"
        BY <1>1
      <4>2. m \in (a + 1)..(b - 1)
        BY <1>1
      <4> QED
        BY <1>5, <4>1, <4>2
    <3>3. (a \in E <=> (a = 0 \/ tokens[a] = "||")) /\ (b \in E <=> (b = n + 1 \/ tokens[b] = "||"))
      BY <1>1, <3>1
    <3> QED
      BY <3>1, <3>2, <3>3 DEF Consecutive
  <2> HIDE DEF InPart, InTokens
  <2> QED
    BY <2>2, <2>3, <2>4, <2>5
<1> QED
  BY <1>3, <1>4, <1>6
-----------------------------------------------------------------------------
(* Planning: extends:.                                                     *)
(*                                                                         *)
(* What is resolved is never revised: the parents of a resolved block were *)
(* resolved before it, so no circle gets through, and its value is what    *)
(* its parents and it give, one over the other.  A call under way has      *)
(* merged its first parents, and waits for the call behind it, so a name   *)
(* that comes up twice in the chain closes a circle.                       *)

Extended(name) == ToSet(Blocks[name].extends)
GoodRules(keys) == "rules" \in DOMAIN keys => AreRules(keys["rules"])

\* The request is one of those looked at.
RequestGiven == \E i \in DOMAIN Requests : request \in Requests[i]

\* The blocks of such a request have their types.
BlocksAreTyped ==
    \A name \in DOMAIN Blocks :
        /\ Blocks[name].extends \in Seq(STRING)
        /\ GoodRules(Blocks[name].plain)

\* What the first parents give, in their order
PlainOf(extends, last) == [i \in 1..last |-> resolved[extends[i]].plain]
VariablesOf(extends, last) == [i \in 1..last |-> resolved[extends[i]].variables]

\* A resolved block has what its parents give and then its own, and the parents were
\* resolved before it.
ResolvedBlock(name) ==
    LET extends == Blocks[name].extends IN
    /\ Extended(name) \subseteq DOMAIN resolved
    /\ resolved[name] =
           [ plain |-> Overlaid(Append(PlainOf(extends, Len(extends)), Blocks[name].plain)),
             variables |-> Overlaid(Append(VariablesOf(extends, Len(extends)), Blocks[name].variables)) ]
    /\ GoodRules(resolved[name].plain)

ResolvedInOrder ==
    /\ DOMAIN resolved \subseteq DOMAIN Blocks
    /\ \A name \in DOMAIN resolved : ResolvedBlock(name)
    /\ \A names \in SUBSET DOMAIN resolved :
           names # {} => \E name \in names : Extended(name) \cap names = {}

\* A call of resolve_one has merged the parents before the next one.
CallMerges(call) ==
    LET extends == Blocks[call.name].extends IN
    /\ DOMAIN call = {"name", "next", "merged"}
    /\ call.name \in DOMAIN Blocks \ DOMAIN resolved
    /\ call.next \in 1..(Len(extends) + 1)
    /\ \A i \in 1..(call.next - 1) : extends[i] \in DOMAIN resolved
    /\ call.merged.plain = Overlaid(PlainOf(extends, call.next - 1))
    /\ call.merged.variables = Overlaid(VariablesOf(extends, call.next - 1))
    /\ GoodRules(call.merged.plain)

\* Each call but the last one waits for the one behind it, and no block has two.
CallsNest ==
    /\ \E calls : chain \in Seq(calls)
    /\ \A i \in DOMAIN chain : CallMerges(chain[i])
    /\ \A i, k \in DOMAIN chain : chain[i].name = chain[k].name => i = k
    /\ \A i \in 1..(Len(chain) - 1) :
           LET extends == Blocks[chain[i].name].extends
           IN  chain[i].next \in DOMAIN extends /\ extends[chain[i].next] = chain[i + 1].name

UnknownParent == \E name \in DOMAIN Blocks : ~(Extended(name) \subseteq DOMAIN Blocks)
CircularParents ==
    \E circle \in SUBSET DOMAIN Blocks :
        circle # {} /\ \A name \in circle : Extended(name) \cap circle # {}

Resolved == phase \in {"select", "dependents", "filter", "rules", "run", "nothing"}

ExtendsInv ==
    /\ RequestGiven /\ BlocksAreTyped /\ ResolvedInOrder /\ CallsNest
    /\ Resolved => DOMAIN resolved = DOMAIN Blocks
    /\ phase = "error" => UnknownParent \/ CircularParents

\* The assumption on the requests, for the blocks with the one of workflow:rules
LEMMA GivenIsTyped == RequestGiven => BlocksAreTyped
<1> SUFFICES ASSUME RequestGiven, NEW name \in DOMAIN Blocks
             PROVE  Blocks[name].extends \in Seq(STRING) /\ GoodRules(Blocks[name].plain)
  BY DEF BlocksAreTyped
<1>1. /\ request.config.workflow # Unset => AreRules(request.config.workflow)
      /\ \A n \in DOMAIN request.config.blocks :
            /\ request.config.blocks[n].extends \in Seq(STRING)
            /\ GoodRules(request.config.blocks[n].plain)
  BY RequestsAssumption DEF RequestGiven, GoodRules
<1>2. CASE request.config.workflow = Unset
  BY <1>1, <1>2 DEF Blocks
<1>3. CASE request.config.workflow # Unset
  <2> DEFINE added == [ extends |-> << >>, variables |-> << >>,
                        plain |-> [rules |-> request.config.workflow] ]
  <2>1. CASE name = "workflow"
    <3>1. Blocks[name] = added
      BY <1>3, <2>1 DEF Blocks, Put, Update
    <3>2. added.extends \in Seq(STRING) /\ DOMAIN added.plain = {"rules"}
          /\ added.plain["rules"] = request.config.workflow
      OBVIOUS
    <3> QED
      BY <1>1, <1>3, <3>1, <3>2 DEF GoodRules
  <2>2. CASE name # "workflow"
    <3>1. name \in DOMAIN request.config.blocks /\ Blocks[name] = request.config.blocks[name]
      BY <1>3, <2>2 DEF Blocks, Put, Update
    <3> QED
      BY <1>1, <3>1
  <2> QED
    BY <2>1, <2>2
<1> QED
  BY <1>2, <1>3

\* The overlay brings its own rules, if it has any.
LEMMA RulesStayGood ==
    ASSUME NEW f, NEW g, GoodRules(f), GoodRules(g)
    PROVE  GoodRules(Update(f, g))
  BY DEF GoodRules, Update

\* A sequence that has one more layer than another one
LEMMA OneMoreLayer ==
    ASSUME NEW last \in Nat, NEW first, first = [i \in 1..last |-> first[i]],
           NEW more, more = [i \in 1..(last + 1) |-> more[i]], \A i \in 1..last : more[i] = first[i]
    PROVE  Overlaid(more) = Update(Overlaid(first), more[last + 1])
<1> DEFINE S == {first[i] : i \in 1..last}
<1>1. first \in Seq(S) /\ Len(first) = last
  OBVIOUS
<1> HIDE DEF S
<1>2. more = Append(first, more[last + 1])
  <2>1. /\ DOMAIN Append(first, more[last + 1]) = 1..(last + 1)
        /\ \A i \in 1..(last + 1) : Append(first, more[last + 1])[i] = more[i]
        /\ Append(first, more[last + 1]) = [i \in 1..(last + 1) |-> Append(first, more[last + 1])[i]]
    <3>1. Append(first, more[last + 1]) \in Seq(S \cup {more[last + 1]})
      BY <1>1
    <3>2. /\ Len(Append(first, more[last + 1])) = last + 1
          /\ \A i \in 1..last : Append(first, more[last + 1])[i] = first[i]
          /\ Append(first, more[last + 1])[last + 1] = more[last + 1]
      BY <1>1
    <3>3. Append(first, more[last + 1]) \in [1..(last + 1) -> S \cup {more[last + 1]}]
      BY <3>1, <3>2, LenProperties
    <3>4. \A i \in 1..(last + 1) : i \in 1..last \/ i = last + 1
      OBVIOUS
    <3>5. \A i \in 1..(last + 1) : Append(first, more[last + 1])[i] = more[i]
      BY <3>2, <3>4
    <3> QED
      BY <3>3, <3>5
  <2> QED
    BY <2>1
<1> QED
  BY <1>1, <1>2, LastLayerUpdates

\* One more parent is merged over those before it.
LEMMA OneMoreParent ==
    ASSUME NEW extends \in Seq(STRING), NEW last \in Nat
    PROVE  /\ Overlaid(PlainOf(extends, last + 1)) =
                  Update(Overlaid(PlainOf(extends, last)), resolved[extends[last + 1]].plain)
           /\ Overlaid(VariablesOf(extends, last + 1)) =
                  Update(Overlaid(VariablesOf(extends, last)), resolved[extends[last + 1]].variables)
<1>1. /\ PlainOf(extends, last) = [i \in 1..last |-> PlainOf(extends, last)[i]]
      /\ PlainOf(extends, last + 1) = [i \in 1..(last + 1) |-> PlainOf(extends, last + 1)[i]]
      /\ \A i \in 1..last : PlainOf(extends, last + 1)[i] = PlainOf(extends, last)[i]
      /\ PlainOf(extends, last + 1)[last + 1] = resolved[extends[last + 1]].plain
  BY DEF PlainOf
<1>2. /\ VariablesOf(extends, last) = [i \in 1..last |-> VariablesOf(extends, last)[i]]
      /\ VariablesOf(extends, last + 1) = [i \in 1..(last + 1) |-> VariablesOf(extends, last + 1)[i]]
      /\ \A i \in 1..last : VariablesOf(extends, last + 1)[i] = VariablesOf(extends, last)[i]
      /\ VariablesOf(extends, last + 1)[last + 1] = resolved[extends[last + 1]].variables
  BY DEF VariablesOf
<1>3. Overlaid(PlainOf(extends, last + 1)) =
          Update(Overlaid(PlainOf(extends, last)), PlainOf(extends, last + 1)[last + 1])
  BY <1>1, OneMoreLayer
<1>4. Overlaid(VariablesOf(extends, last + 1)) =
          Update(Overlaid(VariablesOf(extends, last)), VariablesOf(extends, last + 1)[last + 1])
  BY <1>2, OneMoreLayer
<1> QED
  BY <1>1, <1>2, <1>3, <1>4

\* Before the first parent nothing is merged.
LEMMA NoParentYet ==
    ASSUME NEW extends
    PROVE  Overlaid(PlainOf(extends, 0)) = << >> /\ Overlaid(VariablesOf(extends, 0)) = << >>
<1>1. PlainOf(extends, 0) = << >> /\ VariablesOf(extends, 0) = << >>
  BY DEF PlainOf, VariablesOf
<1> QED
  BY <1>1, NoLayer

\* The blocks depend on the request alone.
LEMMA SameBlocks == ASSUME UNCHANGED request PROVE Blocks' = Blocks
  BY DEF Blocks, Put, Update

LEMMA InitExtends == PlanningInit => ExtendsInv
<1> SUFFICES ASSUME PlanningInit PROVE ExtendsInv
  OBVIOUS
<1>1. RequestGiven /\ BlocksAreTyped
  BY GivenIsTyped DEF PlanningInit, RequestGiven
<1>2. ResolvedInOrder
  BY DEF PlanningInit, ResolvedInOrder
<1>3. CallsNest
  <2>1. chain = << >> /\ chain \in Seq({}) /\ DOMAIN chain = {} /\ 1..(Len(chain) - 1) = {}
    BY DEF PlanningInit
  <2> QED
    BY <2>1 DEF CallsNest
<1> QED
  BY <1>1, <1>2, <1>3 DEF ExtendsInv, PlanningInit, Resolved

\* A call stands while other blocks are resolved.
LEMMA CallStands ==
    ASSUME UNCHANGED request, BlocksAreTyped,
           DOMAIN resolved \subseteq DOMAIN resolved', \A n \in DOMAIN resolved : resolved'[n] = resolved[n],
           NEW call, CallMerges(call), call.name \notin DOMAIN resolved'
    PROVE  CallMerges(call)'
<1> DEFINE extends == Blocks[call.name].extends
<1>1. Blocks' = Blocks
  BY SameBlocks
<1>2. \A i \in 1..(call.next - 1) : extends[i] \in DOMAIN resolved
  BY DEF CallMerges
<1> HIDE DEF extends
<1>3. /\ PlainOf(extends, call.next - 1)' = PlainOf(extends, call.next - 1)
      /\ VariablesOf(extends, call.next - 1)' = VariablesOf(extends, call.next - 1)
  <2>1. extends' = extends
    BY <1>1 DEF extends
  <2> QED
    BY <1>2, <2>1 DEF PlainOf, VariablesOf
<1>4. GoodRules(call.merged.plain)' <=> GoodRules(call.merged.plain)
  BY DEF GoodRules
<1> QED
  BY <1>1, <1>2, <1>3, <1>4 DEF CallMerges, extends

\* So does a resolved block.
LEMMA BlockStands ==
    ASSUME UNCHANGED request, BlocksAreTyped, ResolvedInOrder,
           DOMAIN resolved \subseteq DOMAIN resolved', \A n \in DOMAIN resolved : resolved'[n] = resolved[n],
           NEW name \in DOMAIN resolved
    PROVE  ResolvedBlock(name)'
<1> DEFINE extends == Blocks[name].extends
<1>1. Blocks' = Blocks /\ Extended(name)' = Extended(name)
  BY SameBlocks DEF Extended
<1>2. ResolvedBlock(name) /\ extends \in Seq(STRING)
  BY DEF ResolvedInOrder, BlocksAreTyped
<1>3. \A i \in 1..Len(extends) : extends[i] \in DOMAIN resolved
  BY <1>2 DEF ResolvedBlock, Extended, ToSet
<1> HIDE DEF extends
<1>4. /\ PlainOf(extends, Len(extends))' = PlainOf(extends, Len(extends))
      /\ VariablesOf(extends, Len(extends))' = VariablesOf(extends, Len(extends))
  <2>1. extends' = extends
    BY <1>1 DEF extends
  <2> QED
    BY <1>3, <2>1 DEF PlainOf, VariablesOf
<1>5. GoodRules(resolved[name].plain)' <=> GoodRules(resolved[name].plain)
  BY DEF GoodRules
<1> QED
  BY <1>1, <1>2, <1>4, <1>5 DEF ResolvedBlock, extends

\* A call starts with nothing merged.
LEMMA StartsCall ==
    ASSUME BlocksAreTyped, NEW name \in DOMAIN Blocks \ DOMAIN resolved
    PROVE  CallMerges(Call(name))
<1>1. Len(Blocks[name].extends) \in Nat
  BY DEF BlocksAreTyped
<1>2. GoodRules(<< >>)
  BY DEF GoodRules
<1> QED
  BY <1>1, <1>2, NoParentYet DEF CallMerges, Call

\* Nothing changes for the blocks and the calls in a step that resolves none.
LEMMA NoneResolved ==
    ASSUME ExtendsInv, UNCHANGED <<request, resolved>>
    PROVE  /\ Blocks' = Blocks /\ RequestGiven' /\ BlocksAreTyped' /\ ResolvedInOrder'
           /\ \A call : CallMerges(call) => CallMerges(call)'
<1>1. Blocks' = Blocks
  BY SameBlocks
<1>2. ResolvedInOrder'
  BY <1>1, BlockStands DEF ExtendsInv, ResolvedInOrder, Extended
<1>3. RequestGiven' /\ BlocksAreTyped'
  BY <1>1 DEF ExtendsInv, RequestGiven, BlocksAreTyped, GoodRules
<1>4. ASSUME NEW call, CallMerges(call) PROVE CallMerges(call)'
  <2>1. call.name \notin DOMAIN resolved
    BY <1>4 DEF CallMerges
  <2> QED
    BY <1>4, <2>1, CallStands DEF ExtendsInv
<1> QED
  BY <1>1, <1>2, <1>3, <1>4

LEMMA StartResolveExtends == ASSUME ExtendsInv, StartResolve PROVE ExtendsInv'
<1>1. UNCHANGED <<request, phase, resolved>>
  BY DEF StartResolve
<1>2. PICK name \in DOMAIN Blocks \ DOMAIN resolved : chain' = <<Call(name)>>
  BY DEF StartResolve, Unresolved
<1>3. CallMerges(Call(name))'
  BY <1>1, <1>2, StartsCall, NoneResolved DEF ExtendsInv
<1>4. CallsNest'
  <2>1. chain' \in Seq({Call(name)}) /\ DOMAIN chain' = {1} /\ chain'[1] = Call(name) /\ Len(chain') = 1
    BY <1>2
  <2> QED
    BY <1>3, <2>1 DEF CallsNest
<1> QED
  BY <1>1, <1>4, NoneResolved DEF ExtendsInv, Resolved, StartResolve

LEMMA ResolveParentExtends == ASSUME ExtendsInv, ResolveParent PROVE ExtendsInv'
<1>1. UNCHANGED <<request, resolved>> /\ phase = "process" /\ chain # << >>
  BY DEF ResolveParent, Resolving
<1>2. /\ Blocks' = Blocks /\ RequestGiven' /\ BlocksAreTyped' /\ ResolvedInOrder'
      /\ \A call : CallMerges(call) => CallMerges(call)'
  BY <1>1, NoneResolved
<1> DEFINE n == Len(chain)
<1> PICK parent : parent = Parents[Innermost.next]
  OBVIOUS
<1>3. PICK calls : chain \in Seq(calls)
  BY DEF ExtendsInv, CallsNest
<1>4. n \in Nat \ {0} /\ DOMAIN chain = 1..n /\ Innermost = chain[n]
  BY <1>1, <1>3 DEF Innermost
<1>5. /\ Innermost.next \in DOMAIN Parents /\ parent \notin DOMAIN resolved
      /\ CallMerges(Innermost)
  BY <1>4 DEF ResolveParent, ExtendsInv, CallsNest
<1>6. CASE parent \notin {chain[i].name : i \in DOMAIN chain} /\ parent \in DOMAIN Blocks
  <2>1. chain' = Append(chain, Call(parent)) /\ UNCHANGED phase
    BY <1>6 DEF ResolveParent
  <2>2. /\ chain' \in Seq(calls \cup {Call(parent)})
        /\ Len(chain') = n + 1 /\ DOMAIN chain' = 1..(n + 1) /\ chain'[n + 1] = Call(parent)
        /\ \A i \in 1..n : chain'[i] = chain[i]
    BY <1>3, <1>4, <2>1
  <2>3. CallMerges(Call(parent))' /\ Call(parent).name = parent
    <3>1. CallMerges(Call(parent))
      BY <1>5, <1>6, StartsCall DEF ExtendsInv
    <3> QED
      BY <1>2, <3>1 DEF Call
  <2> HIDE DEF n
  <2>4. ASSUME NEW i \in DOMAIN chain' PROVE CallMerges(chain[i])'
    <3>1. CASE i = n + 1
      <4>1. chain'[i] = Call(parent)
        BY <2>2, <3>1
      <4> QED
        BY <2>3, <4>1
    <3>2. CASE i # n + 1
      <4>1. i \in 1..n /\ chain'[i] = chain[i]
        BY <1>4, <2>2, <2>4, <3>2
      <4>2. CallMerges(chain[i])
        BY <1>4, <4>1 DEF ExtendsInv, CallsNest
      <4> QED
        BY <1>2, <4>1, <4>2
    <3> QED
      BY <3>1, <3>2
  <2>5. \A i, k \in DOMAIN chain' : chain'[i].name = chain'[k].name => i = k
    <3>1. \A i, k \in 1..n : chain[i].name = chain[k].name => i = k
      BY <1>4 DEF ExtendsInv, CallsNest
    <3>2. \A i \in 1..n : chain[i].name # parent
      BY <1>4, <1>6
    <3>3. \A i \in 1..(n + 1) : i \in 1..n \/ i = n + 1
      BY <1>4
    <3> QED
      BY <2>2, <2>3, <3>1, <3>2, <3>3
  <2>6. \A i \in 1..n : /\ chain[i].next \in DOMAIN Blocks[chain[i].name].extends
                        /\ Blocks[chain[i].name].extends[chain[i].next] = chain'[i + 1].name
    <3> SUFFICES ASSUME NEW i \in 1..n
                 PROVE  /\ chain[i].next \in DOMAIN Blocks[chain[i].name].extends
                        /\ Blocks[chain[i].name].extends[chain[i].next] = chain'[i + 1].name
      OBVIOUS
    <3>1. CASE i = n
      BY <1>4, <1>5, <2>2, <2>3, <3>1 DEF Parents
    <3>2. CASE i # n
      <4>1. i \in 1..(n - 1) /\ i + 1 \in 1..n
        BY <1>4, <3>2
      <4> QED
        BY <2>2, <4>1 DEF ExtendsInv, CallsNest, n
    <3> QED
      BY <3>1, <3>2
  <2>7. CallsNest'
    <3>1. (Len(chain) - 1)' = n
      BY <1>4, <2>2
    <3> QED
      BY <1>2, <2>2, <2>4, <2>5, <2>6, <3>1 DEF CallsNest
  <2> QED
    BY <1>1, <1>2, <2>1, <2>7 DEF ExtendsInv, Resolved
<1>7. CASE parent \in {chain[i].name : i \in DOMAIN chain} \/ parent \notin DOMAIN Blocks
  <2>1. phase' = "error" /\ UNCHANGED chain
    BY <1>7 DEF ResolveParent
  <2>2. CallsNest'
    <3>1. \A i \in DOMAIN chain : CallMerges(chain[i])'
      <4> SUFFICES ASSUME NEW i \in DOMAIN chain PROVE CallMerges(chain[i])'
        OBVIOUS
      <4>1. CallMerges(chain[i]) /\ chain'[i] = chain[i]
        BY <2>1 DEF ExtendsInv, CallsNest
      <4> QED
        BY <1>2, <4>1
    <3> QED
      BY <1>2, <2>1, <3>1 DEF ExtendsInv, CallsNest
  <2>3. UnknownParent \/ CircularParents
    <3>1. Innermost.name \in DOMAIN Blocks /\ parent \in Extended(Innermost.name)
      BY <1>5 DEF CallMerges, Extended, Parents, ToSet
    <3>2. CASE parent \notin DOMAIN Blocks
      BY <3>1, <3>2 DEF UnknownParent
    <3>3. CASE parent \in {chain[i].name : i \in DOMAIN chain}
      <4>1. PICK j \in 1..n : parent = chain[j].name
        BY <1>4, <3>3
      <4> DEFINE circle == {chain[i].name : i \in j..n}
      <4>2. circle \subseteq DOMAIN Blocks /\ parent \in circle
        <5>1. \A i \in j..n : i \in DOMAIN chain /\ chain[i].name \in DOMAIN Blocks
          <6> SUFFICES ASSUME NEW i \in j..n PROVE i \in DOMAIN chain /\ chain[i].name \in DOMAIN Blocks
            OBVIOUS
          <6>1. i \in DOMAIN chain
            BY <1>4, <4>1
          <6>2. CallMerges(chain[i])
            BY <6>1 DEF ExtendsInv, CallsNest
          <6> QED
            BY <6>1, <6>2 DEF CallMerges
        <5> QED
          BY <1>4, <4>1, <5>1
      <4>3. ASSUME NEW i \in j..n PROVE Extended(chain[i].name) \cap circle # {}
        <5>1. CASE i = n
          BY <1>4, <3>1, <4>2, <5>1
        <5>2. CASE i # n
          <6>1. i \in 1..(n - 1) /\ i + 1 \in j..n
            <7> HIDE DEF n
            <7> QED
              BY <1>4, <5>2
          <6>2. chain[i + 1].name \in Extended(chain[i].name)
            BY <6>1 DEF ExtendsInv, CallsNest, Extended, ToSet
          <6> QED
            BY <6>1, <6>2
        <5> QED
          BY <5>1, <5>2
      <4> QED
        BY <4>2, <4>3 DEF CircularParents
    <3> QED
      BY <1>7, <3>2, <3>3
  <2>4. UnknownParent' \/ CircularParents'
    BY <1>2, <2>3 DEF UnknownParent, CircularParents, Extended
  <2> QED
    BY <1>1, <1>2, <2>1, <2>2, <2>4 DEF ExtendsInv, Resolved
<1> QED
  BY <1>6, <1>7

LEMMA MergeParentExtends == ASSUME ExtendsInv, MergeParent PROVE ExtendsInv'
<1> DEFINE n == Len(chain)
<1> PICK parent : parent = Parents[Innermost.next]
  OBVIOUS
<1>1. /\ UNCHANGED <<request, phase, resolved>> /\ phase = "process" /\ chain # << >>
      /\ Innermost.next \in DOMAIN Parents /\ parent \in DOMAIN resolved
      /\ chain' = [chain EXCEPT ![n] = [ Innermost EXCEPT !.next = @ + 1,
                                         !.merged = deep_merge(Innermost.merged, resolved[parent]) ]]
  BY DEF MergeParent, Merge, Resolving
<1>2. /\ Blocks' = Blocks /\ RequestGiven' /\ BlocksAreTyped' /\ ResolvedInOrder'
      /\ \A call : CallMerges(call) => CallMerges(call)'
  BY <1>1, NoneResolved
<1>3. PICK calls : chain \in Seq(calls)
  BY DEF ExtendsInv, CallsNest
<1>4. n \in Nat \ {0} /\ DOMAIN chain = 1..n /\ Innermost = chain[n]
  BY <1>1, <1>3 DEF Innermost
<1> PICK call : call = Innermost
  OBVIOUS
<1> PICK merged : merged = deep_merge(call.merged, resolved[parent])
  OBVIOUS
<1> DEFINE next == [call EXCEPT !.next = @ + 1, !.merged = merged]
           extends == Blocks[call.name].extends
<1>5. /\ CallMerges(call) /\ extends \in Seq(STRING)
      /\ call.next \in DOMAIN extends /\ parent = extends[call.next]
  <2>1. CallMerges(call)
    BY <1>4 DEF ExtendsInv, CallsNest
  <2>2. Blocks[call.name].extends \in Seq(STRING)
    BY <2>1 DEF CallMerges, ExtendsInv, BlocksAreTyped
  <2>3. Parents = Blocks[call.name].extends
    BY DEF Parents
  <2> QED
    BY <1>1, <2>1, <2>2, <2>3
<1>6. /\ chain' \in Seq(calls \cup {next}) /\ DOMAIN chain' = 1..n /\ Len(chain') = n
      /\ chain'[n] = next /\ \A i \in 1..(n - 1) : chain'[i] = chain[i]
  <2> HIDE DEF n
  <2>1. chain' = [chain EXCEPT ![n] = [call EXCEPT !.next = @ + 1, !.merged = merged]]
    BY <1>1
  <2> HIDE DEF next
  <2>2. chain' = [chain EXCEPT ![n] = next]
    BY <2>1 DEF next
  <2>3. chain' \in Seq(calls \cup {next})
    BY <1>3, <1>4, <2>2 DEF n
  <2>4. DOMAIN chain' = 1..n /\ chain'[n] = next /\ \A i \in 1..(n - 1) : chain'[i] = chain[i]
    BY <1>4, <2>2
  <2>5. Len(chain') = n
    BY <1>4, <2>3, <2>4, LenProperties
  <2> QED
    BY <2>3, <2>4, <2>5
<1>7. CallMerges(next)
  <2> DEFINE last == call.next - 1
  <2>1. last \in Nat /\ last + 1 = call.next /\ call.next \in 1..Len(extends)
    BY <1>5
  <2>2. /\ merged.plain = Update(call.merged.plain, resolved[parent].plain)
        /\ merged.variables = Update(call.merged.variables, resolved[parent].variables)
        /\ merged = [plain |-> merged.plain, variables |-> merged.variables]
    BY DEF deep_merge
  <2>3. /\ call.merged.plain = Overlaid(PlainOf(extends, last))
        /\ call.merged.variables = Overlaid(VariablesOf(extends, last))
        /\ GoodRules(call.merged.plain)
        /\ \A i \in 1..last : extends[i] \in DOMAIN resolved
        /\ call.name \in DOMAIN Blocks \ DOMAIN resolved
    BY <1>5 DEF CallMerges
  <2> HIDE DEF extends, last
  <2>4. /\ merged.plain = Overlaid(PlainOf(extends, last + 1))
        /\ merged.variables = Overlaid(VariablesOf(extends, last + 1))
    BY <1>5, <2>1, <2>2, <2>3, OneMoreParent
  <2>5. GoodRules(resolved[parent].plain)
    BY <1>1 DEF ExtendsInv, ResolvedInOrder, ResolvedBlock
  <2>6. GoodRules(merged.plain)
    BY <2>2, <2>3, <2>5, RulesStayGood
  <2>7. \A i \in 1..(last + 1) : extends[i] \in DOMAIN resolved
    BY <1>1, <1>5, <2>1, <2>3
  <2>8. /\ next.name = call.name /\ next.merged = merged /\ next.next - 1 = last + 1
        /\ next.next \in 1..(Len(extends) + 1)
        /\ DOMAIN next = {"name", "next", "merged"}
    <3>1. DOMAIN call = {"name", "next", "merged"}
      BY <1>5 DEF CallMerges
    <3> QED
      BY <1>5, <2>1, <3>1
  <2> HIDE DEF next
  <2> QED
    BY <2>2, <2>3, <2>4, <2>6, <2>7, <2>8 DEF CallMerges, extends
<1>8. next.name = call.name
  BY <1>5 DEF CallMerges
<1> HIDE DEF next, n, extends
<1>9. ASSUME NEW i \in DOMAIN chain' PROVE CallMerges(chain[i])'
  <2>1. CASE i = n
    BY <1>2, <1>6, <1>7, <2>1
  <2>2. CASE i # n
    <3>1. i \in DOMAIN chain /\ chain'[i] = chain[i]
      BY <1>4, <1>6, <1>9, <2>2
    <3>2. CallMerges(chain[i])
      BY <3>1 DEF ExtendsInv, CallsNest
    <3> QED
      BY <1>2, <3>1, <3>2
  <2> QED
    BY <2>1, <2>2
<1>10. \A i \in 1..n : chain'[i].name = chain[i].name
  BY <1>4, <1>6, <1>8
<1>11. CallsNest'
  <2>1. \A i, k \in DOMAIN chain' : chain'[i].name = chain'[k].name => i = k
    BY <1>4, <1>6, <1>10 DEF ExtendsInv, CallsNest
  <2>2. \A i \in 1..(n - 1) : /\ chain'[i].next \in DOMAIN Blocks[chain'[i].name].extends
                              /\ Blocks[chain'[i].name].extends[chain'[i].next] = chain'[i + 1].name
    <3>1. \A i \in 1..(n - 1) : i + 1 \in 1..n
      BY <1>4
    <3> QED
      BY <1>4, <1>6, <1>10, <3>1 DEF ExtendsInv, CallsNest, n
  <2> QED
    BY <1>2, <1>6, <1>9, <2>1, <2>2 DEF CallsNest
<1> QED
  BY <1>1, <1>2, <1>11 DEF ExtendsInv, Resolved

LEMMA ResolveReturnsExtends == ASSUME ExtendsInv, ResolveReturns PROVE ExtendsInv'
<1> DEFINE n == Len(chain)
<1> PICK call : call = Innermost
  OBVIOUS
<1> PICK name : name = call.name
  OBVIOUS
<1> PICK value : value = deep_merge(call.merged, Blocks[name])
  OBVIOUS
<1>1. /\ UNCHANGED <<request, phase>> /\ phase = "process" /\ chain # << >>
      /\ call.next \notin DOMAIN Parents
      /\ resolved' = Put(resolved, name, value) /\ chain' = Front(chain)
  BY DEF ResolveReturns, Resolving
<1>2. PICK calls : chain \in Seq(calls)
  BY DEF ExtendsInv, CallsNest
<1>3. n \in Nat \ {0} /\ DOMAIN chain = 1..n /\ call = chain[n]
  BY <1>1, <1>2 DEF Innermost
<1> DEFINE extends == Blocks[name].extends
<1>4. /\ CallMerges(call) /\ extends \in Seq(STRING) /\ call.next = Len(extends) + 1
      /\ name \in DOMAIN Blocks \ DOMAIN resolved
  <2>1. CallMerges(call)
    BY <1>3 DEF ExtendsInv, CallsNest
  <2>2. Blocks[call.name].extends \in Seq(STRING)
    BY <2>1 DEF CallMerges, ExtendsInv, BlocksAreTyped
  <2>3. Parents = extends /\ call.next \in 1..(Len(extends) + 1) /\ name \in DOMAIN Blocks \ DOMAIN resolved
    BY <2>1 DEF Parents, CallMerges
  <2> HIDE DEF extends
  <2>4. call.next = Len(extends) + 1
    BY <1>1, <2>2, <2>3 DEF extends
  <2> QED
    BY <2>1, <2>2, <2>3, <2>4 DEF extends
<1>5. /\ DOMAIN resolved' = DOMAIN resolved \cup {name} /\ resolved'[name] = value
      /\ \A m \in DOMAIN resolved : resolved'[m] = resolved[m]
  <2>1. \A m \in DOMAIN resolved : m # name
    BY <1>4
  <2> QED
    BY <1>1, <2>1 DEF Put, Update
<1>6. Blocks' = Blocks /\ RequestGiven' /\ BlocksAreTyped'
  <2>1. Blocks' = Blocks
    BY <1>1, SameBlocks
  <2> QED
    BY <1>1, <2>1 DEF ExtendsInv, RequestGiven, BlocksAreTyped, GoodRules
<1>7. /\ chain' \in Seq(calls) /\ DOMAIN chain' = 1..(n - 1) /\ Len(chain') = n - 1
      /\ \A i \in 1..(n - 1) : chain'[i] = chain[i]
  <2> HIDE DEF n
  <2>1. Front(chain) = SubSeq(chain, 1, n - 1)
    BY DEF Front, n
  <2>2. SubSeq(chain, 1, n - 1) \in Seq(calls)
    BY <1>2, <1>3 DEF n
  <2>3. Len(SubSeq(chain, 1, n - 1)) = n - 1
    BY <1>2, <1>3 DEF n
  <2>4. \A i \in 1..(n - 1) : SubSeq(chain, 1, n - 1)[i] = chain[i]
    BY <1>2, <1>3 DEF n
  <2>5. DOMAIN SubSeq(chain, 1, n - 1) = 1..(n - 1)
    BY <2>2, <2>3, LenProperties
  <2> QED
    BY <1>1, <2>1, <2>2, <2>3, <2>4, <2>5
<1> HIDE DEF n
<1>8. CallsNest'
  <2>1. ASSUME NEW i \in DOMAIN chain' PROVE CallMerges(chain[i])'
    <3>1. i \in DOMAIN chain /\ chain'[i] = chain[i] /\ i # n /\ n \in DOMAIN chain
      BY <1>3, <1>7, <2>1
    <3>2. CallMerges(chain[i]) /\ chain[i].name # name
      BY <1>3, <3>1 DEF ExtendsInv, CallsNest
    <3>3. chain[i].name \notin DOMAIN resolved'
      BY <1>5, <3>2 DEF CallMerges
    <3> QED
      BY <1>1, <1>5, <3>1, <3>2, <3>3, CallStands DEF ExtendsInv
  <2>2. \A i, k \in DOMAIN chain' : chain'[i].name = chain'[k].name => i = k
    <3>1. \A i \in DOMAIN chain' : i \in DOMAIN chain /\ chain'[i] = chain[i]
      BY <1>3, <1>7
    <3> QED
      BY <3>1 DEF ExtendsInv, CallsNest
  <2>3. \A i \in 1..((n - 1) - 1) : /\ chain'[i].next \in DOMAIN Blocks[chain'[i].name].extends
                                    /\ Blocks[chain'[i].name].extends[chain'[i].next] = chain'[i + 1].name
    <3> SUFFICES ASSUME NEW i \in 1..((n - 1) - 1)
                 PROVE  /\ chain'[i].next \in DOMAIN Blocks[chain'[i].name].extends
                        /\ Blocks[chain'[i].name].extends[chain'[i].next] = chain'[i + 1].name
      OBVIOUS
    <3>1. i \in 1..(n - 1) /\ i + 1 \in 1..(n - 1) /\ chain'[i] = chain[i] /\ chain'[i + 1] = chain[i + 1]
      BY <1>3, <1>7
    <3> QED
      BY <3>1 DEF ExtendsInv, CallsNest, n
  <2> QED
    BY <1>6, <1>7, <2>1, <2>2, <2>3 DEF CallsNest
<1>9. Extended(name) \subseteq DOMAIN resolved
  <2>1. \A i \in 1..Len(extends) : extends[i] \in DOMAIN resolved
    BY <1>4 DEF CallMerges
  <2> QED
    BY <1>4, <2>1 DEF Extended, ToSet
<1>10. ResolvedBlock(name)'
  <2> DEFINE last == Len(extends)
  <2>1. /\ last \in Nat /\ call.next - 1 = last
        /\ \A i \in 1..last : extends[i] \in DOMAIN resolved
        /\ extends' = extends /\ last' = last
    BY <1>4, <1>6 DEF CallMerges
  <2>2. /\ value = [plain |-> Update(call.merged.plain, Blocks[name].plain),
                    variables |-> Update(call.merged.variables, Blocks[name].variables)]
        /\ call.merged.plain = Overlaid(PlainOf(extends, last))
        /\ call.merged.variables = Overlaid(VariablesOf(extends, last))
        /\ GoodRules(call.merged.plain) /\ GoodRules(Blocks[name].plain)
    BY <1>4, <2>1 DEF CallMerges, deep_merge, ExtendsInv, BlocksAreTyped
  <2> HIDE DEF last, extends
  <2>3. /\ PlainOf(extends, last) \in Seq({PlainOf(extends, last)[i] : i \in 1..last})
        /\ VariablesOf(extends, last) \in Seq({VariablesOf(extends, last)[i] : i \in 1..last})
    BY <2>1 DEF PlainOf, VariablesOf
  <2>4. /\ Overlaid(Append(PlainOf(extends, last), Blocks[name].plain)) =
               Update(call.merged.plain, Blocks[name].plain)
        /\ Overlaid(Append(VariablesOf(extends, last), Blocks[name].variables)) =
               Update(call.merged.variables, Blocks[name].variables)
    BY <2>2, <2>3, LastLayerUpdates
  <2>5. /\ PlainOf(extends, last)' = PlainOf(extends, last)
        /\ VariablesOf(extends, last)' = VariablesOf(extends, last)
    BY <1>5, <2>1 DEF PlainOf, VariablesOf
  <2>6. GoodRules(value.plain)
    BY <2>2, RulesStayGood
  <2>7. GoodRules(resolved[name].plain)'
    BY <1>5, <2>6 DEF GoodRules
  <2>8. (Extended(name) \subseteq DOMAIN resolved)'
    BY <1>5, <1>6, <1>9 DEF Extended
  <2>9. resolved'[name] =
            [ plain |-> Overlaid(Append(PlainOf(extends, last), Blocks[name].plain)),
              variables |-> Overlaid(Append(VariablesOf(extends, last), Blocks[name].variables)) ]
    BY <1>5, <2>2, <2>4
  <2> QED
    BY <1>6, <2>1, <2>5, <2>7, <2>8, <2>9 DEF ResolvedBlock, extends, last
<1>11. ResolvedInOrder'
  <2>1. DOMAIN resolved' \subseteq DOMAIN Blocks'
    BY <1>4, <1>5, <1>6 DEF ExtendsInv, ResolvedInOrder
  <2>2. ASSUME NEW m \in DOMAIN resolved' PROVE ResolvedBlock(m)'
    <3>1. CASE m = name
      BY <1>10, <3>1
    <3>2. CASE m # name
      BY <1>1, <1>5, <2>2, <3>2, BlockStands DEF ExtendsInv
    <3> QED
      BY <3>1, <3>2
  <2>3. ASSUME NEW names \in SUBSET DOMAIN resolved', names # {}
        PROVE  \E m \in names : Extended(m) \cap names = {}
    <3>1. CASE names \ {name} # {}
      <4>1. names \ {name} \in SUBSET DOMAIN resolved
        BY <1>5, <2>3
      <4>2. PICK m \in names \ {name} : Extended(m) \cap (names \ {name}) = {}
        BY <3>1, <4>1 DEF ExtendsInv, ResolvedInOrder
      <4>3. Extended(m) \subseteq DOMAIN resolved
        BY <4>1, <4>2 DEF ExtendsInv, ResolvedInOrder, ResolvedBlock
      <4> QED
        BY <1>4, <4>2, <4>3
    <3>2. CASE names \ {name} = {}
      <4>1. names = {name}
        BY <2>3, <3>2
      <4> QED
        BY <1>4, <1>9, <4>1
    <3> QED
      BY <3>1, <3>2
  <2> QED
    BY <1>6, <2>1, <2>2, <2>3 DEF ResolvedInOrder, Extended
<1> QED
  BY <1>1, <1>6, <1>8, <1>11 DEF ExtendsInv, Resolved

LEMMA OtherExtends ==
    ASSUME ExtendsInv,
           apply_workflow_rules \/ process_config \/ SelectChanged \/ SelectDependents \/ Filter
               \/ EvaluateRules \/ UNCHANGED planningVars
    PROVE  ExtendsInv'
<1>1. UNCHANGED <<request, chain, resolved>>
  BY DEF apply_workflow_rules, process_config, SelectChanged, SelectDependents, Filter,
         EvaluateRules, planningVars
<1>2. /\ Blocks' = Blocks /\ RequestGiven' /\ BlocksAreTyped' /\ ResolvedInOrder'
      /\ \A call : CallMerges(call) => CallMerges(call)'
  BY <1>1, NoneResolved
<1>3. CallsNest'
  <2>1. \A i \in DOMAIN chain : CallMerges(chain[i])'
    <3> SUFFICES ASSUME NEW i \in DOMAIN chain PROVE CallMerges(chain[i])'
      OBVIOUS
    <3>1. CallMerges(chain[i]) /\ chain'[i] = chain[i]
      BY <1>1 DEF ExtendsInv, CallsNest
    <3> QED
      BY <1>2, <3>1
  <2> QED
    BY <1>1, <1>2, <2>1 DEF ExtendsInv, CallsNest
<1>4. Resolved' => Resolved \/ DOMAIN resolved = DOMAIN Blocks
  <2>1. CASE process_config
    <3>1. DOMAIN Blocks \subseteq DOMAIN resolved
      BY <2>1 DEF process_config, Unresolved
    <3> QED
      BY <3>1 DEF ExtendsInv, ResolvedInOrder
  <2>2. CASE ~process_config
    BY <2>2 DEF apply_workflow_rules, ApplyWorkflow, SelectChanged, SelectDependents, Filter,
                EvaluateRules, Step, planningVars, Resolved
  <2> QED
    BY <2>1, <2>2
<1>5. phase' = "error" => phase = "error"
  BY DEF apply_workflow_rules, ApplyWorkflow, process_config, SelectChanged, SelectDependents, Filter,
         EvaluateRules, Step, planningVars
<1>6. (Resolved => DOMAIN resolved = DOMAIN Blocks)'
  BY <1>1, <1>2, <1>4 DEF ExtendsInv
<1>7. (phase = "error" => UnknownParent \/ CircularParents)'
  BY <1>1, <1>2, <1>5 DEF ExtendsInv, UnknownParent, CircularParents, Extended
<1> QED
  BY <1>2, <1>3, <1>6, <1>7 DEF ExtendsInv

LEMMA NextExtends == ExtendsInv /\ [PlanningNext]_planningVars => ExtendsInv'
  BY StartResolveExtends, ResolveParentExtends, MergeParentExtends, ResolveReturnsExtends, OtherExtends
  DEF PlanningNext

LEMMA ExtendsStays == PlanningSpec => []ExtendsInv
  BY InitExtends, NextExtends, PTL DEF PlanningSpec

\* process_config (plan.py): extends: is refused exactly when some block extends one that
\* does not exist, or blocks extend each other in a circle; the order of resolution and the
\* number of blocks do not matter.
THEOREM ExtendsIsRefusedRightly == PlanningSpec => []BadExtendsIsAnError
<1>1. ASSUME ExtendsInv PROVE BadExtendsIsAnError
  <2>1. ASSUME Resolved PROVE ~UnknownParent /\ ~CircularParents
    <3>1. DOMAIN resolved = DOMAIN Blocks
      BY <1>1, <2>1 DEF ExtendsInv
    <3>2. ~UnknownParent
      BY <1>1, <3>1 DEF ExtendsInv, ResolvedInOrder, ResolvedBlock, UnknownParent
    <3>3. ~CircularParents
      BY <1>1, <3>1 DEF ExtendsInv, ResolvedInOrder, CircularParents
    <3> QED
      BY <3>2, <3>3
  <2>2. phase = "error" => UnknownParent \/ CircularParents
    BY <1>1 DEF ExtendsInv
  <2> QED
    BY <2>1, <2>2 DEF BadExtendsIsAnError, UnknownParent, CircularParents, Extended, Resolved
<1> QED
  BY <1>1, ExtendsStays, PTL

-----------------------------------------------------------------------------
(* Planning: what the jobs get.                                            *)
(*                                                                         *)
(* From process_config on a job has its layers up to its node, over the    *)
(* global variables with those of workflow:rules; the first rule that      *)
(* holds adds the last one.                                                *)

\* Once everything is resolved, `Inherited` is what was resolved: the recursion over the
\* parents has this solution and no other.
LEMMA InheritedIsResolved ==
    ASSUME ExtendsInv, DOMAIN resolved = DOMAIN Blocks
    PROVE  \A name \in DOMAIN Blocks : Inherited[name] = resolved[name]
<1> DEFINE Of(f, name) ==
             LET extends == Blocks[name].extends IN
             [ plain |-> Overlaid(Append([i \in DOMAIN extends |-> f[extends[i]].plain], Blocks[name].plain)),
               variables |-> Overlaid(Append([i \in DOMAIN extends |-> f[extends[i]].variables],
                                             Blocks[name].variables)) ]
           Solves(f) == f = [name \in DOMAIN Blocks |-> Of(f, name)]
           known == [name \in DOMAIN Blocks |-> resolved[name]]
<1>1. \A name \in DOMAIN Blocks : /\ Blocks[name].extends \in Seq(STRING)
                                  /\ ResolvedBlock(name)
  BY DEF ExtendsInv, BlocksAreTyped, ResolvedInOrder
<1>2. \A name \in DOMAIN Blocks : \A i \in DOMAIN Blocks[name].extends :
          Blocks[name].extends[i] \in Extended(name) /\ Extended(name) \subseteq DOMAIN Blocks
  BY <1>1 DEF ResolvedBlock, Extended, ToSet
<1>3. ASSUME NEW f, NEW g, NEW name \in DOMAIN Blocks, \A parent \in Extended(name) : f[parent] = g[parent]
      PROVE  Of(f, name) = Of(g, name)
  <2> DEFINE extends == Blocks[name].extends
  <2>1. \A i \in DOMAIN extends : f[extends[i]] = g[extends[i]]
    BY <1>2, <1>3
  <2> HIDE DEF extends
  <2>2. /\ [i \in DOMAIN extends |-> f[extends[i]].plain] = [i \in DOMAIN extends |-> g[extends[i]].plain]
        /\ [i \in DOMAIN extends |-> f[extends[i]].variables] = [i \in DOMAIN extends |-> g[extends[i]].variables]
    BY <2>1
  <2> QED
    BY <2>2 DEF extends
<1>4. Solves(known)
  <2>1. ASSUME NEW name \in DOMAIN Blocks PROVE resolved[name] = Of(known, name)
    <3> DEFINE extends == Blocks[name].extends
    <3>1. \A i \in DOMAIN extends : known[extends[i]] = resolved[extends[i]]
      BY <1>2
    <3>2. DOMAIN extends = 1..Len(extends)
      BY <1>1
    <3> HIDE DEF extends, known
    <3>3. /\ [i \in DOMAIN extends |-> known[extends[i]].plain] = PlainOf(extends, Len(extends))
          /\ [i \in DOMAIN extends |-> known[extends[i]].variables] = VariablesOf(extends, Len(extends))
      BY <3>1, <3>2 DEF PlainOf, VariablesOf
    <3> QED
      BY <1>1, <3>3 DEF ResolvedBlock, extends
  <2> HIDE DEF Of
  <2> QED
    BY <2>1
<1>5. ASSUME NEW f, Solves(f), NEW name \in DOMAIN Blocks, f[name] # resolved[name] PROVE FALSE
  <2> DEFINE wrong == {m \in DOMAIN Blocks : f[m] # resolved[m]}
  <2>1. PICK m \in wrong : Extended(m) \cap wrong = {}
    BY <1>5 DEF ExtendsInv, ResolvedInOrder
  <2>2. \A parent \in Extended(m) : f[parent] = known[parent]
    BY <1>1, <2>1 DEF ResolvedBlock
  <2>3. Of(f, m) = Of(known, m)
    <3> HIDE DEF Of, known, wrong
    <3>1. m \in DOMAIN Blocks
      BY <2>1 DEF wrong
    <3> QED
      BY <1>3, <2>2, <3>1
  <2> HIDE DEF Of
  <2>4. f[m] = Of(f, m) /\ known[m] = Of(known, m)
    <3> HIDE DEF known
    <3> QED
      BY <1>4, <1>5, <2>1
  <2> QED
    BY <2>1, <2>3, <2>4
<1>6. Inherited = CHOOSE f : Solves(f)
  BY DEF Inherited
<1>7. Solves(Inherited)
  <2> HIDE DEF Solves, known
  <2> QED
    BY <1>4, <1>6
<1> HIDE DEF Solves
<1> QED
  BY <1>5, <1>7

\* What rules: adds to the variables of a job is the layer of its first rule that holds.
LEMMA FirstRuleGives ==
    ASSUME NEW rules, AreRules(rules)
    PROVE  RuleLayer(rules, Env) =
               IF Matching(rules) = {} THEN << >>
               ELSE rules[CHOOSE i \in Matching(rules) : \A k \in Matching(rules) : i <= k].variables
<1> DEFINE Taken(i) == /\ rules[i].if # Unset => Holds(rules[i].if, Env)
                       /\ files_match(rules[i])
           first == {i \in DOMAIN rules : Taken(i) /\ \A k \in 1..i - 1 : ~Taken(k)}
           M == Matching(rules)
<1>1. DOMAIN rules = 1..Len(rules) /\ Len(rules) \in Nat
  BY DEF AreRules
<1>2. \A i \in DOMAIN rules : Taken(i) <=> i \in M
  <2>1. \A i \in DOMAIN rules : rules[i].if # Unset => rules[i].if \in Seq(STRING)
    BY DEF AreRules, ToSet
  <2>2. \A i \in DOMAIN rules : Taken(i) <=> rule_matches(rules[i])
    BY <2>1, IfReadsAsText DEF rule_matches
  <2> HIDE DEF Taken
  <2> QED
    BY <2>2 DEF Matching
<1>3. M \subseteq DOMAIN rules
  BY DEF Matching
<1>4. RuleLayer(rules, Env) = IF first = {} THEN << >> ELSE rules[CHOOSE i \in first : TRUE].variables
  BY DEF RuleLayer
<1> HIDE DEF Taken, M
<1>5. CASE M = {}
  <2>1. first = {}
    BY <1>2, <1>5
  <2> QED
    BY <1>4, <1>5, <2>1 DEF M
<1>6. CASE M # {}
  <2>1. PICK least \in M : \A k \in M : least <= k
    BY <1>1, <1>3, <1>6, LeastNat
  <2>2. first = {least}
    <3>1. least \in first
      <4>1. \A k \in 1..least - 1 : k \in DOMAIN rules /\ k \notin M
        BY <1>1, <1>3, <2>1
      <4> QED
        BY <1>2, <1>3, <2>1, <4>1
    <3>2. ASSUME NEW i \in first PROVE i = least
      <4>1. i \in M /\ least <= i
        BY <1>2, <2>1
      <4>2. ~(least \in 1..i - 1)
        BY <1>2, <1>3, <2>1
      <4> QED
        BY <1>1, <1>3, <2>1, <4>1, <4>2
    <3> QED
      BY <3>1, <3>2
  <2>3. (CHOOSE i \in first : TRUE) = least
    <3> HIDE DEF first
    <3> QED
      BY <2>2
  <2>4. (CHOOSE i \in M : \A k \in M : i <= k) = least
    <3>1. \A i \in M : (\A k \in M : i <= k) => i = least
      BY <1>1, <1>3, <2>1
    <3> QED
      BY <2>1, <3>1
  <2> HIDE DEF first
  <2> QED
    BY <1>4, <1>6, <2>2, <2>3, <2>4 DEF M
<1> QED
  BY <1>5, <1>6

\* The fields of a job
JobFields ==
    { "name", "parallel", "stage", "variables", "before_script", "needs", "dependencies", "inputs",
      "rules", "allow_failure", "when" }

\* evaluate_rules touches neither the name nor the before_script of what it gets.
LEMMA RulesAddLayer ==
    ASSUME NEW job, {"when", "allow_failure", "variables", "needs"} \subseteq DOMAIN job,
           AreRules(job.rules), NEW f, NEW g, job.variables = Update(f, g)
    PROVE  /\ evaluate_rules(job).variables = Update(job.variables, RuleLayer(job.rules, Env))
           /\ evaluate_rules(job).name = job.name
           /\ evaluate_rules(job).before_script = job.before_script
<1> DEFINE M == Matching(job.rules)
           rule == job.rules[CHOOSE i \in M : \A k \in M : i <= k]
<1>1. RuleLayer(job.rules, Env) = IF M = {} THEN << >> ELSE rule.variables
  BY FirstRuleGives
<1>2. job.rules = << >> => M = {}
  BY DEF Matching
<1>3. Update(job.variables, << >>) = job.variables
  BY UpdateNothing
<1>4. evaluate_rules(job) =
          IF job.rules = << >> THEN job
          ELSE IF M = {} THEN [job EXCEPT !.when = "never"]
          ELSE [job EXCEPT !.when = IF rule.when # Unset THEN rule.when ELSE "on_success",
                           !.allow_failure = IF rule.allow_failure # Unset THEN rule.allow_failure ELSE @,
                           !.variables = Update(@, rule.variables),
                           !.needs = IF rule.needs # Unset THEN rule.needs ELSE @]
  BY DEF evaluate_rules
<1> HIDE DEF M, rule
<1>5. CASE job.rules = << >>
  BY <1>1, <1>2, <1>3, <1>4, <1>5
<1>6. CASE job.rules # << >> /\ M = {}
  BY <1>1, <1>3, <1>4, <1>6
<1>7. CASE job.rules # << >> /\ M # {}
  BY <1>1, <1>4, <1>7
<1> QED
  BY <1>5, <1>6, <1>7

\* The layer of a node of the matrix
Node(name) == IF name.suffix # << >> /\ name.suffix[1] = "matrix" THEN name.suffix[2] ELSE << >>

\* What expansion makes of a job: the job as it is, or copies that differ in their suffix
\* and have the layer of their node.
LEMMA InstanceShape ==
    ASSUME NEW job, DOMAIN job = JobFields, NEW base, job.name = Plain(base), NEW instance \in Instances(job)
    PROVE  /\ DOMAIN instance = JobFields /\ instance.name.base = base
           /\ \A field \in JobFields \ {"name", "variables"} : instance[field] = job[field]
           /\ \/ instance = job /\ Instances(job) = {job}
              \/ /\ \A other \in Instances(job) : other.name.suffix # << >>
                 /\ instance.variables = Update(job.variables, Node(instance.name))
<1> DEFINE Clone(suffix, more) == [job EXCEPT !.name.suffix = suffix, !.variables = Update(@, more)]
           combos == UNION { { f \in [DOMAIN entry -> UNION {entry[k] : k \in DOMAIN entry}] :
                                 \A k \in DOMAIN entry : f[k] \in entry[k] } : entry \in job.parallel.matrix }
<1>1. Instances(job) =
          IF job.parallel = Unset THEN {job}
          ELSE IF job.parallel.copies > 0 THEN { Clone(<<"copy", i>>, << >>) : i \in 1..job.parallel.copies }
          ELSE IF combos = {} THEN {job}
          ELSE { Clone(<<"matrix", f>>, f) : f \in combos }
  BY DEF Instances
<1>2. ASSUME NEW suffix, NEW more
      PROVE  /\ DOMAIN Clone(suffix, more) = JobFields
             /\ Clone(suffix, more).name.base = base /\ Clone(suffix, more).name.suffix = suffix
             /\ Clone(suffix, more).variables = Update(job.variables, more)
             /\ \A field \in JobFields \ {"name", "variables"} : Clone(suffix, more)[field] = job[field]
  <2>1. DOMAIN job.name = {"base", "suffix"} /\ job.name.base = base
    BY DEF Plain
  <2>2. "name" \in DOMAIN job /\ "variables" \in DOMAIN job
    BY DEF JobFields
  <2> QED
    BY <2>1, <2>2
<1> HIDE DEF Clone, combos
<1>3. CASE Instances(job) = {job}
  BY <1>3 DEF Plain
<1>4. CASE Instances(job) = { Clone(<<"copy", i>>, << >>) : i \in 1..job.parallel.copies }
  <2>1. PICK i : instance = Clone(<<"copy", i>>, << >>)
    BY <1>4
  <2>2. instance.name.suffix = <<"copy", i>>
    BY <1>2, <2>1
  <2>3. Node(instance.name) = << >>
    BY <2>2 DEF Node
  <2>4. \A other \in Instances(job) : other.name.suffix # << >>
    <3> SUFFICES ASSUME NEW other \in Instances(job) PROVE other.name.suffix # << >>
      OBVIOUS
    <3>1. PICK k : other = Clone(<<"copy", k>>, << >>)
      BY <1>4
    <3>2. other.name.suffix = <<"copy", k>>
      BY <1>2, <3>1
    <3> QED
      BY <3>2
  <2> QED
    BY <1>2, <2>1, <2>3, <2>4
<1>5. CASE Instances(job) = { Clone(<<"matrix", f>>, f) : f \in combos }
  <2>1. PICK f : instance = Clone(<<"matrix", f>>, f)
    BY <1>5
  <2>2. instance.name.suffix = <<"matrix", f>>
    BY <1>2, <2>1
  <2>3. Node(instance.name) = f
    BY <2>2 DEF Node
  <2>4. \A other \in Instances(job) : other.name.suffix # << >>
    <3> SUFFICES ASSUME NEW other \in Instances(job) PROVE other.name.suffix # << >>
      OBVIOUS
    <3>1. PICK g : other = Clone(<<"matrix", g>>, g)
      BY <1>5
    <3>2. other.name.suffix = <<"matrix", g>>
      BY <1>2, <3>1
    <3> QED
      BY <3>2
  <2> QED
    BY <1>2, <2>1, <2>3, <2>4
<1> QED
  BY <1>1, <1>3, <1>4, <1>5

\* What a job that process_config made has, until the rules are evaluated
JobIsLayered(job) ==
    LET block == resolved[job.name.base]
        script == Get(block.plain, "before_script", << >>)
        default == request.config.default
    IN  /\ DOMAIN job = JobFields
        /\ job.name.base \in Visible
        /\ job.variables = Update(Update(Update(variables, default.variables), block.variables), Node(job.name))
        /\ job.before_script = IF script = << >> THEN default.before_script ELSE script
        /\ job.rules = Get(block.plain, "rules", << >>)

\* What process_job makes of a block
LEMMA ProcessedShape ==
    ASSUME NEW base, NEW block
    PROVE  LET job == process_job(base, block)
               script == Get(block.plain, "before_script", << >>)
               default == request.config.default
           IN  /\ DOMAIN job = JobFields /\ job.name = Plain(base)
               /\ job.variables = Update(Update(variables, default.variables), block.variables)
               /\ job.before_script = IF script = << >> THEN default.before_script ELSE script
               /\ job.rules = Get(block.plain, "rules", << >>)
  BY DEF process_job, JobFields

\* Every instance of every job has its layers.
LEMMA BuiltAreLayered ==
    ASSUME NEW job \in Built
    PROVE  JobIsLayered(job)
<1>1. PICK base \in Visible : job \in Instances(process_job(base, resolved[base]))
  BY DEF Built, expand_parallel_jobs
<1> PICK processed : processed = process_job(base, resolved[base])
  OBVIOUS
<1> PICK block : block = resolved[base]
  OBVIOUS
<1> DEFINE script == Get(block.plain, "before_script", << >>)
           default == request.config.default
<1>2. /\ DOMAIN processed = JobFields /\ processed.name = Plain(base)
      /\ processed.variables = Update(Update(variables, default.variables), block.variables)
      /\ processed.before_script = IF script = << >> THEN default.before_script ELSE script
      /\ processed.rules = Get(block.plain, "rules", << >>)
  BY ProcessedShape
<1>3. /\ DOMAIN job = JobFields /\ job.name.base = base
      /\ job["before_script"] = processed["before_script"] /\ job["rules"] = processed["rules"]
      /\ job = processed \/ job.variables = Update(processed.variables, Node(job.name))
  BY <1>1, <1>2, InstanceShape DEF JobFields
<1>4. job.variables = Update(processed.variables, Node(job.name))
  <2>1. CASE job = processed
    <3>1. Node(job.name) = << >>
      BY <1>2, <2>1 DEF Node, Plain
    <3> QED
      BY <1>2, <2>1, <3>1, UpdateNothing
  <2> QED
    BY <1>3, <2>1
<1> QED
  BY <1>1, <1>2, <1>3, <1>4 DEF JobIsLayered

\* Resolving the names in needs: changes nothing of that.
LEMMA ExpandedAreLayered ==
    ASSUME NEW job \in resolve_expanded_needs(Built)
    PROVE  JobIsLayered(job)
<1>1. PICK built \in Built :
          job = [built EXCEPT !.needs = UNION {Expanded(Built, dep) : dep \in @},
                              !.dependencies = IF @ = Unset THEN Unset
                                               ELSE UNION {Expanded(Built, dep) : dep \in @}]
  BY DEF resolve_expanded_needs
<1>2. JobIsLayered(built)
  BY BuiltAreLayered
<1>3. /\ DOMAIN job = DOMAIN built /\ job.name = built.name /\ job.variables = built.variables
      /\ job.before_script = built.before_script /\ job.rules = built.rules
  <2>1. DOMAIN built = JobFields
    BY <1>2 DEF JobIsLayered
  <2> QED
    BY <1>1, <2>1 DEF JobFields
<1> QED
  BY <1>2, <1>3 DEF JobIsLayered

\* The variables of the rule of workflow:rules that holds
WorkflowLayer ==
    IF request.config.workflow = Unset THEN << >>
    ELSE RuleLayer(request.config.workflow, request.env \cup DOMAIN request.config.variables)

\* The global variables with those of workflow:rules, and the jobs before and after rules:
GlobalsAreLayered ==
    /\ phase = "workflow" => variables = request.config.variables
    /\ phase \notin {"workflow", "skipped"} =>
           variables = IF request.config.workflow = Unset THEN request.config.variables
                       ELSE Update(request.config.variables, WorkflowLayer)

LayersInv ==
    /\ GlobalsAreLayered
    /\ phase \in {"select", "dependents", "filter", "rules"} => \A job \in jobs : JobIsLayered(job)
    /\ phase = "run" => \A job \in jobs : \E planned : JobIsLayered(planned) /\ job = evaluate_rules(planned)

\* These depend on nothing that a step after the one of workflow:rules changes.
LEMMA SameLayers ==
    ASSUME UNCHANGED request
    PROVE  /\ WorkflowLayer' = WorkflowLayer
           /\ UNCHANGED variables => \A job : evaluate_rules(job)' = evaluate_rules(job)
           /\ UNCHANGED <<variables, resolved>> => \A job : JobIsLayered(job)' <=> JobIsLayered(job)
<1>1. \A rule : files_match(rule)' <=> files_match(rule)
  BY DEF files_match, changes_match, Changes, discover_changes
<1>2. ASSUME NEW rules, NEW env PROVE RuleLayer(rules, env)' = RuleLayer(rules, env)
  <2> DEFINE Taken(i) == /\ rules[i].if # Unset => Holds(rules[i].if, env)
                         /\ files_match(rules[i])
             first == {i \in DOMAIN rules : Taken(i) /\ \A k \in 1..i - 1 : ~Taken(k)}
             layer == IF first = {} THEN << >> ELSE rules[CHOOSE i \in first : TRUE].variables
  <2>1. first' = first
    BY <1>1
  <2>2. RuleLayer(rules, env) = layer /\ RuleLayer(rules, env)' = layer'
    BY DEF RuleLayer
  <2>3. layer' = layer
    <3> HIDE DEF first
    <3> QED
      BY <2>1
  <2> HIDE DEF layer
  <2> QED
    BY <2>2, <2>3
<1>3. WorkflowLayer' = WorkflowLayer
  BY <1>2 DEF WorkflowLayer
<1>4. ASSUME UNCHANGED variables, NEW job PROVE evaluate_rules(job)' = evaluate_rules(job)
  <2>1. \A rule : rule_matches(rule)' <=> rule_matches(rule)
    BY <1>1, <1>4 DEF rule_matches, Env
  <2>2. \A rules : Matching(rules)' = Matching(rules)
    BY <2>1 DEF Matching
  <2> DEFINE M == Matching(job.rules)
             decided == IF job.rules = << >> THEN job
                        ELSE IF M = {} THEN [job EXCEPT !.when = "never"]
                        ELSE LET rule == job.rules[CHOOSE i \in M : \A k \in M : i <= k]
                             IN  [job EXCEPT !.when = IF rule.when # Unset THEN rule.when ELSE "on_success",
                                             !.allow_failure = IF rule.allow_failure # Unset
                                                               THEN rule.allow_failure ELSE @,
                                             !.variables = Update(@, rule.variables),
                                             !.needs = IF rule.needs # Unset THEN rule.needs ELSE @]
  <2>3. M' = M
    BY <2>2
  <2>4. evaluate_rules(job) = decided /\ evaluate_rules(job)' = decided'
    BY DEF evaluate_rules
  <2>5. decided' = decided
    <3> HIDE DEF M
    <3> QED
      BY <2>3
  <2> QED
    BY <2>4, <2>5
<1>5. ASSUME UNCHANGED <<variables, resolved>>, NEW job PROVE JobIsLayered(job)' <=> JobIsLayered(job)
  <2>1. Visible' = Visible
    BY SameBlocks DEF Visible
  <2> QED
    BY <1>5, <2>1 DEF JobIsLayered
<1> QED
  BY <1>3, <1>4, <1>5

LEMMA InitLayers == PlanningInit => LayersInv
  BY DEF PlanningInit, LayersInv, GlobalsAreLayered

LEMMA NextLayers == ExtendsInv /\ LayersInv /\ [PlanningNext]_planningVars => LayersInv'
<1> SUFFICES ASSUME ExtendsInv, LayersInv, [PlanningNext]_planningVars PROVE LayersInv'
  OBVIOUS
<1>1. UNCHANGED request
  BY DEF PlanningNext, apply_workflow_rules, StartResolve, ResolveParent, MergeParent, Merge,
         ResolveReturns, process_config, SelectChanged, SelectDependents, Filter, EvaluateRules, planningVars
<1>2. CASE apply_workflow_rules
  <2> DEFINE config == request.config
             gate == [ rules |-> config.workflow, when |-> "on_success", allow_failure |-> FALSE,
                       variables |-> << >>, needs |-> {} ]
  <2>1. phase = "workflow" /\ variables = config.variables /\ phase' \in {"process", "skipped"}
    BY <1>2 DEF apply_workflow_rules, ApplyWorkflow, Step, LayersInv, GlobalsAreLayered
  <2>2. CASE config.workflow = Unset
    <3>1. UNCHANGED variables
      BY <1>2, <2>2 DEF apply_workflow_rules, ApplyWorkflow
    <3> QED
      BY <1>1, <2>1, <2>2, <3>1 DEF LayersInv, GlobalsAreLayered
  <2>3. CASE config.workflow # Unset
    <3>1. AreRules(config.workflow)
      BY <2>3, RequestsAssumption DEF ExtendsInv, RequestGiven
    <3>2. Env = request.env \cup DOMAIN config.variables
      BY <2>1 DEF Env
    <3>3. evaluate_rules(gate).variables = Update(<< >>, WorkflowLayer)
      <4>1. << >> = Update(<< >>, << >>)
        BY DEF Update
      <4>2. /\ {"when", "allow_failure", "variables", "needs"} \subseteq DOMAIN gate
            /\ gate.rules = config.workflow /\ gate.variables = << >>
        OBVIOUS
      <4> HIDE DEF gate
      <4>3. evaluate_rules(gate).variables = Update(gate.variables, RuleLayer(gate.rules, Env))
        BY <3>1, <4>1, <4>2, RulesAddLayer
      <4> QED
        BY <2>3, <3>2, <4>2, <4>3 DEF WorkflowLayer
    <3>4. phase' # "skipped" => variables' = Update(config.variables, WorkflowLayer)
      <4>1. phase' # "skipped" => variables' = Update(variables, evaluate_rules(gate).variables)
        BY <1>2, <2>1, <2>3 DEF apply_workflow_rules, ApplyWorkflow, Step
      <4> QED
        BY <2>1, <3>3, <4>1, UpdateNothing
    <3> QED
      BY <1>1, <2>1, <2>3, <3>4, SameLayers DEF LayersInv, GlobalsAreLayered
  <2> QED
    BY <2>2, <2>3
<1>3. CASE StartResolve \/ ResolveParent \/ MergeParent \/ ResolveReturns
  <2>1. phase = "process" /\ phase' \in {"process", "error"} /\ UNCHANGED variables
    BY <1>3 DEF StartResolve, ResolveParent, MergeParent, Merge, ResolveReturns, Resolving
  <2> QED
    BY <1>1, <2>1, SameLayers DEF LayersInv, GlobalsAreLayered
<1>4. CASE process_config \/ SelectChanged \/ SelectDependents \/ Filter \/ EvaluateRules
           \/ UNCHANGED planningVars
  <2>1. UNCHANGED <<variables, resolved>>
    BY <1>4 DEF process_config, SelectChanged, SelectDependents, Filter, EvaluateRules, planningVars
  <2>2. /\ WorkflowLayer' = WorkflowLayer
        /\ \A job : evaluate_rules(job)' = evaluate_rules(job)
        /\ \A job : JobIsLayered(job)' <=> JobIsLayered(job)
    BY <1>1, <2>1, SameLayers
  <2>3. GlobalsAreLayered'
    <3>1. phase' \in {"workflow", "skipped"} => phase' = phase
      BY <1>4 DEF process_config, SelectChanged, SelectDependents, Filter, EvaluateRules, planningVars, Step
    <3>2. phase' = "workflow" \/ phase' # "skipped" =>
              (phase' = phase \/ phase \notin {"workflow", "skipped"})
      BY <1>4 DEF process_config, SelectChanged, SelectDependents, Filter, EvaluateRules, planningVars, Step
    <3> QED
      BY <1>1, <2>1, <2>2, <3>1, <3>2 DEF LayersInv, GlobalsAreLayered
  <2>4. CASE process_config
    <3>1. \A job \in jobs' : JobIsLayered(job) /\ phase' = "select"
      BY <2>4, ExpandedAreLayered DEF process_config, Step
    <3> QED
      BY <2>2, <2>3, <2>4, <3>1 DEF LayersInv, process_config, Step
  <2>5. CASE SelectChanged \/ SelectDependents \/ Filter
    <3>1. jobs' \subseteq jobs
      BY <2>5 DEF SelectChanged, SelectDependents, Filter, filter_pipeline, Named
    <3>2. phase \in {"select", "dependents", "filter", "rules"} /\ phase' # "run"
      BY <2>5 DEF SelectChanged, SelectDependents, Filter, Step
    <3> QED
      BY <2>2, <2>3, <3>1, <3>2 DEF LayersInv
  <2>6. CASE EvaluateRules
    <3>1. phase = "rules" /\ phase' = "run" /\ jobs' = {evaluate_rules(job) : job \in jobs}
      BY <2>6 DEF EvaluateRules, Step
    <3>2. \A job \in jobs' : \E planned : JobIsLayered(planned) /\ job = evaluate_rules(planned)
      BY <3>1 DEF LayersInv
    <3> QED
      BY <2>2, <2>3, <3>1, <3>2 DEF LayersInv
  <2>7. CASE UNCHANGED planningVars
    <3>1. UNCHANGED <<phase, jobs>>
      BY <2>7 DEF planningVars
    <3> QED
      BY <2>2, <2>3, <3>1 DEF LayersInv
  <2> QED
    BY <1>4, <2>4, <2>5, <2>6, <2>7
<1> QED
  BY <1>2, <1>3, <1>4 DEF PlanningNext

\* plan.py and rules.py: whatever the templates, the defaults and the rules of a run are,
\* each variable that a job runs with has the value of the last layer that gives one, and
\* its before_script is that of the last block that has one.
THEOREM LastLayerCounts == PlanningSpec => []LastLayerWins
<1>1. ASSUME ExtendsInv, LayersInv PROVE LastLayerWins
  <2> DEFINE config == request.config
             global == request.env \cup DOMAIN config.variables
             workflow == IF config.workflow = Unset THEN << >> ELSE RuleLayer(config.workflow, global)
  <2> SUFFICES ASSUME phase = "run", NEW job \in jobs
               PROVE  LET block == Inherited[job.name.base]
                          node == IF job.name.suffix # << >> /\ job.name.suffix[1] = "matrix"
                                  THEN job.name.suffix[2] ELSE << >>
                          rule == RuleLayer(Get(block.plain, "rules", << >>), global \cup DOMAIN workflow)
                          script == Get(block.plain, "before_script", << >>)
                      IN  /\ job.variables = Overlaid(<<config.variables, workflow, config.default.variables,
                                                       block.variables, node, rule>>)
                          /\ job.before_script = IF script = << >> THEN config.default.before_script ELSE script
    BY DEF LastLayerWins
  <2>1. PICK planned : JobIsLayered(planned) /\ job = evaluate_rules(planned)
    BY <1>1 DEF LayersInv
  <2> PICK block : block = resolved[planned.name.base]
    OBVIOUS
  <2> DEFINE rules == Get(block.plain, "rules", << >>)
             script == Get(block.plain, "before_script", << >>)
             below == Update(Update(variables, config.default.variables), block.variables)
  <2>2. AreRules(rules)
    <3>1. planned.name.base \in DOMAIN resolved
      BY <1>1, <2>1 DEF JobIsLayered, Visible, ExtendsInv, Resolved
    <3>2. GoodRules(block.plain)
      BY <1>1, <3>1 DEF ExtendsInv, ResolvedInOrder, ResolvedBlock
    <3>3. AreRules(<< >>)
      BY DEF AreRules, ToSet
    <3> QED
      BY <3>2, <3>3 DEF GoodRules, Get
  <2>3. /\ DOMAIN planned = JobFields /\ planned.rules = rules
        /\ planned.variables = Update(below, Node(planned.name))
        /\ planned.before_script = IF script = << >> THEN config.default.before_script ELSE script
    BY <2>1 DEF JobIsLayered
  <2>4. /\ job.variables = Update(Update(below, Node(planned.name)), RuleLayer(rules, Env))
        /\ job.name = planned.name /\ job.before_script = planned.before_script
    <3>1. {"when", "allow_failure", "variables", "needs"} \subseteq DOMAIN planned
      BY <2>3 DEF JobFields
    <3> HIDE DEF rules, below
    <3> QED
      BY <2>1, <2>2, <2>3, <3>1, RulesAddLayer
  <2>5. Inherited[job.name.base] = block
    <3>1. DOMAIN resolved = DOMAIN Blocks /\ planned.name.base \in DOMAIN Blocks
      BY <1>1, <2>1 DEF ExtendsInv, Resolved, JobIsLayered, Visible
    <3> QED
      BY <1>1, <2>4, <3>1, InheritedIsResolved
  <2>6. workflow = WorkflowLayer
    BY DEF WorkflowLayer
  <2>7. variables = IF config.workflow = Unset THEN config.variables ELSE Update(config.variables, workflow)
    BY <1>1, <2>6 DEF LayersInv, GlobalsAreLayered
  <2>8. config.workflow = Unset => workflow = << >>
    OBVIOUS
  <2> HIDE DEF workflow
  <2>9. Env = global \cup DOMAIN workflow
    BY <2>7, <2>8 DEF Env, Update
  <2>10. Update(variables, config.default.variables) =
             Update(Update(Update(<< >>, config.variables), workflow), config.default.variables)
    BY <2>7, <2>8, UpdateNothing
  <2> HIDE DEF config, global
  <2>11. job.variables = Overlaid(<<config.variables, workflow, config.default.variables,
                                   block.variables, Node(job.name), RuleLayer(rules, global \cup DOMAIN workflow)>>)
    <3> PICK under : under = Update(variables, config.default.variables)
      OBVIOUS
    <3>1. below = Update(under, block.variables)
      OBVIOUS
    <3> PICK last : last = RuleLayer(rules, global \cup DOMAIN workflow)
      OBVIOUS
    <3>2. under = Update(Update(Update(<< >>, config.variables), workflow), config.default.variables)
      BY <2>10
    <3>3. Overlaid(<<config.variables, workflow, config.default.variables,
                     block.variables, Node(job.name), last>>) =
              Update(Update(Update(under, block.variables), Node(job.name)), last)
      BY <3>2, SixLayers
    <3> HIDE DEF rules, below
    <3>4. job.variables = Update(Update(below, Node(job.name)), last)
      BY <2>4, <2>9
    <3> QED
      BY <3>1, <3>3, <3>4
  <2> QED
    BY <2>3, <2>4, <2>5, <2>11 DEF Node
<1>2. PlanningSpec => []LayersInv
  BY InitLayers, NextLayers, ExtendsStays, PTL DEF PlanningSpec
<1> QED
  BY <1>1, <1>2, ExtendsStays, PTL

-----------------------------------------------------------------------------
(* Planning: --changed.                                                    *)
(*                                                                         *)
(* Until the worklist is empty what is selected is below every set of      *)
(* names that is closed under needs: and has the touched jobs; when it is  *)
(* empty, it is such a set.                                                *)

\* All jobs, with the names in needs: resolved
AllJobs == resolve_expanded_needs(Built)

\* With a job that is touched or needed by what is selected, its name is.
ClosedIn(js, names) ==
    \A job \in js : Touched(job) \/ job.needs \cap names # {} => job.name \in names

\* What is selected so far is touched or reached from what is.
LeastSelected(js) ==
    /\ NamesOf({job \in js : Touched(job)}) \subseteq selected
    /\ selected \subseteq NamesOf(js)
    /\ \A names : ClosedIn(js, names) => selected \subseteq names

ChangedInv ==
    /\ phase \in {"select", "dependents"} => jobs = AllJobs
    /\ phase = "dependents" => LeastSelected(AllJobs)
    /\ phase = "filter" /\ request.changed =>
           LeastSelected(AllJobs) /\ ClosedIn(AllJobs, selected) /\ jobs = Named(AllJobs, selected)

\* Which jobs there are, and which are touched, stays as it is.
LEMMA SameJobs ==
    ASSUME UNCHANGED request
    PROVE  /\ \A job : Touched(job)' <=> Touched(job)
           /\ UNCHANGED <<variables, resolved>> => AllJobs' = AllJobs
<1>1. \A job : Touched(job)' <=> Touched(job)
  BY DEF Touched, changes_match, Changes, discover_changes
<1>2. ASSUME UNCHANGED <<variables, resolved>> PROVE AllJobs' = AllJobs
  <2>1. Visible' = Visible
    BY SameBlocks DEF Visible
  <2>2. \A base, block : process_job(base, block)' = process_job(base, block)
    BY <1>2 DEF process_job
  <2>3. {process_job(name, resolved[name]) : name \in Visible}' =
            {process_job(name, resolved[name]) : name \in Visible}
    BY <1>2, <2>1, <2>2
  <2>4. Built' = Built
    BY <2>3 DEF Built
  <2> QED
    BY <2>4 DEF AllJobs
<1> QED
  BY <1>1, <1>2

LEMMA NextChanged == ChangedInv /\ [PlanningNext]_planningVars => ChangedInv'
<1> SUFFICES ASSUME ChangedInv, [PlanningNext]_planningVars PROVE ChangedInv'
  OBVIOUS
<1>1. UNCHANGED request
  BY DEF PlanningNext, apply_workflow_rules, StartResolve, ResolveParent, MergeParent, Merge,
         ResolveReturns, process_config, SelectChanged, SelectDependents, Filter, EvaluateRules, planningVars
<1>2. \A job : Touched(job)' <=> Touched(job)
  BY <1>1, SameJobs
<1>3. CASE apply_workflow_rules \/ StartResolve \/ ResolveParent \/ MergeParent \/ ResolveReturns
           \/ Filter \/ EvaluateRules
  <2>1. phase' \notin {"select", "dependents", "filter"}
    BY <1>3 DEF apply_workflow_rules, ApplyWorkflow, StartResolve, ResolveParent, MergeParent, Merge,
                ResolveReturns, Resolving, Filter, EvaluateRules, Step
  <2> QED
    BY <2>1 DEF ChangedInv
<1>4. CASE process_config \/ SelectChanged \/ SelectDependents \/ UNCHANGED planningVars
  <2>1. AllJobs' = AllJobs
    BY <1>1, <1>4, SameJobs DEF process_config, SelectChanged, SelectDependents, planningVars
  <2> HIDE DEF AllJobs
  <2>2. \A js, names : ClosedIn(js, names)' <=> ClosedIn(js, names)
    BY <1>2 DEF ClosedIn
  <2>3. CASE process_config
    BY <2>1, <2>3 DEF process_config, ChangedInv, Step, AllJobs
  <2>4. CASE SelectChanged
    <3>1. jobs = AllJobs /\ phase = "select" /\ UNCHANGED jobs
      BY <2>4 DEF SelectChanged, Step, ChangedInv
    <3>2. CASE ~request.changed
      BY <1>1, <2>4, <3>2 DEF SelectChanged, Step, ChangedInv
    <3>3. CASE request.changed
      <4>1. selected' = NamesOf({job \in AllJobs : Touched(job)}) /\ phase' = "dependents"
        BY <2>4, <3>1, <3>3 DEF SelectChanged, Step
      <4>2. LeastSelected(AllJobs)'
        BY <1>2, <2>1, <2>2, <4>1 DEF LeastSelected, ClosedIn, NamesOf
      <4> QED
        BY <2>1, <3>1, <4>1, <4>2 DEF ChangedInv
    <3> QED
      BY <3>2, <3>3
  <2>5. CASE SelectDependents
    <3>1. /\ jobs = AllJobs /\ LeastSelected(AllJobs)
          /\ selected' = selected \cup NamesOf({job \in AllJobs : job.needs \cap selected # {}})
      BY <2>5 DEF SelectDependents, Dependents, Step, ChangedInv
    <3>2. LeastSelected(AllJobs)'
      <4>1. \A names : ClosedIn(AllJobs, names) => selected' \subseteq names
        BY <3>1 DEF LeastSelected, ClosedIn, NamesOf
      <4>2. selected \subseteq selected' /\ selected' \subseteq NamesOf(AllJobs)
        BY <3>1 DEF LeastSelected, NamesOf
      <4>3. NamesOf({job \in AllJobs : Touched(job)})' = NamesOf({job \in AllJobs : Touched(job)})
        BY <1>2, <2>1 DEF NamesOf
      <4> QED
        BY <2>1, <2>2, <3>1, <4>1, <4>2, <4>3 DEF LeastSelected
    <3>3. CASE selected' # selected
      BY <2>1, <2>5, <3>1, <3>2, <3>3 DEF SelectDependents, Step, ChangedInv
    <3>4. CASE selected' = selected
      <4>1. jobs' = Named(AllJobs, selected) /\ phase' \in {"nothing", "filter"}
        BY <2>5, <3>1, <3>4 DEF SelectDependents, Step
      <4>2. ClosedIn(AllJobs, selected)
        BY <3>1, <3>4 DEF LeastSelected, ClosedIn, NamesOf
      <4>3. ClosedIn(AllJobs, selected)'
        BY <2>1, <2>2, <3>4, <4>2
      <4>4. jobs' = Named(AllJobs', selected')
        BY <2>1, <3>4, <4>1
      <4> QED
        BY <3>2, <4>1, <4>3, <4>4 DEF ChangedInv
    <3> QED
      BY <3>3, <3>4
  <2>6. CASE UNCHANGED planningVars
    <3>1. UNCHANGED <<phase, selected, jobs>>
      BY <2>6 DEF planningVars
    <3>2. LeastSelected(AllJobs)' <=> LeastSelected(AllJobs)
      <4>1. NamesOf({job \in AllJobs : Touched(job)})' = NamesOf({job \in AllJobs : Touched(job)})
        BY <1>2, <2>1 DEF NamesOf
      <4>2. NamesOf(AllJobs)' = NamesOf(AllJobs)
        BY <2>1 DEF NamesOf
      <4> QED
        BY <2>1, <2>2, <3>1, <4>1, <4>2 DEF LeastSelected
    <3>3. ClosedIn(AllJobs, selected)' <=> ClosedIn(AllJobs, selected)
      BY <2>1, <2>2, <3>1
    <3> QED
      BY <1>1, <2>1, <3>1, <3>2, <3>3 DEF ChangedInv, Named
  <2> QED
    BY <1>4, <2>3, <2>4, <2>5, <2>6
<1> QED
  BY <1>3, <1>4 DEF PlanningNext

\* The name of a job and that of an instance of it never exist together.
LEMMA NameOrInstances ==
    ASSUME NEW name \in NamesOf(Built)
    PROVE  /\ name.suffix = << >> => name = Plain(name.base)
           /\ Plain(name.base) \in NamesOf(Built) => name = Plain(name.base)
<1>1. \A base : DOMAIN process_job(base, resolved[base]) = JobFields
                /\ process_job(base, resolved[base]).name = Plain(base)
  BY ProcessedShape
<1>2. PICK job \in Built : job.name = name
  BY DEF NamesOf
<1>3. PICK base : job \in Instances(process_job(base, resolved[base]))
  BY <1>2 DEF Built, expand_parallel_jobs
<1>4. /\ name.base = base
      /\ \/ name = Plain(base)
         \/ \A other \in Instances(process_job(base, resolved[base])) : other.name.suffix # << >>
  <2> PICK processed : processed = process_job(base, resolved[base])
    OBVIOUS
  <2> QED
    BY <1>1, <1>2, <1>3, InstanceShape
<1>5. ASSUME Plain(base) \in NamesOf(Built)
      PROVE  \E other \in Instances(process_job(base, resolved[base])) : other.name.suffix = << >>
  <2>1. PICK other \in Built : other.name = Plain(base)
    BY <1>5 DEF NamesOf
  <2>2. PICK m : other \in Instances(process_job(m, resolved[m]))
    BY <2>1 DEF Built, expand_parallel_jobs
  <2>3. other.name.base = m
    <3> PICK processed : processed = process_job(m, resolved[m])
      OBVIOUS
    <3> QED
      BY <1>1, <2>2, InstanceShape
  <2>4. m = base /\ other.name.suffix = << >>
    BY <2>1, <2>3 DEF Plain
  <2> QED
    BY <2>2, <2>4
<1> QED
  BY <1>2, <1>3, <1>4, <1>5

\* resolve_expanded_needs: a job needs exactly those that it names, by their own name or by
\* the one they had before they were expanded.
LEMMA NeedsByEitherName ==
    ASSUME NEW needs, NEW name \in NamesOf(Built)
    PROVE  name \in UNION {Expanded(Built, dep) : dep \in needs}
               <=> name \in needs \/ Plain(name.base) \in needs
<1>1. ASSUME NEW dep \in needs, name \in Expanded(Built, dep)
      PROVE  name \in needs \/ Plain(name.base) \in needs
  BY <1>1 DEF Expanded
<1>2. name \in Expanded(Built, name)
  BY DEF Expanded
<1>3. name \in Expanded(Built, Plain(name.base))
  <2>1. CASE Plain(name.base) \in NamesOf(Built)
    BY <2>1, NameOrInstances DEF Expanded
  <2>2. CASE Plain(name.base) \notin NamesOf(Built)
    <3>1. name.suffix # << >>
      BY <2>2, NameOrInstances
    <3> QED
      BY <2>2, <3>1 DEF Expanded
  <2> QED
    BY <2>1, <2>2
<1> QED
  BY <1>1, <1>2, <1>3

\* changes.py: --changed keeps the jobs that a change reaches through needs:, whichever
\* name the needs: use and however long the way is, and no others.
THEOREM ChangesReachFarEnough == PlanningSpec => []ChangedReachesDependents
<1>1. ASSUME ChangedInv PROVE ChangedReachesDependents
  <2> DEFINE Needs(job, name) == name \in job.needs \/ Plain(name.base) \in job.needs
             ClosedNames(names) ==
                 \A job \in Built : Touched(job) \/ (\E name \in names : Needs(job, name)) => job.name \in names
  <2> SUFFICES ASSUME phase = "filter", request.changed
               PROVE  /\ ClosedNames(NamesOf(jobs))
                      /\ \A names \in SUBSET NamesOf(jobs) : ClosedNames(names) => names = NamesOf(jobs)
    BY DEF ChangedReachesDependents
  <2> DEFINE E(job) == [job EXCEPT !.needs = UNION {Expanded(Built, dep) : dep \in @},
                                   !.dependencies = IF @ = Unset THEN Unset
                                                    ELSE UNION {Expanded(Built, dep) : dep \in @}]
  <2>1. AllJobs = {E(job) : job \in Built}
    BY DEF AllJobs, resolve_expanded_needs
  <2>2. ASSUME NEW job \in Built
        PROVE  /\ E(job).name = job.name /\ (Touched(E(job)) <=> Touched(job))
               /\ E(job).needs = UNION {Expanded(Built, dep) : dep \in job.needs}
    <3>1. DOMAIN job = JobFields
      BY BuiltAreLayered DEF JobIsLayered
    <3>2. /\ E(job).name = job.name /\ E(job).inputs = job.inputs /\ E(job).rules = job.rules
          /\ E(job).needs = UNION {Expanded(Built, dep) : dep \in job.needs}
      BY <3>1 DEF JobFields
    <3> HIDE DEF E
    <3> QED
      BY <3>2 DEF Touched, selection_input_patterns
  <2> HIDE DEF E
  <2>3. NamesOf(AllJobs) = NamesOf(Built)
    BY <2>1, <2>2 DEF NamesOf
  <2>4. ASSUME NEW names \in SUBSET NamesOf(Built)
        PROVE  ClosedNames(names) <=> ClosedIn(AllJobs, names)
    <3>1. ASSUME NEW job \in Built
          PROVE  E(job).needs \cap names # {} <=> \E name \in names : Needs(job, name)
      BY <2>2, <3>1, NeedsByEitherName
    <3>2. ClosedIn(AllJobs, names) <=> \A job \in Built :
              Touched(E(job)) \/ E(job).needs \cap names # {} => E(job).name \in names
      BY <2>1 DEF ClosedIn
    <3> HIDE DEF Needs
    <3> QED
      BY <2>2, <3>1, <3>2
  <2>5. LeastSelected(AllJobs) /\ ClosedIn(AllJobs, selected) /\ jobs = Named(AllJobs, selected)
    BY <1>1 DEF ChangedInv
  <2>6. NamesOf(jobs) = selected /\ selected \subseteq NamesOf(Built)
    BY <2>3, <2>5 DEF LeastSelected, NamesOf, Named
  <2> HIDE DEF ClosedNames
  <2> QED
    BY <2>4, <2>5, <2>6 DEF LeastSelected
<1>2. PlanningSpec => []ChangedInv
  <2>1. PlanningInit => ChangedInv
    BY DEF PlanningInit, ChangedInv
  <2> QED
    BY <2>1, NextChanged, PTL DEF PlanningSpec
<1> QED
  BY <1>1, <1>2, PTL
=============================================================================
