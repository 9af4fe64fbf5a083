------------------------- MODULE CacheStoreProofs -------------------------
(***************************************************************************)
(* Theorems about CacheStore for any number of jobs, files, keys and       *)
(* entries: it implements the register of CacheRegister, and what it keeps *)
(* beside the live generations is what killed jobs have left.              *)
(***************************************************************************)
EXTENDS CacheStore, FiniteSetTheorems, TLAPS

Waiting == {"restore_wait", "save_wait"}
Writing == {"publish", "point", "replace", "collect"}
Saving == {"save", "save_wait", "publish", "point", "replace", "collect", "done", "dead"}

USE DEF Published, Writing

\* A job at work on an entry has resolved its key, and nobody else has that key's lock.
Exclusion ==
    \A j \in Jobs :
        /\ pc[j] \in Holding \cup Waiting => HasEntry(j) /\ key[j] \in Keys
        /\ pc[j] \in Holding => lock[key[j]] = j

\* The entry under way is the newest a job has published, and nothing is published before
\* its script has ended: the target of a rename never exists already.
Freshness ==
    \A j \in Jobs, k \in Keys, i \in 1..MaxEntries :
        <<j, i>> \in DOMAIN disk[k] =>
            /\ pc[j] \in Saving
            /\ i < entry[j] \/ (i = entry[j] /\ pc[j] \in Published \cup {"dead"})

\* What a job has copied so far is what the live generation holds.
Copying ==
    \A j \in Jobs :
        pc[j] = "copy" =>
            /\ source[j] = latest[key[j]] /\ source[j] \in DOMAIN disk[key[j]]
            /\ \A f \in Files : f \notin todo[j] => copied[j][f] = disk[key[j]][source[j]][f]

\* What a job is about to point to is its tree.
Staging ==
    \A j \in Jobs :
        LET g == <<j, entry[j]>> IN
        /\ pc[j] \in {"save_wait", "publish"} => staged[j] = tree[j]
        /\ pc[j] \in Published => g \in DOMAIN disk[key[j]]
        /\ pc[j] \in {"point", "replace"} => disk[key[j]][g] = tree[j]
        /\ pc[j] = "collect" => latest[key[j]] = g

IInv == TypeOK /\ Exclusion /\ PointerNeverDangles /\ Freshness /\ Copying /\ Staging

-----------------------------------------------------------------------------
(* Types.                                                                  *)

LEMMA EntryIsConfig ==
    ASSUME TypeOK, NEW j \in Jobs, HasEntry(j)
    PROVE  entry[j] \in 1..MaxEntries /\ Config(j) \in CacheConfig
<1>1. /\ cache[j] \in Seq(CacheConfig) /\ Len(cache[j]) <= MaxEntries
      /\ entry[j] \in 1..(MaxEntries + 1) /\ entry[j] <= Len(cache[j])
  BY WorkloadsAssumption DEF TypeOK, HasEntry
<1>2. entry[j] \in 1..Len(cache[j])
  BY <1>1, BoundAssumption
<1> QED
  BY <1>1, <1>2, BoundAssumption DEF Config

LEMMA KeyIsKey ==
    ASSUME TypeOK, NEW j \in Jobs, HasEntry(j)
    PROVE  ResolveCacheKey(j) \in Keys
<1> DEFINE c == Config(j)
<1>1. c.key \in Literals /\ c.key_files \in SUBSET Files /\ tree[j] \in [Files -> Versions]
  BY EntryIsConfig DEF CacheConfig, TypeOK, Trees
<1>2. CASE c.key_files = {}
  BY <1>1, <1>2 DEF ResolveCacheKey, Keys
<1>3. CASE c.key_files # {}
  <2>1. [f \in c.key_files |-> tree[j][f]] \in [c.key_files -> Versions]
    BY <1>1
  <2>2. c.key_files \in (SUBSET Files) \ {{}}
    BY <1>1, <1>3
  <2> QED
    BY <1>3, <2>1, <2>2 DEF ResolveCacheKey, Keys
<1> QED
  BY <1>2, <1>3

LEMMA InitIsTyped == ASSUME Init PROVE TypeOK
<1>1. NoFiles \in Trees
  BY DEF NoFiles, Trees, Versions
<1> QED
  BY <1>1, BoundAssumption DEF Init, TypeOK, LitterTypeOK, PCs

LEMMA LitterIsTyped ==
    ASSUME TypeOK, Exclusion, NEW j \in Jobs, Step(j) \/ Die(j)
    PROVE  LitterTypeOK'
<1> USE DEF LitterTypeOK
<1>1. /\ pc[j] \in Writing => key[j] \in Keys /\ <<j, entry[j]>> \in Generations
      /\ LitterTypeOK
  BY EntryIsConfig DEF TypeOK, Exclusion, Holding, Generations
<1>2. CASE WritePointer(j) \/ Point(j)
  BY <1>1, <1>2 DEF WritePointer, Point
<1>3. CASE Collect(j)
  <2>1. \A k \in Keys : DOMAIN disk[k] \subseteq Generations
    BY DEF TypeOK
  <2>2. pointers' = pointers /\ (broken' = broken \/ broken' = [broken EXCEPT ![key[j]] = {}])
    BY <1>3 DEF Collect, EndSave
  <2>3. stuck' = stuck \/ \E g \in DOMAIN disk[key[j]] : stuck' = stuck \cup {g}
    BY <1>3 DEF Collect
  <2>4. key[j] \in Keys
    BY <1>1, <1>3 DEF Collect
  <2> QED
    BY <1>1, <2>1, <2>2, <2>3, <2>4
<1>4. CASE Die(j)
  BY <1>1, <1>4 DEF Die
<1>5. CASE ~(WritePointer(j) \/ Point(j) \/ Collect(j) \/ Die(j))
  BY <1>1, <1>5 DEF Step, RestoreEntry, RestoresDone, RestoreLocked, RestoreSkipped, ReadLatest,
     CopyFile, Restored, Work, SaveEntry, SavesDone, SaveLocked, SaveSkipped, Publish, store
<1> QED
  BY <1>2, <1>3, <1>4, <1>5

LEMMA StepIsTyped ==
    ASSUME TypeOK, Exclusion, Staging, NEW j \in Jobs, Step(j) \/ Die(j)
    PROVE  TypeOK'
<1> USE DEF TypeOK, PCs, Goto, local, store
<1>0. LitterTypeOK'
  BY LitterIsTyped
<1>1. HasEntry(j) => /\ entry[j] \in 1..MaxEntries /\ entry[j] + 1 \in 1..(MaxEntries + 1)
                     /\ ResolveCacheKey(j) \in Keys
  BY EntryIsConfig, KeyIsKey, BoundAssumption
<1>2. pc[j] \in Holding \cup Waiting => HasEntry(j) /\ key[j] \in Keys
  BY DEF Exclusion
<1>3. NoFiles \in Trees /\ None \notin Generations
  BY NobodyAssumption DEF NoFiles, Trees, Versions
<1>4. CASE RestoreEntry(j)
  BY <1>0, <1>1, <1>4 DEF RestoreEntry, NextEntry
<1>5. CASE RestoresDone(j) \/ SavesDone(j)
  BY <1>0, <1>5 DEF RestoresDone, SavesDone
<1>6. CASE RestoreLocked(j) \/ SaveLocked(j)
  BY <1>0, <1>6 DEF RestoreLocked, SaveLocked, Lock
<1>7. CASE RestoreSkipped(j) \/ SaveSkipped(j)
  BY <1>0, <1>1, <1>2, <1>7 DEF RestoreSkipped, SaveSkipped, NextEntry, Waiting
<1>8. CASE ReadLatest(j)
  <2>1. CASE latest[key[j]] \notin DOMAIN disk[key[j]]
    <3>1. /\ answer' = [answer EXCEPT ![j] = <<key[j], None>>]
          /\ lock' = [lock EXCEPT ![key[j]] = NoJob]
          /\ pc' = [pc EXCEPT ![j] = "restore"] /\ entry' = [entry EXCEPT ![j] = @ + 1]
          /\ UNCHANGED <<source, todo, copied, cache, tree, key, succeeded, staged, disk, latest>>
      BY <1>8, <2>1 DEF ReadLatest, NextEntry, Unlock
    <3>2. entry[j] + 1 \in 1..(MaxEntries + 1) /\ key[j] \in Keys
      BY <1>1, <1>2, <1>8 DEF ReadLatest, Holding
    <3>3. <<key[j], None>> \in Keys \X (Trees \cup {None})
      BY <3>2
    <3> QED
      BY <1>0, <3>1, <3>2, <3>3
  <2>2. CASE latest[key[j]] \in DOMAIN disk[key[j]]
    <3>1. latest[key[j]] \in Generations /\ Present(disk[key[j]][latest[key[j]]]) \in SUBSET Files
      BY <1>2, <1>8, <2>2 DEF ReadLatest, Holding, Present
    <3>2. /\ source' = [source EXCEPT ![j] = latest[key[j]]]
          /\ todo' = [todo EXCEPT ![j] = Present(disk[key[j]][latest[key[j]]])]
          /\ copied' = [copied EXCEPT ![j] = NoFiles]
          /\ pc' = [pc EXCEPT ![j] = "copy"]
          /\ UNCHANGED <<lock, answer, entry, cache, tree, key, succeeded, staged, disk, latest>>
      BY <1>8, <2>2 DEF ReadLatest
    <3> QED
      BY <1>0, <1>3, <3>1, <3>2
  <2> QED
    BY <2>1, <2>2
<1>9. ASSUME NEW f \in Files, CopyFile(j, f) PROVE TypeOK'
  <2> DEFINE v == IF source[j] \in DOMAIN disk[key[j]] THEN disk[key[j]][source[j]][f] ELSE None
  <2>1. v \in Versions
    BY <1>2, <1>9 DEF CopyFile, Holding, Trees, Versions
  <2>2. /\ tree' = [tree EXCEPT ![j] = [tree[j] EXCEPT ![f] = v]]
        /\ copied' = [copied EXCEPT ![j] = [copied[j] EXCEPT ![f] = v]]
    BY <1>9 DEF CopyFile
  <2>3. [tree[j] EXCEPT ![f] = v] \in Trees /\ [copied[j] EXCEPT ![f] = v] \in Trees
    BY <2>1 DEF Trees
  <2>4. /\ todo' = [todo EXCEPT ![j] = @ \ {f}]
        /\ UNCHANGED <<cache, pc, lock, entry, key, source, succeeded, staged, answer, disk, latest>>
    BY <1>9 DEF CopyFile
  <2> HIDE DEF v
  <2> QED
    BY <1>0, <2>2, <2>3, <2>4
<1>10. CASE Restored(j)
  BY <1>0, <1>1, <1>2, <1>10 DEF Restored, NextEntry, Unlock, Holding
<1>11. CASE Work(j)
  <2>1. PICK W \in SUBSET Files :
            tree' = [tree EXCEPT ![j] = [f \in Files |-> IF f \in W THEN j ELSE @[f]]]
    BY <1>11 DEF Work
  <2>2. tree' = [tree EXCEPT ![j] = [f \in Files |-> IF f \in W THEN j ELSE tree[j][f]]]
    BY <2>1
  <2>3. [f \in Files |-> IF f \in W THEN j ELSE tree[j][f]] \in Trees
    BY DEF Trees, Versions
  <2>4. tree' \in [Jobs -> Trees]
    BY <2>2, <2>3
  <2> QED
    BY <1>0, <1>11, <2>4, BoundAssumption DEF Work
<1>12. CASE SaveEntry(j)
  <2>1. HasEntry(j) /\ entry[j] + 1 \in 1..(MaxEntries + 1) /\ ResolveCacheKey(j) \in Keys
    BY <1>1, <1>12 DEF SaveEntry
  <2>2. CASE Saveable(j) /\ Present(tree[j]) # {}
    <3>1. /\ key' = [key EXCEPT ![j] = ResolveCacheKey(j)]
          /\ staged' = [staged EXCEPT ![j] = tree[j]] /\ pc' = [pc EXCEPT ![j] = "save_wait"]
          /\ UNCHANGED <<cache, tree, entry, source, todo, copied, succeeded, answer,
                         disk, latest, lock>>
      BY <1>12, <2>2 DEF SaveEntry
    <3> HIDE DEF Goto, local, store
    <3> QED
      BY <1>0, <2>1, <3>1
  <2>3. CASE ~(Saveable(j) /\ Present(tree[j]) # {})
    BY <1>0, <1>12, <2>1, <2>3 DEF SaveEntry, NextEntry
  <2> QED
    BY <2>2, <2>3
<1>13. CASE Publish(j)
  <2> DEFINE k == key[j]
             g == <<j, entry[j]>>
             D == [h \in DOMAIN disk[k] \cup {g} |-> IF h = g THEN staged[j] ELSE disk[k][h]]
  <2>1. disk' = [disk EXCEPT ![k] = D] /\ k \in Keys
    BY <1>2, <1>13 DEF Publish, Holding
  <2>2. g \in Generations /\ staged[j] \in Trees
    BY <1>1, <1>2, <1>13 DEF Publish, Generations, Holding, Staging
  <2>3. DOMAIN D \subseteq Generations /\ D \in [DOMAIN D -> Trees]
    BY <2>1, <2>2
  <2>4. \A h \in Keys : disk'[h] = IF h = k THEN D ELSE disk[h]
    BY <2>1
  <2> HIDE DEF D
  <2>5. /\ DOMAIN disk' = Keys
        /\ \A h \in Keys : DOMAIN disk'[h] \subseteq Generations
                           /\ disk'[h] \in [DOMAIN disk'[h] -> Trees]
    BY <2>1, <2>3, <2>4
  <2> QED
    BY <1>0, <1>13, <2>5 DEF Publish
<1>14. CASE WritePointer(j) \/ Point(j)
  <2>1. key[j] \in Keys /\ <<j, entry[j]>> \in Generations
    BY <1>1, <1>2, <1>14 DEF WritePointer, Point, Holding, Published, Generations
  <2>2. CASE WritePointer(j)
    BY <1>0, <2>2 DEF WritePointer
  <2>3. CASE Point(j)
    BY <1>0, <2>1, <2>3 DEF Point
  <2> QED
    BY <1>14, <2>2, <2>3
<1>15. CASE Collect(j)
  <2>1. CASE EndSave(j) /\ UNCHANGED <<disk, stuck>>
    BY <1>0, <1>1, <1>2, <1>15, <2>1 DEF Collect, EndSave, NextEntry, Unlock, Holding, Published
  <2>3. ASSUME NEW g \in DOMAIN disk[key[j]], stuck' = stuck \cup {g},
               UNCHANGED <<pc, lock, entry, disk, broken>>
        PROVE  TypeOK'
    BY <1>0, <1>15, <2>3 DEF Collect, Holding, Published
  <2>2. ASSUME NEW g, UNCHANGED <<pc, lock, entry, stuck, broken>>,
               disk' = [disk EXCEPT ![key[j]] = [h \in DOMAIN @ \ {g} |-> @[h]]]
        PROVE  TypeOK'
    <3> DEFINE k == key[j]
               D == [h \in DOMAIN disk[k] \ {g} |-> disk[k][h]]
    <3>1. disk' = [disk EXCEPT ![k] = D] /\ k \in Keys
      BY <1>2, <1>15, <2>2 DEF Collect, Holding, Published
    <3>2. DOMAIN D \subseteq Generations /\ D \in [DOMAIN D -> Trees]
      BY <3>1
    <3>3. \A h \in Keys : disk'[h] = IF h = k THEN D ELSE disk[h]
      BY <3>1
    <3> HIDE DEF D
    <3>4. /\ DOMAIN disk' = Keys
          /\ \A h \in Keys : DOMAIN disk'[h] \subseteq Generations
                             /\ disk'[h] \in [DOMAIN disk'[h] -> Trees]
      BY <3>1, <3>2, <3>3
    <3> QED
      BY <1>0, <1>15, <2>2, <3>4 DEF Collect
  <2> QED
    BY <1>15, <2>1, <2>2, <2>3 DEF Collect
<1>16. CASE Die(j)
  BY <1>0, <1>16 DEF Die
<1> QED
  BY <1>4, <1>5, <1>6, <1>7, <1>8, <1>9, <1>10, <1>11, <1>12, <1>13, <1>14, <1>15, <1>16
     DEF Step

-----------------------------------------------------------------------------
(* What a step of one job leaves alone.                                    *)

LEMMA OthersUntouched ==
    ASSUME TypeOK, NEW j \in Jobs, Step(j) \/ Die(j), NEW i \in Jobs, i # j
    PROVE  /\ cache' = cache
           /\ pc'[i] = pc[i] /\ entry'[i] = entry[i] /\ key'[i] = key[i]
           /\ source'[i] = source[i] /\ todo'[i] = todo[i] /\ copied'[i] = copied[i]
           /\ tree'[i] = tree[i] /\ staged'[i] = staged[i] /\ answer'[i] = answer[i]
<1> USE DEF TypeOK, Goto, NextEntry, local, store
<1>1. CASE RestoreEntry(j) \/ RestoresDone(j) \/ RestoreLocked(j) \/ RestoreSkipped(j)
  BY <1>1 DEF RestoreEntry, RestoresDone, RestoreLocked, RestoreSkipped
<1>2. CASE ReadLatest(j) \/ Restored(j)
  BY <1>2 DEF ReadLatest, Restored
<1>3. CASE \E f \in Files : CopyFile(j, f)
  BY <1>3 DEF CopyFile
<1>4. CASE Work(j)
  BY <1>4 DEF Work
<1>5. CASE SaveEntry(j) \/ SavesDone(j) \/ SaveLocked(j) \/ SaveSkipped(j)
  BY <1>5 DEF SaveEntry, SavesDone, SaveLocked, SaveSkipped
<1>6. CASE Publish(j) \/ WritePointer(j) \/ Point(j) \/ Collect(j) \/ Die(j)
  BY <1>6 DEF Publish, WritePointer, Point, Collect, EndSave, Die
<1> QED
  BY <1>1, <1>2, <1>3, <1>4, <1>5, <1>6 DEF Step

LEMMA StoreGuarded ==
    ASSUME TypeOK, NEW j \in Jobs, Step(j) \/ Die(j), NEW k \in Keys,
           ~(pc[j] \in Writing /\ k = key[j])
    PROVE  disk'[k] = disk[k] /\ latest'[k] = latest[k]
<1> USE DEF TypeOK, store
<1>1. CASE RestoreEntry(j) \/ RestoresDone(j) \/ RestoreLocked(j) \/ RestoreSkipped(j)
           \/ ReadLatest(j) \/ (\E f \in Files : CopyFile(j, f)) \/ Restored(j) \/ Work(j)
  BY <1>1 DEF RestoreEntry, RestoresDone, RestoreLocked, RestoreSkipped, ReadLatest,
              CopyFile, Restored, Work
<1>2. CASE SaveEntry(j) \/ SavesDone(j) \/ SaveLocked(j) \/ SaveSkipped(j) \/ Die(j)
  BY <1>2 DEF SaveEntry, SavesDone, SaveLocked, SaveSkipped, Die
<1>3. CASE Publish(j)
  BY <1>3 DEF Publish
<1>4. CASE WritePointer(j) \/ Point(j)
  BY <1>4 DEF WritePointer, Point, Writing, Published
<1>5. CASE Collect(j)
  BY <1>5 DEF Collect, Writing, Published
<1> QED
  BY <1>1, <1>2, <1>3, <1>4, <1>5 DEF Step

LEMMA PublishingSteps ==
    ASSUME NEW j \in Jobs, Step(j), pc[j] \in Writing
    PROVE  Publish(j) \/ WritePointer(j) \/ Point(j) \/ Collect(j)
BY DEF Step, RestoreEntry, RestoresDone, RestoreLocked, RestoreSkipped, ReadLatest, CopyFile,
       Restored, Work, SaveEntry, SavesDone, SaveLocked, SaveSkipped

\* Collecting drops generations other than the new one, or ends with the save.
LEMMA Collecting ==
    ASSUME TypeOK, NEW j \in Jobs, Collect(j), key[j] \in Keys
    PROVE  LET k == key[j] IN
           /\ pc[j] = "collect" /\ UNCHANGED <<latest, key, tree, staged>>
           /\ DOMAIN disk'[k] \subseteq DOMAIN disk[k]
           /\ <<j, entry[j]>> \in DOMAIN disk[k] => <<j, entry[j]>> \in DOMAIN disk'[k]
           /\ \A g \in DOMAIN disk'[k] : disk'[k][g] = disk[k][g]
           /\ \/ UNCHANGED <<pc, entry>>
              \/ pc'[j] = "save" /\ entry'[j] = entry[j] + 1
<1> DEFINE k == key[j]
<1>1. pc[j] = "collect" /\ UNCHANGED <<latest, key, tree, staged>>
  BY DEF Collect
<1>2. CASE UNCHANGED disk
  BY <1>1, <1>2 DEF Collect, EndSave, Goto, NextEntry, TypeOK
<1>3. ASSUME NEW g \in DOMAIN disk[k] \ {<<j, entry[j]>>}, UNCHANGED <<pc, lock, entry>>,
             disk' = [disk EXCEPT ![k] = [h \in DOMAIN @ \ {g} |-> @[h]]]
      PROVE  /\ DOMAIN disk'[k] \subseteq DOMAIN disk[k]
             /\ <<j, entry[j]>> \in DOMAIN disk[k] => <<j, entry[j]>> \in DOMAIN disk'[k]
             /\ \A h \in DOMAIN disk'[k] : disk'[k][h] = disk[k][h]
  <2>1. disk'[k] = [h \in DOMAIN disk[k] \ {g} |-> disk[k][h]]
    BY <1>3 DEF TypeOK
  <2> QED
    BY <1>3, <2>1
<1> QED
  BY <1>1, <1>2, <1>3 DEF Collect

\* The locks of other jobs stay theirs.
LEMMA LocksOfOthers ==
    ASSUME TypeOK, Exclusion, NEW j \in Jobs, Step(j) \/ Die(j),
           NEW i \in Jobs, i # j, NEW k \in Keys, lock[k] = i
    PROVE  lock'[k] = i
<1> USE NobodyAssumption DEF TypeOK, store, Lock, Unlock
<1>1. pc[j] \in Holding => lock[key[j]] = j
  BY DEF Exclusion
<1>2. CASE RestoreEntry(j) \/ RestoresDone(j) \/ RestoreLocked(j) \/ RestoreSkipped(j)
           \/ (\E f \in Files : CopyFile(j, f)) \/ Work(j)
  BY <1>2 DEF RestoreEntry, RestoresDone, RestoreLocked, RestoreSkipped, CopyFile, Work
<1>3. CASE ReadLatest(j) \/ Restored(j)
  BY <1>1, <1>3 DEF ReadLatest, Restored, Holding
<1>4. CASE SaveEntry(j) \/ SavesDone(j) \/ SaveLocked(j) \/ SaveSkipped(j)
  BY <1>4 DEF SaveEntry, SavesDone, SaveLocked, SaveSkipped
<1>5. CASE Publish(j) \/ WritePointer(j) \/ Point(j) \/ Collect(j) \/ Die(j)
  BY <1>1, <1>5 DEF Publish, WritePointer, Point, Collect, EndSave, Die, Holding
<1> QED
  BY <1>2, <1>3, <1>4, <1>5 DEF Step

-----------------------------------------------------------------------------
(* The conjuncts of the invariant, one after another.                      *)

LEMMA StepExcludes ==
    ASSUME TypeOK, Exclusion, NEW j \in Jobs, Step(j) \/ Die(j)
    PROVE  Exclusion'
<1>1. ASSUME NEW i \in Jobs, i # j
      PROVE  /\ pc'[i] \in Holding \cup Waiting => HasEntry(i)' /\ key'[i] \in Keys
             /\ pc'[i] \in Holding => lock'[key'[i]] = i
  BY <1>1, OthersUntouched, LocksOfOthers DEF Exclusion, HasEntry
<1>2. /\ pc'[j] \in Holding \cup Waiting => HasEntry(j)' /\ key'[j] \in Keys
      /\ pc'[j] \in Holding => lock'[key'[j]] = j
  <2> USE DEF TypeOK, Goto, NextEntry, local, store, Holding, Waiting, HasEntry
  <2>1. pc[j] \in Holding \cup Waiting => HasEntry(j) /\ key[j] \in Keys
    BY DEF Exclusion
  <2>2. pc[j] \in Holding => lock[key[j]] = j
    BY DEF Exclusion
  <2>3. CASE RestoreEntry(j) \/ SaveEntry(j)
    BY <2>3, KeyIsKey DEF RestoreEntry, SaveEntry
  <2>4. CASE RestoresDone(j) \/ SavesDone(j) \/ RestoreSkipped(j) \/ SaveSkipped(j) \/ Work(j) \/ Die(j)
    BY <2>4 DEF RestoresDone, SavesDone, RestoreSkipped, SaveSkipped, Work, Die
  <2>5. CASE RestoreLocked(j) \/ SaveLocked(j)
    BY <2>1, <2>5 DEF RestoreLocked, SaveLocked, Lock
  <2>6. CASE ReadLatest(j) \/ Restored(j)
    BY <2>1, <2>2, <2>6 DEF ReadLatest, Restored
  <2>7. CASE \E f \in Files : CopyFile(j, f)
    BY <2>1, <2>2, <2>7 DEF CopyFile
  <2>8. CASE Publish(j) \/ WritePointer(j) \/ Point(j) \/ Collect(j)
    BY <2>1, <2>2, <2>8 DEF Publish, WritePointer, Point, Collect, EndSave
  <2> QED
    BY <2>3, <2>4, <2>5, <2>6, <2>7, <2>8 DEF Step
<1> QED
  BY <1>1, <1>2 DEF Exclusion

LEMMA StepKeepsPointers ==
    ASSUME TypeOK, Exclusion, Staging, PointerNeverDangles, NEW j \in Jobs, Step(j) \/ Die(j)
    PROVE  PointerNeverDangles'
<1> SUFFICES ASSUME NEW k \in Keys PROVE latest'[k] = None \/ latest'[k] \in DOMAIN disk'[k]
  BY DEF PointerNeverDangles
<1>1. CASE ~(pc[j] \in Writing /\ k = key[j])
  BY <1>1, StoreGuarded DEF PointerNeverDangles
<1>2. CASE k = key[j] /\ Publish(j)
  BY <1>2 DEF PointerNeverDangles, Publish, TypeOK
<1>3. CASE k = key[j] /\ (WritePointer(j) \/ Point(j))
  BY <1>3 DEF WritePointer, Point, Staging, TypeOK, Published, PointerNeverDangles
<1>4. CASE k = key[j] /\ Collect(j)
  BY <1>4, Collecting DEF Staging
<1>5. CASE Die(j)
  BY <1>5 DEF Die, store, PointerNeverDangles
<1> QED
  BY <1>1, <1>2, <1>3, <1>4, <1>5, PublishingSteps

LEMMA StepKeepsFresh ==
    ASSUME TypeOK, Exclusion, Freshness, NEW j \in Jobs, Step(j) \/ Die(j)
    PROVE  Freshness'
<1> USE DEF Freshness, TypeOK
<1> SUFFICES ASSUME NEW n \in Jobs, NEW k \in Keys, NEW i \in 1..MaxEntries,
                    <<n, i>> \in DOMAIN disk'[k]
             PROVE  /\ pc'[n] \in Saving
                    /\ i < entry'[n] \/ (i = entry'[n] /\ pc'[n] \in Published \cup {"dead"})
  OBVIOUS
<1>1. \/ <<n, i>> \in DOMAIN disk[k]
      \/ Publish(j) /\ k = key[j] /\ n = j /\ i = entry[j]
  <2>1. CASE ~(pc[j] \in Writing /\ k = key[j])
    BY <2>1, StoreGuarded
  <2>2. CASE k = key[j] /\ (WritePointer(j) \/ Point(j) \/ Die(j))
    BY <2>2 DEF WritePointer, Point, Die, store
  <2>3. CASE k = key[j] /\ Publish(j)
    BY <2>3 DEF Publish
  <2>4. CASE k = key[j] /\ Collect(j)
    BY <2>4, Collecting
  <2> QED
    BY <2>1, <2>2, <2>3, <2>4, PublishingSteps
<1>2. CASE n # j
  BY <1>1, <1>2, OthersUntouched
<1>3. CASE n = j /\ Publish(j) /\ k = key[j] /\ i = entry[j]
  BY <1>3 DEF Publish, Goto, Saving
<1>4. CASE n = j /\ <<n, i>> \in DOMAIN disk[k]
  <2> USE DEF Goto, NextEntry, local, store, Saving
  <2>1. /\ pc[j] \in Saving
        /\ i < entry[j] \/ (i = entry[j] /\ pc[j] \in Published \cup {"dead"})
        /\ entry[j] \in Nat
    BY <1>4, BoundAssumption
  <2>2. CASE SaveEntry(j) \/ SavesDone(j) \/ SaveLocked(j) \/ SaveSkipped(j)
    BY <1>4, <2>1, <2>2 DEF SaveEntry, SavesDone, SaveLocked, SaveSkipped
  <2>3. CASE Publish(j) \/ WritePointer(j) \/ Point(j) \/ Die(j)
    BY <1>4, <2>1, <2>3 DEF Publish, WritePointer, Point, Die
  <2>5. CASE Collect(j)
    <3>1. pc[j] = "collect" /\ (\/ UNCHANGED <<pc, entry>>
                                \/ pc'[j] = "save" /\ entry'[j] = entry[j] + 1)
      BY <2>5 DEF Collect, EndSave
    <3>2. CASE UNCHANGED <<pc, entry>>
      BY <1>4, <2>1, <3>2
    <3>3. CASE pc'[j] = "save" /\ entry'[j] = entry[j] + 1
      <4>1. i \in Nat /\ i < entry[j] + 1
        BY <2>1, BoundAssumption
      <4>2. i < entry'[j] /\ pc'[j] \in Saving
        BY <3>3, <4>1
      <4> HIDE DEF Freshness, TypeOK
      <4> QED
        BY <1>4, <4>2
    <3> QED
      BY <3>1, <3>2, <3>3
  <2>4. ~(RestoreEntry(j) \/ RestoresDone(j) \/ RestoreLocked(j) \/ RestoreSkipped(j)
           \/ ReadLatest(j) \/ (\E f \in Files : CopyFile(j, f)) \/ Restored(j) \/ Work(j))
    BY <2>1 DEF RestoreEntry, RestoresDone, RestoreLocked, RestoreSkipped, ReadLatest,
                CopyFile, Restored, Work
  <2> QED
    BY <2>2, <2>3, <2>4, <2>5, <1>4 DEF Step
<1> QED
  BY <1>1, <1>2, <1>3, <1>4

\* While another job is inside its lock, the generations it copies from or adds to stay.
LEMMA LockedKeyUntouched ==
    ASSUME TypeOK, Exclusion, NEW j \in Jobs, Step(j) \/ Die(j),
           NEW i \in Jobs, i # j, pc[i] \in Holding
    PROVE  /\ pc'[i] = pc[i] /\ key'[i] = key[i] /\ key[i] \in Keys
           /\ disk'[key[i]] = disk[key[i]] /\ latest'[key[i]] = latest[key[i]]
<1>1. key[i] \in Keys /\ ~(pc[j] \in Writing /\ key[i] = key[j])
  BY DEF Exclusion, Holding
<1> QED
  BY <1>1, OthersUntouched, StoreGuarded

LEMMA StepKeepsCopying ==
    ASSUME TypeOK, Exclusion, Copying, NEW j \in Jobs, Step(j) \/ Die(j)
    PROVE  Copying'
<1> USE DEF Copying, TypeOK
<1> SUFFICES ASSUME NEW i \in Jobs, pc'[i] = "copy"
             PROVE  /\ source'[i] = latest'[key'[i]] /\ source'[i] \in DOMAIN disk'[key'[i]]
                    /\ \A f \in Files :
                          f \notin todo'[i] => copied'[i][f] = disk'[key'[i]][source'[i]][f]
  OBVIOUS
<1>1. CASE i # j
  BY <1>1, OthersUntouched, LockedKeyUntouched DEF Holding
<1>2. CASE i = j /\ ReadLatest(j)
  <2>1. key[j] \in Keys /\ latest[key[j]] \in DOMAIN disk[key[j]]
    BY <1>2 DEF ReadLatest, Exclusion, Holding, Goto
  <2>2. /\ source'[j] = latest[key[j]] /\ copied'[j] = NoFiles
        /\ todo'[j] = {f \in Files : disk[key[j]][latest[key[j]]][f] # None}
        /\ UNCHANGED <<key, disk, latest>>
    BY <1>2, <2>1 DEF ReadLatest, Present, store
  <2> QED
    BY <1>2, <2>1, <2>2 DEF NoFiles
<1>3. ASSUME i = j, NEW f \in Files, CopyFile(j, f)
      PROVE  /\ source'[i] = latest'[key'[i]] /\ source'[i] \in DOMAIN disk'[key'[i]]
             /\ \A g \in Files :
                   g \notin todo'[i] => copied'[i][g] = disk'[key'[i]][source'[i]][g]
  <2>1. /\ pc[j] = "copy" /\ copied'[j] = [copied[j] EXCEPT ![f] = disk[key[j]][source[j]][f]]
        /\ todo'[j] = todo[j] \ {f} /\ UNCHANGED <<key, source, disk, latest>>
    BY <1>3 DEF CopyFile, store
  <2> QED
    BY <1>3, <2>1 DEF Trees
<1>4. CASE i = j /\ ~ReadLatest(j) /\ ~(\E f \in Files : CopyFile(j, f))
  BY <1>4 DEF Step, RestoreEntry, RestoresDone, RestoreLocked, RestoreSkipped, Restored, Work,
     SaveEntry, SavesDone, SaveLocked, SaveSkipped, Publish, WritePointer, Point, Collect, Die,
     EndSave, Goto, NextEntry
<1> QED
  BY <1>1, <1>2, <1>3, <1>4

LEMMA StepKeepsStaging ==
    ASSUME TypeOK, Exclusion, Staging, NEW j \in Jobs, Step(j) \/ Die(j)
    PROVE  Staging'
<1> USE DEF Staging, TypeOK
<1> DEFINE g(i) == <<i, entry[i]>>
           Kept(i) == /\ pc[i] \in {"save_wait", "publish"} => staged[i] = tree[i]
                      /\ pc[i] \in Published => g(i) \in DOMAIN disk[key[i]]
                      /\ pc[i] \in {"point", "replace"} => disk[key[i]][g(i)] = tree[i]
                      /\ pc[i] = "collect" => latest[key[i]] = g(i)
<1>1. ASSUME NEW i \in Jobs, i # j PROVE Kept(i)'
  BY <1>1, OthersUntouched, LockedKeyUntouched DEF Holding
<1>2. Kept(j)'
  <2> USE DEF Goto, NextEntry, local, store
  <2>1. pc[j] \in Holding => key[j] \in Keys
    BY DEF Exclusion
  <2>2. CASE RestoreEntry(j) \/ RestoresDone(j) \/ RestoreLocked(j) \/ RestoreSkipped(j)
             \/ ReadLatest(j) \/ (\E f \in Files : CopyFile(j, f)) \/ Restored(j) \/ Work(j)
    BY <2>2 DEF RestoreEntry, RestoresDone, RestoreLocked, RestoreSkipped, ReadLatest,
                CopyFile, Restored, Work
  <2>3. CASE SaveEntry(j) \/ SavesDone(j) \/ SaveLocked(j) \/ SaveSkipped(j) \/ Die(j)
    BY <2>3 DEF SaveEntry, SavesDone, SaveLocked, SaveSkipped, Die
  <2>4. CASE Publish(j)
    BY <2>1, <2>4 DEF Publish, Holding
  <2>5. CASE WritePointer(j) \/ Point(j)
    BY <2>1, <2>5 DEF WritePointer, Point, Holding, Published
  <2>6. CASE Collect(j)
    BY <2>1, <2>6, Collecting DEF Collect, Holding
  <2> QED
    BY <2>2, <2>3, <2>4, <2>5, <2>6 DEF Step
<1> QED
  BY <1>1, <1>2

-----------------------------------------------------------------------------
(* The theorems.                                                           *)

LEMMA InitIsConsistent == ASSUME Init PROVE IInv
<1>1. TypeOK
  BY InitIsTyped
<1>2. Exclusion /\ Copying /\ Staging
  BY DEF Init, Exclusion, Copying, Staging, Holding, Waiting
<1>3. PointerNeverDangles /\ Freshness
  BY DEF Init, PointerNeverDangles, Freshness
<1> QED
  BY <1>1, <1>2, <1>3 DEF IInv

LEMMA NextIsConsistent == ASSUME IInv, [Next]_vars PROVE IInv'
<1>1. ASSUME NEW j \in Jobs, Step(j) \/ Die(j) PROVE IInv'
  BY <1>1, StepIsTyped, StepExcludes, StepKeepsPointers, StepKeepsFresh, StepKeepsCopying,
     StepKeepsStaging DEF IInv
<1>2. CASE UNCHANGED vars
  <2> USE <1>2 DEF vars, local, store, IInv
  <2>1. TypeOK'
    BY DEF TypeOK, LitterTypeOK
  <2>2. Exclusion' /\ Copying' /\ Staging'
    BY DEF Exclusion, Copying, Staging, HasEntry
  <2>3. PointerNeverDangles' /\ Freshness'
    BY DEF PointerNeverDangles, Freshness
  <2> QED
    BY <2>1, <2>2, <2>3
<1> QED
  BY <1>1, <1>2 DEF Next

LEMMA Consistent == Spec => []IInv
BY InitIsConsistent, NextIsConsistent, PTL DEF Spec

\* Every variable of the store and of its jobs keeps its type.
THEOREM StoreIsTyped == Spec => []TypeOK
<1>1. IInv => TypeOK
  BY DEF IInv
<1> QED
  BY <1>1, Consistent, PTL

\* What has been saved once can always be restored, whichever jobs race, time out or die.
THEOREM PointersAreLive == Spec => []PointerNeverDangles
<1>1. IInv => PointerNeverDangles
  BY DEF IInv
<1> QED
  BY <1>1, Consistent, PTL

-----------------------------------------------------------------------------
(* What is left on the disk.                                               *)

\* Somebody has published under k and has not collected yet.
Publishing(k) == \E j \in Jobs : pc[j] \in Published /\ key[j] = k

\* One generation per key, one for each publication under it that was cut short since, and
\* one for the publication under way.
Bound(k) == 1 + Cardinality(broken[k]) + (IF Publishing(k) THEN 1 ELSE 0)

Small ==
    \A k \in Keys :
        /\ IsFiniteSet(broken[k]) /\ \A j \in broken[k] : pc[j] = "dead"
        /\ IsFiniteSet(DOMAIN disk[k])
        /\ Cardinality(DOMAIN disk[k] \ stuck) <= Bound(k)

\* A staged directory or a pointer not yet in place is of a save under way, or of the one
\* its job was killed in.
Litter ==
    \A j \in Jobs :
        /\ staged[j] # None => pc[j] \in {"save_wait", "publish", "dead"}
        /\ \A k \in Keys, i \in 1..MaxEntries :
              <<j, i>> \in pointers[k] =>
                  /\ pc[j] \in {"replace", "dead"} /\ staged[j] = None
                  /\ k = key[j] /\ i = entry[j]

LEMMA InitIsSmall == ASSUME Init PROVE Small
<1>1. \A k \in Keys : broken[k] = {} /\ DOMAIN disk[k] = {}
  BY DEF Init
<1>2. IsFiniteSet({}) /\ Cardinality({}) = 0
  BY FS_EmptySet
<1>3. \A k \in Keys : Bound(k) \in {1, 2}
  BY <1>1, <1>2 DEF Bound
<1>4. \A k \in Keys : DOMAIN disk[k] \ stuck = {}
  BY <1>1
<1>5. \A k \in Keys : Cardinality(DOMAIN disk[k] \ stuck) <= Bound(k)
  BY <1>2, <1>3, <1>4
<1> QED
  BY <1>1, <1>2, <1>5 DEF Small

\* The steps of a job in a publication, and its death, as far as the litter goes.
LEMMA StepKeepsLitter ==
    ASSUME TypeOK, Litter, NEW j \in Jobs, Step(j) \/ Die(j)
    PROVE  Litter'
<1> USE DEF Litter, TypeOK, LitterTypeOK
<1> DEFINE Clean(n) ==
        /\ staged[n] # None => pc[n] \in {"save_wait", "publish", "dead"}
        /\ \A k \in Keys, i \in 1..MaxEntries :
              <<n, i>> \in pointers[k] =>
                  /\ pc[n] \in {"replace", "dead"} /\ staged[n] = None
                  /\ k = key[n] /\ i = entry[n]
<1>1. \A n \in Jobs : n # j =>
          \A k \in Keys, i \in 1..MaxEntries : <<n, i>> \in pointers'[k] => <<n, i>> \in pointers[k]
  <2>1. CASE WritePointer(j) \/ Point(j)
    BY <2>1 DEF WritePointer, Point
  <2>2. CASE ~(WritePointer(j) \/ Point(j))
    BY <2>2 DEF Step, RestoreEntry, RestoresDone, RestoreLocked, RestoreSkipped, ReadLatest,
                CopyFile, Restored, Work, SaveEntry, SavesDone, SaveLocked, SaveSkipped,
                Publish, Collect, Die, store
  <2> QED
    BY <2>1, <2>2
<1>2. ASSUME NEW n \in Jobs, n # j PROVE Clean(n)'
  BY <1>1, <1>2, OthersUntouched
<1>3. Clean(j)'
  <2> USE DEF Goto, NextEntry, local, store
  <2>1. CASE RestoreEntry(j) \/ RestoresDone(j) \/ RestoreLocked(j) \/ RestoreSkipped(j)
             \/ ReadLatest(j) \/ (\E f \in Files : CopyFile(j, f)) \/ Restored(j) \/ Work(j)
    BY <2>1 DEF RestoreEntry, RestoresDone, RestoreLocked, RestoreSkipped, ReadLatest,
                CopyFile, Restored, Work
  <2>2. CASE SaveEntry(j) \/ SavesDone(j) \/ SaveLocked(j) \/ SaveSkipped(j)
    BY <2>2 DEF SaveEntry, SavesDone, SaveLocked, SaveSkipped
  <2>3. CASE Publish(j)
    BY <2>3 DEF Publish
  <2>4. CASE WritePointer(j)
    <3>1. /\ pc[j] = "point" /\ pc'[j] = "replace" /\ staged'[j] = None
          /\ UNCHANGED <<key, entry>>
          /\ \A k \in Keys : pointers'[k] = IF k = key[j] THEN pointers[k] \cup {<<j, entry[j]>>}
                                                          ELSE pointers[k]
      BY <2>4 DEF WritePointer
    <3>2. \A k \in Keys, i \in 1..MaxEntries : <<j, i>> \notin pointers[k]
      BY <3>1
    <3>3. ASSUME NEW k \in Keys, NEW i \in 1..MaxEntries, <<j, i>> \in pointers'[k]
          PROVE  k = key[j] /\ i = entry[j]
      <4> HIDE DEF TypeOK, LitterTypeOK, Litter
      <4> DEFINE p == <<j, i>>
                 q == <<j, entry[j]>>
      <4>1. /\ p \notin pointers[k] /\ p \in pointers'[k]
            /\ pointers'[k] = IF k = key[j] THEN pointers[k] \cup {q} ELSE pointers[k]
        BY <3>1, <3>2, <3>3
      <4>2. k = key[j] /\ p = q
        <5> HIDE DEF p, q
        <5> QED
          BY <4>1
      <4> QED
        BY <4>2
    <3> HIDE DEF TypeOK, LitterTypeOK, Litter
    <3> QED
      BY <3>1, <3>3
  <2>7. CASE Point(j)
    <3>1. /\ pc[j] = "replace" /\ staged'[j] = None /\ UNCHANGED <<key, entry>>
          /\ \A k \in Keys : pointers'[k] = IF k = key[j] THEN pointers[k] \ {<<j, entry[j]>>}
                                                          ELSE pointers[k]
      BY <2>7 DEF Point
    <3>2. \A k \in Keys, i \in 1..MaxEntries :
              <<j, i>> \in pointers[k] => k = key[j] /\ i = entry[j]
      OBVIOUS
    <3> HIDE DEF TypeOK, LitterTypeOK, Litter
    <3> QED
      BY <3>1, <3>2
  <2>5. CASE Collect(j)
    BY <2>5 DEF Collect, EndSave
  <2>6. CASE Die(j)
    BY <2>6 DEF Die
  <2> QED
    BY <2>1, <2>2, <2>3, <2>4, <2>5, <2>6, <2>7 DEF Step
<1> QED
  BY <1>2, <1>3

\* The dead stay dead, and only a publication that ends forgets the ones cut short.
LEMMA BrokenAre ==
    ASSUME TypeOK, Small, NEW j \in Jobs, Step(j) \/ Die(j), NEW k \in Keys
    PROVE  /\ \A n \in broken'[k] : pc'[n] = "dead"
           /\ \/ broken'[k] = broken[k] /\ ~(Die(j) /\ pc[j] \in Published /\ k = key[j])
              \/ broken'[k] = broken[k] \cup {j} /\ Die(j) /\ pc[j] \in Published /\ k = key[j]
              \/ broken'[k] = {} /\ Collect(j) /\ EndSave(j) /\ k = key[j]
<1> USE DEF TypeOK, LitterTypeOK, Small
<1>1. pc[j] # "dead" /\ \A n \in broken[k] : n # j /\ n \in Jobs /\ pc'[n] = "dead"
  <2>1. pc[j] # "dead"
    BY DEF Step, RestoreEntry, RestoresDone, RestoreLocked, RestoreSkipped, ReadLatest,
           CopyFile, Restored, Work, SaveEntry, SavesDone, SaveLocked, SaveSkipped,
           Publish, WritePointer, Point, Collect, Die
  <2>2. \A n \in broken[k] : n \in Jobs /\ pc[n] = "dead"
    OBVIOUS
  <2> HIDE DEF TypeOK, Small
  <2> QED
    BY <2>1, <2>2, OthersUntouched
<1>2. CASE Die(j)
  BY <1>1, <1>2 DEF Die, Goto
<1>3. CASE Collect(j) /\ ~Die(j)
  <2>1. CASE EndSave(j)
    BY <1>1, <1>3, <2>1 DEF EndSave
  <2>2. CASE broken' = broken
    BY <1>1, <1>3, <2>2
  <2> QED
    BY <1>3, <2>1, <2>2 DEF Collect
<1>4. CASE ~Collect(j) /\ ~Die(j)
  <2>1. broken' = broken
    BY <1>4 DEF Step, RestoreEntry, RestoresDone, RestoreLocked, RestoreSkipped, ReadLatest,
                CopyFile, Restored, Work, SaveEntry, SavesDone, SaveLocked, SaveSkipped,
                Publish, WritePointer, Point, store
  <2> QED
    BY <1>1, <1>4, <2>1
<1> QED
  BY <1>2, <1>3, <1>4

\* Generations only get stuck.
LEMMA StuckGrows ==
    ASSUME TypeOK, NEW j \in Jobs, Step(j) \/ Die(j)
    PROVE  stuck \subseteq stuck'
BY DEF Step, RestoreEntry, RestoresDone, RestoreLocked, RestoreSkipped, ReadLatest, CopyFile,
       Restored, Work, SaveEntry, SavesDone, SaveLocked, SaveSkipped, Publish, WritePointer,
       Point, Collect, Die, store

\* What happens to the generations of a key somebody publishes under.
LEMMA PublisherKeepsSmall ==
    ASSUME TypeOK, Exclusion, Small, NEW j \in Jobs, Step(j) \/ Die(j),
           pc[j] \in Writing, NEW k \in Keys, k = key[j]
    PROVE  /\ IsFiniteSet(broken'[k]) /\ IsFiniteSet(DOMAIN disk'[k])
           /\ Cardinality(DOMAIN disk'[k] \ stuck') <= Bound(k)'
<1> DEFINE D == DOMAIN disk[k] \ stuck
           E == DOMAIN disk'[k] \ stuck'
           g == <<j, entry[j]>>
           n == Cardinality(broken[k])
<1>1. k = key[j] /\ lock[k] = j
  BY DEF Exclusion, Holding, Writing
<1>2. /\ IsFiniteSet(DOMAIN disk[k]) /\ IsFiniteSet(D) /\ Cardinality(D) \in Nat
      /\ IsFiniteSet(broken[k]) /\ n \in Nat
      /\ Cardinality(D) <= 1 + n + (IF Publishing(k) THEN 1 ELSE 0)
  <2>1. IsFiniteSet(DOMAIN disk[k]) /\ IsFiniteSet(broken[k])
    BY DEF Small
  <2>2. IsFiniteSet(D)
    BY <2>1, FS_Subset
  <2> QED
    BY <2>1, <2>2, FS_CardinalityType DEF Small, Bound
<1>3. stuck \subseteq stuck'
  BY StuckGrows
<1>4. CASE Publish(j)
  <2>1. ~Publishing(k)
    BY <1>1, <1>4 DEF Publishing, Publish, Exclusion, Holding, Published
  <2>2. /\ pc'[j] = "point" /\ key'[j] = k /\ broken' = broken
        /\ DOMAIN disk'[k] = DOMAIN disk[k] \cup {g} /\ E \subseteq D \cup {g}
    BY <1>1, <1>4 DEF Publish, Goto, TypeOK
  <2>3. Publishing(k)'
    BY <2>2 DEF Publishing, Published
  <2>4. IsFiniteSet(DOMAIN disk[k] \cup {g})
    BY <1>2, FS_AddElement
  <2>5. /\ IsFiniteSet(D \cup {g}) /\ Cardinality(D \cup {g}) \in Nat
        /\ Cardinality(D \cup {g}) <= Cardinality(D) + 1
    <3>1. /\ IsFiniteSet(D \cup {g})
          /\ Cardinality(D \cup {g}) = IF g \in D THEN Cardinality(D) ELSE Cardinality(D) + 1
      BY <1>2, FS_AddElement
    <3> HIDE DEF D, g
    <3> QED
      BY <1>2, <3>1, FS_CardinalityType
  <2>6. Cardinality(E) <= Cardinality(D \cup {g}) /\ Cardinality(E) \in Nat
    <3> HIDE DEF D, E, g
    <3> QED
      BY <2>2, <2>5, FS_Subset, FS_CardinalityType
  <2> HIDE DEF D, E
  <2>7. Cardinality(E) <= Bound(k)'
    BY <1>2, <2>1, <2>2, <2>3, <2>5, <2>6 DEF Bound
  <2> QED
    BY <1>2, <2>2, <2>4, <2>7 DEF E
<1>5. CASE WritePointer(j) \/ Point(j)
  <2>1. /\ pc'[j] \in Published /\ key'[j] = k /\ broken' = broken
        /\ pc[j] \in Published /\ disk' = disk /\ stuck' = stuck
    BY <1>5 DEF WritePointer, Point, Goto, TypeOK, local, Published
  <2>2. Publishing(k)'
    BY <2>1 DEF Publishing
  <2>3. Cardinality(E) <= Bound(k)'
    <3> HIDE DEF D
    <3>1. E = D
      BY <2>1 DEF D
    <3> HIDE DEF E
    <3> QED
      BY <1>2, <2>1, <2>2, <3>1 DEF Bound
  <2> QED
    BY <1>2, <2>1, <2>3
<1>6. CASE Collect(j) /\ ~EndSave(j)
  <2>1. /\ pc'[j] = "collect" /\ key'[j] = k /\ DOMAIN disk'[k] \subseteq DOMAIN disk[k]
        /\ broken' = broken
    BY <1>1, <1>6, Collecting DEF Collect
  <2>2. Publishing(k)'
    BY <2>1 DEF Publishing, Published
  <2>3. IsFiniteSet(DOMAIN disk'[k])
    BY <1>2, <2>1, FS_Subset
  <2>4. Cardinality(E) <= Cardinality(D) /\ Cardinality(E) \in Nat
    <3>1. E \subseteq D
      BY <1>3, <2>1
    <3> HIDE DEF D, E
    <3> QED
      BY <1>2, <3>1, FS_Subset, FS_CardinalityType
  <2>5. Cardinality(E) <= Bound(k)'
    <3> HIDE DEF D, E
    <3> QED
      BY <1>2, <2>1, <2>2, <2>4 DEF Bound
  <2> QED
    BY <1>2, <2>1, <2>3, <2>5
<1>7. CASE Collect(j) /\ EndSave(j)
  <2>1. disk' = disk /\ E \subseteq {g} /\ broken'[k] = {}
    <3>1. pc' # pc /\ broken'[k] = {}
      BY <1>1, <1>7 DEF Collect, EndSave, Goto, TypeOK, LitterTypeOK
    <3> QED
      BY <1>1, <1>7, <3>1 DEF Collect
  <2>2. IsFiniteSet({g}) /\ Cardinality({g}) = 1 /\ IsFiniteSet({}) /\ Cardinality({}) = 0
    BY FS_Singleton, FS_EmptySet
  <2>3. Cardinality(E) <= 1 /\ Cardinality(E) \in Nat
    <3> HIDE DEF E, g
    <3> QED
      BY <2>1, <2>2, FS_Subset, FS_CardinalityType
  <2>4. Cardinality(E) <= Bound(k)'
    <3> HIDE DEF E
    <3> QED
      BY <2>1, <2>2, <2>3 DEF Bound
  <2> QED
    BY <1>2, <2>1, <2>2, <2>4
<1>8. CASE Die(j)
  <2>1. disk' = disk /\ stuck' = stuck
    BY <1>8 DEF Die
  <2>2. CASE pc[j] \in Published
    <3>1. j \notin broken[k] /\ broken'[k] = broken[k] \cup {j}
      BY <1>1, <1>8, <2>2 DEF Die, TypeOK, LitterTypeOK, Small
    <3>2. IsFiniteSet(broken'[k]) /\ Cardinality(broken'[k]) = n + 1
      BY <1>2, <3>1, FS_AddElement
    <3>3. Cardinality(E) <= Bound(k)'
      <4>1. E = D
        BY <2>1
      <4> HIDE DEF D, E, n
      <4> QED
        BY <1>2, <3>2, <4>1 DEF Bound
    <3> QED
      BY <1>2, <2>1, <3>2, <3>3
  <2>3. CASE pc[j] = "publish"
    <3>1. ~Publishing(k)
      BY <1>1, <2>3 DEF Publishing, Exclusion, Holding, Published
    <3>2. broken' = broken
      BY <1>8, <2>3 DEF Die, Published
    <3>3. Cardinality(E) <= Bound(k)'
      <4>1. E = D
        BY <2>1
      <4> HIDE DEF D, E
      <4> QED
        BY <1>2, <3>1, <3>2, <4>1 DEF Bound
    <3> QED
      BY <1>2, <2>1, <3>2, <3>3
  <2> QED
    BY <2>2, <2>3 DEF Writing
<1> QED
  BY <1>4, <1>5, <1>6, <1>7, <1>8, PublishingSteps

LEMMA StepKeepsSmall ==
    ASSUME TypeOK, Exclusion, Small, NEW j \in Jobs, Step(j) \/ Die(j)
    PROVE  Small'
<1>1. ASSUME NEW k \in Keys, ~(pc[j] \in Writing /\ k = key[j])
      PROVE  /\ IsFiniteSet(broken'[k]) /\ IsFiniteSet(DOMAIN disk'[k])
             /\ Cardinality(DOMAIN disk'[k] \ stuck') <= Bound(k)'
  <2>1. disk'[k] = disk[k]
    BY <1>1, StoreGuarded
  <2>2. Publishing(k) => Publishing(k)'
    BY <1>1, OthersUntouched DEF Publishing, Writing
  <2>3. broken'[k] = broken[k]
    BY <1>1, BrokenAre DEF Collect, Writing, Published
  <2>4. /\ IsFiniteSet(broken[k]) /\ Cardinality(broken[k]) \in Nat
        /\ IsFiniteSet(DOMAIN disk[k]) /\ IsFiniteSet(DOMAIN disk[k] \ stuck)
        /\ Cardinality(DOMAIN disk[k] \ stuck) <= Bound(k)
    BY FS_CardinalityType, FS_Subset DEF Small
  <2>5. DOMAIN disk'[k] \ stuck' \subseteq DOMAIN disk[k] \ stuck
    BY <2>1, StuckGrows
  <2>6. /\ Cardinality(DOMAIN disk'[k] \ stuck') <= Cardinality(DOMAIN disk[k] \ stuck)
        /\ Cardinality(DOMAIN disk'[k] \ stuck') \in Nat
        /\ Cardinality(DOMAIN disk[k] \ stuck) \in Nat
    BY <2>4, <2>5, FS_Subset, FS_CardinalityType
  <2> QED
    BY <2>1, <2>2, <2>3, <2>4, <2>6 DEF Bound
<1>2. \A k \in Keys : \A n \in broken'[k] : pc'[n] = "dead"
  BY BrokenAre
<1> QED
  BY <1>1, <1>2, PublisherKeepsSmall DEF Small

\* However many saves race and whichever of them are killed, a key that nobody has locked
\* has one generation beside those that cannot be removed, and one more for every
\* publication cut short since the last one that ended; what lies in .tmp, and every pointer
\* not in place, is what a killed job has left, one thing for each at most.
THEOREM LitterIsExplained == Spec => []LitterIsOfKills
<1>1. Init => Small /\ Litter
  BY InitIsSmall DEF Init, Litter
<1>2. IInv /\ Small /\ Litter /\ [Next]_vars => Small' /\ Litter'
  <2> SUFFICES ASSUME IInv, Small, Litter, [Next]_vars PROVE Small' /\ Litter'
    OBVIOUS
  <2>1. CASE UNCHANGED vars
    BY <2>1 DEF vars, local, store, Small, Bound, Publishing, Litter
  <2>2. CASE Next
    BY <2>2, StepKeepsSmall, StepKeepsLitter DEF Next, IInv
  <2> QED
    BY <2>1, <2>2
<1>3. IInv /\ Small /\ Litter => LitterIsOfKills
  <2> SUFFICES ASSUME IInv, Small, Litter PROVE LitterIsOfKills
    OBVIOUS
  <2>1. ASSUME NEW k \in Keys, lock[k] = NoJob
        PROVE  Cardinality(DOMAIN disk[k] \ stuck) <= 1 + Cardinality(broken[k])
    <3>1. ~Publishing(k)
      BY <2>1, NobodyAssumption DEF Publishing, IInv, Exclusion, Holding
    <3>2. Cardinality(broken[k]) \in Nat
      BY FS_CardinalityType DEF Small
    <3> QED
      BY <3>1, <3>2 DEF Small, Bound
  <2>2. ASSUME NEW j \in Jobs
        PROVE  /\ staged[j] # None =>
                      pc[j] \in {"save_wait", "publish", "dead"} /\ Unfinished(j) = {}
               /\ Unfinished(j) # {} => pc[j] \in {"replace", "dead"}
               /\ \A p, q \in Unfinished(j) : p = q
    <3>1. ASSUME NEW p \in Unfinished(j)
          PROVE  pc[j] \in {"replace", "dead"} /\ staged[j] = None /\ p = <<key[j], entry[j]>>
      <4>1. /\ p[1] \in Keys /\ p[2] \in 1..MaxEntries /\ p = <<p[1], p[2]>>
            /\ <<j, p[2]>> \in pointers[p[1]]
        BY DEF Unfinished
      <4> QED
        BY <4>1 DEF Litter
    <3>2. staged[j] # None => pc[j] \in {"save_wait", "publish", "dead"}
      BY DEF Litter
    <3> QED
      BY <3>1, <3>2
  <2> QED
    BY <2>1, <2>2 DEF LitterIsOfKills
<1> QED
  BY <1>1, <1>2, <1>3, Consistent, PTL DEF Spec

-----------------------------------------------------------------------------
(* The store implements one register per key.                              *)

Value == [k \in Keys |-> IF latest[k] \in DOMAIN disk[k] THEN disk[k][latest[k]] ELSE None]

LEMMA InitIsRegisterInit == ASSUME Init PROVE Register!Init
<1>1. NoFiles \in Trees
  BY DEF NoFiles, Trees, Versions
<1> QED
  BY <1>1 DEF Init, Register!Init

\* Only the pointer changes what a key offers.
LEMMA ValueKept ==
    ASSUME IInv, NEW j \in Jobs, Step(j) \/ Die(j), ~Point(j)
    PROVE  Value' = Value
<1> USE DEF IInv, TypeOK
<1> SUFFICES ASSUME NEW k \in Keys
             PROVE  (IF latest'[k] \in DOMAIN disk'[k] THEN disk'[k][latest'[k]] ELSE None)
                    = (IF latest[k] \in DOMAIN disk[k] THEN disk[k][latest[k]] ELSE None)
  BY DEF Value
<1>1. CASE ~(pc[j] \in Writing /\ k = key[j])
  BY <1>1, StoreGuarded
<1>2. CASE k = key[j] /\ Publish(j)
  <2>1. /\ entry[j] \in 1..MaxEntries /\ pc[j] = "publish"
        /\ disk'[k] = [h \in DOMAIN disk[k] \cup {<<j, entry[j]>>} |->
                          IF h = <<j, entry[j]>> THEN staged[j] ELSE disk[k][h]]
        /\ latest' = latest
    BY <1>2, EntryIsConfig DEF Publish, Exclusion, Holding
  <2>2. <<j, entry[j]>> \notin DOMAIN disk[k]
    <3> SUFFICES ASSUME <<j, entry[j]>> \in DOMAIN disk[k] PROVE FALSE
      OBVIOUS
    <3>1. entry[j] < entry[j] \/ pc[j] \in Published \cup {"dead"}
      BY <2>1 DEF Freshness
    <3> QED
      BY <2>1, <3>1
  <2>3. latest[k] = None \/ latest[k] \in DOMAIN disk[k]
    BY DEF PointerNeverDangles
  <2>4. latest[k] # <<j, entry[j]>>
    <3>1. <<j, entry[j]>> \in Generations /\ None \notin Generations
      BY <2>1, NobodyAssumption DEF Generations
    <3> QED
      BY <2>2, <2>3, <3>1
  <2>5. \A h : h # <<j, entry[j]>> => (h \in DOMAIN disk'[k] <=> h \in DOMAIN disk[k])
                                    /\ (h \in DOMAIN disk[k] => disk'[k][h] = disk[k][h])
    BY <2>1
  <2> HIDE DEF TypeOK, IInv
  <2> QED
    BY <2>1, <2>4, <2>5
<1>3. CASE k = key[j] /\ Collect(j)
  <2>1. /\ pc[j] = "collect" /\ latest' = latest
        /\ <<j, entry[j]>> \in DOMAIN disk[k] => <<j, entry[j]>> \in DOMAIN disk'[k]
        /\ \A g \in DOMAIN disk'[k] : disk'[k][g] = disk[k][g]
    BY <1>3, Collecting
  <2>2. latest[k] = <<j, entry[j]>> /\ <<j, entry[j]>> \in DOMAIN disk[k]
    BY <1>3, <2>1 DEF Staging
  <2> HIDE DEF TypeOK, IInv
  <2> QED
    BY <2>1, <2>2
<1>4. CASE Die(j) \/ WritePointer(j)
  BY <1>4 DEF Die, WritePointer
<1> QED
  BY <1>1, <1>2, <1>3, <1>4, PublishingSteps

\* A save takes effect when the pointer is replaced.
LEMMA PointIsSave ==
    ASSUME IInv, NEW j \in Jobs, Point(j)
    PROVE  Value' = [Value EXCEPT ![key[j]] = tree[j]] /\ key[j] \in Keys
<1> DEFINE k == key[j]
           g == <<j, entry[j]>>
<1>1. k \in Keys /\ g \in DOMAIN disk[k] /\ disk[k][g] = tree[j]
  BY DEF Point, IInv, Exclusion, Holding, Staging
<1>2. latest' = [latest EXCEPT ![k] = g] /\ disk' = disk /\ latest \in [Keys -> Generations \cup {None}]
  BY DEF Point, IInv, TypeOK
<1>3. \A h \in Keys : latest'[h] = IF h = k THEN g ELSE latest[h]
  BY <1>2
<1> QED
  BY <1>1, <1>2, <1>3 DEF Value

\* A restore takes effect when it ends: what it copied is the live generation, whole.
LEMMA RestoreIsRestore ==
    ASSUME IInv, NEW j \in Jobs, ReadLatest(j) \/ Restored(j), answer' # answer
    PROVE  answer' = [answer EXCEPT ![j] = <<key[j], Value[key[j]]>>] /\ key[j] \in Keys
<1>1. key[j] \in Keys
  BY DEF IInv, Exclusion, Holding, ReadLatest, Restored
<1>2. CASE ReadLatest(j)
  <2>1. latest[key[j]] \notin DOMAIN disk[key[j]] /\ answer' = [answer EXCEPT ![j] = <<key[j], None>>]
    BY <1>2 DEF ReadLatest
  <2> QED
    BY <1>1, <2>1 DEF Value
<1>3. CASE Restored(j)
  <2> DEFINE snapshot == disk[key[j]][latest[key[j]]]
  <2>1. /\ latest[key[j]] \in DOMAIN disk[key[j]]
        /\ \A f \in Files : copied[j][f] = snapshot[f]
        /\ answer' = [answer EXCEPT ![j] = <<key[j], copied[j]>>]
    BY <1>3 DEF Restored, IInv, Copying
  <2>2. copied[j] \in [Files -> Versions] /\ snapshot \in [Files -> Versions]
    BY <1>1, <2>1 DEF IInv, TypeOK, Trees
  <2>3. copied[j] = snapshot
    BY <2>1, <2>2
  <2>4. Value[key[j]] = snapshot
    BY <1>1, <2>1 DEF Value
  <2> QED
    BY <1>1, <2>1, <2>3, <2>4
<1> QED
  BY <1>2, <1>3

\* The steps that change a tree change one, and change nothing else a user of the store sees.
LEMMA TreesChangeAlone ==
    ASSUME IInv, NEW j \in Jobs, Step(j) \/ Die(j)
    PROVE  /\ tree' # tree => Work(j) \/ \E f \in Files : CopyFile(j, f)
           /\ answer' # answer => ReadLatest(j) \/ Restored(j)
           /\ tree' \in [Jobs -> Trees] /\ \A i \in Jobs : i # j => tree'[i] = tree[i]
<1>1. tree' \in [Jobs -> Trees] /\ \A i \in Jobs : i # j => tree'[i] = tree[i]
  BY StepIsTyped, OthersUntouched DEF IInv, TypeOK
<1>2. CASE RestoreEntry(j) \/ RestoresDone(j) \/ RestoreLocked(j) \/ RestoreSkipped(j)
           \/ ReadLatest(j) \/ Restored(j)
  BY <1>1, <1>2 DEF RestoreEntry, RestoresDone, RestoreLocked, RestoreSkipped, ReadLatest,
                    Restored, local
<1>3. CASE (\E f \in Files : CopyFile(j, f)) \/ Work(j)
  BY <1>1, <1>3 DEF CopyFile, Work
<1>4. CASE SaveEntry(j) \/ SavesDone(j) \/ SaveLocked(j) \/ SaveSkipped(j)
  BY <1>1, <1>4 DEF SaveEntry, SavesDone, SaveLocked, SaveSkipped, local
<1>5. CASE Publish(j) \/ WritePointer(j) \/ Point(j) \/ Collect(j) \/ Die(j)
  BY <1>1, <1>5 DEF Publish, WritePointer, Point, Collect, Die, local
<1> QED
  BY <1>2, <1>3, <1>4, <1>5 DEF Step

LEMMA StepIsRegisterStep ==
    ASSUME IInv, NEW j \in Jobs, Step(j) \/ Die(j)
    PROVE  [Register!Next]_(Register!vars)
<1> USE DEF Register!Next, Register!vars
<1>1. CASE Point(j)
  <2>1. UNCHANGED <<tree, answer>>
    BY <1>1 DEF Point, local
  <2>2. PICK k \in Keys : k = key[j]
    BY <1>1, PointIsSave
  <2>3. Register!Save(j, k)
    BY <1>1, <2>1, <2>2, PointIsSave DEF Register!Save, Value
  <2> QED
    BY <2>3
<1>2. CASE ~Point(j) /\ answer' # answer
  <2>1. ReadLatest(j) \/ Restored(j)
    BY <1>2, TreesChangeAlone
  <2>2. tree' = tree /\ tree \in [Jobs -> Trees]
    BY <2>1 DEF ReadLatest, Restored, IInv, TypeOK
  <2>3. tree' = [tree EXCEPT ![j] = tree[j]] /\ tree[j] \in Trees
    BY <2>2
  <2>4. Register!Restore(j, key[j])
    BY <1>2, <2>1, <2>3, RestoreIsRestore, ValueKept DEF Register!Restore, Value
  <2> QED
    BY <1>2, <2>1, <2>4, RestoreIsRestore
<1>3. CASE ~Point(j) /\ answer' = answer /\ tree' # tree
  <2>1. tree' = [tree EXCEPT ![j] = tree'[j]] /\ tree'[j] \in Trees
    BY TreesChangeAlone DEF IInv, TypeOK
  <2>2. Register!Work(j)
    BY <1>3, <2>1, ValueKept DEF Register!Work, Value
  <2> QED
    BY <2>2
<1>4. CASE ~Point(j) /\ answer' = answer /\ tree' = tree
  BY <1>4, ValueKept DEF Value
<1> QED
  BY <1>1, <1>2, <1>3, <1>4

\* Whatever the interleaving of the file copies, renames and pointer writes of any number
\* of jobs, and whichever of them are killed or give up on a lock, each key behaves as one
\* register that is read and written at one instant.
THEOREM StoreIsRegister == Spec => ImplementsRegister
<1>1. Init => Register!Init
  BY InitIsRegisterInit
<1>2. IInv /\ [Next]_vars => [Register!Next]_(Register!vars)
  <2> SUFFICES ASSUME IInv, [Next]_vars PROVE [Register!Next]_(Register!vars)
    OBVIOUS
  <2>1. CASE UNCHANGED vars
    BY <2>1 DEF vars, local, store, Register!vars
  <2>2. CASE Next
    BY <2>2, StepIsRegisterStep DEF Next
  <2> QED
    BY <2>1, <2>2
<1> QED
  BY <1>1, <1>2, Consistent, PTL DEF Spec, ImplementsRegister, Register!Spec
=============================================================================
