--------------------------- MODULE CacheRegister ---------------------------
(***************************************************************************)
(* What the cache store promises: one register per key.  A save replaces   *)
(* the register by the whole tree of the job that saves, a restore returns *)
(* the register as it is, and both happen at one instant.  A crash in the  *)
(* middle of either is a step that does nothing.                           *)
(***************************************************************************)
CONSTANTS Jobs, Keys, Trees, Miss

VARIABLES
    value,      \* the snapshot under each key, or Miss
    offered,    \* the files each job would save now
    answer      \* <<key, snapshot>> of each job's latest restore

vars == <<value, offered, answer>>

Init ==
    /\ value = [k \in Keys |-> Miss]
    /\ offered \in [Jobs -> Trees]
    /\ answer = [j \in Jobs |-> Miss]

Work(j) ==
    /\ \E t \in Trees : offered' = [offered EXCEPT ![j] = t]
    /\ UNCHANGED <<value, answer>>

Save(j, k) ==
    /\ value' = [value EXCEPT ![k] = offered[j]]
    /\ UNCHANGED <<offered, answer>>

\* The files come into the job's tree with the answer, or before it.
Restore(j, k) ==
    /\ answer' = [answer EXCEPT ![j] = <<k, value[k]>>]
    /\ \E t \in Trees : offered' = [offered EXCEPT ![j] = t]
    /\ UNCHANGED value

Next == \E j \in Jobs : Work(j) \/ \E k \in Keys : Save(j, k) \/ Restore(j, k)

Spec == Init /\ [][Next]_vars
=============================================================================
