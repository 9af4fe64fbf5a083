------------------------- MODULE IncrementalProofs -------------------------
(***************************************************************************)
(* HitIsEarned and NothingToRedo, for any pipelines, files and contents    *)
(* and any number of runs, edits and cleanings.  A memo that is right is a *)
(* table: of each of its jobs it has the fingerprint over certain files,   *)
(* and it has the jobs upstream of it.  Both properties come from what     *)
(* tables say of one another: equal fingerprints were computed over equal  *)
(* inputs, and over equal files the fingerprints are equal.                *)
(***************************************************************************)
EXTENDS Incremental, WellFoundedInduction, TLAPS

FilesOf(j, c) == IF DeclaredInputs(j) = {} THEN c ELSE [f \in DeclaredInputs(j) |-> c[f]]

\* What c holds of the files that count for j or for a job behind it
InputsOf(j, c) ==
    [ f \in UNION {IF DeclaredInputs(i) = {} THEN Files ELSE DeclaredInputs(i) : i \in Behind(j)}
          |-> c[f] ]

\* A memo computed while the files held c
IsTable(g, c) ==
    \A i \in DOMAIN g :
        /\ i \in Here /\ Upstream(i) \cap Here \subseteq DOMAIN g
        /\ g[i] = Fingerprint(i, FilesOf(i, c), g)

\* The fingerprint that j has while the files hold c
Describes(fingerprint, j, c) == \E g : IsTable(g, c) /\ j \in DOMAIN g /\ g[j] = fingerprint

Statuses ==
    {"waiting", "asked", "running", "failed", "collected", "mutated", "passed", "unrecorded", "cached"}

\* What a success leaves in the store, and what check looks for
FilesKept(j, stored) ==
    "files" \in pipeline.artifacts[j] /\ pipeline.artifacts_when[j] \in {"on_success", "always"} =>
        <<j, "files">> \in stored
AllKept(j, stored) == \A kind \in pipeline.artifacts[j] : <<j, kind>> \in stored

TypeOK ==
    /\ pipeline \in Pipelines
    /\ content \in [Files -> Contents]
    /\ outputs \subseteq Jobs \X {"files", "report"}
    /\ run \in [Runs -> Options \cup {Idle}]
    /\ computed = [p \in Runs |-> computed[p]]
    /\ calls = [p \in Runs |-> calls[p]]
    /\ digest \in [Runs -> [Files -> Contents] \cup {None}]
    /\ status \in [Runs -> [Jobs -> Statuses]]
    /\ basis = [j \in Jobs |-> basis[j]]
    /\ disturbed \in SUBSET Runs /\ settled \in BOOLEAN

\* What a process has begins with it and ends with it; a job past its check is in the memo.
MemoInv ==
    /\ \A p \in Runs : run[p] = Idle =>
          computed[p] = << >> /\ calls[p] = << >> /\ digest[p] = None /\ status[p] = Unreached
    /\ \A p \in Runs : DOMAIN calls[p] \subseteq Here
    /\ \A p \in Runs, j \in Jobs :
          /\ status[p][j] # "waiting" => j \in Picked
          /\ run[p].mode # "plain" /\ status[p][j] \notin {"waiting", "asked"} => j \in DOMAIN computed[p]

\* Either every run at work was disturbed or none was.  Then what each has read is what the
\* files hold.
CalmInv ==
    /\ disturbed \in {{}, Active}
    /\ disturbed = {} =>
          \A p \in Runs :
              /\ digest[p] \in {None, content}
              /\ \A i \in DOMAIN calls[p] : calls[p][i] = FilesOf(i, content)
              /\ IsTable(computed[p], content)

\* What the stores have of the jobs that the runs are through with
StoreInv ==
    disturbed = {} =>
        \A p \in Runs, j \in Jobs :
            /\ run[p].mode # "plain" /\ status[p][j] \in {"passed", "cached"} =>
                  j \in DOMAIN record /\ Describes(record[j], j, content)
            /\ status[p][j] \in {"collected", "passed"} => FilesKept(j, outputs)
            /\ status[p][j] = "cached" => AllKept(j, outputs)

SettledInv ==
    settled =>
        /\ disturbed = {}
        /\ \A j \in Picked :
              /\ j \in DOMAIN record /\ Describes(record[j], j, content)
              /\ FilesKept(j, outputs)

\* The ghost tells the truth about the records.
BasisInv ==
    \A j \in Jobs : j \in DOMAIN record /\ basis[j] # {} =>
        \E c \in [Files -> Contents] : Describes(record[j], j, c) /\ basis[j] = {InputsOf(j, c)}

Inv == TypeOK /\ MemoInv /\ CalmInv /\ StoreInv /\ SettledInv /\ BasisInv

-----------------------------------------------------------------------------
(* Pipelines and tables.                                                   *)

\* A nonempty set of natural numbers has a least one.
LEMMA LeastNat ==
    ASSUME NEW T, T \subseteq Nat, T # {}
    PROVE  \E x \in T : \A y \in T : x <= y
<1>1. PICK x \in T : \A y \in T : ~ (<<y, x>> \in OpToRel(<, Nat))
  BY NatLessThanWellFounded, WFMin
<1>2. \A y \in T : ~(y < x)
  BY <1>1 DEF OpToRel
<1> QED
  BY <1>2

\* The jobs of a pipeline and those upstream of one are jobs.
LEMMA HereAreJobs ==
    ASSUME pipeline \in Pipelines
    PROVE  /\ Here \subseteq Jobs /\ Picked \subseteq Here
           /\ \A j \in Jobs : Upstream(j) \subseteq Jobs /\ DeclaredInputs(j) \subseteq Files
<1>1. pipeline \in Pipeline
  BY PipelinesAssumption
<1>2. Here \subseteq Jobs
  BY <1>1 DEF Here, ToSet, Pipeline
<1> QED
  BY <1>1, <1>2 DEF Pipeline, Picked, Upstream, DeclaredInputs

\* Among any jobs of the pipeline there is one that none of the others is upstream of: the
\* first that a serial run reaches.
LEMMA FirstJob ==
    ASSUME pipeline \in Pipelines, NEW T, T \subseteq Here, T # {}
    PROVE  \E i \in T : Upstream(i) \cap Here \cap T = {}
<1> DEFINE P == pipeline
           Stages == {P.stage[i] : i \in T}
<1>1. P \in Pipeline /\ \A n, m \in DOMAIN P.jobs : P.jobs[n] = P.jobs[m] => n = m
  BY PipelinesAssumption
<1>2. T \subseteq Jobs /\ Here \subseteq Jobs
  BY HereAreJobs
<1>3. Stages \subseteq Nat /\ Stages # {}
  BY <1>1, <1>2 DEF Pipeline
<1>4. PICK s \in Stages : \A t \in Stages : s <= t
  BY <1>3, LeastNat
<1> DEFINE Positions == {n \in DOMAIN P.jobs : P.jobs[n] \in T /\ P.stage[P.jobs[n]] = s}
<1>5. Positions \subseteq Nat
  BY <1>1 DEF Pipeline
<1>6. Positions # {}
  <2>1. PICK i \in T : P.stage[i] = s
    BY <1>4
  <2>2. PICK n \in DOMAIN P.jobs : P.jobs[n] = i
    BY <2>1 DEF Here, ToSet
  <2> QED
    BY <2>1, <2>2
<1>7. PICK n \in Positions : \A m \in Positions : n <= m
  BY <1>5, <1>6, LeastNat
<1> DEFINE i == P.jobs[n]
<1>8. i \in T /\ i \in Jobs /\ P.stage[i] = s
  BY <1>2, <1>7
<1> SUFFICES ASSUME NEW d \in Upstream(i) \cap Here, d \in T PROVE FALSE
  BY <1>8
<1>9. P.stage[d] >= s /\ P.stage[d] \in Nat /\ s \in Nat
  BY <1>1, <1>2, <1>3, <1>4 DEF Pipeline
<1>10. Before(P, d, i)
  <2>1. CASE P.inherits[i]
    BY <2>1 DEF Upstream, Before
  <2>2. CASE ~P.inherits[i]
    BY <2>2, <1>8, PipelinesAssumption DEF Upstream, Here
  <2> QED
    BY <2>1, <2>2
<1>11. P.stage[d] = s /\ \E k, m \in DOMAIN P.jobs : k < m /\ P.jobs[k] = d /\ P.jobs[m] = i
  BY <1>8, <1>9, <1>10 DEF Before
<1>12. PICK k \in DOMAIN P.jobs : k < n /\ P.jobs[k] = d
  BY <1>1, <1>7, <1>11
<1>13. k \in Positions
  BY <1>11, <1>12
<1> QED
  BY <1>5, <1>7, <1>12, <1>13

\* Over the same files two memos have the same fingerprint of a job.
LEMMA TablesAgree ==
    ASSUME pipeline \in Pipelines, NEW c, NEW g, NEW h, IsTable(g, c), IsTable(h, c)
    PROVE  \A i \in DOMAIN g \cap DOMAIN h : g[i] = h[i]
<1> DEFINE T == {i \in DOMAIN g \cap DOMAIN h : g[i] # h[i]}
<1> SUFFICES ASSUME T # {} PROVE FALSE
  OBVIOUS
<1>1. T \subseteq Here
  BY DEF IsTable
<1>2. PICK i \in T : Upstream(i) \cap Here \cap T = {}
  <2> HIDE DEF T
  <2> QED
    BY <1>1, FirstJob
<1>3. \A d \in Upstream(i) \cap Here : g[d] = h[d]
  BY <1>2 DEF IsTable
<1>4. Fingerprint(i, FilesOf(i, c), g) = Fingerprint(i, FilesOf(i, c), h)
  BY <1>3 DEF Fingerprint
<1> QED
  BY <1>2, <1>4 DEF IsTable

\* What is behind j is in every set of jobs that is closed and has j.
LEMMA BehindIsLeast ==
    ASSUME NEW j, NEW S \in SUBSET Jobs, j \in S, \A k \in S : Upstream(k) \cap Here \subseteq S
    PROVE  Behind(j) \subseteq S
BY DEF Behind

\* A fingerprint tells the inputs over which it was computed, of the job and of those behind.
LEMMA FingerprintsTellInputs ==
    ASSUME pipeline \in Pipelines, NEW c \in [Files -> Contents], NEW d \in [Files -> Contents],
           NEW g, NEW h, IsTable(g, c), IsTable(h, d),
           NEW j \in DOMAIN g \cap DOMAIN h, g[j] = h[j]
    PROVE  InputsOf(j, c) = InputsOf(j, d)
<1> DEFINE S == {i \in DOMAIN g \cap DOMAIN h : g[i] = h[i]}
<1>1. S \in SUBSET Jobs
  BY HereAreJobs DEF IsTable
<1>2. ASSUME NEW i \in S
      PROVE  Upstream(i) \cap Here \subseteq S /\ FilesOf(i, c) = FilesOf(i, d)
  <2>1. Fingerprint(i, FilesOf(i, c), g) = Fingerprint(i, FilesOf(i, d), h)
    BY DEF IsTable
  <2>2. FilesOf(i, c) = FilesOf(i, d)
    BY <2>1 DEF Fingerprint
  <2>3. ASSUME NEW k \in Upstream(i) \cap Here PROVE g[k] = h[k]
    <3>1. /\ Fingerprint(i, FilesOf(i, c), g).needs[k] = g[k]
          /\ Fingerprint(i, FilesOf(i, d), h).needs[k] = h[k]
      BY DEF Fingerprint
    <3> QED
      BY <2>1, <3>1
  <2> QED
    BY <2>2, <2>3 DEF IsTable
<1>3. Behind(j) \subseteq S
  <2> j \in S
    OBVIOUS
  <2> HIDE DEF S
  <2> QED
    BY <1>1, <1>2, BehindIsLeast
<1>4. ASSUME NEW i \in Behind(j), NEW f \in IF DeclaredInputs(i) = {} THEN Files ELSE DeclaredInputs(i)
      PROVE  c[f] = d[f]
  <2>1. FilesOf(i, c) = FilesOf(i, d)
    BY <1>2, <1>3
  <2>2. CASE DeclaredInputs(i) = {}
    BY <2>1, <2>2 DEF FilesOf
  <2>3. CASE DeclaredInputs(i) # {}
    <3>1. f \in DeclaredInputs(i)
      BY <2>3
    <3>2. [x \in DeclaredInputs(i) |-> c[x]] = [x \in DeclaredInputs(i) |-> d[x]]
      BY <2>1, <2>3 DEF FilesOf
    <3>3. [x \in DeclaredInputs(i) |-> c[x]][f] = [x \in DeclaredInputs(i) |-> d[x]][f]
      BY <3>2
    <3> QED
      BY <3>1, <3>3
  <2> QED
    BY <2>2, <2>3
<1> QED
  BY <1>4 DEF InputsOf

-----------------------------------------------------------------------------
(* The steps.                                                              *)

\* What is said of the pipeline alone stays true.
LEMMA PipelineFrame ==
    ASSUME UNCHANGED pipeline
    PROVE  /\ Here' = Here /\ Picked' = Picked
           /\ \A j : Upstream(j)' = Upstream(j) /\ DeclaredInputs(j)' = DeclaredInputs(j)
           /\ \A j, c : FilesOf(j, c)' = FilesOf(j, c) /\ InputsOf(j, c)' = InputsOf(j, c)
           /\ \A j, c, g : Fingerprint(j, c, g)' = Fingerprint(j, c, g)
           /\ \A g, c : IsTable(g, c)' <=> IsTable(g, c)
           /\ \A x, j, c : Describes(x, j, c)' <=> Describes(x, j, c)
           /\ \A j, o : /\ FilesKept(j, o)' <=> FilesKept(j, o)
                        /\ AllKept(j, o)' <=> AllKept(j, o)
<1>1. Here' = Here
  BY DEF Here
<1>2. Picked' = Picked
  BY <1>1 DEF Picked
<1>3. \A j : Upstream(j)' = Upstream(j) /\ DeclaredInputs(j)' = DeclaredInputs(j)
  BY <1>1 DEF Upstream, DeclaredInputs
<1>4. \A j, c : FilesOf(j, c)' = FilesOf(j, c)
  BY <1>3 DEF FilesOf
<1>5. \A j : Behind(j)' = Behind(j)
  BY <1>1, <1>3 DEF Behind
<1>6. \A j, c : InputsOf(j, c)' = InputsOf(j, c)
  BY <1>3, <1>5 DEF InputsOf
<1>7. \A j, c, g : Fingerprint(j, c, g)' = Fingerprint(j, c, g)
  BY <1>1, <1>3 DEF Fingerprint
<1>8. \A g, c : IsTable(g, c)' <=> IsTable(g, c)
  BY <1>1, <1>3, <1>4, <1>7 DEF IsTable
<1>9. \A x, j, c : Describes(x, j, c)' <=> Describes(x, j, c)
  BY <1>8 DEF Describes
<1>10. \A j, o : FilesKept(j, o)' <=> FilesKept(j, o)
  BY DEF FilesKept
<1>11. \A j, o : AllKept(j, o)' <=> AllKept(j, o)
  BY DEF AllKept
<1> QED
  BY <1>1, <1>2, <1>3, <1>4, <1>6, <1>7, <1>8, <1>9, <1>10, <1>11

\* What is kept stays kept in a store that grows.
LEMMA KeptGrows ==
    ASSUME NEW j, NEW o, NEW more, o \subseteq more
    PROVE  (FilesKept(j, o) => FilesKept(j, more)) /\ (AllKept(j, o) => AllKept(j, more))
BY DEF FilesKept, AllKept

\* No option is that of no run.
LEMMA IdleIsNoOption == Idle \notin Options
BY OptionsAssumption DEF Idle

\* A job of the pipeline that the memo has is described by it.
LEMMA TableDescribes ==
    ASSUME NEW g, NEW c, IsTable(g, c), NEW j \in DOMAIN g
    PROVE  Describes(g[j], j, c)
BY DEF Describes

\* A new process has an empty memo, and counts as disturbed beside one that is.
LEMMA StartInv == ASSUME Inv, NEW p \in Runs, Start(p) PROVE Inv'
<1> USE DEF Inv
<1>1. PICK options \in Options : run' = [run EXCEPT ![p] = options]
  BY DEF Start
<1>2. /\ UNCHANGED <<pipeline, content, record, outputs, computed, calls, digest, status, basis, settled>>
      /\ run[p] = Idle /\ disturbed' = IF disturbed = {} THEN {} ELSE disturbed \cup {p}
  BY DEF Start, project
<1>3. run'[p] = options /\ options # Idle /\ \A r \in Runs \ {p} : run'[r] = run[r]
  BY <1>1, IdleIsNoOption DEF TypeOK
<1>4. TypeOK'
  BY <1>1, <1>2 DEF TypeOK
<1>5. MemoInv'
  BY <1>2, <1>3, PipelineFrame DEF MemoInv, Unreached
<1>6. CalmInv'
  <2>1. Active' = Active \cup {p}
    BY <1>3 DEF Active
  <2> QED
    BY <1>2, <2>1, PipelineFrame DEF CalmInv
<1>7. StoreInv'
  BY <1>2, <1>3, PipelineFrame DEF StoreInv, MemoInv, Unreached
<1>8. SettledInv'
  BY <1>2, PipelineFrame DEF SettledInv
<1>9. BasisInv'
  BY <1>2, PipelineFrame DEF BasisInv
<1> QED
  BY <1>4, <1>5, <1>6, <1>7, <1>8, <1>9

\* A call reads what the files hold.
LEMMA CallInv ==
    ASSUME Inv, NEW p \in Runs, NEW d \in Here, Call(p, d), UNCHANGED <<pipeline, content>>
    PROVE  /\ calls' = [q \in Runs |-> calls'[q]] /\ digest' \in [Runs -> [Files -> Contents] \cup {None}]
           /\ \A q \in Runs \ {p} : calls'[q] = calls[q] /\ digest'[q] = digest[q]
           /\ DOMAIN calls'[p] = DOMAIN calls[p] \cup {d}
           /\ disturbed = {} =>
                 /\ digest'[p] \in {None, content}
                 /\ \A i \in DOMAIN calls'[p] : calls'[p][i] = FilesOf(i, content)
<1> USE DEF Inv
<1>1. GitDigest(p) \in [Files -> Contents] /\ (disturbed = {} => GitDigest(p) = content)
  BY DEF GitDigest, TypeOK, CalmInv
<1>2. disturbed = {} => FilesDigest(p, d) = FilesOf(d, content)
  BY <1>1 DEF FilesDigest, FilesOf
<1>3. calls'[p] = Put(calls[p], d, FilesDigest(p, d)) /\ \A q \in Runs \ {p} : calls'[q] = calls[q]
  BY DEF Call, TypeOK
<1>4. DOMAIN calls'[p] = DOMAIN calls[p] \cup {d}
  BY <1>3 DEF Put
<1>5. \A i \in DOMAIN calls'[p] : calls'[p][i] = IF i = d THEN FilesDigest(p, d) ELSE calls[p][i]
  BY <1>3 DEF Put
<1> QED
  BY <1>1, <1>2, <1>3, <1>4, <1>5 DEF Call, TypeOK, CalmInv

\* A run gets to a job: it starts it, or asks for its fingerprint.
LEMMA ReachInv == ASSUME Inv, NEW p \in Runs, NEW j \in Jobs, Reach(p, j) PROVE Inv'
<1> USE DEF Inv
<1>1. /\ UNCHANGED <<pipeline, content, record, outputs, run, computed, basis, disturbed, settled>>
      /\ run[p] # Idle /\ j \in Picked /\ j \in Here /\ status[p][j] = "waiting"
  BY DEF Reach, Reachable, project, ghosts, Picked
<1>2. PICK s \in {"asked", "running"} :
          /\ status' = [status EXCEPT ![p][j] = s]
          /\ s = "running" => run[p].mode = "plain"
  BY DEF Reach
<1>3. status'[p][j] = s /\ \A q \in Runs, i \in Jobs : <<q, i>> # <<p, j>> => status'[q][i] = status[q][i]
  BY <1>2 DEF TypeOK
<1>4. /\ calls' = [q \in Runs |-> calls'[q]] /\ digest' \in [Runs -> [Files -> Contents] \cup {None}]
      /\ \A q \in Runs \ {p} : calls'[q] = calls[q] /\ digest'[q] = digest[q]
      /\ DOMAIN calls'[p] \subseteq Here
      /\ disturbed = {} =>
            /\ digest'[p] \in {None, content}
            /\ \A i \in DOMAIN calls'[p] : calls'[p][i] = FilesOf(i, content)
  <2>1. CASE Call(p, j)
    BY <1>1, <2>1, CallInv DEF MemoInv
  <2>2. CASE UNCHANGED <<calls, digest>>
    BY <2>2 DEF TypeOK, MemoInv, CalmInv
  <2> QED
    BY <2>1, <2>2 DEF Reach
<1>5. TypeOK'
  BY <1>1, <1>2, <1>4 DEF TypeOK, Statuses
<1>6. MemoInv'
  BY <1>1, <1>2, <1>3, <1>4, PipelineFrame DEF MemoInv
<1>7. CalmInv'
  BY <1>1, <1>4, PipelineFrame DEF CalmInv, Active
<1>8. StoreInv'
  BY <1>1, <1>3, PipelineFrame DEF StoreInv
<1>9. SettledInv'
  BY <1>1, PipelineFrame DEF SettledInv
<1>10. BasisInv'
  BY <1>1, PipelineFrame DEF BasisInv
<1> QED
  BY <1>5, <1>6, <1>7, <1>8, <1>9, <1>10

\* fingerprint_for calls itself for a job upstream.
LEMMA DescendInv ==
    ASSUME Inv, NEW p \in Runs, NEW j \in Jobs, NEW d \in Jobs, Descend(p, j, d) PROVE Inv'
<1> USE DEF Inv
<1>1. /\ UNCHANGED <<pipeline, content, record, outputs, run, computed, status, basis, disturbed, settled>>
      /\ d \in Here /\ Call(p, d) /\ run[p] # Idle
  BY DEF Descend, Innermost, project, ghosts, MemoInv
<1>2. /\ calls' = [q \in Runs |-> calls'[q]] /\ digest' \in [Runs -> [Files -> Contents] \cup {None}]
      /\ \A q \in Runs \ {p} : calls'[q] = calls[q] /\ digest'[q] = digest[q]
      /\ DOMAIN calls'[p] \subseteq Here
      /\ disturbed = {} =>
            /\ digest'[p] \in {None, content}
            /\ \A i \in DOMAIN calls'[p] : calls'[p][i] = FilesOf(i, content)
  BY <1>1, CallInv DEF MemoInv
<1>3. TypeOK'
  BY <1>1, <1>2 DEF TypeOK
<1>4. MemoInv'
  BY <1>1, <1>2, PipelineFrame DEF MemoInv
<1>5. CalmInv'
  BY <1>1, <1>2, PipelineFrame DEF CalmInv, Active
<1>6. StoreInv'
  BY <1>1, PipelineFrame DEF StoreInv
<1>7. SettledInv'
  BY <1>1, PipelineFrame DEF SettledInv
<1>8. BasisInv'
  BY <1>1, PipelineFrame DEF BasisInv
<1> QED
  BY <1>3, <1>4, <1>5, <1>6, <1>7, <1>8

\* A memo stays right when it takes the fingerprint of a job whose upstream jobs it has.
LEMMA TableGrows ==
    ASSUME NEW g, NEW c, IsTable(g, c),
           NEW j \in Here, j \notin Upstream(j), Upstream(j) \cap Here \subseteq DOMAIN g
    PROVE  IsTable(Put(g, j, Fingerprint(j, FilesOf(j, c), g)), c)
<1> DEFINE x == Fingerprint(j, FilesOf(j, c), g)
           h == Put(g, j, x)
<1>1. DOMAIN h = DOMAIN g \cup {j} /\ h[j] = x /\ \A i \in DOMAIN g \ {j} : h[i] = g[i]
  BY DEF Put
<1>2. \A i \in DOMAIN g : h[i] = g[i]
  BY <1>1 DEF IsTable
<1>3. ASSUME NEW i \in DOMAIN h PROVE Upstream(i) \cap Here \subseteq DOMAIN g /\ i \in Here
  BY <1>1 DEF IsTable
<1>4. ASSUME NEW i \in DOMAIN h PROVE Fingerprint(i, FilesOf(i, c), h) = Fingerprint(i, FilesOf(i, c), g)
  <2>1. \A d \in Upstream(i) \cap Here : h[d] = g[d]
    BY <1>2, <1>3
  <2> QED
    BY <2>1 DEF Fingerprint
<1>5. ASSUME NEW i \in DOMAIN h PROVE h[i] = Fingerprint(i, FilesOf(i, c), g)
  BY <1>1, <1>2 DEF IsTable
<1> HIDE DEF h
<1>6. IsTable(h, c)
  BY <1>1, <1>3, <1>4, <1>5 DEF IsTable
<1> QED
  BY <1>6 DEF h

\* A call returns, and with the first of them the check of the job is over.
LEMMA ReturnInv == ASSUME Inv, NEW p \in Runs, NEW j \in Jobs, Return(p, j) PROVE Inv'
<1> USE DEF Inv
<1> DEFINE x == Fingerprint(j, calls[p][j], computed[p])
<1>1. /\ UNCHANGED <<pipeline, content, record, outputs, run, digest, basis, disturbed, settled>>
      /\ j \in DOMAIN calls[p] /\ Upstream(j) \cap DOMAIN calls[p] = {}
      /\ Upstream(j) \cap Here \subseteq DOMAIN computed[p]
      /\ computed' = [computed EXCEPT ![p] = Put(@, j, x)]
      /\ calls' = [calls EXCEPT ![p] = [i \in DOMAIN @ \ {j} |-> @[i]]]
  BY DEF Return, Innermost, project, ghosts
<1>0. PICK s \in {"asked", "cached", "running"} :
          \/ status[p][j] # "asked" /\ s = "asked" /\ status' = status
          \/ status[p][j] = "asked" /\ s = "cached" /\ Hit(p, j, x) /\ status' = [status EXCEPT ![p][j] = s]
          \/ status[p][j] = "asked" /\ s = "running" /\ status' = [status EXCEPT ![p][j] = s]
  BY DEF Return
<1>2. j \in Here /\ j \notin Upstream(j) /\ run[p] # Idle
  BY <1>1 DEF MemoInv
<1>3. /\ computed'[p] = Put(computed[p], j, x) /\ DOMAIN computed'[p] = DOMAIN computed[p] \cup {j}
      /\ computed'[p][j] = x
      /\ \A q \in Runs \ {p} : computed'[q] = computed[q] /\ calls'[q] = calls[q]
      /\ DOMAIN calls'[p] = DOMAIN calls[p] \ {j}
      /\ \A i \in DOMAIN calls'[p] : calls'[p][i] = calls[p][i]
  BY <1>1 DEF TypeOK, Put
<1>4. /\ \A q \in Runs, i \in Jobs : <<q, i>> # <<p, j>> => status'[q][i] = status[q][i]
      /\ \/ status'[p][j] = status[p][j]
         \/ status[p][j] = "asked" /\ status'[p][j] = "cached" /\ Hit(p, j, x)
         \/ status[p][j] = "asked" /\ status'[p][j] = "running"
  BY <1>0 DEF TypeOK
<1>5. TypeOK'
  <2>1. status' \in [Runs -> [Jobs -> Statuses]]
    <3>1. CASE status' = status
      BY <3>1 DEF TypeOK
    <3>2. ASSUME NEW c \in {"cached", "running"}, status' = [status EXCEPT ![p][j] = c]
          PROVE  status' \in [Runs -> [Jobs -> Statuses]]
      BY <3>2 DEF TypeOK, Statuses
    <3> QED
      BY <1>0, <3>1, <3>2
  <2> QED
    BY <1>1, <2>1 DEF TypeOK
<1>6. MemoInv'
  <2>1. ASSUME NEW q \in Runs, run'[q] = Idle
        PROVE  computed'[q] = << >> /\ calls'[q] = << >> /\ digest'[q] = None /\ status'[q] = Unreached
    BY <1>0, <1>1, <1>2, <1>3, <2>1 DEF MemoInv, TypeOK
  <2>2. \A q \in Runs : DOMAIN calls'[q] \subseteq Here
    BY <1>3 DEF MemoInv
  <2>3. ASSUME NEW q \in Runs, NEW i \in Jobs
        PROVE  /\ status'[q][i] # "waiting" => i \in Picked
               /\ run'[q].mode # "plain" /\ status'[q][i] \notin {"waiting", "asked"} =>
                     i \in DOMAIN computed'[q]
    BY <1>1, <1>3, <1>4 DEF MemoInv
  <2> QED
    BY <1>1, <2>1, <2>2, <2>3, PipelineFrame DEF MemoInv, Unreached
<1>7. disturbed = {} => IsTable(computed'[p], content)
  BY <1>1, <1>2, <1>3, TableGrows DEF CalmInv
<1>8. CalmInv'
  BY <1>1, <1>3, <1>7, PipelineFrame DEF CalmInv, Active
<1>9. StoreInv'
  <2> SUFFICES ASSUME disturbed = {}, NEW q \in Runs, NEW i \in Jobs
               PROVE  /\ run[q].mode # "plain" /\ status'[q][i] \in {"passed", "cached"} =>
                            i \in DOMAIN record /\ Describes(record[i], i, content)
                      /\ status'[q][i] \in {"collected", "passed"} => FilesKept(i, outputs)
                      /\ status'[q][i] = "cached" => AllKept(i, outputs)
    BY <1>1, PipelineFrame DEF StoreInv
  <2>1. CASE status'[q][i] = status[q][i]
    BY <2>1 DEF StoreInv
  <2>2. CASE status'[q][i] # status[q][i]
    <3>1. q = p /\ i = j /\ (status'[q][i] = "running" \/ (status'[q][i] = "cached" /\ Hit(p, j, x)))
      BY <1>4, <2>2
    <3>2. Describes(x, j, content)
      BY <1>3, <1>7, TableDescribes
    <3> QED
      BY <3>1, <3>2 DEF Hit, AllKept
  <2> QED
    BY <2>1, <2>2
<1>10. SettledInv'
  BY <1>1, PipelineFrame DEF SettledInv
<1>11. BasisInv'
  BY <1>1, PipelineFrame DEF BasisInv
<1> QED
  BY <1>5, <1>6, <1>8, <1>9, <1>10, <1>11

\* What a job leaves in the artifact store stays there.
LEMMA FinishInv == ASSUME Inv, NEW p \in Runs, NEW j \in Jobs, Finish(p, j) PROVE Inv'
<1> USE DEF Inv
<1>1. /\ UNCHANGED <<pipeline, content, record, run, computed, calls, digest, basis, disturbed, settled>>
      /\ status[p][j] = "running"
  BY DEF Finish, ghosts
<1>2. PICK end \in {"failed", "collected", "mutated"} :
          /\ status' = [status EXCEPT ![p][j] = end]
          /\ \E new \in Collected(j, end # "failed") : outputs' = outputs \cup new
  BY DEF Finish
<1>0. PICK new \in Collected(j, end # "failed") : outputs' = outputs \cup new
  BY <1>2
<1>12. new \subseteq {j} \X pipeline.artifacts[j] /\ pipeline.artifacts[j] \subseteq {"files", "report"}
  <2>1. pipeline \in Pipeline
    BY PipelinesAssumption DEF TypeOK
  <2> QED
    BY <1>0, <2>1 DEF Collected, Pipeline
<1>13. end # "failed" => FilesKept(j, outputs')
  BY <1>0 DEF Collected, FilesKept
<1>3. status'[p][j] = end /\ \A q \in Runs, i \in Jobs : <<q, i>> # <<p, j>> => status'[q][i] = status[q][i]
  BY <1>2 DEF TypeOK
<1>4. run[p] # Idle
  BY <1>1 DEF MemoInv, Unreached
<1>5. TypeOK'
  BY <1>0, <1>1, <1>2, <1>12 DEF TypeOK, Statuses
<1>6. MemoInv'
  <2>1. ASSUME NEW q \in Runs, run[q] = Idle PROVE status'[q] = Unreached
    BY <1>2, <1>4, <2>1 DEF MemoInv, TypeOK
  <2> QED
    BY <1>1, <1>3, <2>1, PipelineFrame DEF MemoInv, Unreached
<1>7. CalmInv'
  BY <1>1, PipelineFrame DEF CalmInv, Active
<1>8. outputs \subseteq outputs'
  BY <1>2
<1>9. StoreInv'
  <2> SUFFICES ASSUME disturbed = {}, NEW q \in Runs, NEW i \in Jobs
               PROVE  /\ run[q].mode # "plain" /\ status'[q][i] \in {"passed", "cached"} =>
                            i \in DOMAIN record /\ Describes(record[i], i, content)
                      /\ status'[q][i] \in {"collected", "passed"} => FilesKept(i, outputs')
                      /\ status'[q][i] = "cached" => AllKept(i, outputs')
    BY <1>1, PipelineFrame DEF StoreInv
  <2>1. CASE <<q, i>> = <<p, j>>
    BY <1>2, <1>3, <1>13, <2>1
  <2>2. CASE <<q, i>> # <<p, j>>
    BY <1>3, <1>8, <2>2, KeptGrows DEF StoreInv
  <2> QED
    BY <2>1, <2>2
<1>10. SettledInv'
  BY <1>1, <1>8, KeptGrows, PipelineFrame DEF SettledInv
<1>11. BasisInv'
  BY <1>1, PipelineFrame DEF BasisInv
<1> QED
  BY <1>5, <1>6, <1>7, <1>9, <1>10, <1>11

\* What is recorded describes the job over the files as they are, and so does the ghost.
LEMMA RecordInv == ASSUME Inv, NEW p \in Runs, NEW j \in Jobs, Record(p, j) PROVE Inv'
<1> USE DEF Inv
<1>1. /\ UNCHANGED <<pipeline, content, outputs, run, computed, calls, digest, disturbed, settled>>
      /\ status[p][j] = "collected"
  BY DEF Record
<1>0. PICK s \in {"passed", "unrecorded"} :
          /\ status' = [status EXCEPT ![p][j] = s]
          /\ s = "passed" => Recorded(p, j) /\ run[p].mode # "plain"
          /\ s = "unrecorded" => UNCHANGED <<record, basis>>
  BY DEF Record, Recorded, NotRecorded
<1>2. status'[p][j] = s /\ \A q \in Runs, i \in Jobs : <<q, i>> # <<p, j>> => status'[q][i] = status[q][i]
  BY <1>0 DEF TypeOK
<1>3. run[p] # Idle
  BY <1>1 DEF MemoInv, Unreached
<1>4. p \notin disturbed => disturbed = {}
  BY <1>3 DEF CalmInv, Active
<1>5. disturbed = {} /\ run[p].mode # "plain" => Describes(computed[p][j], j, content)
  BY <1>1, TableDescribes DEF MemoInv, CalmInv
<1>6. CASE s = "passed"
  <2>1. /\ record' = Put(record, j, computed[p][j])
        /\ basis' = [basis EXCEPT ![j] = IF p \in disturbed THEN {} ELSE {Inputs(j)}]
    BY <1>0, <1>6 DEF Recorded
  <2>2. /\ DOMAIN record' = DOMAIN record \cup {j} /\ record'[j] = computed[p][j]
        /\ \A i \in DOMAIN record \ {j} : record'[i] = record[i]
    BY <2>1 DEF Put
  <2>3. basis'[j] = (IF p \in disturbed THEN {} ELSE {Inputs(j)}) /\ \A i \in Jobs \ {j} : basis'[i] = basis[i]
    BY <2>1 DEF TypeOK
  <2>4. ASSUME disturbed = {}, NEW i \in Jobs, i = j \/ (i \in DOMAIN record /\ Describes(record[i], i, content))
        PROVE  i \in DOMAIN record' /\ Describes(record'[i], i, content)
    BY <1>0, <1>5, <1>6, <2>2, <2>4
  <2>5. TypeOK'
    BY <1>0, <1>1, <2>1 DEF TypeOK, Statuses
  <2>6. StoreInv'
    <3> SUFFICES ASSUME disturbed = {}, NEW q \in Runs, NEW i \in Jobs
                 PROVE  /\ run[q].mode # "plain" /\ status'[q][i] \in {"passed", "cached"} =>
                              i \in DOMAIN record' /\ Describes(record'[i], i, content)
                        /\ status'[q][i] \in {"collected", "passed"} => FilesKept(i, outputs)
                        /\ status'[q][i] = "cached" => AllKept(i, outputs)
      BY <1>1, PipelineFrame DEF StoreInv
    <3>1. CASE <<q, i>> = <<p, j>>
      <4>1. status[p][j] = "collected" /\ status'[q][i] = "passed"
        BY <1>1, <1>2, <1>6, <3>1
      <4>2. j \in DOMAIN record' /\ Describes(record'[j], j, content)
        BY <1>0, <1>5, <1>6, <2>2
      <4> QED
        BY <3>1, <4>1, <4>2 DEF StoreInv
    <3>2. CASE <<q, i>> # <<p, j>>
      <4>1. status'[q][i] = status[q][i]
        BY <1>2, <3>2
      <4> QED
        BY <2>4, <4>1 DEF StoreInv
    <3> QED
      BY <3>1, <3>2
  <2>7. SettledInv'
    BY <1>1, <2>4, HereAreJobs, PipelineFrame DEF SettledInv, TypeOK
  <2>8. BasisInv'
    <3> SUFFICES ASSUME NEW i \in Jobs, i \in DOMAIN record', basis'[i] # {}
                 PROVE  \E c \in [Files -> Contents] :
                            Describes(record'[i], i, c) /\ basis'[i] = {InputsOf(i, c)}
      BY <1>1, PipelineFrame DEF BasisInv
    <3>1. CASE i # j
      BY <2>2, <2>3, <3>1 DEF BasisInv
    <3>2. CASE i = j
      <4>1. basis'[j] = {InputsOf(j, content)}
        BY <2>3, <3>2 DEF Inputs, InputsOf
      <4> QED
        BY <1>0, <1>4, <1>5, <1>6, <2>2, <2>3, <3>2, <4>1 DEF TypeOK
    <3> QED
      BY <3>1, <3>2
  <2>9. MemoInv' /\ CalmInv'
    BY <1>0, <1>1, <1>2, <1>3, PipelineFrame DEF MemoInv, CalmInv, Active, TypeOK, Unreached
  <2> QED
    BY <2>5, <2>6, <2>7, <2>8, <2>9
<1>7. CASE s = "unrecorded"
  <2>1. UNCHANGED <<record, basis>>
    BY <1>0, <1>7
  <2>2. TypeOK'
    BY <1>0, <1>1, <2>1 DEF TypeOK, Statuses
  <2>3. MemoInv' /\ CalmInv'
    BY <1>0, <1>1, <1>2, <1>3, PipelineFrame DEF MemoInv, CalmInv, Active, TypeOK, Unreached
  <2>4. StoreInv'
    <3> SUFFICES ASSUME disturbed = {}, NEW q \in Runs, NEW i \in Jobs
                 PROVE  /\ run[q].mode # "plain" /\ status'[q][i] \in {"passed", "cached"} =>
                              i \in DOMAIN record /\ Describes(record[i], i, content)
                        /\ status'[q][i] \in {"collected", "passed"} => FilesKept(i, outputs)
                        /\ status'[q][i] = "cached" => AllKept(i, outputs)
      BY <1>1, <2>1, PipelineFrame DEF StoreInv
    <3>1. CASE <<q, i>> = <<p, j>>
      BY <1>2, <1>7, <3>1
    <3>2. CASE <<q, i>> # <<p, j>>
      BY <1>2, <3>2 DEF StoreInv
    <3> QED
      BY <3>1, <3>2
  <2>5. SettledInv' /\ BasisInv'
    BY <1>1, <2>1, PipelineFrame DEF SettledInv, BasisInv
  <2> QED
    BY <2>2, <2>3, <2>4, <2>5
<1> QED
  BY <1>6, <1>7

\* With a process go its memo and what was said of it; the last one to go leaves calm.
LEMMA LeaveInv ==
    ASSUME Inv, NEW p \in Runs, run[p] # Idle, Leave(p),
           UNCHANGED settled \/ (settled' \in BOOLEAN /\ (settled' => SettledInv'))
    PROVE  Inv'
<1> USE DEF Inv
<1>1. /\ UNCHANGED <<pipeline, content, record, outputs, basis>>
      /\ run' = [run EXCEPT ![p] = Idle]
      /\ computed' = [computed EXCEPT ![p] = << >>] /\ calls' = [calls EXCEPT ![p] = << >>]
      /\ digest' = [digest EXCEPT ![p] = None] /\ status' = [status EXCEPT ![p] = Unreached]
      /\ disturbed' = disturbed \ {p}
  BY DEF Leave, project
<1>2. /\ run'[p] = Idle /\ computed'[p] = << >> /\ calls'[p] = << >> /\ digest'[p] = None
      /\ status'[p] = Unreached
      /\ \A q \in Runs \ {p} : /\ run'[q] = run[q] /\ computed'[q] = computed[q] /\ calls'[q] = calls[q]
                               /\ digest'[q] = digest[q] /\ status'[q] = status[q]
  BY <1>1 DEF TypeOK
<1>3. TypeOK'
  BY <1>1 DEF TypeOK, Unreached, Statuses
<1>4. MemoInv'
  BY <1>1, <1>2, PipelineFrame DEF MemoInv, Unreached
<1>5. Active' = Active \ {p} /\ p \in Active
  BY <1>2 DEF Active
<1>6. disturbed' = {} => disturbed = {} \/ \A q \in Runs : run'[q] = Idle
  BY <1>1, <1>5 DEF CalmInv, Active
<1>7. ASSUME disturbed = {} PROVE CalmInv' /\ StoreInv'
  <2>1. CalmInv'
    <3> SUFFICES ASSUME NEW q \in Runs
                 PROVE  /\ digest'[q] \in {None, content}
                        /\ \A i \in DOMAIN calls'[q] : calls'[q][i] = FilesOf(i, content)
                        /\ IsTable(computed'[q], content)
      BY <1>1, <1>5, <1>7, PipelineFrame DEF CalmInv
    <3>1. CASE q = p
      BY <1>2, <3>1 DEF IsTable
    <3>2. CASE q # p
      BY <1>2, <1>7, <3>2 DEF CalmInv
    <3> QED
      BY <3>1, <3>2
  <2>2. StoreInv'
    <3>1. \A q \in Runs, j \in Jobs :
              status'[q][j] = "waiting" \/ (run'[q] = run[q] /\ status'[q][j] = status[q][j])
      <4>1. \A j \in Jobs : status'[p][j] = "waiting"
        BY <1>2 DEF Unreached
      <4> QED
        BY <1>2, <4>1
    <3> QED
      BY <1>1, <1>7, <3>1, PipelineFrame DEF StoreInv
  <2> QED
    BY <2>1, <2>2
<1>8. ASSUME disturbed # {} PROVE CalmInv' /\ StoreInv'
  <2>1. disturbed' \in {{}, Active'}
    BY <1>1, <1>5, <1>8 DEF CalmInv
  <2>2. CASE disturbed' # {}
    BY <2>1, <2>2 DEF CalmInv, StoreInv
  <2>3. CASE \A q \in Runs : run'[q] = Idle
    <3>1. \A q \in Runs : computed'[q] = << >> /\ calls'[q] = << >> /\ digest'[q] = None /\ status'[q] = Unreached
      BY <1>4, <2>3 DEF MemoInv, Unreached
    <3>2. CalmInv'
      BY <2>1, <3>1 DEF CalmInv, IsTable
    <3>3. StoreInv'
      BY <3>1 DEF StoreInv, Unreached
    <3> QED
      BY <3>2, <3>3
  <2> QED
    BY <1>6, <1>8, <2>2, <2>3
<1>9. SettledInv'
  BY <1>1, PipelineFrame DEF SettledInv
<1>10. BasisInv'
  BY <1>1, PipelineFrame DEF BasisInv
<1> QED
  BY <1>3, <1>4, <1>7, <1>8, <1>9, <1>10

\* A run that ends well and undisturbed leaves every job recorded over the files as they are.
LEMMA EndInv == ASSUME Inv, NEW p \in Runs, End(p) PROVE Inv'
<1> USE DEF Inv
<1>1. /\ run[p] # Idle /\ Leave(p)
      /\ settled' = \/ settled
                    \/ /\ run[p].mode # "plain"
                       /\ \A j \in Picked : status[p][j] \in {"passed", "cached"}
                       /\ disturbed \cap Active = {}
  BY DEF End, Picked
<1>2. settled' \in BOOLEAN
  BY <1>1 DEF TypeOK
<1>3. ASSUME settled' PROVE SettledInv'
  <2>1. UNCHANGED <<pipeline, content, record, outputs>> /\ disturbed' = disturbed \ {p}
    BY <1>1 DEF Leave, project
  <2>2. CASE settled
    BY <2>1, <2>2, PipelineFrame DEF SettledInv
  <2>3. CASE ~settled
    <3>1. /\ run[p].mode # "plain" /\ \A j \in Picked : status[p][j] \in {"passed", "cached"}
          /\ disturbed \cap Active = {}
      BY <1>1, <1>3, <2>3
    <3>2. disturbed = {} /\ Picked \subseteq Jobs
      BY <3>1, HereAreJobs DEF CalmInv, TypeOK
    <3>3. ASSUME NEW j \in Picked
          PROVE  /\ j \in DOMAIN record /\ Describes(record[j], j, content)
                 /\ FilesKept(j, outputs)
      BY <3>1, <3>2 DEF StoreInv, FilesKept, AllKept
    <3> QED
      BY <2>1, <3>2, <3>3, PipelineFrame DEF SettledInv
  <2> QED
    BY <2>2, <2>3
<1> QED
  BY <1>1, <1>2, <1>3, LeaveInv

\* An edit, or a cleaning of the store, disturbs whoever is at work.
LEMMA TouchInv ==
    ASSUME Inv, Touch, UNCHANGED <<pipeline, process, basis>>,
           content' \in [Files -> Contents], outputs' \subseteq outputs, record' \in {record, << >>}
    PROVE  Inv'
<1> USE DEF Inv
<1>1. /\ disturbed' = Active /\ settled' = FALSE /\ Active' = Active
      /\ UNCHANGED <<run, computed, calls, digest, status, basis>>
  BY DEF Touch, process, Active
<1>2. TypeOK'
  BY <1>1 DEF TypeOK, Active
<1>3. MemoInv'
  BY <1>1, PipelineFrame DEF MemoInv, Unreached
<1>4. ASSUME disturbed' = {}, NEW p \in Runs
      PROVE  computed'[p] = << >> /\ calls'[p] = << >> /\ digest'[p] = None /\ status'[p] = Unreached
  BY <1>1, <1>4 DEF MemoInv, Active
<1>5. CalmInv'
  BY <1>1, <1>4 DEF CalmInv, IsTable
<1>6. StoreInv'
  BY <1>4 DEF StoreInv, Unreached
<1>7. SettledInv'
  BY <1>1 DEF SettledInv
<1>8. BasisInv'
  <2>1. \A j \in DOMAIN record' : j \in DOMAIN record /\ record'[j] = record[j]
    OBVIOUS
  <2> QED
    BY <1>1, <2>1, PipelineFrame DEF BasisInv
<1> QED
  BY <1>2, <1>3, <1>5, <1>6, <1>7, <1>8

LEMMA EditInv == ASSUME Inv, Edit PROVE Inv'
<1>1. Touch /\ UNCHANGED <<pipeline, record, outputs, process, basis>>
  BY DEF Edit
<1>2. content' \in [Files -> Contents]
  BY DEF Edit, Inv, TypeOK
<1> QED
  BY <1>1, <1>2, TouchInv

LEMMA CleanInv == ASSUME Inv, Clean PROVE Inv'
<1>1. Touch /\ UNCHANGED <<pipeline, content, process, basis>>
  BY DEF Clean
<1>2. outputs' \subseteq outputs /\ record' \in {record, << >>}
  BY DEF Clean
<1>3. content' \in [Files -> Contents]
  BY <1>1 DEF Inv, TypeOK
<1> QED
  BY <1>1, <1>2, <1>3, TouchInv

\* Every step keeps the invariant.
LEMMA NextInv == Inv /\ [Next]_vars => Inv'
<1> SUFFICES ASSUME Inv, [Next]_vars PROVE Inv'
  OBVIOUS
<1>1. CASE Edit
  BY <1>1, EditInv
<1>2. CASE Clean
  BY <1>2, CleanInv
<1>3. ASSUME NEW p \in Runs, Start(p) \/ End(p) \/ Kill(p) PROVE Inv'
  <2>1. CASE Kill(p)
    BY <2>1, LeaveInv DEF Kill
  <2> QED
    BY <1>3, <2>1, StartInv, EndInv
<1>4. ASSUME NEW p \in Runs, NEW j \in Jobs, Reach(p, j) \/ Return(p, j) \/ Finish(p, j) \/ Record(p, j)
      PROVE  Inv'
  BY <1>4, ReachInv, ReturnInv, FinishInv, RecordInv
<1>5. ASSUME NEW p \in Runs, NEW j \in Jobs, NEW d \in Jobs, Descend(p, j, d) PROVE Inv'
  BY <1>5, DescendInv
<1>6. CASE UNCHANGED vars
  <2>1. /\ UNCHANGED <<pipeline, content, record, outputs, run, computed, calls, digest, status>>
        /\ UNCHANGED <<basis, disturbed, settled>>
    BY <1>6 DEF vars, project, process, ghosts
  <2>2. TypeOK' /\ MemoInv' /\ CalmInv'
    BY <2>1, PipelineFrame DEF Inv, TypeOK, MemoInv, CalmInv, Active, Unreached
  <2>3. StoreInv' /\ SettledInv' /\ BasisInv'
    BY <2>1, PipelineFrame DEF Inv, StoreInv, SettledInv, BasisInv
  <2> QED
    BY <2>2, <2>3 DEF Inv
<1> QED
  BY <1>1, <1>2, <1>3, <1>4, <1>5, <1>6 DEF Next

\* At first nothing runs, and nothing is recorded.
LEMMA InitInv == Init => Inv
<1> SUFFICES ASSUME Init PROVE Inv
  OBVIOUS
<1> USE DEF Init
<1>1. TypeOK
  BY DEF TypeOK, Unreached, Statuses
<1>2. MemoInv /\ CalmInv
  BY DEF MemoInv, CalmInv, Active, IsTable, Unreached
<1>3. StoreInv /\ SettledInv /\ BasisInv
  BY DEF StoreInv, SettledInv, BasisInv, Unreached
<1> QED
  BY <1>1, <1>2, <1>3 DEF Inv

-----------------------------------------------------------------------------
(* The theorems.                                                           *)

\* Types: a memo and the calls belong to each run, a status to each of its jobs.
THEOREM IncrementalTypeCorrect == Spec => []TypeOK
<1>1. Inv => TypeOK
  BY DEF Inv
<1> QED
  BY <1>1, InitInv, NextInv, PTL DEF Spec

\* The one step by which a job comes to be cached or, in an --incremental run, to run
LEMMA OnlyReturnDecides ==
    ASSUME Inv, [Next]_vars, NEW p \in Runs, NEW j \in Jobs,
           status'[p][j] \in {"cached", "running"}, status[p][j] # status'[p][j]
    PROVE  \/ status'[p][j] = "running" /\ run[p].mode = "plain"
           \/ Return(p, j) /\ status[p][j] = "asked"
<1>1. status = [q \in Runs |-> [i \in Jobs |-> status[q][i]]]
  BY DEF Inv, TypeOK
<1>2. CASE Edit \/ Clean \/ UNCHANGED vars
  BY <1>2 DEF Edit, Clean, vars, process
<1>3. ASSUME NEW q \in Runs, Start(q) PROVE FALSE
  BY <1>3 DEF Start
<1>4. ASSUME NEW q \in Runs, Leave(q) PROVE FALSE
  BY <1>1, <1>4 DEF Leave, Unreached
<1>5. ASSUME NEW q \in Runs, NEW i \in Jobs, Reach(q, i)
      PROVE  status'[p][j] = "running" /\ run[p].mode = "plain"
  BY <1>1, <1>5 DEF Reach
<1>6. ASSUME NEW q \in Runs, NEW i \in Jobs, Return(q, i)
      PROVE  Return(p, j) /\ status[p][j] = "asked"
  <2>1. q = p /\ i = j /\ status[q][i] = "asked"
    BY <1>1, <1>6 DEF Return
  <2> QED
    BY <1>6, <2>1
<1>7. ASSUME NEW q \in Runs, NEW i \in Jobs, Finish(q, i) PROVE FALSE
  <2>1. PICK end \in {"failed", "collected", "mutated"} : status' = [status EXCEPT ![q][i] = end]
    BY <1>7, Zenon DEF Finish
  <2> QED
    BY <1>1, <2>1
<1>8. ASSUME NEW q \in Runs, NEW i \in Jobs, Record(q, i) PROVE FALSE
  <2>1. PICK end \in {"passed", "unrecorded"} : status' = [status EXCEPT ![q][i] = end]
    BY <1>8, Zenon DEF Record, Recorded, NotRecorded
  <2> QED
    BY <1>1, <2>1
<1>9. ASSUME NEW q \in Runs, NEW i \in Jobs, NEW d \in Jobs, Descend(q, i, d) PROVE FALSE
  BY <1>9 DEF Descend
<1> QED
  BY <1>2, <1>3, <1>4, <1>5, <1>6, <1>7, <1>8, <1>9 DEF Next, End, Kill

\* What a run computes of a job while nothing disturbs it describes the job over the files.
LEMMA ReturnDescribes ==
    ASSUME Inv, NEW p \in Runs, NEW j \in Jobs, Return(p, j), disturbed = {}
    PROVE  \E g : /\ IsTable(g, content) /\ j \in DOMAIN g
                  /\ g[j] = Fingerprint(j, calls[p][j], computed[p])
<1>1. /\ j \in Here /\ j \notin Upstream(j) /\ Upstream(j) \cap Here \subseteq DOMAIN computed[p]
      /\ calls[p][j] = FilesOf(j, content) /\ IsTable(computed[p], content)
  BY DEF Return, Innermost, Inv, MemoInv, CalmInv
<1> DEFINE g == Put(computed[p], j, Fingerprint(j, FilesOf(j, content), computed[p]))
<1>2. IsTable(g, content)
  BY <1>1, TableGrows
<1>3. j \in DOMAIN g /\ g[j] = Fingerprint(j, calls[p][j], computed[p])
  BY <1>1 DEF Put
<1> QED
  BY <1>2, <1>3

\* FingerprintManager.check: a job is reported as cached only on the very inputs, its own and
\* those of every job behind it, with which it once succeeded.
THEOREM HitsAreEarned == Spec => HitIsEarned
<1>1. Inv /\ [Next]_vars =>
          [ \A p \in Runs, j \in Jobs :
              status[p][j] # "cached" /\ status'[p][j] = "cached" /\ p \notin disturbed =>
                  basis[j] \subseteq {Inputs(j)} ]_vars
  <2> SUFFICES ASSUME Inv, [Next]_vars, NEW p \in Runs, NEW j \in Jobs,
                      status[p][j] # "cached", status'[p][j] = "cached", p \notin disturbed, basis[j] # {}
               PROVE  basis[j] \subseteq {Inputs(j)}
    OBVIOUS
  <2> USE DEF Inv
  <2>1. Return(p, j) /\ status[p][j] = "asked"
    BY OnlyReturnDecides
  <2> DEFINE x == Fingerprint(j, calls[p][j], computed[p])
  <2>2. j \in DOMAIN record /\ record[j] = x
    BY <2>1 DEF Return, Hit, TypeOK
  <2>3. run[p] # Idle
    BY <2>1 DEF MemoInv, Unreached
  <2>4. disturbed = {}
    BY <2>3 DEF CalmInv, Active
  <2>5. PICK g : IsTable(g, content) /\ j \in DOMAIN g /\ g[j] = x
    BY <2>1, <2>4, ReturnDescribes
  <2>6. PICK c \in [Files -> Contents] : Describes(record[j], j, c) /\ basis[j] = {InputsOf(j, c)}
    BY <2>2 DEF BasisInv
  <2>7. PICK h : IsTable(h, c) /\ j \in DOMAIN h /\ h[j] = record[j]
    BY <2>6 DEF Describes
  <2>8. InputsOf(j, c) = InputsOf(j, content)
    <3>1. g[j] = h[j] /\ j \in DOMAIN g \cap DOMAIN h
      BY <2>2, <2>5, <2>7
    <3>2. pipeline \in Pipelines /\ content \in [Files -> Contents]
      BY DEF TypeOK
    <3> HIDE DEF Inv
    <3> QED
      BY <2>5, <2>7, <3>1, <3>2, FingerprintsTellInputs
  <2> QED
    BY <2>6, <2>8 DEF InputsOf, Inputs
<1> QED
  BY <1>1, InitInv, NextInv, PTL DEF Spec, HitIsEarned

\* After an --incremental or --refresh run in which all was cached or passed and recorded, as
\* long as nothing is touched, an --incremental run executes a job again only for the lock of
\* its record, or for artifacts that no success leaves in the store.
THEOREM NothingIsRedone == Spec => NothingToRedo
<1>1. Inv /\ [Next]_vars =>
          [ \A p \in Runs, j \in Jobs :
              settled /\ status[p][j] # "running" /\ status'[p][j] = "running" =>
                  \/ run[p].mode # "incremental"
                  \/ LockedOut(p, j)
                  \/ pipeline.artifacts[j] # {} /\ pipeline.artifacts_when[j] = "on_failure"
                  \/ "report" \in pipeline.artifacts[j] /\ <<j, "report">> \notin outputs ]_vars
  <2> SUFFICES ASSUME Inv, [Next]_vars, NEW p \in Runs, NEW j \in Jobs, settled,
                      status[p][j] # "running", status'[p][j] = "running",
                      run[p].mode = "incremental", ~LockedOut(p, j)
               PROVE  \/ pipeline.artifacts[j] # {} /\ pipeline.artifacts_when[j] = "on_failure"
                      \/ "report" \in pipeline.artifacts[j] /\ <<j, "report">> \notin outputs
    OBVIOUS
  <2> USE DEF Inv
  <2>1. Return(p, j) /\ status[p][j] = "asked"
    BY OnlyReturnDecides
  <2> DEFINE x == Fingerprint(j, calls[p][j], computed[p])
  <2>2. ~Hit(p, j, x)
    BY <2>1 DEF Return, TypeOK
  <2>3. disturbed = {} /\ j \in Picked
    BY <2>1 DEF SettledInv, MemoInv
  <2>4. PICK g : IsTable(g, content) /\ j \in DOMAIN g /\ g[j] = x
    BY <2>1, <2>3, ReturnDescribes
  <2>5. PICK h : IsTable(h, content) /\ j \in DOMAIN h /\ h[j] = record[j]
    BY <2>3 DEF SettledInv, Describes
  <2>6. record[j] = x
    BY <2>4, <2>5, TablesAgree DEF TypeOK
  <2>7. PICK kind \in pipeline.artifacts[j] : <<j, kind>> \notin outputs
    BY <2>2, <2>3, <2>6 DEF Hit, SettledInv
  <2>8. FilesKept(j, outputs)
    BY <2>3 DEF SettledInv
  <2>9. /\ kind \in {"files", "report"}
        /\ pipeline.artifacts_when[j] \in {"on_success", "on_failure", "always"}
    <3>1. pipeline \in Pipeline
      BY PipelinesAssumption DEF TypeOK
    <3> QED
      BY <3>1 DEF Pipeline
  <2> QED
    BY <2>7, <2>8, <2>9 DEF FilesKept
<1> QED
  BY <1>1, InitInv, NextInv, PTL DEF Spec, NothingToRedo
=============================================================================
