-------------------------- MODULE TuiSessionProofs --------------------------
(***************************************************************************)
(* OneRunAtATime and NothingLooksRunning, for every pipeline and any       *)
(* number of runs, of single jobs and of messages.                         *)
(* Restart looks at pipeline_success and at the cancel event only.  While  *)
(* nobody has cancelled and no job is manual, these tell the truth about   *)
(* the threads: pipeline_success is None as long as one of them is at work.*)
(***************************************************************************)
EXTENDS TuiSession, FiniteSetTheorems, SequenceTheorems, TLAPS

\* The entry of a thread is a record with a field "at"; its other fields do not matter.
IsPlace(x) == "at" \in DOMAIN x
Works(r) == run[r].at \notin {"idle", "over"}
HasManual == \E j \in JobsOf(pipeline) : pipeline.when[j] = "manual"
Undisturbed == ~ever_cancelled /\ ~HasManual

\* The flags that Restart looks at tell the truth.
FlagsAreTrue ==
    Undisturbed =>
        /\ ~cancel_event
        /\ \A r \in 1..MaxRuns :
              Works(r) => /\ pipeline_success = None
                          /\ run[r].at \notin {"cancelled", "paused", "ending cancelled"}
        /\ \A r, q \in 1..MaxRuns : Works(r) /\ Works(q) => r = q

Placed == DOMAIN run = 1..MaxRuns /\ \A r \in 1..MaxRuns : IsPlace(run[r])

Inv ==
    /\ Placed
    /\ FlagsAreTrue

\* The first run is launched before anything else happens.
LEMMA InitInv == Init => Inv
<1> SUFFICES ASSUME Init PROVE Inv
  OBVIOUS
<1>1. Placed
  BY DEF Init, Idle, Launched, Placed, IsPlace
<1>2. FlagsAreTrue
  BY DEF Init, Idle, Launched, FlagsAreTrue, Undisturbed, Works
<1> QED
  BY <1>1, <1>2 DEF Inv

\* A step of one thread that leaves the flags alone, and does not go where only a cancelled
\* or a manual pipeline goes, keeps the invariant.
LEMMA ThreadStep ==
    ASSUME Inv, NEW r \in 1..MaxRuns, NEW place, IsPlace(place),
           run' = [run EXCEPT ![r] = place],
           Works(r) \/ place.at = run[r].at,
           Undisturbed => place.at \notin {"cancelled", "paused", "ending cancelled"}
                          \/ place.at = run[r].at,
           UNCHANGED <<pipeline, cancel_event, ever_cancelled>>,
           pipeline_success' = pipeline_success \/ (Works(r) /\ place.at = "over")
    PROVE  Inv'
<1>1. Placed'
  BY DEF Inv, Placed
<1>2. Undisturbed' = Undisturbed
  BY DEF Undisturbed, HasManual, JobsOf
<1>3. FlagsAreTrue'
  BY <1>2 DEF Inv, Placed, FlagsAreTrue, Works
<1> QED
  BY <1>1, <1>3 DEF Inv

\* What the loop over the stages does to its thread
LEMMA LoopForms ==
    ASSUME Inv, NEW r \in 1..MaxRuns, Loop(r)
    PROVE  /\ Works(r) /\ UNCHANGED <<pipeline, cancel_event, ever_cancelled, pipeline_success>>
           /\ \/ /\ cancel_event
                 /\ run' = [run EXCEPT ![r] = [run[r] EXCEPT !.at = "cancelled", !.success = FALSE]]
              \/ HasManual /\ run' = [run EXCEPT ![r] = [run[r] EXCEPT !.at = "paused"]]
              \/ run' = [run EXCEPT ![r] = [run[r] EXCEPT !.at = "closing"]]
              \/ run' = [run EXCEPT ![r] = [run[r] EXCEPT !.stage = run[r].stage + 1]]
              \/ run' = [run EXCEPT ![r] = [run[r] EXCEPT !.at = "stage"]]
<1>1. Works(r) /\ UNCHANGED <<pipeline, cancel_event, ever_cancelled, pipeline_success>>
  BY DEF Loop, Works, screen, ghosts
<1>2. CASE cancel_event /\ run' = [run EXCEPT ![r].at = "cancelled", ![r].success = FALSE]
  BY <1>1, <1>2 DEF Inv, Placed
<1>3. CASE Goto(r, IF run[r].success /\ HasManual THEN "paused" ELSE "closing")
  BY <1>1, <1>3 DEF Goto
<1>4. CASE run' = [run EXCEPT ![r].stage = run[r].stage + 1]
  BY <1>1, <1>4
<1>5. CASE Goto(r, "stage")
  BY <1>1, <1>5 DEF Goto
<1> QED
  BY <1>2, <1>3, <1>4, <1>5 DEF Loop, HasManual

\* One case per action of a thread.
LEMMA RunStepInv == ASSUME Inv, NEW r \in 1..MaxRuns, RunStep(r) PROVE Inv'
<1> USE DEF Goto, screen, threads, ghosts
<1>0. IsPlace(run[r]) /\ r \in DOMAIN run
  BY DEF Inv, Placed
<1>1. ASSUME Loop(r) PROVE Inv'
  <2>1. CASE cancel_event /\ run' = [run EXCEPT ![r] = [run[r] EXCEPT !.at = "cancelled", !.success = FALSE]]
    <3>1. IsPlace([run[r] EXCEPT !.at = "cancelled", !.success = FALSE])
      BY <1>0 DEF IsPlace
    <3>2. ~Undisturbed
      BY <2>1 DEF Inv, FlagsAreTrue
    <3> QED
      BY <1>1, <2>1, <3>1, <3>2, LoopForms, ThreadStep
  <2>2. CASE HasManual /\ run' = [run EXCEPT ![r] = [run[r] EXCEPT !.at = "paused"]]
    <3>1. IsPlace([run[r] EXCEPT !.at = "paused"])
      BY <1>0 DEF IsPlace
    <3> QED
      BY <1>1, <2>2, <3>1, LoopForms, ThreadStep DEF Undisturbed
  <2>3. CASE run' = [run EXCEPT ![r] = [run[r] EXCEPT !.at = "closing"]]
    <3>1. IsPlace([run[r] EXCEPT !.at = "closing"]) /\ [run[r] EXCEPT !.at = "closing"].at = "closing"
      BY <1>0 DEF IsPlace
    <3> QED
      BY <1>1, <2>3, <3>1, LoopForms, ThreadStep
  <2>4. CASE run' = [run EXCEPT ![r] = [run[r] EXCEPT !.stage = run[r].stage + 1]]
    <3>1. IsPlace([run[r] EXCEPT !.stage = run[r].stage + 1])
          /\ [run[r] EXCEPT !.stage = run[r].stage + 1].at = run[r].at
      BY <1>0 DEF IsPlace
    <3> QED
      BY <1>1, <2>4, <3>1, LoopForms, ThreadStep
  <2>5. CASE run' = [run EXCEPT ![r] = [run[r] EXCEPT !.at = "stage"]]
    <3>1. IsPlace([run[r] EXCEPT !.at = "stage"]) /\ [run[r] EXCEPT !.at = "stage"].at = "stage"
      BY <1>0 DEF IsPlace
    <3> QED
      BY <1>1, <2>5, <3>1, LoopForms, ThreadStep
  <2> QED
    BY <1>1, <2>1, <2>2, <2>3, <2>4, <2>5, LoopForms
<1>2. ASSUME StartJob(r) \/ Memoized(r) PROVE Inv'
  <2>1. UNCHANGED <<pipeline, cancel_event, ever_cancelled, pipeline_success, run>>
    BY <1>2 DEF StartJob, Memoized
  <2> QED
    BY <2>1 DEF Inv, Placed, FlagsAreTrue, Undisturbed, HasManual, JobsOf, Works
<1>3. ASSUME NEW j \in Jobs, EndJob(r, j) PROVE Inv'
  <2>1. PICK passed \in BOOLEAN : Ended(r, j, passed)
    BY <1>3 DEF EndJob
  <2> DEFINE place == [run[r] EXCEPT !.success = run[r].success /\ passed]
  <2>2. IsPlace(place) /\ place.at = run[r].at
    BY <1>0 DEF IsPlace
  <2>3. run' = [run EXCEPT ![r] = place]
    BY <2>1 DEF Ended
  <2>4. UNCHANGED <<pipeline, cancel_event, ever_cancelled, pipeline_success>>
    BY <1>3 DEF EndJob
  <2> HIDE DEF place
  <2> QED
    BY <2>2, <2>3, <2>4, ThreadStep
<1>4. ASSUME EndStage(r) PROVE Inv'
  <2>1. PICK warned \in BOOLEAN :
            run' = [run EXCEPT ![r].at = "loop", ![r].stage = @ + 1,
                               ![r].failure = @ \/ ~run[r].success \/ warned]
    BY <1>4 DEF EndStage
  <2> DEFINE failed == run[r].failure \/ ~run[r].success \/ warned
             place == [run[r] EXCEPT !.at = "loop", !.stage = run[r].stage + 1, !.failure = failed]
  <2> HIDE DEF failed
  <2>3. IsPlace(place) /\ place.at = "loop"
    BY <1>0 DEF IsPlace
  <2>4. run' = [run EXCEPT ![r] = place]
    BY <2>1, <1>0 DEF failed
  <2>5. Works(r) /\ UNCHANGED <<pipeline, cancel_event, ever_cancelled, pipeline_success>>
    BY <1>4 DEF EndStage, Works
  <2> HIDE DEF place
  <2> QED
    BY <2>3, <2>4, <2>5, ThreadStep
<1>5. ASSUME Crash(r) PROVE Inv'
  <2> DEFINE place == [run[r] EXCEPT !.at = "closing", !.success = FALSE]
  <2>1. IsPlace(place) /\ place.at = "closing"
    BY <1>0 DEF IsPlace
  <2>2. run' = [run EXCEPT ![r] = place]
    BY <1>5, <1>0 DEF Crash
  <2>3. Works(r) /\ UNCHANGED <<pipeline, cancel_event, ever_cancelled, pipeline_success>>
    BY <1>5 DEF Crash, Works
  <2> HIDE DEF place
  <2> QED
    BY <2>1, <2>2, <2>3, ThreadStep
<1>6. ASSUME OnCancelled(r) \/ AwaitManual(r) PROVE Inv'
  <2>1. ~Undisturbed
    BY <1>6 DEF OnCancelled, AwaitManual, Inv, FlagsAreTrue, Works
  <2>2. Undisturbed' = Undisturbed
    BY <1>6 DEF OnCancelled, AwaitManual, Undisturbed, HasManual, JobsOf
  <2>3. Placed'
    <3>1. IsPlace([run[r] EXCEPT !.at = "closing"])
      BY <1>0 DEF IsPlace
    <3>2. run' = [run EXCEPT ![r] = [run[r] EXCEPT !.at = "closing"]]
      BY <1>6 DEF OnCancelled, AwaitManual
    <3> QED
      BY <3>1, <3>2 DEF Inv, Placed
  <2> QED
    BY <2>1, <2>2, <2>3 DEF Inv, FlagsAreTrue
<1>7. ASSUME Close(r) PROVE Inv'
  <2> DEFINE end == IF cancel_event THEN "ending cancelled" ELSE "ending"
             place == [run[r] EXCEPT !.at = end]
  <2>0. end # "over" /\ (~cancel_event => end = "ending")
    OBVIOUS
  <2> HIDE DEF end
  <2>1. IsPlace(place) /\ place.at = end
    BY <1>0 DEF IsPlace
  <2>2. run' = [run EXCEPT ![r] = place]
    BY <1>7 DEF Close, end
  <2>3. Works(r) /\ UNCHANGED <<pipeline, cancel_event, ever_cancelled, pipeline_success>>
    BY <1>7 DEF Close, Works
  <2>4. Undisturbed => ~cancel_event
    BY DEF Inv, FlagsAreTrue
  <2> HIDE DEF place
  <2> QED
    BY <2>0, <2>1, <2>2, <2>3, <2>4, ThreadStep
<1>8. ASSUME Complete(r) PROVE Inv'
  <2> DEFINE place == [Idle EXCEPT !.at = "over"]
  <2>1. IsPlace(place) /\ place.at = "over"
    BY DEF Idle, IsPlace
  <2>2. run' = [run EXCEPT ![r] = place] /\ Works(r) /\ UNCHANGED <<pipeline, cancel_event, ever_cancelled>>
    BY <1>8 DEF Complete, Works
  <2> HIDE DEF place
  <2> QED
    BY <2>1, <2>2, ThreadStep
<1> QED
  BY <1>1, <1>2, <1>3, <1>4, <1>5, <1>6, <1>7, <1>8 DEF RunStep

\* The steps of the user and of the event loop; a restart finds every thread at rest.
LEMMA NextInv == Inv /\ [Next]_vars => Inv'
<1> SUFFICES ASSUME Inv, [Next]_vars PROVE Inv'
  OBVIOUS
<1>1. ASSUME NEW r \in 1..MaxRuns, RunStep(r) PROVE Inv'
  BY <1>1, RunStepInv
<1>2. ASSUME UNCHANGED <<pipeline, cancel_event, ever_cancelled, pipeline_success, run>> PROVE Inv'
  BY <1>2 DEF Inv, Placed, FlagsAreTrue, Undisturbed, HasManual, JobsOf, Works
<1>3. ASSUME Cancel PROVE Inv'
  <2>1. UNCHANGED <<pipeline, run>> /\ ever_cancelled'
    BY <1>3 DEF Cancel, threads
  <2> QED
    BY <2>1 DEF Inv, Placed, FlagsAreTrue, Undisturbed
<1>4. ASSUME Restart PROVE Inv'
  <2>1. PICK r \in 1..MaxRuns : run[r].at = "idle" /\ run' = [run EXCEPT ![r] = Launched]
    BY <1>4 DEF Restart, Relaunch
  <2>2. ~cancel_event' /\ pipeline_success' = None /\ UNCHANGED <<pipeline, ever_cancelled>>
    BY <1>4 DEF Restart, Relaunch, ghosts
  <2>3. IsPlace(Launched) /\ Launched.at = "loop"
    BY DEF Launched, Idle, IsPlace
  <2>4. Placed'
    BY <2>1, <2>3 DEF Inv, Placed
  <2>5. Undisturbed' = Undisturbed
    BY <2>2 DEF Undisturbed, HasManual, JobsOf
  <2>6. Undisturbed => \A q \in 1..MaxRuns : ~Works(q)
    BY <1>4 DEF Restart, Inv, FlagsAreTrue
  <2>7. FlagsAreTrue'
    BY <2>1, <2>2, <2>3, <2>5, <2>6 DEF FlagsAreTrue, Works, Inv, Placed
  <2> QED
    BY <2>4, <2>7 DEF Inv
<1>5. ASSUME NEW n \in DOMAIN inline, InlineStart(n) \/ InlineEnd(n) PROVE Inv'
  BY <1>5, <1>2 DEF InlineStart, InlineEnd, threads, ghosts
<1>6. ASSUME Deliver PROVE Inv'
  BY <1>6, <1>2 DEF Deliver, threads, ghosts
<1>7. ASSUME NEW j \in Jobs, RestartJob(j) PROVE Inv'
  BY <1>7, <1>2 DEF RestartJob, screen, threads, ghosts
<1>8. CASE UNCHANGED vars
  BY <1>8, <1>2 DEF vars, screen, threads, ghosts
<1> QED
  BY <1>1, <1>3, <1>4, <1>5, <1>6, <1>7, <1>8 DEF Next

\* For every pipeline, however often it is restarted: as long as the user has not cancelled
\* and no job is manual, the guard of Restart keeps a second run from starting.
THEOREM RunsAreSerial == Spec => []OneRunAtATime
<1>1. Inv => OneRunAtATime
  <2> SUFFICES ASSUME Inv, Undisturbed PROVE Cardinality(Active) <= 1
    BY DEF OneRunAtATime, Undisturbed, HasManual
  <2>1. \A r, q \in Active : r = q
    BY DEF Inv, FlagsAreTrue, Active, Works
  <2>2. CASE Active = {}
    BY <2>2, FS_EmptySet
  <2>3. CASE Active # {}
    <3>1. PICK r \in Active : TRUE
      BY <2>3
    <3>2. Active = {r}
      BY <3>1, <2>1
    <3>3. Cardinality({r}) = 1
      BY FS_Singleton
    <3> QED
      BY <3>2, <3>3
  <2> QED
    BY <2>2, <2>3
<1> QED
  BY <1>1, InitInv, NextInv, PTL DEF Spec

-----------------------------------------------------------------------------
(* What the tabs show.                                                     *)

\* Once the messages m are handled, the tab of j has the icon of "running", if lit has it now.
Shows(m, L, j) ==
    \/ \E i \in DOMAIN m : /\ m[i][1] = j /\ m[i][2]
                           /\ \A k \in DOMAIN m : k > i => m[k][1] # j
    \/ j \in L /\ \A k \in DOMAIN m : m[k][1] # j

Told(j) == Shows(messages, lit, j)

\* Somebody runs j and will tell its end, or nobody ever will.
Meant(j) ==
    \/ j \in orphans
    \/ \E r \in 1..MaxRuns : j \in running[r]
    \/ \E n \in DOMAIN inline : inline[n].at = "running" /\ inline[n].job = j

InlineJob == [job : Jobs, at : {"launched", "running"}]

Tracked ==
    /\ messages \in Seq(ToSet(messages))
    /\ inline \in Seq(InlineJob)
    /\ DOMAIN running = 1..MaxRuns
    /\ \A r \in 1..MaxRuns : running[r] # {} => run[r].at = "stage"

TabsInv ==
    /\ Tracked
    /\ \A j \in lit \cup {messages[i][1] : i \in DOMAIN messages} : Told(j) => Meant(j)

\* The last conjunct is about every job: of no other is there anything to tell.
LEMMA ToldIsMeant == TabsInv <=> Tracked /\ \A j : Told(j) => Meant(j)
<1>1. ASSUME NEW j, Told(j) PROVE j \in lit \cup {messages[i][1] : i \in DOMAIN messages}
  BY <1>1 DEF Told, Shows
<1> QED
  BY <1>1 DEF TabsInv

LEMMA InitTabs == ASSUME Init PROVE TabsInv
<1>1. messages = << >> /\ inline = << >> /\ lit = {} /\ \A r \in 1..MaxRuns : running[r] = {}
  BY DEF Init
<1>2. Tracked
  BY <1>1, EmptySeq DEF Init, Tracked
<1>3. \A j : ~Told(j)
  BY <1>1 DEF Told, Shows
<1> QED
  BY <1>2, <1>3, ToldIsMeant

-----------------------------------------------------------------------------
(* What is told after a message is posted, or handled.                     *)

LEMMA AppendedSeq ==
    ASSUME NEW s, NEW e, s \in Seq(ToSet(s))
    PROVE  LET t == Append(s, e) IN
           /\ t \in Seq(ToSet(t)) /\ Len(s) \in Nat
           /\ DOMAIN s = 1..Len(s) /\ DOMAIN t = 1..(Len(s) + 1)
           /\ \A i \in DOMAIN s : t[i] = s[i]
           /\ t[Len(s) + 1] = e
<1> DEFINE t == Append(s, e)
           T == ToSet(s) \cup {e}
<1>1. s \in Seq(T)
  BY SeqMonotonic DEF ToSet
<1>2. /\ t \in Seq(T) /\ Len(t) = Len(s) + 1
      /\ \A i \in 1..Len(s) : t[i] = s[i]
      /\ t[Len(s) + 1] = e
  BY <1>1, AppendProperties
<1>3. DOMAIN s = 1..Len(s) /\ DOMAIN t = 1..(Len(s) + 1) /\ Len(s) \in Nat
  BY <1>1, <1>2, LenProperties
<1>4. t \in Seq(ToSet(t))
  <2>1. \A i \in 1..Len(t) : t[i] \in ToSet(t)
    BY <1>2, <1>3 DEF ToSet
  <2> HIDE DEF t
  <2> QED
    BY <1>2, <2>1
<1> QED
  BY <1>2, <1>3, <1>4

LEMMA PostedShows ==
    ASSUME NEW m, m \in Seq(ToSet(m)), NEW L, NEW h, NEW runs,
           NEW j, Shows(Append(m, <<h, runs>>), L, j)
    PROVE  IF j = h THEN runs ELSE Shows(m, L, j)
<1> DEFINE n == Len(m) + 1
           t == Append(m, <<h, runs>>)
<1>1. /\ n \in Nat /\ DOMAIN m = 1..(n - 1) /\ DOMAIN t = 1..n
      /\ \A i \in DOMAIN m : t[i] = m[i]
      /\ t[n] = <<h, runs>>
  BY AppendedSeq
<1> HIDE DEF n, t
<1>2. t[n][1] = h /\ t[n][2] = runs /\ (1..n # {} => n \in DOMAIN t)
  BY <1>1
<1>3. \A i \in DOMAIN t : i \in DOMAIN m \/ i = n
  BY <1>1
<1>4. \A i \in DOMAIN m : i \in DOMAIN t /\ n > i
  BY <1>1
<1>5. Shows(t, L, j)
  BY DEF t
<1>6. CASE \E i \in DOMAIN t : /\ t[i][1] = j /\ t[i][2]
                               /\ \A k \in DOMAIN t : k > i => t[k][1] # j
  <2>1. PICK i \in DOMAIN t : /\ t[i][1] = j /\ t[i][2]
                              /\ \A k \in DOMAIN t : k > i => t[k][1] # j
    BY <1>6
  <2>2. CASE i = n
    BY <1>2, <2>1, <2>2
  <2>3. CASE i \in DOMAIN m
    BY <1>1, <1>2, <1>4, <2>1, <2>3 DEF Shows
  <2> QED
    BY <1>3, <2>2, <2>3
<1>7. CASE j \in L /\ \A k \in DOMAIN t : t[k][1] # j
  <2>1. n \in DOMAIN t
    BY <1>1, AppendedSeq DEF n
  <2> QED
    BY <1>1, <1>2, <1>4, <1>7, <2>1 DEF Shows
<1> QED
  BY <1>5, <1>6, <1>7 DEF Shows

LEMMA AppendTwice ==
    ASSUME NEW S, NEW s \in Seq(S), NEW a \in S, NEW b \in S
    PROVE  s \o <<a, b>> = Append(Append(s, a), b)
<1>1. <<a>> \in Seq(S) /\ <<b>> \in Seq(S) /\ Append(s, a) \in Seq(S)
  OBVIOUS
<1>2. Append(<<a>>, b) = <<a, b>>
  <2>1. /\ <<a, b>> \in Seq(S) /\ Len(<<a, b>>) = 2
        /\ <<a, b>>[1] = a /\ <<a, b>>[2] = b
    OBVIOUS
  <2>2. /\ Append(<<a>>, b) \in Seq(S) /\ Len(Append(<<a>>, b)) = 2
        /\ Append(<<a>>, b)[1] = a /\ Append(<<a>>, b)[2] = b
    <3>1. Len(<<a>>) = 1 /\ <<a>>[1] = a
      OBVIOUS
    <3> QED
      BY <1>1, <3>1, AppendProperties
  <2> DEFINE t == Append(<<a>>, b)
             u == <<a, b>>
  <2>3. /\ t \in Seq(S) /\ u \in Seq(S) /\ Len(t) = Len(u)
        /\ \A i \in 1..Len(t) : t[i] = u[i]
    BY <2>1, <2>2
  <2> HIDE DEF t, u
  <2>4. t = u
    BY <2>3, SeqEqual
  <2> QED
    BY <2>4 DEF t, u
<1>3. <<a, b>> = <<a>> \o <<b>>
  BY <1>1, <1>2, AppendIsConcat
<1>4. Append(Append(s, a), b) = (s \o <<a>>) \o <<b>>
  BY <1>1, AppendIsConcat
<1> QED
  BY <1>1, <1>3, <1>4, ConcatAssociative

\* One message is posted.
LEMMA PostTells ==
    ASSUME messages \in Seq(ToSet(messages)), UNCHANGED lit, NEW h, NEW runs,
           messages' = Append(messages, <<h, runs>>)
    PROVE  /\ (messages \in Seq(ToSet(messages)))'
           /\ \A j : Told(j)' => IF j = h THEN runs ELSE Told(j)
BY AppendedSeq, PostedShows DEF Told

\* Two messages are posted, for a memoized job.
LEMMA PostTwiceTells ==
    ASSUME messages \in Seq(ToSet(messages)), UNCHANGED lit, NEW h,
           messages' = messages \o << <<h, TRUE>>, <<h, FALSE>> >>
    PROVE  /\ (messages \in Seq(ToSet(messages)))'
           /\ \A j : Told(j)' => j # h /\ Told(j)
<1> DEFINE first == Append(messages, <<h, TRUE>>)
           T == ToSet(messages) \cup {<<h, TRUE>>, <<h, FALSE>>}
<1>1. messages \in Seq(T) /\ <<h, TRUE>> \in T /\ <<h, FALSE>> \in T
  BY SeqMonotonic
<1> HIDE DEF T
<1>2. messages' = Append(first, <<h, FALSE>>)
  <2> DEFINE u == <<h, TRUE>>
             v == <<h, FALSE>>
  <2>1. messages \o <<u, v>> = Append(Append(messages, u), v)
    <3>1. u \in T /\ v \in T
      BY <1>1
    <3> HIDE DEF u, v
    <3> QED
      BY <1>1, <3>1, AppendTwice
  <2> QED
    BY <2>1
<1>3. first \in Seq(ToSet(first)) /\ \A j : Shows(first, lit, j) => IF j = h THEN TRUE ELSE Told(j)
  BY AppendedSeq, PostedShows DEF Told
<1> HIDE DEF first
<1>4. \A j : Shows(messages', lit, j) => IF j = h THEN FALSE ELSE Shows(first, lit, j)
  BY <1>2, <1>3, PostedShows
<1>5. messages' \in Seq(ToSet(messages'))
  <2> DEFINE v == <<h, FALSE>>
  <2>1. messages' = Append(first, v)
    BY <1>2
  <2> HIDE DEF v
  <2>2. first \in Seq(ToSet(first))
    BY <1>3
  <2>3. Append(first, v) \in Seq(ToSet(Append(first, v)))
    BY <2>2, AppendedSeq
  <2> QED
    BY <2>1, <2>3
<1> QED
  BY <1>3, <1>4, <1>5 DEF Told

\* Handling a message changes nothing of what is told.
LEMMA DeliverTells ==
    ASSUME messages \in Seq(ToSet(messages)), Deliver
    PROVE  /\ (messages \in Seq(ToSet(messages)))'
           /\ \A j : Told(j)' => Told(j)
<1> DEFINE n == Len(messages)
           t == Tail(messages)
<1>1. /\ messages # << >> /\ messages' = t
      /\ lit' = IF messages[1][2] THEN lit \cup {messages[1][1]} ELSE lit \ {messages[1][1]}
  BY DEF Deliver
<1>2. /\ t \in Seq(ToSet(messages)) /\ Len(t) = n - 1 /\ n \in Nat /\ n >= 1
      /\ \A i \in 1..(n - 1) : t[i] = messages[i + 1]
      /\ DOMAIN messages = 1..n
  BY <1>1, HeadTailProperties, LenProperties, EmptySeq
<1>3. DOMAIN t = 1..(n - 1)
  BY <1>2, LenProperties
<1> HIDE DEF n, t
<1>4. t \in Seq(ToSet(t))
  <2>1. \A i \in 1..Len(t) : t[i] \in ToSet(t)
    BY <1>2, <1>3 DEF ToSet
  <2> QED
    BY <1>2, <2>1
<1>5. \A i \in DOMAIN t : i + 1 \in DOMAIN messages /\ t[i] = messages[i + 1]
  BY <1>2, <1>3
<1>6. \A k \in DOMAIN messages : k = 1 \/ (k - 1 \in DOMAIN t /\ messages[k] = t[k - 1])
  BY <1>2, <1>3
<1>7. ASSUME NEW j, NEW i \in DOMAIN t, t[i][1] = j, t[i][2],
             \A k \in DOMAIN t : k > i => t[k][1] # j
      PROVE  Told(j)
  <2>1. ASSUME NEW k \in DOMAIN messages, k > i + 1 PROVE messages[k][1] # j
    <3>1. k # 1 /\ k - 1 > i
      BY <1>2, <1>3, <1>7, <2>1
    <3> QED
      BY <1>6, <1>7, <2>1, <3>1
  <2> QED
    BY <1>5, <1>7, <2>1 DEF Told, Shows
<1>8. ASSUME NEW j, j \in lit', \A k \in DOMAIN t : t[k][1] # j
      PROVE  Told(j)
  <2>1. ASSUME NEW k \in DOMAIN messages, k # 1 PROVE messages[k][1] # j
    BY <1>6, <1>8, <2>1
  <2>2. 1 \in DOMAIN messages
    BY <1>2
  <2>3. CASE messages[1][1] = j
    <3>1. messages[1][2]
      BY <1>1, <1>8, <2>3
    <3>2. \A k \in DOMAIN messages : k > 1 => k # 1
      BY <1>2
    <3> QED
      BY <2>1, <2>2, <2>3, <3>1, <3>2 DEF Told, Shows
  <2>4. CASE messages[1][1] # j
    BY <1>1, <1>8, <2>1, <2>4 DEF Told, Shows
  <2> QED
    BY <2>3, <2>4
<1> QED
  BY <1>1, <1>4, <1>7, <1>8 DEF Told, Shows
-----------------------------------------------------------------------------
(* The steps.                                                              *)

\* The indices of a sequence from which one element is taken move down.
LEMMA RemovedAt ==
    ASSUME NEW S, NEW s \in Seq(S), NEW n \in DOMAIN s
    PROVE  /\ RemoveAt(s, n) \in Seq(S)
           /\ \A m \in DOMAIN s : m # n => \E k \in DOMAIN RemoveAt(s, n) : RemoveAt(s, n)[k] = s[m]
<1> DEFINE N == Len(s)
           left == SubSeq(s, 1, n - 1)
           right == SubSeq(s, n + 1, N)
           t == left \o right
<1>1. N \in Nat /\ DOMAIN s = 1..N /\ n \in 1..N /\ \A i \in 1..N : s[i] \in S
  BY LenProperties, ElementOfSeq
<1> HIDE DEF N
<1>2. /\ left \in Seq(S) /\ Len(left) = n - 1
      /\ \A i \in 1..(n - 1) : left[i] = s[i]
  BY <1>1, SubSeqProperties
<1>3. /\ right \in Seq(S) /\ Len(right) = N - n
      /\ \A i \in 1..(N - n) : right[i] = s[n + i]
  <2>1. /\ \A i \in (n + 1)..N : s[i] \in S
        /\ N - (n + 1) + 1 = N - n /\ (n + 1 <= N <=> N - n # 0)
        /\ \A i \in 1..(N - n) : n + 1 + i - 1 = n + i
    BY <1>1
  <2>2. /\ right \in Seq(S)
        /\ Len(right) = IF n + 1 <= N THEN N - (n + 1) + 1 ELSE 0
        /\ \A i \in 1..(N - (n + 1) + 1) : right[i] = s[n + 1 + i - 1]
    BY <1>1, <2>1, SubSeqProperties
  <2> HIDE DEF right
  <2> QED
    BY <1>1, <2>1, <2>2
<1> HIDE DEF left, right
<1>4. /\ t \in Seq(S) /\ Len(t) = N - 1
      /\ \A i \in 1..(N - 1) : t[i] = IF i <= n - 1 THEN left[i] ELSE right[i - (n - 1)]
  <2>1. /\ t \in Seq(S) /\ Len(t) = Len(left) + Len(right)
        /\ \A i \in 1..(Len(left) + Len(right)) :
              t[i] = IF i <= Len(left) THEN left[i] ELSE right[i - Len(left)]
    BY <1>2, <1>3, ConcatProperties
  <2>2. Len(left) = n - 1 /\ Len(right) = N - n /\ (n - 1) + (N - n) = N - 1
    BY <1>1, <1>2, <1>3
  <2> HIDE DEF t
  <2> QED
    BY <2>1, <2>2
<1>5. DOMAIN t = 1..(N - 1)
  BY <1>4, LenProperties
<1> HIDE DEF t
<1>6. ASSUME NEW m \in DOMAIN s, m < n PROVE m \in DOMAIN t /\ t[m] = s[m]
  BY <1>1, <1>2, <1>4, <1>5, <1>6
<1>7. ASSUME NEW m \in DOMAIN s, m > n PROVE m - 1 \in DOMAIN t /\ t[m - 1] = s[m]
  <2>1. /\ m - 1 \in 1..(N - 1) /\ ~(m - 1 <= n - 1) /\ m - 1 - (n - 1) = m - n
        /\ m - n \in 1..(N - n) /\ n + (m - n) = m
    BY <1>1, <1>7
  <2> QED
    BY <1>3, <1>4, <1>5, <2>1
<1>8. \A m \in DOMAIN s : m # n => m < n \/ m > n
  BY <1>1
<1>9. RemoveAt(s, n) = t
  BY DEF RemoveAt, t, left, right, N
<1> QED
  BY <1>4, <1>6, <1>7, <1>8, <1>9

\* A step that posts nothing and lights no tab, and gives up no job it has not told the end of.
LEMMA QuietKeepsTabs ==
    ASSUME TabsInv, UNCHANGED messages, lit' \subseteq lit, Tracked',
           \A j : Meant(j) => Meant(j)'
    PROVE  TabsInv'
<1>1. \A j : Told(j)' => Told(j)
  BY DEF Told, Shows
<1>2. \A j : Told(j)' => Meant(j)'
  BY <1>1, ToldIsMeant
<1> QED
  BY <1>2 DEF TabsInv

\* A thread moves that runs no job.
LEMMA MovingKeepsTracked ==
    ASSUME Placed, Tracked, NEW r \in 1..MaxRuns, running[r] = {}, NEW place,
           run' = [run EXCEPT ![r] = place], UNCHANGED <<messages, running, inline>>
    PROVE  Tracked'
BY DEF Placed, Tracked

LEMMA MovingKeepsTabs ==
    ASSUME Placed, TabsInv, NEW r \in 1..MaxRuns, running[r] = {}, NEW place,
           run' = [run EXCEPT ![r] = place], lit' \subseteq lit,
           UNCHANGED <<messages, running, inline, orphans>>
    PROVE  TabsInv'
<1>1. Tracked'
  BY MovingKeepsTracked DEF TabsInv
<1>2. \A j : Meant(j) => Meant(j)'
  BY DEF Meant
<1> QED
  BY <1>1, <1>2, QuietKeepsTabs

\* One case per action of a thread.
LEMMA RunStepTabs ==
    ASSUME Inv, TabsInv, NEW r \in 1..MaxRuns, RunStep(r)
    PROVE  TabsInv'
<1> USE DEF Goto, screen, threads, ghosts
<1>0. /\ Placed /\ Tracked /\ IsPlace(run[r]) /\ r \in DOMAIN run
      /\ messages \in Seq(ToSet(messages)) /\ r \in DOMAIN running
      /\ run[r].at # "stage" => running[r] = {}
  BY DEF Inv, Placed, TabsInv, Tracked
<1>1. ASSUME Loop(r) PROVE TabsInv'
  <2>1. run[r].at = "loop" /\ UNCHANGED <<messages, lit, running, inline, orphans>>
    BY <1>1 DEF Loop
  <2>2. PICK place : run' = [run EXCEPT ![r] = place]
    BY <1>1, LoopForms
  <2> QED
    BY <1>0, <2>1, <2>2, MovingKeepsTabs
<1>2. ASSUME StartJob(r) PROVE TabsInv'
  <2>0. PICK h : h = Head(todo[r])
    OBVIOUS
  <2>1. /\ run[r].at = "stage" /\ UNCHANGED <<lit, run, inline, orphans>>
        /\ running' = [running EXCEPT ![r] = @ \cup {h}]
        /\ messages' = Append(messages, <<h, TRUE>>)
    BY <1>2, <2>0 DEF StartJob, Post
  <2>2. (messages \in Seq(ToSet(messages)))' /\ \A j : Told(j)' => IF j = h THEN TRUE ELSE Told(j)
    BY <1>0, <2>1, PostTells
  <2>3. Tracked'
    BY <1>0, <2>1, <2>2 DEF Tracked
  <2>4. Meant(h)' /\ \A j : Meant(j) => Meant(j)'
    BY <1>0, <2>1 DEF Meant, Tracked
  <2> QED
    BY <2>2, <2>3, <2>4, ToldIsMeant DEF TabsInv
<1>3. ASSUME Memoized(r) PROVE TabsInv'
  <2>0. PICK h : h = Head(todo[r])
    OBVIOUS
  <2>1. /\ UNCHANGED <<lit, run, running, inline, orphans>>
        /\ messages' = messages \o << <<h, TRUE>>, <<h, FALSE>> >>
    BY <1>3, <2>0 DEF Memoized
  <2>2. (messages \in Seq(ToSet(messages)))' /\ \A j : Told(j)' => j # h /\ Told(j)
    BY <1>0, <2>1, PostTwiceTells
  <2>3. Tracked'
    BY <1>0, <2>1, <2>2 DEF Tracked
  <2>4. \A j : Meant(j) => Meant(j)'
    BY <2>1 DEF Meant
  <2> QED
    BY <2>2, <2>3, <2>4, ToldIsMeant DEF TabsInv
<1>4. ASSUME NEW h \in Jobs, EndJob(r, h) PROVE TabsInv'
  <2>1. /\ \E passed \in BOOLEAN : run' = [run EXCEPT ![r].success = @ /\ passed]
        /\ running' = [running EXCEPT ![r] = @ \ {h}]
        /\ messages' = Append(messages, <<h, FALSE>>) /\ UNCHANGED <<lit, inline, orphans>>
    BY <1>4 DEF EndJob, Ended, Post
  <2>2. (messages \in Seq(ToSet(messages)))' /\ \A j : Told(j)' => IF j = h THEN FALSE ELSE Told(j)
    BY <1>0, <2>1, PostTells
  <2>3. \A q \in 1..MaxRuns : run'[q].at = run[q].at
    <3>1. PICK passed \in BOOLEAN :
              run' = [run EXCEPT ![r] = [run[r] EXCEPT !.success = run[r].success /\ passed]]
      BY <2>1
    <3> DEFINE place == [run[r] EXCEPT !.success = run[r].success /\ passed]
    <3>2. place.at = run[r].at
      BY <1>0 DEF IsPlace
    <3>3. run' = [run EXCEPT ![r] = place]
      BY <3>1
    <3> HIDE DEF place
    <3> QED
      BY <1>0, <3>2, <3>3 DEF Placed
  <2>4. Tracked'
    BY <1>0, <2>1, <2>2, <2>3 DEF Tracked
  <2>5. \A j : j # h /\ Meant(j) => Meant(j)'
    BY <1>0, <2>1 DEF Meant, Tracked
  <2> QED
    BY <2>2, <2>4, <2>5, ToldIsMeant DEF TabsInv
<1>5. ASSUME EndStage(r) PROVE TabsInv'
  <2>1. running[r] = {} /\ UNCHANGED <<messages, lit, running, inline, orphans>>
    BY <1>5 DEF EndStage
  <2>2. PICK warned \in BOOLEAN :
            run' = [run EXCEPT ![r].at = "loop", ![r].stage = @ + 1,
                               ![r].failure = @ \/ ~run[r].success \/ warned]
    BY <1>5 DEF EndStage
  <2>3. \E place : run' = [run EXCEPT ![r] = place]
    BY <1>0, <2>2
  <2> QED
    BY <1>0, <2>1, <2>3, MovingKeepsTabs
<1>6. ASSUME Crash(r) PROVE TabsInv'
  <2> DEFINE place == [run[r] EXCEPT !.at = "closing", !.success = FALSE]
  <2>1. /\ run' = [run EXCEPT ![r] = place] /\ UNCHANGED <<messages, lit, inline>>
        /\ running' = [running EXCEPT ![r] = {}] /\ orphans' = orphans \cup running[r]
    BY <1>0, <1>6 DEF Crash
  <2> HIDE DEF place
  <2>2. Tracked'
    BY <1>0, <2>1 DEF Tracked, Placed
  <2>3. \A j : Meant(j) => Meant(j)'
    BY <1>0, <2>1 DEF Meant, Tracked
  <2> QED
    BY <2>1, <2>2, <2>3, QuietKeepsTabs
<1>7. ASSUME OnCancelled(r) \/ AwaitManual(r) \/ Close(r) \/ Complete(r) PROVE TabsInv'
  <2>1. /\ run[r].at # "stage" /\ lit' \subseteq lit
        /\ UNCHANGED <<messages, running, inline, orphans>>
    BY <1>7 DEF OnCancelled, AwaitManual, Close, Complete, ShowCancelled
  <2>2. \E place : run' = [run EXCEPT ![r] = place]
    BY <1>7 DEF OnCancelled, AwaitManual, Close, Complete
  <2> QED
    BY <1>0, <2>1, <2>2, MovingKeepsTabs
<1> QED
  BY <1>1, <1>2, <1>3, <1>4, <1>5, <1>6, <1>7 DEF RunStep

\* The single jobs, the event loop and the user.
LEMMA InlineStepTabs ==
    ASSUME TabsInv, NEW n \in DOMAIN inline, InlineStart(n) \/ InlineEnd(n)
    PROVE  TabsInv'
<1>h. PICK h : h = inline[n].job
  OBVIOUS
<1>0. /\ messages \in Seq(ToSet(messages)) /\ Tracked /\ inline \in Seq(InlineJob)
      /\ inline[n] \in InlineJob
      /\ UNCHANGED <<lit, run, running, orphans>>
  BY ElementOfSeq, LenProperties DEF TabsInv, Tracked, InlineStart, InlineEnd, threads, ghosts
<1>1. CASE InlineStart(n)
  <2>1. messages' = Append(messages, <<h, TRUE>>) /\ inline' = [inline EXCEPT ![n].at = "running"]
    BY <1>h, <1>1 DEF InlineStart, Post
  <2>2. (messages \in Seq(ToSet(messages)))' /\ \A j : Told(j)' => IF j = h THEN TRUE ELSE Told(j)
    BY <1>0, <2>1, PostTells
  <2> DEFINE begun == [inline[n] EXCEPT !.at = "running"]
  <2>3. /\ begun \in InlineJob /\ begun.at = "running" /\ begun.job = h
        /\ inline' = [inline EXCEPT ![n] = begun]
    BY <1>h, <1>0, <2>1 DEF InlineJob
  <2> HIDE DEF begun
  <2>4. inline' \in Seq(InlineJob) /\ DOMAIN inline' = DOMAIN inline
        /\ inline'[n] = begun /\ \A m \in DOMAIN inline : m # n => inline'[m] = inline[m]
    BY <1>0, <2>3
  <2>5. Tracked'
    BY <1>0, <2>2, <2>4 DEF Tracked
  <2>6. Meant(h)'
    BY <2>3, <2>4 DEF Meant
  <2>7. ASSUME NEW j, Meant(j) PROVE Meant(j)'
    <3>1. CASE j \in orphans \/ \E r \in 1..MaxRuns : j \in running[r]
      BY <1>0, <3>1 DEF Meant
    <3>2. CASE \E m \in DOMAIN inline : inline[m].at = "running" /\ inline[m].job = j
      BY <1>h, <2>3, <2>4, <3>2 DEF Meant
    <3> QED
      BY <2>7, <3>1, <3>2 DEF Meant
  <2> QED
    BY <2>2, <2>5, <2>6, <2>7, ToldIsMeant DEF TabsInv
<1>2. CASE InlineEnd(n)
  <2>1. messages' = Append(messages, <<h, FALSE>>) /\ inline' = RemoveAt(inline, n)
    BY <1>h, <1>2 DEF InlineEnd, Post
  <2>2. (messages \in Seq(ToSet(messages)))' /\ \A j : Told(j)' => IF j = h THEN FALSE ELSE Told(j)
    BY <1>0, <2>1, PostTells
  <2>3. /\ inline' \in Seq(InlineJob)
        /\ \A m \in DOMAIN inline : m # n => \E k \in DOMAIN inline' : inline'[k] = inline[m]
    BY <1>0, <2>1, RemovedAt
  <2>4. Tracked'
    BY <1>0, <2>2, <2>3 DEF Tracked
  <2>5. \A j : j # h /\ Meant(j) => Meant(j)'
    BY <1>h, <1>0, <2>3 DEF Meant
  <2> QED
    BY <2>2, <2>4, <2>5, ToldIsMeant DEF TabsInv
<1> QED
  BY <1>1, <1>2

LEMMA NextTabs == Inv /\ TabsInv /\ [Next]_vars => TabsInv'
<1> SUFFICES ASSUME Inv, TabsInv, [Next]_vars PROVE TabsInv'
  OBVIOUS
<1> USE DEF screen, threads, ghosts
<1>1. ASSUME NEW r \in 1..MaxRuns, RunStep(r) PROVE TabsInv'
  BY <1>1, RunStepTabs
<1>2. ASSUME NEW n \in DOMAIN inline, InlineStart(n) \/ InlineEnd(n) PROVE TabsInv'
  BY <1>2, InlineStepTabs
<1>3. ASSUME Deliver PROVE TabsInv'
  <2>1. UNCHANGED <<run, running, inline, orphans>>
    BY <1>3 DEF Deliver
  <2>2. (messages \in Seq(ToSet(messages)))' /\ \A j : Told(j)' => Told(j)
    BY <1>3, DeliverTells DEF TabsInv, Tracked
  <2>3. Tracked' /\ \A j : Meant(j) => Meant(j)'
    BY <2>1, <2>2 DEF TabsInv, Tracked, Meant
  <2> QED
    BY <2>2, <2>3, ToldIsMeant DEF TabsInv
<1>4. ASSUME Cancel \/ UNCHANGED vars PROVE TabsInv'
  <2>1. UNCHANGED <<messages, lit, run, running, inline, orphans>>
    BY <1>4 DEF Cancel, vars
  <2> QED
    BY <2>1, QuietKeepsTabs DEF TabsInv, Tracked, Meant
<1>5. ASSUME Restart PROVE TabsInv'
  <2>1. PICK r \in 1..MaxRuns : run[r].at = "idle" /\ run' = [run EXCEPT ![r] = Launched]
    BY <1>5 DEF Restart, Relaunch
  <2>2. lit' = {} /\ UNCHANGED <<messages, running, inline, orphans>>
    BY <1>5 DEF Restart, Relaunch
  <2>3. Placed /\ running[r] = {}
    BY <2>1 DEF Inv, TabsInv, Tracked
  <2> QED
    BY <2>1, <2>2, <2>3, MovingKeepsTabs
<1>6. ASSUME NEW h \in Jobs, RestartJob(h) PROVE TabsInv'
  <2> DEFINE new == [job |-> h, at |-> "launched"]
  <2>1. inline' = Append(inline, new) /\ UNCHANGED <<messages, lit, run, running, orphans>>
    BY <1>6 DEF RestartJob
  <2>2. new \in InlineJob /\ inline \in Seq(InlineJob)
    BY DEF InlineJob, TabsInv, Tracked
  <2> HIDE DEF new
  <2>3. /\ inline' \in Seq(InlineJob)
        /\ \A n \in DOMAIN inline : n \in DOMAIN inline' /\ inline'[n] = inline[n]
    BY <2>1, <2>2, AppendProperties, LenProperties
  <2>4. Tracked' /\ \A j : Meant(j) => Meant(j)'
    BY <2>1, <2>3 DEF TabsInv, Tracked, Meant
  <2> QED
    BY <2>1, <2>4, QuietKeepsTabs
<1> QED
  BY <1>1, <1>2, <1>3, <1>4, <1>5, <1>6 DEF Next

\* For every pipeline, in whatever order any number of runs, single jobs, cancellations,
\* restarts and messages come: when all has settled, no tab is left with the icon of
\* "running", but those of jobs whose run broke off.
THEOREM TabsSettle == Spec => []NothingLooksRunning
<1>1. TabsInv => NothingLooksRunning
  <2> SUFFICES ASSUME TabsInv, Active = {}, messages = << >>, inline = << >>, NEW j \in lit
               PROVE  j \in orphans
    BY DEF NothingLooksRunning
  <2>1. Told(j)
    BY DEF Told, Shows
  <2>2. Meant(j)
    BY <2>1, ToldIsMeant
  <2>3. \A r \in 1..MaxRuns : running[r] = {}
    BY DEF Active, TabsInv, Tracked
  <2> QED
    BY <2>2, <2>3 DEF Meant
<1>2. Init => TabsInv
  BY InitTabs
<1> QED
  BY <1>1, <1>2, InitInv, NextInv, NextTabs, PTL DEF Spec
=============================================================================
