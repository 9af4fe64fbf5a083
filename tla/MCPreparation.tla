--------------------------- MODULE MCPreparation ---------------------------
(***************************************************************************)
(* What a run needs before its jobs start: an occasion in watch mode, the  *)
(* remote includes of its configuration, the jobs that the configuration   *)
(* plans, and a checkout for each parallel job.  The four modules share no *)
(* state, so a behaviour of this one moves one of them, the one that       *)
(* `part` names, and leaves the others where they begin: their state       *)
(* graphs side by side.                                                    *)
(***************************************************************************)
EXTENDS RemoteIncludes, Worktrees, Watch, Planning, TLC

CONSTANTS url1, url2, file1, file2, file3

MCUrls == {url1, url2}
MCRoots == {<<url1>>, <<url1, url2>>}
\* The second version of each includes the other.
MCNested == (url1 :> << << >>, <<url2>> >>) @@ (url2 :> << << >>, <<url1>> >>)
Symmetry == Permutations(Processes)

\* The second content of the root includes another file, and that one includes a third.
MCFiles == {file1, file2, file3}
MCIncludes == [f \in MCFiles |-> [c \in Contents |->
                  IF f = file1 THEN (IF c = "c1" THEN <<file3>> ELSE <<file2, file3>>)
                  ELSE IF f = file2 /\ c = "c2" THEN <<file3, file1>> ELSE << >>]]

VARIABLE part

Rule(if, when, vs, needs) ==
    [ if |-> if, exists |-> Unset, changes |-> Unset, compare_to |-> Unset, when |-> when,
      allow_failure |-> Unset, variables |-> vs, needs |-> needs ]
Repo(inside, files) ==
    [ inside |-> inside, default |-> "main", committed |-> [main |-> files],
      staged |-> {}, unstaged |-> {}, untracked |-> {} ]
Request(blocks, hidden, vs, default, workflow, changed, repo, names, env) ==
    [ config |-> [ blocks |-> blocks, hidden |-> hidden, variables |-> vs, default |-> default,
                   workflow |-> workflow ],
      changed |-> changed, changes_base |-> Unset, jobs |-> names, stages |-> Unset,
      env |-> env, existing |-> {}, repo |-> repo ]
Block(extends, vs, plain) == [extends |-> extends, variables |-> vs, plain |-> plain]
Name(base) == [base |-> base, suffix |-> << >>]

Matrix == "parallel" :> [copies |-> 0, matrix |-> {[X |-> {"m1", "m2"}], [Y |-> {"m3"}]}]
Copies == "parallel" :> [copies |-> 2, matrix |-> {}]
JobRules == << Rule(<<"P", "&&", "X", "||", "Q">>, Unset, [X |-> "rule1"], Unset),
               Rule(Unset, "always", [Y |-> "rule2"], {}) >>
WorkflowRules == <<Rule(<<"Q">>, Unset, [X |-> "workflow"], Unset)>>

\* Who gives X, and through which extends:, cyclic and unknown ones included
LayerRequests ==
    LET X(base, defs) == IF base \in defs THEN [X |-> base] ELSE << >> IN
    { Request("a" :> Block(ea, X("a", defs), [before_script |-> <<"a">>, rules |-> given[2]])
              @@ "b" :> Block(eb, X("b", defs), [before_script |-> << >>])
              @@ ".t" :> Block(et, X(".t", defs), given[1]),
              {".t"}, X("global", defs),
              [variables |-> X("default", defs), before_script |-> <<"default">>],
              project[1], FALSE, Repo(TRUE, {}), Unset, project[2]) :
      ea \in {<<"b">>, <<".t", "b">>, <<"b", ".t">>}, eb \in {<< >>, <<".t">>, <<"a">>},
      et \in {<< >>, <<"b">>, <<".t">>, <<"gone">>},
      defs \in SUBSET {"a", "b", ".t", "global", "default"},
      given \in {<<Matrix, JobRules>>, <<[before_script |-> <<".t">>], << >>>>},
      project \in {<<Unset, {"P"}>>, <<WorkflowRules, {"P"}>>, <<WorkflowRules, {"Q"}>>} }

\* Who needs whom, cycles included, and what was changed
NeedsRequests ==
    { Request("a" :> Block(<< >>, << >>, [needs |-> na, inputs |-> {"fa"}] @@ pa)
              @@ "b" :> Block(<< >>, << >>, [needs |-> nb, inputs |-> {"fb"}] @@ pb)
              @@ "c" :> Block(<< >>, << >>, [needs |-> nc, inputs |-> ic] @@ pc),
              {}, << >>, [variables |-> << >>, before_script |-> << >>],
              Unset, TRUE, project[1], project[2], {}) :
      na \in SUBSET {Name("b"), Name("c"), [base |-> "b", suffix |-> <<"copy", 1>>]},
      nb \in SUBSET {Name("a"), Name("c")}, nc \in SUBSET {Name("a")},
      ic \in {{}, {"fc"}},
      pa \in {<< >>, Copies}, pb \in {<< >>, Copies, Matrix}, pc \in {<< >>, Matrix},
      project \in {<<Repo(FALSE, {}), {Name("a")}>>} \cup
                  {<<Repo(TRUE, files), Unset>> : files \in {{}, {"fa"}, {"fb"}, {"fc"}, {"fa", "fc"}}} }

MCRequests == <<LayerRequests, NeedsRequests>>

NoPlan ==
    /\ request = Unset /\ phase = "none" /\ variables = << >>
    /\ chain = << >> /\ resolved = << >> /\ selected = {} /\ jobs = {}
NoIncludes == Init /\ roots = <<url1>> /\ served = [x \in Urls |-> 1]
NoWatch == WatchInit /\ saved = [f \in Files |-> "c1"]

PreparationInit ==
    /\ WorktreesInit
    /\ \/ part = "includes" /\ Init /\ served[url2] = 1 /\ NoPlan /\ NoWatch
       \/ part = "worktrees" /\ NoIncludes /\ NoPlan /\ NoWatch
       \/ part = "planning" /\ NoIncludes /\ PlanningInit /\ NoWatch
       \/ part = "watching" /\ NoIncludes /\ NoPlan /\ WatchInit

PreparationNext ==
    \/ part = "includes" /\ Next /\ UNCHANGED <<part, worktreesVars, planningVars, watchVars>>
    \/ part = "worktrees" /\ WorktreesNext /\ UNCHANGED <<part, vars, planningVars, watchVars>>
    \/ part = "planning" /\ PlanningNext /\ UNCHANGED <<part, vars, worktreesVars, watchVars>>
    \/ part = "watching" /\ WatchNext /\ UNCHANGED <<part, vars, worktreesVars, planningVars>>

PreparationSpec ==
    PreparationInit /\ [][PreparationNext]_<<part, vars, worktreesVars, planningVars, watchVars>>
=============================================================================
