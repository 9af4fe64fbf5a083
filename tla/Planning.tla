------------------------------ MODULE Planning ------------------------------
(***************************************************************************)
(* plan.py, rules.py and changes.py: how `bitrab run` turns a loaded       *)
(* configuration into the jobs that the runner gets.  workflow:rules may   *)
(* skip the run or add variables; extends: is resolved, jobs are built,    *)
(* parallel: is expanded and needs: follows; --changed, --jobs and         *)
(* --stages select; and rules: decides last.  run_pipeline does these      *)
(* steps in this order, and each of them sees what the earlier ones left.  *)
(*                                                                         *)
(* A block is [extends, plain, variables]: `plain` has the keys that are   *)
(* replaced as a whole, `variables` is the one dictionary that is merged   *)
(* key by key.  A job's name is [base, suffix], where the suffix is what   *)
(* parallel: adds; texts that look like a suffix do not occur in a base.   *)
(* Glob patterns are the sets of files they match.  No step looks at the   *)
(* order of the jobs, so they are a set.                                   *)
(***************************************************************************)
EXTENDS Integers, Sequences, FiniteSets, SequencesExt

CONSTANTS
    Requests,      \* the runs looked at, with configuration, options and repository: a
                   \* sequence of sets of them
    Unset          \* what is not given

AreRules(rules) ==
    rules \in Seq(ToSet(rules)) /\ \A rule \in ToSet(rules) : rule.if # Unset => rule.if \in Seq(STRING)

ASSUME RequestsAssumption ==
    \A i \in DOMAIN Requests : \A given \in Requests[i] :
        /\ given.config.workflow # Unset => AreRules(given.config.workflow)
        /\ \A name \in DOMAIN given.config.blocks :
              LET block == given.config.blocks[name] IN
              /\ block.extends \in Seq(STRING)
              /\ "rules" \in DOMAIN block.plain => AreRules(block.plain["rules"])

VARIABLES
    request,       \* never changes
    phase,         \* the next step of run_pipeline, or how it ended
    variables,     \* the global variables, with those of workflow:rules
    chain,         \* the calls of resolve_one under way, each made by the one before
    resolved,      \* the blocks without extends:, by name
    selected,      \* the names that --changed has found so far
    jobs           \* the jobs of the pipeline

planningVars == <<request, phase, variables, chain, resolved, selected, jobs>>

PlanningInit ==
    /\ \E i \in DOMAIN Requests : request \in Requests[i]
    /\ phase = "workflow"
    /\ variables = request.config.variables
    /\ chain = << >> /\ resolved = << >> /\ selected = {} /\ jobs = {}

\* A dictionary after base.update(overlay), and after base[key] = value
Update(base, overlay) ==
    [ k \in DOMAIN base \cup DOMAIN overlay |->
        IF k \in DOMAIN overlay THEN overlay[k] ELSE base[k] ]
Put(base, key, value) == Update(base, [k \in {key} |-> value])

Get(keys, key, default) == IF key \in DOMAIN keys THEN keys[key] ELSE default
Plain(base) == [base |-> base, suffix |-> << >>]
NamesOf(js) == {job.name : job \in js}

-----------------------------------------------------------------------------
(* changes.py                                                              *)

\* The baseline given, or the merge base with the default branch.  Without a repository
\* or a baseline that git knows nothing can be said.
discover_changes(repo, baseline) ==
    LET compared == IF baseline # Unset THEN baseline ELSE repo.default
    IN  IF repo.inside /\ compared \in DOMAIN repo.committed
        THEN [ evaluable |-> TRUE,
               files |-> repo.committed[compared] \cup repo.staged \cup repo.unstaged \cup repo.untracked ]
        ELSE [ evaluable |-> FALSE, files |-> {} ]

\* ChangeResolver.resolve
Changes(compare_to) ==
    discover_changes(request.repo, IF compare_to # Unset THEN compare_to ELSE request.changes_base)

changes_match(patterns, change_set) ==
    ~change_set.evaluable \/ patterns \cap change_set.files # {}

\* The patterns of a job's cache key and artifacts, and those of its rules:changes.
selection_input_patterns(job) ==
    job.inputs \cup UNION { job.rules[i].changes : i \in {r \in DOMAIN job.rules : job.rules[r].changes # Unset} }

Touched(job) ==
    selection_input_patterns(job) = {} \/ changes_match(selection_input_patterns(job), Changes(Unset))

Dependents(names) == NamesOf({job \in jobs : job.needs \cap names # {}})

-----------------------------------------------------------------------------
(* rules.py                                                                *)

\* split_top_level: the parts between one operator and the next.  A comparison, with the
\* strings it quotes, is one token.
Split(tokens, operator) ==
    LET ends == {0, Len(tokens) + 1} \cup {i \in DOMAIN tokens : tokens[i] = operator} IN
    { SubSeq(tokens, e[1] + 1, e[2] - 1) :
        e \in {d \in ends \X ends : d[1] < d[2] /\ \A m \in ends : m <= d[1] \/ d[2] <= m} }

\* || is split first, so && binds tighter.  What is no comparison does not hold.
evaluate_if(tokens, env) ==
    \E part \in Split(tokens, "||") :
        \A term \in Split(part, "&&") : Len(term) = 1 /\ term[1] \in env

\* The environment has the global variables, not those of the jobs.
Env == request.env \cup DOMAIN variables

files_match(rule) ==
    /\ rule.exists # Unset => rule.exists \cap request.existing # {}
    /\ rule.changes # Unset => changes_match(rule.changes, Changes(rule.compare_to))

rule_matches(rule) == (rule.if # Unset => evaluate_if(rule.if, Env)) /\ files_match(rule)

Matching(rules) == {i \in DOMAIN rules : rule_matches(rules[i])}

\* The first rule that matches decides.  It defaults `when`, keeps what else it does not
\* give, and replaces the needs that were expanded before.
evaluate_rules(job) ==
    IF job.rules = << >> THEN job
    ELSE IF Matching(job.rules) = {} THEN [job EXCEPT !.when = "never"]
    ELSE LET rule == job.rules[CHOOSE i \in Matching(job.rules) : \A k \in Matching(job.rules) : i <= k]
         IN  [job EXCEPT !.when = IF rule.when # Unset THEN rule.when ELSE "on_success",
                         !.allow_failure = IF rule.allow_failure # Unset THEN rule.allow_failure ELSE @,
                         !.variables = Update(@, rule.variables),
                         !.needs = IF rule.needs # Unset THEN rule.needs ELSE @]

-----------------------------------------------------------------------------
(* PipelineProcessor                                                       *)

\* The blocks that process_config takes for jobs.  `workflow` is no reserved keyword: its
\* rules become a job without a script.
Blocks ==
    IF request.config.workflow = Unset THEN request.config.blocks
    ELSE Put(request.config.blocks, "workflow",
             [ extends |-> << >>, variables |-> << >>, plain |-> [rules |-> request.config.workflow] ])

Visible == DOMAIN Blocks \ request.config.hidden

\* Lists and scalars of the overlay replace, dictionaries are merged.
deep_merge(base, overlay) ==
    [ plain |-> Update(base.plain, overlay.plain), variables |-> Update(base.variables, overlay.variables) ]

\* (mutant) templates are resolved only where a job extends them
UnresolvedVisible == Visible \ DOMAIN resolved

Unresolved == DOMAIN Blocks \ DOMAIN resolved

\* A call of resolve_one: the parents before the next one are merged.
Call(name) == [name |-> name, next |-> 1, merged |-> [plain |-> << >>, variables |-> << >>]]
Innermost == chain[Len(chain)]
Parents == Blocks[Innermost.name].extends
Resolving == phase = "process" /\ chain # << >>

\* The loop of resolve_extends, over the blocks in whatever order the file has them
StartResolve ==
    /\ phase = "process" /\ chain = << >>
    /\ \E name \in Unresolved : chain' = <<Call(name)>>
    /\ UNCHANGED <<request, phase, variables, resolved, selected, jobs>>

\* resolve_one calls itself for a parent; a circular or an unknown one is a GitlabRunnerError.
ResolveParent ==
    /\ Resolving /\ Innermost.next \in DOMAIN Parents
    /\ LET parent == Parents[Innermost.next] IN
       /\ parent \notin DOMAIN resolved
       /\ IF parent \in {chain[i].name : i \in DOMAIN chain} \/ parent \notin DOMAIN Blocks
          THEN phase' = "error" /\ UNCHANGED chain
          ELSE chain' = Append(chain, Call(parent)) /\ UNCHANGED phase
    /\ UNCHANGED <<request, variables, resolved, selected, jobs>>

Merge(merged) ==
    /\ Resolving /\ Innermost.next \in DOMAIN Parents /\ Parents[Innermost.next] \in DOMAIN resolved
    /\ chain' = [chain EXCEPT ![Len(chain)] = [Innermost EXCEPT !.next = @ + 1, !.merged = merged]]
    /\ UNCHANGED <<request, phase, variables, resolved, selected, jobs>>

\* (mutant) the earlier parents take precedence
MergeUnder == Merge(deep_merge(resolved[Parents[Innermost.next]], Innermost.merged))

\* What a parent has is merged over what the parents before it have.
MergeParent == Merge(deep_merge(Innermost.merged, resolved[Parents[Innermost.next]]))

\* The block itself comes last.
ResolveReturns ==
    /\ Resolving /\ Innermost.next \notin DOMAIN Parents
    /\ resolved' = Put(resolved, Innermost.name, deep_merge(Innermost.merged, Blocks[Innermost.name]))
    /\ chain' = Front(chain)
    /\ UNCHANGED <<request, phase, variables, selected, jobs>>

\* The variables of the job win over the default ones, and those over the global ones; a
\* before_script that is empty gives way to the default one.
process_job(base, block) ==
    LET before_script == Get(block.plain, "before_script", << >>)
        when == Get(block.plain, "when", "on_success")
        default == request.config.default
    IN  [ name |-> Plain(base), parallel |-> Get(block.plain, "parallel", Unset),
          stage |-> Get(block.plain, "stage", "test"),
          variables |-> Update(Update(variables, default.variables), block.variables),
          before_script |-> IF before_script = << >> THEN default.before_script ELSE before_script,
          needs |-> Get(block.plain, "needs", {}),
          dependencies |-> Get(block.plain, "dependencies", Unset),
          inputs |-> Get(block.plain, "inputs", {}),
          rules |-> Get(block.plain, "rules", << >>),
          allow_failure |-> Get(block.plain, "allow_failure", FALSE),
          when |-> IF when \in {"on_success", "on_failure", "always", "manual", "never", "delayed"}
                   THEN when ELSE "on_success" ]

\* What parallel: N and parallel: matrix: make of one job; it stays, if the matrix is empty.
\* The node variables CI_NODE_* are left out.
Instances(job) ==
    LET Clone(suffix, more) == [job EXCEPT !.name.suffix = suffix, !.variables = Update(@, more)]
        combos == UNION { { f \in [DOMAIN entry -> UNION {entry[k] : k \in DOMAIN entry}] :
                              \A k \in DOMAIN entry : f[k] \in entry[k] } : entry \in job.parallel.matrix }
    IN  IF job.parallel = Unset THEN {job}
        ELSE IF job.parallel.copies > 0 THEN { Clone(<<"copy", i>>, << >>) : i \in 1..job.parallel.copies }
        ELSE IF combos = {} THEN {job}
        ELSE { Clone(<<"matrix", f>>, f) : f \in combos }

expand_parallel_jobs(js) == UNION {Instances(job) : job \in js}

\* A name that exists stays; the name of a job that was expanded stands for its instances;
\* any other is left as it is.
Expanded(js, dep) ==
    LET instances == {name \in NamesOf(js) : name.suffix # << >> /\ Plain(name.base) = dep}
    IN  IF dep \in NamesOf(js) \/ instances = {} THEN {dep} ELSE instances

resolve_expanded_needs(js) ==
    { [job EXCEPT !.needs = UNION {Expanded(js, dep) : dep \in @},
                  !.dependencies = IF @ = Unset THEN Unset ELSE UNION {Expanded(js, dep) : dep \in @}] :
        job \in js }

\* The filters of filter_pipeline; --changed always gives names.
Named(js, names) == {job \in js : job.name \in names}

filter_pipeline(js, names, stages) ==
    {job \in IF names = Unset THEN js ELSE Named(js, names) : stages # Unset => job.stage \in stages}

-----------------------------------------------------------------------------
(* run_pipeline                                                            *)

Step(from, to) == phase = from /\ phase' = to

\* The evaluation of workflow:rules as those of a job; its variables become global ones.
ApplyWorkflow ==
    LET workflow == evaluate_rules([ rules |-> request.config.workflow, when |-> "on_success",
                                     allow_failure |-> FALSE, variables |-> << >>, needs |-> {} ])
    IN  \/ /\ request.config.workflow = Unset
           /\ Step("workflow", "process") /\ UNCHANGED variables
        \/ /\ request.config.workflow # Unset /\ workflow.when = "never"
           /\ Step("workflow", "skipped") /\ UNCHANGED variables
        \/ /\ request.config.workflow # Unset /\ workflow.when # "never"
           /\ Step("workflow", "process")
           /\ variables' = Update(variables, workflow.variables)

apply_workflow_rules == ApplyWorkflow /\ UNCHANGED <<request, chain, resolved, selected, jobs>>

\* All instances of the jobs, as they are before the names in needs: are resolved
Built == expand_parallel_jobs({process_job(name, resolved[name]) : name \in Visible})

process_config ==
    /\ Step("process", "select") /\ chain = << >> /\ Unresolved = {}
    /\ jobs' = resolve_expanded_needs(Built)
    /\ UNCHANGED <<request, variables, chain, resolved, selected>>

\* select_changed_jobs, if asked for: the jobs that the changes touch
SelectChanged ==
    /\ IF request.changed
       THEN Step("select", "dependents") /\ selected' = NamesOf({job \in jobs : Touched(job)})
       ELSE Step("select", "filter") /\ UNCHANGED selected
    /\ UNCHANGED <<request, variables, chain, resolved, jobs>>

\* (mutant) only the jobs that need a touched job themselves are added
SelectDependentsOnce ==
    /\ selected' = selected \cup Dependents(selected)
    /\ jobs' = Named(jobs, selected')
    /\ Step("dependents", IF jobs' = {} THEN "nothing" ELSE "filter")
    /\ UNCHANGED <<request, variables, chain, resolved>>

\* Its worklist, taken as a whole each time: what needs a selected job is selected as well,
\* until nothing is left to add.
SelectDependents ==
    /\ selected' = selected \cup Dependents(selected)
    /\ IF selected' # selected THEN Step("dependents", "dependents") /\ UNCHANGED jobs
       ELSE /\ jobs' = Named(jobs, selected)
            /\ Step("dependents", IF jobs' = {} THEN "nothing" ELSE "filter")
    /\ UNCHANGED <<request, variables, chain, resolved>>

Filter ==
    /\ jobs' = filter_pipeline(jobs, request.jobs, request.stages)
    /\ Step("filter", IF (request.jobs # Unset \/ request.stages # Unset) /\ jobs' = {}
                      THEN "nothing" ELSE "rules")
    /\ UNCHANGED <<request, variables, chain, resolved, selected>>

\* The jobs are handed to the runner.
EvaluateRules ==
    /\ Step("rules", "run")
    /\ jobs' = {evaluate_rules(job) : job \in jobs}
    /\ UNCHANGED <<request, variables, chain, resolved, selected>>

PlanningNext ==
    \/ apply_workflow_rules
    \/ StartResolve \/ ResolveParent \/ MergeParent \/ ResolveReturns
    \/ process_config \/ SelectChanged \/ SelectDependents \/ Filter \/ EvaluateRules

PlanningSpec == PlanningInit /\ [][PlanningNext]_planningVars

-----------------------------------------------------------------------------
(* Properties.                                                             *)

\* For every key the value that the last of the layers that have it gives to it
Overlaid(layers) ==
    [ key \in UNION {DOMAIN layers[i] : i \in DOMAIN layers} |->
        LET having == {i \in DOMAIN layers : key \in DOMAIN layers[i]}
        IN  layers[CHOOSE i \in having : \A k \in having : k <= i][key] ]

\* What a block has by extends: and of its own: the parents in their order, then itself
Inherited[name \in DOMAIN Blocks] ==
    LET extends == Blocks[name].extends IN
    [ plain |-> Overlaid(Append([i \in DOMAIN extends |-> Inherited[extends[i]].plain], Blocks[name].plain)),
      variables |-> Overlaid(Append([i \in DOMAIN extends |-> Inherited[extends[i]].variables],
                                    Blocks[name].variables)) ]

\* A rule matches as its text reads: between two || comparisons that hold are joined by &&.
Holds(tokens, env) ==
    LET true == env \ {"&&", "||"} IN
    \E i, k \in 0..Len(tokens) + 1 :
        /\ i + 1 < k /\ (i = 0 \/ tokens[i] = "||") /\ (k = Len(tokens) + 1 \/ tokens[k] = "||")
        /\ tokens[i + 1] \in true /\ tokens[k - 1] \in true
        /\ \A m \in i + 1..k - 1 : tokens[m] \in true \cup {"&&"}
        /\ \A m \in i + 1..k - 2 : tokens[m] = "&&" <=> tokens[m + 1] # "&&"

\* The variables of the first rule that holds
RuleLayer(rules, env) ==
    LET Taken(i) == /\ rules[i].if # Unset => Holds(rules[i].if, env)
                    /\ files_match(rules[i])
        first == {i \in DOMAIN rules : Taken(i) /\ \A k \in 1..i - 1 : ~Taken(k)}
    IN  IF first = {} THEN << >> ELSE rules[CHOOSE i \in first : TRUE].variables

\* Through extends:, defaults, workflow:rules, expansion and rules:, every variable that
\* the runner gets has the value of the last layer that gives one: global, workflow,
\* default, the templates in the order they are extended, the job, its node of the matrix,
\* the rule that matched.  before_script is that of the last block that has one, and that
\* of default: if it is empty.
LastLayerWins ==
    phase = "run" =>
        \A job \in jobs :
            LET config == request.config
                block == Inherited[job.name.base]
                node == IF job.name.suffix # << >> /\ job.name.suffix[1] = "matrix"
                        THEN job.name.suffix[2] ELSE << >>
                global == request.env \cup DOMAIN config.variables
                workflow == IF config.workflow = Unset THEN << >> ELSE RuleLayer(config.workflow, global)
                rule == RuleLayer(Get(block.plain, "rules", << >>), global \cup DOMAIN workflow)
                script == Get(block.plain, "before_script", << >>)
            IN  /\ job.variables = Overlaid(<<config.variables, workflow, config.default.variables,
                                             block.variables, node, rule>>)
                /\ job.before_script = IF script = << >> THEN config.default.before_script ELSE script

\* extends: is refused exactly when some block, a template that no job uses included, extends
\* one that does not exist, or there are blocks each of which extends another of them.
BadExtendsIsAnError ==
    LET Extended(name) == ToSet(Blocks[name].extends)
        unknown == \E name \in DOMAIN Blocks : ~(Extended(name) \subseteq DOMAIN Blocks)
        circular == \E circle \in SUBSET DOMAIN Blocks :
                        circle # {} /\ \A name \in circle : Extended(name) \cap circle # {}
    IN  /\ phase = "error" => unknown \/ circular
        /\ phase \in {"select", "dependents", "filter", "rules", "run", "nothing"} => ~unknown /\ ~circular

\* --changed keeps every instance of a job that a change reaches, directly or through the
\* jobs it needs, by whatever name it needs them, and no other job.
ChangedReachesDependents ==
    phase = "filter" /\ request.changed =>
        LET Needs(job, name) == name \in job.needs \/ Plain(name.base) \in job.needs
            Closed(names) == \A job \in Built :
                                 Touched(job) \/ (\E name \in names : Needs(job, name)) => job.name \in names
            kept == NamesOf(jobs)
        IN  Closed(kept) /\ \A names \in SUBSET kept : Closed(names) => names = kept
=============================================================================
