--------------------------- MODULE MCJobExecutor ---------------------------
(***************************************************************************)
(* The executions and the scripts over which TLC checks JobExecutor and    *)
(* Shell.  The two share no state, so a behaviour moves one of them and    *)
(* leaves the other where it has nothing to do: without executions, or     *)
(* after the end of a script.                                              *)
(***************************************************************************)
EXTENDS JobExecutor, Shell

\* One job on its own, with every retry section, timeout and script list.
MCCaches == {<< >>, <<"pull", "on_failure">>, <<"on_success", "always", "on_failure">>}
AnyJob == {c \in JobConfig : ~c.resource_group /\ c.cache \in MCCaches}

\* Two jobs of one group with an after_script; one of them is retried, any may time out.
GroupedJobs(retries) ==
    [ retry_max : {retries}, retry_when : {"unset"}, retry_exit_codes : {{}},
      before_script : {FALSE}, after_script : {TRUE}, timeout : BOOLEAN,
      cache : {<< >>}, resource_group : {TRUE} ]
MCGroups == {[p |-> jp, q |-> jq] : jp \in GroupedJobs(1), jq \in GroupedJobs(0)}

MCWorkloads == [{"p"} -> AnyJob] \cup MCGroups \cup {<< >>}

NoScript ==
    /\ caller = "result" /\ bash = "exited" /\ unread = FALSE /\ redirected = FALSE
    /\ command = "none" /\ commands = 0
    /\ timer = "none" /\ cancel_timer = FALSE /\ process_killed_by_timeout = FALSE

ExecutorInit == Init /\ (NoScript \/ (job = << >> /\ ShellInit))

ExecutorNext ==
    \/ Next /\ UNCHANGED shellVars
    \/ ShellNext /\ UNCHANGED vars

ExecutorSpec ==
    /\ ExecutorInit /\ [][ExecutorNext]_<<vars, shellVars>>
    /\ ExecutionsFair /\ ThreadsFair /\ ScriptFair
=============================================================================
