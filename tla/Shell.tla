------------------------------- MODULE Shell -------------------------------
(***************************************************************************)
(* run_bash in execution/shell.py, in its streaming mode: the calling      *)
(* thread, the threads that stream bash's output, the thread that kills    *)
(* bash at the timeout, bash itself, and the commands bash starts.  The    *)
(* script is written to bash's stdin; one that exceeds the pipe's buffer   *)
(* is written as fast as bash comes to read it.  The streaming threads end *)
(* when the last process that holds the output pipe is gone, and a command *)
(* holds the pipe it inherits from bash.                                   *)
(***************************************************************************)
EXTENDS Integers

CONSTANTS
    MaxCommands,    \* bound on the commands of the script
    HasTimeout      \* run_bash was given a timeout

ASSUME ShellAssumption == MaxCommands \in Nat /\ HasTimeout \in BOOLEAN

VARIABLES
    caller,                       \* where the calling thread is
    bash,                         \* the bash process
    unread,                       \* the script is longer than the pipe's buffer, and bash
                                  \*   has not read its rest
    redirected,                   \* bash has sent its own output elsewhere (exec >file)
    command,                      \* the command bash has started
    commands,                     \* commands started so far
    timer,                        \* the thread kill_on_timeout
    cancel_timer,                 \* the event that calls it off
    process_killed_by_timeout     \* the flag it sets

script == <<bash, unread, redirected, command, commands>>
timing == <<timer, cancel_timer, process_killed_by_timeout>>
shellVars == <<caller, script, timing>>

ShellInit ==
    /\ caller = "writing"
    /\ bash = "running"
    /\ unread \in BOOLEAN
    /\ redirected = FALSE
    /\ command = "none"
    /\ commands = 0
    /\ timer = "none"
    /\ cancel_timer = FALSE
    /\ process_killed_by_timeout = FALSE

-----------------------------------------------------------------------------
(* The script.                                                             *)

BashIsFree == bash = "running" /\ command # "foreground"

StartCommand(how) ==
    /\ bash = "running"
    /\ command = "none"
    /\ commands < MaxCommands
    /\ command' = how
    /\ commands' = commands + 1
    /\ UNCHANGED <<caller, bash, unread, redirected, timing>>

CommandEnds ==
    /\ command # "none"
    /\ command' = "none"
    /\ UNCHANGED <<caller, bash, unread, redirected, commands, timing>>

Redirect ==
    /\ bash = "running"
    /\ command = "none"
    /\ ~redirected
    /\ redirected' = TRUE
    /\ UNCHANGED <<caller, bash, unread, command, commands, timing>>

ReadRest ==
    /\ BashIsFree
    /\ unread
    /\ unread' = FALSE
    /\ UNCHANGED <<caller, bash, redirected, command, commands, timing>>

\* bash waits for a command in the foreground, and leaves one in the background behind.
BashExits ==
    /\ BashIsFree
    /\ bash' = "exited"
    /\ UNCHANGED <<caller, unread, redirected, command, commands, timing>>

-----------------------------------------------------------------------------
(* kill_on_timeout.                                                        *)

\* cancel_timer.wait(timeout) returns False, or returns True because the event is set.
TimerExpires ==
    /\ timer = "waiting"
    /\ timer' = "expired"
    /\ UNCHANGED <<caller, script, cancel_timer, process_killed_by_timeout>>

TimerCancelled ==
    /\ timer = "waiting"
    /\ cancel_timer
    /\ timer' = "over"
    /\ UNCHANGED <<caller, script, cancel_timer, process_killed_by_timeout>>

\* (mutant) the flag is not set
SetNoFlag ==
    /\ timer = "expired"
    /\ timer' = "killing"
    /\ UNCHANGED <<caller, script, cancel_timer, process_killed_by_timeout>>

SetFlag ==
    /\ timer = "expired"
    /\ timer' = "killing"
    /\ process_killed_by_timeout' = TRUE
    /\ UNCHANGED <<caller, script, cancel_timer>>

\* proc.kill() ends bash, and bash only; it does nothing to a process that is over.
Kill ==
    /\ timer = "killing"
    /\ timer' = "over"
    /\ bash' = IF bash = "running" THEN "killed" ELSE bash
    /\ UNCHANGED <<caller, unread, redirected, command, commands, cancel_timer,
                   process_killed_by_timeout>>

-----------------------------------------------------------------------------
(* The calling thread.                                                     *)

\* proc.stdin.write and close return, and the timer thread is started.
ScriptWritten ==
    /\ caller = "writing"
    /\ ~unread
    /\ caller' = "streaming"
    /\ timer' = IF HasTimeout THEN "waiting" ELSE "none"
    /\ UNCHANGED <<script, cancel_timer, process_killed_by_timeout>>

\* bash ended without reading the rest of its script: BrokenPipeError.
WriteFails ==
    /\ caller = "writing"
    /\ unread
    /\ bash # "running"
    /\ caller' = "broken_pipe"
    /\ UNCHANGED <<script, timing>>

\* (mutant) a killed bash does not close the pipe
PipeClosedByExit == redirected \/ (bash = "exited" /\ command = "none")

\* Nobody holds the pipe: commands started after a redirection do not inherit it.
PipeClosed == redirected \/ (bash # "running" /\ command = "none")

\* t_out.join(), t_err.join()
StreamsJoined ==
    /\ caller = "streaming"
    /\ PipeClosed
    /\ caller' = "waiting"
    /\ UNCHANGED <<script, timing>>

\* (mutant) bash is taken to be over when its output is
NotWaited ==
    /\ caller = "waiting"
    /\ caller' = "cancelling"
    /\ UNCHANGED <<script, timing>>

\* proc.wait()
Waited ==
    /\ caller = "waiting"
    /\ bash # "running"
    /\ caller' = "cancelling"
    /\ UNCHANGED <<script, timing>>

CancelTimer ==
    /\ caller = "cancelling"
    /\ cancel_timer' = HasTimeout
    /\ caller' = "joining"
    /\ UNCHANGED <<script, timer, process_killed_by_timeout>>

\* t_kill.join(timeout=0.1) may give up; then the flag decides.
Verdict ==
    /\ caller = "joining"
    /\ caller' = IF process_killed_by_timeout THEN "timeout" ELSE "result"
    /\ UNCHANGED <<script, timing>>

-----------------------------------------------------------------------------
Over == caller \in {"result", "timeout", "broken_pipe"}

Script ==
    \/ \E how \in {"foreground", "background"} : StartCommand(how)
    \/ CommandEnds \/ Redirect \/ ReadRest \/ BashExits
Timer == TimerExpires \/ TimerCancelled \/ SetFlag \/ Kill
Caller == ScriptWritten \/ WriteFails \/ StreamsJoined \/ Waited \/ CancelTimer \/ Verdict
ShellTerminated == Over /\ timer \in {"none", "over"} /\ command = "none" /\ UNCHANGED shellVars

ShellNext == Script \/ Timer \/ Caller \/ ShellTerminated

ShellSpec == ShellInit /\ [][ShellNext]_shellVars

\* The threads of bitrab run, and the clock of the timer with them; nothing is assumed of
\* the script.
ThreadsFair == WF_shellVars(Caller) /\ WF_shellVars(Timer)
ShellFairSpec == ShellSpec /\ ThreadsFair

\* Commands end and bash takes them one by one to its end.
ScriptFair == WF_shellVars(CommandEnds) /\ WF_shellVars(ReadRest) /\ WF_shellVars(BashExits)
EndingScriptSpec == ShellFairSpec /\ ScriptFair

-----------------------------------------------------------------------------
\* A killed script is never reported by an exit code: whenever the verdict is a result,
\* bash ended by itself, however the kill raced with the end of the script.
KilledIsTimeout == caller = "result" => bash = "exited"

\* bash is over before the timer is called off, so a late timer has nothing to kill: not
\* even when bash closed its output long before it ended.
NoLateKill ==
    [][ bash' # bash => caller \notin {"cancelling", "joining", "result", "timeout"} ]_shellVars

\* run_bash returns when the script ends, killed or not.
RunBashEnds == <>Over

\* "Maximum seconds the job may run": when the time is over, run_bash ends, whatever the
\* script does.
TimeoutEndsRun == (timer = "expired") ~> Over

=============================================================================
