-------------------------------- MODULE Command --------------------------------
(***************************************************************************)
(* What run_command_with_streaming_output of oss_crs/src/ui.py promises of *)
(* the commands of a run: each is started once, may be asked to stop by    *)
(* the deadline, by an artifact or by the user, and returns when its       *)
(* process has ended.  CommandRunner, with its threads, implements it.     *)
(*                                                                         *)
(* A composing module says which artifacts are visible (seen).             *)
(***************************************************************************)
EXTENDS Integers

CONSTANT Commands   \* names of the commands a run executes

VARIABLES
  cmd,        \* each command: "idle", "running", "done", or "left" by an interrupt
  live,       \* its process is alive
  code,       \* its exit code, until it returns: "none", "zero" or "other"
  limited,    \* a deadline was set when it was started
  watched,    \* an artifact would stop it
  asked,      \* who has asked it to stop
  result,     \* what it returned, "none" before
  triggered,  \* self._early_exit_triggered
  expired     \* the deadline has passed

cmdVars == <<cmd, live, code, limited, watched, asked, result, triggered, expired>>

Outcomes == {"none", "ok", "exit", "late", "timeout", "early_exit", "user", "error"}
Stops    == {"late", "timeout", "early_exit", "user"}

CommandTypeOK ==
  /\ cmd \in [Commands -> {"idle", "running", "done", "left"}]
  /\ live \in [Commands -> BOOLEAN] /\ limited \in [Commands -> BOOLEAN]
  /\ watched \in [Commands -> BOOLEAN]
  /\ code \in [Commands -> {"none", "zero", "other"}]
  /\ asked \in [Commands -> SUBSET Stops]
  /\ result \in [Commands -> Outcomes]
  /\ triggered \in BOOLEAN /\ expired \in BOOLEAN

CommandInit ==
  /\ cmd = [c \in Commands |-> "idle"]
  /\ live = [c \in Commands |-> FALSE]
  /\ code = [c \in Commands |-> "none"]
  /\ limited = [c \in Commands |-> FALSE]
  /\ watched = [c \in Commands |-> FALSE]
  /\ asked = [c \in Commands |-> {}]
  /\ result = [c \in Commands |-> "none"]
  /\ triggered = FALSE /\ expired = FALSE

-----------------------------------------------------------------------------
\* The command returns r, or is left by an exception.
Ends(c, state, r) ==
  /\ cmd' = [cmd EXCEPT ![c] = state]
  /\ result' = [result EXCEPT ![c] = r]
  /\ limited' = [limited EXCEPT ![c] = FALSE]
  /\ watched' = [watched EXCEPT ![c] = FALSE]
  /\ asked' = [asked EXCEPT ![c] = {}]
  /\ code' = [code EXCEPT ![c] = "none"]

\* Mutant: no thread waits for an event that has already been set.
StartCommandUnwatched(c, deadlineOn, earlyExit) ==
  /\ cmd[c] = "idle"
  /\ cmd' = [cmd EXCEPT ![c] = "running"]
  /\ live' = [live EXCEPT ![c] = TRUE]
  /\ limited' = [limited EXCEPT ![c] = deadlineOn]
  /\ watched' = [watched EXCEPT ![c] = earlyExit /\ ~triggered]
  /\ UNCHANGED <<code, asked, result, triggered, expired>>

\* The process is started, or its executable is missing.
StartCommand(c, deadlineOn, earlyExit) ==
  /\ cmd[c] = "idle"
  /\ \/ /\ cmd' = [cmd EXCEPT ![c] = "running"]
        /\ live' = [live EXCEPT ![c] = TRUE]
        /\ limited' = [limited EXCEPT ![c] = deadlineOn]
        /\ watched' = [watched EXCEPT ![c] = earlyExit]
        /\ UNCHANGED <<code, asked, result>>
     \/ Ends(c, "done", "error") /\ UNCHANGED live
  /\ UNCHANGED <<triggered, expired>>

\* The deadline is found over at the start, or passes later.
DeadlineStops(c) ==
  /\ cmd[c] = "running" /\ limited[c] /\ expired
  /\ asked[c] \cap {"late", "timeout"} = {}
  /\ \/ /\ asked[c] = {}
        /\ asked' = [asked EXCEPT ![c] = {"late"}]
        /\ watched' = [watched EXCEPT ![c] = FALSE]
     \/ /\ asked' = [asked EXCEPT ![c] = @ \union {"timeout"}]
        /\ UNCHANGED watched
  /\ UNCHANGED <<cmd, live, code, limited, result, triggered, expired>>

\* Somebody has set the event: the command is stopped if an artifact is there to see, and
\* is not watched any more.
ArtifactStops(c, seen) ==
  /\ cmd[c] = "running" /\ watched[c] /\ triggered
  /\ watched' = [watched EXCEPT ![c] = FALSE]
  /\ \/ seen /\ asked' = [asked EXCEPT ![c] = @ \union {"early_exit"}]
     \/ (~seen \/ "timeout" \in asked[c]) /\ UNCHANGED asked
  /\ UNCHANGED <<cmd, live, code, limited, result, triggered, expired>>

\* Ctrl-C while the output is read.
UserStops(c) ==
  /\ cmd[c] = "running" /\ "late" \notin asked[c]
  /\ asked' = [asked EXCEPT ![c] = @ \union {"user"}]
  /\ UNCHANGED <<cmd, live, code, limited, watched, result, triggered, expired>>

\* The event that stops watched commands: set for an artifact, or by a deadline.
TriggerExit(seen) ==
  /\ ~triggered
  /\ seen \/ expired
  /\ triggered' = TRUE
  /\ UNCHANGED <<cmd, live, code, limited, watched, asked, result, expired>>

\* The answer of the command, from who has asked it to stop and its exit code.
ResultOf(stops, k) == IF "late" \in stops THEN "late"
                      ELSE IF "user" \in stops THEN "user"
                      ELSE IF "timeout" \in stops THEN "timeout"
                      ELSE IF "early_exit" \in stops THEN "early_exit"
                      ELSE IF k = "zero" THEN "ok" ELSE "exit"

\* Mutant: a command that was asked to stop is not waited for.
ReturnCommandEarly(c) ==
  /\ cmd[c] = "running" /\ (~live[c] \/ asked[c] # {})
  /\ Ends(c, "done", ResultOf(asked[c], code[c]))
  /\ UNCHANGED <<live, triggered, expired>>

\* The process has ended and its output is read.
ReturnCommand(c) ==
  /\ cmd[c] = "running" /\ ~live[c]
  /\ Ends(c, "done", ResultOf(asked[c], code[c]))
  /\ UNCHANGED <<live, triggered, expired>>

\* The console raises while a line is printed: the process is left alone.
BreakCommand(c) ==
  /\ cmd[c] = "running" /\ asked[c] \cap {"late", "user"} = {}
  /\ Ends(c, "done", "error")
  /\ UNCHANGED <<live, triggered, expired>>

\* Ctrl-C at any other place leaves the function.
LeaveCommand(c) ==
  /\ cmd[c] = "running"
  /\ Ends(c, "left", "none")
  /\ UNCHANGED <<live, triggered, expired>>

\* The process ends, by itself or by a signal.
ProcessExits(c, k) ==
  /\ live[c]
  /\ live' = [live EXCEPT ![c] = FALSE]
  /\ code' = [code EXCEPT ![c] = IF cmd[c] = "running" THEN k ELSE @]
  /\ UNCHANGED <<cmd, limited, watched, asked, result, triggered, expired>>

DeadlinePasses ==
  /\ ~expired
  /\ expired' = TRUE
  /\ UNCHANGED <<cmd, live, code, limited, watched, asked, result, triggered>>

-----------------------------------------------------------------------------
CommandStep(c, deadlineOn, earlyExit, seen) ==
  \/ StartCommand(c, deadlineOn, earlyExit)
  \/ DeadlineStops(c)
  \/ ArtifactStops(c, seen)
  \/ UserStops(c)
  \/ ReturnCommand(c)
  \/ BreakCommand(c)
  \/ LeaveCommand(c)
  \/ \E k \in {"zero", "other"} : ProcessExits(c, k)

\* A command that was asked to stop ends, at the latest by SIGKILL.
Killed(c) == asked[c] # {} /\ \E k \in {"zero", "other"} : ProcessExits(c, k)

=============================================================================
