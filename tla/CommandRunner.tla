----------------------------- MODULE CommandRunner -----------------------------
(***************************************************************************)
(* oss_crs/src/ui.py: run_command_with_streaming_output, the commands of a *)
(* run, each with the threads it starts: a timer for the deadline, a       *)
(* waiter for the early exit, and one monitor for all that looks for       *)
(* artifacts.  The main thread reads the command's output.  SIGTERM may be *)
(* ignored, SIGKILL is not.                                                *)
(*                                                                         *)
(* It implements the promise that module Command states of it.             *)
(***************************************************************************)
EXTENDS Integers

CONSTANT Commands   \* the commands a run executes, by number

ASSUME CommandsAssumption == Commands \subseteq Nat

VARIABLES
  proc,         \* each command's process: "none", "running" or "exited"
  code,         \* its exit code: "none", "zero" or "other"
  signals,      \* signals the program has sent it
  main,         \* the main thread in this command
  timer,        \* the timer thread
  waiter,       \* the early-exit thread
  timedOut, earlyExited,   \* its two events
  result,       \* what the command returned, "none" before
  triggered,    \* self._early_exit_triggered
  monitor,      \* "off", "polling" or "done"
  expired,      \* the deadline has passed
  broken,       \* history: commands left by an exception in their output loop
  deadlineOn,   \* the run has a deadline
  earlyExit,    \* the run has --early-exit
  seen          \* what _check_early_exit returns

world == <<deadlineOn, earlyExit, seen>>
vars  == <<proc, code, signals, main, timer, waiter, timedOut, earlyExited, result,
           triggered, monitor, expired, broken, world>>

Outcomes == {"none", "ok", "exit", "late", "timeout", "early_exit", "user", "error"}

TypeOK ==
  /\ proc \in [Commands -> {"none", "running", "exited"}]
  /\ code \in [Commands -> {"none", "zero", "other"}]
  /\ signals \in [Commands -> SUBSET {"term", "kill"}]
  /\ main \in [Commands -> {"idle", "spawned", "late", "read", "interrupted", "drained",
                            "report", "done", "unwound"}]
  /\ timer \in [Commands -> {"off", "armed", "flagged", "set", "wait", "done"}]
  /\ waiter \in [Commands -> {"off", "waiting", "woken", "confirmed", "wait", "done"}]
  /\ timedOut \in [Commands -> BOOLEAN]
  /\ earlyExited \in [Commands -> BOOLEAN]
  /\ result \in [Commands -> Outcomes]
  /\ triggered \in BOOLEAN /\ expired \in BOOLEAN
  /\ monitor \in {"off", "polling", "done"}
  /\ broken \subseteq Commands
  /\ deadlineOn \in BOOLEAN /\ earlyExit \in BOOLEAN /\ seen \in BOOLEAN

Init ==
  /\ proc = [c \in Commands |-> "none"]
  /\ code = [c \in Commands |-> "none"]
  /\ signals = [c \in Commands |-> {}]
  /\ main = [c \in Commands |-> "idle"]
  /\ timer = [c \in Commands |-> "off"]
  /\ waiter = [c \in Commands |-> "off"]
  /\ timedOut = [c \in Commands |-> FALSE]
  /\ earlyExited = [c \in Commands |-> FALSE]
  /\ result = [c \in Commands |-> "none"]
  /\ triggered = FALSE /\ expired = FALSE
  /\ broken = {}
  /\ deadlineOn \in BOOLEAN /\ earlyExit \in BOOLEAN
  /\ seen \in IF earlyExit THEN BOOLEAN ELSE {FALSE}
  /\ monitor = IF earlyExit THEN "polling" ELSE "off"

-----------------------------------------------------------------------------
\* The main thread is in this command.
Active(c) == main[c] \notin {"idle", "done", "unwound"}

\* _graceful_terminate: terminate() is a no-op on a process that has exited.
Sent(c, s) == IF proc[c] = "running" THEN [signals EXCEPT ![c] = @ \union {s}] ELSE signals

-----------------------------------------------------------------------------
(* The main thread.                                                          *)

\* Popen; the executable may be missing.
Spawn(c) ==
  /\ main[c] = "idle"
  /\ \A d \in Commands : d < c => main[d] = "done"
  /\ \/ /\ proc' = [proc EXCEPT ![c] = "running"]
        /\ main' = [main EXCEPT ![c] = "spawned"]
        /\ UNCHANGED result
     \/ /\ main' = [main EXCEPT ![c] = "done"]
        /\ result' = [result EXCEPT ![c] = "error"]
        /\ UNCHANGED proc
  /\ UNCHANGED <<code, signals, timer, waiter, timedOut, earlyExited, triggered, monitor,
                 expired, broken, world>>

\* A deadline that is over ends the command at once; else its threads are started.
Arm(c) ==
  /\ main[c] = "spawned"
  /\ IF deadlineOn /\ expired
       THEN /\ main' = [main EXCEPT ![c] = "late"]
            /\ signals' = Sent(c, "term")
            /\ UNCHANGED <<timer, waiter>>
       ELSE /\ main' = [main EXCEPT ![c] = "read"]
            /\ timer' = [timer EXCEPT ![c] = IF deadlineOn THEN "armed" ELSE "off"]
            /\ waiter' = [waiter EXCEPT ![c] = IF earlyExit THEN "waiting" ELSE "off"]
            /\ UNCHANGED signals
  /\ UNCHANGED <<proc, code, timedOut, earlyExited, result, triggered, monitor, expired,
                 broken, world>>

\* wait(timeout) of the main thread is over: SIGKILL.
KillByMain(c) ==
  /\ main[c] \in {"late", "interrupted"} /\ proc[c] = "running" /\ "kill" \notin signals[c]
  /\ signals' = [signals EXCEPT ![c] = @ \union {"kill"}]
  /\ UNCHANGED <<proc, code, main, timer, waiter, timedOut, earlyExited, result, triggered,
                 monitor, expired, broken, world>>

\* Mutant: the answer to Ctrl-C does not wait for the process.
InterruptReturnsAtOnce(c) ==
  /\ main[c] = "interrupted"
  /\ main' = [main EXCEPT ![c] = "done"]
  /\ timer' = [timer EXCEPT ![c] = IF @ = "armed" THEN "done" ELSE @]
  /\ result' = [result EXCEPT ![c] = "user"]
  /\ UNCHANGED <<proc, code, signals, waiter, timedOut, earlyExited, triggered, monitor,
                 expired, broken, world>>

LateReturns(c) ==
  /\ main[c] = "late" /\ proc[c] = "exited"
  /\ main' = [main EXCEPT ![c] = "done"]
  /\ result' = [result EXCEPT ![c] = "late"]
  /\ UNCHANGED <<proc, code, signals, timer, waiter, timedOut, earlyExited, triggered,
                 monitor, expired, broken, world>>

\* The end of the output and process.wait().
Drain(c) ==
  /\ main[c] = "read" /\ proc[c] = "exited"
  /\ main' = [main EXCEPT ![c] = "drained"]
  /\ UNCHANGED <<proc, code, signals, timer, waiter, timedOut, earlyExited, result,
                 triggered, monitor, expired, broken, world>>

Cancelled(c) == [timer EXCEPT ![c] = IF @ = "armed" THEN "done" ELSE @]

CancelTimer(c) ==
  /\ main[c] = "drained"
  /\ main' = [main EXCEPT ![c] = "report"]
  /\ timer' = Cancelled(c)
  /\ UNCHANGED <<proc, code, signals, waiter, timedOut, earlyExited, result, triggered,
                 monitor, expired, broken, world>>

Report(c) ==
  /\ main[c] = "report"
  /\ main' = [main EXCEPT ![c] = "done"]
  /\ result' = [result EXCEPT ![c] = IF timedOut[c] THEN "timeout"
                                     ELSE IF earlyExited[c] THEN "early_exit"
                                     ELSE IF code[c] = "zero" THEN "ok" ELSE "exit"]
  /\ UNCHANGED <<proc, code, signals, timer, waiter, timedOut, earlyExited, triggered,
                 monitor, expired, broken, world>>

\* Ctrl-C while the output is read: SIGTERM, then wait.
Interrupt(c) ==
  /\ main[c] = "read"
  /\ main' = [main EXCEPT ![c] = "interrupted"]
  /\ signals' = Sent(c, "term")
  /\ UNCHANGED <<proc, code, timer, waiter, timedOut, earlyExited, result, triggered,
                 monitor, expired, broken, world>>

InterruptReturns(c) ==
  /\ main[c] = "interrupted" /\ proc[c] = "exited"
  /\ main' = [main EXCEPT ![c] = "done"]
  /\ timer' = Cancelled(c)
  /\ result' = [result EXCEPT ![c] = "user"]
  /\ UNCHANGED <<proc, code, signals, waiter, timedOut, earlyExited, triggered, monitor,
                 expired, broken, world>>

\* The console raises while a line is printed: the process is left alone.
OutputFails(c) ==
  /\ main[c] = "read"
  /\ main' = [main EXCEPT ![c] = "done"]
  /\ timer' = Cancelled(c)
  /\ result' = [result EXCEPT ![c] = "error"]
  /\ broken' = broken \union {c}
  /\ UNCHANGED <<proc, code, signals, waiter, timedOut, earlyExited, triggered, monitor,
                 expired, world>>

\* Ctrl-C at any other place of the main thread leaves the function.
Leave(c) ==
  /\ main' = [main EXCEPT ![c] = IF @ \in {"idle", "done"} THEN @ ELSE "unwound"]
  /\ timer' = IF main[c] = "interrupted" THEN Cancelled(c) ELSE timer
  /\ UNCHANGED <<proc, code, signals, waiter, timedOut, earlyExited, result, triggered,
                 monitor, expired, broken, world>>

-----------------------------------------------------------------------------
(* The timer: _on_timeout.                                                   *)

\* Mutant: the process is asked to end before the flag is set.
TimerTerminatesFirst(c) ==
  /\ timer[c] = "armed" /\ expired
  /\ timer' = [timer EXCEPT ![c] = "wait"]
  /\ signals' = Sent(c, "term")
  /\ UNCHANGED <<proc, code, main, waiter, timedOut, earlyExited, result, triggered, monitor,
                 expired, broken, world>>

TimerFires(c) ==
  /\ timer[c] = "armed" /\ expired
  /\ timer' = [timer EXCEPT ![c] = "flagged"]
  /\ timedOut' = [timedOut EXCEPT ![c] = TRUE]
  /\ UNCHANGED <<proc, code, signals, main, waiter, earlyExited, result, triggered, monitor,
                 expired, broken, world>>

TimerStopsMonitor(c) ==
  /\ timer[c] = "flagged"
  /\ timer' = [timer EXCEPT ![c] = "set"]
  /\ triggered' = TRUE
  /\ UNCHANGED <<proc, code, signals, main, waiter, timedOut, earlyExited, result, monitor,
                 expired, broken, world>>

TimerTerminates(c) ==
  /\ timer[c] = "set"
  /\ timer' = [timer EXCEPT ![c] = IF proc[c] = "running" THEN "wait" ELSE "done"]
  /\ signals' = Sent(c, "term")
  /\ UNCHANGED <<proc, code, main, waiter, timedOut, earlyExited, result, triggered, monitor,
                 expired, broken, world>>

\* Mutant: no SIGKILL after the wait.
TimerGivesUp(c) ==
  /\ timer[c] = "wait"
  /\ timer' = [timer EXCEPT ![c] = "done"]
  /\ UNCHANGED <<proc, code, signals, main, waiter, timedOut, earlyExited, result, triggered,
                 monitor, expired, broken, world>>

TimerWaits(c) ==
  /\ timer[c] = "wait"
  /\ signals' = Sent(c, "kill")
  /\ timer' = [timer EXCEPT ![c] = "done"]
  /\ UNCHANGED <<proc, code, main, waiter, timedOut, earlyExited, result, triggered, monitor,
                 expired, broken, world>>

-----------------------------------------------------------------------------
(* The early-exit thread: _on_early_exit.                                    *)

WaiterWakes(c) ==
  /\ waiter[c] = "waiting" /\ triggered
  /\ waiter' = [waiter EXCEPT ![c] = IF timedOut[c] THEN "done" ELSE "woken"]
  /\ UNCHANGED <<proc, code, signals, main, timer, timedOut, earlyExited, result, triggered,
                 monitor, expired, broken, world>>

\* Mutant: the thread does not confirm.
WaiterTrusts(c) ==
  /\ waiter[c] = "woken"
  /\ waiter' = [waiter EXCEPT ![c] = "confirmed"]
  /\ earlyExited' = [earlyExited EXCEPT ![c] = TRUE]
  /\ UNCHANGED <<proc, code, signals, main, timer, timedOut, result, triggered, monitor,
                 expired, broken, world>>

\* "Confirm it's a real artifact": the thread ends when there is none (any more).
WaiterConfirms(c) ==
  /\ waiter[c] = "woken"
  /\ waiter' = [waiter EXCEPT ![c] = IF seen THEN "confirmed" ELSE "done"]
  /\ earlyExited' = [earlyExited EXCEPT ![c] = seen]
  /\ UNCHANGED <<proc, code, signals, main, timer, timedOut, result, triggered, monitor,
                 expired, broken, world>>

WaiterTerminates(c) ==
  /\ waiter[c] = "confirmed"
  /\ waiter' = [waiter EXCEPT ![c] = IF proc[c] = "running" THEN "wait" ELSE "done"]
  /\ signals' = Sent(c, "term")
  /\ UNCHANGED <<proc, code, main, timer, timedOut, earlyExited, result, triggered, monitor,
                 expired, broken, world>>

WaiterWaits(c) ==
  /\ waiter[c] = "wait"
  /\ signals' = Sent(c, "kill")
  /\ waiter' = [waiter EXCEPT ![c] = "done"]
  /\ UNCHANGED <<proc, code, main, timer, timedOut, earlyExited, result, triggered, monitor,
                 expired, broken, world>>

\* The monitor polls; an event that somebody else has set ends it too.
MonitorPolls ==
  /\ monitor = "polling"
  /\ triggered \/ seen
  /\ triggered' = TRUE
  /\ monitor' = "done"
  /\ UNCHANGED <<proc, code, signals, main, timer, waiter, timedOut, earlyExited, result,
                 expired, broken, world>>

-----------------------------------------------------------------------------
(* The environment.                                                          *)

\* The process ends, by itself or by a signal.
ProcessExits(c, k) ==
  /\ proc[c] = "running"
  /\ proc' = [proc EXCEPT ![c] = "exited"]
  /\ code' = [code EXCEPT ![c] = k]
  /\ UNCHANGED <<signals, main, timer, waiter, timedOut, earlyExited, result, triggered,
                 monitor, expired, broken, world>>

DeadlinePasses ==
  /\ deadlineOn /\ ~expired
  /\ expired' = TRUE
  /\ UNCHANGED <<proc, code, signals, main, timer, waiter, timedOut, earlyExited, result,
                 triggered, monitor, broken, world>>

\* CRSs find artifacts, and the program empties directories.
ArtifactsChange ==
  /\ earlyExit
  /\ seen' = ~seen
  /\ UNCHANGED <<proc, code, signals, main, timer, waiter, timedOut, earlyExited, result,
                 triggered, monitor, expired, broken, deadlineOn, earlyExit>>

MainStep(c) ==
  \/ Spawn(c)
  \/ Arm(c)
  \/ KillByMain(c)
  \/ LateReturns(c)
  \/ Drain(c)
  \/ CancelTimer(c)
  \/ Report(c)
  \/ InterruptReturns(c)

ThreadStep(c) ==
  \/ TimerFires(c)
  \/ TimerStopsMonitor(c)
  \/ TimerTerminates(c)
  \/ TimerWaits(c)
  \/ WaiterWakes(c)
  \/ WaiterConfirms(c)
  \/ WaiterTerminates(c)
  \/ WaiterWaits(c)

\* An interrupt that has left a command ends the program, and its threads are daemons.
Left == \E c \in Commands : main[c] = "unwound"

Next ==
  /\ ~Left
  /\ \/ \E c \in Commands :
          \/ MainStep(c)
          \/ ThreadStep(c)
          \/ Interrupt(c)
          \/ OutputFails(c)
          \/ Leave(c)
          \/ \E k \in {"zero", "other"} : ProcessExits(c, k)
     \/ MonitorPolls
     \/ DeadlinePasses
     \/ ArtifactsChange

\* A killed process ends; the other threads and the command's caller go on.
Fairness ==
  /\ WF_vars(~Left /\ MonitorPolls)
  /\ \A c \in Commands :
       /\ WF_vars(~Left /\ MainStep(c))
       /\ WF_vars(~Left /\ ThreadStep(c))
       /\ WF_vars(~Left /\ "kill" \in signals[c] /\ \E k \in {"zero", "other"} : ProcessExits(c, k))

Spec == Init /\ [][Next]_vars /\ Fairness

-----------------------------------------------------------------------------
\* A command the program has asked to end is not reported as one that ended by itself,
\* and a time-out is reported only after the deadline.
StopsAreReported == \A c \in Commands :
  /\ result[c] \in {"ok", "exit"} => signals[c] = {}
  /\ result[c] \in {"timeout", "late"} => expired

\* What a command returns is a state of the model, and is true.
ResultsAreTrue == TypeOK /\ StopsAreReported

\* No process of a command that has returned is alive, unless its output loop raised.
NoProcessLeft == \A c \in Commands :
  main[c] = "done" /\ c \notin broken => proc[c] # "running"

-----------------------------------------------------------------------------
(* The promise of Command: a thread asks when it sets its event, the main   *)
(* thread when it catches the interrupt or finds the deadline over.         *)

\* Where its caller sees a command.
stage == [c \in Commands |-> IF main[c] \in {"idle", "done"} THEN main[c]
                             ELSE IF main[c] = "unwound" THEN "left" ELSE "running"]

alive    == [c \in Commands |-> proc[c] = "running"]
exitCode == [c \in Commands |-> IF Active(c) THEN code[c] ELSE "none"]
limited  == [c \in Commands |-> Active(c) /\ deadlineOn]

\* A thread waits for the event, or will be started.
watched == [c \in Commands |-> /\ Active(c) /\ earlyExit
                               /\ main[c] = "spawned" \/ waiter[c] \in {"waiting", "woken"}]

asked == [c \in Commands |-> {s \in {"late", "user", "timeout", "early_exit"} :
           /\ Active(c)
           /\ \/ s = "late" /\ main[c] = "late"
              \/ s = "user" /\ main[c] = "interrupted"
              \/ s = "timeout" /\ timedOut[c]
              \/ s = "early_exit" /\ earlyExited[c]}]

Promise == INSTANCE Command WITH
  cmd <- stage, live <- alive, code <- exitCode, limited <- limited, watched <- watched,
  asked <- asked

PromiseStep ==
  \/ \E c \in Commands : Promise!CommandStep(c, deadlineOn, earlyExit, seen)
  \/ Promise!TriggerExit(seen)
  \/ Promise!DeadlinePasses

\* The threads never make a command do what Command does not allow.
PromiseKept == Promise!CommandInit /\ [][PromiseStep]_(Promise!cmdVars)

\* A command that was asked to stop, by whom ever, or whose deadline has passed, ends or is
\* left to its caller, although its process may ignore SIGTERM.
StopsEnd == \A c \in Commands :
  Active(c) /\ (timedOut[c] \/ earlyExited[c] \/ (deadlineOn /\ expired) \/ main[c] = "interrupted")
    ~> ~Active(c)

=============================================================================
