-------------------------- MODULE CommandRunnerProofs --------------------------
(***************************************************************************)
(* Theorems about CommandRunner for every set of commands: what a command  *)
(* returns is true, no process outlives its command, and the threads keep  *)
(* the promise of module Command.                                          *)
(***************************************************************************)
EXTENDS CommandRunner, TLAPS

\* Where the main thread is in a command tells what its process and its threads can be.
MainInv(c) ==
  /\ main[c] = "idle" => proc[c] = "none" /\ code[c] = "none"
  /\ main[c] \in {"idle", "spawned", "late"} => timer[c] = "off" /\ waiter[c] = "off"
  /\ main[c] \in {"drained", "report"} => proc[c] = "exited"
  /\ main[c] = "late" => deadlineOn /\ expired
  /\ main[c] # "done" => result[c] = "none"
  /\ main[c] = "done" /\ c \notin broken => proc[c] # "running"

\* A thread's place tells whether it has set its event.
ThreadInv(c) ==
  /\ timer[c] \in {"off", "armed"} => ~timedOut[c]
  /\ timer[c] \in {"flagged", "set", "wait"} => timedOut[c]
  /\ timer[c] # "off" => deadlineOn
  /\ timedOut[c] => expired
  /\ waiter[c] \in {"off", "waiting", "woken"} => ~earlyExited[c]
  /\ waiter[c] \in {"confirmed", "wait"} => earlyExited[c]
  /\ waiter[c] # "off" => earlyExit
  /\ waiter[c] \in {"woken", "confirmed", "wait"} => triggered

\* A signal is sent after an event is set, or by the main thread; and to processes only
\* that still run, so none is sent after a command has ended by itself.
SignalInv(c) ==
  /\ main[c] = "idle" => signals[c] = {}
  /\ main[c] \in {"spawned", "read", "drained", "report"} /\ ~timedOut[c] /\ ~earlyExited[c]
       => signals[c] = {}
  /\ result[c] \in {"ok", "exit"} => proc[c] = "exited" /\ signals[c] = {}
  /\ result[c] \in {"timeout", "late"} => expired

CommandInv(c) == MainInv(c) /\ ThreadInv(c) /\ SignalInv(c)
IInv == TypeOK /\ \A c \in Commands : CommandInv(c)

-----------------------------------------------------------------------------
\* The initial state satisfies the invariant.
LEMMA InitIInv == Init => IInv
<1> SUFFICES ASSUME Init PROVE IInv
  OBVIOUS
<1>1. TypeOK
  BY DEF Init, TypeOK, Outcomes
<1>2. \A c \in Commands : CommandInv(c)
  BY DEF Init, CommandInv, MainInv, ThreadInv, SignalInv
<1> QED
  BY <1>1, <1>2 DEF IInv

\* A step leaves the types as they are.
LEMMA NextType == ASSUME TypeOK, Next PROVE TypeOK'
<1> USE DEF TypeOK, Outcomes, world
<1>1. ASSUME NEW c \in Commands, MainStep(c) PROVE TypeOK'
  <2>1. CASE Spawn(c)
    BY <2>1 DEF Spawn
  <2>2. CASE Arm(c)
    BY <2>2 DEF Arm, Sent
  <2>3. CASE KillByMain(c)
    BY <2>3 DEF KillByMain
  <2>4. CASE LateReturns(c)
    BY <2>4 DEF LateReturns
  <2>5. CASE Drain(c)
    BY <2>5 DEF Drain
  <2>6. CASE CancelTimer(c)
    BY <2>6 DEF CancelTimer, Cancelled
  <2>7. CASE Report(c)
    BY <2>7 DEF Report
  <2>8. CASE InterruptReturns(c)
    BY <2>8 DEF InterruptReturns, Cancelled
  <2> QED
    BY <1>1, <2>1, <2>2, <2>3, <2>4, <2>5, <2>6, <2>7, <2>8 DEF MainStep
<1>2. ASSUME NEW c \in Commands, ThreadStep(c) PROVE TypeOK'
  <2>1. CASE TimerFires(c)
    BY <2>1 DEF TimerFires
  <2>2. CASE TimerStopsMonitor(c)
    BY <2>2 DEF TimerStopsMonitor
  <2>3. CASE TimerTerminates(c)
    BY <2>3 DEF TimerTerminates, Sent
  <2>4. CASE TimerWaits(c)
    BY <2>4 DEF TimerWaits, Sent
  <2>5. CASE WaiterWakes(c)
    BY <2>5 DEF WaiterWakes
  <2>6. CASE WaiterConfirms(c)
    BY <2>6 DEF WaiterConfirms
  <2>7. CASE WaiterTerminates(c)
    BY <2>7 DEF WaiterTerminates, Sent
  <2>8. CASE WaiterWaits(c)
    BY <2>8 DEF WaiterWaits, Sent
  <2> QED
    BY <1>2, <2>1, <2>2, <2>3, <2>4, <2>5, <2>6, <2>7, <2>8 DEF ThreadStep
<1>3. ASSUME NEW c \in Commands, Interrupt(c) PROVE TypeOK'
  BY <1>3 DEF Interrupt, Sent
<1>4. ASSUME NEW c \in Commands, OutputFails(c) PROVE TypeOK'
  BY <1>4 DEF OutputFails, Cancelled
<1>5. ASSUME NEW c \in Commands, Leave(c) PROVE TypeOK'
  BY <1>5 DEF Leave, Cancelled
<1>6. ASSUME NEW c \in Commands, NEW k \in {"zero", "other"}, ProcessExits(c, k) PROVE TypeOK'
  BY <1>6 DEF ProcessExits
<1>7. CASE MonitorPolls
  BY <1>7 DEF MonitorPolls
<1>8. CASE DeadlinePasses
  BY <1>8 DEF DeadlinePasses
<1>9. CASE ArtifactsChange
  BY <1>9 DEF ArtifactsChange
<1> QED
  BY <1>1, <1>2, <1>3, <1>4, <1>5, <1>6, <1>7, <1>8, <1>9 DEF Next

-----------------------------------------------------------------------------
(* Each kind of step preserves the invariant of every command.              *)

\* The steps of the main thread keep the invariant.
LEMMA MainStepInv ==
  ASSUME IInv, NEW c \in Commands, MainStep(c), NEW d \in Commands
  PROVE  CommandInv(d)'
<1> USE DEF IInv, TypeOK, CommandInv, MainInv, ThreadInv, SignalInv, world
<1>1. CASE Spawn(c)
  BY <1>1 DEF Spawn
<1>2. CASE Arm(c)
  BY <1>2 DEF Arm, Sent
<1>3. CASE KillByMain(c)
  BY <1>3 DEF KillByMain
<1>4. CASE LateReturns(c)
  BY <1>4 DEF LateReturns
<1>5. CASE Drain(c)
  BY <1>5 DEF Drain
<1>6. CASE CancelTimer(c)
  BY <1>6 DEF CancelTimer, Cancelled
<1>7. CASE Report(c)
  BY <1>7 DEF Report
<1>8. CASE InterruptReturns(c)
  BY <1>8 DEF InterruptReturns, Cancelled
<1> QED
  BY <1>1, <1>2, <1>3, <1>4, <1>5, <1>6, <1>7, <1>8 DEF MainStep

\* So do the steps of the deadline and early-exit threads and of the monitor.
LEMMA ThreadStepInv ==
  ASSUME IInv, NEW c \in Commands, ThreadStep(c), NEW d \in Commands
  PROVE  CommandInv(d)'
<1> USE DEF IInv, TypeOK, CommandInv, MainInv, ThreadInv, SignalInv, world
<1>1. CASE TimerFires(c)
  BY <1>1 DEF TimerFires
<1>2. CASE TimerStopsMonitor(c)
  BY <1>2 DEF TimerStopsMonitor
<1>3. CASE TimerTerminates(c)
  BY <1>3 DEF TimerTerminates, Sent
<1>4. CASE TimerWaits(c)
  BY <1>4 DEF TimerWaits, Sent
<1>5. CASE WaiterWakes(c)
  BY <1>5 DEF WaiterWakes
<1>6. CASE WaiterConfirms(c)
  BY <1>6 DEF WaiterConfirms
<1>7. CASE WaiterTerminates(c)
  BY <1>7 DEF WaiterTerminates, Sent
<1>8. CASE WaiterWaits(c)
  BY <1>8 DEF WaiterWaits, Sent
<1> QED
  BY <1>1, <1>2, <1>3, <1>4, <1>5, <1>6, <1>7, <1>8 DEF ThreadStep

\* The signals and faults that reach a command, and the end of its process.
LEMMA OutsideStepInv ==
  ASSUME IInv, NEW c \in Commands, NEW d \in Commands,
         \/ Interrupt(c) \/ OutputFails(c) \/ Leave(c)
         \/ \E k \in {"zero", "other"} : ProcessExits(c, k)
  PROVE  CommandInv(d)'
<1> USE DEF IInv, TypeOK, CommandInv, MainInv, ThreadInv, SignalInv, world
<1>1. CASE Interrupt(c)
  BY <1>1 DEF Interrupt, Sent
<1>2. CASE OutputFails(c)
  BY <1>2 DEF OutputFails, Cancelled
<1>3. CASE Leave(c)
  BY <1>3 DEF Leave, Cancelled
<1>4. ASSUME NEW k \in {"zero", "other"}, ProcessExits(c, k)
      PROVE  CommandInv(d)'
  BY <1>4 DEF ProcessExits
<1> QED
  BY <1>1, <1>2, <1>3, <1>4

\* The steps that belong to no command.
LEMMA SharedStepInv ==
  ASSUME IInv, NEW d \in Commands, MonitorPolls \/ DeadlinePasses \/ ArtifactsChange
  PROVE  CommandInv(d)'
<1> USE DEF IInv, CommandInv, MainInv, ThreadInv, SignalInv, world
<1>1. CASE MonitorPolls
  BY <1>1 DEF MonitorPolls
<1>2. CASE DeadlinePasses
  BY <1>2 DEF DeadlinePasses
<1>3. CASE ArtifactsChange
  BY <1>3 DEF ArtifactsChange
<1> QED
  BY <1>1, <1>2, <1>3

\* The invariant is inductive.
LEMMA NextIInv == IInv /\ [Next]_vars => IInv'
<1>1. ASSUME IInv, Next PROVE IInv'
  <2>1. TypeOK'
    BY <1>1, NextType DEF IInv
  <2>2. ASSUME NEW d \in Commands PROVE CommandInv(d)'
    BY <1>1, MainStepInv, ThreadStepInv, OutsideStepInv, SharedStepInv DEF Next
  <2> QED
    BY <2>1, <2>2 DEF IInv
<1>2. ASSUME IInv, UNCHANGED vars PROVE IInv'
  BY <1>2 DEF IInv, TypeOK, Outcomes, CommandInv, MainInv, ThreadInv, SignalInv, vars, world
<1> QED
  BY <1>1, <1>2

\* Every reachable state satisfies the invariant.
THEOREM SpecIInv == Spec => []IInv
  BY InitIInv, NextIInv, PTL DEF Spec

-----------------------------------------------------------------------------
\* What a command returns is true, however its threads interleave: one that was sent a
\* signal is not reported as one that ended by itself, and a time-out needs the deadline.
THEOREM SpecResultsAreTrue == Spec => []ResultsAreTrue
<1>1. IInv => ResultsAreTrue
  BY DEF IInv, CommandInv, SignalInv, ResultsAreTrue, StopsAreReported
<1> QED
  BY <1>1, SpecIInv, PTL

\* No process is alive after its command has returned, but for an output loop that raised.
THEOREM SpecNoProcessLeft == Spec => []NoProcessLeft
<1>1. IInv => NoProcessLeft
  BY DEF IInv, CommandInv, MainInv, NoProcessLeft
<1> QED
  BY <1>1, SpecIInv, PTL

-----------------------------------------------------------------------------
(* The promise of Command: every step is a step of Command or changes       *)
(* nothing that Command sees.                                               *)

\* What Command sees of a command.
Seen(c) == <<stage[c], alive[c], exitCode[c], limited[c], watched[c], asked[c]>>

\* A step that Command sees of no command but c changes its state at c only.
LEMMA OnlyOne ==
  ASSUME NEW c \in Commands, \A d \in Commands \ {c} : Seen(d)' = Seen(d)
  PROVE  /\ stage' = [stage EXCEPT ![c] = stage'[c]]
         /\ alive' = [alive EXCEPT ![c] = alive'[c]]
         /\ exitCode' = [exitCode EXCEPT ![c] = exitCode'[c]]
         /\ limited' = [limited EXCEPT ![c] = limited'[c]]
         /\ watched' = [watched EXCEPT ![c] = watched'[c]]
         /\ asked' = [asked EXCEPT ![c] = asked'[c]]
<1>1. stage' = [stage EXCEPT ![c] = stage'[c]]
  BY DEF Seen, stage
<1>2. alive' = [alive EXCEPT ![c] = alive'[c]]
  BY DEF Seen, alive
<1>3. exitCode' = [exitCode EXCEPT ![c] = exitCode'[c]]
  BY DEF Seen, exitCode
<1>4. limited' = [limited EXCEPT ![c] = limited'[c]]
  BY DEF Seen, limited
<1>5. watched' = [watched EXCEPT ![c] = watched'[c]]
  BY DEF Seen, watched
<1>6. asked' = [asked EXCEPT ![c] = asked'[c]]
  BY DEF Seen, asked
<1> QED
  BY <1>1, <1>2, <1>3, <1>4, <1>5, <1>6

\* The steps of one command.
Step(c) == MainStep(c) \/ ThreadStep(c) \/ Interrupt(c) \/ OutputFails(c) \/ Leave(c)
             \/ \E k \in {"zero", "other"} : ProcessExits(c, k)

\* A command's step leaves the other commands as they are.
LEMMA OthersStay ==
  ASSUME TypeOK, NEW c \in Commands, Step(c), NEW d \in Commands \ {c}
  PROVE  Seen(d)' = Seen(d)
<1>1. /\ main'[d] = main[d] /\ proc'[d] = proc[d] /\ code'[d] = code[d]
      /\ waiter'[d] = waiter[d] /\ timedOut'[d] = timedOut[d]
      /\ earlyExited'[d] = earlyExited[d]
      /\ UNCHANGED world
  <2>0. /\ main = [e \in Commands |-> main[e]]
        /\ waiter = [e \in Commands |-> waiter[e]] /\ proc = [e \in Commands |-> proc[e]]
        /\ code = [e \in Commands |-> code[e]] /\ timedOut = [e \in Commands |-> timedOut[e]]
        /\ earlyExited = [e \in Commands |-> earlyExited[e]]
    BY DEF TypeOK
  <2>1. CASE MainStep(c)
    BY <2>0, <2>1 DEF MainStep, Spawn, Arm, KillByMain, LateReturns, Drain, CancelTimer, Report,
                InterruptReturns
  <2>2. CASE ThreadStep(c)
    <3>1. UNCHANGED <<main, proc, code, world>>
      BY <2>2 DEF ThreadStep, TimerFires, TimerStopsMonitor, TimerTerminates, TimerWaits,
                  WaiterWakes, WaiterConfirms, WaiterTerminates, WaiterWaits
    <3>2. waiter'[d] = waiter[d]
      BY <2>0, <2>2 DEF ThreadStep, TimerFires, TimerStopsMonitor, TimerTerminates, TimerWaits,
                        WaiterWakes, WaiterConfirms, WaiterTerminates, WaiterWaits
    <3>3. timedOut'[d] = timedOut[d]
      BY <2>0, <2>2 DEF ThreadStep, TimerFires, TimerStopsMonitor, TimerTerminates, TimerWaits,
                        WaiterWakes, WaiterConfirms, WaiterTerminates, WaiterWaits
    <3>4. earlyExited'[d] = earlyExited[d]
      <4>1. earlyExited' = earlyExited \/ earlyExited' = [earlyExited EXCEPT ![c] = seen]
        BY <2>2 DEF ThreadStep, TimerFires, TimerStopsMonitor, TimerTerminates, TimerWaits,
                    WaiterWakes, WaiterConfirms, WaiterTerminates, WaiterWaits
      <4> QED
        BY <2>0, <4>1
    <3> QED
      BY <3>1, <3>2, <3>3, <3>4
  <2>3. CASE Interrupt(c) \/ OutputFails(c) \/ Leave(c)
    BY <2>0, <2>3 DEF Interrupt, OutputFails, Leave
  <2>4. CASE \E k \in {"zero", "other"} : ProcessExits(c, k)
    BY <2>0, <2>4 DEF ProcessExits
  <2> QED
    BY <2>1, <2>2, <2>3, <2>4 DEF Step
<1>2. Active(d)' = Active(d)
  BY <1>1 DEF Active
<1>3. stage'[d] = stage[d] /\ alive'[d] = alive[d] /\ exitCode'[d] = exitCode[d]
  BY <1>1, <1>2 DEF stage, alive, exitCode
<1>4. limited'[d] = limited[d] /\ watched'[d] = watched[d]
  BY <1>1, <1>2 DEF limited, watched, world
<1>5. asked'[d] = asked[d]
  BY <1>1, <1>2 DEF asked
<1> QED
  BY <1>3, <1>4, <1>5 DEF Seen

\* What Command sees of a command, one component at a time.
LEMMA View ==
  ASSUME NEW c \in Commands
  PROVE  /\ stage[c] = IF main[c] \in {"idle", "done"} THEN main[c]
                       ELSE IF main[c] = "unwound" THEN "left" ELSE "running"
         /\ alive[c] <=> proc[c] = "running"
         /\ exitCode[c] = IF Active(c) THEN code[c] ELSE "none"
         /\ limited[c] <=> Active(c) /\ deadlineOn
         /\ watched[c] <=> /\ Active(c) /\ earlyExit
                           /\ main[c] = "spawned" \/ waiter[c] \in {"waiting", "woken"}
         /\ ~Active(c) => asked[c] = {}
         /\ asked[c] \subseteq {"late", "user", "timeout", "early_exit"}
         /\ Active(c) => /\ "late" \in asked[c] <=> main[c] = "late"
                         /\ "user" \in asked[c] <=> main[c] = "interrupted"
                         /\ "timeout" \in asked[c] <=> timedOut[c]
                         /\ "early_exit" \in asked[c] <=> earlyExited[c]
  BY DEF stage, alive, exitCode, limited, watched, asked

\* Equal views make a stutter of Command.
LEMMA ViewNext ==
  ASSUME NEW c \in Commands
  PROVE  /\ stage'[c] = IF main'[c] \in {"idle", "done"} THEN main'[c]
                        ELSE IF main'[c] = "unwound" THEN "left" ELSE "running"
         /\ alive'[c] <=> proc'[c] = "running"
         /\ exitCode'[c] = IF Active(c)' THEN code'[c] ELSE "none"
         /\ limited'[c] <=> Active(c)' /\ deadlineOn'
         /\ watched'[c] <=> /\ Active(c)' /\ earlyExit'
                            /\ main'[c] = "spawned" \/ waiter'[c] \in {"waiting", "woken"}
         /\ ~Active(c)' => asked'[c] = {}
         /\ asked'[c] \subseteq {"late", "user", "timeout", "early_exit"}
         /\ Active(c)' => /\ "late" \in asked'[c] <=> main'[c] = "late"
                          /\ "user" \in asked'[c] <=> main'[c] = "interrupted"
                          /\ "timeout" \in asked'[c] <=> timedOut'[c]
                          /\ "early_exit" \in asked'[c] <=> earlyExited'[c]
  BY DEF stage, alive, exitCode, limited, watched, asked

\* A step of which Command sees nothing at c is a stutter of the promise.
LEMMA Stutter ==
  ASSUME NEW c \in Commands, TypeOK, Step(c), Seen(c)' = Seen(c),
         UNCHANGED <<result, triggered, expired>>
  PROVE  UNCHANGED Promise!cmdVars
<1>1. \A d \in Commands : Seen(d)' = Seen(d)
  BY OthersStay
<1>2. stage' = stage /\ alive' = alive
  BY <1>1 DEF Seen, stage, alive
<1>3. exitCode' = exitCode /\ limited' = limited
  BY <1>1 DEF Seen, exitCode, limited
<1>4. watched' = watched /\ asked' = asked
  BY <1>1 DEF Seen, watched, asked
<1> QED
  BY <1>2, <1>3, <1>4 DEF Promise!cmdVars

-----------------------------------------------------------------------------
(* The actions that Command sees, one lemma each.                           *)

\* Spawn implements Command's start.
LEMMA SpawnKeeps ==
  ASSUME IInv, NEW c \in Commands, Spawn(c)
  PROVE  Promise!StartCommand(c, deadlineOn, earlyExit)
<1>1. Step(c) /\ TypeOK /\ CommandInv(c)
  BY DEF Step, MainStep, IInv
<1>2. \A d \in Commands \ {c} : Seen(d)' = Seen(d)
  BY <1>1, OthersStay
<1>3. stage[c] = "idle" /\ asked[c] = {} /\ exitCode[c] = "none" /\ ~Active(c)
  BY View DEF Spawn, Active
<1>4. UNCHANGED <<triggered, expired>>
  BY DEF Spawn
<1>5. CASE main'[c] = "spawned"
  <2>1. /\ proc'[c] = "running" /\ code'[c] = "none" /\ ~timedOut'[c] /\ ~earlyExited'[c]
        /\ UNCHANGED <<result, world>>
    BY <1>1, <1>5 DEF Spawn, CommandInv, MainInv, ThreadInv, TypeOK
  <2>2. stage'[c] = "running" /\ alive'[c] = TRUE /\ exitCode'[c] = "none"
    BY <1>5, <2>1 DEF stage, alive, exitCode, Active
  <2>3. limited'[c] = deadlineOn /\ watched'[c] = earlyExit
    BY <1>1, <1>5, <2>1 DEF limited, watched, Active, world, TypeOK
  <2>4. asked'[c] = {}
    BY <1>5, <2>1, ViewNext
  <2>5. UNCHANGED <<exitCode, asked>>
    BY <1>2, <1>3, <2>2, <2>4 DEF Seen, exitCode, asked
  <2> QED
    BY <1>2, <1>3, <1>4, <2>1, <2>2, <2>3, <2>5, OnlyOne DEF Promise!StartCommand
<1>6. CASE main'[c] = "done"
  <2>1. /\ proc'[c] = "none" /\ proc' = proc /\ result' = [result EXCEPT ![c] = "error"]
    BY <1>1, <1>6 DEF Spawn, CommandInv, MainInv, TypeOK
  <2>2. ~Active(c)'
    BY <1>6 DEF Active
  <2>3. stage'[c] = "done" /\ exitCode'[c] = "none" /\ limited'[c] = FALSE
        /\ watched'[c] = FALSE /\ asked'[c] = {}
    BY <1>6, <2>2 DEF stage, exitCode, limited, watched, asked
  <2>4. UNCHANGED alive
    BY <2>1 DEF alive
  <2> QED
    BY <1>2, <1>3, <1>4, <2>1, <2>3, <2>4, OnlyOne DEF Promise!StartCommand, Promise!Ends
<1> QED
  BY <1>1, <1>5, <1>6 DEF Spawn, TypeOK

\* Arming the threads is seen as the options they stand for.
LEMMA ArmKeeps ==
  ASSUME IInv, NEW c \in Commands, Arm(c)
  PROVE  Promise!DeadlineStops(c) \/ UNCHANGED Promise!cmdVars
<1>1. Step(c) /\ TypeOK /\ CommandInv(c)
  BY DEF Step, MainStep, IInv
<1>2. \A d \in Commands \ {c} : Seen(d)' = Seen(d)
  BY <1>1, OthersStay
<1>3. UNCHANGED <<proc, code, timedOut, earlyExited, result, triggered, expired, world>>
  BY DEF Arm
<1>4. /\ main[c] = "spawned" /\ Active(c) /\ ~timedOut[c] /\ ~earlyExited[c]
      /\ main'[c] \in {"late", "read"} /\ Active(c)'
  BY <1>1 DEF Arm, Active, CommandInv, MainInv, ThreadInv, TypeOK
<1>5. stage'[c] = stage[c] /\ stage[c] = "running" /\ alive'[c] = alive[c]
      /\ exitCode'[c] = exitCode[c]
  BY <1>3, <1>4 DEF stage, alive, exitCode
<1>6. limited'[c] = limited[c] /\ limited[c] = deadlineOn
  BY <1>1, <1>3, <1>4 DEF limited, world, TypeOK
<1>7. asked[c] = {}
  BY <1>4, View
<1>8. CASE main'[c] = "late"
  <2>1. deadlineOn /\ expired
    BY <1>1, <1>8 DEF Arm, TypeOK
  <2>2. asked'[c] = {"late"}
    BY <1>3, <1>4, <1>8 DEF asked
  <2>3. watched'[c] = FALSE
    BY <1>1, <1>8, <2>1 DEF watched, Arm, CommandInv, MainInv
  <2>4. UNCHANGED <<stage, alive, exitCode, limited>>
    BY <1>2, <1>5, <1>6 DEF Seen, stage, alive, exitCode, limited
  <2> QED
    BY <1>2, <1>3, <1>5, <1>6, <1>7, <2>1, <2>2, <2>3, <2>4, OnlyOne DEF Promise!DeadlineStops
<1>9. CASE main'[c] = "read"
  <2>1. asked'[c] = asked[c]
    BY <1>3, <1>4, <1>7, <1>9, ViewNext
  <2>2. waiter'[c] = IF earlyExit THEN "waiting" ELSE "off"
    BY <1>1, <1>9 DEF Arm, TypeOK
  <2>3. watched'[c] = watched[c]
    BY <1>3, <1>4, <1>9, <2>2 DEF watched, world
  <2> QED
    BY <1>1, <1>3, <1>5, <1>6, <2>1, <2>3, Stutter DEF Seen
<1> QED
  BY <1>4, <1>8, <1>9

\* A command's end: Command forgets everything but the command's result.
LEMMA EndKeeps ==
  ASSUME TypeOK, NEW c \in Commands, Step(c), ~Active(c)', NEW r,
         result' = [result EXCEPT ![c] = r]
  PROVE  Promise!Ends(c, stage'[c], r)
<1>1. \A d \in Commands \ {c} : Seen(d)' = Seen(d)
  BY OthersStay
<1>2. exitCode'[c] = "none" /\ limited'[c] = FALSE /\ watched'[c] = FALSE /\ asked'[c] = {}
  BY DEF exitCode, limited, watched, asked
<1> QED
  BY <1>1, <1>2, OnlyOne DEF Promise!Ends

\* The main thread's three ordinary ends return what Command computes.
LEMMA ReturnKeeps ==
  ASSUME IInv, NEW c \in Commands, LateReturns(c) \/ Report(c) \/ InterruptReturns(c)
  PROVE  Promise!ReturnCommand(c)
<1>1. Step(c) /\ TypeOK /\ CommandInv(c)
  BY DEF Step, MainStep, IInv
<1>2. /\ main[c] \in {"late", "report", "interrupted"} /\ main'[c] = "done"
      /\ proc[c] = "exited"
      /\ UNCHANGED <<proc, triggered, expired>>
  BY <1>1 DEF LateReturns, Report, InterruptReturns, CommandInv, MainInv, TypeOK
<1>3. Active(c) /\ ~Active(c)' /\ stage[c] = "running" /\ stage'[c] = "done"
  BY <1>2 DEF Active, stage
<1>4. ~alive[c] /\ UNCHANGED alive /\ exitCode[c] = code[c]
  BY <1>2, <1>3 DEF alive, exitCode
<1>5. result' = [result EXCEPT ![c] = Promise!ResultOf(asked[c], code[c])]
  <2>1. CASE LateReturns(c)
    BY <1>3, <2>1, View DEF LateReturns, Promise!ResultOf
  <2>2. CASE Report(c)
    BY <1>3, <2>2, View DEF Report, Promise!ResultOf
  <2>3. CASE InterruptReturns(c)
    BY <1>3, <2>3, View DEF InterruptReturns, Promise!ResultOf
  <2> QED
    BY <2>1, <2>2, <2>3
<1>6. Promise!Ends(c, "done", Promise!ResultOf(asked[c], exitCode[c]))
  BY <1>1, <1>3, <1>4, <1>5, EndKeeps
<1> QED
  BY <1>2, <1>3, <1>4, <1>6 DEF Promise!ReturnCommand

\* Ctrl-C is asked by the user.
LEMMA InterruptKeeps ==
  ASSUME IInv, NEW c \in Commands, Interrupt(c)
  PROVE  Promise!UserStops(c)
<1>1. Step(c) /\ TypeOK /\ CommandInv(c)
  BY DEF Step, IInv
<1>2. \A d \in Commands \ {c} : Seen(d)' = Seen(d)
  BY <1>1, OthersStay
<1>3. /\ main[c] = "read" /\ main'[c] = "interrupted" /\ Active(c) /\ Active(c)'
      /\ UNCHANGED <<proc, code, waiter, timedOut, earlyExited, result, triggered, expired, world>>
  BY <1>1 DEF Interrupt, Active, TypeOK
<1>4. UNCHANGED <<stage, alive, exitCode, limited, watched>>
  <2>1. stage'[c] = stage[c] /\ alive'[c] = alive[c] /\ exitCode'[c] = exitCode[c]
    BY <1>3 DEF stage, alive, exitCode
  <2>2. limited'[c] = limited[c] /\ watched'[c] = watched[c]
    BY <1>3 DEF limited, watched, world
  <2>3. UNCHANGED <<stage, alive, exitCode>>
    BY <1>2, <2>1 DEF Seen, stage, alive, exitCode
  <2>4. UNCHANGED <<limited, watched>>
    BY <1>2, <2>2 DEF Seen, limited, watched
  <2> QED
    BY <2>3, <2>4
<1>5. asked'[c] = asked[c] \union {"user"} /\ "late" \notin asked[c]
  BY <1>3 DEF asked
<1>6. stage[c] = "running"
  BY <1>3 DEF stage, Active
<1> QED
  BY <1>2, <1>3, <1>4, <1>5, <1>6, OnlyOne DEF Promise!UserStops

\* A failing console ends the command.
LEMMA OutputFailsKeeps ==
  ASSUME IInv, NEW c \in Commands, OutputFails(c)
  PROVE  Promise!BreakCommand(c)
<1>1. Step(c) /\ TypeOK
  BY DEF Step, IInv
<1>2. /\ main[c] = "read" /\ main'[c] = "done" /\ Active(c) /\ ~Active(c)'
      /\ result' = [result EXCEPT ![c] = "error"]
      /\ UNCHANGED <<proc, triggered, expired>>
  BY <1>1 DEF OutputFails, Active, TypeOK
<1>3. stage[c] = "running" /\ stage'[c] = "done" /\ UNCHANGED alive
  BY <1>2 DEF stage, alive
<1>4. asked[c] \cap {"late", "user"} = {}
  BY <1>2, View
<1>5. Promise!Ends(c, "done", "error")
  BY <1>1, <1>2, <1>3, EndKeeps
<1> QED
  BY <1>2, <1>3, <1>4, <1>5 DEF Promise!BreakCommand

\* The end of the program ends it too.
LEMMA LeaveKeeps ==
  ASSUME IInv, NEW c \in Commands, Leave(c)
  PROVE  Promise!LeaveCommand(c) \/ UNCHANGED Promise!cmdVars
<1>1. Step(c) /\ TypeOK /\ CommandInv(c)
  BY DEF Step, IInv
<1>2. UNCHANGED <<proc, code, waiter, timedOut, earlyExited, result, triggered, expired, world>>
  BY DEF Leave
<1>3. CASE Active(c)
  <2>1. main'[c] = "unwound" /\ ~Active(c)' /\ result[c] = "none"
    BY <1>1, <1>3 DEF Leave, Active, CommandInv, MainInv, TypeOK
  <2>2. stage[c] = "running" /\ stage'[c] = "left" /\ UNCHANGED alive
    BY <1>2, <1>3, <2>1 DEF stage, alive, Active
  <2>3. result' = [result EXCEPT ![c] = "none"]
    BY <1>1, <1>2, <2>1 DEF TypeOK
  <2>4. Promise!Ends(c, "left", "none")
    BY <1>1, <2>1, <2>2, <2>3, EndKeeps
  <2> QED
    BY <1>2, <2>2, <2>4 DEF Promise!LeaveCommand
<1>4. CASE ~Active(c)
  <2>1. main'[c] = main[c] /\ ~Active(c)'
    BY <1>1, <1>4 DEF Leave, Active, TypeOK
  <2>2. stage'[c] = stage[c] /\ alive'[c] = alive[c] /\ exitCode'[c] = exitCode[c]
    BY <1>2, <1>4, <2>1 DEF stage, alive, exitCode
  <2>3. limited'[c] = limited[c] /\ watched'[c] = watched[c] /\ asked'[c] = asked[c]
    BY <1>4, <2>1 DEF limited, watched, asked
  <2> QED
    BY <1>1, <1>2, <2>2, <2>3, Stutter DEF Seen
<1> QED
  BY <1>3, <1>4

\* Steps that move a thread or send a signal: Command sees nothing of them.
LEMMA UnseenKeeps ==
  ASSUME IInv, NEW c \in Commands,
         \/ KillByMain(c) \/ Drain(c) \/ CancelTimer(c)
         \/ TimerTerminates(c) \/ TimerWaits(c)
         \/ WaiterTerminates(c) \/ WaiterWaits(c)
  PROVE  UNCHANGED Promise!cmdVars
<1>1. Step(c) /\ TypeOK
  BY DEF Step, MainStep, ThreadStep, IInv
<1>2. UNCHANGED <<proc, code, timedOut, earlyExited, result, triggered, expired, world>>
  BY DEF KillByMain, Drain, CancelTimer, TimerTerminates, TimerWaits, WaiterTerminates,
         WaiterWaits
<1>3. /\ \/ main' = main
         \/ main[c] \in {"read", "drained"} /\ main'[c] \in {"drained", "report"}
      /\ \/ waiter' = waiter
         \/ waiter[c] \in {"confirmed", "wait"} /\ waiter'[c] \in {"wait", "done"}
  <2>1. CASE KillByMain(c)
    BY <2>1 DEF KillByMain
  <2>2. CASE Drain(c) \/ CancelTimer(c)
    BY <1>1, <2>2 DEF Drain, CancelTimer, TypeOK
  <2>3. CASE TimerTerminates(c) \/ TimerWaits(c)
    BY <2>3 DEF TimerTerminates, TimerWaits
  <2>4. CASE WaiterTerminates(c)
    BY <1>1, <2>4 DEF WaiterTerminates, TypeOK
  <2>5. CASE WaiterWaits(c)
    BY <1>1, <2>5 DEF WaiterWaits, TypeOK
  <2> QED
    BY <2>1, <2>2, <2>3, <2>4, <2>5
<1>4. Active(c)' = Active(c)
  BY <1>3 DEF Active
<1>5. stage'[c] = stage[c] /\ alive'[c] = alive[c] /\ exitCode'[c] = exitCode[c]
  BY <1>2, <1>3, <1>4 DEF stage, alive, exitCode
<1>6. limited'[c] = limited[c] /\ watched'[c] = watched[c]
  BY <1>2, <1>3, <1>4 DEF limited, watched, world
<1>7. asked'[c] = asked[c]
  BY <1>2, <1>3, <1>4 DEF asked
<1> QED
  BY <1>1, <1>2, <1>5, <1>6, <1>7, Stutter DEF Seen

\* The deadline thread has asked when it has set its event.
LEMMA TimerFiresKeeps ==
  ASSUME IInv, NEW c \in Commands, TimerFires(c)
  PROVE  Promise!DeadlineStops(c) \/ UNCHANGED Promise!cmdVars
<1>1. Step(c) /\ TypeOK /\ CommandInv(c)
  BY DEF Step, ThreadStep, IInv
<1>2. \A d \in Commands \ {c} : Seen(d)' = Seen(d)
  BY <1>1, OthersStay
<1>3. /\ timer[c] = "armed" /\ expired /\ ~timedOut[c] /\ timedOut'[c] = TRUE /\ deadlineOn
      /\ main[c] # "late"
      /\ UNCHANGED <<proc, code, main, waiter, earlyExited, result, triggered, expired, world>>
  BY <1>1 DEF TimerFires, CommandInv, MainInv, ThreadInv, TypeOK
<1>4. Active(c)' = Active(c)
  BY <1>3 DEF Active
<1>5. UNCHANGED <<stage, alive, exitCode>>
  BY <1>3 DEF stage, alive, exitCode, Active
<1>6. UNCHANGED <<limited, watched>>
  BY <1>3 DEF limited, watched, Active, world
<1>7. CASE Active(c)
  <2>1. asked'[c] = asked[c] \union {"timeout"} /\ asked[c] \cap {"late", "timeout"} = {}
    BY <1>3, <1>4, <1>7 DEF asked
  <2>2. stage[c] = "running" /\ limited[c]
    BY <1>3, <1>7 DEF stage, limited, Active
  <2> QED
    BY <1>2, <1>3, <1>5, <1>6, <2>1, <2>2, OnlyOne DEF Promise!DeadlineStops
<1>8. CASE ~Active(c)
  <2>1. asked'[c] = asked[c]
    BY <1>4, <1>8, View, ViewNext
  <2> QED
    BY <1>1, <1>3, <1>5, <1>6, <2>1, Stutter DEF Seen
<1> QED
  BY <1>7, <1>8

\* Telling the monitor to stop is not seen.
LEMMA TimerStopsMonitorKeeps ==
  ASSUME IInv, NEW c \in Commands, TimerStopsMonitor(c)
  PROVE  Promise!TriggerExit(seen) \/ UNCHANGED Promise!cmdVars
<1>1. TypeOK /\ CommandInv(c)
  BY DEF IInv
<1>2. /\ expired /\ triggered'
      /\ UNCHANGED <<proc, code, main, waiter, timedOut, earlyExited, result, expired, world>>
  BY <1>1 DEF TimerStopsMonitor, CommandInv, ThreadInv
<1>3. UNCHANGED <<stage, alive, exitCode>>
  BY <1>2 DEF stage, alive, exitCode, Active
<1>4. UNCHANGED <<limited, watched, asked>>
  BY <1>2 DEF limited, watched, asked, Active, world
<1>5. triggered' = TRUE /\ triggered \in BOOLEAN
  BY <1>1 DEF TimerStopsMonitor, TypeOK
<1> QED
  BY <1>2, <1>3, <1>4, <1>5 DEF Promise!TriggerExit, Promise!cmdVars

\* Waking is not seen.
LEMMA WaiterWakesKeeps ==
  ASSUME IInv, NEW c \in Commands, WaiterWakes(c)
  PROVE  Promise!ArtifactStops(c, seen) \/ UNCHANGED Promise!cmdVars
<1>1. Step(c) /\ TypeOK /\ CommandInv(c)
  BY DEF Step, ThreadStep, IInv
<1>2. \A d \in Commands \ {c} : Seen(d)' = Seen(d)
  BY <1>1, OthersStay
<1>3. /\ waiter[c] = "waiting" /\ triggered /\ earlyExit /\ main[c] # "spawned"
      /\ waiter'[c] = IF timedOut[c] THEN "done" ELSE "woken"
      /\ UNCHANGED <<proc, code, main, timedOut, earlyExited, result, triggered, expired, world>>
  BY <1>1 DEF WaiterWakes, CommandInv, MainInv, ThreadInv, TypeOK
<1>4. UNCHANGED <<stage, alive, exitCode>>
  BY <1>3 DEF stage, alive, exitCode, Active
<1>5. UNCHANGED <<limited, asked>>
  BY <1>3 DEF limited, asked, Active, world
<1>6. Active(c)' = Active(c)
  BY <1>3 DEF Active
<1>7. CASE Active(c) /\ timedOut[c]
  <2>1. watched[c] /\ watched'[c] = FALSE
    BY <1>3, <1>7 DEF watched
  <2>2. stage[c] = "running" /\ "timeout" \in asked[c]
    BY <1>7 DEF stage, asked, Active
  <2> QED
    BY <1>2, <1>3, <1>4, <1>5, <2>1, <2>2, OnlyOne DEF Promise!ArtifactStops
<1>8. CASE ~(Active(c) /\ timedOut[c])
  <2>1. watched'[c] = watched[c]
    BY <1>3, <1>6, <1>8 DEF watched, world
  <2> QED
    BY <1>1, <1>3, <1>4, <1>5, <2>1, Stutter DEF Seen
<1> QED
  BY <1>7, <1>8

\* The early-exit thread has asked when it has set its event.
LEMMA WaiterConfirmsKeeps ==
  ASSUME IInv, NEW c \in Commands, WaiterConfirms(c)
  PROVE  Promise!ArtifactStops(c, seen) \/ UNCHANGED Promise!cmdVars
<1>1. Step(c) /\ TypeOK /\ CommandInv(c)
  BY DEF Step, ThreadStep, IInv
<1>2. \A d \in Commands \ {c} : Seen(d)' = Seen(d)
  BY <1>1, OthersStay
<1>3. /\ waiter[c] = "woken" /\ triggered /\ earlyExit /\ main[c] # "spawned" /\ ~earlyExited[c]
      /\ waiter'[c] \in {"confirmed", "done"} /\ earlyExited'[c] = seen
      /\ UNCHANGED <<proc, code, main, timedOut, result, triggered, expired, world>>
  BY <1>1 DEF WaiterConfirms, CommandInv, MainInv, ThreadInv, TypeOK
<1>4. UNCHANGED <<stage, alive, exitCode>>
  BY <1>3 DEF stage, alive, exitCode, Active
<1>5. UNCHANGED limited
  BY <1>3 DEF limited, Active, world
<1>6. Active(c)' = Active(c)
  BY <1>3 DEF Active
<1>7. CASE Active(c)
  <2>1. watched[c] /\ watched'[c] = FALSE
    BY <1>3, <1>6, <1>7 DEF watched
  <2>2. stage[c] = "running"
    BY <1>7 DEF stage, Active
  <2>3. CASE seen
    <3>1. asked'[c] = asked[c] \union {"early_exit"}
      BY <1>3, <1>6, <1>7, <2>3 DEF asked
    <3> QED
      BY <1>2, <1>3, <1>4, <1>5, <2>1, <2>2, <2>3, <3>1, OnlyOne DEF Promise!ArtifactStops
  <2>4. CASE ~seen
    <3>1. asked'[c] = asked[c]
      BY <1>3, <1>6, <1>7, <2>4 DEF asked
    <3>2. UNCHANGED asked
      BY <1>2, <3>1 DEF Seen, asked
    <3> QED
      BY <1>2, <1>3, <1>4, <1>5, <2>1, <2>2, <2>4, <3>2, OnlyOne DEF Promise!ArtifactStops
  <2> QED
    BY <2>3, <2>4
<1>8. CASE ~Active(c)
  <2>1. watched'[c] = watched[c] /\ asked'[c] = asked[c]
    BY <1>6, <1>8 DEF watched, asked
  <2> QED
    BY <1>1, <1>3, <1>4, <1>5, <2>1, Stutter DEF Seen
<1> QED
  BY <1>7, <1>8

\* The end of the process is the same step in both.
LEMMA ExitKeeps ==
  ASSUME IInv, NEW c \in Commands, NEW k \in {"zero", "other"}, ProcessExits(c, k)
  PROVE  Promise!ProcessExits(c, k)
<1>1. Step(c) /\ TypeOK
  BY DEF Step, IInv
<1>2. \A d \in Commands \ {c} : Seen(d)' = Seen(d)
  BY <1>1, OthersStay
<1>3. /\ proc[c] = "running" /\ proc'[c] = "exited" /\ code'[c] = k
      /\ UNCHANGED <<main, waiter, timedOut, earlyExited, result, triggered, expired, world>>
  BY <1>1 DEF ProcessExits, TypeOK
<1>4. UNCHANGED <<stage, limited>>
  BY <1>3 DEF stage, limited, Active, world
<1>5. UNCHANGED <<watched, asked>>
  BY <1>3 DEF watched, asked, Active, world
<1>6. alive[c] /\ alive'[c] = FALSE
  BY <1>3 DEF alive
<1>7. exitCode'[c] = IF stage[c] = "running" THEN k ELSE exitCode[c]
  BY <1>3 DEF exitCode, stage, Active
<1> QED
  BY <1>2, <1>3, <1>4, <1>5, <1>6, <1>7, OnlyOne DEF Promise!ProcessExits

\* What happens to all commands at once is not seen or is Command's own step.
LEMMA SharedKeeps ==
  ASSUME IInv, MonitorPolls \/ DeadlinePasses \/ ArtifactsChange
  PROVE  \/ Promise!TriggerExit(seen) \/ Promise!DeadlinePasses
         \/ UNCHANGED Promise!cmdVars
<1>1. UNCHANGED <<proc, code, main, waiter, timedOut, earlyExited, result, deadlineOn, earlyExit>>
  BY DEF MonitorPolls, DeadlinePasses, ArtifactsChange, world
<1>2. UNCHANGED <<stage, alive, exitCode>>
  BY <1>1 DEF stage, alive, exitCode, Active
<1>3. UNCHANGED <<limited, watched, asked>>
  BY <1>1 DEF limited, watched, asked, Active
<1>4. CASE MonitorPolls
  BY <1>1, <1>2, <1>3, <1>4
     DEF MonitorPolls, IInv, TypeOK, Promise!TriggerExit, Promise!cmdVars
<1>5. CASE DeadlinePasses
  BY <1>1, <1>2, <1>3, <1>5 DEF DeadlinePasses, Promise!DeadlinePasses
<1>6. CASE ArtifactsChange
  BY <1>1, <1>2, <1>3, <1>6 DEF ArtifactsChange, Promise!cmdVars
<1> QED
  BY <1>4, <1>5, <1>6

\* The initial state is Command's.
LEMMA InitKeeps == Init => Promise!CommandInit
<1> SUFFICES ASSUME Init PROVE Promise!CommandInit
  OBVIOUS
<1>1. stage = [c \in Commands |-> "idle"] /\ exitCode = [c \in Commands |-> "none"]
  BY DEF Init, stage, exitCode, Active
<1>2. alive = [c \in Commands |-> FALSE] /\ limited = [c \in Commands |-> FALSE]
  BY DEF Init, alive, limited, Active
<1>3. watched = [c \in Commands |-> FALSE] /\ asked = [c \in Commands |-> {}]
  BY DEF Init, watched, asked, Active
<1> QED
  BY <1>1, <1>2, <1>3 DEF Init, Promise!CommandInit

\* Every step of the threads is a step of Command, or Command sees nothing of it.
LEMMA NextKeeps == IInv /\ [Next]_vars => [PromiseStep]_(Promise!cmdVars)
<1>1. ASSUME IInv, NEW c \in Commands, MainStep(c)
      PROVE  PromiseStep \/ UNCHANGED Promise!cmdVars
  BY <1>1, SpawnKeeps, ArmKeeps, ReturnKeeps, UnseenKeeps
     DEF MainStep, PromiseStep, Promise!CommandStep
<1>2. ASSUME IInv, NEW c \in Commands, ThreadStep(c)
      PROVE  PromiseStep \/ UNCHANGED Promise!cmdVars
  BY <1>2, TimerFiresKeeps, TimerStopsMonitorKeeps, WaiterWakesKeeps, WaiterConfirmsKeeps,
     UnseenKeeps DEF ThreadStep, PromiseStep, Promise!CommandStep
<1>3. ASSUME IInv, NEW c \in Commands,
             \/ Interrupt(c) \/ OutputFails(c) \/ Leave(c)
             \/ \E k \in {"zero", "other"} : ProcessExits(c, k)
      PROVE  PromiseStep \/ UNCHANGED Promise!cmdVars
  BY <1>3, InterruptKeeps, OutputFailsKeeps, LeaveKeeps, ExitKeeps
     DEF PromiseStep, Promise!CommandStep
<1>4. ASSUME IInv, MonitorPolls \/ DeadlinePasses \/ ArtifactsChange
      PROVE  PromiseStep \/ UNCHANGED Promise!cmdVars
  BY <1>4, SharedKeeps DEF PromiseStep
<1>5. ASSUME UNCHANGED vars PROVE UNCHANGED Promise!cmdVars
  <2>1. UNCHANGED <<stage, alive, exitCode>>
    BY <1>5 DEF vars, stage, alive, exitCode, Active
  <2>2. UNCHANGED <<limited, watched, asked>>
    BY <1>5 DEF vars, world, limited, watched, asked, Active
  <2> QED
    BY <1>5, <2>1, <2>2 DEF vars, Promise!cmdVars
<1> QED
  BY <1>1, <1>2, <1>3, <1>4, <1>5 DEF Next

\* The threads of a command keep the promise of Command, in every interleaving: a command is
\* asked to stop only for a reason that holds, and returns the answer for that reason when
\* its process has ended.
THEOREM SpecPromiseKept == Spec => PromiseKept
  BY InitKeeps, NextKeeps, SpecIInv, PTL DEF Spec, PromiseKept
=============================================================================
