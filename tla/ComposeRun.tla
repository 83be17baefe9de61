------------------------------ MODULE ComposeRun ------------------------------
(***************************************************************************)
(* oss_crs/src/crs_compose.py: CRSCompose.run, one run of "oss-crs run" on *)
(* the host: the checks, the build, the tree of tasks that prepares and    *)
(* starts the compose project, its cleanup and its exit code.  The tasks   *)
(* are run by TaskTree; of the two docker compose commands, Command says   *)
(* what they do.                                                           *)
(***************************************************************************)
EXTENDS TaskTree, Command, FiniteSets

CONSTANTS
  Options,        \* the command lines to consider
  Primaries,      \* services of the CRSs
  Helpers,        \* sidecars: _get_teardown_helper_services
  SharedTasks,    \* the tasks that clean each CRS's shared directory, in order
  Stale,          \* a run of the same id may have left artifacts, if this one is watched
  MaxInterrupts,  \* bound: Ctrl-C and SIGTERM
  MaxCrashes      \* bound: sidecar crashes that Docker restarts

Services == Primaries \union Helpers

\* The tasks with a name of their own; the others clean the directory of a CRS.
NamedTasks ==
  {"prepare", "run", "logs", "down", "exchange", "shared", "inputs", "compose", "build"}

ASSUME ComposeRunAssumption ==
  /\ Options \subseteq [early : BOOLEAN, timeout : BOOLEAN, inputs : BOOLEAN,
                        offline : BOOLEAN, many : BOOLEAN, snapshot : BOOLEAN]
  /\ Primaries \cap Helpers = {} /\ IsFiniteSet(Services)
  /\ NamedTasks \subseteq Tasks /\ SharedTasks \in Seq(Tasks \ NamedTasks)
  /\ Commands = {"build", "up"}
  /\ Stale \in BOOLEAN /\ MaxInterrupts \in Nat /\ MaxCrashes \in Nat

Artifacts == {"old", "input", "new"}   \* of an earlier run, given by the user, found by a CRS

VARIABLES
  opts,        \* the command line
  stage,       \* where run() is
  submit,      \* artifacts in the watched SUBMIT_DIRs
  exchange,    \* artifacts in EXCHANGE_DIR
  up,          \* where docker_compose_up is
  cont,        \* each container: "none", "up", an exit status or "gone"
  dies,        \* the die events of the project, in order
  crashes,     \* sidecar crashes
  collecting,  \* the event collection is running
  ignored,     \* ignored_helper_exit_services, while docker_compose_up runs
  blind,       \* history: the check of the containers has failed
  interrupts,  \* history: Ctrl-C and SIGTERM
  exit         \* exit code: "none", "0", "1", "124" or "interrupt"

runVars == <<opts, stage, submit, exchange, up, cont, dies, crashes, collecting,
             ignored, blind, interrupts, exit>>
vars == <<treeVars, cmdVars, runVars>>

\* Everything of runVars but the named groups, for the frame conditions.
svcVars  == <<cont, dies, crashes>>
upVars   == <<up, collecting, ignored, blind>>
dirVars  == <<submit, exchange>>
restVars == <<opts, interrupts, exit>>

TypeOK ==
  /\ TreeTypeOK /\ CommandTypeOK
  /\ opts \in Options
  /\ stage \in {"validate", "repo", "check", "target", "snapshots", "enter", "tree", "post",
                "ended"}
  /\ blind \in BOOLEAN /\ collecting \in BOOLEAN
  /\ submit \subseteq Artifacts /\ exchange \subseteq Artifacts
  /\ up \in {"start", "command", "stop", "collect", "check", "done"}
  /\ cont \in [Services -> {"none", "up", "ok", "sig", "err", "gone"}]
  /\ dies \in Seq([svc : Services, code : {"ok", "sig", "err"}])
  /\ crashes \in 0 .. MaxCrashes /\ interrupts \in 0 .. MaxInterrupts
  /\ ignored \subseteq Helpers
  /\ exit \in {"none", "0", "1", "124", "interrupt"}

Init ==
  /\ opts \in Options
  /\ TreeInit(opts.timeout)
  /\ CommandInit
  /\ stage = "validate"
  /\ \E old \in IF Stale /\ opts.early THEN SUBSET {"old"} ELSE {{}} :
       /\ exchange = old   \* it was shared, and both directories stay between runs
       /\ submit = old
  /\ up = "start" /\ collecting = FALSE /\ ignored = {} /\ blind = FALSE
  /\ cont = [s \in Services |-> "none"] /\ dies = <<>> /\ crashes = 0
  /\ interrupts = 0 /\ exit = "none"

\* _check_early_exit; the exchange is watched when there is more than one CRS.
Seen == opts.early /\ (submit # {} \/ (opts.many /\ exchange # {}))

-----------------------------------------------------------------------------
(* run(): before the task tree.                                             *)

Quit(c) == stage' = "ended" /\ exit' = c

\* A check of run() passes, or its failure ends the program with 1.
PassOrQuit(from, to) ==
  /\ stage = from
  /\ \/ stage' \in to /\ UNCHANGED exit
     \/ Quit("1")
  /\ UNCHANGED <<treeVars, cmdVars, opts, dirVars, upVars, svcVars, interrupts>>

\* Options, inputs, forwarded sources and the configuration of every CRS.
Validate == PassOrQuit("validate", {"repo"})
\* target.init_repo
InitRepo == PassOrQuit("repo", {"check"})
\* __check_target_built, for the build that was named or found; it has no failing path.
CheckBuilt ==
  /\ stage = "check"
  /\ stage' \in {"target", "snapshots"}
  /\ UNCHANGED <<treeVars, cmdVars, opts, dirVars, upVars, svcVars, interrupts, exit>>
BuildTarget == PassOrQuit("target", {"snapshots"})
\* _check_snapshots_exist, and the build id is recorded.
CheckSnapshots ==
  /\ stage = "snapshots"
  /\ \/ stage' = "enter" /\ UNCHANGED exit
     \/ opts.snapshot /\ Quit("1")
  /\ UNCHANGED <<treeVars, cmdVars, opts, dirVars, upVars, svcVars, interrupts>>

\* __run_local: the monitor, the cleanup tasks, the tasks (for the cgroups see Resources).
EnterTree ==
  /\ stage = "enter"
  /\ stage' = "tree"
  /\ AddAndRun(Root, <<"prepare", "run">>, <<"logs", "down">>)
  /\ UNCHANGED <<cmdVars, opts, dirVars, upVars, svcVars, interrupts, exit>>

-----------------------------------------------------------------------------
(* The bodies of the tasks.                                                  *)

RunTreeStep ==
  /\ stage = "tree"
  /\ TreeStep
  /\ stage' = IF outcome' # <<>> THEN "post" ELSE "tree"
  /\ UNCHANGED <<cmdVars, restVars, dirVars, upVars, svcVars>>

\* Optional tasks of __prepare_local_running_env.
PrepareTasks ==
  <<"exchange", "shared">> \o (IF opts.inputs THEN <<"inputs">> ELSE <<>>)
    \o <<"compose">> \o (IF opts.offline THEN <<>> ELSE <<"build">>)

Prepare ==
  /\ Current = "prepare"
  /\ AddAndRun("prepare", PrepareTasks, <<>>)
  /\ UNCHANGED <<cmdVars, stage, restVars, dirVars, upVars, svcVars>>

CleanShared ==
  /\ Current = "shared"
  /\ AddAndRun("shared", SharedTasks, <<>>)
  /\ UNCHANGED <<cmdVars, stage, restVars, dirVars, upVars, svcVars>>

\* cleanup_exchange_dir empties the exchange; SUBMIT_DIRs are not touched.
CleanExchange ==
  /\ Current = "exchange"
  /\ \/ exchange' = {} /\ TaskReturns(Ok)
     \/ UNCHANGED exchange /\ TaskReturns(Failed)
  /\ UNCHANGED <<cmdVars, stage, restVars, submit, upVars, svcVars>>

\* forward_artifacts, copy_artifact_inputs and copy_diff; a failing copy may come late.
CopyInputs ==
  /\ Current = "inputs"
  /\ \/ exchange' = exchange \union {"input"} /\ TaskReturns(Ok)
     \/ exchange' \in {exchange, exchange \union {"input"}} /\ TaskReturns(Failed)
  /\ UNCHANGED <<cmdVars, stage, restVars, submit, upVars, svcVars>>

\* A task without state of the model: it is done, or an exception makes it fail.
Simple(task) ==
  /\ Current = task
  /\ TaskReturns(Ok) \/ TaskReturns(Failed)
  /\ UNCHANGED <<cmdVars, stage, restVars, dirVars, upVars, svcVars>>

CleanSharedDir == \E t \in ToSet(SharedTasks) : Simple(t)
PrepareCompose == Simple("compose")
\* Best effort; only the directories of the logs are made outside the try.
CaptureLogs    == Simple("logs")

AsResult(o) == IF o = "ok" THEN Ok
               ELSE IF o \in {"timeout", "early_exit", "user"} THEN Interrupted(o) ELSE Failed

\* docker_compose_build
RunBuild ==
  /\ Current = "build"
  /\ StartCommand("build", deadlineOn, opts.early) \/ ReturnCommand("build")
  /\ UNCHANGED <<treeVars, stage, restVars, dirVars, upVars, svcVars>>

BuildReturns ==
  /\ Current = "build" /\ cmd["build"] = "done"
  /\ TaskReturns(AsResult(result["build"]))
  /\ UNCHANGED <<cmdVars, stage, restVars, dirVars, upVars, svcVars>>

-----------------------------------------------------------------------------
(* docker_compose_up                                                         *)

\* docker compose events may fail to start; no helper runs yet.
UpStart ==
  /\ Current = "run" /\ up = "start"
  /\ up' = "command"
  /\ collecting' \in BOOLEAN
  /\ UNCHANGED <<treeVars, cmdVars, stage, restVars, dirVars, ignored, blind, svcVars>>

UpCommand ==
  /\ Current = "run" /\ up = "command"
  /\ StartCommand("up", deadlineOn, opts.early) \/ ReturnCommand("up")
  /\ UNCHANGED <<treeVars, stage, restVars, dirVars, upVars, svcVars>>

Running == {s \in Services : cont[s] = "up"}

\* Of the die events only those are kept that the classification looks at.
Kept(s, k) == s \in Primaries <=> k = "ok"
Event(s, k) == IF Kept(s, k) THEN <<[svc |-> s, code |-> k]>> ELSE <<>>

\* docker compose stop, unless it times out.
UpStop ==
  /\ Current = "run" /\ up = "command" /\ cmd["up"] = "done"
  /\ up' = "collect"
  /\ \E stopped \in {{}, Running} : \E ex \in [stopped -> {"ok", "sig"}] :
       /\ cont' = [s \in Services |-> IF s \in stopped THEN ex[s] ELSE cont[s]]
       /\ \E order \in SetToSeqs({s \in stopped : Kept(s, ex[s])}) :
            dies' = dies \o [i \in 1 .. Len(order) |-> [svc |-> order[i], code |-> ex[order[i]]]]
  /\ UNCHANGED <<treeVars, cmdVars, stage, restVars, dirVars, collecting, ignored, blind,
                 crashes>>

\* Mutant: a helper's failure before the first success of a CRS is forgotten.
IgnoredHelperExitsLax(log) ==
  LET firstOk == {i \in 1 .. Len(log) : log[i].svc \in Primaries /\ log[i].code = "ok"}
  IN {h \in Helpers : \E i \in firstOk : \E j \in i .. Len(log) : log[j] = [svc |-> h, code |-> "sig"]}

\* _get_ignored_helper_exit_services: helpers that were signalled after the first success of
\* a CRS and had not failed before it.
IgnoredHelperExits(log) ==
  LET succeeded == {i \in 1 .. Len(log) : log[i].svc \in Primaries /\ log[i].code = "ok"}
      first     == CHOOSE i \in succeeded : \A j \in succeeded : i <= j
  IN IF succeeded = {} THEN {}
     ELSE {h \in Helpers :
             /\ \E j \in first .. Len(log) : log[j] = [svc |-> h, code |-> "sig"]
             /\ \A j \in 1 .. first : log[j].svc = h => log[j].code = "ok"}

\* Without events the helpers that ran before the command started: none.
UpCollect ==
  /\ Current = "run" /\ up = "collect"
  /\ up' = "check"
  /\ \E n \in 0 .. Len(dies) :   \* events the collector has read when it is stopped
       ignored' = IF collecting /\ n > 0 THEN IgnoredHelperExits(SubSeq(dies, 1, n)) ELSE {}
  /\ collecting' = FALSE
  /\ UNCHANGED <<treeVars, cmdVars, stage, restVars, dirVars, blind, svcVars>>

\* _check_failed_containers: containers that exited with an error and are not ignored.
FailedContainers == {s \in Services : cont[s] = "err" \/ (cont[s] = "sig" /\ s \notin ignored)}

UpReturns ==
  /\ Current = "run" /\ up = "check"
  /\ up' = "done"
  /\ LET r == AsResult(result["up"])
     IN IF r # Ok
          THEN TaskReturns(r) /\ UNCHANGED blind
          ELSE \/ TaskReturns(IF FailedContainers = {} THEN Ok ELSE Failed) /\ UNCHANGED blind
               \/ TaskReturns(Ok) /\ blind' = TRUE    \* the check itself fails
  /\ ignored' = {}
  /\ UNCHANGED <<cmdVars, stage, restVars, dirVars, collecting, svcVars>>

\* docker_compose_down; what it removes of images is not modelled.
Down ==
  /\ Current = "down"
  /\ \/ cont' = [s \in Services |-> IF cont[s] = "up" THEN "gone" ELSE cont[s]] /\ TaskReturns(Ok)
     \/ UNCHANGED cont /\ TaskReturns(Failed)
  /\ UNCHANGED <<cmdVars, stage, restVars, dirVars, upVars, dies, crashes>>

-----------------------------------------------------------------------------
(* After the tree.                                                           *)

\* The run's metadata, the results and the exit code.
Finish ==
  /\ stage = "post"
  /\ LET r == outcome[1]
     IN Quit(IF r.success THEN "0" ELSE IF r.interrupted THEN "124" ELSE "1")
  /\ UNCHANGED <<treeVars, cmdVars, opts, dirVars, upVars, svcVars, interrupts>>

-----------------------------------------------------------------------------
(* Signals, threads, containers, CRSs.                                       *)

Active == {c \in Commands : cmd[c] = "running"}

\* Ctrl-C, or SIGTERM, which _sigterm_handler turns into a KeyboardInterrupt: it is caught
\* while a command's output is read, and nowhere else.
Signal ==
  /\ stage # "ended" /\ interrupts < MaxInterrupts
  /\ interrupts' = interrupts + 1
  /\ \/ /\ \E c \in Active : UserStops(c)
        /\ UNCHANGED <<treeVars, stage, exit>>
     \/ /\ IF Active = {} THEN UNCHANGED cmdVars ELSE \E c \in Active : LeaveCommand(c)
        /\ Unwind
        /\ Quit("interrupt")
  /\ UNCHANGED <<opts, dirVars, upVars, svcVars>>

Output ==
  /\ \E c \in Active : BreakCommand(c)
  /\ UNCHANGED <<treeVars, runVars>>

\* The timer and the early-exit thread of a command, and the monitor.
Threads(c) ==
  /\ DeadlineStops(c) \/ ArtifactStops(c, Seen)
  /\ UNCHANGED <<treeVars, runVars>>

Monitor ==
  /\ stage = "tree"
  /\ TriggerExit(Seen)
  /\ UNCHANGED <<treeVars, runVars>>

Deadline ==
  /\ opts.timeout /\ up # "done"   \* nobody looks at it afterwards
  /\ DeadlinePasses
  /\ UNCHANGED <<treeVars, runVars>>

\* docker compose up ends well only when nothing runs any more.
ProcessEnds(c) ==
  /\ \/ ProcessExits(c, "other")
     \/ c = "build" /\ ProcessExits(c, "zero")
     \/ c = "up" /\ Running = {} /\ cont # [s \in Services |-> "none"] /\ ProcessExits(c, "zero")
  /\ UNCHANGED <<treeVars, runVars>>

ContainersStart ==
  /\ live["up"]
  /\ \A s \in Services : cont[s] = "none"
  /\ cont' = [s \in Services |-> "up"]
  /\ UNCHANGED <<treeVars, cmdVars, opts, stage, dirVars, upVars, dies, crashes,
                 interrupts, exit>>

Dies(s, k) ==
  /\ cont[s] = "up"
  /\ dies' = dies \o Event(s, k)
  /\ UNCHANGED <<treeVars, cmdVars, opts, stage, dirVars, upVars, interrupts, exit>>

\* A container ends by itself.
ContainerExits(s) ==
  /\ \E k \in {"ok", "err"} : Dies(s, k) /\ cont' = [cont EXCEPT ![s] = k]
  /\ UNCHANGED crashes

\* A sidecar crashes and Docker restarts it.
HelperRestarts(h) ==
  /\ crashes < MaxCrashes
  /\ Dies(h, "err")
  /\ crashes' = crashes + 1
  /\ UNCHANGED cont

\* --abort-on-container-exit, or a signal, makes docker compose up stop the others.
ComposeStops(s) ==
  /\ live["up"]
  /\ asked["up"] # {} \/ \E p \in Primaries : cont[p] \in {"ok", "err"}
  /\ \E k \in {"ok", "sig"} : Dies(s, k) /\ cont' = [cont EXCEPT ![s] = k]
  /\ UNCHANGED crashes

\* A CRS finds an artifact; the exchange sidecar shares it.
Find ==
  /\ up # "done"   \* nobody looks at it afterwards
  /\ \E p \in Primaries : cont[p] = "up"
  /\ \/ submit' = submit \union {"new"} /\ UNCHANGED exchange
     \/ "new" \in submit /\ exchange' = exchange \union {"new"} /\ UNCHANGED submit
  /\ UNCHANGED <<treeVars, cmdVars, opts, stage, upVars, svcVars, interrupts, exit>>

MainThread ==
  \/ Validate
  \/ InitRepo
  \/ CheckBuilt
  \/ BuildTarget
  \/ CheckSnapshots
  \/ EnterTree
  \/ RunTreeStep
  \/ Prepare
  \/ CleanShared
  \/ CleanExchange
  \/ CopyInputs
  \/ CleanSharedDir
  \/ PrepareCompose
  \/ CaptureLogs
  \/ RunBuild
  \/ BuildReturns
  \/ UpStart
  \/ UpCommand
  \/ UpStop
  \/ UpCollect
  \/ UpReturns
  \/ Down
  \/ Finish

Environment ==
  \/ Signal
  \/ Output
  \/ Deadline
  \/ ContainersStart
  \/ Find
  \/ \E s \in Services : ContainerExits(s) \/ ComposeStops(s)
  \/ \E h \in Helpers : HelperRestarts(h)
  \/ \E c \in Commands : ProcessEnds(c)

Next ==
  \/ MainThread
  \/ Monitor
  \/ \E c \in Commands : Threads(c)
  \/ Environment

\* A command that was asked to stop ends, docker compose build does, and docker compose up
\* stops the other containers and ends when none runs any more.
Ending(c) ==
  /\ asked[c] # {} \/ c = "build" \/ Running = {}
  /\ ProcessEnds(c)

Fairness ==
  /\ WF_vars(MainThread)
  /\ WF_vars(Monitor)
  /\ \A c \in Commands : WF_vars(Threads(c)) /\ WF_vars(Ending(c))
  /\ WF_vars(\E s \in Services : ComposeStops(s))

Spec == Init /\ [][Next]_vars /\ Fairness

-----------------------------------------------------------------------------
Over == stage = "ended"

\* Exit code 0 means that every task of the run, at every level, has succeeded.
ExitZeroMeansSuccess ==
  exit = "0" => \A t \in Tasks : status[t] \in {"absent", "success"}

\* A run that has cleaned up leaves no container behind, unless the console has
\* broken its command off.
NothingLeftRunning ==
  Over /\ status["down"] = "success" /\ result["up"] # "error" => Running = {}

\* A sidecar's failure of its own, before the CRSs' success, makes the run fail although
\* the exit at the end is a signal's.
FailedFirst(h) ==
  \E i \in 1 .. Len(dies) :
    /\ dies[i] = [svc |-> h, code |-> "err"]
    /\ \A j \in 1 .. i : ~(dies[j].svc \in Primaries /\ dies[j].code = "ok")

FailuresAreReported ==
  status["run"] = "success" /\ result["up"] = "ok" /\ ~blind =>
    /\ \A s \in Services : cont[s] # "err"
    /\ \A p \in Primaries : cont[p] # "sig"
    /\ \A h \in Helpers : cont[h] = "sig" => ~FailedFirst(h)

\* How a run says that it has ended is true, from the states it can be in.
OutcomeIsTrue == TypeOK /\ ExitZeroMeansSuccess /\ FailuresAreReported

\* The deadline ends the run.
DeadlineEndsRun == (stage = "tree" /\ opts.timeout /\ expired) ~> Over

\* "Stop run when the first artifact is discovered".
ArtifactEndsRun == (stage = "tree" /\ opts.early /\ "new" \in submit) ~> Over

\* Whatever is to stop a run ends it.
StopsEndRun == DeadlineEndsRun /\ ArtifactEndsRun

\* "Early exit: artifact discovered": a run that has stopped for an artifact has found one
\* itself.
EarlyExitMeansFound == result["up"] = "early_exit" => "new" \in submit

\* "Convert SIGTERM into KeyboardInterrupt so cleanup tasks can run".
SignalRunsCleanup == Over /\ status["down"] # "absent" /\ interrupts > 0 => status["down"] \in Ended

=============================================================================
