------------------------------- MODULE TaskTree -------------------------------
(***************************************************************************)
(* oss_crs/src/ui.py: MultiTaskProgress as the runner of tasks, of the     *)
(* subtasks a task adds, and of the cleanup tasks that end each level.     *)
(*                                                                         *)
(* A task is a function that returns a TaskResult or raises.  While it     *)
(* runs it may add subtasks and call run_added_tasks, which is a frame     *)
(* here.  A module that composes this one gives the leaf tasks their       *)
(* bodies and ends them with TaskReturns.                                  *)
(***************************************************************************)
EXTENDS Integers, Sequences, SequencesExt

CONSTANTS
  Tasks,   \* task ids
  Root,    \* no current task: the top level
  NoTask   \* no task is running in a frame

ASSUME TaskTreeAssumption == Root \notin Tasks /\ NoTask \notin Tasks /\ Root # NoTask

Nodes    == Tasks \union {Root}
Statuses == {"absent", "pending", "in_progress", "success", "failed", "stopped"}
Reasons  == {"none", "user", "timeout", "early_exit"}
Results  == [success : BOOLEAN, interrupted : BOOLEAN, reason : Reasons]

Ok     == [success |-> TRUE,  interrupted |-> FALSE, reason |-> "none"]
Failed == [success |-> FALSE, interrupted |-> FALSE, reason |-> "none"]
Interrupted(why) ==
  [success |-> why = "early_exit", interrupted |-> TRUE, reason |-> why]

VARIABLES
  subtasks,    \* _subtasks
  cleanups,    \* _cleanup_tasks
  status,      \* statuses, "absent" before add_task
  frames,      \* the active calls of run_added_tasks, the innermost last
  deadlineOn,  \* self.deadline is not None
  outcome      \* what the outermost call returned: <<>> or <<result>>

treeVars == <<subtasks, cleanups, status, frames, deadlineOn, outcome>>

Frames == [parent : Nodes, phase : {"subtasks", "cleanup"}, running : Tasks \union {NoTask},
           result : Results, clean : BOOLEAN, saved : BOOLEAN]

TreeTypeOK ==
  /\ subtasks \in [Nodes -> Seq(Tasks)]
  /\ cleanups \in [Nodes -> Seq(Tasks)]
  /\ status \in [Tasks -> Statuses]
  /\ frames \in Seq(Frames)
  /\ deadlineOn \in BOOLEAN
  /\ outcome \in {<<>>} \union {<<r>> : r \in Results}

TreeInit(hasDeadline) ==
  /\ subtasks = [n \in Nodes |-> <<>>]
  /\ cleanups = [n \in Nodes |-> <<>>]
  /\ status = [t \in Tasks |-> "absent"]
  /\ frames = <<>>
  /\ deadlineOn = hasDeadline
  /\ outcome = <<>>

-----------------------------------------------------------------------------
Top     == Last(frames)
Current == IF frames = <<>> THEN NoTask ELSE Top.running

\* The places of the tasks that have not been started.
Waiting(ts) == {i \in DOMAIN ts : status[ts[i]] = "pending"}

NewFrame(p) == [parent |-> p, phase |-> "subtasks", running |-> NoTask,
                result |-> Ok, clean |-> TRUE, saved |-> FALSE]

\* The tasks ts become subtasks of p, which then runs them and its cleanup tasks.
AddAndRun(p, ts, cs) ==
  /\ subtasks' = [subtasks EXCEPT ![p] = @ \o ts]
  /\ cleanups' = [cleanups EXCEPT ![p] = @ \o cs]
  /\ status' = [t \in Tasks |-> IF t \in ToSet(ts) \union ToSet(cs) THEN "pending"
                                ELSE status[t]]
  /\ frames' = Append(frames, NewFrame(p))
  /\ UNCHANGED <<deadlineOn, outcome>>

ReplaceTop(f) == frames' = [frames EXCEPT ![Len(frames)] = f]

\* The innermost frame starts the first of the tasks ts that waits.
StartFirst(ts) ==
  /\ \E i \in Waiting(ts) :
       /\ \A j \in Waiting(ts) : i <= j
       /\ status' = [status EXCEPT ![ts[i]] = "in_progress"]
       /\ ReplaceTop([Top EXCEPT !.running = ts[i]])
  /\ UNCHANGED <<subtasks, cleanups, deadlineOn, outcome>>

\* run_added_tasks leaves its first loop at the first result that is not a plain success.
Stopped(f) == f.result # Ok

StartTask ==
  /\ frames # <<>>
  /\ Top.phase = "subtasks" /\ Top.running = NoTask /\ ~Stopped(Top)
  /\ StartFirst(subtasks[Top.parent])

\* _run_cleanup_tasks is entered on every path; it suspends the deadline.
BeginCleanup ==
  /\ frames # <<>>
  /\ Top.phase = "subtasks" /\ Top.running = NoTask
  /\ Stopped(Top) \/ Waiting(subtasks[Top.parent]) = {}
  /\ ReplaceTop([Top EXCEPT !.phase = "cleanup", !.saved = deadlineOn])
  /\ deadlineOn' = (deadlineOn /\ cleanups[Top.parent] = <<>>)
  /\ UNCHANGED <<subtasks, cleanups, status, outcome>>

StartCleanupTask ==
  /\ frames # <<>>
  /\ Top.phase = "cleanup" /\ Top.running = NoTask
  /\ StartFirst(cleanups[Top.parent])

StatusAfter(r) ==
  IF r.success THEN "success" ELSE IF r.interrupted THEN "stopped" ELSE "failed"

\* The frame after the task it runs has returned r (an exception counts as Failed).
AfterTask(f, r) ==
  IF f.phase = "cleanup"
    THEN [f EXCEPT !.running = NoTask, !.clean = @ /\ r.success]
    ELSE [f EXCEPT !.running = NoTask, !.result = IF r = Ok THEN @ ELSE r]

\* What run_added_tasks returns: the first failure, else the cleanup's result.  An
\* interrupted success is not passed on.
FrameResult(f) == IF ~f.result.success THEN f.result ELSE IF f.clean THEN Ok ELSE Failed

\* The task that the innermost frame runs returns r.
TaskReturns(r) ==
  /\ Current # NoTask
  /\ status' = [status EXCEPT ![Current] = StatusAfter(r)]
  /\ ReplaceTop(AfterTask(Top, r))
  /\ UNCHANGED <<subtasks, cleanups, deadlineOn, outcome>>

\* Mutant: the first failing cleanup task ends the cleanup.
CleanupOverAtFailure(f) == Waiting(cleanups[f.parent]) = {} \/ ~f.clean

CleanupOver(f) == Waiting(cleanups[f.parent]) = {}

\* run_added_tasks returns; a task that only returns its result ends with it.
EndRun ==
  /\ frames # <<>>
  /\ Top.phase = "cleanup" /\ Top.running = NoTask
  /\ CleanupOver(Top)
  /\ deadlineOn' = Top.saved
  /\ LET r    == FrameResult(Top)
         rest == Front(frames)
     IN IF rest = <<>>
          THEN /\ frames' = <<>>
               /\ outcome' = <<r>>
               /\ UNCHANGED status
          ELSE /\ frames' = [rest EXCEPT ![Len(rest)] = AfterTask(Last(rest), r)]
               /\ status' = [status EXCEPT ![Top.parent] = StatusAfter(r)]
               /\ UNCHANGED outcome
  /\ UNCHANGED <<subtasks, cleanups>>

\* A KeyboardInterrupt is no Exception: it leaves every frame and its cleanup behind.
Unwind ==
  /\ frames' = <<>>
  /\ UNCHANGED <<subtasks, cleanups, status, deadlineOn, outcome>>

TreeStep == StartTask \/ BeginCleanup \/ StartCleanupTask \/ EndRun

-----------------------------------------------------------------------------
Ended == {"success", "failed", "stopped"}

\* Every cleanup task of a level that has returned was attempted, however its tasks
\* ended ("Cleanup tasks always run").
CleanupComplete ==
  /\ \A p \in Tasks : status[p] \in Ended =>
       \A t \in ToSet(cleanups[p]) : status[t] \in Ended
  /\ outcome # <<>> => \A t \in ToSet(cleanups[Root]) : status[t] \in Ended

=============================================================================
