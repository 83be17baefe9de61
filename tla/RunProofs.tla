------------------------------- MODULE RunProofs -------------------------------
(***************************************************************************)
(* Theorems about a run.  First ComposeRun: an exit code of 0 is the truth *)
(* about the run, the cleanup of the task tree is complete, and nothing is *)
(* left running.  Then the worker cgroups of Resources, for any number of  *)
(* runs and of CRSs, whatever the run ids are: a container with a cgroup   *)
(* parent has its limits in force for as long as it runs, and a run that   *)
(* ends leaves no cgroup.  Last the allocation that gen-compose writes:    *)
(* the pool is divided, and the memory fits.                               *)
(***************************************************************************)
EXTENDS ComposeRun, Resources, FiniteSetTheorems, SequenceTheorems, WellFoundedInduction,
        TLAPS

\* What the tasks of the run add: its own subtasks and cleanup tasks, and those of two tasks.
\* A list is empty until its task adds it.
ListInv ==
  /\ subtasks[Root] \in {<<>>, <<"prepare", "run">>}
  /\ cleanups[Root] \in {<<>>, <<"logs", "down">>}
  /\ subtasks["prepare"] \in {<<>>, PrepareTasks}
  /\ subtasks["shared"] \in {<<>>, SharedTasks}
  /\ \A t \in Tasks : cleanups[t] = <<>> /\ (t \notin {"prepare", "shared"} => subtasks[t] = <<>>)

\* The tasks on the list.
TasksOf(n) == ToSet(subtasks[n]) \union ToSet(cleanups[n])

\* The active calls: run() itself, prepare inside it, and shared inside that.
ParentAt(i) == IF i = 1 THEN Root ELSE IF i = 2 THEN "prepare" ELSE "shared"
FrameShape ==
  /\ Len(frames) <= 3
  /\ \A i \in DOMAIN frames :
       /\ frames[i].parent = ParentAt(i)
       /\ i # Len(frames) => frames[i].phase = "subtasks" /\ frames[i].running = ParentAt(i + 1)
  /\ frames # <<>> => subtasks[Root] # <<>> /\ cleanups[Root] # <<>>

\* What a frame runs is one of its tasks, and in progress.  It has succeeded so far if it
\* runs a subtask, and has no subtask left to start when it stops without a failure.
FrameInv(f) ==
  /\ f.running # NoTask =>
       /\ status[f.running] = "in_progress"
       /\ f.running \in ToSet(IF f.phase = "subtasks" THEN subtasks[f.parent]
                              ELSE cleanups[f.parent])
  /\ f.running # NoTask /\ f.phase = "subtasks" => f.result = Ok
  /\ f.result.success /\ (f.result # Ok \/ f.phase = "cleanup") =>
       Waiting(subtasks[f.parent]) = {}

\* A task adds its subtasks when it has begun, once; all that was added has a status.
AddedInv ==
  /\ status["prepare"] \in {"absent", "pending"} => subtasks["prepare"] = <<>>
  /\ status["shared"] \in {"absent", "pending"} => subtasks["shared"] = <<>>
  /\ Len(frames) = 1 /\ frames[1].running = "prepare" => subtasks["prepare"] = <<>>
  /\ Len(frames) = 2 /\ frames[2].running = "shared" => subtasks["shared"] = <<>>
  /\ \A t \in Tasks : status[t] # "absent" <=> \E n \in Nodes : t \in TasksOf(n)

\* The task that an artifact may end is the last of its list, and the containers are removed
\* in the cleanup of the run.
LastInv ==
  /\ status["build"] \notin {"absent", "pending"} => Waiting(subtasks["prepare"]) = {}
  /\ status["run"] \notin {"absent", "pending"} => Waiting(subtasks[Root]) = {}
  /\ status["down"] \notin {"absent", "pending"} => frames = <<>> \/ frames[1].phase = "cleanup"

\* A task has failed in an active call, or in one that has returned the failure.
Failing ==
  \/ \E i \in DOMAIN frames : ~frames[i].result.success \/ ~frames[i].clean
  \/ outcome # <<>> /\ ~outcome[1].success

\* Unless the run is left by an interrupt, a task in progress is run by an active call, one
\* that waits is on the list of one or comes after a failure, and no failure is forgotten.
StatusInv ==
  exit # "interrupt" => \A t \in Tasks :
    /\ status[t] = "in_progress" => \E i \in DOMAIN frames : frames[i].running = t
    /\ status[t] = "pending" =>
         Failing \/ \E i \in DOMAIN frames : t \in TasksOf(frames[i].parent)
    /\ status[t] \in {"failed", "stopped"} => Failing

\* Before the tree there is nothing, and after it its outcome.
StageInv ==
  /\ stage \in {"validate", "repo", "check", "target", "snapshots", "enter"} =>
       /\ \A n \in Nodes : subtasks[n] = <<>> /\ cleanups[n] = <<>>
       /\ \A t \in Tasks : status[t] = "absent"
  /\ frames # <<>> <=> stage = "tree"
  /\ outcome # <<>> => stage \in {"post", "ended"} /\ \A t \in ToSet(cleanups[Root]) : status[t] \in Ended
  /\ stage = "post" => outcome # <<>>
  /\ exit # "none" <=> stage = "ended"
  /\ exit = "0" => outcome # <<>> /\ outcome[1].success

TreeInv ==
  /\ ListInv /\ FrameShape /\ AddedInv /\ LastInv /\ StatusInv /\ StageInv
  /\ \A i \in DOMAIN frames : FrameInv(frames[i])

\* No process is alive before its command starts or after it returns, unless the console has
\* broken it off; a command runs within its task, and docker compose up ends well when no
\* container runs.
NothingRuns == Running = {} /\ \E s \in Services : cont[s] # "none"
ProcInv(c) ==
  /\ cmd[c] = "idle" \/ code[c] # "none" \/ (cmd[c] = "done" /\ result[c] # "error") => ~live[c]
  /\ code[c] # "none" => cmd[c] = "running"
  /\ cmd[c] # "done" => result[c] = "none"
TaskOf(c) == IF c = "up" THEN "run" ELSE "build"
CommandInv ==
  /\ \A c \in Commands : /\ ProcInv(c)
                         /\ cmd[c] = "running" => Current = TaskOf(c)
                         /\ cmd[c] = "left" => stage = "ended"
  /\ cmd["up"] = "running" => up = "command"
  /\ up \in {"collect", "check", "done"} => cmd["up"] = "done"
  /\ code["up"] = "zero" \/ result["up"] = "ok" => NothingRuns

\* A helper whose exit is ignored had not failed when a CRS succeeded.
Succeeded == \E i \in 1 .. Len(dies) : dies[i].svc \in Primaries /\ dies[i].code = "ok"
IgnoredInv ==
  /\ ignored # {} => Succeeded
  /\ \A h \in ignored : ~FailedFirst(h)

\* docker compose down comes after the run, and leaves no container.
DownInv ==
  /\ status["run"] = "success" => up = "done"
  /\ status["down"] = "success" /\ result["up"] # "error" => Running = {} /\ ~live["up"]

ServiceInv == CommandInv /\ IgnoredInv /\ DownInv /\ FailuresAreReported

IInv == TypeOK /\ TreeInv /\ ServiceInv
-----------------------------------------------------------------------------
\* The lists that tasks add are lists of tasks, without repetition where it matters.
LEMMA PrepareList ==
  ASSUME TypeOK
  PROVE  /\ PrepareTasks \in Seq(Tasks) /\ PrepareTasks # <<>>
         /\ ToSet(PrepareTasks) \subseteq {"exchange", "shared", "inputs", "compose", "build"}
         /\ \A i, j \in DOMAIN PrepareTasks : PrepareTasks[i] = PrepareTasks[j] => i = j
         /\ \A i \in DOMAIN PrepareTasks : PrepareTasks[i] = "build" => i = Len(PrepareTasks)
<1> DEFINE s == PrepareTasks
<1>1. /\ "exchange" \in Tasks /\ "shared" \in Tasks /\ "inputs" \in Tasks
      /\ "compose" \in Tasks /\ "build" \in Tasks
  BY ComposeRunAssumption DEF NamedTasks
<1>2. /\ <<"exchange", "shared">> \in Seq(Tasks) /\ <<"inputs">> \in Seq(Tasks)
      /\ <<"compose">> \in Seq(Tasks) /\ <<"build">> \in Seq(Tasks) /\ <<>> \in Seq(Tasks)
  BY <1>1
<1>3. s \in Seq(Tasks) /\ s[1] = "exchange" /\ s[2] = "shared"
  <2>1. CASE opts.inputs
    BY <1>2, <2>1 DEF PrepareTasks
  <2>2. CASE ~opts.inputs
    BY <1>2, <2>2 DEF PrepareTasks
  <2> QED
    BY <2>1, <2>2
<1>4. \/ Len(s) = 5 /\ s[3] = "inputs" /\ s[4] = "compose" /\ s[5] = "build"
      \/ Len(s) = 4 /\ s[3] = "compose" /\ s[4] = "build"
      \/ Len(s) = 4 /\ s[3] = "inputs" /\ s[4] = "compose"
      \/ Len(s) = 3 /\ s[3] = "compose"
  <2>1. CASE opts.inputs
    BY <1>2, <2>1 DEF PrepareTasks
  <2>2. CASE ~opts.inputs
    BY <1>2, <2>2 DEF PrepareTasks
  <2> QED
    BY <2>1, <2>2
<1> HIDE DEF s
<1>5. DOMAIN s = 1 .. Len(s) /\ s # <<>>
  BY <1>3, <1>4
<1>6. \A i \in DOMAIN s : i = 1 \/ i = 2 \/ i = 3 \/ i = 4 \/ i = 5
  BY <1>4, <1>5
<1>7. \A i \in DOMAIN s : s[i] \in {"exchange", "shared", "inputs", "compose", "build"}
  BY <1>3, <1>4, <1>5, <1>6
<1>8. \A i, j \in DOMAIN s : s[i] = s[j] => i = j
  BY <1>3, <1>4, <1>5, <1>6
<1>9. \A i \in DOMAIN s : s[i] = "build" => i = Len(s)
  BY <1>3, <1>4, <1>5, <1>6
<1> QED
  BY <1>3, <1>5, <1>7, <1>8, <1>9 DEF ToSet, s

\* Where the run is, from the innermost call and those around it.
TopShape ==
  /\ Len(frames) \in 1 .. 3 /\ DOMAIN frames = 1 .. Len(frames)
  /\ Top = frames[Len(frames)] /\ Top \in Frames /\ Current = Top.running
  /\ stage = "tree" /\ outcome = <<>> /\ exit = "none"
  /\ \A i \in DOMAIN frames : i # Len(frames) =>
       /\ frames[i].phase = "subtasks" /\ frames[i].result = Ok
       /\ frames[i].running = ParentAt(i + 1)
  /\ Top.parent = ParentAt(Len(frames))

LEMMA TopFacts ==
  ASSUME TypeOK, TreeInv, frames # <<>>
  PROVE  TopShape
<1>1. /\ frames \in Seq(Frames) /\ Len(frames) \in 1 .. 3 /\ DOMAIN frames = 1 .. Len(frames)
  <2>1. frames \in Seq(Frames) /\ DOMAIN frames = 1 .. Len(frames) /\ Len(frames) \in Nat
    BY DEF TypeOK, TreeTypeOK
  <2>2. Len(frames) <= 3
    BY DEF TreeInv, FrameShape
  <2>3. Len(frames) # 0
    BY <2>1, EmptySeq
  <2> QED
    BY <2>1, <2>2, <2>3
<1>2. Top = frames[Len(frames)] /\ Top \in Frames /\ Current = Top.running
  BY <1>1 DEF Top, Last, Current
<1>3. stage = "tree" /\ outcome = <<>> /\ exit = "none"
  BY DEF TreeInv, StageInv
<1>4. \A i \in DOMAIN frames : i # Len(frames) =>
        frames[i].phase = "subtasks" /\ frames[i].running = ParentAt(i + 1)
  BY <1>1 DEF TreeInv, FrameShape
<1>5. \A i \in DOMAIN frames : i # Len(frames) => frames[i].result = Ok
  <2> SUFFICES ASSUME NEW i \in DOMAIN frames, i # Len(frames) PROVE frames[i].result = Ok
    OBVIOUS
  <2>1. ParentAt(i + 1) # NoTask
    BY <1>1, TaskTreeAssumption, ComposeRunAssumption DEF NamedTasks, ParentAt
  <2> QED
    BY <1>1, <1>4, <2>1 DEF TreeInv, FrameInv
<1>6. Top.parent = ParentAt(Len(frames))
  BY <1>1, <1>2 DEF TreeInv, FrameShape
<1> QED
  BY <1>1, <1>2, <1>3, <1>4, <1>5, <1>6 DEF TopShape

\* Where the run is when a task runs.
LEMMA WhichTask ==
  ASSUME TypeOK, TreeInv, Current # NoTask
  PROVE  /\ frames # <<>> /\ Current \in Tasks /\ status[Current] = "in_progress"
         /\ \/ /\ Len(frames) = 1 /\ Top.phase = "subtasks"
               /\ Current \in {"prepare", "run"}
            \/ /\ Len(frames) = 1 /\ Top.phase = "cleanup"
               /\ Current \in {"logs", "down"}
            \/ /\ Len(frames) = 2 /\ Top.phase = "subtasks"
               /\ Current \in ToSet(PrepareTasks)
            \/ /\ Len(frames) = 3 /\ Top.phase = "subtasks"
               /\ Current \in ToSet(SharedTasks)
<1>1. frames # <<>>
  BY DEF Current
<1>2. /\ Len(frames) \in 1 .. 3 /\ DOMAIN frames = 1 .. Len(frames)
      /\ Top = frames[Len(frames)] /\ Top \in Frames /\ Current = Top.running
      /\ Top.parent = (IF Len(frames) = 1 THEN Root
                       ELSE IF Len(frames) = 2 THEN "prepare" ELSE "shared")
  BY <1>1, TopFacts DEF TopShape, ParentAt
<1>3. FrameInv(Top)
  BY <1>2 DEF TreeInv
<1>4. Current \in Tasks /\ status[Current] = "in_progress"
  BY <1>2, <1>3 DEF FrameInv, Frames
<1>5. Top.phase \in {"subtasks", "cleanup"}
  BY <1>2 DEF Frames
<1>6. Current \in ToSet(IF Top.phase = "subtasks" THEN subtasks[Top.parent]
                        ELSE cleanups[Top.parent])
  BY <1>2, <1>3 DEF FrameInv
<1>7. ToSet(<<>>) = {} /\ ToSet(<<"prepare", "run">>) = {"prepare", "run"}
      /\ ToSet(<<"logs", "down">>) = {"logs", "down"}
  BY DEF ToSet
<1>8. "prepare" \in Tasks /\ "shared" \in Tasks
  BY ComposeRunAssumption DEF NamedTasks
<1>9. CASE Len(frames) = 1
  BY <1>1, <1>2, <1>4, <1>5, <1>6, <1>7, <1>9 DEF TreeInv, ListInv
<1>10. CASE Len(frames) = 2
  BY <1>1, <1>2, <1>4, <1>5, <1>6, <1>7, <1>8, <1>10 DEF TreeInv, ListInv
<1>11. CASE Len(frames) = 3
  BY <1>1, <1>2, <1>4, <1>5, <1>6, <1>7, <1>8, <1>11 DEF TreeInv, ListInv
<1> QED
  BY <1>2, <1>9, <1>10, <1>11

\* What the lists of tasks hold.
ListShape ==
  /\ \A n \in Nodes : subtasks[n] \in Seq(Tasks) /\ cleanups[n] \in Seq(Tasks)
  /\ ToSet(subtasks[Root]) \subseteq {"prepare", "run"}
  /\ ToSet(cleanups[Root]) \subseteq {"logs", "down"}
  /\ ToSet(subtasks["prepare"]) \subseteq
       {"exchange", "shared", "inputs", "compose", "build"}
  /\ ToSet(subtasks["shared"]) \cap NamedTasks = {}
  /\ \A t \in Tasks : cleanups[t] = <<>>
  /\ NamedTasks \subseteq Tasks /\ Root \notin Tasks /\ NoTask \notin Tasks
  /\ Root \in Nodes /\ Tasks \subseteq Nodes

LEMMA ListFacts ==
  ASSUME TypeOK, ListInv
  PROVE  ListShape
<1>1. \A n \in Nodes : subtasks[n] \in Seq(Tasks) /\ cleanups[n] \in Seq(Tasks)
  BY DEF TypeOK, TreeTypeOK
<1>2. ToSet(<<>>) = {} /\ ToSet(<<"prepare", "run">>) = {"prepare", "run"}
      /\ ToSet(<<"logs", "down">>) = {"logs", "down"}
  BY DEF ToSet
<1>3. ToSet(SharedTasks) \cap NamedTasks = {}
  BY ComposeRunAssumption DEF ToSet
<1> QED
  BY <1>1, <1>2, <1>3, PrepareList, ComposeRunAssumption, TaskTreeAssumption
     DEF ListShape, ListInv, Nodes

\* The innermost call goes on with another state of its frame.
LEMMA TopReplaced ==
  ASSUME TypeOK, TreeInv, frames # <<>>, NEW f \in Frames, ReplaceTop(f),
         f.parent = Top.parent, subtasks' = subtasks, cleanups' = cleanups
  PROVE  /\ frames' \in Seq(Frames) /\ Len(frames') = Len(frames) /\ DOMAIN frames' = DOMAIN frames
         /\ \A j \in DOMAIN frames : j # Len(frames) => frames'[j] = frames[j]
         /\ frames'[Len(frames)] = f /\ frames' # <<>>
         /\ FrameShape'
<1>1. /\ frames \in Seq(Frames) /\ Len(frames) \in 1 .. 3 /\ DOMAIN frames = 1 .. Len(frames)
      /\ Top.parent = ParentAt(Len(frames))
  BY TopFacts DEF TopShape, TypeOK, TreeTypeOK
<1>2. /\ frames' \in Seq(Frames) /\ Len(frames') = Len(frames) /\ DOMAIN frames' = DOMAIN frames
      /\ \A j \in DOMAIN frames : frames'[j] = IF j = Len(frames) THEN f ELSE frames[j]
  BY <1>1, ExceptSeq DEF ReplaceTop
<1>3. frames' # <<>> /\ frames'[Len(frames)] = f
  BY <1>1, <1>2
<1>4. FrameShape'
  BY <1>1, <1>2 DEF TreeInv, FrameShape, ParentAt
<1> QED
  BY <1>2, <1>3, <1>4

\* A call starts the first of the tasks that wait.
LEMMA StartKeeps ==
  ASSUME TypeOK, TreeInv, frames # <<>>, Top.running = NoTask,
         Top.phase = "subtasks" => Top.result = Ok,
         NEW ts, ts = IF Top.phase = "subtasks" THEN subtasks[Top.parent] ELSE cleanups[Top.parent],
         StartFirst(ts), UNCHANGED <<stage, opts, exit>>
  PROVE  /\ TreeTypeOK' /\ TreeInv'
         /\ \A t \in Tasks : status'[t] # status[t] => status'[t] = "in_progress"
<1> USE DEF TopShape, ListShape
<1>1. TopShape
  BY TopFacts
<1>2. ListShape
  BY ListFacts DEF TreeInv
<1>3. ts \in Seq(Tasks) /\ Top.parent \in Nodes
  BY <1>1, <1>2 DEF Frames
<1>4. PICK i \in Waiting(ts) :
        /\ \A j \in Waiting(ts) : i <= j
        /\ status' = [status EXCEPT ![ts[i]] = "in_progress"]
        /\ ReplaceTop([Top EXCEPT !.running = ts[i]])
  BY DEF StartFirst
<1> DEFINE t == ts[i]
           f == [Top EXCEPT !.running = t]
<1>5. UNCHANGED <<subtasks, cleanups, deadlineOn, outcome>>
  BY DEF StartFirst
<1>6. i \in DOMAIN ts /\ t \in Tasks /\ t \in ToSet(ts) /\ status[t] = "pending"
  BY <1>3, <1>4 DEF Waiting, ToSet
<1>7. status \in [Tasks -> Statuses] /\ frames \in Seq(Frames)
  BY DEF TypeOK, TreeTypeOK
<1>8. /\ status' \in [Tasks -> Statuses] /\ status'[t] = "in_progress"
      /\ \A u \in Tasks : u # t => status'[u] = status[u]
  BY <1>4, <1>6, <1>7 DEF Statuses
<1>9. /\ f \in Frames /\ f.running = t /\ f.parent = Top.parent /\ f.phase = Top.phase
      /\ f.result = Top.result /\ f.clean = Top.clean
  BY <1>1, <1>6 DEF Frames
<1> HIDE DEF t, f
<1>10. /\ frames' \in Seq(Frames) /\ Len(frames') = Len(frames) /\ DOMAIN frames' = DOMAIN frames
       /\ \A j \in DOMAIN frames : j # Len(frames) => frames'[j] = frames[j]
       /\ frames'[Len(frames)] = f /\ frames' # <<>> /\ FrameShape'
  BY <1>4, <1>5, <1>9, TopReplaced DEF t, f
<1>11. TreeTypeOK'
  BY <1>5, <1>8, <1>10 DEF TypeOK, TreeTypeOK
<1>12. ListInv'
  <2>1. PrepareTasks' = PrepareTasks
    BY DEF PrepareTasks
  <2> QED
    BY <1>5, <2>1 DEF TreeInv, ListInv
<1>13. \/ Len(frames) = 1 /\ Top.phase = "subtasks" /\ t \in {"prepare", "run"} /\ ts = <<"prepare", "run">>
       \/ Len(frames) = 1 /\ Top.phase = "cleanup" /\ t \in {"logs", "down"}
       \/ /\ Len(frames) = 2 /\ Top.phase = "subtasks" /\ ts = PrepareTasks
          /\ t \in {"exchange", "shared", "inputs", "compose", "build"}
       \/ Len(frames) = 3 /\ Top.phase = "subtasks" /\ t \notin NamedTasks
  <2>1. Top.phase \in {"subtasks", "cleanup"}
    BY <1>1 DEF Frames
  <2>2. ToSet(<<>>) = {}
    BY DEF ToSet
  <2>3. "prepare" \in Tasks /\ "shared" \in Tasks
    BY <1>2 DEF NamedTasks
  <2>4. CASE Top.phase = "cleanup"
    BY ZenonT(60), <1>1, <1>2, <1>6, <2>2, <2>3, <2>4 DEF ParentAt
  <2>5. CASE Top.phase = "subtasks"
    <3>1. ts # <<>>
      BY <1>6, <2>2
    <3>2. CASE Len(frames) = 1
      BY <1>1, <1>2, <1>6, <2>5, <3>1, <3>2 DEF ParentAt, TreeInv, ListInv
    <3>3. CASE Len(frames) = 2
      BY <1>1, <1>2, <1>6, <2>5, <3>1, <3>3 DEF ParentAt, TreeInv, ListInv
    <3>4. CASE Len(frames) = 3
      BY <1>1, <1>2, <1>6, <2>5, <3>1, <3>4 DEF ParentAt, TreeInv, ListInv
    <3> QED
      BY <1>1, <3>2, <3>3, <3>4
  <2> QED
    BY <2>1, <2>4, <2>5
<1>14. \A m \in Nodes : /\ Waiting(subtasks[m])' \subseteq Waiting(subtasks[m])
                        /\ TasksOf(m)' = TasksOf(m)
  <2> SUFFICES ASSUME NEW m \in Nodes
               PROVE  Waiting(subtasks[m])' \subseteq Waiting(subtasks[m])
    BY <1>5 DEF TasksOf
  <2>1. \A j \in DOMAIN subtasks[m] : subtasks[m][j] \in Tasks
    BY <1>2
  <2> QED
    BY <1>5, <1>8, <2>1 DEF Waiting
<1>15. AddedInv'
  <2>1. status["prepare"] \in {"absent", "pending"} => subtasks["prepare"] = <<>>
    BY DEF TreeInv, AddedInv
  <2>2. status["shared"] \in {"absent", "pending"} => subtasks["shared"] = <<>>
    BY DEF TreeInv, AddedInv
  <2>3. "prepare" \in Tasks /\ "shared" \in Tasks
    BY <1>2 DEF NamedTasks
  <2>4. /\ status'["prepare"] \in {"absent", "pending"} => subtasks["prepare"] = <<>>
        /\ status'["shared"] \in {"absent", "pending"} => subtasks["shared"] = <<>>
    BY <1>8, <2>1, <2>2, <2>3
  <2>5. Len(frames) = 1 /\ t = "prepare" => subtasks["prepare"] = <<>>
    BY <1>6, <2>1
  <2>6. Len(frames) = 2 /\ t = "shared" => subtasks["shared"] = <<>>
    BY <1>6, <2>2
  <2>7. \A u \in Tasks : status'[u] # "absent" <=> \E m \in Nodes : u \in TasksOf(m)'
    BY <1>6, <1>8, <1>14 DEF TreeInv, AddedInv
  <2> QED
    BY <1>1, <1>5, <1>9, <1>10, <2>4, <2>5, <2>6, <2>7 DEF AddedInv
<1>16. LastInv'
  <2>1. "prepare" \in Nodes /\ "build" \in Tasks /\ "run" \in Tasks /\ "down" \in Tasks
    BY <1>2 DEF NamedTasks
  <2>2. ASSUME i = Len(ts) PROVE \A j \in DOMAIN ts : status'[ts[j]] # "pending"
    <3> SUFFICES ASSUME NEW j \in DOMAIN ts, status'[ts[j]] = "pending" PROVE FALSE
      OBVIOUS
    <3>1. ts[j] # t /\ ts[j] \in Tasks
      BY <1>3, <1>8
    <3>2. j \in Waiting(ts)
      BY <1>8, <3>1 DEF Waiting
    <3>3. i = j
      BY <1>3, <1>4, <2>2, <3>2
    <3> QED
      BY <3>1, <3>3 DEF t
  <2>3. status'["build"] \notin {"absent", "pending"} => Waiting(subtasks["prepare"])' = {}
    <3>1. CASE t # "build"
      BY <1>8, <1>14, <2>1, <3>1 DEF TreeInv, LastInv
    <3>2. CASE t = "build"
      <4>1. Len(frames) = 2 /\ Top.phase = "subtasks" /\ ts = PrepareTasks
        BY <1>2, <1>13, <3>2 DEF NamedTasks
      <4>2. i = Len(ts)
        BY <1>6, <3>2, <4>1, PrepareList DEF t
      <4>3. ts = subtasks["prepare"]
        BY <1>1, <4>1 DEF ParentAt
      <4> QED
        BY <1>5, <2>2, <4>2, <4>3 DEF Waiting
    <3> QED
      BY <3>1, <3>2
  <2>4. status'["run"] \notin {"absent", "pending"} => Waiting(subtasks[Root])' = {}
    <3>1. CASE t # "run"
      BY <1>2, <1>8, <1>14, <2>1, <3>1 DEF TreeInv, LastInv
    <3>2. CASE t = "run"
      <4>1. Len(frames) = 1 /\ Top.phase = "subtasks" /\ ts = <<"prepare", "run">>
        BY <1>2, <1>13, <3>2 DEF NamedTasks
      <4>2. i = Len(ts)
        <5>1. Len(ts) = 2 /\ DOMAIN ts = 1 .. 2 /\ ts[1] = "prepare"
          BY <4>1
        <5>2. i = 1 \/ i = 2
          BY <1>6, <5>1
        <5>3. i # 1
          BY <3>2, <5>1 DEF t
        <5> QED
          BY <5>1, <5>2, <5>3
      <4>3. ts = subtasks[Root]
        BY <1>1, <4>1 DEF ParentAt
      <4> QED
        BY <1>5, <2>2, <4>2, <4>3 DEF Waiting
    <3> QED
      BY <3>1, <3>2
  <2>5. status'["down"] \notin {"absent", "pending"} => frames'[1].phase = "cleanup"
    <3>1. CASE t # "down"
      BY <1>1, <1>8, <1>9, <1>10, <2>1, <3>1 DEF TreeInv, LastInv
    <3>2. CASE t = "down"
      BY <1>1, <1>2, <1>9, <1>10, <1>13, <3>2 DEF NamedTasks
    <3> QED
      BY <3>1, <3>2
  <2> QED
    BY <2>3, <2>4, <2>5 DEF LastInv
<1>17. StatusInv'
  <2>1. Failing => Failing'
    BY <1>1, <1>5, <1>9, <1>10 DEF Failing
  <2>2. \A j \in DOMAIN frames : /\ TasksOf(frames[j].parent)' = TasksOf(frames[j].parent)
                                 /\ j = Len(frames) \/ frames'[j] = frames[j]
    BY <1>1, <1>5, <1>9, <1>10 DEF TasksOf
  <2>3. ASSUME NEW u \in Tasks
        PROVE  /\ status'[u] = "in_progress" => \E j \in DOMAIN frames' : frames'[j].running = u
               /\ status'[u] = "pending" =>
                    Failing' \/ \E j \in DOMAIN frames' : u \in TasksOf(frames[j].parent)'
               /\ status'[u] \in {"failed", "stopped"} => Failing'
    <3>1. CASE u = t
      BY <1>1, <1>8, <1>9, <1>10, <3>1
    <3>2. CASE u # t
      <4>1. /\ status[u] = "in_progress" => \E j \in DOMAIN frames : frames[j].running = u
            /\ status[u] = "pending" =>
                    Failing \/ \E j \in DOMAIN frames : u \in TasksOf(frames[j].parent)
            /\ status[u] \in {"failed", "stopped"} => Failing
        BY <1>1 DEF TreeInv, StatusInv
      <4>2. frames[Len(frames)].running # u
        BY <1>1, <1>2
      <4> QED
        BY <1>8, <1>10, <2>1, <2>2, <3>2, <4>1, <4>2
    <3> QED
      BY <3>1, <3>2
  <2> QED
    BY <2>3 DEF StatusInv
<1>18. StageInv'
  BY <1>1, <1>5, <1>10 DEF TreeInv, StageInv
<1>19. ASSUME NEW j \in DOMAIN frames' PROVE FrameInv(frames[j])'
  <2>1. FrameInv(frames[j]) /\ frames[j] \in Frames
    BY <1>7, <1>10 DEF TreeInv
  <2>2. frames[j].parent \in Nodes /\ frames[j].running \in Tasks \union {NoTask}
    BY <2>1 DEF Frames
  <2>3. CASE j # Len(frames)
    BY <1>1, <1>2, <1>5, <1>8, <1>10, <1>14, <2>1, <2>2, <2>3 DEF FrameInv
  <2>4. CASE j = Len(frames)
    BY ZenonT(60), <1>1, <1>2, <1>5, <1>6, <1>8, <1>9, <1>10, <1>14, <2>1, <2>2, <2>4 DEF FrameInv
  <2> QED
    BY <2>3, <2>4
<1> QED
  BY <1>8, <1>11, <1>12, <1>10, <1>15, <1>16, <1>17, <1>18, <1>19 DEF TreeInv

\* A call begins its cleanup when its tasks are over.
LEMMA CleanupKeeps ==
  ASSUME TypeOK, TreeInv, BeginCleanup, UNCHANGED <<stage, opts, exit>>
  PROVE  TreeTypeOK' /\ TreeInv' /\ status' = status
<1> USE DEF TopShape, ListShape
<1>1. frames # <<>> /\ TopShape
  BY TopFacts DEF BeginCleanup
<1>2. ListShape
  BY ListFacts DEF TreeInv
<1> DEFINE f == [Top EXCEPT !.phase = "cleanup", !.saved = deadlineOn]
<1>3. UNCHANGED <<subtasks, cleanups, status, outcome>> /\ ReplaceTop(f)
  BY DEF BeginCleanup
<1>4. deadlineOn \in BOOLEAN /\ deadlineOn' \in BOOLEAN
  BY DEF BeginCleanup, TypeOK, TreeTypeOK
<1>5. /\ f \in Frames /\ f.running = NoTask /\ f.parent = Top.parent /\ f.phase = "cleanup"
      /\ f.result = Top.result /\ f.clean = Top.clean
  BY <1>1, <1>4 DEF Frames, BeginCleanup
<1>6. Top.running = NoTask /\ Top.phase = "subtasks"
      /\ (Top.result # Ok \/ Waiting(subtasks[Top.parent]) = {})
  BY DEF BeginCleanup, Stopped
<1> HIDE DEF f
<1>7. /\ frames' \in Seq(Frames) /\ Len(frames') = Len(frames) /\ DOMAIN frames' = DOMAIN frames
      /\ \A j \in DOMAIN frames : j # Len(frames) => frames'[j] = frames[j]
      /\ frames'[Len(frames)] = f /\ frames' # <<>> /\ FrameShape'
  BY <1>1, <1>3, <1>5, TopReplaced
<1>8. TreeTypeOK'
  BY <1>3, <1>4, <1>7 DEF TypeOK, TreeTypeOK
<1>9. ListInv'
  <2>1. PrepareTasks' = PrepareTasks
    BY DEF PrepareTasks
  <2> QED
    BY <1>3, <2>1 DEF TreeInv, ListInv
<1>10. \A m \in Nodes : /\ Waiting(subtasks[m])' = Waiting(subtasks[m])
                        /\ TasksOf(m)' = TasksOf(m)
  BY <1>3 DEF Waiting, TasksOf
<1>11. AddedInv'
  <2>1. "prepare" # NoTask /\ "shared" # NoTask
    BY <1>2 DEF NamedTasks
  <2>2. /\ Len(frames') = 1 => frames'[1].running = NoTask
        /\ Len(frames') = 2 => frames'[2].running = NoTask
    BY <1>1, <1>5, <1>7
  <2>3. \A u \in Tasks : status'[u] # "absent" <=> \E m \in Nodes : u \in TasksOf(m)'
    BY <1>3, <1>10 DEF TreeInv, AddedInv
  <2> QED
    BY <1>3, <2>1, <2>2, <2>3 DEF TreeInv, AddedInv
<1>12. LastInv'
  <2>1. "prepare" \in Nodes
    BY <1>2 DEF NamedTasks
  <2>2. frames[1].phase = "cleanup" => frames'[1].phase = "cleanup"
    BY <1>1, <1>5, <1>7
  <2> QED
    BY <1>1, <1>2, <1>3, <1>10, <2>1, <2>2 DEF TreeInv, LastInv
<1>13. StatusInv'
  <2>1. Failing => Failing'
    BY <1>1, <1>3, <1>5, <1>7 DEF Failing
  <2>2. \A j \in DOMAIN frames : /\ frames'[j].parent = frames[j].parent
                                 /\ frames'[j].running = frames[j].running
    BY <1>1, <1>5, <1>6, <1>7
  <2>3. \A j \in DOMAIN frames : TasksOf(frames[j].parent)' = TasksOf(frames[j].parent)
    BY <1>3, <2>2 DEF TasksOf
  <2>4. ASSUME NEW u \in Tasks
        PROVE  /\ status'[u] = "in_progress" => \E j \in DOMAIN frames' : frames'[j].running = u
               /\ status'[u] = "pending" =>
                    Failing' \/ \E j \in DOMAIN frames' : u \in TasksOf(frames[j].parent)'
               /\ status'[u] \in {"failed", "stopped"} => Failing'
    <3>1. /\ status[u] = "in_progress" => \E j \in DOMAIN frames : frames[j].running = u
          /\ status[u] = "pending" =>
                  Failing \/ \E j \in DOMAIN frames : u \in TasksOf(frames[j].parent)
          /\ status[u] \in {"failed", "stopped"} => Failing
      BY <1>1 DEF TreeInv, StatusInv
    <3> QED
      BY <1>3, <1>7, <2>1, <2>2, <2>3, <3>1
  <2> QED
    BY <2>4 DEF StatusInv
<1>14. StageInv'
  BY <1>1, <1>3, <1>7 DEF TreeInv, StageInv
<1>15. ASSUME NEW j \in DOMAIN frames' PROVE FrameInv(frames[j])'
  <2>1. FrameInv(frames[j]) /\ frames[j] \in Frames
    BY <1>7 DEF TreeInv, TypeOK, TreeTypeOK
  <2>2. frames[j].parent \in Nodes /\ frames[j].running \in Tasks \union {NoTask}
    BY <2>1 DEF Frames
  <2>3. CASE j # Len(frames)
    BY <1>3, <1>7, <1>10, <2>1, <2>2, <2>3 DEF FrameInv
  <2>4. CASE j = Len(frames)
    BY <1>1, <1>3, <1>5, <1>6, <1>7, <1>10, <2>1, <2>2, <2>4 DEF FrameInv
  <2> QED
    BY <2>3, <2>4
<1> QED
  BY <1>3, <1>7, <1>8, <1>9, <1>11, <1>12, <1>13, <1>14, <1>15 DEF TreeInv

\* A leaf task returns.
LEMMA ReturnKeeps ==
  ASSUME TypeOK, TreeInv, Current # NoTask, Current \notin {"prepare", "shared"},
         NEW r \in Results, r.success /\ r # Ok => Current \in {"build", "run"},
         TaskReturns(r), UNCHANGED <<stage, opts, exit>>
  PROVE  /\ TreeTypeOK' /\ TreeInv'
         /\ \A t \in Tasks : status'[t] = IF t = Current THEN StatusAfter(r) ELSE status[t]
<1> USE DEF TopShape, ListShape
<1>1. frames # <<>> /\ TopShape
  BY WhichTask, TopFacts
<1>2. ListShape
  BY ListFacts DEF TreeInv
<1> DEFINE t == Current
           f == AfterTask(Top, r)
<1>3. UNCHANGED <<subtasks, cleanups, deadlineOn, outcome>> /\ ReplaceTop(f)
      /\ status' = [status EXCEPT ![t] = StatusAfter(r)]
  BY DEF TaskReturns
<1>4. /\ f \in Frames /\ f.running = NoTask /\ f.parent = Top.parent /\ f.phase = Top.phase
      /\ f.phase = "subtasks" => f.clean = Top.clean /\ f.result = IF r = Ok THEN Top.result ELSE r
      /\ f.phase = "cleanup" => f.result = Top.result /\ f.clean = (Top.clean /\ r.success)
  BY <1>1 DEF Frames, AfterTask, Results
<1>5. t \in Tasks /\ status[t] = "in_progress" /\ t = Top.running
  BY <1>1, WhichTask
<1>6. StatusAfter(r) \in Ended /\ (StatusAfter(r) = "success" <=> r.success)
  BY DEF StatusAfter, Ended
<1>7. /\ status' \in [Tasks -> Statuses] /\ status'[t] = StatusAfter(r)
      /\ \A u \in Tasks : u # t => status'[u] = status[u]
  BY <1>3, <1>5, <1>6 DEF TypeOK, TreeTypeOK, Ended, Statuses
<1>8. Top.phase \in {"subtasks", "cleanup"}
  BY <1>1 DEF Frames
<1> HIDE DEF f, t
<1>9. /\ frames' \in Seq(Frames) /\ Len(frames') = Len(frames) /\ DOMAIN frames' = DOMAIN frames
      /\ \A j \in DOMAIN frames : j # Len(frames) => frames'[j] = frames[j]
      /\ frames'[Len(frames)] = f /\ frames' # <<>> /\ FrameShape'
  BY <1>1, <1>3, <1>4, TopReplaced
<1>10. TreeTypeOK'
  BY <1>3, <1>7, <1>9 DEF TypeOK, TreeTypeOK
<1>11. ListInv'
  <2>1. PrepareTasks' = PrepareTasks
    BY DEF PrepareTasks
  <2> QED
    BY <1>3, <2>1 DEF TreeInv, ListInv
<1>12. \A m \in Nodes : /\ Waiting(subtasks[m])' \subseteq Waiting(subtasks[m])
                        /\ TasksOf(m)' = TasksOf(m)
  <2> SUFFICES ASSUME NEW m \in Nodes
               PROVE  Waiting(subtasks[m])' \subseteq Waiting(subtasks[m])
    BY <1>3 DEF TasksOf
  <2>1. \A j \in DOMAIN subtasks[m] : subtasks[m][j] \in Tasks
    BY <1>2
  <2> QED
    BY <1>3, <1>6, <1>7, <2>1 DEF Waiting, Ended
<1>13. AddedInv'
  <2>1. "prepare" # NoTask /\ "shared" # NoTask /\ "prepare" \in Tasks /\ "shared" \in Tasks
        /\ t \notin {"prepare", "shared"}
    BY <1>2 DEF NamedTasks, t
  <2>2. /\ Len(frames') = 1 => frames'[1].running = NoTask
        /\ Len(frames') = 2 => frames'[2].running = NoTask
    BY <1>1, <1>4, <1>9
  <2>3. \A u \in Tasks : status'[u] # "absent" <=> \E m \in Nodes : u \in TasksOf(m)'
    BY <1>5, <1>6, <1>7, <1>12 DEF TreeInv, AddedInv, Ended
  <2> QED
    BY <1>3, <1>7, <2>1, <2>2, <2>3 DEF TreeInv, AddedInv
<1>14. LastInv'
  <2>1. "prepare" \in Nodes /\ "build" \in Tasks /\ "run" \in Tasks /\ "down" \in Tasks
    BY <1>2 DEF NamedTasks
  <2>2. frames[1].phase = "cleanup" => frames'[1].phase = "cleanup"
    BY <1>1, <1>4, <1>9
  <2>3. \A u \in Tasks : status'[u] \notin {"absent", "pending"} =>
          status[u] \notin {"absent", "pending"}
    BY <1>5, <1>7
  <2> QED
    BY <1>1, <1>2, <1>3, <1>12, <2>1, <2>2, <2>3 DEF TreeInv, LastInv
<1>15. StatusInv'
  <2>1. Failing \/ ~r.success => Failing'
    <3>1. ASSUME ~r.success PROVE ~f.result.success \/ ~f.clean
      <4>1. r # Ok
        BY <3>1 DEF Ok
      <4>2. CASE Top.phase = "subtasks"
        BY <1>4, <3>1, <4>1, <4>2
      <4>3. CASE Top.phase = "cleanup"
        BY <1>4, <3>1, <4>3
      <4> QED
        BY <1>8, <4>2, <4>3
    <3>2. ASSUME ~Top.result.success \/ ~Top.clean PROVE ~f.result.success \/ ~f.clean
      <4>1. Top.phase = "subtasks" => Top.result = Ok
        BY <1>1, <1>2, <1>5 DEF TreeInv, FrameInv
      <4>2. CASE Top.phase = "subtasks"
        <5>1. Top.result.success
          BY <4>1, <4>2 DEF Ok
        <5> QED
          BY <1>4, <3>2, <4>2, <5>1
      <4>3. CASE Top.phase = "cleanup"
        BY <1>4, <3>2, <4>3
      <4> QED
        BY <1>8, <4>2, <4>3
    <3> QED
      BY <1>1, <1>3, <1>9, <3>1, <3>2 DEF Failing
  <2>2. \A j \in DOMAIN frames : /\ frames'[j].parent = frames[j].parent
                                 /\ frames[j].running # t => frames'[j].running = frames[j].running
    BY <1>1, <1>4, <1>5, <1>9
  <2>3. \A j \in DOMAIN frames : TasksOf(frames[j].parent)' = TasksOf(frames[j].parent)
    BY <1>3, <2>2 DEF TasksOf
  <2>4. ASSUME NEW u \in Tasks
        PROVE  /\ status'[u] = "in_progress" => \E j \in DOMAIN frames' : frames'[j].running = u
               /\ status'[u] = "pending" =>
                    Failing' \/ \E j \in DOMAIN frames' : u \in TasksOf(frames[j].parent)'
               /\ status'[u] \in {"failed", "stopped"} => Failing'
    <3>1. /\ status[u] = "in_progress" => \E j \in DOMAIN frames : frames[j].running = u
          /\ status[u] = "pending" =>
                  Failing \/ \E j \in DOMAIN frames : u \in TasksOf(frames[j].parent)
          /\ status[u] \in {"failed", "stopped"} => Failing
      BY <1>1 DEF TreeInv, StatusInv
    <3>2. CASE u = t
      BY <1>6, <1>7, <2>1, <3>2 DEF Ended
    <3>3. CASE u # t
      BY <1>7, <1>9, <2>1, <2>2, <2>3, <3>1, <3>3
    <3> QED
      BY <3>2, <3>3
  <2> QED
    BY <2>4 DEF StatusInv
<1>16. StageInv'
  BY <1>1, <1>3, <1>9 DEF TreeInv, StageInv
<1>17. ASSUME NEW j \in DOMAIN frames' PROVE FrameInv(frames[j])'
  <2>1. FrameInv(frames[j]) /\ frames[j] \in Frames
    BY <1>9 DEF TreeInv, TypeOK, TreeTypeOK
  <2>2. frames[j].parent \in Nodes /\ frames[j].running \in Tasks \union {NoTask}
    BY <2>1 DEF Frames
  <2>3. CASE j # Len(frames)
    <3>1. frames[j].running # t
      BY <1>1, <1>9, <2>3 DEF ParentAt, t
    <3> QED
      BY <1>3, <1>7, <1>9, <1>12, <2>1, <2>2, <2>3, <3>1 DEF FrameInv
  <2>4. CASE j = Len(frames)
    <3>1. f.result.success /\ (f.result # Ok \/ f.phase = "cleanup") =>
            Waiting(subtasks[Top.parent]) = {}
      <4>1. CASE f.result = Top.result
        BY <1>1, <1>4, <2>1, <2>4, <4>1 DEF FrameInv
      <4>2. CASE f.result # Top.result
        <5>1. f.phase = "subtasks" /\ r # Ok /\ f.result = r
          BY <1>4, <1>8, <4>2
        <5>2. ASSUME r.success
              PROVE  \/ t = "run" /\ Top.parent = Root
                     \/ t = "build" /\ Top.parent = "prepare"
          <6>1. t \in {"build", "run"} /\ Top.phase = "subtasks"
            BY <1>4, <5>1, <5>2 DEF t
          <6>2. ToSet(PrepareTasks) \subseteq {"exchange", "shared", "inputs", "compose", "build"}
            BY PrepareList
          <6>3. t \notin ToSet(SharedTasks)
            BY <6>1, ComposeRunAssumption DEF ToSet, NamedTasks
          <6>4. \/ Len(frames) = 1 /\ t \in {"prepare", "run"}
                \/ Len(frames) = 2 /\ t \in ToSet(PrepareTasks)
            BY <6>1, <6>3, WhichTask DEF t
          <6> QED
            BY <1>1, <6>1, <6>2, <6>4 DEF ParentAt
        <5> QED
          BY <1>5, <5>1, <5>2 DEF TreeInv, LastInv
      <4> QED
        BY <4>1, <4>2
    <3>2. Top.parent \in Nodes
      BY <1>1 DEF Frames
    <3> QED
      BY <1>3, <1>4, <1>9, <1>12, <2>4, <3>1, <3>2 DEF FrameInv
  <2> QED
    BY <2>3, <2>4
<1> QED
  BY <1>5, <1>7, <1>10, <1>9, <1>11, <1>13, <1>14, <1>15, <1>16, <1>17 DEF TreeInv, t

\* A task adds its subtasks and runs them in a call of its own.
LEMMA AddKeeps ==
  ASSUME TypeOK, TreeInv, NEW p, NEW ts, Current = p,
         (p = "prepare" /\ ts = PrepareTasks) \/ (p = "shared" /\ ts = SharedTasks),
         AddAndRun(p, ts, <<>>), UNCHANGED <<stage, opts, exit>>
  PROVE  /\ TreeTypeOK' /\ TreeInv'
         /\ \A t \in Tasks : status'[t] # status[t] => status'[t] = "pending"
<1> USE DEF TopShape, ListShape
<1>1. p \in Tasks /\ p # NoTask /\ {"prepare", "shared"} \subseteq NamedTasks /\ NamedTasks \subseteq Tasks
  BY ComposeRunAssumption, TaskTreeAssumption DEF NamedTasks
<1>2. frames # <<>> /\ TopShape /\ ListShape
  BY <1>1, WhichTask, TopFacts, ListFacts DEF TreeInv
<1>3. /\ Top.phase = "subtasks" /\ p = ParentAt(Len(frames) + 1) /\ Len(frames) <= 2 /\ status[p] = "in_progress"
      /\ \A j \in DOMAIN frames : frames[j].parent # p
  <2>1. ToSet(PrepareTasks) \subseteq {"exchange", "shared", "inputs", "compose", "build"}
    BY PrepareList
  <2>2. p \notin ToSet(SharedTasks)
    BY <1>1, ComposeRunAssumption DEF ToSet
  <2>3. /\ frames # <<>> /\ p \in Tasks /\ status[p] = "in_progress"
        /\ \/ Len(frames) = 1 /\ Top.phase = "subtasks" /\ p \in {"prepare", "run"}
           \/ Len(frames) = 1 /\ Top.phase = "cleanup" /\ p \in {"logs", "down"}
           \/ Len(frames) = 2 /\ Top.phase = "subtasks" /\ p \in ToSet(PrepareTasks)
           \/ Len(frames) = 3 /\ Top.phase = "subtasks" /\ p \in ToSet(SharedTasks)
    BY <1>1, WhichTask
  <2>4. \A j \in DOMAIN frames : frames[j].parent = ParentAt(j)
    BY DEF TreeInv, FrameShape
  <2>5. CASE p = "prepare"
    <3>1. Len(frames) = 1 /\ Top.phase = "subtasks"
      BY <1>1, <2>1, <2>2, <2>3, <2>5
    <3> QED
      BY <1>2, <2>3, <2>4, <2>5, <3>1, TaskTreeAssumption DEF ParentAt
  <2>6. CASE p = "shared"
    <3>1. Len(frames) = 2 /\ Top.phase = "subtasks"
      BY <1>1, <2>1, <2>2, <2>3, <2>6
    <3>2. \A j \in 1 .. 2 : ParentAt(j) # p
      BY <1>1, <2>6, TaskTreeAssumption DEF ParentAt
    <3>3. p = ParentAt(Len(frames) + 1)
      BY <2>6, <3>1 DEF ParentAt
    <3>4. \A j \in DOMAIN frames : frames[j].parent # p
      BY <1>2, <2>4, <3>1, <3>2
    <3> QED
      BY <2>3, <3>1, <3>3, <3>4
  <2>7. p = "prepare" \/ p = "shared"
    OBVIOUS
  <2> QED
    BY <2>5, <2>6, <2>7
<1>4. subtasks[p] = <<>> /\ cleanups[p] = <<>>
  <2>1. CASE p = "prepare"
    <3>1. Len(frames) = 1
      BY <1>1, <1>2, <1>3, <2>1, TaskTreeAssumption DEF ParentAt
    <3> QED
      BY <1>1, <1>2, <2>1, <3>1 DEF TreeInv, AddedInv
  <2>2. CASE p = "shared"
    <3>1. Len(frames) = 2
      BY <1>1, <1>2, <1>3, <2>2, TaskTreeAssumption DEF ParentAt
    <3> QED
      BY <1>1, <1>2, <2>2, <3>1 DEF TreeInv, AddedInv
  <2> QED
    BY <2>1, <2>2
<1>5. ts \in Seq(Tasks) /\ ts = (IF p = "prepare" THEN PrepareTasks ELSE SharedTasks)
  <2>1. SharedTasks \in Seq(Tasks)
    BY ComposeRunAssumption, SeqMonotonic
  <2> QED
    BY <2>1, PrepareList
<1>6. /\ subtasks' \in [Nodes -> Seq(Tasks)] /\ subtasks'[p] = ts /\ cleanups' = cleanups
      /\ \A m \in Nodes : m # p => subtasks'[m] = subtasks[m]
  <2>1. subtasks \in [Nodes -> Seq(Tasks)] /\ cleanups \in [Nodes -> Seq(Tasks)] /\ p \in Nodes
    BY <1>1 DEF TypeOK, TreeTypeOK, Nodes
  <2>2. <<>> \o ts = ts /\ <<>> \o <<>> = <<>>
    BY <1>5, ConcatEmptySeq
  <2>3. subtasks' = [subtasks EXCEPT ![p] = ts] /\ cleanups' = [cleanups EXCEPT ![p] = cleanups[p]]
    BY <1>4, <2>1, <2>2 DEF AddAndRun
  <2> QED
    BY <1>5, <2>1, <2>3
<1>7. UNCHANGED <<deadlineOn, outcome>>
  BY DEF AddAndRun
<1>8. /\ frames' \in Seq(Frames) /\ Len(frames') = Len(frames) + 1 /\ DOMAIN frames' = 1 .. Len(frames) + 1
      /\ \A j \in DOMAIN frames : frames'[j] = frames[j]
      /\ frames'[Len(frames) + 1] = NewFrame(p)
  <2>1. NewFrame(p) \in Frames
    BY <1>1 DEF Frames, NewFrame, Nodes, Results, Reasons, Ok
  <2> QED
    BY <1>2, <2>1 DEF AddAndRun, TypeOK, TreeTypeOK
<1>9. /\ NewFrame(p).parent = p /\ NewFrame(p).running = NoTask /\ NewFrame(p).result = Ok
      /\ NewFrame(p).phase = "subtasks" /\ NewFrame(p).clean = TRUE
  BY DEF NewFrame
<1>10. \A t \in ToSet(ts) : t \in Tasks /\ status[t] = "absent"
  <2> SUFFICES ASSUME NEW t \in ToSet(ts) PROVE t \in Tasks /\ status[t] = "absent"
    OBVIOUS
  <2>1. ToSet(<<>>) = {}
    BY DEF ToSet
  <2>2. t \in Tasks
    BY <1>5 DEF ToSet
  <2>3. CASE p = "prepare"
    <3>1. t \in {"exchange", "shared", "inputs", "compose", "build"}
      BY <1>5, <2>3, PrepareList
    <3>2. t \in NamedTasks /\ t \notin {"prepare", "run", "logs", "down"}
      BY <3>1 DEF NamedTasks
    <3>3. \A m \in Nodes : t \notin TasksOf(m)
      BY <1>2, <1>4, <2>1, <2>3, <3>2 DEF TasksOf, TreeInv, ListInv, Nodes
    <3> QED
      BY <2>2, <3>3 DEF TreeInv, AddedInv
  <2>4. CASE p = "shared"
    <3>1. t \notin NamedTasks
      BY <1>5, <2>4, ComposeRunAssumption DEF ToSet
    <3>2. t \notin {"prepare", "run", "logs", "down", "exchange", "shared", "inputs", "compose", "build"}
      BY <3>1 DEF NamedTasks
    <3>3. \A m \in Nodes : t \notin TasksOf(m)
      BY <1>2, <1>4, <2>1, <2>4, <3>2 DEF TasksOf, TreeInv, ListInv, Nodes
    <3> QED
      BY <2>2, <3>3 DEF TreeInv, AddedInv
  <2> QED
    BY <2>3, <2>4
<1>11. /\ status' \in [Tasks -> Statuses]
       /\ \A t \in Tasks : status'[t] = IF t \in ToSet(ts) THEN "pending" ELSE status[t]
  <2>1. ToSet(<<>>) = {}
    BY DEF ToSet
  <2> QED
    BY <2>1 DEF AddAndRun, TypeOK, TreeTypeOK, Statuses
<1>12. \A m \in Nodes : /\ TasksOf(m) \subseteq TasksOf(m)'
                        /\ TasksOf(m)' = IF m = p THEN ToSet(ts) ELSE TasksOf(m)
  <2>1. ToSet(<<>>) = {}
    BY DEF ToSet
  <2> QED
    BY <1>4, <1>6, <2>1 DEF TasksOf
<1>13. TreeTypeOK'
  BY <1>2, <1>6, <1>7, <1>8, <1>11 DEF TypeOK, TreeTypeOK
<1>14. ListInv'
  <2>1. PrepareTasks' = PrepareTasks
    BY DEF PrepareTasks
  <2>2. /\ "prepare" \in Nodes /\ "shared" \in Nodes /\ p # Root
    BY <1>1, TaskTreeAssumption DEF Nodes
  <2> QED
    BY <1>1, <1>2, <1>6, <2>1, <2>2 DEF TreeInv, ListInv
<1>15. FrameShape'
  <2>1. \A j \in DOMAIN frames : /\ frames'[j].parent = ParentAt(j)
                                 /\ frames'[j].phase = "subtasks"
                                 /\ frames'[j].running = ParentAt(j + 1)
    <3> SUFFICES ASSUME NEW j \in DOMAIN frames
                 PROVE  /\ frames'[j].parent = ParentAt(j)
                        /\ frames'[j].phase = "subtasks"
                        /\ frames'[j].running = ParentAt(j + 1)
      OBVIOUS
    <3>1. frames'[j] = frames[j] /\ frames[j].parent = ParentAt(j)
      BY <1>8 DEF TreeInv, FrameShape
    <3>2. CASE j = Len(frames)
      BY <1>2, <1>3, <3>1, <3>2
    <3>3. CASE j # Len(frames)
      BY <1>2, <3>1, <3>3
    <3> QED
      BY <3>1, <3>2, <3>3
  <2>2. frames'[Len(frames) + 1].parent = ParentAt(Len(frames) + 1)
    BY <1>3, <1>8, <1>9
  <2>3. \A j \in DOMAIN frames' : j = Len(frames) + 1 \/ j \in DOMAIN frames
    BY <1>2, <1>8
  <2>4. subtasks'[Root] # <<>> /\ cleanups'[Root] # <<>> /\ Len(frames') <= 3
    BY <1>1, <1>2, <1>3, <1>6, <1>8, SMTT(30) DEF TreeInv, FrameShape
  <2> QED
    BY <1>8, <2>1, <2>2, <2>3, <2>4 DEF FrameShape
<1>16. \A t \in Tasks : status[t] # "absent" => t \notin ToSet(ts) /\ status'[t] = status[t]
  BY <1>10, <1>11
<1>17. AddedInv'
  <2>1. status'["prepare"] \in {"absent", "pending"} => subtasks'["prepare"] = <<>>
    <3>1. "prepare" \in TasksOf(Root)
      BY SMTT(30), <1>2, <1>3 DEF TreeInv, ListInv, FrameShape, TasksOf, ToSet
    <3> QED
      BY <1>1, <1>2, <1>3, <1>6, <1>16, <3>1 DEF TreeInv, AddedInv
  <2>2. status'["shared"] \in {"absent", "pending"} => subtasks'["shared"] = <<>>
    BY <1>1, <1>2, <1>3, <1>6, <1>16 DEF TreeInv, AddedInv
  <2>3. Len(frames') # 1 /\ (Len(frames') = 2 => frames'[2].running = NoTask)
    BY <1>2, <1>8, <1>9
  <2>4. \A u \in Tasks : status'[u] # "absent" <=> \E m \in Nodes : u \in TasksOf(m)'
    <3>1. p \in Nodes
      BY <1>1, <1>2
    <3> QED
      BY <1>11, <1>12, <1>16, <3>1 DEF TreeInv, AddedInv
  <2>5. "shared" # NoTask
    BY <1>1, TaskTreeAssumption
  <2> QED
    BY <2>1, <2>2, <2>3, <2>4, <2>5 DEF AddedInv
<1>18. \A m \in Nodes \ {p} : Waiting(subtasks[m])' \subseteq Waiting(subtasks[m])
  <2> SUFFICES ASSUME NEW m \in Nodes, m # p, NEW j \in Waiting(subtasks[m])'
               PROVE  j \in Waiting(subtasks[m])
    OBVIOUS
  <2>1. j \in DOMAIN subtasks[m] /\ status'[subtasks[m][j]] = "pending"
    BY <1>6 DEF Waiting
  <2>2. subtasks[m][j] \in Tasks /\ subtasks[m][j] \in TasksOf(m)
    BY <1>2, <2>1 DEF TasksOf, ToSet
  <2>3. status[subtasks[m][j]] # "absent"
    BY <2>2 DEF TreeInv, AddedInv
  <2> QED
    BY <1>16, <2>1, <2>2, <2>3 DEF Waiting
<1>19. LastInv'
  <2>1. \A u \in Tasks : status'[u] \notin {"absent", "pending"} =>
          status[u] \notin {"absent", "pending"}
    BY <1>11
  <2>2. {"build", "run", "down"} \subseteq Tasks /\ "prepare" \in Nodes /\ p # Root
    BY <1>1, <1>2 DEF NamedTasks
  <2>3. status'["build"] \notin {"absent", "pending"} => Waiting(subtasks["prepare"])' = {}
    <3>1. CASE p = "prepare"
      <4>1. "build" \notin {"prepare", "run", "logs", "down"} /\ "build" \in NamedTasks
        BY DEF NamedTasks
      <4>2. ToSet(<<>>) = {}
        BY DEF ToSet
      <4>3. \A m \in Nodes : "build" \notin TasksOf(m)
        BY <1>2, <1>4, <3>1, <4>1, <4>2 DEF TasksOf, TreeInv, ListInv, Nodes
      <4>4. status["build"] = "absent"
        BY <2>2, <4>3 DEF TreeInv, AddedInv
      <4> QED
        BY <2>1, <2>2, <4>4
    <3>2. CASE p # "prepare"
      BY <1>18, <2>1, <2>2, <3>2 DEF TreeInv, LastInv
    <3> QED
      BY <3>1, <3>2
  <2>4. status'["run"] \notin {"absent", "pending"} => Waiting(subtasks[Root])' = {}
    BY <1>2, <1>18, <2>1, <2>2 DEF TreeInv, LastInv
  <2>5. frames'[1] = frames[1]
    BY <1>2, <1>8
  <2> QED
    BY <1>2, <2>1, <2>2, <2>3, <2>4, <2>5 DEF TreeInv, LastInv
<1>20. StatusInv'
  <2>1. Failing => Failing'
    BY <1>2, <1>7, <1>8 DEF Failing
  <2>2. \A j \in DOMAIN frames : /\ frames[j].parent \in Nodes
                                 /\ TasksOf(frames[j].parent) \subseteq TasksOf(frames[j].parent)'
    <3> SUFFICES ASSUME NEW j \in DOMAIN frames
                 PROVE  /\ frames[j].parent \in Nodes
                        /\ TasksOf(frames[j].parent) \subseteq TasksOf(frames[j].parent)'
      OBVIOUS
    <3>1. frames[j] \in Frames /\ frames'[j] = frames[j]
      BY <1>8 DEF TypeOK, TreeTypeOK
    <3>2. frames[j].parent \in Nodes
      BY <3>1 DEF Frames
    <3>3. TasksOf(frames[j].parent)' = ToSet(subtasks'[frames[j].parent]) \union ToSet(cleanups'[frames[j].parent])
      BY <3>1 DEF TasksOf
    <3>4. TasksOf(frames[j].parent) \subseteq ToSet(subtasks'[frames[j].parent]) \union ToSet(cleanups'[frames[j].parent])
      BY <1>12, <3>2 DEF TasksOf
    <3> QED
      BY <3>2, <3>3, <3>4
  <2>3. \E j \in DOMAIN frames' : ToSet(ts) \subseteq TasksOf(frames[j].parent)'
    <3>1. Len(frames) + 1 \in DOMAIN frames' /\ frames'[Len(frames) + 1].parent = p
      <4>1. Len(frames) \in Nat /\ Len(frames) + 1 \in 1 .. Len(frames) + 1
        BY <1>2
      <4> QED
        BY <1>8, <1>9, <4>1
    <3>2. ToSet(ts) \subseteq ToSet(subtasks'[frames'[Len(frames) + 1].parent])
      BY <1>6, <3>1
    <3> QED
      BY <3>1, <3>2 DEF TasksOf
  <2>4. ASSUME NEW u \in Tasks
        PROVE  /\ status'[u] = "in_progress" => \E j \in DOMAIN frames' : frames'[j].running = u
               /\ status'[u] = "pending" =>
                    Failing' \/ \E j \in DOMAIN frames' : u \in TasksOf(frames[j].parent)'
               /\ status'[u] \in {"failed", "stopped"} => Failing'
    <3>1. /\ status[u] = "in_progress" => \E j \in DOMAIN frames : frames[j].running = u
          /\ status[u] = "pending" =>
                  Failing \/ \E j \in DOMAIN frames : u \in TasksOf(frames[j].parent)
          /\ status[u] \in {"failed", "stopped"} => Failing
      BY <1>2 DEF TreeInv, StatusInv
    <3>2. DOMAIN frames \subseteq DOMAIN frames' /\ Len(frames) + 1 \in DOMAIN frames'
      BY <1>2, <1>8
    <3>3. CASE u \in ToSet(ts)
      BY <1>11, <2>3, <3>2, <3>3
    <3>4. CASE u \notin ToSet(ts)
      BY <1>8, <1>11, <2>1, <2>2, <3>1, <3>2, <3>4
    <3> QED
      BY <3>3, <3>4
  <2> QED
    BY <2>4 DEF StatusInv
<1>21. frames' # <<>>
  BY <1>2, <1>8
<1>22. StageInv'
  BY <1>2, <1>7, <1>21 DEF TreeInv, StageInv
<1>23. ASSUME NEW j \in DOMAIN frames' PROVE FrameInv(frames[j])'
  <2>1. CASE j = Len(frames) + 1
    BY <1>8, <1>9, <2>1 DEF FrameInv
  <2>2. CASE j \in DOMAIN frames
    <3>1. FrameInv(frames[j]) /\ frames[j] \in Frames /\ frames'[j] = frames[j] /\ frames[j].parent # p
      BY <1>3, <1>8, <2>2 DEF TreeInv, TypeOK, TreeTypeOK
    <3>2. frames[j].parent \in Nodes /\ frames[j].running \in Tasks \union {NoTask}
      BY <3>1 DEF Frames
    <3>3. frames[j].phase = "subtasks" /\ frames[j].result = Ok
      BY <1>1, <1>2, <1>3, <2>2, <3>1 DEF FrameInv
    <3>4. frames[j].running # NoTask =>
            status'[frames[j].running] = "in_progress"
      BY <1>16, <3>1, <3>2 DEF FrameInv
    <3> QED
      BY <1>6, <3>1, <3>2, <3>3, <3>4 DEF FrameInv
  <2> QED
    BY <1>2, <1>8, <2>1, <2>2
<1> QED
  BY <1>8, <1>11, <1>13, <1>14, <1>15, <1>17, <1>19, <1>20, <1>22, <1>23 DEF TreeInv

\* What a call returns: a plain success when everything has succeeded, else a failure.  By
\* then all its cleanup tasks are over, and its tasks too if it has succeeded.
LEMMA ResultFacts ==
  ASSUME TypeOK, TreeInv, EndRun, NEW r, r = FrameResult(Top)
  PROVE  /\ r \in Results /\ (r = Ok \/ ~r.success)
         /\ ~Top.result.success \/ ~Top.clean => ~r.success
         /\ \A t \in ToSet(cleanups[Top.parent]) : status[t] # "pending"
         /\ \A t \in TasksOf(Top.parent) : status[t] = "pending" => ~r.success
<1> USE DEF TopShape, ListShape
<1>1. frames # <<>> /\ TopShape
  BY TopFacts DEF EndRun
<1>2. ListShape
  BY ListFacts DEF TreeInv
<1>3. /\ Top.phase = "cleanup" /\ Top.result \in Results /\ Top.parent \in Nodes
      /\ Waiting(cleanups[Top.parent]) = {} /\ FrameInv(Top)
  BY <1>1 DEF EndRun, Frames, CleanupOver, TreeInv
<1>4. Ok.success /\ ~Failed.success /\ Ok \in Results /\ Failed \in Results
  BY DEF Ok, Failed, Results, Reasons
<1>5. r \in Results /\ (r = Ok \/ ~r.success)
  BY <1>3, <1>4 DEF FrameResult
<1>6. ~Top.result.success \/ ~Top.clean => ~r.success
  BY <1>4 DEF FrameResult
<1>7. \A t \in ToSet(cleanups[Top.parent]) : status[t] # "pending"
  BY <1>3 DEF Waiting, ToSet
<1>8. ASSUME NEW t \in TasksOf(Top.parent), status[t] = "pending" PROVE ~r.success
  <2>1. t \in ToSet(subtasks[Top.parent])
    BY <1>7, <1>8 DEF TasksOf
  <2>2. Waiting(subtasks[Top.parent]) # {}
    BY <1>8, <2>1 DEF Waiting, ToSet
  <2>3. ~Top.result.success
    BY <1>3, <2>2 DEF FrameInv
  <2> QED
    BY <1>6, <2>3
<1> QED
  BY <1>5, <1>6, <1>7, <1>8

\* The outermost call returns.
LEMMA EndRootKeeps ==
  ASSUME TypeOK, TreeInv, EndRun, Len(frames) = 1,
         stage' = (IF outcome' # <<>> THEN "post" ELSE "tree"), UNCHANGED <<opts, exit>>
  PROVE  TreeTypeOK' /\ TreeInv' /\ status' = status
<1> USE DEF TopShape, ListShape
<1>1. frames # <<>> /\ TopShape
  BY TopFacts DEF EndRun
<1>2. ListShape
  BY ListFacts DEF TreeInv
<1> DEFINE r == FrameResult(Top)
<1>3. /\ r \in Results /\ (r = Ok \/ ~r.success)
      /\ ~Top.result.success \/ ~Top.clean => ~r.success
      /\ \A t \in ToSet(cleanups[Top.parent]) : status[t] # "pending"
      /\ \A t \in TasksOf(Top.parent) : status[t] = "pending" => ~r.success
  BY ResultFacts
<1> HIDE DEF r
<1>4. Front(frames) = <<>>
  BY <1>1 DEF Front, TypeOK, TreeTypeOK
<1>5. /\ frames' = <<>> /\ outcome' = <<r>> /\ outcome'[1] = r /\ outcome' # <<>>
      /\ UNCHANGED <<status, subtasks, cleanups>> /\ deadlineOn' = Top.saved
  BY <1>4 DEF EndRun, r
<1>6. Top.running = NoTask /\ Top.parent = Root /\ DOMAIN frames = {1}
  BY <1>1 DEF EndRun, ParentAt
<1>7. TreeTypeOK'
  <2>1. frames' \in Seq(Frames) /\ deadlineOn' \in BOOLEAN /\ outcome' \in {<<q>> : q \in Results}
    BY <1>1, <1>3, <1>5 DEF Frames
  <2> QED
    BY <1>5, <2>1 DEF TypeOK, TreeTypeOK
<1>8. ListInv'
  <2>1. PrepareTasks' = PrepareTasks
    BY DEF PrepareTasks
  <2> QED
    BY <1>5, <2>1 DEF TreeInv, ListInv
<1>9. \A m \in Nodes : Waiting(subtasks[m])' = Waiting(subtasks[m]) /\ TasksOf(m)' = TasksOf(m)
  BY <1>5 DEF Waiting, TasksOf
<1>10. Len(frames') = 0 /\ DOMAIN frames' = {}
  BY <1>5
<1>11. FrameShape' /\ \A j \in DOMAIN frames' : FrameInv(frames[j])'
  BY <1>5, <1>10 DEF FrameShape
<1>12. AddedInv'
  <2>1. \A u \in Tasks : status'[u] # "absent" <=> \E m \in Nodes : u \in TasksOf(m)'
    BY <1>5, <1>9 DEF TreeInv, AddedInv
  <2> QED
    BY <1>5, <1>10, <2>1 DEF TreeInv, AddedInv
<1>13. LastInv'
  BY <1>2, <1>5, <1>9 DEF TreeInv, LastInv, NamedTasks
<1>14. StatusInv'
  <2>1. Failing \/ ~r.success => Failing'
    BY <1>1, <1>3, <1>5, <1>6 DEF Failing
  <2>2. ASSUME NEW u \in Tasks
        PROVE  /\ status'[u] # "in_progress"
               /\ status'[u] = "pending" => Failing'
               /\ status'[u] \in {"failed", "stopped"} => Failing'
    <3>1. /\ status[u] = "in_progress" => \E j \in DOMAIN frames : frames[j].running = u
          /\ status[u] = "pending" =>
                  Failing \/ \E j \in DOMAIN frames : u \in TasksOf(frames[j].parent)
          /\ status[u] \in {"failed", "stopped"} => Failing
      BY <1>1 DEF TreeInv, StatusInv
    <3> QED
      BY <1>1, <1>2, <1>3, <1>5, <1>6, <2>1, <3>1
  <2> QED
    BY <2>2 DEF StatusInv
<1>15. StageInv'
  <2>1. ASSUME NEW t \in ToSet(cleanups[Root]) PROVE status[t] \in Ended
    <3>1. t \in Tasks /\ t \in TasksOf(Root)
      BY <1>2 DEF TasksOf, NamedTasks
    <3>2. status[t] # "absent" /\ status[t] # "pending" /\ status[t] \in Statuses
      BY <1>2, <1>3, <1>6, <3>1 DEF TreeInv, AddedInv, TypeOK, TreeTypeOK
    <3>3. status[t] # "in_progress"
      BY <1>1, <1>2, <1>6, <3>1 DEF TreeInv, StatusInv
    <3> QED
      BY <3>2, <3>3 DEF Statuses, Ended
  <2> QED
    BY <1>1, <1>5, <2>1 DEF TreeInv, StageInv
<1> QED
  BY <1>5, <1>7, <1>8, <1>11, <1>12, <1>13, <1>14, <1>15 DEF TreeInv

\* An inner call returns, and with it the task that has made it.
LEMMA EndInnerKeeps ==
  ASSUME TypeOK, TreeInv, EndRun, Len(frames) # 1,
         stage' = (IF outcome' # <<>> THEN "post" ELSE "tree"), UNCHANGED <<opts, exit>>
  PROVE  /\ TreeTypeOK' /\ TreeInv'
         /\ \A t \in Tasks : t \notin {"prepare", "shared"} => status'[t] = status[t]
<1> USE DEF TopShape, ListShape
<1>1. frames # <<>> /\ TopShape
  BY TopFacts DEF EndRun
<1>2. ListShape
  BY ListFacts DEF TreeInv
<1>0. PICK m \in 1 .. 2 : m + 1 = Len(frames)
  BY <1>1
<1> DEFINE r == FrameResult(Top)
           q == Top.parent
           f == AfterTask(frames[m], r)
<1>3. /\ r \in Results /\ (r = Ok \/ ~r.success)
      /\ ~Top.result.success \/ ~Top.clean => ~r.success
      /\ \A t \in ToSet(cleanups[Top.parent]) : status[t] # "pending"
      /\ \A t \in TasksOf(Top.parent) : status[t] = "pending" => ~r.success
  BY ResultFacts
<1>4. /\ m \in DOMAIN frames /\ frames[m] \in Frames
      /\ m # Len(frames) /\ \A j \in 1 .. m : j \in DOMAIN frames /\ j # Len(frames)
      /\ \A j \in DOMAIN frames : j = Len(frames) \/ j \in 1 .. m
  <2>1. frames \in Seq(Frames) /\ DOMAIN frames = 1 .. m + 1
    BY <1>0, <1>1 DEF TypeOK, TreeTypeOK
  <2>2. frames[m] \in Frames
    BY <1>0, <2>1, ElementOfSeq
  <2> QED
    BY <1>0, <2>1, <2>2
<1>5. /\ frames[m].phase = "subtasks" /\ frames[m].result = Ok
      /\ frames[m].running = q /\ q \in {"prepare", "shared"}
      /\ Top.running = NoTask
  <2>1. m + 1 = Len(frames) /\ Len(frames) # 1
    BY <1>0
  <2>2. q = ParentAt(m + 1) /\ q \in {"prepare", "shared"}
    BY <1>1, <2>1 DEF ParentAt
  <2>3. Top.running = NoTask
    BY DEF EndRun
  <2> QED
    BY <1>1, <1>0, <1>4, <2>2, <2>3
<1>6. /\ f \in Frames /\ f.running = NoTask /\ f.parent = frames[m].parent
      /\ f.phase = "subtasks" /\ f.clean = frames[m].clean /\ f.result = r
  BY <1>3, <1>0, <1>4, <1>5 DEF AfterTask, Frames
<1>7. LET rest == Front(frames) IN
        /\ rest \in Seq(Frames) /\ Len(rest) = m /\ rest # <<>>
        /\ \A j \in 1 .. m : rest[j] = frames[j]
  <2>3. frames \in Seq(Frames)
    BY DEF TypeOK, TreeTypeOK
  <2>1. m \in Nat /\ m <= Len(frames) /\ m # 0
    <3>1. m \in {1, 2} /\ Len(frames) = m + 1
      BY <1>0, <1>4
    <3> QED
      BY <3>1
  <2>2. /\ SubSeq(frames, 1, m) \in Seq(Frames) /\ Len(SubSeq(frames, 1, m)) = m
        /\ \A j \in 1 .. m : SubSeq(frames, 1, m)[j] = frames[j]
    BY <2>1, <2>3
  <2> QED
    <3>1. Front(frames) = SubSeq(frames, 1, m)
      <4>1. Len(frames) - 1 = m
        BY <1>0, <1>1
      <4> QED
        BY <4>1 DEF Front
    <3> QED
      BY <2>1, <2>2, <3>1
<1>8. /\ frames' = [Front(frames) EXCEPT ![m] = f] /\ UNCHANGED <<subtasks, cleanups, outcome>>
      /\ status' = [status EXCEPT ![q] = StatusAfter(r)] /\ deadlineOn' = Top.saved
  BY <1>0, <1>4, <1>7 DEF EndRun, Last
<1> HIDE DEF f, r, q
<1>9. /\ frames' \in Seq(Frames) /\ Len(frames') = m /\ DOMAIN frames' = 1 .. m
      /\ \A j \in 1 .. m : j # m => frames'[j] = frames[j]
      /\ frames'[m] = f /\ frames' # <<>>
  <2> DEFINE rest == Front(frames)
  <2>1. rest \in Seq(Frames) /\ Len(rest) = m /\ m \in 1 .. Len(rest)
    BY <1>0, <1>4, <1>7
  <2>2. \A j \in 1 .. m : rest[j] = frames[j]
    BY <1>7
  <2> HIDE DEF rest
  <2>3. frames' = [rest EXCEPT ![m] = f]
    BY <1>8 DEF rest
  <2>4. /\ frames' \in Seq(Frames) /\ Len(frames') = m
        /\ \A j \in 1 .. m : frames'[j] = IF j = m THEN f ELSE rest[j]
    BY <1>6, <2>1, <2>3, ExceptSeq
  <2> QED
    BY <1>0, <1>4, <2>1, <2>2, <2>4
<1>10. q \in Tasks /\ status[q] = "in_progress" /\ q # NoTask
  <2>1. q \in NamedTasks
    BY <1>5 DEF NamedTasks
  <2>2. q \in Tasks /\ q # NoTask
    BY <1>2, <2>1
  <2> QED
    BY <1>0, <1>4, <1>5, <2>2 DEF TreeInv, FrameInv
<1>11. StatusAfter(r) \in Ended /\ (StatusAfter(r) = "success" <=> r.success)
  BY DEF StatusAfter, Ended
<1>12. /\ status' \in [Tasks -> Statuses] /\ status'[q] = StatusAfter(r)
       /\ \A u \in Tasks : u # q => status'[u] = status[u]
  BY <1>8, <1>10, <1>11 DEF TypeOK, TreeTypeOK, Ended, Statuses
<1>13. TreeTypeOK'
  <2>1. deadlineOn' \in BOOLEAN
    BY <1>1, <1>8 DEF Frames
  <2> QED
    BY <1>8, <1>9, <1>12, <2>1 DEF TypeOK, TreeTypeOK
<1>14. ListInv'
  <2>1. PrepareTasks' = PrepareTasks
    BY DEF PrepareTasks
  <2> QED
    BY <1>8, <2>1 DEF TreeInv, ListInv
<1>15. FrameShape'
  <2>1. ASSUME NEW j \in 1 .. m
        PROVE  /\ frames'[j].parent = ParentAt(j)
               /\ j # m => frames'[j].phase = "subtasks" /\ frames'[j].running = ParentAt(j + 1)
    <3>1. j \in DOMAIN frames /\ j # Len(frames)
      BY <1>0, <1>4
    <3>2. frames[j].parent = ParentAt(j)
      BY <3>1 DEF TreeInv, FrameShape
    <3> QED
      BY <1>1, <1>6, <1>9, <3>1, <3>2
  <2>2. subtasks'[Root] # <<>> /\ cleanups'[Root] # <<>>
    BY <1>1, <1>8 DEF TreeInv, FrameShape
  <2>3. m <= 3
    BY <1>0, <1>4
  <2> QED
    BY <1>9, <2>1, <2>2, <2>3 DEF FrameShape
<1>16. \A k \in Nodes : /\ Waiting(subtasks[k])' \subseteq Waiting(subtasks[k])
                        /\ TasksOf(k)' = TasksOf(k)
  <2> SUFFICES ASSUME NEW k \in Nodes
               PROVE  Waiting(subtasks[k])' \subseteq Waiting(subtasks[k])
    BY <1>8 DEF TasksOf
  <2>1. \A j \in DOMAIN subtasks[k] : subtasks[k][j] \in Tasks
    BY <1>2
  <2> QED
    BY <1>8, <1>11, <1>12, <2>1 DEF Waiting, Ended
<1>17. AddedInv'
  <2>1. "prepare" # NoTask /\ "shared" # NoTask /\ "prepare" \in Tasks /\ "shared" \in Tasks
    BY <1>2 DEF NamedTasks
  <2>2. /\ Len(frames') = 1 => frames'[1].running = NoTask
        /\ Len(frames') = 2 => frames'[2].running = NoTask
    BY <1>6, <1>9
  <2>3. \A u \in Tasks : status'[u] # "absent" <=> \E k \in Nodes : u \in TasksOf(k)'
    BY <1>10, <1>11, <1>12, <1>16 DEF TreeInv, AddedInv, Ended
  <2>4. \A u \in Tasks : status'[u] \in {"absent", "pending"} => status[u] \in {"absent", "pending"}
    BY <1>11, <1>12 DEF Ended
  <2> QED
    BY <1>8, <2>1, <2>2, <2>3, <2>4 DEF TreeInv, AddedInv
<1>18. LastInv'
  <2>1. "prepare" \in Nodes /\ "build" \in Tasks /\ "run" \in Tasks /\ "down" \in Tasks
    BY <1>2 DEF NamedTasks
  <2>2. frames[1].phase = "subtasks" /\ frames'[1].phase = "subtasks"
    <3>1. m = 1 \/ (m = 2 /\ 1 \in 1 .. m)
      BY <1>0, <1>4
    <3>2. CASE m = 1
      BY <1>5, <1>6, <1>9, <3>2
    <3>3. CASE m = 2 /\ 1 \in 1 .. m
      BY <1>1, <1>0, <1>4, <1>9, <3>3
    <3> QED
      BY <3>1, <3>2, <3>3
  <2>3. \A u \in Tasks : status'[u] \notin {"absent", "pending"} =>
          status[u] \notin {"absent", "pending"}
    BY <1>10, <1>12
  <2> QED
    BY <1>1, <1>2, <1>8, <1>16, <2>1, <2>2, <2>3 DEF TreeInv, LastInv
<1>19. \A j \in DOMAIN frames' : /\ j \in DOMAIN frames /\ frames'[j].parent = frames[j].parent
                                 /\ frames'[j].clean = frames[j].clean
                                 /\ frames[j].result = Ok /\ j # Len(frames)
                                 /\ frames[j].running # q => frames'[j].running = frames[j].running
  <2> SUFFICES ASSUME NEW j \in 1 .. m
               PROVE /\ j \in DOMAIN frames /\ frames'[j].parent = frames[j].parent
                     /\ frames'[j].clean = frames[j].clean
                     /\ frames[j].result = Ok /\ j # Len(frames)
                     /\ frames[j].running # q => frames'[j].running = frames[j].running
    BY <1>9
  <2>1. j \in DOMAIN frames /\ j # Len(frames)
    BY <1>0, <1>4
  <2> QED
    BY <1>1, <1>5, <1>6, <1>9, <2>1
<1>20. \A j \in DOMAIN frames : j = Len(frames) \/ j \in DOMAIN frames'
  BY <1>0, <1>4, <1>9
<1>21. StatusInv'
  <2>1. ~r.success => Failing'
    BY <1>0, <1>4, <1>6, <1>9 DEF Failing
  <2>2. Failing => Failing'
    <3>1. SUFFICES ASSUME NEW i \in DOMAIN frames, ~frames[i].result.success \/ ~frames[i].clean
                   PROVE  Failing'
      BY <1>1 DEF Failing
    <3>2. CASE i = Len(frames)
      BY <1>1, <1>3, <2>1, <3>1, <3>2
    <3>3. CASE i # Len(frames)
      <4>1. i \in DOMAIN frames' /\ ~frames'[i].clean
        BY <1>19, <1>20, <3>1, <3>3 DEF Ok
      <4> QED
        BY <4>1 DEF Failing
    <3> QED
      BY <3>2, <3>3
  <2>3. \A j \in DOMAIN frames' : TasksOf(frames[j].parent)' = TasksOf(frames[j].parent)
    BY <1>8, <1>19 DEF TasksOf
  <2>4. ASSUME NEW u \in Tasks
        PROVE  /\ status'[u] = "in_progress" => \E j \in DOMAIN frames' : frames'[j].running = u
               /\ status'[u] = "pending" =>
                    Failing' \/ \E j \in DOMAIN frames' : u \in TasksOf(frames[j].parent)'
               /\ status'[u] \in {"failed", "stopped"} => Failing'
    <3>1. /\ status[u] = "in_progress" => \E j \in DOMAIN frames : frames[j].running = u
          /\ status[u] = "pending" =>
                  Failing \/ \E j \in DOMAIN frames : u \in TasksOf(frames[j].parent)
          /\ status[u] \in {"failed", "stopped"} => Failing
      BY <1>1 DEF TreeInv, StatusInv
    <3>2. CASE u = q
      BY <1>11, <1>12, <2>1, <3>2 DEF Ended
    <3>3. CASE u # q
      <4>1. status[u] = "in_progress" => \E j \in DOMAIN frames' : frames'[j].running = u
        BY SMTT(30), <1>1, <1>2, <1>5, <1>19, <1>20, <3>1, <3>3
      <4>2. status[u] = "pending" =>
              Failing' \/ \E j \in DOMAIN frames' : u \in TasksOf(frames[j].parent)'
        BY <1>1, <1>3, <1>20, <2>1, <2>2, <2>3, <3>1
      <4> QED
        BY <1>12, <2>2, <3>1, <3>3, <4>1, <4>2
    <3> QED
      BY <3>2, <3>3
  <2> QED
    BY <2>4 DEF StatusInv
<1>22. StageInv'
  BY <1>1, <1>8, <1>9 DEF TreeInv, StageInv
<1>23. ASSUME NEW j \in DOMAIN frames' PROVE FrameInv(frames[j])'
  <2>1. /\ FrameInv(frames[j]) /\ frames[j] \in Frames /\ j \in DOMAIN frames /\ j # Len(frames)
    BY <1>19 DEF TreeInv, TypeOK, TreeTypeOK
  <2>2. frames[j].parent \in Nodes /\ frames[j].running \in Tasks \union {NoTask}
    BY <2>1 DEF Frames
  <2>3. CASE j # m
    <3>1. frames[j].running # q
      <4>1. j \in 1 .. m /\ m = 2 /\ j = 1 /\ Len(frames) = 3
        BY <1>0, <1>4, <1>9, <2>3
      <4> QED
        BY <1>1, <2>1, <4>1 DEF ParentAt, q
    <3> QED
      BY <1>8, <1>9, <1>12, <1>16, <2>1, <2>2, <2>3, <3>1 DEF FrameInv
  <2>4. CASE j = m
    BY <1>3, <1>6, <1>9, <2>4 DEF FrameInv
  <2> QED
    BY <2>3, <2>4
<1> QED
  BY <1>5, <1>9, <1>12, <1>13, <1>14, <1>15, <1>17, <1>18, <1>21, <1>22, <1>23 DEF TreeInv

\* A step that leaves the tree as it is.
LEMMA SameTree ==
  ASSUME TypeOK, TreeInv, UNCHANGED <<treeVars, opts>>,
         exit' # "interrupt" => exit # "interrupt", StageInv'
  PROVE  TreeTypeOK' /\ TreeInv'
<1>1. /\ subtasks' = subtasks /\ cleanups' = cleanups /\ status' = status /\ frames' = frames
      /\ deadlineOn' = deadlineOn /\ outcome' = outcome /\ opts' = opts
  BY DEF treeVars
<1>2. TreeTypeOK'
  BY <1>1 DEF TypeOK, TreeTypeOK
<1>3. ListInv'
  <2>1. PrepareTasks' = PrepareTasks
    BY <1>1 DEF PrepareTasks
  <2> QED
    BY <1>1, <2>1 DEF TreeInv, ListInv
<1>4. \A n \in Nodes : TasksOf(n)' = TasksOf(n) /\ Waiting(subtasks[n])' = Waiting(subtasks[n])
  BY <1>1 DEF TasksOf, Waiting
<1>5. FrameShape' /\ AddedInv' /\ LastInv'
  <2>1. Root \in Nodes /\ "prepare" \in Nodes
    BY ComposeRunAssumption DEF Nodes, NamedTasks
  <2>2. FrameShape'
    BY <1>1 DEF TreeInv, FrameShape
  <2>3. AddedInv'
    BY <1>1, <1>4 DEF TreeInv, AddedInv
  <2>4. LastInv'
    BY <1>1, <1>4, <2>1 DEF TreeInv, LastInv
  <2> QED
    BY <2>2, <2>3, <2>4
<1>6. StatusInv'
  <2>1. Failing' = Failing
    BY <1>1 DEF Failing
  <2>2. \A i \in DOMAIN frames : TasksOf(frames[i].parent)' = TasksOf(frames[i].parent)
    BY <1>1 DEF TasksOf
  <2> QED
    BY <1>1, <2>1, <2>2 DEF TreeInv, StatusInv
<1>7. ASSUME NEW i \in DOMAIN frames' PROVE FrameInv(frames[i])'
  <2>1. FrameInv(frames[i])
    BY <1>1, <1>7 DEF TreeInv
  <2> QED
    BY <1>1, <2>1 DEF FrameInv, Waiting
<1> QED
  BY <1>2, <1>3, <1>5, <1>6, <1>7 DEF TreeInv

\* An interrupt leaves the tree.
LEMMA UnwindKeeps ==
  ASSUME TypeOK, TreeInv, Unwind, Quit("interrupt"), UNCHANGED opts
  PROVE  TreeTypeOK' /\ TreeInv' /\ status' = status
<1>1. /\ subtasks' = subtasks /\ cleanups' = cleanups /\ status' = status /\ frames' = <<>>
      /\ deadlineOn' = deadlineOn /\ outcome' = outcome
      /\ stage' = "ended" /\ exit' = "interrupt"
  BY DEF Unwind, Quit
<1>2. Len(frames') = 0 /\ DOMAIN frames' = {} /\ frames' \in Seq(Frames)
  BY <1>1
<1>3. TreeTypeOK'
  BY <1>1, <1>2 DEF TypeOK, TreeTypeOK
<1>4. ListInv'
  <2>1. PrepareTasks' = PrepareTasks
    BY <1>1 DEF PrepareTasks
  <2> QED
    BY <1>1, <2>1 DEF TreeInv, ListInv
<1>5. \A n \in Nodes : TasksOf(n)' = TasksOf(n) /\ Waiting(subtasks[n])' = Waiting(subtasks[n])
  BY <1>1 DEF TasksOf, Waiting
<1>6. AddedInv'
  BY <1>1, <1>2, <1>5 DEF TreeInv, AddedInv
<1>7. LastInv'
  <2>1. Root \in Nodes /\ "prepare" \in Nodes
    BY ComposeRunAssumption DEF Nodes, NamedTasks
  <2> QED
    BY <1>1, <1>5, <2>1 DEF TreeInv, LastInv
<1>8. FrameShape' /\ StatusInv' /\ \A i \in DOMAIN frames' : FrameInv(frames[i])'
  BY <1>1, <1>2 DEF FrameShape, StatusInv
<1>9. StageInv'
  BY <1>1 DEF TreeInv, StageInv
<1> QED
  BY <1>1, <1>3, <1>4, <1>6, <1>7, <1>8, <1>9 DEF TreeInv

\* The tree is entered with the tasks of a run, and nothing else.
LEMMA EnterKeeps ==
  ASSUME TypeOK, TreeInv, EnterTree
  PROVE  /\ TreeTypeOK' /\ TreeInv'
         /\ \A t \in Tasks : status'[t] \in {"absent", "pending"}
<1> DEFINE ts == <<"prepare", "run">>
           cs == <<"logs", "down">>
<1>1. /\ \A n \in Nodes : subtasks[n] = <<>> /\ cleanups[n] = <<>>
      /\ \A t \in Tasks : status[t] = "absent"
      /\ frames = <<>> /\ outcome = <<>> /\ exit = "none"
  BY DEF TreeInv, StageInv, EnterTree
<1>2. /\ "prepare" \in Tasks /\ "run" \in Tasks /\ "logs" \in Tasks /\ "down" \in Tasks
      /\ "shared" \in Tasks /\ Root \in Nodes /\ Root \notin Tasks
      /\ NoTask \notin Tasks /\ Nodes = Tasks \union {Root}
  BY ComposeRunAssumption, TaskTreeAssumption DEF Nodes, NamedTasks
<1>3. ts \in Seq(Tasks) /\ cs \in Seq(Tasks) /\ ts # <<>> /\ cs # <<>>
      /\ ToSet(ts) = {"prepare", "run"} /\ ToSet(cs) = {"logs", "down"}
  BY <1>2 DEF ToSet
<1> HIDE DEF ts, cs
<1>4. /\ AddAndRun(Root, ts, cs) /\ stage' = "tree" /\ UNCHANGED <<opts, exit>>
  BY DEF EnterTree, ts, cs
<1>5. /\ subtasks' = [subtasks EXCEPT ![Root] = ts] /\ cleanups' = [cleanups EXCEPT ![Root] = cs]
      /\ subtasks \in [Nodes -> Seq(Tasks)] /\ cleanups \in [Nodes -> Seq(Tasks)]
  <2>1. <<>> \o ts = ts /\ <<>> \o cs = cs
    BY <1>3, ConcatEmptySeq
  <2>2. subtasks[Root] = <<>> /\ cleanups[Root] = <<>>
    BY <1>1, <1>2
  <2>3. /\ subtasks' = [subtasks EXCEPT ![Root] = subtasks[Root] \o ts]
        /\ cleanups' = [cleanups EXCEPT ![Root] = cleanups[Root] \o cs]
    BY <1>4 DEF AddAndRun
  <2> QED
    BY <2>1, <2>2, <2>3 DEF TypeOK, TreeTypeOK
<1>6. /\ subtasks' \in [Nodes -> Seq(Tasks)] /\ cleanups' \in [Nodes -> Seq(Tasks)]
      /\ subtasks'[Root] = ts /\ cleanups'[Root] = cs
      /\ \A t \in Tasks : subtasks'[t] = <<>> /\ cleanups'[t] = <<>>
  BY <1>1, <1>2, <1>3, <1>5
<1>7. /\ status' \in [Tasks -> Statuses]
      /\ \A t \in Tasks : status'[t] = IF t \in {"prepare", "run", "logs", "down"} THEN "pending"
                                       ELSE "absent"
  BY <1>1, <1>3, <1>4 DEF AddAndRun, Statuses
<1> DEFINE f == NewFrame(Root)
<1>8. /\ f \in Frames /\ f.parent = Root /\ f.phase = "subtasks" /\ f.running = NoTask
      /\ f.result = Ok
  BY <1>2 DEF Frames, NewFrame, Results, Reasons, Ok
<1> HIDE DEF f
<1>9. /\ frames' = <<f>> /\ Len(frames') = 1 /\ DOMAIN frames' = {1} /\ frames'[1] = f
      /\ frames' \in Seq(Frames) /\ frames' # <<>>
  <2>1. frames' = Append(<<>>, f)
    BY <1>1, <1>4 DEF AddAndRun, f
  <2> QED
    BY <1>8, <2>1
<1>10. UNCHANGED <<deadlineOn, outcome>>
  BY <1>4 DEF AddAndRun
<1>11. TreeTypeOK'
  BY <1>6, <1>7, <1>9, <1>10 DEF TypeOK, TreeTypeOK
<1>12. ListInv'
  BY <1>2, <1>6 DEF ListInv, ts, cs
<1>13. FrameShape'
  BY <1>3, <1>6, <1>8, <1>9 DEF FrameShape, ParentAt
<1>14. /\ TasksOf(Root)' = {"prepare", "run", "logs", "down"}
       /\ \A t \in Tasks : TasksOf(t)' = {}
  <2>1. ToSet(<<>>) = {}
    BY DEF ToSet
  <2> QED
    BY <1>3, <1>6, <2>1 DEF TasksOf
<1>15. AddedInv'
  BY <1>2, <1>6, <1>7, <1>8, <1>9, <1>14 DEF AddedInv
<1>16. LastInv'
  <2>1. "build" \in Tasks
    BY ComposeRunAssumption DEF NamedTasks
  <2> QED
    BY <1>2, <1>7, <2>1 DEF LastInv
<1>17. StatusInv'
  <2>1. TasksOf(frames[1].parent)' = {"prepare", "run", "logs", "down"}
    <3>1. TasksOf(frames[1].parent)' = ToSet(subtasks'[Root]) \union ToSet(cleanups'[Root])
      BY <1>8, <1>9 DEF TasksOf
    <3> QED
      BY <1>3, <1>6, <3>1
  <2> QED
    BY <1>7, <1>9, <2>1 DEF StatusInv
<1>18. StageInv'
  BY <1>1, <1>4, <1>9, <1>10 DEF StageInv
<1>19. ASSUME NEW i \in DOMAIN frames' PROVE FrameInv(frames[i])'
  BY <1>8, <1>9 DEF FrameInv
<1> QED
  BY <1>7, <1>11, <1>12, <1>13, <1>15, <1>16, <1>17, <1>18, <1>19 DEF TreeInv

\* The initial state satisfies the invariant.
LEMMA InitIInv == Init => IInv
<1> SUFFICES ASSUME Init PROVE IInv
  OBVIOUS
<1>1. /\ \A n \in Nodes : subtasks[n] = <<>> /\ cleanups[n] = <<>>
      /\ \A t \in Tasks : status[t] = "absent"
      /\ frames = <<>> /\ outcome = <<>> /\ exit = "none" /\ stage = "validate"
      /\ Len(frames) = 0 /\ DOMAIN frames = {}
  BY DEF Init, TreeInit
<1>2. /\ Root \in Nodes /\ Tasks \subseteq Nodes /\ NamedTasks \subseteq Tasks
      /\ "prepare" \in Tasks /\ "shared" \in Tasks /\ "build" \in Tasks /\ "run" \in Tasks
      /\ "down" \in Tasks
  BY ComposeRunAssumption DEF Nodes, NamedTasks
<1>3. TypeOK
  <2>1. opts \in Options /\ opts.timeout \in BOOLEAN
    BY ComposeRunAssumption DEF Init
  <2>2. TreeTypeOK
    BY <2>1 DEF Init, TreeInit, TreeTypeOK, Statuses
  <2>3. CommandTypeOK
    BY DEF Init, CommandInit, CommandTypeOK, Outcomes
  <2>4. submit \subseteq Artifacts /\ exchange \subseteq Artifacts
    BY DEF Init, Artifacts
  <2>5. crashes \in 0 .. MaxCrashes /\ interrupts \in 0 .. MaxInterrupts
    BY ComposeRunAssumption DEF Init
  <2>6. dies \in Seq([svc : Services, code : {"ok", "sig", "err"}])
    BY DEF Init
  <2> QED
    BY <2>1, <2>2, <2>3, <2>4, <2>5, <2>6 DEF Init, TypeOK
<1>4. TreeInv
  <2>1. ListInv
    BY <1>1, <1>2 DEF ListInv
  <2>2. FrameShape /\ \A i \in DOMAIN frames : FrameInv(frames[i])
    BY <1>1 DEF FrameShape
  <2>3. \A n \in Nodes : TasksOf(n) = {}
    BY <1>1 DEF TasksOf, ToSet
  <2>4. AddedInv
    BY <1>1, <1>2, <2>3 DEF AddedInv
  <2>5. LastInv /\ StatusInv /\ StageInv
    BY <1>1, <1>2 DEF LastInv, StatusInv, StageInv
  <2> QED
    BY <2>1, <2>2, <2>4, <2>5 DEF TreeInv
<1>5. ServiceInv
  <2>1. Commands = {"build", "up"}
    BY ComposeRunAssumption
  <2>2. CommandInv
    BY <2>1 DEF Init, CommandInit, CommandInv, ProcInv
  <2>3. IgnoredInv
    BY DEF Init, IgnoredInv
  <2>4. DownInv /\ FailuresAreReported
    BY <1>1, <1>2 DEF DownInv, FailuresAreReported
  <2> QED
    BY <2>2, <2>3, <2>4 DEF ServiceInv
<1> QED
  BY <1>3, <1>4, <1>5 DEF IInv

\* A step of the tree alone, taken when no command runs.
LEMMA QuietKeeps ==
  ASSUME IInv, TreeTypeOK', TreeInv',
         UNCHANGED <<cmdVars, opts, upVars, svcVars, interrupts>>,
         submit' \subseteq Artifacts, exchange' \subseteq Artifacts,
         stage # "ended", \A c \in Commands : cmd[c] # "running",
         \A t \in {"run", "down"} : status'[t] = "success" => status[t] = "success",
         stage' \in {"validate", "repo", "check", "target", "snapshots", "enter", "tree", "post",
                     "ended"},
         exit' \in {"none", "0", "1", "124", "interrupt"}
  PROVE  IInv'
<1>1. /\ cmd' = cmd /\ live' = live /\ code' = code /\ result' = result /\ up' = up
      /\ cont' = cont /\ dies' = dies /\ ignored' = ignored /\ blind' = blind
  BY DEF cmdVars, upVars, svcVars
<1>2. TypeOK'
  <2>1. CommandTypeOK'
    BY DEF IInv, TypeOK, CommandTypeOK, cmdVars
  <2> QED
    BY <2>1 DEF IInv, TypeOK, upVars, svcVars
<1>3. CommandInv'
  <2>1. NothingRuns' = NothingRuns
    BY <1>1 DEF NothingRuns, Running
  <2>2. \A c \in Commands : ProcInv(c)'
    BY <1>1 DEF IInv, ServiceInv, CommandInv, ProcInv
  <2>3. \A c \in Commands : cmd[c] # "left"
    BY DEF IInv, ServiceInv, CommandInv
  <2>4. cmd["up"] # "running"
    BY ComposeRunAssumption
  <2> QED
    BY <1>1, <2>1, <2>2, <2>3, <2>4 DEF IInv, ServiceInv, CommandInv
<1>4. IgnoredInv'
  BY <1>1 DEF IInv, ServiceInv, IgnoredInv, Succeeded, FailedFirst
<1>5. DownInv'
  BY <1>1 DEF IInv, ServiceInv, DownInv, Running
<1>6. FailuresAreReported'
  BY <1>1 DEF IInv, ServiceInv, FailuresAreReported, FailedFirst
<1> QED
  BY <1>2, <1>3, <1>4, <1>5, <1>6 DEF IInv, ServiceInv

\* No command runs unless its task does.
LEMMA Idle ==
  ASSUME IInv, Current \notin {"run", "build"}
  PROVE  \A c \in Commands : cmd[c] # "running"
BY ComposeRunAssumption DEF IInv, ServiceInv, CommandInv, TaskOf

\* What is true while the task of docker compose up runs.
LEMMA RunRuns ==
  ASSUME IInv, Current \in Tasks
  PROVE  /\ status[Current] = "in_progress" /\ frames # <<>> /\ stage = "tree" /\ exit = "none"
         /\ Current \in {"run", "build"} => status["down"] \in {"absent", "pending"}
<1>1. Current # NoTask /\ TypeOK /\ TreeInv
  BY TaskTreeAssumption DEF IInv
<1>2. /\ frames # <<>> /\ status[Current] = "in_progress"
      /\ \/ /\ Len(frames) = 1 /\ Top.phase = "subtasks"
            /\ Current \in {"prepare", "run"}
         \/ /\ Len(frames) = 1 /\ Top.phase = "cleanup"
            /\ Current \in {"logs", "down"}
         \/ /\ Len(frames) = 2 /\ Top.phase = "subtasks"
            /\ Current \in ToSet(PrepareTasks)
         \/ /\ Len(frames) = 3 /\ Top.phase = "subtasks"
            /\ Current \in ToSet(SharedTasks)
  BY <1>1, WhichTask
<1>3. TopShape
  BY <1>1, <1>2, TopFacts
<1>4. ASSUME Current \in {"run", "build"} PROVE frames[1].phase = "subtasks"
  <2>1. CASE Len(frames) = 1
    BY <1>2, <1>3, <1>4, <2>1 DEF TopShape
  <2>2. CASE Len(frames) # 1
    <3>1. 1 \in DOMAIN frames /\ 1 # Len(frames)
      BY <1>3, <2>2 DEF TopShape
    <3> QED
      BY <1>3, <3>1 DEF TopShape
  <2> QED
    BY <2>1, <2>2
<1> QED
  BY <1>1, <1>2, <1>3, <1>4 DEF TopShape, TreeInv, LastInv

\* The steps before and after the tree.
LEMMA StageKeeps ==
  ASSUME IInv,
         Validate \/ InitRepo \/ CheckBuilt \/ BuildTarget \/ CheckSnapshots \/ Finish
  PROVE  IInv'
<1> DEFINE early == {"validate", "repo", "check", "target", "snapshots", "enter"}
<1>1. /\ UNCHANGED <<treeVars, cmdVars, opts, dirVars, upVars, svcVars, interrupts>>
      /\ \/ stage \in early /\ stage' \in early /\ exit' = exit
         \/ stage \in early /\ stage' = "ended" /\ exit' = "1"
         \/ /\ stage = "post" /\ stage' = "ended"
            /\ exit' = IF outcome[1].success THEN "0"
                       ELSE IF outcome[1].interrupted THEN "124" ELSE "1"
  <2>1. CASE Validate
    BY <2>1 DEF Validate, PassOrQuit, Quit
  <2>2. CASE InitRepo
    BY <2>2 DEF InitRepo, PassOrQuit, Quit
  <2>3. CASE CheckBuilt
    BY <2>3 DEF CheckBuilt
  <2>4. CASE BuildTarget
    BY <2>4 DEF BuildTarget, PassOrQuit, Quit
  <2>5. CASE CheckSnapshots
    BY <2>5 DEF CheckSnapshots, Quit
  <2>6. CASE Finish
    BY <2>6 DEF Finish, Quit
  <2> QED
    BY <2>1, <2>2, <2>3, <2>4, <2>5, <2>6
<1>2. /\ subtasks' = subtasks /\ cleanups' = cleanups /\ status' = status /\ frames' = frames
      /\ outcome' = outcome
  BY <1>1 DEF treeVars
<1>3. frames = <<>> /\ exit = "none" /\ stage \notin {"tree", "ended"}
  BY <1>1 DEF IInv, TreeInv, StageInv
<1>4. StageInv'
  BY <1>1, <1>2, <1>3 DEF IInv, TreeInv, StageInv
<1>5. TreeTypeOK' /\ TreeInv'
  <2>1. UNCHANGED <<treeVars, opts>> /\ TypeOK /\ TreeInv
    BY <1>1 DEF IInv
  <2> QED
    BY <1>3, <1>4, <2>1, SameTree
<1>6. \A c \in Commands : cmd[c] # "running"
  BY <1>3, Idle, TaskTreeAssumption, ComposeRunAssumption DEF Current, NamedTasks
<1>7. submit' = submit /\ exchange' = exchange /\ submit \subseteq Artifacts /\ exchange \subseteq Artifacts
  BY <1>1 DEF dirVars, IInv, TypeOK
<1>8. /\ exit' \in {"none", "0", "1", "124", "interrupt"}
      /\ stage' \in {"validate", "repo", "check", "target", "snapshots", "enter", "tree", "post", "ended"}
  BY <1>1, <1>3
<1> QED
  BY <1>1, <1>2, <1>3, <1>5, <1>6, <1>7, <1>8, QuietKeeps

\* The steps of the tree.
LEMMA TreeKeeps ==
  ASSUME IInv, EnterTree \/ RunTreeStep
  PROVE  IInv'
<1>1. TypeOK /\ TreeInv /\ Current = NoTask /\ stage \in {"enter", "tree"} /\ exit = "none"
  <2>1. CASE EnterTree
    BY <2>1 DEF EnterTree, IInv, TreeInv, StageInv, Current
  <2>2. CASE RunTreeStep
    BY <2>2 DEF RunTreeStep, TreeStep, StartTask, BeginCleanup, StartCleanupTask, EndRun,
                IInv, TreeInv, StageInv, Current
  <2> QED
    BY <2>1, <2>2
<1>2. \A c \in Commands : cmd[c] # "running"
  BY <1>1, Idle, TaskTreeAssumption, ComposeRunAssumption DEF NamedTasks
<1>3. UNCHANGED <<cmdVars, opts, dirVars, upVars, svcVars, interrupts, exit>>
  BY DEF EnterTree, RunTreeStep, restVars
<1>4. stage' \in {"tree", "post"}
  BY DEF EnterTree, RunTreeStep
<1>5. /\ TreeTypeOK' /\ TreeInv'
      /\ \A t \in {"run", "down"} : status'[t] = "success" => status[t] = "success"
  <2>0. "run" \in Tasks /\ "down" \in Tasks
    BY ComposeRunAssumption DEF NamedTasks
  <2>1. CASE EnterTree
    BY <1>1, <2>0, <2>1, EnterKeeps
  <2>2. ASSUME RunTreeStep, outcome' = outcome, frames # <<>>
        PROVE  UNCHANGED <<stage, opts, exit>>
    <3>1. outcome = <<>> /\ stage = "tree"
      BY <2>2 DEF IInv, TreeInv, StageInv
    <3> QED
      BY <1>3, <2>2, <3>1 DEF RunTreeStep
  <2>3. CASE RunTreeStep /\ StartTask
    <3>1. /\ frames # <<>> /\ Top.running = NoTask /\ Top.phase = "subtasks" /\ Top.result = Ok
          /\ StartFirst(subtasks[Top.parent]) /\ outcome' = outcome
      BY <2>3 DEF StartTask, StartFirst, Stopped
    <3>2. UNCHANGED <<stage, opts, exit>>
      BY <2>2, <2>3, <3>1
    <3>3. /\ TreeTypeOK' /\ TreeInv'
          /\ \A t \in Tasks : status'[t] # status[t] => status'[t] = "in_progress"
      BY <1>1, <3>1, <3>2, StartKeeps
    <3> QED
      BY <2>0, <3>3
  <2>4. CASE RunTreeStep /\ StartCleanupTask
    <3>1. /\ frames # <<>> /\ Top.running = NoTask /\ Top.phase = "cleanup"
          /\ StartFirst(cleanups[Top.parent]) /\ outcome' = outcome
      BY <2>4 DEF StartCleanupTask, StartFirst
    <3>2. UNCHANGED <<stage, opts, exit>>
      BY <2>2, <2>4, <3>1
    <3>3. /\ TreeTypeOK' /\ TreeInv'
          /\ \A t \in Tasks : status'[t] # status[t] => status'[t] = "in_progress"
      BY <1>1, <3>1, <3>2, StartKeeps
    <3> QED
      BY <2>0, <3>3
  <2>5. CASE RunTreeStep /\ BeginCleanup
    <3>1. frames # <<>> /\ outcome' = outcome
      BY <2>5 DEF BeginCleanup
    <3>2. UNCHANGED <<stage, opts, exit>>
      BY <2>2, <2>5, <3>1
    <3> QED
      BY <1>1, <2>5, <3>2, CleanupKeeps
  <2>6. CASE RunTreeStep /\ EndRun
    <3>1. stage' = (IF outcome' # <<>> THEN "post" ELSE "tree") /\ UNCHANGED <<opts, exit>>
      BY <1>3, <2>6 DEF RunTreeStep
    <3>2. CASE Len(frames) = 1
      BY <1>1, <2>6, <3>1, <3>2, EndRootKeeps
    <3>3. CASE Len(frames) # 1
      BY <1>1, <2>0, <2>6, <3>1, <3>3, EndInnerKeeps
    <3> QED
      BY <3>2, <3>3
  <2> QED
    BY <2>1, <2>3, <2>4, <2>5, <2>6 DEF RunTreeStep, TreeStep
<1>6. submit' \subseteq Artifacts /\ exchange' \subseteq Artifacts
  BY <1>3 DEF dirVars, IInv, TypeOK
<1> QED
  BY <1>1, <1>2, <1>3, <1>4, <1>5, <1>6, QuietKeeps

\* The tasks that leave the commands and the containers alone.
LEMMA TaskKeeps ==
  ASSUME IInv,
         \/ Prepare
         \/ CleanShared
         \/ CleanExchange
         \/ CopyInputs
         \/ CleanSharedDir
         \/ PrepareCompose
         \/ CaptureLogs
         \/ BuildReturns
  PROVE  IInv'
<1>1. TypeOK /\ TreeInv /\ NamedTasks \subseteq Tasks /\ NoTask \notin Tasks
  BY ComposeRunAssumption, TaskTreeAssumption DEF IInv
<1>2. /\ Current \in Tasks /\ Current \notin {"run", "down"}
      /\ UNCHANGED <<cmdVars, stage, restVars, upVars, svcVars>>
      /\ submit' = submit
      /\ exchange' \in {exchange, {}, exchange \union {"input"}}
  <2>1. \A t \in ToSet(SharedTasks) : t \in Tasks /\ t \notin NamedTasks
    BY ComposeRunAssumption DEF ToSet
  <2>2. CASE CleanSharedDir
    BY <2>1, <2>2 DEF CleanSharedDir, Simple, dirVars, NamedTasks
  <2>3. CASE CleanExchange \/ CopyInputs
    BY <1>1, <2>3 DEF CleanExchange, CopyInputs, NamedTasks
  <2>4. CASE Prepare \/ CleanShared \/ PrepareCompose \/ CaptureLogs \/ BuildReturns
    BY <1>1, <2>4 DEF Prepare, CleanShared, PrepareCompose, CaptureLogs, BuildReturns, Simple,
                      dirVars, NamedTasks
  <2> QED
    BY <2>2, <2>3, <2>4
<1>3. \A c \in Commands : cmd[c] # "running"
  <2>1. CASE Current # "build"
    BY <1>2, <2>1, Idle
  <2>2. CASE Current = "build"
    <3>1. BuildReturns
      <4>1. \A t \in ToSet(SharedTasks) : t \notin NamedTasks
        BY ComposeRunAssumption DEF ToSet
      <4> QED
        BY <2>2, <4>1 DEF Prepare, CleanShared, CleanExchange, CopyInputs, CleanSharedDir,
                          PrepareCompose, CaptureLogs, Simple, NamedTasks
    <3> QED
      BY <2>2, <3>1, ComposeRunAssumption
         DEF BuildReturns, IInv, ServiceInv, CommandInv, TaskOf
  <2> QED
    BY <2>1, <2>2
<1>4. stage = "tree" /\ exit = "none"
  BY <1>2, RunRuns
<1>5. UNCHANGED <<stage, opts, exit>>
  BY <1>2 DEF restVars
<1>6. CASE Prepare \/ CleanShared
  <2>1. /\ TreeTypeOK' /\ TreeInv'
        /\ \A t \in Tasks : status'[t] # status[t] => status'[t] = "pending"
    <3>1. CASE Prepare
      BY <1>1, <1>5, <3>1, AddKeeps DEF Prepare
    <3>2. CASE CleanShared
      BY <1>1, <1>5, <3>2, AddKeeps DEF CleanShared
    <3> QED
      BY <1>6, <3>1, <3>2
  <2>2. \A t \in {"run", "down"} : status'[t] = "success" => status[t] = "success"
    BY <1>1, <2>1 DEF NamedTasks
  <2>3. submit' \subseteq Artifacts /\ exchange' \subseteq Artifacts
    BY <1>2 DEF IInv, TypeOK, Artifacts
  <2> QED
    BY <1>2, <1>3, <1>4, <2>1, <2>2, <2>3, QuietKeeps DEF restVars
<1>7. CASE ~(Prepare \/ CleanShared)
  <2>1. PICK r \in Results : /\ TaskReturns(r) /\ Current \notin {"prepare", "shared"}
                             /\ r.success /\ r # Ok => Current = "build"
    <3>1. Ok \in Results /\ Failed \in Results /\ ~Failed.success
      BY DEF Ok, Failed, Results, Reasons
    <3>2. CASE CleanSharedDir
      <4>1. \A t \in ToSet(SharedTasks) : t \notin NamedTasks
        BY ComposeRunAssumption DEF ToSet
      <4> QED
        BY <3>1, <3>2, <4>1 DEF CleanSharedDir, Simple, NamedTasks
    <3>3. CASE CleanExchange \/ CopyInputs \/ PrepareCompose \/ CaptureLogs
      BY <3>1, <3>3 DEF CleanExchange, CopyInputs, PrepareCompose, CaptureLogs, Simple
    <3>4. CASE BuildReturns
      <4>1. AsResult(result["build"]) \in Results
        BY DEF AsResult, Interrupted, Ok, Failed, Results, Reasons
      <4> QED
        BY <3>4, <4>1 DEF BuildReturns
    <3> QED
      BY <1>7, <3>2, <3>3, <3>4
  <2>2. /\ TreeTypeOK' /\ TreeInv'
        /\ \A t \in Tasks : status'[t] = IF t = Current THEN StatusAfter(r) ELSE status[t]
    BY <1>1, <1>2, <1>5, <2>1, ReturnKeeps
  <2>3. \A t \in {"run", "down"} : status'[t] = "success" => status[t] = "success"
    BY <1>1, <1>2, <2>2 DEF NamedTasks
  <2>4. submit' \subseteq Artifacts /\ exchange' \subseteq Artifacts
    BY <1>2 DEF IInv, TypeOK, Artifacts
  <2> QED
    BY <1>2, <1>3, <1>4, <2>2, <2>3, <2>4, QuietKeeps DEF restVars
<1> QED
  BY <1>6, <1>7

\* What an operation on a command leaves true of every command.
CommandKept(c, k) ==
  /\ CommandTypeOK' /\ \A b \in Commands : ProcInv(b)'
  /\ \A b \in Commands :
       /\ cmd[b] = "done" => cmd'[b] = "done"
       /\ code'[b] = "zero" => code[b] = "zero" \/ (b = c /\ ProcessExits(c, k) /\ k = "zero")
       /\ result'[b] = "ok" => result[b] = "ok" \/ code[b] = "zero"
       /\ result'[b] # "error" => result[b] # "error"
       /\ b # c => cmd'[b] = cmd[b] /\ live'[b] = live[b] /\ result'[b] = result[b]

\* The operations of module Command keep the invariant of each command.
LEMMA CommandKeeps ==
  ASSUME CommandTypeOK, \A b \in Commands : ProcInv(b),
         NEW c \in Commands, NEW d \in BOOLEAN, NEW e \in BOOLEAN, NEW seen \in BOOLEAN,
         NEW k \in {"zero", "other"}
  PROVE  /\ StartCommand(c, d, e) => CommandKept(c, k)
         /\ DeadlineStops(c) \/ ArtifactStops(c, seen) \/ UserStops(c) \/ TriggerExit(seen)
              \/ DeadlinePasses => CommandKept(c, k) /\ cmd' = cmd /\ live' = live
         /\ ReturnCommand(c) \/ BreakCommand(c) \/ LeaveCommand(c) =>
              CommandKept(c, k) /\ live' = live /\ cmd'[c] # "running"
         /\ ReturnCommand(c) \/ BreakCommand(c) => cmd'[c] = "done"
         /\ ProcessExits(c, k) =>
              CommandKept(c, k) /\ cmd' = cmd /\ \A b \in Commands : live'[b] => live[b]
<1> USE DEF CommandTypeOK, ProcInv
<1>2. ASSUME DeadlineStops(c) \/ ArtifactStops(c, seen) \/ UserStops(c)
      PROVE  CommandKept(c, k) /\ cmd' = cmd /\ live' = live
  <2>1. UNCHANGED <<cmd, live, code, limited, result, triggered, expired>>
    BY <1>2 DEF DeadlineStops, ArtifactStops, UserStops
  <2>2. asked' \in [Commands -> SUBSET Stops] /\ watched' \in [Commands -> BOOLEAN]
    <3>1. asked[c] \in SUBSET Stops
      OBVIOUS
    <3>2. \A w \in Stops : asked[c] \union {w} \in SUBSET Stops /\ {w} \in SUBSET Stops
      BY <3>1
    <3>3. CASE DeadlineStops(c)
      <4>1. PICK a \in SUBSET Stops : asked' = [asked EXCEPT ![c] = a]
        BY <3>2, <3>3 DEF DeadlineStops, Stops
      <4>2. watched' \in [Commands -> BOOLEAN]
        BY <3>3 DEF DeadlineStops
      <4> QED
        BY <4>1, <4>2
    <3>4. CASE ArtifactStops(c, seen)
      BY <3>2, <3>4 DEF ArtifactStops, Stops
    <3>5. CASE UserStops(c)
      BY <3>2, <3>5 DEF UserStops, Stops
    <3> QED
      BY <1>2, <3>3, <3>4, <3>5
  <2> QED
    BY <2>1, <2>2 DEF CommandKept
<1>3. ASSUME TriggerExit(seen) \/ DeadlinePasses
      PROVE  CommandKept(c, k) /\ cmd' = cmd /\ live' = live
  BY <1>3 DEF TriggerExit, DeadlinePasses, CommandKept
<1>4. ASSUME NEW s \in {"done", "left"}, NEW r \in Outcomes, Ends(c, s, r),
             cmd[c] \in {"idle", "running"},
             UNCHANGED <<live, triggered, expired>>,
             s = "done" /\ r # "error" => ~live[c], s = "left" => r = "none",
             r = "ok" => code[c] = "zero"
      PROVE  CommandKept(c, k) /\ live' = live /\ cmd'[c] = s
  <2>1. CommandTypeOK' /\ cmd'[c] = s
    BY <1>4 DEF Ends
  <2>2. \A b \in Commands : ProcInv(b)'
    BY <1>4 DEF Ends
  <2>3. \A b \in Commands :
          /\ cmd[b] = "done" => cmd'[b] = "done"
          /\ code'[b] = "zero" => code[b] = "zero"
          /\ result'[b] = "ok" => result[b] = "ok" \/ code[b] = "zero"
          /\ result'[b] # "error" => result[b] # "error"
          /\ b # c => cmd'[b] = cmd[b] /\ live'[b] = live[b] /\ result'[b] = result[b]
    BY <1>4 DEF Ends
  <2> QED
    BY <1>4, <2>1, <2>2, <2>3 DEF CommandKept
<1>1. ASSUME StartCommand(c, d, e) PROVE CommandKept(c, k)
  <2>1. CASE Ends(c, "done", "error") /\ UNCHANGED live
    BY <1>1, <1>4, <2>1 DEF StartCommand, Outcomes
  <2>2. CASE /\ cmd' = [cmd EXCEPT ![c] = "running"]
             /\ live' = [live EXCEPT ![c] = TRUE]
             /\ limited' = [limited EXCEPT ![c] = d]
             /\ watched' = [watched EXCEPT ![c] = e]
             /\ UNCHANGED <<code, asked, result>>
    BY <1>1, <2>2 DEF StartCommand, CommandKept
  <2> QED
    BY <1>1, <2>1, <2>2 DEF StartCommand
<1>5. ASSUME ReturnCommand(c)
      PROVE  CommandKept(c, k) /\ live' = live /\ cmd'[c] = "done"
  <2>1. ResultOf(asked[c], code[c]) \in Outcomes
        /\ (ResultOf(asked[c], code[c]) = "ok" => code[c] = "zero")
    BY DEF ResultOf, Outcomes
  <2> QED
    BY <1>4, <1>5, <2>1 DEF ReturnCommand
<1>6. ASSUME BreakCommand(c)
      PROVE  CommandKept(c, k) /\ live' = live /\ cmd'[c] = "done"
  BY <1>4, <1>6 DEF BreakCommand, Outcomes
<1>7. ASSUME LeaveCommand(c)
      PROVE  CommandKept(c, k) /\ live' = live /\ cmd'[c] = "left"
  BY <1>4, <1>7 DEF LeaveCommand, Outcomes
<1>8. ASSUME ProcessExits(c, k)
      PROVE  CommandKept(c, k) /\ cmd' = cmd /\ \A b \in Commands : live'[b] => live[b]
  BY <1>8 DEF ProcessExits, CommandKept
<1> QED
  BY <1>1, <1>2, <1>3, <1>5, <1>6, <1>7, <1>8

\* A step that leaves the tree and the stage alone.
LEMMA TreeStays ==
  ASSUME IInv, UNCHANGED <<treeVars, opts, stage, exit>>
  PROVE  /\ TreeTypeOK' /\ TreeInv' /\ status' = status /\ frames' = frames
         /\ Current' = Current
<1>1. /\ subtasks' = subtasks /\ cleanups' = cleanups /\ status' = status /\ frames' = frames
      /\ outcome' = outcome /\ stage' = stage /\ exit' = exit /\ opts' = opts
  BY DEF treeVars
<1>2. StageInv'
  BY <1>1 DEF IInv, TreeInv, StageInv
<1>3. Current' = Current
  BY <1>1 DEF Current, Top, Last
<1> QED
  BY <1>1, <1>2, <1>3, SameTree DEF IInv

\* The types of what the commands and the tree leave alone.
LEMMA RunTypes ==
  ASSUME IInv, CommandTypeOK', TreeTypeOK', UNCHANGED runVars
  PROVE  TypeOK'
BY DEF IInv, TypeOK, runVars

\* The commands go on, in the tasks that run them.
LEMMA CommandsKeep ==
  ASSUME IInv,
         \/ RunBuild
         \/ UpCommand
         \/ Output
         \/ Monitor
         \/ Deadline
         \/ \E c \in Commands : Threads(c) \/ ProcessEnds(c)
  PROVE  IInv'
<1>0. /\ CommandTypeOK /\ (\A b \in Commands : ProcInv(b)) /\ Commands = {"build", "up"}
      /\ deadlineOn \in BOOLEAN /\ opts.early \in BOOLEAN /\ Seen \in BOOLEAN
      /\ cont \in [Services -> {"none", "up", "ok", "sig", "err", "gone"}]
  BY ComposeRunAssumption DEF IInv, TypeOK, TreeTypeOK, ServiceInv, CommandInv, Seen
<1>1. UNCHANGED <<treeVars, runVars>>
  BY DEF RunBuild, UpCommand, Output, Monitor, Deadline, Threads, ProcessEnds, runVars, restVars,
         dirVars, upVars, svcVars
<1>2. /\ opts' = opts /\ stage' = stage /\ exit' = exit /\ up' = up /\ cont' = cont
      /\ dies' = dies /\ ignored' = ignored /\ blind' = blind
  BY <1>1 DEF runVars
<1>3. /\ TreeTypeOK' /\ TreeInv' /\ status' = status /\ Current' = Current
  BY <1>1, <1>2, TreeStays
<1>4. PICK c \in Commands, k \in {"zero", "other"} :
        /\ CommandKept(c, k)
        /\ \/ Current = TaskOf(c) /\ (c = "up" => up = "command")
           \/ /\ \A b \in Commands : cmd'[b] = cmd[b] \/ cmd'[b] = "done"
              /\ \A b \in Commands : live'[b] => live[b]
        /\ \A b \in Commands : cmd'[b] = "left" => cmd[b] = "left"
        /\ c = "up" /\ ProcessExits(c, k) /\ k = "zero" => NothingRuns
  <2>1. ASSUME NEW c \in {"build", "up"}, Current = TaskOf(c), c = "up" => up = "command",
               StartCommand(c, deadlineOn, opts.early) \/ ReturnCommand(c)
        PROVE  /\ CommandKept(c, "other")
               /\ \A b \in Commands : cmd'[b] = "left" => cmd[b] = "left"
    <3>1. CASE StartCommand(c, deadlineOn, opts.early)
      <4>1. CommandKept(c, "other")
        BY <1>0, <3>1, CommandKeeps
      <4>2. cmd'[c] # "left"
        BY <1>0, <3>1 DEF StartCommand, Ends, CommandTypeOK
      <4> QED
        BY <1>0, <4>1, <4>2 DEF CommandKept
    <3>2. CASE ReturnCommand(c)
      <4>1. CommandKept(c, "other") /\ cmd'[c] = "done"
        BY <1>0, <3>2, CommandKeeps
      <4> QED
        BY <4>1 DEF CommandKept
    <3> QED
      BY <2>1, <3>1, <3>2
  <2>2. CASE RunBuild
    <3>1. /\ Current = "build"
          /\ \/ StartCommand("build", deadlineOn, opts.early)
             \/ ReturnCommand("build")
      BY <2>2 DEF RunBuild
    <3>2. /\ CommandKept("build", "other")
          /\ \A b \in Commands : cmd'[b] = "left" => cmd[b] = "left"
      BY <2>1, <3>1 DEF TaskOf
    <3> QED
      BY <1>0, <3>1, <3>2 DEF TaskOf
  <2>3. CASE UpCommand
    <3>1. /\ Current = "run" /\ up = "command"
          /\ \/ StartCommand("up", deadlineOn, opts.early)
             \/ ReturnCommand("up")
      BY <2>3 DEF UpCommand
    <3>2. /\ CommandKept("up", "other")
          /\ \A b \in Commands : cmd'[b] = "left" => cmd[b] = "left"
      BY <2>1, <3>1 DEF TaskOf
    <3> QED
      BY <1>0, <3>1, <3>2 DEF TaskOf
  <2>4. CASE Output
    <3>1. PICK c \in Commands : BreakCommand(c)
      BY <2>4 DEF Output, Active
    <3>2. CommandKept(c, "other") /\ live' = live /\ cmd'[c] = "done"
      BY <1>0, <3>1, CommandKeeps
    <3> QED
      BY <3>2 DEF CommandKept
  <2>5. CASE Monitor \/ Deadline
    <3>1. CommandKept("up", "other") /\ cmd' = cmd /\ live' = live
      BY <1>0, <2>5, CommandKeeps DEF Monitor, Deadline
    <3> QED
      BY <1>0, <3>1
  <2>6. ASSUME NEW c \in Commands, Threads(c)
        PROVE  CommandKept(c, "other") /\ cmd' = cmd /\ live' = live
    BY <1>0, <2>6, CommandKeeps DEF Threads
  <2>7. ASSUME NEW c \in Commands, ProcessEnds(c)
        PROVE  \E k \in {"zero", "other"} :
                 /\ CommandKept(c, k) /\ cmd' = cmd /\ \A b \in Commands : live'[b] => live[b]
                 /\ c = "up" /\ k = "zero" => NothingRuns
    <3>1. PICK k \in {"zero", "other"} :
            /\ ProcessExits(c, k)
            /\ c = "up" /\ k = "zero" => Running = {} /\ cont # [s \in Services |-> "none"]
      BY <2>7 DEF ProcessEnds
    <3>2. c = "up" /\ k = "zero" => NothingRuns
      BY <1>0, <3>1 DEF NothingRuns
    <3>3. CommandKept(c, k) /\ cmd' = cmd /\ \A b \in Commands : live'[b] => live[b]
      BY <1>0, <3>1, CommandKeeps
    <3> QED
      BY <3>2, <3>3
  <2> QED
    BY <2>2, <2>3, <2>4, <2>5, <2>6, <2>7
<1>5. TypeOK'
  BY <1>1, <1>3, <1>4, RunTypes DEF CommandKept
<1>6. NothingRuns' = NothingRuns /\ Running' = Running
  BY <1>2 DEF NothingRuns, Running
<1>7. Current \in {"run", "build"} =>
        /\ status[Current] = "in_progress" /\ status["down"] \in {"absent", "pending"}
  BY RunRuns, ComposeRunAssumption DEF NamedTasks
<1>8. CommandInv'
  <2>1. \A b \in Commands : cmd'[b] = "left" => cmd[b] = "left"
    BY <1>4
  <2>2. ASSUME NEW b \in Commands, cmd'[b] = "running"
        PROVE  Current = TaskOf(b) /\ (b = "up" => up = "command")
    <3>1. cmd[b] = "running" \/ b = c
      BY <1>4, <2>2 DEF CommandKept
    <3>2. ASSUME cmd[b] = "running" PROVE Current = TaskOf(b) /\ (b = "up" => up = "command")
      BY <3>2 DEF IInv, ServiceInv, CommandInv
    <3> QED
      BY <1>4, <2>2, <3>1, <3>2
  <2>3. cmd["up"] = "done" => cmd'["up"] = "done"
    BY <1>0, <1>4 DEF CommandKept
  <2>4. code'["up"] = "zero" \/ result'["up"] = "ok" => NothingRuns
    BY <1>0, <1>4 DEF CommandKept, IInv, ServiceInv, CommandInv
  <2>5. \A b \in Commands : ProcInv(b)'
    BY <1>4 DEF CommandKept
  <2> QED
    BY <1>0, <1>2, <1>3, <1>6, <2>1, <2>2, <2>3, <2>4, <2>5
       DEF IInv, ServiceInv, CommandInv, TaskOf
<1>9. IgnoredInv'
  BY <1>2 DEF IInv, ServiceInv, IgnoredInv, Succeeded, FailedFirst
<1>10. DownInv'
  <2>1. status["down"] = "success" => \A b \in Commands : live'[b] => live[b]
    BY <1>4, <1>7 DEF TaskOf
  <2>2. result'["up"] # "error" => result["up"] # "error"
    BY <1>0, <1>4 DEF CommandKept
  <2> QED
    BY <1>0, <1>2, <1>3, <1>6, <2>1, <2>2 DEF IInv, ServiceInv, DownInv, CommandTypeOK
<1>11. FailuresAreReported'
  <2>1. result'["up"] = "ok" => result["up"] = "ok" \/ code["up"] = "zero"
    BY <1>0, <1>4 DEF CommandKept
  <2>2. code["up"] = "zero" => status["run"] # "success"
    BY <1>0, <1>7 DEF IInv, ServiceInv, CommandInv, ProcInv, TaskOf
  <2> QED
    BY <1>2, <1>3, <2>1, <2>2 DEF IInv, ServiceInv, FailuresAreReported, FailedFirst
<1> QED
  BY <1>3, <1>5, <1>8, <1>9, <1>10, <1>11 DEF IInv, ServiceInv

\* The log of die events only grows: what it tells of a failure before the first success does
\* not change any more once there is a success.
LEMMA LogGrows ==
  ASSUME NEW E, dies \in Seq(E), NEW ev \in Seq(E), dies' = dies \o ev
  PROVE  /\ dies' \in Seq(E)
         /\ Succeeded => Succeeded' /\ \A h \in Helpers : FailedFirst(h)' => FailedFirst(h)
<1>1. /\ dies' \in Seq(E) /\ Len(dies) \in Nat /\ Len(dies') \in Nat /\ Len(dies) <= Len(dies')
      /\ \A i \in 1 .. Len(dies) : dies'[i] = dies[i]
  OBVIOUS
<1>2. ASSUME Succeeded
      PROVE  Succeeded' /\ \A h \in Helpers : FailedFirst(h)' => FailedFirst(h)
  <2>1. PICK w \in 1 .. Len(dies) : dies[w].svc \in Primaries /\ dies[w].code = "ok"
    BY <1>2 DEF Succeeded
  <2>2. w \in 1 .. Len(dies') /\ dies'[w].svc \in Primaries /\ dies'[w].code = "ok"
    BY <1>1, <2>1
  <2>3. ASSUME NEW h \in Helpers, FailedFirst(h)' PROVE FailedFirst(h)
    <3>1. PICK i \in 1 .. Len(dies') :
            /\ dies'[i] = [svc |-> h, code |-> "err"]
            /\ \A j \in 1 .. i : ~(dies'[j].svc \in Primaries /\ dies'[j].code = "ok")
      BY <2>3 DEF FailedFirst
    <3>2. i < w
      BY <1>1, <2>1, <2>2, <3>1
    <3>3. i \in 1 .. Len(dies) /\ \A j \in 1 .. i : j \in 1 .. Len(dies)
      BY <1>1, <2>1, <3>1, <3>2
    <3> QED
      BY <1>1, <3>1, <3>3 DEF FailedFirst
  <2> QED
    BY <2>2, <2>3 DEF Succeeded
<1> QED
  BY <1>1, <1>2

\* A helper that failed before the first success is not among those whose exit is ignored.
LEMMA IgnoredFacts ==
  ASSUME NEW E, dies \in Seq(E), NEW n \in 1 .. Len(dies)
  PROVE  LET h == IgnoredHelperExits(SubSeq(dies, 1, n))
         IN h \subseteq Helpers /\ (h # {} => Succeeded) /\ \A s \in h : ~FailedFirst(s)
<1> DEFINE log       == SubSeq(dies, 1, n)
           succeeded == {i \in 1 .. Len(log) : log[i].svc \in Primaries /\ log[i].code = "ok"}
           first     == CHOOSE i \in succeeded : \A j \in succeeded : i <= j
<1>1. /\ Len(log) = n /\ n \in Nat /\ n <= Len(dies) /\ Len(dies) \in Nat
      /\ \A i \in 1 .. n : log[i] = dies[i]
  OBVIOUS
<1> HIDE DEF log
<1>2. CASE succeeded = {}
  BY <1>2 DEF IgnoredHelperExits, log
<1>3. CASE succeeded # {}
  <2>1. first \in succeeded
    <3>1. succeeded \subseteq Nat
      BY <1>1
    <3> HIDE DEF succeeded
    <3>2. \E i \in succeeded : \A j \in succeeded : i <= j
      <4>1. PICK i \in succeeded : \A j \in succeeded : <<j, i>> \notin OpToRel(<, Nat)
        BY <1>3, <3>1, NatLessThanWellFounded, WFMin
      <4>2. \A j \in succeeded : ~(j < i)
        BY <3>1, <4>1 DEF OpToRel
      <4> QED
        BY <3>1, <4>2
    <3> QED
      BY <3>2
  <2>2. /\ first \in 1 .. n /\ dies[first].svc \in Primaries /\ dies[first].code = "ok"
        /\ first \in 1 .. Len(dies)
    BY <1>1, <2>1
  <2>3. IgnoredHelperExits(log) =
          {h \in Helpers : /\ \E j \in first .. Len(log) : log[j] = [svc |-> h, code |-> "sig"]
                           /\ \A j \in 1 .. first : log[j].svc = h => log[j].code = "ok"}
    BY <1>3 DEF IgnoredHelperExits
  <2> HIDE DEF first, succeeded
  <2>4. ASSUME NEW h \in IgnoredHelperExits(log), FailedFirst(h) PROVE FALSE
    <3>1. PICK i \in 1 .. Len(dies) :
            /\ dies[i] = [svc |-> h, code |-> "err"]
            /\ \A j \in 1 .. i : ~(dies[j].svc \in Primaries /\ dies[j].code = "ok")
      BY <2>4 DEF FailedFirst
    <3>2. i < first
      BY <2>2, <3>1
    <3>3. i \in 1 .. first /\ i \in 1 .. n /\ log[i] = [svc |-> h, code |-> "err"]
      BY <1>1, <2>2, <3>1, <3>2
    <3> QED
      BY <2>3, <3>3
  <2>5. Succeeded
    BY <2>2 DEF Succeeded
  <2> QED
    BY <2>3, <2>4, <2>5 DEF log
<1> QED
  BY <1>2, <1>3

\* docker_compose_up goes on: the tree and the commands stay.
LEMMA UpGoesOn ==
  ASSUME IInv, Current = "run",
         UNCHANGED <<treeVars, cmdVars, stage, restVars, dirVars, blind, crashes>>,
         up' \in {"start", "command", "stop", "collect", "check", "done"},
         collecting' \in BOOLEAN, ignored' \subseteq Helpers,
         cont' \in [Services -> {"none", "up", "ok", "sig", "err", "gone"}],
         dies' \in Seq([svc : Services, code : {"ok", "sig", "err"}]),
         cmd["up"] = "running" => up' = "command",
         up' \in {"collect", "check", "done"} => cmd["up"] = "done",
         NothingRuns => NothingRuns', IgnoredInv'
  PROVE  IInv'
<1>1. /\ TreeTypeOK' /\ TreeInv' /\ status' = status /\ Current' = Current
  BY TreeStays DEF restVars
<1>2. /\ cmd' = cmd /\ live' = live /\ code' = code /\ result' = result /\ stage' = stage
      /\ opts' = opts /\ exit' = exit /\ interrupts' = interrupts /\ crashes' = crashes
      /\ blind' = blind /\ submit' = submit /\ exchange' = exchange
  BY DEF cmdVars, restVars, dirVars
<1>3. TypeOK'
  <2>1. CommandTypeOK'
    BY DEF IInv, TypeOK, CommandTypeOK, cmdVars
  <2> QED
    BY <1>1, <1>2, <2>1 DEF IInv, TypeOK
<1>4. CommandInv'
  <2>1. \A c \in Commands : ProcInv(c)'
    BY <1>2 DEF IInv, ServiceInv, CommandInv, ProcInv
  <2>2. \A c \in Commands : /\ cmd'[c] = "running" => Current' = TaskOf(c)
                            /\ cmd'[c] = "left" => stage' = "ended"
    BY <1>1, <1>2 DEF IInv, ServiceInv, CommandInv
  <2> QED
    BY <1>2, <2>1, <2>2 DEF IInv, ServiceInv, CommandInv, TaskOf
<1>5. status["run"] = "in_progress" /\ status["down"] \in {"absent", "pending"}
  BY RunRuns, ComposeRunAssumption DEF NamedTasks
<1>6. DownInv' /\ FailuresAreReported'
  BY <1>1, <1>5 DEF DownInv, FailuresAreReported
<1> QED
  BY <1>1, <1>3, <1>4, <1>6 DEF IInv, ServiceInv

\* The steps of docker_compose_up before it returns.
LEMMA UpKeeps ==
  ASSUME IInv, UpStart \/ UpStop \/ UpCollect
  PROVE  IInv'
<1> DEFINE Die == [svc : Services, code : {"ok", "sig", "err"}]
<1>1. /\ cont \in [Services -> {"none", "up", "ok", "sig", "err", "gone"}]
      /\ dies \in Seq(Die) /\ ignored \subseteq Helpers /\ collecting \in BOOLEAN
      /\ IgnoredInv /\ CommandInv
      /\ Primaries \subseteq Services /\ Helpers \subseteq Services /\ IsFiniteSet(Services)
  BY ComposeRunAssumption DEF IInv, TypeOK, ServiceInv, Services
<1>2. CASE UpStart
  <2>1. /\ Current = "run" /\ up = "start" /\ up' = "command" /\ collecting' \in BOOLEAN
        /\ UNCHANGED <<treeVars, cmdVars, stage, restVars, dirVars, blind, crashes>>
        /\ ignored' = ignored /\ cont' = cont /\ dies' = dies
    BY <1>2 DEF UpStart, svcVars
  <2>2. IgnoredInv' /\ (NothingRuns => NothingRuns')
    BY <1>1, <2>1 DEF IgnoredInv, Succeeded, FailedFirst, NothingRuns, Running
  <2> QED
    BY <1>1, <2>1, <2>2, UpGoesOn DEF CommandInv
<1>3. CASE UpStop
  <2>1. /\ Current = "run" /\ up' = "collect" /\ cmd["up"] = "done"
        /\ UNCHANGED <<treeVars, cmdVars, stage, restVars, dirVars, blind, crashes>>
        /\ ignored' = ignored /\ collecting' = collecting
    BY <1>3 DEF UpStop
  <2>0. PICK stopped \in {{}, Running} : \E ex \in [stopped -> {"ok", "sig"}] :
          /\ cont' = [s \in Services |-> IF s \in stopped THEN ex[s] ELSE cont[s]]
          /\ \E order \in SetToSeqs({s \in stopped : Kept(s, ex[s])}) :
               dies' = dies \o [i \in 1 .. Len(order) |->
                                  [svc |-> order[i], code |-> ex[order[i]]]]
    BY <1>3 DEF UpStop
  <2>2. PICK ex \in [stopped -> {"ok", "sig"}] :
          /\ cont' = [s \in Services |-> IF s \in stopped THEN ex[s] ELSE cont[s]]
          /\ \E order \in SetToSeqs({s \in stopped : Kept(s, ex[s])}) :
               dies' = dies \o [i \in 1 .. Len(order) |->
                                  [svc |-> order[i], code |-> ex[order[i]]]]
    BY <2>0
  <2> DEFINE kept == {s \in stopped : Kept(s, ex[s])}
  <2>3. PICK order \in SetToSeqs(kept) :
          dies' = dies \o [i \in 1 .. Len(order) |-> [svc |-> order[i], code |-> ex[order[i]]]]
    BY <2>2
  <2>4. stopped \subseteq Services /\ stopped \subseteq Running
    BY <2>2 DEF Running
  <2>5. kept \subseteq stopped /\ Cardinality(kept) \in Nat
    BY <1>1, <2>4, FS_Subset, FS_CardinalityType
  <2>6. order \in [1 .. Cardinality(kept) -> kept]
    BY <2>3 DEF SetToSeqs
  <2> HIDE DEF kept
  <2>7. Len(order) = Cardinality(kept) /\ order \in Seq(kept)
    BY <2>5, <2>6
  <2> DEFINE ev == [i \in 1 .. Len(order) |-> [svc |-> order[i], code |-> ex[order[i]]]]
  <2>8. ev \in Seq(Die)
    <3>1. \A i \in 1 .. Len(order) : [svc |-> order[i], code |-> ex[order[i]]] \in Die
      BY <2>2, <2>4, <2>5, <2>6, <2>7
    <3> HIDE DEF Die
    <3>2. Len(order) \in Nat
      BY <2>5, <2>7
    <3> QED
      BY <3>1, <3>2
  <2>9. dies' = dies \o ev
    BY <2>3
  <2> HIDE DEF ev, Die
  <2>10. /\ dies' \in Seq(Die)
         /\ Succeeded => Succeeded' /\ \A h \in Helpers : FailedFirst(h)' => FailedFirst(h)
    BY <1>1, <2>8, <2>9, LogGrows
  <2>11. IgnoredInv'
    BY <1>1, <2>1, <2>10 DEF IgnoredInv
  <2>12. cont' \in [Services -> {"none", "up", "ok", "sig", "err", "gone"}]
    BY <1>1, <2>2, <2>4
  <2>13. NothingRuns => NothingRuns'
    <3>1. ASSUME NothingRuns PROVE cont' = cont
      BY <1>1, <2>2, <2>4, <3>1 DEF NothingRuns
    <3> QED
      BY <3>1 DEF NothingRuns, Running
  <2> QED
    BY <1>1, <2>1, <2>10, <2>11, <2>12, <2>13, UpGoesOn DEF Die
<1>4. CASE UpCollect
  <2>1. /\ Current = "run" /\ up = "collect" /\ up' = "check" /\ collecting' = FALSE
        /\ UNCHANGED <<treeVars, cmdVars, stage, restVars, dirVars, blind, crashes>>
        /\ cont' = cont /\ dies' = dies
    BY <1>4 DEF UpCollect, svcVars
  <2>2. PICK n \in 0 .. Len(dies) :
          ignored' = IF collecting /\ n > 0 THEN IgnoredHelperExits(SubSeq(dies, 1, n)) ELSE {}
    BY <1>4 DEF UpCollect
  <2>3. ignored' \subseteq Helpers /\ (ignored' # {} => Succeeded)
        /\ \A h \in ignored' : ~FailedFirst(h)
    <3>1. CASE collecting /\ n > 0
      <4>1. n \in 1 .. Len(dies)
        BY <1>1, <3>1
      <4> QED
        BY <1>1, <2>2, <3>1, <4>1, IgnoredFacts
    <3>2. CASE ~(collecting /\ n > 0)
      BY <2>2, <3>2
    <3> QED
      BY <3>1, <3>2
  <2>4. IgnoredInv' /\ (NothingRuns => NothingRuns')
    BY <2>1, <2>3 DEF IgnoredInv, Succeeded, FailedFirst, NothingRuns, Running
  <2> QED
    BY <1>1, <2>1, <2>3, <2>4, UpGoesOn DEF CommandInv
<1> QED
  BY <1>2, <1>3, <1>4

\* docker_compose_up returns: a success says what the containers did.
LEMMA UpReturnsKeeps ==
  ASSUME IInv, UpReturns
  PROVE  IInv'
<1>1. /\ TypeOK /\ TreeInv /\ "run" \in Tasks /\ "down" \in Tasks /\ NoTask \notin Tasks
      /\ Commands = {"build", "up"} /\ Primaries \cap Helpers = {}
  BY ComposeRunAssumption, TaskTreeAssumption DEF IInv, NamedTasks
<1>2. /\ Current = "run" /\ up = "check" /\ up' = "done" /\ ignored' = {}
      /\ UNCHANGED <<cmdVars, stage, restVars, dirVars, collecting, svcVars>>
  BY DEF UpReturns
<1>3. /\ cmd' = cmd /\ live' = live /\ code' = code /\ result' = result /\ stage' = stage
      /\ opts' = opts /\ exit' = exit /\ interrupts' = interrupts /\ crashes' = crashes
      /\ submit' = submit /\ exchange' = exchange /\ cont' = cont /\ dies' = dies
      /\ collecting' = collecting
  BY <1>2 DEF cmdVars, restVars, dirVars, svcVars
<1>4. PICK r \in Results :
        /\ TaskReturns(r) /\ blind' \in BOOLEAN
        /\ r.success /\ result["up"] = "ok" /\ ~blind' => FailedContainers = {} /\ ~blind
  <2>1. Ok \in Results /\ Failed \in Results /\ ~Failed.success /\ blind \in BOOLEAN
    BY <1>1 DEF Ok, Failed, Results, Reasons, TypeOK
  <2>2. AsResult(result["up"]) \in Results /\ (result["up"] = "ok" => AsResult(result["up"]) = Ok)
    BY DEF AsResult, Interrupted, Ok, Failed, Results, Reasons
  <2>3. CASE AsResult(result["up"]) # Ok
    BY <2>1, <2>2, <2>3 DEF UpReturns
  <2>4. CASE AsResult(result["up"]) = Ok
    <3>1. CASE TaskReturns(IF FailedContainers = {} THEN Ok ELSE Failed) /\ UNCHANGED blind
      BY <2>1, <3>1
    <3>2. CASE TaskReturns(Ok) /\ blind' = TRUE
      BY <2>1, <3>2
    <3> QED
      BY <2>4, <3>1, <3>2 DEF UpReturns
  <2> QED
    BY <2>3, <2>4
<1>5. /\ TreeTypeOK' /\ TreeInv'
      /\ \A t \in Tasks : status'[t] = IF t = Current THEN StatusAfter(r) ELSE status[t]
  BY <1>1, <1>2, <1>3, <1>4, ReturnKeeps
<1>6. /\ stage = "tree" /\ status["down"] \in {"absent", "pending"}
  BY <1>1, <1>2, RunRuns
<1>7. /\ status'["down"] = status["down"] /\ (status'["run"] = "success" => r.success)
  BY <1>1, <1>2, <1>5 DEF StatusAfter
<1>8. TypeOK'
  <2>1. CommandTypeOK'
    BY <1>1, <1>2 DEF TypeOK, CommandTypeOK, cmdVars
  <2> QED
    BY <1>1, <1>2, <1>3, <1>4, <1>5, <2>1 DEF TypeOK
<1>9. CommandInv'
  <2>1. \A c \in Commands : ProcInv(c)'
    BY <1>3 DEF IInv, ServiceInv, CommandInv, ProcInv
  <2>2. cmd["up"] = "done" /\ \A c \in Commands : cmd[c] # "running" /\ cmd[c] # "left"
    BY <1>1, <1>2, <1>6 DEF IInv, ServiceInv, CommandInv, TaskOf
  <2>3. NothingRuns' = NothingRuns
    BY <1>3 DEF NothingRuns, Running
  <2> QED
    BY <1>1, <1>3, <2>1, <2>2, <2>3 DEF IInv, ServiceInv, CommandInv
<1>10. IgnoredInv'
  BY <1>2 DEF IgnoredInv
<1>11. DownInv'
  BY <1>2, <1>6, <1>7 DEF DownInv
<1>12. FailuresAreReported'
  <2> SUFFICES ASSUME status'["run"] = "success", result["up"] = "ok", ~blind'
               PROVE  /\ \A s \in Services : cont[s] # "err"
                      /\ \A p \in Primaries : cont[p] # "sig"
                      /\ \A h \in Helpers : cont[h] = "sig" => ~FailedFirst(h)
    BY <1>3 DEF FailuresAreReported, FailedFirst
  <2>1. FailedContainers = {} /\ ignored \subseteq Helpers /\ IgnoredInv
    BY <1>1, <1>4, <1>7 DEF TypeOK, IInv, ServiceInv
  <2>2. \A s \in Services : cont[s] # "err" /\ (cont[s] = "sig" => s \in ignored)
    BY <2>1 DEF FailedContainers
  <2> QED
    BY <1>1, <2>1, <2>2 DEF Services, IgnoredInv
<1> QED
  BY <1>5, <1>8, <1>9, <1>10, <1>11, <1>12 DEF IInv, ServiceInv

\* docker_compose_down removes the containers, or fails.
LEMMA DownKeeps ==
  ASSUME IInv, Down
  PROVE  IInv'
<1>1. /\ TypeOK /\ TreeInv /\ "run" \in Tasks /\ "down" \in Tasks /\ NoTask \notin Tasks
      /\ Commands = {"build", "up"}
      /\ cont \in [Services -> {"none", "up", "ok", "sig", "err", "gone"}]
  BY ComposeRunAssumption, TaskTreeAssumption DEF IInv, NamedTasks, TypeOK
<1>2. /\ Current = "down"
      /\ UNCHANGED <<cmdVars, stage, restVars, dirVars, upVars, dies, crashes>>
  BY DEF Down
<1>3. /\ cmd' = cmd /\ live' = live /\ code' = code /\ result' = result /\ stage' = stage
      /\ opts' = opts /\ exit' = exit /\ interrupts' = interrupts /\ crashes' = crashes
      /\ submit' = submit /\ exchange' = exchange /\ dies' = dies /\ up' = up
      /\ collecting' = collecting /\ ignored' = ignored /\ blind' = blind
  BY <1>2 DEF cmdVars, restVars, dirVars, upVars
<1>4. PICK r \in {Ok, Failed} :
        /\ TaskReturns(r)
        /\ \A s \in Services : cont'[s] = cont[s] \/ (cont[s] = "up" /\ cont'[s] = "gone")
        /\ r.success => \A s \in Services : cont'[s] # "up"
        /\ cont' \in [Services -> {"none", "up", "ok", "sig", "err", "gone"}]
  <2>1. Ok # Failed /\ ~Failed.success
    BY DEF Ok, Failed
  <2>2. PICK r \in {Ok, Failed} :
          /\ TaskReturns(r)
          /\ r = Ok => cont' = [s \in Services |-> IF cont[s] = "up" THEN "gone" ELSE cont[s]]
          /\ r = Failed => cont' = cont
    BY <2>1 DEF Down
  <2>3. /\ \A s \in Services : cont'[s] = cont[s] \/ (cont[s] = "up" /\ cont'[s] = "gone")
        /\ r.success => \A s \in Services : cont'[s] # "up"
        /\ cont' \in [Services -> {"none", "up", "ok", "sig", "err", "gone"}]
    <3>1. CASE r = Ok
      BY <1>1, <2>2, <3>1
    <3>2. CASE r = Failed
      BY <1>1, <2>1, <2>2, <3>2
    <3> QED
      BY <3>1, <3>2
  <2> QED
    BY <2>2, <2>3
<1>5. r \in Results
  <2>1. Ok \in Results /\ Failed \in Results
    BY DEF Ok, Failed, Results, Reasons
  <2> QED
    BY <1>4, <2>1
<1>6. /\ TreeTypeOK' /\ TreeInv'
      /\ \A t \in Tasks : status'[t] = IF t = Current THEN StatusAfter(r) ELSE status[t]
  <2>1. r.success => r = Ok
    BY <1>4 DEF Failed
  <2> QED
    BY <1>1, <1>2, <1>3, <1>4, <1>5, <2>1, ReturnKeeps
<1>7. stage = "tree"
  BY <1>1, <1>2, RunRuns
<1>8. \A c \in Commands : cmd[c] # "running" /\ cmd[c] # "left"
  BY <1>2, <1>7, Idle DEF IInv, ServiceInv, CommandInv
<1>9. TypeOK'
  <2>1. CommandTypeOK'
    BY <1>1, <1>2 DEF TypeOK, CommandTypeOK, cmdVars
  <2> QED
    BY <1>1, <1>2, <1>3, <1>4, <1>6, <2>1 DEF TypeOK
<1>10. CommandInv'
  <2>1. \A c \in Commands : ProcInv(c)'
    BY <1>3 DEF IInv, ServiceInv, CommandInv, ProcInv
  <2>2. NothingRuns => NothingRuns'
    BY <1>4 DEF NothingRuns, Running
  <2> QED
    BY <1>1, <1>3, <1>8, <2>1, <2>2 DEF IInv, ServiceInv, CommandInv
<1>11. IgnoredInv'
  BY <1>3 DEF IInv, ServiceInv, IgnoredInv, Succeeded, FailedFirst
<1>12. DownInv'
  <2>1. status'["run"] = status["run"] /\ (status'["down"] = "success" => r.success)
    BY <1>1, <1>2, <1>6 DEF StatusAfter
  <2>2. r.success => Running' = {}
    BY <1>4 DEF Running
  <2>3. result["up"] # "error" => ~live["up"]
    <3>1. cmd["up"] \in {"idle", "done"}
      BY <1>1, <1>8 DEF TypeOK, CommandTypeOK
    <3> QED
      BY <1>1, <3>1 DEF IInv, ServiceInv, CommandInv, ProcInv
  <2> QED
    BY <1>3, <2>1, <2>2, <2>3 DEF IInv, ServiceInv, DownInv
<1>13. FailuresAreReported'
  <2>1. status'["run"] = status["run"]
    BY <1>1, <1>2, <1>6
  <2>2. \A s \in Services : /\ cont'[s] = "err" => cont[s] = "err"
                            /\ cont'[s] = "sig" => cont[s] = "sig"
    BY <1>4
  <2> QED
    BY <1>3, <2>1, <2>2 DEF IInv, ServiceInv, FailuresAreReported, FailedFirst, Services
<1> QED
  BY <1>6, <1>9, <1>10, <1>11, <1>12, <1>13 DEF IInv, ServiceInv

\* A container starts or ends.
LEMMA ContainersKeep ==
  ASSUME IInv,
         \/ ContainersStart
         \/ \E s \in Services : ContainerExits(s) \/ ComposeStops(s)
         \/ \E h \in Helpers : HelperRestarts(h)
  PROVE  IInv'
<1> DEFINE Die == [svc : Services, code : {"ok", "sig", "err"}]
           States == {"none", "up", "ok", "sig", "err", "gone"}
<1>1. /\ TypeOK /\ cont \in [Services -> States] /\ dies \in Seq(Die)
      /\ crashes \in 0 .. MaxCrashes /\ ignored \subseteq Helpers /\ Helpers \subseteq Services
      /\ Primaries \subseteq Services
  BY DEF IInv, TypeOK, Services
<1>2. /\ UNCHANGED <<treeVars, cmdVars, opts, stage, dirVars, upVars, interrupts, exit>>
  BY DEF ContainersStart, ContainerExits, ComposeStops, HelperRestarts, Dies
<1>3. /\ cont' \in [Services -> States] /\ dies' \in Seq(Die) /\ crashes' \in 0 .. MaxCrashes
      /\ (Succeeded => Succeeded' /\ \A h \in Helpers : FailedFirst(h)' => FailedFirst(h))
      /\ ~NothingRuns /\ (Running # {} \/ live["up"])
  <2>1. CASE ContainersStart
    <3>1. /\ live["up"] /\ (\A s \in Services : cont[s] = "none") /\ dies' = dies
          /\ crashes' = crashes /\ cont' = [s \in Services |-> "up"]
      BY <2>1 DEF ContainersStart
    <3> QED
      BY <1>1, <3>1 DEF Succeeded, FailedFirst, NothingRuns
  <2>2. ASSUME NEW s \in Services, NEW k \in {"ok", "sig", "err"}, Dies(s, k)
        PROVE  /\ dies' \in Seq(Die)
               /\ (Succeeded => Succeeded' /\ \A h \in Helpers : FailedFirst(h)' => FailedFirst(h))
               /\ ~NothingRuns /\ Running # {}
               /\ [cont EXCEPT ![s] = k] \in [Services -> States]
    <3>1. Event(s, k) \in Seq(Die)
      <4>1. [svc |-> s, code |-> k] \in Die
        OBVIOUS
      <4> HIDE DEF Die
      <4>2. <<[svc |-> s, code |-> k]>> \in Seq(Die) /\ <<>> \in Seq(Die)
        BY <4>1
      <4> QED
        BY <4>2 DEF Event
    <3>2. dies' = dies \o Event(s, k) /\ cont[s] = "up"
      BY <2>2 DEF Dies
    <3> HIDE DEF Die
    <3>3. /\ dies' \in Seq(Die)
          /\ (Succeeded => Succeeded' /\ \A h \in Helpers : FailedFirst(h)' => FailedFirst(h))
      BY <1>1, <3>1, <3>2, LogGrows
    <3>4. s \in Running
      BY <3>2 DEF Running
    <3> QED
      BY <1>1, <3>3, <3>4 DEF NothingRuns
  <2> HIDE DEF Die, States
  <2>3. ASSUME NEW s \in Services, ContainerExits(s) \/ ComposeStops(s)
        PROVE  \E k \in {"ok", "sig", "err"} :
                 Dies(s, k) /\ cont' = [cont EXCEPT ![s] = k] /\ crashes' = crashes
    BY <2>3 DEF ContainerExits, ComposeStops
  <2>4. CASE \E s \in Services : ContainerExits(s) \/ ComposeStops(s)
    <3>1. PICK s \in Services, k \in {"ok", "sig", "err"} :
            Dies(s, k) /\ cont' = [cont EXCEPT ![s] = k] /\ crashes' = crashes
      BY <2>3, <2>4
    <3> QED
      BY <1>1, <2>2, <3>1
  <2>5. CASE \E h \in Helpers : HelperRestarts(h)
    <3>1. PICK h \in Helpers : Dies(h, "err") /\ cont' = cont /\ crashes' = crashes + 1
                               /\ crashes < MaxCrashes
      BY <2>5 DEF HelperRestarts
    <3>2. crashes' \in 0 .. MaxCrashes
      BY <1>1, <3>1, ComposeRunAssumption
    <3> QED
      BY <1>1, <2>2, <3>1, <3>2
  <2> QED
    BY <2>1, <2>4, <2>5
<1>4. /\ cmd' = cmd /\ live' = live /\ code' = code /\ result' = result /\ stage' = stage
      /\ opts' = opts /\ exit' = exit /\ interrupts' = interrupts
      /\ submit' = submit /\ exchange' = exchange /\ up' = up
      /\ collecting' = collecting /\ ignored' = ignored /\ blind' = blind
  BY <1>2 DEF cmdVars, dirVars, upVars
<1>5. /\ TreeTypeOK' /\ TreeInv' /\ status' = status /\ Current' = Current
  BY <1>2, TreeStays
<1>6. TypeOK'
  <2>1. CommandTypeOK'
    BY <1>1, <1>2 DEF TypeOK, CommandTypeOK, cmdVars
  <2> QED
    BY <1>1, <1>3, <1>4, <1>5, <2>1 DEF TypeOK
<1>7. code["up"] # "zero" /\ result["up"] # "ok"
  BY <1>3 DEF IInv, ServiceInv, CommandInv
<1>8. CommandInv'
  <2>1. \A c \in Commands : ProcInv(c)'
    BY <1>4 DEF IInv, ServiceInv, CommandInv, ProcInv
  <2> QED
    BY <1>4, <1>5, <1>7, <2>1 DEF IInv, ServiceInv, CommandInv
<1>9. IgnoredInv'
  BY <1>1, <1>3, <1>4 DEF IInv, ServiceInv, IgnoredInv
<1>10. DownInv'
  BY <1>3, <1>4, <1>5 DEF IInv, ServiceInv, DownInv
<1>11. FailuresAreReported'
  BY <1>4, <1>7 DEF FailuresAreReported
<1> QED
  BY <1>5, <1>6, <1>8, <1>9, <1>10, <1>11 DEF IInv, ServiceInv

\* A CRS finds an artifact.
LEMMA FindKeeps ==
  ASSUME IInv, Find
  PROVE  IInv'
<1>1. /\ UNCHANGED <<treeVars, cmdVars, opts, stage, upVars, svcVars, interrupts, exit>>
      /\ submit' \subseteq Artifacts /\ exchange' \subseteq Artifacts
  BY DEF Find, IInv, TypeOK, Artifacts
<1>2. /\ cmd' = cmd /\ live' = live /\ code' = code /\ result' = result /\ stage' = stage
      /\ opts' = opts /\ exit' = exit /\ interrupts' = interrupts /\ up' = up
      /\ collecting' = collecting /\ ignored' = ignored /\ blind' = blind
      /\ cont' = cont /\ dies' = dies /\ crashes' = crashes
  BY <1>1 DEF cmdVars, svcVars, upVars
<1>3. /\ TreeTypeOK' /\ TreeInv' /\ status' = status /\ Current' = Current
  BY <1>1, TreeStays
<1>4. TypeOK'
  <2>1. CommandTypeOK'
    BY <1>1 DEF IInv, TypeOK, CommandTypeOK, cmdVars
  <2> QED
    BY <1>1, <1>2, <1>3, <2>1 DEF IInv, TypeOK
<1>5. CommandInv'
  <2>1. \A c \in Commands : ProcInv(c)'
    BY <1>2 DEF IInv, ServiceInv, CommandInv, ProcInv
  <2>2. NothingRuns' = NothingRuns
    BY <1>2 DEF NothingRuns, Running
  <2> QED
    BY <1>2, <1>3, <2>1, <2>2 DEF IInv, ServiceInv, CommandInv
<1>6. IgnoredInv' /\ DownInv' /\ FailuresAreReported'
  BY <1>2, <1>3 DEF IInv, ServiceInv, IgnoredInv, Succeeded, FailedFirst, DownInv, Running,
                    FailuresAreReported
<1> QED
  BY <1>3, <1>4, <1>5, <1>6 DEF IInv, ServiceInv

\* A signal asks the command that runs to stop, or leaves everything.
LEMMA SignalKeeps ==
  ASSUME IInv, Signal
  PROVE  IInv'
<1>0. /\ TypeOK /\ TreeInv /\ CommandTypeOK /\ (\A b \in Commands : ProcInv(b))
      /\ Commands = {"build", "up"} /\ Seen \in BOOLEAN /\ deadlineOn \in BOOLEAN
  BY ComposeRunAssumption DEF IInv, TypeOK, TreeTypeOK, ServiceInv, CommandInv, Seen
<1>1. /\ stage # "ended" /\ interrupts < MaxInterrupts /\ interrupts' = interrupts + 1
      /\ UNCHANGED <<opts, dirVars, upVars, svcVars>>
  BY DEF Signal
<1>2. /\ interrupts' \in 0 .. MaxInterrupts /\ opts' = opts /\ up' = up /\ cont' = cont
      /\ collecting' = collecting /\ ignored' = ignored /\ blind' = blind /\ dies' = dies
      /\ crashes' = crashes /\ submit' = submit /\ exchange' = exchange
      /\ (NothingRuns' <=> NothingRuns) /\ Running' = Running
  BY <1>0, <1>1, ComposeRunAssumption
     DEF TypeOK, dirVars, upVars, svcVars, NothingRuns, Running
<1>3. IgnoredInv'
  BY <1>2 DEF IInv, ServiceInv, IgnoredInv, Succeeded, FailedFirst
<1>4. /\ up \in {"collect", "check", "done"} => cmd["up"] = "done"
      /\ code["up"] = "zero" \/ result["up"] = "ok" => NothingRuns
      /\ DownInv /\ FailuresAreReported
      /\ \A c \in Commands : cmd[c] # "left"
      /\ \A c \in Commands : cmd[c] = "running" => Current = TaskOf(c)
      /\ cmd["up"] = "running" => up = "command"
  BY <1>1 DEF IInv, ServiceInv, CommandInv
<1>5. CASE (\E c \in Active : UserStops(c)) /\ UNCHANGED <<treeVars, stage, exit>>
  <2>1. PICK c \in Commands : UserStops(c)
    BY <1>5 DEF Active
  <2>2. /\ CommandTypeOK' /\ (\A b \in Commands : ProcInv(b)')
        /\ cmd' = cmd /\ live' = live /\ code' = code /\ result' = result
    <3>1. CommandKept(c, "other")
      BY <1>0, <2>1, CommandKeeps
    <3> QED
      BY <2>1, <3>1 DEF CommandKept, UserStops
  <2>3. /\ TreeTypeOK' /\ TreeInv' /\ status' = status /\ Current' = Current
        /\ stage' = stage /\ exit' = exit
    BY <1>2, <1>5, TreeStays
  <2>4. TypeOK'
    BY <1>0, <1>2, <2>2, <2>3 DEF TypeOK
  <2>5. CommandInv'
    BY <1>2, <1>4, <2>2, <2>3 DEF CommandInv, TaskOf
  <2>6. DownInv' /\ FailuresAreReported'
    BY <1>2, <1>4, <2>2, <2>3 DEF DownInv, FailuresAreReported, FailedFirst
  <2> QED
    BY <1>3, <2>3, <2>2, <2>4, <2>5, <2>6 DEF IInv, ServiceInv
<1>6. CASE /\ IF Active = {} THEN UNCHANGED cmdVars ELSE \E c \in Active : LeaveCommand(c)
           /\ Unwind /\ Quit("interrupt")
  <2>1. TreeTypeOK' /\ TreeInv' /\ status' = status /\ stage' = "ended" /\ exit' = "interrupt"
    BY <1>0, <1>2, <1>6, UnwindKeeps DEF Quit
  <2>2. /\ CommandTypeOK' /\ (\A b \in Commands : ProcInv(b)') /\ live' = live
        /\ \A b \in Commands : /\ cmd'[b] # "running"
                               /\ cmd[b] = "done" => cmd'[b] = "done"
                               /\ code'[b] = "zero" => code[b] = "zero"
                               /\ result'[b] = "ok" => result[b] = "ok" \/ code[b] = "zero"
                               /\ result'[b] # "error" => result[b] # "error"
                               /\ result'[b] = "ok" => result[b] = "ok"
    <3>1. CASE Active = {}
      <4>1. /\ cmd' = cmd /\ live' = live /\ code' = code /\ result' = result
            /\ limited' = limited /\ watched' = watched /\ asked' = asked
            /\ triggered' = triggered /\ expired' = expired
        BY <1>6, <3>1 DEF cmdVars
      <4>2. CommandTypeOK' /\ \A b \in Commands : ProcInv(b)'
        BY <1>0, <4>1 DEF CommandTypeOK, ProcInv
      <4> QED
        BY <3>1, <4>1, <4>2 DEF Active
    <3>2. CASE Active # {}
      <4>1. PICK c \in Commands : LeaveCommand(c) /\ cmd[c] = "running"
        <5>1. \E c \in Active : LeaveCommand(c)
          BY <1>6, <3>2
        <5> QED
          BY <5>1 DEF Active
      <4>2. CommandKept(c, "other") /\ live' = live /\ cmd'[c] # "running"
        BY <1>0, <4>1, CommandKeeps
      <4>3. result' = [result EXCEPT ![c] = "none"] /\ cmd' = [cmd EXCEPT ![c] = "left"]
        BY <4>1 DEF LeaveCommand, Ends
      <4>4. \A b \in Commands : b # c => cmd[b] # "running"
        BY <1>0, <1>4, <4>1 DEF TaskOf
      <4> QED
        BY <1>0, <4>2, <4>3, <4>4 DEF CommandKept, CommandTypeOK
    <3> QED
      BY <3>1, <3>2
  <2>3. TypeOK'
    BY <1>0, <1>2, <2>1, <2>2 DEF TypeOK
  <2>4. CommandInv'
    BY <1>0, <1>2, <1>4, <2>1, <2>2 DEF CommandInv
  <2>5. DownInv' /\ FailuresAreReported'
    BY <1>0, <1>2, <1>4, <2>1, <2>2 DEF DownInv, FailuresAreReported, FailedFirst
  <2> QED
    BY <1>3, <2>1, <2>2, <2>3, <2>4, <2>5 DEF IInv, ServiceInv
<1>7. \/ (\E c \in Active : UserStops(c)) /\ UNCHANGED <<treeVars, stage, exit>>
      \/ /\ IF Active = {} THEN UNCHANGED cmdVars ELSE \E c \in Active : LeaveCommand(c)
         /\ Unwind /\ Quit("interrupt")
  BY DEF Signal
<1> QED
  BY <1>5, <1>6, <1>7

\* Every step keeps the invariant.
LEMMA NextIInv == IInv /\ [Next]_vars => IInv'
<1> SUFFICES ASSUME IInv, [Next]_vars PROVE IInv'
  OBVIOUS
<1>1. CASE UNCHANGED vars
  <2>1. UNCHANGED <<treeVars, cmdVars, opts, stage, exit, upVars, svcVars, interrupts>>
        /\ submit' = submit /\ exchange' = exchange
    BY <1>1 DEF vars, runVars, upVars, svcVars
  <2>2. /\ cmd' = cmd /\ live' = live /\ code' = code /\ result' = result /\ stage' = stage
        /\ opts' = opts /\ exit' = exit /\ interrupts' = interrupts /\ up' = up
        /\ collecting' = collecting /\ ignored' = ignored /\ blind' = blind
        /\ cont' = cont /\ dies' = dies /\ crashes' = crashes
    BY <2>1 DEF cmdVars, svcVars, upVars
  <2>3. /\ TreeTypeOK' /\ TreeInv' /\ status' = status /\ Current' = Current
    BY <2>1, TreeStays
  <2>4. TypeOK'
    <3>1. CommandTypeOK'
      BY <2>1 DEF IInv, TypeOK, CommandTypeOK, cmdVars
    <3> QED
      BY <2>1, <2>2, <2>3, <3>1 DEF IInv, TypeOK
  <2>5. CommandInv'
    <3>1. \A c \in Commands : ProcInv(c)'
      BY <2>2 DEF IInv, ServiceInv, CommandInv, ProcInv
    <3>2. NothingRuns' = NothingRuns
      BY <2>2 DEF NothingRuns, Running
    <3> QED
      BY <2>2, <2>3, <3>1, <3>2 DEF IInv, ServiceInv, CommandInv
  <2>6. IgnoredInv' /\ DownInv' /\ FailuresAreReported'
    BY <2>2, <2>3 DEF IInv, ServiceInv, IgnoredInv, Succeeded, FailedFirst, DownInv, Running,
                      FailuresAreReported
  <2> QED
    BY <2>3, <2>4, <2>5, <2>6 DEF IInv, ServiceInv
<1>2. CASE MainThread
  BY <1>2, StageKeeps, TreeKeeps, TaskKeeps, CommandsKeep, UpKeeps, UpReturnsKeeps, DownKeeps
     DEF MainThread
<1>3. CASE Environment
  BY <1>3, SignalKeeps, CommandsKeep, ContainersKeep, FindKeeps DEF Environment
<1>4. CASE Monitor \/ \E c \in Commands : Threads(c)
  BY <1>4, CommandsKeep
<1> QED
  BY <1>1, <1>2, <1>3, <1>4 DEF Next

\* The invariant holds in every reachable state.
THEOREM SpecIInv == Spec => []IInv
<1>1. Init => IInv
  BY InitIInv
<1>2. IInv /\ [Next]_vars => IInv'
  BY NextIInv
<1> QED
  BY <1>1, <1>2, PTL DEF Spec

\* How a run says that it has ended is true: exit code 0 comes after the success of every
\* task, and the success of docker compose up means that no container has failed but a
\* helper that was stopped after a CRS had succeeded.
THEOREM SpecOutcomeIsTrue == Spec => []OutcomeIsTrue
<1>1. ASSUME IInv PROVE OutcomeIsTrue
  <2>1. ASSUME exit = "0", NEW t \in Tasks PROVE status[t] \in {"absent", "success"}
    <3>1. stage = "ended" /\ outcome # <<>> /\ outcome[1].success /\ exit # "interrupt"
      BY <1>1, <2>1 DEF IInv, TreeInv, StageInv
    <3>2. frames = <<>>
      BY <1>1, <3>1 DEF IInv, TreeInv, StageInv
    <3>3. DOMAIN frames = {} /\ ~Failing
      BY <3>1, <3>2 DEF Failing
    <3>4. status[t] \notin {"in_progress", "pending", "failed", "stopped"}
      BY <1>1, <3>1, <3>3 DEF IInv, TreeInv, StatusInv
    <3>5. status[t] \in Statuses
      BY <1>1 DEF IInv, TypeOK, TreeTypeOK
    <3> QED
      BY <3>4, <3>5 DEF Statuses
  <2>2. ExitZeroMeansSuccess
    BY <2>1 DEF ExitZeroMeansSuccess
  <2> QED
    BY <1>1, <2>2 DEF OutcomeIsTrue, IInv, ServiceInv
<1> QED
  BY <1>1, SpecIInv, PTL

\* Every cleanup task of a level that has returned was attempted, however its tasks ended.
THEOREM SpecCleanupComplete == Spec => []CleanupComplete
<1>1. ASSUME IInv PROVE CleanupComplete
  <2>1. \A t \in Tasks : cleanups[t] = <<>>
    BY <1>1 DEF IInv, TreeInv, ListInv
  <2>2. ToSet(<<>>) = {}
    BY DEF ToSet
  <2> QED
    BY <1>1, <2>1, <2>2 DEF CleanupComplete, IInv, TreeInv, StageInv
<1> QED
  BY <1>1, SpecIInv, PTL

\* A run that has cleaned up leaves no container behind, unless the console has broken its
\* command off.
THEOREM SpecNothingLeftRunning == Spec => []NothingLeftRunning
<1>1. ASSUME IInv PROVE NothingLeftRunning
  BY <1>1 DEF IInv, ServiceInv, DownInv, NothingLeftRunning
<1> QED
  BY <1>1, SpecIInv, PTL

-----------------------------------------------------------------------------
(***************************************************************************)
(* The worker cgroups of Resources.  Every worker cgroup has a number of   *)
(* its own, so a run alone changes it (OwnInv); what a run may rely on at  *)
(* each step is Stage.                                                     *)
(***************************************************************************)

\* The runs that have made a worker cgroup, or tried.
Makers == { r \in Runs : made[r] # None }

\* The cgroup of a worker that has all its CRSs, with all their limits.
Complete(w) ==
  /\ w \in DOMAIN groups /\ DOMAIN groups[w] = CrsEntries
  /\ \A c \in CrsEntries : groups[w][c] = Files

\* The numbers of the worker cgroups are those of their makers, and differ.
OwnInv ==
  /\ created = Cardinality(Makers)
  /\ \A w \in DOMAIN groups : w.number <= created
  /\ \A r \in Makers : made[r].number <= created
  /\ \A q, r \in Makers : q # r => made[q].number # made[r].number

\* What holds of a run at each of its steps.
Stage(r) ==
  /\ at[r] \in {"start", "worker"} => made[r] = None
  /\ worker[r] # None => worker[r] = made[r]
  /\ at[r] \in {"start", "worker", "crs"} => worker[r] = None
  /\ at[r] \in {"start", "worker", "crs", "prepare"} => running[r] = {}
  /\ at[r] = "crs" => made[r] # None
  /\ at[r] = "crs" /\ made[r] \in DOMAIN groups =>
       \A c \in DOMAIN groups[made[r]] : groups[made[r]][c] = Files
  /\ at[r] = "prepare" /\ worker[r] # None => Complete(worker[r])
  /\ at[r] = "clean" => worker[r] # None
  /\ at[r] = "clean" /\ errors = 0 => running[r] = {}

\* LimitsInForce and NoGroupIsLeft, for one run.
Limited(r) ==
  worker[r] # None =>
    \A c \in running[r] : worker[r] \in DOMAIN groups /\ c \in DOMAIN groups[worker[r]]
                           /\ groups[worker[r]][c] = Files
Removed(r) ==
  at[r] = "ended" /\ worker[r] # None /\ errors = 0 => worker[r] \notin DOMAIN groups

RunInv(r) == Stage(r) /\ Limited(r) /\ Removed(r)

GroupInv == RunTypeOK /\ OwnInv /\ \A r \in Runs : RunInv(r)

-----------------------------------------------------------------------------

\* No name of a worker cgroup is None.
LEMMA NoName ==
  None \notin Names /\ \A w \in Names : w.number \in Nat \ {0}
BY DEF None, Names

\* A new worker's number is free, and is not above the number of runs.
LEMMA NumberIsFree ==
  ASSUME GroupInv, NEW r \in Runs, made[r] = None,
         NEW name \in [run : { RunIdOf[q] : q \in Runs }, number : {created + 1}],
         made' = [made EXCEPT ![r] = name], created' = created + 1
  PROVE  /\ created' \in 0 .. Cardinality(Runs) /\ created' = Cardinality(Makers')
         /\ name \in Names /\ name \notin DOMAIN groups /\ name # None /\ name.number = created'
<1> USE ResourcesAssumption
<1>1. made \in [Runs -> Names \union {None}] /\ created \in Nat
  BY DEF GroupInv, RunTypeOK
<1>2. Makers \subseteq Runs /\ IsFiniteSet(Makers) /\ r \notin Makers /\ Cardinality(Runs) \in Nat
  BY FS_Subset, FS_CardinalityType DEF Makers
<1>3. name.number = created + 1 /\ name # None
  BY <1>1 DEF None
<1>4. Makers' = Makers \union {r}
  BY <1>1, <1>3 DEF Makers
<1>5. Cardinality(Makers') = Cardinality(Makers) + 1
  BY <1>2, <1>4, FS_AddElement
<1>6. Cardinality(Makers') <= Cardinality(Runs)
  BY <1>2, <1>4, FS_Subset
<1>7. name \in Names
  BY <1>1, <1>2, <1>5, <1>6 DEF GroupInv, OwnInv, Names
<1>8. name \notin DOMAIN groups
  <2>1. \A w \in DOMAIN groups : w.number <= created
    BY DEF GroupInv, OwnInv
  <2> QED
    BY <1>1, <1>3, <2>1
<1> QED
  BY <1>1, <1>2, <1>3, <1>5, <1>6, <1>7, <1>8 DEF GroupInv, OwnInv

\* A run that does nothing keeps what holds of it, when its worker cgroup is left alone.
LEMMA OthersKeep ==
  ASSUME NEW q \in Runs, RunInv(q), errors \in Nat, errors' \in Nat, errors <= errors',
         at'[q] = at[q], made'[q] = made[q], worker'[q] = worker[q], running'[q] = running[q],
         made[q] # None => /\ made[q] \in DOMAIN groups <=> made[q] \in DOMAIN groups'
                           /\ made[q] \in DOMAIN groups => groups'[made[q]] = groups[made[q]]
  PROVE  RunInv(q)'
BY DEF RunInv, Stage, Limited, Removed, Complete

\* The cgroups of a run are not those of another.
LEMMA OwnsIt ==
  ASSUME OwnInv, NEW q \in Runs, NEW r \in Runs, q # r, made[q] # None, made[r] # None
  PROVE  made[q] # made[r]
BY DEF OwnInv, Makers

-----------------------------------------------------------------------------

\* Nothing but the number of errors, and the run's place, changes.
LEMMA CheckKeeps ==
  ASSUME GroupInv, NEW r \in Runs, CheckCgroups(r) \/ ComposeDown(r) \/ Crash(r)
  PROVE  GroupInv'
<1> USE ResourcesAssumption
<1>1. /\ UNCHANGED <<groups, created, made, worker>> /\ errors' \in 0 .. MaxErrors
      /\ errors <= errors' /\ errors \in 0 .. MaxErrors
  <2>1. errors \in 0 .. MaxErrors
    BY DEF GroupInv, RunTypeOK
  <2>2. errors' = errors \/ (errors < MaxErrors /\ errors' = errors + 1)
    BY DEF CheckCgroups, ComposeDown, Crash, Fails
  <2> QED
    BY <2>1, <2>2 DEF CheckCgroups, ComposeDown, Crash
<1>2. /\ \E step \in {"worker", "prepare", "ended", "clean", "crashed"} : at' = [at EXCEPT ![r] = step]
      /\ running' = running \/ running' = [running EXCEPT ![r] = {}]
  BY DEF CheckCgroups, ComposeDown, Crash, Goto
<1>3. /\ at \in [Runs -> {"start", "worker", "crs", "prepare", "up", "down", "clean", "ended", "crashed"}]
      /\ running \in [Runs -> SUBSET CrsEntries]
  BY DEF GroupInv, RunTypeOK
<1>4. RunTypeOK'
  BY <1>1, <1>2, <1>3 DEF GroupInv, RunTypeOK
<1>5. OwnInv'
  BY <1>1 DEF GroupInv, OwnInv, Makers
<1>6. ASSUME NEW q \in Runs, q # r PROVE RunInv(q)'
  BY <1>1, <1>2, <1>3, <1>6, OthersKeep DEF GroupInv
<1>7. RunInv(r)'
  <2>1. RunInv(r)
    BY DEF GroupInv
  <2>2. CASE CheckCgroups(r)
    BY <1>1, <1>3, <2>1, <2>2 DEF CheckCgroups, Goto, RunInv, Stage, Limited, Removed
  <2>3. CASE ComposeDown(r)
    <3>1. at'[r] = IF worker[r] = None THEN "ended" ELSE "clean"
      BY <1>3, <2>3 DEF ComposeDown, Goto
    <3>2. running'[r] = {} \/ (running'[r] = running[r] /\ errors' # 0)
      BY <1>1, <1>3, <2>3 DEF ComposeDown, Fails
    <3>3. at[r] = "up"
      BY <2>3 DEF ComposeDown
    <3> QED
      BY <1>1, <2>1, <3>1, <3>2, <3>3 DEF RunInv, Stage, Limited, Removed
  <2>4. CASE Crash(r)
    BY <1>1, <1>3, <2>1, <2>4 DEF Crash, Goto, RunInv, Stage, Limited, Removed
  <2> QED
    BY <2>2, <2>3, <2>4
<1> QED
  BY <1>4, <1>5, <1>6, <1>7 DEF GroupInv

\* create_worker_cgroup makes a cgroup that no other run has.
LEMMA MakeWorkerKeeps ==
  ASSUME GroupInv, NEW r \in Runs, MakeWorker(r)
  PROVE  GroupInv'
<1> USE ResourcesAssumption
<1> DEFINE name == WorkerName(r, created + 1)
<1>1. /\ at \in [Runs -> {"start", "worker", "crs", "prepare", "up", "down", "clean", "ended", "crashed"}]
      /\ made \in [Runs -> Names \union {None}] /\ errors \in 0 .. MaxErrors /\ created \in Nat
      /\ DOMAIN groups \subseteq Names
      /\ \A w \in DOMAIN groups : DOMAIN groups[w] \subseteq CrsEntries
                                   /\ \A c \in DOMAIN groups[w] : groups[w][c] \in 0 .. Files
  BY DEF GroupInv, RunTypeOK
<1>2. /\ at[r] = "worker" /\ made[r] = None
      /\ created' = created + 1 /\ made' = [made EXCEPT ![r] = name]
      /\ UNCHANGED <<worker, running>>
  BY DEF MakeWorker, GroupInv, RunInv, Stage
<1>3. name \in [run : { RunIdOf[q] : q \in Runs }, number : {created + 1}]
  BY DEF WorkerName
<1>4. /\ created' \in 0 .. Cardinality(Runs) /\ created' = Cardinality(Makers')
      /\ name \in Names /\ name \notin DOMAIN groups /\ name # None /\ name.number = created'
  BY <1>2, <1>3, NumberIsFree
<1>5. groups' = With(groups, name, [c \in {} |-> 0])
  BY <1>4 DEF MakeWorker
<1>6. /\ DOMAIN groups' = DOMAIN groups \union {name} /\ DOMAIN groups'[name] = {}
      /\ \A w \in DOMAIN groups : groups'[w] = groups[w]
  BY <1>4, <1>5 DEF With
<1>7. /\ errors' \in 0 .. MaxErrors /\ errors <= errors'
      /\ at' = [at EXCEPT ![r] = "crs"] \/ at' = [at EXCEPT ![r] = "prepare"]
  BY <1>1 DEF MakeWorker, Fails, Goto
<1>8. RunTypeOK'
  <2>1. /\ DOMAIN groups' \subseteq Names
        /\ \A w \in DOMAIN groups' : DOMAIN groups'[w] \subseteq CrsEntries
                                      /\ \A c \in DOMAIN groups'[w] : groups'[w][c] \in 0 .. Files
    BY <1>1, <1>4, <1>6
  <2>2. /\ at' \in [Runs -> {"start", "worker", "crs", "prepare", "up", "down", "clean", "ended", "crashed"}]
        /\ made' \in [Runs -> Names \union {None}]
    BY <1>1, <1>2, <1>4, <1>7
  <2> QED
    BY <1>2, <1>4, <1>7, <2>1, <2>2 DEF GroupInv, RunTypeOK
<1>9. OwnInv'
  <2>1. \A q \in Makers' : q = r \/ (q \in Makers /\ made'[q] = made[q])
    BY <1>1, <1>2 DEF Makers
  <2>2. \A w \in Names : w.number \in Nat
    BY NoName
  <2>3. \A w \in DOMAIN groups : w.number \in Nat /\ w.number <= created
    BY <1>1, <2>2 DEF GroupInv, OwnInv
  <2>4. \A q \in Makers : made[q].number \in Nat /\ made[q].number <= created
    BY <1>1, <2>2 DEF GroupInv, OwnInv, Makers
  <2>5. \A w \in DOMAIN groups' : w.number <= created'
    BY <1>1, <1>2, <1>4, <1>6, <2>3
  <2>6. \A q \in Makers' : made'[q].number <= created'
    BY <1>1, <1>2, <1>4, <2>1, <2>4
  <2>7. made'[r].number = created'
    BY <1>1, <1>2, <1>4
  <2>8. \A p, q \in Makers' : p # q => made'[p].number # made'[q].number
    BY <1>1, <1>2, <2>1, <2>4, <2>7 DEF GroupInv, OwnInv
  <2> QED
    BY <1>4, <2>5, <2>6, <2>8 DEF OwnInv
<1>10. ASSUME NEW q \in Runs, q # r PROVE RunInv(q)'
  <2>1. at'[q] = at[q] /\ made'[q] = made[q] /\ RunInv(q)
    BY <1>1, <1>2, <1>7, <1>10 DEF GroupInv
  <2>2. made[q] # None => made[q] # name
    <3>1. made[q] # None => made[q].number \in Nat /\ made[q].number <= created
      BY <1>1, NoName DEF GroupInv, OwnInv, Makers
    <3> QED
      BY <1>1, <1>2, <1>4, <3>1
  <2> QED
    BY <1>1, <1>2, <1>6, <1>7, <2>1, <2>2, OthersKeep
<1>11. RunInv(r)'
  <2>1. worker[r] = None /\ running[r] = {} /\ at'[r] \in {"crs", "prepare"} /\ made'[r] = name
    BY <1>1, <1>2, <1>7 DEF GroupInv, RunInv, Stage
  <2> QED
    BY <1>2, <1>4, <1>6, <2>1 DEF RunInv, Stage, Limited, Removed
<1> QED
  BY <1>8, <1>9, <1>10, <1>11 DEF GroupInv

\* create_crs_cgroup adds to the run's own cgroup; the last one complete, all are.
LEMMA MakeCrsKeeps ==
  ASSUME GroupInv, NEW r \in Runs, NEW c \in CrsEntries, NEW written \in 0 .. Files, MakeCrs(r, c, written)
  PROVE  GroupInv'
<1> USE ResourcesAssumption
<1> DEFINE name == made[r]
<1>1. /\ at \in [Runs -> {"start", "worker", "crs", "prepare", "up", "down", "clean", "ended", "crashed"}]
      /\ made \in [Runs -> Names \union {None}] /\ worker \in [Runs -> Names \union {None}]
      /\ errors \in 0 .. MaxErrors /\ DOMAIN groups \subseteq Names
      /\ \A w \in DOMAIN groups : DOMAIN groups[w] \subseteq CrsEntries
                                   /\ \A d \in DOMAIN groups[w] : groups[w][d] \in 0 .. Files
  BY DEF GroupInv, RunTypeOK
<1>2. /\ at[r] = "crs" /\ name \in DOMAIN groups /\ c \notin DOMAIN groups[name]
      /\ \A d \in 1 .. c - 1 : d \in DOMAIN groups[name]
      /\ groups' = [groups EXCEPT ![name] = With(groups[name], c, written)]
      /\ UNCHANGED <<created, made, running>>
  BY DEF MakeCrs
<1>3. /\ DOMAIN groups' = DOMAIN groups
      /\ DOMAIN groups'[name] = DOMAIN groups[name] \union {c}
      /\ groups'[name][c] = written
      /\ \A d \in DOMAIN groups[name] : groups'[name][d] = groups[name][d]
      /\ \A w \in DOMAIN groups \ {name} : groups'[w] = groups[w]
  BY <1>2 DEF With
<1>4. /\ errors' \in 0 .. MaxErrors /\ errors <= errors'
      /\ at' = at \/ at' = [at EXCEPT ![r] = "prepare"]
      /\ \/ worker' = worker
         \/ worker' = [worker EXCEPT ![r] = name] /\ c = NumCrs /\ written = Files
  BY <1>1 DEF MakeCrs, Fails, Goto
<1>5. name \in Names /\ name # None
  BY <1>1, <1>2, NoName
<1>6. RunTypeOK'
  <2>1. \A w \in DOMAIN groups' : DOMAIN groups'[w] \subseteq CrsEntries
                                   /\ \A d \in DOMAIN groups'[w] : groups'[w][d] \in 0 .. Files
    BY <1>1, <1>3
  <2>2. /\ at' \in [Runs -> {"start", "worker", "crs", "prepare", "up", "down", "clean", "ended", "crashed"}]
        /\ worker' \in [Runs -> Names \union {None}]
    BY <1>1, <1>4, <1>5
  <2> QED
    BY <1>1, <1>2, <1>3, <1>4, <2>1, <2>2 DEF GroupInv, RunTypeOK
<1>7. OwnInv'
  BY <1>2, <1>3 DEF GroupInv, OwnInv, Makers
<1>8. ASSUME NEW q \in Runs, q # r PROVE RunInv(q)'
  <2>1. at'[q] = at[q] /\ worker'[q] = worker[q] /\ RunInv(q)
    BY <1>1, <1>4, <1>8 DEF GroupInv
  <2>2. made[q] # None => made[q] # name
    BY <1>5, <1>8, OwnsIt DEF GroupInv
  <2> QED
    BY <1>1, <1>2, <1>3, <1>4, <2>1, <2>2, OthersKeep
<1>9. RunInv(r)'
  <2>1. worker[r] = None /\ running[r] = {} /\ \A d \in DOMAIN groups[name] : groups[name][d] = Files
    BY <1>2 DEF GroupInv, RunInv, Stage
  <2>2. running'[r] = {} /\ made'[r] = name
    BY <1>2, <2>1
  <2>3. CASE written = Files /\ c = NumCrs
    <3>1. at'[r] = "prepare" /\ worker'[r] = name
      BY <1>1, <2>3 DEF MakeCrs, Goto
    <3>2. DOMAIN groups'[name] = CrsEntries
      <4>1. \A d \in CrsEntries : d = c \/ d \in 1 .. c - 1
        BY <2>3, AllocationAssumption DEF CrsEntries
      <4> QED
        BY <1>1, <1>2, <1>3, <4>1
    <3>3. Complete(name)'
      BY <1>2, <1>3, <2>1, <2>3, <3>2 DEF Complete
    <3> QED
      BY <1>5, <2>2, <3>1, <3>3 DEF RunInv, Stage, Limited, Removed
  <2>4. CASE written = Files /\ c # NumCrs
    <3>1. at'[r] = "crs" /\ worker'[r] = None
      BY <1>2, <2>1, <2>4 DEF MakeCrs
    <3> QED
      BY <1>2, <1>3, <1>5, <2>1, <2>2, <2>4, <3>1 DEF RunInv, Stage, Limited, Removed
  <2>5. CASE written # Files
    <3>1. at'[r] = "prepare" /\ worker'[r] = None
      BY <1>1, <2>1, <2>5 DEF MakeCrs, Goto
    <3> QED
      BY <2>2, <3>1 DEF RunInv, Stage, Limited, Removed
  <2> QED
    BY <2>3, <2>4, <2>5
<1> QED
  BY <1>6, <1>7, <1>8, <1>9 DEF GroupInv

\* docker compose up finds every cgroup it names, with its limits.
LEMMA ComposeUpKeeps ==
  ASSUME GroupInv, NEW r \in Runs, ComposeUp(r)
  PROVE  GroupInv'
<1> USE ResourcesAssumption
<1> DEFINE name == worker[r]
<1>1. /\ at \in [Runs -> {"start", "worker", "crs", "prepare", "up", "down", "clean", "ended", "crashed"}]
      /\ made \in [Runs -> Names \union {None}] /\ worker \in [Runs -> Names \union {None}]
      /\ running \in [Runs -> SUBSET CrsEntries]
      /\ errors \in 0 .. MaxErrors /\ DOMAIN groups \subseteq Names
      /\ \A w \in DOMAIN groups : DOMAIN groups[w] \subseteq CrsEntries
                                   /\ \A d \in DOMAIN groups[w] : groups[w][d] \in 0 .. Files
  BY DEF GroupInv, RunTypeOK
<1>2. /\ at[r] = "prepare" /\ at' = [at EXCEPT ![r] = "up"]
      /\ running' = [running EXCEPT ![r] = CrsEntries]
      /\ UNCHANGED <<created, made, worker, errors>>
  BY DEF ComposeUp, Goto
<1>3. name # None => Complete(name) /\ name = made[r]
  BY <1>2 DEF GroupInv, RunInv, Stage
<1>4. /\ DOMAIN groups' = DOMAIN groups
      /\ \A w \in DOMAIN groups : DOMAIN groups'[w] = DOMAIN groups[w]
                                   /\ \A c \in DOMAIN groups[w] : groups'[w][c] = groups[w][c]
      /\ \A w \in DOMAIN groups \ {name} : groups'[w] = groups[w]
  <2>1. CASE name = None
    BY <2>1 DEF ComposeUp
  <2>2. CASE name # None
    <3>1. name \in DOMAIN groups /\ DOMAIN groups[name] = CrsEntries
      BY <1>3, <2>2 DEF Complete
    <3>2. groups' = With(groups, name, [c \in CrsEntries |-> Written(name, c)])
      BY <2>2 DEF ComposeUp
    <3> QED
      BY <3>1, <3>2 DEF With, Written
  <2> QED
    BY <2>1, <2>2
<1>5. RunTypeOK'
  <2>1. \A w \in DOMAIN groups' : DOMAIN groups'[w] \subseteq CrsEntries
                                   /\ \A d \in DOMAIN groups'[w] : groups'[w][d] \in 0 .. Files
    BY <1>1, <1>4
  <2>2. /\ at' \in [Runs -> {"start", "worker", "crs", "prepare", "up", "down", "clean", "ended", "crashed"}]
        /\ running' \in [Runs -> SUBSET CrsEntries]
    BY <1>1, <1>2
  <2> QED
    BY <1>1, <1>2, <1>4, <2>1, <2>2 DEF GroupInv, RunTypeOK
<1>6. OwnInv'
  BY <1>2, <1>4 DEF GroupInv, OwnInv, Makers
<1>7. ASSUME NEW q \in Runs, q # r PROVE RunInv(q)'
  <2>1. at'[q] = at[q] /\ running'[q] = running[q] /\ RunInv(q)
    BY <1>1, <1>2, <1>7 DEF GroupInv
  <2>2. made[q] # None /\ made[q] \in DOMAIN groups => made[q] # name
    <3>1. name = None \/ name = made[r]
      BY <1>3
    <3> QED
      BY <1>7, <3>1, OwnsIt DEF GroupInv
  <2> QED
    BY <1>1, <1>2, <1>4, <2>1, <2>2, OthersKeep
<1>8. RunInv(r)'
  <2>1. at'[r] = "up" /\ running'[r] = CrsEntries
    BY <1>1, <1>2
  <2> QED
    BY <1>2, <1>3, <1>4, <2>1 DEF Complete, RunInv, Stage, Limited, Removed
<1> QED
  BY <1>5, <1>6, <1>7, <1>8 DEF GroupInv

\* A container that ends leaves the cgroups alone.
LEMMA ExitKeeps ==
  ASSUME GroupInv, NEW r \in Runs, NEW c \in CrsEntries, Exit(r, c)
  PROVE  GroupInv'
<1>1. /\ UNCHANGED <<groups, created, at, made, worker, errors>>
      /\ running' = [running EXCEPT ![r] = @ \ {c}]
      /\ running \in [Runs -> SUBSET CrsEntries] /\ errors \in 0 .. MaxErrors
  BY DEF Exit, GroupInv, RunTypeOK
<1>2. running' \in [Runs -> SUBSET CrsEntries] /\ \A q \in Runs : running'[q] \subseteq running[q]
  BY <1>1
<1>3. RunTypeOK' /\ OwnInv'
  BY <1>1, <1>2 DEF GroupInv, RunTypeOK, OwnInv, Makers
<1>4. \A q \in Runs : RunInv(q)'
  BY <1>1, <1>2 DEF GroupInv, RunInv, Stage, Limited, Removed, Complete
<1> QED
  BY <1>3, <1>4 DEF GroupInv

\* cleanup_cgroup removes the cgroups of its own run alone, and none that is in use.
LEMMA CleanKeeps ==
  ASSUME GroupInv, NEW r \in Runs, CleanCrs(r) \/ CleanWorker(r)
  PROVE  GroupInv'
<1> USE ResourcesAssumption
<1> DEFINE name == worker[r]
<1>1. /\ at \in [Runs -> {"start", "worker", "crs", "prepare", "up", "down", "clean", "ended", "crashed"}]
      /\ made \in [Runs -> Names \union {None}]
      /\ running \in [Runs -> SUBSET CrsEntries]
      /\ errors \in 0 .. MaxErrors /\ DOMAIN groups \subseteq Names
      /\ \A w \in DOMAIN groups : DOMAIN groups[w] \subseteq CrsEntries
                                   /\ \A d \in DOMAIN groups[w] : groups[w][d] \in 0 .. Files
  BY DEF GroupInv, RunTypeOK
<1>2. at[r] = "clean" /\ UNCHANGED <<created, made, worker, running, errors>>
  BY DEF CleanCrs, CleanWorker
<1>3. /\ name # None /\ name = made[r] /\ RunInv(r)
      /\ errors = 0 => running[r] = {}
  BY <1>2 DEF GroupInv, RunInv, Stage
<1>4. ASSUME at' = at \/ at' = [at EXCEPT ![r] = "ended"],
             DOMAIN groups' \subseteq DOMAIN groups,
             \A w \in DOMAIN groups \ {name} : w \in DOMAIN groups' /\ groups'[w] = groups[w],
             \A w \in DOMAIN groups' : /\ DOMAIN groups'[w] \subseteq DOMAIN groups[w]
                                       /\ \A c \in DOMAIN groups'[w] : groups'[w][c] = groups[w][c],
             RunInv(r)'
      PROVE  GroupInv'
  <2>1. \A w \in DOMAIN groups' : DOMAIN groups'[w] \subseteq CrsEntries
                                   /\ \A d \in DOMAIN groups'[w] : groups'[w][d] \in 0 .. Files
    BY <1>1, <1>4
  <2>2. at' \in [Runs -> {"start", "worker", "crs", "prepare", "up", "down", "clean", "ended", "crashed"}]
    BY <1>1, <1>4
  <2>3. RunTypeOK'
    BY <1>1, <1>2, <1>4, <2>1, <2>2 DEF GroupInv, RunTypeOK
  <2>4. OwnInv'
    BY <1>2, <1>4 DEF GroupInv, OwnInv, Makers
  <2>5. ASSUME NEW q \in Runs, q # r PROVE RunInv(q)'
    <3>1. at'[q] = at[q] /\ RunInv(q)
      BY <1>1, <1>4, <2>5 DEF GroupInv
    <3>2. made[q] # None => made[q] # name
      BY <1>3, <2>5, OwnsIt DEF GroupInv
    <3> QED
      BY <1>1, <1>2, <1>4, <3>1, <3>2, OthersKeep
  <2> QED
    BY <1>4, <2>3, <2>4, <2>5 DEF GroupInv
<1>5. CASE CleanCrs(r)
  <2>1. name \in DOMAIN groups
    BY <1>5 DEF CleanCrs
  <2>2. PICK c \in DOMAIN groups[name] :
          IF InUse(name, c) THEN Goto(r, "ended") /\ UNCHANGED groups
          ELSE /\ groups' = [groups EXCEPT ![name] =
                               [d \in DOMAIN groups[name] \ {c} |-> groups[name][d]]]
               /\ UNCHANGED at
    BY <1>5 DEF CleanCrs
  <2>3. CASE InUse(name, c)
    <3>1. at' = [at EXCEPT ![r] = "ended"] /\ UNCHANGED groups /\ at'[r] = "ended"
      BY <1>1, <2>2, <2>3 DEF Goto
    <3>2. errors # 0
      <4>1. PICK q \in Runs : worker[q] = name /\ c \in running[q]
        BY <2>3 DEF InUse
      <4>2. made[q] = name
        BY <1>3, <4>1 DEF GroupInv, RunInv, Stage
      <4>3. q = r
        BY <1>3, <4>2, OwnsIt DEF GroupInv
      <4> QED
        BY <1>3, <4>1, <4>3
    <3>3. RunInv(r)'
      BY <1>2, <1>3, <3>1, <3>2 DEF RunInv, Stage, Limited, Removed
    <3> QED
      BY <1>4, <3>1, <3>3
  <2>4. CASE ~InUse(name, c)
    <3>1. /\ DOMAIN groups' = DOMAIN groups /\ at' = at
          /\ \A w \in DOMAIN groups \ {name} : groups'[w] = groups[w]
          /\ DOMAIN groups'[name] = DOMAIN groups[name] \ {c}
          /\ \A d \in DOMAIN groups[name] \ {c} : groups'[name][d] = groups[name][d]
      BY <2>1, <2>2, <2>4
    <3>2. c \notin running[r]
      BY <2>4 DEF InUse
    <3>3. RunInv(r)'
      BY <1>2, <1>3, <2>1, <3>1, <3>2 DEF RunInv, Stage, Limited, Removed
    <3> QED
      BY <1>4, <2>1, <3>1, <3>3
  <2> QED
    BY <2>3, <2>4
<1>6. CASE CleanWorker(r)
  <2>1. /\ name \in DOMAIN groups => DOMAIN groups[name] = {}
        /\ groups' = [w \in DOMAIN groups \ {name} |-> groups[w]]
        /\ at' = [at EXCEPT ![r] = "ended"] /\ at'[r] = "ended"
    BY <1>1, <1>6 DEF CleanWorker, Goto
  <2>2. running[r] = {}
    BY <1>3, <2>1 DEF RunInv, Limited
  <2>3. RunInv(r)'
    BY <1>2, <1>3, <2>1, <2>2 DEF RunInv, Stage, Limited, Removed
  <2> QED
    BY <1>4, <2>1, <2>3
<1> QED
  BY <1>5, <1>6

-----------------------------------------------------------------------------

\* The initial state satisfies the invariant.
LEMMA InitGroupInv == ResourceInit => GroupInv
<1> SUFFICES ASSUME ResourceInit PROVE GroupInv
  OBVIOUS
<1> USE ResourcesAssumption
<1>1. /\ DOMAIN groups = {} /\ created = 0 /\ at = [r \in Runs |-> "start"] /\ errors = 0
      /\ made = [r \in Runs |-> None] /\ worker = [r \in Runs |-> None]
      /\ running = [r \in Runs |-> {}]
  BY DEF ResourceInit
<1>2. Makers = {} /\ Cardinality({}) = 0 /\ Cardinality(Runs) \in Nat
  BY <1>1, FS_EmptySet, FS_CardinalityType DEF Makers
<1>3. RunTypeOK
  BY <1>1, <1>2 DEF RunTypeOK
<1>4. OwnInv
  BY <1>1, <1>2 DEF OwnInv
<1>5. \A r \in Runs : RunInv(r)
  BY <1>1 DEF RunInv, Stage, Limited, Removed
<1> QED
  BY <1>3, <1>4, <1>5 DEF GroupInv

\* The invariant is inductive.
LEMMA NextGroupInv == GroupInv /\ [ResourceNext]_resourceVars => GroupInv'
<1> SUFFICES ASSUME GroupInv, [ResourceNext]_resourceVars PROVE GroupInv'
  OBVIOUS
<1>1. ASSUME UNCHANGED groupVars PROVE GroupInv'
  <2>1. UNCHANGED <<groups, created, at, made, worker, running, errors>>
    BY <1>1 DEF groupVars
  <2> QED
    BY <2>1 DEF GroupInv, RunTypeOK, OwnInv, Makers, RunInv, Stage, Limited, Removed, Complete
<1>2. ASSUME NEW t \in Templates, NEW p \in Pools, NEW m \in Memories, GenCompose(t, p, m)
      PROVE  GroupInv'
  BY <1>1, <1>2 DEF GenCompose
<1>3. ASSUME NEW r \in Runs, RunStep(r) PROVE GroupInv'
  BY <1>3, CheckKeeps, MakeWorkerKeeps, MakeCrsKeeps, ComposeUpKeeps, CleanKeeps DEF RunStep
<1>4. ASSUME NEW r \in Runs, Crash(r) PROVE GroupInv'
  BY <1>4, CheckKeeps
<1>5. ASSUME NEW r \in Runs, NEW c \in CrsEntries, Exit(r, c) PROVE GroupInv'
  BY <1>5, ExitKeeps
<1>6. CASE UNCHANGED resourceVars
  BY <1>1, <1>6 DEF resourceVars
<1> QED
  BY <1>2, <1>3, <1>4, <1>5, <1>6 DEF ResourceNext

\* The inductive invariant holds of every behaviour.
THEOREM SpecGroupInv == ResourceSpec => []GroupInv
BY InitGroupInv, NextGroupInv, PTL DEF ResourceSpec

\* Containers with a cgroup parent run in a cgroup all of whose limits were written
\* (create_run_cgroups), and that the cleanup of no run, be it of the same id, has removed.
THEOREM SpecLimitsInForce == ResourceSpec => []LimitsInForce
<1>1. GroupInv => LimitsInForce
  BY DEF GroupInv, RunInv, Limited, LimitsInForce
<1> QED
  BY <1>1, SpecGroupInv, PTL

\* A run that ended, without an error, has removed its cgroups (cleanup_cgroup).
THEOREM SpecNoGroupIsLeft == ResourceSpec => []NoGroupIsLeft
<1>1. GroupInv => NoGroupIsLeft
  BY DEF GroupInv, RunInv, Removed, NoGroupIsLeft
<1> QED
  BY <1>1, SpecGroupInv, PTL

-----------------------------------------------------------------------------
(***************************************************************************)
(* The allocation of Resources.  What scale_cpusets and scale_memory       *)
(* compute are sums and iterations.  What holds of each set of entries     *)
(* holds because there is no smallest one of which it does not (SetsOf),   *)
(* and the like of the naturals (NatsOf): every step of an argument names  *)
(* the set of those of which it holds, so no operator is a parameter.      *)
(***************************************************************************)

\* Induction: a set of naturals with 0 that is closed under successors has all of them.
LEMMA NatsOf ==
  ASSUME NEW S, 0 \in S, \A n \in Nat : n \in S => n + 1 \in S
  PROVE  Nat \subseteq S
<1> SUFFICES ASSUME ~(Nat \subseteq S) PROVE FALSE
  OBVIOUS
<1> DEFINE T == Nat \ S
<1>1. T \subseteq Nat /\ T # {}
  OBVIOUS
<1> HIDE DEF T
<1>2. PICK m \in T : \A k \in T : <<k, m>> \notin OpToRel(<, Nat)
  BY <1>1, NatLessThanWellFounded, WFMin
<1>3. \A k \in T : ~(k < m)
  BY <1>1, <1>2 DEF OpToRel
<1> USE DEF T
<1>4. m \in Nat /\ m # 0
  OBVIOUS
<1>5. m - 1 \in S
  BY <1>3, <1>4
<1> QED
  BY <1>4, <1>5

\* The element of S that MapThenSumSet takes first.
Pick(S) == CHOOSE x \in S : TRUE

\* A family has S if it has each subset all of whose maximal proper subsets it has.
LEMMA SetsOf ==
  ASSUME NEW S, IsFiniteSet(S), NEW F,
         \A T \in SUBSET S : (\A x \in T : T \ {x} \in F) => T \in F
  PROVE  S \in F
<1> DEFINE N == { n \in Nat : \A T \in SUBSET S : Cardinality(T) = n => T \in F }
<1>1. 0 \in N
  <2>1. \A T \in SUBSET S : Cardinality(T) = 0 => T = {}
    BY FS_Subset, FS_EmptySet
  <2> QED
    BY <2>1
<1>2. ASSUME NEW n \in Nat, n \in N PROVE n + 1 \in N
  <2> SUFFICES ASSUME NEW T \in SUBSET S, Cardinality(T) = n + 1, NEW x \in T
               PROVE  T \ {x} \in F
    OBVIOUS
  <2>1. Cardinality(T \ {x}) = Cardinality(T) - 1
    BY FS_Subset, FS_RemoveElement
  <2>2. Cardinality(T \ {x}) = n
    BY <2>1
  <2> QED
    BY <1>2, <2>2
<1> HIDE DEF N
<1>3. Nat \subseteq N
  BY <1>1, <1>2, NatsOf
<1>4. Cardinality(S) \in N
  BY <1>3, FS_CardinalityType
<1> QED
  BY <1>4 DEF N


\* The sum of c over S; all of c[e] are integers.
SumOver(c, S) == MapThenSumSet(LAMBDA e : c[e], S)
Ints(c, S) == \A e \in S : c[e] \in Int

\* g sums the subsets of S.
Sums(c, S, g) ==
  g = [s \in SUBSET S |-> IF s = {} THEN 0 ELSE c[Pick(s)] + g[s \ {Pick(s)}]]

\* A sum is what such a function gives S.
LEMMA SumIsSums ==
  ASSUME NEW c, NEW S
  PROVE  SumOver(c, S) = (CHOOSE g : Sums(c, S, g))[S]
BY DEF SumOver, MapThenSumSet, MapThenFoldSet, Sums, Pick

\* Two ways to sum agree where both do.
LEMMA SumsAgree ==
  ASSUME NEW c, NEW S, NEW T, NEW g, NEW h, Sums(c, S, g), Sums(c, T, h), IsFiniteSet(S),
         T \subseteq S
  PROVE  g[T] = h[T]
<1> DEFINE F == { s \in SUBSET T : g[s] = h[s] }
<1>1. \A s \in SUBSET T : /\ g[s] = IF s = {} THEN 0 ELSE c[Pick(s)] + g[s \ {Pick(s)}]
                          /\ h[s] = IF s = {} THEN 0 ELSE c[Pick(s)] + h[s \ {Pick(s)}]
  BY DEF Sums
<1>2. ASSUME NEW s \in SUBSET T, \A x \in s : s \ {x} \in F PROVE s \in F
  BY <1>1, <1>2 DEF Pick
<1> HIDE DEF F
<1>3. T \in F
  BY <1>2, FS_Subset, SetsOf
<1> QED
  BY <1>3 DEF F

\* The subsets of S can be summed.
LEMMA SumsExist ==
  ASSUME NEW c, NEW S, IsFiniteSet(S)
  PROVE  \E g : Sums(c, S, g)
<1> DEFINE Small(n) == { s \in SUBSET S : Cardinality(s) <= n }
           Part(n, g) == g = [s \in Small(n) |->
                                IF s = {} THEN 0 ELSE c[Pick(s)] + g[s \ {Pick(s)}]]
           N == { n \in Nat : \E g : Part(n, g) }
<1>0. \A s \in SUBSET S : /\ IsFiniteSet(s) /\ Cardinality(s) \in Nat
                          /\ Cardinality(s) = 0 <=> s = {}
                          /\ Cardinality(s) <= Cardinality(S)
  BY FS_Subset, FS_CardinalityType, FS_EmptySet
<1>1. 0 \in N
  <2> DEFINE g == [s \in Small(0) |-> 0]
  <2>1. \A s \in Small(0) : s = {}
    BY <1>0
  <2>2. Part(0, g)
    BY <2>1
  <2> QED
    BY <2>2
<1>2. ASSUME NEW n \in Nat, n \in N PROVE n + 1 \in N
  <2>1. PICK g : Part(n, g)
    BY <1>2
  <2> DEFINE h == [s \in Small(n + 1) |-> IF s = {} THEN 0 ELSE c[Pick(s)] + g[s \ {Pick(s)}]]
  <2>2. ASSUME NEW s \in Small(n + 1), s # {} PROVE s \ {Pick(s)} \in Small(n)
    <3>1. Pick(s) \in s
      BY <2>2 DEF Pick
    <3>2. Cardinality(s \ {Pick(s)}) = Cardinality(s) - 1
      BY <1>0, <3>1, FS_RemoveElement
    <3> QED
      BY <1>0, <2>2, <3>2
  <2>3. ASSUME NEW s \in Small(n) PROVE h[s] = g[s]
    <3>1. s \in Small(n + 1)
      BY <1>0
    <3> HIDE DEF Small
    <3> QED
      BY <2>1, <3>1
  <2>4. Part(n + 1, h)
    <3>1. \A s \in Small(n + 1) : s # {} => h[s \ {Pick(s)}] = g[s \ {Pick(s)}]
      BY <2>2, <2>3
    <3> HIDE DEF Small
    <3> QED
      BY <3>1
  <2> HIDE DEF h, Part
  <2> QED
    BY <2>4
<1> HIDE DEF N
<1>3. Nat \subseteq N
  BY <1>1, <1>2, NatsOf
<1>4. Cardinality(S) \in N
  BY <1>3, FS_CardinalityType
<1>5. PICK g : Part(Cardinality(S), g)
  BY <1>4 DEF N
<1>6. Small(Cardinality(S)) = SUBSET S
  BY <1>0
<1> HIDE DEF Small
<1> QED
  BY <1>5, <1>6 DEF Sums

\* The sum of a set is the element picked from it and the sum of the rest.
LEMMA SumStep ==
  ASSUME NEW c, NEW S, IsFiniteSet(S)
  PROVE  SumOver(c, S) = IF S = {} THEN 0 ELSE c[Pick(S)] + SumOver(c, S \ {Pick(S)})
<1> DEFINE g == CHOOSE g : Sums(c, S, g)
           R == S \ {Pick(S)}
           h == CHOOSE h : Sums(c, R, h)
<1>1. IsFiniteSet(R) /\ R \subseteq S
  BY FS_Subset
<1>2. Sums(c, S, g)
  BY SumsExist
<1>3. Sums(c, R, h)
  BY <1>1, SumsExist
<1>4. SumOver(c, S) = g[S] /\ SumOver(c, R) = h[R]
  BY SumIsSums
<1>5. g[S] = IF S = {} THEN 0 ELSE c[Pick(S)] + g[R]
  BY <1>2 DEF Sums
<1> HIDE DEF g, h, R
<1>6. g[R] = h[R]
  BY <1>1, <1>2, <1>3, SumsAgree
<1> QED
  BY <1>4, <1>5, <1>6 DEF R

\* The sum of integers is one.
LEMMA SumType ==
  ASSUME NEW c, NEW S, IsFiniteSet(S), Ints(c, S)
  PROVE  SumOver(c, S) \in Int
<1> DEFINE F == { s \in SUBSET S : SumOver(c, s) \in Int }
<1>1. ASSUME NEW s \in SUBSET S, \A x \in s : s \ {x} \in F PROVE s \in F
  <2>1. s # {} => c[Pick(s)] \in Int /\ Pick(s) \in s
    BY <1>1 DEF Pick, Ints
  <2>2. SumOver(c, s) = IF s = {} THEN 0 ELSE c[Pick(s)] + SumOver(c, s \ {Pick(s)})
    BY <1>1, FS_Subset, SumStep
  <2> QED
    BY <1>1, <2>1, <2>2
<1> HIDE DEF F
<1>2. S \in F
  BY <1>1, SetsOf
<1> QED
  BY <1>2 DEF F

\* Any element can be taken out of a sum.
LEMMA SumRemove ==
  ASSUME NEW c, NEW S, IsFiniteSet(S), Ints(c, S), NEW x \in S
  PROVE  SumOver(c, S) = c[x] + SumOver(c, S \ {x})
<1> DEFINE F == { s \in SUBSET S : \A y \in s : SumOver(c, s) = c[y] + SumOver(c, s \ {y}) }
<1>0. \A s \in SUBSET S : IsFiniteSet(s) /\ SumOver(c, s) \in Int
  BY FS_Subset, SumType DEF Ints
<1>1. ASSUME NEW s \in SUBSET S, \A y \in s : s \ {y} \in F PROVE s \in F
  <2> SUFFICES ASSUME NEW y \in s PROVE SumOver(c, s) = c[y] + SumOver(c, s \ {y})
    OBVIOUS
  <2> DEFINE p == Pick(s)
  <2>1. SumOver(c, s) = c[p] + SumOver(c, s \ {p}) /\ p \in s
    BY <1>0, SumStep DEF Pick
  <2> HIDE DEF p
  <2>2. CASE y # p
    <3> DEFINE r == (s \ {p}) \ {y}
    <3>1. SumOver(c, s \ {p}) = c[y] + SumOver(c, r)
      BY <1>1, <2>1, <2>2
    <3>2. SumOver(c, s \ {y}) = c[p] + SumOver(c, r)
      <4>1. (s \ {y}) \ {p} = r
        OBVIOUS
      <4> QED
        BY <1>1, <2>1, <2>2, <4>1
    <3>3. c[y] \in Int /\ c[p] \in Int /\ SumOver(c, r) \in Int
      BY <1>0, <2>1 DEF Ints
    <3> HIDE DEF F, r
    <3> QED
      BY <2>1, <3>1, <3>2, <3>3
  <2> QED
    BY <2>1, <2>2
<1> HIDE DEF F
<1>2. S \in F
  BY <1>1, SetsOf
<1> QED
  BY <1>2 DEF F

\* The empty sum, and the sum of a larger set.
LEMMA SumEmpty == ASSUME NEW c PROVE SumOver(c, {}) = 0
BY FS_EmptySet, SumStep

\* One element more adds its number.
LEMMA SumAdd ==
  ASSUME NEW c, NEW S, IsFiniteSet(S), Ints(c, S), NEW x, x \notin S, c[x] \in Int
  PROVE  SumOver(c, S \union {x}) = c[x] + SumOver(c, S)
<1> DEFINE T == S \union {x}
<1>1. IsFiniteSet(T) /\ Ints(c, T) /\ x \in T /\ T \ {x} = S
  BY FS_AddElement DEF Ints
<1> QED
  BY <1>1, SumRemove

\* Sums depend on the elements only.
LEMMA SumSame ==
  ASSUME NEW b, NEW c, NEW S, IsFiniteSet(S), Ints(c, S), \A e \in S : b[e] = c[e]
  PROVE  SumOver(b, S) = SumOver(c, S)
<1> DEFINE F == { s \in SUBSET S : SumOver(b, s) = SumOver(c, s) }
<1>1. ASSUME NEW s \in SUBSET S, \A x \in s : s \ {x} \in F PROVE s \in F
  <2>1. s # {} => Pick(s) \in s
    BY DEF Pick
  <2>2. /\ SumOver(b, s) = IF s = {} THEN 0 ELSE b[Pick(s)] + SumOver(b, s \ {Pick(s)})
        /\ SumOver(c, s) = IF s = {} THEN 0 ELSE c[Pick(s)] + SumOver(c, s \ {Pick(s)})
    BY FS_Subset, SumStep
  <2> QED
    BY <1>1, <2>1, <2>2
<1> HIDE DEF F
<1>2. S \in F
  BY <1>1, SetsOf
<1> QED
  BY <1>2 DEF F

\* The sum of sums.
LEMMA SumPlus ==
  ASSUME NEW b, NEW c, NEW d, NEW S, IsFiniteSet(S), Ints(b, S), Ints(c, S),
         \A e \in S : d[e] = b[e] + c[e]
  PROVE  SumOver(d, S) = SumOver(b, S) + SumOver(c, S)
<1> DEFINE F == { s \in SUBSET S : SumOver(d, s) = SumOver(b, s) + SumOver(c, s) }
<1>1. ASSUME NEW s \in SUBSET S, \A x \in s : s \ {x} \in F PROVE s \in F
  <2> DEFINE p == Pick(s)
             r == s \ {p}
  <2>1. s # {} => p \in s /\ r \in F /\ b[p] \in Int /\ c[p] \in Int /\ d[p] = b[p] + c[p]
    BY <1>1 DEF Pick, Ints
  <2>2. /\ SumOver(b, s) = IF s = {} THEN 0 ELSE b[p] + SumOver(b, r)
        /\ SumOver(c, s) = IF s = {} THEN 0 ELSE c[p] + SumOver(c, r)
        /\ SumOver(d, s) = IF s = {} THEN 0 ELSE d[p] + SumOver(d, r)
    BY FS_Subset, SumStep
  <2>3. SumOver(b, r) \in Int /\ SumOver(c, r) \in Int
    BY FS_Subset, SumType DEF Ints
  <2>4. r \in F => SumOver(d, r) = SumOver(b, r) + SumOver(c, r)
    OBVIOUS
  <2>5. SumOver(d, s) = SumOver(b, s) + SumOver(c, s)
    <3> HIDE DEF p, r, F
    <3> QED
      BY <2>1, <2>2, <2>3, <2>4
  <2> QED
    BY <2>5
<1> HIDE DEF F
<1>2. S \in F
  BY <1>1, SetsOf
<1> QED
  BY <1>2 DEF F

\* The sum of multiples.
LEMMA SumTimes ==
  ASSUME NEW b, NEW c, NEW k \in Int, NEW S, IsFiniteSet(S), Ints(b, S),
         \A e \in S : c[e] = k * b[e]
  PROVE  SumOver(c, S) = k * SumOver(b, S)
<1> DEFINE F == { s \in SUBSET S : SumOver(c, s) = k * SumOver(b, s) }
<1>1. ASSUME NEW s \in SUBSET S, \A x \in s : s \ {x} \in F PROVE s \in F
  <2> DEFINE p == Pick(s)
             r == s \ {p}
  <2>1. s # {} => p \in s /\ r \in F /\ b[p] \in Int /\ c[p] = k * b[p]
    BY <1>1 DEF Pick, Ints
  <2>2. /\ SumOver(b, s) = IF s = {} THEN 0 ELSE b[p] + SumOver(b, r)
        /\ SumOver(c, s) = IF s = {} THEN 0 ELSE c[p] + SumOver(c, r)
    BY FS_Subset, SumStep
  <2>3. SumOver(b, r) \in Int
    BY FS_Subset, SumType DEF Ints
  <2>4. \A x, y \in Int : k * (x + y) = k * x + k * y /\ k * 0 = 0
    OBVIOUS
  <2>5. r \in F => SumOver(c, r) = k * SumOver(b, r)
    OBVIOUS
  <2>6. SumOver(c, s) = k * SumOver(b, s)
    <3> HIDE DEF p, r, F
    <3> QED
      BY <2>1, <2>2, <2>3, <2>4, <2>5
  <2> QED
    BY <2>6
<1> HIDE DEF F
<1>2. S \in F
  BY <1>1, SetsOf
<1> QED
  BY <1>2 DEF F

\* Sums of less are less.
LEMMA SumLess ==
  ASSUME NEW b, NEW c, NEW S, IsFiniteSet(S), Ints(b, S), Ints(c, S), \A e \in S : b[e] <= c[e]
  PROVE  SumOver(b, S) <= SumOver(c, S)
<1> DEFINE F == { s \in SUBSET S : SumOver(b, s) <= SumOver(c, s) }
<1>1. ASSUME NEW s \in SUBSET S, \A x \in s : s \ {x} \in F PROVE s \in F
  <2> DEFINE p == Pick(s)
             r == s \ {p}
  <2>1. s # {} => p \in s /\ r \in F /\ b[p] \in Int /\ c[p] \in Int /\ b[p] <= c[p]
    BY <1>1 DEF Pick, Ints
  <2>2. /\ SumOver(b, s) = IF s = {} THEN 0 ELSE b[p] + SumOver(b, r)
        /\ SumOver(c, s) = IF s = {} THEN 0 ELSE c[p] + SumOver(c, r)
    BY FS_Subset, SumStep
  <2>3. SumOver(b, r) \in Int /\ SumOver(c, r) \in Int
    BY FS_Subset, SumType DEF Ints
  <2> HIDE DEF p, r
  <2> QED
    BY <2>1, <2>2, <2>3
<1> HIDE DEF F
<1>2. S \in F
  BY <1>1, SetsOf
<1> QED
  BY <1>2 DEF F

\* A sum of ones and zeros counts the ones.
LEMMA SumCounts ==
  ASSUME NEW c, NEW S, IsFiniteSet(S), \A e \in S : c[e] \in {0, 1}
  PROVE  SumOver(c, S) = Cardinality({ e \in S : c[e] = 1 })
<1> DEFINE Ones(s) == { e \in s : c[e] = 1 }
           F == { s \in SUBSET S : SumOver(c, s) = Cardinality(Ones(s)) }
<1>1. ASSUME NEW s \in SUBSET S, \A x \in s : s \ {x} \in F PROVE s \in F
  <2>0. IsFiniteSet(s) /\ IsFiniteSet(Ones(s)) /\ Cardinality(Ones(s)) \in Nat
    BY FS_Subset, FS_CardinalityType
  <2>1. CASE s = {}
    BY <2>1, SumEmpty, FS_EmptySet
  <2>2. CASE s # {}
    <3> DEFINE p == Pick(s)
    <3>1. SumOver(c, s) = c[p] + SumOver(c, s \ {p}) /\ p \in s
      BY <2>0, <2>2, SumStep DEF Pick
    <3> HIDE DEF p
    <3>2. SumOver(c, s \ {p}) = Cardinality(Ones(s \ {p}))
      BY <1>1, <3>1
    <3>3. Ones(s \ {p}) = Ones(s) \ {p} /\ (p \in Ones(s) <=> c[p] = 1) /\ c[p] \in {0, 1}
      BY <3>1
    <3>4. Cardinality(Ones(s) \ {p}) = IF p \in Ones(s) THEN Cardinality(Ones(s)) - 1
                                       ELSE Cardinality(Ones(s))
      BY <2>0, FS_RemoveElement
    <3>5. SumOver(c, s) = Cardinality(Ones(s))
      <4> HIDE DEF Ones, F
      <4>1. CASE c[p] = 1
        <5>1. SumOver(c, s \ {p}) = Cardinality(Ones(s)) - 1
          BY <3>2, <3>3, <3>4, <4>1
        <5> QED
          BY <2>0, <3>1, <4>1, <5>1
      <4>2. CASE c[p] = 0
        BY <2>0, <3>1, <3>2, <3>3, <3>4, <4>2
      <4> QED
        BY <3>3, <4>1, <4>2
    <3> QED
      BY <3>5
  <2> QED
    BY <2>1, <2>2
<1> HIDE DEF F
<1>2. S \in F
  BY <1>1, SetsOf
<1> QED
  BY <1>2 DEF F

\* The sum of equal numbers.
LEMMA SumEqual ==
  ASSUME NEW c, NEW k \in Int, NEW S, IsFiniteSet(S), \A e \in S : c[e] = k
  PROVE  SumOver(c, S) = k * Cardinality(S)
<1> DEFINE one == [e \in S |-> 1]
<1>1. { e \in S : one[e] = 1 } = S
  OBVIOUS
<1>2. SumOver(one, S) = Cardinality(S)
  BY <1>1, SumCounts
<1>3. Ints(one, S) /\ \A e \in S : c[e] = k * one[e]
  BY DEF Ints
<1> HIDE DEF one
<1> QED
  BY <1>2, <1>3, SumTimes

-----------------------------------------------------------------------------
(* The remainder of a division goes round the CRSs (Extra).                 *)

\* The entries are the infrastructure, numbered 0, and NumCrs CRSs.
LEMMA EntryFacts ==
  /\ IsFiniteSet(Entries) /\ IsFiniteSet(CrsEntries)
  /\ Cardinality(Entries) = NumCrs + 1 /\ Cardinality(CrsEntries) = NumCrs
  /\ Entries = CrsEntries \union {0} /\ 0 \notin CrsEntries /\ CrsEntries # {}
  /\ NumCrs \in Nat \ {0}
<1>1. NumCrs \in Nat \ {0}
  BY AllocationAssumption
<1>2. IsFiniteSet(Entries) /\ Cardinality(Entries) = NumCrs + 1
  BY <1>1, FS_Interval DEF Entries
<1>3. IsFiniteSet(CrsEntries) /\ Cardinality(CrsEntries) = NumCrs
  BY <1>1, FS_Interval DEF CrsEntries
<1>4. Entries = CrsEntries \union {0} /\ 0 \notin CrsEntries /\ 1 \in CrsEntries
  BY <1>1 DEF Entries, CrsEntries
<1> QED
  BY <1>1, <1>2, <1>3, <1>4

\* A quotient and a remainder.
Divided(a, n, q, r) ==
  q \in Int /\ r \in 0 .. n - 1 /\ a = n * q + r /\ (a >= 0 => q >= 0)

\* Integer division gives them.
LEMMA DivMod ==
  ASSUME NEW a \in Int, NEW n \in Nat \ {0}, NEW q, q = a \div n, NEW r, r = a % n
  PROVE  Divided(a, n, q, r)
<1>1. q \in Int /\ r \in 0 .. n - 1 /\ (a >= 0 => q >= 0)
  OBVIOUS
<1>2. r = a - n * q
  BY <1>1
<1>3. \A s, t \in Int : s = a - t => a = t + s
  OBVIOUS
<1>4. n * q \in Int /\ r \in Int
  BY <1>1
<1>5. a = n * q + r
  BY <1>2, <1>3, <1>4
<1> QED
  BY <1>1, <1>5 DEF Divided

\* The CRSs that are served before e, and how many there are.
Above(amounts, e) == { f \in CrsEntries : Larger(amounts, f, e) }
Place(amounts, e) == Cardinality(Above(amounts, e))

\* Descending amounts, then the names, order the entries.
LEMMA LargerOrders ==
  ASSUME NEW amounts, Ints(amounts, Entries)
  PROVE  /\ \A e \in Entries : ~Larger(amounts, e, e)
         /\ \A e, f \in Entries : e # f => Larger(amounts, e, f) \/ Larger(amounts, f, e)
         /\ \A e, f, g \in Entries :
              Larger(amounts, e, f) /\ Larger(amounts, f, g) => Larger(amounts, e, g)
<1>1. \A e \in Entries : amounts[e] \in Int /\ NameRank[e] \in Int
  BY AllocationAssumption DEF Ints, Entries
<1>2. \A e, f \in Entries : NameRank[e] = NameRank[f] => e = f
  BY AllocationAssumption DEF Entries
<1> QED
  BY <1>1, <1>2 DEF Larger

\* The places of the CRSs are 0 .. NumCrs - 1, one of each.
LEMMA Places ==
  ASSUME NEW amounts, Ints(amounts, Entries)
  PROVE  /\ \A e \in CrsEntries : Place(amounts, e) \in 0 .. NumCrs - 1
         /\ \A e, f \in CrsEntries : e # f => Place(amounts, e) # Place(amounts, f)
<1>0. \A e \in CrsEntries : /\ Above(amounts, e) \subseteq CrsEntries /\ e \notin Above(amounts, e)
                            /\ IsFiniteSet(Above(amounts, e)) /\ Place(amounts, e) \in Nat
  BY EntryFacts, LargerOrders, FS_Subset, FS_CardinalityType DEF Above, Place
<1>1. ASSUME NEW e \in CrsEntries PROVE Place(amounts, e) \in 0 .. NumCrs - 1
  <2>1. Place(amounts, e) <= NumCrs /\ Place(amounts, e) # NumCrs
    BY <1>0, EntryFacts, FS_Subset DEF Place
  <2> QED
    BY <1>0, <2>1, EntryFacts
<1>2. ASSUME NEW e \in CrsEntries, NEW f \in CrsEntries, Larger(amounts, e, f)
      PROVE  Place(amounts, e) # Place(amounts, f)
  <2>1. Above(amounts, e) \subseteq Above(amounts, f) /\ e \in Above(amounts, f)
    BY <1>2, EntryFacts, LargerOrders DEF Above
  <2> QED
    BY <1>0, <2>1, FS_Subset DEF Place
<1>3. \A e, f \in CrsEntries : e # f => Larger(amounts, e, f) \/ Larger(amounts, f, e)
  BY EntryFacts, LargerOrders
<1> QED
  BY <1>1, <1>2, <1>3

\* So k CRSs have a place below k.
LEMMA PlacesCount ==
  ASSUME NEW amounts, Ints(amounts, Entries), NEW k \in 0 .. NumCrs
  PROVE  Cardinality({ e \in CrsEntries : Place(amounts, e) < k }) = k
<1> DEFINE place == [e \in CrsEntries |-> Place(amounts, e)]
           K == { e \in CrsEntries : Place(amounts, e) < k }
           T == 0 .. NumCrs - 1
           low == [e \in K |-> Place(amounts, e)]
<1>0. k \in Int /\ NumCrs \in Int /\ 0 <= k /\ k <= NumCrs
  BY EntryFacts
<1>1. /\ IsFiniteSet(T) /\ Cardinality(T) = NumCrs
      /\ IsFiniteSet(0 .. k - 1) /\ Cardinality(0 .. k - 1) = k
  <2>1. ASSUME NEW n \in Int, n >= 0
        PROVE  IsFiniteSet(0 .. n - 1) /\ Cardinality(0 .. n - 1) = n
    <3>1. n - 1 \in Int /\ 0 > n - 1 <=> n = 0
      BY <2>1
    <3> QED
      BY <2>1, <3>1, FS_Interval
  <2> QED
    BY <1>0, <2>1
<1>2. place \in Injection(CrsEntries, T)
  BY Places DEF Injection, IsInjective
<1>3. place \in Surjection(CrsEntries, T)
  BY <1>1, <1>2, EntryFacts, FS_Injection
<1>4. \A n \in T : \E e \in CrsEntries : Place(amounts, e) = n
  BY <1>3 DEF Surjection
<1>5. low \in Injection(K, 0 .. k - 1)
  BY <1>0, Places DEF Injection, IsInjective
<1>6. low \in Surjection(K, 0 .. k - 1)
  <2>1. \A n \in 0 .. k - 1 : \E e \in K : low[e] = n
    BY <1>0, <1>4
  <2> QED
    BY <1>5, <2>1 DEF Surjection, Injection
<1> QED
  BY <1>1, <1>5, <1>6, FS_Injection

\* Each entry gets some, and together they get the remainder.
LEMMA ExtraSum ==
  ASSUME NEW amounts, Ints(amounts, Entries), NEW rest \in Int,
         NEW c, \A e \in Entries : c[e] = Extra(amounts, rest, e)
  PROVE  /\ \A e \in Entries : c[e] \in Nat
         /\ SumOver(c, Entries) = IF rest <= 0 THEN 0 ELSE rest
<1> DEFINE share == rest \div NumCrs
           odd == rest % NumCrs
<1>00. share = rest \div NumCrs /\ odd = rest % NumCrs
  OBVIOUS
<1> HIDE DEF share, odd
<1>0. /\ share \in Int /\ odd \in 0 .. NumCrs - 1 /\ rest = NumCrs * share + odd
      /\ rest >= 0 => share >= 0
  <2>1. NumCrs \in Nat \ {0}
    BY EntryFacts
  <2>2. Divided(rest, NumCrs, share, odd)
    BY <1>00, <2>1, DivMod
  <2> QED
    BY <2>2 DEF Divided
<1>1. CASE rest <= 0
  <2>1. \A e \in Entries : c[e] = 0
    BY <1>1 DEF Extra
  <2>2. SumOver(c, Entries) = 0 * (NumCrs + 1)
    BY <2>1, EntryFacts, SumEqual
  <2> QED
    BY <1>1, <2>1, <2>2, EntryFacts
<1>2. CASE rest > 0
  <2> DEFINE one == [e \in CrsEntries |-> IF Place(amounts, e) < odd THEN 1 ELSE 0]
             even == [e \in CrsEntries |-> share]
  <2>1. c[0] = 0 /\ \A e \in CrsEntries : c[e] = even[e] + one[e]
    <3>1. c[0] = 0
      BY EntryFacts DEF Extra
    <3>2. ASSUME NEW e \in CrsEntries PROVE c[e] = share + (IF Place(amounts, e) < odd THEN 1 ELSE 0)
      BY <1>2, EntryFacts DEF Extra, share, odd, Place, Above
    <3> QED
      BY <3>1, <3>2
  <2>2. SumOver(one, CrsEntries) = odd
    <3>1. SumOver(one, CrsEntries) = Cardinality({ e \in CrsEntries : one[e] = 1 })
      BY EntryFacts, SumCounts
    <3>2. { e \in CrsEntries : one[e] = 1 } = { e \in CrsEntries : Place(amounts, e) < odd }
      OBVIOUS
    <3>3. odd \in 0 .. NumCrs
      BY <1>0, EntryFacts
    <3> QED
      BY <3>1, <3>2, <3>3, PlacesCount
  <2>3. SumOver(even, CrsEntries) = share * NumCrs
    BY <1>0, EntryFacts, SumEqual
  <2>4. /\ Ints(one, CrsEntries) /\ Ints(even, CrsEntries)
        /\ \A e \in Entries : c[e] \in Nat
    BY <1>0, <1>2, <2>1, EntryFacts DEF Ints
  <2> HIDE DEF one, even
  <2>5. SumOver(c, CrsEntries) = SumOver(even, CrsEntries) + SumOver(one, CrsEntries)
    BY <2>1, <2>4, EntryFacts, SumPlus
  <2>6. SumOver(c, Entries) = c[0] + SumOver(c, CrsEntries)
    BY <2>4, EntryFacts, SumAdd DEF Ints
  <2> QED
    BY <1>0, <1>2, <2>1, <2>2, <2>3, <2>4, <2>5, <2>6, EntryFacts
<1> QED
  BY <1>1, <1>2

-----------------------------------------------------------------------------
(* An excess is taken back (Shrunk), so that the counts use the pool up.    *)

\* g is first, and n times more what next makes of it.
Iterates(g, n, D, first, next) ==
  /\ g \in [0 .. n -> D] /\ g[0] = first
  /\ \A i \in 0 .. n - 1 : g[i + 1] = next[g[i]]

\* A value and a function of it can be iterated.
LEMMA IterationExists ==
  ASSUME NEW D, NEW first \in D, NEW next \in [D -> D], NEW n \in Nat
  PROVE  \E g : Iterates(g, n, D, first, next)
<1> DEFINE N == { m \in Nat : \E g : Iterates(g, m, D, first, next) }
<1>1. 0 \in N
  <2> DEFINE g == [i \in 0 .. 0 |-> first]
  <2>1. Iterates(g, 0, D, first, next)
    BY DEF Iterates
  <2> QED
    BY <2>1
<1>2. ASSUME NEW m \in Nat, m \in N PROVE m + 1 \in N
  <2>1. PICK g : Iterates(g, m, D, first, next)
    BY <1>2
  <2> DEFINE h == [i \in 0 .. m + 1 |-> IF i = m + 1 THEN next[g[m]] ELSE g[i]]
  <2>2. \A i \in 0 .. m : g[i] \in D /\ h[i] = g[i]
    BY <2>1 DEF Iterates
  <2>3. h[m + 1] = next[g[m]] /\ g[m] \in D /\ h[0] = first
    BY <2>1 DEF Iterates
  <2>4. h \in [0 .. m + 1 -> D]
    BY <2>2, <2>3
  <2>5. ASSUME NEW i \in 0 .. m PROVE h[i + 1] = next[h[i]]
    <3>1. CASE i = m
      BY <2>2, <2>3, <3>1
    <3>2. CASE i # m
      <4>1. i \in 0 .. m - 1 /\ i + 1 \in 0 .. m
        BY <3>2
      <4> QED
        BY <2>1, <2>2, <4>1 DEF Iterates
    <3> QED
      BY <3>1, <3>2
  <2>6. Iterates(h, m + 1, D, first, next)
    <3>1. m + 1 - 1 = m
      OBVIOUS
    <3> HIDE DEF h
    <3> QED
      BY <2>3, <2>4, <2>5, <3>1 DEF Iterates
  <2> QED
    BY <2>6
<1> HIDE DEF N
<1>3. Nat \subseteq N
  BY <1>1, <1>2, NatsOf
<1> QED
  BY <1>3 DEF N

\* Two iterations agree as far as both go.
LEMMA IterationsAgree ==
  ASSUME NEW D, NEW first, NEW next, NEW m \in Nat, NEW n \in Nat, NEW g, NEW h,
         Iterates(g, m, D, first, next), Iterates(h, n, D, first, next), m <= n
  PROVE  g[m] = h[m]
<1> DEFINE N == { i \in Nat : i <= m => g[i] = h[i] }
<1>1. 0 \in N
  BY DEF Iterates
<1>2. ASSUME NEW i \in Nat, i \in N PROVE i + 1 \in N
  <2> SUFFICES ASSUME i + 1 <= m PROVE g[i + 1] = h[i + 1]
    OBVIOUS
  <2>1. i \in 0 .. m - 1 /\ i \in 0 .. n - 1 /\ g[i] = h[i]
    BY <1>2
  <2> QED
    BY <2>1 DEF Iterates
<1> HIDE DEF N
<1>3. Nat \subseteq N
  BY <1>1, <1>2, NatsOf
<1> QED
  BY <1>3 DEF N

\* f iterates for ever.
AllIterates(f, D, first, next) ==
  f \in [Nat -> D] /\ f[0] = first /\ \A n \in Nat : f[n + 1] = next[f[n]]

\* So there is the function of all iterations.
LEMMA IterationIsFunction ==
  ASSUME NEW D, NEW first \in D, NEW next \in [D -> D]
  PROVE  \E f : AllIterates(f, D, first, next)
<1> DEFINE G(n) == CHOOSE g : Iterates(g, n, D, first, next)
           f == [n \in Nat |-> G(n)[n]]
<1>1. ASSUME NEW n \in Nat PROVE Iterates(G(n), n, D, first, next)
  BY IterationExists
<1> HIDE DEF G
<1>2. ASSUME NEW n \in Nat PROVE f[n] \in D
  BY <1>1 DEF Iterates
<1>3. f[0] = first
  BY <1>1 DEF Iterates
<1>4. ASSUME NEW n \in Nat PROVE f[n + 1] = next[f[n]]
  <2>1. G(n + 1)[n + 1] = next[G(n + 1)[n]]
    <3>1. n + 1 \in Nat /\ n \in 0 .. n + 1 - 1
      OBVIOUS
    <3> QED
      BY <1>1, <3>1 DEF Iterates
  <2>2. G(n)[n] = G(n + 1)[n]
    <3>1. n + 1 \in Nat /\ n <= n + 1
      OBVIOUS
    <3>2. Iterates(G(n), n, D, first, next) /\ Iterates(G(n + 1), n + 1, D, first, next)
      BY <1>1, <3>1
    <3> QED
      BY <3>1, <3>2, IterationsAgree
  <2> QED
    BY <2>1, <2>2
<1>5. f \in [Nat -> D]
  BY <1>2
<1> HIDE DEF f
<1>6. AllIterates(f, D, first, next)
  BY <1>3, <1>4, <1>5 DEF AllIterates
<1> QED
  BY <1>6

\* A sum of which one element changes.
LEMMA SumExcept ==
  ASSUME NEW S, IsFiniteSet(S), NEW c, NEW d, Ints(c, S), NEW x \in S, NEW v \in Int,
         d[x] = v, \A e \in S \ {x} : d[e] = c[e]
  PROVE  SumOver(d, S) = SumOver(c, S) - c[x] + v
<1> DEFINE R == S \ {x}
<1>1. Ints(c, S) /\ Ints(d, S) /\ Ints(c, R) /\ IsFiniteSet(R)
  BY FS_Subset DEF Ints
<1>2. d[x] = v /\ \A e \in R : d[e] = c[e]
  OBVIOUS
<1>3. SumOver(d, R) = SumOver(c, R) /\ SumOver(c, R) \in Int
  BY <1>1, <1>2, SumSame, SumType
<1>4. SumOver(d, S) = d[x] + SumOver(d, R) /\ SumOver(c, S) = c[x] + SumOver(c, R)
  BY <1>1, SumRemove
<1>5. c[x] \in Int
  BY DEF Ints
<1> HIDE DEF R
<1> QED
  BY <1>2, <1>3, <1>4, <1>5

\* One entry comes before the others.
LEMMA LargestExists ==
  ASSUME NEW c, Ints(c, Entries)
  PROVE  \E e \in Entries : \A f \in Entries \ {e} : Larger(c, e, f)
<1> DEFINE First(s) == \E e \in s : \A f \in s \ {e} : Larger(c, e, f)
           F == { s \in SUBSET Entries : s # {} => First(s) }
<1>1. ASSUME NEW s \in SUBSET Entries, \A x \in s : s \ {x} \in F, s # {} PROVE First(s)
  <2>1. PICK x \in s : TRUE
    BY <1>1
  <2>2. CASE s \ {x} = {}
    BY <2>2
  <2>3. CASE s \ {x} # {}
    <3>1. PICK y \in s \ {x} : \A f \in (s \ {x}) \ {y} : Larger(c, y, f)
      BY <1>1, <2>3
    <3>2. Larger(c, x, y) \/ Larger(c, y, x)
      BY <3>1, LargerOrders
    <3>3. CASE Larger(c, y, x)
      <4>1. \A f \in s \ {y} : Larger(c, y, f)
        BY <3>1, <3>3
      <4> QED
        BY <3>1, <4>1
    <3>4. CASE Larger(c, x, y)
      <4>1. \A f \in s \ {x} : Larger(c, x, f)
        BY <3>1, <3>4, LargerOrders
      <4> QED
        BY <4>1
    <3> QED
      BY <3>2, <3>3, <3>4
  <2> QED
    BY <2>2, <2>3
<1>2. \A s \in SUBSET Entries : (\A x \in s : s \ {x} \in F) => s \in F
  BY <1>1
<1> HIDE DEF F
<1>3. Entries \in F
  BY <1>2, EntryFacts, SetsOf
<1> QED
  BY <1>3, EntryFacts DEF F

\* Each entry has a CPU; e is the entry that Shrunk takes one from.
Counts == [Entries -> Nat \ {0}]
HasMore(c, e) == c[e] > 1 /\ \A f \in Entries \ {e} : Larger(c, e, f)

\* While there are more CPUs than entries an entry has more than one.
LEMMA SomeHasMore ==
  ASSUME NEW c \in Counts, SumOver(c, Entries) > NumCrs + 1
  PROVE  \E e \in Entries : HasMore(c, e)
<1>1. Ints(c, Entries)
  BY DEF Counts, Ints
<1>2. PICK e \in Entries : \A f \in Entries \ {e} : Larger(c, e, f)
  BY <1>1, LargestExists
<1>3. SUFFICES ASSUME ~(c[e] > 1) PROVE FALSE
  BY <1>2 DEF HasMore
<1>4. \A f \in Entries : c[f] = 1
  <2>1. \A f \in Entries : c[f] \in Nat \ {0}
    BY DEF Counts
  <2>2. c[e] = 1
    BY <1>3, <2>1
  <2> QED
    BY <1>2, <2>1, <2>2 DEF Larger
<1>5. SumOver(c, Entries) = 1 * (NumCrs + 1)
  <2>1. IsFiniteSet(Entries) /\ Cardinality(Entries) = NumCrs + 1
    BY EntryFacts
  <2> QED
    BY <1>4, <2>1, SumEqual
<1>6. NumCrs + 1 \in Int
  BY EntryFacts
<1> QED
  BY <1>5, <1>6

\* The total of Allocation is such a sum.
LEMMA TotalIsSum == ASSUME NEW c PROVE Total(c) = SumOver(c, Entries)
BY DEF Total, SumOver

\* Shrunk takes one CPU back from the entry that has most, again and again.
Largest(c) == CHOOSE e \in Entries : HasMore(c, e)
OneLess(c) == [c EXCEPT ![Largest(c)] = @ - 1]
\* f[n] is counts of which n are taken back.
TakesBack(counts, f) ==
  f = [n \in Nat |-> IF n = 0 THEN counts ELSE OneLess(f[n - 1])]

\* There is such a function.
LEMMA TakesBackExists ==
  ASSUME NEW counts \in Counts
  PROVE  \E f : TakesBack(counts, f)
<1> DEFINE D == [Entries -> Int]
           next == [c \in D |-> OneLess(c)]
<1>1. counts \in D
  BY DEF Counts
<1>2. ASSUME NEW c \in D PROVE OneLess(c) \in D
  <2>1. OneLess(c) = [e \in Entries |-> IF e = Largest(c) THEN c[e] - 1 ELSE c[e]]
    BY DEF OneLess
  <2>2. \A e \in Entries : (IF e = Largest(c) THEN c[e] - 1 ELSE c[e]) \in Int
    OBVIOUS
  <2> QED
    BY <2>1, <2>2
<1>3. \A c \in D : next[c] = OneLess(c)
  OBVIOUS
<1>30. next \in [D -> D]
  <2> HIDE DEF D
  <2> QED
    BY <1>2
<1> HIDE DEF D, next
<1>40. PICK f : AllIterates(f, D, counts, next)
  BY <1>1, <1>30, IterationIsFunction
<1>4. f \in [Nat -> D] /\ f[0] = counts /\ \A n \in Nat : f[n + 1] = next[f[n]]
  BY <1>40 DEF AllIterates
<1>5. ASSUME NEW n \in Nat PROVE f[n] = IF n = 0 THEN counts ELSE OneLess(f[n - 1])
  <2>1. CASE n # 0
    <3>1. n - 1 \in Nat /\ n - 1 + 1 = n
      BY <2>1
    <3>2. f[n - 1 + 1] = next[f[n - 1]] /\ f[n - 1] \in D
      BY <1>4, <3>1
    <3> QED
      BY <1>3, <2>1, <3>1, <3>2
  <2> QED
    BY <1>4, <2>1
<1>6. f = [n \in Nat |-> f[n]]
  BY <1>4
<1> QED
  BY <1>5, <1>6 DEF TakesBack

\* Taking one back from the entry that has most leaves each entry one.
LEMMA OneLessFacts ==
  ASSUME NEW c \in Counts, SumOver(c, Entries) > NumCrs + 1
  PROVE  OneLess(c) \in Counts /\ SumOver(OneLess(c), Entries) = SumOver(c, Entries) - 1
<1>1. Largest(c) \in Entries /\ c[Largest(c)] > 1
  <2>1. \E e \in Entries : HasMore(c, e)
    BY SomeHasMore
  <2>2. Largest(c) \in Entries /\ HasMore(c, Largest(c))
    BY <2>1 DEF Largest
  <2> QED
    BY <2>2 DEF HasMore
<1> DEFINE x == Largest(c)
<1>2. OneLess(c) = [c EXCEPT ![x] = c[x] - 1]
  BY <1>1 DEF OneLess, Counts
<1> HIDE DEF x
<1>3. x \in Entries /\ c[x] \in Nat \ {0} /\ c[x] - 1 \in Nat \ {0}
  BY <1>1 DEF x, Counts
<1>4. OneLess(c) \in Counts
  BY <1>2, <1>3 DEF Counts
<1>5. c \in [Entries -> Int] /\ IsFiniteSet(Entries) /\ c[x] - 1 \in Int
  BY <1>3, EntryFacts DEF Counts
<1> DEFINE v == c[x] - 1
<1>50. v \in Int /\ OneLess(c) = [c EXCEPT ![x] = v]
  BY <1>2, <1>5
<1>6. SumOver(OneLess(c), Entries) = SumOver(c, Entries) - c[x] + v
  <2> HIDE DEF v
  <2>1. IsFiniteSet(Entries)
    BY <1>5
  <2>2. Ints(c, Entries) /\ OneLess(c)[x] = v /\ \A e \in Entries \ {x} : OneLess(c)[e] = c[e]
    BY <1>3, <1>5, <1>50 DEF Ints
  <2>3. x \in Entries
    BY <1>3
  <2>4. v \in Int
    BY <1>50
  <2> QED
    BY <2>1, <2>2, <2>3, <2>4, SumExcept
<1>7. SumOver(c, Entries) \in Int
  BY <1>5, SumType DEF Ints
<1> QED
  BY <1>3, <1>4, <1>6, <1>7

\* An excess that leaves each entry one is taken back, all of it.
LEMMA ShrunkFacts ==
  ASSUME NEW counts \in Counts, NEW excess \in Int,
         excess <= SumOver(counts, Entries) - (NumCrs + 1)
  PROVE  /\ Shrunk(counts, excess) \in Counts
         /\ SumOver(Shrunk(counts, excess), Entries) =
              SumOver(counts, Entries) - (IF excess > 0 THEN excess ELSE 0)
<1> DEFINE f == CHOOSE f : TakesBack(counts, f)
           s == SumOver(counts, Entries)
           N == { n \in Nat : n <= s - (NumCrs + 1) =>
                                f[n] \in Counts /\ SumOver(f[n], Entries) = s - n }
<1>1. Shrunk(counts, excess) = f[IF excess > 0 THEN excess ELSE 0]
  BY DEF Shrunk, TakesBack, OneLess, Largest, HasMore
<1>2. TakesBack(counts, f)
  BY TakesBackExists
<1> HIDE DEF f
<1>3. f[0] = counts
  BY <1>2 DEF TakesBack
<1>4. ASSUME NEW n \in Nat PROVE f[n + 1] = OneLess(f[n])
  <2>1. n + 1 \in Nat /\ n + 1 # 0 /\ n + 1 - 1 = n
    OBVIOUS
  <2>2. \A m \in Nat : m # 0 => f[m] = OneLess(f[m - 1])
    BY <1>2 DEF TakesBack
  <2>3. f[n + 1] = OneLess(f[n + 1 - 1])
    BY <2>1, <2>2
  <2> QED
    BY <2>1, <2>3
<1>5. s \in Int /\ NumCrs \in Int
  BY EntryFacts, SumType DEF Counts, Ints
<1> HIDE DEF s
<1>6. 0 \in N
  BY <1>3, <1>5 DEF s
<1>7. ASSUME NEW n \in Nat, n \in N PROVE n + 1 \in N
  <2> SUFFICES ASSUME n + 1 <= s - (NumCrs + 1)
               PROVE  f[n + 1] \in Counts /\ SumOver(f[n + 1], Entries) = s - (n + 1)
    OBVIOUS
  <2>1. f[n] \in Counts /\ SumOver(f[n], Entries) = s - n
    BY <1>5, <1>7
  <2>2. SumOver(f[n], Entries) > NumCrs + 1
    BY <1>5, <2>1
  <2>3. OneLess(f[n]) \in Counts /\ SumOver(OneLess(f[n]), Entries) = SumOver(f[n], Entries) - 1
    BY <2>1, <2>2, OneLessFacts
  <2>4. s - n - 1 = s - (n + 1)
    BY <1>5
  <2> QED
    BY <1>4, <2>1, <2>3, <2>4
<1> DEFINE k == IF excess > 0 THEN excess ELSE 0
<1>8. k \in N
  <2> HIDE DEF N
  <2>1. Nat \subseteq N
    BY <1>6, <1>7, NatsOf
  <2> QED
    BY <2>1
<1>9. s >= NumCrs + 1
  <2> DEFINE one == [e \in Entries |-> 1]
  <2>1. Ints(one, Entries) /\ Ints(counts, Entries) /\ \A e \in Entries : one[e] <= counts[e]
    BY DEF Ints, Counts
  <2>2. \A e \in Entries : one[e] = 1
    OBVIOUS
  <2> HIDE DEF one
  <2>3. IsFiniteSet(Entries) /\ Cardinality(Entries) = NumCrs + 1 /\ 1 \in Int
    BY EntryFacts
  <2>30. SumOver(one, Entries) = 1 * Cardinality(Entries)
    BY <2>2, <2>3, SumEqual
  <2>4. SumOver(one, Entries) = 1 * (NumCrs + 1)
    BY <2>3, <2>30
  <2>5. SumOver(one, Entries) <= s
    BY <2>1, <2>3, SumLess DEF s
  <2> QED
    BY <1>5, <2>4, <2>5
<1>10. k <= s - (NumCrs + 1)
  BY <1>5, <1>9 DEF s
<1>11. f[k] \in Counts /\ SumOver(f[k], Entries) = s - k
  BY <1>8, <1>10
<1> QED
  BY <1>1, <1>11 DEF s

\* The larger and the smaller of two.
LEMMA MaxMin ==
  ASSUME NEW a \in Int, NEW b \in Int
  PROVE  /\ Max({a, b}) \in {a, b} /\ Max({a, b}) >= a /\ Max({a, b}) >= b
         /\ Min({a, b}) \in {a, b} /\ Min({a, b}) <= a /\ Min({a, b}) <= b
<1>1. \E x \in {a, b} : \A y \in {a, b} : x >= y
  OBVIOUS
<1>2. \E x \in {a, b} : \A y \in {a, b} : x <= y
  OBVIOUS
<1> QED
  BY <1>1, <1>2 DEF Max, Min

\* However the shares were rounded, the scaled counts use the pool up.
LEMMA ScaledCountsFacts ==
  ASSUME NEW amounts, Ints(amounts, Entries), NEW pool \in Nat, pool > NumCrs,
         NEW counts \in ScaledCounts(amounts, pool)
  PROVE  counts \in Counts /\ SumOver(counts, Entries) = pool
<1>1. PICK floors \in [Entries -> 0 .. pool] :
        LET atLeastOne == [e \in Entries |-> Max({1, floors[e]})]
            scaled == Shrunk(atLeastOne, Total(atLeastOne) - pool)
            rest == pool - Total(scaled)
        IN counts = [e \in Entries |-> scaled[e] + Extra(amounts, rest, e)]
  BY DEF ScaledCounts
<1> DEFINE atLeastOne == [e \in Entries |-> Max({1, floors[e]})]
           total == SumOver(atLeastOne, Entries)
           scaled == Shrunk(atLeastOne, total - pool)
           rest == pool - SumOver(scaled, Entries)
           more == [e \in Entries |-> Extra(amounts, rest, e)]
<1>2. counts = [e \in Entries |-> scaled[e] + Extra(amounts, rest, e)]
  BY <1>1, TotalIsSum
<1>3. \A e \in Entries : counts[e] = scaled[e] + more[e]
  BY <1>2
<1>4. DOMAIN counts = Entries /\ counts = [e \in Entries |-> counts[e]]
  BY <1>2
<1>5. atLeastOne \in Counts
  <2>1. ASSUME NEW e \in Entries PROVE Max({1, floors[e]}) \in Nat \ {0}
    <3> DEFINE x == floors[e]
    <3>1. x \in Int
      OBVIOUS
    <3> HIDE DEF x
    <3>2. Max({1, x}) \in {1, x} /\ Max({1, x}) >= 1
      BY <3>1, MaxMin
    <3> QED
      BY <3>1, <3>2 DEF x
  <2> QED
    BY <2>1 DEF Counts
<1> HIDE DEF atLeastOne
<1>6. total \in Int /\ IsFiniteSet(Entries) /\ NumCrs \in Nat
  BY <1>5, EntryFacts, SumType DEF Counts, Ints
<1>7. /\ scaled \in Counts
      /\ SumOver(scaled, Entries) = total - (IF total - pool > 0 THEN total - pool ELSE 0)
  <2> HIDE DEF total
  <2>1. total - pool \in Int /\ total - pool <= total - (NumCrs + 1)
    BY <1>6
  <2> QED
    BY <1>5, <2>1, ShrunkFacts DEF total
<1> HIDE DEF total, scaled
<1>8. rest \in Nat /\ SumOver(scaled, Entries) = pool - rest
  BY <1>6, <1>7
<1> HIDE DEF rest
<1>9. /\ \A e \in Entries : more[e] \in Nat
      /\ SumOver(more, Entries) = IF rest <= 0 THEN 0 ELSE rest
  <2>1. \A e \in Entries : more[e] = Extra(amounts, rest, e)
    OBVIOUS
  <2> HIDE DEF more
  <2>2. rest \in Int
    BY <1>8
  <2> QED
    BY <2>1, <2>2, ExtraSum
<1> HIDE DEF more
<1>10. \A e \in Entries : counts[e] \in Nat \ {0}
  BY <1>3, <1>7, <1>9 DEF Counts
<1>11. Ints(scaled, Entries) /\ Ints(more, Entries)
  BY <1>7, <1>9 DEF Ints, Counts
<1>12. SumOver(counts, Entries) = SumOver(scaled, Entries) + SumOver(more, Entries)
  BY <1>3, <1>6, <1>11, SumPlus
<1>13. counts \in Counts
  BY <1>4, <1>10 DEF Counts
<1> QED
  BY <1>8, <1>9, <1>12, <1>13

\* The default counts use the pool up.
LEMMA DefaultCountsFacts ==
  ASSUME NEW pool \in Nat, pool > NumCrs
  PROVE  DefaultCounts(pool) \in Counts /\ SumOver(DefaultCounts(pool), Entries) = pool
<1> DEFINE counts == DefaultCounts(pool)
           quarter == Min({4, Max({1, pool \div 4})})
           infra == IF pool - quarter < NumCrs THEN pool - NumCrs ELSE quarter
           rest == pool - infra
           q == rest \div NumCrs
           odd == rest % NumCrs
           one == [e \in CrsEntries |-> IF e <= odd THEN 1 ELSE 0]
           even == [e \in CrsEntries |-> q]
<1>1. counts = [e \in Entries |-> IF e = 0 THEN infra ELSE q + (IF e <= odd THEN 1 ELSE 0)]
  BY DEF DefaultCounts
<1>2. NumCrs \in Nat \ {0} /\ Entries = CrsEntries \union {0} /\ 0 \notin CrsEntries
      /\ IsFiniteSet(CrsEntries) /\ Cardinality(CrsEntries) = NumCrs
  BY EntryFacts
<1>3. quarter \in Nat \ {0}
  <2> DEFINE x == pool \div 4
             y == Max({1, x})
  <2>1. x \in Int
    OBVIOUS
  <2> HIDE DEF x
  <2>2. y \in {1, x} /\ y >= 1
    <3>1. 1 \in Int
      OBVIOUS
    <3> QED
      BY <2>1, <3>1, MaxMin
  <2>3. y \in Int
    BY <2>1, <2>2
  <2> HIDE DEF y
  <2>4. Min({4, y}) \in {4, y}
    BY <2>3, MaxMin
  <2> QED
    BY <2>2, <2>3, <2>4 DEF x, y
<1> HIDE DEF counts, quarter
<1>4. infra \in Nat \ {0} /\ rest \in Nat /\ rest >= NumCrs /\ infra + rest = pool
  BY <1>2, <1>3
<1> HIDE DEF infra, rest
<1>5. q \in Nat \ {0} /\ odd \in 0 .. NumCrs - 1 /\ rest = NumCrs * q + odd
  <2>1. q = rest \div NumCrs /\ odd = rest % NumCrs
    OBVIOUS
  <2> HIDE DEF q, odd
  <2>2. /\ q \in Int /\ odd \in 0 .. NumCrs - 1 /\ rest = NumCrs * q + odd
        /\ rest >= 0 => q >= 0
    <3>1. rest \in Int /\ NumCrs \in Nat \ {0}
      BY <1>2, <1>4
    <3>2. Divided(rest, NumCrs, q, odd)
      BY <2>1, <3>1, DivMod
    <3> QED
      BY <3>2 DEF Divided
  <2>3. q # 0
    <3> SUFFICES ASSUME q = 0 PROVE FALSE
      OBVIOUS
    <3>1. NumCrs * q = 0
      BY <1>2
    <3> QED
      BY <1>2, <1>4, <2>2, <3>1
  <2> QED
    BY <1>4, <2>2, <2>3
<1> HIDE DEF q, odd
<1>6. counts \in Counts
  BY <1>1, <1>4, <1>5 DEF Counts
<1>7. counts[0] = infra /\ \A e \in CrsEntries : counts[e] = even[e] + one[e]
  BY <1>1, <1>2
<1>8. SumOver(one, CrsEntries) = odd
  <2>1. SumOver(one, CrsEntries) = Cardinality({ e \in CrsEntries : one[e] = 1 })
    BY <1>2, SumCounts
  <2>2. { e \in CrsEntries : one[e] = 1 } = 1 .. odd
    BY <1>2, <1>5 DEF CrsEntries
  <2>3. Cardinality(1 .. odd) = odd
    BY <1>5, FS_Interval
  <2> QED
    BY <2>1, <2>2, <2>3
<1>9. SumOver(even, CrsEntries) = q * NumCrs
  <2>1. q \in Int /\ \A e \in CrsEntries : even[e] = q
    BY <1>5
  <2> HIDE DEF even
  <2> QED
    BY <1>2, <2>1, SumEqual
<1>10. Ints(one, CrsEntries) /\ Ints(even, CrsEntries)
  BY <1>5 DEF Ints
<1> HIDE DEF one, even
<1>11. SumOver(counts, CrsEntries) = SumOver(even, CrsEntries) + SumOver(one, CrsEntries)
  BY <1>2, <1>7, <1>10, SumPlus
<1>12. SumOver(counts, Entries) = counts[0] + SumOver(counts, CrsEntries)
  <2>1. Ints(counts, CrsEntries) /\ counts[0] \in Int
    BY <1>2, <1>6 DEF Ints, Counts
  <2> QED
    BY <1>2, <2>1, SumAdd
<1>13. q * NumCrs = NumCrs * q
  BY <1>2, <1>5
<1>14. SumOver(counts, Entries) = infra + (NumCrs * q + odd)
  BY <1>7, <1>8, <1>9, <1>11, <1>12, <1>13
<1> QED
  BY <1>4, <1>5, <1>6, <1>14 DEF counts

-----------------------------------------------------------------------------
(* The slices of the pool.                                                  *)

\* Where the slice of an entry begins.
Offset(counts, e) == SumOver(counts, 0 .. e - 1)

\* It is 0 for the first and grows by the count of each.
LEMMA OffsetFacts ==
  ASSUME NEW counts \in Counts
  PROVE  /\ Offset(counts, 0) = 0
         /\ Offset(counts, NumCrs + 1) = SumOver(counts, Entries)
         /\ \A e \in 0 .. NumCrs + 1 : Offset(counts, e) \in Int
         /\ \A e \in Entries : Offset(counts, e + 1) = Offset(counts, e) + counts[e]
<1>1. NumCrs \in Nat \ {0} /\ Entries = 0 .. NumCrs /\ IsFiniteSet(Entries)
  BY EntryFacts DEF Entries
<1>2. 0 .. 0 - 1 = {} /\ 0 .. NumCrs + 1 - 1 = Entries
  BY <1>1
<1>3. Ints(counts, Entries)
  BY DEF Counts, Ints
<1>4. ASSUME NEW e \in 0 .. NumCrs + 1
      PROVE  IsFiniteSet(0 .. e - 1) /\ Ints(counts, 0 .. e - 1)
  <2>1. 0 .. e - 1 \subseteq Entries
    BY <1>1
  <2> QED
    BY <1>1, <1>3, <2>1, FS_Subset DEF Ints
<1>5. \A e \in 0 .. NumCrs + 1 : Offset(counts, e) \in Int
  BY <1>4, SumType DEF Offset
<1>6. ASSUME NEW e \in Entries PROVE Offset(counts, e + 1) = Offset(counts, e) + counts[e]
  <2>1. e \in 0 .. NumCrs + 1 /\ e \notin 0 .. e - 1 /\ 0 .. e + 1 - 1 = (0 .. e - 1) \union {e}
    BY <1>1
  <2>2. IsFiniteSet(0 .. e - 1) /\ Ints(counts, 0 .. e - 1)
    BY <1>4, <2>1
  <2>3. counts[e] \in Int /\ Offset(counts, e) \in Int
    BY <1>3, <1>5, <2>1 DEF Ints
  <2>4. SumOver(counts, (0 .. e - 1) \union {e}) = counts[e] + SumOver(counts, 0 .. e - 1)
    BY <2>1, <2>2, <2>3, SumAdd
  <2>5. Offset(counts, e + 1) = counts[e] + Offset(counts, e)
    <3> DEFINE next == e + 1
    <3>1. 0 .. next - 1 = (0 .. e - 1) \union {e}
      BY <2>1
    <3> HIDE DEF next
    <3>2. Offset(counts, next) = SumOver(counts, (0 .. e - 1) \union {e})
      BY <3>1 DEF Offset
    <3>3. Offset(counts, e) = SumOver(counts, 0 .. e - 1)
      BY DEF Offset
    <3> QED
      BY <2>4, <3>2, <3>3 DEF next
  <2> QED
    BY <2>3, <2>5
<1>7. Offset(counts, 0) = 0
  BY <1>2, SumEmpty DEF Offset
<1>8. Offset(counts, NumCrs + 1) = SumOver(counts, Entries)
  <2> DEFINE end == NumCrs + 1
  <2>1. 0 .. end - 1 = Entries
    BY <1>1
  <2> HIDE DEF end
  <2>2. Offset(counts, end) = SumOver(counts, Entries)
    BY <2>1 DEF Offset
  <2> QED
    BY <2>2 DEF end
<1> QED
  BY <1>5, <1>6, <1>7, <1>8

\* The slices follow each other.
LEMMA OffsetsGrow ==
  ASSUME NEW counts \in Counts, NEW e \in Entries
  PROVE  \A f \in 0 .. NumCrs + 1 : e < f => Offset(counts, e) + counts[e] <= Offset(counts, f)
<1> DEFINE N == { f \in Nat : f \in 0 .. NumCrs + 1 /\ e < f =>
                                Offset(counts, e) + counts[e] <= Offset(counts, f) }
<1>0. NumCrs \in Nat \ {0} /\ Entries = 0 .. NumCrs /\ e \in 0 .. NumCrs
  BY EntryFacts DEF Entries
<1>1. 0 \in N
  BY <1>0
<1>2. ASSUME NEW f \in Nat, f \in N PROVE f + 1 \in N
  <2> SUFFICES ASSUME f + 1 \in 0 .. NumCrs + 1, e < f + 1
               PROVE  Offset(counts, e) + counts[e] <= Offset(counts, f + 1)
    OBVIOUS
  <2>1. f \in Entries /\ f \in 0 .. NumCrs + 1 /\ e \in 0 .. NumCrs + 1
    BY <1>0
  <2>2. Offset(counts, f + 1) = Offset(counts, f) + counts[f]
    BY <2>1, OffsetFacts
  <2>3. Offset(counts, f) \in Int /\ Offset(counts, e) \in Int
    BY <2>1, OffsetFacts
  <2>4. counts[f] \in Nat \ {0} /\ counts[e] \in Nat \ {0}
    BY <2>1 DEF Counts
  <2>5. CASE e = f
    BY <2>2, <2>3, <2>4, <2>5
  <2>6. CASE e < f
    <3>1. Offset(counts, e) + counts[e] <= Offset(counts, f)
      BY <1>2, <2>1, <2>6
    <3> QED
      BY <2>2, <2>3, <2>4, <3>1
  <2> QED
    BY <1>0, <2>5, <2>6
<1> HIDE DEF N
<1>3. Nat \subseteq N
  BY <1>1, <1>2, NatsOf
<1>4. \A f \in 0 .. NumCrs + 1 : f \in N
  BY <1>3
<1> QED
  BY <1>4 DEF N

\* The slices leave nothing out.
LEMMA OffsetsCover ==
  ASSUME NEW counts \in Counts
  PROVE  \A n \in 1 .. SumOver(counts, Entries) :
           \E e \in Entries : Offset(counts, e) < n /\ n <= Offset(counts, e) + counts[e]
<1> DEFINE Covered(n) == \E e \in Entries :
                           Offset(counts, e) < n /\ n <= Offset(counts, e) + counts[e]
           N == { k \in Nat : k \in 0 .. NumCrs + 1 =>
                                \A n \in 1 .. Offset(counts, k) : Covered(n) }
<1>0. NumCrs \in Nat \ {0} /\ Entries = 0 .. NumCrs
  BY EntryFacts DEF Entries
<1>1. 0 \in N
  BY OffsetFacts
<1>2. ASSUME NEW k \in Nat, k \in N PROVE k + 1 \in N
  <2> SUFFICES ASSUME k + 1 \in 0 .. NumCrs + 1, NEW n \in 1 .. Offset(counts, k + 1)
               PROVE  Covered(n)
    OBVIOUS
  <2>1. k \in Entries /\ k \in 0 .. NumCrs + 1
    BY <1>0
  <2>2. Offset(counts, k + 1) = Offset(counts, k) + counts[k] /\ Offset(counts, k) \in Int
    BY <2>1, OffsetFacts
  <2>3. CASE n <= Offset(counts, k)
    <3>1. n \in 1 .. Offset(counts, k)
      BY <2>2, <2>3
    <3> QED
      BY <1>2, <2>1, <3>1
  <2>4. CASE n > Offset(counts, k)
    BY <2>1, <2>2, <2>4
  <2>5. n \in Int
    BY <2>1, <2>2
  <2> QED
    BY <2>2, <2>3, <2>4, <2>5
<1> HIDE DEF N
<1>3. Nat \subseteq N
  BY <1>1, <1>2, NatsOf
<1>4. NumCrs + 1 \in N /\ NumCrs + 1 \in 0 .. NumCrs + 1
  BY <1>0, <1>3
<1>5. \A n \in 1 .. Offset(counts, NumCrs + 1) : Covered(n)
  BY <1>4 DEF N
<1> QED
  BY <1>5, OffsetFacts

\* Counts that use a pool up divide it.
LEMMA SlicesDivide ==
  ASSUME NEW pool \in Nat, NEW counts \in Counts, SumOver(counts, Entries) = pool,
         NEW cpus, cpus = Slices(counts, pool)
  PROVE  /\ cpus \in [Entries -> SUBSET (1 .. pool)]
         /\ \A e \in Entries : cpus[e] # {}
         /\ \A e, f \in Entries : e # f => cpus[e] \cap cpus[f] = {}
         /\ UNION { cpus[e] : e \in Entries } = 1 .. pool
<1>0. NumCrs \in Nat \ {0} /\ Entries = 0 .. NumCrs
  BY EntryFacts DEF Entries
<1>1. /\ DOMAIN cpus = Entries
      /\ \A e \in Entries : cpus[e] = (Offset(counts, e) + 1 .. Offset(counts, e) + counts[e])
                                        \cap (1 .. pool)
      /\ cpus = [e \in Entries |-> cpus[e]]
  BY DEF Slices, Offset, SumOver
<1>2. \A e \in Entries : counts[e] \in Nat \ {0}
  BY DEF Counts
<1>3. ASSUME NEW e \in Entries
      PROVE  /\ Offset(counts, e) \in Nat
             /\ Offset(counts, e) + counts[e] <= pool
             /\ \A f \in Entries : e < f => Offset(counts, e) + counts[e] <= Offset(counts, f)
  <2>1. e \in 0 .. NumCrs + 1 /\ NumCrs + 1 \in 0 .. NumCrs + 1 /\ e < NumCrs + 1
        /\ 0 \in Entries
    BY <1>0
  <2>2. Offset(counts, e) \in Int /\ Offset(counts, 0) = 0 /\ Offset(counts, NumCrs + 1) = pool
    BY <2>1, OffsetFacts
  <2>3. Offset(counts, e) + counts[e] <= pool
    BY <2>1, <2>2, OffsetsGrow
  <2>4. \A f \in Entries : f \in 0 .. NumCrs + 1
    BY <1>0
  <2>5. \A f \in Entries : e < f => Offset(counts, e) + counts[e] <= Offset(counts, f)
    BY <2>4, OffsetsGrow
  <2>6. Offset(counts, e) >= 0
    <3>1. CASE e = 0
      BY <2>2, <3>1
    <3>2. CASE e # 0
      <4>1. Offset(counts, 0) + counts[0] <= Offset(counts, e)
        <5>1. 0 < e /\ e \in 0 .. NumCrs + 1
          BY <1>0, <3>2
        <5> QED
          BY <2>1, <5>1, OffsetsGrow
      <4> QED
        BY <1>2, <2>1, <2>2, <4>1
    <3> QED
      BY <3>1, <3>2
  <2> QED
    BY <2>2, <2>3, <2>5, <2>6
<1>4. ASSUME NEW e \in Entries PROVE Offset(counts, e) + 1 \in cpus[e]
  BY <1>1, <1>2, <1>3
<1>5. ASSUME NEW e \in Entries, NEW f \in Entries, e < f PROVE cpus[e] \cap cpus[f] = {}
  BY <1>1, <1>2, <1>3, <1>5
<1>6. \A e, f \in Entries : e # f => cpus[e] \cap cpus[f] = {}
  <2>1. \A e, f \in Entries : e # f => e < f \/ f < e
    BY <1>0
  <2>2. \A e, f \in Entries : e < f => cpus[e] \cap cpus[f] = {}
    BY <1>5
  <2> QED
    BY <2>1, <2>2
<1>7. ASSUME NEW n \in 1 .. pool PROVE \E e \in Entries : n \in cpus[e]
  <2>1. PICK e \in Entries : Offset(counts, e) < n /\ n <= Offset(counts, e) + counts[e]
    BY OffsetsCover
  <2>2. n \in Offset(counts, e) + 1 .. Offset(counts, e) + counts[e]
    BY <1>2, <1>3, <2>1
  <2> QED
    BY <1>1, <2>2
<1>8. UNION { cpus[e] : e \in Entries } = 1 .. pool
  BY <1>1, <1>7
<1> QED
  BY <1>1, <1>4, <1>6, <1>8

-----------------------------------------------------------------------------
(* Memory.                                                                  *)

\* An amount is rounded down, unless it gets its only megabyte.
LEMMA AlignedFacts ==
  ASSUME NEW a \in Int
  PROVE  /\ Aligned(a) \in Nat /\ Aligned(a) >= Megabyte
         /\ Aligned(a) > Megabyte => Aligned(a) <= a
<1> DEFINE x == (a \div Megabyte) * Megabyte
<1>1. x \in Int /\ x <= a /\ Megabyte = 2
  BY DEF Megabyte
<1>2. Aligned(a) = Max({Megabyte, x})
  BY DEF Aligned
<1> HIDE DEF x
<1>3. Megabyte \in Int
  BY <1>1
<1>4. Max({Megabyte, x}) \in {Megabyte, x} /\ Max({Megabyte, x}) >= Megabyte
  BY <1>1, <1>3, MaxMin
<1> QED
  BY <1>1, <1>2, <1>4

\* A share is at most the exact quotient.
LEMMA ShareFacts ==
  ASSUME NEW a \in Nat, NEW total \in Nat \ {0}, NEW n \in Nat, NEW s \in Shares(a, total, n)
  PROVE  s \in Int /\ total * s <= n * a
<1> DEFINE p == a * n
           floor == p \div total
           r == p % total
<1>1. s = floor \/ s = floor - 1
  BY DEF Shares
<1>2. p \in Nat /\ p = n * a
  OBVIOUS
<1> HIDE DEF p
<1>3. floor = p \div total /\ r = p % total
  OBVIOUS
<1> HIDE DEF floor, r
<1>4. floor \in Int /\ r \in 0 .. total - 1 /\ p = total * floor + r
  <2>1. p \in Int
    BY <1>2
  <2>2. Divided(p, total, floor, r)
    BY <1>3, <2>1, DivMod
  <2> QED
    BY <2>2 DEF Divided
<1>5. total * (floor - 1) = total * floor - total
  BY <1>4
<1>6. total * floor \in Int
  BY <1>4
<1>7. total * floor <= p /\ total * (floor - 1) <= p
  BY <1>2, <1>4, <1>5, <1>6
<1> QED
  BY <1>1, <1>2, <1>4, <1>7

\* A product is cancelled.
LEMMA Cancel ==
  ASSUME NEW k \in Nat \ {0}, NEW a \in Int, NEW b \in Int, k * a <= k * b
  PROVE  a <= b
<1> SUFFICES ASSUME a > b PROVE FALSE
  OBVIOUS
<1> DEFINE d == a - b
<1>1. d \in Nat \ {0} /\ a = b + d
  OBVIOUS
<1> HIDE DEF d
<1>2. k * a = k * b + k * d
  BY <1>1
<1>3. k * d > 0 /\ k * d \in Int /\ k * b \in Int
  BY <1>1
<1> QED
  BY <1>2, <1>3

\* So the shares of an amount fit into it.
LEMMA SharesFit ==
  ASSUME NEW amounts \in [Entries -> Nat \ {0}], NEW amount \in Nat,
         NEW s, \A e \in Entries : s[e] \in Shares(amounts[e], Total(amounts), amount)
  PROVE  Ints(s, Entries) /\ SumOver(s, Entries) <= amount
<1> DEFINE total == SumOver(amounts, Entries)
           left == [e \in Entries |-> total * s[e]]
           right == [e \in Entries |-> amount * amounts[e]]
<1>0. IsFiniteSet(Entries) /\ 0 \in Entries
  BY EntryFacts
<1>1. Ints(amounts, Entries) /\ amounts[0] \in Nat \ {0}
  BY <1>0 DEF Ints
<1>2. total \in Nat \ {0}
  <2> DEFINE one == [e \in Entries |-> 1]
  <2>1. \A e \in Entries : one[e] = 1 /\ one[e] <= amounts[e]
    OBVIOUS
  <2> HIDE DEF one
  <2>2. Cardinality(Entries) = NumCrs + 1 /\ NumCrs \in Nat
    BY EntryFacts
  <2>3. Ints(one, Entries) /\ 1 \in Int
    BY <2>1 DEF Ints
  <2>4. SumOver(one, Entries) = 1 * Cardinality(Entries)
    BY <1>0, <2>1, <2>3, SumEqual
  <2>5. SumOver(one, Entries) <= total
    BY <1>0, <1>1, <2>1, <2>3, SumLess
  <2>6. total \in Int
    BY <1>0, <1>1, SumType
  <2> HIDE DEF total
  <2> QED
    BY <2>2, <2>4, <2>5, <2>6
<1>3. Total(amounts) = total
  BY TotalIsSum
<1> HIDE DEF total
<1>4. \A e \in Entries : s[e] \in Int /\ total * s[e] <= amount * amounts[e]
  BY <1>2, <1>3, ShareFacts
<1>5. Ints(s, Entries)
  BY <1>4 DEF Ints
<1>6. Ints(left, Entries) /\ Ints(right, Entries) /\ \A e \in Entries : left[e] <= right[e]
  BY <1>2, <1>4 DEF Ints
<1>7. /\ \A e \in Entries : left[e] = total * s[e]
      /\ \A e \in Entries : right[e] = amount * amounts[e]
  OBVIOUS
<1> HIDE DEF left, right
<1>8. SumOver(left, Entries) <= SumOver(right, Entries)
  BY <1>0, <1>6, SumLess
<1>9. SumOver(left, Entries) = total * SumOver(s, Entries)
  <2>1. total \in Int
    BY <1>2
  <2> QED
    BY <1>0, <1>5, <1>7, <2>1, SumTimes
<1>10. SumOver(right, Entries) = amount * total
  <2>1. amount \in Int
    OBVIOUS
  <2> QED
    BY <1>0, <1>1, <1>7, <2>1, SumTimes DEF total
<1>11. SumOver(s, Entries) \in Int
  BY <1>0, <1>5, SumType
<1>12. amount * total = total * amount
  BY <1>2
<1>13. total * SumOver(s, Entries) <= total * amount
  BY <1>8, <1>9, <1>10, <1>12
<1>14. SumOver(s, Entries) <= amount
  <2> DEFINE x == SumOver(s, Entries)
  <2> HIDE DEF x
  <2>1. x \in Int /\ amount \in Int /\ total * x <= total * amount
    BY <1>11, <1>13 DEF x
  <2>2. x <= amount
    BY <1>2, <2>1, Cancel
  <2> QED
    BY <2>2 DEF x
<1> QED
  BY <1>5, <1>14

\* Scaled memory fits if no entry had to be given its only megabyte.
LEMMA ScaledMemoryFits ==
  ASSUME NEW amounts \in [Entries -> Nat \ {0}], NEW amount \in Nat,
         NEW memory \in ScaledMemory(amounts, amount)
  PROVE  /\ memory \in [Entries -> Nat]
         /\ (\A e \in Entries : memory[e] > Megabyte) => SumOver(memory, Entries) <= amount
<1>1. PICK s \in [Entries -> 0 .. amount] :
        /\ \A e \in Entries : s[e] \in Shares(amounts[e], Total(amounts), amount)
        /\ LET scaled == [e \in Entries |-> Aligned(s[e])]
               rest == amount - Total(scaled)
           IN memory = [e \in Entries |->
                          scaled[e] + Megabyte * Extra(amounts, rest \div Megabyte, e)]
  BY DEF ScaledMemory
<1> DEFINE scaled == [e \in Entries |-> Aligned(s[e])]
           rest == amount - SumOver(scaled, Entries)
           extra == [e \in Entries |-> Extra(amounts, rest \div Megabyte, e)]
           more == [e \in Entries |-> Megabyte * extra[e]]
<1>2. memory = [e \in Entries |-> scaled[e] + more[e]]
  BY <1>1, TotalIsSum
<1>3. \A e \in Entries : memory[e] = scaled[e] + more[e]
  BY <1>2
<1>4. DOMAIN memory = Entries /\ memory = [e \in Entries |-> memory[e]]
  BY <1>2
<1>5. IsFiniteSet(Entries) /\ Megabyte = 2
  BY EntryFacts DEF Megabyte
<1>6. \A e \in Entries : /\ scaled[e] \in Nat
                         /\ scaled[e] > Megabyte => scaled[e] <= s[e]
  BY AlignedFacts
<1>7. Ints(scaled, Entries)
  BY <1>6 DEF Ints
<1> HIDE DEF scaled
<1>8. rest \in Int
  BY <1>5, <1>7, SumType
<1> HIDE DEF rest
<1> DEFINE half == rest \div Megabyte
<1>9. half \in Int /\ Megabyte * half <= rest
  BY <1>5, <1>8
<1>10. \A e \in Entries : extra[e] = Extra(amounts, half, e)
  OBVIOUS
<1>11. Ints(amounts, Entries)
  BY DEF Ints
<1> HIDE DEF extra, half
<1>12. /\ \A e \in Entries : extra[e] \in Nat
       /\ SumOver(extra, Entries) = IF half <= 0 THEN 0 ELSE half
  BY <1>9, <1>10, <1>11, ExtraSum
<1>13. Ints(extra, Entries) /\ \A e \in Entries : more[e] = Megabyte * extra[e]
  BY <1>12 DEF Ints
<1> HIDE DEF more
<1>14. Ints(more, Entries) /\ \A e \in Entries : more[e] \in Nat
  BY <1>5, <1>12, <1>13 DEF Ints
<1>15. SumOver(more, Entries) = Megabyte * SumOver(extra, Entries)
  <2>1. Megabyte \in Int
    BY <1>5
  <2> QED
    BY <1>5, <1>13, <2>1, SumTimes
<1>16. SumOver(memory, Entries) = SumOver(scaled, Entries) + SumOver(more, Entries)
  BY <1>3, <1>5, <1>7, <1>14, SumPlus
<1>17. SumOver(scaled, Entries) \in Int /\ rest = amount - SumOver(scaled, Entries)
  BY <1>5, <1>7, SumType DEF rest
<1>18. CASE half > 0
  <2>1. SumOver(memory, Entries) = SumOver(scaled, Entries) + Megabyte * half
    BY <1>9, <1>12, <1>15, <1>16, <1>18
  <2>2. SumOver(memory, Entries) <= amount
    BY <1>5, <1>8, <1>9, <1>17, <2>1
  <2>3. memory \in [Entries -> Nat]
    BY <1>3, <1>4, <1>6, <1>14
  <2> QED
    BY <2>2, <2>3
<1>19. CASE half <= 0
  <2>1. SumOver(memory, Entries) = SumOver(scaled, Entries)
    BY <1>5, <1>9, <1>12, <1>15, <1>16, <1>17, <1>19
  <2>2. \A e \in Entries : more[e] = 0
    <3>1. \A e \in Entries : extra[e] = 0
      BY <1>10, <1>19 DEF Extra
    <3> QED
      BY <1>5, <1>13, <3>1
  <2>3. Ints(s, Entries) /\ SumOver(s, Entries) <= amount
    BY <1>1, SharesFit
  <2>4. ASSUME \A e \in Entries : memory[e] > Megabyte
        PROVE  SumOver(memory, Entries) <= amount
    <3>1. \A e \in Entries : scaled[e] <= s[e]
      BY <1>3, <1>6, <2>2, <2>4
    <3>2. SumOver(scaled, Entries) <= SumOver(s, Entries)
      BY <1>5, <1>7, <2>3, <3>1, SumLess
    <3>3. SumOver(s, Entries) \in Int
      BY <1>5, <2>3, SumType
    <3> QED
      BY <1>17, <2>1, <2>3, <3>2, <3>3
  <2>5. memory \in [Entries -> Nat]
    BY <1>3, <1>4, <1>6, <1>14
  <2> QED
    BY <2>4, <2>5
<1> QED
  BY <1>9, <1>18, <1>19


\* The default memory fits if no entry had to be given its only megabyte.
LEMMA DefaultMemoryFits ==
  ASSUME NEW amount \in Nat, NEW gb16 \in Nat,
         NEW memory, memory = DefaultMemory(amount, gb16)
  PROVE  /\ memory \in [Entries -> Nat]
         /\ (\A e \in Entries : memory[e] > Megabyte) => SumOver(memory, Entries) <= amount
<1> DEFINE infra == Aligned(Min({gb16, amount \div 4}))
           share == (amount - infra) \div NumCrs
           perCrs == Aligned(share)
           rest == amount - infra - perCrs * NumCrs
           half == rest \div Megabyte
           more(e) == IF e - 1 < half THEN Megabyte ELSE 0
           one == [e \in CrsEntries |-> IF e - 1 < half THEN 1 ELSE 0]
           b == [e \in CrsEntries |-> Megabyte * one[e]]
           even == [e \in CrsEntries |-> perCrs]
<1>1. memory = [e \in Entries |-> IF e = 0 THEN infra ELSE perCrs + more(e)]
  BY DEF DefaultMemory
<1>2. NumCrs \in Nat \ {0} /\ Entries = CrsEntries \union {0} /\ 0 \notin CrsEntries
      /\ IsFiniteSet(CrsEntries) /\ Cardinality(CrsEntries) = NumCrs /\ Megabyte = 2
  BY EntryFacts DEF Megabyte
<1>3. infra \in Nat
  <2> DEFINE x == amount \div 4
             y == Min({gb16, x})
  <2>1. x \in Int
    OBVIOUS
  <2> HIDE DEF x
  <2>2. y \in {gb16, x}
    BY <2>1, MaxMin
  <2>3. y \in Int
    BY <2>1, <2>2
  <2> HIDE DEF y
  <2>4. Aligned(y) \in Nat
    BY <2>3, AlignedFacts
  <2> QED
    BY <2>4 DEF x, y
<1> HIDE DEF infra
<1>4. share \in Int /\ NumCrs * share <= amount - infra
  <2> DEFINE p == amount - infra
             r == p % NumCrs
  <2>1. p \in Int
    BY <1>3
  <2> HIDE DEF p
  <2>2. r = p % NumCrs /\ share = p \div NumCrs
    BY DEF p
  <2> HIDE DEF r, share
  <2>3. /\ share \in Int /\ r \in 0 .. NumCrs - 1 /\ p = NumCrs * share + r
        /\ p >= 0 => share >= 0
    <3>1. NumCrs \in Nat \ {0}
      BY <1>2
    <3>2. Divided(p, NumCrs, share, r)
      BY <2>1, <2>2, <3>1, DivMod
    <3> QED
      BY <3>2 DEF Divided
  <2>4. NumCrs * share \in Int
    BY <1>2, <2>3
  <2>5. NumCrs * share <= p
    BY <1>2, <2>3, <2>4
  <2> QED
    BY <2>3, <2>5 DEF p
<1> HIDE DEF share
<1>5. perCrs \in Nat /\ perCrs >= Megabyte /\ (perCrs > Megabyte => perCrs <= share)
  BY <1>4, AlignedFacts
<1> HIDE DEF perCrs
<1>6. rest \in Int /\ perCrs * NumCrs \in Int
  BY <1>2, <1>3, <1>5
<1>7. rest = amount - infra - perCrs * NumCrs
  OBVIOUS
<1> HIDE DEF rest
<1>8. half \in Int /\ Megabyte * half <= rest /\ (rest < 0 => half < 0) /\ (rest >= 0 => half >= 0)
  BY <1>2, <1>6
<1> HIDE DEF half
<1>9. memory[0] = infra /\ \A e \in CrsEntries : memory[e] = perCrs + more(e)
  BY <1>1, <1>2
<1>10. memory \in [Entries -> Nat]
  <2>1. \A e \in Entries : (IF e = 0 THEN infra ELSE perCrs + more(e)) \in Nat
    BY <1>2, <1>3, <1>5
  <2> QED
    BY <1>1, <2>1
<1>11. \A e \in CrsEntries : memory[e] = even[e] + b[e]
  BY <1>2, <1>9
<1>12. \A e \in CrsEntries : one[e] \in {0, 1} /\ b[e] = Megabyte * one[e] /\ even[e] = perCrs
  OBVIOUS
<1>13. half >= 0 => SumOver(one, CrsEntries) <= half
  <2> SUFFICES ASSUME half >= 0 PROVE SumOver(one, CrsEntries) <= half
    OBVIOUS
  <2> DEFINE K == { e \in CrsEntries : one[e] = 1 }
  <2>1. SumOver(one, CrsEntries) = Cardinality(K)
    BY <1>2, <1>12, SumCounts
  <2>2. K \subseteq 1 .. half
    BY <1>2, <1>8 DEF CrsEntries
  <2>3. IsFiniteSet(1 .. half) /\ Cardinality(1 .. half) = half
    BY <1>8, FS_Interval
  <2>4. Cardinality(K) <= half
    BY <2>2, <2>3, FS_Subset
  <2> QED
    BY <2>1, <2>4
<1>14. half < 0 => \A e \in CrsEntries : more(e) = 0 /\ one[e] = 0
  BY <1>2, <1>8 DEF CrsEntries
<1> HIDE DEF one, even, b
<1>15. Ints(one, CrsEntries) /\ Ints(even, CrsEntries) /\ Ints(b, CrsEntries)
  BY <1>2, <1>5, <1>12 DEF Ints
<1>16. SumOver(memory, CrsEntries) = SumOver(even, CrsEntries) + SumOver(b, CrsEntries)
  BY <1>2, <1>11, <1>15, SumPlus
<1>17. SumOver(b, CrsEntries) = Megabyte * SumOver(one, CrsEntries)
  <2>1. Megabyte \in Int
    BY <1>2
  <2> QED
    BY <1>2, <1>12, <1>15, <2>1, SumTimes
<1>18. SumOver(even, CrsEntries) = perCrs * NumCrs
  <2>1. perCrs \in Int
    BY <1>5
  <2> QED
    BY <1>2, <1>12, <2>1, SumEqual
<1>19. SumOver(memory, Entries) = memory[0] + SumOver(memory, CrsEntries)
  <2>1. Ints(memory, CrsEntries) /\ memory[0] \in Int
    BY <1>2, <1>10 DEF Ints
  <2> QED
    BY <1>2, <2>1, SumAdd
<1>20. SumOver(one, CrsEntries) \in Int
  BY <1>2, <1>15, SumType
<1>21. SumOver(memory, Entries) = infra + (perCrs * NumCrs + 2 * SumOver(one, CrsEntries))
  BY <1>2, <1>9, <1>16, <1>17, <1>18, <1>19
<1>22. CASE half >= 0
  <2>1. SumOver(one, CrsEntries) <= half /\ 2 * half <= rest
    BY <1>2, <1>8, <1>13, <1>22
  <2>2. SumOver(memory, Entries) <= amount
    BY <1>3, <1>6, <1>7, <1>8, <1>20, <1>21, <2>1
  <2> QED
    BY <1>10, <2>2
<1>23. CASE half < 0
  <2>1. rest < 0
    BY <1>6, <1>8, <1>23
  <2>2. ASSUME perCrs > Megabyte PROVE FALSE
    <3>1. perCrs <= share
      BY <1>5, <2>2
    <3>2. perCrs * NumCrs <= NumCrs * share
      <4> DEFINE d == share - perCrs
      <4>1. d \in Nat /\ share = perCrs + d
        BY <1>4, <1>5, <3>1
      <4> HIDE DEF d
      <4>2. NumCrs * share = perCrs * NumCrs + NumCrs * d
        BY <1>2, <1>5, <4>1
      <4>3. NumCrs * d \in Nat
        BY <1>2, <4>1
      <4> QED
        BY <1>6, <4>2, <4>3
    <3>3. NumCrs * share \in Int
      BY <1>2, <1>4
    <3> QED
      BY <1>3, <1>4, <1>6, <1>7, <2>1, <3>2, <3>3
  <2>3. 1 \in CrsEntries /\ memory[1] = perCrs
    <3>1. 1 \in CrsEntries
      BY <1>2 DEF CrsEntries
    <3>2. more(1) = 0
      BY <1>14, <1>23, <3>1
    <3> HIDE DEF more
    <3> QED
      BY <1>5, <1>9, <3>1, <3>2
  <2> QED
    BY <1>2, <1>10, <2>2, <2>3
<1> QED
  BY <1>8, <1>22, <1>23

-----------------------------------------------------------------------------
(* gen-compose.                                                             *)

\* The part of AllocationIsSound that is about the compose file.
ComposeInv == ComposeTypeOK /\ PoolIsDivided /\ MemoryFits

\* A compose file of which that is true.
SoundFile(f) ==
  /\ f.state \in {"none", "refused", "written", "given"}
  /\ f.template \in Templates \union {<<>>}
  /\ f.cpus \in [Entries -> SUBSET (1 .. f.pool)]
  /\ f.memory \in [Entries -> Nat]
  /\ f.state = "written" =>
       /\ \A e \in Entries : f.cpus[e] # {}
       /\ \A e, g \in Entries : e # g => f.cpus[e] \cap f.cpus[g] = {}
       /\ UNION { f.cpus[e] : e \in Entries } = 1 .. f.pool
       /\ (\A e \in Entries : f.memory[e] > Megabyte) => Total(f.memory) <= f.amount

\* An empty file has nothing to divide.
EmptyFile(f) ==
  /\ f.state \in {"none", "refused", "given"} /\ f.template = <<>> /\ f.pool = 0
  /\ f.cpus = [e \in Entries |-> {}] /\ f.memory = [e \in Entries |-> 0]

\* Such a file is sound.
LEMMA NoFileSound ==
  ASSUME NEW f, EmptyFile(f)
  PROVE  SoundFile(f)
<1>1. f.cpus \in [Entries -> SUBSET (1 .. f.pool)]
  BY DEF EmptyFile
<1> QED
  BY <1>1 DEF SoundFile, EmptyFile

\* What gen-compose writes is sound.
LEMMA WrittenSound ==
  ASSUME NEW f, NEW template \in Templates, NEW pool \in Pools, NEW amount \in Memories,
         pool > NumCrs,
         NEW counts \in IF template = <<>> THEN {DefaultCounts(pool)}
                        ELSE ScaledCounts(template, pool),
         NEW memory \in IF template = <<>> THEN {DefaultMemory(amount, Gb16)}
                        ELSE ScaledMemory(template, amount),
         f = [state |-> "written", template |-> template, pool |-> pool,
              amount |-> amount, cpus |-> Slices(counts, pool), memory |-> memory]
  PROVE  SoundFile(f)
<1>1. pool \in Nat /\ amount \in Nat /\ Gb16 \in Nat
      /\ (template # <<>> => template \in [Entries -> Nat \ {0}])
  BY ResourcesAssumption
<1>2. template # <<>> => Ints(template, Entries)
  BY <1>1 DEF Ints
<1>3. counts \in Counts /\ SumOver(counts, Entries) = pool
  <2>1. CASE template = <<>>
    <3>1. counts = DefaultCounts(pool)
      BY <2>1
    <3> QED
      BY <1>1, <3>1, DefaultCountsFacts
  <2>2. CASE template # <<>>
    <3>1. counts \in ScaledCounts(template, pool)
      BY <2>2
    <3> QED
      BY <1>1, <1>2, <2>2, <3>1, ScaledCountsFacts
  <2> QED
    BY <2>1, <2>2
<1>4. /\ memory \in [Entries -> Nat]
      /\ (\A e \in Entries : memory[e] > Megabyte) => SumOver(memory, Entries) <= amount
  <2>1. CASE template = <<>>
    <3>1. memory = DefaultMemory(amount, Gb16)
      BY <2>1
    <3> QED
      BY <1>1, <3>1, DefaultMemoryFits
  <2>2. CASE template # <<>>
    <3>1. memory \in ScaledMemory(template, amount)
      BY <2>2
    <3> QED
      BY <1>1, <2>2, <3>1, ScaledMemoryFits
  <2> QED
    BY <2>1, <2>2
<1> DEFINE cpus == Slices(counts, pool)
<1>5. /\ f.state = "written" /\ f.template = template /\ f.pool = pool
      /\ f.amount = amount /\ f.cpus = cpus /\ f.memory = memory
  OBVIOUS
<1>6. cpus = Slices(counts, pool)
  OBVIOUS
<1> HIDE DEF cpus
<1>7. /\ cpus \in [Entries -> SUBSET (1 .. pool)]
      /\ \A e \in Entries : cpus[e] # {}
      /\ \A e, g \in Entries : e # g => cpus[e] \cap cpus[g] = {}
      /\ UNION { cpus[e] : e \in Entries } = 1 .. pool
  BY <1>1, <1>3, <1>6, SlicesDivide
<1>8. Total(memory) = SumOver(memory, Entries)
  BY TotalIsSum
<1> QED
  BY <1>4, <1>5, <1>7, <1>8 DEF SoundFile

\* There is no file at first, or a given one.
LEMMA InitComposeInv == ResourceInit => ComposeInv
<1> SUFFICES ASSUME ResourceInit PROVE ComposeInv
  OBVIOUS
<1>1. EmptyFile(compose)
  <2>1. compose = NoFile \/ compose = [NoFile EXCEPT !.state = "given"]
    BY DEF ResourceInit
  <2>2. CASE compose = NoFile
    BY <2>2 DEF EmptyFile, NoFile
  <2>3. CASE compose = [NoFile EXCEPT !.state = "given"]
    BY <2>3 DEF EmptyFile, NoFile
  <2> QED
    BY <2>1, <2>2, <2>3
<1>2. SoundFile(compose)
  BY <1>1, NoFileSound
<1> QED
  BY <1>2 DEF SoundFile, ComposeInv, ComposeTypeOK, PoolIsDivided, MemoryFits

\* The steps keep it: only gen-compose writes the file.
LEMMA NextComposeInv == ComposeInv /\ [ResourceNext]_resourceVars => ComposeInv'
<1> SUFFICES ASSUME ComposeInv, [ResourceNext]_resourceVars PROVE ComposeInv'
  OBVIOUS
<1>1. ASSUME UNCHANGED compose PROVE ComposeInv'
  BY <1>1 DEF ComposeInv, ComposeTypeOK, PoolIsDivided, MemoryFits
<1>2. ASSUME NEW template \in Templates, NEW pool \in Pools, NEW amount \in Memories,
             GenCompose(template, pool, amount)
      PROVE  ComposeInv'
  <2>1. ASSUME compose' = [NoFile EXCEPT !.state = "refused"] PROVE SoundFile(compose')
    <3>1. EmptyFile(compose')
      BY <2>1 DEF EmptyFile, NoFile
    <3> QED
      BY <3>1, NoFileSound
  <2>2. ASSUME compose' # [NoFile EXCEPT !.state = "refused"] PROVE SoundFile(compose')
    <3>1. PICK counts \in IF template = <<>> THEN {DefaultCounts(pool)}
                          ELSE ScaledCounts(template, pool),
               memory \in IF template = <<>> THEN {DefaultMemory(amount, Gb16)}
                          ELSE ScaledMemory(template, amount) :
            compose' = [state |-> "written", template |-> template, pool |-> pool,
                        amount |-> amount, cpus |-> Slices(counts, pool), memory |-> memory]
      BY <1>2, <2>2 DEF GenCompose
    <3>2. pool > NumCrs
      BY <1>2, <2>2 DEF GenCompose
    <3> QED
      BY <3>1, <3>2, WrittenSound
  <2>3. SoundFile(compose')
    BY <2>1, <2>2
  <2> QED
    BY <2>3 DEF SoundFile, ComposeInv, ComposeTypeOK, PoolIsDivided, MemoryFits
<1>3. ASSUME NEW r \in Runs, RunStep(r) \/ Crash(r) \/ \E c \in CrsEntries : Exit(r, c)
      PROVE  ComposeInv'
  BY <1>1, <1>3 DEF RunStep, CheckCgroups, MakeWorker, ComposeUp, ComposeDown, CleanCrs,
     CleanWorker, MakeCrs, Crash, Exit
<1>4. CASE UNCHANGED resourceVars
  BY <1>1, <1>4 DEF resourceVars
<1> QED
  BY <1>2, <1>3, <1>4 DEF ResourceNext

\* What gen-compose writes can be used by every entry at once (scale_cpusets, scale_memory and
\* the defaults): the CPUs of a pool are divided, none left and none shared, and the memory fits
\* unless an entry got its only megabyte.  It is so for every pool, amount and template,
\* whichever way a float rounds a share.
THEOREM SpecAllocationIsSound == ResourceSpec => []AllocationIsSound
<1>1. GroupInv /\ ComposeInv => AllocationIsSound
  BY DEF GroupInv, ComposeInv, AllocationIsSound, ResourceTypeOK
<1>2. ResourceSpec => []ComposeInv
  BY InitComposeInv, NextComposeInv, PTL DEF ResourceSpec
<1> QED
  BY <1>1, <1>2, SpecGroupInv, PTL

===============================================================================
