---------------------------- MODULE BuilderProofs ----------------------------
(***************************************************************************)
(* Theorems about BuilderSidecar and, in the second part, about the        *)
(* rebuild ids of PatchValidation, for any CRSs, clients, patches, threads *)
(* and bounds: a job runs in one place at a time, and a client is told of  *)
(* a success only after a container had it; with callers that keep to      *)
(* themselves a rebuild id names the build of the caller's patch, and      *)
(* run-pov and the downloads that use it tell the truth.                   *)
(***************************************************************************)
EXTENDS PatchValidation, FiniteSetTheorems, TLAPS

\* The work queue and job_results name the same queued jobs, each of them once.
QueueInv ==
  /\ \A i \in 1..Len(queue) : results[queue[i].job].status = "queued"
  /\ \A i, n \in 1..Len(queue) : queue[i].job = queue[n].job => i = n
  /\ \A j \in Jobs : results[j].status = "queued" => \E i \in 1..Len(queue) : queue[i].job = j

\* The threads and job_results name the same running jobs, each of them once.
PoolInv ==
  /\ \A w \in Workers : item[w] # None => results[item[w].job].status = "running"
  /\ \A w, x \in Workers :
       item[w] # None /\ item[x] # None /\ item[w].job = item[x].job => w = x
  /\ \A j \in Jobs : results[j].status = "running" =>
       \E w \in Workers : item[w] # None /\ item[w].job = j

\* A container that still writes to its directory, and an orphan, has one on disk, and the
\* tree that is being staged was there.
MountInv ==
  /\ \A w \in Workers : mounted[w] => item[w] # None /\ dirs[DirOf(w)].here
  /\ \A o \in orphans : dirs[o.dir].here
  /\ staging # None => staging.tree.here

\* A result with an exit code carries the rebuild id of its run.
ResultInv == \A j \in Jobs : results[j].exit # None => results[j].rid \in Rids

\* Wherever a success is kept on its way to a client, a container had it.
SuccessInv ==
  /\ \A j \in Jobs : Succeeded(j) => j \in ran
  /\ \A w \in Workers : code[w] = 0 => item[w] # None /\ item[w].job \in ran
  /\ staging # None => staging.job \in ran
  /\ told \subseteq ran

IInv == TypeOK /\ ResultInv /\ MountInv /\ QueueInv /\ PoolInv /\ SuccessInv

-----------------------------------------------------------------------------
\* The initial state satisfies the invariant.
LEMMA InitIInv == Init => IInv
<1> SUFFICES ASSUME Init PROVE IInv
  OBVIOUS
<1> USE BuilderAssumption DEF Init
<1>1. ServerType
  BY DEF ServerType, Results, NoResult, NoExit
<1>2. WorkerType
  BY DEF WorkerType
<1>3. DiskType
  BY DEF DiskType, Trees, Absent
<1>4. ClientType
  BY DEF ClientType
<1>5. QueueInv /\ ResultInv
  BY DEF QueueInv, ResultInv, NoResult, NoExit
<1>6. PoolInv /\ MountInv
  BY DEF PoolInv, MountInv, NoResult, NoExit
<1>7. SuccessInv
  BY DEF SuccessInv, Succeeded, NoResult, NoExit
<1> QED
  BY <1>1, <1>2, <1>3, <1>4, <1>5, <1>6, <1>7 DEF IInv, TypeOK

-----------------------------------------------------------------------------
(* Each action keeps the types.                                             *)

\* A request keeps the types, whichever way it is served.
LEMMA PostType ==
  ASSUME TypeOK, ResultInv, NEW k \in Clients, Post(k)
  PROVE  TypeOK'
<1> USE BuilderAssumption
<1>1. WorkerType' /\ DiskType'
  BY DEF Post, TypeOK, WorkerType, DiskType, workerVars, diskVars
<1>0. PICK kind \in Kinds : \E p \in PatchesOf[k] : \E r \in Requested(k, kind) :
             \/ PostJoins(k, <<kind, p>>)
             \/ PostCached(k, <<kind, p>>, r)
             \/ PostStages(k, <<kind, p>>, r)
             \/ PostQueues(k, <<kind, p>>, r)
  BY DEF Post
<1>2. PICK p \in PatchesOf[k], r \in Requested(k, kind) :
             \/ PostJoins(k, <<kind, p>>)
             \/ PostCached(k, <<kind, p>>, r)
             \/ PostStages(k, <<kind, p>>, r)
             \/ PostQueues(k, <<kind, p>>, r)
  BY <1>0
<1> DEFINE j == <<kind, p>>
<1>3. j \in Jobs /\ j[2] \in Patches /\ CrsOf[k] \in CRSs /\ r \in Rids \union {None}
  BY DEF Jobs, Requested, Rids
<1>4. calls' \in 0..MaxCalls /\ giveUps' \in 0..MaxGiveUps /\ ran' \subseteq Jobs
      /\ faults' \in 0..MaxFaults /\ restarts' \in 0..MaxRestarts
  BY DEF Post, TypeOK, ClientType, faultVars
<1>5. CASE PostJoins(k, j)
  BY <1>1, <1>3, <1>4, <1>5 DEF PostJoins, TypeOK, ServerType, ClientType
<1>6. CASE PostCached(k, j, r)
  <2>1. results[j].rid \in Rids
    BY <1>3, <1>6 DEF PostCached, Succeeded, ResultInv
  <2>2. told' \subseteq Jobs /\ given' \subseteq CRSs \X Patches \X Rids
    BY <1>3, <1>6, <2>1 DEF PostCached, Answer, TypeOK, ClientType
  <2> QED
    BY <1>1, <1>4, <1>6, <2>2 DEF PostCached, TypeOK, ServerType, ClientType
<1>7. CASE PostStages(k, j, r)
  <2>1. r \in Rids /\ results[j].rid \in Rids
    BY <1>3, <1>7 DEF PostStages, Succeeded, ResultInv
  <2>2. dirs[<<CrsOf[k], results[j].rid>>] \in Trees
    BY <1>3, <2>1 DEF TypeOK, DiskType
  <2>3. UNCHANGED <<results, queue, told>>
    BY <1>7 DEF PostStages
  <2>4. CASE dirs[<<CrsOf[k], results[j].rid>>].here
    <3>1. waiting' = [waiting EXCEPT ![k] = j] /\ given' \subseteq given
      BY <1>7, <2>4 DEF PostStages, Reclaim
    <3>2. staging' = [client |-> k, job |-> j, crs |-> CrsOf[k], rid |-> r,
                      tree |-> dirs[<<CrsOf[k], results[j].rid>>], removed |-> FALSE]
      BY <1>7, <2>4 DEF PostStages
    <3>3. staging' \in [client : Clients, job : Jobs, crs : CRSs, rid : Rids,
                        tree : Trees, removed : BOOLEAN]
      BY <1>3, <2>1, <2>2, <3>2
    <3> QED
      BY <1>1, <1>3, <1>4, <2>3, <3>1, <3>3 DEF TypeOK, ServerType, ClientType
  <2>5. CASE ~dirs[<<CrsOf[k], results[j].rid>>].here
    BY <1>1, <1>4, <1>7, <2>3, <2>5 DEF PostStages, TypeOK, ServerType, ClientType
  <2> QED
    BY <2>4, <2>5
<1>8. CASE PostQueues(k, j, r)
  BY <1>1, <1>3, <1>4, <1>8 DEF PostQueues, Reclaim, TypeOK, ServerType, ClientType, Results, NoResult, NoExit, Items
<1> QED
  BY <1>2, <1>5, <1>6, <1>7, <1>8

\* The work item and its entry move to a thread.
LEMMA TakeType ==
  ASSUME TypeOK, NEW w \in Workers, Take(w)
  PROVE  TypeOK'
<1> USE BuilderAssumption
<1>1. Head(queue) \in Items /\ Tail(queue) \in Seq(Items)
  BY DEF Take, TypeOK, ServerType
<1>0. Head(queue).job \in Jobs
  BY <1>1 DEF Items
<1>2. ServerType'
  BY <1>0, <1>1 DEF Take, TypeOK, ServerType, Results
<1>3. WorkerType'
  BY <1>1 DEF Take, TypeOK, WorkerType
<1>4. DiskType' /\ ClientType'
  BY DEF Take, TypeOK, DiskType, ClientType, diskVars, clientVars, faultVars
<1> QED
  BY <1>2, <1>3, <1>4 DEF TypeOK

\* Unlinking a directory only cuts mounts.
LEMMA DetachType ==
  ASSUME mounted \in [Workers -> BOOLEAN], NEW d, Detach(d)
  PROVE  /\ mounted' \in [Workers -> BOOLEAN]
         /\ \A w \in Workers : mounted'[w] <=> mounted[w] /\ DirOf(w) # d
         /\ orphans' = {o \in orphans : o.dir # d}
<1>1. mounted' = [w \in Workers |-> mounted[w] /\ DirOf(w) # d]
  BY DEF Detach
<1>2. mounted' \in [Workers -> BOOLEAN]
  BY <1>1, Zenon
<1>3. \A w \in Workers : mounted'[w] <=> mounted[w] /\ DirOf(w) # d
  BY <1>1
<1> QED
  BY <1>2, <1>3 DEF Detach

\* The directory is made, with a patch and perhaps an old build.
LEMMA PrepareType ==
  ASSUME TypeOK, NEW w \in Workers, PrepareDir(w)
  PROVE  TypeOK'
<1> USE BuilderAssumption
<1>1. item[w] \in Items /\ DirOf(w) \in CRSs \X Rids /\ item[w].job[2] \in Patches
  BY DEF PrepareDir, TypeOK, WorkerType, Items, DirOf, Jobs
<1>2. ServerType' /\ ClientType'
  BY DEF PrepareDir, TypeOK, ServerType, ClientType, serverVars, clientVars, faultVars
<1>3. WorkerType'
  <2>1. mounted' \in [Workers -> BOOLEAN]
    BY DetachType DEF PrepareDir, TypeOK, WorkerType
  <2> QED
    BY <2>1 DEF PrepareDir, TypeOK, WorkerType
<1>4. DiskType'
  <2>1. PICK t \in Trees : t.here /\ dirs' = [dirs EXCEPT ![DirOf(w)] = t]
    <3>1. dirs[DirOf(w)].built \in Patches \union {None}
      BY <1>1 DEF TypeOK, DiskType, Trees
    <3>2. PICK b \in Patches \union {None} :
            dirs' = [dirs EXCEPT ![DirOf(w)] = [here |-> TRUE, diff |-> item[w].job[2], built |-> b]]
      BY <1>1, <3>1 DEF PrepareDir
    <3> QED
      BY <1>1, <3>2 DEF Trees
  <2>2. dirs' \in [CRSs \X Rids -> Trees]
    BY <1>1, <2>1 DEF TypeOK, DiskType
  <2>3. \A d \in CRSs \X Rids : ~dirs'[d].here => dirs'[d] = Absent
    BY <1>1, <2>1 DEF TypeOK, DiskType
  <2>4. orphans' \subseteq orphans
    BY DEF PrepareDir, Detach
  <2> QED
    BY <2>2, <2>3, <2>4 DEF TypeOK, DiskType
<1> QED
  BY <1>2, <1>3, <1>4 DEF TypeOK

\* The container writes only to a directory that is there.
LEMMA ContainerType ==
  ASSUME TypeOK, MountInv, NEW w \in Workers,
         StartContainer(w) \/ \E c \in {0, 1} : ContainerExits(w, c)
  PROVE  TypeOK'
<1> USE BuilderAssumption
<1>1. item[w] \in Items /\ DirOf(w) \in CRSs \X Rids /\ item[w].job \in Jobs
  BY DEF StartContainer, ContainerExits, TypeOK, WorkerType, Items, DirOf
<1>2. CASE StartContainer(w)
  <2>1. dirs[DirOf(w)].diff \in Patches \union {None}
    BY <1>1 DEF TypeOK, DiskType, Trees
  <2>2. ServerType' /\ ClientType'
    BY <1>2 DEF StartContainer, TypeOK, ServerType, ClientType, serverVars, clientVars, faultVars
  <2>3. WorkerType'
    BY <1>2, <2>1 DEF StartContainer, TypeOK, WorkerType
  <2>4. DiskType'
    BY <1>1, <1>2 DEF StartContainer, TypeOK, DiskType, Trees, Absent
  <2> QED
    BY <2>2, <2>3, <2>4 DEF TypeOK
<1>3. ASSUME NEW c \in {0, 1}, ContainerExits(w, c) PROVE TypeOK'
  <2>1. applied[w] \in Patches \union {None}
    BY DEF TypeOK, WorkerType
  <2>2. ServerType' /\ ClientType'
    BY <1>1, <1>3 DEF ContainerExits, TypeOK, ServerType, ClientType, serverVars, clientVars, faultVars
  <2>3. WorkerType'
    BY <1>3 DEF ContainerExits, TypeOK, WorkerType
  <2>4. DiskType'
    <3>1. dirs' = dirs \/ dirs' = [dirs EXCEPT ![DirOf(w)] = Holding(dirs[DirOf(w)], applied[w])]
      BY <1>3 DEF ContainerExits
    <3>2. CASE dirs' = dirs
      BY <1>3, <3>2 DEF ContainerExits, TypeOK, DiskType
    <3>3. CASE dirs' # dirs
      <4>1. dirs[DirOf(w)] \in Trees /\ dirs[DirOf(w)].here
        BY <1>1, <1>3, <3>3 DEF ContainerExits, MountInv, TypeOK, DiskType
      <4>2. PICK t \in Trees : t.here /\ dirs' = [dirs EXCEPT ![DirOf(w)] = t]
        BY <2>1, <3>1, <3>3, <4>1 DEF Holding, Trees
      <4> QED
        BY <1>1, <1>3, <4>2 DEF ContainerExits, TypeOK, DiskType
    <3> QED
      BY <3>2, <3>3
  <2> QED
    BY <2>2, <2>3, <2>4 DEF TypeOK
<1> QED
  BY <1>2, <1>3

\* A job ends with a result or without.
LEMMA ReleaseType ==
  ASSUME TypeOK, NEW w \in Workers, Publish(w) \/ RunRaises(w)
  PROVE  TypeOK'
<1> USE BuilderAssumption
<1>1. item[w] \in Items /\ item[w].job \in Jobs /\ item[w].rid \in Rids
  BY DEF Publish, RunRaises, TypeOK, WorkerType, Items
<1>2. Release(w) /\ UNCHANGED <<queue, diskVars, waiting, staging, calls, giveUps, told, given,
                                restarts, ran>>
  BY DEF Publish, RunRaises, clientVars, faultVars
<1>3. code[w] \in {0, 1, None}
  BY DEF TypeOK, WorkerType
<1>4. ServerType'
  <2>1. CASE Publish(w)
    BY <1>1, <1>3, <2>1 DEF Publish, TypeOK, ServerType, Results
  <2>2. CASE RunRaises(w)
    BY <1>1, <2>2 DEF RunRaises, TypeOK, ServerType, Results, NoExit
  <2> QED
    BY <2>1, <2>2
<1>5. WorkerType'
  BY <1>2 DEF Release, TypeOK, WorkerType
<1>6. faults' \in 0..MaxFaults
  BY DEF Publish, RunRaises, TypeOK, ClientType, faultVars
<1>7. DiskType' /\ ClientType'
  BY <1>2, <1>6 DEF TypeOK, DiskType, ClientType, diskVars
<1> QED
  BY <1>4, <1>5, <1>7 DEF TypeOK

\* A client is answered, or gives up.
LEMMA PollType ==
  ASSUME TypeOK, ResultInv, NEW k \in Clients, Poll(k) \/ GiveUp(k)
  PROVE  TypeOK'
<1> USE BuilderAssumption
<1>1. ServerType' /\ WorkerType' /\ DiskType'
  BY DEF Poll, GiveUp, TypeOK, ServerType, WorkerType, DiskType, serverVars, workerVars, diskVars
<1>2. CASE Poll(k)
  <2>1. waiting[k] \in Jobs /\ waiting[k][2] \in Patches /\ CrsOf[k] \in CRSs
    BY <1>2 DEF Poll, TypeOK, ClientType, Jobs
  <2>2. ExitCode(waiting[k]) = 0 => results[waiting[k]].rid \in Rids
    BY <2>1 DEF ExitCode, ResultInv
  <2>3. told' \subseteq Jobs /\ given' \subseteq CRSs \X Patches \X Rids
    BY <1>2, <2>1, <2>2 DEF Poll, Answer, TypeOK, ClientType
  <2> QED
    BY <1>1, <1>2, <2>3 DEF Poll, TypeOK, ClientType, faultVars
<1>3. CASE GiveUp(k)
  BY <1>1, <1>3 DEF GiveUp, TypeOK, ClientType, faultVars
<1> QED
  BY <1>2, <1>3

\* The staging of a cached tree: the directory is removed, then the copy takes its name.
LEMMA StageType ==
  ASSUME TypeOK, MountInv, ResultInv, Stage
  PROVE  TypeOK'
<1> USE BuilderAssumption
<1> DEFINE d == <<staging.crs, staging.rid>>
<1>1. staging \in [client : Clients, job : Jobs, crs : CRSs, rid : Rids,
                  tree : Trees, removed : BOOLEAN]
  BY DEF Stage, StageRemove, StageCommit, TypeOK, ClientType
<1>2. d \in CRSs \X Rids /\ staging.client \in Clients /\ staging.job \in Jobs
      /\ staging.rid \in Rids /\ staging.tree \in Trees
  BY <1>1
<1>3. UNCHANGED <<serverVars, item, stage, applied, code, calls, giveUps, faultVars, ran>>
  BY DEF Stage, StageRemove, StageCommit, clientVars
<1>4. ServerType'
  BY <1>3 DEF TypeOK, ServerType, serverVars
<1>5. CASE StageRemove
  <2>1. mounted' \in [Workers -> BOOLEAN] /\ orphans' \subseteq orphans
    BY <1>5, DetachType DEF StageRemove, TypeOK, WorkerType
  <2>2. WorkerType'
    BY <1>3, <2>1 DEF TypeOK, WorkerType
  <2>3. DiskType'
    BY <1>2, <1>5, <2>1 DEF StageRemove, TypeOK, DiskType, Absent, Trees
  <2>4. staging' \in [client : Clients, job : Jobs, crs : CRSs, rid : Rids,
                     tree : Trees, removed : BOOLEAN]
    BY <1>1, <1>5, Zenon DEF StageRemove
  <2>5. ClientType'
    BY <1>3, <1>5, <2>4 DEF StageRemove, TypeOK, ClientType, clientVars, faultVars
  <2> QED
    BY <1>4, <2>2, <2>3, <2>5 DEF TypeOK
<1>6. CASE StageCommit
  <2>1. mounted' \in [Workers -> BOOLEAN] /\ orphans' \subseteq orphans
    <3>1. CASE Detach(d)
      BY <3>1, DetachType DEF TypeOK, WorkerType
    <3>2. CASE UNCHANGED <<mounted, orphans>>
      BY <3>2 DEF TypeOK, WorkerType
    <3> QED
      BY <1>6, <3>1, <3>2 DEF StageCommit
  <2>2. WorkerType'
    BY <1>3, <2>1 DEF TypeOK, WorkerType
  <2>3. DiskType'
    <3>1. staging.tree \in Trees /\ (~staging.tree.here => staging.tree = Absent)
      BY <1>2, <1>6 DEF StageCommit, MountInv
    <3> QED
      BY <1>2, <1>6, <2>1, <3>1 DEF StageCommit, TypeOK, DiskType
  <2>4. told' \subseteq Jobs /\ given' \subseteq CRSs \X Patches \X Rids
    <3>1. staging.job[2] \in Patches /\ CrsOf[staging.client] \in CRSs
      BY <1>2 DEF Jobs
    <3>2. told \subseteq Jobs /\ given \subseteq CRSs \X Patches \X Rids
      BY DEF TypeOK, ClientType
    <3>3. CASE Answer(staging.client, staging.job, 0, staging.rid)
      BY <1>2, <3>1, <3>2, <3>3 DEF Answer
    <3>4. CASE UNCHANGED <<told, given>>
      BY <3>2, <3>4
    <3> QED
      BY <1>6, <3>3, <3>4 DEF StageCommit
  <2>5. waiting' \in [Clients -> Jobs \union {None}] /\ staging' = None
    BY <1>6 DEF StageCommit, TypeOK, ClientType
  <2>6. ClientType'
    BY <1>3, <2>4, <2>5 DEF TypeOK, ClientType, faultVars
  <2> QED
    BY <1>4, <2>2, <2>3, <2>6 DEF TypeOK
<1> QED
  BY <1>5, <1>6 DEF Stage

\* A restart keeps the directories and leaves orphans.
LEMMA CrashType ==
  ASSUME TypeOK, Crash
  PROVE  TypeOK'
<1> USE BuilderAssumption
<1>1. ServerType'
  BY DEF Crash, ServerType, Results, NoResult, NoExit
<1>2. WorkerType'
  BY DEF Crash, WorkerType
<1>3. DiskType'
  <2>1. ASSUME NEW w \in Workers, applied[w] # None, item[w] # None
        PROVE  [dir |-> DirOf(w), patch |-> applied[w]] \in [dir : CRSs \X Rids, patch : Patches]
    BY <2>1 DEF TypeOK, WorkerType, Items, DirOf
  <2>2. \A w \in Workers : stage[w] = "container" => item[w] # None
    BY DEF TypeOK, WorkerType
  <2>3. orphans' \subseteq [dir : CRSs \X Rids, patch : Patches]
    BY <2>1, <2>2 DEF Crash, TypeOK, DiskType
  <2> QED
    BY <2>3 DEF Crash, TypeOK, DiskType
<1>4. ClientType'
  BY DEF Crash, TypeOK, ClientType
<1> QED
  BY <1>1, <1>2, <1>3, <1>4 DEF TypeOK

\* An orphan writes only to a directory that is there.
LEMMA OrphanType ==
  ASSUME TypeOK, MountInv, NEW o \in orphans, OrphanExits(o)
  PROVE  TypeOK'
<1>1. o.dir \in CRSs \X Rids /\ o.patch \in Patches /\ dirs[o.dir] \in Trees /\ dirs[o.dir].here
  BY DEF TypeOK, DiskType, MountInv
<1>2. PICK t \in Trees : t.here /\ dirs' \in {dirs, [dirs EXCEPT ![o.dir] = t]}
  BY <1>1 DEF OrphanExits, Holding, Trees
<1>3. DiskType'
  BY <1>1, <1>2 DEF OrphanExits, TypeOK, DiskType
<1>4. ServerType' /\ WorkerType' /\ ClientType'
  BY DEF OrphanExits, TypeOK, ServerType, WorkerType, ClientType, serverVars, workerVars,
     clientVars, faultVars
<1> QED
  BY <1>3, <1>4 DEF TypeOK

\* A step keeps the types.
LEMMA NextType ==
  ASSUME IInv, Next
  PROVE  TypeOK'
<1>1. ASSUME NEW k \in Clients, Client(k) PROVE TypeOK'
  BY <1>1, PostType, PollType DEF Client, IInv
<1>2. ASSUME NEW w \in Workers, Work(w) \/ RunRaises(w) PROVE TypeOK'
  BY <1>2, TakeType, PrepareType, ContainerType, ReleaseType DEF Work, IInv
<1> QED
  BY <1>1, <1>2, StageType, CrashType, OrphanType DEF Next, IInv

-----------------------------------------------------------------------------
(* What a step does to job_results, the queue and the pool.                 *)

\* The queue is a sequence of work items.
LEMMA QueueItems ==
  ASSUME TypeOK
  PROVE  /\ Len(queue) \in Nat
         /\ \A n \in 1..Len(queue) : queue[n] \in Items /\ queue[n].job \in Jobs
<1>1. queue \in Seq(Items)
  BY DEF TypeOK, ServerType
<1>2. \A n \in 1..Len(queue) : queue[n] \in Items
  BY <1>1
<1> QED
  BY <1>1, <1>2 DEF Items

\* A step that leaves job_results, the queue and the pool alone keeps what ties them.
LEMMA KeepJobs ==
  ASSUME ResultInv, QueueInv, PoolInv, UNCHANGED <<results, queue, item>>
  PROVE  ResultInv' /\ QueueInv' /\ PoolInv'
  BY DEF ResultInv, QueueInv, PoolInv

\* A request queues a job only when it is neither queued nor running.
LEMMA PostJobs ==
  ASSUME IInv, NEW k \in Clients, Post(k)
  PROVE  ResultInv' /\ QueueInv' /\ PoolInv'
<1> USE BuilderAssumption
<1>1. item' = item
  BY DEF Post, workerVars
<1>2. CASE UNCHANGED <<results, queue>>
  BY <1>1, <1>2, KeepJobs DEF IInv
<1>3. ASSUME NEW j \in Jobs, NEW r, PostQueues(k, j, r) PROVE ResultInv' /\ QueueInv' /\ PoolInv'
  <2>1. results \in [Jobs -> Results] /\ queue \in Seq(Items)
    BY DEF IInv, TypeOK, ServerType
  <2>2. results[j].status \notin {"queued", "running"} /\ results' = [results EXCEPT ![j] = NoExit("queued")]
    BY <1>3 DEF PostQueues, InFlight
  <2>3. PICK i \in Items : i.job = j /\ queue' = Append(queue, i)
    BY <1>3 DEF PostQueues, Items
  <2>4. /\ results'[j].status = "queued" /\ results'[j].exit = None
        /\ \A x \in Jobs : x # j => results'[x] = results[x]
    BY <2>1, <2>2 DEF NoExit
  <2>5. /\ Len(queue') = Len(queue) + 1 /\ queue'[Len(queue) + 1] = i
        /\ \A n \in 1..Len(queue) : queue'[n] = queue[n] /\ queue[n] \in Items
    BY <2>1, <2>3
  <2>6. \A n \in 1..Len(queue) : queue[n].job \in Jobs /\ queue[n].job # j
    BY <2>2, <2>5 DEF IInv, QueueInv, Items
  <2>7. ResultInv'
    BY <2>4 DEF IInv, ResultInv
  <2>8. QueueInv'
    <3>1. \A n \in 1..Len(queue') : n \in 1..Len(queue) \/ n = Len(queue) + 1
      BY <2>1, <2>5
    <3>2. \A n \in 1..Len(queue') : results'[queue'[n].job].status = "queued"
      BY <2>3, <2>4, <2>5, <2>6, <3>1 DEF IInv, QueueInv
    <3>3. \A n, m \in 1..Len(queue') : queue'[n].job = queue'[m].job => n = m
      BY <2>3, <2>5, <2>6, <3>1 DEF IInv, QueueInv
    <3>4. \A x \in Jobs : results'[x].status = "queued" =>
            \E n \in 1..Len(queue') : queue'[n].job = x
      <4>1. Len(queue) + 1 \in 1..Len(queue') /\ \A n \in 1..Len(queue) : n \in 1..Len(queue')
        BY <2>1, <2>5
      <4> QED
        BY <2>3, <2>4, <2>5, <4>1 DEF IInv, QueueInv
    <3> QED
      BY <3>2, <3>3, <3>4 DEF QueueInv
  <2>9. PoolInv'
    BY <1>1, <2>2, <2>4 DEF IInv, PoolInv, TypeOK, WorkerType, Items
  <2> QED
    BY <2>7, <2>8, <2>9
<1>4. \/ UNCHANGED <<results, queue>>
      \/ \E j \in Jobs, r \in Rids \union {None} : PostQueues(k, j, r)
  BY DEF Post, PostJoins, PostCached, PostStages, Jobs, Requested
<1> QED
  BY <1>2, <1>3, <1>4

\* Taking a work item moves its job from queued to running.
LEMMA TakeJobs ==
  ASSUME IInv, NEW w \in Workers, Take(w)
  PROVE  ResultInv' /\ QueueInv' /\ PoolInv'
<1> USE BuilderAssumption
<1>1. results \in [Jobs -> Results] /\ queue \in Seq(Items) /\ queue # <<>>
  BY DEF Take, IInv, TypeOK, ServerType
<1> DEFINE j == Head(queue).job
<1>2. /\ Head(queue) = queue[1] /\ queue[1] \in Items /\ Len(queue) >= 1 /\ Len(queue) \in Nat
      /\ Len(queue') = Len(queue) - 1
      /\ \A n \in 1..Len(queue') : queue'[n] = queue[n + 1] /\ n + 1 \in 1..Len(queue)
  BY <1>1 DEF Take
<1>3. j \in Jobs /\ results[j].status = "queued"
  BY <1>2 DEF Items, IInv, QueueInv
<1>4. /\ results'[j] = [status |-> "running", exit |-> results[j].exit, rid |-> results[j].rid]
      /\ \A x \in Jobs : x # j => results'[x] = results[x]
  BY <1>1, <1>3 DEF Take
<1>5. item[w] = None /\ item' = [item EXCEPT ![w] = Head(queue)]
  BY DEF Take, IInv, TypeOK, WorkerType
<1>6. Head(queue) # None /\ item \in [Workers -> Items \union {None}]
  BY <1>2 DEF IInv, TypeOK, WorkerType
<1>7. \A x \in Workers : item[x] # None => item[x].job # j
  BY <1>3 DEF IInv, PoolInv
<1>8. ResultInv'
  BY <1>3, <1>4 DEF IInv, ResultInv
<1>9. QueueInv'
  <2>1. \A n \in 1..Len(queue') : queue'[n].job # j /\ queue'[n].job \in Jobs
    <3>1. \A n \in 2..Len(queue) : queue[n].job # queue[1].job
      BY <1>2 DEF IInv, QueueInv
    <3>2. \A n \in 1..Len(queue') : n + 1 \in 2..Len(queue)
      BY <1>2
    <3> QED
      BY <1>2, <3>1, <3>2, QueueItems DEF IInv
  <2>2. \A x \in Jobs : results'[x].status = "queued" => \E n \in 1..Len(queue') : queue'[n].job = x
    <3> SUFFICES ASSUME NEW x \in Jobs, results'[x].status = "queued"
                 PROVE  \E n \in 1..Len(queue') : queue'[n].job = x
      OBVIOUS
    <3>1. x # j /\ results[x].status = "queued"
      BY <1>3, <1>4
    <3>2. PICK m \in 1..Len(queue) : queue[m].job = x
      BY <3>1 DEF IInv, QueueInv
    <3>3. m # 1 /\ m - 1 \in 1..Len(queue')
      BY <1>2, <3>1, <3>2
    <3>4. queue'[m - 1] = queue[m]
      BY <1>2, <3>3
    <3> QED
      BY <3>2, <3>3, <3>4
  <2>3. \A n, m \in 1..Len(queue') : queue'[n].job = queue'[m].job => n = m
    BY <1>2 DEF IInv, QueueInv
  <2>4. \A n \in 1..Len(queue') : results'[queue'[n].job].status = "queued"
    BY <1>2, <1>4, <2>1 DEF IInv, QueueInv
  <2> QED
    BY <2>2, <2>3, <2>4 DEF QueueInv
<1>10. PoolInv'
  BY <1>3, <1>4, <1>5, <1>6, <1>7 DEF IInv, PoolInv, Items
<1> QED
  BY <1>8, <1>9, <1>10

\* A thread that ends a job takes its entry from running to done.
LEMMA ReleaseJobs ==
  ASSUME IInv, NEW w \in Workers, Publish(w) \/ RunRaises(w)
  PROVE  ResultInv' /\ QueueInv' /\ PoolInv'
<1> USE BuilderAssumption
<1>1. /\ item[w] \in Items /\ item[w].job \in Jobs /\ item[w].rid \in Rids /\ item[w] # None
      /\ results[item[w].job].status = "running"
  BY DEF Publish, RunRaises, IInv, TypeOK, WorkerType, Items, PoolInv
<1> DEFINE j == item[w].job
<1>2. results \in [Jobs -> Results]
  BY DEF IInv, TypeOK, ServerType
<1>3. /\ results'[j].status = "done" /\ (results'[j].exit # None => results'[j].rid \in Rids)
      /\ \A x \in Jobs : x # j => results'[x] = results[x]
  <2>1. CASE Publish(w)
    BY <1>1, <1>2, <2>1 DEF Publish
  <2>2. CASE RunRaises(w)
    BY <1>1, <1>2, <2>2 DEF RunRaises, NoExit
  <2> QED
    BY <2>1, <2>2
<1>4. queue' = queue /\ item' = [item EXCEPT ![w] = None]
  BY DEF Publish, RunRaises, Release
<1>5. queue \in Seq(Items) /\ item \in [Workers -> Items \union {None}]
  BY DEF IInv, TypeOK, ServerType, WorkerType
<1>6. ResultInv'
  BY <1>3 DEF IInv, ResultInv
<1>7. QueueInv'
  <2>1. \A n \in 1..Len(queue) : queue[n].job \in Jobs /\ queue[n].job # j
    BY <1>1, QueueItems DEF IInv, QueueInv
  <2>2. \A x \in Jobs : results'[x].status = "queued" <=> results[x].status = "queued"
    BY <1>1, <1>3
  <2>3. \A n \in 1..Len(queue) : results'[queue[n].job].status = "queued"
    BY <2>1, <2>2 DEF IInv, QueueInv
  <2>4. \A x \in Jobs : results'[x].status = "queued" => \E n \in 1..Len(queue) : queue[n].job = x
    BY <2>2 DEF IInv, QueueInv
  <2> QED
    BY <1>4, <2>3, <2>4 DEF IInv, QueueInv
<1>8. PoolInv'
  BY <1>1, <1>3, <1>4, <1>5 DEF IInv, PoolInv, Items
<1> QED
  BY <1>6, <1>7, <1>8

\* job_results, the queue and the pool agree after every step.
LEMMA NextJobs ==
  ASSUME IInv, Next
  PROVE  ResultInv' /\ QueueInv' /\ PoolInv'
<1>1. ASSUME NEW k \in Clients, Client(k) PROVE ResultInv' /\ QueueInv' /\ PoolInv'
  BY <1>1, PostJobs, KeepJobs DEF Client, Poll, GiveUp, serverVars, workerVars, IInv
<1>2. ASSUME NEW w \in Workers, Work(w) \/ RunRaises(w) PROVE ResultInv' /\ QueueInv' /\ PoolInv'
  <2>1. CASE Take(w)
    BY <2>1, TakeJobs
  <2>2. CASE Publish(w) \/ RunRaises(w)
    BY <2>2, ReleaseJobs
  <2>3. CASE PrepareDir(w) \/ StartContainer(w) \/ \E c \in {0, 1} : ContainerExits(w, c)
    BY <2>3, KeepJobs DEF PrepareDir, StartContainer, ContainerExits, serverVars, IInv
  <2> QED
    BY <1>2, <2>1, <2>2, <2>3 DEF Work
<1>3. CASE Stage
  <2>1. UNCHANGED <<serverVars, item>>
    BY <1>3, Zenon DEF Stage, StageRemove, StageCommit
  <2> QED
    BY <2>1, KeepJobs DEF serverVars, IInv
<1>4. CASE Crash
  BY <1>4 DEF Crash, ResultInv, QueueInv, PoolInv, NoResult, NoExit
<1>5. ASSUME NEW o \in orphans, OrphanExits(o) PROVE ResultInv' /\ QueueInv' /\ PoolInv'
  BY <1>5, KeepJobs DEF OrphanExits, serverVars, workerVars, IInv
<1> QED
  BY <1>1, <1>2, <1>3, <1>4, <1>5 DEF Next

-----------------------------------------------------------------------------
(* What a step does to the mounts.                                          *)

\* A step that removes no directory keeps the mounts.
LEMMA KeepMounts ==
  ASSUME TypeOK, MountInv, UNCHANGED <<item, mounted, orphans, staging>>,
         \A d \in CRSs \X Rids : dirs[d].here => dirs'[d].here
  PROVE  MountInv'
<1>1. \A w \in Workers : item[w] # None => DirOf(w) \in CRSs \X Rids /\ DirOf(w)' = DirOf(w)
  BY DEF DirOf, TypeOK, WorkerType, Items
<1>2. \A o \in orphans : o.dir \in CRSs \X Rids
  BY DEF TypeOK, DiskType
<1> QED
  BY <1>1, <1>2 DEF MountInv

\* A thread removes a directory only with the mounts of it.
LEMMA WorkMounts ==
  ASSUME TypeOK, MountInv, NEW w \in Workers, Work(w) \/ RunRaises(w)
  PROVE  MountInv'
<1> USE BuilderAssumption
<1>1. \A x \in Workers : item[x] # None => DirOf(x) \in CRSs \X Rids
  BY DEF DirOf, TypeOK, WorkerType, Items
<1>2. /\ item \in [Workers -> Items \union {None}] /\ mounted \in [Workers -> BOOLEAN]
      /\ dirs \in [CRSs \X Rids -> Trees]
  BY DEF TypeOK, WorkerType, DiskType
<1>3. stage[w] # "free" => item[w] # None
  BY DEF TypeOK, WorkerType
<1>4. CASE Take(w)
  <2>1. \A x \in Workers : mounted'[x] => x # w /\ item'[x] = item[x] /\ DirOf(x)' = DirOf(x)
    BY <1>2, <1>4 DEF Take, MountInv, TypeOK, WorkerType, DirOf
  <2>2. UNCHANGED <<mounted, dirs, orphans, staging>>
    BY <1>4 DEF Take, diskVars
  <2> QED
    BY <2>1, <2>2 DEF MountInv
<1>5. CASE PrepareDir(w)
  <2>1. dirs'[DirOf(w)].here /\ \A d \in CRSs \X Rids : d # DirOf(w) => dirs'[d] = dirs[d]
    BY <1>1, <1>2, <1>3, <1>5 DEF PrepareDir
  <2>2. /\ \A x \in Workers : mounted'[x] => mounted[x]
        /\ orphans' \subseteq orphans
    BY <1>2, <1>5, DetachType DEF PrepareDir
  <2>3. \A x \in Workers : DirOf(x)' = DirOf(x)
    BY <1>5 DEF PrepareDir, DirOf
  <2>4. \A o \in orphans : o.dir \in CRSs \X Rids
    BY DEF TypeOK, DiskType
  <2>5. UNCHANGED <<item, staging>>
    BY <1>5 DEF PrepareDir
  <2> QED
    BY <1>1, <2>1, <2>2, <2>3, <2>4, <2>5 DEF MountInv
<1>6. CASE StartContainer(w)
  <2>1. dirs'[DirOf(w)].here /\ \A d \in CRSs \X Rids : d # DirOf(w) => dirs'[d] = dirs[d]
    BY <1>1, <1>2, <1>3, <1>6 DEF StartContainer
  <2>2. \A x \in Workers : x # w => mounted'[x] = mounted[x]
    BY <1>2, <1>6 DEF StartContainer
  <2>3. \A x \in Workers : DirOf(x)' = DirOf(x)
    BY <1>6 DEF StartContainer, DirOf
  <2>4. \A o \in orphans : o.dir \in CRSs \X Rids
    BY DEF TypeOK, DiskType
  <2>5. UNCHANGED <<item, orphans, staging>> /\ item[w] # None
    BY <1>3, <1>6 DEF StartContainer
  <2> QED
    BY <1>1, <2>1, <2>2, <2>3, <2>4, <2>5 DEF MountInv
<1>7. ASSUME NEW c \in {0, 1}, ContainerExits(w, c) PROVE MountInv'
  <2>1. \A d \in CRSs \X Rids : dirs[d].here => dirs'[d].here
    BY <1>1, <1>2, <1>3, <1>7 DEF ContainerExits, Holding
  <2> QED
    BY <1>7, <2>1, KeepMounts DEF ContainerExits
<1>8. CASE Publish(w) \/ RunRaises(w)
  <2>1. Release(w) /\ UNCHANGED <<dirs, orphans, staging>>
    BY <1>8 DEF Publish, RunRaises, diskVars
  <2>2. \A x \in Workers : mounted'[x] => x # w /\ mounted[x] /\ item'[x] = item[x] /\ DirOf(x)' = DirOf(x)
    BY <1>2, <2>1 DEF Release, DirOf
  <2> QED
    BY <2>1, <2>2 DEF MountInv
<1> QED
  BY <1>4, <1>5, <1>6, <1>7, <1>8 DEF Work

\* So does staging.
LEMMA StageMounts ==
  ASSUME TypeOK, MountInv, Stage
  PROVE  MountInv'
<1> DEFINE d == <<staging.crs, staging.rid>>
<1>1. d \in CRSs \X Rids /\ staging.tree.here
  BY BuilderAssumption DEF Stage, StageRemove, StageCommit, TypeOK, ClientType, MountInv
<1>2. item' = item
  BY Zenon DEF Stage, StageRemove, StageCommit
<1>3. \A w \in Workers : item[w] # None => DirOf(w) \in CRSs \X Rids
  BY DEF DirOf, TypeOK, WorkerType, Items
<1>4. \A w \in Workers : DirOf(w)' = DirOf(w)
  BY <1>2 DEF DirOf
<1>5. dirs \in [CRSs \X Rids -> Trees] /\ \A o \in orphans : o.dir \in CRSs \X Rids
  BY DEF TypeOK, DiskType
<1>6. CASE StageRemove
  <2>1. /\ \A w \in Workers : mounted'[w] => mounted[w] /\ DirOf(w) # d
        /\ orphans' = {o \in orphans : o.dir # d}
    BY <1>6, DetachType DEF StageRemove, TypeOK, WorkerType
  <2>2. \A e \in CRSs \X Rids : e # d => dirs'[e] = dirs[e]
    BY <1>1, <1>5, <1>6 DEF StageRemove
  <2>3. staging'.tree.here
    BY <1>1, <1>6, Zenon DEF StageRemove, TypeOK, ClientType
  <2> QED
    BY <1>2, <1>3, <1>4, <1>5, <2>1, <2>2, <2>3 DEF MountInv
<1>7. CASE StageCommit
  <2>1. staging' = None
    BY <1>7 DEF StageCommit
  <2>2. CASE dirs' = [dirs EXCEPT ![d] = staging.tree] /\ Detach(d)
    <3>1. \A e \in CRSs \X Rids : dirs[e].here => dirs'[e].here
      BY <1>1, <1>5, <2>2
    <3>2. (\A w \in Workers : mounted'[w] => mounted[w]) /\ orphans' \subseteq orphans
      BY <2>2, DetachType DEF TypeOK, WorkerType
    <3> QED
      BY <1>2, <1>3, <1>4, <1>5, <2>1, <3>1, <3>2 DEF MountInv
  <2>3. CASE UNCHANGED <<dirs, mounted, orphans>>
    BY <1>2, <1>4, <2>1, <2>3 DEF MountInv
  <2> QED
    BY <1>7, <2>2, <2>3 DEF StageCommit
<1> QED
  BY <1>6, <1>7 DEF Stage

\* What is mounted is on disk after every step.
LEMMA NextMount ==
  ASSUME IInv, Next
  PROVE  MountInv'
<1>1. ASSUME NEW k \in Clients, Post(k) PROVE MountInv'
  <2>1. UNCHANGED <<item, mounted, dirs, orphans>>
    BY <1>1 DEF Post, workerVars, diskVars
  <2>2. staging' = staging \/ staging'.tree.here
    BY <1>1 DEF Post, PostJoins, PostCached, PostStages, PostQueues
  <2>3. staging = None
    BY <1>1 DEF Post
  <2> QED
    BY <2>1, <2>2, <2>3 DEF MountInv, IInv, DirOf
<1>2. ASSUME NEW k \in Clients, Poll(k) \/ GiveUp(k) PROVE MountInv'
  BY <1>2 DEF Poll, GiveUp, workerVars, diskVars, MountInv, IInv, DirOf
<1>3. CASE Crash
  <2>1. \A w \in Workers : mounted'[w] = FALSE
    BY <1>3 DEF Crash
  <2>2. UNCHANGED dirs /\ staging' = None
    BY <1>3 DEF Crash
  <2>3. \A o \in orphans' : dirs[o.dir].here
    BY <1>3 DEF Crash, IInv, MountInv
  <2> QED
    BY <2>1, <2>2, <2>3 DEF MountInv
<1>4. ASSUME NEW o \in orphans, OrphanExits(o) PROVE MountInv'
  <2>1. \A d \in CRSs \X Rids : dirs[d].here => dirs'[d].here
    BY <1>4 DEF OrphanExits, Holding, IInv, TypeOK, DiskType
  <2>2. UNCHANGED <<item, mounted, staging>> /\ orphans' \subseteq orphans
    BY <1>4 DEF OrphanExits, workerVars
  <2>3. \A w \in Workers : item[w] # None => DirOf(w) \in CRSs \X Rids /\ DirOf(w)' = DirOf(w)
    BY <2>2 DEF DirOf, IInv, TypeOK, WorkerType, Items
  <2>4. \A e \in orphans : e.dir \in CRSs \X Rids
    BY DEF IInv, TypeOK, DiskType
  <2> QED
    BY <2>1, <2>2, <2>3, <2>4 DEF MountInv, IInv
<1> QED
  BY <1>1, <1>2, <1>3, <1>4, WorkMounts, StageMounts DEF Next, Client, IInv

-----------------------------------------------------------------------------
(* What a step does to the success of a job.                                *)

\* No step makes a success up: it goes from the container to the entry, the copy and the client.
LEMMA NextSuccess ==
  ASSUME IInv, Next
  PROVE  SuccessInv'
<1> USE BuilderAssumption
<1>1. results \in [Jobs -> Results] /\ item \in [Workers -> Items \union {None}]
      /\ code \in [Workers -> {0, 1, None}]
  BY DEF IInv, TypeOK, ServerType, WorkerType
<1>2. ASSUME NEW k \in Clients, Post(k) PROVE SuccessInv'
  <2>1. UNCHANGED <<item, code, ran>>
    BY <1>2 DEF Post, workerVars
  <2>2. \E j \in Jobs : \E r : PostJoins(k, j) \/ PostCached(k, j, r) \/ PostStages(k, j, r)
                               \/ PostQueues(k, j, r)
    BY <1>2 DEF Post, Jobs
  <2>3. ASSUME NEW j \in Jobs, NEW r,
               PostJoins(k, j) \/ PostCached(k, j, r) \/ PostStages(k, j, r) \/ PostQueues(k, j, r)
        PROVE  SuccessInv'
    <3>1. \A x \in Jobs : Succeeded(x)' => Succeeded(x)
      BY <1>1, <2>3 DEF PostJoins, PostCached, PostStages, PostQueues, Succeeded, NoExit
    <3>2. staging' = staging \/ (staging'.job = j /\ Succeeded(j))
      BY <2>3 DEF PostJoins, PostCached, PostStages, PostQueues
    <3>3. told' = told \/ (told' = told \union {j} /\ Succeeded(j))
      BY <2>3 DEF PostJoins, PostCached, PostStages, PostQueues, Answer
    <3> QED
      BY <2>1, <3>1, <3>2, <3>3 DEF IInv, SuccessInv
  <2> QED
    BY <2>2, <2>3
<1>3. ASSUME NEW k \in Clients, Poll(k) \/ GiveUp(k) PROVE SuccessInv'
  <2>1. UNCHANGED <<results, item, code, staging, ran>>
    BY <1>3 DEF Poll, GiveUp, serverVars, workerVars
  <2>2. waiting[k] \in Jobs
    BY <1>3 DEF Poll, GiveUp, IInv, TypeOK, ClientType
  <2>3. told' = told \/ (told' = told \union {waiting[k]} /\ Succeeded(waiting[k]))
    BY <1>3 DEF Poll, GiveUp, Answer, ExitCode, Succeeded
  <2> QED
    BY <2>1, <2>2, <2>3 DEF IInv, SuccessInv, Succeeded
<1>4. ASSUME NEW w \in Workers, Take(w) PROVE SuccessInv'
  <2>1. item[w] = None /\ UNCHANGED <<code, ran, staging, told>>
    BY <1>4 DEF Take, IInv, TypeOK, WorkerType, clientVars
  <2>2. \A x \in Workers : x # w => item'[x] = item[x]
    BY <1>1, <1>4 DEF Take
  <2>3. \A x \in Jobs : Succeeded(x)' => Succeeded(x)
    BY <1>1, <1>4 DEF Take, Succeeded
  <2> QED
    BY <2>1, <2>2, <2>3 DEF IInv, SuccessInv
<1>5. ASSUME NEW w \in Workers, PrepareDir(w) \/ StartContainer(w) PROVE SuccessInv'
  BY <1>5 DEF PrepareDir, StartContainer, serverVars, clientVars, IInv, SuccessInv, Succeeded
<1>6. ASSUME NEW w \in Workers, NEW c \in {0, 1}, ContainerExits(w, c) PROVE SuccessInv'
  <2>1. item[w] # None
    BY <1>6 DEF ContainerExits, IInv, TypeOK, WorkerType
  <2>2. UNCHANGED <<results, item, staging, told>>
    BY <1>6 DEF ContainerExits, serverVars, clientVars
  <2>3. code' = [code EXCEPT ![w] = c] /\ ran \subseteq ran' /\ (c = 0 => item[w].job \in ran')
    BY <1>6 DEF ContainerExits
  <2> QED
    BY <1>1, <2>1, <2>2, <2>3 DEF IInv, SuccessInv, Succeeded
<1>7. ASSUME NEW w \in Workers, Publish(w) \/ RunRaises(w) PROVE SuccessInv'
  <2>1. item[w] # None /\ item[w] \in Items /\ item[w].job \in Jobs
    BY <1>7 DEF Publish, RunRaises, IInv, TypeOK, WorkerType, Items
  <2>2. UNCHANGED <<staging, told, ran>> /\ Release(w)
    BY <1>7 DEF Publish, RunRaises, clientVars
  <2>3. \A x \in Jobs : Succeeded(x)' => Succeeded(x) \/ (x = item[w].job /\ code[w] = 0)
    BY <1>1, <1>7, <2>1 DEF Publish, RunRaises, Succeeded, NoExit
  <2>4. \A x \in Workers : code'[x] = 0 => x # w /\ code[x] = 0 /\ item'[x] = item[x]
    BY <1>1, <2>2 DEF Release
  <2> QED
    BY <2>2, <2>3, <2>4 DEF IInv, SuccessInv
<1>8. CASE StageRemove
  <2>1. UNCHANGED <<results, item, code, told, ran>>
    BY <1>8, Zenon DEF StageRemove, serverVars, clientVars
  <2>2. staging # None /\ staging'.job = staging.job
    BY <1>8, Zenon DEF StageRemove, IInv, TypeOK, ClientType
  <2> QED
    BY <2>1, <2>2 DEF IInv, SuccessInv, Succeeded
<1>9. CASE StageCommit
  <2>1. UNCHANGED <<results, item, code, ran>> /\ staging' = None /\ staging # None
    BY <1>9 DEF StageCommit, serverVars
  <2>2. told' = told \/ told' = told \union {staging.job}
    BY <1>9 DEF StageCommit, Answer
  <2> QED
    BY <2>1, <2>2 DEF IInv, SuccessInv, Succeeded
<1>10. CASE Crash
  BY <1>10 DEF Crash, NoResult, NoExit, IInv, SuccessInv, Succeeded
<1>11. ASSUME NEW o \in orphans, OrphanExits(o) PROVE SuccessInv'
  BY <1>11 DEF OrphanExits, serverVars, workerVars, clientVars, IInv, SuccessInv, Succeeded
<1> QED
  BY <1>2, <1>3, <1>4, <1>5, <1>6, <1>7, <1>8, <1>9, <1>10, <1>11 DEF Next, Client, Work, Stage

-----------------------------------------------------------------------------
\* The invariant is inductive.
LEMMA NextIInv == IInv /\ [Next]_vars => IInv'
<1>1. ASSUME IInv, Next PROVE IInv'
  BY <1>1, NextType, NextJobs, NextMount, NextSuccess DEF IInv
<1>2. ASSUME IInv, UNCHANGED vars PROVE IInv'
  <2>1. TypeOK'
    BY <1>2 DEF vars, IInv, TypeOK, ServerType, WorkerType, DiskType, ClientType
  <2>2. ResultInv' /\ QueueInv' /\ PoolInv'
    BY <1>2, KeepJobs DEF vars, IInv
  <2>3. MountInv' /\ SuccessInv'
    BY <1>2 DEF vars, IInv, MountInv, DirOf, SuccessInv, Succeeded
  <2> QED
    BY <2>1, <2>2, <2>3 DEF IInv
<1> QED
  BY <1>1, <1>2

\* The inductive invariant holds in every reachable state.
THEOREM SpecIInv == Spec => []IInv
  BY InitIInv, NextIInv, PTL DEF Spec

\* No failure, exception, time-out or restart of the sidecar turns into retcode 0: a
\* client is told of a success only if a container run of that job exited with 0.
THEOREM SpecSuccessNeedsARun == Spec => []SuccessNeedsARun
<1>1. IInv => SuccessNeedsARun
  BY DEF IInv, SuccessInv, SuccessNeedsARun
<1> QED
  BY <1>1, SpecIInv, PTL

\* One element makes a set of cardinality 1.
LEMMA OneElement ==
  ASSUME NEW S, NEW e \in S, \A f \in S : f = e
  PROVE  Cardinality(S) = 1
<1>1. S = {e}
  OBVIOUS
<1> QED
  BY <1>1, FS_Singleton

\* job_results, the queue and the threads agree: a job is queued or running in exactly
\* one place while its entry says so, and nowhere otherwise.
THEOREM SpecOneRunPerJob == Spec => []OneRunPerJob
<1>1. ASSUME IInv, NEW j \in Jobs
      PROVE  Cardinality(Queued(j)) = IF results[j].status = "queued" THEN 1 ELSE 0
  <2>1. CASE results[j].status = "queued"
    <3>1. PICK n \in 1..Len(queue) : queue[n].job = j
      BY <1>1, <2>1 DEF IInv, QueueInv
    <3>2. n \in Queued(j) /\ \A m \in Queued(j) : m = n
      BY <1>1, <3>1 DEF Queued, IInv, QueueInv
    <3> QED
      BY <2>1, <3>2, OneElement
  <2>2. CASE results[j].status # "queued"
    <3>1. Queued(j) = {}
      BY <1>1, <2>2 DEF Queued, IInv, QueueInv
    <3> QED
      BY <2>2, <3>1, FS_EmptySet
  <2> QED
    BY <2>1, <2>2
<1>2. ASSUME IInv, NEW j \in Jobs
      PROVE  Cardinality(Running(j)) = IF results[j].status = "running" THEN 1 ELSE 0
  <2>1. CASE results[j].status = "running"
    <3>1. PICK w \in Workers : item[w] # None /\ item[w].job = j
      BY <1>2, <2>1 DEF IInv, PoolInv
    <3>2. w \in Running(j) /\ \A x \in Running(j) : x = w
      BY <1>2, <3>1 DEF Running, IInv, PoolInv
    <3> QED
      BY <2>1, <3>2, OneElement
  <2>2. CASE results[j].status # "running"
    <3>1. Running(j) = {}
      BY <1>2, <2>2 DEF Running, IInv, PoolInv
    <3> QED
      BY <2>2, <3>1, FS_EmptySet
  <2> QED
    BY <2>1, <2>2
<1>3. IInv => OneRunPerJob
  BY <1>1, <1>2 DEF OneRunPerJob
<1> QED
  BY <1>3, SpecIInv, PTL

-----------------------------------------------------------------------------
(* Rebuild ids, with callers that keep to themselves.                         *)

\* The callers keep to themselves: each has a CRS and patches of its own, waits for its
\* calls, and asks for no rebuild id twice.  (MCBuilderRace shows what happens otherwise.)
KeepApart ==
  /\ FreshOnly /\ MaxGiveUps = 0
  /\ \A k, m \in Clients : k # m => CrsOf[k] # CrsOf[m] /\ PatchesOf[k] \cap PatchesOf[m] = {}

\* Work item i is of the call that its client waits for, and nothing is staged for that client.
OwnItem(i) ==
  \E k \in Clients : /\ i.crs = CrsOf[k] /\ i.job[2] \in PatchesOf[k]
                     /\ waiting[k] = i.job
                     /\ staging # None => staging.client # k

DirIn(i) == <<i.crs, i.rid>>

\* The directory of a queued job, or of one just taken, does not exist yet.
QueueOwn ==
  \A n \in 1..Len(queue) : OwnItem(queue[n]) /\ ~dirs[DirIn(queue[n])].here

\* From there on it holds what the thread has put into it.
HoldsOwn(w) ==
  /\ stage[w] = "starting" => ~dirs[DirOf(w)].here
  /\ stage[w] = "prepared" => dirs[DirOf(w)].diff = item[w].job[2]
  /\ stage[w] = "container" => applied[w] = item[w].job[2] /\ mounted[w]
  /\ stage[w] = "exited" /\ code[w] = 0 /\ item[w].job[1] = "build" =>
       dirs[DirOf(w)].built = item[w].job[2]

\* No orphan writes there.
PoolOwn ==
  \A w \in Workers :
    item[w] # None => OwnItem(item[w]) /\ HoldsOwn(w) /\ \A o \in orphans : o.dir # DirOf(w)

\* A client waits for a job of its own, and what is staged for it is its build.
WaitOwn ==
  /\ \A k \in Clients : waiting[k] # None => waiting[k][2] \in PatchesOf[k]
  /\ staging # None =>
       /\ staging.crs = CrsOf[staging.client] /\ waiting[staging.client] = staging.job
       /\ staging.job[1] = "build" /\ staging.tree.built = staging.job[2]
       /\ ~dirs[DirIn(staging)].here

\* Somebody may write to directory d.
Busy(d) ==
  \/ \E n \in 1..Len(queue) : DirIn(queue[n]) = d
  \/ \E w \in Workers : item[w] # None /\ DirOf(w) = d
  \/ \E o \in orphans : o.dir = d

\* The build of patch p is in d and stays there.
Settled(d, p) == dirs[d].built = p /\ ~Busy(d)

\* So are the builds whose ids clients hold or may be answered.
GivenInv ==
  /\ \A g \in given : Settled(<<g[1], g[3]>>, g[2])
  /\ \A k \in Clients : \A p \in PatchesOf[k] :
       Succeeded(<<"build", p>>) => Settled(<<CrsOf[k], results[<<"build", p>>].rid>>, p)

ApartInv == QueueOwn /\ PoolOwn /\ WaitOwn /\ GivenInv

\* A request at the runner is for a build whose id its client holds, or for the base build;
\* what runs is the build asked for.
RequestInv ==
  /\ \A i \in 1..Len(requests) :
       IF requests[i].rid = None THEN requests[i].patch = None
       ELSE <<requests[i].crs, requests[i].patch, requests[i].rid>> \in given
  /\ serving # "idle" => requests # <<>>
  /\ serving = "running" => loaded = Head(requests).patch

\* A download is of a build whose id its client holds, and has read that build so far.
DownloadInv ==
  \A k \in Clients : download[k] # None =>
    <<CrsOf[k], download[k][1], download[k][2]>> \in given /\ download[k][3] = download[k][1]

ReadInv == VerdictsAreTrue /\ DownloadsAreWhole /\ RequestInv /\ DownloadInv

ValidationInv == IInv /\ ApartInv /\ ReadInv

-----------------------------------------------------------------------------
(* The next rebuild id, and what the callers' rules give.                   *)

\* next_rebuild_id finds an id, and no directory has it.  (The greatest id on disk exists
\* because a set of intervals 0..m has a least element.)
LEMMA NextIdIsFresh ==
  ASSUME NEW c \in CRSs, NextRebuildId(c) \in Rids
  PROVE  ~dirs[<<c, NextRebuildId(c)>>].here
<1> USE BuilderAssumption
<1> DEFINE U == {m \in 0..MaxRid : \A r \in Existing(c) : r <= m}
           S == {0..m : m \in U}
<1>1. Existing(c) \subseteq 1..MaxRid
  BY DEF Existing, Rids
<1>2. \A m \in U : m \in Nat /\ IsFiniteSet(0..m) /\ 0..m \in SUBSET Nat
  BY FS_Interval
<1>3. S \subseteq FiniteSubsetsOf(Nat)
  BY <1>2 DEF FiniteSubsetsOf
<1>4. MaxRid \in U
  BY <1>1
<1>5. S # {}
  BY <1>4
<1>6. PICK I \in S : \A J \in S : <<J, I>> \notin StrictSubsetOrdering(Nat)
  <2> HIDE DEF S
  <2> QED
    BY <1>3, <1>5, FS_StrictSubsetOrderingWellFounded, WFMin
<1>7. PICK m \in U : I = 0..m
  OBVIOUS
<1>8. m = 0 \/ m \in Existing(c)
  <2> SUFFICES ASSUME m # 0, m \notin Existing(c) PROVE FALSE
    OBVIOUS
  <2>1. m - 1 \in U
    BY <1>1
  <2>2. 0..(m - 1) \in S
    BY <2>1
  <2>3. 0..(m - 1) \subseteq I /\ m \in I /\ m \notin 0..(m - 1)
    BY <1>7
  <2>4. <<0..(m - 1), I>> \in StrictSubsetOrdering(Nat)
    BY <1>2, <1>7, <2>1, <2>3 DEF StrictSubsetOrdering
  <2> QED
    BY <1>6, <2>2, <2>4
<1>9. /\ m + 1 \in 1..(MaxRid + 1) /\ (m + 1 = 1 \/ (m + 1) - 1 \in Existing(c))
      /\ \A r \in Existing(c) : r < m + 1
  BY <1>1, <1>8
<1>10. \A r \in Existing(c) : r < NextRebuildId(c)
  BY <1>9 DEF NextRebuildId
<1> QED
  BY <1>10 DEF Existing, Rids

\* The work items of one CRS are one job.
LEMMA OneOwner ==
  ASSUME KeepApart, NEW i, NEW j, OwnItem(i), OwnItem(j), i.crs = j.crs
  PROVE  i.job = j.job
  BY DEF KeepApart, OwnItem

\* The types of what a thread holds.
LEMMA ItemTypes ==
  ASSUME IInv
  PROVE  \A w \in Workers :
           /\ stage[w] # "free" <=> item[w] # None
           /\ item[w] # None => /\ item[w] \in Items /\ DirOf(w) \in CRSs \X Rids
                                /\ item[w].job \in Jobs /\ item[w].job[2] \in Patches
                                /\ item[w].crs \in CRSs /\ item[w].rid \in Rids
  BY DEF IInv, TypeOK, WorkerType, Items, DirOf, Jobs

\* So no two places hold work for one directory.
LEMMA Alone ==
  ASSUME KeepApart, IInv, ApartInv
  PROVE  /\ \A w, x \in Workers :
              item[w] # None /\ item[x] # None /\ item[w].crs = item[x].crs => w = x
         /\ \A w \in Workers, n \in 1..Len(queue) :
              item[w] # None => queue[n].crs # item[w].crs
         /\ staging # None => /\ \A w \in Workers : item[w] # None => item[w].crs # staging.crs
                              /\ \A n \in 1..Len(queue) : queue[n].crs # staging.crs
<1>1. ASSUME NEW w \in Workers, NEW x \in Workers, item[w] # None, item[x] # None,
             item[w].crs = item[x].crs
      PROVE  w = x
  <2>1. item[w].job = item[x].job
    BY <1>1, OneOwner DEF ApartInv, PoolOwn
  <2> QED
    BY <1>1, <2>1 DEF IInv, PoolInv
<1>2. ASSUME NEW w \in Workers, NEW n \in 1..Len(queue), item[w] # None,
             queue[n].crs = item[w].crs
      PROVE  FALSE
  <2>1. queue[n].job = item[w].job
    BY <1>2, OneOwner DEF ApartInv, PoolOwn, QueueOwn
  <2> QED
    BY <1>2, <2>1 DEF IInv, PoolInv, QueueInv
<1>3. ASSUME staging # None, NEW i, OwnItem(i) PROVE i.crs # staging.crs
  <2>1. staging.client \in Clients /\ staging.crs = CrsOf[staging.client]
    BY <1>3 DEF ApartInv, WaitOwn, IInv, TypeOK, ClientType
  <2> QED
    BY <1>3, <2>1 DEF OwnItem, KeepApart
<1> QED
  BY <1>1, <1>2, <1>3 DEF ApartInv, PoolOwn, QueueOwn

\* A step that leaves the directories alone which nobody is busy in.
Quiet ==
  \A d \in CRSs \X Rids :
    dirs[d].here /\ ~Busy(d) => dirs'[d].built = dirs[d].built /\ ~Busy(d)'

\* What is settled stays so in a quiet step.
LEMMA SettledStays ==
  ASSUME IInv, Quiet
  PROVE  \A d \in CRSs \X Rids : \A p \in Patches : Settled(d, p) => Settled(d, p)'
<1> SUFFICES ASSUME NEW d \in CRSs \X Rids, NEW p \in Patches, Settled(d, p)
             PROVE  Settled(d, p)'
  OBVIOUS
<1>1. dirs[d].here
  BY BuilderAssumption DEF Settled, IInv, TypeOK, DiskType, Absent
<1>2. dirs'[d].built = p /\ ~Busy(d)'
  BY <1>1 DEF Settled, Quiet
<1> QED
  BY <1>2 DEF Settled

\* So a quiet step keeps the builds that clients hold, if those it tells of are settled.
LEMMA QuietGiven ==
  ASSUME IInv, GivenInv, Quiet,
         \A g \in given' : g \in given \/ Settled(<<g[1], g[3]>>, g[2])',
         \A j \in Jobs : Succeeded(j)' => Succeeded(j) /\ results'[j] = results[j]
  PROVE  GivenInv'
<1> USE BuilderAssumption
<1>1. \A g \in given' : Settled(<<g[1], g[3]>>, g[2])'
  <2> SUFFICES ASSUME NEW g \in given PROVE Settled(<<g[1], g[3]>>, g[2])'
    OBVIOUS
  <2>1. <<g[1], g[3]>> \in CRSs \X Rids /\ g[2] \in Patches
    BY DEF IInv, TypeOK, ClientType
  <2> QED
    BY <2>1, SettledStays DEF GivenInv
<1>2. ASSUME NEW k \in Clients, NEW p \in PatchesOf[k], Succeeded(<<"build", p>>)'
      PROVE  Settled(<<CrsOf[k], results[<<"build", p>>].rid>>, p)'
  <2>1. p \in Patches /\ CrsOf[k] \in CRSs /\ <<"build", p>> \in Jobs
    BY DEF Jobs, Kinds
  <2>2. Succeeded(<<"build", p>>) /\ results'[<<"build", p>>] = results[<<"build", p>>]
    BY <1>2, <2>1
  <2>3. PICK r \in Rids : results[<<"build", p>>].rid = r /\ results'[<<"build", p>>].rid = r
    BY <2>1, <2>2 DEF Succeeded, IInv, ResultInv
  <2>4. Settled(<<CrsOf[k], r>>, p)
    BY <2>2, <2>3 DEF GivenInv
  <2>5. Settled(<<CrsOf[k], r>>, p)'
    BY <2>1, <2>4, SettledStays
  <2> QED
    BY <2>3, <2>5 DEF Settled, Busy
<1> QED
  BY <1>1, <1>2 DEF GivenInv

-----------------------------------------------------------------------------
(* The threads.                                                             *)

\* The work item goes from the queue to the thread.
LEMMA TakeApart ==
  ASSUME KeepApart, IInv, ApartInv, NEW w \in Workers, Take(w)
  PROVE  ApartInv'
<1> USE BuilderAssumption
<1>1. queue \in Seq(Items) /\ queue # <<>> /\ item \in [Workers -> Items \union {None}]
      /\ stage \in [Workers -> {"free", "starting", "prepared", "container", "exited"}]
      /\ results \in [Jobs -> Results]
  BY DEF Take, IInv, TypeOK, ServerType, WorkerType
<1>2. /\ Head(queue) = queue[1] /\ queue[1] \in Items /\ 1 \in 1..Len(queue)
      /\ \A n \in 1..Len(queue') : queue'[n] = queue[n + 1] /\ n + 1 \in 1..Len(queue)
  BY <1>1 DEF Take
<1>3. /\ UNCHANGED <<applied, mounted, code, dirs, orphans, waiting, staging, given>>
      /\ item'[w] = queue[1] /\ stage'[w] = "starting"
      /\ \A x \in Workers : x # w => item'[x] = item[x] /\ stage'[x] = stage[x]
  BY <1>1, <1>2 DEF Take, diskVars, clientVars
<1>4. /\ DirOf(w)' = DirIn(queue[1])
      /\ \A x \in Workers : x # w => DirOf(x)' = DirOf(x)
  BY <1>3 DEF DirOf, DirIn
<1>5. QueueOwn'
  <2>1. \A n \in 1..Len(queue') : OwnItem(queue'[n]) /\ ~dirs[DirIn(queue'[n])].here
    BY <1>2 DEF ApartInv, QueueOwn
  <2> QED
    BY <1>3, <2>1 DEF QueueOwn, OwnItem, DirIn
<1>6. PoolOwn'
  <2>1. OwnItem(queue[1]) /\ ~dirs[DirIn(queue[1])].here
    BY <1>2 DEF ApartInv, QueueOwn
  <2>2. \A o \in orphans : o.dir # DirIn(queue[1])
    BY <2>1 DEF IInv, MountInv
  <2>3. \A x \in Workers : item'[x] # None => OwnItem(item'[x]) /\ \A o \in orphans : o.dir # DirOf(x)'
    BY <1>3, <1>4, <2>1, <2>2 DEF ApartInv, PoolOwn
  <2>4. \A x \in Workers : item'[x] # None => OwnItem(item[x])'
    BY <1>3, <2>3 DEF OwnItem
  <2>5. ~dirs'[DirOf(w)'].here
    BY <1>3, <1>4, <2>1
  <2> QED
    BY <1>3, <1>4, <2>3, <2>4, <2>5 DEF ApartInv, PoolOwn, HoldsOwn
<1>7. WaitOwn'
  BY <1>3 DEF ApartInv, WaitOwn, DirIn
<1>8. GivenInv'
  <2>1. ASSUME NEW d \in CRSs \X Rids, Busy(d)' PROVE Busy(d)
    <3>1. CASE \E n \in 1..Len(queue') : DirIn(queue'[n]) = d
      BY <1>2, <3>1 DEF Busy
    <3>2. CASE \E x \in Workers : item'[x] # None /\ DirOf(x)' = d
      BY <1>2, <1>3, <1>4, <3>2 DEF Busy
    <3>3. CASE \E o \in orphans : o.dir = d
      BY <3>3 DEF Busy
    <3>4. Busy(d)' <=> \/ \E n \in 1..Len(queue') : DirIn(queue'[n]) = d
                       \/ \E x \in Workers : item'[x] # None /\ DirOf(x)' = d
                       \/ \E o \in orphans : o.dir = d
      BY <1>3 DEF Busy, DirIn
    <3> QED
      BY <2>1, <3>1, <3>2, <3>3, <3>4
  <2>2. Quiet
    BY <1>3, <2>1 DEF Quiet
  <2>3. \A j \in Jobs : Succeeded(j)' => Succeeded(j) /\ results'[j] = results[j]
    BY <1>1, <1>2 DEF Take, Succeeded, Items
  <2> QED
    BY <1>3, <2>2, <2>3, QuietGiven DEF ApartInv
<1> QED
  BY <1>5, <1>6, <1>7, <1>8 DEF ApartInv

\* A step of a thread on its own directory is quiet.
LEMMA OwnDirQuiet ==
  ASSUME IInv, NEW w \in Workers, item[w] # None,
         UNCHANGED <<queue, item>>, orphans' \subseteq orphans,
         \A d \in CRSs \X Rids : d # DirOf(w) => dirs'[d] = dirs[d]
  PROVE  Quiet
<1> SUFFICES ASSUME NEW d \in CRSs \X Rids, ~Busy(d)
             PROVE  dirs'[d].built = dirs[d].built /\ ~Busy(d)'
  BY DEF Quiet
<1>1. d # DirOf(w)
  BY DEF Busy
<1>2. ~Busy(d)'
  BY DEF Busy, DirIn, DirOf
<1> QED
  BY <1>1, <1>2

\* It disturbs the directory of no queued job, of no other thread and of no staging.
LEMMA OwnDirKeeps ==
  ASSUME KeepApart, IInv, ApartInv, NEW w \in Workers, item[w] # None,
         UNCHANGED <<results, queue, item, waiting, staging, given>>, orphans' \subseteq orphans,
         \A d \in CRSs \X Rids : d # DirOf(w) => dirs'[d] = dirs[d]
  PROVE  /\ QueueOwn' /\ WaitOwn' /\ GivenInv'
         /\ \A x \in Workers : /\ item[x] # None => OwnItem(item[x])' /\ \A o \in orphans' : o.dir # DirOf(x)'
                               /\ DirOf(x)' = DirOf(x)
                               /\ x # w /\ item[x] # None => DirOf(x) # DirOf(w) /\ dirs'[DirOf(x)] = dirs[DirOf(x)]
<1> USE BuilderAssumption
<1>1. QueueOwn'
  <2>1. \A n \in 1..Len(queue) : DirIn(queue[n]) \in CRSs \X Rids /\ DirIn(queue[n]) # DirOf(w)
    BY Alone, QueueItems DEF DirIn, DirOf, Items, IInv
  <2>2. \A n \in 1..Len(queue) : OwnItem(queue[n]) /\ ~dirs'[DirIn(queue[n])].here
    BY <2>1 DEF ApartInv, QueueOwn
  <2> QED
    BY <2>2 DEF QueueOwn, OwnItem, DirIn
<1>2. WaitOwn'
  <2>1. staging # None => DirIn(staging) \in CRSs \X Rids /\ DirIn(staging) # DirOf(w)
    BY Alone DEF DirIn, DirOf, IInv, TypeOK, ClientType
  <2> QED
    BY <2>1 DEF ApartInv, WaitOwn, DirIn
<1>3. GivenInv'
  <2>1. Quiet
    BY OwnDirQuiet
  <2> QED
    BY <2>1, QuietGiven DEF ApartInv, Succeeded
<1>4. ASSUME NEW x \in Workers, x # w, item[x] # None
      PROVE  DirOf(x) # DirOf(w) /\ dirs'[DirOf(x)] = dirs[DirOf(x)]
  BY <1>4, Alone, ItemTypes DEF DirOf
<1>5. \A x \in Workers : DirOf(x)' = DirOf(x)
  BY DEF DirOf
<1>6. \A x \in Workers : item[x] # None => OwnItem(item[x])' /\ \A o \in orphans' : o.dir # DirOf(x)
  BY DEF ApartInv, PoolOwn, OwnItem
<1> QED
  BY <1>1, <1>2, <1>3, <1>4, <1>5, <1>6

\* _run_ephemeral puts the patch into the directory.
LEMMA PrepareApart ==
  ASSUME KeepApart, IInv, ApartInv, NEW w \in Workers, PrepareDir(w)
  PROVE  ApartInv'
<1> USE BuilderAssumption
<1>1. item[w] # None /\ DirOf(w) \in CRSs \X Rids
  BY ItemTypes DEF PrepareDir
<1>2. dirs \in [CRSs \X Rids -> Trees] /\ mounted \in [Workers -> BOOLEAN]
      /\ stage \in [Workers -> {"free", "starting", "prepared", "container", "exited"}]
  BY DEF IInv, TypeOK, WorkerType, DiskType
<1>3. UNCHANGED <<results, queue, item, waiting, staging, given, applied, code>>
  BY DEF PrepareDir, serverVars, clientVars
<1>4. /\ \A d \in CRSs \X Rids : d # DirOf(w) => dirs'[d] = dirs[d]
      /\ dirs'[DirOf(w)].diff = item[w].job[2]
  BY <1>1, <1>2 DEF PrepareDir
<1>5. /\ orphans' \subseteq orphans
      /\ \A x \in Workers : mounted[x] /\ DirOf(x) # DirOf(w) => mounted'[x]
  BY <1>2, DetachType DEF PrepareDir
<1>6. stage'[w] = "prepared" /\ \A x \in Workers : x # w => stage'[x] = stage[x]
  BY <1>2 DEF PrepareDir
<1>7. /\ QueueOwn' /\ WaitOwn' /\ GivenInv'
      /\ \A x \in Workers : /\ item[x] # None => OwnItem(item[x])' /\ \A o \in orphans' : o.dir # DirOf(x)'
                            /\ DirOf(x)' = DirOf(x)
                            /\ x # w /\ item[x] # None => DirOf(x) # DirOf(w) /\ dirs'[DirOf(x)] = dirs[DirOf(x)]
  BY <1>1, <1>3, <1>4, <1>5, OwnDirKeeps
<1>8. PoolOwn'
  <2>1. ASSUME NEW x \in Workers, x # w, item[x] # None PROVE HoldsOwn(x)'
    BY <1>3, <1>5, <1>6, <1>7, <2>1 DEF ApartInv, PoolOwn, HoldsOwn
  <2>2. \A x \in Workers : item'[x] # None => OwnItem(item[x])' /\ \A o \in orphans' : o.dir # DirOf(x)'
    BY <1>3, <1>7
  <2> QED
    BY <1>3, <1>4, <1>6, <1>7, <2>1, <2>2 DEF PoolOwn, HoldsOwn
<1> QED
  BY <1>7, <1>8 DEF ApartInv

\* The container applies the patch its thread has put there.
LEMMA StartApart ==
  ASSUME KeepApart, IInv, ApartInv, NEW w \in Workers, StartContainer(w)
  PROVE  ApartInv'
<1> USE BuilderAssumption
<1>1. item[w] # None /\ DirOf(w) \in CRSs \X Rids
  BY ItemTypes DEF StartContainer
<1>2. dirs \in [CRSs \X Rids -> Trees] /\ mounted \in [Workers -> BOOLEAN]
      /\ applied \in [Workers -> Patches \union {None}]
      /\ stage \in [Workers -> {"free", "starting", "prepared", "container", "exited"}]
  BY DEF IInv, TypeOK, WorkerType, DiskType
<1>3. UNCHANGED <<results, queue, item, waiting, staging, given, orphans, code>>
  BY DEF StartContainer, serverVars, clientVars
<1>4. \A d \in CRSs \X Rids : d # DirOf(w) => dirs'[d] = dirs[d]
  BY <1>1, <1>2 DEF StartContainer
<1>5. /\ mounted'[w] /\ applied'[w] = dirs[DirOf(w)].diff
      /\ \A x \in Workers : x # w => mounted'[x] = mounted[x] /\ applied'[x] = applied[x]
  BY <1>2 DEF StartContainer
<1>6. stage'[w] = "container" /\ \A x \in Workers : x # w => stage'[x] = stage[x]
  BY <1>2 DEF StartContainer
<1>7. /\ QueueOwn' /\ WaitOwn' /\ GivenInv'
      /\ \A x \in Workers : /\ item[x] # None => OwnItem(item[x])' /\ \A o \in orphans' : o.dir # DirOf(x)'
                            /\ DirOf(x)' = DirOf(x)
                            /\ x # w /\ item[x] # None => DirOf(x) # DirOf(w) /\ dirs'[DirOf(x)] = dirs[DirOf(x)]
  BY <1>1, <1>3, <1>4, OwnDirKeeps
<1>8. PoolOwn'
  <2>1. ASSUME NEW x \in Workers, x # w, item[x] # None PROVE HoldsOwn(x)'
    BY <1>3, <1>5, <1>6, <1>7, <2>1 DEF ApartInv, PoolOwn, HoldsOwn
  <2>2. \A x \in Workers : item'[x] # None => OwnItem(item[x])' /\ \A o \in orphans' : o.dir # DirOf(x)'
    BY <1>3, <1>7
  <2>3. applied'[w] = item'[w].job[2]
    BY <1>1, <1>3, <1>5 DEF StartContainer, ApartInv, PoolOwn, HoldsOwn
  <2> QED
    BY <1>3, <1>5, <1>6, <1>7, <2>1, <2>2, <2>3 DEF PoolOwn, HoldsOwn
<1> QED
  BY <1>7, <1>8 DEF ApartInv

\* A build that worked has left its output in the directory.
LEMMA ExitsApart ==
  ASSUME KeepApart, IInv, ApartInv, NEW w \in Workers, NEW c \in {0, 1}, ContainerExits(w, c)
  PROVE  ApartInv'
<1> USE BuilderAssumption
<1>1. item[w] # None /\ DirOf(w) \in CRSs \X Rids
  BY ItemTypes DEF ContainerExits
<1>2. dirs \in [CRSs \X Rids -> Trees] /\ code \in [Workers -> {0, 1, None}]
      /\ stage \in [Workers -> {"free", "starting", "prepared", "container", "exited"}]
  BY DEF IInv, TypeOK, WorkerType, DiskType
<1>3. UNCHANGED <<results, queue, item, waiting, staging, given, orphans, applied, mounted>>
  BY DEF ContainerExits, serverVars, clientVars
<1>4. \A d \in CRSs \X Rids : d # DirOf(w) => dirs'[d] = dirs[d]
  BY <1>1, <1>2 DEF ContainerExits
<1>5. code'[w] = c /\ \A x \in Workers : x # w => code'[x] = code[x]
  BY <1>2 DEF ContainerExits
<1>6. stage'[w] = "exited" /\ \A x \in Workers : x # w => stage'[x] = stage[x]
  BY <1>2 DEF ContainerExits
<1>7. /\ QueueOwn' /\ WaitOwn' /\ GivenInv'
      /\ \A x \in Workers : /\ item[x] # None => OwnItem(item[x])' /\ \A o \in orphans' : o.dir # DirOf(x)'
                            /\ DirOf(x)' = DirOf(x)
                            /\ x # w /\ item[x] # None => DirOf(x) # DirOf(w) /\ dirs'[DirOf(x)] = dirs[DirOf(x)]
  BY <1>1, <1>3, <1>4, OwnDirKeeps
<1>8. PoolOwn'
  <2>1. ASSUME NEW x \in Workers, x # w, item[x] # None PROVE HoldsOwn(x)'
    BY <1>3, <1>5, <1>6, <1>7, <2>1 DEF ApartInv, PoolOwn, HoldsOwn
  <2>2. \A x \in Workers : item'[x] # None => OwnItem(item[x])' /\ \A o \in orphans' : o.dir # DirOf(x)'
    BY <1>3, <1>7
  <2>3. code'[w] = 0 /\ item'[w].job[1] = "build" => dirs'[DirOf(w)].built = item'[w].job[2]
    <3>1. applied[w] = item[w].job[2] /\ mounted[w]
      BY <1>1 DEF ContainerExits, ApartInv, PoolOwn, HoldsOwn
    <3> QED
      BY <1>1, <1>2, <1>3, <1>5, <3>1 DEF ContainerExits, Holding
  <2> QED
    BY <1>3, <1>6, <1>7, <2>1, <2>2, <2>3 DEF PoolOwn, HoldsOwn
<1> QED
  BY <1>7, <1>8 DEF ApartInv

\* A result is published with the id of the directory that holds the build, or with none.
LEMMA ReleaseApart ==
  ASSUME KeepApart, IInv, ApartInv, NEW w \in Workers, Publish(w) \/ RunRaises(w)
  PROVE  ApartInv'
<1> USE BuilderAssumption
<1>1. /\ item[w] # None /\ DirOf(w) \in CRSs \X Rids /\ item[w] \in Items /\ item[w].job \in Jobs
      /\ item[w].rid \in Rids
  BY ItemTypes DEF Publish, RunRaises
<1>2. /\ results \in [Jobs -> Results] /\ item \in [Workers -> Items \union {None}]
      /\ stage \in [Workers -> {"free", "starting", "prepared", "container", "exited"}]
      /\ applied \in [Workers -> Patches \union {None}] /\ mounted \in [Workers -> BOOLEAN]
      /\ code \in [Workers -> {0, 1, None}]
  BY DEF IInv, TypeOK, ServerType, WorkerType
<1>3. Release(w) /\ UNCHANGED <<queue, dirs, orphans, waiting, staging, given>>
  BY DEF Publish, RunRaises, diskVars, clientVars
<1>4. /\ item'[w] = None
      /\ \A x \in Workers : x # w => /\ item'[x] = item[x] /\ stage'[x] = stage[x]
                                     /\ applied'[x] = applied[x] /\ mounted'[x] = mounted[x]
                                     /\ code'[x] = code[x]
  BY <1>2, <1>3 DEF Release
<1>5. \A x \in Workers : x # w => DirOf(x)' = DirOf(x)
  BY <1>4 DEF DirOf
<1>6. QueueOwn' /\ WaitOwn'
  BY <1>3 DEF ApartInv, QueueOwn, WaitOwn, OwnItem, DirIn
<1>7. PoolOwn'
  BY <1>3, <1>4, <1>5 DEF ApartInv, PoolOwn, OwnItem, HoldsOwn
<1>8. \A d \in CRSs \X Rids : Busy(d)' => Busy(d) /\ d # DirOf(w)
  <2> SUFFICES ASSUME NEW d \in CRSs \X Rids, Busy(d)' PROVE Busy(d) /\ d # DirOf(w)
    OBVIOUS
  <2>1. CASE \E n \in 1..Len(queue) : DirIn(queue[n]) = d
    BY <1>1, <2>1, Alone DEF Busy, DirIn, DirOf
  <2>2. CASE \E x \in Workers : x # w /\ item[x] # None /\ DirOf(x) = d
    BY <1>1, <2>2, Alone DEF Busy, DirOf
  <2>3. CASE \E o \in orphans : o.dir = d
    BY <1>1, <2>3 DEF Busy, ApartInv, PoolOwn
  <2> QED
    BY <1>3, <1>4, <1>5, <2>1, <2>2, <2>3 DEF Busy, DirIn
<1>9. Quiet
  BY <1>3, <1>8 DEF Quiet
<1>10. \A j \in Jobs : j # item[w].job => results'[j] = results[j]
  BY <1>1, <1>2 DEF Publish, RunRaises
<1>11. GivenInv'
  <2>1. \A g \in given' : Settled(<<g[1], g[3]>>, g[2])'
    <3> SUFFICES ASSUME NEW g \in given PROVE Settled(<<g[1], g[3]>>, g[2])'
      BY <1>3
    <3>1. <<g[1], g[3]>> \in CRSs \X Rids /\ g[2] \in Patches
      BY DEF IInv, TypeOK, ClientType
    <3> QED
      BY <1>9, <3>1, SettledStays DEF ApartInv, GivenInv
  <2>2. ASSUME NEW k \in Clients, NEW p \in PatchesOf[k], Succeeded(<<"build", p>>)'
        PROVE  Settled(<<CrsOf[k], results[<<"build", p>>].rid>>, p)'
    <3>1. p \in Patches /\ CrsOf[k] \in CRSs /\ <<"build", p>> \in Jobs
      BY DEF Jobs, Kinds
    <3>2. CASE <<"build", p>> # item[w].job
      <4>1. Succeeded(<<"build", p>>) /\ results'[<<"build", p>>] = results[<<"build", p>>]
        BY <1>10, <2>2, <3>1, <3>2 DEF Succeeded
      <4>2. PICK r \in Rids : results[<<"build", p>>].rid = r /\ results'[<<"build", p>>].rid = r
        BY <3>1, <4>1 DEF Succeeded, IInv, ResultInv
      <4>3. Settled(<<CrsOf[k], r>>, p)
        BY <4>1, <4>2 DEF ApartInv, GivenInv
      <4>4. Settled(<<CrsOf[k], r>>, p)'
        BY <1>9, <3>1, <4>3, SettledStays
      <4> QED
        BY <4>2, <4>4 DEF Settled, Busy
    <3>3. CASE <<"build", p>> = item[w].job
      <4>1. Publish(w) /\ code[w] = 0 /\ results'[<<"build", p>>].rid = item[w].rid
        BY <1>1, <1>2, <2>2, <3>1, <3>3 DEF Publish, RunRaises, NoExit, Succeeded
      <4>2. PICK m \in Clients : item[w].crs = CrsOf[m] /\ p \in PatchesOf[m]
        BY <1>1, <3>3 DEF ApartInv, PoolOwn, OwnItem
      <4>3. m = k
        BY <4>2 DEF KeepApart
      <4>4. dirs'[DirOf(w)].built = p
        BY <1>1, <1>3, <3>3, <4>1 DEF Publish, ApartInv, PoolOwn, HoldsOwn
      <4>5. PICK r \in Rids : item[w].rid = r /\ results'[<<"build", p>>].rid = r /\ DirOf(w) = <<CrsOf[k], r>>
        BY <1>1, <4>1, <4>2, <4>3 DEF DirOf
      <4>6. ~Busy(<<CrsOf[k], r>>)'
        BY <1>1, <1>8, <4>5
      <4> QED
        BY <4>4, <4>5, <4>6 DEF Settled, Busy
    <3> QED
      BY <3>2, <3>3
  <2> QED
    BY <2>1, <2>2 DEF GivenInv
<1> QED
  BY <1>6, <1>7, <1>11 DEF ApartInv

\* A restart forgets the jobs; what their containers go on writing to was theirs.
LEMMA CrashApart ==
  ASSUME KeepApart, IInv, ApartInv, Crash
  PROVE  ApartInv'
<1> USE BuilderAssumption
<1>1. /\ queue' = <<>> /\ dirs' = dirs /\ given' = given /\ staging' = None
      /\ \A w \in Workers : item'[w] = None
  BY DEF Crash
<1>2. QueueOwn' /\ PoolOwn'
  BY <1>1 DEF QueueOwn, PoolOwn
<1>3. WaitOwn'
  <2>1. \A k \in Clients : waiting'[k] \in {waiting[k], None}
    BY DEF Crash, IInv, TypeOK, ClientType
  <2> QED
    BY <1>1, <2>1 DEF ApartInv, WaitOwn
<1>4. GivenInv'
  <2>1. \A o \in orphans' : o \in orphans \/ \E w \in Workers : item[w] # None /\ o.dir = DirOf(w)
    BY ItemTypes DEF Crash
  <2>2. ASSUME NEW d \in CRSs \X Rids, Busy(d)' PROVE Busy(d)
    <3>1. \E o \in orphans' : o.dir = d
      BY <1>1, <2>2 DEF Busy
    <3> QED
      BY <2>1, <3>1 DEF Busy
  <2>3. Quiet
    BY <1>1, <2>2 DEF Quiet
  <2>4. \A j \in Jobs : ~Succeeded(j)'
    BY DEF Crash, Succeeded, NoResult, NoExit
  <2> QED
    BY <1>1, <2>3, <2>4, QuietGiven DEF ApartInv
<1> QED
  BY <1>2, <1>3, <1>4 DEF ApartInv

\* An orphan writes to a directory that nobody was given and no later job uses.
LEMMA OrphanApart ==
  ASSUME KeepApart, IInv, ApartInv, NEW o \in orphans, OrphanExits(o)
  PROVE  ApartInv'
<1> USE BuilderAssumption
<1>1. UNCHANGED <<results, queue, item, stage, applied, mounted, code, waiting, staging, given>>
      /\ orphans' \subseteq orphans
  BY DEF OrphanExits, serverVars, workerVars, clientVars
<1>2. o.dir \in CRSs \X Rids /\ dirs[o.dir].here /\ dirs \in [CRSs \X Rids -> Trees]
  BY DEF IInv, TypeOK, DiskType, MountInv
<1>3. \A d \in CRSs \X Rids : d # o.dir \/ ~dirs[d].here => dirs'[d] = dirs[d]
  BY <1>2 DEF OrphanExits
<1>4. QueueOwn'
  <2>1. \A n \in 1..Len(queue) : DirIn(queue[n]) \in CRSs \X Rids
    BY QueueItems DEF DirIn, Items, IInv
  <2>2. \A n \in 1..Len(queue) : OwnItem(queue[n]) /\ ~dirs'[DirIn(queue[n])].here
    BY <1>3, <2>1 DEF ApartInv, QueueOwn
  <2> QED
    BY <1>1, <2>2 DEF QueueOwn, OwnItem, DirIn
<1>5. PoolOwn'
  <2>1. \A w \in Workers : item[w] # None => dirs'[DirOf(w)] = dirs[DirOf(w)]
    BY <1>3, ItemTypes DEF ApartInv, PoolOwn
  <2>2. \A w \in Workers : DirOf(w)' = DirOf(w)
    BY <1>1 DEF DirOf
  <2> QED
    BY <1>1, <2>1, <2>2 DEF ApartInv, PoolOwn, OwnItem, HoldsOwn
<1>6. WaitOwn'
  <2>1. staging # None => DirIn(staging) \in CRSs \X Rids
    BY DEF DirIn, IInv, TypeOK, ClientType
  <2> QED
    BY <1>1, <1>3, <2>1 DEF ApartInv, WaitOwn, DirIn
<1>7. GivenInv'
  <2>1. \A d \in CRSs \X Rids : ~Busy(d) => d # o.dir /\ ~Busy(d)'
    BY <1>1 DEF Busy, DirIn, DirOf
  <2>2. Quiet
    BY <1>3, <2>1 DEF Quiet
  <2> QED
    BY <1>1, <2>2, QuietGiven DEF ApartInv, Succeeded
<1> QED
  BY <1>4, <1>5, <1>6, <1>7 DEF ApartInv

-----------------------------------------------------------------------------
(* The clients, and the staging for them.                                   *)

\* What a client is answered is settled.
LEMMA AnswerApart ==
  ASSUME KeepApart, IInv, ApartInv, NEW k \in Clients, NEW j \in Jobs, j[2] \in PatchesOf[k],
         Succeeded(j), UNCHANGED <<results, queue, item, dirs, orphans>>,
         Answer(k, j, 0, results[j].rid)
  PROVE  GivenInv'
<1> USE BuilderAssumption
<1>1. Quiet
  BY DEF Quiet, Busy, DirIn, DirOf
<1>2. \A g \in given' : g \in given \/ Settled(<<g[1], g[3]>>, g[2])'
  <2> SUFFICES ASSUME NEW g \in given', g \notin given PROVE Settled(<<g[1], g[3]>>, g[2])'
    OBVIOUS
  <2>1. j[1] = "build" /\ g = <<CrsOf[k], j[2], results[j].rid>>
    BY DEF Answer
  <2>2. j = <<"build", j[2]>>
    BY <2>1 DEF Jobs
  <2>3. Settled(<<CrsOf[k], results[j].rid>>, j[2])
    BY <2>2 DEF ApartInv, GivenInv
  <2>4. Settled(<<g[1], g[3]>>, g[2])
    BY <2>1, <2>3
  <2>5. g \in CRSs \X Patches \X Rids
    BY <2>1 DEF Jobs, Succeeded, IInv, ResultInv
  <2> QED
    BY <1>1, <2>4, <2>5, SettledStays
<1> QED
  BY <1>1, <1>2, QuietGiven DEF ApartInv, Succeeded

\* A job in flight has the client whose patch it is waiting.
LEMMA InFlightWaited ==
  ASSUME KeepApart, IInv, ApartInv, NEW k \in Clients, NEW j \in Jobs, InFlight(j),
         j[2] \in PatchesOf[k]
  PROVE  waiting[k] = j
<1>1. PICK m \in Clients : waiting[m] = j /\ j[2] \in PatchesOf[m]
  <2>1. CASE results[j].status = "queued"
    BY <2>1 DEF IInv, QueueInv, ApartInv, QueueOwn, OwnItem
  <2>2. CASE results[j].status = "running"
    BY <2>2 DEF IInv, PoolInv, ApartInv, PoolOwn, OwnItem
  <2> QED
    BY <2>1, <2>2 DEF InFlight
<1> QED
  BY <1>1 DEF KeepApart

\* An answer found by polling.
LEMMA PollApart ==
  ASSUME KeepApart, IInv, ApartInv, NEW k \in Clients, Poll(k)
  PROVE  ApartInv'
<1> USE BuilderAssumption
<1>1. UNCHANGED <<results, queue, item, stage, applied, mounted, code, dirs, orphans, staging>>
  BY DEF Poll, serverVars, workerVars, diskVars
<1>2. waiting \in [Clients -> Jobs \union {None}] /\ waiting[k] \in Jobs /\ staging = None
      /\ waiting' = [waiting EXCEPT ![k] = None] /\ ~InFlight(waiting[k])
  BY DEF Poll, IInv, TypeOK, ClientType, InFlight
<1>3. \A i \in Items : OwnItem(i) /\ InFlight(i.job) => OwnItem(i)'
  BY <1>1, <1>2 DEF OwnItem
<1>4. QueueOwn'
  <2>1. \A n \in 1..Len(queue) : queue[n] \in Items /\ InFlight(queue[n].job)
    BY QueueItems DEF IInv, QueueInv, InFlight
  <2>2. \A n \in 1..Len(queue) : \A i \in Items : i = queue[n] => OwnItem(i)'
    BY <1>3, <2>1 DEF ApartInv, QueueOwn
  <2> QED
    BY <1>1, <2>1, <2>2 DEF ApartInv, QueueOwn, OwnItem, DirIn
<1>5. PoolOwn'
  <2>1. \A w \in Workers : item[w] # None => item[w] \in Items /\ InFlight(item[w].job)
    BY ItemTypes DEF IInv, PoolInv, InFlight
  <2>2. \A w \in Workers : item[w] # None => \A i \in Items : i = item[w] => OwnItem(i)'
    BY <1>3, <2>1 DEF ApartInv, PoolOwn
  <2>3. \A w \in Workers : item[w] # None => OwnItem(item[w])'
    BY <1>1, <2>1, <2>2 DEF OwnItem
  <2> QED
    BY <1>1, <2>3 DEF ApartInv, PoolOwn, HoldsOwn, DirOf
<1>6. WaitOwn'
  BY <1>1, <1>2 DEF ApartInv, WaitOwn
<1>7. GivenInv'
  <2>1. CASE Succeeded(waiting[k])
    <3>1. PICK j \in Jobs : j = waiting[k]
      BY <1>2
    <3>2. Answer(k, j, 0, results[j].rid) /\ Succeeded(j)
      BY <2>1, <3>1 DEF Poll, Succeeded, ExitCode
    <3> QED
      BY <1>1, <1>2, <3>1, <3>2, AnswerApart DEF ApartInv, WaitOwn
  <2>2. CASE ~Succeeded(waiting[k])
    <3>1. given' = given
      BY <1>2, <2>2 DEF Poll, Answer, ExitCode, Succeeded
    <3>2. Quiet
      BY <1>1 DEF Quiet, Busy, DirIn, DirOf
    <3> QED
      BY <1>1, <3>1, <3>2, QuietGiven DEF ApartInv, Succeeded
  <2> QED
    BY <2>1, <2>2
<1> QED
  BY <1>4, <1>5, <1>6, <1>7 DEF ApartInv

\* A new request of a client: whatever becomes of it, it gets a directory that does not
\* exist, or a build that is settled.
LEMMA PostApart ==
  ASSUME KeepApart, IInv, ApartInv, NEW k \in Clients, Post(k)
  PROVE  ApartInv'
<1> USE BuilderAssumption
<1>1. waiting \in [Clients -> Jobs \union {None}] /\ waiting[k] = None /\ staging = None
      /\ queue \in Seq(Items) /\ results \in [Jobs -> Results]
  BY DEF Post, IInv, TypeOK, ClientType, ServerType
<1>2. UNCHANGED <<item, stage, applied, mounted, code, dirs, orphans>>
  BY DEF Post, workerVars, diskVars
<1>3. PICK kind \in Kinds : \E p \in PatchesOf[k] : \E r \in Requested(k, kind) :
             \/ PostJoins(k, <<kind, p>>)
             \/ PostCached(k, <<kind, p>>, r)
             \/ PostStages(k, <<kind, p>>, r)
             \/ PostQueues(k, <<kind, p>>, r)
  BY DEF Post
<1>4. PICK p \in PatchesOf[k], r \in Requested(k, kind) :
             \/ PostJoins(k, <<kind, p>>)
             \/ PostCached(k, <<kind, p>>, r)
             \/ PostStages(k, <<kind, p>>, r)
             \/ PostQueues(k, <<kind, p>>, r)
  BY <1>3
<1>5. PICK j \in Jobs : j = <<kind, p>> /\ j[1] = kind /\ j[2] = p /\ p \in Patches
  <2>1. p \in Patches /\ <<kind, p>> \in Jobs
    BY DEF Jobs
  <2> QED
    BY <2>1
<1>6. r # None => r \in Rids /\ kind = "build" /\ ~dirs[<<CrsOf[k], r>>].here
  BY DEF Requested, KeepApart
<1>7. CASE PostJoins(k, j)
  BY <1>1, <1>5, <1>7, InFlightWaited DEF PostJoins
<1>8. ASSUME \A m \in Clients : m # k => waiting'[m] = waiting[m],
             staging' = None \/ staging'.client = k
      PROVE  PoolOwn' /\ \A n \in 1..Len(queue) : \A i \in Items : i = queue[n] => OwnItem(i)'
  <2>1. \A i \in Items : OwnItem(i) => OwnItem(i)'
    BY <1>1, <1>8 DEF OwnItem, Items
  <2>2. \A w \in Workers : item[w] # None => OwnItem(item[w]) /\ \A i \in Items : i = item[w] => OwnItem(i)'
    BY <2>1 DEF ApartInv, PoolOwn
  <2>3. \A w \in Workers : item[w] # None => OwnItem(item[w])'
    BY <1>2, <2>2, ItemTypes DEF OwnItem
  <2>4. PoolOwn'
    BY <1>2, <2>3 DEF ApartInv, PoolOwn, HoldsOwn, DirOf
  <2> QED
    BY <2>1, <2>4 DEF ApartInv, QueueOwn
<1>9. CASE PostCached(k, j, r)
  <2>1. UNCHANGED <<results, queue, staging, waiting>>
    BY <1>9 DEF PostCached
  <2>2. QueueOwn' /\ WaitOwn'
    BY <1>2, <2>1 DEF ApartInv, QueueOwn, WaitOwn, OwnItem, DirIn
  <2>3. GivenInv'
    BY <1>2, <1>5, <1>9, <2>1, AnswerApart DEF PostCached
  <2> QED
    BY <1>1, <1>8, <2>1, <2>2, <2>3 DEF ApartInv
<1>10. CASE PostStages(k, j, r)
  <2>1. r # None /\ Succeeded(j) /\ UNCHANGED <<results, queue>>
    BY <1>10 DEF PostStages
  <2>2. PICK x \in Rids : x = results[j].rid
    BY <2>1 DEF Succeeded, IInv, ResultInv
  <2>3. dirs[<<CrsOf[k], x>>].built = p /\ dirs[<<CrsOf[k], x>>].here
    <3>1. Settled(<<CrsOf[k], x>>, p)
      BY <1>5, <1>6, <2>1, <2>2 DEF ApartInv, GivenInv
    <3>2. <<CrsOf[k], x>> \in CRSs \X Rids
      OBVIOUS
    <3> QED
      BY <1>5, <3>1, <3>2 DEF Settled, IInv, TypeOK, DiskType, Absent
  <2>4. /\ staging' = [client |-> k, job |-> j, crs |-> CrsOf[k], rid |-> r,
                       tree |-> dirs[<<CrsOf[k], x>>], removed |-> FALSE]
        /\ waiting' = [waiting EXCEPT ![k] = j] /\ given' \subseteq given
    BY <1>10, <2>2, <2>3 DEF PostStages, Reclaim
  <2>5. QueueOwn'
    <3>1. staging'.client = k /\ \A m \in Clients : m # k => waiting'[m] = waiting[m]
      BY <1>1, <2>4
    <3>2. \A n \in 1..Len(queue) : \A i \in Items : i = queue[n] => OwnItem(i)'
      BY <1>8, <3>1
    <3>3. \A n \in 1..Len(queue) : OwnItem(queue[n])'
      BY <2>1, <3>2, QueueItems DEF OwnItem, IInv
    <3> QED
      BY <1>2, <2>1, <3>3 DEF ApartInv, QueueOwn, DirIn
  <2>6. WaitOwn'
    <3>1. \A m \in Clients : waiting'[m] # None => waiting'[m][2] \in PatchesOf[m]
      BY <1>1, <1>5, <2>4 DEF ApartInv, WaitOwn
    <3>2. DirIn(staging') = <<CrsOf[k], r>> /\ waiting'[k] = j
      BY <1>1, <2>4 DEF DirIn
    <3> QED
      BY <1>2, <1>5, <1>6, <2>1, <2>3, <2>4, <3>1, <3>2 DEF WaitOwn, DirIn
  <2>7. GivenInv'
    <3>1. Quiet
      BY <1>2, <2>1 DEF Quiet, Busy, DirIn, DirOf
    <3> QED
      BY <2>1, <2>4, <3>1, QuietGiven DEF ApartInv, Succeeded
  <2> QED
    BY <1>1, <1>8, <2>4, <2>5, <2>6, <2>7 DEF ApartInv
<1>11. CASE PostQueues(k, j, r)
  <2>1. PICK x \in Rids : x = (IF r = None THEN NextRebuildId(CrsOf[k]) ELSE r)
    BY <1>11 DEF PostQueues
  <2>2. ~dirs[<<CrsOf[k], x>>].here
    BY <1>6, <2>1, NextIdIsFresh
  <2>3. PICK i \in Items : i.job = j /\ i.crs = CrsOf[k] /\ i.rid = x /\ queue' = Append(queue, i)
    BY <1>11, <2>1 DEF PostQueues, Items
  <2>4. /\ results' = [results EXCEPT ![j] = NoExit("queued")]
        /\ waiting' = [waiting EXCEPT ![k] = j] /\ given' \subseteq given /\ staging' = staging
    BY <1>11 DEF PostQueues, Reclaim
  <2>5. /\ Len(queue') = Len(queue) + 1 /\ Len(queue) \in Nat /\ queue'[Len(queue) + 1] = i
        /\ \A n \in 1..Len(queue) : queue'[n] = queue[n]
    BY <1>1, <2>3
  <2>6. QueueOwn'
    <3>1. \A n \in 1..Len(queue) : OwnItem(queue[n])'
      BY <1>1, <1>8, <2>4, <2>5, QueueItems DEF OwnItem, IInv
    <3>2. OwnItem(i)'
      BY <1>1, <1>5, <2>3, <2>4 DEF OwnItem
    <3>3. \A n \in 1..Len(queue') : n \in 1..Len(queue) \/ n = Len(queue) + 1
      BY <2>5
    <3>4. ~dirs[DirIn(i)].here
      BY <2>2, <2>3 DEF DirIn
    <3> QED
      BY <1>2, <2>5, <3>1, <3>2, <3>3, <3>4 DEF ApartInv, QueueOwn, OwnItem, DirIn
  <2>7. WaitOwn'
    BY <1>1, <1>5, <2>4 DEF ApartInv, WaitOwn
  <2>8. GivenInv'
    <3>1. \A d \in CRSs \X Rids : dirs[d].here /\ ~Busy(d) => ~Busy(d)'
      <4>1. DirIn(i) = <<CrsOf[k], x>>
        BY <2>3 DEF DirIn
      <4>2. \A n \in 1..Len(queue') : n \in 1..Len(queue) \/ n = Len(queue) + 1
        BY <2>5
      <4> QED
        BY <1>2, <2>2, <2>5, <4>1, <4>2 DEF Busy, DirIn, DirOf
    <3>2. Quiet
      BY <1>2, <3>1 DEF Quiet
    <3>3. \A y \in Jobs : Succeeded(y)' => Succeeded(y) /\ results'[y] = results[y]
      BY <1>1, <2>4 DEF Succeeded, NoExit
    <3> QED
      BY <2>4, <3>2, <3>3, QuietGiven DEF ApartInv
  <2> QED
    BY <1>1, <1>8, <2>4, <2>6, <2>7, <2>8 DEF ApartInv
<1> QED
  BY <1>4, <1>5, <1>7, <1>9, <1>10, <1>11

\* Staging works in a directory that did not exist and that nobody is busy in, and ends
\* with the copy of a settled build there.
LEMMA StageApart ==
  ASSUME KeepApart, IInv, ApartInv, Stage
  PROVE  ApartInv'
<1> USE BuilderAssumption
<1> DEFINE c == staging.client
           d == <<staging.crs, staging.rid>>
<1>1. staging # None
  BY DEF Stage, StageRemove, StageCommit
<1>2. /\ d \in CRSs \X Rids /\ c \in Clients /\ staging.job \in Jobs /\ staging.tree \in Trees
      /\ staging.crs \in CRSs /\ staging.rid \in Rids
  BY <1>1 DEF IInv, TypeOK, ClientType
<1>3. /\ staging.crs = CrsOf[c] /\ waiting[c] = staging.job /\ staging.job[2] \in PatchesOf[c]
      /\ staging.job[1] = "build" /\ staging.tree.built = staging.job[2] /\ ~dirs[d].here
  BY <1>1, <1>2, Zenon DEF ApartInv, WaitOwn, DirIn, IInv, TypeOK, ClientType
<1>4. UNCHANGED <<results, queue, item, stage, applied, code>>
  BY DEF Stage, StageRemove, StageCommit, serverVars
<1>5. dirs \in [CRSs \X Rids -> Trees] /\ mounted \in [Workers -> BOOLEAN]
  BY DEF IInv, TypeOK, WorkerType, DiskType
<1>6. ~Busy(d)
  <2>1. \A n \in 1..Len(queue) : DirIn(queue[n]) # d
    BY <1>1, Alone DEF DirIn
  <2>2. \A w \in Workers : item[w] # None => DirOf(w) # d
    BY <1>1, Alone DEF DirOf
  <2>3. \A o \in orphans : o.dir # d
    BY <1>3 DEF IInv, MountInv
  <2> QED
    BY <2>1, <2>2, <2>3 DEF Busy
<1>7. /\ \A w \in Workers : item[w] # None => DirOf(w) # d /\ DirOf(w) \in CRSs \X Rids
      /\ \A n \in 1..Len(queue) : DirIn(queue[n]) # d /\ DirIn(queue[n]) \in CRSs \X Rids
  BY <1>6, ItemTypes, QueueItems DEF Busy, DirIn, Items, IInv
\* What both steps keep.
<1>8. ASSUME Detach(d), \A e \in CRSs \X Rids : e # d => dirs'[e] = dirs[e],
             \A i \in Items : OwnItem(i) => OwnItem(i)'
      PROVE  QueueOwn' /\ PoolOwn' /\ Quiet
  <2>1. orphans' \subseteq orphans /\ \A w \in Workers : item[w] # None => mounted'[w] = mounted[w]
    BY <1>5, <1>7, <1>8, DetachType
  <2>2. QueueOwn'
    <3>1. \A n \in 1..Len(queue) : \A i \in Items : i = queue[n] => OwnItem(i)'
      BY <1>8 DEF ApartInv, QueueOwn
    <3>2. \A n \in 1..Len(queue) : OwnItem(queue[n])'
      BY <1>4, <3>1, QueueItems DEF OwnItem, IInv
    <3> QED
      BY <1>4, <1>7, <1>8, <3>2 DEF ApartInv, QueueOwn, DirIn
  <2>3. PoolOwn'
    <3>1. \A w \in Workers : item[w] # None => \A i \in Items : i = item[w] => OwnItem(i)'
      BY <1>8 DEF ApartInv, PoolOwn
    <3>2. \A w \in Workers : item[w] # None => OwnItem(item[w])'
      BY <1>4, <3>1, ItemTypes DEF OwnItem
    <3>3. \A w \in Workers : DirOf(w)' = DirOf(w)
      BY <1>4 DEF DirOf
    <3>4. \A w \in Workers : item[w] # None => HoldsOwn(w)'
      BY <1>4, <1>7, <1>8, <2>1, <3>3 DEF ApartInv, PoolOwn, HoldsOwn
    <3> QED
      BY <1>4, <2>1, <3>2, <3>3, <3>4 DEF ApartInv, PoolOwn
  <2>4. Quiet
    BY <1>3, <1>4, <1>8, <2>1 DEF Quiet, Busy, DirIn, DirOf
  <2> QED
    BY <2>2, <2>3, <2>4
<1>9. CASE StageRemove
  <2>1. /\ staging'.client = c /\ staging'.crs = staging.crs /\ staging'.rid = staging.rid
        /\ staging'.job = staging.job /\ staging'.tree = staging.tree
    BY <1>9, Zenon DEF StageRemove, IInv, TypeOK, ClientType
  <2>2. UNCHANGED <<waiting, given>>
    BY <1>9 DEF StageRemove, clientVars
  <2>3. Detach(d) /\ dirs' = [dirs EXCEPT ![d] = Absent]
    BY <1>9 DEF StageRemove
  <2>4. ~dirs'[d].here /\ \A e \in CRSs \X Rids : e # d => dirs'[e] = dirs[e]
    BY <1>2, <1>5, <2>3 DEF Absent
  <2>5. \A i \in Items : OwnItem(i) => OwnItem(i)'
    BY <1>1, <2>1, <2>2 DEF OwnItem
  <2>6. QueueOwn' /\ PoolOwn' /\ Quiet
    BY <1>8, <2>3, <2>4, <2>5
  <2>7. WaitOwn'
    BY <1>2, <1>3, <2>1, <2>2, <2>4 DEF ApartInv, WaitOwn, DirIn
  <2>8. GivenInv'
    BY <1>4, <2>2, <2>6, QuietGiven DEF ApartInv, Succeeded
  <2> QED
    BY <2>6, <2>7, <2>8 DEF ApartInv
<1>10. CASE StageCommit
  <2>1. dirs[d].diff = None /\ dirs[d].built = None
    BY <1>2, <1>3 DEF IInv, TypeOK, DiskType, Absent
  <2>2. /\ dirs' = [dirs EXCEPT ![d] = staging.tree] /\ Detach(d)
        /\ Answer(c, staging.job, 0, staging.rid) /\ staging' = None
        /\ waiting' = [waiting EXCEPT ![c] = None]
    BY <1>3, <1>10, <2>1, Zenon DEF StageCommit
  <2>3. dirs'[d].built = staging.job[2] /\ \A e \in CRSs \X Rids : e # d => dirs'[e] = dirs[e]
    BY <1>2, <1>3, <1>5, <2>2
  <2>4. waiting \in [Clients -> Jobs \union {None}]
    BY DEF IInv, TypeOK, ClientType
  <2>5. \A i \in Items : OwnItem(i) => OwnItem(i)'
    BY <1>1, <2>2, <2>4 DEF OwnItem
  <2>6. QueueOwn' /\ PoolOwn' /\ Quiet
    BY <1>8, <2>2, <2>3, <2>5
  <2>7. WaitOwn'
    BY <2>2, <2>4 DEF ApartInv, WaitOwn
  <2>8. GivenInv'
    <3>1. PICK e \in CRSs \X Rids : e = d
      BY <1>2
    <3>2. ~Busy(e)'
      <4>1. orphans' \subseteq orphans
        BY <2>2 DEF Detach
      <4> QED
        BY <1>4, <1>6, <3>1, <4>1 DEF Busy, DirIn, DirOf
    <3>3. PICK p \in Patches : p = staging.job[2]
      BY <1>2, <1>3
    <3>4. Settled(e, p)'
      BY <2>3, <3>1, <3>2, <3>3 DEF Settled
    <3>5. \A g \in given' : g \in given \/ g = <<e[1], p, e[2]>>
      BY <1>3, <2>2, <3>1, <3>3 DEF Answer
    <3>6. \A g \in given' : g \in given \/ Settled(<<g[1], g[3]>>, g[2])'
      BY <3>4, <3>5 DEF Settled, Busy
    <3> QED
      BY <1>4, <2>6, <3>6, QuietGiven DEF ApartInv, Succeeded
  <2> QED
    BY <2>6, <2>7, <2>8 DEF ApartInv
<1> QED
  BY <1>9, <1>10 DEF Stage

-----------------------------------------------------------------------------
\* The initial state, and every step of the builder sidecar and its clients.
LEMMA InitApart == Init => ApartInv
<1> SUFFICES ASSUME Init PROVE ApartInv
  OBVIOUS
<1>1. \A k \in Clients : \A p \in PatchesOf[k] : ~Succeeded(<<"build", p>>)
  BY BuilderAssumption DEF Init, Succeeded, NoResult, NoExit, Jobs, Kinds
<1> QED
  BY <1>1 DEF Init, ApartInv, QueueOwn, PoolOwn, WaitOwn, GivenInv

\* The invariant is inductive while callers keep to themselves.
LEMMA NextApart ==
  ASSUME KeepApart, IInv, ApartInv, [Next]_vars
  PROVE  ApartInv'
<1>1. ASSUME NEW k \in Clients, Client(k) PROVE ApartInv'
  <2>1. ~GiveUp(k)
    BY DEF GiveUp, KeepApart, IInv, TypeOK, ClientType
  <2> QED
    BY <1>1, <2>1, PostApart, PollApart DEF Client
<1>2. ASSUME NEW w \in Workers, Work(w) \/ RunRaises(w) PROVE ApartInv'
  BY <1>2, TakeApart, PrepareApart, StartApart, ExitsApart, ReleaseApart DEF Work
<1>3. CASE UNCHANGED vars
  <2> USE <1>3 DEF vars
  <2>1. QueueOwn' /\ PoolOwn'
    BY DEF ApartInv, QueueOwn, PoolOwn, OwnItem, HoldsOwn, DirIn, DirOf
  <2>2. WaitOwn'
    BY DEF ApartInv, WaitOwn, DirIn
  <2>3. Quiet
    BY DEF Quiet, Busy, DirIn, DirOf
  <2>4. GivenInv'
    BY <2>3, QuietGiven DEF ApartInv, Succeeded
  <2> QED
    BY <2>1, <2>2, <2>4 DEF ApartInv
<1> QED
  BY <1>1, <1>2, <1>3, StageApart, CrashApart, OrphanApart DEF Next

\* When the callers keep to themselves, every rebuild id a client was given names a directory
\* of its own CRS with the build of its patch: the sidecar reuses no id for another build,
\* through caching, staging, failing jobs, restarts and the orphans they leave.
THEOREM SpecRebuildIdNamesBuild == KeepApart => (Spec => []RebuildIdNamesBuild)
<1>1. IInv /\ ApartInv => RebuildIdNamesBuild
  BY DEF ApartInv, GivenInv, Settled, RebuildIdNamesBuild
<1>2. CASE KeepApart
  <2>1. IInv /\ ApartInv /\ [Next]_vars => (IInv /\ ApartInv)'
    BY <1>2, NextIInv, NextApart
  <2> QED
    BY <1>1, <2>1, InitIInv, InitApart, PTL DEF Spec
<1>3. CASE ~KeepApart
  BY <1>3
<1> QED
  BY <1>2, <1>3

-----------------------------------------------------------------------------
(* The reads with a rebuild id.                                             *)

\* What a client holds it keeps: an id that is asked for again has no directory.
LEMMA GivenStays ==
  ASSUME KeepApart, IInv, ApartInv, [Next]_vars
  PROVE  given \subseteq given'
<1> USE BuilderAssumption
<1>1. ASSUME NEW k \in Clients, Post(k) PROVE given \subseteq given'
  <2>1. PICK kind \in Kinds : \E p \in PatchesOf[k] : \E r \in Requested(k, kind) :
          \/ given \subseteq given'
          \/ Reclaim(k, r)
    BY <1>1 DEF Post, PostJoins, PostCached, PostStages, PostQueues, Answer
  <2>2. ASSUME NEW r \in Requested(k, kind), Reclaim(k, r) PROVE given \subseteq given'
    <3> SUFFICES ASSUME NEW g \in given PROVE <<g[1], g[3]>> # <<CrsOf[k], r>>
      BY <2>2 DEF Reclaim
    <3>1. g[1] \in CRSs /\ g[2] \in Patches /\ g[3] \in Rids
      BY DEF IInv, TypeOK, ClientType
    <3>2. dirs[<<g[1], g[3]>>].built = g[2]
      BY DEF ApartInv, GivenInv, Settled
    <3>3. dirs[<<g[1], g[3]>>].here
      BY <3>1, <3>2 DEF IInv, TypeOK, DiskType, Absent
    <3> QED
      BY <3>1, <3>3 DEF Requested, KeepApart
  <2> QED
    BY <2>1, <2>2
<1>2. ASSUME NEW k \in Clients, Poll(k) \/ GiveUp(k) PROVE given \subseteq given'
  BY <1>2 DEF Poll, GiveUp, Answer
<1>3. ASSUME NEW w \in Workers, Work(w) \/ RunRaises(w) PROVE given' = given
  BY <1>3 DEF Work, RunRaises, Take, PrepareDir, StartContainer, ContainerExits, Publish, clientVars
<1>4. CASE Stage
  BY <1>4 DEF Stage, StageRemove, StageCommit, Answer, clientVars
<1>5. CASE Crash
  BY <1>5 DEF Crash
<1>6. ASSUME NEW o \in orphans, OrphanExits(o) PROVE given' = given
  BY <1>6 DEF OrphanExits, clientVars
<1>7. CASE UNCHANGED vars
  BY <1>7 DEF vars
<1> QED
  BY <1>1, <1>2, <1>3, <1>4, <1>5, <1>6, <1>7 DEF Next, Client

\* So a step of the builder leaves the reads as they are.
LEMMA BuilderReads ==
  ASSUME KeepApart, IInv, ApartInv, ReadInv, [Next]_vars, UNCHANGED readVars
  PROVE  ReadInv'
<1>1. given \subseteq given'
  BY GivenStays
<1>2. VerdictsAreTrue' /\ DownloadsAreWhole'
  BY DEF ReadInv, VerdictsAreTrue, DownloadsAreWhole, ReadTypeOK, readVars
<1>3. RequestInv' /\ DownloadInv'
  BY <1>1 DEF ReadInv, RequestInv, DownloadInv, readVars
<1> QED
  BY <1>2, <1>3 DEF ReadInv

\* The build of an id a client holds.
LEMMA HeldBuild ==
  ASSUME IInv, ApartInv, NEW g \in given
  PROVE  /\ g[1] \in CRSs /\ g[2] \in Patches /\ g[3] \in Rids /\ g = <<g[1], g[2], g[3]>>
         /\ dirs[<<g[1], g[3]>>].built = g[2]
<1>1. g \in CRSs \X Patches \X Rids
  BY DEF IInv, TypeOK, ClientType
<1>2. Settled(<<g[1], g[3]>>, g[2])
  BY DEF ApartInv, GivenInv
<1> QED
  BY <1>1, <1>2 DEF Settled

\* The build of the request at the head is there, and of its patch.
LEMMA HeadBuild ==
  ASSUME IInv, ApartInv, ReadInv, requests # <<>>
  PROVE  /\ Head(requests) \in Povs /\ Tail(requests) \in Seq(Povs)
         /\ BuildOf(Head(requests)) = Head(requests).patch
         /\ IsThere(Head(requests))
<1> USE BuilderAssumption
<1>1. requests \in Seq(Povs) /\ 1 \in 1..Len(requests) /\ Head(requests) = requests[1]
  BY DEF ReadInv, VerdictsAreTrue, ReadTypeOK
<1>2. Head(requests) \in Povs /\ Tail(requests) \in Seq(Povs)
  BY <1>1
<1>3. CASE Head(requests).rid = None
  BY <1>1, <1>2, <1>3 DEF BuildOf, IsThere, ReadInv, RequestInv
<1>4. CASE Head(requests).rid # None
  <2>1. <<Head(requests).crs, Head(requests).patch, Head(requests).rid>> \in given
    BY <1>1, <1>4 DEF ReadInv, RequestInv
  <2> QED
    BY <1>2, <1>4, <2>1, HeldBuild DEF BuildOf, IsThere
<1> QED
  BY <1>2, <1>3, <1>4

\* A verdict that is right, or a failure that was counted.
LEMMA AnswerReads ==
  ASSUME VerdictsAreTrue, NEW pov \in Povs, NEW c \in Retcodes, Answers(pov, c),
         c = 0 => pov.patch \in Fixes,
         c = 1 /\ readFaults' = 0 => pov.patch \notin Fixes,
         readFaults' \in Nat, readFaults' >= readFaults
  PROVE  /\ verdicts' \subseteq (Patches \union {None}) \X Retcodes
         /\ \A v \in verdicts' : /\ v[2] = 0 => v[1] \in Fixes
                                 /\ v[2] = 1 /\ readFaults' = 0 => v[1] \notin Fixes
<1>1. readFaults \in Nat /\ verdicts \subseteq (Patches \union {None}) \X Retcodes
  BY ValidationAssumption DEF VerdictsAreTrue, ReadTypeOK
<1>2. readFaults' = 0 => readFaults = 0
  BY <1>1
<1>3. pov.patch \in Patches \union {None}
  BY DEF Povs
<1>4. \A v \in verdicts' : v \in verdicts \/ v = <<pov.patch, c>>
  BY DEF Answers
<1> QED
  BY <1>1, <1>2, <1>3, <1>4 DEF VerdictsAreTrue

\* A call of run-pov.
LEMMA RunPovReads ==
  ASSUME IInv, ApartInv, ReadInv, NEW k \in Clients, RunPov(k), UNCHANGED vars
  PROVE  ReadInv'
<1> USE BuilderAssumption, ValidationAssumption
<1>1. ReadTypeOK /\ requests \in Seq(Povs) /\ readFaults \in Nat
  BY DEF ReadInv, VerdictsAreTrue, ReadTypeOK
<1>2. UNCHANGED <<serving, loaded, download, downloaded, given>> /\ reads' \in 0..MaxReads
  BY <1>1 DEF RunPov, ReadTypeOK, vars
<1>3. PICK pov : /\ \/ \E g \in Held(k) : pov = [client |-> k, crs |-> g[1], rid |-> g[3], patch |-> g[2]]
                    \/ pov = [client |-> k, crs |-> CrsOf[k], rid |-> None, patch |-> None]
                 /\ \/ requests' = Append(requests, pov) /\ UNCHANGED <<verdicts, readFaults>>
                    \/ ReadFault /\ Answers(pov, FailedRetcode) /\ UNCHANGED requests
  BY DEF RunPov
<1>4. pov \in Povs /\ IF pov.rid = None THEN pov.patch = None
                      ELSE <<pov.crs, pov.patch, pov.rid>> \in given
  <2>1. CASE pov = [client |-> k, crs |-> CrsOf[k], rid |-> None, patch |-> None]
    BY <2>1 DEF Povs
  <2>2. ASSUME NEW g \in Held(k), pov = [client |-> k, crs |-> g[1], rid |-> g[3], patch |-> g[2]]
        PROVE  pov \in Povs /\ pov.rid # None /\ <<pov.crs, pov.patch, pov.rid>> \in given
    BY <2>2, HeldBuild DEF Held, Povs
  <2> QED
    BY <1>3, <2>1, <2>2
<1>5. DownloadsAreWhole' /\ DownloadInv'
  BY <1>2 DEF ReadInv, DownloadsAreWhole, DownloadInv
<1>6. CASE requests' = Append(requests, pov) /\ UNCHANGED <<verdicts, readFaults>>
  <2>1. requests' \in Seq(Povs) /\ requests' # <<>>
    BY <1>1, <1>4, <1>6
  <2>2. VerdictsAreTrue'
    <3>1. ReadTypeOK'
      BY <1>1, <1>2, <1>6, <2>1 DEF ReadTypeOK
    <3> QED
      BY <1>6, <3>1 DEF ReadInv, VerdictsAreTrue
  <2>3. \A i \in 1..Len(requests') :
          requests'[i] = pov \/ (i \in 1..Len(requests) /\ requests'[i] = requests[i])
    <3>1. /\ Len(requests) \in Nat /\ Len(requests') = Len(requests) + 1
          /\ requests'[Len(requests) + 1] = pov
          /\ \A i \in 1..Len(requests) : requests'[i] = requests[i]
      BY <1>1, <1>4, <1>6
    <3>2. \A i \in 1..Len(requests') : i \in 1..Len(requests) \/ i = Len(requests) + 1
      BY <3>1
    <3> QED
      BY <3>1, <3>2
  <2>4. requests # <<>> => Head(requests') = Head(requests)
    BY <1>1, <1>6
  <2>5. RequestInv'
    BY <1>2, <1>4, <2>1, <2>3, <2>4 DEF ReadInv, RequestInv
  <2> QED
    BY <1>5, <2>2, <2>5 DEF ReadInv
<1>7. CASE ReadFault /\ Answers(pov, FailedRetcode) /\ UNCHANGED requests
  <2>1. readFaults' \in 0..MaxReadFaults /\ readFaults' = readFaults + 1
    BY <1>1, <1>7 DEF ReadFault, ReadTypeOK
  <2>2. /\ verdicts' \subseteq (Patches \union {None}) \X Retcodes
        /\ \A v \in verdicts' : /\ v[2] = 0 => v[1] \in Fixes
                                /\ v[2] = 1 /\ readFaults' = 0 => v[1] \notin Fixes
    BY <1>1, <1>4, <1>7, <2>1, AnswerReads DEF FailedRetcode, Retcodes, ReadInv
  <2>3. VerdictsAreTrue'
    BY <1>1, <1>2, <1>7, <2>1, <2>2 DEF VerdictsAreTrue, ReadTypeOK
  <2>4. RequestInv'
    BY <1>2, <1>7 DEF ReadInv, RequestInv
  <2> QED
    BY <1>5, <2>3, <2>4 DEF ReadInv
<1> QED
  BY <1>3, <1>6, <1>7

\* A client that stops waiting for run-pov.
LEMMA GiveUpPovReads ==
  ASSUME IInv, ApartInv, ReadInv, NEW k \in Clients, GiveUpPov(k), UNCHANGED vars
  PROVE  ReadInv'
<1> USE BuilderAssumption, ValidationAssumption
<1>1. ReadTypeOK /\ requests \in Seq(Povs) /\ readFaults \in Nat
  BY DEF ReadInv, VerdictsAreTrue, ReadTypeOK
<1>2. UNCHANGED <<serving, loaded, download, reads, downloaded, given>>
      /\ readFaults' \in 0..MaxReadFaults /\ readFaults' = readFaults + 1
  BY <1>1 DEF GiveUpPov, ReadFault, ReadTypeOK, vars
<1>3. PICK i \in 1..Len(requests) : /\ Answers(requests[i], FailedRetcode)
                                    /\ requests' = [requests EXCEPT ![i] = Abandoned(requests[i])]
  <2>1. DOMAIN requests = 1..Len(requests)
    BY <1>1
  <2> QED
    BY <2>1 DEF GiveUpPov
<1>4. requests[i] \in Povs /\ Abandoned(requests[i]) \in Povs
  <2>1. requests[i] \in Povs
    BY <1>1
  <2> QED
    BY <2>1 DEF Abandoned, Povs
<1>5. requests' \in Seq(Povs) /\ Len(requests') = Len(requests)
  BY <1>1, <1>3, <1>4
<1>6. \A n \in 1..Len(requests) : /\ requests'[n].rid = requests[n].rid /\ requests'[n].crs = requests[n].crs
                                  /\ requests'[n].patch = requests[n].patch
  BY <1>1, <1>3 DEF Abandoned
<1>7. PICK pov \in Povs : Answers(pov, FailedRetcode)
  BY <1>3, <1>4
<1>8. /\ verdicts' \subseteq (Patches \union {None}) \X Retcodes
      /\ \A v \in verdicts' : /\ v[2] = 0 => v[1] \in Fixes
                              /\ v[2] = 1 /\ readFaults' = 0 => v[1] \notin Fixes
  BY <1>1, <1>2, <1>7, AnswerReads DEF FailedRetcode, Retcodes, ReadInv
<1>9. VerdictsAreTrue'
  BY <1>1, <1>2, <1>5, <1>8 DEF VerdictsAreTrue, ReadTypeOK
<1>10. RequestInv'
  <2>1. requests # <<>> => requests' # <<>> /\ Head(requests').patch = Head(requests).patch
    BY <1>1, <1>5, <1>6
  <2> QED
    BY <1>2, <1>5, <1>6, <2>1 DEF ReadInv, RequestInv
<1>11. DownloadsAreWhole' /\ DownloadInv'
  BY <1>2 DEF ReadInv, DownloadsAreWhole, DownloadInv
<1> QED
  BY <1>9, <1>10, <1>11 DEF ReadInv

\* The runner finds the build its client means, and runs it: the directory does not change
\* between the two looks, nor before.
LEMMA RunnerReads ==
  ASSUME IInv, ApartInv, ReadInv, FindHarness \/ Reproduce \/ PovEnds, UNCHANGED vars
  PROVE  ReadInv'
<1> USE BuilderAssumption, ValidationAssumption
<1>1. ReadTypeOK /\ requests \in Seq(Povs) /\ readFaults \in Nat
  BY DEF ReadInv, VerdictsAreTrue, ReadTypeOK
<1>2. UNCHANGED <<download, reads, readFaults, downloaded, given>> /\ requests # <<>>
  BY DEF FindHarness, Reproduce, PovEnds, vars, ReadInv, RequestInv
<1>3. DownloadsAreWhole' /\ DownloadInv'
  BY <1>2 DEF ReadInv, DownloadsAreWhole, DownloadInv
<1>4. CASE FindHarness
  <2>1. serving' = "found" /\ UNCHANGED <<requests, loaded, verdicts>>
    BY <1>2, <1>4, HeadBuild DEF FindHarness
  <2>2. ReadTypeOK'
    BY <1>1, <1>2, <2>1 DEF ReadTypeOK
  <2>3. VerdictsAreTrue' /\ RequestInv'
    BY <1>2, <2>1, <2>2 DEF ReadInv, VerdictsAreTrue, RequestInv
  <2> QED
    BY <1>3, <2>3 DEF ReadInv
<1>5. CASE Reproduce
  <2>1. serving' = "running" /\ loaded' = Head(requests).patch /\ UNCHANGED <<requests, verdicts>>
    BY <1>2, <1>5, HeadBuild DEF Reproduce
  <2>2. loaded' \in Patches \union {None}
    BY <1>2, <2>1, HeadBuild DEF Povs
  <2>3. ReadTypeOK'
    BY <1>1, <1>2, <2>1, <2>2 DEF ReadTypeOK
  <2>4. VerdictsAreTrue' /\ RequestInv'
    BY <1>2, <2>1, <2>3 DEF ReadInv, VerdictsAreTrue, RequestInv
  <2> QED
    BY <1>3, <2>4 DEF ReadInv
<1>6. CASE PovEnds
  <2>1. loaded = Head(requests).patch
    BY <1>6 DEF PovEnds, ReadInv, RequestInv
  <2>2. PICK pov \in Povs : pov = Head(requests)
    BY <1>2, HeadBuild
  <2>3. PICK c \in Retcodes : /\ Served(c)
                              /\ c = 0 => pov.patch \in Fixes
                              /\ c = 1 => pov.patch \notin Fixes
    BY <1>6, <2>1, <2>2 DEF PovEnds, Retcodes
  <2>4. Answers(pov, c) /\ requests' = Tail(requests) /\ serving' = "idle" /\ loaded' = None
    BY <2>2, <2>3 DEF Served
  <2>5. /\ verdicts' \subseteq (Patches \union {None}) \X Retcodes
        /\ \A v \in verdicts' : /\ v[2] = 0 => v[1] \in Fixes
                                /\ v[2] = 1 /\ readFaults' = 0 => v[1] \notin Fixes
    BY <1>1, <1>2, <2>3, <2>4, AnswerReads DEF ReadInv
  <2>6. requests' \in Seq(Povs)
    BY <1>2, <2>4, HeadBuild
  <2>7. VerdictsAreTrue'
    BY <1>1, <1>2, <2>4, <2>5, <2>6 DEF VerdictsAreTrue, ReadTypeOK
  <2>8. RequestInv'
    <3>1. \A n \in 1..Len(requests') : requests'[n] = requests[n + 1] /\ n + 1 \in 1..Len(requests)
      BY <1>1, <1>2, <2>4
    <3> QED
      BY <1>2, <2>4, <3>1 DEF ReadInv, RequestInv
  <2> QED
    BY <1>3, <2>7, <2>8 DEF ReadInv
<1> QED
  BY <1>4, <1>5, <1>6

\* The runner dies: who waits for it counts that as a failure.
LEMMA RunnerCrashReads ==
  ASSUME IInv, ApartInv, ReadInv, RunnerCrash, UNCHANGED vars
  PROVE  ReadInv'
<1> USE BuilderAssumption, ValidationAssumption
<1>1. ReadTypeOK /\ requests \in Seq(Povs) /\ readFaults \in Nat
  BY DEF ReadInv, VerdictsAreTrue, ReadTypeOK
<1>2. UNCHANGED <<download, reads, downloaded, given>>
      /\ requests' = <<>> /\ serving' = "idle" /\ loaded' = None
      /\ readFaults' \in 0..MaxReadFaults /\ readFaults' = readFaults + 1
  BY <1>1 DEF RunnerCrash, ReadFault, ReadTypeOK, vars
<1>3. \A v \in verdicts' : v \in verdicts \/ \E i \in 1..Len(requests) : v = <<requests[i].patch, FailedRetcode>>
  <2>1. DOMAIN requests = 1..Len(requests)
    BY <1>1
  <2> QED
    BY <2>1 DEF RunnerCrash
<1>4. \A i \in 1..Len(requests) : requests[i].patch \in Patches \union {None}
  <2>1. \A i \in 1..Len(requests) : requests[i] \in Povs
    BY <1>1
  <2> QED
    BY <2>1 DEF Povs
<1>5. \A v \in verdicts : v \in (Patches \union {None}) \X Retcodes /\ (v[2] = 0 => v[1] \in Fixes)
  BY DEF ReadInv, VerdictsAreTrue, ReadTypeOK
<1>6. \A v \in verdicts' : v \in (Patches \union {None}) \X Retcodes /\ (v[2] = 0 => v[1] \in Fixes)
  BY <1>3, <1>4, <1>5 DEF FailedRetcode, Retcodes
<1>7. readFaults' # 0
  BY <1>1, <1>2
<1>8. ReadTypeOK'
  <2>1. verdicts' \subseteq (Patches \union {None}) \X Retcodes
    BY <1>6
  <2> QED
    BY <1>1, <1>2, <2>1 DEF ReadTypeOK
<1>9. VerdictsAreTrue'
  BY <1>6, <1>7, <1>8 DEF VerdictsAreTrue
<1>10. RequestInv' /\ DownloadsAreWhole' /\ DownloadInv'
  BY <1>2 DEF ReadInv, RequestInv, DownloadsAreWhole, DownloadInv
<1> QED
  BY <1>9, <1>10 DEF ReadInv

\* A download reads one build, from its first byte to its last.
LEMMA DownloadReads ==
  ASSUME IInv, ApartInv, ReadInv, NEW k \in Clients, DownloadStarts(k) \/ DownloadEnds(k),
         UNCHANGED vars
  PROVE  ReadInv'
<1> USE BuilderAssumption, ValidationAssumption
<1>1. ReadTypeOK
  BY DEF ReadInv, VerdictsAreTrue
<1>2. UNCHANGED <<requests, serving, loaded, readFaults, verdicts, given>>
  BY DEF DownloadStarts, DownloadEnds, vars
<1>3. RequestInv'
  BY <1>2 DEF ReadInv, RequestInv
<1>4. CASE DownloadStarts(k)
  <2>1. PICK g \in Held(k) : download' = [download EXCEPT ![k] = <<g[2], g[3], dirs[<<g[1], g[3]>>].built>>]
    BY <1>4 DEF DownloadStarts
  <2>2. g \in given /\ g[1] = CrsOf[k] /\ g[2] \in Patches /\ g[3] \in Rids /\ g = <<g[1], g[2], g[3]>>
    BY <2>1, HeldBuild DEF Held
  <2>3. download' = [download EXCEPT ![k] = <<g[2], g[3], g[2]>>]
    BY <2>1, <2>2, HeldBuild
  <2>4. UNCHANGED downloaded /\ reads' \in 0..MaxReads
    BY <1>1, <1>4 DEF DownloadStarts, ReadTypeOK
  <2>5. ReadTypeOK'
    BY <1>1, <1>2, <2>2, <2>3, <2>4 DEF ReadTypeOK
  <2>6. DownloadInv'
    <3>1. download'[k] = <<g[2], g[3], g[2]>> /\ \A m \in Clients : m # k => download'[m] = download[m]
      BY <1>1, <2>3 DEF ReadTypeOK
    <3>2. <<CrsOf[k], g[2], g[3]>> \in given
      BY <2>2
    <3> QED
      BY <1>2, <3>1, <3>2 DEF ReadInv, DownloadInv
  <2> QED
    BY <1>2, <1>3, <2>4, <2>5, <2>6 DEF ReadInv, VerdictsAreTrue, DownloadsAreWhole
<1>5. CASE DownloadEnds(k)
  <2>1. /\ <<CrsOf[k], download[k][1], download[k][2]>> \in given /\ download[k][3] = download[k][1]
        /\ download[k][1] \in Patches
    BY <1>1, <1>5 DEF DownloadEnds, ReadInv, DownloadInv, ReadTypeOK
  <2>2. dirs[<<CrsOf[k], download[k][2]>>].built = download[k][1]
    BY <2>1, HeldBuild
  <2>3. /\ downloaded' = downloaded \union {<<download[k][1], download[k][1], download[k][1]>>}
        /\ download' = [download EXCEPT ![k] = None] /\ UNCHANGED reads
    BY <1>5, <2>1, <2>2 DEF DownloadEnds
  <2>4. ReadTypeOK'
    BY <1>1, <1>2, <2>1, <2>3 DEF ReadTypeOK
  <2>5. DownloadInv'
    BY <1>1, <1>2, <2>3 DEF ReadInv, DownloadInv, ReadTypeOK
  <2>6. DownloadsAreWhole'
    BY <2>3 DEF ReadInv, DownloadsAreWhole
  <2> QED
    BY <1>2, <1>3, <2>4, <2>5, <2>6 DEF ReadInv, VerdictsAreTrue
<1> QED
  BY <1>4, <1>5

-----------------------------------------------------------------------------
\* At first there are no reads.
LEMMA InitReads == ReadInit => ReadInv
  BY BuilderAssumption, ValidationAssumption DEF ReadInit, ReadInv, VerdictsAreTrue, ReadTypeOK,
     DownloadsAreWhole, RequestInv, DownloadInv

\* A step of the builder side or of the runner side keeps the invariant.
LEMMA NextValidation ==
  ASSUME KeepApart, ValidationInv, [ValidationNext]_allVars
  PROVE  ValidationInv'
<1> USE DEF ValidationInv
<1>1. [Next]_vars
  BY DEF ValidationNext, Next, allVars
<1>2. IInv' /\ ApartInv'
  BY <1>1, NextIInv, NextApart
<1>3. CASE UNCHANGED readVars
  BY <1>1, <1>2, <1>3, BuilderReads
<1>4. CASE UNCHANGED vars /\ (Runner \/ \E k \in Clients : RunPov(k) \/ GiveUpPov(k)
                                                         \/ DownloadStarts(k) \/ DownloadEnds(k))
  BY <1>2, <1>4, RunPovReads, GiveUpPovReads, RunnerReads, RunnerCrashReads, DownloadReads DEF Runner
<1> QED
  BY <1>3, <1>4 DEF ValidationNext, allVars

\* The invariant of builder, runner and readers together.
THEOREM SpecValidationInv == KeepApart => (ValidationSpec => []ValidationInv)
<1>1. ValidationInit => ValidationInv
  BY InitIInv, InitApart, InitReads DEF ValidationInit, ValidationInv
<1>2. CASE KeepApart
  <2>1. ValidationInv /\ [ValidationNext]_allVars => ValidationInv'
    BY <1>2, NextValidation
  <2> QED
    BY <1>1, <2>1, PTL DEF ValidationSpec
<1>3. CASE ~KeepApart
  BY <1>3
<1> QED
  BY <1>2, <1>3

\* run-pov says "no crash" only of a patch that fixes, whatever the builder does between the
\* build, the runner's look at the directory and its run; and it turns no fix down unless a
\* request failed or the runner died.
THEOREM SpecVerdictsAreTrue == KeepApart => (ValidationSpec => []VerdictsAreTrue)
<1>1. ValidationInv => VerdictsAreTrue
  BY DEF ValidationInv, ReadInv
<1> QED
  BY <1>1, SpecValidationInv, PTL

\* What is downloaded with a rebuild id is all of one build, of the patch the id stands for.
THEOREM SpecDownloadsAreWhole == KeepApart => (ValidationSpec => []DownloadsAreWhole)
<1>1. ValidationInv => DownloadsAreWhole
  BY DEF ValidationInv, ReadInv
<1> QED
  BY <1>1, SpecValidationInv, PTL

=============================================================================
