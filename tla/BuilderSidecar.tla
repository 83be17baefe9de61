---------------------------- MODULE BuilderSidecar ----------------------------
(***************************************************************************)
(* The builder sidecar (oss-crs-infra/builder-sidecar) and the libCRS      *)
(* clients that submit patches to it and poll (libCRS/libCRS/local.py).    *)
(*                                                                         *)
(* One event loop answers the requests, a thread pool runs the jobs, each  *)
(* in an ephemeral container that mounts rebuild_out/<crs>/<rebuild id>.   *)
(* The directories outlive the sidecar, job_results and the queue do not.  *)
(***************************************************************************)
EXTENDS Integers, Sequences, FiniteSets

CONSTANTS
  CRSs, Clients,
  CrsOf,          \* CrsOf[k]: OSS_CRS_NAME of client k
  PatchesOf,      \* PatchesOf[k]: the patches client k submits
  Patches,
  Workers,        \* the threads of _executor
  Explicit,       \* rebuild ids a client may ask for
  FreshOnly,      \* clients ask only for an id whose directory does not exist
  MaxRid,         \* bound: rebuild ids
  MaxCalls,       \* bound: requests
  MaxGiveUps,     \* bound: clients that time out
  MaxFaults,      \* bound: Docker or file system errors in a job
  MaxRestarts,    \* "restart: on-failure:3" of the compose template
  None

Rids  == 1..MaxRid
Kinds == {"build", "test"}
\* _make_job_id: the digest of the patch; "test:" keeps tests apart.  The name
\* of the CRS is no part of it.
Jobs  == Kinds \X Patches
Items == [job : Jobs, crs : CRSs, rid : Rids]
Trees == [here : BOOLEAN, diff : Patches \union {None}, built : Patches \union {None}]
Absent == [here |-> FALSE, diff |-> None, built |-> None]
Results == [status : {"none", "queued", "running", "done"},
            exit : {0, 1, None}, rid : Rids \union {None}]
\* An entry that has no exit code (yet).
NoExit(status) == [status |-> status, exit |-> None, rid |-> None]
NoResult == NoExit("none")

ASSUME BuilderAssumption ==
  /\ CrsOf \in [Clients -> CRSs]
  /\ PatchesOf \in [Clients -> SUBSET Patches]
  /\ Explicit \subseteq Rids
  /\ FreshOnly \in BOOLEAN
  /\ None \notin Patches \union Rids \union Jobs \union Items \union Clients \union {0, 1}
  /\ MaxRid \in Nat /\ MaxCalls \in Nat /\ MaxGiveUps \in Nat
  /\ MaxFaults \in Nat /\ MaxRestarts \in Nat

VARIABLES
  results,     \* job_results
  queue,       \* the executor's work queue
  item,        \* item[w]: the work item of thread w, or None
  stage,       \* stage[w]: how far _run_job is
  applied,     \* applied[w]: the patch its container found in patch.diff
  mounted,     \* mounted[w]: the container's mount is still the directory on disk
  code,        \* code[w]: the container's exit code
  dirs,        \* dirs[<<c, r>>]: rebuild_out/c/r
  orphans,     \* containers whose sidecar is gone, still writing to their mount
  waiting,     \* waiting[k]: the job client k has posted and not had answered
  staging,     \* stage_cached_rebuild under way in the event loop, or None
  calls, giveUps, faults, restarts,
  ran,         \* history: jobs of which a container exited with 0
  told,        \* history: jobs a client was told had succeeded
  given        \* history: <<crs, patch, rebuild id>> of the rebuild_id files,
               \* without those the CRS itself has asked to write over

serverVars == <<results, queue>>
workerVars == <<item, stage, applied, mounted, code>>
diskVars   == <<dirs, orphans>>
clientVars == <<waiting, calls, giveUps, told, given>>
faultVars  == <<faults, restarts>>
vars == <<results, queue, item, stage, applied, mounted, code, dirs, orphans,
          waiting, staging, calls, giveUps, faults, restarts, ran, told, given>>

Init ==
  /\ results = [j \in Jobs |-> NoResult] /\ queue = <<>>
  /\ item = [w \in Workers |-> None] /\ stage = [w \in Workers |-> "free"]
  /\ applied = [w \in Workers |-> None] /\ mounted = [w \in Workers |-> FALSE]
  /\ code = [w \in Workers |-> None]
  /\ dirs = [d \in CRSs \X Rids |-> Absent] /\ orphans = {}
  /\ waiting = [k \in Clients |-> None] /\ staging = None
  /\ calls = 0 /\ giveUps = 0 /\ faults = 0 /\ restarts = 0
  /\ ran = {} /\ told = {} /\ given = {}

-----------------------------------------------------------------------------
(* The requests.  The handlers do not await between reading job_results and *)
(* storing the new entry, so the event loop runs each in one step; the      *)
(* staging of a cached tree keeps it busy.                                  *)

Existing(c) == {r \in Rids : dirs[<<c, r>>].here}

\* Mutant: the number of directories stands for the greatest id.
NextRebuildIdByCount(c) == Cardinality(Existing(c)) + 1

\* next_rebuild_id: one above the greatest directory on disk.  The queued jobs
\* have none yet.
NextRebuildId(c) ==
  CHOOSE n \in 1..(MaxRid + 1) : /\ \A r \in Existing(c) : r < n
                                 /\ n = 1 \/ n - 1 \in Existing(c)

\* Mutant: a running job is not found by the next request for it.
InFlightQueuedOnly(j) == results[j].status = "queued"

InFlight(j) == results[j].status \in {"queued", "running"}

Succeeded(j) == results[j].status = "done" /\ results[j].exit = 0

\* Mutant: a result without exit_code counts as success.
ExitCodeOrZero(j) == IF results[j].exit = None THEN 0 ELSE results[j].exit

\* inner.get("exit_code", 1): a job that raised has no result.
ExitCode(j) == IF results[j].exit = None THEN 1 ELSE results[j].exit

\* A rebuild id a caller asks for is one of Explicit; None leaves it to the sidecar.
Requested(k, kind) ==
  {None} \union IF kind = "build"
                THEN {r \in Explicit : FreshOnly => ~dirs[<<CrsOf[k], r>>].here}
                ELSE {}

\* What a client does with an answer: retcode, and for a build that exited with
\* 0 the rebuild_id file.
Answer(k, j, exit, rid) ==
  /\ told' = IF exit = 0 THEN told \union {j} ELSE told
  /\ given' = IF exit = 0 /\ j[1] = "build"
              THEN given \union {<<CrsOf[k], j[2], rid>>} ELSE given

\* A CRS that asks for an id gives up what it had there.
Reclaim(k, r) == given' = {g \in given : <<g[1], g[3]>> # <<CrsOf[k], r>>}

\* The job is queued or running: the caller is given its id to poll, and the
\* rebuild_id it asked for is dropped.
PostJoins(k, j) ==
  /\ InFlight(j)
  /\ waiting' = [waiting EXCEPT ![k] = j]
  /\ UNCHANGED <<results, queue, staging, told, given>>

\* A cached success whose rebuild_id suits the caller, answered in the response.
PostCached(k, j, r) ==
  /\ ~InFlight(j) /\ Succeeded(j)
  /\ r \in {None, results[j].rid}
  /\ Answer(k, j, 0, results[j].rid)
  /\ UNCHANGED <<results, queue, staging, waiting>>

\* A cached success under another rebuild_id: its tree is linked into a staging
\* directory, or RuntimeError (a 500, which the client gives up on).
PostStages(k, j, r) ==
  LET c == CrsOf[k]
      src == dirs[<<c, results[j].rid>>]
  IN /\ ~InFlight(j) /\ Succeeded(j)
     /\ r \notin {None, results[j].rid}
     /\ IF src.here
        THEN /\ staging' = [client |-> k, job |-> j, crs |-> c, rid |-> r,
                            tree |-> src, removed |-> FALSE]
             /\ waiting' = [waiting EXCEPT ![k] = j]
             /\ Reclaim(k, r)
        ELSE UNCHANGED <<staging, waiting, given>>
     /\ UNCHANGED <<results, queue, told>>

\* Nothing to reuse, a failure included: a new run is queued.
PostQueues(k, j, r) ==
  LET rid == IF r = None THEN NextRebuildId(CrsOf[k]) ELSE r
  IN /\ ~InFlight(j) /\ ~Succeeded(j)
     /\ rid \in Rids
     /\ results' = [results EXCEPT ![j] = NoExit("queued")]
     /\ queue' = Append(queue, [job |-> j, crs |-> CrsOf[k], rid |-> rid])
     /\ waiting' = [waiting EXCEPT ![k] = j]
     /\ Reclaim(k, r)
     /\ UNCHANGED <<staging, told>>

\* POST /build or /test by a client that is not in a call already.
Post(k) ==
  /\ waiting[k] = None /\ staging = None
  /\ calls < MaxCalls
  /\ calls' = calls + 1
  /\ \E kind \in Kinds : \E p \in PatchesOf[k] : \E r \in Requested(k, kind) :
       \/ PostJoins(k, <<kind, p>>)
       \/ PostCached(k, <<kind, p>>, r)
       \/ PostStages(k, <<kind, p>>, r)
       \/ PostQueues(k, <<kind, p>>, r)
  /\ UNCHANGED <<workerVars, diskVars, giveUps, faultVars, ran>>

\* GET /status of the job: done, or 404 after a restart.  While the sidecar is
\* away the client polls on.
Poll(k) ==
  LET j == waiting[k]
  IN /\ j # None /\ staging = None
     /\ results[j].status \in {"done", "none"}
     /\ waiting' = [waiting EXCEPT ![k] = None]
     /\ IF results[j].status = "done"
        THEN Answer(k, j, ExitCode(j), results[j].rid)
        ELSE UNCHANGED <<told, given>>
     /\ UNCHANGED <<serverVars, workerVars, diskVars, staging, calls, giveUps,
                    faultVars, ran>>

\* The request or the polling times out; the job goes on.
GiveUp(k) ==
  /\ waiting[k] # None
  /\ giveUps < MaxGiveUps
  /\ giveUps' = giveUps + 1
  /\ waiting' = [waiting EXCEPT ![k] = None]
  /\ UNCHANGED <<serverVars, workerVars, diskVars, staging, calls, told, given,
                 faultVars, ran>>

-----------------------------------------------------------------------------
(* The rebuild directories.                                                 *)

DirOf(w) == <<item[w].crs, item[w].rid>>

\* Directory d is unlinked: the containers that mounted it write to nothing.
Detach(d) ==
  /\ mounted' = [w \in Workers |-> mounted[w] /\ DirOf(w) # d]
  /\ orphans' = {o \in orphans : o.dir # d}

\* stage_cached_rebuild, after the copy: rmtree(dst_dir) ...
StageRemove ==
  /\ staging # None /\ ~staging.removed
  /\ staging' = [staging EXCEPT !.removed = TRUE]
  /\ dirs' = [dirs EXCEPT ![<<staging.crs, staging.rid>>] = Absent]
  /\ Detach(<<staging.crs, staging.rid>>)
  /\ UNCHANGED <<serverVars, item, stage, applied, code, clientVars, faultVars, ran>>

\* ... and staging.rename(dst_dir), which replaces nothing or an empty directory.
\* The response carries the requested id, the cached entry keeps its own.
StageCommit ==
  LET d == <<staging.crs, staging.rid>>
      fits == dirs[d].diff = None /\ dirs[d].built = None
  IN /\ staging # None /\ staging.removed
     /\ staging' = None
     /\ IF fits
        THEN /\ dirs' = [dirs EXCEPT ![d] = staging.tree]
             /\ Detach(d)
        ELSE UNCHANGED <<dirs, mounted, orphans>>
     /\ IF fits /\ waiting[staging.client] = staging.job
        THEN Answer(staging.client, staging.job, 0, staging.rid)
        ELSE UNCHANGED <<told, given>>
     /\ waiting' = [waiting EXCEPT ![staging.client] = None]
     /\ UNCHANGED <<serverVars, item, stage, applied, code, calls, giveUps,
                    faultVars, ran>>

-----------------------------------------------------------------------------
(* _run_job in a thread of the pool.                                        *)

\* The thread takes the oldest work item and marks the job running.
Take(w) ==
  /\ stage[w] = "free" /\ queue # <<>>
  /\ item' = [item EXCEPT ![w] = Head(queue)]
  /\ queue' = Tail(queue)
  /\ stage' = [stage EXCEPT ![w] = "starting"]
  /\ results' = [results EXCEPT ![Head(queue).job] =
                   [status |-> "running", exit |-> @.exit, rid |-> @.rid]]
  /\ UNCHANGED <<applied, mounted, code, diskVars, clientVars, staging, faultVars, ran>>

\* _run_ephemeral up to the patch file: a build clears the directory, a test
\* does not.
PrepareDir(w) ==
  LET d == DirOf(w)
      p == item[w].job[2]
  IN /\ stage[w] = "starting"
     /\ stage' = [stage EXCEPT ![w] = "prepared"]
     /\ IF item[w].job[1] = "build"
        THEN /\ dirs' = [dirs EXCEPT ![d] = [here |-> TRUE, diff |-> p, built |-> None]]
             /\ Detach(d)
        ELSE /\ dirs' = [dirs EXCEPT ![d] = [here |-> TRUE, diff |-> p, built |-> @.built]]
             /\ UNCHANGED <<mounted, orphans>>
     /\ UNCHANGED <<serverVars, item, applied, code, clientVars, staging, faultVars, ran>>

\* create and start: Docker mounts whatever is at the path now, and the handler
\* script applies the patch.diff it finds there.
StartContainer(w) ==
  /\ stage[w] = "prepared"
  /\ stage' = [stage EXCEPT ![w] = "container"]
  /\ dirs' = [dirs EXCEPT ![DirOf(w)] = [here |-> TRUE, diff |-> @.diff, built |-> @.built]]
  /\ mounted' = [mounted EXCEPT ![w] = TRUE]
  /\ applied' = [applied EXCEPT ![w] = dirs[DirOf(w)].diff]
  /\ UNCHANGED <<serverVars, item, code, orphans, clientVars, staging, faultVars, ran>>

\* A build's output in tree t.
Holding(t, p) == [here |-> t.here, diff |-> t.diff, built |-> p]

\* The container ends, or is killed after BUILD_TIMEOUT (1).  Without a patch
\* file the handler exits with 1.  A build that worked has submitted its output.
ContainerExits(w, c) ==
  /\ stage[w] = "container"
  /\ c = 0 => applied[w] # None
  /\ stage' = [stage EXCEPT ![w] = "exited"]
  /\ code' = [code EXCEPT ![w] = c]
  /\ ran' = IF c = 0 THEN ran \union {item[w].job} ELSE ran
  /\ dirs' = IF c = 0 /\ mounted[w] /\ item[w].job[1] = "build"
             THEN [dirs EXCEPT ![DirOf(w)] = Holding(@, applied[w])] ELSE dirs
  /\ UNCHANGED <<serverVars, item, applied, mounted, orphans, clientVars, staging, faultVars>>

\* Thread w is back in the pool.
Release(w) ==
  /\ item' = [item EXCEPT ![w] = None]
  /\ stage' = [stage EXCEPT ![w] = "free"]
  /\ applied' = [applied EXCEPT ![w] = None]
  /\ mounted' = [mounted EXCEPT ![w] = FALSE]
  /\ code' = [code EXCEPT ![w] = None]

\* The logs are kept, the container removed, the result published.
Publish(w) ==
  /\ stage[w] = "exited"
  /\ results' = [results EXCEPT ![item[w].job] =
                   [status |-> "done", exit |-> code[w], rid |-> item[w].rid]]
  /\ Release(w)
  /\ UNCHANGED <<queue, diskVars, clientVars, staging, faultVars, ran>>

\* Mutant: the handler is called outside the try; the thread pool swallows the
\* exception and the entry stays "running".
RunRaisesUncaught(w) ==
  /\ stage[w] # "free"
  /\ faults < MaxFaults
  /\ faults' = faults + 1
  /\ Release(w)
  /\ UNCHANGED <<serverVars, diskVars, clientVars, staging, restarts, ran>>

\* The image, the directory, the container or its logs fail: the job is done
\* with no result.
RunRaises(w) ==
  /\ stage[w] # "free"
  /\ faults < MaxFaults
  /\ faults' = faults + 1
  /\ results' = [results EXCEPT ![item[w].job] = NoExit("done")]
  /\ Release(w)
  /\ UNCHANGED <<queue, diskVars, clientVars, staging, restarts, ran>>

-----------------------------------------------------------------------------
(* The sidecar's process ends and Docker starts it again.                   *)

Crash ==
  /\ restarts < MaxRestarts
  /\ restarts' = restarts + 1
  /\ results' = [j \in Jobs |-> NoResult] /\ queue' = <<>>
  /\ orphans' = orphans \union
       {[dir |-> DirOf(w), patch |-> applied[w]] :
          w \in {x \in Workers : /\ stage[x] = "container" /\ mounted[x]
                                 /\ applied[x] # None /\ item[x].job[1] = "build"}}
  /\ item' = [w \in Workers |-> None] /\ stage' = [w \in Workers |-> "free"]
  /\ applied' = [w \in Workers |-> None] /\ mounted' = [w \in Workers |-> FALSE]
  /\ code' = [w \in Workers |-> None]
  /\ staging' = None
  /\ waiting' = IF staging = None THEN waiting
                ELSE [waiting EXCEPT ![staging.client] = None]
  /\ UNCHANGED <<dirs, calls, giveUps, told, given, faults, ran>>

\* A container nobody waits for finishes its build.
OrphanExits(o) ==
  /\ orphans' = orphans \ {o}
  /\ \/ dirs' = [dirs EXCEPT ![o.dir] = Holding(@, o.patch)]
     \/ UNCHANGED dirs
  /\ UNCHANGED <<serverVars, workerVars, clientVars, staging, faultVars, ran>>

-----------------------------------------------------------------------------
Client(k) == Post(k) \/ Poll(k) \/ GiveUp(k)

Work(w) == \/ Take(w) \/ PrepareDir(w) \/ StartContainer(w)
           \/ \E c \in {0, 1} : ContainerExits(w, c)
           \/ Publish(w)

Stage == StageRemove \/ StageCommit

Next ==
  \/ \E k \in Clients : Client(k)
  \/ Stage
  \/ \E w \in Workers : Work(w) \/ RunRaises(w)
  \/ Crash
  \/ \E o \in orphans : OrphanExits(o)

\* The threads run, BUILD_TIMEOUT ends every container, the event loop returns.
Fairness ==
  /\ WF_vars(Stage)
  /\ \A w \in Workers : WF_vars(Work(w))

Spec == Init /\ [][Next]_vars
FairSpec == Spec /\ Fairness

-----------------------------------------------------------------------------
ServerType ==
  /\ results \in [Jobs -> Results]
  /\ queue \in Seq(Items)

WorkerType ==
  /\ item \in [Workers -> Items \union {None}]
  /\ stage \in [Workers -> {"free", "starting", "prepared", "container", "exited"}]
  /\ applied \in [Workers -> Patches \union {None}]
  /\ mounted \in [Workers -> BOOLEAN]
  /\ code \in [Workers -> {0, 1, None}]
  /\ \A w \in Workers : stage[w] = "free" <=> item[w] = None

DiskType ==
  /\ dirs \in [CRSs \X Rids -> Trees]
  /\ \A d \in CRSs \X Rids : ~dirs[d].here => dirs[d] = Absent
  /\ orphans \subseteq [dir : CRSs \X Rids, patch : Patches]

ClientType ==
  /\ waiting \in [Clients -> Jobs \union {None}]
  /\ \/ staging = None
     \/ staging \in [client : Clients, job : Jobs, crs : CRSs, rid : Rids,
                     tree : Trees, removed : BOOLEAN]
  /\ calls \in 0..MaxCalls /\ giveUps \in 0..MaxGiveUps
  /\ faults \in 0..MaxFaults /\ restarts \in 0..MaxRestarts
  /\ ran \subseteq Jobs /\ told \subseteq Jobs
  /\ given \subseteq CRSs \X Patches \X Rids

\* Every variable is in its range, a thread is free exactly when it holds no work
\* item, and what is not on disk has no content.
TypeOK == ServerType /\ WorkerType /\ DiskType /\ ClientType

\* The places where work for job j is held.
Queued(j) == {i \in 1..Len(queue) : queue[i].job = j}
Running(j) == {w \in Workers : item[w] # None /\ item[w].job = j}

\* job_results and the pool agree: a job is queued or running in exactly one
\* place while its entry says so, and nowhere otherwise.  So a patch that many
\* clients submit at once is built once, and a result is never overwritten by
\* a second run of the same job.
OneRunPerJob ==
  \A j \in Jobs :
    /\ Cardinality(Queued(j)) = IF results[j].status = "queued" THEN 1 ELSE 0
    /\ Cardinality(Running(j)) = IF results[j].status = "running" THEN 1 ELSE 0

\* A client is told that a patch builds, or passes its tests, only if a
\* container run for that job exited with 0: no failure, exception, time-out or
\* restart of the sidecar turns into retcode 0.
SuccessNeedsARun == TypeOK /\ told \subseteq ran

\* Every job submitted leaves the queue and the pool again: its result arrives or
\* a restart forgets it.  Otherwise every later request for that patch would join
\* a run that never ends.
JobsFinish ==
  \A j \in Jobs : results[j].status \in {"queued", "running"}
                    ~> results[j].status \in {"none", "done"}

\* Every rebuild_id file a client was given names a directory of its own CRS
\* that holds the build of the patch it submitted (docs/design/libCRS.md: "The
\* rebuild identifier for use with `run-pov`"), until that CRS asks for the id
\* again.
RebuildIdNamesBuild ==
  \A g \in given : dirs[<<g[1], g[3]>>].built = g[2]
===============================================================================
