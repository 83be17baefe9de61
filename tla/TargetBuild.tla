------------------------------ MODULE TargetBuild ------------------------------
(***************************************************************************)
(* oss-crs build-target: CRSCompose.build_target of                        *)
(* oss_crs/src/crs_compose.py, with CRS.build_target of crs.py and the     *)
(* target's image of target.py, by several processes on one machine.  They *)
(* share the work directory, Docker's image tags and the lock files of the *)
(* snapshots.                                                              *)
(*                                                                         *)
(* A stamp says what an image, an output or a snapshot was made of.        *)
(***************************************************************************)
EXTENDS Integers, FiniteSets, Sequences, SequencesExt

CONSTANTS
  Processes, BuildIds,
  Builders,      \* the target builds of the CRSs, in order: a sequence of names
  Test,          \* the optional snapshot after run_tests.sh
  Inputs,        \* directed inputs (diff, bug candidate), by hash
  MaxVersions,   \* bound: versions of the source
  MaxRecipes,    \* bound: versions of the CRSs' builder Dockerfiles
  MaxAttempts,   \* bound: builds that are started
  MaxCrashes,    \* bound: processes that are killed
  None

ASSUME TargetBuildAssumption ==
  /\ Builders \in Seq(ToSet(Builders)) /\ Builders # <<>>
  /\ Test \notin ToSet(Builders)
  /\ {MaxVersions, MaxRecipes} \subseteq Nat \ {0}
  /\ {MaxAttempts, MaxCrashes} \subseteq Nat
  /\ \A p \in Processes : p # None

Names    == ToSet(Builders)
Versions == 1 .. MaxVersions
Stamps   == [source : Versions, recipe : 1 .. MaxRecipes, input : Inputs]

VARIABLES
  source, recipe,   \* the current versions
  images,           \* tags of the target's image, by the hash of the source
  outputs,          \* BUILD_OUT_DIR of each build id, target key and builder
  caches,           \* the .<build>.<input>.cache files: the recipe of the image
  preserved,        \* oss-crs-builder:<crs>-<build>-<id>
  snapshots,        \* oss-crs-snapshot:build-... and test-<id>
  contents,         \* oss-crs-snapshot:content-<key>
  locks,            \* holder of each snapshot-<key>.lock
  metadata,         \* build ids with build metadata
  pc, job,          \* of each process
  attempts, crashes,
  last,             \* history: the process of each id's last build
  runsOf            \* history: snapshot containers that were committed, by content key

shared == <<images, outputs, caches, preserved, snapshots, contents, locks, metadata>>
hist   == <<last, runsOf>>
vars   == <<source, recipe, shared, pc, job, attempts, crashes, hist>>

Jobs == [id : BuildIds, source : Versions, input : Inputs, incremental : BOOLEAN,
         todo : Seq(Names \union {Test}), image : 0 .. MaxRecipes,
         committed : SUBSET (Names \union {Test}), ok : BOOLEAN]

\* None is no job and no stamp.
ASSUME NoneAssumption == None \notin Jobs \union Stamps

\* The content key of a snapshot, from the target's image tag: of the source, not of the
\* image that is run.
Keys == Versions \X (Names \union {Test})

Steps == {"idle", "image", "compose", "run", "tag", "failed", "lock", "held", "committed",
          "rollback", "write"}

TypeOK ==
  /\ source \in Versions /\ recipe \in 1 .. MaxRecipes
  /\ images \subseteq Versions
  /\ outputs \in [BuildIds \X Versions \X Names -> Stamps \union {None}]
  /\ caches \in [BuildIds \X Versions \X Names \X Inputs -> 0 .. MaxRecipes]
  /\ preserved \in [BuildIds \X Names -> Stamps \union {None}]
  /\ snapshots \in [BuildIds \X (Names \union {Test}) -> Stamps \union {None}]
  /\ contents \in [Keys -> Stamps \union {None}]
  /\ locks \in [Keys -> Processes \union {None}]
  /\ metadata \subseteq BuildIds
  /\ pc \in [Processes -> Steps]
  /\ job \in [Processes -> Jobs \union {None}]
  /\ attempts \in 0 .. MaxAttempts /\ crashes \in 0 .. MaxCrashes
  /\ last \in [BuildIds -> Processes \union {None}] /\ runsOf \in [Keys -> Nat]

Init ==
  /\ source = 1 /\ recipe = 1
  /\ images = {}
  /\ outputs = [x \in BuildIds \X Versions \X Names |-> None]
  /\ caches = [x \in BuildIds \X Versions \X Names \X Inputs |-> 0]
  /\ preserved = [x \in BuildIds \X Names |-> None]
  /\ snapshots = [x \in BuildIds \X (Names \union {Test}) |-> None]
  /\ contents = [x \in Keys |-> None]
  /\ locks = [x \in Keys |-> None]
  /\ metadata = {}
  /\ pc = [p \in Processes |-> "idle"]
  /\ job = [p \in Processes |-> None]
  /\ attempts = 0 /\ crashes = 0
  /\ last = [id \in BuildIds |-> None]
  /\ runsOf = [x \in Keys |-> 0]

-----------------------------------------------------------------------------
Go(p, s)    == pc' = [pc EXCEPT ![p] = s]
Now(p)      == Head(job[p].todo)
StampOf(p)  == [source |-> job[p].source, recipe |-> job[p].image, input |-> job[p].input]
Out(p, k)   == <<job[p].id, job[p].source, k>>
Cache(p, k) == <<job[p].id, job[p].source, k, job[p].input>>

Key(p, k) == <<job[p].source, k>>

\* What changes of a job while it runs.
Progress(p, todo, image, committed, ok) ==
  job' = [job EXCEPT ![p] =
    [id |-> job[p].id, source |-> job[p].source, input |-> job[p].input,
     incremental |-> job[p].incremental,
     todo |-> todo, image |-> image, committed |-> committed, ok |-> ok]]

\* The command ends; what is left of the job is its result.
Finish(p, ok) == Go(p, "idle") /\ Progress(p, <<>>, job[p].image, job[p].committed, ok)

\* _cleanup_preserved_builders
WithoutBuilders(p) ==
  [x \in DOMAIN preserved |-> IF x[1] = job[p].id THEN None ELSE preserved[x]]

-----------------------------------------------------------------------------
\* A build is started.  Two builds of the same id at once are not considered: the ids are
\* made of the time and two random characters.
Begin(p) ==
  /\ pc[p] = "idle" /\ attempts < MaxAttempts
  /\ attempts' = attempts + 1
  /\ \E id \in BuildIds, input \in Inputs, inc \in BOOLEAN :
       /\ \A q \in Processes : pc[q] # "idle" => job[q].id # id
       /\ job' = [job EXCEPT ![p] =
            [id |-> id, source |-> source, input |-> input, incremental |-> inc,
             todo |-> Builders, image |-> 0, committed |-> {}, ok |-> FALSE]]
       /\ last' = [last EXCEPT ![id] = p]
  /\ Go(p, "image")
  /\ UNCHANGED <<source, recipe, shared, crashes, runsOf>>

\* build_docker_image: an image of this hash is reused.
TargetImage(p) ==
  /\ pc[p] = "image"
  /\ \/ images' = images \union {job[p].source} /\ Go(p, "compose") /\ UNCHANGED job
     \/ job[p].source \notin images /\ Finish(p, FALSE) /\ UNCHANGED images
  /\ UNCHANGED <<source, recipe, outputs, caches, preserved, snapshots, contents, locks,
                 metadata, attempts, crashes, hist>>

\* __build_target_one: docker compose build of the builder's image.
ComposeBuild(p) ==
  /\ pc[p] = "compose"
  /\ \/ Progress(p, job[p].todo, recipe, {}, FALSE) /\ Go(p, "run")
     \/ Go(p, "failed") /\ UNCHANGED job
  /\ UNCHANGED <<source, recipe, shared, attempts, crashes, hist>>

UpToDate(p, k) == caches[Cache(p, k)] = job[p].image /\ outputs[Out(p, k)] # None

\* The cache says that the outputs are there, or the builder is run.  A failed builder may
\* have written its outputs or not; the cache file is written in both cases.
RunBuilder(p) ==
  /\ pc[p] = "run"
  /\ LET k == Now(p)
     IN \/ UpToDate(p, k) /\ Go(p, "tag") /\ UNCHANGED <<outputs, caches>>
        \/ /\ ~UpToDate(p, k)
           /\ caches' = [caches EXCEPT ![Cache(p, k)] = job[p].image]
           /\ \/ outputs' = [outputs EXCEPT ![Out(p, k)] = StampOf(p)] /\ Go(p, "tag")
              \/ outputs' = [outputs EXCEPT ![Out(p, k)] = StampOf(p)] /\ Go(p, "failed")
              \/ UNCHANGED outputs /\ Go(p, "failed")
  /\ UNCHANGED <<source, recipe, images, preserved, snapshots, contents, locks, metadata, job,
                 attempts, crashes, hist>>

\* The builder's image is kept under a name of its own; then the next builder.
TagBuilder(p) ==
  /\ pc[p] = "tag"
  /\ \/ LET rest == Tail(job[p].todo)
        IN /\ preserved' = [preserved EXCEPT ![<<job[p].id, Now(p)>>] = StampOf(p)]
           /\ Progress(p, IF rest = <<>> /\ job[p].incremental THEN Append(Builders, Test)
                          ELSE rest, job[p].image, {}, FALSE)
           /\ Go(p, IF rest # <<>> THEN "compose"
                    ELSE IF job[p].incremental THEN "lock" ELSE "write")
     \/ Go(p, "failed") /\ UNCHANGED <<preserved, job>>
  /\ UNCHANGED <<source, recipe, images, outputs, caches, snapshots, contents, locks,
                 metadata, attempts, crashes, hist>>

\* Mutant: only a build whose snapshots fail removes them.
BuildFailsKeeping(p) ==
  /\ pc[p] = "failed"
  /\ Finish(p, FALSE)
  /\ UNCHANGED <<source, recipe, shared, attempts, crashes, hist>>

\* A failed build removes the images it has kept.
BuildFails(p) ==
  /\ pc[p] = "failed"
  /\ preserved' = WithoutBuilders(p)
  /\ Finish(p, FALSE)
  /\ UNCHANGED <<source, recipe, images, outputs, caches, snapshots, contents, locks, metadata,
                 attempts, crashes, hist>>

-----------------------------------------------------------------------------
(* _create_incremental_snapshots and _snapshot_one                          *)

\* Mutant: a lock of the process, not of the machine.
SnapshotLockShared(p) ==
  /\ pc[p] = "lock"
  /\ Go(p, "held")
  /\ UNCHANGED <<source, recipe, shared, job, attempts, crashes, hist>>

\* The lock file of the content key is taken.
SnapshotLock(p) ==
  /\ pc[p] = "lock" /\ locks[Key(p, Now(p))] = None
  /\ locks' = [locks EXCEPT ![Key(p, Now(p))] = p]
  /\ Go(p, "held")
  /\ UNCHANGED <<source, recipe, images, outputs, caches, preserved, snapshots, contents,
                 metadata, job, attempts, crashes, hist>>

Unlock(p) == locks' = [locks EXCEPT ![Key(p, Now(p))] = None]

\* On to the next snapshot; ks has been committed.
NextSnapshot(p, ks) ==
  /\ Progress(p, Tail(job[p].todo), job[p].image, job[p].committed \union ks, FALSE)
  /\ Go(p, IF Tail(job[p].todo) = <<>> THEN "write" ELSE "lock")

\* A snapshot of the same content is tagged again.
SnapshotReuse(p) ==
  /\ pc[p] = "held" /\ contents[Key(p, Now(p))] # None
  /\ snapshots' = [snapshots EXCEPT ![<<job[p].id, Now(p)>>] = contents[Key(p, Now(p))]]
  /\ NextSnapshot(p, {Now(p)})
  /\ Unlock(p)
  /\ UNCHANGED <<source, recipe, images, outputs, caches, preserved, contents, metadata,
                 attempts, crashes, hist>>

\* What the snapshot is made of: the kept builder, or the target's image for the tests.
Base(p) == IF Now(p) = Test
             THEN [source |-> job[p].source, recipe |-> 1, input |-> job[p].input]
             ELSE preserved[<<job[p].id, Now(p)>>]

\* The container ends well and is committed.
SnapshotCommit(p) ==
  /\ pc[p] = "held" /\ contents[Key(p, Now(p))] = None /\ Base(p) # None
  /\ snapshots' = [snapshots EXCEPT ![<<job[p].id, Now(p)>>] = Base(p)]
  /\ runsOf' = [runsOf EXCEPT ![Key(p, Now(p))] = @ + 1]
  /\ Go(p, "committed")
  /\ UNCHANGED <<source, recipe, images, outputs, caches, preserved, contents, locks, metadata,
                 job, attempts, crashes, last>>

\* Mutant: the lock is given up only when the snapshot was made.
SnapshotFailsLocked(p) ==
  /\ pc[p] = "held" /\ contents[Key(p, Now(p))] = None
  /\ IF Now(p) = Test THEN NextSnapshot(p, {}) ELSE Go(p, "rollback") /\ UNCHANGED job
  /\ UNCHANGED <<source, recipe, shared, attempts, crashes, hist>>

\* It fails or is not over in time; only the test's snapshot may be missing.
SnapshotFails(p) ==
  /\ pc[p] = "held" /\ contents[Key(p, Now(p))] = None
  /\ IF Now(p) = Test THEN NextSnapshot(p, {}) ELSE Go(p, "rollback") /\ UNCHANGED job
  /\ Unlock(p)
  /\ UNCHANGED <<source, recipe, images, outputs, caches, preserved, snapshots, contents,
                 metadata, attempts, crashes, hist>>

\* The commit gets the tag of its content, and the lock is released.
SnapshotTag(p) ==
  /\ pc[p] = "committed"
  /\ contents' = [contents EXCEPT ![Key(p, Now(p))] = snapshots[<<job[p].id, Now(p)>>]]
  /\ NextSnapshot(p, {Now(p)})
  /\ Unlock(p)
  /\ UNCHANGED <<source, recipe, images, outputs, caches, preserved, snapshots, metadata,
                 attempts, crashes, hist>>

\* Mutant: only the last snapshot is removed.
RollbackLast(p) ==
  /\ pc[p] = "rollback"
  /\ snapshots' = [snapshots EXCEPT ![<<job[p].id, Now(p)>>] = None]
  /\ preserved' = WithoutBuilders(p)
  /\ Finish(p, FALSE)
  /\ UNCHANGED <<source, recipe, images, outputs, caches, contents, locks, metadata, attempts,
                 crashes, hist>>

\* All or nothing: what this build has tagged is removed, and the kept builders.
Rollback(p) ==
  /\ pc[p] = "rollback"
  /\ snapshots' = [x \in DOMAIN snapshots |->
       IF x[1] = job[p].id /\ x[2] \in job[p].committed THEN None ELSE snapshots[x]]
  /\ preserved' = WithoutBuilders(p)
  /\ Finish(p, FALSE)
  /\ UNCHANGED <<source, recipe, images, outputs, caches, contents, locks, metadata, attempts,
                 crashes, hist>>

\* The build has succeeded; only a later run of the sidecar without snapshots needs the
\* kept builders.
WriteMetadata(p) ==
  /\ pc[p] = "write"
  /\ preserved' = IF job[p].incremental THEN WithoutBuilders(p) ELSE preserved
  /\ metadata' = metadata \union {job[p].id}
  /\ Finish(p, TRUE)
  /\ UNCHANGED <<source, recipe, images, outputs, caches, snapshots, contents, locks, attempts,
                 crashes, hist>>

-----------------------------------------------------------------------------
\* The process is killed: its locks are released by the kernel, everything else stays.
Crash(p) ==
  /\ pc[p] # "idle" /\ crashes < MaxCrashes
  /\ crashes' = crashes + 1
  /\ locks' = [k \in Keys |-> IF locks[k] = p THEN None ELSE locks[k]]
  /\ Finish(p, FALSE)
  /\ UNCHANGED <<source, recipe, images, outputs, caches, preserved, snapshots, contents,
                 metadata, attempts, hist>>

\* The user edits the source, but not between its hash and the build of its image; a CRS
\* is updated.
Edit ==
  /\ \A p \in Processes : pc[p] # "image"
  /\ \/ source < MaxVersions /\ source' = source + 1 /\ UNCHANGED recipe
     \/ recipe < MaxRecipes /\ recipe' = recipe + 1 /\ UNCHANGED source
  /\ UNCHANGED <<shared, pc, job, attempts, crashes, hist>>

BuildStep(p) ==
  \/ TargetImage(p)
  \/ ComposeBuild(p)
  \/ RunBuilder(p)
  \/ TagBuilder(p)
  \/ BuildFails(p)
  \/ SnapshotLock(p)
  \/ SnapshotReuse(p)
  \/ SnapshotCommit(p)
  \/ SnapshotFails(p)
  \/ SnapshotTag(p)
  \/ Rollback(p)
  \/ WriteMetadata(p)

Next ==
  \/ \E p \in Processes : Begin(p) \/ BuildStep(p) \/ Crash(p)
  \/ Edit

\* A process that runs goes on; flock hands a lock that is free again to a waiting process.
Fairness == \A p \in Processes : WF_vars(BuildStep(p)) /\ SF_vars(SnapshotLock(p))

Spec == Init /\ [][Next]_vars /\ Fairness

-----------------------------------------------------------------------------
\* The last build of an id was that of p, and has ended.
EndedLast(p) ==
  pc[p] = "idle" /\ job[p] # None /\ last[job[p].id] = p /\ crashes = 0

\* "serializes concurrent snapshot creation for the same content": without crashes a content
\* is made once, however many processes want it, and whatever is rolled back meanwhile.
OneSnapshotPerContent == \A k \in Keys : runsOf[k] <= 1 + crashes

\* All or nothing: a build that goes on to its metadata has every builder's snapshot, and
\* one that has failed leaves none that it made.
SnapshotsComplete == \A p \in Processes :
  /\ pc[p] = "write" /\ job[p].incremental =>
       \A k \in Names : snapshots[<<job[p].id, k>>] # None
  /\ EndedLast(p) /\ ~job[p].ok =>
       \A k \in job[p].committed : snapshots[<<job[p].id, k>>] = None

\* The snapshots of a build are made of the source that was built.
SnapshotsOfSource == \A p \in Processes :
  pc[p] = "write" /\ job[p].incremental =>
    \A k \in job[p].committed : snapshots[<<job[p].id, k>>].source = job[p].source

\* The snapshots of a build can be used: all of them, or none, and of one source.
SnapshotsAreSound == TypeOK /\ SnapshotsComplete /\ SnapshotsOfSource

\* Kept builders take no space once a build has failed or has made its snapshots; the
\* others stay for the sidecar.
NoBuildersLeft == \A p \in Processes :
  EndedLast(p) /\ job[p].image # 0 => \A k \in Names :
    preserved[<<job[p].id, k>>] = None <=> job[p].incremental \/ ~job[p].ok

\* Every build ends, also when others fail or die while they hold its locks.
BuildsEnd == \A p \in Processes : pc[p] # "idle" ~> pc[p] = "idle"

\* "Build cache is up-to-date. Skipping target build.": the outputs of a build that has
\* succeeded are those of the builder's image and of the inputs it was asked for.
OutputsAreFresh == \A p \in Processes :
  pc[p] = "write" => \A k \in Names :
    outputs[Out(p, k)].input = job[p].input /\ outputs[Out(p, k)].recipe = preserved[<<job[p].id, k>>].recipe

=============================================================================
