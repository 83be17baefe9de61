------------------------------- MODULE WorkDir -------------------------------
(***************************************************************************)
(* The work directory of one compose file: builds and runs by id, as       *)
(* oss-crs build-target, run, artifacts and clean use it at the same time  *)
(* (workdir.py, crs_compose.py, cli/artifacts.py, cli/clean.py).           *)
(*                                                                         *)
(* The directories of builds are numbers in the order get_latest_build_id  *)
(* scores them.  A run's directory has a name: the id a user types is      *)
(* normalized, which appends a hash, while a generated id is used as it    *)
(* is.  An artifact is the process whose CRSs submitted it.                *)
(***************************************************************************)
EXTENDS Installation

CONSTANTS
  MaxBuild,    \* bound: build directories
  Given,       \* the artifact a user gives as input
  Bases,       \* what ids are made of, one for the generated id of each process
  Scopes       \* harnesses

VARIABLES
  builds,    \* the build directories, with their outputs
  clock,     \* the last build id generated
  images,    \* the builds that have images tagged with their id
  runs,      \* the run directories
  build, name, sources,  \* each process's build, its run directory, and what it forwards
  answer,    \* what artifacts has printed, or archive collected
  doomed,    \* what a clean command has planned to remove
  started    \* history: the artifacts each run's CRSs found when they started

dirVars == <<builds, clock, images, runs>>
ownVars == <<build, name, sources, answer, doomed, started>>
workVars == <<dirVars, ownVars>>

BuildIds == 1 .. MaxBuild
Names == [base : Bases, hashed : BOOLEAN]
NoName == [base |-> NoProc, hashed |-> FALSE]

\* artifacts and archive always have an id: without --run-id an existing one is chosen.
ASSUME WorkDirAssumption ==
  /\ Procs \subseteq Bases /\ NoProc \notin Bases /\ MaxBuild \in Nat
  /\ \A c \in Commands :
       /\ c.run \in Names \union {NoName} /\ c.forward \in Names \union {NoName}
       /\ c.op \in {"artifacts", "archive"} => c.run # NoName
       /\ c.build \in 0 .. MaxBuild /\ c.scope \in Scopes
       /\ {c.given, c.required, c.processed} \subseteq BOOLEAN

Artifacts == Procs \union {Given}
ByScope(S) == [Scopes -> SUBSET S]
Nothing == [s \in Scopes |-> {}]

RunDirs == [build : 0 .. MaxBuild, scopes : SUBSET Scopes, submit : ByScope(Procs),
            exchange : ByScope(Artifacts), processed : ByScope(Artifacts)]
NewRunDir == [build |-> 0, scopes |-> {}, submit |-> Nothing, exchange |-> Nothing,
              processed |-> Nothing]
NoAnswer == [name |-> NoName, build |-> 0, files |-> {}]
NoPlan == [builds |-> {}, images |-> {}, failed |-> {}, runs |-> {}]
NotYet == {NoProc}

WorkTypeOK ==
  /\ builds \in [BuildIds -> {"none", "empty", "done"}]
  /\ clock \in 0 .. MaxBuild /\ images \subseteq BuildIds
  /\ DOMAIN runs \subseteq Names /\ \A n \in DOMAIN runs : runs[n] \in RunDirs
  /\ build \in [Procs -> 0 .. MaxBuild] /\ name \in [Procs -> Names \union {NoName}]
  /\ sources \in [Procs -> SUBSET [name : Names, scope : Scopes]]
  /\ \A p \in Procs : doomed[p].builds \subseteq BuildIds /\ doomed[p].runs \subseteq Names
                       /\ doomed[p].images \union doomed[p].failed \subseteq BuildIds
  /\ started \in [Procs -> (SUBSET Artifacts) \union {NotYet}]

WorkInit(done) ==
  /\ builds = [b \in BuildIds |-> IF b \in done THEN "done" ELSE "none"]
  /\ images = done /\ clock = Cardinality(done)
  /\ runs = [n \in {} |-> NewRunDir]
  /\ build = [p \in Procs |-> 0] /\ name = [p \in Procs |-> NoName]
  /\ sources = [p \in Procs |-> {}] /\ answer = [p \in Procs |-> NoAnswer]
  /\ doomed = [p \in Procs |-> NoPlan]
  /\ started = [p \in Procs |-> NotYet]

-----------------------------------------------------------------------------
(* Ids.                                                                     *)

\* normalize_run_id, which is idempotent.
Normal(typed) == [typed EXCEPT !.hashed = TRUE]

\* resolve_run_id: the exact name or else the normalized one, if there is a run of it.
Existing(typed) ==
  IF typed \in DOMAIN runs THEN typed
  ELSE IF Normal(typed) \in DOMAIN runs THEN Normal(typed) ELSE NoName

\* resolve_run_context: before a run it is the normalized one.
Resolved(typed) == IF Existing(typed) # NoName THEN Existing(typed) ELSE Normal(typed)

\* get_latest_build_id: a directory counts whatever is in it.
Latest ==
  IF \A b \in BuildIds : builds[b] = "none" THEN 0
  ELSE CHOOSE b \in BuildIds : builds[b] # "none"
                                /\ \A c \in BuildIds : builds[c] # "none" => c <= b

Generated(p) == [base |-> p, hashed |-> FALSE]
RunName(p) == IF plan[p].run = NoName THEN Generated(p) ELSE Normal(plan[p].run)

\* run and build-target choose their ids.
ResolveIds(p) ==
  LET given == plan[p].build IN
  /\ at[p] = "ready" /\ plan[p].op \in {"build", "run"}
  /\ name' = [name EXCEPT ![p] = IF plan[p].op = "run" THEN RunName(p) ELSE NoName]
  /\ build' = [build EXCEPT ![p] = IF given # 0 THEN given
                                   ELSE IF plan[p].op = "run" THEN Latest ELSE 0]
  /\ Goto(p, IF plan[p].op = "run" THEN "inputs" ELSE "build")
  /\ UNCHANGED <<dirVars, sources, answer, doomed, started>>

-----------------------------------------------------------------------------
(* Inputs.                                                                  *)

\* ForwardArtifactSource.source_dir_for: what the post-processors have left, if anything.
Forwardable(n, s) ==
  IF n \notin DOMAIN runs THEN {}
  ELSE IF runs[n].processed[s] # {} THEN runs[n].processed[s] ELSE runs[n].exchange[s]

\* _iter_forward_artifact_candidates.
Candidates(typed) ==
  { c \in [name : {typed, Normal(typed)}, scope : Scopes] : Forwardable(c.name, c.scope) # {} }

\* _validate_required_inputs
InputsPresent(p, chosen) ==
  plan[p].required =>
    plan[p].given \/ \E c \in chosen : Forwardable(c.name, c.scope) # {}

\* _resolve_forward_artifact_sources, which asks if there are several sources, and the check of
\* the required inputs.
ResolveSources(p) ==
  LET found == IF plan[p].forward = NoName THEN {} ELSE Candidates(plan[p].forward) IN
  /\ at[p] = "inputs"
  /\ \/ \E chosen \in IF plan[p].forward = NoName THEN {{}} ELSE { {c} : c \in found } :
          /\ sources' = [sources EXCEPT ![p] = chosen]
          /\ Goto(p, IF InputsPresent(p, chosen) THEN "check" ELSE "failed")
     \/ plan[p].forward # NoName /\ Cardinality(found) # 1 /\ GivesUp(p) /\ UNCHANGED sources
  /\ UNCHANGED <<dirVars, build, name, answer, doomed, started>>

-----------------------------------------------------------------------------
(* Builds.                                                                  *)

\* The declared outputs exist.
Complete(b) == builds[b] = "done"

\* __check_target_built, which makes the build directory.
CheckBuilt(p) ==
  LET b == build[p] IN
  /\ at[p] = "check"
  /\ IF b = 0 THEN Goto(p, "build") /\ UNCHANGED builds
     ELSE /\ Goto(p, IF Complete(b) THEN "record" ELSE "build")
          /\ builds' = IF builds[b] = "none" THEN [builds EXCEPT ![b] = "empty"] ELSE builds
  /\ UNCHANGED <<clock, images, runs, ownVars>>

\* build_target, see TargetBuild: the directory of a new id, or the one of a given id.
BuildStarts(p) ==
  LET b == IF build[p] = 0 THEN clock + 1 ELSE build[p] IN
  /\ at[p] = "build" /\ b <= MaxBuild
  /\ build' = [build EXCEPT ![p] = b]
  /\ clock' = IF b > clock THEN b ELSE clock
  /\ builds' = IF builds[b] = "none" THEN [builds EXCEPT ![b] = "empty"] ELSE builds
  /\ Goto(p, "building")
  /\ UNCHANGED <<images, runs, name, sources, answer, doomed, started>>
\* It fails, which it does if its directory was removed.
BuildFails(p) ==
  /\ at[p] = "building" /\ GivesUp(p)
  /\ UNCHANGED <<dirVars, ownVars>>
\* The images are kept under the build's id, and the outputs are in its directory.
BuildEnds(p) ==
  /\ at[p] = "building"
  /\ images' = images \union {build[p]}
  /\ builds' = IF builds[build[p]] = "none" THEN builds ELSE [builds EXCEPT ![build[p]] = "done"]
  /\ Goto(p, IF builds[build[p]] = "none" THEN "failed"
             ELSE IF plan[p].op = "run" THEN "record" ELSE "ended")
  /\ UNCHANGED <<clock, runs, ownVars>>

-----------------------------------------------------------------------------
(* A run.                                                                   *)

RunDir(n) == IF n \in DOMAIN runs THEN runs[n] ELSE NewRunDir
\* Writes the directory of p's run, making it if need be.
Write(p, dir) == runs' = [n \in DOMAIN runs \union {name[p]} |->
                            IF n = name[p] THEN dir ELSE runs[n]]

\* MUTANT of RecordBuild: the first run of an id records its build.
RecordBuildOnce(p) ==
  /\ at[p] = "record"
  /\ Write(p, IF RunDir(name[p]).build # 0 THEN RunDir(name[p])
              ELSE [RunDir(name[p]) EXCEPT !.build = build[p]])
  /\ Goto(p, "clear")
  /\ UNCHANGED <<builds, clock, images, ownVars>>
\* write_build_id_for_run
RecordBuild(p) ==
  /\ at[p] = "record"
  /\ Write(p, [RunDir(name[p]) EXCEPT !.build = build[p]])
  /\ Goto(p, "clear")
  /\ UNCHANGED <<builds, clock, images, ownVars>>

\* MUTANT of ClearExchange: it is made only.
MakeExchange(p) ==
  /\ at[p] = "clear"
  /\ Write(p, [RunDir(name[p]) EXCEPT !.scopes = @ \union {plan[p].scope}])
  /\ Goto(p, "copy")
  /\ UNCHANGED <<builds, clock, images, ownVars>>
\* cleanup_exchange_dir; the directories of earlier submissions and of processed artifacts stay.
ClearExchange(p) ==
  /\ at[p] = "clear"
  /\ Write(p, [RunDir(name[p]) EXCEPT !.scopes = @ \union {plan[p].scope},
                                      !.exchange[plan[p].scope] = {}])
  /\ Goto(p, "copy")
  /\ UNCHANGED <<builds, clock, images, ownVars>>

\* What its sources have by now.
Forwarded(p) == UNION { Forwardable(c.name, c.scope) : c \in sources[p] }

\* _copy_forward_artifact_sources, which skips what has gone, and copy_artifact_inputs.
CopyInputs(p) ==
  LET inputs == Forwarded(p) \union (IF plan[p].given THEN {Given} ELSE {}) IN
  /\ at[p] = "copy"
  /\ Write(p, [RunDir(name[p]) EXCEPT !.scopes = @ \union {plan[p].scope},
                                      !.exchange[plan[p].scope] = @ \union inputs])
  /\ Goto(p, "start")
  /\ UNCHANGED <<builds, clock, images, ownVars>>

\* The CRSs start.
Start(p) ==
  /\ at[p] = "start"
  /\ started' = [started EXCEPT ![p] = RunDir(name[p]).exchange[plan[p].scope]]
  /\ Goto(p, "up")
  /\ UNCHANGED <<dirVars, build, name, sources, answer, doomed>>

\* A CRS submits, the exchange sidecar copies all that was submitted, and a post-processor the
\* compose file may have works on what is exchanged.
Share(p) ==
  LET dir == RunDir(name[p])
      s == plan[p].scope
      shared == dir.exchange[s] \union dir.submit[s] \union {p} IN
  /\ at[p] = "up"
  /\ Write(p, [dir EXCEPT !.submit[s] = @ \union {p}, !.exchange[s] = shared,
                          !.processed[s] = IF plan[p].processed THEN @ \union shared ELSE @])
  /\ Goto(p, "shared")
  /\ UNCHANGED <<builds, clock, images, ownVars>>
Finish(p) ==
  /\ at[p] \in {"up", "shared"} /\ Ends(p)
  /\ UNCHANGED <<dirVars, ownVars>>

-----------------------------------------------------------------------------
(* artifacts, archive and clean.                                            *)

\* handle_artifacts, with the run's recorded build, or else the latest.
PrintArtifacts(p) ==
  LET n == Resolved(plan[p].run) IN
  /\ at[p] = "ready" /\ plan[p].op = "artifacts"
  /\ answer' = [answer EXCEPT ![p] = [name |-> n, files |-> {},
                  build |-> IF RunDir(n).build # 0 THEN RunDir(n).build ELSE Latest]]
  /\ Ends(p)
  /\ UNCHANGED <<dirVars, build, name, sources, doomed, started>>
\* handle_archive: what the CRSs have submitted under the harness; without it there is no file.
Archive(p) ==
  LET n == Resolved(plan[p].run)
      files == RunDir(n).submit[plan[p].scope] IN
  /\ at[p] = "ready" /\ plan[p].op = "archive"
  /\ answer' = [answer EXCEPT ![p] = [name |-> n, files |-> files, build |-> 0]]
  /\ IF files = {} THEN GivesUp(p) ELSE Ends(p)
  /\ UNCHANGED <<dirVars, build, name, sources, doomed, started>>

Present == { b \in BuildIds : builds[b] # "none" }
\* discover_build_target_images: images are found by the ids of the build directories.
FoundImages == images \cap Present

\* What clean build-target or clean run finds, with --artifacts.
Found(p) == IF plan[p].op = "clean-build"
            THEN [NoPlan EXCEPT !.builds = Present, !.images = FoundImages]
            ELSE [NoPlan EXCEPT !.runs = DOMAIN runs]

\* MUTANT of PlanClean: the directories of builds go first.
PlanCleanDirs(p) ==
  /\ at[p] = "ready" /\ plan[p].op \in {"clean-build", "clean-run"}
  /\ doomed' = [doomed EXCEPT ![p] = Found(p)]
  /\ builds' = [b \in BuildIds |-> IF b \in Found(p).builds THEN "none" ELSE builds[b]]
  /\ Goto(p, "images")
  /\ UNCHANGED <<clock, images, runs, build, name, sources, answer, started>>
\* handle_clean and build_clean_plan; the user confirms.
PlanClean(p) ==
  /\ at[p] = "ready" /\ plan[p].op \in {"clean-build", "clean-run"}
  /\ doomed' = [doomed EXCEPT ![p] = Found(p)]
  /\ Goto(p, "images")
  /\ UNCHANGED <<dirVars, build, name, sources, answer, started>>
\* execute_clean_plan: images, then directories.
CleanImages(p) ==
  /\ at[p] = "images"
  /\ \E b \in doomed[p].images :
       /\ images' = images \ {b}
       /\ doomed' = [doomed EXCEPT ![p].images = @ \ {b}]
  /\ UNCHANGED <<builds, clock, runs, build, name, sources, answer, started, ctlVars>>
\* An image that is not removed is reported in the end, and does not keep the directories.
CleanImageFails(p) ==
  /\ at[p] = "images" /\ Fails
  /\ \E b \in doomed[p].images :
       doomed' = [doomed EXCEPT ![p].images = @ \ {b}, ![p].failed = @ \union {b}]
  /\ UNCHANGED <<dirVars, build, name, sources, answer, started, ctlVars>>
CleanDirs(p) ==
  /\ at[p] = "images" /\ doomed[p].images = {}
  /\ builds' = [b \in BuildIds |-> IF b \in doomed[p].builds THEN "none" ELSE builds[b]]
  /\ Goto(p, "runs")
  /\ UNCHANGED <<clock, images, runs, ownVars>>
CleanRuns(p) ==
  /\ at[p] = "runs"
  /\ runs' = [n \in DOMAIN runs \ doomed[p].runs |-> runs[n]]
  /\ Ends(p)
  /\ UNCHANGED <<builds, clock, images, ownVars>>

WorkStep(p) ==
  \/ ResolveIds(p) \/ ResolveSources(p)
  \/ CheckBuilt(p) \/ BuildStarts(p) \/ BuildFails(p) \/ BuildEnds(p)
  \/ RecordBuild(p) \/ ClearExchange(p) \/ CopyInputs(p) \/ Start(p) \/ Share(p) \/ Finish(p)
  \/ PrintArtifacts(p) \/ Archive(p) \/ PlanClean(p) \/ CleanImages(p) \/ CleanDirs(p) \/ CleanRuns(p)

=============================================================================
