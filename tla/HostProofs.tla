------------------------------- MODULE HostProofs -------------------------------
(***************************************************************************)
(* Theorems about Host for any processes, commands, builds and versions:   *)
(* what commands that overlap find in the clone and in the work directory, *)
(* and what their bundles, runs and answers are worth.                     *)
(***************************************************************************)
EXTENDS Host, FiniteSetTheorems, WellFoundedInduction, TLAPS

Over == {"ended", "failed", "killed"}
Early == {"idle", "lock", "git", "tree", "ready"}
OfRun == {"inputs", "check", "record", "clear", "copy", "start", "up", "shared"}
Steps == Early \union OfRun \union Over
           \union {"bake", "runner", "tar", "source", "load", "remove", "move",
                   "build", "building", "images", "runs"}

\* Which command is at which step.
StepInv(p) ==
  /\ at[p] \in {"lock", "git", "tree"} => ~plan[p].local /\ Op(p) # "import"
  /\ Op(p) = "none" => at[p] \in Over
  /\ at[p] \in {"tar", "source"} => Op(p) = "export"
  /\ at[p] \in {"bake", "runner"} => Op(p) = "prepare"
  /\ at[p] \in {"load", "remove", "move"} => Op(p) = "import"
  /\ at[p] \in {"build", "building"} => Op(p) \in {"build", "run"}
  /\ at[p] \in OfRun => Op(p) = "run"
  /\ at[p] \in {"images", "runs"} => Op(p) \in {"clean-build", "clean-run"}

\* What a command has chosen by then.
OwnInv(p) ==
  /\ at[p] \in Early => build[p] = 0 /\ name[p] = NoName /\ doomed[p] = NoPlan
  /\ name[p] # NoName => Op(p) = "run" /\ name[p] = RunName(p)
  /\ at[p] \in OfRun \/ (at[p] \in {"build", "building"} /\ Op(p) = "run") =>
       name[p] = RunName(p)
  /\ at[p] \in {"building", "record", "clear", "copy", "start", "up", "shared"} =>
       build[p] \in BuildIds
  /\ doomed[p].builds # {} => Op(p) = "clean-build"
  /\ doomed[p].runs # {} => Op(p) = "clean-run"

\* The processes that had ended when p began have ended.
PastInv(p) ==
  /\ at[p] = "idle" => past[p] = {}
  /\ p \notin past[p]
  /\ \A q \in past[p] : at[q] \in Over

Answers == [name : Names \union {NoName}, build : 0 .. MaxBuild, files : SUBSET Procs]
Plans == [builds : SUBSET BuildIds, images : SUBSET BuildIds, failed : SUBSET BuildIds,
          runs : SUBSET Names]
TypeInv ==
  /\ TypeOK
  /\ at \in [Procs -> Steps] /\ answer \in [Procs -> Answers] /\ doomed \in [Procs -> Plans]

CtlInv ==
  /\ TypeInv
  /\ \A p \in Procs : StepInv(p) /\ OwnInv(p) /\ PastInv(p)

\* What a command is made of.
LEMMA CommandFacts ==
  ASSUME TypeInv, NEW p \in Procs
  PROVE  /\ plan[p] \in Commands /\ plan[p].local \in BOOLEAN
         /\ plan[p].run \in Names \union {NoName} /\ plan[p].forward \in Names \union {NoName}
         /\ plan[p].build \in 0 .. MaxBuild /\ plan[p].scope \in Scopes
         /\ plan[p].given \in BOOLEAN
         /\ Op(p) \in {"artifacts", "archive"} => plan[p].run \in Names
         /\ NoName \notin Names /\ Generated(p) \in Names /\ RunName(p) \in Names
         /\ \A n \in Names : Normal(n) \in Names /\ Normal(n).hashed
<1>1. plan[p] \in Commands
  BY DEF TypeInv, TypeOK, InstTypeOK
<1>2. /\ plan[p].local \in BOOLEAN
      /\ plan[p].run \in Names \union {NoName} /\ plan[p].forward \in Names \union {NoName}
      /\ plan[p].build \in 0 .. MaxBuild /\ plan[p].scope \in Scopes
      /\ plan[p].given \in BOOLEAN
      /\ Op(p) \in {"artifacts", "archive"} => plan[p].run # NoName
  BY <1>1, InstallationAssumption, WorkDirAssumption DEF Op
<1>3. NoName \notin Names /\ Generated(p) \in Names
  BY WorkDirAssumption DEF NoName, Names, Generated
<1>4. \A n \in Names : Normal(n) \in Names /\ Normal(n).hashed
  BY DEF Names, Normal
<1>5. RunName(p) \in Names
  BY <1>2, <1>3, <1>4 DEF RunName
<1> QED
  BY <1>1, <1>2, <1>3, <1>4, <1>5

-----------------------------------------------------------------------------
(* What the steps of a process leave alone.                                 *)

\* A step of p moves p on; what is another process's stays.
Effects(p) ==
  /\ at[p] \notin Over /\ at' \in [Procs -> Steps] /\ at'[p] # "idle"
  /\ plan' = plan /\ upstream' = upstream
  /\ past'[p] = IF at[p] = "idle" THEN {q \in Procs : at[q] # "idle" /\ ~Active(q)} ELSE past[p]
  /\ at[p] # "idle" => seen'[p] = seen[p]
  /\ \A q \in Procs \ {p} :
       /\ at'[q] = at[q] /\ past'[q] = past[q] /\ seen'[q] = seen[q] /\ staged'[q] = staged[q]
       /\ build'[q] = build[q] /\ name'[q] = name[q] /\ sources'[q] = sources[q]
       /\ answer'[q] = answer[q] /\ doomed'[q] = doomed[q] /\ started'[q] = started[q]

\* The steps of the clone and of bundles leave the work directory alone.
LEMMA InstEffects ==
  ASSUME TypeInv, NEW p \in Procs, Begin(p) \/ InstStep(p), UNCHANGED workVars
  PROVE  Effects(p)
<1> USE DEF TypeInv, TypeOK, InstTypeOK, WorkTypeOK, Goto, Ends, GivesUp, Over, Active
<1>1. /\ \A q \in Procs \ {p} :
           /\ build'[q] = build[q] /\ name'[q] = name[q] /\ sources'[q] = sources[q]
           /\ answer'[q] = answer[q] /\ doomed'[q] = doomed[q] /\ started'[q] = started[q]
  BY DEF workVars, ownVars
<1> DEFINE Moves(t) == /\ at[p] \notin Over /\ at' = [at EXCEPT ![p] = t] /\ plan' = plan
                       /\ upstream' = upstream /\ t # "idle" /\ t \in Steps
<1>2. CASE Begin(p)
  <2>1. \E t \in {"ready", "lock"} : Moves(t)
    BY <1>2 DEF Begin, Steps, Early
  <2>2. /\ past'[p] = {q \in Procs : at[q] # "idle" /\ ~Active(q)} /\ at[p] = "idle"
        /\ staged' = staged
        /\ \A q \in Procs \ {p} : past'[q] = past[q] /\ seen'[q] = seen[q]
    BY <1>2 DEF Begin
  <2> QED
    BY <1>1, <2>1, <2>2 DEF Effects
<1>3. ASSUME InstStep(p)
      PROVE  /\ at[p] # "idle" /\ past' = past /\ seen' = seen
             /\ \A q \in Procs \ {p} : staged'[q] = staged[q]
             /\ \E t \in Steps : Moves(t)
  <2> USE DEF Steps, Early
  <2>1. CASE InitRepoStep(p)
    BY <2>1 DEF InitRepoStep, Lock, GitStarts, GitFails, GitEnds
  <2>2. CASE PrepareStep(p)
    BY <2>2 DEF PrepareStep, PrepareInfra, Bake, BuildRunner
  <2>3. CASE SaveImages(p) \/ StartTar(p) \/ SaveSource(p)
    BY <2>3 DEF SaveImages, StartTar, SaveSource
  <2>4. CASE Extract(p) \/ LoadImages(p)
    BY <2>4 DEF Extract, LoadImages
  <2>5. CASE RemoveSource(p) \/ MoveSource(p) \/ RemoveImages(p)
    BY <2>5 DEF RemoveSource, MoveSource, RemoveImages
  <2> QED
    BY <1>3, <2>1, <2>2, <2>3, <2>4, <2>5 DEF InstStep
<1>4. CASE InstStep(p)
  BY <1>1, <1>3, <1>4 DEF Effects
<1> QED
  BY <1>2, <1>4

\* The steps in the work directory leave the clone and the bundles alone.
LEMMA WorkEffects ==
  ASSUME TypeInv, NEW p \in Procs, WorkStep(p) \/ CleanImageFails(p),
         UNCHANGED <<upstream, repo, holder, infra, image, runner, bundle, staged, seen, past>>
  PROVE  Effects(p)
<1> DEFINE Own == \A q \in Procs \ {p} :
                    /\ build'[q] = build[q] /\ name'[q] = name[q] /\ sources'[q] = sources[q]
                    /\ answer'[q] = answer[q] /\ doomed'[q] = doomed[q]
                    /\ started'[q] = started[q]
           Moves(t) == /\ at[p] \notin Over \union {"idle"} /\ at' = [at EXCEPT ![p] = t]
                       /\ plan' = plan /\ t # "idle"
           Goal == Own /\ \E t \in Steps : Moves(t)
<1> USE DEF Goto, Ends, GivesUp, Over, ownVars, Steps, Early, OfRun
<1>0. /\ at \in [Procs -> Steps] /\ build \in [Procs -> 0 .. MaxBuild]
      /\ name \in [Procs -> Names \union {NoName}] /\ answer \in [Procs -> Answers]
      /\ sources \in [Procs -> SUBSET [name : Names, scope : Scopes]]
      /\ doomed \in [Procs -> Plans]
      /\ started \in [Procs -> (SUBSET Artifacts) \union {NotYet}]
  BY DEF TypeInv, TypeOK, WorkTypeOK
<1>1. CheckBuilt(p) => Goal
  BY <1>0 DEF CheckBuilt
<1>2. BuildFails(p) => Goal
  BY <1>0 DEF BuildFails
<1>3. BuildEnds(p) => Goal
  BY <1>0 DEF BuildEnds
<1>4. RecordBuild(p) => Goal
  BY <1>0 DEF RecordBuild
<1>5. ClearExchange(p) => Goal
  BY <1>0 DEF ClearExchange
<1>6. CopyInputs(p) => Goal
  BY <1>0 DEF CopyInputs
<1>7. Share(p) => Goal
  BY <1>0 DEF Share
<1>8. Finish(p) => Goal
  BY <1>0 DEF Finish
<1>9. CleanDirs(p) => Goal
  BY <1>0 DEF CleanDirs
<1>10. CleanRuns(p) => Goal
  BY <1>0 DEF CleanRuns
<1>11. ResolveIds(p) => Goal
  BY <1>0 DEF ResolveIds
<1>12. ResolveSources(p) => Goal
  BY <1>0 DEF ResolveSources
<1>13. BuildStarts(p) => Goal
  BY <1>0 DEF BuildStarts
<1>14. Start(p) => Goal
  BY <1>0 DEF Start
<1>15. PrintArtifacts(p) => Goal
  BY <1>0 DEF PrintArtifacts
<1>16. Archive(p) => Goal
  BY <1>0 DEF Archive
<1>17. PlanClean(p) => Goal
  BY <1>0 DEF PlanClean
<1>18. CleanImages(p) => Goal
  <2>1. [at EXCEPT ![p] = at[p]] = at
    BY <1>0
  <2>2. CleanImages(p) => Own /\ at[p] = "images" /\ at' = at /\ plan' = plan
    BY <1>0 DEF CleanImages, ctlVars
  <2> QED
    BY <2>1, <2>2
<1>19. CleanImageFails(p) => Goal
  <2>1. [at EXCEPT ![p] = at[p]] = at
    BY <1>0
  <2>2. CleanImageFails(p) => Own /\ at[p] = "images" /\ at' = at /\ plan' = plan
    BY <1>0 DEF CleanImageFails, ctlVars
  <2> QED
    BY <2>1, <2>2
<1>20. Goal
  BY <1>1, <1>2, <1>3, <1>4, <1>5, <1>6, <1>7, <1>8, <1>9, <1>10,
     <1>11, <1>12, <1>13, <1>14, <1>15, <1>16, <1>17, <1>18, <1>19 DEF WorkStep
<1> HIDE DEF Steps, Early, OfRun
<1> QED
  BY <1>0, <1>20 DEF Effects

\* The types of the clone and of bundles.
LEMMA InstKeepsTypes ==
  ASSUME TypeInv, NEW p \in Procs, Begin(p) \/ InstStep(p)
  PROVE  InstTypeOK'
<1> USE DEF InstTypeOK, Repos, Bundles
<1>0. /\ InstTypeOK /\ MaxVersion \in Nat \ {0} /\ MaxErrors \in Nat
      /\ Read \in Images /\ \A v \in 0 .. MaxVersion : v \in Images
      /\ 0 \in Images /\ 0 \in 0 .. 1 /\ 1 \in 0 .. 1
      /\ at \in [Procs -> Steps]
  BY InstallationAssumption
     DEF TypeInv, TypeOK, Read, Images, Mixed, Versions
<1>00. NoRepo \in Repos /\ NoBundle \in Bundles /\ TornBundle \in Bundles
  BY <1>0 DEF NoRepo, NoBundle, TornBundle
<1>1. Begin(p) => InstTypeOK'
  BY <1>0, <1>00 DEF Begin, Goto, Ends, GivesUp, Fails, NoRepo, Versions
<1>2. Lock(p) => InstTypeOK'
  BY <1>0, <1>00 DEF Lock, Goto, Ends, GivesUp, Fails, NoRepo, Versions
<1>3. GitStarts(p) => InstTypeOK'
  BY <1>0, <1>00 DEF GitStarts, Goto, Ends, GivesUp, Fails, NoRepo, Versions
<1>4. GitFails(p) => InstTypeOK'
  BY <1>0, <1>00 DEF GitFails, Goto, Ends, GivesUp, Fails, NoRepo, Versions
<1>5. GitEnds(p) => InstTypeOK'
  BY SMTT(30), <1>0, <1>00 DEF GitEnds, Goto, Ends, GivesUp, Fails, NoRepo, Versions
<1>6. PrepareInfra(p) => InstTypeOK'
  BY <1>0, <1>00 DEF PrepareInfra, Goto, Ends, GivesUp, Fails, NoRepo, Versions
<1>7. Bake(p) => InstTypeOK'
  BY <1>0, <1>00 DEF Bake, Goto, Ends, GivesUp, Fails, NoRepo, Versions
<1>8. BuildRunner(p) => InstTypeOK'
  BY <1>0, <1>00 DEF BuildRunner, Goto, Ends, GivesUp, Fails, NoRepo, Versions
<1>9. SaveImages(p) => InstTypeOK'
  BY <1>0, <1>00 DEF SaveImages, Goto, Ends, GivesUp, Fails, NoRepo, Versions
<1>10. StartTar(p) => InstTypeOK'
  BY <1>0, <1>00 DEF StartTar, Goto, Ends, GivesUp, Fails, NoRepo, Versions
<1>11. SaveSource(p) => InstTypeOK'
  <2>1. staged[p] \in Bundles /\ repo \in Repos
    BY <1>0
  <2>2. [staged[p] EXCEPT !.source = repo] \in Bundles
    BY <2>1
  <2> QED
    BY <1>0, <2>2 DEF SaveSource, Goto, Ends
<1>12. Extract(p) => InstTypeOK'
  BY <1>0, <1>00 DEF Extract, Goto, Ends, GivesUp, Fails, NoRepo, Versions
<1>13. LoadImages(p) => InstTypeOK'
  BY <1>0, <1>00 DEF LoadImages, Goto, Ends, GivesUp, Fails, NoRepo, Versions
<1>14. RemoveSource(p) => InstTypeOK'
  BY <1>0, <1>00 DEF RemoveSource, Goto, Ends, GivesUp, Fails, NoRepo, Versions
<1>15. MoveSource(p) => InstTypeOK'
  BY SMTT(30), <1>0, <1>00 DEF MoveSource, Goto, Ends, GivesUp, Fails, NoRepo, Versions
<1>16. RemoveImages(p) => InstTypeOK'
  BY <1>0, <1>00 DEF RemoveImages, Goto, Ends, GivesUp, Fails, NoRepo, Versions
<1> QED
  BY <1>1, <1>2, <1>3, <1>4, <1>5, <1>6, <1>7, <1>8,
     <1>9, <1>10, <1>11, <1>12, <1>13, <1>14, <1>15, <1>16
     DEF InstStep, InitRepoStep, PrepareStep

\* What the operators of WorkDir return.
LEMMA WorkDirFacts ==
  ASSUME TypeInv
  PROVE  /\ NewRunDir \in RunDirs /\ \A n : RunDir(n) \in RunDirs
         /\ Latest \in 0 .. MaxBuild
         /\ \A n \in Names : Existing(n) \in Names \union {NoName} /\ Resolved(n) \in Names
         /\ \A n, s : s \in Scopes => Forwardable(n, s) \subseteq Artifacts
<1>0. WorkTypeOK /\ MaxBuild \in Nat
  BY WorkDirAssumption DEF TypeInv, TypeOK
<1>1. NewRunDir \in RunDirs
  BY <1>0 DEF NewRunDir, RunDirs, ByScope, Nothing
<1>2. \A n : RunDir(n) \in RunDirs
  BY <1>0, <1>1 DEF RunDir, WorkTypeOK
<1>3. Latest \in 0 .. MaxBuild
  <2>1. CASE \A b \in BuildIds : builds[b] = "none"
    BY <1>0, <2>1 DEF Latest
  <2>2. CASE ~ \A b \in BuildIds : builds[b] = "none"
    <3>1. \E b \in BuildIds : /\ builds[b] # "none"
                              /\ \A c \in BuildIds : builds[c] # "none" => c <= b
      <4> DEFINE P == {b \in BuildIds : builds[b] # "none"}
      <4>1. P # {} /\ P \subseteq Int /\ \A b \in P : b <= MaxBuild
        BY <1>0, <2>2 DEF BuildIds
      <4> DEFINE D == {MaxBuild - b : b \in P}
      <4>2. D # {} /\ D \subseteq Nat
        BY <1>0, <4>1 DEF BuildIds
      <4> HIDE DEF P
      <4>3. PICK d \in D : \A e \in D : <<e, d>> \notin OpToRel(<, Nat)
        BY <4>2, NatLessThanWellFounded, WFMin
      <4>4. \A e \in D : ~(e < d)
        BY <4>2, <4>3 DEF OpToRel
      <4>5. PICK b \in P : d = MaxBuild - b
        OBVIOUS
      <4>6. \A c \in P : c <= b
        <5> SUFFICES ASSUME NEW c \in P PROVE c <= b
          OBVIOUS
        <5>1. MaxBuild - c \in D /\ c \in Int /\ b \in Int
          BY <4>1
        <5> HIDE DEF D
        <5> QED
          BY <1>0, <4>4, <4>5, <5>1
      <4> QED
        BY <4>6 DEF P
    <3>2. Latest \in BuildIds
      BY <2>2, <3>1 DEF Latest
    <3> QED
      BY <1>0, <3>2 DEF BuildIds
  <2> QED
    BY <2>1, <2>2
<1>4. \A n \in Names : Existing(n) \in Names \union {NoName} /\ Resolved(n) \in Names
  <2>1. \A n \in Names : Normal(n) \in Names
    BY DEF Names, Normal
  <2> QED
    BY <1>0, <2>1 DEF Existing, Resolved
<1>5. \A n, s : s \in Scopes => Forwardable(n, s) \subseteq Artifacts
  BY <1>0 DEF Forwardable, WorkTypeOK, RunDirs, ByScope
<1> QED
  BY <1>1, <1>2, <1>3, <1>4, <1>5

\* Writing the directory of a run changes it and no other.
LEMMA WriteFacts ==
  ASSUME TypeInv, NEW p \in Procs, name[p] \in Names, NEW dir \in RunDirs, Write(p, dir)
  PROVE  /\ DOMAIN runs' = DOMAIN runs \union {name[p]} /\ runs'[name[p]] = dir
         /\ \A n \in DOMAIN runs : n # name[p] => runs'[n] = runs[n]
         /\ DOMAIN runs' \subseteq Names /\ \A n \in DOMAIN runs' : runs'[n] \in RunDirs
BY DEF TypeInv, TypeOK, WorkTypeOK, Write

\* The changes that a run makes to its directory.
LEMMA RunDirFacts ==
  ASSUME TypeInv, NEW d \in RunDirs, NEW s \in Scopes, NEW b \in 0 .. MaxBuild,
         NEW A \in SUBSET Artifacts, NEW q \in Procs
  PROVE  /\ [d EXCEPT !.build = b] \in RunDirs
         /\ [d EXCEPT !.scopes = @ \union {s}, !.exchange[s] = {}] \in RunDirs
         /\ [d EXCEPT !.scopes = @ \union {s}, !.exchange[s] = @ \union A] \in RunDirs
         /\ [d EXCEPT !.submit[s] = @ \union {q}, !.exchange[s] = A,
                      !.processed[s] = @ \union A] \in RunDirs
         /\ [d EXCEPT !.submit[s] = @ \union {q}, !.exchange[s] = A,
                      !.processed[s] = @] \in RunDirs
         /\ d.exchange[s] \union d.submit[s] \union {q} \subseteq Artifacts
<1> USE DEF RunDirs, ByScope, Artifacts
<1>1. /\ d.build \in 0 .. MaxBuild /\ d.scopes \in SUBSET Scopes
      /\ d.submit \in [Scopes -> SUBSET Procs] /\ d.exchange \in [Scopes -> SUBSET Artifacts]
      /\ d.processed \in [Scopes -> SUBSET Artifacts]
  OBVIOUS
<1>2. [d EXCEPT !.build = b] \in RunDirs
  OBVIOUS
<1>3. [d EXCEPT !.scopes = @ \union {s}, !.exchange[s] = {}] \in RunDirs
  BY <1>1
<1>4. [d EXCEPT !.scopes = @ \union {s}, !.exchange[s] = @ \union A] \in RunDirs
  BY <1>1
<1>5. [d EXCEPT !.submit[s] = @ \union {q}, !.exchange[s] = A,
                !.processed[s] = @ \union A] \in RunDirs
  BY <1>1
<1>6. [d EXCEPT !.submit[s] = @ \union {q}, !.exchange[s] = A, !.processed[s] = @] \in RunDirs
  BY <1>1
<1>7. d.exchange[s] \union d.submit[s] \union {q} \subseteq Artifacts
  BY <1>1
<1> HIDE DEF RunDirs, ByScope, Artifacts
<1> QED
  BY <1>2, <1>3, <1>4, <1>5, <1>6, <1>7

\* The types of the work directory.
LEMMA WorkKeepsTypes ==
  ASSUME TypeInv, NEW p \in Procs, OwnInv(p), StepInv(p), WorkStep(p) \/ CleanImageFails(p)
  PROVE  /\ WorkTypeOK' /\ answer' \in [Procs -> Answers] /\ doomed' \in [Procs -> Plans]
<1> DEFINE BuildsOK == /\ builds \in [BuildIds -> {"none", "empty", "done"}]
                       /\ clock \in 0 .. MaxBuild /\ images \subseteq BuildIds
           RunsOK == DOMAIN runs \subseteq Names /\ \A n \in DOMAIN runs : runs[n] \in RunDirs
           ChoicesOK == /\ build \in [Procs -> 0 .. MaxBuild]
                        /\ name \in [Procs -> Names \union {NoName}]
                        /\ sources \in [Procs -> SUBSET [name : Names, scope : Scopes]]
           DoomedOK == doomed \in [Procs -> Plans]
           AnswersOK == answer \in [Procs -> Answers]
           StartedOK == started \in [Procs -> (SUBSET Artifacts) \union {NotYet}]
           OwnOK == ChoicesOK /\ DoomedOK /\ AnswersOK /\ StartedOK
<1>1. BuildsOK /\ RunsOK /\ OwnOK /\ MaxBuild \in Nat
  BY WorkDirAssumption DEF TypeInv, TypeOK, WorkTypeOK
<1>2. /\ plan[p].scope \in Scopes /\ plan[p].build \in 0 .. MaxBuild /\ RunName(p) \in Names
      /\ plan[p].forward \in Names \union {NoName} /\ NoName \notin Names
      /\ Op(p) \in {"artifacts", "archive"} => plan[p].run \in Names
      /\ plan[p].given \in BOOLEAN /\ \A n \in Names : Normal(n) \in Names
  BY CommandFacts
<1>3. dirVars' = dirVars => BuildsOK' /\ RunsOK'
  BY <1>1 DEF dirVars
<1>4. ownVars' = ownVars => OwnOK'
  BY <1>1 DEF ownVars
<1>5. ResolveIds(p) => BuildsOK' /\ RunsOK' /\ OwnOK'
  BY <1>1, <1>2, <1>3, WorkDirFacts DEF ResolveIds
<1>6. ResolveSources(p) => BuildsOK' /\ RunsOK' /\ OwnOK'
  <2>1. ASSUME NEW chosen, sources' = [sources EXCEPT ![p] = chosen],
               chosen \subseteq IF plan[p].forward = NoName THEN {} ELSE Candidates(plan[p].forward)
        PROVE  sources' \in [Procs -> SUBSET [name : Names, scope : Scopes]]
    <3>1. chosen \in SUBSET [name : Names, scope : Scopes]
      BY <1>2, <2>1 DEF Candidates
    <3> QED
      BY <1>1, <2>1, <3>1
  <2>2. ASSUME ResolveSources(p)
        PROVE  \/ sources' = sources
               \/ \E chosen : /\ sources' = [sources EXCEPT ![p] = chosen]
                              /\ chosen \subseteq IF plan[p].forward = NoName THEN {}
                                                  ELSE Candidates(plan[p].forward)
    <3>1. CASE plan[p].forward = NoName
      BY <2>2, <3>1 DEF ResolveSources
    <3>2. CASE plan[p].forward # NoName
      <4> HIDE DEF BuildsOK, RunsOK, ChoicesOK, DoomedOK, AnswersOK, StartedOK, OwnOK
      <4>1. \/ sources' = sources
            \/ \E chosen \in { {c} : c \in Candidates(plan[p].forward) } :
                 sources' = [sources EXCEPT ![p] = chosen]
        BY <2>2, <3>2 DEF ResolveSources
      <4>2. \A chosen \in { {c} : c \in Candidates(plan[p].forward) } :
              chosen \subseteq Candidates(plan[p].forward)
        OBVIOUS
      <4> QED
        BY <3>2, <4>1, <4>2
    <3> QED
      BY <3>1, <3>2
  <2>3. ResolveSources(p) => /\ dirVars' = dirVars /\ build' = build /\ name' = name
                             /\ answer' = answer /\ doomed' = doomed /\ started' = started
    BY DEF ResolveSources
  <2> QED
    BY <1>1, <1>3, <2>1, <2>2, <2>3
<1>7. CheckBuilt(p) => BuildsOK' /\ RunsOK' /\ OwnOK'
  BY <1>1, <1>4 DEF CheckBuilt
<1>8. BuildStarts(p) => BuildsOK' /\ RunsOK' /\ OwnOK'
  <2>1. ASSUME BuildStarts(p) PROVE BuildsOK' /\ RunsOK' /\ OwnOK'
    <3>1. PICK b \in 1 .. MaxBuild :
            /\ build' = [build EXCEPT ![p] = b] /\ clock' = IF b > clock THEN b ELSE clock
            /\ builds' = IF builds[b] = "none" THEN [builds EXCEPT ![b] = "empty"] ELSE builds
      <4> DEFINE b == IF build[p] = 0 THEN clock + 1 ELSE build[p]
      <4>1. build[p] \in 0 .. MaxBuild /\ clock \in 0 .. MaxBuild /\ b <= MaxBuild
        BY <1>1, <2>1 DEF BuildStarts
      <4>2. b \in 1 .. MaxBuild
        BY <1>1, <4>1
      <4>3. /\ build' = [build EXCEPT ![p] = b] /\ clock' = IF b > clock THEN b ELSE clock
            /\ builds' = IF builds[b] = "none" THEN [builds EXCEPT ![b] = "empty"] ELSE builds
        BY <2>1 DEF BuildStarts
      <4> HIDE DEF b
      <4> QED
        BY <4>2, <4>3
    <3>2. BuildsOK' /\ build' \in [Procs -> 0 .. MaxBuild]
      BY <1>1, <2>1, <3>1 DEF BuildStarts, BuildIds
    <3> QED
      BY <1>1, <2>1, <3>2 DEF BuildStarts
  <2> QED
    BY <2>1
<1>9. BuildFails(p) \/ Finish(p) => BuildsOK' /\ RunsOK' /\ OwnOK'
  BY <1>3, <1>4 DEF BuildFails, Finish
<1>10. BuildEnds(p) => BuildsOK' /\ RunsOK' /\ OwnOK'
  <2>1. at[p] = "building" => build[p] \in BuildIds
    BY DEF OwnInv
  <2> QED
    BY <1>1, <1>4, <2>1 DEF BuildEnds
<1>11. ASSUME RecordBuild(p) \/ ClearExchange(p) \/ CopyInputs(p) \/ Share(p)
       PROVE  BuildsOK' /\ RunsOK' /\ OwnOK'
  <2>1. /\ name[p] \in Names /\ RunDir(name[p]) \in RunDirs /\ build[p] \in 0 .. MaxBuild
        /\ UNCHANGED <<builds, clock, images, ownVars>>
    BY <1>1, <1>2, <1>11, WorkDirFacts
       DEF RecordBuild, ClearExchange, CopyInputs, Share, OwnInv, OfRun
  <2>2. \E dir \in RunDirs : Write(p, dir)
    <3>1. CASE RecordBuild(p)
      BY <1>2, <2>1, <3>1, RunDirFacts DEF RecordBuild
    <3>2. CASE ClearExchange(p)
      BY <1>2, <2>1, <3>2, RunDirFacts DEF ClearExchange
    <3>3. CASE CopyInputs(p)
      <4>1. Forwarded(p) \union (IF plan[p].given THEN {Given} ELSE {}) \in SUBSET Artifacts
        <5>1. \A c \in sources[p] : Forwardable(c.name, c.scope) \subseteq Artifacts
          BY <1>1, WorkDirFacts
        <5> QED
          BY <5>1 DEF Forwarded, Artifacts
      <4> HIDE DEF BuildsOK, RunsOK, OwnOK
      <4> QED
        BY <1>2, <2>1, <3>3, <4>1, RunDirFacts DEF CopyInputs
    <3>4. CASE Share(p)
      <4> DEFINE dir == RunDir(name[p])
                 sc == plan[p].scope
                 shared == dir.exchange[sc] \union dir.submit[sc] \union {p}
      <4>1. Write(p, [dir EXCEPT !.submit[sc] = @ \union {p}, !.exchange[sc] = shared,
                        !.processed[sc] = IF plan[p].processed THEN @ \union shared ELSE @])
        BY <3>4 DEF Share
      <4>2. plan[p].processed \in BOOLEAN
        <5>1. plan[p] \in Commands
          BY CommandFacts
        <5> QED
          BY <5>1, WorkDirAssumption
      <4>3. shared \in SUBSET Artifacts
        <5>1. dir \in RunDirs /\ sc \in Scopes
          BY <1>2, <2>1
        <5> QED
          BY <5>1 DEF RunDirs, ByScope, Artifacts
      <4> HIDE DEF BuildsOK, RunsOK, OwnOK, shared, dir, sc
      <4>4. dir \in RunDirs /\ sc \in Scopes
        BY <1>2, <2>1 DEF dir, sc
      <4>5. [dir EXCEPT !.submit[sc] = @ \union {p}, !.exchange[sc] = shared,
               !.processed[sc] = IF plan[p].processed THEN @ \union shared ELSE @] \in RunDirs
        <5>1. 0 \in 0 .. MaxBuild
          BY <1>1
        <5>2. /\ [dir EXCEPT !.submit[sc] = @ \union {p}, !.exchange[sc] = shared,
                             !.processed[sc] = @ \union shared] \in RunDirs
              /\ [dir EXCEPT !.submit[sc] = @ \union {p}, !.exchange[sc] = shared,
                             !.processed[sc] = @] \in RunDirs
          BY <4>3, <4>4, <5>1, RunDirFacts
        <5> QED
          BY <4>2, <5>2
      <4> QED
        BY <4>1, <4>5
    <3> QED
      BY <1>11, <3>1, <3>2, <3>3, <3>4
  <2>3. RunsOK'
    BY <2>1, <2>2, WriteFacts
  <2> QED
    BY <1>1, <1>4, <2>1, <2>3
<1>12. Start(p) => BuildsOK' /\ RunsOK' /\ OwnOK'
  <2>1. RunDir(name[p]).exchange[plan[p].scope] \subseteq Artifacts
    BY <1>2, WorkDirFacts DEF RunDirs, ByScope
  <2> QED
    BY <1>1, <1>3, <2>1 DEF Start
<1>13. PrintArtifacts(p) => BuildsOK' /\ RunsOK' /\ OwnOK'
  <2>1. ASSUME PrintArtifacts(p) PROVE answer' \in [Procs -> Answers]
    <3>1. Resolved(plan[p].run) \in Names /\ RunDir(Resolved(plan[p].run)).build \in 0 .. MaxBuild
      BY <1>2, <2>1, WorkDirFacts DEF PrintArtifacts, Op, RunDirs
    <3>2. answer'[p] \in Answers /\ answer' = [answer EXCEPT ![p] = answer'[p]]
      BY <1>1, <2>1, <3>1, WorkDirFacts DEF PrintArtifacts, Answers
    <3> QED
      BY <1>1, <3>2
  <2> QED
    BY <1>1, <1>3, <2>1 DEF PrintArtifacts
<1>14. Archive(p) => BuildsOK' /\ RunsOK' /\ OwnOK'
  <2>1. ASSUME Archive(p) PROVE answer' \in [Procs -> Answers]
    <3>1. /\ Resolved(plan[p].run) \in Names
          /\ RunDir(Resolved(plan[p].run)).submit[plan[p].scope] \in SUBSET Procs
      BY <1>2, <2>1, WorkDirFacts DEF Archive, Op, RunDirs, ByScope
    <3>2. answer'[p] \in Answers /\ answer' = [answer EXCEPT ![p] = answer'[p]]
      BY <1>1, <2>1, <3>1 DEF Archive, Answers
    <3> QED
      BY <1>1, <3>2
  <2> QED
    BY <1>1, <1>3, <2>1 DEF Archive
<1>15. PlanClean(p) => BuildsOK' /\ RunsOK' /\ OwnOK'
  <2>1. Found(p) \in Plans
    BY <1>1 DEF Found, NoPlan, Plans, Present, FoundImages
  <2> QED
    BY <1>1, <1>3, <2>1 DEF PlanClean
<1>16. CleanImages(p) => BuildsOK' /\ RunsOK' /\ OwnOK'
  <2>1. \A b \in doomed[p].images : [doomed[p] EXCEPT !.images = @ \ {b}] \in Plans
    BY <1>1 DEF Plans
  <2>2. CleanImages(p) => \E b \in doomed[p].images :
          doomed' = [doomed EXCEPT ![p] = [doomed[p] EXCEPT !.images = @ \ {b}]]
    BY DEF CleanImages
  <2>3. CleanImages(p) => DoomedOK'
    BY <1>1, <2>1, <2>2
  <2> QED
    BY <1>1, <2>3 DEF CleanImages
<1>17. CleanImageFails(p) => BuildsOK' /\ RunsOK' /\ OwnOK'
  <2>1. \A b \in doomed[p].images :
          [doomed[p] EXCEPT !.images = @ \ {b}, !.failed = @ \union {b}] \in Plans
    BY <1>1 DEF Plans
  <2>2. CleanImageFails(p) => \E b \in doomed[p].images :
          doomed' = [doomed EXCEPT ![p] = [doomed[p] EXCEPT !.images = @ \ {b},
                                                            !.failed = @ \union {b}]]
    BY DEF CleanImageFails
  <2>3. CleanImageFails(p) => DoomedOK'
    BY <1>1, <2>1, <2>2
  <2> QED
    BY <1>1, <1>3, <2>3 DEF CleanImageFails
<1>18. CleanDirs(p) => BuildsOK' /\ RunsOK' /\ OwnOK'
  BY <1>1, <1>4 DEF CleanDirs
<1>19. CleanRuns(p) => BuildsOK' /\ RunsOK' /\ OwnOK'
  BY <1>1, <1>4 DEF CleanRuns
<1>20. BuildsOK' /\ RunsOK' /\ OwnOK'
  BY <1>5, <1>6, <1>7, <1>8, <1>9, <1>10, <1>11, <1>12, <1>13, <1>14, <1>15, <1>16, <1>17,
     <1>18, <1>19 DEF WorkStep
<1>21. \A q \in Procs : doomed'[q] \in Plans
  BY <1>20
<1>22. \A q \in Procs :
         /\ doomed'[q].builds \subseteq BuildIds /\ doomed'[q].runs \subseteq Names
         /\ doomed'[q].images \union doomed'[q].failed \subseteq BuildIds
  BY <1>21 DEF Plans
<1> QED
  BY <1>20, <1>22 DEF WorkTypeOK

\* A kill moves the process to its end.
LEMMA KillEffects ==
  ASSUME TypeInv, NEW p \in Procs, Killed(p), UNCHANGED workVars
  PROVE  /\ Effects(p) /\ InstTypeOK' /\ at'[p] = "killed"
         /\ at[p] # "idle" /\ repo' = repo /\ staged' = staged /\ bundle' = bundle
         /\ infra' = infra /\ image' = image /\ runner' = runner
<1> USE DEF TypeInv, TypeOK, InstTypeOK, Goto, Fails
<1>1. /\ at' = [at EXCEPT ![p] = "killed"] /\ Active(p) /\ plan' = plan /\ upstream' = upstream
      /\ past' = past /\ seen' = seen /\ repo' = repo /\ staged' = staged /\ bundle' = bundle
      /\ infra' = infra /\ image' = image /\ runner' = runner
  BY DEF Killed
<1>2. /\ build' = build /\ name' = name /\ sources' = sources
      /\ answer' = answer /\ doomed' = doomed /\ started' = started
  BY DEF workVars, ownVars
<1>3. Effects(p)
  BY <1>1, <1>2 DEF Effects, Steps, Over, Active
<1>4. InstTypeOK'
  <2>1. holder' \in Procs \union {NoProc} /\ errors' \in 0 .. MaxErrors
    BY InstallationAssumption DEF Killed
  <2> QED
    BY <1>1, <2>1
<1> QED
  BY <1>1, <1>3, <1>4 DEF Active

\* The steps in the clone and with bundles, and kills.
LEMMA InstKeepsOwn ==
  ASSUME TypeInv, NEW p \in Procs, StepInv(p), OwnInv(p), Begin(p) \/ InstStep(p) \/ Killed(p),
         UNCHANGED workVars
  PROVE  StepInv(p)' /\ OwnInv(p)'
<1> DEFINE Goal == StepInv(p)' /\ OwnInv(p)'
<1> USE DEF StepInv, OwnInv, Op, Early, OfRun, Over, Goto, Ends, GivesUp
<1>0. /\ at \in [Procs -> Steps] /\ build' = build /\ name' = name /\ doomed' = doomed
      /\ StepInv(p) /\ OwnInv(p) /\ RunName(p)' = IF plan'[p].run = NoName THEN Generated(p) ELSE Normal(plan'[p].run)
  BY DEF TypeInv, workVars, ownVars, RunName, Generated
<1> USE DEF RunName
<1>1. Begin(p) => Goal
  BY <1>0 DEF Begin
<1>2. Lock(p) => Goal
  BY <1>0 DEF Lock
<1>3. GitStarts(p) => Goal
  BY <1>0 DEF GitStarts
<1>4. GitFails(p) => Goal
  BY <1>0 DEF GitFails
<1>5. GitEnds(p) => Goal
  BY <1>0 DEF GitEnds
<1>6. PrepareInfra(p) => Goal
  BY <1>0 DEF PrepareInfra
<1>7. Bake(p) => Goal
  BY <1>0 DEF Bake
<1>8. BuildRunner(p) => Goal
  BY <1>0 DEF BuildRunner
<1>9. SaveImages(p) => Goal
  BY <1>0 DEF SaveImages
<1>10. StartTar(p) => Goal
  BY <1>0 DEF StartTar
<1>11. SaveSource(p) => Goal
  BY <1>0 DEF SaveSource
<1>12. Extract(p) => Goal
  BY <1>0 DEF Extract
<1>13. LoadImages(p) => Goal
  BY <1>0 DEF LoadImages
<1>14. RemoveSource(p) => Goal
  BY <1>0 DEF RemoveSource
<1>15. MoveSource(p) => Goal
  BY <1>0 DEF MoveSource
<1>16. RemoveImages(p) => Goal
  BY <1>0 DEF RemoveImages
<1>17. Killed(p) => Goal
  BY <1>0 DEF Killed, Active
<1> QED
  BY <1>1, <1>2, <1>3, <1>4, <1>5, <1>6, <1>7, <1>8, <1>9, <1>10, <1>11, <1>12, <1>13, <1>14,
     <1>15, <1>16, <1>17 DEF InstStep, InitRepoStep, PrepareStep

\* The steps in the work directory.
LEMMA WorkKeepsOwn ==
  ASSUME TypeInv, NEW p \in Procs, StepInv(p), OwnInv(p), WorkStep(p) \/ CleanImageFails(p)
  PROVE  StepInv(p)' /\ OwnInv(p)'
<1> DEFINE Goal == StepInv(p)' /\ OwnInv(p)'
<1> USE DEF StepInv, OwnInv, Op, Early, OfRun, Over, Goto, Ends, GivesUp, RunName, ownVars, Generated
<1>0. /\ at \in [Procs -> Steps] /\ build \in [Procs -> 0 .. MaxBuild]
      /\ name \in [Procs -> Names \union {NoName}] /\ doomed \in [Procs -> Plans]
      /\ StepInv(p) /\ OwnInv(p) /\ MaxBuild \in Nat
  BY WorkDirAssumption DEF TypeInv, TypeOK, WorkTypeOK
<1>1. ResolveIds(p) => Goal
  BY <1>0 DEF ResolveIds
<1>2. ResolveSources(p) => Goal
  BY <1>0 DEF ResolveSources
<1>3. CheckBuilt(p) => Goal
  BY <1>0 DEF CheckBuilt, BuildIds
<1>4. BuildStarts(p) => Goal
  <2>1. ASSUME BuildStarts(p) PROVE Goal
    <3>1. clock \in 0 .. MaxBuild /\ build[p] \in 0 .. MaxBuild
      BY <1>0 DEF TypeInv, TypeOK, WorkTypeOK
    <3>2. build'[p] \in BuildIds
      BY <1>0, <2>1, <3>1 DEF BuildStarts, BuildIds
    <3>3. /\ at' = [at EXCEPT ![p] = "building"] /\ plan' = plan /\ name' = name
          /\ doomed' = doomed /\ at[p] = "build"
      BY <2>1 DEF BuildStarts
    <3> QED
      BY <1>0, <3>2, <3>3
  <2> QED
    BY <2>1
<1>5. BuildFails(p) => Goal
  BY <1>0 DEF BuildFails
<1>6. BuildEnds(p) => Goal
  BY <1>0 DEF BuildEnds
<1>7. RecordBuild(p) => Goal
  BY <1>0 DEF RecordBuild
<1>8. ClearExchange(p) => Goal
  BY <1>0 DEF ClearExchange
<1>9. CopyInputs(p) => Goal
  BY <1>0 DEF CopyInputs
<1>10. Start(p) => Goal
  BY <1>0 DEF Start
<1>11. Share(p) => Goal
  BY <1>0 DEF Share
<1>12. Finish(p) => Goal
  BY <1>0 DEF Finish
<1>13. PrintArtifacts(p) => Goal
  BY <1>0 DEF PrintArtifacts
<1>14. Archive(p) => Goal
  BY <1>0 DEF Archive
<1>15. PlanClean(p) => Goal
  BY <1>0 DEF PlanClean, Found, NoPlan
<1>16. CleanImages(p) => Goal
  BY <1>0 DEF CleanImages, ctlVars, Plans
<1>17. CleanImageFails(p) => Goal
  BY <1>0 DEF CleanImageFails, ctlVars, Plans
<1>18. CleanDirs(p) => Goal
  BY <1>0 DEF CleanDirs
<1>19. CleanRuns(p) => Goal
  BY <1>0 DEF CleanRuns
<1> QED
  BY <1>1, <1>2, <1>3, <1>4, <1>5, <1>6, <1>7, <1>8, <1>9, <1>10, <1>11, <1>12, <1>13, <1>14,
     <1>15, <1>16, <1>17, <1>18, <1>19 DEF WorkStep


\* A step of p, in one of three places.
Step(p) ==
  /\ Effects(p)
  /\ \/ (Begin(p) \/ InstStep(p)) /\ UNCHANGED workVars
     \/ WorkStep(p) /\ UNCHANGED instVars
     \/ CleanImageFails(p) /\ UNCHANGED <<upstream, repo, holder, infra, image, runner,
                                           bundle, staged, seen, past>>
     \/ Killed(p) /\ UNCHANGED workVars

\* A step is a push or a step of one process.
LEMMA Actions ==
  ASSUME TypeInv, [Next]_vars
  PROVE  UNCHANGED vars \/ (Push /\ UNCHANGED workVars) \/ \E p \in Procs : Step(p)
<1>1. ASSUME NEW p \in Procs, CommandStep(p) \/ (Killed(p) /\ UNCHANGED workVars)
      PROVE  Step(p)
  <2>1. CASE (Begin(p) \/ InstStep(p)) /\ UNCHANGED workVars
    BY <2>1, InstEffects DEF Step
  <2>2. CASE WorkStep(p) /\ UNCHANGED instVars
    BY <2>2, WorkEffects DEF Step, instVars
  <2>3. CASE CleanImageFails(p) /\ UNCHANGED <<upstream, repo, holder, infra, image, runner,
                                               bundle, staged, seen, past>>
    BY <2>3, WorkEffects DEF Step
  <2>4. CASE Killed(p) /\ UNCHANGED workVars
    BY <2>4, KillEffects DEF Step
  <2> QED
    BY <1>1, <2>1, <2>2, <2>3, <2>4 DEF CommandStep
<1>2. CASE UNCHANGED vars
  BY <1>2
<1>3. CASE PushStep
  BY <1>3 DEF PushStep
<1> QED
  BY <1>1, <1>2, <1>3 DEF Next

\* Types are kept.
LEMMA KeepsTypes ==
  ASSUME TypeInv, NEW p \in Procs, StepInv(p), OwnInv(p), Step(p)
  PROVE  TypeInv'
<1>1. at' \in [Procs -> Steps]
  BY DEF Step, Effects
<1>2. CASE (Begin(p) \/ InstStep(p)) /\ UNCHANGED workVars
  <2>1. WorkTypeOK' /\ answer' \in [Procs -> Answers] /\ doomed' \in [Procs -> Plans]
    BY <1>2 DEF TypeInv, TypeOK, WorkTypeOK, workVars, dirVars, ownVars
  <2> QED
    BY <1>1, <1>2, <2>1, InstKeepsTypes DEF TypeInv, TypeOK
<1>3. ASSUME WorkStep(p) \/ CleanImageFails(p), errors' \in 0 .. MaxErrors,
             UNCHANGED <<upstream, repo, holder, infra, image, runner, bundle, staged, seen, past>>
      PROVE  TypeInv'
  <2>1. InstTypeOK'
    BY <1>3 DEF TypeInv, TypeOK, InstTypeOK, Step, Effects
  <2> QED
    BY <1>1, <1>3, <2>1, WorkKeepsTypes DEF TypeInv, TypeOK
<1>4. CASE WorkStep(p) /\ UNCHANGED instVars
  BY <1>3, <1>4 DEF instVars, TypeInv, TypeOK, InstTypeOK
<1>5. CASE CleanImageFails(p) /\ UNCHANGED <<upstream, repo, holder, infra, image, runner,
                                              bundle, staged, seen, past>>
  <2>1. errors' \in 0 .. MaxErrors
    BY <1>5, InstallationAssumption DEF CleanImageFails, Fails, TypeInv, TypeOK, InstTypeOK
  <2> QED
    BY <1>3, <1>5, <2>1
<1>6. CASE Killed(p) /\ UNCHANGED workVars
  <2>1. WorkTypeOK' /\ answer' \in [Procs -> Answers] /\ doomed' \in [Procs -> Plans]
    BY <1>6 DEF TypeInv, TypeOK, WorkTypeOK, workVars, dirVars, ownVars
  <2> QED
    BY <1>1, <1>6, <2>1, KillEffects DEF TypeInv, TypeOK
<1> QED
  BY <1>2, <1>4, <1>5, <1>6 DEF Step

\* What has ended when a process begins stays ended.
LEMMA KeepsPast ==
  ASSUME TypeInv, NEW p \in Procs, Effects(p), \A q \in Procs : PastInv(q)
  PROVE  \A q \in Procs : PastInv(q)'
<1> SUFFICES ASSUME NEW q \in Procs PROVE PastInv(q)'
  OBVIOUS
<1>0. /\ at \in [Procs -> Steps] /\ past \in [Procs -> SUBSET Procs]
      /\ PastInv(p) /\ PastInv(q) /\ at[p] \notin Over
  BY DEF TypeInv, TypeOK, InstTypeOK, Effects
<1>1. \A r \in Procs : at[r] \in Over => at'[r] \in Over
  BY <1>0 DEF Effects
<1>2. CASE q = p
  <2>1. CASE at[p] = "idle"
    <3>1. past'[p] = {r \in Procs : at[r] # "idle" /\ ~Active(r)}
      BY <2>1 DEF Effects
    <3>2. \A r \in past'[p] : at[r] \in Over /\ r # p /\ r \in Procs
      BY <2>1, <3>1 DEF Active, Over
    <3> QED
      BY <1>1, <1>2, <3>2 DEF PastInv, Effects
  <2>2. CASE at[p] # "idle"
    BY <1>0, <1>1, <1>2, <2>2 DEF PastInv, Effects
  <2> QED
    BY <2>1, <2>2
<1>3. CASE q # p
  BY <1>0, <1>1, <1>3 DEF PastInv, Effects
<1> QED
  BY <1>2, <1>3

\* The initial states.
LEMMA InitCtl == Init => CtlInv
<1> SUFFICES ASSUME Init PROVE CtlInv
  OBVIOUS
<1>0. PICK s \in Starts : InstInit(s.plans, s.version) /\ WorkInit(s.done)
  BY DEF Init
<1>00. s.plans \in [Procs -> Commands] /\ s.version \in 0 .. 1 /\ s.done \subseteq 1 .. MaxBuild
  BY HostAssumption
<1>1. InstTypeOK
  <2>1. NoRepo \in Repos /\ [state |-> "whole", version |-> 1] \in Repos
    BY InstallationAssumption DEF NoRepo, Repos
  <2>2. NoBundle \in Bundles
    BY <2>1, InstallationAssumption DEF NoBundle, Bundles, Images, Mixed
  <2> QED
    BY <1>0, <1>00, <2>1, <2>2, InstallationAssumption
       DEF InstInit, InstTypeOK, Versions, Images, Mixed
<1>2. clock \in 0 .. MaxBuild
  <2>1. IsFiniteSet(1 .. MaxBuild) /\ Cardinality(1 .. MaxBuild) = MaxBuild
    BY FS_Interval, WorkDirAssumption
  <2>2. Cardinality(s.done) \in Nat /\ Cardinality(s.done) <= MaxBuild
    BY <1>00, <2>1, FS_Subset, FS_CardinalityType
  <2> QED
    BY <1>0, <2>2, WorkDirAssumption DEF WorkInit
<1>3. doomed \in [Procs -> Plans] /\ answer \in [Procs -> Answers]
  <2>1. NoPlan \in Plans /\ NoAnswer \in Answers
    BY WorkDirAssumption DEF NoPlan, Plans, NoAnswer, Answers
  <2> QED
    BY <1>0, <2>1 DEF WorkInit
<1>4. \A p \in Procs : doomed[p] = NoPlan
  BY <1>0 DEF WorkInit
<1>5. WorkTypeOK
  <2>1. DOMAIN runs = {}
    BY <1>0 DEF WorkInit
  <2>2. /\ builds \in [BuildIds -> {"none", "empty", "done"}] /\ images \subseteq BuildIds
    BY <1>0, <1>00 DEF WorkInit, BuildIds
  <2>3. /\ build \in [Procs -> 0 .. MaxBuild] /\ name \in [Procs -> Names \union {NoName}]
        /\ sources \in [Procs -> SUBSET [name : Names, scope : Scopes]]
        /\ started \in [Procs -> (SUBSET Artifacts) \union {NotYet}]
    <3>1. 0 \in 0 .. MaxBuild
      BY WorkDirAssumption
    <3>2. build \in [Procs -> 0 .. MaxBuild] /\ name \in [Procs -> Names \union {NoName}]
      BY <1>0, <3>1 DEF WorkInit
    <3>3. started \in [Procs -> (SUBSET Artifacts) \union {NotYet}]
      BY <1>0 DEF WorkInit
    <3>4. \A S : [p \in Procs |-> {}] \in [Procs -> SUBSET S]
      OBVIOUS
    <3> QED
      BY <1>0, <3>2, <3>3, <3>4 DEF WorkInit
  <2>4. \A p \in Procs : /\ doomed[p].builds = {} /\ doomed[p].runs = {}
                         /\ doomed[p].images = {} /\ doomed[p].failed = {}
    BY <1>4 DEF NoPlan
  <2> QED
    BY <1>2, <2>1, <2>2, <2>3, <2>4 DEF WorkTypeOK
<1>6. at \in [Procs -> Steps]
  BY <1>0 DEF InstInit, Steps, Early, Over
<1>7. ASSUME NEW p \in Procs PROVE StepInv(p) /\ OwnInv(p) /\ PastInv(p)
  <2>1. /\ at[p] = IF Op(p) = "none" THEN "ended" ELSE "idle"
        /\ build[p] = 0 /\ name[p] = NoName /\ past[p] = {}
    BY <1>0, <1>00 DEF InstInit, WorkInit, Op
  <2> QED
    BY <1>4, <2>1 DEF StepInv, OwnInv, PastInv, Over, OfRun, NoPlan
<1> QED
  BY <1>1, <1>3, <1>5, <1>6, <1>7 DEF CtlInv, TypeInv, TypeOK

\* The control is kept.
LEMMA KeepsCtl == CtlInv /\ [Next]_vars => CtlInv'
<1> SUFFICES ASSUME CtlInv, [Next]_vars PROVE CtlInv'
  OBVIOUS
<1>0. TypeInv
  BY DEF CtlInv
<1>1. CASE UNCHANGED vars
  BY <1>1 DEF CtlInv, TypeInv, TypeOK, InstTypeOK, WorkTypeOK, StepInv, OwnInv, PastInv, Op,
              RunName, Generated, vars, instVars, ctlVars, workVars, dirVars, ownVars
<1>2. CASE Push /\ UNCHANGED workVars
  <2>1. TypeInv'
    BY <1>0, <1>2, InstallationAssumption
       DEF TypeInv, TypeOK, InstTypeOK, WorkTypeOK, Push, Versions, ctlVars, workVars, dirVars,
           ownVars
  <2> QED
    BY <1>2, <2>1 DEF CtlInv, StepInv, OwnInv, PastInv, Op, RunName, Generated, Push,
                      ctlVars, workVars, dirVars, ownVars
<1>3. ASSUME NEW p \in Procs, Step(p) PROVE CtlInv'
  <2>1. StepInv(p) /\ OwnInv(p) /\ \A q \in Procs : PastInv(q)
    BY DEF CtlInv
  <2>2. Effects(p)
    BY <1>3 DEF Step
  <2>3. TypeInv' /\ \A q \in Procs : PastInv(q)'
    BY <1>0, <1>3, <2>1, <2>2, KeepsTypes, KeepsPast
  <2>4. StepInv(p)' /\ OwnInv(p)'
    BY <1>0, <1>3, <2>1, InstKeepsOwn, WorkKeepsOwn DEF Step
  <2>5. ASSUME NEW q \in Procs, q # p PROVE StepInv(q)' /\ OwnInv(q)'
    BY <2>2, <2>5 DEF CtlInv, Effects, StepInv, OwnInv, Op, RunName, Generated
  <2> QED
    BY <2>3, <2>4, <2>5 DEF CtlInv
<1> QED
  BY <1>0, <1>1, <1>2, <1>3, Actions

\* In every state the types hold, and each command is where it may be.
THEOREM SpecCtlInv == Spec => []CtlInv
BY InitCtl, KeepsCtl, PTL DEF Spec

\* The steps in the work directory come after those in the clone.
AtWork == OfRun \union {"build", "building", "images", "runs"}
LEMMA WorkMoves ==
  ASSUME CtlInv, NEW p \in Procs, WorkStep(p) \/ CleanImageFails(p)
  PROVE  /\ at[p] \in AtWork \union {"ready"} /\ at'[p] \in AtWork \union {"ended", "failed"}
         /\ Op(p) \in {"build", "run", "artifacts", "archive", "clean-build", "clean-run"}
<1> DEFINE Goal == /\ at[p] \in AtWork \union {"ready"}
                   /\ at'[p] \in AtWork \union {"ended", "failed"}
                   /\ Op(p) \in {"build", "run", "artifacts", "archive",
                                "clean-build", "clean-run"}
<1>0. at \in [Procs -> Steps] /\ StepInv(p)
  BY DEF CtlInv, TypeInv
<1> USE DEF AtWork, OfRun, StepInv, Op, Goto, Ends, GivesUp, ctlVars
<1>1. ResolveIds(p) => Goal
  BY <1>0 DEF ResolveIds
<1>2. ResolveSources(p) => Goal
  BY <1>0 DEF ResolveSources
<1>3. CheckBuilt(p) => Goal
  BY <1>0 DEF CheckBuilt
<1>4. BuildStarts(p) => Goal
  BY <1>0 DEF BuildStarts
<1>5. BuildFails(p) => Goal
  BY <1>0 DEF BuildFails
<1>6. BuildEnds(p) => Goal
  BY <1>0 DEF BuildEnds
<1>7. RecordBuild(p) => Goal
  BY <1>0 DEF RecordBuild
<1>8. ClearExchange(p) => Goal
  BY <1>0 DEF ClearExchange
<1>9. CopyInputs(p) => Goal
  BY <1>0 DEF CopyInputs
<1>10. Start(p) => Goal
  BY <1>0 DEF Start
<1>11. Share(p) => Goal
  BY <1>0 DEF Share
<1>12. Finish(p) => Goal
  BY <1>0 DEF Finish
<1>13. PrintArtifacts(p) => Goal
  BY <1>0 DEF PrintArtifacts
<1>14. Archive(p) => Goal
  BY <1>0 DEF Archive
<1>15. PlanClean(p) => Goal
  BY <1>0 DEF PlanClean
<1>16. CleanImages(p) => Goal
  BY <1>0 DEF CleanImages
<1>17. CleanImageFails(p) => Goal
  BY <1>0 DEF CleanImageFails
<1>18. CleanDirs(p) => Goal
  BY <1>0 DEF CleanDirs
<1>19. CleanRuns(p) => Goal
  BY <1>0 DEF CleanRuns
<1> QED
  BY <1>1, <1>2, <1>3, <1>4, <1>5, <1>6, <1>7, <1>8, <1>9, <1>10, <1>11, <1>12, <1>13, <1>14,
     <1>15, <1>16, <1>17, <1>18, <1>19 DEF WorkStep

LEMMA InstMoves ==
  ASSUME CtlInv, NEW p \in Procs, Begin(p) \/ InstStep(p) \/ Killed(p)
  PROVE  at'[p] \notin AtWork
<1> DEFINE Goal == at'[p] \notin AtWork
<1>0. at \in [Procs -> Steps]
  BY DEF CtlInv, TypeInv
<1> USE DEF AtWork, OfRun, Goto, Ends, GivesUp
<1>1. Begin(p) => Goal
  BY <1>0 DEF Begin
<1>2. InitRepoStep(p) => Goal
  BY <1>0 DEF InitRepoStep, Lock, GitStarts, GitFails, GitEnds
<1>3. PrepareStep(p) => Goal
  BY <1>0 DEF PrepareStep, PrepareInfra, Bake, BuildRunner
<1>4. SaveImages(p) \/ StartTar(p) \/ SaveSource(p) => Goal
  BY <1>0 DEF SaveImages, StartTar, SaveSource
<1>5. Extract(p) \/ LoadImages(p) => Goal
  BY <1>0 DEF Extract, LoadImages
<1>6. RemoveSource(p) \/ MoveSource(p) \/ RemoveImages(p) => Goal
  BY <1>0 DEF RemoveSource, MoveSource, RemoveImages
<1>7. Killed(p) => Goal
  BY <1>0 DEF Killed
<1> QED
  BY <1>1, <1>2, <1>3, <1>4, <1>5, <1>6, <1>7 DEF InstStep

-----------------------------------------------------------------------------
(* Overlap.                                                                 *)

\* Commands that have overlapped have for ever, and a command overlaps with those it finds active.
LEMMA OverlapFacts ==
  ASSUME CtlInv
  PROVE  /\ [Next]_vars => \A p, q \in Procs : Overlap(p, q) => Overlap(p, q)'
         /\ \A p, q \in Procs : p # q /\ Active(p) /\ Active(q) => Overlap(p, q)
<1>0. TypeInv /\ \A p \in Procs : PastInv(p)
  BY DEF CtlInv
<1>1. \A p, q \in Procs : p # q /\ Active(p) /\ Active(q) => Overlap(p, q)
  BY <1>0 DEF PastInv, Active, Over, Overlap
<1>2. UNCHANGED vars => \A p, q \in Procs : Overlap(p, q) => Overlap(p, q)'
  BY DEF vars, ctlVars, instVars, Overlap
<1>3. Push => \A p, q \in Procs : Overlap(p, q) => Overlap(p, q)'
  BY DEF Push, ctlVars, Overlap
<1>4. ASSUME NEW r \in Procs, Step(r), NEW p \in Procs, NEW q \in Procs, Overlap(p, q)
      PROVE  Overlap(p, q)'
  <2>1. Effects(r)
    BY <1>4 DEF Step
  <2>2. /\ at'[p] # "idle" /\ past'[p] = past[p]
        /\ at'[q] # "idle" /\ past'[q] = past[q]
    BY <1>4, <2>1 DEF Effects, Overlap
  <2> QED
    BY <1>4, <2>2 DEF Overlap
<1>5. [Next]_vars => \A p, q \in Procs : Overlap(p, q) => Overlap(p, q)'
  BY <1>0, <1>2, <1>3, <1>4, Actions
<1> QED
  BY <1>1, <1>5

\* What a step may do to the clone, to the images and to the bundle.
Clones(p) ==
  \/ repo' = repo /\ at'[p] # "tree" /\ (at[p] = "tree" => at'[p] # "ready")
  \/ /\ at[p] = "git" /\ at'[p] = "tree" /\ ~SkipsInit(p)
     /\ repo' = [state |-> "partial", version |-> upstream]
  \/ /\ at[p] = "tree" /\ at'[p] = "ready"
     /\ repo' = IF repo.state = "partial" THEN [repo EXCEPT !.state = "whole"] ELSE repo
  \/ at[p] = "remove" /\ at'[p] = "move" /\ repo' = NoRepo
  \/ /\ at[p] = "move" /\ at'[p] = "ended"
     /\ repo' = IF repo.state = "none" THEN staged[p].source ELSE [repo EXCEPT !.state = "nested"]
Packs(p) ==
  /\ \/ infra' = infra /\ image' = image /\ runner' = runner
     \/ Op(p) # "export" /\ Active(p) /\ at[p] \notin {"move", "remove"}
  /\ bundle' = bundle \/ (Op(p) = "export" /\ at[p] \in {"tar", "source"})

LEMMA CloneChanges ==
  ASSUME CtlInv, NEW p \in Procs, Step(p)
  PROVE  Clones(p) /\ Packs(p)
<1> DEFINE Goal == Clones(p) /\ Packs(p)
<1>0. at \in [Procs -> Steps] /\ StepInv(p)
  BY DEF CtlInv, TypeInv
<1> USE DEF Clones, Packs, Goto, Ends, GivesUp, Op, StepInv, Active
<1>1. Begin(p) => Goal
  BY <1>0 DEF Begin
<1>2. Lock(p) => Goal
  BY <1>0 DEF Lock
<1>3. GitStarts(p) => Goal
  BY <1>0 DEF GitStarts
<1>4. GitFails(p) => Goal
  BY <1>0 DEF GitFails
<1>5. GitEnds(p) => Goal
  BY <1>0 DEF GitEnds
<1>6. PrepareInfra(p) => Goal
  BY <1>0 DEF PrepareInfra
<1>7. Bake(p) => Goal
  BY <1>0 DEF Bake
<1>8. BuildRunner(p) => Goal
  BY <1>0 DEF BuildRunner
<1>9. SaveImages(p) => Goal
  BY <1>0 DEF SaveImages
<1>10. StartTar(p) => Goal
  BY <1>0 DEF StartTar
<1>11. SaveSource(p) => Goal
  BY <1>0 DEF SaveSource
<1>12. Extract(p) => Goal
  BY <1>0 DEF Extract
<1>13. LoadImages(p) => Goal
  BY <1>0 DEF LoadImages
<1>14. RemoveSource(p) => Goal
  BY <1>0 DEF RemoveSource
<1>15. MoveSource(p) => Goal
  BY <1>0 DEF MoveSource
<1>16. RemoveImages(p) => Goal
  BY <1>0 DEF RemoveImages
<1>17. Killed(p) => Goal
  BY <1>0 DEF Killed
<1>18. InstStep(p) => Goal
  BY <1>2, <1>3, <1>4, <1>5, <1>6, <1>7, <1>8, <1>9, <1>10, <1>11, <1>12, <1>13, <1>14,
     <1>15, <1>16 DEF InstStep, InitRepoStep, PrepareStep
<1>19. ASSUME WorkStep(p) \/ CleanImageFails(p),
              UNCHANGED <<upstream, repo, holder, infra, image, runner, bundle, staged, seen, past>>
       PROVE  Goal
  BY <1>19, WorkMoves DEF AtWork, OfRun
<1> QED
  BY <1>1, <1>17, <1>18, <1>19 DEF Step, instVars

-----------------------------------------------------------------------------
(* The clone.                                                               *)

NoImport(p) == \A q \in Procs : Overlap(p, q) => Op(q) # "import"

\* The lock is with the process that uses git; nobody changes the clone but it and an import.
CloneInv ==
  /\ \A p \in Procs :
       /\ holder = p <=> at[p] \in {"git", "tree"}
       /\ seen[p].upstream <= upstream
       /\ at[p] = "tree" /\ NoImport(p) => repo.state = "partial"
       /\ /\ ~plan[p].local /\ Op(p) \in {"prepare", "export", "build", "run", "clean-prepare"}
          /\ Active(p) /\ at[p] \notin {"lock", "git"} /\ NoImport(p)
          => repo.version >= seen[p].upstream

\* One command has the lock at a time.
LEMMA KeepsLock ==
  ASSUME CtlInv, NEW p \in Procs, Step(p), \A q \in Procs : holder = q <=> at[q] \in {"git", "tree"}
  PROVE  \A q \in Procs : holder' = q <=> at'[q] \in {"git", "tree"}
<1> DEFINE Goal == /\ holder' = p <=> at'[p] \in {"git", "tree"}
                   /\ holder' = holder \/ (holder' \in {p, NoProc} /\ holder \in {p, NoProc})
<1>0. /\ at \in [Procs -> Steps] /\ NoProc \notin Procs
      /\ holder = p <=> at[p] \in {"git", "tree"}
  BY InstallationAssumption DEF CtlInv, TypeInv
<1> USE DEF Goto, Ends, GivesUp
<1>1. Begin(p) => Goal
  BY <1>0 DEF Begin
<1>2. InitRepoStep(p) => Goal
  BY <1>0 DEF InitRepoStep, Lock, GitStarts, GitFails, GitEnds
<1>3. PrepareStep(p) => Goal
  BY <1>0 DEF PrepareStep, PrepareInfra, Bake, BuildRunner
<1>4. SaveImages(p) \/ StartTar(p) \/ SaveSource(p) => Goal
  BY <1>0 DEF SaveImages, StartTar, SaveSource
<1>5. Extract(p) \/ LoadImages(p) => Goal
  BY <1>0 DEF Extract, LoadImages
<1>6. RemoveSource(p) \/ MoveSource(p) \/ RemoveImages(p) => Goal
  BY <1>0 DEF RemoveSource, MoveSource, RemoveImages
<1>7. Killed(p) => Goal
  BY <1>0 DEF Killed
<1>8. (WorkStep(p) \/ CleanImageFails(p)) /\ holder' = holder => Goal
  BY <1>0, WorkMoves DEF AtWork, OfRun
<1>9. Goal
  BY <1>1, <1>2, <1>3, <1>4, <1>5, <1>6, <1>7, <1>8 DEF Step, InstStep, instVars
<1>10. \A q \in Procs \ {p} : at'[q] = at[q]
  BY DEF Step, Effects
<1> QED
  BY <1>0, <1>9, <1>10

\* What overlaps with an import in the end does so at once.
LEMMA NoImportBefore ==
  ASSUME CtlInv, [Next]_vars, plan' = plan, NEW p \in Procs, NoImport(p)'
  PROVE  NoImport(p)
BY OverlapFacts DEF NoImport, Op

\* A command that needs the clone up to date has fetched.
LEMMA Fetches ==
  ASSUME CtlInv, NEW p \in Procs, Step(p), at'[p] \notin Over \union {"idle", "lock", "git"}
  PROVE  \/ at[p] \notin {"idle", "lock", "git"} /\ seen'[p] = seen[p]
         \/ plan[p].local \/ Op(p) = "import" \/ SkipsInit(p)
         \/ /\ at[p] = "git" /\ at'[p] = "tree" /\ seen'[p] = seen[p]
            /\ repo' = [state |-> "partial", version |-> upstream]
<1>0. at \in [Procs -> Steps]
  BY DEF CtlInv, TypeInv
<1> USE DEF Goto, Ends, GivesUp, Op, Over
<1>1. CASE Begin(p)
  BY <1>0, <1>1 DEF Begin
<1>2. CASE InitRepoStep(p)
  BY <1>0, <1>2 DEF InitRepoStep, Lock, GitStarts, GitFails, GitEnds
<1>3. ASSUME ~Begin(p), ~InitRepoStep(p) PROVE at[p] \notin {"idle", "lock", "git"}
  <2>1. InstStep(p) => at[p] \notin {"idle", "lock", "git"}
    BY <1>3 DEF InstStep, PrepareStep, PrepareInfra, Bake, BuildRunner, SaveImages, StartTar,
                SaveSource, Extract, LoadImages, RemoveSource, MoveSource, RemoveImages
  <2>2. ~Killed(p)
    BY <1>0 DEF Killed
  <2>3. WorkStep(p) \/ CleanImageFails(p) => at[p] \notin {"idle", "lock", "git"}
    BY WorkMoves DEF AtWork, OfRun
  <2> QED
    BY <1>3, <2>1, <2>2, <2>3 DEF Step
<1> QED
  BY <1>1, <1>2, <1>3 DEF Step, Effects

\* The clone is kept.
LEMMA KeepsClone == CloneInv /\ CtlInv /\ CtlInv' /\ [Next]_vars => CloneInv'
<1> SUFFICES ASSUME CloneInv, CtlInv, CtlInv', [Next]_vars PROVE CloneInv'
  OBVIOUS
<1>0. TypeInv /\ TypeInv' /\ \A p \in Procs : StepInv(p) /\ StepInv(p)'
  BY DEF CtlInv
<1> DEFINE Needs(p) == ~plan[p].local /\ Op(p) \in {"prepare", "export", "build", "run", "clean-prepare"}
           Has(p) == Active(p) /\ at[p] \notin {"lock", "git"}
<1>1. ASSUME plan' = plan, at' = at, repo' = repo, holder' = holder, upstream' \in Nat,
             seen' = seen, upstream' >= upstream
      PROVE  CloneInv'
  <2>1. \A p \in Procs : NoImport(p)' => NoImport(p)
    BY <1>1, NoImportBefore
  <2>2. \A p \in Procs : seen[p].upstream \in Nat
    BY <1>0 DEF TypeInv, TypeOK, InstTypeOK
  <2>3. upstream \in Nat
    BY <1>0 DEF TypeInv, TypeOK, InstTypeOK, Versions
  <2>4. \A p \in Procs : seen'[p].upstream <= upstream'
    BY <1>1, <2>2, <2>3 DEF CloneInv
  <2>5. \A p \in Procs : Op(p)' = Op(p) /\ Active(p)' = Active(p)
    BY <1>1 DEF Op, Active
  <2> QED
    BY <1>1, <2>1, <2>4, <2>5 DEF CloneInv
<1>2. CASE UNCHANGED vars
  BY <1>0, <1>1, <1>2 DEF vars, instVars, ctlVars, TypeInv, TypeOK, InstTypeOK, Versions
<1>3. CASE Push
  BY <1>0, <1>1, <1>3 DEF Push, ctlVars, TypeInv, TypeOK, InstTypeOK, Versions
<1>4. ASSUME NEW r \in Procs, Step(r) PROVE CloneInv'
  <2>0. Effects(r) /\ plan' = plan /\ upstream' = upstream /\ upstream \in Nat
    BY <1>0, <1>4 DEF Step, Effects, TypeInv, TypeOK, InstTypeOK, Versions
  <2> SUFFICES ASSUME NEW p \in Procs
               PROVE  /\ seen'[p].upstream <= upstream
                      /\ at'[p] = "tree" /\ NoImport(p)' => repo'.state = "partial"
                      /\ Needs(p) /\ Has(p)' /\ NoImport(p)' => repo'.version >= seen'[p].upstream
    <3>1. \A p \in Procs : holder' = p <=> at'[p] \in {"git", "tree"}
      BY <1>4, KeepsLock DEF CloneInv
    <3>2. \A p \in Procs : Needs(p)' = Needs(p)
      BY <2>0 DEF Op
    <3> QED
      BY <2>0, <3>1, <3>2 DEF CloneInv
  <2>1. /\ holder = p <=> at[p] \in {"git", "tree"}
        /\ holder = r <=> at[r] \in {"git", "tree"}
        /\ seen[p].upstream <= upstream /\ seen[p].upstream \in Nat
        /\ at[p] = "tree" /\ NoImport(p) => repo.state = "partial"
        /\ Needs(p) /\ Has(p) /\ NoImport(p) => repo.version >= seen[p].upstream
    BY <1>0 DEF CloneInv, TypeInv, TypeOK, InstTypeOK
  <2>2. NoImport(p)' => NoImport(p)
    BY <2>0, NoImportBefore
  <2>3. seen'[p].upstream <= upstream
    <3>1. Begin(r) => seen'[r].upstream = upstream
      BY <1>0 DEF Begin, TypeInv, TypeOK, InstTypeOK
    <3>2. at[r] = "idle" => Begin(r)
      BY <1>4, WorkMoves
         DEF Step, AtWork, OfRun, Killed, Active, InstStep, InitRepoStep, Lock, GitStarts, GitFails,
             GitEnds, PrepareStep, PrepareInfra, Bake, BuildRunner, SaveImages, StartTar,
             SaveSource, Extract, LoadImages, RemoveSource, MoveSource, RemoveImages
    <3> QED
      BY <2>0, <2>1, <3>1, <3>2 DEF Effects
  <2>4. Clones(r)
    BY <1>4, CloneChanges
  <2>5. CASE r = p
    <3>1. at'[p] = "tree" => repo'.state = "partial"
      BY <2>4, <2>5 DEF Clones
    <3>2. ASSUME Needs(p), Has(p)', NoImport(p)' PROVE repo'.version >= seen'[p].upstream
      <4>1. at'[p] \notin Over \union {"idle", "lock", "git"} /\ ~SkipsInit(p)
        BY <3>2 DEF Active, Over, SkipsInit, Op
      <4>2. CASE at[p] \notin {"idle", "lock", "git"} /\ seen'[p] = seen[p]
        <5>1. Has(p)
          BY <2>0, <2>5, <4>2 DEF Effects, Active, Over
        <5>2. at[p] \notin {"remove", "move"}
          BY <1>0, <3>2 DEF StepInv
        <5>3. repo'.version = repo.version
          BY <1>0, <2>4, <2>5, <4>2, <5>2 DEF Clones, TypeInv, TypeOK, InstTypeOK, Repos
        <5> QED
          BY <2>1, <2>2, <3>2, <4>2, <5>1, <5>3
      <4>3. CASE seen'[p] = seen[p] /\ repo' = [state |-> "partial", version |-> upstream]
        BY <2>0, <2>1, <4>3
      <4> QED
        BY <1>4, <2>5, <3>2, <4>1, <4>2, <4>3, Fetches
    <3> QED
      BY <2>3, <3>1, <3>2
  <2>6. CASE r # p
    <3>1. at'[p] = at[p] /\ seen'[p] = seen[p]
      BY <2>0, <2>6 DEF Effects
    <3>2. Active(p)' = Active(p)
      BY <3>1 DEF Active
    <3>3. NoImport(p) /\ Active(p) => at[r] \notin {"remove", "move"}
      <4>1. at[r] \in {"remove", "move"} => Active(r) /\ Op(r) = "import"
        BY <1>0 DEF StepInv, Active
      <4> QED
        BY <2>6, <4>1, OverlapFacts DEF NoImport
    <3>4. at[p] = "tree" /\ NoImport(p) => repo'.state = "partial"
      BY <2>1, <2>4, <2>6, <3>3 DEF Clones, Active
    <3>5. Needs(p) /\ Has(p) /\ NoImport(p) => repo'.version >= seen[p].upstream
      BY SMTT(30), <1>0, <2>0, <2>1, <2>4, <3>3 DEF Clones, TypeInv, TypeOK, InstTypeOK, Repos
    <3> QED
      BY <2>2, <2>3, <3>1, <3>2, <3>4, <3>5
  <2> QED
    BY <2>5, <2>6
<1> QED
  BY <1>0, <1>2, <1>3, <1>4, Actions

LEMMA InitClone == Init => CloneInv
<1> SUFFICES ASSUME Init PROVE CloneInv
  OBVIOUS
<1>1. PICK s \in Starts : InstInit(s.plans, s.version)
  BY DEF Init
<1>2. \A p \in Procs : at[p] \in {"idle", "ended"} /\ seen[p].upstream = 0 /\ holder # p
  BY <1>1, InstallationAssumption DEF InstInit
<1>3. upstream = 1
  BY <1>1 DEF InstInit
<1> QED
  BY <1>2, <1>3 DEF CloneInv, Active

LEMMA CloneInvImplies == CloneInv => CloneIsSound
BY DEF CloneInv, CloneIsSound, WholeMeansQuiet, SourceIsRecent, NoImport

\* What a command finds in the clone is neither half made nor old: git works on it under the
\* lock, and only an import, which takes no lock, can disturb it.
THEOREM SpecCloneIsSound == Spec => []CloneIsSound
<1>1. Init => CloneInv
  BY InitClone
<1>2. CloneInv /\ CtlInv /\ CtlInv' /\ [Next]_vars => CloneInv'
  BY KeepsClone
<1>3. CloneInv => CloneIsSound
  BY CloneInvImplies
<1> QED
  BY <1>1, <1>2, <1>3, SpecCtlInv, PTL DEF Spec

-----------------------------------------------------------------------------
(* Bundles.                                                                 *)

\* The bundle b has what there was when the export e began, and a whole source.
Holds(b, e) ==
  /\ b.infra = seen[e].infra /\ b.image = seen[e].image /\ b.runner = seen[e].runner
  /\ b.source.state = "whole" /\ b.source.version >= seen[e].upstream

\* An export that nobody disturbs finds the images it began with, and a whole source.
Exporting(e) == Op(e) = "export" /\ ~plan[e].local /\ Alone(e)
ExportInv ==
  \A e \in Procs :
    /\ Exporting(e) /\ Active(e) =>
         /\ infra = seen[e].infra /\ image = seen[e].image /\ runner = seen[e].runner
         /\ at[e] \in {"ready", "tar", "source"} => repo.state = "whole"
         /\ at[e] \in {"tar", "source"} =>
              staged[e] = [infra |-> infra, image |-> image, runner |-> runner,
                           source |-> NoRepo]
    /\ /\ Exporting(e) /\ at[e] = "ended"
       /\ \A q \in Procs \ {e} : Op(q) = "export" => q \in past[e] \/ at[q] = "idle"
       => Holds(bundle, e)

\* The import p of the bundle of e is not disturbed, nor was the time between them.
Restores(e, p) ==
  /\ Exporting(e) /\ at[e] = "ended"
  /\ Op(p) = "import" /\ e \in past[p]
  /\ \A q \in Procs \ {e, p} : q \notin past[p] => at[q] = "idle"
  /\ \A q \in past[p] \ {e} : Op(q) = "export" => q \in past[e]
ImportInv ==
  \A e, p \in Procs : Restores(e, p) =>
    /\ at[p] \in {"load", "remove", "move", "ended"} => Holds(staged[p], e)
    /\ at[p] \in {"remove", "move", "ended"} =>
         /\ seen[e].infra # 0 => infra = seen[e].infra
         /\ seen[e].image # 0 => image = seen[e].image
         /\ seen[e].runner # 0 => runner = seen[e].runner
    /\ at[p] = "move" => repo = NoRepo
    /\ at[p] = "ended" => repo = staged[p].source

\* The steps of export and of import.
Exports(p) ==
  /\ at'[p] = "ready" => at[p] = "tree" \/ plan[p].local
  /\ at'[p] = "tar" => /\ at[p] = "ready"
                       /\ staged'[p] = [infra |-> infra, image |-> image, runner |-> runner,
                                        source |-> NoRepo]
  /\ at'[p] = "source" => at[p] = "tar" /\ staged'[p] = staged[p]
  /\ at'[p] = "ended" => at[p] = "source" /\ bundle' = [staged[p] EXCEPT !.source = repo]
  /\ at[p] = "idle" => /\ seen'[p].infra = infra /\ seen'[p].image = image
                       /\ seen'[p].runner = runner
SameImages == infra' = infra /\ image' = image /\ runner' = runner
Imports(p) ==
  /\ at'[p] = "load" => at[p] = "ready" /\ staged'[p] = bundle
  /\ at'[p] = "remove" =>
       /\ at[p] = "load" /\ staged'[p] = staged[p]
       /\ infra' = IF staged[p].infra = 0 THEN infra ELSE staged[p].infra
       /\ image' = IF staged[p].image = 0 THEN image ELSE staged[p].image
       /\ runner' = IF staged[p].runner = 0 THEN runner ELSE staged[p].runner
  /\ at'[p] = "move" =>
       at[p] = "remove" /\ staged'[p] = staged[p] /\ SameImages /\ repo' = NoRepo
  /\ at'[p] = "ended" =>
       \/ at[p] = "load" /\ staged[p].source.state = "none"
       \/ /\ at[p] = "move" /\ staged'[p] = staged[p] /\ SameImages
          /\ repo' = IF repo.state = "none" THEN staged[p].source ELSE [repo EXCEPT !.state = "nested"]

LEMMA BundleMoves ==
  ASSUME CtlInv, NEW p \in Procs, Step(p)
  PROVE  /\ Op(p) = "export" => Exports(p)
         /\ Op(p) = "import" => Imports(p)
<1> DEFINE Goal == (Op(p) = "export" => Exports(p)) /\ (Op(p) = "import" => Imports(p))
<1>0. /\ at \in [Procs -> Steps] /\ StepInv(p) /\ DOMAIN staged = Procs /\ DOMAIN seen = Procs
  BY DEF CtlInv, TypeInv, TypeOK, InstTypeOK
<1> USE DEF Exports, Imports, SameImages, Goto, Ends, GivesUp, Op, StepInv, Active
<1>1. Begin(p) => Goal
  BY <1>0 DEF Begin
<1>2. Lock(p) => Goal
  BY <1>0 DEF Lock
<1>3. GitStarts(p) => Goal
  BY <1>0 DEF GitStarts, SkipsInit
<1>4. GitFails(p) => Goal
  BY <1>0 DEF GitFails
<1>5. GitEnds(p) => Goal
  BY <1>0 DEF GitEnds
<1>6. PrepareStep(p) => Goal
  BY <1>0 DEF PrepareStep, PrepareInfra, Bake, BuildRunner
<1>7. SaveImages(p) => Goal
  BY <1>0 DEF SaveImages
<1>8. StartTar(p) => Goal
  BY <1>0 DEF StartTar
<1>9. SaveSource(p) => Goal
  BY <1>0 DEF SaveSource
<1>10. Extract(p) => Goal
  BY <1>0 DEF Extract
<1>11. LoadImages(p) => Goal
  BY <1>0 DEF LoadImages
<1>12. RemoveSource(p) => Goal
  BY <1>0 DEF RemoveSource
<1>13. MoveSource(p) => Goal
  BY <1>0 DEF MoveSource
<1>14. RemoveImages(p) => Goal
  BY <1>0 DEF RemoveImages
<1>15. Killed(p) => Goal
  BY <1>0 DEF Killed
<1>16. WorkStep(p) \/ CleanImageFails(p) => Goal
  BY WorkMoves
<1> QED
  BY <1>1, <1>2, <1>3, <1>4, <1>5, <1>6, <1>7, <1>8, <1>9, <1>10, <1>11, <1>12, <1>13, <1>14,
     <1>15, <1>16 DEF Step, InstStep, InitRepoStep

\* Nobody but it takes a step while an export that is alone is active.
LEMMA OnlyExporter ==
  ASSUME CtlInv, [Next]_vars, NEW e \in Procs, Active(e), Alone(e)', NEW r \in Procs, Step(r)
  PROVE  r = e
<1> SUFFICES ASSUME r # e PROVE FALSE
  OBVIOUS
<1>1. at \in [Procs -> Steps] /\ PastInv(e) /\ Effects(r) /\ past \in [Procs -> SUBSET Procs]
  BY DEF CtlInv, Step, TypeInv, TypeOK, InstTypeOK
<1>2. CASE at[r] = "idle"
  <2>1. e \notin past'[r] /\ at'[r] # "idle"
    BY <1>1, <1>2 DEF Effects, Active
  <2>2. r \notin past'[e] /\ at'[e] # "idle"
    BY <1>1, <1>2 DEF Effects, PastInv, Over, Active
  <2> QED
    BY <2>1, <2>2 DEF Alone, Overlap
<1>3. CASE at[r] # "idle"
  <2>1. Active(r)
    BY <1>1, <1>3 DEF Effects, Over, Active
  <2> QED
    BY <2>1, OverlapFacts DEF Alone
<1> QED
  BY <1>2, <1>3

\* Bundles are kept.
LEMMA KeepsExport ==
  ExportInv /\ CloneInv /\ CtlInv /\ CtlInv' /\ [Next]_vars => ExportInv'
<1> SUFFICES ASSUME ExportInv, CloneInv, CtlInv, CtlInv', [Next]_vars PROVE ExportInv'
  OBVIOUS
<1>0. TypeInv /\ TypeInv' /\ \A p \in Procs : StepInv(p) /\ StepInv(p)' /\ PastInv(p) /\ PastInv(p)'
  BY DEF CtlInv
<1>1. ASSUME plan' = plan, at' = at, past' = past, seen' = seen, staged' = staged, bundle' = bundle,
             repo' = repo, infra' = infra, image' = image, runner' = runner
      PROVE  ExportInv'
  BY <1>1 DEF ExportInv, Exporting, Alone, Overlap, Holds, Op, Active
<1>2. CASE UNCHANGED vars
  BY <1>1, <1>2 DEF vars, instVars, ctlVars
<1>3. CASE Push
  BY <1>1, <1>3 DEF Push, ctlVars
<1>4. ASSUME NEW r \in Procs, Step(r) PROVE ExportInv'
  <2> DEFINE Last(e) == \A q \in Procs \ {e} : Op(q) = "export" => q \in past[e] \/ at[q] = "idle"
             Loaded(e) ==
               /\ infra = seen[e].infra /\ image = seen[e].image /\ runner = seen[e].runner
               /\ at[e] \in {"ready", "tar", "source"} => repo.state = "whole"
               /\ at[e] \in {"tar", "source"} =>
                    staged[e] = [infra |-> infra, image |-> image, runner |-> runner,
                                 source |-> NoRepo]
  <2>0. Effects(r) /\ plan' = plan /\ Clones(r) /\ Packs(r)
    BY <1>4, CloneChanges DEF Step, Effects
  <2> SUFFICES ASSUME NEW e \in Procs, Exporting(e)'
               PROVE  /\ Active(e)' => Loaded(e)'
                      /\ at'[e] = "ended" /\ Last(e)' => Holds(bundle, e)'
    BY DEF ExportInv
  <2>1. Exporting(e) /\ NoImport(e)
    <3>1. Alone(e)
      BY OverlapFacts DEF Exporting, Alone
    <3> QED
      BY <2>0, <3>1 DEF Exporting, Op, Alone, NoImport
  <2>2. /\ Active(e) => Loaded(e)
        /\ at[e] = "ended" /\ Last(e) => Holds(bundle, e)
    BY <2>1 DEF ExportInv
  <2>3. Active(e) => r = e
    BY <1>4, OnlyExporter DEF Exporting
  <2>4. ASSUME r # e, Active(e)' PROVE FALSE
    BY <2>0, <2>3, <2>4 DEF Effects, Active
  <2>5. ASSUME r = e, Active(e)' PROVE Loaded(e)'
    <3>1. Exports(e)
      BY <1>4, <2>1, <2>5, BundleMoves DEF Exporting
    <3>2. SameImages /\ (at[e] \in {"ready", "tar", "source"} => repo' = repo)
      BY <2>0, <2>1, <2>5 DEF Packs, Clones, Exporting, SameImages
    <3>3. CASE at[e] = "idle"
      <4>1. at'[e] \notin {"ready", "tar", "source"}
        BY <2>1, <3>1, <3>3 DEF Exports, Exporting
      <4> QED
        BY <3>1, <3>2, <3>3, <4>1 DEF Exports, SameImages
    <3>4. CASE at[e] # "idle"
      <4>1. Active(e) /\ seen'[e] = seen[e]
        BY <2>0, <2>5, <3>4 DEF Effects, Active, Over
      <4>2. at'[e] = "ready" => repo'.state = "whole"
        <5>1. at'[e] = "ready" => at[e] = "tree" /\ repo.state = "partial"
          BY <2>1, <3>1 DEF Exports, Exporting, CloneInv
        <5> QED
          BY <1>0, <2>0, <2>5, <5>1 DEF Clones, TypeInv, TypeOK, InstTypeOK, Repos
      <4>3. at'[e] \in {"tar", "source"} => repo'.state = "whole"
        BY <2>2, <3>1, <3>2, <4>1 DEF Exports
      <4>4. at'[e] \in {"tar", "source"} =>
              staged'[e] = [infra |-> infra, image |-> image, runner |-> runner, source |-> NoRepo]
        BY <2>2, <3>1, <4>1 DEF Exports
      <4> QED
        BY <2>2, <3>2, <4>1, <4>2, <4>3, <4>4 DEF SameImages
    <3> QED
      BY <3>3, <3>4
  <2>6. ASSUME r = e, at'[e] = "ended" PROVE Holds(bundle, e)'
    <3>1. at[e] = "source" /\ bundle' = [staged[e] EXCEPT !.source = repo]
      BY <1>4, <2>1, <2>6, BundleMoves DEF Exporting, Exports
    <3>2. Active(e) /\ seen'[e] = seen[e]
      BY <2>0, <2>6, <3>1 DEF Effects, Active
    <3>3. repo.version >= seen[e].upstream
      BY <2>1, <3>1, <3>2 DEF CloneInv, Exporting
    <3> QED
      BY <2>2, <3>1, <3>2, <3>3 DEF Holds
  <2>7. ASSUME r # e, at'[e] = "ended", Last(e)' PROVE Holds(bundle, e)'
    <3>1. at[e] = "ended" /\ seen'[e] = seen[e] /\ past'[e] = past[e]
      BY <2>0, <2>7 DEF Effects
    <3>2. \A q \in Procs : at'[q] = "idle" => at[q] = "idle"
      BY <2>0 DEF Effects
    <3>3. Last(e)
      BY <2>0, <2>7, <3>1, <3>2 DEF Op
    <3>4. bundle' = bundle
      <4> SUFFICES ASSUME bundle' # bundle PROVE FALSE
        OBVIOUS
      <4>1. Op(r) = "export" /\ at[r] \in {"tar", "source"}
        BY <2>0 DEF Packs
      <4> QED
        BY <1>0, <2>7, <3>3, <4>1 DEF PastInv, Over
    <3> QED
      BY <2>2, <3>1, <3>3, <3>4 DEF Holds
  <2> QED
    BY <2>4, <2>5, <2>6, <2>7
<1> QED
  BY <1>0, <1>2, <1>3, <1>4, Actions

\* An import is kept.
LEMMA KeepsImport ==
  ImportInv /\ ExportInv /\ CloneInv /\ CtlInv /\ CtlInv' /\ [Next]_vars => ImportInv'
<1> SUFFICES ASSUME ImportInv, ExportInv, CloneInv, CtlInv, CtlInv', [Next]_vars PROVE ImportInv'
  OBVIOUS
<1>0. TypeInv /\ \A p \in Procs : PastInv(p) /\ PastInv(p)'
  BY DEF CtlInv
<1>1. ASSUME plan' = plan, at' = at, past' = past, seen' = seen, staged' = staged,
             repo' = repo, infra' = infra, image' = image, runner' = runner
      PROVE  ImportInv'
  BY <1>1 DEF ImportInv, Restores, Exporting, Alone, Overlap, Holds, Op
<1>2. CASE UNCHANGED vars
  BY <1>1, <1>2 DEF vars, instVars, ctlVars
<1>3. CASE Push
  BY <1>1, <1>3 DEF Push, ctlVars
<1>4. ASSUME NEW r \in Procs, Step(r) PROVE ImportInv'
  <2> DEFINE Same(e) == /\ seen[e].infra # 0 => infra = seen[e].infra
                        /\ seen[e].image # 0 => image = seen[e].image
                        /\ seen[e].runner # 0 => runner = seen[e].runner
             Goal(e, p) ==
               /\ at[p] \in {"load", "remove", "move", "ended"} => Holds(staged[p], e)
               /\ at[p] \in {"remove", "move", "ended"} => Same(e)
               /\ at[p] = "move" => repo = NoRepo
               /\ at[p] = "ended" => repo = staged[p].source
  <2>0. Effects(r) /\ plan' = plan
    BY <1>4 DEF Step, Effects
  <2> SUFFICES ASSUME NEW e \in Procs, NEW p \in Procs, Restores(e, p)' PROVE Goal(e, p)'
    BY DEF ImportInv
  <2>1. Op(p) = "import" /\ Exporting(e) /\ Alone(e) /\ Op(e) = "export"
    BY <2>0, OverlapFacts DEF Restores, Exporting, Alone, Op
  <2>2. e \in past'[p] /\ p \notin past'[p] /\ \A q \in past'[p] : at'[q] \in Over
    BY <1>0 DEF Restores, PastInv
  <2>3. r = p
    <3>1. at'[r] # "idle" /\ at[r] \notin Over
      BY <2>0 DEF Effects
    <3>2. r \in past'[p] \/ r \in {e, p}
      BY <3>1 DEF Restores
    <3>3. ASSUME r \in past'[p], r # p PROVE FALSE
      BY <1>0, <2>0, <3>1, <3>3 DEF Effects, PastInv
    <3> QED
      BY <2>2, <3>2, <3>3
  <2>4. Imports(p) /\ e # p
    BY <1>4, <2>1, <2>2, <2>3, BundleMoves
  <2>5. CASE at[p] = "idle"
    BY <2>4, <2>5 DEF Imports
  <2>6. CASE at[p] # "idle"
    <3>1. /\ past'[p] = past[p] /\ past'[e] = past[e] /\ at'[e] = at[e] /\ seen'[e] = seen[e]
          /\ \A q \in Procs \ {p} : past'[q] = past[q] /\ at'[q] = at[q]
      BY <2>0, <2>3, <2>4, <2>6 DEF Effects
    <3>2. Restores(e, p)
      BY <2>0, <2>1, <3>1 DEF Restores, Op
    <3>3. Goal(e, p)
      BY <3>2 DEF ImportInv
    <3>4. at'[p] = "load" => Holds(staged'[p], e)
      <4>1. at[e] = "ended" /\ \A q \in Procs \ {e} : Op(q) = "export" => q \in past[e] \/ at[q] = "idle"
        BY <2>1, <3>2 DEF Restores
      <4>2. Holds(bundle, e)
        BY <2>1, <4>1 DEF ExportInv
      <4> QED
        BY <2>4, <4>2 DEF Imports
    <3>5. at'[p] = "remove" => Holds(staged'[p], e) /\ Same(e)'
      BY <2>4, <3>1, <3>3 DEF Imports, Holds
    <3>6. at'[p] = "move" => Holds(staged'[p], e) /\ Same(e)' /\ repo' = NoRepo
      BY <2>4, <3>1, <3>3 DEF Imports, Holds, SameImages
    <3>7. at'[p] = "ended" => Holds(staged'[p], e) /\ Same(e)' /\ repo' = staged'[p].source
      BY <2>4, <3>1, <3>3 DEF Imports, Holds, SameImages, NoRepo
    <3>8. Holds(staged'[p], e) => Holds(staged[p], e)'
      BY <3>1 DEF Holds
    <3> QED
      BY <3>4, <3>5, <3>6, <3>7, <3>8
  <2> QED
    BY <2>5, <2>6
<1> QED
  BY <1>0, <1>2, <1>3, <1>4, Actions

LEMMA InitBundles == Init => ExportInv /\ ImportInv
<1> SUFFICES ASSUME Init PROVE ExportInv /\ ImportInv
  OBVIOUS
<1>1. PICK s \in Starts : InstInit(s.plans, s.version)
  BY DEF Init
<1>2. \A p \in Procs : /\ past[p] = {} /\ at[p] \in {"idle", "ended"}
                       /\ at[p] = "ended" => Op(p) = "none"
  BY <1>1 DEF InstInit, Op
<1> QED
  BY <1>2 DEF ExportInv, ImportInv, Restores, Exporting, Active

LEMMA ImportInvImplies == ImportInv => ImportIsExport
<1> SUFFICES ASSUME ImportInv, NEW e \in Procs, NEW p \in Procs, at[p] = "ended", Restores(e, p)
             PROVE  /\ seen[e].infra # 0 => infra = seen[e].infra
                    /\ seen[e].image # 0 => image = seen[e].image
                    /\ seen[e].runner # 0 => runner = seen[e].runner
                    /\ repo.state = "whole" /\ repo.version >= seen[e].upstream
  BY DEF ImportIsExport, Restores, Exporting
<1> QED
  BY DEF ImportInv, Holds

\* An import that is not disturbed leaves the images and the whole clone that the host of the
\* export had: the export is a snapshot if it is alone, and the import replaces what it finds.
THEOREM SpecImportIsExport == Spec => []ImportIsExport
<1>1. Init => CloneInv /\ ExportInv /\ ImportInv
  BY InitClone, InitBundles
<1>2. CloneInv /\ ExportInv /\ ImportInv /\ CtlInv /\ CtlInv' /\ [Next]_vars
      => CloneInv' /\ ExportInv' /\ ImportInv'
  BY KeepsClone, KeepsExport, KeepsImport
<1>3. ImportInv => ImportIsExport
  BY ImportInvImplies
<1> QED
  BY <1>1, <1>2, <1>3, SpecCtlInv, PTL DEF Spec

-----------------------------------------------------------------------------
(* Builds.                                                                  *)

Cleans(p) == Op(p) = "clean-build"

\* Build b is used by a process that overlaps with the clean command p.
Raced(p, b) == Cleans(p) /\ \E q \in Procs : Overlap(p, q) /\ build[q] = b

\* The images of a directory that is to go are gone before it, and a build that does not find
\* its directory any more has overlapped with the command that removed it.
BuildInv ==
  /\ \A p \in Procs : at[p] = "images" =>
       \A b \in images \cap doomed[p].builds :
         b \in doomed[p].images \/ b \in doomed[p].failed \/ Raced(p, b)
  /\ \A q \in Procs : at[q] = "building" /\ builds[build[q]] = "none" =>
       \E p \in Procs : Cleans(p) /\ Overlap(p, q)
  /\ \A p \in Procs : /\ at[p] \in {"record", "clear", "copy", "start", "up"}
                      /\ \A q \in Procs : Overlap(p, q) => ~Cleans(q)
                      => builds[build[p]] = "done"

OrphanInv == BuildInv /\ NoOrphanImages

\* What a step may do to the builds and to what is planned with them.
Later == {"record", "clear", "copy", "start", "up"}
Chooses(p) ==
  /\ build[p] # 0 => build'[p] = build[p]
  /\ doomed[p].failed \subseteq doomed'[p].failed
Changes(p) ==
  /\ images' \subseteq images \union (IF at[p] = "building" THEN {build[p]} ELSE {})
  /\ \A b \in BuildIds : builds'[b] = "none" =>
       \/ builds[b] = "none"
       \/ at[p] = "images" /\ b \in doomed[p].builds /\ doomed[p].images = {}
  /\ \A b \in BuildIds : builds[b] = "done" =>
       builds'[b] = "done" \/ (at[p] = "images" /\ b \in doomed[p].builds)
Builds(p) ==
  /\ at'[p] = "building" => builds'[build'[p]] # "none"
  /\ at'[p] \in Later => /\ build'[p] = build[p]
                         /\ (at[p] \in Later /\ builds' = builds) \/ builds'[build[p]] = "done"
CleansOne(p) ==
  at'[p] = "images" => \A b \in images' \cap doomed'[p].builds :
    \/ b \in doomed'[p].images \union doomed'[p].failed
    \/ /\ at[p] = "images" /\ b \in images \cap doomed[p].builds
       /\ b \notin doomed[p].images \union doomed[p].failed

LEMMA BuildChanges ==
  ASSUME CtlInv, NEW p \in Procs, Step(p)
  PROVE  Chooses(p) /\ Changes(p) /\ Builds(p) /\ CleansOne(p)
<1> DEFINE Goal == Chooses(p) /\ Changes(p) /\ Builds(p) /\ CleansOne(p)
<1>0. /\ at \in [Procs -> Steps] /\ OwnInv(p) /\ build \in [Procs -> 0 .. MaxBuild]
      /\ doomed \in [Procs -> Plans] /\ builds \in [BuildIds -> {"none", "empty", "done"}]
      /\ images \subseteq BuildIds /\ clock \in 0 .. MaxBuild /\ MaxBuild \in Nat
      /\ StepInv(p)
  BY WorkDirAssumption DEF CtlInv, TypeInv, TypeOK, WorkTypeOK
<1> USE DEF Chooses, Changes, Builds, CleansOne, Later, Goto, Ends, GivesUp
<1>1. ASSUME at'[p] \notin AtWork, UNCHANGED workVars PROVE Goal
  BY <1>1 DEF AtWork, OfRun, workVars, dirVars, ownVars
<1>2. Begin(p) \/ InstStep(p) \/ Killed(p) => at'[p] \notin AtWork
  BY InstMoves
<1> USE DEF dirVars, ownVars
<1>3. ResolveIds(p) => Goal
  BY <1>0 DEF ResolveIds, OwnInv, Early
<1>4. ResolveSources(p) => Goal
  BY <1>0 DEF ResolveSources
<1>5. CheckBuilt(p) => Goal
  BY <1>0 DEF CheckBuilt, Complete, BuildIds
<1>6. BuildStarts(p) => Goal
  <2>1. ASSUME BuildStarts(p) PROVE Goal
    <3> DEFINE b == IF build[p] = 0 THEN clock + 1 ELSE build[p]
    <3>1. clock \in 0 .. MaxBuild /\ build[p] \in 0 .. MaxBuild
      BY <1>0
    <3>2. b \in BuildIds /\ (build[p] # 0 => b = build[p])
      BY <1>0, <2>1, <3>1 DEF BuildStarts, BuildIds
    <3>3. /\ at' = [at EXCEPT ![p] = "building"] /\ build' = [build EXCEPT ![p] = b]
          /\ builds' = IF builds[b] = "none" THEN [builds EXCEPT ![b] = "empty"] ELSE builds
          /\ doomed' = doomed /\ images' = images /\ at[p] = "build"
      BY <2>1 DEF BuildStarts
    <3> HIDE DEF b
    <3> QED
      BY <1>0, <3>2, <3>3
  <2> QED
    BY <2>1
<1>7. BuildFails(p) => Goal
  BY <1>0 DEF BuildFails
<1>8. BuildEnds(p) => Goal
  <2>1. at[p] = "building" => build[p] \in BuildIds
    BY <1>0 DEF OwnInv
  <2> QED
    BY <1>0, <2>1 DEF BuildEnds
<1>9. RecordBuild(p) => Goal
  BY <1>0 DEF RecordBuild
<1>10. ClearExchange(p) => Goal
  BY <1>0 DEF ClearExchange
<1>11. CopyInputs(p) => Goal
  BY <1>0 DEF CopyInputs
<1>12. Start(p) => Goal
  BY <1>0 DEF Start
<1>13. Share(p) => Goal
  BY <1>0 DEF Share
<1>14. Finish(p) => Goal
  BY <1>0 DEF Finish
<1>15. PrintArtifacts(p) => Goal
  BY <1>0 DEF PrintArtifacts
<1>16. Archive(p) => Goal
  BY <1>0 DEF Archive
<1>17. PlanClean(p) => Goal
  <2>1. at[p] = "ready" => doomed[p].failed = {}
    BY <1>0 DEF OwnInv, Early, NoPlan
  <2>2. Found(p).builds = {} \/ (Found(p).builds = Present /\ Found(p).images = images \cap Present)
    BY DEF Found, NoPlan, FoundImages
  <2> QED
    BY <1>0, <2>1, <2>2 DEF PlanClean
<1>18. CleanImages(p) => Goal
  BY <1>0 DEF CleanImages, ctlVars, Plans
<1>19. CleanImageFails(p) => Goal
  BY <1>0 DEF CleanImageFails, ctlVars, Plans
<1>20. CleanDirs(p) => Goal
  BY <1>0 DEF CleanDirs
<1>21. CleanRuns(p) => Goal
  BY <1>0 DEF CleanRuns
<1>22. WorkStep(p) \/ CleanImageFails(p) => Goal
  BY <1>3, <1>4, <1>5, <1>6, <1>7, <1>8, <1>9, <1>10, <1>11, <1>12, <1>13, <1>14,
     <1>15, <1>16, <1>17, <1>18, <1>19, <1>20, <1>21 DEF WorkStep
<1> QED
  BY <1>1, <1>2, <1>22 DEF Step

\* Builds and their images are kept.
LEMMA KeepsBuild == OrphanInv /\ CtlInv /\ CtlInv' /\ [Next]_vars => OrphanInv'
<1> SUFFICES ASSUME OrphanInv, CtlInv, CtlInv', [Next]_vars PROVE OrphanInv'
  OBVIOUS
<1>0. /\ TypeInv /\ TypeInv' /\ BuildInv /\ NoOrphanImages
      /\ \A p \in Procs : OwnInv(p) /\ OwnInv(p)'
  BY DEF CtlInv, OrphanInv
<1>1. ASSUME plan' = plan, at' = at, past' = past, UNCHANGED workVars PROVE OrphanInv'
  BY <1>0, <1>1 DEF OrphanInv, BuildInv, NoOrphanImages, Raced, Cleans, Overlap, Op, workVars,
                    dirVars, ownVars
<1>2. CASE UNCHANGED vars
  BY <1>1, <1>2 DEF vars, instVars, ctlVars
<1>3. CASE Push /\ UNCHANGED workVars
  BY <1>1, <1>3 DEF Push, ctlVars
<1>4. ASSUME NEW r \in Procs, Step(r) PROVE OrphanInv'
  <2>0. Effects(r) /\ plan' = plan /\ Chooses(r) /\ Changes(r) /\ Builds(r) /\ CleansOne(r)
    BY <1>4, BuildChanges DEF Step, Effects
  <2>1. /\ \A p, q \in Procs : Overlap(p, q) => Overlap(p, q)'
        /\ \A p, q \in Procs : p # q /\ Active(p) /\ Active(q) => Overlap(p, q)
        /\ \A p \in Procs : Cleans(p)' = Cleans(p)
        /\ \A p \in Procs : build[p] # 0 => build'[p] = build[p]
        /\ \A p \in Procs : doomed[p].failed \subseteq doomed'[p].failed
    BY <2>0, OverlapFacts DEF Cleans, Op, Chooses, Effects
  <2>2. 0 \notin BuildIds
    BY DEF BuildIds
  <2>3. \A p \in Procs, b \in BuildIds : Raced(p, b) => Raced(p, b)'
    BY <2>1, <2>2 DEF Raced
  <2>4. \A p \in Procs : \A b \in doomed[p].builds : Cleans(p) /\ b \in BuildIds
    <3>1. \A p \in Procs : doomed[p].builds \subseteq BuildIds
      BY <1>0 DEF TypeInv, TypeOK, WorkTypeOK
    <3> QED
      BY <1>0, <3>1 DEF OwnInv, Cleans
  <2>5. images \subseteq BuildIds /\ images' \subseteq BuildIds
    BY <1>0 DEF TypeInv, TypeOK, WorkTypeOK
  <2>6. at[r] \in {"images", "building"} => Active(r)
    BY DEF Active
  <2>7. ASSUME NEW p \in Procs, at'[p] = "images", NEW b \in images' \cap doomed'[p].builds
        PROVE  b \in doomed'[p].images \/ b \in doomed'[p].failed \/ Raced(p, b)'
    <3>1. at[p] = "images" /\ b \in images \cap doomed[p].builds =>
            b \in doomed[p].images \/ b \in doomed[p].failed \/ Raced(p, b)
      BY <1>0 DEF BuildInv
    <3>2. CASE r = p
      BY <2>0, <2>3, <2>5, <2>7, <3>1, <3>2 DEF CleansOne
    <3>3. CASE r # p
      <4>1. at[p] = "images" /\ doomed'[p] = doomed[p] /\ Active(p)
        BY <2>0, <2>7, <3>3 DEF Effects, Active
      <4>2. CASE b \in images
        BY <2>3, <2>5, <2>7, <3>1, <4>1, <4>2
      <4>3. CASE b \notin images
        <5>1. at[r] = "building" /\ build[r] = b
          BY <2>0, <2>7, <4>3 DEF Changes
        <5>2. Raced(p, b)
          BY <2>1, <2>4, <2>6, <2>7, <3>3, <4>1, <5>1 DEF Raced
        <5> QED
          BY <2>3, <2>5, <5>2
      <4> QED
        BY <4>2, <4>3
    <3> QED
      BY <3>2, <3>3
  <2>8. ASSUME NEW q \in Procs, at'[q] = "building", builds'[build'[q]] = "none"
        PROVE  \E p \in Procs : Cleans(p)' /\ Overlap(p, q)'
    <3>1. r # q /\ at[q] = "building" /\ build'[q] = build[q] /\ Active(q) /\ build[q] \in BuildIds
      BY <1>0, <2>0, <2>8 DEF Builds, Effects, Active, OwnInv
    <3>2. CASE builds[build[q]] = "none"
      BY <1>0, <2>1, <3>1, <3>2 DEF BuildInv
    <3>3. CASE builds[build[q]] # "none"
      <4>1. at[r] = "images" /\ build[q] \in doomed[r].builds
        BY <2>0, <2>8, <3>1, <3>3 DEF Changes
      <4> QED
        BY <2>1, <2>4, <2>6, <3>1, <4>1
    <3> QED
      BY <3>2, <3>3
  <2>9. ASSUME NEW p \in Procs, at'[p] \in Later, \A q \in Procs : Overlap(p, q)' => ~Cleans(q)'
        PROVE  builds'[build'[p]] = "done"
    <3>1. \A q \in Procs : Overlap(p, q) => ~Cleans(q)
      BY <2>1, <2>9
    <3>2. at[p] \in Later => builds[build[p]] = "done"
      BY <1>0, <3>1 DEF BuildInv, Later
    <3>3. CASE r = p
      BY <2>0, <2>9, <3>2, <3>3 DEF Builds
    <3>4. CASE r # p
      <4>1. at[p] \in Later /\ build'[p] = build[p] /\ Active(p)
        BY <2>0, <2>9, <3>4 DEF Effects, Active, Later
      <4>2. build[p] \in BuildIds
        BY <1>0, <4>1 DEF OwnInv, Later
      <4>3. ~(at[r] = "images" /\ build[p] \in doomed[r].builds)
        BY <2>1, <2>4, <2>6, <3>1, <3>4, <4>1
      <4> QED
        BY <2>0, <3>2, <4>1, <4>2, <4>3 DEF Changes
    <3> QED
      BY <3>3, <3>4
  <2>10. ASSUME NEW b \in images', builds'[b] = "none"
         PROVE  \/ \E p \in Procs : b \in doomed'[p].failed
                \/ \E p, q \in Procs : Cleans(p)' /\ Overlap(p, q)' /\ build'[q] = b
    <3> DEFINE Excused == \/ \E p \in Procs : b \in doomed[p].failed
                          \/ \E p, q \in Procs : Cleans(p) /\ Overlap(p, q) /\ build[q] = b
    <3>1. b \in BuildIds
      BY <2>5
    <3>2. Excused
      <4>1. CASE b \notin images
        <5>1. at[r] = "building" /\ build[r] = b /\ at[r] # "images"
          BY <2>0, <2>10, <4>1 DEF Changes
        <5>2. builds[b] = "none"
          BY <2>0, <2>10, <3>1, <5>1 DEF Changes
        <5> QED
          BY <1>0, <5>1, <5>2 DEF BuildInv
      <4>2. CASE b \in images /\ builds[b] = "none"
        BY <1>0, <4>2 DEF NoOrphanImages, Cleans
      <4>3. CASE b \in images /\ builds[b] # "none"
        <5>1. at[r] = "images" /\ b \in doomed[r].builds /\ doomed[r].images = {}
          BY <2>0, <2>10, <3>1, <4>3 DEF Changes
        <5>2. b \in doomed[r].failed \/ Raced(r, b)
          BY <1>0, <4>3, <5>1 DEF BuildInv
        <5> QED
          BY <5>2 DEF Raced
      <4> QED
        BY <4>1, <4>2, <4>3
    <3> QED
      BY <2>1, <2>2, <3>1, <3>2
  <2>11. BuildInv'
    BY <2>7, <2>8, <2>9 DEF BuildInv, Later
  <2>12. NoOrphanImages'
    BY <2>10 DEF NoOrphanImages, Cleans
  <2> QED
    BY <2>11, <2>12 DEF OrphanInv
<1> QED
  BY <1>0, <1>2, <1>3, <1>4, Actions

LEMMA InitBuild == Init => OrphanInv
<1> SUFFICES ASSUME Init PROVE OrphanInv
  OBVIOUS
<1>1. PICK s \in Starts : InstInit(s.plans, s.version) /\ WorkInit(s.done)
  BY DEF Init
<1>2. s.done \subseteq BuildIds
  BY HostAssumption DEF BuildIds
<1>3. \A p \in Procs : at[p] \in {"idle", "ended"}
  BY <1>1 DEF InstInit
<1>4. \A b \in images : builds[b] = "done"
  BY <1>1, <1>2 DEF WorkInit
<1> QED
  BY <1>3, <1>4 DEF OrphanInv, BuildInv, NoOrphanImages

\* The images of a build whose directory is gone are gone too, even if clean is killed, unless it
\* reported a failure or the build overlapped with it: a clean command removes the images of the
\* directories it found before these, and a build that ends without its directory saw one.
THEOREM SpecNoOrphanImages == Spec => []NoOrphanImages
<1>1. Init => OrphanInv
  BY InitBuild
<1>2. OrphanInv /\ CtlInv /\ CtlInv' /\ [Next]_vars => OrphanInv'
  BY KeepsBuild
<1>3. OrphanInv => NoOrphanImages
  BY DEF OrphanInv
<1> QED
  BY <1>1, <1>2, <1>3, SpecCtlInv, PTL DEF Spec

-----------------------------------------------------------------------------
(* Runs.                                                                    *)

GivenTo(p) == IF plan[p].given THEN {Given} ELSE {}

\* Since q began nobody else has worked on run directory n.
Quiet(q, n) == \A r \in Procs \ {q} : WorksOn(r, n) => at[r] = "idle" \/ r \in past[q]

\* Nobody else works on the directory of p's run, or on those it forwards from.
Apart(p) ==
  /\ \A c \in sources[p] : c.name # name[p] /\ Quiet(p, c.name)
  /\ Quiet(p, name[p])

\* From the check of its inputs on a run keeps them, and its exchange has them from the copy on.
Running == (OfRun \union {"build", "building"}) \ {"inputs", "shared"}
InputInv ==
  \A p \in Procs :
    /\ at[p] = "copy" /\ Quiet(p, name[p]) => RunDir(name[p]).exchange[plan[p].scope] = {}
    /\ at[p] = "start" /\ Apart(p) =>
         RunDir(name[p]).exchange[plan[p].scope] = Forwarded(p) \union GivenTo(p)
    /\ at[p] = "up" /\ Apart(p) => started[p] = Forwarded(p) \union GivenTo(p)
    /\ at[p] \in Running /\ plan[p].required /\ Apart(p) /\ Op(p) = "run" =>
         Forwarded(p) \union GivenTo(p) # {}

\* A step leaves directory n as it is.
Same(n) == /\ n \in DOMAIN runs' <=> n \in DOMAIN runs
           /\ n \in DOMAIN runs => runs'[n] = runs[n]

\* What writing a directory of a run does to what it says.
LEMMA Writes ==
  ASSUME CtlInv, NEW p \in Procs, name[p] \in Names, NEW dir, Write(p, dir)
  PROVE  /\ DOMAIN runs' = DOMAIN runs \union {name[p]} /\ runs'[name[p]] = dir
         /\ RunDir(name[p])' = dir \/ name'[p] # name[p]
         /\ \A n : n # name[p] => Same(n)
BY DEF Write, Same, RunDir

LEMMA SameDir ==
  ASSUME NEW n, Same(n)
  PROVE  RunDir(n)' = RunDir(n) /\ \A t : Forwardable(n, t)' = Forwardable(n, t)
BY DEF Same, RunDir, Forwardable

LEMMA DirFields ==
  ASSUME NEW d \in RunDirs, NEW s \in Scopes, NEW b, NEW A, NEW q, NEW B
  PROVE  LET r1 == [d EXCEPT !.build = b]
             r2 == [d EXCEPT !.scopes = @ \union {s}, !.exchange[s] = {}]
             r3 == [d EXCEPT !.scopes = @ \union {s}, !.exchange[s] = @ \union A]
             r4 == [d EXCEPT !.submit[s] = @ \union {q}, !.exchange[s] = A, !.processed[s] = B]
         IN /\ r1.build = b /\ r1.submit = d.submit
            /\ r2.build = d.build /\ r2.submit = d.submit /\ r2.exchange[s] = {}
            /\ r3.build = d.build /\ r3.submit = d.submit
            /\ r3.exchange[s] = d.exchange[s] \union A
            /\ r4.build = d.build
            /\ \A t \in Scopes : r4.submit[t] \subseteq d.submit[t] \union {q}
<1>1. /\ d.submit \in [Scopes -> SUBSET Procs] /\ d.exchange \in [Scopes -> SUBSET Artifacts]
      /\ DOMAIN d = {"build", "scopes", "submit", "exchange", "processed"}
  BY DEF RunDirs, ByScope
<1> QED
  BY <1>1

\* What a step may do to the directories of runs.
Recorded == {"clear", "copy", "start", "up", "shared"}
Dirs(p) ==
  /\ \A n \in Names : WorksOn(p, n) \/ Same(n)
  /\ Op(p) = "run" => \A n \in Names : n # name[p] => Same(n)
  /\ \A n \in Names, t \in Scopes :
       RunDir(n)'.submit[t] \subseteq RunDir(n).submit[t] \union {p}
  /\ DOMAIN runs' \subseteq DOMAIN runs \union
       (IF Op(p) = "run" /\ name[p] = RunName(p) THEN {RunName(p)} ELSE {})
\* What a run has done by then.
Records(p) ==
  /\ at'[p] \in Recorded =>
       /\ name'[p] = name[p] /\ build'[p] = build[p]
       /\ \/ at[p] = "record" /\ name[p] \in DOMAIN runs' /\ runs'[name[p]].build = build[p]
          \/ /\ at[p] \in Recorded
             /\ name[p] \in DOMAIN runs =>
                  name[p] \in DOMAIN runs' /\ runs'[name[p]].build = runs[name[p]].build
  /\ at[p] \in Recorded /\ at'[p] \notin Recorded =>
       at'[p] \in Over /\ runs' = runs /\ name' = name
Inputs(p) ==
  LET s == plan[p].scope IN
  /\ Op(p) = "run" /\ at'[p] \in Running =>
       /\ name'[p] = name[p]
       /\ \/ /\ at[p] = "inputs" /\ at'[p] = "check" /\ runs' = runs
             /\ plan[p].required => plan[p].given
                  \/ \E c \in sources'[p] : Forwardable(c.name, c.scope) # {}
          \/ at[p] \in Running /\ sources'[p] = sources[p]
  /\ at'[p] = "copy" => RunDir(name[p])'.exchange[s] = {}
  /\ at'[p] = "start" =>
       /\ at[p] = "copy"
       /\ RunDir(name[p])'.exchange[s] =
            RunDir(name[p]).exchange[s] \union (Forwarded(p) \union GivenTo(p))
  /\ at'[p] = "up" => at[p] = "start" /\ started'[p] = RunDir(name[p]).exchange[s]
\* What a command has answered.
Responds(p) ==
  /\ started'[p] # started[p] => at[p] = "start" /\ at'[p] = "up"
  /\ name'[p] # name[p] => at[p] = "ready"
  /\ answer'[p] # answer[p] =>
       LET n == Resolved(plan[p].run) IN
       /\ at[p] = "ready" /\ runs' = runs /\ answer'[p].name = n
       /\ at'[p] \in Over
       /\ \/ /\ Op(p) = "artifacts"
             /\ answer'[p].build = IF RunDir(n).build # 0 THEN RunDir(n).build ELSE Latest
          \/ Op(p) = "archive" /\ answer'[p].files = RunDir(n).submit[plan[p].scope]

\* The steps that write.
LEMMA WriteChanges ==
  ASSUME CtlInv, NEW p \in Procs, Step(p),
         RecordBuild(p) \/ ClearExchange(p) \/ CopyInputs(p) \/ Share(p)
  PROVE  Dirs(p) /\ Records(p) /\ Inputs(p) /\ Responds(p)
<1> DEFINE s == plan[p].scope
           d == RunDir(name[p])
<1>0. /\ TypeInv /\ OwnInv(p) /\ StepInv(p) /\ at \in [Procs -> Steps] /\ Effects(p)
  BY DEF CtlInv, TypeInv, Step
<1>1. /\ Op(p) = "run" /\ name[p] = RunName(p) /\ name[p] \in Names /\ name' = name
      /\ ownVars' = ownVars
  BY <1>0, CommandFacts
     DEF RecordBuild, ClearExchange, CopyInputs, Share, OwnInv, StepInv, OfRun, ownVars
<1>2. s \in Scopes /\ d \in RunDirs
  BY <1>0, CommandFacts, WorkDirFacts
<1>3. ASSUME NEW dir, Write(p, dir), at[p] \in {"record", "clear", "copy", "up"},
             dir.build = IF at[p] = "record" THEN build[p] ELSE d.build,
             \A t \in Scopes : dir.submit[t] \subseteq d.submit[t] \union {p}
      PROVE  Dirs(p) /\ Records(p)
  <2>1. /\ DOMAIN runs' = DOMAIN runs \union {name[p]} /\ runs'[name[p]] = dir
        /\ RunDir(name[p])' = dir /\ \A n : n # name[p] => Same(n)
    BY <1>1, <1>3, Writes
  <2>2. ASSUME NEW n \in Names, NEW t \in Scopes
        PROVE  RunDir(n)'.submit[t] \subseteq RunDir(n).submit[t] \union {p}
    <3>1. CASE n = name[p]
      <4>1. RunDir(n)' = dir
        BY <2>1, <3>1 DEF RunDir
      <4> QED
        BY <1>3, <3>1, <4>1
    <3>2. CASE n # name[p]
      BY <2>1, <3>2, SameDir
    <3> QED
      BY <3>1, <3>2
  <2>3. Dirs(p)
    BY <1>1, <2>1, <2>2 DEF Dirs, WorksOn
  <2>4. name[p] \in DOMAIN runs => d = runs[name[p]]
    BY DEF RunDir
  <2>5. at'[p] \in Recorded
    BY <1>0, <1>1 DEF RecordBuild, ClearExchange, CopyInputs, Share, Goto, Recorded
  <2> QED
    BY <1>1, <1>3, <2>1, <2>3, <2>4, <2>5 DEF Records, Recorded, ownVars
<1>4. at'[p] # "up" /\ at'[p] # "check" /\ Responds(p) /\ sources' = sources /\ started' = started
  BY <1>0, <1>1 DEF RecordBuild, ClearExchange, CopyInputs, Share, Goto, Responds, ownVars
<1>5. CASE RecordBuild(p)
  <2>1. Dirs(p) /\ Records(p)
    <3> DEFINE dir == [d EXCEPT !.build = build[p]]
    <3>1. Write(p, dir) /\ at[p] = "record"
      BY <1>5 DEF RecordBuild
    <3>2. dir.build = build[p] /\ dir.submit = d.submit
      BY <1>2 DEF RunDirs
    <3> HIDE DEF dir, d
    <3> QED
      BY <1>3, <3>1, <3>2
  <2>2. Inputs(p)
    BY <1>0, <1>1, <1>4, <1>5 DEF RecordBuild, Goto, Inputs, Running, OfRun
  <2> QED
    BY <1>4, <2>1, <2>2
<1>6. CASE ClearExchange(p)
  <2> DEFINE dir == [d EXCEPT !.scopes = @ \union {s}, !.exchange[s] = {}]
  <2>1. Write(p, dir) /\ dir.exchange[s] = {} /\ dir.build = d.build /\ dir.submit = d.submit
    BY SMTT(30), <1>2, <1>6, DirFields DEF ClearExchange
  <2>2. /\ at[p] = "clear" /\ at'[p] = "copy" /\ Write(p, dir)
    BY <1>0, <1>6 DEF ClearExchange, Goto
  <2> HIDE DEF dir
  <2>3. Dirs(p) /\ Records(p)
    BY <1>3, <2>1, <2>2
  <2>4. RunDir(name[p])' = dir
    BY <1>1, <2>1, Writes
  <2>5. Inputs(p)
    BY <1>1, <1>4, <2>1, <2>2, <2>4 DEF Inputs, Running, OfRun
  <2> QED
    BY <1>4, <2>3, <2>5
<1>7. CASE CopyInputs(p)
  <2> DEFINE A == Forwarded(p) \union GivenTo(p)
             dir == [d EXCEPT !.scopes = @ \union {s}, !.exchange[s] = @ \union A]
  <2>1. Write(p, dir)
    BY <1>7 DEF CopyInputs, GivenTo
  <2>2. dir.exchange[s] = d.exchange[s] \union A /\ dir.build = d.build /\ dir.submit = d.submit
    <3> HIDE DEF A
    <3> QED
      BY <1>2, DirFields
  <2>3. at[p] = "copy" /\ at'[p] = "start"
    BY <1>0, <1>7 DEF CopyInputs, Goto
  <2> HIDE DEF dir, A
  <2>4. Dirs(p) /\ Records(p)
    BY <1>3, <2>1, <2>2, <2>3
  <2>5. RunDir(name[p])' = dir
    BY <1>1, <2>1, Writes
  <2>6. Inputs(p)
    BY <1>1, <1>4, <2>2, <2>3, <2>5 DEF Inputs, Running, OfRun, A
  <2> QED
    BY <1>4, <2>4, <2>6
<1>8. CASE Share(p)
  <2> DEFINE shared == d.exchange[s] \union d.submit[s] \union {p}
             done == IF plan[p].processed THEN d.processed[s] \union shared ELSE d.processed[s]
             dir == [d EXCEPT !.submit[s] = @ \union {p}, !.exchange[s] = shared,
                              !.processed[s] = done]
  <2>1. Write(p, dir)
    BY <1>2, <1>8 DEF Share, RunDirs, ByScope
  <2>2. dir.build = d.build /\ \A t \in Scopes : dir.submit[t] \subseteq d.submit[t] \union {p}
    <3> HIDE DEF shared, done
    <3> QED
      BY <1>2, DirFields
  <2>3. at[p] = "up" /\ at'[p] = "shared"
    BY <1>0, <1>8 DEF Share, Goto
  <2> HIDE DEF dir
  <2>4. Dirs(p) /\ Records(p)
    BY <1>3, <2>1, <2>2, <2>3
  <2>5. Inputs(p)
    BY <1>4, <2>3 DEF Inputs, Running, OfRun
  <2> QED
    BY <1>4, <2>4, <2>5
<1> QED
  BY <1>5, <1>6, <1>7, <1>8

LEMMA RunChanges ==
  ASSUME CtlInv, NEW p \in Procs, Step(p)
  PROVE  Dirs(p) /\ Records(p) /\ Inputs(p) /\ Responds(p)
<1> DEFINE Goal == Records(p) /\ Inputs(p) /\ Responds(p)
<1>0. /\ TypeInv /\ OwnInv(p) /\ StepInv(p) /\ at \in [Procs -> Steps] /\ Effects(p)
      /\ build \in [Procs -> 0 .. MaxBuild] /\ name \in [Procs -> Names \union {NoName}]
      /\ sources \in [Procs -> SUBSET [name : Names, scope : Scopes]]
      /\ answer \in [Procs -> Answers] /\ DOMAIN runs \subseteq Names
      /\ started \in [Procs -> (SUBSET Artifacts) \union {NotYet}]
      /\ doomed[p].runs \subseteq Names
  BY DEF CtlInv, TypeInv, Step, TypeOK, WorkTypeOK
<1>1. runs' = runs => Dirs(p)
  BY DEF Dirs, Same, RunDir
<1>2. ASSUME at'[p] \notin AtWork, UNCHANGED workVars PROVE Dirs(p) /\ Goal
  <2>1. Begin(p) \/ InstStep(p) => at[p] \notin Recorded
    <3>1. InstStep(p) => at[p] \notin Recorded
      BY DEF Recorded, InstStep, InitRepoStep, Lock, GitStarts, GitFails, GitEnds, PrepareStep,
             PrepareInfra, Bake, BuildRunner, SaveImages, StartTar, SaveSource, Extract,
             LoadImages, RemoveSource, MoveSource, RemoveImages
    <3> QED
      BY <3>1 DEF Begin, Recorded
  <2>2. at[p] \in Recorded => at'[p] \in Over
    <3>1. Killed(p) => at'[p] = "killed"
      BY <1>0 DEF Killed, Goto
    <3> QED
      BY <1>2, <2>1, <3>1, WorkMoves DEF Step, Over, AtWork
  <2>3. /\ runs' = runs /\ name' = name /\ build' = build /\ sources' = sources
        /\ started' = started /\ answer' = answer
    BY <1>2 DEF workVars, dirVars, ownVars
  <2>4. at'[p] \notin OfRun \union {"build", "building"}
    BY <1>2 DEF AtWork
  <2> QED
    BY <1>1, <2>2, <2>3, <2>4 DEF Records, Recorded, Inputs, Running, Responds, OfRun
<1>3. Begin(p) \/ InstStep(p) \/ Killed(p) => at'[p] \notin AtWork
  BY InstMoves
<1>4. at[p] \in AtWork => at[p] # "ready"
  BY DEF AtWork, OfRun
<1> USE DEF Records, Recorded, Inputs, Running, Responds, OfRun, Goto, Ends, GivesUp, Over, dirVars,
            ownVars
<1>5. ResolveIds(p) => runs' = runs /\ Goal
  BY <1>0 DEF ResolveIds, Op
<1>6. ResolveSources(p) => runs' = runs /\ Goal
  <2>1. ASSUME ResolveSources(p) PROVE Goal
    <3>1. /\ at[p] = "inputs" /\ at'[p] \in {"check", "failed"} /\ runs' = runs /\ name' = name
          /\ started' = started /\ answer' = answer
      BY <1>0, <2>1 DEF ResolveSources
    <3>2. CASE at'[p] = "check"
      <4>1. PICK chosen : sources' = [sources EXCEPT ![p] = chosen] /\ InputsPresent(p, chosen)
        <5>1. CASE plan[p].forward = NoName
          BY <1>0, <2>1, <3>2, <5>1 DEF ResolveSources
        <5>2. CASE plan[p].forward # NoName
          <6>1. \E chosen \in { {c} : c \in Candidates(plan[p].forward) } :
                  /\ sources' = [sources EXCEPT ![p] = chosen]
                  /\ at' = [at EXCEPT ![p] = IF InputsPresent(p, chosen) THEN "check" ELSE "failed"]
            BY <1>0, <2>1, <3>2, <5>2 DEF ResolveSources
          <6> QED
            BY <1>0, <3>2, <6>1
        <5> QED
          BY <5>1, <5>2
      <4>2. sources'[p] = chosen
        BY <1>0, <4>1
      <4> QED
        BY <3>1, <3>2, <4>1, <4>2 DEF InputsPresent
    <3>3. CASE at'[p] = "failed"
      BY <3>1, <3>3
    <3> QED
      BY <3>1, <3>2, <3>3
  <2> QED
    BY <2>1 DEF ResolveSources
<1>7. CheckBuilt(p) => runs' = runs /\ Goal
  BY <1>0 DEF CheckBuilt
<1>8. BuildStarts(p) => runs' = runs /\ Goal
  BY <1>0 DEF BuildStarts
<1>9. BuildFails(p) => runs' = runs /\ Goal
  BY <1>0 DEF BuildFails
<1>10. BuildEnds(p) => runs' = runs /\ Goal
  BY <1>0 DEF BuildEnds
<1>11. Start(p) => runs' = runs /\ Goal
  BY <1>0 DEF Start
<1>12. Finish(p) => runs' = runs /\ Goal
  BY <1>0 DEF Finish
<1>13. PrintArtifacts(p) => runs' = runs /\ Goal
  BY <1>0 DEF PrintArtifacts, Op, Over
<1>14. Archive(p) => runs' = runs /\ Goal
  BY <1>0 DEF Archive, Op, Over
<1>15. PlanClean(p) => runs' = runs /\ Goal
  BY <1>0 DEF PlanClean
<1>16. CleanImages(p) => runs' = runs /\ Goal
  BY <1>0 DEF CleanImages, ctlVars
<1>17. CleanImageFails(p) => runs' = runs /\ Goal
  BY <1>0 DEF CleanImageFails, ctlVars
<1>18. CleanDirs(p) => runs' = runs /\ Goal
  BY <1>0 DEF CleanDirs
<1>19. CleanRuns(p) => Dirs(p) /\ Goal
  <2>1. CleanRuns(p) => Goal
    BY <1>0 DEF CleanRuns
  <2>2. ASSUME CleanRuns(p) PROVE Dirs(p)
    <3>1. /\ DOMAIN runs' = DOMAIN runs \ doomed[p].runs
          /\ \A n \in DOMAIN runs' : runs'[n] = runs[n]
      BY <2>2 DEF CleanRuns
    <3>2. \A n \in doomed[p].runs : WorksOn(p, n)
      BY <1>0 DEF OwnInv, WorksOn
    <3>3. \A n \in Names : n \notin doomed[p].runs => Same(n)
      BY <3>1 DEF Same
    <3>4. ASSUME NEW n \in Names, NEW t \in Scopes
          PROVE  RunDir(n)'.submit[t] \subseteq RunDir(n).submit[t] \union {p}
      <4>1. CASE n \in doomed[p].runs
        BY <3>1, <4>1 DEF RunDir, NewRunDir, Nothing
      <4>2. CASE n \notin doomed[p].runs
        BY <3>3, <4>2, SameDir
      <4> QED
        BY <4>1, <4>2
    <3>5. Op(p) = "run" => doomed[p].runs = {}
      BY <1>0 DEF OwnInv
    <3> QED
      BY <3>1, <3>2, <3>3, <3>4, <3>5 DEF Dirs
  <2> QED
    BY <2>1, <2>2
<1> QED
  BY <1>1, <1>2, <1>3, <1>5, <1>6, <1>7, <1>8, <1>9, <1>10, <1>11, <1>12, <1>13, <1>14,
     <1>15, <1>16, <1>17, <1>18, <1>19, WriteChanges DEF WorkStep, Step

\* Where nobody else works, a step of somebody else changes nothing.
LEMMA QuietStays ==
  ASSUME CtlInv, NEW r \in Procs, Step(r), NEW q \in Procs, r # q, NEW n \in Names,
         \A x \in Procs \ {q} : WorksOn(x, n) => at'[x] = "idle" \/ x \in past'[q]
  PROVE  Same(n) /\ Quiet(q, n)
<1>1. Effects(r) /\ Dirs(r) /\ PastInv(q)
  BY RunChanges DEF Step, CtlInv
<1>2. ~WorksOn(r, n)
  BY <1>1 DEF Effects, PastInv
<1>3. Same(n)
  BY <1>1, <1>2 DEF Dirs
<1>4. Quiet(q, n)
  BY <1>1, <1>2 DEF Effects, Quiet
<1> QED
  BY <1>3, <1>4

\* So it was before, if it is now, for a command that takes a step itself.
LEMMA QuietBefore ==
  ASSUME NEW p \in Procs, Effects(p), at[p] # "idle", NEW n,
         \A x \in Procs \ {p} : WorksOn(x, n) => at'[x] = "idle" \/ x \in past'[p]
  PROVE  Quiet(p, n)
BY DEF Effects, Quiet

LEMMA SameForwarded ==
  ASSUME NEW p \in Procs, sources'[p] = sources[p], \A c \in sources[p] : Same(c.name)
  PROVE  Forwarded(p)' = Forwarded(p)
<1>1. \A c \in sources[p] : Forwardable(c.name, c.scope)' = Forwardable(c.name, c.scope)
  BY SameDir
<1> QED
  BY <1>1 DEF Forwarded

\* The inputs of runs are kept.
LEMMA KeepsInput == InputInv /\ CtlInv /\ CtlInv' /\ [Next]_vars => InputInv'
<1> SUFFICES ASSUME InputInv, CtlInv, CtlInv', [Next]_vars PROVE InputInv'
  OBVIOUS
<1>0. TypeInv /\ TypeInv'
  BY DEF CtlInv
<1>1. ASSUME plan' = plan, at' = at, past' = past, UNCHANGED workVars PROVE InputInv'
  <2>1. /\ runs' = runs /\ name' = name /\ sources' = sources /\ started' = started
    BY <1>1 DEF workVars, dirVars, ownVars
  <2>2. \A p \in Procs : /\ RunDir(name[p])' = RunDir(name[p]) /\ Forwarded(p)' = Forwarded(p)
                         /\ Op(p)' = Op(p) /\ GivenTo(p)' = GivenTo(p)
    BY <1>1, <2>1 DEF RunDir, Forwarded, Forwardable, Op, GivenTo
  <2>3. \A p \in Procs : /\ Quiet(p, name[p])' = Quiet(p, name[p])
                         /\ \A c \in sources[p] : Quiet(p, c.name)' = Quiet(p, c.name)
    BY <1>1, <2>1 DEF Quiet, WorksOn, Op, RunName, Generated
  <2>4. \A p \in Procs : Apart(p)' = Apart(p)
    BY <2>1, <2>3 DEF Apart
  <2> QED
    BY <1>1, <2>1, <2>2, <2>3, <2>4 DEF InputInv
<1>2. CASE UNCHANGED vars
  BY <1>1, <1>2 DEF vars, instVars, ctlVars
<1>3. CASE Push /\ UNCHANGED workVars
  BY <1>1, <1>3 DEF Push, ctlVars
<1>4. ASSUME NEW r \in Procs, Step(r) PROVE InputInv'
  <2>0. Effects(r) /\ plan' = plan
    BY <1>4 DEF Step, Effects
  <2> SUFFICES ASSUME NEW p \in Procs
               PROVE  LET s == plan[p].scope IN
                      /\ at'[p] = "copy" /\ Quiet(p, name[p])' => RunDir(name[p])'.exchange[s] = {}
                      /\ at'[p] = "start" /\ Apart(p)' =>
                           RunDir(name[p])'.exchange[s] = Forwarded(p)' \union GivenTo(p)
                      /\ at'[p] = "up" /\ Apart(p)' =>
                           started'[p] = Forwarded(p)' \union GivenTo(p)
                      /\ at'[p] \in Running /\ plan[p].required /\ Apart(p)' /\ Op(p) = "run" =>
                           Forwarded(p)' \union GivenTo(p) # {}
    BY <2>0 DEF InputInv, GivenTo, Op
  <2> DEFINE s == plan[p].scope
             Alike(n) == \A x \in Procs \ {p} : WorksOn(x, n) => at'[x] = "idle" \/ x \in past'[p]
  <2>1. Quiet(p, name[p])' => Alike(name'[p])
    BY <2>0 DEF Quiet, WorksOn, Op, RunName, Generated
  <2>2. Apart(p)' => /\ Alike(name'[p])
                     /\ \A c \in sources'[p] : c.name # name'[p] /\ Alike(c.name)
    BY <2>0 DEF Apart, Quiet, WorksOn, Op, RunName, Generated
  <2> HIDE DEF Alike
  <2>3. /\ at'[p] \in {"copy", "start", "up"} => at'[p] \in Running /\ Op(p) = "run"
        /\ at[p] \in {"copy", "start", "up"} => at[p] \in Running /\ Op(p) = "run"
    <3>1. StepInv(p) /\ StepInv(p)'
      BY DEF CtlInv
    <3> QED
      BY <2>0, <3>1 DEF Running, OfRun, StepInv, Op
  <2>4. /\ /\ at[p] = "copy" /\ Quiet(p, name[p]) => RunDir(name[p]).exchange[s] = {}
        /\ at[p] = "start" /\ Apart(p) =>
             RunDir(name[p]).exchange[s] = Forwarded(p) \union GivenTo(p)
        /\ at[p] = "up" /\ Apart(p) => started[p] = Forwarded(p) \union GivenTo(p)
        /\ at[p] \in Running /\ plan[p].required /\ Apart(p) /\ Op(p) = "run" =>
             Forwarded(p) \union GivenTo(p) # {}
    BY DEF InputInv
  <2>5. \A c \in sources[p] : c.name \in Names
    BY <1>0 DEF TypeInv, TypeOK, WorkTypeOK
  <2>6. at'[p] \in Running /\ Op(p) = "run" => name'[p] = RunName(p) /\ name'[p] \in Names
    BY <1>0, <2>0, CommandFacts DEF Running, CtlInv, OwnInv, Op, RunName, Generated
  <2>7. CASE r # p
    <3>1. /\ at'[p] = at[p] /\ name'[p] = name[p] /\ sources'[p] = sources[p]
          /\ started'[p] = started[p]
      BY <2>0, <2>7 DEF Effects
    <3>2. \A n \in Names : Alike(n) => Same(n) /\ Quiet(p, n)
      BY <1>4, <2>7, QuietStays DEF Alike
    <3>3. ASSUME at'[p] = "copy", Quiet(p, name[p])' PROVE RunDir(name[p])'.exchange[s] = {}
      <4>1. Same(name[p]) /\ Quiet(p, name[p])
        BY <2>1, <2>3, <2>6, <3>1, <3>2, <3>3
      <4>2. RunDir(name[p])' = RunDir(name[p])
        BY <3>1, <4>1 DEF RunDir, Same
      <4> QED
        BY <2>4, <3>1, <3>3, <4>1, <4>2
    <3>4. ASSUME at'[p] \in Running, Op(p) = "run", Apart(p)'
          PROVE  /\ Apart(p) /\ RunDir(name[p])' = RunDir(name[p]) /\ Forwarded(p)' = Forwarded(p)
      <4>1. Same(name[p]) /\ Quiet(p, name[p])
        BY <2>2, <2>6, <3>1, <3>2, <3>4
      <4>2. \A c \in sources[p] : c.name # name[p] /\ Same(c.name) /\ Quiet(p, c.name)
        BY <2>2, <2>5, <3>1, <3>2, <3>4
      <4>3. RunDir(name[p])' = RunDir(name[p])
        BY <3>1, <4>1 DEF RunDir, Same
      <4> QED
        BY <3>1, <4>1, <4>2, <4>3, SameForwarded DEF Apart
    <3> QED
      BY <2>3, <2>4, <3>1, <3>3, <3>4
  <2>8. CASE r = p
    <3>1. Inputs(p) /\ Dirs(p)
      BY <1>4, <2>8, RunChanges
    <3>2. at'[p] \in Running /\ Op(p) = "run" => at[p] # "idle"
      BY <3>1 DEF Inputs, Running, OfRun
    <3>3. \A n : at[p] # "idle" /\ Alike(n) => Quiet(p, n)
      BY <2>0, <2>8, QuietBefore DEF Alike
    <3>4. at'[p] = "copy" => RunDir(name[p])'.exchange[s] = {}
      BY <3>1 DEF Inputs
    <3>5. ASSUME at'[p] \in Running, Op(p) = "run", Apart(p)', at[p] \in Running
          PROVE  Apart(p) /\ Forwarded(p)' = Forwarded(p) /\ name'[p] = name[p]
      <4>1. name'[p] = name[p] /\ sources'[p] = sources[p]
        BY <3>1, <3>5 DEF Inputs, Running, OfRun
      <4>2. Apart(p)
        BY <2>2, <3>2, <3>3, <3>5, <4>1 DEF Apart
      <4>3. \A c \in sources[p] : Same(c.name)
        BY <2>2, <2>5, <3>1, <3>5, <4>1 DEF Dirs
      <4> QED
        BY <4>1, <4>2, <4>3, SameForwarded
    <3>6. at'[p] = "start" /\ Apart(p)' =>
            RunDir(name[p])'.exchange[s] = Forwarded(p)' \union GivenTo(p)
      <4>1. at'[p] = "start" =>
              /\ at[p] = "copy" /\ at[p] \in Running
              /\ RunDir(name[p])'.exchange[s] =
                   RunDir(name[p]).exchange[s] \union (Forwarded(p) \union GivenTo(p))
        BY <3>1 DEF Inputs, Running, OfRun
      <4> QED
        BY <2>3, <2>4, <3>5, <4>1 DEF Apart
    <3>7. at'[p] = "up" /\ Apart(p)' => started'[p] = Forwarded(p)' \union GivenTo(p)
      <4>1. at'[p] = "up" => /\ at[p] = "start" /\ at[p] \in Running
                             /\ started'[p] = RunDir(name[p]).exchange[s]
        BY <3>1 DEF Inputs, Running, OfRun
      <4> QED
        BY <2>3, <2>4, <3>5, <4>1
    <3>8. ASSUME at'[p] \in Running, plan[p].required, Apart(p)', Op(p) = "run"
          PROVE  Forwarded(p)' \union GivenTo(p) # {}
      <4>1. CASE at[p] \in Running
        BY <2>4, <3>5, <3>8, <4>1
      <4>2. CASE at[p] \notin Running
        <5>1. /\ runs' = runs
              /\ plan[p].given \/ \E c \in sources'[p] : Forwardable(c.name, c.scope) # {}
          BY <3>1, <3>8, <4>2 DEF Inputs
        <5>2. \A c : Forwardable(c.name, c.scope)' = Forwardable(c.name, c.scope)
          BY <5>1 DEF Forwardable
        <5>3. Forwarded(p)' = UNION { Forwardable(c.name, c.scope) : c \in sources'[p] }
          BY <5>1 DEF Forwarded, Forwardable
        <5> QED
          BY <5>1, <5>3 DEF GivenTo
      <4> QED
        BY <4>1, <4>2
    <3> QED
      BY <3>4, <3>6, <3>7, <3>8
  <2> QED
    BY <2>7, <2>8
<1> QED
  BY <1>0, <1>2, <1>3, <1>4, Actions

LEMMA InputInvImplies == CtlInv /\ OrphanInv /\ InputInv => RunsStartRight
<1> SUFFICES ASSUME CtlInv, OrphanInv, InputInv PROVE RunsStartRight
  OBVIOUS
<1>1. TypeOK
  BY DEF CtlInv, TypeInv
<1>2. ASSUME NEW p \in Procs, at[p] = "up",
             \A c \in sources[p] : c.name # name[p] /\ Undisturbed(p, p, c.name),
             Undisturbed(p, p, name[p])
      PROVE  /\ Apart(p) /\ Op(p) = "run" /\ at[p] \in Running
             /\ started[p] = Forwarded(p) \union GivenTo(p)
  <2>1. \A n : Undisturbed(p, p, n) => Quiet(p, n)
    BY <1>2 DEF Undisturbed, Quiet, Active
  <2>2. Apart(p)
    BY <1>2, <2>1 DEF Apart
  <2>3. Op(p) = "run" /\ at[p] \in Running
    BY <1>2 DEF CtlInv, StepInv, OfRun, Running
  <2> QED
    BY <1>2, <2>2, <2>3 DEF InputInv
<1>3. FreshExchange
  <2> SUFFICES ASSUME NEW p \in Procs, at[p] = "up",
                      \A c \in sources[p] : c.name # name[p] /\ Undisturbed(p, p, c.name),
                      Undisturbed(p, p, name[p])
               PROVE  started[p] = (UNION { Forwardable(c.name, c.scope) : c \in sources[p] })
                                   \union (IF plan[p].given THEN {Given} ELSE {})
    BY DEF FreshExchange
  <2>1. started[p] = Forwarded(p) \union GivenTo(p)
    BY <1>2
  <2> QED
    BY <2>1 DEF Forwarded, GivenTo
<1>4. RequiredInputsArrive
  <2>1. \A p \in Procs : at[p] \in Running /\ plan[p].required /\ Apart(p) /\ Op(p) = "run" =>
          Forwarded(p) \union GivenTo(p) # {}
    BY DEF InputInv
  <2> QED
    BY <1>2, <2>1 DEF RequiredInputsArrive
<1>5. RunsABuild
  BY DEF RunsABuild, OrphanInv, BuildInv, Cleans
<1> QED
  BY <1>1, <1>3, <1>4, <1>5 DEF RunsStartRight

\* A run starts with what was given and forwarded and nothing else, with an input if it requires
\* one, and with a complete build, unless others work on its directory, its sources or its build:
\* the exchange is emptied and filled after the check of the inputs, and the build is checked first.
THEOREM SpecRunsStartRight == Spec => []RunsStartRight
<1>1. Init => OrphanInv /\ InputInv
  <2>1. Init => InputInv
    <3> SUFFICES ASSUME Init PROVE InputInv
      OBVIOUS
    <3>1. \A p \in Procs : at[p] \in {"idle", "ended"}
      BY DEF Init, InstInit
    <3> QED
      BY <3>1 DEF InputInv, Running, OfRun
  <2> QED
    BY <2>1, InitBuild
<1>2. OrphanInv /\ InputInv /\ CtlInv /\ CtlInv' /\ [Next]_vars => OrphanInv' /\ InputInv'
  BY KeepsBuild, KeepsInput
<1>3. CtlInv /\ OrphanInv /\ InputInv => RunsStartRight
  BY InputInvImplies
<1> QED
  BY <1>1, <1>2, <1>3, SpecCtlInv, PTL DEF Spec

-----------------------------------------------------------------------------
(* Answers.                                                                 *)

\* A run that was not hashed has generated its id.
GeneratedBy(n, r) == n = Generated(r) /\ Op(r) = "run" /\ plan[r].run = NoName

AnswerInv ==
  /\ \A n \in DOMAIN runs : ~n.hashed => \E r \in Procs : GeneratedBy(n, r)
  /\ \A q \in Procs :
       /\ started[q] # NotYet =>
            name[q] = RunName(q) /\ Op(q) = "run" /\ at[q] \in Recorded \union Over
       /\ at[q] \in Recorded \/ started[q] # NotYet =>
            build[q] # 0 /\ (Quiet(q, name[q]) =>
              name[q] \in DOMAIN runs /\ runs[name[q]].build = build[q])
       /\ at[q] \notin Over => answer[q] = NoAnswer
       /\ answer[q] # NoAnswer =>
            \/ answer[q].name = Normal(plan[q].run)
            \/ answer[q].name = plan[q].run /\ \E r \in Procs : GeneratedBy(plan[q].run, r)
  /\ ArtifactsOfTheRun

\* What an id means, once a run of it has made its directory.
LEMMA ResolvedIds ==
  ASSUME TypeInv, \A n \in DOMAIN runs : ~n.hashed => \E r \in Procs : GeneratedBy(n, r),
         NEW t \in Names
  PROVE  /\ \/ Resolved(t) = Normal(t)
            \/ Resolved(t) = t /\ \E r \in Procs : GeneratedBy(t, r)
         /\ \A q \in Procs :
              /\ Op(q) = "run" /\ t = IdOf(q) /\ OwnId(q) /\ RunName(q) \in DOMAIN runs
              => Resolved(t) = RunName(q)
<1>1. NoName \notin Names /\ Normal(t) \in Names /\ \A q \in Procs : Generated(q).base = q
  BY WorkDirAssumption DEF NoName, Names, Normal, Generated
<1>2. t.hashed => t = Normal(t)
  BY DEF Names, Normal
<1>3. \/ Resolved(t) = t /\ t \in DOMAIN runs
      \/ Resolved(t) = Normal(t) /\ t \notin DOMAIN runs
  BY <1>1 DEF Resolved, Existing
<1>4. t.hashed \in BOOLEAN
  BY DEF Names
<1>5. ASSUME NEW q \in Procs, Op(q) = "run", t = IdOf(q), OwnId(q), RunName(q) \in DOMAIN runs
      PROVE  Resolved(t) = RunName(q)
  <2>1. CASE plan[q].run = NoName
    BY <1>3, <1>5, <2>1 DEF RunName, IdOf
  <2>2. CASE plan[q].run # NoName
    <3>1. t = plan[q].run /\ RunName(q) = Normal(t)
      BY <1>5, <2>2 DEF RunName, IdOf
    <3>2. \A r \in Procs : GeneratedBy(t, r) => FALSE
      BY <1>1, <1>5, <2>2 DEF GeneratedBy, OwnId
    <3> QED
      BY <1>2, <1>3, <1>4, <3>1, <3>2
  <2> QED
    BY <2>1, <2>2
<1> QED
  BY <1>2, <1>3, <1>4, <1>5

\* Answers are kept.
LEMMA KeepsAnswer == AnswerInv /\ CtlInv /\ CtlInv' /\ [Next]_vars => AnswerInv'
<1> SUFFICES ASSUME AnswerInv, CtlInv, CtlInv', [Next]_vars PROVE AnswerInv'
  OBVIOUS
<1>0. TypeInv /\ TypeInv'
  BY DEF CtlInv
<1>1. ASSUME plan' = plan, at' = at, past' = past, UNCHANGED workVars PROVE AnswerInv'
  <2>1. /\ runs' = runs /\ name' = name /\ answer' = answer /\ started' = started /\ build' = build
    BY <1>1 DEF workVars, dirVars, ownVars
  <2>2. \A p \in Procs : Op(p)' = Op(p) /\ RunName(p)' = RunName(p) /\ IdOf(p)' = IdOf(p)
                          /\ OwnId(p)' = OwnId(p)
    BY <1>1 DEF Op, RunName, Generated, IdOf, OwnId
  <2>3. \A p, q \in Procs : /\ Quiet(q, name[q])' = Quiet(q, name[q])
                            /\ Undisturbed(q, p, name[q])' = Undisturbed(q, p, name[q])
                            /\ RunDir(name[q])' = RunDir(name[q])
    BY <1>1, <2>1 DEF Quiet, Undisturbed, Active, WorksOn, Op, RunName, Generated, RunDir
  <2>4. ArtifactsOfTheRun'
    BY <1>1, <2>1, <2>2, <2>3 DEF AnswerInv, ArtifactsOfTheRun
  <2>5. \A n, r : GeneratedBy(n, r)' = GeneratedBy(n, r)
    BY <1>1 DEF GeneratedBy, Op, Generated
  <2> QED
    BY <1>1, <2>1, <2>2, <2>3, <2>4, <2>5 DEF AnswerInv
<1>2. CASE UNCHANGED vars
  BY <1>1, <1>2 DEF vars, instVars, ctlVars
<1>3. CASE Push /\ UNCHANGED workVars
  BY <1>1, <1>3 DEF Push, ctlVars
<1>4. ASSUME NEW r \in Procs, Step(r) PROVE AnswerInv'
  <2>0. /\ Effects(r) /\ plan' = plan /\ Dirs(r) /\ Records(r) /\ Responds(r) /\ Chooses(r)
    BY <1>4, RunChanges, BuildChanges DEF Step, Effects
  <2>1. /\ \A p \in Procs : Op(p)' = Op(p) /\ RunName(p)' = RunName(p)
        /\ \A n, p : GeneratedBy(n, p)' = GeneratedBy(n, p)
        /\ \A p : WorksOn(p, name[p])' = WorksOn(p, name'[p])
    BY <2>0 DEF Op, RunName, Generated, GeneratedBy, WorksOn
  <2>2. /\ TypeInv /\ OwnInv(r) /\ OwnInv(r)' /\ DOMAIN runs \subseteq Names
        /\ StepInv(r) /\ \A p \in Procs : PastInv(p) /\ PastInv(p)'
    BY DEF CtlInv, TypeInv, TypeOK, WorkTypeOK
  <2>3. \A n \in DOMAIN runs : ~n.hashed => \E p \in Procs : GeneratedBy(n, p)
    BY DEF AnswerInv
  <2>4. ASSUME NEW n \in DOMAIN runs', ~n.hashed PROVE \E p \in Procs : GeneratedBy(n, p)
    <3>1. CASE n \in DOMAIN runs
      BY <2>3, <2>4, <3>1
    <3>2. CASE n \notin DOMAIN runs
      <4>1. Op(r) = "run" /\ n = RunName(r)
        BY <2>0, <3>2 DEF Dirs
      <4>2. plan[r].run = NoName
        <5>1. plan[r].run # NoName => plan[r].run \in Names /\ n = Normal(plan[r].run)
          BY <2>2, <4>1, CommandFacts DEF RunName
        <5> QED
          BY <2>2, <2>4, <5>1, CommandFacts
      <4> QED
        BY <4>1, <4>2 DEF GeneratedBy, RunName
    <3> QED
      BY <3>1, <3>2
  <2>5. ASSUME NEW q \in Procs
        PROVE  started'[q] # NotYet =>
                 name'[q] = RunName(q) /\ Op(q) = "run" /\ at'[q] \in Recorded \union Over
    <3>1. /\ started[q] # NotYet =>
               name[q] = RunName(q) /\ Op(q) = "run" /\ at[q] \in Recorded \union Over
          /\ name[q] # NoName => at[q] # "ready"
      BY DEF AnswerInv, CtlInv, OwnInv, Early
    <3>2. RunName(q) # NoName
      BY <2>2, CommandFacts
    <3>3. CASE r = q
      <4>1. at[q] = "start" => name[q] = RunName(q) /\ Op(q) = "run"
        BY <2>2, <3>3 DEF OwnInv, StepInv, OfRun
      <4>2. started[q] # NotYet => at'[q] \in Recorded \union Over
        BY <2>0, <3>1, <3>3 DEF Records, Effects
      <4> QED
        BY <2>0, <3>1, <3>2, <3>3, <4>1, <4>2 DEF Responds, Recorded
    <3>4. CASE r # q
      BY <2>0, <3>1, <3>4 DEF Effects
    <3> QED
      BY <3>3, <3>4
  <2>6. ASSUME NEW q \in Procs, at'[q] \in Recorded \/ started'[q] # NotYet
        PROVE  /\ build'[q] # 0
               /\ Quiet(q, name[q])' =>
                    name'[q] \in DOMAIN runs' /\ runs'[name'[q]].build = build'[q]
    <3> DEFINE Alike == \A x \in Procs \ {q} : WorksOn(x, name'[q]) =>
                          at'[x] = "idle" \/ x \in past'[q]
    <3>1. Quiet(q, name[q])' => Alike
      BY <2>0 DEF Quiet, WorksOn, Op, RunName, Generated
    <3>2. at[q] \in Recorded \/ started[q] # NotYet =>
            build[q] # 0 /\ (Quiet(q, name[q]) =>
              name[q] \in DOMAIN runs /\ runs[name[q]].build = build[q])
      BY DEF AnswerInv
    <3>3. name'[q] \in Names
      <4>1. at'[q] \in Recorded => name'[q] = RunName(q)
        BY <2>1 DEF CtlInv, OwnInv, Recorded, OfRun
      <4> QED
        BY <2>2, <2>5, <2>6, <4>1, CommandFacts
    <3>4. CASE r # q
      <4>1. /\ at'[q] = at[q] /\ name'[q] = name[q] /\ build'[q] = build[q]
            /\ started'[q] = started[q]
        BY <2>0, <3>4 DEF Effects
      <4>2. Alike => Same(name[q]) /\ Quiet(q, name[q])
        BY <1>4, <3>3, <3>4, <4>1, QuietStays
      <4> HIDE DEF Alike
      <4> QED
        BY <2>6, <3>1, <3>2, <4>1, <4>2 DEF Same
    <3>5. CASE r = q
      <4>0. at[q] # "idle"
        <5>1. at[q] = "idle" => started[q] = NotYet
          <6>1. at[q] = "idle" => name[q] = NoName
            BY <2>2, <3>5 DEF OwnInv, Early
          <6> QED
            BY <2>2, <6>1, CommandFacts DEF AnswerInv
        <5>2. at[q] = "idle" => at'[q] \notin Recorded
          BY <2>0, <3>5 DEF Records, Recorded
        <5> QED
          BY <2>0, <2>6, <3>5, <5>1, <5>2 DEF Responds
      <4>1. Alike => Quiet(q, name'[q])
        BY <2>0, <3>5, <4>0, QuietBefore
      <4> HIDE DEF Alike
      <4>2. CASE at'[q] \in Recorded
        <5>1. name'[q] = name[q] /\ build'[q] = build[q]
          BY <2>0, <3>5, <4>2 DEF Records
        <5>2. at[q] = "record" => build[q] # 0
          BY <2>2, <3>5 DEF OwnInv, BuildIds
        <5> QED
          BY <2>0, <3>1, <3>2, <3>5, <4>1, <4>2, <5>1, <5>2 DEF Records
      <4>3. CASE at'[q] \notin Recorded
        <5>1. at[q] \in Recorded
          <6>1. started[q] # NotYet => at[q] \in Recorded \union Over
            BY DEF AnswerInv
          <6> QED
            BY <2>0, <2>6, <3>5, <4>3, <6>1 DEF Responds, Recorded, Effects
        <5>2. build'[q] = build[q] /\ build[q] # 0
          BY <2>0, <3>2, <3>5, <5>1 DEF Chooses
        <5>3. name'[q] = name[q] /\ Same(name[q])
          BY <2>0, <3>5, <4>3, <5>1 DEF Records, Same
        <5> QED
          BY <3>1, <3>2, <4>1, <5>1, <5>2, <5>3 DEF Same
      <4> QED
        BY <4>2, <4>3
    <3> QED
      BY <3>4, <3>5
  <2>7. ASSUME NEW q \in Procs
        PROVE  /\ at'[q] \notin Over => answer'[q] = NoAnswer
               /\ answer'[q] # NoAnswer =>
                    \/ answer'[q].name = Normal(plan[q].run)
                    \/ answer'[q].name = plan[q].run /\ \E p \in Procs : GeneratedBy(plan[q].run, p)
    <3>1. /\ at[q] \notin Over => answer[q] = NoAnswer
          /\ answer[q] # NoAnswer =>
               \/ answer[q].name = Normal(plan[q].run)
               \/ answer[q].name = plan[q].run /\ \E p \in Procs : GeneratedBy(plan[q].run, p)
      BY DEF AnswerInv
    <3>2. CASE answer'[q] = answer[q]
      BY <2>0, <3>1, <3>2 DEF Effects
    <3>3. CASE answer'[q] # answer[q]
      <4>1. r = q
        BY <2>0, <3>3 DEF Effects
      <4>2. /\ answer'[q].name = Resolved(plan[q].run) /\ Op(q) \in {"artifacts", "archive"}
            /\ at'[q] \in Over
        BY <2>0, <3>3, <4>1 DEF Responds
      <4>3. plan[q].run \in Names
        BY <2>2, <4>2, CommandFacts
      <4> QED
        BY <2>2, <2>3, <4>2, <4>3, ResolvedIds
    <3> QED
      BY <3>2, <3>3
  <2>8. ASSUME NEW p \in Procs, NEW q \in Procs,
               Op(p) \in {"artifacts", "archive"}, answer'[p] # NoAnswer,
               Op(q) = "run", q \in past'[p], started'[q] # NotYet,
               plan[p].run = IdOf(q), OwnId(q), Undisturbed(q, p, name[q])'
        PROVE  /\ answer'[p].name = name'[q]
               /\ Op(p) = "artifacts" => answer'[p].build = build'[q]
               /\ Op(p) = "archive" /\ q \in RunDir(name[q])'.submit[plan[p].scope] =>
                    q \in answer'[p].files
    <3>1. name'[q] = RunName(q) /\ name'[q] \in Names /\ plan[p].run \in Names /\ plan[p].scope \in Scopes
      BY <2>2, <2>5, <2>8, CommandFacts
    <3>2. at[q] \in Over /\ r # q
      <4>1. at[q] \in Over
        BY <2>0, <2>2, <2>8 DEF PastInv, Effects
      <4> QED
        BY <2>0, <4>1 DEF Effects
    <3>3. name'[q] = name[q] /\ build'[q] = build[q] /\ started'[q] = started[q]
      BY <2>0, <3>2 DEF Effects
    <3>4. \A x \in Procs \ {q, p} : WorksOn(x, name[q]) =>
            \/ at'[x] = "idle" \/ x \in past'[q]
            \/ at'[p] \in Over /\ p \in past'[x]
      BY <2>0, <2>8, <3>3 DEF Undisturbed, WorksOn, Op, RunName, Generated, Active, Over
    <3>5. PICK n \in Names : n = name[q]
      BY <3>1, <3>3
    <3>6. RunDir(name[q])' = RunDir(n)'
      BY <3>3, <3>5 DEF RunDir
    <3>7. CASE answer[p] = NoAnswer
      <4>1. r = p
        BY <2>0, <2>8, <3>7 DEF Effects
      <4>2. /\ at[p] = "ready" /\ runs' = runs /\ answer'[p].name = Resolved(plan[p].run)
            /\ \/ /\ Op(p) = "artifacts"
                  /\ answer'[p].build = IF RunDir(Resolved(plan[p].run)).build # 0
                                        THEN RunDir(Resolved(plan[p].run)).build ELSE Latest
               \/ /\ Op(p) = "archive"
                  /\ answer'[p].files = RunDir(Resolved(plan[p].run)).submit[plan[p].scope]
        BY <2>0, <2>8, <3>7, <4>1 DEF Responds
      <4>3. Quiet(q, name[q])
        <5>1. ~WorksOn(p, name[q])
          BY <2>8 DEF WorksOn
        <5>2. \A x \in Procs \ {q, p} : p \notin past[x] /\ past'[x] = past[x] /\ at'[x] = at[x]
          BY <2>0, <2>2, <4>1, <4>2 DEF PastInv, Effects, Over
        <5>3. past'[q] = past[q]
          BY <2>0, <3>2 DEF Effects
        <5> QED
          BY <3>4, <5>1, <5>2, <5>3 DEF Quiet
      <4>4. name[q] \in DOMAIN runs /\ build[q] # 0 /\ runs[name[q]].build = build[q]
        BY <2>8, <3>3, <4>3 DEF AnswerInv
      <4>5. Resolved(plan[p].run) = name[q]
        <5>1. RunName(q) \in DOMAIN runs /\ RunName(q) = name[q]
          BY <3>1, <3>3, <4>4
        <5>2. \A t \in Names : t = IdOf(q) => Resolved(t) = RunName(q)
          BY <2>2, <2>3, <2>8, <5>1, ResolvedIds
        <5> QED
          BY <2>8, <3>1, <5>1, <5>2
      <4>6. RunDir(n)' = RunDir(n) /\ RunDir(n) = runs[n]
        BY <3>5, <4>2, <4>4 DEF RunDir
      <4> QED
        BY <3>3, <3>5, <3>6, <4>2, <4>4, <4>5, <4>6
    <3>8. CASE answer[p] # NoAnswer
      <4>1. at[p] \in Over /\ r # p
        <5>1. at[p] \in Over
          BY <3>8 DEF AnswerInv
        <5> QED
          BY <2>0, <5>1 DEF Effects
      <4>2. /\ at'[p] = at[p] /\ past'[p] = past[p] /\ answer'[p] = answer[p]
            /\ at'[q] = at[q] /\ past'[q] = past[q]
        BY <2>0, <3>2, <4>1 DEF Effects
      <4>3. Undisturbed(q, p, name[q])
        <5>1. \A x \in Procs : at'[x] = "idle" => at[x] = "idle"
          BY <2>0 DEF Effects
        <5>2. \A x \in Procs : at[x] # "idle" => past'[x] = past[x]
          BY <2>0 DEF Effects
        <5>3. ~Active(p) /\ at[p] # "idle"
          BY <4>1 DEF Active, Over
        <5> QED
          BY <3>4, <4>2, <5>1, <5>2, <5>3 DEF Undisturbed
      <4>4. /\ answer[p].name = name[q]
            /\ Op(p) = "artifacts" => answer[p].build = build[q]
            /\ Op(p) = "archive" /\ q \in RunDir(name[q]).submit[plan[p].scope] =>
                 q \in answer[p].files
        BY <2>8, <3>3, <4>2, <4>3 DEF AnswerInv, ArtifactsOfTheRun
      <4>5. RunDir(n)'.submit[plan[p].scope] \subseteq RunDir(n).submit[plan[p].scope] \union {r}
        BY <2>0, <3>1 DEF Dirs
      <4> QED
        BY <3>2, <3>3, <3>5, <3>6, <4>2, <4>4, <4>5
    <3> QED
      BY <3>7, <3>8
  <2>9. ArtifactsOfTheRun'
    <3>1. \A p \in Procs : IdOf(p)' = IdOf(p) /\ OwnId(p)' = OwnId(p) /\ Op(p)' = Op(p)
      BY <2>0 DEF IdOf, OwnId, Op, Generated
    <3> QED
      BY <2>0, <2>8, <3>1 DEF ArtifactsOfTheRun
  <2>10. \A n \in DOMAIN runs' : ~n.hashed => \E p \in Procs : GeneratedBy(n, p)'
    BY <2>1, <2>4
  <2>11. ASSUME NEW q \in Procs
         PROVE  /\ started'[q] # NotYet =>
                     /\ name'[q] = RunName(q)' /\ Op(q)' = "run"
                     /\ at'[q] \in Recorded \union Over
                /\ at'[q] \in Recorded \/ started'[q] # NotYet =>
                     build'[q] # 0 /\ (Quiet(q, name[q])' =>
                       name'[q] \in DOMAIN runs' /\ runs'[name'[q]].build = build'[q])
                /\ at'[q] \notin Over => answer'[q] = NoAnswer
                /\ answer'[q] # NoAnswer =>
                     \/ answer'[q].name = Normal(plan'[q].run)
                     \/ /\ answer'[q].name = plan'[q].run
                        /\ \E p \in Procs : GeneratedBy(plan'[q].run, p)
    BY <2>0, <2>1, <2>5, <2>6, <2>7
  <2>12. \A q \in Procs : (\E p \in Procs : GeneratedBy(plan[q].run, p)) =>
           (\E p \in Procs : GeneratedBy(plan[q].run, p))'
    BY <2>0 DEF GeneratedBy, Op, Generated
  <2> QED
    BY <2>0, <2>9, <2>10, <2>11, <2>12 DEF AnswerInv
<1> QED
  BY <1>0, <1>2, <1>3, <1>4, Actions

LEMMA InitAnswer == Init => AnswerInv
<1> SUFFICES ASSUME Init PROVE AnswerInv
  OBVIOUS
<1>1. PICK s \in Starts : InstInit(s.plans, s.version) /\ WorkInit(s.done)
  BY DEF Init
<1>2. \A p \in Procs : at[p] \in {"idle", "ended"} /\ started[p] = NotYet /\ answer[p] = NoAnswer
  BY <1>1 DEF InstInit, WorkInit
<1>3. DOMAIN runs = {}
  BY <1>1 DEF WorkInit
<1> QED
  BY <1>2, <1>3 DEF AnswerInv, ArtifactsOfTheRun, Recorded

LEMMA AnswerInvImplies == CtlInv /\ AnswerInv => ArtifactsAgree
<1> SUFFICES ASSUME CtlInv, AnswerInv PROVE PreRunPathsAreUsed
  BY DEF ArtifactsAgree, AnswerInv
<1> SUFFICES ASSUME NEW p \in Procs, NEW q \in Procs, Op(p) = "artifacts", answer[p] # NoAnswer,
                    Op(q) = "run", name[q] # NoName, plan[p].run = plan[q].run, OwnId(q)
             PROVE  answer[p].name = name[q]
  BY DEF PreRunPathsAreUsed
<1>1. TypeInv /\ OwnInv(q)
  BY DEF CtlInv
<1>2. plan[p].run \in Names /\ NoName \notin Names
  BY <1>1, CommandFacts
<1>3. name[q] = Normal(plan[q].run) /\ IdOf(q) = plan[q].run
  BY <1>1, <1>2 DEF OwnInv, RunName, IdOf
<1>4. ASSUME NEW r \in Procs, GeneratedBy(plan[p].run, r) PROVE FALSE
  <2>1. r # q /\ IdOf(q).base = r
    <3>1. plan[r].run = NoName /\ IdOf(q) = [base |-> r, hashed |-> FALSE]
      BY <1>3, <1>4 DEF GeneratedBy, Generated
    <3>2. r # q
      BY <1>2, <3>1
    <3>3. [base |-> r, hashed |-> FALSE].base = r
      OBVIOUS
    <3> QED
      BY <3>1, <3>2, <3>3
  <2> QED
    BY <1>4, <2>1 DEF OwnId, GeneratedBy
<1> QED
  BY <1>3, <1>4 DEF AnswerInv

\* What artifacts prints before and after a run, and what archive collects, are the directory,
\* the build and the submissions of that run, unless others work on the directory or have
\* generated its id: a directory whose name has no hash is that of a generated id.
THEOREM SpecArtifactsAgree == Spec => []ArtifactsAgree
<1>1. Init => AnswerInv
  BY InitAnswer
<1>2. AnswerInv /\ CtlInv /\ CtlInv' /\ [Next]_vars => AnswerInv'
  BY KeepsAnswer
<1>3. CtlInv /\ AnswerInv => ArtifactsAgree
  BY AnswerInvImplies
<1> QED
  BY <1>1, <1>2, <1>3, SpecCtlInv, PTL DEF Spec

=============================================================================
