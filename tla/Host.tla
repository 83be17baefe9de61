--------------------------------- MODULE Host ---------------------------------
(***************************************************************************)
(* Several oss-crs commands on one host: the clone, images and bundles of  *)
(* a CRS (Installation) and the work directory of its compose file         *)
(* (WorkDir).                                                              *)
(***************************************************************************)
EXTENDS WorkDir

CONSTANTS
  Starts  \* initial situations: what each process runs, the version installed, the builds done

ASSUME HostAssumption ==
  \A s \in Starts : s.plans \in [Procs -> Commands] /\ s.version \in 0 .. 1
                     /\ s.done \subseteq 1 .. MaxBuild

vars == <<instVars, ctlVars, workVars>>

TypeOK == InstTypeOK /\ WorkTypeOK

Init == \E s \in Starts : InstInit(s.plans, s.version) /\ WorkInit(s.done)

\* The CRS's authors push while a command uses the repository.
PushStep == (\E p \in Procs : ~plan[p].local /\ at[p] # "ended") /\ Push /\ UNCHANGED workVars

CommandStep(p) ==
  \/ (Begin(p) \/ InstStep(p)) /\ UNCHANGED workVars
  \/ WorkStep(p) /\ UNCHANGED instVars
  \/ CleanImageFails(p) /\ UNCHANGED <<upstream, repo, holder, infra, image, runner,
                                        bundle, staged, seen, past>>

Next ==
  \/ PushStep
  \/ \E p \in Procs : CommandStep(p) \/ (Killed(p) /\ UNCHANGED workVars)

Spec == Init /\ [][Next]_vars

-----------------------------------------------------------------------------
(* Properties.                                                              *)

\* p and q ran at the same time.
Overlap(p, q) ==
  /\ p # q /\ at[p] # "idle" /\ at[q] # "idle"
  /\ q \notin past[p] /\ p \notin past[q]
Alone(p) == \A q \in Procs : ~Overlap(p, q)
Op(p) == plan[p].op

\* A clone that looks whole is not being changed by git, unless an import replaces it.
WholeMeansQuiet ==
  \A p \in Procs : at[p] = "tree" /\ (\A q \in Procs : Overlap(p, q) => Op(q) # "import") =>
    repo.state = "partial"

\* A command that has brought the clone up to date works on a version that is at least as new
\* as what there was upstream when it began, whatever other commands did meanwhile.
SourceIsRecent ==
  \A p \in Procs :
    /\ ~plan[p].local /\ Op(p) \in {"prepare", "export", "build", "run", "clean-prepare"}
    /\ Active(p) /\ at[p] \notin {"lock", "git", "tree"}
    /\ \A q \in Procs : Overlap(p, q) => Op(q) # "import"
    => repo.version >= seen[p].upstream

\* What a command finds in the clone is neither half made nor old.
CloneIsSound == WholeMeansQuiet /\ SourceIsRecent

\* An import that is not disturbed leaves the images that the host of the export had, and a
\* whole clone that is no older than when it began, whatever was removed in between.  A CRS with
\* a local path is left out: its export has the user's directory, which has no version.
ImportIsExport ==
  \A e, p \in Procs :
    /\ Op(e) = "export" /\ ~plan[e].local /\ at[e] = "ended" /\ Alone(e)
    /\ Op(p) = "import" /\ at[p] = "ended" /\ e \in past[p]
    /\ \A q \in Procs \ {e, p} :
         q \notin past[p] => at[q] = "idle"
    /\ \A q \in past[p] \ {e} : Op(q) = "export" => q \in past[e]
    => /\ seen[e].infra # 0 => infra = seen[e].infra
       /\ seen[e].image # 0 => image = seen[e].image
       /\ seen[e].runner # 0 => runner = seen[e].runner
       /\ repo.state = "whole" /\ repo.version >= seen[e].upstream

\* p works on run directory n.
WorksOn(p, n) == Op(p) = "clean-run" \/ (Op(p) = "run" /\ RunName(p) = n)
\* Between the beginning of p and the end of q nobody else works on run directory n.
Undisturbed(p, q, n) ==
  \A r \in Procs \ {p, q} : WorksOn(r, n) =>
    at[r] = "idle" \/ r \in past[p] \/ (at[q] # "idle" /\ ~Active(q) /\ q \in past[r])

\* A run starts with what was given and forwarded, and with nothing an earlier run of its id has
\* left, if nobody else works on its directory or its sources; it may forward from its own id.
FreshExchange ==
  \A p \in Procs :
    /\ at[p] = "up" /\ \A c \in sources[p] : c.name # name[p] /\ Undisturbed(p, p, c.name)
    /\ Undisturbed(p, p, name[p])
    => started[p] = (UNION { Forwardable(c.name, c.scope) : c \in sources[p] })
                      \union (IF plan[p].given THEN {Given} ELSE {})

\* A run that requires an input starts with it, under the same conditions.
RequiredInputsArrive ==
  \A p \in Procs :
    /\ at[p] = "up" /\ plan[p].required
    /\ \A c \in sources[p] : c.name # name[p] /\ Undisturbed(p, p, c.name)
    /\ Undisturbed(p, p, name[p])
    => started[p] # {}

\* The CRSs of a run start with a complete build, unless someone cleans or rebuilds it.
RunsABuild ==
  \A p \in Procs :
    /\ at[p] = "up"
    /\ \A q \in Procs : Overlap(p, q) => Op(q) # "clean-build" /\ build[q] # build[p]
    => builds[build[p]] = "done"

\* A run starts with its inputs, nothing else, and a build.
RunsStartRight == TypeOK /\ FreshExchange /\ RequiredInputsArrive /\ RunsABuild

\* The id that the run was given, or has generated.
IdOf(p) == IF plan[p].run = NoName THEN Generated(p) ELSE plan[p].run
\* No other run has generated the id p was given.
OwnId(p) == \A q \in Procs \ {p} : Op(q) = "run" /\ plan[q].run = NoName => IdOf(p).base # q

\* artifacts and archive with the id of a run that has ended find the directory of that run;
\* artifacts prints its build, and an archive has what its CRSs submitted.
ArtifactsOfTheRun ==
  \A p, q \in Procs :
    /\ Op(p) \in {"artifacts", "archive"} /\ answer[p] # NoAnswer
    /\ Op(q) = "run" /\ q \in past[p] /\ started[q] # NotYet
    /\ plan[p].run = IdOf(q) /\ OwnId(q) /\ Undisturbed(q, p, name[q])
    => /\ answer[p].name = name[q]
       /\ Op(p) = "artifacts" => answer[p].build = build[q]
       /\ Op(p) = "archive" /\ q \in RunDir(name[q]).submit[plan[p].scope] => q \in answer[p].files

\* The paths that artifacts prints before a run are those the run uses.
PreRunPathsAreUsed ==
  \A p, q \in Procs :
    /\ Op(p) = "artifacts" /\ answer[p] # NoAnswer
    /\ Op(q) = "run" /\ p \in past[q] /\ name[q] # NoName
    /\ plan[p].run = plan[q].run /\ OwnId(q)
    => answer[p].name = name[q]

\* artifacts, archive and run agree about what an id means, whichever comes first.
ArtifactsAgree == ArtifactsOfTheRun /\ PreRunPathsAreUsed

\* The images of a build whose directory is gone are gone too, as nothing finds them any more:
\* even if clean is killed, unless it reported a failure, or the build overlapped with it.
NoOrphanImages ==
  \A b \in images : builds[b] = "none" =>
    \/ \E p \in Procs : b \in doomed[p].failed
    \/ \E p, q \in Procs : Op(p) = "clean-build" /\ Overlap(p, q) /\ build[q] = b

=============================================================================
