------------------------------ MODULE Installation ------------------------------
(***************************************************************************)
(* What the oss-crs commands on a host share: the clone of a CRS's         *)
(* repository and the images made from it (oss_crs/src/crs.py), bundles    *)
(* (cli/export.py, cli/import_cmd.py) and their removal (cli/clean.py).    *)
(* A command is a process; at[p] is where it stands, plan[p] what it does. *)
(***************************************************************************)
EXTENDS Naturals, FiniteSets

CONSTANTS
  Procs,       \* processes
  NoProc,
  Commands,    \* the commands: records whose op and local are used here
  MaxVersion,  \* bound: versions of the CRS upstream
  MaxErrors    \* bound: failures and kills

ASSUME InstallationAssumption ==
  /\ NoProc \notin Procs
  /\ \A c \in Commands : c.local \in BOOLEAN
                        /\ c.op \in {"none", "prepare", "export", "import", "clean-prepare",
                                    "clean-build", "clean-run",
                                    "build", "run", "artifacts", "archive"}
  /\ MaxVersion \in Nat \ {0} /\ MaxErrors \in Nat

VARIABLES
  upstream,  \* the version of the branch at the CRS's url
  repo,      \* crs_src/<name>: its state, and the version it has or is given
  holder,    \* who has crs_src/.<name>.lock
  infra,     \* whether the infrastructure's images exist: 0 or 1
  image,     \* the version the images of its bake file were made from, 0 if there are none
  runner,    \* the version oss-crs-runner:<crs>-<module> was made from, 0 if there is none
  bundle,    \* the exported file
  staged,    \* the temporary directory of each export or import
  plan, at,  \* each process's command and step
  seen,      \* history: what there was when it began
  past,      \* history: the processes that had ended by then
  errors     \* history: errors so far

instVars == <<upstream, repo, holder, infra, image, runner, bundle, staged, seen, past, errors>>
ctlVars == <<plan, at>>

Versions == 1 .. MaxVersion
Mixed == MaxVersion + 1     \* an image whose sources were read while they changed
Images == 0 .. Mixed
Repos == [state : {"none", "partial", "whole", "nested"}, version : 0 .. MaxVersion]
NoRepo == [state |-> "none", version |-> 0]
Bundles == [infra : 0 .. 1, image : Images, runner : Images, source : Repos]
NoBundle == [infra |-> 0, image |-> 0, runner |-> 0, source |-> NoRepo]
TornBundle == [NoBundle EXCEPT !.source.state = "partial"]   \* its tar file is not complete

InstTypeOK ==
  /\ upstream \in Versions /\ repo \in Repos
  /\ holder \in Procs \union {NoProc}
  /\ infra \in 0 .. 1 /\ image \in Images /\ runner \in Images
  /\ bundle \in Bundles /\ staged \in [Procs -> Bundles]
  /\ plan \in [Procs -> Commands]
  /\ seen \in [Procs -> [upstream : 0 .. MaxVersion, infra : 0 .. 1,
                        image : Images, runner : Images]]
  /\ past \in [Procs -> SUBSET Procs] /\ errors \in 0 .. MaxErrors

InstInit(plans, version) ==
  /\ upstream = 1 /\ holder = NoProc
  /\ repo = IF version = 0 THEN NoRepo ELSE [state |-> "whole", version |-> version]
  /\ infra = version /\ image = version /\ runner = version
  /\ bundle = NoBundle /\ staged = [p \in Procs |-> NoBundle]
  /\ plan = plans
  /\ at = [p \in Procs |-> IF plans[p].op = "none" THEN "ended" ELSE "idle"]
  /\ seen = [p \in Procs |-> [upstream |-> 0, infra |-> 0, image |-> 0, runner |-> 0]]
  /\ past = [p \in Procs |-> {}] /\ errors = 0

Goto(p, step) == at' = [at EXCEPT ![p] = step] /\ UNCHANGED plan
\* The command of p ends, with or without success.
Ends(p) == Goto(p, "ended")
GivesUp(p) == Goto(p, "failed")
Active(p) == at[p] \notin {"idle", "ended", "failed", "killed"}
Fails == errors < MaxErrors /\ errors' = errors + 1

\* The CRS's authors push a new version.
Push ==
  /\ upstream < MaxVersion
  /\ upstream' = upstream + 1
  /\ UNCHANGED <<repo, holder, infra, image, runner, bundle, staged, ctlVars, seen, past, errors>>

\* A command begins.  A CRS with a local path has no clone; import does not look at it.
Begin(p) ==
  /\ at[p] = "idle"
  /\ Goto(p, IF plan[p].local \/ plan[p].op = "import" THEN "ready" ELSE "lock")
  /\ seen' = [seen EXCEPT ![p] = [upstream |-> upstream, infra |-> infra,
                                      image |-> image, runner |-> runner]]
  /\ past' = [past EXCEPT ![p] = { q \in Procs : at[q] # "idle" /\ ~Active(q) }]
  /\ UNCHANGED <<upstream, repo, holder, infra, image, runner, bundle, staged, errors>>

-----------------------------------------------------------------------------
(* init_crs_repo.                                                           *)

\* MUTANT of Lock: no lock.
LockNone(p) ==
  /\ at[p] = "lock" /\ Goto(p, "git")
  /\ UNCHANGED <<upstream, repo, holder, infra, image, runner, bundle, staged, seen, past, errors>>
\* The file lock.
Lock(p) ==
  /\ at[p] = "lock" /\ holder = NoProc
  /\ holder' = p /\ Goto(p, "git")
  /\ UNCHANGED <<upstream, repo, infra, image, runner, bundle, staged, seen, past, errors>>

\* artifacts, archive, clean build-target and clean run take a repository as it is.
SkipsInit(p) == plan[p].op \in {"artifacts", "archive", "clean-build", "clean-run"} /\ repo.state # "none"
\* git clone, or git fetch and then git reset, which changes the tree for a while.
GitStarts(p) ==
  /\ at[p] = "git"
  /\ \/ /\ SkipsInit(p)
        /\ Goto(p, "ready") /\ holder' = NoProc /\ UNCHANGED repo
     \/ /\ ~SkipsInit(p)
        /\ repo' = [state |-> "partial", version |-> upstream]
        /\ Goto(p, "tree") /\ UNCHANGED holder
  /\ UNCHANGED <<upstream, infra, image, runner, bundle, staged, seen, past, errors>>
\* The network fails: git clone removes what it made.
GitFails(p) ==
  /\ at[p] = "git" /\ Fails
  /\ holder' = NoProc /\ GivesUp(p)
  /\ UNCHANGED <<upstream, repo, infra, image, runner, bundle, staged, seen, past>>
GitEnds(p) ==
  /\ at[p] = "tree"
  /\ repo' = IF repo.state = "partial" THEN [repo EXCEPT !.state = "whole"] ELSE repo
  /\ holder' = IF holder = p THEN NoProc ELSE holder
  /\ Goto(p, "ready")
  /\ UNCHANGED <<upstream, infra, image, runner, bundle, staged, seen, past, errors>>

-----------------------------------------------------------------------------
(* prepare, export, import, and clean prepare.                              *)

Read == IF repo.state = "whole" THEN repo.version ELSE Mixed

\* __prepare_oss_crs_infra: the sidecars and the clean-up image, the first task of prepare.
PrepareInfra(p) ==
  /\ plan[p].op = "prepare" /\ at[p] = "ready"
  /\ \/ infra' = 1 /\ Goto(p, "bake") /\ UNCHANGED errors
     \/ Fails /\ GivesUp(p) /\ UNCHANGED infra
  /\ UNCHANGED <<upstream, repo, holder, image, runner, bundle, staged, seen, past>>
\* CRS.prepare: docker buildx bake, or the pull of prebuilt images of the same version.
Bake(p) ==
  /\ at[p] = "bake"
  /\ \/ repo.state # "none" /\ image' = Read /\ Goto(p, "runner") /\ UNCHANGED errors
     \/ ((repo.state = "none" /\ UNCHANGED errors) \/ Fails) /\ GivesUp(p) /\ UNCHANGED image
  /\ UNCHANGED <<upstream, repo, holder, infra, runner, bundle, staged, seen, past>>
\* __build_run_image: an image that exists is kept.
BuildRunner(p) ==
  /\ plan[p].op = "prepare" /\ at[p] = "runner"
  /\ runner' = IF runner # 0 \/ repo.state = "none" THEN runner ELSE Read
  /\ Ends(p)
  /\ UNCHANGED <<upstream, repo, holder, infra, image, bundle, staged, seen, past, errors>>

\* MUTANT of SaveImages: the images of the bake file only.
SaveImagesBaked(p) ==
  /\ plan[p].op = "export" /\ at[p] = "ready"
  /\ staged' = [staged EXCEPT ![p] = [NoBundle EXCEPT !.infra = infra, !.image = image]]
  /\ Goto(p, "tar")
  /\ UNCHANGED <<upstream, repo, holder, infra, image, runner, bundle, seen, past, errors>>
\* handle_export: the images that exist, which the fetch before may have left behind their source.
SaveImages(p) ==
  /\ plan[p].op = "export" /\ at[p] = "ready"
  /\ staged' = [staged EXCEPT ![p] = [infra |-> infra, image |-> image, runner |-> runner,
                                          source |-> NoRepo]]
  /\ Goto(p, "tar")
  /\ UNCHANGED <<upstream, repo, holder, infra, image, runner, bundle, seen, past, errors>>
\* The bundle is written in place: images, then the source.
StartTar(p) ==
  /\ plan[p].op = "export" /\ at[p] = "tar"
  /\ bundle' = TornBundle /\ Goto(p, "source")
  /\ UNCHANGED <<upstream, repo, holder, infra, image, runner, staged, seen, past, errors>>
SaveSource(p) ==
  /\ plan[p].op = "export" /\ at[p] = "source"
  /\ bundle' = [staged[p] EXCEPT !.source = repo]
  /\ Ends(p)
  /\ UNCHANGED <<upstream, repo, holder, infra, image, runner, staged, seen, past, errors>>

\* handle_import: the bundle is extracted, which fails if it is not complete.
Extract(p) ==
  /\ plan[p].op = "import" /\ at[p] = "ready"
  /\ staged' = [staged EXCEPT ![p] = bundle]
  /\ Goto(p, IF bundle \in {NoBundle, TornBundle} THEN "failed" ELSE "load")
  /\ UNCHANGED <<upstream, repo, holder, infra, image, runner, bundle, seen, past, errors>>
\* docker load replaces the tags that exist.
LoadImages(p) ==
  /\ at[p] = "load"
  /\ \/ /\ infra' = IF staged[p].infra = 0 THEN infra ELSE staged[p].infra
        /\ image' = IF staged[p].image = 0 THEN image ELSE staged[p].image
        /\ runner' = IF staged[p].runner = 0 THEN runner ELSE staged[p].runner
        /\ Goto(p, IF staged[p].source.state = "none" THEN "ended" ELSE "remove")
        /\ UNCHANGED errors
     \/ Fails /\ GivesUp(p) /\ UNCHANGED <<infra, image, runner>>
  /\ UNCHANGED <<upstream, repo, holder, bundle, staged, seen, past>>
\* _restore_dir, without the lock: remove what is there, and move the extracted directory; onto a
\* directory that has come back it is moved into that.
RemoveSource(p) ==
  /\ at[p] = "remove"
  /\ repo' = NoRepo /\ Goto(p, "move")
  /\ UNCHANGED <<upstream, holder, infra, image, runner, bundle, staged, seen, past, errors>>
MoveSource(p) ==
  /\ at[p] = "move"
  /\ repo' = IF repo.state = "none" THEN staged[p].source ELSE [repo EXCEPT !.state = "nested"]
  /\ Ends(p)
  /\ UNCHANGED <<upstream, holder, infra, image, runner, bundle, staged, seen, past, errors>>

\* execute_clean_plan on the images of prepare.
RemoveImages(p) ==
  /\ plan[p].op = "clean-prepare" /\ at[p] = "ready"
  /\ infra' = 0 /\ image' = 0
  /\ \/ runner' = 0 /\ UNCHANGED errors
     \/ UNCHANGED runner /\ Fails
  /\ Ends(p)
  /\ UNCHANGED <<upstream, repo, holder, bundle, staged, seen, past>>

\* The process is killed; the kernel releases its lock.
Killed(p) ==
  /\ Active(p) /\ Fails
  /\ Goto(p, "killed")
  /\ holder' = IF holder = p THEN NoProc ELSE holder
  /\ UNCHANGED <<upstream, repo, infra, image, runner, bundle, staged, seen, past>>

PrepareStep(p) == PrepareInfra(p) \/ Bake(p) \/ BuildRunner(p)
InitRepoStep(p) == Lock(p) \/ GitStarts(p) \/ GitFails(p) \/ GitEnds(p)
InstStep(p) ==
  \/ InitRepoStep(p) \/ PrepareStep(p)
  \/ SaveImages(p) \/ StartTar(p) \/ SaveSource(p)
  \/ Extract(p) \/ LoadImages(p) \/ RemoveSource(p) \/ MoveSource(p) \/ RemoveImages(p)

=============================================================================
