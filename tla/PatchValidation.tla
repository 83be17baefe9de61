---------------------------- MODULE PatchValidation ----------------------------
(***************************************************************************)
(* A CRS validates its patches: apply-patch-build at the builder sidecar   *)
(* (BuilderSidecar), then run-pov with the rebuild id at the runner        *)
(* sidecar (oss-crs-infra/runner-sidecar/server.py), or a download of the  *)
(* build.  The runner reads the directories the builder writes.            *)
(*                                                                         *)
(* A handler of the runner waits for its subprocess inside the event loop, *)
(* so requests are served one at a time, in order.                         *)
(***************************************************************************)
EXTENDS BuilderSidecar

CONSTANTS
  Fixes,          \* the patches whose builds the PoV does not crash
  MaxReads,       \* bound: calls of run-pov and download-build-output
  MaxReadFaults   \* bound: requests that fail, and crashes of the runner

ASSUME ValidationAssumption ==
  Fixes \subseteq Patches /\ MaxReads \in Nat /\ MaxReadFaults \in Nat

VARIABLES
  requests,    \* the requests at the runner, the one it serves first
  serving,     \* where the runner is in it
  loaded,      \* the patch of the build that reproduce runs, or None
  download,    \* each client's download_build_output: the request and what it has read, or None
  reads, readFaults,
  verdicts,    \* history: <<patch, retcode>> of run-pov with the rebuild id of that patch
  downloaded   \* history: <<patch, what was read first, what was read last>>

readVars == <<requests, serving, loaded, download, reads, readFaults, verdicts, downloaded>>
allVars  == <<vars, readVars>>

Retcodes == {0, 1, 124}
\* None stands for the base build, and for a client that has given up.
Povs == [client : Clients \union {None}, crs : CRSs, rid : Rids \union {None},
         patch : Patches \union {None}]

ReadTypeOK ==
  /\ requests \in Seq(Povs)
  /\ serving \in {"idle", "found", "running"}
  /\ loaded \in Patches \union {None}
  /\ download \in [Clients -> {None} \union (Patches \X Rids \X (Patches \union {None}))]
  /\ reads \in 0 .. MaxReads /\ readFaults \in 0 .. MaxReadFaults
  /\ verdicts \subseteq (Patches \union {None}) \X Retcodes
  /\ downloaded \subseteq Patches \X (Patches \union {None}) \X (Patches \union {None})

ReadInit ==
  /\ requests = <<>> /\ serving = "idle" /\ loaded = None
  /\ download = [k \in Clients |-> None]
  /\ reads = 0 /\ readFaults = 0
  /\ verdicts = {} /\ downloaded = {}

-----------------------------------------------------------------------------
Reading(k) == download[k] # None \/ \E i \in DOMAIN requests : requests[i].client = k
ReadFault  == readFaults < MaxReadFaults /\ readFaults' = readFaults + 1

\* The rebuild ids that client k holds, with its patches.
Held(k) == {g \in given : g[1] = CrsOf[k] /\ g[2] \in PatchesOf[k]}

\* Mutant: a request that fails leaves retcode 0.
FailedRetcodeZero == 0
\* run_pov: no health, no connection, no answer in time or an HTTP error.
FailedRetcode == 1

\* The client has an answer, if it waits for one.
Answers(request, retcode) ==
  verdicts' = IF request.client = None THEN verdicts
              ELSE verdicts \union {<<request.patch, retcode>>}

\* libCRS run-pov, with a rebuild id or for the base build.
RunPov(k) ==
  /\ waiting[k] = None /\ ~Reading(k) /\ reads < MaxReads
  /\ reads' = reads + 1
  /\ \E pov \in {[client |-> k, crs |-> g[1], rid |-> g[3], patch |-> g[2]] : g \in Held(k)}
                \union {[client |-> k, crs |-> CrsOf[k], rid |-> None, patch |-> None]} :
       \/ requests' = Append(requests, pov) /\ UNCHANGED <<verdicts, readFaults>>
       \/ ReadFault /\ Answers(pov, FailedRetcode) /\ UNCHANGED requests
  /\ UNCHANGED <<serving, loaded, download, downloaded>>

\* The request times out; the runner goes on with it.
Abandoned(pov) == [client |-> None, crs |-> pov.crs, rid |-> pov.rid, patch |-> pov.patch]
GiveUpPov(k) ==
  /\ ReadFault
  /\ \E i \in DOMAIN requests :
       /\ requests[i].client = k
       /\ Answers(requests[i], FailedRetcode)
       /\ requests' = [requests EXCEPT ![i] = Abandoned(@)]
  /\ UNCHANGED <<serving, loaded, download, reads, downloaded>>

\* The build that a request is about: the base build is always there.
BuildOf(pov) == IF pov.rid = None THEN None ELSE dirs[<<pov.crs, pov.rid>>].built
IsThere(pov) == pov.rid = None \/ BuildOf(pov) # None

Served(retcode) ==
  /\ Answers(Head(requests), retcode)
  /\ requests' = Tail(requests) /\ serving' = "idle" /\ loaded' = None

\* _reproduce_pov looks for the harness; without it the answer is a 404.
FindHarness ==
  /\ requests # <<>> /\ serving = "idle"
  /\ IF IsThere(Head(requests))
       THEN serving' = "found" /\ UNCHANGED <<requests, loaded, verdicts>>
       ELSE Served(FailedRetcode)
  /\ UNCHANGED <<download, reads, readFaults, downloaded>>

\* reproduce starts what is at the path by now.
Reproduce ==
  /\ serving = "found"
  /\ IF IsThere(Head(requests))
       THEN /\ serving' = "running" /\ loaded' = BuildOf(Head(requests))
            /\ UNCHANGED <<requests, verdicts>>
       ELSE Served(1)
  /\ UNCHANGED <<download, reads, readFaults, downloaded>>

\* It ends, or is killed after POV_TIMEOUT (124).  The PoV crashes without a fix.
PovEnds ==
  /\ serving = "running"
  /\ Served(IF loaded \in Fixes THEN 0 ELSE 1) \/ Served(124)
  /\ UNCHANGED <<download, reads, readFaults, downloaded>>

\* The runner dies and is started again: its clients lose their connections.
RunnerCrash ==
  /\ requests # <<>> /\ ReadFault
  /\ verdicts' = verdicts \union
       {<<requests[i].patch, FailedRetcode>> : i \in {j \in DOMAIN requests : requests[j].client # None}}
  /\ requests' = <<>> /\ serving' = "idle" /\ loaded' = None
  /\ UNCHANGED <<download, reads, downloaded>>

\* download_build_output with a rebuild id: rsync of the directory, which it reads for a while.
DownloadStarts(k) ==
  /\ waiting[k] = None /\ ~Reading(k) /\ reads < MaxReads
  /\ reads' = reads + 1
  /\ \E g \in Held(k) :
       download' = [download EXCEPT ![k] = <<g[2], g[3], dirs[<<g[1], g[3]>>].built>>]
  /\ UNCHANGED <<requests, serving, loaded, readFaults, verdicts, downloaded>>
DownloadEnds(k) ==
  /\ download[k] # None
  /\ LET d == download[k] IN
       downloaded' = downloaded \union {<<d[1], d[3], dirs[<<CrsOf[k], d[2]>>].built>>}
  /\ download' = [download EXCEPT ![k] = None]
  /\ UNCHANGED <<requests, serving, loaded, reads, readFaults, verdicts>>

-----------------------------------------------------------------------------
ValidationInit == Init /\ ReadInit

Runner == FindHarness \/ Reproduce \/ PovEnds \/ RunnerCrash

\* A client makes one call at a time.
ValidationNext ==
  \/ /\ \/ \E k \in Clients : ~Reading(k) /\ Client(k)
        \/ Stage
        \/ \E w \in Workers : Work(w) \/ RunRaises(w)
        \/ Crash
        \/ \E o \in orphans : OrphanExits(o)
     /\ UNCHANGED readVars
  \/ /\ Runner \/ \E k \in Clients : RunPov(k) \/ GiveUpPov(k) \/ DownloadStarts(k) \/ DownloadEnds(k)
     /\ UNCHANGED vars

ValidationSpec == ValidationInit /\ [][ValidationNext]_allVars

-----------------------------------------------------------------------------
\* run-pov's retcode 0 ("no crash / fix works", docs/design/libCRS.md:521) is said only of a
\* patch that fixes, whatever the builder did between the build, the runner's look at the
\* directory and its run; and without failures a patch that fixes is not turned down.
VerdictsAreTrue ==
  /\ ReadTypeOK
  /\ \A v \in verdicts :
       /\ v[2] = 0 => v[1] \in Fixes
       /\ v[2] = 1 /\ readFaults = 0 => v[1] \notin Fixes

\* What is downloaded with a rebuild id is all of one build, of the patch the id stands for.
DownloadsAreWhole == \A d \in downloaded : d[2] = d[1] /\ d[3] = d[1]

=============================================================================
