------------------------------ MODULE RunServices ------------------------------
(***************************************************************************)
(* The sidecars of a run that report on it: the lifecycle sidecar, the key *)
(* generator with its spend report and the publisher, in the order in      *)
(* which docker compose starts and stops them, and the host that reads     *)
(* what they leave.  The features of a run say which sidecars it has.      *)
(***************************************************************************)
EXTENDS Lifecycle, WebUI

CONSTANTS
  Owner,     \* the CRS of each service
  Features,  \* the sets of sidecars to consider
  Repeated   \* bound: those whose run is repeated with the same run id

ASSUME ServicesAssumption ==
  /\ Owner \in [Services -> Crs] /\ IsFiniteSet(Services)
  /\ Repeated \subseteq Features /\ Features \subseteq SUBSET {"lifecycle", "llm", "webui"}
  /\ MaxFound \in Nat /\ MaxWebDowns \in Nat
  /\ MaxRegister \in Nat \ {0} /\ MaxRuns \in Nat \ {0} /\ MaxInbox \in Nat \ {0}

VARIABLES
  features,  \* the sidecars of the run
  phase,     \* the compose project
  started    \* the CRSs' containers are started

vars == <<lcVars, kgVars, webVars, features, phase, started>>
runVars == <<features, phase, started>>

TypeOK ==
  /\ LifecycleTypeOK /\ SpendTypeOK /\ WebTypeOK
  /\ features \in Features /\ started \in BOOLEAN
  /\ phase \in {"up", "stopping", "reported"}

Init ==
  /\ features \in Features
  /\ LifecycleInit("lifecycle" \in features)
  /\ SpendInit("llm" \in features)
  /\ WebInit("webui" \in features)
  /\ phase = "up" /\ started = FALSE

Runs(c) == started /\ \E s \in Services \ Exited : Owner[s] = c
CrsGone == started => Exited = Services

-----------------------------------------------------------------------------
\* depends_on, service_healthy: the CRSs start when the keys are there.
StartCrs ==
  /\ phase = "up" /\ kgReady /\ ~started
  /\ started' = TRUE
  /\ UNCHANGED <<lcVars, kgVars, webVars, features, phase>>

CrsWorks(c) ==
  /\ Runs(c)
  /\ \/ UseKey(c) /\ UNCHANGED webVars
     \/ "webui" \in features /\ FindArtifact(c) /\ UNCHANGED kgVars
  /\ UNCHANGED <<lcVars, runVars>>

\* A service ends by itself or is stopped.
CrsExits(s) ==
  /\ started /\ ServiceExits(s)
  /\ UNCHANGED <<kgVars, webVars, runVars>>

\* The end of docker compose up, or docker compose down.
Stop ==
  /\ phase = "up"
  /\ phase' = "stopping"
  /\ UNCHANGED <<lcVars, kgVars, webVars, features, started>>

\* MUTANT of TermKeyGen: not after the CRSs that depend on it.
TermKeyGenAny ==
  /\ phase = "stopping" /\ KeyGenTerm
  /\ UNCHANGED <<lcVars, webVars, runVars>>
\* Compose stops a service after those that depend on it.
TermKeyGen ==
  /\ phase = "stopping" /\ CrsGone /\ KeyGenTerm
  /\ UNCHANGED <<lcVars, webVars, runVars>>
TermLifecycle ==
  /\ phase = "stopping" /\ LifecycleTerm
  /\ UNCHANGED <<kgVars, webVars, runVars>>
TermPublisher ==
  /\ phase = "stopping" /\ PubTerm
  /\ UNCHANGED <<lcVars, kgVars, runVars>>

AllStopped ==
  /\ CrsGone
  /\ lcAt \in {"absent", "ended"} /\ pubAt \in {"absent", "ended"}
  /\ kgAt \in {"absent", "ended", "failed"}

\* __run_local after the tree: the spend and the counts go to the dashboard.
HostReports ==
  /\ phase = "stopping" /\ AllStopped
  /\ phase' = "reported"
  /\ IF "webui" \in features THEN PublishFinal /\ ended' = TRUE ELSE UNCHANGED <<srvVars, ended>>
  /\ UNCHANGED <<lcVars, kgVars, run, found, pubVars, features, started>>

\* Another run with the same run id and sidecars: the report and the SUBMIT_DIRs are there from
\* before; the exchange is cleaned; the keys and the containers are new.
NextRun ==
  /\ phase = "reported" /\ run < MaxRuns /\ features \in Repeated
  /\ run' = run + 1 /\ phase' = "up" /\ started' = FALSE
  /\ died' = <<>> /\ remaining' = Services /\ cursor' = 0 /\ lcStop' = FALSE /\ listed' = TRUE /\ ready' = {}
  /\ lcAt' = IF "lifecycle" \in features THEN "start" ELSE "absent"
  /\ kgAt' = IF "llm" \in features THEN "keys" ELSE "absent"
  /\ kgReady' = ("llm" \notin features) /\ kgStop' = FALSE /\ kgFinal' = FALSE
  /\ usage' = NoCounts /\ queried' = [c \in {} |-> 0] /\ missed' = FALSE
  /\ pubAt' = IF "webui" \in features THEN "register" ELSE "absent"
  /\ attempts' = 0 /\ pubStop' = FALSE
  /\ heard' = FALSE /\ ended' = FALSE /\ finalized' = FALSE
  /\ UNCHANGED <<features, report, kgErrors, found, inbox, webUp, webDowns, shown, saved>>

Next ==
  \/ StartCrs \/ Stop \/ HostReports \/ NextRun
  \/ \E c \in Crs : CrsWorks(c)
  \/ \E s \in Services : CrsExits(s)
  \/ TermKeyGen \/ TermLifecycle \/ TermPublisher
  \/ LifecycleStep /\ UNCHANGED <<kgVars, webVars, runVars>>
  \/ SpendStep /\ UNCHANGED <<lcVars, webVars, runVars>>
  \/ PubStep /\ UNCHANGED <<lcVars, kgVars, runVars>>
  \/ (HandleLate \/ WebCrash \/ WebRestart) /\ UNCHANGED <<lcVars, kgVars, runVars>>

Spec == Init /\ [][Next]_vars
\* The lifecycle sidecar never waits for another process but for Docker's events.
FairSpec == Spec /\ WF_vars(LifecycleOn /\ UNCHANGED <<kgVars, webVars, runVars>>)

-----------------------------------------------------------------------------
(* Properties                                                               *)

\* lifecycle/main.py:75-77: an exit between the saved time, the list and the stream is not
\* missed: what has exited and is still waited for is ahead in the events.  (If the list fails, an
\* exit before the saved time is lost.)
NoExitIsMissed ==
  listed /\ lcAt \in {"list", "open", "events"} =>
    \A s \in remaining \cap Exited :
      \/ lcAt = "list"
      \/ \E i \in cursor + 1 .. Len(died) : died[i] = s

\* The ready file of a run is written when all its watched services have stopped, not before.
ReadyMeansStopped == [][ready' # ready /\ ready' # {} => Exited = Services]_vars

\* Every exit counts, and no service is counted as ended that runs.
ExitsAreCounted == []NoExitIsMissed /\ ReadyMeansStopped

\* The ready file comes once all services have stopped, unless the sidecar is stopped or its
\* event stream or its list of containers failed.
ReadyComes ==
  ("lifecycle" \in features /\ started /\ Exited = Services)
    ~> (ready = Services \/ lcStop \/ ~listed \/ lcAt = "ended")

\* The report is valid JSON at every moment, so a kill in the middle of a write loses nothing
\* (litellm-key-gen/main.py:218-222).
ReportIsWhole == report # Torn

\* What is shown at present, or after the server's restart.
Shown == IF webUp THEN shown ELSE saved

\* webui/main.py:238-241, 267-271: a run in progress from which the server has heard is not
\* shown as ended, nor with the outcome of an earlier run of the same id.
InProgressIsLive == webUp /\ heard /\ ~ended => ~shown.done /\ shown.outcome = 0

\* Once the server has handled the host's report the run is shown as ended, with this run's
\* outcome, across restarts of the server and whatever requests were still on their way.
EndIsShown == finalized => Shown.done /\ Shown.outcome = run

\* The dashboard says of a run what is true of it.
DashboardIsTrue == TypeOK /\ InProgressIsLive /\ EndIsShown

\* The dashboard ends with all that the CRSs have spent, when the last query did not fail and the
\* final flush was written: the CRSs are stopped before the key generator, it before the host
\* reads.
SpendIsShown ==
  finalized /\ kgAt = "ended" /\ ~missed => Shown.latest.cost = usage

\* What was spent is neither garbled on its way nor lost in the end.
SpendIsKept == ReportIsWhole /\ SpendIsShown

\* oss_crs/src/webui.py:256-258: "so the finished run reflects the true results".
CountsAreShown == finalized => Shown.latest.found = found

=============================================================================
