------------------------------- MODULE Lifecycle -------------------------------
(***************************************************************************)
(* oss-crs-infra/lifecycle/main.py: the sidecar that writes the ready file *)
(* once every watched service has exited.  It saves the time, lists the    *)
(* containers, and follows the die events since that time.                 *)
(***************************************************************************)
EXTENDS Naturals, Sequences, FiniteSets

CONSTANTS Services   \* WATCH_SERVICES

VARIABLES
  died,      \* Docker's die events of the project, in order: each service stops once
  lcAt,      \* where main() stands
  remaining, \* the watched services not known to have exited
  cursor,    \* the die events before it are not in the stream: since, then what was read
  lcStop,    \* shutdown_requested
  listed,    \* history: the containers could be listed
  ready      \* status/ready: the services it names, {} while there is no file

lcVars == <<died, lcAt, remaining, cursor, lcStop, listed, ready>>

Exited == { died[i] : i \in DOMAIN died }

LifecycleTypeOK ==
  /\ died \in Seq(Services) /\ Len(died) <= Cardinality(Services)
  /\ lcAt \in {"absent", "start", "list", "open", "events", "write", "ended"}
  /\ remaining \subseteq Services
  /\ cursor \in 0 .. Len(died)
  /\ lcStop \in BOOLEAN /\ listed \in BOOLEAN
  /\ ready \subseteq Services

LifecycleInit(present) ==
  /\ died = <<>>
  /\ lcAt = IF present THEN "start" ELSE "absent"
  /\ remaining = Services /\ cursor = 0 /\ lcStop = FALSE /\ listed = TRUE /\ ready = {}

\* A container of the project stops; Docker keeps the event.
ServiceExits(s) ==
  /\ s \notin Exited
  /\ died' = Append(died, s)
  /\ UNCHANGED <<lcAt, remaining, cursor, lcStop, listed, ready>>

-----------------------------------------------------------------------------
(* The sidecar.                                                             *)

\* start_time = int(time.time()): whole seconds, so events just before it are seen as well.
SaveStart ==
  /\ lcAt = "start"
  /\ lcAt' = "list"
  /\ cursor' \in 0 .. Len(died)
  /\ UNCHANGED <<died, remaining, lcStop, listed, ready>>

\* containers.list: all have exited, some have, or the call fails and the events must do.
ListContainers ==
  /\ lcAt = "list"
  /\ listed' \in BOOLEAN
  /\ remaining' = IF listed' THEN remaining \ Exited ELSE remaining
  /\ lcAt' = IF remaining' = {} THEN "write" ELSE "open"
  /\ UNCHANGED <<died, cursor, lcStop, ready>>

\* MUTANT of OpenStream: only the events from now on.
OpenStreamNow ==
  /\ lcAt = "open"
  /\ lcAt' = "events"
  /\ cursor' = Len(died)
  /\ UNCHANGED <<died, remaining, lcStop, listed, ready>>
\* client.events(since=start_time): the events of the past since then come first.
OpenStream ==
  /\ lcAt = "open"
  /\ lcAt' = "events"
  /\ UNCHANGED <<died, remaining, cursor, lcStop, listed, ready>>

\* MUTANT of NextEvent: the first exit counts for all.
NextEventAny ==
  /\ lcAt = "events" /\ cursor < Len(died)
  /\ cursor' = cursor + 1 /\ remaining' = {} /\ lcAt' = "write"
  /\ UNCHANGED <<died, lcStop, listed, ready>>
\* The next event of the stream.  A shutdown is looked at only here, and that event is dropped.
NextEvent ==
  /\ lcAt = "events" /\ cursor < Len(died)
  /\ IF lcStop
       THEN lcAt' = "ended" /\ UNCHANGED <<remaining, cursor>>
       ELSE /\ cursor' = cursor + 1
            /\ remaining' = remaining \ {died[cursor + 1]}
            /\ lcAt' = IF remaining' = {} THEN "write" ELSE "events"
  /\ UNCHANGED <<died, lcStop, listed, ready>>

\* The stream breaks: the sidecar ends with a warning and no ready file.
StreamFails ==
  /\ lcAt \in {"open", "events"}
  /\ lcAt' = "ended"
  /\ UNCHANGED <<died, remaining, cursor, lcStop, listed, ready>>

WriteReady ==
  /\ lcAt = "write"
  /\ ready' = Services
  /\ lcAt' = "ended"
  /\ UNCHANGED <<died, remaining, cursor, lcStop, listed>>

\* docker stop: SIGTERM, and SIGKILL ten seconds later.
LifecycleTerm ==
  /\ ~lcStop /\ lcStop' = TRUE
  /\ UNCHANGED <<died, lcAt, remaining, cursor, listed, ready>>
LifecycleKill ==
  /\ lcStop /\ lcAt \notin {"absent", "ended"}
  /\ lcAt' = "ended"
  /\ UNCHANGED <<died, remaining, cursor, lcStop, listed, ready>>

LifecycleOn == SaveStart \/ ListContainers \/ OpenStream \/ NextEvent \/ WriteReady
LifecycleStep == LifecycleOn \/ StreamFails \/ LifecycleKill

=============================================================================
