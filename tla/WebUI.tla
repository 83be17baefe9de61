--------------------------------- MODULE WebUI ---------------------------------
(***************************************************************************)
(* The dashboard: oss-crs-infra/webui-publisher/main.py pushes snapshots   *)
(* of a run, oss-crs-infra/webui/main.py keeps and persists them, and      *)
(* oss_crs/src/webui.py reports the end of the run from the host.          *)
(*                                                                         *)
(* The snapshots speak of one run id, which later runs may use again.      *)
(* Requests reach the server's event loop in the order they were sent; a   *)
(* request that is not answered in time is given up by its sender and may  *)
(* still be handled later.                                                 *)
(***************************************************************************)
EXTENDS SpendReport, Sequences

CONSTANTS
  MaxFound,     \* bound: artifacts of one CRS
  MaxRegister,  \* attempts to register
  MaxRuns,      \* bound: runs with this run id
  MaxInbox,     \* bound: requests that wait in the server
  MaxWebDowns   \* bound: crashes of the server

VARIABLES
  run,       \* the current run
  found,     \* artifacts in each CRS's SUBMIT_DIR
  pubAt,     \* where the publisher stands
  attempts,  \* its attempts to register
  pubStop,   \* its _shutdown
  inbox,     \* requests the server has not handled
  webUp, webDowns,
  shown,     \* the server's RunState
  saved,     \* the run's meta.json, and the last line of its jsonl file
  heard,     \* history: this server process has handled a message of the current run in progress
  ended,     \* history: an end of the current run was sent
  finalized  \* history: the server has handled the host's report of the current run

pubVars == <<pubAt, attempts, pubStop>>
srvVars == <<inbox, webUp, webDowns, shown, saved, heard, finalized>>
webVars == <<run, found, pubVars, srvVars, ended>>

Counts   == [Crs -> 0 .. MaxFound]
Bodies   == [found : Counts, cost : Spend \union {NoReport}]
NoCounts == [c \in Crs |-> 0]
NoBody   == [found |-> NoCounts, cost |-> NoReport]   \* what {} is shown as

\* "outcome" is the run that reported one, 0 for none; "known" is run.target.
States   == [known : BOOLEAN, done : BOOLEAN, outcome : 0 .. MaxRuns, latest : Bodies]
Blank(known) == [known |-> known, done |-> FALSE, outcome |-> 0, latest |-> NoBody]
NoState  == Blank(FALSE)
Requests == [op : {"register", "snapshot", "final", "finalize"}, of : 1 .. MaxRuns, body : Bodies]

WebTypeOK ==
  /\ run \in 1 .. MaxRuns /\ found \in Counts
  /\ pubAt \in {"absent", "register", "loop", "final", "ended"}
  /\ attempts \in 0 .. MaxRegister /\ pubStop \in BOOLEAN
  /\ inbox \in Seq(Requests) /\ Len(inbox) <= MaxInbox
  /\ webUp \in BOOLEAN /\ webDowns \in 0 .. MaxWebDowns
  /\ shown \in States /\ saved \in States
  /\ heard \in BOOLEAN /\ ended \in BOOLEAN /\ finalized \in BOOLEAN

WebInit(present) ==
  /\ run = 1 /\ found = NoCounts
  /\ pubAt = IF present THEN "register" ELSE "absent"
  /\ attempts = 0 /\ pubStop = FALSE
  /\ inbox = <<>> /\ webUp = TRUE /\ webDowns = 0
  /\ shown = NoState /\ saved = NoState
  /\ heard = FALSE /\ ended = FALSE /\ finalized = FALSE

FindArtifact(c) ==
  /\ found[c] < MaxFound
  /\ found' = [found EXCEPT ![c] = @ + 1]
  /\ UNCHANGED <<run, pubVars, srvVars, ended>>

-----------------------------------------------------------------------------
(* The server's handlers: what is shown next, and what is on disk next.     *)

\* _persist_run_meta writes all but the snapshots.
Persist(meta, state) ==
  [known |-> state.known, done |-> state.done, outcome |-> state.outcome, latest |-> meta.latest]

\* A snapshot that is not final means that a new run uses the id.
SnapshotState(m) ==
  [known |-> TRUE, done |-> m.op = "final",
   outcome |-> IF m.op # "final" /\ shown.done THEN 0 ELSE shown.outcome,
   latest |-> m.body]

\* Only the keys of the host's report that are not null are merged.
FinalizedState(m) ==
  [known |-> TRUE, done |-> TRUE, outcome |-> m.of,
   latest |-> [found |-> m.body.found,
               cost |-> IF m.body.cost = NoReport THEN shown.latest.cost ELSE m.body.cost]]

NextShown(m) ==
  IF m.op = "register" THEN Blank(TRUE)
  ELSE IF m.op = "finalize" THEN FinalizedState(m)
  ELSE SnapshotState(m)

\* MUTANT of NextSaved: the host's report is not persisted.
NextSavedSnapshots(m) ==
  IF m.op = "finalize" THEN saved ELSE NextShown(m)
\* Every snapshot is appended to the jsonl file; meta.json is written at a change of identity
\* or at an end only, and a register leaves the jsonl file as it is.
NextSaved(m) ==
  LET next == NextShown(m) IN
  IF m.op = "register" THEN Persist(saved, next)
  ELSE IF m.op = "snapshot" /\ shown.known THEN Persist(next, saved)
  ELSE next

Handle(m) ==
  /\ shown' = NextShown(m)
  /\ saved' = NextSaved(m)
  /\ heard' = (heard \/ (m.of = run /\ m.op \in {"register", "snapshot"}))
  /\ finalized' = (finalized \/ (m.of = run /\ m.op = "finalize"))

\* requests.post: answered; given up but handled later; or never received.
Answered(m) == webUp /\ inbox = <<>> /\ Handle(m) /\ UNCHANGED <<inbox, webUp, webDowns>>
Unanswered(m) ==
  /\ \/ webUp /\ Len(inbox) < MaxInbox /\ inbox' = Append(inbox, m)
     \/ UNCHANGED inbox
  /\ UNCHANGED <<webUp, webDowns, shown, saved, heard, finalized>>
Post(m) == Answered(m) \/ Unanswered(m)

HandleLate ==
  /\ webUp /\ inbox # <<>>
  /\ Handle(Head(inbox))
  /\ inbox' = Tail(inbox)
  /\ UNCHANGED <<run, found, pubVars, ended, webUp, webDowns>>

\* The server's container dies, and Docker starts it again: _rehydrate.
WebCrash ==
  /\ webUp /\ webDowns < MaxWebDowns
  /\ webUp' = FALSE /\ webDowns' = webDowns + 1
  /\ inbox' = <<>> /\ heard' = FALSE
  /\ UNCHANGED <<run, found, pubVars, ended, shown, saved, finalized>>
WebRestart ==
  /\ ~webUp
  /\ webUp' = TRUE
  /\ shown' = IF saved.known THEN saved ELSE NoState
  /\ UNCHANGED <<run, found, pubVars, ended, inbox, webDowns, saved, heard, finalized>>

-----------------------------------------------------------------------------
(* The publisher.                                                           *)

Message(op, body) == [op |-> op, of |-> run, body |-> body]

\* build_snapshot; read_cost: a report that is not valid JSON counts as none.
Snapshot == [found |-> found, cost |-> IF report = Torn THEN NoReport ELSE report]

\* register_run, tried a number of times.
PubRegister ==
  /\ pubAt = "register"
  /\ IF pubStop
       THEN pubAt' = "final" /\ UNCHANGED <<attempts, srvVars>>
       ELSE \/ Answered(Message("register", NoBody)) /\ pubAt' = "loop" /\ UNCHANGED attempts
            \/ /\ Unanswered(Message("register", NoBody))
               /\ attempts' = attempts + 1
               /\ pubAt' = IF attempts' = MaxRegister THEN "loop" ELSE "register"
  /\ UNCHANGED <<run, found, pubStop, ended>>

\* publisher_loop: every few seconds until _shutdown.
PubSnapshot ==
  /\ pubAt = "loop"
  /\ IF pubStop THEN pubAt' = "final" /\ UNCHANGED srvVars
     ELSE Post(Message("snapshot", Snapshot)) /\ UNCHANGED pubAt
  /\ UNCHANGED <<run, found, attempts, pubStop, ended>>

\* main: one last snapshot, with done set.
PubFinal ==
  /\ pubAt = "final"
  /\ Post(Message("final", Snapshot))
  /\ pubAt' = "ended" /\ ended' = TRUE
  /\ UNCHANGED <<run, found, attempts, pubStop>>

PubTerm ==
  /\ ~pubStop /\ pubStop' = TRUE
  /\ UNCHANGED <<run, found, pubAt, attempts, srvVars, ended>>
PubKill ==
  /\ pubStop /\ pubAt \notin {"absent", "ended"}
  /\ pubAt' = "ended"
  /\ UNCHANGED <<run, found, attempts, pubStop, srvVars, ended>>

PubStep == PubRegister \/ PubSnapshot \/ PubFinal \/ PubKill

-----------------------------------------------------------------------------
(* The host: publish_final_snapshot, after the containers are gone.          *)

\* per_crs, counted in the SUBMIT_DIRs, is assigned the report's entries when there is one,
\* and those hold no counts.  A report that cannot be read counts as 0.
FinalBody ==
  [found |-> IF report = NoReport THEN found ELSE NoCounts,
   cost  |-> IF report = Torn THEN NoCounts ELSE report]

PublishFinal == Post(Message("finalize", FinalBody))

=============================================================================
