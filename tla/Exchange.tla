------------------------------- MODULE Exchange -------------------------------
(***************************************************************************)
(* The exchange sidecar (oss-crs-infra/exchange/main.py) between the CRSs' *)
(* SUBMIT_DIRs and the fetch daemons (libCRS/libCRS/fetch.py) that read    *)
(* the shared EXCHANGE_DIR.                                                *)
(*                                                                         *)
(* A path stands for <data type directory>/<file name>.  Hidden paths have *)
(* dot names: the temporary files rsync and tarfile leave in a SUBMIT_DIR  *)
(* while they write.  sync_once runs one system call per action, so the    *)
(* CRSs, the consumers, SIGTERM and a crash may come between any two.      *)
(***************************************************************************)
EXTENDS Integers, FiniteSets

CONSTANTS
  CRSs,           \* the CRSs whose SUBMIT_DIR is mounted under /submit
  Dirs,           \* data type directories a CRS may create
  AllowedDirs,    \* ALLOWED_DATA_TYPES
  Paths,          \* file paths relative to a SUBMIT_DIR
  DirOf,          \* DirOf[p]: the directory of path p
  Hidden,         \* the paths whose file name starts with a dot
  Contents,       \* what a complete artifact may hold
  ContentsOf,     \* ContentsOf[p]: {the hashed content}, or more for a report
  Consumers,      \* fetch daemons
  FetchDir,       \* FetchDir[k]: the data type daemon k fetches
  None, Torn, Link, \* no file; a half-written file; a symbolic link
  MaxWrites,      \* bound: steps of the CRSs
  MaxFaults,      \* bound: failing system calls
  MaxRestarts     \* "restart: on-failure:3" of the compose template

ASSUME ExchangeAssumption ==
  /\ AllowedDirs \subseteq Dirs
  /\ DirOf \in [Paths -> Dirs]
  /\ Hidden \subseteq Paths
  /\ ContentsOf \in [Paths -> SUBSET Contents]
  /\ FetchDir \in [Consumers -> AllowedDirs]
  /\ None \notin Contents /\ Torn \notin Contents /\ Link \notin Contents
  /\ None # Torn /\ None # Link /\ Torn # Link
  /\ MaxWrites \in Nat /\ MaxFaults \in Nat /\ MaxRestarts \in Nat

\* What the exchange distributes: visible files of the allowed data types.
Visible == {p \in Paths : DirOf[p] \in AllowedDirs /\ p \notin Hidden}

VARIABLES
  submit,      \* submit[c][p]: the file at path p of CRS c's SUBMIT_DIR
  writes,      \* steps the CRSs have taken
  exchange,    \* exchange[p]: the file at path p of EXCHANGE_DIR
  readable,    \* the files of EXCHANGE_DIR whose mode is already 0644
  temps,       \* number of mkstemp files in EXCHANGE_DIR
  pc,          \* where the sidecar is
  todo,        \* the data type directories this pass has not listed yet
  source,      \* the CRS whose directory is being copied
  entries,     \* listed files not handled yet
  cur, buf,    \* the file being copied and what was read of it
  stopping,    \* shutdown_requested
  last,        \* this pass is the final sync after the loop
  restarts, faults,
  fetched,     \* fetched[k][p]: consumer k's local copy
  fpc, flist, ferr,  \* a consumer's place, its new_files, and rsync's status
  posted,      \* history: every <<path, content>> a CRS has submitted
  present,     \* history: <<CRS, path>> of the files in SUBMIT when stopping was set
  missed       \* history: the paths whose copy failed in the current pass

crsVars   == <<submit, writes, posted>>
dirVars   == <<exchange, readable, temps>>
passVars  == <<todo, source, entries, missed>>
copyVars  == <<cur, buf>>
loopVars  == <<stopping, last, present>>
faultVars == <<restarts, faults>>
fetchVars == <<fetched, fpc, flist, ferr>>
vars == <<submit, writes, posted, exchange, readable, temps, pc, todo, source, entries,
          missed, cur, buf, stopping, last, present, restarts, faults,
          fetched, fpc, flist, ferr>>

Init ==
  /\ submit = [c \in CRSs |-> [p \in Paths |-> None]]
  /\ writes = 0 /\ posted = {}
  /\ exchange = [p \in Paths |-> None]
  /\ readable = {} /\ temps = 0
  /\ pc = "idle" /\ todo = {} /\ source = None /\ entries = {} /\ missed = {}
  /\ cur = None /\ buf = None
  /\ stopping = FALSE /\ last = FALSE /\ present = {}
  /\ restarts = 0 /\ faults = 0
  /\ fetched = [k \in Consumers |-> [p \in Paths |-> None]]
  /\ fpc = [k \in Consumers |-> "init"]
  /\ flist = [k \in Consumers |-> {}]
  /\ ferr = [k \in Consumers |-> FALSE]

-----------------------------------------------------------------------------
(* The CRSs.  A visible file appears whole: rsync and submit_report rename  *)
(* a temporary file to its name.                                            *)

SubmitFile(c, p, v) ==
  /\ p \notin Hidden
  /\ v \in ContentsOf[p]
  /\ submit[c][p] = None
  /\ submit' = [submit EXCEPT ![c][p] = v]
  /\ posted' = IF p \in Visible THEN posted \union {<<p, v>>} ELSE posted

\* A writer's temporary file in SUBMIT_DIR, and its removal by the rename.
WriteTemporary(c, p) ==
  /\ p \in Hidden
  /\ submit' = [submit EXCEPT ![c][p] = IF @ = None THEN Torn ELSE None]
  /\ UNCHANGED posted

\* A CRS may put a symbolic link in a file's place; nothing may follow it.
PlaceLink(c, p) ==
  /\ p \notin Hidden
  /\ submit[c][p] # Link
  /\ submit' = [submit EXCEPT ![c][p] = Link]
  /\ UNCHANGED posted

CrsStep(c) ==
  /\ writes < MaxWrites
  /\ writes' = writes + 1
  /\ \E p \in Paths : \/ \E v \in Contents : SubmitFile(c, p, v)
                      \/ WriteTemporary(c, p)
                      \/ PlaceLink(c, p)
  /\ UNCHANGED <<dirVars, pc, passVars, copyVars, loopVars, faultVars, fetchVars>>

-----------------------------------------------------------------------------
(* sync_once, one system call per action, and the loop around it.           *)

\* Mutant: the loop ends on the signal without the final sync_once.
BeginPassUnlessStopping ==
  /\ pc = "idle"
  /\ pc' = IF stopping THEN "exited" ELSE "scan"
  /\ last' = stopping
  /\ todo' = CRSs \X AllowedDirs
  /\ missed' = {}
  /\ UNCHANGED <<crsVars, dirVars, source, entries, copyVars, stopping, present,
                 faultVars, fetchVars>>

\* The sleep, which a signal does not cut short, and the loop condition: once
\* shutdown_requested, one final pass runs.  Directories of an unknown data type
\* are passed over with a warning.
BeginPass ==
  /\ pc = "idle"
  /\ pc' = "scan"
  /\ last' = stopping
  /\ todo' = CRSs \X AllowedDirs
  /\ missed' = {}
  /\ UNCHANGED <<crsVars, dirVars, source, entries, copyVars, stopping, present,
                 faultVars, fetchVars>>

\* os.scandir of one data type directory; only its regular files are kept.
ListDir(c, d) ==
  /\ pc = "scan"
  /\ <<c, d>> \in todo
  /\ todo' = todo \ {<<c, d>>}
  /\ source' = c
  /\ entries' = {p \in Paths : DirOf[p] = d /\ submit[c][p] \in Contents \union {Torn}}
  /\ pc' = "entry"
  /\ UNCHANGED <<crsVars, dirVars, missed, copyVars, loopVars, faultVars, fetchVars>>

\* Mutant: sync_once is called without the try, so the container ends.
ScanFailsUncaught ==
  /\ pc = "scan" /\ todo # {}
  /\ faults < MaxFaults
  /\ faults' = faults + 1
  /\ pc' = "killed"
  /\ todo' = {} /\ missed' = {}
  /\ UNCHANGED <<crsVars, dirVars, source, entries, copyVars, loopVars, restarts,
                 fetchVars>>

\* os.scandir or mkdir raises: the loop logs it and polls again; in the final
\* pass nothing catches it.
ScanFails ==
  /\ pc = "scan" /\ todo # {}
  /\ faults < MaxFaults
  /\ faults' = faults + 1
  /\ pc' = IF last THEN "killed" ELSE "idle"
  /\ todo' = {} /\ missed' = {}
  /\ UNCHANGED <<crsVars, dirVars, source, entries, copyVars, loopVars, restarts,
                 fetchVars>>

\* dst.exists(): the name is taken, whoever submitted it.
SkipExisting(p) ==
  /\ pc = "entry" /\ p \in entries
  /\ exchange[p] # None
  /\ entries' = entries \ {p}
  /\ UNCHANGED <<crsVars, dirVars, pc, todo, source, missed, copyVars, loopVars,
                 faultVars, fetchVars>>

\* Mutant: the copy is written under its final name, without a temporary file.
OpenAndCopyInPlace(p) ==
  /\ pc = "entry" /\ p \in entries
  /\ exchange[p] = None
  /\ submit[source][p] \in Contents \union {Torn}
  /\ cur' = p
  /\ buf' = submit[source][p]
  /\ exchange' = [exchange EXCEPT ![p] = Torn]
  /\ temps' = temps + 1
  /\ pc' = "copied"
  /\ UNCHANGED <<crsVars, readable, passVars, loopVars, faultVars, fetchVars>>

\* Mutant: os.open without O_NOFOLLOW.
OpenAndCopyFollowing(p) ==
  /\ pc = "entry" /\ p \in entries
  /\ exchange[p] = None
  /\ submit[source][p] # None
  /\ cur' = p
  /\ buf' = submit[source][p]
  /\ temps' = temps + 1
  /\ pc' = "copied"
  /\ UNCHANGED <<crsVars, exchange, readable, passVars, loopVars, faultVars, fetchVars>>

\* os.open with O_NOFOLLOW, then mkstemp and the copy into the temporary file.
OpenAndCopy(p) ==
  /\ pc = "entry" /\ p \in entries
  /\ exchange[p] = None
  /\ submit[source][p] \in Contents \union {Torn}
  /\ cur' = p
  /\ buf' = submit[source][p]
  /\ temps' = temps + 1
  /\ pc' = "copied"
  /\ UNCHANGED <<crsVars, exchange, readable, passVars, loopVars, faultVars, fetchVars>>

\* The file is gone or became a link since the listing: os.open raises.
OpenFails(p) ==
  /\ pc = "entry" /\ p \in entries
  /\ exchange[p] = None
  /\ submit[source][p] \in {None, Link}
  /\ entries' = entries \ {p}
  /\ missed' = missed \union {p}
  /\ UNCHANGED <<crsVars, dirVars, pc, todo, source, copyVars, loopVars, faultVars,
                 fetchVars>>

\* Mutant: the handler of the OSError leaves the temporary file behind.
CopyFailsWithoutUnlink ==
  /\ pc = "copied"
  /\ faults < MaxFaults
  /\ faults' = faults + 1
  /\ entries' = entries \ {cur}
  /\ missed' = missed \union {cur}
  /\ cur' = None /\ buf' = None
  /\ pc' = "entry"
  /\ UNCHANGED <<crsVars, dirVars, todo, source, loopVars, restarts, fetchVars>>

\* An OSError before the rename took effect: unlink the temporary file, go on.
CopyFails ==
  /\ pc = "copied"
  /\ faults < MaxFaults
  /\ faults' = faults + 1
  /\ temps' = temps - 1
  /\ entries' = entries \ {cur}
  /\ missed' = missed \union {cur}
  /\ cur' = None /\ buf' = None
  /\ pc' = "entry"
  /\ UNCHANGED <<crsVars, exchange, readable, todo, source, loopVars, restarts,
                 fetchVars>>

\* os.rename of the temporary file to its name; the mode is still 0600.
Rename ==
  /\ pc = "copied"
  /\ exchange' = [exchange EXCEPT ![cur] = buf]
  /\ temps' = temps - 1
  /\ pc' = "renamed"
  /\ UNCHANGED <<crsVars, readable, passVars, copyVars, loopVars, faultVars, fetchVars>>

\* os.chmod to 0644; when it raises, the file keeps its mode for good.
Chmod ==
  /\ pc = "renamed"
  /\ \/ readable' = readable \union {cur} /\ UNCHANGED faults
     \/ faults < MaxFaults /\ faults' = faults + 1 /\ UNCHANGED readable
  /\ entries' = entries \ {cur}
  /\ cur' = None /\ buf' = None
  /\ pc' = "entry"
  /\ UNCHANGED <<crsVars, exchange, temps, todo, source, missed, loopVars, restarts,
                 fetchVars>>

EndDir ==
  /\ pc = "entry" /\ entries = {}
  /\ pc' = "scan"
  /\ source' = None
  /\ UNCHANGED <<crsVars, dirVars, todo, entries, missed, copyVars, loopVars, faultVars,
                 fetchVars>>

EndPass ==
  /\ pc = "scan" /\ todo = {}
  /\ pc' = IF last THEN "exited" ELSE "idle"
  /\ missed' = IF last THEN missed ELSE {}
  /\ UNCHANGED <<crsVars, dirVars, todo, source, entries, copyVars, loopVars, faultVars,
                 fetchVars>>

Sync ==
  \/ BeginPass \/ EndDir \/ EndPass \/ Rename \/ Chmod
  \/ \E c \in CRSs, d \in AllowedDirs : ListDir(c, d)
  \/ \E p \in Paths : SkipExisting(p) \/ OpenAndCopy(p) \/ OpenFails(p)

Running == pc \notin {"down", "killed", "exited"}

\* SIGTERM sets shutdown_requested; a container that is down stays down.
Sigterm ==
  /\ ~stopping /\ pc \notin {"killed", "exited"}
  /\ stopping' = TRUE
  /\ present' = {f \in CRSs \X Visible : submit[f[1]][f[2]] \in Contents}
  /\ pc' = IF pc = "down" THEN "killed" ELSE pc
  /\ UNCHANGED <<crsVars, dirVars, passVars, copyVars, last, faultVars, fetchVars>>

\* SIGKILL, after the grace period of a stop or out of memory: what main and
\* sync_once hold in memory is gone.
Crash ==
  /\ Running
  /\ pc' = IF stopping THEN "killed" ELSE "down"
  /\ todo' = {} /\ source' = None /\ entries' = {} /\ missed' = {}
  /\ cur' = None /\ buf' = None
  /\ UNCHANGED <<crsVars, dirVars, loopVars, faultVars, fetchVars>>

\* Docker restarts the container: main begins again, the directories remain.
Restart ==
  /\ pc = "down" /\ restarts < MaxRestarts
  /\ restarts' = restarts + 1
  /\ pc' = "idle"
  /\ UNCHANGED <<crsVars, dirVars, passVars, copyVars, loopVars, faults, fetchVars>>

-----------------------------------------------------------------------------
(* FetchHelper.register_dir over InfraClient.fetch_new.                     *)

\* Mutant: fetch_new does not ask is_data_file.
FetchListUnfiltered(k) ==
  LET new == {p \in Paths : /\ DirOf[p] = FetchDir[k]
                            /\ exchange[p] # None /\ fetched[k][p] = None} IN
  /\ fpc[k] \in {"init", "loop"}
  /\ flist' = [flist EXCEPT ![k] = new]
  /\ fpc' = [fpc EXCEPT ![k] = IF new = {} THEN "loop"
                               ELSE IF @ = "init" THEN "initcopy" ELSE "copy"]
  /\ ferr' = [ferr EXCEPT ![k] = FALSE]
  /\ UNCHANGED fetched

\* type_dir.iterdir(): data files this consumer does not have.
FetchList(k) ==
  LET new == {p \in Paths : /\ DirOf[p] = FetchDir[k] /\ p \notin Hidden
                            /\ exchange[p] # None /\ fetched[k][p] = None} IN
  /\ fpc[k] \in {"init", "loop"}
  /\ flist' = [flist EXCEPT ![k] = new]
  /\ fpc' = [fpc EXCEPT ![k] = IF new = {} THEN "loop"
                               ELSE IF @ = "init" THEN "initcopy" ELSE "copy"]
  /\ ferr' = [ferr EXCEPT ![k] = FALSE]
  /\ UNCHANGED fetched

\* rsync copies one file of the list.  A file that is still of mode 0600 it can
\* read only when the daemon has the sidecar's user.
FetchCopy(k, p) ==
  /\ p \in flist[k]
  /\ flist' = [flist EXCEPT ![k] = @ \ {p}]
  /\ \/ /\ fetched' = [fetched EXCEPT ![k][p] = exchange[p]]
        /\ UNCHANGED ferr
     \/ /\ p \notin readable
        /\ ferr' = [ferr EXCEPT ![k] = TRUE]
        /\ UNCHANGED fetched
  /\ UNCHANGED fpc

\* Mutant: the loop of register_dir has no try around fetch_once.
FetchEndUncaught(k) ==
  /\ fpc[k] \in {"initcopy", "copy"} /\ flist[k] = {}
  /\ fpc' = [fpc EXCEPT ![k] = IF ferr[k] THEN "dead" ELSE "loop"]
  /\ UNCHANGED <<fetched, flist, ferr>>

\* rsync ends.  An error of the initial sync is outside the try: the daemon
\* dies; an error in the loop is logged and the next poll tries again.
FetchEnd(k) ==
  /\ fpc[k] \in {"initcopy", "copy"} /\ flist[k] = {}
  /\ fpc' = [fpc EXCEPT ![k] = IF @ = "initcopy" /\ ferr[k] THEN "dead" ELSE "loop"]
  /\ UNCHANGED <<fetched, flist, ferr>>

Fetch(k) ==
  /\ FetchList(k) \/ FetchEnd(k) \/ \E p \in Paths : FetchCopy(k, p)
  /\ UNCHANGED <<crsVars, dirVars, pc, passVars, copyVars, loopVars, faultVars>>

-----------------------------------------------------------------------------
Faults == ScanFails \/ CopyFails \/ Crash

Next ==
  \/ \E c \in CRSs : CrsStep(c)
  \/ Sync \/ Faults \/ Sigterm \/ Restart
  \/ \E k \in Consumers : Fetch(k)

\* The loops of the sidecar and of the daemons never stop on their own, and
\* Docker does restart what crashed; nothing makes a CRS submit.
Fairness ==
  /\ WF_vars(Sync) /\ WF_vars(Restart)
  /\ \A k \in Consumers : WF_vars(Fetch(k))

Spec == Init /\ [][Next]_vars
FairSpec == Spec /\ Fairness

-----------------------------------------------------------------------------
(* Properties.                                                              *)

CrsType ==
  /\ submit \in [CRSs -> [Paths -> Contents \union {None, Torn, Link}]]
  /\ writes \in 0 .. MaxWrites
  /\ posted \in SUBSET (Paths \X Contents)

DirType ==
  /\ exchange \in [Paths -> Contents \union {None, Torn}]
  /\ readable \in SUBSET Paths
  /\ temps \in Nat

PassType ==
  /\ pc \in {"idle", "scan", "entry", "copied", "renamed", "down", "killed", "exited"}
  /\ todo \in SUBSET (CRSs \X AllowedDirs)
  /\ source \in CRSs \union {None}
  /\ entries \in SUBSET Paths
  /\ missed \in SUBSET Paths
  /\ cur \in Paths \union {None}
  /\ buf \in Contents \union {None, Torn}

LoopType ==
  /\ stopping \in BOOLEAN
  /\ last \in BOOLEAN
  /\ present \in SUBSET (CRSs \X Visible)

FaultType ==
  /\ restarts \in 0 .. MaxRestarts
  /\ faults \in 0 .. MaxFaults

FetchType ==
  /\ fetched \in [Consumers -> [Paths -> Contents \union {None, Torn}]]
  /\ fpc \in [Consumers -> {"init", "initcopy", "loop", "copy", "dead"}]
  /\ flist \in [Consumers -> SUBSET Paths]
  /\ ferr \in [Consumers -> BOOLEAN]

\* The sidecar's places and its data are what main.py and the daemons keep: it
\* copies files, never links, and removes no temporary file twice.
TypeOK == CrsType /\ DirType /\ PassType /\ LoopType /\ FaultType /\ FetchType

\* The sidecar and the fetch daemons implement the artifact board: for every
\* visible path one whole artifact that some CRS submitted is published, it is
\* never replaced (dst.exists(), and the rename of a finished temporary file,
\* across crashes and restarts), and a daemon's copy is that artifact.
Board == INSTANCE ArtifactBoard WITH
  Paths <- Visible,
  offers <- posted,
  board <- [p \in Visible |-> exchange[p]],
  copies <- [k \in Consumers |-> [p \in Visible |-> fetched[k][p]]]
ImplementsBoard == Board!Spec

\* A fetch daemon never hands a half-written file to its CRS, although
\* sync_once also copies the temporary dot files it finds in a SUBMIT_DIR.
OnlyWholeFilesFetched ==
  \A k \in Consumers, p \in Paths : fetched[k][p] \in Contents \union {None}

\* Every temporary file in EXCHANGE_DIR is the one being written, or was left
\* by a crash: failed copies leave none behind.
TempsAccounted ==
  temps <= (IF pc = "copied" THEN 1 ELSE 0)
           + restarts + (IF pc \in {"down", "killed"} THEN 1 ELSE 0)

\* A sidecar that exits on SIGTERM has published whatever was in the
\* SUBMIT_DIRs when the signal arrived and still is, except what its last pass
\* failed on.
DrainedOnExit ==
  pc = "exited" =>
    \A c \in CRSs, p \in Visible \ missed :
      <<c, p>> \in present /\ submit[c][p] \in Contents => exchange[p] \in Contents

\* Once submitted, an artifact's path is published, whatever fails in between,
\* unless the CRS takes the file away or the sidecar is stopped or has used up
\* its restarts.
Stopped == stopping \/ (pc = "down" /\ restarts = MaxRestarts)
Delivered == \A c \in CRSs : \A p \in Visible :
  submit[c][p] \in Contents
    ~> (exchange[p] \in Contents \/ submit[c][p] \notin Contents \/ Stopped)

\* A fetch daemon that got past its initial sync obtains every readable
\* artifact of its type, also when rsync failed on another one.
Fetched == \A k \in Consumers : \A p \in Visible :
  (p \in readable /\ DirOf[p] = FetchDir[k] /\ fpc[k] \in {"loop", "copy"})
     ~> fetched[k][p] \in Contents

\* exchange/main.py:9 "Files are already hash-named, so dedup is by filename":
\* a file whose name is taken in EXCHANGE_DIR has the content published there.
DedupByNameIsByContent == \A c \in CRSs, p \in Visible :
  (submit[c][p] \in Contents /\ exchange[p] # None) => exchange[p] = submit[c][p]
=============================================================================
