----------------------------- MODULE SubmitDaemon -----------------------------
(***************************************************************************)
(* libCRS/libCRS/submit.py: SubmitHelper, the daemon behind                *)
(* "libCRS register-submit-dir", which hashes the files that appear in a   *)
(* watched directory and copies them in batches to SUBMIT_DIR under their  *)
(* hash, and submit_file, the same for one file from another process.      *)
(*                                                                         *)
(* The hash is injective, so a file name in SUBMIT_DIR is the content that *)
(* was hashed.  The daemon has two threads: the main thread, which handles *)
(* the files it finds first and then wakes every batch_time, and the       *)
(* watchdog observer, which handles events.                                *)
(***************************************************************************)
EXTENDS Integers, Sequences, FiniteSets

CONSTANTS
  Files,       \* names in the watched directory
  Dotfiles,    \* those is_data_file rejects
  Contents,    \* contents of a non-empty file
  Empty,       \* the content of an empty file
  None,        \* no file, no thread, no job
  InPlace,     \* producers rewrite and remove data files, or rename whole ones in
  BatchSize,   \* batch_size
  MaxWrites,   \* bound: steps of the producers
  MaxFaults    \* bound: failing rsync runs

ASSUME SubmitAssumption ==
  /\ Dotfiles \subseteq Files
  /\ Empty \notin Contents /\ None \notin Contents /\ None # Empty
  /\ None \notin Files
  /\ InPlace \in BOOLEAN
  /\ BatchSize \in Nat \ {0} /\ MaxWrites \in Nat /\ MaxFaults \in Nat

Data == Contents \union {Empty}
Threads == {"main", "observer"}

VARIABLES
  src,       \* src[f]: the file f of the watched directory
  writes,    \* steps the producers have taken
  submit,    \* submit[h]: the file of SUBMIT_DIR named by the hash of h
  phase,     \* "new", "scan", "watch", "final", "exited" or "dead"
  listing,   \* files of iterdir() the first scan has not handled
  events,    \* files with an undelivered watchdog event
  queue,     \* self.queue: items [file, hash]
  due,       \* batch_time has passed since _last_flush_time
  pc, job,   \* each thread's place and the item it handles
  batch,     \* each thread's cur_queue
  buf,       \* each thread's rsync: the content in its temporary file
  lock,      \* holder of flush_lock
  manual,    \* a submit_file call of another process
  faults,
  enqueued, failed   \* history: hashes ever queued; hashes rsync failed on

dirVars    == <<src, writes>>
threadVars == <<pc, job, batch, buf>>
vars == <<src, writes, submit, phase, listing, events, queue, due, pc, job, batch,
          buf, lock, manual, faults, enqueued, failed>>

Items == [file : Files, hash : Contents]

\* How far a submit_file call is, and what it has read.
Call(stage, file, hash, data) ==
  [stage |-> stage, file |-> file, hash |-> hash, data |-> data]

Init ==
  /\ src = [f \in Files |-> None] /\ writes = 0
  /\ submit = [h \in Data |-> None]
  /\ phase = "new" /\ listing = {} /\ events = {}
  /\ queue = <<>> /\ due = FALSE
  /\ pc = [t \in Threads |-> "idle"]
  /\ job = [t \in Threads |-> None]
  /\ batch = [t \in Threads |-> <<>>]
  /\ buf = [t \in Threads |-> None]
  /\ lock = None /\ manual = Call("idle", None, None, None) /\ faults = 0
  /\ enqueued = {} /\ failed = {}

-----------------------------------------------------------------------------
(* Producers: the CRS's own programs.                                       *)

\* A created, modified or moved file; the observer, once started, gets an event.
Write(f, c) ==
  /\ writes < MaxWrites
  /\ \/ InPlace
     \/ f \in Dotfiles
     \/ src[f] = None
  /\ src[f] # c
  /\ src' = [src EXCEPT ![f] = c]
  /\ writes' = writes + 1
  /\ events' = IF phase = "watch" /\ c # None THEN events \union {f} ELSE events
  /\ UNCHANGED <<submit, phase, listing, queue, due, threadVars, lock, manual, faults,
                 enqueued, failed>>

-----------------------------------------------------------------------------
(* register_dir: the first scan, the observer, the sleeping loop.           *)

\* dir_path.iterdir() reads the names before any file is handled.
ScanDirectory ==
  /\ phase = "new"
  /\ phase' = "scan"
  /\ listing' = {f \in Files : src[f] # None}
  /\ UNCHANGED <<dirVars, submit, events, queue, due, threadVars, lock, manual, faults,
                 enqueued, failed>>

\* Mutant: handle_new_file does not ask is_data_file.
HandleAnyFile(t, f) ==
  /\ pc' = [pc EXCEPT ![t] = "hash"]
  /\ job' = [job EXCEPT ![t] = [file |-> f, hash |-> None]]
  /\ UNCHANGED <<batch, buf>>

\* handle_new_file: a dotfile or a vanished file ends the call.
Handle(t, f) ==
  IF f \in Dotfiles \/ src[f] = None
    THEN UNCHANGED threadVars
    ELSE /\ pc' = [pc EXCEPT ![t] = "hash"]
         /\ job' = [job EXCEPT ![t] = [file |-> f, hash |-> None]]
         /\ UNCHANGED <<batch, buf>>

HandleExisting(f) ==
  /\ phase = "scan" /\ pc["main"] = "idle"
  /\ f \in listing
  /\ listing' = listing \ {f}
  /\ Handle("main", f)
  /\ UNCHANGED <<dirVars, submit, phase, events, queue, due, lock, manual, faults,
                 enqueued, failed>>

\* observer.start() comes after the scan.
StartObserver ==
  /\ phase = "scan" /\ listing = {} /\ pc["main"] = "idle"
  /\ phase' = "watch"
  /\ UNCHANGED <<dirVars, submit, listing, events, queue, due, threadVars, lock, manual,
                 faults, enqueued, failed>>

HandleEvent(f) ==
  /\ phase = "watch" /\ pc["observer"] = "idle"
  /\ f \in events
  /\ events' = events \ {f}
  /\ Handle("observer", f)
  /\ UNCHANGED <<dirVars, submit, phase, listing, queue, due, lock, manual, faults,
                 enqueued, failed>>

\* time.sleep(batch_time) is over.
MainWakes ==
  /\ phase = "watch" /\ pc["main"] = "idle"
  /\ queue # <<>>
  /\ pc' = [pc EXCEPT !["main"] = "flush"]
  /\ UNCHANGED <<dirVars, submit, phase, listing, events, queue, due, job, batch, buf,
                 lock, manual, faults, enqueued, failed>>

\* batch_time has passed since the last flush.
Tick ==
  /\ ~due
  /\ due' = TRUE
  /\ UNCHANGED <<dirVars, submit, phase, listing, events, queue, threadVars, lock, manual,
                 faults, enqueued, failed>>

-----------------------------------------------------------------------------
(* __enqueue_file and __flush, run by either thread.                        *)

\* stat and file_hash; an empty or vanished file is not queued.
Hash(t) ==
  /\ pc[t] = "hash"
  /\ LET c == src[job[t].file] IN
       IF c \in Contents
         THEN /\ job' = [job EXCEPT ![t] = [file |-> @.file, hash |-> c]]
              /\ pc' = [pc EXCEPT ![t] = "enqueue"]
         ELSE /\ job' = [job EXCEPT ![t] = None]
              /\ pc' = [pc EXCEPT ![t] = "flush"]
  /\ UNCHANGED <<dirVars, submit, phase, listing, events, queue, due, batch, buf, lock,
                 manual, faults, enqueued, failed>>

\* dst.exists(), then the append under queue_lock.
Enqueue(t) ==
  /\ pc[t] = "enqueue"
  /\ IF submit[job[t].hash] # None
       THEN UNCHANGED <<queue, enqueued>>
       ELSE /\ queue' = Append(queue, job[t])
            /\ enqueued' = enqueued \union {job[t].hash}
  /\ job' = [job EXCEPT ![t] = None]
  /\ pc' = [pc EXCEPT ![t] = "flush"]
  /\ UNCHANGED <<dirVars, submit, phase, listing, events, due, batch, buf, lock, manual,
                 faults, failed>>

\* Mutant: only a full batch is flushed.
TakeFullBatch(t) ==
  /\ pc[t] = "flush"
  /\ IF Len(queue) >= BatchSize
       THEN /\ batch' = [batch EXCEPT ![t] = queue]
            /\ queue' = <<>>
            /\ pc' = [pc EXCEPT ![t] = "lock"]
       ELSE /\ pc' = [pc EXCEPT ![t] = "idle"]
            /\ UNCHANGED <<batch, queue>>
  /\ UNCHANGED <<dirVars, submit, phase, listing, events, due, job, buf, lock, manual,
                 faults, enqueued, failed>>

\* The threshold test and the swap of the queue, under queue_lock.
TakeBatch(t) ==
  /\ pc[t] = "flush"
  /\ IF Len(queue) >= BatchSize \/ (queue # <<>> /\ due)
       THEN /\ batch' = [batch EXCEPT ![t] = queue]
            /\ queue' = <<>>
            /\ pc' = [pc EXCEPT ![t] = "lock"]
       ELSE /\ pc' = [pc EXCEPT ![t] = "idle"]
            /\ UNCHANGED <<batch, queue>>
  /\ UNCHANGED <<dirVars, submit, phase, listing, events, due, job, buf, lock, manual,
                 faults, enqueued, failed>>

Lock(t) ==
  /\ pc[t] = "lock" /\ lock = None
  /\ lock' = t
  /\ pc' = [pc EXCEPT ![t] = "copy"]
  /\ UNCHANGED <<dirVars, submit, phase, listing, events, queue, due, job, batch, buf,
                 manual, faults, enqueued, failed>>

\* Mutant: an rsync that fails ends the whole batch.
CopyItemOrAbort(t) ==
  LET item == Head(batch[t]) IN
  /\ pc[t] = "copy" /\ batch[t] # <<>>
  /\ \/ /\ submit[item.hash] = None /\ src[item.file] # None
        /\ buf' = [buf EXCEPT ![t] = src[item.file]]
        /\ pc' = [pc EXCEPT ![t] = "rename"]
        /\ UNCHANGED <<batch, faults, failed>>
     \/ /\ submit[item.hash] # None
        /\ batch' = [batch EXCEPT ![t] = Tail(@)]
        /\ UNCHANGED <<buf, pc, faults, failed>>
     \/ /\ submit[item.hash] = None
        /\ faults < MaxFaults /\ faults' = faults + 1
        /\ batch' = [batch EXCEPT ![t] = <<>>]
        /\ failed' = failed \union {item.hash}
        /\ UNCHANGED <<buf, pc>>
  /\ UNCHANGED <<dirVars, submit, phase, listing, events, queue, due, job, lock, manual,
                 enqueued>>

\* One item of the batch: skip it when dst.exists(), else rsync reads the file
\* as it is now into a temporary file.  What rsync fails on is logged and lost.
CopyItem(t) ==
  LET item == Head(batch[t]) IN
  /\ pc[t] = "copy" /\ batch[t] # <<>>
  /\ \/ /\ submit[item.hash] = None /\ src[item.file] # None
        /\ buf' = [buf EXCEPT ![t] = src[item.file]]
        /\ pc' = [pc EXCEPT ![t] = "rename"]
        /\ UNCHANGED <<batch, faults, failed>>
     \/ /\ submit[item.hash] # None
        /\ batch' = [batch EXCEPT ![t] = Tail(@)]
        /\ UNCHANGED <<buf, pc, faults, failed>>
     \/ /\ submit[item.hash] = None
        /\ \/ src[item.file] = None /\ UNCHANGED faults
           \/ faults < MaxFaults /\ faults' = faults + 1
        /\ batch' = [batch EXCEPT ![t] = Tail(@)]
        /\ failed' = failed \union {item.hash}
        /\ UNCHANGED <<buf, pc>>
  /\ UNCHANGED <<dirVars, submit, phase, listing, events, queue, due, job, lock, manual,
                 enqueued>>

\* rsync renames its temporary file to the name of the hash.
RenameItem(t) ==
  /\ pc[t] = "rename"
  /\ submit' = [submit EXCEPT ![Head(batch[t]).hash] = buf[t]]
  /\ batch' = [batch EXCEPT ![t] = Tail(@)]
  /\ buf' = [buf EXCEPT ![t] = None]
  /\ pc' = [pc EXCEPT ![t] = "copy"]
  /\ UNCHANGED <<dirVars, phase, listing, events, queue, due, job, lock, manual, faults,
                 enqueued, failed>>

\* The batch is done: release flush_lock, set _last_flush_time.
EndFlush(t) ==
  /\ pc[t] = "copy" /\ batch[t] = <<>>
  /\ lock' = None
  /\ due' = FALSE
  /\ pc' = [pc EXCEPT ![t] = "idle"]
  /\ UNCHANGED <<dirVars, submit, phase, listing, events, queue, job, batch, buf, manual,
                 faults, enqueued, failed>>

Thread(t) ==
  \/ Hash(t) \/ Enqueue(t) \/ TakeBatch(t) \/ Lock(t)
  \/ CopyItem(t) \/ RenameItem(t) \/ EndFlush(t)

-----------------------------------------------------------------------------
(* The end of the daemon, and submit_file.                                  *)

\* An exception in the sleep: the finally stops the observer, joins it once it
\* is between events, and calls __flush a last time.
Finish ==
  \/ /\ phase = "watch"
     /\ pc["main"] = "idle" /\ pc["observer"] = "idle"
     /\ phase' = "final"
     /\ events' = {}
     /\ pc' = [pc EXCEPT !["main"] = "flush"]
     /\ UNCHANGED <<dirVars, submit, listing, queue, due, job, batch, buf, lock, manual,
                    faults, enqueued, failed>>
  \/ /\ phase = "final" /\ pc["main"] = "idle"
     /\ phase' = "exited"
     /\ UNCHANGED <<dirVars, submit, listing, events, queue, due, threadVars, lock, manual,
                    faults, enqueued, failed>>

\* SIGTERM or SIGKILL: DaemonContext installs no handler, all state is gone.
Kill ==
  /\ phase \notin {"exited", "dead"}
  /\ phase' = "dead"
  /\ listing' = {} /\ events' = {} /\ queue' = <<>> /\ lock' = None
  /\ pc' = [t \in Threads |-> "idle"]
  /\ job' = [t \in Threads |-> None]
  /\ batch' = [t \in Threads |-> <<>>]
  /\ buf' = [t \in Threads |-> None]
  /\ UNCHANGED <<dirVars, submit, due, manual, faults, enqueued, failed>>

\* submit_file in another process: hash, test and read, rename.
SubmitFile ==
  /\ \/ \E f \in Files \ Dotfiles :
          /\ manual.stage = "idle" /\ src[f] # None
          /\ manual' = Call("hashed", f, src[f], None)
          /\ UNCHANGED submit
     \/ /\ manual.stage = "hashed"
        /\ manual' = IF submit[manual.hash] # None \/ src[manual.file] = None
                       THEN Call("done", None, None, None)
                       ELSE Call("read", manual.file, manual.hash, src[manual.file])
        /\ UNCHANGED submit
     \/ /\ manual.stage = "read"
        /\ submit' = [submit EXCEPT ![manual.hash] = manual.data]
        /\ manual' = Call("done", None, None, None)
  /\ UNCHANGED <<dirVars, phase, listing, events, queue, due, threadVars, lock, faults,
                 enqueued, failed>>

-----------------------------------------------------------------------------
Main == ScanDirectory \/ StartObserver \/ MainWakes \/ Thread("main")
          \/ \E f \in Files : HandleExisting(f)
Observer == Thread("observer") \/ \E f \in Files : HandleEvent(f)

Next ==
  \/ \E f \in Files, c \in Data \union {None} : Write(f, c)
  \/ Main \/ Observer \/ Tick \/ Finish \/ Kill \/ SubmitFile

\* Both threads run and time passes; nothing makes a producer write.
Fairness == WF_vars(Main) /\ WF_vars(Observer) /\ WF_vars(Tick)

Spec == Init /\ [][Next]_vars
FairSpec == Spec /\ Fairness

-----------------------------------------------------------------------------
(* Properties.                                                              *)

TypeOK ==
  /\ src \in [Files -> Data \union {None}]
  /\ writes \in 0 .. MaxWrites
  /\ submit \in [Data -> Data \union {None}]
  /\ phase \in {"new", "scan", "watch", "final", "exited", "dead"}
  /\ listing \subseteq Files /\ events \subseteq Files
  /\ queue \in Seq(Items)
  /\ due \in BOOLEAN
  /\ pc \in [Threads -> {"idle", "hash", "enqueue", "flush", "lock", "copy", "rename"}]
  /\ job \in [Threads -> {None} \union [file : Files, hash : Contents \union {None}]]
  /\ batch \in [Threads -> Seq(Items)]
  /\ buf \in [Threads -> Data \union {None}]
  /\ lock \in Threads \union {None}
  /\ manual \in [stage : {"idle", "hashed", "read", "done"}, file : Files \union {None},
                 hash : Data \union {None}, data : Data \union {None}]
  /\ faults \in 0 .. MaxFaults
  /\ enqueued \subseteq Contents /\ failed \subseteq Contents

Alive == phase \notin {"final", "exited", "dead"}

\* While producers rename whole files in, a name in SUBMIT_DIR is the hash of
\* the file's content, whichever thread or process copied it.
HashNamed == TypeOK /\ \A h \in Data : submit[h] \in {None, h}

\* While the daemon lives, an item that was queued is stored, failed, or still
\* in the queue or a batch: swapping the queue under one lock and copying under
\* another loses nothing that the other thread appends.
Hashes(q) == {q[i].hash : i \in 1 .. Len(q)}
NothingQueuedIsLost ==
  Alive => \A h \in enqueued :
    \/ submit[h] # None
    \/ h \in failed \union Hashes(queue) \union UNION {Hashes(batch[t]) : t \in Threads}

\* A file the daemon has listed or been told of is stored, unless rsync failed
\* or the daemon ended: small batches are not left waiting for more files.
NoticedIsSubmitted == \A f \in Files \ Dotfiles, c \in Contents :
  (f \in listing \union events /\ src[f] = c)
    ~> (submit[c] # None \/ c \in failed \/ src[f] # c \/ ~Alive)

\* docs/design/libCRS.md:243 "A background daemon watches for new files and
\* submits them": every data file of the watched directory is stored.
WatchedIsSubmitted == \A f \in Files \ Dotfiles, c \in Contents :
  (src[f] = c)
    ~> (submit[c] # None \/ c \in failed \/ src[f] # c \/ ~Alive)
=============================================================================
