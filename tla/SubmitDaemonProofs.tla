-------------------------- MODULE SubmitDaemonProofs --------------------------
(***************************************************************************)
(* Theorems about SubmitDaemon for any files, contents, batch size and     *)
(* bounds: what was queued is not lost, and, while producers rename whole  *)
(* files in, SUBMIT_DIR holds every content under its own hash.            *)
(***************************************************************************)
EXTENDS SubmitDaemon, TLAPS

\* A thread in the middle of a call has what the next step of the call needs, and only
\* a thread inside __flush holds a batch.
ThreadInv ==
  \A t \in Threads :
    /\ pc[t] \in {"hash", "enqueue"} =>
         job[t] \in [file : Files, hash : Contents \union {None}]
    /\ pc[t] = "enqueue" => job[t].hash \in Contents
    /\ pc[t] \notin {"lock", "copy", "rename"} => batch[t] = <<>>
    /\ pc[t] = "rename" => batch[t] # <<>> /\ buf[t] # None

\* submit_file has hashed a file, and then read it.
ManualInv ==
  /\ manual.stage \in {"hashed", "read"} => manual.file \in Files /\ manual.hash \in Data
  /\ manual.stage = "read" => manual.data # None

IInv == TypeOK /\ ThreadInv /\ ManualInv /\ NothingQueuedIsLost

\* An item is a data file and the hash of what the file still holds.
Fresh(i) == i.file \notin Dotfiles /\ src[i.file] = i.hash

\* Whatever is on its way to SUBMIT_DIR carries the name of its content.
NamedInv ==
  /\ \A h \in Data : submit[h] \in {None, h}
  /\ \A n \in 1 .. Len(queue) : Fresh(queue[n])
  /\ \A t \in Threads :
       /\ \A n \in 1 .. Len(batch[t]) : Fresh(batch[t][n])
       /\ pc[t] \in {"hash", "enqueue"} => job[t].file \notin Dotfiles /\ src[job[t].file] # None
       /\ pc[t] = "enqueue" => src[job[t].file] = job[t].hash
       /\ pc[t] = "rename" => buf[t] = Head(batch[t]).hash
  /\ manual.stage \in {"hashed", "read"} =>
       manual.file \notin Dotfiles /\ src[manual.file] = manual.hash
  /\ manual.stage = "read" => manual.data = manual.hash

-----------------------------------------------------------------------------
(* Sequences of items.                                                      *)

\* Appending an item adds its hash.
LEMMA AppendHashes ==
  ASSUME NEW q \in Seq(Items), NEW i \in Items
  PROVE  /\ Append(q, i) \in Seq(Items)
         /\ Hashes(Append(q, i)) = Hashes(q) \union {i.hash}
<1>1. /\ Append(q, i) \in Seq(Items) /\ Len(q) \in Nat
      /\ Len(Append(q, i)) = Len(q) + 1 /\ Append(q, i)[Len(q) + 1] = i
      /\ \A n \in 1 .. Len(q) : Append(q, i)[n] = q[n]
  OBVIOUS
<1>2. \A n \in 1 .. Len(q) + 1 : n \in 1 .. Len(q) \/ n = Len(q) + 1
  BY <1>1
<1>3. \A n \in 1 .. Len(q) : n \in 1 .. Len(q) + 1
  BY <1>1
<1>4. Len(q) + 1 \in 1 .. Len(q) + 1
  BY <1>1
<1>5. \A h : h \in Hashes(Append(q, i)) <=> \E n \in 1 .. Len(q) + 1 : Append(q, i)[n].hash = h
  BY <1>1 DEF Hashes
<1>6. \A h : h \in Hashes(q) <=> \E n \in 1 .. Len(q) : q[n].hash = h
  BY DEF Hashes
<1>7. \A h : h \in Hashes(Append(q, i)) <=> h \in Hashes(q) \/ h = i.hash
  BY <1>1, <1>2, <1>3, <1>4, <1>5, <1>6
<1> QED
  BY <1>1, <1>7

\* The head of a sequence holds one hash, the tail the others.
LEMMA HeadTail ==
  ASSUME NEW q \in Seq(Items), q # <<>>
  PROVE  /\ Head(q) \in Items /\ Head(q) = q[1] /\ 1 \in 1 .. Len(q)
         /\ Tail(q) \in Seq(Items)
         /\ \A n \in 1 .. Len(Tail(q)) : Tail(q)[n] = q[n + 1] /\ n + 1 \in 1 .. Len(q)
         /\ Hashes(q) = {Head(q).hash} \union Hashes(Tail(q))
<1>1. /\ Head(q) = q[1] /\ Head(q) \in Items /\ Tail(q) \in Seq(Items)
      /\ Len(q) \in Nat /\ Len(q) >= 1 /\ Len(Tail(q)) = Len(q) - 1
      /\ \A n \in 1 .. Len(Tail(q)) : Tail(q)[n] = q[n + 1]
  OBVIOUS
<1>2. /\ \A n \in 1 .. Len(Tail(q)) : n + 1 \in 1 .. Len(q)
      /\ 1 \in 1 .. Len(q)
      /\ \A n \in 1 .. Len(q) : n = 1 \/ (n - 1 \in 1 .. Len(Tail(q)) /\ (n - 1) + 1 = n)
  BY <1>1
<1>3. \A h : h \in Hashes(q) <=> \E n \in 1 .. Len(q) : q[n].hash = h
  BY DEF Hashes
<1>4. \A h : h \in Hashes(Tail(q)) <=> \E n \in 1 .. Len(Tail(q)) : Tail(q)[n].hash = h
  BY DEF Hashes
<1>5. \A h : h \in Hashes(q) => h = Head(q).hash \/ h \in Hashes(Tail(q))
  <2> SUFFICES ASSUME NEW n \in 1 .. Len(q), n # 1
               PROVE  q[n].hash \in Hashes(Tail(q))
    BY <1>1, <1>3
  <2>1. n - 1 \in 1 .. Len(Tail(q)) /\ Tail(q)[n - 1] = q[n]
    BY <1>1, <1>2
  <2> QED
    BY <1>4, <2>1
<1>6. \A h : h = Head(q).hash \/ h \in Hashes(Tail(q)) => h \in Hashes(q)
  BY <1>1, <1>2, <1>3, <1>4
<1> QED
  BY <1>1, <1>2, <1>5, <1>6

\* What the invariant says of the queue and of a thread's batch.
LEMMA Sequences ==
  ASSUME TypeOK
  PROVE  /\ queue \in Seq(Items) /\ Len(queue) \in Nat
         /\ \A n \in 1 .. Len(queue) : queue[n] \in Items
         /\ \A t \in Threads :
              /\ batch[t] \in Seq(Items) /\ Len(batch[t]) \in Nat
              /\ \A n \in 1 .. Len(batch[t]) : batch[t][n] \in Items
<1>1. queue \in Seq(Items) /\ \A t \in Threads : batch[t] \in Seq(Items)
  BY DEF TypeOK
<1>2. \A q \in Seq(Items) : Len(q) \in Nat /\ \A n \in 1 .. Len(q) : q[n] \in Items
  OBVIOUS
<1> QED
  BY <1>1, <1>2

-----------------------------------------------------------------------------
\* The initial state satisfies the invariants.
LEMMA InitIInv == Init => IInv /\ NamedInv
<1> SUFFICES ASSUME Init PROVE IInv /\ NamedInv
  OBVIOUS
<1> USE SubmitAssumption DEF Init, Data
<1>1. TypeOK
  <2>1. manual \in [stage : {"idle", "hashed", "read", "done"}, file : Files \union {None},
                   hash : Data \union {None}, data : Data \union {None}]
    BY DEF Call
  <2>2. queue \in Seq(Items) /\ batch \in [Threads -> Seq(Items)]
    OBVIOUS
  <2>3. /\ src \in [Files -> Data \union {None}] /\ submit \in [Data -> Data \union {None}]
        /\ writes \in 0 .. MaxWrites /\ faults \in 0 .. MaxFaults
    OBVIOUS
  <2>4. /\ pc \in [Threads -> {"idle", "hash", "enqueue", "flush", "lock", "copy", "rename"}]
        /\ job \in [Threads -> {None} \union [file : Files, hash : Contents \union {None}]]
        /\ buf \in [Threads -> Data \union {None}]
    OBVIOUS
  <2> QED
    BY <2>1, <2>2, <2>3, <2>4 DEF TypeOK
<1>2. ThreadInv /\ ManualInv
  BY DEF ThreadInv, ManualInv, Call
<1>3. NothingQueuedIsLost
  BY DEF NothingQueuedIsLost
<1>4. NamedInv
  BY DEF NamedInv, Call
<1> QED
  BY <1>1, <1>2, <1>3, <1>4 DEF IInv

-----------------------------------------------------------------------------
(* Each action keeps the types.                                             *)

\* A step keeps the types.
LEMMA NextType ==
  ASSUME IInv, Next
  PROVE  TypeOK'
<1> USE SubmitAssumption
<1>0. TypeOK
  BY DEF IInv
<1>1. ASSUME NEW f \in Files, NEW c \in Data \union {None}, Write(f, c) PROVE TypeOK'
  BY <1>0, <1>1 DEF Write, TypeOK, threadVars
<1>2. CASE ScanDirectory \/ StartObserver \/ MainWakes \/ Tick
  BY <1>0, <1>2 DEF ScanDirectory, StartObserver, MainWakes, Tick, TypeOK, dirVars, threadVars, Threads
<1>3. ASSUME NEW f \in Files, HandleExisting(f) \/ HandleEvent(f) PROVE TypeOK'
  <2>1. /\ pc' \in [Threads -> {"idle", "hash", "enqueue", "flush", "lock", "copy", "rename"}]
        /\ job' \in [Threads -> {None} \union [file : Files, hash : Contents \union {None}]]
        /\ UNCHANGED <<batch, buf>>
    BY <1>0, <1>3 DEF HandleExisting, HandleEvent, Handle, threadVars, TypeOK, Threads
  <2> QED
    BY <1>0, <1>3, <2>1 DEF HandleExisting, HandleEvent, TypeOK, dirVars
<1>4. ASSUME NEW t \in Threads, Thread(t) PROVE TypeOK'
  <2>1. CASE Hash(t)
    <3>1. job' \in [Threads -> {None} \union [file : Files, hash : Contents \union {None}]]
      <4>1. job[t].file \in Files
        BY <2>1 DEF Hash, IInv, ThreadInv
      <4>2. \A c \in Contents : [file |-> job[t].file, hash |-> c]
                               \in [file : Files, hash : Contents \union {None}]
        BY <4>1
      <4>3. PICK j \in {None} \union [file : Files, hash : Contents \union {None}] :
              job' = [job EXCEPT ![t] = j]
        BY <2>1, <4>2 DEF Hash
      <4> QED
        BY <1>0, <4>3 DEF TypeOK
    <3> QED
      BY <1>0, <2>1, <3>1 DEF Hash, TypeOK, dirVars
  <2>2. CASE Enqueue(t)
    <3>1. job[t] \in Items /\ job[t].hash \in Contents
      BY <2>2 DEF Enqueue, IInv, ThreadInv, Items
    <3>2. queue' \in Seq(Items) /\ enqueued' \subseteq Contents
      <4>1. queue' = queue \/ queue' = Append(queue, job[t])
        BY <2>2 DEF Enqueue
      <4>2. enqueued' \subseteq enqueued \union {job[t].hash}
        BY <2>2 DEF Enqueue
      <4>3. queue \in Seq(Items) /\ enqueued \subseteq Contents
        BY <1>0 DEF TypeOK
      <4>4. Append(queue, job[t]) \in Seq(Items)
        BY <3>1, <4>3, AppendHashes
      <4> QED
        BY <3>1, <4>1, <4>2, <4>3, <4>4
    <3> QED
      BY <1>0, <2>2, <3>2 DEF Enqueue, TypeOK, dirVars
  <2>3. CASE TakeBatch(t)
    <3>1. /\ queue' \in Seq(Items) /\ batch' \in [Threads -> Seq(Items)]
          /\ pc' \in [Threads -> {"idle", "hash", "enqueue", "flush", "lock", "copy", "rename"}]
      <4>1. queue' \in {queue, <<>>} /\ batch' \in {batch, [batch EXCEPT ![t] = queue]}
        BY <2>3 DEF TakeBatch
      <4>2. pc' \in {[pc EXCEPT ![t] = "lock"], [pc EXCEPT ![t] = "idle"]}
        BY <2>3 DEF TakeBatch
      <4>3. queue \in Seq(Items) /\ batch \in [Threads -> Seq(Items)]
        BY <1>0 DEF TypeOK
      <4>4. queue' \in Seq(Items)
        <5>1. <<>> \in Seq(Items)
          OBVIOUS
        <5> QED
          BY <4>1, <4>3, <5>1
      <4>5. batch' \in [Threads -> Seq(Items)]
        BY <4>1, <4>3
      <4>6. pc' \in [Threads -> {"idle", "hash", "enqueue", "flush", "lock", "copy", "rename"}]
        BY <1>0, <4>2 DEF TypeOK
      <4> QED
        BY <4>4, <4>5, <4>6
    <3> QED
      BY <1>0, <2>3, <3>1 DEF TakeBatch, TypeOK, dirVars
  <2>4. CASE Lock(t)
    BY <1>0, <2>4 DEF Lock, TypeOK, dirVars
  <2>5. CASE CopyItem(t)
    <3>1. batch[t] \in Seq(Items) /\ batch[t] # <<>>
      BY <1>0, <2>5 DEF CopyItem, TypeOK
    <3>2. Head(batch[t]) \in Items /\ Tail(batch[t]) \in Seq(Items)
      BY <3>1, HeadTail
    <3>3. /\ Head(batch[t]).file \in Files /\ Head(batch[t]).hash \in Contents
          /\ src[Head(batch[t]).file] \in Data \union {None}
      BY <1>0, <3>2 DEF Items, TypeOK
    <3>4. /\ batch' \in [Threads -> Seq(Items)] /\ buf' \in [Threads -> Data \union {None}]
          /\ faults' \in 0 .. MaxFaults /\ failed' \subseteq Contents
          /\ pc' \in [Threads -> {"idle", "hash", "enqueue", "flush", "lock", "copy", "rename"}]
      <4>1. /\ batch' \in {batch, [batch EXCEPT ![t] = Tail(batch[t])]}
            /\ failed' \subseteq failed \union {Head(batch[t]).hash}
        BY <2>5 DEF CopyItem
      <4>2. /\ buf' \in {buf, [buf EXCEPT ![t] = src[Head(batch[t]).file]]}
            /\ pc' \in {pc, [pc EXCEPT ![t] = "rename"]}
        BY <2>5 DEF CopyItem
      <4>3. faults' = faults \/ (faults < MaxFaults /\ faults' = faults + 1)
        BY <2>5 DEF CopyItem
      <4>4. batch' \in [Threads -> Seq(Items)] /\ failed' \subseteq Contents
        <5>1. batch \in [Threads -> Seq(Items)] /\ failed \subseteq Contents
          BY <1>0 DEF TypeOK
        <5>2. batch' \in [Threads -> Seq(Items)]
          BY <3>2, <4>1, <5>1
        <5> QED
          BY <3>3, <4>1, <5>1, <5>2
      <4>5. /\ buf' \in [Threads -> Data \union {None}]
            /\ pc' \in [Threads -> {"idle", "hash", "enqueue", "flush", "lock", "copy", "rename"}]
        BY <1>0, <3>3, <4>2 DEF TypeOK
      <4>6. faults' \in 0 .. MaxFaults
        BY <1>0, <4>3 DEF TypeOK
      <4> QED
        BY <4>4, <4>5, <4>6
    <3> QED
      BY <1>0, <2>5, <3>4 DEF CopyItem, TypeOK, dirVars
  <2>6. CASE RenameItem(t)
    <3>1. batch[t] \in Seq(Items) /\ batch[t] # <<>>
      BY <1>0, <2>6 DEF RenameItem, TypeOK, IInv, ThreadInv
    <3>2. Head(batch[t]).hash \in Contents /\ Tail(batch[t]) \in Seq(Items)
      BY <3>1, HeadTail DEF Items
    <3> QED
      BY <1>0, <2>6, <3>2 DEF RenameItem, TypeOK, dirVars
  <2>7. CASE EndFlush(t)
    BY <1>0, <2>7 DEF EndFlush, TypeOK, dirVars
  <2> QED
    BY <1>4, <2>1, <2>2, <2>3, <2>4, <2>5, <2>6, <2>7 DEF Thread
<1>5. CASE Finish
  BY <1>0, <1>5 DEF Finish, TypeOK, dirVars, threadVars, Threads
<1>6. CASE Kill
  BY <1>0, <1>6 DEF Kill, TypeOK, dirVars
<1>7. CASE SubmitFile
  <2>1. /\ submit' \in [Data -> Data \union {None}]
        /\ manual' \in [stage : {"idle", "hashed", "read", "done"}, file : Files \union {None},
                        hash : Data \union {None}, data : Data \union {None}]
    BY <1>0, <1>7 DEF SubmitFile, TypeOK, Call, IInv, ManualInv
  <2> QED
    BY <1>0, <1>7, <2>1 DEF SubmitFile, TypeOK, dirVars, threadVars
<1>8. "main" \in Threads /\ "observer" \in Threads
  BY DEF Threads
<1> QED
  BY <1>1, <1>2, <1>3, <1>4, <1>5, <1>6, <1>7, <1>8 DEF Next, Main, Observer

-----------------------------------------------------------------------------
(* Each action keeps what the threads and submit_file rely on.              *)

\* A step keeps what a thread in the middle of a call has.
LEMMA NextThread ==
  ASSUME IInv, Next
  PROVE  ThreadInv' /\ ManualInv'
<1> USE SubmitAssumption
<1>0. TypeOK /\ ThreadInv /\ ManualInv
  BY DEF IInv
<1>1. CASE UNCHANGED <<pc, job, batch, buf, manual>>
  BY <1>0, <1>1 DEF ThreadInv, ManualInv
<1>2. CASE MainWakes
  BY <1>0, <1>2 DEF MainWakes, ThreadInv, ManualInv, TypeOK, Threads
<1>3. ASSUME NEW f \in Files, HandleExisting(f) \/ HandleEvent(f) PROVE ThreadInv' /\ ManualInv'
  <2>1. ASSUME NEW t \in Threads, pc[t] = "idle", Handle(t, f) PROVE ThreadInv'
    <3>1. CASE UNCHANGED threadVars
      BY <1>0, <3>1 DEF ThreadInv, threadVars
    <3>2. CASE pc' = [pc EXCEPT ![t] = "hash"] /\ UNCHANGED <<batch, buf>>
               /\ job' = [job EXCEPT ![t] = [file |-> f, hash |-> None]]
      BY <1>0, <2>1, <3>2 DEF ThreadInv, TypeOK
    <3> QED
      BY <2>1, <3>1, <3>2 DEF Handle
  <2> QED
    BY <1>0, <1>3, <2>1 DEF HandleExisting, HandleEvent, ManualInv, Threads
<1>4. ASSUME NEW t \in Threads, Thread(t) PROVE ThreadInv' /\ ManualInv'
  <2>1. manual' = manual
    BY <1>4 DEF Thread, Hash, Enqueue, TakeBatch, Lock, CopyItem, RenameItem, EndFlush
  <2>2. CASE Hash(t)
    BY <1>0, <2>1, <2>2 DEF Hash, ThreadInv, ManualInv, TypeOK
  <2>3. CASE Enqueue(t)
    BY <1>0, <2>1, <2>3 DEF Enqueue, ThreadInv, ManualInv, TypeOK
  <2>4. CASE TakeBatch(t)
    BY <1>0, <2>1, <2>4 DEF TakeBatch, ThreadInv, ManualInv, TypeOK
  <2>5. CASE Lock(t) \/ EndFlush(t)
    BY <1>0, <2>1, <2>5 DEF Lock, EndFlush, ThreadInv, ManualInv, TypeOK
  <2>6. CASE CopyItem(t)
    BY <1>0, <2>1, <2>6 DEF CopyItem, ThreadInv, ManualInv, TypeOK
  <2>7. CASE RenameItem(t)
    BY <1>0, <2>1, <2>7 DEF RenameItem, ThreadInv, ManualInv, TypeOK
  <2> QED
    BY <1>4, <2>2, <2>3, <2>4, <2>5, <2>6, <2>7 DEF Thread
<1>5. CASE Finish
  BY <1>0, <1>5 DEF Finish, ThreadInv, ManualInv, TypeOK, threadVars
<1>6. CASE Kill
  BY <1>0, <1>6 DEF Kill, ThreadInv, ManualInv
<1>7. CASE SubmitFile
  <2>1. ManualInv'
    BY <1>0, <1>7 DEF SubmitFile, ManualInv, TypeOK, Call
  <2> QED
    BY <1>0, <1>7, <2>1 DEF SubmitFile, ThreadInv, threadVars
<1>8. CASE \/ \E f \in Files, c \in Data \union {None} : Write(f, c)
           \/ ScanDirectory \/ StartObserver \/ Tick
  BY <1>1, <1>8 DEF Write, ScanDirectory, StartObserver, Tick, threadVars
<1>9. "main" \in Threads /\ "observer" \in Threads
  BY DEF Threads
<1> QED
  BY <1>2, <1>3, <1>4, <1>5, <1>6, <1>7, <1>8, <1>9 DEF Next, Main, Observer

-----------------------------------------------------------------------------
(* Each action keeps the items that were queued.                            *)

\* The items that are on their way to SUBMIT_DIR, and those that arrived or failed.
Waiting == Hashes(queue) \union UNION {Hashes(batch[t]) : t \in Threads}
Settled == {h \in Data : submit[h] # None} \union failed

\* Nothing is lost when what waits goes on waiting or is settled.
LEMMA LostFrame ==
  ASSUME TypeOK, NothingQueuedIsLost, Alive' => Alive,
         enqueued' \subseteq Waiting' \union Settled' \union enqueued,
         Waiting \subseteq Waiting' \union Settled', Settled \subseteq Settled'
  PROVE  NothingQueuedIsLost'
<1>1. enqueued \subseteq Data
  BY DEF TypeOK, Data
<1>2. Alive => enqueued \subseteq Waiting \union Settled
  BY <1>1 DEF NothingQueuedIsLost, Waiting, Settled
<1>3. Alive' => enqueued' \subseteq Waiting' \union Settled'
  BY <1>2
<1> QED
  BY <1>3 DEF NothingQueuedIsLost, Waiting, Settled

\* What waits, thread by thread.
LEMMA WaitingIs ==
  ASSUME NEW h
  PROVE  h \in Waiting <=> h \in Hashes(queue) \/ \E t \in Threads : h \in Hashes(batch[t])
  BY DEF Waiting

\* No step loses a queued item.
LEMMA NextLost ==
  ASSUME IInv, Next
  PROVE  NothingQueuedIsLost'
<1> USE SubmitAssumption
<1>0. TypeOK /\ ThreadInv /\ ManualInv /\ NothingQueuedIsLost
  BY DEF IInv
<1>1. ASSUME UNCHANGED <<submit, queue, batch, enqueued, failed>>, Alive' => Alive
      PROVE  NothingQueuedIsLost'
  BY <1>0, <1>1 DEF NothingQueuedIsLost, Hashes
<1>2. CASE \/ \E f \in Files, c \in Data \union {None} : Write(f, c)
           \/ \E f \in Files : HandleExisting(f) \/ HandleEvent(f)
           \/ ScanDirectory \/ StartObserver \/ MainWakes \/ Tick \/ Finish
  <2>1. UNCHANGED <<submit, queue, batch, enqueued, failed>>
    BY <1>2 DEF Write, HandleExisting, HandleEvent, Handle, ScanDirectory, StartObserver, MainWakes,
       Tick, Finish, threadVars
  <2>2. Alive' => Alive
    BY <1>2 DEF Write, HandleExisting, HandleEvent, ScanDirectory, StartObserver, MainWakes,
       Tick, Finish, Alive
  <2> QED
    BY <1>1, <2>1, <2>2
<1>3. CASE Kill
  BY <1>3 DEF Kill, NothingQueuedIsLost, Alive
<1>4. CASE SubmitFile
  <2>1. UNCHANGED <<phase, queue, batch, enqueued, failed>>
    BY <1>4 DEF SubmitFile, threadVars
  <2>2. \A h \in Data : submit[h] # None => submit'[h] # None
    BY <1>0, <1>4 DEF SubmitFile, ManualInv, TypeOK
  <2>3. Waiting' = Waiting /\ Settled \subseteq Settled'
    BY <2>1, <2>2 DEF Waiting, Hashes, Settled
  <2> QED
    BY <1>0, <2>1, <2>3, LostFrame DEF Alive
<1>5. ASSUME NEW t \in Threads, Thread(t) PROVE NothingQueuedIsLost'
  <2>1. phase' = phase
    BY <1>5 DEF Thread, Hash, Enqueue, TakeBatch, Lock, CopyItem, RenameItem, EndFlush
  <2>2. Alive' => Alive
    BY <2>1 DEF Alive
  <2>3. CASE Hash(t) \/ Lock(t) \/ EndFlush(t)
    BY <1>1, <2>2, <2>3 DEF Hash, Lock, EndFlush
  <2>4. CASE Enqueue(t)
    <3>1. CASE UNCHANGED <<queue, enqueued>>
      BY <1>1, <2>2, <2>4, <3>1 DEF Enqueue
    <3>2. CASE queue' = Append(queue, job[t]) /\ enqueued' = enqueued \union {job[t].hash}
      <4>1. job[t] \in Items /\ queue \in Seq(Items)
        BY <1>0, <2>4 DEF Enqueue, ThreadInv, Items, TypeOK
      <4>2. Hashes(queue') = Hashes(queue) \union {job[t].hash}
        BY <3>2, <4>1, AppendHashes
      <4>3. Hashes(queue)' = Hashes(queue')
        BY DEF Hashes
      <4>4. UNCHANGED <<submit, batch, failed>>
        BY <2>4 DEF Enqueue
      <4>5. Waiting' = Waiting \union {job[t].hash} /\ Settled' = Settled
        BY <4>2, <4>3, <4>4 DEF Waiting, Settled, Hashes
      <4> QED
        BY <1>0, <2>2, <3>2, <4>5, LostFrame
    <3> QED
      BY <2>4, <3>1, <3>2 DEF Enqueue
  <2>5. CASE TakeBatch(t)
    <3>1. CASE UNCHANGED <<batch, queue>>
      BY <1>1, <2>2, <2>5, <3>1 DEF TakeBatch
    <3>2. CASE batch' = [batch EXCEPT ![t] = queue] /\ queue' = <<>>
      <4>1. batch[t] = <<>>
        BY <1>0, <2>5 DEF TakeBatch, ThreadInv
      <4>2. Hashes(batch[t]) = {}
        BY <4>1 DEF Hashes
      <4>3. batch'[t] = queue /\ \A u \in Threads : u # t => batch'[u] = batch[u]
        BY <1>0, <3>2 DEF TypeOK
      <4>4. Waiting \subseteq Waiting'
        <5>0. UNION {Hashes(batch'[u]) : u \in Threads} \subseteq Waiting'
          BY DEF Waiting, Hashes
        <5> SUFFICES ASSUME NEW h \in Waiting PROVE \E u \in Threads : h \in Hashes(batch'[u])
          BY <5>0
        <5>1. CASE h \in Hashes(queue)
          BY <4>3, <5>1
        <5>2. ASSUME NEW u \in Threads, h \in Hashes(batch[u])
              PROVE  h \in Hashes(batch'[u])
          BY <4>2, <4>3, <5>2
        <5> QED
          BY <5>1, <5>2, WaitingIs
      <4>5. UNCHANGED <<submit, enqueued, failed>>
        BY <2>5 DEF TakeBatch
      <4> QED
        BY <1>0, <2>2, <4>4, <4>5, LostFrame DEF Settled
    <3> QED
      BY <2>5, <3>1, <3>2 DEF TakeBatch
  <2>6. ASSUME UNCHANGED <<queue, enqueued>>, Settled \subseteq Settled',
               batch[t] # <<>>, batch' = [batch EXCEPT ![t] = Tail(@)],
               Head(batch[t]).hash \in Settled'
        PROVE  NothingQueuedIsLost'
    <3>1. batch'[t] = Tail(batch[t]) /\ \A u \in Threads : u # t => batch'[u] = batch[u]
      BY <1>0, <2>6 DEF TypeOK
    <3>2. Hashes(batch[t]) = {Head(batch[t]).hash} \union Hashes(Tail(batch[t]))
      BY <1>0, <2>6, HeadTail DEF TypeOK
    <3>3. Waiting \subseteq Waiting' \union Settled'
      <4> SUFFICES ASSUME NEW h \in Waiting, h \notin Settled'
                   PROVE  h \in Hashes(queue) \/ \E u \in Threads : h \in Hashes(batch'[u])
        BY <2>6 DEF Waiting, Hashes
      <4>1. ASSUME NEW u \in Threads, h \in Hashes(batch[u])
            PROVE  h \in Hashes(batch'[u])
        BY <2>6, <3>1, <3>2, <4>1
      <4> QED
        BY <4>1, WaitingIs
    <3> QED
      BY <1>0, <2>2, <2>6, <3>3, LostFrame
  <2>7. CASE CopyItem(t)
    <3>1. Head(batch[t]).hash \in Data
      BY <1>0, <2>7, HeadTail DEF CopyItem, TypeOK, Items, Data
    <3>2. CASE UNCHANGED <<batch, failed>>
      BY <1>1, <2>2, <2>7, <3>2 DEF CopyItem
    <3>3. CASE /\ batch' = [batch EXCEPT ![t] = Tail(@)]
               /\ submit[Head(batch[t]).hash] # None \/ Head(batch[t]).hash \in failed'
      <4>1. UNCHANGED <<submit, queue, enqueued>> /\ batch[t] # <<>> /\ failed \subseteq failed'
        BY <2>7 DEF CopyItem
      <4>2. Settled \subseteq Settled' /\ Head(batch[t]).hash \in Settled'
        BY <3>1, <3>3, <4>1 DEF Settled
      <4> QED
        BY <2>6, <3>3, <4>1, <4>2
    <3> QED
      BY <2>7, <3>2, <3>3 DEF CopyItem
  <2>8. CASE RenameItem(t)
    <3>1. batch[t] # <<>> /\ buf[t] # None
      BY <1>0, <2>8 DEF RenameItem, ThreadInv
    <3>2. Head(batch[t]).hash \in Data
      BY <1>0, <3>1, HeadTail DEF TypeOK, Items, Data
    <3>3. UNCHANGED <<queue, enqueued, failed>> /\ batch' = [batch EXCEPT ![t] = Tail(@)]
      BY <2>8 DEF RenameItem
    <3>4. /\ submit'[Head(batch[t]).hash] # None
          /\ \A h \in Data : submit[h] # None => submit'[h] # None
      BY <1>0, <2>8, <3>1, <3>2 DEF RenameItem, TypeOK
    <3>5. Settled \subseteq Settled' /\ Head(batch[t]).hash \in Settled'
      BY <3>2, <3>3, <3>4 DEF Settled
    <3> QED
      BY <2>6, <3>1, <3>3, <3>5
  <2> QED
    BY <1>5, <2>3, <2>4, <2>5, <2>7, <2>8 DEF Thread
<1>6. "main" \in Threads /\ "observer" \in Threads
  BY DEF Threads
<1> QED
  BY <1>2, <1>3, <1>4, <1>5, <1>6 DEF Next, Main, Observer

\* The invariant is inductive.
LEMMA NextIInv == IInv /\ [Next]_vars => IInv'
<1>1. ASSUME IInv, Next PROVE IInv'
  BY <1>1, NextType, NextThread, NextLost DEF IInv
<1>2. ASSUME IInv, UNCHANGED vars PROVE IInv'
  <2>1. TypeOK'
    BY <1>2 DEF vars, IInv, TypeOK
  <2>2. ThreadInv' /\ ManualInv'
    BY <1>2 DEF vars, IInv, ThreadInv, ManualInv
  <2>3. NothingQueuedIsLost'
    BY <1>2 DEF vars, IInv, NothingQueuedIsLost, Alive, Hashes
  <2> QED
    BY <2>1, <2>2, <2>3 DEF IInv
<1> QED
  BY <1>1, <1>2

\* The inductive invariant holds in every reachable state.
THEOREM SpecIInv == Spec => []IInv
  BY InitIInv, NextIInv, PTL DEF Spec

\* Swapping the queue under one lock and copying under another loses nothing: while the
\* daemon lives, an item that was queued is stored, failed, in the queue or in a batch.
THEOREM SpecNothingQueuedIsLost == Spec => []NothingQueuedIsLost
<1>1. IInv => NothingQueuedIsLost
  BY DEF IInv
<1> QED
  BY <1>1, SpecIInv, PTL

-----------------------------------------------------------------------------
(* While producers rename whole files in: what is on its way to SUBMIT_DIR  *)
(* keeps its name.                                                          *)

\* Producers leave the data files alone.
LEMMA DataStays ==
  ASSUME ~InPlace, TypeOK, NEW f \in Files, NEW c \in Data \union {None}, Write(f, c)
  PROVE  \A g \in Files \ Dotfiles : src[g] # None => src'[g] = src[g]
  BY DEF Write, TypeOK

\* The parts of NamedInv.
NamedBatch(t) == \A n \in 1 .. Len(batch[t]) : Fresh(batch[t][n])
NamedJob(t) ==
  /\ pc[t] \in {"hash", "enqueue"} => job[t].file \notin Dotfiles /\ src[job[t].file] # None
  /\ pc[t] = "enqueue" => src[job[t].file] = job[t].hash
NamedBuf(t) == pc[t] = "rename" => buf[t] = Head(batch[t]).hash
NamedManual ==
  /\ manual.stage \in {"hashed", "read"} =>
       manual.file \notin Dotfiles /\ src[manual.file] = manual.hash
  /\ manual.stage = "read" => manual.data = manual.hash
NamedStore == \A h \in Data : submit[h] \in {None, h}
NamedQueue == \A n \in 1 .. Len(queue) : Fresh(queue[n])

\* The parts of NamedInv make it up.
LEMMA NamedParts ==
  ASSUME NamedStore', NamedQueue', NamedManual',
         \A t \in Threads : NamedBatch(t)' /\ NamedJob(t)' /\ NamedBuf(t)'
  PROVE  NamedInv'
  BY DEF NamedInv, NamedStore, NamedQueue, NamedManual, NamedBatch, NamedJob, NamedBuf

\* A producer that renames whole files in touches no file that waits.
LEMMA NamedWrite ==
  ASSUME ~InPlace, IInv, NamedInv, NEW f \in Files, NEW c \in Data \union {None}, Write(f, c)
  PROVE  NamedInv'
<1> USE SubmitAssumption
<1>1. UNCHANGED <<submit, queue, pc, job, batch, buf, manual>>
  BY DEF Write, threadVars
<1>2. \A g \in Files \ Dotfiles : src[g] # None => src'[g] = src[g]
  BY DataStays DEF IInv
<1>3. \A i \in Items : Fresh(i) => Fresh(i)'
  BY <1>2 DEF Fresh, Items
<1>4. NamedStore'
  BY <1>1 DEF NamedStore, NamedInv
<1>5. NamedQueue' /\ \A t \in Threads : NamedBatch(t)'
  <2>1. \A n \in 1 .. Len(queue) : queue[n] \in Items /\ Fresh(queue[n])
    BY Sequences DEF IInv, NamedInv
  <2>2. \A t \in Threads : \A n \in 1 .. Len(batch[t]) : batch[t][n] \in Items /\ Fresh(batch[t][n])
    BY Sequences DEF IInv, NamedInv
  <2> QED
    BY <1>1, <1>3, <2>1, <2>2 DEF NamedQueue, NamedBatch, Fresh
<1>6. \A t \in Threads : NamedJob(t)' /\ NamedBuf(t)'
  <2>1. \A t \in Threads : pc[t] \in {"hash", "enqueue"} => job[t].file \in Files
    BY DEF IInv, ThreadInv
  <2> QED
    BY <1>1, <1>2, <2>1 DEF NamedJob, NamedBuf, NamedInv
<1>7. NamedManual'
  <2>1. manual.stage \in {"hashed", "read"} =>
          manual.file \in Files \ Dotfiles /\ src[manual.file] # None
    BY DEF NamedInv, IInv, ManualInv, Data
  <2> QED
    BY <1>1, <1>2, <2>1 DEF NamedManual, NamedInv
<1> QED
  BY <1>4, <1>5, <1>6, <1>7, NamedParts

\* A thread's step leaves the files alone; what it says of the other thread stays.
LEMMA NamedThread ==
  ASSUME IInv, NamedInv, NEW t \in Threads, Thread(t)
  PROVE  NamedInv'
<1> USE SubmitAssumption
<1>0. TypeOK /\ ThreadInv
  BY DEF IInv
<1>1. src' = src /\ manual' = manual
  BY DEF Thread, Hash, Enqueue, TakeBatch, Lock, CopyItem, RenameItem, EndFlush, dirVars
<1>2. /\ pc \in [Threads -> {"idle", "hash", "enqueue", "flush", "lock", "copy", "rename"}]
      /\ job \in [Threads -> {None} \union [file : Files, hash : Contents \union {None}]]
      /\ batch \in [Threads -> Seq(Items)] /\ buf \in [Threads -> Data \union {None}]
      /\ submit \in [Data -> Data \union {None}] /\ queue \in Seq(Items)
  BY <1>0 DEF TypeOK
<1>3. NamedManual'
  BY <1>1 DEF NamedManual, NamedInv
<1>4. CASE Hash(t)
  <2>1. NamedStore' /\ NamedQueue' /\ \A u \in Threads : NamedBatch(u)' /\ NamedBuf(u)'
    BY <1>1, <1>2, <1>4 DEF Hash, NamedInv, NamedStore, NamedQueue, NamedBatch, NamedBuf, Fresh
  <2>2. \A u \in Threads : u # t => pc'[u] = pc[u] /\ job'[u] = job[u]
    BY <1>2, <1>4 DEF Hash
  <2>3. NamedJob(t)'
    <3>1. job[t].file \notin Dotfiles /\ src[job[t].file] # None
      BY <1>4 DEF Hash, NamedInv
    <3>2. CASE src[job[t].file] \in Contents
      <4>1. job'[t].file = job[t].file /\ job'[t].hash = src[job[t].file]
        BY <1>2, <1>4, <3>2 DEF Hash
      <4> QED
        BY <1>1, <3>1, <4>1 DEF NamedJob
    <3>3. CASE src[job[t].file] \notin Contents
      BY <1>2, <1>4, <3>3 DEF Hash, NamedJob
    <3> QED
      BY <3>2, <3>3
  <2>4. \A u \in Threads : NamedJob(u)'
    BY <1>1, <2>2, <2>3 DEF NamedJob, NamedInv
  <2> QED
    BY <1>3, <2>1, <2>4, NamedParts
<1>5. CASE Enqueue(t)
  <2>1. NamedStore' /\ \A u \in Threads : NamedBatch(u)' /\ NamedBuf(u)'
    BY <1>1, <1>2, <1>5 DEF Enqueue, NamedInv, NamedStore, NamedBatch, NamedBuf, Fresh
  <2>2. \A u \in Threads : NamedJob(u)'
    BY <1>1, <1>2, <1>5 DEF Enqueue, NamedInv, NamedJob
  <2>3. Fresh(job[t]) /\ job[t] \in Items
    BY <1>0, <1>5 DEF Enqueue, NamedInv, Fresh, ThreadInv, Items
  <2>4. NamedQueue'
    <3>1. CASE queue' = queue
      BY <1>1, <3>1 DEF NamedQueue, NamedInv, Fresh
    <3>2. CASE queue' = Append(queue, job[t])
      <4>1. \A n \in 1 .. Len(queue') : queue'[n] = job[t] \/ (n \in 1 .. Len(queue) /\ queue'[n] = queue[n])
        BY <1>2, <2>3, <3>2
      <4> QED
        BY <1>1, <2>3, <4>1 DEF NamedQueue, NamedInv, Fresh
    <3> QED
      BY <1>5, <3>1, <3>2 DEF Enqueue
  <2> QED
    BY <1>3, <2>1, <2>2, <2>4, NamedParts
<1>6. CASE TakeBatch(t)
  <2>1. NamedStore' /\ \A u \in Threads : NamedJob(u)' /\ NamedBuf(u)'
    BY <1>1, <1>2, <1>6 DEF TakeBatch, NamedInv, NamedStore, NamedJob, NamedBuf
  <2>2. CASE UNCHANGED <<batch, queue>>
    <3>1. NamedQueue' /\ \A u \in Threads : NamedBatch(u)'
      BY <1>1, <2>2 DEF NamedInv, NamedQueue, NamedBatch, Fresh
    <3> QED
      BY <1>3, <2>1, <3>1, NamedParts
  <2>3. CASE batch' = [batch EXCEPT ![t] = queue] /\ queue' = <<>>
    <3>1. batch'[t] = queue /\ \A u \in Threads : u # t => batch'[u] = batch[u]
      BY <1>2, <2>3
    <3>2. \A u \in Threads : NamedBatch(u)'
      BY <1>1, <3>1 DEF NamedInv, NamedBatch, Fresh
    <3>3. NamedQueue'
      BY <2>3 DEF NamedQueue
    <3> QED
      BY <1>3, <2>1, <3>2, <3>3, NamedParts
  <2> QED
    BY <1>6, <2>2, <2>3 DEF TakeBatch
<1>7. CASE Lock(t) \/ EndFlush(t)
  <2>1. UNCHANGED <<submit, queue, job, batch, buf>>
    BY <1>7 DEF Lock, EndFlush
  <2>2. \A u \in Threads : pc'[u] = pc[u] \/ pc'[u] \in {"copy", "idle"}
    BY <1>2, <1>7 DEF Lock, EndFlush
  <2> QED
    BY <1>1, <2>1, <2>2 DEF NamedInv, Fresh
<1>8. ASSUME batch[t] # <<>>, UNCHANGED <<queue, job>>,
             batch' = [batch EXCEPT ![t] = Tail(@)],
             pc' \in {pc, [pc EXCEPT ![t] = "copy"]}, pc'[t] # "rename",
             \A u \in Threads : u # t => buf'[u] = buf[u],
             NamedStore'
      PROVE  NamedInv'
  <2>1. batch'[t] = Tail(batch[t]) /\ \A u \in Threads : u # t => batch'[u] = batch[u]
    BY <1>2, <1>8
  <2>2. \A n \in 1 .. Len(batch'[t]) : batch'[t][n] = batch[t][n + 1] /\ n + 1 \in 1 .. Len(batch[t])
    BY <1>2, <1>8, <2>1, HeadTail
  <2>3. \A u \in Threads : NamedBatch(u)'
    <3>1. NamedBatch(t)'
      <4>1. \A n \in 1 .. Len(batch[t]) : Fresh(batch[t][n])
        BY DEF NamedInv
      <4>2. \A n \in 1 .. Len(batch'[t]) : Fresh(batch'[t][n])
        BY <2>2, <4>1 DEF Fresh
      <4> QED
        BY <1>1, <4>2 DEF NamedBatch, Fresh
    <3>2. \A u \in Threads : u # t => NamedBatch(u)'
      BY <1>1, <2>1 DEF NamedInv, NamedBatch, Fresh
    <3> QED
      BY <3>1, <3>2
  <2>4. \A u \in Threads : u # t => pc'[u] = pc[u]
    BY <1>2, <1>8
  <2>5. pc'[t] \in {"hash", "enqueue"} => pc'[t] = pc[t]
    BY <1>2, <1>8
  <2>6. \A u \in Threads : NamedJob(u)' /\ NamedBuf(u)'
    BY <1>1, <1>8, <2>1, <2>4, <2>5 DEF NamedInv, NamedJob, NamedBuf
  <2>7. NamedQueue'
    BY <1>1, <1>8 DEF NamedInv, NamedQueue, Fresh
  <2> QED
    BY <1>3, <1>8, <2>3, <2>6, <2>7, NamedParts
<1>9. ASSUME batch[t] # <<>>
      PROVE  /\ Head(batch[t]) \in Items /\ Fresh(Head(batch[t])) /\ Head(batch[t]).hash \in Data
             /\ Head(batch[t]).hash # None
  <2>1. Head(batch[t]) \in Items /\ Head(batch[t]) = batch[t][1] /\ 1 \in 1 .. Len(batch[t])
    BY <1>2, <1>9, HeadTail
  <2> QED
    BY <2>1 DEF NamedInv, Items, Data
<1>10. CASE CopyItem(t)
  <2>1. UNCHANGED <<submit, queue, job>> /\ batch[t] # <<>> /\ pc[t] = "copy"
    BY <1>10 DEF CopyItem
  <2>2. NamedStore'
    BY <2>1 DEF NamedInv, NamedStore
  <2>3. CASE /\ buf' = [buf EXCEPT ![t] = src[Head(batch[t]).file]]
             /\ pc' = [pc EXCEPT ![t] = "rename"] /\ batch' = batch
    <3>1. buf'[t] = Head(batch[t]).hash
      BY <1>2, <1>9, <2>1, <2>3 DEF Fresh
    <3>2. \A u \in Threads : u # t => pc'[u] = pc[u] /\ buf'[u] = buf[u]
      BY <1>2, <2>3
    <3>3. \A u \in Threads : NamedJob(u)' /\ NamedBuf(u)' /\ NamedBatch(u)'
      BY <1>1, <1>2, <2>1, <2>3, <3>1, <3>2 DEF NamedInv, NamedJob, NamedBuf, NamedBatch, Fresh
    <3>4. NamedQueue'
      BY <1>1, <2>1 DEF NamedInv, NamedQueue, Fresh
    <3> QED
      BY <1>3, <2>2, <3>3, <3>4, NamedParts
  <2>4. CASE batch' = [batch EXCEPT ![t] = Tail(@)] /\ UNCHANGED <<buf, pc>>
    BY <1>8, <2>1, <2>2, <2>4
  <2> QED
    BY <1>10, <2>3, <2>4 DEF CopyItem
<1>11. CASE RenameItem(t)
  <2>1. /\ UNCHANGED <<queue, job>> /\ batch' = [batch EXCEPT ![t] = Tail(@)]
        /\ pc' = [pc EXCEPT ![t] = "copy"] /\ buf' = [buf EXCEPT ![t] = None] /\ pc[t] = "rename"
        /\ submit' = [submit EXCEPT ![Head(batch[t]).hash] = buf[t]]
    BY <1>11 DEF RenameItem
  <2>2. batch[t] # <<>> /\ buf[t] = Head(batch[t]).hash
    BY <1>0, <2>1 DEF ThreadInv, NamedInv
  <2>3. NamedStore'
    BY <1>2, <1>9, <2>1, <2>2 DEF NamedInv, NamedStore
  <2>4. pc'[t] # "rename" /\ \A u \in Threads : u # t => buf'[u] = buf[u]
    BY <1>2, <2>1
  <2> QED
    BY <1>8, <2>1, <2>2, <2>3, <2>4
<1> QED
  BY <1>4, <1>5, <1>6, <1>7, <1>10, <1>11 DEF Thread

\* Every step keeps the names true.
LEMMA NextNamed ==
  ASSUME ~InPlace, IInv, NamedInv, Next
  PROVE  NamedInv'
<1> USE SubmitAssumption
<1>0. TypeOK /\ ThreadInv /\ ManualInv
  BY DEF IInv
<1>1. CASE ScanDirectory \/ StartObserver \/ Tick
  BY <1>1 DEF ScanDirectory, StartObserver, Tick, dirVars, threadVars, NamedInv, Fresh
<1>2. CASE MainWakes \/ Finish
  <2>1. UNCHANGED <<src, submit, queue, job, batch, buf, manual>>
    BY <1>2 DEF MainWakes, Finish, dirVars, threadVars
  <2>2. \A u \in Threads : pc'[u] \in {pc[u], "flush"}
    BY <1>0, <1>2 DEF MainWakes, Finish, threadVars, TypeOK
  <2> QED
    BY <2>1, <2>2 DEF NamedInv, Fresh
<1>3. ASSUME NEW f \in Files, HandleExisting(f) \/ HandleEvent(f) PROVE NamedInv'
  <2>1. UNCHANGED <<src, submit, queue, batch, buf, manual>>
    BY <1>3 DEF HandleExisting, HandleEvent, Handle, dirVars, threadVars
  <2>2. ASSUME NEW t \in Threads, pc[t] = "idle", Handle(t, f)
        PROVE  \A u \in Threads : NamedJob(u)' /\ NamedBuf(u)'
    <3>1. CASE UNCHANGED threadVars
      BY <2>1, <3>1 DEF NamedInv, NamedJob, NamedBuf, threadVars
    <3>2. CASE /\ f \notin Dotfiles /\ src[f] # None /\ pc' = [pc EXCEPT ![t] = "hash"]
               /\ job' = [job EXCEPT ![t] = [file |-> f, hash |-> None]]
      BY <1>0, <2>1, <2>2, <3>2 DEF NamedInv, NamedJob, NamedBuf, TypeOK
    <3> QED
      BY <2>2, <3>1, <3>2 DEF Handle
  <2>3. \A u \in Threads : NamedJob(u)' /\ NamedBuf(u)'
    BY <1>3, <2>2 DEF HandleExisting, HandleEvent, Threads
  <2>4. /\ NamedStore' /\ NamedQueue' /\ NamedManual'
        /\ \A u \in Threads : NamedBatch(u)'
    BY <2>1 DEF NamedInv, NamedStore, NamedQueue, NamedManual, NamedBatch, Fresh
  <2> QED
    BY <2>3, <2>4, NamedParts
<1>4. CASE Kill
  <2>1. \A u \in Threads : pc'[u] = "idle" /\ batch'[u] = <<>>
    BY <1>4 DEF Kill
  <2>2. queue' = <<>> /\ UNCHANGED <<src, submit, manual>>
    BY <1>4 DEF Kill, dirVars
  <2> QED
    BY <2>1, <2>2 DEF NamedInv
<1>5. CASE SubmitFile
  <2>1. UNCHANGED <<src, queue, pc, job, batch, buf>>
    BY <1>5 DEF SubmitFile, dirVars, threadVars
  <2>2. NamedManual'
    <3>1. ASSUME NEW f \in Files \ Dotfiles, manual' = Call("hashed", f, src[f], None)
          PROVE  NamedManual'
      BY <2>1, <3>1 DEF NamedManual, Call
    <3>2. CASE manual.stage = "hashed" /\ manual' = Call("read", manual.file, manual.hash, src[manual.file])
      BY <2>1, <3>2 DEF NamedManual, NamedInv, Call
    <3>3. CASE manual' = Call("done", None, None, None)
      BY <3>3 DEF NamedManual, Call
    <3> QED
      BY <1>5, <3>1, <3>2, <3>3 DEF SubmitFile
  <2>3. NamedStore'
    BY <1>0, <1>5 DEF SubmitFile, NamedStore, NamedInv, TypeOK, ManualInv
  <2>4. NamedQueue' /\ \A u \in Threads : NamedBatch(u)' /\ NamedJob(u)' /\ NamedBuf(u)'
    BY <2>1 DEF NamedInv, NamedQueue, NamedBatch, NamedJob, NamedBuf, Fresh
  <2> QED
    BY <2>2, <2>3, <2>4, NamedParts
<1>6. "main" \in Threads /\ "observer" \in Threads
  BY DEF Threads
<1> QED
  BY <1>1, <1>2, <1>3, <1>4, <1>5, <1>6, NamedWrite, NamedThread DEF Next, Main, Observer

\* While producers rename whole files in and leave them, every name in SUBMIT_DIR is the
\* hash of its content, whichever thread or process copied it and whatever fails.  (That
\* condition is needed: rsync reads the file again after it was hashed.)
THEOREM SpecHashNamed == ~InPlace => (Spec => []HashNamed)
<1>1. ASSUME ~InPlace PROVE IInv /\ NamedInv /\ [Next]_vars => (IInv /\ NamedInv)'
  <2>1. ASSUME IInv, NamedInv, UNCHANGED vars PROVE NamedInv'
    BY <2>1 DEF vars, NamedInv, Fresh
  <2> QED
    BY <1>1, <2>1, NextIInv, NextNamed
<1>2. IInv /\ NamedInv => HashNamed
  BY DEF IInv, NamedInv, HashNamed
<1>3. CASE ~InPlace
  <2>1. IInv /\ NamedInv /\ [Next]_vars => (IInv /\ NamedInv)'
    BY <1>1, <1>3
  <2> QED
    BY <1>2, <2>1, InitIInv, PTL DEF Spec
<1>4. CASE InPlace
  BY <1>4
<1> QED
  BY <1>3, <1>4
=============================================================================
