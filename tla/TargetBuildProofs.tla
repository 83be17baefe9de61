--------------------------- MODULE TargetBuildProofs ---------------------------
(***************************************************************************)
(* Proofs about TargetBuild, for any number of processes, builds, builders *)
(* and crashes: a content is made once, a build has all its snapshots or   *)
(* none and they are of its source, and kept builders do not stay.         *)
(*                                                                         *)
(* The processes share everything, and yet what a build relies on is its   *)
(* own: its id is that of no other running build (BuildInv, its first      *)
(* part), and the lock keeps the others from the content it works on.      *)
(***************************************************************************)
EXTENDS TargetBuild, TLAPS

\* The steps that build, and those that make snapshots.
Building == {"image", "compose", "run", "tag"}
Snapshotting == {"lock", "held", "committed"}

\* The builder k is kept, and is of the source that is built.
Kept(p, k) ==
  preserved[<<job[p].id, k>>] # None /\ preserved[<<job[p].id, k>>].source = job[p].source
Snapshot(p, k) ==
  snapshots[<<job[p].id, k>>] # None /\ snapshots[<<job[p].id, k>>].source = job[p].source

\* How a build that runs stands: its id is its own, and it has what it has done so far.
BuildInv(p) ==
  /\ job[p] # None /\ last[job[p].id] = p
  /\ pc[p] \in Building \union {"failed"} => job[p].committed = {}
  /\ pc[p] = "image" => job[p].image = 0
  /\ pc[p] \in {"run", "tag", "write"} \union Snapshotting => job[p].image # 0
  /\ pc[p] \in Building =>
       /\ job[p].todo # <<>> /\ job[p].todo \in Seq(Names)
       /\ \A k \in Names \ ToSet(job[p].todo) : Kept(p, k)
  /\ pc[p] \in Snapshotting =>
       /\ job[p].todo # <<>> /\ Names \subseteq job[p].committed \union ToSet(job[p].todo)
  /\ pc[p] \in Snapshotting \union {"rollback"} => job[p].incremental
  /\ pc[p] \in Snapshotting \union {"write"} =>
       /\ \A k \in Names : Kept(p, k)
       /\ \A k \in job[p].committed : Snapshot(p, k)
  /\ pc[p] = "write" /\ job[p].incremental => Names \subseteq job[p].committed
  /\ pc[p] \in {"held", "committed"} => locks[Key(p, Now(p))] = p
  /\ pc[p] = "committed" =>
       contents[Key(p, Now(p))] = None /\ Snapshot(p, Now(p))

\* What a build that has ended leaves.
EndInv(p) ==
  /\ ~job[p].ok => \A k \in job[p].committed : snapshots[<<job[p].id, k>>] = None
  /\ job[p].image # 0 =>
       \A k \in Names : preserved[<<job[p].id, k>>] = None <=> job[p].incremental \/ ~job[p].ok

ProcessInv(p) ==
  /\ pc[p] # "idle" => BuildInv(p)
  /\ EndedLast(p) => EndInv(p)

\* A process has committed a snapshot of content x, and has not tagged it yet.
Pending(x) == \E p \in Processes : pc[p] = "committed" /\ Key(p, Now(p)) = x

\* A content has its tag, or a process is about to tag it, or each run so far was crashed.
ContentInv ==
  /\ \A x \in Keys : contents[x] # None => contents[x].source = x[1]
  /\ \A x \in Keys : runsOf[x] <= 1 + crashes
  /\ \A x \in Keys : contents[x] = None /\ ~Pending(x) => runsOf[x] <= crashes

IInv == TypeOK /\ ContentInv /\ \A p \in Processes : ProcessInv(p)

-----------------------------------------------------------------------------
(* Sequences of builders.                                                   *)

\* The head of a sequence, and the rest of it.
LEMMA HeadTail ==
  ASSUME NEW S, NEW s \in Seq(S), s # <<>>
  PROVE  /\ Head(s) \in S /\ Head(s) \in ToSet(s) /\ Tail(s) \in Seq(S)
         /\ ToSet(s) = {Head(s)} \union ToSet(Tail(s))
<1>1. Len(s) \in Nat /\ Len(s) > 0 /\ DOMAIN s = 1 .. Len(s)
  OBVIOUS
<1>2. /\ Head(s) = s[1] /\ Len(Tail(s)) = Len(s) - 1
      /\ \A i \in 1 .. Len(s) - 1 : Tail(s)[i] = s[i + 1]
  BY <1>1
<1>3. \A i \in 2 .. Len(s) : i - 1 \in 1 .. Len(s) - 1 /\ s[i] = Tail(s)[i - 1]
  BY <1>1, <1>2
<1>4. ToSet(s) = { s[i] : i \in 1 .. Len(s) }
  BY <1>1 DEF ToSet
<1>5. Tail(s) \in Seq(S) /\ ToSet(Tail(s)) = { Tail(s)[i] : i \in 1 .. Len(s) - 1 }
  BY <1>1, <1>2 DEF ToSet
<1>6. ASSUME NEW x \in ToSet(s) PROVE x = Head(s) \/ x \in ToSet(Tail(s))
  <2>1. PICK i \in 1 .. Len(s) : x = s[i]
    BY <1>4
  <2> QED
    BY <1>1, <1>2, <1>3, <1>5, <2>1
<1>7. Head(s) \in S /\ Head(s) \in ToSet(s)
  BY <1>1, <1>2, <1>4
<1>8. ASSUME NEW x \in ToSet(Tail(s)) PROVE x \in ToSet(s)
  <2>1. PICK i \in 1 .. Len(s) - 1 : x = Tail(s)[i]
    BY <1>5
  <2> QED
    BY <1>1, <1>2, <1>4, <2>1
<1> QED
  BY <1>5, <1>6, <1>7, <1>8

\* The snapshots to make: one of each builder, and that of the tests.
LEMMA SnapshotsToMake ==
  /\ Builders \in Seq(Names) /\ Builders # <<>>
  /\ Append(Builders, Test) \in Seq(Names \union {Test}) /\ Append(Builders, Test) # <<>>
  /\ Names \subseteq ToSet(Append(Builders, Test))
<1> DEFINE s == Append(Builders, Test)
<1>1. Builders \in Seq(Names) /\ Builders # <<>>
  BY TargetBuildAssumption DEF Names
<1>2. Len(Builders) \in Nat /\ DOMAIN Builders = 1 .. Len(Builders)
  BY <1>1
<1>3. /\ s \in Seq(Names \union {Test}) /\ Len(s) = Len(Builders) + 1 /\ DOMAIN s = 1 .. Len(Builders) + 1
      /\ \A i \in 1 .. Len(Builders) : s[i] = Builders[i]
  BY <1>1, <1>2
<1>4. s # <<>>
  BY <1>2, <1>3
<1>5. ASSUME NEW k \in Names PROVE k \in ToSet(s)
  <2>1. PICK i \in 1 .. Len(Builders) : k = Builders[i]
    BY <1>2 DEF Names, ToSet
  <2> QED
    BY <1>2, <1>3, <2>1 DEF ToSet
<1> QED
  BY <1>1, <1>3, <1>4, <1>5

\* Sequences of builders are sequences of snapshots.
LEMMA BuildersAreSnapshots ==
  ASSUME NEW s \in Seq(Names)
  PROVE  s \in Seq(Names \union {Test})
OBVIOUS

-----------------------------------------------------------------------------
(* What a step of one build leaves to the others.                           *)

\* What is known of a build that runs.
LEMMA RunningIs ==
  ASSUME IInv, NEW p \in Processes, pc[p] # "idle"
  PROVE  /\ BuildInv(p) /\ job[p] # None /\ job[p] \in Jobs
         /\ job[p].id \in BuildIds /\ job[p].source \in Versions /\ job[p].input \in Inputs
         /\ job[p].incremental \in BOOLEAN /\ job[p].todo \in Seq(Names \union {Test})
         /\ job[p].image \in 0 .. MaxRecipes
         /\ job[p].committed \in SUBSET (Names \union {Test})
<1>1. BuildInv(p) /\ job[p] \in Jobs \union {None}
  BY DEF IInv, TypeOK, ProcessInv
<1>2. job[p] # None
  BY <1>1 DEF BuildInv
<1>3. job[p] \in Jobs
  BY <1>1, <1>2
<1> QED
  BY <1>1, <1>2, <1>3 DEF Jobs

\* What Progress makes of the job of p: a job of the same build.
Variants(p) ==
  [id : {job[p].id}, source : {job[p].source}, input : {job[p].input},
   incremental : {job[p].incremental},
   todo : Seq(Names \union {Test}), image : 0 .. MaxRecipes,
   committed : SUBSET (Names \union {Test}), ok : BOOLEAN]

\* Progress keeps the build and sets the rest.
LEMMA ProgressIs ==
  ASSUME IInv, NEW p \in Processes, pc[p] # "idle",
         NEW j \in Variants(p), job' = [job EXCEPT ![p] = j]
  PROVE  /\ job' \in [Processes -> Jobs \union {None}]
         /\ \A q \in Processes \ {p} : job'[q] = job[q]
         /\ job'[p] = j /\ j # None
         /\ j.id = job[p].id /\ j.source = job[p].source
         /\ j.input = job[p].input /\ j.incremental = job[p].incremental
<1>1. job \in [Processes -> Jobs \union {None}]
  BY DEF IInv, TypeOK
<1>2. /\ j.id = job[p].id /\ j.source = job[p].source
      /\ j.input = job[p].input /\ j.incremental = job[p].incremental
  BY DEF Variants
<1>3. j \in Jobs
  BY RunningIs DEF Jobs, Variants
<1>4. j # None
  BY <1>3, NoneAssumption
<1> QED
  BY <1>1, <1>2, <1>3, <1>4

\* A step of p alone: it changes the images of its build id, and no content that another
\* process has locked.
OwnStep(p) ==
  /\ \A q \in Processes \ {p} : pc'[q] = pc[q] /\ job'[q] = job[q]
  /\ last' = last /\ crashes' \in {crashes, crashes + 1}
  /\ \A x \in BuildIds \ {job[p].id}, k \in Names \union {Test} :
       snapshots'[<<x, k>>] = snapshots[<<x, k>>]
  /\ \A x \in BuildIds \ {job[p].id}, k \in Names : preserved'[<<x, k>>] = preserved[<<x, k>>]
  /\ \A x \in Keys : locks[x] \in Processes \ {p} =>
       locks'[x] = locks[x] /\ contents'[x] = contents[x]

\* A step of p alone keeps what holds of the other processes.
LEMMA OthersKeep ==
  ASSUME IInv, NEW p \in Processes, pc[p] # "idle", OwnStep(p), NEW q \in Processes, q # p
  PROVE  ProcessInv(q)'
<1>1. pc'[q] = pc[q] /\ job'[q] = job[q] /\ last' = last /\ ProcessInv(q)
  BY DEF OwnStep, IInv
<1>2. last[job[p].id] = p
  BY RunningIs DEF BuildInv
<1>3. ASSUME job[q] # None, last[job[q].id] = q
      PROVE  /\ job[q].id \in BuildIds \ {job[p].id} /\ job[q].committed \subseteq Names \union {Test}
             /\ \A k \in Names \union {Test} :
                  snapshots'[<<job[q].id, k>>] = snapshots[<<job[q].id, k>>]
             /\ \A k \in Names : preserved'[<<job[q].id, k>>] = preserved[<<job[q].id, k>>]
  <2>1. job[q] \in Jobs
    BY <1>3 DEF IInv, TypeOK
  <2>2. job[q].id \in BuildIds /\ job[q].id # job[p].id
    BY <1>2, <1>3, <2>1 DEF Jobs
  <2> QED
    BY <2>1, <2>2 DEF OwnStep, Jobs
<1>4. CASE pc[q] # "idle"
  <2>1. BuildInv(q) /\ job[q] # None /\ last[job[q].id] = q
    BY <1>1, <1>4 DEF ProcessInv, BuildInv
  <2>2. pc[q] \in Snapshotting => Now(q) \in Names \union {Test} /\ Key(q, Now(q)) \in Keys
    <3>1. pc[q] \in Snapshotting => job[q].todo # <<>>
      BY <2>1 DEF BuildInv
    <3> QED
      BY <1>4, <3>1, HeadTail, RunningIs DEF Now, Key, Keys
  <2>3. /\ Now(q)' = Now(q) /\ Key(q, Now(q))' = Key(q, Now(q))
        /\ \A k \in Names : Kept(q, k)' <=> Kept(q, k)
        /\ \A k \in Names \union {Test} : Snapshot(q, k)' <=> Snapshot(q, k)
    BY <1>1, <1>3, <2>1 DEF Now, Key, Kept, Snapshot
  <2>4. pc[q] \in {"held", "committed"} =>
          /\ locks'[Key(q, Now(q))] = q
          /\ contents'[Key(q, Now(q))] = contents[Key(q, Now(q))]
    <3>1. pc[q] \in {"held", "committed"} => locks[Key(q, Now(q))] = q
      BY <2>1 DEF BuildInv
    <3> QED
      BY <2>2, <3>1 DEF OwnStep, Snapshotting
  <2>5. BuildInv(q)'
    BY <1>1, <1>3, <2>1, <2>2, <2>3, <2>4 DEF BuildInv, Snapshotting
  <2> QED
    BY <1>1, <1>4, <2>5 DEF ProcessInv, EndedLast
<1>5. CASE pc[q] = "idle"
  <2>1. crashes \in Nat /\ (crashes' = 0 => crashes = 0)
    BY TargetBuildAssumption DEF IInv, TypeOK, OwnStep
  <2>2. EndedLast(q)' => EndedLast(q)
    BY <1>1, <2>1 DEF EndedLast
  <2>3. EndedLast(q)' => EndInv(q)'
    BY <1>1, <1>3, <2>2 DEF ProcessInv, EndedLast, EndInv
  <2> QED
    BY <1>1, <1>5, <2>3 DEF ProcessInv
<1> QED
  BY <1>4, <1>5

\* Most steps leave the contents alone.
LEMMA ContentFrame ==
  ASSUME IInv, NEW p \in Processes, pc[p] # "committed", UNCHANGED <<contents, runsOf, crashes>>,
         \A q \in Processes \ {p} : pc'[q] = pc[q] /\ job'[q] = job[q]
  PROVE  ContentInv'
<1>1. \A x \in Keys : Pending(x) => Pending(x)'
  BY DEF Pending, Key, Now
<1> QED
  BY <1>1 DEF IInv, ContentInv

\* A step of p keeps the invariant when it keeps the types, the contents and what holds of p.
LEMMA StepKeeps ==
  ASSUME IInv, NEW p \in Processes, pc[p] # "idle", OwnStep(p), TypeOK', ContentInv', ProcessInv(p)'
  PROVE  IInv'
BY OthersKeep DEF IInv

\* Where a step leads, when it leads on.
LEMMA GoIs ==
  ASSUME IInv, NEW p \in Processes, NEW s \in Steps, Go(p, s)
  PROVE  /\ pc' \in [Processes -> Steps] /\ pc'[p] = s
         /\ \A q \in Processes \ {p} : pc'[q] = pc[q]
BY DEF IInv, TypeOK, Go

-----------------------------------------------------------------------------
(* The steps that build.                                                    *)

\* The end of a build, of whichever step.
LEMMA FinishIs ==
  ASSUME IInv, NEW p \in Processes, pc[p] # "idle", NEW ok \in BOOLEAN, Finish(p, ok)
  PROVE  /\ pc' \in [Processes -> Steps] /\ pc'[p] = "idle"
         /\ job' \in [Processes -> Jobs \union {None}]
         /\ \A q \in Processes \ {p} : pc'[q] = pc[q] /\ job'[q] = job[q]
         /\ job'[p].id = job[p].id /\ job'[p].incremental = job[p].incremental
         /\ job'[p].image = job[p].image /\ job'[p].committed = job[p].committed
         /\ job'[p].ok = ok
<1>1. Go(p, "idle") /\ Progress(p, <<>>, job[p].image, job[p].committed, ok)
  BY DEF Finish
<1>2. <<>> \in Seq(Names \union {Test}) /\ "idle" \in Steps
  BY DEF Steps
<1>3. job[p].image \in 0 .. MaxRecipes /\ job[p].committed \in SUBSET (Names \union {Test})
  BY RunningIs
<1>4. pc' \in [Processes -> Steps] /\ pc'[p] = "idle" /\ \A q \in Processes \ {p} : pc'[q] = pc[q]
  BY <1>1, <1>2, GoIs
<1>5. /\ job' \in [Processes -> Jobs \union {None}]
      /\ \A q \in Processes \ {p} : job'[q] = job[q]
      /\ job'[p].id = job[p].id /\ job'[p].incremental = job[p].incremental
      /\ job'[p].image = job[p].image /\ job'[p].committed = job[p].committed
      /\ job'[p].ok = ok
  <2> DEFINE r == [id |-> job[p].id, source |-> job[p].source, input |-> job[p].input,
                   incremental |-> job[p].incremental,
                   todo |-> <<>>, image |-> job[p].image, committed |-> job[p].committed, ok |-> ok]
  <2>1. r \in Variants(p)
    BY <1>2, <1>3 DEF Variants
  <2>2. job' = [job EXCEPT ![p] = r]
    BY <1>1 DEF Progress
  <2>3. r.image = job[p].image /\ r.committed = job[p].committed /\ r.ok = ok
    OBVIOUS
  <2> HIDE DEF r
  <2>4. PICK j \in Variants(p) :
          job' = [job EXCEPT ![p] = j] /\ j.image = job[p].image
            /\ j.committed = job[p].committed /\ j.ok = ok
    BY <2>1, <2>2, <2>3
  <2> QED
    BY <2>4, ProgressIs
<1> QED
  BY <1>4, <1>5

\* The target image is built.
LEMMA TargetImageKeeps ==
  ASSUME IInv, NEW p \in Processes, TargetImage(p)
  PROVE  IInv'
<1>1. /\ pc[p] = "image" /\ pc[p] # "idle"
      /\ UNCHANGED <<source, recipe, outputs, caches, preserved, snapshots, contents, locks,
                     metadata, attempts, crashes, last, runsOf>>
  BY DEF TargetImage, hist
<1>2. BuildInv(p) /\ job[p].source \in Versions /\ job[p].committed = {} /\ job[p].image = 0
  BY <1>1, RunningIs DEF BuildInv, Building
<1>3. CASE images' = images \union {job[p].source} /\ Go(p, "compose") /\ UNCHANGED job
  <2>1. /\ pc' \in [Processes -> Steps] /\ pc'[p] = "compose"
        /\ \A q \in Processes \ {p} : pc'[q] = pc[q]
    BY <1>3, GoIs DEF Steps
  <2>2. TypeOK'
    BY <1>1, <1>2, <1>3, <2>1 DEF IInv, TypeOK
  <2>3. OwnStep(p)
    BY <1>1, <1>3, <2>1 DEF OwnStep
  <2>4. ContentInv'
    BY <1>1, <1>3, <2>1, ContentFrame
  <2>5. ProcessInv(p)'
    BY <1>1, <1>2, <1>3, <2>1 DEF ProcessInv, EndedLast, BuildInv, Kept, Building, Snapshotting
  <2> QED
    BY <1>1, <2>2, <2>3, <2>4, <2>5, StepKeeps
<1>4. CASE Finish(p, FALSE) /\ UNCHANGED images
  <2>1. /\ pc' \in [Processes -> Steps] /\ pc'[p] = "idle"
        /\ job' \in [Processes -> Jobs \union {None}]
        /\ \A q \in Processes \ {p} : pc'[q] = pc[q] /\ job'[q] = job[q]
        /\ job'[p].id = job[p].id /\ job'[p].incremental = job[p].incremental
        /\ job'[p].image = job[p].image /\ job'[p].committed = job[p].committed
    BY <1>1, <1>4, FinishIs
  <2>2. TypeOK'
    BY <1>1, <1>4, <2>1 DEF IInv, TypeOK
  <2>3. OwnStep(p)
    BY <1>1, <2>1 DEF OwnStep
  <2>4. ContentInv'
    BY <1>1, <2>1, ContentFrame
  <2>5. ProcessInv(p)'
    BY <1>1, <1>2, <2>1 DEF ProcessInv, EndInv
  <2> QED
    BY <1>1, <2>2, <2>3, <2>4, <2>5, StepKeeps
<1> QED
  BY <1>3, <1>4 DEF TargetImage

\* A builder image is built.
LEMMA ComposeBuildKeeps ==
  ASSUME IInv, NEW p \in Processes, ComposeBuild(p)
  PROVE  IInv'
<1>1. /\ pc[p] = "compose" /\ pc[p] # "idle"
      /\ UNCHANGED <<source, recipe, images, outputs, caches, preserved, snapshots, contents,
                     locks, metadata, attempts, crashes, last, runsOf>>
  BY DEF ComposeBuild, shared, hist
<1>2. /\ BuildInv(p) /\ job[p].committed = {} /\ job[p].todo \in Seq(Names \union {Test})
      /\ job[p].todo # <<>> /\ job[p].todo \in Seq(Names)
      /\ \A k \in Names \ ToSet(job[p].todo) : Kept(p, k)
  BY <1>1, RunningIs DEF BuildInv, Building
<1>3. CASE Progress(p, job[p].todo, recipe, {}, FALSE) /\ Go(p, "run")
  <2>1. recipe \in 1 .. MaxRecipes /\ recipe \in 0 .. MaxRecipes /\ recipe # 0
    BY TargetBuildAssumption DEF IInv, TypeOK
  <2>2. /\ job' \in [Processes -> Jobs \union {None}]
        /\ \A q \in Processes \ {p} : job'[q] = job[q]
        /\ job'[p] # None
        /\ job'[p].id = job[p].id /\ job'[p].source = job[p].source
        /\ job'[p].todo = job[p].todo /\ job'[p].image = recipe /\ job'[p].committed = {}
    <3> DEFINE r == [id |-> job[p].id, source |-> job[p].source, input |-> job[p].input,
                   incremental |-> job[p].incremental,
                   todo |-> job[p].todo, image |-> recipe, committed |-> {}, ok |-> FALSE]
    <3>1. r \in Variants(p)
      BY <1>2, <2>1 DEF Variants
    <3>2. job' = [job EXCEPT ![p] = r]
      BY <1>3 DEF Progress
    <3>3. r.todo = job[p].todo /\ r.image = recipe /\ r.committed = {}
      OBVIOUS
    <3> HIDE DEF r
    <3>4. PICK j \in Variants(p) :
            job' = [job EXCEPT ![p] = j] /\ j.todo = job[p].todo /\ j.image = recipe
              /\ j.committed = {}
      BY <3>1, <3>2, <3>3
    <3> QED
      BY <1>1, <3>4, ProgressIs
  <2>3. /\ pc' \in [Processes -> Steps] /\ pc'[p] = "run"
        /\ \A q \in Processes \ {p} : pc'[q] = pc[q]
    BY <1>3, GoIs DEF Steps
  <2>4. TypeOK'
    BY <1>1, <2>2, <2>3 DEF IInv, TypeOK
  <2>5. OwnStep(p) /\ ContentInv'
    BY <1>1, <2>2, <2>3, ContentFrame DEF OwnStep
  <2>6. \A k \in Names \ ToSet(job'[p].todo) : Kept(p, k)'
    BY <1>1, <1>2, <2>2 DEF Kept
  <2>7. ProcessInv(p)'
    BY <1>1, <1>2, <2>1, <2>2, <2>3, <2>6
       DEF ProcessInv, EndedLast, BuildInv, Building, Snapshotting
  <2> QED
    BY <1>1, <2>4, <2>5, <2>7, StepKeeps
<1>4. CASE Go(p, "failed") /\ UNCHANGED job
  <2>1. /\ pc' \in [Processes -> Steps] /\ pc'[p] = "failed"
        /\ \A q \in Processes \ {p} : pc'[q] = pc[q]
    BY <1>4, GoIs DEF Steps
  <2>2. TypeOK'
    BY <1>1, <1>4, <2>1 DEF IInv, TypeOK
  <2>3. OwnStep(p) /\ ContentInv'
    BY <1>1, <1>4, <2>1, ContentFrame DEF OwnStep
  <2>4. ProcessInv(p)'
    BY <1>1, <1>2, <1>4, <2>1 DEF ProcessInv, EndedLast, BuildInv, Building, Snapshotting
  <2> QED
    BY <1>1, <2>2, <2>3, <2>4, StepKeeps
<1> QED
  BY <1>3, <1>4 DEF ComposeBuild

\* A builder runs, or is skipped.
LEMMA RunBuilderKeeps ==
  ASSUME IInv, NEW p \in Processes, RunBuilder(p)
  PROVE  IInv'
<1> DEFINE k == Now(p)
<1>1. /\ pc[p] = "run" /\ pc[p] # "idle"
      /\ UNCHANGED <<source, recipe, images, preserved, snapshots, contents, locks, metadata, job,
                     attempts, crashes, last, runsOf>>
      /\ Go(p, "tag") \/ Go(p, "failed")
      /\ caches' \in {caches, [caches EXCEPT ![Cache(p, k)] = job[p].image]}
      /\ outputs' \in {outputs, [outputs EXCEPT ![Out(p, k)] = StampOf(p)]}
  BY DEF RunBuilder, hist
<1>2. /\ BuildInv(p) /\ job[p].todo # <<>> /\ job[p].todo \in Seq(Names) /\ job[p].image # 0
      /\ job[p].id \in BuildIds /\ job[p].source \in Versions /\ job[p].input \in Inputs
      /\ job[p].image \in 0 .. MaxRecipes
  BY <1>1, RunningIs DEF BuildInv, Building
<1>3. /\ pc' \in [Processes -> Steps] /\ pc'[p] \in {"tag", "failed"}
      /\ \A q \in Processes \ {p} : pc'[q] = pc[q]
  BY <1>1, GoIs DEF Steps
<1>4. /\ outputs' \in [BuildIds \X Versions \X Names -> Stamps \union {None}]
      /\ caches' \in [BuildIds \X Versions \X Names \X Inputs -> 0 .. MaxRecipes]
  <2>1. k \in Names
    BY <1>2, HeadTail DEF Now
  <2>2. StampOf(p) \in Stamps
    BY <1>2, TargetBuildAssumption DEF StampOf, Stamps
  <2> QED
    BY <1>1, <1>2, <2>1, <2>2 DEF IInv, TypeOK, Cache, Out
<1>5. TypeOK'
  BY <1>1, <1>3, <1>4 DEF IInv, TypeOK
<1>6. OwnStep(p) /\ ContentInv'
  BY <1>1, <1>3, ContentFrame DEF OwnStep
<1>7. ProcessInv(p)'
  BY <1>1, <1>2, <1>3 DEF ProcessInv, EndedLast, BuildInv, Kept, Building, Snapshotting
<1> QED
  BY <1>1, <1>5, <1>6, <1>7, StepKeeps

\* A builder image is kept.
LEMMA TagBuilderKeeps ==
  ASSUME IInv, NEW p \in Processes, TagBuilder(p)
  PROVE  IInv'
<1> DEFINE n == Now(p)
           rest == Tail(job[p].todo)
           todo == IF rest = <<>> /\ job[p].incremental THEN Append(Builders, Test) ELSE rest
           step == IF rest # <<>> THEN "compose" ELSE IF job[p].incremental THEN "lock" ELSE "write"
<1>1. /\ pc[p] = "tag" /\ pc[p] # "idle"
      /\ UNCHANGED <<source, recipe, images, outputs, caches, snapshots, contents, locks,
                     metadata, attempts, crashes, last, runsOf>>
  BY DEF TagBuilder, hist
<1>2. /\ BuildInv(p) /\ job[p].todo # <<>> /\ job[p].todo \in Seq(Names) /\ job[p].image # 0
      /\ job[p].id \in BuildIds /\ job[p].source \in Versions /\ job[p].input \in Inputs
      /\ job[p].image \in 0 .. MaxRecipes /\ job[p].committed = {} /\ job[p].incremental \in BOOLEAN
      /\ \A k \in Names \ ToSet(job[p].todo) : Kept(p, k)
  BY <1>1, RunningIs DEF BuildInv, Building
<1>3. CASE Go(p, "failed") /\ UNCHANGED <<preserved, job>>
  <2>1. /\ pc' \in [Processes -> Steps] /\ pc'[p] = "failed"
        /\ \A q \in Processes \ {p} : pc'[q] = pc[q]
    BY <1>3, GoIs DEF Steps
  <2>2. TypeOK'
    BY <1>1, <1>3, <2>1 DEF IInv, TypeOK
  <2>3. OwnStep(p) /\ ContentInv'
    BY <1>1, <1>3, <2>1, ContentFrame DEF OwnStep
  <2>4. ProcessInv(p)'
    BY <1>1, <1>2, <1>3, <2>1 DEF ProcessInv, EndedLast, BuildInv, Building, Snapshotting
  <2> QED
    BY <1>1, <2>2, <2>3, <2>4, StepKeeps
<1>4. CASE /\ preserved' = [preserved EXCEPT ![<<job[p].id, n>>] = StampOf(p)]
           /\ Progress(p, todo, job[p].image, {}, FALSE)
           /\ Go(p, step)
  <2>1. n \in Names /\ rest \in Seq(Names) /\ ToSet(job[p].todo) = {n} \union ToSet(rest)
    BY <1>2, HeadTail DEF Now
  <2>2. todo \in Seq(Names \union {Test})
    BY <2>1, SnapshotsToMake, BuildersAreSnapshots
  <2>3. StampOf(p) \in Stamps /\ StampOf(p) # None /\ StampOf(p).source = job[p].source
    <3>1. StampOf(p) \in Stamps
      BY <1>2, TargetBuildAssumption DEF StampOf, Stamps
    <3> QED
      BY <3>1, NoneAssumption DEF StampOf
  <2>4. /\ job' \in [Processes -> Jobs \union {None}]
        /\ \A q \in Processes \ {p} : job'[q] = job[q]
        /\ job'[p] # None
        /\ job'[p].id = job[p].id /\ job'[p].source = job[p].source
        /\ job'[p].incremental = job[p].incremental
        /\ job'[p].todo = todo /\ job'[p].image = job[p].image /\ job'[p].committed = {}
    <3> HIDE DEF todo
    <3> DEFINE r == [id |-> job[p].id, source |-> job[p].source, input |-> job[p].input,
                   incremental |-> job[p].incremental,
                   todo |-> todo, image |-> job[p].image, committed |-> {}, ok |-> FALSE]
    <3>1. r \in Variants(p)
      BY <1>2, <2>2 DEF Variants
    <3>2. job' = [job EXCEPT ![p] = r]
      BY <1>4 DEF Progress
    <3>3. r.todo = todo /\ r.image = job[p].image /\ r.committed = {}
      OBVIOUS
    <3> HIDE DEF r
    <3>4. PICK j \in Variants(p) :
            job' = [job EXCEPT ![p] = j] /\ j.todo = todo /\ j.image = job[p].image
              /\ j.committed = {}
      BY <3>1, <3>2, <3>3
    <3> QED
      BY <1>1, <3>4, ProgressIs
  <2>5. /\ pc' \in [Processes -> Steps] /\ pc'[p] = step
        /\ \A q \in Processes \ {p} : pc'[q] = pc[q]
    BY <1>4, GoIs DEF Steps
  <2>6. /\ preserved' \in [BuildIds \X Names -> Stamps \union {None}]
        /\ preserved'[<<job[p].id, n>>] = StampOf(p)
        /\ \A x \in BuildIds, k \in Names :
             x # job[p].id \/ k # n => preserved'[<<x, k>>] = preserved[<<x, k>>]
    BY <1>2, <1>4, <2>1, <2>3 DEF IInv, TypeOK
  <2>7. TypeOK'
    BY <1>1, <2>4, <2>5, <2>6 DEF IInv, TypeOK
  <2>8. OwnStep(p) /\ ContentInv'
    <3>1. \A q \in Processes \ {p} : pc'[q] = pc[q] /\ job'[q] = job[q]
      BY <2>4, <2>5
    <3>2. ContentInv'
      BY <1>1, <3>1, ContentFrame
    <3>3. \A x \in BuildIds \ {job[p].id}, k \in Names : preserved'[<<x, k>>] = preserved[<<x, k>>]
      BY <2>6
    <3> QED
      BY <1>1, <3>1, <3>2, <3>3 DEF OwnStep
  <2>9. \A k \in Names \ ToSet(rest) : Kept(p, k)'
    <3> HIDE DEF n, rest
    <3> SUFFICES ASSUME NEW k \in Names, k \notin ToSet(rest) PROVE Kept(p, k)'
      OBVIOUS
    <3>1. CASE k = n
      BY <2>3, <2>4, <2>6, <3>1 DEF Kept
    <3>2. CASE k # n
      <4>1. Kept(p, k) /\ preserved'[<<job[p].id, k>>] = preserved[<<job[p].id, k>>]
        BY <1>2, <2>1, <2>6, <3>2
      <4> QED
        BY <2>4, <4>1 DEF Kept
    <3> QED
      BY <3>1, <3>2
  <2>10. rest = <<>> => ToSet(rest) = {}
    BY DEF ToSet
  <2>11. ProcessInv(p)'
    <3>1. CASE rest # <<>>
      BY <1>1, <1>2, <2>1, <2>4, <2>5, <2>9, <3>1
         DEF ProcessInv, EndedLast, BuildInv, Building, Snapshotting
    <3>2. CASE rest = <<>> /\ job[p].incremental
      <4>1. \A k \in Names : Kept(p, k)'
        BY <2>9, <2>10, <3>2
      <4>2. pc'[p] = "lock" /\ job'[p].todo = Append(Builders, Test)
        BY <2>4, <2>5, <3>2
      <4>3. job'[p].todo # <<>> /\ Names \subseteq job'[p].committed \union ToSet(job'[p].todo)
        BY <4>2, SnapshotsToMake
      <4> QED
        BY <1>1, <1>2, <2>4, <4>1, <4>2, <4>3, <3>2
           DEF ProcessInv, EndedLast, BuildInv, Building, Snapshotting
    <3>3. CASE rest = <<>> /\ ~job[p].incremental
      <4>1. \A k \in Names : Kept(p, k)'
        BY <2>9, <2>10, <3>3
      <4> QED
        BY <1>1, <1>2, <2>4, <2>5, <4>1, <3>3
           DEF ProcessInv, EndedLast, BuildInv, Building, Snapshotting
    <3> QED
      BY <3>1, <3>2, <3>3
  <2> QED
    BY <1>1, <2>7, <2>8, <2>11, StepKeeps
<1> QED
  BY <1>3, <1>4 DEF TagBuilder

-----------------------------------------------------------------------------
(* The snapshots.                                                           *)

\* What a build works on: a snapshot to make, and its content.
LEMMA NowIs ==
  ASSUME IInv, NEW p \in Processes, pc[p] \in Snapshotting
  PROVE  /\ pc[p] # "idle" /\ Now(p) \in Names \union {Test} /\ Key(p, Now(p)) \in Keys
         /\ Key(p, Now(p))[1] = job[p].source
         /\ job[p].todo # <<>> /\ Tail(job[p].todo) \in Seq(Names \union {Test})
         /\ Names \subseteq job[p].committed \union {Now(p)} \union ToSet(Tail(job[p].todo))
<1>1. pc[p] # "idle"
  BY DEF Snapshotting
<1>2. /\ job[p].todo # <<>> /\ Names \subseteq job[p].committed \union ToSet(job[p].todo)
      /\ job[p].todo \in Seq(Names \union {Test}) /\ job[p].source \in Versions
  BY <1>1, RunningIs DEF BuildInv
<1>3. /\ Now(p) \in Names \union {Test} /\ Tail(job[p].todo) \in Seq(Names \union {Test})
      /\ ToSet(job[p].todo) = {Now(p)} \union ToSet(Tail(job[p].todo))
  BY <1>2, HeadTail DEF Now
<1> QED
  BY <1>1, <1>2, <1>3 DEF Key, Keys

\* A build goes on to its next snapshot with those that it has made.
LEMMA NextSnapshotKeeps ==
  ASSUME IInv, NEW p \in Processes, pc[p] \in {"held", "committed"},
         NEW ks \in SUBSET {Now(p)}, NextSnapshot(p, ks), Now(p) \in Names => Now(p) \in ks,
         UNCHANGED <<last, preserved>>,
         \A k \in job[p].committed \union ks :
           snapshots'[<<job[p].id, k>>] # None
             /\ snapshots'[<<job[p].id, k>>].source = job[p].source
  PROVE  /\ pc' \in [Processes -> Steps] /\ pc'[p] # "committed" /\ pc'[p] # "idle"
         /\ job' \in [Processes -> Jobs \union {None}]
         /\ \A q \in Processes \ {p} : pc'[q] = pc[q] /\ job'[q] = job[q]
         /\ ProcessInv(p)'
<1>1. /\ pc[p] \in Snapshotting /\ pc[p] # "idle"
  BY DEF Snapshotting
<1>2. /\ BuildInv(p) /\ job[p].image \in 0 .. MaxRecipes /\ job[p].image # 0 /\ job[p].incremental
      /\ job[p].committed \in SUBSET (Names \union {Test}) /\ \A k \in Names : Kept(p, k)
  BY <1>1, RunningIs DEF BuildInv
<1>3. /\ Now(p) \in Names \union {Test} /\ Tail(job[p].todo) \in Seq(Names \union {Test})
      /\ Names \subseteq job[p].committed \union {Now(p)} \union ToSet(Tail(job[p].todo))
  BY <1>1, NowIs
<1> DEFINE r == [id |-> job[p].id, source |-> job[p].source, input |-> job[p].input,
                 incremental |-> job[p].incremental,
                 todo |-> Tail(job[p].todo), image |-> job[p].image,
                 committed |-> job[p].committed \union ks, ok |-> FALSE]
<1>4. r \in Variants(p)
  BY <1>2, <1>3 DEF Variants
<1>5. job' = [job EXCEPT ![p] = r]
  BY DEF NextSnapshot, Progress
<1>6. /\ r.todo = Tail(job[p].todo) /\ r.image = job[p].image
      /\ r.committed = job[p].committed \union ks
  OBVIOUS
<1> HIDE DEF r
<1>7. PICK j \in Variants(p) :
        job' = [job EXCEPT ![p] = j] /\ j.todo = Tail(job[p].todo) /\ j.image = job[p].image
          /\ j.committed = job[p].committed \union ks
  BY <1>4, <1>5, <1>6
<1>8. /\ job' \in [Processes -> Jobs \union {None}]
      /\ \A q \in Processes \ {p} : job'[q] = job[q]
      /\ job'[p] # None
      /\ job'[p].id = job[p].id /\ job'[p].source = job[p].source
      /\ job'[p].incremental = job[p].incremental
      /\ job'[p].todo = Tail(job[p].todo) /\ job'[p].image = job[p].image
      /\ job'[p].committed = job[p].committed \union ks
  BY <1>1, <1>7, ProgressIs
<1>9. /\ pc' \in [Processes -> Steps]
      /\ \A q \in Processes \ {p} : pc'[q] = pc[q]
      /\ pc'[p] = IF Tail(job[p].todo) = <<>> THEN "write" ELSE "lock"
  <2>1. CASE Tail(job[p].todo) = <<>>
    BY <2>1, GoIs DEF NextSnapshot, Steps
  <2>2. CASE Tail(job[p].todo) # <<>>
    BY <2>2, GoIs DEF NextSnapshot, Steps
  <2> QED
    BY <2>1, <2>2
<1>10. /\ \A k \in Names : Kept(p, k)'
       /\ \A k \in job'[p].committed : Snapshot(p, k)'
  BY <1>2, <1>8 DEF Kept, Snapshot
<1>11. Names \subseteq job'[p].committed \union ToSet(Tail(job[p].todo))
  BY <1>3, <1>8
<1>12. Tail(job[p].todo) = <<>> => ToSet(Tail(job[p].todo)) = {}
  BY DEF ToSet
<1>13. ProcessInv(p)'
  <2>1. CASE Tail(job[p].todo) = <<>>
    BY <1>1, <1>2, <1>8, <1>9, <1>10, <1>11, <1>12, <2>1
       DEF ProcessInv, EndedLast, BuildInv, Building, Snapshotting
  <2>2. CASE Tail(job[p].todo) # <<>>
    BY <1>1, <1>2, <1>8, <1>9, <1>10, <1>11, <2>2
       DEF ProcessInv, EndedLast, BuildInv, Building, Snapshotting
  <2> QED
    BY <2>1, <2>2
<1> QED
  BY <1>8, <1>9, <1>13

\* The lock of a content is taken.
LEMMA SnapshotLockKeeps ==
  ASSUME IInv, NEW p \in Processes, SnapshotLock(p)
  PROVE  IInv'
<1> DEFINE x == Key(p, Now(p))
<1>1. /\ pc[p] = "lock" /\ pc[p] \in Snapshotting /\ locks[x] = None
      /\ locks' = [locks EXCEPT ![x] = p]
      /\ UNCHANGED <<source, recipe, images, outputs, caches, preserved, snapshots, contents,
                     metadata, job, attempts, crashes, last, runsOf>>
  BY DEF SnapshotLock, Snapshotting, hist
<1>2. x \in Keys /\ pc[p] # "idle"
  BY <1>1, NowIs
<1>3. /\ pc' \in [Processes -> Steps] /\ pc'[p] = "held"
      /\ \A q \in Processes \ {p} : pc'[q] = pc[q]
  BY GoIs DEF SnapshotLock, Steps
<1>4. /\ locks' \in [Keys -> Processes \union {None}] /\ locks'[x] = p
      /\ \A y \in Keys \ {x} : locks'[y] = locks[y]
  BY <1>1, <1>2 DEF IInv, TypeOK
<1>5. TypeOK'
  BY <1>1, <1>3, <1>4 DEF IInv, TypeOK
<1>6. OwnStep(p)
  <2>1. \A y \in Keys : locks[y] \in Processes \ {p} => locks'[y] = locks[y]
    BY <1>1, <1>4, TargetBuildAssumption
  <2> QED
    BY <1>1, <1>3, <2>1 DEF OwnStep
<1>7. ContentInv'
  BY <1>1, <1>3, ContentFrame
<1>8. ProcessInv(p)'
  <2>1. BuildInv(p)
    BY <1>2, RunningIs
  <2>2. x' = x
    BY <1>1 DEF Key, Now
  <2>3. locks'[x'] = p
    BY <1>4, <2>2
  <2> QED
    BY <1>1, <1>3, <2>1, <2>3
       DEF ProcessInv, EndedLast, BuildInv, Kept, Snapshot, Building, Snapshotting
<1> QED
  BY <1>2, <1>5, <1>6, <1>7, <1>8, StepKeeps

\* A process that gives up its lock does not disturb those of the others.
LEMMA UnlockIs ==
  ASSUME IInv, NEW p \in Processes, pc[p] \in {"held", "committed"}, Unlock(p)
  PROVE  /\ locks' \in [Keys -> Processes \union {None}]
         /\ \A y \in Keys : locks[y] \in Processes \ {p} => locks'[y] = locks[y] /\ y # Key(p, Now(p))
<1>1. Key(p, Now(p)) \in Keys /\ pc[p] # "idle"
  BY NowIs DEF Snapshotting
<1>2. locks[Key(p, Now(p))] = p
  BY <1>1, RunningIs DEF BuildInv
<1> QED
  BY <1>1, <1>2 DEF Unlock, IInv, TypeOK

\* The content is there and is tagged for the build.
LEMMA SnapshotReuseKeeps ==
  ASSUME IInv, NEW p \in Processes, SnapshotReuse(p)
  PROVE  IInv'
<1> DEFINE n == Now(p)
           x == Key(p, Now(p))
<1>1. /\ pc[p] = "held" /\ contents[x] # None
      /\ snapshots' = [snapshots EXCEPT ![<<job[p].id, n>>] = contents[x]]
      /\ NextSnapshot(p, {n}) /\ Unlock(p)
      /\ UNCHANGED <<source, recipe, images, outputs, caches, preserved, contents, metadata,
                     attempts, crashes, last, runsOf>>
  BY DEF SnapshotReuse, hist
<1>2. /\ pc[p] # "idle" /\ x \in Keys /\ n \in Names \union {Test} /\ x[1] = job[p].source
  BY <1>1, NowIs DEF Snapshotting
<1>3. /\ job[p].id \in BuildIds /\ job[p].committed \in SUBSET (Names \union {Test})
      /\ \A k \in job[p].committed : Snapshot(p, k)
  BY <1>1, <1>2, RunningIs DEF BuildInv, Snapshotting
<1>4. contents[x] \in Stamps \union {None} /\ contents[x].source = job[p].source
  BY <1>1, <1>2 DEF IInv, TypeOK, ContentInv
<1>5. /\ snapshots' \in [BuildIds \X (Names \union {Test}) -> Stamps \union {None}]
      /\ snapshots'[<<job[p].id, n>>] = contents[x]
      /\ \A y \in BuildIds, k \in Names \union {Test} :
           y # job[p].id \/ k # n => snapshots'[<<y, k>>] = snapshots[<<y, k>>]
  BY <1>1, <1>2, <1>3, <1>4 DEF IInv, TypeOK
<1>6. \A k \in job[p].committed \union {n} :
        snapshots'[<<job[p].id, k>>] # None /\ snapshots'[<<job[p].id, k>>].source = job[p].source
  <2> SUFFICES ASSUME NEW k \in job[p].committed \union {n}
               PROVE  snapshots'[<<job[p].id, k>>] # None
                        /\ snapshots'[<<job[p].id, k>>].source = job[p].source
    OBVIOUS
  <2>1. CASE k = n
    BY <1>1, <1>4, <1>5, <2>1
  <2>2. CASE k # n
    <3>1. snapshots'[<<job[p].id, k>>] = snapshots[<<job[p].id, k>>]
      BY <1>3, <1>5, <2>2
    <3> QED
      BY <1>3, <2>2, <3>1 DEF Snapshot
  <2> QED
    BY <2>1, <2>2
<1>7. /\ pc' \in [Processes -> Steps]
      /\ job' \in [Processes -> Jobs \union {None}]
      /\ \A q \in Processes \ {p} : pc'[q] = pc[q] /\ job'[q] = job[q]
      /\ ProcessInv(p)'
  BY <1>1, <1>6, NextSnapshotKeeps
<1>8. TypeOK'
  BY <1>1, <1>5, <1>7, UnlockIs DEF IInv, TypeOK
<1>9. OwnStep(p)
  <2>1. \A y \in Keys : locks[y] \in Processes \ {p} => locks'[y] = locks[y]
    BY <1>1, UnlockIs
  <2> QED
    BY <1>1, <1>5, <1>7, <2>1 DEF OwnStep
<1>10. ContentInv'
  BY <1>1, <1>7, ContentFrame
<1> QED
  BY <1>2, <1>7, <1>8, <1>9, <1>10, StepKeeps

\* A run of the container for a content without a tag: no other one is under way.
LEMMA SnapshotCommitKeeps ==
  ASSUME IInv, NEW p \in Processes, SnapshotCommit(p)
  PROVE  IInv'
<1> DEFINE n == Now(p)
           x == Key(p, Now(p))
<1>1. /\ pc[p] = "held" /\ contents[x] = None /\ Base(p) # None
      /\ snapshots' = [snapshots EXCEPT ![<<job[p].id, n>>] = Base(p)]
      /\ runsOf' = [runsOf EXCEPT ![x] = @ + 1]
      /\ UNCHANGED <<source, recipe, images, outputs, caches, preserved, contents, locks, metadata,
                     job, attempts, crashes, last>>
  BY DEF SnapshotCommit
<1>2. /\ pc[p] # "idle" /\ x \in Keys /\ n \in Names \union {Test} /\ x[1] = job[p].source
  BY <1>1, NowIs DEF Snapshotting
<1>3. /\ BuildInv(p) /\ job[p].id \in BuildIds /\ job[p].source \in Versions
      /\ job[p].input \in Inputs
      /\ job[p].committed \in SUBSET (Names \union {Test})
      /\ \A k \in job[p].committed : Snapshot(p, k)
      /\ \A k \in Names : Kept(p, k)
      /\ locks[x] = p
  BY <1>1, <1>2, RunningIs DEF BuildInv, Snapshotting
<1>4. Base(p) \in Stamps /\ Base(p).source = job[p].source
  <2>1. CASE n = Test
    BY <1>3, <2>1, TargetBuildAssumption DEF Base, Stamps
  <2>2. CASE n # Test
    <3>1. n \in Names /\ Base(p) = preserved[<<job[p].id, n>>]
      BY <1>2, <2>2 DEF Base
    <3> QED
      BY <1>1, <1>3, <3>1 DEF Kept, IInv, TypeOK
  <2> QED
    BY <2>1, <2>2
<1>5. /\ snapshots' \in [BuildIds \X (Names \union {Test}) -> Stamps \union {None}]
      /\ snapshots'[<<job[p].id, n>>] = Base(p)
      /\ \A y \in BuildIds, k \in Names \union {Test} :
           y # job[p].id \/ k # n => snapshots'[<<y, k>>] = snapshots[<<y, k>>]
  BY <1>1, <1>2, <1>3, <1>4 DEF IInv, TypeOK
<1>6. /\ runsOf' \in [Keys -> Nat] /\ runsOf'[x] = runsOf[x] + 1
      /\ \A y \in Keys \ {x} : runsOf'[y] = runsOf[y]
      /\ runsOf \in [Keys -> Nat] /\ crashes \in Nat
  BY <1>1, <1>2, TargetBuildAssumption DEF IInv, TypeOK
<1>7. /\ pc' \in [Processes -> Steps] /\ pc'[p] = "committed"
      /\ \A q \in Processes \ {p} : pc'[q] = pc[q]
  BY GoIs DEF SnapshotCommit, Steps
<1>8. TypeOK'
  BY <1>1, <1>5, <1>6, <1>7 DEF IInv, TypeOK
<1>9. OwnStep(p)
  BY <1>1, <1>5, <1>7 DEF OwnStep
<1>10. ContentInv'
  <2>1. ~Pending(x)
    <3> SUFFICES ASSUME NEW q \in Processes, pc[q] = "committed", Key(q, Now(q)) = x PROVE FALSE
      BY DEF Pending
    <3>1. locks[x] = q
      BY RunningIs DEF BuildInv
    <3> QED
      BY <1>1, <1>3, <3>1
  <2>2. runsOf[x] <= crashes
    BY <1>1, <1>2, <2>1 DEF IInv, ContentInv
  <2>3. \A y \in Keys : y = x => Pending(y)'
    BY <1>1, <1>7 DEF Pending, Key, Now
  <2>4. \A y \in Keys : Pending(y) => Pending(y)'
    BY <1>1, <1>7 DEF Pending, Key, Now
  <2>5. \A y \in Keys : contents'[y] # None => contents'[y].source = y[1]
    BY <1>1 DEF IInv, ContentInv
  <2>6. \A y \in Keys : runsOf'[y] <= 1 + crashes'
    BY <1>1, <1>6, <2>2 DEF IInv, ContentInv
  <2>7. \A y \in Keys : contents'[y] = None /\ ~Pending(y)' => runsOf'[y] <= crashes'
    <3> SUFFICES ASSUME NEW y \in Keys, contents'[y] = None, ~Pending(y)'
                 PROVE  runsOf'[y] <= crashes'
      OBVIOUS
    <3>1. y # x /\ ~Pending(y)
      BY <2>3, <2>4
    <3>2. runsOf[y] <= crashes
      BY <1>1, <3>1 DEF IInv, ContentInv
    <3> QED
      BY <1>1, <1>6, <3>1, <3>2
  <2> QED
    BY <2>5, <2>6, <2>7 DEF ContentInv
<1>11. ProcessInv(p)'
  <2>1. n' = n /\ x' = x
    BY <1>1 DEF Key, Now
  <2>2. \A k \in job[p].committed \union {n} : Snapshot(p, k)'
    <3> SUFFICES ASSUME NEW k \in job[p].committed \union {n} PROVE Snapshot(p, k)'
      OBVIOUS
    <3>1. CASE k = n
      BY <1>1, <1>4, <1>5, <3>1 DEF Snapshot
    <3>2. CASE k # n
      <4>1. snapshots'[<<job[p].id, k>>] = snapshots[<<job[p].id, k>>] /\ Snapshot(p, k)
        BY <1>3, <1>5, <3>2
      <4> QED
        BY <1>1, <4>1 DEF Snapshot
    <3> QED
      BY <3>1, <3>2
  <2>3. /\ \A k \in Names : Kept(p, k)'
        /\ \A k \in job'[p].committed : Snapshot(p, k)'
        /\ Snapshot(p, n)' /\ contents'[x'] = None /\ locks'[x'] = p
    BY <1>1, <1>3, <2>1, <2>2 DEF Kept, Snapshot
  <2> QED
    BY <1>1, <1>3, <1>7, <2>3 DEF ProcessInv, EndedLast, BuildInv, Building, Snapshotting
<1> QED
  BY <1>2, <1>8, <1>9, <1>10, <1>11, StepKeeps

\* A snapshot fails, and its lock is released.
LEMMA SnapshotFailsKeeps ==
  ASSUME IInv, NEW p \in Processes, SnapshotFails(p)
  PROVE  IInv'
<1>1. /\ pc[p] = "held" /\ Unlock(p)
      /\ UNCHANGED <<source, recipe, images, outputs, caches, preserved, snapshots, contents,
                     metadata, attempts, crashes, last, runsOf>>
  BY DEF SnapshotFails, hist
<1>2. pc[p] # "idle" /\ Now(p) \in Names \union {Test}
  BY <1>1, NowIs DEF Snapshotting
<1>3. /\ BuildInv(p) /\ job[p].incremental /\ job[p].image # 0
      /\ \A k \in job[p].committed : Snapshot(p, k)
  BY <1>1, <1>2, RunningIs DEF BuildInv, Snapshotting
<1>4. ASSUME pc' \in [Processes -> Steps], pc'[p] # "committed",
             job' \in [Processes -> Jobs \union {None}],
             \A q \in Processes \ {p} : pc'[q] = pc[q] /\ job'[q] = job[q],
             ProcessInv(p)'
      PROVE  IInv'
  <2>1. TypeOK'
    BY <1>1, <1>4, UnlockIs DEF IInv, TypeOK
  <2>2. \A y \in Keys : locks[y] \in Processes \ {p} => locks'[y] = locks[y]
    BY <1>1, UnlockIs
  <2>3. OwnStep(p) /\ ContentInv'
    BY <1>1, <1>4, <2>2, ContentFrame DEF OwnStep
  <2> QED
    BY <1>2, <1>4, <2>1, <2>3, StepKeeps
<1>5. CASE Now(p) = Test
  <2>1. NextSnapshot(p, {}) /\ Now(p) \notin Names
    BY <1>5, TargetBuildAssumption DEF SnapshotFails, Names
  <2>2. \A k \in job[p].committed \union {} :
          snapshots'[<<job[p].id, k>>] # None
            /\ snapshots'[<<job[p].id, k>>].source = job[p].source
    BY <1>1, <1>3 DEF Snapshot
  <2>3. /\ pc' \in [Processes -> Steps] /\ pc'[p] # "committed"
        /\ job' \in [Processes -> Jobs \union {None}]
        /\ \A q \in Processes \ {p} : pc'[q] = pc[q] /\ job'[q] = job[q]
        /\ ProcessInv(p)'
    BY <1>1, <2>1, <2>2, NextSnapshotKeeps
  <2> QED
    BY <1>4, <2>3
<1>6. CASE Now(p) # Test
  <2>1. Go(p, "rollback") /\ UNCHANGED job
    BY <1>6 DEF SnapshotFails
  <2>2. /\ pc' \in [Processes -> Steps] /\ pc'[p] = "rollback"
        /\ \A q \in Processes \ {p} : pc'[q] = pc[q]
    BY <2>1, GoIs DEF Steps
  <2>3. ProcessInv(p)'
    BY <1>1, <1>3, <2>1, <2>2 DEF ProcessInv, EndedLast, BuildInv, Building, Snapshotting
  <2>4. job' \in [Processes -> Jobs \union {None}]
    BY <2>1 DEF IInv, TypeOK
  <2> QED
    BY <1>4, <2>1, <2>2, <2>3, <2>4
<1> QED
  BY <1>5, <1>6

\* A committed snapshot is tagged under its content and its build.
LEMMA SnapshotTagKeeps ==
  ASSUME IInv, NEW p \in Processes, SnapshotTag(p)
  PROVE  IInv'
<1> DEFINE n == Now(p)
           x == Key(p, Now(p))
           snapshot == snapshots[<<job[p].id, n>>]
<1>1. /\ pc[p] = "committed" /\ contents' = [contents EXCEPT ![x] = snapshot]
      /\ NextSnapshot(p, {n}) /\ Unlock(p)
      /\ UNCHANGED <<source, recipe, images, outputs, caches, preserved, snapshots, metadata,
                     attempts, crashes, last, runsOf>>
  BY DEF SnapshotTag, hist
<1>2. pc[p] # "idle" /\ x \in Keys /\ n \in Names \union {Test} /\ x[1] = job[p].source
  BY <1>1, NowIs DEF Snapshotting
<1>3. /\ BuildInv(p) /\ job[p].id \in BuildIds /\ \A k \in job[p].committed : Snapshot(p, k)
      /\ Snapshot(p, n) /\ locks[x] = p
  BY <1>1, <1>2, RunningIs DEF BuildInv, Snapshotting
<1>4. snapshot \in Stamps /\ snapshot # None /\ snapshot.source = x[1]
  BY <1>2, <1>3 DEF Snapshot, IInv, TypeOK
<1>5. /\ contents' \in [Keys -> Stamps \union {None}] /\ contents'[x] = snapshot
      /\ \A y \in Keys \ {x} : contents'[y] = contents[y]
  BY <1>1, <1>2, <1>4 DEF IInv, TypeOK
<1>6. \A k \in job[p].committed \union {n} :
        snapshots'[<<job[p].id, k>>] # None /\ snapshots'[<<job[p].id, k>>].source = job[p].source
  BY <1>1, <1>3 DEF Snapshot
<1>7. /\ pc' \in [Processes -> Steps] /\ pc'[p] # "committed"
      /\ job' \in [Processes -> Jobs \union {None}]
      /\ \A q \in Processes \ {p} : pc'[q] = pc[q] /\ job'[q] = job[q]
      /\ ProcessInv(p)'
  BY <1>1, <1>6, NextSnapshotKeeps
<1>8. TypeOK'
  BY <1>1, <1>5, <1>7, UnlockIs DEF IInv, TypeOK
<1>9. OwnStep(p)
  <2>1. \A y \in Keys : locks[y] \in Processes \ {p} => locks'[y] = locks[y] /\ contents'[y] = contents[y]
    BY <1>1, <1>5, UnlockIs
  <2> QED
    BY <1>1, <1>7, <2>1 DEF OwnStep
<1>10. ContentInv'
  <2>1. \A y \in Keys : y # x /\ Pending(y) => Pending(y)'
    <3> SUFFICES ASSUME NEW y \in Keys, y # x, NEW q \in Processes, pc[q] = "committed",
                        Key(q, Now(q)) = y
                 PROVE  Pending(y)'
      BY DEF Pending
    <3>1. q # p
      OBVIOUS
    <3> QED
      BY <1>7, <3>1 DEF Pending, Key, Now
  <2>2. \A y \in Keys : contents'[y] # None => contents'[y].source = y[1]
    BY <1>4, <1>5 DEF IInv, ContentInv
  <2>3. \A y \in Keys : contents'[y] = None => y # x /\ contents[y] = None
    BY <1>4, <1>5
  <2> QED
    BY <1>1, <2>1, <2>2, <2>3 DEF IInv, ContentInv
<1> QED
  BY <1>2, <1>7, <1>8, <1>9, <1>10, StepKeeps

-----------------------------------------------------------------------------
(* The ends of a build.                                                     *)

\* The kept builders of a build are removed, and no others.
LEMMA WithoutBuildersIs ==
  ASSUME IInv, NEW p \in Processes, pc[p] # "idle", preserved' = WithoutBuilders(p)
  PROVE  /\ preserved' \in [BuildIds \X Names -> Stamps \union {None}]
         /\ \A k \in Names : preserved'[<<job[p].id, k>>] = None
         /\ \A x \in BuildIds \ {job[p].id}, k \in Names : preserved'[<<x, k>>] = preserved[<<x, k>>]
<1>1. preserved \in [BuildIds \X Names -> Stamps \union {None}] /\ job[p].id \in BuildIds
  BY RunningIs DEF IInv, TypeOK
<1>2. preserved' = [x \in BuildIds \X Names |-> IF x[1] = job[p].id THEN None ELSE preserved[x]]
  BY <1>1 DEF WithoutBuilders
<1> QED
  BY <1>1, <1>2

\* What a build that ends has to leave.
LEMMA EndKeeps ==
  ASSUME IInv, NEW p \in Processes, pc[p] # "idle", NEW ok \in BOOLEAN, Finish(p, ok),
         locks' = locks, contents' = contents, runsOf' = runsOf, pc[p] # "committed",
         UNCHANGED <<source, recipe, images, outputs, caches, attempts, crashes, last>>,
         metadata' \subseteq BuildIds,
         snapshots' \in [BuildIds \X (Names \union {Test}) -> Stamps \union {None}],
         preserved' \in [BuildIds \X Names -> Stamps \union {None}],
         \A x \in BuildIds \ {job[p].id}, k \in Names \union {Test} :
           snapshots'[<<x, k>>] = snapshots[<<x, k>>],
         \A x \in BuildIds \ {job[p].id}, k \in Names : preserved'[<<x, k>>] = preserved[<<x, k>>],
         ok \/ \A k \in job[p].committed : snapshots'[<<job[p].id, k>>] = None,
         \A k \in Names : preserved'[<<job[p].id, k>>] = None <=> (job[p].incremental \/ ~ok)
  PROVE  IInv'
<1>1. /\ pc' \in [Processes -> Steps] /\ pc'[p] = "idle"
      /\ job' \in [Processes -> Jobs \union {None}]
      /\ \A q \in Processes \ {p} : pc'[q] = pc[q] /\ job'[q] = job[q]
      /\ job'[p].id = job[p].id /\ job'[p].incremental = job[p].incremental
      /\ job'[p].image = job[p].image /\ job'[p].committed = job[p].committed
      /\ job'[p].ok = ok
  BY FinishIs
<1>2. TypeOK'
  BY <1>1 DEF IInv, TypeOK
<1>3. OwnStep(p)
  BY <1>1 DEF OwnStep
<1>4. ContentInv'
  BY <1>1, ContentFrame
<1>5. EndInv(p)'
  BY <1>1 DEF EndInv
<1> QED
  BY <1>1, <1>2, <1>3, <1>4, <1>5, StepKeeps DEF ProcessInv

\* A builder fails, and what was kept goes.
LEMMA BuildFailsKeeps ==
  ASSUME IInv, NEW p \in Processes, BuildFails(p)
  PROVE  IInv'
<1>1. /\ pc[p] = "failed" /\ pc[p] # "idle" /\ preserved' = WithoutBuilders(p) /\ Finish(p, FALSE)
      /\ UNCHANGED <<source, recipe, images, outputs, caches, snapshots, contents, locks, metadata,
                     attempts, crashes, last, runsOf>>
  BY DEF BuildFails, hist
<1>2. job[p].committed = {}
  BY <1>1, RunningIs DEF BuildInv
<1>3. /\ preserved' \in [BuildIds \X Names -> Stamps \union {None}]
      /\ \A k \in Names : preserved'[<<job[p].id, k>>] = None
      /\ \A x \in BuildIds \ {job[p].id}, k \in Names : preserved'[<<x, k>>] = preserved[<<x, k>>]
  BY <1>1, WithoutBuildersIs
<1>4. /\ metadata' \subseteq BuildIds
      /\ snapshots' \in [BuildIds \X (Names \union {Test}) -> Stamps \union {None}]
  BY <1>1 DEF IInv, TypeOK
<1> QED
  BY <1>1, <1>2, <1>3, <1>4, EndKeeps

\* The snapshots of a failed build go.
LEMMA RollbackKeeps ==
  ASSUME IInv, NEW p \in Processes, Rollback(p)
  PROVE  IInv'
<1>1. /\ pc[p] = "rollback" /\ pc[p] # "idle" /\ preserved' = WithoutBuilders(p) /\ Finish(p, FALSE)
      /\ snapshots' = [x \in DOMAIN snapshots |->
           IF x[1] = job[p].id /\ x[2] \in job[p].committed THEN None ELSE snapshots[x]]
      /\ UNCHANGED <<source, recipe, images, outputs, caches, contents, locks, metadata,
                     attempts, crashes, last, runsOf>>
  BY DEF Rollback, hist
<1>2. job[p].committed \in SUBSET (Names \union {Test}) /\ job[p].id \in BuildIds
  BY <1>1, RunningIs
<1>3. /\ preserved' \in [BuildIds \X Names -> Stamps \union {None}]
      /\ \A k \in Names : preserved'[<<job[p].id, k>>] = None
      /\ \A x \in BuildIds \ {job[p].id}, k \in Names : preserved'[<<x, k>>] = preserved[<<x, k>>]
  BY <1>1, WithoutBuildersIs
<1>4. /\ snapshots \in [BuildIds \X (Names \union {Test}) -> Stamps \union {None}]
      /\ metadata' \subseteq BuildIds
  BY <1>1 DEF IInv, TypeOK
<1>5. snapshots' = [x \in BuildIds \X (Names \union {Test}) |->
        IF x[1] = job[p].id /\ x[2] \in job[p].committed THEN None ELSE snapshots[x]]
  BY <1>1, <1>4
<1>6. /\ snapshots' \in [BuildIds \X (Names \union {Test}) -> Stamps \union {None}]
      /\ \A k \in job[p].committed : snapshots'[<<job[p].id, k>>] = None
      /\ \A x \in BuildIds \ {job[p].id}, k \in Names \union {Test} :
           snapshots'[<<x, k>>] = snapshots[<<x, k>>]
  BY <1>2, <1>4, <1>5
<1> QED
  BY <1>1, <1>3, <1>4, <1>6, EndKeeps

\* A build ends well.
LEMMA WriteMetadataKeeps ==
  ASSUME IInv, NEW p \in Processes, WriteMetadata(p)
  PROVE  IInv'
<1>1. /\ pc[p] = "write" /\ pc[p] # "idle" /\ Finish(p, TRUE)
      /\ preserved' = IF job[p].incremental THEN WithoutBuilders(p) ELSE preserved
      /\ metadata' = metadata \union {job[p].id}
      /\ UNCHANGED <<source, recipe, images, outputs, caches, snapshots, contents, locks,
                     attempts, crashes, last, runsOf>>
  BY DEF WriteMetadata, hist
<1>2. job[p].id \in BuildIds /\ \A k \in Names : Kept(p, k)
  BY <1>1, RunningIs DEF BuildInv
<1>3. /\ preserved' \in [BuildIds \X Names -> Stamps \union {None}]
      /\ \A k \in Names : preserved'[<<job[p].id, k>>] = None <=> job[p].incremental
      /\ \A x \in BuildIds \ {job[p].id}, k \in Names : preserved'[<<x, k>>] = preserved[<<x, k>>]
  <2>1. CASE job[p].incremental
    BY <1>1, <2>1, WithoutBuildersIs
  <2>2. CASE ~job[p].incremental
    BY <1>1, <1>2, <2>2 DEF Kept, IInv, TypeOK
  <2> QED
    BY <2>1, <2>2
<1>4. /\ metadata' \subseteq BuildIds
      /\ snapshots' \in [BuildIds \X (Names \union {Test}) -> Stamps \union {None}]
  BY <1>1, <1>2 DEF IInv, TypeOK
<1> QED
  BY <1>1, <1>3, <1>4, EndKeeps

\* A process that is killed may leave anything of its own, but no lock.
LEMMA CrashKeeps ==
  ASSUME IInv, NEW p \in Processes, Crash(p)
  PROVE  IInv'
<1>1. /\ pc[p] # "idle" /\ crashes < MaxCrashes /\ crashes' = crashes + 1 /\ Finish(p, FALSE)
      /\ locks' = [k \in Keys |-> IF locks[k] = p THEN None ELSE locks[k]]
      /\ UNCHANGED <<source, recipe, images, outputs, caches, preserved, snapshots, contents,
                     metadata, attempts, last, runsOf>>
  BY DEF Crash, hist
<1>2. /\ pc' \in [Processes -> Steps] /\ pc'[p] = "idle"
      /\ job' \in [Processes -> Jobs \union {None}]
      /\ \A q \in Processes \ {p} : pc'[q] = pc[q] /\ job'[q] = job[q]
  BY <1>1, FinishIs
<1>3. crashes \in Nat /\ MaxCrashes \in Nat
  BY TargetBuildAssumption DEF IInv, TypeOK
<1>4. crashes' \in 0 .. MaxCrashes /\ crashes' # 0
  BY <1>1, <1>3
<1>5. /\ locks' \in [Keys -> Processes \union {None}]
      /\ \A y \in Keys : locks[y] \in Processes \ {p} => locks'[y] = locks[y]
  BY <1>1 DEF IInv, TypeOK
<1>6. TypeOK'
  BY <1>1, <1>2, <1>4, <1>5 DEF IInv, TypeOK
<1>7. OwnStep(p)
  BY <1>1, <1>2, <1>5 DEF OwnStep
<1>8. ContentInv'
  <2>1. \A y \in Keys : runsOf[y] \in Nat /\ runsOf[y] <= 1 + crashes
    BY DEF IInv, TypeOK, ContentInv
  <2>2. \A y \in Keys : runsOf'[y] <= crashes' /\ runsOf'[y] <= 1 + crashes'
    BY <1>1, <1>3, <2>1
  <2> QED
    BY <1>1, <2>2 DEF IInv, ContentInv
<1>9. ProcessInv(p)'
  BY <1>2, <1>4 DEF ProcessInv, EndedLast
<1> QED
  BY <1>1, <1>6, <1>7, <1>8, <1>9, StepKeeps

-----------------------------------------------------------------------------
(* The whole.                                                               *)

\* A build that is started takes an id that no running build has.
LEMMA BeginKeeps ==
  ASSUME IInv, NEW p \in Processes, Begin(p)
  PROVE  IInv'
<1> DEFINE new(id, input, inc) ==
             [id |-> id, source |-> source, input |-> input, incremental |-> inc,
              todo |-> Builders, image |-> 0, committed |-> {}, ok |-> FALSE]
<1>1. /\ pc[p] = "idle" /\ attempts < MaxAttempts /\ attempts' = attempts + 1
      /\ Go(p, "image")
      /\ UNCHANGED <<source, recipe, images, outputs, caches, preserved, snapshots, contents,
                     locks, metadata, crashes, runsOf>>
  BY DEF Begin, shared
<1>2. PICK id \in BuildIds, input \in Inputs, inc \in BOOLEAN :
        /\ \A q \in Processes : pc[q] # "idle" => job[q].id # id
        /\ job' = [job EXCEPT ![p] = new(id, input, inc)]
        /\ last' = [last EXCEPT ![id] = p]
  BY DEF Begin
<1> DEFINE j == new(id, input, inc)
<1>3. source \in Versions /\ 0 \in 0 .. MaxRecipes /\ attempts' \in 0 .. MaxAttempts
  BY <1>1, TargetBuildAssumption DEF IInv, TypeOK
<1>4. Builders \in Seq(Names \union {Test}) /\ Builders \in Seq(Names) /\ Builders # <<>>
  BY SnapshotsToMake, BuildersAreSnapshots
<1>5. j \in Jobs
  BY <1>3, <1>4 DEF Jobs
<1>6. j # None
  BY <1>5, NoneAssumption
<1>7. /\ j.id = id /\ j.source = source /\ j.todo = Builders /\ j.image = 0 /\ j.committed = {}
  OBVIOUS
<1> HIDE DEF j
<1>8. /\ job' \in [Processes -> Jobs \union {None}] /\ job'[p] = j
      /\ \A q \in Processes \ {p} : job'[q] = job[q]
  BY <1>2, <1>5 DEF IInv, TypeOK, j
<1>9. /\ pc' \in [Processes -> Steps] /\ pc'[p] = "image"
      /\ \A q \in Processes \ {p} : pc'[q] = pc[q]
  BY <1>1, GoIs DEF Steps
<1>10. /\ last' \in [BuildIds -> Processes \union {None}] /\ last'[id] = p
       /\ \A x \in BuildIds \ {id} : last'[x] = last[x]
  BY <1>2 DEF IInv, TypeOK
<1>11. TypeOK'
  BY <1>1, <1>3, <1>8, <1>9, <1>10 DEF IInv, TypeOK
<1>12. ContentInv'
  BY <1>1, <1>8, <1>9, ContentFrame
<1>13. ProcessInv(p)'
  <2>1. \A k \in Names \ ToSet(job'[p].todo) : Kept(p, k)'
    BY <1>7, <1>8 DEF Names
  <2> QED
    BY <1>4, <1>6, <1>7, <1>8, <1>9, <1>10, <2>1
       DEF ProcessInv, EndedLast, BuildInv, Building, Snapshotting
<1>14. ASSUME NEW q \in Processes, q # p PROVE ProcessInv(q)'
  <2>1. pc'[q] = pc[q] /\ job'[q] = job[q] /\ ProcessInv(q)
    BY <1>8, <1>9, <1>14 DEF IInv
  <2>2. CASE pc[q] # "idle"
    <3>1. BuildInv(q) /\ job[q].id \in BuildIds \ {id}
      BY <1>2, <2>2, RunningIs
    <3> QED
      BY <1>1, <1>10, <2>1, <2>2, <3>1
         DEF ProcessInv, EndedLast, BuildInv, Kept, Snapshot, Key, Now
  <2>3. CASE pc[q] = "idle"
    <3>1. EndedLast(q)' => EndedLast(q)
      <4> SUFFICES ASSUME EndedLast(q)' PROVE EndedLast(q)
        OBVIOUS
      <4>1. job[q] # None /\ last'[job[q].id] = q /\ crashes = 0
        BY <1>1, <2>1 DEF EndedLast
      <4>2. job[q].id \in BuildIds
        BY <4>1 DEF IInv, TypeOK, Jobs
      <4>3. job[q].id # id
        BY <1>10, <1>14, <4>1
      <4> QED
        BY <1>10, <2>3, <4>1, <4>2, <4>3 DEF EndedLast
    <3> QED
      BY <1>1, <2>1, <2>3, <3>1 DEF ProcessInv, EndInv
  <2> QED
    BY <2>2, <2>3
<1> QED
  BY <1>11, <1>12, <1>13, <1>14 DEF IInv

\* Nothing that the processes know changes.
LEMMA UntouchedKeeps ==
  ASSUME IInv, UNCHANGED <<shared, pc, job, attempts, crashes, hist>>,
         source' \in Versions, recipe' \in 1 .. MaxRecipes
  PROVE  IInv'
<1>1. UNCHANGED <<images, outputs, caches, preserved, snapshots, contents, locks, metadata, pc, job,
                  attempts, crashes, last, runsOf>>
  BY DEF shared, hist
<1>2. TypeOK'
  BY <1>1 DEF IInv, TypeOK
<1>3. ContentInv'
  BY <1>1 DEF IInv, ContentInv, Pending, Key, Now
<1>4. ASSUME NEW p \in Processes PROVE ProcessInv(p)'
  <2>1. ProcessInv(p)
    BY DEF IInv
  <2>2. pc[p] # "idle" => BuildInv(p)'
    BY <1>1, <2>1 DEF ProcessInv, BuildInv, Kept, Snapshot, Key, Now
  <2>3. EndedLast(p)' => EndInv(p)'
    BY <1>1, <2>1 DEF ProcessInv, EndedLast, EndInv
  <2> QED
    BY <1>1, <2>2, <2>3 DEF ProcessInv
<1> QED
  BY <1>2, <1>3, <1>4 DEF IInv

\* The source or a recipe is edited.
LEMMA EditKeeps ==
  ASSUME IInv, Edit
  PROVE  IInv'
<1>1. source \in Versions /\ recipe \in 1 .. MaxRecipes
  BY DEF IInv, TypeOK
<1>2. {MaxVersions, MaxRecipes} \subseteq Nat
  BY TargetBuildAssumption
<1>3. source' \in Versions /\ recipe' \in 1 .. MaxRecipes
  BY <1>1, <1>2 DEF Edit, Versions
<1> QED
  BY <1>3, UntouchedKeeps DEF Edit

\* The initial state satisfies the invariant.
LEMMA InitIInv == Init => IInv
<1> SUFFICES ASSUME Init PROVE IInv
  OBVIOUS
<1>1. 1 \in Versions /\ 1 \in 1 .. MaxRecipes /\ 0 \in 0 .. MaxRecipes /\ 0 \in 0 .. MaxAttempts
      /\ 0 \in 0 .. MaxCrashes
  BY TargetBuildAssumption DEF Versions
<1>2. TypeOK
  BY <1>1 DEF Init, TypeOK, Steps
<1>3. ContentInv
  BY DEF Init, ContentInv
<1>4. \A p \in Processes : ProcessInv(p)
  BY DEF Init, ProcessInv, EndedLast
<1> QED
  BY <1>2, <1>3, <1>4 DEF IInv

\* The invariant is inductive.
LEMMA NextIInv == IInv /\ [Next]_vars => IInv'
<1> SUFFICES ASSUME IInv, [Next]_vars PROVE IInv'
  OBVIOUS
<1>1. ASSUME NEW p \in Processes, Begin(p) PROVE IInv'
  BY <1>1, BeginKeeps
<1>2. ASSUME NEW p \in Processes, BuildStep(p) PROVE IInv'
  BY <1>2, TargetImageKeeps, ComposeBuildKeeps, RunBuilderKeeps, TagBuilderKeeps, BuildFailsKeeps,
     SnapshotLockKeeps, SnapshotReuseKeeps, SnapshotCommitKeeps, SnapshotFailsKeeps,
     SnapshotTagKeeps, RollbackKeeps, WriteMetadataKeeps DEF BuildStep
<1>3. ASSUME NEW p \in Processes, Crash(p) PROVE IInv'
  BY <1>3, CrashKeeps
<1>4. CASE Edit
  BY <1>4, EditKeeps
<1>5. CASE UNCHANGED vars
  <2>1. UNCHANGED <<source, recipe>> /\ UNCHANGED <<shared, pc, job, attempts, crashes, hist>>
    BY <1>5 DEF vars
  <2>2. source' \in Versions /\ recipe' \in 1 .. MaxRecipes
    BY <2>1 DEF IInv, TypeOK
  <2> QED
    BY <2>1, <2>2, UntouchedKeeps
<1> QED
  BY <1>1, <1>2, <1>3, <1>4, <1>5 DEF Next

\* The inductive invariant holds of every behaviour.
THEOREM SpecIInv == Spec => []IInv
BY InitIInv, NextIInv, PTL DEF Spec

\* The lock of the content (_snapshot_one) serializes the runs for it: without crashes there
\* is one, with them at most one more for each.
THEOREM SpecOneSnapshotPerContent == Spec => []OneSnapshotPerContent
<1>1. IInv => OneSnapshotPerContent
  BY DEF IInv, ContentInv, OneSnapshotPerContent
<1> QED
  BY <1>1, SpecIInv, PTL

\* All or nothing (_create_incremental_snapshots): a build that writes its metadata has all its
\* snapshots, of its own source, and a build that failed has left none.
THEOREM SpecSnapshotsAreSound == Spec => []SnapshotsAreSound
<1>1. IInv => SnapshotsAreSound
  <2> SUFFICES ASSUME IInv PROVE SnapshotsAreSound
    OBVIOUS
  <2>1. ASSUME NEW p \in Processes, pc[p] = "write", job[p].incremental
        PROVE  \A k \in Names \union job[p].committed : Snapshot(p, k)
    BY <2>1, RunningIs DEF BuildInv
  <2>2. SnapshotsComplete
    BY <2>1 DEF SnapshotsComplete, IInv, ProcessInv, EndInv, Snapshot
  <2>3. SnapshotsOfSource
    BY <2>1 DEF SnapshotsOfSource, Snapshot
  <2> QED
    BY <2>2, <2>3 DEF SnapshotsAreSound, IInv
<1> QED
  BY <1>1, SpecIInv, PTL

\* Builders are kept for the sidecar of a build without snapshots, and for no other
\* (_cleanup_preserved_builders).
THEOREM SpecNoBuildersLeft == Spec => []NoBuildersLeft
<1>1. IInv => NoBuildersLeft
  BY DEF IInv, ProcessInv, EndInv, NoBuildersLeft
<1> QED
  BY <1>1, SpecIInv, PTL

=============================================================================
