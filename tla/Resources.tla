------------------------------- MODULE Resources -------------------------------
(***************************************************************************)
(* The resources of runs: gen-compose divides a pool among the entries of  *)
(* a compose file (Allocation), and oss_crs/src/cgroup.py creates, for     *)
(* each run, a worker cgroup with a limited cgroup per CRS, which Docker   *)
(* puts the CRS's containers into.  When that fails the containers have    *)
(* limits of their own.  Several runs use the machine at once.             *)
(***************************************************************************)
EXTENDS Allocation

CONSTANTS
  Runs,         \* processes of oss-crs run
  RunIdOf,      \* the run id of each
  Templates,    \* the amounts of each entry of a template, or <<>> when it has none
  Pools, Memories, Gb16,  \* what --cpus and --memory give, in CPUs and units; 16 GB in units
  MaxErrors     \* bound: failing cgroup operations and crashes

ASSUME ResourcesAssumption ==
  /\ IsFiniteSet(Runs)
  /\ RunIdOf \in [Runs -> Nat \ {0}]
  /\ Templates \subseteq [Entries -> Nat \ {0}] \union {<<>>}
  /\ Pools \subseteq Nat /\ Memories \subseteq Nat \ {0}
  /\ Gb16 \in Nat /\ MaxErrors \in Nat

VARIABLES
  compose,   \* the compose file, and what gen-compose was asked for
  groups,    \* the worker cgroups: how many files are written in each CRS's cgroup
  created,   \* the number of worker cgroups made so far, which makes their names unique
  at,        \* where each run stands
  made,      \* the worker cgroup it has made
  worker,    \* its worker_cgroup_path: None if not all was created
  running,   \* the CRSs whose containers run
  errors     \* history: errors so far

groupVars == <<groups, created, at, made, worker, running, errors>>
resourceVars == <<compose, groupVars>>

NoFile == [state |-> "none", template |-> <<>>, pool |-> 0, amount |-> 0,
           cpus |-> [e \in Entries |-> {}], memory |-> [e \in Entries |-> 0]]

None == [run |-> 0, number |-> 0]
Names == [run : { RunIdOf[r] : r \in Runs }, number : 1 .. Cardinality(Runs)]

\* cpuset.cpus, memory.max, memory.swap.max and cgroup.subtree_control, written in this order.
Files == 4

\* A file, or a directory, is added.
With(f, x, v) == [y \in DOMAIN f \union {x} |-> IF y = x THEN v ELSE f[y]]
\* How many files of a CRS's cgroup are written.
Written(w, c) == IF w \in DOMAIN groups /\ c \in DOMAIN groups[w] THEN groups[w][c] ELSE 0

ComposeTypeOK ==
  /\ compose.state \in {"none", "refused", "written", "given"}
  /\ compose.template \in Templates \union {<<>>}
  /\ compose.cpus \in [Entries -> SUBSET (1 .. compose.pool)]
  /\ compose.memory \in [Entries -> Nat]

RunTypeOK ==
  /\ DOMAIN groups \subseteq Names
  /\ \A w \in DOMAIN groups : DOMAIN groups[w] \subseteq CrsEntries
                               /\ \A c \in DOMAIN groups[w] : groups[w][c] \in 0 .. Files
  /\ created \in 0 .. Cardinality(Runs) /\ errors \in 0 .. MaxErrors
  /\ at \in [Runs -> {"start", "worker", "crs", "prepare", "up", "down", "clean", "ended", "crashed"}]
  /\ made \in [Runs -> Names \union {None}] /\ worker \in [Runs -> Names \union {None}]
  /\ running \in [Runs -> SUBSET CrsEntries]

ResourceTypeOK == ComposeTypeOK /\ RunTypeOK

ResourceInit ==
  /\ compose \in {NoFile, [NoFile EXCEPT !.state = "given"]}
  /\ groups = [w \in {} |-> <<>>] /\ created = 0
  /\ at = [r \in Runs |-> "start"]
  /\ made = [r \in Runs |-> None] /\ worker = [r \in Runs |-> None]
  /\ running = [r \in Runs |-> {}]
  /\ errors = 0

-----------------------------------------------------------------------------
(* gen-compose                                                              *)

\* The CPUs and the memory of a template are scaled; one that has none gets the defaults.
GenCompose(template, pool, amount) ==
  /\ compose.state = "none"
  /\ \/ pool <= NumCrs /\ compose' = [NoFile EXCEPT !.state = "refused"]
     \/ /\ pool > NumCrs
        /\ \E counts \in IF template = <<>> THEN {DefaultCounts(pool)}
                         ELSE ScaledCounts(template, pool),
              memory \in IF template = <<>> THEN {DefaultMemory(amount, Gb16)}
                         ELSE ScaledMemory(template, amount) :
             compose' = [state |-> "written", template |-> template, pool |-> pool,
                         amount |-> amount, cpus |-> Slices(counts, pool), memory |-> memory]
  /\ UNCHANGED groupVars

-----------------------------------------------------------------------------
(* A run.  Its compose file is given: a generated one differs in numbers.   *)

Goto(r, step) == at' = [at EXCEPT ![r] = step]
Fails == errors < MaxErrors /\ errors' = errors + 1

\* check_cgroup_parent_available: Docker's driver, the delegation, the directory.
CheckCgroups(r) ==
  /\ compose.state = "given"
  /\ at[r] = "start"
  /\ \E available \in BOOLEAN : Goto(r, IF available THEN "worker" ELSE "prepare")
  /\ UNCHANGED <<compose, groups, created, made, worker, running, errors>>

\* MUTANT of WorkerName: the run id alone.
WorkerNameOfRun(r, number) == [run |-> RunIdOf[r], number |-> 1]
\* generate_worker_cgroup_name: the run id, the time and random digits.
WorkerName(r, number) == [run |-> RunIdOf[r], number |-> number]

\* create_worker_cgroup: mkdir with exist_ok, and its controllers.
MakeWorker(r) ==
  LET name == WorkerName(r, created + 1) IN
  /\ at[r] = "worker"
  /\ created' = created + 1
  /\ groups' = IF name \in DOMAIN groups THEN groups
             ELSE With(groups, name, [c \in {} |-> 0])
  /\ made' = [made EXCEPT ![r] = name]
  /\ \/ Goto(r, "crs") /\ UNCHANGED errors
     \/ Goto(r, "prepare") /\ Fails
  /\ UNCHANGED <<compose, worker, running>>

\* create_crs_cgroup for the next CRS, some of it when an operation fails; an OSError makes the
\* run fall back to limits of each container, and it forgets the worker's path.
MakeCrs(r, c, written) ==
  LET name == made[r] IN
  /\ at[r] = "crs" /\ name \in DOMAIN groups
  /\ \A d \in 1 .. c - 1 : d \in DOMAIN groups[name]
  /\ c \notin DOMAIN groups[name]
  /\ groups' = [groups EXCEPT ![name] = With(@, c, written)]
  /\ IF written = Files
       THEN /\ IF c = NumCrs
                 THEN Goto(r, "prepare") /\ worker' = [worker EXCEPT ![r] = name]
                 ELSE UNCHANGED <<at, worker>>
            /\ UNCHANGED errors
       ELSE Goto(r, "prepare") /\ Fails /\ UNCHANGED worker
  /\ UNCHANGED <<compose, created, made, running>>

\* docker compose up.  With a cgroup parent that does not exist Docker makes one, without limits.
ComposeUp(r) ==
  LET name == worker[r] IN
  /\ at[r] = "prepare"
  /\ running' = [running EXCEPT ![r] = CrsEntries]
  /\ groups' = IF name = None THEN groups
               ELSE With(groups, name, [c \in CrsEntries |-> Written(name, c)])
  /\ Goto(r, "up")
  /\ UNCHANGED <<compose, created, made, worker, errors>>

\* The containers end; docker compose down, which may leave some.
Exit(r, c) ==
  /\ at[r] \in {"up", "ended", "crashed"} /\ c \in running[r]
  /\ running' = [running EXCEPT ![r] = @ \ {c}]
  /\ UNCHANGED <<compose, groups, created, at, made, worker, errors>>
ComposeDown(r) ==
  /\ at[r] = "up"
  /\ \/ running' = [running EXCEPT ![r] = {}] /\ UNCHANGED errors
     \/ Fails /\ UNCHANGED running
  /\ Goto(r, IF worker[r] = None THEN "ended" ELSE "clean")
  /\ UNCHANGED <<compose, groups, created, made, worker>>

InUse(w, c) == \E r \in Runs : worker[r] = w /\ c \in running[r]

\* MUTANT of CleanCrs: the worker is removed alone, which fails while it has children.
CleanWorkerOnly(r) ==
  /\ at[r] = "clean" /\ worker[r] \in DOMAIN groups
  /\ groups[worker[r]] # <<>>
  /\ Goto(r, "ended") /\ UNCHANGED <<compose, groups, created, made, worker, running, errors>>
\* cleanup_cgroup: the children first, the last one by name first; one whose processes still run
\* makes it give up.
CleanCrs(r) ==
  LET name == worker[r] IN
  /\ at[r] = "clean" /\ name \in DOMAIN groups
  /\ \E c \in DOMAIN groups[name] :
       /\ \A d \in DOMAIN groups[name] : NameRank[d] <= NameRank[c]
       /\ IF InUse(name, c) THEN Goto(r, "ended") /\ UNCHANGED groups
          ELSE /\ groups' = [groups EXCEPT ![name] =
                               [d \in DOMAIN groups[name] \ {c} |-> groups[name][d]]]
               /\ UNCHANGED at
  /\ UNCHANGED <<compose, created, made, worker, running, errors>>
CleanWorker(r) ==
  LET name == worker[r] IN
  /\ at[r] = "clean"
  /\ name \in DOMAIN groups => DOMAIN groups[name] = {}
  /\ groups' = [w \in DOMAIN groups \ {name} |-> groups[w]]
  /\ Goto(r, "ended")
  /\ UNCHANGED <<compose, created, made, worker, running, errors>>

\* The process is killed, or an interrupt that nothing catches ends it (see ComposeRun).
Crash(r) ==
  /\ at[r] \notin {"start", "ended", "crashed"} /\ Fails
  /\ Goto(r, "crashed")
  /\ UNCHANGED <<compose, groups, created, made, worker, running>>

RunStep(r) ==
  \/ CheckCgroups(r) \/ MakeWorker(r) \/ ComposeUp(r) \/ ComposeDown(r)
  \/ CleanCrs(r) \/ CleanWorker(r)
  \/ \E c \in CrsEntries, written \in 0 .. Files : MakeCrs(r, c, written)

ResourceNext ==
  \/ \E t \in Templates, p \in Pools, m \in Memories : GenCompose(t, p, m)
  \/ \E r \in Runs : RunStep(r) \/ Crash(r) \/ \E c \in CrsEntries : Exit(r, c)

ResourceSpec == ResourceInit /\ [][ResourceNext]_resourceVars

-----------------------------------------------------------------------------
(* Properties                                                               *)

\* What gen-compose writes divides the pool: every entry has a CPU, none is shared and none is
\* left, however the shares were rounded.
PoolIsDivided ==
  compose.state = "written" =>
    /\ \A e \in Entries : compose.cpus[e] # {}
    /\ \A e, f \in Entries : e # f => compose.cpus[e] \cap compose.cpus[f] = {}
    /\ UNION { compose.cpus[e] : e \in Entries } = 1 .. compose.pool

\* The memory of the entries fits into the amount, unless the megabyte each entry has at least
\* does not: one with more than a megabyte for its share leaves room for the others.
MemoryFits ==
  compose.state = "written" /\ (\A e \in Entries : compose.memory[e] > Megabyte) =>
    Total(compose.memory) <= compose.amount

\* What gen-compose writes can be used by every entry at once.
AllocationIsSound == ResourceTypeOK /\ PoolIsDivided /\ MemoryFits

\* Containers with a cgroup parent run in a cgroup all of whose limits were written, and that
\* no other run has removed: worker cgroups are not shared, not even between runs of one id.
LimitsInForce ==
  \A r \in Runs : worker[r] # None =>
    \A c \in running[r] : worker[r] \in DOMAIN groups /\ c \in DOMAIN groups[worker[r]]
                           /\ groups[worker[r]][c] = Files

\* A run that ends leaves no cgroup, unless creating it failed, containers were left in it or
\* the process was killed.
NoGroupIsLeft ==
  \A r \in Runs : at[r] = "ended" /\ worker[r] # None /\ errors = 0 =>
    worker[r] \notin DOMAIN groups

=============================================================================
