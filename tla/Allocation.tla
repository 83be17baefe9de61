------------------------------- MODULE Allocation -------------------------------
(***************************************************************************)
(* oss_crs/src/cpuset.py and memory.py: how gen-compose divides a CPU pool *)
(* and an amount of memory among oss_crs_infra and the CRSs.               *)
(*                                                                         *)
(* Entry 0 is oss_crs_infra, the CRSs follow in the order of the compose   *)
(* file.  A pool is the positions 1 .. n of its sorted CPUs.  Memory is    *)
(* counted in a unit of which a megabyte has two.                          *)
(***************************************************************************)
EXTENDS Integers, FiniteSetsExt, Functions

CONSTANTS
  NumCrs,   \* the compose file has CRSs 1 .. NumCrs
  NameRank  \* the order of the entries' names, which breaks ties

ASSUME AllocationAssumption ==
  /\ NumCrs \in Nat \ {0}
  /\ NameRank \in [0 .. NumCrs -> Nat]
  /\ \A e, f \in 0 .. NumCrs : NameRank[e] = NameRank[f] => e = f

Entries == 0 .. NumCrs
CrsEntries == 1 .. NumCrs
Megabyte == 2

Total(amounts) == MapThenSumSet(LAMBDA e : amounts[e], Entries)

\* int(a / total * n): the quotient's floor, or one less when a float falls short of it.
Shares(a, total, n) ==
  LET floor == (a * n) \div total IN
  IF a * n = floor * total /\ floor > 0 THEN {floor, floor - 1} ELSE {floor}

\* Sorted by descending amount, then by name: e comes before f.
Larger(amounts, e, f) ==
  amounts[e] > amounts[f] \/ (amounts[e] = amounts[f] /\ NameRank[e] < NameRank[f])

\* The remainder goes round the CRSs, the largest first.
Extra(amounts, rest, e) ==
  LET place == Cardinality({ f \in CrsEntries : Larger(amounts, f, e) })
  IN IF e = 0 \/ rest <= 0 THEN 0
     ELSE rest \div NumCrs + (IF place < rest % NumCrs THEN 1 ELSE 0)

-----------------------------------------------------------------------------
(* CPUs                                                                     *)

\* MUTANT of Shrunk: an excess is left.
ShrunkNever(counts, excess) == counts
\* The largest entry with more than one CPU loses one, as long as there is an excess.
Shrunk(counts, excess) ==
  LET largest(c) == CHOOSE e \in Entries :
                      c[e] > 1 /\ \A f \in Entries \ {e} : Larger(c, e, f)
      after[n \in Nat] ==
        IF n = 0 THEN counts
        ELSE LET c == after[n - 1] IN [c EXCEPT ![largest(c)] = @ - 1]
  IN after[IF excess > 0 THEN excess ELSE 0]

\* How many CPUs scale_cpusets may give each entry.
ScaledCounts(allocations, pool) ==
  LET total == Total(allocations)
      fits(floors) ==
        LET atLeastOne == [e \in Entries |-> Max({1, floors[e]})]
            scaled == Shrunk(atLeastOne, Total(atLeastOne) - pool)
            rest == pool - Total(scaled)
        IN [e \in Entries |-> scaled[e] + Extra(allocations, rest, e)]
      floors == { f \in [Entries -> 0 .. pool] :
                    \A e \in Entries : f[e] \in Shares(allocations[e], total, pool) }
  IN { fits(f) : f \in floors }

\* default_cpu_allocation: a quarter, at most 4, for the infrastructure.
DefaultCounts(pool) ==
  LET quarter == Min({4, Max({1, pool \div 4})})
      infra == IF pool - quarter < NumCrs THEN pool - NumCrs ELSE quarter
      rest == pool - infra
  IN [e \in Entries |->
        IF e = 0 THEN infra ELSE rest \div NumCrs + (IF e <= rest % NumCrs THEN 1 ELSE 0)]

\* Contiguous slices of the pool, cut at its end.
Slices(counts, pool) ==
  [e \in Entries |->
     LET offset == MapThenSumSet(LAMBDA f : counts[f], 0 .. e - 1)
     IN (offset + 1 .. offset + counts[e]) \cap (1 .. pool)]

-----------------------------------------------------------------------------
(* Memory                                                                   *)

\* Rounded down to a megabyte, and at least one.
Aligned(amount) == Max({Megabyte, (amount \div Megabyte) * Megabyte})

\* What scale_memory may give each entry.
ScaledMemory(allocations, amount) ==
  LET total == Total(allocations)
      given(shares) ==
        LET scaled == [e \in Entries |-> Aligned(shares[e])]
            rest == amount - Total(scaled)
        IN [e \in Entries |->
              scaled[e] + Megabyte * Extra(allocations, rest \div Megabyte, e)]
      shares == { s \in [Entries -> 0 .. amount] :
                    \A e \in Entries : s[e] \in Shares(allocations[e], total, amount) }
  IN { given(s) : s \in shares }

\* default_memory_allocation: a quarter, at most 16 GB, for the infrastructure.
DefaultMemory(amount, gb16) ==
  LET infra == Aligned(Min({gb16, amount \div 4}))
      perCrs == Aligned((amount - infra) \div NumCrs)
      rest == amount - infra - perCrs * NumCrs
  IN [e \in Entries |->
        IF e = 0 THEN infra
        ELSE perCrs + (IF e - 1 < rest \div Megabyte THEN Megabyte ELSE 0)]

=============================================================================
