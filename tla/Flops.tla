------------------------------- MODULE Flops --------------------------------
(***************************************************************************)
(* Dealing the flops to the solver's threads (cfr.cpp, AllocateFlops).     *)
(* A public bucket has a size, the number of flops in it; a thread gets    *)
(* whole buckets.  Pools larger than BigPool are split into clusters of    *)
(* ClusterSize threads, each of which solves all flops.                    *)
(***************************************************************************)
EXTENDS Integers, FiniteSetsExt, SequencesExt

CONSTANTS BigPool, ClusterSize      \* 60 and 30 in the code

PoolAssumption == BigPool \in Nat \ {0} /\ ClusterSize \in Nat \ {0}
ASSUME PoolAssumption

(* A big pool that does not split into clusters ends the program.           *)
AcceptsPool(n) == n >= BigPool => n % ClusterSize = 0

(* Buckets in descending order of size; std::sort may put equal ones in any *)
(* order.                                                                   *)
Descending(sizes) ==
    {order \in [1 .. Cardinality(DOMAIN sizes) -> DOMAIN sizes] :
        /\ \A i, j \in DOMAIN order : i # j => order[i] # order[j]
        /\ \A i, j \in DOMAIN order : i < j => sizes[order[i]] >= sizes[order[j]]}

FlopCount(sizes) == MapThenSumSet(LAMBDA b : sizes[b], DOMAIN sizes)
Cluster(n)       == IF n > BigPool THEN ClusterSize ELSE n
Cap(sizes, n)    == FlopCount(sizes) \div Cluster(n)

First(tally) == 0       \* mutant: idx is not kept up to date
Least(tally) == Min({t \in DOMAIN tally : \A u \in DOMAIN tally : tally[t] <= tally[u]})

FirstFit(tally, size, cap) ==
    LET fits == {t \in DOMAIN tally : tally[t] + size <= cap} IN
    IF fits # {} THEN Min(fits) ELSE Least(tally)

(* One more bucket is dealt: d.tally[t] counts the flops in d.hand[t].      *)
DealBucket(d, b) ==
    LET t == FirstFit(d.tally, d.sizes[b], d.cap) IN
    [d EXCEPT !.tally[t] = @ + d.sizes[b], !.hand[t] = @ \cup {b}]

(* The buckets of each thread of the first cluster, dealt one by one.       *)
NothingDealt(sizes, n) ==
    LET threads == 0 .. Cluster(n) - 1 IN
    [sizes |-> sizes, cap |-> Cap(sizes, n),
     tally |-> [t \in threads |-> 0], hand |-> [t \in threads |-> {}]]

Dealt(sizes, order, n) == FoldLeft(DealBucket, NothingDealt(sizes, n), order).hand

AllocateFlops(sizes, order, n) ==
    IF n = 1 THEN [t \in {0} |-> DOMAIN sizes]
    ELSE LET dealt    == Dealt(sizes, order, n)
             clusters == n \div Cluster(n)
         IN [t \in 0 .. n - 1 |-> IF t < clusters * Cluster(n) THEN dealt[t % Cluster(n)] ELSE {}]
=============================================================================
