-------------------------- MODULE LatencyHistogram --------------------------
(***************************************************************************)
(* From a measured latency to a Prometheus bucket: the log2 slot the eBPF  *)
(* programs count a latency in (bpf/headers/bits.bpf.h and the end of      *)
(* every completion handler), and SlotsToConstHistogram of                 *)
(* pkg/ebpf/histogram.go, which turns the slots into the count, sum and    *)
(* cumulative buckets that are exported.  Beside it, the histogram QEMU    *)
(* keeps of the same operations, and ConvertBuckets of                     *)
(* pkg/qmp/collector.go, which exports that one.                           *)
(*                                                                         *)
(* A latency is hi * 2^32 + lo whole microseconds and frac nanoseconds;    *)
(* the 64-bit word is kept in two halves because its upper half decides    *)
(* which branch of log2l is taken.  Bucket boundaries are in microseconds. *)
(***************************************************************************)
EXTENDS Integers, Sequences, FiniteSets, FiniteSetsExt

CONSTANTS
    Latencies,     \* the latencies that may be measured
    Boundaries,    \* the bucket boundaries, in the order they are configured in
    MaxSlots,      \* MAX_SLOTS of common.h, MaxSlots of histogram.go
    MaxSamples     \* bound: number of operations measured

(* Pow2[n] is 1 << n. *)
Pow2[n \in Nat] == IF n = 0 THEN 1 ELSE 2 * Pow2[n - 1]

Word32 == {v \in Nat : v \div 65536 < 65536}

Latency == [hi : Word32, lo : Word32, frac : 0..999]

ASSUME HistogramAssumption ==
    /\ Latencies \subseteq Latency
    /\ Boundaries \in Seq(Nat)
    /\ MaxSlots \in 1..32
    /\ MaxSamples \in Nat

Slots == 0..(MaxSlots - 1)

(* The cumulative of the loops over the slots and over the bins, after     *)
(* each of their iterations.                                               *)
RunningTotal(f) ==
    LET total[i \in DOMAIN f] == IF i = 0 THEN f[0] ELSE total[i - 1] + f[i]
    IN  total
-----------------------------------------------------------------------------
(* Mutant: the mask of the first test lacks a digit. *)
log2WrongMask(v) ==
    LET s4 == IF v > 4095 THEN 16 ELSE 0
        v4 == v \div Pow2[s4]
        s3 == IF v4 > 255 THEN 8 ELSE 0
        v3 == v4 \div Pow2[s3]
        s2 == IF v3 > 15 THEN 4 ELSE 0
        v2 == v3 \div Pow2[s2]
        s1 == IF v2 > 3 THEN 2 ELSE 0
        v1 == v2 \div Pow2[s1]
    IN  s4 + s3 + s2 + s1 + v1 \div 2

(* log2 of bits.bpf.h: a binary search for the highest bit of a 32-bit word. *)
log2(v) ==
    LET s4 == IF v > 65535 THEN 16 ELSE 0
        v4 == v \div Pow2[s4]
        s3 == IF v4 > 255 THEN 8 ELSE 0
        v3 == v4 \div Pow2[s3]
        s2 == IF v3 > 15 THEN 4 ELSE 0
        v2 == v3 \div Pow2[s2]
        s1 == IF v2 > 3 THEN 2 ELSE 0
        v1 == v2 \div Pow2[s1]
    IN  s4 + s3 + s2 + s1 + v1 \div 2

log2l(hi, lo) == IF hi # 0 THEN log2(hi) + 32 ELSE log2(lo)

(* The slot of a latency: whole microseconds, at least one, and the last   *)
(* slot takes what lies beyond.                                            *)
SlotOf(l) ==
    LET lo   == IF l.hi = 0 /\ l.lo = 0 THEN 1 ELSE l.lo
        slot == log2l(l.hi, lo)
    IN  IF slot >= MaxSlots THEN MaxSlots - 1 ELSE slot
-----------------------------------------------------------------------------
(* slotCeiling, in microseconds. *)
slotCeiling(i) == Pow2[i]

HistCount(slots) == RunningTotal(slots)[MaxSlots - 1]

(* Mutant: a slot whose ceiling is the boundary itself is left out. *)
HistBucketStrict(slots, b) ==
    LET below == {i \in Slots : slotCeiling(i) < b}
    IN  IF below = {} THEN 0 ELSE RunningTotal(slots)[Max(below)]

(* The bucket of boundary b: the running total up to the last slot whose   *)
(* ceiling is not above b.                                                 *)
HistBucket(slots, b) ==
    LET below == {i \in Slots : slotCeiling(i) <= b}
    IN  IF below = {} THEN 0 ELSE RunningTotal(slots)[Max(below)]

(* Mutant: the midpoint of the next slot. *)
MidpointOfNext(i) == IF i = 0 THEN 5 ELSE Pow2[i] * 14

(* What an operation of slot i adds to the sum, in tenths of a             *)
(* microsecond, with 14/10 for the square root of two.                     *)
MidpointTenths(i) == IF i = 0 THEN 5 ELSE Pow2[i - 1] * 14

HistSumTenths(slots) == RunningTotal([i \in Slots |-> slots[i] * MidpointTenths(i)])[MaxSlots - 1]
-----------------------------------------------------------------------------
(* The boundaries block-latency-histogram-set takes: positive and in order. *)
Accepted == \A i \in 1..Len(Boundaries) : Boundaries[i] > IF i = 1 THEN 0 ELSE Boundaries[i - 1]

(* A latency of less than b microseconds. *)
Below(l, b) == l.hi = 0 /\ l.lo < b

(* The bin QEMU counts a latency in: the first takes those below the first *)
(* boundary, the next those from there to below the second, and the last,  *)
(* which has no boundary, the rest.                                        *)
InBin(l, i) ==
    /\ i = 0 \/ ~Below(l, Boundaries[i])
    /\ i = Len(Boundaries) \/ Below(l, Boundaries[i + 1])

Bins(sample) == [i \in 0..Len(Boundaries) |-> Cardinality({k \in DOMAIN sample : InBin(sample[k], i)})]

(* Mutant: a bucket gets the total before its own bin is added. *)
CumulativeLate(bins) ==
    LET total == RunningTotal(bins)
    IN  [buckets |-> [i \in 1..Len(Boundaries) |-> IF i = 1 THEN 0 ELSE total[i - 2]], count |-> total[Len(Boundaries)]]

(* ConvertBuckets: each boundary gets the bins up to its own; the last bin *)
(* is in the count only.                                                   *)
ConvertBuckets(bins) ==
    LET total == RunningTotal(bins)
    IN  [buckets |-> [i \in 1..Len(Boundaries) |-> total[i - 1]], count |-> total[Len(Boundaries)]]
-----------------------------------------------------------------------------
VARIABLES
    slots,     \* struct hist: operations counted in each slot
    seen       \* the true latencies of the operations measured so far

vars == <<slots, seen>>

Init ==
    /\ slots = [i \in Slots |-> 0]
    /\ seen = <<>>

(* The end of a completion handler. *)
Record(l) ==
    /\ Len(seen) < MaxSamples
    /\ slots' = [slots EXCEPT ![SlotOf(l)] = @ + 1]
    /\ seen' = Append(seen, l)

Next == \E l \in Latencies : Record(l)

Spec == Init /\ [][Next]_vars
-----------------------------------------------------------------------------
(* The operations that took less than b microseconds, that took exactly b, *)
(* and that took at most b.                                                *)
LessThan(b) == {k \in DOMAIN seen : Below(seen[k], b)}
Exactly(b) == {k \in DOMAIN seen : seen[k].hi = 0 /\ seen[k].lo = b /\ seen[k].frac = 0}
AtMost(b) == LessThan(b) \cup Exactly(b)

(* What the QMP histogram says of the same operations: le= means at most   *)
(* the boundary, and a bucket lacks just the operations that took exactly  *)
(* that long, which QEMU counts one bin up.  Given the same latencies, the *)
(* QMP and the eBPF histogram agree on the count, and no bucket of the     *)
(* former is above that of the latter.                                     *)
QMPBuckets ==
    Accepted =>
        LET qmp == ConvertBuckets(Bins(seen))
        IN  /\ qmp.count = HistCount(slots)
            /\ \A i \in 1..Len(Boundaries) :
                 LET b == Boundaries[i]
                 IN  /\ qmp.buckets[i] = Cardinality(AtMost(b)) - Cardinality(Exactly(b))
                     /\ qmp.buckets[i] <= HistBucket(slots, b)

(* The error of the log2 slots has one direction and one size: a bucket    *)
(* misses no operation within its boundary, and below the last slot it     *)
(* counts none that took twice the boundary or more.                       *)
BucketsWithinTwofold ==
    \A i \in 1..Len(Boundaries) :
        LET b == Boundaries[i]
        IN  b > 0 =>
              /\ HistBucket(slots, b) >= Cardinality(AtMost(b))
              /\ b < slotCeiling(MaxSlots - 1) => HistBucket(slots, b) <= Cardinality(LessThan(2 * b))

(* The exported sum never exceeds the time the operations really took, and *)
(* is at least a quarter of it, as long as each took at least a            *)
(* microsecond and fitted its slot: took is their whole microseconds, to   *)
(* which each adds less than one.                                          *)
SumWithinFourfold ==
    LET n    == Len(seen)
        took == RunningTotal([k \in 0..n |-> IF k = 0 THEN 0 ELSE seen[k].lo])[n]
    IN  (\A k \in 1..n : seen[k].hi = 0 /\ seen[k].lo >= 1 /\ seen[k].lo < Pow2[MaxSlots]) =>
            /\ HistSumTenths(slots) <= 10 * took
            /\ 10 * (took + n) <= 4 * HistSumTenths(slots)

(* log2l agrees with the definition of the binary logarithm: in the slot   *)
(* of a latency below the cap, 2^slot <= latency < 2^(slot+1).             *)
SlotIsLogarithm ==
    \A k \in DOMAIN seen :
        LET l  == seen[k]
            us == IF l.lo = 0 THEN 1 ELSE l.lo
            i  == SlotOf(l)
        IN  IF l.hi > 0 \/ us >= Pow2[MaxSlots]
            THEN i = MaxSlots - 1
            ELSE Pow2[i] <= us /\ us < Pow2[i + 1]

(* The test "should not count slow operations in small buckets": a bucket  *)
(* counts only operations within its boundary, as le= says and as the name *)
(* slotCeiling, the upper end of a slot, intends.                          *)
BucketsExact ==
    \A i \in 1..Len(Boundaries) : HistBucket(slots, Boundaries[i]) <= Cardinality(AtMost(Boundaries[i]))
=============================================================================
