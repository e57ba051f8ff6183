-------------------------------- MODULE Rates ---------------------------------
(***************************************************************************)
(* What compute_disk_stats and compute_net_stats do with a stored and a    *)
(* fresh snapshot.  Both have the same shape, over four counters for disks *)
(* and two for network interfaces: a Field is one of these counters.       *)
(*                                                                         *)
(* The code divides a difference of counters by a difference of Instants;  *)
(* a rate is kept here as that pair, because what can go wrong is the pair *)
(* and not the division.                                                   *)
(***************************************************************************)
EXTENDS Naturals

CONSTANT Field

(* Variant: plain subtraction. *)
PlainSub(a, b) == a - b

(* u64::saturating_sub, and Instant::duration_since, which saturates at 0 too. *)
SaturatingSub(a, b) == IF a >= b THEN a - b ELSE 0

ZeroCounters == [f \in Field |-> 0]

(* DiskSnapshot::default() and NetSnapshot::default(): zero counters, and
   the Instant at which MetricsState was built, the origin of time here. *)
DefaultSnapshot == [counters |-> ZeroCounters, at |-> 0]

ZeroRate == [delta |-> ZeroCounters, secs |-> 0]

Deltas(prev, curr) == [f \in Field |-> SaturatingSub(curr[f], prev.counters[f])]

ComputeStats(prev, curr, now) ==
    IF SaturatingSub(now, prev.at) = 0
    THEN ZeroRate
    ELSE [delta |-> Deltas(prev, curr), secs |-> SaturatingSub(now, prev.at)]

SnapshotOver(Counts, Times) == [counters : [Field -> Counts], at : Times]

RateOver(Counts, Times) == [delta : [Field -> Counts], secs : Times]
===============================================================================
