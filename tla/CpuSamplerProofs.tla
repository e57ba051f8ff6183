---------------------------- MODULE CpuSamplerProofs ----------------------------
(***************************************************************************)
(* Proofs about CpuSampler, for every number of CPUs, ticks, hotplug       *)
(* events, corrections and failed reads.                                   *)
(***************************************************************************)
EXTENDS CpuSampler, SharedLemmas

Times == [Kind -> Nat]
MachineState == [spent : [Cpu -> Times], online : SUBSET Cpu, plugs : Nat, corrections : Nat]

Column(times, k) == [c \in Cpu |-> times[c][k]]

(* The iowait time of all CPUs. *)
Iowait(times) == SumFunctionOnSet(Column(times, "iowait"), Cpu)

(* What may have happened between the machine states m and n: only iowait time
   goes back, on all CPUs together by no more than there were corrections. *)
Later(m, n) ==
    /\ m.corrections <= n.corrections
    /\ \A c \in Cpu, k \in Kind \ {"iowait"} : m.spent[c][k] <= n.spent[c][k]
    /\ Iowait(m.spent) <= Iowait(n.spent) + (n.corrections - m.corrections)
    /\ m.corrections = n.corrections =>
          \A c \in Cpu, k \in Kind : m.spent[c][k] <= n.spent[c][k]
    /\ m.plugs <= n.plugs
    /\ m.plugs = n.plugs => m.online = n.online

(* What a reading of the machine m gives: its lines, or none if it failed. *)
Reading(m) == {<<>>, StatLines(m.spent, m.online)}

MachineInv ==
    /\ ticks \in 0 .. MaxTicks
    /\ spent \in [Cpu -> [Kind -> 0 .. ticks]]
    /\ online \subseteq Cpu
    /\ plugs \in 0 .. MaxPlugs
    /\ corrections \in 0 .. MaxCorrections
    /\ faults \in 0 .. MaxFaults

SamplerInv ==
    /\ pc \in {"idle", "sleep", "answered"}
    /\ pc # "sleep" => before = <<>>
    /\ pc = "sleep" =>
          first \in MachineState /\ Later(first, Machine) /\ before \in Reading(first)
    /\ pc # "answered" => stats = NoStats
    /\ pc = "answered" =>
          /\ first \in MachineState /\ second \in MachineState /\ Later(first, second)
          /\ \E b \in Reading(first), a \in Reading(second) : stats = ComputeStats(b, a)

IInv == MachineInv /\ SamplerInv

-------------------------------------------------------------------------------
(* The n-th CPU that is online. *)

LEMMA CpuFacts ==
    /\ Cpu \subseteq Nat /\ IsFiniteSet(Cpu) /\ Cardinality(Cpu) = NumCpus
    /\ NumCpus \in Nat /\ NumCpus > 0
BY CpuAssumption, FS_Interval DEF Cpu

LEMMA OnlineFacts ==
    ASSUME NEW cpus \in SUBSET Cpu
    PROVE  /\ IsFiniteSet(cpus) /\ Cardinality(cpus) \in Nat /\ Cardinality(cpus) <= NumCpus
           /\ \A c \in Nat : /\ IsFiniteSet(cpus \cap 0 .. c)
                             /\ Cardinality(cpus \cap 0 .. c) \in Nat
                             /\ Cardinality(cpus \cap 0 .. c) <= Cardinality(cpus)
<1>1. IsFiniteSet(cpus) /\ Cardinality(cpus) \in Nat /\ Cardinality(cpus) <= NumCpus
  BY CpuFacts, FS_Subset, FS_CardinalityType
<1>2. ASSUME NEW c \in Nat
      PROVE  /\ IsFiniteSet(cpus \cap 0 .. c)
             /\ Cardinality(cpus \cap 0 .. c) \in Nat
             /\ Cardinality(cpus \cap 0 .. c) <= Cardinality(cpus)
  BY <1>1, FS_Intersection, FS_CardinalityType
<1> QED
  BY <1>1, <1>2

(* Of two online CPUs, the one with the higher number has more online at or below it. *)
LEMMA MoreBelow ==
    ASSUME NEW cpus \in SUBSET Cpu, NEW c \in cpus, NEW d \in cpus, c < d
    PROVE  Cardinality(cpus \cap 0 .. c) < Cardinality(cpus \cap 0 .. d)
<1> DEFINE low == cpus \cap 0 .. c
           high == cpus \cap 0 .. d
<1>1. c \in Nat /\ d \in Nat
  BY CpuFacts
<1>2. low \in SUBSET high /\ d \in high /\ d \notin low
  BY <1>1
<1>3. IsFiniteSet(high) /\ Cardinality(high) \in Nat /\ Cardinality(low) \in Nat
  BY <1>1, OnlineFacts
<1>4. Cardinality(low) <= Cardinality(high) /\ Cardinality(low) # Cardinality(high)
  <2> HIDE DEF low, high
  <2> QED
    BY <1>2, <1>3, FS_Subset
<1> QED
  BY <1>3, <1>4

(* There is one such CPU for each number up to how many are online. *)
LEMMA NthExists ==
    ASSUME NEW cpus \in SUBSET Cpu, NEW i \in 1 .. Cardinality(cpus)
    PROVE  \E c \in cpus : Cardinality(cpus \cap 0 .. c) = i
<1> DEFINE T == {n \in Nat : Cardinality(cpus \cap 0 .. n) >= i}
<1>1. /\ Cardinality(cpus) \in Nat
      /\ \A n \in Nat : /\ IsFiniteSet(cpus \cap 0 .. n)
                        /\ Cardinality(cpus \cap 0 .. n) \in Nat
  BY OnlineFacts
<1>2. NumCpus \in T
  <2>1. \A c \in cpus : c \in 0 .. NumCpus
    <3>1. \A c \in Cpu : c \in 0 .. NumCpus
      BY CpuFacts DEF Cpu
    <3> QED
      BY <3>1
  <2>2. cpus \cap 0 .. NumCpus = cpus
    BY <2>1
  <2> QED
    BY <1>1, <2>2, CpuFacts
<1>3. PICK n \in T : \A m \in T : n <= m
  <2>1. T \in SUBSET Nat /\ T # {}
    BY <1>2
  <2> HIDE DEF T
  <2> QED
    BY <2>1, LeastNumber
<1> DEFINE upto == cpus \cap 0 .. n
           below == cpus \cap 0 .. n - 1
<1>4. n \in Nat /\ IsFiniteSet(upto) /\ Cardinality(upto) \in Nat /\ Cardinality(upto) >= i
  BY <1>1, <1>3
<1>5. IsFiniteSet(below) /\ Cardinality(below) \in Nat /\ Cardinality(below) < i
  <2>1. CASE n = 0
    <3>1. below = {}
      BY <2>1
    <3> QED
      BY <3>1, FS_EmptySet
  <2>2. CASE n # 0
    <3>1. n - 1 \in Nat /\ n - 1 \notin T
      BY <1>3, <1>4, <2>2
    <3>2. IsFiniteSet(below) /\ Cardinality(below) \in Nat
      BY <1>1, <3>1
    <3>3. ~ (Cardinality(below) >= i)
      BY <3>1
    <3> QED
      BY <1>1, <3>2, <3>3
  <2> QED
    BY <2>1, <2>2
<1>6. upto = below \/ (n \in cpus /\ n \notin below /\ upto = below \cup {n})
  <2>1. 0 .. n = (0 .. n - 1) \cup {n} /\ n \notin 0 .. n - 1
    BY <1>4
  <2> QED
    BY <2>1
<1>7. n \in cpus /\ Cardinality(upto) = Cardinality(below) + 1
  <2> HIDE DEF upto, below
  <2> QED
    BY <1>4, <1>5, <1>6, FS_AddElement
<1>8. Cardinality(upto) = i
  <2> HIDE DEF upto, below
  <2> QED
    BY <1>4, <1>5, <1>7
<1> QED
  BY <1>7, <1>8

LEMMA NthFacts ==
    ASSUME NEW cpus \in SUBSET Cpu, NEW i \in 1 .. Cardinality(cpus)
    PROVE  /\ NthCpu(cpus, i) \in cpus
           /\ Cardinality(cpus \cap 0 .. NthCpu(cpus, i)) = i
BY NthExists DEF NthCpu

LEMMA NthUnique ==
    ASSUME NEW cpus \in SUBSET Cpu, NEW c \in cpus
    PROVE  /\ Cardinality(cpus \cap 0 .. c) \in 1 .. Cardinality(cpus)
           /\ NthCpu(cpus, Cardinality(cpus \cap 0 .. c)) = c
<1> DEFINE i == Cardinality(cpus \cap 0 .. c)
           d == NthCpu(cpus, i)
<1>1. c \in Nat /\ i \in Nat /\ i <= Cardinality(cpus) /\ Cardinality(cpus) \in Nat
  BY OnlineFacts, CpuFacts
<1>2. i # 0
  <2>1. c \in cpus \cap 0 .. c
    BY <1>1
  <2> QED
    BY <1>1, <2>1, FS_EmptySet, OnlineFacts
<1>3. i \in 1 .. Cardinality(cpus)
  BY <1>1, <1>2
<1>4. d \in cpus /\ Cardinality(cpus \cap 0 .. d) = i
  <2> HIDE DEF i
  <2> QED
    BY <1>3, NthFacts
<1>5. d \in Nat
  BY <1>4, CpuFacts
<1> HIDE DEF d
<1>6. ~ (c < d) /\ ~ (d < c)
  <2>1. c < d => Cardinality(cpus \cap 0 .. c) < Cardinality(cpus \cap 0 .. d)
    BY <1>4, MoreBelow
  <2>2. d < c => Cardinality(cpus \cap 0 .. d) < Cardinality(cpus \cap 0 .. c)
    BY <1>4, MoreBelow
  <2> QED
    BY <1>1, <1>4, <2>1, <2>2
<1>7. d = c
  BY <1>1, <1>5, <1>6
<1> QED
  BY <1>3, <1>7 DEF d

(* A CPU with the same CPUs online at or below it has the same place in both. *)
LEMMA NthInBoth ==
    ASSUME NEW cpus \in SUBSET Cpu, NEW others \in SUBSET Cpu,
           NEW i \in 1 .. Cardinality(cpus),
           others \cap 0 .. NthCpu(cpus, i) = cpus \cap 0 .. NthCpu(cpus, i)
    PROVE  NthCpu(others, i) = NthCpu(cpus, i)
<1> DEFINE c == NthCpu(cpus, i)
<1>1. c \in cpus /\ Cardinality(cpus \cap 0 .. c) = i /\ c \in Nat
  BY NthFacts, CpuFacts
<1> HIDE DEF c
<1>2. c \in 0 .. c
  BY <1>1
<1>3. c \in others /\ Cardinality(others \cap 0 .. c) = i
  BY <1>1, <1>2 DEF c
<1> QED
  BY <1>3, NthUnique DEF c

(* With all CPUs online, the line behind the first is that of CPU 0. *)
LEMMA NthOfAll ==
    ASSUME NEW i \in 1 .. NumCpus
    PROVE  NthCpu(Cpu, i) = i - 1
<1>1. i - 1 \in Cpu /\ i - 1 \in Nat
  BY CpuFacts DEF Cpu
<1>2. Cpu \cap 0 .. i - 1 = 0 .. i - 1
  BY <1>1, CpuFacts DEF Cpu
<1>3. Cardinality(0 .. i - 1) = i
  BY FS_Interval
<1> QED
  BY <1>1, <1>2, <1>3, NthUnique

-------------------------------------------------------------------------------
(* One line and another: what delta_percents returns. *)

LEMMA DeltaType ==
    ASSUME NEW b \in Times, NEW a \in Times
    PROVE  DeltaPercents(b, a) \in Load
<1>1. \A k \in Kind : b[k] \in Nat /\ a[k] \in Nat
  BY DEF Times
<1>2. \A t \in {b, a} : Total(t) \in Nat /\ IdleTotal(t) \in Nat
  BY <1>1 DEF Total, IdleTotal, Kind
<1>3. \A x, y \in Nat : SaturatingSub(x, y) \in Nat
  BY DEF SaturatingSub
<1>4. /\ SaturatingSub(Total(a), Total(b)) \in Nat
      /\ SaturatingSub(IdleTotal(a), IdleTotal(b)) \in Nat
      /\ SaturatingSub(a["user"], b["user"]) \in Nat
      /\ SaturatingSub(a["system"], b["system"]) \in Nat
  BY <1>1, <1>2, <1>3 DEF Kind
<1>5. NoLoad \in Load
  BY DEF NoLoad, Load
<1> QED
  BY <1>4, <1>5 DEF DeltaPercents, Load

(* A share of which user and system time are disjoint parts, but for n ticks. *)
IsShareBut(l, n) ==
    /\ 0 <= l.load /\ l.load <= l.of
    /\ l.user + l.sys <= l.load + n

LEMMA NoLoadFacts == NoLoad \in Load /\ IsShare(NoLoad) /\ IsShareBut(NoLoad, 0) /\ NoLoad.of = 0
BY DEF NoLoad, Load, IsShare, IsShareBut

(* Time that is neither idle nor iowait. *)
Busy(t) == t["user"] + t["system"] + t["steal"]

(* When no column has gone back, the load is the busy time, of all the time. *)
LEMMA DeltaShare ==
    ASSUME NEW b \in Times, NEW a \in Times, \A k \in Kind : b[k] <= a[k]
    PROVE  /\ IsShare(DeltaPercents(b, a))
           /\ DeltaPercents(b, a).of = Total(a) - Total(b)
           /\ DeltaPercents(b, a).load = Busy(a) - Busy(b)
           /\ Total(b) \in Nat /\ Total(a) \in Nat /\ Busy(b) \in Nat /\ Busy(a) \in Nat
<1>1. \A k \in Kind : b[k] \in Nat /\ a[k] \in Nat /\ b[k] <= a[k]
  BY DEF Times
<1>2. /\ Total(b) \in Nat /\ Total(a) \in Nat /\ Busy(b) \in Nat /\ Busy(a) \in Nat
      /\ IdleTotal(b) \in Nat /\ IdleTotal(a) \in Nat
      /\ Total(a) = Busy(a) + IdleTotal(a) /\ Total(b) = Busy(b) + IdleTotal(b)
      /\ Busy(b) <= Busy(a) /\ IdleTotal(b) <= IdleTotal(a)
      /\ a["user"] - b["user"] + (a["system"] - b["system"]) <= Busy(a) - Busy(b)
  BY <1>1 DEF Total, IdleTotal, Busy, Kind
<1>3. /\ a["user"] \in Nat /\ b["user"] \in Nat /\ b["user"] <= a["user"]
      /\ a["system"] \in Nat /\ b["system"] \in Nat /\ b["system"] <= a["system"]
  BY <1>1 DEF Kind
<1>4. \A x, y \in Nat : y <= x => SaturatingSub(x, y) = x - y
  BY DEF SaturatingSub
<1> DEFINE total == Total(a) - Total(b)
<1>5. SaturatingSub(Total(a), Total(b)) = total /\ total \in Nat
  BY <1>2, <1>4
<1>6. CASE total = 0
  <2>1. DeltaPercents(b, a) = NoLoad
    BY <1>5, <1>6 DEF DeltaPercents
  <2>2. Busy(a) - Busy(b) = 0
    BY <1>2, <1>6
  <2> QED
    BY <1>2, <1>6, <2>1, <2>2 DEF NoLoad, IsShare
<1>7. CASE total # 0
  <2>1. DeltaPercents(b, a) =
          [load |-> total - (IdleTotal(a) - IdleTotal(b)),
           user |-> a["user"] - b["user"], sys |-> a["system"] - b["system"], of |-> total]
    BY <1>2, <1>3, <1>4, <1>5, <1>7 DEF DeltaPercents
  <2>2. total - (IdleTotal(a) - IdleTotal(b)) = Busy(a) - Busy(b)
    BY <1>2
  <2> QED
    BY <1>2, <1>3, <2>1, <2>2 DEF IsShare
<1> QED
  BY <1>6, <1>7

(* When iowait time has gone back, the saturated differences keep the load a share,
   and user and system time exceed it by no more than what has gone back. *)
LEMMA DeltaBounded ==
    ASSUME NEW b \in Times, NEW a \in Times, NEW n \in Nat,
           \A k \in Kind \ {"iowait"} : b[k] <= a[k], b["iowait"] <= a["iowait"] + n
    PROVE  IsShareBut(DeltaPercents(b, a), n)
<1> DEFINE du == a["user"] - b["user"]
           ds == a["system"] - b["system"]
           dt == Total(a) - Total(b)
           di == IdleTotal(a) - IdleTotal(b)
<1>1. \A k \in Kind : b[k] \in Nat /\ a[k] \in Nat
  BY DEF Times
<1>2. /\ Total(b) \in Nat /\ Total(a) \in Nat /\ IdleTotal(b) \in Nat /\ IdleTotal(a) \in Nat
      /\ du \in Nat /\ ds \in Nat /\ dt \in Int /\ di \in Int
      /\ du + ds <= dt - di /\ 0 <= di + n
  BY <1>1 DEF Total, IdleTotal, Kind
<1>3. /\ SaturatingSub(a["user"], b["user"]) = du
      /\ SaturatingSub(a["system"], b["system"]) = ds
  BY <1>1, <1>2 DEF SaturatingSub, Kind
<1>4. /\ SaturatingSub(Total(a), Total(b)) = IF dt >= 0 THEN dt ELSE 0
      /\ SaturatingSub(IdleTotal(a), IdleTotal(b)) = IF di >= 0 THEN di ELSE 0
  BY <1>2 DEF SaturatingSub
<1>5. CASE dt <= 0
  <2>1. SaturatingSub(Total(a), Total(b)) = 0
    BY <1>2, <1>4, <1>5
  <2>2. DeltaPercents(b, a) = NoLoad
    BY <2>1 DEF DeltaPercents
  <2> QED
    BY <2>2 DEF NoLoad, IsShareBut
<1>6. CASE dt > 0
  <2>1. DeltaPercents(b, a) =
          [load |-> dt - (IF di >= 0 THEN di ELSE 0), user |-> du, sys |-> ds, of |-> dt]
    BY <1>2, <1>3, <1>4, <1>6 DEF DeltaPercents
  <2> HIDE DEF du, ds, dt, di
  <2> QED
    BY <1>2, <1>6, <2>1 DEF IsShareBut
<1> QED
  BY <1>2, <1>5, <1>6

-------------------------------------------------------------------------------
(* The lines of a reading. *)

LEMMA AggregateFacts ==
    ASSUME NEW times \in [Cpu -> Times]
    PROVE  /\ Aggregate(times) \in Times
           /\ \A k \in Kind : Aggregate(times)[k] = SumFunctionOnSet(Column(times, k), Cpu)
<1>1. ASSUME NEW k \in Kind
      PROVE  /\ Aggregate(times)[k] = SumFunctionOnSet(Column(times, k), Cpu)
             /\ SumFunctionOnSet(Column(times, k), Cpu) \in Nat
  <2>1. \A c \in Cpu : Column(times, k)[c] \in Nat
    BY DEF Column, Times
  <2> QED
    BY <2>1, CpuFacts, SumNat DEF Aggregate, Column
<1> QED
  BY <1>1 DEF Aggregate, Times

LEMMA AggregateMonotone ==
    ASSUME NEW b \in [Cpu -> Times], NEW a \in [Cpu -> Times], NEW k \in Kind,
           \A c \in Cpu : b[c][k] <= a[c][k]
    PROVE  Aggregate(b)[k] <= Aggregate(a)[k]
<1>1. \A c \in Cpu : /\ Column(b, k)[c] \in Int /\ Column(a, k)[c] \in Int
                     /\ Column(b, k)[c] <= Column(a, k)[c]
  BY DEF Column, Times
<1>2. SumFunctionOnSet(Column(b, k), Cpu) <= SumFunctionOnSet(Column(a, k), Cpu)
  BY <1>1, CpuFacts, SumMonotone
<1> QED
  BY <1>2, AggregateFacts

LEMMA LinesFacts ==
    ASSUME NEW times \in [Cpu -> Times], NEW cpus \in SUBSET Cpu
    PROVE  /\ StatLines(times, cpus) \in Seq(Times)
           /\ Len(StatLines(times, cpus)) = Cardinality(cpus) + 1
           /\ StatLines(times, cpus) # <<>>
           /\ StatLines(times, cpus)[1] = Aggregate(times)
           /\ \A i \in 1 .. Cardinality(cpus) :
                StatLines(times, cpus)[i + 1] = times[NthCpu(cpus, i)]
<1> DEFINE n == Cardinality(cpus)
           top == <<Aggregate(times)>>
           cores == CoreLines(times, cpus)
<1>1. n \in Nat
  BY OnlineFacts
<1>2. top \in Seq(Times) /\ Len(top) = 1 /\ top[1] = Aggregate(times)
  BY AggregateFacts
<1>3. cores \in [1 .. n -> Times] /\ \A i \in 1 .. n : cores[i] = times[NthCpu(cpus, i)]
  BY <1>1, NthFacts DEF CoreLines
<1>4. cores \in Seq(Times) /\ Len(cores) = n
  <2> HIDE DEF cores, n
  <2> QED
    BY <1>1, <1>3, SeqDef, LenProperties
<1>5. StatLines(times, cpus) = top \o cores
  BY DEF StatLines
<1> HIDE DEF top, cores, n
<1>6. /\ top \o cores \in Seq(Times) /\ Len(top \o cores) = 1 + n
      /\ (top \o cores)[1] = top[1]
      /\ \A i \in 1 .. n : (top \o cores)[i + 1] = cores[i]
  <2>1. /\ top \o cores \in Seq(Times) /\ Len(top \o cores) = 1 + n
        /\ \A i \in 1 .. 1 + n : (top \o cores)[i] =
              IF i <= 1 THEN top[i] ELSE cores[i - 1]
    <3>1. top \o cores \in Seq(Times) /\ Len(top \o cores) = Len(top) + Len(cores)
      BY <1>2, <1>4, ConcatProperties
    <3>2. \A i \in 1 .. Len(top) + Len(cores) : (top \o cores)[i] =
             IF i <= Len(top) THEN top[i] ELSE cores[i - Len(top)]
      BY <1>2, <1>4, ConcatProperties
    <3> QED
      BY <1>1, <1>2, <1>4, <3>1, <3>2
  <2>2. 1 \in 1 .. 1 + n /\ \A i \in 1 .. n : i + 1 \in 1 .. 1 + n /\ ~ (i + 1 <= 1) /\ (i + 1) - 1 = i
    BY <1>1
  <2> QED
    BY <2>1, <2>2
<1>7. top \o cores # <<>>
  BY <1>1, <1>6, EmptySeq
<1> QED
  BY <1>1, <1>2, <1>3, <1>5, <1>6, <1>7 DEF n

-------------------------------------------------------------------------------
(* What compute_stats makes of two readings. *)

LEMMA NoneComputed ==
    ASSUME NEW b, NEW a, b \in Seq(Times), a \in Seq(Times), b = <<>> \/ a = <<>>
    PROVE  /\ ComputeStats(b, a).all = NoLoad
           /\ DOMAIN ComputeStats(b, a).cores = {}
           /\ Len(ComputeStats(b, a).cores) = 0
<1> DEFINE pairs == IF Len(b) <= Len(a) THEN Len(b) ELSE Len(a)
<1>1. pairs = 0 /\ SaturatingSub(pairs, 1) = 0
  BY LenProperties, EmptySeq DEF SaturatingSub
<1> DEFINE cores == [i \in 1 .. 0 |-> DeltaPercents(b[i + 1], a[i + 1])]
<1>2. ComputeStats(b, a).cores = cores
  BY <1>1 DEF ComputeStats
<1>3. DOMAIN cores = {} /\ Len(cores) = 0
  <2>1. DOMAIN cores = 1 .. 0
    OBVIOUS
  <2>2. cores \in Seq({})
    BY <2>1, SeqDef
  <2> HIDE DEF cores
  <2> QED
    BY <2>1, <2>2, LenProperties
<1>4. ComputeStats(b, a).all = NoLoad
  BY DEF ComputeStats
<1> QED
  BY <1>2, <1>3, <1>4

(* The number of lines that are paired: of the online CPUs, the fewer. *)
Paired(cpus, others) ==
    IF Cardinality(cpus) <= Cardinality(others) THEN Cardinality(cpus) ELSE Cardinality(others)

(* What r is, computed from readings of m and n that did not fail. *)
Computed(r, m, n) ==
    /\ r.all = DeltaPercents(Aggregate(m.spent), Aggregate(n.spent))
    /\ Paired(m.online, n.online) \in Nat
    /\ Len(r.cores) = Paired(m.online, n.online)
    /\ DOMAIN r.cores = 1 .. Paired(m.online, n.online)
    /\ \A i \in DOMAIN r.cores :
         /\ i \in 1 .. Cardinality(m.online) /\ i \in 1 .. Cardinality(n.online)
         /\ r.cores[i] = DeltaPercents(m.spent[NthCpu(m.online, i)],
                                       n.spent[NthCpu(n.online, i)])

LEMMA LinesComputed ==
    ASSUME NEW m \in MachineState, NEW n \in MachineState, NEW b, NEW a,
           b = StatLines(m.spent, m.online), a = StatLines(n.spent, n.online)
    PROVE  Computed(ComputeStats(b, a), m, n)
<1> DEFINE r == ComputeStats(b, a)
           cm == Cardinality(m.online)
           cn == Cardinality(n.online)
           p == Paired(m.online, n.online)
           cores == [i \in 1 .. p |-> DeltaPercents(b[i + 1], a[i + 1])]
<1>1. /\ m.spent \in [Cpu -> Times] /\ m.online \in SUBSET Cpu
      /\ n.spent \in [Cpu -> Times] /\ n.online \in SUBSET Cpu
  BY DEF MachineState
<1>2. /\ cm \in Nat /\ cn \in Nat /\ p \in Nat /\ p <= cm /\ p <= cn
      /\ (p = cm \/ p = cn)
  BY <1>1, OnlineFacts DEF Paired
<1>3. /\ Len(b) = cm + 1 /\ Len(a) = cn + 1 /\ b # <<>> /\ a # <<>>
      /\ b[1] = Aggregate(m.spent) /\ a[1] = Aggregate(n.spent)
  BY <1>1, LinesFacts
<1>4. \A i \in 1 .. p : /\ i \in 1 .. cm /\ i \in 1 .. cn
                        /\ b[i + 1] = m.spent[NthCpu(m.online, i)]
                        /\ a[i + 1] = n.spent[NthCpu(n.online, i)]
  <2>1. \A i \in 1 .. cm : b[i + 1] = m.spent[NthCpu(m.online, i)]
    BY <1>1, LinesFacts
  <2>2. \A i \in 1 .. cn : a[i + 1] = n.spent[NthCpu(n.online, i)]
    BY <1>1, LinesFacts
  <2>3. \A i \in 1 .. p : i \in 1 .. cm /\ i \in 1 .. cn
    <3> HIDE DEF p, cm, cn
    <3> QED
      BY <1>2
  <2> QED
    BY <2>1, <2>2, <2>3
<1>5. SaturatingSub(IF Len(b) <= Len(a) THEN Len(b) ELSE Len(a), 1) = p
  <2>1. p = IF cm <= cn THEN cm ELSE cn
    BY DEF Paired
  <2> HIDE DEF cm, cn, p
  <2> QED
    BY <1>2, <1>3, <2>1 DEF SaturatingSub
<1>6. r.all = DeltaPercents(b[1], a[1]) /\ r.cores = cores
  <2> HIDE DEF p
  <2> DEFINE q == SaturatingSub(IF Len(b) <= Len(a) THEN Len(b) ELSE Len(a), 1)
  <2>2. r = [all   |-> IF b # <<>> /\ a # <<>> THEN DeltaPercents(b[1], a[1]) ELSE NoLoad,
             cores |-> [i \in 1 .. q |-> DeltaPercents(b[i + 1], a[i + 1])]]
    BY DEF ComputeStats
  <2>3. q = p
    BY <1>5
  <2> HIDE DEF q
  <2> QED
    BY <1>3, <2>2, <2>3
<1>7. Len(cores) = p /\ DOMAIN cores = 1 .. p
  <2> HIDE DEF p
  <2> DEFINE V == {DeltaPercents(b[i + 1], a[i + 1]) : i \in 1 .. p}
  <2>1. cores \in [1 .. p -> V]
    OBVIOUS
  <2>2. cores \in Seq(V)
    BY <1>2, <2>1, SeqDef
  <2> HIDE DEF cores, V
  <2> QED
    BY <1>2, <2>1, <2>2, LenProperties
<1>8. \A i \in 1 .. p : cores[i] = DeltaPercents(b[i + 1], a[i + 1])
  OBVIOUS
<1> HIDE DEF r, cores, p, cm, cn
<1>9. Computed(r, m, n)
  BY <1>2, <1>3, <1>4, <1>6, <1>7, <1>8 DEF Computed, p, cm, cn
<1> QED
  BY <1>9 DEF r

(* A reading is empty or of the machine it was made of. *)
LEMMA ReadingType ==
    ASSUME NEW m \in MachineState, NEW b \in Reading(m)
    PROVE  b \in Seq(Times) /\ Len(b) <= NumCpus + 1
<1>1. m.spent \in [Cpu -> Times] /\ m.online \in SUBSET Cpu
  BY DEF MachineState
<1>2. /\ StatLines(m.spent, m.online) \in Seq(Times)
      /\ Len(StatLines(m.spent, m.online)) <= NumCpus + 1
  BY <1>1, LinesFacts, OnlineFacts, CpuFacts
<1>3. <<>> \in Seq(Times) /\ Len(<<>>) <= NumCpus + 1
  BY EmptySeq, CpuFacts
<1> QED
  BY <1>2, <1>3 DEF Reading

LEMMA StatsType ==
    ASSUME NEW m \in MachineState, NEW n \in MachineState,
           NEW b \in Reading(m), NEW a \in Reading(n), NEW r, r = ComputeStats(b, a)
    PROVE  /\ r.all \in Load
           /\ Len(r.cores) <= NumCpus
           /\ \A i \in DOMAIN r.cores : r.cores[i] \in Load
<1>1. CASE b = <<>> \/ a = <<>>
  BY <1>1, ReadingType, NoneComputed, NoLoadFacts, CpuFacts
<1>2. CASE b # <<>> /\ a # <<>>
  <2>1. b = StatLines(m.spent, m.online) /\ a = StatLines(n.spent, n.online)
    BY <1>2 DEF Reading
  <2>0. Computed(r, m, n)
    BY <2>1, LinesComputed
  <2>2. /\ m.spent \in [Cpu -> Times] /\ m.online \in SUBSET Cpu
        /\ n.spent \in [Cpu -> Times] /\ n.online \in SUBSET Cpu
    BY DEF MachineState
  <2>3. r.all \in Load
    BY <2>0, <2>2, AggregateFacts, DeltaType DEF Computed
  <2>4. Len(r.cores) <= NumCpus
    BY <2>0, <2>2, OnlineFacts, CpuFacts DEF Computed, Paired
  <2>5. ASSUME NEW i \in DOMAIN r.cores PROVE r.cores[i] \in Load
    <3>1. /\ i \in 1 .. Cardinality(m.online) /\ i \in 1 .. Cardinality(n.online)
          /\ r.cores[i] = DeltaPercents(m.spent[NthCpu(m.online, i)],
                                        n.spent[NthCpu(n.online, i)])
      BY <2>0 DEF Computed
    <3>2. m.spent[NthCpu(m.online, i)] \in Times /\ n.spent[NthCpu(n.online, i)] \in Times
      BY <2>2, <3>1, NthFacts
    <3> QED
      BY <3>1, <3>2, DeltaType
  <2> QED
    BY <2>3, <2>4, <2>5
<1> QED
  BY <1>1, <1>2

-------------------------------------------------------------------------------
(* What the answer says, of two machine states. *)

LEMMA AnswerShare ==
    ASSUME NEW m \in MachineState, NEW n \in MachineState, Later(m, n),
           NEW b \in Reading(m), NEW a \in Reading(n), NEW r, r = ComputeStats(b, a)
    PROVE  IsShareBut(r.all, n.corrections - m.corrections)
<1> DEFINE back == n.corrections - m.corrections
<1>0. back \in Nat
  BY DEF MachineState, Later
<1>1. CASE b = <<>> \/ a = <<>>
  <2>1. r.all = NoLoad
    BY <1>1, ReadingType, NoneComputed
  <2> QED
    BY <1>0, <2>1 DEF IsShareBut, NoLoad
<1>2. CASE b # <<>> /\ a # <<>>
  <2>1. b = StatLines(m.spent, m.online) /\ a = StatLines(n.spent, n.online)
    BY <1>2 DEF Reading
  <2>2. r.all = DeltaPercents(Aggregate(m.spent), Aggregate(n.spent))
    BY <2>1, LinesComputed DEF Computed
  <2>3. m.spent \in [Cpu -> Times] /\ n.spent \in [Cpu -> Times]
    BY DEF MachineState
  <2>4. \A k \in Kind \ {"iowait"} : Aggregate(m.spent)[k] <= Aggregate(n.spent)[k]
    BY <2>3, AggregateMonotone DEF Later
  <2>5. Aggregate(m.spent)["iowait"] <= Aggregate(n.spent)["iowait"] + back
    BY <2>3, AggregateFacts DEF Later, Iowait, Kind
  <2> HIDE DEF back
  <2>6. IsShareBut(DeltaPercents(Aggregate(m.spent), Aggregate(n.spent)), back)
    BY <1>0, <2>3, <2>4, <2>5, AggregateFacts, DeltaBounded
  <2> QED
    BY <2>2, <2>6 DEF back
<1> QED
  BY <1>1, <1>2

(* A measure of a line that is the sum of some of its columns. *)
LEMMA SumOfColumns ==
    ASSUME NEW times \in [Cpu -> Times]
    PROVE  /\ SumFunctionOnSet([c \in Cpu |-> Busy(times[c])], Cpu) = Busy(Aggregate(times))
           /\ SumFunctionOnSet([c \in Cpu |-> Total(times[c])], Cpu) = Total(Aggregate(times))
<1> DEFINE u == Column(times, "user")
           y == Column(times, "system")
           t == Column(times, "steal")
           d == Column(times, "idle")
           w == Column(times, "iowait")
           uy == [c \in Cpu |-> u[c] + y[c]]
           dw == [c \in Cpu |-> d[c] + w[c]]
           busy == [c \in Cpu |-> Busy(times[c])]
           total == [c \in Cpu |-> Total(times[c])]
           S(f) == SumFunctionOnSet(f, Cpu)
<1>1. /\ Aggregate(times)["user"] = S(u) /\ Aggregate(times)["system"] = S(y)
      /\ Aggregate(times)["steal"] = S(t) /\ Aggregate(times)["idle"] = S(d)
      /\ Aggregate(times)["iowait"] = S(w)
  BY AggregateFacts DEF Kind
<1>2. \A c \in Cpu : /\ u[c] \in Int /\ y[c] \in Int /\ t[c] \in Int /\ d[c] \in Int /\ w[c] \in Int
                     /\ uy[c] = u[c] + y[c] /\ dw[c] = d[c] + w[c]
                     /\ busy[c] = uy[c] + t[c] /\ total[c] = busy[c] + dw[c]
                     /\ uy[c] \in Int /\ dw[c] \in Int /\ busy[c] \in Int
  <2> TAKE c \in Cpu
  <2>1. \A k \in Kind : Column(times, k)[c] = times[c][k] /\ times[c][k] \in Nat
    BY DEF Column, Times
  <2>2. /\ busy[c] = times[c]["user"] + times[c]["system"] + times[c]["steal"]
        /\ total[c] = times[c]["user"] + times[c]["system"] + times[c]["idle"]
                        + times[c]["iowait"] + times[c]["steal"]
    BY DEF Busy, Total
  <2>3. uy[c] = u[c] + y[c] /\ dw[c] = d[c] + w[c]
    OBVIOUS
  <2> HIDE DEF uy, dw, busy, total
  <2> QED
    BY <2>1, <2>2, <2>3 DEF Kind
<1> HIDE DEF u, y, t, d, w, uy, dw, busy, total
<1>3. /\ S(uy) = S(u) + S(y) /\ S(dw) = S(d) + S(w)
      /\ S(busy) = S(uy) + S(t) /\ S(total) = S(busy) + S(dw)
  <2>1. \A f, g, h : (\A c \in Cpu : f[c] \in Int /\ g[c] \in Int /\ h[c] = f[c] + g[c])
                       => S(h) = S(f) + S(g)
    BY CpuFacts, SumPlus
  <2> HIDE DEF S
  <2>2. S(uy) = S(u) + S(y)
    BY <1>2, <2>1
  <2>3. S(dw) = S(d) + S(w)
    BY <1>2, <2>1
  <2>4. S(busy) = S(uy) + S(t)
    BY <1>2, <2>1
  <2>5. S(total) = S(busy) + S(dw)
    BY <1>2, <2>1
  <2> QED
    BY <2>2, <2>3, <2>4, <2>5
<1>5. S(u) \in Int /\ S(y) \in Int /\ S(t) \in Int /\ S(d) \in Int /\ S(w) \in Int
  <2>1. \A f : (\A c \in Cpu : f[c] \in Int) => S(f) \in Int
    BY CpuFacts, SumType
  <2> HIDE DEF S
  <2> QED
    BY <1>2, <2>1
<1> DEFINE all == Aggregate(times)
<1>6. Busy(all) = S(u) + S(y) + S(t) /\ Total(all) = S(u) + S(y) + S(d) + S(w) + S(t)
  BY <1>1 DEF Busy, Total
<1>7. S(busy) = Busy(all) /\ S(total) = Total(all)
  <2> HIDE DEF S, all
  <2> QED
    BY <1>3, <1>5, <1>6
<1> QED
  BY <1>7 DEF busy, total

(* Over all CPUs, what the lines of the cores say adds up to what the first says. *)
LEMMA CoresAddUpTo ==
    ASSUME NEW b \in [Cpu -> Times], NEW a \in [Cpu -> Times],
           \A c \in Cpu, k \in Kind : b[c][k] <= a[c][k]
    PROVE  LET D == [c \in Cpu |-> DeltaPercents(b[c], a[c])]
               all == DeltaPercents(Aggregate(b), Aggregate(a))
           IN  /\ SumFunctionOnSet([c \in Cpu |-> D[c].load], Cpu) = all.load
               /\ SumFunctionOnSet([c \in Cpu |-> D[c].of], Cpu) = all.of
<1> DEFINE load == [c \in Cpu |-> DeltaPercents(b[c], a[c]).load]
           of == [c \in Cpu |-> DeltaPercents(b[c], a[c]).of]
           busyB == [c \in Cpu |-> Busy(b[c])]
           busyA == [c \in Cpu |-> Busy(a[c])]
           totalB == [c \in Cpu |-> Total(b[c])]
           totalA == [c \in Cpu |-> Total(a[c])]
           all == DeltaPercents(Aggregate(b), Aggregate(a))
           S(f) == SumFunctionOnSet(f, Cpu)
<1>1. \A c \in Cpu : /\ load[c] = busyA[c] - busyB[c] /\ of[c] = totalA[c] - totalB[c]
                     /\ busyA[c] \in Nat /\ busyB[c] \in Nat
                     /\ totalA[c] \in Nat /\ totalB[c] \in Nat
  <2> TAKE c \in Cpu
  <2>1. b[c] \in Times /\ a[c] \in Times /\ \A k \in Kind : b[c][k] <= a[c][k]
    OBVIOUS
  <2> QED
    BY <2>1, DeltaShare
<1>2. /\ S(busyA) = Busy(Aggregate(a)) /\ S(busyB) = Busy(Aggregate(b))
      /\ S(totalA) = Total(Aggregate(a)) /\ S(totalB) = Total(Aggregate(b))
  BY SumOfColumns
<1>3. /\ all.load = Busy(Aggregate(a)) - Busy(Aggregate(b))
      /\ all.of = Total(Aggregate(a)) - Total(Aggregate(b))
  BY AggregateFacts, AggregateMonotone, DeltaShare
<1> HIDE DEF load, of, busyB, busyA, totalB, totalA, all
<1>4. \A c \in Cpu : /\ load[c] \in Int /\ busyB[c] \in Int /\ busyA[c] = load[c] + busyB[c]
                     /\ of[c] \in Int /\ totalB[c] \in Int /\ totalA[c] = of[c] + totalB[c]
  BY <1>1
<1>5. S(busyA) = S(load) + S(busyB) /\ S(totalA) = S(of) + S(totalB)
  <2>1. \A f, g, h : (\A c \in Cpu : f[c] \in Int /\ g[c] \in Int /\ h[c] = f[c] + g[c])
                       => S(h) = S(f) + S(g)
    BY CpuFacts, SumPlus
  <2> HIDE DEF S
  <2>2. S(busyA) = S(load) + S(busyB)
    BY <1>4, <2>1
  <2>3. S(totalA) = S(of) + S(totalB)
    BY <1>4, <2>1
  <2> QED
    BY <2>2, <2>3
<1>6. S(load) \in Int /\ S(of) \in Int /\ S(busyB) \in Int /\ S(totalB) \in Int
  <2>1. \A f : (\A c \in Cpu : f[c] \in Int) => S(f) \in Int
    BY CpuFacts, SumType
  <2> HIDE DEF S
  <2> QED
    BY <1>4, <2>1
<1>7. S(load) = all.load /\ S(of) = all.of
  <2> HIDE DEF S
  <2> QED
    BY <1>2, <1>3, <1>5, <1>6
<1>8. /\ load = [c \in Cpu |-> [x \in Cpu |-> DeltaPercents(b[x], a[x])][c].load]
      /\ of = [c \in Cpu |-> [x \in Cpu |-> DeltaPercents(b[x], a[x])][c].of]
  BY DEF load, of
<1> QED
  BY <1>7, <1>8 DEF all

LEMMA AnswerCores ==
    ASSUME NEW m \in MachineState, NEW n \in MachineState, Later(m, n),
           m.corrections = n.corrections, m.plugs = n.plugs,
           NEW b \in Reading(m), NEW a \in Reading(n), NEW r, r = ComputeStats(b, a),
           r.all.of > 0
    PROVE  /\ Len(r.cores) = Cardinality(n.online)
           /\ \A i \in DOMAIN r.cores : IsShare(r.cores[i])
           /\ n.online = Cpu =>
                /\ r.all.load = SumFunction([i \in DOMAIN r.cores |-> r.cores[i].load])
                /\ r.all.of = SumFunction([i \in DOMAIN r.cores |-> r.cores[i].of])
<1>1. b # <<>> /\ a # <<>>
  BY ReadingType, NoneComputed, NoLoadFacts
<1>2. Computed(r, m, n)
  <2>1. b = StatLines(m.spent, m.online) /\ a = StatLines(n.spent, n.online)
    BY <1>1 DEF Reading
  <2> QED
    BY <2>1, LinesComputed
<1>3. /\ m.spent \in [Cpu -> Times] /\ n.spent \in [Cpu -> Times]
      /\ n.online \in SUBSET Cpu /\ m.online = n.online
      /\ \A c \in Cpu, k \in Kind : m.spent[c][k] <= n.spent[c][k]
  BY DEF MachineState, Later
<1> DEFINE card == Cardinality(n.online)
           D(c) == DeltaPercents(m.spent[c], n.spent[c])
<1>4. card \in Nat /\ Paired(m.online, n.online) = card
  BY <1>3, OnlineFacts DEF Paired
<1>5. /\ r.all = DeltaPercents(Aggregate(m.spent), Aggregate(n.spent))
      /\ Len(r.cores) = card /\ DOMAIN r.cores = 1 .. card
      /\ \A i \in 1 .. card : r.cores[i] = D(NthCpu(n.online, i))
  <2>1. /\ r.all = DeltaPercents(Aggregate(m.spent), Aggregate(n.spent))
        /\ Len(r.cores) = Paired(m.online, n.online)
        /\ DOMAIN r.cores = 1 .. Paired(m.online, n.online)
        /\ \A i \in DOMAIN r.cores :
             r.cores[i] = DeltaPercents(m.spent[NthCpu(m.online, i)],
                                        n.spent[NthCpu(n.online, i)])
    BY <1>2 DEF Computed
  <2> QED
    BY <1>3, <1>4, <2>1
<1>6. \A c \in Cpu : IsShare(D(c)) /\ D(c) \in Load
  <2> TAKE c \in Cpu
  <2>1. m.spent[c] \in Times /\ n.spent[c] \in Times
    BY <1>3
  <2> QED
    BY <1>3, <2>1, DeltaShare, DeltaType
<1>7. ASSUME NEW i \in DOMAIN r.cores PROVE IsShare(r.cores[i])
  <2>1. NthCpu(n.online, i) \in Cpu
    BY <1>3, <1>5, NthFacts
  <2> QED
    BY <1>5, <1>6, <2>1
<1>8. ASSUME n.online = Cpu
      PROVE  /\ r.all.load = SumFunction([i \in DOMAIN r.cores |-> r.cores[i].load])
             /\ r.all.of = SumFunction([i \in DOMAIN r.cores |-> r.cores[i].of])
  <2> DEFINE loads == [c \in Cpu |-> [x \in Cpu |-> D(x)][c].load]
             ofs == [c \in Cpu |-> [x \in Cpu |-> D(x)][c].of]
             coreLoads == [i \in DOMAIN r.cores |-> r.cores[i].load]
             coreOfs == [i \in DOMAIN r.cores |-> r.cores[i].of]
  <2>1. r.all.load = SumFunctionOnSet(loads, Cpu) /\ r.all.of = SumFunctionOnSet(ofs, Cpu)
    BY <1>3, <1>5, CoresAddUpTo
  <2>2. card = NumCpus /\ NumCpus \in Nat
    BY <1>8, CpuFacts
  <2>3. ASSUME NEW i \in 1 .. NumCpus
        PROVE  /\ i - 1 \in Cpu /\ r.cores[i] = D(i - 1)
               /\ i \in DOMAIN r.cores
    BY <1>5, <1>8, <2>2, NthOfAll DEF Cpu
  <2>4. \A i \in 1 .. NumCpus :
          /\ loads[i - 1] \in Int /\ coreLoads[i] = loads[i - 1]
          /\ ofs[i - 1] \in Int /\ coreOfs[i] = ofs[i - 1]
    <3> TAKE i \in 1 .. NumCpus
    <3> DEFINE d == D(i - 1)
    <3>1. /\ loads[i - 1] = d.load /\ ofs[i - 1] = d.of
          /\ coreLoads[i] = d.load /\ coreOfs[i] = d.of
      BY <2>3
    <3>2. d.load \in Int /\ d.of \in Int
      <4>1. d \in Load
        BY <1>6, <2>3
      <4> HIDE DEF d
      <4> QED
        BY <4>1 DEF Load
    <3> QED
      BY <3>1, <3>2
  <2>5. DOMAIN coreLoads = 1 .. NumCpus /\ DOMAIN coreOfs = 1 .. NumCpus
    BY <1>5, <2>2
  <2> HIDE DEF loads, ofs, coreLoads, coreOfs
  <2>6. SumFunctionOnSet(coreLoads, 1 .. NumCpus) = SumFunctionOnSet(loads, 0 .. NumCpus - 1)
    BY <2>2, <2>4, SumShifted
  <2>7. SumFunctionOnSet(coreOfs, 1 .. NumCpus) = SumFunctionOnSet(ofs, 0 .. NumCpus - 1)
    BY <2>2, <2>4, SumShifted
  <2>8. r.all.load = SumFunction(coreLoads) /\ r.all.of = SumFunction(coreOfs)
    BY <2>1, <2>5, <2>6, <2>7, Zenon DEF SumFunction, Cpu
  <2> QED
    BY <2>8 DEF coreLoads, coreOfs
<1> QED
  BY <1>5, <1>7, <1>8

LEMMA AnswerOfOneCpu ==
    ASSUME NEW m \in MachineState, NEW n \in MachineState,
           NEW b \in Reading(m), NEW a \in Reading(n), NEW r, r = ComputeStats(b, a)
    PROVE  \A i \in DOMAIN r.cores :
             LET cpu == NthCpu(n.online, i)
             IN  m.online \cap 0 .. cpu = n.online \cap 0 .. cpu
                   => r.cores[i] = DeltaPercents(m.spent[cpu], n.spent[cpu])
<1>1. CASE b = <<>> \/ a = <<>>
  <2>1. DOMAIN r.cores = {}
    BY <1>1, ReadingType, NoneComputed
  <2> QED
    BY <2>1
<1>2. CASE b # <<>> /\ a # <<>>
  <2>1. Computed(r, m, n)
    <3>1. b = StatLines(m.spent, m.online) /\ a = StatLines(n.spent, n.online)
      BY <1>2 DEF Reading
    <3> QED
      BY <3>1, LinesComputed
  <2>2. \A i \in DOMAIN r.cores :
          /\ i \in 1 .. Cardinality(n.online)
          /\ r.cores[i] = DeltaPercents(m.spent[NthCpu(m.online, i)],
                                        n.spent[NthCpu(n.online, i)])
    BY <2>1 DEF Computed
  <2>3. m.online \in SUBSET Cpu /\ n.online \in SUBSET Cpu
    BY DEF MachineState
  <2>4. ASSUME NEW i \in DOMAIN r.cores,
               m.online \cap 0 .. NthCpu(n.online, i) = n.online \cap 0 .. NthCpu(n.online, i)
        PROVE  r.cores[i] = DeltaPercents(m.spent[NthCpu(n.online, i)],
                                          n.spent[NthCpu(n.online, i)])
    <3>1. i \in 1 .. Cardinality(n.online)
      BY <2>2
    <3>2. NthCpu(m.online, i) = NthCpu(n.online, i)
      BY <2>3, <2>4, <3>1, NthInBoth
    <3> QED
      BY <2>2, <3>2
  <2> QED
    BY <2>4
<1> QED
  BY <1>1, <1>2

-------------------------------------------------------------------------------
(* The machine: time is only ever added, but for the corrections of iowait. *)

LEMMA IowaitType ==
    ASSUME NEW times \in [Cpu -> Times]
    PROVE  Iowait(times) \in Nat
BY AggregateFacts DEF Iowait, Times, Kind

LEMMA IowaitMonotone ==
    ASSUME NEW b \in [Cpu -> Times], NEW a \in [Cpu -> Times],
           \A c \in Cpu : b[c]["iowait"] <= a[c]["iowait"]
    PROVE  Iowait(b) <= Iowait(a)
BY AggregateMonotone, AggregateFacts DEF Iowait, Kind

LEMMA LaterTransitive ==
    ASSUME NEW m \in MachineState, NEW n \in MachineState, NEW o \in MachineState,
           Later(m, n), Later(n, o)
    PROVE  Later(m, o)
<1>1. /\ m.corrections \in Nat /\ n.corrections \in Nat /\ o.corrections \in Nat
      /\ m.plugs \in Nat /\ n.plugs \in Nat /\ o.plugs \in Nat
      /\ \A c \in Cpu, k \in Kind :
            m.spent[c][k] \in Nat /\ n.spent[c][k] \in Nat /\ o.spent[c][k] \in Nat
      /\ Iowait(m.spent) \in Nat /\ Iowait(n.spent) \in Nat /\ Iowait(o.spent) \in Nat
  BY IowaitType DEF MachineState, Times
<1>2. m.corrections <= o.corrections /\ m.plugs <= o.plugs
  BY <1>1 DEF Later
<1>3. ASSUME m.corrections = o.corrections
      PROVE  \A c \in Cpu, k \in Kind : m.spent[c][k] <= o.spent[c][k]
  <2>1. m.corrections = n.corrections /\ n.corrections = o.corrections
    BY <1>1, <1>3 DEF Later
  <2>2. \A c \in Cpu, k \in Kind :
           m.spent[c][k] <= n.spent[c][k] /\ n.spent[c][k] <= o.spent[c][k]
    BY <2>1 DEF Later
  <2> QED
    BY <1>1, <2>2
<1>4. ASSUME m.plugs = o.plugs PROVE m.online = o.online
  <2>1. m.plugs = n.plugs /\ n.plugs = o.plugs
    BY <1>1, <1>4 DEF Later
  <2> QED
    BY <2>1 DEF Later
<1>5. \A c \in Cpu, k \in Kind \ {"iowait"} : m.spent[c][k] <= o.spent[c][k]
  <2>1. \A c \in Cpu, k \in Kind \ {"iowait"} :
           m.spent[c][k] <= n.spent[c][k] /\ n.spent[c][k] <= o.spent[c][k]
    BY DEF Later
  <2> QED
    BY <1>1, <2>1
<1>6. Iowait(m.spent) <= Iowait(o.spent) + (o.corrections - m.corrections)
  <2>1. /\ Iowait(m.spent) <= Iowait(n.spent) + (n.corrections - m.corrections)
        /\ Iowait(n.spent) <= Iowait(o.spent) + (o.corrections - n.corrections)
    BY DEF Later
  <2> QED
    BY <1>1, <2>1
<1> QED
  BY <1>2, <1>3, <1>4, <1>5, <1>6 DEF Later

LEMMA MachineType ==
    ASSUME NEW n \in 0 .. MaxTicks, NEW s \in [Cpu -> [Kind -> 0 .. n]],
           NEW o \in SUBSET Cpu, NEW p \in 0 .. MaxPlugs, NEW c \in 0 .. MaxCorrections,
           NEW m, m = [spent |-> s, online |-> o, plugs |-> p, corrections |-> c]
    PROVE  m \in MachineState /\ Later(m, m)
<1>1. \A d \in Cpu, k \in Kind : s[d][k] \in Nat
  BY CpuAssumption
<1>2. s \in [Cpu -> Times] /\ p \in Nat /\ c \in Nat
  BY <1>1, CpuAssumption DEF Times
<1>3. m \in MachineState
  BY <1>2 DEF MachineState
<1>4. Iowait(s) <= Iowait(s) + (c - c)
  BY <1>2, IowaitType
<1> QED
  BY <1>1, <1>2, <1>3, <1>4 DEF Later

LEMMA SpentType ==
    ASSUME NEW n \in 0 .. MaxTicks, NEW s \in [Cpu -> [Kind -> 0 .. n]]
    PROVE  s \in [Cpu -> Times]
<1>1. 0 .. n \subseteq Nat
  BY CpuAssumption
<1> QED
  BY <1>1 DEF Times

LEMMA TickMachine ==
    ASSUME MachineInv, Tick PROVE MachineInv' /\ Later(Machine, Machine')
<1>1. PICK kind \in [online -> Kind] :
        spent' = [c \in Cpu |-> IF c \in online
                                THEN [spent[c] EXCEPT ![kind[c]] = @ + 1]
                                ELSE spent[c]]
  BY DEF Tick
<1>2. /\ ticks \in Nat /\ ticks' = ticks + 1 /\ ticks' \in 0 .. MaxTicks
      /\ \A c \in Cpu : spent[c] \in [Kind -> 0 .. ticks]
  BY CpuAssumption DEF Tick, MachineInv
<1>3. ASSUME NEW c \in Cpu
      PROVE  /\ spent'[c] \in [Kind -> 0 .. ticks']
             /\ \A k \in Kind : spent[c][k] <= spent'[c][k]
  <2>1. CASE c \in online
    <3>1. spent'[c] = [spent[c] EXCEPT ![kind[c]] = @ + 1] /\ kind[c] \in Kind
      BY <1>1, <2>1
    <3> QED
      BY <1>2, <3>1
  <2>2. CASE c \notin online
    <3>1. spent'[c] = spent[c]
      BY <1>1, <2>2
    <3> QED
      BY <1>2, <3>1
  <2> QED
    BY <2>1, <2>2
<1>4. spent' \in [Cpu -> [Kind -> 0 .. ticks']]
  BY <1>1, <1>3
<1>5. online' = online /\ plugs' = plugs /\ corrections' = corrections /\ faults' = faults
  BY DEF Tick
<1>6. MachineInv'
  BY <1>2, <1>4, <1>5 DEF MachineInv
<1>7. plugs \in Nat /\ corrections \in Nat
  BY CpuAssumption DEF MachineInv
<1>8. spent \in [Cpu -> Times] /\ spent' \in [Cpu -> Times]
  BY SpentType, <1>6 DEF MachineInv
<1>9. Iowait(spent) \in Nat /\ Iowait(spent') \in Nat /\ Iowait(spent) <= Iowait(spent')
  BY <1>3, <1>8, IowaitType, IowaitMonotone DEF Kind
<1> QED
  BY <1>3, <1>5, <1>6, <1>7, <1>9 DEF Machine, Later

LEMMA CorrectIowaitMachine ==
    ASSUME MachineInv, NEW c \in Cpu, CorrectIowait(c)
    PROVE  MachineInv' /\ Later(Machine, Machine')
<1>1. /\ spent' = [spent EXCEPT ![c]["iowait"] = @ - 1]
      /\ spent[c]["iowait"] > 0 /\ corrections' = corrections + 1
      /\ ticks' = ticks /\ online' = online /\ plugs' = plugs /\ faults' = faults
      /\ corrections < MaxCorrections
  BY DEF CorrectIowait
<1>2. /\ ticks \in Nat /\ corrections \in Nat /\ plugs \in Nat
      /\ \A d \in Cpu : spent[d] \in [Kind -> 0 .. ticks]
  BY CpuAssumption DEF MachineInv
<1>3. ASSUME NEW d \in Cpu PROVE spent'[d] \in [Kind -> 0 .. ticks]
  <2>1. spent'[d] = IF d = c THEN [spent[d] EXCEPT !["iowait"] = @ - 1] ELSE spent[d]
    BY <1>1 DEF MachineInv
  <2>2. spent[c]["iowait"] - 1 \in 0 .. ticks
    BY <1>1, <1>2 DEF Kind
  <2> QED
    BY <1>2, <2>1, <2>2
<1>4. spent' \in [Cpu -> [Kind -> 0 .. ticks']]
  BY <1>1, <1>3 DEF MachineInv
<1>5. MachineInv'
  BY <1>1, <1>2, <1>4, CpuAssumption DEF MachineInv
<1>6. spent \in [Cpu -> Times] /\ spent' \in [Cpu -> Times]
  BY SpentType, <1>5 DEF MachineInv
<1>7. \A d \in Cpu, k \in Kind \ {"iowait"} : spent'[d][k] = spent[d][k]
  BY <1>1 DEF MachineInv, Kind
<1>8. Iowait(spent) \in Nat /\ Iowait(spent') \in Nat /\ Iowait(spent) = Iowait(spent') + 1
  <2> DEFINE w == Column(spent, "iowait")
             v == Column(spent', "iowait")
  <2>1. \A d \in Cpu : v[d] \in Int /\ w[d] = IF d \in {c} THEN v[d] + 1 ELSE v[d]
    <3>1. \A d \in Cpu : /\ spent[d]["iowait"] \in Nat /\ spent'[d]["iowait"] \in Nat
                         /\ spent'[d]["iowait"] =
                              IF d = c THEN spent[d]["iowait"] - 1 ELSE spent[d]["iowait"]
      BY <1>1, <1>6 DEF MachineInv, Times, Kind
    <3> QED
      BY <3>1 DEF Column
  <2>2. Cardinality({c} \cap Cpu) = 1
    <3>1. {c} \cap Cpu = {c}
      OBVIOUS
    <3> QED
      BY <3>1, FS_Singleton
  <2> HIDE DEF w, v
  <2>3. SumFunctionOnSet(w, Cpu) = SumFunctionOnSet(v, Cpu) + Cardinality({c} \cap Cpu)
    BY <2>1, CpuFacts, SumRaised
  <2> QED
    BY <1>6, <2>2, <2>3, IowaitType DEF Iowait, w, v
<1>9. \A d \in Cpu, k \in Kind : spent[d][k] \in Nat
  BY <1>6 DEF Times
<1> QED
  BY <1>1, <1>2, <1>5, <1>7, <1>8, <1>9 DEF Machine, Later

LEMMA PlugMachine ==
    ASSUME MachineInv, NEW c \in Cpu, Plug(c)
    PROVE  MachineInv' /\ Later(Machine, Machine')
<1>1. /\ online' \subseteq Cpu /\ plugs' = plugs + 1 /\ plugs < MaxPlugs
      /\ spent' = spent /\ ticks' = ticks /\ corrections' = corrections /\ faults' = faults
  BY DEF Plug, MachineInv
<1>2. /\ corrections \in Nat /\ plugs \in Nat
      /\ \A d \in Cpu, k \in Kind : spent[d][k] \in Nat
  BY CpuAssumption DEF MachineInv
<1>3. MachineInv'
  BY <1>1, <1>2, CpuAssumption DEF MachineInv
<1>4. Iowait(spent) \in Nat
  BY SpentType, IowaitType DEF MachineInv
<1> QED
  BY <1>1, <1>2, <1>3, <1>4 DEF Machine, Later

-------------------------------------------------------------------------------
(* A step of the machine: the reading that is held, if any, is of an earlier state. *)
LEMMA MachineStep ==
    ASSUME IInv, MachineInv', Later(Machine, Machine'),
           UNCHANGED <<pc, before, stats, first, second>>
    PROVE  IInv'
<1>1. Machine \in MachineState /\ Machine' \in MachineState
  BY MachineType DEF IInv, MachineInv, Machine
<1>2. pc = "sleep" => Later(first', Machine')
  BY <1>1, LaterTransitive DEF IInv, SamplerInv
<1>3. SamplerInv'
  BY <1>2 DEF IInv, SamplerInv, Reading
<1> QED
  BY <1>3 DEF IInv

LEMMA InvInit == Init => IInv
<1> SUFFICES ASSUME Init PROVE IInv
  OBVIOUS
<1>1. \A c \in Cpu : spent[c] \in [Kind -> 0 .. ticks]
  BY DEF Init, ZeroTimes
<1>2. MachineInv
  BY <1>1, CpuAssumption DEF Init, MachineInv
<1>3. SamplerInv
  BY DEF Init, SamplerInv
<1> QED
  BY <1>2, <1>3 DEF IInv

LEMMA InvNext == IInv /\ [Next]_vars => IInv'
<1> SUFFICES ASSUME IInv, [Next]_vars PROVE IInv'
  OBVIOUS
<1>a. MachineInv
  BY DEF IInv
<1>b. Machine \in MachineState /\ Later(Machine, Machine)
  BY <1>a, MachineType DEF MachineInv, Machine
<1>1. CASE Tick
  <2>1. UNCHANGED <<pc, before, stats, first, second>>
    BY <1>1 DEF Tick
  <2> QED
    BY <1>a, <1>1, <2>1, TickMachine, MachineStep
<1>2. ASSUME NEW c \in Cpu, CorrectIowait(c) PROVE IInv'
  <2>1. UNCHANGED <<pc, before, stats, first, second>>
    BY <1>2 DEF CorrectIowait
  <2> QED
    BY <1>a, <1>2, <2>1, CorrectIowaitMachine, MachineStep
<1>3. ASSUME NEW c \in Cpu, Plug(c) PROVE IInv'
  <2>1. UNCHANGED <<pc, before, stats, first, second>>
    BY <1>3 DEF Plug
  <2> QED
    BY <1>a, <1>3, <2>1, PlugMachine, MachineStep
<1>4. CASE ReadBefore
  <2>1. /\ pc = "idle" /\ pc' = "sleep" /\ first' = Machine
        /\ UNCHANGED <<kernel, stats, second>>
        /\ before' \in {StatLines(spent, online), <<>>}
        /\ faults' = faults \/ (faults < MaxFaults /\ faults' = faults + 1)
    BY <1>4 DEF ReadBefore
  <2>2. MachineInv'
    BY <1>a, <2>1, CpuAssumption DEF MachineInv, kernel
  <2>3. Machine' = Machine
    BY <2>1 DEF Machine, kernel
  <2>4. before' \in Reading(first')
    BY <2>1 DEF Reading, Machine
  <2>5. first' \in MachineState /\ Later(first', Machine')
    BY <1>b, <2>1, <2>3
  <2>6. stats' = NoStats
    BY <2>1 DEF IInv, SamplerInv
  <2>7. SamplerInv'
    BY <2>1, <2>4, <2>5, <2>6 DEF SamplerInv
  <2> QED
    BY <2>2, <2>7 DEF IInv
<1>5. CASE ReadAfter
  <2>1. /\ pc = "sleep" /\ pc' = "answered" /\ second' = Machine /\ before' = <<>>
        /\ first' = first /\ UNCHANGED kernel
        /\ \E a \in {StatLines(spent, online), <<>>} : stats' = ComputeStats(before, a)
        /\ faults' = faults \/ (faults < MaxFaults /\ faults' = faults + 1)
    BY <1>5 DEF ReadAfter
  <2>2. MachineInv'
    BY <1>a, <2>1, CpuAssumption DEF MachineInv, kernel
  <2>3. /\ first' \in MachineState /\ before \in Reading(first')
        /\ second' \in MachineState /\ Later(first', second')
    BY <1>b, <2>1 DEF IInv, SamplerInv
  <2>4. \E a \in Reading(second') : stats' = ComputeStats(before, a)
    BY <2>1 DEF Reading, Machine
  <2>5. SamplerInv'
    BY <2>1, <2>3, <2>4 DEF SamplerInv
  <2> QED
    BY <2>2, <2>5 DEF IInv
<1>6. CASE Respond
  <2>1. /\ pc = "answered" /\ pc' = "idle" /\ stats' = NoStats
        /\ UNCHANGED <<kernel, faults, before>>
    BY <1>6 DEF Respond
  <2>2. MachineInv'
    BY <1>a, <2>1 DEF MachineInv, kernel
  <2>3. SamplerInv'
    BY <2>1 DEF IInv, SamplerInv
  <2> QED
    BY <2>2, <2>3 DEF IInv
<1>7. CASE UNCHANGED vars
  <2>1. UNCHANGED <<ticks, spent, online, plugs, corrections, faults>>
    BY <1>7 DEF vars, kernel
  <2>2. UNCHANGED <<pc, before, stats, first, second>>
    BY <1>7 DEF vars
  <2>3. MachineInv'
    BY <1>a, <2>1 DEF MachineInv
  <2>4. Machine' = Machine
    BY <2>1 DEF Machine
  <2> QED
    BY <1>b, <2>2, <2>3, <2>4, MachineStep
<1> QED
  BY <1>1, <1>2, <1>3, <1>4, <1>5, <1>6, <1>7 DEF Next

LEMMA Invariant == Spec => []IInv
BY InvInit, InvNext, PTL DEF Spec

(* What is held of an answer, as the lemmas about answers take it. *)
LEMMA AnswerFacts ==
    ASSUME IInv, pc = "answered"
    PROVE  /\ first \in MachineState /\ second \in MachineState /\ Later(first, second)
           /\ \E b \in Reading(first), a \in Reading(second) : stats = ComputeStats(b, a)
BY DEF IInv, SamplerInv

-------------------------------------------------------------------------------
(* The theorems. *)

(* read_cpu_stats works with lines of counters, and answers with loads of at
   most as many cores as there are CPUs (cpu.rs:90-142). *)
THEOREM TypeCorrect == Spec => []TypeOK
<1>1. IInv => TypeOK
  <2> SUFFICES ASSUME IInv PROVE TypeOK
    OBVIOUS
  <2>1. /\ ticks \in 0 .. MaxTicks /\ online \subseteq Cpu
        /\ plugs \in 0 .. MaxPlugs /\ corrections \in 0 .. MaxCorrections
        /\ faults \in 0 .. MaxFaults /\ pc \in {"idle", "sleep", "answered"}
    BY DEF IInv, MachineInv, SamplerInv
  <2>2. spent \in [Cpu -> [Kind -> 0 .. MaxTicks]]
    <3>1. \A c \in Cpu : spent[c] \in [Kind -> 0 .. MaxTicks]
      BY <2>1, CpuAssumption DEF IInv, MachineInv
    <3> QED
      BY <3>1 DEF IInv, MachineInv
  <2>3. Len(before) <= NumCpus + 1 /\ \A i \in DOMAIN before : before[i] \in [Kind -> Nat]
    <3>1. before \in Seq(Times) /\ Len(before) <= NumCpus + 1
      <4>1. CASE pc = "sleep"
        BY <4>1, ReadingType DEF IInv, SamplerInv
      <4>2. CASE pc # "sleep"
        BY <4>2, EmptySeq, CpuFacts DEF IInv, SamplerInv
      <4> QED
        BY <4>1, <4>2
    <3> QED
      BY <3>1, ElementOfSeq, LenProperties DEF Times
  <2>4. /\ stats.all \in Load /\ Len(stats.cores) <= NumCpus
        /\ \A i \in DOMAIN stats.cores : stats.cores[i] \in Load
    <3>1. CASE pc = "answered"
      BY <3>1, AnswerFacts, StatsType
    <3>2. CASE pc # "answered"
      <4>1. stats.all = NoLoad /\ stats.cores = <<>>
        BY <3>2 DEF IInv, SamplerInv, NoStats
      <4> QED
        BY <4>1, NoLoadFacts, CpuFacts, EmptySeq
    <3> QED
      BY <3>1, <3>2
  <2> QED
    BY <2>1, <2>2, <2>3, <2>4 DEF TypeOK
<1> QED
  BY Invariant, <1>1, PTL

(* The load of all CPUs is a share of the time between the readings, of which user
   and system time are disjoint parts but for the iowait time that the kernel takes
   back, for any number of CPUs, whichever of them come or go in between
   (cpu.rs:116-129). *)
THEOREM AggregateShare == Spec => []AggregateIsShare
<1>1. IInv => AggregateIsShare
  <2> SUFFICES ASSUME IInv, pc = "answered" PROVE IsShareBut(stats.all, TakenBack)
    BY DEF AggregateIsShare, IsShareBut
  <2> QED
    BY AnswerFacts, AnswerShare DEF TakenBack
<1> QED
  BY Invariant, <1>1, PTL

(* While no CPU comes or goes, every online CPU has a load, each is a share,
   and with all CPUs online the loads sum to the load of all CPUs: the lines of
   /proc/stat are each taken once, and the first is no core (cpu.rs:90-114). *)
THEOREM CoresSum == Spec => []CoresAddUp
<1>1. IInv => CoresAddUp
  <2> SUFFICES ASSUME IInv, pc = "answered", ~ Corrected, ~ Replugged, stats.all.of > 0
               PROVE  /\ Len(stats.cores) = Cardinality(second.online)
                      /\ \A i \in DOMAIN stats.cores : IsShare(stats.cores[i])
                      /\ second.online = Cpu =>
                           /\ stats.all.load = SumFunction([i \in DOMAIN stats.cores |-> stats.cores[i].load])
                           /\ stats.all.of = SumFunction([i \in DOMAIN stats.cores |-> stats.cores[i].of])
    BY DEF CoresAddUp
  <2>1. PICK b \in Reading(first), a \in Reading(second) : stats = ComputeStats(b, a)
    BY AnswerFacts
  <2>2. /\ first \in MachineState /\ second \in MachineState /\ Later(first, second)
        /\ first.corrections = second.corrections /\ first.plugs = second.plugs
    BY AnswerFacts DEF Corrected, TakenBack, Replugged, MachineState
  <2> QED
    BY <2>1, <2>2, AnswerCores
<1> QED
  BY Invariant, <1>1, PTL

(* The load at a position is the difference of two readings of one CPU when the
   same CPUs are online at and below it: pairing the lines by position
   (cpu.rs:98-107) mixes up only CPUs above one that came or went. *)
THEOREM CoreOfOneCpu == Spec => []CoreLoadsAreOfOneCpu
<1>1. IInv => CoreLoadsAreOfOneCpu
  <2> SUFFICES ASSUME IInv, pc = "answered"
               PROVE  \A i \in DOMAIN stats.cores :
                        LET cpu == NthCpu(second.online, i)
                        IN  first.online \cap 0 .. cpu = second.online \cap 0 .. cpu
                              => stats.cores[i] = DeltaPercents(first.spent[cpu], second.spent[cpu])
    BY DEF CoreLoadsAreOfOneCpu
  <2>1. PICK b \in Reading(first), a \in Reading(second) : stats = ComputeStats(b, a)
    BY AnswerFacts
  <2> QED
    BY <2>1, AnswerFacts, AnswerOfOneCpu
<1> QED
  BY Invariant, <1>1, PTL
===============================================================================
