------------------------------ MODULE CpuSampler ------------------------------
(***************************************************************************)
(* read_cpu_stats: two readings of /proc/stat with a 100 ms sleep between  *)
(* them, and the load percentages their difference gives, for all CPUs     *)
(* together and line by line.  Nothing is shared between calls, so one     *)
(* call at a time against a changing machine is all there is to it.        *)
(***************************************************************************)
EXTENDS Integers, Sequences, FiniteSets, Functions

CONSTANTS
    NumCpus,        \* possible CPUs, 0 .. NumCpus - 1
    MaxTicks,       \* bound of the accounting ticks
    MaxPlugs,       \* how often a CPU goes offline or comes online
    MaxCorrections, \* how often the kernel takes iowait time back
    MaxFaults       \* how often /proc/stat cannot be opened

ASSUME CpuAssumption ==
    /\ NumCpus \in Nat \ {0} /\ MaxTicks \in Nat /\ MaxPlugs \in Nat
    /\ MaxCorrections \in Nat /\ MaxFaults \in Nat

VARIABLES
    ticks,          \* accounting ticks so far
    spent,          \* the kernel's CPU time, by CPU and kind
    online,         \* CPUs that have a line of their own in /proc/stat
    plugs,          \* hotplug events so far
    corrections,    \* iowait corrections so far
    faults,         \* failed opens so far
    pc,             \* "idle", "sleep" or "answered"
    before,         \* local `before`: the lines of the first reading
    stats,          \* the CpuStats returned
    first,          \* history: the machine at the first reading
    second          \* history: the machine at the second reading

kernel == <<ticks, spent, online, plugs, corrections>>
vars == <<kernel, faults, pc, before, stats, first, second>>

Cpu == 0 .. NumCpus - 1

(* The columns of a cpu line that the percentages tell apart: user stands
   for user and nice, system for system, irq and softirq. *)
Kind == {"user", "system", "idle", "iowait", "steal"}

ZeroTimes == [k \in Kind |-> 0]

-------------------------------------------------------------------------------
(* CpuTimes and delta_percents.  A percentage is kept as its numerator and
   the total it is a share of, without the factor of 100 and the rounding. *)

SaturatingSub(a, b) == IF a >= b THEN a - b ELSE 0

Total(t) == t["user"] + t["system"] + t["idle"] + t["iowait"] + t["steal"]
IdleTotal(t) == t["idle"] + t["iowait"]

NoLoad == [load |-> 0, user |-> 0, sys |-> 0, of |-> 0]

(* Variant: the idle time is subtracted as a float, which does not saturate. *)
DeltaPercentsPlain(b, a) ==
    LET total == SaturatingSub(Total(a), Total(b))
    IN  IF total = 0
        THEN NoLoad
        ELSE [load |-> total - (IdleTotal(a) - IdleTotal(b)),
              user |-> SaturatingSub(a["user"], b["user"]),
              sys  |-> SaturatingSub(a["system"], b["system"]),
              of   |-> total]

DeltaPercents(b, a) ==
    LET total == SaturatingSub(Total(a), Total(b))
    IN  IF total = 0
        THEN NoLoad
        ELSE [load |-> total - SaturatingSub(IdleTotal(a), IdleTotal(b)),
              user |-> SaturatingSub(a["user"], b["user"]),
              sys  |-> SaturatingSub(a["system"], b["system"]),
              of   |-> total]

(* The lines of /proc/stat: the sum over all CPUs, then one line for each
   CPU that is online, in the order of their numbers. *)
Aggregate(times) == [k \in Kind |-> SumFunctionOnSet([c \in Cpu |-> times[c][k]], Cpu)]
NthCpu(cpus, i) == CHOOSE c \in cpus : Cardinality(cpus \cap 0 .. c) = i
CoreLines(times, cpus) == [i \in 1 .. Cardinality(cpus) |-> times[NthCpu(cpus, i)]]
StatLines(times, cpus) == <<Aggregate(times)>> \o CoreLines(times, cpus)

(* Variant: the line of all CPUs is taken for a core. *)
ComputeStatsUnskipped(b, a) ==
    LET pairs == IF Len(b) <= Len(a) THEN Len(b) ELSE Len(a)
    IN  [all   |-> IF b # <<>> /\ a # <<>> THEN DeltaPercents(b[1], a[1]) ELSE NoLoad,
         cores |-> [i \in 1 .. pairs |-> DeltaPercents(b[i], a[i])]]

(* Variant: the lines are paired one off. *)
ComputeStatsShifted(b, a) ==
    LET pairs == IF Len(b) <= Len(a) THEN Len(b) ELSE Len(a)
    IN  [all   |-> IF b # <<>> /\ a # <<>> THEN DeltaPercents(b[1], a[1]) ELSE NoLoad,
         cores |-> [i \in 1 .. SaturatingSub(pairs, 1) |-> DeltaPercents(b[i + 1], a[i])]]

(* compute_stats: the first lines give the totals, and the other lines of
   the two readings are paired by position, as far as the shorter goes. *)
ComputeStats(b, a) ==
    LET pairs == IF Len(b) <= Len(a) THEN Len(b) ELSE Len(a)
    IN  [all   |-> IF b # <<>> /\ a # <<>> THEN DeltaPercents(b[1], a[1]) ELSE NoLoad,
         cores |-> [i \in 1 .. SaturatingSub(pairs, 1) |-> DeltaPercents(b[i + 1], a[i + 1])]]

NoStats == [all |-> NoLoad, cores |-> <<>>]

-------------------------------------------------------------------------------
Machine == [spent |-> spent, online |-> online, plugs |-> plugs, corrections |-> corrections]
NoMachine == [spent |-> [c \in Cpu |-> ZeroTimes], online |-> {}, plugs |-> 0, corrections |-> 0]

Init ==
    /\ ticks = 0
    /\ spent = [c \in Cpu |-> ZeroTimes]
    /\ online = Cpu
    /\ plugs = 0
    /\ corrections = 0
    /\ faults = 0
    /\ pc = "idle"
    /\ before = <<>>
    /\ stats = NoStats
    /\ first = NoMachine
    /\ second = NoMachine

(* Every online CPU accounts one tick to one kind. *)
Tick ==
    /\ ticks < MaxTicks
    /\ ticks' = ticks + 1
    /\ \E kind \in [online -> Kind] :
         spent' = [c \in Cpu |-> IF c \in online
                                 THEN [spent[c] EXCEPT ![kind[c]] = @ + 1]
                                 ELSE spent[c]]
    /\ UNCHANGED <<online, plugs, corrections, faults, pc, before, stats, first, second>>

(* proc(5): the iowait field "decreases in certain conditions". *)
CorrectIowait(c) ==
    /\ corrections < MaxCorrections
    /\ spent[c]["iowait"] > 0
    /\ corrections' = corrections + 1
    /\ spent' = [spent EXCEPT ![c]["iowait"] = @ - 1]
    /\ UNCHANGED <<ticks, online, plugs, faults, pc, before, stats, first, second>>

(* CPU 0 stays; any other goes offline or comes back. *)
Plug(c) ==
    /\ c # 0
    /\ plugs < MaxPlugs
    /\ plugs' = plugs + 1
    /\ online' = IF c \in online THEN online \ {c} ELSE online \cup {c}
    /\ UNCHANGED <<ticks, spent, corrections, faults, pc, before, stats, first, second>>

ReadBefore ==
    /\ pc = "idle"
    /\ \/ before' = StatLines(spent, online) /\ UNCHANGED faults
       \/ faults < MaxFaults /\ faults' = faults + 1 /\ before' = <<>>
    /\ first' = Machine
    /\ pc' = "sleep"
    /\ UNCHANGED <<kernel, stats, second>>

(* After 100 ms the second reading is made and the percentages computed. *)
ReadAfter ==
    /\ pc = "sleep"
    /\ \/ stats' = ComputeStats(before, StatLines(spent, online)) /\ UNCHANGED faults
       \/ faults < MaxFaults /\ faults' = faults + 1 /\ stats' = ComputeStats(before, <<>>)
    /\ second' = Machine
    /\ before' = <<>>
    /\ pc' = "answered"
    /\ UNCHANGED <<kernel, first>>

Respond ==
    /\ pc = "answered"
    /\ stats' = NoStats
    /\ first' = NoMachine
    /\ second' = NoMachine
    /\ pc' = "idle"
    /\ UNCHANGED <<kernel, faults, before>>

Next ==
    \/ Tick
    \/ \E c \in Cpu : CorrectIowait(c) \/ Plug(c)
    \/ ReadBefore
    \/ ReadAfter
    \/ Respond

Spec == Init /\ [][Next]_vars

-------------------------------------------------------------------------------
(* Properties. *)

Load == [load : Int, user : Nat, sys : Nat, of : Nat]

(* Type correctness: what read_cpu_stats works with (cpu.rs:137-142). *)
TypeOK ==
    /\ ticks \in 0 .. MaxTicks
    /\ spent \in [Cpu -> [Kind -> 0 .. MaxTicks]]
    /\ online \subseteq Cpu
    /\ plugs \in 0 .. MaxPlugs
    /\ corrections \in 0 .. MaxCorrections
    /\ faults \in 0 .. MaxFaults
    /\ pc \in {"idle", "sleep", "answered"}
    /\ Len(before) <= NumCpus + 1
    /\ \A i \in DOMAIN before : before[i] \in [Kind -> Nat]
    /\ stats.all \in Load
    /\ Len(stats.cores) <= NumCpus
    /\ \A i \in DOMAIN stats.cores : stats.cores[i] \in Load

IsShare(l) == 0 <= l.user + l.sys /\ l.user + l.sys <= l.load /\ l.load <= l.of

(* The ticks of iowait time taken back between the readings. *)
TakenBack == second.corrections - first.corrections

Corrected == TakenBack # 0
Replugged == first.plugs # second.plugs

(* The load of all CPUs is a share of the time, and user and system time are
   disjoint parts of it (cpu.rs:116-129), also when CPUs come and go and readings
   fail.  When the kernel takes iowait time back in between, the saturated
   difference keeps the load a share; user and system time may then exceed it,
   but by no more than what was taken back. *)
AggregateIsShare ==
    pc = "answered" =>
      /\ 0 <= stats.all.load /\ stats.all.load <= stats.all.of
      /\ stats.all.user + stats.all.sys <= stats.all.load + TakenBack

(* The lines add up (cpu.rs:90-114): while no CPU comes or goes, there is a
   load for each online CPU, each is a share, and with every CPU online they
   sum to the load of all CPUs, so none is counted twice or left out. *)
CoresAddUp ==
    pc = "answered" /\ ~ Corrected /\ ~ Replugged /\ stats.all.of > 0 =>
      /\ Len(stats.cores) = Cardinality(second.online)
      /\ \A i \in DOMAIN stats.cores : IsShare(stats.cores[i])
      /\ second.online = Cpu =>
           /\ stats.all.load = SumFunction([i \in DOMAIN stats.cores |-> stats.cores[i].load])
           /\ stats.all.of = SumFunction([i \in DOMAIN stats.cores |-> stats.cores[i].of])

(* docs/tauri-migration-plan.md:97: a core's load is a "delta between two reads".
   The lines are paired by position (cpu.rs:98-107), so it is one of the two
   readings of one CPU for every position that the same CPU has in both, as those
   below the number of a CPU that came or went; above it is not. *)
CoreLoadsAreOfOneCpu ==
    pc = "answered" =>
      \A i \in DOMAIN stats.cores :
        LET cpu == NthCpu(second.online, i)
        IN  first.online \cap 0 .. cpu = second.online \cap 0 .. cpu
              => stats.cores[i] = DeltaPercents(first.spent[cpu], second.spent[cpu])
===============================================================================
