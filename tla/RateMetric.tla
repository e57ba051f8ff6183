------------------------------ MODULE RateMetric ------------------------------
(***************************************************************************)
(* The disk block of get_stats (the network block has the same text with   *)
(* other names), executed by concurrent get_stats calls on tokio's worker  *)
(* threads.  One call per Caller is in flight at a time; a Caller starts a *)
(* new one after its last ended, as a window's 1 s timer does, and several *)
(* Callers are several windows or several overlapping ticks of one.        *)
(*                                                                         *)
(*   "idle"    not inside the block                                        *)
(*   "read"    now_disk is taken, the counters are not read yet            *)
(*   "lock"    the counters are read, prev_disk is not asked for yet       *)
(*   "wait"    queued on prev_disk, or given it and not resumed            *)
(*   "store"   the rate is computed, the snapshot not yet replaced         *)
(*   "release" the snapshot is replaced, the guard still alive             *)
(***************************************************************************)
EXTENDS Rates, TokioMutex

CONSTANTS
    Caller,      \* concurrent get_stats calls
    MaxTime,     \* bound of the monotonic clock
    MaxCount,    \* bound of a kernel counter
    MaxFaults    \* how often a read may fail or a counter drop

ASSUME BoundsAssumption == MaxTime \in Nat /\ MaxCount \in Nat /\ MaxFaults \in Nat

VARIABLES
    clock,      \* the monotonic clock behind Instant::now()
    total,      \* the kernel's counters
    faults,     \* failed reads and dropped counters so far
    prev,       \* MetricsState.prev_disk: the stored snapshot
    lock,       \* the mutex around prev
    pc,         \* where each call is in the block
    now,        \* local now_disk of each call
    curr,       \* local curr_disk of each call
    stats,      \* local stats of each call
    ledger,     \* history: what the answers given so far add up to
    overtaken   \* history: calls another call has stored ahead of

kernel == <<clock, total, faults>>
locals == <<now, curr, stats>>
history == <<ledger, overtaken>>
vars == <<kernel, prev, lock, pc, locals, history>>

Counts == 0 .. MaxCount
Times == 0 .. MaxTime

Init ==
    /\ clock = 0
    /\ total \in [Field -> Counts]
    /\ faults = 0
    /\ prev = DefaultSnapshot
    /\ lock = Unlocked
    /\ pc = [c \in Caller |-> "idle"]
    /\ now = [c \in Caller |-> 0]
    /\ curr = [c \in Caller |-> ZeroCounters]
    /\ stats = [c \in Caller |-> ZeroRate]
    /\ ledger = [reported |-> ZeroCounters, unrated |-> ZeroCounters,
                 rewound |-> ZeroCounters, covered |-> 0, setback |-> 0,
                 first |-> TRUE]
    /\ overtaken = {}

-------------------------------------------------------------------------------
(* The machine. *)

ClockTicks ==
    /\ clock < MaxTime
    /\ clock' = clock + 1
    /\ UNCHANGED <<total, faults, prev, lock, pc, locals, history>>

CounterGrows(f) ==
    /\ total[f] < MaxCount
    /\ total' = [total EXCEPT ![f] = @ + 1]
    /\ UNCHANGED <<clock, faults, prev, lock, pc, locals, history>>

(* A disk or interface that was part of the sum goes away. *)
CounterDrops(f) ==
    /\ faults < MaxFaults
    /\ faults' = faults + 1
    /\ \E n \in Counts : n < total[f] /\ total' = [total EXCEPT ![f] = n]
    /\ UNCHANGED <<clock, prev, lock, pc, locals, history>>

-------------------------------------------------------------------------------
(* One call. *)

SampleNow(c) ==
    /\ pc[c] = "idle"
    /\ now' = [now EXCEPT ![c] = clock]
    /\ pc' = [pc EXCEPT ![c] = "read"]
    /\ UNCHANGED <<kernel, prev, lock, curr, stats, history>>

(* Variant: a failed open or parse silently yields zeros. *)
ReadCountersOrZero(c) ==
    /\ pc[c] = "read"
    /\ \E counters \in {total, ZeroCounters} : curr' = [curr EXCEPT ![c] = counters]
    /\ pc' = [pc EXCEPT ![c] = "lock"]
    /\ UNCHANGED <<kernel, prev, lock, now, stats, history>>

ReadCounters(c) ==
    /\ pc[c] = "read"
    /\ curr' = [curr EXCEPT ![c] = total]
    /\ pc' = [pc EXCEPT ![c] = "lock"]
    /\ UNCHANGED <<kernel, prev, lock, now, stats, history>>

(* /proc/diskstats cannot be opened: the counters are taken to be zero. *)
ReadFails(c) ==
    /\ pc[c] = "read"
    /\ faults < MaxFaults
    /\ faults' = faults + 1
    /\ curr' = [curr EXCEPT ![c] = ZeroCounters]
    /\ pc' = [pc EXCEPT ![c] = "lock"]
    /\ UNCHANGED <<clock, total, prev, lock, now, stats, history>>

AskForLock(c) ==
    /\ pc[c] = "lock"
    /\ lock' = JoinQueue(lock, c)
    /\ pc' = [pc EXCEPT ![c] = "wait"]
    /\ UNCHANGED <<kernel, prev, locals, history>>

(* Variant: the rate is computed without waiting for the guard. *)
ComputeUnlocked(c) ==
    /\ pc[c] = "wait"
    /\ stats' = [stats EXCEPT ![c] = ComputeStats(prev, curr[c], now[c])]
    /\ pc' = [pc EXCEPT ![c] = "store"]
    /\ UNCHANGED <<kernel, prev, lock, now, curr, history>>

Compute(c) ==
    /\ pc[c] = "wait"
    /\ Holds(lock, c)
    /\ stats' = [stats EXCEPT ![c] = ComputeStats(prev, curr[c], now[c])]
    /\ pc' = [pc EXCEPT ![c] = "store"]
    /\ UNCHANGED <<kernel, prev, lock, now, curr, history>>

(* Calls whose now_disk is taken and whose snapshot is not stored yet. *)
Sampled == {"read", "lock", "wait"}

(* The history of an answer: the counts and the time it reports, the counts
   its zero elapsed time leaves out, and by how much the stored snapshot
   goes back, in counts and in time. *)
Gained(c) == Deltas(prev, curr[c])
Lost(c) == [f \in Field |-> SaturatingSub(prev.counters[f], curr[c][f])]
Rated(c) == now[c] > prev.at

Book(c) ==
    [reported |-> [f \in Field |-> ledger.reported[f] + stats[c].delta[f]],
     unrated  |-> [f \in Field |-> ledger.unrated[f] + IF Rated(c) THEN 0 ELSE Gained(c)[f]],
     rewound  |-> [f \in Field |-> ledger.rewound[f] + Lost(c)[f]],
     covered  |-> ledger.covered + stats[c].secs,
     setback  |-> ledger.setback + SaturatingSub(prev.at, now[c]),
     first    |-> FALSE]

(* Variant: only the counters of the snapshot are replaced. *)
StoreCountersOnly(c) ==
    /\ pc[c] = "store"
    /\ prev' = [prev EXCEPT !.counters = curr[c]]
    /\ pc' = [pc EXCEPT ![c] = "release"]
    /\ ledger' = Book(c)
    /\ overtaken' = (overtaken \cup {d \in Caller : pc[d] \in Sampled}) \ {c}
    /\ UNCHANGED <<kernel, lock, locals>>

(* Variant: the Instant is taken again when the snapshot is stored. *)
StoreRestamped(c) ==
    /\ pc[c] = "store"
    /\ prev' = [counters |-> curr[c], at |-> clock]
    /\ pc' = [pc EXCEPT ![c] = "release"]
    /\ ledger' = Book(c)
    /\ overtaken' = (overtaken \cup {d \in Caller : pc[d] \in Sampled}) \ {c}
    /\ UNCHANGED <<kernel, lock, locals>>

Store(c) ==
    /\ pc[c] = "store"
    /\ prev' = [counters |-> curr[c], at |-> now[c]]
    /\ pc' = [pc EXCEPT ![c] = "release"]
    /\ ledger' = Book(c)
    /\ overtaken' = (overtaken \cup {d \in Caller : pc[d] \in Sampled}) \ {c}
    /\ UNCHANGED <<kernel, lock, locals>>

(* The answer is handed on and the locals of the block end with it. *)
Release(c) ==
    /\ pc[c] = "release"
    /\ lock' = DropGuard(lock)
    /\ pc' = [pc EXCEPT ![c] = "idle"]
    /\ now' = [now EXCEPT ![c] = 0]
    /\ curr' = [curr EXCEPT ![c] = ZeroCounters]
    /\ stats' = [stats EXCEPT ![c] = ZeroRate]
    /\ UNCHANGED <<kernel, prev, history>>

CallSteps(c) ==
    \/ SampleNow(c)
    \/ ReadCounters(c)
    \/ ReadFails(c)
    \/ AskForLock(c)
    \/ Compute(c)
    \/ Store(c)
    \/ Release(c)

Next ==
    \/ ClockTicks
    \/ \E f \in Field : CounterGrows(f) \/ CounterDrops(f)
    \/ \E c \in Caller : CallSteps(c)

Spec == Init /\ [][Next]_vars

-------------------------------------------------------------------------------
(* Properties. *)

Critical == {"store", "release"}
Stages == {"idle"} \cup Sampled \cup Critical

Ledger == [reported : [Field -> Nat], unrated : [Field -> Nat],
           rewound : [Field -> Nat], covered : Nat, setback : Nat,
           first : BOOLEAN]

(* Type correctness: the block's state (lib.rs:12-19, disk.rs:16-19). *)
TypeOK ==
    /\ clock \in Times
    /\ total \in [Field -> Counts]
    /\ faults \in 0 .. MaxFaults
    /\ prev \in SnapshotOver(Counts, Times)
    /\ lock \in Seq(Caller)
    /\ pc \in [Caller -> Stages]
    /\ now \in [Caller -> Times]
    /\ curr \in [Caller -> [Field -> Counts]]
    /\ stats \in [Caller -> RateOver(Counts, Times)]
    /\ ledger \in Ledger
    /\ overtaken \subseteq Caller

(* The guard of prev_disk protects what it is meant to (lib.rs:14-19): the
   calls that hold or want the lock are those in its queue, each once, and
   only the one at the head is between computing and releasing.  So two
   calls never use the same stored snapshot, and the queue never names a
   call that would not take its turn. *)
QueueIsWaiters == \A c \in Caller : Wants(lock, c) <=> pc[c] \in {"wait"} \cup Critical
QueueIsDistinct == \A i, j \in DOMAIN lock : lock[i] = lock[j] => i = j
CriticalHolds == \A c \in Caller : pc[c] \in Critical => Holds(lock, c)

LockDiscipline == QueueIsWaiters /\ QueueIsDistinct /\ CriticalHolds

(* No answer invents or drops a count or a second (lib.rs:15-18,
   disk.rs:89-98): what all answers report, with the counts a zero elapsed
   time leaves out, is exactly where the stored snapshot stands plus how far
   it was ever set back; likewise for time.  Averages over a run of answers
   are right although one answer's counters and Instant are read apart. *)
Accounting ==
    /\ \A f \in Field :
          ledger.reported[f] + ledger.unrated[f] = prev.counters[f] + ledger.rewound[f]
    /\ ledger.covered = prev.at + ledger.setback

(* A rate that waits to be stored is the rate since the snapshot that is
   still in the cell: nothing changed it since it was read (lib.rs:16-17). *)
ComputedIsCurrent ==
    \A c \in Caller : pc[c] = "store" => stats[c] = ComputeStats(prev, curr[c], now[c])

(* While reads succeed and no counter drops, the cell is behind the machine,
   and behind every call in the block that no other call has stored ahead of. *)
CellIsBehind ==
    faults = 0 =>
      /\ prev.at <= clock
      /\ \A f \in Field : prev.counters[f] <= total[f]
      /\ \A c \in Caller :
            /\ pc[c] \in Sampled \cup {"store"} => now[c] <= clock
            /\ pc[c] \in {"lock", "wait", "store"} =>
                  \A f \in Field : curr[c][f] <= total[f]
            /\ c \notin overtaken =>
                 /\ pc[c] \in Sampled \cup {"store"} => prev.at <= now[c]
                 /\ pc[c] \in {"lock", "wait", "store"} =>
                       \A f \in Field : prev.counters[f] <= curr[c][f]

(* The inductive invariant: what the steps themselves need to preserve it. *)
IInv == TypeOK /\ LockDiscipline /\ ComputedIsCurrent /\ Accounting /\ CellIsBehind

(* Only a call that another has stored ahead of may set the snapshot back
   (lib.rs:12-13 sample before lib.rs:15 waits): as long as reads succeed
   and no counter drops, calls that do not overlap leave a snapshot that only
   advances, so nothing they report is reported twice. *)
RewindNeedsOvertaking ==
    [][ \/ faults # 0
        \/ /\ ledger'.rewound = ledger.rewound
           /\ ledger'.setback = ledger.setback
        \/ \E c \in overtaken : Store(c) ]_vars

(* The block is an atomic exchange of snapshots: a call offers one when its
   counters are read and has swapped it when it is stored. *)
OfferOf(c) == [counters |-> curr[c], at |-> now[c]]

ExchangeCall ==
    [c \in Caller |->
       IF pc[c] \in {"lock", "wait", "store"}
       THEN [phase |-> "offered", snap |-> OfferOf(c)]
       ELSE IF pc[c] = "release"
       THEN [phase |-> "answered", rate |-> stats[c]]
       ELSE [phase |-> "idle"]]

Exchange == INSTANCE SnapshotExchange WITH
    Snapshot <- SnapshotOver(Counts, Times), cell <- prev, call <- ExchangeCall

(* The block implements the exchange (lib.rs:12-19): however calls overlap,
   each answer is the rate since the snapshot that it replaces. *)
ImplementsExchange == Exchange!Spec

-------------------------------------------------------------------------------
(* Statements of the repository that the code does not keep. *)

(* docs/tauri-migration-plan.md:138 "first response returns zeros". *)
FirstResponseIsZero ==
    \A c \in Caller : ledger.first /\ pc[c] = "store" => stats[c].delta = ZeroCounters

(* disk.rs:87 "given a previous and current snapshot": what a call finds in
   the cell was sampled no later than its own snapshot. *)
StoredIsPrevious ==
    \A c \in Caller : pc[c] = "store" => prev.at <= now[c]
===============================================================================
