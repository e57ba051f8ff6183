--------------------------- MODULE RateMetricProofs ---------------------------
(***************************************************************************)
(* Theorems about RateMetric, for any set of callers and of counters and   *)
(* any bounds.                                                             *)
(***************************************************************************)
EXTENDS RateMetric, SharedLemmas

-------------------------------------------------------------------------------
(* Lemmas about the operators. *)

(* The saturating difference of two bounded numbers stays within the bound. *)
LEMMA SaturatingSubRange ==
    ASSUME NEW n \in Nat, NEW a \in 0 .. n, NEW b \in 0 .. n
    PROVE  SaturatingSub(a, b) \in 0 .. n
BY DEF SaturatingSub

(* The two saturating differences are the gain and the loss between two
   numbers: one of them is zero, and together they lead from one to the other. *)
LEMMA GainAndLoss ==
    ASSUME NEW a \in Nat, NEW b \in Nat
    PROVE  /\ SaturatingSub(a, b) \in Nat
           /\ SaturatingSub(b, a) \in Nat
           /\ SaturatingSub(a, b) + b = a + SaturatingSub(b, a)
           /\ a >= b => SaturatingSub(b, a) = 0
BY DEF SaturatingSub

LEMMA ZerosType ==
    /\ ZeroCounters \in [Field -> Counts]
    /\ ZeroRate \in RateOver(Counts, Times)
    /\ DefaultSnapshot \in SnapshotOver(Counts, Times)
<1>1. 0 \in Counts /\ 0 \in Times
  BY BoundsAssumption DEF Counts, Times
<1> QED
  BY <1>1 DEF ZeroCounters, ZeroRate, DefaultSnapshot, RateOver, SnapshotOver

(* A rate between bounded snapshots is bounded. *)
LEMMA ComputeStatsType ==
    ASSUME NEW p \in SnapshotOver(Counts, Times),
           NEW k \in [Field -> Counts], NEW n \in Times
    PROVE  ComputeStats(p, k, n) \in RateOver(Counts, Times)
<1>1. SaturatingSub(n, p.at) \in Times
  BY SaturatingSubRange, BoundsAssumption DEF SnapshotOver, Times
<1>2. ASSUME NEW f \in Field PROVE SaturatingSub(k[f], p.counters[f]) \in Counts
  <2>1. k[f] \in 0 .. MaxCount /\ p.counters[f] \in 0 .. MaxCount
    BY DEF SnapshotOver, Counts
  <2> QED
    BY <2>1, SaturatingSubRange, BoundsAssumption DEF Counts
<1>3. Deltas(p, k) \in [Field -> Counts]
  BY <1>2 DEF Deltas
<1> QED
  BY <1>1, <1>3, ZerosType DEF ComputeStats, RateOver

-------------------------------------------------------------------------------
(* Type correctness. *)

(* The numbers a booking adds up are naturals, field by field. *)
LEMMA BookedNumbers ==
    ASSUME TypeOK, NEW c \in Caller, NEW f \in Field
    PROVE  /\ prev.counters[f] \in Nat /\ prev.at \in Nat
           /\ curr[c][f] \in Nat /\ now[c] \in Nat
           /\ stats[c].delta[f] \in Nat /\ stats[c].secs \in Nat
           /\ ledger.reported[f] \in Nat /\ ledger.unrated[f] \in Nat
           /\ ledger.rewound[f] \in Nat /\ ledger.covered \in Nat
           /\ ledger.setback \in Nat
<1>1. prev.counters \in [Field -> Counts] /\ prev.at \in Times
  BY DEF TypeOK, SnapshotOver
<1>2. stats[c].delta \in [Field -> Counts] /\ stats[c].secs \in Times
  BY DEF TypeOK, RateOver
<1>3. curr[c] \in [Field -> Counts] /\ now[c] \in Times
  BY DEF TypeOK
<1>4. /\ ledger.reported \in [Field -> Nat] /\ ledger.unrated \in [Field -> Nat]
      /\ ledger.rewound \in [Field -> Nat] /\ ledger.covered \in Nat
      /\ ledger.setback \in Nat
  BY DEF TypeOK, Ledger
<1> QED
  BY <1>1, <1>2, <1>3, <1>4, BoundsAssumption DEF Counts, Times

(* A booking keeps the ledger a ledger. *)
LEMMA BookType ==
    ASSUME TypeOK, NEW c \in Caller
    PROVE  Book(c) \in Ledger
<1>1. ASSUME NEW f \in Field
      PROVE  /\ ledger.reported[f] + stats[c].delta[f] \in Nat
             /\ ledger.unrated[f] + (IF Rated(c) THEN 0 ELSE Gained(c)[f]) \in Nat
             /\ ledger.rewound[f] + Lost(c)[f] \in Nat
  <2>1. Gained(c)[f] \in Nat /\ Lost(c)[f] \in Nat
    BY BookedNumbers DEF Gained, Lost, Deltas, SaturatingSub
  <2> QED
    BY <2>1, BookedNumbers
<1>2. ledger.covered \in Nat /\ ledger.setback \in Nat
  BY DEF TypeOK, Ledger
<1>3. stats[c].secs \in Nat /\ SaturatingSub(prev.at, now[c]) \in Nat
  BY BoundsAssumption DEF TypeOK, RateOver, SnapshotOver, SaturatingSub, Times
<1>4. /\ ledger.covered + stats[c].secs \in Nat
      /\ ledger.setback + SaturatingSub(prev.at, now[c]) \in Nat
  BY <1>2, <1>3
<1> QED
  BY <1>1, <1>4 DEF Book, Ledger

LEMMA TypeInit == Init => TypeOK
<1> SUFFICES ASSUME Init PROVE TypeOK
  OBVIOUS
<1>1. 0 \in Counts /\ 0 \in Times /\ 0 \in 0 .. MaxFaults
  BY BoundsAssumption DEF Counts, Times
<1>2. ledger \in Ledger
  BY DEF Init, Ledger, ZeroCounters
<1>3. lock \in Seq(Caller)
  BY DEF Init, Unlocked
<1> QED
  BY <1>1, <1>2, <1>3, ZerosType DEF Init, TypeOK, Stages

LEMMA TypeStep == TypeOK /\ CriticalHolds /\ [Next]_vars => TypeOK'
<1> SUFFICES ASSUME TypeOK, CriticalHolds, [Next]_vars PROVE TypeOK'
  OBVIOUS
<1> USE BoundsAssumption DEF TypeOK, Stages, Sampled, Critical
<1>1. CASE ClockTicks
  BY <1>1 DEF ClockTicks, locals, history, Times
<1>2. ASSUME NEW f \in Field, CounterGrows(f) PROVE TypeOK'
  <2>1. total' \in [Field -> Counts]
    BY <1>2 DEF CounterGrows, Counts
  <2> QED
    BY <1>2, <2>1 DEF CounterGrows, locals, history
<1>3. ASSUME NEW f \in Field, CounterDrops(f) PROVE TypeOK'
  BY <1>3 DEF CounterDrops, locals, history
<1>4. ASSUME NEW c \in Caller, SampleNow(c) PROVE TypeOK'
  BY <1>4 DEF SampleNow, kernel, history
<1>5. ASSUME NEW c \in Caller, ReadCounters(c) PROVE TypeOK'
  BY <1>5 DEF ReadCounters, kernel, history
<1>6. ASSUME NEW c \in Caller, ReadFails(c) PROVE TypeOK'
  BY <1>6, ZerosType DEF ReadFails, history
<1>7. ASSUME NEW c \in Caller, AskForLock(c) PROVE TypeOK'
  <2>1. lock' \in Seq(Caller)
    BY <1>7, JoinQueueFacts DEF AskForLock
  <2> QED
    BY <1>7, <2>1 DEF AskForLock, kernel, locals, history
<1>8. ASSUME NEW c \in Caller, Compute(c) PROVE TypeOK'
  BY <1>8, ComputeStatsType DEF Compute, kernel, history
<1>9. ASSUME NEW c \in Caller, Store(c) PROVE TypeOK'
  <2>1. prev' \in SnapshotOver(Counts, Times)
    BY <1>9 DEF Store, SnapshotOver
  <2>2. ledger' \in Ledger
    BY <1>9, BookType DEF Store
  <2> QED
    BY <1>9, <2>1, <2>2 DEF Store, kernel, locals
<1>10. ASSUME NEW c \in Caller, Release(c) PROVE TypeOK'
  <2>1. lock' \in Seq(Caller)
    BY <1>10, DropGuardFacts DEF Release, CriticalHolds
  <2> QED
    BY <1>10, <2>1, ZerosType DEF Release, kernel, history, Times
<1>11. CASE UNCHANGED vars
  BY <1>11 DEF vars, kernel, locals, history
<1> QED
  BY <1>1, <1>2, <1>3, <1>4, <1>5, <1>6, <1>7, <1>8, <1>9, <1>10, <1>11
     DEF Next, CallSteps

-------------------------------------------------------------------------------
(* The lock protocol. *)

LEMMA LockInit == Init => LockDiscipline
BY DEF Init, LockDiscipline, QueueIsWaiters, QueueIsDistinct, CriticalHolds,
       Critical, Unlocked, Wants

(* A step that moves no call into or out of the queue or of the critical
   stages keeps the protocol. *)
LEMMA LockFrame ==
    ASSUME LockDiscipline, UNCHANGED lock,
           \A c \in Caller : pc'[c] \in {"wait"} \cup Critical <=> pc[c] \in {"wait"} \cup Critical,
           \A c \in Caller : pc'[c] \in Critical => pc[c] \in Critical \/ Holds(lock, c)
    PROVE  LockDiscipline'
BY DEF LockDiscipline, QueueIsWaiters, QueueIsDistinct, CriticalHolds

LEMMA LockJoin ==
    ASSUME TypeOK, LockDiscipline, NEW c \in Caller, AskForLock(c)
    PROVE  LockDiscipline'
<1> USE DEF LockDiscipline, Critical
<1>1. lock \in Seq(Caller) /\ lock' = JoinQueue(lock, c) /\ Distinct(lock)
  BY DEF TypeOK, AskForLock, QueueIsDistinct, Distinct
<1>2. ~ Wants(lock, c)
  BY DEF AskForLock, QueueIsWaiters
<1>3. /\ pc'[c] = "wait"
      /\ \A d \in Caller : d # c => pc'[d] = pc[d]
  BY DEF AskForLock, TypeOK
<1>4. QueueIsWaiters'
  <2>1. \A d : Wants(lock', d) <=> Wants(lock, d) \/ d = c
    BY <1>1, JoinedWants
  <2> QED
    BY <1>3, <2>1 DEF QueueIsWaiters
<1>5. QueueIsDistinct'
  <2>1. Distinct(lock')
    BY <1>1, <1>2, JoinedWants
  <2> QED
    BY <2>1 DEF QueueIsDistinct, Distinct
<1>6. CriticalHolds'
  BY <1>1, <1>3, JoinQueueFacts DEF CriticalHolds
<1> QED
  BY <1>4, <1>5, <1>6

LEMMA LockDrop ==
    ASSUME TypeOK, LockDiscipline, NEW c \in Caller, Release(c)
    PROVE  LockDiscipline'
<1> USE DEF LockDiscipline, Critical
<1>1. /\ lock \in Seq(Caller) /\ lock' = DropGuard(lock)
      /\ Holds(lock, c) /\ Distinct(lock)
  BY DEF TypeOK, Release, CriticalHolds, QueueIsDistinct, Distinct
<1>2. /\ pc'[c] = "idle"
      /\ \A d \in Caller : d # c => pc'[d] = pc[d]
  BY DEF Release, TypeOK
<1>3. QueueIsWaiters'
  <2>1. \A d : Wants(lock', d) <=> Wants(lock, d) /\ d # c
    BY <1>1, DroppedWants
  <2> QED
    BY <1>2, <2>1 DEF QueueIsWaiters
<1>4. QueueIsDistinct'
  <2>1. Distinct(lock')
    BY <1>1, DroppedWants
  <2> QED
    BY <2>1 DEF QueueIsDistinct, Distinct
<1>5. \A d \in Caller : pc'[d] \notin Critical
  BY <1>1, <1>2 DEF CriticalHolds, Holds
<1> QED
  BY <1>3, <1>4, <1>5 DEF CriticalHolds

LEMMA LockStep == TypeOK /\ LockDiscipline /\ [Next]_vars => LockDiscipline'
<1> SUFFICES ASSUME TypeOK, LockDiscipline, [Next]_vars PROVE LockDiscipline'
  OBVIOUS
<1> USE LockFrame DEF TypeOK, Critical
<1>1. CASE ClockTicks
  BY <1>1 DEF ClockTicks
<1>2. ASSUME NEW f \in Field, CounterGrows(f) \/ CounterDrops(f) PROVE LockDiscipline'
  BY <1>2 DEF CounterGrows, CounterDrops
<1>3. ASSUME NEW c \in Caller, SampleNow(c) PROVE LockDiscipline'
  BY <1>3 DEF SampleNow
<1>4. ASSUME NEW c \in Caller, ReadCounters(c) \/ ReadFails(c) PROVE LockDiscipline'
  BY <1>4 DEF ReadCounters, ReadFails
<1>5. ASSUME NEW c \in Caller, AskForLock(c) PROVE LockDiscipline'
  BY <1>5, LockJoin
<1>6. ASSUME NEW c \in Caller, Compute(c) PROVE LockDiscipline'
  BY <1>6 DEF Compute
<1>7. ASSUME NEW c \in Caller, Store(c) PROVE LockDiscipline'
  BY <1>7 DEF Store
<1>8. ASSUME NEW c \in Caller, Release(c) PROVE LockDiscipline'
  BY <1>8, LockDrop
<1>9. CASE UNCHANGED vars
  BY <1>9 DEF vars
<1> QED
  BY <1>1, <1>2, <1>3, <1>4, <1>5, <1>6, <1>7, <1>8, <1>9 DEF Next, CallSteps

-------------------------------------------------------------------------------
(* What the answers add up to. *)

LEMMA ComputedStep ==
    TypeOK /\ LockDiscipline /\ ComputedIsCurrent /\ [Next]_vars => ComputedIsCurrent'
<1> SUFFICES ASSUME TypeOK, LockDiscipline, ComputedIsCurrent, [Next]_vars
             PROVE  ComputedIsCurrent'
  OBVIOUS
<1> USE DEF TypeOK, ComputedIsCurrent
<1>1. CASE ClockTicks
  BY <1>1 DEF ClockTicks, locals
<1>2. ASSUME NEW f \in Field, CounterGrows(f) \/ CounterDrops(f) PROVE ComputedIsCurrent'
  BY <1>2 DEF CounterGrows, CounterDrops, locals
<1>3. ASSUME NEW c \in Caller, SampleNow(c) PROVE ComputedIsCurrent'
  BY <1>3 DEF SampleNow
<1>4. ASSUME NEW c \in Caller, ReadCounters(c) \/ ReadFails(c) PROVE ComputedIsCurrent'
  BY <1>4 DEF ReadCounters, ReadFails
<1>5. ASSUME NEW c \in Caller, AskForLock(c) PROVE ComputedIsCurrent'
  BY <1>5 DEF AskForLock, locals
<1>6. ASSUME NEW c \in Caller, Compute(c) PROVE ComputedIsCurrent'
  BY <1>6 DEF Compute
<1>7. ASSUME NEW c \in Caller, Store(c) PROVE ComputedIsCurrent'
  <2>1. \A d \in Caller : pc'[d] # "store"
    BY <1>7 DEF Store, LockDiscipline, CriticalHolds, Critical, Holds
  <2> QED
    BY <2>1
<1>8. ASSUME NEW c \in Caller, Release(c) PROVE ComputedIsCurrent'
  BY <1>8 DEF Release
<1>9. CASE UNCHANGED vars
  BY <1>9 DEF vars, locals
<1> QED
  BY <1>1, <1>2, <1>3, <1>4, <1>5, <1>6, <1>7, <1>8, <1>9 DEF Next, CallSteps

(* Only a Store books anything. *)
LEMMA OnlyStoreBooks ==
    [Next]_vars => UNCHANGED <<prev, ledger>> \/ \E c \in Caller : Store(c)
BY DEF Next, CallSteps, ClockTicks, CounterGrows, CounterDrops, SampleNow,
       ReadCounters, ReadFails, AskForLock, Compute, Release, vars, history

LEMMA AccountingStep ==
    TypeOK /\ ComputedIsCurrent /\ Accounting /\ [Next]_vars => Accounting'
<1> SUFFICES ASSUME TypeOK, ComputedIsCurrent, Accounting, [Next]_vars
             PROVE  Accounting'
  OBVIOUS
<1>1. CASE UNCHANGED <<prev, ledger>>
  BY <1>1 DEF Accounting
<1>2. ASSUME NEW c \in Caller, Store(c) PROVE Accounting'
  <2>1. /\ prev' = [counters |-> curr[c], at |-> now[c]]
        /\ ledger' = Book(c)
        /\ stats[c] = ComputeStats(prev, curr[c], now[c])
    BY <1>2 DEF Store, ComputedIsCurrent
  <2>2. ASSUME NEW f \in Field
        PROVE  ledger'.reported[f] + ledger'.unrated[f] = prev'.counters[f] + ledger'.rewound[f]
    <3> DEFINE gain == SaturatingSub(curr[c][f], prev.counters[f])
               loss == SaturatingSub(prev.counters[f], curr[c][f])
    <3>1. /\ gain \in Nat /\ loss \in Nat
          /\ gain + prev.counters[f] = curr[c][f] + loss
      BY BookedNumbers, GainAndLoss
    <3>2. /\ ledger'.reported[f] = ledger.reported[f] + stats[c].delta[f]
          /\ ledger'.unrated[f] = ledger.unrated[f] + IF Rated(c) THEN 0 ELSE gain
          /\ ledger'.rewound[f] = ledger.rewound[f] + loss
          /\ prev'.counters[f] = curr[c][f]
      BY <2>1 DEF Book, Gained, Lost, Deltas
    <3>3. stats[c].delta[f] = IF Rated(c) THEN gain ELSE 0
      BY <2>1, BookedNumbers DEF ComputeStats, ZeroRate, ZeroCounters, Deltas, Rated, SaturatingSub
    <3>4. ledger.reported[f] + ledger.unrated[f] = prev.counters[f] + ledger.rewound[f]
      BY DEF Accounting
    <3> HIDE DEF gain, loss
    <3> QED
      BY <3>1, <3>2, <3>3, <3>4, BookedNumbers
  <2>3. ledger'.covered = prev'.at + ledger'.setback
    <3>1. /\ prev.at \in Nat /\ now[c] \in Nat /\ ledger.covered \in Nat
          /\ ledger.setback \in Nat
      BY BoundsAssumption DEF TypeOK, SnapshotOver, Ledger, Times
    <3>2. stats[c].secs = SaturatingSub(now[c], prev.at)
      BY <2>1 DEF ComputeStats, ZeroRate
    <3>3. /\ ledger'.covered = ledger.covered + SaturatingSub(now[c], prev.at)
          /\ ledger'.setback = ledger.setback + SaturatingSub(prev.at, now[c])
          /\ prev'.at = now[c]
      BY <2>1, <3>2 DEF Book
    <3>4. ledger.covered = prev.at + ledger.setback
      BY DEF Accounting
    <3> QED
      BY <3>1, <3>3, <3>4 DEF SaturatingSub
  <2> QED
    BY <2>2, <2>3 DEF Accounting
<1> QED
  BY <1>1, <1>2, OnlyStoreBooks

LEMMA AccountingInit == Init => Accounting /\ ComputedIsCurrent
BY DEF Init, Accounting, ComputedIsCurrent, DefaultSnapshot, ZeroCounters

-------------------------------------------------------------------------------
(* The block implements the exchange of snapshots. *)

LEMMA SameRates ==
    /\ Exchange!DefaultSnapshot = DefaultSnapshot
    /\ \A p, k, n : Exchange!ComputeStats(p, k, n) = ComputeStats(p, k, n)
BY DEF Exchange!DefaultSnapshot, DefaultSnapshot, Exchange!ComputeStats, ComputeStats,
       Exchange!ZeroRate, ZeroRate, Exchange!ZeroCounters, ZeroCounters,
       Exchange!Deltas, Deltas, Exchange!SaturatingSub, SaturatingSub

LEMMA ExchangeInit == Init => Exchange!Init
BY SameRates DEF Init, Exchange!Init, ExchangeCall, Exchange!Idle

(* A step that leaves the cell and every call's place in the exchange alone
   is a stutter of the exchange. *)
LEMMA ExchangeStutter ==
    ASSUME UNCHANGED prev, \A c \in Caller : ExchangeCall'[c] = ExchangeCall[c]
    PROVE  UNCHANGED Exchange!vars
BY DEF Exchange!vars, ExchangeCall

(* A step of one call leaves the others where they are in the exchange. *)
LEMMA ExchangeOthers ==
    ASSUME NEW c \in Caller, TypeOK,
           \A d \in Caller \ {c} : /\ pc'[d] = pc[d] /\ stats'[d] = stats[d]
                                  /\ now'[d] = now[d] /\ curr'[d] = curr[d]
    PROVE  /\ \A d \in Caller \ {c} : ExchangeCall'[d] = ExchangeCall[d]
           /\ ExchangeCall' = [ExchangeCall EXCEPT ![c] = ExchangeCall'[c]]
BY DEF ExchangeCall, OfferOf

LEMMA ExchangeStep ==
    TypeOK /\ TypeOK' /\ ComputedIsCurrent /\ [Next]_vars
      => [Exchange!Next]_(Exchange!vars)
<1> SUFFICES ASSUME TypeOK, TypeOK', ComputedIsCurrent, [Next]_vars
             PROVE  Exchange!Next \/ UNCHANGED Exchange!vars
  OBVIOUS
<1>1. CASE ClockTicks \/ UNCHANGED vars \/ \E f \in Field : CounterGrows(f) \/ CounterDrops(f)
  <2>1. UNCHANGED <<prev, pc, now, curr, stats>>
    BY <1>1 DEF ClockTicks, CounterGrows, CounterDrops, vars, locals
  <2> QED
    BY <2>1, ExchangeStutter DEF ExchangeCall, OfferOf
<1>2. ASSUME NEW c \in Caller, SampleNow(c) \/ AskForLock(c) \/ Compute(c)
      PROVE  UNCHANGED Exchange!vars
  <2>1. \A d \in Caller \ {c} : /\ pc'[d] = pc[d] /\ stats'[d] = stats[d]
                               /\ now'[d] = now[d] /\ curr'[d] = curr[d]
    BY <1>2 DEF SampleNow, AskForLock, Compute, TypeOK, locals
  <2>2. ExchangeCall'[c] = ExchangeCall[c]
    BY <1>2 DEF SampleNow, AskForLock, Compute, ExchangeCall, OfferOf, TypeOK, locals
  <2>3. UNCHANGED prev
    BY <1>2 DEF SampleNow, AskForLock, Compute
  <2> QED
    BY <2>1, <2>2, <2>3, ExchangeOthers, ExchangeStutter
<1>3. ASSUME NEW c \in Caller, ReadCounters(c) \/ ReadFails(c) PROVE Exchange!Offer(c)
  <2>1. \A d \in Caller \ {c} : /\ pc'[d] = pc[d] /\ stats'[d] = stats[d]
                               /\ now'[d] = now[d] /\ curr'[d] = curr[d]
    BY <1>3 DEF ReadCounters, ReadFails, TypeOK
  <2>2. ExchangeCall[c] = Exchange!Idle
    BY <1>3 DEF ReadCounters, ReadFails, ExchangeCall, Exchange!Idle
  <2>3. ExchangeCall'[c] = Exchange!Offered(OfferOf(c)')
    BY <1>3 DEF ReadCounters, ReadFails, ExchangeCall, Exchange!Offered, TypeOK
  <2>4. OfferOf(c)' \in SnapshotOver(Counts, Times)
    BY DEF OfferOf, SnapshotOver, TypeOK
  <2>5. UNCHANGED prev
    BY <1>3 DEF ReadCounters, ReadFails
  <2> QED
    BY <2>1, <2>2, <2>3, <2>4, <2>5, ExchangeOthers DEF Exchange!Offer
<1>4. ASSUME NEW c \in Caller, Store(c) PROVE Exchange!Swap(c)
  <2>1. \A d \in Caller \ {c} : /\ pc'[d] = pc[d] /\ stats'[d] = stats[d]
                               /\ now'[d] = now[d] /\ curr'[d] = curr[d]
    BY <1>4 DEF Store, TypeOK, locals
  <2>2. /\ ExchangeCall[c].phase = "offered"
        /\ ExchangeCall[c].snap = OfferOf(c)
    BY <1>4 DEF Store, ExchangeCall
  <2>3. ExchangeCall'[c] = Exchange!Answered(stats[c])
    BY <1>4 DEF Store, ExchangeCall, Exchange!Answered, TypeOK, locals
  <2>4. stats[c] = Exchange!ComputeStats(prev, OfferOf(c).counters, OfferOf(c).at)
    BY <1>4, SameRates DEF Store, ComputedIsCurrent, OfferOf
  <2>5. prev' = OfferOf(c)
    BY <1>4 DEF Store, OfferOf
  <2> QED
    BY <2>1, <2>2, <2>3, <2>4, <2>5, ExchangeOthers DEF Exchange!Swap
<1>5. ASSUME NEW c \in Caller, Release(c) PROVE Exchange!Deliver(c)
  <2>1. \A d \in Caller \ {c} : /\ pc'[d] = pc[d] /\ stats'[d] = stats[d]
                               /\ now'[d] = now[d] /\ curr'[d] = curr[d]
    BY <1>5 DEF Release, TypeOK
  <2>2. ExchangeCall[c].phase = "answered"
    BY <1>5 DEF Release, ExchangeCall
  <2>3. ExchangeCall'[c] = Exchange!Idle
    BY <1>5 DEF Release, ExchangeCall, Exchange!Idle, TypeOK
  <2> QED
    BY <1>5, <2>1, <2>2, <2>3, ExchangeOthers DEF Exchange!Deliver, Release
<1> QED
  BY <1>1, <1>2, <1>3, <1>4, <1>5 DEF Next, CallSteps, Exchange!Next

-------------------------------------------------------------------------------
(* Only an overtaken call sets the snapshot back. *)

LEMMA BehindInit == Init => CellIsBehind
BY BoundsAssumption DEF Init, CellIsBehind, DefaultSnapshot, ZeroCounters, Counts, Sampled

LEMMA BehindStep ==
    TypeOK /\ LockDiscipline /\ CellIsBehind /\ [Next]_vars => CellIsBehind'
<1> SUFFICES ASSUME TypeOK, LockDiscipline, CellIsBehind, [Next]_vars, faults' = 0
             PROVE  CellIsBehind'
  BY DEF CellIsBehind
<1> DEFINE Numbers ==
      /\ clock \in Nat /\ prev.at \in Nat
      /\ \A f \in Field : total[f] \in Nat /\ prev.counters[f] \in Nat
      /\ \A c \in Caller : now[c] \in Nat /\ \A f \in Field : curr[c][f] \in Nat
<1>0. Numbers
  BY BoundsAssumption DEF TypeOK, SnapshotOver, Counts, Times
<1> USE DEF Sampled
<1>1. CASE ClockTicks
  <2>1. clock' = clock + 1 /\ UNCHANGED <<total, faults, prev, pc, now, curr, overtaken>>
    BY <1>1 DEF ClockTicks, locals, history
  <2> QED
    BY <1>0, <2>1 DEF CellIsBehind
<1>2. ASSUME NEW g \in Field, CounterGrows(g) PROVE CellIsBehind'
  <2>1. /\ \A f \in Field : total'[f] \in Nat /\ total'[f] >= total[f]
        /\ UNCHANGED <<clock, faults, prev, pc, now, curr, overtaken>>
    BY <1>0, <1>2 DEF CounterGrows, locals, history, TypeOK
  <2> QED
    BY <1>0, <2>1 DEF CellIsBehind
<1>3. ASSUME NEW f \in Field, CounterDrops(f) PROVE FALSE
  BY <1>3 DEF CounterDrops, TypeOK
<1>4. ASSUME NEW c \in Caller, SampleNow(c) PROVE CellIsBehind'
  <2>1. /\ UNCHANGED <<clock, total, faults, prev, curr, overtaken>>
        /\ now'[c] = clock /\ pc'[c] = "read"
        /\ \A d \in Caller \ {c} : now'[d] = now[d] /\ pc'[d] = pc[d]
    BY <1>4 DEF SampleNow, kernel, history, TypeOK
  <2> QED
    BY <1>0, <2>1 DEF CellIsBehind
<1>5. ASSUME NEW c \in Caller, ReadCounters(c) PROVE CellIsBehind'
  <2>1. /\ UNCHANGED <<clock, total, faults, prev, now, overtaken>>
        /\ curr'[c] = total /\ pc[c] = "read" /\ pc'[c] = "lock"
        /\ \A d \in Caller \ {c} : curr'[d] = curr[d] /\ pc'[d] = pc[d]
    BY <1>5 DEF ReadCounters, kernel, history, TypeOK
  <2> QED
    BY <1>0, <2>1 DEF CellIsBehind
<1>6. ASSUME NEW c \in Caller, ReadFails(c) PROVE FALSE
  BY <1>6 DEF ReadFails, TypeOK
<1>7. ASSUME NEW c \in Caller, AskForLock(c) \/ Compute(c) PROVE CellIsBehind'
  <2>1. /\ UNCHANGED <<clock, total, faults, prev, now, curr, overtaken>>
        /\ pc[c] \in {"lock", "wait"} /\ pc'[c] \in {"wait", "store"}
        /\ \A d \in Caller \ {c} : pc'[d] = pc[d]
    BY <1>7 DEF AskForLock, Compute, kernel, locals, history, TypeOK
  <2> QED
    BY <1>0, <2>1 DEF CellIsBehind
<1>8. ASSUME NEW c \in Caller, Store(c) PROVE CellIsBehind'
  <2>1. /\ UNCHANGED <<clock, total, faults, now, curr>>
        /\ prev'.at = now[c] /\ prev'.counters = curr[c]
        /\ pc[c] = "store" /\ pc'[c] = "release"
        /\ \A d \in Caller \ {c} : pc'[d] = pc[d]
        /\ overtaken' = (overtaken \cup {d \in Caller : pc[d] \in Sampled}) \ {c}
    BY <1>8 DEF Store, kernel, locals, TypeOK
  <2>2. \A d \in Caller \ {c} : pc[d] # "store"
    BY <2>1 DEF LockDiscipline, CriticalHolds, Critical, Holds
  <2>3. \A d \in Caller : pc'[d] \in Sampled \cup {"store"} => d \in overtaken'
    BY <2>1, <2>2
  <2> QED
    BY <1>0, <2>1, <2>3 DEF CellIsBehind
<1>9. ASSUME NEW c \in Caller, Release(c) PROVE CellIsBehind'
  <2>1. /\ UNCHANGED <<clock, total, faults, prev, overtaken>>
        /\ pc'[c] = "idle"
        /\ \A d \in Caller \ {c} : pc'[d] = pc[d] /\ now'[d] = now[d] /\ curr'[d] = curr[d]
    BY <1>9 DEF Release, kernel, history, TypeOK
  <2> QED
    BY <1>0, <2>1 DEF CellIsBehind
<1>10. CASE UNCHANGED vars
  BY <1>10 DEF vars, kernel, locals, history, CellIsBehind
<1> QED
  BY <1>1, <1>2, <1>3, <1>4, <1>5, <1>6, <1>7, <1>8, <1>9, <1>10 DEF Next, CallSteps

(* A call that is not overtaken finds a snapshot no newer than its own, so
   booking its answer sets nothing back. *)
LEMMA StoreAhead ==
    ASSUME TypeOK, CellIsBehind, faults = 0,
           NEW c \in Caller, Store(c), c \notin overtaken
    PROVE  ledger'.rewound = ledger.rewound /\ ledger'.setback = ledger.setback
<1>1. /\ prev.at <= now[c]
      /\ \A f \in Field : prev.counters[f] <= curr[c][f]
  BY DEF CellIsBehind, Store, Sampled
<1>2. /\ prev.at \in Nat /\ now[c] \in Nat /\ ledger.setback \in Nat
      /\ ledger.rewound \in [Field -> Nat]
  BY BoundsAssumption DEF TypeOK, SnapshotOver, Ledger, Times
<1>3. ledger'.setback = ledger.setback
  <2>1. SaturatingSub(prev.at, now[c]) = 0
    BY <1>1, <1>2, GainAndLoss
  <2> QED
    BY <1>2, <2>1 DEF Store, Book
<1>4. ASSUME NEW f \in Field PROVE ledger.rewound[f] + Lost(c)[f] = ledger.rewound[f]
  <2>1. Lost(c)[f] = 0
    BY <1>1, GainAndLoss, BookedNumbers DEF Lost
  <2> QED
    BY <1>2, <2>1
<1>5. ledger'.rewound = [f \in Field |-> ledger.rewound[f]]
  BY <1>4 DEF Store, Book
<1> QED
  BY <1>2, <1>3, <1>5

LEMMA RewindStep ==
    TypeOK /\ CellIsBehind /\ [Next]_vars
      => \/ faults # 0
         \/ ledger'.rewound = ledger.rewound /\ ledger'.setback = ledger.setback
         \/ \E c \in overtaken : Store(c)
BY OnlyStoreBooks, StoreAhead

-------------------------------------------------------------------------------
(* The inductive invariant and what follows from it. *)

LEMMA IInvInit == Init => IInv
BY TypeInit, LockInit, AccountingInit, BehindInit DEF IInv

LEMMA IInvStep == IInv /\ [Next]_vars => IInv'
BY TypeStep, LockStep, ComputedStep, AccountingStep, BehindStep DEF IInv, LockDiscipline

LEMMA Invariance == Spec => []IInv
BY IInvInit, IInvStep, PTL DEF Spec

(* Every reachable state is well typed, for any bounds. *)
THEOREM TypeCorrect == Spec => []TypeOK
BY Invariance, PTL DEF IInv

(* The guard of prev_disk is held by at most one call, the head of a queue
   that holds every call that wants it exactly once, for any number of calls. *)
THEOREM LockCorrect == Spec => []LockDiscipline
BY Invariance, PTL DEF IInv

(* No answer invents or drops a count or a second: at any time, for any
   number of overlapping calls, any failures and any counters, the answers
   add up to where the stored snapshot stands and how far it was set back. *)
THEOREM AccountingHolds == Spec => []Accounting
BY Invariance, PTL DEF IInv

(* However many calls overlap, and whatever fails, the block is an atomic
   exchange of snapshots: every answer is the rate since the snapshot that
   the call's own snapshot replaces. *)
THEOREM ExchangeImplemented == Spec => ImplementsExchange
<1>1. IInv /\ IInv' /\ [Next]_vars => [Exchange!Next]_(Exchange!vars)
  BY ExchangeStep DEF IInv
<1> QED
  BY <1>1, Invariance, ExchangeInit, PTL DEF Spec, ImplementsExchange, Exchange!Spec

(* While reads succeed and no counter drops, only a call that another call
   has stored ahead of sets the stored snapshot back, for any number of
   calls and of counters. *)
THEOREM OnlyOvertakenRewinds == Spec => RewindNeedsOvertaking
<1>1. IInv /\ [Next]_vars
      => \/ faults # 0
         \/ ledger'.rewound = ledger.rewound /\ ledger'.setback = ledger.setback
         \/ \E c \in overtaken : Store(c)
  BY RewindStep DEF IInv
<1> QED
  BY <1>1, Invariance, PTL DEF Spec, RewindNeedsOvertaking
===============================================================================
