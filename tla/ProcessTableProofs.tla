--------------------------- MODULE ProcessTableProofs ---------------------------
(***************************************************************************)
(* Theorems about ProcessTable, for any set of callers and of pids and any *)
(* bounds.                                                                 *)
(*                                                                         *)
(* The properties are not inductive alone.  That no time is credited twice *)
(* needs that what has been credited is covered by what the next listing   *)
(* is compared with (CreditedCovered), which is the stored snapshot for a  *)
(* pid no scan under way has come to, and that scan's own table for the    *)
(* others; and that needs that there is one scan, the lock holder's.       *)
(***************************************************************************)
EXTENDS ProcessTable, SharedLemmas

(* A scan has not seen what it still has to visit; without one there is no table. *)
SeenInStep ==
    \A c \in Caller : /\ pc[c] # "scan" => seen[c] = NoEntry
                      /\ left[c] \cap DOMAIN seen[c] = {}

Unseen(p) == \A c \in Caller : p \notin DOMAIN seen[c]

TicksWithinClock == \A p \in Pid : ticks[p] <= clock

CreditedCovered ==
    \A p \in Pid :
        /\ credited[p] <= ticks[p]
        /\ \A c \in Caller : p \in DOMAIN seen[c] => credited[p] <= seen[c][p]
        /\ p \in DOMAIN prev.ticks /\ Unseen(p) => credited[p] <= prev.ticks[p]

(* What a listing last read of a process is what the next is compared with; a
   scan will come to every such process. *)
LastReadKept ==
    \A p \in DOMAIN lastRead :
        /\ p \in alive /\ lastRead[p] <= ticks[p]
        /\ \A c \in Caller : /\ p \in DOMAIN seen[c] => seen[c][p] = lastRead[p]
                             /\ pc[c] = "scan" /\ p \notin DOMAIN seen[c] => p \in left[c]
        /\ Unseen(p) => p \in DOMAIN prev.ticks /\ prev.ticks[p] = lastRead[p]

(* What a listing passed over, the next has nothing to compare with; a scan under
   way that has it in its stored table has passed over it itself. *)
MissedForgotten ==
    \A p \in missed :
        /\ Unseen(p)
        /\ p \in DOMAIN prev.ticks => \E c \in Caller : pc[c] = "scan" /\ p \notin left[c]

(* A row compares what the scan under way has read with the stored listing. *)
RowsCompared ==
    \A c \in Caller :
        /\ pc[c] \notin {"scan", "done"} => rows[c] = NoEntry
        /\ pc[c] = "scan" => rows[c] = AllRows(prev, seen[c], now[c])

(* Since a table was dated no process has run for longer than the clock has. *)
RunsWithTheClock ==
    /\ prev.at <= clock
    /\ \A p \in DOMAIN prev.ticks : ticks[p] <= prev.ticks[p] + (clock - prev.at)
    /\ \A c \in Caller :
          /\ now[c] <= clock
          /\ \A p \in DOMAIN seen[c] : ticks[p] <= seen[c][p] + (clock - now[c])

IInv ==
    /\ TypeOK /\ LockDiscipline
    /\ TicksWithinClock /\ SeenInStep /\ CreditedCovered /\ LastReadKept /\ MissedForgotten
    /\ RowsCompared /\ RunsWithTheClock /\ OverCoreOnlyByDelay

-------------------------------------------------------------------------------
(* Maps from pids. *)

LEMMA MapFacts ==
    ASSUME NEW S, NEW m
    PROVE  m \in Maps(S) <=> m = [p \in DOMAIN m |-> m[p]] /\ DOMAIN m \subseteq Pid
                              /\ \A p \in DOMAIN m : m[p] \in S
BY DEF Maps

LEMMA NoEntryFacts == NoEntry \in Maps(Times) /\ DOMAIN NoEntry = {}
BY DEF Maps, NoEntry

LEMMA WithFacts ==
    ASSUME NEW S, NEW m \in Maps(S), NEW p \in Pid, NEW n \in S
    PROVE  /\ With(m, p, n) \in Maps(S)
           /\ DOMAIN With(m, p, n) = DOMAIN m \cup {p}
           /\ With(m, p, n)[p] = n
           /\ \A q \in DOMAIN m : q # p => With(m, p, n)[q] = m[q]
BY MapFacts DEF With

LEMMA RestrictFacts ==
    ASSUME NEW S, NEW m \in Maps(S), NEW D, D \subseteq DOMAIN m
    PROVE  /\ Restrict(m, D) \in Maps(S)
           /\ DOMAIN Restrict(m, D) = D
           /\ \A q \in D : Restrict(m, D)[q] = m[q]
BY MapFacts DEF Restrict

(* The ticks a row is credited with. *)
LEMMA CpuTicksFacts ==
    ASSUME NEW m \in Maps(Times), NEW p \in Pid, NEW n \in Times, NEW e
    PROVE  LET used == CpuTicks(m, p, n, e) IN
           /\ used \in Times
           /\ p \notin DOMAIN m => used = 0
           /\ p \in DOMAIN m => m[p] \in Times /\ (used = 0 \/ (used = n - m[p] /\ m[p] <= n))
           /\ p \in DOMAIN m /\ e # 0 /\ m[p] <= n => used = n - m[p]
<1>1. p \in DOMAIN m => m[p] \in Times
  BY MapFacts
<1>2. MaxTime \in Nat
  BY ProcessAssumption
<1> QED
  BY <1>1, <1>2 DEF CpuTicks, Times

-------------------------------------------------------------------------------
(* Type correctness. *)

LEMMA TypeInit == Init => TypeOK
<1> SUFFICES ASSUME Init PROVE TypeOK
  OBVIOUS
<1>1. 0 \in Times /\ 0 \in 0 .. MaxStarts /\ 0 \in 0 .. MaxFaults
  BY ProcessAssumption DEF Times
<1>2. lock \in Seq(Caller)
  BY UnlockedFacts DEF Init
<1> QED
  BY <1>1, <1>2, NoEntryFacts DEF Init, DefaultListing, TypeOK

LEMMA TypeStep ==
    TypeOK /\ LockDiscipline /\ TicksWithinClock /\ [Next]_vars => TypeOK'
<1> SUFFICES ASSUME TypeOK, LockDiscipline, TicksWithinClock, [Next]_vars PROVE TypeOK'
  OBVIOUS
<1> USE ProcessAssumption, NoEntryFacts DEF TypeOK
<1>1. CASE ClockTicks
  <2>1. clock' \in Times
    BY <1>1 DEF ClockTicks, Times
  <2>2. ticks' \in [Pid -> Times]
    BY <1>1 DEF ClockTicks, Times, TicksWithinClock
  <2> QED
    BY <1>1, <2>1, <2>2 DEF ClockTicks, cell, scan, history
<1>2. ASSUME NEW p \in Pid, Exits(p) PROVE TypeOK'
  <2>1. lastRead' \in Maps(Times)
    BY <1>2, RestrictFacts DEF Exits
  <2>2. ticks' \in [Pid -> Times] /\ credited' \in [Pid -> Nat]
    BY <1>2 DEF Exits, Times
  <2> QED
    BY <1>2, <2>1, <2>2 DEF Exits, cell, scan
<1>3. ASSUME NEW p \in Pid, Starts(p) PROVE TypeOK'
  <2>1. left' \in [Caller -> SUBSET Pid]
    BY <1>3 DEF Starts
  <2> QED
    BY <1>3, <2>1 DEF Starts, cell, history
<1>4. ASSUME NEW c \in Caller, SampleNow(c) PROVE TypeOK'
  BY <1>4 DEF SampleNow, machine, cell, history
<1>5. ASSUME NEW c \in Caller, AskForLock(c) PROVE TypeOK'
  BY <1>5, JoinQueueFacts DEF AskForLock, machine, scan, history
<1>6. ASSUME NEW c \in Caller, ListProc(c) PROVE TypeOK'
  BY <1>6 DEF ListProc, machine, history
<1>7. ASSUME NEW c \in Caller, ListFails(c) PROVE TypeOK'
  <2>1. lock' \in Seq(Caller)
    BY <1>7, DropGuardFacts DEF ListFails
  <2>2. prev' \in [ticks : Maps(Times), at : Times] /\ now' \in [Caller -> Times]
    BY <1>7 DEF ListFails, Times
  <2>3. faults' \in 0 .. MaxFaults
    BY <1>7 DEF ListFails
  <2> QED
    BY <1>7, <2>1, <2>2, <2>3 DEF ListFails
<1>8. ASSUME NEW c \in Caller, NEW p \in Pid, ReadStat(c, p) PROVE TypeOK'
  <2> DEFINE used == CpuTicks(prev.ticks, p, ticks[p], Elapsed(c))
  <2>1. used \in Times
    BY CpuTicksFacts
  <2>2. seen' \in [Caller -> Maps(Times)]
    <3>1. With(seen[c], p, ticks[p]) \in Maps(Times)
      BY WithFacts
    <3> QED
      BY <1>8, <3>1 DEF ReadStat
  <2>3. rows' \in [Caller -> Maps(Times)]
    <3>1. With(rows[c], p, used) \in Maps(Times)
      BY <2>1, WithFacts
    <3> QED
      BY <1>8, <3>1 DEF ReadStat
  <2>5. lastRead' \in Maps(Times)
    BY <1>8, WithFacts DEF ReadStat
  <2>4. credited' \in [Pid -> Nat]
    BY <1>8, <2>1 DEF ReadStat, Times
  <2> QED
    BY <1>8, <2>2, <2>3, <2>4, <2>5 DEF ReadStat, machine, cell
<1>9. ASSUME NEW c \in Caller, NEW p \in Pid, SkipEntry(c, p) PROVE TypeOK'
  <2>1. lastRead' \in Maps(Times)
    BY <1>9, RestrictFacts DEF SkipEntry
  <2> QED
    BY <1>9, <2>1 DEF SkipEntry, machine, cell
<1>10. ASSUME NEW c \in Caller, FinishScan(c) PROVE TypeOK'
  <2>1. lock' \in Seq(Caller)
    BY <1>10, DropGuardFacts DEF FinishScan, LockDiscipline
  <2>2. prev' \in [ticks : Maps(Times), at : Times] /\ now' \in [Caller -> Times]
    BY <1>10 DEF FinishScan, Times
  <2>3. rows' \in [Caller -> Maps(Times)]
    BY <1>10, RestrictFacts DEF FinishScan, TopRows
  <2> QED
    BY <1>10, <2>1, <2>2, <2>3 DEF FinishScan, machine, history
<1>11. ASSUME NEW c \in Caller, Return(c) PROVE TypeOK'
  BY <1>11 DEF Return, machine, cell, history
<1>12. CASE UNCHANGED vars
  BY <1>12 DEF vars, machine, cell, scan, history
<1> QED
  BY <1>1, <1>2, <1>3, <1>4, <1>5, <1>6, <1>7, <1>8, <1>9, <1>10, <1>11, <1>12
  DEF Next, CallSteps

-------------------------------------------------------------------------------
(* The lock. *)

Inside == {"wait", "scan"}

(* A step that leaves the queue alone, and who is in it. *)
LEMMA LockFrame ==
    ASSUME LockDiscipline, UNCHANGED lock,
           \A c \in Caller : pc'[c] \in Inside <=> pc[c] \in Inside,
           \A c \in Caller : pc'[c] = "scan" => pc[c] = "scan" \/ Holds(lock, c)
    PROVE  LockDiscipline'
BY DEF LockDiscipline, Inside

LEMMA LockJoin ==
    ASSUME TypeOK, LockDiscipline, NEW c \in Caller, AskForLock(c)
    PROVE  LockDiscipline'
<1>1. lock \in Seq(Caller) /\ lock' = JoinQueue(lock, c) /\ Distinct(lock) /\ ~ Wants(lock, c)
  BY DEF TypeOK, AskForLock, LockDiscipline, Distinct
<1>2. pc'[c] = "wait" /\ \A d \in Caller : d # c => pc'[d] = pc[d]
  BY DEF AskForLock, TypeOK
<1>3. (\A d : Wants(lock', d) <=> Wants(lock, d) \/ d = c) /\ Distinct(lock')
  BY <1>1, JoinedWants
<1>4. \A d : Holds(lock, d) => Holds(lock', d)
  BY <1>1, JoinQueueFacts
<1> QED
  BY <1>2, <1>3, <1>4 DEF LockDiscipline, Distinct

LEMMA LockDrop ==
    ASSUME TypeOK, LockDiscipline, NEW c \in Caller, Holds(lock, c), lock' = DropGuard(lock),
           pc' = [pc EXCEPT ![c] = "done"]
    PROVE  LockDiscipline'
<1>1. lock \in Seq(Caller) /\ Distinct(lock)
  BY DEF TypeOK, LockDiscipline, Distinct
<1>2. pc'[c] = "done" /\ \A d \in Caller : d # c => pc'[d] = pc[d]
  BY DEF TypeOK
<1>3. (\A d : Wants(lock', d) <=> Wants(lock, d) /\ d # c) /\ Distinct(lock')
  BY <1>1, DroppedWants
<1>4. \A d \in Caller : pc'[d] # "scan"
  BY <1>2 DEF LockDiscipline, Holds
<1> QED
  BY <1>2, <1>3, <1>4 DEF LockDiscipline, Distinct

LEMMA LockStep == TypeOK /\ LockDiscipline /\ [Next]_vars => LockDiscipline'
<1> SUFFICES ASSUME TypeOK, LockDiscipline, [Next]_vars PROVE LockDiscipline'
  OBVIOUS
<1>1. CASE UNCHANGED <<pc, lock>>
  BY <1>1, LockFrame
<1>2. ASSUME NEW c \in Caller, SampleNow(c) \/ ListProc(c) \/ Return(c) PROVE LockDiscipline'
  <2>1. /\ UNCHANGED lock
        /\ \A d \in Caller : pc'[d] \in Inside <=> pc[d] \in Inside
        /\ \A d \in Caller : pc'[d] = "scan" => pc[d] = "scan" \/ Holds(lock, d)
    BY <1>2 DEF SampleNow, ListProc, Return, cell, TypeOK, Inside
  <2> QED
    BY <2>1, LockFrame
<1>3. ASSUME NEW c \in Caller, AskForLock(c) PROVE LockDiscipline'
  BY <1>3, LockJoin
<1>4. ASSUME NEW c \in Caller, ListFails(c) \/ FinishScan(c) PROVE LockDiscipline'
  <2>1. Holds(lock, c) /\ lock' = DropGuard(lock) /\ pc' = [pc EXCEPT ![c] = "done"]
    BY <1>4 DEF ListFails, FinishScan, LockDiscipline
  <2> QED
    BY <2>1, LockDrop
<1> QED
  BY <1>1, <1>2, <1>3, <1>4
  DEF Next, CallSteps, ClockTicks, Exits, Starts, ReadStat, SkipEntry, vars, cell

(* There is one scan at a time. *)
LEMMA OneScan ==
    ASSUME LockDiscipline, SeenInStep, NEW c \in Caller, Holds(lock, c)
    PROVE  \A d \in Caller \ {c} : pc[d] # "scan" /\ seen[d] = NoEntry /\ DOMAIN seen[d] = {}
BY NoEntryFacts DEF LockDiscipline, SeenInStep, Holds

-------------------------------------------------------------------------------
(* What is compared with what. *)

Kept == TicksWithinClock /\ SeenInStep /\ CreditedCovered /\ LastReadKept

LEMMA KeptInit == Init => Kept
<1> SUFFICES ASSUME Init PROVE Kept
  OBVIOUS
<1> USE NoEntryFacts DEF Init, DefaultListing
<1>1. TicksWithinClock /\ SeenInStep
  BY DEF TicksWithinClock, SeenInStep
<1>2. CreditedCovered /\ LastReadKept
  BY DEF CreditedCovered, LastReadKept
<1> QED
  BY <1>1, <1>2 DEF Kept

(* The values of a call's table, of the stored one and of lastRead are numbers. *)
LEMMA Numbers ==
    ASSUME TypeOK
    PROVE  /\ clock \in Nat
           /\ \A p \in Pid : ticks[p] \in Times /\ ticks[p] \in Nat /\ credited[p] \in Nat
           /\ \A c \in Caller : /\ DOMAIN seen[c] \subseteq Pid
                                /\ \A p \in DOMAIN seen[c] : seen[c][p] \in Nat
           /\ DOMAIN prev.ticks \subseteq Pid /\ \A p \in DOMAIN prev.ticks : prev.ticks[p] \in Nat
           /\ DOMAIN lastRead \subseteq Pid /\ \A p \in DOMAIN lastRead : lastRead[p] \in Nat
<1>1. \A n \in Times : n \in Nat
  BY ProcessAssumption DEF Times
<1> QED
  BY <1>1, MapFacts DEF TypeOK

(* A step of the machine or of a call that reads nothing. *)
LEMMA KeptFrame ==
    ASSUME Kept, UNCHANGED <<clock, ticks, alive, prev, seen, credited, lastRead>>,
           \A c \in Caller : /\ pc'[c] = "scan" <=> pc[c] = "scan"
                             /\ left'[c] = left[c]
    PROVE  Kept'
BY DEF Kept, TicksWithinClock, SeenInStep, CreditedCovered, LastReadKept, Unseen

LEMMA KeptClock ==
    ASSUME TypeOK, Kept, ClockTicks
    PROVE  Kept'
<1>1. /\ clock' = clock + 1
      /\ \A p \in Pid : ticks'[p] \in Nat /\ ticks[p] <= ticks'[p] /\ ticks'[p] <= ticks[p] + 1
      /\ UNCHANGED <<alive, prev, pc, left, seen, credited, lastRead>>
  BY Numbers DEF ClockTicks, cell, scan, history
<1>2. TicksWithinClock'
  BY <1>1, Numbers DEF Kept, TicksWithinClock
<1>3. SeenInStep'
  BY <1>1 DEF Kept, SeenInStep
<1>4. CreditedCovered'
  BY <1>1, Numbers DEF Kept, CreditedCovered, Unseen
<1>5. LastReadKept'
  BY <1>1, Numbers DEF Kept, LastReadKept, Unseen
<1> QED
  BY <1>2, <1>3, <1>4, <1>5 DEF Kept

LEMMA KeptExits ==
    ASSUME TypeOK, Kept, NEW p \in Pid, Exits(p)
    PROVE  Kept'
<1>1. /\ ticks'[p] = 0 /\ credited'[p] = 0 /\ alive' = alive \ {p}
      /\ \A q \in Pid \ {p} : ticks'[q] = ticks[q] /\ credited'[q] = credited[q]
      /\ UNCHANGED <<clock, prev, pc, left, seen>>
  BY DEF Exits, TypeOK, cell, scan
<1>2. /\ DOMAIN lastRead' = DOMAIN lastRead \ {p}
      /\ \A q \in DOMAIN lastRead' : lastRead'[q] = lastRead[q]
  BY DEF Exits, Restrict
<1>3. TicksWithinClock' /\ SeenInStep'
  BY <1>1, Numbers DEF Kept, TicksWithinClock, SeenInStep
<1>4. CreditedCovered'
  BY <1>1, Numbers DEF Kept, CreditedCovered, Unseen
<1>5. LastReadKept'
  BY <1>1, <1>2, Numbers DEF Kept, LastReadKept, Unseen
<1> QED
  BY <1>3, <1>4, <1>5 DEF Kept

LEMMA KeptStarts ==
    ASSUME TypeOK, Kept, NEW p \in Pid, Starts(p)
    PROVE  Kept'
<1>1. /\ alive' = alive \cup {p} /\ p \notin alive
      /\ UNCHANGED <<clock, ticks, prev, pc, seen, credited, lastRead>>
      /\ \A c \in Caller : \/ left'[c] = left[c]
                           \/ left'[c] = left[c] \cup {p} /\ p \notin DOMAIN seen[c]
  BY DEF Starts, TypeOK, cell, history
<1>2. TicksWithinClock' /\ SeenInStep' /\ CreditedCovered'
  BY <1>1 DEF Kept, TicksWithinClock, SeenInStep, CreditedCovered, Unseen
<1>3. LastReadKept'
  BY <1>1 DEF Kept, LastReadKept, Unseen
<1> QED
  BY <1>2, <1>3 DEF Kept

LEMMA KeptListProc ==
    ASSUME TypeOK, Kept, NEW c \in Caller, ListProc(c)
    PROVE  Kept'
<1>1. /\ left'[c] = alive /\ pc'[c] = "scan" /\ pc[c] = "wait"
      /\ \A d \in Caller \ {c} : left'[d] = left[d] /\ pc'[d] = pc[d]
      /\ UNCHANGED <<clock, ticks, alive, prev, seen, credited, lastRead>>
  BY DEF ListProc, TypeOK, machine, history
<1>2. DOMAIN seen[c] = {}
  BY <1>1, NoEntryFacts DEF Kept, SeenInStep
<1> QED
  BY <1>1, <1>2 DEF Kept, TicksWithinClock, SeenInStep, CreditedCovered, LastReadKept, Unseen

LEMMA KeptListFails ==
    ASSUME TypeOK, Kept, NEW c \in Caller, ListFails(c)
    PROVE  Kept'
<1>1. /\ prev'.ticks = NoEntry /\ lastRead' = NoEntry
      /\ pc'[c] # "scan" /\ pc[c] # "scan" /\ \A d \in Caller \ {c} : pc'[d] = pc[d]
      /\ UNCHANGED <<clock, ticks, alive, left, seen, credited>>
  BY DEF ListFails, TypeOK
<1> QED
  BY <1>1, NoEntryFacts
  DEF Kept, TicksWithinClock, SeenInStep, CreditedCovered, LastReadKept, Unseen

LEMMA KeptReadStat ==
    ASSUME TypeOK, LockDiscipline, Kept, NEW c \in Caller, NEW p \in Pid, ReadStat(c, p)
    PROVE  Kept'
<1> DEFINE used == CpuTicks(prev.ticks, p, ticks[p], Elapsed(c))
<1>1. /\ pc[c] = "scan" /\ Holds(lock, c) /\ p \in left[c] /\ p \in alive
      /\ left'[c] = left[c] \ {p} /\ \A d \in Caller \ {c} : left'[d] = left[d]
      /\ credited'[p] = credited[p] + used
      /\ \A q \in Pid \ {p} : credited'[q] = credited[q]
      /\ UNCHANGED <<clock, ticks, alive, prev, pc>>
  BY DEF ReadStat, LockDiscipline, TypeOK, machine, cell
<1>2. /\ DOMAIN seen'[c] = DOMAIN seen[c] \cup {p} /\ seen'[c][p] = ticks[p]
      /\ \A q \in DOMAIN seen[c] : q # p => seen'[c][q] = seen[c][q]
      /\ \A d \in Caller \ {c} : seen'[d] = seen[d]
  <2>1. seen' = [seen EXCEPT ![c] = With(seen[c], p, ticks[p])]
    BY DEF ReadStat
  <2>2. /\ DOMAIN With(seen[c], p, ticks[p]) = DOMAIN seen[c] \cup {p}
        /\ With(seen[c], p, ticks[p])[p] = ticks[p]
        /\ \A q \in DOMAIN seen[c] : q # p => With(seen[c], p, ticks[p])[q] = seen[c][q]
    BY DEF With
  <2> QED
    BY <2>1, <2>2 DEF TypeOK
<1>3. /\ DOMAIN lastRead' = DOMAIN lastRead \cup {p} /\ lastRead'[p] = ticks[p]
      /\ \A q \in DOMAIN lastRead : q # p => lastRead'[q] = lastRead[q]
  <2>1. lastRead' = With(lastRead, p, ticks[p])
    BY DEF ReadStat
  <2> QED
    BY <2>1 DEF With
<1>4. \A d \in Caller \ {c} : pc[d] # "scan" /\ seen[d] = NoEntry /\ DOMAIN seen[d] = {}
  BY <1>1, OneScan DEF Kept
<1>5. p \notin DOMAIN seen[c] /\ Unseen(p)
  BY <1>1, <1>4 DEF Kept, SeenInStep, Unseen
<1>6. used \in Nat /\ credited[p] + used <= ticks[p]
  <2>1. /\ used \in Times
        /\ p \notin DOMAIN prev.ticks => used = 0
        /\ p \in DOMAIN prev.ticks =>
              used = 0 \/ (used = ticks[p] - prev.ticks[p] /\ prev.ticks[p] <= ticks[p])
    BY CpuTicksFacts, Numbers DEF TypeOK
  <2>2. credited[p] <= ticks[p] /\ (p \in DOMAIN prev.ticks => credited[p] <= prev.ticks[p])
    BY <1>5 DEF Kept, CreditedCovered
  <2>3. used \in Nat
    BY <2>1, ProcessAssumption DEF Times
  <2> HIDE DEF used
  <2> QED
    BY <2>1, <2>2, <2>3, Numbers
<1> HIDE DEF used
<1>7. TicksWithinClock'
  BY <1>1 DEF Kept, TicksWithinClock
<1>8. SeenInStep'
  BY <1>1, <1>2, <1>4 DEF Kept, SeenInStep
<1>9. CreditedCovered'
  <2> SUFFICES ASSUME NEW q \in Pid
               PROVE  /\ credited'[q] <= ticks'[q]
                      /\ \A d \in Caller : q \in DOMAIN seen'[d] => credited'[q] <= seen'[d][q]
                      /\ q \in DOMAIN prev'.ticks /\ Unseen(q)' => credited'[q] <= prev'.ticks[q]
    BY DEF CreditedCovered
  <2>1. CASE q = p
    BY <1>1, <1>2, <1>4, <1>6, <2>1 DEF Unseen
  <2>2. CASE q # p
    BY <1>1, <1>2, <1>4, <2>2 DEF Kept, CreditedCovered, Unseen
  <2> QED
    BY <2>1, <2>2
<1>10. LastReadKept'
  <2> SUFFICES ASSUME NEW q \in DOMAIN lastRead'
               PROVE  /\ q \in alive' /\ lastRead'[q] <= ticks'[q]
                      /\ \A d \in Caller :
                           /\ q \in DOMAIN seen'[d] => seen'[d][q] = lastRead'[q]
                           /\ pc'[d] = "scan" /\ q \notin DOMAIN seen'[d] => q \in left'[d]
                      /\ Unseen(q)' => q \in DOMAIN prev'.ticks /\ prev'.ticks[q] = lastRead'[q]
    BY DEF LastReadKept
  <2>1. CASE q = p
    BY <1>1, <1>2, <1>3, <1>4, <2>1, Numbers DEF Unseen
  <2>2. CASE q # p
    BY <1>1, <1>2, <1>3, <1>4, <2>2 DEF Kept, LastReadKept, Unseen
  <2> QED
    BY <2>1, <2>2
<1> QED
  BY <1>7, <1>8, <1>9, <1>10 DEF Kept

LEMMA KeptSkipEntry ==
    ASSUME TypeOK, Kept, NEW c \in Caller, NEW p \in Pid, SkipEntry(c, p)
    PROVE  Kept'
<1>1. /\ left'[c] = left[c] \ {p}
      /\ \A d \in Caller \ {c} : left'[d] = left[d]
      /\ UNCHANGED <<clock, ticks, alive, prev, pc, seen, credited>>
  BY DEF SkipEntry, TypeOK, machine, cell
<1>2. /\ DOMAIN lastRead' = DOMAIN lastRead \ {p}
      /\ \A q \in DOMAIN lastRead' : lastRead'[q] = lastRead[q]
  BY DEF SkipEntry, Restrict
<1>3. TicksWithinClock' /\ SeenInStep' /\ CreditedCovered'
  BY <1>1 DEF Kept, TicksWithinClock, SeenInStep, CreditedCovered, Unseen
<1>4. LastReadKept'
  BY <1>1, <1>2 DEF Kept, LastReadKept, Unseen
<1> QED
  BY <1>3, <1>4 DEF Kept

LEMMA KeptFinishScan ==
    ASSUME TypeOK, LockDiscipline, Kept, NEW c \in Caller, FinishScan(c)
    PROVE  Kept'
<1>1. /\ pc[c] = "scan" /\ Holds(lock, c) /\ left[c] = {}
      /\ prev'.ticks = seen[c] /\ seen'[c] = NoEntry /\ pc'[c] = "done"
      /\ \A d \in Caller \ {c} : seen'[d] = seen[d] /\ pc'[d] = pc[d]
      /\ UNCHANGED <<clock, ticks, alive, left, credited, lastRead>>
  BY DEF FinishScan, LockDiscipline, TypeOK, machine, history
<1>2. \A d \in Caller \ {c} : pc[d] # "scan" /\ seen[d] = NoEntry /\ DOMAIN seen[d] = {}
  BY <1>1, OneScan DEF Kept
<1>3. \A d \in Caller : DOMAIN seen'[d] = {} /\ pc'[d] # "scan" /\ seen'[d] = NoEntry
  BY <1>1, <1>2, NoEntryFacts
<1>4. \A q \in DOMAIN lastRead : q \in DOMAIN seen[c] /\ seen[c][q] = lastRead[q]
  BY <1>1 DEF Kept, LastReadKept
<1>5. TicksWithinClock' /\ SeenInStep'
  BY <1>1, <1>3 DEF Kept, TicksWithinClock, SeenInStep
<1>6. CreditedCovered'
  BY <1>1, <1>3 DEF Kept, CreditedCovered
<1>7. LastReadKept'
  BY <1>1, <1>3, <1>4 DEF Kept, LastReadKept
<1> QED
  BY <1>5, <1>6, <1>7 DEF Kept

LEMMA KeptStep == TypeOK /\ LockDiscipline /\ Kept /\ [Next]_vars => Kept'
<1> SUFFICES ASSUME TypeOK, LockDiscipline, Kept, [Next]_vars PROVE Kept'
  OBVIOUS
<1>1. ASSUME NEW c \in Caller, SampleNow(c) \/ AskForLock(c) \/ Return(c) PROVE Kept'
  <2>1. /\ UNCHANGED <<clock, ticks, alive, prev, seen, credited, lastRead>>
        /\ \A d \in Caller : (pc'[d] = "scan" <=> pc[d] = "scan") /\ left'[d] = left[d]
    BY <1>1 DEF SampleNow, AskForLock, Return, TypeOK, machine, cell, scan, history
  <2> QED
    BY <2>1, KeptFrame
<1>2. CASE UNCHANGED vars
  BY <1>2, KeptFrame DEF vars, machine, cell, scan, history
<1> QED
  BY <1>1, <1>2, KeptClock, KeptExits, KeptStarts, KeptListProc, KeptListFails, KeptReadStat,
     KeptSkipEntry, KeptFinishScan DEF Next, CallSteps

-------------------------------------------------------------------------------
(* What was passed over. *)

LEMMA MissedFrame ==
    ASSUME MissedForgotten, UNCHANGED <<prev, seen>>, missed' \subseteq missed,
           \A c \in Caller : pc[c] = "scan" => pc'[c] = "scan",
           \A c \in Caller : left'[c] \cap missed' \subseteq left[c] \cap missed'
    PROVE  MissedForgotten'
BY DEF MissedForgotten, Unseen

(* A listing begins while nobody scans, so nothing passed over is stored. *)
LEMMA MissedListProc ==
    ASSUME TypeOK, LockDiscipline, SeenInStep, MissedForgotten, NEW c \in Caller, ListProc(c)
    PROVE  MissedForgotten'
<1>1. /\ Holds(lock, c) /\ pc[c] = "wait"
      /\ UNCHANGED <<prev, seen, missed>>
  BY DEF ListProc, history
<1>2. \A d \in Caller : pc[d] # "scan"
  BY <1>1, OneScan
<1> QED
  BY <1>1, <1>2 DEF MissedForgotten, Unseen

LEMMA MissedListFails ==
    ASSUME TypeOK, LockDiscipline, SeenInStep, MissedForgotten, NEW c \in Caller, ListFails(c)
    PROVE  MissedForgotten'
<1>1. /\ Holds(lock, c) /\ pc[c] = "wait" /\ prev'.ticks = NoEntry /\ UNCHANGED seen
  BY DEF ListFails
<1>2. \A d \in Caller : pc[d] # "scan"
  BY <1>1, OneScan
<1>3. \A p : Unseen(p)
  BY <1>2, NoEntryFacts DEF SeenInStep, Unseen
<1> QED
  BY <1>1, <1>3, NoEntryFacts DEF MissedForgotten, Unseen

LEMMA MissedReadStat ==
    ASSUME TypeOK, MissedForgotten, NEW c \in Caller, NEW p \in Pid, ReadStat(c, p)
    PROVE  MissedForgotten'
<1>1. /\ missed' = missed \ {p} /\ UNCHANGED <<prev, pc>>
      /\ \A d \in Caller : left'[d] \subseteq left[d]
  BY DEF ReadStat, TypeOK, cell
<1>2. \A d \in Caller : DOMAIN seen'[d] \subseteq DOMAIN seen[d] \cup {p}
  BY DEF ReadStat, TypeOK, With
<1> QED
  BY <1>1, <1>2 DEF MissedForgotten, Unseen

LEMMA MissedSkipEntry ==
    ASSUME TypeOK, LockDiscipline, SeenInStep, MissedForgotten,
           NEW c \in Caller, NEW p \in Pid, SkipEntry(c, p)
    PROVE  MissedForgotten'
<1>1. /\ pc[c] = "scan" /\ Holds(lock, c) /\ p \in left[c] /\ missed' \subseteq missed \cup {p}
      /\ left'[c] = left[c] \ {p} /\ \A d \in Caller \ {c} : left'[d] = left[d]
      /\ UNCHANGED <<prev, pc, seen>>
  BY DEF SkipEntry, LockDiscipline, TypeOK, cell
<1>2. Unseen(p)
  BY <1>1, OneScan DEF SeenInStep, Unseen
<1> QED
  BY <1>1, <1>2 DEF MissedForgotten, Unseen

LEMMA MissedFinishScan ==
    ASSUME TypeOK, LockDiscipline, MissedForgotten, NEW c \in Caller, FinishScan(c)
    PROVE  MissedForgotten'
<1>1. /\ prev'.ticks = seen[c] /\ seen'[c] = NoEntry /\ UNCHANGED missed
      /\ \A d \in Caller \ {c} : seen'[d] = seen[d]
  BY DEF FinishScan, TypeOK, history
<1> QED
  BY <1>1, NoEntryFacts DEF MissedForgotten, Unseen

LEMMA MissedStep ==
    ASSUME TypeOK, LockDiscipline, SeenInStep, MissedForgotten, [Next]_vars
    PROVE  MissedForgotten'
<1>1. ASSUME NEW c \in Caller, SampleNow(c) \/ AskForLock(c) \/ Return(c)
      PROVE  MissedForgotten'
  <2>1. /\ UNCHANGED <<prev, seen, missed, left>>
        /\ \A d \in Caller : pc[d] = "scan" => pc'[d] = "scan"
    BY <1>1 DEF SampleNow, AskForLock, Return, TypeOK, machine, cell, scan, history
  <2> QED
    BY <2>1, MissedFrame
<1>2. ASSUME NEW p \in Pid, Exits(p) PROVE MissedForgotten'
  <2>1. UNCHANGED <<prev, seen, pc, left>> /\ missed' \subseteq missed
    BY <1>2 DEF Exits, cell, scan
  <2> QED
    BY <2>1, MissedFrame
<1>3. ASSUME NEW p \in Pid, Starts(p) PROVE MissedForgotten'
  <2>1. UNCHANGED <<prev, seen, pc, missed>> /\ p \notin missed
    BY <1>3 DEF Starts, TypeOK, cell, history
  <2>2. \A c \in Caller : left'[c] \subseteq left[c] \cup {p}
    BY <1>3 DEF Starts, TypeOK
  <2> QED
    BY <2>1, <2>2, MissedFrame
<1>4. CASE UNCHANGED <<prev, seen, pc, left, missed>>
  BY <1>4, MissedFrame
<1> QED
  BY <1>1, <1>2, <1>3, <1>4, MissedListProc, MissedListFails, MissedReadStat, MissedSkipEntry,
     MissedFinishScan DEF Next, CallSteps, ClockTicks, vars, cell, scan, history

-------------------------------------------------------------------------------
(* Rows, and the time they are about. *)

(* Differences of the clock. *)
LEMMA SinceFacts ==
    ASSUME NEW a \in Nat, NEW b \in Nat
    PROVE  /\ Since(a, b) \in Nat
           /\ a <= b => Since(a, b) = b - a
           /\ b <= a => Since(a, b) = 0
BY DEF Since

LEMMA RowsOfNothing == \A listing, at : AllRows(listing, NoEntry, at) = NoEntry
BY NoEntryFacts DEF AllRows, NoEntry

(* A row more is a pid more in the table. *)
LEMMA RowsWith ==
    ASSUME NEW listing, NEW m, NEW at, NEW p, NEW n
    PROVE  With(AllRows(listing, m, at), p, CpuTicks(listing.ticks, p, n, Since(listing.at, at)))
             = AllRows(listing, With(m, p, n), at)
<1> DEFINE used == CpuTicks(listing.ticks, p, n, Since(listing.at, at))
           R == AllRows(listing, m, at)
<1>1. DOMAIN R = DOMAIN m /\ \A q \in DOMAIN m : R[q] = CpuTicks(listing.ticks, q, m[q], Since(listing.at, at))
  BY DEF AllRows
<1>2. /\ DOMAIN With(m, p, n) = DOMAIN m \cup {p}
      /\ \A q \in DOMAIN m \cup {p} : With(m, p, n)[q] = IF q = p THEN n ELSE m[q]
  BY DEF With
<1> HIDE DEF R
<1>3. With(R, p, used) = [q \in DOMAIN m \cup {p} |-> IF q = p THEN used ELSE R[q]]
  BY <1>1 DEF With
<1>4. \A q \in DOMAIN m \cup {p} :
         (IF q = p THEN used ELSE R[q])
           = CpuTicks(listing.ticks, q, With(m, p, n)[q], Since(listing.at, at))
  BY <1>1, <1>2
<1>5. AllRows(listing, With(m, p, n), at)
        = [q \in DOMAIN m \cup {p} |->
             CpuTicks(listing.ticks, q, With(m, p, n)[q], Since(listing.at, at))]
  BY <1>2 DEF AllRows
<1> HIDE DEF used
<1>6. With(R, p, used) = AllRows(listing, With(m, p, n), at)
  BY <1>3, <1>4, <1>5, Zenon
<1> QED
  BY <1>6 DEF R, used

LEMMA ComparedInit == Init => RowsCompared
BY DEF Init, RowsCompared

(* A step that leaves the rows and what they compare alone. *)
LEMMA ComparedFrame ==
    ASSUME RowsCompared, UNCHANGED <<prev, now, seen, rows>>,
           \A c \in Caller : pc[c] \in {"scan", "done"} => pc'[c] = pc[c],
           \A c \in Caller :
              pc'[c] = "scan" /\ pc[c] # "scan" => seen[c] = NoEntry /\ pc[c] = "wait"
    PROVE  RowsCompared'
BY RowsOfNothing DEF RowsCompared

LEMMA ComparedReadStat ==
    ASSUME TypeOK, LockDiscipline, RowsCompared, NEW c \in Caller, NEW p \in Pid, ReadStat(c, p)
    PROVE  RowsCompared'
<1>1. /\ pc[c] = "scan" /\ UNCHANGED <<prev, now, pc>>
      /\ seen'[c] = With(seen[c], p, ticks[p])
      /\ rows'[c] = With(rows[c], p, CpuTicks(prev.ticks, p, ticks[p], Since(prev.at, now[c])))
      /\ \A d \in Caller \ {c} : seen'[d] = seen[d] /\ rows'[d] = rows[d]
  BY DEF ReadStat, Elapsed, TypeOK, cell
<1>2. rows[c] = AllRows(prev, seen[c], now[c])
  BY <1>1 DEF RowsCompared
<1>3. rows'[c] = AllRows(prev, seen'[c], now[c])
  BY <1>1, <1>2, RowsWith
<1> QED
  BY <1>1, <1>3 DEF RowsCompared

(* The snapshot is replaced by the only call that is scanning. *)
LEMMA ComparedReplace ==
    ASSUME TypeOK, LockDiscipline, SeenInStep, RowsCompared, NEW c \in Caller, Holds(lock, c),
           pc[c] \in {"wait", "scan"}, pc' = [pc EXCEPT ![c] = "done"],
           \A d \in Caller \ {c} : now'[d] = now[d] /\ seen'[d] = seen[d] /\ rows'[d] = rows[d]
    PROVE  RowsCompared'
<1>1. \A d \in Caller \ {c} : pc[d] # "scan"
  BY OneScan
<1>2. pc'[c] = "done" /\ \A d \in Caller \ {c} : pc'[d] = pc[d]
  BY DEF TypeOK
<1> QED
  BY <1>1, <1>2 DEF RowsCompared

LEMMA ComparedStep ==
    TypeOK /\ LockDiscipline /\ SeenInStep /\ RowsCompared /\ [Next]_vars => RowsCompared'
<1> SUFFICES ASSUME TypeOK, LockDiscipline, SeenInStep, RowsCompared, [Next]_vars
             PROVE  RowsCompared'
  OBVIOUS
<1>1. ASSUME NEW c \in Caller, SampleNow(c) PROVE RowsCompared'
  <2>1. /\ UNCHANGED <<prev, seen, rows>> /\ pc[c] = "idle" /\ pc'[c] = "lock"
        /\ \A d \in Caller \ {c} : now'[d] = now[d] /\ pc'[d] = pc[d]
    BY <1>1 DEF SampleNow, TypeOK, cell
  <2> QED
    BY <2>1 DEF RowsCompared
<1>2. ASSUME NEW c \in Caller, AskForLock(c) PROVE RowsCompared'
  <2>1. /\ UNCHANGED <<prev, now, seen, rows>> /\ pc[c] = "lock" /\ pc'[c] = "wait"
        /\ \A d \in Caller \ {c} : pc'[d] = pc[d]
    BY <1>2 DEF AskForLock, TypeOK, scan
  <2> QED
    BY <2>1, ComparedFrame
<1>3. ASSUME NEW c \in Caller, ListProc(c) PROVE RowsCompared'
  <2>1. /\ UNCHANGED <<prev, now, seen, rows>> /\ pc[c] = "wait" /\ pc'[c] = "scan"
        /\ \A d \in Caller \ {c} : pc'[d] = pc[d]
    BY <1>3 DEF ListProc, TypeOK
  <2>2. seen[c] = NoEntry
    BY <2>1 DEF SeenInStep
  <2> QED
    BY <2>1, <2>2, ComparedFrame
<1>4. ASSUME NEW c \in Caller, ListFails(c) PROVE RowsCompared'
  BY <1>4, ComparedReplace DEF ListFails, TypeOK
<1>5. ASSUME NEW c \in Caller, NEW p \in Pid, ReadStat(c, p) PROVE RowsCompared'
  BY <1>5, ComparedReadStat
<1>6. ASSUME NEW c \in Caller, FinishScan(c) PROVE RowsCompared'
  <2>1. Holds(lock, c) /\ pc[c] = "scan" /\ pc' = [pc EXCEPT ![c] = "done"]
    BY <1>6 DEF FinishScan, LockDiscipline
  <2>2. \A d \in Caller \ {c} : now'[d] = now[d] /\ seen'[d] = seen[d] /\ rows'[d] = rows[d]
    BY <1>6 DEF FinishScan, TypeOK
  <2> QED
    BY <2>1, <2>2, ComparedReplace
<1>7. ASSUME NEW c \in Caller, Return(c) PROVE RowsCompared'
  <2>1. /\ UNCHANGED <<prev, now, seen>> /\ pc'[c] = "idle" /\ rows'[c] = NoEntry
        /\ \A d \in Caller \ {c} : pc'[d] = pc[d] /\ rows'[d] = rows[d]
    BY <1>7 DEF Return, TypeOK, cell
  <2> QED
    BY <2>1 DEF RowsCompared
<1>8. CASE UNCHANGED <<prev, now, seen, rows, pc>>
  BY <1>8, ComparedFrame
<1> QED
  BY <1>1, <1>2, <1>3, <1>4, <1>5, <1>6, <1>7, <1>8
  DEF Next, CallSteps, ClockTicks, Exits, Starts, SkipEntry, vars, cell, scan

(* The clock and the ticks. *)
LEMMA ClockNumbers ==
    ASSUME TypeOK
    PROVE  /\ clock \in Nat /\ prev.at \in Nat
           /\ \A c \in Caller : now[c] \in Nat /\ Elapsed(c) \in Nat
<1>1. \A n \in Times : n \in Nat
  BY ProcessAssumption DEF Times
<1> QED
  BY <1>1, SinceFacts DEF TypeOK, Elapsed

LEMMA RunsInit == Init => RunsWithTheClock /\ OverCoreOnlyByDelay
BY NoEntryFacts DEF Init, DefaultListing, RunsWithTheClock, OverCoreOnlyByDelay

LEMMA RunsClock ==
    ASSUME TypeOK, RunsWithTheClock, OverCoreOnlyByDelay, ClockTicks
    PROVE  RunsWithTheClock' /\ OverCoreOnlyByDelay'
<1>1. /\ clock' = clock + 1
      /\ \A p \in Pid : ticks'[p] \in Nat /\ ticks'[p] <= ticks[p] + 1
      /\ UNCHANGED <<prev, pc, now, seen, rows>>
  BY Numbers DEF ClockTicks, cell, scan
<1>2. RunsWithTheClock'
  BY <1>1, Numbers, ClockNumbers DEF RunsWithTheClock
<1>3. ASSUME NEW c \in Caller, pc[c] = "scan", NEW p \in DOMAIN rows[c]
      PROVE  rows'[c][p] <= Elapsed(c)' + (clock' - now'[c])
  <2>1. rows[c][p] \in Nat /\ rows[c][p] <= Elapsed(c) + (clock - now[c])
    BY <1>3, MapFacts, ProcessAssumption DEF TypeOK, OverCoreOnlyByDelay, Times
  <2>2. Elapsed(c)' = Elapsed(c)
    BY <1>1 DEF Elapsed
  <2> QED
    BY <1>1, <2>1, <2>2, ClockNumbers
<1> QED
  BY <1>1, <1>2, <1>3 DEF OverCoreOnlyByDelay

LEMMA RunsExits ==
    ASSUME TypeOK, RunsWithTheClock, OverCoreOnlyByDelay, NEW p \in Pid, Exits(p)
    PROVE  RunsWithTheClock' /\ OverCoreOnlyByDelay'
<1>1. /\ ticks'[p] = 0 /\ \A q \in Pid \ {p} : ticks'[q] = ticks[q]
      /\ UNCHANGED <<clock, prev, pc, now, seen, rows>>
  BY DEF Exits, TypeOK, cell, scan
<1>2. RunsWithTheClock'
  BY <1>1, Numbers, ClockNumbers DEF RunsWithTheClock
<1> QED
  BY <1>1, <1>2 DEF OverCoreOnlyByDelay, Elapsed

LEMMA RunsSample ==
    ASSUME TypeOK, SeenInStep, RunsWithTheClock, OverCoreOnlyByDelay,
           NEW c \in Caller, SampleNow(c)
    PROVE  RunsWithTheClock' /\ OverCoreOnlyByDelay'
<1>1. /\ UNCHANGED <<clock, ticks, prev, seen, rows>>
      /\ pc[c] = "idle" /\ pc'[c] = "lock" /\ now'[c] = clock
      /\ \A d \in Caller \ {c} : now'[d] = now[d] /\ pc'[d] = pc[d]
  BY DEF SampleNow, TypeOK, machine, cell
<1>2. DOMAIN seen[c] = {}
  BY <1>1, NoEntryFacts DEF SeenInStep
<1>3. RunsWithTheClock'
  BY <1>1, <1>2, ClockNumbers DEF RunsWithTheClock
<1> QED
  BY <1>1, <1>3 DEF OverCoreOnlyByDelay, Elapsed

LEMMA RunsListProc ==
    ASSUME TypeOK, RowsCompared, RunsWithTheClock, OverCoreOnlyByDelay,
           NEW c \in Caller, ListProc(c)
    PROVE  RunsWithTheClock' /\ OverCoreOnlyByDelay'
<1>1. /\ UNCHANGED <<clock, ticks, prev, now, seen, rows>>
      /\ pc[c] = "wait" /\ \A d \in Caller \ {c} : pc'[d] = pc[d]
  BY DEF ListProc, TypeOK, machine, history
<1>2. DOMAIN rows[c] = {}
  BY <1>1, NoEntryFacts DEF RowsCompared
<1>3. RunsWithTheClock'
  BY <1>1 DEF RunsWithTheClock
<1> QED
  BY <1>1, <1>2, <1>3 DEF OverCoreOnlyByDelay, Elapsed

LEMMA RunsReadStat ==
    ASSUME TypeOK, RunsWithTheClock, OverCoreOnlyByDelay,
           NEW c \in Caller, NEW p \in Pid, ReadStat(c, p)
    PROVE  RunsWithTheClock' /\ OverCoreOnlyByDelay'
<1> DEFINE used == CpuTicks(prev.ticks, p, ticks[p], Elapsed(c))
<1>1. /\ UNCHANGED <<clock, ticks, prev, pc, now>>
      /\ seen'[c] = With(seen[c], p, ticks[p])
      /\ rows'[c] = With(rows[c], p, used)
      /\ \A d \in Caller \ {c} : seen'[d] = seen[d] /\ rows'[d] = rows[d]
  BY DEF ReadStat, TypeOK, machine, cell
<1>2. used <= Elapsed(c) + (clock - now[c])
  <2>1. /\ used = 0 \/ (used = ticks[p] - prev.ticks[p] /\ p \in DOMAIN prev.ticks)
        /\ Elapsed(c) = 0 => used = 0
    BY DEF CpuTicks
  <2>2. now[c] <= clock /\ prev.at <= clock
    BY DEF RunsWithTheClock
  <2>3. CASE used = 0
    BY <2>2, <2>3, ClockNumbers
  <2>4. CASE used # 0
    <3>1. Elapsed(c) # 0 /\ p \in DOMAIN prev.ticks /\ used = ticks[p] - prev.ticks[p]
      BY <2>1, <2>4
    <3>2. Elapsed(c) = now[c] - prev.at
      BY <3>1, SinceFacts, ClockNumbers DEF Elapsed
    <3>3. ticks[p] <= prev.ticks[p] + (clock - prev.at)
      BY <3>1 DEF RunsWithTheClock
    <3> HIDE DEF used
    <3> QED
      BY <3>1, <3>2, <3>3, Numbers, ClockNumbers
  <2> QED
    BY <2>3, <2>4
<1> HIDE DEF used
<1>3. RunsWithTheClock'
  <2>1. ASSUME NEW q \in DOMAIN seen'[c] PROVE ticks'[q] <= seen'[c][q] + (clock - now[c])
    <3>1. CASE q = p
      <4>1. seen'[c][q] = ticks[p]
        BY <1>1, <3>1 DEF With
      <4> QED
        BY <1>1, <3>1, <4>1, Numbers, ClockNumbers DEF RunsWithTheClock
    <3>2. CASE q # p
      BY <1>1, <3>2 DEF With, RunsWithTheClock
    <3> QED
      BY <3>1, <3>2
  <2> QED
    BY <1>1, <2>1 DEF RunsWithTheClock
<1>4. \A q \in DOMAIN rows'[c] : rows'[c][q] = used \/ (q \in DOMAIN rows[c] /\ rows'[c][q] = rows[c][q])
  BY <1>1 DEF With
<1>5. \A d \in Caller : Elapsed(d)' = Elapsed(d)
  BY <1>1 DEF Elapsed
<1> QED
  BY <1>1, <1>2, <1>3, <1>4, <1>5 DEF OverCoreOnlyByDelay

(* A listing ends: its table, or an empty one, is stored under its Instant. *)
LEMMA RunsReplace ==
    ASSUME TypeOK, LockDiscipline, SeenInStep, RunsWithTheClock, OverCoreOnlyByDelay,
           NEW c \in Caller, Holds(lock, c), pc' = [pc EXCEPT ![c] = "done"],
           UNCHANGED <<clock, ticks>>, now' = [now EXCEPT ![c] = 0],
           prev'.at = now[c], prev'.ticks \in {seen[c], NoEntry},
           DOMAIN seen'[c] = {}, \A d \in Caller \ {c} : seen'[d] = seen[d]
    PROVE  RunsWithTheClock' /\ OverCoreOnlyByDelay'
<1>1. \A d \in Caller \ {c} : pc[d] # "scan"
  BY OneScan
<1>2. \A d \in Caller : pc'[d] # "scan"
  BY <1>1 DEF TypeOK
<1>3. now'[c] = 0 /\ \A d \in Caller \ {c} : now'[d] = now[d]
  BY DEF TypeOK
<1>4. RunsWithTheClock'
  BY <1>3, NoEntryFacts, ClockNumbers DEF RunsWithTheClock
<1> QED
  BY <1>2, <1>4 DEF OverCoreOnlyByDelay

LEMMA RunsFrame ==
    ASSUME RunsWithTheClock, OverCoreOnlyByDelay, UNCHANGED <<clock, ticks, prev, now, seen>>,
           \A c \in Caller : pc'[c] = "scan" => pc[c] = "scan" /\ rows'[c] = rows[c]
    PROVE  RunsWithTheClock' /\ OverCoreOnlyByDelay'
BY DEF RunsWithTheClock, OverCoreOnlyByDelay, Elapsed

LEMMA RunsStep ==
    ASSUME TypeOK, LockDiscipline, SeenInStep, RowsCompared,
           RunsWithTheClock, OverCoreOnlyByDelay, [Next]_vars
    PROVE  RunsWithTheClock' /\ OverCoreOnlyByDelay'
<1>1. ASSUME NEW c \in Caller, AskForLock(c) \/ Return(c)
      PROVE  RunsWithTheClock' /\ OverCoreOnlyByDelay'
  <2>1. /\ UNCHANGED <<clock, ticks, prev, now, seen>>
        /\ \A d \in Caller : pc'[d] = "scan" => pc[d] = "scan" /\ rows'[d] = rows[d]
    BY <1>1 DEF AskForLock, Return, TypeOK, machine, cell, scan
  <2> QED
    BY <2>1, RunsFrame
<1>2. ASSUME NEW c \in Caller, ListFails(c) PROVE RunsWithTheClock' /\ OverCoreOnlyByDelay'
  <2>1. DOMAIN seen[c] = {}
    BY <1>2, NoEntryFacts DEF ListFails, SeenInStep
  <2> QED
    BY <1>2, <2>1, RunsReplace DEF ListFails
<1>3. ASSUME NEW c \in Caller, FinishScan(c) PROVE RunsWithTheClock' /\ OverCoreOnlyByDelay'
  <2>1. Holds(lock, c) /\ pc' = [pc EXCEPT ![c] = "done"] /\ now' = [now EXCEPT ![c] = 0]
    BY <1>3 DEF FinishScan, LockDiscipline
  <2>2. prev'.at = now[c] /\ prev'.ticks = seen[c] /\ UNCHANGED <<clock, ticks>>
    BY <1>3 DEF FinishScan, machine
  <2>3. DOMAIN seen'[c] = {} /\ \A d \in Caller \ {c} : seen'[d] = seen[d]
    BY <1>3, NoEntryFacts DEF FinishScan, TypeOK
  <2> QED
    BY <2>1, <2>2, <2>3, RunsReplace
<1>4. CASE UNCHANGED <<clock, ticks, prev, now, seen, rows, pc>>
  BY <1>4, RunsFrame
<1> QED
  BY <1>1, <1>2, <1>3, <1>4, RunsClock, RunsExits, RunsSample, RunsListProc, RunsReadStat
  DEF Next, CallSteps, Starts, SkipEntry, vars, machine, cell, scan

-------------------------------------------------------------------------------
(* The exchange that read_processes implements. *)

(* The exchange computes with the same operators. *)
LEMMA SameListings ==
    /\ Exchange!DefaultListing = DefaultListing
    /\ \A S : Exchange!Maps(S) = Maps(S)
    /\ \A listing, m, at : Exchange!AllRows(listing, m, at) = AllRows(listing, m, at)
    /\ \A table : Exchange!TopRows(table) = TopRows(table)
    /\ \A m, S : Exchange!Restrict(m, S) = Restrict(m, S)
<1>1. Exchange!DefaultListing = DefaultListing
  BY DEF Exchange!DefaultListing, DefaultListing, Exchange!NoEntry, NoEntry
<1>2. \A S : Exchange!Maps(S) = Maps(S)
  BY DEF Exchange!Maps, Maps
<1>3. \A listing, m, at : Exchange!AllRows(listing, m, at) = AllRows(listing, m, at)
  BY DEF Exchange!AllRows, AllRows, Exchange!CpuTicks, CpuTicks, Exchange!Since, Since
<1>4. \A S : Exchange!Cardinality(S) = Cardinality(S)
  BY DEF Exchange!Cardinality, Cardinality
<1>5. \A table : Exchange!TopRows(table) = TopRows(table)
  BY <1>4 DEF Exchange!TopRows, TopRows
<1>6. \A m, S : Exchange!Restrict(m, S) = Restrict(m, S)
  BY DEF Exchange!Restrict, Restrict
<1> QED
  BY <1>1, <1>2, <1>3, <1>5, <1>6

LEMMA ExchangeInit == Init => Exchange!Init
BY SameListings DEF Init, Exchange!Init, Exchange!Idle, ListingCall

(* A step of a call that the exchange sees, or does not see. *)
LEMMA CallSeen ==
    ASSUME NEW c \in Caller, NEW view, ListingCall'[c] = view,
           \A d \in Caller \ {c} :
              (pc'[d] = pc[d]) /\ (now'[d] = now[d]) /\ (rows'[d] = rows[d])
    PROVE  ListingCall' = [ListingCall EXCEPT ![c] = view]
<1>1. \A d \in Caller \ {c} : ListingCall'[d] = ListingCall[d]
  BY DEF ListingCall
<1>2. /\ ListingCall' = [d \in Caller |-> ListingCall'[d]]
      /\ [ListingCall EXCEPT ![c] = view] = [d \in Caller |-> IF d = c THEN view ELSE ListingCall[d]]
  BY DEF ListingCall
<1> QED
  BY <1>1, <1>2

LEMMA CallUnseen ==
    ASSUME \A d \in Caller :
              /\ pc[d] \in {"lock", "wait", "scan"} =>
                    pc'[d] \in {"lock", "wait", "scan"} /\ now'[d] = now[d]
              /\ pc[d] \notin {"lock", "wait", "scan"} =>
                    pc'[d] = pc[d] /\ rows'[d] = rows[d]
    PROVE  UNCHANGED ListingCall
BY DEF ListingCall

(* The end of a listing, whole or failed, is the exchange's swap. *)
LEMMA SwapStep ==
    ASSUME TypeOK, NEW c \in Caller, pc[c] \in {"wait", "scan"},
           NEW curr \in Maps(Times), NEW top \in TopRows(AllRows(prev, curr, now[c])),
           prev' = [ticks |-> curr, at |-> now[c]],
           pc'[c] = "done", rows'[c] = Restrict(AllRows(prev, curr, now[c]), top),
           \A d \in Caller \ {c} :
              (pc'[d] = pc[d]) /\ (now'[d] = now[d]) /\ (rows'[d] = rows[d])
    PROVE  Exchange!Swap(c)
<1>1. ListingCall[c].phase = "begun" /\ ListingCall[c].at = now[c]
  BY DEF ListingCall
<1>2. ListingCall'[c] = Exchange!Answered(Restrict(AllRows(prev, curr, now[c]), top))
  BY DEF ListingCall, Exchange!Answered
<1>3. ListingCall' = [ListingCall EXCEPT ![c] =
                        Exchange!Answered(Restrict(AllRows(prev, curr, now[c]), top))]
  BY <1>2, CallSeen
<1> QED
  BY <1>1, <1>3, SameListings DEF Exchange!Swap

(* A failed listing stores and answers the empty table. *)
LEMMA NoEntryOnTop ==
    /\ {} \in TopRows(NoEntry)
    /\ Restrict(NoEntry, {}) = NoEntry
<1>1. Cardinality(DOMAIN NoEntry) = 0
  BY NoEntryFacts, FS_EmptySet
<1>2. Restrict(NoEntry, {}) = NoEntry
  BY NoEntryFacts DEF Restrict, NoEntry
<1> QED
  BY <1>1, <1>2, NoEntryFacts, FS_EmptySet, ProcessAssumption DEF TopRows

LEMMA ExchangeStep ==
    ASSUME TypeOK, LockDiscipline, RowsCompared, [Next]_vars
    PROVE  [Exchange!Next]_(Exchange!vars)
<1> SUFFICES Exchange!Next \/ UNCHANGED Exchange!vars
  OBVIOUS
<1>1. ASSUME NEW c \in Caller, SampleNow(c) PROVE Exchange!Begin(c)
  <2>1. /\ UNCHANGED <<prev, rows>> /\ pc[c] = "idle" /\ pc'[c] = "lock"
        /\ now'[c] = clock /\ clock \in Times
        /\ \A d \in Caller \ {c} : now'[d] = now[d] /\ pc'[d] = pc[d]
    BY <1>1 DEF SampleNow, TypeOK, cell
  <2>2. ListingCall[c] = Exchange!Idle /\ ListingCall'[c] = Exchange!Begun(clock)
    BY <2>1 DEF ListingCall, Exchange!Idle, Exchange!Begun
  <2>3. ListingCall' = [ListingCall EXCEPT ![c] = Exchange!Begun(clock)]
    BY <2>1, <2>2, CallSeen
  <2> QED
    BY <2>1, <2>2, <2>3 DEF Exchange!Begin
<1>2. ASSUME NEW c \in Caller, AskForLock(c) \/ ListProc(c) PROVE UNCHANGED Exchange!vars
  <2>1. /\ UNCHANGED <<prev, now, rows>>
        /\ pc[c] \in {"lock", "wait"} /\ pc'[c] \in {"wait", "scan"}
        /\ \A d \in Caller \ {c} : pc'[d] = pc[d]
    BY <1>2 DEF AskForLock, ListProc, TypeOK, scan
  <2>2. UNCHANGED ListingCall
    BY <2>1, CallUnseen
  <2> QED
    BY <2>1, <2>2 DEF Exchange!vars
<1>3. ASSUME NEW c \in Caller, ListFails(c) PROVE Exchange!Swap(c)
  <2>1. /\ pc[c] = "wait" /\ pc'[c] = "done" /\ prev' = [ticks |-> NoEntry, at |-> now[c]]
        /\ \A d \in Caller \ {c} : pc'[d] = pc[d] /\ now'[d] = now[d]
        /\ UNCHANGED rows
    BY <1>3 DEF ListFails, TypeOK
  <2>2. rows'[c] = Restrict(AllRows(prev, NoEntry, now[c]), {})
    BY <2>1, RowsOfNothing, NoEntryOnTop DEF RowsCompared
  <2>3. {} \in TopRows(AllRows(prev, NoEntry, now[c])) /\ NoEntry \in Maps(Times)
    BY RowsOfNothing, NoEntryOnTop, NoEntryFacts
  <2> QED
    BY <2>1, <2>2, <2>3, SwapStep
<1>4. ASSUME NEW c \in Caller, FinishScan(c) PROVE Exchange!Swap(c)
  <2>1. /\ pc[c] = "scan" /\ pc'[c] = "done" /\ prev' = [ticks |-> seen[c], at |-> now[c]]
        /\ \A d \in Caller \ {c} : pc'[d] = pc[d] /\ now'[d] = now[d] /\ rows'[d] = rows[d]
        /\ seen[c] \in Maps(Times)
    BY <1>4 DEF FinishScan, TypeOK
  <2>2. rows[c] = AllRows(prev, seen[c], now[c])
    BY <2>1 DEF RowsCompared
  <2>3. PICK top \in TopRows(rows[c]) : rows'[c] = Restrict(rows[c], top)
    BY <1>4 DEF FinishScan, TypeOK
  <2> QED
    BY <2>1, <2>2, <2>3, SwapStep
<1>5. ASSUME NEW c \in Caller, Return(c) PROVE Exchange!Deliver(c)
  <2>1. /\ UNCHANGED <<prev, now>> /\ pc[c] = "done" /\ pc'[c] = "idle"
        /\ \A d \in Caller \ {c} : pc'[d] = pc[d] /\ rows'[d] = rows[d]
    BY <1>5 DEF Return, TypeOK, cell
  <2>2. ListingCall[c].phase = "answered" /\ ListingCall'[c] = Exchange!Idle
    BY <2>1 DEF ListingCall, Exchange!Idle
  <2>3. ListingCall' = [ListingCall EXCEPT ![c] = Exchange!Idle]
    BY <2>1, <2>2, CallSeen
  <2> QED
    BY <2>1, <2>2, <2>3 DEF Exchange!Deliver
<1>6. ASSUME NEW c \in Caller, NEW p \in Pid, ReadStat(c, p) PROVE UNCHANGED Exchange!vars
  <2>1. /\ UNCHANGED <<prev, now, pc>> /\ pc[c] = "scan"
        /\ \A d \in Caller \ {c} : rows'[d] = rows[d]
    BY <1>6 DEF ReadStat, TypeOK, cell
  <2>2. UNCHANGED ListingCall
    BY <2>1, CallUnseen
  <2> QED
    BY <2>1, <2>2 DEF Exchange!vars
<1>7. CASE UNCHANGED <<prev, pc, now, rows>>
  BY <1>7, CallUnseen DEF Exchange!vars
<1> QED
  BY <1>1, <1>2, <1>3, <1>4, <1>5, <1>6, <1>7
  DEF Next, CallSteps, ClockTicks, Exits, Starts, SkipEntry, vars, cell, scan, Exchange!Next

-------------------------------------------------------------------------------
(* The theorems. *)

LEMMA Inductive ==
    /\ Init => IInv
    /\ IInv /\ [Next]_vars => IInv'
<1>1. Init => LockDiscipline
  BY UnlockedFacts DEF Init, LockDiscipline, Distinct, Unlocked, Wants
<1>2. Init => MissedForgotten
  BY DEF Init, MissedForgotten
<1>4. Init => IInv
  BY <1>1, <1>2, TypeInit, KeptInit, ComparedInit, RunsInit DEF IInv, Kept
<1>3. IInv /\ [Next]_vars => IInv'
  BY TypeStep, LockStep, KeptStep, MissedStep, ComparedStep, RunsStep DEF IInv, Kept
<1> QED
  BY <1>3, <1>4

(* The state of read_processes has its type (processes.rs:207-230). *)
THEOREM TypeCorrect == Spec => []TypeOK
<1>1. IInv => TypeOK
  BY DEF IInv
<1> QED
  BY <1>1, Inductive, PTL DEF Spec

(* Every arm of read_processes gives the lock back, and one call scans at a time. *)
THEOREM LockCorrect == Spec => []LockDiscipline
<1>1. IInv => LockDiscipline
  BY DEF IInv
<1> QED
  BY <1>1, Inductive, PTL DEF Spec

(* No listing credits a process with CPU time another has credited it with. *)
THEOREM NothingCreditedTwice == Spec => []NeverOvercredited
<1>1. IInv => NeverOvercredited
  BY DEF IInv, TypeOK, CreditedCovered, NeverOvercredited
<1> QED
  BY <1>1, Inductive, PTL DEF Spec

(* A row is the CPU time since the listing before, and zero for a running process
   which that one passed over. *)
THEOREM RowsExact == Spec => RowsAreExact
<1>1. ASSUME IInv, NEW c \in Caller, NEW p \in Pid, ReadStat(c, p)
      PROVE  /\ rows'[c][p] = CpuTicks(prev.ticks, p, ticks[p], Elapsed(c))
             /\ Unseen(p) /\ p \in left[c] /\ \A d \in Caller : pc[d] = "scan" => d = c
  <2>1. pc[c] = "scan" /\ Holds(lock, c) /\ p \in left[c]
    BY <1>1 DEF ReadStat, IInv, LockDiscipline
  <2>2. Unseen(p) /\ \A d \in Caller : pc[d] = "scan" => d = c
    BY <1>1, <2>1, OneScan DEF IInv, SeenInStep, Unseen
  <2>3. rows'[c] = With(rows[c], p, CpuTicks(prev.ticks, p, ticks[p], Elapsed(c)))
    BY <1>1 DEF ReadStat, IInv, TypeOK
  <2> QED
    BY <2>1, <2>2, <2>3 DEF With
<1>2. ASSUME IInv, NEW c \in Caller, NEW p \in Pid, ReadStat(c, p), p \in DOMAIN lastRead,
             Elapsed(c) > 0
      PROVE  rows'[c][p] = ticks[p] - lastRead[p]
  <2>1. p \in DOMAIN prev.ticks /\ prev.ticks[p] = lastRead[p] /\ lastRead[p] <= ticks[p]
    BY <1>1, <1>2 DEF IInv, LastReadKept
  <2>2. CpuTicks(prev.ticks, p, ticks[p], Elapsed(c)) = ticks[p] - lastRead[p]
    BY <1>2, <2>1, CpuTicksFacts, Numbers DEF IInv, TypeOK
  <2> QED
    BY <1>1, <1>2, <2>2
<1>3. ASSUME IInv, NEW c \in Caller, NEW p \in Pid, ReadStat(c, p), p \in missed
      PROVE  rows'[c][p] = 0
  <2>1. p \notin DOMAIN prev.ticks
    BY <1>1, <1>3 DEF IInv, MissedForgotten
  <2> QED
    BY <1>1, <1>3, <2>1 DEF CpuTicks
<1>4. IInv => \A c \in Caller, p \in Pid :
                 ReadStat(c, p) =>
                   /\ p \in DOMAIN lastRead /\ Elapsed(c) > 0
                        => rows'[c][p] = ticks[p] - lastRead[p]
                   /\ p \in missed => rows'[c][p] = 0
  BY <1>2, <1>3
<1> QED
  BY <1>4, Inductive, PTL DEF Spec, RowsAreExact

(* A row of a process with one thread is more than one core only by the time the
   listing has waited and scanned, for any number of calls, pids and processes. *)
THEOREM WithinOneCoreAndDelay == Spec => []OverCoreOnlyByDelay
<1>1. IInv => OverCoreOnlyByDelay
  BY DEF IInv
<1> QED
  BY <1>1, Inductive, PTL DEF Spec

(* read_processes is an atomic exchange of listings: every answer is the top of
   one table compared with the one that this table replaces. *)
THEOREM ExchangeImplemented == Spec => ImplementsExchange
<1>1. IInv /\ [Next]_vars => [Exchange!Next]_(Exchange!vars)
  BY ExchangeStep DEF IInv
<1> QED
  BY <1>1, Inductive, ExchangeInit, PTL DEF Spec, ImplementsExchange, Exchange!Spec
===============================================================================
