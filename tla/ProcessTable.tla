----------------------------- MODULE ProcessTable -----------------------------
(***************************************************************************)
(* read_processes: the top-by-CPU process list of get_stats.  Unlike the   *)
(* disk and network blocks it takes its Instant before it waits for the    *)
(* lock and scans /proc while it holds it, one process at a time, with     *)
(* processes running, exiting and reusing pids meanwhile.                  *)
(*                                                                         *)
(*   "idle"    not inside read_processes                                   *)
(*   "lock"    `now` is taken, prev_procs is not asked for yet             *)
(*   "wait"    queued on prev_procs, or given it and not resumed           *)
(*   "scan"    walking the entries that read_dir returned                  *)
(*   "done"    the list is returned, the guard dropped with it             *)
(***************************************************************************)
EXTENDS Sequences, Listings, TokioMutex

CONSTANTS
    Caller,      \* concurrent get_stats calls
    MaxTime,     \* bound of the monotonic clock
    MaxStarts,   \* bound of the number of processes ever started
    MaxFaults    \* how often /proc cannot be listed

ASSUME ProcessAssumption ==
    /\ Limit \in Nat /\ MaxTime \in Nat
    /\ MaxStarts \in Nat /\ MaxFaults \in Nat

VARIABLES
    clock,      \* the monotonic clock
    alive,      \* pids with a process
    ticks,      \* utime + stime of the process with each pid
    starts,     \* processes started so far
    faults,     \* failed listings so far
    prev,       \* MetricsState.prev_procs: ticks by pid, and at
    lock,       \* the mutex around prev
    pc,         \* where each call is
    now,        \* local `now` of each call
    left,       \* entries of read_dir each call has still to visit
    seen,       \* local current_ticks of each call
    rows,       \* local processes of each call, then its answer: CPU ticks by pid
    credited,   \* history: CPU ticks rows ever gave to each pid's process
    lastRead,   \* history: ticks at which the last listing read each running process
    missed      \* history: the running processes which the last listing passed over

machine == <<clock, alive, ticks, starts, faults>>
cell == <<prev, lock>>
scan == <<now, left, seen, rows>>
history == <<credited, lastRead, missed>>
vars == <<machine, cell, pc, scan, history>>

Times == 0 .. MaxTime

Init ==
    /\ clock = 0
    /\ alive \in SUBSET Pid
    /\ ticks = [p \in Pid |-> 0]
    /\ starts = 0
    /\ faults = 0
    /\ prev = DefaultListing
    /\ lock = Unlocked
    /\ pc = [c \in Caller |-> "idle"]
    /\ now = [c \in Caller |-> 0]
    /\ left = [c \in Caller |-> {}]
    /\ seen = [c \in Caller |-> NoEntry]
    /\ rows = [c \in Caller |-> NoEntry]
    /\ credited = [p \in Pid |-> 0]
    /\ lastRead = NoEntry
    /\ missed = {}

-------------------------------------------------------------------------------
(* The machine.  Processes have one thread and the clock counts CPU ticks,
   so in each tick of the clock a process uses one tick of CPU or none. *)

ClockTicks ==
    /\ clock < MaxTime
    /\ clock' = clock + 1
    /\ \E running \in SUBSET alive :
         ticks' = [p \in Pid |-> IF p \in running THEN ticks[p] + 1 ELSE ticks[p]]
    /\ UNCHANGED <<alive, starts, faults, cell, pc, scan, history>>

Exits(p) ==
    /\ p \in alive
    /\ alive' = alive \ {p}
    /\ ticks' = [ticks EXCEPT ![p] = 0]
    /\ credited' = [credited EXCEPT ![p] = 0]
    /\ lastRead' = Restrict(lastRead, DOMAIN lastRead \ {p})
    /\ missed' = missed \ {p}
    /\ UNCHANGED <<clock, starts, faults, cell, pc, scan>>

(* A free pid, possibly one that was used before, gets a new process.  A walk
   under way comes across it or not. *)
Starts(p) ==
    /\ p \notin alive
    /\ starts < MaxStarts
    /\ starts' = starts + 1
    /\ alive' = alive \cup {p}
    /\ \E finders \in SUBSET {c \in Caller : pc[c] = "scan" /\ p \notin DOMAIN seen[c]} :
         left' = [c \in Caller |-> IF c \in finders THEN left[c] \cup {p} ELSE left[c]]
    /\ UNCHANGED <<clock, ticks, faults, cell, pc, now, seen, rows, history>>

-------------------------------------------------------------------------------
(* One call. *)

SampleNow(c) ==
    /\ pc[c] = "idle"
    /\ now' = [now EXCEPT ![c] = clock]
    /\ pc' = [pc EXCEPT ![c] = "lock"]
    /\ UNCHANGED <<machine, cell, left, seen, rows, history>>

AskForLock(c) ==
    /\ pc[c] = "lock"
    /\ lock' = JoinQueue(lock, c)
    /\ pc' = [pc EXCEPT ![c] = "wait"]
    /\ UNCHANGED <<machine, prev, scan, history>>

(* read_dir succeeds; its entries are at least the processes of that moment. *)
ListProc(c) ==
    /\ pc[c] = "wait"
    /\ Holds(lock, c)
    /\ left' = [left EXCEPT ![c] = alive]
    /\ pc' = [pc EXCEPT ![c] = "scan"]
    /\ UNCHANGED <<machine, prev, lock, now, seen, rows, history>>

(* Variant: the failing arm keeps the guard. *)
ListFailsHolding(c) ==
    /\ pc[c] = "wait"
    /\ Holds(lock, c)
    /\ faults < MaxFaults
    /\ faults' = faults + 1
    /\ prev' = [ticks |-> NoEntry, at |-> now[c]]
    /\ pc' = [pc EXCEPT ![c] = "done"]
    /\ now' = [now EXCEPT ![c] = 0]
    /\ lastRead' = NoEntry
    /\ missed' = alive
    /\ UNCHANGED <<clock, alive, ticks, starts, lock, left, seen, rows, credited>>

(* read_dir fails: no rows, and no ticks to compare the next listing with. *)
ListFails(c) ==
    /\ pc[c] = "wait"
    /\ Holds(lock, c)
    /\ faults < MaxFaults
    /\ faults' = faults + 1
    /\ prev' = [ticks |-> NoEntry, at |-> now[c]]
    /\ lock' = DropGuard(lock)
    /\ pc' = [pc EXCEPT ![c] = "done"]
    /\ now' = [now EXCEPT ![c] = 0]
    /\ lastRead' = NoEntry
    /\ missed' = alive
    /\ UNCHANGED <<clock, alive, ticks, starts, left, seen, rows, credited>>

(* Variant: a row is made with the time at which it is read. *)
ElapsedAtRead(c) == Since(prev.at, clock)

Elapsed(c) == Since(prev.at, now[c])

With(map, p, n) == [q \in DOMAIN map \cup {p} |-> IF q = p THEN n ELSE map[q]]

(* /proc/<p>/stat is read, its ticks kept and its row made. *)
ReadStat(c, p) ==
    /\ pc[c] = "scan"
    /\ p \in left[c] \cap alive
    /\ left' = [left EXCEPT ![c] = @ \ {p}]
    /\ seen' = [seen EXCEPT ![c] = With(@, p, ticks[p])]
    /\ LET used == CpuTicks(prev.ticks, p, ticks[p], Elapsed(c))
       IN  /\ rows' = [rows EXCEPT ![c] = With(@, p, used)]
           /\ credited' = [credited EXCEPT ![p] = @ + used]
    /\ lastRead' = With(lastRead, p, ticks[p])
    /\ missed' = missed \ {p}
    /\ UNCHANGED <<machine, cell, pc, now>>

(* The entry or its stat file cannot be read, or its line not be parsed: because
   the process is gone by now, for want of a file descriptor, because its name
   is not UTF-8.  It has no row, and no ticks for the next listing. *)
SkipEntry(c, p) ==
    /\ pc[c] = "scan"
    /\ p \in left[c]
    /\ left' = [left EXCEPT ![c] = @ \ {p}]
    /\ lastRead' = Restrict(lastRead, DOMAIN lastRead \ {p})
    /\ missed' = missed \cup ({p} \cap alive)
    /\ UNCHANGED <<machine, cell, pc, now, seen, rows, credited>>

(* Variant: only the ticks of the rows that are shown are kept. *)
FinishScanTop(c) ==
    /\ pc[c] = "scan"
    /\ left[c] = {}
    /\ \E top \in TopRows(rows[c]) :
         /\ rows' = [rows EXCEPT ![c] = Restrict(@, top)]
         /\ prev' = [ticks |-> Restrict(seen[c], top), at |-> now[c]]
    /\ lock' = DropGuard(lock)
    /\ pc' = [pc EXCEPT ![c] = "done"]
    /\ now' = [now EXCEPT ![c] = 0]
    /\ seen' = [seen EXCEPT ![c] = NoEntry]
    /\ UNCHANGED <<machine, left, history>>

(* Variant: the snapshot is dated with the end of the scan. *)
FinishScanLate(c) ==
    /\ pc[c] = "scan"
    /\ left[c] = {}
    /\ prev' = [ticks |-> seen[c], at |-> clock]
    /\ \E top \in TopRows(rows[c]) : rows' = [rows EXCEPT ![c] = Restrict(@, top)]
    /\ lock' = DropGuard(lock)
    /\ pc' = [pc EXCEPT ![c] = "done"]
    /\ now' = [now EXCEPT ![c] = 0]
    /\ seen' = [seen EXCEPT ![c] = NoEntry]
    /\ UNCHANGED <<machine, left, history>>

(* Every entry is visited: the snapshot is replaced with the ticks of all of
   them, the top rows are returned, the guard is dropped and the other locals end. *)
FinishScan(c) ==
    /\ pc[c] = "scan"
    /\ left[c] = {}
    /\ prev' = [ticks |-> seen[c], at |-> now[c]]
    /\ \E top \in TopRows(rows[c]) : rows' = [rows EXCEPT ![c] = Restrict(@, top)]
    /\ lock' = DropGuard(lock)
    /\ pc' = [pc EXCEPT ![c] = "done"]
    /\ now' = [now EXCEPT ![c] = 0]
    /\ seen' = [seen EXCEPT ![c] = NoEntry]
    /\ UNCHANGED <<machine, left, history>>

(* The list goes into the response. *)
Return(c) ==
    /\ pc[c] = "done"
    /\ rows' = [rows EXCEPT ![c] = NoEntry]
    /\ pc' = [pc EXCEPT ![c] = "idle"]
    /\ UNCHANGED <<machine, cell, now, left, seen, history>>

CallSteps(c) ==
    \/ SampleNow(c)
    \/ AskForLock(c)
    \/ ListProc(c)
    \/ ListFails(c)
    \/ \E p \in Pid : ReadStat(c, p) \/ SkipEntry(c, p)
    \/ FinishScan(c)
    \/ Return(c)

Next ==
    \/ ClockTicks
    \/ \E p \in Pid : Exits(p) \/ Starts(p)
    \/ \E c \in Caller : CallSteps(c)

Spec == Init /\ [][Next]_vars

-------------------------------------------------------------------------------
(* Properties. *)

(* Type correctness: the state of read_processes (processes.rs:207-230). *)
TypeOK ==
    /\ clock \in Times
    /\ alive \subseteq Pid
    /\ ticks \in [Pid -> Times]
    /\ starts \in 0 .. MaxStarts
    /\ faults \in 0 .. MaxFaults
    /\ prev \in [ticks : Maps(Times), at : Times]
    /\ lock \in Seq(Caller)
    /\ pc \in [Caller -> {"idle", "lock", "wait", "scan", "done"}]
    /\ now \in [Caller -> Times]
    /\ left \in [Caller -> SUBSET Pid]
    /\ seen \in [Caller -> Maps(Times)]
    /\ rows \in [Caller -> Maps(Times)]
    /\ credited \in [Pid -> Nat]
    /\ lastRead \in Maps(Times)
    /\ missed \subseteq alive

(* No CPU time is shown twice (processes.rs:182-188, 220): what all listings
   together attribute to a process never exceeds what it has used, however
   calls overlap, listings fail and pids are reused.  The disk and network
   blocks, which read before they wait, do not have this property. *)
NeverOvercredited == \A p \in alive : credited[p] <= ticks[p]

(* A process's row is exactly the CPU it used since the listing before, if that
   one read it, whether or not it showed it; if that one passed over the running
   process, or failed as a whole, the row is zero, and what the process used until
   then is never shown (processes.rs:166-180, 188, 202, 220-226: the ticks of
   truncated rows are kept, those of skipped entries are not, and only whole
   listings replace them). *)
RowsAreExact ==
    [][ \A c \in Caller, p \in Pid :
          ReadStat(c, p) =>
            /\ p \in DOMAIN lastRead /\ Elapsed(c) > 0 => rows'[c][p] = ticks[p] - lastRead[p]
            /\ p \in missed => rows'[c][p] = 0 ]_vars

(* Both arms of read_dir drop the guard, and nothing else does (processes.rs:212-
   229): the calls that hold or want prev_procs are those that wait or scan, each
   of them once, and only the first one scans. *)
LockDiscipline ==
    /\ \A c \in Caller : Wants(lock, c) <=> pc[c] \in {"wait", "scan"}
    /\ \A i, j \in DOMAIN lock : lock[i] = lock[j] => i = j
    /\ \A c \in Caller : pc[c] = "scan" => Holds(lock, c)

(* A process with one thread exceeds one full core by no more than the time
   for which its listing has waited for the lock and scanned since it took its
   Instant (processes.rs:164, 208, 212, 222): the ticks that a snapshot stores
   are never older than the Instant that dates it, whoever stored it, however
   long the scans take and whichever process has taken over the pid. *)
OverCoreOnlyByDelay ==
    \A c \in Caller : pc[c] = "scan" =>
       \A p \in DOMAIN rows[c] : rows[c][p] <= Elapsed(c) + (clock - now[c])

(* The call of a listing as the exchange sees it. *)
ListingCall ==
    [c \in Caller |->
       IF pc[c] \in {"lock", "wait", "scan"}
       THEN [phase |-> "begun", at |-> now[c]]
       ELSE IF pc[c] = "done"
       THEN [phase |-> "answered", rows |-> rows[c]]
       ELSE [phase |-> "idle"]]

Exchange == INSTANCE ListingExchange WITH cell <- prev, call <- ListingCall

(* read_processes implements the exchange (processes.rs:157-230): although a
   listing reads /proc entry by entry while processes come and go, its answer
   is the top of one table compared with the snapshot that this table replaces,
   at one elapsed time; a failed listing leaves the empty table. *)
ImplementsExchange == Exchange!Spec

-------------------------------------------------------------------------------
(* A statement of the repository that the code does not keep. *)

(* docs/tauri-migration-plan.md:184-185 "100 % = one full core": a process
   with one thread never shows more CPU ticks than have elapsed. *)
OneThreadWithinOneCore ==
    \A c \in Caller : pc[c] = "scan" => \A p \in DOMAIN rows[c] : rows[c][p] <= Elapsed(c)
===============================================================================
