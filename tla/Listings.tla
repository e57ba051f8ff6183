------------------------------- MODULE Listings -------------------------------
(***************************************************************************)
(* What build_process_list makes of the stored ticks and of those it has   *)
(* read: a row for every pid read, then the rows at the top.               *)
(***************************************************************************)
EXTENDS Integers, FiniteSets, Functions

CONSTANTS
    Pid,         \* process ids
    Limit        \* truncate(40)

NoEntry == [p \in {} |-> 0]
Maps(S) == UNION {[D -> S] : D \in SUBSET Pid}

(* ProcessSnapshot::default(): no ticks, and the Instant at which MetricsState
   was built, the origin of time here. *)
DefaultListing == [ticks |-> NoEntry, at |-> 0]

(* Instant::duration_since saturates at 0. *)
Since(earlier, later) == IF later >= earlier THEN later - earlier ELSE 0

(* Variant: a pid the last snapshot does not hold counts from zero. *)
CpuTicksFromZero(prevTicks, pid, currTicks, elapsed) ==
    IF elapsed = 0
    THEN 0
    ELSE IF pid \notin DOMAIN prevTicks
    THEN currTicks
    ELSE IF currTicks < prevTicks[pid] THEN 0 ELSE currTicks - prevTicks[pid]

(* Variant: the difference is not saturated. *)
CpuTicksPlain(prevTicks, pid, currTicks, elapsed) ==
    IF elapsed = 0 \/ pid \notin DOMAIN prevTicks
    THEN 0
    ELSE currTicks - prevTicks[pid]

(* The ticks a row's percentage is made of: zero when no time has passed or
   the last snapshot does not hold the pid.  The percentage is these ticks
   over the elapsed time, which all rows of a listing share, so rows compare
   as their ticks do; rounded to one decimal, as the code compares them, they
   still do while listings are no more than ten seconds apart. *)
CpuTicks(prevTicks, pid, currTicks, elapsed) ==
    IF elapsed = 0 \/ pid \notin DOMAIN prevTicks \/ currTicks < prevTicks[pid]
    THEN 0
    ELSE currTicks - prevTicks[pid]

(* The rows of a listing that read curr at the time at. *)
AllRows(prev, curr, at) ==
    [p \in DOMAIN curr |-> CpuTicks(prev.ticks, p, curr[p], Since(prev.at, at))]

(* sort_by descending CPU and truncate: Limit rows that no other exceeds. *)
TopRows(table) ==
    LET all == DOMAIN table
        size == IF Cardinality(all) <= Limit THEN Cardinality(all) ELSE Limit
    IN  {top \in SUBSET all :
           /\ Cardinality(top) = size
           /\ \A p \in top, q \in all \ top : table[p] >= table[q]}
===============================================================================
