--------------------------- MODULE SnapshotExchange ---------------------------
(***************************************************************************)
(* What the disk and network blocks of get_stats promise to their callers: *)
(* a single cell holds the last snapshot, and a call that offers a newly   *)
(* sampled one takes, in one indivisible step, the rate since the snapshot *)
(* in the cell and leaves its own there.  The snapshots the answers are    *)
(* computed from form one chain, whatever the calls do concurrently.       *)
(*                                                                         *)
(* The promise says nothing of the order in which offers are served, and   *)
(* nothing about an offer being newer than the cell: the code guarantees   *)
(* neither.                                                                *)
(***************************************************************************)
EXTENDS Rates

CONSTANTS Caller, Snapshot

VARIABLES cell, call

vars == <<cell, call>>

Idle == [phase |-> "idle"]
Offered(snap) == [phase |-> "offered", snap |-> snap]
Answered(rate) == [phase |-> "answered", rate |-> rate]

Init ==
    /\ cell = DefaultSnapshot
    /\ call = [c \in Caller |-> Idle]

Offer(c) ==
    /\ call[c] = Idle
    /\ \E snap \in Snapshot : call' = [call EXCEPT ![c] = Offered(snap)]
    /\ UNCHANGED cell

Swap(c) ==
    /\ call[c].phase = "offered"
    /\ call' = [call EXCEPT ![c] =
                  Answered(ComputeStats(cell, call[c].snap.counters, call[c].snap.at))]
    /\ cell' = call[c].snap

Deliver(c) ==
    /\ call[c].phase = "answered"
    /\ call' = [call EXCEPT ![c] = Idle]
    /\ UNCHANGED cell

Next == \E c \in Caller : Offer(c) \/ Swap(c) \/ Deliver(c)

Spec == Init /\ [][Next]_vars
===============================================================================
