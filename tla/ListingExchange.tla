---------------------------- MODULE ListingExchange ----------------------------
(***************************************************************************)
(* What read_processes promises to its callers: a single cell holds the    *)
(* ticks of the last listing, and a call takes, in one indivisible step,   *)
(* the top rows of a whole new listing against the cell and leaves the new *)
(* listing there, dated with the Instant the call began at.                *)
(*                                                                         *)
(* The promise says nothing of when the ticks are read, nor of the order   *)
(* in which calls are served.                                              *)
(***************************************************************************)
EXTENDS Listings

CONSTANTS Caller, Times

VARIABLES cell, call

vars == <<cell, call>>

Idle == [phase |-> "idle"]
Begun(at) == [phase |-> "begun", at |-> at]
Answered(rows) == [phase |-> "answered", rows |-> rows]

Init ==
    /\ cell = DefaultListing
    /\ call = [c \in Caller |-> Idle]

Begin(c) ==
    /\ call[c] = Idle
    /\ \E at \in Times : call' = [call EXCEPT ![c] = Begun(at)]
    /\ UNCHANGED cell

Swap(c) ==
    /\ call[c].phase = "begun"
    /\ \E curr \in Maps(Times) :
         LET rows == AllRows(cell, curr, call[c].at)
         IN  /\ cell' = [ticks |-> curr, at |-> call[c].at]
             /\ \E top \in TopRows(rows) :
                  call' = [call EXCEPT ![c] = Answered(Restrict(rows, top))]

Deliver(c) ==
    /\ call[c].phase = "answered"
    /\ call' = [call EXCEPT ![c] = Idle]
    /\ UNCHANGED cell

Next == \E c \in Caller : Begin(c) \/ Swap(c) \/ Deliver(c)

Spec == Init /\ [][Next]_vars
===============================================================================
