------------------------------- MODULE GetStats -------------------------------
(***************************************************************************)
(* The whole get_stats command, as concurrent calls run it.  A call reads  *)
(* the CPU load (two readings with a sleep between them) and the memory,   *)
(* then goes through the three cells of MetricsState in the same order,    *)
(* each behind its own lock, then reads GPU and battery and answers.       *)
(*                                                                         *)
(* RateMetric and ProcessTable say what a call does in a cell.  Here a     *)
(* stay in a cell is one step, taken with the lock and giving it back, and *)
(* of a snapshot only whose it is is kept, which tells what the figures of *)
(* an answer are measured against.                                         *)
(*                                                                         *)
(*   "idle"    no call                                                     *)
(*   "cpu"     asleep between the two readings of /proc/stat               *)
(*   "ask"     taking the Instant and the counters of cell at[c], before   *)
(*             lock().await                                                *)
(*   "wait"    queued on it, or given it and not resumed                   *)
(*   "answer"  past the last cell                                          *)
(***************************************************************************)
EXTENDS TokioMutex

CONSTANTS
    Caller,     \* concurrent calls: overlapping ticks of one or more windows
    Boot        \* the owner of the snapshots MetricsState starts with

ASSUME BootAssumption == \A c \in Caller, r \in {0, 1} : Boot # <<c, r>>

VARIABLES
    owner,      \* the call that stored the snapshot of each cell
    locks,      \* the mutex around each cell
    step,       \* where each call is
    at,         \* which cell each call is at
    parts,      \* what each figure of a call's answer is measured against
    round,      \* tells a call of a Caller from its next one
    alone,      \* history: no other call has been in flight during this one
    disturbed,  \* history: calls overlapped, and no lone call has ended since
    last        \* history: the call that answered last

program == <<owner, locks, step, at, parts, round>>
history == <<alone, disturbed, last>>
vars == <<program, history>>

(* prev_disk, prev_net and prev_procs, in the order get_stats visits them. *)
Cells == <<"disk", "net", "procs">>
Cell == {Cells[i] : i \in DOMAIN Cells}
Here(c) == Cells[at[c]]

Call(c) == <<c, round[c]>>
InFlight == {c \in Caller : step[c] # "idle"}
NoParts == [k \in Cell |-> Boot]

Init ==
    /\ owner = [k \in Cell |-> Boot]
    /\ locks = [k \in Cell |-> Unlocked]
    /\ step = [c \in Caller |-> "idle"]
    /\ at = [c \in Caller |-> 1]
    /\ parts = [c \in Caller |-> NoParts]
    /\ round = [c \in Caller |-> 0]
    /\ alone = [c \in Caller |-> FALSE]
    /\ disturbed = FALSE
    /\ last = Boot

-------------------------------------------------------------------------------
(* A window invokes get_stats: /proc/stat is read and the sleep begins. *)
Invoke(c) ==
    /\ step[c] = "idle"
    /\ step' = [step EXCEPT ![c] = "cpu"]
    /\ alone' = [d \in Caller |-> d = c /\ InFlight = {}]
    /\ disturbed' = (disturbed \/ InFlight # {})
    /\ UNCHANGED <<owner, locks, at, parts, round, last>>

(* The sleep is over: /proc/stat again, then /proc/meminfo. *)
WakeUp(c) ==
    /\ step[c] = "cpu"
    /\ step' = [step EXCEPT ![c] = "ask"]
    /\ UNCHANGED <<owner, locks, at, parts, round, history>>

(* Instant::now(), for disk and network the counters, and lock().await. *)
AskForLock(c) ==
    /\ step[c] = "ask"
    /\ locks' = [locks EXCEPT ![Here(c)] = JoinQueue(@, c)]
    /\ step' = [step EXCEPT ![c] = "wait"]
    /\ UNCHANGED <<owner, at, parts, round, history>>

(* Variant: one cell too many. *)
GoOnPast(c) ==
    IF at[c] <= Len(Cells)
    THEN at' = [at EXCEPT ![c] = @ + 1] /\ step' = [step EXCEPT ![c] = "ask"]
    ELSE at' = [at EXCEPT ![c] = 1] /\ step' = [step EXCEPT ![c] = "answer"]

(* On to the next cell, or past the last one. *)
GoOn(c) ==
    IF at[c] < Len(Cells)
    THEN at' = [at EXCEPT ![c] = @ + 1] /\ step' = [step EXCEPT ![c] = "ask"]
    ELSE at' = [at EXCEPT ![c] = 1] /\ step' = [step EXCEPT ![c] = "answer"]

(* Variant: the network snapshot is compared and not replaced. *)
UseCellNetKept(c) ==
    /\ step[c] = "wait"
    /\ Holds(locks[Here(c)], c)
    /\ parts' = [parts EXCEPT ![c][Here(c)] = owner[Here(c)]]
    /\ owner' = IF Here(c) = "net" THEN owner ELSE [owner EXCEPT ![Here(c)] = Call(c)]
    /\ locks' = [locks EXCEPT ![Here(c)] = DropGuard(@)]
    /\ GoOn(c)
    /\ UNCHANGED <<round, history>>

(* Variant: the guard of the process cell is leaked. *)
UseCellLeaking(c) ==
    /\ step[c] = "wait"
    /\ Holds(locks[Here(c)], c)
    /\ parts' = [parts EXCEPT ![c][Here(c)] = owner[Here(c)]]
    /\ owner' = [owner EXCEPT ![Here(c)] = Call(c)]
    /\ locks' = IF Here(c) = "procs" THEN locks ELSE [locks EXCEPT ![Here(c)] = DropGuard(@)]
    /\ GoOn(c)
    /\ UNCHANGED <<round, history>>

(* Variant: the guards live until the answer, as without the inner blocks. *)
UseCellHolding(c) ==
    /\ step[c] = "wait"
    /\ Holds(locks[Here(c)], c)
    /\ parts' = [parts EXCEPT ![c][Here(c)] = owner[Here(c)]]
    /\ owner' = [owner EXCEPT ![Here(c)] = Call(c)]
    /\ locks' = IF at[c] < Len(Cells) THEN locks ELSE [k \in Cell |-> DropGuard(locks[k])]
    /\ GoOn(c)
    /\ UNCHANGED <<round, history>>

(* The figures are computed, the snapshot is replaced, the guard dropped. *)
UseCell(c) ==
    /\ step[c] = "wait"
    /\ Holds(locks[Here(c)], c)
    /\ parts' = [parts EXCEPT ![c][Here(c)] = owner[Here(c)]]
    /\ owner' = [owner EXCEPT ![Here(c)] = Call(c)]
    /\ locks' = [locks EXCEPT ![Here(c)] = DropGuard(@)]
    /\ GoOn(c)
    /\ UNCHANGED <<round, history>>

(* GPU, battery and time stamp, and the answer goes to the window. *)
Answer(c) ==
    /\ step[c] = "answer"
    /\ step' = [step EXCEPT ![c] = "idle"]
    /\ parts' = [parts EXCEPT ![c] = NoParts]
    /\ round' = [round EXCEPT ![c] = 1 - @]
    /\ alone' = [alone EXCEPT ![c] = FALSE]
    /\ disturbed' = (disturbed /\ ~ alone[c])
    /\ last' = Call(c)
    /\ UNCHANGED <<owner, locks, at>>

Continue(c) == WakeUp(c) \/ AskForLock(c) \/ UseCell(c) \/ Answer(c)

Next == \E c \in Caller : Invoke(c) \/ Continue(c)

Spec == Init /\ [][Next]_vars

(* tokio polls every runnable task again, and the sleep ends. *)
FairSpec == Spec /\ \A c \in Caller : WF_vars(Continue(c))

-------------------------------------------------------------------------------
(* Properties. *)

Owner == {Boot} \cup (Caller \X {0, 1})

(* Type correctness: MetricsState and the frame of a call (state.rs:29-33). *)
TypeOK ==
    /\ owner \in [Cell -> Owner]
    /\ locks \in [Cell -> Seq(Caller)]
    /\ step \in [Caller -> {"idle", "cpu", "ask", "wait", "answer"}]
    /\ at \in [Caller -> DOMAIN Cells]
    /\ parts \in [Caller -> [Cell -> Owner]]
    /\ round \in [Caller -> {0, 1}]
    /\ alone \in [Caller -> BOOLEAN]
    /\ disturbed \in BOOLEAN
    /\ last \in Owner

(* No call waits for one cell while it holds or wants another (lib.rs:14-31:
   each guard ends with its block): a slow /proc scan holds up no rate, and
   calls cannot wait for each other in a circle. *)
OneCellAtATime ==
    \A c \in Caller, j, k \in Cell :
        Wants(locks[j], c) /\ Wants(locks[k], c) => j = k

(* Whoever waits, waits for a call that can go on (lib.rs:14-31): at the head of
   every queue stands a call that is waiting at this cell, so its next step is
   possible, and no call that has left a cell or waits elsewhere is in its way. *)
HeadCanMove ==
    \A k \in Cell : locks[k] # Unlocked =>
        \E c \in Caller : Holds(locks[k], c) /\ step[c] = "wait" /\ Here(c) = k

(* The figures of an answer fit together (lib.rs:14-31): unless calls have
   overlapped, disk, network and processes are all measured against the one
   call that answered last; after an overlap, one call that runs alone is
   enough to line the three cells up again. *)
AnswersFitTogether ==
    ~ disturbed =>
      /\ InFlight = {} => \A k \in Cell : owner[k] = last
      /\ \A c \in Caller : step[c] = "answer" => \A k \in Cell : parts[c][k] = last

(* Every call is answered (lib.rs:7-52), whatever the other calls do. *)
EveryCallAnswered == \A c \in Caller : step[c] = "cpu" ~> step[c] = "idle"
===============================================================================
