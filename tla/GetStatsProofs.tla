---------------------------- MODULE GetStatsProofs ----------------------------
(***************************************************************************)
(* Proofs about GetStats, for every set of calls.                          *)
(***************************************************************************)
EXTENDS GetStats, SharedLemmas

(* The queue of a cell holds, once each, the calls that wait at it. *)
QueuesMatch ==
    /\ \A k \in Cell : Distinct(locks[k])
    /\ \A c \in Caller, k \in Cell : Wants(locks[k], c) <=> step[c] = "wait" /\ k = Here(c)

(* How many cells a call has used. *)
Used(c) == IF step[c] = "answer" THEN Len(Cells) ELSE at[c] - 1

(* Outside the cells a call is at the first one, or will be in its next round. *)
AtFirst == \A c \in Caller : step[c] \in {"idle", "cpu", "answer"} => at[c] = 1

(* A call that is alone is the only one, and owns the cells it has used. *)
AloneOwns ==
    \A c \in Caller : alone[c] =>
        /\ step[c] # "idle"
        /\ \A d \in Caller : step[d] # "idle" => d = c
        /\ \A i \in 1 .. Len(Cells) : i <= Used(c) => owner[Cells[i]] = Call(c)

(* Undisturbed, a call is alone; what it has compared and what it is yet to
   compare with belongs to the call that answered last. *)
UndisturbedFits ==
    ~ disturbed =>
        /\ (\A c \in Caller : step[c] = "idle") => \A i \in 1 .. Len(Cells) : owner[Cells[i]] = last
        /\ \A c \in Caller : step[c] # "idle" =>
              /\ alone[c]
              /\ \A i \in 1 .. Len(Cells) :
                    /\ i <= Used(c) => parts[c][Cells[i]] = last
                    /\ i > Used(c) => owner[Cells[i]] = last

Fits == AtFirst /\ AloneOwns /\ UndisturbedFits

IInv == TypeOK /\ QueuesMatch /\ Fits

-------------------------------------------------------------------------------
LEMMA CellFacts ==
    /\ Len(Cells) = 3 /\ DOMAIN Cells = 1 .. 3
    /\ Cell = {"disk", "net", "procs"}
    /\ \A i \in 1 .. 3 : Cells[i] \in Cell
    /\ \A i, j \in 1 .. 3 : Cells[i] = Cells[j] => i = j
    /\ \A k \in Cell : \E i \in 1 .. 3 : k = Cells[i]
BY DEF Cells, Cell

LEMMA HereFacts ==
    ASSUME TypeOK, NEW c \in Caller
    PROVE  at[c] \in 1 .. 3 /\ Here(c) \in Cell
BY CellFacts DEF TypeOK, Here

-------------------------------------------------------------------------------
(* Type correctness. *)

LEMMA TypeInit == Init => TypeOK
<1> SUFFICES ASSUME Init PROVE TypeOK
  OBVIOUS
<1>1. Unlocked \in Seq(Caller) /\ 1 \in DOMAIN Cells
  BY UnlockedFacts, CellFacts
<1>2. /\ owner \in [Cell -> Owner] /\ locks \in [Cell -> Seq(Caller)]
      /\ parts \in [Caller -> [Cell -> Owner]] /\ last \in Owner
  BY <1>1 DEF Init, Owner, NoParts
<1>3. /\ step \in [Caller -> {"idle", "cpu", "ask", "wait", "answer"}]
      /\ at \in [Caller -> DOMAIN Cells] /\ round \in [Caller -> {0, 1}]
  BY <1>1 DEF Init
<1>4. alone \in [Caller -> BOOLEAN] /\ disturbed \in BOOLEAN
  BY DEF Init
<1> QED
  BY <1>2, <1>3, <1>4 DEF TypeOK

LEMMA TypeStep ==
    ASSUME TypeOK, [Next]_vars
    PROVE  TypeOK'
<1>1. ASSUME NEW c \in Caller, Invoke(c) PROVE TypeOK'
  <2>1. alone' \in [Caller -> BOOLEAN]
    BY <1>1 DEF Invoke
  <2>2. disturbed' \in BOOLEAN
    BY <1>1 DEF Invoke, TypeOK
  <2> QED
    BY <1>1, <2>1, <2>2 DEF Invoke, TypeOK
<1>2. ASSUME NEW c \in Caller, WakeUp(c) PROVE TypeOK'
  BY <1>2 DEF WakeUp, TypeOK, history
<1>3. ASSUME NEW c \in Caller, AskForLock(c) PROVE TypeOK'
  <2>1. locks[Here(c)] \in Seq(Caller) /\ Here(c) \in Cell
    BY HereFacts DEF TypeOK
  <2>2. JoinQueue(locks[Here(c)], c) \in Seq(Caller)
    BY <2>1, JoinQueueFacts
  <2> QED
    BY <1>3, <2>1, <2>2 DEF AskForLock, TypeOK, history
<1>4. ASSUME NEW c \in Caller, UseCell(c) PROVE TypeOK'
  <2>1. locks[Here(c)] \in Seq(Caller) /\ Here(c) \in Cell /\ at[c] \in 1 .. 3
    BY HereFacts DEF TypeOK
  <2>2. DropGuard(locks[Here(c)]) \in Seq(Caller)
    BY <1>4, <2>1, DropGuardFacts DEF UseCell
  <2>3. locks' \in [Cell -> Seq(Caller)]
    BY <1>4, <2>2 DEF UseCell, TypeOK
  <2>4. owner' \in [Cell -> Owner]
    BY <1>4 DEF UseCell, TypeOK, Owner, Call
  <2>5. parts' \in [Caller -> [Cell -> Owner]]
    BY <1>4, <2>1 DEF UseCell, TypeOK
  <2>6. /\ at' \in [Caller -> DOMAIN Cells]
        /\ step' \in [Caller -> {"idle", "cpu", "ask", "wait", "answer"}]
    <3>1. /\ at \in [Caller -> 1 .. 3] /\ Len(Cells) = 3 /\ DOMAIN Cells = 1 .. 3
          /\ step \in [Caller -> {"idle", "cpu", "ask", "wait", "answer"}]
      BY CellFacts DEF TypeOK
    <3>2. IF at[c] < Len(Cells)
          THEN at' = [at EXCEPT ![c] = @ + 1] /\ step' = [step EXCEPT ![c] = "ask"]
          ELSE at' = [at EXCEPT ![c] = 1] /\ step' = [step EXCEPT ![c] = "answer"]
      BY <1>4 DEF UseCell, GoOn
    <3>3. CASE at[c] < 3
      <4>1. at' = [at EXCEPT ![c] = @ + 1] /\ step' = [step EXCEPT ![c] = "ask"]
        BY <3>1, <3>2, <3>3
      <4> QED
        BY <2>1, <3>1, <3>3, <4>1
    <3>4. CASE ~ (at[c] < 3)
      <4>1. at' = [at EXCEPT ![c] = 1] /\ step' = [step EXCEPT ![c] = "answer"]
        BY <3>1, <3>2, <3>4
      <4> QED
        BY <2>1, <3>1, <4>1
    <3> QED
      BY <3>3, <3>4
  <2>7. UNCHANGED <<round, alone, disturbed, last>>
    BY <1>4 DEF UseCell, history
  <2>8. /\ round' \in [Caller -> {0, 1}] /\ alone' \in [Caller -> BOOLEAN]
        /\ disturbed' \in BOOLEAN /\ last' \in Owner
    BY <2>7, Zenon DEF TypeOK
  <2> QED
    BY <2>3, <2>4, <2>5, <2>6, <2>8, Zenon DEF TypeOK
<1>5. ASSUME NEW c \in Caller, Answer(c) PROVE TypeOK'
  <2>1. disturbed' \in BOOLEAN
    BY <1>5 DEF Answer, TypeOK
  <2>2. round' \in [Caller -> {0, 1}]
    <3>1. round \in [Caller -> {0, 1}]
      BY Zenon DEF TypeOK
    <3>2. 1 - round[c] \in {0, 1}
      BY <3>1
    <3>3. round' = [round EXCEPT ![c] = 1 - round[c]]
      BY <1>5, Zenon DEF Answer
    <3> QED
      BY <3>1, <3>2, <3>3
  <2>3. NoParts \in [Cell -> Owner] /\ Call(c) \in Owner
    <3>1. Boot \in Owner
      BY DEF Owner
    <3>2. NoParts \in [Cell -> Owner]
      BY <3>1 DEF NoParts
    <3>3. round[c] \in {0, 1}
      BY DEF TypeOK
    <3>4. Call(c) \in Owner
      BY <3>3 DEF Owner, Call
    <3> QED
      BY <3>2, <3>4
  <2>4. parts' \in [Caller -> [Cell -> Owner]]
    BY <1>5, <2>3 DEF Answer, TypeOK
  <2>5. step' \in [Caller -> {"idle", "cpu", "ask", "wait", "answer"}]
        /\ alone' \in [Caller -> BOOLEAN]
    BY <1>5 DEF Answer, TypeOK
  <2>6. last' \in Owner
    BY <1>5, <2>3 DEF Answer
  <2>7. UNCHANGED <<owner, locks, at>>
    BY <1>5 DEF Answer
  <2>8. owner' \in [Cell -> Owner] /\ locks' \in [Cell -> Seq(Caller)] /\ at' \in [Caller -> DOMAIN Cells]
    BY <2>7 DEF TypeOK
  <2> QED
    BY <2>1, <2>2, <2>4, <2>5, <2>6, <2>8, Zenon DEF TypeOK
<1>6. CASE UNCHANGED vars
  BY <1>6 DEF TypeOK, vars, program, history
<1> QED
  BY <1>1, <1>2, <1>3, <1>4, <1>5, <1>6 DEF Next, Continue

-------------------------------------------------------------------------------
(* The queues. *)

LEMMA QueuesInit == Init => QueuesMatch
BY UnlockedFacts DEF Init, QueuesMatch

LEMMA QueuesStep ==
    ASSUME TypeOK, QueuesMatch, [Next]_vars
    PROVE  QueuesMatch'
<1>1. ASSUME NEW c \in Caller, Invoke(c) \/ WakeUp(c) \/ Answer(c) PROVE QueuesMatch'
  <2>1. /\ step[c] # "wait" /\ step'[c] # "wait"
        /\ \A d \in Caller \ {c} : step'[d] = step[d]
        /\ locks' = locks /\ at' = at
    BY <1>1 DEF Invoke, WakeUp, Answer, TypeOK
  <2> QED
    BY <2>1 DEF QueuesMatch, Here
<1>2. ASSUME NEW c \in Caller, AskForLock(c) PROVE QueuesMatch'
  <2> DEFINE k == Here(c)
             q == locks[k]
             r == JoinQueue(q, c)
  <2>1. /\ k \in Cell /\ q \in Seq(Caller) /\ step[c] = "ask" /\ step'[c] = "wait"
        /\ \A d \in Caller \ {c} : step'[d] = step[d]
        /\ locks'[k] = r /\ \A j \in Cell \ {k} : locks'[j] = locks[j]
        /\ at' = at
    BY <1>2, HereFacts DEF AskForLock, TypeOK
  <2>2. ~ Wants(q, c) /\ Distinct(q)
    BY <2>1 DEF QueuesMatch
  <2>3. Distinct(r) /\ \A d : Wants(r, d) <=> Wants(q, d) \/ d = c
    BY <2>1, <2>2, JoinedWants
  <2>4. \A d \in Caller : Here(d)' = Here(d)
    BY <2>1 DEF Here
  <2> HIDE DEF r
  <2> QED
    BY <2>1, <2>3, <2>4 DEF QueuesMatch
<1>3. ASSUME NEW c \in Caller, UseCell(c) PROVE QueuesMatch'
  <2> DEFINE k == Here(c)
             q == locks[k]
             r == DropGuard(q)
  <2>1. /\ k \in Cell /\ q \in Seq(Caller) /\ Holds(q, c)
        /\ step[c] = "wait" /\ step'[c] # "wait"
        /\ \A d \in Caller \ {c} : step'[d] = step[d] /\ at'[d] = at[d]
        /\ locks'[k] = r /\ \A j \in Cell \ {k} : locks'[j] = locks[j]
    BY <1>3, HereFacts DEF UseCell, GoOn, TypeOK
  <2>2. Distinct(q)
    BY <2>1 DEF QueuesMatch
  <2>3. Distinct(r) /\ \A d : Wants(r, d) <=> Wants(q, d) /\ d # c
    BY <2>1, <2>2, DroppedWants
  <2>4. \A d \in Caller \ {c} : Here(d)' = Here(d)
    BY <2>1 DEF Here
  <2> HIDE DEF r
  <2> QED
    BY <2>1, <2>3, <2>4 DEF QueuesMatch
<1>4. CASE UNCHANGED vars
  BY <1>4 DEF QueuesMatch, Here, vars, program
<1> QED
  BY <1>1, <1>2, <1>3, <1>4 DEF Next, Continue

-------------------------------------------------------------------------------
(* Whose the snapshots are. *)

LEMMA FitsInit == Init => Fits
BY CellFacts DEF Init, Fits, AtFirst, AloneOwns, UndisturbedFits

LEMMA FitsInvoke ==
    ASSUME TypeOK, Fits, NEW c \in Caller, Invoke(c)
    PROVE  Fits'
<1>1. /\ step[c] = "idle" /\ step'[c] = "cpu"
      /\ \A d \in Caller \ {c} : step'[d] = step[d]
      /\ UNCHANGED <<owner, at, parts, round, last>>
  BY DEF Invoke, TypeOK
<1>2. /\ \A d \in Caller : alone'[d] = (d = c /\ InFlight = {})
      /\ disturbed' = (disturbed \/ InFlight # {})
  BY DEF Invoke
<1>3. at[c] = 1 /\ Used(c)' = 0
  BY <1>1 DEF Fits, AtFirst, Used
<1>4. AtFirst'
  BY <1>1 DEF Fits, AtFirst
<1>5. AloneOwns'
  <2> SUFFICES ASSUME NEW d \in Caller, alone'[d]
               PROVE  /\ step'[d] # "idle"
                      /\ \A e \in Caller : step'[e] # "idle" => e = d
                      /\ \A i \in 1 .. Len(Cells) : i <= Used(d)' => owner'[Cells[i]] = Call(d)'
    BY DEF AloneOwns
  <2>1. d = c /\ \A e \in Caller : step[e] = "idle"
    BY <1>2 DEF InFlight
  <2> QED
    BY <1>1, <1>3, <2>1, CellFacts
<1>6. UndisturbedFits'
  <2> SUFFICES ASSUME ~ disturbed' PROVE UndisturbedFits'
    BY DEF UndisturbedFits
  <2>1. ~ disturbed /\ InFlight = {}
    BY <1>2
  <2>2. \A d \in Caller : step[d] = "idle"
    BY <2>1 DEF InFlight
  <2>3. \A i \in 1 .. Len(Cells) : owner[Cells[i]] = last
    BY <2>1, <2>2 DEF Fits, UndisturbedFits
  <2>4. alone'[c]
    BY <1>2, <2>1
  <2> QED
    BY <1>1, <1>3, <2>2, <2>3, <2>4, CellFacts DEF UndisturbedFits
<1> QED
  BY <1>4, <1>5, <1>6 DEF Fits

LEMMA FitsAnswer ==
    ASSUME TypeOK, Fits, NEW c \in Caller, Answer(c)
    PROVE  Fits'
<1>1. /\ step[c] = "answer" /\ step'[c] = "idle"
      /\ \A d \in Caller \ {c} : step'[d] = step[d] /\ round'[d] = round[d]
      /\ last' = Call(c)
      /\ UNCHANGED <<owner, at>>
  BY DEF Answer, TypeOK
<1>2. /\ ~ alone'[c] /\ \A d \in Caller \ {c} : alone'[d] = alone[d]
      /\ disturbed' = (disturbed /\ ~ alone[c])
  BY DEF Answer, TypeOK
<1>3. AtFirst'
  BY <1>1 DEF Fits, AtFirst
<1>4. \A d \in Caller \ {c} : ~ alone[d]
  BY <1>1 DEF Fits, AloneOwns
<1>5. AloneOwns'
  BY <1>2, <1>4 DEF AloneOwns
<1>6. UndisturbedFits'
  <2> SUFFICES ASSUME ~ disturbed' PROVE UndisturbedFits'
    BY DEF UndisturbedFits
  <2>1. alone[c]
    <3>1. CASE ~ disturbed
      BY <1>1, <3>1 DEF Fits, UndisturbedFits
    <3>2. CASE disturbed
      BY <1>2, <3>2
    <3> QED
      BY <3>1, <3>2
  <2>2. \A d \in Caller : step'[d] = "idle"
    BY <1>1, <2>1 DEF Fits, AloneOwns
  <2>3. \A i \in 1 .. Len(Cells) : owner[Cells[i]] = Call(c)
    BY <1>1, <2>1, CellFacts DEF Fits, AloneOwns, Used
  <2> QED
    BY <1>1, <2>2, <2>3, CellFacts DEF UndisturbedFits
<1> QED
  BY <1>3, <1>5, <1>6 DEF Fits

LEMMA FitsUseCell ==
    ASSUME TypeOK, Fits, NEW c \in Caller, UseCell(c)
    PROVE  Fits'
<1> DEFINE k == Here(c)
<1>1. /\ step[c] = "wait" /\ step'[c] # "idle" /\ k \in Cell /\ at[c] \in 1 .. 3
      /\ k = Cells[at[c]]
      /\ \A d \in Caller \ {c} : step'[d] = step[d] /\ at'[d] = at[d] /\ parts'[d] = parts[d]
      /\ UNCHANGED <<round, alone, disturbed, last>>
  BY HereFacts DEF UseCell, GoOn, TypeOK, history, Here
<1>2. /\ Used(c) = at[c] - 1 /\ Used(c)' = at[c]
      /\ step'[c] \in {"ask", "answer"} /\ (step'[c] = "answer" => at'[c] = 1)
  BY <1>1, CellFacts DEF UseCell, GoOn, Used, TypeOK
<1>3. /\ owner'[k] = Call(c) /\ \A j \in Cell \ {k} : owner'[j] = owner[j]
      /\ parts'[c][k] = owner[k] /\ \A j \in Cell \ {k} : parts'[c][j] = parts[c][j]
  BY <1>1 DEF UseCell, TypeOK
<1>4. AtFirst'
  BY <1>1, <1>2 DEF Fits, AtFirst
<1>5. Call(c)' = Call(c)
  BY <1>1 DEF Call
<1>6. ASSUME NEW i \in 1 .. 3, i # at[c]
      PROVE  owner'[Cells[i]] = owner[Cells[i]] /\ parts'[c][Cells[i]] = parts[c][Cells[i]]
  BY <1>1, <1>3, <1>6, CellFacts
<1>7. ASSUME NEW d \in Caller, alone[d] PROVE d = c
  BY <1>1, <1>7 DEF Fits, AloneOwns
<1>8. AloneOwns'
  <2> SUFFICES ASSUME alone[c] PROVE AloneOwns'
    BY <1>1, <1>7 DEF AloneOwns
  <2>1. ASSUME NEW i \in 1 .. 3, i <= at[c] PROVE owner'[Cells[i]] = Call(c)
    <3>1. CASE i = at[c]
      BY <1>1, <1>3, <3>1
    <3>2. CASE i # at[c]
      <4>1. i <= Used(c)
        BY <1>1, <1>2, <2>1, <3>2
      <4> QED
        BY <1>6, <3>2, <4>1, CellFacts DEF Fits, AloneOwns
    <3> QED
      BY <3>1, <3>2
  <2>2. \A d \in Caller : step'[d] # "idle" => d = c
    BY <1>1 DEF Fits, AloneOwns
  <2> QED
    BY <1>1, <1>2, <1>5, <1>7, <2>1, <2>2, CellFacts DEF AloneOwns
<1>9. UndisturbedFits'
  <2> SUFFICES ASSUME ~ disturbed PROVE UndisturbedFits'
    BY <1>1 DEF UndisturbedFits
  <2>1. alone[c] /\ \A d \in Caller : step'[d] # "idle" => d = c
    BY <1>1 DEF Fits, UndisturbedFits, AloneOwns
  <2>2. ASSUME NEW i \in 1 .. 3
        PROVE  /\ i <= Used(c) => parts[c][Cells[i]] = last
               /\ i > Used(c) => owner[Cells[i]] = last
    BY <1>1, CellFacts DEF Fits, UndisturbedFits
  <2>3. owner[k] = last
    BY <1>1, <1>2, <2>2
  <2>4. ASSUME NEW i \in 1 .. 3
        PROVE  /\ i <= at[c] => parts'[c][Cells[i]] = last
               /\ i > at[c] => owner'[Cells[i]] = last
    <3>1. CASE i = at[c]
      BY <1>1, <1>3, <2>3, <3>1
    <3>2. CASE i # at[c]
      BY <1>1, <1>2, <1>6, <2>2, <3>2
    <3> QED
      BY <3>1, <3>2
  <2> QED
    BY <1>1, <1>2, <2>1, <2>4, CellFacts DEF UndisturbedFits
<1> QED
  BY <1>4, <1>8, <1>9 DEF Fits

LEMMA FitsStep ==
    ASSUME TypeOK, Fits, [Next]_vars
    PROVE  Fits'
<1>1. ASSUME NEW c \in Caller, WakeUp(c) \/ AskForLock(c) PROVE Fits'
  <2>1. /\ step[c] \in {"cpu", "ask"} /\ step'[c] \in {"ask", "wait"}
        /\ \A d \in Caller \ {c} : step'[d] = step[d]
        /\ UNCHANGED <<owner, at, parts, round, alone, disturbed, last>>
    BY <1>1 DEF WakeUp, AskForLock, TypeOK, history
  <2>2. \A d \in Caller : Used(d)' = Used(d) /\ (step'[d] = "idle" <=> step[d] = "idle")
    BY <2>1 DEF Used
  <2>3. AtFirst'
    BY <2>1 DEF Fits, AtFirst
  <2>4. AloneOwns'
    BY <2>1, <2>2 DEF Fits, AloneOwns, Call
  <2>5. UndisturbedFits'
    BY <2>1, <2>2 DEF Fits, UndisturbedFits
  <2> QED
    BY <2>3, <2>4, <2>5 DEF Fits
<1>2. CASE UNCHANGED vars
  <2>1. UNCHANGED <<owner, step, at, parts, round, alone, disturbed, last>>
    BY <1>2 DEF vars, program, history
  <2>2. AtFirst'
    BY <2>1 DEF Fits, AtFirst
  <2>3. AloneOwns'
    BY <2>1 DEF Fits, AloneOwns, Call, Used
  <2>4. UndisturbedFits'
    BY <2>1 DEF Fits, UndisturbedFits, Used
  <2> QED
    BY <2>2, <2>3, <2>4 DEF Fits
<1> QED
  BY <1>1, <1>2, FitsInvoke, FitsAnswer, FitsUseCell DEF Next, Continue

-------------------------------------------------------------------------------
(* IInv is inductive. *)
THEOREM Inductive == Spec => []IInv
<1>1. Init => IInv
  BY TypeInit, QueuesInit, FitsInit DEF IInv
<1>2. IInv /\ [Next]_vars => IInv'
  BY TypeStep, QueuesStep, FitsStep DEF IInv
<1> QED
  BY <1>1, <1>2, PTL DEF Spec

(* TypeOK: MetricsState and the frames of the calls keep their types. *)
THEOREM TypeCorrect == Spec => []TypeOK
<1>1. IInv => TypeOK
  BY DEF IInv
<1> QED
  BY <1>1, Inductive, PTL

(* OneCellAtATime: no call of get_stats holds or wants two locks, so there is
   neither hold-and-wait nor a circle of waiting calls (lib.rs:14-31). *)
THEOREM OneCell == Spec => []OneCellAtATime
<1>1. IInv => OneCellAtATime
  BY DEF IInv, QueuesMatch, OneCellAtATime
<1> QED
  BY <1>1, Inductive, PTL

(* HeadCanMove: the first in a queue is at its cell and can use it, for any
   number of calls, so a call waits only for those ahead of it in one queue. *)
THEOREM HeadMoves == Spec => []HeadCanMove
<1>1. ASSUME IInv, NEW k \in Cell, locks[k] # Unlocked
      PROVE  \E c \in Caller : Holds(locks[k], c) /\ step[c] = "wait" /\ Here(c) = k
  <2>1. locks[k] \in Seq(Caller) /\ locks[k] # <<>>
    BY <1>1 DEF IInv, TypeOK, Unlocked
  <2>2. 1 \in DOMAIN locks[k] /\ locks[k][1] \in Caller /\ Head(locks[k]) = locks[k][1]
    BY <2>1
  <2>3. Holds(locks[k], locks[k][1]) /\ Wants(locks[k], locks[k][1])
    BY <2>1, <2>2 DEF Holds, Wants
  <2> QED
    BY <1>1, <2>2, <2>3 DEF IInv, QueuesMatch
<1>2. IInv => HeadCanMove
  BY <1>1 DEF HeadCanMove
<1> QED
  BY <1>2, Inductive, PTL

(* AnswersFitTogether: without overlaps, and again after one call that runs
   alone, all figures of an answer are measured against the same call. *)
THEOREM AnswersFit == Spec => []AnswersFitTogether
<1>1. ASSUME IInv PROVE AnswersFitTogether
  <2> SUFFICES ASSUME ~ disturbed PROVE AnswersFitTogether
    BY DEF AnswersFitTogether
  <2>1. InFlight = {} => \A k \in Cell : owner[k] = last
    BY <1>1, CellFacts DEF IInv, Fits, UndisturbedFits, InFlight
  <2>2. ASSUME NEW c \in Caller, step[c] = "answer", NEW k \in Cell
        PROVE  parts[c][k] = last
    BY <1>1, <2>2, CellFacts DEF IInv, Fits, UndisturbedFits, Used
  <2> QED
    BY <2>1, <2>2 DEF AnswersFitTogether
<1> QED
  BY <1>1, Inductive, PTL
===============================================================================
