------------------------------- MODULE PagesProofs -------------------------------
(***************************************************************************)
(* Proofs about the two pages: Dashboard, for every length of the rings,   *)
(* every figure and every number of updates in flight, and GpuPage, for    *)
(* every number of cards, clicks and updates.                              *)
(***************************************************************************)
EXTENDS Dashboard, GpuPage, SharedLemmas

-------------------------------------------------------------------------------
(* The dashboard. *)

(* The last slot of the GPU ring is the GPU figure, which the next answer
   without a GPU repeats. *)
GpuIsLast == gpu = gpuRing[HISTORY]

Rings == RingsFollowAnswers /\ GpuIsLast

IInv == TypeOK /\ Rings /\ VisibleTabIsFresh

-------------------------------------------------------------------------------
(* PushRing moves a full ring on by one slot. *)
LEMMA PushRingFacts ==
    ASSUME NEW ring \in Ring, NEW val \in Figure
    PROVE  /\ PushRing(ring, val) \in Ring
           /\ PushRing(ring, val)[HISTORY] = val
           /\ \A i \in 1 .. HISTORY - 1 : PushRing(ring, val)[i] = ring[i + 1]
<1> DEFINE long == Append(ring, val)
<1>1. HISTORY \in Nat /\ HISTORY > 0
  BY DashboardAssumption
<1>2. ring \in Seq(Figure) /\ Len(ring) = HISTORY
  BY <1>1, SeqDef, LenProperties DEF Ring
<1>3. /\ long \in Seq(Figure) /\ Len(long) = HISTORY + 1 /\ long # <<>>
      /\ \A i \in 1 .. HISTORY : long[i] = ring[i]
      /\ long[HISTORY + 1] = val
  BY <1>1, <1>2, AppendProperties
<1> HIDE DEF long
<1>4. /\ Tail(long) \in Seq(Figure) /\ Len(Tail(long)) = HISTORY
      /\ \A i \in 1 .. HISTORY : Tail(long)[i] = long[i + 1]
  BY <1>1, <1>3, HeadTailProperties
<1>5. PushRing(ring, val) = Tail(long)
  BY <1>1, <1>2 DEF PushRing, long
<1>6. Tail(long) \in Ring
  BY <1>4, LenProperties DEF Ring
<1> QED
  BY <1>1, <1>3, <1>4, <1>5, <1>6

(* The history of answers: the new one at its end, the oldest gone if it was
   full. *)
Remember(data) ==
    IF Len(received) < HISTORY THEN Append(received, data) ELSE Tail(Append(received, data))

LEMMA RememberFacts ==
    ASSUME TypeOK, NEW data \in AnyAnswer
    PROVE  LET r == Remember(data) IN
           /\ r \in Seq(AnyAnswer) /\ Len(r) \in 1 .. HISTORY
           /\ Len(received) \in 0 .. HISTORY
           /\ Len(r) = IF Len(received) < HISTORY THEN Len(received) + 1 ELSE HISTORY
           /\ r[Len(r)] = data
           /\ \A k \in 1 .. Len(r) - 1 : r[k] = received[k + Len(received) + 1 - Len(r)]
<1> DEFINE long == Append(received, data)
           n == Len(received)
<1>1. HISTORY \in Nat /\ HISTORY > 0
  BY DashboardAssumption
<1>2. received \in Seq(AnyAnswer) /\ n \in Nat /\ n <= HISTORY
  BY LenProperties DEF TypeOK
<1>3. /\ long \in Seq(AnyAnswer) /\ Len(long) = n + 1 /\ long # <<>>
      /\ \A i \in 1 .. n : long[i] = received[i]
      /\ long[n + 1] = data
  BY <1>2, AppendProperties
<1> HIDE DEF long
<1>4. /\ Tail(long) \in Seq(AnyAnswer) /\ Len(Tail(long)) = n
      /\ \A i \in 1 .. n : Tail(long)[i] = long[i + 1]
  BY <1>2, <1>3, HeadTailProperties
<1>5. Remember(data) = IF n < HISTORY THEN long ELSE Tail(long)
  BY DEF Remember, long
<1> HIDE DEF n
<1>6. CASE n < HISTORY
  BY <1>1, <1>2, <1>3, <1>5, <1>6 DEF n
<1>7. CASE ~ (n < HISTORY)
  <2>1. n = HISTORY
    BY <1>1, <1>2, <1>7
  <2>2. Remember(data) = Tail(long) /\ Len(Tail(long)) = HISTORY
    BY <1>4, <1>5, <1>7, <2>1
  <2>3. Tail(long)[HISTORY] = data
    BY <1>1, <1>3, <1>4, <2>1
  <2>4. ASSUME NEW k \in 1 .. HISTORY - 1
        PROVE  Tail(long)[k] = received[k + n + 1 - HISTORY]
    <3>1. /\ k \in 1 .. n /\ k + 1 \in 1 .. n
          /\ k + n + 1 - HISTORY = k + 1
      BY <1>1, <2>1
    <3> QED
      BY <1>3, <1>4, <3>1
  <2> DEFINE r == Tail(long)
  <2>5. /\ r \in Seq(AnyAnswer) /\ Len(r) = HISTORY /\ r[HISTORY] = data
        /\ \A k \in 1 .. HISTORY - 1 : r[k] = received[k + n + 1 - HISTORY]
    BY <1>4, <2>2, <2>3, <2>4
  <2> HIDE DEF r
  <2>6. /\ r \in Seq(AnyAnswer) /\ Len(r) \in 1 .. HISTORY
        /\ n \in 0 .. HISTORY
        /\ Len(r) = IF n < HISTORY THEN n + 1 ELSE HISTORY
        /\ r[Len(r)] = data
    BY <1>1, <2>1, <2>5
  <2>7. \A k \in 1 .. Len(r) - 1 : r[k] = received[k + n + 1 - Len(r)]
    BY <2>5
  <2>8. Remember(data) = r
    BY <2>2 DEF r
  <2> QED
    BY <2>6, <2>7, <2>8 DEF n
<1> QED
  BY <1>6, <1>7

-------------------------------------------------------------------------------
(* Type correctness. *)

LEMMA PerfDetailType ==
    ASSUME NEW metric \in Metrics, NEW c \in Figure, NEW cs \in Ring,
           NEW g \in Figure, NEW gs \in Ring, NEW data \in AnyAnswer
    PROVE  PerfDetail(metric, c, cs, g, gs, data)
              \in [ring : Ring, figure : Figure, dash : BOOLEAN]
<1>1. (g = 0 /\ ~ data.live) \in BOOLEAN
  OBVIOUS
<1>2. CASE metric = "cpu"
  BY <1>2 DEF PerfDetail
<1>3. CASE metric # "cpu"
  <2> DEFINE d == g = 0 /\ ~ data.live
  <2>1. PerfDetail(metric, c, cs, g, gs, data) = [ring |-> gs, figure |-> g, dash |-> d]
    BY <1>3 DEF PerfDetail
  <2>2. d \in BOOLEAN
    BY <1>1
  <2> HIDE DEF d
  <2> QED
    BY <2>1, <2>2
<1> QED
  BY <1>2, <1>3

LEMMA TypeInit == Init => TypeOK
<1> SUFFICES ASSUME Init PROVE TypeOK
  OBVIOUS
<1>1. received \in Seq(AnyAnswer) /\ Len(received) = 0 /\ liveData \in AnyAnswer
  BY EmptySeq DEF Init, AnyAnswer
<1>2. cpuRing \in Ring /\ gpuRing \in Ring /\ cpu \in Figure /\ gpu \in Figure
  BY DashboardAssumption DEF Init, Ring, Figure, MakeRing
<1>3. processes \in Row
  BY DashboardAssumption DEF Init, Row, NoRows, Figure
<1>4. probing \in BOOLEAN
  BY DEF Init
<1>5. inFlight \in 0 .. MaxInFlight /\ frames \in 0 .. MaxFrames /\ Len(received) <= HISTORY
  BY <1>1, DashboardAssumption DEF Init
<1>6. /\ activeTab \in Tabs /\ activePerfMetric \in Metrics /\ query \in Queries
      /\ detail = Old /\ table = Old /\ drawn \subseteq Sparklines
  BY DEF Init, Tabs, Metrics, Queries
<1>7. opened \in BOOLEAN
  BY DEF Init
<1> QED
  BY <1>1, <1>2, <1>3, <1>4, <1>5, <1>6, <1>7 DEF TypeOK

(* What an answer makes of the figures and the history. *)
LEMMA FiguresType ==
    ASSUME TypeOK, NEW data \in AnyAnswer, UpdateContinues(data)
    PROVE  /\ cpu' \in Figure /\ gpu' \in Figure /\ cpuRing' \in Ring /\ gpuRing' \in Ring
           /\ processes' \in Row /\ liveData' \in AnyAnswer
           /\ received' \in Seq(AnyAnswer) /\ Len(received') <= HISTORY
<1>1. data.live => data \in Payload /\ data.level \in Figure
  <2>1. CASE data = NoData
    BY <2>1 DEF NoData
  <2>2. CASE data \in Payload
    <3>1. data.level \in Level
      BY <2>2 DEF Payload
    <3>2. data.level \in Figure
      BY <3>1, DashboardAssumption DEF Level, Figure
    <3> QED
      BY <2>2, <3>2
  <2> QED
    BY <2>1, <2>2 DEF AnyAnswer
<1>2. cpu' \in Figure /\ gpu' \in Figure
  <2>1. 0 \in Figure /\ gpu \in Figure
    BY DashboardAssumption DEF TypeOK, Figure
  <2>2. cpu' = (IF data.live THEN data.level ELSE 0)
    BY DEF UpdateContinues
  <2>3. gpu' = (IF data.live /\ data.hasGpu THEN data.level ELSE gpu)
    BY DEF UpdateContinues
  <2> QED
    BY <1>1, <2>1, <2>2, <2>3
<1>3. cpuRing' \in Ring /\ gpuRing' \in Ring
  <2>1. cpuRing' = PushRing(cpuRing, cpu') /\ gpuRing' = PushRing(gpuRing, gpu')
    BY DEF UpdateContinues
  <2>2. cpuRing \in Ring /\ gpuRing \in Ring
    BY DEF TypeOK
  <2> QED
    BY <1>2, <2>1, <2>2, PushRingFacts
<1>4. processes' \in Row
  <2>1. CASE data.live /\ processes' = Real(data.level)
    BY <1>1, <2>1 DEF Real, Row
  <2>2. ASSUME NEW v \in Level, processes' = Simulated(v) PROVE processes' \in Row
    BY <2>2, DashboardAssumption DEF Simulated, Row, Level, Figure
  <2> QED
    BY <2>1, <2>2 DEF UpdateContinues
<1>5. received' = Remember(data)
  BY DEF UpdateContinues, Remember
<1>6. received' \in Seq(AnyAnswer) /\ Len(received') <= HISTORY
  BY <1>5, RememberFacts, DashboardAssumption
<1>7. liveData' = data
  BY DEF UpdateContinues
<1> QED
  BY <1>2, <1>3, <1>4, <1>6, <1>7

(* What an answer makes of the screen. *)
LEMMA ScreenType ==
    ASSUME TypeOK, NEW data \in AnyAnswer, UpdateContinues(data)
    PROVE  /\ detail' \in {Old} \cup [ring : Ring, figure : Figure, dash : BOOLEAN]
           /\ table' \in {Old} \cup [rows : Row, query : Queries]
<1> DEFINE view == PerfDetail(activePerfMetric, cpu', cpuRing', gpu', gpuRing', data)
<1>1. cpu' \in Figure /\ gpu' \in Figure /\ cpuRing' \in Ring /\ gpuRing' \in Ring
      /\ processes' \in Row /\ activePerfMetric \in Metrics
  BY FiguresType DEF TypeOK
<1>2. view \in [ring : Ring, figure : Figure, dash : BOOLEAN]
  BY <1>1, PerfDetailType
<1>3. detail' = view \/ detail' = detail
  BY DEF UpdateContinues
<1>4. table' = ProcessRows(processes', query) \/ table' = table
  BY DEF UpdateContinues
<1>5. ProcessRows(processes', query) \in [rows : Row, query : Queries]
  BY <1>1 DEF ProcessRows, TypeOK
<1> HIDE DEF view
<1>6. detail' \in {Old} \cup [ring : Ring, figure : Figure, dash : BOOLEAN]
  BY <1>2, <1>3 DEF TypeOK
<1>7. table' \in {Old} \cup [rows : Row, query : Queries]
  BY <1>4, <1>5 DEF TypeOK
<1> QED
  BY <1>6, <1>7

LEMMA TypeStep ==
    ASSUME TypeOK, [Next]_vars
    PROVE  TypeOK'
<1>1. CASE TimerFires \/ StaticInfoArrives
  <2>1. inFlight' \in 0 .. MaxInFlight
    BY <1>1, DashboardAssumption DEF TimerFires, StaticInfoArrives, TypeOK
  <2>2. probing' = probing \/ probing' = FALSE
    BY <1>1 DEF TimerFires, StaticInfoArrives
  <2>3. probing' \in BOOLEAN
    BY <2>2 DEF TypeOK
  <2>4. UNCHANGED <<figures, controls, screen, received, opened>>
    BY <1>1 DEF TimerFires, StaticInfoArrives, history
  <2>5. opened' \in BOOLEAN
    BY <2>4 DEF TypeOK
  <2> QED
    BY <2>1, <2>3, <2>4, <2>5 DEF TypeOK, figures, controls, screen
<1>2. ASSUME NEW data \in AnyAnswer, UpdateContinues(data) PROVE TypeOK'
  <2>1. inFlight' \in 0 .. MaxInFlight
    BY <1>2, DashboardAssumption DEF UpdateContinues, TypeOK
  <2>2. probing' = probing /\ UNCHANGED <<controls, frames>>
    BY <1>2 DEF UpdateContinues
  <2>3. probing' \in BOOLEAN
    BY <2>2 DEF TypeOK
  <2>4. activeTab' \in Tabs /\ activePerfMetric' \in Metrics /\ query' \in Queries /\ frames' \in 0 .. MaxFrames
    BY <2>2 DEF TypeOK, controls
  <2>5. drawn' \subseteq Sparklines /\ opened' = FALSE
    BY <1>2 DEF UpdateContinues, DrawSparklines
  <2>6. opened' \in BOOLEAN
    BY <2>5
  <2> QED
    BY <1>2, <2>1, <2>3, <2>4, <2>5, <2>6, FiguresType, ScreenType DEF TypeOK
<1>3. ASSUME NEW tab \in Tabs, ClickTab(tab) PROVE TypeOK'
  <2>1. activeTab' \in Tabs /\ frames' \in 0 .. MaxFrames
    BY <1>3, DashboardAssumption DEF ClickTab, TypeOK
  <2>2. detail' \in {Old, detail}
    BY <1>3 DEF ClickTab
  <2>3. table' \in {Old} \cup [rows : Row, query : Queries]
    BY <1>3 DEF ClickTab, TypeOK, ProcessRows
  <2>4. UNCHANGED <<probing, inFlight, figures, activePerfMetric, query, drawn, received>>
    BY <1>3 DEF ClickTab, backend
  <2>5. probing' \in BOOLEAN
    BY <2>4 DEF TypeOK
  <2>6. opened' \in BOOLEAN
    BY <1>3 DEF ClickTab
  <2> QED
    BY <2>1, <2>2, <2>3, <2>4, <2>5, <2>6 DEF TypeOK, figures
<1>4. NowDetail \in [ring : Ring, figure : Figure, dash : BOOLEAN]
  BY PerfDetailType DEF TypeOK, NowDetail
<1>5. CASE FrameFires
  <2>1. frames' \in 0 .. MaxFrames
    BY <1>5, DashboardAssumption DEF FrameFires, TypeOK
  <2>2. detail' \in {Old, NowDetail}
    BY <1>5 DEF FrameFires
  <2>3. UNCHANGED <<probing, inFlight, figures, controls, table, drawn, received, opened>>
    BY <1>5 DEF FrameFires, backend, history
  <2>4. probing' \in BOOLEAN /\ opened' \in BOOLEAN
    BY <2>3 DEF TypeOK
  <2>5. detail' \in {Old} \cup [ring : Ring, figure : Figure, dash : BOOLEAN]
    BY <1>4, <2>2
  <2> QED
    BY <2>1, <2>3, <2>4, <2>5 DEF TypeOK, figures, controls
<1>6. ASSUME NEW metric \in Metrics, ClickMetric(metric) PROVE TypeOK'
  <2>1. detail' \in [ring : Ring, figure : Figure, dash : BOOLEAN] /\ activePerfMetric' \in Metrics
    BY <1>6, PerfDetailType DEF ClickMetric, TypeOK
  <2>2. UNCHANGED <<probing, inFlight, figures, activeTab, query, frames, table, drawn,
                   received, opened>>
    BY <1>6 DEF ClickMetric, backend, history
  <2>3. probing' \in BOOLEAN /\ opened' \in BOOLEAN
    BY <2>2 DEF TypeOK
  <2> QED
    BY <2>1, <2>2, <2>3 DEF TypeOK, figures
<1>7. ASSUME NEW q \in Queries, ChangeQuery(q) PROVE TypeOK'
  <2>1. table' \in [rows : Row, query : Queries] /\ query' \in Queries
    BY <1>7 DEF ChangeQuery, TypeOK, ProcessRows
  <2>2. UNCHANGED <<probing, inFlight, figures, activeTab, activePerfMetric, frames, detail,
                   drawn, received, opened>>
    BY <1>7 DEF ChangeQuery, backend, history
  <2>3. probing' \in BOOLEAN /\ opened' \in BOOLEAN
    BY <2>2 DEF TypeOK
  <2> QED
    BY <2>1, <2>2, <2>3 DEF TypeOK, figures
<1>8. CASE UNCHANGED vars
  <2>1. UNCHANGED <<probing, inFlight, figures, controls, screen, received, opened>>
    BY <1>8 DEF vars, backend, history
  <2>2. probing' \in BOOLEAN /\ opened' \in BOOLEAN
    BY <2>1 DEF TypeOK
  <2> QED
    BY <2>1, <2>2 DEF TypeOK, figures, controls, screen
<1> QED
  BY <1>1, <1>2, <1>3, <1>5, <1>6, <1>7, <1>8 DEF Next

-------------------------------------------------------------------------------
(* The rings. *)

LEMMA RingsInit == Init => Rings
<1> SUFFICES ASSUME Init PROVE Rings
  OBVIOUS
<1>1. Len(received) = 0 /\ DOMAIN received = {}
  BY EmptySeq DEF Init
<1>2. \A i \in 1 .. HISTORY : cpuRing[i] = 0 /\ gpuRing[i] = 0
  BY DEF Init, MakeRing
<1>3. gpu = 0 /\ HISTORY \in 1 .. HISTORY
  BY DashboardAssumption DEF Init
<1> QED
  BY <1>1, <1>2, <1>3, DashboardAssumption DEF Rings, RingsFollowAnswers, GpuIsLast

(* An answer moves what RingsFollowAnswers says of every slot on by one. *)
LEMMA RingsUpdate ==
    ASSUME TypeOK, Rings, NEW data \in AnyAnswer, UpdateContinues(data)
    PROVE  Rings'
<1> DEFINE n == Len(received)
           m == Len(received')
<1>1. HISTORY \in Nat /\ HISTORY > 0
  BY DashboardAssumption
<1>2. /\ n \in 0 .. HISTORY /\ m \in 1 .. HISTORY
      /\ m = IF n < HISTORY THEN n + 1 ELSE HISTORY
      /\ received'[m] = data
      /\ \A k \in 1 .. m - 1 : received'[k] = received[k + n + 1 - m]
  <2>1. received' = Remember(data)
    BY DEF UpdateContinues, Remember
  <2> QED
    BY <2>1, RememberFacts
<1>3. DOMAIN received = 1 .. n /\ DOMAIN received' = 1 .. m
  BY FiguresType, LenProperties DEF TypeOK
<1>4. /\ cpuRing'[HISTORY] = cpu' /\ \A i \in 1 .. HISTORY - 1 : cpuRing'[i] = cpuRing[i + 1]
      /\ gpuRing'[HISTORY] = gpu' /\ \A i \in 1 .. HISTORY - 1 : gpuRing'[i] = gpuRing[i + 1]
  <2>1. cpuRing' = PushRing(cpuRing, cpu') /\ gpuRing' = PushRing(gpuRing, gpu')
    BY DEF UpdateContinues
  <2>2. cpuRing \in Ring /\ gpuRing \in Ring /\ cpu' \in Figure /\ gpu' \in Figure
    BY FiguresType DEF TypeOK
  <2> QED
    BY <2>1, <2>2, PushRingFacts
<1>5. /\ cpu' = (IF data.live THEN data.level ELSE 0)
      /\ gpu' = (IF data.live /\ data.hasGpu THEN data.level ELSE gpu)
  BY DEF UpdateContinues
<1>6. gpu = gpuRing[HISTORY]
  BY DEF Rings, GpuIsLast
<1>7. GpuIsLast'
  BY <1>4 DEF GpuIsLast
<1>8. ASSUME NEW k \in 1 .. n
      PROVE  LET i == k + HISTORY - n IN
             /\ cpuRing[i] = IF received[k].live THEN received[k].level ELSE 0
             /\ received[k].live /\ received[k].hasGpu => gpuRing[i] = received[k].level
             /\ ~ (received[k].live /\ received[k].hasGpu) /\ i > 1 => gpuRing[i] = gpuRing[i - 1]
  BY <1>3 DEF Rings, RingsFollowAnswers, Slot
<1>9. \A i \in 1 .. HISTORY - n : cpuRing[i] = 0 /\ gpuRing[i] = 0
  BY DEF Rings, RingsFollowAnswers
<1> HIDE DEF n, m
<1>10. ASSUME NEW k \in 1 .. m
       PROVE  LET i == k + HISTORY - m IN
              /\ cpuRing'[i] = IF received'[k].live THEN received'[k].level ELSE 0
              /\ received'[k].live /\ received'[k].hasGpu => gpuRing'[i] = received'[k].level
              /\ ~ (received'[k].live /\ received'[k].hasGpu) /\ i > 1 => gpuRing'[i] = gpuRing'[i - 1]
  <2>1. CASE k = m
    <3>1. k + HISTORY - m = HISTORY /\ received'[k] = data
      BY <1>1, <1>2, <2>1
    <3>2. HISTORY > 1 => gpuRing'[HISTORY - 1] = gpuRing[HISTORY]
      <4>1. HISTORY > 1 => HISTORY - 1 \in 1 .. HISTORY - 1 /\ (HISTORY - 1) + 1 = HISTORY
        BY <1>1
      <4> QED
        BY <1>4, <4>1
    <3> QED
      BY <1>4, <1>5, <1>6, <3>1, <3>2
  <2>2. CASE k # m
    <3> DEFINE j == k + n + 1 - m
               i == k + HISTORY - m
    <3>1. /\ k \in 1 .. m - 1 /\ j \in 1 .. n /\ received'[k] = received[j]
          /\ i \in 1 .. HISTORY - 1 /\ j + HISTORY - n = i + 1 /\ i + 1 > 1
      BY <1>1, <1>2, <2>2
    <3>2. i > 1 => i - 1 \in 1 .. HISTORY - 1 /\ (i - 1) + 1 = i
      BY <1>1, <3>1
    <3> HIDE DEF i, j
    <3>3. /\ cpuRing'[i] = cpuRing[i + 1] /\ gpuRing'[i] = gpuRing[i + 1]
          /\ i > 1 => gpuRing'[i - 1] = gpuRing[i]
      BY <1>4, <3>1, <3>2
    <3>4. /\ cpuRing[i + 1] = IF received[j].live THEN received[j].level ELSE 0
          /\ received[j].live /\ received[j].hasGpu => gpuRing[i + 1] = received[j].level
          /\ ~ (received[j].live /\ received[j].hasGpu) => gpuRing[i + 1] = gpuRing[(i + 1) - 1]
      BY <1>8, <3>1
    <3>5. (i + 1) - 1 = i
      BY <3>1
    <3>6. k + HISTORY - m = i
      BY DEF i
    <3> QED
      BY <3>1, <3>3, <3>4, <3>5, <3>6
  <2> QED
    BY <2>1, <2>2
<1>11. ASSUME NEW i \in 1 .. HISTORY - m PROVE cpuRing'[i] = 0 /\ gpuRing'[i] = 0
  <2>1. i \in 1 .. HISTORY - 1 /\ i + 1 \in 1 .. HISTORY - n
    BY <1>1, <1>2
  <2> QED
    BY <1>4, <1>9, <2>1
<1> QED
  BY <1>3, <1>7, <1>10, <1>11 DEF Rings, RingsFollowAnswers, Slot, m

LEMMA RingsStep ==
    ASSUME TypeOK, Rings, [Next]_vars
    PROVE  Rings'
<1>1. ASSUME NEW data \in AnyAnswer, UpdateContinues(data) PROVE Rings'
  BY <1>1, RingsUpdate
<1>2. CASE UNCHANGED <<figures, received>>
  BY <1>2 DEF Rings, RingsFollowAnswers, GpuIsLast, Slot, figures
<1>3. CASE \/ TimerFires \/ StaticInfoArrives \/ FrameFires \/ UNCHANGED vars
           \/ \E tab \in Tabs : ClickTab(tab)
           \/ \E metric \in Metrics : ClickMetric(metric)
           \/ \E q \in Queries : ChangeQuery(q)
  BY <1>2, <1>3 DEF TimerFires, StaticInfoArrives, FrameFires, ClickTab, ClickMetric, ChangeQuery, vars, history
<1> QED
  BY <1>1, <1>3 DEF Next

-------------------------------------------------------------------------------
(* The visible tab. *)

LEMMA FreshStep ==
    ASSUME TypeOK, VisibleTabIsFresh, [Next]_vars
    PROVE  VisibleTabIsFresh'
<1> USE DEF VisibleTabIsFresh
<1>1. CASE TimerFires \/ StaticInfoArrives \/ UNCHANGED vars
  BY <1>1 DEF TimerFires, StaticInfoArrives, vars, figures, controls, screen, history, NowDetail
<1>2. ASSUME NEW data \in AnyAnswer, UpdateContinues(data) PROVE VisibleTabIsFresh'
  BY <1>2 DEF UpdateContinues, DrawSparklines, NowDetail, controls
<1>3. ASSUME NEW tab \in Tabs, ClickTab(tab) PROVE VisibleTabIsFresh'
  <2>1. tab = "performance" => frames' # 0
    BY <1>3 DEF ClickTab, TypeOK
  <2>2. /\ activeTab' = tab /\ (tab = "processes" => table' = ProcessRows(processes, query))
        /\ UNCHANGED <<processes, query, drawn>>
    BY <1>3 DEF ClickTab, figures
  <2>3. ~ opened' => ~ opened /\ tab = activeTab
    BY <1>3 DEF ClickTab
  <2> QED
    BY <2>1, <2>2, <2>3
<1>4. CASE FrameFires
  BY <1>4 DEF FrameFires, NowDetail, figures, controls, history
<1>5. ASSUME NEW metric \in Metrics, ClickMetric(metric) PROVE VisibleTabIsFresh'
  BY <1>5 DEF ClickMetric, NowDetail, figures, history
<1>6. ASSUME NEW q \in Queries, ChangeQuery(q) PROVE VisibleTabIsFresh'
  BY <1>6 DEF ChangeQuery, figures, history
<1> QED
  BY <1>1, <1>2, <1>3, <1>4, <1>5, <1>6 DEF Next

-------------------------------------------------------------------------------
(* IInv is inductive. *)
THEOREM Inductive == Spec => []IInv
<1>1. Init => VisibleTabIsFresh
  BY DEF Init, VisibleTabIsFresh
<1>2. Init => IInv
  BY <1>1, TypeInit, RingsInit DEF IInv
<1>3. IInv /\ [Next]_vars => IInv'
  BY TypeStep, RingsStep, FreshStep DEF IInv
<1> QED
  BY <1>2, <1>3, PTL DEF Spec

(* TypeOK: the state of the page keeps its types, the rings their length. *)
THEOREM TypeCorrect == Spec => []TypeOK
<1>1. IInv => TypeOK
  BY DEF IInv
<1> QED
  BY <1>1, Inductive, PTL

(* RingsFollowAnswers: in whatever order answers come, with and without data
   or GPU, the rings hold one slot for each of the last HISTORY of them
   (dashboard.html:655-656, 1101-1163). *)
THEOREM RingsInStep == Spec => []RingsFollowAnswers
<1>1. IInv => RingsFollowAnswers
  BY DEF IInv, Rings
<1> QED
  BY <1>1, Inductive, PTL

(* VisibleTabIsFresh: the process table and the details in view are of the present
   state, and the sparklines in view are once an answer has come since their tab was
   opened, however answers, clicks, keys and frames interleave
   (dashboard.html:850-853, 949-963, 1264-1283). *)
THEOREM VisibleIsFresh == Spec => []VisibleTabIsFresh
<1>1. IInv => VisibleTabIsFresh
  BY DEF IInv
<1> QED
  BY <1>1, Inductive, PTL

-------------------------------------------------------------------------------
(* The GPU window and its page. *)

(* A window that is not there has no page. *)
NoWindowNoPage ==
    ~ window => asked = 0 /\ answers = <<>> /\ identity = 0 /\ shown = 0

(* Until a card comes or goes, whatever the page has or is about to get is of
   the card there is. *)
PageOfTheCard ==
    window /\ sameCards =>
        answers \in Seq({0, FirstCard}) /\ {identity, shown} \subseteq {0, FirstCard}

Paired == identity = 0 <=> shown = 0

(* A click that is still to show a window will look for it or open it. *)
ClickPending == wanted /\ ~ window => looking + opening > 0

PageInv == NoWindowNoPage /\ PageOfTheCard /\ Paired

GpuIInv == GpuTypeOK /\ PageInv /\ ClickPending

-------------------------------------------------------------------------------
(* FirstCard is a card or 0. *)
LEMMA FirstCardType ==
    ASSUME drm \in [CardNo -> Ids \cup {0}]
    PROVE  FirstCard \in Ids \cup {0}
<1> DEFINE there == {n \in CardNo : drm[n] # 0}
           least == CHOOSE n \in there : \A m \in there : n <= m
<1>1. CASE there = {}
  BY <1>1 DEF FirstCard
<1>2. CASE there # {}
  <2>1. there \in SUBSET Nat
    BY GpuPageAssumption DEF CardNo
  <2>2. \E n \in there : \A m \in there : n <= m
    BY <1>2, <2>1, LeastNumber
  <2>3. least \in there
    BY <2>2
  <2>4. FirstCard = drm[least]
    BY <1>2 DEF FirstCard
  <2> QED
    BY <2>3, <2>4
<1> QED
  BY <1>1, <1>2

(* A sequence from which one element is taken. *)
LEMMA RemoveAtFacts ==
    ASSUME NEW S, NEW s \in Seq(S), NEW i \in DOMAIN s
    PROVE  /\ RemoveAt(s, i) \in Seq(S)
           /\ Len(RemoveAt(s, i)) = Len(s) - 1
           /\ s[i] \in S
<1>1. i \in 1 .. Len(s) /\ Len(s) \in Nat /\ s[i] \in S
  BY LenProperties, ElementOfSeq
<1>2. /\ SubSeq(s, 1, i - 1) \in Seq(S) /\ Len(SubSeq(s, 1, i - 1)) = i - 1
      /\ SubSeq(s, i + 1, Len(s)) \in Seq(S) /\ Len(SubSeq(s, i + 1, Len(s))) = Len(s) - i
  BY <1>1, SubSeqProperties
<1>3. RemoveAt(s, i) = SubSeq(s, 1, i - 1) \o SubSeq(s, i + 1, Len(s))
  BY DEF RemoveAt
<1>4. /\ SubSeq(s, 1, i - 1) \o SubSeq(s, i + 1, Len(s)) \in Seq(S)
      /\ Len(SubSeq(s, 1, i - 1) \o SubSeq(s, i + 1, Len(s))) = (i - 1) + (Len(s) - i)
  BY <1>2, ConcatProperties
<1>5. (i - 1) + (Len(s) - i) = Len(s) - 1
  BY <1>1
<1> QED
  BY <1>1, <1>3, <1>4, <1>5, Zenon

-------------------------------------------------------------------------------
(* Type correctness. *)

LEMMA GpuTypeInit ==
    ASSUME GpuInit
    PROVE  GpuTypeOK
<1>1. drm \in [CardNo -> Ids \cup {0}]
  BY GpuPageAssumption DEF GpuInit, Ids
<1>2. answers = <<>> /\ answers \in Seq(Ids \cup {0}) /\ Len(answers) = 0
  BY EmptySeq DEF GpuInit
<1>3. /\ changes \in 0 .. MaxChanges /\ asked \in Nat /\ asked + Len(answers) <= MaxUpdates
      /\ looking \in Nat /\ focusing \in Nat /\ opening \in Nat /\ UnderWay <= MaxClicks
      /\ identity \in Ids \cup {0} /\ shown \in Ids \cup {0}
  BY <1>2, GpuPageAssumption DEF GpuInit, UnderWay
<1>4. window \in BOOLEAN /\ wanted \in BOOLEAN /\ sameCards \in BOOLEAN
  BY DEF GpuInit
<1> QED
  BY <1>1, <1>2, <1>3, <1>4 DEF GpuTypeOK

LEMMA GpuTypeStep ==
    ASSUME GpuTypeOK, [GpuNext]_gpuVars
    PROVE  GpuTypeOK'
<1> USE GpuPageAssumption
<1>1. ASSUME NEW n \in CardNo, CardChanges(n) PROVE GpuTypeOK'
  <2>1. drm' \in [CardNo -> Ids \cup {0}]
    BY <1>1 DEF CardChanges, GpuTypeOK, Ids
  <2>2. changes' \in 0 .. MaxChanges
    BY <1>1 DEF CardChanges, GpuTypeOK
  <2>3. sameCards' \in BOOLEAN
    BY <1>1 DEF CardChanges
  <2>4. UNCHANGED <<window, looking, focusing, opening, asked, answers, identity, shown, wanted>>
    BY <1>1 DEF CardChanges, clicks, page
  <2> QED
    BY <2>1, <2>2, <2>3, <2>4 DEF GpuTypeOK, UnderWay
<1>2. CASE Click \/ LookUp \/ Focus \/ OpenWindow
  <2>1. /\ looking' \in Nat /\ focusing' \in Nat /\ opening' \in Nat /\ UnderWay' <= MaxClicks
    <3>1. /\ looking \in Nat /\ focusing \in Nat /\ opening \in Nat
          /\ looking + focusing + opening <= MaxClicks
      BY DEF GpuTypeOK, UnderWay
    <3>2. CASE Click
      BY <3>1, <3>2 DEF Click, UnderWay
    <3>3. CASE LookUp
      BY <3>1, <3>3 DEF LookUp, UnderWay
    <3>4. CASE Focus
      BY <3>1, <3>4 DEF Focus, UnderWay
    <3>5. CASE OpenWindow
      BY <3>1, <3>5 DEF OpenWindow, UnderWay
    <3> QED
      BY <1>2, <3>2, <3>3, <3>4, <3>5
  <2>2. window' \in BOOLEAN /\ wanted' \in BOOLEAN /\ sameCards' \in BOOLEAN
    BY <1>2 DEF Click, LookUp, Focus, OpenWindow, GpuTypeOK
  <2>3. UNCHANGED <<drm, changes, asked, answers, identity, shown>>
    BY <1>2 DEF Click, LookUp, Focus, OpenWindow, machine, page
  <2> QED
    BY <2>1, <2>2, <2>3 DEF GpuTypeOK
<1>3. CASE CloseWindow
  <2>1. answers' \in Seq(Ids \cup {0}) /\ Len(answers') = 0
    BY <1>3, EmptySeq DEF CloseWindow
  <2>2. window' \in BOOLEAN /\ wanted' \in BOOLEAN
    BY <1>3 DEF CloseWindow
  <2> QED
    BY <1>3, <2>1, <2>2 DEF CloseWindow, GpuTypeOK, UnderWay, machine, clicks
<1>4. CASE GpuTimerFires
  BY <1>4, LenProperties DEF GpuTimerFires, GpuTypeOK, UnderWay, machine, clicks
<1>5. CASE ReadCard
  <2>1. answers' \in Seq(Ids \cup {0}) /\ Len(answers') = Len(answers) + 1
    BY <1>5, FirstCardType, AppendProperties DEF ReadCard, GpuTypeOK
  <2>2. asked' \in Nat /\ asked' + Len(answers') <= MaxUpdates
    BY <1>5, <2>1, LenProperties DEF ReadCard, GpuTypeOK
  <2> QED
    BY <1>5, <2>1, <2>2 DEF ReadCard, GpuTypeOK, UnderWay, machine, clicks
<1>6. ASSUME NEW i \in DOMAIN answers, GpuUpdateContinues(i) PROVE GpuTypeOK'
  <2>1. /\ answers' \in Seq(Ids \cup {0}) /\ Len(answers') = Len(answers) - 1
        /\ answers[i] \in Ids \cup {0} /\ Len(answers) \in Nat
    BY <1>6, RemoveAtFacts, LenProperties DEF GpuUpdateContinues, GpuTypeOK
  <2>2. identity' \in Ids \cup {0} /\ shown' \in Ids \cup {0}
    BY <1>6, <2>1 DEF GpuUpdateContinues, GpuTypeOK
  <2>3. UNCHANGED <<drm, changes, window, looking, focusing, opening, asked, wanted, sameCards>>
    BY <1>6 DEF GpuUpdateContinues, machine, clicks
  <2>4. asked' + Len(answers') <= MaxUpdates
    BY <2>1, <2>3 DEF GpuTypeOK
  <2> QED
    BY <2>1, <2>2, <2>3, <2>4 DEF GpuTypeOK, UnderWay
<1>7. CASE UNCHANGED gpuVars
  BY <1>7 DEF gpuVars, machine, clicks, page, GpuTypeOK, UnderWay
<1> QED
  BY <1>1, <1>2, <1>3, <1>4, <1>5, <1>6, <1>7 DEF GpuNext

-------------------------------------------------------------------------------
(* The page and the window. *)

LEMMA PageInit == GpuInit => PageInv /\ ClickPending
BY DEF GpuInit, PageInv, NoWindowNoPage, PageOfTheCard, Paired, ClickPending

LEMMA PageStep ==
    ASSUME GpuTypeOK, PageInv, [GpuNext]_gpuVars
    PROVE  PageInv'
<1> DEFINE own == {0, FirstCard}
<1>1. ASSUME NEW n \in CardNo, CardChanges(n) PROVE PageInv'
  BY <1>1 DEF CardChanges, PageInv, NoWindowNoPage, PageOfTheCard, Paired, page
<1>2. CASE Click \/ LookUp \/ Focus
  <2>1. UNCHANGED <<drm, window, sameCards, asked, answers, identity, shown>>
    BY <1>2 DEF Click, LookUp, Focus, machine, page
  <2> QED
    BY <2>1 DEF PageInv, NoWindowNoPage, PageOfTheCard, Paired, FirstCard
<1>3. CASE OpenWindow
  <2>1. /\ window' /\ sameCards' = (sameCards \/ ~ window)
        /\ UNCHANGED <<drm, asked, answers, identity, shown>>
    BY <1>3 DEF OpenWindow, machine, page
  <2>2. FirstCard' = FirstCard
    BY <2>1 DEF FirstCard
  <2>3. CASE window
    BY <2>1, <2>2, <2>3 DEF PageInv, NoWindowNoPage, PageOfTheCard, Paired
  <2>4. CASE ~ window
    <3>1. answers' \in Seq({0, FirstCard'}) /\ identity' = 0 /\ shown' = 0
      BY <2>1, <2>4, EmptySeq DEF PageInv, NoWindowNoPage
    <3> QED
      BY <2>1, <3>1 DEF PageInv, NoWindowNoPage, PageOfTheCard, Paired
  <2> QED
    BY <2>3, <2>4
<1>4. CASE CloseWindow
  BY <1>4 DEF CloseWindow, PageInv, NoWindowNoPage, PageOfTheCard, Paired
<1>5. CASE GpuTimerFires
  <2>1. window /\ UNCHANGED <<drm, window, sameCards, answers, identity, shown>>
    BY <1>5 DEF GpuTimerFires, machine
  <2> QED
    BY <2>1 DEF PageInv, NoWindowNoPage, PageOfTheCard, Paired, FirstCard
<1>6. CASE ReadCard
  <2>1. /\ asked > 0 /\ answers' = Append(answers, FirstCard)
        /\ UNCHANGED <<drm, window, sameCards, identity, shown>>
    BY <1>6 DEF ReadCard, machine
  <2>2. window
    BY <2>1 DEF PageInv, NoWindowNoPage
  <2>3. FirstCard' = FirstCard
    BY <2>1 DEF FirstCard
  <2>4. answers \in Seq(own) => answers' \in Seq(own)
    <3>1. FirstCard \in own
      OBVIOUS
    <3> QED
      BY <2>1, <3>1, AppendProperties
  <2> QED
    BY <2>1, <2>2, <2>3, <2>4 DEF PageInv, NoWindowNoPage, PageOfTheCard, Paired
<1>7. ASSUME NEW i \in DOMAIN answers, GpuUpdateContinues(i) PROVE PageInv'
  <2>1. /\ answers' = RemoveAt(answers, i)
        /\ UNCHANGED <<drm, window, sameCards>>
    BY <1>7 DEF GpuUpdateContinues, machine
  <2>2. window
    BY <1>7 DEF PageInv, NoWindowNoPage
  <2>3. FirstCard' = FirstCard
    BY <2>1 DEF FirstCard
  <2>4. Paired'
    BY <1>7 DEF GpuUpdateContinues, PageInv, Paired
  <2>5. ASSUME sameCards
        PROVE  answers' \in Seq(own) /\ identity' \in own /\ shown' \in own
    <3>1. answers \in Seq(own) /\ identity \in own /\ shown \in own
      BY <2>2, <2>5 DEF PageInv, PageOfTheCard
    <3>2. answers' \in Seq(own) /\ answers[i] \in own
      BY <2>1, <3>1, RemoveAtFacts
    <3> HIDE DEF own
    <3>3. identity' \in own /\ shown' \in own
      BY <1>7, <3>1, <3>2 DEF GpuUpdateContinues
    <3> QED
      BY <3>2, <3>3
  <2> QED
    BY <2>1, <2>2, <2>3, <2>4, <2>5 DEF PageInv, NoWindowNoPage, PageOfTheCard
<1>8. CASE UNCHANGED gpuVars
  BY <1>8 DEF gpuVars, machine, page, PageInv, NoWindowNoPage, PageOfTheCard, Paired, FirstCard
<1> QED
  BY <1>1, <1>2, <1>3, <1>4, <1>5, <1>6, <1>7, <1>8 DEF GpuNext

LEMMA ClickStep ==
    ASSUME GpuTypeOK, ClickPending, [GpuNext]_gpuVars
    PROVE  ClickPending'
<1> SUFFICES ASSUME wanted', ~ window' PROVE looking' + opening' > 0
  BY DEF ClickPending
<1>0. looking \in Nat /\ opening \in Nat
  BY DEF GpuTypeOK
<1>1. CASE Click
  BY <1>0, <1>1 DEF Click
<1>4. CASE OpenWindow
  BY <1>4, Zenon DEF OpenWindow
<1>5. CASE CloseWindow
  BY <1>5, Zenon DEF CloseWindow
<1>3. CASE LookUp \/ Focus
  <2>1. wanted' = wanted /\ window' = window
    BY <1>3 DEF LookUp, Focus
  <2>2. wanted /\ ~ window
    BY <2>1, Zenon
  <2> QED
    BY <1>0, <1>3, <2>2 DEF LookUp, Focus, ClickPending
<1>2. CASE \/ \E n \in CardNo : CardChanges(n)
           \/ GpuTimerFires \/ ReadCard \/ UNCHANGED gpuVars
           \/ \E i \in DOMAIN answers : GpuUpdateContinues(i)
  <2>1. UNCHANGED <<wanted, window, looking, opening>>
    BY <1>2 DEF CardChanges, GpuTimerFires, ReadCard, GpuUpdateContinues, gpuVars, clicks
  <2> QED
    BY <2>1 DEF ClickPending
<1> QED
  BY <1>1, <1>2, <1>3, <1>4, <1>5 DEF GpuNext

-------------------------------------------------------------------------------
(* IInv is inductive. *)
THEOREM GpuInductive == GpuSpec => []GpuIInv
<1>1. GpuInit => GpuIInv
  BY GpuTypeInit, PageInit DEF GpuIInv
<1>2. GpuIInv /\ [GpuNext]_gpuVars => GpuIInv'
  BY GpuTypeStep, PageStep, ClickStep DEF GpuIInv
<1> QED
  BY <1>1, <1>2, PTL DEF GpuSpec

(* TypeOK: the window, its clicks and its page keep their types and bounds. *)
THEOREM GpuTypeCorrect == GpuSpec => []GpuTypeOK
<1>1. GpuIInv => GpuTypeOK
  BY DEF GpuIInv
<1> QED
  BY <1>1, GpuInductive, PTL

(* NamesItsFigures: identity and figures appear together, and are of the card
   there is until a card has come or gone (gpu.html:338-416). *)
THEOREM NamedFigures == GpuSpec => []NamesItsFigures
<1>1. GpuIInv => NamesItsFigures
  BY DEF GpuIInv, PageInv, PageOfTheCard, Paired, NamesItsFigures
<1> QED
  BY <1>1, GpuInductive, PTL

(* ClickLeavesWindow: however many clicks overlap, when all are through there
   is a window unless it was closed after the last (dashboard.html:698-720). *)
THEOREM ClickOpens == GpuSpec => []ClickLeavesWindow
<1>1. GpuIInv => ClickLeavesWindow
  <2> SUFFICES ASSUME GpuIInv, wanted, UnderWay = 0, ~ window PROVE FALSE
    BY DEF ClickLeavesWindow, GpuIInv, GpuTypeOK
  <2>1. looking \in Nat /\ focusing \in Nat /\ opening \in Nat /\ looking + opening > 0
    BY DEF GpuIInv, GpuTypeOK, ClickPending
  <2> QED
    BY <2>1 DEF UnderWay
<1> QED
  BY <1>1, GpuInductive, PTL
================================================================================
