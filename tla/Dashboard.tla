------------------------------ MODULE Dashboard ------------------------------
(***************************************************************************)
(* The page dashboard.html: update() runs once a second whether or not the *)
(* earlier ones have been answered, each waits for one get_stats answer    *)
(* and then, in one turn of the event loop, brings the state, the rings    *)
(* and the visible tab up to date; clicks and keys come in between.        *)
(*                                                                         *)
(* An answer is a Level, which stands for every figure in it, with or      *)
(* without a GPU and with or without processes.  The CPU ring stands for   *)
(* the memory and disk rings, which take a zero when there is no data, as  *)
(* it does; the network and heap rings then take the browser's figures,    *)
(* but at the same moments.  The GPU's temperature and power rings are     *)
(* filled as its load ring is.  What a hidden tab was drawn from is        *)
(* forgotten: it counts as Old, different from any present state; of its   *)
(* sparklines it is known whether they were drawn from the present rings.  *)
(***************************************************************************)
EXTENDS Naturals, Sequences, SequencesExt

CONSTANTS
    MaxLevel,       \* figures are 1 .. MaxLevel, and 0 is none
    HISTORY,        \* slots of a ring
    MaxInFlight,    \* bound of the unanswered updates
    MaxFrames       \* bound of the requested animation frames

ASSUME DashboardAssumption ==
    /\ MaxLevel \in Nat \ {0} /\ HISTORY \in Nat \ {0}
    /\ MaxInFlight \in Nat \ {0} /\ MaxFrames \in Nat \ {0}

VARIABLES
    probing,            \* get_static_info is not answered yet
    inFlight,           \* updates that wait for get_stats
    liveData,           \* the last get_stats payload, or NoData
    cpu, cpuRing,       \* state.cpu.pct and state.cpu.ring
    gpu, gpuRing,       \* state.gpu.pct and state.gpu.ring
    processes,          \* the rows to list, and whether they are real
    activeTab,
    activePerfMetric,
    query,              \* the search text and the sort key
    frames,             \* requested animation frames that render the details
    detail,             \* what the performance tab shows, if it is visible
    table,              \* what the process tab shows, if it is visible
    drawn,              \* the tabs whose sparklines show the rings as they are
    received,           \* history: the last HISTORY answers, oldest first
    opened              \* history: no answer since the visible tab was opened

backend == <<probing, inFlight>>
figures == <<liveData, cpu, cpuRing, gpu, gpuRing, processes>>
controls == <<activeTab, activePerfMetric, query>>
screen == <<frames, detail, table, drawn>>
history == <<received, opened>>
vars == <<backend, figures, controls, screen, history>>

Level == 1 .. MaxLevel
Figure == 0 .. MaxLevel
(* NoData is what fetchStats makes of a failed call; in a browser, where there
   is no __TAURI__, every call fails. *)
NoData == [live |-> FALSE]
Payload == [live : {TRUE}, level : Level, hasGpu : BOOLEAN, hasProcs : BOOLEAN]
AnyAnswer == {NoData} \cup Payload

Tabs == {"overview", "performance", "processes", "network", "about"}
Sparklines == {"overview", "performance", "network"}
Metrics == {"cpu", "gpu"}
Queries == {"none", "some"}

MakeRing == [i \in 1 .. HISTORY |-> 0]

(* Variant: the length is tested before the push. *)
PushRingLate(ring, val) ==
    IF Len(ring) > HISTORY THEN Tail(Append(ring, val)) ELSE Append(ring, val)

(* Variant: the ring grows at the wrong end. *)
PushRingFront(ring, val) ==
    IF Len(ring) >= HISTORY THEN Front(<<val>> \o ring) ELSE <<val>> \o ring

PushRing(ring, val) ==
    IF Len(ring) + 1 > HISTORY THEN Tail(Append(ring, val)) ELSE Append(ring, val)

(* What renderPerfDetail draws: the ring of a metric and its figure, which
   is a dash for a GPU that was never above zero while there is no data. *)
PerfDetail(metric, c, cs, g, gs, data) ==
    IF metric = "cpu"
    THEN [ring |-> cs, figure |-> c, dash |-> FALSE]
    ELSE [ring |-> gs, figure |-> g, dash |-> g = 0 /\ ~ data.live]

NowDetail == PerfDetail(activePerfMetric, cpu, cpuRing, gpu, gpuRing, liveData)

(* What renderProcesses lists: the rows that pass the filter, in order. *)
ProcessRows(procs, q) == [rows |-> procs, query |-> q]

(* drawSparkline returns while its canvas has no width, as those of the hidden
   tabs: the visible tab's are drawn, the others left as they were. *)
DrawSparklines == Sparklines \cap {activeTab}

Real(level) == [real |-> TRUE, of |-> level]
Simulated(level) == [real |-> FALSE, of |-> level]
NoRows == [real |-> FALSE, of |-> 0]

Old == [old |-> TRUE]

(* initStaticInfo, renderProcesses, the call of get_static_info, setInterval. *)
Init ==
    /\ probing = TRUE
    /\ inFlight = 0
    /\ liveData = NoData
    /\ cpu = 0 /\ cpuRing = MakeRing
    /\ gpu = 0 /\ gpuRing = MakeRing
    /\ processes = NoRows
    /\ activeTab = "overview"
    /\ activePerfMetric = "cpu"
    /\ query = "none"
    /\ frames = 0
    /\ detail = Old
    /\ table = Old
    /\ drawn = {}
    /\ received = <<>>
    /\ opened = TRUE

-------------------------------------------------------------------------------
(* The timer starts an update, which goes as far as its await. *)
TimerFires ==
    /\ inFlight < MaxInFlight
    /\ inFlight' = inFlight + 1
    /\ UNCHANGED <<probing, figures, controls, screen, history>>

(* probeAPI ends, with labels to fill in or with a warning, and the first
   update that is not the timer's starts. *)
StaticInfoArrives ==
    /\ probing
    /\ inFlight < MaxInFlight
    /\ probing' = FALSE
    /\ inFlight' = inFlight + 1
    /\ UNCHANGED <<figures, controls, screen, history>>

(* Variant: an update that is in flight while the tab changes still renders
   for the tab that was active when it started, so here: for none. *)
UpdateContinuesBlind(data) ==
    /\ inFlight > 0
    /\ inFlight' = inFlight - 1
    /\ liveData' = data
    /\ cpu' = IF data.live THEN data.level ELSE 0
    /\ cpuRing' = PushRing(cpuRing, cpu')
    /\ gpu' = IF data.live /\ data.hasGpu THEN data.level ELSE gpu
    /\ gpuRing' = PushRing(gpuRing, gpu')
    /\ \/ data.live /\ data.hasProcs /\ processes' = Real(data.level)
       \/ ~ (data.live /\ data.hasProcs) /\ \E v \in Level : processes' = Simulated(v)
    /\ received' = IF Len(received) < HISTORY THEN Append(received, data)
                                              ELSE Tail(Append(received, data))
    /\ opened' = FALSE
    /\ UNCHANGED <<probing, controls, frames, detail, table, drawn>>

(* get_stats is answered or fails, and the rest of update() runs. *)
UpdateContinues(data) ==
    /\ inFlight > 0
    /\ inFlight' = inFlight - 1
    /\ liveData' = data
    /\ cpu' = IF data.live THEN data.level ELSE 0
    /\ cpuRing' = PushRing(cpuRing, cpu')
    /\ gpu' = IF data.live /\ data.hasGpu THEN data.level ELSE gpu
    /\ gpuRing' = PushRing(gpuRing, gpu')
    /\ \/ data.live /\ data.hasProcs /\ processes' = Real(data.level)
       \/ ~ (data.live /\ data.hasProcs) /\ \E v \in Level : processes' = Simulated(v)
    /\ detail' = IF activeTab = "performance"
                 THEN PerfDetail(activePerfMetric, cpu', cpuRing', gpu', gpuRing', data)
                 ELSE detail
    /\ table' = IF activeTab = "processes" THEN ProcessRows(processes', query) ELSE table
    /\ drawn' = DrawSparklines
    /\ received' = IF Len(received) < HISTORY THEN Append(received, data)
                                              ELSE Tail(Append(received, data))
    /\ opened' = FALSE
    /\ UNCHANGED <<probing, controls, frames>>

(* A tab is clicked: the process table is rendered at once, the details of the
   performance tab with the next frame, the sparklines of no tab. *)
ClickTab(tab) ==
    /\ activeTab' = tab
    /\ IF tab = "performance"
       THEN /\ frames < MaxFrames /\ frames' = frames + 1
            /\ detail' = IF activeTab = tab THEN detail ELSE Old
       ELSE /\ UNCHANGED frames
            /\ detail' = Old
    /\ table' = IF tab = "processes" THEN ProcessRows(processes, query) ELSE Old
    /\ opened' = (opened \/ tab # activeTab)
    /\ UNCHANGED <<backend, figures, activePerfMetric, query, drawn, received>>

(* Variant: the frame renders nothing. *)
FrameFiresEmpty ==
    /\ frames > 0
    /\ frames' = frames - 1
    /\ UNCHANGED <<backend, figures, controls, detail, table, drawn, history>>

(* The browser runs a requested frame, whatever the active tab is by now. *)
FrameFires ==
    /\ frames > 0
    /\ frames' = frames - 1
    /\ detail' = IF activeTab = "performance" THEN NowDetail ELSE Old
    /\ UNCHANGED <<backend, figures, controls, table, drawn, history>>

(* A metric is clicked in the list of the performance tab. *)
ClickMetric(metric) ==
    /\ activeTab = "performance"
    /\ activePerfMetric' = metric
    /\ detail' = PerfDetail(metric, cpu, cpuRing, gpu, gpuRing, liveData)
    /\ UNCHANGED <<backend, figures, activeTab, query, frames, table, drawn, history>>

(* The search text or the sort key of the process tab is changed. *)
ChangeQuery(q) ==
    /\ activeTab = "processes"
    /\ query' = q
    /\ table' = ProcessRows(processes, q)
    /\ UNCHANGED <<backend, figures, activeTab, activePerfMetric, frames, detail, drawn, history>>

Next ==
    \/ TimerFires
    \/ StaticInfoArrives
    \/ \E data \in AnyAnswer : UpdateContinues(data)
    \/ \E tab \in Tabs : ClickTab(tab)
    \/ FrameFires
    \/ \E metric \in Metrics : ClickMetric(metric)
    \/ \E q \in Queries : ChangeQuery(q)

Spec == Init /\ [][Next]_vars

(* The browser runs requested frames; nothing makes a user click, the timer
   fire or the backend answer. *)
FairSpec == Spec /\ WF_vars(FrameFires)

-------------------------------------------------------------------------------
(* Properties. *)

Row == [real : BOOLEAN, of : Figure]
Ring == [1 .. HISTORY -> Figure]

(* Type correctness: the page's state (dashboard.html:654-673, 807). *)
TypeOK ==
    /\ probing \in BOOLEAN
    /\ inFlight \in 0 .. MaxInFlight
    /\ liveData \in AnyAnswer
    /\ cpu \in Figure /\ cpuRing \in Ring
    /\ gpu \in Figure /\ gpuRing \in Ring
    /\ processes \in Row
    /\ activeTab \in Tabs /\ activePerfMetric \in Metrics /\ query \in Queries
    /\ frames \in 0 .. MaxFrames
    /\ detail \in {Old} \cup [ring : Ring, figure : Figure, dash : BOOLEAN]
    /\ table \in {Old} \cup [rows : Row, query : Queries]
    /\ drawn \subseteq Sparklines
    /\ received \in Seq(AnyAnswer) /\ Len(received) <= HISTORY
    /\ opened \in BOOLEAN

(* A ring holds one slot for each of the last HISTORY answers, the latest at
   the right, and the rings stay in step (dashboard.html:655-656, 1101-1163):
   an answer without data is a zero in the CPU ring, and in the GPU ring the
   last GPU figure once more. *)
Slot(k) == k + HISTORY - Len(received)

RingsFollowAnswers ==
    /\ \A k \in DOMAIN received :
          /\ cpuRing[Slot(k)] = IF received[k].live THEN received[k].level ELSE 0
          /\ received[k].live /\ received[k].hasGpu => gpuRing[Slot(k)] = received[k].level
          /\ ~ (received[k].live /\ received[k].hasGpu) /\ Slot(k) > 1
                => gpuRing[Slot(k)] = gpuRing[Slot(k) - 1]
    /\ \A i \in 1 .. HISTORY - Len(received) : cpuRing[i] = 0 /\ gpuRing[i] = 0

(* The visible tab shows the present state (dashboard.html:850-853, 949-950, 963,
   1059-1060, 1264-1283), although a tab is only rendered while it is the active
   one: the process table always, with the filter that is typed in; the details
   as soon as the frame that a click asked for has run; and the sparklines once
   an answer has come since the tab was opened, until when they may show rings of
   a while ago, or nothing. *)
VisibleTabIsFresh ==
    /\ activeTab = "processes" => table = ProcessRows(processes, query)
    /\ activeTab = "performance" /\ frames = 0 => detail = NowDetail
    /\ activeTab \in Sparklines /\ ~ opened => activeTab \in drawn

(* A switch to the performance tab is followed by its large chart and figures,
   those of renderPerfDetail (dashboard.html:949), also if no further answer
   ever comes; its sidebar's sparklines are not part of this. *)
DetailsCatchUp ==
    activeTab = "performance" ~> activeTab # "performance" \/ detail = NowDetail

===============================================================================
