# Verification of the performance dashboard

TLA+ modules, TLC configurations and TLAPS proofs for the system in this
repository: a Tauri application whose Rust backend (`src-tauri/`) reads metrics
from the Linux kernel and whose pages (`dist/*.html`) ask for them once a second.

## 1. Inventory

### Components, their state and operations

| Component | Source | State it keeps | Operations | Correct means |
|---|---|---|---|---|
| `get_stats` command | `src-tauri/src/lib.rs`, `crates/metrics/src/state.rs` | `MetricsState`: three snapshots, each behind its own `tokio::sync::Mutex` | one call: CPU, memory, disk, network, processes, GPU, battery, answer | every call is answered; no call holds one lock while it awaits another; the figures of one answer belong together |
| disk rates, network rates | `disk.rs`, `network.rs`, `lib.rs:12-29` | `prev_disk`, `prev_net`: counters and their `Instant` | sample, read, lock, compute, store | over all answers no byte and no second is counted twice or lost |
| disk and network counters | `disk.rs:46-85`, `network.rs:38-74` | none | parse, filter, sum | each whole disk and each real interface once |
| process list | `processes.rs` | `prev_procs`: ticks by pid, their `Instant`, the user cache | list `/proc` under the lock, compare ticks, sort, truncate to 40 | a row is the CPU its process used since the listing before read it; no time twice |
| CPU load | `cpu.rs` | none between calls | read, sleep 100 ms, read, compare | shares of the time; the cores add up to the total |
| memory, battery, AMD GPU, static info | `memory.rs`, `battery.rs`, `gpu_amd.rs`, `static_info.rs` | none | read files with fallbacks, compute | each figure from the first source that has it, in range |
| dashboard page | `dist/dashboard.html:640-1292` | `liveData`, `state` with its 60-slot rings, `processes`, the active tab and metric, the page itself | timer, answer, clicks, keys, animation frames | rings in step, one slot for each answer; the visible tab is up to date, its sparklines from the next answer on |
| GPU window and page | `dashboard.html:698-720`, `dist/gpu.html` | the window labelled `gpu`, the page's rings and identity | open or focus, update, close | one window; figures and identity of one card |
| node server | `server.js` | none of its own | `/api/stats`, `/api/static` | (superseded by the commands) |

### Interactions

* A page calls `invoke('get_stats')` from `setInterval(update, 1000)` and does
  not wait for its earlier calls, so calls of one window overlap whenever an
  answer takes more than a second; the main and the GPU window call
  independently. All calls share one `MetricsState`.
* Commands run on tokio's worker threads and interleave at their await points
  and, on different threads, anywhere. The locks are first-in first-out.
* Within a page everything between two awaits is one turn of the event loop.
* The kernel changes underneath: counters grow, devices, CPUs and processes
  come and go between two reads of one call.

### What is hard here

Time and counters are sampled *before* `lock().await` in the disk and network
blocks, and time before and ticks after it for processes; three cells are
updated one after the other by overlapping calls; reads may fail silently and
count as zero; pids are reused; lines of `/proc/stat` are paired by position;
tabs are rendered only while they are active, and sparklines only while they
have a width. `PROJECT.json` lists each hazard
at its line with the properties that watch it.

## 2. Modules and what they correspond to

| Module | Models | Notes |
|---|---|---|
| `TokioMutex` | `tokio::sync::Mutex` (external) | a lock is the queue of its holder and waiters |
| `Rates` | `compute_disk_stats`, `compute_net_stats`, the snapshots | a rate is the pair (difference of counters, difference of Instants); the division, the sector size and rounding are left out |
| `SnapshotExchange` | what the rate block promises | abstract: offer a snapshot, swap it atomically against the stored one, deliver the rate between the two |
| `RateMetric` | the disk block of `get_stats`; the network block has the same text | one action for each step another call may come between: `SampleNow`, `ReadCounters`/`ReadFails`, `AskForLock`, `Compute`, `Store`, `Release`. The machine: `ClockTicks`, `CounterGrows`, `CounterDrops` |
| `Listings` | `compute_cpu_percent`, the comparison and the top rows of `build_process_list` | a percentage is kept as its ticks; the elapsed time is the same for all rows |
| `ListingExchange` | what `read_processes` promises | abstract: begin with an Instant, swap a whole table atomically for the stored one and answer the top of the comparison, deliver |
| `ProcessTable` | `read_processes`, `build_process_list` | `SampleNow` before `AskForLock`; `ListProc`, then `ReadStat`/`SkipEntry` for one entry at a time, `FinishScan` or `ListFails`. An entry may be skipped whether its process is gone or lives (no file descriptor left, a name that is not UTF-8). User names are left out. The machine: CPU use, `Exits`, `Starts` with reused pids |
| `CpuSampler` | `read_cpu_stats` | `ReadBefore`, `ReadAfter`, the pairing of lines by position (line n is `NthCpu(n)`, the n-th online one); the machine accounts ticks, plugs CPUs in and out, takes iowait back |
| `GetStats` | the whole command over the three locks | a stay in a cell is one step, which `ImplementsExchange` of `RateMetric` and `ProcessTable` justifies; of a snapshot only its owner is kept |
| `Readings` | what the commands read from sysfs without a lock: `read_gpu_stats`, `read_gpu_static`, `read_battery_stats` | one action for each file: `Probe`, `FindHwmon`, `ReadValue`/`FallBack` along `Plan` (the figures in the order of the code, each with its fall-backs), `ReadDriver`, `FindBattery`, `ReadCapacity`, `ReadStatus`. A value is the id of the device it was read from. The searches stop at `LastCard` and `LastHwmon`, whatever the machine has. `FindBattery` looks at all names in one step. The machine: cards and batteries come and go, another card takes a number, the VRAM use changes |
| `TextLines` | the loop bodies and results of the readers of `/proc/cpuinfo`, `/etc/os-release`, `/proc/meminfo`, `/etc/passwd`, `/proc/<pid>/status` and `pci.ids` | functions from the locals and a line to the next locals, and for each the reference definition over the lines read (`CpuinfoIsRead`, `MapIsRead`, ...) |
| `LineReaders` | the loops themselves, and those over `/proc/diskstats`, `/proc/net/dev` and `/proc/mounts` | one action for a line; transfers, unmounts and `statvfs` happen between the lines. `Physical` is what a counter is to count, `Ordinary` the files it is stated for: whole disks of minor number 0, and interfaces after two header lines |
| `Dashboard` | `dashboard.html` | an action is one turn of the event loop: `TimerFires`, `StaticInfoArrives`, `UpdateContinues`, `ClickTab`, `FrameFires`, `ClickMetric`, `ChangeQuery`. `DrawSparklines` leaves those of hidden tabs as they were; of each tab's it is kept whether they show the present rings (`drawn`) |
| `GpuPage` | `openGpuDetails` of `dashboard.html`, and `gpu.html` | `Click`, `LookUp`, `Focus`, `OpenWindow`, `CloseWindow`; `TimerFires`, `ReadCard`, `UpdateContinues` of the page in it. An answer is the card it is about. Names that `Dashboard` has too begin with `Gpu`: the proofs extend both |
| `*MC` | values for TLC | `RateMetricMC`, `ProcessTableMC`, `ReadingsMC`, `LineReadersMC` |
| `*Proofs`, `SharedLemmas` | theorems and lemmas | section 5 |

The models meet at their abstractions: `RateMetric` and `ProcessTable` show that
a stay in a cell is an atomic exchange of snapshots, and `GetStats` takes it as one step;
`Readings` shows that one answer is about one card, and `GpuPage` takes an
answer as one card; `GetStats` shows that every call is answered, and `GpuPage`
assumes it of its calls; `LineReaders` shows what a reading of a counter file is
worth, and `RateMetric` takes it as one counter value.

Variables that the code has keep its names (`prev`, `curr`, `now`, `liveData`,
`activeTab`...). Variables marked *history* are not in the code and no guard
reads them. Operators commented *Variant* are deliberately wrong forms of the
definition that follows them; nothing refers to them. Substituted for that
definition, each one makes a property fail, which shows that the property
depends on it.

## 3. Runs

| Run | Question | Bounds |
|---|---|---|
| `RateMetric` | Does the lock protect the snapshot, do all answers add up, what can set the snapshot back, is the block an atomic exchange? | 2 calls, 1 counter, clock and counter to 2, 1 fault; 721 k states |
| `RateMetricFirst` | *Violated*: is the first answer zero? | as above, no fault |
| `RateMetricPrevious` | *Violated*: is the stored snapshot older than the one it is compared with? | as above, no fault |
| `ProcessTable` | Is CPU time shown twice or lost, is each row exact, how far can it exceed one core, is the lock given back, is a listing an atomic exchange? | 2 calls, 2 pids, list limit 1, clock to 2, 1 start, 1 failed listing, any entries skipped; 1.0 M states |
| `ProcessTableCore` | *Violated*: does a thread stay within 100 %? | 2 calls, 1 pid, clock to 3 |
| `CpuSampler` | Are the loads shares, do the cores add up, whose load is a core's? | 3 CPUs, 2 ticks, 1 hotplug, 1 correction, 1 failure; 3.5 M states |
| `GetStats` | Hold-and-wait, queues whose head can go on, figures that fit together, an answer for every call | 2 calls, each any number of times; 18 k states |
| `Readings` | Is an answer about one card, all of it, the right one; does VRAM fit; is the battery one battery? | 3 card numbers of which 2 are tried, 3 hwmon numbers of which 1 is, discrete card, APU and another vendor's card, 3 batteries, 2 changes anywhere; 4.0 M states |
| `LineReaders` | Does each loop compute what it is to from any file; are counters whole, disks listed once? | all text files of up to 3 lines (4 of `pci.ids`), 2 layouts of disks and 2 of interfaces with 3 transfers, 3 mount tables; 162 k states |
| `LineReadersDisks` | *Violated*: is every disk counted? | two disks of one driver with a partition each, 2 transfers |
| `Dashboard` | Rings in step, visible tab fresh, the details catch up | 5 tabs, 2 slots, 2 levels, 2 updates in flight, 2 frames; 558 k states |
| `GpuPage` | Does a click leave a window, whose name and figures does the page show, do they catch up? | 2 card numbers, 2 changes, 3 clicks and 3 updates under way; 70 k states |

Why the bounds are enough. One counter suffices for the rates because no step
of the block relates two; two calls are the least that overtake each other, and
a call may start again after it ends, so a third is had in sequence. A clock and
a counter to 2 give a zero, a normal and a double difference. A list limit of 1
with two pids makes `truncate` drop a row. Two ring slots make a ring slide and
a GPU figure repeat. Two changes let a card leave and another one take its
number within one reading. Three CPUs are the least with which a position changes its
CPU and exists in both readings: CPU 0 stays, and the second position passes
between CPU 1 and CPU 2. The code's limits of ten cards and ten hwmon numbers
are `LastCard` and `LastHwmon`; what matters is that there is something past
them. Three lines give a repeated key with a line in
between; four lines of `pci.ids` give a vendor, a device, a subsystem and a
later vendor. What the theorems of section 5 state does not depend on these
bounds. No configuration disables the deadlock check.

What the violated runs show:

* `RateMetricFirst`: the default snapshot has zero counters, so the first
  answer divides everything since boot by the seconds since the start. The
  migration plan (line 138) promises zeros.
* `RateMetricPrevious`: of two overlapping calls, the one that sampled first
  may store last. It reports zeros and sets the snapshot back, and the next
  answer reports the same bytes again. `Accounting` and
  `RewindNeedsOvertaking` say exactly how much, and that nothing else does it.
* `ProcessTableCore`: the time of a listing ends when it asks for the lock, its
  ticks are read when it has it; after a wait a row can exceed 100 %, and
  `OverCoreOnlyByDelay` says by how much: by no more than the time since the
  call took its Instant.
* `LineReadersDisks`: whole disks are told from partitions by minor number 0
  (`disk.rs:75`), which the second disk of a major number does not have; its
  transfers are in no answer, while the comment at line 46 says that all
  physical devices are summed.

Some properties are stated with the cases in which the code makes no promise.
Those cases happen in the runs, and the properties do not speak of them:

* figures of an answer fit together *unless calls overlap*
  (`AnswersFitTogether`): the mixture does not outlast one call that is alone;
* a row is exact *if the listing before read the process* (`RowsAreExact`); if it
  passed the process over, the row is zero, and what was used until then is shown
  nowhere;
* the visible tab is up to date, but its sparklines *only once an answer has come
  since it was opened* (`VisibleTabIsFresh`): a click draws none, and those of a
  hidden tab are not drawn while it is hidden, so Overview, Network and the
  sidebar of Performance first show rings of a while ago, or nothing, though the
  comment at `dashboard.html:948` says that a data tab is rendered at once;
* an answer has figures of one card, and VRAM fits, *unless another card takes
  its number* (`OneCardPerReading`, `VramFits`); the driver version is always
  that of card0, which the first of these leaves out unless card0 is the card found;
* the first card is found and complete *among the numbers tried*
  (`SteadyCardIsFound`, `SteadyCardIsComplete`): a card past the tenth is passed
  over, one whose hwmon number is past the tenth has no sensors;
* the battery shown is one battery *while none comes or goes*
  (`SteadyBatteryIsShown`);
* a core's load is of one CPU *unless one was plugged below it*
  (`CoreLoadsAreOfOneCpu`), and the cores add up *unless one was plugged or
  iowait taken back* (`CoresAddUp`); `AggregateIsShare` covers both cases;
* the GPU page names the card of its figures *as long as no card has come or
  gone* (`NamesItsFigures`); after that it keeps the old name above figures that
  do catch up (`FiguresCatchUp`);
* a disk is missing only if *`statvfs` failed on the first of its mounts*
  (`DisksAreListedOnce`).

## 4. Fairness

`GetStats` assumes weak fairness of each call's next step once it is started:
tokio polls every runnable task again, the queue hands the lock on by itself,
and the 100 ms sleep ends. A call at the head of a queue is woken once and stays
runnable, so weak fairness is enough; nothing makes a window call. `Dashboard`
assumes that a requested animation frame runs; neither the timer nor the backend
is assumed to do anything. `GpuPage` assumes that the timer of an open page
fires, that `get_stats` reads the card for its callers (`EveryCallAnswered`) and
that an answer reaches its update at the latest when it is the oldest; no user
and no card is assumed to do anything. The other modules state safety only.

## 5. Proofs

Every theorem holds for all values of the constants, from the named assumptions
of the module it is about: the bounds are naturals, and beyond that

* `DashboardAssumption`: a ring has at least one slot, there is a level above
  0, and an update and a frame may be under way.
* `CpuAssumption`: there is at least one CPU.
* `BootAssumption` (`GetStats`): the owner of the initial snapshots is no call.
* `ReadingsAssumption`: any last card and hwmon number tried; the other vendor's kind is no AMD kind; a kind of card
  without `mem_info_vram_total` has no `mem_info_vram_used` either, which the
  driver creates together.
* `LineReadersAssumption`: lines are sequences, the device and vendor looked up
  are not empty, the value of a named meminfo line is a number, and a line of the
  mount table names its device (`split_whitespace` gives no empty field). A
  behaviour over a counter file starts at boot, with zeros; the files are those
  the loops read.

| Module | Theorem | Property |
|---|---|---|
| `RateMetricProofs` | `TypeCorrect`, `LockCorrect`, `AccountingHolds` | `TypeOK`, `LockDiscipline`, `Accounting` |
| | `OnlyOvertakenRewinds` | `RewindNeedsOvertaking` |
| | `ExchangeImplemented` | `ImplementsExchange` (refinement) |
| `ProcessTableProofs` | `TypeCorrect`, `LockCorrect` | `TypeOK`, `LockDiscipline` |
| | `NothingCreditedTwice`, `RowsExact` | `NeverOvercredited`, `RowsAreExact` |
| | `WithinOneCoreAndDelay` | `OverCoreOnlyByDelay` |
| | `ExchangeImplemented` | `ImplementsExchange` (refinement) |
| `GetStatsProofs` | `TypeCorrect`, `OneCell`, `HeadMoves`, `AnswersFit` | `TypeOK`, `OneCellAtATime`, `HeadCanMove`, `AnswersFitTogether` |
| `CpuSamplerProofs` | `TypeCorrect`, `AggregateShare` | `TypeOK`, `AggregateIsShare` |
| | `CoresSum`, `CoreOfOneCpu` | `CoresAddUp`, `CoreLoadsAreOfOneCpu` |
| `PagesProofs` | `TypeCorrect`, `RingsInStep`, `VisibleIsFresh` | `TypeOK`, `RingsFollowAnswers`, `VisibleTabIsFresh` of `Dashboard` |
| | `GpuTypeCorrect`, `NamedFigures`, `ClickOpens` | `GpuTypeOK`, `NamesItsFigures`, `ClickLeavesWindow` of `GpuPage` |
| `LineReadersProofs` | `TypeCorrect`, `LinesUnderstood` | `TypeOK`, `LinesAreUnderstood` |
| | `CountersWhole`, `ListedOnce` | `CountersAreWhole`, `DisksAreListedOnce` |
| `ReadingsProofs` | `TypeCorrect`, `OneCard`, `SteadyFound` | `TypeOK`, `OneCardPerReading`, `SteadyCardIsFound` |
| | `SteadyComplete`, `VramAlwaysFits` | `SteadyCardIsComplete`, `VramFits` |
| | `SteadyBattery` | `SteadyBatteryIsShown` |

So every invariant and every action property that a passing run checks is a
theorem, and so are both refinements.

`SharedLemmas` holds what several of these modules need:

* *Induction.* The library states induction over numbers and finite sets for a
  predicate, which the provers cannot instantiate. `LeastNumber` and
  `SmallestSet` state it for sets instead: a non-empty set of naturals, or of
  finite sets, has a least member. They follow from the well-foundedness
  theorems of the library, and an induction is the argument that the set of
  counterexamples has no least member.
* *Sums.* `SumFunctionOnSet` is a fold. Its value does not depend on the order
  (`SumsUnique`), which gives `SumWithout` and `SumWith`, one element taken out or
  put in, and from those the sum of sums, of bounds, and of a value that grew.
* *The queue of a lock*: a queue that has nobody twice keeps that when a call
  asks or gives back, and only its head can be past the wait.

The inductive invariants, and why each is needed:

* **`RateMetric`.** `LockDiscipline` is inductive together with `TypeOK`: that a
  critical call is the head of the queue needs that the queue holds nobody
  twice. `Accounting` is not: its step is `Store`, which replaces the snapshot
  by one that was compared with it some steps before, and nothing in
  `Accounting` says that the snapshot is still the same. `ComputedIsCurrent`
  says so, and it holds because only the holder of the lock stores.
  `CellIsBehind` is what the action property needs: a call that nobody has
  stored ahead of is not behind the cell, as long as no fault happens. The
  refinement maps `AskForLock` and `Compute` to stuttering, reading to `Offer`,
  `Store` to `Swap` and `Release` to `Deliver`.
* **`ProcessTable`.** That no process is credited more than it used follows from
  what has been credited lying below the ticks that the next listing compares
  with: those the scan under way has read, or else the stored ones
  (`CreditedCovered`). That these are the ticks at which the last listing read
  a process, so that rows are exact, is `LastReadKept`; that a process it passed
  over has none there, so that its row is zero, is `MissedForgotten`. `SeenInStep` keeps apart what a scan has read and what it has
  left; `TicksWithinClock` keeps the ticks within their type. How far a row can
  exceed one core needs `RunsWithTheClock`: no process, not even one that has
  taken a pid over, has run longer since a table was dated than the clock has;
  this holds because a call takes its Instant before it reads any ticks. The
  refinement maps a call to its Instant until it ends, and both ends of a listing
  to `Swap`; `RowsCompared` says that the rows made one by one are the comparison
  of the whole table read so far.
* **`CpuSampler`.** A CPU's time is between 0 and the ticks so far
  (`MachineInv`); while the call sleeps its lines are those of the machine at the
  first reading, or none, and since then each time only grew unless iowait was
  taken back, and the same CPUs are online unless one was plugged (`Later`). The
  properties are facts about two such readings, whatever the number of CPUs: the
  lines of a reading are the times of its `NthCpu`s, each CPU once, so summing
  over lines is summing over CPUs.
* **`GetStats`.** The three queues are exactly the calls at their stage
  (`QueuesMatch`). `AnswersFitTogether` needs to know what the cells hold before
  any call (`AtFirst`), during a call that is alone (`AloneOwns`) and after an
  undisturbed one (`UndisturbedFits`).
* **`Dashboard`.** `RingsFollowAnswers` alone is not inductive, since a GPU
  ring repeats the last figure when an answer has none: `GpuIsLast` ties that
  figure to the last slot. `VisibleTabIsFresh` is carried along with it, the
  visible detail being drawn from the rings; of the sparklines, an answer draws
  those of the active tab, and only a click on another tab makes that tab a
  different one, which is then just `opened`.
* **`GpuPage`.** `NoWindowNoPage` (a closed window leaves nothing of its page),
  `PageOfTheCard` (all answers on their way are of the present card as long as
  none changed), `Paired`, and `ClickPending`: a wanted window is there or a
  click that will bring it is under way.
* **`LineReaders`.** While a text file is read it stays the same, and the locals
  satisfy the loop invariant of the lines read so far. A lemma for each loop
  shows it for the first line and from one line to the next; so the theorem
  holds for files of any length. `MountsInv` does the same for the mount table:
  each row is right, and each line gone by is listed or has a reason not to be;
  both last because mounts only go while the loop runs. For the counters,
  `CountInv` compares sums over lines at different moments: what the loop has
  added, plus what the lines not read yet stand at now, is at least the sum of
  all when the file was opened and at most the sum of all now. A transfer on a line
  already read raises only the last of the three, one on a line to come the last
  two, and a line read moves its value within the middle one.
* **`Readings`.** `SearchInv`: no card that has stayed is below the number being
  probed, nor, once the search has ended, one of a number tried below the card found. `SameCard`: each figure is of the card at the number found, unless
  another one took it. `CompleteInv`: of a card that stays, the figures before the
  one being read are right, those after it are still empty, and no file of this
  one tried so far is there. `VramInv`: when the use is read from a card that
  has a total, the total has been read. `BatteryInv`: the battery looked at is the first.
  Lemmas about `Plan` establish once that its lines have files and names, each
  name once.

Only model-checked: liveness (`EveryCallAnswered`, `DetailsCatchUp`,
`FiguresCatchUp`), because fairness and ENABLED are out of the prover's reach.
`HeadMoves` and `OneCell` prove the safety half of the first, that a call waits for
the calls ahead of it in one queue only and that the first of them can always go
on; `VisibleIsFresh` that of the second. The statements of section 3 that the
code does not keep are refuted by their runs; the theorems say what holds in
their place.

## 6. Not modelled

* How a line of a file becomes its record: splitting, trimming and parsing of
  `/proc` and sysfs text, the stat line and command line of a process, its
  user's name, its resident size, the `pp_dpm` tables; unit conversions.
* The floating-point division and rounding of rates and percentages, and
  wrap-around of u64 counters, which no machine reaches.
* Kernel version and host name: single values without control.
* How a chart is drawn, number formatting and DOM layout, and what `dashboard.html` makes up
  for the heap and for a browser without backend.
* `server.js`: it keeps no state and computes no rate itself, and
  `dashboard.html` only knows `window.__TAURI__`; opened in a browser every
  call fails, the branch `NoData` of `Dashboard`.
* `presentation.html`, packaging, scripts, the application's entry point.

Hazards that no property covers, because neither code nor documents say what is
to be: traffic of a bridge or bond counted again for the card beneath it
(`network.rs:69`); user names that change while the application runs
(`processes.rs:213`); the driver version of card0 (`static_info.rs:198`); a
battery taken out before its capacity is read (`battery.rs:55`); core ids that repeat across packages (`static_info.rs:115`);
a row whose ticks, command line and user are read from three files of a pid
that changes hands meanwhile (`processes.rs:197`); answers of the dashboard that
arrive out of order, and updates that pile up without limit
(`dashboard.html:1292`); the label for the hardware threads that swap overwrites
(`dashboard.html:1203`).

## 7. What is left

1. `GetStats` and `Dashboard` composed, with dated samples: the page goes back
   in time only if updates overlapped.
2. `ProcessTable` with the name and user of a row, once it is settled what a row
   promises when its pid changes hands between the files.
