---------------------------- MODULE ReadingsProofs ----------------------------
(***************************************************************************)
(* Proofs about Readings, for any number of cards, any kinds of them and   *)
(* any number of changes of the machine.                                   *)
(***************************************************************************)
EXTENDS Readings, SequenceTheorems, TLAPS

-------------------------------------------------------------------------------
(* The plan: 26 figures, each with a file at least, and only the second and    *)
(* third of them about VRAM, the total first.                                  *)

WellFormed(line) ==
    Len(line.files) \in Nat /\ DOMAIN line.files = 1 .. Len(line.files) /\ Len(line.files) >= 1

NotVram(line) == WellFormed(line) /\ line.figure \notin {"memory_total_mb", "memory_used_mb"}

LEMMA OneFile ==
    ASSUME NEW n, NEW x
    PROVE  WellFormed(Line(n, <<x>>)) /\ Line(n, <<x>>).figure = n
BY DEF WellFormed, Line

LEMMA TwoFiles ==
    ASSUME NEW n, NEW x, NEW y
    PROVE  WellFormed(Line(n, <<x, y>>)) /\ Line(n, <<x, y>>).figure = n
BY DEF WellFormed, Line

LEMMA ThreeFiles ==
    ASSUME NEW n, NEW x, NEW y, NEW z
    PROVE  WellFormed(Line(n, <<x, y, z>>)) /\ Line(n, <<x, y, z>>).figure = n
BY DEF WellFormed, Line

LEMMA SensorsLines ==
    /\ Len(Sensors) = 19 /\ Sensors \in Seq({Sensors[i] : i \in 1 .. 19})
    /\ \A i \in 1 .. 19 : NotVram(Sensors[i])
<1>1. Len(Sensors) = 19 /\ Sensors \in Seq({Sensors[i] : i \in 1 .. 19})
  BY DEF Sensors
<1>2. \A i \in 1 .. 19 : NotVram(Sensors[i])
  BY OneFile, TwoFiles DEF NotVram, Sensors
<1> QED
  BY <1>1, <1>2

LEMMA FourLines ==
    ASSUME NEW a, NEW b, NEW c, NEW d
    PROVE  <<a, b, c, d>> \in Seq({a, b, c, d})
OBVIOUS

LEMMA IdentityLines ==
    /\ Len(Identity) = 4 /\ Identity \in Seq({Identity[i] : i \in 1 .. 4})
    /\ \A i \in 1 .. 4 : NotVram(Identity[i])
<1>1. Len(Identity) = 4
  BY DEF Identity
<1>2. Identity \in Seq({Identity[i] : i \in 1 .. 4})
  <2>1. Identity = <<Identity[1], Identity[2], Identity[3], Identity[4]>>
    BY DEF Identity
  <2>2. <<Identity[1], Identity[2], Identity[3], Identity[4]>>
          \in Seq({Identity[1], Identity[2], Identity[3], Identity[4]})
    BY FourLines
  <2>3. {Identity[i] : i \in 1 .. 4} = {Identity[1], Identity[2], Identity[3], Identity[4]}
    OBVIOUS
  <2> QED
    BY <2>1, <2>2, <2>3
<1>3. NotVram(Identity[1])
  BY OneFile DEF NotVram, Identity
<1>4. NotVram(Identity[2])
  BY TwoFiles DEF NotVram, Identity
<1>5. NotVram(Identity[3])
  BY OneFile DEF NotVram, Identity
<1>6. NotVram(Identity[4])
  <2> DEFINE line == Line("name", <<Dev("product_name"), Dev("model"), Dev("device in pci.ids")>>)
  <2>1. WellFormed(line) /\ line.figure = "name"
    BY ThreeFiles
  <2>2. Identity[4] = line
    BY DEF Identity
  <2> HIDE DEF line
  <2> QED
    BY <2>1, <2>2 DEF NotVram
<1> QED
  BY <1>1, <1>2, <1>3, <1>4, <1>5, <1>6

Heads == <<Busy, VramTotal, VramUsed>>

LEMMA HeadsLines ==
    /\ Len(Heads) = 3 /\ Heads[1] = Busy /\ Heads[2] = VramTotal /\ Heads[3] = VramUsed
    /\ Heads \in Seq({Busy, VramTotal, VramUsed})
    /\ WellFormed(Busy) /\ WellFormed(VramTotal) /\ WellFormed(VramUsed)
    /\ Busy.figure = "utilization_gpu" /\ VramTotal.figure = "memory_total_mb"
    /\ VramUsed.figure = "memory_used_mb"
<1>1. /\ Len(Heads) = 3 /\ Heads[1] = Busy /\ Heads[2] = VramTotal /\ Heads[3] = VramUsed
      /\ Heads \in Seq({Busy, VramTotal, VramUsed})
  BY DEF Heads
<1>2. WellFormed(Busy) /\ Busy.figure = "utilization_gpu"
  BY OneFile DEF Busy
<1>3. WellFormed(VramTotal) /\ VramTotal.figure = "memory_total_mb"
  BY OneFile DEF VramTotal
<1>4. WellFormed(VramUsed) /\ VramUsed.figure = "memory_used_mb"
  BY OneFile DEF VramUsed
<1> QED
  BY <1>1, <1>2, <1>3, <1>4

(* The three parts of the plan one after the other. *)
InParts(p, S, h, m, e) ==
    /\ p \in Seq(S) /\ Len(p) = 26
    /\ \A i \in 1 .. 3 : p[i] = h[i]
    /\ \A i \in 4 .. 22 : p[i] = m[i - 3]
    /\ \A i \in 23 .. 26 : p[i] = e[i - 22]

LEMMA ThreeParts ==
    ASSUME NEW S, NEW h \in Seq(S), NEW m \in Seq(S), NEW e \in Seq(S),
           Len(h) = 3, Len(m) = 19, Len(e) = 4
    PROVE  InParts(h \o m \o e, S, h, m, e)
<1> DEFINE g == h \o m
           p == g \o e
<1>1. /\ g \in Seq(S) /\ Len(g) = Len(h) + Len(m)
      /\ \A i \in 1 .. Len(h) + Len(m) : g[i] = IF i <= Len(h) THEN h[i] ELSE m[i - Len(h)]
  BY ConcatProperties, Zenon
<1> HIDE DEF g
<1>2. /\ p \in Seq(S) /\ Len(p) = Len(g) + Len(e)
      /\ \A i \in 1 .. Len(g) + Len(e) : p[i] = IF i <= Len(g) THEN g[i] ELSE e[i - Len(g)]
  <2>1. g \in Seq(S)
    BY <1>1
  <2> QED
    BY <2>1, ConcatProperties, Zenon
<1> HIDE DEF p
<1>3. Len(g) = 22
  BY <1>1
<1>4. Len(p) = 26
  BY <1>2, <1>3
<1>5. ASSUME NEW i \in 1 .. 3 PROVE p[i] = h[i]
  <2>1. i \in 1 .. Len(h) + Len(m) /\ i <= Len(h)
    OBVIOUS
  <2>2. i \in 1 .. Len(g) + Len(e) /\ i <= Len(g)
    BY <1>3
  <2>3. p[i] = g[i] /\ g[i] = h[i]
    BY <1>1, <1>2, <2>1, <2>2, Zenon
  <2> QED
    BY <2>3
<1>6. ASSUME NEW i \in 4 .. 22 PROVE p[i] = m[i - 3]
  <2>1. i \in 1 .. Len(h) + Len(m) /\ ~ (i <= Len(h)) /\ i - Len(h) = i - 3
    OBVIOUS
  <2>2. i \in 1 .. Len(g) + Len(e) /\ i <= Len(g)
    BY <1>3
  <2>3. p[i] = g[i] /\ g[i] = m[i - Len(h)]
    BY <1>1, <1>2, <2>1, <2>2, Zenon
  <2> QED
    BY <2>1, <2>3, Zenon
<1>7. ASSUME NEW i \in 23 .. 26 PROVE p[i] = e[i - 22]
  <2>1. i \in 1 .. Len(g) + Len(e) /\ ~ (i <= Len(g)) /\ i - Len(g) = i - 22
    BY <1>3
  <2>2. p[i] = e[i - Len(g)]
    BY <1>2, <2>1, Zenon
  <2> QED
    BY <2>1, <2>2, Zenon
<1> QED
  <2>1. InParts(p, S, h, m, e)
    BY <1>2, <1>4, <1>5, <1>6, <1>7 DEF InParts
  <2> QED
    BY <2>1 DEF p, g

LEMMA PlanParts ==
    /\ Len(Plan) = 26 /\ DOMAIN Plan = 1 .. 26
    /\ \A i \in 1 .. 3 : Plan[i] = Heads[i]
    /\ \A i \in 4 .. 22 : Plan[i] = Sensors[i - 3]
    /\ \A i \in 23 .. 26 : Plan[i] = Identity[i - 22]
<1> DEFINE S == {Busy, VramTotal, VramUsed} \cup {Sensors[i] : i \in 1 .. 19}
                  \cup {Identity[i] : i \in 1 .. 4}
<1>1. Heads \in Seq(S) /\ Sensors \in Seq(S) /\ Identity \in Seq(S)
  <2> DEFINE A == {Busy, VramTotal, VramUsed}
             B == {Sensors[i] : i \in 1 .. 19}
             C == {Identity[i] : i \in 1 .. 4}
  <2>1. Heads \in Seq(A) /\ Sensors \in Seq(B) /\ Identity \in Seq(C)
    BY HeadsLines, SensorsLines, IdentityLines
  <2>2. A \subseteq S /\ B \subseteq S /\ C \subseteq S
    OBVIOUS
  <2> HIDE DEF A, B, C, S
  <2> QED
    BY <2>1, <2>2
<1>2. Plan = Heads \o Sensors \o Identity
  BY DEF Plan, Heads
<1> HIDE DEF S
<1>3. Len(Heads) = 3 /\ Len(Sensors) = 19 /\ Len(Identity) = 4
  BY HeadsLines, SensorsLines, IdentityLines
<1>4. /\ Plan \in Seq(S) /\ Len(Plan) = 26
      /\ \A i \in 1 .. 3 : Plan[i] = Heads[i]
      /\ \A i \in 4 .. 22 : Plan[i] = Sensors[i - 3]
      /\ \A i \in 23 .. 26 : Plan[i] = Identity[i - 22]
  <2>1. InParts(Heads \o Sensors \o Identity, S, Heads, Sensors, Identity)
    BY <1>1, <1>3, ThreeParts, Zenon
  <2>2. InParts(Plan, S, Heads, Sensors, Identity)
    BY <1>2, <2>1, Zenon
  <2> QED
    BY <2>2, Zenon DEF InParts
<1> QED
  BY <1>4

LEMMA PlanLines ==
    /\ Len(Plan) = 26 /\ DOMAIN Plan = 1 .. 26
    /\ \A i \in 1 .. 26 : WellFormed(Plan[i])
    /\ Plan[2] = VramTotal
    /\ \A i \in 1 .. 26 : Plan[i] = VramTotal => i = 2
    /\ \A i \in 1 .. 26 : Plan[i] = VramUsed => i = 3
<1>4. /\ Len(Plan) = 26 /\ DOMAIN Plan = 1 .. 26
      /\ \A i \in 1 .. 3 : Plan[i] = Heads[i]
      /\ \A i \in 4 .. 22 : Plan[i] = Sensors[i - 3]
      /\ \A i \in 23 .. 26 : Plan[i] = Identity[i - 22]
  BY PlanParts
<1>6. /\ Plan[1] = Busy /\ Plan[2] = VramTotal /\ Plan[3] = VramUsed
      /\ \A i \in 4 .. 26 : NotVram(Plan[i])
  <2>1. \A i \in 4 .. 22 : i - 3 \in 1 .. 19
    OBVIOUS
  <2>2. \A i \in 23 .. 26 : i - 22 \in 1 .. 4
    OBVIOUS
  <2>3. \A i \in 4 .. 22 : NotVram(Plan[i])
    BY <1>4, <2>1, SensorsLines
  <2>4. \A i \in 23 .. 26 : NotVram(Plan[i])
    BY <1>4, <2>2, IdentityLines
  <2> QED
    BY <1>4, <2>3, <2>4, HeadsLines
<1>7. \A i \in 1 .. 26 : i = 1 \/ i = 2 \/ i = 3 \/ i \in 4 .. 26
  OBVIOUS
<1>8. \A i \in 1 .. 26 : WellFormed(Plan[i])
  BY <1>6, <1>7, HeadsLines DEF NotVram
<1>9. \A i \in 1 .. 26 : (Plan[i] = VramTotal => i = 2) /\ (Plan[i] = VramUsed => i = 3)
  <2>1. Busy # VramTotal /\ Busy # VramUsed /\ VramTotal # VramUsed
    BY HeadsLines
  <2>2. \A i \in 4 .. 26 : Plan[i] # VramTotal /\ Plan[i] # VramUsed
    BY <1>6, HeadsLines DEF NotVram
  <2> QED
    BY <1>6, <1>7, <2>1, <2>2
<1> QED
  BY <1>4, <1>6, <1>8, <1>9

(* No two lines of the plan are about the same figure. *)
LEMMA SensorNames ==
    /\ \A i, j \in 1 .. 19 : Sensors[i].figure = Sensors[j].figure => i = j
    /\ \A i \in 1 .. 19 :
          Sensors[i].figure \notin {"utilization_gpu", "memory_total_mb", "memory_used_mb", "pci_slot",
                                   "pci_device_id", "unique_id", "name", "driver_version"}
<1>1. \A i, j \in 1 .. 19 : Sensors[i].figure = Sensors[j].figure => i = j
  BY OneFile, TwoFiles DEF Sensors
<1>2. \A i \in 1 .. 19 :
          Sensors[i].figure \notin {"utilization_gpu", "memory_total_mb", "memory_used_mb", "pci_slot",
                                   "pci_device_id", "unique_id", "name", "driver_version"}
  BY OneFile, TwoFiles DEF Sensors
<1> QED
  BY <1>1, <1>2

LEMMA IdentityNames ==
    /\ Identity[1].figure = "pci_slot" /\ Identity[2].figure = "pci_device_id"
    /\ Identity[3].figure = "unique_id" /\ Identity[4].figure = "name"
<1>1. Identity[1].figure = "pci_slot"
  BY OneFile DEF Identity
<1>2. Identity[2].figure = "pci_device_id"
  BY TwoFiles DEF Identity
<1>3. Identity[3].figure = "unique_id"
  BY OneFile DEF Identity
<1>4. Identity[4].figure = "name"
  <2> DEFINE line == Line("name", <<Dev("product_name"), Dev("model"), Dev("device in pci.ids")>>)
  <2>1. line.figure = "name"
    BY ThreeFiles
  <2>2. Identity[4] = line
    BY DEF Identity
  <2> HIDE DEF line
  <2> QED
    BY <2>1, <2>2
<1> QED
  BY <1>1, <1>2, <1>3, <1>4

LEMMA PlanNames ==
    /\ \A i, j \in 1 .. 26 : Plan[i].figure = Plan[j].figure => i = j
    /\ \A i \in 1 .. 26 : Plan[i].figure # "driver_version" /\ Plan[i].figure \in Figures
<1> DEFINE H == {"utilization_gpu", "memory_total_mb", "memory_used_mb"}
           E == {"pci_slot", "pci_device_id", "unique_id", "name"}
           fig(i) == Plan[i].figure
<1>1. /\ \A i, j \in 1 .. 3 : fig(i) = fig(j) => i = j
      /\ \A i \in 1 .. 3 : fig(i) \in H
  <2>1. fig(1) = "utilization_gpu" /\ fig(2) = "memory_total_mb" /\ fig(3) = "memory_used_mb"
    <3>1. Plan[1] = Busy /\ Plan[2] = VramTotal /\ Plan[3] = VramUsed
      BY PlanParts, HeadsLines
    <3> QED
      BY <3>1, HeadsLines
  <2> HIDE DEF fig
  <2> QED
    BY <2>1
<1>2. /\ \A i, j \in 23 .. 26 : fig(i) = fig(j) => i = j
      /\ \A i \in 23 .. 26 : fig(i) \in E
  <2>1. fig(23) = "pci_slot" /\ fig(24) = "pci_device_id" /\ fig(25) = "unique_id" /\ fig(26) = "name"
    BY PlanParts, IdentityNames
  <2> HIDE DEF fig
  <2> QED
    BY <2>1
<1>3. /\ \A i, j \in 4 .. 22 : fig(i) = fig(j) => i = j
      /\ \A i \in 4 .. 22 : fig(i) \notin H \cup E \cup {"driver_version"}
  <2>1. \A i \in 4 .. 22 : i - 3 \in 1 .. 19 /\ fig(i) = Sensors[i - 3].figure
    BY PlanParts
  <2> HIDE DEF fig
  <2>2. \A i \in 4 .. 22 : fig(i) \notin H \cup E \cup {"driver_version"}
    BY <2>1, SensorNames
  <2>3. ASSUME NEW i \in 4 .. 22, NEW j \in 4 .. 22, fig(i) = fig(j) PROVE i = j
    <3>1. i - 3 = j - 3
      BY <2>1, <2>3, SensorNames, Zenon
    <3> QED
      BY <3>1
  <2> QED
    BY <2>2, <2>3
<1>4. \A i \in 1 .. 26 : fig(i) \in Figures
  BY PlanParts DEF Figures
<1>5. \A i \in 1 .. 26 : i \in 1 .. 3 \/ i \in 4 .. 22 \/ i \in 23 .. 26
  OBVIOUS
<1>6. H \cap E = {} /\ "driver_version" \notin H \cup E
  OBVIOUS
<1> HIDE DEF fig, H, E
<1>7. \A i, j \in 1 .. 26 : fig(i) = fig(j) => i = j
  BY <1>1, <1>2, <1>3, <1>5, <1>6
<1>8. \A i \in 1 .. 26 : fig(i) # "driver_version"
  BY <1>1, <1>2, <1>3, <1>5, <1>6
<1> QED
  BY <1>4, <1>7, <1>8 DEF fig

-------------------------------------------------------------------------------
(* The invariant.  Types, with what the locals are before they are set; what   *)
(* the search for a card has ruled out; and what an answer under way has to do *)
(* with the card it is about, while no other card has taken its number.        *)

Devices == {Nothing} \cup
    [id : Ids \ {0}, lacks : Asic \cup {Foreign}, hwmon : Nat, used : 0 .. MaxVram]

Names == {"BAT0", "BAT1", "BATC"}

MachineInv ==
    /\ drm \in [CardNo -> Devices]
    /\ supply \in [Names -> Ids]
    /\ changes \in 0 .. MaxChanges

ProgressInv ==
    /\ call \in {"get_stats", "get_static_info", "get_battery"} /\ at \in Stages
    /\ probe \in Nat /\ card \in CardNo \cup {NoCard} /\ hwmon \in Nat
    /\ at \in {"find hwmon", "read", "driver"} => card \in CardNo
    /\ at \in {"idle", "find card"} => probe \in 0 .. LastCard /\ card = NoCard
    /\ at = "idle" => probe = 0
    /\ at \in {"capacity", "status"} => probe \in 1 .. 3
    /\ figure \in 1 .. 26 /\ source \in DOMAIN Plan[figure].files

AnswerInv ==
    /\ got \in [Figures -> Ids]
    /\ vram \in [total : {0, MaxVram}, used : 0 .. MaxVram]
    /\ bat \in [has : Ids, percent : Ids, status : Ids]
    /\ at \in {"idle", "find card", "find hwmon"} => got = NoFigures /\ vram = NoVram
    /\ card = NoCard => got = NoFigures /\ vram = NoVram
    /\ at \in {"idle", "find card", "find hwmon"} => figure = 1

HistoryInv == stayed \subseteq AmdCards /\ came \subseteq CardNo /\ steady \in BOOLEAN

TypesInv == MachineInv /\ ProgressInv /\ AnswerInv /\ HistoryInv

SearchInv ==
    /\ at = "find card" => \A n \in stayed : probe <= n
    /\ at \notin {"idle", "find card"} /\ call # "get_battery" =>
          \A n \in stayed : n <= LastCard => card <= n

SameCard ==
    card \notin came =>
        /\ \A f, g \in Genuine : got[f] = got[g]
        /\ card \in CardNo /\ drm[card] # Nothing => \A f \in Genuine : got[f] = drm[card].id

(* The figures before the one that is being read. *)
VramInv ==
    card \notin came =>
        /\ vram.used <= vram.total
        /\ at = "read" /\ figure = 3 /\ drm[card] # Nothing =>
              vram.total = MaxVram \/ "mem_info_vram_total" \in drm[card].lacks

BatteryInv ==
    /\ at \in {"find card", "find hwmon", "read", "driver"} => call # "get_battery"
    /\ at = "driver" => call # "get_stats"
    /\ at \notin {"capacity", "status", "answered"} => bat = NoBattery
    /\ at = "capacity" /\ steady =>
          /\ Found # {} /\ probe = First(Found)
          /\ bat = [NoBattery EXCEPT !.has = Here(probe)]
    /\ at = "status" /\ steady =>
          /\ Found # {} /\ probe = First(Found)
          /\ bat = [has |-> Here(probe), percent |-> Here(probe), status |-> 0]
    /\ SteadyBatteryIsShown

LEMMA Bounds ==
    /\ MaxCard \in Nat /\ MaxVram \in Nat /\ MaxChanges \in Nat
    /\ LastCard \in Nat /\ LastHwmon \in Nat
    /\ Foreign \notin Asic
    /\ CardNo = 0 .. MaxCard /\ NoCard = MaxCard + 1 /\ NoCard \notin CardNo
BY ReadingsAssumption DEF ReadingsAssumption, CardNo, NoCard

LEMMA Numbers ==
    /\ \A n \in CardNo : n \in Nat
    /\ \A n \in 0 .. LastCard : n \in Nat /\ (n < LastCard => n + 1 \in 0 .. LastCard)
    /\ \A n \in 1 .. 3 : n \in Nat
BY Bounds DEF CardNo

LEMMA ZeroIsLeast == \A n \in CardNo : 0 <= n
BY DEF CardNo

LEMMA NotTheLast == \A n \in 0 .. LastCard : n < LastCard => n # LastCard
BY Bounds

LEMMA TheNext ==
    \A n \in 0 .. LastCard, m \in CardNo :
        n <= m /\ n # m => n + 1 <= m /\ (n = LastCard => ~ (m <= LastCard))
BY Bounds DEF CardNo

LEMMA FilesInTurn ==
    \A i \in 1 .. 26 :
        /\ 1 \in DOMAIN Plan[i].files
        /\ \A k \in DOMAIN Plan[i].files : k < Len(Plan[i].files) => k + 1 \in DOMAIN Plan[i].files
<1> TAKE i \in 1 .. 26
<1> DEFINE n == Len(Plan[i].files)
<1>1. n \in Nat /\ DOMAIN Plan[i].files = 1 .. n /\ n >= 1
  BY PlanLines DEF WellFormed
<1> HIDE DEF n
<1>2. 1 \in 1 .. n /\ \A k \in 1 .. n : k < n => k + 1 \in 1 .. n
  BY <1>1
<1> QED
  BY <1>1, <1>2 DEF n

LEMMA InitTypes == Init => TypesInv
<1> SUFFICES ASSUME Init PROVE TypesInv
  OBVIOUS
<1> USE Bounds
<1>1. MachineInv
  <2>1. drm \in [CardNo -> Devices]
    <3>1. \A n \in CardNo : drm[n] = Nothing \/
             \E m \in CardNo, kind \in Asic \cup {Foreign} : drm[n] = Device(m + 1, kind, m + 1)
      BY DEF Init
    <3>2. \A m \in CardNo, kind \in Asic \cup {Foreign} : Device(m + 1, kind, m + 1) \in Devices
      BY DEF Devices, Device, Ids
    <3>3. \A n \in CardNo : drm[n] \in Devices
      BY <3>1, <3>2 DEF Devices
    <3> QED
      BY <3>3 DEF Init
  <2>2. supply \in [Names -> Ids]
    BY DEF Init, Names, Ids
  <2> QED
    BY <2>1, <2>2 DEF MachineInv, Init
<1>2. ProgressInv
  <2>1. 1 \in DOMAIN Plan[1].files
    BY FilesInTurn
  <2> QED
    BY <2>1 DEF Init, ProgressInv, Stages
<1>3. AnswerInv
  BY DEF Init, AnswerInv, NoFigures, NoVram, NoBattery, Ids
<1>4. HistoryInv
  BY DEF Init, HistoryInv
<1> QED
  BY <1>1, <1>2, <1>3, <1>4 DEF TypesInv

LEMMA NewIds ==
    ASSUME MachineInv, Changes
    PROVE  NewId \in Ids \ {0} /\ changes' \in 0 .. MaxChanges
BY Bounds DEF MachineInv, Changes, NewId, Ids

LEMMA Unmoved ==
    ASSUME TypesInv, UNCHANGED <<progress, answer>>
    PROVE  ProgressInv' /\ AnswerInv'
<1>1. /\ call' = call /\ at' = at /\ probe' = probe /\ card' = card /\ hwmon' = hwmon
      /\ figure' = figure /\ source' = source /\ got' = got /\ vram' = vram /\ bat' = bat
  BY DEF progress, answer
<1>2. ProgressInv /\ AnswerInv
  BY DEF TypesInv
<1> QED
  BY <1>1, <1>2 DEF ProgressInv, AnswerInv

LEMMA MachineTypes == ASSUME TypesInv, MachineStep PROVE TypesInv'
<1>1. MachineInv /\ HistoryInv
  BY DEF TypesInv
<1>2. ASSUME NEW n \in CardNo, CardLeaves(n) PROVE MachineInv' /\ HistoryInv'
  <2>1. /\ drm' = [drm EXCEPT ![n] = Nothing] /\ stayed' = stayed \ {n}
        /\ supply' = supply /\ came' = came /\ steady' = steady
    BY <1>2 DEF CardLeaves
  <2>2. drm' \in [CardNo -> Devices]
    BY <1>1, <2>1 DEF MachineInv, Devices
  <2>3. changes' \in 0 .. MaxChanges
    BY <1>1, <1>2, NewIds DEF CardLeaves
  <2>4. stayed' \subseteq AmdCards'
    BY <1>1, <2>1 DEF MachineInv, HistoryInv, AmdCards, IsAmd
  <2> QED
    BY <1>1, <2>1, <2>2, <2>3, <2>4 DEF MachineInv, HistoryInv
<1>3. ASSUME NEW n \in CardNo, NEW kind \in Asic \cup {Foreign}, NEW h \in 0 .. LastHwmon,
             CardComes(n, kind, h)
      PROVE  MachineInv' /\ HistoryInv'
  <2>1. /\ drm[n] = Nothing /\ drm' = [drm EXCEPT ![n] = Device(NewId, kind, h)]
        /\ stayed' = stayed /\ supply' = supply /\ steady' = steady
        /\ came' = came \/ came' = came \cup {n}
    BY <1>3 DEF CardComes
  <2>2. NewId \in Ids \ {0} /\ changes' \in 0 .. MaxChanges
    BY <1>1, <1>3, NewIds DEF CardComes
  <2>3. Device(NewId, kind, h) \in Devices
    BY <2>2, Bounds DEF Devices, Device
  <2>4. drm' \in [CardNo -> Devices]
    BY <1>1, <2>1, <2>3 DEF MachineInv
  <2>5. stayed' \subseteq AmdCards'
    BY <1>1, <2>1 DEF MachineInv, HistoryInv, AmdCards, IsAmd
  <2> QED
    BY <1>1, <2>1, <2>2, <2>4, <2>5 DEF MachineInv, HistoryInv
<1>4. ASSUME NEW n \in CardNo, NEW used \in 0 .. MaxVram, VramUseChanges(n, used)
      PROVE  MachineInv' /\ HistoryInv'
  <2>1. /\ drm[n] # Nothing /\ drm' = [drm EXCEPT ![n].used = used]
        /\ stayed' = stayed /\ supply' = supply /\ steady' = steady /\ came' = came
    BY <1>4 DEF VramUseChanges, IsAmd, history
  <2>2. changes' \in 0 .. MaxChanges
    BY <1>1, <1>4, NewIds DEF VramUseChanges
  <2>3. drm[n] \in [id : Ids \ {0}, lacks : Asic \cup {Foreign}, hwmon : Nat, used : 0 .. MaxVram]
    BY <1>1, <2>1 DEF MachineInv, Devices
  <2>4. /\ [drm[n] EXCEPT !.used = used] \in Devices
        /\ [drm[n] EXCEPT !.used = used] # Nothing
        /\ [drm[n] EXCEPT !.used = used].lacks = drm[n].lacks
    BY <2>3 DEF Devices, Nothing
  <2>5. drm' = [drm EXCEPT ![n] = [drm[n] EXCEPT !.used = used]]
    BY <1>1, <2>1 DEF MachineInv
  <2>6. drm' \in [CardNo -> Devices]
    BY <1>1, <2>4, <2>5 DEF MachineInv
  <2>7. stayed' \subseteq AmdCards'
    BY <1>1, <2>1, <2>4, <2>5 DEF MachineInv, HistoryInv, AmdCards, IsAmd
  <2> QED
    BY <1>1, <2>1, <2>2, <2>6, <2>7 DEF MachineInv, HistoryInv
<1>5. ASSUME NEW b \in {"BAT0", "BATC"}, BatteryChanges(b) PROVE MachineInv' /\ HistoryInv'
  <2>1. /\ supply' = [supply EXCEPT ![b] = IF @ = 0 THEN NewId ELSE 0]
        /\ drm' = drm /\ stayed' = stayed /\ came' = came /\ steady' \in BOOLEAN
    BY <1>5 DEF BatteryChanges
  <2>2. NewId \in Ids \ {0} /\ changes' \in 0 .. MaxChanges
    BY <1>1, <1>5, NewIds DEF BatteryChanges
  <2>3. 0 \in Ids
    BY Bounds DEF Ids
  <2>4. supply' \in [Names -> Ids]
    BY <1>1, <2>1, <2>2, <2>3 DEF MachineInv, Names
  <2>5. stayed' \subseteq AmdCards'
    BY <1>1, <2>1 DEF HistoryInv, AmdCards, IsAmd
  <2> QED
    BY <1>1, <2>1, <2>2, <2>4, <2>5 DEF MachineInv, HistoryInv
<1>6. UNCHANGED <<progress, answer>>
  BY DEF MachineStep, CardLeaves, CardComes, VramUseChanges, BatteryChanges
<1>7. ProgressInv' /\ AnswerInv'
  BY <1>6, Unmoved
<1>8. MachineInv' /\ HistoryInv'
  BY <1>2, <1>3, <1>4, <1>5 DEF MachineStep
<1> QED
  BY <1>7, <1>8 DEF TypesInv

LEMMA Batteries ==
    ASSUME MachineInv
    PROVE  /\ \A b \in 1 .. 3 : Here(b) \in Ids
           /\ Found \subseteq 1 .. 3
           /\ Found # {} => First(Found) \in Found
<1>1. DOMAIN Supplies = 1 .. 3 /\ \A b \in 1 .. 3 : Supplies[b] \in Names
  BY DEF Supplies, Names
<1>2. \A b \in 1 .. 3 : Here(b) \in Ids
  BY <1>1 DEF Here, MachineInv
<1>3. Found \subseteq 1 .. 3
  BY <1>1 DEF Found
<1>4. ASSUME Found # {} PROVE First(Found) \in Found
  <2>1. \E b \in Found : \A x \in Found : b <= x
    <3>1. CASE 1 \in Found
      BY <1>3, <3>1
    <3>2. CASE 1 \notin Found /\ 2 \in Found
      BY <1>3, <3>2
    <3>3. CASE 1 \notin Found /\ 2 \notin Found
      <4>1. \A b \in Found : b = 3
        BY <1>3, <3>3
      <4> QED
        BY <1>4, <4>1
    <3> QED
      BY <3>1, <3>2, <3>3
  <2> QED
    BY <2>1 DEF First
<1> QED
  BY <1>2, <1>3, <1>4

LEMMA NextFigureTypes ==
    ASSUME figure \in 1 .. 26, at = "read", NextFigure, call \in {"get_stats", "get_static_info", "get_battery"}
    PROVE  /\ figure' \in 1 .. 26 /\ source' = 1
           /\ source' \in DOMAIN Plan[figure'].files
           /\ \/ at' = "read" /\ figure' = figure + 1
              \/ at' \in {"find battery", "driver"} /\ figure' = 1
           /\ at' = "driver" => call # "get_stats"
<1>1. figure' \in 1 .. 26 /\ source' = 1
  BY PlanLines DEF NextFigure
<1> QED
  BY <1>1, PlanLines, FilesInTurn DEF NextFigure, AfterFigures

LEMMA ReaderTypes ==
    ASSUME TypesInv, ReaderStep
    PROVE  ProgressInv' /\ AnswerInv'
<1>1. MachineInv /\ ProgressInv /\ AnswerInv
  BY DEF TypesInv
<1>2. NoCard \notin CardNo /\ CardNo = 0 .. MaxCard /\ MaxCard \in Nat
  BY Bounds
<1>3. CASE Probe
  <2>1. probe \in 0 .. LastCard /\ card = NoCard /\ at = "find card"
    BY <1>1, <1>3 DEF Probe, ProgressInv
  <2>2. /\ probe' \in 0 .. LastCard
        /\ \/ at' = "find hwmon" /\ card' \in CardNo
           \/ at' = "find card" /\ card' = NoCard
           \/ at' \in {"find battery", "answered"} /\ card' = NoCard
    <3>1. \/ card' = probe /\ probe \in CardNo /\ at' = "find hwmon" /\ probe' = probe
          \/ probe < LastCard /\ probe' = probe + 1 /\ card' = card /\ at' = at
          \/ at' = AfterGpu /\ card' = card /\ probe' = probe
      BY <1>3 DEF Probe, IsAmd
    <3>2. probe < LastCard => probe + 1 \in 0 .. LastCard
      BY <2>1, Numbers
    <3> QED
      BY <2>1, <3>1, <3>2 DEF AfterGpu
  <2>3. /\ at = "find card" /\ call' = call /\ hwmon' = hwmon /\ figure' = figure /\ source' = source
        /\ got' = got /\ vram' = vram /\ bat' = bat
    BY <1>3 DEF Probe, answer
  <2>4. probe' \in Nat /\ card' \in CardNo \cup {NoCard}
    BY <2>2, Numbers
  <2>5. ProgressInv'
    BY <1>1, <2>2, <2>3, <2>4 DEF ProgressInv, Stages
  <2> QED
    BY <1>1, <2>2, <2>3, <2>5 DEF AnswerInv
<1>4. CASE FindHwmon
  <2>1. /\ at = "find hwmon" /\ at' = "read" /\ call' = call /\ probe' = probe /\ card' = card
        /\ figure' = figure /\ source' = source /\ got' = got /\ vram' = vram /\ bat' = bat
        /\ hwmon' = HwmonOf(drm[card])
    BY <1>4 DEF FindHwmon, answer
  <2>2. hwmon' \in Nat
    <3>1. HwmonOf(drm[card]) \in 0 .. LastHwmon
      BY Bounds DEF HwmonOf, Tries
    <3>2. HwmonOf(drm[card]) \in Nat
      BY <3>1, Bounds
    <3> QED
      BY <2>1, <3>2, Zenon
  <2>3. ProgressInv'
    BY <1>1, <2>1, <2>2 DEF ProgressInv, Stages
  <2> QED
    BY <1>1, <2>1, <2>3 DEF AnswerInv
<1>5. CASE ReadValue
  <2>1. PICK n \in Readers(File) :
          /\ got' = [got EXCEPT ![Plan[figure].figure] = drm[n].id]
          /\ vram' = CASE Plan[figure] = VramTotal -> [vram EXCEPT !.total = MaxVram]
                       [] Plan[figure] = VramUsed  -> [vram EXCEPT !.used = drm[n].used]
                       [] OTHER                    -> vram
    BY <1>5 DEF ReadValue
  <2>2. /\ at = "read" /\ NextFigure /\ call' = call /\ probe' = probe /\ card' = card
        /\ hwmon' = hwmon /\ bat' = bat
    BY <1>5 DEF ReadValue
  <2>3. /\ figure' \in 1 .. 26 /\ source' \in DOMAIN Plan[figure'].files
        /\ at' \in {"read", "find battery", "driver"}
    BY <1>1, <2>2, NextFigureTypes DEF ProgressInv
  <2>4. ProgressInv'
    BY <1>1, <2>2, <2>3 DEF ProgressInv, Stages
  <2>5. drm[n].id \in Ids /\ drm[n].used \in 0 .. MaxVram
    BY <1>1, <2>1 DEF Readers, Holder, MachineInv, Devices
  <2>6. got' \in [Figures -> Ids]
    BY <1>1, <2>1, <2>5 DEF AnswerInv
  <2>7. vram' \in [total : {0, MaxVram}, used : 0 .. MaxVram]
    <3>1. vram \in [total : {0, MaxVram}, used : 0 .. MaxVram]
      BY <1>1 DEF AnswerInv
    <3>2. \/ vram' = [vram EXCEPT !.total = MaxVram]
          \/ vram' = [vram EXCEPT !.used = drm[n].used]
          \/ vram' = vram
      BY <2>1
    <3> QED
      BY <2>5, <3>1, <3>2
  <2>8. card # NoCard
    BY <1>1, <1>2, <2>2 DEF ProgressInv
  <2> QED
    BY <1>1, <2>2, <2>3, <2>4, <2>6, <2>7, <2>8 DEF AnswerInv
<1>6. CASE FallBack
  <2>1. /\ at = "read" /\ call' = call /\ probe' = probe /\ card' = card
        /\ hwmon' = hwmon /\ got' = got /\ vram' = vram /\ bat' = bat
    BY <1>6 DEF FallBack, answer
  <2>2. /\ figure' \in 1 .. 26 /\ source' \in DOMAIN Plan[figure'].files
        /\ at' \in {"read", "find battery", "driver"}
    <3>1. CASE source < Len(Plan[figure].files)
      <4>1. source' = source + 1 /\ figure' = figure /\ at' = at
        BY <1>6, <3>1 DEF FallBack
      <4> QED
        BY <1>1, <2>1, <3>1, <4>1, FilesInTurn DEF ProgressInv
    <3>2. CASE ~ (source < Len(Plan[figure].files))
      <4>1. NextFigure
        BY <1>6, <3>2 DEF FallBack
      <4> QED
        BY <1>1, <2>1, <4>1, NextFigureTypes DEF ProgressInv
    <3> QED
      BY <3>1, <3>2
  <2>3. ProgressInv'
    BY <1>1, <2>1, <2>2 DEF ProgressInv, Stages
  <2> QED
    BY <1>1, <2>1, <2>2, <2>3 DEF AnswerInv
<1>7. CASE ReadDriver
  <2>1. /\ at = "driver" /\ at' = "answered" /\ call' = call /\ probe' = probe /\ card' = card
        /\ hwmon' = hwmon /\ figure' = figure /\ source' = source /\ vram' = vram /\ bat' = bat
    BY <1>7 DEF ReadDriver
  <2>2. PICK id : /\ got' = [got EXCEPT !["driver_version"] = id]
                  /\ id = 0 \/ (0 \in CardNo /\ drm[0] # Nothing /\ id = drm[0].id)
    BY <1>7 DEF ReadDriver
  <2>3. id \in Ids
    BY <1>1, <2>2, Bounds DEF MachineInv, Devices, Ids
  <2>4. ProgressInv'
    BY <1>1, <2>1 DEF ProgressInv, Stages
  <2>5. got' \in [Figures -> Ids] /\ card # NoCard
    BY <1>1, <1>2, <2>1, <2>2, <2>3 DEF AnswerInv, ProgressInv
  <2> QED
    BY <1>1, <2>1, <2>4, <2>5 DEF AnswerInv
<1>8. CASE FindBattery \/ ReadCapacity \/ ReadStatus
  <2>1. /\ call' = call /\ card' = card /\ hwmon' = hwmon /\ figure' = figure /\ source' = source
        /\ got' = got /\ vram' = vram
        /\ at' \in {"capacity", "status", "answered"}
    BY <1>8 DEF FindBattery, ReadCapacity, ReadStatus, BatteryStep
  <2>2. bat' \in [has : Ids, percent : Ids, status : Ids] /\ (probe' = probe \/ probe' \in 1 .. 3)
        /\ (at' \in {"capacity", "status"} => probe' \in 1 .. 3)
    <3>1. bat \in [has : Ids, percent : Ids, status : Ids]
      BY <1>1 DEF AnswerInv
    <3>2. \A b \in 1 .. 3 : Here(b) \in Ids
      BY <1>1, Batteries
    <3>3. CASE FindBattery
      <4>1. Found # {} => First(Found) \in 1 .. 3
        BY <1>1, Batteries
      <4> QED
        BY <3>1, <3>2, <3>3, <4>1 DEF FindBattery, BatteryStep
    <3>4. CASE ReadCapacity
      BY <1>1, <3>1, <3>2, <3>4 DEF ReadCapacity, BatteryStep, ProgressInv
    <3>5. CASE ReadStatus
      BY <1>1, <3>1, <3>2, <3>5 DEF ReadStatus, BatteryStep, ProgressInv
    <3> QED
      BY <1>8, <3>3, <3>4, <3>5
  <2>3. probe' \in Nat
    BY <1>1, <2>2, Numbers DEF ProgressInv
  <2>4. ProgressInv'
    BY <1>1, <2>1, <2>2, <2>3 DEF ProgressInv, Stages
  <2> QED
    BY <1>1, <2>1, <2>2, <2>4 DEF AnswerInv
<1> QED
  BY <1>3, <1>4, <1>5, <1>6, <1>7, <1>8 DEF ReaderStep

LEMMA ReaderLeavesMachine ==
    ASSUME ReaderStep
    PROVE  /\ drm' = drm /\ supply' = supply /\ changes' = changes
           /\ stayed' = stayed /\ came' = came /\ steady' = steady
BY DEF ReaderStep, Probe, FindHwmon, ReadValue, FallBack, ReadDriver, FindBattery, ReadCapacity,
       ReadStatus, BatteryStep, machine, history

LEMMA MachineLeavesReader ==
    ASSUME MachineStep
    PROVE  /\ call' = call /\ at' = at /\ probe' = probe /\ card' = card /\ hwmon' = hwmon
           /\ figure' = figure /\ source' = source /\ got' = got /\ vram' = vram /\ bat' = bat
BY DEF MachineStep, CardLeaves, CardComes, VramUseChanges, BatteryChanges, progress, answer

LEMMA TypesStep == ASSUME TypesInv, [Next]_vars PROVE TypesInv'
<1>1. MachineInv /\ ProgressInv /\ AnswerInv /\ HistoryInv
  BY DEF TypesInv
<1>2. CASE MachineStep
  BY <1>2, MachineTypes
<1>3. CASE ReaderStep
  <2>1. ProgressInv' /\ AnswerInv'
    BY <1>3, ReaderTypes
  <2>2. MachineInv' /\ HistoryInv'
    BY <1>1, <1>3, ReaderLeavesMachine DEF MachineInv, HistoryInv, AmdCards, IsAmd
  <2> QED
    BY <2>1, <2>2 DEF TypesInv
<1>4. ASSUME NEW c \in {"get_stats", "get_static_info", "get_battery"}, Begin(c) PROVE TypesInv'
  <2>1. /\ at = "idle" /\ call' = c /\ at' \in {"find battery", "find card"}
        /\ drm' = drm /\ supply' = supply /\ changes' = changes
        /\ stayed' = AmdCards /\ came' = {} /\ steady' = TRUE
        /\ probe' = probe /\ card' = card /\ hwmon' = hwmon /\ figure' = figure /\ source' = source
        /\ got' = got /\ vram' = vram /\ bat' = bat
    BY <1>4 DEF Begin, machine, answer
  <2>2. MachineInv' /\ HistoryInv'
    BY <1>1, <2>1 DEF MachineInv, HistoryInv, AmdCards, IsAmd
  <2>3. ProgressInv'
    BY <1>1, <2>1 DEF ProgressInv, Stages
  <2>4. AnswerInv'
    BY <1>1, <2>1 DEF AnswerInv
  <2> QED
    BY <2>2, <2>3, <2>4 DEF TypesInv
<1>5. CASE Finish
  <2>1. /\ at' = "idle" /\ call' = "get_stats" /\ drm' = drm /\ supply' = supply /\ changes' = changes
        /\ stayed' = {} /\ came' = {} /\ steady' = TRUE
        /\ probe' = 0 /\ card' = NoCard /\ hwmon' = 0 /\ figure' = 1 /\ source' = 1
        /\ got' = NoFigures /\ vram' = NoVram /\ bat' = NoBattery
    BY <1>5 DEF Finish, machine
  <2>2. MachineInv' /\ HistoryInv'
    BY <1>1, <2>1 DEF MachineInv, HistoryInv
  <2>3. ProgressInv'
    BY <2>1, FilesInTurn, Bounds DEF ProgressInv, Stages
  <2>4. 0 \in Ids /\ 0 \in 0 .. MaxVram
    BY Bounds DEF Ids
  <2>5. AnswerInv'
    BY <2>1, <2>4 DEF AnswerInv, NoFigures, NoVram, NoBattery
  <2> QED
    BY <2>2, <2>3, <2>5 DEF TypesInv
<1>6. CASE UNCHANGED vars
  <2>1. UNCHANGED <<drm, supply, changes>> /\ UNCHANGED <<stayed, came, steady>>
        /\ UNCHANGED <<progress, answer>>
    BY <1>6 DEF vars, machine, history
  <2>2. MachineInv' /\ HistoryInv'
    BY <1>1, <2>1 DEF MachineInv, HistoryInv, AmdCards, IsAmd
  <2>3. ProgressInv' /\ AnswerInv'
    BY <2>1, Unmoved
  <2> QED
    BY <2>2, <2>3 DEF TypesInv
<1> QED
  BY <1>2, <1>3, <1>4, <1>5, <1>6 DEF Next

LEMMA TypesGive == TypesInv => TypeOK
<1> SUFFICES ASSUME TypesInv PROVE TypeOK
  OBVIOUS
<1>1. MachineInv /\ ProgressInv /\ AnswerInv /\ HistoryInv
  BY DEF TypesInv
<1>2. \A n \in CardNo : drm[n] = Nothing \/ (drm[n].id \in Ids /\ drm[n].used <= MaxVram)
  BY <1>1, Bounds DEF MachineInv, Devices
<1>3. figure \in DOMAIN Plan /\ source \in DOMAIN Plan[figure].files
  BY <1>1, PlanLines DEF ProgressInv
<1>4. supply \in [{"BAT0", "BAT1", "BATC"} -> Ids] /\ changes \in 0 .. MaxChanges
  BY <1>1 DEF MachineInv, Names
<1>5. /\ call \in {"get_stats", "get_static_info", "get_battery"} /\ at \in Stages
      /\ probe \in Nat /\ card \in CardNo \cup {NoCard} /\ hwmon \in Nat
      /\ at \in {"find hwmon", "read", "driver"} => card \in CardNo
  BY <1>1, Zenon DEF ProgressInv
<1>6. /\ got \in [Figures -> Ids] /\ vram \in [total : {0, MaxVram}, used : 0 .. MaxVram]
      /\ bat \in [has : Ids, percent : Ids, status : Ids]
  BY <1>1 DEF AnswerInv
<1>7. stayed \subseteq AmdCards /\ came \subseteq CardNo /\ steady \in BOOLEAN
  BY <1>1 DEF HistoryInv
<1> QED
  BY <1>2, <1>3, <1>4, <1>5, <1>6, <1>7 DEF TypeOK

-------------------------------------------------------------------------------
(* No lower card has been there all the time.                                  *)

LEMMA SearchStep == ASSUME TypesInv, SearchInv, [Next]_vars PROVE SearchInv'
<1>1. MachineInv /\ ProgressInv /\ HistoryInv
  BY DEF TypesInv
<1>2. stayed \subseteq CardNo /\ \A n \in stayed : IsAmd(n)
  BY <1>1 DEF HistoryInv, AmdCards
<1>3. CASE MachineStep
  <2>1. stayed' \subseteq stayed
    BY <1>3 DEF MachineStep, CardLeaves, CardComes, VramUseChanges, BatteryChanges, history
  <2> QED
    BY <1>3, <2>1, MachineLeavesReader DEF SearchInv
<1>4. CASE Probe
  <2>1. /\ at = "find card" /\ \A n \in stayed : probe <= n
        /\ stayed' = stayed /\ probe \in 0 .. LastCard /\ card = NoCard
    BY <1>1, <1>4 DEF Probe, SearchInv, ProgressInv, history
  <2>2. CASE IsAmd(probe)
    <3>1. card' = probe /\ at' = "find hwmon"
      BY <1>4, <2>2 DEF Probe
    <3> QED
      BY <2>1, <3>1 DEF SearchInv
  <2>3. ASSUME ~ IsAmd(probe), NEW n \in stayed
                PROVE  probe + 1 <= n /\ (probe = LastCard => ~ (n <= LastCard))
    <3>1. n \in CardNo /\ n # probe /\ probe <= n
      BY <1>2, <2>1, <2>3
    <3> QED
      BY <2>1, <3>1, TheNext, Zenon
  <2>4. CASE ~ IsAmd(probe) /\ probe < LastCard
    <3>1. probe # LastCard
      BY <2>1, <2>4, NotTheLast, Zenon
    <3>2. probe' = probe + 1 /\ at' = at
      BY <1>4, <2>4, <3>1, Zenon DEF Probe
    <3> QED
      BY <2>1, <2>3, <2>4, <3>2 DEF SearchInv
  <2>5. CASE ~ IsAmd(probe) /\ probe = LastCard
    <3>1. at' = AfterGpu
      <4>1. ~ (probe < LastCard)
        BY <2>1, <2>5, NotTheLast, Zenon
      <4> QED
        BY <1>4, <2>5, <4>1, Zenon DEF Probe
    <3>2. \A n \in stayed : ~ (n <= LastCard)
      BY <2>3, <2>5, Zenon
    <3> QED
      BY <2>1, <3>1, <3>2 DEF SearchInv, AfterGpu
  <2> QED
    BY <1>4, <2>2, <2>4, <2>5 DEF Probe
<1>5. CASE ReaderStep /\ ~ Probe
  <2>1. at \notin {"idle", "find card"} \/ call = "get_battery"
    BY <1>5 DEF ReaderStep, FindHwmon, ReadValue, FallBack, ReadDriver, FindBattery,
                ReadCapacity, ReadStatus
  <2>2. card' = card /\ call' = call /\ stayed' = stayed
    BY <1>5 DEF ReaderStep, FindHwmon, ReadValue, FallBack, ReadDriver, FindBattery,
                ReadCapacity, ReadStatus, BatteryStep, history
  <2>3. at' # "find card"
    BY <1>5 DEF ReaderStep, FindHwmon, ReadValue, FallBack, ReadDriver, FindBattery, ReadCapacity,
                ReadStatus, NextFigure, AfterFigures
  <2> QED
    BY <2>1, <2>2, <2>3 DEF SearchInv
<1>6. ASSUME NEW c \in {"get_stats", "get_static_info", "get_battery"}, Begin(c) PROVE SearchInv'
  <2>1. /\ at = "idle" /\ probe' = probe /\ call' = c /\ stayed' = AmdCards
        /\ at' = IF c = "get_battery" THEN "find battery" ELSE "find card"
    BY <1>6 DEF Begin
  <2>2. probe' = 0
    BY <1>1, <2>1 DEF ProgressInv
  <2>3. \A n \in AmdCards : 0 <= n
    BY ZeroIsLeast, Zenon DEF AmdCards
  <2> QED
    BY <2>1, <2>2, <2>3 DEF SearchInv
<1>7. CASE Finish
  BY <1>7 DEF Finish, SearchInv
<1>8. CASE UNCHANGED vars
  BY <1>8 DEF vars, progress, history, SearchInv
<1> QED
  BY <1>3, <1>4, <1>5, <1>6, <1>7, <1>8 DEF Next, ReaderStep

-------------------------------------------------------------------------------
(* The card found is the same device, or gone, until its number is taken.      *)

LEMMA CardKept ==
    ASSUME TypesInv, MachineStep, card \in CardNo, card \notin came', drm'[card] # Nothing
    PROVE  /\ card \notin came /\ drm[card] # Nothing
           /\ drm'[card].id = drm[card].id /\ drm'[card].lacks = drm[card].lacks
<1>1. MachineInv /\ at # "idle"
  BY Bounds DEF TypesInv, ProgressInv
<1>2. ASSUME NEW n \in CardNo, CardLeaves(n)
      PROVE  card \notin came /\ drm[card] # Nothing /\ drm'[card] = drm[card]
  BY <1>1, <1>2 DEF CardLeaves, MachineInv
<1>3. ASSUME NEW n \in CardNo, NEW kind \in Asic \cup {Foreign}, NEW h \in 0 .. LastHwmon,
             CardComes(n, kind, h)
      PROVE  card \notin came /\ drm[card] # Nothing /\ drm'[card] = drm[card]
  <2>1. came' = came \cup {n} /\ drm' = [drm EXCEPT ![n] = Device(NewId, kind, h)]
    BY <1>1, <1>3 DEF CardComes
  <2> QED
    BY <1>1, <2>1 DEF MachineInv
<1>4. ASSUME NEW n \in CardNo, NEW used \in 0 .. MaxVram, VramUseChanges(n, used)
      PROVE  /\ card \notin came /\ drm[card] # Nothing
             /\ drm'[card].id = drm[card].id /\ drm'[card].lacks = drm[card].lacks
  <2>1. /\ drm[n] # Nothing /\ drm' = [drm EXCEPT ![n].used = used] /\ came' = came
    BY <1>4 DEF VramUseChanges, IsAmd, history
  <2>2. drm[n] \in [id : Ids \ {0}, lacks : Asic \cup {Foreign}, hwmon : Nat, used : 0 .. MaxVram]
    BY <1>1, <2>1 DEF MachineInv, Devices
  <2>3. drm' = [drm EXCEPT ![n] = [drm[n] EXCEPT !.used = used]]
    BY <1>1, <2>1 DEF MachineInv
  <2>4. /\ [drm[n] EXCEPT !.used = used].id = drm[n].id
        /\ [drm[n] EXCEPT !.used = used].lacks = drm[n].lacks
    BY <2>2
  <2> QED
    BY <1>1, <2>1, <2>3, <2>4 DEF MachineInv
<1>5. ASSUME NEW b \in {"BAT0", "BATC"}, BatteryChanges(b)
      PROVE  card \notin came /\ drm[card] # Nothing /\ drm'[card] = drm[card]
  BY <1>5 DEF BatteryChanges
<1> QED
  BY <1>2, <1>3, <1>4, <1>5 DEF MachineStep

LEMMA CameGrows == ASSUME MachineStep PROVE came \subseteq came'
BY DEF MachineStep, CardLeaves, CardComes, VramUseChanges, BatteryChanges, history

(* A step that changes neither the figures nor the card. *)
LEMMA SameCardKept ==
    ASSUME SameCard, UNCHANGED <<got, card, drm, came>>
    PROVE  SameCard'
<1>1. Genuine' = Genuine
  BY DEF Genuine
<1> QED
  BY <1>1 DEF SameCard

LEMMA SameCardStep == ASSUME TypesInv, SameCard, [Next]_vars PROVE SameCard'
<1>1. MachineInv /\ ProgressInv /\ AnswerInv
  BY DEF TypesInv
<1>2. CASE MachineStep
  <2>1. got' = got /\ card' = card /\ came \subseteq came'
    BY <1>2, MachineLeavesReader, CameGrows
  <2>2. Genuine' = Genuine
    BY <2>1 DEF Genuine
  <2>3. card' \in CardNo /\ card' \notin came' /\ drm'[card'] # Nothing =>
          drm[card] # Nothing /\ drm'[card'].id = drm[card].id
    BY <1>2, <2>1, CardKept
  <2> QED
    BY <2>1, <2>2, <2>3 DEF SameCard
<1>3. CASE got' = NoFigures
  <2>1. Genuine' = {}
    BY <1>3 DEF Genuine, NoFigures
  <2> QED
    BY <2>1 DEF SameCard
<1>4. CASE ReadValue
  <2>1. PICK n \in Readers(File) : got' = [got EXCEPT ![Plan[figure].figure] = drm[n].id]
    BY <1>4 DEF ReadValue
  <2>2. n = card /\ drm[card] # Nothing /\ card \in CardNo
    BY <2>1 DEF Readers, Holder
  <2>3. card' = card /\ drm' = drm /\ came' = came
    BY <1>4 DEF ReadValue, machine, history
  <2>4. ASSUME card \notin came, NEW f \in Genuine' PROVE got'[f] = drm[card].id
    <3>1. f \in Figures /\ got'[f] # 0 /\ (f = "driver_version" => card = 0)
      BY <2>3, <2>4 DEF Genuine
    <3>2. got'[f] = drm[card].id \/ got'[f] = got[f]
      BY <1>1, <2>1, <2>2, <3>1 DEF AnswerInv
    <3>3. got'[f] = got[f] => f \in Genuine
      BY <3>1 DEF Genuine
    <3> QED
      BY <2>2, <2>4, <3>2, <3>3 DEF SameCard
  <2> QED
    BY <2>3, <2>4 DEF SameCard
<1>5. CASE ReadDriver
  <2>1. got' = [got EXCEPT !["driver_version"] =
                 IF 0 \in CardNo /\ drm[0] # Nothing /\ "driver/module/version" \notin drm[0].lacks
                 THEN drm[0].id ELSE 0]
    BY <1>5 DEF ReadDriver
  <2>2. card' = card /\ drm' = drm /\ came' = came /\ card \in CardNo
    BY <1>1, <1>5 DEF ReadDriver, ProgressInv, machine, history
  <2>3. ASSUME NEW f \in Genuine'
        PROVE  \/ f \in Genuine /\ got'[f] = got[f]
               \/ drm[card] # Nothing /\ got'[f] = drm[card].id
    <3>1. f \in Figures /\ got'[f] # 0 /\ (f = "driver_version" => card = 0)
      BY <2>2 DEF Genuine
    <3>2. CASE f = "driver_version"
      BY <1>1, <2>1, <3>1, <3>2 DEF AnswerInv
    <3>3. CASE f # "driver_version"
      <4>1. got'[f] = got[f]
        BY <1>1, <2>1, <3>1, <3>3 DEF AnswerInv
      <4> QED
        BY <3>1, <4>1 DEF Genuine
    <3> QED
      BY <3>2, <3>3
  <2>4. CASE drm[card] # Nothing
    <3>1. card \notin came => \A f \in Genuine' : got'[f] = drm[card].id
      BY <2>2, <2>3, <2>4 DEF SameCard
    <3> QED
      BY <2>2, <3>1 DEF SameCard
  <2>5. CASE drm[card] = Nothing
    BY <2>2, <2>3, <2>5 DEF SameCard
  <2> QED
    BY <2>4, <2>5
<1>6. CASE FindHwmon \/ FallBack \/ FindBattery \/ ReadCapacity \/ ReadStatus \/ UNCHANGED vars
  <2>1. UNCHANGED <<got, card, drm, came>>
    BY <1>6 DEF FindHwmon, FallBack, FindBattery, ReadCapacity, ReadStatus, BatteryStep, vars,
                machine, progress, answer, history
  <2> QED
    BY <2>1, SameCardKept
<1>7. Probe \/ Finish \/ (\E c \in {"get_stats", "get_static_info", "get_battery"} : Begin(c))
        => got' = NoFigures
  BY <1>1 DEF Probe, Finish, Begin, answer, AnswerInv
<1> QED
  BY <1>2, <1>3, <1>4, <1>5, <1>6, <1>7 DEF Next, ReaderStep

-------------------------------------------------------------------------------
(* The VRAM in use is read after the VRAM there is, and in use is never more.  *)

LEMMA VramFiles ==
    /\ VramTotal.files = <<Dev("mem_info_vram_total")>> /\ VramUsed.files = <<Dev("mem_info_vram_used")>>
    /\ VramTotal # VramUsed
    /\ \A x : Dev(x)[2] = x
<1>1. VramTotal.files = <<Dev("mem_info_vram_total")>> /\ VramUsed.files = <<Dev("mem_info_vram_used")>>
  BY DEF VramTotal, VramUsed, Line
<1>2. VramTotal # VramUsed
  BY HeadsLines
<1>3. \A x : Dev(x)[2] = x
  BY DEF Dev
<1> QED
  BY <1>1, <1>2, <1>3

(* The only file of either figure. *)
LEMMA VramFile ==
    ASSUME ProgressInv
    PROVE  /\ Plan[figure] = VramTotal => File[2] = "mem_info_vram_total" /\ File[1] = "device"
           /\ Plan[figure] = VramUsed => File[2] = "mem_info_vram_used"
<1>1. source \in DOMAIN Plan[figure].files
  BY DEF ProgressInv
<1>2. \A x : DOMAIN <<Dev(x)>> = {1} /\ <<Dev(x)>>[1] = Dev(x)
  OBVIOUS
<1>3. Dev("mem_info_vram_total")[1] = "device"
  BY DEF Dev
<1>4. ASSUME Plan[figure] = VramTotal
      PROVE  File[2] = "mem_info_vram_total" /\ File[1] = "device"
  <2>1. source = 1
    BY <1>1, <1>2, <1>4, VramFiles
  <2>2. File = Dev("mem_info_vram_total")
    BY <1>2, <1>4, <2>1, VramFiles DEF File
  <2> QED
    BY <1>3, <2>2, VramFiles
<1>5. ASSUME Plan[figure] = VramUsed PROVE File[2] = "mem_info_vram_used"
  <2>1. source = 1
    BY <1>1, <1>2, <1>5, VramFiles
  <2>2. File = Dev("mem_info_vram_used")
    BY <1>2, <1>5, <2>1, VramFiles DEF File
  <2> QED
    BY <2>2, VramFiles
<1> QED
  BY <1>4, <1>5

LEMMA NoVramFits == NoVram.used <= NoVram.total
BY DEF NoVram

LEMMA VramStep == ASSUME TypesInv, VramInv, [Next]_vars PROVE VramInv'
<1>1. MachineInv /\ ProgressInv /\ AnswerInv
  BY DEF TypesInv
<1>2. CASE MachineStep
  <2>1. /\ vram' = vram /\ at' = at /\ figure' = figure /\ card' = card /\ came \subseteq came'
    BY <1>2, MachineLeavesReader, CameGrows
  <2>2. at = "read" /\ card \notin came' /\ drm'[card] # Nothing =>
          drm[card] # Nothing /\ drm'[card].lacks = drm[card].lacks
    BY <1>1, <1>2, CardKept DEF ProgressInv
  <2> QED
    BY <2>1, <2>2 DEF VramInv
<1>3. CASE vram' = NoVram /\ (at' = "read" => figure' # 3)
  BY <1>3, NoVramFits DEF VramInv
<1>4. CASE ReadValue
  <2>1. PICK n \in Readers(File) :
          vram' = CASE Plan[figure] = VramTotal -> [vram EXCEPT !.total = MaxVram]
                    [] Plan[figure] = VramUsed  -> [vram EXCEPT !.used = drm[n].used]
                    [] OTHER                    -> vram
    BY <1>4 DEF ReadValue
  <2>2. n = card /\ drm[card] # Nothing /\ card \in CardNo /\ File[2] \notin drm[card].lacks
    BY <2>1 DEF Readers, Holder
  <2>3. /\ at = "read" /\ card' = card /\ drm' = drm /\ came' = came
    BY <1>4 DEF ReadValue, machine, history
  <2>4. at' = "read" => figure' = figure + 1
    BY <1>1, <1>4, NextFigureTypes DEF ReadValue, ProgressInv
  <2>5. /\ figure \in 1 .. 26 /\ figure \in Nat
        /\ vram \in [total : {0, MaxVram}, used : 0 .. MaxVram]
        /\ drm[card].used \in 0 .. MaxVram /\ drm[card].lacks \in Asic \cup {Foreign}
    <3>1. drm[card] \in Devices
      BY <1>1, <2>2 DEF MachineInv
    <3>2. drm[card].used \in 0 .. MaxVram /\ drm[card].lacks \in Asic \cup {Foreign}
      BY <2>2, <3>1 DEF Devices
    <3>3. figure \in 1 .. 26 /\ vram \in [total : {0, MaxVram}, used : 0 .. MaxVram]
      BY <1>1 DEF ProgressInv, AnswerInv
    <3>4. figure \in Nat
      BY <3>3
    <3> QED
      BY <3>2, <3>3, <3>4
  <2>6. CASE Plan[figure] = VramTotal
    <3>1. vram'.total = MaxVram /\ vram'.used = vram.used
      <4>1. vram' = [vram EXCEPT !.total = MaxVram]
        BY <2>1, <2>6, VramFiles
      <4> QED
        BY <2>5, <4>1
    <3>2. vram'.used <= vram'.total
      BY <2>5, <3>1, Bounds
    <3> QED
      BY <3>1, <3>2 DEF VramInv
  <2>7. CASE Plan[figure] = VramUsed
    <3>1. figure = 3
      BY <2>5, <2>7, PlanLines
    <3>2. at' = "read" => figure' # 3
      BY <2>4, <3>1
    <3>3. "mem_info_vram_total" \notin drm[card].lacks
      <4>1. File[2] = "mem_info_vram_used"
        BY <1>1, <2>7, VramFile
      <4> QED
        BY <2>2, <2>5, <4>1, ReadingsAssumption DEF ReadingsAssumption
    <3>4. card \notin came => vram.total = MaxVram
      BY <2>2, <2>3, <3>1, <3>3 DEF VramInv
    <3>5. vram'.total = vram.total /\ vram'.used = drm[card].used
      BY <2>1, <2>2, <2>5, <2>7, VramFiles
    <3>6. card \notin came => vram'.used <= vram'.total
      BY <2>5, <3>4, <3>5, Bounds
    <3> QED
      BY <2>3, <3>2, <3>6 DEF VramInv
  <2>8. CASE Plan[figure] # VramTotal /\ Plan[figure] # VramUsed
    <3>1. vram' = vram
      BY <2>1, <2>8
    <3>2. figure # 2
      BY <2>8, PlanLines
    <3>3. at' = "read" => figure' # 3
      BY <2>4, <2>5, <3>2
    <3> QED
      BY <2>3, <3>1, <3>3 DEF VramInv
  <2> QED
    BY <2>6, <2>7, <2>8
<1>5. CASE FallBack
  <2>1. /\ at = "read" /\ vram' = vram /\ card' = card /\ drm' = drm /\ came' = came
        /\ Readers(File) = {} /\ card \in CardNo /\ figure \in 1 .. 26
    BY <1>1, <1>5 DEF FallBack, ProgressInv, machine, answer, history
  <2>2. at' = "read" => figure' = figure \/ figure' = figure + 1
    <3>1. NextFigure => (at' = "read" => figure' = figure + 1)
      BY <1>1, <2>1, NextFigureTypes DEF ProgressInv
    <3> QED
      BY <1>5, <3>1 DEF FallBack
  <2>3. CASE figure = 2
    <3>1. drm[card] # Nothing => "mem_info_vram_total" \in drm[card].lacks
      <4>1. File[1] = "device" /\ File[2] = "mem_info_vram_total"
        BY <1>1, <2>3, PlanLines, VramFile
      <4>2. "device" # "hwmon"
        OBVIOUS
      <4> QED
        BY <2>1, <4>1, <4>2 DEF Readers, Holder
    <3> QED
      BY <2>1, <3>1 DEF VramInv
  <2>4. CASE figure # 2
    <3>1. at' = "read" /\ figure' = 3 => figure = 3
      BY <2>1, <2>2, <2>4
    <3> QED
      BY <2>1, <3>1 DEF VramInv
  <2> QED
    BY <2>3, <2>4
<1>6. CASE ReadDriver \/ FindBattery \/ ReadCapacity \/ ReadStatus
  <2>1. vram' = vram /\ card' = card /\ came' = came /\ at' # "read"
    BY <1>6 DEF ReadDriver, FindBattery, ReadCapacity, ReadStatus, BatteryStep, history
  <2> QED
    BY <2>1 DEF VramInv
<1>7. CASE UNCHANGED vars
  BY <1>7 DEF vars, machine, progress, answer, history, VramInv
<1>8. Probe \/ FindHwmon \/ Finish \/ (\E c \in {"get_stats", "get_static_info", "get_battery"} : Begin(c))
        => vram' = NoVram /\ (at' = "read" => figure' # 3)
  <2>1. CASE Probe
    BY <1>1, <2>1 DEF Probe, answer, AnswerInv, AfterGpu
  <2>2. CASE FindHwmon
    <3>1. vram' = vram /\ vram = NoVram /\ figure' = figure /\ figure = 1
      BY <1>1, <2>2 DEF FindHwmon, answer, AnswerInv
    <3>2. figure' # 3
      BY <3>1
    <3> QED
      BY <3>1, <3>2
  <2>3. CASE Finish
    BY <2>3 DEF Finish
  <2>4. CASE \E c \in {"get_stats", "get_static_info", "get_battery"} : Begin(c)
    BY <1>1, <2>4 DEF Begin, answer, AnswerInv
  <2> QED
    BY <2>1, <2>2, <2>3, <2>4
<1> QED
  BY <1>2, <1>3, <1>4, <1>5, <1>6, <1>7, <1>8 DEF Next, ReaderStep

-------------------------------------------------------------------------------
(* While no battery comes or goes, the one found stays the first.              *)

LEMMA BatteryStepKept == ASSUME TypesInv, BatteryInv, [Next]_vars PROVE BatteryInv'
<1>1. MachineInv /\ ProgressInv /\ AnswerInv /\ HistoryInv
  BY DEF TypesInv
<1>2. CASE supply' = supply /\ steady' = steady /\ UNCHANGED <<call, at, probe, bat>>
  <2>1. Found' = Found /\ (\A b : Here(b)' = Here(b))
    BY <1>2 DEF Found, Here
  <2>2. Here(probe)' = Here(probe)
    BY <1>2 DEF Here
  <2>3. Here(First(Found))' = Here(First(Found)) /\ First(Found)' = First(Found)
    BY <1>2, <2>1 DEF Here, First
  <2> QED
    BY <1>2, <2>1, <2>2, <2>3 DEF BatteryInv, SteadyBatteryIsShown
<1>3. ASSUME NEW b \in {"BAT0", "BATC"}, BatteryChanges(b) PROVE BatteryInv'
  <2>1. steady' = (at = "idle") /\ UNCHANGED <<call, at, probe, bat>>
    BY <1>3 DEF BatteryChanges, progress, answer
  <2>2. CASE at = "idle"
    BY <2>1, <2>2 DEF BatteryInv, SteadyBatteryIsShown
  <2>3. CASE at # "idle"
    <3>1. steady' = FALSE
      BY <2>1, <2>3
    <3> QED
      BY <2>1, <3>1 DEF BatteryInv, SteadyBatteryIsShown
  <2> QED
    BY <2>2, <2>3
<1>4. CASE MachineStep
  <2>1. CASE \E b \in {"BAT0", "BATC"} : BatteryChanges(b)
    BY <1>3, <2>1
  <2>2. CASE ~ (\E b \in {"BAT0", "BATC"} : BatteryChanges(b))
    <3>1. supply' = supply /\ steady' = steady
      BY <1>4, <2>2 DEF MachineStep, CardLeaves, CardComes, VramUseChanges, history
    <3> QED
      BY <1>2, <1>4, <3>1, MachineLeavesReader
  <2> QED
    BY <2>1, <2>2
<1>5. CASE Probe \/ FindHwmon \/ ReadValue \/ FallBack \/ ReadDriver
  <2>1. /\ bat' = bat /\ bat = NoBattery /\ call' = call /\ call # "get_battery"
        /\ at' \in {"find card", "find hwmon", "read", "driver", "find battery", "answered"}
        /\ at' \in {"driver", "answered"} => call # "get_stats"
    <3>1. CASE Probe
      BY <3>1 DEF Probe, AfterGpu, answer, BatteryInv
    <3>2. CASE FindHwmon
      BY <3>2 DEF FindHwmon, answer, BatteryInv
    <3>3. CASE ReadValue
      BY <3>3 DEF ReadValue, NextFigure, AfterFigures, BatteryInv
    <3>4. CASE FallBack
      BY <3>4 DEF FallBack, NextFigure, AfterFigures, answer, BatteryInv
    <3>5. CASE ReadDriver
      BY <3>5 DEF ReadDriver, BatteryInv
    <3> QED
      BY <1>5, <3>1, <3>2, <3>3, <3>4, <3>5
  <2>2. at' = "answered" => call = "get_static_info"
    BY <1>1, <2>1 DEF ProgressInv
  <2> QED
    BY <2>1, <2>2 DEF BatteryInv, SteadyBatteryIsShown
<1>6. CASE FindBattery \/ ReadCapacity \/ ReadStatus
  <2>1. /\ supply' = supply /\ steady' = steady /\ call' = call
        /\ Found' = Found /\ First(Found)' = First(Found)
        /\ Here(First(Found))' = Here(First(Found))
    BY <1>6 DEF FindBattery, ReadCapacity, ReadStatus, BatteryStep, machine, history, Found, Here, First
  <2>2. CASE FindBattery
    <3>1. bat = NoBattery
      BY <2>2 DEF FindBattery, BatteryInv
    <3>2. CASE Found = {}
      <4>1. at' = "answered" /\ bat' = bat
        BY <2>2, <3>2 DEF FindBattery, BatteryStep
      <4> QED
        BY <2>1, <3>1, <3>2, <4>1 DEF BatteryInv, SteadyBatteryIsShown, NoBattery
    <3>3. CASE Found # {}
      <4>1. at' = "capacity" /\ probe' = First(Found)
            /\ bat' = [NoBattery EXCEPT !.has = Here(First(Found))]
        BY <2>2, <3>1, <3>3 DEF FindBattery, BatteryStep
      <4>2. Here(probe)' = Here(First(Found))
        BY <2>1, <4>1 DEF Here
      <4> QED
        BY <2>1, <3>3, <4>1, <4>2 DEF BatteryInv, SteadyBatteryIsShown
    <3> QED
      BY <3>2, <3>3
  <2>3. CASE ReadCapacity
    <3>1. at = "capacity" /\ at' = "status" /\ probe' = probe
          /\ bat' = [bat EXCEPT !.percent = Here(probe)]
      BY <2>3 DEF ReadCapacity, BatteryStep
    <3>2. Here(probe)' = Here(probe)
      BY <2>1, <3>1 DEF Here
    <3>3. steady => bat' = [has |-> Here(probe), percent |-> Here(probe), status |-> 0]
      BY <3>1 DEF BatteryInv, NoBattery
    <3>4. steady => Found # {} /\ probe = First(Found)
      BY <3>1 DEF BatteryInv
    <3> QED
      BY <2>1, <3>1, <3>2, <3>3, <3>4 DEF BatteryInv, SteadyBatteryIsShown
  <2>4. CASE ReadStatus
    <3>1. at = "status" /\ at' = "answered" /\ probe' = probe
          /\ bat' = [bat EXCEPT !.status = Here(probe)]
      BY <2>4 DEF ReadStatus, BatteryStep
    <3>2. steady => Found # {} /\ probe = First(Found)
      BY <3>1 DEF BatteryInv
    <3>3. steady => bat' = [has |-> Here(probe), percent |-> Here(probe), status |-> Here(probe)]
      BY <3>1 DEF BatteryInv
    <3> QED
      BY <2>1, <3>1, <3>2, <3>3 DEF BatteryInv, SteadyBatteryIsShown
  <2> QED
    BY <1>6, <2>2, <2>3, <2>4
<1>7. ASSUME NEW c \in {"get_stats", "get_static_info", "get_battery"}, Begin(c) PROVE BatteryInv'
  <2>1. /\ at = "idle" /\ bat' = bat /\ call' = c
        /\ at' = IF c = "get_battery" THEN "find battery" ELSE "find card"
    BY <1>7 DEF Begin, answer
  <2> QED
    BY <2>1 DEF BatteryInv, SteadyBatteryIsShown
<1>8. CASE Finish
  BY <1>8 DEF Finish, BatteryInv, SteadyBatteryIsShown
<1>9. CASE UNCHANGED vars
  BY <1>2, <1>9 DEF vars, machine, progress, answer, history
<1> QED
  BY <1>4, <1>5, <1>6, <1>7, <1>8, <1>9 DEF Next, ReaderStep

-------------------------------------------------------------------------------
(* The figures of a card that stays are complete up to the one being read.     *)

HasOne(i, c) == \E s \in DOMAIN Plan[i].files : Has(c, Plan[i].files[s])

Right(g, i, c) == g[Plan[i].figure] = IF HasOne(i, c) THEN c.id ELSE 0

Tried(c) == \A s \in DOMAIN Plan[figure].files : s < source => ~ Has(c, Plan[figure].files[s])

After == {"driver", "find battery", "capacity", "status", "answered"}

CompleteInv ==
    /\ at # "read" => source = 1
    /\ at = "read" => \A i \in 1 .. 26 : i >= figure => got[Plan[i].figure] = 0
    /\ at = "read" /\ card \in stayed =>
          /\ hwmon = HwmonOf(drm[card])
          /\ \A i \in 1 .. 26 : i < figure => Right(got, i, drm[card])
          /\ Tried(drm[card])
    /\ at \in After /\ card \in stayed => \A i \in 1 .. 26 : Right(got, i, drm[card])

LEMMA CompleteGives == CompleteInv => SteadyCardIsComplete
BY PlanLines DEF CompleteInv, After, SteadyCardIsComplete, Right, HasOne

(* Has reads two fields of a card only. *)
LEMMA SameFiles ==
    ASSUME NEW c, NEW d, c.lacks = d.lacks, c.hwmon = d.hwmon, NEW file
    PROVE  Has(c, file) <=> Has(d, file)
BY DEF Has

LEMMA StayedKept ==
    ASSUME TypesInv, MachineStep, card \in stayed'
    PROVE  /\ card \in stayed /\ drm'[card].id = drm[card].id
           /\ drm'[card].lacks = drm[card].lacks /\ drm'[card].hwmon = drm[card].hwmon
<1>1. MachineInv /\ stayed \subseteq CardNo /\ \A n \in stayed : IsAmd(n)
  BY DEF TypesInv, HistoryInv, AmdCards
<1>2. ASSUME NEW n \in CardNo, CardLeaves(n) PROVE card \in stayed /\ drm'[card] = drm[card]
  BY <1>1, <1>2 DEF CardLeaves, MachineInv
<1>3. ASSUME NEW n \in CardNo, NEW kind \in Asic \cup {Foreign}, NEW h \in 0 .. LastHwmon,
             CardComes(n, kind, h)
      PROVE  card \in stayed /\ drm'[card] = drm[card]
  BY <1>1, <1>3 DEF CardComes, MachineInv, IsAmd
<1>4. ASSUME NEW n \in CardNo, NEW used \in 0 .. MaxVram, VramUseChanges(n, used)
      PROVE  /\ card \in stayed /\ drm'[card].id = drm[card].id
             /\ drm'[card].lacks = drm[card].lacks /\ drm'[card].hwmon = drm[card].hwmon
  <2>1. card \in stayed /\ drm' = [drm EXCEPT ![n].used = used]
    BY <1>4 DEF VramUseChanges, history
  <2>2. drm[card] \in Devices
    BY <1>1, <2>1 DEF MachineInv
  <2>3. drm[card] # Nothing
    BY <1>1, <2>1 DEF IsAmd
  <2>4. drm[card] \in [id : Ids \ {0}, lacks : Asic \cup {Foreign}, hwmon : Nat, used : 0 .. MaxVram]
    BY <2>2, <2>3 DEF Devices
  <2>5. drm'[card] = drm[card] \/ drm'[card] = [drm[card] EXCEPT !.used = used]
    BY <1>1, <2>1 DEF MachineInv
  <2> QED
    BY <2>1, <2>4, <2>5
<1>5. ASSUME NEW b \in {"BAT0", "BATC"}, BatteryChanges(b) PROVE card \in stayed /\ drm'[card] = drm[card]
  BY <1>5 DEF BatteryChanges
<1> QED
  BY <1>2, <1>3, <1>4, <1>5 DEF MachineStep

(* A card found is one of those the path of a file leads to, if it has it. *)
LEMMA Reachable ==
    ASSUME TypesInv, card \in stayed, hwmon = HwmonOf(drm[card])
    PROVE  card \in CardNo /\ (card \in Readers(File) <=> Has(drm[card], File))
<1>1. card \in CardNo /\ drm[card] # Nothing
  BY DEF TypesInv, HistoryInv, AmdCards, IsAmd
<1>2. Tries(drm[card].hwmon) <=> hwmon # 0 /\ drm[card].hwmon = hwmon
  BY <1>1, Bounds DEF HwmonOf, Tries
<1> QED
  BY <1>1, <1>2 DEF Readers, Holder, Has

LEMMA WhatIsNext ==
    ASSUME figure \in 1 .. 26, NextFigure
    PROVE  /\ source' = 1
           /\ \/ at' = at /\ figure' = figure + 1 /\ figure < 26
              \/ at' \in {"find battery", "driver"} /\ figure = 26
<1>1. Len(Plan) = 26
  BY PlanLines
<1>2. AfterFigures \in {"find battery", "driver"}
  BY DEF AfterFigures
<1>3. /\ source' = 1
      /\ IF figure < 26 THEN figure' = figure + 1 /\ at' = at ELSE at' = AfterFigures
  BY <1>1 DEF NextFigure
<1>4. ~ (figure < 26) => figure = 26
  OBVIOUS
<1> QED
  BY <1>2, <1>3, <1>4

LEMMA NoneBeforeTheFirst ==
    ASSUME NEW i \in 1 .. 26
    PROVE  \A s \in DOMAIN Plan[i].files : ~ (s < 1)
<1> DEFINE n == Len(Plan[i].files)
<1>1. n \in Nat /\ DOMAIN Plan[i].files = 1 .. n
  BY PlanLines DEF WellFormed
<1> HIDE DEF n
<1> QED
  BY <1>1

(* When the figure being read is right, all are up to the next one. *)
LEMMA OneMore ==
    ASSUME TypesInv, CompleteInv, at = "read", NextFigure, UNCHANGED <<drm, card, hwmon, stayed>>,
           \A i \in 1 .. 26 : i # figure => got'[Plan[i].figure] = got[Plan[i].figure],
           card \in stayed => Right(got', figure, drm[card])
    PROVE  CompleteInv'
<1>1. figure \in 1 .. 26
  BY DEF TypesInv, ProgressInv
<1>2. /\ source' = 1
      /\ \/ at' = "read" /\ figure' = figure + 1 /\ figure < 26
         \/ at' \in {"find battery", "driver"} /\ figure = 26
  BY <1>1, WhatIsNext
<1>3. at' = "read" => \A i \in 1 .. 26 : i >= figure' => got'[Plan[i].figure] = 0
  <2> SUFFICES ASSUME at' = "read", NEW i \in 1 .. 26, i >= figure' PROVE got'[Plan[i].figure] = 0
    OBVIOUS
  <2>1. figure' = figure + 1
    BY <1>2
  <2>2. i >= figure /\ i # figure
    BY <1>1, <2>1
  <2> QED
    BY <2>2 DEF CompleteInv
<1>4. ASSUME card \in stayed, NEW i \in 1 .. 26, i <= figure PROVE Right(got', i, drm[card])
  <2>1. CASE i = figure
    BY <1>4, <2>1
  <2>2. CASE i # figure
    <3>1. i < figure
      BY <1>1, <1>4, <2>2
    <3>2. Right(got, i, drm[card])
      BY <1>4, <3>1 DEF CompleteInv
    <3> QED
      BY <2>2, <3>2 DEF Right
  <2> QED
    BY <2>1, <2>2
<1>5. CASE at' = "read"
  <2>1. figure' = figure + 1 /\ figure < 26
    BY <1>2, <1>5
  <2>2. \A i \in 1 .. 26 : i < figure' => i <= figure
    BY <1>1, <2>1
  <2>3. card \in stayed => \A i \in 1 .. 26 : i < figure' => Right(got', i, drm[card])
    BY <1>4, <2>2
  <2>4. \A s \in DOMAIN Plan[figure'].files : ~ (s < source')
    <3>1. figure' \in 1 .. 26
      BY <1>1, <2>1
    <3>2. \A s \in DOMAIN Plan[figure'].files : ~ (s < 1)
      BY <3>1, NoneBeforeTheFirst
    <3> QED
      BY <1>2, <3>2
  <2>5. card \in stayed => hwmon = HwmonOf(drm[card])
    BY DEF CompleteInv
  <2>6. "read" \notin After
    BY DEF After
  <2>7. card' = card /\ stayed' = stayed /\ drm' = drm /\ hwmon' = hwmon
    OBVIOUS
  <2>8. card' \in stayed' => hwmon' = HwmonOf(drm'[card'])
    BY <2>5, <2>7
  <2>9. card' \in stayed' => \A i \in 1 .. 26 : i < figure' => Right(got', i, drm'[card'])
    BY <2>3, <2>7
  <2>10. Tried(drm[card])'
    BY <2>4 DEF Tried
  <2> QED
    BY <1>3, <1>5, <2>6, <2>8, <2>9, <2>10 DEF CompleteInv, Right, HasOne
<1>6. CASE at' # "read"
  <2>1. figure = 26
    BY <1>2, <1>6
  <2>2. \A i \in 1 .. 26 : i <= figure
    BY <2>1
  <2>3. card \in stayed => \A i \in 1 .. 26 : Right(got', i, drm[card])
    BY <1>4, <2>2
  <2> QED
    BY <1>2, <1>6, <2>3 DEF CompleteInv, Right, HasOne
<1> QED
  BY <1>5, <1>6

LEMMA CompleteStep == ASSUME TypesInv, CompleteInv, [Next]_vars PROVE CompleteInv'
<1>1. MachineInv /\ ProgressInv /\ AnswerInv /\ stayed \subseteq CardNo /\ NoCard \notin CardNo
  BY Bounds DEF TypesInv, HistoryInv, AmdCards
<1>2. "read" \notin After /\ "idle" \notin After /\ "find card" \notin After /\ "find hwmon" \notin After
  BY DEF After
<1>3. CASE MachineStep
  <2>1. /\ at' = at /\ card' = card /\ hwmon' = hwmon /\ figure' = figure /\ source' = source /\ got' = got
    BY <1>3, MachineLeavesReader
  <2>2. card \in stayed' =>
          /\ card \in stayed /\ HwmonOf(drm'[card]) = HwmonOf(drm[card])
          /\ \A file : Has(drm'[card], file) <=> Has(drm[card], file)
          /\ drm'[card].id = drm[card].id
    <3> SUFFICES ASSUME card \in stayed'
                 PROVE  /\ card \in stayed /\ HwmonOf(drm'[card]) = HwmonOf(drm[card])
                        /\ \A file : Has(drm'[card], file) <=> Has(drm[card], file)
                        /\ drm'[card].id = drm[card].id
      OBVIOUS
    <3>1. /\ card \in stayed /\ drm'[card].id = drm[card].id
          /\ drm'[card].lacks = drm[card].lacks /\ drm'[card].hwmon = drm[card].hwmon
      BY <1>3, StayedKept
    <3>2. \A file : Has(drm'[card], file) <=> Has(drm[card], file)
      BY <3>1 DEF Has
    <3>3. drm[card] # Nothing /\ drm'[card] # Nothing
      <4>1. stayed \subseteq AmdCards /\ stayed' \subseteq AmdCards'
        BY <1>3, MachineTypes DEF TypesInv, HistoryInv
      <4> QED
        BY <3>1, <4>1 DEF AmdCards, IsAmd
    <3> QED
      BY <3>1, <3>2, <3>3 DEF HwmonOf
  <2>3. card \in stayed' => \A i \in 1 .. 26 : Right(got, i, drm[card]) => Right(got', i, drm'[card])
    <3> SUFFICES ASSUME card \in stayed', NEW i \in 1 .. 26, Right(got, i, drm[card])
                 PROVE  Right(got', i, drm'[card])
      OBVIOUS
    <3>1. HasOne(i, drm'[card]) <=> HasOne(i, drm[card])
      BY <2>2 DEF HasOne
    <3> QED
      BY <2>1, <2>2, <3>1 DEF Right
  <2>4. card \in stayed' /\ Tried(drm[card]) => Tried(drm[card])'
    BY <2>1, <2>2 DEF Tried
  <2>5. at # "read" => source = 1
    BY DEF CompleteInv
  <2>6. at = "read" => \A i \in 1 .. 26 : i >= figure => got[Plan[i].figure] = 0
    BY DEF CompleteInv
  <2>7. at = "read" /\ card \in stayed' =>
          /\ hwmon = HwmonOf(drm'[card])
          /\ \A i \in 1 .. 26 : i < figure => Right(got', i, drm'[card])
          /\ Tried(drm[card])'
    BY <2>2, <2>3, <2>4 DEF CompleteInv
  <2>8. at \in After /\ card \in stayed' => \A i \in 1 .. 26 : Right(got', i, drm'[card])
    BY <2>2, <2>3 DEF CompleteInv
  <2> QED
    BY <2>1, <2>5, <2>6, <2>7, <2>8 DEF CompleteInv, Right, HasOne
<1>4. CASE at' # "read" /\ source' = 1 /\ (at' \in After => card' \notin stayed')
  BY <1>4 DEF CompleteInv
<1>5. CASE FindHwmon
  <2>1. /\ at = "find hwmon" /\ at' = "read" /\ drm' = drm /\ card' = card /\ stayed' = stayed
        /\ figure' = figure /\ source' = source /\ got' = got
        /\ hwmon' = HwmonOf(drm[card])
    BY <1>5 DEF FindHwmon, machine, answer, history
  <2>2. figure = 1 /\ source = 1 /\ got = NoFigures
    BY <1>1, <2>1 DEF AnswerInv, CompleteInv
  <2>3. \A i \in 1 .. 26 : got'[Plan[i].figure] = 0
    BY <2>1, <2>2, PlanNames DEF NoFigures
  <2>4. card \in stayed => hwmon' = HwmonOf(drm[card])
    BY <2>1
  <2>5. \A i \in 1 .. 26 : ~ (i < figure')
    <3>1. figure' = 1
      BY <2>1, <2>2
    <3> QED
      BY <3>1
  <2>6. \A s \in DOMAIN Plan[figure'].files : ~ (s < source')
    <3>1. figure' = 1 /\ source' = 1
      BY <2>1, <2>2
    <3>2. \A s \in DOMAIN Plan[1].files : ~ (s < 1)
      BY NoneBeforeTheFirst
    <3> QED
      BY <3>1, <3>2
  <2>7. Tried(drm[card])'
    BY <2>6 DEF Tried
  <2> QED
    BY <1>2, <2>1, <2>3, <2>4, <2>5, <2>7 DEF CompleteInv
<1>6. CASE ReadValue
  <2>1. PICK n \in Readers(File) : got' = [got EXCEPT ![Plan[figure].figure] = drm[n].id]
    BY <1>6 DEF ReadValue
  <2>2. n = card /\ figure \in 1 .. 26 /\ source \in DOMAIN Plan[figure].files
    BY <1>1, <2>1 DEF Readers, Holder, ProgressInv
  <2>3. /\ at = "read" /\ NextFigure /\ UNCHANGED <<drm, card, hwmon, stayed>>
    BY <1>6 DEF ReadValue, machine, history
  <2>4. \A i \in 1 .. 26 : i # figure => got'[Plan[i].figure] = got[Plan[i].figure]
    BY <1>1, <2>1, <2>2, PlanNames DEF AnswerInv
  <2>5. got'[Plan[figure].figure] = drm[card].id
    BY <1>1, <2>1, <2>2, PlanNames DEF AnswerInv
  <2>6. card \in stayed => HasOne(figure, drm[card])
    <3>1. card \in stayed => Has(drm[card], File)
      BY <2>1, <2>2, <2>3, Reachable DEF CompleteInv
    <3> QED
      BY <2>2, <3>1 DEF HasOne, File
  <2>7. card \in stayed => Right(got', figure, drm[card])
    BY <2>5, <2>6 DEF Right
  <2> QED
    BY <2>3, <2>4, <2>7, OneMore
<1>7. CASE FallBack
  <2>1. /\ at = "read" /\ Readers(File) = {} /\ UNCHANGED <<drm, card, hwmon, got, stayed>>
        /\ figure \in 1 .. 26 /\ source \in DOMAIN Plan[figure].files
    BY <1>1, <1>7 DEF FallBack, ProgressInv, machine, answer, history
  <2>2. card \in stayed => hwmon = HwmonOf(drm[card]) /\ ~ Has(drm[card], File)
    BY <2>1, Reachable DEF CompleteInv
  <2>3. /\ Len(Plan[figure].files) \in Nat
        /\ DOMAIN Plan[figure].files = 1 .. Len(Plan[figure].files)
    BY <2>1, PlanLines DEF WellFormed
  <2>4. card \in stayed => \A s \in DOMAIN Plan[figure].files :
                              s <= source => ~ Has(drm[card], Plan[figure].files[s])
    <3> SUFFICES ASSUME card \in stayed, NEW s \in DOMAIN Plan[figure].files, s <= source
                 PROVE  ~ Has(drm[card], Plan[figure].files[s])
      OBVIOUS
    <3>1. CASE s = source
      BY <2>2, <3>1 DEF File
    <3>2. CASE s # source
      <4>1. s < source
        BY <2>1, <2>3, <3>2
      <4> QED
        BY <2>1, <4>1 DEF CompleteInv, Tried
    <3> QED
      BY <3>1, <3>2
  <2>5. CASE source < Len(Plan[figure].files)
    <3>1. source' = source + 1 /\ figure' = figure /\ at' = at
      BY <1>7, <2>5 DEF FallBack
    <3>2. \A s \in DOMAIN Plan[figure].files : s < source' => s <= source
      BY <2>1, <2>3, <3>1
    <3>3. card \in stayed => Tried(drm[card])'
      BY <2>1, <2>4, <3>1, <3>2 DEF Tried
    <3>4. card \in stayed => \A i \in 1 .. 26 : i < figure => Right(got, i, drm[card])
      BY <2>1 DEF CompleteInv
    <3>5. \A i \in 1 .. 26 : i >= figure => got[Plan[i].figure] = 0
      BY <2>1 DEF CompleteInv
    <3> QED
      BY <1>2, <2>1, <2>2, <3>1, <3>3, <3>4, <3>5 DEF CompleteInv, Right, HasOne
  <2>6. CASE ~ (source < Len(Plan[figure].files))
    <3>1. NextFigure
      BY <1>7, <2>6 DEF FallBack
    <3>2. card \in stayed => ~ HasOne(figure, drm[card])
      <4>1. \A s \in DOMAIN Plan[figure].files : s <= source
        BY <2>1, <2>3, <2>6
      <4> QED
        BY <2>4, <4>1 DEF HasOne
    <3>3. got'[Plan[figure].figure] = 0
      BY <2>1 DEF CompleteInv
    <3>4. card \in stayed => Right(got', figure, drm[card])
      BY <3>2, <3>3 DEF Right
    <3> QED
      BY <2>1, <3>1, <3>4, OneMore
  <2> QED
    BY <2>5, <2>6
<1>8. CASE ReadDriver \/ FindBattery \/ ReadCapacity \/ ReadStatus
  <2>1. /\ at \in After /\ at' \in After /\ UNCHANGED <<drm, card, stayed, source>>
        /\ \A f \in Figures : f # "driver_version" => got'[f] = got[f]
    <3>1. CASE ReadDriver
      BY <1>1, <3>1 DEF ReadDriver, After, machine, history, AnswerInv
    <3>2. CASE FindBattery \/ ReadCapacity \/ ReadStatus
      BY <3>2 DEF FindBattery, ReadCapacity, ReadStatus, BatteryStep, After, machine, history
    <3> QED
      BY <1>8, <3>1, <3>2
  <2>2. at' # "read" /\ source' = 1
    BY <1>2, <2>1 DEF CompleteInv
  <2>3. \A i \in 1 .. 26 : got'[Plan[i].figure] = got[Plan[i].figure]
    BY <2>1, PlanNames
  <2>4. card \in stayed => \A i \in 1 .. 26 : Right(got', i, drm[card])
    BY <2>1, <2>3 DEF CompleteInv, Right
  <2> QED
    BY <2>1, <2>2, <2>4 DEF CompleteInv, Right, HasOne
<1>9. CASE UNCHANGED vars
  BY <1>9 DEF vars, machine, progress, answer, history, CompleteInv, Right, HasOne, Tried
<1>10. CASE Probe
  <2>1. at = "find card" /\ source' = source /\ stayed' = stayed /\ card = NoCard
    BY <1>1, <1>10 DEF Probe, history, ProgressInv
  <2>2. at' # "read" /\ (at' \in After => card' = card)
    BY <1>2, <1>10 DEF Probe, AfterGpu
  <2> QED
    BY <1>1, <1>4, <2>1, <2>2 DEF CompleteInv
<1>11. CASE Finish
  BY <1>2, <1>4, <1>11 DEF Finish
<1>12. ASSUME NEW c \in {"get_stats", "get_static_info", "get_battery"}, Begin(c) PROVE CompleteInv'
  <2>1. at' \in {"find battery", "find card"} /\ at = "idle" /\ source' = source /\ card' = card
        /\ stayed' = AmdCards
    BY <1>12 DEF Begin
  <2>2. card' \notin stayed' /\ source' = 1
    BY <1>1, <2>1 DEF ProgressInv, CompleteInv, AmdCards
  <2> QED
    BY <1>4, <2>1, <2>2
<1> QED
  BY <1>3, <1>5, <1>6, <1>7, <1>8, <1>9, <1>10, <1>11, <1>12 DEF Next, ReaderStep

-------------------------------------------------------------------------------
(* The theorems.                                                               *)

IInv == TypesInv /\ SearchInv /\ SameCard /\ VramInv /\ CompleteInv /\ BatteryInv

LEMMA InitInv == Init => IInv
<1> SUFFICES ASSUME Init PROVE IInv
  OBVIOUS
<1>1. TypesInv
  BY InitTypes
<1>2. SearchInv
  BY DEF Init, SearchInv
<1>3. SameCard
  <2>1. Genuine = {}
    BY DEF Init, Genuine, NoFigures
  <2> QED
    BY <2>1 DEF SameCard
<1>4. VramInv
  BY NoVramFits DEF Init, VramInv
<1>5. BatteryInv
  BY DEF Init, BatteryInv, SteadyBatteryIsShown
<1>6. CompleteInv
  BY DEF Init, CompleteInv, After
<1> QED
  BY <1>1, <1>2, <1>3, <1>4, <1>5, <1>6 DEF IInv

LEMMA NextInv == IInv /\ [Next]_vars => IInv'
BY TypesStep, SearchStep, SameCardStep, VramStep, CompleteStep, BatteryStepKept DEF IInv

(* gpu_amd.rs:153-340, battery.rs:20-66: every reading keeps to its types: the *)
(* number of a card once one is found, a figure of the plan, a file of it.     *)
THEOREM TypeCorrect == Spec => []TypeOK
<1>1. Spec => []IInv
  BY InitInv, NextInv, PTL DEF Spec
<1>2. IInv => TypeOK
  BY TypesGive DEF IInv
<1> QED
  BY <1>1, <1>2, PTL

(* gpu_amd.rs:244-340: unless the number of the card found is taken by another *)
(* one meanwhile, no answer has figures of two cards.                          *)
THEOREM OneCard == Spec => []OneCardPerReading
<1>1. Spec => []IInv
  BY InitInv, NextInv, PTL DEF Spec
<1>2. IInv => OneCardPerReading
  BY DEF IInv, SameCard, OneCardPerReading
<1> QED
  BY <1>1, <1>2, PTL

(* gpu_amd.rs:157-168: of the card numbers it tries, the search passes over no   *)
(* AMD card that is there all the time.                                          *)
THEOREM SteadyFound == Spec => []SteadyCardIsFound
<1>1. Spec => []IInv
  BY InitInv, NextInv, PTL DEF Spec
<1>2. IInv => SteadyCardIsFound
  BY DEF IInv, SearchInv, SteadyCardIsFound
<1> QED
  BY <1>1, <1>2, PTL

(* gpu_amd.rs:273-328: when the card found stays, an answer has each figure one  *)
(* of whose files the card has, whichever of them it is, and no other; the files *)
(* of a hwmon directory past the last number that is tried (93) do not count.    *)
THEOREM SteadyComplete == Spec => []SteadyCardIsComplete
<1>1. Spec => []IInv
  BY InitInv, NextInv, PTL DEF Spec
<1>2. IInv => SteadyCardIsComplete
  BY CompleteGives DEF IInv
<1> QED
  BY <1>1, <1>2, PTL

(* gpu_amd.rs:250-258: unless another card takes the number of the one found,   *)
(* no answer has more VRAM in use than there is, though the use changes and the  *)
(* card may go between the two files.                                            *)
THEOREM VramAlwaysFits == Spec => []VramFits
<1>1. Spec => []IInv
  BY InitInv, NextInv, PTL DEF Spec
<1>2. IInv => VramFits
  BY DEF IInv, VramInv, VramFits
<1> QED
  BY <1>1, <1>2, PTL

(* battery.rs:20-66: while no battery comes or goes, the three fields are those *)
(* of the first one there is.                                                   *)
THEOREM SteadyBattery == Spec => []SteadyBatteryIsShown
<1>1. Spec => []IInv
  BY InitInv, NextInv, PTL DEF Spec
<1>2. IInv => SteadyBatteryIsShown
  BY DEF IInv, BatteryInv
<1> QED
  BY <1>1, <1>2, PTL
===============================================================================
