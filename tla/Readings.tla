------------------------------- MODULE Readings -------------------------------
(***************************************************************************)
(* read_gpu_stats, read_gpu_static and read_battery_stats: what a command  *)
(* reads from sysfs outside the cells of MetricsState.  A reading looks    *)
(* for the first AMD card and its hwmon directory, then opens some thirty  *)
(* files one after the other; each may be missing, on this card for good   *)
(* or because the card has just gone, and some figures have a second and   *)
(* third file to fall back on.  get_stats then does the same with a        *)
(* battery; get_battery only that; get_static_info reads a driver version. *)
(*                                                                         *)
(* A value is kept as the id of the device it was read from, which is what *)
(* can be wrong with it; of the two VRAM figures the number is kept too.   *)
(* An empty or unparsable file counts as missing, as it does in the code.  *)
(***************************************************************************)
EXTENDS Naturals, Sequences

CONSTANTS
    MaxCard,        \* the machine's cards are card0 .. card<MaxCard>
    LastCard,       \* the last number find_amd_card tries: 9 in the code
    LastHwmon,      \* the last one find_hwmon tries, hwmon0 counted as 1: 10 in the code
    Asic,           \* kinds of AMD card: the files each kind lacks
    Foreign,        \* the files another vendor's card lacks
    MaxVram,        \* bound of the VRAM in use
    MaxChanges      \* how often a card or battery comes or goes, or VRAM use changes

(* The driver makes the two VRAM files together.  The machine may have more
   cards, and more hwmon directories, than the code tries. *)
ASSUME ReadingsAssumption ==
    /\ MaxCard \in Nat /\ LastCard \in Nat /\ LastHwmon \in Nat /\ MaxVram \in Nat /\ MaxChanges \in Nat
    /\ Foreign \notin Asic
    /\ \A kind \in Asic \cup {Foreign} :
          "mem_info_vram_total" \in kind => "mem_info_vram_used" \in kind

VARIABLES
    drm,        \* the card with each number, or Nothing
    supply,     \* the battery with each name, or 0
    changes,    \* changes of the machine so far
    call,       \* the command whose reading this is
    at,         \* what the reading does next
    probe,      \* the card number find_amd_card looks at
    card,       \* the number of the card found, or NoCard
    hwmon,      \* the number of its hwmon directory, 0 if none was found
    figure,     \* which line of Plan is being read
    source,     \* which of its files
    got,        \* where the figures come from: a device id, or 0 for none
    vram,       \* the two VRAM figures
    bat,        \* where has_battery, capacity and status come from
    stayed,     \* history: AMD cards that have been there since it began
    came,       \* history: card numbers taken since it began
    steady      \* history: no battery has come or gone since it began

machine == <<drm, supply, changes>>
progress == <<call, at, probe, card, hwmon, figure, source>>
answer == <<got, vram, bat>>
history == <<stayed, came, steady>>
vars == <<machine, progress, answer, history>>

CardNo == 0 .. MaxCard
NoCard == MaxCard + 1
Nothing == [id |-> 0]

(* find_battery tries BAT0, then BAT1, then whatever else starts with BAT. *)
Supplies == <<"BAT0", "BAT1", "BATC">>

Device(id, kind, h) == [id |-> id, lacks |-> kind, hwmon |-> h, used |-> 0]
NewId == MaxCard + 2 + changes
IsAmd(n) == n \in CardNo /\ drm[n] # Nothing /\ drm[n].lacks \in Asic
AmdCards == {n \in CardNo : IsAmd(n)}

-------------------------------------------------------------------------------
(* The figures in the order the code reads them, each with its files. *)

Dev(file) == <<"device", file>>
Mon(file) == <<"hwmon", file>>
Line(name, files) == [figure |-> name, files |-> files]

Identity == <<
    Line("pci_slot",      <<Dev("uevent")>>),
    Line("pci_device_id", <<Dev("uevent"), Dev("device")>>),
    Line("unique_id",     <<Dev("unique_id")>>),
    Line("name",          <<Dev("product_name"), Dev("model"), Dev("device in pci.ids")>>)>>

Sensors == <<
    Line("gtt_used_mb",   <<Dev("mem_info_gtt_used")>>),
    Line("gtt_total_mb",  <<Dev("mem_info_gtt_total")>>),
    Line("temperature_c", <<Mon("temp1_input")>>),
    Line("temperature_junction_c", <<Mon("temp2_input")>>),
    Line("temperature_memory_c",   <<Mon("temp3_input")>>),
    Line("power_w",       <<Mon("power1_average"), Mon("power1_input")>>),
    Line("power_cap_w",   <<Mon("power1_cap")>>),
    Line("power_cap_max_w", <<Mon("power1_cap_max")>>),
    Line("core_clock_mhz",   <<Mon("freq1_input"), Dev("pp_dpm_sclk")>>),
    Line("memory_clock_mhz", <<Mon("freq2_input"), Dev("pp_dpm_mclk")>>),
    Line("vddgfx_mv",     <<Mon("in0_input")>>),
    Line("vddnb_mv",      <<Mon("in1_input")>>),
    Line("fan_speed_pct", <<Mon("pwm1")>>),
    Line("fan_rpm",       <<Mon("fan1_input")>>),
    Line("fan_max_rpm",   <<Mon("fan1_max")>>),
    Line("pcie_gen",      <<Dev("current_link_speed")>>),
    Line("pcie_width",    <<Dev("current_link_width")>>),
    Line("pcie_max_gen",  <<Dev("max_link_speed")>>),
    Line("pcie_max_width", <<Dev("max_link_width")>>)>>

Busy == Line("utilization_gpu", <<Dev("gpu_busy_percent")>>)
VramTotal == Line("memory_total_mb", <<Dev("mem_info_vram_total")>>)
VramUsed == Line("memory_used_mb", <<Dev("mem_info_vram_used")>>)

(* Variant: the VRAM in use is read before the VRAM there is. *)
PlanUsedFirst == <<Busy, VramUsed, VramTotal>> \o Sensors \o Identity

Plan == <<Busy, VramTotal, VramUsed>> \o Sensors \o Identity

Figures == {Plan[i].figure : i \in DOMAIN Plan} \cup {"driver_version"}
NoFigures == [f \in Figures |-> 0]
NoVram == [total |-> 0, used |-> 0]
NoBattery == [has |-> 0, percent |-> 0, status |-> 0]

Init ==
    /\ drm \in [CardNo -> {Nothing}
                  \cup {Device(n + 1, kind, n + 1) : n \in CardNo, kind \in Asic \cup {Foreign}}]
    /\ \A n \in CardNo : drm[n].id \in {0, n + 1}
    /\ supply \in {[b \in {"BAT0", "BAT1", "BATC"} |-> IF b \in there THEN 1 ELSE 0] :
                     there \in {{}, {"BAT0", "BAT1"}}}
    /\ changes = 0
    /\ call = "get_stats" /\ at = "idle"
    /\ probe = 0 /\ card = NoCard /\ hwmon = 0 /\ figure = 1 /\ source = 1
    /\ got = NoFigures /\ vram = NoVram /\ bat = NoBattery
    /\ stayed = {} /\ came = {} /\ steady = TRUE

-------------------------------------------------------------------------------
(* The machine. *)

Changes == changes < MaxChanges /\ changes' = changes + 1

CardLeaves(n) ==
    /\ Changes
    /\ drm[n] # Nothing
    /\ drm' = [drm EXCEPT ![n] = Nothing]
    /\ stayed' = stayed \ {n}
    /\ UNCHANGED <<supply, progress, answer, came, steady>>

(* The numbers of hwmon directories are counted over the whole machine. *)
FreeHwmon(h) == h = 0 \/ \A n \in CardNo : drm[n] # Nothing => drm[n].hwmon # h

(* A card is plugged in or bound to its driver, and takes a free number, as
   does its hwmon directory; or that is late, or its number too high, and cannot
   be found (0). *)
CardComes(n, kind, h) ==
    /\ Changes
    /\ drm[n] = Nothing /\ FreeHwmon(h)
    /\ drm' = [drm EXCEPT ![n] = Device(NewId, kind, h)]
    /\ came' = IF at = "idle" THEN came ELSE came \cup {n}
    /\ UNCHANGED <<supply, progress, answer, stayed, steady>>

VramUseChanges(n, used) ==
    /\ Changes
    /\ IsAmd(n) /\ drm[n].used # used
    /\ drm' = [drm EXCEPT ![n].used = used]
    /\ UNCHANGED <<supply, progress, answer, history>>

BatteryChanges(b) ==
    /\ Changes
    /\ supply' = [supply EXCEPT ![b] = IF @ = 0 THEN NewId ELSE 0]
    /\ steady' = (at = "idle")
    /\ UNCHANGED <<drm, progress, answer, stayed, came>>

-------------------------------------------------------------------------------
(* One reading. *)

(* get_battery has nothing to do with cards. *)
Begin(c) ==
    /\ at = "idle"
    /\ call' = c
    /\ at' = IF c = "get_battery" THEN "find battery" ELSE "find card"
    /\ stayed' = AmdCards /\ came' = {} /\ steady' = TRUE
    /\ UNCHANGED <<machine, probe, card, hwmon, figure, source, answer>>

(* The answer goes out and the locals of the call with it. *)
Finish ==
    /\ at = "answered"
    /\ call' = "get_stats" /\ at' = "idle"
    /\ probe' = 0 /\ card' = NoCard /\ hwmon' = 0 /\ figure' = 1 /\ source' = 1
    /\ got' = NoFigures /\ vram' = NoVram /\ bat' = NoBattery
    /\ stayed' = {} /\ came' = {} /\ steady' = TRUE
    /\ UNCHANGED machine

AfterFigures == IF call = "get_stats" THEN "find battery" ELSE "driver"
AfterGpu == IF call = "get_stats" THEN "find battery" ELSE "answered"

(* Variant: only the first card is looked at. *)
ProbeFirstOnly ==
    /\ at = "find card"
    /\ IF IsAmd(probe) THEN card' = probe /\ at' = "find hwmon"
                       ELSE at' = AfterGpu /\ UNCHANGED card
    /\ UNCHANGED <<machine, call, probe, hwmon, figure, source, answer, history>>

(* find_amd_card: the next number, until a vendor file says AMD.  It stops at
   LastCard, whatever other cards there are. *)
Probe ==
    /\ at = "find card"
    /\ \/ IsAmd(probe) /\ card' = probe /\ at' = "find hwmon" /\ UNCHANGED probe
       \/ ~IsAmd(probe) /\ probe < LastCard /\ probe' = probe + 1 /\ UNCHANGED <<card, at>>
       \/ ~IsAmd(probe) /\ probe = LastCard /\ at' = AfterGpu /\ UNCHANGED <<card, probe>>
    /\ UNCHANGED <<machine, call, hwmon, figure, source, answer, history>>

(* The number find_hwmon finds in the directory of a card. *)
Tries(h) == h \in 1 .. LastHwmon
HwmonOf(c) == IF c # Nothing /\ Tries(c.hwmon) THEN c.hwmon ELSE 0

(* find_hwmon: a directory with a number above LastHwmon is as good as none. *)
FindHwmon ==
    /\ at = "find hwmon"
    /\ hwmon' = HwmonOf(drm[card])
    /\ at' = "read"
    /\ UNCHANGED <<machine, call, probe, card, figure, source, answer, history>>

(* Variant: hwmon directories are looked up among those of all cards. *)
HolderAnywhere(file) ==
    IF file[1] = "hwmon"
    THEN {n \in CardNo : drm[n] # Nothing /\ hwmon # 0 /\ drm[n].hwmon = hwmon}
    ELSE {n \in CardNo : n = card /\ drm[n] # Nothing}

(* The cards in whose directory the path of a file leads: the number and, for
   a sensor, the hwmon number are in the path, the device is not. *)
Holder(file) ==
    {n \in CardNo : /\ n = card /\ drm[n] # Nothing
                    /\ file[1] = "hwmon" => hwmon # 0 /\ drm[n].hwmon = hwmon}

Readers(file) == {n \in Holder(file) : file[2] \notin drm[n].lacks}

(* Variant: the next figure begins where this one has ended. *)
NextFigureKeepsSource ==
    /\ UNCHANGED source
    /\ IF figure < Len(Plan) THEN figure' = figure + 1 /\ UNCHANGED at
                             ELSE figure' = 1 /\ at' = AfterFigures

NextFigure ==
    /\ source' = 1
    /\ IF figure < Len(Plan) THEN figure' = figure + 1 /\ UNCHANGED at
                             ELSE figure' = 1 /\ at' = AfterFigures

File == Plan[figure].files[source]

ReadValue ==
    /\ at = "read"
    /\ \E n \in Readers(File) :
         /\ got' = [got EXCEPT ![Plan[figure].figure] = drm[n].id]
         /\ vram' = CASE Plan[figure] = VramTotal -> [vram EXCEPT !.total = MaxVram]
                      [] Plan[figure] = VramUsed  -> [vram EXCEPT !.used = drm[n].used]
                      [] OTHER                    -> vram
    /\ NextFigure
    /\ UNCHANGED <<machine, call, probe, card, hwmon, bat, history>>

(* Variant: no file to fall back on. *)
FallBackNever ==
    /\ at = "read"
    /\ Readers(File) = {}
    /\ NextFigure
    /\ UNCHANGED <<machine, call, probe, card, hwmon, answer, history>>

(* The file cannot be read: the next one for this figure, or no figure. *)
FallBack ==
    /\ at = "read"
    /\ Readers(File) = {}
    /\ IF source < Len(Plan[figure].files)
       THEN source' = source + 1 /\ UNCHANGED <<figure, at>>
       ELSE NextFigure
    /\ UNCHANGED <<machine, call, probe, card, hwmon, answer, history>>

(* read_gpu_static: the driver version is read in the directory of card0,
   whichever card has been found. *)
ReadDriver ==
    /\ at = "driver"
    /\ got' = [got EXCEPT !["driver_version"] =
                IF 0 \in CardNo /\ drm[0] # Nothing /\ "driver/module/version" \notin drm[0].lacks
                THEN drm[0].id ELSE 0]
    /\ at' = "answered"
    /\ UNCHANGED <<machine, call, probe, card, hwmon, figure, source, vram, bat, history>>

Here(b) == supply[Supplies[b]]
Found == {b \in DOMAIN Supplies : Here(b) # 0}
First(found) == CHOOSE b \in found : \A x \in found : b <= x

BatteryStep(value) ==
    /\ bat' = value
    /\ UNCHANGED <<machine, call, card, hwmon, figure, source, got, vram, history>>

(* Variant: any battery will do. *)
FindBatteryAny ==
    /\ at = "find battery"
    /\ \/ Found = {} /\ at' = "answered" /\ UNCHANGED probe /\ BatteryStep(bat)
       \/ \E b \in Found :
            at' = "capacity" /\ probe' = b /\ BatteryStep([bat EXCEPT !.has = Here(b)])

(* find_battery, then its capacity, then its status. *)
FindBattery ==
    /\ at = "find battery"
    /\ \/ Found = {} /\ at' = "answered" /\ UNCHANGED probe /\ BatteryStep(bat)
       \/ /\ Found # {}
          /\ at' = "capacity" /\ probe' = First(Found)
          /\ BatteryStep([bat EXCEPT !.has = Here(First(Found))])

ReadCapacity ==
    /\ at = "capacity"
    /\ at' = "status" /\ UNCHANGED probe
    /\ BatteryStep([bat EXCEPT !.percent = Here(probe)])

ReadStatus ==
    /\ at = "status"
    /\ at' = "answered" /\ UNCHANGED probe
    /\ BatteryStep([bat EXCEPT !.status = Here(probe)])

MachineStep ==
    \/ \E n \in CardNo :
         \/ CardLeaves(n)
         \/ \E kind \in Asic \cup {Foreign}, h \in 0 .. LastHwmon : CardComes(n, kind, h)
         \/ \E used \in 0 .. MaxVram : VramUseChanges(n, used)
    \/ \E b \in {"BAT0", "BATC"} : BatteryChanges(b)

ReaderStep ==
    \/ Probe \/ FindHwmon \/ ReadValue \/ FallBack \/ ReadDriver
    \/ FindBattery \/ ReadCapacity \/ ReadStatus

Next ==
    \/ MachineStep
    \/ \E c \in {"get_stats", "get_static_info", "get_battery"} : Begin(c)
    \/ ReaderStep
    \/ Finish

Spec == Init /\ [][Next]_vars

-------------------------------------------------------------------------------
Ids == 0 .. MaxCard + MaxChanges + 2

Stages == {"idle", "find card", "find hwmon", "read", "driver", "find battery",
           "capacity", "status", "answered"}

TypeOK ==
    /\ \A n \in CardNo : drm[n] = Nothing \/ (drm[n].id \in Ids /\ drm[n].used <= MaxVram)
    /\ supply \in [{"BAT0", "BAT1", "BATC"} -> Ids]
    /\ changes \in 0 .. MaxChanges
    /\ call \in {"get_stats", "get_static_info", "get_battery"} /\ at \in Stages
    /\ probe \in Nat /\ card \in CardNo \cup {NoCard} /\ hwmon \in Nat
    /\ at \in {"find hwmon", "read", "driver"} => card \in CardNo
    /\ figure \in DOMAIN Plan /\ source \in DOMAIN Plan[figure].files
    /\ got \in [Figures -> Ids]
    /\ vram \in [total : {0, MaxVram}, used : 0 .. MaxVram]
    /\ bat \in [has : Ids, percent : Ids, status : Ids]
    /\ stayed \subseteq AmdCards /\ came \subseteq CardNo /\ steady \in BOOLEAN

(* gpu_amd.rs:244-340: the files of an answer are opened one by one, but their
   paths lead to the card found; unless its number has been taken by another
   card meanwhile, no answer has figures of two cards.  The driver version of
   get_static_info, always read from card0, belongs to it only when that is the
   card found. *)
Genuine == {f \in Figures : got[f] # 0 /\ (f = "driver_version" => card = 0)}

OneCardPerReading ==
    card \notin came => \A f, g \in Genuine : got[f] = got[g]

(* gpu_amd.rs:273-328: when the card found is there from the beginning of the
   reading to its end, an answer has each figure one of whose files the card
   has, and no other.  Of a hwmon directory past the last number find_hwmon
   tries (gpu_amd.rs:93), it has none: such a card has no sensors, and only the
   figures with a file of the card itself to fall back on. *)
Has(c, file) ==
    file[2] \notin c.lacks /\ (file[1] = "hwmon" => Tries(c.hwmon))

SteadyCardIsComplete ==
    at = "answered" /\ card \in stayed =>
        \A i \in DOMAIN Plan :
            got[Plan[i].figure] = IF \E s \in DOMAIN Plan[i].files : Has(drm[card], Plan[i].files[s])
                                  THEN drm[card].id ELSE 0

(* gpu_amd.rs:157-168: no answer is without a GPU, or about a later card, while
   an AMD card with a lower number, of those find_amd_card tries, has been there
   all the time. *)
SteadyCardIsFound ==
    at \notin {"idle", "find card"} /\ call # "get_battery" =>
        \A n \in stayed : n <= LastCard => card <= n

(* gpu_amd.rs:250-258: total and used VRAM are two files.  The total is read
   first: a card that goes in between leaves a total without use, never a use
   above the total. *)
VramFits == card \notin came => vram.used <= vram.total

(* battery.rs:20-66: when no battery comes or goes during the reading, the
   answer is about the first there is, in all three of its fields. *)
SteadyBatteryIsShown ==
    at = "answered" /\ steady /\ call # "get_static_info" =>
        LET id == IF Found = {} THEN 0 ELSE Here(First(Found))
        IN  bat = [has |-> id, percent |-> id, status |-> id]

===============================================================================
