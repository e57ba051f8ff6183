------------------------------- MODULE TextLines -------------------------------
(***************************************************************************)
(* The loops over the lines of /proc/cpuinfo, /etc/os-release,             *)
(* /proc/meminfo, /etc/passwd, /proc/<pid>/status and pci.ids: for each,   *)
(* the locals before the first line, what one line does to them, and what  *)
(* they are to be after a sequence s of lines, said without a loop.        *)
(*                                                                         *)
(* A line is a record of its indent, a key and a value.  A line the loop   *)
(* takes nothing from (no separator, a comment, no number where there      *)
(* should be one) has the key "".  A value that is empty or is no number   *)
(* is "".                                                                  *)
(***************************************************************************)
EXTENDS Naturals, Sequences, FiniteSets

Lines(s, key) == {i \in DOMAIN s : s[i].key = key}

(* v is the value of the first line with this key that has one, or "". *)
IsFirst(s, key, v) ==
    LET some == {i \in Lines(s, key) : s[i].value # ""}
    IN  \/ some = {} /\ v = ""
        \/ \E i \in some : v = s[i].value /\ \A j \in some : i <= j

(* v is the value of the last line with this key, or none. *)
IsLast(s, key, v, none) ==
    \/ Lines(s, key) = {} /\ v = none
    \/ \E i \in Lines(s, key) : v = s[i].value /\ \A j \in Lines(s, key) : j <= i

-------------------------------------------------------------------------------
(* parse_cpuinfo *)

CpuinfoStart ==
    [brand |-> "", mhz |-> "", cache |-> "", count |-> 0, cores |-> {}, packages |-> {}]

Unless(old, value) == IF old = "" THEN value ELSE old

CpuinfoLine(a, l) ==
    CASE l.key = "model name"  -> [a EXCEPT !.brand = Unless(@, l.value)]
      [] l.key = "cpu MHz"     -> [a EXCEPT !.mhz = Unless(@, l.value)]
      [] l.key = "cache size"  -> [a EXCEPT !.cache = Unless(@, l.value)]
      [] l.key = "processor"   -> [a EXCEPT !.count = @ + 1]
      [] l.key = "core id"     -> [a EXCEPT !.cores = @ \cup {l.value}]
      [] l.key = "physical id" -> [a EXCEPT !.packages = @ \cup {l.value}]
      [] OTHER                 -> a

CpuinfoIsRead(a, s) ==
    /\ IsFirst(s, "model name", a.brand)
    /\ IsFirst(s, "cpu MHz", a.mhz)
    /\ IsFirst(s, "cache size", a.cache)
    /\ a.count = Cardinality(Lines(s, "processor"))
    /\ a.cores = {s[i].value : i \in Lines(s, "core id")}
    /\ a.packages = {s[i].value : i \in Lines(s, "physical id")}

(* What becomes of the two sets at the end. *)
PhysicalCores(a) == IF a.cores = {} THEN a.count ELSE Cardinality(a.cores)
Sockets(a) == IF a.packages = {} THEN 1 ELSE Cardinality(a.packages)

-------------------------------------------------------------------------------
(* parse_os_release *)

OsReleaseStart == [distro |-> "", release |-> ""]

OsReleaseLine(a, l) ==
    CASE l.key = "NAME"       -> [a EXCEPT !.distro = l.value]
      [] l.key = "VERSION_ID" -> [a EXCEPT !.release = l.value]
      [] OTHER                -> a

OsReleaseIsRead(a, s) ==
    IsLast(s, "NAME", a.distro, "") /\ IsLast(s, "VERSION_ID", a.release, "")

-------------------------------------------------------------------------------
(* parse_meminfo and load_passwd_cache: a map from memory figures to bytes, and
   one from user ids to names. *)

MapStart == [k \in {} |-> 0]

(* Variant: an entry that is there stays. *)
MapLineKept(a, l) ==
    IF l.key = "" \/ l.key \in DOMAIN a THEN a
    ELSE [k \in DOMAIN a \cup {l.key} |-> IF k = l.key THEN l.value ELSE a[k]]

MapLine(a, l) ==
    IF l.key = "" THEN a
    ELSE [k \in DOMAIN a \cup {l.key} |-> IF k = l.key THEN l.value ELSE a[k]]

MapIsRead(a, s) ==
    /\ DOMAIN a = {s[i].key : i \in DOMAIN s} \ {""}
    /\ \A k \in DOMAIN a : IsLast(s, k, a[k], 0)

(* build_stats, with the percentage in tenths, rounded. *)
Entry(a, key) == IF key \in DOMAIN a THEN a[key] ELSE 0
Difference(x, y) == IF x < y THEN 0 ELSE x - y

MemStats(a) ==
    LET total == Entry(a, "MemTotal")
        used  == Difference(total, Entry(a, "MemFree"))
    IN  [total |-> total, used |-> used,
         swap_total |-> Entry(a, "SwapTotal"),
         swap_used  |-> Difference(Entry(a, "SwapTotal"), Entry(a, "SwapFree")),
         tenths |-> IF total > 0 THEN (2000 * used + total) \div (2 * total) ELSE 0]

(* lookup_user *)
LookupUser(uid, users) == IF uid \in DOMAIN users THEN users[uid] ELSE "-"

-------------------------------------------------------------------------------
(* read_uid: the first line that begins with Uid: decides, even when there is
   no number behind it. *)

UidStart == [done |-> FALSE, uid |-> ""]

UidLine(a, l) == IF l.key = "Uid" THEN [done |-> TRUE, uid |-> l.value] ELSE a

UidIsRead(a, s) ==
    IF a.done THEN s # <<>> /\ Lines(s, "Uid") = {Len(s)} /\ a.uid = s[Len(s)].value
              ELSE Lines(s, "Uid") = {} /\ a.uid = ""

-------------------------------------------------------------------------------
(* lookup_hwdata_name: vendors are not indented, their devices are once and the
   subsystems of these, whose key is a pair of ids, twice. *)

PciStart == [done |-> FALSE, inVendor |-> FALSE, name |-> ""]

PciLine(a, l, vendor, device) ==
    IF l.key = "" THEN a
    ELSE IF l.indent = 0 THEN [a EXCEPT !.inVendor = (l.key = vendor)]
    ELSE IF a.inVendor /\ l.key = device THEN [a EXCEPT !.done = TRUE, !.name = l.value]
    ELSE a

Headers(s) == {i \in DOMAIN s : s[i].key # "" /\ s[i].indent = 0}

(* Whether line i is under the vendor. *)
UnderVendor(s, i, vendor) ==
    \E h \in Headers(s) : h <= i /\ s[h].key = vendor /\ \A g \in Headers(s) : g <= i => g <= h

DeviceLines(s, vendor, device) ==
    {i \in Lines(s, device) : i \notin Headers(s) /\ UnderVendor(s, i, vendor)}

PciIsRead(a, s, vendor, device) ==
    /\ a.inVendor = UnderVendor(s, Len(s), vendor)
    /\ IF a.done THEN /\ s # <<>>
                      /\ DeviceLines(s, vendor, device) = {Len(s)}
                      /\ a.name = s[Len(s)].value
                 ELSE DeviceLines(s, vendor, device) = {} /\ a.name = ""
===============================================================================
