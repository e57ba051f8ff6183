------------------------------ MODULE LineReaders ------------------------------
(***************************************************************************)
(* The readers that go through a file line by line, each line one step of  *)
(* the reader's loop.  Behind /proc/diskstats and /proc/net/dev data are   *)
(* transferred between two lines; behind /proc/mounts, which is followed   *)
(* by a statvfs for each device, file systems are unmounted.  The other    *)
(* files (module TextLines) stay as they are.  A behaviour is one file     *)
(* being read again and again.                                             *)
(*                                                                         *)
(* A line is a record of what its reader takes from it:                    *)
(*   counters   kind (what the name says of the device), minor, columns,   *)
(*              in and out, and on, the lines of all devices beneath it    *)
(*   mounts     device, mount, fstype, and dead, where statvfs fails       *)
(*   the rest   indent, key, value                                         *)
(***************************************************************************)
EXTENDS TextLines

CONSTANTS
    Contents,       \* the files there may be: a name and lines
    Vendor, Device, \* what is looked up in pci.ids
    MaxTransfers    \* bound of the transfers

Counters == {"diskstats", "net/dev"}
Files == Counters \cup {"mounts", "cpuinfo", "os-release", "meminfo", "passwd", "status", "pci.ids"}
Lookups == {"status", "pci.ids"}

CounterLine(Count) ==
    [kind : STRING, minor : Nat, columns : Nat, on : SUBSET Nat, in : Count, out : Count]

ASSUME LineReadersAssumption ==
    /\ MaxTransfers \in Nat
    /\ Device # "" /\ Vendor # ""
    /\ \A c \in Contents : c.lines \in Seq({c.lines[i] : i \in DOMAIN c.lines})
    /\ \A c \in Contents : c.file = "meminfo" =>
          \A i \in DOMAIN c.lines : c.lines[i].key # "" => c.lines[i].value \in Nat
    /\ \A c \in Contents : c.file = "mounts" =>
          \A i \in DOMAIN c.lines : c.lines[i].device # ""
    /\ \A c \in Contents : c.file \in Files
    /\ \A c \in Contents : c.file \in Counters =>
          \A i \in DOMAIN c.lines : c.lines[i] \in CounterLine({0})

VARIABLES
    file,       \* the name of this behaviour's file
    lines,      \* its lines
    pos,        \* the line the reader is at, 0 when no call is under way
    acc,        \* the reader's locals
    moved,      \* what disks or network cards have transferred so far
    opened,     \* the same when the file was opened
    gone        \* mounts that have gone since the file was read

world == <<file, lines, moved, gone>>
vars == <<world, pos, acc, opened>>

Start(f) ==
    CASE f \in Counters            -> [in |-> 0, out |-> 0, ifaces |-> <<>>]
      [] f = "mounts"              -> [seen |-> {}, disks |-> <<>>]
      [] f = "cpuinfo"             -> CpuinfoStart
      [] f = "os-release"          -> OsReleaseStart
      [] f \in {"meminfo", "passwd"} -> MapStart
      [] f = "status"              -> UidStart
      [] f = "pci.ids"             -> PciStart

Init ==
    /\ \E c \in Contents : file = c.file /\ lines = c.lines
    /\ pos = 0 /\ acc = Start(file)
    /\ moved = [in |-> 0, out |-> 0] /\ opened = moved
    /\ gone = {}

-------------------------------------------------------------------------------
(* The machine. *)

(* The devices whose transfers there are to count; the rest are parts of them,
   lie on top of them or are no disks. *)
Physical == {i \in DOMAIN lines : lines[i].kind = IF file = "diskstats" THEN "disk" ELSE "card"}

(* A transfer of a device is one of every device beneath it. MaxTransfers bounds
   those of the disks or cards together, and those of each other device. *)
Transfer(d, way) ==
    /\ file \in Counters /\ lines[d].kind # "header"
    /\ moved.in + moved.out < MaxTransfers
    /\ lines[d].in + lines[d].out < MaxTransfers
    /\ LET all == {d} \cup lines[d].on IN
         /\ lines' = [i \in DOMAIN lines |->
                        IF i \in all THEN [lines[i] EXCEPT ![way] = @ + 1] ELSE lines[i]]
         /\ moved' = [moved EXCEPT ![way] = @ + Cardinality(all \cap Physical)]
    /\ UNCHANGED <<file, pos, acc, opened, gone>>

Unmount(i) ==
    /\ file = "mounts" /\ pos # 0 /\ i \notin gone
    /\ gone' = gone \cup {i}
    /\ UNCHANGED <<file, lines, pos, acc, moved, opened>>

-------------------------------------------------------------------------------
(* The readers. *)

Open ==
    /\ pos = 0
    /\ pos' = 1
    /\ opened' = moved
    /\ UNCHANGED <<world, acc>>

AtEnd == pos > Len(lines) \/ (file \in Lookups /\ acc.done)

Reading == pos # 0 /\ ~AtEnd

Take(a) ==
    /\ Reading
    /\ acc' = a
    /\ pos' = pos + 1
    /\ UNCHANGED <<world, opened>>

Return ==
    /\ pos # 0 /\ AtEnd
    /\ pos' = 0
    /\ acc' = Start(file)
    /\ gone' = {}
    /\ UNCHANGED <<file, lines, moved, opened>>

Line == lines[pos]

Sum(a, l) == [a EXCEPT !.in = @ + l.in, !.out = @ + l.out]

SkipDevice(kind) == kind \in {"loop", "ram", "dm", "sr", "fd"}

(* Variant: partitions are counted too. *)
DiskstatsLineAll ==
    /\ file = "diskstats"
    /\ Take(IF Line.columns < 10 \/ SkipDevice(Line.kind) THEN acc ELSE Sum(acc, Line))

(* parse_diskstats: a line that is short, of a device with one of five names or
   of a minor number other than 0 is skipped. *)
DiskstatsLine ==
    /\ file = "diskstats"
    /\ Take(IF Line.columns < 10 \/ SkipDevice(Line.kind) \/ Line.minor # 0
            THEN acc ELSE Sum(acc, Line))

(* parse_net_dev: two header lines, lo and short lines are skipped. *)
NetDevLine ==
    /\ file = "net/dev"
    /\ Take(IF pos <= 2 \/ Line.kind = "lo" \/ Line.columns < 9
            THEN acc ELSE [Sum(acc, Line) EXCEPT !.ifaces = Append(@, pos)])

PseudoFs == {"proc", "sysfs", "devtmpfs", "tmpfs", "devpts", "cgroup", "cgroup2", "pstore",
             "bpf", "tracefs", "hugetlbfs", "mqueue", "debugfs", "securityfs", "fusectl",
             "configfs", "efivarfs", "autofs"}

(* The mount a path leads to: the last one made on it that is still there, or
   none, when the path belongs to the file system that holds the mount point. *)
MountsAt(path) == {j \in DOMAIN lines \ gone : lines[j].mount = path}
Top(path) == {j \in MountsAt(path) : \A k \in MountsAt(path) : k <= j}

(* The device statvfs tells of, or "" when it fails. *)
Statvfs(path) ==
    IF MountsAt(path) = {} THEN {"", "another"}
    ELSE {IF lines[j].dead THEN "" ELSE lines[j].device : j \in Top(path)}

(* Variant: the devices seen are not remembered. *)
MountsLineForgetful ==
    /\ file = "mounts" /\ Reading
    /\ IF Line.fstype \in PseudoFs \cup {""}
       THEN Take(acc)
       ELSE \E of \in Statvfs(Line.mount) :
              Take([acc EXCEPT !.disks =
                      IF of = "" THEN @ ELSE Append(@, [fs |-> Line.device, of |-> of, line |-> pos])])

(* Variant: a mount is listed whatever statvfs says. *)
MountsLineUnasked ==
    /\ file = "mounts" /\ Reading
    /\ IF Line.fstype \in PseudoFs \cup {""} \/ Line.device \in acc.seen
       THEN Take(acc)
       ELSE \E of \in Statvfs(Line.mount) :
              Take([seen  |-> acc.seen \cup {Line.device},
                    disks |-> Append(acc.disks, [fs |-> Line.device, of |-> of, line |-> pos])])

(* read_disks_from and parse_mounts: the first mount of each device. *)
MountsLine ==
    /\ file = "mounts" /\ Reading
    /\ IF Line.fstype \in PseudoFs \cup {""} \/ Line.device \in acc.seen
       THEN Take(acc)
       ELSE \E of \in Statvfs(Line.mount) :
              Take([seen  |-> acc.seen \cup {Line.device},
                    disks |-> IF of = "" THEN acc.disks
                              ELSE Append(acc.disks, [fs |-> Line.device, of |-> of, line |-> pos])])

TextLine ==
    \/ file = "cpuinfo" /\ Take(CpuinfoLine(acc, Line))
    \/ file = "os-release" /\ Take(OsReleaseLine(acc, Line))
    \/ file \in {"meminfo", "passwd"} /\ Take(MapLine(acc, Line))
    \/ file = "status" /\ Take(UidLine(acc, Line))
    \/ file = "pci.ids" /\ Take(PciLine(acc, Line, Vendor, Device))

Next ==
    \/ \E d \in DOMAIN lines, way \in {"in", "out"} : Transfer(d, way)
    \/ \E i \in DOMAIN lines : Unmount(i)
    \/ Open \/ Return
    \/ DiskstatsLine \/ NetDevLine \/ MountsLine \/ TextLine

Spec == Init /\ [][Next]_vars

-------------------------------------------------------------------------------
Counts == [in : Nat, out : Nat]

AccTypes(f) ==
    CASE f \in Counters -> [in : Nat, out : Nat, ifaces : Seq(Nat)]
      [] f = "mounts"   -> [seen  : SUBSET {lines[i].device : i \in DOMAIN lines},
                            disks : Seq([fs : {lines[i].device : i \in DOMAIN lines},
                                         of : {"another"} \cup {lines[i].device : i \in DOMAIN lines},
                                         line : DOMAIN lines])]
      [] OTHER          -> {acc}

TypeOK ==
    /\ file \in Files
    /\ file \in Counters => \A i \in DOMAIN lines : lines[i] \in CounterLine(Nat)
    /\ pos \in 0 .. Len(lines) + 1
    /\ acc \in AccTypes(file)
    /\ moved \in Counts /\ opened \in Counts
    /\ gone \subseteq DOMAIN lines

(* Layouts in which minor numbers and names tell the disks from what lies on
   them, and no interface passes on what another one counts; the tables are as
   the kernel writes them, with two lines of headings for the interfaces. *)
Ordinary ==
    \A i \in DOMAIN lines : LET l == lines[i] IN
        IF file = "diskstats"
        THEN /\ l.kind = "disk" => l.minor = 0 /\ l.columns >= 10
             /\ l.minor = 0 => l.kind = "disk" \/ SkipDevice(l.kind)
        ELSE IF i <= 2 THEN l.kind = "header"
        ELSE l.kind = "lo" \/ (l.kind = "card" /\ l.columns >= 9)

(* disk.rs:46-85, network.rs:43-74: partitions, volumes and loop devices count
   what their disk counts too, and all counters go on while the file is read.  In
   an ordinary layout a reading still has every transfer made before it once, and
   none twice: its sums are between what had been transferred when it began and
   what has been by now. *)
CountersAreWhole ==
    file \in Counters /\ pos # 0 /\ AtEnd /\ Ordinary =>
        /\ opened.in <= acc.in /\ acc.in <= moved.in
        /\ opened.out <= acc.out /\ acc.out <= moved.out

(* disk.rs:46, docs/tauri-migration-plan.md:144: the counters are summed across
   all physical devices. *)
EveryDiskIsCounted ==
    file = "diskstats" /\ pos # 0 /\ AtEnd =>
        opened.in <= acc.in /\ opened.out <= acc.out

(* static_info.rs:258-288: a device with several mounts is listed once, with its
   own figures unless its mount has gone meanwhile or has been covered by another
   one; at the end it is missing only if statvfs failed on the first of them. *)
IsDiskLine(i) == lines[i].fstype \notin PseudoFs \cup {""}

DisksAreListedOnce ==
    file = "mounts" =>
        /\ \A i, j \in DOMAIN acc.disks : acc.disks[i].fs = acc.disks[j].fs => i = j
        /\ \A i \in DOMAIN acc.disks : LET d == acc.disks[i] IN
             \/ d.of = d.fs /\ lines[d.line].device = d.fs /\ IsDiskLine(d.line)
             \/ d.line \in gone
             \/ \E j \in DOMAIN lines : j > d.line /\ lines[j].mount = lines[d.line].mount
        /\ \A i \in DOMAIN lines :
             i < pos /\ IsDiskLine(i) =>
                \/ \E k \in DOMAIN acc.disks : acc.disks[k].fs = lines[i].device
                \/ \E j \in 1 .. i : /\ lines[j].device = lines[i].device /\ IsDiskLine(j)
                                    /\ \/ j \in gone
                                       \/ \E k \in DOMAIN lines :
                                            lines[k].dead /\ k >= j /\ lines[k].mount = lines[j].mount

(* static_info.rs:68-151, memory.rs:19-71, processes.rs:102-134, gpu_amd.rs:129-151:
   the loops of the other readers compute what they are to: of repeated lines the
   first that has a value, or the last, or the number or set of all; of devices
   the one under its vendor, and nothing after a hit.  A machine with processors
   has cores, no memory in use exceeds what there is, and a user id shows its last
   name. *)
ReadSoFar == SubSeq(lines, 1, pos - 1)

HasCores == Sockets(acc) >= 1 /\ (Lines(ReadSoFar, "processor") # {} => PhysicalCores(acc) >= 1)

MemoryFits ==
    LET m == MemStats(acc) IN
    m.used <= m.total /\ m.swap_used <= m.swap_total /\ m.tenths <= 1000

UsersAreNamed ==
    \A i \in DOMAIN lines : lines[i].key # "" =>
        IsLast(ReadSoFar, lines[i].key, LookupUser(lines[i].key, acc), "-")

LinesAreUnderstood ==
    pos # 0 =>
        /\ file = "cpuinfo" => CpuinfoIsRead(acc, ReadSoFar) /\ HasCores
        /\ file = "os-release" => OsReleaseIsRead(acc, ReadSoFar)
        /\ file \in {"meminfo", "passwd"} => MapIsRead(acc, ReadSoFar)
        /\ file = "meminfo" => MemoryFits
        /\ file = "passwd" => UsersAreNamed
        /\ file = "status" => UidIsRead(acc, ReadSoFar)
        /\ file = "pci.ids" => PciIsRead(acc, ReadSoFar, Vendor, Device)
===============================================================================
