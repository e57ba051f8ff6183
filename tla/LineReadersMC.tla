----------------------------- MODULE LineReadersMC -----------------------------
(* LineReaders with small files: all sequences of a few lines, and the layouts of
   disks, interfaces and mounts that differ in what is to be counted. *)
EXTENDS LineReaders, SequencesExt

CONSTANT Layouts    \* the layouts of disks a run has

Text(indent, key, value) == [indent |-> indent, key |-> key, value |-> value]
Plain(key, value) == Text(0, key, value)

CpuinfoLines ==
    {Plain("model name", v) : v \in {"", "a", "b"}} \cup {Plain("cpu MHz", v) : v \in {"", "1"}}
    \cup {Plain("processor", "0"), Plain("core id", "0"), Plain("core id", "1"),
          Plain("physical id", "0"), Plain("cache size", "c"), Plain("", "")}
OsReleaseLines ==
    {Plain("NAME", "a"), Plain("NAME", "b"), Plain("VERSION_ID", "1"), Plain("PRETTY_NAME", "p")}
MeminfoLines ==
    {Plain(k, v) : k \in {"MemTotal", "MemFree", "SwapTotal"}, v \in 0 .. 1} \cup {Plain("", 0)}
PasswdLines == {Plain(k, v) : k \in {"0", "1000", ""}, v \in {"a", "b"}}
StatusLines == {Plain("Name", "a"), Plain("Uid", "0"), Plain("Uid", "1"), Plain("Uid", "")}
PciLines ==
    {Text(0, k, "v") : k \in {"1002", "10de", ""}} \cup {Text(1, "1586", n) : n \in {"n", ""}}
    \cup {Text(1, "1587", "m"), Text(2, "1002 1586", "s")}

Device_(kind, minor, columns, on) ==
    [kind |-> kind, minor |-> minor, columns |-> columns, on |-> on, in |-> 0, out |-> 0]
Disk(minor) == Device_("disk", minor, 14, {})
Part(minor, on) == Device_("part", minor, 14, {on})
Iface(kind, on) == Device_(kind, 0, 16, on)
Header == Device_("header", 0, 0, {})

(* One disk with a partition, a volume on it and a loop device on that; a disk of
   another driver, an optical drive and a short line of an old kernel. *)
OrdinaryLayouts == {
    <<Disk(0), Part(1, 1), Device_("dm", 0, 14, {1, 2}), Device_("loop", 0, 14, {1, 2, 3})>>,
    <<Disk(0), Device_("part", 1, 4, {1}), Disk(0), Part(1, 3), Device_("sr", 0, 14, {})>>}

(* Two disks of one driver. *)
TwoDisks == {<<Disk(0), Part(1, 1), Disk(16), Part(17, 3)>>}

(* Interfaces of a machine, and of one with a bridge on its card. *)
Networks == {
    <<Header, Header, Iface("lo", {}), Iface("card", {}), Iface("card", {})>>,
    <<Header, Header, Iface("card", {}), Iface("bridge", {3})>>}

Mount(device, mount, fstype, dead) ==
    [device |-> device, mount |-> mount, fstype |-> fstype, dead |-> dead]
MountTables == {
    <<Mount("sysfs", "/sys", "sysfs", FALSE), Mount("sda2", "/", "ext4", FALSE),
      Mount("sda2", "/home", "ext4", FALSE), Mount("sda1", "/boot", "vfat", FALSE)>>,
    <<Mount("sda2", "/", "ext4", FALSE), Mount("host:/a", "/mnt", "nfs", TRUE),
      Mount("host:/a", "/srv", "nfs", FALSE), Mount("none", "/proc", "", FALSE)>>,
    <<Mount("sda2", "/", "ext4", FALSE), Mount("sdb1", "/mnt", "ext4", FALSE),
      Mount("tmpfs", "/mnt", "tmpfs", FALSE), Mount("sdb1", "/srv", "ext4", FALSE)>>}

File(name, contents) == {[file |-> name, lines |-> s] : s \in contents}

DiskContents == File("diskstats", Layouts)
AllContents ==
    DiskContents \cup File("net/dev", Networks) \cup File("mounts", MountTables)
    \cup File("cpuinfo", BoundedSeq(CpuinfoLines, 3))
    \cup File("os-release", BoundedSeq(OsReleaseLines, 3))
    \cup File("meminfo", BoundedSeq(MeminfoLines, 3))
    \cup File("passwd", BoundedSeq(PasswdLines, 3))
    \cup File("status", BoundedSeq(StatusLines, 3))
    \cup File("pci.ids", BoundedSeq(PciLines, 4))
===============================================================================
