--------------------------- MODULE LineReadersProofs ---------------------------
(***************************************************************************)
(* Proofs about LineReaders, for files of any lines and any length: what   *)
(* the loops over lines have computed when they have read a part s of a    *)
(* file, and so at its end.                                                *)
(***************************************************************************)
EXTENDS LineReaders, SharedLemmas

(* t is s and one more line l. *)
Extends(t, s, l) ==
    /\ Len(s) \in Nat /\ Len(t) = Len(s) + 1
    /\ DOMAIN s = 1 .. Len(s) /\ DOMAIN t = 1 .. Len(s) + 1
    /\ \A i \in 1 .. Len(s) : t[i] = s[i]
    /\ t[Len(s) + 1] = l

-------------------------------------------------------------------------------
(* The parts of a file read so far. *)

LEMMA NoLines ==
    /\ DOMAIN <<>> = {} /\ Len(<<>>) = 0
    /\ \A key : Lines(<<>>, key) = {}
<1>1. DOMAIN <<>> = {} /\ Len(<<>>) = 0
  OBVIOUS
<1> QED
  BY <1>1 DEF Lines

LEMMA OneMoreLine ==
    ASSUME NEW s, NEW t, NEW l, Extends(t, s, l)
    PROVE  /\ \A key : Lines(s, key) \subseteq 1 .. Len(s)
           /\ \A key : l.key # key => Lines(t, key) = Lines(s, key)
           /\ \A key : l.key = key => Lines(t, key) = Lines(s, key) \cup {Len(s) + 1}
           /\ t # <<>>
<1>1. t # <<>>
  BY NoLines DEF Extends
<1> QED
  BY <1>1 DEF Extends, Lines

Takes(l, key, x) == l.key = key /\ x = l.value

Values(s, key) == {s[i].value : i \in Lines(s, key)}

LEMMA OneMoreValue ==
    ASSUME NEW s, NEW t, NEW l, Extends(t, s, l), NEW key
    PROVE  \A x : x \in Values(t, key) <=>
                     x \in Values(s, key) \/ Takes(l, key, x)
<1> USE DEF Values, Takes
<1>1. \A i \in Lines(s, key) : t[i] = s[i]
  BY OneMoreLine DEF Extends
<1>2. t[Len(s) + 1] = l
  BY DEF Extends
<1>3. CASE l.key = key
  <2>1. Lines(t, key) = Lines(s, key) \cup {Len(s) + 1}
    BY <1>3, OneMoreLine
  <2> QED
    BY <1>1, <1>2, <1>3, <2>1
<1>4. CASE l.key # key
  <2>1. Lines(t, key) = Lines(s, key)
    BY <1>4, OneMoreLine
  <2> QED
    BY <1>1, <1>4, <2>1
<1> QED
  BY <1>3, <1>4

(* The first value, if it is kept once there is one. *)
LEMMA FirstKept ==
    ASSUME NEW s, NEW t, NEW l, Extends(t, s, l), NEW key, NEW v, IsFirst(s, key, v)
    PROVE  /\ l.key = key => IsFirst(t, key, Unless(v, l.value))
           /\ l.key # key => IsFirst(t, key, v)
           /\ IsFirst(t, key, IF l.key = key THEN Unless(v, l.value) ELSE v)
<1> DEFINE old == {i \in Lines(s, key) : s[i].value # ""}
           new == {i \in Lines(t, key) : t[i].value # ""}
           n == Len(s) + 1
<1>1. /\ old \subseteq 1 .. Len(s) /\ Len(s) \in Nat /\ t[n] = l
      /\ \A i \in 1 .. Len(s) : t[i] = s[i]
  BY OneMoreLine DEF Extends
<1>2. /\ l.key # key => new = old
      /\ l.key = key /\ l.value = "" => new = old
      /\ l.key = key /\ l.value # "" => new = old \cup {n}
  <2>1. \A i \in Lines(s, key) : t[i] = s[i]
    BY <1>1, OneMoreLine
  <2>2. l.key # key => Lines(t, key) = Lines(s, key)
    BY OneMoreLine
  <2>3. l.key = key => Lines(t, key) = Lines(s, key) \cup {n}
    BY OneMoreLine
  <2>4. CASE l.key # key
    BY <2>1, <2>2, <2>4
  <2>5. CASE l.key = key /\ l.value = ""
    BY <1>1, <2>1, <2>3, <2>5
  <2>6. CASE l.key = key /\ l.value # ""
    BY <1>1, <2>1, <2>3, <2>6
  <2> QED
    BY <2>4, <2>5, <2>6
<1>3. \/ old = {} /\ v = ""
      \/ \E i \in old : v = s[i].value /\ \A j \in old : i <= j
  BY DEF IsFirst
<1>4. IsFirst(t, key, Unless(v, l.value)) <=>
        \/ new = {} /\ Unless(v, l.value) = ""
        \/ \E i \in new : Unless(v, l.value) = t[i].value /\ \A j \in new : i <= j
  BY DEF IsFirst
<1>5. IsFirst(t, key, v) <=>
        \/ new = {} /\ v = ""
        \/ \E i \in new : v = t[i].value /\ \A j \in new : i <= j
  BY DEF IsFirst
<1>6. \A i \in old : s[i].value # ""
  OBVIOUS
<1> HIDE DEF old, new, n
<1>7. CASE l.key # key
  BY <1>1, <1>2, <1>3, <1>5, <1>7
<1>8. CASE l.key = key /\ l.value = ""
  <2>1. Unless(v, l.value) = v
    BY <1>8 DEF Unless
  <2> QED
    BY <1>1, <1>2, <1>3, <1>4, <1>8, <2>1
<1>9. CASE l.key = key /\ l.value # ""
  <2>1. new = old \cup {n}
    BY <1>2, <1>9
  <2>4. n \in Nat /\ \A i \in old : i \in Nat /\ i <= n
    BY <1>1 DEF n
  <2>2. CASE old = {} /\ v = ""
    <3>1. Unless(v, l.value) = l.value
      BY <2>2 DEF Unless
    <3>2. n \in new /\ \A j \in new : n <= j
      <4>1. new = {n}
        BY <2>1, <2>2
      <4> QED
        BY <2>4, <4>1
    <3> QED
      BY <1>1, <1>4, <1>9, <3>1, <3>2
  <2>3. CASE \E i \in old : v = s[i].value /\ \A j \in old : i <= j
    <3>1. PICK i \in old : v = s[i].value /\ \A j \in old : i <= j
      BY <2>3
    <3>2. Unless(v, l.value) = v /\ t[i] = s[i]
      BY <1>1, <1>6, <3>1 DEF Unless
    <3>3. i \in new /\ Unless(v, l.value) = t[i].value /\ \A j \in new : i <= j
      BY <2>1, <2>4, <3>1, <3>2
    <3> QED
      BY <1>4, <1>9, <3>3
  <2> QED
    BY <1>3, <2>2, <2>3
<1> QED
  BY <1>7, <1>8, <1>9, Zenon

(* The last value, if each line replaces the one before. *)
LEMMA LastKept ==
    ASSUME NEW s, NEW t, NEW l, Extends(t, s, l), NEW key, NEW v, NEW none
    PROVE  /\ l.key = key => IsLast(t, key, l.value, none)
           /\ l.key # key /\ IsLast(s, key, v, none) => IsLast(t, key, v, none)
<1> DEFINE old == Lines(s, key)
           new == Lines(t, key)
           n == Len(s) + 1
<1>1. /\ old \subseteq 1 .. Len(s) /\ Len(s) \in Nat /\ t[n] = l
      /\ \A i \in 1 .. Len(s) : t[i] = s[i]
      /\ l.key # key => new = old
      /\ l.key = key => new = old \cup {n}
  BY OneMoreLine DEF Extends
<1>2. CASE l.key = key
  <2>1. n \in new /\ l.value = t[n].value /\ \A j \in new : j <= n
    BY <1>1, <1>2
  <2> QED
    BY <1>2, <2>1 DEF IsLast
<1>3. CASE l.key # key
  BY <1>1, <1>3 DEF IsLast
<1> QED
  BY <1>2, <1>3

-------------------------------------------------------------------------------
(* parse_cpuinfo *)

CpuinfoFields == {"brand", "mhz", "cache", "count", "cores", "packages"}

CpuinfoInv(a, s) ==
    /\ DOMAIN a = CpuinfoFields
    /\ CpuinfoIsRead(a, s)
    /\ IsFiniteSet(Lines(s, "processor"))
    /\ IsFiniteSet(a.cores) /\ IsFiniteSet(a.packages)

LEMMA CpuinfoFirst == CpuinfoInv(CpuinfoStart, <<>>)
<1> DEFINE a == CpuinfoStart
<1>1. /\ DOMAIN a = CpuinfoFields
      /\ a.brand = "" /\ a.mhz = "" /\ a.cache = "" /\ a.count = 0
      /\ a.cores = {} /\ a.packages = {}
  BY DEF CpuinfoStart, CpuinfoFields
<1> HIDE DEF a
<1>2. IsFiniteSet({}) /\ Cardinality({}) = 0
  BY FS_EmptySet
<1>3. CpuinfoIsRead(a, <<>>)
  BY <1>1, <1>2, NoLines DEF CpuinfoIsRead, IsFirst
<1> QED
  BY <1>1, <1>2, <1>3, NoLines DEF CpuinfoInv, a

LEMMA CpuinfoNext ==
    ASSUME NEW s, NEW t, NEW l, Extends(t, s, l), NEW a, CpuinfoInv(a, s)
    PROVE  CpuinfoInv(CpuinfoLine(a, l), t)
<1> DEFINE b == CpuinfoLine(a, l)
           Keys == {"model name", "cpu MHz", "cache size", "processor", "core id", "physical id"}
<1>1. /\ DOMAIN a = CpuinfoFields /\ CpuinfoIsRead(a, s)
      /\ IsFiniteSet(Lines(s, "processor")) /\ IsFiniteSet(a.cores) /\ IsFiniteSet(a.packages)
  BY DEF CpuinfoInv
<1>2. /\ IsFirst(s, "model name", a.brand) /\ IsFirst(s, "cpu MHz", a.mhz)
      /\ IsFirst(s, "cache size", a.cache)
      /\ a.count = Cardinality(Lines(s, "processor"))
      /\ a.cores = {s[i].value : i \in Lines(s, "core id")}
      /\ a.packages = {s[i].value : i \in Lines(s, "physical id")}
  BY <1>1 DEF CpuinfoIsRead
<1>3. /\ DOMAIN b = CpuinfoFields
      /\ b.brand = IF l.key = "model name" THEN Unless(a.brand, l.value) ELSE a.brand
      /\ b.mhz = IF l.key = "cpu MHz" THEN Unless(a.mhz, l.value) ELSE a.mhz
      /\ b.cache = IF l.key = "cache size" THEN Unless(a.cache, l.value) ELSE a.cache
      /\ b.count = IF l.key = "processor" THEN a.count + 1 ELSE a.count
      /\ b.cores = IF l.key = "core id" THEN a.cores \cup {l.value} ELSE a.cores
      /\ b.packages = IF l.key = "physical id" THEN a.packages \cup {l.value} ELSE a.packages
  <2>1. CASE l.key \notin Keys
    <3>1. b = a
      BY <2>1 DEF CpuinfoLine
    <3> QED
      BY <1>1, <2>1, <3>1
  <2>2. CASE l.key = "model name"
    <3>1. b = [a EXCEPT !.brand = Unless(@, l.value)]
      BY <2>2 DEF CpuinfoLine
    <3> QED
      BY <1>1, <2>2, <3>1 DEF CpuinfoFields
  <2>3. CASE l.key = "cpu MHz"
    <3>1. b = [a EXCEPT !.mhz = Unless(@, l.value)]
      BY <2>3 DEF CpuinfoLine
    <3> QED
      BY <1>1, <2>3, <3>1 DEF CpuinfoFields
  <2>4. CASE l.key = "cache size"
    <3>1. b = [a EXCEPT !.cache = Unless(@, l.value)]
      BY <2>4 DEF CpuinfoLine
    <3> QED
      BY <1>1, <2>4, <3>1 DEF CpuinfoFields
  <2>5. CASE l.key = "processor"
    <3>1. b = [a EXCEPT !.count = @ + 1]
      BY <2>5 DEF CpuinfoLine
    <3> QED
      BY <1>1, <2>5, <3>1 DEF CpuinfoFields
  <2>6. CASE l.key = "core id"
    <3>1. b = [a EXCEPT !.cores = @ \cup {l.value}]
      BY <2>6 DEF CpuinfoLine
    <3> QED
      BY <1>1, <2>6, <3>1 DEF CpuinfoFields
  <2>7. CASE l.key = "physical id"
    <3>1. b = [a EXCEPT !.packages = @ \cup {l.value}]
      BY <2>7 DEF CpuinfoLine
    <3> QED
      BY <1>1, <2>7, <3>1 DEF CpuinfoFields
  <2> QED
    BY <2>1, <2>2, <2>3, <2>4, <2>5, <2>6, <2>7
<1> HIDE DEF b
<1>4. IsFirst(t, "model name", b.brand)
  <2>1. IsFirst(t, "model name", IF l.key = "model name" THEN Unless(a.brand, l.value) ELSE a.brand)
    BY <1>2, FirstKept
  <2> QED
    BY <1>3, <2>1
<1>5. IsFirst(t, "cpu MHz", b.mhz)
  <2>1. IsFirst(t, "cpu MHz", IF l.key = "cpu MHz" THEN Unless(a.mhz, l.value) ELSE a.mhz)
    BY <1>2, FirstKept
  <2> QED
    BY <1>3, <2>1
<1>6. IsFirst(t, "cache size", b.cache)
  <2>1. IsFirst(t, "cache size", IF l.key = "cache size" THEN Unless(a.cache, l.value) ELSE a.cache)
    BY <1>2, FirstKept
  <2> QED
    BY <1>3, <2>1
<1>7. b.count = Cardinality(Lines(t, "processor")) /\ IsFiniteSet(Lines(t, "processor"))
  <2>1. Len(s) + 1 \notin Lines(s, "processor")
    BY OneMoreLine DEF Extends
  <2>2. /\ IsFiniteSet(Lines(s, "processor") \cup {Len(s) + 1})
        /\ Cardinality(Lines(s, "processor") \cup {Len(s) + 1}) = Cardinality(Lines(s, "processor")) + 1
    BY <1>1, <2>1, FS_AddElement
  <2> QED
    <3>1. CASE l.key = "processor"
      <4>1. Lines(t, "processor") = Lines(s, "processor") \cup {Len(s) + 1}
        BY <3>1, OneMoreLine
      <4> QED
        BY <1>2, <1>3, <2>2, <3>1, <4>1
    <3>2. CASE l.key # "processor"
      <4>1. Lines(t, "processor") = Lines(s, "processor")
        BY <3>2, OneMoreLine
      <4> QED
        BY <1>1, <1>2, <1>3, <3>2, <4>1
    <3> QED
      BY <3>1, <3>2
<1>8. b.cores = {t[i].value : i \in Lines(t, "core id")} /\ IsFiniteSet(b.cores)
  <2>1. IsFiniteSet(a.cores) /\ IsFiniteSet(a.cores \cup {l.value})
    BY <1>1, FS_AddElement
  <2>2. a.cores = Values(s, "core id")
    BY <1>2 DEF Values
  <2>3. \A x : x \in Values(t, "core id") <=>
                  x \in Values(s, "core id") \/ Takes(l, "core id", x)
    BY OneMoreValue
  <2>4. \A x : x \in b.cores <=> x \in a.cores \/ Takes(l, "core id", x)
    BY <1>3 DEF Takes
  <2>5. b.cores = Values(t, "core id")
    BY <2>2, <2>3, <2>4
  <2> QED
    BY <1>3, <2>1, <2>5 DEF Values
<1>9. b.packages = {t[i].value : i \in Lines(t, "physical id")} /\ IsFiniteSet(b.packages)
  <2>1. IsFiniteSet(a.packages) /\ IsFiniteSet(a.packages \cup {l.value})
    BY <1>1, FS_AddElement
  <2>2. a.packages = Values(s, "physical id")
    BY <1>2 DEF Values
  <2>3. \A x : x \in Values(t, "physical id") <=>
                  x \in Values(s, "physical id") \/ Takes(l, "physical id", x)
    BY OneMoreValue
  <2>4. \A x : x \in b.packages <=> x \in a.packages \/ Takes(l, "physical id", x)
    BY <1>3 DEF Takes
  <2>5. b.packages = Values(t, "physical id")
    BY <2>2, <2>3, <2>4
  <2> QED
    BY <1>3, <2>1, <2>5 DEF Values
<1> QED
  BY <1>3, <1>4, <1>5, <1>6, <1>7, <1>8, <1>9 DEF CpuinfoInv, CpuinfoIsRead, b

(* A machine has a socket, and with processors it has cores. *)
LEMMA CpuinfoCounts ==
    ASSUME NEW s, NEW a, CpuinfoInv(a, s)
    PROVE  Sockets(a) >= 1 /\ (Lines(s, "processor") # {} => PhysicalCores(a) >= 1)
<1>1. /\ IsFiniteSet(Lines(s, "processor")) /\ IsFiniteSet(a.cores) /\ IsFiniteSet(a.packages)
      /\ a.count = Cardinality(Lines(s, "processor"))
  BY DEF CpuinfoInv, CpuinfoIsRead
<1>2. \A S : IsFiniteSet(S) /\ S # {} => Cardinality(S) >= 1
  BY FS_EmptySet, FS_CardinalityType
<1> QED
  BY <1>1, <1>2 DEF Sockets, PhysicalCores

-------------------------------------------------------------------------------
(* parse_os_release *)

OsReleaseInv(a, s) == DOMAIN a = {"distro", "release"} /\ OsReleaseIsRead(a, s)

LEMMA OsReleaseFirst == OsReleaseInv(OsReleaseStart, <<>>)
BY NoLines DEF OsReleaseInv, OsReleaseIsRead, OsReleaseStart, IsLast

LEMMA OsReleaseNext ==
    ASSUME NEW s, NEW t, NEW l, Extends(t, s, l), NEW a, OsReleaseInv(a, s)
    PROVE  OsReleaseInv(OsReleaseLine(a, l), t)
<1> DEFINE b == OsReleaseLine(a, l)
<1>1. /\ DOMAIN a = {"distro", "release"}
      /\ IsLast(s, "NAME", a.distro, "") /\ IsLast(s, "VERSION_ID", a.release, "")
  BY DEF OsReleaseInv, OsReleaseIsRead
<1>2. CASE l.key = "NAME"
  <2>1. b = [a EXCEPT !.distro = l.value]
    BY <1>2 DEF OsReleaseLine
  <2>2. DOMAIN b = {"distro", "release"} /\ b.distro = l.value /\ b.release = a.release
    BY <1>1, <2>1
  <2> HIDE DEF b
  <2>3. IsLast(t, "NAME", l.value, "") /\ IsLast(t, "VERSION_ID", a.release, "")
    BY <1>1, <1>2, LastKept
  <2> QED
    BY <2>2, <2>3 DEF OsReleaseInv, OsReleaseIsRead, b
<1>3. CASE l.key = "VERSION_ID"
  <2>1. b = [a EXCEPT !.release = l.value]
    BY <1>3 DEF OsReleaseLine
  <2>2. DOMAIN b = {"distro", "release"} /\ b.distro = a.distro /\ b.release = l.value
    BY <1>1, <2>1
  <2> HIDE DEF b
  <2>3. IsLast(t, "NAME", a.distro, "") /\ IsLast(t, "VERSION_ID", l.value, "")
    BY <1>1, <1>3, LastKept
  <2> QED
    BY <2>2, <2>3 DEF OsReleaseInv, OsReleaseIsRead, b
<1>4. CASE l.key # "NAME" /\ l.key # "VERSION_ID"
  <2>1. b = a
    BY <1>4 DEF OsReleaseLine
  <2>2. IsLast(t, "NAME", a.distro, "") /\ IsLast(t, "VERSION_ID", a.release, "")
    BY <1>1, <1>4, LastKept
  <2> QED
    BY <1>1, <2>1, <2>2 DEF OsReleaseInv, OsReleaseIsRead
<1> QED
  BY <1>2, <1>3, <1>4

-------------------------------------------------------------------------------
(* parse_meminfo and load_passwd_cache *)

HasKey(l, x) == x = l.key

Keys(s) == {s[i].key : i \in DOMAIN s}

LEMMA OneMoreKey ==
    ASSUME NEW s, NEW t, NEW l, Extends(t, s, l)
    PROVE  \A x : x \in Keys(t) <=> x \in Keys(s) \/ HasKey(l, x)
<1>1. /\ DOMAIN t = DOMAIN s \cup {Len(s) + 1}
      /\ \A i \in DOMAIN s : t[i] = s[i]
      /\ t[Len(s) + 1] = l
  BY DEF Extends
<1> QED
  BY <1>1 DEF Keys, HasKey

LEMMA MapFirst == MapIsRead(MapStart, <<>>)
<1>1. DOMAIN MapStart = {}
  BY DEF MapStart
<1> QED
  BY <1>1, NoLines DEF MapIsRead

LEMMA MapNext ==
    ASSUME NEW s, NEW t, NEW l, Extends(t, s, l), NEW a, MapIsRead(a, s)
    PROVE  MapIsRead(MapLine(a, l), t)
<1> DEFINE b == MapLine(a, l)
           key == l.key
           value == l.value
<1>1. DOMAIN a = Keys(s) \ {""} /\ \A k \in DOMAIN a : IsLast(s, k, a[k], 0)
  BY DEF MapIsRead, Keys
<1>2. \A x : x \in Keys(t) <=> x \in Keys(s) \/ x = key
  BY OneMoreKey DEF HasKey
<1>3. /\ \A v : key = "" \/ IsLast(t, key, value, 0)
      /\ \A k, v : k # key /\ IsLast(s, k, v, 0) => IsLast(t, k, v, 0)
  BY LastKept
<1>4. CASE key = ""
  <2>1. b = a
    BY <1>4 DEF MapLine
  <2> HIDE DEF b, key
  <2>2. DOMAIN a = Keys(t) \ {""}
    BY <1>1, <1>2, <1>4
  <2>3. \A k \in DOMAIN a : IsLast(t, k, a[k], 0)
    BY <1>1, <1>3, <1>4
  <2> QED
    BY <2>1, <2>2, <2>3 DEF MapIsRead, Keys, b
<1>5. CASE key # ""
  <2>1. b = [k \in DOMAIN a \cup {key} |-> IF k = key THEN value ELSE a[k]]
    BY <1>5 DEF MapLine
  <2> HIDE DEF b, key, value
  <2>2. DOMAIN b = DOMAIN a \cup {key} /\ b[key] = value
        /\ \A k \in DOMAIN a : k # key => b[k] = a[k]
    BY <2>1
  <2>3. DOMAIN b = Keys(t) \ {""}
    BY <1>1, <1>2, <1>5, <2>2
  <2>4. \A k \in DOMAIN b : IsLast(t, k, b[k], 0)
    BY <1>1, <1>3, <1>5, <2>2
  <2> QED
    BY <2>3, <2>4 DEF MapIsRead, Keys, b
<1> QED
  BY <1>4, <1>5

(* Rounding a share of a whole to tenths of a percent does not exceed the whole. *)
LEMMA TenthsFit ==
    ASSUME NEW total \in Nat, NEW used \in Nat, used <= total, total > 0
    PROVE  (2000 * used + total) \div (2 * total) <= 1000
<1> DEFINE x == 2000 * used + total
           y == 2 * total
           q == x \div y
<1>1. x \in Nat /\ y \in Nat /\ y > 0 /\ x < 1001 * y
  OBVIOUS
<1> HIDE DEF x, y
<1>2. q \in Int /\ y * q <= x
  BY <1>1
<1>3. ASSUME q >= 1001 PROVE FALSE
  <2>1. y * q >= y * 1001
    BY <1>1, <1>2, <1>3
  <2> QED
    BY <1>1, <1>2, <2>1
<1> QED
  BY <1>2, <1>3 DEF x, y

LEMMA DifferenceFits ==
    ASSUME NEW x \in Nat, NEW y \in Nat
    PROVE  Difference(x, y) \in Nat /\ Difference(x, y) <= x
BY DEF Difference

Numbers(a) == \A k : Entry(a, k) \in Nat

LEMMA EntriesFit ==
    ASSUME NEW a, Numbers(a)
    PROVE  /\ MemStats(a).used <= MemStats(a).total
           /\ MemStats(a).swap_used <= MemStats(a).swap_total
           /\ MemStats(a).tenths <= 1000
<1> DEFINE total == Entry(a, "MemTotal")
           used == Difference(total, Entry(a, "MemFree"))
           tenths == IF total > 0 THEN (2000 * used + total) \div (2 * total) ELSE 0
<1>1. /\ MemStats(a).total = total /\ MemStats(a).used = used
      /\ MemStats(a).swap_total = Entry(a, "SwapTotal")
      /\ MemStats(a).swap_used = Difference(Entry(a, "SwapTotal"), Entry(a, "SwapFree"))
      /\ MemStats(a).tenths = tenths
  BY DEF MemStats
<1>2. /\ total \in Nat /\ used \in Nat /\ used <= total
      /\ MemStats(a).swap_used <= MemStats(a).swap_total
  BY <1>1, DifferenceFits DEF Numbers
<1>3. tenths <= 1000
  <2>1. CASE total > 0
    <3>1. tenths = (2000 * used + total) \div (2 * total)
      BY <2>1
    <3> HIDE DEF tenths, total, used
    <3>2. (2000 * used + total) \div (2 * total) <= 1000
      BY <1>2, <2>1, TenthsFit
    <3> QED
      BY <3>1, <3>2
  <2>2. CASE ~ (total > 0)
    <3>1. tenths = 0
      BY <2>2
    <3> QED
      BY <3>1
  <2> QED
    BY <2>1, <2>2
<1> HIDE DEF total, used, tenths
<1> QED
  BY <1>1, <1>2, <1>3

(* With numbers on the lines, no memory in use exceeds what there is. *)
NumericLines(s) == \A i \in DOMAIN s : s[i].key # "" => s[i].value \in Nat

LEMMA MemoryInBounds ==
    ASSUME NEW s, NEW a, MapIsRead(a, s), NumericLines(s)
    PROVE  /\ MemStats(a).used <= MemStats(a).total
           /\ MemStats(a).swap_used <= MemStats(a).swap_total
           /\ MemStats(a).tenths <= 1000
<1>1. ASSUME NEW k \in DOMAIN a PROVE a[k] \in Nat
  <2>1. k # "" /\ Lines(s, k) # {} /\ IsLast(s, k, a[k], 0)
    BY DEF MapIsRead, Lines
  <2>2. PICK i \in Lines(s, k) : a[k] = s[i].value
    BY <2>1 DEF IsLast
  <2>3. i \in DOMAIN s /\ s[i].key = k
    BY DEF Lines
  <2> QED
    BY <2>1, <2>2, <2>3 DEF NumericLines
<1>2. Numbers(a)
  BY <1>1 DEF Numbers, Entry
<1> QED
  BY <1>2, EntriesFit

(* A user id shows its last name. *)
LEMMA LastNameShown ==
    ASSUME NEW s, NEW a, MapIsRead(a, s), NEW uid, uid # ""
    PROVE  IsLast(s, uid, LookupUser(uid, a), "-")
<1>1. DOMAIN a = Keys(s) \ {""} /\ \A k \in DOMAIN a : IsLast(s, k, a[k], 0)
  BY DEF MapIsRead, Keys
<1>2. uid \in Keys(s) <=> Lines(s, uid) # {}
  BY DEF Keys, Lines
<1>3. CASE uid \in DOMAIN a
  <2>1. LookupUser(uid, a) = a[uid]
    BY <1>3 DEF LookupUser
  <2>2. \E i \in Lines(s, uid) : a[uid] = s[i].value /\ \A j \in Lines(s, uid) : j <= i
    BY <1>1, <1>2, <1>3 DEF IsLast
  <2> QED
    BY <2>1, <2>2 DEF IsLast
<1>4. CASE uid \notin DOMAIN a
  <2>1. LookupUser(uid, a) = "-" /\ Lines(s, uid) = {}
    BY <1>1, <1>2, <1>4 DEF LookupUser
  <2> QED
    BY <2>1 DEF IsLast
<1> QED
  BY <1>3, <1>4

-------------------------------------------------------------------------------
(* read_uid *)

UidInv(a, s) == DOMAIN a = {"done", "uid"} /\ a.done \in BOOLEAN /\ UidIsRead(a, s)

LEMMA UidFirst == UidInv(UidStart, <<>>)
BY NoLines DEF UidInv, UidIsRead, UidStart

LEMMA UidNext ==
    ASSUME NEW s, NEW t, NEW l, Extends(t, s, l), NEW a, UidInv(a, s), ~ a.done
    PROVE  UidInv(UidLine(a, l), t)
<1> DEFINE b == UidLine(a, l)
<1>1. Lines(s, "Uid") = {} /\ a.uid = ""
  BY DEF UidInv, UidIsRead
<1>2. t # <<>> /\ Len(t) = Len(s) + 1 /\ t[Len(t)] = l
  BY OneMoreLine DEF Extends
<1>3. CASE l.key = "Uid"
  <2>1. DOMAIN b = {"done", "uid"} /\ b.done = TRUE /\ b.uid = l.value
    BY <1>3 DEF UidLine
  <2>2. Lines(t, "Uid") = {Len(t)}
    <3>1. Lines(t, "Uid") = Lines(s, "Uid") \cup {Len(s) + 1}
      BY <1>3, OneMoreLine
    <3> QED
      BY <1>1, <1>2, <3>1
  <2> HIDE DEF b
  <2> QED
    BY <1>2, <2>1, <2>2 DEF UidInv, UidIsRead, b
<1>4. CASE l.key # "Uid"
  <2>1. b = a
    BY <1>4 DEF UidLine
  <2>2. Lines(t, "Uid") = {}
    <3>1. Lines(t, "Uid") = Lines(s, "Uid")
      BY <1>4, OneMoreLine
    <3> QED
      BY <1>1, <3>1
  <2> QED
    BY <1>1, <2>1, <2>2 DEF UidInv, UidIsRead
<1> QED
  BY <1>3, <1>4

-------------------------------------------------------------------------------
(* lookup_hwdata_name *)

(* Whether line i of s is a header. *)
IsHeader(l) == l.key # "" /\ l.indent = 0

LEMMA HeadersNext ==
    ASSUME NEW s, NEW t, NEW l, Extends(t, s, l)
    PROVE  /\ Headers(s) \subseteq 1 .. Len(s)
           /\ IsHeader(l) => Headers(t) = Headers(s) \cup {Len(s) + 1}
           /\ ~ IsHeader(l) => Headers(t) = Headers(s)
<1>1. /\ DOMAIN t = DOMAIN s \cup {Len(s) + 1} /\ DOMAIN s = 1 .. Len(s)
      /\ \A i \in DOMAIN s : t[i] = s[i]
      /\ t[Len(s) + 1] = l
  BY DEF Extends
<1>2. Headers(s) = {i \in DOMAIN s : IsHeader(s[i])} /\ Headers(t) = {i \in DOMAIN t : IsHeader(t[i])}
  BY DEF Headers, IsHeader
<1> QED
  BY <1>1, <1>2

(* What stands above a line stays when a line is added below. *)
LEMMA UnderVendorNext ==
    ASSUME NEW s, NEW t, NEW l, Extends(t, s, l), NEW vendor
    PROVE  /\ \A i \in 1 .. Len(s) : UnderVendor(t, i, vendor) <=> UnderVendor(s, i, vendor)
           /\ IsHeader(l) => (UnderVendor(t, Len(t), vendor) <=> l.key = vendor)
           /\ ~ IsHeader(l) => (UnderVendor(t, Len(t), vendor) <=> UnderVendor(s, Len(s), vendor))
<1> DEFINE n == Len(s) + 1
<1>1. /\ n \in Nat /\ Len(s) \in Nat /\ Len(t) = n /\ t[n] = l
      /\ \A i \in 1 .. Len(s) : t[i] = s[i] /\ i < n /\ i <= Len(s) /\ i <= n
  BY DEF Extends
<1>2. /\ Headers(s) \subseteq 1 .. Len(s)
      /\ IsHeader(l) => Headers(t) = Headers(s) \cup {n}
      /\ ~ IsHeader(l) => Headers(t) = Headers(s)
  BY HeadersNext
<1>3. \A i \in 1 .. Len(s) : ~ (n <= i)
  BY <1>1
<1> HIDE DEF n
<1>4. ASSUME NEW i \in 1 .. Len(s)
      PROVE  UnderVendor(t, i, vendor) <=> UnderVendor(s, i, vendor)
  <2>1. \A h : h \in Headers(t) /\ h <= i <=> h \in Headers(s) /\ h <= i
    BY <1>2, <1>3
  <2>2. \A h \in Headers(s) : t[h] = s[h]
    BY <1>1, <1>2
  <2> QED
    BY <2>1, <2>2 DEF UnderVendor
<1>5. ASSUME IsHeader(l) PROVE UnderVendor(t, Len(t), vendor) <=> l.key = vendor
  <2>1. n \in Headers(t) /\ n <= n /\ \A g \in Headers(t) : g <= n
    BY <1>1, <1>2, <1>5
  <2>2. \A h \in Headers(t) : n <= h => h = n
    BY <1>1, <1>2, <1>3, <1>5
  <2> QED
    BY <1>1, <2>1, <2>2 DEF UnderVendor
<1>6. ASSUME ~ IsHeader(l)
      PROVE  UnderVendor(t, Len(t), vendor) <=> UnderVendor(s, Len(s), vendor)
  <2>1. Headers(t) = Headers(s) /\ \A h \in Headers(s) : h <= n /\ h <= Len(s) /\ t[h] = s[h]
    BY <1>1, <1>2, <1>6
  <2> QED
    BY <1>1, <2>1 DEF UnderVendor
<1> QED
  BY <1>4, <1>5, <1>6

(* The device lines after one more line. *)
LEMMA DeviceLinesNext ==
    ASSUME NEW s, NEW t, NEW l, Extends(t, s, l), NEW vendor, NEW device
    PROVE  DeviceLines(t, vendor, device) =
             DeviceLines(s, vendor, device) \cup
               (IF l.key = device /\ ~ IsHeader(l) /\ UnderVendor(s, Len(s), vendor)
                THEN {Len(s) + 1} ELSE {})
<1> DEFINE n == Len(s) + 1
<1>1. /\ n \in Nat /\ Len(t) = n /\ n \notin 1 .. Len(s)
  BY DEF Extends
<1>2. /\ Headers(s) \subseteq 1 .. Len(s)
      /\ IsHeader(l) => Headers(t) = Headers(s) \cup {n}
      /\ ~ IsHeader(l) => Headers(t) = Headers(s)
  BY HeadersNext
<1>3. /\ Lines(s, device) \subseteq 1 .. Len(s)
      /\ l.key # device => Lines(t, device) = Lines(s, device)
      /\ l.key = device => Lines(t, device) = Lines(s, device) \cup {n}
  BY OneMoreLine
<1>4. /\ \A i \in 1 .. Len(s) : UnderVendor(t, i, vendor) <=> UnderVendor(s, i, vendor)
      /\ ~ IsHeader(l) => (UnderVendor(t, n, vendor) <=> UnderVendor(s, Len(s), vendor))
  BY <1>1, UnderVendorNext
<1> HIDE DEF n
<1>5. \A i \in 1 .. Len(s) : i \in DeviceLines(t, vendor, device) <=> i \in DeviceLines(s, vendor, device)
  <2> TAKE i \in 1 .. Len(s)
  <2>1. i # n
    BY <1>1
  <2>2. (i \in Lines(t, device) <=> i \in Lines(s, device)) /\ (i \in Headers(t) <=> i \in Headers(s))
    BY <1>2, <1>3, <2>1
  <2> QED
    BY <1>4, <2>2 DEF DeviceLines
<1>6. n \in DeviceLines(t, vendor, device) <=>
        l.key = device /\ ~ IsHeader(l) /\ UnderVendor(s, Len(s), vendor)
  <2>1. (n \in Lines(t, device) <=> l.key = device) /\ (n \in Headers(t) <=> IsHeader(l))
    BY <1>1, <1>2, <1>3
  <2> QED
    BY <1>4, <2>1 DEF DeviceLines
<1>7. DeviceLines(s, vendor, device) \subseteq 1 .. Len(s)
      /\ DeviceLines(t, vendor, device) \subseteq 1 .. Len(s) \cup {n}
  BY <1>3 DEF DeviceLines
<1> QED
  BY <1>1, <1>5, <1>6, <1>7 DEF n

PciInv(a, s) ==
    /\ DOMAIN a = {"done", "inVendor", "name"}
    /\ a.done \in BOOLEAN
    /\ PciIsRead(a, s, Vendor, Device)

LEMMA PciFirst == PciInv(PciStart, <<>>)
<1>1. Headers(<<>>) = {}
  BY NoLines DEF Headers
<1>2. ~ UnderVendor(<<>>, Len(<<>>), Vendor) /\ DeviceLines(<<>>, Vendor, Device) = {}
  BY <1>1, NoLines DEF UnderVendor, DeviceLines
<1>3. DOMAIN PciStart = {"done", "inVendor", "name"} /\ PciStart.done = FALSE
      /\ PciStart.inVendor = FALSE /\ PciStart.name = ""
  BY DEF PciStart
<1>4. (FALSE = UnderVendor(<<>>, Len(<<>>), Vendor))
  BY <1>2 DEF UnderVendor
<1> QED
  BY <1>2, <1>3, <1>4 DEF PciInv, PciIsRead

LEMMA PciNext ==
    ASSUME NEW s, NEW t, NEW l, Extends(t, s, l), NEW a, PciInv(a, s), ~ a.done
    PROVE  PciInv(PciLine(a, l, Vendor, Device), t)
<1> DEFINE b == PciLine(a, l, Vendor, Device)
           under == UnderVendor(s, Len(s), Vendor)
           hit == l.key = Device /\ ~ IsHeader(l) /\ under
<1>1. /\ DOMAIN a = {"done", "inVendor", "name"} /\ a.done = FALSE /\ a.name = ""
      /\ a.inVendor = under
      /\ DeviceLines(s, Vendor, Device) = {}
  BY DEF PciInv, PciIsRead
<1>2. under \in BOOLEAN
  BY DEF UnderVendor
<1>3. Device # ""
  BY LineReadersAssumption DEF LineReadersAssumption
<1>4. /\ t # <<>> /\ Len(t) = Len(s) + 1 /\ t[Len(t)] = l
      /\ IsHeader(l) => (UnderVendor(t, Len(t), Vendor) <=> l.key = Vendor)
      /\ ~ IsHeader(l) => (UnderVendor(t, Len(t), Vendor) <=> under)
  BY OneMoreLine, UnderVendorNext DEF Extends
<1>5. /\ hit => DeviceLines(t, Vendor, Device) = {Len(t)}
      /\ ~ hit => DeviceLines(t, Vendor, Device) = {}
  <2>1. DeviceLines(t, Vendor, Device) =
          DeviceLines(s, Vendor, Device) \cup (IF hit THEN {Len(s) + 1} ELSE {})
    BY DeviceLinesNext
  <2> HIDE DEF hit
  <2> QED
    BY <1>1, <1>4, <2>1
<1>6. UnderVendor(t, Len(t), Vendor) \in BOOLEAN
  BY DEF UnderVendor
<1> HIDE DEF under
<1>7. CASE IsHeader(l)
  <2>1. b = [a EXCEPT !.inVendor = (l.key = Vendor)]
    BY <1>7 DEF PciLine, IsHeader
  <2>2. /\ DOMAIN b = {"done", "inVendor", "name"} /\ b.done = FALSE /\ b.name = ""
        /\ b.inVendor = (l.key = Vendor)
    BY <1>1, <2>1
  <2>3. b.inVendor = UnderVendor(t, Len(t), Vendor)
    BY <1>4, <1>6, <1>7, <2>2
  <2>4. DeviceLines(t, Vendor, Device) = {}
    BY <1>5, <1>7
  <2> HIDE DEF b
  <2> QED
    BY <2>2, <2>3, <2>4 DEF PciInv, PciIsRead, b
<1>8. CASE hit
  <2>1. b = [a EXCEPT !.done = TRUE, !.name = l.value]
    BY <1>1, <1>3, <1>8 DEF PciLine, IsHeader
  <2>2. /\ DOMAIN b = {"done", "inVendor", "name"} /\ b.done = TRUE /\ b.name = l.value
        /\ b.inVendor = under
    BY <1>1, <2>1
  <2>3. b.inVendor = UnderVendor(t, Len(t), Vendor)
    BY <1>2, <1>4, <1>6, <1>8, <2>2
  <2>4. DeviceLines(t, Vendor, Device) = {Len(t)}
    BY <1>5, <1>8
  <2> HIDE DEF b
  <2> QED
    BY <1>4, <2>2, <2>3, <2>4 DEF PciInv, PciIsRead, b
<1>9. CASE ~ IsHeader(l) /\ ~ hit
  <2>1. b = a
    BY <1>1, <1>9 DEF PciLine, IsHeader
  <2>2. a.inVendor = UnderVendor(t, Len(t), Vendor)
    BY <1>1, <1>2, <1>4, <1>6, <1>9
  <2>3. DeviceLines(t, Vendor, Device) = {}
    BY <1>5, <1>9
  <2> QED
    BY <1>1, <2>1, <2>2, <2>3 DEF PciInv, PciIsRead
<1> QED
  BY <1>7, <1>8, <1>9

-------------------------------------------------------------------------------
(* The state.  A file of text stays as it is; while a call is under way, the   *)
(* locals are what the loop has computed from the lines read.                  *)

TextFiles == {"cpuinfo", "os-release", "meminfo", "passwd", "status", "pci.ids"}

LoopInv(f, a, s) ==
    /\ f = "cpuinfo" => CpuinfoInv(a, s)
    /\ f = "os-release" => OsReleaseInv(a, s)
    /\ f \in {"meminfo", "passwd"} => MapIsRead(a, s)
    /\ f = "status" => UidInv(a, s)
    /\ f = "pci.ids" => PciInv(a, s)

SomeLines == lines \in Seq({lines[i] : i \in DOMAIN lines})

ReadInv ==
    file \in TextFiles =>
        /\ SomeLines
        /\ file = "meminfo" => NumericLines(lines)
        /\ pos \in 0 .. Len(lines) + 1
        /\ pos = 0 => acc = Start(file)
        /\ pos # 0 => LoopInv(file, acc, ReadSoFar)

LEMMA ReadNext ==
    ASSUME SomeLines, pos \in 1 .. Len(lines)
    PROVE  Extends(SubSeq(lines, 1, pos), SubSeq(lines, 1, pos - 1), lines[pos])
<1> DEFINE S == {lines[i] : i \in DOMAIN lines}
           s == SubSeq(lines, 1, pos - 1)
           t == SubSeq(lines, 1, pos)
<1>1. lines \in Seq(S) /\ Len(lines) \in Nat /\ DOMAIN lines = 1 .. Len(lines)
  BY LenProperties DEF SomeLines
<1> HIDE DEF S
<1>2. /\ s \in Seq(S) /\ Len(s) = pos - 1 /\ \A i \in 1 .. pos - 1 : s[i] = lines[i]
      /\ t \in Seq(S) /\ Len(t) = pos /\ \A i \in 1 .. pos : t[i] = lines[i]
  BY <1>1
<1>3. DOMAIN s = 1 .. Len(s) /\ DOMAIN t = 1 .. Len(t)
  BY <1>2
<1> HIDE DEF s, t
<1> QED
  BY <1>2, <1>3 DEF Extends, s, t

LEMMA LoopFirst ==
    ASSUME NEW f \in TextFiles
    PROVE  LoopInv(f, Start(f), <<>>)
<1>1. /\ f = "cpuinfo" => Start(f) = CpuinfoStart
      /\ f = "os-release" => Start(f) = OsReleaseStart
      /\ f \in {"meminfo", "passwd"} => Start(f) = MapStart
      /\ f = "status" => Start(f) = UidStart
      /\ f = "pci.ids" => Start(f) = PciStart
  BY DEF TextFiles, Start, Counters
<1> QED
  BY <1>1, CpuinfoFirst, OsReleaseFirst, MapFirst, UidFirst, PciFirst DEF LoopInv

LEMMA LoopNext ==
    ASSUME ReadInv, file \in TextFiles, TextLine
    PROVE  LoopInv(file, acc', SubSeq(lines, 1, pos))
<1> DEFINE s == SubSeq(lines, 1, pos - 1)
           t == SubSeq(lines, 1, pos)
           l == lines[pos]
<1>1. pos \in 1 .. Len(lines) /\ (file \in Lookups => ~ acc.done) /\ SomeLines /\ LoopInv(file, acc, s)
  BY DEF ReadInv, ReadSoFar, TextLine, Take, Reading, AtEnd
<1>2. Extends(t, s, l)
  BY <1>1, ReadNext
<1>3. /\ file = "cpuinfo" => acc' = CpuinfoLine(acc, l)
      /\ file = "os-release" => acc' = OsReleaseLine(acc, l)
      /\ file \in {"meminfo", "passwd"} => acc' = MapLine(acc, l)
      /\ file = "status" => acc' = UidLine(acc, l)
      /\ file = "pci.ids" => acc' = PciLine(acc, l, Vendor, Device)
  BY DEF TextLine, Take, Line
<1> HIDE DEF s, t, l
<1>4. CASE file = "cpuinfo"
  <2>1. CpuinfoInv(CpuinfoLine(acc, l), t)
    BY <1>1, <1>2, <1>4, CpuinfoNext DEF LoopInv
  <2> QED
    BY <1>3, <1>4, <2>1 DEF LoopInv, t
<1>5. CASE file = "os-release"
  <2>1. OsReleaseInv(OsReleaseLine(acc, l), t)
    BY <1>1, <1>2, <1>5, OsReleaseNext DEF LoopInv
  <2> QED
    BY <1>3, <1>5, <2>1 DEF LoopInv, t
<1>6. CASE file \in {"meminfo", "passwd"}
  <2>1. MapIsRead(MapLine(acc, l), t)
    BY <1>1, <1>2, <1>6, MapNext DEF LoopInv
  <2> QED
    BY <1>3, <1>6, <2>1 DEF LoopInv, t
<1>7. CASE file = "status"
  <2>1. UidInv(UidLine(acc, l), t)
    BY <1>1, <1>2, <1>7, UidNext DEF LoopInv, Lookups
  <2> QED
    BY <1>3, <1>7, <2>1 DEF LoopInv, t
<1>8. CASE file = "pci.ids"
  <2>1. PciInv(PciLine(acc, l, Vendor, Device), t)
    BY <1>1, <1>2, <1>8, PciNext DEF LoopInv, Lookups
  <2> QED
    BY <1>3, <1>8, <2>1 DEF LoopInv, t
<1> QED
  BY <1>4, <1>5, <1>6, <1>7, <1>8 DEF TextFiles

LEMMA ReadAtFirst == Init => ReadInv
<1> SUFFICES ASSUME Init, file \in TextFiles
             PROVE  /\ SomeLines
                    /\ file = "meminfo" => NumericLines(lines)
                    /\ pos \in 0 .. Len(lines) + 1
                    /\ pos = 0 => acc = Start(file)
                    /\ pos # 0 => LoopInv(file, acc, ReadSoFar)
  BY DEF ReadInv
<1>1. PICK c \in Contents : file = c.file /\ lines = c.lines
  BY DEF Init
<1>2. pos = 0 /\ acc = Start(file)
  BY DEF Init
<1>3. SomeLines /\ (file = "meminfo" => NumericLines(lines))
  BY <1>1, LineReadersAssumption DEF LineReadersAssumption, SomeLines, NumericLines
<1>4. Len(lines) \in Nat
  BY <1>3 DEF SomeLines
<1> QED
  BY <1>2, <1>3, <1>4

LEMMA ReadStep == ReadInv /\ [Next]_vars => ReadInv'
<1> SUFFICES ASSUME ReadInv, [Next]_vars, file \in TextFiles, file' = file
             PROVE  ReadInv'
  <2>1. [Next]_vars => file' = file
    BY DEF Next, vars, world, Transfer, Unmount, Open, Return, Take, TextLine,
           DiskstatsLine, NetDevLine, MountsLine
  <2> QED
    BY <2>1 DEF ReadInv
<1>1. /\ SomeLines /\ (file = "meminfo" => NumericLines(lines))
      /\ pos \in 0 .. Len(lines) + 1 /\ (pos = 0 => acc = Start(file))
      /\ pos # 0 => LoopInv(file, acc, ReadSoFar)
      /\ Len(lines) \in Nat
  BY DEF ReadInv, SomeLines
<1>2. file \notin Counters /\ file # "mounts"
  BY DEF TextFiles, Counters
<1>3. \/ Open \/ Return \/ TextLine \/ UNCHANGED vars
  BY <1>2 DEF Next, Transfer, Unmount, DiskstatsLine, NetDevLine, MountsLine, Counters
<1>4. lines' = lines
  BY <1>3 DEF Open, Return, TextLine, Take, vars, world
<1>5. SomeLines' /\ (file = "meminfo" => NumericLines(lines)')
  BY <1>1, <1>4 DEF SomeLines, NumericLines
<1>6. CASE Open
  <2>1. pos' = 1 /\ acc' = Start(file)
    BY <1>1, <1>6 DEF Open
  <2>2. ReadSoFar' = <<>>
    BY <1>1, <1>4, <2>1 DEF ReadSoFar, SomeLines
  <2>3. LoopInv(file, acc', ReadSoFar')
    BY <2>1, <2>2, LoopFirst
  <2> QED
    BY <1>1, <1>4, <1>5, <2>1, <2>3 DEF ReadInv
<1>7. CASE Return
  <2>1. pos' = 0 /\ acc' = Start(file')
    BY <1>7 DEF Return
  <2> QED
    BY <1>1, <1>4, <1>5, <2>1 DEF ReadInv
<1>8. CASE TextLine
  <2>1. pos \in 1 .. Len(lines) /\ pos' = pos + 1
    BY <1>1, <1>8 DEF TextLine, Take, Reading, AtEnd
  <2>2. ReadSoFar' = SubSeq(lines, 1, pos)
    BY <1>4, <2>1 DEF ReadSoFar
  <2>3. LoopInv(file, acc', SubSeq(lines, 1, pos))
    BY <1>8, LoopNext
  <2> QED
    BY <1>1, <1>4, <1>5, <2>1, <2>2, <2>3 DEF ReadInv
<1>9. CASE UNCHANGED vars
  <2>1. pos' = pos /\ acc' = acc
    BY <1>9 DEF vars, world
  <2>2. ReadSoFar' = ReadSoFar
    BY <1>4, <2>1 DEF ReadSoFar
  <2> QED
    BY <1>1, <1>4, <1>5, <2>1, <2>2 DEF ReadInv
<1> QED
  BY <1>3, <1>6, <1>7, <1>8, <1>9

LEMMA ReadGives == ReadInv => LinesAreUnderstood
<1> SUFFICES ASSUME ReadInv, pos # 0, file \in TextFiles
             PROVE  /\ file = "cpuinfo" => CpuinfoIsRead(acc, ReadSoFar) /\ HasCores
                    /\ file = "os-release" => OsReleaseIsRead(acc, ReadSoFar)
                    /\ file \in {"meminfo", "passwd"} => MapIsRead(acc, ReadSoFar)
                    /\ file = "meminfo" => MemoryFits
                    /\ file = "passwd" => UsersAreNamed
                    /\ file = "status" => UidIsRead(acc, ReadSoFar)
                    /\ file = "pci.ids" => PciIsRead(acc, ReadSoFar, Vendor, Device)
  BY DEF LinesAreUnderstood, TextFiles
<1>1. LoopInv(file, acc, ReadSoFar)
  BY DEF ReadInv
<1>2. file = "cpuinfo" => CpuinfoIsRead(acc, ReadSoFar) /\ HasCores
  BY <1>1, CpuinfoCounts DEF LoopInv, CpuinfoInv, HasCores
<1>3. file = "os-release" => OsReleaseIsRead(acc, ReadSoFar)
  BY <1>1 DEF LoopInv, OsReleaseInv
<1>4. file \in {"meminfo", "passwd"} => MapIsRead(acc, ReadSoFar)
  BY <1>1 DEF LoopInv
<1>5. ASSUME file = "meminfo" PROVE MemoryFits
  <2>1. SomeLines /\ NumericLines(lines) /\ pos \in 1 .. Len(lines) + 1 /\ Len(lines) \in Nat
    BY <1>5 DEF ReadInv, SomeLines
  <2>2. NumericLines(ReadSoFar)
    <3>1. \A i \in DOMAIN ReadSoFar : i \in DOMAIN lines /\ ReadSoFar[i] = lines[i]
      BY <2>1 DEF SomeLines, ReadSoFar
    <3> QED
      BY <2>1, <3>1 DEF NumericLines
  <2> QED
    BY <1>4, <1>5, <2>2, MemoryInBounds DEF MemoryFits
<1>6. ASSUME file = "passwd" PROVE UsersAreNamed
  BY <1>4, <1>6, LastNameShown DEF UsersAreNamed
<1>7. file = "status" => UidIsRead(acc, ReadSoFar)
  BY <1>1 DEF LoopInv, UidInv
<1>8. file = "pci.ids" => PciIsRead(acc, ReadSoFar, Vendor, Device)
  BY <1>1 DEF LoopInv, PciInv
<1> QED
  BY <1>2, <1>3, <1>4, <1>5, <1>6, <1>7, <1>8

(* static_info.rs:68-151, memory.rs:19-71, processes.rs:102-134,               *)
(* gpu_amd.rs:129-151: whatever lines a file has, and however many, each loop  *)
(* has at every line computed what it is to from the lines before it.          *)
THEOREM LinesUnderstood == Spec => []LinesAreUnderstood
<1>1. Spec => []ReadInv
  BY ReadAtFirst, ReadStep, PTL DEF Spec
<1> QED
  BY <1>1, ReadGives, PTL

-------------------------------------------------------------------------------
(* The table of mounts: what has been listed, and the lines gone by.           *)

Devices == {lines[i].device : i \in DOMAIN lines}
DiskRow == [fs : Devices, of : {"another"} \cup Devices, line : DOMAIN lines]

Listed(rows, dev) == \E k \in DOMAIN rows : rows[k].fs = dev

(* Why a mount may be missing, or have another file system's figures. *)
Failed(j) == j \in gone \/ \E k \in DOMAIN lines :
                             lines[k].dead /\ k >= j /\ lines[k].mount = lines[j].mount
Covered(j) == \E k \in DOMAIN lines : k > j /\ lines[k].mount = lines[j].mount

Missed(i) == \E j \in 1 .. i : lines[j].device = lines[i].device /\ IsDiskLine(j) /\ Failed(j)

RightDisk(d) ==
    /\ lines[d.line].device = d.fs /\ IsDiskLine(d.line)
    /\ d.of = d.fs \/ d.line \in gone \/ Covered(d.line)

RowsInv(rows, seen) ==
    /\ rows \in Seq(DiskRow)
    /\ \A i \in DOMAIN rows : rows[i].fs \in seen /\ RightDisk(rows[i])
    /\ \A i, j \in DOMAIN rows : rows[i].fs = rows[j].fs => i = j

SeenInv(rows, seen, n) ==
    /\ \A dev \in seen : \E i \in 1 .. n : IsDiskLine(i) /\ lines[i].device = dev
    /\ \A i \in 1 .. n : IsDiskLine(i) =>
          lines[i].device \in seen /\ (Listed(rows, lines[i].device) \/ Missed(i))

Named == \A i \in DOMAIN lines : lines[i].device # ""

MountsInv ==
    file = "mounts" =>
        /\ SomeLines /\ Named
        /\ pos \in 0 .. Len(lines) + 1
        /\ pos = 0 => acc = Start(file)
        /\ pos # 0 => RowsInv(acc.disks, acc.seen) /\ SeenInv(acc.disks, acc.seen, pos - 1)

LEMMA TheLines == SomeLines => Len(lines) \in Nat /\ DOMAIN lines = 1 .. Len(lines)
BY DEF SomeLines

LEMMA MountsGive == MountsInv => DisksAreListedOnce
<1> SUFFICES ASSUME MountsInv, file = "mounts" PROVE DisksAreListedOnce
  BY DEF DisksAreListedOnce
<1>1. Len(lines) \in Nat /\ DOMAIN lines = 1 .. Len(lines) /\ pos \in 0 .. Len(lines) + 1
  BY TheLines DEF MountsInv
<1>2. CASE pos = 0
  <2>1. acc.disks = <<>>
    <3>1. acc = Start(file)
      BY <1>2 DEF MountsInv
    <3>2. Start(file) = [seen |-> {}, disks |-> <<>>]
      BY DEF Start, Counters
    <3> QED
      BY <3>1, <3>2
  <2>2. \A i \in DOMAIN lines : ~ (i < pos)
    BY <1>1, <1>2
  <2> QED
    BY <2>1, <2>2 DEF DisksAreListedOnce
<1>3. CASE pos # 0
  <2>1. RowsInv(acc.disks, acc.seen) /\ SeenInv(acc.disks, acc.seen, pos - 1)
    BY <1>3 DEF MountsInv
  <2>2. \A i, j \in DOMAIN acc.disks : acc.disks[i].fs = acc.disks[j].fs => i = j
    BY <2>1 DEF RowsInv
  <2>3. \A i \in DOMAIN acc.disks : LET d == acc.disks[i] IN
             \/ d.of = d.fs /\ lines[d.line].device = d.fs /\ IsDiskLine(d.line)
             \/ d.line \in gone
             \/ \E j \in DOMAIN lines : j > d.line /\ lines[j].mount = lines[d.line].mount
    BY <2>1 DEF RowsInv, RightDisk, Covered
  <2>4. \A i \in DOMAIN lines : i < pos /\ IsDiskLine(i) => Listed(acc.disks, lines[i].device) \/ Missed(i)
    <3>1. \A i \in DOMAIN lines : i < pos => i \in 1 .. pos - 1
      BY <1>1, <1>3
    <3> QED
      BY <2>1, <3>1 DEF SeenInv
  <2> QED
    BY <2>2, <2>3, <2>4 DEF DisksAreListedOnce, Listed, Missed, Failed
<1> QED
  BY <1>2, <1>3

LEMMA StatvfsFacts ==
    ASSUME SomeLines, Named,
           NEW j \in DOMAIN lines, NEW of \in Statvfs(lines[j].mount)
    PROVE  /\ of = "" => Failed(j)
           /\ of # "" => /\ of \in {"another"} \cup Devices
                         /\ of = lines[j].device \/ j \in gone \/ Covered(j)
<1> DEFINE path == lines[j].mount
<1>1. Len(lines) \in Nat /\ DOMAIN lines = 1 .. Len(lines)
  BY TheLines
<1>2. j \in gone \/ j \in MountsAt(path)
  BY DEF MountsAt
<1>3. CASE MountsAt(path) = {}
  BY <1>2, <1>3 DEF Statvfs, Failed
<1>4. CASE MountsAt(path) # {}
  <2>1. PICK k \in Top(path) : of = IF lines[k].dead THEN "" ELSE lines[k].device
    BY <1>4 DEF Statvfs
  <2>2. k \in DOMAIN lines /\ lines[k].mount = path /\ (j \notin gone => j <= k)
    BY <1>2, <2>1 DEF Top, MountsAt
  <2>3. j \notin gone => k >= j /\ (k = j \/ k > j)
    BY <1>1, <2>2
  <2>4. of = "" => lines[k].dead
    BY <2>1, <2>2 DEF Named
  <2> QED
    BY <2>1, <2>2, <2>3, <2>4 DEF Failed, Covered, Devices
<1> QED
  BY <1>3, <1>4

(* A line that is skipped, as no disk's or as one of a device seen before. *)
LEMMA SkippedLine ==
    ASSUME NEW rows, NEW seen, NEW n \in Nat, SeenInv(rows, seen, n),
           ~ IsDiskLine(n + 1) \/ lines[n + 1].device \in seen
    PROVE  SeenInv(rows, seen, n + 1)
<1>1. \A i \in 1 .. n : i \in 1 .. n + 1
  OBVIOUS
<1>2. \A i \in 1 .. n + 1 : i \in 1 .. n \/ i = n + 1
  OBVIOUS
<1>3. \A dev \in seen : \E i \in 1 .. n + 1 : IsDiskLine(i) /\ lines[i].device = dev
  BY <1>1 DEF SeenInv
<1>4. ASSUME IsDiskLine(n + 1)
      PROVE  Listed(rows, lines[n + 1].device) \/ Missed(n + 1)
  <2>1. PICK i \in 1 .. n : IsDiskLine(i) /\ lines[i].device = lines[n + 1].device
    BY <1>4 DEF SeenInv
  <2>2. Listed(rows, lines[n + 1].device) \/ Missed(i)
    BY <2>1 DEF SeenInv
  <2>3. \A j \in 1 .. i : j \in 1 .. n + 1
    BY <2>1
  <2> QED
    BY <2>1, <2>2, <2>3 DEF Missed
<1> QED
  BY <1>2, <1>3, <1>4 DEF SeenInv

(* The first line of a device, with statvfs or without. *)
LEMMA FirstLine ==
    ASSUME NEW rows, NEW more, NEW seen, NEW n \in Nat, SeenInv(rows, seen, n), IsDiskLine(n + 1),
           \A dev : Listed(rows, dev) => Listed(more, dev),
           Listed(more, lines[n + 1].device) \/ Failed(n + 1)
    PROVE  SeenInv(more, seen \cup {lines[n + 1].device}, n + 1)
<1>1. \A i \in 1 .. n : i \in 1 .. n + 1
  OBVIOUS
<1>2. \A i \in 1 .. n + 1 : i \in 1 .. n \/ i = n + 1
  OBVIOUS
<1>3. n + 1 \in 1 .. n + 1
  OBVIOUS
<1>4. Failed(n + 1) => Missed(n + 1)
  BY <1>3 DEF Missed
<1> QED
  BY <1>1, <1>2, <1>3, <1>4 DEF SeenInv

LEMMA MountsNext ==
    ASSUME MountsInv, MountsLine
    PROVE  RowsInv(acc'.disks, acc'.seen) /\ SeenInv(acc'.disks, acc'.seen, pos)
<1>1. /\ SomeLines /\ Named
      /\ RowsInv(acc.disks, acc.seen) /\ SeenInv(acc.disks, acc.seen, pos - 1)
      /\ pos \in 1 .. Len(lines) /\ Len(lines) \in Nat /\ DOMAIN lines = 1 .. Len(lines)
  <2>1. pos # 0 /\ ~ (pos > Len(lines)) /\ file = "mounts"
    BY DEF MountsLine, Reading, AtEnd
  <2>2. SomeLines /\ Named /\ pos \in 0 .. Len(lines) + 1
        /\ RowsInv(acc.disks, acc.seen) /\ SeenInv(acc.disks, acc.seen, pos - 1)
    BY <2>1 DEF MountsInv
  <2>3. Len(lines) \in Nat /\ DOMAIN lines = 1 .. Len(lines)
    BY <2>2, TheLines
  <2>4. pos \in 1 .. Len(lines)
    BY <2>1, <2>2, <2>3
  <2> QED
    BY <2>2, <2>3, <2>4
<1>2. pos - 1 \in Nat /\ (pos - 1) + 1 = pos /\ pos \in DOMAIN lines
  <2>1. pos \in 1 .. Len(lines) /\ Len(lines) \in Nat /\ DOMAIN lines = 1 .. Len(lines)
    BY <1>1
  <2> QED
    BY <2>1
<1>3. CASE Line.fstype \in PseudoFs \cup {""} \/ Line.device \in acc.seen
  <2>1. acc' = acc
    BY <1>3 DEF MountsLine, Take
  <2>2. ~ IsDiskLine(pos) \/ lines[pos].device \in acc.seen
    BY <1>3 DEF IsDiskLine, Line
  <2>3. SeenInv(acc.disks, acc.seen, (pos - 1) + 1)
    BY <1>1, <1>2, <2>2, SkippedLine
  <2> QED
    BY <1>1, <1>2, <2>1, <2>3
<1>4. CASE ~ (Line.fstype \in PseudoFs \cup {""} \/ Line.device \in acc.seen)
  <2> DEFINE dev == lines[pos].device
  <2>1. PICK of \in Statvfs(lines[pos].mount) :
           acc' = [seen  |-> acc.seen \cup {dev},
                   disks |-> IF of = "" THEN acc.disks
                             ELSE Append(acc.disks, [fs |-> dev, of |-> of, line |-> pos])]
    BY <1>4 DEF MountsLine, Take, Line
  <2>2. IsDiskLine(pos) /\ dev \notin acc.seen
    BY <1>4 DEF IsDiskLine, Line
  <2>3. /\ of = "" => Failed(pos)
        /\ of # "" => /\ of \in {"another"} \cup Devices
                      /\ of = dev \/ pos \in gone \/ Covered(pos)
    BY <1>1, <1>2, <2>1, StatvfsFacts
  <2>4. dev \in Devices
    BY <1>2 DEF Devices
  <2> HIDE DEF dev
  <2>5. CASE of = ""
    <3>1. acc'.seen = acc.seen \cup {dev} /\ acc'.disks = acc.disks
      BY <2>1, <2>5
    <3>2. RowsInv(acc.disks, acc.seen \cup {dev})
      BY <1>1 DEF RowsInv
    <3>3. SeenInv(acc.disks, acc.seen \cup {dev}, (pos - 1) + 1)
      BY <1>1, <1>2, <2>2, <2>3, <2>5, FirstLine DEF dev
    <3> QED
      BY <1>2, <3>1, <3>2, <3>3
  <2>6. CASE of # ""
    <3> DEFINE row == [fs |-> dev, of |-> of, line |-> pos]
               rows == acc.disks
               more == Append(rows, row)
    <3>1. acc'.seen = acc.seen \cup {dev} /\ acc'.disks = more
      BY <2>1, <2>6
    <3>2. row \in DiskRow /\ row.fs = dev /\ row.line = pos /\ row.of = of
      BY <1>2, <2>3, <2>4, <2>6 DEF DiskRow
    <3>3. RightDisk(row)
      BY <2>2, <2>3, <2>6, <3>2 DEF RightDisk, dev
    <3> HIDE DEF row
    <3>4. rows \in Seq(DiskRow) /\ Len(rows) \in Nat /\ DOMAIN rows = 1 .. Len(rows)
      <4>1. rows \in Seq(DiskRow)
        BY <1>1 DEF RowsInv
      <4> HIDE DEF rows
      <4> QED
        BY <4>1
    <3>5. /\ more \in Seq(DiskRow) /\ DOMAIN more = 1 .. Len(rows) + 1
          /\ \A i \in 1 .. Len(rows) : more[i] = rows[i]
          /\ more[Len(rows) + 1] = row
      BY <3>2, <3>4, AppendProperties
    <3>6. \A i \in DOMAIN more : i \in DOMAIN rows \/ i = Len(rows) + 1
      BY <3>4, <3>5
    <3>7. \A i \in DOMAIN rows : i \in DOMAIN more /\ more[i] = rows[i]
      BY <3>4, <3>5
    <3>8. Len(rows) + 1 \in DOMAIN more
      BY <3>4, <3>5
    <3> HIDE DEF more
    <3>9. \A i \in DOMAIN rows : rows[i].fs \in acc.seen /\ RightDisk(rows[i])
      BY <1>1 DEF RowsInv
    <3>10. \A i \in DOMAIN more : more[i].fs \in acc.seen \cup {dev} /\ RightDisk(more[i])
      BY <3>2, <3>3, <3>5, <3>6, <3>7, <3>9
    <3>11. \A i, j \in DOMAIN rows : rows[i].fs = rows[j].fs => i = j
      BY <1>1 DEF RowsInv
    <3>12. \A i, j \in DOMAIN more : more[i].fs = more[j].fs => i = j
      BY <2>2, <3>2, <3>5, <3>6, <3>7, <3>9, <3>11
    <3>13. RowsInv(more, acc.seen \cup {dev})
      BY <3>5, <3>10, <3>12 DEF RowsInv
    <3>14. \A d : Listed(rows, d) => Listed(more, d)
      BY <3>7 DEF Listed
    <3>15. Listed(more, dev)
      BY <3>2, <3>5, <3>8 DEF Listed
    <3>16. SeenInv(more, acc.seen \cup {dev}, (pos - 1) + 1)
      BY <1>1, <1>2, <2>2, <3>14, <3>15, FirstLine DEF dev
    <3> QED
      BY <1>2, <3>1, <3>13, <3>16
  <2> QED
    BY <2>5, <2>6
<1> QED
  BY <1>3, <1>4

LEMMA MountsAtFirst == Init => MountsInv
<1> SUFFICES ASSUME Init, file = "mounts" PROVE MountsInv
  BY DEF MountsInv
<1>1. PICK c \in Contents : file = c.file /\ lines = c.lines
  BY DEF Init
<1>2. pos = 0 /\ acc = Start(file)
  BY DEF Init
<1>3. SomeLines /\ Named
  BY <1>1, LineReadersAssumption DEF LineReadersAssumption, SomeLines, Named
<1>4. Len(lines) \in Nat
  BY <1>3, TheLines
<1> QED
  BY <1>2, <1>3, <1>4 DEF MountsInv

(* Only more mounts can have gone: what has been found out remains true. *)
LEMMA GoneGrows ==
    ASSUME lines' = lines, gone \subseteq gone'
    PROVE  /\ DiskRow' = DiskRow
           /\ \A j : IsDiskLine(j)' <=> IsDiskLine(j)
           /\ \A d : RightDisk(d) => RightDisk(d)'
           /\ \A i : Missed(i) => Missed(i)'
<1>1. DiskRow' = DiskRow
  BY DEF DiskRow, Devices
<1>2. \A j : IsDiskLine(j)' <=> IsDiskLine(j)
  BY DEF IsDiskLine
<1>3. \A j : Covered(j)' <=> Covered(j)
  BY DEF Covered
<1>4. \A j : Failed(j) => Failed(j)'
  BY DEF Failed
<1>5. \A d : RightDisk(d) => RightDisk(d)'
  BY <1>2, <1>3 DEF RightDisk
<1>6. \A i : Missed(i) => Missed(i)'
  BY <1>2, <1>4 DEF Missed
<1> QED
  BY <1>1, <1>2, <1>5, <1>6

LEMMA MountsStep == MountsInv /\ [Next]_vars => MountsInv'
<1> SUFFICES ASSUME MountsInv, [Next]_vars, file = "mounts", file' = file
             PROVE  MountsInv'
  <2>1. [Next]_vars => file' = file
    BY DEF Next, vars, world, Transfer, Unmount, Open, Return, Take, TextLine,
           DiskstatsLine, NetDevLine, MountsLine
  <2> QED
    BY <2>1 DEF MountsInv
<1>1. /\ SomeLines /\ Named
      /\ pos \in 0 .. Len(lines) + 1 /\ (pos = 0 => acc = Start(file))
      /\ pos # 0 => RowsInv(acc.disks, acc.seen) /\ SeenInv(acc.disks, acc.seen, pos - 1)
      /\ Len(lines) \in Nat
  BY TheLines DEF MountsInv
<1>2. \/ \E i \in DOMAIN lines : Unmount(i)
      \/ Open \/ Return \/ MountsLine \/ UNCHANGED vars
  BY DEF Next, Transfer, DiskstatsLine, NetDevLine, TextLine, Counters
<1>3. lines' = lines
  BY <1>2 DEF Unmount, Open, Return, MountsLine, Take, vars, world
<1>4. SomeLines' /\ Named'
  BY <1>1, <1>3 DEF SomeLines, Named
<1>5. Start(file) = [seen |-> {}, disks |-> <<>>]
  BY DEF Start, Counters
<1>6. CASE Open
  <2>1. pos' = 1 /\ acc' = Start(file)
    BY <1>1, <1>6 DEF Open
  <2>2. acc'.disks = <<>> /\ acc'.seen = {}
    BY <1>5, <2>1
  <2>3. RowsInv(acc.disks, acc.seen)'
    BY <2>2, EmptySeq DEF RowsInv
  <2>4. SeenInv(acc.disks, acc.seen, pos - 1)'
    BY <2>1, <2>2 DEF SeenInv
  <2> QED
    BY <1>1, <1>3, <1>4, <2>1, <2>3, <2>4 DEF MountsInv
<1>7. CASE Return
  <2>1. pos' = 0 /\ acc' = Start(file')
    BY <1>7 DEF Return
  <2> QED
    BY <1>1, <1>3, <1>4, <2>1 DEF MountsInv
<1>8. CASE MountsLine
  <2>1. pos \in 1 .. Len(lines) /\ pos' = pos + 1 /\ gone' = gone
    <3>1. pos' = pos + 1 /\ gone' = gone
      BY <1>8 DEF MountsLine, Take, world
    <3>2. pos # 0 /\ ~ (pos > Len(lines))
      BY <1>8 DEF MountsLine, Reading, AtEnd
    <3>3. pos \in 0 .. Len(lines) + 1 /\ Len(lines) \in Nat
      BY <1>1
    <3>4. pos \in 1 .. Len(lines)
      BY <3>2, <3>3
    <3> QED
      BY <3>1, <3>4
  <2>2. pos' - 1 = pos
    BY <2>1
  <2>3. RowsInv(acc'.disks, acc'.seen) /\ SeenInv(acc'.disks, acc'.seen, pos)
    BY <1>8, MountsNext
  <2>4. RowsInv(acc.disks, acc.seen)'
    BY <1>3, <2>1, <2>3, GoneGrows DEF RowsInv
  <2>5. SeenInv(acc.disks, acc.seen, pos - 1)'
    BY <1>3, <2>1, <2>2, <2>3, GoneGrows DEF SeenInv, Listed
  <2> QED
    BY <1>1, <1>3, <1>4, <2>1, <2>4, <2>5 DEF MountsInv
<1>9. ASSUME NEW m \in DOMAIN lines, Unmount(m) PROVE MountsInv'
  <2>1. gone \subseteq gone' /\ pos' = pos /\ acc' = acc /\ pos # 0
    BY <1>9 DEF Unmount
  <2>2. RowsInv(acc.disks, acc.seen)'
    BY <1>1, <1>3, <2>1, GoneGrows DEF RowsInv
  <2>3. SeenInv(acc.disks, acc.seen, pos - 1)'
    BY <1>1, <1>3, <2>1, GoneGrows DEF SeenInv, Listed
  <2> QED
    BY <1>1, <1>3, <1>4, <2>1, <2>2, <2>3 DEF MountsInv
<1>10. CASE UNCHANGED vars
  <2>1. pos' = pos /\ acc' = acc /\ gone' = gone
    BY <1>10 DEF vars, world
  <2>2. RowsInv(acc.disks, acc.seen) => RowsInv(acc.disks, acc.seen)'
    BY <1>3, <2>1, GoneGrows DEF RowsInv
  <2>3. SeenInv(acc.disks, acc.seen, pos - 1) => SeenInv(acc.disks, acc.seen, pos - 1)'
    BY <1>3, <2>1, GoneGrows DEF SeenInv, Listed
  <2> QED
    BY <1>1, <1>3, <1>4, <2>1, <2>2, <2>3 DEF MountsInv
<1> QED
  BY <1>2, <1>6, <1>7, <1>8, <1>9, <1>10

(* static_info.rs:258-288: whatever mounts there are, and whichever go while   *)
(* they are asked about, a device is listed once and with its own figures,     *)
(* unless its mount has gone or been covered, or statvfs failed on the first.  *)
THEOREM ListedOnce == Spec => []DisksAreListedOnce
<1>1. Spec => []MountsInv
  BY MountsAtFirst, MountsStep, PTL DEF Spec
<1> QED
  BY <1>1, MountsGive, PTL

-------------------------------------------------------------------------------
(* The counters of disks and interfaces: what the lines still to be read hold, *)
(* with what has been summed, is between the transfers before and until now.   *)

Ways == {"in", "out"}

TypeInv ==
    /\ file \in Files /\ SomeLines
    /\ pos \in 0 .. Len(lines) + 1
    /\ moved \in Counts /\ opened \in Counts
    /\ gone \subseteq DOMAIN lines
    /\ file \in Counters => /\ \A i \in DOMAIN lines : lines[i] \in CounterLine(Nat)
                            /\ acc \in [in : Nat, out : Nat, ifaces : Seq(Nat)]
    /\ file = "mounts" => acc = [seen |-> acc.seen, disks |-> acc.disks]

Column(way) == [i \in DOMAIN lines |-> lines[i][way]]
Unread == {i \in Physical : i >= pos}

CountInv ==
    file \in Counters =>
        /\ pos = 0 => acc = Start(file)
        /\ \A way \in Ways :
              /\ moved[way] = SumFunctionOnSet(Column(way), Physical)
              /\ pos # 0 /\ Ordinary =>
                    LET sum == acc[way] + SumFunctionOnSet(Column(way), Unread)
                    IN  opened[way] <= sum /\ sum <= moved[way]

LEMMA StartTypes ==
    /\ file \in Counters => Start(file) = [in |-> 0, out |-> 0, ifaces |-> <<>>]
    /\ file = "mounts" => Start(file) = [seen |-> {}, disks |-> <<>>]
BY DEF Start, Counters

LEMMA TypeAtFirst == Init => TypeInv
<1> SUFFICES ASSUME Init PROVE TypeInv
  OBVIOUS
<1>1. PICK c \in Contents : file = c.file /\ lines = c.lines
  BY DEF Init
<1>2. file \in Files /\ SomeLines
  BY <1>1, LineReadersAssumption DEF LineReadersAssumption, SomeLines
<1>3. file \in Counters => \A i \in DOMAIN lines : lines[i] \in CounterLine(Nat)
  <2>1. file \in Counters => \A i \in DOMAIN lines : lines[i] \in CounterLine({0})
    BY <1>1, LineReadersAssumption DEF LineReadersAssumption
  <2>2. \A l \in CounterLine({0}) : l \in CounterLine(Nat)
    BY DEF CounterLine
  <2> QED
    BY <2>1, <2>2
<1>4. pos \in 0 .. Len(lines) + 1
  BY <1>2, TheLines DEF Init
<1>5. moved \in Counts /\ opened \in Counts /\ gone \subseteq DOMAIN lines
  BY DEF Init, Counts
<1>6. acc = Start(file)
  BY DEF Init
<1>7. file \in Counters => acc \in [in : Nat, out : Nat, ifaces : Seq(Nat)]
  <2>1. <<>> \in Seq(Nat)
    BY EmptySeq
  <2>2. [in |-> 0, out |-> 0, ifaces |-> <<>>] \in [in : Nat, out : Nat, ifaces : Seq(Nat)]
    BY <2>1
  <2> QED
    BY <1>6, <2>2, StartTypes, Zenon
<1>8. file = "mounts" => acc = [seen |-> acc.seen, disks |-> acc.disks]
  BY <1>6, StartTypes
<1> QED
  BY <1>2, <1>3, <1>4, <1>5, <1>7, <1>8 DEF TypeInv

LEMMA LinesAreFinite ==
    SomeLines => /\ IsFiniteSet(DOMAIN lines) /\ IsFiniteSet(Physical)
                 /\ \A S : IsFiniteSet(S \cap Physical) /\ Cardinality(S \cap Physical) \in Nat
<1> SUFFICES ASSUME SomeLines
             PROVE  /\ IsFiniteSet(DOMAIN lines) /\ IsFiniteSet(Physical)
                    /\ \A S : IsFiniteSet(S \cap Physical) /\ Cardinality(S \cap Physical) \in Nat
  OBVIOUS
<1>1. IsFiniteSet(DOMAIN lines)
  BY TheLines, FS_Interval
<1>2. Physical \subseteq DOMAIN lines
  BY DEF Physical
<1>3. IsFiniteSet(Physical)
  BY <1>1, <1>2, FS_Subset
<1>4. \A S : S \cap Physical \subseteq Physical
  OBVIOUS
<1> HIDE DEF Physical
<1>5. ASSUME NEW S PROVE IsFiniteSet(S \cap Physical) /\ Cardinality(S \cap Physical) \in Nat
  BY <1>3, <1>4, FS_Subset, FS_CardinalityType
<1> QED
  BY <1>1, <1>3, <1>5

(* A transfer raises one counter of the device and of those beneath it. *)
LEMMA TransferLines ==
    ASSUME TypeInv, NEW d \in DOMAIN lines, NEW way \in Ways, Transfer(d, way)
    PROVE  /\ file \in Counters /\ file' = file
           /\ SomeLines' /\ Len(lines') = Len(lines) /\ DOMAIN lines' = DOMAIN lines
           /\ \A i \in DOMAIN lines :
                /\ lines'[i] \in CounterLine(Nat)
                /\ lines'[i].kind = lines[i].kind /\ lines'[i].minor = lines[i].minor
                /\ lines'[i].columns = lines[i].columns
                /\ lines[i][way] \in Nat
                /\ lines'[i][way] = IF i \in {d} \cup lines[d].on THEN lines[i][way] + 1
                                                                 ELSE lines[i][way]
                /\ \A other \in Ways \ {way} : lines'[i][other] = lines[i][other]
<1> DEFINE all == {d} \cup lines[d].on
<1>1. file \in Counters /\ file' = file
  BY DEF Transfer
<1>2. lines' = [i \in DOMAIN lines |->
                  IF i \in all THEN [lines[i] EXCEPT ![way] = @ + 1] ELSE lines[i]]
  BY DEF Transfer
<1> HIDE DEF all
<1>3. DOMAIN lines' = DOMAIN lines
  BY <1>2
<1>4. \A i \in DOMAIN lines : lines[i] \in CounterLine(Nat)
  BY <1>1 DEF TypeInv
<1>5. ASSUME NEW i \in DOMAIN lines
      PROVE  /\ lines'[i] \in CounterLine(Nat)
             /\ lines'[i].kind = lines[i].kind /\ lines'[i].minor = lines[i].minor
             /\ lines'[i].columns = lines[i].columns
             /\ lines[i][way] \in Nat
             /\ lines'[i][way] = IF i \in all THEN lines[i][way] + 1 ELSE lines[i][way]
             /\ \A other \in Ways \ {way} : lines'[i][other] = lines[i][other]
  <2>1. lines[i] \in CounterLine(Nat)
    BY <1>4
  <2>2. CASE i \in all
    <3>1. lines'[i] = [lines[i] EXCEPT ![way] = @ + 1]
      BY <1>2, <2>2
    <3>2. CASE way = "in"
      BY <2>1, <2>2, <3>1, <3>2 DEF CounterLine, Ways
    <3>3. CASE way = "out"
      BY <2>1, <2>2, <3>1, <3>3 DEF CounterLine, Ways
    <3> QED
      BY <3>2, <3>3 DEF Ways
  <2>3. CASE i \notin all
    <3>1. lines'[i] = lines[i]
      BY <1>2, <2>3
    <3> QED
      BY <2>1, <2>3, <3>1 DEF CounterLine, Ways
  <2> QED
    BY <2>2, <2>3
<1>6. SomeLines' /\ Len(lines') = Len(lines)
  <2> DEFINE n == Len(lines)
             V == {lines'[i] : i \in 1 .. n}
  <2>1. n \in Nat /\ DOMAIN lines = 1 .. n
    BY TheLines DEF TypeInv
  <2>2. lines' \in [1 .. n -> V]
    BY <1>2, <2>1
  <2>3. lines' \in Seq(V) /\ V = {lines'[i] : i \in DOMAIN lines'}
    BY <1>3, <2>1, <2>2, SeqDef
  <2>4. Len(lines') = n
    <3> HIDE DEF n, V
    <3> QED
      BY <1>3, <2>1, <2>3, LenProperties
  <2> QED
    BY <2>3, <2>4 DEF SomeLines
<1> QED
  BY <1>1, <1>3, <1>5, <1>6 DEF all

LEMMA TransferMoved ==
    ASSUME TypeInv, NEW d \in DOMAIN lines, NEW way \in Ways, Transfer(d, way)
    PROVE  /\ moved' \in Counts
           /\ moved'[way] = moved[way] + Cardinality(({d} \cup lines[d].on) \cap Physical)
           /\ \A other \in Ways \ {way} : moved'[other] = moved[other]
           /\ UNCHANGED <<pos, acc, opened, gone>>
<1> DEFINE n == Cardinality(({d} \cup lines[d].on) \cap Physical)
<1>1. moved' = [moved EXCEPT ![way] = @ + n] /\ UNCHANGED <<pos, acc, opened, gone>>
  BY DEF Transfer
<1>2. moved \in Counts /\ n \in Nat
  BY LinesAreFinite DEF TypeInv
<1> HIDE DEF n
<1>3. moved.in \in Nat /\ moved.out \in Nat /\ DOMAIN moved = Ways
  BY <1>2 DEF Counts, Ways
<1>4. ASSUME way = "in"
      PROVE  /\ moved' \in Counts /\ moved'[way] = moved[way] + n
             /\ \A other \in Ways \ {way} : moved'[other] = moved[other]
  <2>1. moved' = [in |-> moved.in + n, out |-> moved.out]
    BY <1>1, <1>2, <1>4 DEF Counts
  <2>2. moved' \in Counts /\ moved'.in = moved.in + n /\ moved'.out = moved.out
    BY <1>2, <1>3, <2>1 DEF Counts
  <2>3. Ways \ {way} = {"out"}
    BY <1>4 DEF Ways
  <2> QED
    BY <1>4, <2>2, <2>3
<1>5. ASSUME way = "out"
      PROVE  /\ moved' \in Counts /\ moved'[way] = moved[way] + n
             /\ \A other \in Ways \ {way} : moved'[other] = moved[other]
  <2>1. moved' = [in |-> moved.in, out |-> moved.out + n]
    BY <1>1, <1>2, <1>5 DEF Counts
  <2>2. moved' \in Counts /\ moved'.out = moved.out + n /\ moved'.in = moved.in
    BY <1>2, <1>3, <2>1 DEF Counts
  <2>3. Ways \ {way} = {"in"}
    BY <1>5 DEF Ways
  <2> QED
    BY <1>5, <2>2, <2>3
<1>6. /\ moved' \in Counts /\ moved'[way] = moved[way] + n
      /\ \A other \in Ways \ {way} : moved'[other] = moved[other]
  <2>1. way = "in" \/ way = "out"
    BY DEF Ways
  <2> QED
    BY <1>4, <1>5, <2>1
<1> QED
  BY <1>1, <1>6 DEF n

CounterAcc == [in : Nat, out : Nat, ifaces : Seq(Nat)]

LEMMA SumFacts ==
    ASSUME NEW a \in CounterAcc, NEW l \in CounterLine(Nat)
    PROVE  /\ Sum(a, l) \in CounterAcc
           /\ Sum(a, l).ifaces = a.ifaces
           /\ \A way \in Ways : Sum(a, l)[way] = a[way] + l[way]
<1>1. Sum(a, l) = [in |-> a.in + l.in, out |-> a.out + l.out, ifaces |-> a.ifaces]
  <2> DEFINE b == [a EXCEPT !.in = a.in + l.in]
  <2>1. b = [in |-> a.in + l.in, out |-> a.out, ifaces |-> a.ifaces]
    BY DEF CounterAcc
  <2>2. Sum(a, l) = [b EXCEPT !.out = a.out + l.out]
    BY DEF Sum
  <2> HIDE DEF b
  <2> QED
    BY <2>1, <2>2
<1>2. a.in \in Nat /\ a.out \in Nat /\ a.ifaces \in Seq(Nat) /\ l.in \in Nat /\ l.out \in Nat
  BY DEF CounterAcc, CounterLine
<1>3. Sum(a, l) \in CounterAcc
  BY <1>1, <1>2 DEF CounterAcc
<1> QED
  BY <1>1, <1>3 DEF Ways

LEMMA AppendFacts ==
    ASSUME NEW a \in CounterAcc, NEW p \in Nat,
           NEW b, b = [a EXCEPT !.ifaces = Append(@, p)]
    PROVE  b \in CounterAcc /\ \A way \in Ways : b[way] = a[way]
<1>1. Append(a.ifaces, p) \in Seq(Nat)
  BY AppendProperties DEF CounterAcc
<1>2. b = [in |-> a.in, out |-> a.out, ifaces |-> Append(a.ifaces, p)]
  BY DEF CounterAcc
<1>3. b \in CounterAcc
  BY <1>1, <1>2 DEF CounterAcc
<1> QED
  BY <1>2, <1>3 DEF Ways

(* A line read: in an ordinary layout it is summed if it is of a disk or card. *)
LEMMA LineCounted ==
    ASSUME TypeInv, DiskstatsLine \/ NetDevLine
    PROVE  /\ file \in Counters /\ pos \in 1 .. Len(lines) /\ pos' = pos + 1
           /\ UNCHANGED <<world, opened>>
           /\ acc' \in CounterAcc
           /\ Ordinary => \A way \in Ways :
                acc'[way] = IF pos \in Physical THEN acc[way] + lines[pos][way] ELSE acc[way]
<1>1. /\ file \in Counters /\ pos # 0 /\ ~ (pos > Len(lines)) /\ pos' = pos + 1
      /\ UNCHANGED <<world, opened>>
  BY DEF DiskstatsLine, NetDevLine, Take, Reading, AtEnd, Counters
<1>2. Len(lines) \in Nat /\ DOMAIN lines = 1 .. Len(lines) /\ pos \in 0 .. Len(lines) + 1
  BY TheLines DEF TypeInv
<1>3. pos \in 1 .. Len(lines) /\ pos \in DOMAIN lines /\ pos \in Nat
  BY <1>1, <1>2
<1> DEFINE l == lines[pos]
           kind == l.kind
<1>4. l \in CounterLine(Nat) /\ acc \in CounterAcc
  BY <1>1, <1>3 DEF TypeInv, CounterAcc
<1>5. pos \in Physical <=> kind = IF file = "diskstats" THEN "disk" ELSE "card"
  BY <1>3 DEF Physical
<1>6. l.columns \in Nat
  BY <1>4 DEF CounterLine
<1>7. CASE DiskstatsLine
  <2> DEFINE skip == l.columns < 10 \/ SkipDevice(kind) \/ l.minor # 0
  <2>1. file = "diskstats" /\ acc' = IF skip THEN acc ELSE Sum(acc, l)
    BY <1>7 DEF DiskstatsLine, Take, Line
  <2>2. acc' \in CounterAcc
    BY <1>4, <2>1, SumFacts
  <2>3. ASSUME Ordinary PROVE skip <=> pos \notin Physical
    <3>1. /\ kind = "disk" => l.minor = 0 /\ l.columns >= 10
          /\ l.minor = 0 => kind = "disk" \/ SkipDevice(kind)
      BY <1>3, <2>1, <2>3 DEF Ordinary
    <3>2. ~ SkipDevice("disk")
      BY DEF SkipDevice
    <3>3. kind = "disk" <=> pos \in Physical
      BY <1>5, <2>1
    <3> HIDE DEF l, kind
    <3>4. kind = "disk" => l.minor = 0 /\ ~ (l.columns < 10) /\ ~ SkipDevice(kind)
      BY <1>6, <3>1, <3>2
    <3> QED
      BY <3>1, <3>3, <3>4
  <2>4. \A way \in Ways : Sum(acc, l)[way] = acc[way] + l[way]
    BY <1>4, SumFacts
  <2>5. ASSUME Ordinary, NEW way \in Ways
        PROVE  acc'[way] = IF pos \in Physical THEN acc[way] + l[way] ELSE acc[way]
    <3> HIDE DEF l, skip
    <3> QED
      BY <2>1, <2>3, <2>4, <2>5
  <2> QED
    BY <1>1, <1>3, <2>2, <2>5
<1>8. CASE NetDevLine
  <2> DEFINE skip == pos <= 2 \/ kind = "lo" \/ l.columns < 9
             more == [Sum(acc, l) EXCEPT !.ifaces = Append(@, pos)]
  <2>1. file # "diskstats" /\ acc' = IF skip THEN acc ELSE more
    BY <1>8 DEF NetDevLine, Take, Line
  <2>2. Sum(acc, l) \in CounterAcc /\ \A way \in Ways : Sum(acc, l)[way] = acc[way] + l[way]
    BY <1>4, SumFacts
  <2>3. more \in CounterAcc /\ \A way \in Ways : more[way] = acc[way] + l[way]
    BY <1>3, <2>2, AppendFacts
  <2> HIDE DEF more
  <2>4. acc' \in CounterAcc
    BY <1>4, <2>1, <2>3
  <2>5. ASSUME Ordinary PROVE skip <=> pos \notin Physical
    <3>1. IF pos <= 2 THEN kind = "header" ELSE kind = "lo" \/ (kind = "card" /\ l.columns >= 9)
      BY <1>3, <2>1, <2>5 DEF Ordinary
    <3>2. kind = "card" <=> pos \in Physical
      BY <1>5, <2>1
    <3> HIDE DEF l, kind
    <3> QED
      BY <1>6, <3>1, <3>2
  <2>6. ASSUME Ordinary, NEW way \in Ways
        PROVE  acc'[way] = IF pos \in Physical THEN acc[way] + l[way] ELSE acc[way]
    <3> HIDE DEF l, skip
    <3> QED
      BY <2>1, <2>3, <2>5, <2>6
  <2> QED
    BY <1>1, <1>3, <2>4, <2>6
<1> QED
  BY <1>7, <1>8

LEMMA TypeStep == TypeInv /\ [Next]_vars => TypeInv'
<1> SUFFICES ASSUME TypeInv, [Next]_vars PROVE TypeInv'
  OBVIOUS
<1>1. /\ file \in Files /\ SomeLines /\ pos \in 0 .. Len(lines) + 1
      /\ moved \in Counts /\ opened \in Counts /\ gone \subseteq DOMAIN lines
      /\ file \in Counters => /\ \A i \in DOMAIN lines : lines[i] \in CounterLine(Nat)
                              /\ acc \in CounterAcc
      /\ file = "mounts" => acc = [seen |-> acc.seen, disks |-> acc.disks]
      /\ Len(lines) \in Nat
  BY TheLines DEF TypeInv, CounterAcc
<1>2. ASSUME NEW d \in DOMAIN lines, NEW way \in Ways, Transfer(d, way) PROVE TypeInv'
  <2>1. /\ file \in Counters /\ file' = file
        /\ SomeLines' /\ Len(lines') = Len(lines) /\ DOMAIN lines' = DOMAIN lines
        /\ \A i \in DOMAIN lines : lines'[i] \in CounterLine(Nat)
    BY <1>2, TransferLines
  <2>2. moved' \in Counts /\ UNCHANGED <<pos, acc, opened, gone>>
    BY <1>2, TransferMoved
  <2>3. file # "mounts"
    BY <2>1 DEF Counters
  <2> QED
    BY <1>1, <2>1, <2>2, <2>3 DEF TypeInv, CounterAcc
<1> DEFINE Rest == /\ file' = file /\ lines' = lines /\ moved' = moved
<1>3. ASSUME Rest, pos' \in 0 .. Len(lines) + 1, opened' \in Counts, gone' \subseteq DOMAIN lines,
             file \in Counters => acc' \in CounterAcc,
             file = "mounts" => acc' = [seen |-> acc'.seen, disks |-> acc'.disks]
      PROVE  TypeInv'
  <2>1. SomeLines'
    BY <1>1, <1>3 DEF SomeLines
  <2> QED
    BY <1>1, <1>3, <2>1 DEF TypeInv, CounterAcc
<1>4. ASSUME NEW i \in DOMAIN lines, Unmount(i) PROVE TypeInv'
  <2>1. Rest /\ pos' = pos /\ opened' = opened /\ gone' = gone \cup {i} /\ acc' = acc
    BY <1>4 DEF Unmount
  <2> QED
    BY <1>1, <1>3, <2>1
<1>5. CASE Open
  <2>1. Rest /\ pos' = 1 /\ opened' = moved /\ gone' = gone /\ acc' = acc
    BY <1>5 DEF Open, world
  <2> QED
    BY <1>1, <1>3, <2>1
<1>6. CASE Return
  <2>1. Rest /\ pos' = 0 /\ opened' = opened /\ gone' = {} /\ acc' = Start(file)
    BY <1>6 DEF Return
  <2>2. file \in Counters => acc' \in CounterAcc
    <3>1. [in |-> 0, out |-> 0, ifaces |-> <<>>] \in CounterAcc
      BY EmptySeq DEF CounterAcc
    <3> QED
      BY <2>1, <3>1, StartTypes, Zenon
  <2>3. file = "mounts" => acc' = [seen |-> acc'.seen, disks |-> acc'.disks]
    BY <2>1, StartTypes
  <2> QED
    BY <1>1, <1>3, <2>1, <2>2, <2>3
<1>7. CASE DiskstatsLine \/ NetDevLine
  <2>1. Rest /\ pos' \in 0 .. Len(lines) + 1 /\ opened' = opened /\ gone' = gone
        /\ file \in Counters /\ acc' \in CounterAcc
    BY <1>1, <1>7, LineCounted DEF world
  <2>2. file # "mounts"
    BY <2>1 DEF Counters
  <2> QED
    BY <1>1, <1>3, <2>1, <2>2
<1>8. CASE MountsLine
  <2>1. file = "mounts" /\ Reading /\ \E a : Take(a)
    BY <1>8 DEF MountsLine
  <2>2. Rest /\ pos' = pos + 1 /\ opened' = opened /\ gone' = gone
        /\ pos # 0 /\ ~ (pos > Len(lines))
    BY <2>1 DEF Take, world, Reading, AtEnd
  <2>3. acc' = [seen |-> acc'.seen, disks |-> acc'.disks]
    <3>1. acc = [seen |-> acc.seen, disks |-> acc.disks]
      BY <1>1, <2>1
    <3>2. acc' = acc \/ \E s, r : acc' = [seen |-> s, disks |-> r]
      BY <1>8 DEF MountsLine, Take
    <3>3. CASE acc' = acc
      BY <3>1, <3>3
    <3>4. CASE \E s, r : acc' = [seen |-> s, disks |-> r]
      BY <3>4
    <3> QED
      BY <3>2, <3>3, <3>4
  <2>4. file \notin Counters /\ pos' \in 0 .. Len(lines) + 1
    BY <1>1, <2>1, <2>2 DEF Counters
  <2> QED
    BY <1>1, <1>3, <2>2, <2>3, <2>4
<1>9. CASE TextLine
  <2>1. file \notin Counters /\ file # "mounts" /\ \E a : Take(a)
    BY <1>9 DEF TextLine, Counters
  <2>2. Rest /\ pos' = pos + 1 /\ opened' = opened /\ gone' = gone
        /\ pos # 0 /\ ~ (pos > Len(lines))
    BY <2>1 DEF Take, world, Reading, AtEnd
  <2>3. pos' \in 0 .. Len(lines) + 1
    BY <1>1, <2>2
  <2> QED
    BY <1>1, <1>3, <2>1, <2>2, <2>3
<1>10. CASE UNCHANGED vars
  <2>1. Rest /\ pos' = pos /\ opened' = opened /\ gone' = gone /\ acc' = acc
    BY <1>10 DEF vars, world
  <2> QED
    BY <1>1, <1>3, <2>1
<1> QED
  BY <1>2, <1>4, <1>5, <1>6, <1>7, <1>8, <1>9, <1>10 DEF Next, Ways

LEMMA ColumnFacts ==
    ASSUME TypeInv, file \in Counters, NEW way \in Ways
    PROVE  /\ \A i \in DOMAIN lines : Column(way)[i] = lines[i][way] /\ lines[i][way] \in Nat
           /\ IsFiniteSet(Physical) /\ Physical \subseteq DOMAIN lines /\ Unread \in SUBSET Physical
           /\ \A S \in SUBSET Physical : SumFunctionOnSet(Column(way), S) \in Int
           /\ moved[way] \in Nat /\ opened[way] \in Nat /\ acc[way] \in Nat
<1>1. \A i \in DOMAIN lines : Column(way)[i] = lines[i][way] /\ lines[i][way] \in Nat
  BY DEF TypeInv, Column, CounterLine, Ways
<1>2. IsFiniteSet(Physical) /\ Physical \subseteq DOMAIN lines /\ Unread \in SUBSET Physical
  BY LinesAreFinite DEF TypeInv, Physical, Unread
<1>3. \A S \in SUBSET Physical : SumFunctionOnSet(Column(way), S) \in Int
  <2>1. \A i \in Physical : Column(way)[i] \in Int
    BY <1>1, <1>2
  <2> QED
    BY <1>2, <2>1, SumType
<1>4. moved[way] \in Nat /\ opened[way] \in Nat /\ acc[way] \in Nat
  BY DEF TypeInv, Counts, Ways
<1> QED
  BY <1>1, <1>2, <1>3, <1>4

(* What CountInv says of one direction. *)
CountsOf(way) ==
    /\ moved[way] = SumFunctionOnSet(Column(way), Physical)
    /\ pos # 0 /\ Ordinary =>
          LET sum == acc[way] + SumFunctionOnSet(Column(way), Unread)
          IN  opened[way] <= sum /\ sum <= moved[way]

LEMMA CountAtFirst == Init => CountInv
<1> SUFFICES ASSUME Init, file \in Counters PROVE CountInv
  BY DEF CountInv
<1>1. TypeInv
  BY TypeAtFirst
<1>2. PICK c \in Contents : file = c.file /\ lines = c.lines
  BY DEF Init
<1>3. pos = 0 /\ acc = Start(file)
  BY DEF Init
<1>4. ASSUME NEW way \in Ways PROVE moved[way] = SumFunctionOnSet(Column(way), Physical)
  <2>1. \A i \in DOMAIN lines : lines[i][way] = 0
    <3>1. \A i \in DOMAIN lines : lines[i] \in CounterLine({0})
      BY <1>2, LineReadersAssumption DEF LineReadersAssumption
    <3> QED
      BY <3>1 DEF CounterLine, Ways
  <2>2. \A i \in Physical : Column(way)[i] = 0
    BY <1>1, <2>1, ColumnFacts
  <2>3. SumFunctionOnSet(Column(way), Physical) = 0
    <3>1. IsFiniteSet(Physical)
      BY <1>1, ColumnFacts
    <3>2. \A i \in Physical : Column(way)[i] \in Int /\ Column(way)[i] = Column(way)[i] + Column(way)[i]
      BY <2>2
    <3> DEFINE s == SumFunctionOnSet(Column(way), Physical)
    <3>3. s = s + s
      BY <3>1, <3>2, SumPlus
    <3>4. s \in Int
      BY <1>1, ColumnFacts
    <3> HIDE DEF s
    <3>5. s = 0
      BY <3>3, <3>4
    <3> QED
      BY <3>5 DEF s
  <2>4. moved[way] = 0
    BY DEF Init, Ways
  <2> QED
    BY <2>3, <2>4
<1> QED
  BY <1>3, <1>4 DEF CountInv

LEMMA TransferCounts ==
    ASSUME TypeInv, CountInv, NEW d \in DOMAIN lines, NEW way \in Ways, Transfer(d, way),
           NEW other \in Ways
    PROVE  CountsOf(other)'
<1> DEFINE all == {d} \cup lines[d].on
<1>1. /\ file \in Counters /\ file' = file /\ DOMAIN lines' = DOMAIN lines
      /\ \A i \in DOMAIN lines :
           /\ lines'[i].kind = lines[i].kind /\ lines'[i].minor = lines[i].minor
           /\ lines'[i].columns = lines[i].columns
           /\ lines'[i][way] = IF i \in all THEN lines[i][way] + 1 ELSE lines[i][way]
           /\ other # way => lines'[i][other] = lines[i][other]
  BY TransferLines
<1>2. /\ moved'[way] = moved[way] + Cardinality(all \cap Physical)
      /\ other # way => moved'[other] = moved[other]
      /\ UNCHANGED <<pos, acc, opened, gone>>
  BY TransferMoved
<1>3. Physical' = Physical /\ Unread' = Unread
  <2>1. Physical' = Physical
    BY <1>1 DEF Physical
  <2> QED
    BY <1>2, <2>1 DEF Unread
<1>4. Ordinary' => Ordinary
  BY <1>1 DEF Ordinary
<1>5. /\ \A i \in DOMAIN lines : Column(other)[i] = lines[i][other] /\ lines[i][other] \in Nat
      /\ IsFiniteSet(Physical) /\ Physical \subseteq DOMAIN lines /\ Unread \in SUBSET Physical
      /\ \A S \in SUBSET Physical : SumFunctionOnSet(Column(other), S) \in Int
      /\ moved[other] \in Nat /\ opened[other] \in Nat /\ acc[other] \in Nat
  BY <1>1, ColumnFacts
<1>6. \A i \in DOMAIN lines : Column(other)'[i] = lines'[i][other]
  BY <1>1 DEF Column
<1>7. IsFiniteSet(Unread)
  BY <1>5, FS_Subset
<1> DEFINE f == Column(other)
           g == Column(other)'
           P == SumFunctionOnSet(f, Physical)
           U == SumFunctionOnSet(f, Unread)
           Pn == SumFunctionOnSet(g, Physical)
           Un == SumFunctionOnSet(g, Unread)
<1>8. /\ moved[other] = P
      /\ pos # 0 /\ Ordinary => opened[other] <= acc[other] + U /\ acc[other] + U <= moved[other]
  BY <1>1 DEF CountInv
<1>9. P \in Int /\ U \in Int
  BY <1>5
<1>10. CASE other # way
  <2>1. \A i \in DOMAIN lines : f[i] \in Int /\ g[i] = f[i]
    BY <1>1, <1>5, <1>6, <1>10
  <2> HIDE DEF f, g
  <2>2. \A i \in Physical : f[i] \in Int /\ g[i] = f[i]
    BY <1>5, <2>1
  <2>3. Pn = P
    BY <1>5, <2>2, SumSame
  <2>4. \A i \in Unread : f[i] \in Int /\ g[i] = f[i]
    BY <1>5, <2>2
  <2>5. Un = U
    BY <1>7, <2>4, SumSame
  <2> HIDE DEF P, U, Pn, Un
  <2>6. /\ moved'[other] = Pn
        /\ pos' # 0 /\ Ordinary' =>
              opened'[other] <= acc'[other] + Un /\ acc'[other] + Un <= moved'[other]
    BY <1>2, <1>4, <1>8, <1>10, <2>3, <2>5
  <2> QED
    BY <1>3, <2>6 DEF CountsOf, Pn, Un, g
<1>11. CASE other = way
  <2> DEFINE k == Cardinality(all \cap Physical)
             h == Cardinality(all \cap Unread)
  <2>1. \A i \in DOMAIN lines : f[i] \in Int /\ g[i] = IF i \in all THEN f[i] + 1 ELSE f[i]
    BY <1>1, <1>5, <1>6, <1>11
  <2> HIDE DEF f, g, all
  <2>2. \A i \in Physical : f[i] \in Int /\ g[i] = IF i \in all THEN f[i] + 1 ELSE f[i]
    BY <1>5, <2>1
  <2>3. Pn = P + k
    BY <1>5, <2>2, SumRaised
  <2>4. \A i \in Unread : f[i] \in Int /\ g[i] = IF i \in all THEN f[i] + 1 ELSE f[i]
    BY <1>5, <2>2
  <2>5. Un = U + h
    BY <1>7, <2>4, SumRaised
  <2>6. k \in Nat /\ h \in Nat /\ h <= k
    <3>1. IsFiniteSet(all \cap Physical) /\ k \in Nat
      BY LinesAreFinite DEF TypeInv
    <3>2. all \cap Unread \subseteq all \cap Physical
      BY <1>5
    <3> QED
      BY <3>1, <3>2, FS_Subset, FS_CardinalityType
  <2>7. moved'[other] = moved[other] + k
    BY <1>2, <1>11
  <2> HIDE DEF P, U, Pn, Un, k, h
  <2>8. /\ moved'[other] = Pn
        /\ pos' # 0 /\ Ordinary' =>
              opened'[other] <= acc'[other] + Un /\ acc'[other] + Un <= moved'[other]
    <3>1. moved'[other] = Pn
      BY <1>8, <2>3, <2>7
    <3>2. ASSUME pos' # 0, Ordinary'
          PROVE  opened[other] <= acc[other] + Un /\ acc[other] + Un <= moved[other] + k
      <4>1. opened[other] <= acc[other] + U /\ acc[other] + U <= moved[other]
        BY <1>2, <1>4, <1>8, <3>2
      <4> QED
        BY <1>5, <1>9, <2>5, <2>6, <4>1
    <3> QED
      BY <1>2, <2>7, <3>1, <3>2
  <2> QED
    BY <1>3, <2>8 DEF CountsOf, Pn, Un, g
<1> QED
  BY <1>10, <1>11

LEMMA LineCounts ==
    ASSUME TypeInv, CountInv, DiskstatsLine \/ NetDevLine, NEW way \in Ways
    PROVE  CountsOf(way)'
<1>1. /\ file \in Counters /\ pos \in 1 .. Len(lines) /\ pos' = pos + 1
      /\ file' = file /\ lines' = lines /\ moved' = moved /\ opened' = opened
      /\ Ordinary => acc'[way] = IF pos \in Physical THEN acc[way] + lines[pos][way] ELSE acc[way]
  BY LineCounted DEF world
<1>2. Physical' = Physical /\ Column(way)' = Column(way) /\ (Ordinary' <=> Ordinary)
  BY <1>1 DEF Physical, Column, Ordinary
<1>3. /\ \A i \in DOMAIN lines : Column(way)[i] = lines[i][way] /\ lines[i][way] \in Nat
      /\ IsFiniteSet(Physical) /\ Physical \subseteq DOMAIN lines /\ Unread \in SUBSET Physical
      /\ \A S \in SUBSET Physical : SumFunctionOnSet(Column(way), S) \in Int
      /\ moved[way] \in Nat /\ opened[way] \in Nat /\ acc[way] \in Nat
  BY <1>1, ColumnFacts
<1>4. pos \in Nat /\ Len(lines) \in Nat /\ Physical \subseteq Nat /\ pos # 0
  BY <1>1, <1>3, TheLines DEF TypeInv
<1>5. Unread' = Unread \ {pos} /\ (pos \in Physical <=> pos \in Unread)
  <2>1. \A i \in Nat : i >= pos + 1 <=> i >= pos /\ i # pos
    BY <1>4
  <2>2. \A i \in Physical : i >= pos + 1 <=> i >= pos /\ i # pos
    BY <1>4, <2>1
  <2>3. Unread' = {i \in Physical : i >= pos + 1}
    BY <1>1, <1>2 DEF Unread
  <2>4. pos >= pos
    BY <1>4
  <2> HIDE DEF Physical
  <2> QED
    BY <2>2, <2>3, <2>4 DEF Unread
<1> DEFINE f == Column(way)
           U == SumFunctionOnSet(f, Unread)
           Un == SumFunctionOnSet(f, Unread \ {pos})
<1>6. /\ moved[way] = SumFunctionOnSet(f, Physical)
      /\ Ordinary => opened[way] <= acc[way] + U /\ acc[way] + U <= moved[way]
  BY <1>1, <1>4 DEF CountInv
<1>7. U \in Int /\ Un \in Int
  <2>1. Unread \ {pos} \in SUBSET Physical
    BY <1>3
  <2> QED
    BY <1>3, <2>1
<1>8. U = IF pos \in Physical THEN lines[pos][way] + Un ELSE Un
  <2>1. CASE pos \in Physical
    <3>1. \A i \in Physical : f[i] \in Int
      BY <1>3
    <3>2. f[pos] = lines[pos][way] /\ pos \in Unread
      BY <1>3, <1>5, <2>1
    <3> HIDE DEF f
    <3>3. U = f[pos] + Un
      BY <1>3, <3>1, <3>2, SumWithout
    <3> QED
      BY <2>1, <3>2, <3>3
  <2>2. CASE pos \notin Physical
    <3>1. Unread \ {pos} = Unread
      BY <1>5, <2>2
    <3> QED
      BY <2>2, <3>1
  <2> QED
    BY <2>1, <2>2
<1>9. pos \in Physical => lines[pos][way] \in Nat
  BY <1>3
<1> HIDE DEF U, Un
<1>10. Ordinary => opened[way] <= acc'[way] + Un /\ acc'[way] + Un <= moved[way]
  BY <1>1, <1>3, <1>6, <1>7, <1>8, <1>9
<1> QED
  BY <1>1, <1>2, <1>5, <1>6, <1>10 DEF CountsOf, Un

LEMMA CountStep == TypeInv /\ CountInv /\ [Next]_vars => CountInv'
<1> SUFFICES ASSUME TypeInv, CountInv, [Next]_vars, file \in Counters, file' = file PROVE CountInv'
  <2>1. [Next]_vars => file' = file
    BY DEF Next, vars, world, Transfer, Unmount, Open, Return, Take, TextLine,
           DiskstatsLine, NetDevLine, MountsLine
  <2> QED
    BY <2>1 DEF CountInv
<1>1. pos = 0 => acc = Start(file)
  BY DEF CountInv
<1>2. ASSUME pos' = 0 => acc' = Start(file), \A way \in Ways : CountsOf(way)'
      PROVE  CountInv'
  BY <1>2 DEF CountInv, CountsOf
<1>3. file # "mounts" /\ file \notin TextFiles
  BY DEF Counters, TextFiles
<1>4. \/ \E d \in DOMAIN lines, way \in Ways : Transfer(d, way)
      \/ Open \/ Return \/ DiskstatsLine \/ NetDevLine \/ UNCHANGED vars
  BY <1>3 DEF Next, Unmount, MountsLine, TextLine, TextFiles, Ways
<1>5. ASSUME NEW d \in DOMAIN lines, NEW way \in Ways, Transfer(d, way) PROVE CountInv'
  <2>1. \A other \in Ways : CountsOf(other)'
    BY <1>5, TransferCounts
  <2>2. pos' = pos /\ acc' = acc
    BY <1>5 DEF Transfer
  <2> QED
    BY <1>1, <1>2, <2>1, <2>2
<1>6. CASE DiskstatsLine \/ NetDevLine
  <2>1. \A way \in Ways : CountsOf(way)'
    BY <1>6, LineCounts
  <2>2. pos' # 0
    <3>1. pos' = pos + 1 /\ pos \in 0 .. Len(lines) + 1
      BY <1>6, LineCounted DEF TypeInv
    <3>2. Len(lines) \in Nat
      BY TheLines DEF TypeInv
    <3> QED
      BY <3>1, <3>2
  <2> QED
    BY <1>2, <2>1, <2>2
<1> DEFINE Same == lines' = lines /\ moved' = moved
<1>7. Same => \A way \in Ways : /\ Physical' = Physical /\ Column(way)' = Column(way)
                                /\ (Ordinary' <=> Ordinary)
                                /\ moved'[way] = SumFunctionOnSet(Column(way)', Physical')
  <2>1. Same => /\ Physical' = Physical /\ (Ordinary' <=> Ordinary)
                /\ \A way \in Ways : Column(way)' = Column(way)
    BY DEF Physical, Column, Ordinary
  <2> QED
    BY <2>1 DEF CountInv
<1>8. CASE Open
  <2>1. Same /\ pos' = 1 /\ acc' = Start(file) /\ opened' = moved
    BY <1>1, <1>8 DEF Open, world
  <2>2. Unread' = Physical
    <3>1. DOMAIN lines = 1 .. Len(lines) /\ Len(lines) \in Nat
      BY TheLines DEF TypeInv
    <3>2. \A i \in Physical : i >= 1
      BY <3>1 DEF Physical
    <3>3. Physical' = Physical
      BY <1>7, <2>1 DEF Ways
    <3> QED
      BY <2>1, <3>2, <3>3 DEF Unread
  <2>3. ASSUME NEW way \in Ways PROVE CountsOf(way)'
    <3> DEFINE P == SumFunctionOnSet(Column(way), Physical)
    <3>1. moved[way] = P /\ moved[way] \in Nat
      BY ColumnFacts DEF CountInv
    <3>2. acc'[way] = 0
      BY <2>1, StartTypes DEF Ways
    <3> HIDE DEF P
    <3>3. LET sum == acc'[way] + P IN opened'[way] <= sum /\ sum <= moved'[way]
      BY <2>1, <3>1, <3>2
    <3> QED
      BY <1>7, <2>1, <2>2, <3>3 DEF CountsOf, P
  <2> QED
    BY <1>2, <2>1, <2>3
<1>9. CASE Return
  <2>1. Same /\ pos' = 0 /\ acc' = Start(file)
    BY <1>9 DEF Return
  <2> QED
    BY <1>2, <1>7, <2>1 DEF CountsOf
<1>10. CASE UNCHANGED vars
  <2>1. Same /\ pos' = pos /\ acc' = acc /\ opened' = opened
    BY <1>10 DEF vars, world
  <2>2. Unread' = Unread
    BY <1>7, <2>1 DEF Unread, Ways
  <2>3. \A way \in Ways : CountsOf(way)'
    BY <1>7, <2>1, <2>2 DEF CountsOf, CountInv
  <2> QED
    BY <1>1, <1>2, <2>1, <2>3
<1> QED
  BY <1>4, <1>5, <1>6, <1>8, <1>9, <1>10

LEMMA CountsGive == TypeInv /\ CountInv => CountersAreWhole
<1> SUFFICES ASSUME TypeInv, CountInv, file \in Counters, pos # 0, AtEnd, Ordinary, NEW way \in Ways
             PROVE  opened[way] <= acc[way] /\ acc[way] <= moved[way]
  BY DEF CountersAreWhole, Ways
<1>1. pos > Len(lines)
  BY DEF AtEnd, Counters, Lookups
<1>2. DOMAIN lines = 1 .. Len(lines) /\ Len(lines) \in Nat /\ pos \in 0 .. Len(lines) + 1
  BY TheLines DEF TypeInv
<1>3. Unread = {}
  BY <1>1, <1>2 DEF Unread, Physical
<1>4. SumFunctionOnSet(Column(way), Unread) = 0
  BY <1>3, SumOfNone
<1>5. acc[way] \in Nat
  BY ColumnFacts
<1>6. LET sum == acc[way] + SumFunctionOnSet(Column(way), Unread)
      IN  opened[way] <= sum /\ sum <= moved[way]
  BY DEF CountInv
<1> QED
  BY <1>4, <1>5, <1>6

LEMMA TypesGive == TypeInv /\ MountsInv => TypeOK
<1> SUFFICES ASSUME TypeInv, MountsInv PROVE TypeOK
  OBVIOUS
<1>1. file \in Counters => acc \in AccTypes(file)
  BY DEF TypeInv, AccTypes
<1>2. ASSUME file = "mounts" PROVE acc \in AccTypes(file)
  <2>1. acc = [seen |-> acc.seen, disks |-> acc.disks]
    BY <1>2 DEF TypeInv
  <2>2. acc.seen \in SUBSET Devices /\ acc.disks \in Seq(DiskRow)
    <3>1. CASE pos = 0
      <4>1. acc = [seen |-> {}, disks |-> <<>>]
        BY <1>2, <3>1, StartTypes DEF MountsInv
      <4> QED
        BY <4>1, EmptySeq
    <3>2. CASE pos # 0
      <4>1. acc.disks \in Seq(DiskRow) /\ SeenInv(acc.disks, acc.seen, pos - 1)
        BY <1>2, <3>2 DEF MountsInv, RowsInv
      <4>2. DOMAIN lines = 1 .. Len(lines) /\ Len(lines) \in Nat /\ pos \in 0 .. Len(lines) + 1
        BY TheLines DEF TypeInv
      <4>3. \A i \in 1 .. pos - 1 : i \in DOMAIN lines
        BY <4>2
      <4> QED
        BY <4>1, <4>3 DEF SeenInv, Devices
    <3> QED
      BY <3>1, <3>2
  <2>3. AccTypes(file) = [seen : SUBSET Devices, disks : Seq(DiskRow)]
    BY <1>2 DEF AccTypes, Counters, Devices, DiskRow
  <2> QED
    BY <2>1, <2>2, <2>3
<1>3. file \notin Counters /\ file # "mounts" => acc \in AccTypes(file)
  BY DEF AccTypes
<1>4. file \in Counters => \A i \in DOMAIN lines : lines[i] \in CounterLine(Nat)
  BY DEF TypeInv
<1> QED
  BY <1>1, <1>2, <1>3, <1>4 DEF TypeOK, TypeInv

(* The readers keep their types, whatever lines their files have: the counters *)
(* of a table are numbers, and the mounts listed are rows of the table.        *)
THEOREM TypeCorrect == Spec => []TypeOK
<1>1. Spec => []TypeInv
  BY TypeAtFirst, TypeStep, PTL DEF Spec
<1>2. Spec => []MountsInv
  BY MountsAtFirst, MountsStep, PTL DEF Spec
<1> QED
  BY <1>1, <1>2, TypesGive, PTL

(* disk.rs:46-85, network.rs:43-74: however many disks, partitions and         *)
(* interfaces there are and however they lie on one another, in an ordinary    *)
(* layout the sums of a reading are between what had been transferred when it  *)
(* began and what has been by its end.                                         *)
THEOREM CountersWhole == Spec => []CountersAreWhole
<1>1. Spec => []TypeInv
  BY TypeAtFirst, TypeStep, PTL DEF Spec
<1>2. Spec => []CountInv
  BY <1>1, CountAtFirst, CountStep, PTL DEF Spec
<1> QED
  BY <1>1, <1>2, CountsGive, PTL
===============================================================================
