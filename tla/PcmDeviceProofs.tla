-------------------------- MODULE PcmDeviceProofs --------------------------
(***************************************************************************)
(* The driver of pcm-unit, with its ioctls, is the device of PcmCdev: what *)
(* is proved of that holds of it, for any number of vCPUs and tasks.  And  *)
(* an invariant of its vCPUs: the registers and local variables are, at    *)
(* each place of each script, what the accesses before it made them.       *)
(***************************************************************************)
EXTENDS PcmDevice, PcmCdevProofs, FiniteSetTheorems

\* Inside an ioctl the device's own state does not change.
LEMMA InsideIoctl ==
  ASSUME NEW t \in Tasks, IoctlStep(t)
  PROVE  UNCHANGED cdevVars \/ LeaveIoctl(t)
BY DEF IoctlStep, SetFlag, hypercall, Call, ReadTsc, ReadAdjust, ReadInto, WriteAdjust,
       WriteTsc, Report, RdtscpAux, test_msr_rw, IoctlReturns, Step

\* Every step of the driver is a step of the device or none.
LEMMA StepIsCdevStep == [Next]_vars => [CdevNext]_cdevVars
<1> SUFFICES ASSUME [Next]_vars PROVE [CdevNext]_cdevVars
  OBVIOUS
<1>1. CASE CdevStep
  BY <1>1 DEF CdevStep, CdevNext
<1>2. ASSUME NEW t \in Tasks, IoctlStep(t) PROVE [CdevNext]_cdevVars
  BY <1>2, InsideIoctl DEF CdevNext, IoctlMove
<1>3. ASSUME NEW t \in Tasks, NEW c \in Commands, NEW k \in Cpus, pcm_cdev_ioctl(t, c, k)
      PROVE  [CdevNext]_cdevVars
  BY <1>3 DEF pcm_cdev_ioctl, CdevNext, IoctlMove
<1>4. ASSUME NEW c \in Cpus, Interrupt(c) PROVE [CdevNext]_cdevVars
  BY <1>4 DEF Interrupt
<1>5. CASE UNCHANGED vars
  BY <1>5 DEF vars
<1> QED BY <1>1, <1>2, <1>3, <1>4, <1>5 DEF Next

\* Whatever the ioctls do, the module and the files go through the life cycle
\* of PcmCdev.
THEOREM DeviceImplementsCdev == Spec => CdevSpec
<1>1. Init => CdevInit
  BY DEF Init
<1> QED BY <1>1, StepIsCdevStep, PTL DEF Spec, Safety, CdevSpec

\* With any ioctls under way, an open file keeps the module and its cdev, no
\* pointer dangles while the module loads or unloads, and rmmod leaves nothing.
THEOREM DeviceIsSafe ==
  Spec => [](OpenKeepsDevice /\ NothingDangles /\ UnloadReleasesAll)
BY DeviceImplementsCdev, OpenFilesAreSafe, TeardownInOrder, UnloadIsComplete, PTL

-----------------------------------------------------------------------------
(***************************************************************************)
(* What is true of the vCPUs at every place of every script.               *)
(***************************************************************************)
\* The commands that end in test_tsc_adjust, and how many steps of the script of
\* one come before it.
Adjusting == {"KVMCLOCK_TEST", "IOAPIC_TEST", "TSC_ADJUST"}
Before(c) ==
  2 + (IF c = "KVMCLOCK_TEST" THEN Cardinality(Cpus) ELSE 0)
    + (IF c \in {"KVMCLOCK_TEST", "IOAPIC_TEST"} THEN Len(test_ioapic) ELSE 0)

InIoctl(t) == task[t] = "ioctl"
Last(t) == Len(Code(t))

DeviceTypes ==
  /\ cmd \in [Tasks -> Commands \union {"unknown"}] /\ cpu \in [Tasks -> Cpus]
  /\ pc \in [Tasks -> Nat \ {0}] /\ \A t \in Tasks : pc[t] <= Last(t) + 1
  /\ local \in [Tasks -> [Locals -> 0 .. Width - 1]] /\ ioctls \in 0 .. Ioctls
  /\ irq \in [Cpus -> BOOLEAN] /\ bracket \in [Cpus -> {0, 1}]
  /\ tsc \in [Cpus -> 0 .. Width - 1] /\ adjust \in [Cpus -> 0 .. Width - 1]
  /\ aux \in [Cpus -> Nat] /\ crashed \in BOOLEAN
  /\ hits \in 0 .. Interrupts /\ written \subseteq Cpus

\* One ioctl per vCPU.
Apart == \A t, u \in Tasks : InIoctl(t) /\ InIoctl(u) /\ t # u => cpu[t] # cpu[u]

\* The interrupt flag and the history of a vCPU, as numbers.
On(v)    == IF irq[v] THEN 1 ELSE 0
Wrote(v) == IF v \in written THEN 1 ELSE 0

\* A vCPU without an ioctl.
Idle ==
  \A v \in Cpus : ~Busy(v) => /\ On(v) = 1 /\ bracket[v] = 0
                              /\ Wrote(v) = 0 => adjust[v] = 0

\* Only test_tsc changes MSR_TSC_AUX, and only after it wrote the counter.
AuxKept == \A v \in Cpus : Wrote(v) = 0 => aux[v] = v

\* What holds of the vCPU of an ioctl of command c at place p of its script of l
\* items, b of them before test_tsc_adjust: of its interrupt flag q, its bracket k,
\* its history w and its IA32_TSC_ADJUST x.
Adj(c) == HasTscAdjust /\ c \in Adjusting
Vcpu(c, p, l, b, q, k, w, x) ==
  /\ p = 1 \/ p = l + 1 => q = 1
  /\ c = "TSC_ADJUST" /\ p \in 2 .. l => q = 0
  /\ k = IF p \in 3 .. l - 1 THEN 1 ELSE 0
  /\ c = "TSC_RW" /\ p >= 6 => w = 1
  /\ w = 0 => (Adj(c) /\ p - b \in 5 .. 9) \/ x = 0
VcpuInv(t) ==
  InIoctl(t) => Vcpu(cmd[t], pc[t], Last(t), Before(cmd[t]),
                     On(cpu[t]), bracket[cpu[t]], Wrote(cpu[t]), adjust[cpu[t]])

\* What test_tsc_adjust has read into its variables l and written, at its step k:
\* its reads of the counter lie as many ticks apart as there were accesses, and
\* interrupts, which come to no more than most.
Ticks(a, b, lo, hi) == \E d \in lo .. hi : b = (a + d) % Width
Measured(k, l, w, y, x, most) ==
  /\ k = 2 /\ w = 0 => l["p"] = 0
  /\ k \in 5 .. 9 => x = Big
  /\ k \in 7 .. 8 => l["t3"] = Big
  /\ k \in 10 .. 13 => x = 0
  /\ k = 11 => l["t3"] = 0
  /\ k = 4 /\ w = 0 => Ticks(l["t1"], y, 1, 1 + most)
  /\ k = 5 /\ w = 0 => Ticks(l["t1"], y, 2, 2 + most)
  /\ k \in 6 .. 8 /\ w = 0 => Ticks(l["t1"], l["t2"], Big + 2, Big + 2 + most)
Plus(a, b) == (a + b) % Width
Undisturbed(k, l, y, x) ==
  /\ k = 13 => y = Plus(l["t1"], 1)
  /\ k = 14 => y = Plus(l["t1"], 2)
  /\ k \in 14 .. 15 => x = Minus(Big, Plus(l["t1"], 1))
  /\ k \in 15 .. 16 => l["t2"] = Big + 1
  /\ k = 16 => l["t5"] = Minus(Big, Plus(l["t1"], 1))
AdjustInv(t) ==
  InIoctl(t) /\ Adj(cmd[t]) =>
    LET k == pc[t] - Before(cmd[t])  v == cpu[t] IN
      /\ Measured(k, local[t], Wrote(v), tsc[v], adjust[v], 3 * hits)
      /\ cmd[t] = "TSC_ADJUST" => Undisturbed(k, local[t], tsc[v], adjust[v])

TaskInv == \A t \in Tasks : VcpuInv(t) /\ AdjustInv(t)

VcpusInv == DeviceTypes /\ Apart /\ Idle /\ AuxKept /\ TaskInv
DeviceInv == CdevInv /\ VcpusInv

-----------------------------------------------------------------------------
(***************************************************************************)
(* The scripts.                                                            *)
(***************************************************************************)
Issued == Commands \union {"unknown"}
Ops == {"cli", "sti", "hypercall", "call", "rdtsc", "write_tsc", "write_adjust", "read_adjust",
        "report", "rdtscp", "msr_rw"}
Checks == {"initialization", "read_write", "adjustment", "read_write_zero", "tsc_write"}
Args == Nat \union Locals \union Checks \union {msr_info[i] : i \in 1 .. 12}
Items == Ops \X Args

\* Two parts of a script, one after the other.
LEMMA Joined ==
  ASSUME NEW S, NEW u \in Seq(S), NEW v \in Seq(S), NEW s, s = u \o v
  PROVE  /\ s \in Seq(S) /\ Len(u) \in Nat /\ Len(v) \in Nat /\ Len(s) = Len(u) + Len(v)
         /\ \A k \in 1 .. Len(u) : s[k] = u[k]
         /\ \A k \in 1 .. Len(v) : s[Len(u) + k] = v[k]
<1> DEFINE m == Len(u) n == Len(v)
<1>1. m \in Nat /\ n \in Nat
  BY LenProperties
<1>2. /\ s \in Seq(S) /\ Len(s) = m + n
      /\ \A i \in 1 .. m + n : s[i] = IF i <= m THEN u[i] ELSE v[i - m]
  BY ConcatProperties
<1> HIDE DEF m, n
<1>3. \A k \in 1 .. m : s[k] = u[k]
  BY <1>1, <1>2
<1>4. \A k \in 1 .. n : s[m + k] = v[k]
  <2> SUFFICES ASSUME NEW k \in 1 .. n PROVE s[m + k] = v[k]
    OBVIOUS
  <2>1. m + k \in 1 .. m + n /\ ~(m + k <= m) /\ (m + k) - m = k
    BY <1>1
  <2> QED
    BY <1>2, <2>1
<1> QED
  BY <1>1, <1>2, <1>3, <1>4 DEF m, n

\* s is u, which has m items, and after it a (and b).
OneAfter(s, u, m, a) ==
  /\ s \in Seq(Items) /\ Len(s) = m + 1
  /\ \A k \in 1 .. m : s[k] = u[k]
  /\ s[m + 1] = a
TwoAfter(s, u, m, a, b) ==
  /\ s \in Seq(Items) /\ Len(s) = m + 2
  /\ \A k \in 1 .. m : s[k] = u[k]
  /\ s[m + 1] = a /\ s[m + 2] = b
SeqOf(m) == {u \in Seq(Items) : Len(u) = m}

\* A sequence and one access more.
LEMMA OneMore ==
  ASSUME NEW m, NEW u \in SeqOf(m), NEW a \in Items
  PROVE  OneAfter(u \o <<a>>, u, m, a)
<1> DEFINE v == <<a>>
<1>1. v \in Seq(Items) /\ Len(v) = 1 /\ v[1] = a /\ u \o <<a>> = u \o v /\ 1 \in 1 .. 1
  OBVIOUS
<1> HIDE DEF v
<1> DEFINE s == u \o v
<1>2. s = u \o v /\ u \in Seq(Items) /\ Len(u) = m
  BY DEF SeqOf
<1> HIDE DEF s, Items
<1>3. OneAfter(s, u, m, a)
  BY <1>1, <1>2, Joined DEF OneAfter
<1> QED
  BY <1>1, <1>2, <1>3, Zenon

\* A sequence and two accesses more.
LEMMA TwoMore ==
  ASSUME NEW m, NEW u \in SeqOf(m), NEW a \in Items, NEW b \in Items
  PROVE  TwoAfter(u \o <<a, b>>, u, m, a, b)
<1> DEFINE v == <<a, b>>
<1>1. v \in Seq(Items) /\ Len(v) = 2 /\ v[1] = a /\ v[2] = b /\ u \o <<a, b>> = u \o v
      /\ 1 \in 1 .. 2 /\ 2 \in 1 .. 2
  OBVIOUS
<1> HIDE DEF v
<1> DEFINE s == u \o v
<1>2. s = u \o v /\ u \in Seq(Items) /\ Len(u) = m
  BY DEF SeqOf
<1> HIDE DEF s, Items
<1>3. TwoAfter(s, u, m, a, b)
  BY <1>1, <1>2, Joined DEF TwoAfter
<1> QED
  BY <1>1, <1>2, <1>3, Zenon

\* test_tsc, access by access.
LEMMA TscItems ==
  /\ test_tsc \in Seq(Items) /\ Len(test_tsc) = 9
  /\ test_tsc[1] = rdtsc("t1")          /\ test_tsc[2] = rdtsc("t2")
  /\ test_tsc[3] = write_tsc(0)         /\ test_tsc[4] = rdtsc("t2")
  /\ test_tsc[5] = write_tsc(Big)       /\ test_tsc[6] = rdtsc("t2")
  /\ test_tsc[7] = Do("rdtscp", 0)      /\ test_tsc[8] = Do("rdtscp", 10)
  /\ test_tsc[9] = Do("rdtscp", 256)
<1> DEFINE r1 == rdtsc("t1")  r2 == rdtsc("t2")  w0 == write_tsc(0)  wb == write_tsc(Big)
           x0 == Do("rdtscp", 0)  x1 == Do("rdtscp", 10)  x2 == Do("rdtscp", 256)
<1>1. /\ r1 \in Items /\ r2 \in Items /\ w0 \in Items /\ wb \in Items
      /\ x0 \in Items /\ x1 \in Items /\ x2 \in Items
  BY DEF rdtsc, write_tsc, Do, Items, Ops, Args, Locals, Big
<1>2. test_tsc = <<r1, r2>> \o <<w0, r2>> \o <<wb, r2>> \o <<x0>> \o <<x1>> \o <<x2>>
  BY DEF test_tsc, test_wrtsc, test_rdtscp
<1> HIDE DEF r1, r2, w0, wb, x0, x1, x2
<1> DEFINE a1 == <<r1, r2>>  a2 == a1 \o <<w0, r2>>  a3 == a2 \o <<wb, r2>>
           a4 == a3 \o <<x0>>  a5 == a4 \o <<x1>>  a6 == a5 \o <<x2>>
<1>3. /\ a2 = a1 \o <<w0, r2>> /\ a3 = a2 \o <<wb, r2>> /\ a4 = a3 \o <<x0>>
      /\ a5 = a4 \o <<x1>> /\ a6 = a5 \o <<x2>> /\ test_tsc = a6
  BY <1>2
<1>4. a1 \in SeqOf(2) /\ a1[1] = r1 /\ a1[2] = r2
  BY <1>1 DEF SeqOf
<1> HIDE DEF a1, a2, a3, a4, a5, a6
<1>5. a2 \in SeqOf(4) /\ (\A k \in 1 .. 2 : a2[k] = a1[k]) /\ a2[3] = w0 /\ a2[4] = r2
  <2>1. TwoAfter(a2, a1, 2, w0, r2)
    BY <1>1, <1>3, <1>4, TwoMore, Zenon
  <2> QED
    BY <2>1 DEF TwoAfter, SeqOf
<1>6. a3 \in SeqOf(6) /\ (\A k \in 1 .. 4 : a3[k] = a2[k]) /\ a3[5] = wb /\ a3[6] = r2
  <2>1. TwoAfter(a3, a2, 4, wb, r2)
    BY <1>1, <1>3, <1>5, TwoMore, Zenon
  <2> QED
    BY <2>1 DEF TwoAfter, SeqOf
<1>7. a4 \in SeqOf(7) /\ (\A k \in 1 .. 6 : a4[k] = a3[k]) /\ a4[7] = x0
  <2>1. OneAfter(a4, a3, 6, x0)
    BY <1>1, <1>3, <1>6, OneMore, Zenon
  <2> QED
    BY <2>1 DEF OneAfter, SeqOf
<1>8. a5 \in SeqOf(8) /\ (\A k \in 1 .. 7 : a5[k] = a4[k]) /\ a5[8] = x1
  <2>1. OneAfter(a5, a4, 7, x1)
    BY <1>1, <1>3, <1>7, OneMore, Zenon
  <2> QED
    BY <2>1 DEF OneAfter, SeqOf
<1>9. a6 \in SeqOf(9) /\ (\A k \in 1 .. 8 : a6[k] = a5[k]) /\ a6[9] = x2
  <2>1. OneAfter(a6, a5, 8, x2)
    BY <1>1, <1>3, <1>8, OneMore, Zenon
  <2> QED
    BY <2>1 DEF OneAfter, SeqOf
<1>10. /\ a6[1] = r1 /\ a6[2] = r2 /\ a6[3] = w0 /\ a6[4] = r2 /\ a6[5] = wb /\ a6[6] = r2
       /\ a6[7] = x0 /\ a6[8] = x1
  BY <1>4, <1>5, <1>6, <1>7, <1>8, <1>9
<1>11. test_tsc \in Seq(Items) /\ Len(test_tsc) = 9 /\ a6[9] = x2
  BY <1>3, <1>9 DEF SeqOf
<1> QED
  BY <1>3, <1>10, <1>11, Zenon DEF r1, r2, w0, wb, x0, x1, x2

\* test_tsc_adjust, access by access.
LEMMA AdjustItems ==
  /\ test_tsc_adjust \in Seq(Items)
  /\ ~HasTscAdjust => Len(test_tsc_adjust) = 0
  /\ HasTscAdjust =>
       /\ Len(test_tsc_adjust) = 16
       /\ test_tsc_adjust[1] = read_adjust("p")     /\ test_tsc_adjust[2] = report("initialization")
       /\ test_tsc_adjust[3] = rdtsc("t1")          /\ test_tsc_adjust[4] = write_adjust(Big)
       /\ test_tsc_adjust[5] = rdtsc("t2")          /\ test_tsc_adjust[6] = read_adjust("t3")
       /\ test_tsc_adjust[7] = report("read_write") /\ test_tsc_adjust[8] = report("adjustment")
       /\ test_tsc_adjust[9] = write_adjust(0)      /\ test_tsc_adjust[10] = read_adjust("t3")
       /\ test_tsc_adjust[11] = report("read_write_zero") /\ test_tsc_adjust[12] = rdtsc("t1")
       /\ test_tsc_adjust[13] = write_tsc(Big)      /\ test_tsc_adjust[14] = rdtsc("t2")
       /\ test_tsc_adjust[15] = read_adjust("t5")   /\ test_tsc_adjust[16] = report("tsc_write")
<1> DEFINE r1 == rdtsc("t1")  r2 == rdtsc("t2")  wb == write_tsc(Big)
           ab == write_adjust(Big)  a0 == write_adjust(0)
           pp == read_adjust("p")  p3 == read_adjust("t3")  p5 == read_adjust("t5")
           c1 == report("initialization")  c2 == report("read_write")  c3 == report("adjustment")
           c4 == report("read_write_zero") c5 == report("tsc_write")
<1>1. /\ r1 \in Items /\ r2 \in Items /\ wb \in Items /\ ab \in Items /\ a0 \in Items
      /\ pp \in Items /\ p3 \in Items /\ p5 \in Items
      /\ c1 \in Items /\ c2 \in Items /\ c3 \in Items /\ c4 \in Items /\ c5 \in Items
  BY DEF rdtsc, write_tsc, write_adjust, read_adjust, report, Do, Items, Ops, Args, Locals,
         Checks, Big
<1>2. HasTscAdjust =>
        test_tsc_adjust = <<pp, c1, r1, ab, r2, p3, c2, c3, a0, p3, c4, r1, wb, r2, p5, c5>>
  BY DEF test_tsc_adjust
<1>3. ~HasTscAdjust => test_tsc_adjust = <<>>
  BY DEF test_tsc_adjust
<1> HIDE DEF r1, r2, wb, ab, a0, pp, p3, p5, c1, c2, c3, c4, c5
<1>4. CASE HasTscAdjust
  <2> DEFINE s == test_tsc_adjust
  <2>1. s = <<pp, c1, r1, ab, r2, p3, c2, c3, a0, p3, c4, r1, wb, r2, p5, c5>>
    BY <1>2, <1>4
  <2> HIDE DEF s
  <2>2. s \in Seq(Items) /\ Len(s) = 16
    BY <1>1, <2>1
  <2>3. /\ s[1] = pp /\ s[2] = c1 /\ s[3] = r1 /\ s[4] = ab /\ s[5] = r2 /\ s[6] = p3
        /\ s[7] = c2 /\ s[8] = c3 /\ s[9] = a0 /\ s[10] = p3 /\ s[11] = c4 /\ s[12] = r1
        /\ s[13] = wb /\ s[14] = r2 /\ s[15] = p5 /\ s[16] = c5
    BY <2>1
  <2> QED
    BY <1>4, <2>2, <2>3, Zenon
       DEF s, r1, r2, wb, ab, a0, pp, p3, p5, c1, c2, c3, c4, c5
<1>5. CASE ~HasTscAdjust
  BY <1>3, <1>5
<1> QED
  BY <1>4, <1>5

\* The parts that only enable interrupts, and wait for other vCPUs.
Waiting == {"sti", "call"}

\* What test_ioapic and test_kvm_clock leave here: waits, and the sti they begin with.
LEMMA WaitItems ==
  /\ test_ioapic \in Seq(Items) /\ Len(test_ioapic) \in {1, 2}
  /\ \A k \in 1 .. Len(test_ioapic) : test_ioapic[k][1] \in Waiting
  /\ test_kvm_clock \in Seq(Items) /\ Len(test_kvm_clock) = Cardinality(Cpus)
  /\ \A k \in 1 .. Len(test_kvm_clock) : test_kvm_clock[k][1] \in Waiting
  /\ Cardinality(Cpus) \in Nat
<1>1. Cardinality(Cpus) \in Nat
  BY PcmAssumption, FS_CardinalityType
<1> DEFINE n == Cardinality(Cpus) s == Do("sti", 0) c == Do("call", 1) i == test_ioapic
<1>2. s \in Items /\ c \in Items /\ s[1] \in Waiting /\ c[1] \in Waiting
  BY DEF Do, Items, Ops, Args, Waiting
<1>3. \A k \in 1 .. n : Do("call", k - 1) \in Items /\ Do("call", k - 1)[1] \in Waiting
  <2> SUFFICES ASSUME NEW k \in 1 .. n
               PROVE  Do("call", k - 1) \in Items /\ Do("call", k - 1)[1] \in Waiting
    OBVIOUS
  <2>1. k - 1 \in Nat
    BY <1>1
  <2> QED
    BY <2>1 DEF Do, Items, Ops, Args, Waiting
<1>4. i = <<s>> \o IF n > 1 THEN <<c>> ELSE <<>>
  BY DEF test_ioapic
<1>5. test_kvm_clock = [k \in 1 .. n |-> Do("call", k - 1)]
  BY DEF test_kvm_clock
<1> HIDE DEF n, s, c, i
<1>6. <<s>> \in SeqOf(1) /\ <<s>>[1] = s /\ <<s>> \o <<>> = <<s>>
  <2>1. <<s>> \in Seq(Items)
    BY <1>2
  <2> QED
    BY <2>1, ConcatEmptySeq DEF SeqOf
<1>7. i \in Seq(Items) /\ Len(i) \in {1, 2} /\ \A k \in 1 .. Len(i) : i[k][1] \in Waiting
  <2>1. CASE n > 1
    <3>1. i = <<s>> \o <<c>>
      BY <1>4, <2>1
    <3>2. OneAfter(i, <<s>>, 1, c)
      BY <1>2, <1>6, <3>1, OneMore, Zenon
    <3>3. i \in Seq(Items) /\ Len(i) = 2 /\ i[1] = s /\ i[2] = c
      BY <1>6, <3>2 DEF OneAfter
    <3> QED
      BY <1>2, <3>3
  <2>2. CASE ~(n > 1)
    <3>1. i = <<s>>
      BY <1>4, <1>6, <2>2
    <3> QED
      BY <1>2, <3>1
  <2> QED
    BY <2>1, <2>2
<1>8. /\ test_kvm_clock \in Seq(Items) /\ Len(test_kvm_clock) = n
      /\ \A k \in 1 .. n : test_kvm_clock[k] = Do("call", k - 1)
  <2> DEFINE f == [k \in 1 .. n |-> Do("call", k - 1)]
  <2>1. f \in [1 .. n -> Items]
    BY <1>3
  <2>2. n \in Nat
    BY <1>1 DEF n
  <2>3. f \in Seq(Items) /\ Len(f) = n
    BY <2>1, <2>2, SeqDef
  <2> QED
    BY <1>5, <2>3
<1> QED
  BY <1>1, <1>3, <1>7, <1>8, Zenon DEF n, i

\* test_msr, one access for each entry of its table.
LEMMA MsrItems ==
  /\ test_msr \in Seq(Items) /\ Len(test_msr) = 12
  /\ \A k \in 1 .. 12 : test_msr[k][1] = "msr_rw"
<1>1. DOMAIN msr_info = 1 .. 12
  BY DEF msr_info
<1>2. test_msr = [k \in 1 .. 12 |-> Do("msr_rw", msr_info[k])]
  BY <1>1 DEF test_msr
<1>3. \A k \in 1 .. 12 : Do("msr_rw", msr_info[k]) \in Items /\ Do("msr_rw", msr_info[k])[1] = "msr_rw"
  BY DEF Do, Items, Ops, Args
<1> DEFINE f == [k \in 1 .. 12 |-> Do("msr_rw", msr_info[k])]
<1>4. f \in [1 .. 12 -> Items]
  BY <1>3
<1>5. f \in Seq(Items) /\ Len(f) = 12
  BY <1>4, SeqDef
<1> QED
  BY <1>2, <1>3, <1>5

\* A command that ends in test_tsc_adjust: s waits only, then come its accesses.
AdjustsAfter(s, n) ==
  /\ n \in Nat /\ s \in Seq(Items) /\ Len(s) = n + Len(test_tsc_adjust)
  /\ \A k \in 1 .. n : s[k][1] \in Waiting
  /\ \A k \in 1 .. Len(test_tsc_adjust) : s[n + k] = test_tsc_adjust[k]

\* A test that waits, and the test_tsc_adjust the switch falls through to.
LEMMA WaitThenAdjust ==
  ASSUME NEW u \in Seq(Items), \A k \in 1 .. Len(u) : u[k][1] \in Waiting
  PROVE  AdjustsAfter(u \o test_tsc_adjust, Len(u))
<1> DEFINE v == test_tsc_adjust s == u \o v
<1>1. s = u \o v /\ v \in Seq(Items)
  BY AdjustItems
<1> HIDE DEF v, s, Items
<1>2. /\ s \in Seq(Items) /\ Len(u) \in Nat /\ Len(s) = Len(u) + Len(v)
      /\ \A k \in 1 .. Len(u) : s[k] = u[k]
      /\ \A k \in 1 .. Len(v) : s[Len(u) + k] = v[k]
  BY <1>1, Joined
<1>3. \A k \in 1 .. Len(u) : s[k][1] \in Waiting
  BY <1>2
<1>4. AdjustsAfter(s, Len(u))
  BY <1>2, <1>3, Zenon DEF AdjustsAfter, v
<1> QED
  BY <1>4 DEF s, v

\* Where test_tsc_adjust ends a script, and how many accesses come before it.
LEMMA AdjustLast ==
  ASSUME NEW c \in Adjusting
  PROVE  AdjustsAfter(Tests(c), Before(c) - 2) /\ (c = "TSC_ADJUST" => Before(c) = 2)
<1> DEFINE i == test_ioapic k == test_kvm_clock b == k \o i
<1>1. /\ i \in Seq(Items) /\ \A j \in 1 .. Len(i) : i[j][1] \in Waiting
      /\ k \in Seq(Items) /\ \A j \in 1 .. Len(k) : k[j][1] \in Waiting
      /\ Len(i) \in Nat /\ Len(k) = Cardinality(Cpus) /\ Cardinality(Cpus) \in Nat
  BY WaitItems
<1>2. CASE c = "TSC_ADJUST"
  <2>1. Tests(c) = test_tsc_adjust /\ Before(c) = 2
    BY <1>2 DEF Tests, Before
  <2> DEFINE e == <<>>
  <2>2. e \in Seq(Items) /\ Len(e) = 0 /\ e \o test_tsc_adjust = test_tsc_adjust
    BY AdjustItems, EmptySeq, ConcatEmptySeq
  <2> HIDE DEF e
  <2>3. \A j \in 1 .. Len(e) : e[j][1] \in Waiting
    BY <2>2
  <2>4. AdjustsAfter(e \o test_tsc_adjust, Len(e))
    BY <2>2, <2>3, WaitThenAdjust, Zenon
  <2> QED
    BY <2>1, <2>2, <2>4
<1>3. CASE c = "IOAPIC_TEST"
  <2>1. Tests(c) = i \o test_tsc_adjust /\ Before(c) - 2 = Len(i)
    BY <1>1, <1>3 DEF Tests, Before
  <2> HIDE DEF i
  <2>2. AdjustsAfter(i \o test_tsc_adjust, Len(i))
    BY <1>1, WaitThenAdjust, Zenon
  <2> QED
    BY <1>3, <2>1, <2>2
<1>4. CASE c = "KVMCLOCK_TEST"
  <2>1. Tests(c) = b \o test_tsc_adjust /\ Before(c) - 2 = Len(k) + Len(i)
    BY <1>1, <1>4 DEF Tests, Before
  <2>2. b = k \o i
    OBVIOUS
  <2> HIDE DEF i, k, b, Items
  <2>3. /\ b \in Seq(Items) /\ Len(b) = Len(k) + Len(i)
        /\ \A j \in 1 .. Len(k) : b[j] = k[j]
        /\ \A j \in 1 .. Len(i) : b[Len(k) + j] = i[j]
    BY <1>1, <2>2, Joined
  <2>4. \A j \in 1 .. Len(b) : b[j][1] \in Waiting
    <3> SUFFICES ASSUME NEW j \in 1 .. Len(b) PROVE b[j][1] \in Waiting
      OBVIOUS
    <3>1. CASE j <= Len(k)
      BY <1>1, <2>3, <3>1
    <3>2. CASE j > Len(k)
      <4>1. j - Len(k) \in 1 .. Len(i) /\ Len(k) + (j - Len(k)) = j
        BY <1>1, <2>3, <3>2
      <4> QED
        BY <1>1, <2>3, <4>1
    <3> QED
      BY <1>1, <2>3, <3>1, <3>2
  <2>5. AdjustsAfter(b \o test_tsc_adjust, Len(b))
    BY <2>3, <2>4, WaitThenAdjust, Zenon
  <2> QED
    BY <1>4, <2>1, <2>3, <2>5
<1> QED
  BY <1>2, <1>3, <1>4 DEF Adjusting

\* A script is the tests of its command between two accesses before them and two after.
LEMMA ScriptItems ==
  ASSUME NEW c \in Issued \ Rejected
  PROVE  /\ Tests(c) \in Seq(Items)
         /\ Len(Tests(c)) \in Nat /\ Len(Scripts[c]) = Len(Tests(c)) + 4
         /\ Scripts[c][1] = Do("cli", 0) /\ Scripts[c][2] = Do("hypercall", 102)
         /\ Scripts[c][Len(Tests(c)) + 3] = Do("hypercall", 103)
         /\ Scripts[c][Len(Tests(c)) + 4] = Do("sti", 0)
         /\ \A k \in 1 .. Len(Tests(c)) : Scripts[c][k + 2] = Tests(c)[k]
<1>1. Tests(c) \in Seq(Items)
  <2>1. CASE c \in Adjusting
    BY <2>1, AdjustLast DEF AdjustsAfter
  <2>2. CASE c = "TSC_RW"
    BY <2>2, TscItems DEF Tests
  <2>3. CASE c = "MSR_RW"
    BY <2>3, MsrItems DEF Tests
  <2>4. CASE c \notin Adjusting \union {"TSC_RW", "MSR_RW"}
    <3>1. Tests(c) = <<>>
      BY <2>4 DEF Tests, Adjusting
    <3> QED
      BY <3>1, EmptySeq
  <2> QED
    BY <2>1, <2>2, <2>3, <2>4
<1>2. /\ Do("cli", 0) \in Items /\ Do("hypercall", 102) \in Items
      /\ Do("hypercall", 103) \in Items /\ Do("sti", 0) \in Items
  BY DEF Do, Items, Ops, Args
<1>3. Scripts[c] = <<Do("cli", 0), Do("hypercall", 102)>> \o Tests(c)
                     \o <<Do("hypercall", 103), Do("sti", 0)>>
  BY DEF Scripts, Script, Issued
<1> DEFINE S == Items t == Tests(c) s == Scripts[c]
           a == Do("cli", 0)          b == Do("hypercall", 102)
           x == Do("hypercall", 103)  y == Do("sti", 0)
<1>4. t \in Seq(S) /\ a \in S /\ b \in S /\ x \in S /\ y \in S /\ s = <<a, b>> \o t \o <<x, y>>
  BY <1>1, <1>2, <1>3, Zenon
<1> HIDE DEF S, t, s, a, b, x, y
<1>5. /\ Len(t) \in Nat /\ Len(s) = Len(t) + 4
      /\ s[1] = a /\ s[2] = b /\ s[Len(t) + 3] = x /\ s[Len(t) + 4] = y
      /\ \A k \in 1 .. Len(t) : s[k + 2] = t[k]
  BY <1>4, Between
<1> QED
  BY <1>4, <1>5, Zenon DEF t, s, a, b, x, y, S

\* How long a script is, and where test_tsc_adjust lies in it.
Lengths(c, l, b) ==
  /\ l \in Nat /\ l >= 4 /\ b \in Nat
  /\ c = "TSC_RW" => l = 13
  /\ c = "MSR_RW" => l = 16
  /\ c \in Adjusting => b >= 2 /\ l = b + 2 + (IF HasTscAdjust THEN 16 ELSE 0)
  /\ c = "TSC_ADJUST" => b = 2

\* How long the script of each command is.
LEMMA ScriptLengths ==
  ASSUME NEW c \in Issued \ Rejected
  PROVE  Lengths(c, Len(Scripts[c]), Before(c))
<1> DEFINE l == Len(Scripts[c]) m == Len(Tests(c)) b == Before(c) a == Len(test_tsc_adjust)
<1>1. l = m + 4 /\ m \in Nat
  BY ScriptItems
<1>2. a = IF HasTscAdjust THEN 16 ELSE 0
  BY AdjustItems
<1>3. b \in Nat
  BY WaitItems DEF Before
<1>4. c \in Adjusting => b - 2 \in Nat /\ m = (b - 2) + a
  BY AdjustLast DEF AdjustsAfter
<1>5. c = "TSC_RW" => m = 9
  BY TscItems DEF Tests
<1>6. c = "MSR_RW" => m = 12
  BY MsrItems DEF Tests
<1>7. c = "TSC_ADJUST" => b = 2
  BY AdjustLast DEF Adjusting
<1> HIDE DEF l, m, b, a
<1>8. l >= 4 /\ l \in Nat /\ (c = "TSC_RW" => l = 13) /\ (c = "MSR_RW" => l = 16)
  BY <1>1, <1>5, <1>6
<1>9. c \in Adjusting => b >= 2 /\ l = b + 2 + (IF HasTscAdjust THEN 16 ELSE 0)
  BY <1>1, <1>2, <1>3, <1>4
<1>10. Lengths(c, l, b)
  BY <1>3, <1>7, <1>8, <1>9 DEF Lengths
<1> QED
  BY <1>10 DEF l, b

\* The item x at place p of the script of c, which has l of them, b of them before
\* test_tsc_adjust.
Item(c, p, l, b, x) ==
  \/ p = 1 /\ x = Do("cli", 0)
  \/ p = 2 /\ x = Do("hypercall", 102)
  \/ p = l - 1 /\ x = Do("hypercall", 103)
  \/ p = l /\ x = Do("sti", 0)
  \/ c = "TSC_RW" /\ p \in 3 .. 11 /\ x = test_tsc[p - 2]
  \/ c = "MSR_RW" /\ p \in 3 .. 14 /\ x[1] = "msr_rw"
  \/ c \in Adjusting /\ p \in 3 .. b /\ x[1] \in Waiting
  \/ c \in Adjusting /\ HasTscAdjust /\ p - b \in 1 .. 16 /\ x = test_tsc_adjust[p - b]

\* Each place of each script, with what stands there.
LEMMA ItemAt ==
  ASSUME NEW c \in Issued \ Rejected, NEW p \in 1 .. Len(Scripts[c]),
         NEW x, x = Scripts[c][p], NEW l, l = Len(Scripts[c]), NEW b, b = Before(c)
  PROVE  Item(c, p, l, b, x)
<1> DEFINE n == Len(Tests(c)) s == Scripts[c] t == Tests(c)
           r1 == Do("cli", 0)          r2 == Do("hypercall", 102)
           r3 == Do("hypercall", 103)  r4 == Do("sti", 0)
<1>1. /\ n \in Nat /\ Len(s) = n + 4
      /\ s[1] = r1 /\ s[2] = r2 /\ s[n + 3] = r3 /\ s[n + 4] = r4
      /\ \A k \in 1 .. n : s[k + 2] = t[k]
  BY ScriptItems
<1>2. p \in 1 .. Len(s) /\ x = s[p] /\ l = Len(s)
  OBVIOUS
<1>3. /\ c = "TSC_RW" => t = test_tsc /\ n = 9
      /\ c = "MSR_RW" => n = 12 /\ \A k \in 1 .. 12 : t[k][1] = "msr_rw"
      /\ c \notin Adjusting \union {"TSC_RW", "MSR_RW"} => n = 0
  <2>1. c = "TSC_RW" => t = test_tsc /\ n = 9
    BY TscItems DEF Tests
  <2>2. c = "MSR_RW" => n = 12 /\ \A k \in 1 .. 12 : t[k][1] = "msr_rw"
    BY MsrItems DEF Tests
  <2>3. c \notin Adjusting \union {"TSC_RW", "MSR_RW"} => t = <<>>
    BY DEF Tests, Adjusting
  <2> QED
    BY <2>1, <2>2, <2>3
<1>4. c \in Adjusting =>
        /\ n = (b - 2) + Len(test_tsc_adjust) /\ b \in Nat /\ b >= 2
        /\ \A k \in 1 .. b - 2 : t[k][1] \in Waiting
        /\ \A k \in 1 .. Len(test_tsc_adjust) : t[(b - 2) + k] = test_tsc_adjust[k]
  BY AdjustLast, ScriptLengths DEF Lengths, AdjustsAfter
<1> HIDE DEF n, s, t, r1, r2, r3, r4
<1>5. CASE p \in {1, 2, n + 3, n + 4}
  <2>1. \/ p = 1 /\ x = r1
        \/ p = 2 /\ x = r2
        \/ p = l - 1 /\ x = r3
        \/ p = l /\ x = r4
    BY <1>1, <1>2, <1>5
  <2> QED
    BY <2>1, Zenon DEF r1, r2, r3, r4, Item
<1>6. CASE p \notin {1, 2, n + 3, n + 4}
  <2>1. p - 2 \in 1 .. n /\ (p - 2) + 2 = p /\ p \in Nat
    BY <1>1, <1>2, <1>6
  <2>2. x = t[p - 2]
    BY <1>1, <1>2, <2>1
  <2>3. CASE c = "TSC_RW"
    <3>1. p \in 3 .. 11 /\ x = test_tsc[p - 2]
      BY <1>3, <2>1, <2>2, <2>3
    <3> QED
      BY <2>3, <3>1 DEF Item
  <2>4. CASE c = "MSR_RW"
    <3>1. n = 12 /\ \A k \in 1 .. 12 : t[k][1] = "msr_rw"
      BY <1>3, <2>4
    <3>2. p \in 3 .. 14 /\ p - 2 \in 1 .. 12
      BY <2>1, <3>1
    <3>3. x[1] = "msr_rw"
      BY <2>2, <3>1, <3>2
    <3> QED
      BY <2>4, <3>2, <3>3, Zenon DEF Item
  <2>5. CASE c \in Adjusting
    <3> DEFINE a == test_tsc_adjust m == Len(test_tsc_adjust)
    <3>1. /\ n = (b - 2) + m /\ b \in Nat /\ b >= 2
          /\ \A k \in 1 .. b - 2 : t[k][1] \in Waiting
          /\ \A k \in 1 .. m : t[(b - 2) + k] = a[k]
      BY <1>4, <2>5, Zenon
    <3>2. m \in {0, 16}
      BY AdjustItems
    <3>3. m = 16 => HasTscAdjust
      BY AdjustItems
    <3>4. n = (b - 2) + m /\ b \in Nat /\ b >= 2
      BY <3>1, Zenon
    <3> HIDE DEF a, m
    <3>5. CASE p <= b
      <4>1. p \in 3 .. b /\ p - 2 \in 1 .. b - 2
        BY <2>1, <3>1, <3>5
      <4>2. x[1] \in Waiting
        BY <2>2, <3>1, <4>1
      <4>3. c \in Adjusting /\ p \in 3 .. b /\ x[1] \in Waiting
        BY <2>5, <4>1, <4>2, Zenon
      <4> QED
        BY <4>3 DEF Item
    <3>6. CASE p > b
      <4>1. p - b \in 1 .. m /\ (b - 2) + (p - b) = p - 2
        BY <2>1, <3>2, <3>4, <3>6
      <4>2. x = a[p - b]
        <5>1. t[(b - 2) + (p - b)] = a[p - b]
          BY <3>1, <4>1, Zenon
        <5>2. t[(b - 2) + (p - b)] = t[p - 2]
          BY <4>1, Zenon
        <5> QED
          BY <2>2, <5>1, <5>2, Zenon
      <4>3. m = 16
        <5>1. m # 0
          BY <2>1, <3>4, <4>1
        <5> QED
          BY <3>2, <5>1
      <4>4. p - b \in 1 .. 16
        BY <4>1, <4>3
      <4> QED
        BY <2>5, <3>3, <4>2, <4>3, <4>4, Zenon DEF Item, a
    <3> QED
      BY <3>4, <3>5, <3>6
  <2>6. c \in Adjusting \union {"TSC_RW", "MSR_RW"}
    BY <1>3, <2>1
  <2> QED
    BY <2>3, <2>4, <2>5, <2>6
<1> QED
  BY <1>5, <1>6

\* Where a task is when it is about to make an access op, with the argument a.
Place(c, p, l, b, op, a) ==
  /\ op \in {"cli", "sti", "hypercall", "call"} /\ Adj(c) => p - b \notin 1 .. 16
  /\ op = "cli" => p = 1
  /\ op = "sti" => p = l \/ (p \in 3 .. l - 2 /\ c # "TSC_ADJUST")
  /\ op = "hypercall" => (p = 2 /\ a = 102) \/ (p = l - 1 /\ a = 103)
  /\ op \notin {"cli", "sti", "hypercall"} => p \in 3 .. l - 2
  /\ op = "rdtsc" => a \in {"t1", "t2"} /\ (c = "TSC_RW" \/ Adj(c))
  /\ op = "rdtsc" /\ Adj(c) =>
       (p - b \in {3, 12} /\ a = "t1") \/ (p - b \in {5, 14} /\ a = "t2")
  /\ op = "write_tsc" =>
       a \in {0, Big} /\ (c = "TSC_RW" \/ (Adj(c) /\ p - b = 13 /\ a = Big))
  /\ op = "write_adjust" =>
       Adj(c) /\ ((p - b = 4 /\ a = Big) \/ (p - b = 9 /\ a = 0))
  /\ op = "read_adjust" =>
       Adj(c) /\ (\/ p - b = 1 /\ a = "p"
                  \/ p - b \in {6, 10} /\ a = "t3"
                  \/ p - b = 15 /\ a = "t5")
  /\ op = "report" =>
       Adj(c) /\ (\/ p - b = 2 /\ a = "initialization"
                  \/ p - b = 7 /\ a = "read_write"
                  \/ p - b = 8 /\ a = "adjustment"
                  \/ p - b = 11 /\ a = "read_write_zero"
                  \/ p - b = 16 /\ a = "tsc_write")
  /\ op = "rdtscp" => c = "TSC_RW" /\ p >= 6 /\ a \in Nat
  /\ op = "msr_rw" => c = "MSR_RW"
  /\ c = "TSC_RW" /\ p = 5 => op = "write_tsc"
  /\ p = 1 => op = "cli"
  /\ Adj(c) /\ p - b = 9 => op = "write_adjust"

\* The places of test_tsc in the script of TSC_RW.
LEMMA TscPlace ==
  ASSUME NEW p \in 3 .. 11, NEW x, x = test_tsc[p - 2], NEW b
  PROVE  Place("TSC_RW", p, 13, b, x[1], x[2])
<1>1. p \in {3, 4, 5, 6, 7, 8, 9, 10, 11}
  OBVIOUS
<1>2. /\ p = 3 => x = test_tsc[1]
      /\ p = 4 => x = test_tsc[2]
      /\ p = 5 => x = test_tsc[3]
      /\ p = 6 => x = test_tsc[4]
      /\ p = 7 => x = test_tsc[5]
      /\ p = 8 => x = test_tsc[6]
      /\ p = 9 => x = test_tsc[7]
      /\ p = 10 => x = test_tsc[8]
      /\ p = 11 => x = test_tsc[9]
  BY <1>1
<1>3. \/ p = 3 /\ x = rdtsc("t1")
      \/ p = 4 /\ x = rdtsc("t2")
      \/ p = 5 /\ x = write_tsc(0)
      \/ p = 6 /\ x = rdtsc("t2")
      \/ p = 7 /\ x = write_tsc(Big)
      \/ p = 8 /\ x = rdtsc("t2")
      \/ p = 9 /\ x = Do("rdtscp", 0)
      \/ p = 10 /\ x = Do("rdtscp", 10)
      \/ p = 11 /\ x = Do("rdtscp", 256)
  BY <1>1, <1>2, TscItems
<1>4. x[1] \in {"rdtsc", "write_tsc", "rdtscp"} /\ ~Adj("TSC_RW")
  BY <1>3 DEF Adj, Adjusting, rdtsc, write_tsc, Do
<1> QED
  BY <1>1, <1>3, <1>4 DEF Place, rdtsc, write_tsc, Do, Big

\* The places of test_tsc_adjust in every script that ends with it.
LEMMA AdjustPlace ==
  ASSUME NEW c, Adj(c), NEW p \in Nat, NEW l \in Nat, NEW b \in Nat, b >= 2, l = b + 18,
         p - b \in 1 .. 16, NEW x, x = test_tsc_adjust[p - b]
  PROVE  Place(c, p, l, b, x[1], x[2])
<1> DEFINE k == p - b
<1>1. k \in 1 .. 16 /\ x = test_tsc_adjust[k] /\ p \in 3 .. l - 2 /\ HasTscAdjust
      /\ c # "TSC_RW"
  BY DEF Adj, Adjusting
<1> HIDE DEF k
<1>2. /\ k = 1 => x = test_tsc_adjust[1]
      /\ k = 2 => x = test_tsc_adjust[2]
      /\ k = 3 => x = test_tsc_adjust[3]
      /\ k = 4 => x = test_tsc_adjust[4]
      /\ k = 5 => x = test_tsc_adjust[5]
      /\ k = 6 => x = test_tsc_adjust[6]
      /\ k = 7 => x = test_tsc_adjust[7]
      /\ k = 8 => x = test_tsc_adjust[8]
      /\ k = 9 => x = test_tsc_adjust[9]
      /\ k = 10 => x = test_tsc_adjust[10]
      /\ k = 11 => x = test_tsc_adjust[11]
      /\ k = 12 => x = test_tsc_adjust[12]
      /\ k = 13 => x = test_tsc_adjust[13]
      /\ k = 14 => x = test_tsc_adjust[14]
      /\ k = 15 => x = test_tsc_adjust[15]
      /\ k = 16 => x = test_tsc_adjust[16]
  BY <1>1
<1>3. \/ k = 1 /\ x = read_adjust("p")
      \/ k = 2 /\ x = report("initialization")
      \/ k = 3 /\ x = rdtsc("t1")
      \/ k = 4 /\ x = write_adjust(Big)
      \/ k = 5 /\ x = rdtsc("t2")
      \/ k = 6 /\ x = read_adjust("t3")
      \/ k = 7 /\ x = report("read_write")
      \/ k = 8 /\ x = report("adjustment")
      \/ k = 9 /\ x = write_adjust(0)
      \/ k = 10 /\ x = read_adjust("t3")
      \/ k = 11 /\ x = report("read_write_zero")
      \/ k = 12 /\ x = rdtsc("t1")
      \/ k = 13 /\ x = write_tsc(Big)
      \/ k = 14 /\ x = rdtsc("t2")
      \/ k = 15 /\ x = read_adjust("t5")
      \/ k = 16 /\ x = report("tsc_write")
  BY <1>1, <1>2, AdjustItems
<1> QED
  BY <1>1, <1>3 DEF Place, k, rdtsc, write_tsc, write_adjust, read_adjust, report, Do

\* What stands at a place, put in the terms of Place.
LEMMA ItemPlace ==
  ASSUME NEW c \in Issued \ Rejected, NEW l, NEW b, Lengths(c, l, b), NEW p \in 1 .. l,
         NEW x, Item(c, p, l, b, x)
  PROVE  Place(c, p, l, b, x[1], x[2])
<1>1. l \in Nat /\ l >= 4 /\ b \in Nat /\ p \in Nat
  BY DEF Lengths
<1>2. Adj(c) => b >= 2 /\ l = b + 18
  BY DEF Lengths, Adj
<1>3. c \in Adjusting => b <= l - 2 /\ (c = "TSC_ADJUST" => b = 2)
  <2>1. CASE HasTscAdjust
    BY <1>1, <2>1 DEF Lengths
  <2>2. CASE ~HasTscAdjust
    BY <1>1, <2>2 DEF Lengths
  <2> QED
    BY <2>1, <2>2
<1>4. CASE \/ p = 1 /\ x = Do("cli", 0)
           \/ p = 2 /\ x = Do("hypercall", 102)
           \/ p = l - 1 /\ x = Do("hypercall", 103)
           \/ p = l /\ x = Do("sti", 0)
  <2>1. \/ p = 1 /\ x[1] = "cli"
        \/ p = 2 /\ x[1] = "hypercall" /\ x[2] = 102
        \/ p = l - 1 /\ x[1] = "hypercall" /\ x[2] = 103
        \/ p = l /\ x[1] = "sti"
    BY <1>4 DEF Do
  <2>2. c = "TSC_RW" => l = 13
    BY DEF Lengths
  <2>3. Adj(c) => p - b \notin 1 .. 16
    BY <1>1, <1>2, <2>1
  <2> QED
    BY <1>1, <2>1, <2>2, <2>3 DEF Place
<1>5. CASE c = "TSC_RW" /\ p \in 3 .. 11 /\ x = test_tsc[p - 2]
  <2>1. l = 13
    BY <1>5 DEF Lengths
  <2>2. Place("TSC_RW", p, 13, b, x[1], x[2])
    BY <1>5, TscPlace
  <2> QED
    BY <1>5, <2>1, <2>2, Zenon
<1>6. CASE c = "MSR_RW" /\ p \in 3 .. 14 /\ x[1] = "msr_rw"
  <2>1. l = 16 /\ ~Adj(c)
    BY <1>6 DEF Lengths, Adj, Adjusting
  <2> QED
    BY <1>6, <2>1 DEF Place
<1>7. CASE c \in Adjusting /\ p \in 3 .. b /\ x[1] \in Waiting
  <2>1. p \in 3 .. l - 2 /\ p - b \notin 1 .. 16 /\ c # "TSC_ADJUST" /\ c # "TSC_RW"
    BY <1>1, <1>3, <1>7 DEF Adjusting
  <2> QED
    BY <1>7, <2>1 DEF Place, Waiting
<1>8. CASE c \in Adjusting /\ HasTscAdjust /\ p - b \in 1 .. 16 /\ x = test_tsc_adjust[p - b]
  BY <1>1, <1>2, <1>8, AdjustPlace DEF Adj
<1> QED
  BY <1>4, <1>5, <1>6, <1>7, <1>8, Zenon DEF Item

\* A task that is about to make an access.
LEMMA Placed ==
  ASSUME NEW t \in Tasks, NEW op, DeviceTypes, At(t, op)
  PROVE  /\ InIoctl(t) /\ cmd[t] \in Issued \ Rejected /\ pc[t] \in 1 .. Last(t)
         /\ Lengths(cmd[t], Last(t), Before(cmd[t]))
         /\ Place(cmd[t], pc[t], Last(t), Before(cmd[t]), op, Arg(t))
<1> DEFINE c == cmd[t] p == pc[t] l == Last(t) b == Before(c) x == Scripts[c][p]
<1>1. InIoctl(t) /\ p <= l /\ x[1] = op /\ l = Len(Scripts[c]) /\ x[2] = Arg(t)
  BY DEF At, InIoctl, Last, Code, Arg
<1>2. c \in Issued /\ p \in Nat \ {0}
  BY DEF DeviceTypes, Issued
<1>3. c \notin Rejected
  <2> SUFFICES ASSUME c \in Rejected PROVE FALSE
    OBVIOUS
  <2>1. Scripts[c] = <<>>
    BY <1>2 DEF Scripts, Script, Issued
  <2>2. l = 0
    BY <1>1, <2>1
  <2> QED
    BY <1>1, <1>2, <2>2
<1>4. Lengths(c, l, b)
  BY <1>1, <1>2, <1>3, ScriptLengths
<1>5. l \in Nat
  BY <1>4 DEF Lengths
<1>6. p \in 1 .. l
  BY <1>1, <1>2, <1>5
<1> HIDE DEF c, p, l, b
<1>7. Item(c, p, l, b, x)
  <2>1. p \in 1 .. Len(Scripts[c]) /\ b = Before(c) /\ c \in Issued \ Rejected
    BY <1>1, <1>2, <1>3, <1>6 DEF b
  <2> QED
    BY <1>1, <2>1, ItemAt
<1> HIDE DEF x
<1>8. Place(c, p, l, b, x[1], x[2])
  BY <1>2, <1>3, <1>4, <1>6, <1>7, ItemPlace
<1> QED
  BY <1>1, <1>2, <1>3, <1>4, <1>6, <1>8, Zenon DEF c, p, l, b

-----------------------------------------------------------------------------
(***************************************************************************)
(* One access, and what holds of the vCPU after it.                        *)
(***************************************************************************)
\* The flag, the bracket, the history and IA32_TSC_ADJUST after the access op.
Effect(op, a, q, k, w, x, q2, k2, w2, x2) ==
  /\ q2 = IF op = "cli" THEN 0 ELSE IF op = "sti" THEN 1 ELSE q
  /\ k2 = IF op = "hypercall" THEN (IF a = 102 THEN k + 1 ELSE k - 1) ELSE k
  /\ w2 = IF op = "write_tsc" THEN 1 ELSE w
  /\ op # "write_tsc" => x2 = IF op = "write_adjust" THEN a ELSE x

\* An access moves what is said of a vCPU to the next place of the script.
LEMMA VcpuStep ==
  ASSUME NEW c \in Issued \ Rejected, NEW l, NEW b, Lengths(c, l, b), NEW p \in 1 .. l,
         NEW op, NEW a, Place(c, p, l, b, op, a),
         NEW q, NEW k, NEW w \in {0, 1}, NEW x, Vcpu(c, p, l, b, q, k, w, x),
         NEW q2, NEW k2, NEW w2, NEW x2, Effect(op, a, q, k, w, x, q2, k2, w2, x2)
  PROVE  Vcpu(c, p + 1, l, b, q2, k2, w2, x2) /\ k2 \in {0, 1}
<1> USE DEF Effect
<1>1. l \in Nat /\ l >= 4 /\ b \in Nat /\ p \in Nat
  BY DEF Lengths
<1>2. Adj(c) => b >= 2 /\ l = b + 18
  BY DEF Lengths, Adj
<1>3. p + 1 = l + 1 => q2 = 1
  BY <1>1 DEF Place
<1>4. c = "TSC_ADJUST" /\ p + 1 \in 2 .. l => q2 = 0
  BY <1>1 DEF Place, Vcpu
<1>5. k2 = IF p + 1 \in 3 .. l - 1 THEN 1 ELSE 0
  <2>1. k = IF p \in 3 .. l - 1 THEN 1 ELSE 0
    BY DEF Vcpu
  <2>2. CASE op = "hypercall"
    BY <1>1, <2>1, <2>2 DEF Place
  <2>3. CASE op # "hypercall"
    BY <1>1, <2>1, <2>3 DEF Place
  <2> QED
    BY <2>2, <2>3
<1>6. c = "TSC_RW" /\ p + 1 >= 6 => w2 = 1
  BY <1>1 DEF Place, Vcpu
<1>7. w2 = 0 => (Adj(c) /\ (p + 1) - b \in 5 .. 9) \/ x2 = 0
  <2> SUFFICES ASSUME w2 = 0 PROVE (Adj(c) /\ (p + 1) - b \in 5 .. 9) \/ x2 = 0
    OBVIOUS
  <2>1. op # "write_tsc" /\ w = 0
    OBVIOUS
  <2>2. CASE op = "write_adjust"
    BY <1>1, <2>1, <2>2 DEF Place
  <2>3. CASE op # "write_adjust"
    <3>1. x2 = x /\ ((Adj(c) /\ p - b \in 5 .. 9) \/ x = 0)
      BY <2>1, <2>3 DEF Vcpu
    <3>2. Adj(c) /\ p - b \in 5 .. 9 => (p + 1) - b \in 5 .. 9
      <4> SUFFICES ASSUME Adj(c), p - b \in 5 .. 9 PROVE (p + 1) - b \in 5 .. 9
        OBVIOUS
      <4>1. p - b # 9
        BY <1>1, <2>3 DEF Place
      <4> QED
        BY <1>1, <4>1
    <3> QED
      BY <3>1, <3>2
  <2> QED
    BY <2>2, <2>3
<1> QED
  BY <1>1, <1>3, <1>4, <1>5, <1>6, <1>7 DEF Vcpu

\* Sums modulo the width of the counter.
LEMMA Sum ==
  ASSUME NEW x \in Int, NEW y \in Int
  PROVE  ((x % Width) + y) % Width = (x + y) % Width /\ x % Width \in 0 .. Width - 1
BY DEF Width

\* Values of the counter are numbers.
LEMMA Numbers ==
  /\ \A y \in 0 .. Width - 1 : y \in Nat
  /\ \A l \in [Locals -> 0 .. Width - 1], v \in Locals : l[v] \in 0 .. Width - 1 /\ l[v] \in Nat
  /\ "t1" \in Locals
<1>1. 0 .. Width - 1 \subseteq Nat /\ "t1" \in Locals
  BY DEF Width, Locals
<1> QED
  BY <1>1

\* As many ticks later.
LEMMA Later ==
  ASSUME NEW a \in Nat, NEW y \in Nat, NEW lo \in Nat, NEW hi \in Nat, NEW n \in Nat,
         Ticks(a, y, lo, hi)
  PROVE  Ticks(a, (y + n) % Width, lo + n, hi + n)
<1>1. PICK d \in lo .. hi : y = (a + d) % Width
  BY DEF Ticks
<1>2. (((a + d) % Width) + n) % Width = (a + d + n) % Width
  BY Sum
<1>3. d + n \in (lo + n) .. (hi + n) /\ a + (d + n) = a + d + n
  OBVIOUS
<1> QED
  BY <1>1, <1>2, <1>3 DEF Ticks

\* More interrupts.
LEMMA Wider ==
  ASSUME NEW a, NEW y, NEW lo \in Nat, NEW hi \in Nat, NEW n \in Nat, n >= hi, Ticks(a, y, lo, hi)
  PROVE  Ticks(a, y, lo, n)
BY DEF Ticks

\* Before its second step and after its last test_tsc_adjust says nothing.
LEMMA Outside ==
  ASSUME NEW k \in Int, k \notin 2 .. 16, NEW l, NEW w, NEW y, NEW x, NEW most
  PROVE  Measured(k, l, w, y, x, most) /\ Undisturbed(k, l, y, x)
BY DEF Measured, Undisturbed

\* The four reads of the counter in test_tsc_adjust.
LEMMA ReadsMeasure ==
  ASSUME NEW k \in Int, NEW v,
         (k \in {3, 12} /\ v = "t1") \/ (k \in {5, 14} /\ v = "t2"),
         NEW l \in [Locals -> 0 .. Width - 1], NEW w \in {0, 1},
         NEW y \in 0 .. Width - 1, NEW x \in 0 .. Width - 1, NEW most \in Nat,
         w = 0 => k \in 5 .. 9 \/ x = 0,
         Measured(k, l, w, y, x, most),
         NEW m, m = [l EXCEPT ![v] = (y + x) % Width], NEW z, z = (y + 1) % Width
  PROVE  /\ Measured(k + 1, m, w, z, x, most)
         /\ Undisturbed(k, l, y, x) => Undisturbed(k + 1, m, z, x)
<1>1. m[v] = (y + x) % Width /\ (v = "t1" => m["t2"] = l["t2"]) /\ (v = "t2" => m["t1"] = l["t1"])
  BY DEF Locals
<1>2. y \in Nat /\ y % Width = y /\ l["t1"] \in 0 .. Width - 1
  BY DEF Width, Locals
<1>3. CASE k = 3
  <2>1. w = 0 => m["t1"] = y
    BY <1>1, <1>2, <1>3
  <2>2. w = 0 => Ticks(m["t1"], z, 1, 1 + most)
    <3>1. 1 \in 1 .. 1 + most
      OBVIOUS
    <3> QED
      BY <2>1, <3>1 DEF Ticks
  <2> QED
    BY <1>3, <2>2 DEF Measured, Undisturbed
<1>4. CASE k = 5
  <2>1. x = Big /\ (w = 0 => Ticks(l["t1"], y, 2, 2 + most))
    BY <1>4 DEF Measured
  <2>2. w = 0 => Ticks(l["t1"], (y + Big) % Width, 2 + Big, 2 + most + Big)
    BY <1>2, <2>1, Later DEF Big
  <2>3. w = 0 => Ticks(m["t1"], m["t2"], Big + 2, Big + 2 + most)
    <3>1. m["t1"] = l["t1"] /\ m["t2"] = (y + Big) % Width
      BY <1>1, <1>4, <2>1
    <3>2. 2 + Big = Big + 2 /\ 2 + most + Big = Big + 2 + most
      BY DEF Big
    <3> QED
      BY <2>2, <3>1, <3>2
  <2> QED
    BY <1>4, <2>1, <2>3 DEF Measured, Undisturbed
<1>5. CASE k = 12
  <2>1. x = 0
    BY <1>5 DEF Measured
  <2>2. m["t1"] = y
    BY <1>1, <1>2, <1>5, <2>1
  <2> QED
    BY <1>5, <2>1, <2>2 DEF Measured, Undisturbed, Plus
<1>6. CASE k = 14
  <2>1. Measured(15, m, w, z, x, most)
    BY DEF Measured
  <2>2. ASSUME Undisturbed(14, l, y, x)
        PROVE  Undisturbed(15, m, z, x)
    <3> DEFINE t == l["t1"]
    <3>1. y = Plus(t, 2) /\ x = Minus(Big, Plus(t, 1))
      BY <2>2 DEF Undisturbed
    <3>2. (y + x) % Width = Big + 1
      <4> HIDE DEF t
      <4>1. t \in 0 .. Width - 1
        BY <1>2 DEF t
      <4>2. y = (t + 2) % Width /\ x = (Big - ((t + 1) % Width)) % Width
        BY <3>1, Zenon DEF Plus, Minus
      <4>3. CASE t = Width - 1
        BY <4>2, <4>3 DEF Big, Width
      <4>4. CASE t = Width - 2
        BY <4>2, <4>4 DEF Big, Width
      <4>5. CASE t <= Width - 3
        <5>1. /\ (t + 1) % Width = t + 1
              /\ (t + 2) % Width = t + 2
          BY <4>1, <4>5 DEF Width
        <5>2. y = t + 2
          BY <4>2, <5>1
        <5>3. x = IF t < Big THEN (Big - 1) - t ELSE (Width + Big - 1) - t
          BY <4>1, <4>2, <4>5, <5>1 DEF Big, Width
        <5> QED
          BY <4>1, <5>2, <5>3 DEF Big, Width
      <4> QED
        BY <4>1, <4>3, <4>4, <4>5, SMTT(30) DEF Width
    <3>3. m["t1"] = t /\ m["t2"] = Big + 1
      BY <1>1, <1>6, <3>2
    <3> QED
      BY <3>1, <3>3 DEF Undisturbed
  <2> QED
    BY <1>6, <2>1, <2>2
<1> QED
  BY <1>3, <1>4, <1>5, <1>6

\* Its reads of IA32_TSC_ADJUST.
LEMMA ReadsAdjust ==
  ASSUME NEW k \in Int, NEW v,
         (k = 1 /\ v = "p") \/ (k \in {6, 10} /\ v = "t3") \/ (k = 15 /\ v = "t5"),
         NEW l \in [Locals -> 0 .. Width - 1], NEW w \in {0, 1}, NEW y, NEW z,
         NEW x \in 0 .. Width - 1, NEW most \in Nat,
         w = 0 => k \in 5 .. 9 \/ x = 0,
         Measured(k, l, w, y, x, most),
         NEW m, m = [l EXCEPT ![v] = x]
  PROVE  /\ Measured(k + 1, m, w, z, x, most)
         /\ Undisturbed(k, l, y, x) => Undisturbed(k + 1, m, z, x)
<1>1. m[v] = x /\ (v # "t1" => m["t1"] = l["t1"]) /\ (v # "t2" => m["t2"] = l["t2"])
  BY DEF Locals
<1>2. CASE k = 1
  BY <1>1, <1>2 DEF Measured, Undisturbed
<1>3. CASE k = 6
  BY <1>1, <1>3 DEF Measured, Undisturbed
<1>4. CASE k = 10
  BY <1>1, <1>4 DEF Measured, Undisturbed
<1>5. CASE k = 15
  BY <1>1, <1>5 DEF Measured, Undisturbed
<1> QED
  BY <1>2, <1>3, <1>4, <1>5

\* Its writes of it.
LEMMA WritesAdjust ==
  ASSUME NEW k \in Int, NEW x, (k = 4 /\ x = Big) \/ (k = 9 /\ x = 0),
         NEW l \in [Locals -> 0 .. Width - 1], NEW w \in {0, 1},
         NEW y \in 0 .. Width - 1, NEW x0, NEW most \in Nat,
         Measured(k, l, w, y, x0, most), NEW z, z = (y + 1) % Width
  PROVE  Measured(k + 1, l, w, z, x, most) /\ Undisturbed(k + 1, l, z, x)
<1>1. CASE k = 4
  <2>1. y \in Nat /\ l["t1"] \in Nat
    BY Numbers
  <2>2. w = 0 => Ticks(l["t1"], y, 1, 1 + most)
    BY <1>1 DEF Measured
  <2>3. w = 0 => Ticks(l["t1"], z, 1 + 1, 1 + most + 1)
    BY <2>1, <2>2, Later
  <2>4. 1 + 1 = 2 /\ 1 + most + 1 = 2 + most
    OBVIOUS
  <2> QED
    BY <1>1, <2>3, <2>4 DEF Measured, Undisturbed
<1>2. CASE k = 9
  BY <1>2 DEF Measured, Undisturbed
<1> QED
  BY <1>1, <1>2

\* Its write of the counter, which shows in IA32_TSC_ADJUST.
LEMMA WriteMeasures ==
  ASSUME NEW l \in [Locals -> 0 .. Width - 1], NEW y \in 0 .. Width - 1, NEW w, NEW x0,
         NEW most, NEW x, x = Minus(Big, y), NEW z, z = (y + 1) % Width
  PROVE  /\ Measured(14, l, w, z, x, most)
         /\ Undisturbed(13, l, y, x0) => Undisturbed(14, l, z, x)
<1>1. Measured(14, l, w, z, x, most)
  BY DEF Measured
<1>2. ASSUME Undisturbed(13, l, y, x0)
      PROVE  Undisturbed(14, l, z, x)
  <2>1. y = Plus(l["t1"], 1) /\ l["t1"] \in Nat
    BY <1>2, Numbers DEF Undisturbed
  <2>2. z = Plus(l["t1"], 2)
    BY <2>1 DEF Width, Plus
  <2> QED
    BY <2>1, <2>2 DEF Undisturbed
<1> QED
  BY <1>1, <1>2

\* Its reports, and the interrupts that came meanwhile.
LEMMA ReportKeeps ==
  ASSUME NEW k \in {2, 7, 8, 11, 16}, NEW l, NEW w, NEW y, NEW x, NEW most,
         Measured(k, l, w, y, x, most)
  PROVE  /\ Measured(k + 1, l, w, y, x, most)
         /\ Undisturbed(k, l, y, x) => Undisturbed(k + 1, l, y, x)
BY DEF Measured, Undisturbed

\* An interrupt moves the counter, and what is measured with it, by three ticks.
LEMMA InterruptKeeps ==
  ASSUME NEW k \in Int, NEW l \in [Locals -> 0 .. Width - 1], NEW w, NEW y \in 0 .. Width - 1,
         NEW x, NEW most \in Nat, NEW z, z = y \/ z = (y + 3) % Width,
         Measured(k, l, w, y, x, most)
  PROVE  Measured(k, l, w, z, x, most + 3)
<1>1. l["t1"] \in Nat /\ y \in Nat
  BY Numbers
<1>2. ASSUME NEW n \in Nat, Ticks(l["t1"], y, n, n + most)
      PROVE  Ticks(l["t1"], z, n, n + (most + 3))
  <2>1. CASE z = y
    BY <1>2, <2>1, Wider
  <2>2. CASE z = (y + 3) % Width
    <3>1. PICK d \in n .. n + most : y = (l["t1"] + d) % Width
      BY <1>2 DEF Ticks
    <3>2. (((l["t1"] + d) % Width) + 3) % Width = (l["t1"] + d + 3) % Width
      <4> DEFINE t == l["t1"]
      <4>1. t \in Int /\ d \in Int
        BY <1>1
      <4> HIDE DEF t
      <4>2. (((t + d) % Width) + 3) % Width = (t + d + 3) % Width
        BY <4>1, Sum
      <4> QED
        BY <4>2 DEF t
    <3>3. d + 3 \in n .. n + (most + 3) /\ l["t1"] + (d + 3) = l["t1"] + d + 3
      BY <1>1
    <3> QED
      BY <2>2, <3>1, <3>2, <3>3 DEF Ticks
  <2> QED
    BY <2>1, <2>2
<1>3. k \in 6 .. 8 /\ w = 0 => Ticks(l["t1"], l["t2"], Big + 2, Big + 2 + (most + 3))
  <2> SUFFICES ASSUME k \in 6 .. 8, w = 0
               PROVE  Ticks(l["t1"], l["t2"], Big + 2, Big + 2 + (most + 3))
    OBVIOUS
  <2>1. Ticks(l["t1"], l["t2"], Big + 2, Big + 2 + most)
    BY DEF Measured
  <2> QED
    BY <2>1, Wider DEF Big
<1>4. k = 4 /\ w = 0 => Ticks(l["t1"], z, 1, 1 + (most + 3))
  BY <1>2 DEF Measured
<1>5. k = 5 /\ w = 0 => Ticks(l["t1"], z, 2, 2 + (most + 3))
  BY <1>2 DEF Measured
<1> QED
  BY <1>3, <1>4, <1>5 DEF Measured

-----------------------------------------------------------------------------
(***************************************************************************)
(* The steps of a task.                                                    *)
(***************************************************************************)
Kept(v) ==
  /\ On(v)' = On(v) /\ Wrote(v)' = Wrote(v)
  /\ bracket'[v] = bracket[v] /\ tsc'[v] = tsc[v] /\ adjust'[v] = adjust[v] /\ aux'[v] = aux[v]
NextTypes ==
  /\ local' \in [Tasks -> [Locals -> 0 .. Width - 1]]
  /\ irq' \in [Cpus -> BOOLEAN] /\ bracket' \in [Cpus -> {0, 1}]
  /\ tsc' \in [Cpus -> 0 .. Width - 1] /\ adjust' \in [Cpus -> 0 .. Width - 1]
  /\ aux' \in [Cpus -> Nat] /\ crashed' \in BOOLEAN
  /\ hits' = hits /\ written' \subseteq Cpus

\* A script has a length.
LEMMA LastType ==
  ASSUME NEW c \in Issued
  PROVE  Len(Scripts[c]) \in Nat
<1>1. CASE c \in Rejected
  <2>1. Scripts[c] = <<>>
    BY <1>1 DEF Scripts, Script, Issued
  <2> QED
    BY <2>1
<1>2. CASE c \notin Rejected
  BY <1>2, ScriptLengths DEF Lengths
<1> QED
  BY <1>1, <1>2

\* A task whose vCPU and variables are as they were.
LEMMA Undisturbing ==
  ASSUME NEW u, VcpuInv(u), AdjustInv(u), InIoctl(u)' => InIoctl(u),
         cmd'[u] = cmd[u], pc'[u] = pc[u], cpu'[u] = cpu[u], local'[u] = local[u], hits' = hits,
         InIoctl(u) => Kept(cpu[u])
  PROVE  (VcpuInv(u) /\ AdjustInv(u))'
<1> SUFFICES ASSUME InIoctl(u)'
             PROVE  (VcpuInv(u) /\ AdjustInv(u))'
  BY Zenon DEF VcpuInv, AdjustInv
<1> DEFINE v == cpu[u]
<1>1. InIoctl(u) /\ Kept(v)
  OBVIOUS
<1>2. On(cpu[u])' = On(v) /\ Wrote(cpu[u])' = Wrote(v)
  <2>1. On(cpu[u])' = On(v)' /\ Wrote(cpu[u])' = Wrote(v)'
    BY Zenon DEF On, Wrote
  <2> QED
    BY <1>1, <2>1 DEF Kept
<1>3. /\ bracket'[cpu'[u]] = bracket[v] /\ tsc'[cpu'[u]] = tsc[v]
      /\ adjust'[cpu'[u]] = adjust[v]
  BY <1>1 DEF Kept
<1>4. Last(u)' = Last(u)
  BY Zenon DEF Last, Code
<1>5. VcpuInv(u)'
  BY <1>1, <1>2, <1>3, <1>4, Zenon DEF VcpuInv
<1>6. AdjustInv(u)'
  BY <1>1, <1>2, <1>3, Zenon DEF AdjustInv
<1> QED
  BY <1>5, <1>6

\* An access touches the vCPU of its task only.
LEMMA Advance ==
  ASSUME NEW t \in Tasks, NEW op, At(t, op), VcpusInv, Step(t), NextTypes,
         \A u \in Tasks : u # t => local'[u] = local[u],
         \A v \in Cpus : v # cpu[t] => Kept(v),
         Wrote(cpu[t])' = 0 => aux'[cpu[t]] = cpu[t],
         Vcpu(cmd[t], pc[t] + 1, Last(t), Before(cmd[t]), On(cpu[t])', bracket'[cpu[t]],
              Wrote(cpu[t])', adjust'[cpu[t]]),
         Adj(cmd[t]) =>
           /\ Measured(pc[t] - Before(cmd[t]) + 1, local'[t], Wrote(cpu[t])', tsc'[cpu[t]],
                       adjust'[cpu[t]], 3 * hits)
           /\ cmd[t] = "TSC_ADJUST" =>
                Undisturbed(pc[t] - Before(cmd[t]) + 1, local'[t], tsc'[cpu[t]], adjust'[cpu[t]])
  PROVE  VcpusInv'
<1> USE DEF VcpusInv
<1>1. /\ InIoctl(t) /\ cmd[t] \in Issued \ Rejected /\ pc[t] \in 1 .. Last(t)
      /\ Lengths(cmd[t], Last(t), Before(cmd[t]))
  BY Placed
<1>2. Last(t) \in Nat /\ Before(cmd[t]) \in Nat
  BY <1>1 DEF Lengths
<1>3. /\ task' = task /\ cmd' = cmd /\ cpu' = cpu /\ ioctls' = ioctls
      /\ pc' = [pc EXCEPT ![t] = @ + 1]
  BY DEF Step, cdevVars
<1>4. \A u : Last(u)' = Last(u)
  BY <1>3, Zenon DEF Last, Code
<1>5. pc'[t] = pc[t] + 1 /\ \A u \in Tasks : u # t => pc'[u] = pc[u]
  BY <1>3 DEF DeviceTypes
<1>6. DeviceTypes'
  <2>1. pc' \in [Tasks -> Nat \ {0}]
    BY <1>1, <1>2, <1>3 DEF DeviceTypes
  <2>2. \A u \in Tasks : pc'[u] <= Last(u)' + 1
    <3> SUFFICES ASSUME NEW u \in Tasks PROVE pc'[u] <= Last(u) + 1
      BY <1>4
    <3>1. CASE u = t
      BY <1>1, <1>2, <1>5, <3>1
    <3>2. CASE u # t
      BY <1>5, <3>2 DEF DeviceTypes
    <3> QED
      BY <3>1, <3>2
  <2> QED
    BY <1>3, <2>1, <2>2 DEF DeviceTypes, NextTypes
<1>7. Apart'
  BY <1>3 DEF Apart, InIoctl
<1>8. \A v \in Cpus : Busy(v)' <=> Busy(v)
  BY <1>3 DEF Busy
<1>9. Idle'
  <2> SUFFICES ASSUME NEW v \in Cpus, ~Busy(v)'
               PROVE  (/\ On(v) = 1 /\ bracket[v] = 0
                       /\ Wrote(v) = 0 => adjust[v] = 0)'
    BY DEF Idle
  <2>1. v # cpu[t]
    BY <1>1, <1>8 DEF Busy, InIoctl
  <2> QED
    BY <1>8, <2>1, Zenon DEF Idle, Kept
<1>10. AuxKept'
  <2> SUFFICES ASSUME NEW v \in Cpus, Wrote(v)' = 0 PROVE aux'[v] = v
    BY DEF AuxKept
  <2>1. CASE v = cpu[t]
    BY <1>3, <2>1 DEF Wrote
  <2>2. CASE v # cpu[t]
    BY <2>2, Zenon DEF AuxKept, Kept
  <2> QED
    BY <2>1, <2>2
<1>11. TaskInv'
  <2> SUFFICES ASSUME NEW u \in Tasks PROVE (VcpuInv(u) /\ AdjustInv(u))'
    BY DEF TaskInv
  <2>1. CASE u # t
    <3>1. InIoctl(u) => Kept(cpu[u])
      BY <1>1, <2>1 DEF Apart, DeviceTypes
    <3>2. InIoctl(u)' => InIoctl(u)
      BY <1>3 DEF InIoctl
    <3>3. VcpuInv(u) /\ AdjustInv(u)
      BY DEF TaskInv
    <3>4. cmd'[u] = cmd[u] /\ pc'[u] = pc[u] /\ cpu'[u] = cpu[u] /\ local'[u] = local[u] /\ hits' = hits
      BY <1>3, <1>5, <2>1 DEF NextTypes
    <3> QED
      BY <3>1, <3>2, <3>3, <3>4, Undisturbing, Zenon
  <2>2. CASE u = t
    <3> DEFINE v == cpu[t]
    <3>1. cmd'[t] = cmd[t] /\ cpu'[t] = v /\ pc'[t] = pc[t] + 1 /\ Last(t)' = Last(t) /\ hits' = hits
      BY <1>3, <1>4, <1>5 DEF NextTypes
    <3>2. On(cpu[t])' = On(v)' /\ Wrote(cpu[t])' = Wrote(v)'
      BY <3>1, Zenon DEF On, Wrote
    <3>3. VcpuInv(t)'
      BY <3>1, <3>2, Zenon DEF VcpuInv
    <3>4. pc'[t] - Before(cmd'[t]) = pc[t] - Before(cmd[t]) + 1
      <4>1. pc'[t] - Before(cmd'[t]) = (pc[t] + 1) - Before(cmd[t])
        BY <3>1
      <4> QED
        BY <1>1, <1>2, <4>1
    <3>5. AdjustInv(t)'
      BY <3>1, <3>2, <3>4, Zenon DEF AdjustInv
    <3> QED
      BY <2>2, <3>3, <3>5
  <2> QED
    BY <2>1, <2>2
<1> QED
  BY <1>6, <1>7, <1>9, <1>10, <1>11

\* What holds where a task is about to make an access.
LEMMA Here ==
  ASSUME NEW t \in Tasks, NEW op, At(t, op), VcpusInv
  PROVE  /\ cpu[t] \in Cpus /\ On(cpu[t]) \in {0, 1} /\ Wrote(cpu[t]) \in {0, 1}
         /\ tsc[cpu[t]] \in 0 .. Width - 1 /\ adjust[cpu[t]] \in 0 .. Width - 1
         /\ bracket[cpu[t]] \in {0, 1}
         /\ local[t] \in [Locals -> 0 .. Width - 1] /\ 3 * hits \in Nat
         /\ pc[t] - Before(cmd[t]) \in Int
         /\ Vcpu(cmd[t], pc[t], Last(t), Before(cmd[t]), On(cpu[t]), bracket[cpu[t]],
                 Wrote(cpu[t]), adjust[cpu[t]])
         /\ Adj(cmd[t]) =>
              /\ Measured(pc[t] - Before(cmd[t]), local[t], Wrote(cpu[t]), tsc[cpu[t]],
                          adjust[cpu[t]], 3 * hits)
              /\ cmd[t] = "TSC_ADJUST" =>
                   Undisturbed(pc[t] - Before(cmd[t]), local[t], tsc[cpu[t]], adjust[cpu[t]])
              /\ Wrote(cpu[t]) = 0 => pc[t] - Before(cmd[t]) \in 5 .. 9 \/ adjust[cpu[t]] = 0
<1> USE DEF VcpusInv
<1>1. /\ InIoctl(t) /\ pc[t] \in 1 .. Last(t)
      /\ Lengths(cmd[t], Last(t), Before(cmd[t]))
  BY Placed
<1>2. Last(t) \in Nat /\ Before(cmd[t]) \in Nat
  BY <1>1 DEF Lengths
<1>3. /\ cpu[t] \in Cpus /\ On(cpu[t]) \in {0, 1} /\ Wrote(cpu[t]) \in {0, 1}
      /\ tsc[cpu[t]] \in 0 .. Width - 1 /\ adjust[cpu[t]] \in 0 .. Width - 1
      /\ bracket[cpu[t]] \in {0, 1}
      /\ local[t] \in [Locals -> 0 .. Width - 1] /\ hits \in 0 .. Interrupts
  BY DEF DeviceTypes, On, Wrote
<1>4. 3 * hits \in Nat
  BY <1>3, PcmAssumption
<1>5. VcpuInv(t) /\ AdjustInv(t)
  BY DEF TaskInv
<1>6. Vcpu(cmd[t], pc[t], Last(t), Before(cmd[t]), On(cpu[t]), bracket[cpu[t]],
           Wrote(cpu[t]), adjust[cpu[t]])
  BY <1>1, <1>5, Zenon DEF VcpuInv
<1>7. Adj(cmd[t]) =>
        /\ Measured(pc[t] - Before(cmd[t]), local[t], Wrote(cpu[t]), tsc[cpu[t]],
                    adjust[cpu[t]], 3 * hits)
        /\ cmd[t] = "TSC_ADJUST" =>
             Undisturbed(pc[t] - Before(cmd[t]), local[t], tsc[cpu[t]], adjust[cpu[t]])
  BY <1>1, <1>5, Zenon DEF AdjustInv
<1>8. Wrote(cpu[t]) = 0 => pc[t] - Before(cmd[t]) \in 5 .. 9 \/ adjust[cpu[t]] = 0
  BY <1>6, Zenon DEF Vcpu
<1>9. pc[t] - Before(cmd[t]) \in Int
  BY <1>1, <1>2
<1> QED
  BY <1>3, <1>4, <1>6, <1>7, <1>8, <1>9, Zenon

\* An access op, by what it does to the vCPU of its task.
EffectOf(t, op) ==
  Effect(op, Arg(t), On(cpu[t]), bracket[cpu[t]], Wrote(cpu[t]), adjust[cpu[t]],
         On(cpu[t])', bracket'[cpu[t]], Wrote(cpu[t])', adjust'[cpu[t]])

\* What is said of the vCPU of a task, after its access.
LEMMA VcpuAfter ==
  ASSUME NEW t \in Tasks, NEW op, At(t, op), VcpusInv, EffectOf(t, op)
  PROVE  /\ Vcpu(cmd[t], pc[t] + 1, Last(t), Before(cmd[t]), On(cpu[t])', bracket'[cpu[t]],
                 Wrote(cpu[t])', adjust'[cpu[t]])
         /\ bracket'[cpu[t]] \in {0, 1}
<1> DEFINE c == cmd[t] p == pc[t] l == Last(t) b == Before(c) a == Arg(t)
           q == On(cpu[t]) k == bracket[cpu[t]] w == Wrote(cpu[t]) x == adjust[cpu[t]]
           q2 == On(cpu[t])' k2 == bracket'[cpu[t]] w2 == Wrote(cpu[t])' x2 == adjust'[cpu[t]]
<1>1. /\ c \in Issued \ Rejected /\ p \in 1 .. l /\ Lengths(c, l, b)
      /\ Place(c, p, l, b, op, a)
  BY Placed DEF VcpusInv
<1>2. Vcpu(c, p, l, b, q, k, w, x) /\ w \in {0, 1}
  BY Here, Zenon
<1>3. Effect(op, a, q, k, w, x, q2, k2, w2, x2)
  BY DEF EffectOf
<1> HIDE DEF c, p, l, b, a, q, k, w, x, q2, k2, w2, x2
<1>4. Vcpu(c, p + 1, l, b, q2, k2, w2, x2) /\ k2 \in {0, 1}
  BY <1>1, <1>2, <1>3, VcpuStep
<1> QED
  BY <1>4, Zenon DEF c, p, l, b, q2, k2, w2, x2

\* An access that has the effect its place asks for keeps what is said of every vCPU.
LEMMA Access ==
  ASSUME NEW t \in Tasks, NEW op, At(t, op), VcpusInv, Step(t), NextTypes, EffectOf(t, op),
         \A u \in Tasks : u # t => local'[u] = local[u],
         \A v \in Cpus : v # cpu[t] => Kept(v),
         Wrote(cpu[t])' = 0 => aux'[cpu[t]] = cpu[t],
         Adj(cmd[t]) =>
           /\ Measured(pc[t] - Before(cmd[t]) + 1, local'[t], Wrote(cpu[t])', tsc'[cpu[t]],
                       adjust'[cpu[t]], 3 * hits)
           /\ cmd[t] = "TSC_ADJUST" =>
                Undisturbed(pc[t] - Before(cmd[t]) + 1, local'[t], tsc'[cpu[t]], adjust'[cpu[t]])
  PROVE  VcpusInv'
<1>1. Vcpu(cmd[t], pc[t] + 1, Last(t), Before(cmd[t]), On(cpu[t])', bracket'[cpu[t]],
           Wrote(cpu[t])', adjust'[cpu[t]])
  BY VcpuAfter, Zenon
<1> QED
  BY <1>1, Advance, Zenon

\* The flag and the history after a step, on the vCPU of its task and on another.
LEMMA Primes ==
  ASSUME NEW t, Step(t)
  PROVE  /\ On(cpu[t])' = IF irq'[cpu[t]] THEN 1 ELSE 0
         /\ Wrote(cpu[t])' = IF cpu[t] \in written' THEN 1 ELSE 0
         /\ irq' = irq => On(cpu[t])' = On(cpu[t]) /\ \A v \in Cpus : On(v)' = On(v)
         /\ written' = written =>
              Wrote(cpu[t])' = Wrote(cpu[t]) /\ \A v \in Cpus : Wrote(v)' = Wrote(v)
         /\ \A v \in Cpus : irq'[v] = irq[v] => On(v)' = On(v)
<1>1. cpu' = cpu
  BY DEF Step
<1> QED
  BY <1>1, Zenon DEF On, Wrote

\* The accesses that have no part in test_tsc_adjust.
LEMMA Unmeasured ==
  ASSUME NEW t \in Tasks, NEW op \in {"cli", "sti", "hypercall", "call", "rdtscp", "msr_rw"},
         At(t, op), VcpusInv, NEW l, NEW w, NEW y, NEW x, NEW most
  PROVE  Adj(cmd[t]) => /\ Measured(pc[t] - Before(cmd[t]) + 1, l, w, y, x, most)
                        /\ Undisturbed(pc[t] - Before(cmd[t]) + 1, l, y, x)
<1> DEFINE k == pc[t] - Before(cmd[t])
<1>1. Place(cmd[t], pc[t], Last(t), Before(cmd[t]), op, Arg(t)) /\ k \in Int
  BY Placed, Here DEF VcpusInv
<1>2. Adj(cmd[t]) => k \notin 1 .. 16
  BY <1>1 DEF Place, Adj, Adjusting
<1> HIDE DEF k
<1>3. Adj(cmd[t]) => k + 1 \in Int /\ k + 1 \notin 2 .. 16
  BY <1>1, <1>2
<1>4. Adj(cmd[t]) => Measured(k + 1, l, w, y, x, most) /\ Undisturbed(k + 1, l, y, x)
  BY <1>3, Outside
<1> QED
  BY <1>4, Zenon DEF k

\* cli and sti.
LEMMA FlagKeeps ==
  ASSUME NEW t \in Tasks, VcpusInv, SetFlag(t)
  PROVE  VcpusInv'
<1> DEFINE v == cpu[t]
<1>1. /\ Step(t) /\ UNCHANGED <<local, bracket, tsc, adjust, aux, crashed, hits, written>>
  BY DEF SetFlag, timeVars
<1>2. DeviceTypes /\ AuxKept /\ v \in Cpus
  BY DEF VcpusInv, DeviceTypes
<1>3. PICK op \in {"cli", "sti"} :
        At(t, op) /\ irq' = [irq EXCEPT ![v] = (op = "sti")]
  BY DEF SetFlag
<1>4. NextTypes
  BY <1>1, <1>2, <1>3 DEF NextTypes, DeviceTypes
<1>5. On(v)' = (IF op = "sti" THEN 1 ELSE 0) /\ Wrote(v)' = Wrote(v)
  <2>1. irq'[v] <=> op = "sti"
    BY <1>2, <1>3 DEF DeviceTypes
  <2> QED
    BY <1>1, <2>1, Primes
<1>6. EffectOf(t, op)
  BY <1>1, <1>3, <1>5 DEF EffectOf, Effect
<1>7. \A u \in Cpus : u # v => Kept(u)
  <2> SUFFICES ASSUME NEW u \in Cpus, u # v PROVE Kept(u)
    OBVIOUS
  <2>1. irq'[u] = irq[u]
    BY <1>2, <1>3 DEF DeviceTypes
  <2> QED
    BY <1>1, <2>1, Primes, Zenon DEF Kept
<1>8. Wrote(v)' = 0 => aux'[v] = v
  BY <1>1, <1>2, <1>5 DEF AuxKept
<1> QED
  BY <1>1, <1>3, <1>4, <1>6, <1>7, <1>8, Access, Unmeasured

\* Hypercalls 102 and 103.
LEMMA HypercallKeeps ==
  ASSUME NEW t \in Tasks, VcpusInv, hypercall(t)
  PROVE  VcpusInv'
<1> DEFINE v == cpu[t]
<1>1. /\ At(t, "hypercall") /\ Step(t)
      /\ bracket' = [bracket EXCEPT ![v] = IF Arg(t) = 102 THEN @ + 1 ELSE @ - 1]
      /\ UNCHANGED <<local, irq, tsc, adjust, aux, crashed, hits, written>>
  BY DEF hypercall, timeVars
<1>2. DeviceTypes /\ AuxKept /\ v \in Cpus
  BY DEF VcpusInv, DeviceTypes
<1>3. bracket'[v] = IF Arg(t) = 102 THEN bracket[v] + 1 ELSE bracket[v] - 1
  BY <1>1, <1>2 DEF DeviceTypes
<1>4. EffectOf(t, "hypercall")
  BY <1>1, <1>3, Primes DEF EffectOf, Effect
<1>5. bracket'[v] \in {0, 1}
  BY <1>1, <1>4, VcpuAfter
<1>6. bracket' \in [Cpus -> {0, 1}] /\ \A u \in Cpus : u # v => bracket'[u] = bracket[u]
  BY <1>1, <1>2, <1>5 DEF DeviceTypes
<1>7. NextTypes
  BY <1>1, <1>2, <1>6 DEF NextTypes, DeviceTypes
<1>8. \A u \in Cpus : u # v => Kept(u)
  BY <1>1, <1>6, Primes DEF Kept
<1>9. Wrote(v)' = 0 => aux'[v] = v
  BY <1>1, <1>2, Primes DEF AuxKept
<1> QED
  BY <1>1, <1>4, <1>7, <1>8, <1>9, Access, Unmeasured

\* A wait, and a call on every vCPU.
LEMMA CallKeeps ==
  ASSUME NEW t \in Tasks, VcpusInv, Call(t)
  PROVE  VcpusInv'
<1> DEFINE v == cpu[t]
<1>1. /\ At(t, "call") /\ Step(t)
      /\ UNCHANGED <<local, irq, bracket, tsc, adjust, aux, crashed, hits, written>>
  BY DEF Call, timeVars
<1>2. DeviceTypes /\ AuxKept /\ v \in Cpus
  BY DEF VcpusInv, DeviceTypes
<1>3. EffectOf(t, "call")
  BY <1>1, Primes DEF EffectOf, Effect
<1>4. NextTypes
  BY <1>1, <1>2 DEF NextTypes, DeviceTypes
<1>5. \A u \in Cpus : u # v => Kept(u)
  BY <1>1, Primes DEF Kept
<1>6. Wrote(v)' = 0 => aux'[v] = v
  BY <1>1, <1>2, Primes DEF AuxKept
<1> QED
  BY <1>1, <1>3, <1>4, <1>5, <1>6, Access, Unmeasured

\* test_rdtscp comes after both writes of the counter.
LEMMA RdtscpKeeps ==
  ASSUME NEW t \in Tasks, VcpusInv, RdtscpAux(t)
  PROVE  VcpusInv'
<1> DEFINE v == cpu[t]
<1>1. /\ At(t, "rdtscp") /\ Step(t) /\ aux' = [aux EXCEPT ![v] = Arg(t)]
      /\ UNCHANGED <<local, irq, bracket, tsc, adjust, crashed, hits, written>>
  BY DEF RdtscpAux
<1>2. DeviceTypes /\ AuxKept /\ v \in Cpus
  BY DEF VcpusInv, DeviceTypes
<1>3. EffectOf(t, "rdtscp")
  BY <1>1, Primes DEF EffectOf, Effect
<1>4. Arg(t) \in Nat /\ cmd[t] = "TSC_RW" /\ pc[t] >= 6
  BY <1>1, Placed DEF VcpusInv, Place
<1>5. aux' \in [Cpus -> Nat] /\ \A u \in Cpus : u # v => aux'[u] = aux[u]
  BY <1>1, <1>2, <1>4 DEF DeviceTypes
<1>6. NextTypes
  BY <1>1, <1>2, <1>5 DEF NextTypes, DeviceTypes
<1>7. \A u \in Cpus : u # v => Kept(u)
  BY <1>1, <1>5, Primes DEF Kept
<1>8. Wrote(v)' = 1
  <2>1. Vcpu(cmd[t], pc[t], Last(t), Before(cmd[t]), On(v), bracket[v], Wrote(v), adjust[v])
    BY <1>1, Here
  <2>2. Wrote(v) = 1
    BY <1>4, <2>1 DEF Vcpu
  <2> QED
    BY <1>1, <2>2, Primes
<1> QED
  BY <1>1, <1>3, <1>6, <1>7, <1>8, Access, Unmeasured

\* test_msr_rw, up to the entry that loses the guest.
LEMMA MsrKeeps ==
  ASSUME NEW t \in Tasks, VcpusInv, test_msr_rw(t)
  PROVE  VcpusInv'
<1> DEFINE v == cpu[t]
<1>1. /\ At(t, "msr_rw") /\ Step(t) /\ crashed' \in BOOLEAN
      /\ UNCHANGED <<local, irq, bracket, tsc, adjust, aux, hits, written>>
  BY DEF test_msr_rw
<1>2. DeviceTypes /\ AuxKept /\ v \in Cpus
  BY DEF VcpusInv, DeviceTypes
<1>3. EffectOf(t, "msr_rw")
  BY <1>1, Primes DEF EffectOf, Effect
<1>4. NextTypes
  BY <1>1, <1>2 DEF NextTypes, DeviceTypes
<1>5. \A u \in Cpus : u # v => Kept(u)
  BY <1>1, Primes DEF Kept
<1>6. Wrote(v)' = 0 => aux'[v] = v
  BY <1>1, <1>2, Primes DEF AuxKept
<1> QED
  BY <1>1, <1>3, <1>4, <1>5, <1>6, Access, Unmeasured

\* The accesses of the counter and of IA32_TSC_ADJUST, on one vCPU.
LEMMA TickKeeps ==
  ASSUME NEW v \in Cpus, tsc \in [Cpus -> 0 .. Width - 1], Tick(v, 1)
  PROVE  /\ tsc' \in [Cpus -> 0 .. Width - 1] /\ tsc'[v] = (tsc[v] + 1) % Width
         /\ \A u \in Cpus : u # v => tsc'[u] = tsc[u]
<1> DEFINE z == (tsc[v] + 1) % Width
<1>1. z \in 0 .. Width - 1
  <2>1. tsc[v] + 1 \in Int
    BY DEF Width
  <2> QED
    BY <2>1, SMTT(30) DEF Width
<1>2. tsc' = [tsc EXCEPT ![v] = z]
  BY DEF Tick
<1> HIDE DEF z
<1>3. tsc' \in [Cpus -> 0 .. Width - 1] /\ tsc'[v] = z /\ \A u \in Cpus : u # v => tsc'[u] = tsc[u]
  BY <1>1, <1>2
<1> QED
  BY <1>3 DEF z

\* A report touches no register.
LEMMA ReportKeepsInv ==
  ASSUME NEW t \in Tasks, VcpusInv, Report(t)
  PROVE  VcpusInv'
<1> DEFINE v == cpu[t] k == pc[t] - Before(cmd[t])
<1>1. /\ At(t, "report") /\ Step(t)
      /\ UNCHANGED <<local, irq, bracket, tsc, adjust, aux, crashed, hits, written>>
  BY DEF Report
<1>2. DeviceTypes /\ AuxKept /\ v \in Cpus
  BY DEF VcpusInv, DeviceTypes
<1>3. EffectOf(t, "report")
  BY <1>1, Primes DEF EffectOf, Effect
<1>4. NextTypes
  BY <1>1, <1>2 DEF NextTypes, DeviceTypes
<1>5. \A u \in Cpus : u # v => Kept(u)
  BY <1>1, Primes DEF Kept
<1>6. Wrote(v)' = 0 => aux'[v] = v
  BY <1>1, <1>2, Primes DEF AuxKept
<1>7. k \in {2, 7, 8, 11, 16} /\ Adj(cmd[t])
  BY <1>1, Placed DEF VcpusInv, Place
<1>8. /\ Measured(k, local[t], Wrote(v), tsc[v], adjust[v], 3 * hits)
      /\ cmd[t] = "TSC_ADJUST" => Undisturbed(k, local[t], tsc[v], adjust[v])
  BY <1>1, <1>7, Here, Zenon
<1>9. Wrote(v)' = Wrote(v) /\ local'[t] = local[t] /\ tsc'[v] = tsc[v] /\ adjust'[v] = adjust[v]
  BY <1>1, Primes
<1> HIDE DEF v, k
<1>10. /\ Measured(k + 1, local'[t], Wrote(v)', tsc'[v], adjust'[v], 3 * hits)
       /\ cmd[t] = "TSC_ADJUST" => Undisturbed(k + 1, local'[t], tsc'[v], adjust'[v])
  BY <1>7, <1>8, <1>9, ReportKeeps, Zenon
<1>11. \A u \in Tasks : u # t => local'[u] = local[u]
  BY <1>1
<1> QED
  BY <1>1, <1>3, <1>4, <1>5, <1>6, <1>10, <1>11, Access, Zenon DEF v, k

\* An access that reads a register into a local variable.
LEMMA ReadKeeps ==
  ASSUME NEW t \in Tasks, NEW op \in {"rdtsc", "read_adjust"}, NEW x \in 0 .. Width - 1,
         VcpusInv, At(t, op), ReadInto(t, x),
         Adj(cmd[t]) =>
           /\ Measured(pc[t] - Before(cmd[t]) + 1, [local[t] EXCEPT ![Arg(t)] = x],
                       Wrote(cpu[t]), (tsc[cpu[t]] + 1) % Width, adjust[cpu[t]], 3 * hits)
           /\ cmd[t] = "TSC_ADJUST" =>
                Undisturbed(pc[t] - Before(cmd[t]) + 1, [local[t] EXCEPT ![Arg(t)] = x],
                            (tsc[cpu[t]] + 1) % Width, adjust[cpu[t]])
  PROVE  VcpusInv'
<1> DEFINE v == cpu[t] k == pc[t] - Before(cmd[t]) m == [local[t] EXCEPT ![Arg(t)] = x]
           y == (tsc[v] + 1) % Width
<1>1. /\ Step(t) /\ Tick(v, 1) /\ local' = [local EXCEPT ![t] = m]
      /\ UNCHANGED <<irq, bracket, adjust, aux, crashed, hits, written>>
  BY DEF ReadInto
<1>2. DeviceTypes /\ AuxKept /\ v \in Cpus /\ local[t] \in [Locals -> 0 .. Width - 1]
  BY DEF VcpusInv, DeviceTypes
<1>3. m \in [Locals -> 0 .. Width - 1]
  BY <1>2
<1>4. EffectOf(t, op)
  BY <1>1, Primes DEF EffectOf, Effect
<1>5. /\ tsc' \in [Cpus -> 0 .. Width - 1] /\ tsc'[v] = y
      /\ \A u \in Cpus : u # v => tsc'[u] = tsc[u]
  BY <1>1, <1>2, TickKeeps DEF DeviceTypes
<1> HIDE DEF m, y
<1>6. /\ local' \in [Tasks -> [Locals -> 0 .. Width - 1]] /\ local'[t] = m
      /\ \A u \in Tasks : u # t => local'[u] = local[u]
  BY <1>1, <1>2, <1>3 DEF DeviceTypes
<1>7. NextTypes
  BY <1>1, <1>2, <1>5, <1>6 DEF NextTypes, DeviceTypes
<1>8. \A u \in Cpus : u # v => Kept(u)
  BY <1>1, <1>5, Primes DEF Kept
<1>9. Wrote(v)' = 0 => aux'[v] = v
  BY <1>1, <1>2, Primes DEF AuxKept
<1>10. Wrote(v)' = Wrote(v) /\ adjust'[v] = adjust[v]
  BY <1>1, Primes
<1> HIDE DEF v, k
<1>11. Adj(cmd[t]) =>
         /\ Measured(k + 1, local'[t], Wrote(v)', tsc'[v], adjust'[v], 3 * hits)
         /\ cmd[t] = "TSC_ADJUST" => Undisturbed(k + 1, local'[t], tsc'[v], adjust'[v])
  BY <1>5, <1>6, <1>10, Zenon DEF v, k, m, y
<1> QED
  BY <1>1, <1>4, <1>6, <1>7, <1>8, <1>9, <1>11, Access, Zenon DEF v, k

\* rdtsc.
LEMMA ReadTscKeeps ==
  ASSUME NEW t \in Tasks, VcpusInv, ReadTsc(t)
  PROVE  VcpusInv'
<1> DEFINE v == cpu[t] c == cmd[t] k == pc[t] - Before(c) a == Arg(t) l == local[t] w == Wrote(v)
           y == tsc[v] x == adjust[v] n == 3 * hits
           m == [l EXCEPT ![a] = (y + x) % Width] z == (y + 1) % Width
<1>1. At(t, "rdtsc") /\ ReadInto(t, Counter(v))
  BY DEF ReadTsc
<1>2. Adj(c) => (k \in {3, 12} /\ a = "t1") \/ (k \in {5, 14} /\ a = "t2")
  BY <1>1, Placed DEF VcpusInv, Place
<1>3. /\ l \in [Locals -> 0 .. Width - 1] /\ w \in {0, 1} /\ y \in 0 .. Width - 1
      /\ x \in 0 .. Width - 1 /\ n \in Nat /\ k \in Int
  BY <1>1, Here
<1>4. Adj(c) => /\ Measured(k, l, w, y, x, n)
                /\ c = "TSC_ADJUST" => Undisturbed(k, l, y, x)
                /\ w = 0 => k \in 5 .. 9 \/ x = 0
  BY <1>1, Here, Zenon
<1>5. Counter(v) = (y + x) % Width /\ Counter(v) \in 0 .. Width - 1
  <2>1. Counter(v) = (y + x) % Width
    BY DEF Counter
  <2> HIDE DEF x, y
  <2>2. (y + x) % Width \in 0 .. Width - 1
    BY <1>3 DEF Width
  <2> QED
    BY <2>1, <2>2
<1>6. m = [l EXCEPT ![a] = (y + x) % Width] /\ z = (y + 1) % Width
  OBVIOUS
<1> HIDE DEF v, c, k, a, l, w, y, x, n, m, z
<1>7. Adj(c) => /\ Measured(k + 1, m, w, z, x, n)
                /\ c = "TSC_ADJUST" => Undisturbed(k + 1, m, z, x)
  BY <1>2, <1>3, <1>4, <1>6, ReadsMeasure, ZenonT(40)
<1>8. m = [l EXCEPT ![a] = Counter(v)]
  BY <1>5, <1>6
<1>9. Adj(c) => /\ Measured(k + 1, [l EXCEPT ![a] = Counter(v)], w, z, x, n)
                /\ c = "TSC_ADJUST" => Undisturbed(k + 1, [l EXCEPT ![a] = Counter(v)], z, x)
  BY <1>7, <1>8, Zenon
<1> QED
  BY <1>1, <1>5, <1>9, ReadKeeps, Zenon DEF v, c, k, a, l, w, y, x, n, z

\* rdmsr of IA32_TSC_ADJUST.
LEMMA ReadAdjustKeeps ==
  ASSUME NEW t \in Tasks, VcpusInv, ReadAdjust(t)
  PROVE  VcpusInv'
<1> DEFINE v == cpu[t] c == cmd[t] k == pc[t] - Before(c) a == Arg(t) l == local[t] w == Wrote(v)
           y == tsc[v] x == adjust[v] n == 3 * hits
           m == [l EXCEPT ![a] = x] z == (y + 1) % Width
<1>1. At(t, "read_adjust") /\ ReadInto(t, x)
  BY DEF ReadAdjust
<1>2. Adj(c) => (k = 1 /\ a = "p") \/ (k \in {6, 10} /\ a = "t3") \/ (k = 15 /\ a = "t5")
  BY <1>1, Placed DEF VcpusInv, Place
<1>3. /\ l \in [Locals -> 0 .. Width - 1] /\ w \in {0, 1} /\ y \in 0 .. Width - 1
      /\ x \in 0 .. Width - 1 /\ n \in Nat /\ k \in Int
  BY <1>1, Here
<1>4. Adj(c) => /\ Measured(k, l, w, y, x, n)
                /\ c = "TSC_ADJUST" => Undisturbed(k, l, y, x)
                /\ w = 0 => k \in 5 .. 9 \/ x = 0
  BY <1>1, Here, Zenon
<1>5. m = [l EXCEPT ![a] = x]
  OBVIOUS
<1> HIDE DEF v, c, k, a, l, w, y, x, n, m, z
<1>6. Adj(c) => /\ Measured(k + 1, m, w, z, x, n)
                /\ c = "TSC_ADJUST" => Undisturbed(k + 1, m, z, x)
  BY <1>2, <1>3, <1>4, <1>5, ReadsAdjust
<1> QED
  BY <1>1, <1>3, <1>6, ReadKeeps, Zenon DEF v, c, k, a, l, w, y, x, n, m, z

\* wrmsr of IA32_TSC_ADJUST moves the counter by what it adds.
LEMMA WriteAdjustKeeps ==
  ASSUME NEW t \in Tasks, VcpusInv, WriteAdjust(t)
  PROVE  VcpusInv'
<1> DEFINE v == cpu[t] c == cmd[t] k == pc[t] - Before(c) a == Arg(t) l == local[t] w == Wrote(v)
           y == tsc[v] x == adjust[v] n == 3 * hits z == (y + 1) % Width
<1>1. /\ At(t, "write_adjust") /\ Step(t) /\ Tick(v, 1) /\ adjust' = [adjust EXCEPT ![v] = a]
      /\ UNCHANGED <<local, irq, bracket, aux, crashed, hits, written>>
  BY DEF WriteAdjust
<1>2. (k = 4 /\ a = Big) \/ (k = 9 /\ a = 0)
  BY <1>1, Placed DEF VcpusInv, Place
<1>3. Adj(c)
  BY <1>1, Placed DEF VcpusInv, Place
<1>4. /\ l \in [Locals -> 0 .. Width - 1] /\ w \in {0, 1} /\ y \in 0 .. Width - 1
      /\ n \in Nat /\ k \in Int /\ Measured(k, l, w, y, x, n)
  BY <1>1, <1>3, Here
<1>5. DeviceTypes /\ AuxKept /\ v \in Cpus /\ a \in 0 .. Width - 1
  BY <1>2 DEF VcpusInv, DeviceTypes, Big, Width
<1>6. /\ tsc' \in [Cpus -> 0 .. Width - 1] /\ tsc'[v] = z
      /\ \A u \in Cpus : u # v => tsc'[u] = tsc[u]
  BY <1>1, <1>5, TickKeeps DEF DeviceTypes
<1>7. z = (y + 1) % Width
  OBVIOUS
<1> HIDE DEF a
<1>8. /\ adjust' \in [Cpus -> 0 .. Width - 1] /\ adjust'[v] = a
      /\ \A u \in Cpus : u # v => adjust'[u] = adjust[u]
  BY <1>1, <1>5 DEF DeviceTypes
<1>9. EffectOf(t, "write_adjust")
  BY <1>1, <1>8, Primes DEF EffectOf, Effect, a
<1>10. NextTypes
  BY <1>1, <1>5, <1>6, <1>8 DEF NextTypes, DeviceTypes
<1>11. \A u \in Cpus : u # v => Kept(u)
  BY <1>1, <1>6, <1>8, Primes DEF Kept
<1>12. Wrote(v)' = 0 => aux'[v] = v
  BY <1>1, <1>5, Primes DEF AuxKept
<1>13. Wrote(v)' = w /\ local'[t] = l /\ \A u \in Tasks : local'[u] = local[u]
  BY <1>1, Primes
<1> HIDE DEF v, c, k, l, w, y, x, n, z
<1>14. Measured(k + 1, l, w, z, a, n) /\ Undisturbed(k + 1, l, z, a)
  BY <1>2, <1>4, <1>7, WritesAdjust
<1>15. /\ Measured(k + 1, local'[t], Wrote(v)', tsc'[v], adjust'[v], n)
       /\ Undisturbed(k + 1, local'[t], tsc'[v], adjust'[v])
  BY <1>6, <1>8, <1>13, <1>14, Zenon
<1> QED
  BY <1>1, <1>9, <1>10, <1>11, <1>12, <1>13, <1>15, Access, Zenon DEF v, c, k, n

\* wrmsr of the counter moves IA32_TSC_ADJUST by the same difference.
LEMMA WriteTscKeeps ==
  ASSUME NEW t \in Tasks, VcpusInv, WriteTsc(t)
  PROVE  VcpusInv'
<1> DEFINE v == cpu[t] c == cmd[t] k == pc[t] - Before(c) a == Arg(t) l == local[t] w == Wrote(v)
           y == tsc[v] x0 == adjust[v] n == 3 * hits z == (y + 1) % Width x == Minus(a, y)
<1>1. /\ At(t, "write_tsc") /\ Step(t) /\ Tick(v, 1) /\ adjust' = [adjust EXCEPT ![v] = x]
      /\ written' = written \union {v}
      /\ UNCHANGED <<local, irq, bracket, aux, crashed, hits>>
  BY DEF WriteTsc
<1>2. a \in {0, Big}
  BY <1>1, Placed DEF VcpusInv, Place
<1>3. Adj(c) => k = 13 /\ a = Big
  BY <1>1, Placed DEF VcpusInv, Place, Adj, Adjusting
<1>4. /\ l \in [Locals -> 0 .. Width - 1] /\ y \in 0 .. Width - 1
      /\ Adj(c) /\ c = "TSC_ADJUST" => Undisturbed(k, l, y, x0)
  BY <1>1, Here, Zenon
<1>5. DeviceTypes /\ AuxKept /\ v \in Cpus
  BY DEF VcpusInv, DeviceTypes
<1>6. x \in 0 .. Width - 1
  <2> HIDE DEF a, y
  <2>1. a \in Int
    BY <1>2 DEF Big
  <2>2. y \in Int
    BY <1>4 DEF Width
  <2>3. (a - y) % Width \in 0 .. Width - 1
    BY <2>1, <2>2 DEF Width
  <2> QED
    BY <2>3, Zenon DEF Minus
<1>7. /\ tsc' \in [Cpus -> 0 .. Width - 1] /\ tsc'[v] = z
      /\ \A u \in Cpus : u # v => tsc'[u] = tsc[u]
  BY <1>1, <1>5, TickKeeps DEF DeviceTypes
<1>8. z = (y + 1) % Width /\ x = Minus(a, y)
  OBVIOUS
<1> HIDE DEF a, x
<1>9. /\ adjust' \in [Cpus -> 0 .. Width - 1] /\ adjust'[v] = x
      /\ \A u \in Cpus : u # v => adjust'[u] = adjust[u]
  BY <1>1, <1>5, <1>6 DEF DeviceTypes
<1>10. /\ Wrote(v)' = 1 /\ On(v)' = On(v)
       /\ \A u \in Cpus : u # v => On(u)' = On(u) /\ Wrote(u)' = Wrote(u)
  <2>1. \A u \in Cpus : u # v => (u \in written' <=> u \in written)
    BY <1>1
  <2>2. v \in written'
    BY <1>1
  <2>3. \A u \in Cpus : u # v => Wrote(u)' = Wrote(u)
    BY <2>1, Zenon DEF Wrote
  <2> QED
    BY <1>1, <2>2, <2>3, Primes
<1>11. EffectOf(t, "write_tsc")
  BY <1>1, <1>10 DEF EffectOf, Effect
<1>12. NextTypes
  BY <1>1, <1>5, <1>7, <1>9 DEF NextTypes, DeviceTypes
<1>13. \A u \in Cpus : u # v => Kept(u)
  BY <1>1, <1>7, <1>9, <1>10 DEF Kept
<1>14. local'[t] = l /\ \A u \in Tasks : local'[u] = local[u]
  BY <1>1
<1>15. 1 # 0
  OBVIOUS
<1> HIDE DEF v, c, k, l, w, y, x0, n, z
<1>16. Adj(c) => /\ Measured(14, l, Wrote(v)', z, x, n)
                 /\ Undisturbed(13, l, y, x0) => Undisturbed(14, l, z, x)
  BY <1>3, <1>4, <1>8, WriteMeasures
<1>17. Adj(c) => k + 1 = 14
  BY <1>3
<1>18. Adj(c) =>
         /\ Measured(k + 1, local'[t], Wrote(v)', tsc'[v], adjust'[v], n)
         /\ c = "TSC_ADJUST" => Undisturbed(k + 1, local'[t], tsc'[v], adjust'[v])
  BY <1>3, <1>4, <1>7, <1>9, <1>14, <1>16, <1>17, Zenon
<1> QED
  BY <1>1, <1>10, <1>11, <1>12, <1>13, <1>14, <1>15, <1>18, Access, Zenon DEF v, c, k, n

-----------------------------------------------------------------------------
(***************************************************************************)
(* The other steps, the initial state, and the theorems.                   *)
(***************************************************************************)
\* A step that leaves the vCPUs as they are: for every task in an ioctl that was in
\* it before, for every vCPU without one.
LEMMA CdevStepKeeps ==
  ASSUME VcpusInv, UNCHANGED <<ioctlVars, irq, bracket, tsc, adjust, aux, crashed, hits, written>>,
         \A t \in Tasks : InIoctl(t)' <=> InIoctl(t)
  PROVE  VcpusInv'
<1> USE DEF VcpusInv
<1>1. /\ UNCHANGED <<cmd, cpu, pc, local, ioctls>>
      /\ UNCHANGED <<irq, bracket, tsc, adjust, aux, crashed, hits, written>>
  BY DEF ioctlVars
<1>2. DeviceTypes'
  BY <1>1 DEF DeviceTypes, Last, Code
<1>3. Apart'
  BY <1>1 DEF Apart
<1>4. \A v : On(v)' = On(v) /\ Wrote(v)' = Wrote(v)
  BY <1>1, Zenon DEF On, Wrote
<1>5. \A v \in Cpus : Busy(v)' <=> Busy(v)
  BY <1>1 DEF Busy, InIoctl
<1>6. Idle' /\ AuxKept'
  BY <1>1, <1>4, <1>5 DEF Idle, AuxKept
<1>7. TaskInv'
  <2> SUFFICES ASSUME NEW u \in Tasks PROVE (VcpuInv(u) /\ AdjustInv(u))'
    BY DEF TaskInv
  <2>1. VcpuInv(u) /\ AdjustInv(u)
    BY DEF TaskInv
  <2>2. Kept(cpu[u]) /\ (InIoctl(u)' => InIoctl(u))
    <3>1. \A v : Kept(v)
      BY <1>1, <1>4, Zenon DEF Kept
    <3> QED
      BY <3>1
  <2>3. cmd'[u] = cmd[u] /\ pc'[u] = pc[u] /\ cpu'[u] = cpu[u] /\ local'[u] = local[u] /\ hits' = hits
    BY <1>1
  <2> QED
    BY <2>1, <2>2, <2>3, Undisturbing, Zenon
<1> QED
  BY <1>2, <1>3, <1>6, <1>7

\* An ioctl that begins, on a vCPU that has none.
LEMMA IoctlBegins ==
  ASSUME NEW t \in Tasks, NEW c \in Commands, NEW k \in Cpus, CdevInv, VcpusInv,
         pcm_cdev_ioctl(t, c, k)
  PROVE  VcpusInv'
<1> USE DEF VcpusInv
<1>1. /\ ioctls < Ioctls /\ ~Busy(k) /\ task[t] = "opened" /\ task' = [task EXCEPT ![t] = "ioctl"]
      /\ cpu' = [cpu EXCEPT ![t] = k] /\ cmd' = [cmd EXCEPT ![t] = c]
      /\ pc' = [pc EXCEPT ![t] = 1] /\ ioctls' = ioctls + 1
      /\ UNCHANGED <<local, irq, bracket, tsc, adjust, aux, crashed, hits, written>>
  BY DEF pcm_cdev_ioctl, EnterIoctl, Move, timeVars
<1>2. task \in [Tasks -> {"out", "path", "opened", "ioctl"}]
  BY DEF CdevInv, CdevTypeOK
<1>3. /\ task'[t] = "ioctl" /\ cpu'[t] = k /\ cmd'[t] = c /\ pc'[t] = 1
      /\ \A u \in Tasks : u # t =>
           task'[u] = task[u] /\ cpu'[u] = cpu[u] /\ cmd'[u] = cmd[u] /\ pc'[u] = pc[u]
  BY <1>1, <1>2 DEF DeviceTypes
<1>4. c \in Issued /\ Len(Scripts[c]) \in Nat
  BY LastType DEF Issued
<1>5. DeviceTypes'
  <2>1. /\ cmd' \in [Tasks -> Commands \union {"unknown"}] /\ cpu' \in [Tasks -> Cpus]
        /\ pc' \in [Tasks -> Nat \ {0}]
    BY <1>1 DEF DeviceTypes
  <2>2. \A u \in Tasks : pc'[u] <= Last(u)' + 1
    <3> SUFFICES ASSUME NEW u \in Tasks PROVE pc'[u] <= Last(u)' + 1
      OBVIOUS
    <3>1. Last(u)' = Len(Scripts[cmd'[u]])
      BY Zenon DEF Last, Code
    <3>2. CASE u = t
      BY <1>3, <1>4, <3>1, <3>2
    <3>3. CASE u # t
      BY <1>3, <3>1, <3>3 DEF DeviceTypes, Last, Code
    <3> QED
      BY <3>2, <3>3
  <2>3. ioctls' \in 0 .. Ioctls
    BY <1>1, PcmAssumption DEF DeviceTypes
  <2> QED
    BY <1>1, <2>1, <2>2, <2>3 DEF DeviceTypes
<1>6. Apart'
  <2> SUFFICES ASSUME NEW u \in Tasks, NEW s \in Tasks, InIoctl(u)', InIoctl(s)', u # s
               PROVE  cpu'[u] # cpu'[s]
    BY DEF Apart
  <2>1. CASE u # t /\ s # t
    BY <1>3, <2>1 DEF Apart, InIoctl
  <2>2. CASE u = t \/ s = t
    BY <1>1, <1>3, <2>2 DEF Busy, InIoctl
  <2> QED
    BY <2>1, <2>2
<1>7. \A v : On(v)' = On(v) /\ Wrote(v)' = Wrote(v)
  BY <1>1, Zenon DEF On, Wrote
<1>8. \A v \in Cpus : Busy(v) => Busy(v)'
  <2> SUFFICES ASSUME NEW v \in Cpus, NEW u \in Tasks, task[u] = "ioctl", cpu[u] = v
               PROVE  Busy(v)'
    BY DEF Busy
  <2>1. u # t
    BY <1>1
  <2> QED
    BY <1>3, <2>1 DEF Busy
<1>9. Idle' /\ AuxKept'
  BY <1>1, <1>7, <1>8 DEF Idle, AuxKept
<1>10. TaskInv'
  <2> SUFFICES ASSUME NEW u \in Tasks PROVE (VcpuInv(u) /\ AdjustInv(u))'
    BY DEF TaskInv
  <2>1. CASE u # t
    <3>1. VcpuInv(u) /\ AdjustInv(u)
      BY DEF TaskInv
    <3>2. \A v : Kept(v)
      BY <1>1, <1>7, Zenon DEF Kept
    <3>3. InIoctl(u)' => InIoctl(u)
      BY <1>3, <2>1 DEF InIoctl
    <3>4. cmd'[u] = cmd[u] /\ pc'[u] = pc[u] /\ cpu'[u] = cpu[u] /\ local'[u] = local[u] /\ hits' = hits
      BY <1>1, <1>3, <2>1
    <3> QED
      BY <3>1, <3>2, <3>3, <3>4, Undisturbing, Zenon
  <2>2. CASE u = t
    <3> DEFINE l == Last(t)' b == Before(c)
    <3>1. l \in Nat /\ (c = "TSC_ADJUST" => l >= 4) /\ cmd'[t] = c /\ pc'[t] = 1 /\ cpu'[t] = k
      <4>1. l = Len(Scripts[c])
        BY <1>3, Zenon DEF Last, Code
      <4>2. c = "TSC_ADJUST" => c \notin Rejected
        BY DEF Rejected
      <4> QED
        BY <1>3, <1>4, <4>1, <4>2, ScriptLengths DEF Lengths
    <3>2. On(k) = 1 /\ bracket[k] = 0 /\ (Wrote(k) = 0 => adjust[k] = 0)
      BY <1>1 DEF Idle
    <3>3. On(cpu[t])' = On(k) /\ Wrote(cpu[t])' = Wrote(k) /\ bracket'[k] = bracket[k]
          /\ adjust'[k] = adjust[k]
      <4>1. On(cpu[t])' = On(k)' /\ Wrote(cpu[t])' = Wrote(k)'
        BY <3>1, Zenon DEF On, Wrote
      <4> QED
        BY <1>1, <1>7, <4>1
    <3> HIDE DEF l, b
    <3>4. Vcpu(c, 1, l, b, On(k), bracket[k], Wrote(k), adjust[k])
      BY <3>1, <3>2 DEF Vcpu
    <3>5. VcpuInv(t)'
      BY <3>1, <3>3, <3>4, Zenon DEF VcpuInv, l, b
    <3>6. Adj(c) => 1 - b \in Int /\ 1 - b \notin 2 .. 16
      <4> SUFFICES ASSUME Adj(c) PROVE 1 - b \in Int /\ 1 - b \notin 2 .. 16
        OBVIOUS
      <4>1. c \in Issued \ Rejected /\ c \in Adjusting
        BY <1>4 DEF Adj, Adjusting, Rejected
      <4>2. Lengths(c, Len(Scripts[c]), b)
        BY <4>1, ScriptLengths DEF b
      <4>3. b >= 2 /\ b \in Nat
        BY <4>1, <4>2 DEF Lengths
      <4> QED
        BY <4>3
    <3>7. AdjustInv(t)'
      <4>1. Adj(c) => \A ll, w, y, x, n :
              Measured(1 - b, ll, w, y, x, n) /\ Undisturbed(1 - b, ll, y, x)
        BY <3>6, Outside
      <4> QED
        BY <3>1, <4>1, Zenon DEF AdjustInv, b
    <3> QED
      BY <2>2, <3>5, <3>7
  <2> QED
    BY <2>1, <2>2
<1> QED
  BY <1>5, <1>6, <1>9, <1>10

\* An ioctl that returns leaves its vCPU as Idle says.
LEMMA IoctlEnds ==
  ASSUME NEW t \in Tasks, CdevInv, VcpusInv, InIoctl(t), IoctlReturns(t)
  PROVE  VcpusInv'
<1> USE DEF VcpusInv
<1>1. /\ pc[t] > Last(t) /\ task' = [task EXCEPT ![t] = "opened"]
      /\ cpu' = [cpu EXCEPT ![t] = 0] /\ cmd' = [cmd EXCEPT ![t] = "unknown"]
      /\ pc' = [pc EXCEPT ![t] = 1] /\ local' = [local EXCEPT ![t] = NoLocals]
      /\ UNCHANGED <<ioctls, irq, bracket, tsc, adjust, aux, crashed, hits, written>>
  BY DEF IoctlReturns, LeaveIoctl, Move, timeVars, Last
<1>2. task \in [Tasks -> {"out", "path", "opened", "ioctl"}]
  BY DEF CdevInv, CdevTypeOK
<1>3. /\ task'[t] = "opened" /\ cmd'[t] = "unknown" /\ pc'[t] = 1
      /\ \A u \in Tasks : u # t =>
           /\ task'[u] = task[u] /\ cpu'[u] = cpu[u] /\ cmd'[u] = cmd[u] /\ pc'[u] = pc[u]
           /\ local'[u] = local[u]
  BY <1>1, <1>2 DEF DeviceTypes
<1>4. "unknown" \in Issued /\ Len(Scripts["unknown"]) \in Nat
  BY LastType DEF Issued
<1>5. cmd[t] \in Issued /\ Last(t) \in Nat
  BY LastType DEF Issued, Last, Code, DeviceTypes
<1>6. DeviceTypes'
  <2>1. NoLocals \in [Locals -> 0 .. Width - 1]
    BY DEF NoLocals, Width
  <2>2. 0 \in Cpus
    BY PcmAssumption
  <2>3. /\ cmd' \in [Tasks -> Commands \union {"unknown"}] /\ cpu' \in [Tasks -> Cpus]
        /\ pc' \in [Tasks -> Nat \ {0}] /\ local' \in [Tasks -> [Locals -> 0 .. Width - 1]]
    <3> HIDE DEF NoLocals, Locals
    <3> QED
      BY <1>1, <2>1, <2>2 DEF DeviceTypes
  <2>4. \A u \in Tasks : pc'[u] <= Last(u)' + 1
    <3> SUFFICES ASSUME NEW u \in Tasks PROVE pc'[u] <= Last(u)' + 1
      OBVIOUS
    <3>1. Last(u)' = Len(Scripts[cmd'[u]])
      BY Zenon DEF Last, Code
    <3>2. CASE u = t
      BY <1>3, <1>4, <3>1, <3>2
    <3>3. CASE u # t
      BY <1>3, <3>1, <3>3 DEF DeviceTypes, Last, Code
    <3> QED
      BY <3>2, <3>3
  <2> QED
    BY <1>1, <2>3, <2>4 DEF DeviceTypes
<1>7. Apart'
  BY <1>3 DEF Apart, InIoctl
<1>8. \A v : On(v)' = On(v) /\ Wrote(v)' = Wrote(v)
  BY <1>1, Zenon DEF On, Wrote
<1>9. On(cpu[t]) = 1 /\ bracket[cpu[t]] = 0 /\ (Wrote(cpu[t]) = 0 => adjust[cpu[t]] = 0)
  <2> DEFINE c == cmd[t] p == pc[t] l == Last(t) b == Before(c) q == On(cpu[t])
             k == bracket[cpu[t]] w == Wrote(cpu[t]) x == adjust[cpu[t]]
  <2>1. Vcpu(c, p, l, b, q, k, w, x)
    BY Zenon DEF TaskInv, VcpuInv
  <2>2. l \in Nat /\ p = l + 1
    BY <1>1, <1>5 DEF DeviceTypes
  <2>3. Adj(c) => b \in Nat /\ l = b + 18
    <3> SUFFICES ASSUME Adj(c) PROVE b \in Nat /\ l = b + 18
      OBVIOUS
    <3>1. c \in Issued \ Rejected /\ c \in Adjusting /\ HasTscAdjust
      BY <1>5 DEF Adj, Adjusting, Rejected
    <3>2. Lengths(c, l, b)
      BY <3>1, ScriptLengths DEF Last, Code
    <3> QED
      BY <3>1, <3>2 DEF Lengths
  <2> HIDE DEF c, p, l, b, q, k, w, x
  <2>4. q = 1 /\ k = 0
    BY <2>1, <2>2 DEF Vcpu
  <2>5. w = 0 => x = 0
    BY <2>1, <2>2, <2>3 DEF Vcpu
  <2> QED
    BY <2>4, <2>5, Zenon DEF q, k, w, x
<1>10. Idle' /\ AuxKept'
  <2>1. AuxKept'
    BY <1>1, <1>8 DEF AuxKept
  <2>2. Idle'
    <3> SUFFICES ASSUME NEW v \in Cpus, ~Busy(v)'
                 PROVE  On(v) = 1 /\ bracket[v] = 0 /\ (Wrote(v) = 0 => adjust[v] = 0)
      BY <1>1, <1>8 DEF Idle
    <3>1. CASE v = cpu[t]
      BY <1>9, <3>1, Zenon
    <3>2. CASE v # cpu[t]
      <4>1. ~Busy(v)
        BY <1>3, <3>2 DEF Busy
      <4> QED
        BY <4>1, Zenon DEF Idle
    <3> QED
      BY <3>1, <3>2
  <2> QED
    BY <2>1, <2>2
<1>11. TaskInv'
  <2> SUFFICES ASSUME NEW u \in Tasks PROVE (VcpuInv(u) /\ AdjustInv(u))'
    BY DEF TaskInv
  <2>1. CASE u # t
    <3>1. VcpuInv(u) /\ AdjustInv(u)
      BY DEF TaskInv
    <3>2. \A v : Kept(v)
      BY <1>1, <1>8, Zenon DEF Kept
    <3>3. InIoctl(u)' => InIoctl(u)
      BY <1>3, <2>1 DEF InIoctl
    <3>4. cmd'[u] = cmd[u] /\ pc'[u] = pc[u] /\ cpu'[u] = cpu[u] /\ local'[u] = local[u] /\ hits' = hits
      BY <1>1, <1>3, <2>1
    <3> QED
      BY <3>1, <3>2, <3>3, <3>4, Undisturbing, Zenon
  <2>2. CASE u = t
    <3>1. ~InIoctl(t)'
      BY <1>3 DEF InIoctl
    <3> QED
      BY <2>2, <3>1, Zenon DEF VcpuInv, AdjustInv
  <2> QED
    BY <2>1, <2>2
<1> QED
  BY <1>6, <1>7, <1>10, <1>11

\* An interrupt: not in a TSC_ADJUST that has disabled them.
LEMMA HitKeeps ==
  ASSUME NEW c \in Cpus, VcpusInv, Interrupt(c)
  PROVE  VcpusInv'
<1> USE DEF VcpusInv
<1>1. /\ irq[c] /\ hits < Interrupts /\ hits' = hits + 1
      /\ tsc' = [tsc EXCEPT ![c] = (@ + 3) % Width]
      /\ UNCHANGED <<task, cmd, cpu, pc, local, ioctls, irq, bracket, adjust, aux, crashed, written>>
  BY DEF Interrupt, Tick, cdevVars, ioctlVars
<1>2. DeviceTypes
  OBVIOUS
<1>3. /\ tsc' \in [Cpus -> 0 .. Width - 1] /\ tsc'[c] = (tsc[c] + 3) % Width
      /\ \A u \in Cpus : u # c => tsc'[u] = tsc[u]
  <2> DEFINE z == (tsc[c] + 3) % Width
  <2>1. z \in 0 .. Width - 1
    <3>1. tsc[c] \in 0 .. Width - 1
      BY <1>2 DEF DeviceTypes
    <3>2. tsc[c] + 3 \in Int
      BY <3>1, Numbers
    <3> QED
      BY <3>2 DEF Width
  <2>2. tsc' = [tsc EXCEPT ![c] = z]
    BY <1>1
  <2> HIDE DEF z
  <2>3. tsc' \in [Cpus -> 0 .. Width - 1] /\ tsc'[c] = z /\ \A u \in Cpus : u # c => tsc'[u] = tsc[u]
    BY <1>2, <2>1, <2>2 DEF DeviceTypes
  <2> QED
    BY <2>3 DEF z
<1>4. hits' \in 0 .. Interrupts /\ 3 * hits \in Nat /\ 3 * hits' = 3 * hits + 3
  BY <1>1, <1>2, PcmAssumption DEF DeviceTypes
<1>5. DeviceTypes'
  BY <1>1, <1>2, <1>3, <1>4 DEF DeviceTypes, Last, Code
<1>6. Apart'
  BY <1>1 DEF Apart, InIoctl
<1>7. \A v : On(v)' = On(v) /\ Wrote(v)' = Wrote(v)
  BY <1>1, Zenon DEF On, Wrote
<1>8. \A v \in Cpus : Busy(v)' <=> Busy(v)
  BY <1>1 DEF Busy
<1>9. Idle' /\ AuxKept'
  BY <1>1, <1>7, <1>8 DEF Idle, AuxKept
<1>10. TaskInv'
  <2> SUFFICES ASSUME NEW u \in Tasks, InIoctl(u) PROVE (VcpuInv(u) /\ AdjustInv(u))'
    <3>1. ASSUME NEW u \in Tasks, ~InIoctl(u) PROVE (VcpuInv(u) /\ AdjustInv(u))'
      <4>1. ~InIoctl(u)'
        BY <1>1, <3>1 DEF InIoctl
      <4> QED
        BY <4>1, Zenon DEF VcpuInv, AdjustInv
    <3> QED
      BY <3>1 DEF TaskInv
  <2> DEFINE v == cpu[u] d == cmd[u] k == pc[u] - Before(d) l == local[u] w == Wrote(v)
             y == tsc[v] z == tsc'[v] x == adjust[v] n == 3 * hits
  <2>1. /\ cmd'[u] = d /\ pc'[u] = pc[u] /\ cpu'[u] = v /\ local'[u] = l /\ 3 * hits' = n + 3
        /\ InIoctl(u)' /\ bracket'[v] = bracket[v] /\ adjust'[v] = x
    BY <1>1, <1>4 DEF InIoctl
  <2>2. On(cpu[u])' = On(v) /\ Wrote(cpu[u])' = w /\ Last(u)' = Last(u)
    <3>1. PICK r : r = cpu[u]
      OBVIOUS
    <3>2. On(cpu[u])' = On(r)' /\ Wrote(cpu[u])' = Wrote(r)' /\ Last(u)' = Last(u)
      BY <2>1, <3>1, Zenon DEF On, Wrote, Last, Code
    <3> QED
      BY <1>7, <3>1, <3>2
  <2>3. VcpuInv(u) /\ AdjustInv(u)
    BY DEF TaskInv
  <2>4. VcpuInv(u)'
    BY <2>1, <2>2, <2>3, Zenon DEF VcpuInv
  <2>5. Adj(d) => Measured(k, l, w, y, x, n) /\ (d = "TSC_ADJUST" => Undisturbed(k, l, y, x))
    BY <2>3, Zenon DEF AdjustInv
  <2>6. /\ v \in Cpus /\ l \in [Locals -> 0 .. Width - 1] /\ y \in 0 .. Width - 1
        /\ pc[u] \in Nat /\ pc[u] >= 1 /\ Last(u) \in Nat /\ pc[u] <= Last(u) + 1 /\ d \in Issued
    BY <1>2, LastType DEF DeviceTypes, Issued, Last, Code
  <2>7. z = y \/ (v = c /\ z = (y + 3) % Width)
    BY <1>3, <2>6
  <2>8. Adj(d) => d \in Issued \ Rejected /\ Before(d) \in Nat /\ Before(d) >= 2
                  /\ Last(u) = Before(d) + 18 /\ (d = "TSC_ADJUST" => Before(d) = 2)
    <3> SUFFICES ASSUME Adj(d)
                 PROVE  d \in Issued \ Rejected /\ Before(d) \in Nat /\ Before(d) >= 2
                        /\ Last(u) = Before(d) + 18 /\ (d = "TSC_ADJUST" => Before(d) = 2)
      OBVIOUS
    <3>1. d \in Issued \ Rejected /\ d \in Adjusting /\ HasTscAdjust
      BY <2>6 DEF Adj, Adjusting, Rejected
    <3>2. Lengths(d, Last(u), Before(d))
      BY <3>1, ScriptLengths DEF Last, Code
    <3> QED
      BY <3>1, <3>2 DEF Lengths
  <2>9. Adj(d) /\ d = "TSC_ADJUST" /\ v = c => k \notin 2 .. 16 /\ k \in Int
    <3> SUFFICES ASSUME Adj(d), d = "TSC_ADJUST", v = c PROVE k \notin 2 .. 16 /\ k \in Int
      OBVIOUS
    <3>1. On(v) = 1
      BY <1>1, Zenon DEF On
    <3>2. pc[u] \notin 2 .. Last(u)
      BY <2>3, <3>1 DEF VcpuInv, Vcpu
    <3> QED
      BY <2>6, <2>8, <3>2
  <2>10. Adj(d) => k \in Int
    BY <2>6, <2>8
  <2> HIDE DEF v, d, k, l, w, y, z, x, n
  <2>11. n \in Nat
    BY <1>4 DEF n
  <2>12. Adj(d) => Measured(k, l, w, z, x, n + 3)
    BY <2>5, <2>6, <2>7, <2>10, <2>11, InterruptKeeps
  <2>13. Adj(d) /\ d = "TSC_ADJUST" => Undisturbed(k, l, z, x)
    <3>1. CASE z = y
      BY <2>5, <3>1
    <3>2. CASE v = c
      BY <2>9, <3>2, Outside
    <3> QED
      BY <2>7, <3>1, <3>2
  <2>14. tsc'[cpu'[u]] = z /\ adjust'[cpu'[u]] = x
    BY <2>1, Zenon DEF z
  <2>15. pc'[u] - Before(cmd'[u]) = k
    BY <2>1, Zenon DEF k, d
  <2>16. AdjustInv(u)'
    BY <2>1, <2>2, <2>12, <2>13, <2>14, <2>15, Zenon DEF AdjustInv
  <2> QED
    BY <2>4, <2>16
<1> QED
  BY <1>5, <1>6, <1>9, <1>10

\* Every step keeps the invariant.
LEMMA NextKeeps == DeviceInv /\ [Next]_vars => DeviceInv'
<1> SUFFICES ASSUME DeviceInv, [Next]_vars PROVE DeviceInv'
  OBVIOUS
<1>1. CdevInv /\ VcpusInv /\ task \in [Tasks -> {"out", "path", "opened", "ioctl"}]
  BY DEF DeviceInv, CdevInv, CdevTypeOK
<1>2. CdevInv'
  BY <1>1, StepIsCdevStep, StepKeeps
<1>3. CASE CdevStep
  <2>1. UNCHANGED <<ioctlVars, irq, bracket, tsc, adjust, aux, crashed, hits, written>>
    BY <1>3 DEF CdevStep, timeVars
  <2>2. ASSUME ModuleStep PROVE VcpusInv'
    <3>1. task' = task
      BY <2>2 DEF ModuleStep, insmod, pcm_test_init, InitReturns, rmmod, pcm_cdev_exit
    <3> QED
      BY <1>1, <2>1, <3>1, CdevStepKeeps DEF InIoctl
  <2>3. ASSUME NEW t \in Tasks, FileStep(t) PROVE VcpusInv'
    <3>1. PICK to \in {"out", "path", "opened"} :
            task[t] \in {"out", "path", "opened"} /\ task' = [task EXCEPT ![t] = to]
      BY <2>3 DEF FileStep, FindNode, pcm_cdev_open, pcm_cdev_release, Move
    <3>2. \A u \in Tasks : InIoctl(u)' <=> InIoctl(u)
      <4> SUFFICES ASSUME NEW u \in Tasks PROVE task'[u] = "ioctl" <=> task[u] = "ioctl"
        BY DEF InIoctl
      <4>1. CASE u = t
        BY <1>1, <3>1, <4>1
      <4>2. CASE u # t
        BY <1>1, <3>1, <4>2
      <4> QED
        BY <4>1, <4>2
    <3> QED
      BY <1>1, <2>1, <3>2, CdevStepKeeps
  <2> QED
    BY <1>2, <1>3, <2>2, <2>3 DEF CdevStep, DeviceInv
<1>4. ASSUME NEW t \in Tasks, IoctlStep(t) PROVE VcpusInv'
  <2>1. InIoctl(t)
    BY <1>4 DEF IoctlStep, InIoctl
  <2> QED
    BY <1>1, <1>4, <2>1, FlagKeeps, HypercallKeeps, CallKeeps, ReadTscKeeps, ReadAdjustKeeps,
       WriteAdjustKeeps, WriteTscKeeps, ReportKeepsInv, RdtscpKeeps, MsrKeeps, IoctlEnds
       DEF IoctlStep
<1>5. ASSUME NEW t \in Tasks, NEW c \in Commands, NEW k \in Cpus, pcm_cdev_ioctl(t, c, k)
      PROVE  VcpusInv'
  BY <1>1, <1>5, IoctlBegins
<1>6. ASSUME NEW c \in Cpus, Interrupt(c) PROVE VcpusInv'
  BY <1>1, <1>6, HitKeeps
<1>7. CASE UNCHANGED vars
  <2>1. UNCHANGED <<ioctlVars, irq, bracket, tsc, adjust, aux, crashed, hits, written>> /\ task' = task
    BY <1>7 DEF vars, timeVars, cdevVars
  <2> QED
    BY <1>1, <1>2, <2>1, CdevStepKeeps DEF InIoctl, DeviceInv
<1> QED
  BY <1>2, <1>3, <1>4, <1>5, <1>6, <1>7 DEF Next, DeviceInv

\* At the start no vCPU is in an ioctl, and none was written to.
LEMMA InitHolds == Init => DeviceInv
<1> SUFFICES ASSUME Init PROVE DeviceInv
  OBVIOUS
<1>1. CdevInv /\ task = [t \in Tasks |-> "out"]
  BY InitInv DEF Init, CdevInit
<1>2. "unknown" \in Issued /\ Len(Scripts["unknown"]) \in Nat
  BY LastType DEF Issued
<1>3. DeviceTypes
  <2> DEFINE n == Cardinality(Cpus)
  <2>1. 0 \in Cpus /\ Ioctls \in Nat /\ Interrupts \in Nat /\ Cpus = 0 .. n - 1 /\ n \in Nat
    BY PcmAssumption, FS_CardinalityType
  <2> HIDE DEF n
  <2>2. 0 \in Cpus /\ Ioctls \in Nat /\ Interrupts \in Nat /\ Cpus \subseteq Nat
    BY <2>1
  <2>3. \A t \in Tasks : pc[t] <= Last(t) + 1
    <3> SUFFICES ASSUME NEW t \in Tasks PROVE pc[t] <= Last(t) + 1
      OBVIOUS
    <3>1. pc[t] = 1 /\ Last(t) = Len(Scripts["unknown"])
      BY DEF Init, Last, Code
    <3> QED
      BY <1>2, <3>1
  <2>4. tsc \in [Cpus -> 0 .. Width - 1]
    BY PcmAssumption DEF Init
  <2>5. local \in [Tasks -> [Locals -> 0 .. Width - 1]] /\ adjust \in [Cpus -> 0 .. Width - 1]
    BY DEF Init, NoLocals, Width
  <2>6. /\ cmd \in [Tasks -> Commands \union {"unknown"}] /\ cpu \in [Tasks -> Cpus]
        /\ pc \in [Tasks -> Nat \ {0}] /\ ioctls \in 0 .. Ioctls
        /\ bracket \in [Cpus -> {0, 1}]
        /\ hits \in 0 .. Interrupts /\ written \subseteq Cpus
    BY <2>2 DEF Init
  <2>8. irq \in [Cpus -> BOOLEAN] /\ crashed \in BOOLEAN
    BY DEF Init
  <2>7. aux \in [Cpus -> Nat]
    BY <2>2 DEF Init
  <2> QED
    BY <2>3, <2>4, <2>5, <2>6, <2>7, <2>8 DEF DeviceTypes
<1>4. \A t \in Tasks : ~InIoctl(t)
  BY <1>1 DEF InIoctl
<1>5. Apart /\ TaskInv
  BY <1>4, Zenon DEF Apart, TaskInv, VcpuInv, AdjustInv
<1>6. Idle /\ AuxKept
  BY DEF Init, Idle, AuxKept, On
<1> QED
  BY <1>1, <1>3, <1>5, <1>6 DEF DeviceInv, VcpusInv

\* At every place of every script: the interrupt flag, the bracket and the registers
\* are what the accesses before that place made them.
THEOREM DeviceInvariant == Spec => []DeviceInv
BY InitHolds, NextKeeps, PTL DEF Spec, Safety

\* Every variable holds a value of its type, and the brackets of hypercalls do not
\* nest.
THEOREM DeviceTypeCorrect == Spec => []DeviceTypeOK
<1>1. DeviceInv => DeviceTypeOK
  BY DEF DeviceInv, CdevInv, VcpusInv, DeviceTypes, DeviceTypeOK
<1> QED
  BY <1>1, DeviceInvariant, PTL

\* When no ioctl runs on a vCPU its interrupts are on, the host's bracket is closed,
\* and its registers are as before the first, or a test wrote its counter.
THEOREM VcpuIsRestored == Spec => []VcpuRestored
<1>1. DeviceInv => VcpuRestored
  <2> SUFFICES ASSUME DeviceInv, NEW c \in Cpus, ~Busy(c)
               PROVE  irq[c] /\ bracket[c] = 0 /\ (c \in written \/ (adjust[c] = 0 /\ aux[c] = c))
    BY DEF VcpuRestored
  <2>1. On(c) = 1 /\ bracket[c] = 0 /\ (Wrote(c) = 0 => adjust[c] = 0)
    BY Zenon DEF DeviceInv, VcpusInv, Idle
  <2>2. Wrote(c) = 0 => aux[c] = c
    BY Zenon DEF DeviceInv, VcpusInv, AuxKept
  <2>3. irq[c]
    BY <2>1 DEF On
  <2>4. c \notin written => Wrote(c) = 0
    BY Zenon DEF Wrote
  <2> QED
    BY <2>1, <2>2, <2>3, <2>4, Zenon
<1> QED
  BY <1>1, DeviceInvariant, PTL

-----------------------------------------------------------------------------
(***************************************************************************)
(* What the reports of tsc_adjust.c say.                                   *)
(***************************************************************************)
\* A report that would say FAIL, of a task on a vCPU whose history is w.
Explained(r, c, w) ==
  \/ r \in {"initialization", "adjustment"} /\ w = 1
  \/ r = "tsc_write" /\ c \in {"KVMCLOCK_TEST", "IOAPIC_TEST"}

\* Less than a full turn of the counter lies between two of its reads.
LEMMA HoldsOrExplained ==
  ASSUME NEW c \in Adjusting, NEW k \in Int, NEW r,
         \/ k = 2 /\ r = "initialization"
         \/ k = 7 /\ r = "read_write"
         \/ k = 8 /\ r = "adjustment"
         \/ k = 11 /\ r = "read_write_zero"
         \/ k = 16 /\ r = "tsc_write",
         NEW l \in [Locals -> 0 .. Width - 1], NEW w \in {0, 1}, NEW y, NEW x,
         NEW most \in Nat, Big + 2 + most < Width,
         Measured(k, l, w, y, x, most), c = "TSC_ADJUST" => Undisturbed(k, l, y, x)
  PROVE  Holds(r, l) \/ Explained(r, c, w)
<1>1. CASE k = 2 /\ r = "initialization"
  BY <1>1 DEF Measured, Holds, Explained
<1>2. CASE k = 7 /\ r = "read_write"
  BY <1>2 DEF Measured, Holds
<1>3. CASE k = 8 /\ r = "adjustment"
  <2> SUFFICES ASSUME w = 0 PROVE Minus(l["t2"], l["t1"]) >= l["t3"]
    BY <1>3 DEF Holds, Explained
  <2> DEFINE t == l["t1"]
  <2>1. l["t3"] = Big /\ Ticks(t, l["t2"], Big + 2, Big + 2 + most)
    BY <1>3 DEF Measured
  <2>2. PICK d \in Big + 2 .. Big + 2 + most : l["t2"] = (t + d) % Width
    BY <2>1 DEF Ticks
  <2>3. t \in 0 .. Width - 1
    BY Numbers
  <2> HIDE DEF t
  <2>4. d \in Nat /\ d < Width /\ d >= Big
    BY DEF Big, Width
  <2>5. (((t + d) % Width) - t) % Width = d
    <3>1. CASE t + d < Width
      BY <2>3, <2>4, <3>1 DEF Width
    <3>2. CASE t + d >= Width
      <4>1. (t + d) % Width = t + d - Width
        BY <2>3, <2>4, <3>2 DEF Width
      <4> QED
        BY <2>3, <2>4, <4>1 DEF Width
    <3> QED
      BY <2>3, <2>4, <3>1, <3>2 DEF Width
  <2>6. Minus(l["t2"], t) = d
    BY <2>2, <2>5, Zenon DEF Minus
  <2> QED
    BY <2>1, <2>4, <2>6 DEF t
<1>4. CASE k = 11 /\ r = "read_write_zero"
  BY <1>4 DEF Measured, Holds
<1>5. CASE k = 16 /\ r = "tsc_write"
  <2>1. CASE c = "TSC_ADJUST"
    <3> DEFINE t == l["t1"]
    <3>1. l["t2"] = Big + 1 /\ l["t5"] = Minus(Big, Plus(t, 1))
      BY <1>5, <2>1 DEF Undisturbed
    <3>2. t \in 0 .. Width - 1
      BY Numbers
    <3> HIDE DEF t
    <3>3. Minus(Minus(Big, Minus(Big, Plus(t, 1))), t) = 1
      <4> DEFINE u == (t + 1) % Width v == (Big - u) % Width
      <4>1. u = IF t = Width - 1 THEN 0 ELSE t + 1
        BY <3>2 DEF Width
      <4> HIDE DEF u
      <4>2. u \in 0 .. Width - 1
        BY <3>2, <4>1 DEF Width
      <4>3. (Big - v) % Width = u
        BY <4>2 DEF Big, Width
      <4>4. (u - t) % Width = 1
        BY <3>2, <4>1 DEF Width
      <4>5. Minus(Big, Minus(Big, Plus(t, 1))) = u
        BY <4>3, Zenon DEF Minus, Plus, u
      <4> QED
        BY <4>4, <4>5, Zenon DEF Minus
    <3>4. (2 * Minus(Big + 1, Big)) % Width = 2
      BY DEF Minus, Big, Width
    <3>5. Minus(Minus(Big, l["t5"]), t) <= (2 * Minus(l["t2"], Big)) % Width
      BY <3>1, <3>3, <3>4
    <3> QED
      BY <1>5, <3>5 DEF Holds, t
  <2>2. CASE c # "TSC_ADJUST"
    BY <1>5, <2>2 DEF Explained, Adjusting
  <2> QED
    BY <2>1, <2>2
<1> QED
  BY <1>1, <1>2, <1>3, <1>4, <1>5

\* A report is false only as FalseReportsExplained says.
LEMMA ReportExplained ==
  ASSUME 3 * Interrupts + Big + 2 < Width, NEW t \in Tasks, VcpusInv, FalseReportsExplained,
         Report(t)
  PROVE  FalseReportsExplained'
<1> DEFINE c == cmd[t] v == cpu[t] k == pc[t] - Before(c) r == Arg(t) l == local[t] w == Wrote(v)
           e == (v \in written) n == 3 * hits y == tsc[v] x == adjust[v]
<1>1. At(t, "report") /\ reports' = IF Holds(r, l) THEN reports ELSE reports \union {<<r, c, e>>}
  BY DEF Report
<1>2. Adj(c)
  BY <1>1, Placed DEF VcpusInv, Place
<1>3. \/ k = 2 /\ r = "initialization"
      \/ k = 7 /\ r = "read_write"
      \/ k = 8 /\ r = "adjustment"
      \/ k = 11 /\ r = "read_write_zero"
      \/ k = 16 /\ r = "tsc_write"
  BY <1>1, Placed DEF VcpusInv, Place
<1>4. /\ l \in [Locals -> 0 .. Width - 1] /\ w \in {0, 1} /\ n \in Nat /\ k \in Int
      /\ Measured(k, l, w, y, x, n) /\ (c = "TSC_ADJUST" => Undisturbed(k, l, y, x))
  BY <1>1, <1>2, Here, Zenon
<1>5. Big + 2 + n < Width
  BY PcmAssumption DEF VcpusInv, DeviceTypes, Big, Width
<1>6. c \in Adjusting
  BY <1>2 DEF Adj
<1>7. w = 1 => e = TRUE
  <2>1. v \notin written => w = 0
    BY Zenon DEF Wrote
  <2>2. w = 1 => v \in written
    BY <2>1
  <2> QED
    BY <2>2, Zenon
<1> HIDE DEF c, v, k, r, l, w, e, n, y, x
<1>8. Holds(r, l) \/ Explained(r, c, w)
  BY <1>4, <1>5, <1>6, <1>3, HoldsOrExplained
<1>9. CASE Holds(r, l)
  BY <1>1, <1>9 DEF FalseReportsExplained
<1>10. CASE Explained(r, c, w)
  <2>1. \/ r = "msr_rw"
        \/ r \in {"initialization", "adjustment"} /\ e = TRUE
        \/ r = "tsc_write" /\ c \in {"KVMCLOCK_TEST", "IOAPIC_TEST"}
    BY <1>7, <1>10 DEF Explained
  <2> DEFINE s == <<r, c, e>>
  <2>2. s[1] = r /\ s[2] = c /\ s[3] = e
    OBVIOUS
  <2> HIDE DEF s
  <2>3. \A q \in reports' : q \in reports \/ q = s
    BY <1>1 DEF s
  <2>4. \/ s[1] = "msr_rw"
        \/ s[1] \in {"initialization", "adjustment"} /\ s[3]
        \/ s[1] = "tsc_write" /\ s[2] \in {"KVMCLOCK_TEST", "IOAPIC_TEST"}
    BY <2>1, <2>2, Zenon
  <2> QED
    BY <2>3, <2>4, Zenon DEF FalseReportsExplained
<1> QED
  BY <1>8, <1>9, <1>10

\* Besides test_msr_rw, which reports every MSR, the reports of tsc_adjust.c fail
\* only after an earlier write of the counter of that vCPU, or on the latency of a
\* write where test_ioapic left interrupts on.  The hypothesis: interrupts do not
\* turn the counter once around between two of its reads.
THEOREM FalseReportsAreExplained ==
  ASSUME 3 * Interrupts + Big + 2 < Width
  PROVE  Spec => []FalseReportsExplained
<1>1. Init => FalseReportsExplained
  BY DEF Init, FalseReportsExplained
<1>2. DeviceInv /\ FalseReportsExplained /\ [Next]_vars => FalseReportsExplained'
  <2> SUFFICES ASSUME DeviceInv, FalseReportsExplained, [Next]_vars
               PROVE  FalseReportsExplained'
    OBVIOUS
  <2>1. VcpusInv
    BY DEF DeviceInv
  <2>2. CASE reports' = reports
    BY <2>2 DEF FalseReportsExplained
  <2>3. ASSUME NEW t \in Tasks, Report(t) PROVE FalseReportsExplained'
    BY <2>1, <2>3, ReportExplained
  <2>4. ASSUME NEW t \in Tasks, test_msr_rw(t) PROVE FalseReportsExplained'
    <3> DEFINE e == (cpu[t] \in written)
    <3>1. PICK s : s[1] = "msr_rw" /\ reports' \subseteq reports \union {s}
      <4> DEFINE s == <<"msr_rw", cmd[t], e>>
      <4>1. reports' = reports \/ reports' = reports \union {s}
        BY <2>4 DEF test_msr_rw
      <4>2. s[1] = "msr_rw"
        OBVIOUS
      <4> HIDE DEF s
      <4>3. reports' \subseteq reports \union {s}
        BY <4>1
      <4> QED
        BY <4>2, <4>3
    <3>2. \A q \in reports' : q \in reports \/ q = s
      BY <3>1
    <3> QED
      BY <3>1, <3>2, Zenon DEF FalseReportsExplained
  <2>5. CASE CdevStep
    BY <2>2, <2>5 DEF CdevStep, timeVars
  <2>6. ASSUME NEW t \in Tasks, IoctlStep(t) PROVE FalseReportsExplained'
    BY <2>2, <2>3, <2>4, <2>6
       DEF IoctlStep, SetFlag, hypercall, Call, ReadTsc, ReadAdjust, ReadInto, WriteAdjust,
           WriteTsc, RdtscpAux, IoctlReturns, timeVars
  <2>7. ASSUME NEW t \in Tasks, NEW c \in Commands, NEW k \in Cpus, pcm_cdev_ioctl(t, c, k)
        PROVE  FalseReportsExplained'
    BY <2>2, <2>7 DEF pcm_cdev_ioctl, timeVars
  <2>8. ASSUME NEW c \in Cpus, Interrupt(c) PROVE FalseReportsExplained'
    BY <2>2, <2>8 DEF Interrupt
  <2>9. CASE UNCHANGED vars
    BY <2>2, <2>9 DEF vars, timeVars
  <2> QED
    BY <2>5, <2>6, <2>7, <2>8, <2>9 DEF Next
<1> QED
  BY <1>1, <1>2, DeviceInvariant, PTL DEF Spec, Safety

=============================================================================
