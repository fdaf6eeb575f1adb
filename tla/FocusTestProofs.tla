-------------------------- MODULE FocusTestProofs --------------------------
(***************************************************************************)
(* The driver of focus_test is the device of PcmCdev, too; and what its    *)
(* tests and the host's log promise, for any number of vCPUs and pcmtests, *)
(* any types, values and sockets.                                          *)
(*                                                                         *)
(* None of the promises is inductive.  FocusInv says what is true of the   *)
(* vCPU, the log and the statics of icmp.c at every place of every script. *)
(***************************************************************************)
EXTENDS FocusTest, PcmCdevProofs

Reading == {"cpuid", "rdpmc", "rdseed", "rdtsc", "rdtscp", "mmio"}
Kind(t) == ins_ioc(type[t])
Last(t) == Len(Code(t))
InIoctl(t) == task[t] = "ioctl"

Logging == Reading \union {"rdrand"}
Records == Logging \X (Values \union {0})
Logs == {l \in Seq(Records) : Len(l) <= 2}

\* What has a type that only what others have can vouch for.
FocusTypes ==
  /\ type \in [Tasks -> Types \union {"cpuid"}] /\ cpu \in [Tasks -> Cpus]
  /\ pc \in [Tasks -> Nat \ {0}] /\ \A t \in Tasks : pc[t] <= Last(t) + 1
  /\ retry \in [Tasks -> 1 .. RDRAND_RETRY_LOOPS]
  /\ got \in [Tasks -> Values \union {0}] /\ own \in [Tasks -> 0 .. MaxSockets]
  /\ data \in [Tasks -> {"undefined", "zero", "echo"}] /\ shared \in [Tasks -> BOOLEAN]
  /\ irq \in [Cpus -> BOOLEAN] /\ log \in [Cpus -> Logs \union {NotLogging}]

\* The statics of icmp.c, and the sockets; no address limit but the one that a
\* task comes in with is ever saved.
Statics ==
  /\ sockets \subseteq 1 .. MaxSockets /\ sock \in sockets \union {0}
  /\ icmp_hdr \in {"zero", "echo"} /\ oldfs \in {"zero", "USER_DS"}

\* One ioctl per vCPU; and whoever shares icmp.c is marked so.
Apart ==
  \A t, u \in Tasks : InIoctl(t) /\ InIoctl(u) /\ t # u =>
    cpu[t] # cpu[u] /\ (type[t] = "icmp" /\ type[u] = "icmp" => shared[t])

\* Where interrupts are on, and where the host logs.
VcpuInv(t) ==
  InIoctl(t) =>
    /\ pc[t] = 1 \/ pc[t] = Last(t) + 1 => irq[cpu[t]]
    /\ pc[t] \in 2 .. Last(t) /\ type[t] # "icmp" => ~irq[cpu[t]]
    /\ log[cpu[t]] = NotLogging <=> pc[t] \notin 3 .. Last(t) - 1

Idle == \A c \in Cpus : ~Busy(c) => irq[c] /\ log[c] = NotLogging

\* What is in the log before and after the instruction.
LogInv(t) ==
  InIoctl(t) =>
    /\ Kind(t) \in Reading /\ pc[t] = 3 => log[cpu[t]] = <<>>
    /\ Kind(t) \in Reading /\ pc[t] = 4 => log[cpu[t]] = <<<<Kind(t), got[t]>>>>
    /\ Kind(t) = "rdrand" /\ pc[t] = 3 => log[cpu[t]] = <<>> \/ log[cpu[t]][1][2] = 0
    /\ Kind(t) = "rdrand" /\ pc[t] = 4 =>
         /\ log[cpu[t]] # <<>> /\ log[cpu[t]][1][2] \in {got[t], 0}
         /\ Len(log[cpu[t]]) = 1 => log[cpu[t]][1][2] = got[t]

\* How far icmp_test has got, and what holds of it when it is alone.
IcmpInv(t) ==
  /\ fs[t] = IF Pinging(t) /\ pc[t] \in {10, 11} THEN "KERNEL_DS" ELSE "USER_DS"
  /\ Pinging(t) =>
       /\ pc[t] \in 4 .. 11 => sock \in sockets
       /\ pc[t] \in 9 .. 11 => oldfs = "USER_DS"
       /\ ~shared[t] =>
            /\ pc[t] \in 4 .. 11 => sock = own[t]
            /\ pc[t] = 6 => icmp_hdr = "echo"
            /\ pc[t] \in 7 .. 11 => data[t] = "echo"
            /\ pc[t] \in 8 .. 11 => iov = t

TaskInv == \A t \in Tasks : VcpuInv(t) /\ LogInv(t) /\ IcmpInv(t)

FocusInv ==
  /\ CdevInv /\ FocusTypes /\ Statics /\ Apart /\ Idle /\ TaskInv
  /\ fs \in [Tasks -> {"USER_DS", "KERNEL_DS"}] /\ CkeventTrue
-----------------------------------------------------------------------------
(***************************************************************************)
(* The life cycle of PcmCdev.                                              *)
(***************************************************************************)

\* A step of an ioctl leaves the device alone, but the one that ends it.
LEMMA InsideIoctl ==
  ASSUME NEW t \in Tasks, IoctlStep(t)
  PROVE  UNCHANGED cdevVars \/ LeaveIoctl(t)
BY DEF IoctlStep, SetFlag, hypercall, Read, rdrand_long, sock_create, FillHeader, memcpy,
       PointIov, AddressLimit, sock_sendmsg, IoctlReturns, Step, Goto

\* Every step of the driver is a step of the device or none.
LEMMA StepIsCdevStep == [Next]_vars => [CdevNext]_cdevVars
<1> SUFFICES ASSUME [Next]_vars PROVE [CdevNext]_cdevVars
  OBVIOUS
<1>1. CASE CdevStep
  BY <1>1 DEF CdevStep, CdevNext
<1>2. ASSUME NEW t \in Tasks, IoctlStep(t) PROVE [CdevNext]_cdevVars
  BY <1>2, InsideIoctl DEF CdevNext, IoctlMove
<1>3. ASSUME NEW t \in Tasks, NEW ty \in Types, NEW c \in Cpus, pcm_cdev_ioctl(t, ty, c)
      PROVE  [CdevNext]_cdevVars
  BY <1>3 DEF pcm_cdev_ioctl, CdevNext, IoctlMove
<1>4. ASSUME NEW c \in Cpus, Interrupt(c) PROVE [CdevNext]_cdevVars
  BY <1>4 DEF Interrupt
<1>5. CASE UNCHANGED vars
  BY <1>5 DEF vars
<1> QED BY <1>1, <1>2, <1>3, <1>4, <1>5 DEF Next

\* pcmtest's ioctls leave the life cycle of the module and the files alone, so
\* that an open file keeps the module and its cdev, and the rest.
THEOREM FocusImplementsCdev ==
  Spec => CdevSpec /\ [](OpenKeepsDevice /\ NothingDangles /\ UnloadReleasesAll)
<1>1. Init => CdevInit
  BY DEF Init
<1>2. Spec => CdevSpec
  BY <1>1, StepIsCdevStep, PTL DEF Spec, CdevSpec
<1> QED BY <1>2, OpenFilesAreSafe, TeardownInOrder, UnloadIsComplete, PTL
-----------------------------------------------------------------------------
(***************************************************************************)
(* The scripts.                                                            *)
(***************************************************************************)
\* The set in which all items of all scripts lie.
Items ==
  {Do("irq", FALSE), Do("irq", TRUE), Do("hypercall", 102), Do("hypercall", 103), Do("rdrand", 0)}
    \union {Do("read", x) : x \in Reading}
    \union {icmp_test[k] : k \in 1 .. 9}

\* A script is the test of its command between two accesses before it and two after.
LEMMA ScriptItems ==
  ASSUME NEW c \in Commands
  PROVE  /\ Len(Tests(c)) \in Nat /\ Len(Scripts[c]) = Len(Tests(c)) + 4
         /\ Scripts[c][1] = Do("irq", FALSE) /\ Scripts[c][2] = Do("hypercall", 102)
         /\ Scripts[c][Len(Tests(c)) + 3] = Do("hypercall", 103)
         /\ Scripts[c][Len(Tests(c)) + 4] = Do("irq", TRUE)
         /\ \A k \in 1 .. Len(Tests(c)) : Scripts[c][k + 2] = Tests(c)[k]
<1>1. Tests(c) \in Seq(Items)
  <2>1. CASE c = "icmp"
    <3>1. icmp_test \in [1 .. 9 -> {icmp_test[k] : k \in 1 .. 9}]
      BY DEF icmp_test
    <3>2. {icmp_test[k] : k \in 1 .. 9} \subseteq Items
      BY DEF Items
    <3>3. icmp_test \in [1 .. 9 -> Items]
      BY <3>1, <3>2
    <3> QED
      BY <2>1, <3>3, SeqDef DEF Tests
  <2>2. CASE c = "rdrand"
    BY <2>2 DEF Tests, rdrand_test, Items
  <2>3. CASE c = "pio"
    BY <2>3 DEF Tests, pio_test
  <2>4. CASE c \in Reading
    <3>1. Tests(c) = <<Do("read", c)>>
      BY <2>4 DEF Reading, Tests, cpuid_test, rdpmc_test, rdseed_test, rdtsc_test,
                  rdtscp_test, mmio_test
    <3>2. Do("read", c) \in Items
      BY <2>4 DEF Items
    <3> QED
      BY <3>1, <3>2
  <2> QED
    BY <2>1, <2>2, <2>3, <2>4 DEF Commands, Reading
<1>2. /\ Do("irq", FALSE) \in Items /\ Do("hypercall", 102) \in Items
      /\ Do("hypercall", 103) \in Items /\ Do("irq", TRUE) \in Items
  BY DEF Items
<1>3. Scripts[c] = <<Do("irq", FALSE), Do("hypercall", 102)>> \o Tests(c)
                     \o <<Do("hypercall", 103), Do("irq", TRUE)>>
  BY DEF Scripts, Script
<1> DEFINE S == Items t == Tests(c) s == Scripts[c]
           a == Do("irq", FALSE)      b == Do("hypercall", 102)
           x == Do("hypercall", 103)  y == Do("irq", TRUE)
<1>4. t \in Seq(S) /\ a \in S /\ b \in S /\ x \in S /\ y \in S /\ s = <<a, b>> \o t \o <<x, y>>
  BY <1>1, <1>2, <1>3, Zenon
<1> HIDE DEF S, t, s, a, b, x, y
<1>5. /\ Len(t) \in Nat /\ Len(s) = Len(t) + 4
      /\ s[1] = a /\ s[2] = b /\ s[Len(t) + 3] = x /\ s[Len(t) + 4] = y
      /\ \A k \in 1 .. Len(t) : s[k + 2] = t[k]
  BY <1>4, Between
<1> QED
  BY <1>5, Zenon DEF t, s, a, b, x, y

\* The test of each kind of command, access by access.
LEMMA TestItems ==
  ASSUME NEW c \in Commands
  PROVE  /\ c \in Reading => Len(Tests(c)) = 1 /\ Tests(c)[1] = Do("read", c)
         /\ c = "rdrand" => Len(Tests(c)) = 1 /\ Tests(c)[1] = Do("rdrand", 0)
         /\ c = "pio" => Len(Tests(c)) = 0
         /\ c = "icmp" => Len(Tests(c)) = 9 /\ Tests(c) = icmp_test
  BY DEF Commands, Reading, Tests, cpuid_test, rdpmc_test, rdrand_test, rdseed_test,
         rdtsc_test, rdtscp_test, pio_test, mmio_test, icmp_test, Do

\* Every task has the script of one kind of command.
LEMMA KindOf ==
  ASSUME NEW t
  PROVE  /\ Kind(t) \in Commands /\ Kind(t) \in Reading \union {"rdrand", "pio", "icmp"}
         /\ Kind(t) = "icmp" <=> type[t] = "icmp"
         /\ type[t] \in Commands => Kind(t) = type[t]
         /\ Code(t) = Scripts[Kind(t)]
         /\ Kind(t) \in Reading \union {"rdrand"} => Last(t) = 5
         /\ Kind(t) = "pio" => Last(t) = 4
         /\ Kind(t) = "icmp" => Last(t) = 13
<1>1. Kind(t) \in Commands /\ (Kind(t) = "icmp" <=> type[t] = "icmp")
      /\ (type[t] \in Commands => Kind(t) = type[t])
  BY DEF Kind, ins_ioc, Commands
<1>2. Code(t) = Scripts[Kind(t)]
  BY DEF Code, Kind
<1>3. Last(t) = Len(Tests(Kind(t))) + 4
  BY <1>1, <1>2, ScriptItems DEF Last
<1>4. Kind(t) \in Reading \union {"rdrand", "pio", "icmp"}
  BY <1>1 DEF Commands, Reading
<1>5. /\ Kind(t) \in Reading \union {"rdrand"} => Len(Tests(Kind(t))) = 1
      /\ Kind(t) = "pio" => Len(Tests(Kind(t))) = 0
      /\ Kind(t) = "icmp" => Len(Tests(Kind(t))) = 9
  BY <1>1, TestItems
<1>6. /\ Kind(t) \in Reading \union {"rdrand"} => Last(t) = 5
      /\ Kind(t) = "pio" => Last(t) = 4
      /\ Kind(t) = "icmp" => Last(t) = 13
  <2> DEFINE k == Kind(t) m == Len(Tests(k)) l == Last(t)
  <2>1. /\ l = m + 4
        /\ k \in Reading \union {"rdrand"} => m = 1
        /\ k = "pio" => m = 0
        /\ k = "icmp" => m = 9
    BY <1>3, <1>5, Zenon
  <2> HIDE DEF k, m, l
  <2>2. /\ k \in Reading \union {"rdrand"} => l = 5
        /\ k = "pio" => l = 4
        /\ k = "icmp" => l = 13
    BY <2>1
  <2> QED
    BY <2>2, Zenon DEF k, l
<1> QED
  BY <1>1, <1>2, <1>4, <1>6, Zenon

\* The item x at place p of the script of c, which has l of them.
Item(c, p, l, x) ==
  \/ p = 1 /\ x = Do("irq", FALSE)
  \/ p = 2 /\ x = Do("hypercall", 102)
  \/ p = 3 /\ c \in Reading /\ x = Do("read", c)
  \/ p = 3 /\ c = "rdrand" /\ x = Do("rdrand", 0)
  \/ p \in 3 .. 11 /\ c = "icmp" /\ x = icmp_test[p - 2]
  \/ p = l - 1 /\ x = Do("hypercall", 103)
  \/ p = l /\ x = Do("irq", TRUE)

\* Each place of each script, with what stands there.
LEMMA ItemAt ==
  ASSUME NEW c \in Commands, NEW p \in 1 .. Len(Scripts[c]),
         NEW x, x = Scripts[c][p], NEW l, l = Len(Scripts[c])
  PROVE  Item(c, p, l, x)
<1> DEFINE n == Len(Tests(c)) s == Scripts[c] t == Tests(c)
           r1 == Do("irq", FALSE)      r2 == Do("hypercall", 102)
           r3 == Do("hypercall", 103)  r4 == Do("irq", TRUE)
           rd == Do("read", c)         rr == Do("rdrand", 0)
<1>1. /\ n \in Nat /\ Len(s) = n + 4
      /\ s[1] = r1 /\ s[2] = r2 /\ s[n + 3] = r3 /\ s[n + 4] = r4
      /\ \A k \in 1 .. n : s[k + 2] = t[k]
  BY ScriptItems
<1>2. /\ c \in Reading => n = 1 /\ t[1] = rd
      /\ c = "rdrand" => n = 1 /\ t[1] = rr
      /\ c = "pio" => n = 0
      /\ c = "icmp" => n = 9 /\ t = icmp_test
      /\ c \in Reading \union {"rdrand", "pio", "icmp"}
  BY TestItems DEF Commands, Reading
<1>3. p \in 1 .. Len(s) /\ x = s[p] /\ l = Len(s)
  OBVIOUS
<1> HIDE DEF n, s, t, r1, r2, r3, r4, rd, rr
<1>4. CASE p \in {1, 2, n + 3, n + 4}
  <2>1. \/ p = 1 /\ x = r1
        \/ p = 2 /\ x = r2
        \/ p = l - 1 /\ x = r3
        \/ p = l /\ x = r4
    BY <1>1, <1>3, <1>4
  <2> QED
    BY <2>1, Zenon DEF r1, r2, r3, r4, Item
<1>5. CASE p \notin {1, 2, n + 3, n + 4}
  <2>1. p - 2 \in 1 .. n /\ (p - 2) + 2 = p
    BY <1>1, <1>3, <1>5
  <2>2. x = t[p - 2]
    BY <1>1, <1>3, <2>1
  <2>3. \/ p = 3 /\ c \in Reading /\ x = rd
        \/ p = 3 /\ c = "rdrand" /\ x = rr
        \/ p \in 3 .. 11 /\ c = "icmp" /\ x = icmp_test[p - 2]
    <3>1. CASE n = 1 /\ c \in Reading \union {"rdrand"}
      <4>1. p = 3 /\ x = t[1]
        BY <2>1, <2>2, <3>1
      <4> QED
        BY <1>2, <3>1, <4>1
    <3>2. CASE c = "icmp"
      <4>1. p \in 3 .. 11
        BY <1>2, <2>1, <3>2
      <4> QED
        BY <1>2, <2>2, <3>2, <4>1
    <3>3. c # "pio"
      BY <1>2, <2>1
    <3> QED
      BY <1>2, <3>1, <3>2, <3>3
  <2> QED
    BY <2>3, Zenon DEF rd, rr, Item
<1> QED
  BY <1>4, <1>5

\* icmp_test, statement by statement.
LEMMA IcmpItems ==
  /\ icmp_test[1] = Do("sock_create", 0)   /\ icmp_test[2] = Do("icmp_hdr", "zero")
  /\ icmp_test[3] = Do("icmp_hdr", "echo") /\ icmp_test[4] = Do("memcpy", 0)
  /\ icmp_test[5] = Do("iov", 0)           /\ icmp_test[6] = Do("get_fs", 0)
  /\ icmp_test[7] = Do("set_fs", 0)        /\ icmp_test[8] = Do("sock_sendmsg", 0)
  /\ icmp_test[9] = Do("restore_fs", 0)
  BY DEF icmp_test

\* Where a task is when it is about to take a step of one kind.
Place(c, p, l, x) ==
  /\ x[1] = "irq" => (p = 1 /\ x[2] = FALSE) \/ (p = l /\ x[2] = TRUE)
  /\ x[1] = "hypercall" => (p = 2 /\ x[2] = 102) \/ (p = l - 1 /\ x[2] = 103)
  /\ x[1] = "read" => p = 3 /\ c \in Reading /\ x[2] = c
  /\ x[1] = "rdrand" => p = 3 /\ c = "rdrand"
  /\ x[1] = "sock_create" => p = 3 /\ c = "icmp"
  /\ x[1] = "icmp_hdr" =>
       c = "icmp" /\ ((p = 4 /\ x[2] = "zero") \/ (p = 5 /\ x[2] = "echo"))
  /\ x[1] = "memcpy" => p = 6 /\ c = "icmp"
  /\ x[1] = "iov" => p = 7 /\ c = "icmp"
  /\ x[1] = "get_fs" => p = 8 /\ c = "icmp"
  /\ x[1] = "set_fs" => p = 9 /\ c = "icmp"
  /\ x[1] = "sock_sendmsg" => p = 10 /\ c = "icmp"
  /\ x[1] = "restore_fs" => p = 11 /\ c = "icmp"

\* The places of the script that pings.
LEMMA IcmpPlace ==
  ASSUME NEW p \in 3 .. 11, NEW x, x = icmp_test[p - 2], NEW l
  PROVE  Place("icmp", p, l, x)
<1>1. p \in {3, 4, 5, 6, 7, 8, 9, 10, 11}
  OBVIOUS
<1>2. /\ p = 3 => x = icmp_test[1]
      /\ p = 4 => x = icmp_test[2]
      /\ p = 5 => x = icmp_test[3]
      /\ p = 6 => x = icmp_test[4]
      /\ p = 7 => x = icmp_test[5]
      /\ p = 8 => x = icmp_test[6]
      /\ p = 9 => x = icmp_test[7]
      /\ p = 10 => x = icmp_test[8]
      /\ p = 11 => x = icmp_test[9]
  OBVIOUS
<1>3. \/ p = 3 /\ x = Do("sock_create", 0)
      \/ p = 4 /\ x = Do("icmp_hdr", "zero")
      \/ p = 5 /\ x = Do("icmp_hdr", "echo")
      \/ p = 6 /\ x = Do("memcpy", 0)
      \/ p = 7 /\ x = Do("iov", 0)
      \/ p = 8 /\ x = Do("get_fs", 0)
      \/ p = 9 /\ x = Do("set_fs", 0)
      \/ p = 10 /\ x = Do("sock_sendmsg", 0)
      \/ p = 11 /\ x = Do("restore_fs", 0)
  BY <1>1, <1>2, IcmpItems
<1> QED
  BY <1>3 DEF Do, Place

\* What stands at a place, put in the terms of Place.
LEMMA ItemPlace ==
  ASSUME NEW c, NEW p, NEW l, NEW x, Item(c, p, l, x)
  PROVE  Place(c, p, l, x)
<1>1. CASE p = 1 /\ x = Do("irq", FALSE)
  BY <1>1 DEF Do, Place
<1>2. CASE p = 2 /\ x = Do("hypercall", 102)
  BY <1>2 DEF Do, Place
<1>3. CASE p = 3 /\ c \in Reading /\ x = Do("read", c)
  BY <1>3 DEF Do, Place
<1>4. CASE p = 3 /\ c = "rdrand" /\ x = Do("rdrand", 0)
  BY <1>4 DEF Do, Place
<1>5. CASE p \in 3 .. 11 /\ c = "icmp" /\ x = icmp_test[p - 2]
  BY <1>5, IcmpPlace, Zenon
<1>6. CASE p = l - 1 /\ x = Do("hypercall", 103)
  BY <1>6 DEF Do, Place
<1>7. CASE p = l /\ x = Do("irq", TRUE)
  BY <1>7 DEF Do, Place
<1> QED
  BY <1>1, <1>2, <1>3, <1>4, <1>5, <1>6, <1>7 DEF Item

\* A task at an access is inside its ioctl, on a place of its script.
LEMMA Where ==
  ASSUME NEW t, pc[t] \in Nat \ {0}, NEW op, At(t, op)
  PROVE  /\ InIoctl(t) /\ pc[t] \in 1 .. Last(t)
         /\ Code(t)[pc[t]][1] = op /\ Code(t)[pc[t]][2] = Arg(t)
         /\ Place(Kind(t), pc[t], Last(t), Code(t)[pc[t]])
<1>1. InIoctl(t) /\ pc[t] <= Last(t) /\ Code(t)[pc[t]][1] = op /\ Code(t)[pc[t]][2] = Arg(t)
  BY DEF At, Arg, Last, InIoctl
<1>2. Kind(t) \in Commands /\ Code(t)[pc[t]] = Scripts[Kind(t)][pc[t]]
      /\ Last(t) = Len(Scripts[Kind(t)])
  BY KindOf, Zenon DEF Last
<1>3. Last(t) \in Nat
  BY KindOf
<1>4. pc[t] \in 1 .. Last(t)
  BY <1>1, <1>3
<1>5. Item(Kind(t), pc[t], Last(t), Code(t)[pc[t]])
  BY <1>2, <1>4, ItemAt, Zenon
<1> QED
  BY <1>1, <1>4, <1>5, ItemPlace, Zenon
-----------------------------------------------------------------------------
(***************************************************************************)
(* What a step of one task leaves alone.                                   *)
(***************************************************************************)
LEMMA SameKind ==
  ASSUME NEW u, type'[u] = type[u]
  PROVE  Kind(u)' = Kind(u) /\ Last(u)' = Last(u)
  BY DEF Kind, Last, Code

\* A script has four, five or thirteen accesses, thirteen if it pings.
LEMMA Lasts ==
  ASSUME NEW u
  PROVE  Last(u) \in {4, 5, 13} /\ (Last(u) = 13 <=> type[u] = "icmp")
         /\ (Kind(u) \in Reading \union {"rdrand"} => Last(u) = 5)
  BY KindOf DEF Reading

\* What is known of a task inside its ioctl.
LEMMA Here ==
  ASSUME FocusInv, NEW t \in Tasks, InIoctl(t)
  PROVE  /\ cpu[t] \in Cpus /\ pc[t] \in Nat \ {0} /\ pc[t] <= Last(t) + 1
         /\ Last(t) \in {4, 5, 13} /\ Busy(cpu[t])
         /\ log[cpu[t]] \in Logs \union {NotLogging}
         /\ VcpuInv(t) /\ LogInv(t) /\ IcmpInv(t)
  BY Lasts DEF FocusInv, FocusTypes, TaskInv, Busy, InIoctl

\* What every step to the next place does to the places of the tasks.
LEMMA Common ==
  ASSUME FocusInv, NEW t \in Tasks, NEW l \in 1 .. Last(t) + 1, Goto(t, l)
  PROVE  /\ pc'[t] = l /\ \A u \in Tasks \ {t} : pc'[u] = pc[u]
         /\ pc' \in [Tasks -> Nat \ {0}] /\ \A u \in Tasks : pc'[u] <= Last(u)' + 1
         /\ UNCHANGED <<task, type, cpu, shared>>
         /\ \A u : Kind(u)' = Kind(u) /\ Last(u)' = Last(u)
         /\ CdevInv' /\ Apart'
<1>1. pc' = [pc EXCEPT ![t] = l] /\ UNCHANGED <<task, type, cpu, shared>> /\ UNCHANGED cdevVars
  BY DEF Goto, cdevVars
<1>2. \A u : Kind(u)' = Kind(u) /\ Last(u)' = Last(u)
  BY <1>1, SameKind
<1>3. l \in Nat \ {0}
  BY Lasts
<1>4. pc' \in [Tasks -> Nat \ {0}] /\ pc'[t] = l /\ \A u \in Tasks \ {t} : pc'[u] = pc[u]
  BY <1>1, <1>3 DEF FocusInv, FocusTypes
<1>5. \A u \in Tasks : pc'[u] <= Last(u)' + 1
  <2> TAKE u \in Tasks
  <2>1. CASE u = t
    BY <1>2, <1>4, <2>1, Lasts
  <2>2. CASE u # t
    BY <1>2, <1>4, <2>2 DEF FocusInv, FocusTypes
  <2> QED
    BY <2>1, <2>2
<1>6. CdevInv'
  BY <1>1, StepKeeps DEF FocusInv
<1>7. Apart'
  BY <1>1 DEF FocusInv, Apart, InIoctl
<1> QED
  BY <1>1, <1>2, <1>4, <1>5, <1>6, <1>7

\* A step of t inside its ioctl keeps what is said of every other task.
LEMMA Elsewhere ==
  ASSUME FocusInv, NEW t \in Tasks, InIoctl(t), UNCHANGED <<task, type, cpu>>,
         \A u \in Tasks \ {t} : pc'[u] = pc[u] /\ got'[u] = got[u],
         \A c \in Cpus \ {cpu[t]} : irq'[c] = irq[c] /\ log'[c] = log[c]
  PROVE  Idle' /\ \A u \in Tasks \ {t} : VcpuInv(u)' /\ LogInv(u)'
<1>1. Idle'
  <2>1. \A c \in Cpus : Busy(c)' <=> Busy(c)
    BY DEF Busy
  <2>2. Busy(cpu[t])
    BY Here
  <2> SUFFICES ASSUME NEW c \in Cpus, ~Busy(c) PROVE irq'[c] /\ log'[c] = NotLogging
    BY <2>1, Zenon DEF Idle
  <2>3. c # cpu[t]
    BY <2>2
  <2>4. irq[c] /\ log[c] = NotLogging
    BY DEF FocusInv, Idle
  <2> QED
    BY <2>3, <2>4
<1>2. ASSUME NEW u \in Tasks \ {t}, InIoctl(u)
      PROVE  /\ irq'[cpu'[u]] = irq[cpu[u]] /\ log'[cpu'[u]] = log[cpu[u]]
             /\ VcpuInv(u) /\ LogInv(u)
  <2>1. cpu[u] # cpu[t] /\ cpu[u] \in Cpus
    BY <1>2 DEF FocusInv, FocusTypes, Apart
  <2> QED
    BY <1>2, <2>1, Here
<1>3. ASSUME NEW u \in Tasks \ {t} PROVE VcpuInv(u)' /\ LogInv(u)'
  <2>1. Kind(u)' = Kind(u) /\ Last(u)' = Last(u) /\ (InIoctl(u)' <=> InIoctl(u))
    BY SameKind DEF InIoctl
  <2>2. pc'[u] = pc[u] /\ got'[u] = got[u] /\ type'[u] = type[u]
    OBVIOUS
  <2>3. VcpuInv(u)'
    BY <1>2, <2>1, <2>2 DEF VcpuInv
  <2>4. LogInv(u)'
    BY <1>2, <2>1, <2>2 DEF LogInv
  <2> QED
    BY <2>3, <2>4
<1> QED
  BY <1>1, <1>3

\* The statics change only for a task that shares them with every other icmp.
LEMMA IcmpElsewhere ==
  ASSUME FocusInv, NEW t \in Tasks, InIoctl(t), UNCHANGED <<task, type, shared>>,
         \A u \in Tasks \ {t} : /\ pc'[u] = pc[u] /\ fs'[u] = fs[u]
                                /\ own'[u] = own[u] /\ data'[u] = data[u],
         sockets \subseteq sockets', oldfs' \in {oldfs, "USER_DS"},
         sock' = sock \/ sock' \in sockets',
         type[t] = "icmp" \/ UNCHANGED <<sock, icmp_hdr, iov>>
  PROVE  \A u \in Tasks \ {t} : IcmpInv(u)'
<1> SUFFICES ASSUME NEW u \in Tasks \ {t} PROVE IcmpInv(u)'
  OBVIOUS
<1>1. IcmpInv(u)
  BY DEF FocusInv, TaskInv
<1>2. Pinging(u)' <=> Pinging(u)
  BY DEF Pinging
<1>3. Pinging(u) /\ ~shared[u] => UNCHANGED <<sock, icmp_hdr, iov>>
  BY DEF Pinging, InIoctl, FocusInv, Apart
<1>4. /\ pc'[u] = pc[u] /\ fs'[u] = fs[u] /\ own'[u] = own[u] /\ data'[u] = data[u]
      /\ shared'[u] = shared[u]
  OBVIOUS
<1>5. fs'[u] = IF Pinging(u)' /\ pc'[u] \in {10, 11} THEN "KERNEL_DS" ELSE "USER_DS"
  BY <1>1, <1>2, <1>4 DEF IcmpInv
<1>6. Pinging(u) => /\ pc'[u] \in 4 .. 11 => sock' \in sockets'
                    /\ pc'[u] \in 9 .. 11 => oldfs' = "USER_DS"
  BY <1>1, <1>4 DEF IcmpInv
<1>7. Pinging(u) /\ ~shared[u] =>
        /\ pc'[u] \in 4 .. 11 => sock' = own'[u]
        /\ pc'[u] = 6 => icmp_hdr' = "echo"
        /\ pc'[u] \in 7 .. 11 => data'[u] = "echo"
        /\ pc'[u] \in 8 .. 11 => iov' = u
  BY <1>1, <1>3, <1>4 DEF IcmpInv
<1>8. shared'[u] <=> shared[u]
  BY <1>4
<1> QED
  BY <1>2, <1>5, <1>6, <1>7, <1>8 DEF IcmpInv
-----------------------------------------------------------------------------
(***************************************************************************)
(* The steps that every command takes.                                     *)
(***************************************************************************)
\* A step of task t that leaves icmp.c, the host's file and the other vCPUs
\* alone keeps the invariant, if it keeps what is said of t.
LEMMA OwnStep ==
  ASSUME FocusInv, NEW t \in Tasks, InIoctl(t), NEW l \in 1 .. Last(t) + 1, Goto(t, l),
         UNCHANGED <<own, icmpVars>>, pc[t] \notin 3 .. 11 \/ type[t] # "icmp",
         l \notin 4 .. 11 \/ type[t] # "icmp",
         \A u \in Tasks \ {t} : got'[u] = got[u],
         \A c \in Cpus \ {cpu[t]} : irq'[c] = irq[c] /\ log'[c] = log[c],
         retry' \in [Tasks -> 1 .. RDRAND_RETRY_LOOPS], got' \in [Tasks -> Values \union {0}],
         irq' \in [Cpus -> BOOLEAN], log' \in [Cpus -> Logs \union {NotLogging}],
         VcpuInv(t)', LogInv(t)', CkeventTrue'
  PROVE  FocusInv'
<1>1. /\ pc'[t] = l /\ \A u \in Tasks \ {t} : pc'[u] = pc[u]
      /\ pc' \in [Tasks -> Nat \ {0}] /\ \A u \in Tasks : pc'[u] <= Last(u)' + 1
      /\ UNCHANGED <<task, type, cpu, shared>> /\ CdevInv' /\ Apart'
  BY Common
<1>2. UNCHANGED <<fs, data, sock, icmp_hdr, iov, oldfs, sockets>> /\ own' = own
  BY DEF icmpVars
<1>3. FocusTypes' /\ Statics'
  BY <1>1, <1>2 DEF FocusInv, FocusTypes, Statics
<1>4. Idle' /\ \A u \in Tasks \ {t} : VcpuInv(u)' /\ LogInv(u)'
  BY <1>1, Elsewhere
<1>5. ASSUME NEW u \in Tasks PROVE IcmpInv(u)'
  <2>1. IcmpInv(u)
    BY DEF FocusInv, TaskInv
  <2>2. Pinging(u)' <=> Pinging(u)
    BY <1>1 DEF Pinging
  <2>3. CASE u = t
    <3>1. Pinging(t) => pc[t] \notin 4 .. 11 /\ pc'[t] \notin 4 .. 11
      BY <1>1 DEF Pinging
    <3>2. Pinging(t) => pc[t] \notin {10, 11} /\ pc'[t] \notin {10, 11} /\ pc'[t] # 6
                        /\ pc'[t] \notin 7 .. 11 /\ pc'[t] \notin 8 .. 11 /\ pc'[t] \notin 9 .. 11
      BY <3>1
    <3> QED
      BY <1>2, <2>1, <2>2, <2>3, <3>1, <3>2 DEF IcmpInv
  <2>4. CASE u # t
    BY <1>1, <1>2, <2>1, <2>2, <2>4 DEF IcmpInv
  <2> QED
    BY <2>3, <2>4
<1>6. TaskInv'
  BY <1>4, <1>5 DEF TaskInv
<1>7. fs' \in [Tasks -> {"USER_DS", "KERNEL_DS"}]
  BY <1>2 DEF FocusInv
<1> QED
  BY <1>1, <1>3, <1>4, <1>6, <1>7 DEF FocusInv

\* The log says nothing new while the host's file stays.
LEMMA FileStays ==
  ASSUME CkeventTrue, file' = file PROVE CkeventTrue'
  BY DEF CkeventTrue, ckevent

\* The same, by the kind of the step and its argument, for the common steps.
Usual(c, p, l, op, a) ==
  /\ op = "irq" => (p = 1 /\ a = FALSE) \/ (p = l /\ a = TRUE)
  /\ op = "hypercall" => (p = 2 /\ a = 102) \/ (p = l - 1 /\ a = 103)
  /\ op = "read" => p = 3 /\ c \in Reading /\ a = c
  /\ op = "rdrand" => p = 3 /\ c = "rdrand"

\* Where in its script an access can stand.
LEMMA UsualPlace ==
  ASSUME NEW c, NEW p, NEW l, NEW x, Place(c, p, l, x)
  PROVE  Usual(c, p, l, x[1], x[2])
  BY DEF Place, Usual

\* The place of a task that is about to make an access.
LEMMA Placed ==
  ASSUME FocusInv, NEW t \in Tasks, NEW op, At(t, op)
  PROVE  /\ InIoctl(t) /\ pc[t] \in 1 .. Last(t) /\ pc[t] + 1 \in 1 .. Last(t) + 1
         /\ Last(t) \in {4, 5, 13}
         /\ op = "irq" => (pc[t] = 1 /\ Arg(t) = FALSE) \/ (pc[t] = Last(t) /\ Arg(t) = TRUE)
         /\ op = "hypercall" => (pc[t] = 2 /\ Arg(t) = 102) \/ (pc[t] = Last(t) - 1 /\ Arg(t) = 103)
         /\ op = "read" => pc[t] = 3 /\ Kind(t) \in Reading /\ Arg(t) = Kind(t)
         /\ op = "rdrand" => pc[t] = 3 /\ Kind(t) = "rdrand"
<1>1. pc[t] \in Nat \ {0}
  BY DEF FocusInv, FocusTypes
<1>2. /\ InIoctl(t) /\ pc[t] \in 1 .. Last(t)
      /\ Code(t)[pc[t]][1] = op /\ Code(t)[pc[t]][2] = Arg(t)
      /\ Place(Kind(t), pc[t], Last(t), Code(t)[pc[t]])
  BY <1>1, Where, Zenon
<1>3. pc[t] + 1 \in 1 .. Last(t) + 1 /\ Last(t) \in {4, 5, 13}
  BY <1>2, Lasts
<1>4. Usual(Kind(t), pc[t], Last(t), op, Arg(t))
  BY <1>2, UsualPlace, Zenon
<1> QED
  BY <1>2, <1>3, <1>4, Zenon DEF Usual

\* Local interrupts off at the start of pcm_cdev_ioctl, and on at its end.
LEMMA SetFlagKeeps ==
  ASSUME FocusInv, NEW t \in Tasks, SetFlag(t) PROVE FocusInv'
<1>1. /\ At(t, "irq") /\ Goto(t, pc[t] + 1) /\ irq' = [irq EXCEPT ![cpu[t]] = Arg(t)]
      /\ UNCHANGED <<retry, got, own, icmpVars, log, file, taken>>
  BY DEF SetFlag, Step, Local, hostVars
<1>2. /\ InIoctl(t) /\ pc[t] + 1 \in 1 .. Last(t) + 1 /\ Last(t) \in {4, 5, 13}
      /\ (pc[t] = 1 /\ Arg(t) = FALSE) \/ (pc[t] = Last(t) /\ Arg(t) = TRUE)
  BY <1>1, Placed, Zenon
<1>3. /\ cpu[t] \in Cpus /\ pc[t] \in Nat \ {0} /\ VcpuInv(t) /\ LogInv(t)
      /\ pc'[t] = pc[t] + 1 /\ UNCHANGED <<task, type, cpu>>
      /\ Kind(t)' = Kind(t) /\ Last(t)' = Last(t)
  BY <1>1, <1>2, Here, Common
<1>4. irq' \in [Cpus -> BOOLEAN] /\ \A c \in Cpus \ {cpu[t]} : irq'[c] = irq[c]
  BY <1>1, <1>2, <1>3 DEF FocusInv, FocusTypes
<1>5. irq'[cpu[t]] = Arg(t)
  BY <1>1, <1>3 DEF FocusInv, FocusTypes
<1>6. VcpuInv(t)'
  <2>1. log[cpu[t]] = NotLogging
    BY <1>2, <1>3 DEF VcpuInv
  <2>2. CASE pc[t] = 1 /\ Arg(t) = FALSE
    <3>1. pc'[t] = 2 /\ pc'[t] # Last(t) + 1 /\ pc'[t] \notin 3 .. Last(t) - 1
      BY <1>2, <1>3, <2>2
    <3>2. ~irq'[cpu[t]]
      BY <1>5, <2>2
    <3> QED
      BY <1>1, <1>3, <2>1, <3>1, <3>2 DEF VcpuInv
  <2>3. CASE pc[t] = Last(t) /\ Arg(t) = TRUE
    <3>1. pc'[t] = Last(t) + 1 /\ pc'[t] \notin 2 .. Last(t) /\ pc'[t] \notin 3 .. Last(t) - 1
      BY <1>2, <1>3, <2>3
    <3>2. irq'[cpu[t]]
      BY <1>5, <2>3
    <3> QED
      BY <1>1, <1>3, <2>1, <3>1, <3>2 DEF VcpuInv
  <2> QED
    BY <1>2, <2>2, <2>3
<1>7. LogInv(t)'
  <2>1. pc'[t] # 3 /\ (pc'[t] = 4 => Kind(t) \notin Reading \union {"rdrand"})
    BY <1>2, <1>3, Lasts
  <2> QED
    BY <1>3, <2>1 DEF LogInv
<1>8. (pc[t] \notin 3 .. 11 \/ type[t] # "icmp") /\ (pc[t] + 1 \notin 4 .. 11 \/ type[t] # "icmp")
  BY <1>2, Lasts
<1>9. CkeventTrue'
  BY <1>1, FileStays DEF FocusInv
<1>10. /\ retry' \in [Tasks -> 1 .. RDRAND_RETRY_LOOPS] /\ got' \in [Tasks -> Values \union {0}]
       /\ log' \in [Cpus -> Logs \union {NotLogging}]
  BY <1>1 DEF FocusInv, FocusTypes
<1>11. \A u \in Tasks \ {t} : got'[u] = got[u]
  BY <1>1
<1>12. \A c \in Cpus \ {cpu[t]} : irq'[c] = irq[c] /\ log'[c] = log[c]
  BY <1>1, <1>4
<1>13. UNCHANGED <<own, icmpVars>>
  BY <1>1
<1> QED
  BY <1>1, <1>2, <1>4, <1>6, <1>7, <1>8, <1>9, <1>10, <1>11, <1>12, <1>13, OwnStep, Zenon

\* What the host writes to its file when the log of a finished test is r.
LEMMA FileWritten ==
  ASSUME NEW ty, NEW g, NEW r, file' = [type |-> ty, got |-> g, records |-> r],
         ty \in Reading => r = <<<<ty, g>>>>,
         ty = "rdrand" => /\ r # <<>> /\ r[1][2] \in {g, 0}
                          /\ Len(r) = 1 => r[1][2] = g
  PROVE  CkeventTrue'
<1>1. file'.type = ty /\ file'.got = g /\ file'.records = r
  OBVIOUS
<1>2. CASE ty \in Reading
  <2>1. r # <<>> /\ r[1][2] = g
    BY <1>2
  <2> QED
    BY <1>1, <1>2, <2>1 DEF CkeventTrue, ckevent, Reading
<1>3. CASE ty = "rdrand"
  BY <1>1, <1>3 DEF CkeventTrue, ckevent
<1>4. CASE ty \notin Reading \union {"rdrand"}
  BY <1>1, <1>4 DEF CkeventTrue, Reading
<1> QED
  BY <1>2, <1>3, <1>4

\* Hypercalls 102 and 103 begin and end what the host logs, and write its file.
LEMMA hypercallKeeps ==
  ASSUME FocusInv, NEW t \in Tasks, hypercall(t) PROVE FocusInv'
<1>1. /\ At(t, "hypercall") /\ Goto(t, pc[t] + 1)
      /\ UNCHANGED <<retry, got, own, icmpVars, irq, taken>>
  BY DEF hypercall, Step, Local
<1>2. /\ InIoctl(t) /\ pc[t] + 1 \in 1 .. Last(t) + 1 /\ Last(t) \in {4, 5, 13}
      /\ (pc[t] = 2 /\ Arg(t) = 102) \/ (pc[t] = Last(t) - 1 /\ Arg(t) = 103)
  BY <1>1, Placed, Zenon DEF Usual
<1>3. /\ cpu[t] \in Cpus /\ VcpuInv(t) /\ LogInv(t)
      /\ pc'[t] = pc[t] + 1 /\ UNCHANGED <<task, type, cpu>>
      /\ Kind(t)' = Kind(t) /\ Last(t)' = Last(t)
  BY <1>1, <1>2, Here, Common
<1>4. (pc[t] = 2 \/ pc[t] = Last(t) - 1) /\ (Arg(t) = 102 <=> pc[t] = 2)
  BY <1>2
<1>5. (pc[t] \notin 3 .. 11 \/ type[t] # "icmp") /\ (pc[t] + 1 \notin 4 .. 11 \/ type[t] # "icmp")
  BY <1>2, <1>4, Lasts
<1>6. irq'[cpu'[t]] = irq[cpu[t]] /\ pc[t] \in 2 .. Last(t)
  BY <1>1, <1>2, <1>3, <1>4
<1>7. ASSUME pc[t] = 2
      PROVE  /\ VcpuInv(t)' /\ LogInv(t)' /\ CkeventTrue'
             /\ log' \in [Cpus -> Logs \union {NotLogging}]
             /\ \A c \in Cpus \ {cpu[t]} : log'[c] = log[c]
  <2>1. log' = [log EXCEPT ![cpu[t]] = <<>>] /\ file' = file
    BY <1>4, <1>7 DEF hypercall
  <2>2. log'[cpu'[t]] = <<>> /\ pc'[t] = 3 /\ 3 \in 3 .. Last(t) - 1
    BY <1>2, <1>3, <1>7, <2>1 DEF FocusInv, FocusTypes
  <2>3. VcpuInv(t)'
    <3>1. <<>> # NotLogging
      BY DEF NotLogging
    <3>2. pc'[t] # 1 /\ pc'[t] # Last(t)' + 1 /\ pc'[t] \in 3 .. Last(t)' - 1
      BY <1>2, <1>3, <2>2
    <3>3. type[t] # "icmp" => ~irq'[cpu'[t]]
      BY <1>2, <1>3, <1>6 DEF VcpuInv
    <3> QED
      BY <1>3, <2>2, <3>1, <3>2, <3>3 DEF VcpuInv
  <2>4. LogInv(t)'
    BY <2>2 DEF LogInv
  <2>5. CkeventTrue'
    BY <2>1, FileStays DEF FocusInv
  <2>6. log' \in [Cpus -> Logs \union {NotLogging}] /\ \A c \in Cpus \ {cpu[t]} : log'[c] = log[c]
    <3>1. <<>> \in Logs
      BY DEF Logs
    <3> QED
      BY <1>3, <2>1, <3>1 DEF FocusInv, FocusTypes
  <2> QED
    BY <2>3, <2>4, <2>5, <2>6
<1>8. ASSUME pc[t] = Last(t) - 1, pc[t] # 2
      PROVE  /\ VcpuInv(t)' /\ LogInv(t)' /\ CkeventTrue'
             /\ log' \in [Cpus -> Logs \union {NotLogging}]
             /\ \A c \in Cpus \ {cpu[t]} : log'[c] = log[c]
  <2>1. /\ log' = [log EXCEPT ![cpu[t]] = NotLogging]
        /\ file' = [type |-> type[t], got |-> got[t], records |-> log[cpu[t]]]
    BY <1>4, <1>8 DEF hypercall
  <2>2. log'[cpu'[t]] = NotLogging /\ pc'[t] = Last(t) /\ Last(t) \notin 3 .. Last(t) - 1
    BY <1>2, <1>3, <1>8, <2>1 DEF FocusInv, FocusTypes
  <2>3. VcpuInv(t)'
    <3>1. pc'[t] # 1 /\ pc'[t] # Last(t)' + 1 /\ pc'[t] \notin 3 .. Last(t)' - 1
      BY <1>2, <1>3, <2>2
    <3>2. type[t] # "icmp" => ~irq'[cpu'[t]]
      BY <1>2, <1>3, <1>6 DEF VcpuInv
    <3> QED
      BY <1>3, <2>2, <3>1, <3>2 DEF VcpuInv
  <2>4. LogInv(t)'
    <3>1. pc'[t] # 3 /\ (pc'[t] = 4 => Kind(t)' \notin Reading \union {"rdrand"})
      BY <1>2, <1>3, <2>2, Lasts
    <3> QED
      BY <3>1 DEF LogInv
  <2>5. CkeventTrue'
    <3>1. pc[t] = 4 \/ Kind(t) \notin Reading \union {"rdrand"}
      BY <1>8, Lasts
    <3>2. type[t] \in Reading \union {"rdrand"} => Kind(t) = type[t]
      BY KindOf DEF Commands, Reading
    <3>3. type[t] \in Reading => log[cpu[t]] = <<<<type[t], got[t]>>>>
      BY <1>2, <1>3, <3>1, <3>2 DEF LogInv
    <3>4. type[t] = "rdrand" =>
            /\ log[cpu[t]] # <<>> /\ log[cpu[t]][1][2] \in {got[t], 0}
            /\ Len(log[cpu[t]]) = 1 => log[cpu[t]][1][2] = got[t]
      BY <1>2, <1>3, <3>1, <3>2 DEF LogInv
    <3> QED
      BY <2>1, <3>3, <3>4, FileWritten, Zenon
  <2>6. log' \in [Cpus -> Logs \union {NotLogging}] /\ \A c \in Cpus \ {cpu[t]} : log'[c] = log[c]
    BY <1>3, <2>1 DEF FocusInv, FocusTypes
  <2> QED
    BY <2>3, <2>4, <2>5, <2>6
<1>9. /\ VcpuInv(t)' /\ LogInv(t)' /\ CkeventTrue' /\ log' \in [Cpus -> Logs \union {NotLogging}]
      /\ \A c \in Cpus \ {cpu[t]} : log'[c] = log[c]
  BY <1>4, <1>7, <1>8
<1>10. /\ retry' \in [Tasks -> 1 .. RDRAND_RETRY_LOOPS] /\ got' \in [Tasks -> Values \union {0}]
       /\ irq' \in [Cpus -> BOOLEAN]
  BY <1>1 DEF FocusInv, FocusTypes
<1>11. \A u \in Tasks \ {t} : got'[u] = got[u]
  BY <1>1
<1>12. \A c \in Cpus \ {cpu[t]} : irq'[c] = irq[c] /\ log'[c] = log[c]
  BY <1>1, <1>9
<1>13. UNCHANGED <<own, icmpVars>>
  BY <1>1
<1> QED
  BY <1>1, <1>2, <1>5, <1>9, <1>10, <1>11, <1>12, <1>13, OwnStep, Zenon

\* A log that has room for one record more.
LEMMA OneMore ==
  ASSUME NEW s \in Logs, Len(s) # 2, NEW r \in Records
  PROVE  /\ Append(s, r) \in Logs /\ Append(s, r) # <<>>
         /\ s = <<>> => Append(s, r) = <<r>>
         /\ s # <<>> => Append(s, r)[1] = s[1] /\ Len(Append(s, r)) = 2
<1>1. s \in Seq(Records) /\ Len(s) <= 2
  BY DEF Logs
<1> HIDE DEF Records, Logs
<1> DEFINE n == Len(s) a == Append(s, r) m == Len(a)
<1>2. n \in Nat /\ n <= 2 /\ n # 2 /\ (s # <<>> => n \in Nat \ {0})
  BY <1>1, LenProperties, EmptySeq
<1>3. /\ a \in Seq(Records) /\ a # <<>> /\ m = n + 1
      /\ \A i \in 1 .. n : a[i] = s[i]
  BY <1>1, AppendProperties
<1>4. s = <<>> => a = <<r>>
  OBVIOUS
<1> HIDE DEF n, a, m
<1>5. n \in {0, 1} /\ (s # <<>> => n = 1)
  BY <1>2
<1>6. m <= 2 /\ (s # <<>> => m = 2 /\ a[1] = s[1])
  BY <1>3, <1>5
<1> QED
  BY <1>3, <1>4, <1>6 DEF Logs, m, a

\* A record more in the log lg of vCPU c, if it is logged at all.
Longer(lg, c, ins, v) ==
  /\ lg \in [Cpus -> Logs \union {NotLogging}]
  /\ \A d \in Cpus \ {c} : lg[d] = log[d]
  /\ lg[c] = NotLogging <=> log[c] = NotLogging
  /\ log[c] = <<>> => lg[c] = <<<<ins, v>>>>
  /\ log[c] # <<>> /\ log[c] # NotLogging =>
       lg[c] # <<>> /\ lg[c][1] = log[c][1] /\ Len(lg[c]) = 2

\* What the host logs is one record longer, or full.
LEMMA LoggedTo ==
  ASSUME FocusInv, NEW c \in Cpus, NEW ins \in Logging, NEW v \in Values \union {0}
  PROVE  Longer(Logged(c, ins, v), c, ins, v)
<1> DEFINE lg == Logged(c, ins, v)
<1> SUFFICES Longer(lg, c, ins, v)
  OBVIOUS
<1>1. log \in [Cpus -> Logs \union {NotLogging}]
  BY DEF FocusInv, FocusTypes
<1>2. NotLogging \notin Logs /\ Len(NotLogging) = 3 /\ NotLogging # <<>>
  BY DEF NotLogging, Logs
<1>3. <<ins, v>> \in Records
  BY DEF Records
<1>4. CASE log[c] = NotLogging \/ Len(log[c]) = 2
  <2>1. lg = log
    BY <1>4 DEF Logged
  <2> HIDE DEF lg
  <2>2. log[c] # <<>>
    BY <1>2, <1>4
  <2>3. log[c] # NotLogging => Len(log[c]) = 2
    BY <1>4
  <2> QED
    BY <1>1, <2>1, <2>2, <2>3 DEF Longer
<1>5. CASE ~(log[c] = NotLogging \/ Len(log[c]) = 2)
  <2> DEFINE s == log[c] r == <<ins, v>> a == Append(s, r)
  <2>1. lg = [log EXCEPT ![c] = a]
    BY <1>5 DEF Logged
  <2> HIDE DEF lg
  <2>2. s \in Logs /\ Len(s) # 2 /\ s # NotLogging
    BY <1>1, <1>5
  <2>3. /\ a \in Logs /\ a # <<>>
        /\ s = <<>> => a = <<r>>
        /\ s # <<>> => a[1] = s[1] /\ Len(a) = 2
    BY <1>3, <2>2, OneMore
  <2> HIDE DEF a
  <2>4. lg \in [Cpus -> Logs \union {NotLogging}] /\ lg[c] = a
        /\ \A d \in Cpus \ {c} : lg[d] = log[d]
    BY <1>1, <2>1, <2>3
  <2>5. a # NotLogging
    BY <1>2, <2>3
  <2> QED
    BY <2>2, <2>3, <2>4, <2>5 DEF Longer
<1> QED
  BY <1>4, <1>5

\* The tests that read a value: read and logged on the same vCPU.
LEMMA ReadKeeps ==
  ASSUME FocusInv, NEW t \in Tasks, Read(t) PROVE FocusInv'
<1>1. /\ At(t, "read") /\ Goto(t, pc[t] + 1) /\ UNCHANGED <<retry, own, icmpVars, irq, file, taken>>
  BY DEF Read, Step
<1>2. PICK v \in Values \union {0} :
        got' = [got EXCEPT ![t] = v] /\ log' = Logged(cpu[t], Arg(t), v)
  BY DEF Read
<1>3. /\ InIoctl(t) /\ pc[t] + 1 \in 1 .. Last(t) + 1 /\ Last(t) \in {4, 5, 13}
      /\ pc[t] = 3 /\ Kind(t) \in Reading /\ Arg(t) = Kind(t)
  BY <1>1, Placed, Zenon
<1>4. /\ cpu[t] \in Cpus /\ VcpuInv(t) /\ LogInv(t)
      /\ pc'[t] = pc[t] + 1 /\ UNCHANGED <<task, type, cpu>>
      /\ Kind(t)' = Kind(t) /\ Last(t)' = Last(t)
  BY <1>1, <1>3, Here, Common
<1>5. Last(t) = 5 /\ type[t] # "icmp" /\ pc'[t] = 4 /\ Arg(t) \in Logging
  <2>1. Last(t) = 5
    BY <1>3, Lasts
  <2>2. "icmp" \notin Reading /\ \A x \in Reading : x \in Logging
    BY DEF Reading, Logging
  <2>3. type[t] # "icmp" /\ Arg(t) \in Logging
    BY <1>3, <2>2, KindOf, Zenon
  <2> QED
    BY <1>3, <1>4, <2>1, <2>2, <2>3
<1>6. log[cpu[t]] = <<>> /\ log[cpu[t]] # NotLogging
  <2>1. <<>> # NotLogging
    BY DEF NotLogging
  <2>2. log[cpu[t]] = <<>>
    BY <1>3, <1>4, Zenon DEF LogInv
  <2> QED
    BY <2>1, <2>2
<1>7. /\ log' \in [Cpus -> Logs \union {NotLogging}] /\ \A c \in Cpus \ {cpu[t]} : log'[c] = log[c]
      /\ log'[cpu[t]] = <<<<Arg(t), v>>>> /\ log'[cpu[t]] # NotLogging
  <2>1. Longer(log', cpu[t], Arg(t), v)
    BY <1>2, <1>4, <1>5, LoggedTo, Zenon
  <2> QED
    BY <1>6, <2>1 DEF Longer
<1>8. got' \in [Tasks -> Values \union {0}] /\ got'[t] = v /\ \A u \in Tasks \ {t} : got'[u] = got[u]
  BY <1>2 DEF FocusInv, FocusTypes
<1>9. VcpuInv(t)'
  <2>1. pc'[t] # 1 /\ pc'[t] # Last(t)' + 1 /\ pc'[t] \in 3 .. Last(t)' - 1
    BY <1>4, <1>5
  <2>2. ~irq[cpu[t]]
    BY <1>3, <1>4, <1>5 DEF VcpuInv
  <2>3. ~irq'[cpu'[t]] /\ log'[cpu'[t]] # NotLogging
    BY <1>1, <1>4, <1>7, <2>2
  <2> QED
    BY <2>1, <2>3 DEF VcpuInv
<1>10. LogInv(t)'
  <2>1. log'[cpu'[t]] = <<<<Kind(t)', got'[t]>>>>
    BY <1>3, <1>4, <1>7, <1>8
  <2>2. pc'[t] # 3 /\ Kind(t)' # "rdrand"
    BY <1>3, <1>4, <1>5 DEF Reading
  <2> QED
    BY <2>1, <2>2 DEF LogInv
<1>11. CkeventTrue'
  BY <1>1, FileStays DEF FocusInv
<1>12. retry' \in [Tasks -> 1 .. RDRAND_RETRY_LOOPS] /\ irq' \in [Cpus -> BOOLEAN]
  BY <1>1 DEF FocusInv, FocusTypes
<1>13. \A c \in Cpus \ {cpu[t]} : irq'[c] = irq[c] /\ log'[c] = log[c]
  BY <1>1, <1>7
<1>14. UNCHANGED <<own, icmpVars>>
  BY <1>1
<1> QED
  BY <1>1, <1>3, <1>5, <1>7, <1>8, <1>9, <1>10, <1>11, <1>12, <1>13, <1>14, OwnStep, Zenon

\* rdrand_long: tried again at most RETRY_MAX times, each try a record.
LEMMA rdrand_longKeeps ==
  ASSUME FocusInv, NEW t \in Tasks, rdrand_long(t) PROVE FocusInv'
<1>1. At(t, "rdrand") /\ UNCHANGED <<own, icmpVars, irq, file, taken>>
  BY DEF rdrand_long
<1>2. PICK v \in Values \union {0} :
        /\ got' = [got EXCEPT ![t] = v]
        /\ log' = Logged(cpu[t], "rdrand", v)
        /\ IF v = 0 /\ Retried(t)
             THEN Goto(t, pc[t]) /\ retry' = [retry EXCEPT ![t] = @ - 1]
             ELSE Step(t) /\ UNCHANGED retry
  BY DEF rdrand_long
<1>3. /\ InIoctl(t) /\ pc[t] \in 1 .. Last(t) /\ pc[t] = 3 /\ Kind(t) = "rdrand"
  BY <1>1, Placed, Zenon
<1>4. Last(t) = 5 /\ type[t] # "icmp"
  BY <1>3, Lasts
<1>5. /\ cpu[t] \in Cpus /\ VcpuInv(t) /\ LogInv(t)
  BY <1>3, Here
<1>6. PICK l \in {3, 4} : Goto(t, l) /\ (l = 3 => v = 0)
  BY <1>2, <1>3 DEF Step
<1>7. l \in 1 .. Last(t) + 1
  BY <1>4, <1>6
<1>8. /\ pc'[t] = l /\ UNCHANGED <<task, type, cpu>>
      /\ Kind(t)' = Kind(t) /\ Last(t)' = Last(t)
  BY <1>6, <1>7, Common
<1>9. log[cpu[t]] # NotLogging /\ (log[cpu[t]] = <<>> \/ log[cpu[t]][1][2] = 0)
  BY <1>3, <1>4, <1>5 DEF VcpuInv, LogInv
<1>10. /\ log' \in [Cpus -> Logs \union {NotLogging}] /\ \A c \in Cpus \ {cpu[t]} : log'[c] = log[c]
       /\ log'[cpu[t]] # NotLogging
       /\ \/ log'[cpu[t]] = <<<<"rdrand", v>>>>
          \/ log'[cpu[t]] # <<>> /\ log'[cpu[t]][1][2] = 0 /\ Len(log'[cpu[t]]) = 2
  <2>1. "rdrand" \in Logging
    BY DEF Logging
  <2>2. Longer(log', cpu[t], "rdrand", v)
    BY <1>2, <1>5, <2>1, LoggedTo, Zenon
  <2> QED
    BY <1>9, <2>2 DEF Longer
<1>11. got' \in [Tasks -> Values \union {0}] /\ got'[t] = v /\ \A u \in Tasks \ {t} : got'[u] = got[u]
  BY <1>2 DEF FocusInv, FocusTypes
<1>12. VcpuInv(t)'
  <2>1. pc'[t] # 1 /\ pc'[t] # Last(t)' + 1 /\ pc'[t] \in 3 .. Last(t)' - 1
    BY <1>4, <1>6, <1>8
  <2>2. ~irq[cpu[t]]
    BY <1>3, <1>4, <1>5 DEF VcpuInv
  <2>3. ~irq'[cpu'[t]] /\ log'[cpu'[t]] # NotLogging
    BY <1>1, <1>8, <1>10, <2>2
  <2> QED
    BY <2>1, <2>3 DEF VcpuInv
<1>13. LogInv(t)'
  <2>1. Kind(t)' = "rdrand" /\ "rdrand" \notin Reading
    BY <1>3, <1>8 DEF Reading
  <2>2. log'[cpu'[t]] # <<>> /\ log'[cpu'[t]][1][2] \in {got'[t], 0}
        /\ (Len(log'[cpu'[t]]) = 1 => log'[cpu'[t]][1][2] = got'[t])
        /\ (pc'[t] = 3 => log'[cpu'[t]][1][2] = 0)
    <3> DEFINE r == log'[cpu'[t]] p == pc'[t] g == got'[t]
    <3>1. /\ r = <<<<"rdrand", v>>>> \/ (r # <<>> /\ r[1][2] = 0 /\ Len(r) = 2)
          /\ g = v /\ (p = 3 => v = 0)
      BY <1>6, <1>8, <1>10, <1>11
    <3> HIDE DEF r, p, g
    <3>2. /\ r # <<>> /\ r[1][2] \in {g, 0}
          /\ Len(r) = 1 => r[1][2] = g
          /\ p = 3 => r[1][2] = 0
      BY <3>1
    <3> QED
      BY <3>2, Zenon DEF r, p, g
  <2> QED
    BY <2>1, <2>2 DEF LogInv
<1>14. CkeventTrue'
  BY <1>1, FileStays DEF FocusInv
<1>15. retry' \in [Tasks -> 1 .. RDRAND_RETRY_LOOPS]
  <2>1. retry \in [Tasks -> 1 .. RDRAND_RETRY_LOOPS]
    BY DEF FocusInv, FocusTypes
  <2>2. Retried(t) => retry[t] - 1 \in 1 .. RDRAND_RETRY_LOOPS
    BY <2>1, FocusAssumption DEF Retried
  <2> QED
    BY <1>2, <2>1, <2>2
<1>16. irq' \in [Cpus -> BOOLEAN]
  BY <1>1 DEF FocusInv, FocusTypes
<1>17. \A c \in Cpus \ {cpu[t]} : irq'[c] = irq[c] /\ log'[c] = log[c]
  BY <1>1, <1>10
<1>18. UNCHANGED <<own, icmpVars>>
  BY <1>1
<1> QED
  BY <1>3, <1>4, <1>6, <1>7, <1>10, <1>11, <1>12, <1>13, <1>14, <1>15, <1>16, <1>17, <1>18,
     OwnStep, Zenon
-----------------------------------------------------------------------------
(***************************************************************************)
(* The steps of icmp_test.                                                 *)
(***************************************************************************)
Sends(p, op, a) ==
  /\ op = "sock_create" => p = 3
  /\ op = "icmp_hdr" => (p = 4 /\ a = "zero") \/ (p = 5 /\ a = "echo")
  /\ op = "memcpy" => p = 6
  /\ op = "iov" => p = 7
  /\ op = "get_fs" => p = 8
  /\ op = "set_fs" => p = 9
  /\ op = "sock_sendmsg" => p = 10
  /\ op = "restore_fs" => p = 11

IcmpOps == {"sock_create", "icmp_hdr", "memcpy", "iov", "get_fs", "set_fs", "sock_sendmsg",
            "restore_fs"}

\* Where icmp_test stands in what it sends.
LEMMA SendPlace ==
  ASSUME NEW c, NEW p, NEW l, NEW x, Place(c, p, l, x)
  PROVE  Sends(p, x[1], x[2]) /\ (x[1] \in IcmpOps => c = "icmp")
  BY DEF Place, Sends, IcmpOps

\* A task at a statement of icmp.c is a pinging task, between the hypercalls.
LEMMA IcmpPlaced ==
  ASSUME FocusInv, NEW t \in Tasks, NEW op \in IcmpOps, At(t, op)
  PROVE  /\ InIoctl(t) /\ type[t] = "icmp" /\ Last(t) = 13 /\ Pinging(t)
         /\ Sends(pc[t], op, Arg(t))
<1>1. pc[t] \in Nat \ {0}
  BY DEF FocusInv, FocusTypes
<1>2. /\ InIoctl(t) /\ Code(t)[pc[t]][1] = op /\ Code(t)[pc[t]][2] = Arg(t)
      /\ Place(Kind(t), pc[t], Last(t), Code(t)[pc[t]])
  BY <1>1, Where, Zenon
<1>3. Sends(pc[t], op, Arg(t)) /\ Kind(t) = "icmp"
  BY <1>2, SendPlace, Zenon
<1>4. type[t] = "icmp" /\ Last(t) = 13
  BY <1>3, KindOf, Zenon
<1> QED
  BY <1>2, <1>3, <1>4 DEF Pinging, InIoctl

\* A step of icmp_test keeps the invariant, if what it does to the statics is
\* nothing that a task alone in icmp_test would see, and it keeps what is said
\* of the task itself.
LEMMA IcmpStep ==
  ASSUME FocusInv, NEW t \in Tasks, InIoctl(t), type[t] = "icmp", pc[t] \in 3 .. 11,
         NEW l \in 4 .. 12, Goto(t, l), UNCHANGED <<retry, got, hostVars>>, MaySleep(t),
         \A u \in Tasks \ {t} : fs'[u] = fs[u] /\ own'[u] = own[u] /\ data'[u] = data[u],
         own' \in [Tasks -> 0 .. MaxSockets], data' \in [Tasks -> {"undefined", "zero", "echo"}],
         fs' \in [Tasks -> {"USER_DS", "KERNEL_DS"}],
         sockets \subseteq sockets', oldfs' \in {oldfs, "USER_DS"},
         sock' = sock \/ sock' \in sockets', Statics', IcmpInv(t)'
  PROVE  FocusInv'
<1>1. Last(t) = 13
  BY Lasts
<1>2. l \in 1 .. Last(t) + 1
  BY <1>1
<1>3. /\ pc'[t] = l /\ \A u \in Tasks \ {t} : pc'[u] = pc[u]
      /\ pc' \in [Tasks -> Nat \ {0}] /\ \A u \in Tasks : pc'[u] <= Last(u)' + 1
      /\ UNCHANGED <<task, type, cpu, shared>> /\ CdevInv' /\ Apart'
      /\ Kind(t)' = Kind(t) /\ Last(t)' = Last(t)
  BY <1>2, Common
<1>4. cpu[t] \in Cpus /\ VcpuInv(t)
  BY Here
<1>5. retry' = retry /\ got' = got /\ log' = log /\ file' = file
  BY DEF hostVars
<1>6. /\ irq' \in [Cpus -> BOOLEAN]
      /\ \A c \in Cpus \ {cpu[t]} : irq'[c] = irq[c] /\ log'[c] = log[c]
  BY <1>4, <1>5 DEF MaySleep, FocusInv, FocusTypes
<1>7. FocusTypes'
  BY <1>3, <1>5, <1>6 DEF FocusInv, FocusTypes
<1>8. Idle' /\ \A u \in Tasks \ {t} : VcpuInv(u)' /\ LogInv(u)'
  <2>1. \A u \in Tasks \ {t} : pc'[u] = pc[u] /\ got'[u] = got[u]
    BY <1>3, <1>5
  <2>2. UNCHANGED <<task, type, cpu>>
    BY <1>3
  <2> QED
    BY <1>6, <2>1, <2>2, Elsewhere, Zenon
<1>9. \A u \in Tasks \ {t} : IcmpInv(u)'
  <2>1. \A u \in Tasks \ {t} : /\ pc'[u] = pc[u] /\ fs'[u] = fs[u]
                               /\ own'[u] = own[u] /\ data'[u] = data[u]
    BY <1>3
  <2>2. UNCHANGED <<task, type, shared>>
    BY <1>3
  <2> QED
    BY <2>1, <2>2, IcmpElsewhere, Zenon
<1>10. VcpuInv(t)'
  <2>1. log[cpu[t]] # NotLogging
    BY <1>1, <1>4 DEF VcpuInv
  <2>2. pc'[t] # 1 /\ pc'[t] # Last(t)' + 1 /\ pc'[t] \in 3 .. Last(t)' - 1
    BY <1>1, <1>3
  <2>3. log'[cpu'[t]] # NotLogging /\ type'[t] = "icmp"
    BY <1>3, <1>5, <2>1
  <2> QED
    BY <2>2, <2>3 DEF VcpuInv
<1>11. LogInv(t)'
  <2>1. Kind(t) = "icmp"
    BY KindOf, Zenon
  <2>2. Kind(t)' \notin Reading /\ Kind(t)' # "rdrand"
    BY <1>3, <2>1 DEF Reading
  <2> QED
    BY <2>2 DEF LogInv
<1>12. TaskInv'
  BY <1>8, <1>9, <1>10, <1>11, Zenon DEF TaskInv
<1>13. CkeventTrue'
  BY <1>5, FileStays DEF FocusInv
<1> QED
  BY <1>3, <1>7, <1>8, <1>12, <1>13, Zenon DEF FocusInv

\* What is known of the statics when a task executes a statement of icmp.c.
LEMMA IcmpHere ==
  ASSUME FocusInv, NEW t \in Tasks, NEW op \in IcmpOps, At(t, op), NEW l \in 4 .. 12, Goto(t, l)
  PROVE  /\ InIoctl(t) /\ type[t] = "icmp" /\ pc[t] \in 3 .. 11 /\ Sends(pc[t], op, Arg(t))
         /\ Pinging(t)' /\ pc'[t] = l /\ shared' = shared
         /\ Pinging(t) /\ IcmpInv(t) /\ Statics
         /\ own \in [Tasks -> 0 .. MaxSockets] /\ data \in [Tasks -> {"undefined", "zero", "echo"}]
         /\ fs \in [Tasks -> {"USER_DS", "KERNEL_DS"}]
<1>1. /\ InIoctl(t) /\ type[t] = "icmp" /\ Pinging(t) /\ Sends(pc[t], op, Arg(t)) /\ Last(t) = 13
  BY IcmpPlaced
<1>2. pc[t] \in 3 .. 11
  <2> DEFINE p == pc[t] a == Arg(t)
  <2>1. Sends(p, op, a)
    BY <1>1
  <2> HIDE DEF p, a
  <2>2. p \in 3 .. 11
    BY <2>1 DEF Sends, IcmpOps
  <2> QED
    BY <2>2 DEF p
<1>3. pc'[t] = l /\ shared' = shared /\ task' = task /\ type' = type
  BY <1>1, Common
<1>4. Pinging(t)'
  BY <1>1, <1>3 DEF Pinging
<1>5. /\ IcmpInv(t) /\ Statics
      /\ own \in [Tasks -> 0 .. MaxSockets] /\ data \in [Tasks -> {"undefined", "zero", "echo"}]
      /\ fs \in [Tasks -> {"USER_DS", "KERNEL_DS"}]
  BY DEF FocusInv, FocusTypes, TaskInv
<1> QED
  BY <1>1, <1>2, <1>3, <1>4, <1>5

\* A pinging task that moves on and leaves the variables of icmp.c alone.
LEMMA sock_sendmsgKeeps ==
  ASSUME FocusInv, NEW t \in Tasks, sock_sendmsg(t) PROVE FocusInv'
<1>1. /\ At(t, "sock_sendmsg") /\ Goto(t, pc[t] + 1) /\ MaySleep(t)
      /\ UNCHANGED <<retry, got, own>> /\ UNCHANGED <<icmpVars, hostVars>>
  BY DEF sock_sendmsg, Step, Local
<1>2. pc[t] = 10
  BY <1>1, IcmpPlaced DEF IcmpOps, Sends
<1>3. Goto(t, 11)
  BY <1>1, <1>2
<1>4. /\ InIoctl(t) /\ type[t] = "icmp" /\ pc[t] \in 3 .. 11
      /\ Pinging(t)' /\ pc'[t] = 11 /\ shared' = shared
      /\ Pinging(t) /\ IcmpInv(t) /\ Statics
      /\ own \in [Tasks -> 0 .. MaxSockets] /\ data \in [Tasks -> {"undefined", "zero", "echo"}]
      /\ fs \in [Tasks -> {"USER_DS", "KERNEL_DS"}]
  BY <1>1, <1>3, IcmpHere DEF IcmpOps
<1>5. UNCHANGED <<fs, data, sock, icmp_hdr, iov, oldfs, sockets>> /\ own' = own
  BY <1>1 DEF icmpVars
<1>6. IcmpInv(t)'
  BY <1>2, <1>4, <1>5 DEF IcmpInv
<1>7. Statics'
  BY <1>4, <1>5 DEF Statics
<1>8. UNCHANGED <<retry, got, hostVars>>
  BY <1>1
<1> QED
  BY <1>1, <1>3, <1>4, <1>5, <1>6, <1>7, <1>8, IcmpStep

\* sock_create fills the static sock or fails, and may sleep.
LEMMA sock_createKeeps ==
  ASSUME FocusInv, NEW t \in Tasks, sock_create(t) PROVE FocusInv'
<1>1. At(t, "sock_create") /\ MaySleep(t)
      /\ UNCHANGED <<retry, got, fs, data, icmp_hdr, iov, oldfs, hostVars>>
  BY DEF sock_create
<1>2. pc[t] = 3 /\ Last(t) = 13
  BY <1>1, IcmpPlaced DEF IcmpOps, Sends
<1>3. ASSUME NEW s \in 1 .. MaxSockets \ sockets, sock' = s, own' = [own EXCEPT ![t] = s],
             sockets' = sockets \union {s}, Step(t)
      PROVE  FocusInv'
  <2>1. Goto(t, 4)
    BY <1>2, <1>3 DEF Step
  <2>2. /\ InIoctl(t) /\ type[t] = "icmp" /\ pc[t] \in 3 .. 11
        /\ Pinging(t)' /\ pc'[t] = 4 /\ shared' = shared
        /\ Pinging(t) /\ IcmpInv(t) /\ Statics
        /\ own \in [Tasks -> 0 .. MaxSockets] /\ data \in [Tasks -> {"undefined", "zero", "echo"}]
        /\ fs \in [Tasks -> {"USER_DS", "KERNEL_DS"}]
    BY <1>1, <2>1, IcmpHere DEF IcmpOps
  <2>3. /\ own' \in [Tasks -> 0 .. MaxSockets] /\ own'[t] = s
        /\ \A u \in Tasks \ {t} : own'[u] = own[u]
    BY <1>3, <2>2, FocusAssumption
  <2>4. IcmpInv(t)'
    BY <1>1, <1>2, <1>3, <2>2, <2>3 DEF IcmpInv
  <2>5. Statics'
    BY <1>1, <1>3, <2>2 DEF Statics
  <2>6. UNCHANGED <<retry, got, hostVars>>
    BY <1>1
  <2> QED
    BY <1>1, <1>3, <2>1, <2>2, <2>3, <2>4, <2>5, <2>6, IcmpStep
<1>4. ASSUME Goto(t, Len(Code(t)) - 1), UNCHANGED <<sock, own, sockets>>
      PROVE  FocusInv'
  <2>1. Goto(t, 12)
    BY <1>2, <1>4 DEF Last
  <2>2. /\ InIoctl(t) /\ type[t] = "icmp" /\ pc[t] \in 3 .. 11
        /\ Pinging(t)' /\ pc'[t] = 12 /\ shared' = shared
        /\ Pinging(t) /\ IcmpInv(t) /\ Statics
        /\ own \in [Tasks -> 0 .. MaxSockets] /\ data \in [Tasks -> {"undefined", "zero", "echo"}]
        /\ fs \in [Tasks -> {"USER_DS", "KERNEL_DS"}]
    BY <1>1, <2>1, IcmpHere DEF IcmpOps
  <2>3. IcmpInv(t)'
    BY <1>1, <1>2, <1>4, <2>2 DEF IcmpInv
  <2>4. Statics'
    BY <1>1, <1>4, <2>2 DEF Statics
  <2>5. UNCHANGED <<retry, got, hostVars>>
    BY <1>1
  <2> QED
    BY <1>1, <1>4, <2>1, <2>2, <2>3, <2>4, <2>5, IcmpStep, SMTT(30)
<1> QED
  BY <1>3, <1>4 DEF sock_create

\* The writes to the static icmp_hdr.
LEMMA FillHeaderKeeps ==
  ASSUME FocusInv, NEW t \in Tasks, FillHeader(t) PROVE FocusInv'
<1>1. /\ At(t, "icmp_hdr") /\ Goto(t, pc[t] + 1) /\ icmp_hdr' = Arg(t)
      /\ UNCHANGED <<retry, got, own, fs, data, sock, iov, oldfs, sockets, irq, hostVars>>
  BY DEF FillHeader, Step, Local
<1>2. (pc[t] = 4 /\ Arg(t) = "zero") \/ (pc[t] = 5 /\ Arg(t) = "echo")
  BY <1>1, IcmpPlaced DEF IcmpOps, Sends
<1>3. PICK l \in {5, 6} : Goto(t, l) /\ l = pc[t] + 1
  BY <1>1, <1>2
<1>4. /\ InIoctl(t) /\ type[t] = "icmp" /\ pc[t] \in 3 .. 11
      /\ Pinging(t)' /\ pc'[t] = l /\ shared' = shared
      /\ Pinging(t) /\ IcmpInv(t) /\ Statics
      /\ own \in [Tasks -> 0 .. MaxSockets] /\ data \in [Tasks -> {"undefined", "zero", "echo"}]
      /\ fs \in [Tasks -> {"USER_DS", "KERNEL_DS"}]
  BY <1>1, <1>3, IcmpHere DEF IcmpOps
<1>5. IcmpInv(t)'
  BY <1>1, <1>2, <1>3, <1>4 DEF IcmpInv
<1>6. Statics'
  BY <1>1, <1>2, <1>4 DEF Statics
<1>7. UNCHANGED <<retry, got, hostVars>> /\ MaySleep(t)
  BY <1>1 DEF MaySleep
<1> QED
  BY <1>1, <1>3, <1>4, <1>5, <1>6, <1>7, IcmpStep

\* The header is copied to the message on the stack.
LEMMA memcpyKeeps ==
  ASSUME FocusInv, NEW t \in Tasks, memcpy(t) PROVE FocusInv'
<1>1. /\ At(t, "memcpy") /\ Goto(t, pc[t] + 1) /\ data' = [data EXCEPT ![t] = icmp_hdr]
      /\ UNCHANGED <<retry, got, own, fs, sock, icmp_hdr, iov, oldfs, sockets, irq, hostVars>>
  BY DEF memcpy, Step, Local
<1>2. pc[t] = 6
  BY <1>1, IcmpPlaced DEF IcmpOps, Sends
<1>3. Goto(t, 7)
  BY <1>1, <1>2
<1>4. /\ InIoctl(t) /\ type[t] = "icmp" /\ pc[t] \in 3 .. 11
      /\ Pinging(t)' /\ pc'[t] = 7 /\ shared' = shared
      /\ Pinging(t) /\ IcmpInv(t) /\ Statics
      /\ own \in [Tasks -> 0 .. MaxSockets] /\ data \in [Tasks -> {"undefined", "zero", "echo"}]
      /\ fs \in [Tasks -> {"USER_DS", "KERNEL_DS"}]
  BY <1>1, <1>3, IcmpHere DEF IcmpOps
<1>5. /\ data' \in [Tasks -> {"undefined", "zero", "echo"}] /\ data'[t] = icmp_hdr
      /\ \A u \in Tasks \ {t} : data'[u] = data[u]
  BY <1>1, <1>4 DEF Statics
<1>6. IcmpInv(t)'
  BY <1>1, <1>2, <1>4, <1>5 DEF IcmpInv
<1>7. Statics'
  BY <1>1, <1>4 DEF Statics
<1>8. UNCHANGED <<retry, got, hostVars>> /\ MaySleep(t)
  BY <1>1 DEF MaySleep
<1> QED
  BY <1>1, <1>3, <1>4, <1>5, <1>6, <1>7, <1>8, IcmpStep

\* The static iov points to the message of the task.
LEMMA PointIovKeeps ==
  ASSUME FocusInv, NEW t \in Tasks, PointIov(t) PROVE FocusInv'
<1>1. /\ At(t, "iov") /\ Goto(t, pc[t] + 1) /\ iov' = t
      /\ UNCHANGED <<retry, got, own, fs, data, sock, icmp_hdr, oldfs, sockets, irq, hostVars>>
  BY DEF PointIov, Step, Local
<1>2. pc[t] = 7
  BY <1>1, IcmpPlaced DEF IcmpOps, Sends
<1>3. Goto(t, 8)
  BY <1>1, <1>2
<1>4. /\ InIoctl(t) /\ type[t] = "icmp" /\ pc[t] \in 3 .. 11
      /\ Pinging(t)' /\ pc'[t] = 8 /\ shared' = shared
      /\ Pinging(t) /\ IcmpInv(t) /\ Statics
      /\ own \in [Tasks -> 0 .. MaxSockets] /\ data \in [Tasks -> {"undefined", "zero", "echo"}]
      /\ fs \in [Tasks -> {"USER_DS", "KERNEL_DS"}]
  BY <1>1, <1>3, IcmpHere DEF IcmpOps
<1>5. IcmpInv(t)'
  BY <1>1, <1>2, <1>4 DEF IcmpInv
<1>6. Statics'
  BY <1>1, <1>4 DEF Statics
<1>7. UNCHANGED <<retry, got, hostVars>> /\ MaySleep(t)
  BY <1>1 DEF MaySleep
<1> QED
  BY <1>1, <1>3, <1>4, <1>5, <1>6, <1>7, IcmpStep

\* set_fs saves the address limit in the static oldfs, and restores it.
LEMMA AddressLimitKeeps ==
  ASSUME FocusInv, NEW t \in Tasks, AddressLimit(t) PROVE FocusInv'
<1>1. /\ Goto(t, pc[t] + 1)
      /\ UNCHANGED <<retry, got, own, data, sock, icmp_hdr, iov, sockets, irq, hostVars>>
  BY DEF AddressLimit, Step, Local
<1>2. UNCHANGED <<retry, got, hostVars>> /\ MaySleep(t)
  BY <1>1 DEF MaySleep
<1>3. ASSUME At(t, "get_fs"), oldfs' = fs[t], UNCHANGED fs PROVE FocusInv'
  <2>1. pc[t] = 8
    BY <1>3, IcmpPlaced DEF IcmpOps, Sends
  <2>2. Goto(t, 9)
    BY <1>1, <2>1
  <2>3. /\ InIoctl(t) /\ type[t] = "icmp" /\ pc[t] \in 3 .. 11
        /\ Pinging(t)' /\ pc'[t] = 9 /\ shared' = shared
        /\ Pinging(t) /\ IcmpInv(t) /\ Statics
        /\ own \in [Tasks -> 0 .. MaxSockets] /\ data \in [Tasks -> {"undefined", "zero", "echo"}]
        /\ fs \in [Tasks -> {"USER_DS", "KERNEL_DS"}]
    BY <1>3, <2>2, IcmpHere DEF IcmpOps
  <2>4. oldfs' = "USER_DS"
    BY <1>3, <2>1, <2>3 DEF IcmpInv
  <2>5. IcmpInv(t)'
    BY <1>1, <1>3, <2>1, <2>3, <2>4 DEF IcmpInv
  <2>6. Statics'
    BY <1>1, <1>3, <2>3, <2>4 DEF Statics
  <2> QED
    BY <1>1, <1>2, <1>3, <2>2, <2>3, <2>4, <2>5, <2>6, IcmpStep
<1>4. ASSUME At(t, "set_fs"), fs' = [fs EXCEPT ![t] = "KERNEL_DS"], UNCHANGED oldfs PROVE FocusInv'
  <2>1. pc[t] = 9
    BY <1>4, IcmpPlaced DEF IcmpOps, Sends
  <2>2. Goto(t, 10)
    BY <1>1, <2>1
  <2>3. /\ InIoctl(t) /\ type[t] = "icmp" /\ pc[t] \in 3 .. 11
        /\ Pinging(t)' /\ pc'[t] = 10 /\ shared' = shared
        /\ Pinging(t) /\ IcmpInv(t) /\ Statics
        /\ own \in [Tasks -> 0 .. MaxSockets] /\ data \in [Tasks -> {"undefined", "zero", "echo"}]
        /\ fs \in [Tasks -> {"USER_DS", "KERNEL_DS"}]
    BY <1>4, <2>2, IcmpHere DEF IcmpOps
  <2>4. /\ fs' \in [Tasks -> {"USER_DS", "KERNEL_DS"}] /\ fs'[t] = "KERNEL_DS"
        /\ \A u \in Tasks \ {t} : fs'[u] = fs[u]
    BY <1>4, <2>3
  <2>5. IcmpInv(t)'
    BY <1>1, <1>4, <2>1, <2>3, <2>4 DEF IcmpInv
  <2>6. Statics'
    BY <1>1, <1>4, <2>3, <2>4 DEF Statics
  <2> QED
    BY <1>1, <1>2, <1>4, <2>2, <2>3, <2>4, <2>5, <2>6, IcmpStep
<1>5. ASSUME At(t, "restore_fs"), fs' = [fs EXCEPT ![t] = oldfs], UNCHANGED oldfs PROVE FocusInv'
  <2>1. pc[t] = 11
    BY <1>5, IcmpPlaced DEF IcmpOps, Sends
  <2>2. Goto(t, 12)
    BY <1>1, <2>1
  <2>3. /\ InIoctl(t) /\ type[t] = "icmp" /\ pc[t] \in 3 .. 11
        /\ Pinging(t)' /\ pc'[t] = 12 /\ shared' = shared
        /\ Pinging(t) /\ IcmpInv(t) /\ Statics
        /\ own \in [Tasks -> 0 .. MaxSockets] /\ data \in [Tasks -> {"undefined", "zero", "echo"}]
        /\ fs \in [Tasks -> {"USER_DS", "KERNEL_DS"}]
    BY <1>5, <2>2, IcmpHere DEF IcmpOps
  <2>4. /\ fs' \in [Tasks -> {"USER_DS", "KERNEL_DS"}] /\ fs'[t] = "USER_DS"
        /\ \A u \in Tasks \ {t} : fs'[u] = fs[u]
    BY <1>5, <2>1, <2>3 DEF IcmpInv
  <2>5. IcmpInv(t)'
    BY <1>1, <1>5, <2>1, <2>3, <2>4 DEF IcmpInv
  <2>6. Statics'
    BY <1>1, <1>5, <2>3, <2>4 DEF Statics
  <2> QED
    BY <1>1, <1>2, <1>5, <2>2, <2>3, <2>4, <2>5, <2>6, IcmpStep
<1> QED
  BY <1>3, <1>4, <1>5 DEF AddressLimit
-----------------------------------------------------------------------------
(***************************************************************************)
(* The beginning and the end of an ioctl, the device, and interrupts.      *)
(***************************************************************************)
\* A task that no step touches; that it shares icmp.c may be found out.
LEMMA Untouched ==
  ASSUME NEW u, InIoctl(u)' <=> InIoctl(u), shared[u] => shared'[u],
         type'[u] = type[u] /\ cpu'[u] = cpu[u] /\ pc'[u] = pc[u] /\ got'[u] = got[u],
         fs'[u] = fs[u] /\ own'[u] = own[u] /\ data'[u] = data[u],
         UNCHANGED <<irq, log, sock, icmp_hdr, iov, oldfs, sockets>>,
         VcpuInv(u) /\ LogInv(u) /\ IcmpInv(u)
  PROVE  VcpuInv(u)' /\ LogInv(u)' /\ IcmpInv(u)'
<1>1. Kind(u)' = Kind(u) /\ Last(u)' = Last(u)
  BY SameKind
<1>2. Pinging(u)' <=> Pinging(u)
  BY DEF Pinging, InIoctl
<1>3. VcpuInv(u)'
  BY <1>1 DEF VcpuInv
<1>4. LogInv(u)'
  BY <1>1 DEF LogInv
<1>5. IcmpInv(u)'
  BY <1>2 DEF IcmpInv
<1> QED
  BY <1>3, <1>4, <1>5

\* insmod, rmmod, open and release, none of which touches a test.
LEMMA CdevStepKeeps ==
  ASSUME FocusInv, CdevStep PROVE FocusInv'
<1>1. UNCHANGED <<taskVars, icmpVars, irq, hostVars>> /\ (ModuleStep \/ \E t \in Tasks : FileStep(t))
  BY DEF CdevStep
<1>2. UNCHANGED <<type, cpu, pc, retry, got, own, shared, fs, data, sock, icmp_hdr, iov, oldfs,
                  sockets, irq, log, file>>
  BY <1>1 DEF taskVars, icmpVars, hostVars
<1>3. CdevInv'
  BY <1>1, StepKeeps DEF FocusInv, CdevNext
<1>4. \A u \in Tasks : InIoctl(u)' <=> InIoctl(u)
  <2>1. task \in [Tasks -> {"out", "path", "opened", "ioctl"}]
    BY DEF FocusInv, CdevInv, CdevTypeOK
  <2>2. CASE ModuleStep
    BY <2>2 DEF ModuleStep, insmod, pcm_test_init, InitReturns, rmmod, pcm_cdev_exit, InIoctl
  <2>3. ASSUME NEW t \in Tasks, FileStep(t) PROVE \A u \in Tasks : InIoctl(u)' <=> InIoctl(u)
    BY <2>1, <2>3 DEF FileStep, FindNode, pcm_cdev_open, pcm_cdev_release, Move, InIoctl
  <2> QED
    BY <1>1, <2>2, <2>3
<1>5. TaskInv'
  <2> SUFFICES ASSUME NEW u \in Tasks PROVE VcpuInv(u)' /\ LogInv(u)' /\ IcmpInv(u)'
    BY DEF TaskInv
  <2>1. VcpuInv(u) /\ LogInv(u) /\ IcmpInv(u)
    BY DEF FocusInv, TaskInv
  <2> QED
    BY <1>2, <1>4, <2>1, Untouched
<1>6. Apart'
  BY <1>2, <1>4 DEF FocusInv, Apart
<1>7. Idle'
  BY <1>2, <1>4 DEF FocusInv, Idle, Busy, InIoctl
<1>8. FocusTypes'
  <2>1. \A u \in Tasks : Last(u)' = Last(u)
    BY <1>2, SameKind
  <2> QED
    BY <1>2, <2>1 DEF FocusInv, FocusTypes
<1>9. Statics' /\ fs' \in [Tasks -> {"USER_DS", "KERNEL_DS"}]
  BY <1>2 DEF FocusInv, Statics
<1>10. CkeventTrue'
  BY <1>2, FileStays DEF FocusInv
<1> QED
  BY <1>3, <1>5, <1>6, <1>7, <1>8, <1>9, <1>10 DEF FocusInv

\* A handler on a vCPU that takes interrupts reads the counter and may be logged.
LEMMA InterruptKeeps ==
  ASSUME FocusInv, NEW c \in Cpus, Interrupt(c) PROVE FocusInv'
<1>1. /\ irq[c] /\ log' = Logged(c, "rdtsc", 0)
      /\ UNCHANGED <<cdevVars, taskVars, icmpVars, irq, file>>
  BY DEF Interrupt
<1>2. UNCHANGED <<task, type, cpu, pc, retry, got, own, shared, fs, data, sock, icmp_hdr, iov,
                  oldfs, sockets, irq, file>>
  BY <1>1 DEF cdevVars, taskVars, icmpVars
<1>3. Longer(log', c, "rdtsc", 0)
  <2>1. "rdtsc" \in Logging
    BY DEF Logging, Reading
  <2> QED
    BY <1>1, <2>1, LoggedTo
<1>4. /\ log' \in [Cpus -> Logs \union {NotLogging}] /\ \A d \in Cpus \ {c} : log'[d] = log[d]
      /\ log'[c] = NotLogging <=> log[c] = NotLogging
  BY <1>3 DEF Longer
<1>5. \A d \in Cpus : log'[d] = NotLogging <=> log[d] = NotLogging
  BY <1>4
<1>6. CdevInv'
  BY <1>1, StepKeeps DEF FocusInv
<1>7. ASSUME NEW u \in Tasks PROVE VcpuInv(u)' /\ LogInv(u)' /\ IcmpInv(u)'
  <2>1. VcpuInv(u) /\ LogInv(u) /\ IcmpInv(u) /\ cpu[u] \in Cpus
    BY DEF FocusInv, TaskInv, FocusTypes
  <2>2. Kind(u)' = Kind(u) /\ Last(u)' = Last(u) /\ (InIoctl(u)' <=> InIoctl(u))
    BY <1>2, SameKind DEF InIoctl
  <2>3. Pinging(u)' <=> Pinging(u)
    BY <1>2 DEF Pinging
  <2>4. IcmpInv(u)'
    BY <1>2, <2>1, <2>3 DEF IcmpInv
  <2>5. VcpuInv(u)'
    BY <1>2, <1>5, <2>1, <2>2 DEF VcpuInv
  <2>6. CASE cpu[u] # c
    <3>1. log'[cpu'[u]] = log[cpu[u]]
      BY <1>2, <1>4, <2>1, <2>6
    <3> QED
      BY <1>2, <2>1, <2>2, <2>4, <2>5, <3>1 DEF LogInv
  <2>7. CASE cpu[u] = c /\ InIoctl(u)
    <3>1. pc[u] \notin 2 .. Last(u) \/ type[u] = "icmp"
      BY <1>1, <2>1, <2>7 DEF VcpuInv
    <3>2. (pc[u] # 3 /\ pc[u] # 4) \/ Kind(u) \notin Reading \union {"rdrand"}
      <4>1. Last(u) \in {4, 5, 13}
        BY Lasts
      <4>2. type[u] = "icmp" => Kind(u) = "icmp"
        BY KindOf, Zenon
      <4> QED
        BY <3>1, <4>1, <4>2 DEF Reading
    <3>3. LogInv(u)'
      BY <1>2, <2>2, <3>2 DEF LogInv
    <3> QED
      BY <2>4, <2>5, <3>3
  <2>8. CASE ~InIoctl(u)
    <3>1. LogInv(u)'
      BY <2>2, <2>8 DEF LogInv
    <3> QED
      BY <2>4, <2>5, <3>1
  <2> QED
    BY <2>6, <2>7, <2>8
<1>8. Apart'
  BY <1>2 DEF FocusInv, Apart, InIoctl
<1>9. Idle'
  BY <1>2, <1>5 DEF FocusInv, Idle, Busy
<1>10. FocusTypes'
  <2>1. \A u \in Tasks : Last(u)' = Last(u)
    BY <1>2, SameKind
  <2> QED
    BY <1>2, <1>4, <2>1 DEF FocusInv, FocusTypes
<1>11. Statics' /\ fs' \in [Tasks -> {"USER_DS", "KERNEL_DS"}]
  BY <1>2 DEF FocusInv, Statics
<1>12. CkeventTrue'
  BY <1>2, FileStays DEF FocusInv
<1> QED
  BY <1>6, <1>7, <1>8, <1>9, <1>10, <1>11, <1>12 DEF FocusInv, TaskInv

\* How long the script is that a task will have.
LEMMA NextLast ==
  ASSUME NEW u
  PROVE  Last(u)' \in {4, 5, 13}
<1> DEFINE k == ins_ioc(type'[u])
<1>1. k \in Commands
  BY DEF ins_ioc, Commands
<1>2. Last(u)' = Len(Scripts[k])
  BY DEF Last, Code
<1> HIDE DEF k
<1>3. Len(Scripts[k]) = Len(Tests(k)) + 4
  BY <1>1, ScriptItems, Zenon
<1>4. Len(Tests(k)) \in {0, 1, 9}
  BY <1>1, TestItems DEF Commands, Reading
<1> DEFINE m == Len(Tests(k)) l == Last(u)'
<1>5. l = m + 4 /\ m \in {0, 1, 9}
  BY <1>2, <1>3, <1>4
<1> HIDE DEF m, l
<1>6. l \in {4, 5, 13}
  BY <1>5
<1> QED
  BY <1>6 DEF l

\* The ioctl begins on a vCPU that has none, and marks all that will share icmp.c.
LEMMA pcm_cdev_ioctlKeeps ==
  ASSUME FocusInv, NEW t \in Tasks, NEW ty \in Types, NEW c \in Cpus, pcm_cdev_ioctl(t, ty, c)
  PROVE  FocusInv'
<1> DEFINE others == {u \in Tasks \ {t} : Pinging(u)}
<1>1. /\ ~Busy(c) /\ EnterIoctl(t)
      /\ type' = [type EXCEPT ![t] = ty] /\ cpu' = [cpu EXCEPT ![t] = c]
      /\ pc' = [pc EXCEPT ![t] = 1]
      /\ shared' = [u \in Tasks |-> IF u = t THEN others # {}
                                    ELSE shared[u] \/ (ty = "icmp" /\ u \in others)]
      /\ UNCHANGED <<retry, got, own, icmpVars, irq, hostVars>>
  BY DEF pcm_cdev_ioctl
<1>2. UNCHANGED <<retry, got, own, fs, data, sock, icmp_hdr, iov, oldfs, sockets, irq, log, file>>
  BY <1>1 DEF icmpVars, hostVars
<1>3. /\ type \in [Tasks -> Types \union {"cpuid"}] /\ cpu \in [Tasks -> Cpus]
      /\ pc \in [Tasks -> Nat \ {0}] /\ shared \in [Tasks -> BOOLEAN]
      /\ task \in [Tasks -> {"out", "path", "opened", "ioctl"}]
  BY DEF FocusInv, FocusTypes, CdevInv, CdevTypeOK
<1>4. /\ type'[t] = ty /\ cpu'[t] = c /\ pc'[t] = 1 /\ task[t] = "opened" /\ task'[t] = "ioctl"
      /\ \A u \in Tasks \ {t} : /\ type'[u] = type[u] /\ cpu'[u] = cpu[u] /\ pc'[u] = pc[u]
                                /\ task'[u] = task[u]
  BY <1>1, <1>3 DEF EnterIoctl, Move
<1>5. /\ shared' \in [Tasks -> BOOLEAN] /\ (others # {} => shared'[t])
      /\ \A u \in Tasks \ {t} : /\ shared[u] => shared'[u]
                                /\ ty = "icmp" /\ u \in others => shared'[u]
  <2> HIDE DEF others
  <2>1. \A u \in Tasks : (IF u = t THEN others # {}
                          ELSE shared[u] \/ (ty = "icmp" /\ u \in others)) \in BOOLEAN
    BY <1>3
  <2>2. shared' \in [Tasks -> BOOLEAN]
    BY <1>1, <2>1
  <2>3. others # {} => shared'[t]
    BY <1>1
  <2>4. \A u \in Tasks \ {t} : /\ shared[u] => shared'[u]
                               /\ ty = "icmp" /\ u \in others => shared'[u]
    BY <1>1
  <2> QED
    BY <2>2, <2>3, <2>4
<1>6. InIoctl(t)' /\ ~InIoctl(t) /\ \A u \in Tasks \ {t} : InIoctl(u)' <=> InIoctl(u)
  BY <1>4 DEF InIoctl
<1>7. \A u \in Tasks : InIoctl(u) => cpu[u] # c
  BY <1>1 DEF Busy, InIoctl
<1>8. irq[c] /\ log[c] = NotLogging
  BY <1>1 DEF FocusInv, Idle
<1>9. CdevInv'
  BY <1>1, StepKeeps DEF FocusInv, CdevNext, IoctlMove
<1>10. ASSUME NEW u \in Tasks PROVE VcpuInv(u)' /\ LogInv(u)' /\ IcmpInv(u)'
  <2>1. VcpuInv(u) /\ LogInv(u) /\ IcmpInv(u)
    BY DEF FocusInv, TaskInv
  <2>2. CASE u # t
    BY <1>2, <1>4, <1>5, <1>6, <2>1, <2>2, Untouched
  <2>3. CASE u = t
    <3>1. VcpuInv(t)'
      <4>1. Last(t)' \in {4, 5, 13}
        BY NextLast
      <4>2. irq'[cpu'[t]] /\ log'[cpu'[t]] = NotLogging
        BY <1>2, <1>4, <1>8
      <4>3. pc'[t] \notin 2 .. Last(t)' /\ pc'[t] \notin 3 .. Last(t)' - 1
        BY <1>4, <4>1
      <4> QED
        BY <4>2, <4>3 DEF VcpuInv
    <3>2. LogInv(t)'
      BY <1>4 DEF LogInv
    <3>3. IcmpInv(t)'
      <4>1. fs[t] = "USER_DS"
        BY <1>4, <2>1, <2>3 DEF IcmpInv, Pinging
      <4> QED
        BY <1>2, <1>4, <4>1 DEF IcmpInv
    <3> QED
      BY <2>3, <3>1, <3>2, <3>3
  <2> QED
    BY <2>2, <2>3
<1>11. Apart'
  <2> SUFFICES ASSUME NEW u \in Tasks, NEW v \in Tasks, InIoctl(u)', InIoctl(v)', u # v
               PROVE  /\ cpu'[u] # cpu'[v]
                      /\ type'[u] = "icmp" /\ type'[v] = "icmp" => shared'[u]
    BY Zenon DEF Apart
  <2>1. CASE u = t
    <3>1. InIoctl(v) /\ cpu[v] # c
      BY <1>6, <1>7, <2>1
    <3>2. type[v] = "icmp" => v \in others
      BY <2>1, <3>1 DEF Pinging, InIoctl
    <3>3. type[v] = "icmp" => shared'[t]
      BY <1>5, <3>2
    <3> QED
      BY <1>4, <2>1, <3>1, <3>3
  <2>2. CASE v = t
    <3>1. InIoctl(u) /\ cpu[u] # c
      BY <1>6, <1>7, <2>2
    <3>2. type[u] = "icmp" => u \in others
      BY <2>2, <3>1 DEF Pinging, InIoctl
    <3>3. type[u] = "icmp" /\ ty = "icmp" => shared'[u]
      BY <1>5, <2>2, <3>2
    <3> QED
      BY <1>4, <2>2, <3>1, <3>3
  <2>3. CASE u # t /\ v # t
    <3>1. /\ cpu[u] # cpu[v] /\ (type[u] = "icmp" /\ type[v] = "icmp" => shared[u])
      BY <1>6, <2>3 DEF FocusInv, Apart
    <3>2. /\ cpu'[u] = cpu[u] /\ cpu'[v] = cpu[v] /\ type'[u] = type[u] /\ type'[v] = type[v]
          /\ shared[u] => shared'[u]
      BY <1>4, <1>5, <2>3
    <3> QED
      BY <3>1, <3>2
  <2> QED
    BY <2>1, <2>2, <2>3
<1>12. Idle'
  <2>1. \A d \in Cpus : Busy(d) => Busy(d)'
    BY <1>4 DEF Busy
  <2> QED
    BY <1>2, <2>1 DEF FocusInv, Idle
<1>13. FocusTypes'
  <2>1. ASSUME NEW u \in Tasks PROVE pc'[u] <= Last(u)' + 1
    <3>1. CASE u = t
      <4>1. Last(t)' \in {4, 5, 13}
        BY NextLast
      <4> QED
        BY <1>4, <3>1, <4>1
    <3>2. CASE u # t
      BY <1>4, <3>2, SameKind DEF FocusInv, FocusTypes
    <3> QED
      BY <3>1, <3>2
  <2>2. /\ type' \in [Tasks -> Types \union {"cpuid"}] /\ cpu' \in [Tasks -> Cpus]
        /\ pc' \in [Tasks -> Nat \ {0}]
    BY <1>1, <1>3
  <2> QED
    BY <1>2, <1>5, <2>1, <2>2 DEF FocusInv, FocusTypes
<1>14. Statics' /\ fs' \in [Tasks -> {"USER_DS", "KERNEL_DS"}]
  BY <1>2 DEF FocusInv, Statics
<1>15. CkeventTrue'
  BY <1>2, FileStays DEF FocusInv
<1> QED
  BY <1>9, <1>10, <1>11, <1>12, <1>13, <1>14, <1>15 DEF FocusInv, TaskInv

\* The ioctl ends as it began: on a vCPU that takes interrupts and is not logged.
LEMMA IoctlReturnsKeeps ==
  ASSUME FocusInv, NEW t \in Tasks, IoctlReturns(t) PROVE FocusInv'
<1>1. /\ pc[t] > Last(t) /\ LeaveIoctl(t)
      /\ type' = [type EXCEPT ![t] = "cpuid"] /\ got' = [got EXCEPT ![t] = 0]
      /\ retry' = [retry EXCEPT ![t] = RDRAND_RETRY_LOOPS] /\ own' = [own EXCEPT ![t] = 0]
      /\ data' = [data EXCEPT ![t] = "undefined"] /\ shared' = [shared EXCEPT ![t] = FALSE]
      /\ cpu' = [cpu EXCEPT ![t] = 0] /\ pc' = [pc EXCEPT ![t] = 1]
      /\ UNCHANGED <<fs, sock, icmp_hdr, iov, oldfs, sockets, irq, hostVars>>
  BY DEF IoctlReturns, Last
<1>2. UNCHANGED <<fs, sock, icmp_hdr, iov, oldfs, sockets, irq, log, file>>
  BY <1>1 DEF hostVars
<1>3. FocusTypes /\ task \in [Tasks -> {"out", "path", "opened", "ioctl"}]
  BY DEF FocusInv, CdevInv, CdevTypeOK
<1>4. /\ pc'[t] = 1 /\ task[t] = "ioctl" /\ task'[t] = "opened"
      /\ \A u \in Tasks \ {t} :
           /\ type'[u] = type[u] /\ cpu'[u] = cpu[u] /\ pc'[u] = pc[u] /\ got'[u] = got[u]
           /\ own'[u] = own[u] /\ data'[u] = data[u] /\ shared'[u] = shared[u]
           /\ task'[u] = task[u]
  BY <1>1, <1>3 DEF LeaveIoctl, Move, FocusTypes
<1>5. InIoctl(t) /\ ~InIoctl(t)' /\ \A u \in Tasks \ {t} : InIoctl(u)' <=> InIoctl(u)
  BY <1>4 DEF InIoctl
<1>6. /\ pc[t] = Last(t) + 1 /\ Last(t) \in {4, 5, 13} /\ cpu[t] \in Cpus
      /\ VcpuInv(t) /\ IcmpInv(t)
  <2>1. pc[t] \in Nat \ {0} /\ pc[t] <= Last(t) + 1
    BY <1>5, Here
  <2>2. Last(t) \in {4, 5, 13} /\ cpu[t] \in Cpus /\ VcpuInv(t) /\ IcmpInv(t)
    BY <1>5, Here
  <2> QED
    BY <1>1, <2>1, <2>2
<1>7. irq[cpu[t]] /\ log[cpu[t]] = NotLogging
  BY <1>5, <1>6 DEF VcpuInv
<1>8. CdevInv'
  BY <1>1, StepKeeps DEF FocusInv, CdevNext, IoctlMove
<1>9. ASSUME NEW u \in Tasks PROVE VcpuInv(u)' /\ LogInv(u)' /\ IcmpInv(u)'
  <2>1. VcpuInv(u) /\ LogInv(u) /\ IcmpInv(u)
    BY DEF FocusInv, TaskInv
  <2>2. CASE u # t
    BY <1>2, <1>4, <1>5, <2>1, <2>2, Untouched
  <2>3. CASE u = t
    <3>1. VcpuInv(t)' /\ LogInv(t)'
      BY <1>5 DEF VcpuInv, LogInv
    <3>2. IcmpInv(t)'
      <4>1. Pinging(t) => Last(t) = 13
        BY Lasts DEF Pinging
      <4>2. fs[t] = "USER_DS"
        BY <1>6, <4>1 DEF IcmpInv
      <4>3. ~Pinging(t)'
        BY <1>4 DEF Pinging
      <4> QED
        BY <1>2, <4>2, <4>3 DEF IcmpInv
    <3> QED
      BY <2>3, <3>1, <3>2
  <2> QED
    BY <2>2, <2>3
<1>10. Apart'
  <2> SUFFICES ASSUME NEW u \in Tasks, NEW v \in Tasks, InIoctl(u)', InIoctl(v)', u # v
               PROVE  /\ cpu'[u] # cpu'[v]
                      /\ type'[u] = "icmp" /\ type'[v] = "icmp" => shared'[u]
    BY Zenon DEF Apart
  <2>1. u # t /\ v # t
    BY <1>5
  <2>2. /\ cpu[u] # cpu[v] /\ (type[u] = "icmp" /\ type[v] = "icmp" => shared[u])
    BY <1>5, <2>1 DEF FocusInv, Apart
  <2> QED
    BY <1>4, <2>1, <2>2
<1>11. Idle'
  <2> SUFFICES ASSUME NEW d \in Cpus, ~Busy(d)' PROVE irq'[d] /\ log'[d] = NotLogging
    BY Zenon DEF Idle
  <2>1. CASE d = cpu[t]
    BY <1>2, <1>7, <2>1
  <2>2. CASE d # cpu[t]
    <3>1. ~Busy(d)
      BY <1>4, <2>2 DEF Busy
    <3> QED
      BY <1>2, <3>1 DEF FocusInv, Idle
  <2> QED
    BY <2>1, <2>2
<1>12. FocusTypes'
  <2>1. ASSUME NEW u \in Tasks PROVE pc'[u] <= Last(u)' + 1
    <3>1. CASE u = t
      <4>1. Last(t)' \in {4, 5, 13}
        BY NextLast
      <4> QED
        BY <1>4, <3>1, <4>1
    <3>2. CASE u # t
      BY <1>3, <1>4, <3>2, SameKind DEF FocusTypes
    <3> QED
      BY <3>1, <3>2
  <2>2. /\ type' \in [Tasks -> Types \union {"cpuid"}] /\ cpu' \in [Tasks -> Cpus]
        /\ pc' \in [Tasks -> Nat \ {0}]
    BY <1>1, <1>3, FocusAssumption DEF FocusTypes
  <2>3. /\ retry' \in [Tasks -> 1 .. RDRAND_RETRY_LOOPS] /\ got' \in [Tasks -> Values \union {0}]
        /\ own' \in [Tasks -> 0 .. MaxSockets]
    BY <1>1, <1>3, FocusAssumption DEF FocusTypes
  <2>4. /\ data' \in [Tasks -> {"undefined", "zero", "echo"}] /\ shared' \in [Tasks -> BOOLEAN]
        /\ irq' \in [Cpus -> BOOLEAN] /\ log' \in [Cpus -> Logs \union {NotLogging}]
    BY <1>1, <1>2, <1>3 DEF FocusTypes
  <2> QED
    BY <2>1, <2>2, <2>3, <2>4 DEF FocusTypes
<1>13. Statics' /\ fs' \in [Tasks -> {"USER_DS", "KERNEL_DS"}]
  BY <1>2 DEF FocusInv, Statics
<1>14. CkeventTrue'
  BY <1>2, FileStays DEF FocusInv
<1> QED
  BY <1>8, <1>9, <1>10, <1>11, <1>12, <1>13, <1>14 DEF FocusInv, TaskInv
-----------------------------------------------------------------------------
(***************************************************************************)
(* The theorems.                                                           *)
(***************************************************************************)
LEMMA FocusInitInv == Init => FocusInv
<1> SUFFICES ASSUME Init PROVE FocusInv
  OBVIOUS
<1>1. CdevInv
  BY InitInv DEF Init
<1>2. task = [t \in Tasks |-> "out"]
  BY DEF Init, CdevInit
<1>3. \A t \in Tasks : ~InIoctl(t) /\ ~Pinging(t)
  BY <1>2 DEF InIoctl, Pinging
<1>4. FocusTypes
  <2>1. \A t \in Tasks : pc[t] <= Last(t) + 1
    <3> SUFFICES ASSUME NEW t \in Tasks PROVE pc[t] <= Last(t) + 1
      OBVIOUS
    <3>1. Last(t) \in {4, 5, 13}
      BY Lasts
    <3> QED
      BY <3>1 DEF Init
  <2>2. log \in [Cpus -> Logs \union {NotLogging}]
    BY DEF Init
  <2> QED
    BY <2>1, <2>2, FocusAssumption DEF Init, FocusTypes
<1>5. Statics
  BY DEF Init, Statics
<1>6. Apart /\ Idle
  BY <1>3 DEF Init, Apart, Idle
<1>7. TaskInv
  <2> SUFFICES ASSUME NEW t \in Tasks PROVE VcpuInv(t) /\ LogInv(t) /\ IcmpInv(t)
    BY DEF TaskInv
  <2>1. IcmpInv(t)
    BY <1>3 DEF Init, IcmpInv
  <2> QED
    BY <1>3, <2>1 DEF VcpuInv, LogInv
<1>8. CkeventTrue
  BY DEF Init, NoFile, CkeventTrue
<1> QED
  BY <1>1, <1>4, <1>5, <1>6, <1>7, <1>8 DEF Init, FocusInv

\* Every step keeps the invariant.
LEMMA FocusNextInv == FocusInv /\ [Next]_vars => FocusInv'
<1> SUFFICES ASSUME FocusInv, [Next]_vars PROVE FocusInv'
  OBVIOUS
<1>1. CASE CdevStep
  BY <1>1, CdevStepKeeps
<1>2. ASSUME NEW t \in Tasks, IoctlStep(t) PROVE FocusInv'
  BY <1>2, SetFlagKeeps, hypercallKeeps, ReadKeeps, rdrand_longKeeps, sock_createKeeps,
     FillHeaderKeeps, memcpyKeeps, PointIovKeeps, AddressLimitKeeps, sock_sendmsgKeeps,
     IoctlReturnsKeeps, Zenon DEF IoctlStep
<1>3. ASSUME NEW t \in Tasks, NEW ty \in Types, NEW c \in Cpus, pcm_cdev_ioctl(t, ty, c)
      PROVE  FocusInv'
  BY <1>3, pcm_cdev_ioctlKeeps
<1>4. ASSUME NEW c \in Cpus, Interrupt(c) PROVE FocusInv'
  BY <1>4, InterruptKeeps
<1>5. CASE UNCHANGED vars
  <2>1. UNCHANGED <<task, type, cpu, pc, retry, got, own, shared, fs, data, sock, icmp_hdr, iov,
                    oldfs, sockets, irq, log, file>> /\ UNCHANGED cdevVars
    BY <1>5 DEF vars, cdevVars, taskVars, icmpVars, hostVars
  <2>2. CdevInv'
    BY <2>1, StepKeeps DEF FocusInv
  <2>3. ASSUME NEW u \in Tasks PROVE VcpuInv(u)' /\ LogInv(u)' /\ IcmpInv(u)'
    BY <2>1, Untouched DEF FocusInv, TaskInv, InIoctl
  <2>4. FocusTypes'
    BY <2>1, SameKind DEF FocusInv, FocusTypes
  <2>5. (Statics /\ Apart /\ Idle)' /\ fs' \in [Tasks -> {"USER_DS", "KERNEL_DS"}]
    BY <2>1 DEF FocusInv, Statics, Apart, Idle, Busy, InIoctl
  <2>6. CkeventTrue'
    BY <2>1, FileStays DEF FocusInv
  <2> QED
    BY <2>2, <2>3, <2>4, <2>5, <2>6 DEF FocusInv, TaskInv
<1> QED
  BY <1>1, <1>2, <1>3, <1>4, <1>5 DEF Next

\* At every place of every script the vCPU, the log and the statics of icmp.c are
\* what FocusInv says.
THEOREM FocusInvariant == Spec => []FocusInv
  BY FocusInitInv, FocusNextInv, PTL DEF Spec

\* The variables of the driver, the kernel and the host keep their types, and
\* rdrand_long its retries.
THEOREM FocusTypeCorrect == Spec => []FocusTypeOK
<1>1. FocusInv => FocusTypeOK
  <2> SUFFICES ASSUME FocusInv PROVE FocusTypeOK
    OBVIOUS
  <2>1. pc \in [Tasks -> 1 .. 14]
    <3>1. \A t \in Tasks : pc[t] \in 1 .. 14
      <4> SUFFICES ASSUME NEW t \in Tasks PROVE pc[t] \in 1 .. 14
        OBVIOUS
      <4>1. Last(t) \in {4, 5, 13} /\ pc[t] \in Nat \ {0} /\ pc[t] <= Last(t) + 1
        BY Lasts DEF FocusInv, FocusTypes
      <4> QED
        BY <4>1
    <3> QED
      BY <3>1 DEF FocusInv, FocusTypes
  <2>2. sock \in 0 .. MaxSockets /\ sockets \subseteq 1 .. MaxSockets
    BY FocusAssumption DEF FocusInv, Statics
  <2> QED
    BY <2>1, <2>2 DEF FocusInv, FocusTypes, FocusTypeOK, CdevInv
<1> QED
  BY <1>1, FocusInvariant, PTL

\* icmp.c sends on a socket that exists, though all tasks share the variable that
\* points to it.
THEOREM SocketsLive == Spec => []LiveSocket
<1>1. FocusInv => LiveSocket
  <2> SUFFICES ASSUME FocusInv, NEW t \in Tasks, At(t, "sock_sendmsg") PROVE sock \in sockets
    BY DEF LiveSocket
  <2>1. Pinging(t) /\ pc[t] = 10
    BY IcmpPlaced DEF IcmpOps, Sends
  <2> QED
    BY <2>1 DEF FocusInv, TaskInv, IcmpInv
<1> QED
  BY <1>1, FocusInvariant, PTL

\* A task that was alone in icmp_test has sent its own complete message on its own
\* socket.
THEOREM MessagesOwn == Spec => []OwnMessage
<1>1. FocusInv => OwnMessage
  <2> SUFFICES ASSUME FocusInv, NEW t \in Tasks, At(t, "sock_sendmsg")
               PROVE  shared[t] \/ (sock = own[t] /\ iov = t /\ data[t] = "echo")
    BY DEF OwnMessage
  <2>1. Pinging(t) /\ pc[t] = 10
    BY IcmpPlaced DEF IcmpOps, Sends
  <2>2. IcmpInv(t)
    BY DEF FocusInv, TaskInv
  <2>3. ~shared[t] => sock = own[t] /\ iov = t /\ data[t] = "echo"
    BY <2>1, <2>2 DEF IcmpInv
  <2> QED
    BY <2>3
<1> QED
  BY <1>1, FocusInvariant, PTL

\* A task leaves the ioctl with the address limit it came in with, and its vCPU
\* with interrupts enabled and no longer logged.
THEOREM LeavesAsItCame == Spec => []TaskRestored
<1>1. FocusInv => TaskRestored
  BY DEF FocusInv, TaskInv, IcmpInv, Pinging, Idle, TaskRestored
<1> QED
  BY <1>1, FocusInvariant, PTL

\* ckevent prints of a test what the guest has read in it.
THEOREM EventsTrue == Spec => []CkeventTrue
<1>1. FocusInv => CkeventTrue
  BY DEF FocusInv
<1> QED
  BY <1>1, FocusInvariant, PTL

=============================================================================
