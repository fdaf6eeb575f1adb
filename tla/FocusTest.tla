----------------------------- MODULE FocusTest -----------------------------
(***************************************************************************)
(* focus_test: pcmtest, on one or several vCPUs of the guest, has the      *)
(* driver execute one instruction between the hypercalls 102 and 103; the  *)
(* host logs what the instruction gave, and ckevent prints the first       *)
(* record of that log, to be compared with what the guest printed.         *)
(* A pcmtest is a task of PcmCdev.                                         *)
(*                                                                         *)
(* External: the instructions' results; a host that logs, per vCPU, what   *)
(* it intercepts between the two hypercalls, and at 103 writes the log to  *)
(* /tmp/event.bin; the kernel's sockets; a scheduler that leaves a task in *)
(* the kernel on its vCPU until it is done.                                *)
(***************************************************************************)
EXTENDS PcmCdev, Integers

CONSTANTS
  Cpus,       \* the vCPUs
  Types,      \* the arguments of -t that pcmtest is given
  Values,     \* what an instruction can give
  RDRAND_RETRY_LOOPS,
  MaxSockets, \* how many sockets the kernel has
  Ioctls,     \* bound: how many ioctls are issued
  Interrupts  \* bound: how many interrupts are taken

ASSUME FocusAssumption ==
  /\ 0 \in Cpus
  /\ Values \subseteq Nat \ {0}
  /\ RDRAND_RETRY_LOOPS \in Nat \ {0}
  /\ MaxSockets \in Nat /\ Ioctls \in Nat /\ Interrupts \in Nat

VARIABLES
  type,     \* the argument of each pcmtest
  cpu,      \* the vCPU of its ioctl
  pc,       \* where it is in the script of its command
  retry,    \* the local of rdrand_long
  got,      \* what the test read last (history)
  fs,       \* the address limit of each task
  data,     \* the message on its stack
  own,      \* the socket that its sock_create made (history)
  shared,   \* whether its ICMP ever overlapped another (history)
  sock, icmp_hdr, iov, oldfs,   \* the statics of icmp.c
  sockets,  \* the sockets the kernel has given out
  irq,      \* whether interrupts are enabled, per vCPU
  log,      \* the host's log of each vCPU, NotLogging outside the hypercalls
  file,     \* /tmp/event.bin: whose log it is, and its records
  ioctls, taken

taskVars == <<type, cpu, pc, retry, got, own, shared, ioctls>>
icmpVars == <<fs, data, sock, icmp_hdr, iov, oldfs, sockets>>
hostVars == <<log, file, taken>>
vars == <<cdevVars, taskVars, icmpVars, irq, hostVars>>

NotLogging == <<"not", "logging", "now">>
NoFile == [type |-> "none", got |-> 0, records |-> <<>>]

-----------------------------------------------------------------------------
Do(op, arg) == <<op, arg>>

cpuid_test  == <<Do("read", "cpuid")>>
rdpmc_test  == <<Do("read", "rdpmc")>>
rdseed_test == <<Do("read", "rdseed")>>
rdtsc_test  == <<Do("read", "rdtsc")>>
rdtscp_test == <<Do("read", "rdtscp")>>
mmio_test   == <<Do("read", "mmio")>>
rdrand_test == <<Do("rdrand", 0)>>
pio_test    == <<>>

\* Mutants of icmp_test: the message is copied before the header is filled in;
\* the limit is saved after it was changed.
CopiedFirst ==
  <<Do("sock_create", 0), Do("icmp_hdr", "zero"), Do("memcpy", 0), Do("icmp_hdr", "echo"),
    Do("iov", 0), Do("get_fs", 0), Do("set_fs", 0), Do("sock_sendmsg", 0),
    Do("restore_fs", 0)>>
SavedLate ==
  <<Do("sock_create", 0), Do("icmp_hdr", "zero"), Do("icmp_hdr", "echo"), Do("memcpy", 0),
    Do("iov", 0), Do("set_fs", 0), Do("get_fs", 0), Do("sock_sendmsg", 0),
    Do("restore_fs", 0)>>

\* memset and the three assignments; what msg is set to never changes.
icmp_test ==
  <<Do("sock_create", 0), Do("icmp_hdr", "zero"), Do("icmp_hdr", "echo"), Do("memcpy", 0),
    Do("iov", 0), Do("get_fs", 0), Do("set_fs", 0), Do("sock_sendmsg", 0),
    Do("restore_fs", 0)>>

\* pcmtest knows no type "invd": like any other it issues CPUID.
Commands == {"cpuid", "rdpmc", "rdrand", "rdseed", "rdtsc", "rdtscp", "pio", "mmio", "icmp"}
ins_ioc(ty) == IF ty \in Commands THEN ty ELSE "cpuid"

Tests(c) ==
  CASE c = "cpuid"  -> cpuid_test
    [] c = "rdpmc"  -> rdpmc_test
    [] c = "rdrand" -> rdrand_test
    [] c = "rdseed" -> rdseed_test
    [] c = "rdtsc"  -> rdtsc_test
    [] c = "rdtscp" -> rdtscp_test
    [] c = "pio"    -> pio_test
    [] c = "mmio"   -> mmio_test
    [] c = "icmp"   -> icmp_test

\* Mutant of Script: interrupts stay enabled.
NotDisabled(c) == <<Do("hypercall", 102)>> \o Tests(c) \o <<Do("hypercall", 103)>>

\* pcmtest's commands pass the checks.
Script(c) ==
  <<Do("irq", FALSE), Do("hypercall", 102)>> \o Tests(c)
    \o <<Do("hypercall", 103), Do("irq", TRUE)>>

-----------------------------------------------------------------------------
Init ==
  /\ CdevInit
  /\ type = [t \in Tasks |-> "cpuid"]
  /\ cpu = [t \in Tasks |-> 0]
  /\ pc = [t \in Tasks |-> 1]
  /\ retry = [t \in Tasks |-> RDRAND_RETRY_LOOPS]
  /\ got = [t \in Tasks |-> 0]
  /\ fs = [t \in Tasks |-> "USER_DS"]
  /\ data = [t \in Tasks |-> "undefined"]
  /\ own = [t \in Tasks |-> 0]
  /\ shared = [t \in Tasks |-> FALSE]
  /\ sock = 0 /\ icmp_hdr = "zero" /\ iov = "NULL" /\ oldfs = "zero"
  /\ sockets = {}
  /\ irq = [c \in Cpus |-> TRUE]
  /\ log = [c \in Cpus |-> NotLogging]
  /\ file = NoFile
  /\ ioctls = 0 /\ taken = 0

Busy(c) == \E t \in Tasks : task[t] = "ioctl" /\ cpu[t] = c
Pinging(t) == task[t] = "ioctl" /\ type[t] = "icmp"

\* pcmtest -t ty.
pcm_cdev_ioctl(t, ty, c) ==
  /\ ~Busy(c) /\ ioctls < Ioctls
  /\ EnterIoctl(t)
  /\ type' = [type EXCEPT ![t] = ty]
  /\ cpu' = [cpu EXCEPT ![t] = c]
  /\ pc' = [pc EXCEPT ![t] = 1]
  /\ LET others == {u \in Tasks \ {t} : Pinging(u)} IN
       shared' = [u \in Tasks |-> IF u = t THEN others # {}
                                  ELSE shared[u] \/ (ty = "icmp" /\ u \in others)]
  /\ ioctls' = ioctls + 1
  /\ UNCHANGED <<retry, got, own, icmpVars, irq, hostVars>>

Scripts == [c \in Commands |-> Script(c)]
Code(t) == Scripts[ins_ioc(type[t])]
At(t, op) == task[t] = "ioctl" /\ pc[t] <= Len(Code(t)) /\ Code(t)[pc[t]][1] = op
Arg(t) == Code(t)[pc[t]][2]
Goto(t, l) == pc' = [pc EXCEPT ![t] = l] /\ UNCHANGED <<cdevVars, type, cpu, shared, ioctls>>
Step(t) == Goto(t, pc[t] + 1)
Local == UNCHANGED <<retry, got, own>>

SetFlag(t) ==
  /\ At(t, "irq")
  /\ irq' = [irq EXCEPT ![cpu[t]] = Arg(t)]
  /\ Step(t) /\ Local /\ UNCHANGED <<icmpVars, hostVars>>

hypercall(t) ==
  /\ At(t, "hypercall")
  /\ IF Arg(t) = 102
       THEN log' = [log EXCEPT ![cpu[t]] = <<>>] /\ UNCHANGED file
       ELSE /\ file' = [type |-> type[t], got |-> got[t], records |-> log[cpu[t]]]
            /\ log' = [log EXCEPT ![cpu[t]] = NotLogging]
  /\ Step(t) /\ Local /\ UNCHANGED <<icmpVars, irq, taken>>

\* Of the records only the first, and whether there are more, is ever asked for.
Logged(c, ins, v) ==
  IF log[c] = NotLogging \/ Len(log[c]) = 2 THEN log
  ELSE [log EXCEPT ![c] = Append(@, <<ins, v>>)]

\* rdseed_long is not tried again: a failure reads as 0.
Read(t) ==
  /\ At(t, "read")
  /\ \E v \in Values \union (IF Arg(t) = "rdseed" THEN {0} ELSE {}) :
       got' = [got EXCEPT ![t] = v] /\ log' = Logged(cpu[t], Arg(t), v)
  /\ Step(t) /\ UNCHANGED <<retry, own, icmpVars, irq, file, taken>>

\* Mutant of Retried: without a limit.
RetriedForever(t) == TRUE

Retried(t) == retry[t] > 1

\* Mutant of rdrand_long: the unsigned retry wraps round instead of ending the loop.
RetryWraps(t) ==
  /\ At(t, "rdrand")
  /\ \E v \in Values \union {0} :
       /\ got' = [got EXCEPT ![t] = v]
       /\ log' = Logged(cpu[t], "rdrand", v)
       /\ IF v = 0
            THEN /\ Goto(t, pc[t])
                 /\ retry' = [retry EXCEPT ![t] = IF @ > 1 THEN @ - 1 ELSE RDRAND_RETRY_LOOPS]
            ELSE Step(t) /\ UNCHANGED retry
  /\ UNCHANGED <<own, icmpVars, irq, file, taken>>

rdrand_long(t) ==
  /\ At(t, "rdrand")
  /\ \E v \in Values \union {0} :
       /\ got' = [got EXCEPT ![t] = v]
       /\ log' = Logged(cpu[t], "rdrand", v)
       /\ IF v = 0 /\ Retried(t)
            THEN Goto(t, pc[t]) /\ retry' = [retry EXCEPT ![t] = @ - 1]
            ELSE Step(t) /\ UNCHANGED retry
  /\ UNCHANGED <<own, icmpVars, irq, file, taken>>

\* A task that slept comes back with interrupts enabled.
MaySleep(t) == irq' \in {irq, [irq EXCEPT ![cpu[t]] = TRUE]}

sock_create(t) ==
  /\ At(t, "sock_create")
  /\ \/ \E s \in 1 .. MaxSockets \ sockets :
          /\ sock' = s /\ own' = [own EXCEPT ![t] = s] /\ sockets' = sockets \union {s}
          /\ Step(t)
     \/ Goto(t, Len(Code(t)) - 1) /\ UNCHANGED <<sock, own, sockets>>
  /\ MaySleep(t)
  /\ UNCHANGED <<retry, got, fs, data, icmp_hdr, iov, oldfs, hostVars>>

FillHeader(t) ==
  /\ At(t, "icmp_hdr")
  /\ icmp_hdr' = Arg(t)
  /\ Step(t) /\ Local /\ UNCHANGED <<fs, data, sock, iov, oldfs, sockets, irq, hostVars>>

memcpy(t) ==
  /\ At(t, "memcpy")
  /\ data' = [data EXCEPT ![t] = icmp_hdr]
  /\ Step(t) /\ Local /\ UNCHANGED <<fs, sock, icmp_hdr, iov, oldfs, sockets, irq, hostVars>>

PointIov(t) ==
  /\ At(t, "iov")
  /\ iov' = t
  /\ Step(t) /\ Local /\ UNCHANGED <<fs, data, sock, icmp_hdr, oldfs, sockets, irq, hostVars>>

\* Mutant of AddressLimit: with the sock_release that the source has commented out.
Released(t) ==
  /\ \/ At(t, "get_fs") /\ oldfs' = fs[t] /\ UNCHANGED <<fs, sockets>>
     \/ At(t, "set_fs") /\ fs' = [fs EXCEPT ![t] = "KERNEL_DS"] /\ UNCHANGED <<oldfs, sockets>>
     \/ /\ At(t, "restore_fs") /\ fs' = [fs EXCEPT ![t] = oldfs] /\ UNCHANGED oldfs
        /\ sockets' = sockets \ {sock}
  /\ Step(t) /\ Local /\ UNCHANGED <<data, sock, icmp_hdr, iov, irq, hostVars>>

AddressLimit(t) ==
  /\ \/ At(t, "get_fs") /\ oldfs' = fs[t] /\ UNCHANGED fs
     \/ At(t, "set_fs") /\ fs' = [fs EXCEPT ![t] = "KERNEL_DS"] /\ UNCHANGED oldfs
     \/ At(t, "restore_fs") /\ fs' = [fs EXCEPT ![t] = oldfs] /\ UNCHANGED oldfs
  /\ Step(t) /\ Local /\ UNCHANGED <<data, sock, icmp_hdr, iov, sockets, irq, hostVars>>

sock_sendmsg(t) ==
  /\ At(t, "sock_sendmsg")
  /\ MaySleep(t)
  /\ Step(t) /\ Local /\ UNCHANGED <<icmpVars, hostVars>>

IoctlReturns(t) ==
  /\ pc[t] > Len(Code(t))
  /\ LeaveIoctl(t)
  /\ type' = [type EXCEPT ![t] = "cpuid"]
  /\ got' = [got EXCEPT ![t] = 0]
  /\ retry' = [retry EXCEPT ![t] = RDRAND_RETRY_LOOPS]
  /\ own' = [own EXCEPT ![t] = 0]
  /\ data' = [data EXCEPT ![t] = "undefined"]
  /\ shared' = [shared EXCEPT ![t] = FALSE]
  /\ cpu' = [cpu EXCEPT ![t] = 0]
  /\ pc' = [pc EXCEPT ![t] = 1]
  /\ UNCHANGED <<ioctls, fs, sock, icmp_hdr, iov, oldfs, sockets, irq, hostVars>>

\* The handler of an interrupt reads the counter.
Interrupt(c) ==
  /\ irq[c] /\ taken < Interrupts
  /\ taken' = taken + 1
  /\ log' = Logged(c, "rdtsc", 0)
  /\ UNCHANGED <<cdevVars, taskVars, icmpVars, irq, file>>

IoctlStep(t) ==
  /\ task[t] = "ioctl"
  /\ \/ SetFlag(t) \/ hypercall(t) \/ Read(t) \/ rdrand_long(t)
     \/ sock_create(t) \/ FillHeader(t) \/ memcpy(t) \/ PointIov(t) \/ AddressLimit(t)
     \/ sock_sendmsg(t) \/ IoctlReturns(t)

CdevStep ==
  /\ ModuleStep \/ \E t \in Tasks : FileStep(t)
  /\ UNCHANGED <<taskVars, icmpVars, irq, hostVars>>

Next ==
  \/ CdevStep
  \/ \E t \in Tasks : \/ IoctlStep(t)
                      \/ \E ty \in Types, c \in Cpus : pcm_cdev_ioctl(t, ty, c)
  \/ \E c \in Cpus : Interrupt(c)

Spec == Init /\ [][Next]_vars /\ \A t \in Tasks : WF_vars(IoctlStep(t))

-----------------------------------------------------------------------------
\* What ckevent -t ty prints: nothing of ICMP, PIO and INVD, of MMIO only how
\* many words there were, else the value in the first record.
ckevent(ty) ==
  CASE ty \in {"cpuid", "rdpmc", "rdrand", "rdseed", "rdtsc", "rdtscp"} ->
         IF file.records = <<>> THEN 0 ELSE file.records[1][2]
    [] ty = "mmio" -> IF file.records = <<>> THEN 0 ELSE 1

-----------------------------------------------------------------------------
\* The types of the variables; rdrand_long never starts a round with no retry
\* left.
FocusTypeOK ==
  /\ CdevTypeOK
  /\ type \in [Tasks -> Types \union {"cpuid"}] /\ cpu \in [Tasks -> Cpus]
  /\ pc \in [Tasks -> 1 .. 14] /\ retry \in [Tasks -> 1 .. RDRAND_RETRY_LOOPS]
  /\ got \in [Tasks -> Values \union {0}] /\ own \in [Tasks -> 0 .. MaxSockets]
  /\ fs \in [Tasks -> {"USER_DS", "KERNEL_DS"}]
  /\ data \in [Tasks -> {"undefined", "zero", "echo"}] /\ shared \in [Tasks -> BOOLEAN]
  /\ sock \in 0 .. MaxSockets /\ sockets \subseteq 1 .. MaxSockets
  /\ irq \in [Cpus -> BOOLEAN]

\* What icmp.c sends, through statics that every task uses, is the complete
\* message of the task that sends it, on the socket that task made, unless
\* another task was in icmp_test at some time during the test.
OwnMessage ==
  \A t \in Tasks : At(t, "sock_sendmsg") =>
    shared[t] \/ (sock = own[t] /\ iov = t /\ data[t] = "echo")

\* Even when tasks overlap, and whichever sock_create failed, a message is sent
\* on a socket that exists.  (It does because none is ever released.)
LiveSocket == \A t \in Tasks : At(t, "sock_sendmsg") => sock \in sockets

\* A task comes out of the ioctl with the address limit it came in with, though
\* icmp.c keeps the limit of all tasks in one static; and a vCPU without an
\* ioctl takes interrupts and is not logged.
TaskRestored ==
  /\ \A t \in Tasks : task[t] # "ioctl" => fs[t] = "USER_DS"
  /\ \A c \in Cpus : ~Busy(c) => irq[c] /\ log[c] = NotLogging

\* The host's file, checked with the type that pcmtest was started with, shows
\* what the test read in the guest, whatever interrupts and the other vCPUs did;
\* but for an RDRAND that was tried again, whose failed attempt comes first.
CkeventTrue ==
  /\ file.type \in {"cpuid", "rdpmc", "rdseed", "rdtsc", "rdtscp"} =>
       ckevent(file.type) = file.got
  /\ file.type = "rdrand" => ckevent("rdrand") \in {file.got, 0}
  /\ file.type = "rdrand" /\ Len(file.records) = 1 => ckevent("rdrand") = file.got
  /\ file.type = "mmio" => ckevent("mmio") = 1

\* Every ioctl of a pcmtest returns.
PcmtestEnds == \A t \in Tasks : task[t] = "ioctl" ~> task[t] # "ioctl"
=============================================================================
