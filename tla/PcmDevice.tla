----------------------------- MODULE PcmDevice -----------------------------
(***************************************************************************)
(* The ioctl of pcm-unit/driver/pcm_test_mod.c, on the device PcmCdev: it  *)
(* runs the tests of one command on the vCPU it is issued on.  Tasks on    *)
(* several vCPUs have ioctls under way at once, while an administrator     *)
(* reloads the module.                                                     *)
(*                                                                         *)
(* An ioctl is a script, the sequence of its accesses to what vCPUs share  *)
(* or what outlives it.  Of the tests, test_tsc, test_tsc_adjust and       *)
(* test_msr are modelled on the registers they use; of test_kvm_clock and  *)
(* test_ioapic, which have modules of their own, only the waits for other  *)
(* vCPUs and the interrupt flag are; test_setjmp has neither.              *)
(*                                                                         *)
(* External: the registers, and a scheduler that leaves a task in the      *)
(* kernel on its vCPU until it is done.                                    *)
(***************************************************************************)
EXTENDS PcmCdev, Integers, FiniteSets

CONSTANTS
  Cpus,         \* the online vCPUs
  Commands,     \* the commands they issue
  HasTscAdjust, \* whether cpuid announces IA32_TSC_ADJUST
  Ioctls,       \* bound: how many ioctls are issued
  Interrupts,   \* bound: how many interrupts hit a vCPU in an ioctl
  FirstTsc      \* the values the counters can start from

\* 100000000000ull of the tests, and the counters' 2^64, scaled down.
Big   == 40
Width == 1024
EIO   == Width - 5

Named    == {"TSC_RW", "SETJMP", "MSR_RW", "KVMCLOCK_TEST", "IOAPIC_TEST", "TSC_ADJUST"}
Rejected == {"bad_magic", "bad_nr", "bad_address"}

ASSUME PcmAssumption ==
  /\ IsFiniteSet(Cpus) /\ 0 \in Cpus /\ Cpus = 0 .. Cardinality(Cpus) - 1
  /\ Commands \subseteq Named \union Rejected \union {"unknown"}
  /\ HasTscAdjust \in BOOLEAN
  /\ Ioctls \in Nat /\ Interrupts \in Nat
  /\ FirstTsc \subseteq 0 .. Width - 1

VARIABLES
  cmd,      \* the command of its ioctl
  cpu,      \* the vCPU of its ioctl
  pc,       \* where it is in the script of the command
  local,    \* its local variables t1, t2, t3, t5 and p
  ioctls,   \* how many ioctls were issued
  irq,      \* whether interrupts are enabled, per vCPU
  bracket,  \* the hypercalls 102 of a vCPU less its hypercalls 103
  tsc,      \* the counter of each vCPU, as it would be with no adjustment
  adjust,   \* its IA32_TSC_ADJUST
  hits,     \* how many interrupts hit an ioctl
  aux,      \* its MSR_TSC_AUX; the kernel puts the number of the vCPU there
  crashed,  \* the guest is lost
  written,  \* the vCPUs whose MSR_IA32_TSC was written (history)
  reports   \* the reports that would have said FAIL (history)

ioctlVars  == <<cmd, cpu, pc, local, ioctls>>
timeVars   == <<tsc, adjust, aux, crashed, hits, written, reports>>
vars == <<cdevVars, ioctlVars, irq, bracket, timeVars>>

Locals == {"t1", "t2", "t3", "t5", "p"}
NoLocals == [v \in Locals |-> 0]

-----------------------------------------------------------------------------
(***************************************************************************)
(* The ioctl.                                                              *)
(***************************************************************************)
Do(op, arg) == <<op, arg>>

\* rdtscll, wrmsrl_safe and rdmsrl_safe.
rdtsc(v)        == Do("rdtsc", v)
write_tsc(x)    == Do("write_tsc", x)
write_adjust(x) == Do("write_adjust", x)
read_adjust(v)  == Do("read_adjust", v)
report(r)       == Do("report", r)

test_wrtsc(x) == <<write_tsc(x), rdtsc("t2")>>
test_rdtscp(x) == <<Do("rdtscp", x)>>
test_tsc ==
  <<rdtsc("t1"), rdtsc("t2")>> \o test_wrtsc(0) \o test_wrtsc(Big)
    \o test_rdtscp(0) \o test_rdtscp(10) \o test_rdtscp(256)

\* Mutant of test_tsc_adjust: IA32_TSC_ADJUST is not set back to 0.
AdjustKept ==
  IF HasTscAdjust
    THEN <<read_adjust("p"), report("initialization"),
           rdtsc("t1"), write_adjust(Big), rdtsc("t2"), read_adjust("t3"),
           report("read_write"), report("adjustment"),
           rdtsc("t1"), write_tsc(Big), rdtsc("t2"), read_adjust("t5"),
           report("tsc_write")>>
    ELSE <<>>

test_tsc_adjust ==
  IF HasTscAdjust
    THEN <<read_adjust("p"), report("initialization"),
           rdtsc("t1"), write_adjust(Big), rdtsc("t2"), read_adjust("t3"),
           report("read_write"), report("adjustment"),
           write_adjust(0), read_adjust("t3"), report("read_write_zero"),
           rdtsc("t1"), write_tsc(Big), rdtsc("t2"), read_adjust("t5"),
           report("tsc_write")>>
    ELSE <<>>

\* One access for each MSR of the table; test_syscall_lazy_load comes after
\* MSR_GS_BASE, which nothing survives.
msr_info == <<"IA32_SYSENTER_CS", "MSR_IA32_SYSENTER_ESP", "IA32_SYSENTER_EIP",
  "MSR_IA32_MISC_ENABLE", "MSR_IA32_CR_PAT", "MSR_FS_BASE", "MSR_GS_BASE",
  "MSR_KERNEL_GS_BASE", "MSR_EFER", "MSR_LSTAR", "MSR_CSTAR", "MSR_SYSCALL_MASK">>
test_msr == [i \in DOMAIN msr_info |-> Do("msr_rw", msr_info[i])]

\* smp_call_function_single on the ids from 0 up, waiting for each.
test_kvm_clock == [i \in 1 .. Cardinality(Cpus) |-> Do("call", i - 1)]

\* Mutant of test_ioapic: the SMP wait with interrupts off.
ioapic_without_sti == IF Cardinality(Cpus) > 1 THEN <<Do("call", 1)>> ELSE <<>>

\* irq_enable, and in the SMP tests the wait for what vCPU 1 was asked to do.
test_ioapic ==
  <<Do("sti", 0)>> \o IF Cardinality(Cpus) > 1 THEN <<Do("call", 1)>> ELSE <<>>

\* The switch, with the cases that fall through.
Tests(c) ==
  CASE c = "TSC_RW"        -> test_tsc
    [] c = "MSR_RW"        -> test_msr
    [] c = "KVMCLOCK_TEST" -> test_kvm_clock \o test_ioapic \o test_tsc_adjust
    [] c = "IOAPIC_TEST"   -> test_ioapic \o test_tsc_adjust
    [] c = "TSC_ADJUST"    -> test_tsc_adjust
    [] OTHER               -> <<>>

\* Mutant of Script: the arguments are checked after local_irq_disable.
ChecksLate(c) ==
  IF c \in Rejected THEN <<Do("cli", 0)>>
  ELSE <<Do("cli", 0), Do("hypercall", 102)>> \o Tests(c)
         \o <<Do("hypercall", 103), Do("sti", 0)>>

\* Mutant of Script: the two hypercalls are swapped.
BracketSwapped(c) ==
  IF c \in Rejected THEN <<>>
  ELSE <<Do("cli", 0), Do("hypercall", 103)>> \o Tests(c)
         \o <<Do("hypercall", 102), Do("sti", 0)>>

\* The checks, which return before anything else; then the body.
Script(c) ==
  IF c \in Rejected THEN <<>>
  ELSE <<Do("cli", 0), Do("hypercall", 102)>> \o Tests(c)
         \o <<Do("hypercall", 103), Do("sti", 0)>>

\* The conditions of the report lines of tsc_adjust.c, in u64 arithmetic.
Minus(a, b) == (a - b) % Width
Holds(r, l) ==
  CASE r = "initialization"  -> l.p = 0
    [] r = "read_write"      -> l.t3 = Big
    [] r = "adjustment"      -> Minus(l.t2, l.t1) >= l.t3
    [] r = "read_write_zero" -> l.t3 = 0
    [] r = "tsc_write"       ->
         Minus(Minus(Big, l.t5), l.t1) <= (2 * Minus(l.t2, Big)) % Width

-----------------------------------------------------------------------------
Init ==
  /\ CdevInit
  /\ cmd = [t \in Tasks |-> "unknown"]
  /\ cpu = [t \in Tasks |-> 0]
  /\ pc = [t \in Tasks |-> 1]
  /\ local = [t \in Tasks |-> NoLocals]
  /\ ioctls = 0
  /\ irq = [c \in Cpus |-> TRUE]
  /\ bracket = [c \in Cpus |-> 0]
  /\ tsc \in [Cpus -> FirstTsc]
  /\ adjust = [c \in Cpus |-> 0]
  /\ aux = [c \in Cpus |-> c]
  /\ crashed = FALSE
  /\ hits = 0 /\ written = {} /\ reports = {}

(***************************************************************************)
(* The tasks.                                                              *)
(***************************************************************************)
\* On a vCPU where no other task is in the kernel.
Busy(c) == \E t \in Tasks : task[t] = "ioctl" /\ cpu[t] = c

pcm_cdev_ioctl(t, c, k) ==
  /\ ioctls < Ioctls /\ ~Busy(k)
  /\ EnterIoctl(t)
  /\ cpu' = [cpu EXCEPT ![t] = k]
  /\ cmd' = [cmd EXCEPT ![t] = c]
  /\ pc' = [pc EXCEPT ![t] = 1]
  /\ ioctls' = ioctls + 1
  /\ UNCHANGED <<local, irq, bracket, timeVars>>

Scripts == [c \in Commands \union {"unknown"} |-> Script(c)]
Code(t) == Scripts[cmd[t]]

\* A task comes to an access of this kind.
At(t, op) == task[t] = "ioctl" /\ pc[t] <= Len(Code(t)) /\ Code(t)[pc[t]][1] = op
Arg(t) == Code(t)[pc[t]][2]
Step(t) ==
  /\ pc' = [pc EXCEPT ![t] = @ + 1]
  /\ UNCHANGED <<cdevVars, cmd, cpu, ioctls>>

SetFlag(t) ==
  /\ \/ At(t, "cli") /\ irq' = [irq EXCEPT ![cpu[t]] = FALSE]
     \/ At(t, "sti") /\ irq' = [irq EXCEPT ![cpu[t]] = TRUE]
  /\ Step(t)
  /\ UNCHANGED <<local, bracket, timeVars>>

hypercall(t) ==
  /\ At(t, "hypercall")
  /\ bracket' = [bracket EXCEPT ![cpu[t]] = IF Arg(t) = 102 THEN @ + 1 ELSE @ - 1]
  /\ Step(t)
  /\ UNCHANGED <<local, irq, timeVars>>

\* A function runs in place on the caller's vCPU, and on another when that one
\* takes interrupts.
Call(t) ==
  /\ At(t, "call")
  /\ Arg(t) \in Cpus /\ (Arg(t) = cpu[t] \/ irq[Arg(t)])
  /\ Step(t)
  /\ UNCHANGED <<local, irq, bracket, timeVars>>

\* Every access of the counter takes one tick.
Counter(c) == (tsc[c] + adjust[c]) % Width
Tick(c, n) == tsc' = [tsc EXCEPT ![c] = (@ + n) % Width]

ReadInto(t, x) ==
  /\ local' = [local EXCEPT ![t][Arg(t)] = x]
  /\ Tick(cpu[t], 1)
  /\ Step(t)
  /\ UNCHANGED <<irq, bracket, adjust, aux, crashed, hits, written, reports>>

ReadTsc(t)    == At(t, "rdtsc") /\ ReadInto(t, Counter(cpu[t]))
ReadAdjust(t) == At(t, "read_adjust") /\ ReadInto(t, adjust[cpu[t]])

WriteAdjust(t) ==
  /\ At(t, "write_adjust")
  /\ adjust' = [adjust EXCEPT ![cpu[t]] = Arg(t)]
  /\ Tick(cpu[t], 1)
  /\ Step(t)
  /\ UNCHANGED <<local, irq, bracket, aux, crashed, hits, written, reports>>

\* A write of the counter shows in IA32_TSC_ADJUST.
WriteTsc(t) ==
  /\ At(t, "write_tsc")
  /\ adjust' = [adjust EXCEPT ![cpu[t]] = Minus(Arg(t), tsc[cpu[t]])]
  /\ written' = written \union {cpu[t]}
  /\ Tick(cpu[t], 1)
  /\ Step(t)
  /\ UNCHANGED <<local, irq, bracket, aux, crashed, hits, reports>>

Report(t) ==
  /\ At(t, "report")
  /\ reports' = IF Holds(Arg(t), local[t]) THEN reports
                ELSE reports \union {<<Arg(t), cmd[t], cpu[t] \in written>>}
  /\ Step(t)
  /\ UNCHANGED <<local, irq, bracket, tsc, adjust, aux, crashed, hits, written>>

RdtscpAux(t) ==
  /\ At(t, "rdtscp")
  /\ aux' = [aux EXCEPT ![cpu[t]] = Arg(t)]
  /\ Step(t)
  /\ UNCHANGED <<local, irq, bracket, tsc, adjust, crashed, hits, written, reports>>

\* test_msr_rw compares the return code of rdmsrl_safe with the value it
\* expects, whatever was read; the printk after MSR_GS_BASE never returns.
test_msr_rw(t) ==
  /\ At(t, "msr_rw")
  /\ \E r \in {0, EIO} :
       reports' = IF r = Big THEN reports
                  ELSE reports \union {<<"msr_rw", cmd[t], cpu[t] \in written>>}
  /\ crashed' = (Arg(t) = "MSR_GS_BASE")
  /\ Step(t)
  /\ UNCHANGED <<local, irq, bracket, tsc, adjust, aux, hits, written>>

IoctlReturns(t) ==
  /\ pc[t] > Len(Code(t))
  /\ LeaveIoctl(t)
  /\ pc' = [pc EXCEPT ![t] = 1]
  /\ cmd' = [cmd EXCEPT ![t] = "unknown"]
  /\ local' = [local EXCEPT ![t] = NoLocals]
  /\ cpu' = [cpu EXCEPT ![t] = 0]
  /\ UNCHANGED <<ioctls, irq, bracket, timeVars>>

\* An interrupt hits the vCPU of an ioctl that has enabled them: three ticks.
Interrupt(c) ==
  /\ Busy(c) /\ irq[c] /\ hits < Interrupts
  /\ hits' = hits + 1
  /\ Tick(c, 3)
  /\ UNCHANGED <<cdevVars, ioctlVars, irq, bracket, adjust, aux, crashed, written, reports>>

\* A guest that is lost does nothing any more.
IoctlStep(t) ==
  /\ ~crashed /\ task[t] = "ioctl"
  /\ \/ SetFlag(t) \/ hypercall(t) \/ Call(t) \/ ReadTsc(t) \/ ReadAdjust(t)
     \/ WriteAdjust(t) \/ WriteTsc(t) \/ Report(t) \/ RdtscpAux(t) \/ test_msr_rw(t)
     \/ IoctlReturns(t)

CdevStep ==
  /\ ModuleStep \/ \E t \in Tasks : FileStep(t)
  /\ UNCHANGED <<ioctlVars, irq, bracket, timeVars>>

Next ==
  \/ ~crashed /\ CdevStep
  \/ \E t \in Tasks :
       \/ IoctlStep(t)
       \/ \E c \in Commands, k \in Cpus : ~crashed /\ pcm_cdev_ioctl(t, c, k)
  \/ \E c \in Cpus : ~crashed /\ Interrupt(c)

Safety == Init /\ [][Next]_vars

\* A task in the kernel is not preempted.
Spec == Safety /\ \A t \in Tasks : WF_vars(IoctlStep(t))

-----------------------------------------------------------------------------
\* Every variable holds a value of its type; the brackets do not nest.
DeviceTypeOK ==
  /\ CdevTypeOK
  /\ cmd \in [Tasks -> Commands \union {"unknown"}] /\ cpu \in [Tasks -> Cpus]
  /\ pc \in [Tasks -> Nat \ {0}]
  /\ local \in [Tasks -> [Locals -> 0 .. Width - 1]]
  /\ ioctls \in 0 .. Ioctls
  /\ irq \in [Cpus -> BOOLEAN] /\ bracket \in [Cpus -> {0, 1}]
  /\ tsc \in [Cpus -> 0 .. Width - 1] /\ adjust \in [Cpus -> 0 .. Width - 1]
  /\ aux \in [Cpus -> Nat] /\ crashed \in BOOLEAN
  /\ hits \in 0 .. Interrupts /\ written \subseteq Cpus

\* When no ioctl runs on a vCPU its interrupts are on and the host's bracket is
\* closed, whichever of its checks, tests and fall-through cases the last took;
\* IA32_TSC_ADJUST and MSR_TSC_AUX are changed only where a test wrote the counter.
VcpuRestored ==
  \A c \in Cpus : ~Busy(c) =>
    /\ irq[c] /\ bracket[c] = 0
    /\ c \in written \/ (adjust[c] = 0 /\ aux[c] = c)

\* On registers that work, test_msr_rw reports every MSR, since it compares a
\* return code; the reports of tsc_adjust.c can fail in two ways
\* only: the first and the adjustment after the counter of the same vCPU was
\* written by an earlier command, and the bound on the latency of a write when
\* the test is reached through test_ioapic, which leaves interrupts on.
FalseReportsExplained ==
  \A r \in reports :
    \/ r[1] = "msr_rw"
    \/ r[1] \in {"initialization", "adjustment"} /\ r[3]
    \/ r[1] = "tsc_write" /\ r[2] \in {"KVMCLOCK_TEST", "IOAPIC_TEST"}

\* The only ioctls that wait for one another for ever: two KVMCLOCK_TESTs, each
\* with interrupts off and waiting for the other's vCPU.
CrossCall ==
  \E t, u \in Tasks :
    /\ t # u /\ cmd[t] = "KVMCLOCK_TEST" /\ cmd[u] = "KVMCLOCK_TEST"
    /\ At(t, "call") /\ Arg(t) = cpu[u] /\ ~irq[cpu[t]]
    /\ At(u, "call") /\ Arg(u) = cpu[t] /\ ~irq[cpu[u]]

\* Every ioctl returns, whatever runs on the other vCPUs, unless two
\* KVMCLOCK_TESTs have called each other, or MSR_RW has lost the guest.
IoctlsReturn ==
  \A t \in Tasks : task[t] = "ioctl" ~> task[t] # "ioctl" \/ CrossCall \/ crashed
=============================================================================
