----------------------------- MODULE TestModule -----------------------------
(***************************************************************************)
(* test_module: insmod runs the test case tc_no on the vCPU it is started  *)
(* on, in the init function, and rmmod unloads the module again, so that   *)
(* tc_no 1 (vmxon) and tc_no 2 (vmxoff) are two loads of one module.       *)
(*                                                                         *)
(* A test is a script of instructions.  Each is executed, or refused by    *)
(* the host with an exception: rdmsr_safe and wrmsr_safe turn that into an *)
(* error; after any other the init function is killed where it stands, and *)
(* the module can neither be unloaded nor loaded again.                    *)
(*                                                                         *)
(* External: the instructions, the host's refusals, the module loader of   *)
(* linux-4.1, for which the Makefile builds.                               *)
(***************************************************************************)
EXTENDS Integers, Sequences, FiniteSets, SequencesExt

CONSTANTS
  Cpus,      \* the vCPUs
  TestCases, \* the values of tc_no
  Loads      \* bound: how often the module is loaded

ASSUME TestModuleAssumption ==
  /\ IsFiniteSet(Cpus)
  /\ TestCases \subseteq Nat
  /\ Loads \in Nat

VARIABLES
  denied,  \* the instructions the host refuses
  tcs,     \* the tc_no of every load so far
  module,  \* "out", "init", "live" or "stuck"
  cpu,     \* the vCPU init runs on
  pc,      \* where it is in the test
  heap,    \* what is allocated: what for, and by which load
  vmxon_region, \* the load that allocated it, 0 for NULL
  fctl,    \* IA32_FEATURE_CONTROL of each vCPU
  vmxe,    \* CR4.VMXE of each vCPU
  vmx,     \* whose region a vCPU in VMX operation uses, 0 outside of it
  counted, \* a counter of the present test was not zero
  said     \* history: what was printed, and whether it was so

machine == <<fctl, vmxe, vmx>>
vars == <<denied, tcs, module, cpu, pc, heap, vmxon_region, machine, counted, said>>

LOCKED == "FEATURE_CONTROL_LOCKED"
VMXON  == "FEATURE_CONTROL_VMXON_ENABLED_OUTSIDE_SMX"
test_bits == {LOCKED, VMXON}

-----------------------------------------------------------------------------
(***************************************************************************)
(* The tests.                                                              *)
(***************************************************************************)
Do(op, arg) == <<op, arg>>
exec(ins)  == Do("exec", ins)
say(line)  == Do("say", line)
kmalloc(p) == Do("kmalloc", p)

\* In the order of test_pt.c.
pt_msrs == <<"RTIT_CTL_MSR", "RTIT_STATUS_MSR", "RTIT_CR3_MATCH", "RTIT_OUTPUT_BASE",
  "RTIT_OUTPUT_MASK", "RTIT_ADDR0_A", "RTIT_ADDR0_B", "RTIT_ADDR1_A", "RTIT_ADDR1_B",
  "RTIT_ADDR2_A", "RTIT_ADDR2_B", "RTIT_ADDR3_A", "RTIT_ADDR3_B">>

each(op, msrs) == [k \in DOMAIN msrs |-> Do(op, msrs[k])]
test_pt_rdmsr == each("rdmsr_safe", pt_msrs) \o <<say("rdmsr for PT msrs success")>>
test_pt_wrmsr == each("wrmsr_safe", pt_msrs) \o <<say("wrmsr success for PT MSRs")>>

test_vmxon ==
  <<exec("rdmsrl"), Do("wrmsrl", 0), exec("write_cr4"), exec("vmxon"),
    say("vmxon succeed")>>

test_rdpmc == [k \in 1 .. 4 |-> exec("rdpmc")] \o <<say("rdpmc test PASS!")>>
test_mpx   == <<Do("rdmsr_safe", "BNDCFGS"), say(""), Do("wrmsr_safe", "BNDCFGS"), say("")>>
test_xsaves == <<kmalloc("fx"), exec("xsaves"), say("xsaves is executed.")>>
test_xsetbv ==
  <<exec("xsetbv"), say("Legal xsetbv test is executed."),
    exec("xsetbv_illegal"), say("Illegal xsetbv test is executed.")>>

\* The switch of init_test_mode.
Script(n) ==
  CASE n = 1  -> <<kmalloc("vmxon_region")>> \o test_vmxon
    [] n = 2  -> <<exec("vmxoff")>>
    [] n = 3  -> test_pt_rdmsr \o test_pt_wrmsr
    [] n = 4  -> test_rdpmc
    [] n = 5  -> <<exec("invd"), say("invd executed")>>
    [] n = 6  -> <<exec("getsec"), say("getsec executed")>>
    [] n = 7  -> <<exec("monitor"), say("monitor executed")>>
    [] n = 8  -> <<exec("mwait"), say("mwait executed")>>
    [] n = 9  -> test_mpx
    [] n = 10 -> test_xsaves
    [] n = 11 -> test_xsetbv
    [] n = 12 -> <<exec("write_cr0"), say("read write cr0 succeeded.")>>
    [] n = 13 -> <<exec("write_cr4"), say("read write cr4 succeeded.")>>
    [] OTHER  -> <<say("Invalid tc_no")>>

-----------------------------------------------------------------------------
\* What a host may refuse: nothing, one thing, or all of it.
Refusable ==
  UNION {{s \in ToSet(Script(n)) : s[1] \in {"exec", "rdmsr_safe", "wrmsr_safe"}} : n \in TestCases}
Policies == {{}, Refusable} \union {{x} : x \in Refusable}

\* The firmware has left IA32_FEATURE_CONTROL alike on all vCPUs.
Init ==
  /\ denied \in Policies
  /\ tcs = <<>> /\ module = "out" /\ cpu \in Cpus /\ pc = 1
  /\ heap = {} /\ vmxon_region = 0
  /\ \E f \in {{}, {LOCKED}, test_bits} : fctl = [c \in Cpus |-> f]
  /\ vmxe = [c \in Cpus |-> FALSE]
  /\ vmx = [c \in Cpus |-> 0]
  /\ counted = FALSE /\ said = {}

Loaded == Len(tcs)
tc_no  == tcs[Loaded]

\* Mutant of insmod: what a load allocated is remembered by the next.
StaleData(n, c) ==
  /\ module = "out" /\ Loaded < Loads
  /\ module' = "init" /\ tcs' = Append(tcs, n) /\ cpu' = c /\ pc' = 1
  /\ counted' = FALSE
  /\ UNCHANGED <<denied, heap, vmxon_region, machine, said>>

\* The module's data is fresh at every load.
insmod(n, c) ==
  /\ module = "out" /\ Loaded < Loads
  /\ module' = "init" /\ tcs' = Append(tcs, n) /\ cpu' = c /\ pc' = 1
  /\ vmxon_region' = 0 /\ counted' = FALSE
  /\ UNCHANGED <<denied, heap, machine, said>>

Running == module = "init" /\ pc <= Len(Script(tc_no))
Now(op)  == Running /\ Script(tc_no)[pc][1] = op
Arg      == Script(tc_no)[pc][2]

GoOn == pc' = pc + 1 /\ UNCHANGED <<denied, tcs, module, cpu>>
Oops == module' = "stuck" /\ UNCHANGED <<denied, tcs, cpu, pc>>
Kept == UNCHANGED <<heap, vmxon_region, said>>

Alloc ==
  /\ Now("kmalloc")
  /\ heap' = heap \union {<<Arg, Loaded>>}
  /\ vmxon_region' = IF Arg = "vmxon_region" THEN Loaded ELSE vmxon_region
  /\ GoOn
  /\ UNCHANGED <<machine, counted, said>>

kfree == heap \ {<<"vmxon_region", vmxon_region>>}

\* Instructions that have no effect on what is modelled, and those that have.
Plain == {"rdmsrl", "invd", "getsec", "monitor", "mwait", "xsaves", "xsetbv", "write_cr0"}

Faults(ins) ==
  \/ exec(ins) \in denied
  \/ ins = "xsetbv_illegal"
  \/ ins = "vmxoff" /\ vmx[cpu] = 0
  \/ ins = "vmxon" /\ ~(vmxe[cpu] /\ test_bits \subseteq fctl[cpu])

Exception ==
  /\ Now("exec") /\ Faults(Arg)
  /\ Oops
  /\ Kept /\ UNCHANGED <<machine, counted>>

Executed(ins) == Now("exec") /\ Arg = ins /\ ~Faults(ins) /\ GoOn /\ Kept

Execute ==
  /\ \E ins \in Plain : Executed(ins)
  /\ UNCHANGED <<machine, counted>>

rdpmc ==
  /\ Executed("rdpmc")
  /\ counted' \in {counted, TRUE}
  /\ UNCHANGED machine

\* Only if a bit is missing is it set, which faults on a register that is locked.
WriteFeatureControl ==
  /\ Now("wrmsrl")
  /\ \/ test_bits \subseteq fctl[cpu] /\ GoOn /\ UNCHANGED fctl
     \/ /\ ~(test_bits \subseteq fctl[cpu]) /\ LOCKED \notin fctl[cpu]
        /\ fctl' = [fctl EXCEPT ![cpu] = @ \union test_bits]
        /\ GoOn
     \/ ~(test_bits \subseteq fctl[cpu]) /\ LOCKED \in fctl[cpu] /\ Oops /\ UNCHANGED fctl
  /\ Kept /\ UNCHANGED <<vmxe, vmx, counted>>

\* tc_no 13 sets another bit of CR4.
WriteCr4 ==
  /\ Executed("write_cr4")
  /\ vmxe' = [vmxe EXCEPT ![cpu] = @ \/ tc_no = 1]
  /\ UNCHANGED <<fctl, vmx, counted>>

\* Nobody writes the revision identifier into the region: it is whatever the
\* memory held.  If it is wrong, or VMX is on already, only a flag says so.
Vmxon ==
  /\ Executed("vmxon")
  /\ \/ vmx[cpu] = 0 /\ vmx' = [vmx EXCEPT ![cpu] = vmxon_region]
     \/ UNCHANGED vmx
  /\ UNCHANGED <<fctl, vmxe, counted>>

Vmxoff ==
  /\ Executed("vmxoff")
  /\ vmx' = [vmx EXCEPT ![cpu] = 0]
  /\ UNCHANGED <<fctl, vmxe, counted>>

\* What a line says, where that can be wrong.
Refused(op, k) == Do(op, pt_msrs[k]) \in denied
So(line) ==
  CASE line = "rdmsr for PT msrs success" -> \A k \in DOMAIN pt_msrs : ~Refused("rdmsr_safe", k)
    [] line = "wrmsr success for PT MSRs" -> \A k \in DOMAIN pt_msrs : ~Refused("wrmsr_safe", k)
    [] line = "vmxon succeed"             -> vmx[cpu] = Loaded
    [] line = "rdpmc test PASS!"          -> ~counted
    [] OTHER                              -> line # "Illegal xsetbv test is executed."

\* Mutant of SafeAccess: an error is not looked at.
ErrorIgnored ==
  /\ Now("rdmsr_safe") \/ Now("wrmsr_safe")
  /\ GoOn
  /\ UNCHANGED <<heap, vmxon_region, machine, counted, said>>

\* An error is printed with the MSR, and ends the loop (goto fail).
AfterSay == 1 + CHOOSE p \in pc .. Len(Script(tc_no)) :
              /\ Script(tc_no)[p][1] = "say"
              /\ \A q \in pc .. p - 1 : Script(tc_no)[q][1] # "say"
FirstRefused(op, msr) ==
  \A k \in DOMAIN pt_msrs : Refused(op, k) =>
    \E j \in 1 .. k : pt_msrs[j] = msr /\ Refused(op, j)

SafeAccess ==
  /\ Now("rdmsr_safe") \/ Now("wrmsr_safe")
  /\ LET s == Script(tc_no)[pc] IN
       IF s \in denied
         THEN /\ pc' = AfterSay
              /\ said' = said \union {<<"failed", s[2] = "BNDCFGS" \/ FirstRefused(s[1], s[2])>>}
              /\ UNCHANGED <<denied, tcs, module, cpu>>
         ELSE GoOn /\ UNCHANGED said
  /\ UNCHANGED <<heap, vmxon_region, machine, counted>>

Say ==
  /\ Now("say")
  /\ said' = said \union {<<Arg, So(Arg)>>}
  /\ GoOn
  /\ UNCHANGED <<heap, vmxon_region, machine, counted>>

\* Mutant of InitReturns: the region is given back where it was allocated.
FreedOnReturn ==
  /\ module = "init" /\ pc > Len(Script(tc_no))
  /\ module' = "live" /\ heap' = kfree
  /\ UNCHANGED <<denied, tcs, cpu, pc, vmxon_region, machine, counted, said>>

InitReturns ==
  /\ module = "init" /\ pc > Len(Script(tc_no))
  /\ module' = "live"
  /\ UNCHANGED <<denied, tcs, cpu, pc, heap, vmxon_region, machine, counted, said>>

\* Mutant of exit_test_mode: the region is not given back.
RegionKept ==
  /\ module = "live"
  /\ module' = "out"
  /\ UNCHANGED <<denied, tcs, cpu, pc, heap, vmxon_region, machine, counted, said>>

exit_test_mode ==
  /\ module = "live"
  /\ module' = "out"
  /\ heap' = kfree
  /\ UNCHANGED <<denied, tcs, cpu, pc, vmxon_region, machine, counted, said>>

init_test_mode ==
  \/ Alloc \/ Exception \/ Execute \/ rdpmc \/ WriteFeatureControl
  \/ WriteCr4 \/ Vmxon \/ Vmxoff \/ SafeAccess \/ Say \/ InitReturns

Next ==
  \/ \E n \in TestCases, c \in Cpus : insmod(n, c)
  \/ init_test_mode
  \/ exit_test_mode

Spec == Init /\ [][Next]_vars

-----------------------------------------------------------------------------
\* The types of the variables; and the pointer that exit_test_mode passes to
\* kfree is what its own load allocated, never what an earlier one did.
TestModTypeOK ==
  /\ denied \subseteq Refusable /\ tcs \in Seq(TestCases)
  /\ module \in {"out", "init", "live", "stuck"} /\ cpu \in Cpus
  /\ tcs # <<>> => pc \in 1 .. Len(Script(tc_no)) + 1
  /\ heap \subseteq {"fx", "vmxon_region"} \X (1 .. Loaded)
  /\ vmxon_region \in {0, Loaded}
  /\ fctl \in [Cpus -> SUBSET test_bits] /\ vmxe \in [Cpus -> BOOLEAN]
  /\ vmx \in [Cpus -> 0 .. Loaded] /\ counted \in BOOLEAN

\* As long as the load that gave its region to vmxon is in the kernel, even if
\* its init function was killed, the vCPU has that region.  (Its rmmod takes
\* the region away with VMX on: tc_no 2 can only be run by the next load.)
VmxRegionKept ==
  \A c \in Cpus : module # "out" /\ vmx[c] # 0 /\ vmx[c] = Loaded =>
    <<"vmxon_region", Loaded>> \in heap

\* What rmmod leaves allocated is the area of test_xsaves, once for each load
\* that ran it, and nothing else: exit_test_mode neither forgets a region nor
\* frees one that it should not.
HeapAccounted ==
  module = "out" => heap = {<<"fx", l>> : l \in {k \in 1 .. Loaded : tcs[k] = 10}}

\* A line is printed only when what it says is so, and an MSR is reported only
\* when it is the first of its list that is refused, but for two: "vmxon
\* succeed" comes also after a vmxon that only set a flag, and "rdpmc test
\* PASS!" after a counter that was reported to fail.
SaidTruly ==
  \A s \in said : s[2] \/ s[1] \in {"vmxon succeed", "rdpmc test PASS!"}
=============================================================================
