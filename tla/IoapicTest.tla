----------------------------- MODULE IoapicTest -----------------------------
(***************************************************************************)
(* test_ioapic of pcm-unit/driver/ioapic.c, as the ioctl IOAPIC_TEST runs  *)
(* it.  Three contexts meet at the devices of IoApic: the tests themselves *)
(* ("main", on the vCPU of the ioctl), their interrupt handlers ("isr", on *)
(* vCPU 0, where the entries point to) and the functions that the SMP      *)
(* tests have vCPU 1 run ("helper").                                       *)
(*                                                                         *)
(* Each C function is a script: the sequence of its accesses to devices    *)
(* and shared variables.  Each kind of access is one action, taken by      *)
(* whichever context comes to one.                                         *)
(*                                                                         *)
(* A vCPU takes a request that is pending and enabled before its next      *)
(* instruction: the line is raised by an instruction of the same vCPU that *)
(* traps to the device.  Handlers run with interrupts off (gate type 14).  *)
(***************************************************************************)
EXTENDS IoApic, Sequences, FiniteSets

CONSTANTS
  Online,  \* the ids of the online vCPUs
  Caller,  \* the one the ioctl runs on
  Ioctls,  \* bound: how often IOAPIC_TEST is issued
  MaxCount \* bound: no handler runs more often than this

ASSUME IoapicAssumption ==
  /\ Online \in {{0}, {0, 1}, {0, 2}} /\ Caller \in Online
  /\ Ioctls \in Nat /\ MaxCount \in Nat

VARIABLES
  dev,      \* the IOAPIC and the local APIC of vCPU 0
  idt,      \* the vectors with a handler in boot_idt
  running,  \* whether the ioctl runs
  ioctls,   \* how many were issued
  iflag,    \* the interrupt flag of the caller
  halted,   \* the caller is in hlt
  pc,       \* where each context is in its script
  vec,      \* the vector whose handler runs on vCPU 0, or 0
  job,      \* the function vCPU 1 runs, or None
  ipi,      \* the one it was asked to run and has not begun, or None
  entry,    \* the local redirection entry of a context
  word,     \* what main read from a register: data_read, and the last one
  tries,    \* the loop variable i of test_ioapic_level_retrigger
  g,        \* how often each handler ran: g_isr_76 .. g_isr_9a, g_66, g_78
  g_rip,    \* where main was when the handler was last entered
  g_66_after_78,
  g_tmr_79,
  tmr_before,
  failed    \* history: the reports that were not as expected

cpuVars    == <<iflag, halted, vec, job, ipi>>
localVars  == <<entry, word, tries, tmr_before>>
countVars  == <<g, g_rip, g_66_after_78, g_tmr_79>>
vars == <<dev, idt, running, ioctls, pc, cpuVars, localVars, countVars, failed>>

None     == "none"
Contexts == {"main", "isr", "helper"}
Line     == \h0e  \* the one most tests use

-----------------------------------------------------------------------------
(***************************************************************************)
(* Scripts.                                                                *)
(***************************************************************************)
Do(op, arg) == [op |-> op, arg |-> arg]

\* An access to a register selects it first, then reads or writes the data.
Access(op, reg) == <<Do("select", reg), Do(op, reg)>>

ioapic_read_redir(l)  == Access("load", Low(l)) \o Access("load", High(l))
ioapic_write_redir(l) == Access("store", Low(l)) \o Access("store", High(l))

DataAccesses == {"load", "store", "old", "new", "flip", "ones", "zero"}

set_ioapic_redir(l, v, trig) ==
  <<Do("entry", [vector |-> v, trig_mode |-> trig, mask |-> FALSE])>>
    \o ioapic_write_redir(l)

\* Mutant of set_mask: the index is taken to be still that of the low half.
UnselectedMask(l, m) ==
  ioapic_read_redir(l) \o <<Do("mask", m), Do("store", Low(l))>> \o Access("store", High(l))

set_mask(l, m) == ioapic_read_redir(l) \o <<Do("mask", m)>> \o ioapic_write_redir(l)

set_irq_line(l, val) == <<Do("line", <<l, val>>)>>
toggle_irq_line(l)   == set_irq_line(l, 1) \o set_irq_line(l, 0)
eoi == <<Do("eoi", 0)>>

handle_irq_local(v) == <<Do("handle", v)>>
Report(test, expected) == <<Do("report", <<test, expected>>)>>

ioapic_reg_version ==
  Access("old", 1) \o Access("flip", 1) \o Access("new", 1) \o Report("version", 1)
ioapic_reg_id ==
  Access("old", 0) \o Access("flip", 0) \o Access("new", 0) \o Report("id", 1)
ioapic_arbitration_id ==
  Access("ones", 0) \o Access("new", 2) \o Report("arbitration", 1)
    \o Access("zero", 2) \o Access("new", 2) \o Report("arbitration", 1)

\* In a handler: set the line, but only on its n-th run.
OnRun(n, val) == <<Do("line_on_run", <<n, val>>)>>

\* The handlers, by vector.
Counting == <<Do("count", 0)>>
ioapic_isr_76 == Counting \o eoi

\* Mutant of ioapic_isr_77: the interrupt is ended before the line is lowered.
EoiBeforeLower == Counting \o eoi \o set_irq_line(Line, 0)

ioapic_isr_77 == Counting \o set_irq_line(Line, 0) \o eoi
ioapic_isr_78 == Counting \o eoi
ioapic_isr_66 == Counting \o eoi
ioapic_isr_79 == <<Do("tmr", 0)>> \o set_irq_line(Line, 0) \o eoi
ioapic_isr_98 == Counting \o OnRun(1, 0) \o OnRun(1, 1) \o set_irq_line(Line, 0) \o eoi
ioapic_isr_99 == Counting \o set_irq_line(Line, 0) \o eoi
ioapic_isr_9a == Counting \o OnRun(2, 0) \o eoi
ioapic_isr_81 == Counting \o set_irq_line(Line, 0) \o eoi

\* Mutant of ioapic_isr_82: the interrupt is not ended.
Unended == Counting \o set_irq_line(Line, 0)

ioapic_isr_82 == Counting \o set_irq_line(Line, 0) \o eoi
ioapic_isr_83 == Counting \o set_mask(Line, TRUE) \o eoi

Handler ==
  [v \in Vectors |->
     CASE v = \h66 -> ioapic_isr_66 [] v = \h76 -> ioapic_isr_76
       [] v = \h77 -> ioapic_isr_77 [] v = \h78 -> ioapic_isr_78
       [] v = \h79 -> ioapic_isr_79 [] v = \h81 -> ioapic_isr_81
       [] v = \h82 -> ioapic_isr_82 [] v = \h83 -> ioapic_isr_83
       [] v = \h98 -> ioapic_isr_98 [] v = \h99 -> ioapic_isr_99
       [] v = \h9a -> ioapic_isr_9a]

\* What vCPU 1 runs for the SMP tests (with its own interrupts off, and after
\* a delay: it may come to its accesses at any time).
toggle_irq_line_0x0e == toggle_irq_line(Line)
set_irq_line_0x0e    == set_irq_line(Line, 1)
Jobs == [toggle |-> toggle_irq_line_0x0e, set |-> set_irq_line_0x0e]

irq_disable == <<Do("cli", 0)>>
irq_enable  == <<Do("sti", 0)>>

\* The beginning all tests share: a handler, and an entry that leads to it.
Setup(v, trig) == handle_irq_local(v) \o set_ioapic_redir(Line, v, trig)

test_ioapic_edge_intr ==
  Setup(\h76, EDGE) \o toggle_irq_line(Line) \o Report("edge_intr", 1)
test_ioapic_level_intr ==
  Setup(\h77, LEVEL) \o set_irq_line(Line, 1) \o Report("level_intr", 1)

test_ioapic_simultaneous ==
  handle_irq_local(\h78) \o handle_irq_local(\h66)
    \o set_ioapic_redir(Line, \h78, EDGE) \o set_ioapic_redir(\h0f, \h66, EDGE)
    \o irq_disable \o toggle_irq_line(\h0f) \o toggle_irq_line(Line) \o irq_enable
    \o Report("simultaneous", 1)

test_ioapic_level_coalesce ==
  Setup(\h98, LEVEL) \o set_irq_line(Line, 1) \o Report("coalesce", 1)
test_ioapic_level_sequential ==
  Setup(\h99, LEVEL) \o set_irq_line(Line, 1) \o set_irq_line(Line, 1)
    \o Report("sequential", 1)

\* for (i = 0; i < 10; i++) { if (g_isr_9a == 2) break; sti; hlt; cli }
test_ioapic_level_retrigger ==
  Setup(\h9a, LEVEL) \o irq_disable \o set_irq_line(Line, 1)
    \o <<Do("until", 3), Do("hlt", 0)>> \o irq_disable \o <<Do("again", 3)>>
    \o irq_enable \o Report("retrigger", 1)

test_ioapic_edge_mask ==
  Setup(\h81, EDGE) \o set_mask(Line, TRUE) \o toggle_irq_line(Line)
    \o Report("edge_mask", 0) \o set_mask(Line, FALSE) \o set_irq_line(Line, 1)
    \o Report("edge_mask", 1)
test_ioapic_level_mask ==
  Setup(\h82, LEVEL) \o set_mask(Line, TRUE) \o set_irq_line(Line, 1)
    \o Report("level_mask", 0) \o set_mask(Line, FALSE) \o Report("level_mask", 1)

\* Mutant of test_ioapic_level_retrigger_mask: the line is left high.
LineLeftHigh ==
  Setup(\h83, LEVEL) \o set_irq_line(Line, 1) \o set_mask(Line, FALSE)
    \o Report("retrigger_mask", 1) \o set_mask(Line, FALSE)

test_ioapic_level_retrigger_mask ==
  Setup(\h83, LEVEL) \o set_irq_line(Line, 1) \o set_mask(Line, FALSE)
    \o Report("retrigger_mask", 1) \o set_irq_line(Line, 0) \o set_mask(Line, FALSE)

test_ioapic_edge_tmr(expected) ==
  Setup(\h79, EDGE) \o <<Do("tmr", 0)>> \o toggle_irq_line(Line)
    \o Report("edge_tmr", expected)
test_ioapic_level_tmr(expected) ==
  Setup(\h79, LEVEL) \o <<Do("tmr", 0)>> \o set_irq_line(Line, 1)
    \o Report("level_tmr", expected)


\* Mutant of SmpTest: the answer is reset only after vCPU 1 was called.
ResetAfterCall(trig, f, report, expected) ==
  Setup(\h79, trig) \o <<Do("tmr", 0), Do("call", f), Do("reset", 0), Do("await", 0)>>
    \o Report(report, expected)

\* while (g_tmr_79 == -1) i++, after vCPU 1 was told to touch the line.
SmpTest(trig, f, report, expected) ==
  <<Do("reset", 0)>> \o Setup(\h79, trig)
    \o <<Do("tmr", 0), Do("call", f), Do("await", 0)>> \o Report(report, expected)
test_ioapic_edge_tmr_smp(expected)  == SmpTest(EDGE, "toggle", "edge_tmr", expected)
test_ioapic_level_tmr_smp(expected) == SmpTest(LEVEL, "set", "level_tmr", expected)

test_ioapic ==
  irq_enable \o ioapic_reg_version \o ioapic_reg_id \o ioapic_arbitration_id
    \o test_ioapic_edge_intr \o test_ioapic_level_intr \o test_ioapic_simultaneous
    \o test_ioapic_level_coalesce \o test_ioapic_level_sequential
    \o test_ioapic_level_retrigger
    \o test_ioapic_edge_mask \o test_ioapic_level_mask
    \o test_ioapic_level_retrigger_mask
    \o test_ioapic_edge_tmr(0) \o test_ioapic_level_tmr(0)
    \o test_ioapic_level_tmr(1) \o test_ioapic_edge_tmr(1)
    \o IF Cardinality(Online) > 1
         THEN test_ioapic_edge_tmr_smp(0) \o test_ioapic_level_tmr_smp(0)
                \o test_ioapic_level_tmr_smp(1) \o test_ioapic_edge_tmr_smp(1)
         ELSE <<>>

Script(x) == CASE x = "main"   -> test_ioapic
               [] x = "isr"    -> Handler[vec]
               [] x = "helper" -> Jobs[job]

\* What report(...) would have said: the conditions are those of the source's
\* report lines, or the numbers its printk lines speak of.
Holds(test, expected) ==
  CASE test = "version"     -> word.new = word.old
    [] test = "id"          -> word.new = [word.old EXCEPT !.id = 15 - @]
    [] test = "arbitration" -> word.new = [id |-> 15, other |-> FALSE]
    [] test = "edge_intr"   -> g[\h76] = 1
    [] test = "level_intr"  -> g[\h77] = 1
    [] test = "simultaneous" ->
         g[\h66] > 0 /\ g[\h78] > 0 /\ g_66_after_78 > 0 /\ g_rip[\h66] = g_rip[\h78]
    [] test = "coalesce"    -> g[\h98] = 1
    [] test = "sequential"  -> g[\h99] = 2
    [] test = "retrigger"   -> g[\h9a] = 2
    [] test = "edge_mask"   -> g[\h81] = expected
    [] test = "level_mask"  -> g[\h82] = expected
    [] test = "retrigger_mask" -> g[\h83] = 2
    [] test = "edge_tmr"    -> tmr_before = expected /\ g_tmr_79 = 0
    [] test = "level_tmr"   -> tmr_before = expected /\ g_tmr_79 # 0

-----------------------------------------------------------------------------
Init ==
  /\ dev = QuietDevice /\ idt = {}
  /\ running = FALSE /\ ioctls = 0
  /\ iflag = TRUE /\ halted = FALSE
  /\ pc = [x \in Contexts |-> 1]
  /\ vec = 0 /\ job = None /\ ipi = None
  /\ entry = [x \in Contexts |-> QuietDevice.redir[Line]]
  /\ word = [old |-> ReadWord(QuietDevice), new |-> ReadWord(QuietDevice)]
  /\ tries = 0 /\ tmr_before = 0
  /\ g = [v \in Vectors |-> 0]
  /\ g_rip = [v \in Vectors |-> 0]
  /\ g_66_after_78 = 0 /\ g_tmr_79 = -1
  /\ failed = {}

\* On vCPU 0 a request is taken between any two instructions of the caller,
\* and a handler runs to its end before the caller goes on; on another vCPU
\* the caller and the handlers run side by side.
Enabled == Deliverable(dev) /\ (Caller = 0 => iflag)
MayRun ==
  /\ running /\ ~halted
  /\ Caller = 0 => vec = 0 /\ ~Enabled
  /\ Caller = 1 => job = None

Active(x) == CASE x = "main"   -> MayRun
               [] x = "isr"    -> vec # 0
               [] x = "helper" -> job # None

\* Context x comes to an access of this kind.
At(x, op) == Active(x) /\ pc[x] <= Len(Script(x)) /\ Script(x)[pc[x]].op = op
Arg(x) == Script(x)[pc[x]].arg
Jump(x, n) == pc' = [pc EXCEPT ![x] = @ + n]
Step(x) == Jump(x, 1) /\ UNCHANGED <<running, ioctls>>

(***************************************************************************)
(* The accesses.                                                           *)
(***************************************************************************)
OnDevice(x, d) ==
  /\ dev' = d
  /\ Step(x)
  /\ UNCHANGED <<idt, cpuVars, localVars, countVars, failed>>

Select(x) == At(x, "select") /\ OnDevice(x, [dev EXCEPT !.index = Arg(x)])
Store(x)  == At(x, "store") /\ OnDevice(x, WriteData(dev, entry[x]))
SetIrqLine(x) == At(x, "line") /\ OnDevice(x, SetLine(dev, Arg(x)[1], Arg(x)[2]))
SetOnRun(x) ==
  /\ At(x, "line_on_run")
  /\ OnDevice(x, IF g[vec] = Arg(x)[1] THEN SetLine(dev, Line, Arg(x)[2]) ELSE dev)
Eoi(x) == At(x, "eoi") /\ OnDevice(x, EndOfInterrupt(dev))

\* data_write = data_read ^ 0xffffffff, 0x0f000000 or 0.
WriteWord(x) ==
  \/ At(x, "flip") /\ OnDevice(x, WriteData(dev, Complement(word.old)))
  \/ At(x, "ones") /\ OnDevice(x, WriteData(dev, [id |-> 15, other |-> FALSE]))
  \/ At(x, "zero") /\ OnDevice(x, WriteData(dev, [id |-> 0, other |-> FALSE]))

\* To the locals of a function.
OnLocals(x) == Step(x) /\ UNCHANGED <<dev, idt, cpuVars, countVars, failed>>

ReadWordInto(x) ==
  /\ \/ At(x, "old") /\ word' = [word EXCEPT !.old = ReadWord(dev)]
     \/ At(x, "new") /\ word' = [word EXCEPT !.new = ReadWord(dev)]
  /\ OnLocals(x)
  /\ UNCHANGED <<entry, tries, tmr_before>>

SetEntry(x, e) ==
  /\ entry' = [entry EXCEPT ![x] = e]
  /\ OnLocals(x)
  /\ UNCHANGED <<word, tries, tmr_before>>

Load(x) ==
  /\ At(x, "load")
  /\ SetEntry(x, IF dev.index = Low(Line) THEN dev.redir[Line] ELSE entry[x])
NewEntry(x) == At(x, "entry") /\ SetEntry(x, Arg(x))
Mask(x)     == At(x, "mask") /\ SetEntry(x, [entry[x] EXCEPT !.mask = Arg(x)])

\* To the counters.
OnCounters(x) == Step(x) /\ UNCHANGED <<dev, idt, cpuVars, entry, word, tries, failed>>

Count(x) ==
  /\ At(x, "count")
  /\ g' = [g EXCEPT ![vec] = @ + 1]
  /\ g_rip' = [g_rip EXCEPT ![vec] = IF vec \in {\h66, \h78} THEN pc["main"] ELSE @]
  /\ g_66_after_78' = IF vec = \h66 /\ g[\h78] > 0 THEN g_66_after_78 + 1
                                                   ELSE g_66_after_78
  /\ OnCounters(x)
  /\ UNCHANGED <<g_tmr_79, tmr_before>>

\* Mutant of ReadTmr: the bit is answered where it stands in the register.
ReadTmrBit(x) ==
  /\ At(x, "tmr")
  /\ LET bit == IF \h79 \in dev.tmr THEN 2^25 ELSE 0
     IN  IF x = "main" THEN tmr_before' = bit /\ UNCHANGED g_tmr_79
                       ELSE g_tmr_79' = bit /\ UNCHANGED tmr_before
  /\ OnCounters(x)
  /\ UNCHANGED <<g, g_rip, g_66_after_78>>

\* apic_read_bit(APIC_TMR, 0x79), by the test or by the handler.
ReadTmr(x) ==
  /\ At(x, "tmr")
  /\ LET bit == IF \h79 \in dev.tmr THEN 1 ELSE 0
     IN  IF x = "main" THEN tmr_before' = bit /\ UNCHANGED g_tmr_79
                       ELSE g_tmr_79' = bit /\ UNCHANGED tmr_before
  /\ OnCounters(x)
  /\ UNCHANGED <<g, g_rip, g_66_after_78>>

Reset(x) ==
  /\ At(x, "reset")
  /\ g_tmr_79' = -1
  /\ OnCounters(x)
  /\ UNCHANGED <<g, g_rip, g_66_after_78, tmr_before>>

Await(x) ==
  /\ At(x, "await") /\ g_tmr_79 # -1
  /\ Step(x)
  /\ UNCHANGED <<dev, idt, cpuVars, localVars, countVars, failed>>

Say(x) ==
  /\ At(x, "report")
  /\ failed' = IF Holds(Arg(x)[1], Arg(x)[2]) THEN failed ELSE failed \union {Arg(x)}
  /\ Step(x)
  /\ UNCHANGED <<dev, idt, cpuVars, localVars, countVars>>

InstallHandler(x) ==
  /\ At(x, "handle")
  /\ idt' = idt \union {Arg(x)}
  /\ Step(x)
  /\ UNCHANGED <<dev, cpuVars, localVars, countVars, failed>>

\* To the interrupt flag: cli, sti, and sti; hlt.
SetFlag(x) ==
  /\ \/ At(x, "cli") /\ iflag' = FALSE /\ UNCHANGED halted
     \/ At(x, "sti") /\ iflag' = TRUE /\ UNCHANGED halted
     \/ At(x, "hlt") /\ iflag' = TRUE /\ halted' = TRUE
  /\ Step(x)
  /\ UNCHANGED <<dev, idt, vec, job, ipi, localVars, countVars, failed>>

\* The for loop of test_ioapic_level_retrigger: its end, and its back edge.
Loop(x) ==
  /\ \/ /\ At(x, "until")
        /\ IF g[\h9a] = 2 \/ tries = 10
             THEN Jump(x, Arg(x) + 1) /\ tries' = 0
             ELSE Jump(x, 1) /\ UNCHANGED tries
     \/ /\ At(x, "again")
        /\ Jump(x, -Arg(x))
        /\ tries' = tries + 1
  /\ UNCHANGED <<dev, idt, running, ioctls, cpuVars, entry, word, tmr_before,
                 countVars, failed>>

\* smp_call_function_single(1, f, NULL, 0): in place on vCPU 1 itself, an IPI
\* from vCPU 0 once the last one was picked up, nothing if vCPU 1 is not online.
Call(x) ==
  /\ At(x, "call")
  /\ IF Caller = 1 THEN job' = Arg(x) /\ UNCHANGED ipi
     ELSE /\ ipi = None
          /\ ipi' = IF 1 \in Online THEN Arg(x) ELSE None
          /\ UNCHANGED job
  /\ Step(x)
  /\ UNCHANGED <<dev, idt, iflag, halted, vec, localVars, countVars, failed>>

ContextStep(x) ==
  \/ Select(x) \/ Store(x) \/ SetIrqLine(x) \/ SetOnRun(x) \/ Eoi(x) \/ WriteWord(x)
  \/ ReadWordInto(x) \/ Load(x) \/ NewEntry(x) \/ Mask(x)
  \/ Count(x) \/ ReadTmr(x) \/ Reset(x) \/ Await(x) \/ Say(x)
  \/ InstallHandler(x) \/ SetFlag(x) \/ Loop(x) \/ Call(x)

(***************************************************************************)
(* The beginning and the end of scripts.                                   *)
(***************************************************************************)
ioctl ==
  /\ ~running /\ ioctls < Ioctls
  /\ Caller = 0 => vec = 0
  /\ running' = TRUE
  /\ ioctls' = ioctls + 1
  /\ iflag' = FALSE
  /\ pc' = [pc EXCEPT !["main"] = 1]
  /\ UNCHANGED <<dev, idt, halted, vec, job, ipi, localVars, countVars, failed>>

\* local_irq_enable at the end of pcm_cdev_ioctl.
Return ==
  /\ MayRun /\ pc["main"] > Len(test_ioapic)
  /\ running' = FALSE
  /\ iflag' = TRUE
  /\ UNCHANGED <<dev, idt, ioctls, halted, pc, vec, job, ipi, localVars, countVars, failed>>

TakeInterrupt ==
  /\ vec = 0 /\ Enabled
  /\ Highest(dev.irr) \in idt /\ g[Highest(dev.irr)] < MaxCount
  /\ vec' = Highest(dev.irr)
  /\ dev' = Acknowledge(dev)
  /\ pc' = [pc EXCEPT !["isr"] = 1]
  /\ halted' = (halted /\ Caller # 0)
  /\ UNCHANGED <<idt, running, ioctls, iflag, job, ipi, localVars, countVars, failed>>

\* A handler has no locals that outlive it.
ReturnFromInterrupt ==
  /\ vec # 0 /\ pc["isr"] > Len(Handler[vec])
  /\ vec' = 0
  /\ entry' = [entry EXCEPT !["isr"] = QuietDevice.redir[Line]]
  /\ UNCHANGED <<dev, idt, running, ioctls, iflag, halted, pc, job, ipi,
                 word, tries, tmr_before, countVars, failed>>

\* Any other interrupt ends the hlt as well.
Wake ==
  /\ halted
  /\ halted' = FALSE
  /\ UNCHANGED <<dev, idt, running, ioctls, iflag, pc, vec, job, ipi, localVars,
                 countVars, failed>>

Pickup ==
  /\ job = None /\ ipi # None
  /\ job' = ipi /\ ipi' = None
  /\ pc' = [pc EXCEPT !["helper"] = 1]
  /\ UNCHANGED <<dev, idt, running, ioctls, iflag, halted, vec, localVars, countVars, failed>>

FinishJob ==
  /\ job # None /\ pc["helper"] > Len(Jobs[job])
  /\ job' = None
  /\ pc' = [pc EXCEPT !["helper"] = 1]
  /\ UNCHANGED <<dev, idt, running, ioctls, iflag, halted, vec, ipi, localVars,
                 countVars, failed>>

MainStep   == ContextStep("main") \/ Return
IsrStep    == TakeInterrupt \/ ContextStep("isr") \/ ReturnFromInterrupt
HelperStep == Pickup \/ ContextStep("helper") \/ FinishJob

Finished == ~running /\ ioctls = Ioctls /\ vec = 0 /\ job = None /\ ipi = None

Next ==
  \/ ioctl \/ MainStep \/ IsrStep \/ HelperStep \/ Wake
  \/ Finished /\ UNCHANGED vars

\* The caller runs on with interrupts off or on; a pending request is taken; a
\* handler, and a function called on vCPU 1, are not preempted.
Spec == Init /\ [][Next]_vars /\ WF_vars(MainStep) /\ WF_vars(IsrStep) /\ WF_vars(HelperStep)

-----------------------------------------------------------------------------
\* Every variable holds a value of its type.
IoapicTypeOK ==
  /\ dev \in Devices /\ idt \subseteq Vectors
  /\ running \in BOOLEAN /\ ioctls \in 0 .. Ioctls
  /\ iflag \in BOOLEAN /\ halted \in BOOLEAN
  /\ pc \in [Contexts -> 1 .. Len(test_ioapic) + 1]
  /\ vec \in Vectors \union {0}
  /\ job \in DOMAIN Jobs \union {None} /\ ipi \in DOMAIN Jobs \union {None}
  /\ entry \in [Contexts -> Entries] /\ word \in [{"old", "new"} -> Words]
  /\ tries \in 0 .. 10 /\ tmr_before \in {0, 1}
  /\ g \in [Vectors -> Nat] /\ g_rip \in [Vectors -> Nat]
  /\ g_66_after_78 \in Nat /\ g_tmr_79 \in {-1, 0, 1}

\* On devices that behave, no test reports otherwise: the conditions of the
\* report lines of ioapic.c hold when the tests reach them, whatever the
\* handlers and vCPU 1 do meanwhile.
NoFalseAlarm == failed = {}

\* Tests do not leak into one another: when a test installs its handler the
\* lines are low, no request is pending, in service or waiting for its EOI.
CleanHandover ==
  At("main", "handle") =>
    dev.high = {} /\ dev.irr = {} /\ dev.isr = {} /\ dev.remote_irr = {}

\* The index and the data register are used as a pair: whoever comes to an
\* access of the data register finds the index it selected itself, although
\* handlers use the same pair (set_mask in ioapic_isr_83).
PairedAccess ==
  \A x \in Contexts, op \in DataAccesses : At(x, op) => dev.index = Arg(x)

\* Every handler ends its own interrupt, once, before it returns, and has been
\* installed before its vector can be requested.
Acknowledged ==
  /\ vec = 0 => dev.isr = {}
  /\ dev.isr \subseteq {vec}
  /\ dev.irr \subseteq idt

\* The ioctl returns: every wait for an interrupt ends, and no level-triggered
\* interrupt keeps coming back so that the caller cannot go on.
IoapicReturns == running ~> ~running
=============================================================================
