----------------------------- MODULE WallClock -----------------------------
(***************************************************************************)
(* The wall clock of pcm-unit/driver/kvmclock_test.c: test_kvm_clock lets  *)
(* one vCPU after the other run wallclock_test, which has the host fill    *)
(* the page wall_clock, reads it under its version, adds the time since    *)
(* boot and compares the seconds with what the user expects.               *)
(*                                                                         *)
(* The time since boot is MonoClock, which pvclock_clocksource_read is     *)
(* shown to implement.  The host is external: it fills the page before the *)
(* write of the MSR returns, if it accepts the address, and may rewrite it *)
(* later under the same version protocol, with a boot time stepped either  *)
(* way.                                                                    *)
(***************************************************************************)
EXTENDS Integers

CONSTANTS
  ncpus,        \* wallclock_test runs on the vCPUs 0 .. ncpus - 1
  NSEC_PER_SEC, \* 10^9, scaled down
  MaxSec,       \* bound: the boot times the host publishes
  threshold,    \* the offset that is tolerated (5)
  MaxVersion,   \* bound: the page is not rewritten past this version
  MaxClock      \* bound: the time since boot stops here

ASSUME WallAssumption ==
  /\ ncpus \in Nat
  /\ NSEC_PER_SEC \in Nat \ {0}
  /\ MaxSec \in Nat /\ threshold \in Nat
  /\ MaxVersion \in Nat /\ MaxClock \in Nat

Cpus == 0 .. ncpus - 1
sec  == 2 \* "Seconds get from host", as test_kvm_clock sets it

VARIABLES
  wall_clock, \* the page
  hostpc,     \* where the host is in rewriting it
  msr,        \* its address: unset, or on or refused at the host
  clock,      \* the time since boot (MonoClock)
  state, answer,
  i,          \* the loop variable of test_kvm_clock
  pc,         \* where vCPU i is in wallclock_test
  version,    \* its local variables ...
  now,
  ts,
  nerr,       \* the errors counted so far
  offered,    \* history: the boot times on the page since the call
  since,      \* history: what the clock was when it was read for ts
  printed,    \* history: the time in ns the last vCPU printed
  stepped     \* history: the host has published an earlier boot time

Mono == INSTANCE MonoClock

clockVars == <<clock, state, answer>>
hostVars  == <<wall_clock, hostpc, msr, stepped>>
readVars  == <<i, pc, version, now, ts, nerr, since, printed>>
vars == <<clockVars, hostVars, offered, readVars>>

Times == [tv_sec : 0 .. MaxSec, tv_nsec : 0 .. NSEC_PER_SEC - 1]
Zero  == [tv_sec |-> 0, tv_nsec |-> 0]
Ns(t) == t.tv_sec * NSEC_PER_SEC + t.tv_nsec
OnPage == [tv_sec |-> wall_clock.sec, tv_nsec |-> wall_clock.nsec]

Init ==
  /\ Mono!Init
  /\ wall_clock = [version |-> 0, sec |-> 0, nsec |-> 0]
  /\ hostpc = "rest" /\ msr = "unset"
  /\ i = 0 /\ pc = "wrmsr" /\ version = 0 /\ now = Zero /\ ts = Zero /\ nerr = 0
  /\ offered = {} /\ since = 0 /\ printed = 0 /\ stepped = FALSE

-----------------------------------------------------------------------------
(***************************************************************************)
(* The host and the clock.                                                 *)
(***************************************************************************)
Advance ==
  /\ clock' \in clock + 1 .. MaxClock
  /\ Mono!Advance
  /\ UNCHANGED <<hostVars, offered, readVars>>

HostBegin ==
  /\ hostpc = "rest" /\ msr = "on" /\ wall_clock.version + 2 <= MaxVersion
  /\ wall_clock' = [wall_clock EXCEPT !.version = @ + 1]
  /\ hostpc' = "sec"
  /\ UNCHANGED <<offered, stepped>>

\* The two halves of a boot time; stepped says whether it is earlier.
HostSec ==
  /\ hostpc = "sec"
  /\ \E s \in 0 .. MaxSec :
       /\ wall_clock' = [wall_clock EXCEPT !.sec = s]
       /\ stepped' = (stepped \/ s < wall_clock.sec)
       /\ hostpc' = IF s > wall_clock.sec THEN "later" ELSE "nsec"
  /\ UNCHANGED offered

HostNsec ==
  /\ hostpc \in {"nsec", "later"}
  /\ \E n \in 0 .. NSEC_PER_SEC - 1 :
       /\ wall_clock' = [wall_clock EXCEPT !.nsec = n]
       /\ stepped' = (stepped \/ (hostpc = "nsec" /\ n < wall_clock.nsec))
  /\ hostpc' = "end"
  /\ UNCHANGED offered

HostEnd ==
  /\ hostpc = "end"
  /\ wall_clock' = [wall_clock EXCEPT !.version = @ + 1]
  /\ hostpc' = "rest"
  /\ offered' = offered \union {OnPage}
  /\ UNCHANGED stepped

HostStep ==
  /\ HostBegin \/ HostSec \/ HostNsec \/ HostEnd
  /\ UNCHANGED <<clockVars, msr, readVars>>

-----------------------------------------------------------------------------
(***************************************************************************)
(* wallclock_test on vCPU i.                                               *)
(***************************************************************************)
Goto(l) == pc' = l

\* kvm_get_wallclock: the result of wrmsrl_safe is not looked at.
WriteMsr ==
  /\ pc = "wrmsr" /\ i < ncpus /\ hostpc = "rest"
  /\ \/ /\ msr # "refused" /\ msr' = "on"
        /\ \E t \in Times :
             /\ wall_clock' = [version |-> wall_clock.version + 2,
                               sec |-> t.tv_sec, nsec |-> t.tv_nsec]
             /\ offered' = {t}
             /\ stepped' = (stepped \/ Ns(t) < Ns(OnPage))
     \/ /\ msr # "on" /\ msr' = "refused"
        /\ offered' = {OnPage}
        /\ UNCHANGED <<wall_clock, stepped>>
  /\ Goto("version")
  /\ UNCHANGED <<clockVars, hostpc, i, version, now, ts, nerr, since, printed>>

ReadVersion ==
  /\ pc = "version"
  /\ version' = wall_clock.version
  /\ Goto("sec")
  /\ UNCHANGED <<now, ts>>

ReadSec ==
  /\ pc = "sec"
  /\ now' = [now EXCEPT !.tv_sec = wall_clock.sec]
  /\ Goto("nsec")
  /\ UNCHANGED <<version, ts>>

ReadNsec ==
  /\ pc = "nsec"
  /\ now' = [now EXCEPT !.tv_nsec = wall_clock.nsec]
  /\ Goto("odd")
  /\ UNCHANGED <<version, ts>>

\* Mutant of CheckOdd: a host in mid-update is not looked for.
OddAccepted ==
  /\ pc = "odd"
  /\ Goto("same")
  /\ UNCHANGED <<version, now, ts>>

CheckOdd ==
  /\ pc = "odd"
  /\ Goto(IF wall_clock.version % 2 = 1 THEN "version" ELSE "same")
  /\ UNCHANGED <<version, now, ts>>

\* Mutants of CheckSame: no retry, or one that fetches no new version.
AcceptAny ==
  /\ pc = "same"
  /\ Goto("clock")
  /\ UNCHANGED <<version, now, ts>>

SameVersion ==
  /\ pc = "same"
  /\ Goto(IF version # wall_clock.version THEN "sec" ELSE "clock")
  /\ UNCHANGED <<version, now, ts>>

CheckSame ==
  /\ pc = "same"
  /\ Goto(IF version # wall_clock.version THEN "version" ELSE "clock")
  /\ UNCHANGED <<version, now, ts>>

ReadPage ==
  /\ ReadVersion \/ ReadSec \/ ReadNsec \/ CheckOdd \/ CheckSame
  /\ UNCHANGED <<clockVars, hostVars, offered, i, nerr, since, printed>>

\* pvclock_clocksource_read, for ts and again for what is printed.
ReadClock ==
  /\ pc \in {"clock", "print"}
  /\ \/ Mono!Invoke(i) /\ since' = clock
     \/ Mono!Answer(i) /\ UNCHANGED since
  /\ UNCHANGED <<hostVars, offered, i, pc, version, now, ts, nerr, printed>>

\* Mutant of Normalise: the time since boot is added to tv_nsec as it is.
Unnormalised(delta) == [tv_sec |-> now.tv_sec,
                        tv_nsec |-> delta - now.tv_sec * NSEC_PER_SEC]

\* delta is divided by do_div, so that nothing is left to normalise.
Normalise(delta) == [tv_sec |-> delta \div NSEC_PER_SEC, tv_nsec |-> delta % NSEC_PER_SEC]

GotClock ==
  /\ pc = "clock"
  /\ Mono!Return(i)
  /\ ts' = Normalise(answer[i] + Ns(now))
  /\ Goto("print")
  /\ UNCHANGED <<hostVars, offered, i, version, now, nerr, since, printed>>

TooLarge(offset) == offset > threshold \/ offset < -threshold

\* wallclock_test returns, and so does smp_call_function_single.
GotRaw ==
  /\ pc = "print"
  /\ Mono!Return(i)
  /\ nerr' = IF TooLarge(ts.tv_sec - sec) THEN nerr + 1 ELSE nerr
  /\ i' = i + 1
  /\ Goto("wrmsr")
  /\ printed' = Ns(ts)
  /\ version' = 0 /\ now' = Zero /\ ts' = Zero /\ since' = 0
  /\ offered' = {}
  /\ UNCHANGED hostVars

CpuStep == WriteMsr \/ ReadPage \/ ReadClock \/ GotClock \/ GotRaw

Done == i = ncpus /\ UNCHANGED vars
Next == Advance \/ HostStep \/ CpuStep \/ Done

\* wallclock_test runs in place or in an IPI handler; a host that made the
\* version odd makes it even again.
Spec == Init /\ [][Next]_vars /\ WF_vars(CpuStep) /\ WF_vars(HostStep /\ hostpc # "rest")

-----------------------------------------------------------------------------
\* Every variable holds a value of its type; ts is a normalised timespec.
WallTypeOK ==
  /\ wall_clock \in [version : Nat, sec : 0 .. MaxSec, nsec : 0 .. NSEC_PER_SEC - 1]
  /\ hostpc \in {"rest", "sec", "nsec", "later", "end"} /\ msr \in {"unset", "on", "refused"}
  /\ clock \in Nat /\ state \in [Cpus -> {"idle", "reading", "answered"}]
  /\ answer \in [Cpus -> Nat]
  /\ i \in 0 .. ncpus
  /\ pc \in {"wrmsr", "version", "sec", "nsec", "odd", "same", "clock", "print"}
  /\ version \in Nat /\ now \in Times
  /\ ts \in [tv_sec : Nat, tv_nsec : 0 .. NSEC_PER_SEC - 1]
  /\ nerr \in 0 .. i
  /\ offered \subseteq Times /\ since \in Nat /\ printed \in Nat /\ stepped \in BOOLEAN

\* The time pvclock_read_wallclock answers is a boot time the host published
\* since kvm_get_wallclock asked for it, both halves of the same version, plus
\* what the clock showed at one instant of the call.
TimePublished ==
  pc = "print" /\ state[i] = "idle" =>
    \E b \in offered, t \in since .. clock : Ns(ts) = Ns(b) + t

\* Unless the host steps its boot time back, the vCPUs print times that do not
\* go backwards, although each had the host fill the page anew.
WallForward ==
  pc = "print" /\ ~stepped => Ns(ts) >= printed

\* The version loop ends, so every smp_call_function_single of the wall clock
\* test returns.
WallLoopEnds == <>(i = ncpus)
=============================================================================
