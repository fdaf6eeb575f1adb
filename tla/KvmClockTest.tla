---------------------------- MODULE KvmClockTest ----------------------------
(***************************************************************************)
(* test_kvm_clock of pcm-unit/driver/kvmclock_test.c, as the ioctl         *)
(* KVMCLOCK_TEST runs it: one caller registers the clock page of every     *)
(* vCPU, lets each take a wall clock reading, runs cycle_test four times   *)
(* (kvm_clock_test on all vCPUs, started by IPI, counted down in           *)
(* ti->ncpus) and clears the pages.  The clock it reads is PvClock.        *)
(*                                                                         *)
(* smp_call_function_single is external: on the caller's own vCPU it runs  *)
(* the function in place; on another online vCPU it leaves an IPI that is  *)
(* handled when that vCPU gets to it; for an id that is not online it      *)
(* answers -ENXIO and does nothing.  With wait = 1 it returns when the     *)
(* function has; with wait = 0 it only waits for the caller's call slot,   *)
(* taken until the previous such IPI has been picked up.                   *)
(***************************************************************************)
EXTENDS PvClock, FiniteSets

CONSTANTS
  Caller,   \* the vCPU the ioctl runs on
  MAX_CPU,  \* entries of hv_clock
  Loops,    \* iterations of kvm_clock_test (100000000 in the code)
  Ioctls    \* bound: how often KVMCLOCK_TEST is issued

\* The vCPUs are the ids of the online processors; ids may have holes.
ASSUME KvmClockAssumption ==
  /\ Cpus \subseteq Nat /\ IsFiniteSet(Cpus)
  /\ Caller \in Cpus
  /\ MAX_CPU \in Nat \ {0}
  /\ Loops \in Nat
  /\ Ioctls \in Nat

VARIABLES
  ioctls,  \* calls made so far
  phase,   \* where the caller is in test_kvm_clock and cycle_test
  target,  \* the loop variable i of the caller
  test,    \* which of the four runs of cycle_test: an index of ti
  ti,      \* the four struct test_info
  ipi,     \* the function asked for on each vCPU and not yet picked up
  info,    \* the ti the vCPU was given with it
  tpc,     \* where each vCPU is in the function it runs
  loop,    \* the loop variable i of kvm_clock_test
  delta,   \* its t1 - t0
  tmp,     \* the value of stalls it is about to increment
  stalled, \* history: zero deltas seen, for each ti
  warped   \* history: negative deltas seen, for each ti

callerVars == <<ioctls, phase, target, test>>
cpuVars    == <<ipi, info, tpc, loop, delta, tmp>>
histories  == <<stalled, warped>>
testVars   == <<callerVars, ti, cpuVars, histories>>
vars       == <<clockVars, testVars>>

None   == "none"
Nobody == -1

\* num_online_cpus(), cut to the size of hv_clock.
ncpus == IF Cardinality(Cpus) > MAX_CPU THEN MAX_CPU ELSE Cardinality(Cpus)

\* Four rounds: raw and adjusted cycles, compared (check = 1), then timed.
TestIds == 0 .. 3
TestFlags(k) == IF k \in {0, 2} THEN {STABLE, RAW} ELSE {STABLE}
Check(k)     == IF k \in {0, 1} THEN 1 ELSE 0

ZeroInfo == [lock |-> Nobody, warps |-> 0, stalls |-> 0, worst |-> 0,
             last |-> 0, ncpus |-> 0, check |-> 0]

Init ==
  /\ ClockInit
  /\ ioctls  = 0
  /\ phase   = "idle"
  /\ target  = 0
  /\ test    = 0
  /\ ti      = [k \in TestIds |-> ZeroInfo]
  /\ ipi     = [c \in Cpus |-> None]
  /\ info    = [c \in Cpus |-> 0]
  /\ tpc     = [c \in Cpus |-> None]
  /\ loop    = [c \in Cpus |-> 0]
  /\ delta   = [c \in Cpus |-> 0]
  /\ tmp     = [c \in Cpus |-> 0]
  /\ stalled = [k \in TestIds |-> 0]
  /\ warped  = [k \in TestIds |-> 0]

-----------------------------------------------------------------------------
(***************************************************************************)
(* The caller.                                                             *)
(***************************************************************************)
\* The queue of a vCPU is empty whenever the driver calls it: one place does.
smp_call_function_single(i, f) ==
  /\ i \in Cpus \ {Caller} => ipi[i] = None
  /\ ipi'  = IF i \in Cpus \ {Caller} THEN [ipi EXCEPT ![i] = f] ELSE ipi
  /\ tpc'  = IF i = Caller THEN [tpc EXCEPT ![i] = f] ELSE tpc
  /\ info' = IF i \in Cpus THEN [info EXCEPT ![i] = test] ELSE info

\* The caller's call slot is free; its call to vCPU i has returned.
PickedUp    == \A c \in Cpus : ipi[c] = None
Returned(i) == i \in Cpus => ipi[i] = None /\ tpc[i] = None

ioctl ==
  /\ phase = "idle" /\ ioctls < Ioctls
  /\ phase'  = "init"
  /\ target' = 0
  /\ test'   = 0
  /\ ioctls' = ioctls + 1
  /\ UNCHANGED <<clockVars, ti, cpuVars, histories>>

\* Mutant of CallEach: the loop stops short of the last vCPU.
CallAllButLast(f, next) ==
  /\ phase = f /\ Returned(target - 1)
  /\ IF target < ncpus - 1
       THEN /\ smp_call_function_single(target, f)
            /\ target' = target + 1
            /\ UNCHANGED phase
       ELSE /\ phase' = next
            /\ target' = 0
            /\ UNCHANGED <<ipi, tpc, info>>
  /\ UNCHANGED <<clockVars, ioctls, test, ti, loop, delta, tmp, histories>>

\* for (i = 0; i < ncpus; ++i) smp_call_function_single(i, f, .., 1)
CallEach(f, next) ==
  /\ phase = f /\ Returned(target - 1)
  /\ IF target < ncpus
       THEN /\ smp_call_function_single(target, f)
            /\ target' = target + 1
            /\ UNCHANGED phase
       ELSE /\ phase' = next
            /\ target' = 0
            /\ UNCHANGED <<ipi, tpc, info>>
  /\ UNCHANGED <<clockVars, ioctls, test, ti, loop, delta, tmp, histories>>

SetFlags ==
  /\ phase = "flags"
  /\ pvclock_set_flags(TestFlags(test))
  /\ phase' = "start"
  /\ UNCHANGED <<ioctls, target, test, ti, cpuVars, histories>>

\* Mutant of cycle_test: the counter is not set.
UncountedTest ==
  /\ phase = "start"
  /\ ti' = [ti EXCEPT ![test].check = Check(test)]
  /\ target' = ncpus - 1
  /\ phase'  = "send"
  /\ UNCHANGED <<clockVars, ioctls, test, cpuVars, histories>>

\* cycle_test: set the counter, then start the vCPUs from the last to the first.
cycle_test ==
  /\ phase = "start"
  /\ ti' = [ti EXCEPT ![test].ncpus = ncpus, ![test].check = Check(test)]
  /\ target' = ncpus - 1
  /\ phase'  = "send"
  /\ UNCHANGED <<clockVars, ioctls, test, cpuVars, histories>>

Send ==
  /\ phase = "send" /\ tpc[Caller] = None
  /\ IF target >= 0
       THEN /\ target # Caller => PickedUp
            /\ smp_call_function_single(target, "test")
            /\ target' = target - 1
            /\ UNCHANGED phase
       ELSE /\ phase' = "wait"
            /\ UNCHANGED <<ipi, tpc, info, target>>
  /\ UNCHANGED <<clockVars, ioctls, test, ti, loop, delta, tmp, histories>>

\* Mutant of Wait: the counter is not waited for.
ReturnAtOnce ==
  /\ phase = "wait"
  /\ IF test < 3
       THEN test' = test + 1 /\ phase' = "flags" /\ UNCHANGED target
       ELSE phase' = "clear" /\ target' = 0 /\ UNCHANGED test
  /\ UNCHANGED <<clockVars, ioctls, ti, cpuVars, histories>>

\* while (atomic_read(&ti->ncpus)); then on to the next round, or clean up.
Wait ==
  /\ phase = "wait" /\ ti[test].ncpus = 0
  /\ IF test < 3
       THEN test' = test + 1 /\ phase' = "flags" /\ UNCHANGED target
       ELSE phase' = "clear" /\ target' = 0 /\ UNCHANGED test
  /\ UNCHANGED <<clockVars, ioctls, ti, cpuVars, histories>>

CallerStep ==
  \/ CallEach("init", "wall") \/ CallEach("wall", "flags")
  \/ SetFlags \/ cycle_test \/ Send \/ Wait
  \/ CallEach("clear", "idle")

-----------------------------------------------------------------------------
(***************************************************************************)
(* A vCPU, in the function it was called for.                              *)
(***************************************************************************)
Enter(c, l) == tpc' = [tpc EXCEPT ![c] = l]

Pickup(c) ==
  /\ ipi[c] # None /\ tpc[c] = None
  /\ Enter(c, ipi[c])
  /\ ipi' = [ipi EXCEPT ![c] = None]
  /\ UNCHANGED <<clockVars, callerVars, ti, info, loop, delta, tmp, histories>>

Register(c) ==
  /\ tpc[c] \in {"init", "clear"}
  /\ IF tpc[c] = "init" THEN kvm_clock_init(c) ELSE kvm_clock_clear(c)
  /\ Enter(c, None)
  /\ UNCHANGED <<callerVars, ti, ipi, info, loop, delta, tmp, histories>>

\* kvm_clock_test reads check once; its loop then starts at one of two labels.
kvm_clock_test(c) ==
  /\ tpc[c] = "test"
  /\ Enter(c, IF ti[info[c]].check = 0 THEN "plain" ELSE "lock")
  /\ loop' = [loop EXCEPT ![c] = 0]
  /\ UNCHANGED <<clockVars, callerVars, ti, ipi, info, delta, tmp, histories>>

\* Mutant of SpinLock: the lock is taken although another vCPU holds it.
SpinLockIgnored(c) ==
  /\ tpc[c] = "lock" /\ loop[c] < Loops
  /\ ti' = [ti EXCEPT ![info[c]].lock = c]
  /\ Enter(c, "t1")
  /\ UNCHANGED <<clockVars, callerVars, ipi, info, loop, delta, tmp, histories>>

SpinLock(c) ==
  /\ tpc[c] = "lock" /\ loop[c] < Loops
  /\ ti[info[c]].lock = Nobody
  /\ ti' = [ti EXCEPT ![info[c]].lock = c]
  /\ Enter(c, "t1")
  /\ UNCHANGED <<clockVars, callerVars, ipi, info, loop, delta, tmp, histories>>

\* kvm_clock_read, entered from kvm_clock_test or from wallclock_test, which
\* reads twice: for the wall clock and for what it prints.
kvm_clock_read(c) ==
  /\ tpc[c] \in {"t1", "last", "wall", "print"} \/ (tpc[c] = "plain" /\ loop[c] < Loops)
  /\ Call(c)
  /\ UNCHANGED testVars

\* t1 has been read; t0 is the last value any vCPU saw.
GotT1(c) ==
  /\ tpc[c] = "t1"
  /\ delta' = [delta EXCEPT ![c] = ret[c] - ti[info[c]].last]
  /\ Enter(c, "last")
  /\ UNCHANGED <<ti, loop, histories>>

\* Mutant of GotLast: the lock is never released.
GotLastLocked(c) ==
  /\ tpc[c] = "last"
  /\ ti' = [ti EXCEPT ![info[c]].last = ret[c]]
  /\ Enter(c, CASE delta[c] < 0 -> "warp" [] delta[c] = 0 -> "stall" [] OTHER -> "lock")
  /\ loop' = [loop EXCEPT ![c] = IF delta[c] > 0 THEN @ + 1 ELSE @]
  /\ stalled' = [stalled EXCEPT ![info[c]] = IF delta[c] = 0 THEN @ + 1 ELSE @]
  /\ warped'  = [warped EXCEPT ![info[c]] = IF delta[c] < 0 THEN @ + 1 ELSE @]
  /\ UNCHANGED delta

\* The second reading becomes the last seen, and the lock is released.
GotLast(c) ==
  /\ tpc[c] = "last"
  /\ ti' = [ti EXCEPT ![info[c]].last = ret[c], ![info[c]].lock = Nobody]
  /\ Enter(c, CASE delta[c] < 0 -> "warp" [] delta[c] = 0 -> "stall" [] OTHER -> "lock")
  /\ loop' = [loop EXCEPT ![c] = IF delta[c] > 0 THEN @ + 1 ELSE @]
  /\ stalled' = [stalled EXCEPT ![info[c]] = IF delta[c] = 0 THEN @ + 1 ELSE @]
  /\ warped'  = [warped EXCEPT ![info[c]] = IF delta[c] < 0 THEN @ + 1 ELSE @]
  /\ UNCHANGED delta

GotPlain(c) ==
  /\ tpc[c] = "plain"
  /\ loop' = [loop EXCEPT ![c] = @ + 1]
  /\ UNCHANGED <<ti, tpc, delta, histories>>

GotWall(c) ==
  /\ tpc[c] \in {"wall", "print"}
  /\ Enter(c, IF tpc[c] = "wall" THEN "print" ELSE None)
  /\ UNCHANGED <<ti, loop, delta, histories>>

ReadDone(c) ==
  /\ Return(c)
  /\ GotT1(c) \/ GotLast(c) \/ GotPlain(c) \/ GotWall(c)
  /\ UNCHANGED <<callerVars, ipi, info, tmp>>

NextLoop(c) ==
  /\ Enter(c, "lock")
  /\ loop' = [loop EXCEPT ![c] = @ + 1]

\* Mutant of CountWarp: only a warp that is the worst so far is counted.
CountWorst(c) ==
  /\ tpc[c] = "warp"
  /\ ti[info[c]].lock = Nobody
  /\ ti' = IF delta[c] < ti[info[c]].worst
             THEN [ti EXCEPT ![info[c]].warps = @ + 1, ![info[c]].worst = delta[c]]
             ELSE ti
  /\ NextLoop(c)
  /\ UNCHANGED <<clockVars, callerVars, ipi, info, delta, tmp, histories>>

\* A warp is counted under the lock ...
CountWarp(c) ==
  /\ tpc[c] = "warp"
  /\ ti[info[c]].lock = Nobody
  /\ ti' = [ti EXCEPT ![info[c]].warps = @ + 1,
                      ![info[c]].worst = IF delta[c] < @ THEN delta[c] ELSE @]
  /\ NextLoop(c)
  /\ UNCHANGED <<clockVars, callerVars, ipi, info, delta, tmp, histories>>

\* ... a stall is not: ++stalls is a load and a store.
LoadStalls(c) ==
  /\ tpc[c] = "stall"
  /\ tmp' = [tmp EXCEPT ![c] = ti[info[c]].stalls]
  /\ Enter(c, "store")
  /\ UNCHANGED <<clockVars, callerVars, ti, ipi, info, loop, delta, histories>>

\* Mutant of StoreStalls: the value loaded before is stored.
StoreUnchanged(c) ==
  /\ tpc[c] = "store"
  /\ tmp' = [tmp EXCEPT ![c] = 0]
  /\ NextLoop(c)
  /\ UNCHANGED <<clockVars, callerVars, ti, ipi, info, delta, histories>>

StoreStalls(c) ==
  /\ tpc[c] = "store"
  /\ ti'  = [ti EXCEPT ![info[c]].stalls = tmp[c] + 1]
  /\ tmp' = [tmp EXCEPT ![c] = 0]
  /\ NextLoop(c)
  /\ UNCHANGED <<clockVars, callerVars, ipi, info, delta, histories>>

atomic_dec(c) ==
  /\ tpc[c] \in {"lock", "plain"} /\ rpc[c] = "idle" /\ loop[c] = Loops
  /\ ti'    = [ti EXCEPT ![info[c]].ncpus = @ - 1]
  /\ Enter(c, None)
  /\ loop'  = [loop EXCEPT ![c] = 0]
  /\ delta' = [delta EXCEPT ![c] = 0]
  /\ UNCHANGED <<clockVars, callerVars, ipi, info, tmp, histories>>

CpuStep(c) ==
  \/ Pickup(c) \/ Register(c) \/ kvm_clock_test(c) \/ SpinLock(c)
  \/ kvm_clock_read(c) \/ (ReadStep(c) /\ UNCHANGED testVars) \/ ReadDone(c)
  \/ CountWarp(c) \/ LoadStalls(c) \/ StoreStalls(c) \/ atomic_dec(c)

HostWrites(c) == HostUpdate(c) /\ UNCHANGED testVars

Finished == phase = "idle" /\ ioctls = Ioctls

Next ==
  \/ ioctl \/ CallerStep
  \/ \E c \in Cpus : CpuStep(c) \/ HostWrites(c)
  \/ Tick /\ UNCHANGED testVars
  \/ Finished /\ UNCHANGED vars

\* The caller and the handlers run with interrupts off and are not preempted;
\* an online vCPU takes its IPI in the end; a host that made a version odd
\* makes it even again.
Fairness ==
  /\ WF_vars(CallerStep)
  /\ \A c \in Cpus : WF_vars(CpuStep(c)) /\ WF_vars(HostWrites(c) /\ hostpc[c] # "rest")

SafetySpec == Init /\ [][Next]_vars
Spec == SafetySpec /\ Fairness

-----------------------------------------------------------------------------
Functions  == {"init", "wall", "test", "clear"}
TestLabels == {"lock", "t1", "last", "warp", "stall", "store", "plain"}

TestInfos == [lock : Cpus \union {Nobody}, warps : Nat, stalls : Nat, worst : Int,
              last : Nat, ncpus : Nat, check : {0, 1}]

\* Every variable of the test holds a value of its type; in particular the
\* counter ti->ncpus is never taken below zero.
TestTypeOK ==
  /\ ClockTypeOK
  /\ ioctls \in 0 .. Ioctls
  /\ phase  \in {"idle", "init", "wall", "flags", "start", "send", "wait", "clear"}
  /\ target \in -1 .. ncpus
  /\ test   \in TestIds
  /\ ti     \in [TestIds -> TestInfos]
  /\ ipi    \in [Cpus -> Functions \union {None}]
  /\ info   \in [Cpus -> TestIds]
  /\ tpc    \in [Cpus -> Functions \union TestLabels \union {"print", None}]
  /\ loop   \in [Cpus -> 0 .. Loops]
  /\ delta  \in [Cpus -> Int]
  /\ tmp    \in [Cpus -> Nat]
  /\ stalled \in [TestIds -> Nat]
  /\ warped  \in [TestIds -> Nat]

\* kvm_clock_test never counts a warp: what a vCPU reads under the lock is at
\* least what any vCPU left in ti->last, in the raw round and in the monotonic
\* one, on a stable host and on one whose pages disagree.
NoWarps == \A k \in TestIds : ti[k].warps = 0

\* When warps do happen (a page the host refused next to one it fills), the
\* verdict of cycle_test rests on all of them: none is lost between vCPUs.
WarpsCounted ==
  phase = "clear" => \A k \in TestIds : /\ ti[k].warps = warped[k]
                                        /\ ti[k].warps > 0 <=> ti[k].worst < 0

\* The rounds do not overlap: when test_kvm_clock changes the flags that every
\* reader honours, no vCPU is inside a read or inside kvm_clock_test.
FlagsChangeAtRest ==
  [][valid_flags' # valid_flags =>
       \A c \in Cpus : rpc[c] = "idle" /\ tpc[c] = None /\ ipi[c] = None]_vars

\* No vCPU reads through a page that is not registered with the host: pages
\* are there before the first read and cleared after the last.
PageOutlivesReads == \A c \in Cpus : rpc[c] # "idle" => msr[c] = "on"

\* The ioctl returns: every wait of cycle_test for the other vCPUs comes to
\* an end, and so does every spin for a lock and every call that is waited for.
IoctlReturns == phase # "idle" ~> phase = "idle"

\* Raw cycles are raw: while PVCLOCK_RAW_CYCLE_BIT is set a read answers the
\* cycles it took from the page, whatever last_value is.
RawIsRaw ==
  [][\A c \in Cpus : (rpc[c] \in {"stable", "load", "cmpxchg"} /\ rpc'[c] = "done"
                        /\ RAW \in valid_flags) => ret'[c] = ret[c]]_vars

\* ++ti->stalls outside the lock loses counts, but not all of them: cycle_test
\* reports a stall if and only if a vCPU saw one, and never more than it saw.
StallsSeen ==
  phase = "clear" => \A k \in TestIds : /\ ti[k].stalls <= stalled[k]
                                        /\ stalled[k] > 0 => ti[k].stalls > 0

=============================================================================
