------------------------- MODULE KvmClockTestProofs -------------------------
(***************************************************************************)
(* Proofs about KvmClockTest for every number of vCPUs, every host, any    *)
(* number of loops and of ioctls, and all bounds: types, registered pages, *)
(* rounds that do not overlap, no warp counted or lost, the stalls that    *)
(* are reported, and the one forward clock behind the readings.            *)
(***************************************************************************)
EXTENDS KvmClockTest, PvClockProofs, FiniteSetTheorems

\* A vCPU has been asked to run a function, or is in it.
Active(c) == ipi[c] # None \/ tpc[c] # None
ActiveCpus == {c \in Cpus : Active(c)}

Locked  == {"t1", "last"}
Reading == {"t1", "last", "wall", "print", "plain"}
Turning == {"t1", "last", "warp", "stall", "store"}
OneByOne == {"init", "wall", "clear"}
Round    == {"send", "wait"}

\* Seen to be negative and not yet counted; seen to be zero and not yet stored.
Warping(k)  == {c \in Cpus : tpc[c] = "warp" /\ info[c] = k}
Stalling(k) == {c \in Cpus : tpc[c] \in {"stall", "store"} /\ info[c] = k}

TestTypes ==
  /\ ioctls \in 0 .. Ioctls
  /\ phase  \in {"idle", "init", "wall", "flags", "start", "send", "wait", "clear"}
  /\ target \in -1 .. ncpus
  /\ test   \in TestIds
  /\ ti     \in [TestIds -> TestInfos]
  /\ ipi    \in [Cpus -> Functions \union {None}]
  /\ info   \in [Cpus -> TestIds]
  /\ tpc    \in [Cpus -> Functions \union TestLabels \union {"print", None}]
  /\ loop   \in [Cpus -> 0 .. Loops]
  /\ delta  \in [Cpus -> Int]
  /\ tmp    \in [Cpus -> Nat]
  /\ stalled \in [TestIds -> Nat]
  /\ warped  \in [TestIds -> Nat]

\* What a vCPU does between two calls of the driver.
TurnInv(c) ==
  /\ ipi[c] # None => tpc[c] = None /\ c # Caller
  /\ rpc[c] # "idle" => tpc[c] \in Reading
  /\ tpc[c] \in Turning => loop[c] < Loops
  /\ tpc[c] = "plain" /\ rpc[c] # "idle" => loop[c] < Loops
  /\ tpc[c] \in Locked => ti[info[c]].lock = c

\* What it may be doing in each phase of the caller.
JobInv(c) ==
  /\ phase \in {"idle", "flags", "start"} => ~Active(c)
  /\ phase \in OneByOne /\ Active(c) => c = target - 1
  /\ phase \in Round /\ Active(c) => target < c /\ c < ncpus /\ info[c] = test
  /\ ipi[c] # None => ipi[c] = IF phase \in OneByOne THEN phase ELSE "test"
  /\ tpc[c] \in {"init", "clear"} => phase = tpc[c]
  /\ tpc[c] \in {"wall", "print"} => phase = "wall"
  /\ tpc[c] \in {"test"} \union TestLabels => phase \in Round

\* Whose page is registered.
RegisterInv(c) ==
  /\ phase \in {"wall", "flags", "start", "send", "wait"} /\ c < ncpus => msr[c] = "on"
  /\ phase = "init" /\ c < target /\ ~Active(c) => msr[c] = "on"
  /\ phase = "clear" /\ c < ncpus /\ (c >= target \/ Active(c)) => msr[c] = "on"

TargetInv ==
  /\ phase \in OneByOne => target >= 0
  /\ phase = "send" => target < ncpus
  /\ phase = "wait" => target = -1

\* The counter covers the vCPUs that are at work and those still to be started.
CountInv ==
  phase \in Round => ti[test].ncpus >= Cardinality(ActiveCpus) + target + 1

TestInv ==
  /\ TestTypes
  /\ TargetInv
  /\ CountInv
  /\ \A c \in Cpus : TurnInv(c) /\ JobInv(c) /\ RegisterInv(c)

\* Every warp that was seen is counted or about to be.
WarpInv ==
  /\ \A c \in Cpus : tpc[c] = "warp" => delta[c] < 0
  /\ \A k \in TestIds : /\ warped[k] = ti[k].warps + Cardinality(Warping(k))
                        /\ ti[k].worst <= 0
                        /\ ti[k].warps > 0 <=> ti[k].worst < 0

\* The stalls counted, and those about to be, are no more than were seen; and
\* once one was seen there is one counted or about to be.
StallsCovered(k) ==
  /\ ti[k].stalls + Cardinality(Stalling(k)) <= stalled[k]
  /\ stalled[k] > 0 => ti[k].stalls > 0 \/ Stalling(k) # {}
  /\ \A c \in Stalling(k) :
       tpc[c] = "store" => tmp[c] + Cardinality(Stalling(k)) <= stalled[k]

StallInv == \A k \in TestIds : StallsCovered(k)

\* On a host that serves all: what is in ti->last was read before the lock holder
\* calls for its own reading.
LastInv ==
  /\ \A k \in TestIds : ti[k].last <= seen /\ ti[k].warps = 0
  /\ \A c \in Cpus :
       /\ tpc[c] = "t1" /\ rpc[c] # "idle" => ti[info[c]].last <= floor[c]
       /\ tpc[c] = "last" => delta[c] >= 0
       /\ tpc[c] # "warp"

-----------------------------------------------------------------------------
\* The size of hv_clock is never zero, and vCPUs are told apart from "nobody".
LEMMA Sizes ==
  /\ ncpus \in Nat /\ ncpus > 0
  /\ Nobody \notin Cpus /\ Caller \in Cpus /\ Loops \in Nat /\ MAX_CPU \in Nat
  /\ \A c \in Cpus : c \in Nat
<1>1. Cardinality(Cpus) \in Nat
  BY KvmClockAssumption, FS_CardinalityType
<1>2. Cardinality(Cpus) # 0
  BY KvmClockAssumption, FS_EmptySet
<1> QED
  BY <1>1, <1>2, KvmClockAssumption DEF ncpus, Nobody

\* What the functions called on a vCPU do to the clock is what ClockMove allows:
\* a page is registered before it is read or cleared.
LEMMA NextIsMove ==
  ASSUME ClockInv, TestInv, [Next]_vars PROVE [ClockMove]_clockVars
<1>1. ASSUME NEW c \in Cpus, tpc[c] \notin {None, "init"} PROVE msr[c] = "on"
  <2>1. Active(c) /\ c \in Nat /\ target \in -1 .. ncpus /\ ncpus \in Nat
        /\ JobInv(c) /\ RegisterInv(c)
    BY <1>1, Sizes DEF Active, TestInv, TestTypes
  <2>2. CASE phase \in Round
    BY <2>1, <2>2 DEF JobInv, RegisterInv, Round
  <2>3. CASE phase \in {"wall", "clear"}
    BY <2>1, <2>3 DEF JobInv, RegisterInv, OneByOne
  <2>4. phase \in Round \union {"wall", "clear"}
    BY <1>1, <2>1
    DEF TestInv, TestTypes, JobInv, Functions, TestLabels, None, Round
  <2> QED
    BY <2>2, <2>3, <2>4
<1>2. ASSUME NEW c \in Cpus, CpuStep(c) PROVE [ClockMove]_clockVars
  <2>1. CASE Register(c)
    BY <1>1, <2>1 DEF Register, ClockMove, None
  <2>2. CASE kvm_clock_read(c)
    BY <1>1, <2>2 DEF kvm_clock_read, ClockMove, None
  <2>3. CASE ReadStep(c) \/ ReadDone(c)
    BY <2>3 DEF ReadDone, ClockMove
  <2>4. CASE \/ Pickup(c) \/ kvm_clock_test(c) \/ SpinLock(c) \/ CountWarp(c)
             \/ LoadStalls(c) \/ StoreStalls(c) \/ atomic_dec(c)
    BY <2>4
    DEF Pickup, kvm_clock_test, SpinLock, CountWarp, LoadStalls, StoreStalls, atomic_dec
  <2> QED
    BY <1>2, <2>1, <2>2, <2>3, <2>4 DEF CpuStep
<1>3. CASE SetFlags
  <2>1. TestFlags(test) \in FlagSets
    BY DEF TestFlags, FlagSets
  <2> QED
    BY <1>3, <2>1 DEF SetFlags, ClockMove
<1>4. CASE \/ ioctl \/ cycle_test \/ Send \/ Wait \/ UNCHANGED vars
           \/ \E f, g : CallEach(f, g)
  BY <1>4 DEF ioctl, cycle_test, Send, Wait, CallEach, vars
<1>5. ASSUME NEW c \in Cpus, HostWrites(c) PROVE ClockMove
  BY <1>5 DEF HostWrites, ClockMove
<1>6. CASE Tick
  BY <1>6 DEF ClockMove
<1> QED
  BY <1>2, <1>3, <1>4, <1>5, <1>6 DEF Next, CallerStep

-----------------------------------------------------------------------------
\* CountInv holds when the vCPUs at work and the counter are as they were.
LEMMA CountKept ==
  ASSUME TestInv, UNCHANGED <<phase, target, test>>, ti'[test].ncpus = ti[test].ncpus,
         \A c \in Cpus : Active(c)' = Active(c)
  PROVE  CountInv'
<1>1. ActiveCpus' = ActiveCpus
  BY DEF ActiveCpus
<1> QED
  BY <1>1 DEF TestInv, CountInv

\* What holds of a vCPU holds after a step that it does not notice.
LEMMA Unnoticed ==
  ASSUME TestInv, NEW d \in Cpus, UNCHANGED <<phase, target, test>>,
         ipi'[d] = ipi[d], tpc'[d] = tpc[d], info'[d] = info[d], loop'[d] = loop[d],
         rpc'[d] = rpc[d], msr'[d] = msr[d],
         tpc[d] \in Locked => ti'[info[d]].lock = ti[info[d]].lock
  PROVE  TurnInv(d)' /\ JobInv(d)' /\ RegisterInv(d)'
<1>1. TurnInv(d)'
  BY DEF TestInv, TurnInv
<1>2. Active(d)' = Active(d)
  BY DEF Active
<1>3. JobInv(d)' /\ RegisterInv(d)'
  BY <1>2 DEF TestInv, JobInv, RegisterInv, ncpus
<1> QED
  BY <1>1, <1>3

\* A KVMCLOCK_TEST begins.
LEMMA IoctlKeeps ==
  ASSUME TestInv, ioctl PROVE TestInv'
<1> USE DEF ioctl, clockVars, pageVars, localVars, cpuVars, histories
<1>1. TestTypes' /\ TargetInv' /\ CountInv'
  BY Sizes, KvmClockAssumption
  DEF TestInv, TestTypes, TargetInv, CountInv, TestIds, OneByOne, Round
<1>2. ASSUME NEW d \in Cpus PROVE TurnInv(d)' /\ JobInv(d)' /\ RegisterInv(d)'
  BY Sizes
  DEF TestInv, TurnInv, JobInv, RegisterInv, Active, OneByOne, Round
<1> QED
  BY <1>1, <1>2 DEF TestInv

\* pvclock_set_flags, before each of the four rounds.
LEMMA SetFlagsKeeps ==
  ASSUME TestInv, SetFlags PROVE TestInv'
<1> USE DEF SetFlags, pvclock_set_flags, pageVars, localVars, cpuVars, histories
<1>1. TestTypes' /\ TargetInv' /\ CountInv'
  BY DEF TestInv, TestTypes, TargetInv, CountInv, OneByOne, Round
<1>2. ASSUME NEW d \in Cpus PROVE TurnInv(d)' /\ JobInv(d)' /\ RegisterInv(d)'
  BY DEF TestInv, TurnInv, JobInv, RegisterInv, Active, OneByOne, Round
<1> QED
  BY <1>1, <1>2 DEF TestInv

\* cycle_test sets ti->ncpus to the number of vCPUs before it starts any.
LEMMA CycleTestKeeps ==
  ASSUME TestInv, cycle_test PROVE TestInv'
<1> USE DEF cycle_test, clockVars, pageVars, localVars, cpuVars, histories
<1>0. /\ ti \in [TestIds -> TestInfos] /\ test \in TestIds
      /\ \A c \in Cpus : ~Active(c)
      /\ ncpus \in Nat /\ ncpus > 0 /\ Check(test) \in {0, 1}
  BY Sizes DEF TestInv, TestTypes, JobInv, Check
<1>1. ti' \in [TestIds -> TestInfos] /\ ti'[test].ncpus = ncpus
      /\ \A k \in TestIds : ti'[k].lock = ti[k].lock
  BY <1>0 DEF TestInfos
<1>2. TestTypes' /\ TargetInv'
  BY <1>0, <1>1 DEF TestInv, TestTypes, TargetInv, OneByOne, ncpus
<1>3. CountInv'
  <2>1. ActiveCpus' = {}
    BY <1>0 DEF ActiveCpus, Active
  <2>2. Cardinality(ActiveCpus') = 0
    BY <2>1, FS_EmptySet
  <2> QED
    BY <1>0, <1>1, <2>2 DEF CountInv, Round
<1>4. ASSUME NEW d \in Cpus PROVE TurnInv(d)' /\ JobInv(d)' /\ RegisterInv(d)'
  BY <1>0, <1>1
  DEF TestInv, TestTypes, TurnInv, JobInv, RegisterInv, Active, OneByOne, Round, Locked, ncpus,
     TestLabels, None
<1> QED
  BY <1>2, <1>3, <1>4 DEF TestInv

\* The counter is zero: no vCPU is at work any more, and the round is over.
LEMMA WaitKeeps ==
  ASSUME TestInv, Wait PROVE TestInv' /\ \A c \in Cpus : ~Active(c)
<1> USE DEF Wait, clockVars, pageVars, localVars, cpuVars, histories
<1>1. \A c \in Cpus : ~Active(c)
  <2>1. IsFiniteSet(ActiveCpus)
    BY KvmClockAssumption, FS_Subset DEF ActiveCpus
  <2>2. Cardinality(ActiveCpus) = 0
    BY <2>1, FS_CardinalityType DEF TestInv, CountInv, TargetInv, Round
  <2>3. ActiveCpus = {}
    BY <2>1, <2>2, FS_EmptySet
  <2> QED
    BY <2>3 DEF ActiveCpus
<1>2. TestTypes' /\ TargetInv' /\ CountInv'
  BY Sizes DEF TestInv, TestTypes, TargetInv, CountInv, OneByOne, Round, TestIds
<1>3. ASSUME NEW d \in Cpus PROVE TurnInv(d)' /\ JobInv(d)' /\ RegisterInv(d)'
  BY <1>1, Sizes DEF TestInv, TurnInv, JobInv, RegisterInv, Active, OneByOne, Round, TestLabels, None
<1> QED
  BY <1>1, <1>2, <1>3 DEF TestInv

\* The loops that call a function on one vCPU after the other, and wait for it.
LEMMA CallEachKeeps ==
  ASSUME TestInv, NEW f, NEW next, CallEach(f, next),
         <<f, next>> \in {<<"init", "wall">>, <<"wall", "flags">>, <<"clear", "idle">>}
  PROVE  TestInv'
<1> USE DEF CallEach
<1>0. /\ f \in OneByOne /\ f # None /\ f \in Functions /\ phase = f
      /\ ncpus \in Nat /\ target \in 0 .. ncpus
      /\ \A c \in Cpus : c \in Nat
  BY Sizes DEF OneByOne, None, Functions, TestInv, TestTypes, TargetInv
<1>1. \A c \in Cpus : ~Active(c)
  <2> SUFFICES ASSUME NEW c \in Cpus, Active(c) PROVE FALSE
    OBVIOUS
  <2>1. c = target - 1
    BY <1>0 DEF TestInv, JobInv
  <2> QED
    BY <2>1 DEF Returned, Active
<1>2. CASE target < ncpus /\ target \in Cpus
  <2>1. /\ phase' = f /\ target' = target + 1 /\ smp_call_function_single(target, f)
        /\ UNCHANGED <<clockVars, ioctls, test, ti, loop, delta, tmp, histories>>
    BY <1>0, <1>2
  <2>2. TestTypes'
    BY <1>0, <1>2, <2>1 DEF TestInv, TestTypes, smp_call_function_single, ncpus, histories
  <2>3. TargetInv' /\ CountInv'
    BY <1>0, <1>2, <2>1 DEF TargetInv, CountInv, OneByOne, Round
  <2>4. ASSUME NEW d \in Cpus PROVE TurnInv(d)' /\ JobInv(d)' /\ RegisterInv(d)'
    BY <1>0, <1>1, <1>2, <2>1
    DEF TestInv, TestTypes, smp_call_function_single, TurnInv, JobInv, RegisterInv, Active, OneByOne,
        Round, TestLabels, Locked, Turning, Reading, None, clockVars, pageVars, localVars, ncpus
  <2> QED
    BY <2>2, <2>3, <2>4 DEF TestInv
<1>3. CASE target < ncpus /\ target \notin Cpus
  <2>1. /\ phase' = f /\ target' = target + 1 /\ UNCHANGED <<ipi, tpc, info>>
        /\ UNCHANGED <<clockVars, ioctls, test, ti, loop, delta, tmp, histories>>
    BY <1>0, <1>3, Sizes DEF smp_call_function_single
  <2>2. TestTypes' /\ TargetInv' /\ CountInv'
    BY <1>0, <1>3, <2>1 DEF TestInv, TestTypes, histories, TargetInv, CountInv, OneByOne, Round, ncpus
  <2>4. ASSUME NEW d \in Cpus PROVE TurnInv(d)' /\ JobInv(d)' /\ RegisterInv(d)'
    BY <1>0, <1>1, <1>3, <2>1
    DEF TestInv, TurnInv, JobInv, RegisterInv, Active, OneByOne, Round,
        clockVars, pageVars, localVars, ncpus
  <2> QED
    BY <2>2, <2>4 DEF TestInv
<1>4. CASE ~(target < ncpus)
  <2>1. /\ phase' = next /\ target' = 0 /\ UNCHANGED <<ipi, tpc, info>>
        /\ UNCHANGED <<clockVars, ioctls, test, ti, loop, delta, tmp, histories>>
        /\ next \in {"wall", "flags", "idle"}
    BY <1>0, <1>4
  <2>2. TestTypes' /\ TargetInv' /\ CountInv'
    BY <1>0, <2>1 DEF TestInv, TestTypes, histories, TargetInv, CountInv, OneByOne, Round, ncpus
  <2>4. ASSUME NEW d \in Cpus PROVE TurnInv(d)' /\ JobInv(d)' /\ RegisterInv(d)'
    BY <1>0, <1>1, <1>4, <2>1
    DEF TestInv, TurnInv, JobInv, RegisterInv, Active, OneByOne, Round, TestLabels,
        clockVars, pageVars, localVars, ncpus, None
  <2> QED
    BY <2>2, <2>4 DEF TestInv
<1> QED
  BY <1>2, <1>3, <1>4

\* The loop that starts kvm_clock_test on every vCPU, without waiting.
LEMMA SendKeeps ==
  ASSUME TestInv, Send PROVE TestInv'
<1> USE DEF Send
<1>0. /\ phase = "send" /\ ncpus \in Nat /\ target \in -1 .. ncpus /\ target < ncpus
      /\ UNCHANGED <<clockVars, ioctls, test, ti, loop, delta, tmp, histories>>
      /\ \A c \in Cpus : c \in Nat
  BY Sizes DEF TestInv, TestTypes, TargetInv
<1>1. CASE target >= 0 /\ target \in Cpus
  <2>1. phase' = "send" /\ target' = target - 1 /\ smp_call_function_single(target, "test")
        /\ ~Active(target)
    BY <1>0, <1>1 DEF TestInv, JobInv, Round
  <2>2. TestTypes'
    BY <1>0, <1>1, <2>1 DEF TestInv, TestTypes, smp_call_function_single, ncpus, histories, Functions
  <2>3. TargetInv'
    BY <1>0, <1>1, <2>1 DEF TargetInv, OneByOne, ncpus
  <2>4. CountInv'
    <3>1. IsFiniteSet(ActiveCpus) /\ target \notin ActiveCpus
      BY <2>1, KvmClockAssumption, FS_Subset DEF ActiveCpus
    <3>2. ActiveCpus' = ActiveCpus \union {target}
      BY <1>1, <2>1
      DEF ActiveCpus, Active, smp_call_function_single, TestInv, TestTypes, None
    <3>3. Cardinality(ActiveCpus') = Cardinality(ActiveCpus) + 1
          /\ Cardinality(ActiveCpus) \in Nat
      BY <3>1, <3>2, FS_AddElement, FS_CardinalityType
    <3>4. ti[test].ncpus \in Nat
      BY DEF TestInv, TestTypes, TestInfos
    <3> QED
      BY <1>0, <2>1, <3>3, <3>4 DEF TestInv, CountInv, Round
  <2>5. ASSUME NEW d \in Cpus PROVE TurnInv(d)' /\ JobInv(d)' /\ RegisterInv(d)'
    BY <1>0, <1>1, <2>1
    DEF TestInv, TestTypes, smp_call_function_single, TurnInv, JobInv, RegisterInv, Active, OneByOne,
        Round, TestLabels, Locked, Turning, Reading, None, clockVars, pageVars, localVars, ncpus
  <2> QED
    BY <2>2, <2>3, <2>4, <2>5 DEF TestInv
<1>2. CASE ~(target >= 0 /\ target \in Cpus)
  <2>1. /\ UNCHANGED <<ipi, tpc, info>>
        /\ \/ phase' = "send" /\ target' = target - 1 /\ target >= 0 /\ target \notin Cpus
           \/ phase' = "wait" /\ target' = target /\ target = -1
    BY <1>0, <1>2, Sizes DEF smp_call_function_single
  <2>2. TestTypes' /\ TargetInv'
    BY <1>0, <2>1 DEF TestInv, TestTypes, histories, TargetInv, OneByOne, ncpus
  <2>3. CountInv'
    <3>1. IsFiniteSet(ActiveCpus) /\ ActiveCpus' = ActiveCpus
      BY <2>1, KvmClockAssumption, FS_Subset DEF ActiveCpus, Active
    <3>2. Cardinality(ActiveCpus) \in Nat /\ ti[test].ncpus \in Nat
      BY <3>1, FS_CardinalityType DEF TestInv, TestTypes, TestInfos
    <3> QED
      BY <1>0, <2>1, <3>1, <3>2 DEF TestInv, CountInv, Round
  <2>4. ASSUME NEW d \in Cpus PROVE TurnInv(d)' /\ JobInv(d)' /\ RegisterInv(d)'
    BY <1>0, <2>1
    DEF TestInv, TurnInv, JobInv, RegisterInv, Active, OneByOne, Round,
        clockVars, pageVars, localVars, ncpus
  <2> QED
    BY <2>2, <2>3, <2>4 DEF TestInv
<1> QED
  BY <1>1, <1>2

\* Only the clock moves, and no read begins or ends.
LEMMA ClockOnlyKeeps ==
  ASSUME TestInv, UNCHANGED testVars, UNCHANGED msr,
         \A d \in Cpus : (rpc'[d] = "idle") <=> (rpc[d] = "idle")
  PROVE  TestInv'
<1> USE DEF testVars, callerVars, cpuVars, histories
<1>1. TestTypes' /\ TargetInv'
  BY DEF TestInv, TestTypes, TargetInv, ncpus
<1>2. CountInv'
  BY CountKept DEF Active
<1>3. ASSUME NEW d \in Cpus PROVE TurnInv(d)' /\ JobInv(d)' /\ RegisterInv(d)'
  BY DEF TestInv, TurnInv, JobInv, RegisterInv, Active, ncpus
<1> QED
  BY <1>1, <1>2, <1>3 DEF TestInv

\* A step of a read begins no read and ends none.
LEMMA ReadStaysInside ==
  ASSUME ClockInv, NEW c \in Cpus, ReadStep(c)
  PROVE  /\ UNCHANGED <<pageVars, histVars>> /\ rpc[c] # "idle"
         /\ \E l \in ReadLabels \ {"idle"} : rpc' = [rpc EXCEPT ![c] = l]
<1>1. rpc \in [Cpus -> ReadLabels]
  BY DEF ClockInv, Values
<1>2. UNCHANGED <<pageVars, histVars>>
  BY DEF ReadStep
<1>3. CASE \/ ReadVersion(c) \/ ReadTsc(c) \/ ReadDelta(c) \/ ReadTime(c)
           \/ CheckOdd(c) \/ CheckSame(c)
  BY <1>1, <1>2, <1>3
  DEF ReadVersion, ReadTsc, ReadDelta, ReadTime, CheckOdd, CheckSame, Goto, ReadLabels
<1>4. CASE ReturnStable(c) \/ PassStable(c) \/ LoadLast(c)
  BY <1>1, <1>2, <1>4 DEF ReturnStable, PassStable, LoadLast, Goto, Finish, ReadLabels
<1>5. CASE Cmpxchg(c)
  <2>1. rpc[c] = "cmpxchg" /\ (Goto(c, "done") \/ rpc' = rpc)
    BY <1>5 DEF Cmpxchg, Finish
  <2>2. rpc' = rpc => rpc' = [rpc EXCEPT ![c] = "cmpxchg"]
    BY <1>1, <2>1
  <2> QED
    BY <1>2, <2>1, <2>2 DEF Goto, ReadLabels
<1> QED
  BY <1>3, <1>4, <1>5 DEF ReadStep

\* A step inside kvm_clock_read touches nothing of the test.
LEMMA ReadStepKeeps ==
  ASSUME ClockInv, TestInv, NEW c \in Cpus, ReadStep(c), UNCHANGED testVars PROVE TestInv'
<1>1. rpc \in [Cpus -> ReadLabels]
  BY DEF ClockInv, Values
<1>2. PICK l \in ReadLabels \ {"idle"} : rpc' = [rpc EXCEPT ![c] = l]
  BY ReadStaysInside
<1>3. UNCHANGED msr /\ rpc[c] # "idle"
  BY ReadStaysInside DEF pageVars
<1>4. \A d \in Cpus : (rpc'[d] = "idle") <=> (rpc[d] = "idle")
  BY <1>1, <1>2, <1>3
<1> QED
  BY <1>3, <1>4, ClockOnlyKeeps

\* A vCPU takes the IPI and enters the function it was sent for.
LEMMA PickupKeeps ==
  ASSUME TestInv, NEW c \in Cpus, Pickup(c) PROVE TestInv'
<1> USE DEF Pickup, Enter, clockVars, pageVars, localVars, callerVars, histories
<1>0. tpc \in [Cpus -> Functions \union TestLabels \union {"print", None}]
      /\ ipi \in [Cpus -> Functions \union {None}] /\ ipi[c] # None /\ tpc[c] = None
  BY DEF TestInv, TestTypes
<1>1. TestTypes' /\ TargetInv'
  BY <1>0 DEF TestInv, TestTypes, TargetInv, ncpus
<1>2. CountInv'
  BY <1>0, CountKept DEF Active
<1>3. TurnInv(c)' /\ JobInv(c)' /\ RegisterInv(c)'
  <2>1. /\ ipi'[c] = None /\ tpc'[c] = ipi[c] /\ Active(c) /\ Active(c)'
        /\ rpc[c] = "idle" /\ phase \in OneByOne \union Round
        /\ tpc'[c] = IF phase \in OneByOne THEN phase ELSE "test"
    BY <1>0
    DEF TestInv, TestTypes, TurnInv, JobInv, Active, None, Reading, OneByOne, Round
  <2>2. TurnInv(c)' /\ RegisterInv(c)'
    BY <1>0, <2>1
    DEF TestInv, TurnInv, RegisterInv, ncpus, OneByOne, Turning, Locked
  <2>3. JobInv(c)'
    BY <1>0, <2>1 DEF TestInv, JobInv, ncpus, OneByOne, Round, TestLabels
  <2> QED
    BY <2>2, <2>3
<1>4. ASSUME NEW d \in Cpus, d # c PROVE TurnInv(d)' /\ JobInv(d)' /\ RegisterInv(d)'
  BY <1>0, <1>4, Unnoticed
<1> QED
  BY <1>1, <1>2, <1>3, <1>4 DEF TestInv

\* kvm_clock_init and kvm_clock_clear on the vCPU that was called.
LEMMA RegisterKeeps ==
  ASSUME ClockInv, TestInv, NEW c \in Cpus, Register(c) PROVE TestInv'
<1> USE DEF Register, Enter, callerVars, histories
<1>0. /\ tpc \in [Cpus -> Functions \union TestLabels \union {"print", None}]
      /\ tpc[c] \in {"init", "clear"} /\ tpc' = [tpc EXCEPT ![c] = None]
      /\ msr' = [msr EXCEPT ![c] = IF tpc[c] = "init" THEN "on" ELSE "off"]
      /\ UNCHANGED rpc
      /\ rpc[c] = "idle" /\ msr \in [Cpus -> {"unset", "on", "off"}]
      /\ ipi[c] = None /\ phase = tpc[c] /\ c = target - 1 /\ c \in Nat /\ target \in -1 .. ncpus
  BY Sizes
  DEF TestInv, TestTypes, TurnInv, JobInv, kvm_clock_init, kvm_clock_clear, localVars, ClockInv, Values,
      Active, OneByOne, None
<1>1. TestTypes' /\ TargetInv'
  BY <1>0 DEF TestInv, TestTypes, TargetInv, ncpus
<1>2. CountInv'
  BY <1>0 DEF CountInv, Round
<1>3. TurnInv(c)' /\ JobInv(c)' /\ RegisterInv(c)'
  BY <1>0
  DEF TestInv, TurnInv, JobInv, RegisterInv, Active, ncpus, OneByOne, Round, TestLabels, Functions,
      Reading, Turning, Locked, None
<1>4. ASSUME NEW d \in Cpus, d # c PROVE TurnInv(d)' /\ JobInv(d)' /\ RegisterInv(d)'
  BY <1>0, <1>4, Unnoticed
<1> QED
  BY <1>1, <1>2, <1>3, <1>4 DEF TestInv

\* kvm_clock_test enters one of its two loops.
LEMMA StartKeeps ==
  ASSUME TestInv, NEW c \in Cpus, kvm_clock_test(c) PROVE TestInv'
<1> USE DEF kvm_clock_test, Enter, clockVars, pageVars, localVars, callerVars, histories
<1>0. /\ tpc \in [Cpus -> Functions \union TestLabels \union {"print", None}]
      /\ loop \in [Cpus -> 0 .. Loops] /\ tpc[c] = "test"
      /\ \E l \in {"plain", "lock"} : tpc' = [tpc EXCEPT ![c] = l]
  BY DEF TestInv, TestTypes
<1>1. TestTypes' /\ TargetInv'
  BY <1>0, Sizes DEF TestInv, TestTypes, TargetInv, ncpus, TestLabels
<1>2. CountInv'
  BY <1>0, CountKept DEF Active, None
<1>3. TurnInv(c)' /\ JobInv(c)' /\ RegisterInv(c)'
  BY <1>0
  DEF TestInv, TurnInv, JobInv, RegisterInv, Active, ncpus, OneByOne, Round, TestLabels, Functions,
      Reading, Turning, Locked, None
<1>4. ASSUME NEW d \in Cpus, d # c PROVE TurnInv(d)' /\ JobInv(d)' /\ RegisterInv(d)'
  BY <1>0, <1>4, Unnoticed
<1> QED
  BY <1>1, <1>2, <1>3, <1>4 DEF TestInv

\* The lock is taken when nobody has it.
LEMMA SpinLockKeeps ==
  ASSUME TestInv, NEW c \in Cpus, SpinLock(c) PROVE TestInv'
<1> USE DEF SpinLock, Enter, clockVars, pageVars, localVars, callerVars, histories
<1> DEFINE k == info[c]
<1>0. /\ tpc \in [Cpus -> Functions \union TestLabels \union {"print", None}]
      /\ ti \in [TestIds -> TestInfos] /\ k \in TestIds /\ tpc[c] = "lock" /\ loop[c] < Loops
      /\ tpc' = [tpc EXCEPT ![c] = "t1"] /\ rpc[c] = "idle"
  BY DEF TestInv, TestTypes, TurnInv, Reading
<1>a. /\ ti' \in [TestIds -> TestInfos] /\ ti'[k].lock = c
      /\ \A j \in TestIds : ti'[j].ncpus = ti[j].ncpus
      /\ \A j \in TestIds \ {k} : ti'[j].lock = ti[j].lock
  BY <1>0 DEF TestInfos
<1>1. TestTypes' /\ TargetInv'
  BY <1>0, <1>a DEF TestInv, TestTypes, TargetInv, ncpus, TestLabels
<1>2. CountInv'
  BY <1>0, <1>a, CountKept DEF Active, None, TestInv, TestTypes
<1>3. TurnInv(c)' /\ JobInv(c)' /\ RegisterInv(c)'
  BY <1>0, <1>a
  DEF TestInv, TurnInv, JobInv, RegisterInv, Active, ncpus, OneByOne, Round, TestLabels, Functions,
      Reading, Turning, Locked, None
<1>4. ASSUME NEW d \in Cpus, d # c PROVE TurnInv(d)' /\ JobInv(d)' /\ RegisterInv(d)'
  <2>1. tpc[d] \in Locked => info[d] # k
    BY <1>0, Sizes DEF TestInv, TurnInv
  <2> QED
    BY <1>0, <1>a, <1>4, <2>1, Unnoticed DEF TestInv, TestTypes
<1> QED
  BY <1>1, <1>2, <1>3, <1>4 DEF TestInv

\* A vCPU in a function that reads the clock calls kvm_clock_read.
LEMMA CallKeeps ==
  ASSUME ClockInv, TestInv, NEW c \in Cpus, kvm_clock_read(c) PROVE TestInv'
<1> USE DEF kvm_clock_read, Call, Goto, testVars, callerVars, cpuVars, histories, pageVars
<1>0. rpc \in [Cpus -> ReadLabels] /\ rpc' = [rpc EXCEPT ![c] = "version"]
  BY DEF ClockInv, Values
<1>1. TestTypes' /\ TargetInv'
  BY DEF TestInv, TestTypes, TargetInv, ncpus
<1>2. CountInv'
  BY CountKept DEF Active
<1>3. ASSUME NEW d \in Cpus PROVE TurnInv(d)' /\ JobInv(d)' /\ RegisterInv(d)'
  BY <1>0 DEF TestInv, TurnInv, JobInv, RegisterInv, Active, ncpus, Reading, None
<1> QED
  BY <1>1, <1>2, <1>3 DEF TestInv

\* A vCPU goes on within kvm_clock_test, outside the lock.
LEMMA TurnKeeps ==
  ASSUME TestInv, NEW c \in Cpus, NEW l \in TestLabels \ Locked, tpc[c] \in TestLabels,
         tpc' = [tpc EXCEPT ![c] = l], TestTypes',
         UNCHANGED <<callerVars, ipi, info, msr>>,
         \A d \in Cpus \ {c} : rpc'[d] = rpc[d] /\ loop'[d] = loop[d],
         rpc'[c] = "idle", l \in Turning => loop'[c] < Loops,
         ti'[test].ncpus = ti[test].ncpus,
         \A d \in Cpus \ {c} :
           tpc[d] \in Locked => ti'[info[d]].lock = ti[info[d]].lock
  PROVE  TestInv'
<1> USE DEF callerVars
<1>0. tpc \in [Cpus -> Functions \union TestLabels \union {"print", None}]
  BY DEF TestInv, TestTypes
<1>1. TargetInv'
  BY DEF TestInv, TargetInv, ncpus
<1>2. CountInv'
  BY <1>0, CountKept DEF Active, None, TestLabels
<1>3. TurnInv(c)' /\ JobInv(c)' /\ RegisterInv(c)'
  BY <1>0
  DEF TestInv, TurnInv, JobInv, RegisterInv, Active, ncpus, OneByOne, Round, TestLabels, Functions,
      Locked, None
<1>4. ASSUME NEW d \in Cpus, d # c PROVE TurnInv(d)' /\ JobInv(d)' /\ RegisterInv(d)'
  BY <1>0, <1>4, Unnoticed
<1> QED
  BY <1>1, <1>2, <1>3, <1>4 DEF TestInv

\* A warp is counted under the lock.
LEMMA CountWarpKeeps ==
  ASSUME TestInv, NEW c \in Cpus, CountWarp(c) PROVE TestInv'
<1> USE DEF CountWarp, NextLoop, Enter, clockVars, pageVars, localVars, callerVars, histories
<1> DEFINE k == info[c]
<1>0. /\ ti \in [TestIds -> TestInfos] /\ k \in TestIds /\ delta[c] \in Int
      /\ loop \in [Cpus -> 0 .. Loops] /\ loop[c] < Loops /\ rpc[c] = "idle"
  BY DEF TestInv, TestTypes, TurnInv, Turning, Reading
<1>1. ti' \in [TestIds -> TestInfos]
      /\ \A j \in TestIds : ti'[j].lock = ti[j].lock /\ ti'[j].ncpus = ti[j].ncpus
  BY <1>0 DEF TestInfos
<1>2. TestTypes'
  BY <1>0, <1>1, Sizes DEF TestInv, TestTypes, ncpus, TestLabels
<1> QED
  BY <1>0, <1>1, <1>2, TurnKeeps DEF TestInv, TestTypes, TestLabels, Locked, Turning

\* ++stalls, its load.
LEMMA LoadStallsKeeps ==
  ASSUME TestInv, NEW c \in Cpus, LoadStalls(c) PROVE TestInv'
<1> USE DEF LoadStalls, Enter, clockVars, pageVars, localVars, callerVars, histories
<1>0. /\ ti \in [TestIds -> TestInfos] /\ info[c] \in TestIds
      /\ loop[c] < Loops /\ rpc[c] = "idle"
  BY DEF TestInv, TestTypes, TurnInv, Turning, Reading
<1>1. TestTypes'
  BY <1>0 DEF TestInv, TestTypes, ncpus, TestLabels, TestInfos
<1> QED
  BY <1>0, <1>1, TurnKeeps DEF TestInv, TestTypes, TestLabels, Locked, Turning

\* ++stalls, its store.
LEMMA StoreStallsKeeps ==
  ASSUME TestInv, NEW c \in Cpus, StoreStalls(c) PROVE TestInv'
<1> USE DEF StoreStalls, NextLoop, Enter, clockVars, pageVars, localVars, callerVars, histories
<1> DEFINE k == info[c]
<1>0. /\ ti \in [TestIds -> TestInfos] /\ k \in TestIds /\ tmp[c] \in Nat
      /\ loop \in [Cpus -> 0 .. Loops] /\ loop[c] < Loops /\ rpc[c] = "idle"
  BY DEF TestInv, TestTypes, TurnInv, Turning, Reading
<1>1. ti' \in [TestIds -> TestInfos]
      /\ \A j \in TestIds : ti'[j].lock = ti[j].lock /\ ti'[j].ncpus = ti[j].ncpus
  BY <1>0 DEF TestInfos
<1>2. TestTypes'
  BY <1>0, <1>1, Sizes DEF TestInv, TestTypes, ncpus, TestLabels
<1> QED
  BY <1>0, <1>1, <1>2, TurnKeeps DEF TestInv, TestTypes, TestLabels, Locked, Turning

\* A vCPU that has finished its loops leaves the counter, and the round.
LEMMA AtomicDecKeeps ==
  ASSUME TestInv, NEW c \in Cpus, atomic_dec(c) PROVE TestInv'
<1> USE DEF atomic_dec, Enter, clockVars, pageVars, localVars, callerVars, histories
<1> DEFINE k == info[c]
<1>0. /\ tpc \in [Cpus -> Functions \union TestLabels \union {"print", None}]
      /\ ti \in [TestIds -> TestInfos] /\ k = test /\ test \in TestIds /\ Active(c)
      /\ phase \in Round /\ ipi[c] = None /\ target \in -1 .. ncpus /\ ncpus \in Nat
  BY Sizes DEF TestInv, TestTypes, TurnInv, JobInv, Active, None, TestLabels
<1>1. IsFiniteSet(ActiveCpus) /\ c \in ActiveCpus
  BY <1>0, KvmClockAssumption, FS_Subset DEF ActiveCpus
<1>2. ActiveCpus' = ActiveCpus \ {c}
  BY <1>0 DEF ActiveCpus, Active
<1>3. Cardinality(ActiveCpus) \in Nat /\ Cardinality(ActiveCpus') = Cardinality(ActiveCpus) - 1
      /\ Cardinality(ActiveCpus') \in Nat
  BY <1>1, <1>2, FS_RemoveElement, FS_CardinalityType, FS_Subset
<1>4. ti[test].ncpus \in Nat /\ ti[test].ncpus >= 1
  BY <1>0, <1>3 DEF TestInfos, TestInv, CountInv
<1>5. /\ ti' \in [TestIds -> TestInfos] /\ ti'[test].ncpus = ti[test].ncpus - 1
      /\ \A j \in TestIds : ti'[j].lock = ti[j].lock
  BY <1>0, <1>4 DEF TestInfos
<1>6. TestTypes' /\ TargetInv'
  BY <1>0, <1>5, Sizes DEF TestInv, TestTypes, TargetInv, ncpus
<1>7. CountInv'
  BY <1>0, <1>3, <1>4, <1>5 DEF TestInv, CountInv
<1>8. TurnInv(c)' /\ JobInv(c)' /\ RegisterInv(c)'
  BY <1>0
  DEF TestInv, TurnInv, JobInv, RegisterInv, Active, ncpus, OneByOne, Round, TestLabels,
      Locked, Turning, None
<1>9. ASSUME NEW d \in Cpus, d # c PROVE TurnInv(d)' /\ JobInv(d)' /\ RegisterInv(d)'
  BY <1>0, <1>5, <1>9, Unnoticed DEF TestInv, TestTypes
<1> QED
  BY <1>6, <1>7, <1>8, <1>9 DEF TestInv

\* A reading comes back to the function that asked for it.
LEMMA ReadDoneKeeps ==
  ASSUME ClockInv, TestInv, NEW c \in Cpus, ReadDone(c) PROVE TestInv'
<1> USE DEF ReadDone, callerVars
<1> DEFINE k == info[c]
<1>0. /\ tpc \in [Cpus -> Functions \union TestLabels \union {"print", None}]
      /\ ti \in [TestIds -> TestInfos] /\ k \in TestIds /\ loop \in [Cpus -> 0 .. Loops]
      /\ rpc[c] = "done" /\ rpc' = [rpc EXCEPT ![c] = "idle"] /\ UNCHANGED msr
      /\ rpc \in [Cpus -> ReadLabels]
      /\ ret[c] \in Int /\ ret[c] >= 0 /\ tpc[c] \in Reading
      /\ UNCHANGED <<callerVars, ipi, info, tmp>>
  BY DEF TestInv, TestTypes, TurnInv, ClockInv, Values, CpuInv, AnswerInv, Accepting, Return, Goto,
         pageVars
<1>a. \A d \in Cpus : d # c => rpc'[d] = rpc[d]
  BY <1>0
<1>1. CASE GotT1(c)
  <2> USE <1>1 DEF GotT1, Enter, histories
  <2>1. TestTypes' /\ TargetInv'
    BY <1>0, Sizes DEF TestInv, TestTypes, TargetInv, TestInfos, ncpus, TestLabels
  <2>2. CountInv'
    BY <1>0, CountKept DEF Active, None
  <2>3. TurnInv(c)' /\ JobInv(c)' /\ RegisterInv(c)'
    BY <1>0
    DEF TestInv, TurnInv, JobInv, RegisterInv, Active, ncpus, OneByOne, Round, TestLabels, Functions,
        Reading, Turning, Locked, None
  <2>4. ASSUME NEW d \in Cpus, d # c PROVE TurnInv(d)' /\ JobInv(d)' /\ RegisterInv(d)'
    BY <1>0, <1>a, <2>4, Unnoticed
  <2> QED
    BY <2>1, <2>2, <2>3, <2>4 DEF TestInv
<1>2. CASE GotLast(c)
  <2> USE <1>2 DEF GotLast
  <2> DEFINE l == CASE delta[c] < 0 -> "warp" [] delta[c] = 0 -> "stall" [] OTHER -> "lock"
  <2>1. /\ delta[c] \in Int /\ tpc' = [tpc EXCEPT ![c] = l]
        /\ l \in {"warp", "stall", "lock"}
        /\ l \in {"warp", "stall"} => ~(delta[c] > 0)
    <3>1. delta[c] \in Int
      BY DEF TestInv, TestTypes
    <3>2. CASE delta[c] < 0
      BY <3>1, <3>2 DEF Enter
    <3>3. CASE delta[c] = 0
      BY <3>1, <3>3 DEF Enter
    <3>4. CASE ~(delta[c] < 0) /\ delta[c] # 0
      BY <3>1, <3>4 DEF Enter
    <3> QED
      BY <3>1, <3>2, <3>3, <3>4
  <2> HIDE DEF l
  <2>2. /\ ti' \in [TestIds -> TestInfos]
        /\ \A j \in TestIds : ti'[j].ncpus = ti[j].ncpus
        /\ \A j \in TestIds \ {k} : ti'[j].lock = ti[j].lock
    <3>1. ret[c] \in Nat /\ Nobody \in Cpus \union {Nobody}
      BY <1>0
    <3>2. ti' = [ti EXCEPT ![k] = [@ EXCEPT !.last = ret[c], !.lock = Nobody]]
      BY <1>0
    <3>3. [ti[k] EXCEPT !.last = ret[c], !.lock = Nobody] \in TestInfos
          /\ [ti[k] EXCEPT !.last = ret[c], !.lock = Nobody].ncpus = ti[k].ncpus
      BY <1>0, <3>1 DEF TestInfos
    <3> QED
      BY <1>0, <3>2, <3>3
  <2>3. /\ loop[c] \in 0 .. Loops /\ loop[c] < Loops /\ loop'[c] \in 0 .. Loops
        /\ loop' \in [Cpus -> 0 .. Loops]
        /\ \A d \in Cpus \ {c} : loop'[d] = loop[d]
        /\ l \in {"warp", "stall"} => loop'[c] = loop[c]
    BY <1>0, <2>1, Sizes DEF TestInv, TurnInv, Turning
  <2>4. stalled' \in [TestIds -> Nat] /\ warped' \in [TestIds -> Nat]
    BY DEF TestInv, TestTypes
  <2>5. TestTypes'
    BY <1>0, <2>1, <2>2, <2>3, <2>4 DEF TestInv, TestTypes, ncpus, TestLabels
  <2>6. ASSUME NEW d \in Cpus, d # c, tpc[d] \in Locked PROVE info[d] # k
    BY <2>6 DEF TestInv, TurnInv, Locked
  <2>7. /\ l \in TestLabels \ Locked /\ tpc[c] \in TestLabels /\ test \in TestIds
        /\ l \in Turning => loop'[c] < Loops
        /\ UNCHANGED <<callerVars, ipi, info, msr>> /\ rpc'[c] = "idle"
    BY <1>0, <2>1, <2>3 DEF TestLabels, Locked, Turning, TestInv, TestTypes
  <2>8. \A d \in Cpus \ {c} :
          tpc[d] \in Locked => ti'[info[d]].lock = ti[info[d]].lock
    BY <2>2, <2>6 DEF TestInv, TestTypes
  <2> QED
    BY <1>a, <2>1, <2>2, <2>3, <2>5, <2>7, <2>8, TurnKeeps
<1>3. CASE GotPlain(c)
  <2> USE <1>3 DEF GotPlain, histories
  <2>1. loop[c] \in 0 .. Loops /\ loop[c] < Loops /\ Loops \in Nat
    BY <1>0, Sizes DEF TestInv, TurnInv
  <2>2. TestTypes' /\ TargetInv'
    BY <1>0, <2>1 DEF TestInv, TestTypes, TargetInv, ncpus
  <2>3. CountInv'
    BY <1>0, CountKept DEF Active
  <2>4. TurnInv(c)' /\ JobInv(c)' /\ RegisterInv(c)'
    BY <1>0
    DEF TestInv, TurnInv, JobInv, RegisterInv, Active, ncpus, Turning, Locked
  <2>5. ASSUME NEW d \in Cpus, d # c PROVE TurnInv(d)' /\ JobInv(d)' /\ RegisterInv(d)'
    BY <1>0, <1>a, <2>5, Unnoticed
  <2> QED
    BY <2>2, <2>3, <2>4, <2>5 DEF TestInv
<1>4. CASE GotWall(c)
  <2> USE <1>4 DEF GotWall, Enter, histories
  <2>1. TestTypes' /\ TargetInv'
    BY <1>0 DEF TestInv, TestTypes, TargetInv, ncpus
  <2>2. CountInv'
    BY <1>0 DEF TestInv, JobInv, CountInv, Round
  <2>3. TurnInv(c)' /\ JobInv(c)' /\ RegisterInv(c)'
    BY <1>0
    DEF TestInv, TurnInv, JobInv, RegisterInv, Active, ncpus, OneByOne, Round, TestLabels, Functions,
        Reading, Turning, Locked, None
  <2>4. ASSUME NEW d \in Cpus, d # c PROVE TurnInv(d)' /\ JobInv(d)' /\ RegisterInv(d)'
    BY <1>0, <1>a, <2>4, Unnoticed
  <2> QED
    BY <2>1, <2>2, <2>3, <2>4 DEF TestInv
<1> QED
  BY <1>1, <1>2, <1>3, <1>4

\* The module starts with no ioctl and no vCPU at work.
LEMMA TestInitInv == Init => TestInv
<1> SUFFICES ASSUME Init PROVE TestInv
  OBVIOUS
<1>1. TestTypes
  BY Sizes, KvmClockAssumption
  DEF Init, TestTypes, TestIds, ZeroInfo, TestInfos, Nobody
<1>2. TargetInv /\ CountInv
  BY DEF Init, TargetInv, CountInv, OneByOne, Round
<1>3. ASSUME NEW c \in Cpus PROVE TurnInv(c) /\ JobInv(c) /\ RegisterInv(c)
  BY DEF Init, ClockInit, TurnInv, JobInv, RegisterInv, Active, OneByOne, Round, TestLabels,
         Turning, Locked, None
<1> QED
  BY <1>1, <1>2, <1>3 DEF TestInv

\* Every step of the caller, of a vCPU and of the host keeps TestInv.
LEMMA TestNextInv == ClockInv /\ TestInv /\ [Next]_vars => TestInv'
<1> SUFFICES ASSUME ClockInv, TestInv, [Next]_vars PROVE TestInv'
  OBVIOUS
<1>1. CASE CallerStep
  BY <1>1, CallEachKeeps, SetFlagsKeeps, CycleTestKeeps, SendKeeps, WaitKeeps DEF CallerStep
<1>2. ASSUME NEW c \in Cpus, CpuStep(c) PROVE TestInv'
  BY <1>2, PickupKeeps, RegisterKeeps, StartKeeps, SpinLockKeeps, CallKeeps, ReadStepKeeps,
     ReadDoneKeeps, CountWarpKeeps, LoadStallsKeeps, StoreStallsKeeps, AtomicDecKeeps
  DEF CpuStep
<1>3. ASSUME NEW c \in Cpus, HostWrites(c) PROVE TestInv'
  BY <1>3, ClockOnlyKeeps DEF HostWrites, HostUpdate, localVars
<1>4. CASE Tick /\ UNCHANGED testVars
  BY <1>4, ClockOnlyKeeps DEF Tick, localVars
<1>5. CASE UNCHANGED vars
  BY <1>5, ClockOnlyKeeps DEF vars, clockVars, pageVars, localVars
<1>6. CASE ioctl
  BY <1>6, IoctlKeeps
<1> QED
  BY <1>1, <1>2, <1>3, <1>4, <1>5, <1>6 DEF Next

-----------------------------------------------------------------------------
(***************************************************************************)
(* The theorems that need no more than TestInv.                            *)
(***************************************************************************)
Invariant == ClockInv /\ TestInv

\* Both invariants hold at the start.
LEMMA InitInvariant == Init => Invariant
  BY ClockInitInv, TestInitInv DEF Init, Invariant

\* Every step keeps both invariants, of the clock and of the test.
LEMMA NextInvariant == Invariant /\ [Next]_vars => Invariant'
  BY NextIsMove, MoveInv, TestNextInv DEF Invariant

\* Rounds, IPIs, the lock and the counter of test_kvm_clock: in each phase of the
\* caller every vCPU is where TestInv says, on every host and with any online vCPUs.
THEOREM TestInvariant == SafetySpec => []Invariant
  BY InitInvariant, NextInvariant, PTL DEF SafetySpec

\* Types: in particular ti->ncpus never goes below zero, whichever vCPUs are
\* online and in whatever order they pick up their IPIs.
THEOREM TestTypeCorrect == SafetySpec => []TestTypeOK
<1>1. Invariant => TestTypeOK
  BY DEF Invariant, TestInv, TestTypes, TestTypeOK, ClockInv, ClockTypeOK, CpuInv, AnswerInv
<1> QED
  BY <1>1, TestInvariant, PTL

\* test_kvm_clock registers every page before the first read through it and
\* clears none before the last read is over.
THEOREM PagesOutliveReads == SafetySpec => []PageOutlivesReads
<1>1. Invariant => PageOutlivesReads
  <2> SUFFICES ASSUME Invariant, NEW c \in Cpus, rpc[c] # "idle" PROVE msr[c] = "on"
    BY DEF PageOutlivesReads
  <2>1. /\ tpc[c] \in Reading /\ c \in Nat /\ target \in -1 .. ncpus /\ ncpus \in Nat
        /\ JobInv(c) /\ RegisterInv(c) /\ TargetInv
    BY Sizes DEF Invariant, TestInv, TurnInv, TestTypes
  <2>2. CASE phase \in Round
    BY <2>1, <2>2 DEF JobInv, RegisterInv, Round, Active, Reading, None
  <2>3. CASE phase = "wall"
    BY <2>1, <2>3 DEF JobInv, RegisterInv, OneByOne, Active, Reading, None
  <2>4. phase = "wall" \/ phase \in Round
    BY <2>1 DEF JobInv, Reading, TestLabels
  <2> QED
    BY <2>2, <2>3, <2>4
<1> QED
  BY <1>1, TestInvariant, PTL

\* The rounds of test_kvm_clock do not overlap: the flags change only while no
\* vCPU reads, runs kvm_clock_test or has been asked to.
THEOREM FlagsChangedAtRest == SafetySpec => FlagsChangeAtRest
<1>1. ASSUME Invariant, [Next]_vars, valid_flags' # valid_flags, NEW c \in Cpus
      PROVE  rpc[c] = "idle" /\ tpc[c] = None /\ ipi[c] = None
  <2>1. SetFlags
    BY <1>1
    DEF Next, CallerStep, CpuStep, vars, testVars, clockVars, sharedVars, ioctl, CallEach, cycle_test,
        Send, Wait, Pickup, Register, kvm_clock_init, kvm_clock_clear, kvm_clock_test,
        SpinLock, kvm_clock_read, Call, ReadStep, ReadDone, Return, CountWarp, LoadStalls,
        StoreStalls, atomic_dec, HostWrites, HostUpdate, Tick
  <2>2. ~Active(c)
    BY <1>1, <2>1 DEF SetFlags, Invariant, TestInv, JobInv
  <2> QED
    BY <1>1, <2>2 DEF Invariant, TestInv, TurnInv, Active, Reading, None
<1>2. Invariant /\ [Next]_vars =>
        [valid_flags' # valid_flags =>
           \A c \in Cpus : rpc[c] = "idle" /\ tpc[c] = None /\ ipi[c] = None]_vars
  BY <1>1
<1> QED
  BY <1>2, TestInvariant, PTL DEF SafetySpec, FlagsChangeAtRest

\* On a host without a stable counter the readings that test_kvm_clock takes,
\* on all vCPUs and in all rounds, come from one clock that only moves forward.
THEOREM TestReadsMonoClock == ASSUME ~StableHost PROVE SafetySpec => ImplementsMonoClock
<1>1. Init => Mono!Init
  BY DEF Init, ClockInit, Mono!Init
<1>2. Invariant /\ Invariant' /\ [Next]_vars => [Mono!Next]_Mono!monoVars
  BY NextIsMove, MonoMove DEF Invariant
<1> QED
  BY <1>1, <1>2, TestInvariant, PTL DEF SafetySpec, ImplementsMonoClock, Mono!Spec

-----------------------------------------------------------------------------
(***************************************************************************)
(* Warps and stalls: what was seen against what ti counts.                 *)
(***************************************************************************)
Tallying == {"warp", "stall", "store"}

TallyInv == WarpInv /\ StallInv

\* A vCPU is where it was in counting what it saw, or is not counting before
\* and after the step.
SameTally(c) ==
  \/ tpc[c] \notin Tallying /\ tpc'[c] \notin Tallying
  \/ tpc'[c] = tpc[c] /\ info'[c] = info[c] /\ delta'[c] = delta[c] /\ tmp'[c] = tmp[c]

SameCounts(k) ==
  /\ ti'[k].warps = ti[k].warps /\ ti'[k].worst = ti[k].worst
  /\ ti'[k].stalls = ti[k].stalls

\* A step that counts nothing and moves no vCPU that is counting.
LEMMA TallyKept ==
  ASSUME TallyInv, UNCHANGED histories, \A k \in TestIds : SameCounts(k),
         \A c \in Cpus : SameTally(c)
  PROVE  TallyInv'
<1>1. ASSUME NEW k \in TestIds PROVE Warping(k)' = Warping(k) /\ Stalling(k)' = Stalling(k)
  BY DEF Warping, Stalling, SameTally, Tallying
<1>2. WarpInv'
  BY <1>1 DEF TallyInv, WarpInv, SameCounts, SameTally, histories, Tallying
<1>3. ASSUME NEW k \in TestIds PROVE StallsCovered(k)'
  <2>1. \A c \in Stalling(k) : tpc'[c] = tpc[c] /\ tmp'[c] = tmp[c]
    BY DEF Stalling, SameTally, Tallying
  <2> QED
    BY <1>1, <2>1 DEF TallyInv, StallInv, StallsCovered, SameCounts, histories
<1> QED
  BY <1>2, <1>3 DEF TallyInv, StallInv

\* The vCPUs that are about to count are finitely many.
LEMMA TallySets ==
  ASSUME NEW k \in TestIds
  PROVE  /\ IsFiniteSet(Warping(k)) /\ IsFiniteSet(Stalling(k))
         /\ Cardinality(Warping(k)) \in Nat /\ Cardinality(Stalling(k)) \in Nat
<1>1. Warping(k) \subseteq Cpus /\ Stalling(k) \subseteq Cpus
  BY DEF Warping, Stalling
<1> QED
  BY <1>1, KvmClockAssumption, FS_Subset, FS_CardinalityType

\* The difference of two readings decides what the vCPU goes on to count.
LEMMA GotLastTally ==
  ASSUME TestInv, TallyInv, NEW c \in Cpus, ReadDone(c), GotLast(c) PROVE TallyInv'
<1> USE DEF ReadDone, GotLast
<1> DEFINE k == info[c]
           l == CASE delta[c] < 0 -> "warp" [] delta[c] = 0 -> "stall" [] OTHER -> "lock"
<1>0. /\ tpc[c] = "last" /\ tpc' = [tpc EXCEPT ![c] = l] /\ delta[c] \in Int
      /\ tpc \in [Cpus -> Functions \union TestLabels \union {"print", None}]
      /\ ti \in [TestIds -> TestInfos] /\ k \in TestIds /\ info \in [Cpus -> TestIds]
      /\ UNCHANGED <<info, delta, tmp>>
      /\ stalled \in [TestIds -> Nat] /\ warped \in [TestIds -> Nat]
      /\ stalled' = [stalled EXCEPT ![k] = IF delta[c] = 0 THEN @ + 1 ELSE @]
      /\ warped' = [warped EXCEPT ![k] = IF delta[c] < 0 THEN @ + 1 ELSE @]
  BY DEF TestInv, TestTypes, Enter
<1>1. /\ delta[c] < 0 => l = "warp"
      /\ delta[c] = 0 => l = "stall"
      /\ delta[c] > 0 => l = "lock"
  <2>1. CASE delta[c] < 0
    BY <1>0, <2>1
  <2>2. CASE delta[c] = 0
    BY <2>2
  <2>3. CASE delta[c] > 0
    BY <1>0, <2>3
  <2> QED
    BY <1>0, <2>1, <2>2, <2>3
<1> HIDE DEF l
<1>2. \A j \in TestIds : SameCounts(j)
  BY <1>0 DEF TestInfos, SameCounts
<1>3. \A j \in TestIds : j # k => Warping(j)' = Warping(j) /\ Stalling(j)' = Stalling(j)
  BY <1>0 DEF Warping, Stalling
<1>4. c \notin Warping(k) /\ c \notin Stalling(k)
  BY <1>0 DEF Warping, Stalling
<1>5. \A j \in TestIds : ti[j].warps \in Nat /\ ti[j].stalls \in Nat /\ ti[j].worst \in Int
  BY <1>0 DEF TestInfos
<1>6. WarpInv'
  <2>1. CASE l = "warp"
    <3>1. Warping(k)' = Warping(k) \union {c}
      BY <1>0, <2>1 DEF Warping
    <3>2. Cardinality(Warping(k)') = Cardinality(Warping(k)) + 1
      BY <1>0, <1>4, <3>1, TallySets, FS_AddElement
    <3>3. delta[c] < 0 /\ warped'[k] = warped[k] + 1
      BY <1>0, <1>1, <2>1
    <3>4. \A d \in Cpus : tpc'[d] = "warp" => delta'[d] < 0
      BY <1>0, <3>3 DEF TallyInv, WarpInv
    <3>5. warped'[k] = ti'[k].warps + Cardinality(Warping(k)')
      BY <1>0, <1>2, <1>5, <3>2, <3>3, TallySets DEF TallyInv, WarpInv, SameCounts
    <3>6. \A j \in TestIds : j # k => warped'[j] = ti'[j].warps + Cardinality(Warping(j)')
      BY <1>0, <1>2, <1>3 DEF TallyInv, WarpInv, SameCounts
    <3>7. \A j \in TestIds : ti'[j].worst <= 0 /\ (ti'[j].warps > 0 <=> ti'[j].worst < 0)
      BY <1>2 DEF TallyInv, WarpInv, SameCounts
    <3> QED
      BY <3>4, <3>5, <3>6, <3>7 DEF WarpInv
  <2>2. CASE l # "warp"
    <3>1. Warping(k)' = Warping(k)
      BY <1>0, <2>2 DEF Warping
    <3> QED
      BY <1>0, <1>1, <1>2, <1>3, <1>5, <2>2, <3>1 DEF TallyInv, WarpInv, SameCounts
  <2> QED
    BY <2>1, <2>2
<1>7. ASSUME NEW j \in TestIds, j # k PROVE StallsCovered(j)'
  <2>1. stalled'[j] = stalled[j] /\ Stalling(j)' = Stalling(j) /\ ti'[j].stalls = ti[j].stalls
    BY <1>0, <1>2, <1>3, <1>7 DEF SameCounts
  <2>2. \A d \in Stalling(j) : tpc'[d] = tpc[d]
    BY <1>0, <1>7 DEF Stalling
  <2> QED
    BY <1>0, <2>1, <2>2 DEF TallyInv, StallInv, StallsCovered
<1>8. StallsCovered(k)'
  <2>0. /\ StallsCovered(k) /\ ti'[k].stalls = ti[k].stalls /\ ti[k].stalls \in Nat
        /\ Cardinality(Stalling(k)) \in Nat /\ stalled[k] \in Nat
        /\ \A d \in Cpus : tmp[d] \in Nat
    BY <1>0, <1>2, <1>5, TallySets DEF TallyInv, StallInv, SameCounts, TestInv, TestTypes
  <2>1. CASE l = "stall"
    <3>1. Stalling(k)' = Stalling(k) \union {c}
      BY <1>0, <2>1 DEF Stalling
    <3>2. Cardinality(Stalling(k)') = Cardinality(Stalling(k)) + 1
      BY <1>0, <1>4, <3>1, TallySets, FS_AddElement
    <3>3. ASSUME NEW d \in Stalling(k)', tpc'[d] = "store"
          PROVE  d \in Stalling(k) /\ tpc[d] = "store" /\ tmp'[d] = tmp[d] /\ tmp[d] \in Nat
      BY <1>0, <2>0, <2>1, <3>3 DEF Stalling
    <3>4. stalled'[k] = stalled[k] + 1
      BY <1>0, <1>1, <2>1
    <3> DEFINE n  == Cardinality(Stalling(k))
               n1 == Cardinality(Stalling(k)')
    <3>5. n1 = n + 1 /\ n \in Nat /\ ti[k].stalls + n <= stalled[k]
      BY <2>0, <3>2 DEF StallsCovered
    <3>6. \A d \in Stalling(k)' : tpc'[d] = "store" => tmp'[d] + n <= stalled[k]
      BY <2>0, <3>3 DEF StallsCovered
    <3> HIDE DEF n, n1
    <3>7. /\ ti'[k].stalls + n1 <= stalled'[k]
          /\ \A d \in Stalling(k)' : tpc'[d] = "store" => tmp'[d] + n1 <= stalled'[k]
      BY <2>0, <3>3, <3>4, <3>5, <3>6
    <3> QED
      BY <3>1, <3>7 DEF StallsCovered, n1
  <2>2. CASE l # "stall"
    <3>1. Stalling(k)' = Stalling(k) /\ stalled'[k] = stalled[k]
      BY <1>0, <1>1, <2>2 DEF Stalling
    <3>2. \A d \in Stalling(k) : tpc'[d] = tpc[d]
      BY <1>0 DEF Stalling
    <3> QED
      BY <1>0, <2>0, <3>1, <3>2 DEF StallsCovered
  <2> QED
    BY <2>1, <2>2
<1> QED
  BY <1>6, <1>7, <1>8 DEF TallyInv, StallInv

\* The warp that was seen becomes one that is counted.
LEMMA CountWarpTally ==
  ASSUME TestInv, TallyInv, NEW c \in Cpus, CountWarp(c) PROVE TallyInv'
<1> USE DEF CountWarp, NextLoop, Enter, histories
<1> DEFINE k == info[c]
<1>0. /\ tpc[c] = "warp" /\ tpc' = [tpc EXCEPT ![c] = "lock"] /\ delta[c] \in Int
      /\ tpc \in [Cpus -> Functions \union TestLabels \union {"print", None}]
      /\ ti \in [TestIds -> TestInfos] /\ k \in TestIds /\ info \in [Cpus -> TestIds]
      /\ UNCHANGED <<info, delta, tmp, stalled, warped>>
      /\ delta[c] < 0
  BY DEF TestInv, TestTypes, TallyInv, WarpInv
<1>1. /\ ti[k].warps \in Nat /\ ti[k].worst \in Int
      /\ ti'[k].warps = ti[k].warps + 1 /\ ti'[k].stalls = ti[k].stalls
      /\ ti'[k].worst = IF delta[c] < ti[k].worst THEN delta[c] ELSE ti[k].worst
      /\ \A j \in TestIds \ {k} : ti'[j] = ti[j]
  BY <1>0 DEF TestInfos
<1>2. /\ c \in Warping(k) /\ Warping(k)' = Warping(k) \ {c}
      /\ \A j \in TestIds \ {k} : Warping(j)' = Warping(j)
      /\ \A j \in TestIds : Stalling(j)' = Stalling(j)
  BY <1>0 DEF Warping, Stalling
<1>3. Cardinality(Warping(k)') = Cardinality(Warping(k)) - 1
  <2>1. IsFiniteSet(Warping(k))
    BY <1>0, TallySets
  <2>2. Cardinality(Warping(k) \ {c}) = Cardinality(Warping(k)) - 1
    BY <1>2, <2>1, FS_RemoveElement
  <2> QED
    BY <1>2, <2>2
<1>4. WarpInv'
  <2>1. \A d \in Cpus : tpc'[d] = "warp" => delta'[d] < 0
    BY <1>0 DEF TallyInv, WarpInv
  <2>2. warped'[k] = ti'[k].warps + Cardinality(Warping(k)')
    <3>1. Cardinality(Warping(k)) \in Nat
      BY <1>0, TallySets
    <3>2. warped[k] = ti[k].warps + Cardinality(Warping(k))
      BY <1>0 DEF TallyInv, WarpInv
    <3> QED
      BY <1>0, <1>1, <1>3, <3>1, <3>2
  <2>3. ti'[k].worst <= 0 /\ (ti'[k].warps > 0 <=> ti'[k].worst < 0)
    BY <1>0, <1>1 DEF TallyInv, WarpInv
  <2>4. ASSUME NEW j \in TestIds, j # k
        PROVE  /\ warped'[j] = ti'[j].warps + Cardinality(Warping(j)')
               /\ ti'[j].worst <= 0 /\ (ti'[j].warps > 0 <=> ti'[j].worst < 0)
    BY <1>0, <1>1, <1>2, <2>4 DEF TallyInv, WarpInv
  <2> QED
    BY <2>1, <2>2, <2>3, <2>4 DEF WarpInv
<1>5. ASSUME NEW j \in TestIds PROVE StallsCovered(j)'
  <2>1. \A d \in Stalling(j) : tpc'[d] = tpc[d]
    BY <1>0 DEF Stalling
  <2>2. ti'[j].stalls = ti[j].stalls
    BY <1>1
  <2> QED
    BY <1>0, <1>2, <2>1, <2>2 DEF TallyInv, StallInv, StallsCovered
<1> QED
  BY <1>4, <1>5 DEF TallyInv, StallInv

\* The number of stalls that is loaded leaves room for this one.
LEMMA LoadStallsTally ==
  ASSUME TestInv, TallyInv, NEW c \in Cpus, LoadStalls(c) PROVE TallyInv'
<1> USE DEF LoadStalls, Enter, histories
<1> DEFINE k == info[c]
<1>0. /\ tpc[c] = "stall" /\ tpc' = [tpc EXCEPT ![c] = "store"]
      /\ tpc \in [Cpus -> Functions \union TestLabels \union {"print", None}]
      /\ k \in TestIds /\ info \in [Cpus -> TestIds]
      /\ tmp \in [Cpus -> Nat] /\ tmp' = [tmp EXCEPT ![c] = ti[k].stalls]
      /\ UNCHANGED <<ti, info, delta, stalled, warped>>
  BY DEF TestInv, TestTypes
<1>1. \A j \in TestIds : Warping(j)' = Warping(j) /\ Stalling(j)' = Stalling(j)
  BY <1>0 DEF Warping, Stalling
<1>2. WarpInv'
  BY <1>0, <1>1 DEF TallyInv, WarpInv
<1>3. ASSUME NEW j \in TestIds PROVE StallsCovered(j)'
  <2>1. StallsCovered(j) /\ (j # k => c \notin Stalling(j))
    BY DEF TallyInv, StallInv, Stalling
  <2>2. ASSUME NEW d \in Stalling(j), tpc'[d] = "store"
        PROVE  tmp'[d] + Cardinality(Stalling(j)) <= stalled[j]
    <3>1. CASE d = c
      BY <1>0, <2>1, <2>2, <3>1 DEF StallsCovered
    <3>2. CASE d # c
      BY <1>0, <2>1, <2>2, <3>2 DEF StallsCovered, Stalling
    <3> QED
      BY <3>1, <3>2
  <2> QED
    BY <1>0, <1>1, <2>1, <2>2 DEF StallsCovered
<1> QED
  BY <1>2, <1>3 DEF TallyInv, StallInv

\* The stall is stored; increments of other vCPUs may be lost, never all of them.
LEMMA StoreStallsTally ==
  ASSUME TestInv, TallyInv, NEW c \in Cpus, StoreStalls(c) PROVE TallyInv'
<1> USE DEF StoreStalls, NextLoop, Enter, histories
<1> DEFINE k == info[c]
<1>0. /\ tpc[c] = "store" /\ tpc' = [tpc EXCEPT ![c] = "lock"]
      /\ tpc \in [Cpus -> Functions \union TestLabels \union {"print", None}]
      /\ ti \in [TestIds -> TestInfos] /\ k \in TestIds /\ info \in [Cpus -> TestIds]
      /\ tmp \in [Cpus -> Nat] /\ tmp' = [tmp EXCEPT ![c] = 0]
      /\ stalled \in [TestIds -> Nat]
      /\ UNCHANGED <<info, delta, stalled, warped>>
  BY DEF TestInv, TestTypes
<1>1. /\ ti'[k].stalls = tmp[c] + 1
      /\ ti'[k].warps = ti[k].warps /\ ti'[k].worst = ti[k].worst
      /\ \A j \in TestIds \ {k} : ti'[j] = ti[j]
  BY <1>0 DEF TestInfos
<1>2. /\ c \in Stalling(k) /\ Stalling(k)' = Stalling(k) \ {c}
      /\ \A j \in TestIds \ {k} : Stalling(j)' = Stalling(j)
      /\ \A j \in TestIds : Warping(j)' = Warping(j)
  BY <1>0 DEF Warping, Stalling
<1>3. Cardinality(Stalling(k)') = Cardinality(Stalling(k)) - 1
      /\ Cardinality(Stalling(k)) \in Nat
  <2>1. IsFiniteSet(Stalling(k)) /\ Cardinality(Stalling(k)) \in Nat
    BY <1>0, TallySets
  <2>2. Cardinality(Stalling(k) \ {c}) = Cardinality(Stalling(k)) - 1
    BY <1>2, <2>1, FS_RemoveElement
  <2> QED
    BY <1>2, <2>1, <2>2
<1>4. WarpInv'
  BY <1>0, <1>1, <1>2 DEF TallyInv, WarpInv
<1>5. ASSUME NEW j \in TestIds, j # k PROVE StallsCovered(j)'
  <2>1. \A d \in Stalling(j) : tpc'[d] = tpc[d] /\ tmp'[d] = tmp[d]
    BY <1>0, <1>5 DEF Stalling
  <2> QED
    BY <1>0, <1>1, <1>2, <1>5, <2>1 DEF TallyInv, StallInv, StallsCovered
<1>6. StallsCovered(k)'
  <2> DEFINE n  == Cardinality(Stalling(k))
             n1 == Cardinality(Stalling(k)')
  <2>1. n1 = n - 1 /\ n \in Nat
    BY <1>3
  <2>2. \A d \in Stalling(k) : tpc[d] = "store" => tmp[d] + n <= stalled[k]
    BY <1>0 DEF TallyInv, StallInv, StallsCovered
  <2>3. \A d \in Stalling(k)' : tpc'[d] = tpc[d] /\ tmp'[d] = tmp[d] /\ tmp[d] \in Nat
    BY <1>0, <1>2 DEF Stalling
  <2> HIDE DEF n, n1
  <2>4. ti'[k].stalls + n1 <= stalled'[k] /\ ti'[k].stalls > 0
    BY <1>0, <1>1, <1>2, <2>1, <2>2
  <2>5. \A d \in Stalling(k)' : tpc'[d] = "store" => tmp'[d] + n1 <= stalled'[k]
    BY <1>0, <1>2, <2>1, <2>2, <2>3
  <2> QED
    BY <2>4, <2>5 DEF StallsCovered, n1
<1> QED
  BY <1>4, <1>5, <1>6 DEF TallyInv, StallInv

\* Nothing was seen and nothing is counted.
LEMMA TallyInit == Init => TallyInv
<1> SUFFICES ASSUME Init PROVE TallyInv
  OBVIOUS
<1>1. \A k \in TestIds : Warping(k) = {} /\ Stalling(k) = {}
  BY DEF Init, Warping, Stalling, None
<1>2. Cardinality({}) = 0
  BY FS_EmptySet
<1> QED
  BY <1>1, <1>2, SMTT(30) DEF Init, ZeroInfo, TallyInv, WarpInv, StallInv, StallsCovered, None

\* The caller counts nothing.
LEMMA TallyCaller ==
  ASSUME TestInv, TallyInv, ioctl \/ CallerStep PROVE TallyInv'
<1>0. /\ ti \in [TestIds -> TestInfos] /\ test \in TestIds
      /\ tpc \in [Cpus -> Functions \union TestLabels \union {"print", None}]
      /\ info \in [Cpus -> TestIds]
  BY DEF TestInv, TestTypes
<1>1. CASE ioctl \/ SetFlags \/ Wait
  BY <1>1, TallyKept DEF ioctl, SetFlags, Wait, cpuVars, SameTally, SameCounts
<1>2. CASE cycle_test
  <2>1. \A k \in TestIds : SameCounts(k)
    BY <1>0, <1>2 DEF cycle_test, SameCounts, TestInfos
  <2> QED
    BY <1>2, <2>1, TallyKept DEF cycle_test, cpuVars, SameTally
<1>3. ASSUME NEW f \in {"init", "wall", "clear", "test"},
             \/ UNCHANGED <<tpc, info>>
             \/ smp_call_function_single(target, f) /\ (target \in Cpus => ~Active(target)),
             UNCHANGED <<ti, delta, tmp, histories>>
      PROVE  TallyInv'
  <2>1. ASSUME NEW d \in Cpus PROVE SameTally(d)
    BY <1>0, <1>3, Sizes
    DEF smp_call_function_single, Active, SameTally, Tallying, None, TestInv, TestTypes
  <2> QED
    BY <1>3, <2>1, TallyKept DEF SameCounts
<1>4. ASSUME NEW f \in OneByOne, NEW next, CallEach(f, next) PROVE TallyInv'
  <2>1. target \in Cpus => ~Active(target)
    BY <1>4, Sizes DEF CallEach, TestInv, TestTypes, JobInv
  <2> QED
    BY <1>3, <1>4, <2>1 DEF CallEach, OneByOne
<1>5. CASE Send
  <2>1. target \in Cpus => ~Active(target)
    BY <1>5, Sizes DEF Send, TestInv, TestTypes, JobInv, Round
  <2> QED
    BY <1>3, <1>5, <2>1 DEF Send
<1> QED
  BY <1>1, <1>2, <1>4, <1>5 DEF CallerStep, OneByOne

\* Every step of a vCPU keeps the tally.
LEMMA TallyCpu ==
  ASSUME TestInv, TallyInv, NEW c \in Cpus, CpuStep(c) PROVE TallyInv'
<1> USE DEF Enter
<1>0. /\ ti \in [TestIds -> TestInfos] /\ info \in [Cpus -> TestIds]
      /\ tpc \in [Cpus -> Functions \union TestLabels \union {"print", None}]
      /\ ipi \in [Cpus -> Functions \union {None}]
      /\ delta \in [Cpus -> Int] /\ loop \in [Cpus -> 0 .. Loops]
  BY DEF TestInv, TestTypes
<1>1. ASSUME NEW l, tpc' = [tpc EXCEPT ![c] = l], tpc[c] \notin Tallying, l \notin Tallying,
             UNCHANGED <<info, tmp, histories>>, \A k \in TestIds : SameCounts(k),
             \A d \in Cpus \ {c} : delta'[d] = delta[d]
      PROVE  TallyInv'
  <2>1. ASSUME NEW d \in Cpus PROVE SameTally(d)
    BY <1>0, <1>1 DEF SameTally
  <2> QED
    BY <1>1, <2>1, TallyKept
<1>2. ASSUME UNCHANGED testVars PROVE TallyInv'
  BY <1>2, TallyKept DEF testVars, cpuVars, SameCounts, SameTally
<1>3. CASE Pickup(c)
  BY <1>0, <1>1, <1>3 DEF Pickup, Tallying, Functions, SameCounts, None
<1>4. CASE Register(c)
  BY <1>0, <1>1, <1>4 DEF Register, Tallying, SameCounts, None
<1>5. CASE kvm_clock_test(c)
  <2>1. PICK l \in {"plain", "lock"} : tpc' = [tpc EXCEPT ![c] = l]
    BY <1>5 DEF kvm_clock_test
  <2> QED
    BY <1>0, <1>1, <1>5, <2>1 DEF kvm_clock_test, Tallying, SameCounts
<1>6. CASE SpinLock(c)
  <2>1. \A k \in TestIds : SameCounts(k)
    BY <1>0, <1>6 DEF SpinLock, SameCounts, TestInfos
  <2> QED
    BY <1>0, <1>1, <1>6, <2>1 DEF SpinLock, Tallying
<1>7. CASE kvm_clock_read(c) \/ (ReadStep(c) /\ UNCHANGED testVars)
  BY <1>2, <1>7 DEF kvm_clock_read
<1>8. CASE ReadDone(c)
  <2>1. CASE GotT1(c)
    BY <1>0, <1>1, <1>8, <2>1 DEF ReadDone, GotT1, Tallying, SameCounts
  <2>2. CASE GotLast(c)
    BY <1>8, <2>2, GotLastTally
  <2>3. CASE GotPlain(c)
    BY <1>8, <2>3, TallyKept DEF ReadDone, GotPlain, SameCounts, SameTally
  <2>4. CASE GotWall(c)
    <3>1. PICK l \in {"print", None} : tpc' = [tpc EXCEPT ![c] = l]
      BY <2>4 DEF GotWall
    <3> QED
      BY <1>0, <1>1, <1>8, <2>4, <3>1 DEF ReadDone, GotWall, Tallying, SameCounts, None
  <2> QED
    BY <1>8, <2>1, <2>2, <2>3, <2>4 DEF ReadDone
<1>9. CASE atomic_dec(c)
  <2>1. \A k \in TestIds : SameCounts(k)
    BY <1>0, <1>9 DEF atomic_dec, SameCounts, TestInfos
  <2> QED
    BY <1>0, <1>1, <1>9, <2>1 DEF atomic_dec, Tallying, None
<1> QED
  BY <1>3, <1>4, <1>5, <1>6, <1>7, <1>8, <1>9, CountWarpTally, LoadStallsTally, StoreStallsTally
  DEF CpuStep

\* Every step keeps the tally.
LEMMA TallyNext == TestInv /\ TallyInv /\ [Next]_vars => TallyInv'
<1> SUFFICES ASSUME TestInv, TallyInv, [Next]_vars PROVE TallyInv'
  OBVIOUS
<1>1. ASSUME UNCHANGED testVars PROVE TallyInv'
  BY <1>1, TallyKept DEF testVars, cpuVars, SameCounts, SameTally
<1>2. ASSUME NEW c \in Cpus, CpuStep(c) \/ HostWrites(c) PROVE TallyInv'
  BY <1>1, <1>2, TallyCpu DEF HostWrites
<1>3. CASE UNCHANGED vars
  BY <1>1, <1>3 DEF vars
<1>4. CASE ioctl \/ CallerStep
  BY <1>4, TallyCaller
<1> QED
  BY <1>1, <1>2, <1>3, <1>4 DEF Next

\* What ti->warps, ti->worst and ti->stalls say of the warps and stalls that
\* kvm_clock_test saw, at every step of counting them.
THEOREM TallyInvariant == SafetySpec => []TallyInv
<1>1. Invariant /\ TallyInv /\ [Next]_vars => TallyInv'
  BY TallyNext DEF Invariant
<1> QED
  BY <1>1, TallyInit, TestInvariant, PTL DEF SafetySpec

\* cycle_test's verdict rests on every warp that was seen, on any host: once
\* the rounds are over none is lost between vCPUs, and worst tells whether
\* there was one.
THEOREM AllWarpsCounted == SafetySpec => []WarpsCounted
<1>1. Invariant /\ TallyInv => WarpsCounted
  <2> SUFFICES ASSUME Invariant, TallyInv, phase = "clear", NEW k \in TestIds
               PROVE  ti[k].warps = warped[k] /\ (ti[k].warps > 0 <=> ti[k].worst < 0)
    BY DEF WarpsCounted
  <2>1. Warping(k) = {}
    BY DEF Invariant, TestInv, JobInv, Warping, TestLabels, Round
  <2>2. Cardinality(Warping(k)) = 0
    BY <2>1, FS_EmptySet
  <2>3. ti[k].warps \in Nat
    BY DEF Invariant, TestInv, TestTypes, TestInfos
  <2> QED
    BY <2>2, <2>3 DEF TallyInv, WarpInv
<1> QED
  BY <1>1, TestInvariant, TallyInvariant, PTL

\* ++ti->stalls outside the lock loses counts, but cycle_test reports a stall
\* whenever a vCPU saw one, and never more stalls than were seen.
THEOREM StallsReported == SafetySpec => []StallsSeen
<1>1. Invariant /\ TallyInv => StallsSeen
  <2> SUFFICES ASSUME Invariant, TallyInv, phase = "clear", NEW k \in TestIds
               PROVE  ti[k].stalls <= stalled[k] /\ (stalled[k] > 0 => ti[k].stalls > 0)
    BY DEF StallsSeen
  <2>1. Stalling(k) = {}
    BY DEF Invariant, TestInv, JobInv, Stalling, TestLabels, Round
  <2>2. Cardinality(Stalling(k)) = 0
    BY <2>1, FS_EmptySet
  <2>3. ti[k].stalls \in Nat /\ stalled[k] \in Nat
    BY DEF Invariant, TestInv, TestTypes, TestInfos
  <2> QED
    BY <2>1, <2>2, <2>3 DEF TallyInv, StallInv, StallsCovered
<1> QED
  BY <1>1, TestInvariant, TallyInvariant, PTL

-----------------------------------------------------------------------------
(***************************************************************************)
(* No warps, on a host that serves every vCPU.                             *)
(***************************************************************************)
\* Of what LastInv says of a vCPU, nothing is touched by the step.
SameLast(d) ==
  \/ tpc'[d] \notin {"t1", "last", "warp"}
  \/ tpc'[d] = tpc[d] /\ info'[d] = info[d] /\ delta'[d] = delta[d]
     /\ floor'[d] = floor[d] /\ (rpc'[d] = "idle" <=> rpc[d] = "idle")

\* A step that touches no last reading and no vCPU between two readings.
LEMMA LastKept ==
  ASSUME LastInv, ClockInv, ClockInv', TestInv, seen <= seen',
         \A k \in TestIds : ti'[k].last = ti[k].last /\ ti'[k].warps = ti[k].warps,
         \A d \in Cpus : SameLast(d)
  PROVE  LastInv'
<1>1. /\ ti \in [TestIds -> TestInfos] /\ info \in [Cpus -> TestIds]
      /\ seen \in Nat /\ seen' \in Nat
  BY DEF TestInv, TestTypes, ClockInv, Values
<1>2. \A k \in TestIds : ti[k].last \in Nat
  BY <1>1 DEF TestInfos
<1> QED
  BY <1>1, <1>2 DEF LastInv, SameLast

\* No reading was taken.
LEMMA LastInit == Init => LastInv
  BY DEF Init, ClockInit, ZeroInfo, LastInv, None

\* The lock makes the comparison safe: the last value was returned before the
\* holder called for its own reading.
LEMMA LastReadDone ==
  ASSUME HostServesAll, LastInv, ClockInv, ClockInv', TestInv, NEW c \in Cpus, ReadDone(c)
  PROVE  LastInv'
<1> USE DEF ReadDone, Enter
<1> DEFINE k == info[c]
<1>0. /\ ti \in [TestIds -> TestInfos] /\ info \in [Cpus -> TestIds]
      /\ tpc \in [Cpus -> Functions \union TestLabels \union {"print", None}]
      /\ delta \in [Cpus -> Int] /\ k \in TestIds
      /\ rpc \in [Cpus -> ReadLabels] /\ floor \in [Cpus -> Nat] /\ seen \in Nat
      /\ ret[c] \in Int /\ ret[c] >= 0
      /\ rpc[c] = "done" /\ rpc' = [rpc EXCEPT ![c] = "idle"] /\ UNCHANGED info
      /\ floor' = [floor EXCEPT ![c] = 0] /\ seen' = Larger(seen, ret[c])
      /\ \A j \in TestIds : ti[j].last \in Nat
  BY DEF TestInv, TestTypes, ClockInv, Values, CpuInv, AnswerInv, Accepting, Return, Goto,
         TestInfos
<1>1. floor[c] <= ret[c]
  BY <1>0, PvClockAssumption
  DEF HostServesAll, Served, ClockInv, CpuInv, AnswerInv
<1>2. seen <= seen' /\ ret[c] <= seen' /\ seen' \in Nat
  BY <1>0 DEF Larger
<1>3. ASSUME NEW l, tpc' = [tpc EXCEPT ![c] = l], l \notin {"t1", "last", "warp"},
             UNCHANGED <<ti, delta>>
      PROVE  LastInv'
  <2>1. ASSUME NEW d \in Cpus PROVE SameLast(d)
    BY <1>0, <1>3 DEF SameLast
  <2> QED
    BY <1>2, <1>3, <2>1, LastKept
<1>4. CASE GotT1(c)
  <2>1. delta' = [delta EXCEPT ![c] = ret[c] - ti[k].last] /\ tpc' = [tpc EXCEPT ![c] = "last"]
        /\ ti[k].last <= floor[c] /\ UNCHANGED ti
    BY <1>0, <1>4 DEF GotT1, LastInv
  <2>2. delta'[c] >= 0
    BY <1>0, <1>1, <2>1
  <2>3. \A j \in TestIds : ti[j].last <= seen' /\ ti[j].warps = 0
    BY <1>0, <1>2 DEF LastInv
  <2> QED
    BY <1>0, <2>1, <2>2, <2>3 DEF LastInv
<1>5. CASE GotLast(c)
  <2> DEFINE l == CASE delta[c] < 0 -> "warp" [] delta[c] = 0 -> "stall" [] OTHER -> "lock"
  <2>1. /\ tpc' = [tpc EXCEPT ![c] = l] /\ tpc[c] = "last" /\ UNCHANGED delta
        /\ delta[c] \in Int /\ delta[c] >= 0
        /\ ti' = [ti EXCEPT ![k] = [@ EXCEPT !.last = ret[c], !.lock = Nobody]]
    BY <1>0, <1>5 DEF GotLast, LastInv
  <2>2. l \in {"stall", "lock"}
    <3>1. CASE delta[c] = 0
      BY <3>1
    <3>2. CASE delta[c] > 0
      BY <2>1, <3>2
    <3> QED
      BY <2>1, <3>1, <3>2
  <2> HIDE DEF l
  <2>3. /\ ti'[k].last = ret[c] /\ ti'[k].warps = ti[k].warps
        /\ \A j \in TestIds \ {k} : ti'[j] = ti[j]
    BY <1>0, <2>1 DEF TestInfos
  <2>4. \A j \in TestIds : ti'[j].last <= seen' /\ ti'[j].warps = 0
    BY <1>0, <1>2, <2>3 DEF LastInv
  <2>5. \A d \in Cpus \ {c} : tpc[d] = "t1" => info[d] # k
    BY <2>1 DEF TestInv, TurnInv, Locked
  <2>6. ASSUME NEW d \in Cpus
        PROVE  /\ tpc'[d] = "t1" /\ rpc'[d] # "idle" => ti'[info'[d]].last <= floor'[d]
               /\ tpc'[d] = "last" => delta'[d] >= 0
               /\ tpc'[d] # "warp"
    BY <1>0, <2>1, <2>2, <2>3, <2>5 DEF LastInv
  <2> QED
    BY <2>4, <2>6 DEF LastInv
<1>6. CASE GotPlain(c)
  <2>1. ASSUME NEW d \in Cpus PROVE SameLast(d)
    BY <1>0, <1>6 DEF SameLast, GotPlain
  <2> QED
    BY <1>2, <1>6, <2>1, LastKept DEF GotPlain
<1>7. CASE GotWall(c)
  <2>1. PICK l \in {"print", None} : tpc' = [tpc EXCEPT ![c] = l]
    BY <1>7 DEF GotWall
  <2> QED
    BY <1>3, <1>7, <2>1 DEF GotWall, None
<1> QED
  BY <1>4, <1>5, <1>6, <1>7

\* Every step of a vCPU keeps LastInv: the lock orders the readings.
LEMMA LastCpu ==
  ASSUME HostServesAll, LastInv, ClockInv, ClockInv', TestInv, NEW c \in Cpus, CpuStep(c)
  PROVE  LastInv'
<1> USE DEF Enter, clockVars, histVars, localVars
<1>0. /\ ti \in [TestIds -> TestInfos] /\ info \in [Cpus -> TestIds]
      /\ tpc \in [Cpus -> Functions \union TestLabels \union {"print", None}]
      /\ ipi \in [Cpus -> Functions \union {None}] /\ delta \in [Cpus -> Int]
      /\ rpc \in [Cpus -> ReadLabels] /\ floor \in [Cpus -> Nat] /\ seen \in Nat
  BY DEF TestInv, TestTypes, ClockInv, Values
<1>1. ASSUME NEW l, tpc' = [tpc EXCEPT ![c] = l], l \notin {"t1", "last", "warp"},
             UNCHANGED <<info, rpc, seen, floor>>,
             \A k \in TestIds : ti'[k].last = ti[k].last /\ ti'[k].warps = ti[k].warps,
             \A d \in Cpus \ {c} : delta'[d] = delta[d]
      PROVE  LastInv'
  <2>1. ASSUME NEW d \in Cpus PROVE SameLast(d)
    BY <1>0, <1>1 DEF SameLast
  <2> QED
    BY <1>0, <1>1, <2>1, LastKept
<1>2. CASE Pickup(c)
  BY <1>0, <1>1, <1>2 DEF Pickup, Functions, None
<1>3. CASE Register(c)
  BY <1>0, <1>1, <1>3 DEF Register, kvm_clock_init, kvm_clock_clear, None
<1>4. CASE kvm_clock_test(c)
  <2>1. PICK l \in {"plain", "lock"} : tpc' = [tpc EXCEPT ![c] = l]
    BY <1>4 DEF kvm_clock_test
  <2> QED
    BY <1>0, <1>1, <1>4, <2>1 DEF kvm_clock_test
<1>5. CASE SpinLock(c)
  <2>1. \A k \in TestIds : ti'[k].last = ti[k].last /\ ti'[k].warps = ti[k].warps
    BY <1>0, <1>5 DEF SpinLock, TestInfos
  <2>2. rpc[c] = "idle" /\ UNCHANGED <<rpc, seen, floor, info, delta>>
        /\ tpc' = [tpc EXCEPT ![c] = "t1"]
    BY <1>5 DEF SpinLock, TestInv, TurnInv, Reading
  <2> QED
    BY <1>0, <2>1, <2>2 DEF LastInv
<1>6. CASE kvm_clock_read(c)
  <2>1. /\ UNCHANGED <<ti, tpc, info, delta, seen>> /\ floor' = [floor EXCEPT ![c] = seen]
        /\ \A d \in Cpus \ {c} : rpc'[d] = rpc[d]
    BY <1>6 DEF kvm_clock_read, Call, Goto, testVars, cpuVars
  <2> QED
    BY <1>0, <2>1 DEF LastInv
<1>7. CASE ReadStep(c) /\ UNCHANGED testVars
  <2>1. PICK l \in ReadLabels \ {"idle"} : rpc' = [rpc EXCEPT ![c] = l]
    BY <1>7, ReadStaysInside
  <2>2. rpc[c] # "idle" /\ UNCHANGED <<seen, floor>>
    BY <1>7, ReadStaysInside
  <2>3. ASSUME NEW d \in Cpus PROVE SameLast(d)
    BY <1>0, <1>7, <2>1, <2>2 DEF SameLast, testVars, cpuVars
  <2> QED
    BY <1>0, <1>7, <2>2, <2>3, LastKept DEF testVars
<1>8. CASE ReadDone(c)
  BY <1>8, LastReadDone
<1>9. CASE CountWarp(c)
  BY <1>9 DEF CountWarp, LastInv
<1>10. CASE LoadStalls(c)
  BY <1>0, <1>1, <1>10 DEF LoadStalls
<1>11. CASE StoreStalls(c)
  <2>1. \A k \in TestIds : ti'[k].last = ti[k].last /\ ti'[k].warps = ti[k].warps
    BY <1>0, <1>11 DEF StoreStalls, TestInfos
  <2> QED
    BY <1>0, <1>1, <1>11, <2>1 DEF StoreStalls, NextLoop
<1>12. CASE atomic_dec(c)
  <2>1. \A k \in TestIds : ti'[k].last = ti[k].last /\ ti'[k].warps = ti[k].warps
    BY <1>0, <1>12 DEF atomic_dec, TestInfos
  <2> QED
    BY <1>0, <1>1, <1>12, <2>1 DEF atomic_dec, None
<1> QED
  BY <1>2, <1>3, <1>4, <1>5, <1>6, <1>7, <1>8, <1>9, <1>10, <1>11, <1>12 DEF CpuStep

\* The caller takes no reading; it may set what was read to zero.
LEMMA LastCaller ==
  ASSUME LastInv, ClockInv, ClockInv', TestInv, ioctl \/ CallerStep
  PROVE  LastInv'
<1>0. /\ ti \in [TestIds -> TestInfos] /\ info \in [Cpus -> TestIds]
      /\ tpc \in [Cpus -> Functions \union TestLabels \union {"print", None}] /\ seen \in Nat
  BY DEF TestInv, TestTypes, ClockInv, Values
<1>1. /\ UNCHANGED <<rpc, seen, floor, delta>>
      /\ \A k \in TestIds : ti'[k].last = ti[k].last /\ ti'[k].warps = ti[k].warps
  BY <1>0, SMTT(30)
  DEF ioctl, CallerStep, CallEach, SetFlags, pvclock_set_flags, cycle_test, Send, Wait, clockVars,
      localVars, histVars, cpuVars, TestInfos
<1>2. CASE UNCHANGED <<tpc, info>>
  BY <1>0, <1>1, <1>2, LastKept DEF SameLast
<1>3. ASSUME NEW f \in {"init", "wall", "clear", "test"}, smp_call_function_single(target, f),
             target \in Cpus => ~Active(target)
      PROVE  LastInv'
  <2>1. ASSUME NEW d \in Cpus PROVE SameLast(d)
    BY <1>0, <1>1, <1>3, Sizes
    DEF smp_call_function_single, Active, SameLast, None, TestInv, TestTypes
  <2> QED
    BY <1>0, <1>1, <2>1, LastKept
<1>4. ASSUME NEW f \in OneByOne, NEW next, CallEach(f, next) PROVE LastInv'
  <2>1. target \in Cpus => ~Active(target)
    BY <1>4, Sizes DEF CallEach, TestInv, TestTypes, JobInv
  <2> QED
    BY <1>2, <1>3, <1>4, <2>1 DEF CallEach, OneByOne
<1>5. CASE Send
  <2>1. target \in Cpus => ~Active(target)
    BY <1>5, Sizes DEF Send, TestInv, TestTypes, JobInv, Round
  <2> QED
    BY <1>2, <1>3, <1>5, <2>1 DEF Send
<1>6. CASE ioctl \/ SetFlags \/ cycle_test \/ Wait
  BY <1>2, <1>6 DEF ioctl, SetFlags, cycle_test, Wait, cpuVars
<1> QED
  BY <1>4, <1>5, <1>6 DEF CallerStep, OneByOne

\* Every step keeps LastInv.
LEMMA LastNext ==
  ASSUME HostServesAll, LastInv, Invariant, Invariant', [Next]_vars PROVE LastInv'
<1> USE DEF Invariant
<1>1. ASSUME UNCHANGED <<testVars, rpc, histVars>> PROVE LastInv'
  BY <1>1 DEF testVars, cpuVars, histVars, LastInv
<1>2. ASSUME NEW c \in Cpus, HostWrites(c) PROVE LastInv'
  BY <1>1, <1>2 DEF HostWrites, HostUpdate, localVars
<1>3. CASE Tick /\ UNCHANGED testVars
  BY <1>1, <1>3 DEF Tick, localVars
<1>4. CASE UNCHANGED vars
  BY <1>1, <1>4 DEF vars, clockVars, localVars
<1>5. ASSUME NEW c \in Cpus, CpuStep(c) PROVE LastInv'
  BY <1>5, LastCpu
<1>6. CASE ioctl \/ CallerStep
  BY <1>6, LastCaller
<1> QED
  BY <1>2, <1>3, <1>4, <1>5, <1>6 DEF Next

\* kvm_clock_test never counts a warp, in the raw rounds and in the monotonic
\* ones, whether the host's counter is stable or its pages disagree, as long as
\* a host with a stable counter fills the page of every vCPU.
THEOREM NoWarpCounted == ASSUME HostServesAll PROVE SafetySpec => []NoWarps
<1>1. LastInv /\ Invariant /\ Invariant' /\ [Next]_vars => LastInv'
  BY LastNext
<1>2. LastInv => NoWarps
  BY DEF LastInv, NoWarps
<1> QED
  BY <1>1, <1>2, LastInit, TestInvariant, PTL DEF SafetySpec


=============================================================================
