--------------------------- MODULE PcmCdevProofs ---------------------------
(***************************************************************************)
(* The device's invariants, for any number of tasks, any set of calls that *)
(* fail and any number of loads.                                           *)
(*                                                                         *)
(* None of them is inductive: what is held depends on how far init or exit *)
(* got, which CdevInv adds.                                                *)
(***************************************************************************)
EXTENDS PcmCdev, TLAPS, SequenceTheorems

Opened == {t \in Tasks : task[t] \in {"opened", "ioctl"}}

\* What init has acquired when it is about to make call number mpc; class_create
\* and kmalloc are the two whose result nobody looks at, and that do not fail.
InitHeld ==
  module = "init" =>
    /\ mpc = 1 => held = {} /\ failed = {}
    /\ "class" \in held <=> mpc > 2
    /\ "memory" \in held <=> mpc > 3
    /\ "cdev" \in held <=> mpc > 4 /\ "cdev_add" \notin failed
    /\ "node" \in held => mpc > 5
    /\ "cdev_add" \in failed => mpc = 5

LiveHeld ==
  module = "live" =>
    {"class", "memory", "cdev"} \subseteq held /\ "cdev_add" \notin failed

\* What exit has yet to give back.
ExitHeld ==
  module = "exit" =>
    /\ "node" \in held => mpc = 1
    /\ "class" \in held <=> mpc <= 2
    /\ "cdev" \in held <=> mpc <= 3
    /\ "memory" \in held <=> mpc <= 4
    /\ "region" \in held => mpc <= 5
    /\ "cdev_add" \notin failed

OutHeld ==
  module = "out" =>
    /\ "cdev" \notin held /\ "node" \notin held
    /\ "cdev_add" \notin failed => held = {}

OpenHeld == Opened # {} => module \in {"init", "live"} /\ "cdev" \in held

CdevInv == CdevTypeOK /\ InitHeld /\ LiveHeld /\ ExitHeld /\ OutHeld /\ OpenHeld

-----------------------------------------------------------------------------
\* The names of the calls and of what they make, one by one.
LEMMA CallsOfInit ==
  /\ Len(init_calls) = 5
  /\ \A k \in 1 .. 5 : Acquired(init_calls[k]) =
       IF k = 1 THEN "region" ELSE IF k = 2 THEN "class" ELSE IF k = 3 THEN "memory"
       ELSE IF k = 4 THEN "cdev" ELSE "node"
  /\ \A k \in 1 .. 5 : init_calls[k] =
       IF k = 1 THEN "alloc_chrdev_region" ELSE IF k = 2 THEN "class_create"
       ELSE IF k = 3 THEN "kmalloc" ELSE IF k = 4 THEN "cdev_add" ELSE "device_create"
BY DEF init_calls, Acquired

\* The calls of pcm_test_exit, one by one.
LEMMA CallsOfExit ==
  /\ Len(exit_calls) = 5
  /\ \A k \in 1 .. 5 : exit_calls[k] =
       IF k = 1 THEN "node" ELSE IF k = 2 THEN "class" ELSE IF k = 3 THEN "cdev"
       ELSE IF k = 4 THEN "memory" ELSE "region"
BY DEF exit_calls

\* Moving a task between "out", "path", "opened" and "ioctl" leaves the module
\* alone, so that only the types and OpenHeld are at stake.
LEMMA MoveKeeps ==
  ASSUME NEW t \in Tasks, NEW to \in {"out", "path", "opened", "ioctl"},
         CdevInv, Move(t, to), UNCHANGED moduleVars,
         to \in {"opened", "ioctl"} => module \in {"init", "live"} /\ "cdev" \in held
  PROVE  CdevInv'
<1>1. CdevTypeOK'
  BY DEF CdevInv, CdevTypeOK, Move, moduleVars
<1>2. (InitHeld /\ LiveHeld /\ ExitHeld /\ OutHeld)'
  BY DEF CdevInv, InitHeld, LiveHeld, ExitHeld, OutHeld, moduleVars
<1>3. OpenHeld'
  <2> SUFFICES ASSUME Opened' # {} PROVE (module \in {"init", "live"} /\ "cdev" \in held)'
    BY DEF OpenHeld
  <2>1. CASE to \in {"opened", "ioctl"}
    BY <2>1 DEF moduleVars
  <2>2. CASE to \notin {"opened", "ioctl"}
    <3>1. Opened' \subseteq Opened
      BY <2>2 DEF Opened, Move, CdevInv, CdevTypeOK
    <3> QED BY <3>1 DEF CdevInv, OpenHeld, moduleVars
  <2> QED BY <2>1, <2>2
<1> QED BY <1>1, <1>2, <1>3 DEF CdevInv

\* A call of init that makes its resource, or fails.
LEMMA InitKeeps ==
  ASSUME CdevInv, pcm_test_init
  PROVE  CdevInv'
<1> USE CdevAssumption, CallsOfInit
<1>1. mpc \in 1 .. 5 /\ module = "init" /\ mpc' = mpc + 1 /\ UNCHANGED <<module, loads, task>>
  BY DEF pcm_test_init, CdevInv, CdevTypeOK
<1>2. "cdev_add" \notin failed
  BY DEF pcm_test_init
<1>3. CASE Makes(init_calls[mpc])
  <2>1. CdevTypeOK'
    <3>1. Acquired(init_calls[mpc]) \in Resources
      BY <1>1 DEF Resources
    <3>2. held' \subseteq Resources
      BY <1>3, <3>1 DEF CdevInv, CdevTypeOK, Makes
    <3>3. mpc' \in 1 .. 6 /\ failed' \subseteq CanFail
      BY <1>1, <1>3 DEF CdevInv, CdevTypeOK, Makes
    <3> QED BY <1>1, <3>2, <3>3 DEF CdevInv, CdevTypeOK
  <2>2. InitHeld'
    BY <1>1, <1>2, <1>3 DEF CdevInv, CdevTypeOK, InitHeld, Makes
  <2>3. OpenHeld'
    BY <1>1, <1>3 DEF CdevInv, OpenHeld, Opened, Makes
  <2> QED BY <1>1, <2>1, <2>2, <2>3 DEF CdevInv, LiveHeld, ExitHeld, OutHeld
<1>4. CASE Fails(init_calls[mpc])
  <2>1. CdevTypeOK'
    <3>1. held' \subseteq Resources /\ failed' \subseteq CanFail
      BY <1>4 DEF CdevInv, CdevTypeOK, Fails
    <3>2. mpc' \in 1 .. 6
      BY <1>1
    <3> QED BY <1>1, <3>1, <3>2 DEF CdevInv, CdevTypeOK
  <2>2. mpc # 2 /\ mpc # 3
    BY <1>1, <1>4 DEF Fails
  <2>3. InitHeld'
    BY <1>1, <1>2, <1>4, <2>2 DEF CdevInv, CdevTypeOK, InitHeld, Fails
  <2>4. OpenHeld'
    BY <1>1, <1>4 DEF CdevInv, OpenHeld, Opened, Fails
  <2> QED BY <1>1, <2>1, <2>3, <2>4 DEF CdevInv, LiveHeld, ExitHeld, OutHeld
<1> QED BY <1>3, <1>4 DEF pcm_test_init

\* A call of exit, or its return.
LEMMA ExitKeeps ==
  ASSUME CdevInv, pcm_cdev_exit
  PROVE  CdevInv'
<1> USE CallsOfExit
<1>1. module = "exit" /\ mpc \in 1 .. 6 /\ UNCHANGED <<failed, loads, task>>
  BY DEF pcm_cdev_exit, CdevInv, CdevTypeOK
<1>2. Opened' = {}
  BY <1>1 DEF CdevInv, OpenHeld, Opened
<1>3. CASE mpc <= 5
  <2>1. mpc \in 1 .. 5 /\ held' = held \ {exit_calls[mpc]} /\ mpc' = mpc + 1 /\ module' = "exit"
    BY <1>1, <1>3 DEF pcm_cdev_exit
  <2>2. CdevTypeOK'
    BY <1>1, <2>1 DEF CdevInv, CdevTypeOK
  <2>3. ExitHeld'
    BY <1>1, <2>1 DEF CdevInv, ExitHeld
  <2> QED BY <1>2, <2>1, <2>2, <2>3 DEF CdevInv, InitHeld, LiveHeld, OutHeld, OpenHeld
<1>4. CASE mpc = 6
  <2>1. module' = "out" /\ mpc' = 1 /\ held' = held
    BY <1>1, <1>4 DEF pcm_cdev_exit
  <2>2. held = {}
    BY <1>1, <1>4 DEF CdevInv, CdevTypeOK, ExitHeld, Resources
  <2>3. CdevTypeOK'
    BY <1>1, <2>1 DEF CdevInv, CdevTypeOK
  <2> QED BY <1>2, <2>1, <2>2, <2>3 DEF CdevInv, InitHeld, LiveHeld, ExitHeld, OutHeld, OpenHeld
<1> QED BY <1>1, <1>3, <1>4

\* Every step of the device keeps the invariant.
LEMMA StepKeeps ==
  ASSUME CdevInv, [CdevNext]_cdevVars
  PROVE  CdevInv'
<1> USE CdevAssumption
<1>1. CASE insmod
  <2>1. CdevTypeOK'
    BY <1>1 DEF insmod, CdevInv, CdevTypeOK
  <2> QED BY <1>1, <2>1
      DEF insmod, CdevInv, InitHeld, LiveHeld, ExitHeld, OutHeld, OpenHeld, Opened
<1>2. CASE pcm_test_init
  BY <1>2, InitKeeps
<1>3. CASE InitReturns
  <2>1. CdevTypeOK'
    BY <1>3 DEF InitReturns, CdevInv, CdevTypeOK
  <2>2. module = "init" /\ UNCHANGED <<held, failed, task>>
    BY <1>3 DEF InitReturns
  <2>3. CASE "cdev_add" \in failed
    <3>1. module' = "out" /\ "cdev" \notin held /\ "node" \notin held
      BY <1>3, <2>3 DEF InitReturns, CdevInv, InitHeld
    <3> QED BY <2>1, <2>2, <2>3, <3>1
        DEF CdevInv, InitHeld, LiveHeld, ExitHeld, OutHeld, OpenHeld, Opened
  <2>4. CASE "cdev_add" \notin failed
    <3>1. module' = "live" /\ mpc > 5
      BY <1>3, <2>4, CallsOfInit DEF InitReturns
    <3>2. {"class", "memory", "cdev"} \subseteq held
      BY <2>2, <2>4, <3>1 DEF CdevInv, CdevTypeOK, InitHeld
    <3> QED BY <2>1, <2>2, <2>4, <3>1, <3>2
        DEF CdevInv, InitHeld, LiveHeld, ExitHeld, OutHeld, OpenHeld, Opened
  <2> QED BY <2>3, <2>4
<1>4. CASE rmmod
  <2>1. CdevTypeOK'
    BY <1>4 DEF rmmod, CdevInv, CdevTypeOK
  <2>2. Opened' = {}
    BY <1>4 DEF rmmod, Pinned, Opened
  <2> QED BY <1>4, <2>1, <2>2
      DEF rmmod, CdevInv, InitHeld, LiveHeld, ExitHeld, OutHeld, OpenHeld
<1>5. CASE pcm_cdev_exit
  BY <1>5, ExitKeeps
<1>6. ASSUME NEW t \in Tasks, FileStep(t) \/ IoctlMove(t)
      PROVE  CdevInv'
  <2>1. task[t] \in {"opened", "ioctl"} => module \in {"init", "live"} /\ "cdev" \in held
    BY DEF CdevInv, OpenHeld, Opened
  <2>2. CASE FindNode(t)
    BY <2>2, MoveKeeps DEF FindNode
  <2>3. CASE pcm_cdev_open(t)
    <3>1. CASE "cdev" \in held /\ module # "exit"
      <4>1. module \in {"init", "live"}
        BY <3>1 DEF CdevInv, CdevTypeOK, OutHeld
      <4> QED BY <2>3, <3>1, <4>1, MoveKeeps DEF pcm_cdev_open
    <3>2. CASE ~("cdev" \in held /\ module # "exit")
      BY <2>3, <3>2, MoveKeeps DEF pcm_cdev_open
    <3> QED BY <3>1, <3>2
  <2>4. CASE pcm_cdev_release(t)
    BY <2>4, MoveKeeps DEF pcm_cdev_release
  <2>5. CASE EnterIoctl(t)
    BY <2>1, <2>5, MoveKeeps DEF EnterIoctl
  <2>6. CASE LeaveIoctl(t)
    BY <2>1, <2>6, MoveKeeps DEF LeaveIoctl
  <2> QED BY <1>6, <2>2, <2>3, <2>4, <2>5, <2>6 DEF FileStep, IoctlMove
<1>7. CASE UNCHANGED cdevVars
  BY <1>7 DEF cdevVars, moduleVars, CdevInv, CdevTypeOK, InitHeld, LiveHeld, ExitHeld,
              OutHeld, OpenHeld, Opened
<1> QED BY <1>1, <1>2, <1>3, <1>4, <1>5, <1>6, <1>7 DEF CdevNext, ModuleStep

\* Before the first insmod the module holds nothing.
LEMMA InitInv == CdevInit => CdevInv
BY CdevAssumption
   DEF CdevInit, CdevInv, CdevTypeOK, InitHeld, LiveHeld, ExitHeld, OutHeld, OpenHeld, Opened

\* At every step of init and exit, the module holds what its place in them says, and
\* an open file keeps the cdev and the module.
THEOREM CdevInvariant == CdevSpec => []CdevInv
<1>1. CdevInv /\ [CdevNext]_cdevVars => CdevInv'
  BY StepKeeps
<1> QED BY InitInv, <1>1, PTL DEF CdevSpec

\* What the invariant says of the three properties the runs check.
LEMMA InvImplies == CdevInv => OpenKeepsDevice /\ NothingDangles /\ UnloadReleasesAll
<1> SUFFICES ASSUME CdevInv PROVE OpenKeepsDevice /\ NothingDangles /\ UnloadReleasesAll
  OBVIOUS
<1>1. "cdev" \in held => "memory" \in held
  BY DEF CdevInv, CdevTypeOK, InitHeld, LiveHeld, ExitHeld, OutHeld
<1>2. "node" \in held => "class" \in held
  BY DEF CdevInv, CdevTypeOK, InitHeld, LiveHeld, ExitHeld, OutHeld
<1>3. OpenKeepsDevice
  BY <1>1 DEF CdevInv, OpenHeld, Opened, OpenKeepsDevice
<1>4. UnloadReleasesAll
  BY DEF CdevInv, OutHeld, UnloadReleasesAll
<1> QED BY <1>1, <1>2, <1>3, <1>4 DEF NothingDangles

\* An open file keeps the module and its cdev (.owner = THIS_MODULE), however
\* init, exit, open and release of any number of tasks interleave.
THEOREM OpenFilesAreSafe == CdevSpec => []OpenKeepsDevice
BY CdevInvariant, InvImplies, PTL

\* pcm_cdev_exit takes down the node before its class and the cdev before its
\* memory, and init builds them up the other way round.
THEOREM TeardownInOrder == CdevSpec => []NothingDangles
BY CdevInvariant, InvImplies, PTL

\* Whatever failed but cdev_add, rmmod leaves nothing behind.
THEOREM UnloadIsComplete == CdevSpec => []UnloadReleasesAll
BY CdevInvariant, InvImplies, PTL
-----------------------------------------------------------------------------
\* The script of an ioctl: tests, between what it does first and what last.
LEMMA Between ==
  ASSUME NEW S, NEW t \in Seq(S), NEW a \in S, NEW b \in S, NEW c \in S, NEW d \in S,
         NEW s, s = <<a, b>> \o t \o <<c, d>>
  PROVE  /\ Len(t) \in Nat /\ Len(s) = Len(t) + 4
         /\ s[1] = a /\ s[2] = b /\ s[Len(t) + 3] = c /\ s[Len(t) + 4] = d
         /\ \A k \in 1 .. Len(t) : s[k + 2] = t[k]
<1> DEFINE u == <<a, b>> v == <<c, d>> w == u \o t
<1>1. u \in Seq(S) /\ Len(u) = 2 /\ u[1] = a /\ u[2] = b
  OBVIOUS
<1>2. v \in Seq(S) /\ Len(v) = 2 /\ v[1] = c /\ v[2] = d
  OBVIOUS
<1>3. s = w \o v
  OBVIOUS
<1> HIDE DEF u, v
<1>4. Len(t) \in Nat
  OBVIOUS
<1>5. /\ w \in Seq(S) /\ Len(w) = Len(u) + Len(t)
      /\ \A k \in 1 .. Len(u) + Len(t) : w[k] = IF k <= Len(u) THEN u[k] ELSE t[k - Len(u)]
  BY <1>1, ConcatProperties
<1>6. Len(w) = Len(t) + 2 /\ w[1] = a /\ w[2] = b /\ \A k \in 1 .. Len(t) : w[k + 2] = t[k]
  BY <1>1, <1>4, <1>5
<1> HIDE DEF w
<1> QED
  BY <1>2, <1>3, <1>4, <1>5, <1>6
=============================================================================
