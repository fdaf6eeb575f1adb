--------------------------- MODULE PvClockProofs ---------------------------
(***************************************************************************)
(* Proofs about PvClock for every number of vCPUs, every host and all      *)
(* bounds: types, consistent snapshots and monotonic answers.              *)
(***************************************************************************)
EXTENDS PvClock, TLAPS

\* The local version is still that of the page, and nobody is rewriting it.
Fresh(c) == version[c] = hv_clock[c].version /\ hostpc[c] = "rest"

\* Counter values at which an accepted read may have looked at the page.
Instants(c) == { t \in 0 .. tsc : /\ hv_clock[c].tsc_timestamp <= t
                                  /\ StableHost => floor[c] <= t }

\* A stable host has accepted the page of c.
Served(c) == StableHost => c \in Accepted

\* Odd while the host writes; a stable host's pages all show the counter; a page
\* the host refused stays as it was.
PageInv(c) ==
  /\ IsOdd(hv_clock[c].version) <=> hostpc[c] # "rest"
  /\ hv_clock[c].tsc_timestamp <= tsc
  /\ c \notin Accepted => hv_clock[c] = ZeroPage /\ hostpc[c] = "rest"
  /\ StableHost /\ c \in Accepted /\ msr[c] # "unset" =>
       /\ hv_clock[c].mul = 1
       /\ hostpc[c] # "time" =>
            hv_clock[c].system_time = hv_clock[c].tsc_timestamp
  /\ ~StableHost => hv_clock[c].flags = {}

\* What a read in progress has learnt, as long as its snapshot is fresh.
SnapInv(c) ==
  /\ version[c] <= hv_clock[c].version
  /\ rpc[c] # "idle" => msr[c] # "unset"
  /\ ~StableHost \/ c \notin Accepted => flags[c] = {}
  /\ rpc[c] = "delta" =>
       /\ ret[c] \in 0 .. tsc
       /\ StableHost => floor[c] <= ret[c]
       /\ Fresh(c) => hv_clock[c].tsc_timestamp <= ret[c]
  /\ rpc[c] = "time" /\ Fresh(c) =>
       \E t \in Instants(c) :
         ret[c] = TimeAt(hv_clock[c], t) - hv_clock[c].system_time
  /\ rpc[c] \in {"odd", "same"} /\ Fresh(c) =>
       /\ flags[c] = hv_clock[c].flags
       /\ \E t \in Instants(c) : ret[c] = TimeAt(hv_clock[c], t)
  /\ rpc[c] = "same" /\ version[c] = hv_clock[c].version => hostpc[c] = "rest"

\* Where the accepted cycles and the answer lie.
AnswerInv(c) ==
  /\ floor[c] <= seen
  /\ rpc[c] \in Accepting => ret[c] >= 0
  /\ rpc[c] \in Accepting /\ StableHost =>
       ret[c] <= tsc /\ (c \in Accepted => floor[c] <= ret[c])
  /\ rpc[c] = "cmpxchg" => last[c] <= ret[c]
  /\ rpc[c] = "done" => /\ Served(c) => floor[c] <= ret[c]
                        /\ ~StableHost => ret[c] <= last_value

\* Everything returned so far is covered by the counter, or by last_value.
SeenInv ==
  IF StableHost THEN seen <= tsc /\ last_value <= tsc ELSE seen <= last_value

CpuInv(c) == PageInv(c) /\ SnapInv(c) /\ AnswerInv(c)

ClockInv ==
  /\ Values
  /\ SeenInv
  /\ \A c \in Cpus : CpuInv(c)

\* A step that leaves alone all that vCPU d sees of itself, and only moves
\* the shared clocks forward, keeps the invariant of d.
LEMMA Frame ==
  ASSUME ClockInv, Values', NEW d \in Cpus,
         tsc <= tsc', last_value <= last_value', seen <= seen',
         hv_clock'[d] = hv_clock[d], hostpc'[d] = hostpc[d], msr'[d] = msr[d],
         rpc'[d] = rpc[d], version'[d] = version[d], ret'[d] = ret[d],
         flags'[d] = flags[d], last'[d] = last[d], floor'[d] = floor[d]
  PROVE  CpuInv(d)'
<1>1. PageInv(d)'
  BY DEF PageInv, ClockInv, CpuInv, Values, Pages
<1>2. Instants(d) \subseteq Instants(d)' /\ Fresh(d)' = Fresh(d)
  BY DEF Instants, Fresh, Values, Pages, ClockInv
<1>3. SnapInv(d)'
  <2>1. ASSUME NEW t PROVE TimeAt(hv_clock[d], t)' = TimeAt(hv_clock[d], t)
    BY DEF TimeAt
  <2> QED
    BY <1>2, <2>1 DEF SnapInv, ClockInv, CpuInv, Values, Pages, TimeAt
<1>4. AnswerInv(d)'
  BY DEF AnswerInv, ClockInv, CpuInv, Values, Accepting
<1> QED
  BY <1>1, <1>3, <1>4 DEF CpuInv

\* The counter moves forward.
LEMMA TickStep ==
  ASSUME ClockInv, Tick PROVE ClockInv'
<1>1. Values'
  BY PvClockAssumption DEF Tick, ClockInv, Values, sharedVars, localVars, histVars
<1>2. SeenInv'
  BY DEF SeenInv, Tick, ClockInv, Values, sharedVars, localVars, histVars
<1>3. ASSUME NEW d \in Cpus PROVE CpuInv(d)'
  BY <1>1, Frame DEF Tick, ClockInv, Values, sharedVars, localVars, histVars
<1> QED
  BY <1>1, <1>2, <1>3 DEF ClockInv


\* Page q is p with another version, another stamp, or another time.
SameStamp(p, q) == q.tsc_timestamp = p.tsc_timestamp /\ q.mul = p.mul
SameTime(p, q)  == q.system_time = p.system_time /\ q.flags = p.flags

\* A page with a new version has the stamp and the time it had.
LEMMA VersionWritten ==
  ASSUME NEW p \in Pages, NEW q, q = [p EXCEPT !.version = @ + 1]
  PROVE  q \in Pages /\ q.version = p.version + 1 /\ SameStamp(p, q) /\ SameTime(p, q)
<1>1. p.version + 1 \in Nat
  BY DEF Pages
<1> DEFINE n == p.version + 1
<1>2. q = [p EXCEPT !.version = n]
  OBVIOUS
<1> QED
  BY <1>1, <1>2 DEF Pages, SameStamp, SameTime

\* What each of the host's four steps does to the page p of c and its hostpc.
HostEffect(c, p, q) ==
  \/ /\ hostpc[c] = "rest" /\ hostpc'[c] = "stamp" /\ c \in Accepted
     /\ q.version = p.version + 1 /\ SameStamp(p, q) /\ SameTime(p, q)
  \/ /\ hostpc[c] = "stamp" /\ hostpc'[c] = "time"
     /\ q.version = p.version /\ q.tsc_timestamp = tsc /\ q.mul = 1
     /\ SameTime(p, q)
  \/ /\ hostpc[c] = "time" /\ hostpc'[c] = "end"
     /\ q.version = p.version /\ SameStamp(p, q)
     /\ q.flags = HostFlags /\ q.system_time \in TimesAt(q.tsc_timestamp)
  \/ /\ hostpc[c] = "end" /\ hostpc'[c] = "rest"
     /\ q.version = p.version + 1 /\ SameStamp(p, q) /\ SameTime(p, q)

\* What a write of the host does to a page, at each of its places.
LEMMA HostShape ==
  ASSUME Values, NEW c \in Cpus, HostUpdate(c)
  PROVE  /\ hv_clock'[c] \in Pages /\ hv_clock' \in [Cpus -> Pages]
         /\ \A d \in Cpus \ {c} : hv_clock'[d] = hv_clock[d] /\ hostpc'[d] = hostpc[d]
         /\ hostpc' \in [Cpus -> {"rest", "stamp", "time", "end"}]
         /\ HostEffect(c, hv_clock[c], hv_clock'[c])
<1> DEFINE p == hv_clock[c]
           q == hv_clock'[c]
<1>1. p \in Pages /\ tsc \in Nat /\ p.tsc_timestamp \in Nat
  BY DEF Values, Pages
<1>2. CASE HostBegin(c)
  <2>1. /\ q = [p EXCEPT !.version = @ + 1] /\ c \in Accepted
        /\ hostpc[c] = "rest" /\ hostpc'[c] = "stamp"
    BY <1>2 DEF HostBegin, Values
  <2>2. q \in Pages /\ HostEffect(c, p, q)
    BY <1>1, <2>1, VersionWritten DEF HostEffect
  <2> QED
    BY <1>2, <2>2 DEF HostBegin, Values
<1>3. CASE HostStamp(c)
  <2>1. /\ q = [p EXCEPT !.tsc_timestamp = tsc, !.mul = 1]
        /\ hostpc[c] = "stamp" /\ hostpc'[c] = "time"
    BY <1>3 DEF HostStamp, Values
  <2>2. /\ q \in Pages /\ q.version = p.version /\ SameTime(p, q)
        /\ q.tsc_timestamp = tsc /\ q.mul = 1
    <3> HIDE DEF p, q
    <3> QED
      BY <1>1, <2>1 DEF Pages, SameTime
  <2>3. HostEffect(c, p, q)
    BY <2>1, <2>2 DEF HostEffect
  <2> QED
    BY <1>3, <2>2, <2>3 DEF HostStamp, Values
<1>4. CASE HostTime(c)
  <2>1. PICK t \in TimesAt(p.tsc_timestamp) :
          hv_clock' = [hv_clock EXCEPT ![c].system_time = t, ![c].flags = HostFlags]
    BY <1>4 DEF HostTime
  <2>2. /\ q = [p EXCEPT !.system_time = t, !.flags = HostFlags]
        /\ hostpc[c] = "time" /\ hostpc'[c] = "end"
    BY <1>4, <2>1 DEF HostTime, Values
  <2>3. t \in Nat /\ HostFlags \in {{}, {STABLE}}
    BY <1>1, PvClockAssumption DEF TimesAt, HostFlags
  <2>4. q \in Pages /\ HostEffect(c, p, q)
    <3>1. /\ q \in Pages /\ q.version = p.version /\ SameStamp(p, q)
          /\ q.system_time = t /\ q.flags = HostFlags
      <4> HIDE DEF p, q
      <4> QED
        BY <1>1, <2>2, <2>3 DEF Pages, SameStamp
    <3> QED
      BY <2>1, <2>2, <3>1 DEF HostEffect, SameStamp
  <2> QED
    BY <1>4, <2>1, <2>4 DEF HostTime, Values
<1>5. CASE HostEnd(c)
  <2>1. q = [p EXCEPT !.version = @ + 1] /\ hostpc[c] = "end" /\ hostpc'[c] = "rest"
    BY <1>5 DEF HostEnd, Values
  <2>2. q \in Pages /\ HostEffect(c, p, q)
    BY <1>1, <2>1, VersionWritten DEF HostEffect
  <2> QED
    BY <1>5, <2>2 DEF HostEnd, Values
<1> QED
  BY <1>2, <1>3, <1>4, <1>5 DEF HostUpdate

\* The host's four steps on the page of c: the version is odd from the first
\* to the last, so no snapshot of c is fresh right after any of them.
LEMMA HostStep ==
  ASSUME ClockInv, NEW c \in Cpus, HostUpdate(c) PROVE ClockInv'
<1> USE DEF sharedVars, localVars, histVars
<1> DEFINE p == hv_clock[c]
           q == hv_clock'[c]
<1>0. UNCHANGED <<msr, tsc, sharedVars, localVars, histVars>>
  BY DEF HostUpdate
<1>1. Values'
  BY <1>0, HostShape DEF ClockInv, Values
<1>2. SeenInv'
  BY <1>0 DEF SeenInv, ClockInv
<1>3. ASSUME NEW d \in Cpus, d # c PROVE CpuInv(d)'
  BY <1>0, <1>1, <1>3, HostShape, Frame DEF ClockInv, Values
<1>4. CpuInv(c)'
  <2>1. p \in Pages /\ q \in Pages /\ HostEffect(c, p, q) /\ CpuInv(c)
    BY HostShape DEF ClockInv, Values
  <2>2. p.version \in Nat /\ version[c] \in Nat /\ tsc \in Nat
    BY <2>1 DEF ClockInv, Values, Pages
  <2>3. PageInv(c)'
    <3>1. c \in Accepted
      BY <2>1 DEF PageInv, CpuInv, HostEffect
    <3>2. /\ IsOdd(q.version) <=> hostpc'[c] # "rest"
          /\ q.tsc_timestamp <= tsc
      BY <2>1, <2>2 DEF PageInv, CpuInv, HostEffect, SameStamp, IsOdd
    <3>3. ASSUME StableHost, msr[c] # "unset"
          PROVE  q.mul = 1 /\ (hostpc'[c] # "time" => q.system_time = q.tsc_timestamp)
      BY <2>1, <3>1, <3>3 DEF PageInv, CpuInv, HostEffect, SameStamp, SameTime, TimesAt
    <3>4. ASSUME ~StableHost PROVE q.flags = {}
      BY <2>1, <3>4 DEF PageInv, CpuInv, HostEffect, SameTime, HostFlags
    <3> QED
      BY <1>0, <3>1, <3>2, <3>3, <3>4 DEF PageInv
  <2>4. /\ ~Fresh(c)' /\ version[c] <= q.version
        /\ rpc[c] = "same" => version[c] # q.version \/ hostpc'[c] = "rest"
    BY <1>0, <2>1, <2>2
    DEF CpuInv, PageInv, SnapInv, Fresh, HostEffect, IsOdd
  <2>5. SnapInv(c)'
    BY <1>0, <2>1, <2>4 DEF SnapInv, CpuInv
  <2>6. AnswerInv(c)'
    BY <1>0, <2>1 DEF AnswerInv, CpuInv
  <2> QED
    BY <2>3, <2>5, <2>6 DEF CpuInv
<1> QED
  BY <1>1, <1>2, <1>3, <1>4 DEF ClockInv

\* kvm_clock_init: the page is registered, and the host fills it if it accepts.
LEMMA InitStep ==
  ASSUME ClockInv, NEW c \in Cpus, kvm_clock_init(c)
  PROVE  ClockInv'
<1> USE DEF sharedVars, localVars, histVars
<1> DEFINE p == hv_clock[c]
           q == hv_clock'[c]
<1>0. /\ UNCHANGED <<hostpc, tsc, sharedVars, localVars, histVars>>
      /\ rpc[c] = "idle" /\ hostpc[c] = "rest"
      /\ msr' = [msr EXCEPT ![c] = "on"]
      /\ CpuInv(c) /\ p \in Pages
  BY DEF kvm_clock_init, ClockInv, Values
<1>1. CASE UNCHANGED hv_clock /\ c \notin Accepted
  <2>1. Values'
    BY <1>0, <1>1 DEF ClockInv, Values
  <2>2. SeenInv'
    BY <1>0, <1>1 DEF ClockInv, SeenInv
  <2>3. ASSUME NEW d \in Cpus, d # c PROVE CpuInv(d)'
    BY <1>0, <1>1, <2>1, <2>3, Frame DEF ClockInv, Values
  <2>4. CpuInv(c)'
    BY <1>0, <1>1
    DEF CpuInv, PageInv, SnapInv, AnswerInv, ClockInv, Values,
        Accepting, Fresh
  <2> QED
    BY <2>1, <2>2, <2>3, <2>4 DEF ClockInv
<1>2. ASSUME c \in Accepted, NEW t \in TimesAt(tsc),
             hv_clock' = [hv_clock EXCEPT ![c] = Published(@.version + 2, tsc, t)]
      PROVE  ClockInv'
  <2>1. q = Published(p.version + 2, tsc, t)
    BY <1>2 DEF ClockInv, Values
  <2>2. p.version \in Nat /\ tsc \in Nat /\ t \in Nat /\ HostFlags \in {{}, {STABLE}}
    BY <1>0, PvClockAssumption DEF ClockInv, Values, Pages, TimesAt, HostFlags
  <2>3. /\ q \in Pages /\ q.version = p.version + 2 /\ q.tsc_timestamp = tsc
        /\ q.mul = 1 /\ q.system_time = t /\ q.flags = HostFlags
    BY <2>1, <2>2 DEF Pages, Published
  <2>4. Values'
    BY <1>0, <1>2, <2>3 DEF ClockInv, Values
  <2>5. SeenInv'
    BY <1>0 DEF ClockInv, SeenInv
  <2>6. ASSUME NEW d \in Cpus, d # c PROVE CpuInv(d)'
    BY <1>0, <1>2, <2>4, <2>6, Frame DEF ClockInv, Values
  <2>7. PageInv(c)'
    BY <1>0, <1>2, <2>2, <2>3
    DEF CpuInv, PageInv, TimesAt, HostFlags, IsOdd
  <2>8. SnapInv(c)' /\ AnswerInv(c)'
    <3>1. version[c] \in Nat /\ version[c] <= q.version
      BY <1>0, <2>2, <2>3 DEF ClockInv, Values, CpuInv, SnapInv
    <3> QED
      BY <1>0, <1>2, <3>1 DEF CpuInv, SnapInv, AnswerInv, Accepting
  <2> QED
    BY <2>4, <2>5, <2>6, <2>7, <2>8 DEF ClockInv, CpuInv
<1> QED
  BY <1>1, <1>2 DEF kvm_clock_init

\* kvm_clock_clear, outside any read of that vCPU.
LEMMA ClearStep ==
  ASSUME ClockInv, NEW c \in Cpus, kvm_clock_clear(c), msr[c] = "on" PROVE ClockInv'
<1> USE DEF kvm_clock_clear, sharedVars, localVars, histVars
<1>1. Values'
  BY DEF ClockInv, Values
<1>2. SeenInv'
  BY DEF ClockInv, SeenInv
<1>3. ASSUME NEW d \in Cpus, d # c PROVE CpuInv(d)'
  BY <1>1, <1>3, Frame DEF ClockInv, Values
<1>4. CpuInv(c)'
  BY DEF CpuInv, PageInv, SnapInv, AnswerInv, ClockInv, Values, Accepting, Fresh
<1> QED
  BY <1>1, <1>2, <1>3, <1>4 DEF ClockInv

\* pvclock_set_flags, at any time.
LEMMA SetFlagsStep ==
  ASSUME ClockInv, NEW f \in FlagSets, pvclock_set_flags(f) PROVE ClockInv'
<1> USE DEF pvclock_set_flags, pageVars, localVars, histVars
<1>1. Values'
  BY DEF ClockInv, Values
<1>2. SeenInv'
  BY DEF ClockInv, SeenInv
<1>3. ASSUME NEW d \in Cpus PROVE CpuInv(d)'
  BY <1>1, Frame DEF ClockInv, Values
<1> QED
  BY <1>1, <1>2, <1>3 DEF ClockInv

\* A read is called: its floor is the largest answer so far.
LEMMA CallStep ==
  ASSUME ClockInv, NEW c \in Cpus, Call(c), msr[c] # "unset" PROVE ClockInv'
<1> USE DEF Call, Goto, pageVars, sharedVars
<1>1. Values'
  BY DEF ClockInv, Values, ReadLabels
<1>2. SeenInv'
  BY DEF ClockInv, SeenInv
<1>3. ASSUME NEW d \in Cpus, d # c PROVE CpuInv(d)'
  BY <1>1, <1>3, Frame DEF ClockInv, Values
<1>4. CpuInv(c)'
  BY DEF CpuInv, PageInv, SnapInv, AnswerInv, ClockInv, Values, Accepting, Fresh
<1> QED
  BY <1>1, <1>2, <1>3, <1>4 DEF ClockInv

\* A read returns its answer.
LEMMA ReturnStep ==
  ASSUME ClockInv, NEW c \in Cpus, Return(c) PROVE ClockInv'
<1> USE DEF Return, Goto, pageVars, sharedVars, Larger
<1>0. CpuInv(c) /\ rpc[c] = "done" /\ ret[c] \in Int /\ seen \in Nat /\ ret[c] >= 0
  BY DEF ClockInv, Values, CpuInv, AnswerInv, Accepting
<1>1. Values'
  BY <1>0 DEF ClockInv, Values, ReadLabels
<1>2. SeenInv'
  BY <1>0 DEF ClockInv, SeenInv, CpuInv, AnswerInv, Values, Accepting
<1>3. ASSUME NEW d \in Cpus, d # c PROVE CpuInv(d)'
  BY <1>0, <1>1, <1>3, Frame DEF ClockInv, Values
<1>4. CpuInv(c)'
  BY <1>0 DEF CpuInv, PageInv, SnapInv, AnswerInv, ClockInv, Values, Accepting, Fresh
<1> QED
  BY <1>1, <1>2, <1>3, <1>4 DEF ClockInv

\* Only the locals of c and last_value change while c reads.
OnlyLocals(c) ==
  /\ UNCHANGED <<pageVars, valid_flags, histVars>>
  /\ \A d \in Cpus \ {c} :
       /\ rpc'[d] = rpc[d] /\ version'[d] = version[d] /\ ret'[d] = ret[d]
       /\ flags'[d] = flags[d] /\ last'[d] = last[d]

\* A step that changes the locals of one read, and at most raises last_value.
LEMMA ReadFrame ==
  ASSUME ClockInv, NEW c \in Cpus, OnlyLocals(c), Values', CpuInv(c)',
         last_value <= last_value', StableHost => last_value' <= tsc
  PROVE  ClockInv'
<1> USE DEF OnlyLocals, pageVars, histVars
<1>1. SeenInv'
  BY DEF ClockInv, SeenInv, Values
<1>2. ASSUME NEW d \in Cpus, d # c PROVE CpuInv(d)'
  BY <1>2, Frame DEF ClockInv, Values
<1> QED
  BY <1>1, <1>2 DEF ClockInv

\* From the load of the version to the test that it is still the same.
LEMMA SnapshotStep ==
  ASSUME ClockInv, NEW c \in Cpus, UNCHANGED <<pageVars, valid_flags, histVars>>,
         \/ ReadVersion(c) \/ ReadTsc(c) \/ ReadDelta(c) \/ ReadTime(c)
         \/ CheckOdd(c) \/ CheckSame(c)
  PROVE  ClockInv'
<1> USE DEF pageVars, histVars
<1> DEFINE p == hv_clock[c]
<1>0. /\ CpuInv(c) /\ p \in Pages /\ tsc \in Nat /\ seen \in Nat /\ last_value \in Nat
      /\ p.version \in Nat /\ p.tsc_timestamp \in Nat /\ p.mul \in {0, 1}
      /\ p.system_time \in Nat /\ p.flags \in {{}, {STABLE}}
      /\ version[c] \in Nat /\ ret[c] \in Int /\ last[c] \in Nat /\ floor[c] \in Nat
      /\ (StableHost => last_value <= tsc) /\ (StableHost => seen <= tsc)
  BY DEF ClockInv, Values, Pages, SeenInv
<1>a. UNCHANGED last_value
  BY DEF ReadVersion, ReadTsc, ReadDelta, ReadTime, CheckOdd, CheckSame
<1>1. CASE ReadVersion(c)
  <2> USE <1>1 DEF ReadVersion, Goto
  <2>1. Values' /\ OnlyLocals(c)
    BY <1>0 DEF ClockInv, Values, ReadLabels, OnlyLocals
  <2>2. CpuInv(c)'
    BY <1>0 DEF CpuInv, PageInv, SnapInv, AnswerInv, ClockInv, Values, Accepting
  <2> QED
    BY <1>0, <1>a, <2>1, <2>2, ReadFrame
<1>2. CASE ReadTsc(c)
  <2> USE <1>2 DEF ReadTsc, Goto
  <2>1. Values' /\ OnlyLocals(c)
    BY <1>0 DEF ClockInv, Values, ReadLabels, OnlyLocals
  <2>2. CpuInv(c)'
    BY <1>0 DEF CpuInv, PageInv, SnapInv, AnswerInv, ClockInv, Values, Accepting, Fresh
  <2> QED
    BY <1>0, <1>a, <2>1, <2>2, ReadFrame
<1>3. CASE ReadDelta(c)
  <2> USE <1>3 DEF ReadDelta, Goto
  <2>1. Values' /\ OnlyLocals(c)
    BY <1>0 DEF ClockInv, Values, ReadLabels, OnlyLocals
  <2>2. /\ rpc[c] = "delta" /\ rpc'[c] = "time"
        /\ ret'[c] = IF p.mul = 0 THEN 0 ELSE ret[c] - p.tsc_timestamp
    BY DEF ClockInv, Values
  <2>3. Fresh(c)' => \E t \in Instants(c)' :
          ret'[c] = TimeAt(hv_clock[c], t)' - hv_clock'[c].system_time
    <3>1. SUFFICES ASSUME Fresh(c) PROVE
            /\ ret[c] \in Instants(c)
            /\ ret'[c] = TimeAt(hv_clock[c], ret[c]) - hv_clock[c].system_time
      BY DEF Fresh, Instants, TimeAt
    <3> QED
      BY <1>0, <2>2, <3>1 DEF CpuInv, SnapInv, Instants, TimeAt
  <2>4. CpuInv(c)'
    BY <1>0, <2>2, <2>3 DEF CpuInv, PageInv, SnapInv, AnswerInv, Accepting, TimeAt
  <2> QED
    BY <1>0, <1>a, <2>1, <2>4, ReadFrame
<1>4. CASE ReadTime(c)
  <2> USE <1>4 DEF ReadTime, Goto
  <2>1. Values' /\ OnlyLocals(c)
    BY <1>0 DEF ClockInv, Values, ReadLabels, OnlyLocals
  <2>2. /\ rpc[c] = "time" /\ rpc'[c] = "odd"
        /\ ret'[c] = ret[c] + p.system_time /\ flags'[c] = p.flags
    BY DEF ClockInv, Values
  <2>3. Fresh(c)' => \E t \in Instants(c)' : ret'[c] = TimeAt(hv_clock[c], t)'
    <3>1. SUFFICES ASSUME Fresh(c)
                   PROVE  \E t \in Instants(c) : ret'[c] = TimeAt(hv_clock[c], t)
      BY DEF Fresh, Instants, TimeAt
    <3>2. PICK t \in Instants(c) : ret[c] = TimeAt(p, t) - p.system_time
      BY <1>0, <2>2, <3>1 DEF CpuInv, SnapInv
    <3>3. TimeAt(p, t) \in Int
      BY <1>0 DEF TimeAt, Instants
    <3> QED
      BY <1>0, <2>2, <3>2, <3>3
  <2>4. CpuInv(c)'
    BY <1>0, <2>2, <2>3
    DEF CpuInv, PageInv, SnapInv, AnswerInv, Accepting, TimeAt, ZeroPage
  <2> QED
    BY <1>0, <1>a, <2>1, <2>4, ReadFrame
<1>5. CASE CheckOdd(c)
  <2> USE <1>5 DEF CheckOdd, Goto
  <2>1. Values' /\ OnlyLocals(c)
    BY <1>0 DEF ClockInv, Values, ReadLabels, OnlyLocals
  <2>2. /\ rpc[c] = "odd" /\ rpc'[c] = IF IsOdd(p.version) THEN "version" ELSE "same"
        /\ ret'[c] = ret[c]
    BY DEF ClockInv, Values
  <2>3. Instants(c)' = Instants(c) /\ Fresh(c)' = Fresh(c)
        /\ \A t : TimeAt(hv_clock[c], t)' = TimeAt(hv_clock[c], t)
    BY DEF Instants, Fresh, TimeAt
  <2>4. CpuInv(c)'
    BY <1>0, <2>2, <2>3 DEF CpuInv, PageInv, SnapInv, AnswerInv, Accepting, TimeAt
  <2> QED
    BY <1>0, <1>a, <2>1, <2>4, ReadFrame
<1>6. CASE CheckSame(c)
  <2> USE <1>6 DEF CheckSame, Goto
  <2>1. Values' /\ OnlyLocals(c)
    BY <1>0 DEF ClockInv, Values, ReadLabels, OnlyLocals
  <2>2. /\ rpc[c] = "same"
        /\ rpc'[c] = IF version[c] # p.version THEN "version" ELSE "stable"
        /\ ret'[c] = ret[c]
    BY DEF ClockInv, Values
  <2>3. rpc'[c] = "stable" =>
          /\ ret[c] >= 0
          /\ StableHost => ret[c] <= tsc /\ (c \in Accepted => floor[c] <= ret[c])
    <3>1. SUFFICES ASSUME rpc'[c] = "stable"
                   PROVE  /\ ret[c] >= 0
                          /\ StableHost => /\ ret[c] <= tsc
                                           /\ c \in Accepted => floor[c] <= ret[c]
      OBVIOUS
    <3>2. Fresh(c) /\ msr[c] # "unset"
      BY <1>0, <2>2, <3>1 DEF CpuInv, SnapInv, Fresh
    <3>3. PICK t \in Instants(c) : ret[c] = TimeAt(p, t)
      BY <1>0, <2>2, <3>2 DEF CpuInv, SnapInv
    <3>4. CASE c \notin Accepted
      BY <1>0, <3>3, <3>4 DEF CpuInv, PageInv, Instants, TimeAt, ZeroPage
    <3>5. CASE c \in Accepted
      BY <1>0, <3>2, <3>3, <3>5 DEF CpuInv, PageInv, Instants, TimeAt, Fresh
    <3> QED
      BY <3>4, <3>5
  <2>4. CpuInv(c)'
    BY <1>0, <2>2, <2>3 DEF CpuInv, PageInv, SnapInv, AnswerInv, Accepting, TimeAt
  <2> QED
    BY <1>0, <1>a, <2>1, <2>4, ReadFrame
<1> QED
  BY <1>1, <1>2, <1>3, <1>4, <1>5, <1>6

\* From the accepted cycles to the answer.
LEMMA AnswerStep ==
  ASSUME ClockInv, NEW c \in Cpus, UNCHANGED <<pageVars, valid_flags, histVars>>,
         ReturnStable(c) \/ PassStable(c) \/ LoadLast(c) \/ Cmpxchg(c)
  PROVE  ClockInv' /\ last_value <= last_value'
<1> USE DEF pageVars, histVars
<1>0. /\ CpuInv(c) /\ tsc \in Nat /\ seen \in Nat /\ last_value \in Nat
      /\ ret[c] \in Int /\ last[c] \in Nat /\ floor[c] \in Nat
      /\ SeenInv /\ floor[c] <= seen
      /\ rpc[c] \in Accepting => ret[c] >= 0
  BY DEF ClockInv, Values, CpuInv, AnswerInv
<1>1. CASE ReturnStable(c)
  <2> USE <1>1 DEF ReturnStable, Finish, Goto
  <2>1. Values' /\ OnlyLocals(c)
    BY <1>0 DEF ClockInv, Values, ReadLabels, OnlyLocals
  <2>2. StableHost /\ c \in Accepted
    BY <1>0 DEF CpuInv, SnapInv
  <2>3. CpuInv(c)'
    BY <1>0, <2>2 DEF CpuInv, PageInv, SnapInv, AnswerInv, ClockInv, Values, Pages, Accepting
  <2> QED
    BY <1>0, <2>1, <2>3, ReadFrame DEF SeenInv
<1>2. CASE PassStable(c)
  <2> USE <1>2 DEF PassStable, Goto
  <2>1. Values' /\ OnlyLocals(c)
    BY <1>0 DEF ClockInv, Values, ReadLabels, OnlyLocals
  <2>2. CpuInv(c)'
    BY <1>0 DEF CpuInv, PageInv, SnapInv, AnswerInv, ClockInv, Values, Accepting
  <2> QED
    BY <1>0, <2>1, <2>2, ReadFrame DEF SeenInv
<1>3. CASE LoadLast(c)
  <2> USE <1>3 DEF LoadLast, Finish, Goto
  <2>1. Values' /\ OnlyLocals(c)
    BY <1>0 DEF ClockInv, Values, ReadLabels, OnlyLocals
  <2>2. CpuInv(c)'
    BY <1>0
    DEF CpuInv, PageInv, SnapInv, AnswerInv, ClockInv, Values, Pages, Accepting, SeenInv, Served
  <2> QED
    BY <1>0, <2>1, <2>2, ReadFrame DEF SeenInv
<1>4. CASE Cmpxchg(c)
  <2> USE <1>4 DEF Cmpxchg, Finish, Goto
  <2>0. rpc[c] = "cmpxchg" /\ last[c] <= ret[c] /\ last_value' \in {last_value, ret[c]}
    BY <1>0 DEF CpuInv, AnswerInv
  <2>1. Values' /\ OnlyLocals(c)
    BY <1>0, <2>0 DEF ClockInv, Values, ReadLabels, OnlyLocals, Accepting
  <2>2. last_value <= last_value' /\ (StableHost => last_value' <= tsc)
    BY <1>0, <2>0 DEF CpuInv, AnswerInv, SeenInv, Accepting
  <2>3. CpuInv(c)'
    BY <1>0, <2>0, <2>2
    DEF CpuInv, PageInv, SnapInv, AnswerInv, ClockInv, Values, Pages, Accepting, SeenInv, Served
  <2> QED
    BY <1>0, <2>1, <2>2, <2>3, ReadFrame
<1> QED
  BY <1>1, <1>2, <1>3, <1>4

\* Every step of a read keeps the invariant.
LEMMA ReadStepInv ==
  ASSUME ClockInv, NEW c \in Cpus, ReadStep(c) PROVE ClockInv'
  BY SnapshotStep, AnswerStep DEF ReadStep

\* The invariant holds before any page is registered.
LEMMA ClockInitInv == ClockInit => ClockInv
<1> SUFFICES ASSUME ClockInit PROVE ClockInv
  OBVIOUS
<1>1. Values
  BY DEF ClockInit, Values, Pages, ZeroPage, FlagSets, ReadLabels
<1>2. SeenInv
  BY DEF ClockInit, SeenInv
<1>3. ASSUME NEW c \in Cpus PROVE CpuInv(c)
  BY DEF ClockInit, CpuInv, PageInv, SnapInv, AnswerInv, ZeroPage, IsOdd, Accepting
<1> QED
  BY <1>1, <1>2, <1>3 DEF ClockInv

\* The operations of the clock in any order a driver may use them: a vCPU reads
\* once its kvm_clock_init has run, and only a registered page is cleared.
ClockMove ==
  \/ Tick
  \/ \E f \in FlagSets : pvclock_set_flags(f)
  \/ \E c \in Cpus :
       \/ HostUpdate(c)
       \/ kvm_clock_init(c)
       \/ msr[c] = "on" /\ kvm_clock_clear(c)
       \/ msr[c] # "unset" /\ Call(c)
       \/ ReadStep(c) \/ Return(c)

\* The next-state relation chooses among all the moves.
LEMMA NextMoves == [ClockNext]_clockVars => [ClockMove]_clockVars
<1>1. FlagChoices \subseteq FlagSets
  BY PvClockAssumption DEF FlagSets
<1> QED
  BY <1>1 DEF ClockNext, ClockMove

\* Every move keeps the invariant.
LEMMA MoveInv == ClockInv /\ [ClockMove]_clockVars => ClockInv'
<1> SUFFICES ASSUME ClockInv, [ClockMove]_clockVars PROVE ClockInv'
  OBVIOUS
<1>1. CASE UNCHANGED clockVars
  <2>1. Values'
    BY <1>1 DEF ClockInv, Values, clockVars, pageVars, sharedVars, localVars, histVars
  <2>2. ASSUME NEW d \in Cpus PROVE CpuInv(d)'
    BY <1>1, <2>1, Frame
    DEF ClockInv, Values, clockVars, pageVars, sharedVars, localVars, histVars
  <2> QED
    BY <1>1, <2>1, <2>2
    DEF ClockInv, SeenInv, clockVars, pageVars, sharedVars, localVars, histVars
<1>2. CASE ClockMove
  BY <1>2, TickStep, SetFlagsStep, HostStep, InitStep, ClearStep, CallStep,
     ReadStepInv, ReturnStep
  DEF ClockMove
<1> QED
  BY <1>1, <1>2

\* Every step keeps the invariant.
LEMMA ClockNextInv == ClockInv /\ [ClockNext]_clockVars => ClockInv'
  BY NextMoves, MoveInv

\* What each local variable of pvclock_clocksource_read means at each access, and how
\* last_value, the pages and the answers bound one another, on every host.
THEOREM ClockInvariant == ClockSafety => []ClockInv
<1>1. ClockInit => ClockInv
  BY ClockInitInv
<1>2. ClockInv /\ [ClockNext]_clockVars => ClockInv'
  BY ClockNextInv
<1> QED
  BY <1>1, <1>2, PTL DEF ClockSafety

\* Types: in particular no cycle count that pvclock_clocksource_read accepts
\* ever wrapped below zero.
THEOREM TypeCorrect == ClockSafety => []ClockTypeOK
<1>1. ClockInv => ClockTypeOK
  BY DEF ClockInv, ClockTypeOK, CpuInv, AnswerInv
<1> QED
  BY <1>1, ClockInvariant, PTL

\* kvmclock_test.c's "Monotonic cycle test" never fails because of the reader:
\* on a host that serves all vCPUs, a read that is called after
\* another returned answers at least as much.
THEOREM MonotonicClock == ASSUME HostServesAll PROVE ClockSafety => []Monotonic
<1>1. ClockInv => Monotonic
  BY PvClockAssumption
  DEF HostServesAll, Served, ClockInv, Values, Monotonic, CpuInv, AnswerInv
<1> QED
  BY <1>1, ClockInvariant, PTL

\* The retry loop accepts no torn page, whatever the host does meanwhile.
THEOREM SnapshotsConsistent == ClockSafety => SnapshotConsistent
<1>1. ASSUME ClockInv, [ClockNext]_clockVars, NEW c \in Cpus,
             rpc[c] = "same", rpc'[c] = "stable"
      PROVE  /\ hostpc[c] = "rest" /\ flags[c] = hv_clock[c].flags
             /\ \E t \in 0 .. tsc : ret[c] = TimeAt(hv_clock[c], t)
  <2>1. version[c] = hv_clock[c].version
    <3>1. rpc \in [Cpus -> ReadLabels]
      BY <1>1 DEF ClockInv, Values
    <3>2. PICK d \in Cpus : CheckSame(d) /\ d = c
      <4>1. \E d \in Cpus : rpc'[d] # rpc[d] /\ (ReadStep(d) \/ Call(d) \/ Return(d))
            /\ \A e \in Cpus \ {d} : rpc'[e] = rpc[e]
        BY <1>1, <3>1
        DEF ClockNext, clockVars, Tick, pvclock_set_flags, HostUpdate, kvm_clock_init,
            kvm_clock_clear, Call, ReadStep, ReadVersion, ReadTsc, ReadDelta, ReadTime,
            CheckOdd, CheckSame, ReturnStable, PassStable, LoadLast, Cmpxchg, Return,
            Goto, Finish, pageVars, sharedVars, localVars, histVars
      <4> QED
        BY <1>1, <3>1, <4>1
        DEF ReadStep, Call, ReadVersion, ReadTsc, ReadDelta, ReadTime, CheckOdd,
            CheckSame, ReturnStable, PassStable, LoadLast, Cmpxchg, Return, Goto, Finish
    <3> QED
      BY <1>1, <3>1, <3>2 DEF CheckSame, Goto
  <2>2. Fresh(c) /\ SnapInv(c)
    BY <1>1, <2>1 DEF ClockInv, CpuInv, SnapInv, Fresh
  <2>3. PICK t \in Instants(c) : ret[c] = TimeAt(hv_clock[c], t)
    BY <1>1, <2>2 DEF SnapInv
  <2> QED
    BY <1>1, <2>2, <2>3 DEF SnapInv, Fresh, Instants
<1>2. ClockInv /\ [ClockNext]_clockVars => [\A c \in Cpus : AcceptsSnapshot(c)]_clockVars
  BY <1>1 DEF AcceptsSnapshot
<1> QED
  BY <1>2, ClockInvariant, PTL DEF ClockSafety, SnapshotConsistent

\* Without the stable-TSC shortcut every operation of the clock is a step of the
\* one forward clock, or changes nothing of it.
LEMMA MonoMove ==
  ASSUME ~StableHost, ClockInv, ClockInv', [ClockMove]_clockVars
  PROVE  [Mono!Next]_Mono!monoVars
<1>0. rpc \in [Cpus -> ReadLabels] /\ ret \in [Cpus -> Int] /\ last_value \in Nat
      /\ last_value' \in Nat
  BY DEF ClockInv, Values
<1>1. ASSUME UNCHANGED <<rpc, ret, last_value>> PROVE UNCHANGED Mono!monoVars
  BY <1>1 DEF Mono!monoVars
<1>2. CASE UNCHANGED clockVars \/ Tick \/ \E f \in FlagSets : pvclock_set_flags(f)
  BY <1>1, <1>2 DEF clockVars, Tick, pvclock_set_flags, pageVars, sharedVars, localVars
<1>3. ASSUME NEW c \in Cpus, HostUpdate(c) \/ kvm_clock_init(c) \/ kvm_clock_clear(c)
      PROVE  UNCHANGED Mono!monoVars
  BY <1>1, <1>3
  DEF HostUpdate, kvm_clock_init, kvm_clock_clear, sharedVars, localVars
<1>4. ASSUME NEW c \in Cpus, Call(c) PROVE Mono!Invoke(c)
  BY <1>0, <1>4 DEF Call, Goto, sharedVars, Mono!Invoke
<1>5. ASSUME NEW c \in Cpus, Return(c) PROVE Mono!Return(c)
  BY <1>0, <1>5 DEF Return, Goto, sharedVars, Mono!Return
<1>6. ASSUME NEW c \in Cpus, ReadStep(c) 
      PROVE  Mono!Answer(c) \/ Mono!Advance \/ UNCHANGED Mono!monoVars
  <2>0. CpuInv(c) /\ ret[c] \in Int /\ flags[c] = {} /\ last_value <= last_value'
    BY <1>6, AnswerStep
    DEF ReadStep, ClockInv, Values, CpuInv, SnapInv, ReadVersion, ReadTsc, ReadDelta,
        ReadTime, CheckOdd, CheckSame
  <2>1. ASSUME rpc[c] \notin {"idle", "done"}, last_value' = last_value,
               NEW l \in ReadLabels \ {"idle", "done"},
               rpc' = [rpc EXCEPT ![c] = l],
               \A d \in Cpus \ {c} : ret'[d] = ret[d]
        PROVE  UNCHANGED Mono!monoVars
    <3>1. \A d \in Cpus : /\ rpc'[d] = "idle" <=> rpc[d] = "idle"
                          /\ rpc'[d] = "done" <=> rpc[d] = "done"
                          /\ rpc[d] = "done" => ret'[d] = ret[d]
      BY <1>0, <2>1
    <3> QED
      BY <2>1, <3>1 DEF Mono!monoVars
  <2>2. ASSUME rpc[c] \notin {"idle", "done"}, last_value' = last_value,
               Finish(c, last_value)
        PROVE  Mono!Answer(c)
    BY <1>0, <2>2 DEF Mono!Answer, Finish, Goto
  <2>3. CASE \/ ReadVersion(c) \/ ReadTsc(c) \/ ReadDelta(c) \/ ReadTime(c)
             \/ CheckOdd(c) \/ CheckSame(c) \/ PassStable(c)
    BY <1>0, <2>1, <2>3
    DEF ReadVersion, ReadTsc, ReadDelta, ReadTime, CheckOdd, CheckSame, PassStable,
        Goto, ReadLabels
  <2>4. CASE ReturnStable(c)
    BY <2>0, <2>4 DEF ReturnStable
  <2>5. CASE LoadLast(c)
    BY <1>0, <2>1, <2>2, <2>5 DEF LoadLast, Goto, ReadLabels
  <2>6. CASE Cmpxchg(c) /\ ret[c] <= last_value
    <3>1. last_value' = last_value
      BY <1>0, <2>0, <2>6 DEF Cmpxchg, CpuInv, AnswerInv
    <3> QED
      BY <2>2, <2>6, <3>1 DEF Cmpxchg
  <2>7. CASE Cmpxchg(c) /\ ~(ret[c] <= last_value)
    BY <1>0, <2>0, <2>7 DEF Cmpxchg, Mono!Advance
  <2> QED
    BY <1>6, <2>3, <2>4, <2>5, <2>6, <2>7 DEF ReadStep
<1> QED
  BY <1>2, <1>3, <1>4, <1>5, <1>6 DEF ClockMove, Mono!Next

\* Without the stable-TSC shortcut the readers together are one clock that
\* only moves forward, and each answer is what it showed during the call.
THEOREM Linearizable ==
  ASSUME ~StableHost PROVE ClockSafety => ImplementsMonoClock
<1>1. ClockInit => Mono!Init
  BY DEF ClockInit, Mono!Init
<1>2. ClockInv /\ ClockInv' /\ [ClockNext]_clockVars => [Mono!Next]_Mono!monoVars
  BY NextMoves, MonoMove
<1> QED
  BY <1>1, <1>2, ClockInvariant, PTL DEF ClockSafety, ImplementsMonoClock, Mono!Spec

=============================================================================
