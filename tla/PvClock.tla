------------------------------ MODULE PvClock ------------------------------
(***************************************************************************)
(* The paravirtual clock of pcm-unit/driver/kvmclock_test.c: the reader    *)
(* pvclock_clocksource_read, run by any number of vCPUs at once against    *)
(* the per-vCPU pages hv_clock[] that the host rewrites under a version    *)
(* number, and the accumulator last_value that the readers advance with    *)
(* compare-and-exchange.                                                   *)
(*                                                                         *)
(* Every shared access of the reader is one step.  The host is external:   *)
(* it makes the version odd, writes the two halves of the page, and makes  *)
(* the version even again, which is the protocol the reader's retry loop   *)
(* is written for.                                                         *)
(***************************************************************************)
EXTENDS Integers

CONSTANTS
  Cpus,        \* the vCPUs that read the clock
  Accepted,    \* those whose page address the host accepts
  StableHost,  \* TRUE iff the host publishes PVCLOCK_TSC_STABLE_BIT
  FlagChoices, \* the flag bytes passed to pvclock_set_flags
  MaxTsc,      \* bound: the time stamp counter stops here
  MaxVersion,  \* bound: no page is rewritten past this version
  MaxTime      \* bound: system times an unstable host may publish

STABLE == "PVCLOCK_TSC_STABLE_BIT"
RAW    == "PVCLOCK_RAW_CYCLE_BIT"

\* test_kvm_clock passes nothing but these two flag bytes to
\* pvclock_set_flags; valid_flags starts as 0.
ASSUME PvClockAssumption ==
  /\ StableHost \in BOOLEAN
  /\ Accepted \subseteq Cpus
  /\ FlagChoices \subseteq {{STABLE}, {STABLE, RAW}}
  /\ MaxTsc \in Nat
  /\ MaxVersion \in Nat
  /\ MaxTime \in Nat

\* A host with a stable counter fills the page of every vCPU.
HostServesAll == StableHost => Accepted = Cpus

FlagSets == {{}, {STABLE}, {STABLE, RAW}}

VARIABLES
  hv_clock,    \* the page of each vCPU, shared with the host
  hostpc,      \* where the host is in rewriting that page
  msr,         \* MSR_KVM_SYSTEM_TIME_NEW of each vCPU: unset, on or off
  tsc,         \* the time stamp counter
  valid_flags, \* the flags the reader honours
  last_value,  \* the global accumulator
  rpc,         \* where the vCPU is in pvclock_clocksource_read
  version,     \* its local variables ...
  ret,         \* (once it is done, the value it returns)
  flags,
  last,
  seen,        \* history: the largest value returned so far
  floor        \* history: what seen was when the read was called

pageVars   == <<hv_clock, hostpc, msr, tsc>>
sharedVars == <<valid_flags, last_value>>
localVars  == <<rpc, version, ret, flags, last>>
histVars   == <<seen, floor>>
clockVars  == <<pageVars, sharedVars, localVars, histVars>>

ZeroPage == [version |-> 0, tsc_timestamp |-> 0, mul |-> 0,
             system_time |-> 0, flags |-> {}]

IsOdd(n) == n % 2 = 1
Larger(a, b) == IF a >= b THEN a ELSE b

ClockInit ==
  /\ hv_clock    = [c \in Cpus |-> ZeroPage]
  /\ hostpc      = [c \in Cpus |-> "rest"]
  /\ msr         = [c \in Cpus |-> "unset"]
  /\ tsc         = 0
  /\ valid_flags = {}
  /\ last_value  = 0
  /\ rpc         = [c \in Cpus |-> "idle"]
  /\ version     = [c \in Cpus |-> 0]
  /\ ret         = [c \in Cpus |-> 0]
  /\ flags       = [c \in Cpus |-> {}]
  /\ last        = [c \in Cpus |-> 0]
  /\ seen        = 0
  /\ floor       = [c \in Cpus |-> 0]

(***************************************************************************)
(* The host and the hardware.                                              *)
(***************************************************************************)
Tick ==
  /\ tsc < MaxTsc
  /\ tsc' = tsc + 1
  /\ UNCHANGED <<hv_clock, hostpc, msr, sharedVars, localVars, histVars>>

\* A stable host publishes one line for all vCPUs (here: time = tsc); any
\* other may publish any time, ahead of or behind what it told the others.
TimesAt(stamp) == IF StableHost THEN {stamp} ELSE 0 .. MaxTime
HostFlags == IF StableHost THEN {STABLE} ELSE {}
Published(v, stamp, t) == [version |-> v, tsc_timestamp |-> stamp, mul |-> 1,
                           system_time |-> t, flags |-> HostFlags]

HostBegin(c) ==
  /\ hostpc[c] = "rest"
  /\ msr[c] = "on" /\ c \in Accepted
  /\ hv_clock[c].version + 2 <= MaxVersion
  /\ hv_clock' = [hv_clock EXCEPT ![c].version = @ + 1]
  /\ hostpc'   = [hostpc EXCEPT ![c] = "stamp"]

HostStamp(c) ==
  /\ hostpc[c] = "stamp"
  /\ hv_clock' = [hv_clock EXCEPT ![c].tsc_timestamp = tsc, ![c].mul = 1]
  /\ hostpc'   = [hostpc EXCEPT ![c] = "time"]

HostTime(c) ==
  /\ hostpc[c] = "time"
  /\ \E t \in TimesAt(hv_clock[c].tsc_timestamp) :
       hv_clock' = [hv_clock EXCEPT ![c].system_time = t, ![c].flags = HostFlags]
  /\ hostpc' = [hostpc EXCEPT ![c] = "end"]

HostEnd(c) ==
  /\ hostpc[c] = "end"
  /\ hv_clock' = [hv_clock EXCEPT ![c].version = @ + 1]
  /\ hostpc'   = [hostpc EXCEPT ![c] = "rest"]

HostUpdate(c) ==
  /\ HostBegin(c) \/ HostStamp(c) \/ HostTime(c) \/ HostEnd(c)
  /\ UNCHANGED <<msr, tsc, sharedVars, localVars, histVars>>

(***************************************************************************)
(* Registering and clearing the page, and choosing the flags.  The result  *)
(* of wrmsrl_safe is not looked at: where the host does not accept the     *)
(* address the page stays as it is.  Where it does, it fills the page      *)
(* before the vCPU runs on.  Both run on vCPU c, so not inside its read.   *)
(***************************************************************************)
kvm_clock_init(c) ==
  /\ rpc[c] = "idle" /\ hostpc[c] = "rest"
  /\ msr' = [msr EXCEPT ![c] = "on"]
  /\ \/ /\ c \in Accepted
        /\ \E t \in TimesAt(tsc) :
             hv_clock' = [hv_clock EXCEPT ![c] = Published(@.version + 2, tsc, t)]
     \/ c \notin Accepted /\ UNCHANGED hv_clock
  /\ UNCHANGED <<hostpc, tsc, sharedVars, localVars, histVars>>

kvm_clock_clear(c) ==
  /\ rpc[c] = "idle"
  /\ msr' = [msr EXCEPT ![c] = "off"]
  /\ UNCHANGED <<hv_clock, hostpc, tsc, sharedVars, localVars, histVars>>

pvclock_set_flags(f) ==
  /\ valid_flags' = f
  /\ UNCHANGED <<pageVars, last_value, localVars, histVars>>

(***************************************************************************)
(* pvclock_clocksource_read on vCPU c.                                     *)
(***************************************************************************)
Goto(c, l) == rpc' = [rpc EXCEPT ![c] = l]

\* return v: from here on ret is the answer, and the other locals are gone.
Finish(c, v) ==
  /\ Goto(c, "done")
  /\ ret'     = [ret EXCEPT ![c] = v]
  /\ version' = [version EXCEPT ![c] = 0]
  /\ flags'   = [flags EXCEPT ![c] = {}]
  /\ last'    = [last EXCEPT ![c] = 0]

Call(c) ==
  /\ rpc[c] = "idle"
  /\ Goto(c, "version")
  /\ floor' = [floor EXCEPT ![c] = seen]
  /\ UNCHANGED <<pageVars, sharedVars, version, ret, flags, last, seen>>

\* __pvclock_read_cycles: the version, the counter, the scaled time since
\* the stamp, then the system time and the flags of the page.
ReadVersion(c) ==
  /\ rpc[c] = "version"
  /\ version' = [version EXCEPT ![c] = hv_clock[c].version]
  /\ Goto(c, "tsc")
  /\ UNCHANGED <<ret, flags, last, last_value>>

ReadTsc(c) ==
  /\ rpc[c] = "tsc"
  /\ ret' = [ret EXCEPT ![c] = tsc]
  /\ Goto(c, "delta")
  /\ UNCHANGED <<version, flags, last, last_value>>

ReadDelta(c) ==
  /\ rpc[c] = "delta"
  /\ ret' = [ret EXCEPT ![c] = IF hv_clock[c].mul = 0 THEN 0
                               ELSE @ - hv_clock[c].tsc_timestamp]
  /\ Goto(c, "time")
  /\ UNCHANGED <<version, flags, last, last_value>>

ReadTime(c) ==
  /\ rpc[c] = "time"
  /\ ret'   = [ret EXCEPT ![c] = @ + hv_clock[c].system_time]
  /\ flags' = [flags EXCEPT ![c] = hv_clock[c].flags]
  /\ Goto(c, "odd")
  /\ UNCHANGED <<version, last, last_value>>

\* Mutant of CheckOdd: the loop does not look for a host in mid-update.
CheckOddSkipped(c) ==
  /\ rpc[c] = "odd"
  /\ Goto(c, "same")
  /\ UNCHANGED <<version, ret, flags, last, last_value>>

\* while ((src->version & 1) || version != src->version): two loads.
CheckOdd(c) ==
  /\ rpc[c] = "odd"
  /\ Goto(c, IF IsOdd(hv_clock[c].version) THEN "version" ELSE "same")
  /\ UNCHANGED <<version, ret, flags, last, last_value>>

\* Mutant of CheckSame: a page that was rewritten meanwhile is accepted.
CheckSameSkipped(c) ==
  /\ rpc[c] = "same"
  /\ Goto(c, "stable")
  /\ UNCHANGED <<version, ret, flags, last, last_value>>

\* Mutant of CheckSame: the retry looks again, but loads no new version.
CheckSameAgain(c) ==
  /\ rpc[c] = "same"
  /\ Goto(c, IF version[c] # hv_clock[c].version THEN "odd" ELSE "stable")
  /\ UNCHANGED <<version, ret, flags, last, last_value>>

CheckSame(c) ==
  /\ rpc[c] = "same"
  /\ Goto(c, IF version[c] # hv_clock[c].version THEN "version" ELSE "stable")
  /\ UNCHANGED <<version, ret, flags, last, last_value>>

\* Both sides claim a stable TSC: the raw cycles are returned as they are.
ReturnStable(c) ==
  /\ rpc[c] = "stable"
  /\ STABLE \in valid_flags /\ STABLE \in flags[c]
  /\ Finish(c, ret[c])
  /\ UNCHANGED last_value

PassStable(c) ==
  /\ rpc[c] = "stable"
  /\ ~(STABLE \in valid_flags /\ STABLE \in flags[c])
  /\ Goto(c, "load")
  /\ UNCHANGED <<version, ret, flags, last, last_value>>

\* Otherwise last_value is loaded, and returned if it is ahead of ret.
LoadLast(c) ==
  /\ rpc[c] = "load"
  /\ IF ret[c] < last_value
       THEN Finish(c, last_value)
       ELSE /\ Goto(c, "cmpxchg")
            /\ last' = [last EXCEPT ![c] = last_value]
            /\ UNCHANGED <<version, ret, flags>>
  /\ UNCHANGED last_value

\* Mutant of Cmpxchg: a plain store, as if nobody else could have advanced it.
BlindStore(c) ==
  /\ rpc[c] = "cmpxchg"
  /\ last_value' = ret[c]
  /\ Finish(c, ret[c])

\* Mutant of Cmpxchg: the loop is left only by the vCPU that succeeds.
CmpxchgStale(c) ==
  /\ rpc[c] = "cmpxchg"
  /\ last_value' = IF last_value = last[c] THEN ret[c] ELSE last_value
  /\ IF last_value = last[c]
       THEN Finish(c, ret[c])
       ELSE UNCHANGED <<rpc, version, ret, flags, last>>

\* One turn of the loop: cmpxchg answers what last_value held, whether or
\* not it was replaced, and the loop ends only when that is ret, or larger.
Cmpxchg(c) ==
  /\ rpc[c] = "cmpxchg"
  /\ last_value' = IF last_value = last[c] THEN ret[c] ELSE last_value
  /\ IF ret[c] <= last_value
       THEN Finish(c, last_value)
       ELSE /\ last' = [last EXCEPT ![c] = last_value]
            /\ UNCHANGED <<rpc, version, ret, flags>>

ReadStep(c) ==
  /\ \/ ReadVersion(c) \/ ReadTsc(c) \/ ReadDelta(c) \/ ReadTime(c)
     \/ CheckOdd(c) \/ CheckSame(c) \/ ReturnStable(c) \/ PassStable(c)
     \/ LoadLast(c) \/ Cmpxchg(c)
  /\ UNCHANGED <<pageVars, valid_flags, histVars>>

Return(c) ==
  /\ rpc[c] = "done"
  /\ Goto(c, "idle")
  /\ seen'  = Larger(seen, ret[c])
  /\ ret'   = [ret EXCEPT ![c] = 0]
  /\ floor' = [floor EXCEPT ![c] = 0]
  /\ UNCHANGED <<pageVars, sharedVars, version, flags, last>>

-----------------------------------------------------------------------------
(***************************************************************************)
(* The clock under every use of it: any vCPU may read at any time once its *)
(* kvm_clock_init has run (test_kvm_clock runs it on all of them first),   *)
(* the flags may change under a reader, pages come and go.                 *)
(***************************************************************************)
ClockNext ==
  \/ Tick
  \/ \E f \in FlagChoices : pvclock_set_flags(f)
  \/ \E c \in Cpus :
       \/ HostUpdate(c)
       \/ /\ msr[c] # "on" /\ hv_clock[c].version + 2 <= MaxVersion
          /\ kvm_clock_init(c)
       \/ msr[c] = "on" /\ kvm_clock_clear(c)
       \/ msr[c] # "unset" /\ Call(c)
       \/ ReadStep(c) \/ Return(c)

\* A vCPU inside a read keeps running (the driver reads with interrupts off
\* or in an IPI handler), and a host that made a version odd finishes.
ClockFairness ==
  \A c \in Cpus : /\ WF_clockVars(ReadStep(c))
                  /\ WF_clockVars(HostUpdate(c) /\ hostpc[c] # "rest")

ClockSafety == ClockInit /\ [][ClockNext]_clockVars
ClockSpec   == ClockSafety /\ ClockFairness

-----------------------------------------------------------------------------
Pages == [version : Nat, tsc_timestamp : Nat, mul : {0, 1},
          system_time : Nat, flags : {{}, {STABLE}}]

ReadLabels == {"idle", "version", "tsc", "delta", "time", "odd", "same", "stable",
               "load", "cmpxchg", "done"}

Accepting == {"stable", "load", "cmpxchg", "done"}

Values ==
  /\ hv_clock    \in [Cpus -> Pages]
  /\ hostpc      \in [Cpus -> {"rest", "stamp", "time", "end"}]
  /\ msr         \in [Cpus -> {"unset", "on", "off"}]
  /\ tsc         \in Nat
  /\ valid_flags \in FlagSets
  /\ last_value  \in Nat
  /\ rpc         \in [Cpus -> ReadLabels]
  /\ version     \in [Cpus -> Nat]
  /\ ret         \in [Cpus -> Int]
  /\ flags       \in [Cpus -> {{}, {STABLE}}]
  /\ last        \in [Cpus -> Nat]
  /\ seen        \in Nat
  /\ floor       \in [Cpus -> Nat]

\* Every variable holds a value of its C type.  On a torn page the unsigned
\* ret wraps below zero; what the retry loop of pvclock_clocksource_read lets
\* through never did.
ClockTypeOK ==
  /\ Values
  /\ \A c \in Cpus : rpc[c] \in Accepting => ret[c] >= 0

\* What a page says the time is while the counter stands at t.
TimeAt(p, t) == p.system_time + (IF p.mul = 0 THEN 0 ELSE t - p.tsc_timestamp)

AcceptsSnapshot(c) ==
  (rpc[c] = "same" /\ rpc'[c] = "stable") =>
    /\ hostpc[c] = "rest"
    /\ flags[c] = hv_clock[c].flags
    /\ \E t \in 0 .. tsc : ret[c] = TimeAt(hv_clock[c], t)

\* The retry loop of pvclock_clocksource_read never lets a torn page through:
\* the cycles it accepts are those of the page as it stands at the moment of
\* acceptance, at some counter value not in the future, with that page's
\* flags, and the host is not rewriting the page.
SnapshotConsistent == [][\A c \in Cpus : AcceptsSnapshot(c)]_clockVars

\* The clock never runs backwards across vCPUs: a read called after another
\* read returned, on any vCPU, answers at least as much (kvmclock_test.c's
\* "Monotonic cycle test"), however far apart the pages of the vCPUs are and
\* whatever the flags are set to meanwhile.
Monotonic ==
  \A c \in Cpus : rpc[c] = "done" => ret[c] >= floor[c]

\* pvclock_clocksource_read without the stable shortcut implements one clock
\* that moves forward only: last_value is that clock, and every answer is what
\* it showed at an instant within the call.
Mono == INSTANCE MonoClock WITH
  clock  <- last_value,
  state  <- [c \in Cpus |-> CASE rpc[c] = "idle" -> "idle"
                              [] rpc[c] = "done" -> "answered"
                              [] OTHER -> "reading"],
  answer <- [c \in Cpus |-> IF rpc[c] = "done" THEN ret[c] ELSE 0]

ImplementsMonoClock == Mono!Spec

\* Neither the retry loop nor the compare-and-exchange loop spins for ever:
\* every read that is called is answered.
ReadTerminates ==
  \A c \in Cpus : rpc[c] # "idle" ~> rpc[c] = "done"

=============================================================================
