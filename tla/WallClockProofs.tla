-------------------------- MODULE WallClockProofs --------------------------
(***************************************************************************)
(* Proofs about WallClock for every number of vCPUs, every length of a     *)
(* second and all bounds: types, the time that wallclock_test takes, and   *)
(* that successive vCPUs print times that do not go backwards.             *)
(***************************************************************************)
EXTENDS WallClock, TLAPS

\* The local version is still that of the page, and nobody is rewriting it.
Fresh == version = wall_clock.version /\ hostpc = "rest"

\* The least time that the page can show once the host is done with it.
Least == IF hostpc = "later" THEN wall_clock.sec * NSEC_PER_SEC ELSE Ns(OnPage)

\* Odd while the host writes; what is on the page at rest has been offered.
PageInv ==
  /\ wall_clock.version % 2 = 1 <=> hostpc # "rest"
  /\ version <= wall_clock.version
  /\ pc # "wrmsr" /\ hostpc = "rest" => OnPage \in offered

\* What the reader has learnt, as long as its snapshot is fresh.
SnapInv ==
  /\ pc = "nsec" /\ Fresh => now.tv_sec = wall_clock.sec
  /\ pc \in {"odd", "same"} /\ Fresh => now = OnPage
  /\ pc = "same" /\ version = wall_clock.version => hostpc = "rest"
  /\ pc = "clock" => now \in offered

\* One vCPU at a time reads the clock, and only for ts or for what it prints.
CallInv ==
  /\ pc # "wrmsr" => i < ncpus
  /\ \A c \in Cpus : state[c] # "idle" => c = i /\ pc \in {"clock", "print"}
  /\ pc = "clock" /\ state[i] # "idle" => since <= clock
  /\ pc = "clock" /\ state[i] = "answered" => since <= answer[i] /\ answer[i] <= clock

\* While the host has not stepped its boot time back: all that it offered is
\* no later than the page, and what was printed is no later than any time that
\* can be read from now on.
ForwardInv ==
  ~stepped =>
    /\ printed <= Least + clock
    /\ \A b \in offered : Ns(b) <= Least /\ printed <= Ns(b) + clock
    /\ pc = "clock" /\ state[i] # "idle" =>
         printed <= Least + since /\ \A b \in offered : printed <= Ns(b) + since
    /\ pc = "print" => printed <= Ns(ts) /\ Ns(ts) <= Least + clock

WallInv ==
  /\ WallTypeOK /\ PageInv /\ SnapInv /\ CallInv
  /\ TimePublished /\ ForwardInv
-----------------------------------------------------------------------------
(***************************************************************************)
(* Seconds and nanoseconds.                                                *)
(***************************************************************************)
LEMMA Products ==
  ASSUME NEW a \in Nat, NEW b \in Nat
  PROVE  /\ a * NSEC_PER_SEC \in Nat
         /\ a < b => (a + 1) * NSEC_PER_SEC <= b * NSEC_PER_SEC
         /\ (a + 1) * NSEC_PER_SEC = a * NSEC_PER_SEC + NSEC_PER_SEC
<1>1. NSEC_PER_SEC \in Nat
  BY WallAssumption
<1>2. a * NSEC_PER_SEC \in Nat
  BY <1>1
<1>3. (a + 1) * NSEC_PER_SEC = a * NSEC_PER_SEC + NSEC_PER_SEC
  BY <1>1
<1>4. ASSUME a < b PROVE (a + 1) * NSEC_PER_SEC <= b * NSEC_PER_SEC
  <2>1. PICK d \in Nat : b = a + 1 + d
    <3>1. b - (a + 1) \in Nat /\ b = a + 1 + (b - (a + 1))
      BY <1>4
    <3> QED
      BY <3>1
  <2>2. b * NSEC_PER_SEC = (a + 1) * NSEC_PER_SEC + d * NSEC_PER_SEC
    BY <1>1, <2>1
  <2>3. d * NSEC_PER_SEC \in Nat /\ (a + 1) * NSEC_PER_SEC \in Nat
    BY <1>1
  <2> QED
    BY <2>2, <2>3
<1> QED
  BY <1>2, <1>3, <1>4

\* A bound that held earlier holds later.
LEMMA Later ==
  \A m, n, t, u \in Nat : u <= m + t /\ m <= n => u <= n + t
  OBVIOUS

\* A time in nanoseconds is a number.
LEMMA NsType ==
  ASSUME NEW t, t.tv_sec \in Nat, t.tv_nsec \in Nat PROVE Ns(t) \in Nat
<1>1. t.tv_sec * NSEC_PER_SEC \in Nat
  BY Products
<1> QED
  BY <1>1 DEF Ns

\* do_div leaves nothing to normalise, and loses nothing.
LEMMA NormaliseExact ==
  ASSUME NEW d \in Nat
  PROVE  /\ Normalise(d) \in [tv_sec : Nat, tv_nsec : 0 .. NSEC_PER_SEC - 1]
         /\ Ns(Normalise(d)) = d
<1>1. NSEC_PER_SEC \in Nat /\ NSEC_PER_SEC > 0
  BY WallAssumption
<1>2. d % NSEC_PER_SEC \in 0 .. NSEC_PER_SEC - 1 /\ d \div NSEC_PER_SEC \in Nat
  BY <1>1
<1>3. (d \div NSEC_PER_SEC) * NSEC_PER_SEC + (d % NSEC_PER_SEC) = d
  BY <1>1
<1> QED
  BY <1>2, <1>3 DEF Normalise, Ns

-----------------------------------------------------------------------------
(***************************************************************************)
(* The host.                                                               *)
(***************************************************************************)
Pages == [version : Nat, sec : 0 .. MaxSec, nsec : 0 .. NSEC_PER_SEC - 1]

\* The fields of the page are numbers.
LEMMA PageTypes ==
  ASSUME WallTypeOK
  PROVE  /\ wall_clock \in Pages /\ wall_clock.version \in Nat
         /\ wall_clock.sec \in 0 .. MaxSec /\ wall_clock.nsec \in 0 .. NSEC_PER_SEC - 1
         /\ OnPage \in Times
         /\ Ns(OnPage) = wall_clock.sec * NSEC_PER_SEC + wall_clock.nsec
         /\ Ns(OnPage) \in Nat /\ wall_clock.sec * NSEC_PER_SEC \in Nat
         /\ Least \in Nat /\ Least <= Ns(OnPage)
         /\ NSEC_PER_SEC \in Nat /\ NSEC_PER_SEC > 0 /\ MaxSec \in Nat /\ ncpus \in Nat
<1>1. NSEC_PER_SEC \in Nat /\ NSEC_PER_SEC > 0 /\ MaxSec \in Nat /\ ncpus \in Nat
  BY WallAssumption
<1>2. /\ wall_clock \in Pages /\ wall_clock.version \in Nat
      /\ wall_clock.sec \in 0 .. MaxSec /\ wall_clock.nsec \in 0 .. NSEC_PER_SEC - 1
  BY DEF WallTypeOK, Pages
<1>3. wall_clock.sec \in Nat /\ wall_clock.nsec \in Nat
  BY <1>1, <1>2
<1>4. wall_clock.sec * NSEC_PER_SEC \in Nat
  BY <1>3, Products
<1>5. OnPage \in Times /\ Ns(OnPage) = wall_clock.sec * NSEC_PER_SEC + wall_clock.nsec
  BY <1>2 DEF OnPage, Times, Ns
<1> QED
  BY <1>1, <1>2, <1>3, <1>4, <1>5 DEF Least

\* The least time the page can show is a number.
LEMMA LeastType ==
  ASSUME WallTypeOK' PROVE Least' \in Nat
<1>1. wall_clock'.sec \in Nat /\ wall_clock'.nsec \in Nat
  BY WallAssumption DEF WallTypeOK
<1>2. wall_clock'.sec * NSEC_PER_SEC \in Nat
  BY <1>1, Products
<1> QED
  BY <1>1, <1>2 DEF Least, OnPage, Ns

\* What is offered is on the page from when the host is done, unless it steps
\* its boot time back: the least time the page can show never decreases.
LEMMA LeastGrows ==
  ASSUME WallInv, WallTypeOK', HostStep, ~stepped'
  PROVE  Least <= Least' /\ ~stepped
<1>1. CASE HostBegin
  <2>1. wall_clock'.sec = wall_clock.sec /\ wall_clock'.nsec = wall_clock.nsec
    BY <1>1, PageTypes DEF HostBegin, WallInv, Pages
  <2> QED
    BY <1>1, <2>1, PageTypes DEF HostBegin, WallInv, Least, OnPage
<1>2. CASE HostSec
  <2>1. PICK s \in 0 .. MaxSec :
          /\ wall_clock' = [wall_clock EXCEPT !.sec = s]
          /\ stepped' = (stepped \/ s < wall_clock.sec)
          /\ hostpc' = IF s > wall_clock.sec THEN "later" ELSE "nsec"
    BY <1>2 DEF HostSec
  <2>2. wall_clock'.sec = s /\ wall_clock'.nsec = wall_clock.nsec /\ hostpc = "sec"
    BY <1>2, <2>1, PageTypes DEF HostSec, WallInv, Pages
  <2>3. ~stepped /\ ~(s < wall_clock.sec) /\ s \in Nat /\ wall_clock.sec \in Nat
    <3>1. ~(stepped \/ s < wall_clock.sec)
      BY <2>1, Zenon
    <3>2. s \in Nat /\ wall_clock.sec \in Nat
      BY PageTypes DEF WallInv
    <3> QED
      BY <3>1, <3>2, Zenon
  <2>4. CASE s = wall_clock.sec
    <3>1. Ns(OnPage') = wall_clock.sec * NSEC_PER_SEC + wall_clock.nsec
      BY <2>2, <2>4, PageTypes DEF OnPage, Ns
    <3>2. hostpc' = "nsec"
      BY <2>1, <2>3, <2>4
    <3>3. Least' = Ns(OnPage')
      BY <3>2 DEF Least, Ns
    <3>4. Least = Ns(OnPage) /\ Ns(OnPage) \in Nat
      BY <2>2, PageTypes DEF Least, WallInv
    <3> QED
      BY <2>3, <3>1, <3>3, <3>4, PageTypes DEF WallInv
  <2>5. CASE s > wall_clock.sec
    <3>1. Least' = s * NSEC_PER_SEC
      BY <2>1, <2>2, <2>5 DEF Least
    <3>2. /\ wall_clock.sec * NSEC_PER_SEC + NSEC_PER_SEC <= s * NSEC_PER_SEC
          /\ s * NSEC_PER_SEC \in Nat
      BY <2>3, <2>5, Products
    <3>3. Least = wall_clock.sec * NSEC_PER_SEC + wall_clock.nsec
      BY <2>2, PageTypes DEF Least, WallInv
    <3> QED
      BY <2>3, <3>1, <3>2, <3>3, PageTypes DEF WallInv
  <2> QED
    BY <2>3, <2>4, <2>5
<1>3. CASE HostNsec
  <2>1. PICK n \in 0 .. NSEC_PER_SEC - 1 :
          /\ wall_clock' = [wall_clock EXCEPT !.nsec = n]
          /\ stepped' = (stepped \/ (hostpc = "nsec" /\ n < wall_clock.nsec))
    BY <1>3 DEF HostNsec
  <2>2. wall_clock'.sec = wall_clock.sec /\ wall_clock'.nsec = n /\ hostpc' = "end"
    BY <1>3, <2>1, PageTypes DEF HostNsec, WallInv, Pages
  <2>3. Least' = wall_clock.sec * NSEC_PER_SEC + n
    BY <2>2 DEF Least, OnPage, Ns
  <2>4. Least = IF hostpc = "later" THEN wall_clock.sec * NSEC_PER_SEC
                ELSE wall_clock.sec * NSEC_PER_SEC + wall_clock.nsec
    BY PageTypes DEF Least, WallInv
  <2>5. ~stepped /\ (hostpc = "nsec" => ~(n < wall_clock.nsec)) /\ n \in Nat
        /\ hostpc \in {"nsec", "later"}
    <3>1. ~(stepped \/ (hostpc = "nsec" /\ n < wall_clock.nsec))
      BY <2>1, Zenon
    <3>2. n \in Nat /\ hostpc \in {"nsec", "later"}
      BY <1>3, PageTypes DEF WallInv, HostNsec
    <3> QED
      BY <3>1, <3>2, Zenon
  <2> QED
    BY <2>3, <2>4, <2>5, PageTypes DEF WallInv
<1>4. CASE HostEnd
  <2>1. wall_clock'.sec = wall_clock.sec /\ wall_clock'.nsec = wall_clock.nsec
    BY <1>4, PageTypes DEF HostEnd, WallInv, Pages
  <2> QED
    BY <1>4, <2>1, PageTypes DEF HostEnd, WallInv, Least, OnPage
<1> QED
  BY <1>1, <1>2, <1>3, <1>4 DEF HostStep

\* What a write of the host does to the page, at each of its places.
LEMMA HostShape ==
  ASSUME WallInv, HostStep
  PROVE  /\ wall_clock' \in Pages /\ hostpc' \in {"rest", "sec", "nsec", "later", "end"}
         /\ stepped' \in BOOLEAN
         /\ wall_clock.version <= wall_clock'.version
         /\ wall_clock'.version % 2 = 1 <=> hostpc' # "rest"
         /\ hostpc' = "rest" => wall_clock'.version # wall_clock.version
         /\ \/ hostpc' # "rest" /\ offered' = offered
            \/ hostpc = "end" /\ hostpc' = "rest" /\ offered' = offered \union {OnPage'}
               /\ OnPage' = OnPage
         /\ UNCHANGED <<clockVars, msr, readVars>>
<1> USE DEF WallInv
<1>0. UNCHANGED <<clockVars, msr, readVars>>
  BY DEF HostStep
<1>1. CASE HostBegin
  <2>1. wall_clock' \in Pages /\ wall_clock'.version = wall_clock.version + 1
    BY <1>1, PageTypes DEF HostBegin, Pages
  <2>2. stepped' \in BOOLEAN
    BY <1>1, Zenon DEF HostBegin, WallTypeOK
  <2>3. hostpc = "rest" /\ hostpc' = "sec" /\ offered' = offered
    BY <1>1 DEF HostBegin
  <2>4. wall_clock.version \in Nat /\ wall_clock.version % 2 # 1
    BY <2>3, PageTypes DEF PageInv
  <2>5. wall_clock'.version % 2 = 1 /\ wall_clock.version <= wall_clock'.version
    BY <2>1, <2>4
  <2> QED
    BY <1>0, <2>1, <2>2, <2>3, <2>5
<1>2. CASE HostSec
  <2>1. PICK s \in 0 .. MaxSec :
          /\ wall_clock' = [wall_clock EXCEPT !.sec = s]
          /\ stepped' = (stepped \/ s < wall_clock.sec)
          /\ hostpc' = IF s > wall_clock.sec THEN "later" ELSE "nsec"
    BY <1>2 DEF HostSec
  <2>2. stepped' \in BOOLEAN
    BY <2>1, Zenon
  <2>3. wall_clock' \in Pages /\ wall_clock'.version = wall_clock.version
    BY <2>1, PageTypes DEF Pages
  <2>4. hostpc' \in {"later", "nsec"} /\ hostpc = "sec" /\ offered' = offered
    BY <1>2, <2>1 DEF HostSec
  <2> QED
    BY <1>0, <2>2, <2>3, <2>4, PageTypes DEF PageInv
<1>3. CASE HostNsec
  <2>1. PICK n \in 0 .. NSEC_PER_SEC - 1 :
          /\ wall_clock' = [wall_clock EXCEPT !.nsec = n]
          /\ stepped' = (stepped \/ (hostpc = "nsec" /\ n < wall_clock.nsec))
    BY <1>3 DEF HostNsec
  <2>2. stepped' \in BOOLEAN
    BY <2>1, Zenon
  <2>3. wall_clock' \in Pages /\ wall_clock'.version = wall_clock.version
    BY <2>1, PageTypes DEF Pages
  <2>4. hostpc' = "end" /\ hostpc # "rest" /\ offered' = offered
    BY <1>3 DEF HostNsec
  <2> QED
    BY <1>0, <2>2, <2>3, <2>4, PageTypes DEF PageInv
<1>4. CASE HostEnd
  <2>1. wall_clock' \in Pages /\ wall_clock'.version = wall_clock.version + 1
        /\ wall_clock'.sec = wall_clock.sec /\ wall_clock'.nsec = wall_clock.nsec
    BY <1>4, PageTypes DEF HostEnd, Pages
  <2>2. OnPage' = OnPage
    BY <2>1 DEF OnPage
  <2> QED
    BY <1>0, <1>4, <2>1, <2>2, PageTypes DEF HostEnd, PageInv, WallTypeOK
<1> QED
  BY <1>1, <1>2, <1>3, <1>4 DEF HostStep

\* The host fills or rewrites the page.
LEMMA HostKeeps ==
  ASSUME WallInv, HostStep PROVE WallInv'
<1> USE DEF readVars, clockVars
<1>1. WallTypeOK'
  BY HostShape, PageTypes DEF WallInv, WallTypeOK, Pages, Mono!monoVars
<1>2. PageInv'
  <2>1. version <= wall_clock'.version
    BY HostShape, PageTypes DEF WallInv, WallTypeOK, PageInv, Pages
  <2> QED
    BY <2>1, HostShape DEF WallInv, PageInv
<1>3. SnapInv'
  <2>1. ~Fresh'
    BY HostShape, PageTypes DEF WallInv, WallTypeOK, PageInv, Pages, Fresh
  <2>2. pc = "same" /\ version = wall_clock'.version => hostpc' = "rest"
    BY HostShape, PageTypes DEF WallInv, WallTypeOK, PageInv, SnapInv, Pages
  <2>3. pc = "clock" => now \in offered'
    BY HostShape DEF WallInv, SnapInv
  <2> QED
    BY <2>1, <2>2, <2>3, HostShape DEF SnapInv
<1>4. CallInv'
  BY HostShape DEF WallInv, CallInv
<1>5. TimePublished'
  BY HostShape DEF WallInv, TimePublished
<1>6. ForwardInv'
  <2> SUFFICES ASSUME ~stepped' PROVE ForwardInv'
    BY DEF ForwardInv
  <2>1. ~stepped /\ Least <= Least' /\ Least \in Nat /\ Least' \in Nat
    <3>1. ~stepped /\ Least <= Least'
      BY <1>1, LeastGrows, Zenon
    <3>2. Least \in Nat /\ Least' \in Nat
      BY <1>1, PageTypes, LeastType DEF WallInv
    <3> QED
      BY <3>1, <3>2, Zenon
  <2>2. /\ UNCHANGED <<pc, i, state, since, printed, ts, clock>> /\ clock \in Nat /\ since \in Nat
        /\ printed \in Nat
    BY HostShape DEF WallInv, WallTypeOK
  <2>3. pc = "print" => Ns(ts) \in Nat
    BY NsType DEF WallInv, WallTypeOK
  <2>4. ASSUME NEW b \in offered'
        PROVE  /\ Ns(b) \in Nat /\ Ns(b) <= Least' /\ printed <= Ns(b) + clock
               /\ pc = "clock" /\ state[i] # "idle" => printed <= Ns(b) + since
    <3>1. CASE b \in offered
      <4>1. Ns(b) \in Nat
        BY <3>1, NsType, PageTypes DEF WallInv, WallTypeOK, Times
      <4> QED
        BY <2>1, <3>1, <4>1 DEF WallInv, ForwardInv
    <3>2. CASE b \notin offered
      <4>1. b = OnPage /\ hostpc = "end" /\ hostpc' = "rest" /\ OnPage' = OnPage
        BY <3>2, HostShape
      <4>2. Ns(b) = Least
        BY <4>1 DEF Least
      <4>3. Least' = Ns(OnPage')
        BY <4>1 DEF Least, Ns
      <4>4. Ns(b) = Least'
        BY <4>1, <4>2, <4>3 DEF Ns
      <4> QED
        BY <2>1, <4>2, <4>4 DEF WallInv, ForwardInv
    <3> QED
      BY <3>1, <3>2
  <2>5. Ns(ts)' = Ns(ts)
    BY <2>2 DEF Ns
  <2>6. /\ printed <= Least' + clock
        /\ pc = "clock" /\ state[i] # "idle" => printed <= Least' + since
        /\ pc = "print" => printed <= Ns(ts) /\ Ns(ts) <= Least' + clock
    <3>1. /\ printed <= Least + clock
          /\ pc = "clock" /\ state[i] # "idle" => printed <= Least + since
          /\ pc = "print" => printed <= Ns(ts) /\ Ns(ts) <= Least + clock
      BY <2>1, Zenon DEF WallInv, ForwardInv
    <3>2. Least <= Least' /\ Least \in Nat /\ Least' \in Nat
      BY <2>1, Zenon
    <3>3. clock \in Nat /\ since \in Nat /\ printed \in Nat
      BY <2>2, Zenon
    <3>4. printed <= Least' + clock
      <4>1. printed <= Least + clock
        BY <3>1, Zenon
      <4> QED
        BY <3>2, <3>3, <4>1, Later, Zenon
    <3>5. ASSUME pc = "clock", state[i] # "idle" PROVE printed <= Least' + since
      <4>1. printed <= Least + since
        BY <3>1, <3>5, Zenon
      <4> QED
        BY <3>2, <3>3, <4>1, Later, Zenon
    <3>6. ASSUME pc = "print" PROVE printed <= Ns(ts) /\ Ns(ts) <= Least' + clock
      <4>1. printed <= Ns(ts) /\ Ns(ts) <= Least + clock /\ Ns(ts) \in Nat
        BY <2>3, <3>1, <3>6, Zenon
      <4> QED
        BY <3>2, <3>3, <4>1
    <3> QED
      BY <3>4, <3>5, <3>6, Zenon
  <2>7. \A b \in offered' : Ns(b)' = Ns(b)
    BY DEF Ns
  <2> QED
    BY <2>2, <2>4, <2>5, <2>6, <2>7 DEF ForwardInv
<1> QED
  BY <1>1, <1>2, <1>3, <1>4, <1>5, <1>6 DEF WallInv

-----------------------------------------------------------------------------
(***************************************************************************)
(* The clock and the vCPU.                                                 *)
(***************************************************************************)
LEMMA Numbers ==
  ASSUME WallTypeOK
  PROVE  /\ clock \in Nat /\ since \in Nat /\ printed \in Nat /\ i \in Nat
         /\ Ns(ts) \in Nat /\ Ns(now) \in Nat
         /\ \A b \in offered : Ns(b) \in Nat
         /\ \A c \in Cpus : answer[c] \in Nat /\ state[c] \in {"idle", "reading", "answered"}
         /\ i < ncpus => i \in Cpus
<1>1. ASSUME NEW b \in Times PROVE Ns(b) \in Nat
  <2>1. b.tv_sec \in Nat /\ b.tv_nsec \in Nat
    BY WallAssumption DEF Times
  <2> QED
    BY <2>1, NsType
<1>2. Ns(ts) \in Nat
  <2>1. ts.tv_sec \in Nat /\ ts.tv_nsec \in Nat
    BY WallAssumption DEF WallTypeOK
  <2> QED
    BY <2>1, NsType
<1>3. Ns(now) \in Nat /\ \A b \in offered : Ns(b) \in Nat
  BY <1>1, Zenon DEF WallTypeOK
<1>4. clock \in Nat /\ since \in Nat /\ printed \in Nat /\ i \in Nat /\ (i < ncpus => i \in Cpus)
  BY WallAssumption DEF WallTypeOK, Cpus
<1>5. \A c \in Cpus : answer[c] \in Nat /\ state[c] \in {"idle", "reading", "answered"}
  BY DEF WallTypeOK
<1> QED
  BY <1>2, <1>3, <1>4, <1>5

\* While the host leaves the page alone, nothing that is said of it changes.
LEMMA PageStays ==
  ASSUME UNCHANGED hostVars
  PROVE  /\ Least' = Least /\ OnPage' = OnPage
         /\ wall_clock' = wall_clock /\ hostpc' = hostpc /\ msr' = msr /\ stepped' = stepped
  BY DEF hostVars, Least, OnPage, Ns

\* The time since boot moves forward.
LEMMA AdvanceKeeps ==
  ASSUME WallInv, Advance PROVE WallInv'
<1>1. /\ UNCHANGED <<hostVars, offered, i, pc, version, now, ts, nerr, since, printed>>
      /\ UNCHANGED <<state, answer>> /\ clock' \in clock + 1 .. MaxClock
  BY DEF Advance, Mono!Advance, readVars
<1>2. clock \in Nat /\ clock' \in Nat /\ clock <= clock'
  BY <1>1, Numbers, WallAssumption DEF WallInv
<1>3. WallTypeOK'
  BY <1>1, <1>2, Zenon DEF WallInv, WallTypeOK, hostVars
<1>4. PageInv' /\ SnapInv'
  BY <1>1, PageStays DEF WallInv, PageInv, SnapInv, Fresh
<1>5. CallInv'
  <2>1. i < ncpus => i \in Cpus /\ answer[i] \in Nat
    BY Numbers DEF WallInv
  <2>2. pc = "clock" /\ state[i] # "idle" => since <= clock'
    BY <1>2, Numbers DEF WallInv, CallInv
  <2>3. pc = "clock" /\ state[i] = "answered" => since <= answer[i] /\ answer[i] <= clock'
    BY <1>2, <2>1, Numbers DEF WallInv, CallInv
  <2> QED
    BY <1>1, <2>2, <2>3, Zenon DEF WallInv, CallInv
<1>6. TimePublished'
  <2> SUFFICES ASSUME pc = "print", state[i] = "idle"
               PROVE  \E b \in offered, t \in since .. clock' : Ns(ts) = Ns(b) + t
    BY <1>1, Zenon DEF TimePublished, Ns
  <2>1. PICK b \in offered, t \in since .. clock : Ns(ts) = Ns(b) + t
    BY Zenon DEF WallInv, TimePublished
  <2>2. t \in since .. clock'
    BY <1>2, Numbers DEF WallInv
  <2> QED
    BY <2>1, <2>2, Zenon
<1>7. ForwardInv'
  <2> SUFFICES ASSUME ~stepped PROVE ForwardInv'
    BY <1>1, Zenon DEF ForwardInv, hostVars
  <2>1. Least \in Nat /\ \A b \in offered : Ns(b) \in Nat
    BY Numbers, PageTypes DEF WallInv
  <2>2. \A m \in Nat : printed <= m + clock => printed <= m + clock'
    BY <1>2, Numbers DEF WallInv
  <2>3. \A m \in Nat : Ns(ts) <= m + clock => Ns(ts) <= m + clock'
    BY <1>2, Numbers DEF WallInv
  <2>4. /\ printed <= Least + clock'
        /\ \A b \in offered : Ns(b) <= Least /\ printed <= Ns(b) + clock'
        /\ pc = "clock" /\ state[i] # "idle" =>
             printed <= Least + since /\ \A b \in offered : printed <= Ns(b) + since
        /\ pc = "print" => printed <= Ns(ts) /\ Ns(ts) <= Least + clock'
    BY <2>1, <2>2, <2>3, Zenon DEF WallInv, ForwardInv
  <2>5. Ns(ts)' = Ns(ts) /\ \A b \in offered : Ns(b)' = Ns(b)
    BY <1>1 DEF Ns
  <2> QED
    BY <1>1, <2>4, <2>5, PageStays, Zenon DEF ForwardInv
<1> QED
  BY <1>3, <1>4, <1>5, <1>6, <1>7 DEF WallInv

\* No vCPU is inside a read of the clock but at the two places that read it.
LEMMA AtRest ==
  ASSUME WallInv, pc \notin {"clock", "print"}
  PROVE  \A c \in Cpus : state[c] = "idle"
  BY DEF WallInv, CallInv

\* The loads of pvclock_read_wallclock, and the two tests of its loop.
LEMMA ReadPageKeeps ==
  ASSUME WallInv, ReadPage PROVE WallInv'
<1>1. UNCHANGED <<clockVars, hostVars, offered, i, nerr, since, printed>>
  BY DEF ReadPage
<1>2. pc \notin {"wrmsr", "clock", "print"} /\ pc' \notin {"wrmsr", "print"} /\ ts' = ts
      /\ pc' \in {"version", "sec", "nsec", "odd", "same", "clock"}
  BY DEF ReadPage, ReadVersion, ReadSec, ReadNsec, CheckOdd, CheckSame, Goto
<1>3. i < ncpus /\ i \in Cpus /\ state[i] = "idle"
  BY <1>2, AtRest, Numbers DEF WallInv, CallInv
<1>4. version' \in Nat /\ version' <= wall_clock.version
  BY PageTypes DEF ReadPage, ReadVersion, ReadSec, ReadNsec, CheckOdd, CheckSame,
                   WallInv, WallTypeOK, PageInv
<1>5. now' \in Times
  <2>1. now \in Times /\ wall_clock.sec \in 0 .. MaxSec /\ wall_clock.nsec \in 0 .. NSEC_PER_SEC - 1
    BY PageTypes DEF WallInv, WallTypeOK
  <2> QED
    BY <2>1 DEF Times, ReadPage, ReadVersion, ReadSec, ReadNsec, CheckOdd, CheckSame
<1>6. WallTypeOK'
  BY <1>1, <1>2, <1>4, <1>5 DEF WallInv, WallTypeOK, clockVars, hostVars
<1>7. PageInv'
  BY <1>1, <1>2, <1>4, PageStays DEF WallInv, PageInv
<1>8. SnapInv'
  <2> USE DEF WallInv, WallTypeOK, SnapInv, Goto
  <2>1. CASE ReadVersion
    BY <2>1 DEF ReadVersion
  <2>2. CASE ReadSec
    BY <1>1, <2>2, PageStays DEF ReadSec, Times
  <2>3. CASE ReadNsec
    <3>1. now.tv_sec = wall_clock.sec /\ Fresh => now' = OnPage
      BY <2>3 DEF ReadNsec, Times, OnPage
    <3>2. Fresh' <=> Fresh
      BY <1>1, <2>3, PageStays DEF ReadNsec, Fresh
    <3> QED
      BY <1>1, <2>3, <3>1, <3>2, PageStays DEF ReadNsec
  <2>4. CASE CheckOdd
    <3>1. Fresh' <=> Fresh
      BY <1>1, <2>4, PageStays DEF CheckOdd, Fresh
    <3>2. pc' = "same" => hostpc = "rest"
      BY <2>4 DEF CheckOdd, PageInv
    <3> QED
      BY <1>1, <2>4, <3>1, <3>2, PageStays DEF CheckOdd
  <2>5. CASE CheckSame
    <3>1. pc' = "clock" => version = wall_clock.version /\ hostpc = "rest" /\ now = OnPage
      BY <2>5 DEF CheckSame, Fresh
    <3>2. pc' = "clock" => now' \in offered'
      BY <1>1, <2>5, <3>1 DEF CheckSame, PageInv
    <3> QED
      BY <2>5, <3>2 DEF CheckSame
  <2> QED
    BY <2>1, <2>2, <2>3, <2>4, <2>5 DEF ReadPage
<1>9. CallInv' /\ TimePublished'
  <2>1. \A c \in Cpus : state'[c] = "idle"
    BY <1>1, <1>2, AtRest DEF clockVars
  <2> QED
    BY <1>1, <1>2, <1>3, <2>1 DEF CallInv, TimePublished
<1>10. ForwardInv'
  <2>1. state'[i'] = "idle"
    BY <1>1, <1>3 DEF clockVars
  <2>2. \A b \in offered : Ns(b)' = Ns(b)
    BY DEF Ns
  <2> QED
    BY <1>1, <1>2, <2>1, <2>2, PageStays, Zenon DEF WallInv, ForwardInv, clockVars
<1> QED
  BY <1>6, <1>7, <1>8, <1>9, <1>10 DEF WallInv

\* kvm_get_wallclock asks the host to fill the page.
LEMMA WriteMsrKeeps ==
  ASSUME WallInv, WriteMsr PROVE WallInv'
<1>1. /\ UNCHANGED <<clockVars, hostpc, i, version, now, ts, nerr, since, printed>>
      /\ pc = "wrmsr" /\ pc' = "version" /\ hostpc = "rest" /\ i < ncpus
  BY DEF WriteMsr, Goto
<1>2. \A c \in Cpus : state'[c] = "idle"
  BY <1>1, AtRest DEF clockVars
<1>3. i \in Cpus /\ state'[i'] = "idle"
  BY <1>1, <1>2, Numbers DEF WallInv
<1>4. PICK t \in Times :
        /\ wall_clock' \in Pages
        /\ wall_clock'.version = wall_clock.version + 2 \/ wall_clock' = wall_clock
        /\ msr' \in {"unset", "on", "refused"} /\ stepped' \in BOOLEAN
        /\ offered' = {t} /\ OnPage' = t /\ Ns(t) \in Nat
        /\ ~stepped' => ~stepped /\ Least <= Ns(t)
  <2>1. CASE msr' = "on"
    <3>1. PICK t \in Times :
            /\ wall_clock' = [version |-> wall_clock.version + 2,
                              sec |-> t.tv_sec, nsec |-> t.tv_nsec]
            /\ offered' = {t}
            /\ stepped' = (stepped \/ Ns(t) < Ns(OnPage))
      BY <2>1 DEF WriteMsr
    <3>2. wall_clock' \in Pages /\ wall_clock'.version = wall_clock.version + 2
          /\ OnPage' = t
      BY <3>1, PageTypes DEF WallInv, Pages, Times, OnPage
    <3>3. t.tv_sec \in Nat /\ t.tv_nsec \in Nat
      BY WallAssumption DEF Times
    <3>4. Ns(t) \in Nat
      BY <3>3, NsType
    <3>5. stepped' \in BOOLEAN
      BY <3>1, Zenon
    <3>6. ASSUME ~stepped' PROVE ~stepped /\ Least <= Ns(t)
      <4>1. ~stepped /\ ~(Ns(t) < Ns(OnPage))
        BY <3>1, <3>6, Zenon
      <4>2. Ns(OnPage) \in Nat /\ Least \in Nat /\ Least <= Ns(OnPage)
        BY PageTypes DEF WallInv
      <4>3. Least <= Ns(t)
        <5>1. ~(Ns(t) < Ns(OnPage))
          BY <4>1, Zenon
        <5> QED
          BY <3>4, <4>2, <5>1
      <4> QED
        BY <4>1, <4>3, Zenon
    <3> QED
      BY <2>1, <3>1, <3>2, <3>4, <3>5, <3>6, Zenon
  <2>2. CASE msr' # "on"
    <3>1. wall_clock' = wall_clock /\ stepped' = stepped /\ offered' = {OnPage} /\ msr' = "refused"
      BY <2>2 DEF WriteMsr
    <3>2. OnPage' = OnPage /\ OnPage \in Times /\ Ns(OnPage) \in Nat /\ Least <= Ns(OnPage)
          /\ wall_clock \in Pages
      BY <3>1, PageTypes DEF WallInv, OnPage
    <3>3. stepped \in BOOLEAN
      BY Zenon DEF WallInv, WallTypeOK
    <3> QED
      BY <3>1, <3>2, <3>3, Zenon
  <2> QED
    BY <2>1, <2>2
<1>5. WallTypeOK'
  BY <1>1, <1>4 DEF WallInv, WallTypeOK, clockVars, Pages
<1>6. PageInv'
  <2>1. version \in Nat /\ wall_clock.version \in Nat /\ version <= wall_clock.version
        /\ wall_clock.version % 2 # 1
    BY <1>1, PageTypes DEF WallInv, WallTypeOK, PageInv
  <2>2. wall_clock'.version % 2 # 1 /\ version <= wall_clock'.version
    BY <1>4, <2>1
  <2> QED
    BY <1>1, <1>4, <2>2 DEF PageInv
<1>7. SnapInv' /\ CallInv' /\ TimePublished'
  BY <1>1, <1>2, <1>3 DEF SnapInv, CallInv, TimePublished
<1>8. ForwardInv'
  <2> SUFFICES ASSUME ~stepped' PROVE ForwardInv'
    BY DEF ForwardInv
  <2>1. ~stepped /\ Least <= Ns(t)
    BY <1>4, Zenon
  <2>2. Least' = Ns(t)
    <3>1. Least' = Ns(OnPage')
      BY <1>1 DEF Least, Ns
    <3> QED
      BY <1>4, <3>1, Zenon
  <2>3. Least \in Nat /\ clock \in Nat /\ printed \in Nat
    BY Numbers, PageTypes DEF WallInv
  <2>4. printed <= Least + clock
    BY <2>1, Zenon DEF WallInv, ForwardInv
  <2>5. printed <= Ns(t) + clock
    BY <1>4, <2>1, <2>3, <2>4, Later, Zenon
  <2>6. \A b \in offered' : Ns(b)' = Ns(t)
    BY <1>4 DEF Ns
  <2>7. Ns(t) <= Ns(t)
    BY <1>4
  <2>8. clock' = clock /\ printed' = printed
    BY <1>1 DEF clockVars
  <2> QED
    BY <1>1, <1>3, <2>2, <2>5, <2>6, <2>7, <2>8 DEF ForwardInv
<1> QED
  BY <1>5, <1>6, <1>7, <1>8 DEF WallInv

\* Calls and answers move the state of vCPU i only.
LEMMA ReadClockKeeps ==
  ASSUME WallInv, ReadClock PROVE WallInv'
<1>1. /\ UNCHANGED <<hostVars, offered, i, pc, version, now, ts, nerr, printed>>
      /\ pc \in {"clock", "print"} /\ clock' = clock
  BY DEF ReadClock, Mono!Invoke, Mono!Answer
<1>2. i < ncpus /\ i \in Cpus
  BY <1>1, Numbers DEF WallInv, CallInv
<1>3. /\ state'[i] # "idle" /\ \A c \in Cpus : c # i => state'[c] = state[c]
      /\ since' \in {since, clock} /\ state' \in [Cpus -> {"idle", "reading", "answered"}]
      /\ answer' \in [Cpus -> Nat]
  BY <1>2, Numbers DEF ReadClock, Mono!Invoke, Mono!Answer, WallInv, WallTypeOK
<1>4. /\ pc = "clock" => since' <= clock
      /\ pc = "clock" /\ state'[i] = "answered" => since' <= answer'[i] /\ answer'[i] <= clock
      /\ since' = clock \/ (since' = since /\ state[i] # "idle")
  <2>1. CASE Mono!Invoke(i) /\ since' = clock
    BY <1>2, <2>1, Numbers DEF Mono!Invoke, WallInv, WallTypeOK
  <2>2. CASE Mono!Answer(i) /\ UNCHANGED since
    BY <1>2, <2>2, Numbers DEF Mono!Answer, WallInv, WallTypeOK, CallInv
  <2> QED
    BY <2>1, <2>2 DEF ReadClock
<1>5. WallTypeOK'
  <2>1. since' \in Nat
    BY <1>3, Numbers DEF WallInv
  <2> QED
    BY <1>1, <1>3, <2>1 DEF WallInv, WallTypeOK, hostVars
<1>6. PageInv' /\ SnapInv'
  BY <1>1, PageStays DEF WallInv, PageInv, SnapInv, Fresh
<1>7. CallInv'
  <2>1. \A c \in Cpus : state'[c] # "idle" => c = i
    BY <1>3 DEF WallInv, CallInv
  <2> QED
    BY <1>1, <1>2, <1>4, <2>1 DEF CallInv
<1>8. TimePublished'
  BY <1>1, <1>3 DEF TimePublished
<1>9. ForwardInv'
  <2> SUFFICES ASSUME ~stepped PROVE ForwardInv'
    BY <1>1, PageStays, Zenon DEF ForwardInv
  <2>1. /\ printed <= Least + clock
        /\ \A b \in offered : Ns(b) <= Least /\ printed <= Ns(b) + clock
        /\ pc = "clock" /\ state[i] # "idle" =>
             printed <= Least + since /\ \A b \in offered : printed <= Ns(b) + since
        /\ pc = "print" => printed <= Ns(ts) /\ Ns(ts) <= Least + clock
    BY Zenon DEF WallInv, ForwardInv
  <2>2. pc = "clock" => printed <= Least + since' /\ \A b \in offered : printed <= Ns(b) + since'
    BY <1>4, <2>1, Zenon
  <2>3. Ns(ts)' = Ns(ts) /\ \A b \in offered : Ns(b)' = Ns(b)
    BY <1>1 DEF Ns
  <2> QED
    BY <1>1, <2>1, <2>2, <2>3, PageStays, Zenon DEF ForwardInv
<1> QED
  BY <1>5, <1>6, <1>7, <1>8, <1>9 DEF WallInv

\* When vCPU i has its answer, every vCPU is idle again.
LEMMA Returned ==
  ASSUME WallInv, Mono!Return(i), pc \in {"clock", "print"}
  PROVE  /\ i \in Cpus /\ i < ncpus /\ state[i] = "answered" /\ answer[i] \in Nat
         /\ \A c \in Cpus : state'[c] = "idle"
         /\ state' \in [Cpus -> {"idle", "reading", "answered"}]
         /\ answer' \in [Cpus -> Nat] /\ clock' = clock
<1>1. i < ncpus /\ i \in Cpus
  BY Numbers DEF WallInv, CallInv
<1>2. \A c \in Cpus : c # i => state[c] = "idle"
  BY DEF WallInv, CallInv
<1> QED
  BY <1>1, <1>2, Numbers DEF Mono!Return, WallInv, WallTypeOK

\* ts is the boot time that was read, plus an answer of the clock.
LEMMA GotClockKeeps ==
  ASSUME WallInv, GotClock PROVE WallInv'
<1>1. /\ UNCHANGED <<hostVars, offered, i, version, now, nerr, since, printed>>
      /\ pc = "clock" /\ pc' = "print" /\ Mono!Return(i)
  BY DEF GotClock, Goto
<1>2. /\ i \in Cpus /\ i < ncpus /\ state[i] = "answered" /\ answer[i] \in Nat
      /\ \A c \in Cpus : state'[c] = "idle"
      /\ state' \in [Cpus -> {"idle", "reading", "answered"}]
      /\ answer' \in [Cpus -> Nat] /\ clock' = clock
  BY <1>1, Returned
<1>3. now \in offered /\ since <= answer[i] /\ answer[i] <= clock
  BY <1>1, <1>2 DEF WallInv, SnapInv, CallInv
<1>4. /\ ts' \in [tv_sec : Nat, tv_nsec : 0 .. NSEC_PER_SEC - 1]
      /\ Ns(ts)' = Ns(now) + answer[i] /\ Ns(now) \in Nat
  <2>1. Ns(now) \in Nat /\ answer[i] + Ns(now) \in Nat /\ answer[i] + Ns(now) = Ns(now) + answer[i]
    BY <1>2, Numbers DEF WallInv
  <2>2. ts' = Normalise(answer[i] + Ns(now))
    BY DEF GotClock
  <2>3. Ns(Normalise(answer[i] + Ns(now))) = answer[i] + Ns(now)
        /\ Normalise(answer[i] + Ns(now)) \in [tv_sec : Nat, tv_nsec : 0 .. NSEC_PER_SEC - 1]
    BY <2>1, NormaliseExact
  <2>4. Ns(ts)' = Ns(ts')
    BY DEF Ns
  <2>5. Ns(ts') = answer[i] + Ns(now)
    BY <2>2, <2>3, Zenon
  <2> QED
    BY <2>1, <2>2, <2>3, <2>4, <2>5
<1>5. WallTypeOK'
  BY <1>1, <1>2, <1>4, Numbers DEF WallInv, WallTypeOK, hostVars
<1>6. PageInv' /\ SnapInv' /\ CallInv'
  BY <1>1, <1>2, PageStays DEF WallInv, PageInv, SnapInv, CallInv
<1>7. TimePublished'
  <2>1. answer[i] \in since .. clock
    BY <1>2, <1>3, Numbers DEF WallInv
  <2>2. Ns(now)' = Ns(now)
    BY <1>1 DEF Ns
  <2>3. now' \in offered' /\ answer[i] \in (since .. clock)' /\ Ns(ts)' = Ns(now)' + answer[i]
    BY <1>1, <1>2, <1>3, <1>4, <2>1, <2>2, Zenon
  <2> QED
    BY <2>3, Zenon DEF TimePublished, Ns
<1>8. ForwardInv'
  <2> SUFFICES ASSUME ~stepped PROVE ForwardInv'
    BY <1>1, PageStays, Zenon DEF ForwardInv
  <2>1. /\ printed <= Least + clock
        /\ \A b \in offered : Ns(b) <= Least /\ printed <= Ns(b) + clock
        /\ \A b \in offered : printed <= Ns(b) + since
    <3>1. state[i] # "idle"
      BY <1>2
    <3> QED
      BY <1>1, <3>1, Zenon DEF WallInv, ForwardInv
  <2>2. printed <= Ns(now) + since /\ Ns(now) <= Least
    BY <1>3, <2>1, Zenon
  <2>3. Least \in Nat /\ since \in Nat /\ clock \in Nat /\ printed \in Nat
    BY Numbers, PageTypes DEF WallInv
  <2>4. printed <= Ns(now) + answer[i]
    BY <1>2, <1>3, <1>4, <2>2, <2>3
  <2>5. Ns(now) + answer[i] <= Least + clock
    BY <1>2, <1>3, <1>4, <2>2, <2>3
  <2>6. \A b \in offered : Ns(b)' = Ns(b)
    BY DEF Ns
  <2>7. state'[i'] = "idle" /\ offered' = offered /\ printed' = printed /\ clock' = clock
    BY <1>1, <1>2
  <2>8. printed <= Ns(ts)' /\ Ns(ts)' <= Least + clock
    BY <1>4, <2>4, <2>5, Zenon
  <2> QED
    BY <1>1, <2>1, <2>6, <2>7, <2>8, PageStays, Zenon DEF ForwardInv
<1> QED
  BY <1>5, <1>6, <1>7, <1>8 DEF WallInv

\* The printed time is compared with sec, and the next vCPU has its turn.
LEMMA GotRawKeeps ==
  ASSUME WallInv, GotRaw PROVE WallInv'
<1>1. /\ UNCHANGED hostVars /\ pc = "print" /\ pc' = "wrmsr" /\ Mono!Return(i)
      /\ i' = i + 1 /\ version' = 0 /\ now' = Zero /\ ts' = Zero /\ since' = 0
      /\ offered' = {} /\ printed' = Ns(ts) /\ nerr' \in {nerr, nerr + 1}
  BY DEF GotRaw, Goto
<1>2. /\ i \in Cpus /\ i < ncpus /\ clock' = clock
      /\ \A c \in Cpus : state'[c] = "idle"
      /\ state' \in [Cpus -> {"idle", "reading", "answered"}]
      /\ answer' \in [Cpus -> Nat]
  BY <1>1, Returned
<1>3. WallTypeOK'
  <2>1. i' \in 0 .. ncpus /\ nerr' \in 0 .. i'
    BY <1>1, <1>2, WallAssumption DEF WallInv, WallTypeOK
  <2>2. Zero \in Times /\ Zero \in [tv_sec : Nat, tv_nsec : 0 .. NSEC_PER_SEC - 1]
    BY WallAssumption DEF Zero, Times
  <2>3. Ns(ts) \in Nat
    BY Numbers DEF WallInv
  <2> QED
    BY <1>1, <1>2, <2>1, <2>2, <2>3 DEF WallInv, WallTypeOK, hostVars
<1>4. PageInv'
  BY <1>1, PageStays, PageTypes DEF WallInv, PageInv
<1>5. SnapInv' /\ CallInv' /\ TimePublished'
  BY <1>1, <1>2 DEF SnapInv, CallInv, TimePublished
<1>6. ForwardInv'
  <2>1. ~stepped => Ns(ts) <= Least + clock
    BY <1>1, Zenon DEF WallInv, ForwardInv
  <2>2. Ns(ts) \in Nat /\ printed' = Ns(ts)
    BY <1>1, Numbers DEF WallInv
  <2>3. pc' \notin {"clock", "print"} /\ offered' = {} /\ clock' = clock
    BY <1>1, <1>2
  <2>4. pc' # "clock" /\ pc' # "print" /\ \A b \in offered' : FALSE
    BY <2>3
  <2> QED
    BY <1>1, <2>1, <2>2, <2>3, <2>4, PageStays, Zenon DEF ForwardInv
<1> QED
  BY <1>3, <1>4, <1>5, <1>6 DEF WallInv
-----------------------------------------------------------------------------
(***************************************************************************)
(* The theorems.                                                           *)
(***************************************************************************)
LEMMA WallStarts ==
  ASSUME Init PROVE WallInv
<1>1. Ns(Zero) = 0 /\ Zero \in Times /\ Zero \in [tv_sec : Nat, tv_nsec : 0 .. NSEC_PER_SEC - 1]
      /\ ncpus \in Nat
  BY WallAssumption DEF Ns, Zero, Times
<1>2. /\ wall_clock = [version |-> 0, sec |-> 0, nsec |-> 0] /\ wall_clock \in Pages
      /\ hostpc = "rest" /\ msr = "unset" /\ pc = "wrmsr" /\ i = 0 /\ version = 0 /\ nerr = 0
      /\ now = Zero /\ ts = Zero /\ offered = {} /\ since = 0 /\ printed = 0 /\ clock = 0
      /\ state = [c \in Cpus |-> "idle"] /\ answer = [c \in Cpus |-> 0]
  BY WallAssumption DEF Init, Mono!Init, Pages
<1>3. stepped \in BOOLEAN
  BY Zenon DEF Init
<1>4. WallTypeOK
  BY <1>1, <1>2, <1>3 DEF WallTypeOK, Pages
<1>5. PageInv /\ SnapInv /\ CallInv /\ TimePublished
  BY <1>2 DEF PageInv, SnapInv, CallInv, TimePublished
<1>6. ForwardInv
  <2>1. Least \in Nat
    BY <1>4, PageTypes
  <2>2. printed <= Least + clock
    BY <1>2, <2>1
  <2>3. pc # "clock" /\ pc # "print" /\ \A b \in offered : FALSE
    BY <1>2
  <2> QED
    BY <2>2, <2>3, Zenon DEF ForwardInv
<1> QED
  BY <1>4, <1>5, <1>6 DEF WallInv

\* Nothing else can happen: whatever the order of the host, the clock and the
\* vCPUs, WallInv is kept.
LEMMA WallKept ==
  ASSUME WallInv, [Next]_vars PROVE WallInv'
<1>1. CASE Advance
  BY <1>1, AdvanceKeeps
<1>2. CASE HostStep
  BY <1>2, HostKeeps
<1>3. CASE CpuStep
  BY <1>3, WriteMsrKeeps, ReadPageKeeps, ReadClockKeeps, GotClockKeeps, GotRawKeeps DEF CpuStep
<1>4. CASE UNCHANGED vars
  <2>1. UNCHANGED <<hostVars, offered, readVars>> /\ UNCHANGED <<clock, state, answer>>
    BY <1>4 DEF vars, clockVars
  <2>2. UNCHANGED <<wall_clock, hostpc, msr, stepped, offered, i, pc, version, now, ts, nerr,
                    since, printed, clock, state, answer>>
    BY <2>1 DEF hostVars, readVars
  <2> QED
    BY <2>2 DEF WallInv, WallTypeOK, PageInv, SnapInv, CallInv, TimePublished, ForwardInv,
                Fresh, Least, OnPage, Ns
<1> QED
  BY <1>1, <1>2, <1>3, <1>4 DEF Next, Done

\* For every number of vCPUs, length of a second, tolerance and bound, and
\* however the host rewrites its page, WallInv holds at every step of the test.
THEOREM WallInvariant == Spec => []WallInv
<1>1. Init => WallInv
  BY WallStarts
<1>2. WallInv /\ [Next]_vars => WallInv'
  BY WallKept
<1> QED
  BY <1>1, <1>2, PTL DEF Spec

\* Every variable of wallclock_test holds a value of its type; in particular ts
\* is a normalised timespec and at most one error is counted per vCPU.
THEOREM WallTypeCorrect == Spec => []WallTypeOK
  BY WallInvariant, PTL DEF WallInv

\* What pvclock_read_wallclock answers is a boot time that the host published
\* since kvm_get_wallclock asked for it, not halves of two, plus what the clock
\* showed at one instant of the call.
THEOREM TimeIsPublished == Spec => []TimePublished
  BY WallInvariant, PTL DEF WallInv

\* The vCPUs print times that do not go backwards, as long as the host does not
\* step its boot time back, although each of them reads a page filled anew.
THEOREM WallMovesForward == Spec => []WallForward
<1>1. WallInv => WallForward
  <2> SUFFICES ASSUME WallInv, pc = "print", ~stepped PROVE Ns(ts) >= printed
    BY Zenon DEF WallForward
  <2>1. printed <= Ns(ts)
    BY Zenon DEF WallInv, ForwardInv
  <2>2. Ns(ts) \in Nat /\ printed \in Nat
    BY Numbers DEF WallInv
  <2> QED
    BY <2>1, <2>2
<1> QED
  BY <1>1, WallInvariant, PTL

=============================================================================
