-------------------------- MODULE TestModuleProofs --------------------------
(***************************************************************************)
(* The invariants of test_module, for any set of vCPUs, any test cases and *)
(* any number of loads.                                                    *)
(*                                                                         *)
(* None of them is inductive.  What the module holds, which vCPU may have  *)
(* its region, and what the test has found out so far all depend on where  *)
(* the test stands in its script, which ModuleInv adds; the lemmas before  *)
(* the steps say what is at which place of the scripts.                    *)
(***************************************************************************)
EXTENDS TestModule, TLAPS, SequenceTheorems

Present == module # "out"

\* The loads that have come past the kmalloc of test_xsaves.
Saved == {k \in 1 .. Loaded : tcs[k] = 10 /\ (k = Loaded /\ Present => pc > 1)}

\* The region of the present load.
Region == {<<"vmxon_region", l>> : l \in {k \in {vmxon_region} : Present /\ k # 0}}

HeapNow == heap = {<<"fx", l>> : l \in Saved} \union Region

\* Only test_vmxon allocates a region, first of all, and only its vmxon gives
\* it to a vCPU; nobody has the region of a load that is yet to come.
RegionNow ==
  Present => vmxon_region = IF tc_no = 1 /\ pc > 1 THEN Loaded ELSE 0
RegionInUse ==
  Present => \A c \in Cpus : vmx[c] = Loaded => tc_no = 1 /\ pc > 5

InitReturned == module = "live" => pc > Len(Script(tc_no))

\* The MSRs that test_pt has come past were not refused, and the xsetbv that
\* is illegal has no next instruction.
NoneRefused ==
  module = "init" /\ tc_no = 3 =>
    /\ pc <= 14 => \A k \in DOMAIN pt_msrs : k < pc => ~Refused("rdmsr_safe", k)
    /\ pc \in 15 .. 28 => \A k \in DOMAIN pt_msrs : k < pc - 14 => ~Refused("wrmsr_safe", k)
NeverPast == Present /\ tc_no = 11 => pc <= 3

ModuleInv ==
  /\ TestModTypeOK /\ (Present => Loaded > 0)
  /\ HeapNow /\ RegionNow /\ RegionInUse /\ InitReturned /\ NoneRefused /\ NeverPast
  /\ SaidTruly

-----------------------------------------------------------------------------
(***************************************************************************)
(* The scripts.                                                            *)
(***************************************************************************)
Parts(S, s, u, m, v, n) ==
  /\ s \in Seq(S) /\ Len(s) = m + n
  /\ \A k \in 1 .. m : s[k] = u[k]
  /\ \A k \in 1 .. n : s[m + k] = v[k]

\* The values of a sequence made of two.
LEMMA Joined ==
  ASSUME NEW S, NEW u \in Seq(S), NEW v \in Seq(S), NEW m, m = Len(u), NEW n, n = Len(v)
  PROVE  Parts(S, u \o v, u, m, v, n)
<1> DEFINE s == u \o v
<1>1. m \in Nat /\ n \in Nat
  BY LenProperties
<1>2. /\ s \in Seq(S) /\ Len(s) = m + n
      /\ \A i \in 1 .. m + n : s[i] = IF i <= m THEN u[i] ELSE v[i - m]
  BY ConcatProperties
<1> HIDE DEF s
<1>3. \A k \in 1 .. m : s[k] = u[k]
  BY <1>1, <1>2
<1>4. \A k \in 1 .. n : s[m + k] = v[k]
  <2> SUFFICES ASSUME NEW k \in 1 .. n PROVE s[m + k] = v[k]
    OBVIOUS
  <2>1. m + k \in 1 .. m + n /\ ~(m + k <= m) /\ (m + k) - m = k
    BY <1>1
  <2> QED
    BY <1>2, <2>1
<1> QED
  BY <1>2, <1>3, <1>4 DEF s, Parts

\* The cases of the switch are distinct.
LEMMA Switch ==
  ASSUME NEW n \in Nat
  PROVE  /\ n \notin 1 .. 13 => Script(n) = <<say("Invalid tc_no")>>
         /\ n = 1 => Script(n) = <<kmalloc("vmxon_region")>> \o test_vmxon
         /\ n = 2 => Script(n) = <<exec("vmxoff")>>
         /\ n = 3 => Script(n) = test_pt_rdmsr \o test_pt_wrmsr
         /\ n = 4 => Script(n) = test_rdpmc
         /\ n = 5 => Script(n) = <<exec("invd"), say("invd executed")>>
         /\ n = 6 => Script(n) = <<exec("getsec"), say("getsec executed")>>
         /\ n = 7 => Script(n) = <<exec("monitor"), say("monitor executed")>>
         /\ n = 8 => Script(n) = <<exec("mwait"), say("mwait executed")>>
         /\ n = 9 => Script(n) = test_mpx
         /\ n = 10 => Script(n) = test_xsaves
         /\ n = 11 => Script(n) = test_xsetbv
         /\ n = 12 => Script(n) = <<exec("write_cr0"), say("read write cr0 succeeded.")>>
         /\ n = 13 => Script(n) = <<exec("write_cr4"), say("read write cr4 succeeded.")>>
<1>1. n \notin 1 .. 13 => Script(n) = <<say("Invalid tc_no")>>
  <2> SUFFICES ASSUME n \notin 1 .. 13 PROVE Script(n) = <<say("Invalid tc_no")>>
    OBVIOUS
  <2>1. /\ n # 1 /\ n # 2 /\ n # 3 /\ n # 4 /\ n # 5 /\ n # 6
        /\ n # 7 /\ n # 8 /\ n # 9 /\ n # 10 /\ n # 11 /\ n # 12 /\ n # 13
    OBVIOUS
  <2> QED
    BY <2>1, Zenon DEF Script
<1>2. n = 1 => Script(n) = <<kmalloc("vmxon_region")>> \o test_vmxon
  <2> SUFFICES ASSUME n = 1 PROVE Script(n) = <<kmalloc("vmxon_region")>> \o test_vmxon
    OBVIOUS
  <2>1. /\ n # 2 /\ n # 3 /\ n # 4 /\ n # 5 /\ n # 6 /\ n # 7
        /\ n # 8 /\ n # 9 /\ n # 10 /\ n # 11 /\ n # 12 /\ n # 13
    OBVIOUS
  <2> QED
    BY <2>1, Zenon DEF Script
<1>3. n = 2 => Script(n) = <<exec("vmxoff")>>
  <2> SUFFICES ASSUME n = 2 PROVE Script(n) = <<exec("vmxoff")>>
    OBVIOUS
  <2>1. /\ n # 1 /\ n # 3 /\ n # 4 /\ n # 5 /\ n # 6 /\ n # 7
        /\ n # 8 /\ n # 9 /\ n # 10 /\ n # 11 /\ n # 12 /\ n # 13
    OBVIOUS
  <2> QED
    BY <2>1, Zenon DEF Script
<1>4. n = 3 => Script(n) = test_pt_rdmsr \o test_pt_wrmsr
  <2> SUFFICES ASSUME n = 3 PROVE Script(n) = test_pt_rdmsr \o test_pt_wrmsr
    OBVIOUS
  <2>1. /\ n # 1 /\ n # 2 /\ n # 4 /\ n # 5 /\ n # 6 /\ n # 7
        /\ n # 8 /\ n # 9 /\ n # 10 /\ n # 11 /\ n # 12 /\ n # 13
    OBVIOUS
  <2> QED
    BY <2>1, Zenon DEF Script
<1>5. n = 4 => Script(n) = test_rdpmc
  <2> SUFFICES ASSUME n = 4 PROVE Script(n) = test_rdpmc
    OBVIOUS
  <2>1. /\ n # 1 /\ n # 2 /\ n # 3 /\ n # 5 /\ n # 6 /\ n # 7
        /\ n # 8 /\ n # 9 /\ n # 10 /\ n # 11 /\ n # 12 /\ n # 13
    OBVIOUS
  <2> QED
    BY <2>1, Zenon DEF Script
<1>6. n = 5 => Script(n) = <<exec("invd"), say("invd executed")>>
  <2> SUFFICES ASSUME n = 5 PROVE Script(n) = <<exec("invd"), say("invd executed")>>
    OBVIOUS
  <2>1. /\ n # 1 /\ n # 2 /\ n # 3 /\ n # 4 /\ n # 6 /\ n # 7
        /\ n # 8 /\ n # 9 /\ n # 10 /\ n # 11 /\ n # 12 /\ n # 13
    OBVIOUS
  <2> QED
    BY <2>1, Zenon DEF Script
<1>7. n = 6 => Script(n) = <<exec("getsec"), say("getsec executed")>>
  <2> SUFFICES ASSUME n = 6 PROVE Script(n) = <<exec("getsec"), say("getsec executed")>>
    OBVIOUS
  <2>1. /\ n # 1 /\ n # 2 /\ n # 3 /\ n # 4 /\ n # 5 /\ n # 7
        /\ n # 8 /\ n # 9 /\ n # 10 /\ n # 11 /\ n # 12 /\ n # 13
    OBVIOUS
  <2> QED
    BY <2>1, Zenon DEF Script
<1>8. n = 7 => Script(n) = <<exec("monitor"), say("monitor executed")>>
  <2> SUFFICES ASSUME n = 7 PROVE Script(n) = <<exec("monitor"), say("monitor executed")>>
    OBVIOUS
  <2>1. /\ n # 1 /\ n # 2 /\ n # 3 /\ n # 4 /\ n # 5 /\ n # 6
        /\ n # 8 /\ n # 9 /\ n # 10 /\ n # 11 /\ n # 12 /\ n # 13
    OBVIOUS
  <2> QED
    BY <2>1, Zenon DEF Script
<1>9. n = 8 => Script(n) = <<exec("mwait"), say("mwait executed")>>
  <2> SUFFICES ASSUME n = 8 PROVE Script(n) = <<exec("mwait"), say("mwait executed")>>
    OBVIOUS
  <2>1. /\ n # 1 /\ n # 2 /\ n # 3 /\ n # 4 /\ n # 5 /\ n # 6
        /\ n # 7 /\ n # 9 /\ n # 10 /\ n # 11 /\ n # 12 /\ n # 13
    OBVIOUS
  <2> QED
    BY <2>1, Zenon DEF Script
<1>10. n = 9 => Script(n) = test_mpx
  <2> SUFFICES ASSUME n = 9 PROVE Script(n) = test_mpx
    OBVIOUS
  <2>1. /\ n # 1 /\ n # 2 /\ n # 3 /\ n # 4 /\ n # 5 /\ n # 6
        /\ n # 7 /\ n # 8 /\ n # 10 /\ n # 11 /\ n # 12 /\ n # 13
    OBVIOUS
  <2> QED
    BY <2>1, Zenon DEF Script
<1>11. n = 10 => Script(n) = test_xsaves
  <2> SUFFICES ASSUME n = 10 PROVE Script(n) = test_xsaves
    OBVIOUS
  <2>1. /\ n # 1 /\ n # 2 /\ n # 3 /\ n # 4 /\ n # 5 /\ n # 6
        /\ n # 7 /\ n # 8 /\ n # 9 /\ n # 11 /\ n # 12 /\ n # 13
    OBVIOUS
  <2> QED
    BY <2>1, Zenon DEF Script
<1>12. n = 11 => Script(n) = test_xsetbv
  <2> SUFFICES ASSUME n = 11 PROVE Script(n) = test_xsetbv
    OBVIOUS
  <2>1. /\ n # 1 /\ n # 2 /\ n # 3 /\ n # 4 /\ n # 5 /\ n # 6
        /\ n # 7 /\ n # 8 /\ n # 9 /\ n # 10 /\ n # 12 /\ n # 13
    OBVIOUS
  <2> QED
    BY <2>1, Zenon DEF Script
<1>13. n = 12 => Script(n) = <<exec("write_cr0"), say("read write cr0 succeeded.")>>
  <2> SUFFICES ASSUME n = 12 PROVE Script(n) = <<exec("write_cr0"), say("read write cr0 succeeded.")>>
    OBVIOUS
  <2>1. /\ n # 1 /\ n # 2 /\ n # 3 /\ n # 4 /\ n # 5 /\ n # 6
        /\ n # 7 /\ n # 8 /\ n # 9 /\ n # 10 /\ n # 11 /\ n # 13
    OBVIOUS
  <2> QED
    BY <2>1, Zenon DEF Script
<1>14. n = 13 => Script(n) = <<exec("write_cr4"), say("read write cr4 succeeded.")>>
  <2> SUFFICES ASSUME n = 13 PROVE Script(n) = <<exec("write_cr4"), say("read write cr4 succeeded.")>>
    OBVIOUS
  <2>1. /\ n # 1 /\ n # 2 /\ n # 3 /\ n # 4 /\ n # 5 /\ n # 6
        /\ n # 7 /\ n # 8 /\ n # 9 /\ n # 10 /\ n # 11 /\ n # 12
    OBVIOUS
  <2> QED
    BY <2>1, Zenon DEF Script
<1> QED
  BY <1>1, <1>2, <1>3, <1>4, <1>5, <1>6, <1>7, <1>8, <1>9, <1>10, <1>11, <1>12, <1>13, <1>14, Zenon

\* test_vmxon, after the kmalloc of init_test_mode.
VmxonLines(s) ==
  /\ Len(s) = 6
  /\ s[1] = kmalloc("vmxon_region") /\ s[2] = exec("rdmsrl") /\ s[3] = Do("wrmsrl", 0)
  /\ s[4] = exec("write_cr4") /\ s[5] = exec("vmxon") /\ s[6] = say("vmxon succeed")

\* test_vmxon: allocation, the registers, vmxon, its line.
LEMMA VmxonScript == VmxonLines(Script(1))
<1> DEFINE a == kmalloc("vmxon_region") b == exec("rdmsrl") c == Do("wrmsrl", 0)
           d == exec("write_cr4") e == exec("vmxon") f == say("vmxon succeed")
           S == {a, b, c, d, e, f}
           u == <<a>>
           v == <<b, c, d, e, f>>
<1>1. Script(1) = u \o test_vmxon
  BY Switch
<1>2. test_vmxon = v
  BY DEF test_vmxon
<1> HIDE DEF a, b, c, d, e, f
<1>3. u \in Seq(S) /\ Len(u) = 1 /\ u[1] = a
  OBVIOUS
<1>4. /\ v \in Seq(S) /\ Len(v) = 5
      /\ v[1] = b /\ v[2] = c /\ v[3] = d /\ v[4] = e /\ v[5] = f
  OBVIOUS
<1> HIDE DEF u, v, S
<1>5. Parts(S, Script(1), u, 1, v, 5)
  BY <1>1, <1>2, <1>3, <1>4, Joined
<1>6. /\ Len(Script(1)) = 6
      /\ Script(1)[1] = a /\ Script(1)[2] = b /\ Script(1)[3] = c
      /\ Script(1)[4] = d /\ Script(1)[5] = e /\ Script(1)[6] = f
  BY <1>3, <1>4, <1>5 DEF Parts
<1> QED
  BY <1>6 DEF VmxonLines, a, b, c, d, e, f

\* test_rdpmc reads four counters.
RdpmcLines(s) ==
  /\ Len(s) = 5
  /\ \A k \in 1 .. 4 : s[k] = exec("rdpmc")
  /\ s[5] = say("rdpmc test PASS!")

\* test_rdpmc: four times rdpmc, and one line.
LEMMA RdpmcScript == RdpmcLines(Script(4))
<1> DEFINE a == exec("rdpmc") b == say("rdpmc test PASS!")
           S == {a, b}
           u == [k \in 1 .. 4 |-> a]
           v == <<b>>
<1>1. Script(4) = test_rdpmc
  BY Switch
<1>2. test_rdpmc = u \o v
  BY DEF test_rdpmc
<1> HIDE DEF a, b
<1>3. u \in Seq(S) /\ Len(u) = 4 /\ \A k \in 1 .. 4 : u[k] = a
  OBVIOUS
<1>4. v \in Seq(S) /\ Len(v) = 1 /\ v[1] = b
  OBVIOUS
<1> HIDE DEF u, v, S
<1>5. Parts(S, Script(4), u, 4, v, 1)
  BY <1>1, <1>2, <1>3, <1>4, Joined
<1>6. Script(4)[5] = b
  BY <1>4, <1>5 DEF Parts
<1>7. Len(Script(4)) = 5 /\ \A k \in 1 .. 4 : Script(4)[k] = u[k]
  BY <1>5 DEF Parts
<1>8. \A k \in 1 .. 4 : Script(4)[k] = a
  BY <1>3, <1>7
<1> QED
  BY <1>6, <1>7, <1>8, Zenon DEF RdpmcLines, a, b

\* test_pt reads all the MSRs, then writes them; each part ends with its line.
PtLines(s) ==
  /\ Len(s) = 28
  /\ \A k \in 1 .. 13 : s[k] = Do("rdmsr_safe", pt_msrs[k])
  /\ s[14] = say("rdmsr for PT msrs success")
  /\ \A k \in 1 .. 13 : s[14 + k] = Do("wrmsr_safe", pt_msrs[k])
  /\ s[28] = say("wrmsr success for PT MSRs")

\* The list of MSRs of test_pt has thirteen entries.
LEMMA PtMsrs == Len(pt_msrs) = 13 /\ DOMAIN pt_msrs = 1 .. 13
BY DEF pt_msrs

MsrLines(S, s, op, l) ==
  /\ s \in Seq(S) /\ Len(s) = 14 /\ s[14] = say(l)
  /\ \A k \in 1 .. 13 : s[k] = Do(op, pt_msrs[k])

\* An access of every MSR of the list, and the line after them.
LEMMA EachAndLine ==
  ASSUME NEW op, NEW l, NEW S, say(l) \in S, \A k \in 1 .. 13 : Do(op, pt_msrs[k]) \in S,
         NEW s, s = each(op, pt_msrs) \o <<say(l)>>
  PROVE  MsrLines(S, s, op, l)
<1> DEFINE b == say(l)
           u == [k \in 1 .. 13 |-> Do(op, pt_msrs[k])]
           v == <<b>>
<1>1. s = u \o v
  BY PtMsrs DEF each
<1>2. /\ u \in Seq(S) /\ Len(u) = 13 /\ \A k \in 1 .. 13 : u[k] = Do(op, pt_msrs[k])
  OBVIOUS
<1>3. b \in S /\ b = say(l)
  OBVIOUS
<1> HIDE DEF b, u
<1>4. v \in Seq(S) /\ Len(v) = 1 /\ v[1] = b
  BY <1>3
<1> HIDE DEF v
<1>5. Parts(S, s, u, 13, v, 1)
  BY <1>1, <1>2, <1>4, Joined, ZenonT(40)
<1>6. s[14] = b
  BY <1>4, <1>5 DEF Parts
<1>7. s \in Seq(S) /\ Len(s) = 14 /\ \A k \in 1 .. 13 : s[k] = u[k]
  BY <1>5 DEF Parts
<1>8. \A k \in 1 .. 13 : s[k] = Do(op, pt_msrs[k])
  BY <1>2, <1>7, Zenon
<1> QED
  BY <1>3, <1>6, <1>7, <1>8, Zenon DEF MsrLines

\* test_pt: every MSR read, a line, every MSR written, a line.
LEMMA PtScript == PtLines(Script(3))
<1> DEFINE u == test_pt_rdmsr
           v == test_pt_wrmsr
           S == {Do("rdmsr_safe", pt_msrs[k]) : k \in 1 .. 13}
                  \union {Do("wrmsr_safe", pt_msrs[k]) : k \in 1 .. 13}
                  \union {say("rdmsr for PT msrs success"), say("wrmsr success for PT MSRs")}
<1>1. /\ say("rdmsr for PT msrs success") \in S /\ say("wrmsr success for PT MSRs") \in S
      /\ \A k \in 1 .. 13 : Do("rdmsr_safe", pt_msrs[k]) \in S
      /\ \A k \in 1 .. 13 : Do("wrmsr_safe", pt_msrs[k]) \in S
  BY Zenon
<1> HIDE DEF S
<1>2. MsrLines(S, u, "rdmsr_safe", "rdmsr for PT msrs success")
  BY <1>1, EachAndLine DEF test_pt_rdmsr
<1>3. MsrLines(S, v, "wrmsr_safe", "wrmsr success for PT MSRs")
  BY <1>1, EachAndLine DEF test_pt_wrmsr
<1>4. Script(3) = u \o v
  BY Switch
<1> HIDE DEF u, v
<1>5. /\ u \in Seq(S) /\ Len(u) = 14 /\ v \in Seq(S) /\ Len(v) = 14
      /\ u[14] = say("rdmsr for PT msrs success") /\ v[14] = say("wrmsr success for PT MSRs")
  BY <1>2, <1>3, Zenon DEF MsrLines
<1>6. Parts(S, Script(3), u, 14, v, 14)
  <2> HIDE DEF MsrLines
  <2> QED
    BY <1>4, <1>5, Joined
<1>7. /\ Len(Script(3)) = 28 /\ Script(3)[14] = u[14] /\ Script(3)[28] = v[14]
      /\ \A k \in 1 .. 13 : Script(3)[k] = u[k] /\ Script(3)[14 + k] = v[k]
  BY <1>6 DEF Parts
<1> QED
  BY <1>2, <1>3, <1>5, <1>7, Zenon DEF MsrLines, PtLines

\* What the steps ask of the item s at place p of script n: where the script
\* allocates, where it may enter VMX operation, and what it prints at which end.
AtPlace(n, p, s) ==
  /\ s[1] = "kmalloc" => p = 1 /\ ((n = 1 /\ s[2] = "vmxon_region") \/ (n = 10 /\ s[2] = "fx"))
  /\ p = 1 /\ n \in {1, 10} => s[1] = "kmalloc"
  /\ s[1] = "exec" /\ s[2] = "vmxon" => n = 1 /\ p = 5
  /\ p = 3 /\ n = 11 => s[1] = "exec" /\ s[2] = "xsetbv_illegal"
  /\ s[1] = "say" /\ s[2] = "rdmsr for PT msrs success" => n = 3 /\ p = 14
  /\ s[1] = "say" /\ s[2] = "wrmsr success for PT MSRs" => n = 3 /\ p = 28
  /\ s[1] = "say" /\ s[2] = "Illegal xsetbv test is executed." => n = 11 /\ p = 4
  /\ s[1] \in {"rdmsr_safe", "wrmsr_safe"} => n \in {3, 9} /\ (n = 9 => s[2] = "BNDCFGS")

Lengths(n, m) ==
  /\ m \in Nat \ {0}
  /\ n = 1 => m = 6
  /\ n = 3 => m = 28
  /\ n = 9 => m = 4
  /\ n = 10 => m = 3

\* The items of a short list.
One(s, a)           == Len(s) = 1 /\ s[1] = a
Two(s, a, b)        == Len(s) = 2 /\ s[1] = a /\ s[2] = b
Three(s, a, b, c)   == Len(s) = 3 /\ s[1] = a /\ s[2] = b /\ s[3] = c
Four(s, a, b, c, d) == Len(s) = 4 /\ s[1] = a /\ s[2] = b /\ s[3] = c /\ s[4] = d

\* A script of one line.
LEMMA OneLine ==
  ASSUME NEW a, NEW s, s = <<a>>
  PROVE  One(s, a)
BY DEF One

\* A script of two.
LEMMA TwoLines ==
  ASSUME NEW a, NEW b, NEW s, s = <<a, b>>
  PROVE  Two(s, a, b)
BY DEF Two

\* A script of three.
LEMMA ThreeLines ==
  ASSUME NEW a, NEW b, NEW c, NEW s, s = <<a, b, c>>
  PROVE  Three(s, a, b, c)
BY DEF Three

\* A script of four.
LEMMA FourLines ==
  ASSUME NEW a, NEW b, NEW c, NEW d, NEW s, s = <<a, b, c, d>>
  PROVE  Four(s, a, b, c, d)
BY DEF Four

\* An instruction, and what is printed after it.
LEMMA ExecAndSay ==
  ASSUME NEW n \in Nat, n \notin {1, 3, 4, 9, 10, 11}, NEW o, o # "vmxon",
         NEW l, l \notin {"rdmsr for PT msrs success", "wrmsr success for PT MSRs",
                          "Illegal xsetbv test is executed."}
  PROVE  /\ \A p : AtPlace(n, p, exec(o))
         /\ \A p : AtPlace(n, p, say(l))
<1>1. \A p : AtPlace(n, p, exec(o))
  BY DEF AtPlace, exec, Do
<1>2. \A p : AtPlace(n, p, say(l))
  BY DEF AtPlace, say, Do
<1> QED
  BY <1>1, <1>2

\* The length of each script, and what stands at each of its places.
LEMMA Places ==
  ASSUME NEW n \in Nat, NEW s, s = Script(n), NEW m, m = Len(s)
  PROVE  Lengths(n, m) /\ \A p \in 1 .. m : AtPlace(n, p, s[p])
<1>1. CASE n \notin 1 .. 13
  <2>1. s = <<say("Invalid tc_no")>>
    BY <1>1, Switch
  <2>2. m = 1 /\ s[1] = say("Invalid tc_no")
    <3>1. One(s, say("Invalid tc_no"))
      BY <2>1, OneLine, Zenon
    <3> QED
      BY <3>1, Zenon DEF One
  <2>3. AtPlace(n, 1, say("Invalid tc_no"))
    BY <1>1 DEF AtPlace, say, Do
  <2>4. Lengths(n, 1)
    BY <1>1 DEF Lengths
  <2>5. AtPlace(n, 1, s[1])
    BY <2>2, <2>3, Zenon
  <2>6. \A p \in 1 .. 1 : AtPlace(n, p, s[p])
    BY <2>5
  <2> QED
    BY <2>2, <2>4, <2>6
<1>2. CASE n = 1
  <2>1. VmxonLines(s)
    BY <1>2, VmxonScript
  <2>2. m = 6
    BY <2>1 DEF VmxonLines
  <2>3. /\ s[1] = kmalloc("vmxon_region") /\ s[2] = exec("rdmsrl") /\ s[3] = Do("wrmsrl", 0)
        /\ s[4] = exec("write_cr4") /\ s[5] = exec("vmxon") /\ s[6] = say("vmxon succeed")
    BY <2>1, Zenon DEF VmxonLines
  <2>4. /\ AtPlace(1, 1, kmalloc("vmxon_region"))
        /\ AtPlace(1, 2, exec("rdmsrl"))
        /\ AtPlace(1, 3, Do("wrmsrl", 0))
        /\ AtPlace(1, 4, exec("write_cr4"))
        /\ AtPlace(1, 5, exec("vmxon"))
        /\ AtPlace(1, 6, say("vmxon succeed"))
    <3>1. \A x : AtPlace(1, 3, Do("wrmsrl", x))
      BY DEF AtPlace, Do
    <3>2. AtPlace(1, 1, kmalloc("vmxon_region"))
      BY DEF AtPlace, kmalloc, Do
    <3>3. AtPlace(1, 2, exec("rdmsrl")) /\ AtPlace(1, 4, exec("write_cr4"))
      BY DEF AtPlace, exec, Do
    <3>4. AtPlace(1, 5, exec("vmxon"))
      BY DEF AtPlace, exec, Do
    <3>5. AtPlace(1, 6, say("vmxon succeed"))
      BY DEF AtPlace, say, Do
    <3> QED
      BY <3>1, <3>2, <3>3, <3>4, <3>5, Zenon
  <2>5. AtPlace(1, 1, s[1]) /\ AtPlace(1, 2, s[2]) /\ AtPlace(1, 3, s[3]) /\ AtPlace(1, 4, s[4]) /\ AtPlace(1, 5, s[5]) /\ AtPlace(1, 6, s[6])
    BY <2>3, <2>4, Zenon
  <2>6. Lengths(1, 6)
    BY DEF Lengths
  <2>7. \A p \in 1 .. 6 : AtPlace(1, p, s[p])
    BY <2>5
  <2> QED
    BY <1>2, <2>2, <2>6, <2>7
<1>3. CASE n = 3
  <2>1. PtLines(s)
    BY <1>3, PtScript
  <2>2. m = 28
    BY <2>1 DEF PtLines
  <2>3. /\ AtPlace(3, 14, say("rdmsr for PT msrs success"))
        /\ AtPlace(3, 28, say("wrmsr success for PT MSRs"))
    BY DEF AtPlace, say, Do
  <2>4. \A p, msr : AtPlace(3, p, Do("rdmsr_safe", msr)) /\ AtPlace(3, p, Do("wrmsr_safe", msr))
    BY DEF AtPlace, Do
  <2>5. AtPlace(3, 14, s[14]) /\ AtPlace(3, 28, s[28])
    BY <2>1, <2>3, Zenon DEF PtLines
  <2>6. /\ \A k \in 1 .. 13 : AtPlace(3, k, s[k])
        /\ \A k \in 1 .. 13 : AtPlace(3, 14 + k, s[14 + k])
    <3>1. /\ \A k \in 1 .. 13 : s[k] = Do("rdmsr_safe", pt_msrs[k])
          /\ \A k \in 1 .. 13 : s[14 + k] = Do("wrmsr_safe", pt_msrs[k])
      BY <2>1, Zenon DEF PtLines
    <3>2. ASSUME NEW k \in 1 .. 13 PROVE AtPlace(3, k, s[k]) /\ AtPlace(3, 14 + k, s[14 + k])
      <4>1. s[k] = Do("rdmsr_safe", pt_msrs[k]) /\ s[14 + k] = Do("wrmsr_safe", pt_msrs[k])
        BY <3>1, Zenon
      <4> QED
        BY <2>4, <4>1, Zenon
    <3> QED
      BY <3>2
  <2>7. ASSUME NEW p \in 15 .. 27 PROVE AtPlace(3, p, s[p])
    <3>1. p - 14 \in 1 .. 13 /\ 14 + (p - 14) = p
      OBVIOUS
    <3>2. AtPlace(3, 14 + (p - 14), s[14 + (p - 14)])
      BY <2>6, <3>1, Zenon
    <3> QED
      BY <3>1, <3>2
  <2>8. \A p \in 1 .. 28 : AtPlace(3, p, s[p])
    <3>1. \A p \in 1 .. 13 : AtPlace(3, p, s[p])
      BY <2>6, Zenon
    <3>2. \A p \in {14, 28} : AtPlace(3, p, s[p])
      BY <2>5, Zenon
    <3>3. \A p \in 15 .. 27 : AtPlace(3, p, s[p])
      BY <2>7, Zenon
    <3>4. 1 .. 28 = (1 .. 13) \union {14, 28} \union (15 .. 27)
      OBVIOUS
    <3> QED
      BY <3>1, <3>2, <3>3, <3>4, Zenon
  <2>9. Lengths(3, 28)
    BY DEF Lengths
  <2> QED
    BY <1>3, <2>2, <2>8, <2>9
<1>4. CASE n = 4
  <2>1. RdpmcLines(s)
    BY <1>4, RdpmcScript
  <2>2. m = 5
    BY <2>1 DEF RdpmcLines
  <2>3. s[5] = say("rdpmc test PASS!") /\ \A k \in 1 .. 4 : s[k] = exec("rdpmc")
    BY <2>1, Zenon DEF RdpmcLines
  <2>4. AtPlace(4, 5, say("rdpmc test PASS!")) /\ \A k : AtPlace(4, k, exec("rdpmc"))
    BY DEF AtPlace, exec, say, Do
  <2>5. AtPlace(4, 5, s[5]) /\ \A k \in 1 .. 4 : AtPlace(4, k, s[k])
    BY <2>3, <2>4, Zenon
  <2>6. Lengths(4, 5)
    BY DEF Lengths
  <2>7. \A p \in 1 .. 5 : AtPlace(4, p, s[p])
    BY <2>5
  <2> QED
    BY <1>4, <2>2, <2>6, <2>7
<1>5. CASE n = 2
  <2>1. s = <<exec("vmxoff")>>
    BY <1>5, Switch
  <2>2. m = 1 /\ s[1] = exec("vmxoff")
    <3>1. One(s, exec("vmxoff"))
      BY <2>1, OneLine, Zenon
    <3> QED
      BY <3>1, Zenon DEF One
  <2>3. AtPlace(n, 1, exec("vmxoff")) /\ Lengths(n, 1)
    BY <1>5 DEF AtPlace, Lengths, exec, Do
  <2>4. AtPlace(n, 1, s[1])
    BY <2>2, <2>3, Zenon
  <2> QED
    BY <2>2, <2>3, <2>4
<1>6. CASE n = 9
  <2>1. s = <<Do("rdmsr_safe", "BNDCFGS"), say(""), Do("wrmsr_safe", "BNDCFGS"), say("")>>
    BY <1>6, Switch DEF test_mpx
  <2>2. /\ Len(s) = 4 /\ s[1] = Do("rdmsr_safe", "BNDCFGS") /\ s[2] = say("")
        /\ s[3] = Do("wrmsr_safe", "BNDCFGS") /\ s[4] = say("")
    <3>1. Four(s, Do("rdmsr_safe", "BNDCFGS"), say(""), Do("wrmsr_safe", "BNDCFGS"), say(""))
      BY <2>1, FourLines, Zenon
    <3> QED
      BY <3>1, Zenon DEF Four
  <2>3. /\ AtPlace(9, 1, Do("rdmsr_safe", "BNDCFGS"))
        /\ AtPlace(9, 2, say(""))
        /\ AtPlace(9, 3, Do("wrmsr_safe", "BNDCFGS"))
        /\ AtPlace(9, 4, say(""))
    BY DEF AtPlace, kmalloc, exec, say, Do
  <2>4. AtPlace(9, 1, s[1]) /\ AtPlace(9, 2, s[2]) /\ AtPlace(9, 3, s[3]) /\ AtPlace(9, 4, s[4])
    BY <2>2, <2>3, Zenon
  <2>5. Lengths(9, 4)
    BY DEF Lengths
  <2>6. \A p \in 1 .. 4 : AtPlace(9, p, s[p])
    BY <2>4
  <2> QED
    BY <1>6, <2>2, <2>5, <2>6
<1>7. CASE n = 10
  <2>1. s = <<kmalloc("fx"), exec("xsaves"), say("xsaves is executed.")>>
    BY <1>7, Switch DEF test_xsaves
  <2>2. Len(s) = 3 /\ s[1] = kmalloc("fx") /\ s[2] = exec("xsaves") /\ s[3] = say("xsaves is executed.")
    <3>1. Three(s, kmalloc("fx"), exec("xsaves"), say("xsaves is executed."))
      BY <2>1, ThreeLines, Zenon
    <3> QED
      BY <3>1, Zenon DEF Three
  <2>3. /\ AtPlace(10, 1, kmalloc("fx"))
        /\ AtPlace(10, 2, exec("xsaves"))
        /\ AtPlace(10, 3, say("xsaves is executed."))
    BY DEF AtPlace, kmalloc, exec, say, Do
  <2>4. AtPlace(10, 1, s[1]) /\ AtPlace(10, 2, s[2]) /\ AtPlace(10, 3, s[3])
    BY <2>2, <2>3, Zenon
  <2>5. Lengths(10, 3)
    BY DEF Lengths
  <2>6. \A p \in 1 .. 3 : AtPlace(10, p, s[p])
    BY <2>4
  <2> QED
    BY <1>7, <2>2, <2>5, <2>6
<1>8. CASE n = 11
  <2>1. s = <<exec("xsetbv"), say("Legal xsetbv test is executed."),
              exec("xsetbv_illegal"), say("Illegal xsetbv test is executed.")>>
    BY <1>8, Switch DEF test_xsetbv
  <2>2. /\ Len(s) = 4 /\ s[1] = exec("xsetbv") /\ s[2] = say("Legal xsetbv test is executed.")
        /\ s[3] = exec("xsetbv_illegal") /\ s[4] = say("Illegal xsetbv test is executed.")
    <3>1. Four(s, exec("xsetbv"), say("Legal xsetbv test is executed."), exec("xsetbv_illegal"), say("Illegal xsetbv test is executed."))
      BY <2>1, FourLines, Zenon
    <3> QED
      BY <3>1, Zenon DEF Four
  <2>3. /\ AtPlace(11, 1, exec("xsetbv"))
        /\ AtPlace(11, 2, say("Legal xsetbv test is executed."))
        /\ AtPlace(11, 3, exec("xsetbv_illegal"))
        /\ AtPlace(11, 4, say("Illegal xsetbv test is executed."))
    BY DEF AtPlace, kmalloc, exec, say, Do
  <2>4. AtPlace(11, 1, s[1]) /\ AtPlace(11, 2, s[2]) /\ AtPlace(11, 3, s[3]) /\ AtPlace(11, 4, s[4])
    BY <2>2, <2>3, Zenon
  <2>5. Lengths(11, 4)
    BY DEF Lengths
  <2>6. \A p \in 1 .. 4 : AtPlace(11, p, s[p])
    BY <2>4
  <2> QED
    BY <1>8, <2>2, <2>5, <2>6
<1>9. CASE n \in {5, 6, 7, 8, 12, 13}
  <2>1. PICK o, l :
          /\ s = <<exec(o), say(l)>>
          /\ o \in {"invd", "getsec", "monitor", "mwait", "write_cr0", "write_cr4"}
          /\ l \in {"invd executed", "getsec executed", "monitor executed", "mwait executed",
                    "read write cr0 succeeded.", "read write cr4 succeeded."}
    <3>1. CASE n = 5
      BY <3>1, Switch
    <3>2. CASE n = 6
      BY <3>2, Switch
    <3>3. CASE n = 7
      BY <3>3, Switch
    <3>4. CASE n = 8
      BY <3>4, Switch
    <3>5. CASE n = 12
      BY <3>5, Switch
    <3>6. CASE n = 13
      BY <3>6, Switch
    <3> QED
      BY <1>9, <3>1, <3>2, <3>3, <3>4, <3>5, <3>6
  <2>2. Len(s) = 2 /\ s[1] = exec(o) /\ s[2] = say(l)
    <3>1. Two(s, exec(o), say(l))
      BY <2>1, TwoLines, Zenon
    <3> QED
      BY <3>1, Zenon DEF Two
  <2>3. n \notin {1, 3, 4, 9, 10, 11}
    BY <1>9
  <2>4. o # "vmxon" /\ l \notin {"rdmsr for PT msrs success", "wrmsr success for PT MSRs",
                                 "Illegal xsetbv test is executed."}
    BY <2>1
  <2>5. AtPlace(n, 1, exec(o)) /\ AtPlace(n, 2, say(l))
    BY <2>3, <2>4, ExecAndSay, Zenon
  <2>6. AtPlace(n, 1, s[1]) /\ AtPlace(n, 2, s[2])
    BY <2>2, <2>5, Zenon
  <2>7. Lengths(n, 2)
    BY <1>9 DEF Lengths
  <2>8. \A p \in 1 .. 2 : AtPlace(n, p, s[p])
    BY <2>6
  <2> QED
    BY <2>2, <2>7, <2>8
<1> QED
  BY <1>1, <1>2, <1>3, <1>4, <1>5, <1>6, <1>7, <1>8, <1>9

IsItem(s, op, arg) == s[1] = op /\ s[2] = arg

\* The parts of an instruction of a script.
LEMMA ItemParts ==
  ASSUME NEW op, NEW arg, NEW s, s = Do(op, arg)
  PROVE  IsItem(s, op, arg)
BY DEF Do, IsItem

\* Nothing but MSRs and two lines in test_pt, and in test_mpx.
LEMMA PtPlaces ==
  ASSUME NEW s, s = Script(3)
  PROVE  /\ \A k \in 1 .. 13 : s[k][1] = "rdmsr_safe" /\ s[k][2] = pt_msrs[k]
         /\ \A k \in 15 .. 27 : s[k][1] = "wrmsr_safe" /\ s[k][2] = pt_msrs[k - 14]
         /\ s[14][1] = "say" /\ s[28][1] = "say"
<1>1. PtLines(s)
  BY PtScript
<1>2. /\ \A k \in 1 .. 13 : s[k] = Do("rdmsr_safe", pt_msrs[k])
      /\ \A k \in 1 .. 13 : s[14 + k] = Do("wrmsr_safe", pt_msrs[k])
      /\ s[14] = say("rdmsr for PT msrs success") /\ s[28] = say("wrmsr success for PT MSRs")
  BY <1>1, Zenon DEF PtLines
<1>3. /\ \A k \in 1 .. 13 : s[k][1] = "rdmsr_safe" /\ s[k][2] = pt_msrs[k]
      /\ \A k \in 1 .. 13 : s[14 + k][1] = "wrmsr_safe" /\ s[14 + k][2] = pt_msrs[k]
      /\ s[14][1] = "say" /\ s[28][1] = "say"
  <2>1. s[14][1] = "say" /\ s[28][1] = "say"
    <3>1. /\ IsItem(s[14], "say", "rdmsr for PT msrs success")
          /\ IsItem(s[28], "say", "wrmsr success for PT MSRs")
      BY <1>2, ItemParts, Zenon DEF say
    <3> QED
      BY <3>1, Zenon DEF IsItem
  <2>2. ASSUME NEW k \in 1 .. 13
        PROVE  /\ s[k][1] = "rdmsr_safe" /\ s[k][2] = pt_msrs[k]
               /\ s[14 + k][1] = "wrmsr_safe" /\ s[14 + k][2] = pt_msrs[k]
    <3>1. s[k] = Do("rdmsr_safe", pt_msrs[k]) /\ s[14 + k] = Do("wrmsr_safe", pt_msrs[k])
      BY <1>2, Zenon
    <3>2. /\ IsItem(s[k], "rdmsr_safe", pt_msrs[k])
          /\ IsItem(s[14 + k], "wrmsr_safe", pt_msrs[k])
      BY <3>1, ItemParts, Zenon
    <3> QED
      BY <3>2, Zenon DEF IsItem
  <2> QED
    BY <2>1, <2>2, Zenon
<1>4. ASSUME NEW k \in 15 .. 27
      PROVE  s[k][1] = "wrmsr_safe" /\ s[k][2] = pt_msrs[k - 14]
  <2>1. k - 14 \in 1 .. 13 /\ 14 + (k - 14) = k
    OBVIOUS
  <2>2. s[14 + (k - 14)][1] = "wrmsr_safe" /\ s[14 + (k - 14)][2] = pt_msrs[k - 14]
    BY <1>3, <2>1, Zenon
  <2> QED
    BY <2>1, <2>2
<1> QED
  BY <1>3, <1>4, Zenon

\* test_pt has nothing but guarded accesses and lines.
LEMMA PtOps ==
  \A p \in 1 .. 28 : Script(3)[p][1] \in {"rdmsr_safe", "wrmsr_safe", "say"}
<1> SUFFICES ASSUME NEW p \in 1 .. 28, NEW s, s = Script(3)
             PROVE  s[p][1] \in {"rdmsr_safe", "wrmsr_safe", "say"}
  OBVIOUS
<1>1. /\ \A k \in 1 .. 13 : s[k][1] = "rdmsr_safe"
      /\ \A k \in 15 .. 27 : s[k][1] = "wrmsr_safe"
      /\ s[14][1] = "say" /\ s[28][1] = "say"
  BY PtPlaces
<1>2. p \in 1 .. 13 \/ p = 14 \/ p \in 15 .. 27 \/ p = 28
  OBVIOUS
<1> QED
  BY <1>1, <1>2, Zenon

\* test_mpx: read, a line, write, a line.
LEMMA MpxPlaces ==
  ASSUME NEW s, s = Script(9)
  PROVE  s[1][1] = "rdmsr_safe" /\ s[2][1] = "say" /\ s[3][1] = "wrmsr_safe" /\ s[4][1] = "say"
<1>1. s = <<Do("rdmsr_safe", "BNDCFGS"), say(""), Do("wrmsr_safe", "BNDCFGS"), say("")>>
  BY Switch DEF test_mpx
<1>2. Four(s, Do("rdmsr_safe", "BNDCFGS"), say(""), Do("wrmsr_safe", "BNDCFGS"), say(""))
  BY <1>1, FourLines, Zenon
<1>3. /\ s[1] = Do("rdmsr_safe", "BNDCFGS") /\ s[2] = say("")
      /\ s[3] = Do("wrmsr_safe", "BNDCFGS") /\ s[4] = say("")
  BY <1>2, Zenon DEF Four
<1>4. /\ IsItem(s[1], "rdmsr_safe", "BNDCFGS") /\ IsItem(s[2], "say", "")
      /\ IsItem(s[3], "wrmsr_safe", "BNDCFGS") /\ IsItem(s[4], "say", "")
  BY <1>3, ItemParts, Zenon DEF say
<1> QED
  BY <1>4, Zenon DEF IsItem

\* After an error the test goes on behind the next line it would print.
LEMMA TheNextLine ==
  ASSUME NEW s, NEW m \in Nat, NEW p \in Nat, NEW e \in p .. m, s[e][1] = "say",
         \A q \in p .. e - 1 : s[q][1] # "say"
  PROVE  e = CHOOSE x \in p .. m : s[x][1] = "say" /\ \A q \in p .. x - 1 : s[q][1] # "say"
<1> DEFINE First(x) == s[x][1] = "say" /\ \A q \in p .. x - 1 : s[q][1] # "say"
<1>1. First(e)
  OBVIOUS
<1>2. ASSUME NEW x \in p .. m, First(x) PROVE x = e
  <2>1. ~(x < e)
    <3> SUFFICES ASSUME x < e PROVE FALSE
      OBVIOUS
    <3>1. x \in p .. e - 1
      OBVIOUS
    <3> QED
      BY <1>2, <3>1, Zenon
  <2>2. ~(e < x)
    <3> SUFFICES ASSUME e < x PROVE FALSE
      OBVIOUS
    <3>1. e \in p .. x - 1
      OBVIOUS
    <3> QED
      BY <1>2, <3>1, Zenon
  <2> QED
    BY <2>1, <2>2
<1> HIDE DEF First
<1>3. e = CHOOSE x \in p .. m : First(x)
  BY <1>1, <1>2
<1> QED
  BY <1>3, Zenon DEF First

\* Where a refused rdmsr_safe or wrmsr_safe goes on.
LEMMA Skips ==
  ASSUME NEW n \in {3, 9}, n = tc_no, NEW p \in Nat, p = pc, NEW s, s = Script(n),
         p \in 1 .. Len(s), s[p][1] \in {"rdmsr_safe", "wrmsr_safe"}
  PROVE  /\ AfterSay \in p + 1 .. Len(s) + 1
         /\ n = 3 => (p < 14 /\ AfterSay = 15) \/ (p > 14 /\ AfterSay = 29)
<1> DEFINE m == Len(s)
<1>1. Lengths(n, m)
  BY Places
<1>2. m \in Nat /\ p \in 1 .. m
  BY <1>1 DEF Lengths
<1>3. ASSUME NEW e \in p .. m, s[e][1] = "say", \A q \in p .. e - 1 : s[q][1] # "say"
      PROVE  AfterSay = 1 + e
  <2>1. e = CHOOSE x \in p .. m : s[x][1] = "say" /\ \A q \in p .. x - 1 : s[q][1] # "say"
    BY <1>2, <1>3, TheNextLine
  <2> QED
    BY <2>1, Zenon DEF AfterSay
<1> HIDE DEF m
<1>4. CASE n = 3
  <2>1. m = 28
    BY <1>1, <1>4 DEF Lengths
  <2>2. /\ \A k \in 1 .. 13 : s[k][1] = "rdmsr_safe"
        /\ \A k \in 15 .. 27 : s[k][1] = "wrmsr_safe"
        /\ s[14][1] = "say" /\ s[28][1] = "say"
    BY <1>4, PtPlaces, Zenon
  <2>3. "rdmsr_safe" # "say" /\ "wrmsr_safe" # "say"
    OBVIOUS
  <2>4. p # 14 /\ p # 28
    BY <2>2, <2>3
  <2>5. CASE p < 14
    <3>1. \A q \in p .. 13 : q \in 1 .. 13
      BY <1>2
    <3>2. \A q \in p .. 13 : s[q][1] # "say"
      BY <2>2, <2>3, <3>1, Zenon
    <3>3. 14 \in p .. m /\ 14 - 1 = 13
      BY <1>2, <2>1, <2>5
    <3>4. AfterSay = 1 + 14
      BY <1>3, <2>2, <3>2, <3>3
    <3> QED
      BY <1>2, <2>1, <2>5, <3>4 DEF m
  <2>6. CASE p > 14
    <3>1. \A q \in p .. 27 : q \in 15 .. 27
      BY <1>2, <2>6
    <3>2. \A q \in p .. 27 : s[q][1] # "say"
      BY <2>2, <2>3, <3>1, Zenon
    <3>3. 28 \in p .. m /\ 28 - 1 = 27
      BY <1>2, <2>1, <2>6
    <3>4. AfterSay = 1 + 28
      BY <1>3, <2>2, <3>2, <3>3
    <3> QED
      BY <1>2, <2>1, <2>6, <3>4 DEF m
  <2> QED
    BY <1>2, <2>4, <2>5, <2>6
<1>5. CASE n = 9
  <2>1. m = 4
    BY <1>1, <1>5 DEF Lengths
  <2>2. s[1][1] = "rdmsr_safe" /\ s[2][1] = "say" /\ s[3][1] = "wrmsr_safe" /\ s[4][1] = "say"
    BY <1>5, MpxPlaces, Zenon
  <2>3. "rdmsr_safe" # "say" /\ "wrmsr_safe" # "say"
    OBVIOUS
  <2>4. p \in {1, 3}
    BY <1>2, <2>1, <2>2
  <2>5. p + 1 \in p .. m /\ (p + 1) - 1 = p
    BY <2>1, <2>4
  <2>6. s[p + 1][1] = "say" /\ \A q \in p .. p : s[q][1] # "say"
    BY <2>2, <2>3, <2>4
  <2>7. AfterSay = 1 + (p + 1)
    BY <1>3, <2>5, <2>6
  <2>8. AfterSay \in p + 1 .. m + 1
    <3>1. p \in Nat /\ p <= 3
      BY <2>4
    <3> QED
      BY <2>1, <2>7, <3>1
  <2>9. n # 3
    BY <1>5
  <2> QED
    BY <2>8, <2>9, Zenon DEF m
<1> QED
  BY <1>4, <1>5

-----------------------------------------------------------------------------
(***************************************************************************)
(* The steps.                                                              *)
(***************************************************************************)
LEMMA TheLoads ==
  ASSUME TestModTypeOK, Present => Loaded > 0
  PROVE  /\ Loaded \in Nat /\ \A k \in 1 .. Loaded : tcs[k] \in TestCases
         /\ Present => tc_no \in TestCases /\ tc_no \in Nat /\ tcs # <<>>
<1>1. tcs \in Seq(TestCases) /\ TestCases \subseteq Nat
  BY TestModuleAssumption DEF TestModTypeOK
<1>2. Loaded \in Nat /\ \A k \in 1 .. Loaded : tcs[k] \in TestCases
  BY <1>1, LenProperties, ElementOfSeq DEF Loaded
<1>3. ASSUME Present PROVE tc_no \in TestCases /\ tcs # <<>>
  <2>1. Loaded > 0
    BY <1>3
  <2>2. Loaded \in 1 .. Loaded
    BY <1>2, <2>1
  <2>3. tcs # <<>>
    BY <2>1 DEF Loaded
  <2> QED
    BY <1>2, <2>2, <2>3, Zenon DEF tc_no
<1> QED
  BY <1>1, <1>2, <1>3

\* Where a running test stands.
LEMMA Here ==
  ASSUME ModuleInv, Running, NEW n, n = tc_no, NEW s, s = Script(n), NEW m, m = Len(s)
  PROVE  /\ n \in Nat /\ Loaded \in Nat /\ Loaded > 0 /\ Present /\ module = "init"
         /\ m \in Nat /\ pc \in 1 .. m
         /\ Lengths(n, m) /\ AtPlace(n, pc, s[pc])
<1>1. module = "init" /\ pc <= m
  BY DEF Running
<1>2. Present /\ Loaded > 0
  BY <1>1 DEF ModuleInv, Present
<1>3. n \in Nat /\ Loaded \in Nat /\ tcs # <<>>
  BY <1>2, TheLoads DEF ModuleInv
<1>4. pc \in 1 .. m + 1
  BY <1>3 DEF ModuleInv, TestModTypeOK
<1>5. Lengths(n, m) /\ \A p \in 1 .. m : AtPlace(n, p, s[p])
  BY <1>3, Places, Zenon
<1>6. m \in Nat
  BY <1>5 DEF Lengths
<1>7. pc \in 1 .. m
  BY <1>1, <1>4, <1>6
<1>8. AtPlace(n, pc, s[pc])
  BY <1>5, <1>7, Zenon
<1> QED
  BY <1>1, <1>2, <1>3, <1>5, <1>6, <1>7, <1>8

\* What holds of the heap and of the region as long as the test goes on and
\* allocates nothing.
LEMMA Onward ==
  ASSUME ModuleInv, Running, ~Now("kmalloc"),
         UNCHANGED <<tcs, module, heap, vmxon_region>>,
         pc' \in pc + 1 .. Len(Script(tc_no)) + 1,
         tc_no = 11 => pc # 3 /\ pc' = pc + 1,
         \A c \in Cpus : vmx'[c] = vmx[c] \/ (tc_no = 1 /\ pc = 5) \/ vmx'[c] = 0
  PROVE  /\ (Present => Loaded > 0)' /\ HeapNow' /\ RegionNow' /\ RegionInUse'
         /\ InitReturned' /\ NeverPast'
         /\ (tcs # <<>> => pc \in 1 .. Len(Script(tc_no)) + 1)'
<1> DEFINE n == tc_no
           s == Script(n)
           m == Len(s)
<1>1. /\ n \in Nat /\ Loaded \in Nat /\ Loaded > 0 /\ Present /\ module = "init"
      /\ m \in Nat /\ pc \in 1 .. m
      /\ Lengths(n, m) /\ AtPlace(n, pc, s[pc])
  BY Here, Zenon
<1>2. /\ Loaded' = Loaded /\ tc_no' = n /\ Present' = Present /\ module' = "init"
      /\ Len(Script(tc_no))' = m
  BY <1>1 DEF Loaded, tc_no, Present
<1>3. s[pc][1] # "kmalloc"
  BY DEF Now
<1> HIDE DEF n, m
<1>4. pc > 1 \/ n \notin {1, 10}
  <2>1. pc = 1 => n \notin {1, 10}
    BY <1>1, <1>3, Zenon DEF AtPlace
  <2> QED
    BY <1>1, <2>1
<1>5. pc' > pc /\ pc' \in Nat /\ pc' > 1
  BY <1>1 DEF n, m
<1>6. HeapNow'
  <2>1. Saved' = Saved
    <3>1. ASSUME NEW k, k = Loaded, tcs[k] = 10 PROVE pc > 1 /\ pc' > 1
      BY <1>4, <1>5, <3>1 DEF n, tc_no
    <3>2. Saved = {k \in 1 .. Loaded : tcs[k] = 10}
      BY <3>1, Zenon DEF Saved
    <3>3. Saved' = {k \in 1 .. Loaded : tcs[k] = 10}
      BY <1>2, <3>1, Zenon DEF Saved
    <3> QED
      BY <3>2, <3>3
  <2>2. Region' = Region
    BY <1>2 DEF Region
  <2> QED
    BY <2>1, <2>2, Zenon DEF ModuleInv, HeapNow
<1>7. RegionNow'
  <2>1. vmxon_region = IF n = 1 /\ pc > 1 THEN Loaded ELSE 0
    BY <1>1, Zenon DEF ModuleInv, RegionNow, n
  <2>2. vmxon_region = IF n = 1 /\ pc' > 1 THEN Loaded ELSE 0
    BY <1>4, <1>5, <2>1
  <2> QED
    BY <1>2, <2>2, Zenon DEF RegionNow
<1>8. RegionInUse'
  <2>1. ASSUME NEW c \in Cpus, vmx'[c] = Loaded PROVE n = 1 /\ pc' > 5
    <3>1. vmx[c] = Loaded => n = 1 /\ pc > 5
      BY <1>1, Zenon DEF ModuleInv, RegionInUse, n
    <3>2. vmx'[c] = vmx[c] \/ (n = 1 /\ pc = 5)
      BY <1>1, <2>1 DEF n
    <3> QED
      BY <1>1, <1>5, <2>1, <3>1, <3>2
  <2> QED
    BY <1>2, <2>1, Zenon DEF RegionInUse
<1>9. NeverPast'
  <2>1. n = 11 => pc <= 3 /\ pc # 3
    BY <1>1 DEF ModuleInv, NeverPast, n
  <2>2. n = 11 => pc' <= 3
    <3>1. n = 11 => pc' = pc + 1
      BY DEF n
    <3> QED
      BY <1>1, <2>1, <3>1
  <2> QED
    BY <1>2, <2>2, Zenon DEF NeverPast
<1>10. InitReturned'
  BY <1>2 DEF InitReturned
<1>11. (tcs # <<>> => pc \in 1 .. Len(Script(tc_no)) + 1)'
  BY <1>1, <1>2, <1>5 DEF n, m
<1> QED
  BY <1>1, <1>2, <1>6, <1>7, <1>8, <1>9, <1>10, <1>11

\* The tests that are not test_pt, an instruction further.
LEMMA Runs ==
  ASSUME ModuleInv, Running, ~Now("kmalloc"), ~Now("say"), ~Now("rdmsr_safe"), ~Now("wrmsr_safe"),
         GoOn, Kept, tc_no = 11 => pc # 3,
         \A c \in Cpus : vmx'[c] = vmx[c] \/ (tc_no = 1 /\ pc = 5) \/ vmx'[c] = 0,
         fctl' \in [Cpus -> SUBSET test_bits], vmxe' \in [Cpus -> BOOLEAN],
         vmx' \in [Cpus -> 0 .. Loaded], counted' \in BOOLEAN
  PROVE  ModuleInv'
<1> DEFINE n == tc_no
           s == Script(n)
           m == Len(s)
<1>1. /\ n \in Nat /\ Loaded \in Nat /\ Loaded > 0 /\ Present /\ module = "init"
      /\ m \in Nat /\ pc \in 1 .. m
      /\ Lengths(n, m) /\ AtPlace(n, pc, s[pc])
  BY Here, Zenon
<1>2. /\ UNCHANGED <<denied, tcs, module, cpu, heap, vmxon_region, said>> /\ pc' = pc + 1
      /\ Loaded' = Loaded /\ tc_no' = n
  BY DEF GoOn, Kept, Loaded, tc_no
<1>3. pc' \in pc + 1 .. Len(Script(tc_no)) + 1
  BY <1>1, <1>2
<1>4. /\ (Present => Loaded > 0)' /\ HeapNow' /\ RegionNow' /\ RegionInUse'
      /\ InitReturned' /\ NeverPast'
      /\ (tcs # <<>> => pc \in 1 .. Len(Script(tc_no)) + 1)'
  <2>1. tc_no = 11 => pc # 3 /\ pc' = pc + 1
    BY <1>2
  <2> QED
    BY <1>2, <1>3, <2>1, Onward, Zenon
<1>5. n # 3
  <2>1. /\ s[pc][1] # "say" /\ s[pc][1] # "rdmsr_safe" /\ s[pc][1] # "wrmsr_safe"
    BY Zenon DEF Now
  <2> SUFFICES ASSUME n = 3 PROVE FALSE
    OBVIOUS
  <2>2. pc \in 1 .. 28
    BY <1>1 DEF Lengths
  <2>3. Script(3)[pc][1] \in {"rdmsr_safe", "wrmsr_safe", "say"}
    BY <2>2, PtOps, Zenon
  <2> QED
    BY <2>1, <2>3, Zenon
<1>6. NoneRefused'
  BY <1>2, <1>5 DEF NoneRefused
<1>7. TestModTypeOK'
  <2>1. /\ denied' \subseteq Refusable /\ tcs' \in Seq(TestCases)
        /\ module' \in {"out", "init", "live", "stuck"} /\ cpu' \in Cpus
        /\ heap' \subseteq {"fx", "vmxon_region"} \X (1 .. Loaded')
        /\ vmxon_region' \in {0, Loaded'} /\ vmx' \in [Cpus -> 0 .. Loaded']
    BY <1>2, Zenon DEF ModuleInv, TestModTypeOK
  <2> QED
    BY <1>4, <2>1, Zenon DEF TestModTypeOK
<1>8. SaidTruly'
  BY <1>2, Zenon DEF ModuleInv, SaidTruly
<1> QED
  BY <1>4, <1>6, <1>7, <1>8, Zenon DEF ModuleInv

\* init is killed where it stands, and what it did stays.
LEMMA Killed ==
  ASSUME ModuleInv, Running, Oops, Kept, UNCHANGED <<machine, counted>>
  PROVE  ModuleInv'
<1> DEFINE n == tc_no
           s == Script(n)
           m == Len(s)
<1>1. /\ n \in Nat /\ Loaded \in Nat /\ Loaded > 0 /\ Present /\ module = "init"
      /\ m \in Nat /\ pc \in 1 .. m
      /\ Lengths(n, m) /\ AtPlace(n, pc, s[pc])
  BY Here, Zenon
<1>2. /\ UNCHANGED <<denied, tcs, cpu, pc, heap, vmxon_region, said, fctl, vmxe, vmx, counted>>
      /\ module' = "stuck" /\ Loaded' = Loaded /\ tc_no' = n /\ Present'
  BY DEF Oops, Kept, machine, Loaded, tc_no, Present
<1>3. TestModTypeOK'
  <2>1. /\ module' \in {"out", "init", "live", "stuck"}
        /\ (tcs # <<>> => pc \in 1 .. Len(Script(tc_no)) + 1)'
    BY <1>2, Zenon DEF ModuleInv, TestModTypeOK
  <2> QED
    BY <1>2, <2>1, Zenon DEF ModuleInv, TestModTypeOK
<1>4. HeapNow'
  <2>1. Saved' = Saved /\ Region' = Region
    BY <1>1, <1>2 DEF Saved, Region
  <2> QED
    BY <1>2, <2>1, Zenon DEF ModuleInv, HeapNow
<1>5. RegionNow' /\ RegionInUse' /\ NeverPast'
  BY <1>1, <1>2, Zenon DEF ModuleInv, RegionNow, RegionInUse, NeverPast
<1>6. InitReturned' /\ NoneRefused' /\ SaidTruly' /\ (Present => Loaded > 0)'
  BY <1>1, <1>2 DEF ModuleInv, InitReturned, NoneRefused, SaidTruly
<1> QED
  BY <1>3, <1>4, <1>5, <1>6, Zenon DEF ModuleInv

\* An instruction that is executed: the xsetbv that is illegal never is.
LEMMA Instruction ==
  ASSUME ModuleInv, NEW ins, Executed(ins),
         \A c \in Cpus : vmx'[c] = vmx[c] \/ (tc_no = 1 /\ pc = 5) \/ vmx'[c] = 0,
         fctl' \in [Cpus -> SUBSET test_bits], vmxe' \in [Cpus -> BOOLEAN],
         vmx' \in [Cpus -> 0 .. Loaded], counted' \in BOOLEAN
  PROVE  ModuleInv'
<1>1. Running /\ Now("exec") /\ Arg = ins /\ ~Faults(ins) /\ GoOn /\ Kept
  BY Zenon DEF Executed, Now
<1>2. ~Now("kmalloc") /\ ~Now("say") /\ ~Now("rdmsr_safe") /\ ~Now("wrmsr_safe")
  BY <1>1, Zenon DEF Now
<1>3. AtPlace(tc_no, pc, Script(tc_no)[pc])
  BY <1>1, Here, Zenon
<1>4. tc_no = 11 => pc # 3
  BY <1>1, <1>3, Zenon DEF AtPlace, Faults, Arg
<1> QED
  BY <1>1, <1>2, <1>4, Runs, Zenon

\* The types of what the machine remembers.
LEMMA MachineTypes ==
  ASSUME ModuleInv, Running
  PROVE  /\ fctl \in [Cpus -> SUBSET test_bits] /\ vmxe \in [Cpus -> BOOLEAN]
         /\ vmx \in [Cpus -> 0 .. Loaded] /\ counted \in BOOLEAN /\ cpu \in Cpus
         /\ Loaded \in Nat /\ vmxon_region \in {0, Loaded}
<1>1. Loaded \in Nat
  BY Here, Zenon
<1> QED
  BY <1>1, Zenon DEF ModuleInv, TestModTypeOK

\* An instruction that leaves nothing.
LEMMA ExecuteStep ==
  ASSUME ModuleInv, Execute
  PROVE  ModuleInv'
<1>1. PICK ins \in Plain : Executed(ins)
  BY Zenon DEF Execute
<1>2. UNCHANGED <<fctl, vmxe, vmx, counted>> /\ Running
  BY <1>1 DEF Execute, machine, Executed, Now
<1>3. /\ fctl \in [Cpus -> SUBSET test_bits] /\ vmxe \in [Cpus -> BOOLEAN]
      /\ vmx \in [Cpus -> 0 .. Loaded] /\ counted \in BOOLEAN
  BY <1>2, MachineTypes
<1> QED
  BY <1>1, <1>2, <1>3, Instruction, Zenon

\* rdpmc, which is refused or not.
LEMMA RdpmcStep ==
  ASSUME ModuleInv, rdpmc
  PROVE  ModuleInv'
<1>1. Executed("rdpmc") /\ UNCHANGED <<fctl, vmxe, vmx>> /\ Running
  BY DEF rdpmc, machine, Executed, Now
<1>2. /\ fctl \in [Cpus -> SUBSET test_bits] /\ vmxe \in [Cpus -> BOOLEAN]
      /\ vmx \in [Cpus -> 0 .. Loaded] /\ counted \in BOOLEAN
  BY <1>1, MachineTypes
<1>3. counted' \in BOOLEAN
  BY <1>2, Zenon DEF rdpmc
<1> QED
  BY <1>1, <1>2, <1>3, Instruction, Zenon

\* CR4.VMXE is set.
LEMMA WriteCr4Step ==
  ASSUME ModuleInv, WriteCr4
  PROVE  ModuleInv'
<1>1. Executed("write_cr4") /\ UNCHANGED <<fctl, vmx, counted>> /\ Running
  BY DEF WriteCr4, Executed, Now
<1>2. /\ fctl \in [Cpus -> SUBSET test_bits] /\ vmxe \in [Cpus -> BOOLEAN]
      /\ vmx \in [Cpus -> 0 .. Loaded] /\ counted \in BOOLEAN
  BY <1>1, MachineTypes
<1>3. vmxe' \in [Cpus -> BOOLEAN]
  BY <1>2, Zenon DEF WriteCr4
<1> QED
  BY <1>1, <1>2, <1>3, Instruction, Zenon

\* vmxon, which may fail without being refused.
LEMMA VmxonStep ==
  ASSUME ModuleInv, Vmxon
  PROVE  ModuleInv'
<1>1. /\ Executed("vmxon") /\ UNCHANGED <<fctl, vmxe, counted>> /\ Running
      /\ Now("exec") /\ Arg = "vmxon"
  BY DEF Vmxon, Executed, Now
<1>2. /\ fctl \in [Cpus -> SUBSET test_bits] /\ vmxe \in [Cpus -> BOOLEAN]
      /\ vmx \in [Cpus -> 0 .. Loaded] /\ counted \in BOOLEAN /\ cpu \in Cpus
      /\ Loaded \in Nat /\ vmxon_region \in {0, Loaded}
  BY <1>1, MachineTypes
<1>3. tc_no = 1 /\ pc = 5
  <2>1. AtPlace(tc_no, pc, Script(tc_no)[pc])
    BY <1>1, Here, Zenon
  <2> QED
    BY <1>1, <2>1, Zenon DEF AtPlace, Now, Arg
<1>4. vmx' \in [Cpus -> 0 .. Loaded]
  BY <1>2 DEF Vmxon
<1> QED
  BY <1>1, <1>2, <1>3, <1>4, Instruction, Zenon

\* vmxoff leaves VMX operation, if the vCPU is in it.
LEMMA VmxoffStep ==
  ASSUME ModuleInv, Vmxoff
  PROVE  ModuleInv'
<1>1. Executed("vmxoff") /\ UNCHANGED <<fctl, vmxe, counted>> /\ Running
  BY DEF Vmxoff, Executed, Now
<1>2. /\ fctl \in [Cpus -> SUBSET test_bits] /\ vmxe \in [Cpus -> BOOLEAN]
      /\ vmx \in [Cpus -> 0 .. Loaded] /\ counted \in BOOLEAN /\ cpu \in Cpus
      /\ Loaded \in Nat
  BY <1>1, MachineTypes
<1>3. vmx' \in [Cpus -> 0 .. Loaded] /\ \A c \in Cpus : vmx'[c] = vmx[c] \/ vmx'[c] = 0
  BY <1>2 DEF Vmxoff
<1> QED
  BY <1>1, <1>2, <1>3, Instruction, Zenon

\* IA32_FEATURE_CONTROL is written.
LEMMA WriteFeatureControlStep ==
  ASSUME ModuleInv, WriteFeatureControl
  PROVE  ModuleInv'
<1>1. /\ Now("wrmsrl") /\ Running /\ Kept /\ UNCHANGED <<vmxe, vmx, counted>>
      /\ GoOn \/ (Oops /\ UNCHANGED fctl)
  BY Zenon DEF WriteFeatureControl, Now
<1>2. /\ fctl \in [Cpus -> SUBSET test_bits] /\ vmxe \in [Cpus -> BOOLEAN]
      /\ vmx \in [Cpus -> 0 .. Loaded] /\ counted \in BOOLEAN /\ cpu \in Cpus
  BY <1>1, MachineTypes
<1>3. CASE GoOn
  <2>1. fctl' \in [Cpus -> SUBSET test_bits]
    BY <1>2 DEF WriteFeatureControl
  <2>2. ~Now("kmalloc") /\ ~Now("say") /\ ~Now("rdmsr_safe") /\ ~Now("wrmsr_safe")
    BY <1>1, Zenon DEF Now
  <2>3. AtPlace(tc_no, pc, Script(tc_no)[pc])
    BY <1>1, Here, Zenon
  <2>4. tc_no = 11 => pc # 3
    BY <1>1, <2>3, Zenon DEF AtPlace, Now
  <2> QED
    BY <1>1, <1>2, <1>3, <2>1, <2>2, <2>4, Runs, Zenon
<1>4. CASE Oops /\ UNCHANGED fctl
  <2>1. UNCHANGED <<machine, counted>>
    BY <1>1, <1>4 DEF machine
  <2> QED
    BY <1>1, <1>4, <2>1, Killed, Zenon
<1> QED
  BY <1>1, <1>3, <1>4

\* Any other exception kills init.
LEMMA ExceptionStep ==
  ASSUME ModuleInv, Exception
  PROVE  ModuleInv'
BY Killed, Zenon DEF Exception, Now

\* kmalloc of the region.
LEMMA AllocStep ==
  ASSUME ModuleInv, Alloc
  PROVE  ModuleInv'
<1> DEFINE n == tc_no
           s == Script(n)
           m == Len(s)
<1>1. Now("kmalloc") /\ Running /\ GoOn /\ s[pc][1] = "kmalloc" /\ Arg = s[pc][2]
  BY Zenon DEF Alloc, Now, Arg
<1>2. /\ n \in Nat /\ Loaded \in Nat /\ Loaded > 0 /\ Present /\ module = "init"
      /\ m \in Nat /\ pc \in 1 .. m
      /\ Lengths(n, m) /\ AtPlace(n, pc, s[pc])
  BY <1>1, Here, Zenon
<1>3. pc = 1 /\ ((n = 1 /\ Arg = "vmxon_region") \/ (n = 10 /\ Arg = "fx"))
  BY <1>1, <1>2, Zenon DEF AtPlace
<1>4. /\ UNCHANGED <<denied, tcs, module, cpu, fctl, vmxe, vmx, counted, said>> /\ pc' = 2
      /\ Loaded' = Loaded /\ tc_no' = n /\ Present' /\ module' = "init"
      /\ Len(Script(tc_no))' = m
  BY <1>1, <1>2, <1>3 DEF Alloc, GoOn, machine, Loaded, tc_no, Present
<1>5. heap' = heap \union {<<Arg, Loaded>>}
  BY DEF Alloc
<1>6. vmxon_region' = IF n = 1 THEN Loaded ELSE 0
  <2>1. vmxon_region = 0
    BY <1>2, <1>3 DEF ModuleInv, RegionNow
  <2>2. vmxon_region' = IF Arg = "vmxon_region" THEN Loaded ELSE vmxon_region
    BY Zenon DEF Alloc
  <2>3. Arg = "vmxon_region" <=> n = 1
    BY <1>3
  <2> QED
    BY <2>1, <2>2, <2>3, Zenon
<1>7. m \in {3, 6} /\ n # 3 /\ n # 11
  BY <1>2, <1>3 DEF Lengths
<1>8. Region = {} /\ Region' = {<<"vmxon_region", l>> : l \in {k \in {Loaded} : n = 1}}
  <2>1. vmxon_region = 0
    BY <1>2, <1>3 DEF ModuleInv, RegionNow
  <2>2. Region = {}
    BY <2>1 DEF Region
  <2>3. {k \in {vmxon_region'} : Present' /\ k # 0} = {k \in {Loaded} : n = 1}
    BY <1>2, <1>4, <1>6
  <2> QED
    BY <2>2, <2>3, Zenon DEF Region
<1>9. Saved' = Saved \union {k \in {Loaded} : n = 10}
  <2>1. Saved = {k \in 1 .. Loaded : tcs[k] = 10 /\ k # Loaded}
    BY <1>2, <1>3 DEF Saved
  <2>2. Saved' = {k \in 1 .. Loaded : tcs[k] = 10}
    BY <1>4 DEF Saved
  <2>3. {k \in 1 .. Loaded : tcs[k] = 10}
          = {k \in 1 .. Loaded : tcs[k] = 10 /\ k # Loaded} \union {k \in {Loaded} : n = 10}
    BY <1>2 DEF tc_no
  <2> QED
    BY <2>1, <2>2, <2>3
<1> HIDE DEF n, s, m
<1>10. HeapNow'
  <2>1. heap = {<<"fx", l>> : l \in Saved}
    BY <1>8, Zenon DEF ModuleInv, HeapNow
  <2>2. CASE n = 1 /\ Arg = "vmxon_region"
    <3>1. Saved' = Saved /\ Region' = {<<"vmxon_region", Loaded>>}
      BY <1>8, <1>9, <2>2
    <3> QED
      BY <1>5, <2>1, <2>2, <3>1, Zenon DEF HeapNow
  <2>3. CASE n = 10 /\ Arg = "fx"
    <3>1. Saved' = Saved \union {Loaded} /\ Region' = {}
      BY <1>8, <1>9, <2>3
    <3>2. {<<"fx", l>> : l \in Saved \union {Loaded}} = heap \union {<<"fx", Loaded>>}
      BY <2>1, Zenon
    <3>3. heap' = {<<"fx", l>> : l \in Saved'} \union Region'
      BY <1>5, <2>3, <3>1, <3>2
    <3> QED
      BY <3>3, Zenon DEF HeapNow
  <2> QED
    BY <1>3, <2>2, <2>3
<1>11. RegionNow'
  <2>1. 2 > 1
    OBVIOUS
  <2> QED
    BY <1>4, <1>6, <2>1, Zenon DEF RegionNow
<1>12. RegionInUse'
  <2>1. \A c \in Cpus : vmx[c] # Loaded
    BY <1>2, <1>3 DEF ModuleInv, RegionInUse
  <2> QED
    BY <1>4, <2>1, Zenon DEF RegionInUse
<1>13. NoneRefused' /\ NeverPast' /\ InitReturned' /\ SaidTruly' /\ (Present => Loaded > 0)'
  BY <1>2, <1>4, <1>7 DEF ModuleInv, NoneRefused, NeverPast, InitReturned, SaidTruly
<1>14. TestModTypeOK'
  <2>1. /\ denied' \subseteq Refusable /\ tcs' \in Seq(TestCases)
        /\ module' \in {"out", "init", "live", "stuck"} /\ cpu' \in Cpus
        /\ fctl' \in [Cpus -> SUBSET test_bits] /\ vmxe' \in [Cpus -> BOOLEAN]
        /\ vmx' \in [Cpus -> 0 .. Loaded'] /\ counted' \in BOOLEAN
    BY <1>4, Zenon DEF ModuleInv, TestModTypeOK
  <2>2. (tcs # <<>> => pc \in 1 .. Len(Script(tc_no)) + 1)'
    BY <1>4, <1>7
  <2>3. vmxon_region' \in {0, Loaded'}
    BY <1>4, <1>6
  <2>4. heap' \subseteq {"fx", "vmxon_region"} \X (1 .. Loaded')
    <3>1. heap \subseteq {"fx", "vmxon_region"} \X (1 .. Loaded)
      BY Zenon DEF ModuleInv, TestModTypeOK
    <3>2. Arg \in {"fx", "vmxon_region"} /\ Loaded \in 1 .. Loaded
      BY <1>2, <1>3
    <3> QED
      BY <1>4, <1>5, <3>1, <3>2
  <2> QED
    BY <2>1, <2>2, <2>3, <2>4, Zenon DEF TestModTypeOK
<1> QED
  BY <1>10, <1>11, <1>12, <1>13, <1>14, Zenon DEF ModuleInv

\* init returns after the last item of its script.
LEMMA InitReturnsStep ==
  ASSUME ModuleInv, InitReturns
  PROVE  ModuleInv'
<1>1. /\ UNCHANGED <<denied, tcs, cpu, pc, heap, vmxon_region, fctl, vmxe, vmx, counted, said>>
      /\ module = "init" /\ module' = "live" /\ pc > Len(Script(tc_no))
  BY DEF InitReturns, machine
<1>2. Present /\ Present' /\ Loaded' = Loaded /\ tc_no' = tc_no
  BY <1>1 DEF Present, Loaded, tc_no
<1>3. TestModTypeOK'
  <2>1. /\ module' \in {"out", "init", "live", "stuck"}
        /\ (tcs # <<>> => pc \in 1 .. Len(Script(tc_no)) + 1)'
    BY <1>1, <1>2, Zenon DEF ModuleInv, TestModTypeOK
  <2> QED
    BY <1>1, <1>2, <2>1, Zenon DEF ModuleInv, TestModTypeOK
<1>4. HeapNow'
  <2>1. Saved' = Saved /\ Region' = Region
    BY <1>1, <1>2 DEF Saved, Region
  <2> QED
    BY <1>1, <2>1, Zenon DEF ModuleInv, HeapNow
<1>5. RegionNow' /\ RegionInUse' /\ NeverPast'
  BY <1>1, <1>2, Zenon DEF ModuleInv, RegionNow, RegionInUse, NeverPast
<1>6. InitReturned' /\ NoneRefused' /\ SaidTruly' /\ (Present => Loaded > 0)'
  BY <1>1, <1>2 DEF ModuleInv, InitReturned, NoneRefused, SaidTruly
<1> QED
  BY <1>3, <1>4, <1>5, <1>6, Zenon DEF ModuleInv

\* exit_test_mode frees the region that this load allocated.
LEMMA ExitStep ==
  ASSUME ModuleInv, exit_test_mode
  PROVE  ModuleInv'
<1>1. /\ UNCHANGED <<denied, tcs, cpu, pc, vmxon_region, fctl, vmxe, vmx, counted, said>>
      /\ module = "live" /\ module' = "out" /\ heap' = kfree
  BY DEF exit_test_mode, machine
<1>2. Present /\ ~Present' /\ Loaded' = Loaded /\ tc_no' = tc_no /\ Loaded \in Nat /\ Loaded > 0
  BY <1>1, TheLoads DEF ModuleInv, Present, Loaded, tc_no
<1>3. tc_no \in Nat /\ pc \in Nat /\ (tc_no = 10 => pc > 1)
  <2>1. tc_no \in Nat /\ tcs # <<>>
    BY <1>2, TheLoads, Zenon DEF ModuleInv
  <2>2. Lengths(tc_no, Len(Script(tc_no)))
    BY <2>1, Places, Zenon
  <2>3. pc > Len(Script(tc_no)) /\ pc \in 1 .. Len(Script(tc_no)) + 1
    BY <1>1, <2>1 DEF ModuleInv, InitReturned, TestModTypeOK
  <2> QED
    BY <2>1, <2>2, <2>3 DEF Lengths
<1>4. HeapNow'
  <2>1. Saved = {k \in 1 .. Loaded : tcs[k] = 10}
    BY <1>3 DEF Saved, tc_no
  <2>2. Saved' = {k \in 1 .. Loaded : tcs[k] = 10} /\ Region' = {}
    BY <1>1, <1>2 DEF Saved, Region
  <2>3. heap = {<<"fx", l>> : l \in Saved} \union Region
    BY Zenon DEF ModuleInv, HeapNow
  <2>4. Region \subseteq {<<"vmxon_region", vmxon_region>>}
    BY DEF Region
  <2>5. \A l : <<"fx", l>> # <<"vmxon_region", vmxon_region>>
    OBVIOUS
  <2>6. kfree = {<<"fx", l>> : l \in Saved}
    BY <2>3, <2>4, <2>5, Zenon DEF kfree
  <2>7. heap' = {<<"fx", l>> : l \in Saved'} \union Region'
    BY <1>1, <2>1, <2>2, <2>6
  <2> QED
    BY <2>7, Zenon DEF HeapNow
<1>5. TestModTypeOK'
  <2>1. heap' \subseteq heap
    BY <1>1 DEF kfree
  <2>2. /\ denied' \subseteq Refusable /\ tcs' \in Seq(TestCases) /\ cpu' \in Cpus
        /\ module' \in {"out", "init", "live", "stuck"}
        /\ (tcs # <<>> => pc \in 1 .. Len(Script(tc_no)) + 1)'
        /\ vmxon_region' \in {0, Loaded'}
        /\ fctl' \in [Cpus -> SUBSET test_bits] /\ vmxe' \in [Cpus -> BOOLEAN]
        /\ vmx' \in [Cpus -> 0 .. Loaded'] /\ counted' \in BOOLEAN
    BY <1>1, <1>2, Zenon DEF ModuleInv, TestModTypeOK
  <2>3. heap' \subseteq {"fx", "vmxon_region"} \X (1 .. Loaded')
    BY <1>2, <2>1, Zenon DEF ModuleInv, TestModTypeOK
  <2> QED
    BY <2>2, <2>3, Zenon DEF TestModTypeOK
<1>6. /\ RegionNow' /\ RegionInUse' /\ NeverPast' /\ InitReturned' /\ NoneRefused'
      /\ SaidTruly' /\ (Present => Loaded > 0)'
  BY <1>1, <1>2 DEF ModuleInv, RegionNow, RegionInUse, NeverPast, InitReturned, NoneRefused,
                    SaidTruly
<1> QED
  BY <1>4, <1>5, <1>6, Zenon DEF ModuleInv

\* A load begins, with fresh data, on a machine that remembers.
LEMMA InsmodStep ==
  ASSUME ModuleInv, NEW n \in TestCases, NEW c \in Cpus, insmod(n, c)
  PROVE  ModuleInv'
<1>1. /\ UNCHANGED <<denied, heap, fctl, vmxe, vmx, said>> /\ module = "out" /\ module' = "init"
      /\ tcs' = Append(tcs, n) /\ cpu' = c /\ pc' = 1 /\ vmxon_region' = 0 /\ counted' = FALSE
  BY DEF insmod, machine
<1>2. ~Present /\ Present' /\ Loaded \in Nat
  BY <1>1, TheLoads DEF ModuleInv, Present
<1>3. /\ Loaded' = Loaded + 1 /\ tc_no' = n /\ tcs' \in Seq(TestCases) /\ tcs' # <<>>
      /\ \A k \in 1 .. Loaded : tcs'[k] = tcs[k]
  <2>1. tcs \in Seq(TestCases)
    BY DEF ModuleInv, TestModTypeOK
  <2>2. /\ Append(tcs, n) \in Seq(TestCases) /\ Append(tcs, n) # <<>>
        /\ Len(Append(tcs, n)) = Len(tcs) + 1
        /\ \A k \in 1 .. Len(tcs) : Append(tcs, n)[k] = tcs[k]
        /\ Append(tcs, n)[Len(tcs) + 1] = n
    BY <2>1, AppendProperties
  <2> QED
    BY <1>1, <2>2, Zenon DEF Loaded, tc_no
<1>4. n \in Nat /\ Lengths(n, Len(Script(n)))
  <2>1. n \in Nat
    BY TestModuleAssumption
  <2> QED
    BY <2>1, Places, Zenon
<1>5. \A d \in Cpus : vmx[d] \in 0 .. Loaded
  BY Zenon DEF ModuleInv, TestModTypeOK
<1>6. HeapNow'
  <2>1. Saved = {k \in 1 .. Loaded : tcs[k] = 10} /\ Region = {}
    BY <1>2 DEF Saved, Region
  <2>2. Saved' = {k \in 1 .. Loaded : tcs[k] = 10}
    <3>1. Saved' = {k \in 1 .. Loaded + 1 : tcs'[k] = 10 /\ k # Loaded + 1}
      <4>1. ~(1 > 1)
        OBVIOUS
      <4>2. \A k : (k = Loaded' /\ Present' => pc' > 1) <=> k # Loaded + 1
        BY <1>1, <1>2, <1>3, <4>1, Zenon
      <4> QED
        BY <1>3, <4>2, Zenon DEF Saved
    <3> QED
      BY <1>2, <1>3, <3>1
  <2>3. Region' = {}
    BY <1>1 DEF Region
  <2>4. Saved' = Saved /\ Region' = Region
    BY <2>1, <2>2, <2>3
  <2> QED
    BY <1>1, <2>4, Zenon DEF ModuleInv, HeapNow
<1>7. RegionNow'
  <2>1. ~(1 > 1)
    OBVIOUS
  <2> QED
    BY <1>1, <2>1, Zenon DEF RegionNow
<1>8. RegionInUse'
  <2>1. \A d \in Cpus : vmx[d] # Loaded + 1
    BY <1>2, <1>5
  <2> QED
    BY <1>1, <1>3, <2>1, Zenon DEF RegionInUse
<1>9. NoneRefused'
  <2>1. \A k \in DOMAIN pt_msrs : ~(k < pc')
    BY <1>1, PtMsrs
  <2>2. pc' \notin 15 .. 28
    BY <1>1
  <2> QED
    BY <2>1, <2>2, Zenon DEF NoneRefused
<1>10. NeverPast' /\ InitReturned' /\ SaidTruly' /\ (Present => Loaded > 0)'
  <2>1. InitReturned' /\ SaidTruly'
    BY <1>1, Zenon DEF ModuleInv, InitReturned, SaidTruly
  <2>2. NeverPast'
    BY <1>1 DEF NeverPast
  <2> QED
    BY <1>2, <1>3, <2>1, <2>2
<1>11. TestModTypeOK'
  <2>1. /\ denied' \subseteq Refusable /\ tcs' \in Seq(TestCases) /\ cpu' \in Cpus
        /\ module' \in {"out", "init", "live", "stuck"}
        /\ fctl' \in [Cpus -> SUBSET test_bits] /\ vmxe' \in [Cpus -> BOOLEAN]
        /\ counted' \in BOOLEAN
    BY <1>1, <1>3, Zenon DEF ModuleInv, TestModTypeOK
  <2>2. (tcs # <<>> => pc \in 1 .. Len(Script(tc_no)) + 1)'
    BY <1>1, <1>3, <1>4 DEF Lengths
  <2>3. vmxon_region' \in {0, Loaded'}
    BY <1>1
  <2>4. heap' \subseteq {"fx", "vmxon_region"} \X (1 .. Loaded')
    <3>1. heap \subseteq {"fx", "vmxon_region"} \X (1 .. Loaded)
      BY Zenon DEF ModuleInv, TestModTypeOK
    <3>2. 1 .. Loaded \subseteq 1 .. Loaded'
      BY <1>2, <1>3
    <3> QED
      BY <1>1, <3>1, <3>2
  <2>5. vmx' \in [Cpus -> 0 .. Loaded']
    <3>1. vmx \in [Cpus -> 0 .. Loaded]
      BY Zenon DEF ModuleInv, TestModTypeOK
    <3>2. 0 .. Loaded \subseteq 0 .. Loaded'
      BY <1>2, <1>3
    <3> QED
      BY <1>1, <3>1, <3>2
  <2> QED
    BY <2>1, <2>2, <2>3, <2>4, <2>5, Zenon DEF TestModTypeOK
<1> QED
  BY <1>6, <1>7, <1>8, <1>9, <1>10, <1>11, Zenon DEF ModuleInv

\* What a line says is so, where it can be wrong and the test does not mislead.
LEMMA LineIsTrue ==
  ASSUME ModuleInv, Now("say")
  PROVE  So(Arg) \/ Arg \in {"vmxon succeed", "rdpmc test PASS!"}
<1> DEFINE n == tc_no
           s == Script(n)
           m == Len(s)
<1>1. Running /\ s[pc][1] = "say" /\ Arg = s[pc][2]
  BY Zenon DEF Now, Arg
<1>2. /\ n \in Nat /\ Present /\ module = "init"
      /\ m \in Nat /\ pc \in 1 .. m
      /\ Lengths(n, m) /\ AtPlace(n, pc, s[pc])
  BY <1>1, Here, Zenon
<1>3. CASE Arg = "rdmsr for PT msrs success"
  <2>1. n = 3 /\ pc = 14
    BY <1>1, <1>2, <1>3, Zenon DEF AtPlace
  <2>2. \A k \in DOMAIN pt_msrs : k < pc => ~Refused("rdmsr_safe", k)
    <3>1. pc <= 14
      BY <2>1
    <3> QED
      BY <1>2, <2>1, <3>1, Zenon DEF ModuleInv, NoneRefused
  <2>3. \A k \in DOMAIN pt_msrs : k < pc
    BY <2>1, PtMsrs
  <2>4. \A k \in DOMAIN pt_msrs : ~Refused("rdmsr_safe", k)
    BY <2>2, <2>3, Zenon
  <2>5. So("rdmsr for PT msrs success")
    BY <2>4, Zenon DEF So
  <2> QED
    BY <1>3, <2>5, Zenon
<1>4. CASE Arg = "wrmsr success for PT MSRs"
  <2>1. n = 3 /\ pc = 28
    BY <1>1, <1>2, <1>4, Zenon DEF AtPlace
  <2>2. \A k \in DOMAIN pt_msrs : k < pc - 14 => ~Refused("wrmsr_safe", k)
    <3>1. pc \in 15 .. 28
      BY <2>1
    <3> QED
      BY <1>2, <2>1, <3>1, Zenon DEF ModuleInv, NoneRefused
  <2>3. \A k \in DOMAIN pt_msrs : k < pc - 14
    BY <2>1, PtMsrs
  <2>4. \A k \in DOMAIN pt_msrs : ~Refused("wrmsr_safe", k)
    BY <2>2, <2>3, Zenon
  <2>5. So("wrmsr success for PT MSRs")
    BY <2>4, Zenon DEF So
  <2> QED
    BY <1>4, <2>5, Zenon
<1>5. ~(4 <= 3)
  OBVIOUS
<1>6. Arg # "Illegal xsetbv test is executed."
  <2> SUFFICES ASSUME Arg = "Illegal xsetbv test is executed." PROVE FALSE
    OBVIOUS
  <2>1. n = 11 /\ pc = 4
    BY <1>1, <1>2, Zenon DEF AtPlace
  <2>2. pc <= 3
    BY <1>2, <2>1, Zenon DEF ModuleInv, NeverPast
  <2> QED
    BY <1>5, <2>1, <2>2, Zenon
<1>7. CASE Arg \notin {"rdmsr for PT msrs success", "wrmsr success for PT MSRs",
                       "vmxon succeed", "rdpmc test PASS!"}
  <2>1. /\ Arg # "rdmsr for PT msrs success" /\ Arg # "wrmsr success for PT MSRs"
        /\ Arg # "vmxon succeed" /\ Arg # "rdpmc test PASS!"
    BY <1>7, Zenon
  <2>2. So(Arg) = (Arg # "Illegal xsetbv test is executed.")
    BY <2>1, Zenon DEF So
  <2> QED
    BY <1>6, <2>2, Zenon
<1> QED
  BY <1>3, <1>4, <1>7, Zenon

Truly(s) == s[2] \/ s[1] \in {"vmxon succeed", "rdpmc test PASS!"}

\* The two lines that SaidTruly excepts, or one that is so.
LEMMA Lines ==
  ASSUME NEW line, NEW b, b \/ line \in {"vmxon succeed", "rdpmc test PASS!"}
  PROVE  Truly(<<line, b>>)
<1>1. <<line, b>>[1] = line /\ <<line, b>>[2] = b
  OBVIOUS
<1> QED
  BY <1>1, Zenon DEF Truly

\* A line is printed, and what it says is so.
LEMMA SayStep ==
  ASSUME ModuleInv, Say
  PROVE  ModuleInv'
<1> DEFINE n == tc_no
           s == Script(n)
           m == Len(s)
<1>1. /\ Now("say") /\ Running /\ s[pc][1] = "say" /\ ~Now("kmalloc")
      /\ said' = said \union {<<Arg, So(Arg)>>}
  BY Zenon DEF Say, Now
<1>2. /\ n \in Nat /\ Loaded \in Nat /\ Loaded > 0 /\ Present /\ module = "init"
      /\ m \in Nat /\ pc \in 1 .. m
      /\ Lengths(n, m) /\ AtPlace(n, pc, s[pc])
  BY <1>1, Here, Zenon
<1>3. /\ UNCHANGED <<denied, tcs, module, cpu, heap, vmxon_region, fctl, vmxe, vmx, counted>>
      /\ pc' = pc + 1 /\ Loaded' = Loaded /\ tc_no' = n
  BY DEF Say, GoOn, machine, Loaded, tc_no
<1>4. tc_no = 11 => pc # 3 /\ pc' = pc + 1
  BY <1>1, <1>2, <1>3, Zenon DEF AtPlace
<1>5. /\ (Present => Loaded > 0)' /\ HeapNow' /\ RegionNow' /\ RegionInUse'
      /\ InitReturned' /\ NeverPast'
      /\ (tcs # <<>> => pc \in 1 .. Len(Script(tc_no)) + 1)'
  <2>1. pc' \in pc + 1 .. Len(Script(tc_no)) + 1
    BY <1>2, <1>3
  <2> QED
    BY <1>1, <1>3, <1>4, <2>1, Onward, Zenon
<1>6. TestModTypeOK'
  <2>1. /\ denied' \subseteq Refusable /\ tcs' \in Seq(TestCases)
        /\ module' \in {"out", "init", "live", "stuck"} /\ cpu' \in Cpus
        /\ heap' \subseteq {"fx", "vmxon_region"} \X (1 .. Loaded')
        /\ vmxon_region' \in {0, Loaded'} /\ vmx' \in [Cpus -> 0 .. Loaded']
        /\ fctl' \in [Cpus -> SUBSET test_bits] /\ vmxe' \in [Cpus -> BOOLEAN]
        /\ counted' \in BOOLEAN
    BY <1>3, Zenon DEF ModuleInv, TestModTypeOK
  <2> QED
    BY <1>5, <2>1, Zenon DEF TestModTypeOK
<1>7. NoneRefused'
  <2> SUFFICES ASSUME n = 3 PROVE NoneRefused'
    BY <1>3, Zenon DEF NoneRefused
  <2>1. pc \in 1 .. 28
    BY <1>2 DEF Lengths
  <2>2. pc \in {14, 28}
    <3>1. /\ \A k \in 1 .. 13 : s[k][1] = "rdmsr_safe"
          /\ \A k \in 15 .. 27 : s[k][1] = "wrmsr_safe"
      BY PtPlaces
    <3>2. pc \notin 1 .. 13 /\ pc \notin 15 .. 27
      BY <1>1, <3>1, Zenon
    <3> QED
      BY <2>1, <3>2
  <2>3. pc' \in {15, 29}
    BY <1>3, <2>2
  <2>4. ~(pc' <= 14)
    BY <2>3
  <2>5. \A k \in DOMAIN pt_msrs : pc' \in 15 .. 28 => ~(k < pc' - 14)
    BY <2>3, PtMsrs
  <2> QED
    BY <2>4, <2>5, Zenon DEF NoneRefused
<1>8. SaidTruly'
  <2>1. So(Arg) \/ Arg \in {"vmxon succeed", "rdpmc test PASS!"}
    BY <1>1, LineIsTrue, Zenon
  <2>2. Truly(<<Arg, So(Arg)>>)
    BY <2>1, Lines, Zenon
  <2> QED
    BY <1>1, <2>2, Zenon DEF ModuleInv, SaidTruly, Truly
<1> QED
  BY <1>5, <1>6, <1>7, <1>8, Zenon DEF ModuleInv

\* In test_pt: the MSR at hand is the first that is refused, if it is; if it is
\* not, one more of the list is not.
LEMMA PtAccess ==
  ASSUME ModuleInv, Running, tc_no = 3, NEW s, s = Script(3)[pc],
         s[1] \in {"rdmsr_safe", "wrmsr_safe"}
  PROVE  /\ s \in denied => FirstRefused(s[1], s[2])
         /\ s \notin denied =>
              /\ pc + 1 <= 14 => \A k \in DOMAIN pt_msrs : k < pc + 1 => ~Refused("rdmsr_safe", k)
              /\ pc + 1 \in 15 .. 28 =>
                   \A k \in DOMAIN pt_msrs : k < (pc + 1) - 14 => ~Refused("wrmsr_safe", k)
<1>1. module = "init" /\ pc \in 1 .. 28 /\ DOMAIN pt_msrs = 1 .. 13
  <2>1. module = "init" /\ Lengths(tc_no, Len(Script(tc_no))) /\ pc \in 1 .. Len(Script(tc_no))
    BY Here, Zenon
  <2> QED
    BY <2>1, PtMsrs DEF Lengths
<1>2. PtLines(Script(3))
  BY PtScript
<1>3. \A op, k : Refused(op, k) <=> Do(op, pt_msrs[k]) \in denied
  BY Zenon DEF Refused
<1>4. ASSUME NEW op \in {"rdmsr_safe", "wrmsr_safe"}, NEW p \in 1 .. 13, s = Do(op, pt_msrs[p]),
             \A k \in 1 .. 13 : k < p => ~Refused(op, k)
      PROVE  /\ s \in denied => FirstRefused(s[1], s[2])
             /\ s \notin denied => \A k \in 1 .. 13 : k < p + 1 => ~Refused(op, k)
  <2>1. IsItem(s, op, pt_msrs[p])
    BY <1>4, ItemParts, Zenon
  <2>2. s[1] = op /\ s[2] = pt_msrs[p]
    BY <2>1, Zenon DEF IsItem
  <2>3. s \in denied <=> Refused(op, p)
    BY <1>3, <1>4, Zenon
  <2>4. ASSUME Refused(op, p) PROVE FirstRefused(op, pt_msrs[p])
    <3>1. ASSUME NEW k \in 1 .. 13, Refused(op, k) PROVE p \in 1 .. k
      <4>1. ~(k < p)
        BY <1>4, <3>1, Zenon
      <4> QED
        BY <4>1
    <3> QED
      BY <1>1, <2>4, <3>1, Zenon DEF FirstRefused
  <2>5. ASSUME ~Refused(op, p), NEW k \in 1 .. 13, k < p + 1 PROVE ~Refused(op, k)
    <3>1. k < p \/ k = p
      BY <2>5
    <3> QED
      BY <1>4, <2>5, <3>1, Zenon
  <2>6. s \in denied => FirstRefused(s[1], s[2])
    BY <2>2, <2>3, <2>4, Zenon
  <2>7. s \notin denied => \A k \in 1 .. 13 : k < p + 1 => ~Refused(op, k)
    BY <2>3, <2>5, Zenon
  <2> QED
    BY <2>6, <2>7
<1>5. CASE pc \in 1 .. 13
  <2>1. s = Do("rdmsr_safe", pt_msrs[pc])
    BY <1>2, <1>5, Zenon DEF PtLines
  <2>2. pc <= 14 /\ ~(pc + 1 \in 15 .. 28)
    BY <1>5
  <2>3. \A k \in 1 .. 13 : k < pc => ~Refused("rdmsr_safe", k)
    BY <1>1, <2>2, Zenon DEF ModuleInv, NoneRefused
  <2>4. /\ s \in denied => FirstRefused(s[1], s[2])
        /\ s \notin denied => \A k \in 1 .. 13 : k < pc + 1 => ~Refused("rdmsr_safe", k)
    BY <1>4, <1>5, <2>1, <2>3, Zenon
  <2> QED
    BY <1>1, <2>2, <2>4, Zenon
<1>6. CASE pc \in 15 .. 27
  <2>1. /\ pc - 14 \in 1 .. 13 /\ 14 + (pc - 14) = pc /\ (pc + 1) - 14 = (pc - 14) + 1
        /\ ~(pc + 1 <= 14) /\ pc \in 15 .. 28
    BY <1>6
  <2>2. s = Do("wrmsr_safe", pt_msrs[pc - 14])
    BY <1>2, <2>1 DEF PtLines
  <2>3. \A k \in 1 .. 13 : k < pc - 14 => ~Refused("wrmsr_safe", k)
    BY <1>1, <2>1, Zenon DEF ModuleInv, NoneRefused
  <2>4. /\ s \in denied => FirstRefused(s[1], s[2])
        /\ s \notin denied => \A k \in 1 .. 13 : k < (pc - 14) + 1 => ~Refused("wrmsr_safe", k)
    BY <1>4, <2>1, <2>2, <2>3, Zenon
  <2> QED
    BY <1>1, <2>1, <2>4, Zenon
<1>7. CASE pc = 14 \/ pc = 28
  <2>1. IsItem(Script(3)[14], "say", "rdmsr for PT msrs success")
    BY <1>2, ItemParts, Zenon DEF PtLines, say
  <2>2. IsItem(Script(3)[28], "say", "wrmsr success for PT MSRs")
    BY <1>2, ItemParts, Zenon DEF PtLines, say
  <2>3. s[1] = "say"
    BY <1>7, <2>1, <2>2, Zenon DEF IsItem
  <2> QED
    BY <2>3, Zenon
<1>8. pc \in 1 .. 13 \/ pc = 14 \/ pc \in 15 .. 27 \/ pc = 28
  BY <1>1
<1> QED
  BY <1>5, <1>6, <1>7, <1>8, Zenon

\* rdmsr_safe and wrmsr_safe, which return an error instead of raising one.
LEMMA SafeAccessStep ==
  ASSUME ModuleInv, SafeAccess
  PROVE  ModuleInv'
<1> DEFINE n == tc_no
           s == Script(n)[pc]
           m == Len(Script(n))
<1>1. /\ Running /\ s[1] \in {"rdmsr_safe", "wrmsr_safe"} /\ ~Now("kmalloc")
  BY Zenon DEF SafeAccess, Now
<1>2. /\ n \in Nat /\ Loaded \in Nat /\ Loaded > 0 /\ Present /\ module = "init"
      /\ m \in Nat /\ pc \in 1 .. m
      /\ Lengths(n, m) /\ AtPlace(n, pc, s)
  BY <1>1, Here, Zenon
<1>3. /\ UNCHANGED <<denied, tcs, module, cpu, heap, vmxon_region, fctl, vmxe, vmx, counted>>
      /\ Loaded' = Loaded /\ tc_no' = n
  BY DEF SafeAccess, GoOn, machine, Loaded, tc_no
<1>4. n \in {3, 9} /\ n # 11 /\ (n = 9 => s[2] = "BNDCFGS")
  <2>1. n \in {3, 9} /\ (n = 9 => s[2] = "BNDCFGS")
    BY <1>1, <1>2, Zenon DEF AtPlace
  <2> QED
    BY <2>1
<1>5. /\ AfterSay \in pc + 1 .. m + 1
      /\ n = 3 => (pc < 14 /\ AfterSay = 15) \/ (pc > 14 /\ AfterSay = 29)
  <2>1. pc \in Nat
    BY <1>2
  <2> QED
    BY <1>1, <1>2, <1>4, <2>1, Skips, Zenon
<1>6. \/ s \in denied /\ pc' = AfterSay
      \/ s \notin denied /\ pc' = pc + 1
  BY Zenon DEF SafeAccess, GoOn
<1>7. /\ (Present => Loaded > 0)' /\ HeapNow' /\ RegionNow' /\ RegionInUse'
      /\ InitReturned' /\ NeverPast'
      /\ (tcs # <<>> => pc \in 1 .. Len(Script(tc_no)) + 1)'
  <2>1. pc' \in pc + 1 .. Len(Script(tc_no)) + 1
    <3> HIDE DEF s
    <3> QED
      BY <1>2, <1>5, <1>6
  <2> QED
    BY <1>1, <1>3, <1>4, <2>1, Onward, Zenon
<1>8. TestModTypeOK'
  <2>1. /\ denied' \subseteq Refusable /\ tcs' \in Seq(TestCases)
        /\ module' \in {"out", "init", "live", "stuck"} /\ cpu' \in Cpus
        /\ heap' \subseteq {"fx", "vmxon_region"} \X (1 .. Loaded')
        /\ vmxon_region' \in {0, Loaded'} /\ vmx' \in [Cpus -> 0 .. Loaded']
        /\ fctl' \in [Cpus -> SUBSET test_bits] /\ vmxe' \in [Cpus -> BOOLEAN]
        /\ counted' \in BOOLEAN
    BY <1>3, Zenon DEF ModuleInv, TestModTypeOK
  <2> QED
    BY <1>7, <2>1, Zenon DEF TestModTypeOK
<1>9. NoneRefused'
  <2> SUFFICES ASSUME n = 3 PROVE NoneRefused'
    BY <1>3, Zenon DEF NoneRefused
  <2>1. CASE s \in denied /\ pc' = AfterSay
    <3>1. pc' \in {15, 29}
      <4> HIDE DEF s
      <4> QED
        BY <1>5, <2>1
    <3>2. ~(pc' <= 14)
      BY <3>1
    <3>3. \A k \in DOMAIN pt_msrs : pc' \in 15 .. 28 => ~(k < pc' - 14)
      BY <3>1, PtMsrs
    <3> QED
      BY <3>2, <3>3, Zenon DEF NoneRefused
  <2>2. CASE s \notin denied /\ pc' = pc + 1
    <3>1. /\ pc' <= 14 => \A k \in DOMAIN pt_msrs : k < pc' => ~Refused("rdmsr_safe", k)
          /\ pc' \in 15 .. 28 => \A k \in DOMAIN pt_msrs : k < pc' - 14 => ~Refused("wrmsr_safe", k)
      BY <1>1, <2>2, PtAccess, Zenon
    <3>2. \A op, k : Refused(op, k)' <=> Refused(op, k)
      BY <1>3, Zenon DEF Refused
    <3> QED
      BY <3>1, <3>2, Zenon DEF NoneRefused
  <2> QED
    BY <1>6, <2>1, <2>2
<1>10. SaidTruly'
  <2>1. CASE s \in denied
    <3>1. said' = said \union {<<"failed", s[2] = "BNDCFGS" \/ FirstRefused(s[1], s[2])>>}
      BY <2>1, Zenon DEF SafeAccess
    <3>2. s[2] = "BNDCFGS" \/ FirstRefused(s[1], s[2])
      <4>1. n = 3 => FirstRefused(s[1], s[2])
        BY <1>1, <2>1, PtAccess, Zenon
      <4> QED
        BY <1>4, <4>1, Zenon
    <3>3. Truly(<<"failed", s[2] = "BNDCFGS" \/ FirstRefused(s[1], s[2])>>)
      BY <3>2, Lines, Zenon
    <3> QED
      BY <3>1, <3>3, Zenon DEF ModuleInv, SaidTruly, Truly
  <2>2. CASE s \notin denied
    <3>1. said' = said
      BY <2>2, Zenon DEF SafeAccess
    <3> QED
      BY <3>1, Zenon DEF ModuleInv, SaidTruly
  <2> QED
    BY <2>1, <2>2
<1> QED
  BY <1>7, <1>8, <1>9, <1>10, Zenon DEF ModuleInv

\* No load, and a machine just started.
LEMMA ModuleStarts ==
  ASSUME Init
  PROVE  ModuleInv
<1>1. /\ denied \in Policies /\ tcs = <<>> /\ module = "out" /\ cpu \in Cpus
      /\ heap = {} /\ vmxon_region = 0 /\ counted = FALSE /\ said = {}
      /\ vmxe = [c \in Cpus |-> FALSE] /\ vmx = [c \in Cpus |-> 0]
      /\ \E f \in {{}, {LOCKED}, test_bits} : fctl = [c \in Cpus |-> f]
  BY Zenon DEF Init
<1>2. Loaded = 0 /\ ~Present
  BY <1>1 DEF Loaded, Present
<1>3. denied \subseteq Refusable
  BY <1>1, Zenon DEF Policies
<1>4. fctl \in [Cpus -> SUBSET test_bits]
  BY <1>1 DEF test_bits
<1>5. TestModTypeOK
  <2>1. tcs \in Seq(TestCases) /\ vmxe \in [Cpus -> BOOLEAN] /\ vmx \in [Cpus -> 0 .. Loaded]
    BY <1>1, <1>2
  <2> QED
    BY <1>1, <1>2, <1>3, <1>4, <2>1, Zenon DEF TestModTypeOK
<1>6. HeapNow
  <2>1. Saved = {} /\ Region = {}
    BY <1>1, <1>2 DEF Saved, Region
  <2> QED
    BY <1>1, <2>1, Zenon DEF HeapNow
<1>7. RegionNow /\ RegionInUse /\ NeverPast
  BY <1>2, Zenon DEF RegionNow, RegionInUse, NeverPast
<1>8. InitReturned /\ NoneRefused /\ SaidTruly
  BY <1>1, Zenon DEF InitReturned, NoneRefused, SaidTruly
<1> QED
  BY <1>2, <1>5, <1>6, <1>7, <1>8, Zenon DEF ModuleInv

\* Every step keeps the invariant.
LEMMA ModuleKept ==
  ASSUME ModuleInv, [Next]_vars
  PROVE  ModuleInv'
<1>1. ASSUME NEW n \in TestCases, NEW c \in Cpus, insmod(n, c) PROVE ModuleInv'
  BY <1>1, InsmodStep
<1>2. CASE init_test_mode
  BY <1>2, AllocStep, ExceptionStep, ExecuteStep, RdpmcStep, WriteFeatureControlStep, WriteCr4Step,
     VmxonStep, VmxoffStep, SafeAccessStep, SayStep, InitReturnsStep, Zenon DEF init_test_mode
<1>3. CASE exit_test_mode
  BY <1>3, ExitStep
<1>4. CASE UNCHANGED vars
  <2>1. /\ UNCHANGED <<denied, tcs, module, cpu, pc, heap, vmxon_region, fctl, vmxe, vmx, counted, said>>
        /\ Loaded' = Loaded /\ tc_no' = tc_no /\ Present' = Present
    BY <1>4 DEF vars, machine, Loaded, tc_no, Present
  <2>2. Saved' = Saved /\ Region' = Region
    BY <2>1 DEF Saved, Region
  <2>3. HeapNow' /\ TestModTypeOK'
    BY <2>1, <2>2, Zenon DEF ModuleInv, HeapNow, TestModTypeOK
  <2>4. NoneRefused' /\ SaidTruly'
    BY <2>1, Zenon DEF ModuleInv, NoneRefused, SaidTruly, Refused
  <2> QED
    BY <2>1, <2>3, <2>4, Zenon DEF ModuleInv, RegionNow, RegionInUse, NeverPast, InitReturned
<1> QED
  BY <1>1, <1>2, <1>3, <1>4, Zenon DEF Next

\* The inductive invariant of test_module: what is allocated, whose region a
\* vCPU uses and which MSRs were found to be there follow from the loads so far
\* and from the place in the present script.
THEOREM ModuleInvariant == Spec => []ModuleInv
BY ModuleStarts, ModuleKept, PTL DEF Spec

\* The variables keep their types, and exit_test_mode is never given a pointer
\* that an earlier load allocated.
THEOREM ModuleTypeCorrect == Spec => []TestModTypeOK
<1>1. ModuleInv => TestModTypeOK
  BY Zenon DEF ModuleInv
<1> QED
  BY <1>1, ModuleInvariant, PTL

\* rmmod leaves the areas of test_xsaves behind and nothing else: no region is
\* forgotten, and none is freed that is not the module's.
THEOREM NothingElseLeaks == Spec => []HeapAccounted
<1>1. ModuleInv => HeapAccounted
  <2> SUFFICES ASSUME ModuleInv, module = "out" PROVE HeapAccounted
    BY DEF HeapAccounted
  <2>1. Saved = {k \in 1 .. Loaded : tcs[k] = 10} /\ Region = {}
    BY DEF Saved, Region, Present
  <2>2. heap = {<<"fx", l>> : l \in Saved} \union Region
    BY Zenon DEF ModuleInv, HeapNow
  <2>3. heap = {<<"fx", l>> : l \in {k \in 1 .. Loaded : tcs[k] = 10}}
    BY <2>1, <2>2
  <2> QED
    BY <2>3, Zenon DEF HeapAccounted
<1> QED
  BY <1>1, ModuleInvariant, PTL

\* A vCPU in VMX operation has its region for as long as the load that gave it
\* is in the kernel, also if init was killed after the vmxon.
THEOREM RegionIsKept == Spec => []VmxRegionKept
<1>1. ModuleInv => VmxRegionKept
  <2> SUFFICES ASSUME ModuleInv, NEW c \in Cpus, Present, vmx[c] # 0, vmx[c] = Loaded
               PROVE  <<"vmxon_region", Loaded>> \in heap
    BY Zenon DEF VmxRegionKept, Present
  <2>1. tc_no = 1 /\ pc > 5
    BY Zenon DEF ModuleInv, RegionInUse
  <2>2. pc > 1
    <3>1. tcs # <<>>
      BY TheLoads, Zenon DEF ModuleInv
    <3>2. pc \in 1 .. Len(Script(tc_no)) + 1 /\ Lengths(tc_no, Len(Script(tc_no)))
      BY <2>1, <3>1, Places DEF ModuleInv, TestModTypeOK
    <3> QED
      BY <2>1, <3>2 DEF Lengths
  <2>3. vmxon_region = Loaded
    BY <2>1, <2>2, Zenon DEF ModuleInv, RegionNow
  <2>4. <<"vmxon_region", Loaded>> \in Region
    BY <2>3 DEF Region
  <2> QED
    BY <2>4, Zenon DEF ModuleInv, HeapNow
<1> QED
  BY <1>1, ModuleInvariant, PTL

\* What a test prints is so, and the MSR it complains of is the first that is
\* refused, with the two exceptions that SaidTruly names.
THEOREM PrintsTheTruth == Spec => []SaidTruly
<1>1. ModuleInv => SaidTruly
  BY Zenon DEF ModuleInv
<1> QED
  BY <1>1, ModuleInvariant, PTL

=============================================================================
