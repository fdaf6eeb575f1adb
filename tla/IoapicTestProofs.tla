-------------------------- MODULE IoapicTestProofs --------------------------
(***************************************************************************)
(* Proofs about IoapicTest for an ioctl on vCPU 0, each choice of online   *)
(* vCPUs, any number of ioctls and any bound on the handlers' runs: types, *)
(* the pairing of index and data register, interrupts that are ended and   *)
(* installed in time, tests that leave nothing behind, and, for the first  *)
(* ioctl, that no report is unexpected.                                    *)
(*                                                                         *)
(* The argument is a table: for every place in test_ioapic, what may be    *)
(* pending, whether the line may be high and what the entry holds.         *)
(***************************************************************************)
EXTENDS IoapicTest, SequenceTheorems, TLAPS

-----------------------------------------------------------------------------
(***************************************************************************)
(* The scripts as tables: which accesses are at which places.              *)
(***************************************************************************)
\* The accesses to the data register for the low half of the entry of the
\* line; two places later comes the one for the high half.
SetupAt  == {29, 38, 47, 65, 73, 82, 96, 125, 152, 179, 189, 198, 207, 218, 229, 240, 251}
RemaskAt == {105, 117, 134, 145, 162, 173}
StoreLow == SetupAt \union RemaskAt
LoadLow  == {100, 112, 129, 140, 157, 168}
LowAt    == StoreLow \union LoadLow
StoreAt  == {52, 54} \union {p \in 30 .. 257 : p - 2 \in StoreLow} \union StoreLow
LoadAt   == {p \in 30 .. 257 : p - 2 \in LoadLow} \union LoadLow
WordAt   == {3, 5, 7, 10, 12, 14, 17, 19, 22, 24}
DataAt   == WordAt \union StoreAt \union LoadAt

\* The register that main accesses at place p of DataAt.
RegAt(p) ==
  IF p <= 8 THEN 1 ELSE IF p <= 17 THEN 0 ELSE IF p <= 25 THEN 2
  ELSE IF p = 52 THEN Low(\h0f) ELSE IF p = 54 THEN High(\h0f)
  ELSE IF p \in LowAt THEN Low(Line) ELSE High(Line)

LineUp   == {32, 41, 58, 68, 76, 77, 86, 108, 120, 137, 155, 183, 193, 202, 211}
LineDown == {33, 59, 109, 166, 184, 212}

\* The handler that is installed at place p.
HandleAt == {26, 35, 43, 44, 62, 70, 79, 93, 122, 149, 176, 186, 195, 204, 215, 226, 237, 248}
HandlerAt(p) ==
  IF p = 26 THEN \h76 ELSE IF p = 35 THEN \h77 ELSE IF p = 43 THEN \h78
  ELSE IF p = 44 THEN \h66 ELSE IF p = 62 THEN \h98 ELSE IF p = 70 THEN \h99
  ELSE IF p = 79 THEN \h9a ELSE IF p = 93 THEN \h81 ELSE IF p = 122 THEN \h82
  ELSE IF p = 149 THEN \h83 ELSE \h79

\* What the entry of the line holds at place p, from 30 on.
VectorAt(p) ==
  IF p <= 38 THEN \h76 ELSE IF p <= 47 THEN \h77 ELSE IF p <= 65 THEN \h78
  ELSE IF p <= 73 THEN \h98 ELSE IF p <= 82 THEN \h99 ELSE IF p <= 96 THEN \h9a
  ELSE IF p <= 125 THEN \h81 ELSE IF p <= 152 THEN \h82 ELSE IF p <= 179 THEN \h83 ELSE \h79
IsLevel(p) ==
  \/ p \in 39 .. 47 \/ p \in 66 .. 96 \/ p \in 126 .. 179
  \/ p \in 190 .. 207 \/ p \in 230 .. 251
TrigAt(p) == IF IsLevel(p) THEN LEVEL ELSE EDGE
EntryOf(v, trig, m) == [vector |-> v, trig_mode |-> trig, mask |-> m]

\* The entry main prepares, two places before it is stored at p.
NewEntryAt(p) ==
  IF p = 50 THEN EntryOf(\h66, EDGE, FALSE)
            ELSE EntryOf(VectorAt(p + 3), TrigAt(p + 3), FALSE)
EntryAt == {27, 36, 45, 50, 63, 71, 80, 94, 123, 150, 177, 187, 196, 205, 216, 227, 238, 249}

MaskTrue  == {103, 132}
MaskFalse == {115, 143, 160, 171}
TmrAt     == {182, 192, 201, 210, 221, 232, 243, 254}
ResetAt   == {214, 225, 236, 247}
CallAt    == {222, 233, 244, 255}
Awaits    == {223, 234, 245, 256}

Reports(p, a) ==
  \/ p = 8 /\ a = <<"version", 1>>
  \/ p = 15 /\ a = <<"id", 1>>
  \/ p \in {20, 25} /\ a = <<"arbitration", 1>>
  \/ p = 34 /\ a = <<"edge_intr", 1>>
  \/ p = 42 /\ a = <<"level_intr", 1>>
  \/ p = 61 /\ a = <<"simultaneous", 1>>
  \/ p = 69 /\ a = <<"coalesce", 1>>
  \/ p = 78 /\ a = <<"sequential", 1>>
  \/ p = 92 /\ a = <<"retrigger", 1>>
  \/ p = 110 /\ a = <<"edge_mask", 0>>
  \/ p = 121 /\ a = <<"edge_mask", 1>>
  \/ p = 138 /\ a = <<"level_mask", 0>>
  \/ p = 148 /\ a = <<"level_mask", 1>>
  \/ p = 165 /\ a = <<"retrigger_mask", 1>>
  \/ p \in {185, 224} /\ a = <<"edge_tmr", 0>>
  \/ p \in {213, 257} /\ a = <<"edge_tmr", 1>>
  \/ p \in {194, 235} /\ a = <<"level_tmr", 0>>
  \/ p \in {203, 246} /\ a = <<"level_tmr", 1>>

MainPlace(p, it) ==
  /\ it.op \notin {"line_on_run", "eoi", "count"}
  /\ it.op = "sti" => p \in {1, 60, 91}
  /\ it.op = "cli" => p \in {55, 85, 89}
  /\ it.op = "hlt" => p = 88
  /\ it.op = "until" => p = 87 /\ it.arg = 3
  /\ it.op = "again" => p = 90 /\ it.arg = 3
  /\ it.op = "select" => p + 1 \in DataAt /\ it.arg = RegAt(p + 1)
  /\ it.op \in DataAccesses => p \in DataAt /\ it.arg = RegAt(p)
  /\ it.op = "old" => p \in {3, 10}
  /\ it.op = "new" => p \in {7, 14, 19, 24}
  /\ it.op = "flip" => p \in {5, 12}
  /\ it.op = "ones" => p = 17
  /\ it.op = "zero" => p = 22
  /\ it.op = "load" => p \in LoadAt
  /\ it.op = "store" => p \in StoreAt
  /\ it.op = "report" => Reports(p, it.arg)
  /\ it.op = "handle" => p \in HandleAt /\ it.arg = HandlerAt(p)
  /\ it.op = "entry" => p \in EntryAt /\ it.arg = NewEntryAt(p)
  /\ it.op = "mask" => (p \in MaskTrue /\ it.arg = TRUE) \/ (p \in MaskFalse /\ it.arg = FALSE)
  /\ it.op = "line" => \/ p \in LineUp /\ it.arg = <<Line, 1>>
                       \/ p \in LineDown /\ it.arg = <<Line, 0>>
                       \/ p = 56 /\ it.arg = <<\h0f, 1>>
                       \/ p = 57 /\ it.arg = <<\h0f, 0>>
  /\ it.op = "tmr" => p \in TmrAt
  /\ it.op = "reset" => p \in ResetAt
  /\ it.op = "call" => \/ p \in {222, 255} /\ it.arg = "toggle"
                       \/ p \in {233, 244} /\ it.arg = "set"
  /\ it.op = "await" => p \in Awaits

\* The accesses of the handler of v, the last of which is the eoi.
Last(v) == IF v \in {\h76, \h78, \h66} THEN 2
           ELSE IF v = \h98 THEN 5 ELSE IF v = \h83 THEN 11 ELSE 3
Lowering == {\h77, \h99, \h81, \h82, \h79}

HandlerPlace(v, k, it) ==
  /\ it.op \in {"count", "tmr", "line", "line_on_run", "eoi", "select", "load", "mask", "store"}
  /\ it.op = "count" => k = 1 /\ v # \h79
  /\ it.op = "tmr" => k = 1 /\ v = \h79
  /\ it.op = "line" => /\ \/ k = 2 /\ v \in Lowering
                          \/ k = 4 /\ v = \h98
                       /\ it.arg = <<Line, 0>>
  /\ it.op = "line_on_run" => \/ k = 2 /\ v = \h98 /\ it.arg = <<1, 0>>
                              \/ k = 3 /\ v = \h98 /\ it.arg = <<1, 1>>
                              \/ k = 2 /\ v = \h9a /\ it.arg = <<2, 0>>
  /\ it.op = "eoi" => k = Last(v)
  /\ it.op \in DataAccesses => v = \h83 /\ it.arg = IF k \in {3, 8} THEN Low(Line) ELSE High(Line)
  /\ it.op = "select" => /\ v = \h83 /\ k \in {2, 4, 7, 9}
                         /\ it.arg = IF k \in {2, 7} THEN Low(Line) ELSE High(Line)
  /\ it.op = "load" => k \in {3, 5}
  /\ it.op = "mask" => v = \h83 /\ k = 6 /\ it.arg = TRUE
  /\ it.op = "store" => k \in {8, 10}

JobPlace(n, k, it) ==
  /\ it.op = "line"
  /\ \/ k = 1 /\ it.arg = <<Line, 1>>
     \/ k = 2 /\ n = 2 /\ it.arg = <<Line, 0>>

\* Scripts are numbered: 0 is main's, those of vCPU 1 are 1 and 2, a handler's is
\* its vector.
Place(s, p, it) ==
  IF s = 0 THEN MainPlace(p, it)
  ELSE IF s \in {1, 2} THEN JobPlace(s, p, it) ELSE HandlerPlace(s, p, it)

\* The m items of u are at their places in script s after the first a.
IsSeq(u, m) == (\E S : u \in Seq(S)) /\ Len(u) = m
Fits(u, m, a, s) == IsSeq(u, m) /\ \A i \in 1 .. m : Place(s, a + i, u[i])

\* One item.
LEMMA FitsOne ==
  ASSUME NEW x, NEW a \in Nat, NEW s, Place(s, a + 1, x)
  PROVE  Fits(<<x>>, 1, a, s)
<1>1. <<x>> \in Seq({x}) /\ Len(<<x>>) = 1 /\ <<x>>[1] = x
  OBVIOUS
<1>2. \A i \in 1 .. 1 : i = 1
  OBVIOUS
<1> QED BY <1>1, <1>2 DEF Fits, IsSeq

\* One script after the other.
LEMMA Join ==
  ASSUME NEW u, NEW v, NEW m \in Nat, NEW n \in Nat, NEW a \in Nat, NEW s,
         Fits(u, m, a, s), Fits(v, n, a + m, s)
  PROVE  Fits(u \o v, m + n, a, s)
<1>1. PICK S : u \in Seq(S)
  BY DEF Fits, IsSeq
<1>2. PICK T : v \in Seq(T)
  BY DEF Fits, IsSeq
<1> DEFINE W == S \union T
<1>3. u \in Seq(W) /\ v \in Seq(W)
  BY <1>1, <1>2, SeqMonotonic
<1>4. Len(u) = m /\ Len(v) = n
  BY DEF Fits, IsSeq
<1>5. /\ u \o v \in Seq(W) /\ Len(u \o v) = m + n
      /\ \A i \in 1 .. m + n : (u \o v)[i] = IF i <= m THEN u[i] ELSE v[i - m]
  <2> HIDE DEF W
  <2> QED BY <1>3, <1>4, ConcatProperties
<1>6. ASSUME NEW i \in 1 .. m + n PROVE Place(s, a + i, (u \o v)[i])
  <2>1. CASE i <= m
    BY <1>5, <2>1 DEF Fits
  <2>2. CASE ~(i <= m)
    <3>1. i - m \in 1 .. n /\ a + m + (i - m) = a + i
      BY <2>2
    <3> QED BY <1>5, <2>2, <3>1 DEF Fits
  <2> QED BY <2>1, <2>2
<1> QED BY <1>5, <1>6 DEF Fits, IsSeq

\* The registers of the line that most tests use, and of the other.
LEMMA RegisterNumbers ==
  /\ Line = 14 /\ Low(Line) = 44 /\ High(Line) = 45
  /\ \h0f = 15 /\ Low(\h0f) = 46 /\ High(\h0f) = 47
BY DEF Line, Low, High

\* Two items, one after the other.
LEMMA Pair ==
  ASSUME NEW x, NEW y
  PROVE  <<x>> \o <<y>> = <<x, y>>
<1> DEFINE S == {x, y}
           u == <<x>> \o <<y>>
<1>1. <<x>> \in Seq(S) /\ <<y>> \in Seq(S) /\ Len(<<x>>) = 1 /\ Len(<<y>>) = 1
  OBVIOUS
<1>2. u \in Seq(S) /\ Len(u) = 2 /\ u[1] = x /\ u[2] = y
  <2>1. <<x>>[1] = x /\ <<y>>[1] = y
    OBVIOUS
  <2> HIDE DEF S
  <2> QED BY <1>1, <2>1, ConcatProperties
<1>3. <<x, y>> \in Seq(S) /\ Len(<<x, y>>) = 2 /\ <<x, y>>[1] = x /\ <<x, y>>[2] = y
  OBVIOUS
<1>4. \A i \in 1 .. Len(u) : i = 1 \/ i = 2
  BY <1>2
<1> HIDE DEF S, u
<1>5. u = <<x, y>>
  BY <1>2, <1>3, <1>4, SeqEqual
<1> QED BY <1>5 DEF u

\* A selection and the access it is for.
LEMMA AccessFits ==
  ASSUME NEW a \in Nat, NEW r, NEW op \in DataAccesses,
         a + 2 \in DataAt, r = RegAt(a + 2),
         Place(0, a + 2, Do(op, r))
  PROVE  Fits(Access(op, r), 2, a, 0)
<1>1. Place(0, a + 1, Do("select", r))
  <2>1. a + 1 + 1 = a + 2
    OBVIOUS
  <2> QED BY <2>1 DEF Place, MainPlace, Do, DataAccesses
<1>2. Fits(<<Do("select", r)>>, 1, a, 0)
  BY <1>1, FitsOne
<1>3. Fits(<<Do(op, r)>>, 1, a + 1, 0)
  <2>1. a + 1 \in Nat /\ a + 1 + 1 = a + 2
    OBVIOUS
  <2> QED BY <2>1, FitsOne
<1>4. Fits(<<Do("select", r)>> \o <<Do(op, r)>>, 1 + 1, a, 0)
  BY <1>2, <1>3, Join
<1>5. <<Do("select", r)>> \o <<Do(op, r)>> = Access(op, r)
  BY Pair DEF Access
<1>6. 1 + 1 = 2
  OBVIOUS
<1> QED BY <1>4, <1>5, <1>6, Zenon

\* The places where the entry of the line is read or written.
LEMMA LowPlaces ==
  /\ \A p \in LowAt : p \in Nat /\ p > 2 /\ RegAt(p) = Low(Line) /\ RegAt(p + 2) = High(Line)
  /\ \A p \in StoreLow : p \in StoreAt /\ p + 2 \in StoreAt
  /\ \A p \in LoadLow : p \in LoadAt /\ p + 2 \in LoadAt
BY RegisterNumbers DEF LowAt, StoreLow, LoadLow, SetupAt, RemaskAt, RegAt, StoreAt, LoadAt

\* Storing both halves of the line's entry.
LEMMA WriteFits ==
  ASSUME NEW a \in Nat, a + 2 \in StoreLow
  PROVE  Fits(ioapic_write_redir(Line), 4, a, 0)
<1>1. Fits(Access("store", Low(Line)), 2, a, 0)
  <2>1. a + 2 \in StoreAt /\ a + 2 \in DataAt /\ Low(Line) = RegAt(a + 2)
    BY LowPlaces DEF LowAt, DataAt
  <2>2. Place(0, a + 2, Do("store", Low(Line)))
    BY <2>1 DEF Place, MainPlace, Do, DataAccesses
  <2> QED BY <2>1, <2>2, AccessFits DEF DataAccesses
<1>2. Fits(Access("store", High(Line)), 2, a + 2, 0)
  <2>1. a + 2 + 2 \in StoreAt /\ a + 2 + 2 \in DataAt /\ High(Line) = RegAt(a + 2 + 2)
    BY LowPlaces DEF LowAt, DataAt
  <2>2. Place(0, a + 2 + 2, Do("store", High(Line)))
    BY <2>1 DEF Place, MainPlace, Do, DataAccesses
  <2> QED BY <2>1, <2>2, AccessFits DEF DataAccesses
<1>3. Fits(ioapic_write_redir(Line), 2 + 2, a, 0)
  BY <1>1, <1>2, Join DEF ioapic_write_redir
<1> QED BY <1>3

\* One access of each kind.
LEMMA LineFits ==
  ASSUME NEW a \in Nat, NEW val,
         (a + 1 \in LineUp /\ val = 1) \/ (a + 1 \in LineDown /\ val = 0)
  PROVE  Fits(set_irq_line(Line, val), 1, a, 0)
<1>1. Place(0, a + 1, Do("line", <<Line, val>>))
  BY DEF Place, MainPlace, Do, DataAccesses
<1> QED BY <1>1, FitsOne DEF set_irq_line

\* A report, at a place that has this one.
LEMMA ReportFits ==
  ASSUME NEW a \in Nat, NEW test, NEW expected, Reports(a + 1, <<test, expected>>)
  PROVE  Fits(Report(test, expected), 1, a, 0)
<1>1. Place(0, a + 1, Do("report", <<test, expected>>))
  BY DEF Place, MainPlace, Do, DataAccesses
<1> QED BY <1>1, FitsOne DEF Report

\* The installation of a handler.
LEMMA HandleFits ==
  ASSUME NEW a \in Nat, a + 1 \in HandleAt
  PROVE  Fits(handle_irq_local(HandlerAt(a + 1)), 1, a, 0)
<1>1. Place(0, a + 1, Do("handle", HandlerAt(a + 1)))
  BY DEF Place, MainPlace, Do, DataAccesses
<1> QED BY <1>1, FitsOne DEF handle_irq_local

\* Switching the interrupt flag on or off.
LEMMA FlagFits ==
  ASSUME NEW a \in Nat
  PROVE  /\ a + 1 \in {1, 60, 91} => Fits(irq_enable, 1, a, 0)
         /\ a + 1 \in {55, 85, 89} => Fits(irq_disable, 1, a, 0)
<1>1. a + 1 \in {1, 60, 91} => Place(0, a + 1, Do("sti", 0))
  BY DEF Place, MainPlace, Do, DataAccesses
<1>2. a + 1 \in {55, 85, 89} => Place(0, a + 1, Do("cli", 0))
  BY DEF Place, MainPlace, Do, DataAccesses
<1> QED BY <1>1, <1>2, FitsOne DEF irq_enable, irq_disable

\* Reading the trigger mode register.
LEMMA TmrFits ==
  ASSUME NEW a \in Nat, a + 1 \in TmrAt
  PROVE  Fits(<<Do("tmr", 0)>>, 1, a, 0)
<1>1. Place(0, a + 1, Do("tmr", 0))
  BY DEF Place, MainPlace, Do, DataAccesses
<1> QED BY <1>1, FitsOne

\* Resetting what the handler of 0x79 reports.
LEMMA ResetFits ==
  ASSUME NEW a \in Nat, a + 1 \in ResetAt
  PROVE  Fits(<<Do("reset", 0)>>, 1, a, 0)
<1>1. Place(0, a + 1, Do("reset", 0))
  BY DEF Place, MainPlace, Do, DataAccesses
<1> QED BY <1>1, FitsOne

\* Setting the mask bit of the entry at hand.
LEMMA MaskItemFits ==
  ASSUME NEW a \in Nat, NEW m,
         (a + 1 \in MaskTrue /\ m = TRUE) \/ (a + 1 \in MaskFalse /\ m = FALSE)
  PROVE  Fits(<<Do("mask", m)>>, 1, a, 0)
<1>1. Place(0, a + 1, Do("mask", m))
  BY DEF Place, MainPlace, Do, DataAccesses
<1> QED BY <1>1, FitsOne

\* Preparing a new entry.
LEMMA EntryFits ==
  ASSUME NEW a \in Nat, a + 1 \in EntryAt
  PROVE  Fits(<<Do("entry", NewEntryAt(a + 1))>>, 1, a, 0)
<1>1. Place(0, a + 1, Do("entry", NewEntryAt(a + 1)))
  BY DEF Place, MainPlace, Do, DataAccesses
<1> QED BY <1>1, FitsOne

\* Reading the entry of the line.
LEMMA ReadFits ==
  ASSUME NEW a \in Nat, a + 2 \in LoadLow
  PROVE  Fits(ioapic_read_redir(Line), 4, a, 0)
<1>1. Fits(Access("load", Low(Line)), 2, a, 0)
  <2>1. a + 2 \in LoadAt /\ a + 2 \in DataAt /\ Low(Line) = RegAt(a + 2)
    BY LowPlaces DEF LowAt, DataAt
  <2>2. Place(0, a + 2, Do("load", Low(Line)))
    BY <2>1 DEF Place, MainPlace, Do, DataAccesses
  <2> QED BY <2>1, <2>2, AccessFits DEF DataAccesses
<1>2. Fits(Access("load", High(Line)), 2, a + 2, 0)
  <2>1. a + 2 + 2 \in LoadAt /\ a + 2 + 2 \in DataAt /\ High(Line) = RegAt(a + 2 + 2)
    BY LowPlaces DEF LowAt, DataAt
  <2>2. Place(0, a + 2 + 2, Do("load", High(Line)))
    BY <2>1 DEF Place, MainPlace, Do, DataAccesses
  <2> QED BY <2>1, <2>2, AccessFits DEF DataAccesses
<1>3. Fits(ioapic_read_redir(Line), 2 + 2, a, 0)
  BY <1>1, <1>2, Join DEF ioapic_read_redir
<1> QED BY <1>3

\* set_mask, from place a + 1.
LEMMA MaskFits ==
  ASSUME NEW a \in Nat, NEW m, a + 2 \in LoadLow, a + 7 \in RemaskAt,
         (a + 5 \in MaskTrue /\ m = TRUE) \/ (a + 5 \in MaskFalse /\ m = FALSE)
  PROVE  Fits(set_mask(Line, m), 9, a, 0)
<1>1. Fits(ioapic_read_redir(Line), 4, a, 0)
  BY ReadFits
<1>2. a + 4 \in Nat /\ a + 4 + 1 = a + 5 /\ a + 5 \in Nat /\ a + 5 + 2 = a + 7
  OBVIOUS
<1>3. Fits(<<Do("mask", m)>>, 1, a + 4, 0)
  BY <1>2, MaskItemFits
<1>4. Fits(ioapic_write_redir(Line), 4, a + 5, 0)
  BY <1>2, WriteFits DEF StoreLow
<1>5. Fits(ioapic_read_redir(Line) \o <<Do("mask", m)>>, 4 + 1, a, 0)
  BY <1>1, <1>3, Join
<1>6. 4 + 1 = 5 /\ 5 + 4 = 9
  OBVIOUS
<1>7. Fits((ioapic_read_redir(Line) \o <<Do("mask", m)>>) \o ioapic_write_redir(Line), 5 + 4, a, 0)
  BY ONLY <1>5, <1>6, <1>4, Join, a \in Nat
<1> QED BY <1>7, <1>6, Zenon DEF set_mask

\* The entry that set_ioapic_redir writes.
LEMMA RedirFits ==
  ASSUME NEW a \in Nat, NEW v, NEW trig, a + 1 \in EntryAt \ {50}, a + 3 \in StoreLow,
         v = VectorAt(a + 4), trig = TrigAt(a + 4)
  PROVE  Fits(set_ioapic_redir(Line, v, trig), 5, a, 0)
<1> DEFINE e == [vector |-> v, trig_mode |-> trig, mask |-> FALSE]
<1>1. e = NewEntryAt(a + 1)
  <2>1. a + 1 # 50 /\ a + 1 + 3 = a + 4
    OBVIOUS
  <2> QED BY <2>1 DEF NewEntryAt, EntryOf
<1>2. a + 1 \in Nat /\ a + 1 + 2 = a + 3 /\ 1 + 4 = 5
  OBVIOUS
<1>3. Fits(<<Do("entry", e)>>, 1, a, 0)
  BY <1>1, EntryFits
<1>4. Fits(ioapic_write_redir(Line), 4, a + 1, 0)
  BY <1>2, WriteFits
<1>5. Fits(<<Do("entry", e)>> \o ioapic_write_redir(Line), 1 + 4, a, 0)
  <2> HIDE DEF e
  <2> QED BY <1>3, <1>4, Join
<1> QED BY <1>5, <1>2, Zenon DEF set_ioapic_redir

\* The beginning of a test, from place a + 1.
LEMMA SetupFits ==
  ASSUME NEW a \in Nat, NEW v, NEW trig, a + 1 \in HandleAt, a + 2 \in EntryAt \ {50},
         a + 4 \in StoreLow, v = HandlerAt(a + 1), v = VectorAt(a + 5), trig = TrigAt(a + 5)
  PROVE  Fits(Setup(v, trig), 6, a, 0)
<1>1. /\ a + 1 \in Nat /\ a + 1 + 1 = a + 2 /\ a + 1 + 3 = a + 4 /\ a + 1 + 4 = a + 5
      /\ 1 + 5 = 6
  OBVIOUS
<1>2. Fits(handle_irq_local(v), 1, a, 0)
  BY HandleFits
<1>3. Fits(set_ioapic_redir(Line, v, trig), 5, a + 1, 0)
  BY <1>1, RedirFits
<1>4. Fits(handle_irq_local(v) \o set_ioapic_redir(Line, v, trig), 1 + 5, a, 0)
  BY <1>2, <1>3, Join
<1> QED BY <1>4, <1>1, Zenon DEF Setup

\* A pulse on the line.
LEMMA ToggleFits ==
  ASSUME NEW a \in Nat, a + 1 \in LineUp, a + 2 \in LineDown
  PROVE  Fits(toggle_irq_line(Line), 2, a, 0)
<1>1. a + 1 \in Nat /\ a + 1 + 1 = a + 2 /\ 1 + 1 = 2
  OBVIOUS
<1>2. Fits(set_irq_line(Line, 1), 1, a, 0) /\ Fits(set_irq_line(Line, 0), 1, a + 1, 0)
  BY <1>1, LineFits
<1>3. Fits(set_irq_line(Line, 1) \o set_irq_line(Line, 0), 1 + 1, a, 0)
  BY <1>2, Join
<1> QED BY <1>3, <1>1, Zenon DEF toggle_irq_line

Masking   == set_mask(Line, TRUE)
Unmasking == set_mask(Line, FALSE)

\* Loading the entry, changing its mask bit and storing it.
LEMMA MaskingFits ==
  ASSUME NEW a \in Nat, a + 2 \in LoadLow, a + 7 \in RemaskAt
  PROVE  /\ a + 5 \in MaskTrue => Fits(Masking, 9, a, 0)
         /\ a + 5 \in MaskFalse => Fits(Unmasking, 9, a, 0)
<1>1. ASSUME NEW m, a + 5 \in MaskTrue, m = TRUE PROVE Fits(set_mask(Line, m), 9, a, 0)
  BY <1>1, MaskFits
<1>2. ASSUME NEW m, a + 5 \in MaskFalse, m = FALSE PROVE Fits(set_mask(Line, m), 9, a, 0)
  BY <1>2, MaskFits
<1> QED BY <1>1, <1>2, Zenon DEF Masking, Unmasking

\* The tests, each at its place.
LEMMA EdgeIntrFits ==
  Fits(test_ioapic_edge_intr, 9, 25, 0)
<1>1. Fits(Setup(\h76, EDGE), 6, 25, 0)
  BY SetupFits DEF HandleAt, EntryAt, StoreLow, SetupAt, HandlerAt, VectorAt, TrigAt, IsLevel
<1>2. Fits(toggle_irq_line(Line), 2, 31, 0)
  BY ToggleFits DEF LineUp, LineDown
<1>3. Fits(Report("edge_intr", 1), 1, 33, 0)
  BY ReportFits DEF Reports
<1>4. Fits(Setup(\h76, EDGE) \o toggle_irq_line(Line), 8, 25, 0)
  BY <1>1, <1>2, Join
<1>5. Fits(Setup(\h76, EDGE) \o toggle_irq_line(Line) \o Report("edge_intr", 1), 9, 25, 0)
  BY <1>4, <1>3, Join
<1> QED BY <1>5 DEF test_ioapic_edge_intr

\* From place 35.
LEMMA LevelIntrFits ==
  Fits(test_ioapic_level_intr, 8, 34, 0)
<1>1. Fits(Setup(\h77, LEVEL), 6, 34, 0)
  BY SetupFits DEF HandleAt, EntryAt, StoreLow, SetupAt, HandlerAt, VectorAt, TrigAt, IsLevel
<1>2. Fits(set_irq_line(Line, 1), 1, 40, 0)
  BY LineFits DEF LineUp, LineDown
<1>3. Fits(Report("level_intr", 1), 1, 41, 0)
  BY ReportFits DEF Reports
<1>4. Fits(Setup(\h77, LEVEL) \o set_irq_line(Line, 1), 7, 34, 0)
  BY <1>1, <1>2, Join
<1>5. Fits(Setup(\h77, LEVEL) \o set_irq_line(Line, 1) \o Report("level_intr", 1), 8, 34, 0)
  BY <1>4, <1>3, Join
<1> QED BY <1>5 DEF test_ioapic_level_intr

\* From place 62.
LEMMA CoalesceFits ==
  Fits(test_ioapic_level_coalesce, 8, 61, 0)
<1>1. Fits(Setup(\h98, LEVEL), 6, 61, 0)
  BY SetupFits DEF HandleAt, EntryAt, StoreLow, SetupAt, HandlerAt, VectorAt, TrigAt, IsLevel
<1>2. Fits(set_irq_line(Line, 1), 1, 67, 0)
  BY LineFits DEF LineUp, LineDown
<1>3. Fits(Report("coalesce", 1), 1, 68, 0)
  BY ReportFits DEF Reports
<1>4. Fits(Setup(\h98, LEVEL) \o set_irq_line(Line, 1), 7, 61, 0)
  BY <1>1, <1>2, Join
<1>5. Fits(Setup(\h98, LEVEL) \o set_irq_line(Line, 1) \o Report("coalesce", 1), 8, 61, 0)
  BY <1>4, <1>3, Join
<1> QED BY <1>5 DEF test_ioapic_level_coalesce

\* From place 70.
LEMMA SequentialFits ==
  Fits(test_ioapic_level_sequential, 9, 69, 0)
<1>1. Fits(Setup(\h99, LEVEL), 6, 69, 0)
  BY SetupFits DEF HandleAt, EntryAt, StoreLow, SetupAt, HandlerAt, VectorAt, TrigAt, IsLevel
<1>2. Fits(set_irq_line(Line, 1), 1, 75, 0)
  BY LineFits DEF LineUp, LineDown
<1>3. Fits(set_irq_line(Line, 1), 1, 76, 0)
  BY LineFits DEF LineUp, LineDown
<1>4. Fits(Report("sequential", 1), 1, 77, 0)
  BY ReportFits DEF Reports
<1>5. Fits(Setup(\h99, LEVEL) \o set_irq_line(Line, 1), 7, 69, 0)
  BY <1>1, <1>2, Join
<1>6. Fits(Setup(\h99, LEVEL) \o set_irq_line(Line, 1) \o set_irq_line(Line, 1), 8, 69, 0)
  BY <1>5, <1>3, Join
<1>7. Fits(Setup(\h99, LEVEL) \o set_irq_line(Line, 1) \o set_irq_line(Line, 1)
              \o Report("sequential", 1),
           9, 69, 0)
  BY <1>6, <1>4, Join
<1> QED BY <1>7 DEF test_ioapic_level_sequential

\* The wait of test_ioapic_simultaneous, a test of the counters before each
\* hlt.
LEMMA WaitFits == Fits(<<Do("until", 3), Do("hlt", 0)>>, 2, 86, 0)
<1>1. Place(0, 86 + 1, Do("until", 3)) /\ Place(0, 87 + 1, Do("hlt", 0))
  BY DEF Place, MainPlace, Do, DataAccesses
<1>2. Fits(<<Do("until", 3)>>, 1, 86, 0) /\ Fits(<<Do("hlt", 0)>>, 1, 87, 0)
  BY <1>1, FitsOne
<1> DEFINE u == <<Do("until", 3)>>
           v == <<Do("hlt", 0)>>
<1>3. Fits(u \o v, 2, 86, 0)
  <2>1. Fits(u, 1, 86, 0) /\ Fits(v, 1, 87, 0)
    BY <1>2
  <2> HIDE DEF u, v
  <2> QED BY <2>1, Join
<1>4. u \o v = <<Do("until", 3), Do("hlt", 0)>>
  BY Pair
<1> QED BY <1>3, <1>4, Zenon

\* The head of the loop of test_ioapic_level_retrigger.
LEMMA AgainFits == Fits(<<Do("again", 3)>>, 1, 89, 0)
<1>1. Place(0, 89 + 1, Do("again", 3))
  BY DEF Place, MainPlace, Do, DataAccesses
<1> QED BY <1>1, FitsOne

\* From place 79.
LEMMA RetriggerFits ==
  Fits(test_ioapic_level_retrigger, 14, 78, 0)
<1>1. Fits(Setup(\h9a, LEVEL), 6, 78, 0)
  BY SetupFits DEF HandleAt, EntryAt, StoreLow, SetupAt, HandlerAt, VectorAt, TrigAt, IsLevel
<1>2. Fits(irq_disable, 1, 84, 0)
  BY FlagFits
<1>3. Fits(set_irq_line(Line, 1), 1, 85, 0)
  BY LineFits DEF LineUp, LineDown
<1>4. Fits(<<Do("until", 3), Do("hlt", 0)>>, 2, 86, 0)
  BY WaitFits
<1>5. Fits(irq_disable, 1, 88, 0)
  BY FlagFits
<1>6. Fits(<<Do("again", 3)>>, 1, 89, 0)
  BY AgainFits
<1>7. Fits(irq_enable, 1, 90, 0)
  BY FlagFits
<1>8. Fits(Report("retrigger", 1), 1, 91, 0)
  BY ReportFits DEF Reports
<1>9. Fits(Setup(\h9a, LEVEL) \o irq_disable, 7, 78, 0)
  BY <1>1, <1>2, Join
<1>10. Fits(Setup(\h9a, LEVEL) \o irq_disable \o set_irq_line(Line, 1), 8, 78, 0)
  BY <1>9, <1>3, Join
<1>11. Fits(Setup(\h9a, LEVEL) \o irq_disable \o set_irq_line(Line, 1)
              \o <<Do("until", 3), Do("hlt", 0)>>,
           10, 78, 0)
  BY <1>10, <1>4, Join
<1>12. Fits(Setup(\h9a, LEVEL) \o irq_disable \o set_irq_line(Line, 1)
              \o <<Do("until", 3), Do("hlt", 0)>> \o irq_disable,
           11, 78, 0)
  BY <1>11, <1>5, Join
<1>13. Fits(Setup(\h9a, LEVEL) \o irq_disable \o set_irq_line(Line, 1)
              \o <<Do("until", 3), Do("hlt", 0)>> \o irq_disable \o <<Do("again", 3)>>,
           12, 78, 0)
  BY <1>12, <1>6, Join
<1>14. Fits(Setup(\h9a, LEVEL) \o irq_disable \o set_irq_line(Line, 1)
              \o <<Do("until", 3), Do("hlt", 0)>> \o irq_disable \o <<Do("again", 3)>>
              \o irq_enable,
           13, 78, 0)
  BY <1>13, <1>7, Join
<1>15. Fits(Setup(\h9a, LEVEL) \o irq_disable \o set_irq_line(Line, 1)
              \o <<Do("until", 3), Do("hlt", 0)>> \o irq_disable \o <<Do("again", 3)>>
              \o irq_enable \o Report("retrigger", 1),
           14, 78, 0)
  BY <1>14, <1>8, Join
<1> QED BY <1>15 DEF test_ioapic_level_retrigger

\* From place 93.
LEMMA EdgeMaskFits ==
  Fits(test_ioapic_edge_mask, 29, 92, 0)
<1>1. Fits(Setup(\h81, EDGE), 6, 92, 0)
  BY SetupFits DEF HandleAt, EntryAt, StoreLow, SetupAt, HandlerAt, VectorAt, TrigAt, IsLevel
<1>2. Fits(Masking, 9, 98, 0)
  BY MaskingFits DEF LoadLow, RemaskAt, MaskTrue, MaskFalse
<1>3. Fits(toggle_irq_line(Line), 2, 107, 0)
  BY ToggleFits DEF LineUp, LineDown
<1>4. Fits(Report("edge_mask", 0), 1, 109, 0)
  BY ReportFits DEF Reports
<1>5. Fits(Unmasking, 9, 110, 0)
  BY MaskingFits DEF LoadLow, RemaskAt, MaskTrue, MaskFalse
<1>6. Fits(set_irq_line(Line, 1), 1, 119, 0)
  BY LineFits DEF LineUp, LineDown
<1>7. Fits(Report("edge_mask", 1), 1, 120, 0)
  BY ReportFits DEF Reports
<1>8. Fits(Setup(\h81, EDGE) \o Masking, 15, 92, 0)
  BY <1>1, <1>2, Join
<1>9. Fits(Setup(\h81, EDGE) \o Masking \o toggle_irq_line(Line), 17, 92, 0)
  BY <1>8, <1>3, Join
<1>10. Fits(Setup(\h81, EDGE) \o Masking \o toggle_irq_line(Line) \o Report("edge_mask", 0),
           18, 92, 0)
  BY <1>9, <1>4, Join
<1>11. Fits(Setup(\h81, EDGE) \o Masking \o toggle_irq_line(Line) \o Report("edge_mask", 0)
              \o Unmasking,
           27, 92, 0)
  BY <1>10, <1>5, Join
<1>12. Fits(Setup(\h81, EDGE) \o Masking \o toggle_irq_line(Line) \o Report("edge_mask", 0)
              \o Unmasking \o set_irq_line(Line, 1),
           28, 92, 0)
  BY <1>11, <1>6, Join
<1>13. Fits(Setup(\h81, EDGE) \o Masking \o toggle_irq_line(Line) \o Report("edge_mask", 0)
              \o Unmasking \o set_irq_line(Line, 1) \o Report("edge_mask", 1),
           29, 92, 0)
  BY <1>12, <1>7, Join
<1> QED BY <1>13, Zenon DEF Masking, Unmasking, test_ioapic_edge_mask

\* From place 122.
LEMMA LevelMaskFits ==
  Fits(test_ioapic_level_mask, 27, 121, 0)
<1>1. Fits(Setup(\h82, LEVEL), 6, 121, 0)
  BY SetupFits DEF HandleAt, EntryAt, StoreLow, SetupAt, HandlerAt, VectorAt, TrigAt, IsLevel
<1>2. Fits(Masking, 9, 127, 0)
  BY MaskingFits DEF LoadLow, RemaskAt, MaskTrue, MaskFalse
<1>3. Fits(set_irq_line(Line, 1), 1, 136, 0)
  BY LineFits DEF LineUp, LineDown
<1>4. Fits(Report("level_mask", 0), 1, 137, 0)
  BY ReportFits DEF Reports
<1>5. Fits(Unmasking, 9, 138, 0)
  BY MaskingFits DEF LoadLow, RemaskAt, MaskTrue, MaskFalse
<1>6. Fits(Report("level_mask", 1), 1, 147, 0)
  BY ReportFits DEF Reports
<1>7. Fits(Setup(\h82, LEVEL) \o Masking, 15, 121, 0)
  BY <1>1, <1>2, Join
<1>8. Fits(Setup(\h82, LEVEL) \o Masking \o set_irq_line(Line, 1), 16, 121, 0)
  BY <1>7, <1>3, Join
<1>9. Fits(Setup(\h82, LEVEL) \o Masking \o set_irq_line(Line, 1)
              \o Report("level_mask", 0),
           17, 121, 0)
  BY <1>8, <1>4, Join
<1>10. Fits(Setup(\h82, LEVEL) \o Masking \o set_irq_line(Line, 1)
              \o Report("level_mask", 0) \o Unmasking,
           26, 121, 0)
  BY <1>9, <1>5, Join
<1>11. Fits(Setup(\h82, LEVEL) \o Masking \o set_irq_line(Line, 1)
              \o Report("level_mask", 0) \o Unmasking \o Report("level_mask", 1),
           27, 121, 0)
  BY <1>10, <1>6, Join
<1> QED BY <1>11, Zenon DEF Masking, Unmasking, test_ioapic_level_mask

\* From place 149.
LEMMA RetriggerMaskFits ==
  Fits(test_ioapic_level_retrigger_mask, 27, 148, 0)
<1>1. Fits(Setup(\h83, LEVEL), 6, 148, 0)
  BY SetupFits DEF HandleAt, EntryAt, StoreLow, SetupAt, HandlerAt, VectorAt, TrigAt, IsLevel
<1>2. Fits(set_irq_line(Line, 1), 1, 154, 0)
  BY LineFits DEF LineUp, LineDown
<1>3. Fits(Unmasking, 9, 155, 0)
  BY MaskingFits DEF LoadLow, RemaskAt, MaskTrue, MaskFalse
<1>4. Fits(Report("retrigger_mask", 1), 1, 164, 0)
  BY ReportFits DEF Reports
<1>5. Fits(set_irq_line(Line, 0), 1, 165, 0)
  BY LineFits DEF LineUp, LineDown
<1>6. Fits(Unmasking, 9, 166, 0)
  BY MaskingFits DEF LoadLow, RemaskAt, MaskTrue, MaskFalse
<1>7. Fits(Setup(\h83, LEVEL) \o set_irq_line(Line, 1), 7, 148, 0)
  BY <1>1, <1>2, Join
<1>8. Fits(Setup(\h83, LEVEL) \o set_irq_line(Line, 1) \o Unmasking, 16, 148, 0)
  BY <1>7, <1>3, Join
<1>9. Fits(Setup(\h83, LEVEL) \o set_irq_line(Line, 1) \o Unmasking
              \o Report("retrigger_mask", 1),
           17, 148, 0)
  BY <1>8, <1>4, Join
<1>10. Fits(Setup(\h83, LEVEL) \o set_irq_line(Line, 1) \o Unmasking
              \o Report("retrigger_mask", 1) \o set_irq_line(Line, 0),
           18, 148, 0)
  BY <1>9, <1>5, Join
<1>11. Fits(Setup(\h83, LEVEL) \o set_irq_line(Line, 1) \o Unmasking
              \o Report("retrigger_mask", 1) \o set_irq_line(Line, 0) \o Unmasking,
           27, 148, 0)
  BY <1>10, <1>6, Join
<1> QED BY <1>11, Zenon DEF Masking, Unmasking, test_ioapic_level_retrigger_mask

\* From place 176.
LEMMA EdgeTmr0Fits ==
  Fits(test_ioapic_edge_tmr(0), 10, 175, 0)
<1>1. Fits(Setup(\h79, EDGE), 6, 175, 0)
  BY SetupFits DEF HandleAt, EntryAt, StoreLow, SetupAt, HandlerAt, VectorAt, TrigAt, IsLevel
<1>2. Fits(<<Do("tmr", 0)>>, 1, 181, 0)
  BY TmrFits DEF TmrAt
<1>3. Fits(toggle_irq_line(Line), 2, 182, 0)
  BY ToggleFits DEF LineUp, LineDown
<1>4. Fits(Report("edge_tmr", 0), 1, 184, 0)
  BY ReportFits DEF Reports
<1>5. Fits(Setup(\h79, EDGE) \o <<Do("tmr", 0)>>, 7, 175, 0)
  BY <1>1, <1>2, Join
<1>6. Fits(Setup(\h79, EDGE) \o <<Do("tmr", 0)>> \o toggle_irq_line(Line), 9, 175, 0)
  BY <1>5, <1>3, Join
<1>7. Fits(Setup(\h79, EDGE) \o <<Do("tmr", 0)>> \o toggle_irq_line(Line)
              \o Report("edge_tmr", 0),
           10, 175, 0)
  BY <1>6, <1>4, Join
<1> QED BY <1>7 DEF test_ioapic_edge_tmr

\* From place 186.
LEMMA LevelTmr0Fits ==
  Fits(test_ioapic_level_tmr(0), 9, 185, 0)
<1>1. Fits(Setup(\h79, LEVEL), 6, 185, 0)
  BY SetupFits DEF HandleAt, EntryAt, StoreLow, SetupAt, HandlerAt, VectorAt, TrigAt, IsLevel
<1>2. Fits(<<Do("tmr", 0)>>, 1, 191, 0)
  BY TmrFits DEF TmrAt
<1>3. Fits(set_irq_line(Line, 1), 1, 192, 0)
  BY LineFits DEF LineUp, LineDown
<1>4. Fits(Report("level_tmr", 0), 1, 193, 0)
  BY ReportFits DEF Reports
<1>5. Fits(Setup(\h79, LEVEL) \o <<Do("tmr", 0)>>, 7, 185, 0)
  BY <1>1, <1>2, Join
<1>6. Fits(Setup(\h79, LEVEL) \o <<Do("tmr", 0)>> \o set_irq_line(Line, 1), 8, 185, 0)
  BY <1>5, <1>3, Join
<1>7. Fits(Setup(\h79, LEVEL) \o <<Do("tmr", 0)>> \o set_irq_line(Line, 1)
              \o Report("level_tmr", 0),
           9, 185, 0)
  BY <1>6, <1>4, Join
<1> QED BY <1>7 DEF test_ioapic_level_tmr

\* From place 195.
LEMMA LevelTmr1Fits ==
  Fits(test_ioapic_level_tmr(1), 9, 194, 0)
<1>1. Fits(Setup(\h79, LEVEL), 6, 194, 0)
  BY SetupFits DEF HandleAt, EntryAt, StoreLow, SetupAt, HandlerAt, VectorAt, TrigAt, IsLevel
<1>2. Fits(<<Do("tmr", 0)>>, 1, 200, 0)
  BY TmrFits DEF TmrAt
<1>3. Fits(set_irq_line(Line, 1), 1, 201, 0)
  BY LineFits DEF LineUp, LineDown
<1>4. Fits(Report("level_tmr", 1), 1, 202, 0)
  BY ReportFits DEF Reports
<1>5. Fits(Setup(\h79, LEVEL) \o <<Do("tmr", 0)>>, 7, 194, 0)
  BY <1>1, <1>2, Join
<1>6. Fits(Setup(\h79, LEVEL) \o <<Do("tmr", 0)>> \o set_irq_line(Line, 1), 8, 194, 0)
  BY <1>5, <1>3, Join
<1>7. Fits(Setup(\h79, LEVEL) \o <<Do("tmr", 0)>> \o set_irq_line(Line, 1)
              \o Report("level_tmr", 1),
           9, 194, 0)
  BY <1>6, <1>4, Join
<1> QED BY <1>7 DEF test_ioapic_level_tmr

\* From place 204.
LEMMA EdgeTmr1Fits ==
  Fits(test_ioapic_edge_tmr(1), 10, 203, 0)
<1>1. Fits(Setup(\h79, EDGE), 6, 203, 0)
  BY SetupFits DEF HandleAt, EntryAt, StoreLow, SetupAt, HandlerAt, VectorAt, TrigAt, IsLevel
<1>2. Fits(<<Do("tmr", 0)>>, 1, 209, 0)
  BY TmrFits DEF TmrAt
<1>3. Fits(toggle_irq_line(Line), 2, 210, 0)
  BY ToggleFits DEF LineUp, LineDown
<1>4. Fits(Report("edge_tmr", 1), 1, 212, 0)
  BY ReportFits DEF Reports
<1>5. Fits(Setup(\h79, EDGE) \o <<Do("tmr", 0)>>, 7, 203, 0)
  BY <1>1, <1>2, Join
<1>6. Fits(Setup(\h79, EDGE) \o <<Do("tmr", 0)>> \o toggle_irq_line(Line), 9, 203, 0)
  BY <1>5, <1>3, Join
<1>7. Fits(Setup(\h79, EDGE) \o <<Do("tmr", 0)>> \o toggle_irq_line(Line)
              \o Report("edge_tmr", 1),
           10, 203, 0)
  BY <1>6, <1>4, Join
<1> QED BY <1>7 DEF test_ioapic_edge_tmr

\* Two lines are raised with interrupts off, from place 43.
LEMMA OtherLineFits ==
  /\ Fits(set_ioapic_redir(\h0f, \h66, EDGE), 5, 49, 0)
  /\ Fits(toggle_irq_line(\h0f), 2, 55, 0)
<1>1. 52 \in DataAt /\ 54 \in DataAt /\ RegAt(52) = Low(\h0f) /\ RegAt(54) = High(\h0f)
  BY DEF DataAt, StoreAt, RegAt
<1>2. /\ Place(0, 52, Do("store", RegAt(52)))
      /\ Place(0, 54, Do("store", RegAt(54)))
  BY <1>1 DEF Place, MainPlace, Do, DataAccesses, StoreAt
<1>3. Fits(Access("store", Low(\h0f)), 2, 50, 0)
  <2>1. 50 + 2 = 52 /\ 50 \in Nat /\ "store" \in DataAccesses
    BY DEF DataAccesses
  <2> QED BY <1>1, <1>2, <2>1, AccessFits
<1>4. Fits(Access("store", High(\h0f)), 2, 52, 0)
  <2>1. 52 + 2 = 54 /\ 52 \in Nat /\ "store" \in DataAccesses
    BY DEF DataAccesses
  <2> QED BY <1>1, <1>2, <2>1, AccessFits
<1>5. Fits(Access("store", Low(\h0f)) \o Access("store", High(\h0f)), 4, 50, 0)
  BY <1>3, <1>4, Join
<1>6. Fits(ioapic_write_redir(\h0f), 4, 50, 0)
  BY <1>5, Zenon DEF ioapic_write_redir
<1>7. Fits(<<Do("entry", NewEntryAt(50))>>, 1, 49, 0)
  <2>1. 49 + 1 = 50 /\ 49 \in Nat /\ 50 \in EntryAt
    BY DEF EntryAt
  <2> QED BY <2>1, EntryFits
<1>8. Fits(<<Do("entry", NewEntryAt(50))>> \o ioapic_write_redir(\h0f), 5, 49, 0)
  BY <1>6, <1>7, Join
<1>9. NewEntryAt(50) = [vector |-> \h66, trig_mode |-> EDGE, mask |-> FALSE]
  BY DEF NewEntryAt, EntryOf
<1>10. Fits(set_ioapic_redir(\h0f, \h66, EDGE), 5, 49, 0)
  BY <1>8, <1>9, Zenon DEF set_ioapic_redir
<1>11. Place(0, 55 + 1, Do("line", <<\h0f, 1>>)) /\ Place(0, 56 + 1, Do("line", <<\h0f, 0>>))
  BY DEF Place, MainPlace, Do, DataAccesses
<1>12. Fits(set_irq_line(\h0f, 1), 1, 55, 0) /\ Fits(set_irq_line(\h0f, 0), 1, 56, 0)
  BY <1>11, FitsOne DEF set_irq_line
<1>13. Fits(set_irq_line(\h0f, 1) \o set_irq_line(\h0f, 0), 2, 55, 0)
  BY <1>12, Join
<1>14. Fits(toggle_irq_line(\h0f), 2, 55, 0)
  BY <1>13, Zenon DEF toggle_irq_line
<1> QED BY <1>10, <1>14

\* The test of both lines.
LEMMA SimultaneousFits ==
  Fits(test_ioapic_simultaneous, 19, 42, 0)
<1>1. Fits(handle_irq_local(\h78), 1, 42, 0)
  BY HandleFits DEF HandleAt, HandlerAt
<1>2. Fits(handle_irq_local(\h66), 1, 43, 0)
  BY HandleFits DEF HandleAt, HandlerAt
<1>3. Fits(set_ioapic_redir(Line, \h78, EDGE), 5, 44, 0)
  BY RedirFits DEF EntryAt, StoreLow, SetupAt, VectorAt, TrigAt, IsLevel
<1>4. Fits(set_ioapic_redir(\h0f, \h66, EDGE), 5, 49, 0)
  BY OtherLineFits
<1>5. Fits(irq_disable, 1, 54, 0)
  BY FlagFits
<1>6. Fits(toggle_irq_line(\h0f), 2, 55, 0)
  BY OtherLineFits
<1>7. Fits(toggle_irq_line(Line), 2, 57, 0)
  BY ToggleFits DEF LineUp, LineDown
<1>8. Fits(irq_enable, 1, 59, 0)
  BY FlagFits
<1>9. Fits(Report("simultaneous", 1), 1, 60, 0)
  BY ReportFits DEF Reports
<1>10. Fits(handle_irq_local(\h78) \o handle_irq_local(\h66), 2, 42, 0)
  BY <1>1, <1>2, Join
<1>11. Fits(handle_irq_local(\h78) \o handle_irq_local(\h66)
              \o set_ioapic_redir(Line, \h78, EDGE),
           7, 42, 0)
  BY <1>10, <1>3, Join
<1>12. Fits(handle_irq_local(\h78) \o handle_irq_local(\h66)
              \o set_ioapic_redir(Line, \h78, EDGE) \o set_ioapic_redir(\h0f, \h66, EDGE),
           12, 42, 0)
  BY <1>11, <1>4, Join
<1>13. Fits(handle_irq_local(\h78) \o handle_irq_local(\h66)
              \o set_ioapic_redir(Line, \h78, EDGE) \o set_ioapic_redir(\h0f, \h66, EDGE)
              \o irq_disable,
           13, 42, 0)
  BY <1>12, <1>5, Join
<1>14. Fits(handle_irq_local(\h78) \o handle_irq_local(\h66)
              \o set_ioapic_redir(Line, \h78, EDGE) \o set_ioapic_redir(\h0f, \h66, EDGE)
              \o irq_disable \o toggle_irq_line(\h0f),
           15, 42, 0)
  BY <1>13, <1>6, Join
<1>15. Fits(handle_irq_local(\h78) \o handle_irq_local(\h66)
              \o set_ioapic_redir(Line, \h78, EDGE) \o set_ioapic_redir(\h0f, \h66, EDGE)
              \o irq_disable \o toggle_irq_line(\h0f) \o toggle_irq_line(Line),
           17, 42, 0)
  BY <1>14, <1>7, Join
<1>16. Fits(handle_irq_local(\h78) \o handle_irq_local(\h66)
              \o set_ioapic_redir(Line, \h78, EDGE) \o set_ioapic_redir(\h0f, \h66, EDGE)
              \o irq_disable \o toggle_irq_line(\h0f) \o toggle_irq_line(Line) \o irq_enable,
           18, 42, 0)
  BY <1>15, <1>8, Join
<1>17. Fits(handle_irq_local(\h78) \o handle_irq_local(\h66)
              \o set_ioapic_redir(Line, \h78, EDGE) \o set_ioapic_redir(\h0f, \h66, EDGE)
              \o irq_disable \o toggle_irq_line(\h0f) \o toggle_irq_line(Line) \o irq_enable
              \o Report("simultaneous", 1),
           19, 42, 0)
  BY <1>16, <1>9, Join
<1> QED BY <1>17 DEF test_ioapic_simultaneous

\* The register tests: every access to one of the first three registers.
LEMMA WordFits ==
  ASSUME NEW a \in Nat, NEW op, NEW r, a + 2 \in WordAt, r = RegAt(a + 2),
         \/ op = "old" /\ a + 2 \in {3, 10}
         \/ op = "new" /\ a + 2 \in {7, 14, 19, 24}
         \/ op = "flip" /\ a + 2 \in {5, 12}
         \/ op = "ones" /\ a + 2 = 17
         \/ op = "zero" /\ a + 2 = 22
  PROVE  Fits(Access(op, r), 2, a, 0)
<1>1. a + 2 \in DataAt /\ op \in DataAccesses
  BY DEF DataAt, DataAccesses
<1>2. Place(0, a + 2, Do(op, r))
  BY <1>1 DEF Place, MainPlace, Do, DataAccesses
<1> QED BY <1>1, <1>2, AccessFits

\* From place 2.
LEMMA VersionFits ==
  Fits(ioapic_reg_version, 7, 1, 0)
<1>1. Fits(Access("old", 1), 2, 1, 0)
  BY WordFits DEF WordAt, RegAt
<1>2. Fits(Access("flip", 1), 2, 3, 0)
  BY WordFits DEF WordAt, RegAt
<1>3. Fits(Access("new", 1), 2, 5, 0)
  BY WordFits DEF WordAt, RegAt
<1>4. Fits(Report("version", 1), 1, 7, 0)
  BY ReportFits DEF Reports
<1>5. Fits(Access("old", 1) \o Access("flip", 1), 4, 1, 0)
  BY <1>1, <1>2, Join
<1>6. Fits(Access("old", 1) \o Access("flip", 1) \o Access("new", 1), 6, 1, 0)
  BY <1>5, <1>3, Join
<1>7. Fits(Access("old", 1) \o Access("flip", 1) \o Access("new", 1)
              \o Report("version", 1),
           7, 1, 0)
  BY <1>6, <1>4, Join
<1> QED BY <1>7 DEF ioapic_reg_version

\* From place 9.
LEMMA IdFits ==
  Fits(ioapic_reg_id, 7, 8, 0)
<1>1. Fits(Access("old", 0), 2, 8, 0)
  BY WordFits DEF WordAt, RegAt
<1>2. Fits(Access("flip", 0), 2, 10, 0)
  BY WordFits DEF WordAt, RegAt
<1>3. Fits(Access("new", 0), 2, 12, 0)
  BY WordFits DEF WordAt, RegAt
<1>4. Fits(Report("id", 1), 1, 14, 0)
  BY ReportFits DEF Reports
<1>5. Fits(Access("old", 0) \o Access("flip", 0), 4, 8, 0)
  BY <1>1, <1>2, Join
<1>6. Fits(Access("old", 0) \o Access("flip", 0) \o Access("new", 0), 6, 8, 0)
  BY <1>5, <1>3, Join
<1>7. Fits(Access("old", 0) \o Access("flip", 0) \o Access("new", 0) \o Report("id", 1),
           7, 8, 0)
  BY <1>6, <1>4, Join
<1> QED BY <1>7 DEF ioapic_reg_id

\* From place 16.
LEMMA ArbitrationFits ==
  Fits(ioapic_arbitration_id, 10, 15, 0)
<1>1. Fits(Access("ones", 0), 2, 15, 0)
  BY WordFits DEF WordAt, RegAt
<1>2. Fits(Access("new", 2), 2, 17, 0)
  BY WordFits DEF WordAt, RegAt
<1>3. Fits(Report("arbitration", 1), 1, 19, 0)
  BY ReportFits DEF Reports
<1>4. Fits(Access("zero", 2), 2, 20, 0)
  BY WordFits DEF WordAt, RegAt
<1>5. Fits(Access("new", 2), 2, 22, 0)
  BY WordFits DEF WordAt, RegAt
<1>6. Fits(Report("arbitration", 1), 1, 24, 0)
  BY ReportFits DEF Reports
<1>7. Fits(Access("ones", 0) \o Access("new", 2), 4, 15, 0)
  BY <1>1, <1>2, Join
<1>8. Fits(Access("ones", 0) \o Access("new", 2) \o Report("arbitration", 1), 5, 15, 0)
  BY <1>7, <1>3, Join
<1>9. Fits(Access("ones", 0) \o Access("new", 2) \o Report("arbitration", 1)
              \o Access("zero", 2),
           7, 15, 0)
  BY <1>8, <1>4, Join
<1>10. Fits(Access("ones", 0) \o Access("new", 2) \o Report("arbitration", 1)
              \o Access("zero", 2) \o Access("new", 2),
           9, 15, 0)
  BY <1>9, <1>5, Join
<1>11. Fits(Access("ones", 0) \o Access("new", 2) \o Report("arbitration", 1)
              \o Access("zero", 2) \o Access("new", 2) \o Report("arbitration", 1),
           10, 15, 0)
  BY <1>10, <1>6, Join
<1> QED BY <1>11 DEF ioapic_arbitration_id

\* The end of an SMP test, and all of it.
LEMMA CallFits ==
  ASSUME NEW a \in Nat, NEW f, a + 1 \in TmrAt, a + 3 \in Awaits,
         \/ f = "toggle" /\ a + 2 \in {222, 255}
         \/ f = "set" /\ a + 2 \in {233, 244}
  PROVE  Fits(<<Do("tmr", 0), Do("call", f), Do("await", 0)>>, 3, a, 0)
<1>1. Place(0, a + 1, Do("tmr", 0)) /\ Place(0, a + 2, Do("call", f))
        /\ Place(0, a + 3, Do("await", 0))
  BY DEF Place, MainPlace, Do, DataAccesses
<1> DEFINE u == <<Do("tmr", 0), Do("call", f), Do("await", 0)>>
           S == {Do("tmr", 0), Do("call", f), Do("await", 0)}
<1>2. u \in Seq(S) /\ Len(u) = 3
  OBVIOUS
<1>3. u[1] = Do("tmr", 0) /\ u[2] = Do("call", f) /\ u[3] = Do("await", 0)
  OBVIOUS
<1>4. Place(0, a + 1, u[1]) /\ Place(0, a + 2, u[2]) /\ Place(0, a + 3, u[3])
  BY <1>1, <1>3, Zenon
<1>5. Fits(u, 3, a, 0)
  <2> HIDE DEF u, S
  <2>1. \A i \in 1 .. 3 : i = 1 \/ i = 2 \/ i = 3
    OBVIOUS
  <2> QED BY <1>2, <1>4, <2>1 DEF Fits, IsSeq
<1> QED BY <1>5

\* A test of the trigger mode with the line raised on vCPU 1.
LEMMA SmpFits ==
  ASSUME NEW a \in Nat, NEW trig, NEW f, NEW test, NEW expected,
         a + 1 \in ResetAt, a + 2 \in HandleAt, a + 3 \in EntryAt \ {50}, a + 5 \in StoreLow,
         HandlerAt(a + 2) = \h79, VectorAt(a + 6) = \h79, trig = TrigAt(a + 6),
         a + 8 \in TmrAt, a + 10 \in Awaits, Reports(a + 11, <<test, expected>>),
         \/ f = "toggle" /\ a + 9 \in {222, 255}
         \/ f = "set" /\ a + 9 \in {233, 244}
  PROVE  Fits(SmpTest(trig, f, test, expected), 11, a, 0)
<1> DEFINE u == <<Do("reset", 0)>>
           w == <<Do("tmr", 0), Do("call", f), Do("await", 0)>>
<1>1. /\ a + 1 \in Nat /\ a + 7 \in Nat /\ a + 10 \in Nat
      /\ a + 1 + 1 = a + 2 /\ a + 1 + 2 = a + 3 /\ a + 1 + 4 = a + 5 /\ a + 1 + 5 = a + 6
      /\ a + 7 + 1 = a + 8 /\ a + 7 + 2 = a + 9 /\ a + 7 + 3 = a + 10 /\ a + 10 + 1 = a + 11
  OBVIOUS
<1>2. Fits(u, 1, a, 0)
  BY ResetFits
<1>3. Fits(Setup(\h79, trig), 6, a + 1, 0)
  BY <1>1, SetupFits
<1>4. Fits(w, 3, a + 7, 0)
  BY <1>1, CallFits
<1>5. Fits(Report(test, expected), 1, a + 10, 0)
  BY <1>1, ReportFits
<1>6. Fits(u \o Setup(\h79, trig) \o w \o Report(test, expected), 11, a, 0)
  <2> HIDE DEF u, w
  <2>1. Fits(u \o Setup(\h79, trig), 7, a, 0)
    BY ONLY <1>2, <1>3, Join, a \in Nat
  <2>2. Fits(u \o Setup(\h79, trig) \o w, 10, a, 0)
    BY ONLY <2>1, <1>4, Join, a \in Nat
  <2> QED BY ONLY <2>2, <1>5, Join, a \in Nat
<1> QED BY <1>6, Zenon DEF SmpTest

\* The four such tests that test_ioapic makes.
LEMMA SmpTestsFit ==
  /\ Fits(test_ioapic_edge_tmr_smp(0), 11, 213, 0)
  /\ Fits(test_ioapic_level_tmr_smp(0), 11, 224, 0)
  /\ Fits(test_ioapic_level_tmr_smp(1), 11, 235, 0)
  /\ Fits(test_ioapic_edge_tmr_smp(1), 11, 246, 0)
<1>1. Fits(SmpTest(EDGE, "toggle", "edge_tmr", 0), 11, 213, 0)
  BY SmpFits DEF ResetAt, HandleAt, EntryAt, StoreLow, SetupAt, HandlerAt, VectorAt, TrigAt, IsLevel, TmrAt, Awaits, Reports
<1>2. Fits(SmpTest(LEVEL, "set", "level_tmr", 0), 11, 224, 0)
  BY SmpFits DEF ResetAt, HandleAt, EntryAt, StoreLow, SetupAt, HandlerAt, VectorAt, TrigAt, IsLevel, TmrAt, Awaits, Reports
<1>3. Fits(SmpTest(LEVEL, "set", "level_tmr", 1), 11, 235, 0)
  BY SmpFits DEF ResetAt, HandleAt, EntryAt, StoreLow, SetupAt, HandlerAt, VectorAt, TrigAt, IsLevel, TmrAt, Awaits, Reports
<1>4. Fits(SmpTest(EDGE, "toggle", "edge_tmr", 1), 11, 246, 0)
  BY SmpFits DEF ResetAt, HandleAt, EntryAt, StoreLow, SetupAt, HandlerAt, VectorAt, TrigAt, IsLevel, TmrAt, Awaits, Reports
<1> QED BY <1>1, <1>2, <1>3, <1>4, Zenon DEF test_ioapic_edge_tmr_smp, test_ioapic_level_tmr_smp

\* The tests one vCPU is enough for: four joins of what comes one after the other.
LEMMA AloneFits ==
  Fits(irq_enable \o ioapic_reg_version \o ioapic_reg_id
        \o ioapic_arbitration_id \o test_ioapic_edge_intr
        \o test_ioapic_level_intr \o test_ioapic_simultaneous
        \o test_ioapic_level_coalesce \o test_ioapic_level_sequential
        \o test_ioapic_level_retrigger \o test_ioapic_edge_mask
        \o test_ioapic_level_mask \o test_ioapic_level_retrigger_mask
        \o test_ioapic_edge_tmr(0) \o test_ioapic_level_tmr(0)
        \o test_ioapic_level_tmr(1) \o test_ioapic_edge_tmr(1),
       213, 0, 0)
<1>1. Fits(irq_enable, 1, 0, 0)
  BY FlagFits
<1>2. Fits(irq_enable \o ioapic_reg_version,
           8, 0, 0)
  BY ONLY <1>1, VersionFits, Join
<1>3. Fits(irq_enable \o ioapic_reg_version \o ioapic_reg_id,
           15, 0, 0)
  BY ONLY <1>2, IdFits, Join
<1>4. Fits(irq_enable \o ioapic_reg_version \o ioapic_reg_id
            \o ioapic_arbitration_id,
           25, 0, 0)
  BY ONLY <1>3, ArbitrationFits, Join
<1>5. Fits(irq_enable \o ioapic_reg_version \o ioapic_reg_id
            \o ioapic_arbitration_id \o test_ioapic_edge_intr,
           34, 0, 0)
  BY ONLY <1>4, EdgeIntrFits, Join
<1>6. Fits(irq_enable \o ioapic_reg_version \o ioapic_reg_id
            \o ioapic_arbitration_id \o test_ioapic_edge_intr
            \o test_ioapic_level_intr,
           42, 0, 0)
  BY ONLY <1>5, LevelIntrFits, Join
<1>7. Fits(irq_enable \o ioapic_reg_version \o ioapic_reg_id
            \o ioapic_arbitration_id \o test_ioapic_edge_intr
            \o test_ioapic_level_intr \o test_ioapic_simultaneous,
           61, 0, 0)
  BY ONLY <1>6, SimultaneousFits, Join
<1>8. Fits(irq_enable \o ioapic_reg_version \o ioapic_reg_id
            \o ioapic_arbitration_id \o test_ioapic_edge_intr
            \o test_ioapic_level_intr \o test_ioapic_simultaneous
            \o test_ioapic_level_coalesce,
           69, 0, 0)
  BY ONLY <1>7, CoalesceFits, Join
<1>9. Fits(irq_enable \o ioapic_reg_version \o ioapic_reg_id
            \o ioapic_arbitration_id \o test_ioapic_edge_intr
            \o test_ioapic_level_intr \o test_ioapic_simultaneous
            \o test_ioapic_level_coalesce \o test_ioapic_level_sequential,
           78, 0, 0)
  BY ONLY <1>8, SequentialFits, Join
<1>10. Fits(irq_enable \o ioapic_reg_version \o ioapic_reg_id
            \o ioapic_arbitration_id \o test_ioapic_edge_intr
            \o test_ioapic_level_intr \o test_ioapic_simultaneous
            \o test_ioapic_level_coalesce \o test_ioapic_level_sequential
            \o test_ioapic_level_retrigger,
           92, 0, 0)
  BY ONLY <1>9, RetriggerFits, Join
<1>11. Fits(irq_enable \o ioapic_reg_version \o ioapic_reg_id
            \o ioapic_arbitration_id \o test_ioapic_edge_intr
            \o test_ioapic_level_intr \o test_ioapic_simultaneous
            \o test_ioapic_level_coalesce \o test_ioapic_level_sequential
            \o test_ioapic_level_retrigger \o test_ioapic_edge_mask,
           121, 0, 0)
  BY ONLY <1>10, EdgeMaskFits, Join
<1>12. Fits(irq_enable \o ioapic_reg_version \o ioapic_reg_id
            \o ioapic_arbitration_id \o test_ioapic_edge_intr
            \o test_ioapic_level_intr \o test_ioapic_simultaneous
            \o test_ioapic_level_coalesce \o test_ioapic_level_sequential
            \o test_ioapic_level_retrigger \o test_ioapic_edge_mask
            \o test_ioapic_level_mask,
           148, 0, 0)
  BY ONLY <1>11, LevelMaskFits, Join
<1>13. Fits(irq_enable \o ioapic_reg_version \o ioapic_reg_id
            \o ioapic_arbitration_id \o test_ioapic_edge_intr
            \o test_ioapic_level_intr \o test_ioapic_simultaneous
            \o test_ioapic_level_coalesce \o test_ioapic_level_sequential
            \o test_ioapic_level_retrigger \o test_ioapic_edge_mask
            \o test_ioapic_level_mask \o test_ioapic_level_retrigger_mask,
           175, 0, 0)
  BY ONLY <1>12, RetriggerMaskFits, Join
<1>14. Fits(irq_enable \o ioapic_reg_version \o ioapic_reg_id
            \o ioapic_arbitration_id \o test_ioapic_edge_intr
            \o test_ioapic_level_intr \o test_ioapic_simultaneous
            \o test_ioapic_level_coalesce \o test_ioapic_level_sequential
            \o test_ioapic_level_retrigger \o test_ioapic_edge_mask
            \o test_ioapic_level_mask \o test_ioapic_level_retrigger_mask
            \o test_ioapic_edge_tmr(0),
           185, 0, 0)
  BY ONLY <1>13, EdgeTmr0Fits, Join
<1>15. Fits(irq_enable \o ioapic_reg_version \o ioapic_reg_id
            \o ioapic_arbitration_id \o test_ioapic_edge_intr
            \o test_ioapic_level_intr \o test_ioapic_simultaneous
            \o test_ioapic_level_coalesce \o test_ioapic_level_sequential
            \o test_ioapic_level_retrigger \o test_ioapic_edge_mask
            \o test_ioapic_level_mask \o test_ioapic_level_retrigger_mask
            \o test_ioapic_edge_tmr(0) \o test_ioapic_level_tmr(0),
           194, 0, 0)
  BY ONLY <1>14, LevelTmr0Fits, Join
<1>16. Fits(irq_enable \o ioapic_reg_version \o ioapic_reg_id
            \o ioapic_arbitration_id \o test_ioapic_edge_intr
            \o test_ioapic_level_intr \o test_ioapic_simultaneous
            \o test_ioapic_level_coalesce \o test_ioapic_level_sequential
            \o test_ioapic_level_retrigger \o test_ioapic_edge_mask
            \o test_ioapic_level_mask \o test_ioapic_level_retrigger_mask
            \o test_ioapic_edge_tmr(0) \o test_ioapic_level_tmr(0)
            \o test_ioapic_level_tmr(1),
           203, 0, 0)
  BY ONLY <1>15, LevelTmr1Fits, Join
<1>17. Fits(irq_enable \o ioapic_reg_version \o ioapic_reg_id
            \o ioapic_arbitration_id \o test_ioapic_edge_intr
            \o test_ioapic_level_intr \o test_ioapic_simultaneous
            \o test_ioapic_level_coalesce \o test_ioapic_level_sequential
            \o test_ioapic_level_retrigger \o test_ioapic_edge_mask
            \o test_ioapic_level_mask \o test_ioapic_level_retrigger_mask
            \o test_ioapic_edge_tmr(0) \o test_ioapic_level_tmr(0)
            \o test_ioapic_level_tmr(1) \o test_ioapic_edge_tmr(1),
           213, 0, 0)
  BY ONLY <1>16, EdgeTmr1Fits, Join
<1> QED BY <1>17

\* The whole of main's script: it has 257 items, or 213 with one vCPU.
MainLen == IF Cardinality(Online) > 1 THEN 257 ELSE 213

\* The whole of test_ioapic fits its table.
LEMMA MainFits == Fits(test_ioapic, MainLen, 0, 0)
<1> DEFINE smp == test_ioapic_edge_tmr_smp(0) \o test_ioapic_level_tmr_smp(0)
                    \o test_ioapic_level_tmr_smp(1) \o test_ioapic_edge_tmr_smp(1)
           rest == IF Cardinality(Online) > 1 THEN smp ELSE <<>>
<1>1. Fits(test_ioapic_edge_tmr_smp(0) \o test_ioapic_level_tmr_smp(0), 22, 213, 0)
  BY ONLY SmpTestsFit, Join
<1>2. Fits(test_ioapic_edge_tmr_smp(0) \o test_ioapic_level_tmr_smp(0)
             \o test_ioapic_level_tmr_smp(1), 33, 213, 0)
  BY ONLY <1>1, SmpTestsFit, Join
<1>3. Fits(smp, 44, 213, 0)
  BY ONLY <1>2, SmpTestsFit, Join
<1>4. Fits(<<>>, 0, 213, 0)
  BY EmptySeq DEF Fits, IsSeq
<1> HIDE DEF smp
<1>5. Fits(rest, MainLen - 213, 213, 0)
  <2>1. CASE Cardinality(Online) > 1
    <3>1. rest = smp /\ MainLen - 213 = 44
      BY <2>1 DEF MainLen
    <3> HIDE DEF rest
    <3> QED BY <1>3, <3>1, Zenon
  <2>2. CASE ~(Cardinality(Online) > 1)
    <3>1. rest = <<>> /\ MainLen - 213 = 0
      BY <2>2 DEF MainLen
    <3> HIDE DEF rest
    <3> QED BY <1>4, <3>1, Zenon
  <2> QED BY <2>1, <2>2
<1>6. MainLen - 213 \in Nat /\ 213 + (MainLen - 213) = MainLen /\ 0 + 213 = 213
  BY DEF MainLen
<1> DEFINE alone ==
             irq_enable \o ioapic_reg_version \o ioapic_reg_id
              \o ioapic_arbitration_id \o test_ioapic_edge_intr
              \o test_ioapic_level_intr \o test_ioapic_simultaneous
              \o test_ioapic_level_coalesce \o test_ioapic_level_sequential
              \o test_ioapic_level_retrigger \o test_ioapic_edge_mask
              \o test_ioapic_level_mask \o test_ioapic_level_retrigger_mask
              \o test_ioapic_edge_tmr(0) \o test_ioapic_level_tmr(0)
              \o test_ioapic_level_tmr(1) \o test_ioapic_edge_tmr(1)
<1>7. Fits(alone, 213, 0, 0)
  BY AloneFits
<1>8. Fits(alone \o rest, MainLen, 0, 0)
  <2> HIDE DEF alone, rest
  <2>1. Fits(alone \o rest, 213 + (MainLen - 213), 0, 0)
    BY <1>5, <1>6, <1>7, Join
  <2> QED BY <2>1, <1>6, Zenon
<1> QED BY <1>8, Zenon DEF test_ioapic, smp

\* The handlers: one item of one, and each of them.
LEMMA HandlerItem ==
  ASSUME NEW v \in Vectors, NEW a \in Nat, NEW it, HandlerPlace(v, a + 1, it)
  PROVE  Fits(<<it>>, 1, a, v)
<1>1. Place(v, a + 1, it)
  BY DEF Place, Vectors
<1> QED BY <1>1, FitsOne

\* What handlers begin and end with.
LEMMA HandlerParts ==
  ASSUME NEW v \in Vectors
  PROVE  /\ v # \h79 => Fits(Counting, 1, 0, v)
         /\ v \in Lowering => Fits(set_irq_line(Line, 0), 1, 1, v)
         /\ Fits(eoi, 1, Last(v) - 1, v)
<1>1. v # \h79 => HandlerPlace(v, 0 + 1, Do("count", 0))
  BY DEF HandlerPlace, Do, DataAccesses
<1>2. v \in Lowering => HandlerPlace(v, 1 + 1, Do("line", <<Line, 0>>))
  BY DEF HandlerPlace, Do, DataAccesses
<1>3. Last(v) - 1 \in Nat /\ Last(v) - 1 + 1 = Last(v)
  BY DEF Last
<1>4. HandlerPlace(v, Last(v) - 1 + 1, Do("eoi", 0))
  BY <1>3 DEF HandlerPlace, Do, DataAccesses
<1>5. 0 \in Nat /\ 1 \in Nat
  OBVIOUS
<1>6. v # \h79 => Fits(Counting, 1, 0, v)
  BY <1>1, <1>5, HandlerItem DEF Counting
<1>7. v \in Lowering => Fits(set_irq_line(Line, 0), 1, 1, v)
  BY <1>2, <1>5, HandlerItem DEF set_irq_line
<1>8. Fits(eoi, 1, Last(v) - 1, v)
  BY <1>3, <1>4, HandlerItem DEF eoi
<1> QED BY <1>6, <1>7, <1>8

\* The handlers that only count.
LEMMA CountingHandlers ==
  ASSUME NEW v \in {\h66, \h76, \h78}
  PROVE  Fits(Counting \o eoi, Last(v), 0, v)
<1>1. v \in Vectors /\ v # \h79 /\ Last(v) = 2 /\ Last(v) - 1 = 1
  BY DEF Vectors, Last
<1>2. Fits(Counting, 1, 0, v) /\ Fits(eoi, 1, 1, v)
  BY <1>1, HandlerParts
<1> QED BY <1>1, <1>2, Join

\* The handlers that count and lower the line.
LEMMA LoweringHandlers ==
  ASSUME NEW v \in Lowering \ {\h79}
  PROVE  Fits(Counting \o set_irq_line(Line, 0) \o eoi, Last(v), 0, v)
<1>1. v \in Vectors /\ v # \h79 /\ v \in Lowering /\ Last(v) = 3 /\ Last(v) - 1 = 2
  BY DEF Vectors, Last, Lowering
<1>2. Fits(Counting, 1, 0, v) /\ Fits(set_irq_line(Line, 0), 1, 1, v) /\ Fits(eoi, 1, 2, v)
  BY <1>1, HandlerParts
<1>3. Fits(Counting \o set_irq_line(Line, 0), 2, 0, v)
  BY <1>2, Join
<1> QED BY <1>1, <1>2, <1>3, Join

\* The handler that reads the trigger mode register.
LEMMA Handler79Fits == Fits(ioapic_isr_79, Last(\h79), 0, \h79)
<1> DEFINE u == <<Do("tmr", 0)>>
<1>1. /\ \h79 \in Vectors /\ \h79 \in Lowering /\ Last(\h79) = 3 /\ Last(\h79) - 1 = 2
      /\ \h79 \in Nat
  BY DEF Vectors, Last, Lowering
<1>2. Fits(set_irq_line(Line, 0), 1, 1, \h79) /\ Fits(eoi, 1, 2, \h79)
  BY <1>1, HandlerParts
<1>3. HandlerPlace(\h79, 0 + 1, Do("tmr", 0))
  BY DEF HandlerPlace, Do, DataAccesses
<1>4. Fits(u, 1, 0, \h79)
  BY <1>1, <1>3, HandlerItem
<1>5. Fits(u \o set_irq_line(Line, 0) \o eoi, 3, 0, \h79)
  <2> HIDE DEF u
  <2>1. Fits(u \o set_irq_line(Line, 0), 2, 0, \h79)
    BY <1>2, <1>4, Join
  <2> QED BY <1>2, <2>1, Join
<1> QED BY <1>1, <1>5, Zenon DEF ioapic_isr_79

\* Changing the line on a given run of the handler.
LEMMA OnRunFits ==
  ASSUME NEW v \in Vectors, NEW a \in Nat, NEW n, NEW val,
         \/ v = \h98 /\ a = 1 /\ n = 1 /\ val = 0
         \/ v = \h98 /\ a = 2 /\ n = 1 /\ val = 1
         \/ v = \h9a /\ a = 1 /\ n = 2 /\ val = 0
  PROVE  Fits(OnRun(n, val), 1, a, v)
<1>1. HandlerPlace(v, a + 1, Do("line_on_run", <<n, val>>))
  <2>1. /\ a + 1 = 2 \/ a + 1 = 3
        /\ \/ a + 1 = 2 /\ v = \h98 /\ <<n, val>> = <<1, 0>>
           \/ a + 1 = 3 /\ v = \h98 /\ <<n, val>> = <<1, 1>>
           \/ a + 1 = 2 /\ v = \h9a /\ <<n, val>> = <<2, 0>>
    OBVIOUS
  <2> QED BY <2>1 DEF HandlerPlace, Do, DataAccesses
<1> QED BY <1>1, HandlerItem DEF OnRun

\* The handler of the sequential test.
LEMMA Handler9aFits == Fits(ioapic_isr_9a, Last(\h9a), 0, \h9a)
<1>1. \h9a \in Vectors /\ \h9a # \h79 /\ Last(\h9a) = 3 /\ Last(\h9a) - 1 = 2
  BY DEF Vectors, Last
<1>2. Fits(Counting, 1, 0, \h9a) /\ Fits(eoi, 1, 2, \h9a)
  BY <1>1, HandlerParts
<1>3. Fits(OnRun(2, 0), 1, 1, \h9a)
  BY <1>1, OnRunFits
<1>4. Fits(Counting \o OnRun(2, 0), 2, 0, \h9a)
  BY <1>2, <1>3, Join
<1>5. Fits(Counting \o OnRun(2, 0) \o eoi, 3, 0, \h9a)
  BY <1>2, <1>4, Join
<1> QED BY <1>1, <1>5 DEF ioapic_isr_9a

\* The handler of the coalescing test.
LEMMA Handler98Fits == Fits(ioapic_isr_98, Last(\h98), 0, \h98)
<1>1. \h98 \in Vectors /\ \h98 # \h79 /\ Last(\h98) = 5 /\ Last(\h98) - 1 = 4
  BY DEF Vectors, Last
<1>2. Fits(Counting, 1, 0, \h98) /\ Fits(eoi, 1, 4, \h98)
  BY <1>1, HandlerParts
<1>3. Fits(OnRun(1, 0), 1, 1, \h98) /\ Fits(OnRun(1, 1), 1, 2, \h98)
  BY <1>1, OnRunFits
<1>4. HandlerPlace(\h98, 3 + 1, Do("line", <<Line, 0>>))
  BY DEF HandlerPlace, Do, DataAccesses
<1>5. Fits(set_irq_line(Line, 0), 1, 3, \h98)
  BY <1>1, <1>4, HandlerItem DEF set_irq_line
<1>6. Fits(Counting \o OnRun(1, 0), 2, 0, \h98)
  BY <1>2, <1>3, Join
<1>7. Fits(Counting \o OnRun(1, 0) \o OnRun(1, 1), 3, 0, \h98)
  BY <1>3, <1>6, Join
<1>8. Fits(Counting \o OnRun(1, 0) \o OnRun(1, 1) \o set_irq_line(Line, 0), 4, 0, \h98)
  BY <1>5, <1>7, Join
<1>9. Fits(Counting \o OnRun(1, 0) \o OnRun(1, 1) \o set_irq_line(Line, 0) \o eoi,
           5, 0, \h98)
  BY <1>2, <1>8, Join
<1> QED BY <1>1, <1>9 DEF ioapic_isr_98

\* The handler that masks its own line.
LEMMA HandlerAccess ==
  ASSUME NEW a \in Nat, NEW op, NEW r,
         \/ a = 1 /\ op = "load" /\ r = Low(Line)
         \/ a = 3 /\ op = "load" /\ r = High(Line)
         \/ a = 6 /\ op = "store" /\ r = Low(Line)
         \/ a = 8 /\ op = "store" /\ r = High(Line)
  PROVE  Fits(Access(op, r), 2, a, \h83)
<1>1. \h83 \in Vectors
  BY DEF Vectors
<1>2. /\ a \in {1, 3, 6, 8} /\ r = IF a \in {1, 6} THEN Low(Line) ELSE High(Line)
      /\ op = IF a \in {1, 3} THEN "load" ELSE "store"
  OBVIOUS
<1>3. HandlerPlace(\h83, a + 1, Do("select", r))
  BY <1>2 DEF HandlerPlace, Do, DataAccesses
<1>4. HandlerPlace(\h83, a + 2, Do(op, r))
  BY <1>2 DEF HandlerPlace, Do, DataAccesses
<1>5. a + 1 \in Nat /\ a + 1 + 1 = a + 2 /\ 1 + 1 = 2
  OBVIOUS
<1> DEFINE u == <<Do("select", r)>>
           w == <<Do(op, r)>>
<1>6. Fits(u, 1, a, \h83) /\ Fits(w, 1, a + 1, \h83)
  BY <1>1, <1>3, <1>4, <1>5, HandlerItem
<1>7. Fits(u \o w, 1 + 1, a, \h83)
  <2> HIDE DEF u, w
  <2> QED BY ONLY <1>6, Join, a \in Nat
<1>8. u \o w = Access(op, r)
  BY Pair DEF Access
<1> QED BY <1>5, <1>7, <1>8, Zenon

\* The handler that masks its own entry, and stores it, before the eoi.
LEMMA Handler83Fits == Fits(ioapic_isr_83, Last(\h83), 0, \h83)
<1>1. \h83 \in Vectors /\ \h83 # \h79 /\ Last(\h83) = 11 /\ Last(\h83) - 1 = 10
  BY DEF Vectors, Last
<1>2. Fits(Counting, 1, 0, \h83) /\ Fits(eoi, 1, 10, \h83)
  BY <1>1, HandlerParts
<1>3. Fits(ioapic_read_redir(Line), 4, 1, \h83)
  <2>1. Fits(Access("load", Low(Line)), 2, 1, \h83) /\ Fits(Access("load", High(Line)), 2, 3, \h83)
    BY HandlerAccess
  <2>2. Fits(Access("load", Low(Line)) \o Access("load", High(Line)), 4, 1, \h83)
    BY <2>1, Join
  <2> QED BY <2>2, Zenon DEF ioapic_read_redir
<1>4. Fits(ioapic_write_redir(Line), 4, 6, \h83)
  <2>1. /\ Fits(Access("store", Low(Line)), 2, 6, \h83)
        /\ Fits(Access("store", High(Line)), 2, 8, \h83)
    BY HandlerAccess
  <2>2. Fits(Access("store", Low(Line)) \o Access("store", High(Line)), 4, 6, \h83)
    BY <2>1, Join
  <2> QED BY <2>2, Zenon DEF ioapic_write_redir
<1> DEFINE it == Do("mask", TRUE)
           u  == <<it>>
<1>5. HandlerPlace(\h83, 5 + 1, it)
  BY DEF HandlerPlace, Do, DataAccesses
<1>6. Fits(u, 1, 5, \h83)
  <2>1. \h83 \in Vectors /\ 5 \in Nat
    BY <1>1
  <2> HIDE DEF it
  <2> QED BY ONLY <2>1, <1>5, HandlerItem
<1>7. Fits(ioapic_read_redir(Line) \o u \o ioapic_write_redir(Line), 9, 1, \h83)
  <2> HIDE DEF u
  <2>1. Fits(ioapic_read_redir(Line) \o u, 5, 1, \h83)
    BY <1>3, <1>6, Join
  <2> QED BY <2>1, <1>4, Join
<1>8. Fits(Masking, 9, 1, \h83)
  BY <1>7, Zenon DEF Masking, set_mask
<1>9. Fits(Counting \o Masking, 10, 0, \h83)
  BY <1>2, <1>8, Join
<1>10. Fits(Counting \o Masking \o eoi, 11, 0, \h83)
  BY <1>2, <1>9, Join
<1>11. ioapic_isr_83 = Counting \o Masking \o eoi
  BY Zenon DEF ioapic_isr_83, Masking
<1>12. Fits(ioapic_isr_83, 11, 0, \h83)
  BY ONLY <1>10, <1>11, Zenon
<1>13. Last(\h83) = 11
  BY <1>1
<1> QED BY ONLY <1>12, <1>13, Zenon


HandlerOf(v) ==
  CASE v = \h66 -> ioapic_isr_66 [] v = \h76 -> ioapic_isr_76
    [] v = \h77 -> ioapic_isr_77 [] v = \h78 -> ioapic_isr_78
    [] v = \h79 -> ioapic_isr_79 [] v = \h81 -> ioapic_isr_81
    [] v = \h82 -> ioapic_isr_82 [] v = \h83 -> ioapic_isr_83
    [] v = \h98 -> ioapic_isr_98 [] v = \h99 -> ioapic_isr_99
    [] v = \h9a -> ioapic_isr_9a

\* Every handler fits its table.
LEMMA HandlerFits ==
  ASSUME NEW v \in Vectors
  PROVE  Fits(Handler[v], Last(v), 0, v)
<1>1. v \in {\h66, \h76, \h77, \h78, \h79, \h81, \h82, \h83, \h98, \h99, \h9a}
  BY DEF Vectors
<1>2. CASE v = \h66
  <2>1. v \in Vectors /\ Fits(ioapic_isr_66, Last(v), 0, v)
    BY <1>2, CountingHandlers DEF Lowering, ioapic_isr_66
  <2>2. v # \h76 /\ v # \h77 /\ v # \h78 /\ v # \h79 /\ v # \h81 /\ v # \h82 /\ v # \h83 /\ v # \h98 /\ v # \h99 /\ v # \h9a
    BY <1>2
  <2>3. HandlerOf(v) = ioapic_isr_66
    BY <2>2, <1>2 DEF HandlerOf
  <2>4. Handler[v] = HandlerOf(v)
    BY DEF Handler, HandlerOf
  <2> QED BY <2>1, <2>3, <2>4, Zenon
<1>3. CASE v = \h76
  <2>1. v \in Vectors /\ Fits(ioapic_isr_76, Last(v), 0, v)
    BY <1>3, CountingHandlers DEF Lowering, ioapic_isr_76
  <2>2. v # \h66 /\ v # \h77 /\ v # \h78 /\ v # \h79 /\ v # \h81 /\ v # \h82 /\ v # \h83 /\ v # \h98 /\ v # \h99 /\ v # \h9a
    BY <1>3
  <2>3. HandlerOf(v) = ioapic_isr_76
    BY <2>2, <1>3 DEF HandlerOf
  <2>4. Handler[v] = HandlerOf(v)
    BY DEF Handler, HandlerOf
  <2> QED BY <2>1, <2>3, <2>4, Zenon
<1>4. CASE v = \h77
  <2>1. v \in Vectors /\ Fits(ioapic_isr_77, Last(v), 0, v)
    BY <1>4, LoweringHandlers DEF Lowering, ioapic_isr_77
  <2>2. v # \h66 /\ v # \h76 /\ v # \h78 /\ v # \h79 /\ v # \h81 /\ v # \h82 /\ v # \h83 /\ v # \h98 /\ v # \h99 /\ v # \h9a
    BY <1>4
  <2>3. HandlerOf(v) = ioapic_isr_77
    BY <2>2, <1>4 DEF HandlerOf
  <2>4. Handler[v] = HandlerOf(v)
    BY DEF Handler, HandlerOf
  <2> QED BY <2>1, <2>3, <2>4, Zenon
<1>5. CASE v = \h78
  <2>1. v \in Vectors /\ Fits(ioapic_isr_78, Last(v), 0, v)
    BY <1>5, CountingHandlers DEF Lowering, ioapic_isr_78
  <2>2. v # \h66 /\ v # \h76 /\ v # \h77 /\ v # \h79 /\ v # \h81 /\ v # \h82 /\ v # \h83 /\ v # \h98 /\ v # \h99 /\ v # \h9a
    BY <1>5
  <2>3. HandlerOf(v) = ioapic_isr_78
    BY <2>2, <1>5 DEF HandlerOf
  <2>4. Handler[v] = HandlerOf(v)
    BY DEF Handler, HandlerOf
  <2> QED BY <2>1, <2>3, <2>4, Zenon
<1>6. CASE v = \h79
  <2>1. v \in Vectors /\ Fits(ioapic_isr_79, Last(v), 0, v)
    BY <1>6, Handler79Fits DEF Lowering, ioapic_isr_79
  <2>2. v # \h66 /\ v # \h76 /\ v # \h77 /\ v # \h78 /\ v # \h81 /\ v # \h82 /\ v # \h83 /\ v # \h98 /\ v # \h99 /\ v # \h9a
    BY <1>6
  <2>3. HandlerOf(v) = ioapic_isr_79
    BY <2>2, <1>6 DEF HandlerOf
  <2>4. Handler[v] = HandlerOf(v)
    BY DEF Handler, HandlerOf
  <2> QED BY <2>1, <2>3, <2>4, Zenon
<1>7. CASE v = \h81
  <2>1. v \in Vectors /\ Fits(ioapic_isr_81, Last(v), 0, v)
    BY <1>7, LoweringHandlers DEF Lowering, ioapic_isr_81
  <2>2. v # \h66 /\ v # \h76 /\ v # \h77 /\ v # \h78 /\ v # \h79 /\ v # \h82 /\ v # \h83 /\ v # \h98 /\ v # \h99 /\ v # \h9a
    BY <1>7
  <2>3. HandlerOf(v) = ioapic_isr_81
    BY <2>2, <1>7 DEF HandlerOf
  <2>4. Handler[v] = HandlerOf(v)
    BY DEF Handler, HandlerOf
  <2> QED BY <2>1, <2>3, <2>4, Zenon
<1>8. CASE v = \h82
  <2>1. v \in Vectors /\ Fits(ioapic_isr_82, Last(v), 0, v)
    BY <1>8, LoweringHandlers DEF Lowering, ioapic_isr_82
  <2>2. v # \h66 /\ v # \h76 /\ v # \h77 /\ v # \h78 /\ v # \h79 /\ v # \h81 /\ v # \h83 /\ v # \h98 /\ v # \h99 /\ v # \h9a
    BY <1>8
  <2>3. HandlerOf(v) = ioapic_isr_82
    BY <2>2, <1>8 DEF HandlerOf
  <2>4. Handler[v] = HandlerOf(v)
    BY DEF Handler, HandlerOf
  <2> QED BY <2>1, <2>3, <2>4, Zenon
<1>9. CASE v = \h83
  <2>1. v \in Vectors /\ Fits(ioapic_isr_83, Last(v), 0, v)
    BY <1>9, Handler83Fits DEF Lowering, ioapic_isr_83
  <2>2. v # \h66 /\ v # \h76 /\ v # \h77 /\ v # \h78 /\ v # \h79 /\ v # \h81 /\ v # \h82 /\ v # \h98 /\ v # \h99 /\ v # \h9a
    BY <1>9
  <2>3. HandlerOf(v) = ioapic_isr_83
    BY <2>2, <1>9 DEF HandlerOf
  <2>4. Handler[v] = HandlerOf(v)
    BY DEF Handler, HandlerOf
  <2> QED BY <2>1, <2>3, <2>4, Zenon
<1>10. CASE v = \h98
  <2>1. v \in Vectors /\ Fits(ioapic_isr_98, Last(v), 0, v)
    BY <1>10, Handler98Fits DEF Lowering, ioapic_isr_98
  <2>2. v # \h66 /\ v # \h76 /\ v # \h77 /\ v # \h78 /\ v # \h79 /\ v # \h81 /\ v # \h82 /\ v # \h83 /\ v # \h99 /\ v # \h9a
    BY <1>10
  <2>3. HandlerOf(v) = ioapic_isr_98
    BY <2>2, <1>10 DEF HandlerOf
  <2>4. Handler[v] = HandlerOf(v)
    BY DEF Handler, HandlerOf
  <2> QED BY <2>1, <2>3, <2>4, Zenon
<1>11. CASE v = \h99
  <2>1. v \in Vectors /\ Fits(ioapic_isr_99, Last(v), 0, v)
    BY <1>11, LoweringHandlers DEF Lowering, ioapic_isr_99
  <2>2. v # \h66 /\ v # \h76 /\ v # \h77 /\ v # \h78 /\ v # \h79 /\ v # \h81 /\ v # \h82 /\ v # \h83 /\ v # \h98 /\ v # \h9a
    BY <1>11
  <2>3. HandlerOf(v) = ioapic_isr_99
    BY <2>2, <1>11 DEF HandlerOf
  <2>4. Handler[v] = HandlerOf(v)
    BY DEF Handler, HandlerOf
  <2> QED BY <2>1, <2>3, <2>4, Zenon
<1>12. CASE v = \h9a
  <2>1. v \in Vectors /\ Fits(ioapic_isr_9a, Last(v), 0, v)
    BY <1>12, Handler9aFits DEF Lowering, ioapic_isr_9a
  <2>2. v # \h66 /\ v # \h76 /\ v # \h77 /\ v # \h78 /\ v # \h79 /\ v # \h81 /\ v # \h82 /\ v # \h83 /\ v # \h98 /\ v # \h99
    BY <1>12
  <2>3. HandlerOf(v) = ioapic_isr_9a
    BY <2>2, <1>12 DEF HandlerOf
  <2>4. Handler[v] = HandlerOf(v)
    BY DEF Handler, HandlerOf
  <2> QED BY <2>1, <2>3, <2>4, Zenon
<1> QED BY <1>1, <1>2, <1>3, <1>4, <1>5, <1>6, <1>7, <1>8, <1>9, <1>10, <1>11, <1>12

\* What vCPU 1 runs.
LEMMA JobFits ==
  /\ DOMAIN Jobs = {"toggle", "set"}
  /\ Fits(Jobs["toggle"], 2, 0, 2)
  /\ Fits(Jobs["set"], 1, 0, 1)
<1>1. /\ DOMAIN Jobs = {"toggle", "set"}
      /\ Jobs["toggle"] = toggle_irq_line_0x0e /\ Jobs["set"] = set_irq_line_0x0e
  BY DEF Jobs
<1>2. /\ Place(2, 0 + 1, Do("line", <<Line, 1>>)) /\ Place(2, 1 + 1, Do("line", <<Line, 0>>))
      /\ Place(1, 0 + 1, Do("line", <<Line, 1>>))
  BY DEF Place, JobPlace, Do
<1>3. /\ Fits(set_irq_line(Line, 1), 1, 0, 2) /\ Fits(set_irq_line(Line, 0), 1, 1, 2)
      /\ Fits(set_irq_line(Line, 1), 1, 0, 1)
  BY <1>2, FitsOne DEF set_irq_line
<1>4. Fits(set_irq_line(Line, 1) \o set_irq_line(Line, 0), 2, 0, 2)
  BY <1>3, Join
<1>5. Fits(toggle_irq_line_0x0e, 2, 0, 2) /\ Fits(set_irq_line_0x0e, 1, 0, 1)
  BY <1>3, <1>4, Zenon DEF toggle_irq_line_0x0e, toggle_irq_line, set_irq_line_0x0e
<1> QED BY <1>1, <1>5, Zenon

-----------------------------------------------------------------------------
(***************************************************************************)
(* The inductive invariant.                                                *)
(***************************************************************************)
\* Where the three contexts are.
P == pc["main"]
K == pc["isr"]
H == pc["helper"]

First == ioctls <= 1

\* Where a request of the line may be pending or served, where the line may be
\* high, and where it is low once the handler is done.
Raised    == {33, 42, 69, 77, 78} \union 87 .. 92
               \union {121, 146, 156, 163, 184, 194, 203, 212, 223, 234, 245, 256}
MayBeHigh == {33, 42, 59, 69, 77, 78} \union 87 .. 92 \union {109, 121} \union 138 .. 146
               \union 156 .. 166 \union {184, 194, 203, 212, 223, 234, 245, 256}
MustLower == {42, 69, 77, 78} \union 87 .. 92 \union {121, 146, 194, 203, 223, 234, 245, 256}
Masked    == 106 .. 117 \union 135 .. 145

Requests(p) ==
  IF p \in {57, 58} THEN {\h66} ELSE IF p \in 59 .. 61 THEN {\h66, \h78}
  ELSE IF p \in Raised THEN {VectorAt(p)} ELSE {}

\* The local APIC and remote_irr when main is at p and the handler of v at k.
Irq(p, k, v, iq, isr, rm, tm) ==
  /\ iq \subseteq Requests(p) /\ v \in Requests(p) \union {0}
  /\ v # 0 => k \in 1 .. Last(v) + 1
  /\ isr = IF v # 0 /\ k <= Last(v) THEN {v} ELSE {}
  /\ v # 0 => iq \subseteq IF v = \h78 THEN {\h66}
                           ELSE IF v = \h9a /\ k = 4 THEN {\h9a} ELSE {}
  /\ rm = IF IsLevel(p) /\ (iq # {} \/ isr # {}) THEN {Line} ELSE {}
  /\ \A x \in iq \union isr : x \in tm <=> IsLevel(p)

\* The handler of v has lowered the line, for good.
Lowered(v, k, iq) ==
  \/ v \in Lowering /\ k >= 3
  \/ v = \h98 /\ k >= 5
  \/ v = \h9a /\ k = 4 /\ iq = {}

LineIs(p, k, v, iq, h) ==
  /\ h \subseteq IF p = 57 THEN {\h0f} ELSE IF p \in MayBeHigh THEN {Line} ELSE {}
  /\ p \in MustLower /\ iq = {} /\ v = 0 => h = {}
  /\ v # 0 /\ Lowered(v, k, iq) => h = {}

\* The entries.  From 156 to 173 main unmasks an entry that a handler masks.
RedirIs(p, k, v, iq, h, rd) ==
  /\ p >= 30 => /\ rd[Line].vector = VectorAt(p) /\ rd[Line].trig_mode = TrigAt(p)
                /\ p \in Masked => rd[Line].mask = TRUE
                /\ p \notin Masked /\ p \notin 156 .. 173 => rd[Line].mask = FALSE
                /\ p \in 156 .. 173 /\ iq = {} /\ (v = 0 => h # {}) /\ (v # 0 => k > 8)
                     => rd[Line].mask = TRUE
  /\ p >= 53 => rd[\h0f] = EntryOf(\h66, EDGE, FALSE)

\* What main is about to store, and what it has loaded.
NewAt == {28, 29, 37, 38, 46, 47, 64, 65, 72, 73, 81, 82, 95, 96, 124, 125, 151, 152,
          178, 179, 188, 189, 197, 198, 206, 207, 217, 218, 228, 229, 239, 240, 250, 251}
LoadedAt == 101 .. 103 \union 113 .. 115 \union 130 .. 132 \union 141 .. 143
              \union 158 .. 160 \union 169 .. 171
MaskAt   == {104, 105, 133, 134}
UnmaskAt == {116, 117, 144, 145, 161, 162, 172, 173}
EntryIs(p, e) ==
  /\ p \in NewAt => e = EntryOf(VectorAt(p + 2), TrigAt(p + 2), FALSE)
  /\ p \in {51, 52} => e = EntryOf(\h66, EDGE, FALSE)
  /\ p \in LoadedAt \union MaskAt \union UnmaskAt =>
       e.vector = VectorAt(p) /\ e.trig_mode = TrigAt(p)
  /\ p \in MaskAt => e.mask = TRUE
  /\ p \in UnmaskAt => e.mask = FALSE

\* The handler that masks its own line.
Isr83(v, k, e, ix) ==
  v = \h83 =>
    /\ k \in 4 .. 8 => e.vector = \h83 /\ e.trig_mode = LEVEL
    /\ k \in {7, 8} => e.mask = TRUE
    /\ k \in {3, 8} => ix = Low(Line)
    /\ k \in {5, 10} => ix = High(Line)

\* The register tests.
WordOf(n) == [id |-> n, other |-> FALSE]
WordIs(p, old, new, id, arb) ==
  /\ p \in 4 .. 8 => old = WordOf(0)
  /\ p = 8 => new = WordOf(0)
  /\ p \in 11 .. 12 => old = WordOf(id)
  /\ p \in 13 .. 14 => old = WordOf(15 - id)
  /\ p = 15 => old = WordOf(15 - new.id) /\ new.other = FALSE
  /\ p \in 18 .. 24 => arb = 15
  /\ p \in {20, 25} => new = WordOf(15)

DeviceInv ==
  /\ Irq(P, K, vec, dev.irr, dev.isr, dev.remote_irr, dev.tmr)
  /\ LineIs(P, K, vec, dev.irr, dev.high)
  /\ RedirIs(P, K, vec, dev.irr, dev.high, dev.redir)
  /\ Isr83(vec, K, entry["isr"], dev.index)

LocalInv ==
  /\ EntryIs(P, entry["main"])
  /\ WordIs(P, word["old"], word["new"], dev.id, dev.arb)

\* The way of the contexts through their scripts.
Off == {1} \union 56 .. 60 \union {86, 87, 88, 90, 91}

InstalledAt(v) ==
  IF v = \h76 THEN 26 ELSE IF v = \h77 THEN 35 ELSE IF v = \h78 THEN 43 ELSE IF v = \h66 THEN 44
  ELSE IF v = \h98 THEN 62 ELSE IF v = \h99 THEN 70 ELSE IF v = \h9a THEN 79
  ELSE IF v = \h81 THEN 93 ELSE IF v = \h82 THEN 122 ELSE IF v = \h83 THEN 149 ELSE 176

Flow ==
  /\ P \in 1 .. MainLen + 1
  /\ running => (iflag <=> P \notin Off)
  /\ ~running => iflag /\ P \in {1, MainLen + 1}
  /\ running => ioctls > 0
  /\ ioctls = 0 => P = 1
  /\ halted => running /\ P = 89
  /\ vec # 0 => iflag
  /\ P \in 88 .. 90 => tries <= 9
Installed == \A v \in Vectors : P > InstalledAt(v) => v \in idt

\* Main finds the register it selected.
Index == running /\ P \in DataAt => dev.index = RegAt(P)

\* vCPU 1: it was called, and has not touched the line.
Called == ipi # None \/ (job # None /\ H = 1)
Helper ==
  /\ job = None \/ H \in 1 .. (IF job = "toggle" THEN 3 ELSE 2)
  /\ ipi # None => job = None \/ H > 1
  /\ Called => P \in Awaits /\ dev.irr = {} /\ vec = 0 /\ g_tmr_79 = -1 /\ running
  /\ P \in 215 .. 222 \union 226 .. 233 \union 237 .. 244 \union 248 .. 255 => g_tmr_79 = -1
  /\ First /\ P <= 222 => job = None /\ ipi = None

\* How often the handler of v has run when main is at p and it is done.
RunsAt(v, p) ==
  IF v = \h76 THEN IF p >= 33 THEN 1 ELSE 0
  ELSE IF v = \h77 THEN IF p >= 42 THEN 1 ELSE 0
  ELSE IF v = \h66 THEN IF p >= 57 THEN 1 ELSE 0
  ELSE IF v = \h78 THEN IF p >= 59 THEN 1 ELSE 0
  ELSE IF v = \h98 THEN IF p >= 69 THEN 1 ELSE 0
  ELSE IF v = \h99 THEN IF p >= 78 THEN 2 ELSE IF p >= 77 THEN 1 ELSE 0
  ELSE IF v = \h81 THEN IF p >= 121 THEN 1 ELSE 0
  ELSE IF v = \h82 THEN IF p >= 146 THEN 1 ELSE 0
  ELSE IF p >= 163 THEN 2 ELSE IF p >= 156 THEN 1 ELSE 0

\* A run of the handler of x is still to be counted.
Ahead(v, k, x, iq) == x \in iq \/ (v = x /\ k = 1)
Counts(p, k, v, iq, gs) ==
  \A x \in Vectors \ {\h9a, \h79} :
    gs[x] = IF Ahead(v, k, x, iq) THEN RunsAt(x, p) - 1 ELSE RunsAt(x, p)
Retrigger(p, k, v, iq, h, n) ==
  /\ p <= 86 => n = 0
  /\ p >= 93 => n = 2
  /\ p \in 87 .. 92 =>
       /\ n \in 0 .. 2
       /\ n < 2 => h = {Line}
       /\ v = 0 /\ iq # {} => n < 2
       /\ v = 0 /\ iq = {} => n = 2
       /\ v # 0 /\ k = 1 => n < 2
       /\ v # 0 /\ k \in 2 .. 4 => n >= 1
       /\ v # 0 /\ k = 3 /\ n = 2 => h = {}
       /\ v # 0 /\ k = 4 => (n = 2 <=> iq = {})
Simultaneous(p, k, v, iq, rip, after) ==
  /\ p \in 57 .. 60 => \h66 \in iq
  /\ p \in 59 .. 60 => \h78 \in iq
  /\ p >= 61 /\ ~Ahead(v, k, \h78, iq) => rip[\h78] = 61
  /\ p >= 61 /\ ~Ahead(v, k, \h66, iq) => rip[\h66] = 61 /\ after > 0
Exact(p, h) == p \in 138 .. 145 \union 156 .. 166 => h = {Line}
Tmr(p, k, v, iq, tm, before, got) ==
  LET done == iq = {} /\ ~(v # 0 /\ k = 1) IN
  /\ p \in 1 .. 193 \union 212 .. 233 \union 257 .. 258 => \h79 \notin tm
  /\ p \in 194 .. 211 \union 235 .. 255 => \h79 \in tm
  /\ p = 234 /\ got # -1 => \h79 \in tm
  /\ p = 256 /\ got # -1 => \h79 \notin tm
  /\ p \in 183 .. 185 \union 193 .. 194 \union 222 .. 224 \union 233 .. 235 => before = 0
  /\ p \in 202 .. 203 \union 211 .. 213 \union 244 .. 246 \union 255 .. 257 => before = 1
  /\ p \in {184, 185, 212, 213, 224, 257} /\ done => got = 0
  /\ p \in {194, 203, 235, 246} /\ done => got = 1
  /\ p \in {223, 256} => got \in {-1, 0}
  /\ p \in {234, 245} => got \in {-1, 1}

\* What holds in the first ioctl only: later ones add to the same counters.
CountInv ==
  /\ Counts(P, K, vec, dev.irr, g)
  /\ Retrigger(P, K, vec, dev.irr, dev.high, g[\h9a])
  /\ Simultaneous(P, K, vec, dev.irr, g_rip, g_66_after_78)
  /\ Exact(P, dev.high)
TmrInv == Tmr(P, K, vec, dev.irr, dev.tmr, tmr_before, g_tmr_79)
FirstInv == First => CountInv /\ TmrInv /\ failed = {}

\* IoapicTypeOK, with the length of main's script for a number.
Types ==
  /\ dev \in Devices /\ idt \subseteq Vectors
  /\ running \in BOOLEAN /\ ioctls \in 0 .. Ioctls
  /\ iflag \in BOOLEAN /\ halted \in BOOLEAN
  /\ pc \in [Contexts -> 1 .. MainLen + 1]
  /\ vec \in Vectors \union {0}
  /\ job \in {"toggle", "set", None} /\ ipi \in {"toggle", "set", None}
  /\ entry \in [Contexts -> Entries] /\ word \in [{"old", "new"} -> Words]
  /\ tries \in 0 .. 10 /\ tmr_before \in {0, 1}
  /\ g \in [Vectors -> Nat] /\ g_rip \in [Vectors -> Nat]
  /\ g_66_after_78 \in Nat /\ g_tmr_79 \in {-1, 0, 1}

IoapicInv ==
  Types /\ Flow /\ Installed /\ Index /\ Helper /\ DeviceInv /\ LocalInv /\ FirstInv

-----------------------------------------------------------------------------
(***************************************************************************)
(* What a context that comes to an access knows.                           *)
(***************************************************************************)
LEMMA MainLength ==
  /\ Len(test_ioapic) = MainLen /\ MainLen \in {213, 257}
  /\ \A p \in 1 .. MainLen : MainPlace(p, test_ioapic[p])
<1>1. MainLen \in {213, 257}
  BY DEF MainLen
<1>2. \A p \in 1 .. MainLen : Place(0, 0 + p, test_ioapic[p])
  BY MainFits DEF Fits
<1>3. Len(test_ioapic) = MainLen
  BY MainFits DEF Fits, IsSeq
<1>4. \A p \in 1 .. MainLen : 0 + p = p
  BY <1>1
<1>5. \A p \in 1 .. MainLen : Place(0, p, test_ioapic[p])
  BY <1>2, <1>4
<1> QED BY <1>1, <1>3, <1>5 DEF Place

\* The places of main.
LEMMA MainBound == P \in 1 .. MainLen => P \in 1 .. 257
<1>1. MainLen \in {213, 257}
  BY ONLY MainLength
<1> QED BY ONLY <1>1

\* A handler's length, and the access at each of its places.
LEMMA HandlerLength ==
  ASSUME NEW v \in Vectors
  PROVE  /\ Len(Handler[v]) = Last(v) /\ Last(v) \in 2 .. 11
         /\ \A k \in 1 .. Last(v) : HandlerPlace(v, k, Handler[v][k])
<1>1. Last(v) \in 2 .. 11
  BY DEF Last
<1>2. \A k \in 1 .. Last(v) : Place(v, 0 + k, Handler[v][k])
  BY HandlerFits DEF Fits
<1>3. Len(Handler[v]) = Last(v)
  BY HandlerFits DEF Fits, IsSeq
<1>4. \A k \in 1 .. Last(v) : 0 + k = k
  BY <1>1
<1>5. v \notin {0, 1, 2}
  BY DEF Vectors
<1>6. \A k \in 1 .. Last(v) : Place(v, k, Handler[v][k])
  BY <1>2, <1>4
<1> QED BY <1>1, <1>3, <1>5, <1>6 DEF Place

\* The scripts that vCPU 1 runs.
LEMMA JobLength ==
  /\ Len(Jobs["toggle"]) = 2 /\ Len(Jobs["set"]) = 1
  /\ \A n \in 1 .. 2 : JobPlace(2, n, Jobs["toggle"][n])
  /\ JobPlace(1, 1, Jobs["set"][1])
<1>1. /\ \A n \in 1 .. 2 : Place(2, 0 + n, Jobs["toggle"][n])
      /\ \A n \in 1 .. 1 : Place(1, 0 + n, Jobs["set"][n])
  BY JobFits DEF Fits
<1>2. \A n \in 1 .. 2 : 0 + n = n
  OBVIOUS
<1>3. 1 \in 1 .. 1 /\ 1 \in 1 .. 2
  OBVIOUS
<1>4. \A n \in 1 .. 2 : Place(2, n, Jobs["toggle"][n])
  BY <1>1, <1>2
<1>5. Place(1, 1, Jobs["set"][1])
  BY <1>1, <1>2, <1>3
<1>6. Len(Jobs["toggle"]) = 2 /\ Len(Jobs["set"]) = 1
  BY JobFits DEF Fits, IsSeq
<1> QED BY <1>4, <1>5, <1>6 DEF Place

\* The scripts and the activity of the contexts, without the CASE.
LEMMA Scripts ==
  /\ Script("main") = test_ioapic /\ Script("isr") = Handler[vec]
  /\ Script("helper") = Jobs[job]
<1>1. "main" # "isr" /\ "main" # "helper" /\ "isr" # "helper"
  OBVIOUS
<1> QED BY <1>1 DEF Script

\* When main, the handler and vCPU 1 have something to do.
LEMMA Activity ==
  /\ Active("main") <=> MayRun
  /\ Active("isr") <=> vec # 0
  /\ Active("helper") <=> job # None
<1>1. "main" # "isr" /\ "main" # "helper" /\ "isr" # "helper"
  OBVIOUS
<1> QED BY <1>1, Zenon DEF Active

\* An access of main is one the table allows at its place.
LEMMA MainAt ==
  ASSUME Flow, NEW op, At("main", op)
  PROVE  /\ MayRun /\ P \in 1 .. MainLen
         /\ MainPlace(P, Do(op, Arg("main")))
<1> DEFINE it == test_ioapic[P]
<1>1. MayRun /\ P <= Len(test_ioapic) /\ it.op = op /\ Arg("main") = it.arg
  BY Activity, Scripts DEF At, Arg, P
<1>2. P \in 1 .. MainLen
  BY <1>1, MainLength DEF Flow
<1>3. MainPlace(P, it)
  BY <1>2, MainLength
<1>4. MainPlace(P, Do(it.op, it.arg))
  <2> HIDE DEF it
  <2>1. Do(it.op, it.arg).op = it.op /\ Do(it.op, it.arg).arg = it.arg
    BY DEF Do
  <2> QED BY <1>3, <2>1 DEF MainPlace
<1> QED BY <1>1, <1>2, <1>4, Zenon

\* An access of the running handler is one its table allows.
LEMMA IsrAt ==
  ASSUME Types, DeviceInv, NEW op, At("isr", op)
  PROVE  /\ vec \in Vectors /\ vec # 0 /\ K \in 1 .. Last(vec)
         /\ HandlerPlace(vec, K, Do(op, Arg("isr")))
<1> DEFINE it == Handler[vec][K]
<1>1. vec # 0 /\ K <= Len(Handler[vec]) /\ it.op = op /\ Arg("isr") = it.arg
  BY Activity, Scripts DEF At, Arg, K
<1>2. vec \in Vectors
  BY <1>1 DEF Types
<1>3. K \in 1 .. Last(vec)
  <2>1. K \in 1 .. Last(vec) + 1
    BY <1>1 DEF DeviceInv, Irq
  <2> QED BY <1>1, <1>2, <2>1, HandlerLength
<1>4. HandlerPlace(vec, K, it)
  BY <1>2, <1>3, HandlerLength
<1>5. HandlerPlace(vec, K, Do(it.op, it.arg))
  <2> HIDE DEF it
  <2>1. Do(it.op, it.arg).op = it.op /\ Do(it.op, it.arg).arg = it.arg
    BY DEF Do
  <2> QED BY <1>4, <2>1 DEF HandlerPlace
<1> QED BY <1>1, <1>2, <1>3, <1>5, Zenon

\* An access of vCPU 1 raises the line, or lowers it in the second half of a
\* toggle.
LEMMA HelperAt ==
  ASSUME Types, Helper, NEW op, At("helper", op)
  PROVE  /\ op = "line" /\ job \in {"toggle", "set"}
         /\ \/ H = 1 /\ Arg("helper") = <<Line, 1>>
            \/ H = 2 /\ Arg("helper") = <<Line, 0>> /\ job = "toggle"
<1> DEFINE it == Jobs[job][H]
<1>1. job # None /\ H <= Len(Jobs[job]) /\ it.op = op /\ Arg("helper") = it.arg
  BY Activity, Scripts DEF At, Arg, H
<1>2. job = "toggle" \/ job = "set"
  BY <1>1 DEF Types
<1>3. CASE job = "toggle"
  <2>1. Len(Jobs[job]) = 2 /\ H \in 1 .. 3
    BY <1>3, <1>1, JobLength DEF Helper
  <2>2. H \in 1 .. 2
    BY <1>1, <2>1
  <2>3. JobPlace(2, H, it)
    BY <1>3, <2>2, JobLength
  <2>4. op = "line" /\ (\/ H = 1 /\ Arg("helper") = <<Line, 1>>
                        \/ H = 2 /\ Arg("helper") = <<Line, 0>>)
    <3> HIDE DEF it
    <3> QED BY <1>1, <2>3 DEF JobPlace
  <2> QED BY <1>2, <1>3, <2>4
<1>4. CASE job = "set"
  <2>1. Len(Jobs[job]) = 1 /\ H \in 1 .. 2
    BY <1>4, <1>1, JobLength DEF Helper
  <2>2. H = 1
    BY <1>1, <2>1
  <2>3. JobPlace(1, H, it)
    BY <1>4, <2>2, JobLength
  <2>4. it.op = "line" /\ it.arg = <<Line, 1>>
    <3> HIDE DEF it
    <3> QED BY ONLY <2>2, <2>3 DEF JobPlace
  <2>5. op = "line" /\ Arg("helper") = <<Line, 1>>
    <3> HIDE DEF it
    <3> QED BY <1>1, <2>4, Zenon
  <2> QED BY <1>2, <2>2, <2>5
<1> QED BY <1>2, <1>3, <1>4

-----------------------------------------------------------------------------
(***************************************************************************)
(* The devices, field by field.                                            *)
(***************************************************************************)
\* All but the lines, the requests, the trigger modes and remote_irr.
SameCore(d, e) == /\ e.index = d.index /\ e.id = d.id /\ e.arb = d.arb
                  /\ e.redir = d.redir /\ e.isr = d.isr

\* The two lines are distinct.
LEMMA LineNumbers == Lines = {Line, \h0f} /\ Line # \h0f
BY DEF Lines, Line

\* The two trigger modes are distinct.
LEMMA Modes == EDGE # LEVEL
BY DEF EDGE, LEVEL

\* A line is lowered.
LEMMA LineDownEffect ==
  ASSUME NEW d \in Devices, NEW l \in Lines
  PROVE  LET e == SetLine(d, l, 0) IN
         /\ e \in Devices /\ SameCore(d, e)
         /\ e.high = d.high \ {l} /\ e.remote_irr = d.remote_irr
         /\ e.irr = d.irr /\ e.tmr = d.tmr
<1> DEFINE moved == [d EXCEPT !.high = @ \ {l}]
<1>1. moved \in Devices /\ moved.high = d.high \ {l} /\ moved.redir = d.redir
  BY DEF Devices
<1>2. ~Asks(moved, l)
  BY <1>1 DEF Asks
<1>3. SetLine(d, l, 0) = moved
  BY <1>2 DEF SetLine, Service
<1>4. SameCore(d, moved) /\ moved.remote_irr = d.remote_irr /\ moved.irr = d.irr
        /\ moved.tmr = d.tmr
  BY DEF SameCore, Devices
<1> HIDE DEF moved
<1> QED BY <1>1, <1>3, <1>4

\* A line with an edge-triggered entry is raised.
LEMMA EdgeUpEffect ==
  ASSUME NEW d \in Devices, NEW l \in Lines, d.redir[l].trig_mode = EDGE,
         l \notin d.high, d.redir[l].vector \in Vectors
  PROVE  LET e == SetLine(d, l, 1) IN
         /\ e \in Devices /\ SameCore(d, e)
         /\ e.high = d.high \union {l} /\ e.remote_irr = d.remote_irr
         /\ d.redir[l].mask = TRUE => e.irr = d.irr /\ e.tmr = d.tmr
         /\ d.redir[l].mask = FALSE => /\ e.irr = d.irr \union {d.redir[l].vector}
                                       /\ e.tmr = d.tmr \ {d.redir[l].vector}
<1> DEFINE moved == [d EXCEPT !.high = @ \union {l}]
           e == SetLine(d, l, 1)
           v == d.redir[l].vector
<1>1. /\ moved \in Devices /\ moved.high = d.high \union {l} /\ moved.redir = d.redir
      /\ SameCore(d, moved) /\ moved.remote_irr = d.remote_irr /\ moved.irr = d.irr
      /\ moved.tmr = d.tmr
  BY DEF Devices, SameCore
<1>2. d.redir[l].mask \in BOOLEAN
  BY DEF Devices, Entries
<1>3. CASE d.redir[l].mask = TRUE
  <2>1. ~Asks(moved, l)
    BY <1>1, Modes DEF Asks
  <2>2. e = moved
    BY <1>3, <2>1 DEF SetLine, Service
  <2> QED BY <1>1, <1>3, <2>2
<1>4. CASE d.redir[l].mask = FALSE
  <2>1. e = Accept(moved, l)
    BY <1>4 DEF SetLine
  <2> DEFINE a == [moved EXCEPT !.irr = @ \union {v}, !.tmr = @ \ {v}]
  <2>2. Accept(moved, l) = a
    BY <1>1, Modes DEF Accept
  <2>3. v \in Vectors
    OBVIOUS
  <2> HIDE DEF moved, v
  <2>4. /\ a \in Devices /\ SameCore(moved, a) /\ a.high = moved.high
        /\ a.remote_irr = moved.remote_irr
        /\ a.irr = moved.irr \union {v} /\ a.tmr = moved.tmr \ {v}
    BY <1>1, <2>3 DEF Devices, SameCore
  <2> HIDE DEF a, e
  <2>5. /\ e \in Devices /\ SameCore(d, e) /\ e.high = d.high \union {l}
        /\ e.remote_irr = d.remote_irr
        /\ e.irr = d.irr \union {v} /\ e.tmr = d.tmr \ {v}
    BY <1>1, <2>1, <2>2, <2>4 DEF SameCore
  <2> QED BY <1>4, <2>5 DEF e, v
<1> QED BY <1>2, <1>3, <1>4

\* The IOAPIC looks at a level-triggered line.
LEMMA ServiceEffect ==
  ASSUME NEW d \in Devices, NEW l \in Lines, d.redir[l].trig_mode = LEVEL,
         d.redir[l].vector \in Vectors
  PROVE  LET e == Service(d, l)
             v == d.redir[l].vector
         IN
         /\ e \in Devices /\ SameCore(d, e) /\ e.high = d.high
         /\ d.redir[l].mask = TRUE \/ l \notin d.high \/ l \in d.remote_irr => e = d
         /\ d.redir[l].mask = FALSE /\ l \in d.high /\ l \notin d.remote_irr =>
              /\ e.irr = d.irr \union {v} /\ e.tmr = d.tmr \union {v}
              /\ e.remote_irr = d.remote_irr \union {l}
<1> DEFINE e == Service(d, l)
           v == d.redir[l].vector
           a == [d EXCEPT !.irr = @ \union {v}, !.tmr = @ \union {v},
                          !.remote_irr = @ \union {l}]
<1>1. d.redir[l].mask \in BOOLEAN
  BY DEF Devices, Entries
<1>2. CASE d.redir[l].mask = TRUE \/ l \notin d.high \/ l \in d.remote_irr
  <2>1. e = d
    BY <1>2 DEF Service, Asks
  <2>2. ~(d.redir[l].mask = FALSE /\ l \in d.high /\ l \notin d.remote_irr)
    BY <1>2
  <2> QED BY <2>1, <2>2 DEF SameCore
<1>3. CASE d.redir[l].mask = FALSE /\ l \in d.high /\ l \notin d.remote_irr
  <2>1. e = Accept(d, l)
    BY <1>3 DEF Service, Asks
  <2>2. Accept(d, l) = a
    BY DEF Accept
  <2>3. /\ a \in Devices /\ SameCore(d, a) /\ a.high = d.high
        /\ a.irr = d.irr \union {v} /\ a.tmr = d.tmr \union {v}
        /\ a.remote_irr = d.remote_irr \union {l}
    BY DEF Devices, SameCore
  <2>4. ~(d.redir[l].mask = TRUE \/ l \notin d.high \/ l \in d.remote_irr)
    BY <1>3
  <2> HIDE DEF a
  <2> QED BY <2>1, <2>2, <2>3, <2>4
<1> QED BY <1>1, <1>2, <1>3

\* A line with a level-triggered entry is raised.
LEMMA LevelUpEffect ==
  ASSUME NEW d \in Devices, NEW l \in Lines, d.redir[l].trig_mode = LEVEL,
         d.redir[l].vector \in Vectors
  PROVE  LET e == SetLine(d, l, 1)
             v == d.redir[l].vector
         IN
         /\ e \in Devices /\ SameCore(d, e) /\ e.high = d.high \union {l}
         /\ d.redir[l].mask = TRUE \/ l \in d.remote_irr =>
              e.irr = d.irr /\ e.tmr = d.tmr /\ e.remote_irr = d.remote_irr
         /\ d.redir[l].mask = FALSE /\ l \notin d.remote_irr =>
              /\ e.irr = d.irr \union {v} /\ e.tmr = d.tmr \union {v}
              /\ e.remote_irr = d.remote_irr \union {l}
<1> DEFINE moved == [d EXCEPT !.high = @ \union {l}]
<1>1. /\ moved \in Devices /\ moved.high = d.high \union {l} /\ moved.redir = d.redir
      /\ SameCore(d, moved) /\ moved.remote_irr = d.remote_irr /\ moved.irr = d.irr
      /\ moved.tmr = d.tmr
  BY DEF Devices, SameCore
<1>2. SetLine(d, l, 1) = Service(moved, l)
  BY Modes DEF SetLine
<1> HIDE DEF moved
<1>3. moved.redir[l].trig_mode = LEVEL /\ moved.redir[l].vector \in Vectors
  BY <1>1
<1> DEFINE e == Service(moved, l)
           v == moved.redir[l].vector
<1>4. /\ e \in Devices /\ SameCore(moved, e) /\ e.high = moved.high
      /\ moved.redir[l].mask = TRUE \/ l \notin moved.high \/ l \in moved.remote_irr => e = moved
      /\ moved.redir[l].mask = FALSE /\ l \in moved.high /\ l \notin moved.remote_irr =>
           /\ e.irr = moved.irr \union {v} /\ e.tmr = moved.tmr \union {v}
           /\ e.remote_irr = moved.remote_irr \union {l}
  <2>1. moved \in Devices /\ l \in Lines
    BY <1>1
  <2> QED BY ONLY <2>1, <1>3, ServiceEffect
<1>5. v = d.redir[l].vector /\ moved.redir[l].mask = d.redir[l].mask /\ l \in moved.high
  BY <1>1
<1> HIDE DEF e, v
<1>6. /\ e \in Devices /\ SameCore(d, e) /\ e.high = d.high \union {l}
      /\ d.redir[l].mask = TRUE \/ l \in d.remote_irr =>
           e.irr = d.irr /\ e.tmr = d.tmr /\ e.remote_irr = d.remote_irr
      /\ d.redir[l].mask = FALSE /\ l \notin d.remote_irr =>
           /\ e.irr = d.irr \union {v} /\ e.tmr = d.tmr \union {v}
           /\ e.remote_irr = d.remote_irr \union {l}
  BY <1>1, <1>4, <1>5 DEF SameCore
<1> QED BY <1>2, <1>5, <1>6 DEF e

\* The low half of the entry of line l is written.
LEMMA WriteLow ==
  ASSUME NEW d \in Devices, NEW l \in Lines, NEW w \in Entries, d.index = Low(l)
  PROVE  /\ WriteData(d, w) = Service([d EXCEPT !.redir[l] = w], l)
         /\ [d EXCEPT !.redir[l] = w] \in Devices
<1>1. l \in {14, 15} /\ d.index = 16 + 2 * l
  BY DEF Lines, Low
<1>2. d.index # 0
  BY <1>1
<1>3. \E k \in Lines : d.index = Low(k)
  OBVIOUS
<1>4. (CHOOSE k \in Lines : d.index = Low(k)) = l
  <2>1. \A k \in Lines : d.index = Low(k) <=> k = l
    BY <1>1 DEF Lines, Low
  <2> QED BY <2>1
<1>5. WriteData(d, w) = Service([d EXCEPT !.redir[l] = w], l)
  BY <1>2, <1>3, <1>4, Zenon DEF WriteData
<1>6. [d EXCEPT !.redir[l] = w] \in Devices
  BY DEF Devices
<1> QED BY <1>5, <1>6

\* Nothing but an entry or the id register takes what is written.
LEMMA WriteIgnored ==
  ASSUME NEW d \in Devices, NEW w, d.index \in {1, 2, 45, 47}
  PROVE  WriteData(d, w) = d
<1>1. d.index # 0 /\ ~(\E k \in Lines : d.index = Low(k))
  BY DEF Lines, Low
<1> QED BY <1>1, Zenon DEF WriteData

\* Writing the id register sets the id and the arbitration id.
LEMMA WriteId ==
  ASSUME NEW d \in Devices, NEW n \in 0 .. 15, NEW b, d.index = 0
  PROVE  LET e == WriteData(d, [id |-> n, other |-> b]) IN
         /\ e \in Devices /\ e.id = n /\ e.arb = n
         /\ e.index = d.index /\ e.redir = d.redir /\ e.isr = d.isr
         /\ e.high = d.high /\ e.remote_irr = d.remote_irr /\ e.irr = d.irr /\ e.tmr = d.tmr
<1> DEFINE w == [id |-> n, other |-> b]
           e == [d EXCEPT !.id = n, !.arb = n]
<1>1. Bits24to27(w) = n
  BY DEF Bits24to27
<1>2. ~(\E k \in Lines : d.index = Low(k))
  BY DEF Lines, Low
<1>3. WriteData(d, w) = e
  <2> HIDE DEF w
  <2> QED BY <1>1, <1>2, Zenon DEF WriteData
<1>4. /\ e \in Devices /\ e.id = n /\ e.arb = n
      /\ e.index = d.index /\ e.redir = d.redir /\ e.isr = d.isr
      /\ e.high = d.high /\ e.remote_irr = d.remote_irr /\ e.irr = d.irr /\ e.tmr = d.tmr
  BY DEF Devices
<1> HIDE DEF w, e
<1>5. QED
  <2>1. WriteData(d, w) \in Devices
    BY <1>3, <1>4
  <2> QED BY <1>3, <1>4, <2>1 DEF w

\* The local APIC.
LEMMA HighestOne == \A v \in Vectors : Highest({v}) = v
<1> SUFFICES ASSUME NEW v \in Vectors PROVE Highest({v}) = v
  OBVIOUS
<1>1. v \in Nat
  BY DEF Vectors
<1>2. v \in {v} /\ \A w \in {v} : w <= v
  BY <1>1
<1> QED BY <1>2 DEF Highest

\* What the eoi of a handler does when it is the only one in service: remote
\* IRR is cleared, and a level line that is still high interrupts again unless
\* the entry is masked.
LEMMA EoiEffect ==
  ASSUME NEW d \in Devices, NEW v \in Vectors, d.isr = {v}, d.remote_irr \subseteq {Line},
         v \in d.tmr => d.redir[Line].vector = v /\ d.redir[Line].trig_mode = LEVEL
                          /\ d.remote_irr = {Line}
  PROVE  LET e     == EndOfInterrupt(d)
             again == v \in d.tmr /\ Line \in d.high /\ ~d.redir[Line].mask
         IN
         /\ e \in Devices /\ e.isr = {} /\ e.high = d.high /\ e.tmr = d.tmr
         /\ e.index = d.index /\ e.id = d.id /\ e.arb = d.arb /\ e.redir = d.redir
         /\ again => e.irr = d.irr \union {v} /\ e.remote_irr = {Line}
         /\ ~again /\ v \in d.tmr => e.irr = d.irr /\ e.remote_irr = {}
         /\ ~again /\ v \notin d.tmr => e.irr = d.irr /\ e.remote_irr = d.remote_irr
<1> DEFINE acked == IF v \in d.tmr THEN {l \in d.remote_irr : d.redir[l].vector = v} ELSE {}
           asking == {l \in acked : Asks(d, l)}
           e == EndOfInterrupt(d)
           again == v \in d.tmr /\ Line \in d.high /\ ~d.redir[Line].mask
<1>1. (IF d.isr = {} THEN 0 ELSE Highest(d.isr)) = v
  BY HighestOne
<1>2. e = [d EXCEPT !.isr = @ \ {v}, !.remote_irr = (@ \ acked) \union asking,
                    !.irr = IF asking = {} THEN @ ELSE @ \union {v}]
  BY <1>1 DEF EndOfInterrupt
<1>3. acked = IF v \in d.tmr THEN {Line} ELSE {}
  OBVIOUS
<1>4. asking = IF again THEN {Line} ELSE {}
  BY <1>3 DEF Asks
<1>5. asking \subseteq Lines
  BY <1>4 DEF Lines, Line
<1> HIDE DEF e, acked, asking, again
<1>6. /\ e \in Devices /\ e.isr = {} /\ e.high = d.high /\ e.tmr = d.tmr
      /\ e.index = d.index /\ e.id = d.id /\ e.arb = d.arb /\ e.redir = d.redir
      /\ e.remote_irr = (d.remote_irr \ acked) \union asking
      /\ e.irr = IF asking = {} THEN d.irr ELSE d.irr \union {v}
  BY <1>2, <1>5 DEF Devices
<1>7. again => e.irr = d.irr \union {v} /\ e.remote_irr = {Line}
  BY <1>3, <1>4, <1>6
<1>8. ~again => e.irr = d.irr /\ e.remote_irr = d.remote_irr \ acked
  BY <1>4, <1>6
<1>9. ~again /\ v \in d.tmr => e.remote_irr = {}
  BY <1>3, <1>8
<1>10. ~again /\ v \notin d.tmr => e.remote_irr = d.remote_irr
  BY <1>3, <1>8
<1> QED BY <1>6, <1>7, <1>8, <1>9, <1>10 DEF e, again

-----------------------------------------------------------------------------
(***************************************************************************)
(* Main goes on, and no handler runs: what the tables say at the next      *)
(* place.  Eventful are the places where main touches a line or an entry.  *)
(***************************************************************************)
Goes(p, q) == p \in 1 .. 257 /\ (q = p + 1 \/ (p = 87 /\ q = 91) \/ (p = 90 /\ q = 87))
LineAt   == LineUp \union LineDown \union {56, 57}
Eventful == LineAt \union StoreLow \union {52}

\* With no handler in service and nothing pending, every place agrees on the
\* interrupts.
LEMMA IrqQuiet ==
  ASSUME NEW p, NEW q, NEW k, NEW isr, NEW rm, NEW tm, Irq(p, k, 0, {}, isr, rm, tm)
  PROVE  isr = {} /\ rm = {} /\ Irq(q, k, 0, {}, isr, rm, tm)
BY DEF Irq

\* Pending interrupts stay where they belong when main goes on from p without
\* touching the line.
LEMMA IrqGoes ==
  ASSUME NEW p, NEW q, NEW k, NEW iq, NEW isr, NEW rm, NEW tm, Goes(p, q),
         p \notin Off => iq = {}, p \notin LineAt, Irq(p, k, 0, iq, isr, rm, tm)
  PROVE  Irq(q, k, 0, iq, isr, rm, tm)
<1>1. CASE iq = {}
  BY <1>1, IrqQuiet
<1>2. CASE p \in {1, 60, 87, 88, 90, 91}
  <2>1. \/ p = 1 /\ q = 2
        \/ p = 60 /\ q = 61
        \/ p \in 87 .. 92 /\ q \in 87 .. 92
    BY <1>2 DEF Goes
  <2>2. Requests(p) \subseteq Requests(q) /\ (p # 1 => (IsLevel(p) <=> IsLevel(q)))
          /\ Requests(1) = {}
    BY <2>1 DEF Requests, Raised, VectorAt, IsLevel
  <2>3. p = 1 => iq = {}
    BY <2>2 DEF Irq
  <2> QED BY <1>1, <2>2, <2>3 DEF Irq
<1> QED BY <1>1, <1>2 DEF Off, LineAt, LineUp, LineDown

\* So does the level of the line.
LEMMA LineGoes ==
  ASSUME NEW p, NEW q, NEW k, NEW iq, NEW h, Goes(p, q),
         p \notin Off => iq = {}, p \notin LineAt \union {145}, LineIs(p, k, 0, iq, h)
  PROVE  LineIs(q, k, 0, iq, h)
<1>1. CASE p \in {1, 60, 87, 88, 90, 91}
  <2>1. \/ p = 1 /\ q = 2
        \/ p = 60 /\ q = 61
        \/ p \in 87 .. 92 /\ q \in 87 .. 92
    BY <1>1 DEF Goes
  <2> QED BY <2>1 DEF LineIs, MayBeHigh, MustLower
<1>2. CASE iq = {} /\ p \notin {1, 60, 87, 88, 90, 91}
  <2>1. q = p + 1 /\ p \in 1 .. 257
    BY <1>2 DEF Goes
  <2>2. p \in MayBeHigh => p \in MustLower \/ q \in MayBeHigh
    BY <1>2, <2>1 DEF MayBeHigh, MustLower, LineAt, LineUp, LineDown
  <2>3. q \in MustLower => p \notin MayBeHigh \/ p \in MustLower
    BY <1>2, <2>1 DEF MayBeHigh, MustLower, LineAt, LineUp, LineDown
  <2>4. p # 57
    BY DEF LineAt
  <2>5. q = 57 => h = {}
    BY <2>1 DEF LineAt
  <2>6. p \notin MayBeHigh => h = {}
    BY <2>4 DEF LineIs
  <2>7. p \in MustLower => h = {}
    BY <1>2 DEF LineIs
  <2> QED BY <2>2, <2>3, <2>4, <2>5, <2>6, <2>7 DEF LineIs
<1> QED BY <1>1, <1>2 DEF Off, LineAt, LineUp, LineDown

\* So does the entry of the line.
LEMMA RedirGoes ==
  ASSUME NEW p, NEW q, NEW k, NEW iq, NEW h, NEW rd, Goes(p, q),
         p \notin StoreLow \union {52, 155}, RedirIs(p, k, 0, iq, h, rd)
  PROVE  RedirIs(q, k, 0, iq, h, rd)
<1>1. p >= 30 <=> q >= 30
  BY DEF Goes, StoreLow, SetupAt
<1>2. p >= 53 <=> q >= 53
  BY DEF Goes
<1>3. VectorAt(p) = VectorAt(q) /\ TrigAt(p) = TrigAt(q)
  BY DEF Goes, StoreLow, SetupAt, VectorAt, TrigAt, IsLevel
<1>4. (p \in 156 .. 173 <=> q \in 156 .. 173) /\ (p \in Masked <=> q \in Masked)
  BY DEF Goes, StoreLow, RemaskAt, Masked
<1> HIDE DEF Masked
<1> QED BY <1>1, <1>2, <1>3, <1>4 DEF RedirIs

\* So does the entry that main has at hand.
LEMMA EntryGoes ==
  ASSUME NEW p, NEW q, NEW e, Goes(p, q),
         p \notin EntryAt \union LoadAt \union MaskTrue \union MaskFalse, EntryIs(p, e)
  PROVE  EntryIs(q, e)
<1>1. CASE p \in 87 .. 91
  <2>1. q \in 87 .. 92
    BY <1>1 DEF Goes
  <2>2. q \notin NewAt \union {51, 52} \union LoadedAt \union MaskAt \union UnmaskAt
    BY <2>1 DEF NewAt, LoadedAt, MaskAt, UnmaskAt
  <2> QED BY <2>2 DEF EntryIs
<1>2. CASE p \notin 87 .. 91
  <2>1. q = p + 1 /\ p \in 1 .. 257
    BY <1>2 DEF Goes
  <2>2. q \in NewAt => p \in NewAt
    BY <2>1 DEF NewAt, EntryAt
  <2>3. q \in NewAt => VectorAt(p + 2) = VectorAt(q + 2) /\ TrigAt(p + 2) = TrigAt(q + 2)
    BY <2>1 DEF NewAt, EntryAt, VectorAt, TrigAt, IsLevel
  <2>4. q \in {51, 52} => p \in {51, 52}
    BY <2>1 DEF EntryAt
  <2>5. /\ q \in LoadedAt => p \in LoadedAt
        /\ q \in MaskAt => p \in MaskAt
        /\ q \in UnmaskAt => p \in UnmaskAt
    BY <2>1 DEF LoadedAt, MaskAt, UnmaskAt, LoadAt, LoadLow, MaskTrue, MaskFalse
  <2>6. q \in LoadedAt \union MaskAt \union UnmaskAt =>
          VectorAt(p) = VectorAt(q) /\ TrigAt(p) = TrigAt(q)
    BY <2>1, <2>5 DEF LoadedAt, MaskAt, UnmaskAt, VectorAt, TrigAt, IsLevel
  <2> HIDE DEF LoadedAt, MaskAt, UnmaskAt, NewAt
  <2> QED BY <2>2, <2>3, <2>4, <2>5, <2>6 DEF EntryIs
<1> QED BY <1>1, <1>2

\* So do the words read from the id and version registers.
LEMMA WordGoes ==
  ASSUME NEW p, NEW q, NEW old, NEW new, NEW id, NEW arb, Goes(p, q),
         p \notin WordAt, WordIs(p, old, new, id, arb)
  PROVE  WordIs(q, old, new, id, arb)
<1>1. \/ p \in {1, 2, 4, 6, 8, 9, 11, 13, 15, 16, 18, 20, 21, 23} /\ q = p + 1
      \/ p >= 25 /\ q >= 26
  BY DEF Goes, WordAt
<1> QED BY <1>1 DEF WordIs

\* So do the handlers' counters.
LEMMA CountsGo ==
  ASSUME NEW p, NEW q, NEW k, NEW iq, NEW gs, Goes(p, q),
         p \notin LineAt \union {145, 162}, Counts(p, k, 0, iq, gs)
  PROVE  Counts(q, k, 0, iq, gs)
<1> SUFFICES ASSUME NEW x \in Vectors \ {\h9a, \h79}
             PROVE  RunsAt(x, p) = RunsAt(x, q)
  BY DEF Counts
<1>1. q = p + 1 \/ (p \in 87 .. 91 /\ q \in 87 .. 91)
  BY DEF Goes
<1>2. \A n \in {33, 42, 57, 59, 69, 77, 78, 121, 146, 156, 163} : p >= n <=> q >= n
  BY <1>1 DEF Goes, LineAt, LineUp, LineDown
<1> QED BY <1>2 DEF RunsAt

\* So does the number of runs in the retrigger tests.
LEMMA RetriggerGoes ==
  ASSUME NEW p, NEW q, NEW k, NEW iq, NEW h, NEW n, Goes(p, q), p \notin LineAt,
         p \notin Off => iq = {}, Retrigger(p, k, 0, iq, h, n)
  PROVE  Retrigger(q, k, 0, iq, h, n)
<1>1. \/ p <= 86 /\ q <= 86
      \/ p \in 87 .. 91 /\ q \in 87 .. 92
      \/ p = 92 /\ q = 93 /\ iq = {}
      \/ p >= 93 /\ q >= 93
  BY DEF Goes, LineAt, LineUp, Off
<1>2. p \in 1 .. 257 /\ q \in 1 .. 258
  BY DEF Goes
<1> QED BY <1>1, <1>2 DEF Retrigger

\* So does what the simultaneous test has seen.
LEMMA SimultaneousGoes ==
  ASSUME NEW p, NEW q, NEW k, NEW iq, NEW rip, NEW after, Goes(p, q), p \notin LineAt,
         Simultaneous(p, k, 0, iq, rip, after)
  PROVE  Simultaneous(q, k, 0, iq, rip, after)
<1>1. \/ p <= 55 /\ q <= 56
      \/ p = 60 /\ q = 61
      \/ p >= 61 /\ q >= 61
  BY DEF Goes, LineAt, LineUp, LineDown
<1>2. p \in 1 .. 257 /\ q \in 1 .. 258
  BY DEF Goes
<1> QED BY <1>1, <1>2 DEF Simultaneous, Ahead

\* So do the counters that the first ioctl's reports are about.
LEMMA ExactGoes ==
  ASSUME NEW p, NEW q, NEW h, Goes(p, q), p \notin LineAt, Exact(p, h)
  PROVE  Exact(q, h)
<1>1. q \in 138 .. 145 \union 156 .. 166 => p \in 138 .. 145 \union 156 .. 166
  BY DEF Goes, LineAt, LineUp, LineDown
<1> QED BY <1>1 DEF Exact

\* So does the trigger mode that the tests of the TMR read.
LEMMA TmrGoes ==
  ASSUME NEW p, NEW q, NEW k, NEW iq, NEW tm, NEW before, NEW got, Goes(p, q),
         p \notin LineAt \union TmrAt \union CallAt \union Awaits,
         p \notin Off => iq = {}, Tmr(p, k, 0, iq, tm, before, got)
  PROVE  Tmr(q, k, 0, iq, tm, before, got)
<1>1. p \in Off => p <= 91 /\ q <= 92
  BY DEF Off, Goes
<1>2. CASE p \in Off
  BY <1>1, <1>2 DEF Tmr, Goes
<1>3. CASE p \notin Off
  <2>1. q <= 92 \/ (q = p + 1 /\ p \in 92 .. 257)
    BY DEF Goes
  <2>2. CASE q <= 92
    BY <2>2 DEF Tmr, Goes
  <2>3. CASE q = p + 1 /\ p \in 92 .. 257
    BY <1>3, <2>3 DEF Tmr, LineAt, LineUp, LineDown, TmrAt, CallAt, Awaits
  <2> QED BY <2>1, <2>2, <2>3
<1> QED BY <1>2, <1>3

-----------------------------------------------------------------------------
(***************************************************************************)
(* Steps of main.                                                          *)
(***************************************************************************)
LEMMA MainRuns ==
  ASSUME IoapicInv, Caller = 0, MayRun
  PROVE  /\ running = TRUE /\ halted = FALSE /\ vec = 0
         /\ P \notin Off => dev.irr = {}
         /\ dev.isr = {} /\ (dev.irr = {} => dev.remote_irr = {})
<1>1. running /\ ~halted /\ vec = 0 /\ ~Enabled
  BY DEF MayRun
<1>2. dev.isr = {} /\ (dev.irr = {} => dev.remote_irr = {})
  BY <1>1 DEF IoapicInv, DeviceInv, Irq
<1>3. dev.irr # {} => Deliverable(dev)
  BY <1>2 DEF Deliverable
<1>4. P \notin Off => iflag
  BY <1>1 DEF IoapicInv, Flow
<1>5. P \notin Off => dev.irr = {}
  BY <1>1, <1>3, <1>4 DEF Enabled
<1>6. running = TRUE /\ halted = FALSE
  BY <1>1 DEF IoapicInv, Types
<1> QED BY <1>1, <1>2, <1>5, <1>6

\* Where a step takes the contexts.
LEMMA StepEffect ==
  ASSUME Types
  PROVE  /\ Step("main")   => P' = P + 1 /\ K' = K /\ H' = H
         /\ Step("isr")    => P' = P /\ K' = K + 1 /\ H' = H
         /\ Step("helper") => P' = P /\ K' = K /\ H' = H + 1
         /\ \A x \in Contexts : Step(x) =>
              /\ running' = running /\ ioctls' = ioctls
              /\ pc[x] \in 1 .. MainLen => pc' \in [Contexts -> 1 .. MainLen + 1]
<1>1. pc \in [Contexts -> 1 .. MainLen + 1]
  BY DEF Types
<1>2. Contexts = {"main", "isr", "helper"}
  BY DEF Contexts
<1>3. MainLen \in {213, 257}
  BY MainLength
<1>4. \A x \in Contexts : Step(x) =>
        /\ running' = running /\ ioctls' = ioctls
        /\ pc' = [pc EXCEPT ![x] = pc[x] + 1]
  BY DEF Step, Jump
<1>5. \A x \in Contexts : Step(x) /\ pc[x] \in 1 .. MainLen => pc' \in [Contexts -> 1 .. MainLen + 1]
  BY <1>1, <1>3, <1>4
<1> QED BY <1>1, <1>2, <1>4, <1>5 DEF P, K, H

\* No access to the data register follows another without a selection between
\* them, and none follows any of the other steps.
LEMMA PlaceKind ==
  /\ P \in Int => (P \in DataAt => P + 1 \notin DataAt)
  /\ P \in LineAt \union HandleAt \union EntryAt \union MaskTrue \union MaskFalse \union TmrAt
             \union ResetAt \union CallAt \union Awaits \union {1, 55, 60, 85, 87, 88, 89, 90, 91}
       => P + 1 \notin DataAt
  /\ \A a : Reports(P, a) => P + 1 \notin DataAt
<1>1. P \in Int => (P \in DataAt => P + 1 \notin DataAt)
  BY DEF DataAt, WordAt, StoreAt, LoadAt, StoreLow, LoadLow, SetupAt, RemaskAt
<1>2. P \in LineAt \union HandleAt \union EntryAt \union MaskTrue \union MaskFalse \union TmrAt
              \union ResetAt \union CallAt \union Awaits \union {1, 55, 60, 85, 87, 88, 89, 90, 91}
        => P + 1 \notin DataAt
  BY DEF DataAt, WordAt, StoreAt, LoadAt, StoreLow, LoadLow, SetupAt, RemaskAt,
         LineAt, LineUp, LineDown, HandleAt, EntryAt, MaskTrue, MaskFalse, TmrAt, ResetAt,
         CallAt, Awaits
<1>3. \A a : Reports(P, a) => P \in {8, 15, 20, 25, 34, 42, 61, 69, 78, 92, 110, 121, 138,
                                     148, 165, 185, 224, 213, 257, 194, 235, 203, 246}
  BY ZenonT(60) DEF Reports
<1>4. P \in {8, 15, 20, 25, 34, 42, 61, 69, 78, 92, 110, 121, 138,
             148, 165, 185, 224, 213, 257, 194, 235, 203, 246} => P + 1 \notin DataAt
  BY DEF DataAt, WordAt, StoreAt, LoadAt, StoreLow, LoadLow, SetupAt, RemaskAt
<1> QED BY <1>1, <1>2, <1>3, <1>4

\* A step with the interrupt flag as it was.
FlagAt == {1, 55, 60, 85, 87, 88, 89, 90, 91}
\* The control state is in order after a step of main that only moves on.
LEMMA FlowGoes ==
  ASSUME IoapicInv, Caller = 0, MayRun, P \in 1 .. MainLen, P \notin FlagAt, P' = P + 1,
         running' = running, ioctls' = ioctls, iflag' = iflag, halted' = halted, vec' = vec,
         tries' = tries
  PROVE  Flow'
<1>1. running = TRUE /\ halted = FALSE /\ vec = 0
  BY MainRuns
<1>2. MainLen \in {213, 257}
  BY MainLength
<1>3. P' \notin Off <=> P \notin Off
  BY <1>2 DEF Off, FlagAt
<1>4. P' \in 1 .. MainLen + 1 /\ P' \notin 88 .. 90
  BY <1>2 DEF FlagAt
<1>5. ioctls > 0 /\ (iflag <=> P \notin Off) /\ ioctls # 0
  BY <1>1 DEF IoapicInv, Flow
<1>6. MainLen' = MainLen
  BY DEF MainLen
<1> QED BY <1>1, <1>3, <1>4, <1>5, <1>6 DEF Flow

\* vCPU 1 is called only where main waits for it.
LEMMA NotCalled ==
  ASSUME IoapicInv, P \notin Awaits
  PROVE  ~Called
BY DEF IoapicInv, Helper

\* vCPU 1 is in order after a step of main that does not call it.
LEMMA HelperGoes ==
  ASSUME IoapicInv, ~Called, Goes(P, P'), H' = H, job' = job, ipi' = ipi, ioctls' = ioctls,
         P \in ResetAt => g_tmr_79' = -1, P \notin ResetAt => g_tmr_79' = g_tmr_79
  PROVE  Helper'
<1>1. ~Called'
  BY DEF Called
<1>2. P' \in 215 .. 222 \union 226 .. 233 \union 237 .. 244 \union 248 .. 255 =>
        P \in 215 .. 222 \union 226 .. 233 \union 237 .. 244 \union 248 .. 255 \union ResetAt
  BY DEF Goes, ResetAt
<1>3. P' <= 222 => P <= 222
  BY DEF Goes
<1>4. First' <=> First
  BY DEF First
<1> QED BY <1>1, <1>2, <1>3, <1>4 DEF IoapicInv, Helper

\* A step that touches neither a line nor an entry keeps what the tables say of
\* the devices and the counters.
LEMMA QuietMain ==
  ASSUME IoapicInv, Caller = 0, MayRun, Goes(P, P'), P \notin Eventful,
         K' = K, vec' = vec, g' = g, g_rip' = g_rip, g_66_after_78' = g_66_after_78,
         dev'.irr = dev.irr, dev'.isr = dev.isr, dev'.remote_irr = dev.remote_irr,
         dev'.tmr = dev.tmr, dev'.high = dev.high, dev'.redir = dev.redir
  PROVE  DeviceInv' /\ (CountInv => CountInv')
<1>1. vec = 0 /\ (P \notin Off => dev.irr = {})
  BY MainRuns
<1>2. P \notin LineAt /\ P \notin StoreLow \union {52} /\ P # 145 /\ P # 162 /\ P # 155
  BY DEF Eventful, LineAt, LineUp, StoreLow, RemaskAt
<1>3. /\ Irq(P, K, 0, dev.irr, dev.isr, dev.remote_irr, dev.tmr)
      /\ LineIs(P, K, 0, dev.irr, dev.high)
      /\ RedirIs(P, K, 0, dev.irr, dev.high, dev.redir)
  BY <1>1 DEF IoapicInv, DeviceInv
<1>4. Irq(P', K, 0, dev.irr, dev.isr, dev.remote_irr, dev.tmr)
  BY <1>1, <1>2, <1>3, IrqGoes
<1>5. LineIs(P', K, 0, dev.irr, dev.high)
  BY <1>1, <1>2, <1>3, LineGoes
<1>6. RedirIs(P', K, 0, dev.irr, dev.high, dev.redir)
  BY <1>2, <1>3, RedirGoes
<1>7. Isr83(0, K', entry["isr"]', dev'.index)
  BY DEF Isr83
<1>8. DeviceInv'
  BY <1>1, <1>4, <1>5, <1>6, <1>7 DEF DeviceInv
<1>9. ASSUME CountInv PROVE CountInv'
  <2>1. Counts(P', K, 0, dev.irr, g)
    BY <1>1, <1>2, <1>9, CountsGo DEF CountInv
  <2>2. Retrigger(P', K, 0, dev.irr, dev.high, g[\h9a])
    BY <1>1, <1>2, <1>9, RetriggerGoes DEF CountInv
  <2>3. Simultaneous(P', K, 0, dev.irr, g_rip, g_66_after_78)
    BY <1>1, <1>2, <1>9, SimultaneousGoes DEF CountInv
  <2>4. Exact(P', dev.high)
    BY <1>2, <1>9, ExactGoes DEF CountInv
  <2> QED BY <1>1, <2>1, <2>2, <2>3, <2>4 DEF CountInv
<1> QED BY <1>8, <1>9

\* What main accesses is a register.
LEMMA RegisterSet == 0 \in Registers /\ \A p \in Int : RegAt(p) \in Registers
<1>1. \A l \in Lines : Low(l) \in Registers /\ High(l) \in Registers
  <2>1. \A l \in Lines : {Low(l), High(l)} \in {{Low(m), High(m)} : m \in Lines}
    OBVIOUS
  <2>2. \A l \in Lines : Low(l) \in UNION {{Low(m), High(m)} : m \in Lines}
                         /\ High(l) \in UNION {{Low(m), High(m)} : m \in Lines}
    BY <2>1
  <2> QED BY <2>2 DEF Registers
<1>2. 0 \in Registers /\ 1 \in Registers /\ 2 \in Registers
  BY DEF Registers
<1>3. Line \in Lines /\ \h0f \in Lines
  BY LineNumbers
<1> QED BY <1>1, <1>2, <1>3 DEF RegAt

\* A handler is installed only where the tables say.
LEMMA InstalledGoes ==
  ASSUME Installed, NEW p \in Int, p = P, Goes(p, P'), p \notin HandleAt, idt \subseteq idt'
  PROVE  Installed'
<1> SUFFICES ASSUME NEW v \in Vectors, P' > InstalledAt(v)
             PROVE  v \in idt'
  BY DEF Installed
<1>1. \A u \in Vectors : InstalledAt(u) \in HandleAt
  BY DEF InstalledAt, HandleAt
<1>2. p # InstalledAt(v)
  BY <1>1
<1>3. InstalledAt(v) \notin 87 .. 91 /\ InstalledAt(v) \in Int
  BY DEF InstalledAt
<1>4. p > InstalledAt(v)
  BY <1>2, <1>3 DEF Goes
<1> QED BY <1>4 DEF Installed

\* A step of main's that leaves the interrupt flag, vCPU 1, the counters and the
\* devices, but for registers, as they are.
LEMMA PlainMain ==
  ASSUME IoapicInv, Caller = 0, MayRun, P \in 1 .. MainLen, Step("main"),
         P \notin Eventful \union FlagAt, ~Called, iflag' = iflag, halted' = halted, vec' = vec,
         job' = job, ipi' = ipi, tries' = tries, g' = g, g_rip' = g_rip,
         g_66_after_78' = g_66_after_78,
         P \in ResetAt => g_tmr_79' = -1, P \notin ResetAt => g_tmr_79' = g_tmr_79,
         dev'.irr = dev.irr, dev'.isr = dev.isr, dev'.remote_irr = dev.remote_irr,
         dev'.tmr = dev.tmr, dev'.high = dev.high, dev'.redir = dev.redir,
         Types', Installed', Index', LocalInv', First => TmrInv' /\ failed' = {}
  PROVE  IoapicInv'
<1>1. /\ P' = P + 1 /\ K' = K /\ H' = H /\ running' = running /\ ioctls' = ioctls
  BY StepEffect DEF IoapicInv, Contexts
<1>2. Goes(P, P')
  <2>1. P \in 1 .. 257
    BY MainBound
  <2> QED BY <1>1, <2>1 DEF Goes
<1>3. Flow'
  BY <1>1, FlowGoes
<1>4. Helper'
  BY <1>1, <1>2, HelperGoes
<1>5. DeviceInv' /\ (CountInv => CountInv')
  BY <1>1, <1>2, QuietMain
<1>6. First' <=> First
  BY <1>1 DEF First
<1>7. FirstInv'
  BY <1>5, <1>6 DEF IoapicInv, FirstInv
<1> QED BY <1>3, <1>4, <1>5, <1>7 DEF IoapicInv

\* What a step keeps when it touches neither the locals nor the answers.
LEMMA SameLocals ==
  ASSUME IoapicInv, Goes(P, P'), K' = K, vec' = vec, vec = 0, P \notin Off => dev.irr = {},
         dev'.irr = dev.irr, dev'.tmr = dev.tmr, P \notin LineAt
  PROVE  /\ /\ P \notin EntryAt \union LoadAt \union MaskTrue \union MaskFalse
            /\ entry'["main"] = entry["main"]
            => EntryIs(P', entry'["main"])
         /\ /\ P \notin WordAt /\ word' = word /\ dev'.id = dev.id /\ dev'.arb = dev.arb
            => WordIs(P', word'["old"], word'["new"], dev'.id, dev'.arb)
         /\ /\ First /\ P \notin TmrAt \union CallAt \union Awaits
            /\ tmr_before' = tmr_before /\ g_tmr_79' = g_tmr_79
            => TmrInv'
<1>1. EntryIs(P, entry["main"]) /\ WordIs(P, word["old"], word["new"], dev.id, dev.arb)
  BY DEF IoapicInv, LocalInv
<1>2. First => Tmr(P, K, 0, dev.irr, dev.tmr, tmr_before, g_tmr_79)
  BY DEF IoapicInv, FirstInv, TmrInv
<1>3. P \notin EntryAt \union LoadAt \union MaskTrue \union MaskFalse => EntryIs(P', entry["main"])
  BY <1>1, EntryGoes
<1>4. P \notin WordAt => WordIs(P', word["old"], word["new"], dev.id, dev.arb)
  BY <1>1, WordGoes
<1>5. First /\ P \notin TmrAt \union CallAt \union Awaits =>
        Tmr(P', K, 0, dev.irr, dev.tmr, tmr_before, g_tmr_79)
  BY <1>2, TmrGoes
<1> QED BY <1>3, <1>4, <1>5 DEF TmrInv

\* Main takes one step in its script.
LEMMA MainStepEffect ==
  ASSUME IoapicInv, P \in 1 .. MainLen, Step("main")
  PROVE  /\ P' = P + 1 /\ K' = K /\ H' = H /\ running' = running /\ ioctls' = ioctls
         /\ Goes(P, P') /\ pc' \in [Contexts -> 1 .. MainLen + 1]
<1>1. "main" \in Contexts /\ pc["main"] = P
  BY DEF Contexts, P
<1>2. Types
  BY DEF IoapicInv
<1>3. P' = P + 1 /\ K' = K /\ H' = H
  BY <1>2, StepEffect
<1>4. running' = running /\ ioctls' = ioctls /\ pc' \in [Contexts -> 1 .. MainLen + 1]
  BY <1>1, <1>2, StepEffect
<1>5. P \in 1 .. 257
  BY MainBound
<1>6. Goes(P, P')
  BY <1>3, <1>5 DEF Goes
<1> QED BY <1>3, <1>4, <1>6

\* main selects a register.
LEMMA MainSelect ==
  ASSUME IoapicInv, Caller = 0, Select("main")
  PROVE  IoapicInv'
<1> DEFINE r == Arg("main")
<1>1. At("main", "select") /\ OnDevice("main", [dev EXCEPT !.index = r])
  BY DEF Select
<1>2. MayRun /\ P \in 1 .. MainLen /\ P + 1 \in DataAt /\ r = RegAt(P + 1)
  BY <1>1, MainAt, ZenonT(40) DEF IoapicInv, MainPlace, Do, DataAccesses
<1>3. /\ P \notin DataAt /\ P \notin FlagAt /\ P \notin HandleAt
      /\ P \notin LineAt \union EntryAt \union MaskTrue \union MaskFalse \union TmrAt
               \union ResetAt \union CallAt \union Awaits
  BY <1>2, MainLength, PlaceKind DEF FlagAt
<1>4. P \notin Eventful /\ P \notin WordAt \union LoadAt
  BY <1>3 DEF Eventful, DataAt, StoreAt
<1>5. r \in Registers
  BY <1>2, MainLength, RegisterSet
<1>6. Step("main") /\ dev' = [dev EXCEPT !.index = r]
        /\ UNCHANGED <<idt, cpuVars, localVars, countVars, failed>>
  BY <1>1 DEF OnDevice
<1> HIDE DEF r
<1>7. /\ dev'.irr = dev.irr /\ dev'.isr = dev.isr /\ dev'.remote_irr = dev.remote_irr
      /\ dev'.tmr = dev.tmr /\ dev'.high = dev.high /\ dev'.redir = dev.redir
      /\ dev'.id = dev.id /\ dev'.arb = dev.arb /\ dev'.index = r /\ dev' \in Devices
  BY <1>5, <1>6 DEF IoapicInv, Types, Devices
<1>8. P' = P + 1 /\ K' = K /\ running' = running /\ ioctls' = ioctls /\ Goes(P, P')
        /\ pc' \in [Contexts -> 1 .. MainLen + 1]
  BY <1>2, <1>6, MainStepEffect
<1>9. vec = 0 /\ (P \notin Off => dev.irr = {})
  BY <1>2, MainRuns
<1>10. Types'
  BY <1>6, <1>7, <1>8 DEF IoapicInv, Types, cpuVars, localVars, countVars, MainLen
<1>11. LocalInv' /\ (First => TmrInv' /\ failed' = {})
  BY <1>3, <1>4, <1>6, <1>7, <1>8, <1>9, SameLocals
     DEF IoapicInv, LocalInv, FirstInv, cpuVars, localVars, countVars
<1>12. Index'
  BY <1>2, <1>7, <1>8 DEF Index
<1>13. Installed'
  BY <1>2, <1>3, <1>6, <1>8, InstalledGoes DEF IoapicInv
<1> QED
  BY <1>2, <1>3, <1>4, <1>6, <1>7, <1>10, <1>11, <1>12, <1>13, NotCalled, PlainMain
     DEF cpuVars, localVars, countVars

\* A step of main's at a plain place, that is not a selection and leaves the
\* devices but for the id registers.
LEMMA MainAside ==
  ASSUME IoapicInv, Caller = 0, MayRun, P \in 1 .. MainLen, Step("main"), UNCHANGED cpuVars,
         P \notin Eventful \union FlagAt, P + 1 \notin DataAt, ~Called, tries' = tries,
         idt \subseteq idt', idt' \subseteq Vectors,
         P \in HandleAt => HandlerAt(P) \in idt',
         g' = g, g_rip' = g_rip, g_66_after_78' = g_66_after_78, tmr_before' \in {0, 1},
         P \in ResetAt => g_tmr_79' = -1, P \notin ResetAt => g_tmr_79' = g_tmr_79,
         dev'.irr = dev.irr, dev'.isr = dev.isr, dev'.remote_irr = dev.remote_irr,
         dev'.tmr = dev.tmr, dev'.high = dev.high, dev'.redir = dev.redir, dev' \in Devices,
         entry' \in [Contexts -> Entries], word' \in [{"old", "new"} -> Words],
         P' = P + 1 => LocalInv',
         P' = P + 1 /\ K' = K /\ First => TmrInv' /\ failed' = {}
  PROVE  IoapicInv'
<1>1. /\ P' = P + 1 /\ K' = K /\ H' = H /\ running' = running /\ ioctls' = ioctls
      /\ Goes(P, P') /\ pc' \in [Contexts -> 1 .. MainLen + 1]
  BY MainStepEffect
<1>2. Types'
  <2>1. g_tmr_79' \in {-1, 0, 1}
    BY DEF IoapicInv, Types
  <2>2. MainLen' = MainLen
    BY DEF MainLen
  <2> QED BY <1>1, <2>1, <2>2 DEF IoapicInv, Types, cpuVars
<1>3. Index'
  BY <1>1 DEF Index
<1>4. P \in Int
  BY MainBound
<1>5. Installed'
  <2>1. CASE P \notin HandleAt
    BY <1>1, <1>4, <2>1, InstalledGoes DEF IoapicInv
  <2>2. CASE P \in HandleAt
    <3>1. \A v \in Vectors : P >= InstalledAt(v) => P > InstalledAt(v) \/ v = HandlerAt(P) \/ v \in idt
      <4>1. \A v \in Vectors : P = InstalledAt(v) => v = HandlerAt(P)
        BY DEF InstalledAt, HandlerAt, Vectors
      <4>2. \A v \in Vectors : InstalledAt(v) \in Int
        BY DEF InstalledAt
      <4> QED BY <1>4, <4>1, <4>2
    <3>2. \A v \in Vectors : P > InstalledAt(v) => v \in idt
      BY DEF IoapicInv, Installed
    <3>3. \A v \in Vectors : InstalledAt(v) \in Int
      BY DEF InstalledAt
    <3>4. \A v \in Vectors : P' > InstalledAt(v) => P >= InstalledAt(v)
      BY <1>1, <1>4, <3>3
    <3> QED BY <2>2, <3>1, <3>2, <3>4 DEF Installed
  <2> QED BY <2>1, <2>2
<1>6. LocalInv' /\ (First => TmrInv' /\ failed' = {})
  BY <1>1
<1> QED BY <1>2, <1>3, <1>5, <1>6, PlainMain DEF cpuVars

\* Where main accesses its locals or a counter, it is nowhere special.
LEMMA AsidePlaces ==
  /\ MaskTrue \intersect (Eventful \union FlagAt \union HandleAt \union ResetAt \union Awaits) = {}
  /\ MaskFalse \intersect (Eventful \union FlagAt \union HandleAt \union ResetAt \union Awaits) = {}
  /\ EntryAt \intersect (Eventful \union FlagAt \union HandleAt \union ResetAt \union Awaits) = {}
  /\ LoadAt \intersect (Eventful \union FlagAt \union HandleAt \union ResetAt \union Awaits) = {}
  /\ WordAt \intersect (Eventful \union FlagAt \union HandleAt \union ResetAt \union Awaits) = {}
  /\ TmrAt \intersect (Eventful \union FlagAt \union HandleAt \union ResetAt \union Awaits) = {}
  /\ ResetAt \intersect (Eventful \union FlagAt \union HandleAt \union Awaits) = {}
  /\ HandleAt \intersect (Eventful \union FlagAt \union ResetAt \union Awaits) = {}
  /\ Awaits \intersect (Eventful \union FlagAt \union HandleAt \union ResetAt) = {}
<1> USE DEF Eventful, LineAt, LineUp, LineDown, StoreLow, SetupAt, RemaskAt, FlagAt, HandleAt,
            ResetAt, Awaits
<1>1. MaskTrue \intersect (Eventful \union FlagAt \union HandleAt \union ResetAt \union Awaits) = {}
  BY DEF MaskTrue
<1>2. MaskFalse \intersect (Eventful \union FlagAt \union HandleAt \union ResetAt \union Awaits) = {}
  BY DEF MaskFalse
<1>3. EntryAt \intersect (Eventful \union FlagAt \union HandleAt \union ResetAt \union Awaits) = {}
  BY DEF EntryAt
<1>4. LoadAt \intersect (Eventful \union FlagAt \union HandleAt \union ResetAt \union Awaits) = {}
  BY DEF LoadAt, LoadLow
<1>5. WordAt \intersect (Eventful \union FlagAt \union HandleAt \union ResetAt \union Awaits) = {}
  BY DEF WordAt
<1>6. TmrAt \intersect (Eventful \union FlagAt \union HandleAt \union ResetAt \union Awaits) = {}
  BY DEF TmrAt
<1>7. ResetAt \intersect (Eventful \union FlagAt \union HandleAt \union Awaits) = {}
  OBVIOUS
<1>8. HandleAt \intersect (Eventful \union FlagAt \union ResetAt \union Awaits) = {}
  OBVIOUS
<1>9. Awaits \intersect (Eventful \union FlagAt \union HandleAt \union ResetAt) = {}
  OBVIOUS
<1> QED BY <1>1, <1>2, <1>3, <1>4, <1>5, <1>6, <1>7, <1>8, <1>9

\* Main changes nothing but its locals.
LEMMA MainOnLocals ==
  ASSUME IoapicInv, Caller = 0, MayRun, P \in 1 .. MainLen, OnLocals("main"),
         UNCHANGED <<tries, tmr_before>>,
         P \notin Eventful \union FlagAt \union HandleAt \union ResetAt \union Awaits,
         P \notin TmrAt \union CallAt, P + 1 \notin DataAt,
         entry' \in [Contexts -> Entries], word' \in [{"old", "new"} -> Words],
         EntryIs(P + 1, entry'["main"]),
         WordIs(P + 1, word'["old"], word'["new"], dev.id, dev.arb)
  PROVE  IoapicInv'
<1>1. Step("main") /\ UNCHANGED <<dev, idt, cpuVars, countVars, failed>>
  BY DEF OnLocals
<1>2. vec = 0 /\ (P \notin Off => dev.irr = {}) /\ P \notin LineAt
  BY MainRuns DEF Eventful
<1>3. P' = P + 1 /\ K' = K /\ Goes(P, P')
  BY <1>1, MainStepEffect
<1>4. LocalInv'
  BY <1>1, <1>3 DEF LocalInv
<1>5. First => TmrInv' /\ failed' = {}
  BY <1>1, <1>2, <1>3, SameLocals DEF IoapicInv, FirstInv, cpuVars, countVars
<1>6. ~Called
  BY NotCalled
<1> QED
  BY <1>1, <1>3, <1>4, <1>5, <1>6, MainAside DEF IoapicInv, Types, cpuVars, countVars

\* main prepares an entry.
LEMMA MainNewEntry ==
  ASSUME IoapicInv, Caller = 0, NewEntry("main")
  PROVE  IoapicInv'
<1> DEFINE e == Arg("main")
<1>1. At("main", "entry") /\ SetEntry("main", e)
  BY DEF NewEntry
<1>2. MayRun /\ P \in 1 .. MainLen /\ P \in EntryAt /\ e = NewEntryAt(P)
  <2> DEFINE it == Do("entry", e)
  <2>1. MayRun /\ P \in 1 .. MainLen /\ MainPlace(P, it)
    BY <1>1, MainAt DEF IoapicInv
  <2>2. it.op = "entry" /\ it.arg = e
    BY DEF Do
  <2> HIDE DEF it, e
  <2> QED BY ONLY <2>1, <2>2 DEF MainPlace
<1>3. entry' = [entry EXCEPT !["main"] = e] /\ OnLocals("main") /\ UNCHANGED <<word, tries, tmr_before>>
  BY <1>1 DEF SetEntry
<1> HIDE DEF e
<1>4. Step("main") /\ UNCHANGED <<dev, idt, cpuVars, countVars, failed>>
  BY <1>3 DEF OnLocals
<1>5. P \notin Eventful \union FlagAt \union HandleAt \union ResetAt \union Awaits
  BY <1>2, AsidePlaces
<1>6. P + 1 \notin DataAt
  BY <1>2, PlaceKind
<1>7. P \in 1 .. 257
  BY <1>2, MainLength
<1>8. e \in Entries
  <2>1. VectorAt(P + 3) \in Vectors /\ TrigAt(P + 3) \in {EDGE, LEVEL} /\ \h66 \in Vectors
    BY DEF VectorAt, TrigAt, Vectors
  <2> QED BY <1>2, <2>1 DEF NewEntryAt, EntryOf, Entries
<1>9. entry' \in [Contexts -> Entries] /\ entry'["main"] = e
  BY <1>3, <1>8 DEF IoapicInv, Types, Contexts
<1>10. EntryIs(P + 1, e)
  <2>1. P + 1 \notin LoadedAt \union MaskAt \union UnmaskAt
    BY <1>2, <1>7 DEF EntryAt, LoadedAt, MaskAt, UnmaskAt
  <2>2. CASE P = 50
    <3>1. P + 1 = 51 /\ 51 \notin NewAt
      BY <2>2 DEF NewAt
    <3>2. e = EntryOf(\h66, EDGE, FALSE)
      BY <1>2, <2>2 DEF NewEntryAt
    <3> QED BY <2>1, <3>1, <3>2 DEF EntryIs
  <2>3. CASE P # 50
    <3>1. P + 1 \notin {51, 52} /\ P + 1 + 2 = P + 3
      BY <1>2, <1>7, <2>3 DEF EntryAt
    <3>2. e = EntryOf(VectorAt(P + 3), TrigAt(P + 3), FALSE)
      BY <1>2, <2>3 DEF NewEntryAt
    <3> QED BY <2>1, <3>1, <3>2 DEF EntryIs
  <2> QED BY <2>2, <2>3
<1>11. P \notin WordAt /\ P \notin TmrAt \union CallAt
  BY <1>2, <1>7 DEF EntryAt, WordAt, TmrAt, CallAt
<1>12. WordIs(P + 1, word["old"], word["new"], dev.id, dev.arb)
  BY <1>7, <1>11, WordGoes DEF Goes, IoapicInv, LocalInv
<1> QED
  BY <1>2, <1>3, <1>5, <1>6, <1>9, <1>10, <1>11, <1>12, MainOnLocals DEF IoapicInv, Types

\* main changes the mask bit of the entry at hand.
LEMMA MainMask ==
  ASSUME IoapicInv, Caller = 0, Mask("main")
  PROVE  IoapicInv'
<1> DEFINE m == Arg("main")
           e == [entry["main"] EXCEPT !.mask = m]
<1>1. At("main", "mask") /\ SetEntry("main", e)
  BY DEF Mask
<1>2. /\ MayRun /\ P \in 1 .. MainLen
      /\ (P \in MaskTrue /\ m = TRUE) \/ (P \in MaskFalse /\ m = FALSE)
  <2> DEFINE it == Do("mask", m)
  <2>1. MayRun /\ P \in 1 .. MainLen /\ MainPlace(P, it)
    BY <1>1, MainAt DEF IoapicInv
  <2>2. it.op = "mask" /\ it.arg = m
    BY DEF Do
  <2> HIDE DEF it, m
  <2> QED BY ONLY <2>1, <2>2 DEF MainPlace
<1>3. entry' = [entry EXCEPT !["main"] = e] /\ OnLocals("main") /\ UNCHANGED <<word, tries, tmr_before>>
  BY <1>1 DEF SetEntry
<1>4. m \in BOOLEAN
  BY <1>2
<1>5. P \notin Eventful \union FlagAt \union HandleAt \union ResetAt \union Awaits
  BY <1>2, AsidePlaces
<1>6. P + 1 \notin DataAt
  BY <1>2, PlaceKind
<1>7. P \in 1 .. 257
  BY <1>2, MainLength
<1> HIDE DEF m
<1>8. /\ e \in Entries /\ e.vector = entry["main"].vector
      /\ e.trig_mode = entry["main"].trig_mode /\ e.mask = m
  BY <1>4 DEF IoapicInv, Types, Entries, Contexts
<1> HIDE DEF e
<1>9. entry' \in [Contexts -> Entries] /\ entry'["main"] = e
  BY <1>3, <1>8 DEF IoapicInv, Types, Contexts
<1>10. EntryIs(P + 1, e)
  <2>1. P \in LoadedAt /\ P + 1 \notin LoadedAt \union NewAt \union {51, 52}
    BY <1>2, <1>7 DEF MaskTrue, MaskFalse, LoadedAt, NewAt
  <2>2. entry["main"].vector = VectorAt(P) /\ entry["main"].trig_mode = TrigAt(P)
    BY <2>1 DEF IoapicInv, LocalInv, EntryIs
  <2>3. VectorAt(P) = VectorAt(P + 1) /\ TrigAt(P) = TrigAt(P + 1)
    BY <1>2 DEF MaskTrue, MaskFalse, VectorAt, TrigAt, IsLevel
  <2>4. (P + 1 \in MaskAt => P \in MaskTrue) /\ (P + 1 \in UnmaskAt => P \in MaskFalse)
    BY <1>2 DEF MaskTrue, MaskFalse, MaskAt, UnmaskAt
  <2>5. MaskTrue \intersect MaskFalse = {}
    BY DEF MaskTrue, MaskFalse
  <2>6. (P + 1 \in MaskAt => e.mask = TRUE) /\ (P + 1 \in UnmaskAt => e.mask = FALSE)
    BY <1>2, <1>8, <2>4, <2>5
  <2>7. e.vector = VectorAt(P + 1) /\ e.trig_mode = TrigAt(P + 1)
    BY <1>8, <2>2, <2>3
  <2> HIDE DEF LoadedAt, NewAt
  <2> QED BY <2>1, <2>6, <2>7 DEF EntryIs
<1>11. P \notin WordAt /\ P \notin TmrAt \union CallAt
  BY <1>2, <1>7 DEF MaskTrue, MaskFalse, WordAt, TmrAt, CallAt
<1>12. WordIs(P + 1, word["old"], word["new"], dev.id, dev.arb)
  BY <1>7, <1>11, WordGoes DEF Goes, IoapicInv, LocalInv
<1> QED
  BY <1>2, <1>3, <1>5, <1>6, <1>9, <1>10, <1>11, <1>12, MainOnLocals DEF IoapicInv, Types

\* main reads half an entry back.
LEMMA MainLoad ==
  ASSUME IoapicInv, Caller = 0, Load("main")
  PROVE  IoapicInv'
<1> DEFINE e == IF dev.index = Low(Line) THEN dev.redir[Line] ELSE entry["main"]
<1>1. At("main", "load") /\ SetEntry("main", e)
  BY DEF Load
<1>2. MayRun /\ running /\ P \in 1 .. MainLen /\ P \in LoadAt
  BY <1>1, MainAt, ZenonT(40) DEF IoapicInv, MainPlace, Do, MayRun
<1>3. entry' = [entry EXCEPT !["main"] = e] /\ OnLocals("main") /\ UNCHANGED <<word, tries, tmr_before>>
  BY <1>1 DEF SetEntry
<1>5. P \notin Eventful \union FlagAt \union HandleAt \union ResetAt \union Awaits
  BY <1>2, AsidePlaces
<1>7. P \in 1 .. 257
  BY <1>2, MainLength
<1>6. P + 1 \notin DataAt
  BY <1>2, <1>7, PlaceKind DEF DataAt
<1>8. e \in Entries
  BY LineNumbers DEF IoapicInv, Types, Devices, Contexts
<1>4. dev.index = RegAt(P)
  BY <1>2 DEF IoapicInv, Index, DataAt
<1>10. EntryIs(P + 1, e)
  <2>1. P + 1 \in LoadedAt /\ P + 1 \notin MaskAt \union UnmaskAt \union NewAt \union {51, 52}
    BY <1>2, <1>7 DEF LoadAt, LoadLow, LoadedAt, MaskAt, UnmaskAt, NewAt
  <2>2. VectorAt(P) = VectorAt(P + 1) /\ TrigAt(P) = TrigAt(P + 1)
    BY <1>2, <1>7 DEF LoadAt, LoadLow, VectorAt, TrigAt, IsLevel
  <2>3. e.vector = VectorAt(P) /\ e.trig_mode = TrigAt(P)
    <3>1. CASE P \in LoadLow
      <4>1. dev.index = Low(Line)
        BY <1>4, <3>1 DEF RegAt, LoadLow, LowAt
      <4>2. P >= 30
        BY <3>1 DEF LoadLow
      <4> QED BY <4>1, <4>2 DEF IoapicInv, DeviceInv, RedirIs
    <3>2. CASE P \notin LoadLow
      <4>1. P \in LoadedAt /\ P \notin LowAt
        BY <1>2, <1>7, <3>2 DEF LoadAt, LoadLow, LoadedAt, LowAt, StoreLow, SetupAt, RemaskAt
      <4>2. P > 54
        BY <4>1 DEF LoadedAt
      <4>3. dev.index = High(Line)
        BY <1>4, <1>7, <4>1, <4>2 DEF RegAt
      <4>4. dev.index # Low(Line)
        BY <4>3 DEF High, Low, Line
      <4> QED BY <4>1, <4>4 DEF IoapicInv, LocalInv, EntryIs
    <3> QED BY <3>1, <3>2
  <2> HIDE DEF e
  <2> QED BY <2>1, <2>2, <2>3 DEF EntryIs
<1> HIDE DEF e
<1>9. entry' \in [Contexts -> Entries] /\ entry'["main"] = e
  BY <1>3, <1>8 DEF IoapicInv, Types, Contexts
<1>11. P \notin WordAt /\ P \notin TmrAt \union CallAt
  BY <1>2, <1>7 DEF LoadAt, LoadLow, WordAt, TmrAt, CallAt
<1>12. WordIs(P + 1, word["old"], word["new"], dev.id, dev.arb)
  BY <1>7, <1>11, WordGoes DEF Goes, IoapicInv, LocalInv
<1> QED
  BY <1>2, <1>3, <1>5, <1>6, <1>9, <1>10, <1>11, <1>12, MainOnLocals DEF IoapicInv, Types

\* main reads one of the IOAPIC's words.
LEMMA MainReadWord ==
  ASSUME IoapicInv, Caller = 0, ReadWordInto("main")
  PROVE  IoapicInv'
<1> DEFINE w == ReadWord(dev)
<1>1. /\ OnLocals("main") /\ UNCHANGED <<entry, tries, tmr_before>>
      /\ \/ At("main", "old") /\ word' = [word EXCEPT !["old"] = w]
         \/ At("main", "new") /\ word' = [word EXCEPT !["new"] = w]
  BY DEF ReadWordInto
<1>2. /\ MayRun /\ running /\ P \in 1 .. MainLen
      /\ \/ P \in {3, 10} /\ word' = [word EXCEPT !["old"] = w]
         \/ P \in {7, 14, 19, 24} /\ word' = [word EXCEPT !["new"] = w]
  <2>1. At("main", "old") => MayRun /\ P \in 1 .. MainLen /\ P \in {3, 10}
    BY MainAt, ZenonT(40) DEF IoapicInv, MainPlace, Do
  <2>2. At("main", "new") => MayRun /\ P \in 1 .. MainLen /\ P \in {7, 14, 19, 24}
    BY MainAt, ZenonT(40) DEF IoapicInv, MainPlace, Do
  <2> QED BY <1>1, <2>1, <2>2 DEF MayRun
<1>3. P \in WordAt
  BY <1>2 DEF WordAt
<1>4. P \notin Eventful \union FlagAt \union HandleAt \union ResetAt \union Awaits
  BY <1>3, AsidePlaces
<1>5. P + 1 \notin DataAt /\ P + 1 \notin EntryAt
  BY <1>2, <1>3, PlaceKind DEF DataAt, EntryAt
<1>6. dev.index = IF P \in {3, 7} THEN 1 ELSE IF P \in {10, 14} THEN 0 ELSE 2
  BY <1>2, <1>3 DEF IoapicInv, Index, DataAt, RegAt
<1>7. w = WordOf(IF P \in {3, 7} THEN 0 ELSE IF P \in {10, 14} THEN dev.id ELSE dev.arb)
  <2>1. w = WordOf(IF dev.index = 0 THEN dev.id ELSE IF dev.index = 2 THEN dev.arb ELSE 0)
    BY DEF ReadWord, WordOf
  <2>2. \/ dev.index = 1 /\ P \in {3, 7}
        \/ dev.index = 0 /\ P \in {10, 14} /\ P \notin {3, 7}
        \/ dev.index = 2 /\ P \notin {3, 7, 10, 14}
    BY <1>2, <1>6
  <2> HIDE DEF w
  <2> QED BY <2>1, <2>2
<1>8. w \in Words
  BY <1>7 DEF WordOf, Words, IoapicInv, Types, Devices
<1> HIDE DEF w
<1>9. /\ word' \in [{"old", "new"} -> Words]
      /\ word'["old"] = (IF P \in {3, 10} THEN w ELSE word["old"])
      /\ word'["new"] = (IF P \in {3, 10} THEN word["new"] ELSE w)
  BY <1>2, <1>8 DEF IoapicInv, Types
<1>10. WordIs(P, word["old"], word["new"], dev.id, dev.arb)
  BY DEF IoapicInv, LocalInv
<1>11. WordIs(P + 1, word'["old"], word'["new"], dev.id, dev.arb)
  <2>1. CASE P = 3
    BY <1>7, <1>9, <2>1 DEF WordIs
  <2>2. CASE P = 7
    BY <1>7, <1>9, <1>10, <2>2 DEF WordIs
  <2>3. CASE P = 10
    BY <1>7, <1>9, <2>3 DEF WordIs
  <2>4. CASE P = 14
    <3>1. w.id = dev.id /\ w.other = FALSE
      BY <1>7, <2>4 DEF WordOf
    <3>2. word["old"] = WordOf(15 - dev.id)
      BY <1>10, <2>4 DEF WordIs
    <3> QED BY <1>9, <2>4, <3>1, <3>2 DEF WordIs
  <2>5. CASE P \in {19, 24}
    <3>1. dev.arb = 15
      BY <1>10, <2>5 DEF WordIs
    <3>2. w = WordOf(15)
      BY <1>7, <2>5, <3>1
    <3> QED BY <1>9, <2>5, <3>1, <3>2 DEF WordIs
  <2> QED BY <1>2, <2>1, <2>2, <2>3, <2>4, <2>5
<1>12. EntryIs(P + 1, entry["main"])
  <2>1. P + 1 \notin NewAt \union {51, 52} \union LoadedAt \union MaskAt \union UnmaskAt
    BY <1>2 DEF NewAt, LoadedAt, MaskAt, UnmaskAt
  <2> QED BY <2>1 DEF EntryIs
<1>13. P \notin TmrAt \union CallAt
  BY <1>2 DEF TmrAt, CallAt
<1> QED
  BY <1>1, <1>2, <1>4, <1>5, <1>9, <1>11, <1>12, <1>13, MainOnLocals DEF IoapicInv, Types

\* main reads the trigger mode register.
LEMMA MainReadTmr ==
  ASSUME IoapicInv, Caller = 0, ReadTmr("main")
  PROVE  IoapicInv'
<1> DEFINE bit == IF \h79 \in dev.tmr THEN 1 ELSE 0
<1>1. /\ At("main", "tmr") /\ OnCounters("main") /\ UNCHANGED <<g, g_rip, g_66_after_78>>
      /\ tmr_before' = bit /\ g_tmr_79' = g_tmr_79
  BY DEF ReadTmr
<1>2. MayRun /\ P \in 1 .. MainLen /\ P \in TmrAt
  BY <1>1, MainAt, ZenonT(40) DEF IoapicInv, MainPlace, Do
<1>3. Step("main") /\ UNCHANGED <<dev, idt, cpuVars, entry, word, tries, failed>>
  BY <1>1 DEF OnCounters
<1>4. P \notin Eventful \union FlagAt \union HandleAt \union ResetAt \union Awaits
  BY <1>2, AsidePlaces
<1>5. P + 1 \notin DataAt
  BY <1>2, PlaceKind
<1>6. P \notin EntryAt \union LoadAt \union MaskTrue \union MaskFalse \union WordAt
  BY <1>2 DEF TmrAt, EntryAt, LoadAt, LoadLow, MaskTrue, MaskFalse, WordAt
<1>7. vec = 0 /\ (P \notin Off => dev.irr = {}) /\ P \notin LineAt
  BY <1>2, <1>4, MainRuns DEF Eventful
<1>8. P' = P + 1 /\ K' = K /\ Goes(P, P')
  BY <1>2, <1>3, MainStepEffect
<1>9. LocalInv'
  BY <1>3, <1>6, <1>7, <1>8, SameLocals DEF LocalInv, cpuVars
<1>10. ASSUME First PROVE TmrInv' /\ failed' = {}
  <2>1. Tmr(P, K, 0, dev.irr, dev.tmr, tmr_before, g_tmr_79) /\ failed = {}
    BY <1>7, <1>10 DEF IoapicInv, FirstInv, TmrInv
  <2>2. Tmr(P + 1, K, 0, dev.irr, dev.tmr, bit, g_tmr_79)
    BY <1>2, <2>1 DEF TmrAt, Tmr
  <2> QED BY <1>1, <1>3, <1>7, <1>8, <2>1, <2>2 DEF TmrInv, cpuVars
<1>11. ~Called /\ bit \in {0, 1}
  BY <1>4, NotCalled
<1> HIDE DEF bit
<1> QED
  BY <1>1, <1>2, <1>3, <1>4, <1>5, <1>8, <1>9, <1>10, <1>11, MainAside
     DEF IoapicInv, Types, cpuVars

\* main resets what the handler of 0x79 reports.
LEMMA MainReset ==
  ASSUME IoapicInv, Caller = 0, Reset("main")
  PROVE  IoapicInv'
<1>1. /\ At("main", "reset") /\ OnCounters("main")
      /\ UNCHANGED <<g, g_rip, g_66_after_78, tmr_before>> /\ g_tmr_79' = -1
  BY DEF Reset
<1>2. MayRun /\ P \in 1 .. MainLen /\ P \in ResetAt
  BY <1>1, MainAt, ZenonT(40) DEF IoapicInv, MainPlace, Do
<1>3. Step("main") /\ UNCHANGED <<dev, idt, cpuVars, entry, word, tries, failed>>
  BY <1>1 DEF OnCounters
<1>4. P \notin Eventful \union FlagAt \union HandleAt \union Awaits
  BY <1>2, AsidePlaces
<1>5. P + 1 \notin DataAt
  BY <1>2, PlaceKind
<1>6. P \notin EntryAt \union LoadAt \union MaskTrue \union MaskFalse \union WordAt
  BY <1>2 DEF ResetAt, EntryAt, LoadAt, LoadLow, MaskTrue, MaskFalse, WordAt
<1>7. vec = 0 /\ (P \notin Off => dev.irr = {}) /\ P \notin LineAt
  BY <1>2, <1>4, MainRuns DEF Eventful
<1>8. P' = P + 1 /\ K' = K /\ Goes(P, P')
  BY <1>2, <1>3, MainStepEffect
<1>9. LocalInv'
  BY <1>3, <1>6, <1>7, <1>8, SameLocals DEF LocalInv, cpuVars
<1>10. ASSUME First PROVE TmrInv' /\ failed' = {}
  <2>1. Tmr(P, K, 0, dev.irr, dev.tmr, tmr_before, g_tmr_79) /\ failed = {}
    BY <1>7, <1>10 DEF IoapicInv, FirstInv, TmrInv
  <2>2. Tmr(P + 1, K, 0, dev.irr, dev.tmr, tmr_before, -1)
    BY <1>2, <2>1 DEF ResetAt, Tmr
  <2> QED BY <1>1, <1>3, <1>7, <1>8, <2>1, <2>2 DEF TmrInv, cpuVars
<1>11. ~Called
  BY <1>4, NotCalled
<1> QED
  BY <1>1, <1>2, <1>3, <1>4, <1>5, <1>8, <1>9, <1>10, <1>11, MainAside
     DEF IoapicInv, Types, cpuVars

\* main waits until vCPU 1 has run what it was asked to.
LEMMA MainAwait ==
  ASSUME IoapicInv, Caller = 0, Await("main")
  PROVE  IoapicInv'
<1>1. At("main", "await") /\ g_tmr_79 # -1 /\ Step("main")
        /\ UNCHANGED <<dev, idt, cpuVars, localVars, countVars, failed>>
  BY DEF Await
<1>2. MayRun /\ P \in 1 .. MainLen /\ P \in Awaits
  BY <1>1, MainAt, ZenonT(40) DEF IoapicInv, MainPlace, Do
<1>4. P \notin Eventful \union FlagAt \union HandleAt \union ResetAt
  BY <1>2, AsidePlaces
<1>5. P + 1 \notin DataAt
  BY <1>2, PlaceKind
<1>6. P \notin EntryAt \union LoadAt \union MaskTrue \union MaskFalse \union WordAt
  BY <1>2 DEF Awaits, EntryAt, LoadAt, LoadLow, MaskTrue, MaskFalse, WordAt
<1>7. vec = 0 /\ dev.irr = {} /\ P \notin LineAt
  BY <1>2, <1>4, MainRuns DEF Eventful, Awaits, Off
<1>8. P' = P + 1 /\ K' = K /\ Goes(P, P')
  BY <1>1, <1>2, MainStepEffect
<1>9. LocalInv'
  BY <1>1, <1>6, <1>7, <1>8, SameLocals DEF LocalInv, cpuVars, localVars
<1>10. ASSUME First PROVE TmrInv' /\ failed' = {}
  <2>1. Tmr(P, K, 0, {}, dev.tmr, tmr_before, g_tmr_79) /\ failed = {}
    BY <1>7, <1>10 DEF IoapicInv, FirstInv, TmrInv
  <2>2. Tmr(P + 1, K, 0, {}, dev.tmr, tmr_before, g_tmr_79)
    BY <1>1, <1>2, <2>1 DEF Awaits, Tmr
  <2> QED BY <1>1, <1>7, <1>8, <2>1, <2>2 DEF TmrInv, cpuVars, localVars, countVars
<1>11. ~Called
  BY <1>1 DEF IoapicInv, Helper
<1> QED
  BY <1>1, <1>2, <1>4, <1>5, <1>8, <1>9, <1>10, <1>11, MainAside
     DEF IoapicInv, Types, cpuVars, localVars, countVars

\* main installs a handler.
LEMMA MainInstallHandler ==
  ASSUME IoapicInv, Caller = 0, InstallHandler("main")
  PROVE  IoapicInv'
<1>1. At("main", "handle") /\ idt' = idt \union {Arg("main")} /\ Step("main")
        /\ UNCHANGED <<dev, cpuVars, localVars, countVars, failed>>
  BY DEF InstallHandler
<1>2. MayRun /\ P \in 1 .. MainLen /\ P \in HandleAt /\ Arg("main") = HandlerAt(P)
  BY <1>1, MainAt, ZenonT(40) DEF IoapicInv, MainPlace, Do
<1>3. HandlerAt(P) \in Vectors
  BY DEF HandlerAt, Vectors
<1>4. P \notin Eventful \union FlagAt \union ResetAt \union Awaits
  BY <1>2, AsidePlaces
<1>5. P + 1 \notin DataAt
  BY <1>2, PlaceKind
<1>6. P \notin EntryAt \union LoadAt \union MaskTrue \union MaskFalse \union WordAt \union TmrAt
               \union CallAt
  BY <1>2 DEF HandleAt, EntryAt, LoadAt, LoadLow, MaskTrue, MaskFalse, WordAt, TmrAt, CallAt
<1>7. vec = 0 /\ (P \notin Off => dev.irr = {}) /\ P \notin LineAt
  BY <1>2, <1>4, MainRuns DEF Eventful
<1>8. P' = P + 1 /\ K' = K /\ Goes(P, P')
  BY <1>1, <1>2, MainStepEffect
<1>9. LocalInv' /\ (First => TmrInv' /\ failed' = {})
  BY <1>1, <1>4, <1>6, <1>7, <1>8, SameLocals
     DEF LocalInv, IoapicInv, FirstInv, cpuVars, localVars, countVars
<1>11. ~Called
  BY <1>4, NotCalled
<1> QED
  BY <1>1, <1>2, <1>3, <1>4, <1>5, <1>8, <1>9, <1>11, MainAside
     DEF IoapicInv, Types, cpuVars, localVars, countVars

\* A report: in the first ioctl the tables hold what it asks for.
LEMMA ReportHolds ==
  ASSUME IoapicInv, First, vec = 0, P \notin Off => dev.irr = {},
         NEW t, NEW n, Reports(P, <<t, n>>)
  PROVE  Holds(t, n)
<1>1. WordIs(P, word["old"], word["new"], dev.id, dev.arb) /\ dev.id \in 0 .. 15 /\ word["new"] \in Words
  BY DEF IoapicInv, LocalInv, Types, Devices
<1>2. /\ Counts(P, K, 0, dev.irr, g) /\ Retrigger(P, K, 0, dev.irr, dev.high, g[\h9a])
      /\ Simultaneous(P, K, 0, dev.irr, g_rip, g_66_after_78)
      /\ Tmr(P, K, 0, dev.irr, dev.tmr, tmr_before, g_tmr_79)
  BY DEF IoapicInv, FirstInv, CountInv, TmrInv
<1>3. P \notin Off => \A x \in Vectors \ {\h9a, \h79} : g[x] = RunsAt(x, P)
  BY <1>2 DEF Counts, Ahead, Vectors
<1>4. ASSUME P = 8 PROVE Holds("version", 1)
  <2>1. word["new"] = word["old"]
    BY <1>1, <1>4 DEF WordIs
  <2> QED BY <2>1 DEF Holds
<1>5. ASSUME P = 15 PROVE Holds("id", 1)
  <2>1. word["old"] = WordOf(15 - word["new"].id) /\ word["new"].other = FALSE
    BY <1>1, <1>5 DEF WordIs
  <2>2. word["new"] = [word["old"] EXCEPT !.id = 15 - word["old"].id]
    <3>1. word["old"] \in Words /\ word["new"] \in Words
      BY DEF IoapicInv, Types
    <3>2. word["new"].id \in 0 .. 15
      BY <3>1 DEF Words
    <3>3. word["old"].id = 15 - word["new"].id /\ word["old"].other = FALSE
      BY <2>1 DEF WordOf
    <3>4. word["new"].id = 15 - word["old"].id
      BY <3>2, <3>3
    <3> QED BY <2>1, <3>1, <3>3, <3>4 DEF Words
  <2> QED BY <2>2 DEF Holds
<1>6. ASSUME P \in {20, 25} PROVE Holds("arbitration", 1)
  <2>1. word["new"] = [id |-> 15, other |-> FALSE]
    BY <1>1, <1>6 DEF WordIs, WordOf
  <2> QED BY <2>1 DEF Holds
<1>7. ASSUME P = 34 PROVE Holds("edge_intr", 1)
  <2>1. g[\h76] = 1
    BY <1>3, <1>7 DEF Off, RunsAt, Vectors
  <2> QED BY <2>1 DEF Holds
<1>8. ASSUME P = 42 PROVE Holds("level_intr", 1)
  <2>1. g[\h77] = 1
    BY <1>3, <1>8 DEF Off, RunsAt, Vectors
  <2> QED BY <2>1 DEF Holds
<1>9. ASSUME P = 69 PROVE Holds("coalesce", 1)
  <2>1. g[\h98] = 1
    BY <1>3, <1>9 DEF Off, RunsAt, Vectors
  <2> QED BY <2>1 DEF Holds
<1>10. ASSUME P = 78 PROVE Holds("sequential", 1)
  <2>1. g[\h99] = 2
    BY <1>3, <1>10 DEF Off, RunsAt, Vectors
  <2> QED BY <2>1 DEF Holds
<1>11. ASSUME P = 110 PROVE Holds("edge_mask", 0)
  <2>1. g[\h81] = 0
    BY <1>3, <1>11 DEF Off, RunsAt, Vectors
  <2> QED BY <2>1 DEF Holds
<1>12. ASSUME P = 121 PROVE Holds("edge_mask", 1)
  <2>1. g[\h81] = 1
    BY <1>3, <1>12 DEF Off, RunsAt, Vectors
  <2> QED BY <2>1 DEF Holds
<1>13. ASSUME P = 138 PROVE Holds("level_mask", 0)
  <2>1. g[\h82] = 0
    BY <1>3, <1>13 DEF Off, RunsAt, Vectors
  <2> QED BY <2>1 DEF Holds
<1>14. ASSUME P = 148 PROVE Holds("level_mask", 1)
  <2>1. g[\h82] = 1
    BY <1>3, <1>14 DEF Off, RunsAt, Vectors
  <2> QED BY <2>1 DEF Holds
<1>15. ASSUME P = 165 PROVE Holds("retrigger_mask", 1)
  <2>1. g[\h83] = 2
    BY <1>3, <1>15 DEF Off, RunsAt, Vectors
  <2> QED BY <2>1 DEF Holds
<1>16. ASSUME P = 61 PROVE Holds("simultaneous", 1)
  <2>1. P \notin Off
    BY <1>16 DEF Off
  <2>2. g[\h66] = 1 /\ g[\h78] = 1
    BY <1>3, <1>16, <2>1 DEF RunsAt, Vectors
  <2>3. g_66_after_78 > 0 /\ g_rip[\h66] = g_rip[\h78]
    BY <1>2, <1>16, <2>1 DEF Simultaneous, Ahead
  <2>4. g[\h66] > 0 /\ g[\h78] > 0
    BY <2>2
  <2> QED BY <2>3, <2>4 DEF Holds
<1>17. ASSUME P = 92 PROVE Holds("retrigger", 1)
  <2>1. g[\h9a] = 2
    BY <1>2, <1>17 DEF Retrigger, Off
  <2> QED BY <2>1 DEF Holds
<1>18. ASSUME P \in {185, 224} PROVE Holds("edge_tmr", 0)
  <2>1. tmr_before = 0 /\ g_tmr_79 = 0
    BY <1>2, <1>18 DEF Tmr, Off
  <2> QED BY <2>1 DEF Holds
<1>19. ASSUME P \in {213, 257} PROVE Holds("edge_tmr", 1)
  <2>1. tmr_before = 1 /\ g_tmr_79 = 0
    BY <1>2, <1>19 DEF Tmr, Off
  <2> QED BY <2>1 DEF Holds
<1>20. ASSUME P \in {194, 235} PROVE Holds("level_tmr", 0)
  <2>1. tmr_before = 0 /\ g_tmr_79 # 0
    BY <1>2, <1>20 DEF Tmr, Off
  <2> QED BY <2>1 DEF Holds
<1>21. ASSUME P \in {203, 246} PROVE Holds("level_tmr", 1)
  <2>1. tmr_before = 1 /\ g_tmr_79 # 0
    BY <1>2, <1>21 DEF Tmr, Off
  <2> QED BY <2>1 DEF Holds
<1> HIDE DEF P
<1> QED
  BY <1>4, <1>5, <1>6, <1>7, <1>8, <1>9, <1>10, <1>11, <1>12, <1>13, <1>14, <1>15, <1>16, <1>17, <1>18, <1>19, <1>20, <1>21 DEF Reports

\* main reports on a test.
LEMMA MainSay ==
  ASSUME IoapicInv, Caller = 0, Say("main")
  PROVE  IoapicInv'
<1> DEFINE a == Arg("main")
<1>1. /\ At("main", "report") /\ Step("main")
      /\ failed' = IF Holds(a[1], a[2]) THEN failed ELSE failed \union {a}
      /\ UNCHANGED <<dev, idt, cpuVars, localVars, countVars>>
  BY DEF Say
<1>2. MayRun /\ P \in 1 .. MainLen /\ Reports(P, a)
  BY <1>1, MainAt, ZenonT(40) DEF IoapicInv, MainPlace, Do
<1> HIDE DEF a
<1>3. P \in {8, 15, 20, 25, 34, 42, 61, 69, 78, 92, 110, 121, 138,
             148, 165, 185, 224, 213, 257, 194, 235, 203, 246}
  BY <1>2, Zenon DEF Reports
<1>4. P \notin Eventful \union FlagAt \union HandleAt \union ResetAt \union Awaits
  BY <1>3 DEF Eventful, LineAt, LineUp, LineDown, StoreLow, SetupAt, RemaskAt, FlagAt, HandleAt,
              ResetAt, Awaits
<1>5. P + 1 \notin DataAt
  BY <1>2, PlaceKind
<1>6. P \notin EntryAt \union LoadAt \union MaskTrue \union MaskFalse \union WordAt \union TmrAt
               \union CallAt
  BY <1>3 DEF EntryAt, LoadAt, LoadLow, MaskTrue, MaskFalse, WordAt, TmrAt, CallAt
<1>7. vec = 0 /\ (P \notin Off => dev.irr = {}) /\ P \notin LineAt
  BY <1>2, <1>4, MainRuns DEF Eventful
<1>8. P' = P + 1 /\ K' = K /\ Goes(P, P')
  BY <1>1, <1>2, MainStepEffect
<1>9. LocalInv' /\ (First => TmrInv')
  BY <1>1, <1>4, <1>6, <1>7, <1>8, SameLocals
     DEF LocalInv, cpuVars, localVars, countVars
<1>10. ASSUME First PROVE failed' = {}
  <2>1. a = <<a[1], a[2]>>
    BY <1>2 DEF Reports
  <2>2. Reports(P, <<a[1], a[2]>>)
    BY <1>2, <2>1
  <2>3. Holds(a[1], a[2])
    BY <1>7, <1>10, <2>2, ReportHolds
  <2> QED BY <1>1, <1>10, <2>3 DEF IoapicInv, FirstInv
<1>11. ~Called
  BY <1>4, NotCalled
<1> QED
  BY <1>1, <1>2, <1>4, <1>5, <1>8, <1>9, <1>10, <1>11, MainAside
     DEF IoapicInv, Types, cpuVars, localVars, countVars

\* main writes the id register.
LEMMA MainWriteWord ==
  ASSUME IoapicInv, Caller = 0, WriteWord("main")
  PROVE  IoapicInv'
<1>1. PICK w \in Words :
        /\ OnDevice("main", WriteData(dev, w))
        /\ \/ At("main", "flip") /\ w = Complement(word["old"])
           \/ At("main", "ones") /\ w = [id |-> 15, other |-> FALSE]
           \/ At("main", "zero") /\ w = [id |-> 0, other |-> FALSE]
  <2>1. word["old"] \in Words
    BY DEF IoapicInv, Types
  <2>2. Complement(word["old"]) \in Words
    BY <2>1 DEF Complement, Words
  <2>3. [id |-> 15, other |-> FALSE] \in Words /\ [id |-> 0, other |-> FALSE] \in Words
    BY DEF Words
  <2> QED BY <2>2, <2>3 DEF WriteWord
<1>2. /\ MayRun /\ running /\ P \in 1 .. MainLen
      /\ \/ P \in {5, 12} /\ w = Complement(word["old"])
         \/ P = 17 /\ w = [id |-> 15, other |-> FALSE]
         \/ P = 22
  <2>1. At("main", "flip") => MayRun /\ P \in 1 .. MainLen /\ P \in {5, 12}
    BY MainAt, ZenonT(40) DEF IoapicInv, MainPlace, Do
  <2>2. At("main", "ones") => MayRun /\ P \in 1 .. MainLen /\ P = 17
    BY MainAt, ZenonT(40) DEF IoapicInv, MainPlace, Do
  <2>3. At("main", "zero") => MayRun /\ P \in 1 .. MainLen /\ P = 22
    BY MainAt, ZenonT(40) DEF IoapicInv, MainPlace, Do
  <2> QED BY <1>1, <2>1, <2>2, <2>3 DEF MayRun
<1>3. P \in WordAt
  BY <1>2 DEF WordAt
<1>4. P \notin Eventful \union FlagAt \union HandleAt \union ResetAt \union Awaits
  BY <1>3, AsidePlaces
<1>5. P + 1 \notin DataAt
  BY <1>2, <1>3, PlaceKind DEF DataAt
<1>6. dev.index = IF P = 5 THEN 1 ELSE IF P \in {12, 17} THEN 0 ELSE 2
  BY <1>2, <1>3 DEF IoapicInv, Index, DataAt, RegAt
<1>7. dev' = WriteData(dev, w) /\ Step("main")
        /\ UNCHANGED <<idt, cpuVars, localVars, countVars, failed>>
  BY <1>1 DEF OnDevice
<1>8. dev \in Devices /\ w.id \in 0 .. 15 /\ w = [id |-> w.id, other |-> w.other]
  BY DEF IoapicInv, Types, Words
<1>9. /\ dev' \in Devices
      /\ dev'.irr = dev.irr /\ dev'.isr = dev.isr /\ dev'.remote_irr = dev.remote_irr
      /\ dev'.tmr = dev.tmr /\ dev'.high = dev.high /\ dev'.redir = dev.redir
      /\ P \in {5, 22} => dev'.id = dev.id /\ dev'.arb = dev.arb
      /\ P \in {12, 17} => dev'.id = w.id /\ dev'.arb = w.id
  <2>1. CASE P \in {5, 22}
    <3>1. dev' = dev
      BY <1>2, <1>6, <1>7, <1>8, <2>1, WriteIgnored
    <3>2. P \notin {12, 17}
      BY <2>1
    <3> QED BY <1>8, <3>1, <3>2
  <2>2. CASE P \in {12, 17}
    <3>1. dev.index = 0
      BY <1>6, <2>2
    <3>2. dev' = WriteData(dev, [id |-> w.id, other |-> w.other])
      BY <1>7, <1>8
    <3>3. P \notin {5, 22}
      BY <2>2
    <3> QED BY <1>8, <3>1, <3>2, <3>3, WriteId
  <2> QED BY <1>2, <2>1, <2>2
<1>10. P \notin EntryAt \union LoadAt \union MaskTrue \union MaskFalse \union TmrAt \union CallAt
  BY <1>2 DEF EntryAt, LoadAt, LoadLow, MaskTrue, MaskFalse, TmrAt, CallAt
<1>11. vec = 0 /\ (P \notin Off => dev.irr = {}) /\ P \notin LineAt
  BY <1>2, <1>4, MainRuns DEF Eventful
<1>12. P' = P + 1 /\ K' = K /\ Goes(P, P')
  BY <1>2, <1>7, MainStepEffect
<1>13. WordIs(P + 1, word["old"], word["new"], dev'.id, dev'.arb)
  <2>1. WordIs(P, word["old"], word["new"], dev.id, dev.arb)
    BY DEF IoapicInv, LocalInv
  <2>2. CASE P \in {5, 22}
    BY <1>9, <2>1, <2>2 DEF WordIs
  <2>3. CASE P = 12
    <3>1. word["old"] = [id |-> dev.id, other |-> FALSE] /\ dev.id \in 0 .. 15
      BY <1>8, <2>1, <2>3 DEF WordIs, WordOf, Devices
    <3>2. w.id = 15 - dev.id
      BY <1>2, <2>3, <3>1 DEF Complement
    <3>3. dev'.id = 15 - dev.id /\ 15 - (15 - dev.id) = dev.id
      BY <1>9, <2>3, <3>1, <3>2
    <3>4. word["old"] = WordOf(15 - dev'.id)
      BY <3>1, <3>3 DEF WordOf
    <3> QED BY <2>3, <3>4 DEF WordIs
  <2>4. CASE P = 17
    <3>1. dev'.arb = 15
      BY <1>2, <1>9, <2>4
    <3> QED BY <2>4, <3>1 DEF WordIs
  <2> QED BY <1>2, <2>2, <2>3, <2>4
<1>14. LocalInv' /\ (First => TmrInv' /\ failed' = {})
  BY <1>4, <1>7, <1>9, <1>10, <1>11, <1>12, <1>13, SameLocals
     DEF LocalInv, IoapicInv, FirstInv, cpuVars, localVars, countVars
<1>15. ~Called
  BY <1>4, NotCalled
<1> QED
  BY <1>2, <1>4, <1>5, <1>7, <1>9, <1>12, <1>14, <1>15, MainAside
     DEF IoapicInv, Types, cpuVars, localVars, countVars

\* Main stores a high half, which the model leaves alone: dest_id.
LEMMA MainStoreHigh ==
  ASSUME IoapicInv, Caller = 0, Store("main"), P \notin StoreLow \union {52}
  PROVE  IoapicInv'
<1>1. At("main", "store") /\ OnDevice("main", WriteData(dev, entry["main"]))
  BY DEF Store
<1>2. MayRun /\ running /\ P \in 1 .. MainLen /\ P \in StoreAt
  BY <1>1, MainAt, ZenonT(40) DEF IoapicInv, MainPlace, Do, MayRun
<1>3. P \in 1 .. 257
  BY <1>2, MainLength
<1>4. P >= 31 /\ P \notin LowAt /\ (P <= 54 => P \in {31, 40, 49, 54})
  BY <1>2, <1>3 DEF StoreAt, StoreLow, SetupAt, RemaskAt, LowAt, LoadLow
<1>5. dev.index = IF P = 54 THEN 47 ELSE 45
  BY <1>2, <1>4, <1>3 DEF IoapicInv, Index, DataAt, RegAt, High, Line
<1>6. dev' = dev /\ Step("main") /\ UNCHANGED <<idt, cpuVars, localVars, countVars, failed>>
  BY <1>1, <1>5, WriteIgnored DEF OnDevice, IoapicInv, Types
<1>7. P + 1 \notin DataAt
  BY <1>2, <1>3, PlaceKind DEF DataAt
<1>8. P \notin Eventful \union FlagAt \union HandleAt \union ResetAt \union Awaits
  BY <1>2, <1>3 DEF StoreAt, Eventful, LineAt, LineUp, LineDown, StoreLow, SetupAt, RemaskAt,
                    FlagAt, HandleAt, ResetAt, Awaits
<1>9. P \notin EntryAt \union LoadAt \union MaskTrue \union MaskFalse \union WordAt \union TmrAt
               \union CallAt
  BY <1>2, <1>3 DEF StoreAt, StoreLow, SetupAt, RemaskAt, EntryAt, LoadAt, LoadLow, MaskTrue,
                    MaskFalse, WordAt, TmrAt, CallAt
<1>10. vec = 0 /\ (P \notin Off => dev.irr = {}) /\ P \notin LineAt
  BY <1>2, <1>8, MainRuns DEF Eventful
<1>11. P' = P + 1 /\ K' = K /\ Goes(P, P')
  BY <1>2, <1>6, MainStepEffect
<1>12. LocalInv' /\ (First => TmrInv' /\ failed' = {})
  BY <1>6, <1>8, <1>9, <1>10, <1>11, SameLocals
     DEF LocalInv, IoapicInv, FirstInv, cpuVars, localVars, countVars
<1>13. ~Called
  BY <1>8, NotCalled
<1> QED
  BY <1>2, <1>6, <1>7, <1>8, <1>11, <1>12, <1>13, MainAside
     DEF IoapicInv, Types, cpuVars, localVars, countVars

-----------------------------------------------------------------------------
(***************************************************************************)
(* Main raises and lowers lines.                                           *)
(***************************************************************************)
LineOf(p)  == IF p \in {56, 57} THEN \h0f ELSE Line
AskedAt(p) == IF p = 56 THEN \h66 ELSE VectorAt(p)
UpAt       == LineUp \union {56}
DownAt     == LineDown \union {57}
MaskedUp   == {108, 137}

\* A line is raised: what main meets there.
LEMMA UpBefore ==
  ASSUME IoapicInv, Caller = 0, MayRun, P \in UpAt
  PROVE  /\ vec = 0 /\ dev.isr = {} /\ dev.high = {} /\ dev.remote_irr = {}
         /\ P # 58 => dev.irr = {}
         /\ dev.irr \subseteq {\h66} /\ (\h66 \in dev.irr => \h66 \notin dev.tmr)
<1>1. vec = 0 /\ dev.isr = {} /\ (P \notin Off => dev.irr = {})
  BY MainRuns
<1>2. Irq(P, K, 0, dev.irr, dev.isr, dev.remote_irr, dev.tmr) /\ LineIs(P, K, 0, dev.irr, dev.high)
  BY <1>1 DEF IoapicInv, DeviceInv
<1>3. P # 58 => dev.irr = {}
  <2>1. P \in {56, 86} => Requests(P) = {}
    BY DEF Requests, Raised
  <2>2. P \notin {56, 58, 86} => P \notin Off
    BY DEF UpAt, LineUp, Off
  <2> QED BY <1>1, <1>2, <2>1, <2>2 DEF Irq
<1>4. dev.irr \subseteq {\h66}
  <2>1. Requests(58) = {\h66}
    BY DEF Requests
  <2> QED BY <1>2, <1>3, <2>1 DEF Irq
<1>5. ~IsLevel(58)
  BY DEF IsLevel
<1>6. (\h66 \in dev.irr => \h66 \notin dev.tmr) /\ dev.remote_irr = {}
  <2>1. CASE P = 58
    BY <1>2, <1>5, <2>1 DEF Irq
  <2>2. CASE P # 58
    BY <1>1, <1>2, <1>3, <2>2 DEF Irq
  <2> QED BY <2>1, <2>2
<1>7. dev.high = {}
  <2>1. P # 57 /\ (P = 77 \/ P \notin MayBeHigh)
    BY DEF UpAt, LineUp, MayBeHigh
  <2>2. 77 \in MustLower
    BY DEF MustLower
  <2> QED BY <1>2, <1>3, <2>1, <2>2 DEF LineIs
<1> QED BY <1>1, <1>3, <1>4, <1>6, <1>7

\* What the device makes of it.
LEMMA UpAfter ==
  ASSUME IoapicInv, Caller = 0, MayRun, P \in UpAt
  PROVE  LET e == SetLine(dev, LineOf(P), 1) IN
         /\ e \in Devices /\ SameCore(dev, e) /\ e.high = {LineOf(P)}
         /\ P \in MaskedUp => e.irr = {} /\ e.tmr = dev.tmr /\ e.remote_irr = {}
         /\ P \notin MaskedUp =>
              /\ e.irr = dev.irr \union {AskedAt(P)}
              /\ IsLevel(P) => e.tmr = dev.tmr \union {AskedAt(P)} /\ e.remote_irr = {Line}
              /\ ~IsLevel(P) => e.tmr = dev.tmr \ {AskedAt(P)} /\ e.remote_irr = {}
<1> DEFINE l == LineOf(P)
           v == AskedAt(P)
           e == SetLine(dev, l, 1)
<1>1. dev \in Devices /\ l \in Lines /\ v \in Vectors
  BY LineNumbers DEF IoapicInv, Types, LineOf, AskedAt, VectorAt, Vectors
<1>2. dev.high = {} /\ dev.remote_irr = {} /\ (P # 58 => dev.irr = {})
  BY UpBefore
<1>3. /\ dev.redir[l].vector = v
      /\ dev.redir[l].trig_mode = IF IsLevel(P) THEN LEVEL ELSE EDGE
      /\ dev.redir[l].mask = IF P \in MaskedUp THEN TRUE ELSE FALSE
  <2>1. RedirIs(P, K, vec, dev.irr, dev.high, dev.redir)
    BY DEF IoapicInv, DeviceInv
  <2>2. CASE P = 56
    <3>1. l = \h0f /\ v = \h66 /\ ~IsLevel(P) /\ P \notin MaskedUp
      BY <2>2 DEF LineOf, AskedAt, IsLevel, MaskedUp
    <3>2. dev.redir[\h0f] = EntryOf(\h66, EDGE, FALSE)
      <4>1. P >= 53
        BY <2>2
      <4> QED BY <2>1, <4>1, Zenon DEF RedirIs
    <3> QED BY <3>1, <3>2 DEF EntryOf
  <2>3. CASE P # 56
    <3>1. P >= 30 /\ P \notin 156 .. 173 /\ P # 57 /\ (P \in MaskedUp <=> P \in Masked)
      BY <2>3 DEF UpAt, LineUp, MaskedUp, Masked
    <3>2. l = Line /\ v = VectorAt(P)
      BY <2>3, <3>1 DEF LineOf, AskedAt
    <3>3. dev.redir[Line].vector = VectorAt(P) /\ dev.redir[Line].trig_mode = TrigAt(P)
            /\ (P \in Masked => dev.redir[Line].mask = TRUE)
            /\ (P \notin Masked => dev.redir[Line].mask = FALSE)
      BY <2>1, <3>1 DEF RedirIs
    <3> QED BY <3>1, <3>2, <3>3 DEF TrigAt
  <2> QED BY <2>2, <2>3
<1> HIDE DEF l, v
<1>4. CASE IsLevel(P)
  <2>1. /\ e \in Devices /\ SameCore(dev, e) /\ e.high = dev.high \union {l}
        /\ dev.redir[l].mask = TRUE \/ l \in dev.remote_irr =>
             e.irr = dev.irr /\ e.tmr = dev.tmr /\ e.remote_irr = dev.remote_irr
        /\ dev.redir[l].mask = FALSE /\ l \notin dev.remote_irr =>
             /\ e.irr = dev.irr \union {v} /\ e.tmr = dev.tmr \union {v}
             /\ e.remote_irr = dev.remote_irr \union {l}
    <3>1. dev.redir[l].trig_mode = LEVEL /\ dev.redir[l].vector \in Vectors
      BY <1>1, <1>3, <1>4
    <3>2. dev.redir[l].vector = v
      BY <1>3
    <3> QED BY ONLY <1>1, <3>1, <3>2, LevelUpEffect
  <2>2. l = Line /\ P # 58
    BY <1>4 DEF l, LineOf, IsLevel
  <2> HIDE DEF e
  <2>3. CASE P \in MaskedUp
    <3>1. dev.redir[l].mask = TRUE
      BY <1>3, <2>3
    <3> QED BY <1>2, <1>4, <2>1, <2>2, <2>3, <3>1 DEF e, l, v
  <2>4. CASE P \notin MaskedUp
    <3>1. dev.redir[l].mask = FALSE
      BY <1>3, <2>4
    <3> QED BY <1>2, <1>4, <2>1, <2>2, <2>4, <3>1 DEF e, l, v
  <2> QED BY <2>3, <2>4
<1>5. CASE ~IsLevel(P)
  <2>1. /\ e \in Devices /\ SameCore(dev, e)
        /\ e.high = dev.high \union {l} /\ e.remote_irr = dev.remote_irr
        /\ dev.redir[l].mask = TRUE => e.irr = dev.irr /\ e.tmr = dev.tmr
        /\ dev.redir[l].mask = FALSE => /\ e.irr = dev.irr \union {v}
                                        /\ e.tmr = dev.tmr \ {v}
    <3>1. dev.redir[l].trig_mode = EDGE /\ dev.redir[l].vector \in Vectors /\ l \notin dev.high
      BY <1>1, <1>2, <1>3, <1>5
    <3>2. dev.redir[l].vector = v
      BY <1>3
    <3> QED BY ONLY <1>1, <3>1, <3>2, EdgeUpEffect
  <2> HIDE DEF e
  <2>3. CASE P \in MaskedUp
    <3>1. dev.redir[l].mask = TRUE
      BY <1>3, <2>3
    <3>2. P # 58
      BY <2>3 DEF MaskedUp
    <3> QED BY <1>2, <1>5, <2>1, <2>3, <3>1, <3>2 DEF e, l, v
  <2>4. CASE P \notin MaskedUp
    <3>1. dev.redir[l].mask = FALSE
      BY <1>3, <2>4
    <3> QED BY <1>2, <1>5, <2>1, <2>4, <3>1 DEF e, l, v
  <2> QED BY <2>3, <2>4
<1> QED BY <1>4, <1>5

\* Lowering.
LEMMA DownAfter ==
  ASSUME IoapicInv, Caller = 0, MayRun, P \in DownAt
  PROVE  LET e == SetLine(dev, LineOf(P), 0) IN
         /\ e \in Devices /\ SameCore(dev, e) /\ e.high = {} /\ e.remote_irr = dev.remote_irr
         /\ e.irr = dev.irr /\ e.tmr = dev.tmr
<1>1. dev \in Devices /\ LineOf(P) \in Lines
  BY LineNumbers DEF IoapicInv, Types, LineOf
<1>2. LineIs(P, K, vec, dev.irr, dev.high)
  BY DEF IoapicInv, DeviceInv
<1>3. dev.high \subseteq {LineOf(P)}
  <2>1. P \in {56, 57} <=> P = 57
    BY DEF DownAt, LineDown
  <2> QED BY <1>2, <2>1 DEF LineIs, LineOf
<1> DEFINE e == SetLine(dev, LineOf(P), 0)
<1>4. /\ e \in Devices /\ SameCore(dev, e)
      /\ e.high = dev.high \ {LineOf(P)} /\ e.remote_irr = dev.remote_irr
      /\ e.irr = dev.irr /\ e.tmr = dev.tmr
  BY ONLY <1>1, LineDownEffect
<1> HIDE DEF e
<1> QED BY <1>3, <1>4 DEF e

\* The tables at the next place.
LEMMA UpIrq ==
  ASSUME NEW p \in UpAt, NEW k, NEW iq, NEW tm, NEW iq2, NEW isr, NEW rm, NEW tm2,
         iq \subseteq {\h66}, p # 58 => iq = {}, \h66 \in iq => \h66 \notin tm,
         isr = {},
         p \in MaskedUp => iq2 = {} /\ tm2 = tm /\ rm = {},
         p \notin MaskedUp =>
           /\ iq2 = iq \union {AskedAt(p)}
           /\ IsLevel(p) => tm2 = tm \union {AskedAt(p)} /\ rm = {Line}
           /\ ~IsLevel(p) => tm2 = tm \ {AskedAt(p)} /\ rm = {}
  PROVE  Irq(p + 1, k, 0, iq2, isr, rm, tm2)
<1>1. CASE p \in MaskedUp
  BY <1>1 DEF Irq
<1>2. CASE p \notin MaskedUp
  <2>1. IsLevel(p + 1) <=> IsLevel(p)
    BY <1>2 DEF UpAt, LineUp, IsLevel
  <2>2. CASE p = 58
    <3>1. AskedAt(p) = \h78 /\ ~IsLevel(p) /\ Requests(p + 1) = {\h66, \h78}
      BY <2>2 DEF AskedAt, VectorAt, IsLevel, Requests
    <3>2. iq2 = iq \union {\h78} /\ tm2 = tm \ {\h78} /\ rm = {}
      BY <1>2, <3>1
    <3>3. \A x \in iq2 : x \notin tm2
      <4>1. \A x \in iq2 : (x = \h66 /\ x \notin tm) \/ x = \h78
        <5>1. iq \subseteq {\h66} /\ (\h66 \in iq => \h66 \notin tm)
          OBVIOUS
        <5> QED BY ONLY <3>2, <5>1
      <4>2. \A x : x \notin tm => x \notin tm2
        BY <3>2
      <4>3. \h78 \notin tm2
        BY <3>2
      <4> QED BY <4>1, <4>2, <4>3
    <3> QED BY <2>1, <3>1, <3>2, <3>3 DEF Irq
  <2>3. CASE p # 58
    <3>1. Requests(p + 1) = {AskedAt(p)}
      BY <1>2, <2>3 DEF UpAt, LineUp, MaskedUp, AskedAt, Requests, Raised, VectorAt
    <3>2. iq2 = {AskedAt(p)}
      <4>1. iq2 = iq \union {AskedAt(p)} /\ iq = {}
        BY <1>2, <2>3, Zenon
      <4> QED BY ONLY <4>1
    <3>3. CASE IsLevel(p)
      BY <1>2, <2>1, <3>1, <3>2, <3>3 DEF Irq
    <3>4. CASE ~IsLevel(p)
      BY <1>2, <2>1, <3>1, <3>2, <3>4 DEF Irq
    <3> QED BY <3>3, <3>4
  <2> QED BY <2>2, <2>3
<1> QED BY <1>1, <1>2

\* Once main has raised a line it is the one that is high.
LEMMA UpLine ==
  ASSUME NEW p \in UpAt, NEW k, NEW iq, p \notin MaskedUp => iq # {}
  PROVE  LineIs(p + 1, k, 0, iq, {LineOf(p)})
<1>1. p # 56 => p + 1 \in MayBeHigh /\ p + 1 # 57
  BY DEF UpAt, LineUp, MayBeHigh
<1>2. p \in MaskedUp => p + 1 \notin MustLower
  BY DEF MaskedUp, MustLower
<1>3. p = 56 => p + 1 = 57 /\ LineOf(p) = \h0f
  BY DEF LineOf
<1>4. p # 56 => LineOf(p) = Line
  BY DEF LineOf, UpAt, LineUp
<1> QED BY <1>1, <1>2, <1>3, <1>4 DEF LineIs

\* Raising or lowering the line leaves the entry as the table has it.
LEMMA LineRedir ==
  ASSUME NEW p \in UpAt \union DownAt, NEW k, NEW iq, NEW h, NEW rd, NEW iq2, NEW h2,
         RedirIs(p, k, 0, iq, h, rd), p \in UpAt \ MaskedUp => iq2 # {}, p \in DownAt => h2 = {}
  PROVE  RedirIs(p + 1, k, 0, iq2, h2, rd)
<1> USE DEF UpAt, DownAt, LineUp, LineDown
<1>1. p >= 30 /\ p + 1 >= 30 /\ (p + 1 >= 53 => p >= 53)
  OBVIOUS
<1>2. VectorAt(p + 1) = VectorAt(p) /\ TrigAt(p + 1) = TrigAt(p)
  BY DEF VectorAt, TrigAt, IsLevel
<1>3. p + 1 \in Masked <=> p \in Masked
  BY DEF Masked
<1>4. p + 1 \in 156 .. 173 => p \in {155, 166} /\ p \notin MaskedUp
  BY DEF MaskedUp
<1>5. p \in 156 .. 173 => p = 166
  OBVIOUS
<1>6. p = 155 => p \in UpAt \ MaskedUp
  BY DEF MaskedUp
<1>7. p = 166 => p \in DownAt /\ p + 1 \in 156 .. 173
  OBVIOUS
<1> HIDE DEF UpAt, DownAt, LineUp, LineDown, Masked
<1>8. p + 1 \in 156 .. 173 => iq2 # {} \/ h2 = {}
  BY <1>4, <1>6, <1>7
<1>9. p + 1 \notin 156 .. 173 => p \notin 156 .. 173
  BY <1>5, <1>7
<1> QED BY <1>1, <1>2, <1>3, <1>8, <1>9, ZenonT(40) DEF RedirIs

\* The counters fit the table after main has raised a line.
LEMMA UpCounts ==
  ASSUME NEW p \in UpAt, NEW k, NEW iq, NEW iq2, NEW gs, iq \subseteq {\h66}, p # 58 => iq = {},
         p \in MaskedUp => iq2 = {}, p \notin MaskedUp => iq2 = iq \union {AskedAt(p)},
         Counts(p, k, 0, iq, gs)
  PROVE  Counts(p + 1, k, 0, iq2, gs)
<1> USE DEF UpAt, LineUp, MaskedUp
<1> SUFFICES ASSUME NEW x \in Vectors \ {\h9a, \h79}
             PROVE  gs[x] = IF Ahead(0, k, x, iq2) THEN RunsAt(x, p + 1) - 1 ELSE RunsAt(x, p + 1)
  BY DEF Counts
<1>1. gs[x] = IF Ahead(0, k, x, iq) THEN RunsAt(x, p) - 1 ELSE RunsAt(x, p)
  BY DEF Counts
<1>2. x # 0
  BY DEF Vectors
<1>3. CASE p \in MaskedUp
  <2>1. RunsAt(x, p + 1) = RunsAt(x, p) /\ iq = {}
    BY <1>3 DEF RunsAt
  <2> QED BY <1>1, <1>2, <1>3, <2>1 DEF Ahead
<1>4. CASE p \notin MaskedUp /\ x = AskedAt(p)
  <2>1. RunsAt(x, p + 1) = RunsAt(x, p) + 1 /\ RunsAt(x, p) \in Int
    BY <1>4 DEF RunsAt, AskedAt, VectorAt
  <2>2. x \notin iq
    BY <1>4 DEF AskedAt, VectorAt
  <2> HIDE DEF UpAt, LineUp, MaskedUp
  <2> QED BY <1>1, <1>2, <1>4, <2>1, <2>2 DEF Ahead
<1>5. CASE p \notin MaskedUp /\ x # AskedAt(p)
  <2>1. RunsAt(x, p + 1) = RunsAt(x, p)
    BY <1>5 DEF RunsAt, AskedAt, VectorAt, Vectors
  <2> HIDE DEF UpAt, LineUp, MaskedUp
  <2> QED BY <1>1, <1>2, <1>5, <2>1 DEF Ahead
<1> QED BY <1>3, <1>4, <1>5

\* The retrigger tests' runs fit the table after main has raised a line.
LEMMA UpRetrigger ==
  ASSUME NEW p \in UpAt, NEW k, NEW iq, NEW iq2, NEW h, NEW n,
         p \notin MaskedUp => iq2 # {}, Retrigger(p, k, 0, iq, h, n)
  PROVE  Retrigger(p + 1, k, 0, iq2, {LineOf(p)}, n)
<1>1. \/ p <= 85 /\ p + 1 <= 86 /\ p \in 1 .. 85
      \/ p = 86
      \/ p >= 93 /\ p + 1 >= 93 /\ p \in 93 .. 258
  BY DEF UpAt, LineUp
<1>2. p = 86 => LineOf(p) = Line /\ iq2 # {}
  BY DEF LineOf, MaskedUp
<1> QED BY <1>1, <1>2 DEF Retrigger

\* What the simultaneous test has seen fits the table after main has raised a
\* line.
LEMMA UpSimultaneous ==
  ASSUME NEW p \in UpAt, NEW k, NEW iq, NEW iq2, NEW rip, NEW after, p # 58 => iq = {},
         p \in MaskedUp => iq2 = {}, p \notin MaskedUp => iq2 = iq \union {AskedAt(p)},
         Simultaneous(p, k, 0, iq, rip, after)
  PROVE  Simultaneous(p + 1, k, 0, iq2, rip, after)
<1> USE DEF UpAt, LineUp, MaskedUp
<1>1. CASE p <= 55
  BY <1>1 DEF Simultaneous
<1>2. CASE p \in {56, 58}
  BY <1>2 DEF Simultaneous, AskedAt, VectorAt
<1>3. CASE p >= 61
  <2>1. AskedAt(p) \notin {\h66, \h78}
    BY <1>3 DEF AskedAt, VectorAt
  <2>2. p + 1 >= 61 /\ p + 1 \notin 57 .. 60
    BY <1>3
  <2> HIDE DEF UpAt, LineUp, MaskedUp
  <2> QED BY <1>3, <2>1, <2>2 DEF Simultaneous, Ahead
<1> QED BY <1>1, <1>2, <1>3

\* The trigger mode fits the table after main has raised a line: the interrupt
\* sets or clears the bit of its vector.
LEMMA UpTmr ==
  ASSUME NEW p \in UpAt, NEW k, NEW iq, NEW iq2, NEW tm, NEW tm2, NEW before, NEW got,
         p \in MaskedUp => tm2 = tm, p \notin MaskedUp => iq2 # {},
         p \notin MaskedUp /\ IsLevel(p) => tm2 = tm \union {AskedAt(p)},
         p \notin MaskedUp /\ ~IsLevel(p) => tm2 = tm \ {AskedAt(p)},
         Tmr(p, k, 0, iq, tm, before, got)
  PROVE  Tmr(p + 1, k, 0, iq2, tm2, before, got)
<1> USE DEF UpAt, LineUp, MaskedUp
<1>1. CASE p <= 155
  <2>1. AskedAt(p) # \h79
    BY <1>1 DEF AskedAt, VectorAt
  <2>2. \h79 \notin tm
    BY <1>1 DEF Tmr
  <2>3. \h79 \notin tm2
    BY <2>1, <2>2
  <2>4. p + 1 \in 1 .. 156
    BY <1>1
  <2> HIDE DEF UpAt, LineUp, MaskedUp
  <2> QED BY <2>3, <2>4 DEF Tmr
<1>2. CASE p > 155
  <2>1. AskedAt(p) = \h79 /\ p \notin MaskedUp /\ p \in {183, 193, 202, 211}
    BY <1>2 DEF AskedAt, VectorAt
  <2>2. IsLevel(p) <=> p \in {193, 202}
    BY <2>1 DEF IsLevel
  <2>3. IF p \in {193, 202} THEN \h79 \in tm2 ELSE \h79 \notin tm2
    BY <2>1, <2>2
  <2> HIDE DEF UpAt, LineUp, MaskedUp
  <2> QED BY <2>1, <2>3 DEF Tmr
<1> QED BY <1>1, <1>2

\* What a step at a line or an entry leaves to be shown.
LEMMA Settles ==
  ASSUME IoapicInv, Caller = 0, MayRun, P \in 1 .. MainLen, P \in Eventful,
         Step("main"), UNCHANGED <<idt, cpuVars, localVars, countVars, failed>>,
         dev' \in Devices, dev'.id = dev.id, dev'.arb = dev.arb,
         P' = P + 1 /\ K' = K =>
           /\ DeviceInv'
           /\ First => CountInv' /\ TmrInv'
  PROVE  IoapicInv'
<1>1. /\ P' = P + 1 /\ K' = K /\ H' = H /\ running' = running /\ ioctls' = ioctls
      /\ Goes(P, P') /\ pc' \in [Contexts -> 1 .. MainLen + 1]
  BY MainStepEffect
<1>2. DeviceInv' /\ (First => CountInv' /\ TmrInv')
  BY <1>1
<1>3. P \notin FlagAt \union HandleAt \union EntryAt \union LoadAt \union MaskTrue \union MaskFalse
               \union WordAt \union Awaits \union ResetAt
  BY AsidePlaces DEF Eventful, LineAt, LineUp, LineDown, StoreLow, SetupAt, RemaskAt, FlagAt
<1>4. P + 1 \notin DataAt
  <2>1. P \in LineAt \union DataAt /\ P \in Int
    BY MainLength DEF Eventful, DataAt, StoreAt
  <2> QED BY <2>1, PlaceKind
<1>5. Types'
  <2>1. MainLen' = MainLen
    BY DEF MainLen
  <2> QED BY <1>1, <2>1 DEF IoapicInv, Types, cpuVars, localVars, countVars
<1>6. Flow'
  BY <1>1, <1>3, FlowGoes DEF cpuVars, localVars
<1>7. P \in Int
  BY MainBound
<1>8. Installed'
  BY <1>1, <1>3, <1>7, InstalledGoes DEF IoapicInv
<1>9. Index'
  BY <1>1, <1>4 DEF Index
<1>10. Helper'
  BY <1>1, <1>3, NotCalled, HelperGoes DEF cpuVars, countVars
<1>11. LocalInv'
  <2>1. EntryIs(P, entry["main"]) /\ WordIs(P, word["old"], word["new"], dev.id, dev.arb)
    BY DEF IoapicInv, LocalInv
  <2>2. EntryIs(P + 1, entry["main"])
    BY <1>1, <1>3, <2>1, EntryGoes
  <2>3. WordIs(P + 1, word["old"], word["new"], dev.id, dev.arb)
    BY <1>1, <1>3, <2>1, WordGoes
  <2> QED BY <1>1, <2>2, <2>3 DEF LocalInv, localVars
<1>12. FirstInv'
  BY <1>1, <1>2 DEF IoapicInv, FirstInv, First
<1> QED BY <1>2, <1>5, <1>6, <1>8, <1>9, <1>10, <1>11, <1>12 DEF IoapicInv

\* main raises a line: unless the entry is masked the interrupt is pending at
\* once.
LEMMA MainLineUp ==
  ASSUME IoapicInv, Caller = 0, MayRun, P \in 1 .. MainLen, P \in UpAt,
         OnDevice("main", SetLine(dev, LineOf(P), 1))
  PROVE  IoapicInv'
<1> DEFINE e == SetLine(dev, LineOf(P), 1)
<1>1. dev' = e /\ Step("main") /\ UNCHANGED <<idt, cpuVars, localVars, countVars, failed>>
  BY DEF OnDevice
<1>2. /\ vec = 0 /\ dev.isr = {} /\ dev.high = {} /\ dev.remote_irr = {}
      /\ P # 58 => dev.irr = {}
      /\ dev.irr \subseteq {\h66} /\ (\h66 \in dev.irr => \h66 \notin dev.tmr)
  BY UpBefore
<1>3. /\ e \in Devices /\ SameCore(dev, e) /\ e.high = {LineOf(P)}
      /\ P \in MaskedUp => e.irr = {} /\ e.tmr = dev.tmr /\ e.remote_irr = {}
      /\ P \notin MaskedUp =>
           /\ e.irr = dev.irr \union {AskedAt(P)}
           /\ IsLevel(P) => e.tmr = dev.tmr \union {AskedAt(P)} /\ e.remote_irr = {Line}
           /\ ~IsLevel(P) => e.tmr = dev.tmr \ {AskedAt(P)} /\ e.remote_irr = {}
  BY UpAfter
<1> HIDE DEF e
<1>4. e.isr = {} /\ e.redir = dev.redir /\ (P \notin MaskedUp => e.irr # {})
  BY <1>2, <1>3 DEF SameCore
<1>5. UpAt \intersect DownAt = {}
  BY DEF UpAt, DownAt, LineUp, LineDown
<1>6. ASSUME P' = P + 1, K' = K PROVE DeviceInv'
  <2>1. Irq(P + 1, K, 0, e.irr, e.isr, e.remote_irr, e.tmr)
    <3>1. P \in UpAt
      OBVIOUS
    <3> QED BY ONLY <3>1, <1>2, <1>3, <1>4, UpIrq, SMTT(30)
  <2>2. LineIs(P + 1, K, 0, e.irr, e.high)
    BY <1>3, <1>4, UpLine
  <2>3. RedirIs(P, K, 0, dev.irr, dev.high, dev.redir)
    BY <1>2 DEF IoapicInv, DeviceInv
  <2>4. RedirIs(P + 1, K, 0, e.irr, e.high, dev.redir)
    BY <1>4, <1>5, <2>3, LineRedir
  <2> QED BY <1>1, <1>2, <1>4, <1>6, <2>1, <2>2, <2>4 DEF DeviceInv, Isr83, cpuVars
<1>7. ASSUME P' = P + 1, K' = K, First PROVE CountInv' /\ TmrInv'
  <2>1. /\ Counts(P, K, 0, dev.irr, g) /\ Retrigger(P, K, 0, dev.irr, dev.high, g[\h9a])
        /\ Simultaneous(P, K, 0, dev.irr, g_rip, g_66_after_78)
        /\ Tmr(P, K, 0, dev.irr, dev.tmr, tmr_before, g_tmr_79)
    BY <1>2, <1>7 DEF IoapicInv, FirstInv, CountInv, TmrInv
  <2>2. Counts(P + 1, K, 0, e.irr, g)
    BY <1>2, <1>3, <2>1, UpCounts
  <2>3. Retrigger(P + 1, K, 0, e.irr, e.high, g[\h9a])
    BY <1>3, <1>4, <2>1, UpRetrigger
  <2>4. Simultaneous(P + 1, K, 0, e.irr, g_rip, g_66_after_78)
    BY <1>2, <1>3, <2>1, UpSimultaneous
  <2>5. Tmr(P + 1, K, 0, e.irr, e.tmr, tmr_before, g_tmr_79)
    BY <1>3, <1>4, <2>1, UpTmr
  <2>6. Exact(P + 1, e.high)
    <3>1. P + 1 \in 138 .. 145 \union 156 .. 166 => P # 56
      OBVIOUS
    <3> QED BY <1>3, <3>1 DEF Exact, LineOf, UpAt, LineUp
  <2> QED BY <1>1, <1>2, <1>7, <2>2, <2>3, <2>4, <2>5, <2>6
          DEF CountInv, TmrInv, cpuVars, localVars, countVars
<1>8. P \in Eventful
  BY DEF Eventful, UpAt, DownAt, LineAt
<1> QED BY <1>1, <1>3, <1>6, <1>7, <1>8, Settles DEF SameCore

\* main lowers a line.
LEMMA MainLineDown ==
  ASSUME IoapicInv, Caller = 0, MayRun, P \in 1 .. MainLen, P \in DownAt,
         OnDevice("main", SetLine(dev, LineOf(P), 0))
  PROVE  IoapicInv'
<1> DEFINE e == SetLine(dev, LineOf(P), 0)
<1>1. dev' = e /\ Step("main") /\ UNCHANGED <<idt, cpuVars, localVars, countVars, failed>>
  BY DEF OnDevice
<1>2. vec = 0 /\ (P \notin Off => dev.irr = {})
  BY MainRuns
<1>3. /\ e \in Devices /\ SameCore(dev, e) /\ e.high = {} /\ e.remote_irr = dev.remote_irr
      /\ e.irr = dev.irr /\ e.tmr = dev.tmr
  BY DownAfter
<1> HIDE DEF e
<1>4. e.isr = dev.isr /\ e.redir = dev.redir
  BY <1>3 DEF SameCore
<1>5. UpAt \intersect DownAt = {} /\ (P \in Off => P \in {57, 59})
  BY DEF UpAt, DownAt, LineUp, LineDown, Off
<1>6. ASSUME P' = P + 1, K' = K PROVE DeviceInv'
  <2>0. Irq(P, K, 0, dev.irr, dev.isr, dev.remote_irr, dev.tmr)
    BY <1>2 DEF IoapicInv, DeviceInv
  <2>1. Irq(P + 1, K, 0, dev.irr, dev.isr, dev.remote_irr, dev.tmr)
    <3>1. CASE dev.irr = {}
      BY <2>0, <3>1, IrqQuiet
    <3>2. CASE P \in {57, 59}
      <4>1. Requests(P + 1) = Requests(P) /\ ~IsLevel(P) /\ ~IsLevel(P + 1)
        BY <3>2 DEF Requests, IsLevel
      <4> QED BY <2>0, <4>1 DEF Irq
    <3> QED BY <1>2, <1>5, <3>1, <3>2
  <2>2. LineIs(P + 1, K, 0, dev.irr, e.high)
    BY <1>3 DEF LineIs
  <2>3. RedirIs(P, K, 0, dev.irr, dev.high, dev.redir)
    BY <1>2 DEF IoapicInv, DeviceInv
  <2>4. RedirIs(P + 1, K, 0, dev.irr, e.high, dev.redir)
    BY <1>3, <1>5, <2>3, LineRedir
  <2> QED BY <1>1, <1>2, <1>3, <1>4, <1>6, <2>1, <2>2, <2>4 DEF DeviceInv, Isr83, cpuVars
<1>7. ASSUME P' = P + 1, K' = K, First PROVE CountInv' /\ TmrInv'
  <2>1. /\ Counts(P, K, 0, dev.irr, g) /\ Retrigger(P, K, 0, dev.irr, dev.high, g[\h9a])
        /\ Simultaneous(P, K, 0, dev.irr, g_rip, g_66_after_78)
        /\ Tmr(P, K, 0, dev.irr, dev.tmr, tmr_before, g_tmr_79)
    BY <1>2, <1>7 DEF IoapicInv, FirstInv, CountInv, TmrInv
  <2> USE DEF DownAt, LineDown
  <2>2. Counts(P + 1, K, 0, dev.irr, g)
    <3>1. \A x \in Vectors : RunsAt(x, P + 1) = RunsAt(x, P)
      BY DEF RunsAt
    <3> HIDE DEF DownAt, LineDown
    <3> QED BY <2>1, <3>1 DEF Counts
  <2>3. Retrigger(P + 1, K, 0, dev.irr, e.high, g[\h9a])
    <3>1. (P + 1 <= 86 /\ P <= 86) \/ (P + 1 >= 93 /\ P >= 93)
      OBVIOUS
    <3>2. P \in 1 .. 257
      OBVIOUS
    <3> HIDE DEF DownAt, LineDown
    <3> QED BY <2>1, <3>1, <3>2 DEF Retrigger
  <2>4. Simultaneous(P + 1, K, 0, dev.irr, g_rip, g_66_after_78)
    <3>1. \/ P + 1 <= 56 /\ P \in 1 .. 55
          \/ P \in {57, 59}
          \/ P \in 61 .. 257
      OBVIOUS
    <3> HIDE DEF DownAt, LineDown
    <3> QED BY <2>1, <3>1 DEF Simultaneous
  <2>5. Tmr(P + 1, K, 0, dev.irr, dev.tmr, tmr_before, g_tmr_79)
    BY <2>1 DEF Tmr
  <2>6. Exact(P + 1, e.high)
    BY DEF Exact
  <2> HIDE DEF DownAt, LineDown
  <2> QED BY <1>1, <1>2, <1>3, <1>7, <2>2, <2>3, <2>4, <2>5, <2>6
          DEF CountInv, TmrInv, cpuVars, localVars, countVars
<1>8. P \in Eventful
  BY DEF Eventful, UpAt, DownAt, LineAt
<1> QED BY <1>1, <1>3, <1>6, <1>7, <1>8, Settles DEF SameCore

\* main changes a line.
LEMMA MainSetIrqLine ==
  ASSUME IoapicInv, Caller = 0, SetIrqLine("main")
  PROVE  IoapicInv'
<1> DEFINE a == Arg("main")
<1>1. At("main", "line") /\ OnDevice("main", SetLine(dev, a[1], a[2]))
  BY DEF SetIrqLine
<1>2. /\ MayRun /\ P \in 1 .. MainLen
      /\ \/ P \in LineUp /\ a = <<Line, 1>>
         \/ P \in LineDown /\ a = <<Line, 0>>
         \/ P = 56 /\ a = <<\h0f, 1>>
         \/ P = 57 /\ a = <<\h0f, 0>>
  <2>1. MayRun /\ P \in 1 .. MainLen /\ MainPlace(P, Do("line", a))
    BY <1>1, MainAt DEF IoapicInv
  <2>2. Do("line", a).op = "line" /\ Do("line", a).arg = a
    BY DEF Do
  <2> HIDE DEF a
  <2> QED BY <2>1, <2>2 DEF MainPlace
<1> HIDE DEF a
<1>3. \/ P \in UpAt /\ a[1] = LineOf(P) /\ a[2] = 1
      \/ P \in DownAt /\ a[1] = LineOf(P) /\ a[2] = 0
  <2>1. P \in LineUp \union LineDown => P \notin {56, 57}
    BY DEF LineUp, LineDown
  <2> HIDE DEF LineUp, LineDown
  <2> QED BY <1>2, <2>1 DEF UpAt, DownAt, LineOf
<1>4. CASE P \in UpAt /\ a[1] = LineOf(P) /\ a[2] = 1
  BY <1>1, <1>2, <1>4, MainLineUp
<1>5. CASE P \in DownAt /\ a[1] = LineOf(P) /\ a[2] = 0
  BY <1>1, <1>2, <1>5, MainLineDown
<1> QED BY <1>3, <1>4, <1>5

-----------------------------------------------------------------------------
(***************************************************************************)
(* Main stores the low half of an entry.                                   *)
(***************************************************************************)
\* What it stores, and where.
LEMMA StoreBefore ==
  ASSUME IoapicInv, Caller = 0, MayRun, P \in 1 .. MainLen, P \in StoreLow \union {52}
  PROVE  LET l == IF P = 52 THEN \h0f ELSE Line
             w == entry["main"]
         IN
         /\ dev.index = Low(l) /\ vec = 0 /\ dev.irr = {} /\ dev.isr = {} /\ dev.remote_irr = {}
         /\ P = 52 => w = EntryOf(\h66, EDGE, FALSE)
         /\ P # 52 => /\ w.vector = VectorAt(P + 1) /\ w.trig_mode = TrigAt(P + 1)
                      /\ P \in {105, 134} => w.mask = TRUE
                      /\ P \notin {105, 134} => w.mask = FALSE
         /\ IF P \in {145, 162} THEN dev.high \subseteq {Line} ELSE l \notin dev.high
<1> DEFINE l == IF P = 52 THEN \h0f ELSE Line
           w == entry["main"]
<1>1. P \in 1 .. 257
  BY MainBound
<1>2. vec = 0 /\ dev.irr = {} /\ dev.isr = {} /\ dev.remote_irr = {}
  <2>1. P \notin Off
    BY DEF StoreLow, SetupAt, RemaskAt, Off
  <2> QED BY <2>1, MainRuns
<1>3. dev.index = Low(l)
  <2>1. dev.index = RegAt(P)
    BY DEF MayRun, IoapicInv, Index, DataAt, StoreAt
  <2>2. P = 52 => RegAt(P) = Low(\h0f)
    BY DEF RegAt
  <2>3. P # 52 => P \in LowAt /\ P > 25 /\ P # 54
    BY DEF StoreLow, SetupAt, RemaskAt, LowAt
  <2>4. P # 52 => RegAt(P) = Low(Line)
    BY <1>1, <2>3 DEF RegAt
  <2> QED BY <2>1, <2>2, <2>4
<1>4. EntryIs(P, w)
  BY DEF IoapicInv, LocalInv
<1>5. P = 52 => w = EntryOf(\h66, EDGE, FALSE)
  BY <1>4 DEF EntryIs
<1>6. ASSUME P # 52
      PROVE  /\ w.vector = VectorAt(P + 1) /\ w.trig_mode = TrigAt(P + 1)
             /\ P \in {105, 134} => w.mask = TRUE
             /\ P \notin {105, 134} => w.mask = FALSE
  <2>1. CASE P \in SetupAt
    <3>1. P \in NewAt /\ P \notin {105, 134}
      BY <2>1 DEF SetupAt, NewAt
    <3>2. w = EntryOf(VectorAt(P + 2), TrigAt(P + 2), FALSE)
      BY <1>4, <3>1 DEF EntryIs
    <3>3. VectorAt(P + 2) = VectorAt(P + 1) /\ TrigAt(P + 2) = TrigAt(P + 1)
      BY <2>1 DEF SetupAt, VectorAt, TrigAt, IsLevel
    <3> QED BY <3>1, <3>2, <3>3 DEF EntryOf
  <2>2. CASE P \in RemaskAt
    <3>1. /\ P \in {105, 134} => P \in MaskAt
          /\ P \notin {105, 134} => P \in UnmaskAt
      BY <2>2 DEF RemaskAt, MaskAt, UnmaskAt
    <3>2. VectorAt(P) = VectorAt(P + 1) /\ TrigAt(P) = TrigAt(P + 1)
      BY <2>2 DEF RemaskAt, VectorAt, TrigAt, IsLevel
    <3> QED BY <1>4, <3>1, <3>2 DEF EntryIs
  <2> QED BY <1>6, <2>1, <2>2 DEF StoreLow
<1>7. IF P \in {145, 162} THEN dev.high \subseteq {Line} ELSE l \notin dev.high
  <2>1. LineIs(P, K, 0, {}, dev.high)
    BY <1>2 DEF IoapicInv, DeviceInv
  <2>2. P # 57 /\ (P \notin {145, 162} => P \notin MayBeHigh)
    BY DEF StoreLow, SetupAt, RemaskAt, MayBeHigh
  <2> HIDE DEF l
  <2>3. P \notin {145, 162} => dev.high = {}
    BY <2>1, <2>2 DEF LineIs
  <2>4. dev.high \subseteq {Line}
    BY <2>1, <2>2 DEF LineIs
  <2> QED BY <2>3, <2>4
<1> HIDE DEF l, w
<1> QED BY <1>2, <1>3, <1>5, <1>6, <1>7 DEF l, w

\* A request follows only when a mask is taken off a high line.
LEMMA StoreAfter ==
  ASSUME IoapicInv, Caller = 0, MayRun, P \in 1 .. MainLen, P \in StoreLow \union {52}
  PROVE  LET l == IF P = 52 THEN \h0f ELSE Line
             w == entry["main"]
             e == WriteData(dev, w)
         IN
         /\ e \in Devices /\ e.id = dev.id /\ e.arb = dev.arb /\ e.isr = {} /\ e.high = dev.high
         /\ e.redir = [dev.redir EXCEPT ![l] = w]
         /\ P \in {145, 162} /\ dev.high # {} =>
              /\ e.irr = {VectorAt(P + 1)} /\ e.tmr = dev.tmr \union {VectorAt(P + 1)}
              /\ e.remote_irr = {Line}
         /\ ~(P \in {145, 162} /\ dev.high # {}) =>
              e.irr = {} /\ e.tmr = dev.tmr /\ e.remote_irr = {}
<1> DEFINE l == IF P = 52 THEN \h0f ELSE Line
           w == entry["main"]
           d == [dev EXCEPT !.redir[l] = w]
           e == WriteData(dev, w)
<1>1. /\ dev.index = Low(l) /\ vec = 0 /\ dev.irr = {} /\ dev.isr = {} /\ dev.remote_irr = {}
      /\ P = 52 => w = EntryOf(\h66, EDGE, FALSE)
      /\ P # 52 => /\ w.vector = VectorAt(P + 1) /\ w.trig_mode = TrigAt(P + 1)
                   /\ P \in {105, 134} => w.mask = TRUE
                   /\ P \notin {105, 134} => w.mask = FALSE
      /\ IF P \in {145, 162} THEN dev.high \subseteq {Line} ELSE l \notin dev.high
  BY StoreBefore
<1>2. dev \in Devices /\ w \in Entries /\ l \in Lines
  BY LineNumbers DEF IoapicInv, Types, Contexts
<1>3. P # 52 => l = Line
  OBVIOUS
<1> HIDE DEF l, w
<1>4. e = Service(d, l) /\ d \in Devices
  BY <1>1, <1>2, WriteLow
<1>5. /\ d.redir = [dev.redir EXCEPT ![l] = w] /\ d.redir[l] = w
      /\ d.id = dev.id /\ d.arb = dev.arb /\ d.isr = {} /\ d.high = dev.high /\ d.irr = {}
      /\ d.tmr = dev.tmr /\ d.remote_irr = {}
  BY <1>1, <1>2 DEF Devices
<1> HIDE DEF d, e
<1>6. CASE P \in {145, 162} /\ dev.high # {}
  <2>1. /\ P # 52 /\ P \notin {105, 134} /\ VectorAt(P + 1) \in Vectors
        /\ TrigAt(P + 1) = LEVEL
    BY <1>6 DEF VectorAt, TrigAt, IsLevel, Vectors
  <2>2. /\ d.redir[l].trig_mode = LEVEL /\ d.redir[l].vector = VectorAt(P + 1)
        /\ d.redir[l].mask = FALSE /\ l = Line
    BY <1>1, <1>3, <1>5, <2>1
  <2>3. l \in d.high /\ l \notin d.remote_irr
    BY <1>1, <1>5, <1>6, <2>2
  <2>4. /\ Service(d, l) \in Devices /\ SameCore(d, Service(d, l)) /\ Service(d, l).high = d.high
        /\ Service(d, l).irr = d.irr \union {d.redir[l].vector}
        /\ Service(d, l).tmr = d.tmr \union {d.redir[l].vector}
        /\ Service(d, l).remote_irr = d.remote_irr \union {l}
    <3>1. d.redir[l].vector \in Vectors
      BY <2>1, <2>2
    <3> QED BY ONLY <1>2, <1>4, <2>2, <2>3, <3>1, ServiceEffect
  <2>5. /\ e \in Devices /\ SameCore(d, e) /\ e.high = d.high
        /\ e.irr = {VectorAt(P + 1)} /\ e.tmr = dev.tmr \union {VectorAt(P + 1)}
        /\ e.remote_irr = {Line}
    BY <1>4, <1>5, <2>2, <2>4
  <2> QED BY <1>5, <1>6, <2>5 DEF SameCore, l, w, e
<1>7. CASE ~(P \in {145, 162} /\ dev.high # {})
  <2>1. ~Asks(d, l)
    <3>1. l \notin dev.high \/ w.trig_mode = EDGE
      BY <1>1, <1>7 DEF EntryOf
    <3> QED BY <1>5, <3>1, Modes DEF Asks
  <2>2. e = d
    BY <1>4, <2>1 DEF Service
  <2> QED BY <1>4, <1>5, <1>7, <2>2 DEF l, w, e
<1> QED BY <1>6, <1>7

\* main stores the low half of an entry: unmasking it with the line high makes
\* the interrupt pending.
LEMMA MainStoreLow ==
  ASSUME IoapicInv, Caller = 0, Store("main"), P \in StoreLow \union {52}
  PROVE  IoapicInv'
<1> DEFINE l == IF P = 52 THEN \h0f ELSE Line
           w == entry["main"]
           e == WriteData(dev, w)
           v == VectorAt(P + 1)
           asks == P \in {145, 162} /\ dev.high # {}
<1>1. At("main", "store") /\ OnDevice("main", e)
  BY DEF Store
<1>2. MayRun /\ P \in 1 .. MainLen
  BY <1>1, MainAt DEF IoapicInv
<1>3. dev' = e /\ Step("main") /\ UNCHANGED <<idt, cpuVars, localVars, countVars, failed>>
  BY <1>1 DEF OnDevice
<1>4. /\ vec = 0 /\ dev.irr = {} /\ dev.isr = {} /\ dev.remote_irr = {}
      /\ P = 52 => w = EntryOf(\h66, EDGE, FALSE)
      /\ P # 52 => /\ w.vector = VectorAt(P + 1) /\ w.trig_mode = TrigAt(P + 1)
                   /\ P \in {105, 134} => w.mask = TRUE
                   /\ P \notin {105, 134} => w.mask = FALSE
      /\ IF P \in {145, 162} THEN dev.high \subseteq {Line} ELSE l \notin dev.high
  BY <1>2, StoreBefore
<1>5. /\ e \in Devices /\ e.id = dev.id /\ e.arb = dev.arb /\ e.isr = {} /\ e.high = dev.high
      /\ e.redir = [dev.redir EXCEPT ![l] = w]
      /\ asks => e.irr = {v} /\ e.tmr = dev.tmr \union {v} /\ e.remote_irr = {Line}
      /\ ~asks => e.irr = {} /\ e.tmr = dev.tmr /\ e.remote_irr = {}
  BY <1>2, StoreAfter
<1> HIDE DEF e, w
<1>6. P \notin LineAt /\ P \notin Off /\ P \notin TmrAt \union CallAt \union Awaits /\ P >= 29
  BY DEF StoreLow, SetupAt, RemaskAt, LineAt, LineUp, LineDown, Off, TmrAt, CallAt, Awaits
<1>7. P \in 1 .. 257
  BY <1>2, MainLength
<1>8. P \in {145, 162} => /\ Requests(P + 1) = {v} /\ IsLevel(P + 1) /\ P + 1 \in MayBeHigh
                          /\ P + 1 # 57 /\ v \notin {\h79, \h66, \h78}
  BY DEF Requests, Raised, VectorAt, IsLevel, MayBeHigh
<1>9. /\ Irq(P, K, 0, {}, {}, {}, dev.tmr) /\ LineIs(P, K, 0, {}, dev.high)
      /\ RedirIs(P, K, 0, {}, dev.high, dev.redir)
  BY <1>4 DEF IoapicInv, DeviceInv
<1>10. ASSUME P' = P + 1, K' = K PROVE DeviceInv'
  <2>1. Irq(P + 1, K, 0, e.irr, e.isr, e.remote_irr, e.tmr)
    <3>1. CASE asks
      <4>1. v \in e.tmr
        BY <1>5, <3>1
      <4> HIDE DEF v
      <4> QED BY <1>5, <1>8, <3>1, <4>1 DEF Irq
    <3>2. CASE ~asks
      <4> HIDE DEF asks
      <4> QED BY <1>5, <1>9, <3>2, IrqQuiet
    <3> QED BY <3>1, <3>2
  <2>2. LineIs(P + 1, K, 0, e.irr, e.high)
    <3>1. CASE P \in {145, 162}
      <4>1. e.high \subseteq {Line} /\ (e.irr = {} => e.high = {})
        BY <1>4, <1>5, <3>1
      <4> QED BY <1>8, <3>1, <4>1 DEF LineIs
    <3>2. CASE P \notin {145, 162}
      <4>1. e.irr = {} /\ e.high = dev.high
        BY <1>5, <3>2
      <4>2. Goes(P, P + 1)
        BY <1>7 DEF Goes
      <4> QED BY <1>6, <1>9, <3>2, <4>1, <4>2, LineGoes
    <3> QED BY <3>1, <3>2
  <2>3. RedirIs(P + 1, K, 0, e.irr, e.high, e.redir)
    <3>1. CASE P = 52
      <4>1. e.redir[Line] = dev.redir[Line] /\ e.redir[\h0f] = EntryOf(\h66, EDGE, FALSE)
        <5>1. dev.redir \in [Lines -> Entries] /\ l = \h0f
          BY <3>1 DEF IoapicInv, Types, Devices
        <5>2. w = EntryOf(\h66, EDGE, FALSE)
          BY <1>4, <3>1
        <5> HIDE DEF l
        <5> QED BY <1>5, <5>1, <5>2, LineNumbers
      <4>2. VectorAt(P) = VectorAt(P + 1) /\ TrigAt(P) = TrigAt(P + 1)
        BY <3>1 DEF VectorAt, TrigAt, IsLevel
      <4>3. P + 1 \notin 156 .. 173 /\ P + 1 \notin Masked /\ P \notin 156 .. 173 /\ P \notin Masked
        BY <3>1 DEF Masked
      <4>4. P >= 30
        BY <3>1
      <4> HIDE DEF Masked
      <4> QED BY <1>9, <4>1, <4>2, <4>3, <4>4 DEF RedirIs
    <3>2. CASE P # 52
      <4>1. e.redir[Line] = w /\ e.redir[\h0f] = dev.redir[\h0f]
        <5>1. dev.redir \in [Lines -> Entries] /\ l = Line
          BY <3>2 DEF IoapicInv, Types, Devices
        <5> HIDE DEF l
        <5> QED BY <1>5, <5>1, LineNumbers
      <4>2. P + 1 >= 53 => P >= 53
        BY <1>7, <3>2
      <4>3. P \in {105, 134} <=> P + 1 \in Masked
        BY <3>2 DEF StoreLow, SetupAt, RemaskAt, Masked
      <4>4. P + 1 \in 156 .. 173 => P = 162
        BY <3>2 DEF StoreLow, SetupAt, RemaskAt
      <4>5. P = 162 => e.irr # {} \/ e.high = {}
        BY <1>5
      <4>6. w.vector = VectorAt(P + 1) /\ w.trig_mode = TrigAt(P + 1)
              /\ (P + 1 \in Masked => w.mask = TRUE) /\ (P + 1 \notin Masked => w.mask = FALSE)
        BY <1>4, <3>2, <4>3
      <4>7. P + 1 >= 53 => dev.redir[\h0f] = EntryOf(\h66, EDGE, FALSE)
        BY <1>9, <4>2 DEF RedirIs
      <4> HIDE DEF Masked
      <4> QED BY <4>1, <4>4, <4>5, <4>6, <4>7 DEF RedirIs
    <3> QED BY <3>1, <3>2
  <2> QED BY <1>3, <1>4, <1>10, <2>1, <2>2, <2>3 DEF DeviceInv, Isr83, cpuVars
<1>11. ASSUME P' = P + 1, K' = K, First PROVE CountInv' /\ TmrInv'
  <2>1. /\ Counts(P, K, 0, {}, g) /\ Retrigger(P, K, 0, {}, dev.high, g[\h9a])
        /\ Simultaneous(P, K, 0, {}, g_rip, g_66_after_78) /\ Exact(P, dev.high)
        /\ Tmr(P, K, 0, {}, dev.tmr, tmr_before, g_tmr_79)
    BY <1>4, <1>11 DEF IoapicInv, FirstInv, CountInv, TmrInv
  <2>2. Goes(P, P + 1)
    BY <1>7 DEF Goes
  <2>3. Exact(P + 1, e.high)
    BY <1>5, <1>6, <2>1, <2>2, ExactGoes
  <2>4. asks <=> P \in {145, 162}
    BY <2>1 DEF Exact
  <2>5. CASE P \in {145, 162}
    <3>1. e.irr = {v} /\ e.tmr = dev.tmr \union {v}
      BY <1>5, <2>4, <2>5
    <3>2. Counts(P + 1, K, 0, {v}, g)
      <4> SUFFICES ASSUME NEW x \in Vectors \ {\h9a, \h79}
                   PROVE  g[x] = IF Ahead(0, K, x, {v}) THEN RunsAt(x, P + 1) - 1
                                                        ELSE RunsAt(x, P + 1)
        BY DEF Counts
      <4>1. g[x] = RunsAt(x, P)
        BY <2>1 DEF Counts, Ahead, Vectors
      <4>2. RunsAt(x, P) = IF x = v THEN RunsAt(x, P + 1) - 1 ELSE RunsAt(x, P + 1)
        BY <2>5 DEF RunsAt, VectorAt, Vectors
      <4>3. Ahead(0, K, x, {v}) <=> x = v
        BY DEF Ahead, Vectors
      <4> QED BY <4>1, <4>2, <4>3
    <3>3. Retrigger(P + 1, K, 0, {v}, e.high, g[\h9a])
      <4>1. P >= 93 /\ P + 1 >= 93 /\ P + 1 \notin 87 .. 92 /\ ~(P + 1 <= 86)
        BY <2>5
      <4> QED BY <2>1, <4>1 DEF Retrigger
    <3>4. Simultaneous(P + 1, K, 0, {v}, g_rip, g_66_after_78)
      <4>1. P >= 61 /\ P + 1 >= 61 /\ P + 1 \notin 57 .. 60 /\ P \notin 57 .. 60
        BY <2>5
      <4> QED BY <1>8, <2>1, <2>5, <4>1 DEF Simultaneous, Ahead
    <3>5. Tmr(P + 1, K, 0, {v}, dev.tmr \union {v}, tmr_before, g_tmr_79)
      <4>1. \h79 \notin dev.tmr \union {v}
        BY <1>8, <2>1, <2>5 DEF Tmr
      <4>2. P + 1 \in 100 .. 180
        BY <2>5
      <4> HIDE DEF v
      <4> QED BY <4>1, <4>2 DEF Tmr
    <3> QED BY <1>3, <1>4, <1>11, <2>3, <3>1, <3>2, <3>3, <3>4, <3>5
            DEF CountInv, TmrInv, cpuVars, localVars, countVars
  <2>6. CASE P \notin {145, 162}
    <3>1. e.irr = {} /\ e.tmr = dev.tmr /\ e.high = dev.high
      BY <1>5, <2>6
    <3>2. Counts(P + 1, K, 0, {}, g)
      BY <1>6, <2>1, <2>2, <2>6, CountsGo
    <3>3. Retrigger(P + 1, K, 0, {}, dev.high, g[\h9a])
      BY <1>6, <2>1, <2>2, RetriggerGoes
    <3>4. Simultaneous(P + 1, K, 0, {}, g_rip, g_66_after_78)
      BY <1>6, <2>1, <2>2, SimultaneousGoes
    <3>5. Tmr(P + 1, K, 0, {}, dev.tmr, tmr_before, g_tmr_79)
      BY <1>6, <2>1, <2>2, TmrGoes
    <3> QED BY <1>3, <1>4, <1>11, <2>3, <3>1, <3>2, <3>3, <3>4, <3>5
            DEF CountInv, TmrInv, cpuVars, localVars, countVars
  <2> QED BY <2>5, <2>6
<1>12. P \in Eventful
  BY DEF Eventful
<1> QED BY <1>2, <1>3, <1>5, <1>10, <1>11, <1>12, Settles

-----------------------------------------------------------------------------
(***************************************************************************)
(* Main's interrupt flag, its loop, and the call to vCPU 1.                *)
(***************************************************************************)
\* A step of main's that changes no device, local or counter.
LEMMA MainMoves ==
  ASSUME IoapicInv, Caller = 0, MayRun, P \in FlagAt \union CallAt, Goes(P, P'), K' = K,
         pc' \in [Contexts -> 1 .. MainLen + 1],
         UNCHANGED <<dev, idt, running, ioctls, vec, entry, word, tmr_before, countVars, failed>>,
         P \in CallAt \/ (H' = H /\ job' = job /\ ipi' = ipi),
         P \in CallAt => Helper' /\ (First => TmrInv'),
         iflag' \in BOOLEAN, halted' \in BOOLEAN, tries' \in 0 .. 10,
         job' \in {"toggle", "set", None}, ipi' \in {"toggle", "set", None}, Flow'
  PROVE  IoapicInv'
<1>1. P \notin Eventful \union HandleAt \union EntryAt \union LoadAt \union MaskTrue \union MaskFalse
               \union WordAt \union TmrAt \union Awaits \union ResetAt
  BY DEF FlagAt, CallAt, Eventful, LineAt, LineUp, LineDown, StoreLow, SetupAt, RemaskAt, HandleAt,
         EntryAt, LoadAt, LoadLow, MaskTrue, MaskFalse, WordAt, TmrAt, Awaits, ResetAt
<1>2. P' \notin DataAt
  <2>1. P + 1 \notin DataAt
    BY PlaceKind DEF FlagAt
  <2>2. P' # P + 1 => P' \in {91, 87}
    BY DEF Goes
  <2>3. 91 \notin DataAt /\ 87 \notin DataAt
    BY DEF DataAt, WordAt, StoreAt, LoadAt, StoreLow, LoadLow, SetupAt, RemaskAt
  <2> QED BY <2>1, <2>2, <2>3
<1>3. Types'
  <2>1. MainLen' = MainLen
    BY DEF MainLen
  <2> QED BY <2>1 DEF IoapicInv, Types, countVars
<1>4. Installed'
  <2>1. P \in Int
    BY DEF FlagAt, CallAt
  <2> QED BY <1>1, <2>1, InstalledGoes DEF IoapicInv
<1>5. Index'
  BY <1>2 DEF Index
<1>6. vec = 0 /\ (P \notin Off => dev.irr = {}) /\ P \notin LineAt
  BY <1>1, MainRuns DEF Eventful
<1>7. Helper'
  <2>1. CASE P \in CallAt
    BY <2>1
  <2>2. CASE P \notin CallAt
    BY <1>1, <2>2, NotCalled, HelperGoes DEF countVars
  <2> QED BY <2>1, <2>2
<1>8. DeviceInv' /\ (CountInv => CountInv')
  BY <1>1, QuietMain DEF countVars
<1>9. LocalInv'
  BY <1>1, <1>6, SameLocals DEF LocalInv
<1>10. First => TmrInv'
  <2>1. CASE P \in CallAt
    BY <2>1
  <2>2. CASE P \notin CallAt
    BY <1>1, <1>6, <2>2, SameLocals DEF countVars
  <2> QED BY <2>1, <2>2
<1>11. FirstInv'
  BY <1>8, <1>10 DEF IoapicInv, FirstInv, First
<1> QED BY <1>3, <1>4, <1>5, <1>7, <1>8, <1>9, <1>11 DEF IoapicInv

\* main enables or disables interrupts, or halts with them enabled.
LEMMA MainSetFlag ==
  ASSUME IoapicInv, Caller = 0, SetFlag("main")
  PROVE  IoapicInv'
<1>1. /\ Step("main") /\ UNCHANGED <<dev, idt, vec, job, ipi, localVars, countVars, failed>>
      /\ \/ At("main", "cli") /\ iflag' = FALSE /\ halted' = halted
         \/ At("main", "sti") /\ iflag' = TRUE /\ halted' = halted
         \/ At("main", "hlt") /\ iflag' = TRUE /\ halted' = TRUE
  BY DEF SetFlag
<1>2. /\ MayRun /\ P \in 1 .. MainLen
      /\ \/ P \in {55, 85, 89} /\ iflag' = FALSE /\ halted' = halted
         \/ P \in {1, 60, 91} /\ iflag' = TRUE /\ halted' = halted
         \/ P = 88 /\ iflag' = TRUE /\ halted' = TRUE
  <2>1. At("main", "cli") => MayRun /\ P \in 1 .. MainLen /\ P \in {55, 85, 89}
    BY MainAt, ZenonT(40) DEF IoapicInv, MainPlace, Do
  <2>2. At("main", "sti") => MayRun /\ P \in 1 .. MainLen /\ P \in {1, 60, 91}
    BY MainAt, ZenonT(40) DEF IoapicInv, MainPlace, Do
  <2>3. At("main", "hlt") => MayRun /\ P \in 1 .. MainLen /\ P = 88
    BY MainAt, ZenonT(40) DEF IoapicInv, MainPlace, Do
  <2> QED BY <1>1, <2>1, <2>2, <2>3
<1>3. /\ P' = P + 1 /\ K' = K /\ H' = H /\ running' = running /\ ioctls' = ioctls
      /\ Goes(P, P') /\ pc' \in [Contexts -> 1 .. MainLen + 1]
  BY <1>1, <1>2, MainStepEffect
<1>4. running = TRUE /\ halted = FALSE /\ vec = 0
  BY <1>2, MainRuns
<1>5. P \in FlagAt /\ P \notin CallAt
  BY <1>2 DEF FlagAt, CallAt
<1>6. iflag' \in BOOLEAN /\ halted' \in BOOLEAN
  BY <1>2, <1>4
<1>7. Flow'
  <2>1. P + 1 \in 1 .. MainLen + 1 /\ MainLen' = MainLen
    BY <1>2, MainLength DEF MainLen
  <2>2. iflag' <=> P + 1 \notin Off
    BY <1>2 DEF Off
  <2>3. halted' => P + 1 = 89
    <3>1. P = 88 => P + 1 = 89
      OBVIOUS
    <3>2. P # 88 => halted' = halted
      BY <1>2
    <3> QED BY <1>4, <3>1, <3>2, Zenon
  <2>4. P + 1 \in 88 .. 90 => P \in 88 .. 90
    BY <1>2
  <2>5. ioctls # 0 /\ ioctls > 0 /\ (P \in 88 .. 90 => tries <= 9)
    BY <1>4 DEF IoapicInv, Flow, Types
  <2> QED BY <1>1, <1>3, <1>4, <2>1, <2>2, <2>3, <2>4, <2>5 DEF Flow, localVars
<1> QED
  BY <1>1, <1>2, <1>3, <1>5, <1>6, <1>7, MainMoves
     DEF IoapicInv, Types, localVars, countVars

\* main leaves its waiting loop, or goes round a loop once more.
LEMMA MainLoop ==
  ASSUME IoapicInv, Caller = 0, Loop("main")
  PROVE  IoapicInv'
<1>1. /\ UNCHANGED <<dev, idt, running, ioctls, cpuVars, entry, word, tmr_before, countVars, failed>>
      /\ \/ /\ At("main", "until")
            /\ \/ Jump("main", Arg("main") + 1) /\ tries' = 0
               \/ tries # 10 /\ Jump("main", 1) /\ tries' = tries
         \/ At("main", "again") /\ Jump("main", -Arg("main")) /\ tries' = tries + 1
  BY DEF Loop
<1>2. /\ MayRun /\ P \in 1 .. MainLen
      /\ \/ P = 87 /\ Jump("main", 4) /\ tries' = 0
         \/ P = 87 /\ tries # 10 /\ Jump("main", 1) /\ tries' = tries
         \/ P = 90 /\ Jump("main", -3) /\ tries' = tries + 1
  <2>1. At("main", "until") => MayRun /\ P \in 1 .. MainLen /\ P = 87 /\ Arg("main") = 3
    BY MainAt, ZenonT(40) DEF IoapicInv, MainPlace, Do
  <2>2. At("main", "again") => MayRun /\ P \in 1 .. MainLen /\ P = 90 /\ Arg("main") = 3
    BY MainAt, ZenonT(40) DEF IoapicInv, MainPlace, Do
  <2>3. 3 + 1 = 4
    OBVIOUS
  <2> QED BY <1>1, <2>1, <2>2, <2>3
<1>3. pc \in [Contexts -> 1 .. MainLen + 1] /\ tries \in 0 .. 10
  BY DEF IoapicInv, Types
<1>4. \/ P = 87 /\ P' = 91 /\ tries' = 0
      \/ P = 87 /\ P' = 88 /\ tries' = tries /\ tries \in 0 .. 9
      \/ P = 90 /\ P' = 87 /\ tries' = tries + 1 /\ tries \in 0 .. 9
  <2>1. P = 90 => tries \in 0 .. 9
    BY <1>3 DEF IoapicInv, Flow
  <2>2. \A n : Jump("main", n) => P' = P + n
    BY <1>3 DEF Jump, P, Contexts
  <2> QED BY <1>2, <1>3, <2>1, <2>2
<1>5. Goes(P, P') /\ tries' \in 0 .. 10 /\ P' \in 1 .. MainLen + 1
  BY <1>4, MainLength DEF Goes
<1>6. /\ K' = K /\ H' = H /\ pc' \in [Contexts -> 1 .. MainLen + 1]
  <2>1. pc' = [pc EXCEPT !["main"] = P']
    BY <1>2, <1>3 DEF Jump, P, Contexts
  <2> QED BY <1>3, <1>5, <2>1 DEF K, H, Contexts
<1>7. P \in FlagAt /\ P \notin CallAt /\ P \in Off
  BY <1>4 DEF FlagAt, CallAt, Off
<1>8. running = TRUE /\ halted = FALSE /\ vec = 0
  BY <1>2, MainRuns
<1>9. Flow'
  <2>1. ~iflag /\ ioctls > 0 /\ ioctls # 0
    BY <1>7, <1>8 DEF IoapicInv, Flow, Types
  <2>2. P' \in Off /\ (P' \in 88 .. 90 => tries' <= 9)
    BY <1>4 DEF Off
  <2>3. MainLen' = MainLen
    BY DEF MainLen
  <2> QED BY <1>1, <1>5, <1>8, <2>1, <2>2, <2>3 DEF Flow, cpuVars
<1> QED
  BY <1>1, <1>2, <1>5, <1>6, <1>7, <1>9, MainMoves
     DEF IoapicInv, Types, cpuVars

\* main asks vCPU 1 to raise or toggle the line.
LEMMA MainCall ==
  ASSUME IoapicInv, Caller = 0, Call("main")
  PROVE  IoapicInv'
<1>1. /\ At("main", "call") /\ ipi = None
      /\ ipi' = (IF 1 \in Online THEN Arg("main") ELSE None) /\ job' = job
      /\ Step("main")
      /\ UNCHANGED <<dev, idt, iflag, halted, vec, localVars, countVars, failed>>
  BY DEF Call
<1>2. MayRun /\ P \in 1 .. MainLen /\ P \in CallAt /\ Arg("main") \in {"toggle", "set"}
  <2>1. At("main", "call") => MayRun /\ P \in 1 .. MainLen /\ MainPlace(P, Do("call", Arg("main")))
    BY MainAt DEF IoapicInv
  <2>2. \A a : Do("call", a).op = "call" /\ Do("call", a).arg = a
    BY DEF Do
  <2> QED BY <1>1, <2>1, <2>2 DEF MainPlace, CallAt
<1>3. /\ P' = P + 1 /\ K' = K /\ H' = H /\ running' = running /\ ioctls' = ioctls
      /\ Goes(P, P') /\ pc' \in [Contexts -> 1 .. MainLen + 1]
  BY <1>1, <1>2, MainStepEffect
<1>4. running = TRUE /\ halted = FALSE /\ vec = 0 /\ dev.irr = {}
  <2>1. P \notin Off
    BY <1>2 DEF CallAt, Off
  <2> QED BY <1>2, <2>1, MainRuns
<1>5. P \notin FlagAt /\ P + 1 \in Awaits /\ P \notin Awaits /\ P \in 222 .. 255
  BY <1>2 DEF FlagAt, CallAt, Awaits
<1>6. ~Called /\ g_tmr_79 = -1
  <2>1. P \in 215 .. 222 \union 226 .. 233 \union 237 .. 244 \union 248 .. 255
    BY <1>2 DEF CallAt
  <2> QED BY <1>5, <2>1, NotCalled DEF IoapicInv, Helper
<1>7. ipi' \in {"toggle", "set", None} /\ job' \in {"toggle", "set", None}
  BY <1>1, <1>2 DEF IoapicInv, Types
<1>8. Helper'
  <2>1. job = None \/ (H \in 1 .. (IF job = "toggle" THEN 3 ELSE 2) /\ H # 1)
    BY <1>6 DEF IoapicInv, Helper, Called
  <2>2. job = None \/ H > 1
    BY <2>1
  <2>3. P + 1 \notin 215 .. 222 \union 226 .. 233 \union 237 .. 244 \union 248 .. 255
    BY <1>2 DEF CallAt
  <2>4. ~(P + 1 <= 222)
    BY <1>5
  <2> QED BY <1>1, <1>3, <1>4, <1>5, <1>6, <2>1, <2>2, <2>3, <2>4 DEF Helper, countVars
<1>9. ASSUME First PROVE TmrInv'
  <2>1. Tmr(P, K, 0, {}, dev.tmr, tmr_before, g_tmr_79)
    BY <1>4, <1>9 DEF IoapicInv, FirstInv, TmrInv
  <2>2. Tmr(P + 1, K, 0, {}, dev.tmr, tmr_before, g_tmr_79)
    BY <1>2, <1>6, <2>1 DEF CallAt, Tmr
  <2> QED BY <1>1, <1>3, <1>4, <2>2 DEF TmrInv, localVars, countVars
<1>10. Flow'
  BY <1>1, <1>2, <1>3, <1>5, FlowGoes DEF localVars
<1> QED
  BY <1>1, <1>2, <1>3, <1>7, <1>8, <1>9, <1>10, MainMoves
     DEF IoapicInv, Types, localVars, countVars

-----------------------------------------------------------------------------
(***************************************************************************)
(* All that main does keeps the invariant.                                 *)
(***************************************************************************)
LEMMA MainSteps ==
  ASSUME IoapicInv, Caller = 0, ContextStep("main")
  PROVE  IoapicInv'
<1>1. ~SetOnRun("main") /\ ~Eoi("main") /\ ~Count("main")
  <2>1. \A op \in {"line_on_run", "eoi", "count"} : ~At("main", op)
    <3> SUFFICES ASSUME NEW op \in {"line_on_run", "eoi", "count"}, At("main", op)
                 PROVE  FALSE
      OBVIOUS
    <3>1. MainPlace(P, Do(op, Arg("main")))
      BY MainAt DEF IoapicInv
    <3> QED BY <3>1 DEF MainPlace, Do
  <2> QED BY <2>1 DEF SetOnRun, Eoi, Count
<1>2. CASE Store("main")
  BY <1>2, MainStoreLow, MainStoreHigh
<1> QED
  BY <1>1, <1>2, MainSelect, MainSetIrqLine, MainWriteWord, MainReadWord, MainLoad, MainNewEntry,
     MainMask, MainReadTmr, MainReset, MainAwait, MainSay, MainInstallHandler, MainSetFlag,
     MainLoop, MainCall
     DEF ContextStep

\* local_irq_enable at the end of the ioctl.
LEMMA MainReturns ==
  ASSUME IoapicInv, Caller = 0, Return
  PROVE  IoapicInv'
<1>1. /\ MayRun /\ P > Len(test_ioapic) /\ running' = FALSE /\ iflag' = TRUE
      /\ UNCHANGED <<dev, idt, ioctls, halted, pc, vec, job, ipi, localVars, countVars, failed>>
  BY DEF Return, P
<1>2. P = MainLen + 1 /\ MainLen \in {213, 257} /\ MainLen' = MainLen
  BY <1>1, MainLength DEF IoapicInv, Flow, MainLen
<1>3. /\ P' = P /\ K' = K /\ H' = H
  BY <1>1 DEF P, K, H
<1>4. running = TRUE /\ halted = FALSE /\ vec = 0
  BY <1>1, MainRuns
<1>5. Types'
  <2>1. running' \in BOOLEAN /\ iflag' \in BOOLEAN
    BY <1>1, Zenon
  <2>2. UNCHANGED <<dev, idt, ioctls, halted, pc, vec, job, ipi, localVars, countVars, failed>>
    BY <1>1
  <2> QED BY <2>1, <2>2, <1>2 DEF IoapicInv, Types, localVars, countVars
<1>6. Flow'
  <2>1. ioctls # 0 /\ P \notin 88 .. 90
    BY <1>2, <1>4 DEF IoapicInv, Flow, Types
  <2> QED BY <1>1, <1>2, <1>3, <1>4, <2>1 DEF Flow
<1>7. Installed' /\ Index'
  BY <1>1, <1>3 DEF IoapicInv, Installed, Index
<1>8. ~Called
  <2>1. P \notin Awaits
    BY <1>2 DEF Awaits
  <2> QED BY <2>1, NotCalled
<1>9. Helper'
  BY <1>1, <1>3, <1>8 DEF IoapicInv, Helper, Called, First, countVars
<1>10. DeviceInv' /\ LocalInv' /\ FirstInv'
  BY <1>1, <1>3
     DEF IoapicInv, DeviceInv, LocalInv, FirstInv, First, CountInv, TmrInv, localVars, countVars
<1> QED BY <1>5, <1>6, <1>7, <1>9, <1>10 DEF IoapicInv

-----------------------------------------------------------------------------
(***************************************************************************)
(* Steps of a handler.                                                     *)
(***************************************************************************)
\* Where main is, and what the local APIC holds.
LEMMA Serving ==
  ASSUME IoapicInv, vec # 0
  PROVE  /\ vec \in Vectors /\ vec \in Requests(P) /\ P \notin Off /\ P \notin DataAt /\ ~Called
         /\ P \in (Raised \ Off) \union {61} /\ P \in 1 .. 257
         /\ P = 61 => vec \in {\h66, \h78}
         /\ P # 61 => vec = VectorAt(P)
         /\ K \in 1 .. Last(vec) + 1
         /\ dev.isr = IF K <= Last(vec) THEN {vec} ELSE {}
         /\ dev.irr \subseteq IF vec = \h78 THEN {\h66}
                              ELSE IF vec = \h9a /\ K = 4 THEN {\h9a} ELSE {}
         /\ dev.remote_irr = IF IsLevel(P) /\ (dev.irr # {} \/ dev.isr # {}) THEN {Line} ELSE {}
         /\ \A x \in dev.irr \union dev.isr : x \in dev.tmr <=> IsLevel(P)
<1>1. vec \in Vectors
  BY DEF IoapicInv, Types
<1>2. Irq(P, K, vec, dev.irr, dev.isr, dev.remote_irr, dev.tmr)
  BY DEF IoapicInv, DeviceInv
<1>3. vec \in Requests(P)
  BY <1>2 DEF Irq
<1>4. P \notin Off
  <2>1. P \in Off => P \notin {1, MainLen + 1}
    <3>1. Requests(1) = {}
      BY DEF Requests, Raised
    <3>2. P # 1
      BY <1>3, <3>1
    <3> QED BY <3>2, MainLength DEF Off
  <2> QED BY <2>1 DEF IoapicInv, Flow
<1>5. P \in (Raised \ Off) \union {61}
  BY <1>3, <1>4 DEF Requests, Off
<1>6. P = 61 => vec \in {\h66, \h78}
  BY <1>3 DEF Requests
<1>7. P # 61 => vec = VectorAt(P)
  BY <1>3, <1>5 DEF Requests, Raised, Off
<1>8. P \notin DataAt /\ P \in 1 .. 257
  BY <1>5 DEF Raised, Off, DataAt, WordAt, StoreAt, LoadAt, StoreLow, LoadLow, SetupAt, RemaskAt
<1>9. ~Called
  BY DEF IoapicInv, Helper
<1> QED BY <1>1, <1>2, <1>3, <1>4, <1>5, <1>6, <1>7, <1>8, <1>9 DEF Irq

\* What a step of a handler leaves to be shown.
LEMMA IsrSettles ==
  ASSUME IoapicInv, vec # 0, K \in 1 .. Last(vec), Step("isr"),
         UNCHANGED <<idt, cpuVars, word, tries, tmr_before, failed>>,
         dev' \in Devices, dev'.id = dev.id, dev'.arb = dev.arb,
         entry' \in [Contexts -> Entries], entry'["main"] = entry["main"],
         g' \in [Vectors -> Nat], g_rip' \in [Vectors -> Nat], g_66_after_78' \in Nat,
         g_tmr_79' \in {-1, 0, 1},
         P' = P /\ K' = K + 1 =>
           /\ DeviceInv'
           /\ First => CountInv' /\ TmrInv'
  PROVE  IoapicInv'
<1>1. /\ vec \in Vectors /\ P \notin DataAt /\ ~Called /\ P \in (Raised \ Off) \union {61}
      /\ P \in 1 .. 257
  BY Serving
<1>2. P' = P /\ K' = K + 1 /\ H' = H
  BY StepEffect DEF IoapicInv
<1>3. running' = running /\ ioctls' = ioctls /\ pc' \in [Contexts -> 1 .. MainLen + 1]
  <2>1. "isr" \in Contexts /\ pc["isr"] = K
    BY DEF Contexts, K
  <2>2. K \in 1 .. MainLen
    <3>1. Last(vec) \in 2 .. 11 /\ MainLen \in {213, 257}
      BY <1>1, HandlerLength, MainLength
    <3> QED BY <3>1
  <2> QED BY <2>1, <2>2, StepEffect DEF IoapicInv
<1>4. MainLen' = MainLen
  BY DEF MainLen
<1>5. Types'
  BY <1>3, <1>4 DEF IoapicInv, Types, cpuVars
<1>6. Flow'
  BY <1>2, <1>3, <1>4 DEF IoapicInv, Flow, cpuVars
<1>7. Installed' /\ Index'
  BY <1>1, <1>2 DEF IoapicInv, Installed, Index
<1>8. Helper'
  <2>1. P \notin 215 .. 222 \union 226 .. 233 \union 237 .. 244 \union 248 .. 255
    BY <1>1 DEF Raised
  <2> QED BY <1>1, <1>2, <1>3, <2>1 DEF IoapicInv, Helper, Called, First, cpuVars
<1>9. LocalInv'
  BY <1>2 DEF IoapicInv, LocalInv
<1>10. DeviceInv' /\ (First => CountInv' /\ TmrInv')
  BY <1>2
<1>11. FirstInv'
  BY <1>3, <1>10 DEF IoapicInv, FirstInv, First
<1> QED BY <1>5, <1>6, <1>7, <1>8, <1>9, <1>10, <1>11 DEF IoapicInv

\* A handler goes on from its second access: what is said of the requests and
\* the counters does not depend on where it is.
LEMMA ServingGoes ==
  ASSUME NEW p, NEW k \in Int, NEW v \in Vectors, k >= 2, k + 1 <= Last(v)
  PROVE  /\ \A iq, isr, rm, tm : Irq(p, k, v, iq, isr, rm, tm) => Irq(p, k + 1, v, iq, isr, rm, tm)
         /\ \A iq, gs : Counts(p, k, v, iq, gs) => Counts(p, k + 1, v, iq, gs)
         /\ \A iq, rip, after : Simultaneous(p, k, v, iq, rip, after) =>
                                Simultaneous(p, k + 1, v, iq, rip, after)
         /\ \A iq, tm, before, got : Tmr(p, k, v, iq, tm, before, got) =>
                                     Tmr(p, k + 1, v, iq, tm, before, got)
<1>1. k # 1 /\ k + 1 # 1 /\ k <= Last(v) /\ k \in 1 .. Last(v) + 1 /\ k + 1 \in 1 .. Last(v) + 1
  BY HandlerLength
<1>2. v = \h9a => k # 4 /\ k + 1 # 4
  BY DEF Last
<1> DEFINE n == k + 1
<1> HIDE DEF n
<1>3. \A iq, isr, rm, tm : Irq(p, k, v, iq, isr, rm, tm) => Irq(p, n, v, iq, isr, rm, tm)
  BY <1>1, <1>2 DEF Irq, n
<1>4. \A x, iq : Ahead(v, k, x, iq) <=> Ahead(v, n, x, iq)
  BY <1>1 DEF Ahead, n
<1>5. ASSUME NEW iq, NEW gs, Counts(p, k, v, iq, gs)
      PROVE  Counts(p, n, v, iq, gs)
  BY <1>4, <1>5 DEF Counts
<1>6. ASSUME NEW iq, NEW rip, NEW after, Simultaneous(p, k, v, iq, rip, after)
      PROVE  Simultaneous(p, n, v, iq, rip, after)
  BY <1>4, <1>6 DEF Simultaneous
<1>7. n # 1
  BY <1>1 DEF n
<1>8. ASSUME NEW iq, NEW tm, NEW before, NEW got, Tmr(p, k, v, iq, tm, before, got)
      PROVE  Tmr(p, n, v, iq, tm, before, got)
  BY <1>1, <1>7, <1>8 DEF Tmr
<1> QED BY <1>3, <1>5, <1>6, <1>8 DEF n

\* The entry fits the table whatever the handler that is running does to the
\* line.
LEMMA RedirServes ==
  ASSUME NEW p, NEW k, NEW n, NEW v, NEW iq, NEW iq2, NEW h, NEW h2, NEW rd,
         RedirIs(p, k, v, iq, h, rd), v # 0,
         p \in 156 .. 173 /\ iq2 = {} /\ n > 8 => iq = {} /\ k > 8
  PROVE  RedirIs(p, n, v, iq2, h2, rd)
<1> DEFINE masked == rd[Line].mask = TRUE
<1>1. p \in 156 .. 173 /\ iq2 = {} /\ n > 8 /\ p >= 30 => masked
  BY DEF RedirIs
<1>2. /\ p >= 30 => /\ rd[Line].vector = VectorAt(p) /\ rd[Line].trig_mode = TrigAt(p)
                    /\ p \in Masked => masked
                    /\ p \notin Masked /\ p \notin 156 .. 173 => rd[Line].mask = FALSE
      /\ p >= 53 => rd[\h0f] = EntryOf(\h66, EDGE, FALSE)
  BY Zenon DEF RedirIs
<1> QED BY <1>1, <1>2, Zenon DEF RedirIs

\* The handler counts its run.
LEMMA IsrCount ==
  ASSUME IoapicInv, Caller = 0, Count("isr")
  PROVE  IoapicInv'
<1>1. /\ At("isr", "count") /\ OnCounters("isr") /\ UNCHANGED <<g_tmr_79, tmr_before>>
      /\ g' = [g EXCEPT ![vec] = @ + 1]
      /\ g_rip' = [g_rip EXCEPT ![vec] = IF vec \in {\h66, \h78} THEN P ELSE g_rip[vec]]
      /\ g_66_after_78' = IF vec = \h66 /\ g[\h78] > 0 THEN g_66_after_78 + 1 ELSE g_66_after_78
  BY DEF Count, P
<1>2. /\ vec \in Vectors /\ vec # 0 /\ K \in 1 .. Last(vec)
      /\ K = 1 /\ vec # \h79
  BY <1>1, IsrAt, ZenonT(40) DEF IoapicInv, HandlerPlace, Do
<1>3. Step("isr") /\ UNCHANGED <<dev, idt, cpuVars, entry, word, tries, failed>>
  BY <1>1 DEF OnCounters
<1>4. /\ P \in (Raised \ Off) \union {61} /\ P \in 1 .. 257 /\ vec \in Requests(P)
      /\ P # 61 => vec = VectorAt(P)
      /\ P = 61 => vec \in {\h66, \h78}
      /\ dev.irr \subseteq IF vec = \h78 THEN {\h66} ELSE {}
  BY <1>2, Serving
<1>5. 1 + 1 = 2 /\ 2 <= Last(vec) /\ Last(vec) \in Int
  BY <1>2, HandlerLength
<1>6. ASSUME P' = P, K' = K + 1 PROVE DeviceInv'
  <2>1. /\ Irq(P, 1, vec, dev.irr, dev.isr, dev.remote_irr, dev.tmr)
        /\ LineIs(P, 1, vec, dev.irr, dev.high)
        /\ RedirIs(P, 1, vec, dev.irr, dev.high, dev.redir)
    BY <1>2 DEF IoapicInv, DeviceInv
  <2>2. Irq(P, 2, vec, dev.irr, dev.isr, dev.remote_irr, dev.tmr)
    BY <1>2, <1>4, <1>5, <2>1 DEF Irq
  <2>3. LineIs(P, 2, vec, dev.irr, dev.high)
    BY <1>2, <2>1 DEF LineIs, Lowered
  <2>4. RedirIs(P, 2, vec, dev.irr, dev.high, dev.redir)
    <3>1. ~(2 > 8)
      OBVIOUS
    <3> QED BY <1>2, <2>1, <3>1, RedirServes
  <2>5. Isr83(vec, 2, entry["isr"], dev.index)
    BY DEF Isr83
  <2> QED BY <1>2, <1>3, <1>5, <1>6, <2>2, <2>3, <2>4, <2>5 DEF DeviceInv, cpuVars
<1>7. \A x \in Vectors : /\ Ahead(vec, 1, x, dev.irr) <=> x \in dev.irr \/ x = vec
                         /\ Ahead(vec, 2, x, dev.irr) <=> x \in dev.irr
  BY DEF Ahead
<1>8. vec \notin dev.irr
  BY <1>4
<1>9. g \in [Vectors -> Nat] /\ g_rip \in [Vectors -> Nat] /\ g_66_after_78 \in Nat
  BY DEF IoapicInv, Types
<1>10. /\ g' \in [Vectors -> Nat] /\ g'[vec] = g[vec] + 1
       /\ \A x \in Vectors : x # vec => g'[x] = g[x]
  BY <1>1, <1>2, <1>9
<1>11. /\ g_rip' \in [Vectors -> Nat]
       /\ vec \in {\h66, \h78} => g_rip'[vec] = P
       /\ \A x \in Vectors : x # vec => g_rip'[x] = g_rip[x]
  BY <1>1, <1>2, <1>4, <1>9
<1>12. ASSUME P' = P, K' = K + 1, First PROVE CountInv' /\ TmrInv'
  <2>1. /\ Counts(P, 1, vec, dev.irr, g) /\ Retrigger(P, 1, vec, dev.irr, dev.high, g[\h9a])
        /\ Simultaneous(P, 1, vec, dev.irr, g_rip, g_66_after_78) /\ Exact(P, dev.high)
        /\ Tmr(P, 1, vec, dev.irr, dev.tmr, tmr_before, g_tmr_79)
    BY <1>2, <1>12 DEF IoapicInv, FirstInv, CountInv, TmrInv
  <2>2. Counts(P, 2, vec, dev.irr, g')
    <3> SUFFICES ASSUME NEW x \in Vectors \ {\h9a, \h79}
                 PROVE  g'[x] = IF Ahead(vec, 2, x, dev.irr) THEN RunsAt(x, P) - 1
                                                             ELSE RunsAt(x, P)
      BY DEF Counts
    <3>1. RunsAt(x, P) \in Int
      BY DEF RunsAt
    <3>2. g[x] = IF Ahead(vec, 1, x, dev.irr) THEN RunsAt(x, P) - 1 ELSE RunsAt(x, P)
      BY <2>1 DEF Counts
    <3> QED BY <1>7, <1>8, <1>10, <3>1, <3>2
  <2>3. Retrigger(P, 2, vec, dev.irr, dev.high, g'[\h9a])
    <3>1. CASE vec = \h9a
      <4>1. P \in 87 .. 92 /\ dev.irr = {}
        BY <1>4, <3>1 DEF VectorAt, Raised
      <4> QED BY <1>2, <1>10, <2>1, <3>1, <4>1 DEF Retrigger
    <3>2. CASE vec # \h9a
      <4>1. P \notin 87 .. 92
        BY <1>4, <3>2 DEF VectorAt
      <4>2. \h9a \in Vectors
        BY DEF Vectors
      <4> QED BY <1>10, <2>1, <3>2, <4>1, <4>2 DEF Retrigger
    <3> QED BY <3>1, <3>2
  <2>4. Simultaneous(P, 2, vec, dev.irr, g_rip', g_66_after_78')
    <3>1. P \notin 57 .. 60
      BY <1>4 DEF Off, Raised
    <3>2. \h66 \in Vectors /\ \h78 \in Vectors
      BY DEF Vectors
    <3>3. CASE P # 61
      <4>1. vec \notin {\h66, \h78}
        BY <1>4, <3>3 DEF VectorAt, Raised, Off
      <4>2. g_66_after_78' = g_66_after_78 /\ g_rip'[\h66] = g_rip[\h66] /\ g_rip'[\h78] = g_rip[\h78]
        BY <1>1, <1>11, <3>2, <4>1
      <4>3. dev.irr = {}
        BY <1>4, <4>1
      <4> QED BY <1>7, <2>1, <3>1, <3>2, <4>1, <4>2, <4>3 DEF Simultaneous
    <3>4. CASE P = 61 /\ vec = \h78
      <4>1. g_66_after_78' = g_66_after_78 /\ g_rip'[\h66] = g_rip[\h66] /\ g_rip'[\h78] = 61
        BY <1>1, <1>11, <3>2, <3>4
      <4> QED BY <1>7, <1>8, <2>1, <3>1, <3>2, <3>4, <4>1 DEF Simultaneous
    <3>5. CASE P = 61 /\ vec = \h66
      <4>1. dev.irr = {}
        BY <1>4, <3>5
      <4>2. g[\h78] = RunsAt(\h78, 61)
        BY <1>7, <2>1, <3>2, <3>5, <4>1 DEF Counts
      <4>3. RunsAt(\h78, 61) = 1
        BY DEF RunsAt
      <4>4. g_66_after_78' > 0
        BY <1>1, <1>9, <3>5, <4>2, <4>3
      <4>5. g_rip'[\h66] = 61 /\ g_rip'[\h78] = g_rip[\h78]
        BY <1>11, <3>2, <3>5
      <4> QED BY <1>7, <2>1, <3>1, <3>2, <3>5, <4>1, <4>4, <4>5 DEF Simultaneous
    <3> QED BY <1>4, <3>3, <3>4, <3>5
  <2>5. Tmr(P, 2, vec, dev.irr, dev.tmr, tmr_before, g_tmr_79)
    <3>1. P \in 1 .. 163
      BY <1>2, <1>4 DEF VectorAt, Raised
    <3> QED BY <2>1, <3>1 DEF Tmr
  <2> QED BY <1>1, <1>2, <1>3, <1>5, <1>12, <2>1, <2>2, <2>3, <2>4, <2>5 DEF CountInv, TmrInv, cpuVars
<1>13. g_66_after_78' \in Nat
  BY <1>1, <1>9
<1> QED
  BY <1>1, <1>2, <1>3, <1>6, <1>10, <1>11, <1>12, <1>13, IsrSettles DEF IoapicInv, Types

\* The handler of 0x79 reads the trigger mode register.
LEMMA IsrReadTmr ==
  ASSUME IoapicInv, Caller = 0, ReadTmr("isr")
  PROVE  IoapicInv'
<1> DEFINE bit == IF \h79 \in dev.tmr THEN 1 ELSE 0
<1>1. /\ At("isr", "tmr") /\ OnCounters("isr") /\ UNCHANGED <<g, g_rip, g_66_after_78>>
      /\ g_tmr_79' = bit /\ tmr_before' = tmr_before
  BY DEF ReadTmr
<1>2. vec \in Vectors /\ vec # 0 /\ K \in 1 .. Last(vec) /\ K = 1 /\ vec = \h79
  BY <1>1, IsrAt, ZenonT(40) DEF IoapicInv, HandlerPlace, Do
<1>3. Step("isr") /\ UNCHANGED <<dev, idt, cpuVars, entry, word, tries, failed>>
  BY <1>1 DEF OnCounters
<1>4. /\ P \in {184, 194, 203, 212, 223, 234, 245, 256} /\ dev.irr = {}
      /\ (\h79 \in dev.tmr <=> IsLevel(P))
  <2>1. /\ P \in (Raised \ Off) \union {61} /\ (P # 61 => vec = VectorAt(P))
        /\ (P = 61 => vec \in {\h66, \h78})
        /\ dev.irr \subseteq IF vec = \h78 THEN {\h66}
                             ELSE IF vec = \h9a /\ K = 4 THEN {\h9a} ELSE {}
        /\ dev.isr = IF K <= Last(vec) THEN {vec} ELSE {}
        /\ \A x \in dev.irr \union dev.isr : x \in dev.tmr <=> IsLevel(P)
    BY <1>2, Serving
  <2>2. dev.irr = {}
    BY <1>2, <2>1
  <2>3. dev.isr = {vec}
    BY <1>2, <2>1
  <2>4. P \in {184, 194, 203, 212, 223, 234, 245, 256}
    BY <1>2, <2>1 DEF Raised, VectorAt
  <2> QED BY <1>2, <2>1, <2>2, <2>3, <2>4
<1>5. 1 + 1 = 2 /\ 2 <= Last(vec) /\ Last(vec) \in Int
  BY <1>2, HandlerLength
<1>6. ASSUME P' = P, K' = K + 1 PROVE DeviceInv'
  <2>1. /\ Irq(P, 1, vec, dev.irr, dev.isr, dev.remote_irr, dev.tmr)
        /\ LineIs(P, 1, vec, dev.irr, dev.high)
        /\ RedirIs(P, 1, vec, dev.irr, dev.high, dev.redir)
    BY <1>2 DEF IoapicInv, DeviceInv
  <2>2. Irq(P, 2, vec, dev.irr, dev.isr, dev.remote_irr, dev.tmr)
    BY <1>2, <1>4, <1>5, <2>1 DEF Irq
  <2>3. LineIs(P, 2, vec, dev.irr, dev.high)
    BY <1>2, <2>1 DEF LineIs, Lowered
  <2>4. RedirIs(P, 2, vec, dev.irr, dev.high, dev.redir)
    <3>1. ~(2 > 8)
      OBVIOUS
    <3> QED BY <1>2, <2>1, <3>1, RedirServes
  <2>5. Isr83(vec, 2, entry["isr"], dev.index)
    BY DEF Isr83
  <2> QED BY <1>2, <1>3, <1>5, <1>6, <2>2, <2>3, <2>4, <2>5 DEF DeviceInv, cpuVars
<1>7. bit = (IF IsLevel(P) THEN 1 ELSE 0) /\ bit \in {0, 1}
  BY <1>4
<1> HIDE DEF bit
<1>8. ASSUME P' = P, K' = K + 1, First PROVE CountInv' /\ TmrInv'
  <2>1. /\ Counts(P, 1, vec, dev.irr, g) /\ Retrigger(P, 1, vec, dev.irr, dev.high, g[\h9a])
        /\ Simultaneous(P, 1, vec, dev.irr, g_rip, g_66_after_78) /\ Exact(P, dev.high)
        /\ Tmr(P, 1, vec, dev.irr, dev.tmr, tmr_before, g_tmr_79)
    BY <1>2, <1>8 DEF IoapicInv, FirstInv, CountInv, TmrInv
  <2>2. Counts(P, 2, vec, dev.irr, g)
    <3>1. \A x \in Vectors \ {\h9a, \h79} : Ahead(vec, 1, x, dev.irr) <=> Ahead(vec, 2, x, dev.irr)
      BY <1>2 DEF Ahead
    <3> QED BY <2>1, <3>1 DEF Counts
  <2>3. Retrigger(P, 2, vec, dev.irr, dev.high, g[\h9a])
    BY <1>4, <2>1 DEF Retrigger
  <2>4. Simultaneous(P, 2, vec, dev.irr, g_rip, g_66_after_78)
    BY <1>2, <1>4, <2>1 DEF Simultaneous, Ahead
  <2>5. Tmr(P, 2, vec, dev.irr, dev.tmr, tmr_before, bit)
    <3>1. (IsLevel(P) <=> P \in {194, 203, 234, 245}) /\ 2 # 1
      BY <1>4 DEF IsLevel
    <3> QED BY <1>2, <1>4, <1>7, <2>1, <3>1 DEF Tmr
  <2> QED BY <1>1, <1>2, <1>3, <1>5, <1>8, <2>1, <2>2, <2>3, <2>4, <2>5 DEF CountInv, TmrInv, cpuVars
<1> QED
  BY <1>1, <1>2, <1>3, <1>6, <1>7, <1>8, IsrSettles DEF IoapicInv, Types

\* A handler between its first access and its last: what it does to the line, the
\* entry and the registers is left to be shown.
LEMMA IsrLater ==
  ASSUME IoapicInv, vec # 0, K \in 2 .. Last(vec), K + 1 <= Last(vec), Step("isr"),
         UNCHANGED <<idt, cpuVars, word, tries, tmr_before, countVars, failed>>,
         dev' \in Devices, dev'.id = dev.id, dev'.arb = dev.arb, dev'.irr = dev.irr,
         dev'.isr = dev.isr, dev'.remote_irr = dev.remote_irr, dev'.tmr = dev.tmr,
         entry' \in [Contexts -> Entries], entry'["main"] = entry["main"],
         LineIs(P, K + 1, vec, dev.irr, dev'.high),
         RedirIs(P, K + 1, vec, dev.irr, dev'.high, dev'.redir),
         Isr83(vec, K + 1, entry'["isr"], dev'.index),
         First => Retrigger(P, K + 1, vec, dev.irr, dev'.high, g[\h9a]) /\ Exact(P, dev'.high)
  PROVE  IoapicInv'
<1>1. vec \in Vectors
  BY Serving
<1>2. K \in Int /\ K >= 2 /\ K \in 1 .. Last(vec)
  <2>1. Last(vec) \in 2 .. 11
    BY <1>1, HandlerLength
  <2> QED BY <2>1
<1>3. ASSUME P' = P, K' = K + 1 PROVE DeviceInv'
  <2>1. Irq(P, K, vec, dev.irr, dev.isr, dev.remote_irr, dev.tmr)
    BY DEF IoapicInv, DeviceInv
  <2>2. Irq(P, K + 1, vec, dev.irr, dev.isr, dev.remote_irr, dev.tmr)
    BY <1>1, <1>2, <2>1, ServingGoes
  <2> QED BY <1>3, <2>2 DEF DeviceInv, cpuVars
<1>4. ASSUME P' = P, K' = K + 1, First PROVE CountInv' /\ TmrInv'
  <2>1. /\ Counts(P, K, vec, dev.irr, g) /\ Simultaneous(P, K, vec, dev.irr, g_rip, g_66_after_78)
        /\ Tmr(P, K, vec, dev.irr, dev.tmr, tmr_before, g_tmr_79)
    BY <1>4 DEF IoapicInv, FirstInv, CountInv, TmrInv
  <2>2. /\ Counts(P, K + 1, vec, dev.irr, g)
        /\ Simultaneous(P, K + 1, vec, dev.irr, g_rip, g_66_after_78)
        /\ Tmr(P, K + 1, vec, dev.irr, dev.tmr, tmr_before, g_tmr_79)
    BY <1>1, <1>2, <2>1, ServingGoes
  <2> QED BY <1>4, <2>2 DEF CountInv, TmrInv, cpuVars, countVars
<1> QED BY <1>2, <1>3, <1>4, IsrSettles DEF IoapicInv, Types, countVars

\* A handler other than that of 0x83 lowers the line.
LEMMA IsrLowers ==
  ASSUME IoapicInv, vec # 0, K \in 2 .. Last(vec), K + 1 <= Last(vec), vec # \h83,
         vec = \h9a => g[\h9a] = 2,
         OnDevice("isr", SetLine(dev, Line, 0))
  PROVE  IoapicInv'
<1> DEFINE e == SetLine(dev, Line, 0)
<1>1. dev' = e /\ Step("isr") /\ UNCHANGED <<idt, cpuVars, localVars, countVars, failed>>
  BY DEF OnDevice
<1>2. dev \in Devices /\ Line \in Lines
  BY LineNumbers DEF IoapicInv, Types
<1>3. /\ e \in Devices /\ SameCore(dev, e)
      /\ e.high = dev.high \ {Line} /\ e.remote_irr = dev.remote_irr
      /\ e.irr = dev.irr /\ e.tmr = dev.tmr
  BY ONLY <1>2, LineDownEffect
<1>4. /\ P \in (Raised \ Off) \union {61} /\ P \in 1 .. 257 /\ (P # 61 => vec = VectorAt(P))
      /\ P = 61 => vec \in {\h66, \h78}
      /\ vec \in Vectors
      /\ dev.irr \subseteq IF vec = \h78 THEN {\h66}
                           ELSE IF vec = \h9a /\ K = 4 THEN {\h9a} ELSE {}
  BY Serving
<1>5. P \notin 156 .. 166 /\ P \notin 138 .. 145 /\ P \notin 156 .. 173 /\ P # 57
  BY <1>4 DEF Raised, VectorAt, Off
<1> HIDE DEF e
<1>6. e.high = {}
  BY <1>3, <1>5 DEF IoapicInv, DeviceInv, LineIs
<1>7. LineIs(P, K + 1, vec, dev.irr, e.high)
  BY <1>6 DEF LineIs
<1>8. RedirIs(P, K + 1, vec, dev.irr, e.high, dev.redir)
  <2>1. RedirIs(P, K, vec, dev.irr, dev.high, dev.redir)
    BY DEF IoapicInv, DeviceInv
  <2> QED BY <1>5, <2>1, RedirServes
<1>9. Isr83(vec, K + 1, entry["isr"], e.index)
  BY DEF Isr83
<1>10. ASSUME First PROVE Retrigger(P, K + 1, vec, dev.irr, e.high, g[\h9a]) /\ Exact(P, e.high)
  <2>1. Retrigger(P, K, vec, dev.irr, dev.high, g[\h9a])
    BY <1>10 DEF IoapicInv, FirstInv, CountInv
  <2>2. P \in 87 .. 92 => vec = \h9a /\ K = 2 /\ dev.irr = {}
    <3>1. P \in 87 .. 92 => vec = \h9a
      BY <1>4 DEF VectorAt, Raised
    <3>2. vec = \h9a => K = 2
      BY DEF Last
    <3> QED BY <1>4, <3>1, <3>2
  <2>3. Retrigger(P, K + 1, vec, dev.irr, e.high, g[\h9a])
    <3>1. CASE P \in 87 .. 92
      BY <1>6, <2>1, <2>2, <3>1 DEF Retrigger
    <3>2. CASE P \notin 87 .. 92
      BY <2>1, <3>2 DEF Retrigger
    <3> QED BY <3>1, <3>2
  <2> QED BY <1>5, <2>3 DEF Exact
<1> QED
  BY <1>1, <1>3, <1>7, <1>8, <1>9, <1>10, IsrLater
     DEF IoapicInv, Types, SameCore, localVars

\* The handler changes the line.
LEMMA IsrSetIrqLine ==
  ASSUME IoapicInv, Caller = 0, SetIrqLine("isr")
  PROVE  IoapicInv'
<1> DEFINE a == Arg("isr")
<1>1. At("isr", "line") /\ OnDevice("isr", SetLine(dev, a[1], a[2]))
  BY DEF SetIrqLine
<1>2. /\ vec \in Vectors /\ vec # 0 /\ K \in 1 .. Last(vec)
      /\ (K = 2 /\ vec \in Lowering) \/ (K = 4 /\ vec = \h98)
      /\ a = <<Line, 0>>
  BY <1>1, IsrAt, ZenonT(40) DEF IoapicInv, HandlerPlace, Do
<1> HIDE DEF a
<1>3. a[1] = Line /\ a[2] = 0
  BY <1>2
<1>4. K \in 2 .. Last(vec) /\ K + 1 <= Last(vec) /\ vec # \h83 /\ vec # \h9a
  BY <1>2 DEF Lowering, Last
<1> QED BY <1>1, <1>2, <1>3, <1>4, IsrLowers

\* The line stays high, or is raised again, while remote_irr is set.
LEMMA IsrSetOnRun ==
  ASSUME IoapicInv, Caller = 0, SetOnRun("isr")
  PROVE  IoapicInv'
<1> DEFINE a == Arg("isr")
           e == IF g[vec] = a[1] THEN SetLine(dev, Line, a[2]) ELSE dev
<1>1. At("isr", "line_on_run") /\ OnDevice("isr", e)
  BY DEF SetOnRun
<1>2. /\ vec \in Vectors /\ vec # 0 /\ K \in 1 .. Last(vec)
      /\ \/ K = 2 /\ vec = \h98 /\ a = <<1, 0>>
         \/ K = 3 /\ vec = \h98 /\ a = <<1, 1>>
         \/ K = 2 /\ vec = \h9a /\ a = <<2, 0>>
  <2>1. /\ vec \in Vectors /\ vec # 0 /\ K \in 1 .. Last(vec)
        /\ HandlerPlace(vec, K, Do("line_on_run", a))
    BY <1>1, IsrAt DEF IoapicInv
  <2>2. Do("line_on_run", a).op = "line_on_run" /\ Do("line_on_run", a).arg = a
    BY DEF Do
  <2> HIDE DEF a
  <2> QED BY <2>1, <2>2 DEF HandlerPlace
<1> HIDE DEF a
<1>3. K \in 2 .. Last(vec) /\ K + 1 <= Last(vec) /\ vec # \h83
  BY <1>2 DEF Last
<1>4. CASE g[vec] = a[1] /\ a[2] = 0
  BY <1>1, <1>2, <1>3, <1>4, IsrLowers
<1>5. CASE g[vec] # a[1] \/ a[2] # 0
  <2>1. dev' = e /\ Step("isr") /\ UNCHANGED <<idt, cpuVars, localVars, countVars, failed>>
    BY <1>1 DEF OnDevice
  <2>2. /\ P \in (Raised \ Off) \union {61} /\ P \in 1 .. 257 /\ (P # 61 => vec = VectorAt(P))
        /\ P = 61 => vec \in {\h66, \h78}
        /\ dev.irr = {} /\ dev.isr = {vec}
        /\ dev.remote_irr = IF IsLevel(P) /\ (dev.irr # {} \/ dev.isr # {}) THEN {Line} ELSE {}
    BY <1>2, Serving
  <2>3. P = 69 \/ (P \in 87 .. 92 /\ vec = \h9a /\ K = 2)
    BY <1>2, <2>2 DEF Raised, VectorAt
  <2>4. IsLevel(P) /\ P \in MayBeHigh /\ P # 57 /\ P \notin Masked /\ P >= 30 /\ P \notin 138 .. 173
    BY <2>3 DEF IsLevel, MayBeHigh, Masked
  <2>5. /\ dev.redir[Line].trig_mode = LEVEL /\ dev.redir[Line].vector = vec
        /\ dev.remote_irr = {Line}
    <3>1. dev.redir[Line].trig_mode = TrigAt(P) /\ dev.redir[Line].vector = VectorAt(P)
      BY <2>4 DEF IoapicInv, DeviceInv, RedirIs
    <3>2. P # 61
      BY <2>3
    <3> QED BY <2>2, <2>4, <3>1, <3>2 DEF TrigAt
  <2>6. /\ e \in Devices /\ SameCore(dev, e) /\ e.irr = dev.irr /\ e.tmr = dev.tmr
        /\ e.remote_irr = dev.remote_irr
        /\ e.high = dev.high \/ (P = 69 /\ e.high = dev.high \union {Line})
    <3>1. CASE g[vec] # a[1]
      <4>1. e = dev
        BY <3>1
      <4> QED BY <4>1 DEF SameCore, IoapicInv, Types
    <3>2. CASE g[vec] = a[1] /\ a[2] # 0
      <4>1. a[2] = 1 /\ P = 69
        BY <1>2, <2>3, <3>2
      <4>2. e = SetLine(dev, Line, 1)
        BY <3>2, <4>1
      <4>3. dev \in Devices /\ Line \in Lines /\ dev.redir[Line].trig_mode = LEVEL
              /\ dev.redir[Line].vector \in Vectors /\ Line \in dev.remote_irr
        BY <1>2, <2>5, LineNumbers DEF IoapicInv, Types
      <4>4. LET u == SetLine(dev, Line, 1) IN
            /\ u \in Devices /\ SameCore(dev, u) /\ u.high = dev.high \union {Line}
            /\ u.irr = dev.irr /\ u.tmr = dev.tmr /\ u.remote_irr = dev.remote_irr
        BY ONLY <4>3, LevelUpEffect
      <4> HIDE DEF e
      <4> QED BY <4>1, <4>2, <4>4
    <3> QED BY <1>5, <3>1, <3>2
  <2> HIDE DEF e
  <2>7. LineIs(P, K + 1, vec, dev.irr, e.high)
    <3>1. dev.high \subseteq {Line}
      BY <2>4 DEF IoapicInv, DeviceInv, LineIs
    <3>2. e.high \subseteq {Line}
      BY <2>6, <3>1
    <3>3. ~Lowered(vec, K + 1, dev.irr)
      BY <1>2 DEF Lowered, Lowering
    <3> QED BY <1>2, <2>4, <3>2, <3>3 DEF LineIs
  <2>8. RedirIs(P, K + 1, vec, dev.irr, e.high, dev.redir)
    <3>1. RedirIs(P, K, vec, dev.irr, dev.high, dev.redir)
      BY DEF IoapicInv, DeviceInv
    <3> QED BY <1>2, <2>4, <3>1, RedirServes
  <2>9. Isr83(vec, K + 1, entry["isr"], e.index)
    BY <1>3 DEF Isr83
  <2>10. ASSUME First PROVE Retrigger(P, K + 1, vec, dev.irr, e.high, g[\h9a]) /\ Exact(P, e.high)
    <3>1. Retrigger(P, K, vec, dev.irr, dev.high, g[\h9a])
      BY <2>10 DEF IoapicInv, FirstInv, CountInv
    <3>2. CASE P = 69
      BY <3>1, <3>2 DEF Retrigger, Exact
    <3>3. CASE P \in 87 .. 92 /\ vec = \h9a /\ K = 2
      <4>1. g[\h9a] # 2 /\ e.high = dev.high
        BY <1>2, <1>5, <2>6, <3>3
      <4> QED BY <2>2, <3>1, <3>3, <4>1 DEF Retrigger, Exact
    <3> QED BY <2>3, <3>2, <3>3
  <2> QED
    BY <1>2, <1>3, <2>1, <2>6, <2>7, <2>8, <2>9, <2>10, IsrLater
       DEF IoapicInv, Types, SameCore, localVars
<1>6. a[2] = 0 \/ a[2] # 0
  OBVIOUS
<1> QED BY <1>4, <1>5

\* The handler of 0x83 goes on: what it leaves in the entry and the registers is
\* left to be shown.
LEMMA Isr83Later ==
  ASSUME IoapicInv, vec = \h83, K \in 2 .. 10, Step("isr"),
         UNCHANGED <<idt, cpuVars, word, tries, tmr_before, countVars, failed>>,
         dev' \in Devices, dev'.id = dev.id, dev'.arb = dev.arb, dev'.irr = dev.irr,
         dev'.isr = dev.isr, dev'.remote_irr = dev.remote_irr, dev'.tmr = dev.tmr,
         dev'.high = dev.high,
         entry' \in [Contexts -> Entries], entry'["main"] = entry["main"],
         dev'.redir[Line].vector = dev.redir[Line].vector,
         dev'.redir[Line].trig_mode = dev.redir[Line].trig_mode,
         dev'.redir[\h0f] = dev.redir[\h0f],
         K + 1 > 8 => dev'.redir[Line].mask = TRUE,
         Isr83(\h83, K + 1, entry'["isr"], dev'.index)
  PROVE  IoapicInv'
<1>1. P \in {156, 163} /\ vec # 0
  <2>1. P \in (Raised \ Off) \union {61} /\ (P # 61 => vec = VectorAt(P))
          /\ (P = 61 => vec \in {\h66, \h78})
    BY Serving
  <2> QED BY <2>1 DEF Raised, VectorAt
<1>2. Last(vec) = 11
  BY DEF Last
<1>3. LineIs(P, K + 1, vec, dev.irr, dev'.high)
  <2>1. LineIs(P, K, vec, dev.irr, dev.high)
    BY DEF IoapicInv, DeviceInv
  <2>2. ~Lowered(vec, K + 1, dev.irr)
    BY DEF Lowered, Lowering
  <2> QED BY <1>1, <2>1, <2>2 DEF LineIs
<1>4. RedirIs(P, K + 1, vec, dev.irr, dev'.high, dev'.redir)
  <2>1. RedirIs(P, K, vec, dev.irr, dev.high, dev.redir)
    BY DEF IoapicInv, DeviceInv
  <2>2. P >= 30 /\ P >= 53 /\ P \notin Masked /\ P \in 156 .. 173
    BY <1>1 DEF Masked
  <2>3. dev.redir[Line].vector = VectorAt(P) /\ dev.redir[Line].trig_mode = TrigAt(P)
          /\ dev.redir[\h0f] = EntryOf(\h66, EDGE, FALSE)
    BY <2>1, <2>2 DEF RedirIs
  <2> QED BY <1>1, <2>2, <2>3 DEF RedirIs
<1>5. ASSUME First PROVE Retrigger(P, K + 1, vec, dev.irr, dev'.high, g[\h9a]) /\ Exact(P, dev'.high)
  <2>1. Retrigger(P, K, vec, dev.irr, dev.high, g[\h9a]) /\ Exact(P, dev.high)
    BY <1>5 DEF IoapicInv, FirstInv, CountInv
  <2> QED BY <1>1, <2>1 DEF Retrigger
<1>6. K \in 2 .. Last(vec) /\ K + 1 <= Last(vec)
  BY <1>2
<1> QED BY <1>1, <1>3, <1>4, <1>5, <1>6, IsrLater

\* It selects a register.
LEMMA IsrSelect ==
  ASSUME IoapicInv, Caller = 0, Select("isr")
  PROVE  IoapicInv'
<1> DEFINE r == Arg("isr")
<1>1. At("isr", "select") /\ OnDevice("isr", [dev EXCEPT !.index = r])
  BY DEF Select
<1>2. /\ vec = \h83 /\ K \in {2, 4, 7, 9}
      /\ r = IF K \in {2, 7} THEN Low(Line) ELSE High(Line)
  <2>1. HandlerPlace(vec, K, Do("select", r))
    BY <1>1, IsrAt DEF IoapicInv
  <2>2. Do("select", r).op = "select" /\ Do("select", r).arg = r
    BY DEF Do
  <2> HIDE DEF r
  <2> QED BY <2>1, <2>2 DEF HandlerPlace
<1>3. r \in Registers
  <2>1. RegAt(29) = Low(Line) /\ RegAt(31) = High(Line)
    BY DEF RegAt, LowAt, StoreLow, LoadLow, SetupAt, RemaskAt
  <2> QED BY <1>2, <2>1, RegisterSet
<1>4. Step("isr") /\ dev' = [dev EXCEPT !.index = r]
        /\ UNCHANGED <<idt, cpuVars, localVars, countVars, failed>>
  BY <1>1 DEF OnDevice
<1> HIDE DEF r
<1>5. /\ dev'.irr = dev.irr /\ dev'.isr = dev.isr /\ dev'.remote_irr = dev.remote_irr
      /\ dev'.tmr = dev.tmr /\ dev'.high = dev.high /\ dev'.redir = dev.redir
      /\ dev'.id = dev.id /\ dev'.arb = dev.arb /\ dev'.index = r /\ dev' \in Devices
  BY <1>3, <1>4 DEF IoapicInv, Types, Devices
<1>6. Isr83(\h83, K, entry["isr"], dev.index) /\ RedirIs(P, K, \h83, dev.irr, dev.high, dev.redir)
  BY <1>2 DEF IoapicInv, DeviceInv
<1>7. Isr83(\h83, K + 1, entry["isr"], r)
  BY <1>2, <1>6 DEF Isr83
<1>8. K + 1 > 8 => dev.redir[Line].mask = TRUE
  <2>1. P \in {156, 163} /\ dev.irr = {}
    <3>1. P \in (Raised \ Off) \union {61} /\ (P # 61 => vec = VectorAt(P))
            /\ (P = 61 => vec \in {\h66, \h78})
            /\ dev.irr \subseteq IF vec = \h78 THEN {\h66}
                                 ELSE IF vec = \h9a /\ K = 4 THEN {\h9a} ELSE {}
      BY <1>2, Serving
    <3> QED BY <1>2, <3>1 DEF Raised, VectorAt
  <2>2. K + 1 > 8 => K > 8
    BY <1>2
  <2> QED BY <1>6, <2>1, <2>2 DEF RedirIs
<1>9. K \in 2 .. 10
  BY <1>2
<1> QED
  BY <1>2, <1>4, <1>5, <1>7, <1>8, <1>9, Isr83Later DEF IoapicInv, Types, localVars

\* It reads the entry, and sets the mask in what it read.
LEMMA IsrEntry ==
  ASSUME IoapicInv, vec = \h83, K \in {3, 5, 6}, NEW e \in Entries, SetEntry("isr", e),
         e.vector = \h83 /\ e.trig_mode = LEVEL, K = 6 => e.mask = TRUE
  PROVE  IoapicInv'
<1>1. /\ entry' = [entry EXCEPT !["isr"] = e] /\ Step("isr")
      /\ UNCHANGED <<dev, idt, cpuVars, countVars, failed, word, tries, tmr_before>>
  BY DEF SetEntry, OnLocals
<1>2. "main" # "isr"
  OBVIOUS
<1>3. entry' \in [Contexts -> Entries] /\ entry'["main"] = entry["main"] /\ entry'["isr"] = e
  BY <1>1, <1>2 DEF IoapicInv, Types, Contexts
<1>4. Isr83(\h83, K + 1, e, dev.index)
  BY DEF Isr83
<1>5. dev \in Devices
  BY DEF IoapicInv, Types
<1>6. K \in 2 .. 10 /\ ~(K + 1 > 8)
  OBVIOUS
<1> QED BY <1>1, <1>3, <1>4, <1>5, <1>6, Isr83Later

\* The handler of 0x83 reads half the entry back.
LEMMA IsrLoad ==
  ASSUME IoapicInv, Caller = 0, Load("isr")
  PROVE  IoapicInv'
<1> DEFINE e == IF dev.index = Low(Line) THEN dev.redir[Line] ELSE entry["isr"]
<1>1. At("isr", "load") /\ SetEntry("isr", e)
  BY DEF Load
<1>2. vec = \h83 /\ K \in {3, 5}
  <2> DEFINE it == Do("load", Arg("isr"))
  <2>1. HandlerPlace(vec, K, it)
    BY <1>1, IsrAt DEF IoapicInv
  <2>2. it.op = "load" /\ "load" \in DataAccesses
    BY DEF Do, DataAccesses
  <2> HIDE DEF it
  <2> QED BY <2>1, <2>2 DEF HandlerPlace
<1>3. Isr83(\h83, K, entry["isr"], dev.index) /\ RedirIs(P, K, \h83, dev.irr, dev.high, dev.redir)
  BY <1>2 DEF IoapicInv, DeviceInv
<1>4. P \in {156, 163}
  <2>1. P \in (Raised \ Off) \union {61} /\ (P # 61 => vec = VectorAt(P))
          /\ (P = 61 => vec \in {\h66, \h78})
    BY <1>2, Serving
  <2> QED BY <1>2, <2>1 DEF Raised, VectorAt
<1>5. e \in Entries
  BY LineNumbers DEF IoapicInv, Types, Devices, Contexts
<1>6. CASE K = 3
  <2>1. e = dev.redir[Line]
    BY <1>3, <1>6 DEF Isr83
  <2>2. dev.redir[Line].vector = VectorAt(P) /\ dev.redir[Line].trig_mode = TrigAt(P)
    BY <1>3, <1>4 DEF RedirIs
  <2>3. VectorAt(P) = \h83 /\ TrigAt(P) = LEVEL
    BY <1>4 DEF VectorAt, TrigAt, IsLevel
  <2> QED BY <1>1, <1>2, <1>5, <1>6, <2>1, <2>2, <2>3, IsrEntry
<1>7. CASE K = 5
  <2>1. dev.index # Low(Line)
    BY <1>3, <1>7, RegisterNumbers DEF Isr83
  <2>2. e = entry["isr"] /\ e.vector = \h83 /\ e.trig_mode = LEVEL
    BY <1>3, <1>7, <2>1 DEF Isr83
  <2> QED BY <1>1, <1>2, <1>5, <1>7, <2>2, IsrEntry
<1> QED BY <1>2, <1>6, <1>7

\* The handler of 0x83 masks the entry at hand.
LEMMA IsrMask ==
  ASSUME IoapicInv, Caller = 0, Mask("isr")
  PROVE  IoapicInv'
<1> DEFINE m == Arg("isr")
           e == [entry["isr"] EXCEPT !.mask = m]
<1>1. At("isr", "mask") /\ SetEntry("isr", e)
  BY DEF Mask
<1>2. vec = \h83 /\ K = 6 /\ m = TRUE
  <2> DEFINE it == Do("mask", m)
  <2>1. HandlerPlace(vec, K, it)
    BY <1>1, IsrAt DEF IoapicInv
  <2>2. it.op = "mask" /\ it.arg = m
    BY DEF Do
  <2> HIDE DEF it, m
  <2> QED BY ONLY <2>1, <2>2 DEF HandlerPlace
<1>3. entry["isr"].vector = \h83 /\ entry["isr"].trig_mode = LEVEL
  BY <1>2 DEF IoapicInv, DeviceInv, Isr83
<1> HIDE DEF m
<1>4. /\ e \in Entries /\ e.vector = entry["isr"].vector
      /\ e.trig_mode = entry["isr"].trig_mode /\ e.mask = TRUE
  <2>1. m \in BOOLEAN /\ entry["isr"] \in Entries
    BY <1>2 DEF IoapicInv, Types, Contexts
  <2>2. e \in Entries /\ e.vector = entry["isr"].vector
          /\ e.trig_mode = entry["isr"].trig_mode /\ e.mask = m
    BY <2>1 DEF Entries
  <2> QED BY <1>2, <2>2
<1> HIDE DEF e
<1> QED BY <1>1, <1>2, <1>3, <1>4, IsrEntry

\* It writes the entry: masked now, the line is not served.
LEMMA IsrStore ==
  ASSUME IoapicInv, Caller = 0, Store("isr")
  PROVE  IoapicInv'
<1> DEFINE w == entry["isr"]
           e == WriteData(dev, w)
<1>1. At("isr", "store") /\ OnDevice("isr", e)
  BY DEF Store
<1>2. vec = \h83 /\ K \in {8, 10}
  <2> DEFINE it == Do("store", Arg("isr"))
  <2>1. HandlerPlace(vec, K, it)
    BY <1>1, IsrAt DEF IoapicInv
  <2>2. it.op = "store" /\ "store" \in DataAccesses
    BY DEF Do, DataAccesses
  <2> HIDE DEF it
  <2> QED BY <2>1, <2>2 DEF HandlerPlace
<1>3. dev' = e /\ Step("isr") /\ UNCHANGED <<idt, cpuVars, localVars, countVars, failed>>
  BY <1>1 DEF OnDevice
<1>4. Isr83(\h83, K, w, dev.index) /\ RedirIs(P, K, \h83, dev.irr, dev.high, dev.redir)
  BY <1>2 DEF IoapicInv, DeviceInv
<1>5. P \in {156, 163} /\ dev.irr = {}
  <2>1. P \in (Raised \ Off) \union {61} /\ (P # 61 => vec = VectorAt(P))
          /\ (P = 61 => vec \in {\h66, \h78})
          /\ dev.irr \subseteq IF vec = \h78 THEN {\h66}
                               ELSE IF vec = \h9a /\ K = 4 THEN {\h9a} ELSE {}
    BY <1>2, Serving
  <2> QED BY <1>2, <2>1 DEF Raised, VectorAt
<1>6. dev \in Devices /\ w \in Entries /\ Line \in Lines /\ \h0f \in Lines /\ Line # \h0f
  BY LineNumbers DEF IoapicInv, Types, Contexts
<1>7. dev.redir[Line].vector = \h83 /\ dev.redir[Line].trig_mode = LEVEL
  <2>1. dev.redir[Line].vector = VectorAt(P) /\ dev.redir[Line].trig_mode = TrigAt(P)
    BY <1>4, <1>5 DEF RedirIs
  <2>2. VectorAt(P) = \h83 /\ TrigAt(P) = LEVEL
    BY <1>5 DEF VectorAt, TrigAt, IsLevel
  <2> QED BY <2>1, <2>2
<1> HIDE DEF w
<1>8. CASE K = 8
  <2> DEFINE d == [dev EXCEPT !.redir[Line] = w]
  <2>1. w.vector = \h83 /\ w.trig_mode = LEVEL /\ w.mask = TRUE /\ dev.index = Low(Line)
    BY <1>4, <1>8 DEF Isr83
  <2>2. e = Service(d, Line) /\ d \in Devices
    BY <1>6, <2>1, WriteLow
  <2>3. /\ d.redir[Line] = w /\ d.redir[\h0f] = dev.redir[\h0f]
        /\ d.id = dev.id /\ d.arb = dev.arb /\ d.isr = dev.isr /\ d.high = dev.high
        /\ d.irr = dev.irr /\ d.tmr = dev.tmr /\ d.remote_irr = dev.remote_irr
        /\ d.index = dev.index
    BY <1>6 DEF Devices
  <2> HIDE DEF d
  <2>4. e = d
    BY <2>1, <2>2, <2>3 DEF Service, Asks
  <2>5. Isr83(\h83, K + 1, w, dev.index)
    BY <1>8 DEF Isr83
  <2>6. K \in 2 .. 10
    BY <1>8
  <2> HIDE DEF e
  <2>7. /\ dev' \in Devices /\ dev'.id = dev.id /\ dev'.arb = dev.arb /\ dev'.irr = dev.irr
        /\ dev'.isr = dev.isr /\ dev'.remote_irr = dev.remote_irr /\ dev'.tmr = dev.tmr
        /\ dev'.high = dev.high
        /\ dev'.redir[Line].vector = dev.redir[Line].vector
        /\ dev'.redir[Line].trig_mode = dev.redir[Line].trig_mode
        /\ dev'.redir[\h0f] = dev.redir[\h0f]
        /\ dev'.redir[Line].mask = TRUE
        /\ dev'.index = dev.index
    BY <1>3, <1>7, <2>1, <2>2, <2>3, <2>4
  <2>8. entry' = entry /\ entry \in [Contexts -> Entries]
          /\ UNCHANGED <<idt, cpuVars, word, tries, tmr_before, countVars, failed>>
    BY <1>3 DEF localVars, IoapicInv, Types
  <2>9. Isr83(\h83, K + 1, entry'["isr"], dev'.index)
    BY <2>5, <2>7, <2>8 DEF w
  <2> QED BY <1>2, <1>3, <2>6, <2>7, <2>8, <2>9, Isr83Later
<1>9. CASE K = 10
  <2>1. dev.index \in {1, 2, 45, 47}
    BY <1>4, <1>9, RegisterNumbers DEF Isr83
  <2>2. e = dev
    BY <1>6, <2>1, WriteIgnored
  <2>3. dev.redir[Line].mask = TRUE
    <3>1. K > 8 /\ P \in 156 .. 173 /\ P >= 30 /\ \h83 # 0
      BY <1>5, <1>9
    <3> QED BY <1>4, <1>5, <3>1 DEF RedirIs
  <2>4. Isr83(\h83, K + 1, w, dev.index)
    BY <1>9 DEF Isr83
  <2>5. K \in 2 .. 10
    BY <1>9
  <2> HIDE DEF e
  <2>6. dev' = dev /\ entry' = entry /\ entry \in [Contexts -> Entries]
          /\ UNCHANGED <<idt, cpuVars, word, tries, tmr_before, countVars, failed>>
    BY <1>3, <2>2 DEF localVars, IoapicInv, Types
  <2>7. Isr83(\h83, K + 1, entry'["isr"], dev'.index)
    BY <2>4, <2>6 DEF w
  <2> QED BY <1>2, <1>3, <1>6, <2>3, <2>5, <2>6, <2>7, Isr83Later
<1> QED BY <1>2, <1>8, <1>9

\* What the EOI finds.
LEMMA EoiBefore ==
  ASSUME IoapicInv, vec # 0, K = Last(vec)
  PROVE  LET e     == EndOfInterrupt(dev)
             again == IsLevel(P) /\ Line \in dev.high /\ ~dev.redir[Line].mask
         IN
         /\ dev.remote_irr = IF IsLevel(P) THEN {Line} ELSE {}
         /\ vec \in dev.tmr <=> IsLevel(P)
         /\ e \in Devices /\ e.isr = {} /\ e.high = dev.high /\ e.tmr = dev.tmr
         /\ e.index = dev.index /\ e.id = dev.id /\ e.arb = dev.arb /\ e.redir = dev.redir
         /\ again => vec = \h9a /\ P \in {89, 92} /\ e.irr = {\h9a} /\ e.remote_irr = {Line}
         /\ ~again => e.irr = dev.irr /\ e.remote_irr = {}
<1> DEFINE e     == EndOfInterrupt(dev)
           again == IsLevel(P) /\ Line \in dev.high /\ ~dev.redir[Line].mask
<1>1. /\ P \in (Raised \ Off) \union {61} /\ P \in 1 .. 257
      /\ P = 61 => vec \in {\h66, \h78}
      /\ P # 61 => vec = VectorAt(P)
      /\ vec \in Vectors
      /\ dev.isr = IF K <= Last(vec) THEN {vec} ELSE {}
      /\ dev.irr \subseteq IF vec = \h78 THEN {\h66}
                           ELSE IF vec = \h9a /\ K = 4 THEN {\h9a} ELSE {}
      /\ dev.remote_irr = IF IsLevel(P) /\ (dev.irr # {} \/ dev.isr # {}) THEN {Line} ELSE {}
      /\ \A x \in dev.irr \union dev.isr : x \in dev.tmr <=> IsLevel(P)
  BY Serving
<1>2. Last(vec) \in 2 .. 11 /\ K <= Last(vec)
  BY <1>1, HandlerLength
<1>3. dev.isr = {vec}
  BY <1>1, <1>2
<1>4. (vec \in dev.tmr <=> IsLevel(P)) /\ dev.remote_irr = IF IsLevel(P) THEN {Line} ELSE {}
  BY <1>1, <1>3
<1>5. RedirIs(P, K, vec, dev.irr, dev.high, dev.redir) /\ LineIs(P, K, vec, dev.irr, dev.high)
  BY DEF IoapicInv, DeviceInv
<1>6. ASSUME IsLevel(P)
      PROVE  /\ vec = VectorAt(P) /\ dev.redir[Line].vector = vec
             /\ dev.redir[Line].trig_mode = LEVEL /\ vec # \h78
  <2>1. P # 61 /\ P >= 30
    BY <1>1, <1>6 DEF IsLevel
  <2>2. dev.redir[Line].vector = VectorAt(P) /\ dev.redir[Line].trig_mode = TrigAt(P)
    BY <1>5, <2>1 DEF RedirIs
  <2>3. VectorAt(P) # \h78
    BY <1>6 DEF IsLevel, VectorAt
  <2> QED BY <1>1, <1>6, <2>1, <2>2, <2>3 DEF TrigAt
<1>7. LET agn == vec \in dev.tmr /\ Line \in dev.high /\ ~dev.redir[Line].mask IN
      /\ e \in Devices /\ e.isr = {} /\ e.high = dev.high /\ e.tmr = dev.tmr
      /\ e.index = dev.index /\ e.id = dev.id /\ e.arb = dev.arb /\ e.redir = dev.redir
      /\ agn => e.irr = dev.irr \union {vec} /\ e.remote_irr = {Line}
      /\ ~agn /\ vec \in dev.tmr => e.irr = dev.irr /\ e.remote_irr = {}
      /\ ~agn /\ vec \notin dev.tmr => e.irr = dev.irr /\ e.remote_irr = dev.remote_irr
  <2>1. dev \in Devices /\ vec \in Vectors
    BY <1>1 DEF IoapicInv, Types
  <2>2. dev.remote_irr \subseteq {Line}
    BY <1>4
  <2>3. vec \in dev.tmr => /\ dev.redir[Line].vector = vec /\ dev.redir[Line].trig_mode = LEVEL
                           /\ dev.remote_irr = {Line}
    BY <1>4, <1>6
  <2> QED BY ONLY <1>3, <2>1, <2>2, <2>3, EoiEffect
<1>8. again <=> (vec \in dev.tmr /\ Line \in dev.high /\ ~dev.redir[Line].mask)
  BY <1>4
<1>9. ASSUME again PROVE vec = \h9a /\ P \in {89, 92} /\ dev.irr = {}
  <2>1. ~Lowered(vec, K, dev.irr)
    BY <1>5, <1>9 DEF LineIs
  <2>2. vec \notin Lowering /\ vec # \h98
    <3>1. vec \in Lowering => Last(vec) = 3
      BY DEF Lowering, Last
    <3>2. vec = \h98 => Last(vec) = 5
      BY DEF Last
    <3> QED BY <2>1, <3>1, <3>2 DEF Lowered
  <2>3. vec \notin {\h66, \h76, \h78}
    <3>1. vec \notin {\h66, \h76}
      <4>1. VectorAt(P) \notin {\h66, \h76}
        BY <1>9 DEF IsLevel, VectorAt
      <4> QED BY <1>6, <1>9, <4>1
    <3> QED BY <1>6, <1>9, <3>1
  <2>4. dev.irr = {}
    <3>1. vec = \h9a => K # 4
      BY DEF Last
    <3> QED BY <1>1, <2>3, <3>1
  <2>5. vec # \h83
    <3>1. ASSUME vec = \h83 PROVE P \in 156 .. 173 /\ P >= 30 /\ K > 8
      <4>1. P \in {156, 163}
        BY <1>1, <3>1 DEF Raised, VectorAt
      <4>2. Last(vec) = 11
        BY <3>1 DEF Last
      <4> QED BY <4>1, <4>2
    <3>2. vec = \h83 => dev.redir[Line].mask = TRUE
      BY <1>5, <2>4, <3>1 DEF RedirIs
    <3> QED BY <1>9, <3>2
  <2>6. vec = \h9a
    BY <1>1, <2>2, <2>3, <2>5 DEF Vectors, Lowering
  <2>7. P \in {89, 92}
    BY <1>1, <2>6 DEF Raised, Off, VectorAt
  <2> QED BY <2>4, <2>6, <2>7
<1> HIDE DEF e, again
<1>10. again => vec = \h9a /\ P \in {89, 92} /\ e.irr = {\h9a} /\ e.remote_irr = {Line}
  BY <1>7, <1>8, <1>9
<1>11. ~again => e.irr = dev.irr /\ e.remote_irr = {}
  BY <1>4, <1>7, <1>8
<1> QED BY <1>4, <1>7, <1>10, <1>11 DEF e, again

\* The handler ends its interrupt.  When the line is still high, for a second
\* run of that of 0x9a only, the next request follows.
LEMMA IsrEoi ==
  ASSUME IoapicInv, Caller = 0, Eoi("isr")
  PROVE  IoapicInv'
<1> DEFINE e     == EndOfInterrupt(dev)
           again == IsLevel(P) /\ Line \in dev.high /\ ~dev.redir[Line].mask
<1>1. At("isr", "eoi") /\ OnDevice("isr", e)
  BY DEF Eoi
<1>2. vec \in Vectors /\ vec # 0 /\ K = Last(vec)
  BY <1>1, IsrAt, ZenonT(40) DEF IoapicInv, HandlerPlace, Do
<1>3. dev' = e /\ Step("isr") /\ UNCHANGED <<idt, cpuVars, localVars, countVars, failed>>
  BY <1>1 DEF OnDevice
<1>4. /\ dev.remote_irr = IF IsLevel(P) THEN {Line} ELSE {}
      /\ vec \in dev.tmr <=> IsLevel(P)
      /\ e \in Devices /\ e.isr = {} /\ e.high = dev.high /\ e.tmr = dev.tmr
      /\ e.index = dev.index /\ e.id = dev.id /\ e.arb = dev.arb /\ e.redir = dev.redir
      /\ again => vec = \h9a /\ P \in {89, 92} /\ e.irr = {\h9a} /\ e.remote_irr = {Line}
      /\ ~again => e.irr = dev.irr /\ e.remote_irr = {}
  BY <1>2, EoiBefore
<1>5. Last(vec) \in 2 .. 11 /\ K \in 1 .. Last(vec) /\ Last(vec) + 1 # 1 /\ Last(vec) # 1
  BY <1>2, HandlerLength
<1>6. /\ Irq(P, K, vec, dev.irr, dev.isr, dev.remote_irr, dev.tmr)
      /\ LineIs(P, K, vec, dev.irr, dev.high)
      /\ RedirIs(P, K, vec, dev.irr, dev.high, dev.redir)
  BY DEF IoapicInv, DeviceInv
<1>7. /\ P \in (Raised \ Off) \union {61} /\ (P # 61 => vec = VectorAt(P))
      /\ P = 61 => vec \in {\h66, \h78}
      /\ dev.irr \subseteq IF vec = \h78 THEN {\h66}
                           ELSE IF vec = \h9a /\ K = 4 THEN {\h9a} ELSE {}
      /\ vec \in Requests(P)
  BY <1>2, Serving
<1>8. vec = \h9a => Last(vec) = 3 /\ Last(vec) + 1 = 4
  BY DEF Last
<1>9. dev.irr \subseteq (IF vec = \h78 THEN {\h66} ELSE {}) /\ (IsLevel(P) => dev.irr = {})
  <2>1. dev.irr \subseteq (IF vec = \h78 THEN {\h66} ELSE {})
    BY <1>2, <1>7, <1>8
  <2>2. IsLevel(P) => vec # \h78
    <3>1. IsLevel(P) => VectorAt(P) # \h78 /\ P # 61
      BY DEF IsLevel, VectorAt
    <3> QED BY <1>7, <3>1
  <2> QED BY <2>1, <2>2
<1> HIDE DEF e, again
<1> DEFINE n == K + 1
<1>10. n \in 1 .. Last(vec) + 1 /\ ~(n <= Last(vec)) /\ n # 1 /\ K # 1
  BY <1>2, <1>5
<1>11. vec = \h9a => K = 3 /\ n = 4
  BY <1>2, <1>8
<1>12. vec # \h9a => n # 4 \/ vec \notin {\h9a}
  OBVIOUS
<1>13. RedirIs(P, n, vec, e.irr, e.high, e.redir)
  <2>1. P \in 156 .. 173 => vec = \h83
    BY <1>7 DEF Raised, VectorAt
  <2>2. vec = \h83 => K > 8 /\ ~again
    <3>1. vec = \h83 => Last(vec) = 11
      BY DEF Last
    <3> QED BY <1>2, <1>4, <3>1
  <2>3. P \in 156 .. 173 /\ e.irr = {} /\ n > 8 => dev.irr = {} /\ K > 8
    BY <1>4, <2>1, <2>2
  <2> HIDE DEF n
  <2> QED BY <1>2, <1>4, <1>6, <2>3, RedirServes
<1>14. CASE again
  <2>1. /\ vec = \h9a /\ P \in {89, 92} /\ e.irr = {\h9a} /\ e.remote_irr = {Line} /\ IsLevel(P)
        /\ dev.irr = {} /\ K = 3 /\ n = 4 /\ Line \in dev.high /\ \h9a \in dev.tmr
    BY <1>4, <1>9, <1>11, <1>14 DEF again
  <2>2. Requests(P) = {\h9a}
    BY <2>1 DEF Requests, Raised, VectorAt
  <2>3. Irq(P, 4, \h9a, {\h9a}, {}, {Line}, dev.tmr)
    <3>1. Last(\h9a) = 3
      BY DEF Last
    <3> QED BY <2>1, <2>2, <3>1 DEF Irq
  <2>4. LineIs(P, 4, \h9a, {\h9a}, dev.high)
    <3>1. ~Lowered(\h9a, 4, {\h9a})
      BY DEF Lowered, Lowering
    <3> QED BY <1>6, <2>1, <3>1 DEF LineIs
  <2>5. Isr83(\h9a, 4, entry["isr"], dev.index)
    BY DEF Isr83
  <2>6. ASSUME First
        PROVE  /\ Counts(P, 4, \h9a, {\h9a}, g) /\ Retrigger(P, 4, \h9a, {\h9a}, dev.high, g[\h9a])
               /\ Simultaneous(P, 4, \h9a, {\h9a}, g_rip, g_66_after_78) /\ Exact(P, dev.high)
               /\ Tmr(P, 4, \h9a, {\h9a}, dev.tmr, tmr_before, g_tmr_79)
    <3>1. /\ Counts(P, 3, \h9a, {}, g) /\ Retrigger(P, 3, \h9a, {}, dev.high, g[\h9a])
          /\ Simultaneous(P, 3, \h9a, {}, g_rip, g_66_after_78) /\ Exact(P, dev.high)
          /\ Tmr(P, 3, \h9a, {}, dev.tmr, tmr_before, g_tmr_79)
      BY <2>1, <2>6 DEF IoapicInv, FirstInv, CountInv, TmrInv
    <3>2. \A x \in Vectors \ {\h9a, \h79} : Ahead(\h9a, 4, x, {\h9a}) <=> Ahead(\h9a, 3, x, {})
      BY DEF Ahead
    <3>3. Counts(P, 4, \h9a, {\h9a}, g)
      BY <3>1, <3>2 DEF Counts
    <3>4. Retrigger(P, 4, \h9a, {\h9a}, dev.high, g[\h9a])
      <4>1. {\h9a} # {}
        OBVIOUS
      <4> QED BY <2>1, <3>1, <4>1 DEF Retrigger
    <3>5. Simultaneous(P, 4, \h9a, {\h9a}, g_rip, g_66_after_78)
      BY <2>1, <3>1 DEF Simultaneous, Ahead
    <3>6. Tmr(P, 4, \h9a, {\h9a}, dev.tmr, tmr_before, g_tmr_79)
      BY <2>1, <3>1 DEF Tmr
    <3> QED BY <3>1, <3>3, <3>4, <3>5, <3>6
  <2>7. ASSUME P' = P, K' = K + 1 PROVE DeviceInv' /\ (First => CountInv' /\ TmrInv')
    <3>1. DeviceInv'
      BY <1>3, <1>4, <1>13, <2>1, <2>3, <2>4, <2>5, <2>7 DEF DeviceInv, cpuVars, localVars
    <3>2. First => CountInv' /\ TmrInv'
      BY <1>3, <1>4, <2>1, <2>6, <2>7 DEF CountInv, TmrInv, cpuVars, countVars, localVars
    <3> QED BY <3>1, <3>2
  <2> QED BY <1>2, <1>3, <1>4, <1>5, <2>7, IsrSettles
          DEF IoapicInv, Types, localVars, countVars
<1>15. CASE ~again
  <2>1. e.irr = dev.irr /\ e.remote_irr = {}
    BY <1>4, <1>15
  <2> HIDE DEF n
  <2>2. Irq(P, n, vec, dev.irr, {}, {}, dev.tmr)
    BY <1>2, <1>6, <1>9, <1>10 DEF Irq
  <2>3. LineIs(P, n, vec, dev.irr, dev.high)
    <3>1. vec \in Lowering \/ vec = \h98 => Lowered(vec, K, dev.irr)
      <4>1. (vec \in Lowering => Last(vec) = 3) /\ (vec = \h98 => Last(vec) = 5)
        BY DEF Lowering, Last
      <4> QED BY <1>2, <4>1 DEF Lowered
    <3>2. vec = \h9a => dev.high = {}
      <4>1. vec = \h9a => P \in {89, 92}
        BY <1>7 DEF Raised, Off, VectorAt
      <4>2. P \in {89, 92} => /\ IsLevel(P) /\ P \notin Masked /\ P \notin 156 .. 173 /\ P >= 30
                              /\ P # 57
        BY DEF IsLevel, Masked
      <4>3. vec = \h9a => dev.redir[Line].mask = FALSE
        BY <1>6, <4>1, <4>2 DEF RedirIs
      <4>4. vec = \h9a => Line \notin dev.high
        BY <1>15, <4>1, <4>2, <4>3 DEF again
      <4>5. vec = \h9a => dev.high \subseteq {Line}
        BY <1>6, <4>1, <4>2 DEF LineIs
      <4> QED BY <4>4, <4>5
    <3>3. Lowered(vec, n, dev.irr) => vec \in Lowering \/ vec \in {\h98, \h9a}
      BY DEF Lowered
    <3> QED BY <1>2, <1>6, <3>1, <3>2, <3>3 DEF LineIs
  <2>4. Isr83(vec, n, entry["isr"], dev.index)
    <3>1. vec = \h83 => n = 12
      BY <1>2 DEF Last, n
    <3> QED BY <3>1 DEF Isr83
  <2>5. ASSUME First
        PROVE  /\ Counts(P, n, vec, dev.irr, g) /\ Retrigger(P, n, vec, dev.irr, dev.high, g[\h9a])
               /\ Simultaneous(P, n, vec, dev.irr, g_rip, g_66_after_78) /\ Exact(P, dev.high)
               /\ Tmr(P, n, vec, dev.irr, dev.tmr, tmr_before, g_tmr_79)
    <3>1. /\ Counts(P, K, vec, dev.irr, g) /\ Retrigger(P, K, vec, dev.irr, dev.high, g[\h9a])
          /\ Simultaneous(P, K, vec, dev.irr, g_rip, g_66_after_78) /\ Exact(P, dev.high)
          /\ Tmr(P, K, vec, dev.irr, dev.tmr, tmr_before, g_tmr_79)
      BY <2>5 DEF IoapicInv, FirstInv, CountInv, TmrInv
    <3>2. \A x : Ahead(vec, n, x, dev.irr) <=> Ahead(vec, K, x, dev.irr)
      BY <1>10 DEF Ahead
    <3>3. Counts(P, n, vec, dev.irr, g)
      BY <3>1, <3>2 DEF Counts
    <3>4. Retrigger(P, n, vec, dev.irr, dev.high, g[\h9a])
      <4>1. CASE P \in 87 .. 92
        <5>1. vec = \h9a /\ P \in {89, 92}
          BY <1>7, <4>1 DEF Raised, Off, VectorAt
        <5>2. dev.irr = {} /\ K = 3 /\ n = 4
          BY <1>9, <1>11, <5>1
        <5>3. dev.high = {}
          <6>1. Lowered(vec, n, dev.irr)
            BY <5>1, <5>2 DEF Lowered
          <6> QED BY <1>2, <2>3, <6>1 DEF LineIs
        <5> QED BY <1>2, <3>1, <4>1, <5>1, <5>2, <5>3 DEF Retrigger
      <4>2. CASE P \notin 87 .. 92
        BY <3>1, <4>2 DEF Retrigger
      <4> QED BY <4>1, <4>2
    <3>5. Simultaneous(P, n, vec, dev.irr, g_rip, g_66_after_78)
      BY <3>1, <3>2 DEF Simultaneous
    <3>6. Tmr(P, n, vec, dev.irr, dev.tmr, tmr_before, g_tmr_79)
      BY <1>10, <3>1 DEF Tmr
    <3> QED BY <3>1, <3>3, <3>4, <3>5, <3>6
  <2>6. ASSUME P' = P, K' = K + 1 PROVE DeviceInv' /\ (First => CountInv' /\ TmrInv')
    <3>1. DeviceInv'
      BY <1>3, <1>4, <1>13, <2>1, <2>2, <2>3, <2>4, <2>6 DEF DeviceInv, cpuVars, localVars, n
    <3>2. First => CountInv' /\ TmrInv'
      BY <1>3, <1>4, <2>1, <2>5, <2>6 DEF CountInv, TmrInv, cpuVars, countVars, localVars, n
    <3> QED BY <3>1, <3>2
  <2> QED BY <1>2, <1>3, <1>4, <1>5, <2>6, IsrSettles
          DEF IoapicInv, Types, localVars, countVars
<1> QED BY <1>14, <1>15

\* Every step of a handler.
LEMMA IsrSteps ==
  ASSUME IoapicInv, Caller = 0, ContextStep("isr")
  PROVE  IoapicInv'
<1>1. \A op : At("isr", op) =>
        op \in {"count", "tmr", "line", "line_on_run", "eoi", "select", "load", "mask", "store"}
  <2> SUFFICES ASSUME NEW op, At("isr", op)
      PROVE op \in {"count", "tmr", "line", "line_on_run", "eoi", "select", "load", "mask", "store"}
    OBVIOUS
  <2> DEFINE a == Arg("isr")
  <2>1. HandlerPlace(vec, K, Do(op, a))
    BY IsrAt DEF IoapicInv
  <2>2. Do(op, a).op = op
    BY DEF Do
  <2> HIDE DEF a
  <2> QED BY <2>1, <2>2 DEF HandlerPlace
<1>2. ~WriteWord("isr") /\ ~ReadWordInto("isr") /\ ~NewEntry("isr") /\ ~Reset("isr")
        /\ ~Await("isr") /\ ~Say("isr") /\ ~InstallHandler("isr") /\ ~SetFlag("isr")
        /\ ~Loop("isr") /\ ~Call("isr")
  <2>1. /\ ~At("isr", "flip") /\ ~At("isr", "ones") /\ ~At("isr", "zero") /\ ~At("isr", "old")
        /\ ~At("isr", "new") /\ ~At("isr", "entry") /\ ~At("isr", "reset")
        /\ ~At("isr", "await") /\ ~At("isr", "report") /\ ~At("isr", "handle")
        /\ ~At("isr", "cli") /\ ~At("isr", "sti") /\ ~At("isr", "hlt")
        /\ ~At("isr", "until") /\ ~At("isr", "again") /\ ~At("isr", "call")
    BY <1>1
  <2> QED BY <2>1, Zenon DEF WriteWord, ReadWordInto, NewEntry, Reset, Await, Say, InstallHandler,
            SetFlag, Loop, Call
<1> QED
  BY <1>2, IsrSelect, IsrStore, IsrSetIrqLine, IsrSetOnRun, IsrEoi, IsrLoad, IsrMask, IsrCount,
     IsrReadTmr, Zenon DEF ContextStep

-----------------------------------------------------------------------------
(***************************************************************************)
(* Steps of vCPU 1, of the interrupt logic and of the ioctl.               *)
(***************************************************************************)
\* vCPU 1 touches the line: what is left to be shown of the devices.
LEMMA HelperSettles ==
  ASSUME IoapicInv, job # None, Step("helper"), NEW m \in {2, 3}, H + 1 = m,
         m = 3 => job = "toggle",
         UNCHANGED <<idt, cpuVars, localVars, countVars, failed>>,
         dev' \in Devices, SameCore(dev, dev'),
         m = 2 \/ dev'.irr = dev.irr,
         Irq(P, K, vec, dev'.irr, dev'.isr, dev'.remote_irr, dev'.tmr),
         LineIs(P, K, vec, dev'.irr, dev'.high),
         RedirIs(P, K, vec, dev'.irr, dev'.high, dev'.redir),
         First =>
           /\ Counts(P, K, vec, dev'.irr, g)
           /\ Retrigger(P, K, vec, dev'.irr, dev'.high, g[\h9a])
           /\ Simultaneous(P, K, vec, dev'.irr, g_rip, g_66_after_78)
           /\ Exact(P, dev'.high)
           /\ Tmr(P, K, vec, dev'.irr, dev'.tmr, tmr_before, g_tmr_79)
  PROVE  IoapicInv'
<1>1. P' = P /\ K' = K /\ H' = m
  BY StepEffect DEF IoapicInv
<1>2. running' = running /\ ioctls' = ioctls /\ pc' \in [Contexts -> 1 .. MainLen + 1]
  <2>1. "helper" \in Contexts /\ pc["helper"] = H
    BY DEF Contexts, H
  <2>2. H \in 1 .. MainLen
    <3>1. H \in 1 .. 3
      BY DEF IoapicInv, Helper
    <3> QED BY <3>1, MainLength
  <2> QED BY <2>1, <2>2, StepEffect DEF IoapicInv
<1>3. MainLen' = MainLen
  BY DEF MainLen
<1>4. Types'
  BY <1>2, <1>3 DEF IoapicInv, Types, cpuVars, localVars, countVars
<1>5. Flow' /\ Installed' /\ Index'
  BY <1>1, <1>2, <1>3 DEF IoapicInv, Flow, Installed, Index, cpuVars, localVars, SameCore
<1>6. Helper'
  <2>1. job' = job /\ ipi' = ipi /\ vec' = vec /\ g_tmr_79' = g_tmr_79
    BY DEF cpuVars, countVars
  <2>2. H' \in 1 .. (IF job' = "toggle" THEN 3 ELSE 2)
    BY <1>1, <2>1
  <2>3. Called' <=> ipi # None
    BY <1>1, <2>1 DEF Called
  <2>4. ASSUME Called' PROVE /\ P' \in Awaits /\ dev'.irr = {} /\ vec' = 0 /\ g_tmr_79' = -1
                             /\ running'
    <3>1. Called /\ H > 1 /\ H \in 1 .. 3
      BY <2>3, <2>4 DEF IoapicInv, Helper, Called
    <3>2. dev'.irr = dev.irr
      <4>1. m # 2
        BY <3>1
      <4> QED BY <4>1
    <3> QED BY <1>1, <1>2, <2>1, <3>1, <3>2 DEF IoapicInv, Helper
  <2> QED BY <1>1, <1>2, <2>1, <2>2, <2>4 DEF IoapicInv, Helper, First
<1>7. DeviceInv' /\ LocalInv'
  BY <1>1 DEF IoapicInv, DeviceInv, LocalInv, SameCore, cpuVars, localVars
<1>8. First => CountInv' /\ TmrInv'
  BY <1>1 DEF CountInv, TmrInv, cpuVars, localVars, countVars
<1>9. FirstInv'
  BY <1>2, <1>8 DEF IoapicInv, FirstInv, First
<1> QED BY <1>4, <1>5, <1>6, <1>7, <1>9 DEF IoapicInv

\* It raises the line, which is what main waits for.
LEMMA HelperRaises ==
  ASSUME IoapicInv, job # None, H = 1, OnDevice("helper", SetLine(dev, Line, 1))
  PROVE  IoapicInv'
<1> DEFINE e == SetLine(dev, Line, 1)
<1>1. dev' = e /\ Step("helper") /\ UNCHANGED <<idt, cpuVars, localVars, countVars, failed>>
  BY DEF OnDevice
<1>2. P \in Awaits /\ dev.irr = {} /\ vec = 0 /\ g_tmr_79 = -1
  BY DEF IoapicInv, Helper, Called
<1>3. /\ Irq(P, K, 0, {}, dev.isr, dev.remote_irr, dev.tmr) /\ LineIs(P, K, 0, {}, dev.high)
      /\ RedirIs(P, K, 0, {}, dev.high, dev.redir)
  BY <1>2 DEF IoapicInv, DeviceInv
<1>4. /\ P \in MustLower /\ P \in MayBeHigh /\ P \in Raised /\ P \notin Masked
      /\ P \notin 156 .. 173 /\ P \notin 57 .. 61 /\ P >= 30 /\ P >= 93 /\ VectorAt(P) = \h79
      /\ Requests(P) = {\h79} /\ P # 57
  BY <1>2 DEF Awaits, MustLower, MayBeHigh, Raised, Masked, VectorAt, Requests
<1>5. dev.high = {} /\ dev.isr = {} /\ dev.remote_irr = {}
  BY <1>3, <1>4 DEF LineIs, Irq
<1>6. dev.redir[Line].vector = \h79 /\ dev.redir[Line].trig_mode = TrigAt(P)
        /\ dev.redir[Line].mask = FALSE
  BY <1>3, <1>4 DEF RedirIs
<1>7. dev \in Devices /\ Line \in Lines /\ \h79 \in Vectors
  BY LineNumbers DEF IoapicInv, Types, Vectors
<1>8. /\ e \in Devices /\ SameCore(dev, e) /\ e.high = {Line} /\ e.irr = {\h79}
      /\ IsLevel(P) => e.tmr = dev.tmr \union {\h79} /\ e.remote_irr = {Line}
      /\ ~IsLevel(P) => e.tmr = dev.tmr \ {\h79} /\ e.remote_irr = {}
  <2>1. CASE IsLevel(P)
    <3> DEFINE v == \h79
    <3>1. /\ dev.redir[Line].trig_mode = LEVEL /\ dev.redir[Line].vector = v
          /\ dev.redir[Line].vector \in Vectors
      BY <1>6, <1>7, <2>1 DEF TrigAt
    <3>2. dev.redir[Line].mask = FALSE /\ Line \notin dev.remote_irr
      BY <1>5, <1>6
    <3> HIDE DEF v
    <3>3. /\ e \in Devices /\ SameCore(dev, e) /\ e.high = dev.high \union {Line}
          /\ dev.redir[Line].mask = TRUE \/ Line \in dev.remote_irr =>
               e.irr = dev.irr /\ e.tmr = dev.tmr /\ e.remote_irr = dev.remote_irr
          /\ dev.redir[Line].mask = FALSE /\ Line \notin dev.remote_irr =>
               /\ e.irr = dev.irr \union {v} /\ e.tmr = dev.tmr \union {v}
               /\ e.remote_irr = dev.remote_irr \union {Line}
      <4>1. dev \in Devices /\ Line \in Lines
        BY <1>7
      <4> QED BY ONLY <4>1, <3>1, LevelUpEffect
    <3>4. /\ e \in Devices /\ SameCore(dev, e) /\ e.high = dev.high \union {Line}
          /\ e.irr = dev.irr \union {v} /\ e.tmr = dev.tmr \union {v}
          /\ e.remote_irr = dev.remote_irr \union {Line}
      <4> HIDE DEF e
      <4> QED BY <3>2, <3>3
    <3> HIDE DEF e
    <3> QED BY <1>2, <1>5, <2>1, <3>4 DEF v
  <2>2. CASE ~IsLevel(P)
    <3>1. /\ dev.redir[Line].trig_mode = EDGE /\ dev.redir[Line].vector \in Vectors
          /\ Line \notin dev.high
      BY <1>5, <1>6, <1>7, <2>2 DEF TrigAt
    <3>2. LET u == SetLine(dev, Line, 1) IN
          /\ u \in Devices /\ SameCore(dev, u)
          /\ u.high = dev.high \union {Line} /\ u.remote_irr = dev.remote_irr
          /\ dev.redir[Line].mask = FALSE => /\ u.irr = dev.irr \union {dev.redir[Line].vector}
                                             /\ u.tmr = dev.tmr \ {dev.redir[Line].vector}
      BY ONLY <1>7, <3>1, EdgeUpEffect
    <3> QED BY <1>2, <1>5, <1>6, <2>2, <3>2
  <2> QED BY <2>1, <2>2
<1> HIDE DEF e
<1>9. e.isr = {} /\ e.redir = dev.redir
  BY <1>5, <1>8 DEF SameCore
<1>10. Irq(P, K, 0, {\h79}, {}, e.remote_irr, e.tmr)
  <2>1. \A x \in {\h79} : x \in e.tmr <=> IsLevel(P)
    BY <1>8
  <2>2. e.remote_irr = IF IsLevel(P) THEN {Line} ELSE {}
    BY <1>8
  <2> QED BY <1>4, <2>1, <2>2 DEF Irq
<1>11. LineIs(P, K, 0, {\h79}, {Line}) /\ RedirIs(P, K, 0, {\h79}, {Line}, dev.redir)
  <2>1. LineIs(P, K, 0, {\h79}, {Line})
    BY <1>4 DEF LineIs
  <2>2. RedirIs(P, K, 0, {\h79}, {Line}, dev.redir)
    BY <1>3, <1>4 DEF RedirIs
  <2> QED BY <2>1, <2>2
<1>12. ASSUME First
       PROVE  /\ Counts(P, K, 0, {\h79}, g) /\ Retrigger(P, K, 0, {\h79}, {Line}, g[\h9a])
              /\ Simultaneous(P, K, 0, {\h79}, g_rip, g_66_after_78) /\ Exact(P, {Line})
              /\ Tmr(P, K, 0, {\h79}, e.tmr, tmr_before, g_tmr_79)
  <2>1. /\ Counts(P, K, 0, {}, g) /\ Retrigger(P, K, 0, {}, {}, g[\h9a])
        /\ Simultaneous(P, K, 0, {}, g_rip, g_66_after_78)
        /\ Tmr(P, K, 0, {}, dev.tmr, tmr_before, -1)
    BY <1>2, <1>5, <1>12 DEF IoapicInv, FirstInv, CountInv, TmrInv
  <2>2. Counts(P, K, 0, {\h79}, g)
    <3>1. \A x \in Vectors \ {\h9a, \h79} : Ahead(0, K, x, {\h79}) <=> Ahead(0, K, x, {})
      BY DEF Ahead
    <3> QED BY <2>1, <3>1 DEF Counts
  <2>3. Retrigger(P, K, 0, {\h79}, {Line}, g[\h9a])
    <3>1. ~(P <= 86) /\ P \notin 87 .. 92
      BY <1>4, <1>2 DEF Awaits
    <3> QED BY <1>4, <2>1, <3>1 DEF Retrigger
  <2>4. Simultaneous(P, K, 0, {\h79}, g_rip, g_66_after_78)
    <3>1. P \notin 57 .. 60 /\ P \notin 59 .. 60
      BY <1>4, <1>2 DEF Awaits
    <3> QED BY <2>1, <3>1 DEF Simultaneous, Ahead
  <2>5. Tmr(P, K, 0, {\h79}, e.tmr, tmr_before, -1)
    <3>1. IsLevel(P) <=> P \in {234, 245}
      BY <1>2 DEF Awaits, IsLevel
    <3>2. (P \in {234, 245} => \h79 \in e.tmr) /\ (P \in {223, 256} => \h79 \notin e.tmr)
      BY <1>8, <3>1, <1>2 DEF Awaits
    <3> QED BY <1>2, <2>1, <3>2 DEF Tmr, Awaits
  <2>6. Exact(P, {Line})
    BY DEF Exact
  <2> QED BY <1>2, <2>2, <2>3, <2>4, <2>5, <2>6
<1>13. 2 \in {2, 3} /\ H + 1 = 2 /\ 2 # 3
  OBVIOUS
<1> QED BY <1>1, <1>2, <1>8, <1>9, <1>10, <1>11, <1>12, <1>13, HelperSettles

\* It lowers the line again, wherever main is by then.
LEMMA HelperLowers ==
  ASSUME IoapicInv, job = "toggle", H = 2, OnDevice("helper", SetLine(dev, Line, 0))
  PROVE  IoapicInv'
<1> DEFINE e == SetLine(dev, Line, 0)
<1>1. dev' = e /\ Step("helper") /\ UNCHANGED <<idt, cpuVars, localVars, countVars, failed>>
  BY DEF OnDevice
<1>2. dev \in Devices /\ Line \in Lines
  BY LineNumbers DEF IoapicInv, Types
<1>3. /\ e \in Devices /\ SameCore(dev, e)
      /\ e.high = dev.high \ {Line} /\ e.remote_irr = dev.remote_irr
      /\ e.irr = dev.irr /\ e.tmr = dev.tmr
  BY ONLY <1>2, LineDownEffect
<1> HIDE DEF e
<1>4. e.isr = dev.isr /\ e.redir = dev.redir
  BY <1>3 DEF SameCore
<1>5. Irq(P, K, vec, e.irr, e.isr, e.remote_irr, e.tmr)
  BY <1>3, <1>4 DEF IoapicInv, DeviceInv
<1>6. LineIs(P, K, vec, e.irr, e.high)
  BY <1>3 DEF IoapicInv, DeviceInv, LineIs
<1>7. RedirIs(P, K, vec, e.irr, e.high, e.redir)
  <2>1. RedirIs(P, K, vec, dev.irr, dev.high, dev.redir)
    BY DEF IoapicInv, DeviceInv
  <2>2. e.high # {} => dev.high # {}
    BY <1>3
  <2> HIDE DEF Masked
  <2> QED BY <1>3, <1>4, <2>1, <2>2 DEF RedirIs
<1>8. job # None
  BY DEF None
<1>9. ASSUME First
      PROVE  /\ Counts(P, K, vec, e.irr, g) /\ Retrigger(P, K, vec, e.irr, e.high, g[\h9a])
             /\ Simultaneous(P, K, vec, e.irr, g_rip, g_66_after_78) /\ Exact(P, e.high)
             /\ Tmr(P, K, vec, e.irr, e.tmr, tmr_before, g_tmr_79)
  <2>1. P > 222 /\ P \in Int
    BY <1>8, <1>9, MainLength DEF IoapicInv, Helper, Flow
  <2>2. /\ Counts(P, K, vec, dev.irr, g) /\ Retrigger(P, K, vec, dev.irr, dev.high, g[\h9a])
        /\ Simultaneous(P, K, vec, dev.irr, g_rip, g_66_after_78)
        /\ Tmr(P, K, vec, dev.irr, dev.tmr, tmr_before, g_tmr_79)
    BY <1>9 DEF IoapicInv, FirstInv, CountInv, TmrInv
  <2>3. Retrigger(P, K, vec, e.irr, e.high, g[\h9a]) /\ Exact(P, e.high)
    BY <1>3, <2>1, <2>2 DEF Retrigger, Exact
  <2> QED BY <1>3, <2>2, <2>3
<1>10. 3 \in {2, 3} /\ H + 1 = 3
  OBVIOUS
<1> QED BY <1>1, <1>3, <1>5, <1>6, <1>7, <1>8, <1>9, <1>10, HelperSettles

\* Every step of the function on vCPU 1.
LEMMA HelperSteps ==
  ASSUME IoapicInv, ContextStep("helper")
  PROVE  IoapicInv'
<1>1. \A op : At("helper", op) => op = "line"
  BY HelperAt DEF IoapicInv
<1>2. SetIrqLine("helper")
  <2>1. /\ ~At("helper", "flip") /\ ~At("helper", "ones") /\ ~At("helper", "zero")
        /\ ~At("helper", "old") /\ ~At("helper", "new") /\ ~At("helper", "entry")
        /\ ~At("helper", "reset") /\ ~At("helper", "await") /\ ~At("helper", "report")
        /\ ~At("helper", "handle") /\ ~At("helper", "cli") /\ ~At("helper", "sti")
        /\ ~At("helper", "hlt") /\ ~At("helper", "until") /\ ~At("helper", "again")
        /\ ~At("helper", "call") /\ ~At("helper", "select") /\ ~At("helper", "store")
        /\ ~At("helper", "line_on_run") /\ ~At("helper", "eoi") /\ ~At("helper", "load")
        /\ ~At("helper", "mask") /\ ~At("helper", "count") /\ ~At("helper", "tmr")
    BY <1>1
  <2> QED BY <2>1, Zenon DEF ContextStep, WriteWord, ReadWordInto, NewEntry, Reset, Await, Say,
            InstallHandler, SetFlag, Loop, Call, Select, Store, SetOnRun, Eoi, Load, Mask,
            Count, ReadTmr
<1> DEFINE a == Arg("helper")
<1>3. At("helper", "line") /\ OnDevice("helper", SetLine(dev, a[1], a[2]))
  BY <1>2 DEF SetIrqLine
<1>4. job \in {"toggle", "set"} /\ \/ H = 1 /\ a = <<Line, 1>>
                                   \/ H = 2 /\ a = <<Line, 0>> /\ job = "toggle"
  BY <1>3, HelperAt DEF IoapicInv
<1>5. job # None
  BY <1>4 DEF None
<1> HIDE DEF a
<1>6. CASE H = 1 /\ a = <<Line, 1>>
  <2>1. a[1] = Line /\ a[2] = 1
    BY <1>6
  <2> QED BY <1>3, <1>5, <1>6, <2>1, HelperRaises
<1>7. CASE H = 2 /\ a = <<Line, 0>> /\ job = "toggle"
  <2>1. a[1] = Line /\ a[2] = 0
    BY <1>7
  <2> QED BY <1>3, <1>7, <2>1, HelperLowers
<1> QED BY <1>4, <1>6, <1>7

\* A function begins and ends on vCPU 1.
LEMMA HelperTurns ==
  ASSUME IoapicInv, Pickup \/ FinishJob
  PROVE  IoapicInv'
<1>1. /\ UNCHANGED <<dev, idt, running, ioctls, iflag, halted, vec, localVars, countVars, failed>>
      /\ pc' = [pc EXCEPT !["helper"] = 1]
  BY DEF Pickup, FinishJob
<1>2. pc \in [Contexts -> 1 .. MainLen + 1] /\ MainLen' = MainLen /\ MainLen \in {213, 257}
  BY MainLength DEF IoapicInv, Types, MainLen
<1>3. Contexts = {"main", "isr", "helper"}
  BY DEF Contexts
<1>4. pc' \in [Contexts -> 1 .. MainLen + 1] /\ P' = P /\ K' = K /\ H' = 1
  BY <1>1, <1>2, <1>3 DEF P, K, H
<1>5. /\ job' \in {"toggle", "set", None} /\ ipi' \in {"toggle", "set", None}
      /\ ipi' # None => job' = None
      /\ Called' => Called
      /\ job' # None \/ ipi' # None => job # None \/ ipi # None
  BY <1>4 DEF Pickup, FinishJob, IoapicInv, Types, Called
<1>6. Types'
  BY <1>1, <1>2, <1>4, <1>5 DEF IoapicInv, Types, localVars, countVars
<1>7. Flow' /\ Installed' /\ Index' /\ LocalInv'
  BY <1>1, <1>2, <1>4 DEF IoapicInv, Flow, Installed, Index, LocalInv, localVars
<1>8. Helper'
  BY <1>1, <1>4, <1>5 DEF IoapicInv, Helper, First, countVars
<1>9. DeviceInv'
  BY <1>1, <1>4 DEF IoapicInv, DeviceInv, localVars
<1>10. FirstInv'
  BY <1>1, <1>4 DEF IoapicInv, FirstInv, First, CountInv, TmrInv, localVars, countVars
<1> QED BY <1>6, <1>7, <1>8, <1>9, <1>10 DEF IoapicInv

\* Of two requests the higher is taken first.
LEMMA HighestTwo ==
  ASSUME NEW S, S \subseteq {\h66, \h78}, S # {}
  PROVE  Highest(S) = IF \h78 \in S THEN \h78 ELSE \h66
<1>1. \h66 <= \h78 /\ \h66 <= \h66 /\ \h78 <= \h78 /\ ~(\h78 <= \h66)
  OBVIOUS
<1>2. CASE \h78 \in S
  <2>1. ASSUME NEW v \in S PROVE (\A w \in S : w <= v) <=> v = \h78
    <3>1. v = \h66 \/ v = \h78
      OBVIOUS
    <3>2. \A w \in S : w = \h66 \/ w = \h78
      OBVIOUS
    <3> QED BY <1>1, <1>2, <3>1, <3>2
  <2> DEFINE top == \h78
             A(v) == \A w \in S : w <= v
  <2>2. top \in S /\ \A v \in S : A(v) <=> v = top
    BY <1>2, <2>1
  <2>3. Highest(S) = CHOOSE v \in S : A(v)
    BY DEF Highest
  <2> HIDE DEF top, A
  <2>4. (CHOOSE v \in S : A(v)) = top
    BY <2>2
  <2> QED BY <1>2, <2>3, <2>4 DEF top
<1>3. CASE \h78 \notin S
  <2>1. S = {\h66}
    <3>1. \A w \in S : w = \h66
      BY <1>3
    <3> QED BY <3>1
  <2>2. \h66 \in Vectors
    BY DEF Vectors
  <2> QED BY <1>3, <2>1, <2>2, HighestOne
<1> QED BY <1>2, <1>3

\* Where main is when a request is taken, and which it is.
LEMMA Taking ==
  ASSUME IoapicInv, Caller = 0, TakeInterrupt
  PROVE  LET v == Highest(dev.irr) IN
         /\ v \in Vectors /\ v # 0 /\ v \in dev.irr /\ v \in Requests(P)
         /\ dev.irr \ {v} \subseteq IF v = \h78 THEN {\h66} ELSE {}
         /\ P \in (Raised \ Off) \union {61} /\ P \in 1 .. 257
         /\ P = 61 => v \in {\h66, \h78}
         /\ P # 61 => v = VectorAt(P)
         /\ iflag = TRUE /\ vec = 0 /\ ~Called
<1> DEFINE v == Highest(dev.irr)
<1>1. vec = 0 /\ iflag /\ dev.irr # {}
  BY DEF TakeInterrupt, Enabled, Deliverable
<1>2. dev.irr \subseteq Requests(P) /\ dev.irr \subseteq Vectors
  BY DEF IoapicInv, DeviceInv, Irq, Types, Devices
<1>3. P \notin {1, MainLen + 1}
  <2>1. MainLen + 1 \in {214, 258}
    BY MainLength
  <2>2. Requests(1) = {} /\ Requests(214) = {} /\ Requests(258) = {}
    BY DEF Requests, Raised
  <2> QED BY <1>1, <1>2, <2>1, <2>2
<1>4. P \notin Off /\ P \in 1 .. 257
  BY <1>1, <1>3, MainLength DEF IoapicInv, Flow
<1>5. P \in (Raised \ Off) \union {61}
  <2>1. Requests(P) # {}
    BY <1>1, <1>2
  <2> QED BY <1>4, <2>1 DEF Requests, Off
<1>6. iflag = TRUE /\ ~Called
  BY <1>1 DEF IoapicInv, Types, Helper
<1>7. CASE P = 61
  <2>1. dev.irr \subseteq {\h66, \h78}
    BY <1>2, <1>7 DEF Requests
  <2>2. v = IF \h78 \in dev.irr THEN \h78 ELSE \h66
    BY <1>1, <2>1, HighestTwo
  <2> HIDE DEF v
  <2>3. v \in dev.irr /\ v \in {\h66, \h78} /\ dev.irr \ {v} \subseteq IF v = \h78 THEN {\h66} ELSE {}
    BY <1>1, <2>1, <2>2
  <2>4. v \in Vectors /\ v # 0 /\ v \in Requests(P)
    BY <1>2, <2>3
  <2> QED BY <1>1, <1>4, <1>5, <1>6, <1>7, <2>3, <2>4 DEF v
<1>8. CASE P # 61
  <2>1. Requests(P) = {VectorAt(P)}
    BY <1>5, <1>8 DEF Requests, Raised, Off
  <2>2. dev.irr = {VectorAt(P)} /\ VectorAt(P) \in Vectors
    BY <1>1, <1>2, <2>1
  <2>3. v = VectorAt(P)
    BY <2>2, HighestOne
  <2>4. VectorAt(P) # 0
    BY DEF VectorAt
  <2> HIDE DEF v
  <2> QED BY <1>1, <1>4, <1>5, <1>6, <1>8, <2>1, <2>2, <2>3, <2>4 DEF v
<1> QED BY <1>7, <1>8

\* The handler begins.
LEMMA TakeKeeps ==
  ASSUME IoapicInv, Caller = 0, TakeInterrupt
  PROVE  IoapicInv'
<1> DEFINE v  == Highest(dev.irr)
           iq == dev.irr \ {v}
<1>1. /\ v \in Vectors /\ v # 0 /\ v \in dev.irr /\ v \in Requests(P)
      /\ iq \subseteq IF v = \h78 THEN {\h66} ELSE {}
      /\ P \in (Raised \ Off) \union {61} /\ P \in 1 .. 257
      /\ P = 61 => v \in {\h66, \h78}
      /\ P # 61 => v = VectorAt(P)
      /\ iflag = TRUE /\ vec = 0 /\ ~Called
  BY Taking
<1>2. /\ vec' = v /\ dev' = Acknowledge(dev) /\ pc' = [pc EXCEPT !["isr"] = 1]
      /\ halted' = (halted /\ Caller # 0)
      /\ UNCHANGED <<idt, running, ioctls, iflag, job, ipi, localVars, countVars, failed>>
  BY DEF TakeInterrupt
<1>3. halted' = FALSE
  BY <1>2
<1>4. pc \in [Contexts -> 1 .. MainLen + 1] /\ MainLen' = MainLen /\ MainLen \in {213, 257}
  BY MainLength DEF IoapicInv, Types, MainLen
<1>5. Contexts = {"main", "isr", "helper"}
  BY DEF Contexts
<1>6. pc' \in [Contexts -> 1 .. MainLen + 1] /\ P' = P /\ K' = 1 /\ H' = H
  BY <1>2, <1>4, <1>5 DEF P, K, H
<1>7. /\ Irq(P, K, 0, dev.irr, dev.isr, dev.remote_irr, dev.tmr)
      /\ LineIs(P, K, 0, dev.irr, dev.high)
      /\ RedirIs(P, K, 0, dev.irr, dev.high, dev.redir)
  BY <1>1 DEF IoapicInv, DeviceInv
<1>8. dev.isr = {}
  BY <1>7 DEF Irq
<1>9. /\ dev' \in Devices /\ dev'.irr = iq /\ dev'.isr = {v} /\ dev'.tmr = dev.tmr
      /\ dev'.high = dev.high /\ dev'.remote_irr = dev.remote_irr /\ dev'.redir = dev.redir
      /\ dev'.index = dev.index /\ dev'.id = dev.id /\ dev'.arb = dev.arb
  <2>1. dev \in Devices
    BY DEF IoapicInv, Types
  <2>2. dev' = [dev EXCEPT !.irr = @ \ {v}, !.isr = @ \union {v}]
    BY <1>2 DEF Acknowledge
  <2>3. v \in Vectors
    BY <1>1
  <2> HIDE DEF v
  <2>4. /\ dev' \in Devices /\ dev'.irr = dev.irr \ {v} /\ dev'.isr = dev.isr \union {v}
        /\ dev'.tmr = dev.tmr /\ dev'.high = dev.high /\ dev'.remote_irr = dev.remote_irr
        /\ dev'.redir = dev.redir /\ dev'.index = dev.index /\ dev'.id = dev.id
        /\ dev'.arb = dev.arb
    BY ONLY <2>1, <2>2, <2>3 DEF Devices
  <2> QED BY <1>8, <2>4
<1> HIDE DEF v, iq
<1>10. v \in dev.irr /\ iq = dev.irr \ {v}
  BY <1>1 DEF iq
<1>11. Types'
  BY <1>1, <1>2, <1>3, <1>4, <1>6, <1>9 DEF IoapicInv, Types, localVars, countVars
<1>12. Flow' /\ Installed' /\ Index' /\ LocalInv'
  <2>1. Flow'
    BY <1>1, <1>2, <1>3, <1>4, <1>6 DEF IoapicInv, Flow, localVars
  <2>2. Installed' /\ Index' /\ LocalInv'
    BY <1>2, <1>6, <1>9 DEF IoapicInv, Installed, Index, LocalInv, localVars
  <2> QED BY <2>1, <2>2
<1>13. Helper'
  BY <1>1, <1>2, <1>6 DEF IoapicInv, Helper, Called, First, countVars
<1>14. Irq(P, 1, v, iq, {v}, dev.remote_irr, dev.tmr)
  <2>1. 1 <= Last(v) /\ 1 \in 1 .. Last(v) + 1
    BY <1>1, HandlerLength
  <2>2. iq \subseteq Requests(P) /\ iq \union {v} \subseteq dev.irr
    BY <1>7, <1>10 DEF Irq
  <2>3. dev.remote_irr = IF IsLevel(P) THEN {Line} ELSE {}
    BY <1>7, <1>10 DEF Irq
  <2>4. \A x \in iq \union {v} : x \in dev.tmr <=> IsLevel(P)
    BY <1>7, <2>2 DEF Irq
  <2>5. iq \subseteq IF v = \h78 THEN {\h66} ELSE IF v = \h9a /\ 1 = 4 THEN {\h9a} ELSE {}
    BY <1>1
  <2> QED BY <1>1, <2>1, <2>2, <2>3, <2>4, <2>5 DEF Irq
<1>15. LineIs(P, 1, v, iq, dev.high)
  <2>1. ~Lowered(v, 1, iq)
    BY DEF Lowered
  <2> QED BY <1>1, <1>7, <2>1 DEF LineIs
<1>16. RedirIs(P, 1, v, iq, dev.high, dev.redir)
  <2>1. v # 0 /\ ~(1 > 8)
    BY <1>1
  <2> HIDE DEF Masked
  <2> QED BY <1>7, <2>1 DEF RedirIs
<1>17. DeviceInv'
  BY <1>2, <1>6, <1>9, <1>14, <1>15, <1>16 DEF DeviceInv, Isr83
<1>18. ASSUME First
       PROVE  /\ Counts(P, 1, v, iq, g) /\ Retrigger(P, 1, v, iq, dev.high, g[\h9a])
              /\ Simultaneous(P, 1, v, iq, g_rip, g_66_after_78) /\ Exact(P, dev.high)
              /\ Tmr(P, 1, v, iq, dev.tmr, tmr_before, g_tmr_79)
  <2>1. /\ Counts(P, K, 0, dev.irr, g) /\ Retrigger(P, K, 0, dev.irr, dev.high, g[\h9a])
        /\ Simultaneous(P, K, 0, dev.irr, g_rip, g_66_after_78) /\ Exact(P, dev.high)
        /\ Tmr(P, K, 0, dev.irr, dev.tmr, tmr_before, g_tmr_79)
    BY <1>1, <1>18 DEF IoapicInv, FirstInv, CountInv, TmrInv
  <2>2. \A x \in Vectors : Ahead(v, 1, x, iq) <=> Ahead(0, K, x, dev.irr)
    <3>1. 0 \notin Vectors
      BY DEF Vectors
    <3> QED BY <1>10, <3>1 DEF Ahead
  <2>3. Counts(P, 1, v, iq, g)
    BY <2>1, <2>2 DEF Counts
  <2>4. Retrigger(P, 1, v, iq, dev.high, g[\h9a])
    <3>1. dev.irr # {}
      BY <1>10
    <3> QED BY <1>1, <2>1, <3>1 DEF Retrigger
  <2>5. Simultaneous(P, 1, v, iq, g_rip, g_66_after_78)
    <3>1. P \notin 57 .. 60 /\ P \notin 59 .. 60
      BY <1>1 DEF Off, Raised
    <3>2. \h66 \in Vectors /\ \h78 \in Vectors
      BY DEF Vectors
    <3> QED BY <2>1, <2>2, <3>1, <3>2 DEF Simultaneous
  <2>6. Tmr(P, 1, v, iq, dev.tmr, tmr_before, g_tmr_79)
    <3>1. dev.irr # {} /\ v # 0
      BY <1>1, <1>10
    <3> QED BY <2>1, <3>1 DEF Tmr
  <2> QED BY <2>1, <2>3, <2>4, <2>5, <2>6
<1>19. FirstInv'
  BY <1>2, <1>6, <1>9, <1>18 DEF IoapicInv, FirstInv, First, CountInv, TmrInv, localVars, countVars
<1> QED BY <1>11, <1>12, <1>13, <1>17, <1>19 DEF IoapicInv

\* The handler returns.
LEMMA IsrReturns ==
  ASSUME IoapicInv, ReturnFromInterrupt
  PROVE  IoapicInv'
<1>1. /\ vec # 0 /\ K > Len(Handler[vec]) /\ vec' = 0
      /\ entry' = [entry EXCEPT !["isr"] = QuietDevice.redir[Line]]
      /\ UNCHANGED <<dev, idt, running, ioctls, iflag, halted, pc, job, ipi,
                     word, tries, tmr_before, countVars, failed>>
  BY DEF ReturnFromInterrupt, K
<1>2. /\ vec \in Vectors
      /\ P \in (Raised \ Off) \union {61} /\ P \in 1 .. 257
      /\ P = 61 => vec \in {\h66, \h78}
      /\ P # 61 => vec = VectorAt(P)
      /\ K \in 1 .. Last(vec) + 1
      /\ dev.isr = IF K <= Last(vec) THEN {vec} ELSE {}
      /\ dev.irr \subseteq IF vec = \h78 THEN {\h66}
                           ELSE IF vec = \h9a /\ K = 4 THEN {\h9a} ELSE {}
      /\ dev.remote_irr = IF IsLevel(P) /\ (dev.irr # {} \/ dev.isr # {}) THEN {Line} ELSE {}
      /\ \A x \in dev.irr \union dev.isr : x \in dev.tmr <=> IsLevel(P)
  BY <1>1, Serving
<1>3. K = Last(vec) + 1 /\ K > 2 /\ dev.isr = {}
  <2>1. Len(Handler[vec]) = Last(vec) /\ Last(vec) \in 2 .. 11
    BY <1>2, HandlerLength
  <2>2. K = Last(vec) + 1 /\ ~(K <= Last(vec)) /\ K > 2
    BY <1>1, <1>2, <2>1
  <2> QED BY <1>2, <2>2
<1>4. /\ Irq(P, K, vec, dev.irr, dev.isr, dev.remote_irr, dev.tmr)
      /\ LineIs(P, K, vec, dev.irr, dev.high)
      /\ RedirIs(P, K, vec, dev.irr, dev.high, dev.redir)
  BY DEF IoapicInv, DeviceInv
<1>5. P' = P /\ K' = K /\ H' = H /\ MainLen' = MainLen /\ MainLen \in {213, 257}
  BY <1>1, MainLength DEF P, K, H, MainLen
<1>6. "main" # "isr" /\ QuietDevice.redir[Line] \in Entries
  BY LineNumbers DEF QuietDevice, Entries
<1>7. entry' \in [Contexts -> Entries] /\ entry'["main"] = entry["main"]
  BY <1>1, <1>6 DEF IoapicInv, Types, Contexts
<1>8. Types'
  BY <1>1, <1>5, <1>7 DEF IoapicInv, Types, countVars
<1>9. Flow' /\ Installed' /\ Index' /\ LocalInv'
  BY <1>1, <1>5, <1>7 DEF IoapicInv, Flow, Installed, Index, LocalInv
<1>10. Helper'
  BY <1>1, <1>5 DEF IoapicInv, Helper, Called, First, countVars
<1>11. Irq(P, K, 0, dev.irr, {}, dev.remote_irr, dev.tmr)
  BY <1>3, <1>4 DEF Irq
<1>12. LineIs(P, K, 0, dev.irr, dev.high)
  <2>1. ASSUME P \in MustLower, dev.irr = {} PROVE dev.high = {}
    <3>1. vec \in Lowering \/ vec \in {\h98, \h9a}
      BY <1>2, <2>1 DEF MustLower, Raised, Off, VectorAt, Lowering
    <3>2. /\ vec \in Lowering => Last(vec) = 3
          /\ vec = \h98 => Last(vec) = 5
          /\ vec = \h9a => Last(vec) = 3
      BY DEF Lowering, Last
    <3>3. Lowered(vec, K, dev.irr)
      BY <1>3, <2>1, <3>1, <3>2 DEF Lowered
    <3> QED BY <1>1, <1>4, <3>3 DEF LineIs
  <2> QED BY <1>4, <2>1 DEF LineIs
<1>13. RedirIs(P, K, 0, dev.irr, dev.high, dev.redir)
  <2>1. P \in 156 .. 173 => K > 8
    <3>1. P \in 156 .. 173 => vec = \h83
      BY <1>2 DEF Raised, VectorAt
    <3>2. vec = \h83 => Last(vec) = 11
      BY DEF Last
    <3> QED BY <1>3, <3>1, <3>2
  <2> HIDE DEF Masked
  <2> QED BY <1>1, <1>4, <2>1 DEF RedirIs
<1>14. DeviceInv'
  BY <1>1, <1>3, <1>5, <1>11, <1>12, <1>13 DEF DeviceInv, Isr83
<1>15. ASSUME First
       PROVE  /\ Counts(P, K, 0, dev.irr, g) /\ Retrigger(P, K, 0, dev.irr, dev.high, g[\h9a])
              /\ Simultaneous(P, K, 0, dev.irr, g_rip, g_66_after_78) /\ Exact(P, dev.high)
              /\ Tmr(P, K, 0, dev.irr, dev.tmr, tmr_before, g_tmr_79)
  <2>1. /\ Counts(P, K, vec, dev.irr, g) /\ Retrigger(P, K, vec, dev.irr, dev.high, g[\h9a])
        /\ Simultaneous(P, K, vec, dev.irr, g_rip, g_66_after_78) /\ Exact(P, dev.high)
        /\ Tmr(P, K, vec, dev.irr, dev.tmr, tmr_before, g_tmr_79)
    BY <1>15 DEF IoapicInv, FirstInv, CountInv, TmrInv
  <2>2. \A x \in Vectors : Ahead(vec, K, x, dev.irr) <=> Ahead(0, K, x, dev.irr)
    <3>1. 0 \notin Vectors /\ K # 1
      BY <1>2, <1>3 DEF Vectors
    <3> QED BY <3>1 DEF Ahead
  <2>3. Counts(P, K, 0, dev.irr, g)
    BY <2>1, <2>2 DEF Counts
  <2>4. Retrigger(P, K, 0, dev.irr, dev.high, g[\h9a])
    <3>1. CASE P \in 87 .. 92
      <4>1. vec = \h9a
        BY <1>2, <3>1 DEF VectorAt
      <4>2. K = 4
        BY <1>3, <4>1 DEF Last
      <4> QED BY <1>1, <2>1, <3>1, <4>2 DEF Retrigger
    <3>2. CASE P \notin 87 .. 92
      BY <2>1, <3>2 DEF Retrigger
    <3> QED BY <3>1, <3>2
  <2>5. Simultaneous(P, K, 0, dev.irr, g_rip, g_66_after_78)
    <3>1. \h66 \in Vectors /\ \h78 \in Vectors
      BY DEF Vectors
    <3> QED BY <2>1, <2>2, <3>1 DEF Simultaneous
  <2>6. Tmr(P, K, 0, dev.irr, dev.tmr, tmr_before, g_tmr_79)
    <3>1. K # 1
      BY <1>2, <1>3
    <3> QED BY <2>1, <3>1 DEF Tmr
  <2> QED BY <2>1, <2>3, <2>4, <2>5, <2>6
<1>16. FirstInv'
  BY <1>1, <1>5, <1>15 DEF IoapicInv, FirstInv, First, CountInv, TmrInv, countVars
<1> QED BY <1>8, <1>9, <1>10, <1>14, <1>16 DEF IoapicInv

\* The ioctl begins, with everything quiet.
LEMMA IoctlBegins ==
  ASSUME IoapicInv, Caller = 0, ioctl
  PROVE  IoapicInv'
<1>1. /\ running = FALSE /\ ioctls < Ioctls /\ vec = 0 /\ running' = TRUE /\ ioctls' = ioctls + 1
      /\ iflag' = FALSE /\ pc' = [pc EXCEPT !["main"] = 1]
      /\ UNCHANGED <<dev, idt, halted, vec, job, ipi, localVars, countVars, failed>>
  BY DEF ioctl, IoapicInv, Types
<1>2. /\ pc \in [Contexts -> 1 .. MainLen + 1] /\ MainLen' = MainLen /\ MainLen \in {213, 257}
      /\ Contexts = {"main", "isr", "helper"}
  BY MainLength DEF IoapicInv, Types, MainLen, Contexts
<1>3. pc' \in [Contexts -> 1 .. MainLen + 1] /\ P' = 1 /\ K' = K /\ H' = H
  BY <1>1, <1>2 DEF P, K, H
<1>4. /\ P \in {1, 214, 258} /\ halted = FALSE /\ ~Called /\ ioctls \in Nat /\ Ioctls \in Nat
      /\ ioctls \in 0 .. Ioctls
  BY <1>1, <1>2, IoapicAssumption DEF IoapicInv, Flow, Helper, Types
<1>5. ioctls = 0 => P = 1
  BY DEF IoapicInv, Flow
<1>6. dev.irr = {} /\ dev.isr = {} /\ dev.remote_irr = {} /\ dev.high = {}
  <2>1. Irq(P, K, 0, dev.irr, dev.isr, dev.remote_irr, dev.tmr) /\ LineIs(P, K, 0, dev.irr, dev.high)
    BY <1>1 DEF IoapicInv, DeviceInv
  <2>2. Requests(P) = {} /\ P \notin MayBeHigh /\ P # 57
    BY <1>4 DEF Requests, Raised, MayBeHigh
  <2> QED BY <2>1, <2>2 DEF Irq, LineIs
<1>7. Types'
  <2>1. ioctls' \in 0 .. Ioctls
    BY <1>1, <1>4
  <2> QED BY <1>1, <1>2, <1>3, <2>1 DEF IoapicInv, Types, localVars, countVars
<1>8. Flow'
  <2>1. 1 \in Off /\ 1 \notin 88 .. 90 /\ ioctls' > 0 /\ ioctls' # 0 /\ halted' = FALSE /\ vec' = 0
    BY <1>1, <1>4 DEF Off
  <2>2. P' \in 1 .. MainLen' + 1
    BY <1>2, <1>3
  <2> QED BY <1>1, <1>3, <2>1, <2>2 DEF Flow
<1>9. Installed'
  <2>1. \A v \in Vectors : ~(1 > InstalledAt(v))
    BY DEF InstalledAt
  <2> QED BY <1>3, <2>1 DEF Installed
<1>10. Index' /\ LocalInv'
  <2>1. 1 \notin DataAt
    BY DEF DataAt, WordAt, StoreAt, LoadAt, StoreLow, LoadLow, SetupAt, RemaskAt
  <2>2. EntryIs(1, entry["main"])
    BY DEF EntryIs, NewAt, LoadedAt, MaskAt, UnmaskAt
  <2>3. WordIs(1, word["old"], word["new"], dev.id, dev.arb)
    BY DEF WordIs
  <2> QED BY <1>1, <1>3, <2>1, <2>2, <2>3 DEF Index, LocalInv, localVars
<1>11. Helper'
  <2>1. First' => job = None /\ ipi = None
    <3>1. First' => ioctls = 0
      BY <1>1, <1>4 DEF First
    <3>2. ioctls = 0 => First /\ P <= 222
      BY <1>5 DEF First
    <3> QED BY <3>1, <3>2 DEF IoapicInv, Helper
  <2>2. ~Called'
    BY <1>1, <1>3, <1>4 DEF Called
  <2>3. 1 \notin 215 .. 222 \union 226 .. 233 \union 237 .. 244 \union 248 .. 255
    OBVIOUS
  <2>4. /\ job' = None \/ H' \in 1 .. (IF job' = "toggle" THEN 3 ELSE 2)
        /\ ipi' # None => job' = None \/ H' > 1
    BY <1>1, <1>3 DEF IoapicInv, Helper
  <2> QED BY <1>1, <1>3, <2>1, <2>2, <2>3, <2>4 DEF Helper
<1>12. DeviceInv'
  <2>1. Irq(1, K, 0, {}, {}, {}, dev.tmr)
    BY DEF Irq, Requests, Raised
  <2>2. LineIs(1, K, 0, {}, {})
    BY DEF LineIs
  <2>3. RedirIs(1, K, 0, {}, {}, dev.redir)
    BY DEF RedirIs
  <2> QED BY <1>1, <1>3, <1>6, <2>1, <2>2, <2>3 DEF DeviceInv, Isr83
<1>13. FirstInv'
  <2>1. ASSUME First' PROVE First /\ P = 1
    BY <1>1, <1>4, <1>5, <2>1 DEF First
  <2>2. ASSUME First' PROVE CountInv' /\ TmrInv' /\ failed' = {}
    <3>1. CountInv /\ TmrInv /\ failed = {} /\ P' = P
      BY <1>3, <2>1, <2>2 DEF IoapicInv, FirstInv
    <3> QED BY <1>1, <1>3, <3>1 DEF CountInv, TmrInv, localVars, countVars
  <2> QED BY <2>2 DEF FirstInv
<1> QED BY <1>7, <1>8, <1>9, <1>10, <1>11, <1>12, <1>13 DEF IoapicInv

\* Another interrupt ends the hlt; or nothing happens at all.
LEMMA IdleSteps ==
  ASSUME IoapicInv, Wake \/ UNCHANGED vars
  PROVE  IoapicInv'
<1>1. /\ UNCHANGED <<dev, idt, running, ioctls, iflag, pc, vec, job, ipi, localVars,
                     countVars, failed>>
      /\ halted' = FALSE \/ halted' = halted
  BY DEF Wake, vars, cpuVars
<1>2. P' = P /\ K' = K /\ H' = H /\ MainLen' = MainLen /\ halted' \in BOOLEAN /\ (halted' => halted)
  <2>1. P' = P /\ K' = K /\ H' = H /\ MainLen' = MainLen
    BY <1>1 DEF P, K, H, MainLen
  <2>2. halted \in BOOLEAN
    BY DEF IoapicInv, Types
  <2>3. ASSUME halted' = FALSE PROVE halted' \in BOOLEAN /\ (halted' => halted)
    BY <2>3
  <2>4. ASSUME halted' = halted PROVE halted' \in BOOLEAN /\ (halted' => halted)
    <3>1. halted' \in BOOLEAN
      BY <2>2, <2>4, Zenon
    <3>2. halted' => halted
      BY <2>4, Zenon
    <3> QED BY <3>1, <3>2, Zenon
  <2> QED BY <1>1, <2>1, <2>3, <2>4, Zenon
<1>3. Types'
  BY <1>1, <1>2 DEF IoapicInv, Types, localVars, countVars
<1>4. Flow' /\ Installed' /\ Index' /\ LocalInv'
  BY <1>1, <1>2 DEF IoapicInv, Flow, Installed, Index, LocalInv, localVars
<1>5. Helper'
  BY <1>1, <1>2 DEF IoapicInv, Helper, Called, First, countVars
<1>6. DeviceInv'
  BY <1>1, <1>2 DEF IoapicInv, DeviceInv, localVars
<1>7. FirstInv'
  BY <1>1, <1>2 DEF IoapicInv, FirstInv, First, CountInv, TmrInv, localVars, countVars
<1> QED BY <1>3, <1>4, <1>5, <1>6, <1>7 DEF IoapicInv

\* Every step keeps the invariant.
LEMMA IoapicStep ==
  ASSUME IoapicInv, Caller = 0, [Next]_vars
  PROVE  IoapicInv'
<1>1. CASE ioctl
  BY <1>1, IoctlBegins
<1>2. CASE ContextStep("main")
  BY <1>2, MainSteps
<1>3. CASE Return
  BY <1>3, MainReturns
<1>4. CASE TakeInterrupt
  BY <1>4, TakeKeeps
<1>5. CASE ContextStep("isr")
  BY <1>5, IsrSteps
<1>6. CASE ReturnFromInterrupt
  BY <1>6, IsrReturns
<1>7. CASE ContextStep("helper")
  BY <1>7, HelperSteps
<1>8. CASE Pickup \/ FinishJob
  BY <1>8, HelperTurns
<1>9. CASE Wake \/ UNCHANGED vars
  BY <1>9, IdleSteps
<1> QED
  BY <1>1, <1>2, <1>3, <1>4, <1>5, <1>6, <1>7, <1>8, <1>9, Zenon
     DEF Next, MainStep, IsrStep, HelperStep

\* It holds when the module is loaded.
LEMMA IoapicStart ==
  ASSUME Init
  PROVE  IoapicInv
<1>1. /\ dev = QuietDevice /\ idt = {} /\ running = FALSE /\ ioctls = 0
      /\ iflag = TRUE /\ halted = FALSE /\ pc = [x \in Contexts |-> 1]
      /\ vec = 0 /\ job = None /\ ipi = None
      /\ entry = [x \in Contexts |-> QuietDevice.redir[Line]]
      /\ word = [old |-> ReadWord(QuietDevice), new |-> ReadWord(QuietDevice)]
      /\ tries = 0 /\ tmr_before = 0
      /\ g = [v \in Vectors |-> 0] /\ g_rip = [v \in Vectors |-> 0]
      /\ g_66_after_78 = 0 /\ g_tmr_79 = -1 /\ failed = {}
  BY DEF Init
<1>2. P = 1 /\ K = 1 /\ H = 1 /\ MainLen \in {213, 257} /\ pc \in [Contexts -> 1 .. MainLen + 1]
  BY <1>1, MainLength DEF P, K, H, Contexts
<1>3. /\ dev \in Devices /\ dev.irr = {} /\ dev.isr = {} /\ dev.remote_irr = {} /\ dev.high = {}
      /\ dev.tmr = {}
  BY <1>1, RegisterSet DEF QuietDevice, Devices, Entries
<1>4. QuietDevice.redir[Line] \in Entries
  BY LineNumbers DEF QuietDevice, Entries
<1>5. ReadWord(QuietDevice) \in Words
  BY DEF ReadWord, QuietDevice, Words
<1>6. Types
  <2>1. ioctls \in 0 .. Ioctls
    BY <1>1, IoapicAssumption
  <2>2. entry \in [Contexts -> Entries]
    BY <1>1, <1>4
  <2>3. word \in [{"old", "new"} -> Words]
    <3> DEFINE w == ReadWord(QuietDevice)
    <3>1. w \in Words /\ word = [old |-> w, new |-> w]
      BY <1>1, <1>5
    <3> HIDE DEF w
    <3> QED BY <3>1
  <2>4. idt \subseteq Vectors /\ running \in BOOLEAN /\ iflag \in BOOLEAN /\ halted \in BOOLEAN
    BY <1>1
  <2>5. job \in {"toggle", "set", None} /\ ipi \in {"toggle", "set", None} /\ vec \in Vectors \union {0}
    BY <1>1
  <2>6. g \in [Vectors -> Nat] /\ g_rip \in [Vectors -> Nat]
    BY <1>1
  <2>7. tries \in 0 .. 10 /\ tmr_before \in {0, 1} /\ g_66_after_78 \in Nat /\ g_tmr_79 \in {-1, 0, 1}
    BY <1>1
  <2> QED BY <1>2, <1>3, <2>1, <2>2, <2>3, <2>4, <2>5, <2>6, <2>7 DEF Types
<1>7. Flow
  BY <1>1, <1>2 DEF Flow
<1>8. Installed
  <2>1. \A v \in Vectors : ~(1 > InstalledAt(v))
    BY DEF InstalledAt
  <2> QED BY <1>2, <2>1 DEF Installed
<1>9. Index
  BY <1>1 DEF Index
<1>10. Helper
  BY <1>1, <1>2 DEF Helper, Called
<1>11. DeviceInv
  <2>1. Irq(1, 1, 0, {}, {}, {}, {})
    BY DEF Irq
  <2>2. LineIs(1, 1, 0, {}, {})
    BY DEF LineIs
  <2>3. RedirIs(1, 1, 0, {}, {}, dev.redir)
    BY DEF RedirIs
  <2> QED BY <1>1, <1>2, <1>3, <2>1, <2>2, <2>3 DEF DeviceInv, Isr83
<1>12. LocalInv
  <2>1. EntryIs(1, entry["main"])
    BY DEF EntryIs, NewAt, LoadedAt, MaskAt, UnmaskAt
  <2>2. WordIs(1, word["old"], word["new"], dev.id, dev.arb)
    BY DEF WordIs
  <2> QED BY <1>2, <2>1, <2>2 DEF LocalInv
<1>13. CountInv /\ TmrInv
  <2>1. Counts(1, 1, 0, {}, g)
    <3>1. \A x \in Vectors \ {\h9a, \h79} : RunsAt(x, 1) = 0 /\ ~Ahead(0, 1, x, {}) /\ g[x] = 0
      BY <1>1 DEF RunsAt, Ahead, Vectors
    <3> QED BY <3>1 DEF Counts
  <2>2. Retrigger(1, 1, 0, {}, {}, g[\h9a])
    BY <1>1 DEF Retrigger, Vectors
  <2>3. Simultaneous(1, 1, 0, {}, g_rip, g_66_after_78) /\ Exact(1, {})
    BY DEF Simultaneous, Exact
  <2>4. Tmr(1, 1, 0, {}, {}, tmr_before, g_tmr_79)
    BY DEF Tmr
  <2> QED BY <1>1, <1>2, <1>3, <2>1, <2>2, <2>3, <2>4 DEF CountInv, TmrInv
<1>14. FirstInv
  BY <1>1, <1>13 DEF FirstInv
<1> QED BY <1>6, <1>7, <1>8, <1>9, <1>10, <1>11, <1>12, <1>14 DEF IoapicInv

-----------------------------------------------------------------------------
(***************************************************************************)
(* The theorems.                                                           *)
(***************************************************************************)
\* The table holds, from place to place, for an ioctl on vCPU 0.
THEOREM IoapicInvariant ==
  ASSUME Caller = 0
  PROVE  Spec => []IoapicInv
<1>1. Init => IoapicInv
  BY IoapicStart
<1>2. IoapicInv /\ [Next]_vars => IoapicInv'
  BY IoapicStep
<1> QED BY <1>1, <1>2, PTL DEF Spec

\* Every variable of test_ioapic and its devices keeps its type.
THEOREM IoapicTypes ==
  ASSUME Caller = 0
  PROVE  Spec => []IoapicTypeOK
<1>1. IoapicInv => IoapicTypeOK
  <2> SUFFICES ASSUME IoapicInv PROVE IoapicTypeOK
    OBVIOUS
  <2>1. DOMAIN Jobs = {"toggle", "set"}
    BY DEF Jobs
  <2>2. Len(test_ioapic) = MainLen
    BY MainLength
  <2> HIDE DEF Jobs
  <2>3. job \in DOMAIN Jobs \union {None} /\ ipi \in DOMAIN Jobs \union {None}
    BY <2>1 DEF IoapicInv, Types
  <2> QED BY <2>2, <2>3 DEF IoapicInv, Types, IoapicTypeOK
<1> QED BY <1>1, IoapicInvariant, PTL

\* Whoever comes to an access of the data register finds the index it selected
\* itself: the handlers of 0x83 select in between, but main is then never
\* between its own two accesses.
THEOREM IoapicPairing ==
  ASSUME Caller = 0
  PROVE  Spec => []PairedAccess
<1>1. IoapicInv => PairedAccess
  <2> SUFFICES ASSUME IoapicInv, NEW x \in Contexts, NEW op \in DataAccesses, At(x, op)
               PROVE  dev.index = Arg(x)
    BY DEF PairedAccess
  <2>1. CASE x = "main"
    <3> DEFINE r == Arg("main")
    <3>1. MayRun /\ MainPlace(P, Do(op, r))
      BY <2>1, MainAt DEF IoapicInv
    <3>2. Do(op, r).op = op /\ Do(op, r).arg = r
      BY DEF Do
    <3> HIDE DEF r
    <3>3. P \in DataAt /\ r = RegAt(P)
      BY <3>1, <3>2 DEF MainPlace
    <3>4. dev.index = RegAt(P)
      BY <3>1, <3>3 DEF MayRun, IoapicInv, Index
    <3> QED BY <2>1, <3>3, <3>4 DEF r
  <2>2. CASE x = "isr"
    <3> DEFINE r == Arg("isr")
    <3>1. HandlerPlace(vec, K, Do(op, r)) /\ K \in 1 .. Last(vec)
      BY <2>2, IsrAt DEF IoapicInv
    <3>2. Do(op, r).op = op /\ Do(op, r).arg = r
      BY DEF Do
    <3> HIDE DEF r
    <3>3. vec = \h83 /\ r = IF K \in {3, 8} THEN Low(Line) ELSE High(Line)
      BY <3>1, <3>2 DEF HandlerPlace
    <3>4. op \in {"load", "store"}
      BY <3>1, <3>2 DEF HandlerPlace, DataAccesses
    <3>5. K \in {3, 5, 8, 10}
      BY <3>1, <3>2, <3>4 DEF HandlerPlace
    <3>6. dev.index = r
      BY <3>3, <3>5 DEF IoapicInv, DeviceInv, Isr83
    <3> QED BY <2>2, <3>6 DEF r
  <2>3. CASE x = "helper"
    <3>1. op = "line"
      BY <2>3, HelperAt DEF IoapicInv
    <3> QED BY <3>1 DEF DataAccesses
  <2> QED BY <2>1, <2>2, <2>3 DEF Contexts
<1> QED BY <1>1, IoapicInvariant, PTL

\* A handler ends its own interrupt before it returns, and is in boot_idt before
\* its vector can be requested.
THEOREM IoapicAcknowledged ==
  ASSUME Caller = 0
  PROVE  Spec => []Acknowledged
<1>1. IoapicInv => Acknowledged
  <2> SUFFICES ASSUME IoapicInv PROVE Acknowledged
    OBVIOUS
  <2>1. Irq(P, K, vec, dev.irr, dev.isr, dev.remote_irr, dev.tmr)
    BY DEF IoapicInv, DeviceInv
  <2>2. (vec = 0 => dev.isr = {}) /\ dev.isr \subseteq {vec}
    BY <2>1 DEF Irq
  <2>3. ASSUME NEW v \in dev.irr PROVE v \in idt
    <3>1. v \in Requests(P)
      BY <2>1 DEF Irq
    <3>2. \/ v = \h66 /\ P \in 57 .. 61
          \/ v = \h78 /\ P \in 57 .. 61
          \/ v = VectorAt(P) /\ P \in Raised
      BY <3>1 DEF Requests
    <3>3. P > InstalledAt(v)
      BY <3>2 DEF Raised, VectorAt, InstalledAt
    <3>4. v \in Vectors
      BY DEF IoapicInv, Types, Devices
    <3> QED BY <3>3, <3>4 DEF IoapicInv, Installed
  <2> QED BY <2>2, <2>3 DEF Acknowledged
<1> QED BY <1>1, IoapicInvariant, PTL

\* When a test installs its handler the line is low and nothing is pending, in
\* service or waiting for an EOI, whatever the test before it did.
THEOREM IoapicHandover ==
  ASSUME Caller = 0
  PROVE  Spec => []CleanHandover
<1>1. IoapicInv => CleanHandover
  <2> SUFFICES ASSUME IoapicInv, At("main", "handle")
               PROVE  dev.high = {} /\ dev.irr = {} /\ dev.isr = {} /\ dev.remote_irr = {}
    BY DEF CleanHandover
  <2> DEFINE v == Arg("main")
  <2>1. MayRun /\ MainPlace(P, Do("handle", v))
    BY MainAt DEF IoapicInv
  <2>2. Do("handle", v).op = "handle"
    BY DEF Do
  <2> HIDE DEF v
  <2>3. P \in HandleAt
    BY <2>1, <2>2 DEF MainPlace
  <2>4. vec = 0
    BY <2>1 DEF MayRun
  <2>5. Irq(P, K, 0, dev.irr, dev.isr, dev.remote_irr, dev.tmr) /\ LineIs(P, K, 0, dev.irr, dev.high)
    BY <2>4 DEF IoapicInv, DeviceInv
  <2>6. Requests(P) = {} /\ P \notin MayBeHigh /\ P # 57
    BY <2>3 DEF HandleAt, Requests, Raised, MayBeHigh
  <2> QED BY <2>5, <2>6 DEF Irq, LineIs
<1> QED BY <1>1, IoapicInvariant, PTL

\* In the first ioctl no report says anything but what is expected: later ones
\* find the counters as the first left them.
THEOREM IoapicNoFalseAlarm ==
  ASSUME Caller = 0
  PROVE  Spec => [](ioctls <= 1 => NoFalseAlarm)
<1>1. IoapicInv => (ioctls <= 1 => NoFalseAlarm)
  BY DEF IoapicInv, FirstInv, First, NoFalseAlarm
<1> QED BY <1>1, IoapicInvariant, PTL

=============================================================================
