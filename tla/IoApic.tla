------------------------------- MODULE IoApic -------------------------------
(***************************************************************************)
(* The devices under pcm-unit/driver/ioapic.c, as operators on a record:   *)
(* the IOAPIC behind its index and data registers, and the local APIC of   *)
(* the vCPU its entries point to (dest_id 0).  They are external: this is  *)
(* what the tests of ioapic.c expect of them.                              *)
(*   - A rising edge of an unmasked edge-triggered line requests an        *)
(*     interrupt; under a mask it is lost.                                 *)
(*   - A level-triggered line requests one whenever it is high, unmasked   *)
(*     and not waiting for an EOI (remote_irr).                            *)
(*   - TMR is written when an interrupt is accepted, not when an entry is. *)
(***************************************************************************)
EXTENDS Integers

EDGE  == "TRIGGER_EDGE"
LEVEL == "TRIGGER_LEVEL"

Lines   == {\h0e, \h0f}   \* the interrupt lines of the tests
Vectors == {\h66, \h76, \h77, \h78, \h79, \h81, \h82, \h83, \h98, \h99, \h9a}

\* The registers: id, version, arbitration id, and two per line.
Low(l)  == 16 + 2 * l
High(l) == 17 + 2 * l
Registers == 0 .. 2 \union UNION {{Low(l), High(l)} : l \in Lines}

\* A 32-bit word of the first three: bits 24 to 27, and the rest, which is
\* what it is in the register or the complement of that.
Words == [id : 0 .. 15, other : BOOLEAN]
Complement(w) == [id |-> 15 - w.id, other |-> ~w.other]

Entries == [vector : Vectors \union {0}, trig_mode : {EDGE, LEVEL}, mask : BOOLEAN]

Devices == [index : Registers, id : 0 .. 15, arb : 0 .. 15,
            redir : [Lines -> Entries], high : SUBSET Lines,
            remote_irr : SUBSET Lines, irr : SUBSET Vectors,
            tmr : SUBSET Vectors, isr : SUBSET Vectors]

\* What Linux leaves to the test: masked entries, quiet lines.
QuietDevice ==
  [index |-> 0, id |-> 0, arb |-> 0,
   redir |-> [l \in Lines |-> [vector |-> 0, trig_mode |-> EDGE, mask |-> TRUE]],
   high |-> {}, remote_irr |-> {}, irr |-> {}, tmr |-> {}, isr |-> {}]

Accept(d, l) ==
  LET e == d.redir[l]
  IN  IF e.trig_mode = LEVEL
        THEN [d EXCEPT !.irr = @ \union {e.vector}, !.tmr = @ \union {e.vector},
                       !.remote_irr = @ \union {l}]
        ELSE [d EXCEPT !.irr = @ \union {e.vector}, !.tmr = @ \ {e.vector}]

Asks(d, l) == d.redir[l].trig_mode = LEVEL /\ l \in d.high /\ ~d.redir[l].mask

Service(d, l) == IF Asks(d, l) /\ l \notin d.remote_irr THEN Accept(d, l) ELSE d

SetLine(d, l, val) ==
  LET moved == [d EXCEPT !.high = IF val = 1 THEN @ \union {l} ELSE @ \ {l}]
      edge  == val = 1 /\ l \notin d.high /\ d.redir[l].trig_mode = EDGE
                 /\ ~d.redir[l].mask
  IN  IF edge THEN Accept(moved, l) ELSE Service(moved, l)

\* The data register.  Version and arbitration id are read-only; of the id
\* register bits 24 to 27 can be written, and set the arbitration id.  (The low
\* half of an entry has zeros there.)  The high half of an entry is dest_id.
Bits24to27(w) == IF "id" \in DOMAIN w THEN w.id ELSE 0

WriteData(d, w) ==
  CASE d.index = 0 -> [d EXCEPT !.id = Bits24to27(w), !.arb = Bits24to27(w)]
    [] \E l \in Lines : d.index = Low(l) ->
         LET l == CHOOSE k \in Lines : d.index = Low(k)
         IN  Service([d EXCEPT !.redir[l] = w], l)
    [] OTHER -> d

ReadWord(d) == [id |-> IF d.index = 0 THEN d.id ELSE IF d.index = 2 THEN d.arb ELSE 0,
                other |-> FALSE]

\* The local APIC: the highest request is taken unless one of its priority
\* class is in service; the EOI of a level-triggered one reaches the IOAPIC.
Highest(S) == CHOOSE v \in S : \A w \in S : w <= v
Class(v) == v \div 16
Deliverable(d) == \E v \in d.irr : \A w \in d.isr : Class(w) < Class(v)

Acknowledge(d) ==
  LET v == Highest(d.irr)
  IN  [d EXCEPT !.irr = @ \ {v}, !.isr = @ \union {v}]

EndOfInterrupt(d) ==
  LET v     == IF d.isr = {} THEN 0 ELSE Highest(d.isr)
      acked == IF v \in d.tmr THEN {l \in d.remote_irr : d.redir[l].vector = v} ELSE {}
      again == {l \in acked : Asks(d, l)}
  IN  [d EXCEPT !.isr = @ \ {v}, !.remote_irr = (@ \ acked) \union again,
                !.irr = IF again = {} THEN @ ELSE @ \union {v}]
=============================================================================
