----------------------------- MODULE MonoClock -----------------------------
(***************************************************************************)
(* What pvclock_clocksource_read promises when it adjusts raw cycles with  *)
(* last_value (kvmclock_test.c:163-170): there is one clock, it only moves *)
(* forward, and a read answers what that clock shows at one instant        *)
(* between its call and its return.                                        *)
(***************************************************************************)
EXTENDS Integers

CONSTANT Cpus

VARIABLES
  clock,   \* the one clock
  state,   \* idle, reading or answered, for each vCPU
  answer   \* the answer of an answered vCPU, 0 otherwise

monoVars == <<clock, state, answer>>

Init ==
  /\ clock  = 0
  /\ state  = [c \in Cpus |-> "idle"]
  /\ answer = [c \in Cpus |-> 0]

Advance ==
  /\ clock' \in Nat
  /\ clock' >= clock
  /\ UNCHANGED <<state, answer>>

Invoke(c) ==
  /\ state[c] = "idle"
  /\ state' = [state EXCEPT ![c] = "reading"]
  /\ UNCHANGED <<clock, answer>>

Answer(c) ==
  /\ state[c] = "reading"
  /\ state'  = [state EXCEPT ![c] = "answered"]
  /\ answer' = [answer EXCEPT ![c] = clock]
  /\ UNCHANGED clock

Return(c) ==
  /\ state[c] = "answered"
  /\ state'  = [state EXCEPT ![c] = "idle"]
  /\ answer' = [answer EXCEPT ![c] = 0]
  /\ UNCHANGED clock

Next == Advance \/ \E c \in Cpus : Invoke(c) \/ Answer(c) \/ Return(c)

Spec == Init /\ [][Next]_monoVars
=============================================================================
