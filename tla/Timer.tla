------------------------------- MODULE Timer -------------------------------
(***************************************************************************)
(* DIV, TIMA, TMA and TAC (core/Timer).  TIMA counts the falling edges of  *)
(* "TAC enable AND the counter bit TAC selects", so a DIV or TAC write can *)
(* tick it as well as time can.  When TIMA wraps it reads 0 for one M-cycle*)
(* ("cycle A", overflowed) and is reloaded from TMA in the next ("cycle B",*)
(* reloading), where the interrupt is requested too.                       *)
(*                                                                         *)
(* Every operator here is one call into Timer; Clockwork decides when a    *)
(* call happens.                                                           *)
(***************************************************************************)
EXTENDS Counter

CONSTANTS
  TimaSize,       \* values of TIMA and TMA: 256 in the code
  StartCounter    \* the counter at 0x0100: 0xABC8 / 4 in the code

ASSUME TimerAssumption ==
  /\ TimaSize \in Nat \ {0}
  /\ StartCounter \in Counters

VARIABLES
  counter,        \* counter_ / 4
  fell,           \* fell_: the bits that fell in the M-cycle in progress
  tima, tma,
  tac,            \* TAC bits 2 (enabled) and 1-0 (select)
  overflowed,     \* overflowed_: TIMA wrapped in this M-cycle
  reloading       \* reloading_: TIMA was reloaded in this M-cycle

timerVars == <<counter, fell, tima, tma, tac, overflowed, reloading>>

TacValues == [enabled : BOOLEAN, select : 0..3]
TimaValues == 0 .. TimaSize - 1

TimerTypeOK ==
  /\ counter \in Counters
  /\ fell \subseteq Halves
  /\ tima \in TimaValues
  /\ tma \in TimaValues
  /\ tac \in TacValues
  /\ overflowed \in BOOLEAN
  /\ reloading \in BOOLEAN

TimerInit ==
  /\ counter = StartCounter
  /\ fell = {}
  /\ tima = 0
  /\ tma = 0
  /\ tac = [enabled |-> FALSE, select |-> 0]
  /\ overflowed = FALSE
  /\ reloading = FALSE

\* The level TIMA's edge detector watches.
Input(c, t) == t.enabled /\ BitSet(c, TacHalf[t.select])

IncrementedTima(v) == IF v = TimaSize - 1 THEN 0 ELSE v + 1

\* Mutant: a reload owed from before is forgotten.
ClockForgetsPending(before, after, v, pending) ==
  LET edge == before /\ ~after
  IN  /\ tima' = IF edge THEN IncrementedTima(v) ELSE v
      /\ overflowed' = (edge /\ v = TimaSize - 1)

\* TIMA holds v with `pending' owed from before, and the watched level goes
\* from `before' to `after': one increment if that is a falling edge.
Clock(before, after, v, pending) ==
  LET edge == before /\ ~after
  IN  /\ tima' = IF edge THEN IncrementedTima(v) ELSE v
      /\ overflowed' = (pending \/ (edge /\ v = TimaSize - 1))

\* tick() answers whether this M-cycle requests the timer interrupt.
TimerRequests == overflowed

\* One M-cycle: the reload of cycle B first, then the counter and its edges.
TimerTick ==
  LET next == NextCounter(counter)
  IN  /\ counter' = next
      /\ fell' = Falls(counter, next)
      /\ reloading' = overflowed
      /\ Clock(Input(counter, tac), Input(next, tac), IF overflowed THEN tma ELSE tima, FALSE)
      /\ UNCHANGED <<tma, tac>>

\* A write to DIV clears the whole counter, whatever is written.
WriteDiv ==
  /\ counter' = 0
  /\ fell' = fell \cup Falls(counter, 0)
  /\ Clock(Input(counter, tac), Input(0, tac), tima, overflowed)
  /\ UNCHANGED <<tma, tac, reloading>>

\* Mutant: a write to TIMA does not cancel the reload.
WriteTimaKeepsReload(v) ==
  /\ tima' = IF reloading THEN tima ELSE v
  /\ UNCHANGED <<counter, fell, tma, tac, overflowed, reloading>>

\* A write to TIMA cancels a reload that is owed, and loses to one in progress.
WriteTima(v) ==
  /\ IF reloading
     THEN UNCHANGED <<tima, overflowed>>
     ELSE tima' = v /\ overflowed' = FALSE
  /\ UNCHANGED <<counter, fell, tma, tac, reloading>>

\* A write to TMA in the reload cycle reaches TIMA as well.
WriteTma(v) ==
  /\ tma' = v
  /\ tima' = IF reloading THEN v ELSE tima
  /\ UNCHANGED <<counter, fell, tac, overflowed, reloading>>

WriteTac(t) ==
  /\ tac' = t
  /\ Clock(Input(counter, tac), Input(counter, t), tima, overflowed)
  /\ UNCHANGED <<counter, fell, tma, reloading>>
=============================================================================
