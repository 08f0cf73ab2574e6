------------------------------ MODULE Counter ------------------------------
(***************************************************************************)
(* The system counter that hangs in core/Timer and the question every      *)
(* other part of the machine asks of it: has bit b gone from 1 to 0?       *)
(*                                                                         *)
(* The 16-bit counter only ever holds multiples of 4 (it starts at 0xABC8, *)
(* gains 4 each M-cycle, and a DIV write makes it 0), so the model counts  *)
(* M-cycles: counter = counter_ / 4.  A bit is named by its half-period in *)
(* M-cycles, i.e. bit b of counter_ is the half-period 2^b / 4.            *)
(***************************************************************************)
EXTENDS Integers

CONSTANTS
  CounterSize,    \* values of the counter, 2^16 / 4 in the code
  TacHalf,        \* half-periods of TAC's bits 9, 3, 5, 7: 128, 2, 8, 32 in the code
  SerialHalf,     \* half-period of bit 8, the serial clock: 64 in the code
  SequencerHalf   \* half-period of bit 12, the sound frame sequencer: 1024

ASSUME CounterAssumption ==
  /\ CounterSize \in Nat \ {0}
  /\ CounterSize % 2 = 0
  /\ TacHalf \in [0..3 -> Nat \ {0}]
  /\ SerialHalf \in Nat \ {0}
  /\ SequencerHalf \in Nat \ {0}

Counters == 0 .. CounterSize - 1

Halves == {TacHalf[s] : s \in 0..3} \cup {SerialHalf, SequencerHalf}

\* The counter is binary: it wraps where every one of its bits has just fallen.
ASSUME BitsAssumption == \A h \in Halves : CounterSize % (2 * h) = 0

\* Mutant: the counter skips 0 when it wraps.
NextCounterSkipsZero(c) == IF c = CounterSize - 1 THEN 1 ELSE c + 1

\* counter_ + 4, truncated to 16 bits.
NextCounter(c) == IF c = CounterSize - 1 THEN 0 ELSE c + 1

BitSet(c, half) == (c \div half) % 2 = 1

CounterBitFell(before, after, half) == BitSet(before, half) /\ ~BitSet(after, half)

\* The bits a move of the counter drops: what noteFalls adds to fell_.
Falls(before, after) == {h \in Halves : CounterBitFell(before, after, h)}
=============================================================================
