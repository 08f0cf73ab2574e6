--------------------------- MODULE FrameSequencer --------------------------
(***************************************************************************)
(* The 512 Hz divider of the sound chip (core/apu/Apu): one step per fall  *)
(* of counter bit 12 while the chip is powered.  It is asked twice in an   *)
(* M-cycle that writes a timer register - once by the machine's tick, once *)
(* after the write - and remembers whether it has stepped already.         *)
(* What a step clocks (lengths, sweep, envelopes) is left to later modules.*)
(***************************************************************************)
EXTENDS Counter

CONSTANT Steps   \* steps of the sequence: 8 in the code

ASSUME SequencerAssumption == Steps \in Nat \ {0}

VARIABLES
  powered,            \* powered_: NR52 bit 7
  step,               \* step_: the step the next fall performs
  steppedThisCycle    \* steppedThisCycle_

sequencerVars == <<powered, step, steppedThisCycle>>

SequencerTypeOK ==
  /\ powered \in BOOLEAN
  /\ step \in 0 .. Steps - 1
  /\ steppedThisCycle \in BOOLEAN

SequencerInit ==
  /\ powered = TRUE
  /\ step = 0
  /\ steppedThisCycle = FALSE

NextStep(s) == IF s = Steps - 1 THEN 0 ELSE s + 1

\* Mutant: what the M-cycle has already been asked about counts again.
ClockFromCounterTwice(stepped, fallen) ==
  LET steps == powered /\ SequencerHalf \in fallen
  IN  /\ steppedThisCycle' = (stepped \/ steps)
      /\ step' = IF steps THEN NextStep(step) ELSE step

\* clockFromCounter: `stepped' says whether this M-cycle has been acted on,
\* `fallen' which counter bits have fallen in it.
ClockFromCounter(stepped, fallen) ==
  LET steps == powered /\ ~stepped /\ SequencerHalf \in fallen
  IN  /\ steppedThisCycle' = (stepped \/ steps)
      /\ step' = IF steps THEN NextStep(step) ELSE step

SequencerTick(fallen) ==
  /\ ClockFromCounter(FALSE, fallen)
  /\ UNCHANGED powered

CounterWritten(fallen) ==
  /\ ClockFromCounter(steppedThisCycle, fallen)
  /\ UNCHANGED powered

\* NR52: powering on restarts the sequence, writing the same value does nothing.
WritePower(on) ==
  /\ powered' = on
  /\ step' = IF on /\ ~powered THEN 0 ELSE step
  /\ UNCHANGED steppedThisCycle
=============================================================================
