----------------------------- MODULE SoundUnits ----------------------------
(* What the sound channels are built from, as operators on records: the      *)
(* length counter (core/apu/LengthCounter.h), channel 1's frequency sweep    *)
(* (FrequencySweep.cpp), the noise channel's shift register                  *)
(* (NoiseChannel.cpp) and the wave channel's reader (WaveChannel.cpp).       *)
EXTENDS Integers

CONSTANTS
    FrequencySize,  \* frequencies of a channel: 2048 in the code
    LowSize,        \* of which NRx3 holds the low digit: 256
    SweepReload,    \* the sweep timer's reload for a period of 0: 8
    HighBit,        \* the shift register's feedback bit: 14
    NarrowBit,      \* and the one of its short sequence: 6
    WaveBytes,      \* bytes of wave RAM: 16
    WaveGroup,      \* bytes a retrigger rewrites: 4
    TriggerDelay    \* T-cycles the wave channel's first period is longer: 6

ASSUME FrequencyAssumption ==
    /\ LowSize \in Nat /\ LowSize > 0
    /\ FrequencySize \in Nat /\ FrequencySize > LowSize

ASSUME SweepAssumption == SweepReload \in Nat /\ SweepReload > 0

ASSUME NoiseAssumption ==
    HighBit \in Nat /\ NarrowBit \in Nat /\ NarrowBit > 0 /\ NarrowBit < HighBit

ASSUME WaveAssumption ==
    /\ WaveBytes \in Nat /\ WaveGroup \in Nat /\ WaveGroup > 0 /\ WaveGroup <= WaveBytes
    /\ TriggerDelay \in Nat

-----------------------------------------------------------------------------
(* The length counter: [value, enabled], counting from max *)

Load(length, max, v) == [length EXCEPT !.value = max - v]

Clocked(length) ==
    IF length.enabled /\ length.value > 0 THEN [length EXCEPT !.value = @ - 1] ELSE length

\* Mutant: the counter is looked at before it is counted down.
ClockExpiresLate(length) == length.enabled /\ length.value = 0

ClockExpires(length) == length.enabled /\ length.value = 1

\* An NRx4 write: enabling the counter in the first half of its period clocks it once
\* more, and so does the reload of an empty counter by a trigger.
ExtraClock(length, enable, firstHalf) ==
    firstHalf /\ ~length.enabled /\ enable /\ length.value > 0

\* Mutant: the reload by a trigger is decided before the extra clock.
ControlledReloadFirst(length, max, enable, trigger, firstHalf) ==
    LET left == IF trigger /\ length.value = 0 THEN max ELSE length.value
    IN [value |-> IF firstHalf /\ ~length.enabled /\ enable THEN left - 1 ELSE left,
        enabled |-> enable]

\* Mutant: a counter already enabled is clocked again.
ControlledClocksAlways(length, max, enable, trigger, firstHalf) ==
    LET left == IF firstHalf /\ enable /\ length.value > 0 THEN length.value - 1
                ELSE length.value
        full == IF firstHalf /\ enable THEN max - 1 ELSE max
    IN [value |-> IF trigger /\ left = 0 THEN full ELSE left, enabled |-> enable]

Controlled(length, max, enable, trigger, firstHalf) ==
    LET left == IF ExtraClock(length, enable, firstHalf) THEN length.value - 1 ELSE length.value
        full == IF firstHalf /\ enable THEN max - 1 ELSE max
    IN [value |-> IF trigger /\ left = 0 THEN full ELSE left, enabled |-> enable]

ControlExpires(length, enable, trigger, firstHalf) ==
    ExtraClock(length, enable, firstHalf) /\ length.value = 1 /\ ~trigger

-----------------------------------------------------------------------------
(* The sweep: [period, decreasing, shift, shadow, timer, enabled, negateUsed] *)

MaxFrequency == FrequencySize - 1

PoweredOffSweep == [period |-> 0, decreasing |-> FALSE, shift |-> 0, shadow |-> 0,
                    timer |-> 0, enabled |-> FALSE, negateUsed |-> FALSE]

Reload(s) == IF s.period # 0 THEN s.period ELSE SweepReload

Offset(s) == s.shadow \div 2^s.shift

Calculated(s) == IF s.decreasing THEN s.shadow - Offset(s) ELSE s.shadow + Offset(s)

\* Calculating downwards is remembered.
AfterCalculation(s) == [s EXCEPT !.negateUsed = @ \/ s.decreasing]

Overflows(s) == Calculated(s) > MaxFrequency

\* NR10: leaving the downward direction once it has been used switches the channel off.
SweepWritten(s, period, decreasing, shift) ==
    [s EXCEPT !.period = period, !.decreasing = decreasing, !.shift = shift]

SweepWriteDisables(s, decreasing) == s.negateUsed /\ ~decreasing

SweepTriggered(s, frequency) ==
    LET t == [s EXCEPT !.shadow = frequency, !.timer = Reload(s),
                       !.enabled = (s.period # 0 \/ s.shift # 0), !.negateUsed = FALSE]
    IN IF s.shift = 0 THEN t ELSE AfterCalculation(t)

SweepTriggerDisables(s, frequency) == s.shift # 0 /\ Overflows([s EXCEPT !.shadow = frequency])

\* A clock of the sweep calculates when its timer is out, and again with the result.
SweepDue(s) == s.timer <= 1 /\ s.enabled /\ s.period # 0

SweepMoves(s) == SweepDue(s) /\ ~Overflows(s) /\ s.shift # 0

Moved(s) == [AfterCalculation(s) EXCEPT !.shadow = Calculated(s), !.timer = Reload(s)]

SweepClocked(s) ==
    CASE s.timer > 1 -> [s EXCEPT !.timer = @ - 1]
      [] s.timer <= 1 /\ ~SweepDue(s) -> [s EXCEPT !.timer = Reload(s)]
      [] SweepDue(s) /\ ~SweepMoves(s) -> [AfterCalculation(s) EXCEPT !.timer = Reload(s)]
      [] SweepMoves(s) -> AfterCalculation(Moved(s))

\* Mutant: only the first calculation is checked.
SweepClockDisablesOnce(s) == SweepDue(s) /\ Overflows(s)

SweepClockDisables(s) ==
    SweepDue(s) /\ (Overflows(s) \/ (SweepMoves(s) /\ Overflows(Moved(s))))

-----------------------------------------------------------------------------
(* The noise channel's shift register, as the set of the bits that are one *)

AllOnes == 0..HighBit

\* Bits 0 and 1 are XORed into the top bit, and into the narrow one of a short sequence.
StepNoise(lfsr, narrow) ==
    LET feedback == (0 \in lfsr) # (1 \in lfsr)
        into == {HighBit} \cup (IF narrow THEN {NarrowBit} ELSE {})
        shifted == {i \in 0..HighBit : i + 1 \in lfsr}
    IN IF feedback THEN shifted \cup into ELSE shifted \ into

-----------------------------------------------------------------------------
(* The wave channel: [frequency, position, timer, reading] *)

WavePeriod(w) == (FrequencySize - w.frequency) * 2

ReadIndex(position) == position \div 2

NextPosition(w) == (w.position + 1) % (2 * WaveBytes)

\* A T-cycle of a playing channel.
StepWave(w, lastOfMCycle) ==
    IF w.timer > 1 THEN [w EXCEPT !.timer = @ - 1]
    ELSE [w EXCEPT !.timer = WavePeriod(w), !.position = NextPosition(w),
                   !.reading = lastOfMCycle]

TickWave(w, playing) ==
    LET q == [w EXCEPT !.reading = FALSE]
    IN IF playing THEN StepWave(StepWave(StepWave(StepWave(q, FALSE), FALSE), FALSE), TRUE) ELSE q

AboutToRead(w) == w.timer = 2

TriggeredWave(w) == [w EXCEPT !.timer = WavePeriod(w) + TriggerDelay, !.position = 0]

PoweredOffWave(w) ==
    [w EXCEPT !.frequency = 0, !.position = 0, !.timer = FrequencySize * 2, !.reading = FALSE]

\* Retriggering just before a read rewrites the front of wave RAM.
CorruptedWaveRam(ram, w) ==
    LET index == ReadIndex(NextPosition(w))
        base == (index \div WaveGroup) * WaveGroup
    IN IF index < WaveGroup THEN [ram EXCEPT ![0] = ram[index]]
       ELSE [i \in DOMAIN ram |-> IF i < WaveGroup THEN ram[base + i] ELSE ram[i]]
=============================================================================
