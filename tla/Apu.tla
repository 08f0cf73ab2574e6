-------------------------------- MODULE Apu --------------------------------
(* The sound chip (src/src/core/apu/Apu.cpp): what switches its four         *)
(* channels on and off, the length counters and the sweep the frame          *)
(* sequencer clocks, wave RAM behind a playing channel, and the power        *)
(* switch.  The sequencer's edge may come in any M-cycle, for a write to DIV *)
(* moves it (FrameSequencer).  The envelopes' volume and the pulse and noise *)
(* frequency timers only shape the output and are left out: the shift        *)
(* register may step in any M-cycle.  A program plays one of the channels,   *)
(* so as to keep the instances small; the registers of the others rest.      *)
EXTENDS SoundUnits

CONSTANTS
    LengthMax,      \* what each channel's length counts from: 64, 256 for the third
    Played,         \* the channels programs play
    Periods, Shifts,        \* the sweep's, as programs write them
    WaveValues,             \* the bytes they write to wave RAM
    MaxWrites       \* register writes of a program

Channels == 1..4

ASSUME LengthAssumption == \A c \in Channels : LengthMax[c] \in Nat /\ LengthMax[c] > 1

ASSUME PlayedAssumption == Played \subseteq Channels

ASSUME PeriodsAssumption == Periods \subseteq Nat

VARIABLES
    powered,        \* powered_
    step,           \* step_: the sequencer's next step
    length,         \* length_
    on,             \* channelOn_
    dac,            \* dacOn(): the DAC bits of the stored registers
    frequency,      \* channel 1's frequency
    stored,         \* NR13 and NR14's copy of it
    sweep,          \* sweep_
    wave,           \* wave3_
    waveRam,        \* wave_
    lfsr, narrow, stopped,  \* noise4_
    switched,       \* the noise channel's width has changed since its trigger
    stepped,        \* steppedThisCycle_
    boot,           \* channel 1 still plays the boot ROM's note
    access,         \* the M-cycle's access is still to come
    channel,        \* the channel the program plays
    writes          \* what it has written

vars == <<powered, step, length, on, dac, frequency, stored, sweep, wave, waveRam,
          lfsr, narrow, stopped, switched, stepped, boot, access, channel, writes>>

pulseVars == <<frequency, stored, sweep>>
waveVars == <<wave, waveRam>>
noiseVars == <<lfsr, narrow, stopped, switched>>

StepClocksLength(s) == s % 2 = 0
StepClocksSweep(s) == s \in {2, 6}

FirstHalf == ~StepClocksLength(step)

\* The boot ROM leaves channel 1 on, with its DAC, and a length counter never loaded.
Init ==
    /\ powered = TRUE
    /\ step = 0
    /\ length = [c \in Channels |-> [value |-> 0, enabled |-> FALSE]]
    /\ on = [c \in Channels |-> c = 1]
    /\ dac = [c \in Channels |-> c = 1]
    /\ frequency = 0
    /\ stored = 0
    /\ sweep = PoweredOffSweep
    /\ wave = [frequency |-> 0, position |-> 0, timer |-> FrequencySize * 2,
               reading |-> FALSE]
    /\ waveRam = [i \in 0..WaveBytes - 1 |-> 0]
    /\ lfsr = AllOnes
    /\ narrow = FALSE
    /\ stopped = FALSE
    /\ switched = FALSE
    /\ stepped = FALSE
    /\ boot = TRUE
    /\ access = FALSE
    /\ channel \in Played
    /\ writes = 0

-----------------------------------------------------------------------------
(* The M-cycle *)

\* The sequencer's step: lengths first, then the sweep, whose result goes back to NR13 and NR14.
StepSequencer ==
    LET lengths == StepClocksLength(step)
        sweeps == StepClocksSweep(step)
    IN /\ step' = (step + 1) % 8
       /\ length' = [c \in Channels |-> IF lengths THEN Clocked(length[c]) ELSE length[c]]
       /\ on' = [c \in Channels |->
                    /\ on[c]
                    /\ ~(lengths /\ ClockExpires(length[c]))
                    /\ ~(c = 1 /\ sweeps /\ SweepClockDisables(sweep))]
       /\ sweep' = IF sweeps THEN SweepClocked(sweep) ELSE sweep
       /\ frequency' = IF sweeps /\ SweepMoves(sweep) THEN Calculated(sweep) ELSE frequency
       /\ stored' = IF sweeps THEN frequency' ELSE stored

\* One step for an M-cycle, however often it is asked.
ClockFromCounter(edge, already) ==
    /\ IF powered /\ edge /\ ~already THEN StepSequencer
       ELSE UNCHANGED <<step, length, on, pulseVars>>
    /\ stepped' = (already \/ (powered /\ edge))

\* The wave channel reads if the sequencer has left it on.
Tick(edge, noise) ==
    /\ ClockFromCounter(edge, FALSE)
    /\ wave' = IF powered THEN TickWave(wave, on'[3]) ELSE wave
    /\ lfsr' = IF powered /\ noise /\ ~stopped THEN StepNoise(lfsr, narrow) ELSE lfsr
    /\ access' = TRUE
    /\ UNCHANGED <<powered, dac, waveRam, narrow, stopped, switched, boot, channel, writes>>

-----------------------------------------------------------------------------
(* The access *)

Access ==
    /\ access /\ writes < MaxWrites
    /\ access' = FALSE
    /\ writes' = writes + 1
    /\ UNCHANGED <<stepped, channel>>

\* A write to DIV may make the edge too.
WriteCounter ==
    /\ access /\ writes < MaxWrites
    /\ access' = FALSE
    /\ writes' = writes + 1
    /\ ClockFromCounter(TRUE, stepped)
    /\ UNCHANGED <<powered, dac, waveVars, noiseVars, boot, channel>>

\* NRx1 loads the length, with the chip down as well.
WriteLength(c, v) ==
    /\ Access
    /\ length' = [length EXCEPT ![c] = Load(@, LengthMax[c], v)]
    /\ UNCHANGED <<powered, step, on, dac, pulseVars, waveVars, noiseVars, boot>>

\* NRx2 or NR30: a DAC that goes off takes its channel with it.
WriteDac(c, v) ==
    /\ Access /\ powered
    /\ dac' = [dac EXCEPT ![c] = v]
    /\ on' = [on EXCEPT ![c] = @ /\ v]
    /\ UNCHANGED <<powered, step, length, pulseVars, waveVars, noiseVars, boot>>

\* NR10.
WriteSweep(period, decreasing, shift) ==
    /\ Access /\ powered
    /\ sweep' = SweepWritten(sweep, period, decreasing, shift)
    /\ on' = [on EXCEPT ![1] = @ /\ ~SweepWriteDisables(sweep, decreasing)]
    /\ UNCHANGED <<powered, step, length, dac, frequency, stored, waveVars, noiseVars, boot>>

LowWritten(f, v) == f - (f % LowSize) + v
HighWritten(f, v) == v * LowSize + (f % LowSize)

\* NR13 and NR33.
WriteFrequencyLow(v) ==
    /\ Access /\ powered /\ channel \in {1, 3}
    /\ IF channel = 1
       THEN /\ frequency' = LowWritten(frequency, v)
            /\ stored' = LowWritten(stored, v)
            /\ UNCHANGED wave
       ELSE /\ wave' = [wave EXCEPT !.frequency = LowWritten(@, v)]
            /\ UNCHANGED <<frequency, stored>>
    /\ UNCHANGED <<powered, step, length, on, dac, sweep, waveRam, noiseVars, boot>>

\* What a trigger starts, beside the length: the sweep of channel 1 takes its frequency,
\* channel 3 rewrites wave RAM if it was about to read, channel 4 fills its register.
TriggerPulse(trigger) ==
    /\ sweep' = IF trigger THEN SweepTriggered(sweep, frequency') ELSE sweep
    /\ UNCHANGED <<waveVars, noiseVars>>

TriggerWave(trigger, playing, w) ==
    /\ waveRam' = IF trigger /\ playing /\ AboutToRead(w) THEN CorruptedWaveRam(waveRam, w)
                  ELSE waveRam
    /\ wave' = IF trigger THEN TriggeredWave(w) ELSE w
    /\ UNCHANGED <<pulseVars, noiseVars>>

\* Mutant: the register goes on from where it was.
TriggerNoiseKeeps(trigger) ==
    /\ switched' = (switched /\ ~trigger)
    /\ UNCHANGED <<lfsr, narrow, stopped, pulseVars, waveVars>>

TriggerNoise(trigger) ==
    /\ lfsr' = IF trigger THEN AllOnes ELSE lfsr
    /\ switched' = (switched /\ ~trigger)
    /\ UNCHANGED <<narrow, stopped, pulseVars, waveVars>>

\* NRx4: the frequency's high bits, then the length, then the trigger, which the DAC may
\* refuse and which channel 1's sweep may take back at once.
WriteControl(c, high, enable, trigger) ==
    LET playing == on[c] /\ ~ControlExpires(length[c], enable, trigger, FirstHalf)
        refused == c = 1 /\ SweepTriggerDisables(sweep, frequency')
    IN /\ Access /\ powered
       /\ CASE c = 1 -> /\ frequency' = HighWritten(frequency, high)
                        /\ stored' = frequency'
                        /\ TriggerPulse(trigger)
            [] c = 2 -> UNCHANGED <<pulseVars, waveVars, noiseVars>>
            [] c = 3 -> TriggerWave(trigger, playing,
                                    [wave EXCEPT !.frequency = HighWritten(@, high)])
            [] c = 4 -> TriggerNoise(trigger)
       /\ length' = [length EXCEPT ![c] =
                        Controlled(@, LengthMax[c], enable, trigger, FirstHalf)]
       /\ on' = [on EXCEPT ![c] = IF trigger THEN dac[c] /\ ~refused ELSE playing]
       /\ boot' = (boot /\ ~(c = 1 /\ trigger))
       /\ UNCHANGED <<powered, step, dac>>

\* NR43: the width takes effect at once, a shift past the divider stops the register.
WriteNoiseControl(width, stop) ==
    /\ Access /\ powered
    /\ narrow' = width
    /\ stopped' = stop
    /\ switched' = (switched \/ width # narrow)
    /\ UNCHANGED <<powered, step, length, on, dac, lfsr, pulseVars, waveVars, boot>>

\* Wave RAM, which a playing channel stands before and the power switch does not touch.
WriteWaveRam(i, v) ==
    /\ Access
    /\ waveRam' = CASE ~on[3] -> [waveRam EXCEPT ![i] = v]
                    [] on[3] /\ wave.reading -> [waveRam EXCEPT ![ReadIndex(wave.position)] = v]
                    [] OTHER -> waveRam
    /\ UNCHANGED <<powered, step, length, on, dac, pulseVars, wave, noiseVars, boot>>

\* NR52.  The counters' values survive, their enables do not, and neither does the sweep.
PowerOff ==
    /\ Access /\ powered
    /\ powered' = FALSE
    /\ on' = [c \in Channels |-> FALSE]
    /\ dac' = [c \in Channels |-> FALSE]
    /\ length' = [c \in Channels |-> [length[c] EXCEPT !.enabled = FALSE]]
    /\ frequency' = 0 /\ stored' = 0
    /\ sweep' = PoweredOffSweep
    /\ wave' = PoweredOffWave(wave)
    /\ narrow' = FALSE /\ stopped' = FALSE
    /\ switched' = (switched \/ narrow)
    /\ UNCHANGED <<step, waveRam, lfsr, boot>>

PowerOn ==
    /\ Access /\ ~powered
    /\ powered' = TRUE
    /\ step' = 0
    /\ UNCHANGED <<length, on, dac, pulseVars, waveVars, noiseVars, boot>>

Write ==
    \/ WriteCounter
    \/ \E v \in 0..LengthMax[channel] - 1 : WriteLength(channel, v)
    \/ \E v \in BOOLEAN : WriteDac(channel, v)
    \/ channel = 1 /\ \E p \in Periods, d \in BOOLEAN, s \in Shifts : WriteSweep(p, d, s)
    \/ \E v \in 0..LowSize - 1 : WriteFrequencyLow(v)
    \/ \E h \in 0..(FrequencySize \div LowSize) - 1, e, t \in BOOLEAN :
           WriteControl(channel, h, e, t)
    \/ channel = 4 /\ \E n, s \in BOOLEAN : WriteNoiseControl(n, s)
    \/ channel = 3 /\ \E i \in 0..WaveBytes - 1, v \in WaveValues : WriteWaveRam(i, v)
    \/ PowerOff \/ PowerOn

\* The register of a channel that is not played need not move.
Next == (\E edge, noise \in BOOLEAN : (noise => channel = 4) /\ Tick(edge, noise)) \/ Write

Spec == Init /\ [][Next]_vars

\* The system counter runs, so the sequencer's edge comes again and again (FrameSequencer).
FairSpec == Spec /\ WF_vars(Tick(TRUE, FALSE))

-----------------------------------------------------------------------------
(* Properties *)

TypeOK ==
    /\ powered \in BOOLEAN /\ step \in 0..7
    /\ length \in [Channels -> [value : Nat, enabled : BOOLEAN]]
    /\ \A c \in Channels : length[c].value <= LengthMax[c]
    /\ on \in [Channels -> BOOLEAN] /\ dac \in [Channels -> BOOLEAN]
    /\ frequency \in 0..MaxFrequency /\ stored \in 0..MaxFrequency
    /\ sweep \in [period : Nat, decreasing : BOOLEAN, shift : Nat, shadow : 0..MaxFrequency,
                  timer : Nat, enabled : BOOLEAN, negateUsed : BOOLEAN]
    /\ wave \in [frequency : 0..MaxFrequency, position : 0..2 * WaveBytes - 1, timer : Nat,
                 reading : BOOLEAN]
    /\ lfsr \in SUBSET AllOnes
    /\ narrow \in BOOLEAN /\ stopped \in BOOLEAN /\ switched \in BOOLEAN
    /\ stepped \in BOOLEAN /\ boot \in BOOLEAN /\ access \in BOOLEAN
    /\ channel \in Channels /\ writes \in Nat

\* NR52 tells the truth: a channel that reports itself on has power, a DAC and, but for the
\* note the boot ROM left, a length still to run, so that a counter that is enabled will
\* end it (Apu::write, Apu::trigger, LengthCounter::writeControl).
OnMeansPlaying ==
    \A c \in Channels : on[c] =>
        /\ powered
        /\ dac[c]
        /\ length[c].value > 0 \/ (c = 1 /\ boot)

\* A length is counted when its enable and the second half of the sequencer's period come
\* together, whichever of the two comes second, and never otherwise: the clock of a length
\* step and the extra clock of an NRx4 write are one rule (LengthCounter.h).
Gate(c) == length[c].enabled /\ ~StepClocksLength(step)
Counted(c) == IF Gate(c)' /\ ~Gate(c) /\ length[c].value > 0
              THEN length[c].value - 1 ELSE length[c].value
Reloaded(c) == IF Gate(c)' THEN LengthMax[c] - 1 ELSE LengthMax[c]

LengthFollowsItsGate ==
    [][\A c \in Channels :
          \/ length'[c].value = Counted(c)
          \/ Counted(c) = 0 /\ length'[c].value = Reloaded(c)
          \/ \E v \in 0..LengthMax[c] - 1 : WriteLength(c, v)]_vars

\* Whenever the sweep takes a new frequency and leaves the channel on, the step after it
\* would not overflow: the note is stopped one step early, never late
\* (FrequencySweep::clock, FrequencySweep::trigger).
SweepStopsInTime ==
    [][sweep'.shadow # sweep.shadow /\ on'[1] /\ sweep'.shift # 0 => ~Overflows(sweep')]_vars

\* The shift register of a note never reaches the state of all zeros, which it would not
\* leave, as long as its width is left alone (NoiseChannel::step, NoiseChannel.h:73).
NoiseIsAlive == ~switched => (lfsr # {} /\ (narrow => lfsr \cap 0..NarrowBit # {}))

\* Every note with an enabled length ends, or its length is switched off, or, as the boot
\* ROM's, it never had one: no channel plays on behind a counter that has stopped.
NotesEnd ==
    <>[](\A c \in Channels : ~(on[c] /\ length[c].enabled /\ ~(c = 1 /\ boot)))
=============================================================================
