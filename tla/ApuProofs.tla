----------------------------- MODULE ApuProofs ------------------------------
(* That a channel which reports itself on has power, a DAC and a length to   *)
(* run, and that the noise channel's register never runs dry, for every      *)
(* length, width of the register and program.                                *)
EXTENDS Apu, TLAPS

\* The registers the two invariants speak of.
Lengths == [Channels -> [value : Nat, enabled : BOOLEAN]]

ChipType ==
    /\ powered \in BOOLEAN
    /\ step \in 0..7
    /\ length \in Lengths
    /\ on \in [Channels -> BOOLEAN]
    /\ dac \in [Channels -> BOOLEAN]
    /\ boot \in BOOLEAN
    /\ channel \in Channels

NoiseType ==
    /\ lfsr \in SUBSET AllOnes
    /\ narrow \in BOOLEAN
    /\ stopped \in BOOLEAN
    /\ switched \in BOOLEAN

-----------------------------------------------------------------------------
(* The length counter *)

\* A clock leaves a counter that does not expire above zero if it was.
LEMMA ClockedKeeps ==
    ASSUME NEW l \in [value : Nat, enabled : BOOLEAN]
    PROVE  /\ Clocked(l) \in [value : Nat, enabled : BOOLEAN]
           /\ l.value > 0 /\ ~ClockExpires(l) => Clocked(l).value > 0
    BY DEF Clocked, ClockExpires

\* An NRx4 write leaves a counter above zero, if it triggers, or if it was and the write
\* does not let it expire.
LEMMA ControlledKeeps ==
    ASSUME NEW l \in [value : Nat, enabled : BOOLEAN], NEW max \in Nat, max > 1,
           NEW enable \in BOOLEAN, NEW trigger \in BOOLEAN, NEW firstHalf \in BOOLEAN
    PROVE  LET c == Controlled(l, max, enable, trigger, firstHalf)
           IN /\ c \in [value : Nat, enabled : BOOLEAN]
              /\ trigger => c.value > 0
              /\ l.value > 0 /\ ~ControlExpires(l, enable, trigger, firstHalf) => c.value > 0
    BY DEF Controlled, ControlExpires, ExtraClock

-----------------------------------------------------------------------------
(* The noise channel's register *)

\* One step of a register with a bit set, where the sequence in use looks, leaves one set.
LEMMA StepNoiseKeeps ==
    ASSUME NEW register \in SUBSET AllOnes, NEW short \in BOOLEAN,
           register # {}, short => register \cap 0..NarrowBit # {}
    PROVE  /\ StepNoise(register, short) \in SUBSET AllOnes
           /\ StepNoise(register, short) # {}
           /\ short => StepNoise(register, short) \cap 0..NarrowBit # {}
<1> DEFINE feedback == (0 \in register) # (1 \in register)
           into == {HighBit} \cup (IF short THEN {NarrowBit} ELSE {})
           shifted == {i \in 0..HighBit : i + 1 \in register}
<1>1. StepNoise(register, short) = IF feedback THEN shifted \cup into ELSE shifted \ into
    BY DEF StepNoise
<1>2. into \subseteq AllOnes /\ shifted \subseteq AllOnes
    BY NoiseAssumption DEF AllOnes
<1>3. CASE feedback
    BY <1>1, <1>2, <1>3, NoiseAssumption DEF AllOnes
<1>4. CASE ~feedback
  <2> DEFINE top == IF short THEN NarrowBit ELSE HighBit
  <2>1. top \in Nat /\ top > 0 /\ top <= HighBit
      BY NoiseAssumption
  <2>2. PICK i \in register : i \in 0..top /\ i > 0
    <3>1. PICK i \in register : i \in 0..top
        BY DEF AllOnes
    <3>2. i = 0 => 1 \in register
        BY <1>4, <3>1
    <3> QED
        BY <2>1, <3>1, <3>2
  <2>3. i - 1 \in shifted /\ i - 1 \notin into /\ i - 1 \in 0..top
      BY <2>1, <2>2, NoiseAssumption
  <2>4. StepNoise(register, short) = shifted \ into
      BY <1>1, <1>4
  <2>5. i - 1 \in StepNoise(register, short)
      BY <2>3, <2>4
  <2>6. short => i - 1 \in 0..NarrowBit
      BY <2>3
  <2> QED
      BY <1>2, <2>4, <2>5, <2>6
<1> QED
    BY <1>3, <1>4

-----------------------------------------------------------------------------
(* What a channel that plays has *)

LEMMA OnInit == Init => ChipType /\ OnMeansPlaying
<1> SUFFICES ASSUME Init PROVE ChipType /\ OnMeansPlaying
    OBVIOUS
<1>1. powered = TRUE /\ step = 0 /\ boot = TRUE /\ channel \in Channels
    BY PlayedAssumption DEF Init
<1>2. length \in Lengths
    BY DEF Init, Lengths
<1>3. on \in [Channels -> BOOLEAN] /\ dac \in [Channels -> BOOLEAN]
    BY DEF Init
<1>4. \A c \in Channels : on[c] => c = 1 /\ dac[c]
    BY DEF Init
<1>5. ChipType
    BY <1>1, <1>2, <1>3 DEF ChipType
<1>6. OnMeansPlaying
    BY <1>1, <1>4 DEF OnMeansPlaying
<1> QED
    BY <1>5, <1>6

\* A step of the sequencer, whoever makes it.
LEMMA OnSequencer ==
    ASSUME ChipType, OnMeansPlaying, StepSequencer, UNCHANGED <<powered, dac, boot, channel>>
    PROVE  ChipType' /\ OnMeansPlaying'
<1>1. \A c \in Channels : length[c] \in [value : Nat, enabled : BOOLEAN]
    BY DEF ChipType, Lengths
<1>2. \A c \in Channels :
        /\ Clocked(length[c]) \in [value : Nat, enabled : BOOLEAN]
        /\ length[c].value > 0 /\ ~ClockExpires(length[c]) => Clocked(length[c]).value > 0
    BY <1>1, ClockedKeeps
<1> DEFINE lengths == StepClocksLength(step)
<1>3. /\ length' = [c \in Channels |-> IF lengths THEN Clocked(length[c]) ELSE length[c]]
      /\ on' \in [Channels -> BOOLEAN]
      /\ \A c \in Channels : on'[c] => on[c] /\ ~(lengths /\ ClockExpires(length[c]))
      /\ step' \in 0..7
    BY DEF StepSequencer, ChipType
<1> HIDE DEF lengths
<1>4. ChipType'
    BY <1>1, <1>2, <1>3 DEF ChipType, Lengths
<1>5. \A c \in Channels : length[c].value > 0 /\ on'[c] => length'[c].value > 0
    BY <1>1, <1>2, <1>3
<1>6. OnMeansPlaying'
    BY <1>3, <1>5 DEF OnMeansPlaying, ChipType
<1> QED
    BY <1>4, <1>6

LEMMA OnClock ==
    ASSUME ChipType, OnMeansPlaying, NEW edge, NEW already, ClockFromCounter(edge, already),
           UNCHANGED <<powered, dac, boot, channel>>
    PROVE  ChipType' /\ OnMeansPlaying'
<1>1. CASE StepSequencer
    BY <1>1, OnSequencer
<1>2. CASE UNCHANGED <<step, length, on, pulseVars>>
    BY <1>2 DEF ChipType, OnMeansPlaying
<1> QED
    BY <1>1, <1>2 DEF ClockFromCounter

LEMMA OnWriteLength ==
    ASSUME ChipType, OnMeansPlaying, NEW v \in 0..LengthMax[channel] - 1,
           WriteLength(channel, v)
    PROVE  ChipType' /\ OnMeansPlaying'
<1>1. channel \in Channels /\ LengthMax[channel] \in Nat
    BY LengthAssumption DEF ChipType
<1>2. length[channel] \in [value : Nat, enabled : BOOLEAN]
    BY <1>1 DEF ChipType, Lengths
<1>3. /\ Load(length[channel], LengthMax[channel], v) \in [value : Nat, enabled : BOOLEAN]
      /\ Load(length[channel], LengthMax[channel], v).value > 0
    BY <1>1, <1>2 DEF Load
<1>4. length' = [length EXCEPT ![channel] = Load(length[channel], LengthMax[channel], v)]
    BY DEF WriteLength
<1>5. \A c \in Channels : length[c].value > 0 => length'[c].value > 0
    BY <1>1, <1>3, <1>4 DEF ChipType, Lengths
<1>6. length' \in Lengths
    BY <1>1, <1>3, <1>4 DEF ChipType, Lengths
<1> QED
    BY <1>5, <1>6 DEF WriteLength, Access, ChipType, OnMeansPlaying

LEMMA OnWriteControl ==
    ASSUME ChipType, OnMeansPlaying,
           NEW high, NEW enable \in BOOLEAN, NEW trigger \in BOOLEAN,
           WriteControl(channel, high, enable, trigger)
    PROVE  ChipType' /\ OnMeansPlaying'
<1> DEFINE c == channel
           l == Controlled(length[c], LengthMax[c], enable, trigger, FirstHalf)
           playing == on[c] /\ ~ControlExpires(length[c], enable, trigger, FirstHalf)
<1>1. c \in Channels /\ LengthMax[c] \in Nat /\ LengthMax[c] > 1
    BY LengthAssumption DEF ChipType
<1>2. length[c] \in [value : Nat, enabled : BOOLEAN]
    BY <1>1 DEF ChipType, Lengths
<1>3. FirstHalf \in BOOLEAN
    BY DEF FirstHalf, StepClocksLength
<1>4. /\ l \in [value : Nat, enabled : BOOLEAN]
      /\ trigger => l.value > 0
      /\ length[c].value > 0 /\ ~ControlExpires(length[c], enable, trigger, FirstHalf)
            => l.value > 0
    BY <1>1, <1>2, <1>3, ControlledKeeps
<1>5. /\ length' = [length EXCEPT ![c] = l]
      /\ powered /\ powered' = powered /\ step' = step /\ dac' = dac /\ channel' = channel
      /\ boot' = (boot /\ ~(c = 1 /\ trigger))
    BY DEF WriteControl, Access
<1>6. PICK refused \in BOOLEAN :
        on' = [on EXCEPT ![c] = IF trigger THEN dac[c] /\ ~refused ELSE playing]
    BY DEF WriteControl
<1> HIDE DEF l
<1>7. length' \in Lengths /\ \A d \in Channels : length'[d] = IF d = c THEN l ELSE length[d]
    BY <1>1, <1>4, <1>5 DEF ChipType, Lengths
<1>8. /\ on' \in [Channels -> BOOLEAN]
      /\ \A d \in Channels \ {c} : on'[d] = on[d]
      /\ on'[c] = IF trigger THEN dac[c] /\ ~refused ELSE playing
    BY <1>1, <1>6 DEF ChipType
<1>9. ChipType'
    BY <1>5, <1>7, <1>8 DEF ChipType
<1>10. ASSUME NEW d \in Channels, on'[d]
       PROVE  /\ powered' /\ dac'[d]
              /\ length'[d].value > 0 \/ (d = 1 /\ boot')
  <2>1. CASE d # c
      BY <1>5, <1>7, <1>8, <1>10, <2>1 DEF OnMeansPlaying
  <2>2. CASE d = c /\ trigger
      BY <1>4, <1>5, <1>7, <1>8, <1>10, <2>2
  <2>3. CASE d = c /\ ~trigger
    <3>1. on[c] /\ ~ControlExpires(length[c], enable, trigger, FirstHalf)
        BY <1>8, <1>10, <2>3
    <3> QED
        BY <1>1, <1>4, <1>5, <1>7, <2>3, <3>1 DEF OnMeansPlaying
  <2> QED
      BY <2>1, <2>2, <2>3
<1> QED
    BY <1>9, <1>10 DEF OnMeansPlaying

LEMMA OnPowerOff ==
    ASSUME ChipType, OnMeansPlaying, PowerOff
    PROVE  ChipType' /\ OnMeansPlaying'
BY DEF PowerOff, Access, ChipType, OnMeansPlaying, Lengths

LEMMA OnNext ==
    ASSUME ChipType, OnMeansPlaying, [Next]_vars
    PROVE  ChipType' /\ OnMeansPlaying'
<1>1. ASSUME NEW edge \in BOOLEAN, NEW noise \in BOOLEAN, Tick(edge, noise)
      PROVE  ChipType' /\ OnMeansPlaying'
    BY <1>1, OnClock DEF Tick
<1>2. CASE WriteCounter
    BY <1>2, OnClock DEF WriteCounter
<1>3. ASSUME NEW v \in BOOLEAN, WriteDac(channel, v)
      PROVE  ChipType' /\ OnMeansPlaying'
    BY <1>3 DEF WriteDac, Access, ChipType, OnMeansPlaying
<1>4. ASSUME NEW p, NEW d, NEW s, WriteSweep(p, d, s)
      PROVE  ChipType' /\ OnMeansPlaying'
    BY <1>4 DEF WriteSweep, Access, ChipType, OnMeansPlaying, Channels
<1>5. ASSUME NEW v, WriteFrequencyLow(v)
      PROVE  ChipType' /\ OnMeansPlaying'
    BY <1>5 DEF WriteFrequencyLow, Access, ChipType, OnMeansPlaying
<1>6. ASSUME NEW n, NEW s, WriteNoiseControl(n, s)
      PROVE  ChipType' /\ OnMeansPlaying'
    BY <1>6 DEF WriteNoiseControl, Access, ChipType, OnMeansPlaying
<1>7. ASSUME NEW i, NEW v, WriteWaveRam(i, v)
      PROVE  ChipType' /\ OnMeansPlaying'
    BY <1>7 DEF WriteWaveRam, Access, ChipType, OnMeansPlaying
<1>8. CASE PowerOn
    BY <1>8 DEF PowerOn, Access, ChipType, OnMeansPlaying
<1>9. CASE UNCHANGED vars
    BY <1>9 DEF vars, ChipType, OnMeansPlaying
<1> QED
    BY <1>1, <1>2, <1>3, <1>4, <1>5, <1>6, <1>7, <1>8, <1>9,
       OnWriteLength, OnWriteControl, OnPowerOff DEF Next, Write

\* A channel that NR52 reports on has power, a DAC and a length still to run, but for the
\* boot ROM's note.
THEOREM OnMeansPlayingAlways == Spec => []OnMeansPlaying
<1>1. ChipType /\ OnMeansPlaying /\ [Next]_vars => (ChipType /\ OnMeansPlaying)'
    BY OnNext
<1> QED
    BY <1>1, OnInit, PTL DEF Spec
-----------------------------------------------------------------------------
(* The noise channel's register *)

LEMMA NoiseInit == Init => NoiseType /\ NoiseIsAlive
<1> SUFFICES ASSUME Init PROVE NoiseType /\ NoiseIsAlive
    OBVIOUS
<1>1. lfsr = AllOnes /\ narrow = FALSE /\ stopped = FALSE /\ switched = FALSE
    BY DEF Init
<1>2. 0 \in AllOnes
    BY NoiseAssumption DEF AllOnes
<1> QED
    BY <1>1, <1>2 DEF NoiseType, NoiseIsAlive

\* A trigger fills the register, whose first bit every sequence looks at.
LEMMA NoiseTriggered ==
    ASSUME NoiseType, NoiseIsAlive, NEW trigger \in BOOLEAN, TriggerNoise(trigger)
    PROVE  NoiseType' /\ NoiseIsAlive'
<1>1. CASE trigger
  <2>1. lfsr' = AllOnes /\ switched' = FALSE /\ narrow' = narrow /\ stopped' = stopped
      BY <1>1 DEF TriggerNoise, NoiseType
  <2>2. 0 \in lfsr' \cap 0..NarrowBit
      BY <2>1, NoiseAssumption DEF AllOnes
  <2> QED
      BY <2>1, <2>2 DEF NoiseType, NoiseIsAlive
<1>2. CASE ~trigger
    BY <1>2 DEF TriggerNoise, NoiseType, NoiseIsAlive
<1> QED
    BY <1>1, <1>2

LEMMA NoiseTick ==
    ASSUME NoiseType, NoiseIsAlive, NEW edge, NEW noise, Tick(edge, noise)
    PROVE  NoiseType' /\ NoiseIsAlive'
<1>1. narrow' = narrow /\ stopped' = stopped /\ switched' = switched
    BY DEF Tick
<1>2. lfsr' = StepNoise(lfsr, narrow) \/ lfsr' = lfsr
    BY DEF Tick
<1>3. CASE lfsr' = lfsr
    BY <1>1, <1>3 DEF NoiseType, NoiseIsAlive
<1>4. StepNoise(lfsr, narrow) \in SUBSET AllOnes
    BY NoiseAssumption DEF StepNoise, AllOnes, NoiseType
<1>5. ~switched => /\ StepNoise(lfsr, narrow) # {}
                   /\ narrow => StepNoise(lfsr, narrow) \cap 0..NarrowBit # {}
    BY StepNoiseKeeps DEF NoiseType, NoiseIsAlive
<1>6. CASE lfsr' = StepNoise(lfsr, narrow)
    BY <1>1, <1>4, <1>5, <1>6 DEF NoiseType, NoiseIsAlive
<1> QED
    BY <1>2, <1>3, <1>6

LEMMA NoiseControl ==
    ASSUME NoiseType, NoiseIsAlive, NEW high, NEW enable, NEW trigger \in BOOLEAN,
           WriteControl(channel, high, enable, trigger), channel \in Channels
    PROVE  NoiseType' /\ NoiseIsAlive'
<1>1. CASE channel = 4
  <2>1. TriggerNoise(trigger)
      BY <1>1 DEF WriteControl
  <2> QED
      BY <2>1, NoiseTriggered
<1>2. CASE channel # 4
  <2>1. UNCHANGED noiseVars
    <3>1. channel = 1 \/ channel = 2 \/ channel = 3
        BY <1>2 DEF Channels
    <3>2. CASE channel = 1
        BY <3>2 DEF WriteControl, TriggerPulse
    <3>3. CASE channel = 2
        BY <3>3 DEF WriteControl
    <3>4. CASE channel = 3
      <4>1. PICK playing, w : TriggerWave(trigger, playing, w)
          BY <3>4 DEF WriteControl
      <4> QED
          BY <4>1 DEF TriggerWave
    <3> QED
        BY <3>1, <3>2, <3>3, <3>4
  <2> QED
      BY <2>1 DEF noiseVars, NoiseType, NoiseIsAlive
<1> QED
    BY <1>1, <1>2

\* A width that does not change leaves the register where it lives; one that does, as NR52
\* going down may, is remembered.
LEMMA NoiseWidth ==
    ASSUME NoiseType, NoiseIsAlive, NEW width \in BOOLEAN, narrow' = width,
           stopped' \in BOOLEAN, switched' = (switched \/ width # narrow), lfsr' = lfsr
    PROVE  NoiseType' /\ NoiseIsAlive'
<1>1. CASE width = narrow
    BY <1>1 DEF NoiseType, NoiseIsAlive
<1>2. CASE width # narrow
    BY <1>2 DEF NoiseType, NoiseIsAlive
<1> QED
    BY <1>1, <1>2

LEMMA NoiseNext ==
    ASSUME NoiseType, NoiseIsAlive, channel \in Channels, [Next]_vars
    PROVE  NoiseType' /\ NoiseIsAlive'
<1> USE DEF NoiseType, NoiseIsAlive, noiseVars, Access
<1>1. CASE WriteCounter
    BY <1>1 DEF WriteCounter
<1>2. ASSUME NEW v, WriteLength(channel, v) \/ WriteDac(channel, v)
      PROVE  NoiseType' /\ NoiseIsAlive'
    BY <1>2 DEF WriteLength, WriteDac
<1>3. ASSUME NEW p, NEW d, NEW s, WriteSweep(p, d, s)
      PROVE  NoiseType' /\ NoiseIsAlive'
    BY <1>3 DEF WriteSweep
<1>4. ASSUME NEW v, WriteFrequencyLow(v)
      PROVE  NoiseType' /\ NoiseIsAlive'
    BY <1>4 DEF WriteFrequencyLow
<1>5. ASSUME NEW n \in BOOLEAN, NEW s \in BOOLEAN, WriteNoiseControl(n, s)
      PROVE  NoiseType' /\ NoiseIsAlive'
    BY <1>5, NoiseWidth DEF WriteNoiseControl
<1>6. ASSUME NEW i, NEW v, WriteWaveRam(i, v)
      PROVE  NoiseType' /\ NoiseIsAlive'
    BY <1>6 DEF WriteWaveRam
<1>7. CASE PowerOff
  <2>1. /\ narrow' = FALSE /\ stopped' = FALSE /\ lfsr' = lfsr
        /\ switched' = (switched \/ FALSE # narrow)
      BY <1>7 DEF PowerOff
  <2> QED
      BY <2>1, NoiseWidth
<1>8. CASE PowerOn
    BY <1>8 DEF PowerOn
<1>9. CASE UNCHANGED vars
    BY <1>9 DEF vars
<1> QED
    BY <1>1, <1>2, <1>3, <1>4, <1>5, <1>6, <1>7, <1>8, <1>9, NoiseTick, NoiseControl
    DEF Next, Write

\* The noise channel's register never reaches the state it would not leave, unless the
\* width of its sequence has changed since the trigger.
THEOREM NoiseIsAliveAlways == Spec => []NoiseIsAlive
<1>1. ChipType /\ OnMeansPlaying /\ NoiseType /\ NoiseIsAlive /\ [Next]_vars
        => (ChipType /\ OnMeansPlaying /\ NoiseType /\ NoiseIsAlive)'
    BY OnNext, NoiseNext DEF ChipType
<1> QED
    BY <1>1, OnInit, NoiseInit, PTL DEF Spec
-----------------------------------------------------------------------------
(* The lengths and the sweep, step by step *)

\* What LengthFollowsItsGate says of one channel and one step.
Follows(c) ==
    \/ length'[c].value = Counted(c)
    \/ Counted(c) = 0 /\ length'[c].value = Reloaded(c)
    \/ \E v \in 0..LengthMax[c] - 1 : WriteLength(c, v)

\* A step of the sequencer opens the gates of the enabled counters or closes them.
LEMMA FollowsSequencer ==
    ASSUME ChipType, StepSequencer, NEW c \in Channels
    PROVE  Follows(c)
<1>1. length[c] \in [value : Nat, enabled : BOOLEAN]
    BY DEF ChipType, Lengths
<1>2. /\ length'[c] = IF StepClocksLength(step) THEN Clocked(length[c]) ELSE length[c]
      /\ step \in 0..7 /\ step' = (step + 1) % 8
    BY DEF StepSequencer, ChipType
<1>3. StepClocksLength(step)' <=> ~StepClocksLength(step)
    BY <1>2 DEF StepClocksLength
<1>4. CASE StepClocksLength(step)
  <2>1. length'[c] = Clocked(length[c])
      BY <1>2, <1>4
  <2> QED
      BY <1>1, <1>3, <1>4, <2>1 DEF Follows, Counted, Gate, Clocked
<1>5. CASE ~StepClocksLength(step)
    BY <1>1, <1>2, <1>3, <1>5 DEF Follows, Counted, Gate
<1> QED
    BY <1>4, <1>5

LEMMA FollowsClock ==
    ASSUME ChipType, NEW edge, NEW already, ClockFromCounter(edge, already), NEW c \in Channels
    PROVE  Follows(c)
<1>1. CASE StepSequencer
    BY <1>1, FollowsSequencer
<1>2. CASE UNCHANGED <<step, length, on, pulseVars>>
    BY <1>2 DEF Follows, Counted, Gate, StepClocksLength
<1> QED
    BY <1>1, <1>2 DEF ClockFromCounter

LEMMA FollowsControl ==
    ASSUME ChipType, NEW high, NEW enable \in BOOLEAN, NEW trigger \in BOOLEAN,
           WriteControl(channel, high, enable, trigger), NEW c \in Channels
    PROVE  Follows(c)
<1>1. /\ channel \in Channels /\ step' = step
      /\ length' = [length EXCEPT ![channel] =
                        Controlled(length[channel], LengthMax[channel], enable, trigger, FirstHalf)]
    BY DEF WriteControl, ChipType
<1>2. length[c] \in [value : Nat, enabled : BOOLEAN]
    BY DEF ChipType, Lengths
<1>3. CASE c # channel
  <2>1. length'[c] = length[c]
      BY <1>1, <1>3 DEF ChipType, Lengths
  <2> QED
      BY <1>1, <2>1 DEF Follows, Counted, Gate, StepClocksLength
<1>4. CASE c = channel
  <2>1. length'[c] = Controlled(length[c], LengthMax[c], enable, trigger, FirstHalf)
      BY <1>1, <1>4 DEF ChipType, Lengths
  <2>2. length'[c].enabled = enable
      BY <2>1 DEF Controlled
  <2>3. Gate(c) <=> length[c].enabled /\ FirstHalf
      BY DEF Gate, FirstHalf
  <2>4. Gate(c)' <=> enable /\ FirstHalf
      BY <1>1, <2>2 DEF Gate, FirstHalf, StepClocksLength
  <2>5. Counted(c) = IF ExtraClock(length[c], enable, FirstHalf)
                     THEN length[c].value - 1 ELSE length[c].value
      BY <2>3, <2>4 DEF Counted, ExtraClock
  <2>6. Reloaded(c) = IF FirstHalf /\ enable THEN LengthMax[c] - 1 ELSE LengthMax[c]
      BY <2>4 DEF Reloaded
  <2>7. length'[c].value = IF trigger /\ Counted(c) = 0 THEN Reloaded(c) ELSE Counted(c)
      BY <2>1, <2>5, <2>6 DEF Controlled
  <2> QED
      BY <2>7 DEF Follows
<1> QED
    BY <1>3, <1>4

LEMMA FollowsNext ==
    ASSUME ChipType, [Next]_vars, NEW c \in Channels
    PROVE  Follows(c)
<1>1. CASE UNCHANGED <<step, length>>
    BY <1>1 DEF Follows, Counted, Gate, StepClocksLength
<1>2. ASSUME NEW edge, NEW noise, Tick(edge, noise) PROVE Follows(c)
    BY <1>2, FollowsClock DEF Tick
<1>3. CASE WriteCounter
    BY <1>3, FollowsClock DEF WriteCounter
<1>4. ASSUME NEW v \in 0..LengthMax[channel] - 1, WriteLength(channel, v) PROVE Follows(c)
  <2>1. CASE c = channel
      BY <1>4, <2>1 DEF Follows
  <2>2. CASE c # channel
    <3>1. length'[c] = length[c] /\ step' = step
        BY <1>4, <2>2 DEF WriteLength, ChipType, Lengths
    <3> QED
        BY <3>1 DEF Follows, Counted, Gate, StepClocksLength
  <2> QED
      BY <2>1, <2>2
<1>5. ASSUME NEW v, WriteDac(channel, v) \/ WriteFrequencyLow(v)
      PROVE  UNCHANGED <<step, length>>
    BY <1>5 DEF WriteDac, WriteFrequencyLow
<1>6. ASSUME NEW p, NEW d, NEW s, WriteSweep(p, d, s)
      PROVE  UNCHANGED <<step, length>>
    BY <1>6 DEF WriteSweep
<1>7. ASSUME NEW a, NEW b, WriteNoiseControl(a, b) \/ WriteWaveRam(a, b)
      PROVE  UNCHANGED <<step, length>>
    BY <1>7 DEF WriteNoiseControl, WriteWaveRam
<1>8. CASE PowerOff
  <2>1. length' = [d \in Channels |-> [length[d] EXCEPT !.enabled = FALSE]]
      BY <1>8 DEF PowerOff
  <2>2. length[c] \in [value : Nat, enabled : BOOLEAN]
      BY DEF ChipType, Lengths
  <2>3. length'[c].enabled = FALSE /\ length'[c].value = length[c].value
      BY <2>1, <2>2
  <2> QED
      BY <2>3 DEF Follows, Counted, Gate
<1>9. CASE PowerOn
    BY <1>9 DEF PowerOn, Follows, Counted, Gate, StepClocksLength
<1>10. CASE UNCHANGED vars
    BY <1>1, <1>10 DEF vars
<1> QED
    BY <1>1, <1>2, <1>3, <1>4, <1>5, <1>6, <1>7, <1>8, <1>9, <1>10, FollowsControl
    DEF Next, Write

\* A counter is counted exactly when its gate opens, whichever of the sequencer and the
\* program opens it.
THEOREM LengthFollowsItsGateAlways == Spec => LengthFollowsItsGate
<1>1. ChipType /\ OnMeansPlaying /\ [Next]_vars => (ChipType /\ OnMeansPlaying)'
    BY OnNext
<1>2. ChipType /\ [Next]_vars => \A c \in Channels : Follows(c)
    BY FollowsNext
<1>3. ChipType /\ [Next]_vars =>
        \A c \in Channels :
           \/ length'[c].value = Counted(c)
           \/ Counted(c) = 0 /\ length'[c].value = Reloaded(c)
           \/ \E v \in 0..LengthMax[c] - 1 : WriteLength(c, v)
    BY <1>2 DEF Follows
<1> QED
    BY <1>1, <1>3, OnInit, PTL DEF Spec, LengthFollowsItsGate
-----------------------------------------------------------------------------
(* The sweep *)

\* The unit's registers, of which only the timer's need a type.
SweepRecord ==
    /\ sweep.period \in Nat /\ sweep.timer \in Nat
    /\ sweep = [period |-> sweep.period, decreasing |-> sweep.decreasing,
                shift |-> sweep.shift,
                shadow |-> sweep.shadow, timer |-> sweep.timer, enabled |-> sweep.enabled,
                negateUsed |-> sweep.negateUsed]

\* Whether a calculation overflows is a matter of three of them.
LEMMA SameCalculation ==
    ASSUME NEW s, NEW t, s.shadow = t.shadow, s.shift = t.shift, s.decreasing = t.decreasing
    PROVE  Overflows(s) = Overflows(t)
BY DEF Overflows, Calculated, Offset

LEMMA ReloadType == SweepRecord => Reload(sweep) \in Nat
BY SweepAssumption DEF Reload, SweepRecord

LEMMA SweepInit == Init => SweepRecord
BY DEF Init, SweepRecord, PoweredOffSweep

\* A clock that moves the frequency calculates with the new one.
LEMMA SweepClocks ==
    ASSUME SweepRecord, ChipType, StepSequencer
    PROVE  /\ SweepRecord'
           /\ sweep'.shadow # sweep.shadow /\ on'[1] => ~Overflows(sweep')
<1>1. CASE sweep' = sweep
    BY <1>1 DEF SweepRecord
<1>2. CASE StepClocksSweep(step) /\ sweep' = SweepClocked(sweep)
  <2>1. CASE SweepMoves(sweep)
    <3>1. /\ sweep' = AfterCalculation(Moved(sweep))
          /\ on'[1] => ~Overflows(Moved(sweep))
      <4>1. sweep' = AfterCalculation(Moved(sweep))
          BY <1>2, <2>1 DEF SweepClocked, SweepMoves, SweepDue, SweepRecord
      <4>2. on'[1] => ~SweepClockDisables(sweep)
          BY <1>2 DEF StepSequencer, ChipType, Channels
      <4> QED
          BY <4>1, <4>2, <2>1 DEF SweepClockDisables, SweepMoves
    <3> QED
        BY <3>1, SameCalculation, ReloadType DEF SweepRecord, Moved, AfterCalculation
  <2>2. CASE ~SweepMoves(sweep)
    <3>1. CASE sweep.timer > 1
        BY <1>2, <3>1 DEF SweepClocked, SweepRecord, SweepDue, SweepMoves
    <3>2. CASE ~(sweep.timer > 1) /\ ~SweepDue(sweep)
      <4>1. sweep' = [sweep EXCEPT !.timer = Reload(sweep)]
          BY <1>2, <2>2, <3>2 DEF SweepClocked, SweepRecord
      <4> QED
          BY <4>1, ReloadType DEF SweepRecord
    <3>3. CASE SweepDue(sweep)
      <4>1. sweep' = [AfterCalculation(sweep) EXCEPT !.timer = Reload(sweep)]
          BY <1>2, <2>2, <3>3 DEF SweepClocked, SweepDue, SweepRecord
      <4> QED
          BY <4>1, ReloadType DEF SweepRecord, AfterCalculation
    <3> QED
        BY <3>1, <3>2, <3>3
  <2> QED
      BY <2>1, <2>2
<1> QED
    BY <1>1, <1>2 DEF StepSequencer

LEMMA SweepTriggers ==
    ASSUME SweepRecord, ChipType, NEW high, NEW enable \in BOOLEAN, NEW trigger \in BOOLEAN,
           WriteControl(channel, high, enable, trigger)
    PROVE  /\ SweepRecord'
           /\ sweep'.shadow # sweep.shadow /\ on'[1] /\ sweep'.shift # 0 => ~Overflows(sweep')
<1>1. CASE sweep' = sweep
    BY <1>1 DEF SweepRecord
<1>2. CASE channel = 1 /\ trigger
  <2>1. sweep' = SweepTriggered(sweep, frequency')
      BY <1>2 DEF WriteControl, TriggerPulse
  <2>2. on'[1] => ~SweepTriggerDisables(sweep, frequency')
      BY <1>2 DEF WriteControl, ChipType, Channels
  <2>3. /\ SweepRecord'
        /\ sweep'.shadow = frequency' /\ sweep'.shift = sweep.shift
        /\ sweep'.decreasing = sweep.decreasing
      BY <2>1, ReloadType DEF SweepRecord, SweepTriggered, AfterCalculation
  <2>4. Overflows(sweep') = Overflows([sweep EXCEPT !.shadow = frequency'])
      BY <2>3, SameCalculation DEF SweepRecord
  <2> QED
      BY <2>2, <2>3, <2>4 DEF SweepTriggerDisables
<1>3. channel = 1 \/ channel = 2 \/ channel = 3 \/ channel = 4
    BY DEF ChipType, Channels
<1>4. CASE channel = 1 /\ ~trigger
    BY <1>1, <1>4 DEF WriteControl, TriggerPulse
<1>5. CASE channel = 2
    BY <1>1, <1>5 DEF WriteControl, pulseVars
<1>6. CASE channel = 3
    BY <1>1, <1>6 DEF WriteControl, TriggerWave, pulseVars
<1>7. CASE channel = 4
    BY <1>1, <1>7 DEF WriteControl, TriggerNoise, pulseVars
<1> QED
    BY <1>2, <1>3, <1>4, <1>5, <1>6, <1>7

LEMMA SweepNext ==
    ASSUME SweepRecord, ChipType, [Next]_vars
    PROVE  /\ SweepRecord'
           /\ sweep'.shadow # sweep.shadow /\ on'[1] /\ sweep'.shift # 0 => ~Overflows(sweep')
<1>1. CASE sweep' = sweep
    BY <1>1 DEF SweepRecord
<1>2. ASSUME NEW edge, NEW noise, Tick(edge, noise)
      PROVE  StepSequencer \/ sweep' = sweep
    BY <1>2 DEF Tick, ClockFromCounter, pulseVars
<1>3. CASE WriteCounter
  <2>1. StepSequencer \/ sweep' = sweep
      BY <1>3 DEF WriteCounter, ClockFromCounter, pulseVars
  <2> QED
      BY <1>1, <2>1, SweepClocks
<1>4. ASSUME NEW v, WriteLength(channel, v) \/ WriteDac(channel, v) \/ WriteFrequencyLow(v)
      PROVE  sweep' = sweep
    BY <1>4 DEF WriteLength, WriteDac, WriteFrequencyLow, pulseVars
<1>5. ASSUME NEW p \in Periods, NEW d, NEW s, WriteSweep(p, d, s)
      PROVE  SweepRecord' /\ sweep'.shadow = sweep.shadow
  <2>1. sweep' = SweepWritten(sweep, p, d, s)
      BY <1>5 DEF WriteSweep
  <2> QED
      BY <2>1, PeriodsAssumption DEF SweepWritten, SweepRecord
<1>6. ASSUME NEW a, NEW b, WriteNoiseControl(a, b) \/ WriteWaveRam(a, b)
      PROVE  sweep' = sweep
    BY <1>6 DEF WriteNoiseControl, WriteWaveRam, pulseVars
<1>7. CASE PowerOff
  <2>1. sweep' = PoweredOffSweep /\ ~on'[1]
      BY <1>7 DEF PowerOff, Channels
  <2> QED
      BY <2>1 DEF SweepRecord, PoweredOffSweep
<1>8. CASE PowerOn
    BY <1>1, <1>8 DEF PowerOn, pulseVars
<1>9. CASE UNCHANGED vars
    BY <1>1, <1>9 DEF vars
<1> QED
    BY <1>1, <1>2, <1>3, <1>4, <1>5, <1>6, <1>7, <1>8, <1>9, SweepClocks, SweepTriggers
    DEF Next, Write

\* A sweep that moves the frequency, or a trigger that takes one, leaves the channel on
\* only if the next calculation with it stays in range.
THEOREM SweepStopsInTimeAlways == Spec => SweepStopsInTime
<1>1. ChipType /\ OnMeansPlaying /\ SweepRecord /\ [Next]_vars
        => (ChipType /\ OnMeansPlaying /\ SweepRecord)'
    BY OnNext, SweepNext
<1>2. ChipType /\ SweepRecord /\ [Next]_vars =>
        (sweep'.shadow # sweep.shadow /\ on'[1] /\ sweep'.shift # 0 => ~Overflows(sweep'))
    BY SweepNext
<1> QED
    BY <1>1, <1>2, OnInit, SweepInit, PTL DEF Spec, SweepStopsInTime
=============================================================================
