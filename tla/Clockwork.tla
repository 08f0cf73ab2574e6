------------------------------ MODULE Clockwork ----------------------------
(***************************************************************************)
(* The system counter with everything that hangs off it: timer, serial     *)
(* port and sound frame sequencer, driven as core/GameBoy drives them.     *)
(* Each M-cycle is two steps.  Tick advances the hardware; Access is what  *)
(* the CPU then does in the same M-cycle, at most one register write.  The *)
(* order is the hazard: a write lands after everybody has been asked       *)
(* whether a bit of the counter fell, and may drop one itself.             *)
(***************************************************************************)
EXTENDS Timer, Serial, FrameSequencer

CONSTANT Accesses   \* the registers the program writes, from AccessNames

AccessNames == {"DIV", "TIMA", "TMA", "TAC", "SB", "SC", "NR52"}

ASSUME AccessAssumption == Accesses \subseteq AccessNames

VARIABLES
  phase,        \* "tick" or "access": which half of the M-cycle is next
  requested,    \* interrupts this M-cycle's tick raised in IF
  mcycle,       \* history of the M-cycle in progress or just ended
  sinceEdge     \* history: M-cycles since TIMA last counted, -1 if a DIV or TAC
                \* write has disturbed the rate since

histories == <<mcycle, sinceEdge>>
vars == <<timerVars, serialVars, sequencerVars, phase, requested, histories>>

\* access:  the write of the M-cycle, "none" if there was none
\* step, sequencerHigh: the sequencer's step when the M-cycle began, and whether
\*          bit 12 has been set at any moment of it before the access
\* wrapped: TIMA went from its last value to 0 in it, and was not written since
\* falls:   falls of bit 8 the ticks have shown since SC was last written
MCycles == [access : AccessNames \cup {"none"},
            step : 0 .. Steps - 1,
            sequencerHigh : BOOLEAN,
            wrapped : BOOLEAN,
            falls : 0 .. SerialBits]

Period == 2 * TacHalf[tac.select]

TypeOK ==
  /\ TimerTypeOK
  /\ SerialTypeOK
  /\ SequencerTypeOK
  /\ phase \in {"tick", "access"}
  /\ requested \subseteq {"Timer", "Serial"}
  /\ mcycle \in MCycles
  /\ sinceEdge \in Int

Init ==
  /\ TimerInit
  /\ SerialInit
  /\ SequencerInit
  /\ phase = "tick"
  /\ requested = {}
  /\ mcycle = [access |-> "none", step |-> 0, sequencerHigh |-> FALSE,
               wrapped |-> FALSE, falls |-> 0]
  /\ sinceEdge = -1

-----------------------------------------------------------------------------
\* What TIMA holds before the tick counts: cycle B's reload comes first.
LoadedTima == IF overflowed THEN tma ELSE tima

\* TIMA counted from v: a history of the values alone.
Wrapped(v) == v = TimaSize - 1 /\ tima' = 0

TickHistory ==
  /\ mcycle' = [mcycle EXCEPT
       !.access = "none",
       !.step = step,
       !.sequencerHigh = BitSet(counter, SequencerHalf) \/ BitSet(counter', SequencerHalf),
       !.wrapped = Wrapped(LoadedTima),
       !.falls = IF @ < SerialBits /\ CounterBitFell(counter, counter', SerialHalf)
                 THEN @ + 1 ELSE @]
  /\ sinceEdge' = IF sinceEdge = -1
                  THEN IF tima' # LoadedTima THEN 0 ELSE -1
                  ELSE IF sinceEdge + 1 = Period THEN 0 ELSE sinceEdge + 1

\* GameBoy::tick, the part that concerns the counter: the timer, then the serial
\* port on the counter before and after, then the sound chip on the falls.
Tick ==
  /\ phase = "tick"
  /\ TimerTick
  /\ SerialTick(counter, counter')
  /\ SequencerTick(fell')
  /\ requested' = (IF TimerRequests THEN {"Timer"} ELSE {})
                    \cup (IF SerialRequests(counter, counter') THEN {"Serial"} ELSE {})
  /\ TickHistory
  /\ phase' = "access"

-----------------------------------------------------------------------------
Access(name) ==
  /\ phase = "access"
  /\ phase' = "tick"
  /\ mcycle' = [mcycle EXCEPT
       !.access = name,
       !.wrapped = CASE name \in {"DIV", "TAC"} -> @ \/ Wrapped(tima)
                     [] name = "TIMA" -> @ /\ reloading
                     [] OTHER -> @,
       !.falls = IF name = "SC" THEN 0 ELSE @]
  /\ sinceEdge' = IF name \in {"DIV", "TAC"} THEN -1 ELSE sinceEdge
  /\ UNCHANGED requested

\* A read, an idle M-cycle, or a write to anything else.
NoWrite ==
  /\ Access("none")
  /\ UNCHANGED <<timerVars, serialVars, sequencerVars>>

\* A write to any timer register asks the frame sequencer again.
TimerRegister(name, write) ==
  /\ name \in Accesses
  /\ write
  /\ CounterWritten(fell')
  /\ Access(name)
  /\ UNCHANGED serialVars

DivWrite == TimerRegister("DIV", WriteDiv)
TimaWrite == \E v \in TimaValues : TimerRegister("TIMA", WriteTima(v))
TmaWrite == \E v \in TimaValues : TimerRegister("TMA", WriteTma(v))
TacWrite == \E t \in TacValues : TimerRegister("TAC", WriteTac(t))

SbWrite ==
  /\ "SB" \in Accesses
  /\ \E v \in SbValues : WriteSb(v)
  /\ Access("SB")
  /\ UNCHANGED <<timerVars, sequencerVars>>

ScWrite ==
  /\ "SC" \in Accesses
  /\ \E v \in ScValues : WriteSc(v)
  /\ Access("SC")
  /\ UNCHANGED <<timerVars, sequencerVars>>

PowerWrite ==
  /\ "NR52" \in Accesses
  /\ \E on \in BOOLEAN : WritePower(on)
  /\ Access("NR52")
  /\ UNCHANGED <<timerVars, serialVars>>

Next ==
  \/ Tick
  \/ NoWrite
  \/ DivWrite
  \/ TimaWrite
  \/ TmaWrite
  \/ TacWrite
  \/ SbWrite
  \/ ScWrite
  \/ PowerWrite

Spec == Init /\ [][Next]_vars

\* The main loop never stops stepping the machine, so M-cycles keep coming; no
\* write of the program is ever owed.
FairSpec == Spec /\ WF_vars(Tick) /\ WF_vars(NoWrite)

-----------------------------------------------------------------------------
(* Safety.                                                                 *)

\* A TIMA that has wrapped reads 0 through the whole of cycle A: nothing can
\* count on top of the wrap in the M-cycle that made it (Timer.cpp:57, 74-81).
OverflowReadsZero == overflowed => tima = 0

\* When the tick of the reload cycle is over TIMA is exactly TMA: the tick that
\* reloads never counts as well, even if a TAC write has just selected another
\* bit (Timer.cpp:9-21).
ReloadIsExact == reloading /\ phase = "access" => tima = tma /\ ~overflowed

\* In an M-cycle that leaves the sound chip's power alone the frame sequencer
\* steps once if bit 12 was set at some moment of it and is clear at its end,
\* and not at all otherwise: no edge is missed because it came from a DIV write
\* after the tick, none is counted twice because it was asked about twice
\* (Apu.cpp:114-137, GameBoy.cpp:348-352).
SequencerFollowsBit12 ==
  phase = "tick" /\ powered /\ mcycle.access # "NR52" =>
    step = IF mcycle.sequencerHigh /\ ~BitSet(counter, SequencerHalf)
           THEN NextStep(mcycle.step) ELSE mcycle.step

\* A serial interrupt follows as many falls of bit 8, seen by the ticks since SC
\* was last written, as a byte has bits (Serial.cpp:13-26).
SerialInterruptAfterWholeByte ==
  phase = "access" /\ "Serial" \in requested => mcycle.falls = SerialBits

-----------------------------------------------------------------------------
(* Action properties.                                                      *)

\* A tick requests the timer interrupt exactly when TIMA wrapped in the M-cycle
\* before and the program did not write TIMA over it there: no wrap is lost and
\* no cancelled one fires (Timer.cpp:8-14, 46-51).
InterruptPerWrap ==
  [][Tick => ("Timer" \in requested' <=> mcycle.wrapped)]_vars

\* Until the program writes DIV or TAC, TIMA counts once every two half-periods of
\* the bit TAC selects and at no other tick, through reloads, TIMA and TMA writes
\* and the wrap of the counter itself (Timer.cpp:15-21, 69-72).
TimaRateIsExact ==
  [][Tick /\ sinceEdge # -1 =>
       tima' = IF sinceEdge + 1 = Period THEN IncrementedTima(LoadedTima) ELSE LoadedTima]_vars

-----------------------------------------------------------------------------
(* Liveness.                                                               *)

\* A transfer on the internal clock ends, unless the program keeps restarting it
\* or keeps clearing the counter that clocks it.
TransferEnds ==
  \/ []<>(mcycle.access \in {"SC", "DIV"})
  \/ []<>(~InternalTransfer)
=============================================================================
