-------------------------- MODULE ClockworkProofs --------------------------
(***************************************************************************)
(* Theorems about Clockwork for every size of the counter, every choice of *)
(* bits, every width of TIMA and every program.                            *)
(***************************************************************************)
EXTENDS Clockwork, TLAPS

\* Why nothing counts on top of a wrap.  A bit only falls in a tick when the
\* counter becomes even, so a wrap made by a tick or by a DIV write leaves the
\* counter even and the next tick cannot drop any bit; a wrap made by a TAC
\* write leaves the watched level low, and a low level has no edge to give.
WrapIsQuiet ==
  overflowed => IF phase = "access"
                THEN counter % 2 = 0 /\ ~Input(counter, tac)
                ELSE counter % 2 = 0 \/ ~Input(counter, tac)

IInv == TypeOK /\ OverflowReadsZero /\ ReloadIsExact /\ WrapIsQuiet

-----------------------------------------------------------------------------
\* What the parts of a tick and of a write do to the types.

LEMMA NextCounterType == ASSUME NEW c \in Counters PROVE NextCounter(c) \in Counters
BY CounterAssumption DEF Counters, NextCounter

LEMMA ZeroIsACounter == 0 \in Counters
BY CounterAssumption DEF Counters

LEMMA FallsType == ASSUME NEW b, NEW a PROVE Falls(b, a) \subseteq Halves
BY DEF Falls

LEMMA DivisionBounds ==
  ASSUME NEW c \in Nat, NEW h \in Nat \ {0}
  PROVE  (c \div h) \in Nat /\ (c \div h) * h <= c /\ c < (c \div h) * h + h
OBVIOUS

\* A bit that falls in c + 4 T-cycles falls from an odd M-cycle: all the lower
\* bits were set.
LEMMA OddAtFall ==
  ASSUME NEW c \in Nat, NEW h \in Nat \ {0}, CounterBitFell(c, c + 1, h)
  PROVE  c % 2 = 1
<1> DEFINE q == c \div h
           r == (c + 1) \div h
<1>1. q \in Nat /\ q * h <= c /\ c < q * h + h
  BY DivisionBounds
<1>2. r \in Nat /\ r * h <= c + 1 /\ c + 1 < r * h + h
  BY DivisionBounds
<1>3. q % 2 = 1 /\ r % 2 # 1
  BY DEF CounterBitFell, BitSet
<1> HIDE DEF q, r
<1>4. ~(r < q)
  <2> SUFFICES ASSUME r + 1 <= q PROVE FALSE
    BY <1>1, <1>2
  <2>1. (r + 1) * h <= q * h
    BY <1>1, <1>2
  <2>2. QED
    BY <2>1, <1>1, <1>2
<1>5. ~(r > q + 1)
  <2> SUFFICES ASSUME r >= q + 2 PROVE FALSE
    BY <1>1, <1>2
  <2>1. r * h >= (q + 2) * h
    BY <1>1, <1>2
  <2>2. QED
    BY <2>1, <1>1, <1>2
<1>6. r = q + 1
  BY <1>1, <1>2, <1>3, <1>4, <1>5
<1>7. c + 1 = r * h
  BY <1>1, <1>2, <1>6
<1>8. PICK k \in Nat : r = 2 * k
  <2>1. r % 2 = 0
    BY <1>2, <1>3
  <2>2. r \div 2 \in Nat /\ r = 2 * (r \div 2)
    BY <1>2, <2>1
  <2>3. QED
    BY <2>2
<1>9. c + 1 = 2 * (k * h) /\ k * h \in Nat
  BY <1>7, <1>8
<1>10. QED
  BY <1>9

\* So after a tick that drops the watched level the counter is even, and no tick
\* from an even counter drops it.
LEMMA EdgeMakesEven ==
  ASSUME NEW c \in Counters, NEW t \in TacValues,
         Input(c, t), ~Input(NextCounter(c), t)
  PROVE  c % 2 = 1 /\ NextCounter(c) % 2 = 0
<1> DEFINE h == TacHalf[t.select]
<1>1. h \in Nat \ {0}
  BY CounterAssumption DEF TacValues
<1>2. c \in Nat /\ c < CounterSize
  BY CounterAssumption DEF Counters
<1>3. CounterBitFell(c, NextCounter(c), h)
  BY DEF Input, CounterBitFell
<1> HIDE DEF h
<1>4. CASE c = CounterSize - 1
  BY <1>4, <1>2, CounterAssumption DEF NextCounter
<1>5. CASE c # CounterSize - 1
  <2>1. NextCounter(c) = c + 1
    BY <1>5 DEF NextCounter
  <2>2. c % 2 = 1
    BY <1>1, <1>2, <1>3, <2>1, OddAtFall
  <2>3. QED
    BY <1>2, <2>1, <2>2
<1>6. QED
  BY <1>4, <1>5

LEMMA NextStepType == ASSUME NEW s \in 0 .. Steps - 1 PROVE NextStep(s) \in 0 .. Steps - 1
BY SequencerAssumption DEF NextStep

LEMMA ShiftedInType == ASSUME NEW v \in SbValues PROVE ShiftedIn(v) \in SbValues
BY SerialAssumption DEF ShiftedIn, SbValues

LEMMA InputType == ASSUME NEW c, NEW t \in TacValues PROVE Input(c, t) \in BOOLEAN
BY DEF Input, BitSet, TacValues

\* A clocking of TIMA keeps its type, and a wrap it makes leaves TIMA at 0 with
\* the level low.
LEMMA ClockFacts ==
  ASSUME NEW before \in BOOLEAN, NEW after \in BOOLEAN, NEW v \in TimaValues,
         NEW pending \in BOOLEAN, Clock(before, after, v, pending)
  PROVE  /\ tima' \in TimaValues
         /\ overflowed' \in BOOLEAN
         /\ overflowed' /\ ~pending => tima' = 0 /\ before /\ ~after
         /\ ~(before /\ ~after) => tima' = v /\ overflowed' = pending
BY TimerAssumption DEF Clock, TimaValues, IncrementedTima

-----------------------------------------------------------------------------
LEMMA InitIInv == Init => IInv
<1> SUFFICES ASSUME Init PROVE IInv
  OBVIOUS
<1>1. TimerTypeOK
  <2>1. 0 \in TimaValues
    BY TimerAssumption DEF TimaValues
  <2>2. [enabled |-> FALSE, select |-> 0] \in TacValues
    BY DEF TacValues
  <2>3. QED
    BY <2>1, <2>2, TimerAssumption DEF Init, TimerInit, TimerTypeOK
<1>2. SerialTypeOK
  BY SerialAssumption DEF Init, SerialInit, SerialTypeOK, SbValues, ScValues
<1>3. SequencerTypeOK
  <2>1. 0 \in 0 .. Steps - 1
    BY SequencerAssumption
  <2>2. QED
    BY <2>1, Zenon DEF Init, SequencerInit, SequencerTypeOK
<1>4. mcycle \in MCycles
  BY SerialAssumption, SequencerAssumption DEF Init, MCycles
<1>5. QED
  BY <1>1, <1>2, <1>3, <1>4
  DEF Init, TimerInit, IInv, TypeOK, OverflowReadsZero, ReloadIsExact, WrapIsQuiet

-----------------------------------------------------------------------------
LEMMA TickIInv == IInv /\ Tick => IInv'
<1> SUFFICES ASSUME IInv, Tick PROVE IInv'
  OBVIOUS
<1>0. TypeOK /\ TimerTypeOK /\ SerialTypeOK /\ SequencerTypeOK /\ mcycle \in MCycles
  BY DEF IInv, TypeOK
<1>1. /\ counter' = NextCounter(counter)
      /\ counter' \in Counters
      /\ reloading' = overflowed
      /\ tma' = tma
      /\ tac' = tac
      /\ fell' \subseteq Halves
  BY <1>0, NextCounterType, FallsType DEF Tick, TimerTick, TimerTypeOK
<1>2. /\ Clock(Input(counter, tac), Input(counter', tac), LoadedTima, FALSE)
      /\ LoadedTima \in TimaValues
      /\ overflowed => LoadedTima = tma
  BY <1>0, <1>1 DEF Tick, TimerTick, TimerTypeOK, LoadedTima
<1>3. Input(counter, tac) \in BOOLEAN /\ Input(counter', tac) \in BOOLEAN
  BY <1>0, InputType DEF TimerTypeOK
<1>4. /\ tima' \in TimaValues
      /\ overflowed' \in BOOLEAN
      /\ overflowed' => tima' = 0 /\ Input(counter, tac) /\ ~Input(counter', tac)
      /\ ~(Input(counter, tac) /\ ~Input(counter', tac)) => tima' = LoadedTima /\ overflowed' = FALSE
  <2> HIDE DEF LoadedTima
  <2>1. QED
    BY <1>2, <1>3, ClockFacts
<1>5. Input(counter, tac) /\ ~Input(counter', tac) => counter % 2 = 1 /\ counter' % 2 = 0
  BY <1>0, <1>1, EdgeMakesEven DEF TimerTypeOK
<1>6. overflowed => ~(Input(counter, tac) /\ ~Input(counter', tac))
  BY <1>0, <1>5 DEF IInv, WrapIsQuiet, Tick, TimerTypeOK, Counters
<1>7. TimerTypeOK'
  BY <1>0, <1>1, <1>4 DEF TimerTypeOK
<1>8. SerialTypeOK'
  <2>1. CASE InternalTransfer /\ CounterBitFell(counter, counter', SerialHalf)
    <3>1. sb' = ShiftedIn(sb) /\ bitsLeft' = bitsLeft - 1 /\ bitsLeft # 0
          /\ (sc' = sc \/ sc' = [sc EXCEPT !.start = FALSE])
      BY <2>1 DEF Tick, SerialTick, InternalTransfer
    <3>2. sb' \in SbValues
      BY <1>0, <3>1, ShiftedInType DEF SerialTypeOK
    <3>3. sc' \in ScValues
      BY <1>0, <3>1 DEF SerialTypeOK, ScValues
    <3>4. bitsLeft' \in 0..SerialBits
      BY <1>0, <3>1, SerialAssumption DEF SerialTypeOK
    <3>5. QED
      BY <3>2, <3>3, <3>4 DEF SerialTypeOK
  <2>2. CASE ~(InternalTransfer /\ CounterBitFell(counter, counter', SerialHalf))
    BY <1>0, <2>2 DEF Tick, SerialTick, serialVars, SerialTypeOK
  <2>3. QED
    BY <2>1, <2>2
<1>9. SequencerTypeOK'
  <2>1. powered' = powered /\ (step' = NextStep(step) \/ step' = step)
    BY DEF Tick, SequencerTick, ClockFromCounter
  <2>2. steppedThisCycle' \in BOOLEAN
    BY <1>0 DEF Tick, SequencerTick, ClockFromCounter, SequencerTypeOK
  <2>3. QED
    BY <1>0, <2>1, <2>2, NextStepType DEF SequencerTypeOK
<1>10. mcycle' \in MCycles
  <2> DEFINE h == BitSet(counter, SequencerHalf) \/ BitSet(counter', SequencerHalf)
             w == Wrapped(LoadedTima)
             f == IF mcycle.falls < SerialBits /\ CounterBitFell(counter, counter', SerialHalf)
                  THEN mcycle.falls + 1 ELSE mcycle.falls
  <2>1. h \in BOOLEAN /\ w \in BOOLEAN
    BY DEF BitSet, Wrapped
  <2>2. f \in 0..SerialBits
    BY <1>0, SerialAssumption DEF MCycles
  <2>3. mcycle' = [mcycle EXCEPT !.access = "none", !.step = step, !.sequencerHigh = h,
                                 !.wrapped = w, !.falls = f]
    BY DEF Tick, TickHistory
  <2> HIDE DEF h, w, f
  <2>4. step \in 0 .. Steps - 1
    BY <1>0 DEF SequencerTypeOK
  <2>5. QED
    BY <1>0, <2>1, <2>2, <2>3, <2>4 DEF MCycles
<1>11. sinceEdge' \in Int /\ phase' = "access" /\ requested' \subseteq {"Timer", "Serial"}
  BY <1>0, CounterAssumption DEF Tick, TickHistory, TypeOK, Period
<1>12. OverflowReadsZero' /\ ReloadIsExact' /\ WrapIsQuiet'
  BY <1>1, <1>2, <1>4, <1>5, <1>6, <1>11 DEF OverflowReadsZero, ReloadIsExact, WrapIsQuiet
<1>13. QED
  BY <1>7, <1>8, <1>9, <1>10, <1>11, <1>12 DEF IInv, TypeOK

-----------------------------------------------------------------------------
\* The half of an access that is common to all of them: the history and the phase.
LEMMA AccessFacts ==
  ASSUME TypeOK, NEW name \in AccessNames \cup {"none"}, Access(name)
  PROVE  /\ phase = "access"
         /\ phase' = "tick"
         /\ mcycle' \in MCycles
         /\ sinceEdge' \in Int
         /\ requested' = requested
<1> DEFINE w == CASE name \in {"DIV", "TAC"} -> mcycle.wrapped \/ Wrapped(tima)
                  [] name = "TIMA" -> mcycle.wrapped /\ reloading
                  [] OTHER -> mcycle.wrapped
           f == IF name = "SC" THEN 0 ELSE mcycle.falls
<1>1. mcycle \in MCycles /\ reloading \in BOOLEAN
  BY DEF TypeOK, TimerTypeOK
<1>2. w \in BOOLEAN
  BY <1>1 DEF MCycles, Wrapped
<1>3. f \in 0..SerialBits
  BY <1>1, SerialAssumption DEF MCycles
<1>4. mcycle' = [mcycle EXCEPT !.access = name, !.wrapped = w, !.falls = f]
  BY DEF Access
<1> HIDE DEF w, f
<1>5. mcycle' \in MCycles
  BY <1>1, <1>2, <1>3, <1>4 DEF MCycles
<1>6. QED
  BY <1>5 DEF Access, TypeOK

\* A write to a timer register keeps the invariant if the timer's half of it does.
LEMMA TimerRegisterIInv ==
  ASSUME IInv, NEW name \in AccessNames, Access(name), CounterWritten(fell'),
         serialVars' = serialVars, TimerTypeOK', OverflowReadsZero',
         overflowed' => counter' % 2 = 0 \/ ~Input(counter', tac')
  PROVE  IInv'
<1>1. TypeOK
  BY DEF IInv
<1>2. phase' = "tick" /\ mcycle' \in MCycles /\ sinceEdge' \in Int /\ requested' = requested
  BY <1>1, AccessFacts
<1>3. SequencerTypeOK'
  <2>1. powered' = powered /\ (step' = NextStep(step) \/ step' = step)
    BY DEF CounterWritten, ClockFromCounter
  <2>2. steppedThisCycle' \in BOOLEAN
    BY <1>1 DEF CounterWritten, ClockFromCounter, TypeOK, SequencerTypeOK
  <2>3. QED
    BY <1>1, <2>1, <2>2, NextStepType DEF SequencerTypeOK, TypeOK
<1>4. SerialTypeOK'
  BY <1>1 DEF TypeOK, SerialTypeOK, serialVars
<1>5. QED
  BY <1>1, <1>2, <1>3, <1>4 DEF IInv, TypeOK, ReloadIsExact, WrapIsQuiet

LEMMA DivWriteIInv == IInv /\ DivWrite => IInv'
<1> SUFFICES ASSUME IInv, DivWrite PROVE IInv'
  OBVIOUS
<1>1. Access("DIV") /\ CounterWritten(fell') /\ serialVars' = serialVars /\ WriteDiv
  BY DEF DivWrite, TimerRegister
<1>2. phase = "access" /\ TimerTypeOK
  BY <1>1 DEF Access, IInv, TypeOK
<1>3. Input(counter, tac) \in BOOLEAN /\ Input(0, tac) \in BOOLEAN
  BY <1>2, InputType DEF TimerTypeOK
<1>4. Clock(Input(counter, tac), Input(0, tac), tima, overflowed)
  BY <1>1 DEF WriteDiv
<1>5. /\ tima' \in TimaValues
      /\ overflowed' \in BOOLEAN
      /\ overflowed' /\ ~overflowed => tima' = 0
      /\ ~Input(counter, tac) => tima' = tima
  BY <1>2, <1>3, <1>4, ClockFacts DEF TimerTypeOK
<1>6. overflowed => ~Input(counter, tac) /\ tima = 0
  BY <1>2 DEF IInv, OverflowReadsZero, WrapIsQuiet
<1>7. OverflowReadsZero' /\ counter' % 2 = 0
  BY <1>1, <1>5, <1>6 DEF OverflowReadsZero, WriteDiv
<1>8. TimerTypeOK'
  <2>1. fell' \subseteq Halves
    BY <1>1, <1>2, FallsType DEF WriteDiv, TimerTypeOK
  <2>2. QED
    BY <1>1, <1>2, <1>5, <2>1, ZeroIsACounter DEF WriteDiv, TimerTypeOK
<1>9. QED
  BY <1>1, <1>7, <1>8, TimerRegisterIInv DEF AccessNames

LEMMA TimaWriteIInv == IInv /\ TimaWrite => IInv'
<1> SUFFICES ASSUME IInv, NEW v \in TimaValues, TimerRegister("TIMA", WriteTima(v)) PROVE IInv'
  BY DEF TimaWrite
<1>1. Access("TIMA") /\ CounterWritten(fell') /\ serialVars' = serialVars /\ WriteTima(v)
  BY DEF TimerRegister
<1>2. TimerTypeOK /\ phase = "access"
  BY <1>1 DEF IInv, TypeOK, Access
<1>3. counter' = counter /\ fell' = fell /\ tma' = tma /\ tac' = tac /\ reloading' = reloading
  BY <1>1 DEF WriteTima
<1>4. (tima' = tima /\ overflowed' = overflowed) \/ (tima' = v /\ overflowed' = FALSE)
  BY <1>1 DEF WriteTima
<1>5. TimerTypeOK' /\ OverflowReadsZero'
  <2>1. tima' \in TimaValues /\ overflowed' \in BOOLEAN
    BY <1>2, <1>4 DEF TimerTypeOK
  <2>2. overflowed' => overflowed /\ tima' = tima
    BY <1>4
  <2>3. QED
    BY <1>2, <1>3, <2>1, <2>2 DEF TimerTypeOK, OverflowReadsZero, IInv
<1>6. overflowed' => ~Input(counter', tac')
  BY <1>2, <1>3, <1>4 DEF IInv, WrapIsQuiet
<1>7. QED
  BY <1>1, <1>5, <1>6, TimerRegisterIInv DEF AccessNames

LEMMA TmaWriteIInv == IInv /\ TmaWrite => IInv'
<1> SUFFICES ASSUME IInv, NEW v \in TimaValues, TimerRegister("TMA", WriteTma(v)) PROVE IInv'
  BY DEF TmaWrite
<1>1. Access("TMA") /\ CounterWritten(fell') /\ serialVars' = serialVars /\ WriteTma(v)
  BY DEF TimerRegister
<1>2. TimerTypeOK /\ phase = "access"
  BY <1>1 DEF IInv, TypeOK, Access
<1>3. /\ counter' = counter /\ fell' = fell /\ tac' = tac
      /\ overflowed' = overflowed /\ reloading' = reloading /\ tma' = v
  BY <1>1 DEF WriteTma
<1>4. tima' = tima \/ (reloading /\ tima' = v)
  BY <1>1 DEF WriteTma
<1>5. TimerTypeOK'
  BY <1>2, <1>3, <1>4 DEF TimerTypeOK
<1>6. OverflowReadsZero' /\ (overflowed' => ~Input(counter', tac'))
  BY <1>2, <1>3, <1>4 DEF IInv, OverflowReadsZero, ReloadIsExact, WrapIsQuiet
<1>7. QED
  BY <1>1, <1>5, <1>6, TimerRegisterIInv DEF AccessNames

LEMMA TacWriteIInv == IInv /\ TacWrite => IInv'
<1> SUFFICES ASSUME IInv, NEW t \in TacValues, TimerRegister("TAC", WriteTac(t)) PROVE IInv'
  BY DEF TacWrite
<1>1. Access("TAC") /\ CounterWritten(fell') /\ serialVars' = serialVars /\ WriteTac(t)
  BY DEF TimerRegister
<1>2. TimerTypeOK /\ phase = "access"
  BY <1>1 DEF IInv, TypeOK, Access
<1>3. /\ counter' = counter /\ fell' = fell /\ tma' = tma /\ reloading' = reloading /\ tac' = t
      /\ Clock(Input(counter, tac), Input(counter, t), tima, overflowed)
  BY <1>1 DEF WriteTac
<1>4. Input(counter, tac) \in BOOLEAN /\ Input(counter, t) \in BOOLEAN
  BY <1>2, InputType DEF TimerTypeOK
<1>5. /\ tima' \in TimaValues
      /\ overflowed' \in BOOLEAN
      /\ overflowed' /\ ~overflowed => tima' = 0 /\ ~Input(counter, t)
      /\ ~Input(counter, tac) => tima' = tima
  BY <1>2, <1>3, <1>4, ClockFacts DEF TimerTypeOK
<1>6. overflowed => tima = 0 /\ counter % 2 = 0 /\ ~Input(counter, tac)
  BY <1>2 DEF IInv, OverflowReadsZero, WrapIsQuiet
<1>7. OverflowReadsZero' /\ (overflowed' => counter' % 2 = 0 \/ ~Input(counter', tac'))
  BY <1>3, <1>5, <1>6 DEF OverflowReadsZero
<1>8. TimerTypeOK'
  BY <1>2, <1>3, <1>5 DEF TimerTypeOK
<1>9. QED
  BY <1>1, <1>7, <1>8, TimerRegisterIInv DEF AccessNames

\* An access that leaves the timer alone keeps what the invariant says of it.
LEMMA OtherAccessIInv ==
  ASSUME IInv, NEW name \in AccessNames \cup {"none"}, Access(name),
         timerVars' = timerVars, SerialTypeOK', SequencerTypeOK'
  PROVE  IInv'
<1>1. /\ phase = "access" /\ phase' = "tick"
      /\ mcycle' \in MCycles /\ sinceEdge' \in Int /\ requested' = requested
  BY AccessFacts DEF IInv
<1>2. TimerTypeOK' /\ OverflowReadsZero' /\ WrapIsQuiet'
  BY <1>1 DEF IInv, TypeOK, TimerTypeOK, timerVars, OverflowReadsZero, WrapIsQuiet
<1>3. QED
  BY <1>1, <1>2 DEF IInv, TypeOK, ReloadIsExact

LEMMA NoWriteIInv == IInv /\ NoWrite => IInv'
<1> SUFFICES ASSUME IInv, NoWrite PROVE IInv'
  OBVIOUS
<1>1. SerialTypeOK' /\ SequencerTypeOK'
  BY DEF IInv, TypeOK, NoWrite, SerialTypeOK, SequencerTypeOK, serialVars, sequencerVars
<1>2. QED
  BY <1>1, OtherAccessIInv DEF NoWrite, AccessNames

LEMMA SbWriteIInv == IInv /\ SbWrite => IInv'
<1> SUFFICES ASSUME IInv, SbWrite PROVE IInv'
  OBVIOUS
<1>1. SerialTypeOK' /\ SequencerTypeOK' /\ timerVars' = timerVars /\ Access("SB")
  BY DEF IInv, TypeOK, SbWrite, WriteSb, SerialTypeOK, SequencerTypeOK, sequencerVars
<1>2. QED
  BY <1>1, OtherAccessIInv DEF AccessNames

LEMMA ScWriteIInv == IInv /\ ScWrite => IInv'
<1> SUFFICES ASSUME IInv, NEW v \in ScValues, WriteSc(v), Access("SC"),
                    UNCHANGED <<timerVars, sequencerVars>>
             PROVE  IInv'
  BY DEF ScWrite
<1>1. SerialTypeOK' /\ SequencerTypeOK' /\ timerVars' = timerVars
  BY SerialAssumption
  DEF IInv, TypeOK, WriteSc, SerialTypeOK, SequencerTypeOK, sequencerVars
<1>2. QED
  BY <1>1, OtherAccessIInv DEF AccessNames

LEMMA PowerWriteIInv == IInv /\ PowerWrite => IInv'
<1> SUFFICES ASSUME IInv, NEW on \in BOOLEAN, WritePower(on), Access("NR52"),
                    UNCHANGED <<timerVars, serialVars>>
             PROVE  IInv'
  BY DEF PowerWrite
<1>1. SerialTypeOK' /\ SequencerTypeOK' /\ timerVars' = timerVars
  BY SequencerAssumption
  DEF IInv, TypeOK, WritePower, SerialTypeOK, SequencerTypeOK, serialVars
<1>2. QED
  BY <1>1, OtherAccessIInv DEF AccessNames

-----------------------------------------------------------------------------
\* The invariant is inductive.
LEMMA NextIInv == IInv /\ [Next]_vars => IInv'
<1> SUFFICES ASSUME IInv, [Next]_vars PROVE IInv'
  OBVIOUS
<1>1. CASE UNCHANGED vars
  BY <1>1
  DEF vars, timerVars, serialVars, sequencerVars, histories, IInv, TypeOK, TimerTypeOK,
      SerialTypeOK, SequencerTypeOK, OverflowReadsZero, ReloadIsExact, WrapIsQuiet
<1>2. QED
  BY <1>1, TickIInv, NoWriteIInv, DivWriteIInv, TimaWriteIInv, TmaWriteIInv, TacWriteIInv,
     SbWriteIInv, ScWriteIInv, PowerWriteIInv DEF Next

LEMMA SpecIInv == Spec => []IInv
BY InitIInv, NextIInv, PTL DEF Spec

\* Every variable of the counter, the timer, the serial port and the sequencer
\* keeps its type, for every program and every size of the machine.
THEOREM TypeCorrect == Spec => []TypeOK
<1>1. IInv => TypeOK
  BY DEF IInv
<1>2. QED
  BY <1>1, SpecIInv, PTL

\* TIMA reads 0 for the whole of the M-cycle in which it wrapped.
THEOREM OverflowReadsZeroAlways == Spec => []OverflowReadsZero
<1>1. IInv => OverflowReadsZero
  BY DEF IInv
<1>2. QED
  BY <1>1, SpecIInv, PTL

\* The tick that reloads TIMA never counts on top of the reload.
THEOREM ReloadIsExactAlways == Spec => []ReloadIsExact
<1>1. IInv => ReloadIsExact
  BY DEF IInv
<1>2. QED
  BY <1>1, SpecIInv, PTL

-----------------------------------------------------------------------------
(* The interrupts.                                                         *)

\* A reload is owed exactly when the values of TIMA show a wrap nobody has written over.
WrapIsOwed == overflowed <=> mcycle.wrapped

\* A transfer on the internal clock has lost a bit at every fall.
FallsAreShifts == InternalTransfer => mcycle.falls + bitsLeft = SerialBits

\* If TIMA has more than one value, a clocking wraps it where its values say so.
LEMMA ClockWraps ==
  ASSUME TimaSize > 1, NEW before \in BOOLEAN, NEW after \in BOOLEAN, NEW v \in TimaValues,
         NEW pending \in BOOLEAN, Clock(before, after, v, pending)
  PROVE  overflowed' <=> pending \/ Wrapped(v)
<1>1. CASE before /\ ~after
  BY <1>1, TimerAssumption DEF Clock, Wrapped, IncrementedTima, TimaValues
<1>2. CASE ~(before /\ ~after)
  <2>1. tima' = v /\ overflowed' = pending
    BY <1>2, ClockFacts
  <2>2. ~Wrapped(v)
    BY <2>1, TimerAssumption DEF Wrapped
  <2>3. QED
    BY <2>1, <2>2, Zenon
<1>3. QED
  BY <1>1, <1>2

LEMMA WrapStep == ASSUME TimaSize > 1, IInv, WrapIsOwed, [Next]_vars PROVE WrapIsOwed'
<1>1. TypeOK /\ TimerTypeOK /\ mcycle \in MCycles /\ overflowed \in BOOLEAN /\ reloading \in BOOLEAN
  BY DEF IInv, TypeOK, TimerTypeOK
<1>2. Input(counter, tac) \in BOOLEAN /\ Input(counter', tac) \in BOOLEAN /\ Input(0, tac) \in BOOLEAN
      /\ FALSE \in BOOLEAN
  BY <1>1, InputType DEF TimerTypeOK
<1>3. CASE Tick
  <2>1. Clock(Input(counter, tac), Input(counter', tac), LoadedTima, FALSE)
        /\ LoadedTima \in TimaValues
    BY <1>1, <1>3 DEF Tick, TimerTick, TimerTypeOK, LoadedTima
  <2>2. mcycle'.wrapped = Wrapped(LoadedTima)
    BY <1>1, <1>3 DEF Tick, TickHistory, MCycles
  <2> HIDE DEF LoadedTima
  <2>3. overflowed' <=> FALSE \/ Wrapped(LoadedTima)
    BY <1>2, <2>1, ClockWraps
  <2>4. QED
    BY <2>2, <2>3, Zenon DEF WrapIsOwed
<1>4. ASSUME NEW name \in AccessNames \cup {"none"}, Access(name) PROVE
        /\ name \in {"DIV", "TAC"} => mcycle'.wrapped = (mcycle.wrapped \/ Wrapped(tima))
        /\ name = "TIMA" => mcycle'.wrapped = (mcycle.wrapped /\ reloading)
        /\ name \notin {"DIV", "TAC", "TIMA"} => mcycle'.wrapped = mcycle.wrapped
  BY <1>1, <1>4 DEF Access, MCycles
<1>5. CASE DivWrite
  <2>1. Access("DIV") /\ Clock(Input(counter, tac), Input(0, tac), tima, overflowed)
    BY <1>5 DEF DivWrite, TimerRegister, WriteDiv
  <2>2. overflowed' <=> overflowed \/ Wrapped(tima)
    BY <1>1, <1>2, <2>1, ClockWraps DEF TimerTypeOK
  <2>3. mcycle'.wrapped = (mcycle.wrapped \/ Wrapped(tima))
    BY <1>4, <2>1 DEF AccessNames
  <2>4. QED
    BY <2>2, <2>3, Zenon DEF WrapIsOwed
<1>6. CASE TacWrite
  <2>1. PICK t \in TacValues :
          Access("TAC") /\ Clock(Input(counter, tac), Input(counter, t), tima, overflowed)
    BY <1>6 DEF TacWrite, TimerRegister, WriteTac
  <2>2. Input(counter, t) \in BOOLEAN
    BY InputType
  <2>3. overflowed' <=> overflowed \/ Wrapped(tima)
    BY <1>1, <1>2, <2>1, <2>2, ClockWraps DEF TimerTypeOK
  <2>4. mcycle'.wrapped = (mcycle.wrapped \/ Wrapped(tima))
    BY <1>4, <2>1 DEF AccessNames
  <2>5. QED
    BY <2>3, <2>4, Zenon DEF WrapIsOwed
<1>7. CASE TimaWrite
  <2>1. Access("TIMA") /\ overflowed' = (IF reloading THEN overflowed ELSE FALSE)
    BY <1>7 DEF TimaWrite, TimerRegister, WriteTima
  <2>2. mcycle'.wrapped = (mcycle.wrapped /\ reloading)
    BY <1>4, <2>1 DEF AccessNames
  <2>3. QED
    BY <1>1, <2>1, <2>2 DEF WrapIsOwed
<1>8. CASE TmaWrite \/ SbWrite \/ ScWrite \/ PowerWrite \/ NoWrite
  <2>1. overflowed' = overflowed
        /\ \E name \in {"TMA", "SB", "SC", "NR52", "none"} : Access(name)
    BY <1>8 DEF TmaWrite, TimerRegister, WriteTma, SbWrite, ScWrite, PowerWrite, NoWrite, timerVars
  <2>2. mcycle'.wrapped = mcycle.wrapped
    BY <1>4, <2>1 DEF AccessNames
  <2>3. QED
    BY <2>1, <2>2 DEF WrapIsOwed
<1>9. CASE UNCHANGED vars
  BY <1>9 DEF vars, timerVars, histories, WrapIsOwed
<1>10. QED
  BY <1>3, <1>5, <1>6, <1>7, <1>8, <1>9 DEF Next

\* The timer interrupt comes once for every wrap that was not written over, in the M-cycle
\* after it, as long as TIMA has two values at least (Timer.cpp:8-14, 46-51).
THEOREM InterruptPerWrapAlways == TimaSize > 1 => (Spec => InterruptPerWrap)
<1> SUFFICES ASSUME TimaSize > 1 PROVE Spec => InterruptPerWrap
  OBVIOUS
<1> DEFINE Requested == Tick => ("Timer" \in requested' <=> mcycle.wrapped)
<1>1. Init => WrapIsOwed
  BY DEF Init, TimerInit, WrapIsOwed
<1>2. IInv /\ WrapIsOwed /\ [Next]_vars => WrapIsOwed'
  BY WrapStep
<1>3. WrapIsOwed => Requested
  BY DEF WrapIsOwed, Tick, TimerRequests
<1>4. WrapIsOwed /\ [Next]_vars => [Requested]_vars
  BY <1>3
<1>5. QED
  BY <1>1, <1>2, <1>4, SpecIInv, PTL DEF Spec, InterruptPerWrap

LEMMA FallsStep ==
  ASSUME IInv, FallsAreShifts, [Next]_vars
  PROVE  FallsAreShifts' /\ (SerialInterruptAfterWholeByte => SerialInterruptAfterWholeByte')
<1>1. mcycle \in MCycles /\ bitsLeft \in 0..SerialBits /\ sc \in ScValues /\ phase \in {"tick", "access"}
  BY DEF IInv, TypeOK, SerialTypeOK
<1>2. CASE Tick
  <2> DEFINE fall == CounterBitFell(counter, counter', SerialHalf)
  <2>1. mcycle'.falls = IF mcycle.falls < SerialBits /\ fall THEN mcycle.falls + 1 ELSE mcycle.falls
    BY <1>1, <1>2 DEF Tick, TickHistory, MCycles
  <2>2. InternalTransfer => mcycle.falls = SerialBits - bitsLeft /\ bitsLeft # 0
    BY <1>1, SerialAssumption DEF FallsAreShifts, InternalTransfer, MCycles
  <2>3. CASE InternalTransfer /\ fall
    <3>1. mcycle'.falls = SerialBits - bitsLeft + 1 /\ bitsLeft' = bitsLeft - 1
      BY <1>1, <1>2, <2>1, <2>2, <2>3, SerialAssumption DEF Tick, SerialTick
    <3>2. "Serial" \in requested' => bitsLeft = 1
      BY <1>2 DEF Tick, SerialRequests
    <3>3. QED
      BY <1>1, <3>1, <3>2, SerialAssumption DEF FallsAreShifts, SerialInterruptAfterWholeByte
  <2>4. CASE ~(InternalTransfer /\ fall)
    <3>1. "Serial" \notin requested'
      BY <1>2, <2>4 DEF Tick, SerialRequests
    <3>2. sb' = sb /\ sc' = sc /\ bitsLeft' = bitsLeft
      BY <1>2, <2>4 DEF Tick, SerialTick, serialVars
    <3>3. InternalTransfer' = InternalTransfer
      BY <3>2 DEF InternalTransfer
    <3>4. InternalTransfer => mcycle'.falls = mcycle.falls
      BY <2>1, <2>4
    <3>5. QED
      BY <3>1, <3>2, <3>3, <3>4 DEF FallsAreShifts, SerialInterruptAfterWholeByte
  <2>5. QED
    BY <2>3, <2>4
<1>3. ASSUME NEW name \in AccessNames \cup {"none"}, Access(name) PROVE
        /\ phase' = "tick"
        /\ mcycle'.falls = IF name = "SC" THEN 0 ELSE mcycle.falls
  BY <1>1, <1>3 DEF Access, MCycles
<1>4. CASE ScWrite
  <2>1. phase' = "tick" /\ mcycle'.falls = 0
    BY <1>3, <1>4 DEF ScWrite, AccessNames
  <2>2. bitsLeft' = SerialBits \/ bitsLeft' = 0
    BY <1>4 DEF ScWrite, WriteSc
  <2>3. QED
    BY <2>1, <2>2, SerialAssumption
    DEF FallsAreShifts, InternalTransfer, SerialInterruptAfterWholeByte
<1>5. CASE DivWrite \/ TimaWrite \/ TmaWrite \/ TacWrite \/ SbWrite \/ PowerWrite \/ NoWrite
  <2>1. /\ sc' = sc /\ bitsLeft' = bitsLeft
        /\ \E name \in {"DIV", "TIMA", "TMA", "TAC", "SB", "NR52", "none"} : Access(name)
    BY <1>5 DEF DivWrite, TimaWrite, TmaWrite, TacWrite, TimerRegister, SbWrite, WriteSb,
                PowerWrite, NoWrite, serialVars
  <2>2. phase' = "tick" /\ mcycle'.falls = mcycle.falls
    BY <1>3, <2>1 DEF AccessNames
  <2>3. QED
    BY <2>1, <2>2 DEF FallsAreShifts, InternalTransfer, SerialInterruptAfterWholeByte
<1>6. CASE UNCHANGED vars
  BY <1>6 DEF vars, serialVars, histories, FallsAreShifts, InternalTransfer,
              SerialInterruptAfterWholeByte
<1>7. QED
  BY <1>2, <1>4, <1>5, <1>6 DEF Next

\* A serial interrupt is a whole byte after the last write to SC, however often a transfer
\* was restarted, dropped or moved to the other clock before (Serial.cpp:13-26).
THEOREM SerialInterruptAfterWholeByteAlways == Spec => []SerialInterruptAfterWholeByte
<1>1. Init => FallsAreShifts /\ SerialInterruptAfterWholeByte
  BY DEF Init, SerialInit, FallsAreShifts, InternalTransfer, SerialInterruptAfterWholeByte
<1>2. IInv /\ FallsAreShifts /\ SerialInterruptAfterWholeByte /\ [Next]_vars
        => (FallsAreShifts /\ SerialInterruptAfterWholeByte)'
  BY FallsStep
<1>3. QED
  BY <1>1, <1>2, SpecIInv, PTL DEF Spec
-----------------------------------------------------------------------------
(* The rate.                                                               *)

LEMMA QuotientIsUnique ==
  ASSUME NEW p \in Nat \ {0}, NEW q \in Nat, NEW r \in 0 .. p - 1,
         NEW a \in Nat, a = p * q + r
  PROVE  a \div p = q /\ a % p = r
BY Z3

\* A bit is set in the second half of its period.
LEMMA BitIsSecondHalf ==
  ASSUME NEW c \in Nat, NEW h \in Nat \ {0}
  PROVE  BitSet(c, h) <=> c % (2 * h) >= h
<1> DEFINE p == 2 * h
           q == c \div p
           k == c % p
<1>1. p \in Nat \ {0}
  OBVIOUS
<1>2. q \in Nat /\ k \in 0 .. p - 1 /\ c = p * q + k
  <2> HIDE DEF p
  <2>1. QED
    BY <1>1, Z3
<1> HIDE DEF q, k
<1>3. CASE k < h
  <2>1. c = h * (2 * q) + k /\ k \in 0 .. h - 1
    BY <1>2, <1>3, Z3
  <2>2. c \div h = 2 * q
    BY <1>2, <2>1, QuotientIsUnique
  <2>3. QED
    BY <1>2, <1>3, <2>2 DEF BitSet, k
<1>4. CASE k >= h
  <2>1. c = h * (2 * q + 1) + (k - h) /\ k - h \in 0 .. h - 1
    BY <1>2, <1>4, Z3
  <2>2. c \div h = 2 * q + 1
    BY <1>2, <2>1, QuotientIsUnique
  <2>3. QED
    BY <1>2, <1>4, <2>2 DEF BitSet, k
<1>5. QED
  BY <1>2, <1>3, <1>4

\* The counter's place in the period of one of its bits moves on by one in every M-cycle,
\* through the wrap of the counter too.
LEMMA NextPlace ==
  ASSUME NEW c \in Counters, NEW h \in Halves
  PROVE  /\ h \in Nat \ {0}
         /\ c % (2 * h) \in 0 .. 2 * h - 1
         /\ NextCounter(c) % (2 * h) = IF (c % (2 * h)) + 1 = 2 * h THEN 0 ELSE (c % (2 * h)) + 1
<1> DEFINE p == 2 * h
           q == c \div p
           k == c % p
<1>1. h \in Nat \ {0}
  BY CounterAssumption DEF Halves
<1>2. p \in Nat \ {0} /\ CounterSize \in Nat \ {0} /\ c \in 0 .. CounterSize - 1
  BY <1>1, CounterAssumption DEF Counters
<1>3. CounterSize % p = 0
  BY BitsAssumption
<1> HIDE DEF p
<1>4. q \in Nat /\ k \in 0 .. p - 1 /\ c = p * q + k
  BY <1>2, Z3
<1>5. CounterSize \div p \in Nat /\ CounterSize = p * (CounterSize \div p)
  BY <1>2, <1>3, Z3
<1> HIDE DEF q, k
<1>6. CASE k + 1 < p
  <2>1. c # CounterSize - 1
    <3> DEFINE m == CounterSize \div p
    <3> SUFFICES ASSUME c + 1 = CounterSize PROVE FALSE
      BY <1>2
    <3>1. m \in Nat /\ p * q + (k + 1) = p * m + 0 /\ k + 1 \in 0 .. p - 1 /\ 0 \in 0 .. p - 1
      BY <1>2, <1>4, <1>5, <1>6
    <3> HIDE DEF m
    <3>2. p * m + 0 \in Nat
      BY <1>2, <3>1
    <3>3. (p * m + 0) % p = k + 1 /\ (p * m + 0) % p = 0
      BY <1>2, <1>4, <3>1, <3>2, QuotientIsUnique
    <3>4. k \in Nat /\ k + 1 # 0
      BY <1>2, <1>4
    <3>5. QED
      BY <3>3, <3>4
  <2>2. NextCounter(c) = p * q + (k + 1) /\ NextCounter(c) \in Nat
    BY <1>2, <1>4, <2>1 DEF NextCounter
  <2>3. NextCounter(c) % p = k + 1
    <3>1. k + 1 \in 0 .. p - 1 /\ p \in Nat \ {0} /\ q \in Nat
      BY <1>2, <1>4, <1>6
    <3> DEFINE r == k + 1
               n == NextCounter(c)
    <3> HIDE DEF r, n
    <3>2. r \in 0 .. p - 1 /\ n \in Nat /\ n = p * q + r
      BY <2>2, <3>1 DEF r, n
    <3>3. n % p = r
      BY <3>1, <3>2, QuotientIsUnique
    <3>4. QED
      BY <3>3 DEF r, n
  <2>4. QED
    BY <1>1, <1>4, <1>6, <2>3 DEF p, k
<1>7. CASE k + 1 = p
  <2>1. NextCounter(c) = 0 \/ NextCounter(c) = p * (q + 1) + 0
    <3>1. p * (q + 1) + 0 = p * q + p
      BY <1>2, <1>4, Z3
    <3>2. c + 1 = p * q + p
      BY <1>2, <1>4, <1>7, Z3
    <3>3. QED
      BY <1>2, <3>1, <3>2 DEF NextCounter
  <2>2. 0 = p * 0 + 0 /\ 0 \in 0 .. p - 1 /\ p * (q + 1) + 0 \in Nat
    BY <1>2, <1>4
  <2>3. NextCounter(c) % p = 0
    BY <1>2, <1>4, <2>1, <2>2, QuotientIsUnique
  <2>4. QED
    BY <1>1, <1>4, <1>7, <2>3 DEF p, k
<1>8. k + 1 < p \/ k + 1 = p
  BY <1>2, <1>4
<1>9. QED
  BY <1>6, <1>7, <1>8

\* A tick counts where the selected bit's period ends, and nowhere else.
LEMMA EdgeAtPeriodEnd ==
  ASSUME NEW c \in Counters, NEW t \in TacValues
  PROVE  Input(c, t) /\ ~Input(NextCounter(c), t)
           <=> t.enabled /\ (c % (2 * TacHalf[t.select])) + 1 = 2 * TacHalf[t.select]
<1> DEFINE h == TacHalf[t.select]
           k == c % (2 * h)
           n == NextCounter(c) % (2 * h)
<1>1. h \in Halves
  BY DEF Halves, TacValues
<1>2. h \in Nat \ {0} /\ k \in 0 .. 2 * h - 1 /\ n = IF k + 1 = 2 * h THEN 0 ELSE k + 1
  BY <1>1, NextPlace
<1>3. c \in Nat /\ NextCounter(c) \in Nat
  BY NextCounterType DEF Counters
<1> HIDE DEF h
<1>4. (BitSet(c, h) <=> k >= h) /\ (BitSet(NextCounter(c), h) <=> n >= h)
  BY <1>2, <1>3, BitIsSecondHalf
<1> HIDE DEF k, n
<1>5. BitSet(c, h) /\ ~BitSet(NextCounter(c), h) <=> k + 1 = 2 * h
  BY <1>2, <1>4
<1>6. QED
  BY <1>5 DEF Input, h, k

\* Undisturbed, the M-cycles since the last count are the place in the period.
SinceIsPlace ==
  sinceEdge # -1 => tac.enabled /\ sinceEdge = counter % Period

LEMMA TickCounts ==
  ASSUME TypeOK, Tick
  PROVE  /\ tac' = tac /\ counter' \in Counters
         /\ counter % Period \in 0 .. Period - 1
         /\ counter' % Period = IF (counter % Period) + 1 = Period THEN 0 ELSE (counter % Period) + 1
         /\ tima' = IF tac.enabled /\ (counter % Period) + 1 = Period
                    THEN IncrementedTima(LoadedTima) ELSE LoadedTima
<1>1. counter \in Counters /\ tac \in TacValues
  BY DEF TypeOK, TimerTypeOK
<1>2. TacHalf[tac.select] \in Halves
  BY <1>1 DEF Halves, TacValues
<1>3. /\ counter' = NextCounter(counter) /\ tac' = tac
      /\ tima' = IF Input(counter, tac) /\ ~Input(NextCounter(counter), tac)
                 THEN IncrementedTima(LoadedTima) ELSE LoadedTima
  BY DEF Tick, TimerTick, Clock, LoadedTima
<1>4. QED
  BY <1>1, <1>2, <1>3, NextCounterType, NextPlace, EdgeAtPeriodEnd DEF Period

LEMMA SinceStep == ASSUME IInv, SinceIsPlace, [Next]_vars PROVE SinceIsPlace'
<1>1. TypeOK /\ sinceEdge \in Int
  BY DEF IInv, TypeOK
<1>2. CASE Tick
  <2>1. Period' = Period /\ tac' = tac
    BY <1>1, <1>2, TickCounts DEF Period
  <2> DEFINE p == Period
             k == counter % p
  <2>2. /\ k \in 0 .. p - 1
        /\ counter' % p = IF k + 1 = p THEN 0 ELSE k + 1
        /\ tima' # LoadedTima => tac.enabled /\ k + 1 = p
    BY <1>1, <1>2, TickCounts
  <2>3. sinceEdge' = IF sinceEdge = -1
                     THEN IF tima' # LoadedTima THEN 0 ELSE -1
                     ELSE IF sinceEdge + 1 = p THEN 0 ELSE sinceEdge + 1
    BY <1>2 DEF Tick, TickHistory
  <2>4. sinceEdge # -1 => tac.enabled /\ sinceEdge = k
    BY DEF SinceIsPlace
  <2> HIDE DEF p, k
  <2>5. sinceEdge' # -1 => tac.enabled /\ sinceEdge' = counter' % p
    BY <1>1, <2>2, <2>3, <2>4
  <2>6. QED
    BY <2>1, <2>5 DEF SinceIsPlace, p
<1>3. CASE DivWrite \/ TacWrite
  <2>1. sinceEdge' = -1
    BY <1>3 DEF DivWrite, TacWrite, TimerRegister, Access
  <2>2. QED
    BY <2>1 DEF SinceIsPlace
<1>4. CASE TimaWrite \/ TmaWrite \/ SbWrite \/ ScWrite \/ PowerWrite \/ NoWrite
  <2>1. sinceEdge' = sinceEdge /\ counter' = counter /\ tac' = tac
    BY <1>4 DEF TimaWrite, TmaWrite, TimerRegister, WriteTima, WriteTma, SbWrite, ScWrite,
                PowerWrite, NoWrite, timerVars, Access
  <2>2. QED
    BY <2>1 DEF SinceIsPlace, Period
<1>5. CASE UNCHANGED vars
  BY <1>5 DEF vars, timerVars, histories, SinceIsPlace, Period
<1>6. QED
  BY <1>2, <1>3, <1>4, <1>5 DEF Next

\* TIMA counts once in every period of the bit TAC selects, until DIV or TAC is written:
\* reloads, other writes and the wrap of the counter neither add nor lose a count
\* (Timer.cpp:15-21, 69-72).
THEOREM TimaRateIsExactAlways == Spec => TimaRateIsExact
<1> DEFINE Rate == Tick /\ sinceEdge # -1 =>
      tima' = IF sinceEdge + 1 = Period THEN IncrementedTima(LoadedTima) ELSE LoadedTima
<1>1. Init => SinceIsPlace
  BY DEF Init, SinceIsPlace
<1>2. IInv /\ SinceIsPlace /\ [Next]_vars => SinceIsPlace'
  BY SinceStep
<1>3. IInv /\ SinceIsPlace => Rate
  BY TickCounts DEF IInv, SinceIsPlace
<1>4. IInv /\ SinceIsPlace /\ [Next]_vars => [Rate]_vars
  BY <1>3
<1>5. QED
  BY <1>1, <1>2, <1>4, SpecIInv, PTL DEF Spec, TimaRateIsExact

-----------------------------------------------------------------------------
(* The frame sequencer.                                                    *)

\* Once the tick is over, what it has put into fell and steppedThisCycle is what the
\* M-cycle's history says of bit 12; a write that drops the bit adds to both.
SequencerIsAsked ==
  phase = "access" =>
    /\ BitSet(counter, SequencerHalf) => mcycle.sequencerHigh
    /\ SequencerHalf \in fell <=> mcycle.sequencerHigh /\ ~BitSet(counter, SequencerHalf)
    /\ steppedThisCycle <=> powered /\ SequencerHalf \in fell
    /\ step = IF steppedThisCycle THEN NextStep(mcycle.step) ELSE mcycle.step

LEMMA TickAsks == IInv /\ Tick => (SequencerIsAsked /\ SequencerFollowsBit12)'
<1> SUFFICES ASSUME IInv, Tick PROVE (SequencerIsAsked /\ SequencerFollowsBit12)'
  OBVIOUS
<1>1. /\ phase' = "access" /\ powered' = powered /\ fell' = Falls(counter, counter')
      /\ ClockFromCounter(FALSE, fell')
  BY DEF Tick, TimerTick, SequencerTick
<1>2. /\ mcycle'.step = step
      /\ mcycle'.sequencerHigh
           = (BitSet(counter, SequencerHalf) \/ BitSet(counter', SequencerHalf))
  BY DEF IInv, TypeOK, Tick, TickHistory, MCycles
<1>3. SequencerHalf \in fell'
        <=> BitSet(counter, SequencerHalf) /\ ~BitSet(counter', SequencerHalf)
  BY <1>1 DEF Falls, Halves, CounterBitFell
<1>4. /\ steppedThisCycle' <=> powered /\ SequencerHalf \in fell'
      /\ step' = IF steppedThisCycle' THEN NextStep(step) ELSE step
  BY <1>1 DEF ClockFromCounter
<1>5. QED
  BY <1>1, <1>2, <1>3, <1>4 DEF SequencerIsAsked, SequencerFollowsBit12

\* An access other than to NR52 that drops no bit but what it notes in fell.
LEMMA AccessAsks ==
  ASSUME IInv, SequencerIsAsked, NEW name \in AccessNames \cup {"none"}, Access(name),
         powered' = powered,
         \/ fell' = fell /\ counter' = counter
         \/ fell' = fell \cup Falls(counter, 0) /\ counter' = 0,
         CounterWritten(fell') \/ (step' = step /\ fell' = fell)
  PROVE  (SequencerIsAsked /\ SequencerFollowsBit12)'
<1>1. /\ phase = "access" /\ phase' = "tick" /\ mcycle'.step = mcycle.step
      /\ mcycle'.sequencerHigh = mcycle.sequencerHigh
  BY DEF IInv, TypeOK, Access, MCycles
<1>2. ~BitSet(0, SequencerHalf)
  BY CounterAssumption DEF BitSet
<1>3. SequencerHalf \in fell' <=> mcycle.sequencerHigh /\ ~BitSet(counter', SequencerHalf)
  BY <1>1, <1>2 DEF SequencerIsAsked, Falls, Halves, CounterBitFell
<1>4. powered => step' = IF SequencerHalf \in fell' THEN NextStep(mcycle.step) ELSE mcycle.step
  BY <1>1 DEF SequencerIsAsked, CounterWritten, ClockFromCounter
<1>5. QED
  BY <1>1, <1>3, <1>4 DEF SequencerIsAsked, SequencerFollowsBit12

LEMMA SequencerStep ==
  IInv /\ SequencerIsAsked /\ SequencerFollowsBit12 /\ [Next]_vars
    => (SequencerIsAsked /\ SequencerFollowsBit12)'
<1> SUFFICES ASSUME IInv, SequencerIsAsked, SequencerFollowsBit12, [Next]_vars
             PROVE  (SequencerIsAsked /\ SequencerFollowsBit12)'
  OBVIOUS
<1>1. CASE Tick
  BY <1>1, TickAsks
<1>2. CASE DivWrite
  <2>1. /\ Access("DIV") /\ CounterWritten(fell') /\ powered' = powered
        /\ fell' = fell \cup Falls(counter, 0) /\ counter' = 0
    BY <1>2 DEF DivWrite, TimerRegister, WriteDiv, CounterWritten
  <2>2. QED
    BY <2>1, AccessAsks DEF AccessNames
<1>3. CASE TimaWrite \/ TmaWrite \/ TacWrite
  <2>1. /\ \E name \in {"TIMA", "TMA", "TAC"} : Access(name)
        /\ CounterWritten(fell') /\ powered' = powered /\ fell' = fell /\ counter' = counter
    BY <1>3 DEF TimaWrite, TmaWrite, TacWrite, TimerRegister, WriteTima, WriteTma, WriteTac,
                CounterWritten
  <2>2. QED
    BY <2>1, AccessAsks DEF AccessNames
<1>4. CASE SbWrite \/ ScWrite \/ NoWrite
  <2>1. /\ \E name \in {"SB", "SC", "none"} : Access(name)
        /\ powered' = powered /\ step' = step /\ fell' = fell /\ counter' = counter
    BY <1>4 DEF SbWrite, ScWrite, NoWrite, timerVars, sequencerVars
  <2>2. QED
    BY <2>1, AccessAsks DEF AccessNames
<1>5. CASE PowerWrite
  <2>1. phase' = "tick" /\ mcycle'.access = "NR52"
    BY <1>5 DEF PowerWrite, Access, IInv, TypeOK, MCycles
  <2>2. QED
    BY <2>1 DEF SequencerIsAsked, SequencerFollowsBit12
<1>6. CASE UNCHANGED vars
  BY <1>6 DEF vars, timerVars, sequencerVars, histories, SequencerIsAsked,
              SequencerFollowsBit12
<1>7. QED
  BY <1>1, <1>2, <1>3, <1>4, <1>5, <1>6 DEF Next

\* The frame sequencer steps once in an M-cycle that drops bit 12, by the tick or by a write
\* to DIV, and in no other, however often it is asked (Apu.cpp:114-137, GameBoy.cpp:348-352).
THEOREM SequencerFollowsBit12Always == Spec => []SequencerFollowsBit12
<1>1. Init => SequencerIsAsked /\ SequencerFollowsBit12
  BY DEF Init, SequencerInit, SequencerIsAsked, SequencerFollowsBit12
<1>2. QED
  BY <1>1, SequencerStep, SpecIInv, PTL DEF Spec
=============================================================================
