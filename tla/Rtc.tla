---------------------------------- MODULE Rtc --------------------------------
(***************************************************************************)
(* The clock of an MBC3 cartridge (core/mbc/Rtc): two copies of five       *)
(* registers narrower than a byte and an accumulator of M-cycles below a   *)
(* second.  Pure operators over a clock; Cartridge owns and drives one.    *)
(*                                                                         *)
(* dayHigh is the set of its wired bits that are on.  The other registers  *)
(* are numbers, so that a mask of w bits is % 2^w.                         *)
(***************************************************************************)
EXTENDS Naturals

CONSTANTS
  TicksPerSecond,  \* M-cycles in a second: 1048576 in the code
  Limit,           \* the last in-range value of a counter: 59, 59, 23
  Span,            \* how many values its register can hold: 64, 64, 32
  DayLowSize       \* values of dayLow: 256

Counters == {"seconds", "minutes", "hours"}
DayHighBits == {"day8", "halt", "carry"}

ASSUME RtcAssumption ==
  /\ TicksPerSecond \in Nat \ {0}
  /\ Limit \in [Counters -> Nat]
  /\ Span \in [Counters -> Nat]
  /\ \A f \in Counters : Limit[f] < Span[f]
  /\ DayLowSize \in Nat \ {0}

RtcRegisters == [seconds : 0..(Span["seconds"] - 1), minutes : 0..(Span["minutes"] - 1),
                 hours : 0..(Span["hours"] - 1), dayLow : 0..(DayLowSize - 1),
                 dayHigh : SUBSET DayHighBits]

Clocks == [live : RtcRegisters, latched : RtcRegisters, ticks : 0..(TicksPerSecond - 1)]

ZeroRegisters == [seconds |-> 0, minutes |-> 0, hours |-> 0, dayLow |-> 0, dayHigh |-> {}]
NewClock == [live |-> ZeroRegisters, latched |-> ZeroRegisters, ticks |-> 0]

-----------------------------------------------------------------------------
Halted(live) == "halt" \in live.dayHigh

\* `count' steps from an in-range value, split so that nothing overflows.
CountOn(f, value, count) ==
  LET period == Limit[f] + 1
      part == value + (count % period)
  IN  [value |-> part % period, carry |-> (count \div period) + (part \div period)]

\* Mutant: every value steps off the limit, a value beyond it included.
AdvanceFieldAlwaysInRange(f, value, count) == CountOn(f, value, count)

\* One counter advanced by `count' steps, and how often it carried.  A value
\* beyond the limit counts on to the end of its register, without a carry.
AdvanceField(f, value, count) ==
  LET toWrap == Span[f] - value
  IN  IF value <= Limit[f] THEN CountOn(f, value, count)
      ELSE IF count < toWrap THEN [value |-> value + count, carry |-> 0]
      ELSE CountOn(f, 0, count - toWrap)

DayPeriod == 2 * DayLowSize

\* The nine-bit day counter of the code.
Day(live) == live.dayLow + (IF "day8" \in live.dayHigh THEN DayLowSize ELSE 0)

AddDays(live, days) ==
  LET total == Day(live) + days
  IN  [live EXCEPT !.dayLow = total % DayLowSize,
                   !.dayHigh = (@ \ {"day8"})
                     \cup (IF (total \div DayLowSize) % 2 = 1 THEN {"day8"} ELSE {})
                     \cup (IF total >= DayPeriod THEN {"carry"} ELSE {})]

\* Catching up: arithmetic on any number of seconds at once.
AdvanceSeconds(live, count) ==
  LET s == AdvanceField("seconds", live.seconds, count)
      m == AdvanceField("minutes", live.minutes, s.carry)
      h == AdvanceField("hours", live.hours, m.carry)
  IN  IF Halted(live) THEN live
      ELSE AddDays([live EXCEPT !.seconds = s.value, !.minutes = m.value,
                                !.hours = h.value], h.carry)

\* One M-cycle.  A halted clock keeps the part of a second it had.
TickClock(clock) ==
  IF Halted(clock.live) THEN clock
  ELSE IF clock.ticks + 1 < TicksPerSecond THEN [clock EXCEPT !.ticks = @ + 1]
  ELSE [clock EXCEPT !.ticks = 0, !.live = AdvanceSeconds(@, 1)]

Latch(clock) == [clock EXCEPT !.latched = clock.live]

\* A write to a register of the live copy; a write to the seconds starts a
\* second anew.  `value' is a number, or for dayHigh a set of bits.
WriteRegister(clock, reg, value) ==
  CASE reg = "seconds" -> [clock EXCEPT !.live.seconds = value % Span["seconds"], !.ticks = 0]
    [] reg = "minutes" -> [clock EXCEPT !.live.minutes = value % Span["minutes"]]
    [] reg = "hours"   -> [clock EXCEPT !.live.hours = value % Span["hours"]]
    [] reg = "dayLow"  -> [clock EXCEPT !.live.dayLow = value % DayLowSize]
    [] reg = "dayHigh" -> [clock EXCEPT !.live.dayHigh = value \cap DayHighBits]

\* Mutant: the mask of dayHigh has no bit for the carry.
NarrowedWithoutCarry(regs) ==
  [regs EXCEPT !.seconds = @ % Span["seconds"], !.minutes = @ % Span["minutes"],
               !.hours = @ % Span["hours"], !.dayHigh = @ \cap {"day8", "halt"}]

\* Registers from a save file, cut to the widths of the chip's.
Narrowed(regs) ==
  [regs EXCEPT !.seconds = @ % Span["seconds"], !.minutes = @ % Span["minutes"],
               !.hours = @ % Span["hours"], !.dayHigh = @ \cap DayHighBits]

\* A clock restored from `live' and `latched' starts a second anew.
SetState(live, latched) ==
  [live |-> Narrowed(live), latched |-> Narrowed(latched), ticks |-> 0]

-----------------------------------------------------------------------------
(* What a second is, one counter at a time: the reference the arithmetic   *)
(* above is checked against.                                               *)

StepsOff(f, live) == live[f] = Limit[f]
OneStep(f, live) == IF StepsOff(f, live) THEN 0 ELSE (live[f] + 1) % Span[f]

NextDay(live) ==
  LET last == Day(live) = DayPeriod - 1
      next == IF last THEN 0 ELSE Day(live) + 1
  IN  [live EXCEPT !.dayLow = IF @ = DayLowSize - 1 THEN 0 ELSE @ + 1,
                   !.dayHigh = (@ \ {"day8"})
                     \cup (IF next >= DayLowSize THEN {"day8"} ELSE {})
                     \cup (IF last THEN {"carry"} ELSE {})]

SecondLater(live) ==
  LET minute == StepsOff("seconds", live)
      hour == minute /\ StepsOff("minutes", live)
      day == hour /\ StepsOff("hours", live)
      counted == [live EXCEPT
        !.seconds = OneStep("seconds", live),
        !.minutes = IF minute THEN OneStep("minutes", live) ELSE @,
        !.hours = IF hour THEN OneStep("hours", live) ELSE @]
  IN  IF Halted(live) THEN live ELSE IF day THEN NextDay(counted) ELSE counted

\* SecondBySecond(live, n)[k], k \in 0..n: the registers k seconds later.
SecondBySecond(live, n) ==
  LET after[k \in 0..n] == IF k = 0 THEN live ELSE SecondLater(after[k - 1])
  IN  after
=============================================================================
