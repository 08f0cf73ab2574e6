---------------------------- MODULE CartridgeProofs --------------------------
(***************************************************************************)
(* The cartridge's invariants hold for every header, every program and     *)
(* every width of the clock's registers; and, first, what the clock's      *)
(* arithmetic does: every operation leaves registers that fit, and         *)
(* catching up on n seconds is counting n of them.                         *)
(***************************************************************************)
EXTENDS Cartridge, WellFoundedInduction, TLAPS

-----------------------------------------------------------------------------
(* Catching up, field by field.                                            *)

\* Counting on in range ends in range.
LEMMA CountOnFits ==
  ASSUME NEW f \in Counters, NEW value \in Nat, NEW count \in Nat
  PROVE  /\ CountOn(f, value, count).value \in 0..Limit[f]
         /\ CountOn(f, value, count).carry \in Nat
<1> DEFINE period == Limit[f] + 1
           part == value + (count % period)
<1>1. period \in Nat \ {0} /\ Limit[f] = period - 1
  BY RtcAssumption DEF RtcAssumption
<1> HIDE DEF period
<1>2. count % period \in Nat /\ count \div period \in Nat
  BY <1>1, Z3
<1>3. part \in Nat
  BY <1>2
<1> HIDE DEF part
<1>4. part % period \in 0..(period - 1) /\ part \div period \in Nat
  BY <1>1, <1>3, Z3
<1>5. /\ CountOn(f, value, count).value = part % period
      /\ CountOn(f, value, count).carry = (count \div period) + (part \div period)
  BY DEF CountOn, period, part
<1> QED
  BY <1>1, <1>2, <1>4, <1>5

\* A counter never holds what its register cannot.
LEMMA FieldFits ==
  ASSUME NEW f \in Counters, NEW value \in 0..(Span[f] - 1), NEW count \in Nat
  PROVE  /\ AdvanceField(f, value, count).value \in 0..(Span[f] - 1)
         /\ AdvanceField(f, value, count).carry \in Nat
<1>1. Limit[f] \in Nat /\ Span[f] \in Nat /\ Limit[f] < Span[f]
  BY RtcAssumption DEF RtcAssumption
<1>2. CASE value <= Limit[f]
  BY <1>1, <1>2, CountOnFits DEF AdvanceField
<1>3. CASE ~(value <= Limit[f]) /\ count < Span[f] - value
  BY <1>1, <1>3 DEF AdvanceField
<1>4. CASE ~(value <= Limit[f]) /\ ~(count < Span[f] - value)
  <2>1. count - (Span[f] - value) \in Nat
    BY <1>1, <1>4
  <2> QED
    BY <1>1, <1>4, <2>1, CountOnFits DEF AdvanceField
<1> QED
  BY <1>2, <1>3, <1>4

\* From an in-range or out-of-range value, one step is one step.
LEMMA FieldByOne ==
  ASSUME NEW f \in Counters, NEW value \in 0..(Span[f] - 1)
  PROVE  AdvanceField(f, value, 1) =
           IF value = Limit[f] THEN [value |-> 0, carry |-> 1]
           ELSE [value |-> (value + 1) % Span[f], carry |-> 0]
<1>1. Limit[f] \in Nat /\ Span[f] \in Nat /\ Limit[f] < Span[f]
  BY RtcAssumption DEF RtcAssumption
<1> DEFINE period == Limit[f] + 1
           span == Span[f]
<1>2. period \in Nat \ {0} /\ span \in Nat \ {0} /\ Limit[f] = period - 1 /\ period <= span
  BY <1>1
<1> HIDE DEF period, span
<1>3. CASE value < Limit[f]
  <2>1. 1 % period = 1 /\ 1 \div period = 0
    BY <1>2, <1>3, Z3
  <2>2. (value + 1) % period = value + 1 /\ (value + 1) \div period = 0
    BY <1>2, <1>3, Z3
  <2>3. (value + 1) % span = value + 1
    BY <1>2, <1>3, Z3
  <2> QED
    BY <1>1, <1>3, <2>1, <2>2, <2>3 DEF AdvanceField, CountOn, period, span
<1>4. CASE value = Limit[f] /\ period = 1
  BY <1>1, <1>4 DEF AdvanceField, CountOn, period
<1>5. CASE value = Limit[f] /\ period # 1
  <2>1. 1 % period = 1 /\ 1 \div period = 0
    BY <1>2, <1>5, Z3
  <2>2. (value + 1) % period = 0 /\ (value + 1) \div period = 1
    BY <1>2, <1>5, Z3
  <2> QED
    BY <1>1, <1>5, <2>1, <2>2 DEF AdvanceField, CountOn, period
<1>6. CASE value > Limit[f] /\ value + 1 < span
  <2>1. (value + 1) % span = value + 1
    BY <1>2, <1>6, Z3
  <2> QED
    BY <1>1, <1>6, <2>1 DEF AdvanceField, span
<1>7. CASE value > Limit[f] /\ value + 1 = span
  <2>1. (value + 1) % span = 0
    BY <1>2, <1>7, Z3
  <2>2. 0 % period = 0 /\ 0 \div period = 0
    BY <1>2, Z3
  <2>3. 1 - (Span[f] - value) = 0 /\ ~(value <= Limit[f]) /\ ~(1 < Span[f] - value)
    BY <1>1, <1>7 DEF span
  <2>4. AdvanceField(f, value, 1) = CountOn(f, 0, 0)
    BY <2>3 DEF AdvanceField
  <2>5. CountOn(f, 0, 0) = [value |-> 0, carry |-> 0]
    BY <2>2 DEF CountOn, period
  <2> QED
    BY <1>1, <1>7, <2>1, <2>4, <2>5 DEF span
<1> QED
  BY <1>1, <1>2, <1>3, <1>4, <1>5, <1>6, <1>7 DEF span

\* No steps are no change.
LEMMA FieldByNone ==
  ASSUME NEW f \in Counters, NEW value \in 0..(Span[f] - 1)
  PROVE  AdvanceField(f, value, 0) = [value |-> value, carry |-> 0]
<1>1. Limit[f] \in Nat /\ Span[f] \in Nat /\ Limit[f] < Span[f]
  BY RtcAssumption DEF RtcAssumption
<1> DEFINE period == Limit[f] + 1
<1>2. period \in Nat \ {0} /\ Limit[f] = period - 1
  BY <1>1
<1> HIDE DEF period
<1>3. CASE value <= Limit[f]
  <2>1. 0 % period = 0 /\ 0 \div period = 0
    BY <1>2, Z3
  <2>2. value % period = value /\ value \div period = 0
    BY <1>2, <1>3, Z3
  <2> QED
    BY <1>3, <2>1, <2>2 DEF AdvanceField, CountOn, period
<1>4. CASE ~(value <= Limit[f])
  BY <1>1, <1>4 DEF AdvanceField
<1> QED
  BY <1>3, <1>4

\* Days added leave registers that fit.
LEMMA DaysFit ==
  ASSUME NEW live \in RtcRegisters, NEW days \in Nat
  PROVE  AddDays(live, days) \in RtcRegisters
<1> DEFINE total == Day(live) + days
<1>1. DayLowSize \in Nat \ {0}
  BY RtcAssumption DEF RtcAssumption
<1>2. total \in Nat
  BY <1>1 DEF RtcRegisters, Day
<1> HIDE DEF total
<1>3. total % DayLowSize \in 0..(DayLowSize - 1)
  BY <1>1, <1>2, Z3
<1> DEFINE high == (live.dayHigh \ {"day8"})
                     \cup (IF (total \div DayLowSize) % 2 = 1 THEN {"day8"} ELSE {})
                     \cup (IF total >= DayPeriod THEN {"carry"} ELSE {})
<1>4. high \in SUBSET DayHighBits
  BY DEF RtcRegisters, DayHighBits
<1>5. AddDays(live, days) = [live EXCEPT !.dayLow = total % DayLowSize, !.dayHigh = high]
  BY DEF AddDays, total
<1> HIDE DEF high
<1> QED
  BY <1>3, <1>4, <1>5 DEF RtcRegisters

\* Catching up leaves registers that fit, however many seconds went by.
THEOREM AdvanceSecondsFits ==
  ASSUME NEW live \in RtcRegisters, NEW count \in Nat
  PROVE  AdvanceSeconds(live, count) \in RtcRegisters
<1> DEFINE s == AdvanceField("seconds", live.seconds, count)
           m == AdvanceField("minutes", live.minutes, s.carry)
           h == AdvanceField("hours", live.hours, m.carry)
           counted == [live EXCEPT !.seconds = s.value, !.minutes = m.value, !.hours = h.value]
<1>1. s.value \in 0..(Span["seconds"] - 1) /\ s.carry \in Nat
  BY FieldFits DEF RtcRegisters, Counters
<1> HIDE DEF s
<1>2. m.value \in 0..(Span["minutes"] - 1) /\ m.carry \in Nat
  BY <1>1, FieldFits DEF RtcRegisters, Counters
<1> HIDE DEF m
<1>3. h.value \in 0..(Span["hours"] - 1) /\ h.carry \in Nat
  BY <1>2, FieldFits DEF RtcRegisters, Counters
<1> HIDE DEF h
<1>4. counted \in RtcRegisters
  BY <1>1, <1>2, <1>3 DEF RtcRegisters
<1>5. AdvanceSeconds(live, count) = IF Halted(live) THEN live ELSE AddDays(counted, h.carry)
  BY DEF AdvanceSeconds, s, m, h
<1> HIDE DEF counted
<1> QED
  BY <1>3, <1>4, <1>5, DaysFit

\* The parts of a day number: its low register and the bit above it.
LEMMA DayParts ==
  ASSUME NEW day \in 0..(2 * DayLowSize)
  PROVE  /\ day < DayLowSize => day % DayLowSize = day /\ day \div DayLowSize = 0
         /\ DayLowSize <= day /\ day < 2 * DayLowSize =>
              day % DayLowSize = day - DayLowSize /\ day \div DayLowSize = 1
         /\ day = 2 * DayLowSize => day % DayLowSize = 0 /\ day \div DayLowSize = 2
<1> DEFINE size == DayLowSize
<1>1. size \in Nat \ {0} /\ day \in 0..(2 * size)
  BY RtcAssumption DEF RtcAssumption
<1> HIDE DEF size
<1>2. day < size => day % size = day /\ day \div size = 0
  BY <1>1, Z3
<1>3. size <= day /\ day < 2 * size => day % size = day - size /\ day \div size = 1
  BY <1>1, Z3
<1>4. day = 2 * size => day % size = 0 /\ day \div size = 2
  BY <1>1, Z3
<1> QED
  BY <1>2, <1>3, <1>4 DEF size

\* No days added change nothing, the carry of an earlier overflow included.
LEMMA NoDays ==
  ASSUME NEW live \in RtcRegisters
  PROVE  AddDays(live, 0) = live
<1>1. DayLowSize \in Nat \ {0} /\ live.dayLow \in 0..(DayLowSize - 1)
  BY RtcAssumption DEF RtcAssumption, RtcRegisters
<1>2. Day(live) \in 0..(2 * DayLowSize) /\ Day(live) < 2 * DayLowSize /\ Day(live) + 0 = Day(live)
  BY <1>1 DEF Day
<1>3. Day(live) % DayLowSize = live.dayLow
  BY <1>1, <1>2, DayParts DEF Day
<1>4. (Day(live) \div DayLowSize) % 2 = 1 <=> "day8" \in live.dayHigh
  <2>1. CASE "day8" \in live.dayHigh
    <3>1. Day(live) \div DayLowSize = 1
      BY <1>1, <1>2, <2>1, DayParts DEF Day
    <3> QED
      BY <2>1, <3>1
  <2>2. CASE "day8" \notin live.dayHigh
    <3>1. Day(live) \div DayLowSize = 0
      BY <1>1, <1>2, <2>2, DayParts DEF Day
    <3> QED
      BY <2>2, <3>1
  <2> QED
    BY <2>1, <2>2
<1>5. ~(Day(live) + 0 >= DayPeriod)
  BY <1>1, <1>2 DEF DayPeriod
<1>6. AddDays(live, 0).dayHigh = live.dayHigh
  BY <1>2, <1>4, <1>5 DEF AddDays, RtcRegisters
<1> QED
  BY <1>2, <1>3, <1>6 DEF AddDays, RtcRegisters

\* One day added is the next day.
LEMMA OneDay ==
  ASSUME NEW live \in RtcRegisters
  PROVE  AddDays(live, 1) = NextDay(live)
<1> DEFINE total == Day(live) + 1
<1>1. DayLowSize \in Nat \ {0} /\ live.dayLow \in 0..(DayLowSize - 1)
  BY RtcAssumption DEF RtcAssumption, RtcRegisters
<1>2. total \in 0..(2 * DayLowSize)
  BY <1>1 DEF Day
<1>3. total % DayLowSize = IF live.dayLow = DayLowSize - 1 THEN 0 ELSE live.dayLow + 1
  <2>1. \/ total = live.dayLow + 1
        \/ total = live.dayLow + 1 + DayLowSize
    BY <1>1 DEF Day
  <2> HIDE DEF total
  <2>2. /\ total < DayLowSize => total % DayLowSize = total
        /\ total >= DayLowSize /\ total < 2 * DayLowSize
              => total % DayLowSize = total - DayLowSize
        /\ total = 2 * DayLowSize => total % DayLowSize = 0
    BY <1>1, <1>2, DayParts
  <2> QED
    BY <1>1, <2>1, <2>2
<1>4. total >= DayPeriod <=> Day(live) = DayPeriod - 1
  BY <1>1 DEF Day, DayPeriod
<1>5. (total \div DayLowSize) % 2 = 1
        <=> (IF Day(live) = DayPeriod - 1 THEN 0 ELSE Day(live) + 1) >= DayLowSize
  BY <1>1, <1>2, DayParts DEF Day, DayPeriod
<1>6. AddDays(live, 1).dayHigh = NextDay(live).dayHigh
  BY <1>4, <1>5 DEF AddDays, NextDay, RtcRegisters
<1>7. AddDays(live, 1).dayLow = NextDay(live).dayLow
  BY <1>3 DEF AddDays, NextDay, RtcRegisters
<1> QED
  BY <1>6, <1>7 DEF AddDays, NextDay, RtcRegisters

\* What TickClock adds once a second is a second: for registers of every width
\* and every value they can hold, the arithmetic of advanceSeconds(1) and
\* counting digit by digit agree.
THEOREM AdvanceOneSecond ==
  ASSUME NEW live \in RtcRegisters
  PROVE  AdvanceSeconds(live, 1) = SecondLater(live)
<1> DEFINE s == AdvanceField("seconds", live.seconds, 1)
           m == AdvanceField("minutes", live.minutes, s.carry)
           h == AdvanceField("hours", live.hours, m.carry)
           minute == StepsOff("seconds", live)
           hour == minute /\ StepsOff("minutes", live)
           day == hour /\ StepsOff("hours", live)
<1>1. s = [value |-> OneStep("seconds", live), carry |-> IF minute THEN 1 ELSE 0]
  BY FieldByOne DEF RtcRegisters, Counters, OneStep, StepsOff
<1>2. m = [value |-> IF minute THEN OneStep("minutes", live) ELSE live.minutes,
           carry |-> IF hour THEN 1 ELSE 0]
  BY <1>1, FieldByOne, FieldByNone DEF RtcRegisters, Counters, OneStep, StepsOff
<1>3. h = [value |-> IF hour THEN OneStep("hours", live) ELSE live.hours,
           carry |-> IF day THEN 1 ELSE 0]
  BY <1>2, FieldByOne, FieldByNone DEF RtcRegisters, Counters, OneStep, StepsOff
<1> DEFINE counted == [live EXCEPT !.seconds = s.value, !.minutes = m.value, !.hours = h.value]
<1>4. counted \in RtcRegisters
  <2>1. s.value \in 0..(Span["seconds"] - 1) /\ s.carry \in Nat
    BY FieldFits DEF RtcRegisters, Counters
  <2>2. m.value \in 0..(Span["minutes"] - 1) /\ m.carry \in Nat
    BY <2>1, FieldFits DEF RtcRegisters, Counters
  <2>3. h.value \in 0..(Span["hours"] - 1)
    BY <2>2, FieldFits DEF RtcRegisters, Counters
  <2> QED
    BY <2>1, <2>2, <2>3 DEF RtcRegisters
<1>5. AdvanceSeconds(live, 1) = IF Halted(live) THEN live ELSE AddDays(counted, h.carry)
  BY DEF AdvanceSeconds
<1> HIDE DEF s, m, h
<1>6. counted = [live EXCEPT
        !.seconds = OneStep("seconds", live),
        !.minutes = IF minute THEN OneStep("minutes", live) ELSE @,
        !.hours = IF hour THEN OneStep("hours", live) ELSE @]
  BY <1>1, <1>2, <1>3 DEF RtcRegisters
<1> HIDE DEF counted
<1>7. AddDays(counted, h.carry) = IF day THEN NextDay(counted) ELSE counted
  BY <1>3, <1>4, NoDays, OneDay
<1> QED
  BY <1>5, <1>6, <1>7 DEF SecondLater

-----------------------------------------------------------------------------
(* Division, and the induction the catch-up rests on.                      *)

LEMMA Quotient ==
  ASSUME NEW a \in Nat, NEW p \in Nat \ {0}
  PROVE  /\ a \div p \in Nat
         /\ a % p \in 0..(p - 1)
         /\ a = p * (a \div p) + (a % p)
  BY Z3

LEMMA QuotientIsUnique ==
  ASSUME NEW p \in Nat \ {0}, NEW q \in Nat, NEW r \in 0..(p - 1),
         NEW a \in Nat, a = p * q + r
  PROVE  a \div p = q /\ a % p = r
  BY Z3

\* The next number has the next remainder, or none and the next quotient.
LEMMA QuotientOfNext ==
  ASSUME NEW a \in Nat, NEW p \in Nat \ {0}
  PROVE  /\ a % p = p - 1 => (a + 1) % p = 0 /\ (a + 1) \div p = (a \div p) + 1
         /\ a % p # p - 1 => (a + 1) % p = (a % p) + 1 /\ (a + 1) \div p = a \div p
<1> DEFINE q == a \div p
           r == a % p
<1>1. q \in Nat /\ r \in 0..(p - 1) /\ a = p * q + r
  BY Quotient
<1> HIDE DEF q, r
<1>2. ASSUME r = p - 1 PROVE (a + 1) \div p = q + 1 /\ (a + 1) % p = 0
  <2>1. a + 1 = p * (q + 1) + 0
    BY <1>1, <1>2, Z3
  <2> QED
    BY <1>1, <2>1, QuotientIsUnique
<1>3. ASSUME r # p - 1 PROVE (a + 1) \div p = q /\ (a + 1) % p = r + 1
  <2>1. a + 1 = p * q + (r + 1) /\ r + 1 \in 0..(p - 1)
    BY <1>1, <1>3, Z3
  <2> QED
    BY <1>1, <2>1, QuotientIsUnique
<1> QED
  BY <1>2, <1>3 DEF q, r

\* Every set of naturals that is not empty has a least element.
LEMMA LeastElement ==
  ASSUME NEW T \in SUBSET Nat, T # {}
  PROVE  \E x \in T : \A y \in T : x <= y
<1> DEFINE R == {p \in Nat \X Nat : p[1] < p[2]}
<1>1. IsWellFoundedOn(R, Nat)
  BY NatLessThanWellFounded DEF OpToRel
<1> HIDE DEF R
<1>2. PICK x \in T : \A y \in T : ~(<<y, x>> \in R)
  BY <1>1, WFMin
<1>3. ASSUME NEW y \in T PROVE x <= y
  <2>1. x \in Nat /\ y \in Nat
    BY <1>2
  <2>2. y < x => <<y, x>> \in R
    BY <2>1 DEF R
  <2> QED
    BY <1>2, <2>1, <2>2
<1> QED
  BY <1>3

-----------------------------------------------------------------------------
(* One more second.                                                        *)

\* Splitting the count does what dividing the whole sum would.
LEMMA CountOnDivides ==
  ASSUME NEW f \in Counters, NEW value \in Nat, NEW count \in Nat
  PROVE  CountOn(f, value, count) =
           [value |-> (value + count) % (Limit[f] + 1), carry |-> (value + count) \div (Limit[f] + 1)]
<1> DEFINE period == Limit[f] + 1
           q == count \div period
           part == value + (count % period)
<1>1. period \in Nat \ {0}
  BY RtcAssumption DEF RtcAssumption
<1> HIDE DEF period
<1>2. q \in Nat /\ count % period \in 0..(period - 1) /\ count = period * q + (count % period)
  BY <1>1, Quotient
<1> HIDE DEF q
<1>3. part \in Nat /\ value + count = period * q + part
  BY <1>1, <1>2, Z3
<1> HIDE DEF part
<1>4. /\ part \div period \in Nat
      /\ part % period \in 0..(period - 1)
      /\ part = period * (part \div period) + (part % period)
  BY <1>1, <1>3, Quotient
<1>5. value + count = period * (q + (part \div period)) + (part % period)
  BY <1>1, <1>2, <1>3, <1>4, Z3
<1>6. (value + count) \div period = q + (part \div period) /\ (value + count) % period = part % period
  <2> DEFINE a == value + count
             k == q + (part \div period)
             r == part % period
  <2>1. a \in Nat /\ k \in Nat /\ r \in 0..(period - 1) /\ a = period * k + r
    BY <1>2, <1>4, <1>5
  <2> HIDE DEF a, k, r
  <2>2. a \div period = k /\ a % period = r
    BY <1>1, <2>1, Z3
  <2> QED
    BY <2>2 DEF a, k, r
<1>7. CountOn(f, value, count) = [value |-> part % period, carry |-> q + (part \div period)]
  BY DEF CountOn, period, q, part
<1> QED
  BY <1>6, <1>7 DEF period

LEMMA CountOnOneMore ==
  ASSUME NEW f \in Counters, NEW value \in Nat, NEW count \in Nat
  PROVE  CountOn(f, value, count + 1) =
           IF CountOn(f, value, count).value = Limit[f]
           THEN [value |-> 0, carry |-> CountOn(f, value, count).carry + 1]
           ELSE [value |-> CountOn(f, value, count).value + 1, carry |-> CountOn(f, value, count).carry]
<1> DEFINE period == Limit[f] + 1
           sum == value + count
<1>1. period \in Nat \ {0} /\ Limit[f] = period - 1 /\ sum \in Nat
  BY RtcAssumption DEF RtcAssumption
<1>2. CountOn(f, value, count) = [value |-> sum % period, carry |-> sum \div period]
  BY CountOnDivides
<1>3. count + 1 \in Nat /\ value + (count + 1) = sum + 1
  OBVIOUS
<1>4. CountOn(f, value, count + 1) = [value |-> (sum + 1) % period, carry |-> (sum + 1) \div period]
  BY <1>3, CountOnDivides
<1> HIDE DEF period, sum
<1>5. /\ sum % period = period - 1 =>
           (sum + 1) % period = 0 /\ (sum + 1) \div period = (sum \div period) + 1
      /\ sum % period # period - 1 =>
           (sum + 1) % period = (sum % period) + 1 /\ (sum + 1) \div period = sum \div period
  BY <1>1, QuotientOfNext
<1> QED
  BY <1>1, <1>2, <1>4, <1>5

\* A counter advanced by one more step is the counter advanced, and then once.
LEMMA FieldOneMore ==
  ASSUME NEW f \in Counters, NEW value \in 0..(Span[f] - 1), NEW count \in Nat
  PROVE  LET a == AdvanceField(f, value, count)
             b == AdvanceField(f, a.value, 1)
         IN  AdvanceField(f, value, count + 1) = [value |-> b.value, carry |-> a.carry + b.carry]
<1> DEFINE a == AdvanceField(f, value, count)
           b == AdvanceField(f, a.value, 1)
           next == AdvanceField(f, value, count + 1)
           toWrap == Span[f] - value
<1>1. Limit[f] \in Nat /\ Span[f] \in Nat /\ Limit[f] < Span[f]
  BY RtcAssumption DEF RtcAssumption
<1>2. a.value \in 0..(Span[f] - 1) /\ a.carry \in Nat
  BY FieldFits
<1> HIDE DEF a
<1>3. b = IF a.value = Limit[f] THEN [value |-> 0, carry |-> 1]
          ELSE [value |-> (a.value + 1) % Span[f], carry |-> 0]
  BY <1>2, FieldByOne
<1> HIDE DEF b
<1>4. /\ a.value + 1 < Span[f] => (a.value + 1) % Span[f] = a.value + 1
      /\ a.value + 1 = Span[f] => (a.value + 1) % Span[f] = 0
  <2> DEFINE span == Span[f]
             v == a.value
  <2>1. span \in Nat \ {0} /\ v \in 0..(span - 1)
    BY <1>1, <1>2
  <2> HIDE DEF span, v
  <2>2. (v + 1 < span => (v + 1) % span = v + 1) /\ (v + 1 = span => (v + 1) % span = 0)
    BY <2>1, Z3
  <2> QED
    BY <2>2 DEF span, v
<1>5. ASSUME NEW from \in 0..Limit[f], NEW n \in Nat,
             a = CountOn(f, from, n), next = CountOn(f, from, n + 1)
      PROVE  next = [value |-> b.value, carry |-> a.carry + b.carry]
  <2>1. a.value \in 0..Limit[f]
    BY <1>1, <1>5, CountOnFits
  <2>2. next = IF a.value = Limit[f] THEN [value |-> 0, carry |-> a.carry + 1]
               ELSE [value |-> a.value + 1, carry |-> a.carry]
    BY <1>1, <1>5, CountOnOneMore
  <2>3. CASE a.value = Limit[f]
    BY <1>3, <2>2, <2>3
  <2>4. CASE a.value # Limit[f]
    <3>1. a.value + 1 < Span[f]
      BY <1>1, <2>1, <2>4
    <3> QED
      BY <1>2, <1>3, <1>4, <2>2, <2>4, <3>1
  <2> QED
    BY <2>3, <2>4
<1>6. CASE value <= Limit[f]
  <2>1. a = CountOn(f, value, count) /\ next = CountOn(f, value, count + 1)
    BY <1>6 DEF a, AdvanceField
  <2> QED
    BY <1>1, <1>5, <1>6, <2>1 DEF a, b
<1>7. CASE ~(value <= Limit[f]) /\ count + 1 < toWrap
  <2>1. a = [value |-> value + count, carry |-> 0] /\ next = [value |-> value + (count + 1), carry |-> 0]
    BY <1>1, <1>7 DEF a, AdvanceField
  <2>2. a.value # Limit[f] /\ a.value + 1 < Span[f]
    BY <1>1, <1>7, <2>1
  <2>3. b = [value |-> value + count + 1, carry |-> 0]
    BY <1>3, <1>4, <2>1, <2>2
  <2> QED
    BY <1>1, <2>1, <2>3 DEF a, b
<1>8. CASE ~(value <= Limit[f]) /\ count + 1 = toWrap
  <2>1. a = [value |-> value + count, carry |-> 0] /\ next = CountOn(f, 0, 0)
    <3>1. count < toWrap /\ ~(count + 1 < toWrap) /\ (count + 1) - toWrap = 0
      BY <1>1, <1>8
    <3> QED
      BY <1>8, <3>1 DEF a, AdvanceField
  <2>2. a.value # Limit[f] /\ a.value + 1 = Span[f]
    BY <1>1, <1>8, <2>1
  <2>3. b = [value |-> 0, carry |-> 0]
    BY <1>3, <1>4, <2>2
  <2>4. 0 \in 0..(Span[f] - 1) /\ AdvanceField(f, 0, 0) = CountOn(f, 0, 0)
    BY <1>1 DEF AdvanceField
  <2>5. next = [value |-> 0, carry |-> 0]
    BY <2>1, <2>4, FieldByNone
  <2> QED
    BY <2>1, <2>3, <2>5 DEF a, b
<1>9. CASE ~(value <= Limit[f]) /\ ~(count + 1 <= toWrap)
  <2>1. count - toWrap \in Nat /\ (count + 1) - toWrap = (count - toWrap) + 1
    BY <1>1, <1>9
  <2>2. ~(count < toWrap) /\ ~(count + 1 < toWrap)
    BY <1>1, <1>9
  <2>3. a = CountOn(f, 0, count - toWrap) /\ next = CountOn(f, 0, (count - toWrap) + 1)
    BY <1>9, <2>1, <2>2 DEF a, AdvanceField
  <2>4. 0 \in 0..Limit[f]
    BY <1>1
  <2> HIDE DEF toWrap, next
  <2> QED
    BY <1>5, <2>1, <2>3, <2>4 DEF a, b, next
<1> QED
  BY <1>1, <1>6, <1>7, <1>8, <1>9 DEF a, b

\* Days added and then one more are as many days added at once, the carry of an
\* overflow on the way included.
LEMMA DaysOneMore ==
  ASSUME NEW live \in RtcRegisters, NEW days \in Nat
  PROVE  AddDays(live, days + 1) = AddDays(AddDays(live, days), 1)
<1> DEFINE size == DayLowSize
           total == Day(live) + days
           q == total \div size
           r == total % size
           mid == AddDays(live, days)
<1>1. size \in Nat \ {0} /\ live.dayLow \in 0..(size - 1)
  BY RtcAssumption DEF RtcAssumption, RtcRegisters
<1>2. total \in Nat /\ Day(live) + (days + 1) = total + 1
  BY <1>1 DEF Day
<1> HIDE DEF total
<1>3. q \in Nat /\ r \in 0..(size - 1) /\ total = size * q + r
  BY <1>1, <1>2, Quotient
<1>4. mid \in RtcRegisters
  BY DaysFit
<1>5. mid.dayLow = r /\ ("day8" \in mid.dayHigh <=> q % 2 = 1)
  BY DEF AddDays, total, RtcRegisters
<1>6. "carry" \in mid.dayHigh <=> "carry" \in live.dayHigh \/ total >= 2 * size
  BY DEF AddDays, total, RtcRegisters, DayPeriod
<1> HIDE DEF q, r, mid
<1>7. /\ r = size - 1 => (total + 1) % size = 0 /\ (total + 1) \div size = q + 1
      /\ r # size - 1 => (total + 1) % size = r + 1 /\ (total + 1) \div size = q
  BY <1>1, <1>2, QuotientOfNext DEF q, r
<1> HIDE DEF size
<1>8. Day(mid) = r + (IF q % 2 = 1 THEN size ELSE 0)
  BY <1>5 DEF Day, size
<1>9. Day(mid) + 1 \in 0..(2 * size)
  BY <1>1, <1>3, <1>8
<1>10. /\ r # size - 1 => (Day(mid) + 1) % size = r + 1
       /\ r = size - 1 => (Day(mid) + 1) % size = 0
  BY <1>1, <1>3, <1>8, <1>9, DayParts DEF size
<1>11. (total + 1) % size = (Day(mid) + 1) % size
  BY <1>7, <1>10
<1>12. ((total + 1) \div size) % 2 = 1 <=> ((Day(mid) + 1) \div size) % 2 = 1
  <2>1. CASE r # size - 1
    <3>1. (Day(mid) + 1) \div size = q % 2
      BY <1>1, <1>3, <1>8, <1>9, <2>1, DayParts DEF size
    <3> QED
      BY <1>3, <1>7, <2>1, <3>1
  <2>2. CASE r = size - 1
    <3>1. (Day(mid) + 1) \div size = (q % 2) + 1
      BY <1>1, <1>3, <1>8, <1>9, <2>2, DayParts DEF size
    <3> QED
      BY <1>3, <1>7, <2>2, <3>1
  <2> QED
    BY <2>1, <2>2
<1>13. "carry" \in live.dayHigh \/ total + 1 >= 2 * size
         <=> "carry" \in mid.dayHigh \/ Day(mid) + 1 >= 2 * size
  <2>1. CASE total >= 2 * size
    BY <1>1, <1>2, <1>6, <2>1
  <2>2. CASE total < 2 * size
    <3>1. total = Day(mid)
      <4>1. (total < size => r = total /\ q = 0) /\ (size <= total => r = total - size /\ q = 1)
        BY <1>1, <1>2, <2>2, DayParts DEF q, r, size
      <4> QED
        BY <1>1, <1>2, <1>8, <2>2, <4>1
    <3> QED
      BY <1>1, <1>2, <1>6, <2>2, <3>1
  <2> QED
    BY <1>1, <1>2, <2>1, <2>2
<1>14. ("halt" \in mid.dayHigh <=> "halt" \in live.dayHigh)
       /\ mid.seconds = live.seconds /\ mid.minutes = live.minutes /\ mid.hours = live.hours
  BY DEF mid, AddDays, RtcRegisters
<1> DEFINE left == AddDays(live, days + 1)
           right == AddDays(mid, 1)
<1>15. left \in RtcRegisters /\ right \in RtcRegisters
  BY <1>4, DaysFit
<1>16. left.dayLow = right.dayLow
  BY <1>2, <1>4, <1>11 DEF AddDays, RtcRegisters, size
<1>17. "day8" \in left.dayHigh <=> "day8" \in right.dayHigh
  BY <1>2, <1>4, <1>12 DEF AddDays, RtcRegisters, size
<1>18. "carry" \in left.dayHigh <=> "carry" \in right.dayHigh
  BY <1>2, <1>4, <1>13 DEF AddDays, RtcRegisters, size, DayPeriod
<1>19. "halt" \in left.dayHigh <=> "halt" \in right.dayHigh
  BY <1>4, <1>14 DEF AddDays, RtcRegisters
<1>20. left.dayHigh = right.dayHigh
  BY <1>15, <1>17, <1>18, <1>19 DEF RtcRegisters, DayHighBits
<1>21. left.seconds = right.seconds /\ left.minutes = right.minutes /\ left.hours = right.hours
  BY <1>4, <1>14 DEF AddDays, RtcRegisters
<1> HIDE DEF left, right
<1>22. left = right
  BY <1>15, <1>16, <1>20, <1>21 DEF RtcRegisters
<1> QED
  BY <1>22 DEF left, right, mid

WithCounters(live, s, m, h) == [live EXCEPT !.seconds = s, !.minutes = m, !.hours = h]

\* The days do not read the other counters, nor touch them.
LEMMA DaysApart ==
  ASSUME NEW live \in RtcRegisters, NEW days \in Nat, NEW s, NEW m, NEW h
  PROVE  WithCounters(AddDays(live, days), s, m, h) = AddDays(WithCounters(live, s, m, h), days)
<1>1. Day(WithCounters(live, s, m, h)) = Day(live)
  BY DEF Day, RtcRegisters, WithCounters
<1> QED
  BY <1>1 DEF AddDays, RtcRegisters, WithCounters

\* Catching up on one more second is catching up, and then a second: the
\* arithmetic takes every step that counting would have taken, past the end of
\* every register and of the day counter.
THEOREM AdvanceOneMoreSecond ==
  ASSUME NEW live \in RtcRegisters, NEW count \in Nat
  PROVE  AdvanceSeconds(live, count + 1) = SecondLater(AdvanceSeconds(live, count))
<1> DEFINE before == AdvanceSeconds(live, count)
<1>1. before \in RtcRegisters
  BY AdvanceSecondsFits
<1>2. CASE Halted(live)
  <2>1. before = live /\ AdvanceSeconds(live, count + 1) = live
    BY <1>2 DEF AdvanceSeconds
  <2> QED
    BY <1>2, <2>1 DEF SecondLater
<1>3. CASE ~Halted(live)
  <2> DEFINE s == AdvanceField("seconds", live.seconds, count)
             m == AdvanceField("minutes", live.minutes, s.carry)
             h == AdvanceField("hours", live.hours, m.carry)
             s1 == AdvanceField("seconds", s.value, 1)
             m1 == AdvanceField("minutes", m.value, s1.carry)
             h1 == AdvanceField("hours", h.value, m1.carry)
             s2 == AdvanceField("seconds", live.seconds, count + 1)
             m2 == AdvanceField("minutes", live.minutes, s2.carry)
             h2 == AdvanceField("hours", live.hours, m2.carry)
  <2>1. s.value \in 0..(Span["seconds"] - 1) /\ s.carry \in Nat
    BY FieldFits DEF RtcRegisters, Counters
  <2>2. m.value \in 0..(Span["minutes"] - 1) /\ m.carry \in Nat
    BY <2>1, FieldFits DEF RtcRegisters, Counters
  <2>3. h.value \in 0..(Span["hours"] - 1) /\ h.carry \in Nat
    BY <2>2, FieldFits DEF RtcRegisters, Counters
  <2>4. before = AddDays([live EXCEPT !.seconds = s.value, !.minutes = m.value, !.hours = h.value], h.carry)
    BY <1>3 DEF AdvanceSeconds
  <2>5. AdvanceSeconds(live, count + 1)
          = AddDays([live EXCEPT !.seconds = s2.value, !.minutes = m2.value, !.hours = h2.value], h2.carry)
    BY <1>3 DEF AdvanceSeconds
  <2>6. s2 = [value |-> s1.value, carry |-> s.carry + s1.carry]
    BY FieldOneMore DEF RtcRegisters, Counters
  <2>7. s1.carry \in {0, 1}
    BY <2>1, FieldByOne DEF Counters
  <2> HIDE DEF s, s1, s2
  <2>8. m2 = [value |-> m1.value, carry |-> m.carry + m1.carry] /\ m1.carry \in {0, 1}
    <3>1. CASE s1.carry = 1
      <4>1. m2 = AdvanceField("minutes", live.minutes, s.carry + 1)
        BY <2>6, <3>1
      <4>2. m2 = [value |-> m1.value, carry |-> m.carry + m1.carry]
        BY <2>1, <3>1, <4>1, FieldOneMore DEF RtcRegisters, Counters
      <4> QED
        BY <2>2, <3>1, <4>2, FieldByOne DEF Counters
    <3>2. CASE s1.carry = 0
      <4>1. m2 = m
        BY <2>1, <2>6, <3>2
      <4>2. m1 = [value |-> m.value, carry |-> 0]
        BY <2>2, <3>2, FieldByNone DEF Counters
      <4>3. m = [value |-> m.value, carry |-> m.carry]
        BY DEF AdvanceField, CountOn
      <4> QED
        BY <2>2, <4>1, <4>2, <4>3
    <3> QED
      BY <2>7, <3>1, <3>2
  <2> HIDE DEF m, m1, m2
  <2>9. h2 = [value |-> h1.value, carry |-> h.carry + h1.carry] /\ h1.carry \in {0, 1}
    <3>1. CASE m1.carry = 1
      <4>1. h2 = AdvanceField("hours", live.hours, m.carry + 1)
        BY <2>8, <3>1
      <4>2. h2 = [value |-> h1.value, carry |-> h.carry + h1.carry]
        BY <2>2, <3>1, <4>1, FieldOneMore DEF RtcRegisters, Counters
      <4> QED
        BY <2>3, <3>1, <4>2, FieldByOne DEF Counters
    <3>2. CASE m1.carry = 0
      <4>1. h2 = h
        BY <2>2, <2>8, <3>2
      <4>2. h1 = [value |-> h.value, carry |-> 0]
        BY <2>3, <3>2, FieldByNone DEF Counters
      <4>3. h = [value |-> h.value, carry |-> h.carry]
        BY DEF AdvanceField, CountOn
      <4> QED
        BY <2>3, <4>1, <4>2, <4>3
    <3> QED
      BY <2>8, <3>1, <3>2
  <2> HIDE DEF h, h1, h2
  <2> DEFINE counted == [live EXCEPT !.seconds = s1.value, !.minutes = m1.value, !.hours = h1.value]
             earlier == [live EXCEPT !.seconds = s.value, !.minutes = m.value, !.hours = h.value]
  <2>10. /\ s1.value \in 0..(Span["seconds"] - 1)
         /\ m1.value \in 0..(Span["minutes"] - 1)
         /\ h1.value \in 0..(Span["hours"] - 1)
    <3>1. s1.value \in 0..(Span["seconds"] - 1)
      BY <2>1, FieldFits DEF Counters, s1
    <3>2. m1.value \in 0..(Span["minutes"] - 1)
      BY <2>2, <2>7, FieldFits DEF Counters, m1
    <3>3. h1.value \in 0..(Span["hours"] - 1)
      BY <2>3, <2>8, FieldFits DEF Counters, h1
    <3> QED
      BY <3>1, <3>2, <3>3
  <2>11. counted \in RtcRegisters /\ earlier \in RtcRegisters
    BY <2>1, <2>2, <2>3, <2>10 DEF RtcRegisters
  <2>12. before.seconds = s.value /\ before.minutes = m.value /\ before.hours = h.value /\ ~Halted(before)
    BY <1>3, <2>4, <2>11 DEF AddDays, Halted, RtcRegisters
  <2>13. AdvanceSeconds(before, 1)
           = AddDays([before EXCEPT !.seconds = s1.value, !.minutes = m1.value, !.hours = h1.value], h1.carry)
    BY <2>12 DEF AdvanceSeconds, s1, m1, h1
  <2>14. [before EXCEPT !.seconds = s1.value, !.minutes = m1.value, !.hours = h1.value]
           = AddDays(counted, h.carry)
    <3>1. WithCounters(earlier, s1.value, m1.value, h1.value) = counted
      BY <2>11 DEF RtcRegisters, WithCounters
    <3>2. before = AddDays(earlier, h.carry)
      BY <2>4
    <3> HIDE DEF counted, earlier, before
    <3>3. WithCounters(before, s1.value, m1.value, h1.value) = AddDays(counted, h.carry)
      BY <2>3, <2>11, <3>1, <3>2, DaysApart
    <3> QED
      BY <3>3 DEF WithCounters
  <2>15. AdvanceSeconds(live, count + 1) = AddDays(counted, h.carry + h1.carry)
    BY <2>5, <2>6, <2>8, <2>9
  <2> HIDE DEF counted, earlier, before
  <2>16. AddDays(counted, h.carry + h1.carry) = AddDays(AddDays(counted, h.carry), h1.carry)
    <3>1. CASE h1.carry = 1
      BY <2>3, <2>11, <3>1, DaysOneMore
    <3>2. CASE h1.carry = 0
      BY <2>3, <2>11, <3>2, DaysFit, NoDays
    <3> QED
      BY <2>9, <3>1, <3>2
  <2> QED
    BY <1>1, <2>13, <2>14, <2>15, <2>16, AdvanceOneSecond DEF before
<1> QED
  BY <1>2, <1>3

\* No seconds are no change.
LEMMA AdvanceNoSeconds ==
  ASSUME NEW live \in RtcRegisters
  PROVE  AdvanceSeconds(live, 0) = live
<1> DEFINE s == AdvanceField("seconds", live.seconds, 0)
           m == AdvanceField("minutes", live.minutes, s.carry)
           h == AdvanceField("hours", live.hours, m.carry)
<1>1. AdvanceSeconds(live, 0) = IF Halted(live) THEN live
        ELSE AddDays([live EXCEPT !.seconds = s.value, !.minutes = m.value, !.hours = h.value], h.carry)
  BY DEF AdvanceSeconds
<1>2. /\ s = [value |-> live.seconds, carry |-> 0]
      /\ m = [value |-> live.minutes, carry |-> 0]
      /\ h = [value |-> live.hours, carry |-> 0]
  BY FieldByNone DEF RtcRegisters, Counters
<1> HIDE DEF s, m, h
<1>3. [live EXCEPT !.seconds = live.seconds, !.minutes = live.minutes, !.hours = live.hours] = live
  BY DEF RtcRegisters
<1> QED
  BY <1>1, <1>2, <1>3, NoDays

\* advanceSeconds(n) leaves the registers where n seconds counted one by one
\* do: for every width of the registers, every state of them and every n.
THEOREM CatchUpIsCounting ==
  ASSUME NEW live \in RtcRegisters, NEW n \in Nat
  PROVE  \A k \in 0..n : AdvanceSeconds(live, k) = SecondBySecond(live, n)[k]
<1> DEFINE Counting(after) ==
      after = [k \in 0..n |-> IF k = 0 THEN live ELSE SecondLater(after[k - 1])]
           direct == [k \in 0..n |-> AdvanceSeconds(live, k)]
           after == SecondBySecond(live, n)
<1>1. Counting(direct)
  <2>1. ASSUME NEW k \in 0..n
        PROVE  AdvanceSeconds(live, k) = IF k = 0 THEN live ELSE SecondLater(direct[k - 1])
    <3>1. CASE k = 0
      BY <3>1, AdvanceNoSeconds
    <3>2. CASE k # 0
      <4>1. k - 1 \in 0..n /\ k - 1 \in Nat /\ k = (k - 1) + 1
        BY <3>2
      <4>2. AdvanceSeconds(live, (k - 1) + 1) = SecondLater(AdvanceSeconds(live, k - 1))
        BY <4>1, AdvanceOneMoreSecond
      <4> QED
        BY <3>2, <4>1, <4>2
    <3> QED
      BY <3>1, <3>2
  <2> QED
    BY <2>1
<1>2. Counting(after)
  BY <1>1 DEF SecondBySecond
<1> DEFINE Wrong == {k \in 0..n : AdvanceSeconds(live, k) # after[k]}
<1>3. SUFFICES ASSUME Wrong # {} PROVE FALSE
  OBVIOUS
<1>4. Wrong \in SUBSET Nat
  OBVIOUS
<1> HIDE DEF after
<1>5. PICK k \in Wrong : \A j \in Wrong : k <= j
  BY <1>3, <1>4, LeastElement
<1>6. CASE k = 0
  BY <1>2, <1>5, <1>6, AdvanceNoSeconds
<1>7. CASE k # 0
  <2>1. k - 1 \in 0..n /\ k - 1 \in Nat /\ k = (k - 1) + 1 /\ k \in 0..n
    BY <1>5, <1>7
  <2>2. AdvanceSeconds(live, k - 1) = after[k - 1]
    BY <1>5, <2>1
  <2>3. after[k] = SecondLater(after[k - 1])
    BY <1>2, <1>7, <2>1
  <2>4. AdvanceSeconds(live, (k - 1) + 1) = SecondLater(AdvanceSeconds(live, k - 1))
    BY <2>1, AdvanceOneMoreSecond
  <2>5. AdvanceSeconds(live, k) = after[k]
    BY <2>1, <2>2, <2>3, <2>4
  <2> QED
    BY <1>5, <2>5
<1> QED
  BY <1>6, <1>7


-----------------------------------------------------------------------------
(* The clock keeps to its widths.                                          *)

LEMMA NewClockFits == NewClock \in Clocks
<1>1. ZeroRegisters \in RtcRegisters
  BY RtcAssumption DEF RtcAssumption, ZeroRegisters, RtcRegisters, Counters
<1>2. 0 \in 0..(TicksPerSecond - 1)
  BY RtcAssumption DEF RtcAssumption
<1> QED
  BY <1>1, <1>2 DEF NewClock, Clocks

LEMMA TickFits ==
  ASSUME NEW clock \in Clocks
  PROVE  TickClock(clock) \in Clocks
<1>1. clock.live \in RtcRegisters /\ clock.ticks \in 0..(TicksPerSecond - 1)
  BY DEF Clocks
<1>2. AdvanceSeconds(clock.live, 1) \in RtcRegisters
  BY <1>1, AdvanceSecondsFits
<1>3. 0 \in 0..(TicksPerSecond - 1) /\ TicksPerSecond \in Nat
  BY RtcAssumption DEF RtcAssumption
<1>4. CASE Halted(clock.live)
  BY <1>4 DEF TickClock
<1>5. CASE ~Halted(clock.live) /\ clock.ticks + 1 < TicksPerSecond
  <2>1. clock.ticks + 1 \in 0..(TicksPerSecond - 1)
    BY <1>1, <1>3, <1>5
  <2> QED
    BY <1>1, <1>5, <2>1 DEF TickClock, Clocks
<1>6. CASE ~Halted(clock.live) /\ ~(clock.ticks + 1 < TicksPerSecond)
  BY <1>2, <1>3, <1>6 DEF TickClock, Clocks
<1> QED
  BY <1>4, <1>5, <1>6

\* A register of `size' values after a mask.
LEMMA MaskFits ==
  ASSUME NEW value \in Nat, NEW size \in Nat \ {0}
  PROVE  value % size \in 0..(size - 1)
  BY Z3

LEMMA SpansArePositive ==
  /\ \A f \in Counters : Span[f] \in Nat \ {0}
  /\ DayLowSize \in Nat \ {0}
  BY RtcAssumption DEF RtcAssumption

AnyRegisters == [seconds : Nat, minutes : Nat, hours : Nat, dayLow : 0..(DayLowSize - 1),
                 dayHigh : SUBSET DayHighByte]

LEMMA NarrowedFits ==
  ASSUME NEW regs \in AnyRegisters
  PROVE  Narrowed(regs) \in RtcRegisters
<1>1. /\ regs.seconds % Span["seconds"] \in 0..(Span["seconds"] - 1)
      /\ regs.minutes % Span["minutes"] \in 0..(Span["minutes"] - 1)
      /\ regs.hours % Span["hours"] \in 0..(Span["hours"] - 1)
  BY SpansArePositive, MaskFits DEF AnyRegisters, Counters
<1> QED
  BY <1>1 DEF AnyRegisters, Narrowed, RtcRegisters

LEMMA SetStateFits ==
  ASSUME NEW live \in AnyRegisters, NEW latched \in AnyRegisters
  PROVE  SetState(live, latched) \in Clocks
<1>1. 0 \in 0..(TicksPerSecond - 1)
  BY RtcAssumption DEF RtcAssumption
<1> QED
  BY <1>1, NarrowedFits DEF SetState, Clocks

LEMMA RegistersAreAny == RtcRegisters \subseteq AnyRegisters
  BY SpansArePositive DEF RtcRegisters, AnyRegisters, DayHighByte, Counters

LEMMA FileRegistersAreAny == FileRegisters \subseteq AnyRegisters
  BY DEF FileRegisters, AnyRegisters, Bytes

LEMMA WriteFits ==
  ASSUME NEW clock \in Clocks, NEW reg \in Counters \cup {"dayLow", "dayHigh"},
         NEW value, reg # "dayHigh" => value \in Nat
  PROVE  WriteRegister(clock, reg, value) \in Clocks
<1>1. clock.live \in RtcRegisters /\ clock.latched \in RtcRegisters /\ clock.ticks \in 0..(TicksPerSecond - 1)
  BY DEF Clocks
<1>2. 0 \in 0..(TicksPerSecond - 1)
  BY RtcAssumption DEF RtcAssumption
<1>3. CASE reg \in Counters
  <2>1. value % Span[reg] \in 0..(Span[reg] - 1)
    BY <1>3, SpansArePositive, MaskFits DEF Counters
  <2>2. CASE reg = "seconds"
    <3>1. WriteRegister(clock, reg, value)
            = [clock EXCEPT !.live.seconds = value % Span["seconds"], !.ticks = 0]
      BY <2>2 DEF WriteRegister
    <3> QED
      BY <1>1, <1>2, <2>1, <2>2, <3>1 DEF Clocks, RtcRegisters
  <2>3. CASE reg = "minutes"
    <3>1. WriteRegister(clock, reg, value) = [clock EXCEPT !.live.minutes = value % Span["minutes"]]
      BY <2>3 DEF WriteRegister
    <3> QED
      BY <1>1, <2>1, <2>3, <3>1 DEF Clocks, RtcRegisters
  <2>4. CASE reg = "hours"
    <3>1. WriteRegister(clock, reg, value) = [clock EXCEPT !.live.hours = value % Span["hours"]]
      BY <2>4 DEF WriteRegister
    <3> QED
      BY <1>1, <2>1, <2>4, <3>1 DEF Clocks, RtcRegisters
  <2> QED
    BY <1>3, <2>2, <2>3, <2>4 DEF Counters
<1>4. CASE reg = "dayLow"
  <2>1. value % DayLowSize \in 0..(DayLowSize - 1)
    BY <1>4, SpansArePositive, MaskFits
  <2>2. WriteRegister(clock, reg, value) = [clock EXCEPT !.live.dayLow = value % DayLowSize]
    BY <1>4 DEF WriteRegister
  <2> QED
    BY <1>1, <2>1, <2>2 DEF Clocks, RtcRegisters
<1>5. CASE reg = "dayHigh"
  <2>1. WriteRegister(clock, reg, value) = [clock EXCEPT !.live.dayHigh = value \cap DayHighBits]
    BY <1>5 DEF WriteRegister
  <2> QED
    BY <1>1, <2>1 DEF Clocks, RtcRegisters
<1> QED
  BY <1>3, <1>4, <1>5

-----------------------------------------------------------------------------
(* The controllers keep to theirs.                                         *)

LEMMA ControlFits ==
  ASSUME NEW cart, cart.regs \in Registers, NEW address \in RomSpace, NEW byte \in Bytes
  PROVE  Control(cart, address, byte) \in Registers
<1> DEFINE regs == cart.regs
<1>1. /\ byte % 32 \in Bytes /\ byte % 4 \in 0..3 /\ byte % 16 \in 0..15 /\ byte % 128 \in Bytes
      /\ byte % 2 \in 0..3 /\ byte % 8 \in 0..15 /\ byte % 16 \in Bytes
  BY DEF Bytes
<1>2. ZeroIsOne(byte % 16) \in Bytes /\ ZeroIsOne(byte % 128) \in Bytes
  BY <1>1 DEF ZeroIsOne, Bytes
<1>3. Enables(byte) \in BOOLEAN /\ (byte % 2 = 1) \in BOOLEAN
  BY DEF Enables
<1>4. Mbc1Control(regs, address, byte) \in Registers
  <2> DEFINE enables == Enables(byte)
             mode == (byte % 2 = 1)
  <2>1. enables \in BOOLEAN /\ mode \in BOOLEAN
    BY <1>3
  <2>2. Mbc1Control(regs, address, byte) \in
          {[regs EXCEPT !.ramEnabled = enables], [regs EXCEPT !.romBank = byte % 32],
           [regs EXCEPT !.high = byte % 4], [regs EXCEPT !.mode1 = mode]}
    BY DEF Mbc1Control
  <2> HIDE DEF enables, mode
  <2> QED
    BY <1>1, <2>1, <2>2 DEF Registers
<1>5. Mbc2Control(regs, address, byte) \in Registers
  BY <1>2, <1>3 DEF Mbc2Control, Registers
<1>6. Mbc3Control(regs, address, byte) \in Registers
  BY <1>1, <1>2, <1>3 DEF Mbc3Control, Registers
<1>7. ASSUME NEW rumble \in BOOLEAN
      PROVE  Mbc5Control(regs, address, byte, rumble) \in Registers
  <2> DEFINE select == byte % (IF rumble THEN 8 ELSE 16)
  <2>1. select \in 0..15
    BY <1>1
  <2>2. Mbc5Control(regs, address, byte, rumble) \in
          {[regs EXCEPT !.ramEnabled = Enables(byte)], [regs EXCEPT !.romBank = byte],
           [regs EXCEPT !.high = byte % 2], [regs EXCEPT !.ramSelect = select], regs}
    BY DEF Mbc5Control
  <2> HIDE DEF select
  <2> QED
    BY <1>1, <1>3, <2>1, <2>2 DEF Registers
<1>8. Rumble(cart.header) \in BOOLEAN
  BY DEF Rumble
<1> QED
  BY <1>4, <1>5, <1>6, <1>7, <1>8 DEF Control

LEMMA HeaderFacts ==
  ASSUME NEW h \in Headers, Loads(h)
  PROVE  /\ RomBanks(h) \in Nat \ {0}
         /\ RamBanks(h) \in Nat
         /\ RamSize(h) = IF Kind(h.type) = "Mbc2" THEN 512 ELSE RamBanks(h) * RamBankSize
         /\ RamSize(h) \in Nat
<1>1. h.romCode \in 0..8
  BY HeadersAssumption DEF Loads, Bytes
<1>2. RomBanks(h) \in Nat \ {0}
  BY <1>1 DEF RomBanks
<1>3. RamBanks(h) \in Nat
  BY DEF RamBanks, RamBanksFor
<1> QED
  BY <1>2, <1>3 DEF RamSize, RamBankSize

\* A masked bank is one of the banks there are.
LEMMA MaskedInside ==
  ASSUME NEW bank \in Nat, NEW count \in Nat \ {0}
  PROVE  Masked(bank, count) \in 0..(count - 1)
  BY MaskFits DEF Masked

LEMMA RomInside ==
  ASSUME NEW cart, cart.header \in Headers, Loads(cart.header), cart.regs \in Registers,
         NEW address \in RomSpace
  PROVE  RomOffset(cart, address) \in 0..(RomBanks(cart.header) * RomBankSize - 1)
<1> DEFINE banks == RomBanks(cart.header)
           bank == RomBank(cart, address)
<1>1. banks \in Nat \ {0}
  BY HeaderFacts
<1>2. bank \in Nat
  <2>1. Mbc1RomBank(cart, address) \in Nat
    <3> DEFINE low == IF cart.regs.romBank = 0 THEN 1 ELSE cart.regs.romBank
    <3>1. cart.regs.high \in Nat /\ low \in Nat
      BY DEF Registers, Bytes
    <3> HIDE DEF low
    <3>2. cart.regs.high * 16 \in Nat /\ cart.regs.high * 32 \in Nat /\ low % 16 \in Nat
      BY <3>1
    <3>3. Mbc1RomBank(cart, address) \in
            {cart.regs.high * (IF Multicart(cart.header) THEN 16 ELSE 32), 0,
             cart.regs.high * (IF Multicart(cart.header) THEN 16 ELSE 32)
               + (IF Multicart(cart.header) THEN low % 16 ELSE low)}
      BY DEF Mbc1RomBank, low
    <3> QED
      BY <3>1, <3>2, <3>3
  <2>2. cart.regs.romBank \in Nat /\ 256 * cart.regs.high + cart.regs.romBank \in Nat
    <3>1. cart.regs.romBank \in Nat /\ cart.regs.high \in Nat
      BY DEF Registers, Bytes
    <3> QED
      BY <3>1
  <2> QED
    BY <2>1, <2>2 DEF RomBank
<1>3. Masked(bank, banks) \in 0..(banks - 1)
  BY <1>1, <1>2, MaskedInside
<1>4. address % 16384 \in Nat /\ address % 16384 < 16384
  BY DEF RomSpace
<1>5. RomOffset(cart, address) = Masked(bank, banks) * 16384 + (address % 16384)
  BY DEF RomOffset, RomBankSize
<1> HIDE DEF banks, bank
<1>6. RomOffset(cart, address) \in 0..(banks * 16384 - 1)
  BY <1>1, <1>3, <1>4, <1>5
<1> QED
  BY <1>6 DEF banks, RomBankSize

LEMMA RamInside ==
  ASSUME NEW cart, cart.header \in Headers, Loads(cart.header), cart.regs \in Registers,
         RamReachable(cart), NEW address \in RamSpace
  PROVE  RamOffset(cart, address) \in 0..(RamSize(cart.header) - 1)
<1> DEFINE banks == RamBanks(cart.header)
<1>1. address - \hA000 \in Nat /\ address - \hA000 < 8192
  BY DEF RamSpace
<1>2. CASE KindOf(cart) = "Mbc2"
  <2>1. RamSize(cart.header) = 512 /\ RamOffset(cart, address) = (address - \hA000) % 512
    BY <1>2, HeaderFacts DEF KindOf, RamOffset
  <2> QED
    BY <1>1, <2>1
<1>3. CASE KindOf(cart) # "Mbc2"
  <2>1. RamSize(cart.header) = banks * 8192 /\ banks \in Nat
    BY <1>3, HeaderFacts DEF KindOf, RamBankSize
  <2>2. banks \in Nat \ {0}
    BY <2>1 DEF RamReachable
  <2>3. RamBank(cart) \in 0..(banks - 1)
    <3> DEFINE number == IF KindOf(cart) # "Mbc1" THEN cart.regs.ramSelect
                         ELSE IF cart.regs.mode1 THEN cart.regs.high ELSE 0
    <3>1. number \in Nat
      BY DEF Registers
    <3>2. RamBank(cart) = Masked(number, banks)
      BY DEF RamBank
    <3> HIDE DEF number, banks
    <3> QED
      BY <2>2, <3>1, <3>2, MaskedInside
  <2>4. RamOffset(cart, address) = RamBank(cart) * 8192 + (address - \hA000)
    BY <1>3 DEF RamOffset, RamBankSize
  <2> DEFINE bank == RamBank(cart)
             offset == address - \hA000
  <2>5. bank \in 0..(banks - 1) /\ offset \in Nat /\ offset < 8192
    BY <1>1, <2>3
  <2>6. RamOffset(cart, address) = bank * 8192 + offset
    BY <2>4
  <2> HIDE DEF banks, bank, offset
  <2>7. RamOffset(cart, address) \in 0..(banks * 8192 - 1)
    BY <2>2, <2>5, <2>6
  <2> QED
    BY <2>1, <2>7
<1> QED
  BY <1>2, <1>3

-----------------------------------------------------------------------------
(* The invariant: both cartridges are of their types, the pristine one is  *)
(* as it was loaded, and the machine's controller points at its own RAM.   *)

IInv ==
  /\ TypeOK
  /\ PristineIsAsLoaded
  /\ Running => machine.bound = "machine"

LEMMA LoadedIsCartridge ==
  ASSUME NEW h \in Headers, Loads(h), NEW owner
  PROVE  /\ IsCartridge(Owned(Loaded(h), owner))
         /\ Owned(Loaded(h), owner).header = h
         /\ Owned(Loaded(h), owner).bound = owner
         /\ Owned(Loaded(h), owner) # NoCart
<1> DEFINE cart == Owned(Loaded(h), owner)
<1>1. cart = [header |-> h, regs |-> PowerOnRegisters(h), ram |-> NoRam, bound |-> owner,
              clock |-> NewClock]
  BY DEF Owned, Loaded
<1>2. PowerOnRegisters(h) \in Registers
  BY DEF PowerOnRegisters, Registers, Bytes
<1>3. DOMAIN NoRam = {}
  BY DEF NoRam
<1> QED
  BY <1>1, <1>2, <1>3, NewClockFits DEF IsCartridge, NoCart

LEMMA InitIsSafe == Init => IInv
  BY DEF Init, IInv, TypeOK, PristineIsAsLoaded, Running

\* A machine whose RAM and clock are of its type takes the place of one.
LEMMA MachineStays ==
  ASSUME IInv, Running, pristine' = pristine,
         NEW regs \in Registers, NEW clock \in Clocks,
         machine' = [machine EXCEPT !.regs = regs, !.clock = clock]
  PROVE  IInv'
<1>1. IsCartridge(machine')
  BY DEF IInv, TypeOK, IsCartridge
<1>2. machine' # NoCart /\ machine'.bound = "machine" /\ machine'.header = machine.header
  BY DEF IInv, TypeOK, IsCartridge, NoCart, Running
<1> QED
  BY <1>1, <1>2 DEF IInv, TypeOK, PristineIsAsLoaded, IsCartridge, Running

\* A clock with the registers of a file, caught up.
LEMMA RestoredFits ==
  ASSUME NEW cart, IsCartridge(cart), NEW live \in AnyRegisters, NEW latched \in AnyRegisters,
         NEW elapsed \in Nat, NEW ram, DOMAIN ram \subseteq 0..(RamSize(cart.header) - 1)
  PROVE  LET restored == Restored(cart, ram, live, latched, elapsed)
         IN  /\ IsCartridge(restored)
             /\ restored.header = cart.header
             /\ restored.bound = cart.bound
             /\ restored # NoCart
<1> DEFINE clock == SetState(live, latched)
           caught == [clock EXCEPT !.live = AdvanceSeconds(@, elapsed)]
           kept == IF HasTimer(cart.header) THEN caught ELSE cart.clock
<1>1. clock \in Clocks
  BY SetStateFits
<1> HIDE DEF clock
<1>2. AdvanceSeconds(clock.live, elapsed) \in RtcRegisters
  BY <1>1, AdvanceSecondsFits DEF Clocks
<1>3. caught \in Clocks
  BY <1>1, <1>2 DEF Clocks
<1>4. kept \in Clocks
  BY <1>3 DEF IsCartridge
<1>5. Restored(cart, ram, live, latched, elapsed) = [cart EXCEPT !.ram = ram, !.clock = kept]
  BY DEF Restored, clock, IsCartridge
<1> HIDE DEF kept
<1> QED
  BY <1>4, <1>5 DEF IsCartridge, NoCart

\* A machine beside a pristine image of the same ROM.
LEMMA PairIsSafe ==
  ASSUME NEW h \in Headers, Loads(h),
         pristine' = Owned(Loaded(h), "pristine"),
         IsCartridge(machine'), machine'.header = h, machine'.bound = "machine", machine' # NoCart
  PROVE  IInv'
  BY LoadedIsCartridge DEF IInv, TypeOK, PristineIsAsLoaded, Running

LEMMA NextIsSafe == IInv /\ [Next]_vars => IInv'
<1> SUFFICES ASSUME IInv, [Next]_vars PROVE IInv'
  OBVIOUS
<1>1. ASSUME Running
      PROVE  /\ IsCartridge(machine) /\ IsCartridge(pristine)
             /\ pristine.header = machine.header /\ pristine # NoCart
             /\ pristine = Owned(Loaded(machine.header), "pristine")
             /\ machine.bound = "machine"
  BY <1>1 DEF IInv, TypeOK, PristineIsAsLoaded, Running
<1>2. ASSUME NEW cart, IsCartridge(cart)
      PROVE  /\ cart.header \in Headers /\ Loads(cart.header) /\ cart.regs \in Registers
             /\ cart.clock \in Clocks
             /\ cart.clock.live \in AnyRegisters /\ cart.clock.latched \in AnyRegisters
             /\ DOMAIN cart.ram \subseteq 0..(RamSize(cart.header) - 1)
  BY <1>2, RegistersAreAny DEF IsCartridge, Clocks
<1>3. CASE OpenRom
  <2>1. PICK h \in Headers :
          IF Loads(h)
          THEN pristine' = Owned(Loaded(h), "pristine") /\ machine' = Owned(Loaded(h), "machine")
          ELSE pristine' = NoCart /\ machine' = NoCart
    BY <1>3 DEF OpenRom
  <2>2. CASE Loads(h)
    BY <2>1, <2>2, LoadedIsCartridge, PairIsSafe
  <2>3. CASE ~Loads(h)
    BY <2>1, <2>3 DEF IInv, TypeOK, PristineIsAsLoaded, Running
  <2> QED
    BY <2>2, <2>3
<1>4. CASE OpenForeignSave
  <2>1. PICK h \in Headers, footer \in Footers, elapsed \in Elapsed :
          /\ Loads(h)
          /\ pristine' = Owned(Loaded(h), "pristine")
          /\ machine' = Restored(Owned(Loaded(h), "machine"), NoRam, footer.live, footer.latched, elapsed)
    BY <1>4 DEF OpenForeignSave
  <2>2. footer.live \in AnyRegisters /\ footer.latched \in AnyRegisters
    BY FootersAssumption, FileRegistersAreAny DEF FootersAssumption
  <2>4. elapsed \in Nat
    BY ElapsedAssumption DEF ElapsedAssumption
  <2>3. DOMAIN NoRam \subseteq 0..(RamSize(h) - 1)
    BY DEF NoRam
  <2> QED
    BY <2>1, <2>2, <2>3, <2>4, LoadedIsCartridge, RestoredFits, PairIsSafe
<1>5. CASE PowerCycle
  <2>1. PICK elapsed \in Elapsed :
          /\ Running
          /\ pristine' = Owned(Loaded(machine.header), "pristine")
          /\ machine' = Restored(Owned(Loaded(machine.header), "machine"), machine.ram,
                                 machine.clock.live, machine.clock.latched, elapsed)
    BY <1>5 DEF PowerCycle
  <2>2. elapsed \in Nat
    BY ElapsedAssumption DEF ElapsedAssumption
  <2> QED
    BY <1>1, <1>2, <2>1, <2>2, LoadedIsCartridge, RestoredFits, PairIsSafe
<1>6. CASE Reset
  <2> DEFINE ram == IF HasBattery(machine.header) THEN machine.ram ELSE pristine.ram
             clock == IF HasTimer(machine.header)
                      THEN SetState(machine.clock.live, machine.clock.latched) ELSE pristine.clock
  <2>1. Running /\ UNCHANGED pristine
    BY <1>6 DEF Reset
  <2>2. machine' = [header |-> machine.header, regs |-> pristine.regs, ram |-> ram,
                    bound |-> "machine", clock |-> clock]
    BY <1>1, <1>6, <2>1 DEF Reset, Kept, Owned, IsCartridge
  <2>3. clock \in Clocks
    BY <1>1, <1>2, <2>1, SetStateFits
  <2>4. DOMAIN ram \subseteq 0..(RamSize(machine.header) - 1)
    BY <1>1, <1>2, <2>1
  <2> HIDE DEF ram, clock
  <2>5. IsCartridge(machine')
    BY <1>1, <1>2, <2>1, <2>2, <2>3, <2>4 DEF IsCartridge
  <2>6. machine' # NoCart /\ machine'.header = machine.header /\ machine'.bound = "machine"
    BY <2>2 DEF NoCart
  <2> QED
    BY <1>1, <1>2, <2>1, <2>5, <2>6, PairIsSafe
<1>7. CASE Tick
  <2>1. Running /\ UNCHANGED pristine /\ machine' = [machine EXCEPT !.clock = TickClock(machine.clock)]
    BY <1>7 DEF Tick
  <2>2. machine' = [machine EXCEPT !.regs = machine.regs, !.clock = TickClock(machine.clock)]
    BY <1>1, <2>1 DEF IsCartridge
  <2> QED
    BY <1>1, <1>2, <2>1, <2>2, TickFits, MachineStays
<1>8. CASE ControlWrite
  <2>1. Running /\ UNCHANGED pristine
    BY <1>8 DEF ControlWrite
  <2>2. PICK write \in ControlWrites[machine.header] :
          machine' = Controlled(machine, write[1], write[2])
    BY <1>8 DEF ControlWrite
  <2>3. write[1] \in RomSpace /\ write[2] \in Bytes
    BY <1>1, <1>2, <2>1, <2>2, ControlWritesAssumption DEF ControlWritesAssumption
  <2> DEFINE regs == Control(machine, write[1], write[2])
             clock == IF HasTimer(machine.header) /\ write[1] >= \h6000
                      THEN Latch(machine.clock) ELSE machine.clock
  <2>4. regs \in Registers
    BY <1>1, <1>2, <2>1, <2>3, ControlFits
  <2>5. machine.clock \in Clocks
    BY <1>1, <1>2, <2>1
  <2>6. Latch(machine.clock) \in Clocks
    BY <2>5 DEF Latch, Clocks
  <2>7. clock \in Clocks
    BY <2>5, <2>6
  <2>8. machine' = [machine EXCEPT !.regs = regs, !.clock = clock]
    BY <1>1, <2>1, <2>2 DEF Controlled, IsCartridge
  <2> HIDE DEF regs, clock
  <2> QED
    BY <2>1, <2>4, <2>7, <2>8, MachineStays
<1>9. CASE ClockWrite
  <2> DEFINE reg == <<"seconds", "minutes", "hours", "dayLow", "dayHigh">>[machine.regs.ramSelect - 7]
  <2>1. Running /\ UNCHANGED pristine /\ machine.regs.ramSelect \in 8..12
    BY <1>9 DEF ClockWrite, ClockSelected
  <2>2. PICK value \in (IF reg = "dayHigh" THEN DayHighWrites ELSE ClockWrites[reg]) :
          machine' = [machine EXCEPT !.clock = WriteRegister(machine.clock, reg, value)]
    BY <1>9 DEF ClockWrite
  <2>3. reg \in Counters \cup {"dayLow", "dayHigh"}
    BY <2>1 DEF Counters
  <2>4. reg # "dayHigh" => value \in Nat
    BY <2>2, <2>3, ClockWritesAssumption DEF ClockWritesAssumption, Bytes
  <2> HIDE DEF reg
  <2>5. WriteRegister(machine.clock, reg, value) \in Clocks
    BY <1>1, <1>2, <2>1, <2>3, <2>4, WriteFits
  <2>6. machine' = [machine EXCEPT !.regs = machine.regs, !.clock = WriteRegister(machine.clock, reg, value)]
    BY <1>1, <2>1, <2>2 DEF IsCartridge
  <2> QED
    BY <1>1, <1>2, <2>1, <2>5, <2>6, MachineStays
<1>10. CASE RamWrite
  <2>1. PICK address \in RamAddresses, byte \in RamBytes :
          /\ Running
          /\ RamReachable(machine)
          /\ LET cell == RamOffset(machine, address)
                 value == IF KindOf(machine) = "Mbc2" THEN byte % 16 ELSE byte
             IN  /\ machine' = IF machine.bound = "machine"
                               THEN [machine EXCEPT !.ram = Stored(@, cell, value)] ELSE machine
                 /\ pristine' = IF machine.bound = "pristine"
                                THEN [pristine EXCEPT !.ram = Stored(@, cell, value)] ELSE pristine
    BY <1>10 DEF RamWrite
  <2> DEFINE cell == RamOffset(machine, address)
             value == IF KindOf(machine) = "Mbc2" THEN byte % 16 ELSE byte
             ram == Stored(machine.ram, cell, value)
  <2>2. pristine' = pristine /\ machine' = [machine EXCEPT !.ram = ram]
    BY <1>1, <2>1
  <2>3. cell \in 0..(RamSize(machine.header) - 1)
    BY <1>1, <1>2, <2>1, AddressesAssumption, RamInside DEF AddressesAssumption
  <2>4. DOMAIN ram \subseteq 0..(RamSize(machine.header) - 1)
    BY <1>1, <1>2, <2>1, <2>3 DEF Stored
  <2> HIDE DEF ram, cell, value
  <2>5. /\ IsCartridge(machine') /\ machine' # NoCart
        /\ machine'.header = machine.header /\ machine'.bound = "machine"
    BY <1>1, <2>1, <2>2, <2>4 DEF IsCartridge, NoCart
  <2> QED
    BY <1>1, <1>2, <2>1, <2>2, <2>5, PairIsSafe
<1>11. CASE UNCHANGED vars
  BY <1>11 DEF vars, IInv, TypeOK, PristineIsAsLoaded, Running
<1> QED
  BY <1>3, <1>4, <1>5, <1>6, <1>7, <1>8, <1>9, <1>10, <1>11 DEF Next

THEOREM Invariance == Spec => []IInv
  BY InitIsSafe, NextIsSafe, PTL DEF Spec

\* Registers, clock and RAM keep to the widths of their chips (TypeOK).
THEOREM TypeCorrect == Spec => []TypeOK
<1>1. IInv => TypeOK
  BY DEF IInv
<1> QED
  BY <1>1, Invariance, PTL

\* No program and no header makes an access leave the ROM or the RAM.
THEOREM AccessesStayInsideAlways == Spec => []AccessesStayInside
<1>1. IInv => AccessesStayInside
  <2> SUFFICES ASSUME IInv, Running PROVE AccessesStayInside
    BY DEF AccessesStayInside
  <2>1. /\ machine.header \in Headers /\ Loads(machine.header)
        /\ machine.regs \in Registers /\ machine.bound = "machine"
    BY DEF IInv, TypeOK, IsCartridge
  <2>2. RomAddresses \subseteq RomSpace /\ RamAddresses \subseteq RamSpace
    BY AddressesAssumption DEF AddressesAssumption
  <2>3. ASSUME NEW a \in RomAddresses
        PROVE  RomOffset(machine, a) \in 0..(RomBanks(machine.header) * RomBankSize - 1)
    BY <2>1, <2>2, RomInside
  <2>4. ASSUME NEW a \in RamAddresses, RamReachable(machine)
        PROVE  RamOffset(machine, a) \in 0..(RamSize(machine.header) - 1)
    BY <2>1, <2>2, <2>4, RamInside
  <2> QED
    BY <2>1, <2>3, <2>4 DEF AccessesStayInside
<1> QED
  BY <1>1, Invariance, PTL

\* The pristine image never changes.
THEOREM PristineIsAsLoadedAlways == Spec => []PristineIsAsLoaded
<1>1. IInv => PristineIsAsLoaded
  BY DEF IInv
<1> QED
  BY <1>1, Invariance, PTL

\* Wherever a program, a save or the time has brought the clock, catching up
\* agrees with counting.
THEOREM CatchUpAlways == Spec => []CatchUpIsSecondBySecond
<1>1. IInv => CatchUpIsSecondBySecond
  <2> SUFFICES ASSUME IInv, Running PROVE CatchUpIsSecondBySecond
    BY DEF CatchUpIsSecondBySecond
  <2>1. machine.clock.live \in RtcRegisters
    BY DEF IInv, TypeOK, IsCartridge, Clocks
  <2>2. MaxCatchUp \in Nat
    BY ElapsedAssumption DEF ElapsedAssumption
  <2> QED
    BY <2>1, <2>2, CatchUpIsCounting DEF CatchUpIsSecondBySecond
<1> QED
  BY <1>1, Invariance, PTL
-----------------------------------------------------------------------------
(* The day counter's carry.                                                *)

\* Days that pass set the carry and never clear it.
LEMMA AdvanceKeepsCarry ==
  ASSUME NEW live \in RtcRegisters, NEW count \in Nat, "carry" \in live.dayHigh
  PROVE  "carry" \in AdvanceSeconds(live, count).dayHigh
BY DEF AdvanceSeconds, AddDays, RtcRegisters

LEMMA NarrowedKeepsCarry ==
  ASSUME NEW live \in RtcRegisters, "carry" \in live.dayHigh
  PROVE  Narrowed(live) \in RtcRegisters /\ "carry" \in Narrowed(live).dayHigh
<1>1. Narrowed(live) \in RtcRegisters
  BY RegistersAreAny, NarrowedFits
<1>2. "carry" \in Narrowed(live).dayHigh
  BY DEF Narrowed, RtcRegisters, DayHighBits
<1> QED
  BY <1>1, <1>2

\* A cartridge without a clock has none that could have carried: a reset, which keeps the
\* clock only of a cartridge that has one, loses nothing.
ClocklessIsNew == Running /\ ~HasTimer(machine.header) => machine.clock = NewClock

LEMMA ClocklessNext == IInv /\ ClocklessIsNew /\ [Next]_vars => ClocklessIsNew'
<1> SUFFICES ASSUME IInv, ClocklessIsNew, [Next]_vars, Running', ~HasTimer(machine'.header)
             PROVE  machine'.clock = NewClock
  BY DEF ClocklessIsNew, Running
<1>1. Running => /\ machine = [header |-> machine.header, regs |-> machine.regs,
                               ram |-> machine.ram, bound |-> machine.bound,
                               clock |-> machine.clock]
                 /\ pristine = Owned(Loaded(pristine.header), "pristine")
                 /\ pristine.header = machine.header
  BY DEF IInv, TypeOK, IsCartridge, PristineIsAsLoaded
<1>2. ASSUME NEW h, NEW owner
      PROVE  /\ Owned(Loaded(h), owner).header = h
             /\ Owned(Loaded(h), owner).clock = NewClock
  BY DEF Owned, Loaded
<1>3. ASSUME NEW h, NEW ram, NEW live, NEW latched, NEW elapsed, ~HasTimer(h)
      PROVE  Restored(Owned(Loaded(h), "machine"), ram, live, latched, elapsed).clock = NewClock
  BY <1>3 DEF Restored, Owned, Loaded
<1>4. ASSUME NEW h, NEW ram, NEW live, NEW latched, NEW elapsed
      PROVE  Restored(Owned(Loaded(h), "machine"), ram, live, latched, elapsed).header = h
  BY DEF Restored, Owned, Loaded
<1>5. CASE OpenRom
  BY <1>2, <1>5 DEF OpenRom, Running
<1>6. CASE OpenForeignSave
  BY <1>3, <1>4, <1>6 DEF OpenForeignSave
<1>7. CASE PowerCycle
  BY <1>3, <1>4, <1>7 DEF PowerCycle
<1>8. CASE Reset
  <2>1. Running /\ machine' = Owned(Kept, "machine")
    BY <1>8 DEF Reset
  <2>2. machine'.header = machine.header
    BY <1>1, <2>1 DEF Owned, Kept, Loaded
  <2>3. ~HasTimer(machine.header)
    BY <2>2
  <2> QED
    BY <1>1, <2>1, <2>3 DEF Owned, Kept, Loaded
<1>9. CASE Tick
  BY <1>1, <1>9 DEF Tick
<1>10. CASE ControlWrite
  BY <1>1, <1>10 DEF ControlWrite, Controlled, ClocklessIsNew
<1>11. CASE ClockWrite
  BY <1>1, <1>11 DEF ClockWrite, ClockSelected
<1>12. CASE RamWrite
  BY <1>1, <1>12 DEF RamWrite, ClocklessIsNew
<1>13. CASE UNCHANGED vars
  BY <1>13 DEF vars, ClocklessIsNew, Running
<1> QED
  BY <1>5, <1>6, <1>7, <1>8, <1>9, <1>10, <1>11, <1>12, <1>13 DEF Next

\* What the program has not cleared stays: the carry outlives every tick, latch, reset and
\* power cycle, and every write to another register of the clock.
THEOREM CarryIsKeptAlways == Spec => CarryIsKept
<1> DEFINE Others == \/ Tick \/ Reset \/ PowerCycle \/ ControlWrite
                     \/ (ClockWrite /\ machine.regs.ramSelect # 12)
           CarryStays == Others => ("carry" \in machine.clock.live.dayHigh
                                 => "carry" \in machine'.clock.live.dayHigh)
<1>1. Init => ClocklessIsNew
  BY DEF Init, ClocklessIsNew, Running
<1>2. IInv /\ ClocklessIsNew => CarryStays
  <2> SUFFICES ASSUME IInv, ClocklessIsNew, Others, "carry" \in machine.clock.live.dayHigh
               PROVE  "carry" \in machine'.clock.live.dayHigh
    OBVIOUS
  <2>1. Running
    BY DEF Tick, Reset, PowerCycle, ControlWrite, ClockWrite
  <2>2. /\ machine = [header |-> machine.header, regs |-> machine.regs, ram |-> machine.ram,
                      bound |-> machine.bound, clock |-> machine.clock]
        /\ machine.clock \in Clocks
        /\ machine.clock.live \in RtcRegisters
        /\ machine.regs \in Registers
    BY <2>1 DEF IInv, TypeOK, IsCartridge, Clocks
  <2>3. HasTimer(machine.header)
    BY <2>1 DEF ClocklessIsNew, NewClock, ZeroRegisters
  <2>4. Narrowed(machine.clock.live) \in RtcRegisters
        /\ "carry" \in Narrowed(machine.clock.live).dayHigh
    BY <2>2, NarrowedKeepsCarry
  <2>5. CASE Tick
    <3>1. machine'.clock = TickClock(machine.clock)
      BY <2>2, <2>5 DEF Tick
    <3>2. "carry" \in AdvanceSeconds(machine.clock.live, 1).dayHigh
      BY <2>2, AdvanceKeepsCarry
    <3> HIDE DEF RtcRegisters
    <3> QED
      BY <2>2, <3>1, <3>2 DEF TickClock, Clocks
  <2>6. CASE Reset
    <3>1. pristine = Owned(Loaded(pristine.header), "pristine")
      BY <2>1 DEF IInv, PristineIsAsLoaded
    <3>2. machine'.clock = SetState(machine.clock.live, machine.clock.latched)
      BY <2>3, <2>6, <3>1 DEF Reset, Kept, Owned, Loaded
    <3> QED
      BY <2>4, <3>2 DEF SetState
  <2>7. CASE PowerCycle
    <3>1. PICK elapsed \in Elapsed :
            machine' = Restored(Owned(Loaded(machine.header), "machine"), machine.ram,
                                machine.clock.live, machine.clock.latched, elapsed)
      BY <2>7 DEF PowerCycle
    <3>2. elapsed \in Nat
      BY ElapsedAssumption DEF ElapsedAssumption
    <3>3. machine'.clock.live = AdvanceSeconds(Narrowed(machine.clock.live), elapsed)
      BY <2>3, <3>1 DEF Restored, Owned, Loaded, SetState
    <3> QED
      BY <2>4, <3>2, <3>3, AdvanceKeepsCarry
  <2>8. CASE ControlWrite
    <3>1. PICK write : machine' = Controlled(machine, write[1], write[2])
      BY <2>8 DEF ControlWrite
    <3>2. machine'.clock = machine.clock \/ machine'.clock = Latch(machine.clock)
      BY <2>2, <3>1 DEF Controlled
    <3>3. Latch(machine.clock).live = machine.clock.live
      BY <2>2 DEF Latch, Clocks
    <3> QED
      BY <3>2, <3>3
  <2>9. CASE ClockWrite /\ machine.regs.ramSelect # 12
    <3> DEFINE reg == <<"seconds", "minutes", "hours", "dayLow", "dayHigh">>[machine.regs.ramSelect - 7]
    <3>1. machine.regs.ramSelect \in 8..11
      BY <2>2, <2>9 DEF ClockWrite, ClockSelected
    <3>2. reg \in Counters \cup {"dayLow"}
      BY <3>1 DEF Counters
    <3>3. PICK value : machine' = [machine EXCEPT !.clock = WriteRegister(machine.clock, reg, value)]
      BY <2>9 DEF ClockWrite
    <3> HIDE DEF reg
    <3>4. machine'.clock = WriteRegister(machine.clock, reg, value)
      BY <2>2, <3>3
    <3>5. WriteRegister(machine.clock, reg, value).live.dayHigh = machine.clock.live.dayHigh
      BY <2>2, <3>2 DEF WriteRegister, Clocks, RtcRegisters, Counters
    <3> QED
      BY <3>4, <3>5
  <2> QED
    BY <2>5, <2>6, <2>7, <2>8, <2>9
<1>3. IInv /\ ClocklessIsNew /\ [Next]_vars => [CarryStays]_vars
  BY <1>2
<1>4. Spec => []ClocklessIsNew
  BY <1>1, ClocklessNext, Invariance, PTL DEF Spec
<1> QED
  BY <1>3, <1>4, Invariance, PTL DEF Spec, CarryIsKept
=============================================================================
