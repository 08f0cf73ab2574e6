------------------------------ MODULE CpuProofs -----------------------------
(***************************************************************************)
(* Theorems about Cpu for every set of interrupt sources, every size of    *)
(* the address space, every joypad and every program.                      *)
(***************************************************************************)
EXTENDS Cpu, WellFoundedInduction, TLAPS

\* A delay that outlives its instruction is the one EI has just left.
DelayIsShort == imeDelay <= 1

\* Where the first instruction not yet executed is.  It is at pc, but after a HALT that
\* the bug kept from halting: then IME may be on by an EI just before it, the next fetch
\* begins a dispatch, and the HALT counts as not executed.  No delay survives such a HALT,
\* so IME cannot come on after it while the bug is still to be spent.
ResumePoint ==
  IF phase = "fetch"
  THEN /\ ~haltBug => pc = resume
       /\ haltBug => imeDelay = 0
       /\ haltBug /\ ime => Before(pc) = resume
  ELSE /\ ~haltBug
       /\ phase # "access" => pc = resume

\* Only a running CPU is in the middle of something.
BusyIsRunning == phase # "fetch" => state = "Running"

\* Between the pushes nothing moves IE and IF.
ChoiceIsCurrent == phase = "pushLow" => sampled = ie \cap if

IInv ==
  /\ TypeOK
  /\ DelayIsShort
  /\ BusyIsRunning
  /\ DispatchIsClosed
  /\ ResumePoint
  /\ HaltedHasNothingPending
  /\ EiShadowIsClosed
  /\ ChoiceIsCurrent

-----------------------------------------------------------------------------
LEMMA AfterBefore ==
  ASSUME NEW a \in Addresses
  PROVE  After(a) \in Addresses /\ Before(a) \in Addresses /\ Before(After(a)) = a
BY CpuAssumption DEF Addresses, After, Before

LEMMA VectorType == ASSUME NEW b \in Sources PROVE Vector(b) \in Addresses
BY CpuAssumption DEF Vector, Addresses

\* The first of a set of requests exists.
LEMMA LowestIsFirst ==
  ASSUME NEW bits, bits \subseteq Sources, bits # {}
  PROVE  Lowest(bits) \in bits /\ \A c \in bits : Lowest(bits) <= c
<1> DEFINE R == {p \in Nat \X Nat : p[1] < p[2]}
<1>1. bits \subseteq Nat
  BY CpuAssumption
<1>2. IsWellFoundedOn(R, Nat)
  BY NatLessThanWellFounded DEF OpToRel
<1> HIDE DEF R
<1>3. PICK b \in bits : \A c \in bits : ~(<<c, b>> \in R)
  BY <1>1, <1>2, WFMin
<1>4. ASSUME NEW c \in bits PROVE b <= c
  <2>1. b \in Nat /\ c \in Nat
    BY <1>1, <1>3
  <2>2. c < b => <<c, b>> \in R
    BY <2>1 DEF R
  <2>3. QED
    BY <1>3, <2>1, <2>2
<1>5. QED
  BY <1>3, <1>4 DEF Lowest

LEMMA RaisableSources == ASSUME NEW raised \in SUBSET Raisable PROVE raised \subseteq Sources
BY DEF Raisable

LEMMA RequestType == JoypadRequest \subseteq Sources
BY CpuAssumption DEF JoypadRequest

\* The writes the model makes to P1 keep the joypad's type.
LEMMA P1Type ==
  ASSUME JoypadTypeOK, NEW reached \in BOOLEAN, PushOnP1(reached)
  PROVE  JoypadTypeOK'
BY DEF PushOnP1, WriteToP1, SelectGroups, joypadVars, JoypadTypeOK

-----------------------------------------------------------------------------
LEMMA InitIInv == Init => IInv
<1> SUFFICES ASSUME Init PROVE IInv
  OBVIOUS
<1>1. TypeOK
  <2>1. 0 \in Addresses /\ 0 \in 0..2
    BY CpuAssumption DEF Addresses
  <2>2. JoypadTypeOK
    BY DEF Init, JoypadInit, JoypadTypeOK
  <2>3. if \subseteq Sources /\ ie \subseteq Sources /\ sampled \subseteq Sources
        /\ jumped \subseteq Sources
    BY DEF Init
  <2>4. QED
    BY <2>1, <2>2, <2>3, Zenon DEF Init, TypeOK, StackTargets
<1>2. QED
  BY <1>1
  DEF Init, IInv, DelayIsShort, BusyIsRunning, DispatchIsClosed, Dispatching, ResumePoint,
      HaltedHasNothingPending, EiShadowIsClosed, ChoiceIsCurrent

-----------------------------------------------------------------------------
(* Cycles in which nothing is executed.                                    *)

\* A cycle of a CPU that waits raises requests and may end the waiting.
LEMMA WaitingIInv ==
  ASSUME IInv, NEW raised \in SUBSET Raisable, Idle(raised),
         state' \in {"Running", "Halted", "Stopped", "Locked"},
         state' = "Halted" => state = "Halted" /\ Pending(raised) = {}
  PROVE  IInv'
<1>1. TypeOK'
  BY RaisableSources DEF IInv, TypeOK, Idle, JoypadTypeOK, joypadVars, histories
<1>2. DelayIsShort' /\ ResumePoint' /\ EiShadowIsClosed'
  BY DEF IInv, Idle, histories, DelayIsShort, ResumePoint, EiShadowIsClosed
<1>3. BusyIsRunning' /\ DispatchIsClosed' /\ ChoiceIsCurrent' /\ HaltedHasNothingPending'
  BY DEF Idle, BusyIsRunning, DispatchIsClosed, Dispatching, ChoiceIsCurrent, HaltedHasNothingPending, Pending
<1>4. QED
  BY <1>1, <1>2, <1>3 DEF IInv

LEMMA WaitingCycles ==
  ASSUME IInv, NEW raised \in SUBSET Raisable,
         StoppedCycle(raised) \/ LockedCycle(raised) \/ HaltedCycle(raised)
  PROVE  IInv'
BY WaitingIInv DEF StoppedCycle, LockedCycle, HaltedCycle

LEMMA SetButtonsIInv == IInv /\ SetButtons => IInv'
<1> SUFFICES ASSUME IInv, SetButtons PROVE IInv'
  OBVIOUS
<1>1. TypeOK'
  BY RequestType
  DEF IInv, TypeOK, SetButtons, HoldButtons, JoypadTypeOK, cpuVars, histories
<1>2. DelayIsShort' /\ ResumePoint' /\ EiShadowIsClosed' /\ BusyIsRunning' /\ DispatchIsClosed' /\ ChoiceIsCurrent'
  BY DEF IInv, SetButtons, cpuVars, histories, DelayIsShort, ResumePoint, EiShadowIsClosed,
         BusyIsRunning, DispatchIsClosed, Dispatching, ChoiceIsCurrent
<1>3. HaltedHasNothingPending'
  BY DEF IInv, SetButtons, cpuVars, HaltedHasNothingPending, JoypadRequest
<1>4. QED
  BY <1>1, <1>2, <1>3 DEF IInv

-----------------------------------------------------------------------------
(* Instructions.                                                           *)

LEMMA FetchType ==
  ASSUME IInv, NEW raised \in SUBSET Raisable, Fetch(raised)
  PROVE  /\ phase = "fetch"
         /\ JoypadTypeOK' /\ ie' \subseteq Sources /\ if' \subseteq Sources
         /\ stack' \in StackTargets /\ sampled' \subseteq Sources
         /\ FetchedPc \in Addresses
         /\ ie' \cap if' = Pending(raised)
BY RaisableSources, AfterBefore
DEF IInv, TypeOK, Fetch, JoypadTypeOK, joypadVars, FetchedPc, Pending

\* An instruction of one M-cycle that goes on at `next' unless it is a HALT under the
\* bug, leaves no request a halted CPU would sleep through and keeps IME off in the
\* shadow of an EI.
LEMMA ExecutedIInv ==
  ASSUME IInv, NEW raised \in SUBSET Raisable, Execute(raised),
         NEW enabled \in BOOLEAN, NEW delay \in 0..2, NEW next \in Addresses,
         Finish(enabled, delay, next),
         state' \in {"Running", "Halted", "Stopped", "Locked"},
         state' = "Halted" => Pending(raised) = {},
         pc' \in Addresses, haltBug' \in BOOLEAN, shadow' \in BOOLEAN,
         ~haltBug' => pc' = next,
         haltBug' => delay <= 1 /\ (ime' => Before(pc') = next),
         shadow' => ~ime'
  PROVE  IInv'
<1>1. Fetch(raised) /\ jumped' = jumped
  BY DEF Execute
<1>2. /\ phase = "fetch" /\ JoypadTypeOK' /\ ie' \subseteq Sources /\ if' \subseteq Sources
      /\ stack' \in StackTargets /\ sampled' \subseteq Sources
      /\ ie' \cap if' = Pending(raised)
  BY <1>1, FetchType
<1>3. /\ imeDelay' \in 0..1 /\ phase' = "fetch" /\ op' = "none" /\ resume' = next
      /\ delay <= 1 => imeDelay' = 0
  BY DEF Finish
<1>4. ime' \in BOOLEAN
  BY DEF Finish
<1>5. TypeOK'
  BY <1>1, <1>2, <1>3, <1>4 DEF IInv, TypeOK
<1>6. DelayIsShort' /\ BusyIsRunning' /\ DispatchIsClosed' /\ ChoiceIsCurrent' /\ EiShadowIsClosed'
  BY <1>3 DEF DelayIsShort, BusyIsRunning, DispatchIsClosed, Dispatching, ChoiceIsCurrent, EiShadowIsClosed
<1>7. ResumePoint'
  BY <1>3 DEF ResumePoint
<1>8. HaltedHasNothingPending'
  BY <1>2 DEF HaltedHasNothingPending
<1>9. QED
  BY <1>5, <1>6, <1>7, <1>8 DEF IInv

LEMMA NopIInv == ASSUME IInv, NEW raised \in SUBSET Raisable, Nop(raised) PROVE IInv'
<1>1. FetchedPc \in Addresses
  BY FetchType DEF Nop, Execute
<1>2. ime \in BOOLEAN /\ imeDelay \in 0..2
  BY DEF IInv, TypeOK
<1>3. QED
  BY <1>1, <1>2, ExecutedIInv DEF Nop

LEMMA DiIInv == ASSUME IInv, NEW raised \in SUBSET Raisable, Di(raised) PROVE IInv'
<1>1. FetchedPc \in Addresses
  BY FetchType DEF Di, Execute
<1>2. FALSE \in BOOLEAN /\ 0 \in 0..2
  OBVIOUS
<1>3. /\ Execute(raised) /\ Finish(FALSE, 0, FetchedPc) /\ state' = "Running"
      /\ pc' = FetchedPc /\ haltBug' = FALSE /\ shadow' = FALSE
  BY DEF Di
<1>4. QED
  BY <1>1, <1>2, <1>3, ExecutedIInv

LEMMA IllegalIInv == ASSUME IInv, NEW raised \in SUBSET Raisable, Illegal(raised) PROVE IInv'
<1>1. FetchedPc \in Addresses
  BY FetchType DEF Illegal, Execute
<1>2. ime \in BOOLEAN /\ imeDelay \in 0..2
  BY DEF IInv, TypeOK
<1>3. QED
  BY <1>1, <1>2, ExecutedIInv DEF Illegal

LEMMA StopIInv == ASSUME IInv, NEW raised \in SUBSET Raisable, Stop(raised) PROVE IInv'
<1>1. After(FetchedPc) \in Addresses
  BY FetchType, AfterBefore DEF Stop, Execute
<1>2. ime \in BOOLEAN /\ imeDelay \in 0..2
  BY DEF IInv, TypeOK
<1>3. QED
  BY <1>1, <1>2, ExecutedIInv DEF Stop

\* EI in no other EI's shadow leaves a delay of one instruction and IME as it was.
LEMMA EiIInv == ASSUME IInv, NEW raised \in SUBSET Raisable, Ei(raised) PROVE IInv'
<1> DEFINE delay == IF imeDelay = 0 THEN 2 ELSE imeDelay
<1>1. FetchedPc \in Addresses
  BY FetchType DEF Ei, Execute
<1>2. ime \in BOOLEAN /\ imeDelay \in 0..2 /\ delay \in 0..2
  BY DEF IInv, TypeOK
<1>3. Finish(ime, delay, FetchedPc) /\ shadow' = (~ime /\ imeDelay = 0)
  BY DEF Ei
<1>4. shadow' => ~ime'
  <2>1. ASSUME ~ime, imeDelay = 0 PROVE ~ime'
    <3>1. ~(delay = 1)
      BY <2>1
    <3>2. ime' = (ime \/ delay = 1)
      BY <1>3 DEF Finish
    <3>3. QED
      BY <2>1, <3>1, <3>2, Zenon
  <2>2. QED
    BY <1>3, <2>1, Zenon
<1>5. shadow' \in BOOLEAN
  BY <1>3, Zenon
<1> HIDE DEF delay
<1>6. QED
  BY <1>1, <1>2, <1>3, <1>4, <1>5, ExecutedIInv DEF Ei

\* Under the bug pc is one past the HALT unless the HALT is itself executed under the
\* bug, and then no delay is left that could turn IME on.
LEMMA HaltIInv == ASSUME IInv, NEW raised \in SUBSET Raisable, Halt(raised) PROVE IInv'
<1> DEFINE bug == ~ime /\ Pending(raised) # {}
           next == IF bug THEN pc ELSE FetchedPc
<1>1. /\ Execute(raised) /\ Finish(ime, imeDelay, next)
      /\ state' = IF bug THEN "Running" ELSE "Halted"
      /\ pc' = FetchedPc /\ haltBug' = bug /\ shadow' = FALSE
  BY DEF Halt
<1>2. phase = "fetch" /\ FetchedPc \in Addresses
  BY <1>1, FetchType DEF Execute
<1>3. ime \in BOOLEAN /\ imeDelay \in 0..2 /\ pc \in Addresses /\ imeDelay <= 1
  BY DEF IInv, TypeOK, DelayIsShort
<1>4. next \in Addresses /\ bug \in BOOLEAN
  BY <1>2, <1>3
<1>5. ~bug => Pending(raised) = {}
  BY <1>1 DEF Execute, Taken
<1>6. bug /\ ime' => Before(FetchedPc) = pc
  <2>1. ASSUME bug, ime' PROVE ~haltBug
    <3>1. ime' = (ime \/ imeDelay = 1)
      BY <1>1 DEF Finish
    <3>2. imeDelay = 1
      BY <2>1, <3>1, Zenon
    <3>3. haltBug => imeDelay = 0
      BY <1>2 DEF IInv, ResumePoint
    <3>4. QED
      BY <3>2, <3>3
  <2>2. QED
    BY <1>3, <2>1, AfterBefore DEF FetchedPc
<1>7. haltBug' \in BOOLEAN /\ (haltBug' => imeDelay <= 1 /\ (ime' => Before(pc') = next))
  BY <1>1, <1>3, <1>4, <1>6
<1>8. ~haltBug' => pc' = next
  BY <1>1
<1>9. state' \in {"Running", "Halted", "Stopped", "Locked"}
      /\ (state' = "Halted" => Pending(raised) = {})
  BY <1>1, <1>5
<1>10. shadow' \in BOOLEAN /\ (shadow' => ~ime')
  BY <1>1
<1> HIDE DEF bug, next
<1>11. QED
  BY <1>1, <1>2, <1>3, <1>4, <1>7, <1>8, <1>9, <1>10, ExecutedIInv

LEMMA BeginLongIInv ==
  ASSUME IInv, NEW raised \in SUBSET Raisable, NEW o \in LongOps, BeginLong(raised, o)
  PROVE  IInv'
<1>1. Fetch(raised)
  BY DEF BeginLong, Execute
<1>2. /\ JoypadTypeOK' /\ ie' \subseteq Sources /\ if' \subseteq Sources
      /\ stack' \in StackTargets /\ sampled' \subseteq Sources
      /\ FetchedPc \in Addresses
  BY <1>1, FetchType
<1>3. TypeOK'
  BY <1>2 DEF IInv, TypeOK, BeginLong, Execute
<1>4. DelayIsShort' /\ BusyIsRunning' /\ DispatchIsClosed' /\ ChoiceIsCurrent' /\ EiShadowIsClosed' /\ ResumePoint'
      /\ HaltedHasNothingPending'
  BY DEF IInv, BeginLong, DelayIsShort, BusyIsRunning, DispatchIsClosed, Dispatching, ChoiceIsCurrent,
         EiShadowIsClosed, ResumePoint, HaltedHasNothingPending
<1>5. QED
  BY <1>3, <1>4 DEF IInv

\* What the access that ends a long instruction leaves, if it keeps IE's and IF's types.
LEMMA FinishLongIInv ==
  ASSUME IInv, NEW o \in LongOps, NEW enabled \in BOOLEAN, NEW next \in Addresses,
         FinishLong(o, enabled, next),
         JoypadTypeOK', ie' \subseteq Sources, if' \subseteq Sources
  PROVE  IInv'
<1>1. /\ phase = "access" /\ pc' = next /\ shadow' = FALSE
      /\ UNCHANGED <<state, haltBug, stack, sampled, jumped>>
      /\ Finish(enabled, imeDelay, next)
  BY DEF FinishLong
<1>2. imeDelay \in 0..1 /\ ~haltBug /\ state = "Running"
  BY <1>1 DEF IInv, TypeOK, DelayIsShort, ResumePoint, BusyIsRunning
<1>3. imeDelay' = 0 /\ phase' = "fetch" /\ op' = "none" /\ resume' = next
  BY <1>1, <1>2 DEF Finish
<1>4. ime' \in BOOLEAN
  BY <1>1 DEF Finish
<1>5. TypeOK'
  <2>1. /\ state' = state /\ haltBug' = haltBug /\ stack' = stack /\ sampled' = sampled
        /\ jumped' = jumped /\ shadow' \in BOOLEAN
    BY <1>1
  <2>2. imeDelay' \in 0..2 /\ pc' \in Addresses /\ resume' \in Addresses
    BY <1>1, <1>3
  <2>3. QED
    BY <1>3, <1>4, <2>1, <2>2, Zenon DEF IInv, TypeOK
<1>6. DelayIsShort' /\ BusyIsRunning' /\ DispatchIsClosed' /\ ChoiceIsCurrent' /\ EiShadowIsClosed' /\ ResumePoint'
      /\ HaltedHasNothingPending'
  BY <1>1, <1>2, <1>3
  DEF DelayIsShort, BusyIsRunning, DispatchIsClosed, Dispatching, ChoiceIsCurrent, EiShadowIsClosed,
      ResumePoint, HaltedHasNothingPending
<1>7. QED
  BY <1>5, <1>6 DEF IInv

LEMMA AccessIInv ==
  ASSUME IInv, NEW raised \in SUBSET Raisable,
         Jump(raised) \/ Reti(raised) \/ WriteIE(raised) \/ WriteIF(raised) \/ WriteP1(raised)
  PROVE  IInv'
<1>1. /\ ime \in BOOLEAN /\ pc \in Addresses /\ JoypadTypeOK /\ raised \subseteq Sources
      /\ ie \subseteq Sources /\ if \subseteq Sources
  BY RaisableSources DEF IInv, TypeOK
<1>2. CASE Jump(raised)
  <2>1. PICK target \in Addresses : FinishLong("jump", ime, target)
    BY <1>2 DEF Jump
  <2>2. JoypadTypeOK' /\ ie' \subseteq Sources /\ if' \subseteq Sources
    BY <1>1, <1>2 DEF Jump, JoypadTypeOK, joypadVars
  <2>3. QED
    BY <1>1, <2>1, <2>2, FinishLongIInv DEF LongOps
<1>3. CASE Reti(raised)
  <2>1. PICK target \in Addresses : FinishLong("reti", TRUE, target)
    BY <1>3 DEF Reti
  <2>2. JoypadTypeOK' /\ ie' \subseteq Sources /\ if' \subseteq Sources
    BY <1>1, <1>3 DEF Reti, JoypadTypeOK, joypadVars
  <2>3. "reti" \in LongOps /\ TRUE \in BOOLEAN
    BY DEF LongOps
  <2>4. QED
    BY <2>1, <2>2, <2>3, FinishLongIInv
<1>4. CASE WriteIE(raised)
  <2>1. FinishLong("writeIE", ime, pc)
    BY <1>4 DEF WriteIE
  <2>2. JoypadTypeOK' /\ ie' \subseteq Sources /\ if' \subseteq Sources
    BY <1>1, <1>4 DEF WriteIE, JoypadTypeOK, joypadVars
  <2>3. QED
    BY <1>1, <2>1, <2>2, FinishLongIInv DEF LongOps
<1>5. CASE WriteIF(raised)
  <2>1. FinishLong("writeIF", ime, pc)
    BY <1>5 DEF WriteIF
  <2>2. JoypadTypeOK' /\ ie' \subseteq Sources /\ if' \subseteq Sources
    BY <1>1, <1>5 DEF WriteIF, JoypadTypeOK, joypadVars
  <2>3. QED
    BY <1>1, <2>1, <2>2, FinishLongIInv DEF LongOps
<1>6. CASE WriteP1(raised)
  <2>1. FinishLong("writeP1", ime, pc)
    BY <1>6 DEF WriteP1
  <2>2. JoypadTypeOK' /\ ie' \subseteq Sources /\ if' \subseteq Sources
    BY <1>1, <1>6, RequestType DEF WriteP1, WriteToP1, SelectGroups, JoypadTypeOK
  <2>3. QED
    BY <1>1, <2>1, <2>2, FinishLongIInv DEF LongOps
<1>7. QED
  BY <1>2, <1>3, <1>4, <1>5, <1>6

-----------------------------------------------------------------------------
(* The dispatch.                                                           *)

LEMMA BeginDispatchIInv ==
  ASSUME IInv, NEW raised \in SUBSET Raisable, BeginDispatch(raised)
  PROVE  IInv'
<1>1. /\ Fetch(raised) /\ ime /\ state' = "Running" /\ phase' = "wait" /\ ime' = FALSE
      /\ imeDelay' = 0 /\ haltBug' = FALSE
      /\ pc' = (IF haltBug THEN Before(pc) ELSE pc)
      /\ op' = op /\ resume' = resume /\ shadow' = shadow /\ jumped' = jumped
  BY DEF BeginDispatch, Taken, histories
<1>2. /\ phase = "fetch" /\ JoypadTypeOK' /\ ie' \subseteq Sources /\ if' \subseteq Sources
      /\ stack' \in StackTargets /\ sampled' \subseteq Sources
  BY <1>1, FetchType
<1>3. pc' = resume /\ resume \in Addresses
  BY <1>1, <1>2 DEF IInv, ResumePoint, TypeOK
<1>4. TypeOK'
  <2>1. imeDelay' \in 0..2 /\ pc' \in Addresses
    BY <1>1, <1>3
  <2>2. QED
    BY <1>1, <1>2, <1>3, <2>1, Zenon DEF IInv, TypeOK, Dispatching
<1>5. DelayIsShort' /\ BusyIsRunning' /\ DispatchIsClosed' /\ ChoiceIsCurrent'
      /\ EiShadowIsClosed' /\ ResumePoint' /\ HaltedHasNothingPending'
  BY <1>1, <1>3
  DEF DelayIsShort, BusyIsRunning, DispatchIsClosed, ChoiceIsCurrent, EiShadowIsClosed,
      ResumePoint, HaltedHasNothingPending
<1>6. QED
  BY <1>4, <1>5 DEF IInv

\* The M-cycles of a dispatch after its decision keep what the decision made so.
LEMMA DispatchingIInv ==
  ASSUME IInv, phase \in Dispatching, phase' \in Dispatching \cup {"fetch"},
         UNCHANGED <<state, op, ime, imeDelay, haltBug, shadow>>,
         JoypadTypeOK', ie' \subseteq Sources, if' \subseteq Sources, stack' \in StackTargets,
         sampled' \subseteq Sources, jumped' \subseteq Sources,
         pc' \in Addresses, resume' = pc', ChoiceIsCurrent'
  PROVE  IInv'
<1>1. /\ state' = state /\ op' = op /\ ime' = ime /\ imeDelay' = imeDelay /\ haltBug' = haltBug
      /\ shadow' = shadow
  OBVIOUS
<1>2. ~ime /\ imeDelay = 0 /\ ~haltBug /\ state = "Running"
  BY DEF IInv, DispatchIsClosed
<1>3. TypeOK'
  <2>1. phase' \in {"fetch", "access"} \cup Dispatching
    OBVIOUS
  <2>2. QED
    BY <1>1, <2>1, Zenon DEF IInv, TypeOK
<1>4. DelayIsShort' /\ BusyIsRunning' /\ DispatchIsClosed' /\ EiShadowIsClosed' /\ ResumePoint'
      /\ HaltedHasNothingPending'
  BY <1>1, <1>2
  DEF DelayIsShort, BusyIsRunning, DispatchIsClosed, EiShadowIsClosed, ResumePoint,
      HaltedHasNothingPending
<1>5. QED
  BY <1>3, <1>4 DEF IInv

LEMMA DispatchStepsIInv ==
  ASSUME IInv, NEW raised \in SUBSET Raisable,
         DispatchWait(raised) \/ PushHigh(raised) \/ PushLow(raised) \/ DispatchEnd(raised)
  PROVE  IInv'
<1>1. /\ TypeOK /\ JoypadTypeOK /\ raised \subseteq Sources
      /\ ie \subseteq Sources /\ if \subseteq Sources /\ pc \in Addresses
      /\ stack \in StackTargets /\ sampled \subseteq Sources /\ jumped \subseteq Sources
  BY RaisableSources DEF IInv, TypeOK
<1>2. phase \in Dispatching => pc = resume
  BY DEF IInv, ResumePoint, Dispatching
<1>3. CASE DispatchWait(raised)
  <2>1. /\ phase = "wait" /\ phase' = "pushHigh"
        /\ JoypadTypeOK' /\ ie' \subseteq Sources /\ if' \subseteq Sources /\ stack' \in StackTargets
        /\ sampled' \subseteq Sources /\ jumped' \subseteq Sources
        /\ pc' = pc /\ resume' = resume
        /\ UNCHANGED <<state, op, ime, imeDelay, haltBug, shadow>>
    BY <1>1, <1>3 DEF DispatchWait, JoypadTypeOK, joypadVars, histories
  <2>2. ChoiceIsCurrent'
    BY <2>1 DEF ChoiceIsCurrent
  <2>3. QED
    BY <1>1, <1>2, <2>1, <2>2, DispatchingIInv DEF Dispatching
<1>4. CASE PushHigh(raised)
  <2>1. PICK byte \in SUBSET Sources :
          /\ ie' = IF stack' = "highToIE" THEN byte ELSE ie
          /\ if' = IF stack' = "highToIF" THEN byte ELSE if \cup raised \cup JoypadRequest
    BY <1>4 DEF PushHigh
  <2>2. /\ phase = "pushHigh" /\ phase' = "pushLow" /\ stack' \in StackTargets
        /\ sampled' = ie' \cap if' /\ PushOnP1(stack' = "highToP1")
        /\ pc' = pc /\ resume' = resume /\ jumped' = jumped
        /\ UNCHANGED <<state, op, ime, imeDelay, haltBug, shadow>>
    BY <1>4 DEF PushHigh, histories
  <2>3. JoypadTypeOK'
    BY <1>1, <2>2, P1Type
  <2>4. ie' \subseteq Sources /\ if' \subseteq Sources /\ sampled' \subseteq Sources
    BY <1>1, <2>1, <2>2, RequestType
  <2>5. ChoiceIsCurrent'
    BY <2>2 DEF ChoiceIsCurrent
  <2>6. QED
    BY <1>1, <1>2, <2>2, <2>3, <2>4, <2>5, DispatchingIInv DEF Dispatching
<1>5. CASE PushLow(raised)
  <2>1. PICK byte \in SUBSET Sources :
          /\ ie' = IF stack = "lowToIE" THEN byte ELSE ie
          /\ if' = LET requests == IF stack = "lowToIF" THEN byte
                                   ELSE if \cup raised \cup JoypadRequest
                   IN  IF sampled = {} THEN requests ELSE requests \ {Lowest(sampled)}
    BY <1>5 DEF PushLow
  <2>2. /\ phase = "pushLow" /\ phase' = "vector" /\ stack' = stack /\ sampled' = sampled
        /\ pc' = IF sampled = {} THEN 0 ELSE Vector(Lowest(sampled))
        /\ jumped' = IF sampled = {} THEN {} ELSE {Lowest(sampled)}
        /\ resume' = pc' /\ PushOnP1(stack = "lowToP1")
        /\ UNCHANGED <<state, op, ime, imeDelay, haltBug, shadow>>
    BY <1>5 DEF PushLow
  <2>3. JoypadTypeOK'
    BY <1>1, <2>2, P1Type
  <2>4. ie' \subseteq Sources /\ if' \subseteq Sources
    BY <1>1, <2>1, RequestType
  <2>5. pc' \in Addresses /\ jumped' \subseteq Sources
    <3>1. 0 \in Addresses
      BY CpuAssumption DEF Addresses
    <3>2. QED
      BY <1>1, <2>2, <3>1, LowestIsFirst, VectorType
  <2>6. ChoiceIsCurrent'
    BY <2>2 DEF ChoiceIsCurrent
  <2>7. QED
    BY <1>1, <2>2, <2>3, <2>4, <2>5, <2>6, DispatchingIInv DEF Dispatching
<1>6. CASE DispatchEnd(raised)
  <2>1. /\ phase = "vector" /\ phase' = "fetch"
        /\ JoypadTypeOK' /\ ie' \subseteq Sources /\ if' \subseteq Sources /\ stack' \in StackTargets
        /\ sampled' \subseteq Sources /\ jumped' \subseteq Sources
        /\ pc' = pc /\ resume' = resume
        /\ UNCHANGED <<state, op, ime, imeDelay, haltBug, shadow>>
    BY <1>1, <1>6 DEF DispatchEnd, JoypadTypeOK, joypadVars, histories, StackTargets
  <2>2. ChoiceIsCurrent'
    BY <2>1 DEF ChoiceIsCurrent
  <2>3. QED
    BY <1>1, <1>2, <2>1, <2>2, DispatchingIInv DEF Dispatching
<1>7. QED
  BY <1>3, <1>4, <1>5, <1>6

-----------------------------------------------------------------------------
\* The invariant is inductive.
LEMMA NextIInv == IInv /\ [Next]_vars => IInv'
<1> SUFFICES ASSUME IInv, [Next]_vars PROVE IInv'
  OBVIOUS
<1>1. CASE UNCHANGED vars
  BY <1>1
  DEF vars, joypadVars, cpuVars, histories, IInv, TypeOK, JoypadTypeOK, DelayIsShort,
      BusyIsRunning, DispatchIsClosed, ResumePoint, HaltedHasNothingPending,
      EiShadowIsClosed, ChoiceIsCurrent
<1>2. CASE SetButtons
  BY <1>2, SetButtonsIInv
<1>3. CASE MCycle
  <2>1. PICK raised \in SUBSET Raisable :
          \/ StoppedCycle(raised) \/ LockedCycle(raised) \/ HaltedCycle(raised)
          \/ Dispatch(raised) \/ Instruction(raised)
    BY <1>3 DEF MCycle
  <2>2. CASE StoppedCycle(raised) \/ LockedCycle(raised) \/ HaltedCycle(raised)
    BY <2>2, WaitingCycles
  <2>3. CASE Dispatch(raised)
    BY <2>3, BeginDispatchIInv, DispatchStepsIInv DEF Dispatch
  <2>4. CASE Instruction(raised)
    BY <2>4, NopIInv, HaltIInv, StopIInv, DiIInv, EiIInv, IllegalIInv, BeginLongIInv, AccessIInv
    DEF Instruction
  <2>5. QED
    BY <2>1, <2>2, <2>3, <2>4
<1>4. QED
  BY <1>1, <1>2, <1>3 DEF Next

LEMMA SpecIInv == Spec => []IInv
BY InitIInv, NextIInv, PTL DEF Spec

\* Every register keeps its width and IE, IF and the dispatch's choice name sources only.
THEOREM TypeCorrect == Spec => []TypeOK
<1>1. IInv => TypeOK
  BY DEF IInv
<1>2. QED
  BY <1>1, SpecIInv, PTL

\* Nothing can start a second dispatch inside one (Cpu.cpp:66-73).
THEOREM DispatchIsClosedAlways == Spec => []DispatchIsClosed
<1>1. IInv => DispatchIsClosed
  BY DEF IInv
<1>2. QED
  BY <1>1, SpecIInv, PTL

\* A handler returns to the first instruction that has not executed (Cpu.cpp:69-77).
THEOREM ReturnsToUnexecutedAlways == Spec => []ReturnsToUnexecuted
<1>1. IInv => ReturnsToUnexecuted
  BY DEF IInv, ResumePoint, ReturnsToUnexecuted
<1>2. QED
  BY <1>1, SpecIInv, PTL

\* A CPU halts over no request but one a button has made since (Cpu.cpp:34-41).
THEOREM HaltedHasNothingPendingAlways == Spec => []HaltedHasNothingPending
<1>1. IInv => HaltedHasNothingPending
  BY DEF IInv
<1>2. QED
  BY <1>1, SpecIInv, PTL

\* IME does not come on between an EI and the instruction after it (Cpu.cpp:57-61).
THEOREM EiShadowIsClosedAlways == Spec => []EiShadowIsClosed
<1>1. IInv => EiShadowIsClosed
  BY DEF IInv
<1>2. QED
  BY <1>1, SpecIInv, PTL

-----------------------------------------------------------------------------
(* What a step may never do.                                               *)

\* A step whose IF keeps every request it had acknowledges nothing.
LEMMA KeptRequests ==
  ASSUME NEW raised \in SUBSET Raisable,
         \/ StoppedCycle(raised) \/ LockedCycle(raised) \/ HaltedCycle(raised)
         \/ BeginDispatch(raised) \/ DispatchWait(raised) \/ DispatchEnd(raised)
         \/ Nop(raised) \/ Halt(raised) \/ Stop(raised) \/ Di(raised) \/ Ei(raised)
         \/ Illegal(raised) \/ (\E o \in LongOps : BeginLong(raised, o))
         \/ Jump(raised) \/ Reti(raised) \/ WriteIE(raised) \/ WriteP1(raised)
  PROVE  if \subseteq if'
BY DEF StoppedCycle, LockedCycle, HaltedCycle, Idle, BeginDispatch, DispatchWait, DispatchEnd,
       Nop, Halt, Stop, Di, Ei, Illegal, BeginLong, Execute, Fetch, Jump, Reti, WriteIE, WriteP1

\* A request is lost neither by an acknowledgement nothing is served for nor by a
\* cancelled dispatch (Cpu.cpp:78-94).
THEOREM NoRequestLostAlways == Spec => NoRequestLost
<1> DEFINE Kept == \A b \in if \ if' :
      \/ phase = "access" /\ op = "writeIF"
      \/ phase = "pushHigh" /\ stack' = "highToIF"
      \/ phase = "pushLow" /\ (stack = "lowToIF" \/ pc' = Vector(b))
<1>1. ASSUME Next PROVE Kept
  <2>1. CASE SetButtons
    BY <2>1 DEF SetButtons
  <2>2. CASE MCycle
    <3>1. PICK raised \in SUBSET Raisable :
            \/ StoppedCycle(raised) \/ LockedCycle(raised) \/ HaltedCycle(raised)
            \/ Dispatch(raised) \/ Instruction(raised)
      BY <2>2 DEF MCycle
    <3>2. CASE PushHigh(raised)
      BY <3>2 DEF PushHigh
    <3>3. CASE PushLow(raised)
      BY <3>3 DEF PushLow
    <3>4. CASE WriteIF(raised)
      BY <3>4 DEF WriteIF, FinishLong
    <3>5. CASE if \subseteq if'
      BY <3>5
    <3>6. QED
      BY <3>1, <3>2, <3>3, <3>4, <3>5, KeptRequests DEF Dispatch, Instruction
  <2>3. QED
    BY <1>1, <2>1, <2>2 DEF Next
<1>2. ASSUME UNCHANGED vars PROVE Kept
  BY <1>2 DEF vars
<1>3. [Next]_vars => [Kept]_vars
  BY <1>1, <1>2
<1>4. QED
  BY <1>3, PTL DEF Spec, NoRequestLost

\* The handler entered is that of the first request that was up and enabled after the
\* high push (Cpu.cpp:78-93).
THEOREM ServesFirstEnabledAlways == Spec => ServesFirstEnabled
<1> DEFINE First == phase = "pushLow" =>
      /\ jumped' \subseteq ie \cap if
      /\ \A b \in ie \cap if, j \in jumped' : j <= b
      /\ jumped' = {} => ie \cap if = {}
<1>1. ASSUME IInv, Next, phase = "pushLow" PROVE First
  <2>1. state = "Running"
    BY <1>1 DEF IInv, BusyIsRunning
  <2>2. \E raised \in SUBSET Raisable : PushLow(raised)
    BY <1>1, <2>1
    DEF Next, SetButtons, MCycle, StoppedCycle, LockedCycle, HaltedCycle, Idle, Dispatch,
        BeginDispatch, DispatchWait, PushHigh, DispatchEnd, Instruction, Nop, Halt, Stop, Di,
        Ei, Illegal, BeginLong, Execute, Fetch, Jump, Reti, WriteIE, WriteIF, WriteP1, FinishLong
  <2>3. jumped' = IF sampled = {} THEN {} ELSE {Lowest(sampled)}
    BY <2>2 DEF PushLow
  <2>4. sampled = ie \cap if /\ sampled \subseteq Sources
    BY <1>1 DEF IInv, TypeOK, ChoiceIsCurrent
  <2>5. sampled # {} => Lowest(sampled) \in sampled /\ \A c \in sampled : Lowest(sampled) <= c
    BY <2>4, LowestIsFirst
  <2>6. QED
    BY <2>3, <2>4, <2>5
<1>2. IInv /\ [Next]_vars => [First]_vars
  BY <1>1
<1>3. QED
  BY <1>2, SpecIInv, PTL DEF Spec, ServesFirstEnabled
=============================================================================
