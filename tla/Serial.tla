------------------------------- MODULE Serial ------------------------------
(***************************************************************************)
(* SB and SC (core/Serial): a transfer on the internal clock shifts one    *)
(* bit per fall of counter bit 8, with no partner on the cable so that the *)
(* bits coming in are 1.  On the external clock nothing ever shifts.       *)
(* The log of sent bytes kept for the test runner is left out.             *)
(***************************************************************************)
EXTENDS Counter

CONSTANTS
  SerialBits,  \* bits of a transfer: 8 in the code
  SbSize       \* values of SB: 256 in the code

ASSUME SerialAssumption ==
  /\ SerialBits \in Nat \ {0}
  /\ SbSize \in Nat \ {0}

VARIABLES
  sb,
  sc,          \* SC bits 7 (start) and 0 (internal)
  bitsLeft     \* bitsLeft_

serialVars == <<sb, sc, bitsLeft>>

SbValues == 0 .. SbSize - 1
ScValues == [start : BOOLEAN, internal : BOOLEAN]

SerialTypeOK ==
  /\ sb \in SbValues
  /\ sc \in ScValues
  /\ bitsLeft \in 0..SerialBits

SerialInit ==
  /\ sb = 0
  /\ sc = [start |-> FALSE, internal |-> FALSE]
  /\ bitsLeft = 0

\* The shift: the byte moves up one and a 1 enters at the bottom.
ShiftedIn(v) == (2 * v + 1) % SbSize

InternalTransfer == bitsLeft # 0 /\ sc.start /\ sc.internal

\* tick() answers whether this M-cycle completes a transfer (the interrupt).
SerialRequests(before, after) ==
  /\ InternalTransfer
  /\ CounterBitFell(before, after, SerialHalf)
  /\ bitsLeft = 1

\* Mutant: the transfer begins again instead of ending.
SerialTickForEver(before, after) ==
  IF InternalTransfer /\ CounterBitFell(before, after, SerialHalf)
  THEN /\ sb' = ShiftedIn(sb)
       /\ bitsLeft' = IF bitsLeft = 1 THEN SerialBits ELSE bitsLeft - 1
       /\ UNCHANGED sc
  ELSE UNCHANGED serialVars

SerialTick(before, after) ==
  IF InternalTransfer /\ CounterBitFell(before, after, SerialHalf)
  THEN /\ sb' = ShiftedIn(sb)
       /\ bitsLeft' = bitsLeft - 1
       /\ sc' = IF bitsLeft = 1 THEN [sc EXCEPT !.start = FALSE] ELSE sc
  ELSE UNCHANGED serialVars

WriteSb(v) ==
  /\ sb' = v
  /\ UNCHANGED <<sc, bitsLeft>>

\* Mutant: setting the start bit during a transfer carries on with it.
WriteScNoRestart(v) ==
  /\ sc' = v
  /\ bitsLeft' = IF ~v.start THEN 0 ELSE IF bitsLeft > 0 THEN bitsLeft ELSE SerialBits
  /\ UNCHANGED sb

\* Bit 7 starts a transfer, or restarts one in progress; without it the
\* transfer in progress is dropped.
WriteSc(v) ==
  /\ sc' = v
  /\ bitsLeft' = IF v.start THEN SerialBits ELSE 0
  /\ UNCHANGED sb
=============================================================================
