------------------------------ MODULE Playback -----------------------------
(* The two policies of the desktop that look at the clocks outside the       *)
(* machine, as the pure functions the code writes them as: how deep the      *)
(* sound device's queue may be (app/Audio.h, Audio.cpp) and how long a pass  *)
(* of the loop may sleep (app/FramePacer.cpp).                               *)
EXTENDS Integers

CONSTANTS
  FrameSamples,    \* stereo samples of a frame, kSamplesPerFrame: about 804
  Period           \* the wall clock's units in a frame, kFrameNs

ASSUME PlaybackAssumption ==
  /\ FrameSamples \in Nat \ {0}
  /\ Period \in Nat /\ Period > 1

LowWater == FrameSamples
Target == 2 * FrameSamples
HighWater == 3 * FrameSamples
MaxQueued == 4 * FrameSamples

\* Above the ceiling the whole excess over the target goes at once.
ExcessQueued(queued) == IF queued <= MaxQueued THEN 0 ELSE queued - Target

\* What a pass should change in the samples it pushes; one that stepped nothing, nothing.
DriftCorrection(emulated, queued) ==
  CASE ~emulated -> "none"
    [] emulated /\ queued > HighWater -> "drop"
    [] emulated /\ queued < LowWater -> "repeat"
    [] OTHER -> "none"

CorrectedCount(samples, correction) ==
  CASE samples = 0 -> 0
    [] samples > 0 /\ correction = "drop" -> samples - 1
    [] samples > 0 /\ correction = "repeat" -> samples + 1
    [] OTHER -> samples

\* Audio::reprime after a clear that left something behind: topped up to the target.
Reprimed(left) == IF left >= Target THEN left ELSE Target

-----------------------------------------------------------------------------
\* Mutant: a frame that is very late keeps the grid.
NextSlackOnGrid(slack) == IF slack > 0 THEN Period ELSE slack + Period

\* paceFrame, in terms of how far off the deadline is: it sleeps what is left, repays
\* less than a period by the next pass's sleep, and forgives the rest.
Sleep(slack) == IF slack > 0 THEN slack ELSE 0

NextSlack(slack) ==
  IF slack > 0 \/ slack <= -Period THEN Period ELSE slack + Period
=============================================================================
