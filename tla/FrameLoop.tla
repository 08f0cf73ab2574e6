------------------------------ MODULE FrameLoop ----------------------------
(***************************************************************************)
(* The two front ends' ways of running the machine one frame at a time:    *)
(* the desktop's main loop (app/main.cpp), which steps until the PPU has   *)
(* counted a frame, and the page's tick (web/fourshades.js), which calls   *)
(* fs_run_frame (web/wasm_main.cpp) a limited number of times for a limited*)
(* number of cycles.                                                       *)
(*                                                                         *)
(* Of the machine there is what decides when a frame ends: where the PPU   *)
(* is, whether the LCD is on, and whether the CPU is in STOP, which stops  *)
(* the PPU's clock.  The program it runs may do anything at any step.      *)
(*                                                                         *)
(* The desktop's passes also feed the sound device and sleep (Playback):   *)
(* a step of the machine makes a sample, the device plays while the loop   *)
(* is elsewhere, and a pass takes its time.                                *)
(***************************************************************************)
EXTENDS Playback

CONSTANTS
  FrameSteps,      \* steps of the machine in a frame
  VBlankStep,      \* the step of a frame that enters line 144 and counts it
  CallSteps,       \* steps of a call of fs_run_frame: MAX_CYCLES_PER_CALL
  CallsPerFrame,   \* calls the page makes for one frame: 9 in the code
  MaxCatchup,      \* MAX_CATCHUP_FRAMES
  Burst,           \* samples of a pass that are told apart
  Played,          \* samples the device may play in a pass
  Remainders,      \* samples a clear of the device's queue may leave behind
  Durations,       \* what a pass may take, in the wall clock's units
  Overruns         \* by how much a sleep may be too long, in the same units

ASSUME FrameLoopAssumption ==
  /\ FrameSteps \in Nat
  /\ VBlankStep \in 1 .. FrameSteps - 1
  /\ CallSteps \in Nat \ {0}
  /\ CallsPerFrame \in Nat \ {0}
  /\ MaxCatchup \in Nat \ {0}
  /\ Burst \in Nat \ {0}

ASSUME ClocksAssumption ==
  /\ Played \subseteq Nat
  /\ Durations \subseteq Nat
  /\ Overruns \subseteq Nat

\* SDL clears what it has not handed to the device yet; that is less than the drift
\* policy's band is high.
ASSUME RemaindersAssumption == Remainders \subseteq 0..HighWater

VARIABLES
  desktop,    \* TRUE: app/main.cpp; FALSE: the page.  No step changes it
  held,       \* the player holds a button
  buttons,    \* the joypad's pressed_: the button as the machine sees it
  told,       \* history: the page has sent the buttons to this machine
  selected,   \* P1 selects the button's group
  stopped,    \* the CPU is in STOP
  lcd,        \* LCDC bit 7
  dot,        \* where the PPU is in the frame
  host,       \* "events", "frame" while the machine is stepped, "present" or "pace"
  due,        \* frames left to run in this pass
  calls,      \* calls left for this frame
  steps,      \* steps left of this call
  open,       \* the sound device opened
  paused,     \* the desktop is paused
  pending,    \* samples of this pass: AudioResampler::pending()
  queue,      \* samples the device still has to play
  corrected,  \* the last push's drift correction
  trimmed,    \* the last pass cut the backlog
  slack,      \* nextFrameDeadline, as time from now
  lead        \* history: how far passes have run ahead of the clock, which gains on
              \* them as time goes by and never more than it has lost

front == <<desktop, held>>
machine == <<buttons, told, selected, stopped, lcd, dot>>
loop == <<due, calls, steps>>
sound == <<open, pending, queue, corrected, trimmed>>
pace == <<slack, lead>>
loopVars == <<front, machine, host, loop, paused, sound, pace>>

LoopTypeOK ==
  /\ desktop \in BOOLEAN
  /\ held \in BOOLEAN /\ buttons \in BOOLEAN /\ told \in BOOLEAN /\ selected \in BOOLEAN
  /\ stopped \in BOOLEAN /\ lcd \in BOOLEAN
  /\ dot \in 0 .. FrameSteps - 1
  /\ host \in {"events", "frame", "present", "pace"}
  /\ due \in 0..MaxCatchup
  /\ calls \in 0..CallsPerFrame
  /\ steps \in 0..CallSteps
  /\ open \in BOOLEAN /\ paused \in BOOLEAN /\ trimmed \in BOOLEAN
  /\ pending \in 0..Burst /\ queue \in Nat
  /\ corrected \in {"none", "drop", "repeat"}
  /\ slack \in Int /\ lead \in Nat

LoopInit ==
  /\ desktop \in BOOLEAN
  /\ held = FALSE /\ buttons = FALSE /\ told = FALSE /\ selected = TRUE
  /\ stopped = FALSE /\ lcd = TRUE /\ dot = FrameSteps - 1
  /\ host = "events"
  /\ due = 0 /\ calls = 0 /\ steps = 0
  /\ open \in BOOLEAN
  /\ queue = (IF open THEN Target ELSE 0)
  /\ paused = FALSE /\ pending = 0 /\ corrected = "none" /\ trimmed = FALSE
  /\ slack = Period /\ lead = 0

-----------------------------------------------------------------------------
\* Mutant: the page's handler does not reach the machine.
PressUnheard ==
  /\ held' = ~held
  /\ desktop \/ host = "events"
  /\ told' = (told \/ ~desktop)
  /\ UNCHANGED <<desktop, buttons, selected, stopped, lcd, dot, host, loop, paused, sound, pace>>

\* The player acts when he likes.  The desktop asks for the keyboard once a pass;
\* the page's handler reaches the machine at once, but a handler only ever runs
\* between two passes.
Press ==
  /\ held' = ~held
  /\ desktop \/ host = "events"
  /\ buttons' = IF desktop THEN buttons ELSE held'
  /\ told' = (told \/ ~desktop)
  /\ UNCHANGED <<desktop, selected, stopped, lcd, dot, host, loop, paused, sound, pace>>

\* A button of the other group goes down or up: the page sends all it knows to be held.
PressOther ==
  /\ ~desktop
  /\ host = "events"
  /\ buttons' = held
  /\ told' = TRUE
  /\ UNCHANGED <<front, selected, stopped, lcd, dot, host, loop, paused, sound, pace>>

\* The queue after Audio::reprime, whose clear may leave some of it.
Cleared(rest) == Reprimed(IF rest < queue THEN rest ELSE queue)

\* Space.  Resuming primes the device again, which the pause has let run dry.
TogglePause(rest) ==
  /\ desktop
  /\ host = "events"
  /\ paused' = ~paused
  /\ queue' = IF open /\ ~paused' THEN Cleared(rest) ELSE queue
  /\ UNCHANGED <<front, machine, host, loop, open, pending, corrected, trimmed, pace>>

\* A machine just built: no button is down, as far as its joypad knows.
NewMachine ==
  /\ buttons' = FALSE /\ told' = FALSE
  /\ selected' = TRUE /\ stopped' = FALSE /\ lcd' = TRUE /\ dot' = FrameSteps - 1

\* R, or a dropped ROM: another machine, and a queue that belonged to the old one.
DesktopReset(rest) ==
  /\ desktop
  /\ host = "events"
  /\ NewMachine
  /\ paused' = FALSE
  /\ pending' = 0
  /\ queue' = IF open THEN Cleared(rest) ELSE queue
  /\ UNCHANGED <<front, host, loop, open, corrected, trimmed, pace>>

\* reset() and load() on the page.  Nothing sends the buttons that are held to the new
\* machine, and a key that repeats is not looked at.
PageReset ==
  /\ ~desktop
  /\ host = "events"
  /\ NewMachine
  /\ UNCHANGED <<front, host, loop, paused, sound, pace>>

\* SDL_PollEvent is drained and setButtons called, then the frame begins; a pass that is
\* paused goes straight to the picture.  A frame is a period of the machine's time.
DesktopPass ==
  /\ desktop
  /\ host = "events"
  /\ buttons' = IF paused THEN buttons ELSE held
  /\ due' = IF paused THEN 0 ELSE 1
  /\ host' = IF paused THEN "present" ELSE "frame"
  /\ lead' = IF paused THEN lead ELSE lead + Period
  /\ UNCHANGED <<front, told, selected, stopped, lcd, dot, calls, steps, paused, sound, slack>>

\* tick(): as many frames as elapsed time says, up to the catch-up limit.
WebPass ==
  /\ ~desktop
  /\ host = "events"
  /\ due' \in 1..MaxCatchup
  /\ calls' = CallsPerFrame
  /\ steps' = CallSteps
  /\ host' = "frame"
  /\ UNCHANGED <<front, machine, paused, sound, pace>>

-----------------------------------------------------------------------------
\* GameBoy::step.  A stopped CPU lets one M-cycle pass, without the PPU, and looks
\* at the joypad's lines.
StoppedStep ==
  /\ stopped
  /\ stopped' = ~(buttons /\ selected)
  /\ UNCHANGED <<selected, lcd, dot>>

\* Any other instruction lets the PPU move on if the LCD is on.
Continue ==
  /\ dot' = IF lcd THEN (dot + 1) % FrameSteps ELSE dot
  /\ UNCHANGED <<selected, stopped, lcd>>

EnterStop ==
  /\ stopped' = TRUE
  /\ dot' = IF lcd THEN (dot + 1) % FrameSteps ELSE dot
  /\ UNCHANGED <<selected, lcd>>

WriteP1 ==
  /\ selected' \in BOOLEAN
  /\ dot' = IF lcd THEN (dot + 1) % FrameSteps ELSE dot
  /\ UNCHANGED <<stopped, lcd>>

\* Either way the PPU is at the top of the picture.
SwitchLcd ==
  /\ lcd' = ~lcd
  /\ dot' = 0
  /\ UNCHANGED <<selected, stopped>>

RunningStep ==
  /\ ~stopped
  /\ Continue \/ EnterStop \/ WriteP1 \/ SwitchLcd

MachineStep == (StoppedStep \/ RunningStep) /\ UNCHANGED <<buttons, told>>

\* Mutant: the entry of VBlank is looked for one step late.
FrameCountedLate == dot = VBlankStep /\ dot' = VBlankStep

\* The PPU counts a frame in this step.
FrameCounted == dot = VBlankStep - 1 /\ dot' = VBlankStep

\* One step of the inner loop of main: it ends with the frame and only then.  The
\* resampler is pumped after every step.
DesktopStep ==
  /\ desktop
  /\ host = "frame"
  /\ MachineStep
  /\ host' = IF FrameCounted THEN "present" ELSE "frame"
  /\ due' = IF FrameCounted THEN 0 ELSE due
  /\ pending' = IF pending < Burst THEN pending + 1 ELSE Burst
  /\ UNCHANGED <<front, calls, steps, paused, open, queue, corrected, trimmed, pace>>

\* A frame is over when it is counted, or when the last call's cycles are spent.
Over == FrameCounted \/ (steps = 1 /\ calls = 1)

\* One step of fs_run_frame.  A call ends with the frame or with its cycles; a frame
\* is given up after its calls.
WebStep ==
  /\ ~desktop
  /\ host = "frame"
  /\ MachineStep
  /\ host' = IF Over /\ due = 1 THEN "present" ELSE "frame"
  /\ due' = IF Over THEN due - 1 ELSE due
  /\ calls' = IF Over THEN CallsPerFrame
              ELSE IF steps = 1 /\ calls > 1 THEN calls - 1 ELSE calls
  /\ steps' = IF Over \/ steps = 1 THEN CallSteps ELSE steps - 1
  /\ UNCHANGED <<front, paused, sound, pace>>

\* The picture is drawn and the page's pass is over.
WebPresent ==
  /\ ~desktop
  /\ host = "present"
  /\ host' = "events"
  /\ UNCHANGED <<front, machine, loop, paused, sound, pace>>

\* Mutant: the drift policy is asked about the queue as it was before the cut.
PushSoundStale(left, rest) ==
  /\ trimmed' = (ExcessQueued(left) > 0)
  /\ corrected' = DriftCorrection(~paused, left)
  /\ queue' = (IF trimmed' THEN Reprimed(rest) ELSE left) + CorrectedCount(pending, corrected')

\* Mutant: the cut tops the queue up without having cleared it.
PushSoundUncleared(left, rest) ==
  LET from == IF ExcessQueued(left) > 0 THEN Reprimed(left) ELSE left
  IN /\ trimmed' = (ExcessQueued(left) > 0)
     /\ corrected' = DriftCorrection(~paused, from)
     /\ queue' = from + CorrectedCount(pending, corrected')

\* The device's queue is read once; the ceiling is applied, of which the clear may leave a
\* rest, then the drift policy looks at what the cut left, and the pass's samples are pushed.
PushSound(left, rest) ==
  LET from == IF ExcessQueued(left) > 0 THEN Reprimed(rest) ELSE left
  IN /\ trimmed' = (ExcessQueued(left) > 0)
     /\ corrected' = DriftCorrection(~paused, from)
     /\ queue' = from + CorrectedCount(pending, corrected')

\* The device has played since the last pass.
DesktopPresent(played, rest) ==
  /\ desktop
  /\ host = "present"
  /\ IF open THEN PushSound(IF queue > played THEN queue - played ELSE 0, rest)
     ELSE UNCHANGED <<queue, corrected, trimmed>>
  /\ pending' = 0
  /\ host' = "pace"
  /\ UNCHANGED <<front, machine, loop, paused, open, pace>>

Drained(elapsed) == IF lead > elapsed THEN lead - elapsed ELSE 0

\* The pass has taken duration; the loop sleeps, perhaps for too long.
Pace(duration, over) ==
  LET left == slack - duration
      slept == Sleep(left) + (IF Sleep(left) > 0 THEN over ELSE 0)
  IN /\ desktop
     /\ host = "pace"
     /\ slack' = NextSlack(left) - (slept - Sleep(left))
     /\ lead' = Drained(duration + slept)
     /\ host' = "events"
     /\ UNCHANGED <<front, machine, loop, paused, sound>>

Present ==
  \/ WebPresent
  \/ \E played \in Played, rest \in Remainders : DesktopPresent(played, rest)
  \/ \E duration \in Durations, over \in Overruns : Pace(duration, over)

Key ==
  \/ \E rest \in Remainders : TogglePause(rest) \/ DesktopReset(rest)
  \/ PressOther
  \/ PageReset

Pass == DesktopPass \/ WebPass
Step == DesktopStep \/ WebStep

LoopNext == Press \/ Key \/ Pass \/ Step \/ Present

LoopSpec == LoopInit /\ [][LoopNext]_loopVars

\* The front end never sleeps for ever; the player owes nothing.
FairSpec == LoopSpec /\ WF_loopVars(Pass) /\ WF_loopVars(Step) /\ WF_loopVars(Present)

-----------------------------------------------------------------------------
Held == stopped /\ selected /\ held

\* "STOP is terminated by one of the P10 to P13 lines going low" (Cpu.cpp:7): a
\* player who holds a selected button gets the machine out of STOP.
HeldButtonEndsStop == (desktop /\ Held) ~> (~stopped \/ ~held)

\* The same of the page, where a button held while the machine is reset is not known to
\* the new one.
HeldButtonEndsStopAfterReset == (~desktop /\ Held) ~> (~stopped \/ ~held)

\* On the page he does once the machine has been sent any button's change, because every
\* frame is given up after its calls and the handler runs between two ticks
\* (fourshades.js:214-220, 412-434).
HeldButtonEndsStopOnPage == (~desktop /\ Held /\ told) ~> (~stopped \/ ~held)

\* As long as the LCD is on and the CPU is not in STOP, passes keep ending on
\* either front end (main.cpp:502-513).
PassesEndWhileLcdRuns == <>[](lcd /\ ~stopped) => []<>(host = "events")

\* The two policies for the sound are kept apart: a pass that cut the backlog corrects
\* nothing, because it looks at the queue again (main.cpp:546-556, Audio.h:144-148).
PoliciesKeepApart == trimmed => corrected = "none"

\* A step in the queue, as a program makes by switching the LCD off, does not outlive the
\* next pass, and steps do not add up: beyond the ceiling there is never more than one
\* pass's sound (Audio.h:101-142, Audio::reprime).
LatencyIsBounded == queue <= MaxQueued + Burst

\* However long a pass takes or a sleep overruns, the passes after it do not catch up in a
\* burst: in no stretch of time do more passes begin than it has periods and less than three
\* besides - the first, one its whole length ahead of its deadline, and what a late pass may
\* repay, which is less than a period (FramePacer.h:50-67).
NoBurstOfPasses == lead < 3 * Period
=============================================================================
