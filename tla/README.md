# A model of FourShades

FourShades is a Game Boy (DMG) emulator in C++: a core that steps one M-cycle at
a time, a desktop front end on SDL, and a page that runs the same core in
WebAssembly.  The modules here model its control: which state each part keeps,
what each call does to it and in which order, and what must hold whatever a
program, a player, a disk or a browser does.  TLC checks the models on small
instances; TLAPS proves some of the properties for every instance.

Read a module beside the source it names: every definition is one function, one
branch of one, or one statement, and `PROJECT.json` ("map") gives its lines.

## The system

| Part | Source | State | Operations | What is hard |
|---|---|---|---|---|
| System counter, timer | `src/core/Timer` | counter, the bits that fell, TIMA, TMA, TAC, overflow and reload cycles | `tick`, `write` | the M-cycle is a tick and then an access, and both can make an edge |
| Serial port | `src/core/Serial` | SB, SC, bits left | `tick`, `write` | restarts and drops in mid-transfer |
| Sound chip | `src/core/apu` | frame sequencer, registers, four channels with length, envelope, sweep, wave RAM, noise register | `tick`, `counterWritten`, `write`, triggers, power | hangs off the timer's counter; extra length clocks; wave RAM read and written behind the channel; NR52 must tell the truth |
| PPU | `src/core/Ppu` | LCD registers, mode, line, dot, STAT line, LYC's comparison | `tick`, `write`, locks, OAM corruption | one level for all STAT sources; locks that trail the mode; LCD on and off; STOP |
| Pixel pipeline | `src/core/PixelPipeline` | fetcher, FIFO, object slots, the window's X counter | `stepDot`, `dotsRemaining` | fine scroll, window and objects on one dot; mode 3's length predicted before the line is over |
| Cartridge | `src/core/Cartridge`, `mbc` | banks, RAM, clock | `read`, `write`, `tick` | masks and out-of-range values |
| Machine | `src/core/GameBoy` | WRAM, HRAM, IE, IF, OAM DMA | `read`, `write`, `idle`, `haltedCycle` | the order of the devices in a tick; bus conflicts |
| CPU | `src/core/Cpu*` | registers, IME, EI's delay, HALT bug, run state | `step` | requests at any M-cycle; pushes onto IE and IF |
| Joypad | `src/core/Joypad` | buttons, selection | `setButtons`, `write` | edge for the interrupt, level for STOP |
| Battery saves | `app/Save` | the save, the scratch file beside it | `loadSave`, `writeSave` | failures, kills, power cuts, other instances |
| Session | `app/main.cpp`, `AppController` | ROM, machine, what its save was | load, drop, reset, pause, exit | the status is decided once and used much later |
| Desktop loop | `app/main.cpp`, `Audio*`, `FramePacer` | deadline, audio queue | one pass a frame | the pass ends when the PPU says so; the device's clock, the wall clock and the machine's drift apart |
| Page | `web/fourshades.js`, `wasm_main.cpp` | the machine, stored saves, snapshot of the last store | `tick`, handlers, flush timer | storage that fails, tabs that vanish |

How they interact.  The core is sequential and driven by calls: a front end calls
`GameBoy::step`, the CPU executes an instruction as a sequence of bus calls, and
every bus call first lets the hardware tick (timer, serial, PPU, sound,
cartridge, DMA, in this order) and then performs the access.  That makes the
M-cycle a pair of steps with an order that matters: a write lands after every
device has been asked what happened in this M-cycle.  The front ends decide when
the machine is stepped, when it hears of buttons and when its RAM is saved; the
only concurrency is between copies of the program, the disk and the outside world
(kills, power cuts, storage that throws).

## Modules

| Module | Models | Composed in |
|---|---|---|
| `Counter` | the counter and its falling bits (`Timer::counterBitFell`, `noteFalls`) | everything that hangs off it |
| `Timer` | one operator per call into `Timer` | `Clockwork` |
| `Serial` | one operator per call into `Serial` | `Clockwork` |
| `FrameSequencer` | `Apu::clockFromCounter` and NR52's power | `Clockwork` |
| `Clockwork` | `GameBoy::tick` and `writeIo` as far as the counter goes: `Tick`, then at most one `Access` | |
| `SoundUnits` | length counter, sweep, shift register and wave reader as operators on records | `Apu` |
| `Apu` | `Apu::tick`, `clockFromCounter`, `write` and the triggers: what switches channels on and off | |
| `Ppu` | `Ppu::tick` and its register writes, an M-cycle of four dots at a time | |
| `PixelPipeline` | `PixelPipeline::stepDot` and `dotsRemaining`, and the start and end `Ppu::stepDot` gives them: one line, dot by dot | |
| `Rtc` | `mbc/Rtc`: one operator per method, and what a second is, counter by counter | `Cartridge` |
| `Cartridge` | `Cartridge::load`, its copies, `Mbc1` to `Mbc5`, the clock, and `loadRom`, `reset`, a power cycle around them | |
| `OamDma` | `tickDma`, `dmaBlocks` and the CPU's writes around them | |
| `Joypad` | the button matrix | `Cpu` |
| `Cpu` | `Cpu::step` and the dispatch, one step per M-cycle, any program | |
| `SaveStore` | what `app/Save` promises: a save goes from one whole image to another at a stroke | refined by `Session` |
| `Session` | `loadRomFromPath`, `saveSession`, `loadSave`, `writeTempFile`, `commitTempFile`, `AppController`, one step per system call | |
| `Playback` | the queue's ceiling, re-priming and drift correction, and `paceFrame`, as the pure functions they are | `FrameLoop` |
| `FrameLoop` | the main loop of either front end around the part of the machine that decides when a frame ends, with the desktop's sound device and sleep | |
| `WebSave` | the page's saves over storage that may fail | |
| `ClockworkProofs`, `ApuProofs`, `CpuProofs`, `CartridgeProofs`, `SessionProofs`, `PixelPipelineProofs` | theorems about the module each is named after; `CartridgeProofs` has the clock's, of `Rtc`, too | |
| `VideoProofs` | theorems about `OamDma` and `Ppu` | |
| `FrontEndProofs` | theorems about `FrameLoop` and `WebSave` | |

`MC*` modules give the constants values for TLC.  `desktop` in `FrameLoop` is a
variable that no step changes, so that one run covers both front ends.

Variables have the code's names without the underscore (`dmaIndex` is
`dmaIndex_`).  A variable marked "history" in its declaration is not in the code:
it records what a property needs and no guard reads it.

A definition under a comment that begins with `Mutant:` is not part of the model.
It is the definition below it with a plausible mistake in it, kept to show that
the property named beside it in `PROJECT.json` notices.

No module holds the whole machine.  The parts meet in the M-cycle, and each module
takes what the others can do to it as a choice: `Cpu` may see any request raised in
any M-cycle, `Ppu` gives the requests it raises, `Apu` may see the sequencer's edge
in any M-cycle and `Clockwork` says where that edge comes from, `Ppu` lets a line's
drawing take any number of dots and `PixelPipeline` says how many.  A choice is
weaker than the part it stands for, so what holds under it holds in the machine.

### What is abstracted

* The counter counts M-cycles: `counter_` only ever holds multiples of four.  A
  bit is named by its half-period.  Its size and the bits that matter are
  constants, so that TLC can run a counter of 16 or 32 M-cycles whose bits keep
  the order of the real ones.
* An instruction is what it does to the interrupt state.  Those that reach the
  bus beyond their opcode take one more M-cycle, where the code takes one to five.
  Memory may hold any program; a program counter of a few addresses is enough
  because the properties only compare addresses.  A dispatch's stack pointer is
  where its two pushes land: on IE, IF, P1 or plain memory.
* A DMA page stands for the high byte of the source after the echo mapping.  The
  PPU's locks and its OAM corruption are choices.
* A save is a length, the contents of its RAM and whether its bytes are on the
  disk.  The clock footer counts by its length only.
* A ROM is the header bytes that decide something and a number of logos.  Cartridge
  RAM is the set of cells that were written, so that its real sizes cost nothing;
  bank registers, sizes and addresses are the real ones.  All controllers share one
  record of registers (its comment says which field is which).  Whose RAM the
  controller's pointer means is a field of its own.
* The clock has the code's registers with narrower widths: they are constants, as
  are its limits and the M-cycles in a second.  A number's mask of w bits is a
  remainder, dayHigh is the set of its bits.
* Reads, which change nothing but the OAM corruption, are left out.
* The PPU in `FrameLoop` is a position in a frame of a few steps, an LCD that is on
  or off and a clock that STOP stops.  In `Ppu` a line has a few M-cycles, a frame a
  few lines, and mode 3 any length from `DrawLengths`.
* A pixel in `PixelPipeline` is where it came from: the map column and the pixel of
  the tile, with the layer each of the fetch's three reads saw.  Colours, palettes
  and SCY are not told apart, and every pixel of an object is opaque.  That is what
  makes a mixed fetch visible, which two equal tiles would hide.
* A sound channel is whether it is on, its DAC, its length, and for channels 1, 3
  and 4 sweep, wave reader and shift register.  Envelope, duty and mixer decide what
  is heard and nothing else; the pulse and noise timers are a choice of when.
  Frequencies have a few bits and the shift register four.
* Sound in `FrameLoop` is a number of samples: a step of the machine makes one, and
  of a pass longer than `Burst` samples no more are told apart.  The deadline is its
  distance from now, in units of which a frame has `Period`.  A sleep may overrun by
  anything in `Overruns`, as `SDL_DelayNS` may, and `lead` adds a period for each pass
  that begins and takes off the time that goes by.  `SDL_ClearAudioStream` leaves
  anything in `Remainders`, which is assumed to lie below the drift band's upper mark:
  what SDL has already handed to the device.
* `told` in `FrameLoop` is history: whether the page has sent its buttons to the machine
  it has now.  `reset()` and `load()` build a machine that knows of none (`NewMachine`).

## Runs

All runs check deadlock but `MCPipeline`, whose line ends.  Bounds are in the .cfg
files, and named.

| Run | Bounds | Shows |
|---|---|---|
| `MCClockwork` | counter 32, four TAC bits and the serial clock at half-periods 2 to 16, TIMA of two values, two-bit transfers, two sequencer steps | `OverflowReadsZero`, `SerialInterruptAfterWholeByte`, `InterruptPerWrap`, `TimaRateIsExact`, `SequencerFollowsBit12`; `TransferEnds` |
| `MCApu` | three-bit frequencies, lengths of two and three, a shift register of four bits, two bytes of wave RAM, a program that plays channel 1, 3 or 4 with four writes | `OnMeansPlaying`, `NoiseIsAlive`, `LengthFollowsItsGate`, `SweepStopsInTime`; `NotesEnd` |
| `MCPpu` | four lines, two of them drawn, of six M-cycles, mode 3 of 5 or 10 dots, three writes a frame | `LocksCoverUse`, `FrameIsExact`, `SourcesRequestTheirCount`, `SwitchingKeepsComparison` |
| `MCPipeline` | a line of 16 pixels, three SCX, six WX, six lists of objects, two writes to SCX, WX or LCDC | `PictureIsTheReference`, `ModeThreeIsExact`, `FetchIsWhole`, `MergedInPlace` |
| `MCOamDma` | transfers of three bytes, one page on each bus, two byte values | `CopyFollowsWrite`, `TransferIsSnapshot` |
| `MCCpu` | three interrupts (PPU, another, joypad), one button, four addresses | `DispatchIsClosed`, `ReturnsToUnexecuted`, `NoRequestLost`; `HaltWakes` |
| `MCCartridge` | a header of each kind the loader tells apart; the ends of each address range; seconds of 0 and 1 in a register of four values, days of two bits; 9 seconds of catch-up | `AccessesStayInside`, `PristineIsAsLoaded`, `CatchUpIsSecondBySecond`, `CarryIsKept` |
| `MCSession` | one instance, three ROMs of which two share a save path, saves of up to three bytes | `UnreadSaveIsKept`, `RamIsSavedBeforeItGoes`, and `SaveIsReplacedWhole`: `Session` implements `SaveStore` |
| `MCFrameLoop` | frames of five steps, calls of two, three calls a frame, two frames of catch-up; passes of up to 12 samples and 7 units of time, sleeps too long by 0, 1 or 5 units, a device that plays 0, 4, 5 or 6 samples a pass, a clear of its queue that leaves 0 or 12 | `PoliciesKeepApart`, `LatencyIsBounded`, `NoBurstOfPasses`; `HeldButtonEndsStopOnPage`, `PassesEndWhileLcdRuns` |
| `MCWebSave` | a game, a hack with its header and other RAM, a game with its file name, one without a battery | `SnapshotIsStored`, `ResetKeepsRam`, `LoadDestroysNothing` |

Why the bounds are enough.  In `Clockwork` what can happen depends on which bits
fall in the same M-cycle, whether TIMA is at its last value and what was written
in this M-cycle or the one before; a counter of 32 has bits that fall alone, bits
that fall together and a wrap where all fall, and TIMA reaches its last value
under each of them.  In `Apu` two values of a length are one that is clocked and one
that expires; all eight steps of the sequencer are there; three-bit frequencies
overflow in the first, the second or no calculation of the sweep; four writes are a
DAC, a length, a trigger and one to disturb them.  In `Ppu` a drawn line follows the
vertical blank, another drawn line, and comes before both; the last line, on which
LY changes twice, follows one that is not; the two lengths of mode 3 end in different
M-cycles.  In `PixelPipeline` a line of 16 pixels is two tiles and the fraction of
a third; WX is off the screen on the left, at its edge, inside and across a tile's
edge, beyond the right; objects are apart, on one tile, out of OAM order, cut by the
left edge, and met on the line's last pixel, where the window can start too.  In `OamDma` three bytes give a first, a
middle and a last, and FF46 may be written in each M-cycle, so up to four writes
overlap.  In `Cpu` three sources give one to serve, one that outranks it and one that
STOP does or does not freeze; EI's delay, the HALT bug and the dispatch are bounded
by themselves.  In `Cartridge` the headers have the smallest and largest ROM, every
RAM size, a multicart and one that misses it by a logo; bank writes reach every
branch of every controller; the clock's catch-up of 9 seconds is longer than its
longest way through values out of range and passes the end of its day counter.  In
`Session` the lengths make a file that fits one ROM, both or neither.  In
`FrameLoop` a frame is longer than one call and may be longer than all calls of a
frame; the device plays less than, as much as and more than a frame makes, and passes
are on time, late by less than a period and by more than one, and so are sleeps.

### Where the program does not do what its text says

Two runs end in a counterexample; `PROJECT.json` ("findings") quotes the text.

| Run | Violates | What happens |
|---|---|---|
| `MCDesktopStop` | `HeldButtonEndsStop` | the desktop never leaves its inner loop once the CPU is in STOP, so no key reaches it |
| `MCLycHole` | `HeldOffOnlyWhenLyChanges` | the comparison is held off as line 0 begins although LY has read 0 since the line before: LYC = 0 interrupts twice a frame, and LYC = 153 never |

The modules state some more of what the texts say that the models refute, or hold
only under a condition the runs set.  No run lists these; each can be seen by the
change named.

| Text | To see it | What happens |
|---|---|---|
| `Save.cpp:161`: a save that could not be read is not written over | `ProbeMayFail = TRUE` in `MCSession.cfg` | an error of `exists()` (`Save.cpp:180`) is taken for "no save yet"; `UnreadSaveIsKept` fails |
| `Save.h:153`: the old save or the new one | two instances and one ROM in `MCSession.cfg` | the instances share a scratch file (`Save.cpp:270`) and one commits what the other has half written; `SaveIsReplacedWhole` fails |
| `fourshades.js:319`: a refused save is left alone | `RefusedSaveIsLeftAlone` in `MCWebSave.cfg` | the next flush writes over it (`fourshades.js:347`) |
| `wasm_main.cpp:44`, `178`: a reset keeps neither battery RAM nor the clock | `ResetDropsRam` in `MCWebSave.cfg` | `fs_reset` by itself does so, but the page's `reset()` stores the RAM before it and restores it after (`fourshades.js:287-289`): the RAM is kept (`ResetKeepsRam`), and only the clock starts over |
| `Cpu.cpp:7`: STOP is ended by a line going low | `HeldButtonEndsStopAfterReset` in `MCFrameLoop.cfg` | a button held while the page resets or loads is not sent to the new machine (`fourshades.js:263-293`), and its repeats are ignored (`222`): it does not end STOP until a button changes.  `HeldButtonEndsStopOnPage` speaks of a machine that has been `told` |
| the window is placed by WX | `WindowIsPlacedByWx` in `MCPipeline.cfg` | with WX of 7 or less it is moved left by SCX's fine scroll |
| `PixelPipeline.h:58`: a line's penalties add up | `ModeThreeIsAdditive` in `MCPipeline.cfg` | an object fetched on the dot the window starts makes the line three dots shorter, fewer when that is in its last pixels; the prediction (`ModeThreeIsExact`) knows it |

Three more things the models show and no text denies.  The noise register reaches
the state `NoiseChannel.h:73` calls unreachable when NR43 switches it from wide to
narrow on the wrong state: `NoiseIsAlive` excepts that.  The boot ROM's note on
channel 1 has a length of 0, so that enabling its length never ends it:
`OnMeansPlaying` and `NotesEnd` except it until the channel is triggered.  On the
line the LCD is switched on in, the locks are open for the first M-cycle of drawing:
`LocksCoverUse` excepts it.

## Fairness

* `Clockwork`, `Cpu`: weak fairness of the M-cycle (in `Clockwork` of `Tick` and of
  the access that writes nothing).  A front end never stops stepping a machine
  that runs, `step` always spends at least one M-cycle, and no call of the core
  blocks.  No fairness for writes, interrupts or the player: nobody owes one.
* `Apu`: weak fairness of the M-cycle that shows the sequencer its edge.  The counter
  never stops but in STOP, and its bit falls every few M-cycles whatever is written,
  short of a program that clears it for ever.  None for writes, of which a program
  has `MaxWrites`.
* `FrameLoop`: weak fairness of a pass, of a step of the machine and of the end of
  a pass, each of which is the next thing a single thread does.  None for the
  player.  What the program does at a step is free.
* `Session`, `WebSave`, `OamDma`, `Cartridge`, `Ppu`, `PixelPipeline`: safety only,
  no fairness.

## Proofs

`ClockworkProofs` proves for every `CounterSize` (even), every choice of TAC's
bits, the serial clock and the sequencer bit, every width of the registers and
every set of registers the program writes:

* `TypeCorrect`: `Spec => []TypeOK`.
* `OverflowReadsZeroAlways`: in the cycle after a wrap TIMA is 0.
* `ReloadIsExactAlways`: after the tick of a reload TIMA is TMA and has not
  wrapped again.
* `InterruptPerWrapAlways`: one timer interrupt for each wrap not written over, if
  TIMA has two values or more.
* `SerialInterruptAfterWholeByteAlways`.
* `TimaRateIsExactAlways`: one count in every period of the bit TAC selects.
* `SequencerFollowsBit12Always`: in an M-cycle that leaves NR52 alone the frame sequencer
  steps once if bit 12 was dropped in it, by the tick or by a DIV write, else not at all.
  `SequencerIsAsked` ties `fell` and `steppedThisCycle` to the M-cycle's history.

Neither the second nor the third is inductive.  The reload could only go wrong if the tick
that reloads TIMA counted as well, and whether it can depends on the counter: the
invariant needs to know that a wrap is never followed by an edge in the next
tick.  `WrapIsQuiet` says why.  A bit only falls in a tick when all the bits below
it were set, so the counter is odd before and even after (`OddAtFall`,
`EdgeMakesEven`); a wrap made by a tick or by a DIV write therefore leaves the
counter even, and the next tick, from an even value, drops nothing.  A wrap made
by a TAC write leaves the counter anywhere but the watched level low, and a low
level has no edge to give.  `IInv` is `TypeOK`, the two properties and
`WrapIsQuiet`; there is one lemma per action, and the theorems follow from
`SpecIInv`.  The assumptions are those of the modules: the counter's size is even
and positive, half-periods are positive, and TIMA has at least one value.

`TimaRateIsExactAlways` has an invariant of its own: while neither DIV nor TAC is
written, the M-cycles since the bit's last fall are the counter's remainder by the
bit's period, so the bit falls when the remainder ends.  The counter's wrap keeps the
remainder because the period divides the counter's size; `BitsAssumption` in `Counter`
says so, and any bit of a binary counter has it.

`CartridgeProofs` proves for every set of headers, addresses, bytes, saves and
times away, and every width of the clock's registers:

* `TypeCorrect`: `Spec => []TypeOK`.
* `AccessesStayInsideAlways`: no access leaves the ROM, and none that reaches RAM
  leaves the RAM of the machine's own cartridge.
* `PristineIsAsLoadedAlways`: the image that resets start from never changes.
* `CatchUpAlways`: catching up on n seconds agrees with n single ones, in every
  state, for every n.
* `CarryIsKeptAlways`: the day counter's carry stays until dayHigh is written.

The first three are inductive only together: that a write cannot reach the pristine
image rests on whose RAM the machine's controller points at, which rests on every
copy binding it anew.  `IInv` adds `machine.bound = "machine"`.  `RomInside` and
`RamInside` are the arithmetic: a masked bank is below the count, and the count is
not 0 where RAM is reachable.

`CatchUpAlways` follows from `TypeOK` and from `CatchUpIsCounting`,
about the arithmetic alone.  `AdvanceOneMoreSecond` is its step: n + 1 seconds are n
and then one more.  It holds counter by counter (`FieldOneMore` and the lemmas
before it): `CountOn` splits n + 1 by the period into the same carries as n, plus
one when the last step leaves the limit; a value out of range counts to the end of
its register first.  `AdvanceOneSecond` says that one second of the arithmetic is
`SecondLater`.  The induction on n takes the least second at which the two disagree
and has no use for an induction theorem with an operator for its parameter.

`ApuProofs` proves for every length of the counters, width of the registers, period
and program:

* `OnMeansPlayingAlways`: what NR52 reports on has power, a DAC and a length to run.
  With `ChipType` it is inductive.  `ClockedKeeps` and `ControlledKeeps` say that
  the length counter's functions leave it above zero unless they switch the channel off.
* `NoiseIsAliveAlways`, likewise.  `StepNoiseKeeps` is the reason: shifting loses a one
  only out of bit 0, and where no other bit is set there, the exclusive or of bits 0
  and 1 puts a one in at the top.
* `LengthFollowsItsGateAlways`, action by action from `ChipType`, and
  `SweepStopsInTimeAlways`, for which `SweepRecord` gives the sweep's registers a type.

`CpuProofs` proves for every set of interrupt sources, address space, joypad and
program: `TypeCorrect`, `DispatchIsClosedAlways`, `ReturnsToUnexecutedAlways`,
`HaltedHasNothingPendingAlways`, `EiShadowIsClosedAlways`, and the action properties
`NoRequestLostAlways` and `ServesFirstEnabledAlways`.  `IInv` adds to the properties
that an EI's delay outlives its own instruction only, that only a running CPU is in
the middle of something, that IE and IF stand still between the pushes, and
`ResumePoint`: where the first instruction not yet executed is, from PC.  That last is not
PC itself when HALT failed to halt: the byte after it is read twice, and if an EI
stood before it the next fetch begins a dispatch which returns to the HALT.

`FrontEndProofs` proves the desktop's policies of `FrameLoop` for every length of a frame,
every device and every duration of a pass:

* `PoliciesKeepApartAlways`: a pass that cut the queue corrects no drift, since the
  queue is cut to the target, which lies between the marks (`CutIsQuiet`).
* `LatencyIsBoundedAlways`: the queue never holds more than the ceiling and one pass.
* `NoBurstOfPassesAlways`: however long every pass takes and every sleep overruns, passes
  run ahead of the clock by less than three periods.  One is the pass that has just begun,
  one its length ahead of the deadline, and less than one is what a late pass repays; a
  deadline missed by a period or more is started afresh, and its lag is dropped.  `PaceInv`
  is why: between passes the lead is nothing, or less than the time to the deadline and a
  period.  The bound is tight: the run reaches one unit less than three periods.

`SessionProofs` proves for every set of ROMs, save paths, RAM sizes and files that
were there before:

* `SessionImplementsStore`: `Alone => (Spec => SaveIsReplacedWhole)`, the refinement of
  `SaveStore` by one instance.  Only `CommitTemp` changes the disk; that what it puts
  there is a whole image rests on `ScratchInv`, which follows the scratch file from
  step to step and says that every save is on the disk, so that a power cut takes none.
* `RamIsSavedBeforeItGoesAlways`, for one instance, from the same invariant.
* `UnreadSaveIsKeptAlways`: for any number of instances, provided `exists()` never
  reports an error.  `AnswerInv`: whoever writes may write, and an answer of "no file"
  was given where there was none.

The hypotheses are where the code needs them: without `Alone` or `~ProbeMayFail` TLC
finds the counterexamples above.

`FrontEndProofs` also proves of `WebSave`, for every sharing of keys and file names:
`SnapshotIsStoredAlways`, `ResetKeepsRamAlways` and `LoadDestroysNothingAlways`.
`SnapshotIsStored` is strengthened to `SnapshotIsFound`: where the snapshot is under the
file's name only, the key is free, so that restoring looks under the name.

`VideoProofs` proves, for every size of OAM and every set of pages and bytes, of
`OamDma`: `DmaTypeOKAlways`, `CopyFollowsWriteAlways`, `TransferIsSnapshotAlways` and
`BlockedOnlyByOwnBusAlways`.  `DmaInv` ties the registers to the history of FF46
writes: the start-up count stands for a write of the M-cycle just over
(`StartUpIsWrite`), no two writes are of one age, and of those past their start-up the
latest is the transfer in progress, whose page nothing has written since
(`TransferIsLatest`); the M-cycle's copy is that write's (`CopyIsLatest`), and what has
been copied is the page as it was (`CopiedIsSnapshot`).

Of `Ppu`, for every number and length of lines, every boot position, every length of
drawing that leaves HBlank an M-cycle, and every register written:

* `LocksCoverUseAlways`: in modes 2 and 3.  The last pixels are fetched a few dots into
  mode 0, when the locks are open again; nothing is claimed of those.
* `LevelIsCurrentAlways`: when an access begins, the STAT line is what its sources say.
* `SwitchingKeepsComparisonAlways`, since the STAT line of a PPU that is off and selects
  LYC only is the comparison's frozen result (`FrozenIsLevel`).
* `FrameIsExactAlways`: the M-cycles counted are the place in the frame (`FramePlace`).
* `SourcesRequestTheirCountAlways`.

A tick is four dots.  `TickTaken` says once what the four come to: only the fourth can
end a line or begin to draw, and the STAT line can rise at two moments only, after
the first dot, when STAT shows the mode the M-cycle began with, and after the last.
`TickFields` proves it dot by dot and everything else rests on it.  `ModesInPlace` gives
the modes their lines.  The count needs more than a frame's length: in a frame without
writes `ShapeOf` fixes mode, shown mode, comparison and STAT line by line and dot, and
`LycSoFar`, `OamSoFar`, `VBlankSoFar` and `HBlankSoFar` are how many requests that
place has seen; `SourceRises` says in which M-cycle each source's level rises,
`CountStep` that the counts grow by just that, and at VBlank they are the frame's.
`DrawAssumption` lets no line draw to its very end: without HBlank there is no count
of HBlanks.

`PixelPipelineProofs` proves, for every width, object list, register value, set of writable
registers and number of writes, `FetchIsWholeAlways` and `MergedInPlaceAlways`.
`FetchedWhole` follows a fetch from step to step: what it has read so far is of the
layer there is now, until its last read; the layer only changes where a fetch is over
or is thrown away.  `SlotsInPlace` holds for each slot by itself; the slots move exactly
when the counter does (`EmitKeeps`).

It also proves `PictureIsTheReferenceAlways`: on a line whose registers are not written
to, every pixel put out has the layer, the column and the object of the reference, for
every width, every list of objects in OAM's order and all values of SCX, WX and LCDC.
`LineInv` is `PipeInv` and, until a register is written, three things more:

* `FeedInv`: where the background's or window's pixels come from, in one of three phases.
  `Prefetching`: before the first row the fetcher and the X counter run side by side, so
  that the dots fetched are the dots counted.  `Streaming`: `StreamIsPlaced` ties rows
  fetched to pixels put out, thrown away, and waiting in the FIFO, `QueueIsNext` says that
  those waiting are the layer's next.  There the FIFO runs out just as a row comes (`Fed`:
  its length is the `Distance` to the next row and the dots `Gained` while objects
  stopped the output) until the window, met while it is off, puts in a pixel of colour 0.
  `InWindow`: the same two facts of the window's rows.
* `ObjectInv`: the objects drawn are those that the counter has met, in the order in
  which they are fetched (`DrawnInOrder`), and each slot ahead is of the first merged
  object that covers it (`SlotsAreOwned`), which is the reference's (`OwnerIsReference`).
* `SettledInv`: registers that are read late have the values they have now.

`DotForms` says which of three things a dot does: stall for an object, begin one, or
draw.  `StallFeeds`, `StartObjectFeeds` and `DrawFeeds` keep `FeedInv` through each,
`StallOwns`, `BeginOwns` and `DrawOwns` keep `ObjectInv`, and `FrontIsReference` is where
the pixel put out is compared with the reference.  `LineAssumption` says that registers
and an object's X are bytes.

And it proves `ModeThreeIsExactAlways`: on such a line mode 3 lasts exactly the sum of
its terms, less the dots shared by the first object and the window's start.  That
`dotsRemaining()` is right on one dot says nothing of the next, and the mode ends while
the line is still being drawn, so the invariant counts all the dots there are.  `Total`
is what a line has left: its pixels, the fetch of an object under way, the penalties of
those to come (`ObjectsLeft`), and the `Balance` - the stall of an empty FIFO, the
window's restart, the pixels to throw away.  `CountsDown` says that a dot of any kind
takes exactly one of them, so that in `LineIsTimed` dots passed and dots left add up to
one number all along the line.  It takes `LineInv` and three facts more (`Timed`):

* `Flow`: once a row is in, the next comes before the FIFO runs out, so that the only
  stalls are those at the line's and the window's start, which the balance has.
* `Trimmed`: the fine scroll's pixels are thrown away before pixel 0.
* `LeadIsTimed`: where the first object is met just as the window starts, the fetcher is
  stopped with its FIFO empty, and up to three dots count for both (`Shared`).

`StallTimes`, `TakeTimes` and `DrawTimes` are the three kinds of dot; `ModeIsPredicted`
then turns what is left into what the code asks, whether `dotsRemaining()` is down to
the lag.  The penalties of the objects to come are a recursive function of the set of
them, in the order they are met; `PenaltiesDefined` shows, taking the least number of
objects it could fail for, that there is such a function, and `PenaltiesUnfold`, its
first step, is what the rest cites.  `LagAssumption` says that a line is wider than 10
pixels and drawn at most 7 dots late: 160, and 7 or on line 0 3.

Where the first object meets the window in the line's last pixels, mode 3 is over before
all three shared dots are gained; `SharedDots` says how many are, and the object at
X = 23 in `MCPipeline` is there for it.

Assumptions: those named in the modules, which the constants' comments explain.

Only model-checked: liveness (`TransferEnds`, `HaltWakes`, `NotesEnd`,
`HeldButtonEndsStopOnPage`, `PassesEndWhileLcdRuns`), which is beyond the prover.

## Not modelled

* CPU data operations: registers and flags do not touch the interrupt state, and
  the repository's own single-step tests cover them exhaustively.
* `Cartridge`: what ROM banks contain, the header checksum (it only reports), and a
  raw save of the RAM alone beside a cartridge with a clock.
* `Apu`: envelopes, duty, the pulse and noise timers' periods, the mixer and its
  filter.  They shape the output and no part of the machine reads it.  Wave RAM with its
  reader is modelled, but no property speaks of what it holds.
* `Ppu`: the OAM corruption bug (any outcome, in `OamDma`), the palette short, and the
  scan that chooses a line's ten objects.
* `PixelPipeline`: tile data, colours, palettes, priority of objects against the
  background, SCY.  Each is a lookup at a moment the model has.
* Sound on the desktop: the resampler's fractions, and which sample is dropped or
  repeated.  On the page: pausing, a load that
  fails and leaves no machine, and the scheduling of sound buffers.
* Window and key mapping, text, the ROM and single-step runners: sequential and
  without state that a property could be about.
* `Session`: the clock footer's contents; changes to a save made by other programs.
* `WebSave`: storage that cannot be read at all; two tabs on one storage.
* The whole machine at once: the product of these models is out of TLC's reach, and
  the parts meet only as described under Modules.

## Plan

1. Done: the counter and its consumers, OAM DMA, CPU control, saves and sessions on
   both front ends, frame loops; cartridges and their clock.
2. Done: the sound chip, PPU, pixel pipeline, the desktop's sound queue and pacing.
3. Done: theorems about every module with a run of its own, for every safety property
   the passing runs check.
4. To model: the page's pause and its sound buffers; the ten objects of a line.
