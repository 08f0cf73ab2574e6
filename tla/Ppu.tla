-------------------------------- MODULE Ppu --------------------------------
(* The PPU as the CPU sees it, one M-cycle of four dots at a time: lines,    *)
(* modes, the STAT level line with its sources, the LY=LYC comparison, the   *)
(* bus locks, the window's Y condition, the LCD switched on and off and the  *)
(* clock stopped (src/src/core/Ppu.cpp).  How long a line's drawing takes is *)
(* PixelPipeline's business; here it is any length the line has room for.    *)
EXTENDS Integers, FiniteSets

CONSTANTS
    LineCycles,     \* M-cycles of a line: 114 on the machine
    OamCycles,      \* M-cycles of the OAM scan: 20
    Visible,        \* lines drawn: 144
    Lines,          \* lines of a frame: 154
    DrawLengths,    \* dots mode 3 may last
    BootDot,        \* where the boot ROM leaves the last line: 356
    Selections,     \* the STAT sources a program selects
    YValues,        \* the values a program writes to LYC and WY
    MaxWrites       \* register writes between two frames

ASSUME FrameAssumption ==
    /\ LineCycles \in Nat /\ OamCycles \in Nat /\ OamCycles > 1 /\ OamCycles < LineCycles
    /\ Visible \in Nat /\ Lines \in Nat /\ Visible > 0 /\ Visible < Lines - 1

\* HBlank lasts an M-cycle at least, however much a line draws.
ASSUME DrawAssumption ==
    \A d \in DrawLengths : d \in Nat /\ d > 4 /\ 4 * OamCycles + d + 4 <= 4 * LineCycles

ASSUME BootAssumption ==
    BootDot \in Nat /\ BootDot > 0 /\ BootDot % 4 = 0 /\ BootDot < 4 * LineCycles

ASSUME InputAssumption ==
    /\ Selections \subseteq SUBSET {"lyc", "oam", "vblank", "hblank"}
    /\ \A y \in YValues : y \in Nat
    /\ MaxWrites \in Nat

LineDots == 4 * LineCycles
OamDots == 4 * OamCycles

VARIABLES
    ppu,        \* the PPU's registers and position, as of the last dot
    requested,  \* the IF bits requested by the last step
    access,     \* the M-cycle's bus access is still to come
    since,      \* M-cycles since the LCD was switched on or VBlank last began
    from,       \* which of the two: "boot", "on" or "vblank"
    raised,     \* STAT interrupts since VBlank last began
    writes,     \* register writes since VBlank last began
    reselected  \* STAT has been written since the LCD was switched off

vars == <<ppu, requested, access, since, from, raised, writes, reselected>>

-----------------------------------------------------------------------------
(* What the registers read *)

Ly(p) == IF p.line = Lines - 1 /\ p.dot >= 4 THEN 0 ELSE p.line

\* With the LCD off the last result is kept.
LycMatch(p) == IF ~p.lcdOn THEN p.lycFrozen ELSE ~p.lycSuppressed /\ Ly(p) = p.lyc

\* Mutant: the pulse at the top of VBlank is missing.
OamSourceHighNoPulse(p) == p.visible = 2

OamSourceHigh(p) == p.visible = 2 \/ (p.line = Visible /\ p.dot = 0)

StatConditions(p, select) ==
    \/ "lyc" \in select /\ LycMatch(p)
    \/ "oam" \in select /\ OamSourceHigh(p)
    \/ "vblank" \in select /\ p.visible = 1
    \/ "hblank" \in select /\ p.visible = 0

VramBlocked(p) == p.lcdOn /\ (p.visible = 3 \/ (p.mode = 3 /\ p.visible = 2))

\* Mutant: OAM is locked only once STAT says so.
OamBlockedAsStat(p) == p.lcdOn /\ p.visible \in {2, 3}

OamBlocked(p) == p.lcdOn /\ (p.mode = 2 \/ p.visible \in {2, 3})

-----------------------------------------------------------------------------
(* A dot *)

\* An interrupt is requested when the level line rises.
UpdateStatLine(p, select) ==
    LET high == StatConditions(p, select)
    IN [p EXCEPT !.statLine = high,
                 !.requests = IF high /\ ~p.statLine THEN @ \cup {"Lcd"} ELSE @]

NewLine(p) ==
    LET line == IF p.line + 1 >= Lines THEN 0 ELSE p.line + 1
    IN [p EXCEPT
          !.dot = 0, !.line = line, !.lcdOnLine = FALSE,
          !.mode = IF line = Visible THEN 1 ELSE IF line < Visible THEN 2 ELSE @,
          !.windowReached = (line # 0 /\ @) \/ (line < Visible /\ line = p.wy),
          !.requests = IF line = Visible THEN @ \cup {"VBlank"} ELSE @]

\* The dots of a line after its first: mode 3 begins when the scan is over and lasts draw dots.
LaterDot(p, draw) ==
    LET dot == p.dot + 1
        begins == p.line < Visible /\ dot = OamDots /\ (p.mode = 2 \/ p.lcdOnLine)
        ends == p.line < Visible /\ p.mode = 3 /\ p.drawLeft = 1
    IN [p EXCEPT
          !.dot = dot,
          !.mode = IF begins THEN 3 ELSE IF ends THEN 0 ELSE @,
          !.drawLeft = IF begins THEN draw ELSE IF @ > 0 THEN @ - 1 ELSE 0]

StepDot(p, draw) ==
    LET q == IF p.dot + 1 >= LineDots THEN NewLine(p) ELSE LaterDot(p, draw)
    IN UpdateStatLine([q EXCEPT !.lycSuppressed = q.dot < 4], q.select)

\* STAT and the locks trail the PPU's own mode by one M-cycle.
TickPpu(p, draw) ==
    LET q == [p EXCEPT !.visible = p.mode, !.requests = {}]
    IN IF p.clockStopped \/ ~p.lcdOn THEN [p EXCEPT !.requests = {}]
       ELSE StepDot(StepDot(StepDot(StepDot(q, draw), draw), draw), draw)

-----------------------------------------------------------------------------
(* Register writes *)

\* Mutant: the comparison's result is not kept.
SwitchOffForgets(p) ==
    [p EXCEPT !.lycFrozen = FALSE, !.lcdOn = FALSE, !.line = 0, !.dot = 0, !.mode = 0,
              !.visible = 0, !.drawLeft = 0, !.lcdOnLine = FALSE, !.lycSuppressed = FALSE,
              !.windowReached = FALSE, !.requests = {}]

SwitchOff(p) ==
    [p EXCEPT !.lycFrozen = LycMatch(p), !.lcdOn = FALSE, !.line = 0, !.dot = 0, !.mode = 0,
              !.visible = 0, !.drawLeft = 0, !.lcdOnLine = FALSE, !.lycSuppressed = FALSE,
              !.windowReached = FALSE, !.requests = {}]

\* Mutant: the line is picked up at its start.
SwitchOnAtStart(p) ==
    LET q == [p EXCEPT !.lcdOn = TRUE, !.line = 0, !.dot = 0, !.mode = 0, !.visible = 0,
                       !.lcdOnLine = TRUE, !.lycSuppressed = FALSE,
                       !.windowReached = @ \/ p.wy = 0, !.requests = {}]
    IN UpdateStatLine(q, q.select \ {"hblank"})

\* The line is picked up one M-cycle in; the mode-0 source is left out of this evaluation.
SwitchOn(p) ==
    LET q == [p EXCEPT !.lcdOn = TRUE, !.line = 0, !.dot = 4, !.mode = 0, !.visible = 0,
                       !.lcdOnLine = TRUE, !.lycSuppressed = FALSE,
                       !.windowReached = @ \/ p.wy = 0, !.requests = {}]
    IN UpdateStatLine(q, q.select \ {"hblank"})

\* A STAT write behaves as if every source had been selected for one M-cycle.
WriteSelect(p, select) ==
    LET q == [p EXCEPT !.requests = {}]
        glitched == UpdateStatLine(q, {"lyc", "oam", "vblank", "hblank"})
    IN [IF p.lcdOn THEN glitched ELSE q EXCEPT !.select = select]

-----------------------------------------------------------------------------

BootPpu(select, lyc) ==
    [line |-> Lines - 1, dot |-> BootDot, mode |-> 1, visible |-> 1, drawLeft |-> 0,
     lcdOn |-> TRUE, lcdOnLine |-> FALSE, lycSuppressed |-> FALSE, lycFrozen |-> FALSE,
     statLine |-> FALSE, clockStopped |-> FALSE, windowReached |-> FALSE,
     select |-> select, lyc |-> lyc, wy |-> 0, requests |-> {}]

Init ==
    /\ ppu = BootPpu({}, 0)
    /\ requested = {}
    /\ access = FALSE
    /\ since = 0
    /\ from = "boot"
    /\ raised = 0
    /\ writes = 0
    /\ reselected = FALSE

\* An M-cycle of the PPU, before the CPU's access of that M-cycle.
Tick(draw) ==
    LET p == TickPpu(ppu, draw) IN
    /\ ppu' = p
    /\ requested' = p.requests
    /\ access' = TRUE
    /\ IF "VBlank" \in p.requests
       THEN /\ since' = 0 /\ from' = "vblank" /\ raised' = 0 /\ writes' = 0
       ELSE /\ since' = IF p.clockStopped \/ ~p.lcdOn THEN since ELSE since + 1
            /\ raised' = IF "Lcd" \in p.requests THEN raised + 1 ELSE raised
            /\ UNCHANGED <<from, writes>>
    /\ UNCHANGED reselected

\* The M-cycle's access, when it is a write to one of the PPU's registers.
Write(p) ==
    /\ access /\ writes < MaxWrites /\ ~ppu.clockStopped
    /\ ppu' = p
    /\ requested' = p.requests
    /\ access' = FALSE
    /\ writes' = writes + 1
    /\ UNCHANGED raised

LcdOff ==
    /\ ppu.lcdOn
    /\ Write(SwitchOff(ppu))
    /\ reselected' = FALSE
    /\ UNCHANGED <<since, from>>

LcdOn ==
    /\ ~ppu.lcdOn
    /\ Write(SwitchOn(ppu))
    /\ since' = 0
    /\ from' = "on"
    /\ UNCHANGED reselected

WriteStat(select) ==
    /\ Write(WriteSelect(ppu, select))
    /\ reselected' = TRUE
    /\ UNCHANGED <<since, from>>

WriteLyc(y) ==
    /\ Write([ppu EXCEPT !.lyc = y, !.requests = {}])
    /\ UNCHANGED <<since, from, reselected>>

WriteWy(y) ==
    /\ Write([ppu EXCEPT !.wy = y, !.requests = {}])
    /\ UNCHANGED <<since, from, reselected>>

\* The machine reports STOP and its end to the PPU ahead of a tick.
SetClockStopped(stopped) ==
    /\ access /\ ppu.clockStopped # stopped
    /\ writes < MaxWrites
    /\ ppu' = [ppu EXCEPT !.clockStopped = stopped, !.requests = {}]
    /\ requested' = {}
    /\ access' = FALSE
    /\ writes' = writes + 1
    /\ UNCHANGED <<since, from, raised, reselected>>

Next ==
    \/ \E draw \in DrawLengths : Tick(draw)
    \/ LcdOff
    \/ LcdOn
    \/ \E select \in Selections : WriteStat(select)
    \/ \E y \in YValues : WriteLyc(y) \/ WriteWy(y)
    \/ \E stopped \in BOOLEAN : SetClockStopped(stopped)

Spec == Init /\ [][Next]_vars

-----------------------------------------------------------------------------
(* Properties *)

FrameCycles == Lines * LineCycles

\* VBlank is requested once per frame of M-cycles the PPU ran, whatever is written: the
\* first time after the LCD is switched on one M-cycle early, for that line is picked up
\* one M-cycle in (Ppu.cpp:442-448).
FrameIsExact ==
    [][requested' # requested \/ ppu' # ppu =>
         ("VBlank" \in requested' /\ from # "boot" =>
            since + 1 = IF from = "on" THEN Visible * LineCycles - 1 ELSE FrameCycles)]_vars

\* While the PPU scans OAM or is in mode 3, the CPU reads neither OAM nor, in mode 3, VRAM,
\* but for the first M-cycle of drawing on the line the LCD was switched on in.  The last
\* pixels of a line are fetched up to kRenderLag dots into mode 0, when the locks are open.
LocksCoverUse ==
    /\ ppu.mode = 3 => VramBlocked(ppu) \/ (ppu.lcdOnLine /\ ppu.dot = OamDots)
    /\ ppu.mode \in {2, 3} => OamBlocked(ppu) \/ (ppu.lcdOnLine /\ ppu.dot = OamDots)

\* What one source requests in a frame without writes: HBlank, once per line drawn; OAM,
\* once more, at VBlank; LYC, once on its line - twice on line 0, whose comparison is held
\* off at its start although LY already reads 0, and never on the last, where LY reads 0
\* before the comparison is let go.
RequestsPerFrame(select, lyc) ==
    CASE select = {"hblank"} -> Visible
      [] select = {"oam"} -> Visible + 1
      [] select = {"vblank"} -> 1
      [] select = {"lyc"} -> IF lyc = 0 THEN 2 ELSE IF lyc < Lines - 1 THEN 1 ELSE 0
      [] OTHER -> 0

Undisturbed == writes = 0 /\ from = "vblank"

\* A frame in which nothing is written requests exactly what its one source says.
SourcesRequestTheirCount ==
    [][Undisturbed /\ "VBlank" \in requested' /\ Cardinality(ppu.select) <= 1 =>
         raised + (IF "Lcd" \in requested' THEN 1 ELSE 0) = RequestsPerFrame(ppu.select, ppu.lyc)]_vars

\* The comparison stops with the LCD and its result is kept: switching the LCD on requests
\* an interrupt exactly when LY = LYC becomes true by it, not when it was so all along.
SwitchingKeepsComparison ==
    [][~ppu.lcdOn /\ ppu'.lcdOn /\ ppu.select = {"lyc"} /\ ~reselected =>
         ("Lcd" \in requested' <=> ppu.lyc = 0 /\ ~ppu.lycFrozen)]_vars

\* What Ppu.cpp:165-168 says of the comparison: it is held off for the M-cycle in which LY
\* changes.
HeldOffOnlyWhenLyChanges ==
    [][ppu'.lycSuppressed /\ ~ppu.lycSuppressed => Ly(ppu') # Ly(ppu)]_vars
=============================================================================
