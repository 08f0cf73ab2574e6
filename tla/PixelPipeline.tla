--------------------------- MODULE PixelPipeline ---------------------------
(* One line of the picture, dot by dot: the background fetcher, the pixel    *)
(* FIFO, the window's X counter and the object fetches, with the registers a *)
(* CPU may rewrite between two M-cycles, and the prediction that ends mode 3 *)
(* (src/src/core/PixelPipeline.cpp, and Ppu::stepDot for its start and end). *)
(*                                                                           *)
(* What VRAM holds is abstracted to where it was read: a pixel is the map    *)
(* column and the pixel of the tile it comes from, with the layer each of    *)
(* the fetch's three reads saw (0 the background, n the window's n-th row of *)
(* this line).  Every pixel of an object is opaque.  SCY, the palettes and   *)
(* LCDC's address bits change colours only, and are left out.                *)
EXTENDS Integers, Sequences, FiniteSets

CONSTANTS
    Width,          \* pixels of a line: 160 on the machine
    ScxValues, WxValues, ObjectLists,   \* the lines tried
    RenderLags,     \* 7 dots, 3 on line 0
    Writable,       \* the registers the CPU rewrites during the line
    MaxLineWrites   \* how many such writes a line sees

ASSUME WidthAssumption == Width \in Nat \ {0}

\* Rendering trails mode 3 by less than the shortest line is long.
ASSUME LagAssumption == RenderLags \subseteq 0..7 /\ Width > 10

\* Registers and object positions are bytes.
ASSUME LineAssumption ==
    ScxValues \subseteq 0..255 /\ WxValues \subseteq 0..255 /\ ObjectLists \subseteq Seq(0..255)

kWindowRestartDots == 6
kWindowCounterHeadStart == 7
kWindowCounterLeadDots == 5
kObjectFetcherLead == 3
kObjectFetchDots == 6
kObjectDataDots == 3
kObjectDataHighDots == 1

VARIABLES
    regs,       \* SCX, WX, LCDC bits 5 and 1, and whether WY has matched
    objects,    \* lineObjects_: the OAM X of the objects of the line, in OAM order
    lineLag,    \* lineRenderLag_
    renderLag,  \* dots until the pipeline starts
    rendering,  \* the pipeline runs
    mode,       \* 3, then 0
    t,          \* dots since mode 3 began
    writable,   \* a write may land: an M-cycle has just ended
    lineWrites, \* writes so far
    pipe        \* the pipeline's own state

lineVars == <<regs, objects, lineLag, renderLag, rendering, mode, t, writable, lineWrites, pipe>>

NoObject == [obj |-> 0, i |-> 0]
NoPixel == [x |-> -1, pixel |-> <<>>, object |-> NoObject]
NoTile == -1000

ZeroPixel == [layers |-> {}, col |-> 0, pos |-> 0]

StartLine(r) ==
    [step |-> "Tile", stepDots |-> 0, pushed |-> FALSE, fetchReset |-> TRUE,
     fetcherX |-> 0, discardFetch |-> TRUE, queue |-> <<>>, fifoFed |-> FALSE, fifoLead |-> 0,
     tile |-> [layer |-> 0, col |-> 0], low |-> 0, high |-> 0,
     pixelX |-> 0, discard |-> 0, streamStarted |-> FALSE, objSelect |-> r.objOn,
     window |-> FALSE, windowX |-> 0, headStart |-> FALSE, comparedX |-> -1,
     lead |-> kWindowCounterLeadDots, wxPipe |-> <<r.wx, r.wx>>, windowLine |-> 0,
     slots |-> [k \in 0..7 |-> NoObject], drawn |-> {},
     objectDots |-> 0, objectIndex |-> 0, objectFetching |-> FALSE, objectLowRead |-> FALSE,
     objectEarlyDots |-> 0, objectLeadDots |-> 0,
     lastTile |-> NoTile, penaltyStarted |-> FALSE, out |-> NoPixel]

-----------------------------------------------------------------------------
(* The background fetcher *)

\* The row the fetcher reads: the background's, or that of the window's last activation.
Layer(p) == IF p.window THEN p.windowLine ELSE 0

\* SCX's fine scroll and its map column are one sample.
SampleTileIndex(p, r) ==
    [p EXCEPT
        !.tile = [layer |-> Layer(p),
                  col |-> ((IF p.window THEN 0 ELSE r.scx \div 8) + p.fetcherX) % 32],
        !.discard = IF p.discardFetch THEN r.scx % 8 ELSE @]

\* A row goes in only when there is room for it.
TryPushRow(p) ==
    LET row == [k \in 1..8 |-> [layers |-> {p.tile.layer, p.low, p.high},
                                col |-> p.tile.col, pos |-> k - 1]]
    IN IF Len(p.queue) > p.fifoLead THEN p
       ELSE [p EXCEPT !.queue = @ \o row, !.fifoFed = TRUE, !.fetcherX = @ + 1, !.pushed = TRUE]

StopWindowIfDisabled(p, r) == [p EXCEPT !.window = @ /\ r.winOn]

\* A step of two dots.
Dots(p, next) ==
    IF p.stepDots = 0 THEN [p EXCEPT !.stepDots = 1]
    ELSE [p EXCEPT !.stepDots = 0, !.step = next]

\* The line's first fetch is thrown away; any other one tries to push.
FetchComplete(p, r) ==
    LET q == StopWindowIfDisabled([p EXCEPT !.stepDots = 0], r)
    IN IF q.discardFetch THEN [q EXCEPT !.discardFetch = FALSE, !.step = "Tile"]
       ELSE [TryPushRow([q EXCEPT !.pushed = FALSE]) EXCEPT !.step = "Sleep"]

StepFetcher(p, r) ==
    LET first == p.stepDots = 0 IN
    CASE p.fetchReset -> [p EXCEPT !.fetchReset = FALSE]
      [] ~p.fetchReset /\ p.step = "Tile" ->
            Dots(IF first THEN SampleTileIndex(p, r) ELSE p, "DataLow")
      [] ~p.fetchReset /\ p.step = "DataLow" ->
            Dots(IF first THEN [p EXCEPT !.low = Layer(p)] ELSE p, "DataHigh")
      [] ~p.fetchReset /\ p.step = "DataHigh" ->
            IF first THEN Dots([p EXCEPT !.high = Layer(p)], "DataHigh") ELSE FetchComplete(p, r)
      [] ~p.fetchReset /\ p.step = "Sleep" ->
            LET q == IF p.pushed THEN p ELSE TryPushRow(p)
            IN Dots(q, IF q.pushed THEN "Tile" ELSE "Push")
      [] ~p.fetchReset /\ p.step = "Push" ->
            LET q == TryPushRow(p) IN IF q.pushed THEN [q EXCEPT !.step = "Tile"] ELSE q

\* Dots the fetcher owes before its next row reaches the FIFO.
FetchStallDots(p) ==
    LET ahead == [Tile |-> 5, DataLow |-> 3, DataHigh |-> 1]
    IN (IF p.fetchReset THEN 1 ELSE 0)
       + (IF p.step \in DOMAIN ahead THEN ahead[p.step] - p.stepDots ELSE 0)
       + (IF p.discardFetch THEN 6 ELSE 0)

-----------------------------------------------------------------------------
(* The window's X counter *)

WindowEnabled(r) == r.winOn /\ r.reached

WindowConditions(p, r) == ~p.window /\ WindowEnabled(r)

\* Mutant: the fetch under way goes on, with the window's row.
StartWindowMidFetch(p) ==
    [p EXCEPT !.window = TRUE, !.fifoFed = FALSE, !.queue = <<>>,
              !.discardFetch = FALSE, !.fetcherX = 0, !.comparedX = p.windowX, !.windowLine = @ + 1,
              !.discard = @ + (IF p.windowX < kWindowCounterHeadStart
                               THEN kWindowCounterHeadStart - p.windowX ELSE 0)]

\* Background rendering is reset, on the window's next row; the free increments
\* left over are pixels to throw away.
StartWindow(p) ==
    [p EXCEPT !.window = TRUE, !.fifoFed = FALSE, !.queue = <<>>, !.step = "Tile",
              !.stepDots = 0, !.pushed = FALSE, !.fetchReset = TRUE, !.discardFetch = FALSE,
              !.fetcherX = 0, !.comparedX = p.windowX, !.windowLine = @ + 1,
              !.discard = @ + (IF p.windowX < kWindowCounterHeadStart
                               THEN kWindowCounterHeadStart - p.windowX ELSE 0)]

PushColourZeroPixel(p) ==
    IF p.fifoFed /\ Len(p.queue) % 8 = 0
    THEN [p EXCEPT !.comparedX = p.windowX, !.queue = <<ZeroPixel>> \o @]
    ELSE [p EXCEPT !.comparedX = p.windowX]

\* WX, two dots old, is compared with the counter on every dot.
CompareWindow(p, r) ==
    LET match == p.lead = 0 /\ r.reached /\ p.windowX = p.wxPipe[1]
    IN CASE match /\ WindowConditions(p, r) -> StartWindow(p)
         [] match /\ ~WindowConditions(p, r) /\ p.windowX > p.comparedX -> PushColourZeroPixel(p)
         [] OTHER -> p

ShiftPipes(p, r) == [p EXCEPT !.wxPipe = <<@[2], r.wx>>, !.objSelect = r.objOn]

\* The free increments, one per dot.
AdvanceWindowCounter(p) ==
    CASE p.lead > 0 -> [p EXCEPT !.lead = @ - 1]
      [] p.lead = 0 /\ p.headStart -> p
      [] p.lead = 0 /\ ~p.headStart /\ p.windowX = kWindowCounterHeadStart ->
            [p EXCEPT !.headStart = TRUE]
      [] OTHER -> [p EXCEPT !.windowX = @ + 1]

-----------------------------------------------------------------------------
(* Object fetches *)

PenaltyTile(x, r) == (r.scx + x - 8) \div 8

\* Dots the fetch of an object at OAM X = x stalls the pixels, lastTile being the
\* tile the object before it was charged for.
ObjectPenalty(x, r, lastTile) ==
    LET toTheRight == 7 - ((r.scx + x - 8) % 8)
    IN CASE PenaltyTile(x, r) = lastTile -> kObjectFetchDots
         [] PenaltyTile(x, r) # lastTile /\ x = 0 -> 11
         [] OTHER -> kObjectFetchDots + (IF toTheRight > 2 THEN toTheRight - 2 ELSE 0)

Smaller(a, b) == IF a < b THEN a ELSE b

StartObject(p, r, k) ==
    LET dots == ObjectPenalty(objects[k], r, p.lastTile)
        offLeft == 8 - objects[k]
    IN [p EXCEPT
          !.drawn = @ \cup {k}, !.objectDots = dots, !.objectIndex = k,
          !.objectFetching = TRUE, !.objectLowRead = FALSE,
          !.objectEarlyDots = IF offLeft > 0 THEN Smaller(offLeft, dots - kObjectDataDots) ELSE 0,
          !.lastTile = PenaltyTile(objects[k], r), !.penaltyStarted = TRUE,
          !.objectLeadDots = IF p.penaltyStarted THEN @ ELSE kObjectFetcherLead,
          !.fifoLead = IF p.penaltyStarted THEN @ ELSE kObjectFetcherLead]

\* LCDC bit 1 is read when the wait in front of the fetch is over ...
AbandonObjectIfDisabled(p, r) ==
    IF p.objectFetching /\ ~r.objOn /\ p.objectDots = kObjectFetchDots + p.objectEarlyDots
    THEN [p EXCEPT !.objectDots = 0, !.objectFetching = FALSE] ELSE p

\* ... and on every dot until the low byte's address is out.
CancelObjectIfDisabled(p, r) ==
    [p EXCEPT !.objectFetching = @ /\ (p.objectLowRead \/ r.objOn)]

\* Mutant: the object's first pixel goes to the next one to be shown.
MergeObjectAtCounter(p) ==
    LET left == objects[p.objectIndex] - 8
        claims(k) == p.pixelX + k \in left .. left + 7 /\ p.slots[k].obj = 0
    IN [p EXCEPT !.objectFetching = FALSE,
                 !.slots = [k \in 0..7 |->
                     IF claims(k) THEN [obj |-> p.objectIndex, i |-> k] ELSE p.slots[k]]]

\* The eight slots from pixelX on take the object's pixels; the first to claim wins.
MergeObject(p) ==
    LET left == objects[p.objectIndex] - 8
        claims(k) == p.pixelX + k \in left .. left + 7 /\ p.slots[k].obj = 0
    IN [p EXCEPT !.objectFetching = FALSE,
                 !.slots = [k \in 0..7 |->
                     IF claims(k) THEN [obj |-> p.objectIndex, i |-> (p.pixelX + k) - left]
                     ELSE p.slots[k]]]

ReadObjectRowIfDue(p) ==
    LET due(ahead) == p.objectFetching /\ p.objectDots = ahead - 1 + p.objectEarlyDots
    IN CASE due(kObjectDataDots) -> [p EXCEPT !.objectLowRead = TRUE]
         [] due(kObjectDataHighDots) -> MergeObject(p)
         [] OTHER -> p

\* Objects whose screen X the pixel counter has reached; those left of the screen at pixel 0.
ObjectsDue(p) ==
    {k \in DOMAIN objects \ p.drawn :
        \/ objects[k] - 8 = p.pixelX
        \/ objects[k] < 8 /\ p.pixelX = 0}

FirstOf(S) == CHOOSE k \in S : \A j \in S : k <= j

-----------------------------------------------------------------------------
(* A dot *)

StallDot(p, r) ==
    LET a == [p EXCEPT !.objectDots = @ - 1]
        b == IF a.objectLeadDots > 0
             THEN StepFetcher([a EXCEPT !.objectLeadDots = @ - 1], r) ELSE a
    IN ReadObjectRowIfDue(CancelObjectIfDisabled(b, r))

\* Mutant: the object slots move on for a pixel thrown away.
EmitPixelShiftsAlways(p, objSelect) ==
    LET shifted == [k \in 0..7 |-> IF k < 7 THEN p.slots[k + 1] ELSE NoObject]
        q == [p EXCEPT !.streamStarted = TRUE, !.queue = Tail(@), !.slots = shifted]
    IN CASE p.queue = <<>> -> p
         [] p.queue # <<>> /\ p.discard > 0 -> [q EXCEPT !.discard = @ - 1]
         [] OTHER ->
              [q EXCEPT !.pixelX = @ + 1, !.windowX = @ + 1,
                        !.out = [x |-> p.pixelX, pixel |-> Head(p.queue),
                                 object |-> IF objSelect THEN p.slots[0] ELSE NoObject]]

\* A pixel leaves the FIFO, to be thrown away or shown with the object pixel over it.
EmitPixel(p, objSelect) ==
    LET q == [p EXCEPT !.streamStarted = TRUE, !.queue = Tail(@)]
    IN CASE p.queue = <<>> -> p
         [] p.queue # <<>> /\ p.discard > 0 -> [q EXCEPT !.discard = @ - 1]
         [] OTHER ->
              [q EXCEPT !.pixelX = @ + 1, !.windowX = @ + 1,
                        !.slots = [k \in 0..7 |-> IF k < 7 THEN p.slots[k + 1] ELSE NoObject],
                        !.out = [x |-> p.pixelX, pixel |-> Head(p.queue),
                                 object |-> IF objSelect THEN p.slots[0] ELSE NoObject]]

StepPipeline(p0, r) ==
    LET p == [p0 EXCEPT !.out = NoPixel]
        pixelDue == p.queue # <<>> \/ FetchStallDots(p) = 0
        objSelect == IF p.streamStarted THEN p.objSelect ELSE r.objOn
        a == AdvanceWindowCounter(ShiftPipes(CompareWindow(p, r), r))
        b == AbandonObjectIfDisabled(a, r)
        due == IF r.objOn /\ pixelDue THEN ObjectsDue(b) ELSE {}
        started == StartObject(b, r, FirstOf(due))
    IN CASE b.objectDots > 0 -> StallDot(b, r)
         [] b.objectDots = 0 /\ due # {} ->
              ReadObjectRowIfDue([started EXCEPT !.objectDots = @ - 1])
         [] OTHER -> EmitPixel(StepFetcher(b, r), objSelect)

-----------------------------------------------------------------------------
(* Mode 3's end *)

TriggerX(k) == IF objects[k] < 8 THEN 0 ELSE objects[k] - 8

\* The objects still to be fetched, and which of some the pixel counter reaches first.
Pending(p) == {k \in DOMAIN objects \ p.drawn : TriggerX(k) \in p.pixelX .. Width - 1}

FirstFetched(S) ==
    CHOOSE k \in S : \A j \in S : TriggerX(k) < TriggerX(j) \/ (TriggerX(k) = TriggerX(j) /\ k <= j)

\* The dots of the objects in S, fetched in that order after one charged for a given tile.
Penalties(r) ==
    LET dots[S \in SUBSET DOMAIN objects] ==
          LET k == FirstFetched(S)
          IN [tile \in Int |->
                IF S = {} THEN 0
                ELSE ObjectPenalty(objects[k], r, tile)
                     + dots[S \ {k}][PenaltyTile(objects[k], r)]]
    IN dots

PendingPenalties(p, r) == Penalties(r)[Pending(p)][p.lastTile]

\* Mutant: a restart under way is not counted.
DotsRemainingForgetsFetch(p, r) ==
    LET activation == IF /\ WindowConditions(p, r)
                         /\ p.wxPipe[1] \in p.windowX .. kWindowCounterHeadStart + Width - 1
                      THEN kWindowRestartDots ELSE 0
        started == p.penaltyStarted \/ (r.objOn /\ Pending(p) # {})
    IN Width - p.pixelX + p.objectDots + activation
       + (IF r.objOn THEN PendingPenalties(p, r) ELSE 0)
       - (IF started THEN kObjectFetcherLead ELSE 0)

\* Dots until the line's last pixel, as mode 3's end predicts them.
DotsRemaining(p, r) ==
    LET stall == IF p.queue = <<>> /\ p.pixelX < Width THEN FetchStallDots(p) ELSE 0
        activation == IF /\ WindowConditions(p, r)
                         /\ p.wxPipe[1] \in p.windowX .. kWindowCounterHeadStart + Width - 1
                      THEN kWindowRestartDots ELSE 0
        started == p.penaltyStarted \/ (r.objOn /\ Pending(p) # {})
    IN Width - p.pixelX + p.objectDots + stall + activation
       + (IF r.objOn THEN PendingPenalties(p, r) ELSE 0)
       - (IF started THEN kObjectFetcherLead ELSE 0)

-----------------------------------------------------------------------------
(* The line *)

Values == [scx |-> ScxValues, wx |-> WxValues, winOn |-> BOOLEAN, objOn |-> BOOLEAN]

Registers ==
    [scx : ScxValues, wx : WxValues, winOn : BOOLEAN, objOn : BOOLEAN, reached : BOOLEAN]

LineInit ==
    /\ regs \in Registers
    /\ objects \in ObjectLists
    /\ lineLag \in RenderLags
    /\ renderLag = lineLag
    /\ rendering = TRUE
    /\ mode = 3
    /\ t = 0
    /\ writable = TRUE
    /\ lineWrites = 0
    /\ pipe = StartLine(regs)

\* One dot of the line passes; every fourth one ends an M-cycle.
DotPasses ==
    /\ rendering
    /\ t' = t + 1
    /\ writable' = (t' % 4 = 0)
    /\ UNCHANGED <<regs, objects, lineLag, lineWrites>>

\* Rendering trails mode 3; the pipeline is reset on the last dot of the lag.
LagDot ==
    /\ DotPasses
    /\ renderLag > 0
    /\ renderLag' = renderLag - 1
    /\ pipe' = IF renderLag' = 0 THEN StartLine(regs) ELSE pipe
    /\ UNCHANGED <<rendering, mode>>

\* A dot of drawing; mode 3 ends as many dots before the last pixel as it began before the first.
DrawDot ==
    /\ DotPasses
    /\ renderLag = 0
    /\ pipe' = StepPipeline(pipe, regs)
    /\ rendering' = (pipe'.pixelX < Width)
    /\ mode' = IF DotsRemaining(pipe', regs) <= lineLag \/ ~rendering' THEN 0 ELSE mode
    /\ UNCHANGED renderLag

\* The CPU's write lands at the end of its M-cycle.
WriteRegister ==
    /\ rendering /\ writable /\ lineWrites < MaxLineWrites
    /\ \E reg \in Writable : \E v \in Values[reg] \ {regs[reg]} :
          regs' = [regs EXCEPT ![reg] = v]
    /\ lineWrites' = lineWrites + 1
    /\ writable' = FALSE
    /\ UNCHANGED <<objects, lineLag, renderLag, rendering, mode, t, pipe>>

LineNext == LagDot \/ DrawDot \/ WriteRegister

LineSpec == LineInit /\ [][LineNext]_lineVars

-----------------------------------------------------------------------------
(* Properties *)

LineUndisturbed == lineWrites = 0

Start == regs.wx - kWindowCounterHeadStart

\* The window's n-th pixel, or the background's.
PixelAt(layer, n) ==
    [layers |-> {layer},
     col |-> ((IF layer = 0 THEN regs.scx \div 8 ELSE 0) + n \div 8) % 32,
     pos |-> n % 8]

\* A window whose WX is left of the screen or at its edge is moved left by the fine scroll.
WindowPixel(x) == PixelAt(1, x - Start + (IF Start <= 0 THEN (regs.scx % 8) ELSE 0))

\* A window that is disabled where it would have started, on the first pixel of a tile,
\* leaves a pixel of colour 0 there instead.
LeavesZero ==
    /\ regs.reached /\ ~regs.winOn
    /\ Start > 0 /\ (Start + regs.scx) % 8 = 0

BackgroundPixel(x) ==
    LET moved == IF LeavesZero /\ x > Start THEN 1 ELSE 0
    IN IF LeavesZero /\ x = Start THEN ZeroPixel ELSE PixelAt(0, x - moved + (regs.scx % 8))

\* The pixel the line's registers say belongs at screen x.
ReferencePixel(x) ==
    IF WindowEnabled(regs) /\ x >= Start THEN WindowPixel(x) ELSE BackgroundPixel(x)

\* The object over screen x: the first to be fetched of those that cover it.
ReferenceObject(x) ==
    LET covering == {k \in DOMAIN objects : x + 8 \in objects[k] .. objects[k] + 7}
        before(j, k) == TriggerX(j) < TriggerX(k) \/ (TriggerX(j) = TriggerX(k) /\ j <= k)
        owner == CHOOSE k \in covering : \A j \in covering : before(k, j)
    IN IF covering = {} \/ ~regs.objOn THEN NoObject
       ELSE [obj |-> owner, i |-> x + 8 - objects[owner]]

\* A line whose registers do not change shows, at every x, the pixel and the object the
\* registers and the object list put there, whatever the stalls, restarts and discards.
PictureIsTheReference ==
    LineUndisturbed /\ pipe.out # NoPixel =>
        /\ pipe.out.pixel = ReferencePixel(pipe.out.x)
        /\ pipe.out.object = ReferenceObject(pipe.out.x)

\* The fetch of the line's first object and the window's restart share the fetcher's three
\* dots when they fall on one dot; those spent after mode 3 has ended do not shorten it.
SharedDots(p) ==
    LET left == Width - Start + PendingPenalties(p, regs)
    IN IF WindowEnabled(regs) /\ Start = TriggerX(FirstFetched(Pending(p)))
       THEN Smaller(kObjectFetcherLead, (left + 2 - lineLag) \div 2) ELSE 0

\* The terms of a mode 3 whose registers do not change: the minimum, the fine scroll, the
\* window's restart, and the objects' penalties less the fetcher's lead.
ModeThreeTerms(p) ==
    [minimum |-> Width + 12,
     fine |-> regs.scx % 8,
     restart |-> IF WindowEnabled(regs) /\ Start < Width THEN kWindowRestartDots ELSE 0,
     objects |-> IF regs.objOn /\ Pending(p) # {}
                 THEN PendingPenalties(p, regs) - kObjectFetcherLead ELSE 0]

SumOf(d) == d.minimum + d.fine + d.restart + d.objects

ModeThreeLength ==
    LET p == StartLine(regs)
        d == ModeThreeTerms(p)
    IN SumOf(d) - (IF d.objects > 0 THEN SharedDots(p) ELSE 0)

\* Mode 3 lasts exactly the sum of its terms, less the dots two of them share, on every
\* line whose registers do not change.
ModeThreeIsExact ==
    LineUndisturbed => (mode = 3 <=> t < ModeThreeLength)

\* What PixelPipeline.h says of the length: the terms are independent and additive.
ModeThreeIsAdditive ==
    LineUndisturbed => (mode = 3 <=> t < SumOf(ModeThreeTerms(StartLine(regs))))

\* What PixelPipeline.h and .cpp say of WX: one of 7 lines the window's first pixel up with
\* screen x = 0 and a smaller one leaves 7 - WX pixels off the screen; the fine scroll moves
\* the window only when WX is 0.
WindowIsPlacedByWx ==
    LineUndisturbed /\ pipe.out # NoPixel /\ regs.wx > 0 /\ pipe.out.pixel.layers = {1} =>
        pipe.out.pixel = PixelAt(1, pipe.out.x - Start)

\* No write splits a fetch over two layers: the map column and both bytes of a row come
\* from the same layer.
FetchIsWhole ==
    \A n \in DOMAIN pipe.queue : Cardinality(pipe.queue[n].layers) <= 1

\* An object pixel waits in the slot of the screen pixel it belongs to.
MergedInPlace ==
    \A k \in 0..7 : pipe.slots[k].obj # 0 =>
        pipe.slots[k].i = (pipe.pixelX + k) - (objects[pipe.slots[k].obj] - 8)
=============================================================================
