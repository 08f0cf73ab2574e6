------------------------ MODULE PixelPipelineProofs ------------------------
(* Theorems about the pixel pipeline.  For any registers and any writes to   *)
(* them, a fetch is whole and an object pixel waits where it belongs; for    *)
(* any line whose registers are left alone, the picture is the one they ask  *)
(* for, pixel and object, and mode 3 lasts exactly the sum of its terms less *)
(* the dots two of them share.                                               *)
(*                                                                           *)
(* The picture's invariant says where the stream of pixels is (FeedInv),     *)
(* which objects have been drawn and whose the slots are (ObjectInv).  The   *)
(* length's says what each pending dot will be spent on (Total): a dot of    *)
(* any kind takes one of them (CountsDown), so dots passed and dots left add *)
(* up to the same on every dot of the line.  Both are followed through a dot *)
(* in the order StepPipeline makes its calls.                                *)
EXTENDS PixelPipeline, FiniteSetTheorems, WellFoundedInduction, TLAPS

-----------------------------------------------------------------------------
(* The pixel pipeline: what a dot does to the fetch under way and to the   *)
(* object slots.  Each holds for any registers, so for any writes.         *)

\* The parts of the pipeline the two invariants are about.
Shaped(p) ==
  {"step", "stepDots", "queue", "tile", "low", "high", "window", "windowLine",
   "slots", "pixelX"} \subseteq DOMAIN p

SameFetch(p, q) ==
  /\ q.step = p.step /\ q.stepDots = p.stepDots /\ q.queue = p.queue
  /\ q.tile = p.tile /\ q.low = p.low /\ q.high = p.high
  /\ q.window = p.window /\ q.windowLine = p.windowLine

SameSlots(p, q) == q.slots = p.slots /\ q.pixelX = p.pixelX

\* No pixel of the FIFO has two layers.
PixelsWhole(queue) ==
  \E Pixels : queue \in Seq(Pixels) /\ \A x \in Pixels : Cardinality(x.layers) <= 1

\* What the reads of a fetch so far saw is the layer now, until the last read; from there on
\* the three are the same.
FetchedWhole(p) ==
  /\ p.stepDots \in {0, 1} /\ PixelsWhole(p.queue)
  /\ p.step \in {"Tile", "DataLow", "DataHigh", "Sleep", "Push"}
  /\ p.step = "Tile" /\ p.stepDots = 1 => p.tile.layer = Layer(p)
  /\ p.step = "DataLow" =>
       p.tile.layer = Layer(p) /\ (p.stepDots = 1 => p.low = Layer(p))
  /\ p.step = "DataHigh" =>
       /\ p.tile.layer = Layer(p) /\ p.low = Layer(p)
       /\ p.stepDots = 1 => p.high = Layer(p)
  /\ p.step \in {"Sleep", "Push"} => p.tile.layer = p.low /\ p.high = p.low
  /\ p.step = "Push" => p.stepDots = 0

SlotsInPlace(p) ==
  /\ p.pixelX \in Int
  /\ \A k \in 0 .. 7 : p.slots[k].obj # 0 =>
       p.slots[k].i = (p.pixelX + k) - (objects[p.slots[k].obj] - 8)

PipeInv(p) == Shaped(p) /\ FetchedWhole(p) /\ SlotsInPlace(p)

LEMMA SameKeepsFetch ==
  ASSUME NEW p, NEW q, FetchedWhole(p), SameFetch(p, q)
  PROVE  FetchedWhole(q)
BY DEF FetchedWhole, SameFetch, Layer

LEMMA SameKeepsSlots ==
  ASSUME NEW p, NEW q, SlotsInPlace(p), SameSlots(p, q)
  PROVE  SlotsInPlace(q)
BY DEF SlotsInPlace, SameSlots

\* The FIFO.
LEMMA WholeTail ==
  ASSUME NEW queue, PixelsWhole(queue), queue # <<>> PROVE PixelsWhole(Tail(queue))
<1>1. PICK Pixels : queue \in Seq(Pixels) /\ \A x \in Pixels : Cardinality(x.layers) <= 1
  BY DEF PixelsWhole
<1>2. Tail(queue) \in Seq(Pixels)
  BY <1>1
<1>3. QED
  BY <1>1, <1>2 DEF PixelsWhole

LEMMA WholeEmpty == PixelsWhole(<<>>)
<1> DEFINE Pixels == {}
<1>1. <<>> \in Seq(Pixels) /\ \A x \in Pixels : Cardinality(x.layers) <= 1
  OBVIOUS
<1> HIDE DEF Pixels
<1>2. QED
  BY <1>1 DEF PixelsWhole

LEMMA WholeJoin ==
  ASSUME NEW a, NEW b, PixelsWhole(a), PixelsWhole(b) PROVE PixelsWhole(a \o b)
<1>1. PICK A : a \in Seq(A) /\ \A x \in A : Cardinality(x.layers) <= 1
  BY DEF PixelsWhole
<1>2. PICK B : b \in Seq(B) /\ \A x \in B : Cardinality(x.layers) <= 1
  BY DEF PixelsWhole
<1>3. a \in Seq(A \cup B) /\ b \in Seq(A \cup B)
  BY <1>1, <1>2
<1>4. a \o b \in Seq(A \cup B)
  BY <1>3
<1>5. \A x \in A \cup B : Cardinality(x.layers) <= 1
  BY <1>1, <1>2
<1>6. QED
  BY <1>4, <1>5 DEF PixelsWhole

LEMMA WholeZero == PixelsWhole(<<ZeroPixel>>)
<1> DEFINE Pixels == {ZeroPixel}
<1>1. Cardinality(ZeroPixel.layers) <= 1
  BY FS_EmptySet DEF ZeroPixel
<1>2. <<ZeroPixel>> \in Seq(Pixels) /\ \A x \in Pixels : Cardinality(x.layers) <= 1
  BY <1>1
<1> HIDE DEF Pixels
<1>3. QED
  BY <1>2 DEF PixelsWhole

LEMMA WholeRow ==
  ASSUME NEW layer, NEW col
  PROVE  PixelsWhole([k \in 1 .. 8 |->
                        [layers |-> {layer, layer, layer}, col |-> col, pos |-> k - 1]])
<1> DEFINE row == [k \in 1 .. 8 |-> [layers |-> {layer, layer, layer}, col |-> col, pos |-> k - 1]]
           Pixels == {row[k] : k \in 1 .. 8}
<1>1. \A x \in Pixels : Cardinality(x.layers) <= 1
  <2> SUFFICES ASSUME NEW k \in 1 .. 8 PROVE Cardinality(row[k].layers) <= 1
    OBVIOUS
  <2>1. row[k] = [layers |-> {layer, layer, layer}, col |-> col, pos |-> k - 1]
    OBVIOUS
  <2>2. Cardinality({layer}) = 1
    BY FS_Singleton
  <2>3. {layer, layer, layer} = {layer}
    OBVIOUS
  <2> HIDE DEF row
  <2>4. row[k].layers = {layer, layer, layer}
    BY <2>1
  <2>5. Cardinality({layer}) <= 1
    BY <2>2
  <2>6. QED
    BY <2>3, <2>4, <2>5
<1>2. row \in [1 .. 8 -> Pixels]
  OBVIOUS
<1>3. row \in Seq(Pixels)
  BY <1>2
<1>4. QED
  BY <1>1, <1>3 DEF PixelsWhole

\* What only counts dots, or concerns objects.
LEMMA ShiftPipesKeeps ==
  ASSUME NEW p, NEW r, Shaped(p)
  PROVE  /\ Shaped(ShiftPipes(p, r)) /\ SameFetch(p, ShiftPipes(p, r))
         /\ SameSlots(p, ShiftPipes(p, r))
BY DEF Shaped, SameFetch, SameSlots, ShiftPipes

LEMMA AdvanceKeeps ==
  ASSUME NEW p, Shaped(p)
  PROVE  /\ Shaped(AdvanceWindowCounter(p)) /\ SameFetch(p, AdvanceWindowCounter(p))
         /\ SameSlots(p, AdvanceWindowCounter(p))
BY DEF Shaped, SameFetch, SameSlots, AdvanceWindowCounter

LEMMA AbandonKeeps ==
  ASSUME NEW p, NEW r, Shaped(p)
  PROVE  /\ Shaped(AbandonObjectIfDisabled(p, r)) /\ SameFetch(p, AbandonObjectIfDisabled(p, r))
         /\ SameSlots(p, AbandonObjectIfDisabled(p, r))
BY DEF Shaped, SameFetch, SameSlots, AbandonObjectIfDisabled

LEMMA StartObjectKeeps ==
  ASSUME NEW p, NEW r, NEW k, Shaped(p)
  PROVE  /\ Shaped(StartObject(p, r, k)) /\ SameFetch(p, StartObject(p, r, k))
         /\ SameSlots(p, StartObject(p, r, k))
BY DEF Shaped, SameFetch, SameSlots, StartObject

LEMMA CancelKeeps ==
  ASSUME NEW p, NEW r, Shaped(p)
  PROVE  /\ Shaped(CancelObjectIfDisabled(p, r)) /\ SameFetch(p, CancelObjectIfDisabled(p, r))
         /\ SameSlots(p, CancelObjectIfDisabled(p, r))
BY DEF Shaped, SameFetch, SameSlots, CancelObjectIfDisabled

\* The window's counter: it starts a new fetch, with nothing of the old one left, or puts a
\* pixel of colour 0 in front.
LEMMA CompareKeeps ==
  ASSUME NEW p, NEW r, PipeInv(p)
  PROVE  PipeInv(CompareWindow(p, r))
<1>1. Shaped(p) /\ FetchedWhole(p) /\ SlotsInPlace(p)
  BY DEF PipeInv
<1>2. PipeInv(StartWindow(p))
  <2>1. /\ Shaped(StartWindow(p)) /\ SameSlots(p, StartWindow(p))
        /\ StartWindow(p).step = "Tile" /\ StartWindow(p).stepDots = 0
        /\ StartWindow(p).queue = <<>>
    BY <1>1 DEF Shaped, SameSlots, StartWindow
  <2>2. FetchedWhole(StartWindow(p))
    BY <2>1, WholeEmpty DEF FetchedWhole
  <2>3. QED
    BY <1>1, <2>1, <2>2, SameKeepsSlots DEF PipeInv
<1>3. PipeInv(PushColourZeroPixel(p))
  <2>1. /\ Shaped(PushColourZeroPixel(p)) /\ SameSlots(p, PushColourZeroPixel(p))
        /\ SameFetch(p, [PushColourZeroPixel(p) EXCEPT !.queue = p.queue])
        /\ PushColourZeroPixel(p).queue \in {p.queue, <<ZeroPixel>> \o p.queue}
    BY <1>1 DEF Shaped, SameSlots, SameFetch, PushColourZeroPixel
  <2>2. PixelsWhole(PushColourZeroPixel(p).queue)
    BY <1>1, <2>1, WholeZero, WholeJoin DEF FetchedWhole
  <2>3. FetchedWhole(PushColourZeroPixel(p))
    BY <1>1, <2>1, <2>2 DEF FetchedWhole, SameFetch, Shaped, Layer
  <2>4. QED
    BY <1>1, <2>1, <2>3, SameKeepsSlots DEF PipeInv
<1>4. QED
  BY <1>2, <1>3 DEF CompareWindow

\* A push puts a row of the fetched layer in, and the fetch stays as it is.
LEMMA PushKeeps ==
  ASSUME NEW p, Shaped(p), PixelsWhole(p.queue), p.tile.layer = p.low, p.high = p.low
  PROVE  /\ Shaped(TryPushRow(p)) /\ SameSlots(p, TryPushRow(p)) /\ PixelsWhole(TryPushRow(p).queue)
         /\ TryPushRow(p).step = p.step /\ TryPushRow(p).stepDots = p.stepDots
         /\ TryPushRow(p).tile = p.tile /\ TryPushRow(p).low = p.low /\ TryPushRow(p).high = p.high
         /\ TryPushRow(p).window = p.window /\ TryPushRow(p).windowLine = p.windowLine
<1> DEFINE row == [k \in 1 .. 8 |-> [layers |-> {p.tile.layer, p.low, p.high},
                                     col |-> p.tile.col, pos |-> k - 1]]
<1>1. row = [k \in 1 .. 8 |-> [layers |-> {p.low, p.low, p.low}, col |-> p.tile.col, pos |-> k - 1]]
  OBVIOUS
<1>2. PixelsWhole(row)
  BY <1>1, WholeRow
<1> HIDE DEF row
<1>3. PixelsWhole(p.queue \o row)
  BY <1>2, WholeJoin
<1>4. \/ TryPushRow(p) = p
      \/ TryPushRow(p) = [p EXCEPT !.queue = @ \o row, !.fifoFed = TRUE, !.fetcherX = @ + 1,
                                   !.pushed = TRUE]
  BY DEF TryPushRow, row
<1>5. QED
  BY <1>3, <1>4 DEF Shaped, SameSlots

\* The fetcher: a read sees the layer of the reads before it.
LEMMA CompleteKeeps ==
  ASSUME NEW p, NEW r, PipeInv(p), p.step = "DataHigh", p.stepDots = 1
  PROVE  PipeInv(FetchComplete(p, r))
<1> DEFINE q == StopWindowIfDisabled([p EXCEPT !.stepDots = 0], r)
<1>1. Shaped(p) /\ FetchedWhole(p) /\ SlotsInPlace(p)
  BY DEF PipeInv
<1>2. /\ Shaped(q) /\ SameSlots(p, q) /\ q.queue = p.queue /\ q.stepDots = 0
      /\ q.tile = p.tile /\ q.low = p.low /\ q.high = p.high
  BY <1>1 DEF Shaped, SameSlots, StopWindowIfDisabled
<1>3. q.tile.layer = q.low /\ q.high = q.low /\ PixelsWhole(q.queue)
  BY <1>1, <1>2 DEF FetchedWhole
<1> DEFINE f == [q EXCEPT !.discardFetch = FALSE, !.step = "Tile"]
           u == [q EXCEPT !.pushed = FALSE]
           v == TryPushRow(u)
           w == [v EXCEPT !.step = "Sleep"]
<1>4. FetchComplete(p, r) = IF q.discardFetch THEN f ELSE w
  BY DEF FetchComplete
<1> HIDE DEF q
<1>5. /\ Shaped(u) /\ SameSlots(p, u) /\ u.queue = q.queue /\ u.stepDots = 0
      /\ u.tile = q.tile /\ u.low = q.low /\ u.high = q.high
  BY <1>2 DEF Shaped, SameSlots
<1> HIDE DEF u
<1>6. /\ Shaped(v) /\ SameSlots(u, v) /\ PixelsWhole(v.queue) /\ v.stepDots = 0
      /\ v.tile = q.tile /\ v.low = q.low /\ v.high = q.high
  BY <1>3, <1>5, PushKeeps
<1> HIDE DEF v
<1>7. PipeInv(w)
  <2>1. /\ Shaped(w) /\ SameSlots(p, w) /\ w.step = "Sleep" /\ w.stepDots = 0
        /\ w.queue = v.queue /\ w.tile = q.tile /\ w.low = q.low /\ w.high = q.high
    BY <1>5, <1>6 DEF Shaped, SameSlots
  <2>2. FetchedWhole(w)
    BY <1>3, <1>6, <2>1 DEF FetchedWhole
  <2>3. QED
    BY <1>1, <2>1, <2>2, SameKeepsSlots DEF PipeInv
<1>8. PipeInv(f)
  <2>1. /\ Shaped(f) /\ SameSlots(p, f) /\ f.step = "Tile" /\ f.stepDots = 0 /\ f.queue = q.queue
    BY <1>2 DEF Shaped, SameSlots
  <2>2. FetchedWhole(f)
    BY <1>3, <2>1 DEF FetchedWhole
  <2>3. QED
    BY <1>1, <2>1, <2>2, SameKeepsSlots DEF PipeInv
<1>9. QED
  BY <1>4, <1>7, <1>8

LEMMA FetcherKeeps ==
  ASSUME NEW p, NEW r, PipeInv(p)
  PROVE  PipeInv(StepFetcher(p, r))
<1> DEFINE s == StepFetcher(p, r)
<1>1. Shaped(p) /\ FetchedWhole(p) /\ SlotsInPlace(p)
  BY DEF PipeInv
<1>2. ASSUME NEW q, Shaped(q), FetchedWhole(q), SameSlots(p, q) PROVE PipeInv(q)
  BY <1>1, <1>2, SameKeepsSlots DEF PipeInv
<1>3. CASE p.fetchReset
  <2>1. s = [p EXCEPT !.fetchReset = FALSE]
    BY <1>3 DEF StepFetcher
  <2>2. Shaped(s) /\ SameFetch(p, s) /\ SameSlots(p, s)
    BY <1>1, <2>1 DEF Shaped, SameFetch, SameSlots
  <2>3. QED
    BY <1>1, <1>2, <2>2, SameKeepsFetch
<1>4. CASE ~p.fetchReset /\ p.step = "Tile"
  <2>1. s = Dots(IF p.stepDots = 0 THEN SampleTileIndex(p, r) ELSE p, "DataLow")
    BY <1>4 DEF StepFetcher
  <2>2. CASE p.stepDots = 0
    <3>1. /\ Shaped(s) /\ SameSlots(p, s) /\ s.queue = p.queue
          /\ s.step = "Tile" /\ s.stepDots = 1
          /\ s.tile.layer = Layer(p) /\ s.window = p.window /\ s.windowLine = p.windowLine
      BY <1>1, <1>4, <2>1, <2>2 DEF Dots, SampleTileIndex, Shaped, SameSlots
    <3>2. FetchedWhole(s)
      BY <1>1, <3>1 DEF FetchedWhole, Layer
    <3>3. QED
      BY <1>2, <3>1, <3>2
  <2>3. CASE p.stepDots = 1
    <3>1. /\ Shaped(s) /\ SameSlots(p, s) /\ s.queue = p.queue
          /\ s.step = "DataLow" /\ s.stepDots = 0
          /\ s.tile = p.tile /\ s.window = p.window /\ s.windowLine = p.windowLine
      BY <1>1, <1>4, <2>1, <2>3 DEF Dots, Shaped, SameSlots
    <3>2. FetchedWhole(s)
      BY <1>1, <1>4, <2>3, <3>1 DEF FetchedWhole, Layer
    <3>3. QED
      BY <1>2, <3>1, <3>2
  <2>4. QED
    BY <1>1, <2>2, <2>3 DEF FetchedWhole
<1>5. CASE ~p.fetchReset /\ p.step = "DataLow"
  <2>1. s = Dots(IF p.stepDots = 0 THEN [p EXCEPT !.low = Layer(p)] ELSE p, "DataHigh")
    BY <1>5 DEF StepFetcher
  <2>2. CASE p.stepDots = 0
    <3>1. /\ Shaped(s) /\ SameSlots(p, s) /\ s.queue = p.queue
          /\ s.step = "DataLow" /\ s.stepDots = 1 /\ s.low = Layer(p)
          /\ s.tile = p.tile /\ s.window = p.window /\ s.windowLine = p.windowLine
      BY <1>1, <1>5, <2>1, <2>2 DEF Dots, Shaped, SameSlots
    <3>2. FetchedWhole(s)
      BY <1>1, <1>5, <3>1 DEF FetchedWhole, Layer
    <3>3. QED
      BY <1>2, <3>1, <3>2
  <2>3. CASE p.stepDots = 1
    <3>1. /\ Shaped(s) /\ SameSlots(p, s) /\ s.queue = p.queue
          /\ s.step = "DataHigh" /\ s.stepDots = 0 /\ s.low = p.low
          /\ s.tile = p.tile /\ s.window = p.window /\ s.windowLine = p.windowLine
      BY <1>1, <1>5, <2>1, <2>3 DEF Dots, Shaped, SameSlots
    <3>2. FetchedWhole(s)
      BY <1>1, <1>5, <2>3, <3>1 DEF FetchedWhole, Layer
    <3>3. QED
      BY <1>2, <3>1, <3>2
  <2>4. QED
    BY <1>1, <2>2, <2>3 DEF FetchedWhole
<1>6. CASE ~p.fetchReset /\ p.step = "DataHigh"
  <2>1. s = IF p.stepDots = 0 THEN Dots([p EXCEPT !.high = Layer(p)], "DataHigh")
            ELSE FetchComplete(p, r)
    BY <1>6 DEF StepFetcher
  <2>2. CASE p.stepDots = 0
    <3>1. /\ Shaped(s) /\ SameSlots(p, s) /\ s.queue = p.queue
          /\ s.step = "DataHigh" /\ s.stepDots = 1 /\ s.high = Layer(p) /\ s.low = p.low
          /\ s.tile = p.tile /\ s.window = p.window /\ s.windowLine = p.windowLine
      BY <1>1, <1>6, <2>1, <2>2 DEF Dots, Shaped, SameSlots
    <3>2. FetchedWhole(s)
      BY <1>1, <1>6, <3>1 DEF FetchedWhole, Layer
    <3>3. QED
      BY <1>2, <3>1, <3>2
  <2>3. CASE p.stepDots = 1
    BY <1>6, <2>1, <2>3, CompleteKeeps
  <2>4. QED
    BY <1>1, <2>2, <2>3 DEF FetchedWhole
<1>7. CASE ~p.fetchReset /\ p.step \in {"Sleep", "Push"}
  <2> DEFINE q == IF p.step = "Sleep" /\ p.pushed THEN p ELSE TryPushRow(p)
  <2>1. /\ Shaped(q) /\ SameSlots(p, q) /\ PixelsWhole(q.queue)
        /\ q.step = p.step /\ q.stepDots = p.stepDots
        /\ q.tile = p.tile /\ q.low = p.low /\ q.high = p.high
    BY <1>1, <1>7, PushKeeps DEF FetchedWhole, SameSlots
  <2>2. p.stepDots \in {0, 1} /\ p.tile.layer = p.low /\ p.high = p.low
    BY <1>1, <1>7 DEF FetchedWhole
  <2>3. /\ p.step = "Sleep" => s \in {Dots(q, "Tile"), Dots(q, "Push")}
        /\ p.step = "Push" => s \in {q, [q EXCEPT !.step = "Tile"]}
    BY <1>7 DEF StepFetcher
  <2> HIDE DEF q, s
  <2>4. /\ Shaped(s) /\ SameSlots(p, s) /\ s.queue = q.queue
        /\ s.tile = p.tile /\ s.low = p.low /\ s.high = p.high
        /\ \/ s.step = "Sleep" /\ s.stepDots = 1
           \/ s.step \in {"Tile", "Push"} /\ s.stepDots = 0
    <3>1. CASE p.step = "Sleep"
      BY <2>1, <2>2, <2>3, <3>1 DEF Dots, Shaped, SameSlots
    <3>2. CASE p.step = "Push"
      <4>1. q.stepDots = 0
        BY <1>1, <2>1, <3>2 DEF FetchedWhole
      <4>2. QED
        BY <2>1, <2>3, <3>2, <4>1 DEF Shaped, SameSlots
    <3>3. QED
      BY <1>7, <3>1, <3>2
  <2>5. FetchedWhole(s)
    BY <2>1, <2>2, <2>4 DEF FetchedWhole
  <2>6. QED
    BY <1>2, <2>4, <2>5 DEF s
<1>8. QED
  BY <1>1, <1>3, <1>4, <1>5, <1>6, <1>7 DEF FetchedWhole

\* An object's row: each slot it takes holds the pixel of the screen position the slot is for.
LEMMA MergeKeeps ==
  ASSUME NEW p, PipeInv(p)
  PROVE  PipeInv(ReadObjectRowIfDue(p))
<1>1. Shaped(p) /\ FetchedWhole(p) /\ SlotsInPlace(p)
  BY DEF PipeInv
<1>2. PipeInv([p EXCEPT !.objectLowRead = TRUE])
  <2> DEFINE q == [p EXCEPT !.objectLowRead = TRUE]
  <2>1. Shaped(q) /\ SameFetch(p, q) /\ SameSlots(p, q)
    BY <1>1 DEF Shaped, SameFetch, SameSlots
  <2>2. QED
    BY <1>1, <2>1, SameKeepsFetch, SameKeepsSlots DEF PipeInv
<1>3. PipeInv(MergeObject(p))
  <2> DEFINE q == MergeObject(p)
             left == objects[p.objectIndex] - 8
             claims(k) == p.pixelX + k \in left .. left + 7 /\ p.slots[k].obj = 0
  <2>1. /\ Shaped(q) /\ SameFetch(p, q) /\ q.pixelX = p.pixelX
        /\ q.slots = [k \in 0 .. 7 |->
                        IF claims(k) THEN [obj |-> p.objectIndex, i |-> (p.pixelX + k) - left]
                        ELSE p.slots[k]]
    BY <1>1 DEF Shaped, SameFetch, MergeObject
  <2> HIDE DEF q
  <2>2. SlotsInPlace(q)
    <3> SUFFICES ASSUME NEW k \in 0 .. 7, q.slots[k].obj # 0
                 PROVE  q.slots[k].i = (q.pixelX + k) - (objects[q.slots[k].obj] - 8)
      BY <1>1, <2>1 DEF SlotsInPlace
    <3>1. CASE claims(k)
      <4>1. q.slots[k] = [obj |-> p.objectIndex, i |-> (p.pixelX + k) - left]
        BY <2>1, <3>1
      <4>2. q.slots[k].obj = p.objectIndex /\ q.slots[k].i = (p.pixelX + k) - left
        BY <4>1
      <4>3. QED
        BY <2>1, <4>2
    <3>2. CASE ~claims(k)
      <4>1. q.slots[k] = p.slots[k]
        BY <2>1, <3>2
      <4>2. QED
        BY <1>1, <2>1, <4>1 DEF SlotsInPlace
    <3>3. QED
      BY <3>1, <3>2
  <2>3. QED
    BY <1>1, <2>1, <2>2, SameKeepsFetch DEF PipeInv, q
<1>4. QED
  BY <1>2, <1>3 DEF ReadObjectRowIfDue

\* A pixel shown moves the slots on with the counter; one thrown away moves neither.
LEMMA EmitKeeps ==
  ASSUME NEW p, NEW objSelect, PipeInv(p)
  PROVE  PipeInv(EmitPixel(p, objSelect))
<1> DEFINE q == EmitPixel(p, objSelect)
           moved == [k \in 0 .. 7 |-> IF k < 7 THEN p.slots[k + 1] ELSE NoObject]
<1>1. Shaped(p) /\ FetchedWhole(p) /\ SlotsInPlace(p)
  BY DEF PipeInv
<1>2. CASE p.queue = <<>>
  BY <1>2 DEF EmitPixel
<1>3. CASE p.queue # <<>>
  <2>1. /\ Shaped(q) /\ q.queue = Tail(p.queue)
        /\ q.step = p.step /\ q.stepDots = p.stepDots
        /\ q.tile = p.tile /\ q.low = p.low /\ q.high = p.high
        /\ q.window = p.window /\ q.windowLine = p.windowLine
        /\ \/ SameSlots(p, q)
           \/ q.pixelX = p.pixelX + 1 /\ q.slots = moved
    BY <1>1, <1>3 DEF EmitPixel, Shaped, SameSlots
  <2> HIDE DEF q
  <2>2. PixelsWhole(q.queue)
    BY <1>1, <1>3, <2>1, WholeTail DEF FetchedWhole
  <2>3. FetchedWhole(q)
    BY <1>1, <2>1, <2>2 DEF FetchedWhole, Layer
  <2>4. SlotsInPlace(q)
    <3>1. CASE SameSlots(p, q)
      BY <1>1, <3>1, SameKeepsSlots
    <3>2. CASE q.pixelX = p.pixelX + 1 /\ q.slots = moved
      <4> SUFFICES ASSUME NEW k \in 0 .. 7, q.slots[k].obj # 0
                   PROVE  q.slots[k].i = (q.pixelX + k) - (objects[q.slots[k].obj] - 8)
        BY <1>1, <3>2 DEF SlotsInPlace
      <4> DEFINE left == objects[q.slots[k].obj] - 8
      <4>1. k < 7
        BY <3>2 DEF NoObject
      <4>2. q.slots[k] = p.slots[k + 1] /\ k + 1 \in 0 .. 7
        BY <3>2, <4>1
      <4>3. p.slots[k + 1].i = (p.pixelX + (k + 1)) - left
        BY <1>1, <4>2 DEF SlotsInPlace
      <4>4. p.pixelX + (k + 1) = q.pixelX + k
        BY <1>1, <3>2 DEF SlotsInPlace
      <4> HIDE DEF left
      <4>5. p.slots[k + 1].i = (q.pixelX + k) - left
        BY <4>3, <4>4
      <4>6. q.slots[k].i = (q.pixelX + k) - left
        BY <4>2, <4>5
      <4>7. QED
        BY <4>6 DEF left
    <3>3. QED
      BY <2>1, <3>1, <3>2
  <2>5. QED
    BY <2>1, <2>3, <2>4 DEF PipeInv, q
<1>4. QED
  BY <1>2, <1>3

\* What keeps the fetch and the slots keeps the invariant.
LEMMA SameKeeps ==
  ASSUME NEW p, NEW q, PipeInv(p), Shaped(q), SameFetch(p, q), SameSlots(p, q)
  PROVE  PipeInv(q)
BY SameKeepsFetch, SameKeepsSlots DEF PipeInv

LEMMA StallKeeps ==
  ASSUME NEW p, NEW r, PipeInv(p)
  PROVE  PipeInv(StallDot(p, r))
<1> DEFINE a == [p EXCEPT !.objectDots = @ - 1]
           c == [a EXCEPT !.objectLeadDots = @ - 1]
           b == IF a.objectLeadDots > 0 THEN StepFetcher(c, r) ELSE a
<1>1. PipeInv(a)
  <2>1. Shaped(a) /\ SameFetch(p, a) /\ SameSlots(p, a)
    BY DEF PipeInv, Shaped, SameFetch, SameSlots
  <2>2. QED
    BY <2>1, SameKeeps
<1> HIDE DEF a
<1>2. PipeInv(c)
  <2>1. Shaped(c) /\ SameFetch(a, c) /\ SameSlots(a, c)
    BY <1>1 DEF PipeInv, Shaped, SameFetch, SameSlots
  <2>2. QED
    BY <1>1, <2>1, SameKeeps
<1> HIDE DEF c
<1>3. PipeInv(b)
  BY <1>1, <1>2, FetcherKeeps
<1>4. StallDot(p, r) = ReadObjectRowIfDue(CancelObjectIfDisabled(b, r))
  BY DEF StallDot, a, c
<1> HIDE DEF b
<1>5. PipeInv(CancelObjectIfDisabled(b, r))
  BY <1>3, CancelKeeps, SameKeeps DEF PipeInv
<1>6. QED
  BY <1>4, <1>5, MergeKeeps

LEMMA DotKeeps ==
  ASSUME NEW p0, NEW r, PipeInv(p0)
  PROVE  PipeInv(StepPipeline(p0, r))
<1> DEFINE p == [p0 EXCEPT !.out = NoPixel]
           m == CompareWindow(p, r)
           a == AdvanceWindowCounter(ShiftPipes(m, r))
           b == AbandonObjectIfDisabled(a, r)
           pixelDue == p.queue # <<>> \/ FetchStallDots(p) = 0
           objSelect == IF p.streamStarted THEN p.objSelect ELSE r.objOn
           due == IF r.objOn /\ pixelDue THEN ObjectsDue(b) ELSE {}
           started == StartObject(b, r, FirstOf(due))
           u == [started EXCEPT !.objectDots = @ - 1]
<1>1. PipeInv(p)
  <2>1. Shaped(p) /\ SameFetch(p0, p) /\ SameSlots(p0, p)
    BY DEF PipeInv, Shaped, SameFetch, SameSlots
  <2>2. QED
    BY <2>1, SameKeeps
<1>2. \/ StepPipeline(p0, r) = StallDot(b, r)
      \/ StepPipeline(p0, r) = ReadObjectRowIfDue(u)
      \/ StepPipeline(p0, r) = EmitPixel(StepFetcher(b, r), objSelect)
  BY DEF StepPipeline
<1> HIDE DEF p, objSelect
<1>3. PipeInv(m)
  BY <1>1, CompareKeeps
<1> HIDE DEF m
<1>4. PipeInv(ShiftPipes(m, r))
  BY <1>3, ShiftPipesKeeps, SameKeeps DEF PipeInv
<1>5. PipeInv(a)
  BY <1>4, AdvanceKeeps, SameKeeps DEF PipeInv
<1> HIDE DEF a
<1>6. PipeInv(b)
  BY <1>5, AbandonKeeps, SameKeeps DEF PipeInv
<1> HIDE DEF b, due
<1>7. PipeInv(started)
  BY <1>6, StartObjectKeeps, SameKeeps DEF PipeInv
<1> HIDE DEF started
<1>8. PipeInv(u)
  <2>1. Shaped(u) /\ SameFetch(started, u) /\ SameSlots(started, u)
    BY <1>7 DEF PipeInv, Shaped, SameFetch, SameSlots
  <2>2. QED
    BY <1>7, <2>1, SameKeeps
<1> HIDE DEF u
<1>9. QED
  BY <1>2, <1>6, <1>8, StallKeeps, MergeKeeps, EmitKeeps, FetcherKeeps

LEMMA StartKeeps ==
  ASSUME NEW r PROVE PipeInv(StartLine(r))
<1> DEFINE p == StartLine(r)
<1>1. /\ Shaped(p) /\ p.step = "Tile" /\ p.stepDots = 0 /\ p.queue = <<>> /\ p.pixelX = 0
      /\ p.slots = [k \in 0 .. 7 |-> NoObject]
  BY DEF StartLine, Shaped
<1> HIDE DEF p
<1>2. FetchedWhole(p)
  BY <1>1, WholeEmpty DEF FetchedWhole
<1>3. SlotsInPlace(p)
  BY <1>1 DEF SlotsInPlace, NoObject
<1>4. QED
  BY <1>1, <1>2, <1>3 DEF PipeInv, p

LEMMA LineKeepsPipe == PipeInv(pipe) /\ [LineNext]_lineVars => PipeInv(pipe)'
<1> SUFFICES ASSUME PipeInv(pipe), [LineNext]_lineVars PROVE PipeInv(pipe)'
  OBVIOUS
<1>1. ASSUME objects' = objects, PipeInv(pipe') PROVE PipeInv(pipe)'
  BY <1>1 DEF PipeInv, Shaped, FetchedWhole, Layer, SlotsInPlace
<1>2. CASE LagDot
  <2>1. objects' = objects /\ (pipe' = StartLine(regs) \/ pipe' = pipe)
    BY <1>2 DEF LagDot, DotPasses
  <2>2. QED
    BY <1>1, <2>1, StartKeeps
<1>3. CASE DrawDot
  <2>1. objects' = objects /\ pipe' = StepPipeline(pipe, regs)
    BY <1>3 DEF DrawDot, DotPasses
  <2>2. QED
    BY <1>1, <2>1, DotKeeps
<1>4. CASE WriteRegister
  <2>1. objects' = objects /\ pipe' = pipe
    BY <1>4 DEF WriteRegister
  <2>2. QED
    BY <1>1, <2>1
<1>5. CASE UNCHANGED lineVars
  <2>1. objects' = objects /\ pipe' = pipe
    BY <1>5 DEF lineVars
  <2>2. QED
    BY <1>1, <2>1
<1>6. QED
  BY <1>2, <1>3, <1>4, <1>5 DEF LineNext

LEMMA PipeAlways == LineSpec => []PipeInv(pipe)
<1>1. LineInit => PipeInv(pipe)
  BY StartKeeps DEF LineInit
<1>2. QED
  BY <1>1, LineKeepsPipe, PTL DEF LineSpec

\* A fetch's three reads see one layer, for any line, whatever is written to the registers and
\* however often, where the window starts and stops among them (PixelPipeline.cpp).
THEOREM FetchIsWholeAlways == LineSpec => []FetchIsWhole
<1>1. PipeInv(pipe) => FetchIsWhole
  <2> SUFFICES ASSUME PipeInv(pipe), NEW n \in DOMAIN pipe.queue
               PROVE  Cardinality(pipe.queue[n].layers) <= 1
    BY DEF FetchIsWhole
  <2>1. PICK Pixels : pipe.queue \in Seq(Pixels) /\ \A x \in Pixels : Cardinality(x.layers) <= 1
    BY DEF PipeInv, FetchedWhole, PixelsWhole
  <2>2. pipe.queue[n] \in Pixels
    BY <2>1
  <2>3. QED
    BY <2>1, <2>2
<1>2. QED
  BY <1>1, PipeAlways, PTL

\* An object pixel waits in the slot of the screen pixel it belongs to, for any object list,
\* whatever is fetched, discarded or abandoned meanwhile (PixelPipeline.cpp).
THEOREM MergedInPlaceAlways == LineSpec => []MergedInPlace
<1>1. PipeInv(pipe) => MergedInPlace
  BY DEF PipeInv, SlotsInPlace, MergedInPlace
<1>2. QED
  BY <1>1, PipeAlways, PTL

-----------------------------------------------------------------------------
(* A line whose registers are left alone. First the stream of pixels:      *)
(* what is in the FIFO, how far it is ahead of the screen, and what the    *)
(* fetcher has in hand.                                                    *)

\* The line's registers and objects are bytes and flags.
LineTyped ==
  /\ regs \in [scx : 0..255, wx : 0..255, winOn : BOOLEAN, objOn : BOOLEAN, reached : BOOLEAN]
  /\ objects \in Seq(0..255)

Fine == regs.scx % 8

\* The layer the line is in, and the map column its rows begin at.
Row(p) == IF p.window THEN 1 ELSE 0
FirstColumn(p) == IF p.window THEN 0 ELSE regs.scx \div 8

\* The row in the fetcher's hands is the next one of its layer.
RowIsNext(p) ==
  /\ p.step = "Push" => ~p.pushed
  /\ \/ p.step = "Tile" /\ p.stepDots = 1
     \/ p.step \in {"DataLow", "DataHigh"}
     \/ p.step \in {"Sleep", "Push"} /\ ~p.pushed
     => p.discardFetch \/ (/\ p.tile.layer = Row(p)
                           /\ p.tile.col = (FirstColumn(p) + p.fetcherX) % 32)

\* A pixel of colour 0 has been put in, and is still in front.
ZeroPut(p) == LeavesZero /\ p.comparedX = regs.wx
ZeroAhead(p) == ZeroPut(p) /\ p.pixelX = Start

\* The FIFO holds the pixels of the layer's next ones, up to the rows fetched.
QueueIsNext(p) ==
  \A j \in 1 .. Len(p.queue) :
    p.queue[j] = IF ZeroAhead(p) /\ j = 1 THEN ZeroPixel
                 ELSE PixelAt(Row(p), 8 * p.fetcherX - Len(p.queue) + (j - 1))

\* How far the stream of a layer is ahead of the screen.
Offset(p) ==
  IF p.window THEN (IF Start <= 0 THEN Fine ELSE 0) - Start
  ELSE Fine - (IF ZeroPut(p) THEN 1 ELSE 0)

Placed(rows, x, thrown, ahead, waiting) == 8 * rows = x - thrown + ahead + waiting
StreamIsPlaced(p) ==
  Placed(p.fetcherX, p.pixelX, p.discard, Offset(p), Len(p.queue))

\* The dots the fetcher and the window's counter have run.
Place(step) == IF step = "Tile" THEN 0 ELSE IF step = "DataLow" THEN 2 ELSE 4
FetchedDots(p) ==
  IF p.fetchReset THEN 0
  ELSE (IF p.discardFetch THEN 1 ELSE 7) + Place(p.step) + p.stepDots
CountedDots(p) == 5 - p.lead + p.windowX

\* A WX met with the window off is not met again.
ComparedOnce(p) == p.comparedX = -1 \/ (p.comparedX = regs.wx /\ ~WindowEnabled(regs))

\* Before the first row: the fetcher and the counter run side by side.
Prefetching(p, d) ==
  /\ ~p.window /\ p.windowLine = 0 /\ p.queue = <<>> /\ ~p.fifoFed /\ p.pixelX = 0
  /\ p.fetcherX = 0 /\ ~p.headStart
  /\ ~p.penaltyStarted /\ p.fifoLead = 0 /\ p.objectLeadDots = 0
  /\ p.step \in {"Tile", "DataLow", "DataHigh"} /\ p.stepDots \in {0, 1}
  /\ p.lead \in 0 .. 5 /\ p.windowX \in 0 .. 7 /\ (p.lead > 0 => p.windowX = 0)
  /\ FetchedDots(p) + d = CountedDots(p)
  /\ p.fetchReset => p.step = "Tile" /\ p.stepDots = 0 /\ p.discardFetch
  /\ p.discard = IF FetchedDots(p) < 2 THEN 0 ELSE Fine
  /\ ComparedOnce(p) /\ (p.comparedX = regs.wx => regs.wx <= 7)
  /\ RowIsNext(p)

Gained(p) == IF p.penaltyStarted THEN 3 - p.objectLeadDots ELSE 0

\* Dots until the fetcher has its next row.
Distance(p) ==
  (IF p.step = "Tile" THEN 5 ELSE IF p.step = "DataLow" THEN 3
   ELSE IF p.step = "DataHigh" THEN 1 ELSE 7) - p.stepDots

\* Until a pixel of colour 0 has been put in, the FIFO runs out just as a row comes.
Fed(p, e) ==
  /\ p.step # "Push" /\ (p.step = "Sleep" => p.pushed)
  /\ Len(p.queue) = Distance(p) + Gained(p) + e

Streaming(p, e) ==
  /\ ~p.window /\ p.windowLine = 0 /\ p.headStart /\ p.lead = 0 /\ p.windowX = p.pixelX + 7
  /\ ~p.discardFetch /\ ~p.fetchReset
  /\ p.pixelX > 0 => p.discard = 0
  /\ p.pixelX > 0 \/ p.queue # <<>> => p.fifoFed
  /\ p.objectLeadDots \in 0 .. 3 /\ (~p.penaltyStarted => p.objectLeadDots = 0)
  /\ p.fifoLead = (IF p.penaltyStarted THEN 3 ELSE 0)
  /\ StreamIsPlaced(p) /\ QueueIsNext(p) /\ RowIsNext(p)
  /\ ComparedOnce(p)
  /\ ~ZeroPut(p) => Fed(p, e)
  /\ ZeroPut(p) => p.pixelX >= Start
  /\ ZeroAhead(p) => p.queue # <<>>
  /\ regs.reached /\ regs.wx <= 7 => p.comparedX = regs.wx

InWindow(p) ==
  /\ p.window /\ p.windowLine = 1 /\ WindowEnabled(regs) /\ p.comparedX = regs.wx
  /\ ~p.discardFetch /\ p.pixelX >= Start /\ p.fifoLead \in Nat
  /\ StreamIsPlaced(p) /\ QueueIsNext(p) /\ RowIsNext(p)

\* Where the counter has still to meet WX.
NotYet(p) == regs.reached /\ p.comparedX # regs.wx => p.windowX <= regs.wx
NotMet(p) == regs.reached /\ p.comparedX # regs.wx => p.windowX < regs.wx \/ p.lead > 0

FeedInv(p) ==
  /\ p.pixelX \in Nat /\ p.discard \in Nat /\ p.fetcherX \in Nat /\ p.window \in BOOLEAN
  /\ \/ Prefetching(p, 0) /\ NotYet(p)
     \/ Streaming(p, 0) /\ NotYet(p)
     \/ InWindow(p)

\* The objects: j is fetched before k, and k covers screen x.
Ahead(j, k) == TriggerX(j) < TriggerX(k) \/ (TriggerX(j) = TriggerX(k) /\ j < k)
Covers(k, x) == x + 8 \in objects[k] .. objects[k] + 7

\* The objects whose pixels are in the slots.
Merged(p) == p.drawn \ (IF p.objectFetching THEN {p.objectIndex} ELSE {})

\* A slot is the first object's to be fetched of those merged that cover its pixel.
SlotIsOwned(p, s) ==
  LET k == p.slots[s].obj
  IN IF k = 0 THEN p.slots[s] = NoObject /\ \A j \in Merged(p) : ~Covers(j, p.pixelX + s)
     ELSE /\ k \in Merged(p) /\ Covers(k, p.pixelX + s)
          /\ p.slots[s] = [obj |-> k, i |-> (p.pixelX + s) - (objects[k] - 8)]
          /\ \A j \in Merged(p) : Covers(j, p.pixelX + s) => j = k \/ Ahead(k, j)

\* The objects drawn are those whose X the pixel counter has passed, in the order it meets them.
DrawnInOrder(p) ==
  /\ p.pixelX \in Nat
  /\ p.drawn \subseteq DOMAIN objects /\ (~regs.objOn => p.drawn = {})
  /\ \A k \in p.drawn : TriggerX(k) <= p.pixelX
  /\ regs.objOn => \A k \in DOMAIN objects : TriggerX(k) < p.pixelX => k \in p.drawn
  /\ \A j \in p.drawn : \A k \in DOMAIN objects \ p.drawn : Ahead(j, k)

\* The object being fetched is the last of them.
FetchIsLast(p) ==
  /\ p.objectFetching \in BOOLEAN /\ p.objectDots \in Nat
  /\ p.objectDots > 0 => p.penaltyStarted
  /\ p.objectFetching =>
       /\ p.objectIndex \in p.drawn /\ TriggerX(p.objectIndex) = p.pixelX
       /\ p.objectEarlyDots \in Nat
       /\ \A j \in p.drawn : j = p.objectIndex \/ Ahead(j, p.objectIndex)

\* Its pixels are merged before its dots are over.
MergeIsAhead(p) == p.objectFetching => p.objectDots > p.objectEarlyDots

SlotsAreOwned(p) == \A s \in 0 .. 7 : SlotIsOwned(p, s)

ObjectInv(p) == DrawnInOrder(p) /\ FetchIsLast(p) /\ MergeIsAhead(p) /\ SlotsAreOwned(p)

\* Registers that are read late have the values they have now.
SettledInv(p) == (p.streamStarted => p.objSelect = regs.objOn) /\ p.wxPipe = <<regs.wx, regs.wx>>

-----------------------------------------------------------------------------
(* A row put into the FIFO.                                                *)

\* The fields the picture depends on.
Drawn(p) ==
  {"step", "stepDots", "pushed", "fetchReset", "fetcherX", "discardFetch", "queue", "fifoFed",
   "fifoLead", "tile", "low", "high", "pixelX", "discard", "streamStarted", "objSelect", "window",
   "windowX", "headStart", "comparedX", "lead", "wxPipe", "windowLine", "slots", "drawn",
   "objectDots", "objectIndex", "objectFetching", "objectLowRead", "objectEarlyDots",
   "objectLeadDots", "lastTile", "penaltyStarted", "out"} \subseteq DOMAIN p

\* A row put in: the pixels of eight screen positions.
LEMMA JoinIn ==
  ASSUME NEW S, NEW a \in Seq(S), NEW b \in Seq(S)
  PROVE  a \o b \in Seq(S) /\ Len(a \o b) = Len(a) + Len(b)
OBVIOUS

\* Whose pixel each position of two joined queues is.
LEMMA JoinAt ==
  ASSUME NEW S, NEW a \in Seq(S), NEW b \in Seq(S), NEW j \in 1 .. Len(a) + Len(b)
  PROVE  /\ j <= Len(a) => j \in 1 .. Len(a) /\ (a \o b)[j] = a[j]
         /\ j > Len(a) => j - Len(a) \in 1 .. Len(b) /\ (a \o b)[j] = b[j - Len(a)]
OBVIOUS

\* A queue without its first pixel.
LEMMA TailAt ==
  ASSUME NEW S, NEW a \in Seq(S), a # <<>>
  PROVE  /\ Len(a) \in Nat \ {0} /\ Tail(a) \in Seq(S) /\ Len(Tail(a)) = Len(a) - 1
         /\ Head(a) = a[1]
         /\ \A j \in 1 .. Len(a) - 1 : Tail(a)[j] = a[j + 1]
OBVIOUS

\* The stream of pixels: where it is, what is in the FIFO, and whose rows are fetched.
Stocked(p) ==
  /\ p.pixelX \in Nat /\ p.discard \in Nat /\ p.fetcherX \in Nat /\ p.window \in BOOLEAN
  /\ StreamIsPlaced(p) /\ QueueIsNext(p)
  /\ ZeroAhead(p) => p.queue # <<>>
  /\ p.windowLine = Row(p)

\* The row fetched is the layer's next one.
InHand(p) ==
  /\ p.tile.layer = Row(p) /\ p.low = p.tile.layer /\ p.high = p.tile.layer
  /\ p.tile.col = (FirstColumn(p) + p.fetcherX) % 32

\* What the types of the line say, one by one.
LEMMA LineFacts ==
  ASSUME LineTyped
  PROVE  /\ regs.scx \in 0 .. 255 /\ regs.wx \in 0 .. 255 /\ regs.winOn \in BOOLEAN
         /\ regs.objOn \in BOOLEAN /\ regs.reached \in BOOLEAN
         /\ Fine \in 0 .. 7 /\ Start \in Int /\ Start = regs.wx - 7
<1>1. /\ regs.scx \in 0 .. 255 /\ regs.wx \in 0 .. 255 /\ regs.winOn \in BOOLEAN
      /\ regs.objOn \in BOOLEAN /\ regs.reached \in BOOLEAN
  BY DEF LineTyped
<1>2. QED
  BY <1>1 DEF Fine, Start, kWindowCounterHeadStart

LEMMA WxTyped == LineTyped => regs.wx \in Nat
<1> SUFFICES ASSUME LineTyped PROVE regs.wx \in Nat
  OBVIOUS
<1>1. regs.wx \in 0 .. 255
  BY LineFacts
<1>2. QED
  BY <1>1

\* How far the stream is ahead is a whole number.
LEMMA OffsetTyped ==
  ASSUME LineTyped, NEW p PROVE Offset(p) \in Int
BY LineFacts DEF Offset

\* A row put in, a pixel thrown away, one shown and one of colour 0: the stream stays in place.
LEMMA PlacedMoves ==
  ASSUME NEW f \in Int, NEW x \in Int, NEW d \in Int, NEW o \in Int, NEW l \in Int,
         Placed(f, x, d, o, l)
  PROVE  /\ Placed(f + 1, x, d, o, l + 8)
         /\ Placed(f, x, d - 1, o, l - 1)
         /\ Placed(f, x + 1, d, o, l - 1)
         /\ Placed(f, x, d, o - 1, l + 1)
BY DEF Placed

\* The same pixel, counted from the old end of the FIFO and from the new one.
LEMMA RowIndex ==
  ASSUME NEW f \in Int, NEW l \in Int, NEW j \in Int
  PROVE  /\ 8 * (f + 1) - (l + 8) + (j - 1) = 8 * f - l + (j - 1)
         /\ 8 * f + ((j - l) - 1) = 8 * f - l + (j - 1)
OBVIOUS

\* The row fetched is eight pixels of the layer, the next ones.
LEMMA RowPixels ==
  ASSUME LineTyped, NEW p, p.fetcherX \in Nat, p.tile.col = (FirstColumn(p) + p.fetcherX) % 32,
         NEW k \in 1 .. 8
  PROVE  [layers |-> {Row(p), Row(p), Row(p)}, col |-> p.tile.col, pos |-> k - 1]
           = PixelAt(Row(p), 8 * p.fetcherX + (k - 1))
<1> DEFINE n == 8 * p.fetcherX + (k - 1)
           base == IF Row(p) = 0 THEN regs.scx \div 8 ELSE 0
<1>1. n \div 8 = p.fetcherX /\ n % 8 = k - 1
  OBVIOUS
<1>2. base = FirstColumn(p)
  BY DEF Row, FirstColumn
<1>3. PixelAt(Row(p), n) = [layers |-> {Row(p)}, col |-> (base + n \div 8) % 32, pos |-> n % 8]
  BY DEF PixelAt
<1> HIDE DEF base, n
<1>4. {Row(p), Row(p), Row(p)} = {Row(p)}
  OBVIOUS
<1>5. QED
  BY <1>1, <1>2, <1>3, <1>4 DEF n

\* A row with room for it goes in behind the pixels it follows.
LEMMA PushSupplies ==
  ASSUME LineTyped, NEW p, Drawn(p), Stocked(p), PixelsWhole(p.queue), InHand(p),
         p.fifoLead \in Nat, Len(p.queue) <= p.fifoLead
  PROVE  /\ TryPushRow(p) = [p EXCEPT !.queue = TryPushRow(p).queue, !.fifoFed = TRUE,
                                      !.fetcherX = p.fetcherX + 1, !.pushed = TRUE]
         /\ Len(TryPushRow(p).queue) = Len(p.queue) + 8
         /\ Stocked(TryPushRow(p))
<1> DEFINE row == [k \in 1 .. 8 |-> [layers |-> {p.tile.layer, p.low, p.high},
                                     col |-> p.tile.col, pos |-> k - 1]]
           q == TryPushRow(p)
           T == {row[k] : k \in 1 .. 8}
<1>1. PICK S : p.queue \in Seq(S)
  BY DEF PixelsWhole
<1>2. row \in Seq(T) /\ Len(row) = 8
  OBVIOUS
<1>3. \A k \in 1 .. 8 : row[k] = PixelAt(Row(p), 8 * p.fetcherX + (k - 1))
  BY RowPixels DEF InHand, Stocked
<1>4. q = [p EXCEPT !.queue = @ \o row, !.fifoFed = TRUE, !.fetcherX = @ + 1, !.pushed = TRUE]
  <2>1. ~(Len(p.queue) > p.fifoLead)
    <3>1. Len(p.queue) \in Nat
      BY <1>1
    <3>2. QED
      BY <3>1
  <2>2. QED
    BY <2>1 DEF TryPushRow
<1> HIDE DEF row, q, T
<1>5. p.queue \in Seq(S \cup T) /\ row \in Seq(S \cup T)
  BY <1>1, <1>2
<1>6. p.queue \o row \in Seq(S \cup T) /\ Len(p.queue \o row) = Len(p.queue) + 8
  BY <1>2, <1>5, JoinIn
<1>7. /\ q.queue = p.queue \o row /\ q.fetcherX = p.fetcherX + 1 /\ q.pixelX = p.pixelX
      /\ q.discard = p.discard /\ q.window = p.window /\ q.windowLine = p.windowLine
      /\ q.comparedX = p.comparedX
  BY <1>4 DEF Drawn
<1>8. Row(q) = Row(p) /\ (ZeroPut(q) <=> ZeroPut(p)) /\ (ZeroAhead(q) <=> ZeroAhead(p))
      /\ Offset(q) = Offset(p)
  BY <1>7 DEF Row, ZeroPut, ZeroAhead, Offset
<1>9. StreamIsPlaced(q)
  <2>1. Offset(p) \in Int /\ Len(p.queue) \in Nat /\ Len(q.queue) = Len(p.queue) + 8
    BY <1>1, <1>6, <1>7, OffsetTyped
  <2>2. p.pixelX \in Nat /\ p.discard \in Nat /\ p.fetcherX \in Nat /\ StreamIsPlaced(p)
    BY DEF Stocked
  <2>3. p.pixelX \in Int /\ p.discard \in Int /\ p.fetcherX \in Int /\ Len(p.queue) \in Int
    BY <2>1, <2>2
  <2>4. Placed(p.fetcherX, p.pixelX, p.discard, Offset(p), Len(p.queue))
    BY <2>2 DEF StreamIsPlaced
  <2>5. Placed(p.fetcherX + 1, p.pixelX, p.discard, Offset(p), Len(p.queue) + 8)
    BY <2>1, <2>3, <2>4, PlacedMoves, Zenon
  <2>6. QED
    BY <1>7, <1>8, <2>1, <2>5 DEF StreamIsPlaced
<1>10. QueueIsNext(q)
  <2> SUFFICES ASSUME NEW j \in 1 .. Len(p.queue) + 8
               PROVE  q.queue[j] = IF ZeroAhead(p) /\ j = 1 THEN ZeroPixel
                        ELSE PixelAt(Row(p), 8 * (p.fetcherX + 1) - (Len(p.queue) + 8) + (j - 1))
    BY <1>6, <1>7, <1>8 DEF QueueIsNext
  <2>1. Len(p.queue) \in Nat /\ j \in Nat /\ p.fetcherX \in Nat
    BY <1>1 DEF Stocked
  <2>2. 8 * (p.fetcherX + 1) - (Len(p.queue) + 8) + (j - 1)
          = 8 * p.fetcherX - Len(p.queue) + (j - 1)
    BY <2>1, RowIndex
  <2>3. CASE j <= Len(p.queue)
    <3>1. j \in 1 .. Len(p.queue) /\ q.queue[j] = p.queue[j]
      BY <1>2, <1>5, <1>7, <2>3, JoinAt
    <3>2. QED
      BY <2>2, <3>1 DEF Stocked, QueueIsNext
  <2>4. CASE j > Len(p.queue)
    <3> DEFINE k == j - Len(p.queue)
    <3>1. k \in 1 .. 8 /\ q.queue[j] = row[k]
      <4>1. j \in 1 .. Len(p.queue) + Len(row)
        BY <1>2
      <4>2. k \in 1 .. Len(row) /\ (p.queue \o row)[j] = row[k]
        BY <1>5, <2>4, <4>1, JoinAt
      <4>3. QED
        BY <1>2, <1>7, <4>2
    <3>2. 8 * p.fetcherX + (k - 1) = 8 * p.fetcherX - Len(p.queue) + (j - 1)
      BY <2>1, RowIndex
    <3>3. ~(ZeroAhead(p) /\ j = 1)
      <4>1. p.queue # <<>> => Len(p.queue) > 0
        BY <1>1
      <4>2. QED
        BY <2>1, <2>4, <4>1 DEF Stocked
    <3> HIDE DEF k
    <3>4. q.queue[j] = PixelAt(Row(p), 8 * p.fetcherX - Len(p.queue) + (j - 1))
      BY <1>3, <3>1, <3>2
    <3>5. QED
      BY <2>2, <3>3, <3>4
  <2>5. QED
    BY <2>1, <2>3, <2>4
<1>11. Stocked(q)
  <2>1. q.queue # <<>>
    <3>1. Len(q.queue) # 0 /\ q.queue \in Seq(S \cup T)
      BY <1>1, <1>6, <1>7
    <3>2. QED
      BY <3>1
  <2>2. QED
    BY <1>7, <1>8, <1>9, <1>10, <2>1 DEF Stocked
<1>12. QED
  BY <1>4, <1>6, <1>7, <1>11 DEF q, Drawn

\* What the fetcher leaves alone.
SameRest(p, q) ==
  /\ DOMAIN q = DOMAIN p
  /\ q.pixelX = p.pixelX /\ q.discard = p.discard /\ q.window = p.window
  /\ q.windowLine = p.windowLine /\ q.windowX = p.windowX /\ q.headStart = p.headStart
  /\ q.comparedX = p.comparedX /\ q.lead = p.lead /\ q.fifoLead = p.fifoLead
  /\ q.discardFetch = p.discardFetch
  /\ q.objectLeadDots = p.objectLeadDots /\ q.penaltyStarted = p.penaltyStarted

SameQueue(p, q) == q.queue = p.queue /\ q.fetcherX = p.fetcherX /\ q.fifoFed = p.fifoFed

\* What leaves the stream alone leaves it in place.
LEMMA SameStock ==
  ASSUME NEW p, NEW q, Stocked(p), SameRest(p, q), SameQueue(p, q)
  PROVE  Stocked(q)
BY DEF Stocked, SameRest, SameQueue, StreamIsPlaced, QueueIsNext, ZeroAhead, ZeroPut, Row, Offset

\* The fetcher's lead over the pixels, for the objects.
LeadKept(p) ==
  /\ p.objectLeadDots \in 0 .. 3 /\ (~p.penaltyStarted => p.objectLeadDots = 0)
  /\ p.fifoLead = (IF p.penaltyStarted THEN 3 ELSE 0)

\* What a dot of the fetcher does for the stream, whichever of its steps it is.
Supplied(p, q) ==
  /\ SameRest(p, q) /\ Stocked(q) /\ RowIsNext(q) /\ ~q.discardFetch
  /\ ~p.fetchReset => ~q.fetchReset
  /\ q.fifoFed \/ SameQueue(p, q)
  /\ p.queue # <<>> => q.queue # <<>>
  /\ p.queue = <<>> /\ FetchStallDots(p) # 0 => q.queue = <<>>
  /\ \A e \in {-1, 0} : Fed(p, e) /\ ~p.fetchReset /\ LeadKept(p) => Fed(q, e + 1)

\* A dot that puts no row in.
LEMMA DotSupplies ==
  ASSUME NEW p, NEW q, Drawn(p), Stocked(p), SameRest(p, q), SameQueue(p, q), ~p.discardFetch,
         ~p.fetchReset => ~q.fetchReset, RowIsNext(q),
         ~p.fetchReset =>
           /\ q.step # "Push" \/ (p.step = "Sleep" /\ ~p.pushed) \/ p.step = "Push"
           /\ q.step = "Sleep" => q.pushed \/ (p.step = "Sleep" /\ ~p.pushed)
           /\ p.step # "Push" /\ (p.step = "Sleep" => p.pushed) => Distance(q) = Distance(p) - 1,
         p.stepDots \in {0, 1}, PixelsWhole(p.queue)
  PROVE  Supplied(p, q)
<1>1. Stocked(q)
  BY SameStock
<1>2. ASSUME NEW e \in {-1, 0}, Fed(p, e), ~p.fetchReset, LeadKept(p) PROVE Fed(q, e + 1)
  <2>1. Gained(q) = Gained(p) /\ Gained(p) \in Int
    BY <1>2 DEF Gained, SameRest, LeadKept
  <2>2. Distance(q) = Distance(p) - 1 /\ Distance(p) \in Int
    BY <1>2 DEF Fed, Distance
  <2>3. Len(q.queue) = Distance(p) + Gained(p) + e
    BY <1>2 DEF Fed, SameQueue
  <2>4. Distance(p) + Gained(p) + e = Distance(q) + Gained(q) + (e + 1)
    BY <2>1, <2>2
  <2>5. q.step # "Push" /\ (q.step = "Sleep" => q.pushed)
    BY <1>2 DEF Fed
  <2>6. QED
    BY <2>3, <2>4, <2>5 DEF Fed
<1>3. QED
  BY <1>1, <1>2 DEF Supplied, SameQueue, SameRest

-----------------------------------------------------------------------------
(* A dot of the fetcher.                                                   *)

\* A row offered to the FIFO goes in, or stays in hand.
LEMMA TrySupplies ==
  ASSUME LineTyped, NEW u, Drawn(u), Stocked(u), PixelsWhole(u.queue), InHand(u), ~u.pushed,
         u.fifoLead \in Nat
  PROVE  /\ SameRest(u, TryPushRow(u)) /\ Stocked(TryPushRow(u))
         /\ TryPushRow(u).fetchReset = u.fetchReset
         /\ TryPushRow(u).step = u.step /\ TryPushRow(u).stepDots = u.stepDots
         /\ TryPushRow(u).tile = u.tile
         /\ Len(u.queue) <= u.fifoLead =>
              /\ TryPushRow(u).pushed /\ TryPushRow(u).fifoFed /\ TryPushRow(u).queue # <<>>
              /\ Len(TryPushRow(u).queue) = Len(u.queue) + 8
         /\ Len(u.queue) > u.fifoLead => TryPushRow(u) = u
         /\ Len(u.queue) \in Nat
<1> DEFINE v == TryPushRow(u)
<1>1. Len(u.queue) \in Nat
  BY DEF PixelsWhole
<1>2. CASE Len(u.queue) <= u.fifoLead
  <2>1. /\ v = [u EXCEPT !.queue = v.queue, !.fifoFed = TRUE, !.fetcherX = u.fetcherX + 1,
                         !.pushed = TRUE]
        /\ Len(v.queue) = Len(u.queue) + 8 /\ Stocked(v)
    BY <1>2, PushSupplies
  <2> DEFINE w == v.queue
  <2>2. Len(<<>>) = 0
    OBVIOUS
  <2>3. v.queue # <<>>
    BY <1>1, <2>1, <2>2
  <2> HIDE DEF v
  <2>4. /\ DOMAIN v = DOMAIN u /\ v.pushed = TRUE /\ v.fifoFed = TRUE
        /\ v.step = u.step /\ v.stepDots = u.stepDots /\ v.tile = u.tile
        /\ v.fetchReset = u.fetchReset /\ SameRest(u, v)
    BY <2>1 DEF Drawn, SameRest
  <2>5. ~(Len(u.queue) > u.fifoLead)
    BY <1>1, <1>2
  <2>6. QED
    BY <1>1, <2>1, <2>3, <2>4, <2>5 DEF v
<1>3. CASE Len(u.queue) > u.fifoLead
  <2>1. v = u
    BY <1>3 DEF TryPushRow
  <2>2. ~(Len(u.queue) <= u.fifoLead)
    BY <1>1, <1>3
  <2>3. QED
    BY <1>1, <1>3, <2>1, <2>2 DEF SameRest
<1>4. QED
  BY <1>1, <1>2, <1>3

\* A dot that offers a row: at the end of a fetch, and until there is room for it.
LEMMA OfferSupplies ==
  ASSUME LineTyped, NEW p, NEW u, NEW s, Drawn(p), Stocked(p), PixelsWhole(p.queue),
         ~p.discardFetch, ~p.fetchReset, p.fifoLead \in Nat,
         DOMAIN u = DOMAIN p, SameRest(p, u), SameQueue(p, u), InHand(u), ~u.pushed, ~u.fetchReset,
         \/ p.step = "DataHigh" /\ p.stepDots = 1
         \/ p.step \in {"Sleep", "Push"} /\ ~p.pushed,
         SameRest(TryPushRow(u), s), SameQueue(TryPushRow(u), s), ~s.fetchReset,
         s.pushed = TryPushRow(u).pushed, s.tile = TryPushRow(u).tile,
         \/ s.step = "Sleep" /\ s.stepDots \in {0, 1}
         \/ s.step = "Tile" /\ s.stepDots = 0
         \/ s.step = "Push" /\ s.stepDots = 0 /\ ~s.pushed,
         p.step = "DataHigh" => s.step = "Sleep" /\ s.stepDots = 0
  PROVE  Supplied(p, s)
<1> DEFINE v == TryPushRow(u)
<1>1. Drawn(u) /\ Stocked(u) /\ u.fifoLead \in Nat /\ PixelsWhole(u.queue)
  BY SameStock DEF Drawn, SameRest, SameQueue
<1>2. /\ SameRest(u, v) /\ Stocked(v) /\ v.tile = u.tile
      /\ Len(u.queue) <= u.fifoLead =>
           /\ v.pushed /\ v.fifoFed /\ v.queue # <<>>
           /\ Len(v.queue) = Len(u.queue) + 8
      /\ Len(u.queue) > u.fifoLead => v = u
      /\ Len(u.queue) \in Nat
  BY <1>1, TrySupplies
<1> HIDE DEF v
<1>3. SameRest(v, s) /\ SameQueue(v, s) /\ s.pushed = v.pushed /\ s.tile = v.tile
  BY DEF v
<1>4. SameRest(p, s) /\ ~s.discardFetch
  BY <1>2, <1>3 DEF SameRest
<1>5. Stocked(s)
  BY <1>2, <1>3, SameStock
<1>6. Len(u.queue) <= u.fifoLead \/ Len(u.queue) > u.fifoLead
  BY <1>1, <1>2
<1>7. RowIsNext(s)
  <2>1. CASE Len(u.queue) <= u.fifoLead
    <3>1. s.pushed
      BY <1>2, <1>3, <2>1
    <3>2. QED
      BY <3>1 DEF RowIsNext
  <2>2. CASE Len(u.queue) > u.fifoLead
    <3>1. s.tile = u.tile /\ s.fetcherX = u.fetcherX /\ s.window = u.window
      BY <1>2, <1>3, <2>2 DEF SameQueue, SameRest
    <3>2. QED
      BY <3>1 DEF RowIsNext, InHand, Row, FirstColumn
  <2>3. QED
    BY <1>6, <2>1, <2>2
<1>8. (s.fifoFed \/ SameQueue(p, s)) /\ (p.queue # <<>> => s.queue # <<>>)
  BY <1>2, <1>3, <1>6 DEF SameQueue
<1>9. FetchStallDots(p) = 0
  BY DEF FetchStallDots
<1>10. ASSUME NEW e \in {-1, 0}, Fed(p, e), LeadKept(p) PROVE Fed(s, e + 1)
  <2>1. p.step = "DataHigh" /\ p.stepDots = 1
    BY <1>10 DEF Fed
  <2>2. /\ Gained(s) = Gained(p) /\ Gained(p) \in Int
        /\ Gained(p) <= p.fifoLead /\ Gained(p) + e <= p.fifoLead
    <3>1. Gained(s) = Gained(p)
      BY <1>4 DEF Gained, SameRest
    <3>2. Gained(p) \in Int /\ Gained(p) <= p.fifoLead
      BY <1>10 DEF Gained, LeadKept
    <3>3. QED
      BY <3>1, <3>2
  <2>3. Len(p.queue) = Gained(p) + e
    <3>1. Distance(p) = 0
      BY <2>1 DEF Distance
    <3>2. QED
      BY <1>10, <2>2, <3>1 DEF Fed
  <2>4. Len(u.queue) = Len(p.queue) /\ u.fifoLead = p.fifoLead
    BY DEF SameQueue, SameRest
  <2>5. Len(u.queue) <= u.fifoLead
    BY <2>2, <2>3, <2>4
  <2>6. s.pushed /\ Len(s.queue) = Gained(p) + e + 8
    BY <1>2, <1>3, <2>3, <2>4, <2>5 DEF SameQueue
  <2>7. s.step = "Sleep" /\ Distance(s) = 7
    BY <2>1 DEF Distance
  <2>8. Len(s.queue) = Distance(s) + Gained(s) + (e + 1)
    BY <2>2, <2>6, <2>7
  <2>9. QED
    BY <2>6, <2>7, <2>8 DEF Fed
<1>11. QED
  BY <1>4, <1>5, <1>7, <1>8, <1>9, <1>10 DEF Supplied

\* A dot of the fetcher, in whichever step it is, outside the line's first fetch.
LEMMA FetchSupplies ==
  ASSUME LineTyped, NEW p, Drawn(p), PipeInv(p), Stocked(p), RowIsNext(p), ~p.discardFetch,
         p.fifoLead \in Nat, p.window => regs.winOn
  PROVE  Supplied(p, StepFetcher(p, regs))
<1> DEFINE s == StepFetcher(p, regs)
<1>1. FetchedWhole(p) /\ PixelsWhole(p.queue) /\ p.stepDots \in {0, 1}
      /\ p.step \in {"Tile", "DataLow", "DataHigh", "Sleep", "Push"}
  BY DEF PipeInv, FetchedWhole
<1>2. Layer(p) = Row(p)
  BY DEF Stocked, Layer, Row
<1>3. CASE p.fetchReset
  <2>1. s = [p EXCEPT !.fetchReset = FALSE]
    BY <1>3 DEF StepFetcher
  <2> HIDE DEF s
  <2>2. /\ SameRest(p, s) /\ SameQueue(p, s) /\ ~s.fetchReset
        /\ s.step = p.step /\ s.stepDots = p.stepDots /\ s.pushed = p.pushed /\ s.tile = p.tile
    BY <2>1 DEF SameRest, SameQueue, Drawn
  <2>3. RowIsNext(s)
    BY <2>2 DEF RowIsNext, SameRest, SameQueue, Row, FirstColumn
  <2>4. Supplied(p, s)
    BY <1>1, <1>3, <2>2, <2>3, DotSupplies
  <2>5. QED
    BY <2>4 DEF s
<1>4. CASE ~p.fetchReset /\ p.step = "Tile" /\ p.stepDots = 0
  <2>1. s = Dots(SampleTileIndex(p, regs), "DataLow")
    BY <1>4 DEF StepFetcher
  <2>2. /\ SameRest(p, s) /\ SameQueue(p, s) /\ ~s.fetchReset
        /\ s.step = "Tile" /\ s.stepDots = 1
        /\ s.tile = [layer |-> Layer(p),
                     col |-> ((IF p.window THEN 0 ELSE regs.scx \div 8) + p.fetcherX) % 32]
    BY <1>4, <2>1 DEF SameRest, SameQueue, Drawn, Dots, SampleTileIndex
  <2> HIDE DEF s
  <2>3. RowIsNext(s)
    BY <1>2, <2>2 DEF RowIsNext, SameRest, SameQueue, Row, FirstColumn
  <2>4. Distance(s) = Distance(p) - 1
    BY <1>4, <2>2 DEF Distance
  <2>5. Supplied(p, s)
    BY <1>1, <1>4, <2>2, <2>3, <2>4, DotSupplies
  <2>6. QED
    BY <2>5 DEF s
<1>5. CASE ~p.fetchReset /\ p.step = "Tile" /\ p.stepDots = 1
  <2>1. s = Dots(p, "DataLow")
    BY <1>5 DEF StepFetcher
  <2>2. /\ SameRest(p, s) /\ SameQueue(p, s) /\ ~s.fetchReset
        /\ s.step = "DataLow" /\ s.stepDots = 0 /\ s.tile = p.tile
    BY <1>5, <2>1 DEF SameRest, SameQueue, Drawn, Dots
  <2> HIDE DEF s
  <2>3. RowIsNext(s)
    BY <1>5, <2>2 DEF RowIsNext, SameRest, SameQueue, Row, FirstColumn
  <2>4. Distance(s) = Distance(p) - 1
    BY <1>5, <2>2 DEF Distance
  <2>5. Supplied(p, s)
    BY <1>1, <1>5, <2>2, <2>3, <2>4, DotSupplies
  <2>6. QED
    BY <2>5 DEF s
<1>6. CASE ~p.fetchReset /\ p.step = "DataLow"
  <2>1. s = Dots(IF p.stepDots = 0 THEN [p EXCEPT !.low = Layer(p)] ELSE p, "DataHigh")
    BY <1>6 DEF StepFetcher
  <2>2. /\ SameRest(p, s) /\ SameQueue(p, s) /\ ~s.fetchReset /\ s.tile = p.tile
        /\ \/ p.stepDots = 0 /\ s.step = "DataLow" /\ s.stepDots = 1
           \/ p.stepDots = 1 /\ s.step = "DataHigh" /\ s.stepDots = 0
    BY <1>1, <1>6, <2>1 DEF SameRest, SameQueue, Drawn, Dots
  <2> HIDE DEF s
  <2>3. RowIsNext(s)
    BY <1>6, <2>2 DEF RowIsNext, SameRest, SameQueue, Row, FirstColumn
  <2>4. Distance(s) = Distance(p) - 1 /\ s.step \in {"DataLow", "DataHigh"}
    BY <1>6, <2>2 DEF Distance
  <2>5. Supplied(p, s)
    BY <1>1, <1>6, <2>2, <2>3, <2>4, DotSupplies
  <2>6. QED
    BY <2>5 DEF s
<1>7. CASE ~p.fetchReset /\ p.step = "DataHigh" /\ p.stepDots = 0
  <2>1. s = Dots([p EXCEPT !.high = Layer(p)], "DataHigh")
    BY <1>7 DEF StepFetcher
  <2>2. /\ SameRest(p, s) /\ SameQueue(p, s) /\ ~s.fetchReset
        /\ s.step = "DataHigh" /\ s.stepDots = 1 /\ s.tile = p.tile
    BY <1>7, <2>1 DEF SameRest, SameQueue, Drawn, Dots
  <2> HIDE DEF s
  <2>3. RowIsNext(s)
    BY <1>7, <2>2 DEF RowIsNext, SameRest, SameQueue, Row, FirstColumn
  <2>4. Distance(s) = Distance(p) - 1
    BY <1>7, <2>2 DEF Distance
  <2>5. Supplied(p, s)
    BY <1>1, <1>7, <2>2, <2>3, <2>4, DotSupplies
  <2>6. QED
    BY <2>5 DEF s
<1>8. CASE ~p.fetchReset /\ p.step = "DataHigh" /\ p.stepDots = 1
  <2> DEFINE q == StopWindowIfDisabled([p EXCEPT !.stepDots = 0], regs)
             u == [q EXCEPT !.pushed = FALSE]
             v == TryPushRow(u)
  <2>1. s = FetchComplete(p, regs)
    BY <1>8 DEF StepFetcher
  <2>2. /\ DOMAIN q = DOMAIN p /\ SameRest(p, q) /\ SameQueue(p, q) /\ ~q.fetchReset
        /\ q.tile = p.tile /\ q.low = p.low /\ q.high = p.high /\ ~q.discardFetch
        /\ q.stepDots = 0
    <3> DEFINE c == [p EXCEPT !.stepDots = 0]
    <3>1. /\ DOMAIN c = DOMAIN p /\ SameRest(p, c) /\ SameQueue(p, c) /\ c.fetchReset = p.fetchReset
          /\ c.stepDots = 0 /\ c.tile = p.tile /\ c.low = p.low /\ c.high = p.high
      BY DEF SameRest, SameQueue, Drawn
    <3> HIDE DEF c
    <3>2. q = [c EXCEPT !.window = @ /\ regs.winOn]
      BY DEF StopWindowIfDisabled, c
    <3>3. (c.window /\ regs.winOn) = c.window
      <4>1. c.window \in BOOLEAN
        BY <3>1 DEF SameRest, Stocked
      <4>2. QED
        BY <1>8, <3>1, <4>1, Zenon DEF SameRest
    <3>4. QED
      BY <1>8, <3>1, <3>2, <3>3 DEF SameRest, SameQueue, Drawn
  <2>3. s = [v EXCEPT !.step = "Sleep"]
    BY <2>1, <2>2 DEF FetchComplete
  <2> HIDE DEF q, s
  <2>4. /\ DOMAIN u = DOMAIN p /\ SameRest(p, u) /\ SameQueue(p, u) /\ ~u.fetchReset /\ ~u.pushed
        /\ u.tile = p.tile /\ u.low = p.low /\ u.high = p.high /\ u.stepDots = 0
    BY <2>2 DEF SameRest, SameQueue, Drawn
  <2> HIDE DEF u
  <2>5. InHand(u)
    BY <1>1, <1>2, <1>8, <2>4 DEF InHand, RowIsNext, FetchedWhole, SameRest, SameQueue, Row,
                                     FirstColumn
  <2>6. Drawn(v) /\ v.stepDots = 0 /\ ~v.fetchReset
    <3>1. Drawn(u) /\ Stocked(u) /\ PixelsWhole(u.queue) /\ u.fifoLead \in Nat
      BY <1>1, <2>4, SameStock DEF Drawn, SameRest, SameQueue
    <3>2. SameRest(u, v) /\ v.stepDots = 0 /\ ~v.fetchReset
      BY <2>4, <2>5, <3>1, TrySupplies
    <3>3. QED
      BY <3>1, <3>2 DEF Drawn, SameRest
  <2> HIDE DEF v
  <2>7. /\ SameRest(v, s) /\ SameQueue(v, s) /\ ~s.fetchReset /\ s.pushed = v.pushed
        /\ s.tile = v.tile /\ s.step = "Sleep" /\ s.stepDots = 0
    BY <2>3, <2>6 DEF SameRest, SameQueue, Drawn
  <2>8. Supplied(p, s)
    BY <1>1, <1>8, <2>4, <2>5, <2>7, OfferSupplies DEF v
  <2>9. QED
    BY <2>8 DEF s
<1>9. CASE ~p.fetchReset /\ p.step \in {"Sleep", "Push"} /\ ~p.pushed
  <2> DEFINE v == TryPushRow(p)
  <2>1. InHand(p) /\ SameRest(p, p) /\ SameQueue(p, p)
    BY <1>1, <1>9 DEF InHand, RowIsNext, FetchedWhole, SameRest, SameQueue, Row,
                                     FirstColumn
  <2>2. /\ SameRest(p, v) /\ v.stepDots = p.stepDots /\ v.step = p.step /\ ~v.fetchReset
    BY <1>1, <1>9, <2>1, TrySupplies
  <2>3. /\ p.step = "Sleep" => s = Dots(v, IF v.pushed THEN "Tile" ELSE "Push")
        /\ p.step = "Push" => s = IF v.pushed THEN [v EXCEPT !.step = "Tile"] ELSE v
    BY <1>9 DEF StepFetcher
  <2> HIDE DEF v, s
  <2>4. /\ SameRest(v, s) /\ SameQueue(v, s) /\ ~s.fetchReset /\ s.pushed = v.pushed
        /\ s.tile = v.tile
        /\ \/ s.step = "Sleep" /\ s.stepDots \in {0, 1}
           \/ s.step = "Tile" /\ s.stepDots = 0
           \/ s.step = "Push" /\ s.stepDots = 0 /\ ~s.pushed
    <3>1. Drawn(v)
      BY <2>2 DEF Drawn, SameRest
    <3>2. CASE p.step = "Sleep"
      <4>1. CASE p.stepDots = 0
        <5>1. s = [v EXCEPT !.stepDots = 1]
          BY <2>2, <2>3, <3>2, <4>1 DEF Dots
        <5>2. QED
          BY <2>2, <3>1, <3>2, <5>1 DEF SameRest, SameQueue, Drawn
      <4>2. CASE p.stepDots = 1
        <5> DEFINE next == IF v.pushed THEN "Tile" ELSE "Push"
        <5>1. s = [v EXCEPT !.stepDots = 0, !.step = next]
          BY <2>2, <2>3, <3>2, <4>2 DEF Dots
        <5>2. next = "Tile" \/ (next = "Push" /\ ~v.pushed)
          OBVIOUS
        <5> HIDE DEF next
        <5>3. QED
          BY <2>2, <3>1, <5>1, <5>2 DEF SameRest, SameQueue, Drawn
      <4>3. QED
        BY <1>1, <4>1, <4>2
    <3>3. CASE p.step = "Push"
      <4>1. p.stepDots = 0
        BY <1>1, <3>3 DEF FetchedWhole
      <4>2. QED
        BY <2>2, <2>3, <3>1, <3>3, <4>1 DEF SameRest, SameQueue, Drawn
    <3>4. QED
      BY <1>9, <3>2, <3>3
  <2>5. Supplied(p, s)
    BY <1>1, <1>9, <2>1, <2>4, OfferSupplies DEF v
  <2>6. QED
    BY <2>5 DEF s
<1>10. CASE ~p.fetchReset /\ p.step = "Sleep" /\ p.pushed
  <2>1. s = Dots(p, "Tile")
    BY <1>10 DEF StepFetcher
  <2>2. /\ SameRest(p, s) /\ SameQueue(p, s) /\ ~s.fetchReset
        /\ s.tile = p.tile /\ s.pushed = p.pushed
        /\ \/ p.stepDots = 0 /\ s.step = "Sleep" /\ s.stepDots = 1
           \/ p.stepDots = 1 /\ s.step = "Tile" /\ s.stepDots = 0
    BY <1>1, <1>10, <2>1 DEF SameRest, SameQueue, Drawn, Dots
  <2> HIDE DEF s
  <2>3. RowIsNext(s)
    BY <1>10, <2>2 DEF RowIsNext, SameRest, SameQueue, Row, FirstColumn
  <2>4. Distance(s) = Distance(p) - 1 /\ s.step # "Push"
    BY <1>10, <2>2 DEF Distance
  <2>5. Supplied(p, s)
    BY <1>1, <1>10, <2>2, <2>3, <2>4, DotSupplies
  <2>6. QED
    BY <2>5 DEF s
<1>11. ~(p.step = "Push" /\ p.pushed)
  BY DEF RowIsNext
<1>12. QED
  BY <1>1, <1>3, <1>4, <1>5, <1>6, <1>7, <1>8, <1>9, <1>10, <1>11

\* The line's first fetch, thrown away, and the second, whose row is the first to go in.
SameBefore(p, q) ==
  /\ DOMAIN q = DOMAIN p
  /\ q.window = p.window /\ q.windowLine = p.windowLine /\ q.queue = p.queue
  /\ q.fifoFed = p.fifoFed /\ q.pixelX = p.pixelX /\ q.fetcherX = p.fetcherX
  /\ q.headStart = p.headStart /\ q.penaltyStarted = p.penaltyStarted /\ q.fifoLead = p.fifoLead
  /\ q.objectLeadDots = p.objectLeadDots /\ q.lead = p.lead /\ q.windowX = p.windowX
  /\ q.comparedX = p.comparedX

\* A dot of the fetcher makes up for the counter's.
LEMMA PrefetchMoves ==
  ASSUME NEW p, NEW q, Prefetching(p, 1), SameBefore(p, q), ~q.fetchReset,
         q.step \in {"Tile", "DataLow", "DataHigh"}, q.stepDots \in {0, 1},
         FetchedDots(q) = FetchedDots(p) + 1, FetchedDots(p) \in Nat,
         q.discard = IF FetchedDots(p) < 1 THEN 0 ELSE Fine, RowIsNext(q)
  PROVE  Prefetching(q, 0)
<1>1. CountedDots(q) = CountedDots(p)
  BY DEF CountedDots, SameBefore
<1>2. FetchedDots(q) + 0 = CountedDots(q)
  BY <1>1 DEF Prefetching
<1>3. q.discard = IF FetchedDots(q) < 2 THEN 0 ELSE Fine
  OBVIOUS
<1>4. QED
  BY <1>2, <1>3 DEF Prefetching, SameBefore, ComparedOnce

\* Before the first row the fetcher and the counter stay abreast.
LEMMA FetchPrefetches ==
  ASSUME LineTyped, NEW p, Drawn(p), Prefetching(p, 1), CountedDots(p) <= 12,
         p.window \in BOOLEAN
  PROVE  /\ Prefetching(StepFetcher(p, regs), 0)
         /\ SameBefore(p, StepFetcher(p, regs))
<1> DEFINE s == StepFetcher(p, regs)
<1>1. /\ ~p.window /\ p.windowLine = 0 /\ p.fetcherX = 0
      /\ p.step \in {"Tile", "DataLow", "DataHigh"} /\ p.stepDots \in {0, 1}
      /\ p.fetchReset => p.step = "Tile" /\ p.stepDots = 0 /\ p.discardFetch
      /\ p.discard = IF FetchedDots(p) < 2 THEN 0 ELSE Fine
      /\ RowIsNext(p) /\ FetchedDots(p) + 1 = CountedDots(p)
      /\ p.lead \in 0 .. 5 /\ p.windowX \in 0 .. 7
  BY DEF Prefetching
<1>2. Layer(p) = 0 /\ Row(p) = 0 /\ FirstColumn(p) = regs.scx \div 8
  BY <1>1 DEF Layer, Row, FirstColumn
<1>3. FetchedDots(p) \in 0 .. 11
  <2>1. FetchedDots(p) \in Nat
    BY <1>1 DEF FetchedDots, Place
  <2>2. CountedDots(p) \in Int
    BY <1>1 DEF CountedDots
  <2>3. QED
    BY <1>1, <2>1, <2>2
<1>4. CASE p.fetchReset
  <2>1. s = [p EXCEPT !.fetchReset = FALSE]
    BY <1>4 DEF StepFetcher
  <2> HIDE DEF s
  <2>2. /\ SameBefore(p, s) /\ ~s.fetchReset /\ s.discardFetch = p.discardFetch
        /\ s.step = "Tile" /\ s.stepDots = 0 /\ s.discard = p.discard
    BY <1>1, <1>4, <2>1 DEF SameBefore, Drawn
  <2>3. FetchedDots(p) = 0 /\ FetchedDots(s) = 1
    BY <1>1, <1>4, <2>2 DEF FetchedDots, Place
  <2>4. s.discard = 0
    BY <1>1, <2>2, <2>3
  <2>5. RowIsNext(s)
    BY <2>2 DEF RowIsNext
  <2>6. Prefetching(s, 0)
    BY <2>2, <2>3, <2>4, <2>5, PrefetchMoves
  <2>7. QED
    BY <2>2, <2>6 DEF s
<1>5. CASE ~p.fetchReset /\ p.step = "Tile" /\ p.stepDots = 0
  <2>1. s = Dots(SampleTileIndex(p, regs), "DataLow")
    BY <1>5 DEF StepFetcher
  <2>2. /\ SameBefore(p, s) /\ ~s.fetchReset /\ s.discardFetch = p.discardFetch
        /\ s.step = "Tile" /\ s.stepDots = 1
        /\ s.discard = IF p.discardFetch THEN regs.scx % 8 ELSE p.discard
        /\ s.tile = [layer |-> Layer(p),
                     col |-> ((IF p.window THEN 0 ELSE regs.scx \div 8) + p.fetcherX) % 32]
    BY <1>5, <2>1 DEF SameBefore, Drawn, Dots, SampleTileIndex
  <2> HIDE DEF s
  <2>3. FetchedDots(p) >= 1 /\ FetchedDots(s) = FetchedDots(p) + 1
        /\ (~p.discardFetch => FetchedDots(p) = 7)
    BY <1>1, <1>5, <2>2 DEF FetchedDots, Place
  <2>4. s.discard = Fine
    BY <1>1, <2>2, <2>3 DEF Fine
  <2>5. RowIsNext(s)
    <3>1. s.tile.layer = Row(s) /\ s.tile.col = (FirstColumn(s) + s.fetcherX) % 32
      BY <1>1, <1>2, <2>2 DEF Row, FirstColumn, SameBefore
    <3>2. QED
      BY <2>2, <3>1 DEF RowIsNext
  <2>6. Prefetching(s, 0)
    BY <1>3, <2>2, <2>3, <2>4, <2>5, PrefetchMoves
  <2>7. QED
    BY <2>2, <2>6 DEF s
<1>6. ASSUME s.step \in {"Tile", "DataLow", "DataHigh"}, s.stepDots \in {0, 1}, SameBefore(p, s),
             ~p.fetchReset, p.step # "Tile" \/ p.stepDots = 1,
             ~s.fetchReset, FetchedDots(s) = FetchedDots(p) + 1, s.discard = p.discard,
             s.tile = p.tile, s.step # "Tile" => s.discardFetch = p.discardFetch,
             s.step = "Tile" => s.stepDots = 0
      PROVE  Prefetching(s, 0)
  <2> HIDE DEF s
  <2>1. FetchedDots(p) >= 2
    BY <1>1, <1>6 DEF FetchedDots, Place
  <2>2. s.discard = Fine
    BY <1>1, <1>3, <1>6, <2>1
  <2>3. RowIsNext(s)
    BY <1>1, <1>6 DEF RowIsNext, SameBefore, Row, FirstColumn
  <2>4. QED
    BY <1>3, <1>6, <2>1, <2>2, <2>3, PrefetchMoves
<1>7. CASE ~p.fetchReset /\ p.step = "Tile" /\ p.stepDots = 1
  <2>1. s = Dots(p, "DataLow")
    BY <1>7 DEF StepFetcher
  <2>2. /\ SameBefore(p, s) /\ ~s.fetchReset /\ s.discardFetch = p.discardFetch
        /\ s.step = "DataLow" /\ s.stepDots = 0 /\ s.discard = p.discard /\ s.tile = p.tile
    BY <1>7, <2>1 DEF SameBefore, Drawn, Dots
  <2>3. FetchedDots(s) = FetchedDots(p) + 1
    BY <1>7, <2>2 DEF FetchedDots, Place
  <2>4. QED
    BY <1>6, <1>7, <2>2, <2>3
<1>8. CASE ~p.fetchReset /\ p.step = "DataLow"
  <2>1. s = Dots(IF p.stepDots = 0 THEN [p EXCEPT !.low = Layer(p)] ELSE p, "DataHigh")
    BY <1>8 DEF StepFetcher
  <2>2. /\ SameBefore(p, s) /\ ~s.fetchReset /\ s.discardFetch = p.discardFetch
        /\ s.discard = p.discard /\ s.tile = p.tile
        /\ \/ p.stepDots = 0 /\ s.step = "DataLow" /\ s.stepDots = 1
           \/ p.stepDots = 1 /\ s.step = "DataHigh" /\ s.stepDots = 0
    BY <1>1, <1>8, <2>1 DEF SameBefore, Drawn, Dots
  <2>3. FetchedDots(s) = FetchedDots(p) + 1
    BY <1>8, <2>2 DEF FetchedDots, Place
  <2>4. QED
    BY <1>6, <1>8, <2>2, <2>3
<1>9. CASE ~p.fetchReset /\ p.step = "DataHigh" /\ p.stepDots = 0
  <2>1. s = Dots([p EXCEPT !.high = Layer(p)], "DataHigh")
    BY <1>9 DEF StepFetcher
  <2>2. /\ SameBefore(p, s) /\ ~s.fetchReset /\ s.discardFetch = p.discardFetch
        /\ s.step = "DataHigh" /\ s.stepDots = 1 /\ s.discard = p.discard /\ s.tile = p.tile
    BY <1>9, <2>1 DEF SameBefore, Drawn, Dots
  <2>3. FetchedDots(s) = FetchedDots(p) + 1
    BY <1>9, <2>2 DEF FetchedDots, Place
  <2>4. QED
    BY <1>6, <1>9, <2>2, <2>3
<1>10. CASE ~p.fetchReset /\ p.step = "DataHigh" /\ p.stepDots = 1
  <2> DEFINE c == [p EXCEPT !.stepDots = 0]
             q == StopWindowIfDisabled(c, regs)
  <2>1. p.discardFetch
    BY <1>3, <1>10 DEF FetchedDots, Place
  <2>2. s = FetchComplete(p, regs)
    BY <1>10 DEF StepFetcher
  <2>3. /\ DOMAIN c = DOMAIN p /\ SameBefore(p, c) /\ c.fetchReset = p.fetchReset
        /\ c.tile = p.tile /\ c.discard = p.discard /\ c.stepDots = 0
        /\ c.discardFetch = p.discardFetch
    BY DEF SameBefore, Drawn
  <2> HIDE DEF c
  <2>4. q = [c EXCEPT !.window = @ /\ regs.winOn]
    BY DEF StopWindowIfDisabled
  <2>5. p.window \in BOOLEAN
    OBVIOUS
  <2>6. (c.window /\ regs.winOn) = p.window
    BY <1>1, <2>3, <2>5 DEF SameBefore
  <2> HIDE DEF q
  <2>7. /\ DOMAIN q = DOMAIN p /\ SameBefore(p, q) /\ q.fetchReset = p.fetchReset
        /\ q.tile = p.tile /\ q.discard = p.discard /\ q.stepDots = 0 /\ q.discardFetch
    BY <2>1, <2>3, <2>4, <2>6 DEF SameBefore, Drawn
  <2>8. s = [q EXCEPT !.discardFetch = FALSE, !.step = "Tile"]
    BY <2>2, <2>7 DEF FetchComplete, q, c
  <2> HIDE DEF s
  <2>9. /\ SameBefore(p, s) /\ ~s.fetchReset /\ ~s.discardFetch
        /\ s.step = "Tile" /\ s.stepDots = 0 /\ s.discard = p.discard /\ s.tile = p.tile
    BY <1>10, <2>7, <2>8 DEF SameBefore, Drawn
  <2>10. FetchedDots(s) = FetchedDots(p) + 1
    BY <1>10, <2>1, <2>9 DEF FetchedDots, Place
  <2>11. Prefetching(s, 0)
    BY <1>6, <1>10, <2>9, <2>10 DEF s
  <2>12. QED
    BY <2>9, <2>11 DEF s
<1>11. QED
  BY <1>1, <1>4, <1>5, <1>7, <1>8, <1>9, <1>10

-----------------------------------------------------------------------------
(* The window's X counter meets WX.                                        *)

\* No pixel is due.
Idle(p) == p.queue = <<>> /\ FetchStallDots(p) # 0

Typed(p) == p.pixelX \in Nat /\ p.discard \in Nat /\ p.fetcherX \in Nat /\ p.window \in BOOLEAN

\* The window's start: its first pixel comes next, at the screen position it belongs to.
LEMMA StartFeeds ==
  ASSUME LineTyped, NEW p, Drawn(p), FeedInv(p), ~p.window, WindowEnabled(regs),
         p.lead = 0, p.windowX = regs.wx
  PROVE  /\ Typed(StartWindow(p)) /\ InWindow(StartWindow(p)) /\ Idle(StartWindow(p))
         /\ DOMAIN StartWindow(p) = DOMAIN p
<1> DEFINE m == StartWindow(p)
           more == IF p.windowX < 7 THEN 7 - p.windowX ELSE 0
<1>1. /\ m.window = TRUE /\ m.queue = <<>> /\ m.step = "Tile" /\ m.stepDots = 0 /\ m.fetcherX = 0
      /\ m.fetchReset /\ ~m.discardFetch /\ m.comparedX = p.windowX
      /\ m.windowLine = p.windowLine + 1 /\ m.discard = p.discard + more
      /\ m.pixelX = p.pixelX /\ DOMAIN m = DOMAIN p
  BY DEF StartWindow, Drawn, kWindowCounterHeadStart
<1> HIDE DEF m
<1>2. /\ regs.wx \in 0 .. 255 /\ Fine \in 0 .. 7 /\ Start = regs.wx - 7
  BY LineFacts
<1>3. /\ p.pixelX \in Nat /\ p.discard \in Nat /\ p.windowLine = 0
      /\ p.pixelX >= Start
      /\ p.pixelX - (p.discard + more) + ((IF Start <= 0 THEN Fine ELSE 0) - Start) = 0
  <2>1. p.pixelX \in Nat /\ p.discard \in Nat
    BY DEF FeedInv
  <2>2. CASE Prefetching(p, 0)
    <3>1. p.pixelX = 0 /\ p.windowX <= 7 /\ p.windowLine = 0 /\ p.windowX \in 0 .. 7
      BY <2>2 DEF Prefetching
    <3>2. p.discard = Fine
      <4>1. CountedDots(p) >= 5
        BY <3>1 DEF CountedDots
      <4>2. FetchedDots(p) >= 2
        <5>1. FetchedDots(p) + 0 = CountedDots(p)
          BY <2>2 DEF Prefetching
        <5>2. FetchedDots(p) \in Int
          BY <2>2 DEF Prefetching, FetchedDots, Place
        <5>3. QED
          BY <4>1, <5>1, <5>2
      <4>3. ~(FetchedDots(p) < 2)
        <5>1. FetchedDots(p) \in Int
          BY <2>2 DEF Prefetching, FetchedDots, Place
        <5>2. QED
          BY <4>2, <5>1
      <4>4. QED
        BY <2>2, <4>3 DEF Prefetching
    <3>3. Start <= 0 /\ more = 7 - regs.wx
      BY <1>2, <3>1
    <3>4. QED
      BY <1>2, <2>1, <3>1, <3>2, <3>3
  <2>3. CASE Streaming(p, 0)
    <3>1. /\ p.windowX = p.pixelX + 7 /\ p.windowLine = 0 /\ (p.pixelX > 0 => p.discard = 0)
          /\ ComparedOnce(p) /\ (regs.reached /\ regs.wx <= 7 => p.comparedX = regs.wx)
      BY <2>3 DEF Streaming
    <3>2. p.comparedX # regs.wx
      BY <1>2, <3>1 DEF ComparedOnce
    <3>3. regs.wx > 7
      BY <1>2, <3>1, <3>2 DEF WindowEnabled
    <3>4. p.pixelX = Start /\ p.pixelX > 0 /\ more = 0 /\ p.discard = 0
      BY <1>2, <2>1, <3>1, <3>3
    <3>5. QED
      BY <1>2, <2>1, <3>1, <3>4
  <2>4. QED
    BY <2>2, <2>3 DEF FeedInv, InWindow
<1>4. Typed(m)
  <2>1. more \in Nat
    <3>1. p.windowX \in Nat
      BY <1>2
    <3>2. QED
      BY <3>1
  <2> HIDE DEF more
  <2>2. m.discard \in Nat
    BY <1>1, <1>3, <2>1
  <2>3. m.pixelX \in Nat
    BY <1>1, <1>3
  <2>4. m.fetcherX \in Nat
    BY <1>1
  <2>5. m.window \in BOOLEAN
    BY <1>1, Zenon
  <2>6. QED
    BY <2>2, <2>3, <2>4, <2>5 DEF Typed
<1>5. StreamIsPlaced(m)
  <2>1. Offset(m) = (IF Start <= 0 THEN Fine ELSE 0) - Start
    BY <1>1 DEF Offset
  <2>2. Len(m.queue) = 0
    BY <1>1
  <2>3. Placed(0, p.pixelX, p.discard + more, (IF Start <= 0 THEN Fine ELSE 0) - Start, 0)
    <3> DEFINE off == (IF Start <= 0 THEN Fine ELSE 0) - Start
    <3>1. off \in Int /\ more \in Int
      BY <1>2
    <3>2. p.pixelX - (p.discard + more) + off = 0
      BY <1>3
    <3> HIDE DEF off, more
    <3>3. 8 * 0 = p.pixelX - (p.discard + more) + off + 0
      BY <1>3, <3>1, <3>2
    <3>4. QED
      BY <3>3 DEF Placed, off
  <2>4. QED
    BY <1>1, <2>1, <2>2, <2>3 DEF StreamIsPlaced
<1>6. QueueIsNext(m)
  <2>1. Len(m.queue) = 0
    BY <1>1
  <2>2. QED
    BY <2>1 DEF QueueIsNext
<1>7. RowIsNext(m)
  BY <1>1 DEF RowIsNext
<1>8. InWindow(m)
  <2>1. m.fifoLead = p.fifoLead
    BY DEF m, StartWindow, Drawn
  <2>2. p.fifoLead \in Nat
    BY <1>2 DEF FeedInv, Prefetching, Streaming, InWindow
  <2>3. QED
    BY <1>1, <1>3, <1>5, <1>6, <1>7, <2>1, <2>2 DEF InWindow
<1>9. Idle(m)
  BY <1>1 DEF Idle, FetchStallDots
<1>10. QED
  BY <1>1, <1>4, <1>8, <1>9 DEF m

\* A tile's edge in the FIFO is one on the screen.
LEMMA ZeroDue ==
  ASSUME NEW x \in Nat, NEW scx \in 0 .. 255, NEW f \in Nat, NEW l \in Nat,
         8 * f = (x - 0) + (scx % 8) + l
  PROVE  l % 8 = 0 <=> (x + scx) % 8 = 0
OBVIOUS

\* A window that is disabled where it would have started: at a tile's edge, a pixel of colour 0
\* goes in first; elsewhere nothing does.
LEMMA ZeroFeeds ==
  ASSUME LineTyped, NEW p, Drawn(p), FeedInv(p), PipeInv(p), ~WindowConditions(p, regs),
         p.lead = 0, regs.reached, p.windowX = regs.wx, p.windowX > p.comparedX
  PROVE  /\ DOMAIN PushColourZeroPixel(p) = DOMAIN p /\ Typed(PushColourZeroPixel(p))
         /\ \/ Prefetching(PushColourZeroPixel(p), 0) /\ PushColourZeroPixel(p).queue = p.queue
            \/ Streaming(PushColourZeroPixel(p), 0) /\ ~Idle(p)
         /\ NotMet(PushColourZeroPixel(p))
         /\ FetchStallDots(PushColourZeroPixel(p)) = FetchStallDots(p)
<1> DEFINE m == PushColourZeroPixel(p)
           c == [p EXCEPT !.comparedX = p.windowX]
<1>1. /\ regs.wx \in 0 .. 255 /\ regs.scx \in 0 .. 255 /\ Fine \in 0 .. 7 /\ Start = regs.wx - 7
      /\ Fine = regs.scx % 8
  BY LineFacts DEF Fine
<1>2. ~InWindow(p)
  BY <1>1 DEF InWindow
<1>3. ~p.window /\ ~WindowEnabled(regs) /\ ~regs.winOn
  <2>1. ~p.window
    BY <1>2 DEF FeedInv, Prefetching, Streaming
  <2>2. QED
    BY <2>1 DEF WindowConditions, WindowEnabled
<1>4. /\ DOMAIN m = DOMAIN p /\ m.comparedX = regs.wx
      /\ m.queue = IF p.fifoFed /\ Len(p.queue) % 8 = 0 THEN <<ZeroPixel>> \o p.queue ELSE p.queue
      /\ m.step = p.step /\ m.stepDots = p.stepDots /\ m.pushed = p.pushed
      /\ m.fetchReset = p.fetchReset /\ m.discardFetch = p.discardFetch
      /\ m.fetcherX = p.fetcherX /\ m.fifoFed = p.fifoFed /\ m.fifoLead = p.fifoLead
      /\ m.tile = p.tile /\ m.pixelX = p.pixelX /\ m.discard = p.discard
      /\ m.window = p.window /\ m.windowX = p.windowX /\ m.headStart = p.headStart
      /\ m.lead = p.lead /\ m.windowLine = p.windowLine
      /\ m.objectLeadDots = p.objectLeadDots /\ m.penaltyStarted = p.penaltyStarted
  BY DEF PushColourZeroPixel, Drawn
<1> HIDE DEF m
<1>5. Typed(m)
  BY <1>4 DEF Typed, FeedInv
<1>6. NotMet(m)
  BY <1>4 DEF NotMet
<1>7. FetchStallDots(m) = FetchStallDots(p)
  BY <1>4 DEF FetchStallDots
<1>8. RowIsNext(p) => RowIsNext(m)
  BY <1>4 DEF RowIsNext, Row, FirstColumn
<1>9. CASE Prefetching(p, 0)
  <2>1. ~p.fifoFed
    BY <1>9 DEF Prefetching
  <2>2. m.queue = p.queue
    BY <1>4, <2>1
  <2>3. p.windowX <= 7
    BY <1>9 DEF Prefetching
  <2>4. FetchedDots(m) = FetchedDots(p) /\ CountedDots(m) = CountedDots(p)
    BY <1>4 DEF FetchedDots, CountedDots
  <2>5. ComparedOnce(m)
    BY <1>3, <1>4 DEF ComparedOnce
  <2>6. Prefetching(m, 0)
    BY <1>4, <1>8, <1>9, <2>2, <2>3, <2>4, <2>5 DEF Prefetching
  <2>7. QED
    BY <1>4, <1>5, <1>6, <1>7, <2>2, <2>6 DEF m
<1>10. CASE Streaming(p, 0)
  <2>1. /\ p.pixelX \in Nat /\ p.discard \in Nat /\ p.fetcherX \in Nat
        /\ p.windowX = p.pixelX + 7 /\ ComparedOnce(p)
        /\ (p.pixelX > 0 => p.discard = 0) /\ (p.pixelX > 0 \/ p.queue # <<>> => p.fifoFed)
        /\ (regs.reached /\ regs.wx <= 7 => p.comparedX = regs.wx)
        /\ StreamIsPlaced(p) /\ QueueIsNext(p) /\ RowIsNext(p) /\ (~ZeroPut(p) => Fed(p, 0))
        /\ ~p.discardFetch /\ ~p.fetchReset /\ LeadKept(p)
    BY <1>10 DEF Streaming, FeedInv, LeadKept
  <2>2. p.comparedX = -1 /\ p.comparedX # regs.wx
    BY <1>1, <2>1 DEF ComparedOnce
  <2>3. ~ZeroPut(p) /\ ~ZeroAhead(p)
    BY <2>2 DEF ZeroPut, ZeroAhead
  <2>4. p.pixelX = Start /\ p.pixelX > 0 /\ p.discard = 0 /\ p.fifoFed
    BY <1>1, <2>1, <2>2
  <2>5. PICK S : p.queue \in Seq(S)
    BY DEF PipeInv, FetchedWhole, PixelsWhole
  <2>6. Len(p.queue) \in Nat
    BY <2>5
  <2>7. Offset(p) = Fine
    BY <1>1, <1>3, <2>3 DEF Offset
  <2>8. LeavesZero <=> Len(p.queue) % 8 = 0
    <3>1. 8 * p.fetcherX = (p.pixelX - 0) + (regs.scx % 8) + Len(p.queue)
      BY <1>1, <2>1, <2>4, <2>7 DEF StreamIsPlaced, Placed
    <3>2. Len(p.queue) % 8 = 0 <=> (p.pixelX + regs.scx) % 8 = 0
      BY <1>1, <2>1, <2>6, <3>1, ZeroDue, Zenon
    <3>3. QED
      BY <1>3, <2>4, <3>2 DEF LeavesZero
  <2>9. ~Idle(p)
    <3> SUFFICES ASSUME p.queue = <<>> PROVE FetchStallDots(p) = 0
      BY DEF Idle
    <3>1. 0 = Distance(p) + Gained(p) + 0 /\ p.step # "Push"
      <4>1. Fed(p, 0)
        BY <2>1, <2>3
      <4>2. Len(p.queue) = 0
        OBVIOUS
      <4>3. QED
        BY <4>1, <4>2 DEF Fed
    <3>2. Gained(p) \in Nat
      BY <2>1 DEF Gained, LeadKept
    <3>3. p.stepDots \in {0, 1} /\ p.step \in {"Tile", "DataLow", "DataHigh", "Sleep", "Push"}
      BY DEF PipeInv, FetchedWhole
    <3>4. Distance(p) \in Nat
      BY <3>3 DEF Distance
    <3>5. Distance(p) = 0
      BY <3>1, <3>2, <3>4
    <3>6. p.step = "DataHigh" /\ p.stepDots = 1
      BY <3>3, <3>5 DEF Distance
    <3>7. QED
      BY <2>1, <3>6 DEF FetchStallDots
  <2>10. Streaming(m, 0)
    <3>1. CASE LeavesZero
      <4>1. m.queue = <<ZeroPixel>> \o p.queue
        BY <1>4, <2>4, <2>8, <3>1
      <4> DEFINE T == S \cup {ZeroPixel}
      <4>2. <<ZeroPixel>> \in Seq(T) /\ p.queue \in Seq(T) /\ Len(<<ZeroPixel>>) = 1
            /\ <<ZeroPixel>>[1] = ZeroPixel
        BY <2>5
      <4> HIDE DEF T
      <4>3. Len(m.queue) = 1 + Len(p.queue) /\ m.queue \in Seq(T)
        BY <4>1, <4>2, JoinIn
      <4>4. ZeroPut(m) /\ ZeroAhead(m)
        BY <1>4, <2>4, <3>1 DEF ZeroPut, ZeroAhead
      <4>5. StreamIsPlaced(m)
        <5>1. Offset(m) = Offset(p) - 1
          BY <1>1, <1>3, <1>4, <2>7, <4>4 DEF Offset
        <5>2. Placed(p.fetcherX, p.pixelX, p.discard, Offset(p), Len(p.queue))
          BY <2>1 DEF StreamIsPlaced
        <5>3. /\ p.fetcherX \in Int /\ p.pixelX \in Int /\ p.discard \in Int /\ Offset(p) \in Int
              /\ Len(p.queue) \in Int
          BY <1>1, <2>1, <2>6, <2>7
        <5>4. Placed(p.fetcherX, p.pixelX, p.discard, Offset(p) - 1, Len(p.queue) + 1)
          BY <5>2, <5>3, PlacedMoves, Zenon
        <5>5. Len(m.queue) = Len(p.queue) + 1
          BY <2>6, <4>3
        <5>6. QED
          BY <1>4, <5>1, <5>4, <5>5 DEF StreamIsPlaced
      <4>6. QueueIsNext(m)
        <5> SUFFICES ASSUME NEW j \in 1 .. 1 + Len(p.queue)
                     PROVE  m.queue[j] = IF j = 1 THEN ZeroPixel
                              ELSE PixelAt(Row(m), 8 * m.fetcherX - Len(m.queue) + (j - 1))
          BY <4>3, <4>4 DEF QueueIsNext
        <5>1. CASE j = 1
          BY <2>6, <4>1, <4>2, <5>1, JoinAt
        <5>2. CASE j # 1
          <6>1. j - 1 \in 1 .. Len(p.queue) /\ m.queue[j] = p.queue[j - 1]
            BY <2>6, <4>1, <4>2, <5>2, JoinAt
          <6>2. p.queue[j - 1] = PixelAt(Row(p), 8 * p.fetcherX - Len(p.queue) + ((j - 1) - 1))
            BY <2>1, <2>3, <6>1 DEF QueueIsNext
          <6>3. 8 * p.fetcherX - Len(p.queue) + ((j - 1) - 1)
                  = 8 * m.fetcherX - Len(m.queue) + (j - 1)
            <7> DEFINE l == Len(p.queue)
                       f == 8 * p.fetcherX
            <7>1. l \in Nat /\ f \in Nat /\ j \in Nat
              BY <2>1, <2>6
            <7>2. m.fetcherX = p.fetcherX /\ Len(m.queue) = 1 + l
              BY <1>4, <4>3
            <7> HIDE DEF l, f
            <7>3. f - l + ((j - 1) - 1) = f - (1 + l) + (j - 1)
              BY <7>1
            <7>4. QED
              BY <7>2, <7>3 DEF l, f
          <6>4. Row(m) = Row(p)
            BY <1>4 DEF Row
          <6>5. QED
            BY <5>2, <6>1, <6>2, <6>3, <6>4
        <5>3. QED
          BY <5>1, <5>2
      <4>7. m.queue # <<>>
        <5>1. Len(m.queue) # 0
          BY <2>6, <4>3
        <5>2. QED
          BY <5>1
      <4>8. ComparedOnce(m)
        BY <1>3, <1>4 DEF ComparedOnce
      <4>9. m.pixelX >= Start
        BY <1>4, <2>1, <2>4
      <4>10. /\ ~m.window /\ m.windowLine = 0 /\ m.headStart /\ m.lead = 0
             /\ m.windowX = m.pixelX + 7 /\ ~m.discardFetch /\ ~m.fetchReset
             /\ m.discard = 0 /\ m.fifoFed /\ m.comparedX = regs.wx
             /\ m.objectLeadDots \in 0 .. 3 /\ (~m.penaltyStarted => m.objectLeadDots = 0)
             /\ m.fifoLead = (IF m.penaltyStarted THEN 3 ELSE 0)
        BY <1>4, <1>10, <2>4 DEF Streaming
      <4> HIDE DEF T
      <4>11. QED
        BY <1>8, <2>1, <4>4, <4>5, <4>6, <4>7, <4>8, <4>9, <4>10 DEF Streaming
    <3>2. CASE ~LeavesZero
      <4>1. m.queue = p.queue
        BY <1>4, <2>8, <3>2
      <4>2. ~ZeroPut(m) /\ ~ZeroAhead(m)
        BY <3>2 DEF ZeroPut, ZeroAhead
      <4>3. Offset(m) = Offset(p) /\ Row(m) = Row(p)
        BY <1>4, <2>3, <4>2 DEF Offset, Row
      <4>4. StreamIsPlaced(m)
        BY <1>4, <2>1, <4>1, <4>3 DEF StreamIsPlaced
      <4>5. QueueIsNext(m)
        BY <1>4, <2>1, <2>3, <4>1, <4>2, <4>3 DEF QueueIsNext
      <4>6. Fed(m, 0)
        BY <1>4, <2>1, <2>3, <4>1 DEF Fed, Distance, Gained
      <4>7. ComparedOnce(m)
        BY <1>3, <1>4 DEF ComparedOnce
      <4>8. QED
        BY <1>4, <1>8, <1>10, <2>1, <4>1, <4>2, <4>4, <4>5, <4>6, <4>7 DEF Streaming
    <3>3. QED
      BY <3>1, <3>2
  <2>11. QED
    BY <1>4, <1>5, <1>6, <1>7, <2>9, <2>10 DEF m
<1>11. QED
  BY <1>2, <1>9, <1>10 DEF FeedInv

\* The comparison with WX.
Compared(p, m) ==
  /\ DOMAIN m = DOMAIN p /\ Typed(m)
  /\ \/ Prefetching(m, 0) /\ NotMet(m) /\ (Idle(m) => Idle(p))
     \/ Streaming(m, 0) /\ NotMet(m)
     \/ InWindow(m)
  /\ Idle(p) => Idle(m)

\* The comparison with WX leaves the stream in place, whatever comes of it.
LEMMA CompareFeeds ==
  ASSUME LineTyped, NEW p, Drawn(p), FeedInv(p), PipeInv(p), p.wxPipe[1] = regs.wx
  PROVE  Compared(p, CompareWindow(p, regs))
<1> DEFINE match == p.lead = 0 /\ regs.reached /\ p.windowX = p.wxPipe[1]
<1>1. Typed(p)
  BY DEF FeedInv, Typed
<1>2. CASE match /\ WindowConditions(p, regs)
  <2>1. CompareWindow(p, regs) = StartWindow(p)
    BY <1>2 DEF CompareWindow
  <2>2. ~p.window /\ WindowEnabled(regs) /\ p.lead = 0 /\ p.windowX = regs.wx
    BY <1>2 DEF WindowConditions
  <2>3. QED
    BY <2>1, <2>2, StartFeeds DEF Compared
<1>3. CASE match /\ ~WindowConditions(p, regs) /\ p.windowX > p.comparedX
  <2> DEFINE m == PushColourZeroPixel(p)
  <2>1. CompareWindow(p, regs) = m
    BY <1>3 DEF CompareWindow
  <2>2. /\ DOMAIN m = DOMAIN p /\ Typed(m)
        /\ \/ Prefetching(m, 0) /\ m.queue = p.queue
           \/ Streaming(m, 0) /\ ~Idle(p)
        /\ NotMet(m) /\ FetchStallDots(m) = FetchStallDots(p)
    BY <1>3, ZeroFeeds
  <2> HIDE DEF m
  <2>3. QED
    BY <2>1, <2>2 DEF Compared, Idle
<1>4. CASE ~match \/ (~WindowConditions(p, regs) /\ ~(p.windowX > p.comparedX))
  <2>1. CompareWindow(p, regs) = p
    BY <1>4 DEF CompareWindow
  <2>2. InWindow(p) \/ NotMet(p)
    <3> SUFFICES ASSUME ~InWindow(p), regs.reached, p.comparedX # regs.wx,
                        p.lead \in Nat, ~(p.lead > 0)
                 PROVE  p.windowX < regs.wx
      BY DEF NotMet, FeedInv, Prefetching, Streaming
    <3>1. /\ p.windowX \in Int /\ ComparedOnce(p) /\ NotYet(p)
      BY DEF FeedInv, Prefetching, Streaming
    <3>2. p.comparedX = -1 /\ p.windowX <= regs.wx /\ p.windowX >= 0
      BY <3>1 DEF ComparedOnce, NotYet, FeedInv, Prefetching, Streaming
    <3>3. p.windowX # regs.wx
      <4>1. p.windowX > p.comparedX
        BY <3>1, <3>2
      <4>2. p.lead = 0
        OBVIOUS
      <4>3. QED
        BY <1>4, <4>1, <4>2
    <3>4. QED
      BY <3>1, <3>2, <3>3, LineFacts
  <2>3. QED
    BY <1>1, <2>1, <2>2 DEF Compared, FeedInv
<1>5. QED
  BY <1>2, <1>3, <1>4

\* What neither the fetcher nor the counters' owners touch.
SameStream(p, q) ==
  /\ SameRest(p, q) /\ SameQueue(p, q)
  /\ q.step = p.step /\ q.stepDots = p.stepDots /\ q.pushed = p.pushed
  /\ q.fetchReset = p.fetchReset /\ q.tile = p.tile

\* What leaves the stream alone keeps each phase of the line.
LEMMA SameFeeds ==
  ASSUME NEW p, NEW q, SameStream(p, q)
  PROVE  /\ Typed(p) => Typed(q)
         /\ \A d \in {0, 1} : Prefetching(p, d) => Prefetching(q, d)
         /\ Streaming(p, 0) => Streaming(q, 0)
         /\ InWindow(p) => InWindow(q)
         /\ NotMet(p) => NotMet(q)
         /\ NotYet(p) => NotYet(q)
         /\ Idle(q) <=> Idle(p)
         /\ CountedDots(q) = CountedDots(p)
<1>1. /\ FetchedDots(q) = FetchedDots(p) /\ CountedDots(q) = CountedDots(p)
      /\ FetchStallDots(q) = FetchStallDots(p) /\ Distance(q) = Distance(p) /\ Gained(q) = Gained(p)
      /\ Offset(q) = Offset(p) /\ Row(q) = Row(p) /\ FirstColumn(q) = FirstColumn(p)
      /\ (ZeroPut(q) <=> ZeroPut(p)) /\ (ZeroAhead(q) <=> ZeroAhead(p))
      /\ (ComparedOnce(p) => ComparedOnce(q))
  BY DEF SameStream, SameRest, SameQueue, FetchedDots, CountedDots, FetchStallDots, Distance,
         Gained, Offset, Row, FirstColumn, ZeroPut, ZeroAhead, ComparedOnce
<1>2. (StreamIsPlaced(p) => StreamIsPlaced(q)) /\ (QueueIsNext(p) => QueueIsNext(q))
      /\ (RowIsNext(p) => RowIsNext(q)) /\ (Fed(p, 0) => Fed(q, 0))
  BY <1>1 DEF SameStream, SameRest, SameQueue, StreamIsPlaced, QueueIsNext, RowIsNext, Fed
<1>3. ASSUME NEW d \in {0, 1}, Prefetching(p, d) PROVE Prefetching(q, d)
  BY <1>1, <1>2, <1>3 DEF Prefetching, SameStream, SameRest, SameQueue
<1>4. Streaming(p, 0) => Streaming(q, 0)
  BY <1>1, <1>2 DEF Streaming, SameStream, SameRest, SameQueue
<1>5. InWindow(p) => InWindow(q)
  BY <1>1, <1>2 DEF InWindow, SameStream, SameRest, SameQueue
<1>6. /\ Typed(p) => Typed(q)
      /\ NotMet(p) => NotMet(q)
      /\ NotYet(p) => NotYet(q)
      /\ Idle(q) <=> Idle(p)
  BY <1>1 DEF SameStream, SameRest, SameQueue, Typed, NotMet, NotYet, Idle
<1>7. QED
  BY <1>1, <1>3, <1>4, <1>5, <1>6

\* The counter's free increments: the fetcher's first row is complete with the last of them.
Advanced(a) ==
  /\ Typed(a)
  /\ \/ Prefetching(a, 1) /\ NotYet(a) /\ CountedDots(a) <= 12 /\ Idle(a)
     \/ Streaming(a, 0) /\ NotMet(a)
     \/ InWindow(a)

\* The counter passes its head start in the dot in which the first row goes in.
LEMMA AdvanceFeeds ==
  ASSUME LineTyped, NEW p, NEW m, Drawn(m), Compared(p, m)
  PROVE  /\ Advanced(AdvanceWindowCounter(m)) /\ DOMAIN AdvanceWindowCounter(m) = DOMAIN m
         /\ Idle(AdvanceWindowCounter(m)) <=> Idle(m)
<1> DEFINE a == AdvanceWindowCounter(m)
<1>1. /\ DOMAIN a = DOMAIN m /\ SameQueue(m, a)
      /\ a.pixelX = m.pixelX /\ a.discard = m.discard /\ a.window = m.window
      /\ a.windowLine = m.windowLine /\ a.comparedX = m.comparedX /\ a.fifoLead = m.fifoLead
      /\ a.discardFetch = m.discardFetch
      /\ a.objectLeadDots = m.objectLeadDots /\ a.penaltyStarted = m.penaltyStarted
      /\ a.step = m.step /\ a.stepDots = m.stepDots /\ a.pushed = m.pushed
      /\ a.fetchReset = m.fetchReset /\ a.tile = m.tile
      /\ \/ m.lead > 0 /\ a.lead = m.lead - 1 /\ a.windowX = m.windowX /\ a.headStart = m.headStart
         \/ m.lead = 0 /\ m.headStart /\ a = m
         \/ /\ m.lead = 0 /\ ~m.headStart /\ m.windowX = 7
            /\ a.headStart = TRUE /\ a.windowX = 7 /\ a.lead = 0
         \/ /\ ~(m.lead = 0 /\ m.headStart) /\ ~(m.lead = 0 /\ ~m.headStart /\ m.windowX = 7)
            /\ ~(m.lead > 0)
            /\ a.windowX = m.windowX + 1 /\ a.lead = m.lead /\ a.headStart = m.headStart
  <2>1. \/ m.lead > 0 /\ a = [m EXCEPT !.lead = m.lead - 1]
        \/ m.lead = 0 /\ m.headStart /\ a = m
        \/ m.lead = 0 /\ ~m.headStart /\ m.windowX = 7 /\ a = [m EXCEPT !.headStart = TRUE]
        \/ /\ ~(m.lead = 0 /\ m.headStart) /\ ~(m.lead = 0 /\ ~m.headStart /\ m.windowX = 7)
           /\ ~(m.lead > 0)
           /\ a = [m EXCEPT !.windowX = m.windowX + 1]
    BY DEF AdvanceWindowCounter, kWindowCounterHeadStart
  <2> HIDE DEF a
  <2>2. QED
    BY <2>1 DEF Drawn, SameQueue
<1> HIDE DEF a
<1>2. /\ FetchedDots(a) = FetchedDots(m) /\ FetchStallDots(a) = FetchStallDots(m)
      /\ Distance(a) = Distance(m) /\ Gained(a) = Gained(m)
      /\ Offset(a) = Offset(m) /\ Row(a) = Row(m) /\ FirstColumn(a) = FirstColumn(m)
      /\ (ZeroPut(a) <=> ZeroPut(m)) /\ (ZeroAhead(a) <=> ZeroAhead(m))
      /\ (ComparedOnce(m) => ComparedOnce(a))
  BY <1>1 DEF SameQueue, FetchedDots, FetchStallDots, Distance, Gained, Offset, Row, FirstColumn,
              ZeroPut, ZeroAhead, ComparedOnce
<1>3. /\ (StreamIsPlaced(m) => StreamIsPlaced(a)) /\ (QueueIsNext(m) => QueueIsNext(a))
      /\ (RowIsNext(m) => RowIsNext(a))
  BY <1>1, <1>2 DEF SameQueue, StreamIsPlaced, QueueIsNext, RowIsNext
<1>4. Typed(a) /\ (Idle(a) <=> Idle(m))
  BY <1>1, <1>2 DEF Compared, Typed, SameQueue, Idle
<1>5. CASE InWindow(m)
  <2>1. InWindow(a)
    BY <1>1, <1>3, <1>5 DEF InWindow
  <2>2. QED
    BY <1>1, <1>4, <2>1 DEF Advanced, a
<1>6. CASE Streaming(m, 0) /\ NotMet(m)
  <2>1. a = m
    BY <1>1, <1>6 DEF Streaming
  <2>2. QED
    BY <1>1, <1>4, <1>6, <2>1 DEF Advanced, a
<1>7. CASE Prefetching(m, 0) /\ NotMet(m) /\ (Idle(m) => Idle(p))
  <2>1. /\ m.lead \in 0 .. 5 /\ m.windowX \in 0 .. 7 /\ (m.lead > 0 => m.windowX = 0)
        /\ ~m.headStart
        /\ FetchedDots(m) + 0 = CountedDots(m) /\ m.queue = <<>>
        /\ m.step \in {"Tile", "DataLow", "DataHigh"} /\ m.stepDots \in {0, 1}
        /\ (m.fetchReset => m.step = "Tile" /\ m.stepDots = 0 /\ m.discardFetch)
        /\ ~m.window /\ m.windowLine = 0 /\ ~m.fifoFed /\ m.pixelX = 0 /\ m.fetcherX = 0
        /\ ~m.penaltyStarted /\ m.fifoLead = 0 /\ m.objectLeadDots = 0
        /\ m.discard = (IF FetchedDots(m) < 2 THEN 0 ELSE Fine)
        /\ ComparedOnce(m) /\ (m.comparedX = regs.wx => regs.wx <= 7) /\ RowIsNext(m)
    BY <1>7 DEF Prefetching
  <2>2. regs.wx \in 0 .. 255 /\ Start = regs.wx - 7 /\ Fine \in 0 .. 7
    BY LineFacts
  <2>3. FetchedDots(m) \in Nat
    BY <2>1 DEF FetchedDots, Place
  <2>4. CASE CountedDots(m) = 12
    <3>1. m.lead = 0 /\ m.windowX = 7
      BY <2>1, <2>4 DEF CountedDots
    <3>2. FetchedDots(m) = 12
      BY <2>1, <2>3, <2>4
    <3>3. m.step = "DataHigh" /\ m.stepDots = 1 /\ ~m.discardFetch /\ ~m.fetchReset
      BY <2>1, <3>2 DEF FetchedDots, Place
    <3>4. a.headStart = TRUE /\ a.windowX = 7 /\ a.lead = 0
      BY <1>1, <2>1, <3>1
    <3>5. m.comparedX # regs.wx /\ regs.reached => regs.wx > 7
      BY <1>7, <2>2, <3>1 DEF NotMet
    <3>6. ~ZeroPut(a) /\ ~ZeroAhead(a)
      <4>1. LeavesZero => Start > 0
        BY DEF LeavesZero
      <4>2. ~ZeroPut(a)
        <5> SUFFICES ASSUME LeavesZero, a.comparedX = regs.wx PROVE FALSE
          BY DEF ZeroPut
        <5>1. regs.wx <= 7
          BY <1>1, <2>1
        <5>2. QED
          BY <2>2, <4>1, <5>1
      <4>3. QED
        BY <4>2 DEF ZeroAhead
    <3>7. Fed(a, 0)
      <4>1. Distance(a) = 0 /\ Gained(a) = 0 /\ Len(a.queue) = 0
        BY <1>1, <2>1, <3>3 DEF Distance, Gained, SameQueue
      <4>2. QED
        BY <1>1, <3>3, <4>1 DEF Fed
    <3>8. m.discard = Fine /\ a.queue = <<>> /\ a.fetcherX = 0
      BY <1>1, <2>1, <3>2 DEF SameQueue
    <3>9. StreamIsPlaced(a)
      <4>1. Offset(a) = Fine
        BY <1>1, <2>1, <2>2, <3>6 DEF Offset
      <4>2. Len(a.queue) = 0 /\ a.pixelX = 0 /\ a.discard = Fine
        BY <1>1, <2>1, <3>8
      <4>3. Placed(0, 0, Fine, Fine, 0)
        BY <2>2 DEF Placed
      <4>4. QED
        BY <3>8, <4>1, <4>2, <4>3 DEF StreamIsPlaced
    <3>10. QueueIsNext(a)
      <4>1. Len(a.queue) = 0
        BY <3>8
      <4>2. QED
        BY <4>1 DEF QueueIsNext
    <3>11. RowIsNext(a) /\ ComparedOnce(a)
      BY <1>2, <1>3, <2>1
    <3>12. a.pixelX = 0 /\ ~(a.pixelX > 0) /\ a.discard <= Fine
      BY <1>1, <2>1, <2>2, <3>8
    <3>13. Streaming(a, 0)
      <4>1. regs.reached /\ regs.wx <= 7 => a.comparedX = regs.wx
        BY <1>1, <2>2, <3>5
      <4>2. /\ ~a.window /\ a.windowLine = 0 /\ a.headStart /\ a.lead = 0
            /\ a.windowX = a.pixelX + 7 /\ ~a.discardFetch /\ ~a.fetchReset
            /\ ~(a.pixelX > 0 \/ a.queue # <<>>)
            /\ a.objectLeadDots \in 0 .. 3 /\ (~a.penaltyStarted => a.objectLeadDots = 0)
            /\ a.fifoLead = (IF a.penaltyStarted THEN 3 ELSE 0)
        BY <1>1, <2>1, <3>3, <3>4, <3>8, <3>12
      <4>3. QED
        BY <3>6, <3>7, <3>9, <3>10, <3>11, <3>12, <4>1, <4>2 DEF Streaming
    <3>14. NotMet(a)
      BY <1>1, <1>7, <3>1, <3>4 DEF NotMet
    <3>15. QED
      BY <1>1, <1>4, <3>13, <3>14 DEF Advanced, a
  <2>5. CASE CountedDots(m) # 12
    <3>1. CountedDots(m) \in 0 .. 11 /\ FetchedDots(m) \in 0 .. 11 /\ ~(m.lead = 0 /\ m.windowX = 7)
      <4>1. CountedDots(m) \in 0 .. 12
        BY <2>1 DEF CountedDots
      <4>2. ~(m.lead = 0 /\ m.windowX = 7)
        BY <2>5 DEF CountedDots
      <4>3. QED
        BY <2>1, <2>3, <2>5, <4>1, <4>2
    <3>2. ~(m.step = "DataHigh" /\ m.stepDots = 1 /\ ~m.discardFetch)
      BY <2>1, <3>1 DEF FetchedDots, Place
    <3>3. Idle(m)
      <4>1. FetchStallDots(m) # 0
        BY <2>1, <3>2 DEF FetchStallDots
      <4>2. QED
        BY <2>1, <4>1 DEF Idle
    <3>4. /\ a.lead \in 0 .. 5 /\ a.windowX \in 0 .. 7 /\ (a.lead > 0 => a.windowX = 0)
          /\ ~a.headStart /\ CountedDots(a) = CountedDots(m) + 1
      BY <1>1, <2>1, <3>1 DEF CountedDots
    <3>5. FetchedDots(a) + 1 = CountedDots(a)
      BY <1>2, <2>1, <2>3, <3>1, <3>4
    <3>6. Prefetching(a, 1)
      BY <1>1, <1>2, <1>3, <2>1, <3>4, <3>5 DEF Prefetching, SameQueue
    <3>7. NotYet(a)
      <4> SUFFICES ASSUME regs.reached, a.comparedX # regs.wx PROVE a.windowX <= regs.wx
        BY DEF NotYet
      <4>1. m.windowX < regs.wx \/ m.lead > 0
        BY <1>1, <1>7 DEF NotMet
      <4>2. m.lead > 0 => a.windowX = 0
        BY <1>1, <2>1
      <4>3. ~(m.lead > 0) => a.windowX = m.windowX + 1
        BY <1>1, <2>1, <3>1
      <4>4. m.windowX \in 0 .. 7 /\ regs.wx \in 0 .. 255
        BY <2>1, <2>2
      <4>5. QED
        BY <4>1, <4>2, <4>3, <4>4
    <3>8. CountedDots(a) <= 12
      BY <3>1, <3>4
    <3>9. QED
      BY <1>1, <1>4, <3>3, <3>6, <3>7, <3>8 DEF Advanced, a
  <2>6. QED
    BY <2>4, <2>5
<1>8. QED
  BY <1>5, <1>6, <1>7 DEF Compared

-----------------------------------------------------------------------------
(* A pixel leaves the FIFO.                                                *)

\* A pixel leaves the FIFO: the others stay the layer's next ones.
LEMMA TailIsNext ==
  ASSUME NEW p, NEW q, Typed(p), PixelsWhole(p.queue), QueueIsNext(p), p.queue # <<>>,
         q.queue = Tail(p.queue), q.fetcherX = p.fetcherX, q.window = p.window, ~ZeroAhead(q)
  PROVE  /\ QueueIsNext(q) /\ Len(p.queue) \in Nat /\ Len(p.queue) > 0
         /\ Len(q.queue) = Len(p.queue) - 1
         /\ p.queue[1] = Head(p.queue)
<1>1. PICK S : p.queue \in Seq(S)
  BY DEF PixelsWhole
<1>2. /\ Len(p.queue) \in Nat \ {0} /\ Len(Tail(p.queue)) = Len(p.queue) - 1
      /\ Head(p.queue) = p.queue[1]
      /\ \A j \in 1 .. Len(p.queue) - 1 : Tail(p.queue)[j] = p.queue[j + 1]
  BY <1>1, TailAt
<1>3. QueueIsNext(q)
  <2> SUFFICES ASSUME NEW j \in 1 .. Len(p.queue) - 1
               PROVE  q.queue[j] = PixelAt(Row(q), 8 * q.fetcherX - Len(q.queue) + (j - 1))
    BY <1>2 DEF QueueIsNext
  <2>1. j + 1 \in 1 .. Len(p.queue) /\ j + 1 # 1 /\ q.queue[j] = p.queue[j + 1]
    BY <1>2
  <2>2. p.queue[j + 1] = PixelAt(Row(p), 8 * p.fetcherX - Len(p.queue) + ((j + 1) - 1))
    BY <2>1 DEF QueueIsNext
  <2>3. 8 * p.fetcherX - Len(p.queue) + ((j + 1) - 1) = 8 * q.fetcherX - Len(q.queue) + (j - 1)
    <3> DEFINE l == Len(p.queue)
               f == 8 * p.fetcherX
    <3>1. l \in Nat /\ f \in Nat /\ j \in Nat
      BY <1>2 DEF Typed
    <3>2. q.fetcherX = p.fetcherX /\ Len(q.queue) = l - 1
      BY <1>2
    <3> HIDE DEF l, f
    <3>3. f - l + ((j + 1) - 1) = f - (l - 1) + (j - 1)
      BY <3>1
    <3>4. QED
      BY <3>2, <3>3 DEF l, f
  <2>4. Row(q) = Row(p)
    BY DEF Row
  <2>5. QED
    BY <2>1, <2>2, <2>3, <2>4
<1>4. QED
  BY <1>2, <1>3

\* The pixel in front is the one that belongs at the screen position it is shown at.
LEMMA FrontIsReference ==
  ASSUME LineTyped, NEW p, Typed(p), PixelsWhole(p.queue), p.queue # <<>>, ~(p.discard > 0),
         (Streaming(p, 1) /\ NotMet(p)) \/ InWindow(p)
  PROVE  Head(p.queue) = ReferencePixel(p.pixelX)
<1>1. PICK S : p.queue \in Seq(S)
  BY DEF PixelsWhole
<1>2. Len(p.queue) \in Nat /\ Len(p.queue) > 0 /\ Head(p.queue) = p.queue[1]
  BY <1>1
<1>3. StreamIsPlaced(p) /\ QueueIsNext(p)
  BY DEF Streaming, InWindow
<1>4. Offset(p) \in Int /\ p.pixelX \in Nat /\ p.fetcherX \in Nat
      /\ regs.wx \in Nat /\ Fine \in Int /\ Start \in Int /\ Start = regs.wx - 7
  <2>1. Offset(p) \in Int
    BY OffsetTyped
  <2>2. p.pixelX \in Nat /\ p.fetcherX \in Nat
    BY DEF Typed
  <2>3. regs.wx \in 0 .. 255 /\ Fine \in 0 .. 7 /\ Start \in Int /\ Start = regs.wx - 7
    BY LineFacts
  <2>4. regs.wx \in Nat
    BY WxTyped
  <2>5. Fine \in Int
    BY <2>3
  <2>6. QED
    BY <2>1, <2>2, <2>3, <2>4, <2>5, Zenon
<1>5. 8 * p.fetcherX - Len(p.queue) + (1 - 1) = p.pixelX + Offset(p)
  <2> DEFINE l == Len(p.queue)
             f == 8 * p.fetcherX
  <2>0. p.discard = 0
    BY DEF Typed
  <2>1. f = p.pixelX - 0 + Offset(p) + l /\ l \in Int /\ f \in Int
    BY <1>2, <1>3, <1>4, <2>0 DEF StreamIsPlaced, Placed
  <2> HIDE DEF l, f
  <2>2. f - l + (1 - 1) = p.pixelX + Offset(p)
    BY <1>4, <2>1
  <2>3. QED
    BY <2>2 DEF l, f
<1>6. p.queue[1] = IF ZeroAhead(p) THEN ZeroPixel ELSE PixelAt(Row(p), p.pixelX + Offset(p))
  BY <1>2, <1>3, <1>5 DEF QueueIsNext
<1>7. CASE InWindow(p)
  <2>1. WindowEnabled(regs) /\ p.pixelX >= Start /\ Row(p) = 1 /\ p.window
    BY <1>7 DEF InWindow, Row
  <2>2. ~ZeroAhead(p)
    BY <2>1 DEF ZeroAhead, ZeroPut, LeavesZero, WindowEnabled
  <2>3. Offset(p) = (IF Start <= 0 THEN Fine ELSE 0) - Start
    BY <2>1 DEF Offset
  <2>4. p.pixelX + Offset(p) = p.pixelX - Start + (IF Start <= 0 THEN Fine ELSE 0)
    BY <1>4, <2>3
  <2>5. ReferencePixel(p.pixelX) = PixelAt(1, p.pixelX + Offset(p))
    BY <2>1, <2>4 DEF ReferencePixel, WindowPixel, Fine
  <2>6. QED
    BY <1>2, <1>6, <2>1, <2>2, <2>5
<1>8. CASE Streaming(p, 1) /\ NotMet(p)
  <2>1. /\ ~p.window /\ p.lead = 0 /\ p.windowX = p.pixelX + 7 /\ ComparedOnce(p)
        /\ (ZeroPut(p) => p.pixelX >= Start)
    BY <1>8 DEF Streaming
  <2>2. Row(p) = 0 /\ Offset(p) = Fine - (IF ZeroPut(p) THEN 1 ELSE 0)
    BY <2>1 DEF Row, Offset
  <2>3. regs.reached /\ p.comparedX # regs.wx => p.pixelX < Start
    <3> SUFFICES ASSUME regs.reached, p.comparedX # regs.wx PROVE p.pixelX < Start
      OBVIOUS
    <3>1. p.pixelX + 7 < regs.wx
      BY <1>8, <2>1 DEF NotMet
    <3>2. QED
      BY <1>4, <3>1
  <2>4. ~(WindowEnabled(regs) /\ p.pixelX >= Start)
    <3> SUFFICES ASSUME WindowEnabled(regs), p.pixelX >= Start PROVE FALSE
      OBVIOUS
    <3>1. p.comparedX # regs.wx /\ regs.reached
      BY <1>4, <2>1 DEF ComparedOnce, WindowEnabled
    <3>2. QED
      BY <1>4, <2>3, <3>1
  <2>5. ReferencePixel(p.pixelX) = BackgroundPixel(p.pixelX)
    BY <2>4 DEF ReferencePixel
  <2>6. LeavesZero /\ p.pixelX >= Start => ZeroPut(p)
    <3> SUFFICES ASSUME LeavesZero, p.pixelX >= Start PROVE p.comparedX = regs.wx
      BY DEF ZeroPut
    <3>1. regs.reached
      BY DEF LeavesZero
    <3>2. QED
      BY <1>4, <2>3, <3>1
  <2>7. ZeroPut(p) => LeavesZero
    BY DEF ZeroPut
  <2>8. CASE ZeroPut(p) /\ p.pixelX = Start
    <3>1. BackgroundPixel(p.pixelX) = ZeroPixel
      BY <2>7, <2>8 DEF BackgroundPixel
    <3>2. ZeroAhead(p)
      BY <2>8 DEF ZeroAhead
    <3>3. QED
      BY <1>2, <1>6, <2>5, <3>1, <3>2
  <2>9. CASE ZeroPut(p) /\ p.pixelX # Start
    <3>1. p.pixelX > Start /\ LeavesZero /\ ~ZeroAhead(p)
      BY <1>4, <2>1, <2>7, <2>9 DEF ZeroAhead
    <3>2. BackgroundPixel(p.pixelX) = PixelAt(0, p.pixelX - 1 + Fine)
      BY <1>4, <3>1 DEF BackgroundPixel, Fine
    <3>3. p.pixelX - 1 + Fine = p.pixelX + Offset(p)
      BY <1>4, <2>2, <2>9
    <3>4. QED
      BY <1>2, <1>6, <2>2, <2>5, <3>1, <3>2, <3>3
  <2>10. CASE ~ZeroPut(p)
    <3>1. ~(LeavesZero /\ p.pixelX >= Start) /\ ~ZeroAhead(p)
      BY <2>6, <2>10 DEF ZeroAhead
    <3>2. ~(LeavesZero /\ p.pixelX > Start) /\ ~(LeavesZero /\ p.pixelX = Start)
      BY <1>4, <3>1
    <3>3. BackgroundPixel(p.pixelX) = PixelAt(0, p.pixelX - 0 + Fine)
      BY <3>2 DEF BackgroundPixel, Fine
    <3>4. p.pixelX - 0 + Fine = p.pixelX + Offset(p)
      BY <1>4, <2>2, <2>10
    <3>5. QED
      BY <1>2, <1>6, <2>2, <2>5, <3>1, <3>3, <3>4
  <2>11. QED
    BY <2>8, <2>9, <2>10
<1>9. QED
  BY <1>7, <1>8

\* A pixel leaves the FIFO: it is thrown away, or shown where it belongs.
Shown(p, e, objSelect) ==
  /\ e.out.x = p.pixelX /\ e.out.pixel = ReferencePixel(p.pixelX)
  /\ e.out.object = IF objSelect THEN p.slots[0] ELSE NoObject
  /\ p.queue # <<>> /\ e.pixelX = p.pixelX + 1

\* A pixel that leaves is the reference's, and the stream moves on by one.
LEMMA EmitFeeds ==
  ASSUME LineTyped, NEW p, NEW objSelect, Drawn(p), Typed(p), FetchedWhole(p),
         (Streaming(p, 1) /\ NotMet(p)) \/ InWindow(p)
  PROVE  LET e == EmitPixel(p, objSelect)
         IN /\ DOMAIN e = DOMAIN p /\ Typed(e)
            /\ (Streaming(e, 0) /\ NotYet(e)) \/ InWindow(e)
            /\ \/ e.out = p.out
               \/ Shown(p, e, objSelect)
<1> DEFINE e == EmitPixel(p, objSelect)
<1>1. /\ regs.wx \in 0 .. 255 /\ Start = regs.wx - 7 /\ Start \in Int
      /\ p.pixelX \in Nat /\ p.discard \in Nat /\ p.fetcherX \in Nat
      /\ Offset(p) \in Int
  <2>1. p.pixelX \in Nat /\ p.discard \in Nat /\ p.fetcherX \in Nat
    BY DEF Typed
  <2>2. QED
    BY <2>1, LineFacts, OffsetTyped
<1> PixelsWhole(p.queue) /\ p.stepDots \in {0, 1}
  BY DEF FetchedWhole
<1>2. CASE p.queue = <<>>
  <2>1. e = p
    BY <1>2 DEF EmitPixel
  <2>2. CASE InWindow(p)
    BY <2>1, <2>2
  <2>3. CASE Streaming(p, 1) /\ NotMet(p)
    <3>1. ZeroPut(p)
      <4> SUFFICES ASSUME Fed(p, 1) PROVE FALSE
        BY <2>3 DEF Streaming
      <4>1. Len(p.queue) = 0
        BY <1>2
      <4>2. Gained(p) \in Nat
        BY <2>3 DEF Streaming, Gained
      <4>3. p.stepDots \in {0, 1} /\ Distance(p) \in Nat
        BY DEF FetchedWhole, Distance
      <4>4. 0 = Distance(p) + Gained(p) + 1
        BY <4>1 DEF Fed
      <4>5. QED
        BY <4>2, <4>3, <4>4
    <3>2. Streaming(p, 0)
      BY <2>3, <3>1 DEF Streaming
    <3>3. NotYet(p)
      BY <3>1 DEF ZeroPut, NotYet
    <3>4. QED
      BY <2>1, <3>2, <3>3
  <2>4. QED
    BY <2>2, <2>3
<1>3. CASE p.queue # <<>>
  <2> DEFINE q == [p EXCEPT !.streamStarted = TRUE, !.queue = Tail(@)]
  <2>1. CASE p.discard > 0
    <3>1. e = [q EXCEPT !.discard = @ - 1]
      BY <1>3, <2>1 DEF EmitPixel
    <3> HIDE DEF e
    <3>2. /\ DOMAIN e = DOMAIN p /\ e.queue = Tail(p.queue) /\ e.discard = p.discard - 1
          /\ e.fetcherX = p.fetcherX /\ e.pixelX = p.pixelX /\ e.window = p.window
          /\ e.windowLine = p.windowLine /\ e.headStart = p.headStart /\ e.lead = p.lead
          /\ e.windowX = p.windowX /\ e.discardFetch = p.discardFetch /\ e.fetchReset = p.fetchReset
          /\ e.fifoFed = p.fifoFed /\ e.objectLeadDots = p.objectLeadDots
          /\ e.penaltyStarted = p.penaltyStarted /\ e.fifoLead = p.fifoLead
          /\ e.comparedX = p.comparedX /\ e.step = p.step /\ e.stepDots = p.stepDots
          /\ e.pushed = p.pushed /\ e.tile = p.tile /\ e.out = p.out
      BY <3>1 DEF Drawn
    <3>3. Typed(e)
      BY <1>1, <2>1, <3>2 DEF Typed
    <3>4. ~ZeroPut(p) /\ ~ZeroPut(e) /\ ~ZeroAhead(e)
      <4>1. ~ZeroPut(p)
        <5>1. CASE InWindow(p)
          BY <5>1 DEF InWindow, ZeroPut, LeavesZero, WindowEnabled
        <5>2. CASE Streaming(p, 1)
          <6>1. p.pixelX = 0 /\ (ZeroPut(p) => p.pixelX >= Start)
            BY <1>1, <2>1, <5>2 DEF Streaming
          <6>2. ZeroPut(p) => Start > 0
            BY DEF ZeroPut, LeavesZero
          <6>3. QED
            BY <1>1, <6>1, <6>2
        <5>3. QED
          BY <5>1, <5>2
      <4>2. QED
        BY <3>2, <4>1 DEF ZeroPut, ZeroAhead
    <3>5. /\ QueueIsNext(e) /\ Len(p.queue) \in Nat /\ Len(p.queue) > 0
          /\ Len(e.queue) = Len(p.queue) - 1
      BY <1>3, <3>2, <3>4, TailIsNext DEF Streaming, InWindow
    <3>6. StreamIsPlaced(e)
      <4>1. Placed(p.fetcherX, p.pixelX, p.discard, Offset(p), Len(p.queue))
        BY DEF Streaming, InWindow, StreamIsPlaced
      <4>2. p.fetcherX \in Int /\ p.pixelX \in Int /\ p.discard \in Int /\ Len(p.queue) \in Int
        BY <1>1, <3>5
      <4>3. Placed(p.fetcherX, p.pixelX, p.discard - 1, Offset(p), Len(p.queue) - 1)
        BY <1>1, <4>1, <4>2, PlacedMoves, Zenon
      <4>4. Offset(e) = Offset(p)
        BY <3>2, <3>4 DEF Offset
      <4>5. QED
        BY <3>2, <3>5, <4>3, <4>4 DEF StreamIsPlaced
    <3>7. RowIsNext(e)
      BY <3>2 DEF RowIsNext, Row, FirstColumn, Streaming, InWindow
    <3>8. CASE InWindow(p)
      <4>1. InWindow(e)
        BY <3>2, <3>5, <3>6, <3>7, <3>8 DEF InWindow
      <4>2. QED
        BY <3>2, <3>3, <4>1 DEF e
    <3>9. CASE Streaming(p, 1) /\ NotMet(p)
      <4>1. Fed(p, 1)
        BY <3>4, <3>9 DEF Streaming
      <4>2. Fed(e, 0)
        <5>1. Distance(e) = Distance(p) /\ Gained(e) = Gained(p)
          BY <3>2 DEF Distance, Gained
        <5>2. Distance(p) \in Int /\ Gained(p) \in Int
          BY <3>9 DEF FetchedWhole, Distance, Gained, Streaming
        <5>3. Len(p.queue) = Distance(p) + Gained(p) + 1
          BY <4>1 DEF Fed
        <5>4. Len(e.queue) = Distance(e) + Gained(e) + 0
          BY <3>5, <5>1, <5>2, <5>3
        <5>5. QED
          BY <3>2, <4>1, <5>4 DEF Fed
      <4>3. NotYet(e)
        <5> SUFFICES ASSUME regs.reached, e.comparedX # regs.wx PROVE e.windowX <= regs.wx
          BY DEF NotYet
        <5>1. p.windowX = p.pixelX + 7 /\ p.lead = 0
          BY <3>9 DEF Streaming
        <5>2. p.windowX < regs.wx
          BY <3>2, <3>9, <5>1 DEF NotMet
        <5>3. QED
          BY <1>1, <3>2, <5>1, <5>2
      <4>4. p.pixelX = 0 /\ ~(e.pixelX > 0) /\ e.fifoFed
        BY <1>1, <1>3, <2>1, <3>2, <3>9 DEF Streaming
      <4>5. ComparedOnce(e)
        BY <3>2, <3>9 DEF ComparedOnce, Streaming
      <4>6. Streaming(e, 0)
        BY <3>2, <3>4, <3>6, <3>5, <3>7, <3>9, <4>2, <4>4, <4>5 DEF Streaming
      <4>7. QED
        BY <3>2, <3>3, <4>3, <4>6 DEF e
    <3>10. QED
      BY <3>8, <3>9
  <2>2. CASE ~(p.discard > 0)
    <3>0. p.discard = 0
      BY <1>1, <2>2
    <3>1. e = [q EXCEPT !.pixelX = @ + 1, !.windowX = @ + 1,
                        !.slots = [k \in 0..7 |-> IF k < 7 THEN p.slots[k + 1] ELSE NoObject],
                        !.out = [x |-> p.pixelX, pixel |-> Head(p.queue),
                                 object |-> IF objSelect THEN p.slots[0] ELSE NoObject]]
      BY <1>3, <2>2 DEF EmitPixel
    <3> HIDE DEF e
    <3>2. /\ DOMAIN e = DOMAIN p /\ e.queue = Tail(p.queue) /\ e.discard = p.discard
          /\ e.fetcherX = p.fetcherX /\ e.pixelX = p.pixelX + 1 /\ e.window = p.window
          /\ e.windowLine = p.windowLine /\ e.headStart = p.headStart /\ e.lead = p.lead
          /\ e.windowX = p.windowX + 1 /\ e.discardFetch = p.discardFetch
          /\ e.fetchReset = p.fetchReset
          /\ e.fifoFed = p.fifoFed /\ e.objectLeadDots = p.objectLeadDots
          /\ e.penaltyStarted = p.penaltyStarted /\ e.fifoLead = p.fifoLead
          /\ e.comparedX = p.comparedX /\ e.step = p.step /\ e.stepDots = p.stepDots
          /\ e.pushed = p.pushed /\ e.tile = p.tile
          /\ e.out = [x |-> p.pixelX, pixel |-> Head(p.queue),
                      object |-> IF objSelect THEN p.slots[0] ELSE NoObject]
      BY <3>1 DEF Drawn
    <3>3. Typed(e)
      BY <1>1, <3>2 DEF Typed
    <3>4. (ZeroPut(e) <=> ZeroPut(p)) /\ ~ZeroAhead(e)
      <4>1. ZeroPut(e) <=> ZeroPut(p)
        BY <3>2 DEF ZeroPut
      <4>2. ZeroPut(p) => p.pixelX >= Start
        BY DEF Streaming, InWindow
      <4>3. ZeroPut(p) => e.pixelX # Start
        BY <1>1, <3>2, <4>2
      <4>4. QED
        BY <4>1, <4>3 DEF ZeroAhead
    <3>5. /\ QueueIsNext(e) /\ Len(p.queue) \in Nat /\ Len(p.queue) > 0
          /\ Len(e.queue) = Len(p.queue) - 1
      BY <1>3, <3>2, <3>4, TailIsNext DEF Streaming, InWindow
    <3>6. StreamIsPlaced(e)
      <4>1. Placed(p.fetcherX, p.pixelX, p.discard, Offset(p), Len(p.queue))
        BY DEF Streaming, InWindow, StreamIsPlaced
      <4>2. p.fetcherX \in Int /\ p.pixelX \in Int /\ p.discard \in Int /\ Len(p.queue) \in Int
        BY <1>1, <3>5
      <4>3. Placed(p.fetcherX, p.pixelX + 1, p.discard, Offset(p), Len(p.queue) - 1)
        BY <1>1, <4>1, <4>2, PlacedMoves, Zenon
      <4>4. Offset(e) = Offset(p)
        BY <3>2, <3>4 DEF Offset
      <4>5. QED
        BY <3>2, <3>5, <4>3, <4>4 DEF StreamIsPlaced
    <3>7. RowIsNext(e)
      BY <3>2 DEF RowIsNext, Row, FirstColumn, Streaming, InWindow
    <3>8. Shown(p, e, objSelect)
      <4>1. Head(p.queue) = ReferencePixel(p.pixelX)
        BY <1>3, <2>2, FrontIsReference
      <4>2. /\ e.out.x = p.pixelX /\ e.out.pixel = Head(p.queue)
            /\ e.out.object = IF objSelect THEN p.slots[0] ELSE NoObject
        BY <3>2
      <4>3. QED
        BY <1>3, <3>2, <4>1, <4>2 DEF Shown
    <3>9. CASE InWindow(p)
      <4>1. p.pixelX >= Start /\ e.pixelX >= Start
        BY <1>1, <3>2, <3>9 DEF InWindow
      <4>2. InWindow(e)
        BY <3>2, <3>5, <3>6, <3>7, <3>9, <4>1 DEF InWindow
      <4>3. QED
        BY <3>2, <3>3, <3>8, <4>2 DEF e
    <3>10. CASE Streaming(p, 1) /\ NotMet(p)
      <4>1. ~ZeroPut(p) => Fed(p, 1)
        BY <3>10 DEF Streaming
      <4>2. ~ZeroPut(e) => Fed(e, 0)
        <5> SUFFICES ASSUME ~ZeroPut(p) PROVE Fed(e, 0)
          BY <3>4
        <5>1. Distance(e) = Distance(p) /\ Gained(e) = Gained(p)
          BY <3>2 DEF Distance, Gained
        <5>2. Distance(p) \in Int /\ Gained(p) \in Int
          BY <3>10 DEF FetchedWhole, Distance, Gained, Streaming
        <5>3. Len(p.queue) = Distance(p) + Gained(p) + 1
          BY <4>1 DEF Fed
        <5>4. Len(e.queue) = Distance(e) + Gained(e) + 0
          BY <3>5, <5>1, <5>2, <5>3
        <5>5. QED
          BY <3>2, <4>1, <5>4 DEF Fed
      <4>3. NotYet(e)
        <5> SUFFICES ASSUME regs.reached, e.comparedX # regs.wx PROVE e.windowX <= regs.wx
          BY DEF NotYet
        <5>1. p.windowX = p.pixelX + 7 /\ p.lead = 0
          BY <3>10 DEF Streaming
        <5>2. p.windowX < regs.wx
          BY <3>2, <3>10, <5>1 DEF NotMet
        <5>3. QED
          BY <1>1, <3>2, <5>1, <5>2
      <4>4. e.windowX = e.pixelX + 7 /\ e.fifoFed
        BY <1>1, <1>3, <3>2, <3>10 DEF Streaming
      <4>5. ZeroPut(e) => e.pixelX >= Start
        BY <1>1, <3>2, <3>4, <3>10 DEF Streaming
      <4>6. ComparedOnce(e)
        BY <3>2, <3>10 DEF ComparedOnce, Streaming
      <4>7. Streaming(e, 0)
        BY <3>0, <3>2, <3>4, <3>6, <3>5, <3>7, <3>10, <4>2, <4>4, <4>5, <4>6 DEF Streaming
      <4>8. QED
        BY <3>2, <3>3, <3>8, <4>3, <4>7 DEF e
    <3>11. QED
      BY <3>9, <3>10
  <2>3. QED
    BY <2>1, <2>2
<1>4. QED
  BY <1>2, <1>3

-----------------------------------------------------------------------------
(* What the operations on the stream leave alone, and the three things a   *)
(* dot may go on to do.                                                    *)

\* What the stream's operations leave alone: the objects, what was shown, the delayed registers.
SameObjects(p, q) ==
  /\ DOMAIN q = DOMAIN p
  /\ q.drawn = p.drawn /\ q.objectDots = p.objectDots /\ q.objectIndex = p.objectIndex
  /\ q.objectFetching = p.objectFetching /\ q.objectEarlyDots = p.objectEarlyDots
  /\ q.slots = p.slots /\ q.pixelX = p.pixelX /\ q.penaltyStarted = p.penaltyStarted

SameView(p, q) ==
  /\ q.out = p.out /\ q.streamStarted = p.streamStarted
  /\ q.objSelect = p.objSelect /\ q.wxPipe = p.wxPipe

Spared(p, q) == SameObjects(p, q) /\ SameView(p, q)

LEMMA SparedTrans ==
  ASSUME NEW p, NEW q, NEW s, Spared(p, q), Spared(q, s) PROVE Spared(p, s)
BY DEF Spared, SameObjects, SameView

\* The window's counter.
LEMMA CompareSpares ==
  ASSUME NEW p, NEW r, Drawn(p) PROVE Spared(p, CompareWindow(p, r))
<1>1. Spared(p, p)
  BY DEF Spared, SameObjects, SameView
<1>2. Spared(p, StartWindow(p))
  BY DEF StartWindow, Spared, SameObjects, SameView, Drawn
<1>3. Spared(p, PushColourZeroPixel(p))
  BY DEF PushColourZeroPixel, Spared, SameObjects, SameView, Drawn
<1>4. QED
  BY <1>1, <1>2, <1>3 DEF CompareWindow

LEMMA AdvanceSpares ==
  ASSUME NEW p, Drawn(p) PROVE Spared(p, AdvanceWindowCounter(p))
BY DEF AdvanceWindowCounter, Spared, SameObjects, SameView, Drawn

\* The fetcher, step by step.
LEMMA TrySpares ==
  ASSUME NEW p, Drawn(p) PROVE Spared(p, TryPushRow(p))
<1> DEFINE row == [k \in 1..8 |-> [layers |-> {p.tile.layer, p.low, p.high},
                                   col |-> p.tile.col, pos |-> k - 1]]
<1>1. TryPushRow(p) \in
        {p, [p EXCEPT !.queue = @ \o row, !.fifoFed = TRUE, !.fetcherX = @ + 1, !.pushed = TRUE]}
  BY DEF TryPushRow
<1> HIDE DEF row
<1>2. QED
  BY <1>1 DEF Spared, SameObjects, SameView, Drawn

LEMMA DotsSpare ==
  ASSUME NEW p, NEW next, Drawn(p) PROVE Spared(p, Dots(p, next))
BY DEF Dots, Spared, SameObjects, SameView, Drawn

LEMMA CompleteSpares ==
  ASSUME NEW p, NEW r, Drawn(p) PROVE Spared(p, FetchComplete(p, r))
<1> DEFINE q == StopWindowIfDisabled([p EXCEPT !.stepDots = 0], r)
           u == [q EXCEPT !.pushed = FALSE]
           v == TryPushRow(u)
           f == [q EXCEPT !.discardFetch = FALSE, !.step = "Tile"]
           w == [v EXCEPT !.step = "Sleep"]
<1>1. Spared(p, q) /\ Drawn(q)
  BY DEF StopWindowIfDisabled, Spared, SameObjects, SameView, Drawn
<1>2. FetchComplete(p, r) \in {f, w}
  BY DEF FetchComplete
<1> HIDE DEF q
<1>3. Spared(q, f) /\ Spared(q, u) /\ Drawn(u)
  BY <1>1 DEF Spared, SameObjects, SameView, Drawn
<1> HIDE DEF u, f
<1>4. Spared(u, v) /\ Drawn(v)
  BY <1>3, TrySpares DEF Drawn, Spared, SameObjects
<1> HIDE DEF v
<1>5. Spared(v, w)
  BY <1>4 DEF Spared, SameObjects, SameView, Drawn
<1> HIDE DEF w
<1>6. QED
  BY <1>1, <1>2, <1>3, <1>4, <1>5, SparedTrans

LEMMA FetcherSpares ==
  ASSUME NEW p, NEW r, Drawn(p),
         p.step \in {"Tile", "DataLow", "DataHigh", "Sleep", "Push"}
  PROVE  Spared(p, StepFetcher(p, r))
<1> DEFINE s == StepFetcher(p, r)
<1>1. ASSUME NEW q, NEW next, Spared(p, q) PROVE Spared(p, Dots(q, next))
  <2>1. Drawn(q)
    BY <1>1 DEF Drawn, Spared, SameObjects
  <2>2. QED
    BY <1>1, <2>1, DotsSpare, SparedTrans
<1>2. CASE p.fetchReset
  <2>1. s = [p EXCEPT !.fetchReset = FALSE]
    BY <1>2 DEF StepFetcher
  <2>2. QED
    BY <2>1 DEF Spared, SameObjects, SameView, Drawn
<1>3. CASE ~p.fetchReset /\ p.step = "Tile"
  <2> DEFINE q == IF p.stepDots = 0 THEN SampleTileIndex(p, r) ELSE p
  <2>1. s = Dots(q, "DataLow")
    BY <1>3 DEF StepFetcher
  <2>2. Spared(p, q)
    BY DEF SampleTileIndex, Spared, SameObjects, SameView, Drawn
  <2> HIDE DEF q
  <2>3. QED
    BY <1>1, <2>1, <2>2
<1>4. CASE ~p.fetchReset /\ p.step = "DataLow"
  <2> DEFINE q == IF p.stepDots = 0 THEN [p EXCEPT !.low = Layer(p)] ELSE p
  <2>1. s = Dots(q, "DataHigh")
    BY <1>4 DEF StepFetcher
  <2>2. Spared(p, q)
    BY DEF Spared, SameObjects, SameView, Drawn
  <2> HIDE DEF q
  <2>3. QED
    BY <1>1, <2>1, <2>2
<1>5. CASE ~p.fetchReset /\ p.step = "DataHigh"
  <2> DEFINE q == [p EXCEPT !.high = Layer(p)]
  <2>1. s = IF p.stepDots = 0 THEN Dots(q, "DataHigh") ELSE FetchComplete(p, r)
    BY <1>5 DEF StepFetcher
  <2>2. Spared(p, q)
    BY DEF Spared, SameObjects, SameView, Drawn
  <2> HIDE DEF q
  <2>3. QED
    BY <1>1, <2>1, <2>2, CompleteSpares
<1>6. CASE ~p.fetchReset /\ p.step = "Sleep"
  <2> DEFINE q == IF p.pushed THEN p ELSE TryPushRow(p)
  <2>1. s \in {Dots(q, "Tile"), Dots(q, "Push")}
    BY <1>6 DEF StepFetcher
  <2>2. Spared(p, q)
    BY TrySpares DEF Spared, SameObjects, SameView
  <2> HIDE DEF q
  <2>3. QED
    BY <1>1, <2>1, <2>2
<1>7. CASE ~p.fetchReset /\ p.step = "Push"
  <2> DEFINE q == TryPushRow(p)
             u == [q EXCEPT !.step = "Tile"]
  <2>1. s \in {q, u}
    BY <1>7 DEF StepFetcher
  <2>2. Spared(p, q) /\ Drawn(q)
    BY TrySpares DEF Spared, SameObjects, Drawn
  <2> HIDE DEF q
  <2>3. Spared(q, u)
    BY <2>2 DEF Spared, SameObjects, SameView, Drawn
  <2> HIDE DEF u
  <2>4. QED
    BY <2>1, <2>2, <2>3, SparedTrans
<1>8. QED
  BY <1>2, <1>3, <1>4, <1>5, <1>6, <1>7

\* The window's counter, for a dot.
Counted(p) ==
  AdvanceWindowCounter(ShiftPipes(CompareWindow([p EXCEPT !.out = NoPixel], regs), regs))

\* A dot up to the object fetches: b is the pipeline then, due whether a pixel was at its start.
Ready(p0, b, due) ==
  /\ b = Counted(p0) /\ (due <=> ~Idle(p0))
  /\ DOMAIN b = DOMAIN p0 /\ PipeInv(b) /\ Advanced(b) /\ SameObjects(p0, b)
  /\ b.out = NoPixel /\ b.objSelect = regs.objOn /\ b.wxPipe = <<regs.wx, regs.wx>>
  /\ due \in BOOLEAN /\ (due \/ Idle(b)) /\ (Prefetching(b, 1) => ~due)

\* The three things a dot can go on to do.
Stalls(b, q) == b.objectDots > 0 /\ q = StallDot(b, regs)

StartsObject(b, due, q) ==
  /\ b.objectDots = 0 /\ regs.objOn /\ due /\ ObjectsDue(b) # {}
  /\ q = ReadObjectRowIfDue(
           [StartObject(b, regs, FirstOf(ObjectsDue(b))) EXCEPT !.objectDots = @ - 1])

Draws(b, due, q) ==
  /\ ~(b.objectDots > 0) /\ (regs.objOn /\ due => ObjectsDue(b) = {} \/ b.objectDots # 0)
  /\ q = EmitPixel(StepFetcher(b, regs), regs.objOn)

\* The head start ends before the window and the stream begin.
LEMMA AdvanceBefore ==
  ASSUME NEW m, Drawn(m), Prefetching(AdvanceWindowCounter(m), 1)
  PROVE  ~m.headStart /\ ~m.window
<1> DEFINE a == AdvanceWindowCounter(m)
<1>1. \/ a = [m EXCEPT !.lead = m.lead - 1]
      \/ a = m
      \/ a = [m EXCEPT !.headStart = TRUE]
      \/ a = [m EXCEPT !.windowX = m.windowX + 1]
  BY DEF AdvanceWindowCounter
<1>2. ~a.headStart /\ ~a.window
  BY DEF Prefetching
<1> HIDE DEF a
<1>3. QED
  BY <1>1, <1>2 DEF Drawn

LEMMA FeedSame ==
  ASSUME NEW p, NEW q, SameStream(p, q), FeedInv(p) PROVE FeedInv(q)
<1>1. Typed(p) /\ Typed(q)
  BY SameFeeds DEF FeedInv, Typed
<1>2. QED
  BY <1>1, SameFeeds DEF FeedInv, Typed

\* A dot up to the objects, and what it goes on to do.
LEMMA DotForms ==
  ASSUME LineTyped, NEW p0, Drawn(p0), PipeInv(p0), FeedInv(p0), SettledInv(p0),
         p0.objectFetching => regs.objOn
  PROVE  \E b, due : /\ Ready(p0, b, due)
                     /\ \/ Stalls(b, StepPipeline(p0, regs))
                        \/ StartsObject(b, due, StepPipeline(p0, regs))
                        \/ Draws(b, due, StepPipeline(p0, regs))
<1> DEFINE p == [p0 EXCEPT !.out = NoPixel]
           m == CompareWindow(p, regs)
           c == ShiftPipes(m, regs)
           a == AdvanceWindowCounter(c)
           b == AbandonObjectIfDisabled(a, regs)
           pixelDue == p.queue # <<>> \/ FetchStallDots(p) = 0
           objSelect == IF p.streamStarted THEN p.objSelect ELSE regs.objOn
           due == IF regs.objOn /\ pixelDue THEN ObjectsDue(b) ELSE {}
           q == StepPipeline(p0, regs)
<1>1. /\ b.objectDots > 0 => q = StallDot(b, regs)
      /\ ~(b.objectDots > 0) /\ b.objectDots = 0 /\ due # {} =>
           q = ReadObjectRowIfDue([StartObject(b, regs, FirstOf(due)) EXCEPT !.objectDots = @ - 1])
      /\ ~(b.objectDots > 0) /\ ~(b.objectDots = 0 /\ due # {}) =>
           q = EmitPixel(StepFetcher(b, regs), objSelect)
  BY DEF StepPipeline
<1>2. /\ SameStream(p0, p) /\ Drawn(p) /\ SameObjects(p0, p) /\ p.out = NoPixel
      /\ p.streamStarted = p0.streamStarted /\ p.objSelect = p0.objSelect /\ p.wxPipe = p0.wxPipe
      /\ Shaped(p) /\ SameFetch(p0, p) /\ SameSlots(p0, p)
  BY DEF Drawn, SameStream, SameRest, SameQueue, SameObjects, Shaped, SameFetch, SameSlots
<1>3. pixelDue <=> ~Idle(p)
  BY DEF Idle
<1>4. objSelect = regs.objOn
  BY <1>2 DEF SettledInv
<1> HIDE DEF p, objSelect, pixelDue, q
<1>5. PipeInv(p) /\ FeedInv(p) /\ p.wxPipe[1] = regs.wx
  BY <1>2, SameKeeps, FeedSame DEF SettledInv
<1>6. Compared(p, m) /\ Spared(p, m) /\ Drawn(m) /\ PipeInv(m)
  BY <1>2, <1>5, CompareFeeds, CompareSpares, CompareKeeps DEF Spared, SameObjects, Drawn
<1> HIDE DEF m
<1>7. /\ SameStream(m, c) /\ SameObjects(m, c) /\ c.out = m.out /\ c.objSelect = regs.objOn
      /\ c.wxPipe = <<regs.wx, regs.wx>> /\ Drawn(c)
  <2>1. m.wxPipe = <<regs.wx, regs.wx>>
    BY <1>2, <1>6 DEF Spared, SameView, SettledInv
  <2>2. c = [m EXCEPT !.wxPipe = <<m.wxPipe[2], regs.wx>>, !.objSelect = regs.objOn]
    BY DEF ShiftPipes
  <2> HIDE DEF c
  <2>3. <<m.wxPipe[2], regs.wx>> = <<regs.wx, regs.wx>>
    BY <2>1
  <2>4. c = [m EXCEPT !.wxPipe = <<regs.wx, regs.wx>>, !.objSelect = regs.objOn]
    BY <2>2, <2>3
  <2>5. QED
    BY <1>6, <2>4 DEF Drawn, SameStream, SameRest, SameQueue, SameObjects
<1>8. PipeInv(c)
  BY <1>6, ShiftPipesKeeps, SameKeeps DEF PipeInv
<1> HIDE DEF c
<1>9. Compared(p, c)
  <2>1. DOMAIN c = DOMAIN p
    BY <1>6, <1>7 DEF Compared, SameObjects
  <2>2. QED
    BY <1>6, <1>7, <2>1, SameFeeds DEF Compared
<1>10. /\ Advanced(a) /\ DOMAIN a = DOMAIN c /\ (Idle(a) <=> Idle(c)) /\ Spared(c, a) /\ PipeInv(a)
  BY <1>7, <1>8, <1>9, AdvanceFeeds, AdvanceSpares, AdvanceKeeps, SameKeeps DEF PipeInv
<1> HIDE DEF a
<1>11. SameObjects(p0, a) /\ a.out = NoPixel /\ a.objSelect = regs.objOn
       /\ a.wxPipe = <<regs.wx, regs.wx>>
  BY <1>2, <1>6, <1>7, <1>10 DEF Spared, SameObjects, SameView
<1>12. b = a
  <2>1. ~(a.objectFetching /\ ~regs.objOn)
    BY <1>11 DEF SameObjects
  <2>2. QED
    BY <2>1 DEF AbandonObjectIfDisabled
<1> HIDE DEF b
<1>13. pixelDue \in BOOLEAN
  BY DEF pixelDue
<1>14. pixelDue \/ Idle(a)
  BY <1>3, <1>9, <1>10 DEF Compared
<1>15. ASSUME Prefetching(a, 1) PROVE ~pixelDue
  <2>1. Idle(a)
    <3>1. ~Streaming(a, 0) /\ ~InWindow(a)
      BY <1>15 DEF Prefetching, Streaming, InWindow
    <3>2. QED
      BY <1>10, <3>1 DEF Advanced
  <2>2. Idle(c)
    BY <1>10, <2>1
  <2>3. Idle(p)
    <3>1. ~c.headStart /\ ~c.window
      BY <1>7, <1>15, AdvanceBefore DEF a
    <3>2. ~Streaming(c, 0) /\ ~InWindow(c)
      BY <3>1 DEF Streaming, InWindow
    <3>3. QED
      BY <1>9, <2>2, <3>2 DEF Compared
  <2>4. QED
    BY <1>3, <2>3
<1>16. Ready(p0, b, pixelDue)
  <2>1. DOMAIN b = DOMAIN p0
    BY <1>11, <1>12 DEF SameObjects
  <2>2. b = Counted(p0)
    BY <1>12 DEF Counted, p, m, c, a
  <2>3. pixelDue <=> ~Idle(p0)
    BY <1>2, <1>3, SameFeeds
  <2>4. QED
    BY <1>10, <1>11, <1>12, <1>13, <1>14, <1>15, <2>1, <2>2, <2>3 DEF Ready
<1>17. \/ Stalls(b, q)
       \/ StartsObject(b, pixelDue, q)
       \/ Draws(b, pixelDue, q)
  <2>1. CASE b.objectDots > 0
    BY <1>1, <2>1 DEF Stalls
  <2>2. CASE ~(b.objectDots > 0) /\ b.objectDots = 0 /\ due # {}
    <3>1. due = ObjectsDue(b) /\ regs.objOn /\ pixelDue
      BY <2>2
    <3>2. QED
      BY <1>1, <2>2, <3>1 DEF StartsObject
  <2>3. CASE ~(b.objectDots > 0) /\ ~(b.objectDots = 0 /\ due # {})
    BY <1>1, <1>4, <2>3 DEF Draws
  <2>4. QED
    BY <2>1, <2>2, <2>3
<1>18. QED
  BY <1>16, <1>17 DEF q

\* What an object's reads touch.
LEMMA ReadSameStream ==
  ASSUME NEW p, Drawn(p)
  PROVE  /\ SameStream(p, ReadObjectRowIfDue(p)) /\ SameView(p, ReadObjectRowIfDue(p))
         /\ DOMAIN ReadObjectRowIfDue(p) = DOMAIN p
<1>1. SameStream(p, p) /\ SameView(p, p)
  BY DEF SameStream, SameRest, SameQueue, SameView
<1> DEFINE u == [p EXCEPT !.objectLowRead = TRUE]
           m == MergeObject(p)
<1>2. SameStream(p, u) /\ SameView(p, u) /\ DOMAIN u = DOMAIN p
  BY DEF Drawn, SameStream, SameRest, SameQueue, SameView
<1>3. SameStream(p, m) /\ SameView(p, m) /\ DOMAIN m = DOMAIN p
  <2> DEFINE left == objects[p.objectIndex] - 8
             claims(k) == p.pixelX + k \in left .. left + 7 /\ p.slots[k].obj = 0
             new == [k \in 0..7 |-> IF claims(k)
                                    THEN [obj |-> p.objectIndex, i |-> (p.pixelX + k) - left]
                                    ELSE p.slots[k]]
  <2>1. m = [p EXCEPT !.objectFetching = FALSE, !.slots = new]
    BY DEF MergeObject
  <2> HIDE DEF new, m
  <2>2. QED
    BY <2>1 DEF Drawn, SameStream, SameRest, SameQueue, SameView
<1>4. ReadObjectRowIfDue(p) \in {p, u, m}
  BY DEF ReadObjectRowIfDue
<1> HIDE DEF u, m
<1>5. QED
  BY <1>1, <1>2, <1>3, <1>4

LEMMA SameStreamTrans ==
  ASSUME NEW p, NEW q, NEW s, SameStream(p, q), SameStream(q, s) PROVE SameStream(p, s)
BY DEF SameStream, SameRest, SameQueue

\* Streaming and the window's rows, fed a dot.
LEMMA FetchFeeds ==
  ASSUME LineTyped, NEW p, NEW e \in {-1, 0}, Drawn(p), PipeInv(p), Typed(p),
         Streaming(p, e) \/ InWindow(p)
  PROVE  LET s == StepFetcher(p, regs)
         IN /\ DOMAIN s = DOMAIN p /\ Typed(s)
            /\ (Streaming(p, e) => Streaming(s, e + 1)) /\ (InWindow(p) => InWindow(s))
            /\ (NotMet(p) => NotMet(s)) /\ (NotYet(p) => NotYet(s))
            /\ (Idle(p) => s.queue = <<>>)
<1> DEFINE s == StepFetcher(p, regs)
<1>1. Stocked(p) /\ RowIsNext(p) /\ ~p.discardFetch /\ (p.window => regs.winOn)
  <2>1. CASE Streaming(p, e)
    BY <2>1 DEF Stocked, Typed, Streaming, Row
  <2>2. CASE InWindow(p)
    <3>1. ~ZeroAhead(p)
      BY <2>2 DEF InWindow, ZeroAhead, ZeroPut, LeavesZero, WindowEnabled
    <3>2. QED
      BY <2>2, <3>1 DEF Stocked, Typed, InWindow, Row, WindowEnabled
  <2>3. QED
    BY <2>1, <2>2
<1>2. p.fifoLead \in Nat
  BY DEF Streaming, InWindow
<1>3. Supplied(p, s)
  BY <1>1, <1>2, FetchSupplies
<1> HIDE DEF s
<1>4. /\ SameRest(p, s) /\ Stocked(s) /\ RowIsNext(s) /\ ~s.discardFetch
      /\ (~p.fetchReset => ~s.fetchReset)
      /\ (s.fifoFed \/ SameQueue(p, s))
      /\ (p.queue # <<>> => s.queue # <<>>)
      /\ (p.queue = <<>> /\ FetchStallDots(p) # 0 => s.queue = <<>>)
      /\ (Fed(p, e) /\ ~p.fetchReset /\ LeadKept(p) => Fed(s, e + 1))
  BY <1>3 DEF Supplied
<1>5. /\ Typed(s) /\ (ZeroPut(s) <=> ZeroPut(p)) /\ (ZeroAhead(s) <=> ZeroAhead(p))
      /\ (NotMet(p) => NotMet(s)) /\ (NotYet(p) => NotYet(s))
      /\ (Idle(p) => s.queue = <<>>) /\ (ComparedOnce(p) => ComparedOnce(s))
  BY <1>4 DEF Typed, Stocked, SameRest, ZeroPut, ZeroAhead, NotMet, NotYet, Idle, ComparedOnce
<1>6. ASSUME Streaming(p, e) PROVE Streaming(s, e + 1)
  <2>1. ~ZeroPut(s) => Fed(s, e + 1)
    BY <1>4, <1>5, <1>6 DEF Streaming, LeadKept
  <2>2. s.pixelX > 0 \/ s.queue # <<>> => s.fifoFed
    BY <1>4, <1>6 DEF Streaming, SameRest, SameQueue
  <2>3. ZeroAhead(s) => s.queue # <<>>
    BY <1>4 DEF Stocked
  <2>4. QED
    BY <1>4, <1>5, <1>6, <2>1, <2>2, <2>3 DEF Streaming, SameRest, Stocked
<1>7. InWindow(p) => InWindow(s)
  BY <1>4 DEF InWindow, SameRest, Stocked
<1>8. QED
  BY <1>4, <1>5, <1>6, <1>7 DEF SameRest, s

\* A stream that is fed: what a stall leaves, and what a dot of drawing takes a pixel from.
Flowing(p) == Typed(p) /\ ((Streaming(p, 0) /\ NotMet(p)) \/ InWindow(p))

\* A stall keeps the invariant: no pixel leaves, so WX is not passed by.
LEMMA FlowingFeeds ==
  ASSUME LineTyped, NEW p, Flowing(p) PROVE FeedInv(p)
<1>1. CASE Streaming(p, 0) /\ NotMet(p)
  <2>1. p.lead = 0 /\ p.windowX = p.pixelX + 7 /\ p.pixelX \in Nat
    BY <1>1 DEF Streaming, Flowing, Typed
  <2>2. NotYet(p)
    <3> SUFFICES ASSUME regs.reached, p.comparedX # regs.wx PROVE p.windowX <= regs.wx
      BY DEF NotYet
    <3>1. p.windowX < regs.wx
      BY <1>1, <2>1 DEF NotMet
    <3>2. QED
      BY <2>1, <3>1, LineFacts
  <2>3. QED
    BY <1>1, <2>2 DEF FeedInv, Flowing, Typed
<1>2. CASE InWindow(p)
  BY <1>2 DEF FeedInv, Flowing, Typed
<1>3. QED
  BY <1>1, <1>2 DEF Flowing

LEMMA FlowingSame ==
  ASSUME NEW p, NEW q, SameStream(p, q), Flowing(p) PROVE Flowing(q)
BY SameFeeds DEF Flowing

\* One of the objects' dots has passed.
CountedDown(b, u) ==
  /\ DOMAIN u = DOMAIN b
  /\ u.objectDots = b.objectDots - 1
  /\ u.drawn = b.drawn /\ u.objectIndex = b.objectIndex
  /\ u.objectFetching = b.objectFetching /\ u.objectEarlyDots = b.objectEarlyDots
  /\ u.slots = b.slots /\ u.pixelX = b.pixelX /\ u.penaltyStarted = b.penaltyStarted

\* A stall: the fetcher has its three dots, the pixels none.
LEMMA StallFeeds ==
  ASSUME LineTyped, NEW p0, NEW b, NEW due, NEW q, Drawn(p0), Ready(p0, b, due), Stalls(b, q),
         p0.objectDots > 0 => p0.penaltyStarted, p0.objectFetching \in BOOLEAN,
         p0.objectFetching => regs.objOn
  PROVE  /\ FeedInv(q) /\ Flowing(q)
         /\ \E u : /\ q = ReadObjectRowIfDue(u) /\ Drawn(u) /\ PipeInv(u)
                   /\ CountedDown(b, u) /\ SameView(b, u)
<1> DEFINE a == [b EXCEPT !.objectDots = b.objectDots - 1]
           c == [a EXCEPT !.objectLeadDots = a.objectLeadDots - 1]
           d == IF a.objectLeadDots > 0 THEN StepFetcher(c, regs) ELSE a
           u == CancelObjectIfDisabled(d, regs)
<1>1. q = ReadObjectRowIfDue(u) /\ b.objectDots > 0
  BY DEF Stalls, StallDot
<1>2. /\ Drawn(b) /\ PipeInv(b) /\ Advanced(b) /\ b.penaltyStarted
      /\ b.objectFetching \in BOOLEAN /\ (b.objectFetching => regs.objOn)
  BY <1>1 DEF Ready, Drawn, SameObjects
<1>3. Flowing(b)
  BY <1>2 DEF Advanced, Flowing, Prefetching
<1>4. Drawn(a) /\ SameStream(b, a) /\ SameView(b, a) /\ CountedDown(b, a) /\ PipeInv(a)
  <2>1. Drawn(a) /\ SameStream(b, a) /\ SameView(b, a) /\ CountedDown(b, a)
    BY <1>2 DEF Drawn, SameStream, SameRest, SameQueue, SameView, CountedDown
  <2>2. Shaped(a) /\ SameFetch(b, a) /\ SameSlots(b, a)
    BY <1>2 DEF Drawn, Shaped, SameFetch, SameSlots
  <2> HIDE DEF a
  <2>3. QED
    BY <1>2, <2>1, <2>2, SameKeeps
<1> HIDE DEF a
<1>5. Flowing(a)
  BY <1>3, <1>4, FlowingSame
<1>6. /\ Drawn(c) /\ SameView(b, c) /\ CountedDown(b, c) /\ PipeInv(c) /\ Typed(c)
      /\ (NotMet(a) => NotMet(c)) /\ (InWindow(a) => InWindow(c))
  <2>1. Drawn(c) /\ SameView(b, c) /\ CountedDown(b, c) /\ Typed(c)
    BY <1>4, <1>5 DEF Drawn, SameView, CountedDown, Typed, Flowing
  <2>2. Shaped(c) /\ SameFetch(a, c) /\ SameSlots(a, c)
    BY <1>4 DEF Drawn, Shaped, SameFetch, SameSlots
  <2>3. /\ c.windowX = a.windowX /\ c.lead = a.lead /\ c.comparedX = a.comparedX
        /\ c.window = a.window /\ c.windowLine = a.windowLine /\ c.discardFetch = a.discardFetch
        /\ c.pixelX = a.pixelX /\ c.fifoLead = a.fifoLead /\ c.fetcherX = a.fetcherX
        /\ c.discard = a.discard /\ c.queue = a.queue /\ c.step = a.step
        /\ c.stepDots = a.stepDots /\ c.pushed = a.pushed /\ c.tile = a.tile
    BY <1>4 DEF Drawn
  <2> HIDE DEF c
  <2>4. PipeInv(c)
    BY <1>4, <2>2, SameKeeps
  <2>5. NotMet(a) => NotMet(c)
    BY <2>3 DEF NotMet
  <2>6. /\ (StreamIsPlaced(a) => StreamIsPlaced(c)) /\ (QueueIsNext(a) => QueueIsNext(c))
        /\ (RowIsNext(a) => RowIsNext(c))
    BY <2>3 DEF StreamIsPlaced, QueueIsNext, RowIsNext, Offset, ZeroPut, ZeroAhead, Row, FirstColumn
  <2>7. InWindow(a) => InWindow(c)
    BY <2>3, <2>6 DEF InWindow
  <2>8. QED
    BY <2>1, <2>4, <2>5, <2>7
<1>7. ASSUME a.objectLeadDots > 0, Streaming(a, 0) PROVE Streaming(c, -1)
  <2>1. /\ c.windowX = a.windowX /\ c.lead = a.lead /\ c.comparedX = a.comparedX
        /\ c.window = a.window /\ c.windowLine = a.windowLine /\ c.discardFetch = a.discardFetch
        /\ c.pixelX = a.pixelX /\ c.fifoLead = a.fifoLead /\ c.fetcherX = a.fetcherX
        /\ c.discard = a.discard /\ c.queue = a.queue /\ c.step = a.step
        /\ c.stepDots = a.stepDots /\ c.pushed = a.pushed /\ c.tile = a.tile
        /\ c.headStart = a.headStart /\ c.fetchReset = a.fetchReset /\ c.fifoFed = a.fifoFed
        /\ c.penaltyStarted = a.penaltyStarted /\ c.objectLeadDots = a.objectLeadDots - 1
    BY <1>4 DEF Drawn
  <2>2. a.objectLeadDots \in 0 .. 3 /\ a.penaltyStarted
    BY <1>2, <1>4, <1>7 DEF Streaming, CountedDown
  <2>3. c.objectLeadDots \in 0 .. 3 /\ c.penaltyStarted
    BY <1>7, <2>1, <2>2
  <2> HIDE DEF c
  <2>4. /\ (StreamIsPlaced(a) => StreamIsPlaced(c)) /\ (QueueIsNext(a) => QueueIsNext(c))
        /\ (RowIsNext(a) => RowIsNext(c)) /\ (ComparedOnce(a) => ComparedOnce(c))
        /\ (ZeroPut(c) <=> ZeroPut(a)) /\ (ZeroAhead(c) <=> ZeroAhead(a))
    BY <2>1 DEF StreamIsPlaced, QueueIsNext, RowIsNext, Offset, ZeroPut, ZeroAhead, Row,
                FirstColumn, ComparedOnce
  <2>5. Fed(a, 0) => Fed(c, -1)
    <3> SUFFICES ASSUME Fed(a, 0) PROVE Fed(c, -1)
      OBVIOUS
    <3>1. Distance(c) = Distance(a) /\ Gained(a) = 3 - a.objectLeadDots
          /\ Gained(c) = 3 - (a.objectLeadDots - 1)
      BY <2>1, <2>2 DEF Distance, Gained
    <3>2. Distance(a) \in Int
      BY <1>4 DEF Distance, PipeInv, FetchedWhole
    <3>3. Len(a.queue) = Distance(a) + Gained(a) + 0
      BY DEF Fed
    <3>4. Len(c.queue) = Distance(c) + Gained(c) + -1
      BY <2>1, <2>2, <3>1, <3>2, <3>3
    <3>5. QED
      BY <2>1, <3>4 DEF Fed
  <2>6. QED
    BY <1>7, <2>1, <2>3, <2>4, <2>5 DEF Streaming
<1>8. /\ Drawn(d) /\ SameView(b, d) /\ CountedDown(b, d) /\ PipeInv(d) /\ Flowing(d)
  <2>1. CASE ~(a.objectLeadDots > 0)
    BY <1>4, <1>5, <2>1
  <2>2. CASE a.objectLeadDots > 0
    <3> DEFINE s == StepFetcher(c, regs)
    <3>1. d = s
      BY <2>2
    <3>2. Streaming(c, -1) \/ InWindow(c)
      BY <1>5, <1>6, <1>7, <2>2 DEF Flowing
    <3> HIDE DEF c
    <3>3. /\ DOMAIN s = DOMAIN c /\ Typed(s)
          /\ (Streaming(c, -1) => Streaming(s, -1 + 1)) /\ (InWindow(c) => InWindow(s))
          /\ (NotMet(c) => NotMet(s))
      BY <1>6, <3>2, FetchFeeds
    <3>4. Flowing(s)
      <4>1. -1 + 1 = 0
        OBVIOUS
      <4>2. Streaming(c, -1) => Streaming(s, 0)
        BY <3>3, <4>1
      <4>3. QED
        BY <1>5, <1>6, <1>7, <2>2, <3>3, <4>2 DEF Flowing
    <3>5. Spared(c, s)
      BY <1>6, FetcherSpares DEF PipeInv, FetchedWhole
    <3>6. PipeInv(s)
      BY <1>6, FetcherKeeps
    <3> HIDE DEF s, d
    <3>7. Drawn(s) /\ SameView(b, s) /\ CountedDown(b, s)
      BY <1>6, <3>3, <3>5 DEF Drawn, SameView, CountedDown, Spared, SameObjects
    <3>8. QED
      BY <3>1, <3>4, <3>6, <3>7
  <2>3. QED
    BY <2>1, <2>2
<1> HIDE DEF d, c
<1>9. d.objectFetching /\ (d.objectLowRead \/ regs.objOn) <=> d.objectFetching
  BY <1>2, <1>8 DEF CountedDown
<1>10. u = [d EXCEPT !.objectFetching = d.objectFetching]
  <2>1. d.objectFetching \in BOOLEAN
    BY <1>2, <1>8 DEF CountedDown
  <2>2. (d.objectFetching /\ (d.objectLowRead \/ regs.objOn)) = d.objectFetching
    BY <1>9, <2>1, Zenon
  <2>3. u = [d EXCEPT !.objectFetching = d.objectFetching /\ (d.objectLowRead \/ regs.objOn)]
    BY DEF CancelObjectIfDisabled
  <2> HIDE DEF u
  <2>4. QED
    BY <2>2, <2>3
<1> HIDE DEF u
<1>11. Drawn(u) /\ SameStream(d, u) /\ SameView(b, u) /\ CountedDown(b, u)
  BY <1>8, <1>10 DEF Drawn, SameStream, SameRest, SameQueue, SameView, CountedDown
<1>12. PipeInv(u)
  <2>1. Shaped(u) /\ SameFetch(d, u) /\ SameSlots(d, u)
    BY <1>8, <1>10 DEF Drawn, Shaped, SameFetch, SameSlots
  <2>2. QED
    BY <1>8, <2>1, SameKeeps
<1>13. Flowing(u)
  BY <1>8, <1>11, FlowingSame
<1>14. Flowing(q)
  BY <1>1, <1>11, <1>13, ReadSameStream, FlowingSame
<1>15. QED
  BY <1>1, <1>11, <1>12, <1>14, FlowingFeeds

\* An object's fetch has begun.
Begun(b, k, u) ==
  /\ DOMAIN u = DOMAIN b
  /\ u.drawn = b.drawn \cup {k} /\ u.objectIndex = k /\ u.objectFetching = TRUE
  /\ u.objectDots = ObjectPenalty(objects[k], regs, b.lastTile) - 1
  /\ u.objectEarlyDots =
       (IF 8 - objects[k] > 0
        THEN Smaller(8 - objects[k], ObjectPenalty(objects[k], regs, b.lastTile) - kObjectDataDots)
        ELSE 0)
  /\ u.slots = b.slots /\ u.pixelX = b.pixelX /\ u.penaltyStarted = TRUE

\* The line's first object gives the fetcher three dots to run ahead, and the FIFO that much room.
LEMMA StartObjectFeeds ==
  ASSUME LineTyped, NEW p0, NEW b, NEW due, NEW q, Drawn(p0), Ready(p0, b, due),
         StartsObject(b, due, q)
  PROVE  /\ FeedInv(q) /\ Flowing(q)
         /\ \E u : /\ q = ReadObjectRowIfDue(u) /\ Drawn(u) /\ PipeInv(u)
                   /\ Begun(b, FirstOf(ObjectsDue(b)), u) /\ SameView(b, u)
<1> DEFINE k == FirstOf(ObjectsDue(b))
           u == [StartObject(b, regs, k) EXCEPT !.objectDots = @ - 1]
<1>1. q = ReadObjectRowIfDue(u) /\ due
  BY DEF StartsObject
<1>2. Drawn(b) /\ PipeInv(b) /\ Flowing(b)
  <2>1. ~Prefetching(b, 1)
    BY <1>1 DEF Ready
  <2>2. QED
    BY <2>1 DEF Ready, Drawn, Advanced, Flowing
<1> HIDE DEF k
<1>3. /\ Drawn(u) /\ Begun(b, k, u) /\ SameView(b, u)
      /\ u.objectLeadDots = (IF b.penaltyStarted THEN b.objectLeadDots ELSE 3)
      /\ u.fifoLead = (IF b.penaltyStarted THEN b.fifoLead ELSE 3)
  BY <1>2 DEF StartObject, Drawn, Begun, SameView, kObjectFetcherLead
<1>4. /\ u.windowX = b.windowX /\ u.lead = b.lead /\ u.comparedX = b.comparedX
      /\ u.window = b.window /\ u.windowLine = b.windowLine /\ u.discardFetch = b.discardFetch
      /\ u.pixelX = b.pixelX /\ u.fetcherX = b.fetcherX
      /\ u.discard = b.discard /\ u.queue = b.queue /\ u.step = b.step
      /\ u.stepDots = b.stepDots /\ u.pushed = b.pushed /\ u.tile = b.tile
      /\ u.headStart = b.headStart /\ u.fetchReset = b.fetchReset /\ u.fifoFed = b.fifoFed
      /\ u.low = b.low /\ u.high = b.high /\ u.slots = b.slots
  BY <1>2 DEF StartObject, Drawn
<1> HIDE DEF u
<1>5. PipeInv(u)
  <2>1. Shaped(u) /\ SameFetch(b, u) /\ SameSlots(b, u)
    BY <1>3, <1>4 DEF Drawn, Shaped, SameFetch, SameSlots
  <2>2. QED
    BY <1>2, <2>1, SameKeeps
<1>6. /\ (StreamIsPlaced(b) => StreamIsPlaced(u)) /\ (QueueIsNext(b) => QueueIsNext(u))
      /\ (RowIsNext(b) => RowIsNext(u)) /\ (ComparedOnce(b) => ComparedOnce(u))
      /\ (ZeroPut(u) <=> ZeroPut(b)) /\ (ZeroAhead(u) <=> ZeroAhead(b))
      /\ (NotMet(b) => NotMet(u)) /\ Typed(u)
  BY <1>2, <1>4 DEF StreamIsPlaced, QueueIsNext, RowIsNext, Offset, ZeroPut, ZeroAhead, Row,
                    FirstColumn, ComparedOnce, NotMet, Typed, Flowing
<1>7. ASSUME InWindow(b) PROVE InWindow(u)
  <2>1. u.fifoLead \in Nat
    BY <1>3, <1>7 DEF InWindow
  <2>2. QED
    BY <1>4, <1>6, <1>7, <2>1 DEF InWindow
<1>8. ASSUME Streaming(b, 0) PROVE Streaming(u, 0)
  <2>1. u.penaltyStarted /\ u.objectLeadDots \in 0 .. 3 /\ u.fifoLead = 3
    BY <1>3, <1>8 DEF Streaming, Begun
  <2>2. Fed(b, 0) => Fed(u, 0)
    <3>1. Distance(u) = Distance(b)
      BY <1>4 DEF Distance
    <3>2. Gained(u) = Gained(b)
      BY <1>3, <1>8, <2>1 DEF Gained, Streaming
    <3>3. QED
      BY <1>4, <3>1, <3>2 DEF Fed
  <2>3. QED
    BY <1>4, <1>6, <1>8, <2>1, <2>2 DEF Streaming
<1>9. Flowing(u)
  BY <1>2, <1>6, <1>7, <1>8 DEF Flowing
<1>10. Flowing(q)
  BY <1>1, <1>3, <1>9, ReadSameStream, FlowingSame
<1>11. QED
  BY <1>1, <1>3, <1>5, <1>10, FlowingFeeds DEF k

\* A dot of drawing: the fetcher's dot, then a pixel shown where it belongs.
LEMMA DrawFeeds ==
  ASSUME LineTyped, NEW p0, NEW b, NEW due, NEW q, Drawn(p0), Ready(p0, b, due), Draws(b, due, q)
  PROVE  /\ FeedInv(q) /\ DOMAIN q = DOMAIN b
         /\ \E s : /\ q = EmitPixel(s, regs.objOn) /\ Drawn(s) /\ PipeInv(s) /\ Spared(b, s)
                   /\ q.out = NoPixel \/ Shown(s, q, regs.objOn)
                   /\ ~due => s.queue = <<>>
<1> DEFINE s == StepFetcher(b, regs)
<1>1. q = EmitPixel(s, regs.objOn)
  BY DEF Draws
<1>2. Drawn(b) /\ PipeInv(b) /\ Advanced(b) /\ b.out = NoPixel
  BY DEF Ready, Drawn
<1>3. Spared(b, s) /\ PipeInv(s)
  BY <1>2, FetcherSpares, FetcherKeeps DEF PipeInv, FetchedWhole
<1>4. Drawn(s) /\ s.out = NoPixel /\ DOMAIN s = DOMAIN b
  BY <1>2, <1>3 DEF Spared, SameObjects, SameView, Drawn
<1>5. CASE Prefetching(b, 1)
  <2>1. NotYet(b) /\ CountedDots(b) <= 12 /\ Typed(b)
    BY <1>2, <1>5 DEF Advanced, Prefetching, Streaming, InWindow
  <2>2. Prefetching(s, 0) /\ SameBefore(b, s)
    BY <1>2, <1>5, <2>1, FetchPrefetches DEF Typed
  <2> HIDE DEF s
  <2>3. s.queue = <<>>
    BY <2>2 DEF Prefetching
  <2>4. q = s
    BY <1>1, <2>3 DEF EmitPixel
  <2>5. NotYet(s) /\ Typed(s)
    <3>1. NotYet(s)
      BY <2>1, <2>2 DEF NotYet, SameBefore
    <3>2. s.discard \in Nat
      BY <2>2, LineFacts DEF Prefetching
    <3>3. QED
      BY <2>1, <2>2, <3>1, <3>2 DEF Typed, SameBefore
  <2>6. FeedInv(s)
    BY <2>2, <2>5 DEF FeedInv, Typed
  <2>7. QED
    BY <1>1, <1>3, <1>4, <2>3, <2>4, <2>6
<1>6. CASE ~Prefetching(b, 1)
  <2>1. Flowing(b)
    BY <1>2, <1>6 DEF Advanced, Flowing
  <2>2. /\ Typed(s) /\ (Streaming(b, 0) => Streaming(s, 0 + 1)) /\ (InWindow(b) => InWindow(s))
        /\ (NotMet(b) => NotMet(s)) /\ (Idle(b) => s.queue = <<>>)
    BY <1>2, <2>1, FetchFeeds DEF Flowing
  <2>3. (Streaming(s, 1) /\ NotMet(s)) \/ InWindow(s)
    <3>1. 0 + 1 = 1
      OBVIOUS
    <3>2. Streaming(b, 0) => Streaming(s, 1)
      BY <2>2, <3>1
    <3>3. QED
      BY <2>1, <2>2, <3>2 DEF Flowing
  <2> HIDE DEF s
  <2>4. /\ DOMAIN q = DOMAIN s /\ Typed(q)
        /\ (Streaming(q, 0) /\ NotYet(q)) \/ InWindow(q)
        /\ q.out = s.out \/ Shown(s, q, regs.objOn)
    BY <1>1, <1>3, <1>4, <2>2, <2>3, EmitFeeds DEF PipeInv
  <2>5. FeedInv(q)
    BY <2>4 DEF FeedInv, Typed
  <2>6. ~due => s.queue = <<>>
    BY <2>2 DEF Ready
  <2>7. QED
    BY <1>1, <1>3, <1>4, <2>4, <2>5, <2>6
<1>7. QED
  BY <1>5, <1>6

-----------------------------------------------------------------------------
(* The objects.                                                            *)

\* Every set of naturals that is not empty has a least element.
LEMMA LeastElement ==
  ASSUME NEW T \in SUBSET Nat, T # {}
  PROVE  \E x \in T : \A y \in T : x <= y
<1> DEFINE Below == {n \in Nat \X Nat : n[1] < n[2]}
<1>1. IsWellFoundedOn(Below, Nat)
  BY NatLessThanWellFounded DEF OpToRel
<1> HIDE DEF Below
<1>2. PICK x \in T : \A y \in T : ~(<<y, x>> \in Below)
  BY <1>1, WFMin
<1>3. ASSUME NEW y \in T PROVE x <= y
  <2>1. x \in Nat /\ y \in Nat
    BY <1>2
  <2>2. y < x => <<y, x>> \in Below
    BY <2>1 DEF Below
  <2>3. QED
    BY <1>2, <2>1, <2>2
<1>4. QED
  BY <1>2, <1>3

\* What an object's X says.
LEMMA ObjectFacts ==
  ASSUME LineTyped, NEW k \in DOMAIN objects
  PROVE  /\ objects[k] \in 0 .. 255 /\ k \in Nat \ {0} /\ TriggerX(k) \in Nat
         /\ \A x \in Nat : TriggerX(k) > x => objects[k] - 8 = TriggerX(k)
         /\ \A x \in Nat : TriggerX(k) > x => ~Covers(k, x)
         /\ \A x \in Nat : TriggerX(k) <= x => ~Covers(k, x + 8)
         /\ \A x \in Nat : objects[k] - 8 = x \/ (objects[k] < 8 /\ x = 0) <=> TriggerX(k) = x
<1>1. objects[k] \in 0 .. 255 /\ k \in Nat \ {0}
  BY DEF LineTyped
<1> DEFINE o == objects[k]
<1>2. o \in 0 .. 255 /\ TriggerX(k) = (IF o < 8 THEN 0 ELSE o - 8)
      /\ \A x : Covers(k, x) <=> x + 8 \in o .. o + 7
  BY <1>1 DEF TriggerX, Covers
<1> HIDE DEF o
<1>3. TriggerX(k) \in Nat
  BY <1>2
<1>4. \A x \in Nat : TriggerX(k) > x => o - 8 = TriggerX(k)
  BY <1>2
<1>5. \A x \in Nat : TriggerX(k) > x => ~Covers(k, x)
  BY <1>2
<1>6. \A x \in Nat : TriggerX(k) <= x => ~Covers(k, x + 8)
  BY <1>2
<1>7. \A x \in Nat : o - 8 = x \/ (o < 8 /\ x = 0) <=> TriggerX(k) = x
  BY <1>2
<1>8. QED
  BY <1>1, <1>3, <1>4, <1>5, <1>6, <1>7 DEF o

\* An object is due when the pixel counter is at the X it is fetched at.
LEMMA DueIsMet ==
  ASSUME LineTyped, NEW p, p.pixelX \in Nat
  PROVE  \A k : k \in ObjectsDue(p) <=>
                  k \in DOMAIN objects /\ k \notin p.drawn /\ TriggerX(k) = p.pixelX
<1>1. \A k \in DOMAIN objects :
        objects[k] - 8 = p.pixelX \/ (objects[k] < 8 /\ p.pixelX = 0) <=> TriggerX(k) = p.pixelX
  BY ObjectFacts
<1>2. QED
  BY <1>1 DEF ObjectsDue

\* The object taken is the first of those due.
LEMMA FirstIsLeast ==
  ASSUME LineTyped, NEW T \in SUBSET DOMAIN objects, T # {}
  PROVE  FirstOf(T) \in T /\ \A j \in T : FirstOf(T) <= j
<1>1. T \in SUBSET Nat
  BY ObjectFacts
<1>2. \E k \in T : \A j \in T : k <= j
  BY <1>1, LeastElement
<1>3. QED
  BY <1>2 DEF FirstOf

\* What leaves the objects alone keeps their invariant.
LEMMA SameInvObjects ==
  ASSUME NEW p, NEW q, SameObjects(p, q), ObjectInv(p) PROVE ObjectInv(q)
<1>1. Merged(q) = Merged(p)
  BY DEF Merged, SameObjects
<1>2. SlotsAreOwned(q)
  BY <1>1 DEF ObjectInv, SlotsAreOwned, SlotIsOwned, SameObjects
<1>3. DrawnInOrder(q)
  BY DEF ObjectInv, SameObjects, DrawnInOrder
<1>4. FetchIsLast(q) /\ MergeIsAhead(q)
  BY DEF ObjectInv, SameObjects, FetchIsLast, MergeIsAhead
<1>5. QED
  BY <1>2, <1>3, <1>4 DEF ObjectInv

\* The object fetched comes after all those merged: it takes the slots they left.
LEMMA MergeOwns ==
  ASSUME LineTyped, NEW p, Drawn(p), DrawnInOrder(p), FetchIsLast(p), SlotsAreOwned(p),
         p.objectFetching
  PROVE  /\ DrawnInOrder(MergeObject(p)) /\ FetchIsLast(MergeObject(p))
         /\ SlotsAreOwned(MergeObject(p)) /\ ~MergeObject(p).objectFetching
<1> DEFINE k == p.objectIndex
           left == objects[k] - 8
           claims(n) == p.pixelX + n \in left .. left + 7 /\ p.slots[n].obj = 0
           new == [n \in 0..7 |-> IF claims(n) THEN [obj |-> k, i |-> (p.pixelX + n) - left]
                                  ELSE p.slots[n]]
           m == MergeObject(p)
<1>1. m = [p EXCEPT !.objectFetching = FALSE, !.slots = new]
  BY DEF MergeObject
<1>2. k \in p.drawn /\ k \in DOMAIN objects /\ objects[k] \in 0 .. 255 /\ k \in Nat \ {0}
      /\ p.pixelX \in Nat /\ \A j \in p.drawn : j = k \/ Ahead(j, k)
  BY ObjectFacts DEF FetchIsLast, DrawnInOrder
<1>3. Merged(p) = p.drawn \ {k}
  BY DEF Merged
<1>4. \A n \in 0 .. 7 : claims(n) <=> Covers(k, p.pixelX + n) /\ p.slots[n].obj = 0
  BY <1>2 DEF Covers
<1>5. \A n \in 0 .. 7 : new[n] = IF claims(n) THEN [obj |-> k, i |-> (p.pixelX + n) - left]
                                 ELSE p.slots[n]
  OBVIOUS
<1> HIDE DEF new, claims, m
<1>6. /\ DOMAIN m = DOMAIN p /\ m.slots = new /\ m.objectFetching = FALSE /\ m.drawn = p.drawn
      /\ m.pixelX = p.pixelX /\ m.objectDots = p.objectDots /\ m.penaltyStarted = p.penaltyStarted
  BY <1>1 DEF Drawn
<1>7. Merged(m) = p.drawn
  BY <1>6 DEF Merged
<1>8. ASSUME NEW n \in 0 .. 7 PROVE SlotIsOwned(m, n)
  <2>1. SlotIsOwned(p, n)
    BY DEF SlotsAreOwned
  <2>2. CASE claims(n)
    <3>1. m.slots[n] = [obj |-> k, i |-> (p.pixelX + n) - left]
      BY <1>5, <1>6, <2>2
    <3>2. m.slots[n].obj = k /\ k # 0
      BY <1>2, <3>1
    <3>3. Covers(k, p.pixelX + n) /\ p.slots[n].obj = 0
      BY <1>4, <2>2
    <3>4. \A j \in p.drawn \ {k} : ~Covers(j, p.pixelX + n)
      BY <1>3, <2>1, <3>3 DEF SlotIsOwned
    <3> HIDE DEF k
    <3>5. QED
      BY <1>2, <1>6, <1>7, <3>1, <3>2, <3>3, <3>4 DEF SlotIsOwned, k
  <2>3. CASE ~claims(n)
    <3>1. m.slots[n] = p.slots[n]
      BY <1>5, <1>6, <2>3
    <3>2. CASE p.slots[n].obj = 0
      <4>1. p.slots[n] = NoObject /\ \A j \in p.drawn \ {k} : ~Covers(j, p.pixelX + n)
        BY <1>3, <2>1, <3>2 DEF SlotIsOwned
      <4>2. ~Covers(k, p.pixelX + n)
        BY <1>4, <2>3, <3>2
      <4>3. QED
        BY <1>6, <1>7, <3>1, <3>2, <4>1, <4>2 DEF SlotIsOwned
    <3>3. CASE p.slots[n].obj # 0
      <4> DEFINE o == p.slots[n].obj
      <4>1. /\ o \in p.drawn \ {k} /\ Covers(o, p.pixelX + n)
            /\ p.slots[n] = [obj |-> o, i |-> (p.pixelX + n) - (objects[o] - 8)]
            /\ \A j \in p.drawn \ {k} : Covers(j, p.pixelX + n) => j = o \/ Ahead(o, j)
        BY <1>3, <2>1, <3>3 DEF SlotIsOwned
      <4>2. Ahead(o, k)
        BY <1>2, <4>1
      <4>3. m.slots[n].obj = o
        BY <3>1
      <4> HIDE DEF o
      <4>4. QED
        BY <1>6, <1>7, <3>1, <3>3, <4>1, <4>2, <4>3 DEF SlotIsOwned, o
    <3>4. QED
      BY <3>2, <3>3
  <2>4. QED
    BY <2>2, <2>3
<1>9. DrawnInOrder(m)
  BY <1>6 DEF DrawnInOrder
<1>10. FetchIsLast(m)
  BY <1>6 DEF FetchIsLast
<1>11. QED
  BY <1>6, <1>8, <1>9, <1>10 DEF SlotsAreOwned, m

\* An object's reads: its pixels are merged with the last of its own dots.
LEMMA ReadOwns ==
  ASSUME LineTyped, NEW p, Drawn(p), DrawnInOrder(p), FetchIsLast(p), SlotsAreOwned(p),
         p.objectFetching => p.objectDots >= p.objectEarlyDots
  PROVE  ObjectInv(ReadObjectRowIfDue(p))
<1> DEFINE u == [p EXCEPT !.objectLowRead = TRUE]
           q == ReadObjectRowIfDue(p)
           low == p.objectFetching /\ p.objectDots = kObjectDataDots - 1 + p.objectEarlyDots
           high == p.objectFetching /\ p.objectDots = kObjectDataHighDots - 1 + p.objectEarlyDots
<1>1. /\ low => q = u
      /\ ~low /\ high => q = MergeObject(p)
      /\ ~low /\ ~high => q = p
  <2> DEFINE m == MergeObject(p)
  <2>1. q = CASE low -> u [] high -> m [] OTHER -> p
    BY DEF ReadObjectRowIfDue
  <2>2. ~(low /\ high)
    <3>1. p.objectFetching => p.objectDots \in Nat /\ p.objectEarlyDots \in Nat
      BY DEF FetchIsLast
    <3>2. QED
      BY <3>1 DEF kObjectDataDots, kObjectDataHighDots
  <2> HIDE DEF q, u, m, low, high
  <2>3. /\ low => q = u
        /\ ~low /\ high => q = m
        /\ ~low /\ ~high => q = p
    BY <2>1, <2>2
  <2>4. QED
    BY <2>3 DEF m
<1>2. p.objectFetching => p.objectDots \in Nat /\ p.objectEarlyDots \in Nat
  BY DEF FetchIsLast
<1>3. CASE low
  <2>1. ObjectInv(p)
    <3>1. MergeIsAhead(p)
      BY <1>2, <1>3 DEF MergeIsAhead, kObjectDataDots
    <3>2. QED
      BY <3>1 DEF ObjectInv
  <2>2. SameObjects(p, u)
    BY DEF SameObjects, Drawn
  <2> HIDE DEF u
  <2>3. QED
    BY <1>1, <1>3, <2>1, <2>2, SameInvObjects
<1>4. CASE ~low /\ high
  <2>1. q = MergeObject(p) /\ p.objectFetching
    BY <1>1, <1>4
  <2> HIDE DEF q
  <2>2. DrawnInOrder(q) /\ FetchIsLast(q) /\ SlotsAreOwned(q) /\ ~q.objectFetching
    BY <2>1, MergeOwns
  <2>3. QED
    BY <2>2 DEF ObjectInv, MergeIsAhead, q
<1>5. CASE ~low /\ ~high
  <2>1. p.objectFetching => p.objectDots > p.objectEarlyDots
    <3> SUFFICES ASSUME p.objectFetching PROVE p.objectDots > p.objectEarlyDots
      OBVIOUS
    <3>1. p.objectDots # 0 + p.objectEarlyDots
      BY <1>5 DEF kObjectDataHighDots
    <3>2. QED
      BY <1>2, <3>1
  <2>2. QED
    BY <1>1, <1>5, <2>1 DEF ObjectInv, MergeIsAhead
<1>6. QED
  BY <1>3, <1>4, <1>5

LEMMA StallOwns ==
  ASSUME LineTyped, NEW b, NEW u, ObjectInv(b), b.objectDots > 0, Drawn(u), CountedDown(b, u)
  PROVE  ObjectInv(ReadObjectRowIfDue(u))
<1>1. DrawnInOrder(u)
  BY DEF ObjectInv, DrawnInOrder, CountedDown
<1>2. FetchIsLast(u)
  BY DEF ObjectInv, FetchIsLast, CountedDown
<1>3. SlotsAreOwned(u)
  <2>1. Merged(u) = Merged(b)
    BY DEF Merged, CountedDown
  <2>2. QED
    BY <2>1 DEF ObjectInv, SlotsAreOwned, SlotIsOwned, CountedDown
<1>4. u.objectFetching => u.objectDots >= u.objectEarlyDots
  <2> SUFFICES ASSUME b.objectFetching PROVE b.objectDots - 1 >= b.objectEarlyDots
    BY DEF CountedDown
  <2>1. b.objectDots \in Nat /\ b.objectEarlyDots \in Nat /\ b.objectDots > b.objectEarlyDots
    BY DEF ObjectInv, FetchIsLast, MergeIsAhead
  <2>2. QED
    BY <2>1
<1>5. QED
  BY <1>1, <1>2, <1>3, <1>4, ReadOwns

LEMMA SmallerOf ==
  ASSUME NEW a \in Int, NEW b \in Int
  PROVE  Smaller(a, b) \in Int /\ Smaller(a, b) <= b /\ (Smaller(a, b) = a \/ Smaller(a, b) = b)
BY DEF Smaller

\* The dots of an object: six at least.
LEMMA PenaltyIsWhole ==
  ASSUME LineTyped, NEW x \in 0 .. 255, NEW lastTile
  PROVE  ObjectPenalty(x, regs, lastTile) \in Nat /\ ObjectPenalty(x, regs, lastTile) >= 6
<1> DEFINE toTheRight == 7 - ((regs.scx + x - 8) % 8)
           more == IF toTheRight > 2 THEN toTheRight - 2 ELSE 0
<1>1. ObjectPenalty(x, regs, lastTile) =
        CASE PenaltyTile(x, regs) = lastTile -> 6
          [] PenaltyTile(x, regs) # lastTile /\ x = 0 -> 11
          [] OTHER -> 6 + more
  BY DEF ObjectPenalty, kObjectFetchDots
<1>2. (regs.scx + x - 8) % 8 \in 0 .. 7
  <2>1. regs.scx + x - 8 \in Int
    BY LineFacts
  <2>2. QED
    BY <2>1
<1>3. more \in Nat
  BY <1>2
<1> HIDE DEF more
<1>4. QED
  BY <1>1, <1>3

\* The next object in order is fetched, when none is under way.
LEMMA BeginOwns ==
  ASSUME LineTyped, NEW b, NEW u, ObjectInv(b), b.objectDots = 0, regs.objOn,
         ObjectsDue(b) # {}, Drawn(u), Begun(b, FirstOf(ObjectsDue(b)), u)
  PROVE  ObjectInv(ReadObjectRowIfDue(u))
<1> DEFINE k == FirstOf(ObjectsDue(b))
<1>1. /\ b.pixelX \in Nat /\ b.drawn \subseteq DOMAIN objects
      /\ \A j \in b.drawn : TriggerX(j) <= b.pixelX
      /\ \A j \in DOMAIN objects : TriggerX(j) < b.pixelX => j \in b.drawn
      /\ \A j \in b.drawn : \A n \in DOMAIN objects \ b.drawn : Ahead(j, n)
  BY DEF ObjectInv, DrawnInOrder
<1>2. \A j : j \in ObjectsDue(b) <=>
              j \in DOMAIN objects /\ j \notin b.drawn /\ TriggerX(j) = b.pixelX
  BY <1>1, DueIsMet
<1>3. k \in ObjectsDue(b) /\ \A j \in ObjectsDue(b) : k <= j
  <2>1. ObjectsDue(b) \subseteq DOMAIN objects
    BY <1>2
  <2>2. QED
    BY <2>1, FirstIsLeast
<1> HIDE DEF k
<1>4. /\ DOMAIN u = DOMAIN b /\ u.drawn = b.drawn \cup {k} /\ u.objectIndex = k
      /\ u.objectFetching = TRUE /\ u.slots = b.slots /\ u.pixelX = b.pixelX
      /\ u.penaltyStarted = TRUE
  BY DEF Begun, k
<1>5. k \in DOMAIN objects /\ k \notin b.drawn /\ TriggerX(k) = b.pixelX
  BY <1>2, <1>3
<1>6. ~b.objectFetching
  <2> SUFFICES ASSUME b.objectFetching PROVE FALSE
    OBVIOUS
  <2>1. b.objectEarlyDots \in Nat /\ b.objectDots > b.objectEarlyDots
    BY DEF ObjectInv, FetchIsLast, MergeIsAhead
  <2>2. QED
    BY <2>1
<1>7. DrawnInOrder(u)
  <2>1. \A j \in u.drawn : TriggerX(j) <= u.pixelX
    BY <1>1, <1>4, <1>5
  <2>2. ASSUME NEW n \in DOMAIN objects \ u.drawn PROVE Ahead(k, n)
    <3>1. n \in DOMAIN objects /\ n \notin b.drawn /\ n # k
      BY <1>4, <2>2
    <3>2. TriggerX(n) \in Nat /\ n \in Nat /\ k \in Nat /\ ~(TriggerX(n) < b.pixelX)
      BY <1>1, <1>5, <3>1, ObjectFacts
    <3>3. TriggerX(n) = b.pixelX => k <= n
      BY <1>2, <1>3, <3>1
    <3>4. TriggerX(k) < TriggerX(n) \/ (TriggerX(k) = TriggerX(n) /\ k < n)
      BY <1>1, <1>5, <3>1, <3>2, <3>3
    <3>5. QED
      BY <3>4 DEF Ahead
  <2>3. \A j \in u.drawn : \A n \in DOMAIN objects \ u.drawn : Ahead(j, n)
    BY <1>1, <1>4, <2>2
  <2>4. QED
    BY <1>1, <1>4, <1>5, <2>1, <2>3 DEF DrawnInOrder
<1> DEFINE o == objects[k]
           dots == ObjectPenalty(o, regs, b.lastTile)
           early == IF 8 - o > 0 THEN Smaller(8 - o, dots - 3) ELSE 0
<1>8. u.objectDots = dots - 1 /\ u.objectEarlyDots = early
  BY DEF Begun, k, kObjectDataDots
<1>9. dots \in Nat /\ dots >= 6 /\ o \in 0 .. 255
  BY <1>5, ObjectFacts, PenaltyIsWhole
<1> HIDE DEF dots, o
<1>10. early \in Nat /\ early <= dots - 3
  <2>1. Smaller(8 - o, dots - 3) \in Int /\ Smaller(8 - o, dots - 3) <= dots - 3
        /\ (Smaller(8 - o, dots - 3) = 8 - o \/ Smaller(8 - o, dots - 3) = dots - 3)
    BY <1>9, SmallerOf
  <2>2. QED
    BY <1>9, <2>1
<1> HIDE DEF early
<1>11. FetchIsLast(u)
  <2>1. u.objectDots \in Nat /\ u.objectEarlyDots \in Nat
    BY <1>8, <1>9, <1>10
  <2>2. \A j \in u.drawn : j = k \/ Ahead(j, k)
    BY <1>1, <1>4, <1>5
  <2>3. QED
    BY <1>4, <1>5, <2>1, <2>2 DEF FetchIsLast
<1>12. SlotsAreOwned(u)
  <2>1. Merged(u) = b.drawn /\ Merged(b) = b.drawn
    BY <1>4, <1>5, <1>6 DEF Merged
  <2>2. QED
    BY <1>4, <2>1 DEF ObjectInv, SlotsAreOwned, SlotIsOwned
<1>13. u.objectDots >= u.objectEarlyDots
  BY <1>8, <1>9, <1>10
<1>14. QED
  BY <1>7, <1>11, <1>12, <1>13, ReadOwns

\* The object over a pixel: the one that owns its slot, with all that cover it merged.
LEMMA OwnerIsReference ==
  ASSUME LineTyped, NEW p, DrawnInOrder(p), ~p.objectFetching, SlotsAreOwned(p),
         regs.objOn => ObjectsDue(p) = {}
  PROVE  (IF regs.objOn THEN p.slots[0] ELSE NoObject) = ReferenceObject(p.pixelX)
<1> DEFINE x == p.pixelX
           covering == {j \in DOMAIN objects : x + 8 \in objects[j] .. objects[j] + 7}
           before(j, n) == TriggerX(j) < TriggerX(n) \/ (TriggerX(j) = TriggerX(n) /\ j <= n)
           owner == CHOOSE j \in covering : \A n \in covering : before(j, n)
<1>1. ReferenceObject(x) = IF covering = {} \/ ~regs.objOn THEN NoObject
                           ELSE [obj |-> owner, i |-> x + 8 - objects[owner]]
  BY DEF ReferenceObject
<1>2. CASE ~regs.objOn
  BY <1>1, <1>2
<1>3. CASE regs.objOn
  <2>1. x \in Nat /\ x + 0 = x /\ Merged(p) = p.drawn
    BY DEF DrawnInOrder, Merged
  <2>2. \A j : j \in covering <=> j \in DOMAIN objects /\ Covers(j, x)
    BY DEF Covers
  <2>3. covering \subseteq p.drawn
    <3> SUFFICES ASSUME NEW j \in DOMAIN objects, Covers(j, x), j \notin p.drawn PROVE FALSE
      BY <2>2
    <3>1. TriggerX(j) # x
      BY <1>3, <2>1, DueIsMet
    <3>2. ~(TriggerX(j) < x)
      BY <1>3 DEF DrawnInOrder
    <3>3. TriggerX(j) \in Nat
      BY ObjectFacts
    <3>4. TriggerX(j) > x
      BY <2>1, <3>1, <3>2, <3>3
    <3>5. QED
      BY <2>1, <3>4, ObjectFacts
  <2> HIDE DEF covering
  <2>4. SlotIsOwned(p, 0)
    BY DEF SlotsAreOwned
  <2>5. CASE p.slots[0].obj = 0
    <3>1. p.slots[0] = NoObject /\ \A j \in p.drawn : ~Covers(j, x)
      BY <2>1, <2>4, <2>5 DEF SlotIsOwned
    <3>2. covering = {}
      BY <2>2, <2>3, <3>1
    <3>3. QED
      BY <1>1, <1>3, <3>1, <3>2
  <2>6. CASE p.slots[0].obj # 0
    <3> DEFINE k == p.slots[0].obj
    <3>1. /\ k \in p.drawn /\ Covers(k, x) /\ p.slots[0] = [obj |-> k, i |-> x - (objects[k] - 8)]
          /\ \A j \in p.drawn : Covers(j, x) => j = k \/ Ahead(k, j)
      BY <2>1, <2>4, <2>6 DEF SlotIsOwned
    <3> HIDE DEF k
    <3>2. k \in DOMAIN objects /\ k \in covering
      BY <2>2, <3>1 DEF DrawnInOrder
    <3>3. \A j \in covering : before(k, j)
      <4> SUFFICES ASSUME NEW j \in covering PROVE before(k, j)
        OBVIOUS
      <4>1. j = k \/ Ahead(k, j)
        BY <2>2, <2>3, <3>1
      <4>2. k \in Nat /\ j \in Nat /\ TriggerX(k) \in Nat /\ TriggerX(j) \in Nat
        BY <2>2, <3>2, ObjectFacts
      <4>3. QED
        BY <4>1, <4>2 DEF Ahead
    <3>4. ASSUME NEW j \in covering, \A n \in covering : before(j, n) PROVE j = k
      <4>1. before(j, k) /\ before(k, j)
        BY <3>2, <3>3, <3>4
      <4>2. k \in Nat /\ j \in Nat /\ TriggerX(k) \in Nat /\ TriggerX(j) \in Nat
        BY <2>2, <3>2, <3>4, ObjectFacts
      <4>3. QED
        BY <4>1, <4>2
    <3> HIDE DEF before
    <3>5. owner = k
      BY <3>2, <3>3, <3>4
    <3>6. x - (objects[k] - 8) = x + 8 - objects[k]
      BY <2>1, <3>2, ObjectFacts
    <3> HIDE DEF owner
    <3>7. QED
      BY <1>1, <1>3, <3>1, <3>2, <3>5, <3>6
  <2>7. QED
    BY <2>5, <2>6
<1>4. QED
  BY <1>2, <1>3

\* A pixel shown takes its slot with it, and brings the next one: no object drawn so far
\* reaches that far.
LEMMA ShiftOwns ==
  ASSUME LineTyped, NEW s, NEW q, DrawnInOrder(s), ~s.objectFetching, SlotsAreOwned(s),
         FetchIsLast(s), regs.objOn => ObjectsDue(s) = {},
         q.slots = [n \in 0..7 |-> IF n < 7 THEN s.slots[n + 1] ELSE NoObject],
         q.pixelX = s.pixelX + 1, q.drawn = s.drawn, q.objectFetching = s.objectFetching,
         q.objectDots = s.objectDots, q.penaltyStarted = s.penaltyStarted
  PROVE  ObjectInv(q)
<1>1. /\ s.pixelX \in Nat /\ s.drawn \subseteq DOMAIN objects /\ (~regs.objOn => s.drawn = {})
      /\ (\A k \in s.drawn : TriggerX(k) <= s.pixelX)
      /\ (regs.objOn => \A k \in DOMAIN objects : TriggerX(k) < s.pixelX => k \in s.drawn)
      /\ (\A j \in s.drawn : \A k \in DOMAIN objects \ s.drawn : Ahead(j, k))
  BY DEF DrawnInOrder
<1>2. Merged(s) = s.drawn /\ Merged(q) = s.drawn
  BY DEF Merged
<1>3. DrawnInOrder(q)
  <2>1. ASSUME NEW k \in s.drawn PROVE TriggerX(k) <= s.pixelX + 1
    <3>1. TriggerX(k) \in Nat /\ TriggerX(k) <= s.pixelX
      BY <1>1, ObjectFacts
    <3>2. QED
      BY <1>1, <3>1
  <2>2. ASSUME regs.objOn, NEW k \in DOMAIN objects, TriggerX(k) < s.pixelX + 1
        PROVE  k \in s.drawn
    <3>1. TriggerX(k) \in Nat
      BY ObjectFacts
    <3>2. TriggerX(k) = s.pixelX \/ TriggerX(k) < s.pixelX
      BY <1>1, <2>2, <3>1
    <3>3. TriggerX(k) = s.pixelX => k \in s.drawn
      BY <1>1, <2>2, DueIsMet
    <3>4. QED
      BY <1>1, <2>2, <3>2, <3>3
  <2>3. q.pixelX \in Nat
    BY <1>1
  <2>4. QED
    BY <1>1, <2>1, <2>2, <2>3 DEF DrawnInOrder
<1>4. ASSUME NEW n \in 0 .. 7 PROVE SlotIsOwned(q, n)
  <2>1. CASE n < 7
    <3>1. n + 1 \in 0 .. 7 /\ q.pixelX + n = s.pixelX + (n + 1)
      BY <1>1, <2>1
    <3>2. q.slots[n] = s.slots[n + 1]
      BY <2>1
    <3>3. SlotIsOwned(s, n + 1)
      BY <3>1 DEF SlotsAreOwned
    <3> DEFINE x == s.pixelX + (n + 1)
    <3>4. q.pixelX + n = x
      BY <3>1
    <3> HIDE DEF x
    <3>5. LET k == s.slots[n + 1].obj
          IN IF k = 0 THEN s.slots[n + 1] = NoObject /\ \A j \in s.drawn : ~Covers(j, x)
             ELSE /\ k \in s.drawn /\ Covers(k, x)
                  /\ s.slots[n + 1] = [obj |-> k, i |-> x - (objects[k] - 8)]
                  /\ \A j \in s.drawn : Covers(j, x) => j = k \/ Ahead(k, j)
      BY <1>2, <3>3 DEF SlotIsOwned, x
    <3>6. QED
      BY <1>2, <3>2, <3>4, <3>5 DEF SlotIsOwned
  <2>2. CASE ~(n < 7)
    <3>1. n = 7 /\ q.slots[n] = NoObject /\ q.pixelX + n = s.pixelX + 8
      BY <1>1, <2>2
    <3>2. \A j \in s.drawn : ~Covers(j, s.pixelX + 8)
      BY <1>1, ObjectFacts
    <3>3. NoObject.obj = 0
      BY DEF NoObject
    <3>4. QED
      BY <1>2, <3>1, <3>2, <3>3 DEF SlotIsOwned
  <2>3. QED
    BY <2>1, <2>2
<1>5. FetchIsLast(q) /\ MergeIsAhead(q)
  BY DEF FetchIsLast, MergeIsAhead
<1>6. QED
  BY <1>3, <1>4, <1>5 DEF ObjectInv, SlotsAreOwned

\* A dot of drawing keeps the objects, and the object shown is the reference's.
LEMMA DrawOwns ==
  ASSUME LineTyped, NEW b, NEW s, NEW q, NEW due \in BOOLEAN, ObjectInv(b), ~(b.objectDots > 0),
         regs.objOn /\ due => ObjectsDue(b) = {} \/ b.objectDots # 0,
         Drawn(s), Spared(b, s), q = EmitPixel(s, regs.objOn), ~due => s.queue = <<>>
  PROVE  /\ ObjectInv(q) /\ q.objSelect = b.objSelect /\ q.wxPipe = b.wxPipe
         /\ Shown(s, q, regs.objOn) => q.out.object = ReferenceObject(s.pixelX)
<1>1. ObjectInv(s) /\ s.objSelect = b.objSelect /\ s.wxPipe = b.wxPipe
  BY SameInvObjects DEF Spared, SameView
<1>2. ~s.objectFetching
  <2> SUFFICES ASSUME s.objectFetching PROVE FALSE
    OBVIOUS
  <2>1. s.objectEarlyDots \in Nat /\ s.objectDots > s.objectEarlyDots /\ s.objectDots = b.objectDots
        /\ s.objectDots \in Nat
    BY <1>1 DEF ObjectInv, FetchIsLast, MergeIsAhead, Spared, SameObjects
  <2>2. QED
    BY <2>1
<1>3. due /\ regs.objOn => ObjectsDue(s) = {}
  <2>1. b.objectDots = 0
    <3>1. b.objectDots \in Nat
      BY DEF ObjectInv, FetchIsLast
    <3>2. QED
      BY <3>1
  <2>2. ObjectsDue(s) = ObjectsDue(b)
    BY DEF ObjectsDue, Spared, SameObjects
  <2>3. QED
    BY <2>1, <2>2
<1>4. DrawnInOrder(s) /\ FetchIsLast(s) /\ SlotsAreOwned(s)
  BY <1>1 DEF ObjectInv
<1>5. ASSUME Shown(s, q, regs.objOn) PROVE q.out.object = ReferenceObject(s.pixelX)
  <2>1. due
    BY <1>5 DEF Shown
  <2>2. QED
    BY <1>2, <1>3, <1>4, <1>5, <2>1, OwnerIsReference DEF Shown
<1> DEFINE shifted == [k \in 0..7 |-> IF k < 7 THEN s.slots[k + 1] ELSE NoObject]
           shown == [x |-> s.pixelX, pixel |-> Head(s.queue),
                     object |-> IF regs.objOn THEN s.slots[0] ELSE NoObject]
           rest == Tail(s.queue)
           u == [s EXCEPT !.streamStarted = TRUE, !.queue = rest]
<1>6. \/ q = s
      \/ q = [u EXCEPT !.discard = @ - 1]
      \/ s.queue # <<>> /\ q = [u EXCEPT !.pixelX = @ + 1, !.windowX = @ + 1,
                                         !.slots = shifted, !.out = shown]
  BY DEF EmitPixel
<1>7. CASE q = s
  BY <1>1, <1>5, <1>7
<1> HIDE DEF rest
<1>8. CASE q = [u EXCEPT !.discard = @ - 1]
  <2>1. SameObjects(s, q) /\ q.objSelect = s.objSelect /\ q.wxPipe = s.wxPipe
    BY <1>8 DEF Drawn, SameObjects
  <2>2. QED
    BY <1>1, <1>5, <2>1, SameInvObjects
<1>9. CASE s.queue # <<>> /\ q = [u EXCEPT !.pixelX = @ + 1, !.windowX = @ + 1,
                                           !.slots = shifted, !.out = shown]
  <2> HIDE DEF shifted, shown
  <2>1. /\ q.objSelect = s.objSelect /\ q.wxPipe = s.wxPipe /\ q.slots = shifted
        /\ q.pixelX = s.pixelX + 1 /\ q.drawn = s.drawn /\ q.objectFetching = s.objectFetching
        /\ q.objectDots = s.objectDots /\ q.penaltyStarted = s.penaltyStarted
    BY <1>9 DEF Drawn
  <2>2. due
    BY <1>9
  <2>3. ObjectInv(q)
    BY <1>2, <1>3, <1>4, <2>1, <2>2, ShiftOwns DEF shifted
  <2>4. QED
    BY <1>1, <1>5, <2>1, <2>3
<1>10. QED
  BY <1>6, <1>7, <1>8, <1>9

-----------------------------------------------------------------------------
(* The line.                                                               *)

\* What a pixel shown is to be.
OutIsReference(p) ==
  p.out # NoPixel =>
    p.out.pixel = ReferencePixel(p.out.x) /\ p.out.object = ReferenceObject(p.out.x)

\* A line whose registers have not changed.
Picture(p) ==
  /\ Drawn(p) /\ PipeInv(p) /\ FeedInv(p) /\ ObjectInv(p) /\ SettledInv(p)
  /\ OutIsReference(p)

\* Every dot of a line whose registers are left alone.
LEMMA DotPictures ==
  ASSUME LineTyped, NEW p, Picture(p)
  PROVE  Picture(StepPipeline(p, regs))
<1> DEFINE q == StepPipeline(p, regs)
<1>1. /\ Drawn(p) /\ PipeInv(p) /\ FeedInv(p) /\ ObjectInv(p) /\ SettledInv(p)
      /\ (p.objectDots > 0 => p.penaltyStarted) /\ p.objectFetching \in BOOLEAN
      /\ (p.objectFetching => regs.objOn)
  BY DEF Picture, ObjectInv, FetchIsLast, DrawnInOrder
<1>2. PICK b, due : /\ Ready(p, b, due)
                    /\ Stalls(b, q) \/ StartsObject(b, due, q) \/ Draws(b, due, q)
  BY <1>1, DotForms
<1>3. PipeInv(q)
  BY <1>1, DotKeeps
<1> SUFFICES Picture(q)
  OBVIOUS
<1> HIDE DEF q
<1>4. /\ ObjectInv(b) /\ Drawn(b) /\ b.out = NoPixel /\ b.objSelect = regs.objOn
      /\ b.wxPipe = <<regs.wx, regs.wx>>
  BY <1>1, <1>2, SameInvObjects DEF Ready, Drawn
<1>5. ASSUME NEW u, Drawn(u), SameView(b, u), q = ReadObjectRowIfDue(u), FeedInv(q), ObjectInv(q)
      PROVE  Picture(q)
  <2>1. SameView(u, q) /\ DOMAIN q = DOMAIN u
    BY <1>5, ReadSameStream
  <2>2. Drawn(q) /\ q.out = NoPixel /\ SettledInv(q)
    BY <1>4, <1>5, <2>1 DEF Drawn, SameView, SettledInv
  <2>3. QED
    BY <1>3, <1>5, <2>2 DEF Picture, OutIsReference
<1>6. CASE Stalls(b, q)
  <2>1. PICK u : /\ q = ReadObjectRowIfDue(u) /\ Drawn(u) /\ CountedDown(b, u) /\ SameView(b, u)
                 /\ FeedInv(q)
    BY <1>1, <1>2, <1>6, StallFeeds
  <2>2. ObjectInv(q)
    BY <1>4, <1>6, <2>1, StallOwns DEF Stalls
  <2>3. QED
    BY <1>5, <2>1, <2>2
<1>7. CASE StartsObject(b, due, q)
  <2>1. PICK u : /\ q = ReadObjectRowIfDue(u) /\ Drawn(u) /\ SameView(b, u) /\ FeedInv(q)
                 /\ Begun(b, FirstOf(ObjectsDue(b)), u)
    BY <1>1, <1>2, <1>7, StartObjectFeeds
  <2>2. ObjectInv(q)
    BY <1>4, <1>7, <2>1, BeginOwns DEF StartsObject
  <2>3. QED
    BY <1>5, <2>1, <2>2
<1>8. CASE Draws(b, due, q)
  <2>1. FeedInv(q) /\ DOMAIN q = DOMAIN b
    BY <1>1, <1>2, <1>8, DrawFeeds
  <2>2. PICK s : /\ q = EmitPixel(s, regs.objOn) /\ Drawn(s) /\ Spared(b, s)
                 /\ q.out = NoPixel \/ Shown(s, q, regs.objOn)
                 /\ ~due => s.queue = <<>>
    BY <1>1, <1>2, <1>8, DrawFeeds
  <2>3. /\ ObjectInv(q) /\ q.objSelect = b.objSelect /\ q.wxPipe = b.wxPipe
        /\ Shown(s, q, regs.objOn) => q.out.object = ReferenceObject(s.pixelX)
    BY <1>2, <1>4, <1>8, <2>2, DrawOwns DEF Draws, Ready
  <2>4. Drawn(q) /\ SettledInv(q)
    BY <1>4, <2>1, <2>3 DEF Drawn, SettledInv
  <2>5. OutIsReference(q)
    BY <2>2, <2>3 DEF OutIsReference, Shown
  <2>6. QED
    BY <1>3, <2>1, <2>3, <2>4, <2>5 DEF Picture
<1>9. QED
  BY <1>2, <1>6, <1>7, <1>8

\* The line's start.
LEMMA StartPictures ==
  ASSUME LineTyped PROVE Picture(StartLine(regs))
<1> DEFINE p == StartLine(regs)
<1>1. /\ Drawn(p) /\ p.step = "Tile" /\ p.stepDots = 0 /\ p.pushed = FALSE /\ p.fetchReset
      /\ p.fetcherX = 0 /\ p.discardFetch /\ p.queue = <<>> /\ p.fifoFed = FALSE
      /\ p.fifoLead = 0 /\ p.pixelX = 0 /\ p.discard = 0 /\ p.streamStarted = FALSE
      /\ p.window = FALSE /\ p.windowX = 0 /\ p.headStart = FALSE /\ p.comparedX = -1
      /\ p.lead = 5 /\ p.wxPipe = <<regs.wx, regs.wx>> /\ p.windowLine = 0
      /\ p.slots = [k \in 0..7 |-> NoObject] /\ p.drawn = {} /\ p.objectDots = 0
      /\ p.objectFetching = FALSE /\ p.objectLeadDots = 0 /\ p.penaltyStarted = FALSE
      /\ p.out = NoPixel
  BY DEF StartLine, Drawn, kWindowCounterLeadDots
<1>2. PipeInv(p)
  BY StartKeeps
<1> HIDE DEF p
<1>3. Prefetching(p, 0)
  <2>1. FetchedDots(p) = 0 /\ CountedDots(p) = 0
    BY <1>1 DEF FetchedDots, CountedDots
  <2>2. ComparedOnce(p) /\ RowIsNext(p)
    BY <1>1 DEF ComparedOnce, RowIsNext
  <2>3. p.comparedX # regs.wx
    BY <1>1, WxTyped
  <2>4. QED
    BY <1>1, <2>1, <2>2, <2>3 DEF Prefetching
<1>4. FeedInv(p)
  <2>1. NotYet(p)
    BY <1>1, WxTyped DEF NotYet
  <2>2. QED
    <3>1. p.window \in BOOLEAN
      BY <1>1, Zenon
    <3>2. QED
      BY <1>1, <1>3, <2>1, <3>1 DEF FeedInv
<1>5. ObjectInv(p)
  <2>1. DrawnInOrder(p)
    <3>1. \A k \in DOMAIN objects : ~(TriggerX(k) < 0)
      BY ObjectFacts
    <3>2. QED
      BY <1>1, <3>1 DEF DrawnInOrder
  <2>2. FetchIsLast(p) /\ MergeIsAhead(p)
    <3>1. p.objectFetching \in BOOLEAN /\ ~p.objectFetching
      BY <1>1, Zenon
    <3>2. p.objectDots \in Nat /\ ~(p.objectDots > 0)
      BY <1>1
    <3>3. QED
      BY <3>1, <3>2 DEF FetchIsLast, MergeIsAhead
  <2>3. SlotsAreOwned(p)
    BY <1>1 DEF SlotsAreOwned, SlotIsOwned, Merged, NoObject
  <2>4. QED
    BY <2>1, <2>2, <2>3 DEF ObjectInv
<1>6. SettledInv(p) /\ OutIsReference(p)
  BY <1>1 DEF SettledInv, OutIsReference
<1>7. QED
  BY <1>1, <1>2, <1>4, <1>5, <1>6 DEF Picture, p

\* Each phase of the line, a step later.
LEMMA PhasesMove ==
  ASSUME regs' = regs, objects' = objects
  PROVE  /\ Prefetching(pipe', 0) => Prefetching(pipe, 0)'
         /\ Streaming(pipe', 0) => Streaming(pipe, 0)'
         /\ InWindow(pipe') => InWindow(pipe)'
         /\ NotYet(pipe') => NotYet(pipe)'
         /\ NotMet(pipe') => NotMet(pipe)'
<1>1. RowIsNext(pipe') => RowIsNext(pipe)'
  BY DEF RowIsNext, Row, FirstColumn
<1>2. /\ ZeroPut(pipe)' <=> ZeroPut(pipe')
      /\ ZeroAhead(pipe)' <=> ZeroAhead(pipe')
      /\ ComparedOnce(pipe)' <=> ComparedOnce(pipe')
  BY DEF ZeroPut, ZeroAhead, LeavesZero, Start, ComparedOnce, WindowEnabled
<1>3. StreamIsPlaced(pipe') => StreamIsPlaced(pipe)'
  BY DEF StreamIsPlaced, Offset, ZeroPut, LeavesZero, Start, Fine, Placed
<1>4. QueueIsNext(pipe') => QueueIsNext(pipe)'
  BY DEF QueueIsNext, Row, PixelAt, ZeroAhead, ZeroPut, LeavesZero, Start, ZeroPixel
<1>5. Prefetching(pipe', 0) => Prefetching(pipe, 0)'
  BY <1>1, <1>2 DEF Prefetching, FetchedDots, CountedDots, Place, Fine
<1>6. Streaming(pipe', 0) => Streaming(pipe, 0)'
  BY <1>1, <1>2, <1>3, <1>4 DEF Streaming, Fed, Distance, Gained, Start
<1>7. InWindow(pipe') => InWindow(pipe)'
  BY <1>1, <1>3, <1>4 DEF InWindow, Start, WindowEnabled
<1>8. (NotYet(pipe') => NotYet(pipe)') /\ (NotMet(pipe') => NotMet(pipe)')
  BY DEF NotYet, NotMet
<1>9. QED
  BY <1>5, <1>6, <1>7, <1>8

\* Nothing of a line but the pipeline's own state moves while its registers stay.
LEMMA PictureMoves ==
  ASSUME LineTyped, regs' = regs, objects' = objects, Picture(pipe')
  PROVE  LineTyped' /\ Picture(pipe)'
<1>1. LineTyped'
  BY DEF LineTyped
<1>2. Drawn(pipe)' /\ PipeInv(pipe)'
  BY DEF Picture, Drawn, PipeInv, Shaped, FetchedWhole, Layer, SlotsInPlace
<1>3. SettledInv(pipe)'
  BY DEF Picture, SettledInv
<1>4. ObjectInv(pipe)'
  <2>1. DrawnInOrder(pipe)'
    BY DEF Picture, ObjectInv, DrawnInOrder, Ahead, TriggerX
  <2>2. FetchIsLast(pipe)' /\ MergeIsAhead(pipe)'
    BY DEF Picture, ObjectInv, FetchIsLast, MergeIsAhead, Ahead, TriggerX
  <2>3. SlotsAreOwned(pipe)'
    BY DEF Picture, ObjectInv, SlotsAreOwned, SlotIsOwned, Merged, Covers, Ahead, TriggerX
  <2>4. QED
    BY <2>1, <2>2, <2>3 DEF ObjectInv
<1>5. FeedInv(pipe)'
  BY PhasesMove DEF Picture, FeedInv
<1>6. OutIsReference(pipe)'
  <2>1. ReferencePixel(pipe'.out.x) = ReferencePixel(pipe.out.x)'
    BY DEF ReferencePixel, WindowPixel, BackgroundPixel, PixelAt, LeavesZero, Start, WindowEnabled
  <2>2. ReferenceObject(pipe'.out.x) = ReferenceObject(pipe.out.x)'
    BY DEF ReferenceObject, TriggerX
  <2>3. QED
    BY <2>1, <2>2 DEF Picture, OutIsReference
<1>7. QED
  BY <1>1, <1>2, <1>3, <1>4, <1>5, <1>6 DEF Picture

\* The inductive invariant: until a register is written, the line keeps the picture's.
LineInv ==
  /\ lineWrites \in Nat
  /\ LineUndisturbed => LineTyped /\ Picture(pipe)

LEMMA LineStarts == LineInit => LineInv
<1> SUFFICES ASSUME LineInit PROVE LineInv
  OBVIOUS
<1>1. LineTyped
  <2>1. regs \in Registers /\ objects \in ObjectLists
    BY DEF LineInit
  <2>2. QED
    BY <2>1, LineAssumption DEF Registers, LineTyped
<1>2. pipe = StartLine(regs) /\ lineWrites = 0
  BY DEF LineInit
<1>3. QED
  BY <1>1, <1>2, StartPictures DEF LineInv

\* A write ends what is claimed of the line; every other step keeps it.
LEMMA LineKeepsPicture == LineInv /\ [LineNext]_lineVars => LineInv'
<1> SUFFICES ASSUME LineInv, [LineNext]_lineVars PROVE LineInv'
  OBVIOUS
<1>1. ASSUME regs' = regs, objects' = objects, lineWrites' = lineWrites,
             LineTyped /\ Picture(pipe) => Picture(pipe')
      PROVE  LineInv'
  BY <1>1, PictureMoves DEF LineInv, LineUndisturbed
<1>2. CASE LagDot
  <2>1. /\ regs' = regs /\ objects' = objects /\ lineWrites' = lineWrites
        /\ pipe' = StartLine(regs) \/ pipe' = pipe
    BY <1>2 DEF LagDot, DotPasses
  <2>2. QED
    BY <1>1, <2>1, StartPictures
<1>3. CASE DrawDot
  <2>1. /\ regs' = regs /\ objects' = objects /\ lineWrites' = lineWrites
        /\ pipe' = StepPipeline(pipe, regs)
    BY <1>3 DEF DrawDot, DotPasses
  <2>2. QED
    BY <1>1, <2>1, DotPictures
<1>4. CASE WriteRegister
  <2>1. lineWrites' = lineWrites + 1
    BY <1>4 DEF WriteRegister
  <2>2. QED
    BY <2>1 DEF LineInv, LineUndisturbed
<1>5. CASE UNCHANGED lineVars
  <2>1. regs' = regs /\ objects' = objects /\ lineWrites' = lineWrites /\ pipe' = pipe
    BY <1>5 DEF lineVars
  <2>2. QED
    BY <1>1, <2>1
<1>6. QED
  BY <1>2, <1>3, <1>4, <1>5 DEF LineNext

\* On any line whose registers are left alone, every pixel shown is the one the registers ask
\* for at its X and the object over it is the first to be fetched of those that cover it, for
\* any SCX, WX and objects, whatever stalls, restarts and discards there are on the way
\* (PixelPipeline.cpp: the fetcher, the window's counter, the objects' fetches).
THEOREM PictureIsTheReferenceAlways == LineSpec => []PictureIsTheReference
<1>1. LineInv => PictureIsTheReference
  BY DEF LineInv, Picture, OutIsReference, PictureIsTheReference
<1>2. QED
  BY <1>1, LineStarts, LineKeepsPicture, PTL DEF LineSpec

-----------------------------------------------------------------------------
(* The length of mode 3, on a line whose registers are left alone.  First    *)
(* the objects' dots: what their sum is, object by object.                   *)

\* The dots of the objects in S, given those of any fewer.
DotsOf(r, f, S) ==
  LET k == FirstFetched(S)
  IN [tile \in Int |->
        IF S = {} THEN 0
        ELSE ObjectPenalty(objects[k], r, tile) + f[S \ {k}][PenaltyTile(objects[k], r)]]

\* Some function adds them up.
LEMMA PenaltiesAreSums ==
  ASSUME NEW r, \E f : f = [S \in SUBSET DOMAIN objects |-> DotsOf(r, f, S)]
  PROVE  Penalties(r) = [S \in SUBSET DOMAIN objects |-> DotsOf(r, Penalties(r), S)]
<1>1. Penalties(r) = CHOOSE f : f = [S \in SUBSET DOMAIN objects |-> DotsOf(r, f, S)]
  BY DEF Penalties, DotsOf
<1>2. QED
  BY <1>1

\* The object fetched first of some is one of them.
LEMMA FirstOfThem ==
  ASSUME LineTyped, NEW S \in SUBSET DOMAIN objects, S # {}
  PROVE  /\ FirstFetched(S) \in S
         /\ \A j \in S : j = FirstFetched(S) \/ Ahead(FirstFetched(S), j)
<1> DEFINE X == {TriggerX(k) : k \in S}
<1>1. X \in SUBSET Nat /\ X # {}
  BY ObjectFacts
<1>2. PICK x \in X : \A y \in X : x <= y
  BY <1>1, LeastElement
<1> DEFINE T == {k \in S : TriggerX(k) = x}
<1>3. T \in SUBSET Nat /\ T # {}
  BY ObjectFacts, <1>2
<1>4. PICK k \in T : \A j \in T : k <= j
  BY <1>3, LeastElement
<1>5. \A j \in S : TriggerX(k) < TriggerX(j) \/ (TriggerX(k) = TriggerX(j) /\ k <= j)
  <2> SUFFICES ASSUME NEW j \in S
               PROVE  TriggerX(k) < TriggerX(j) \/ (TriggerX(k) = TriggerX(j) /\ k <= j)
    OBVIOUS
  <2>1. TriggerX(j) \in Nat /\ TriggerX(k) \in Nat /\ TriggerX(k) = x /\ x <= TriggerX(j)
    BY <1>2, <1>4, ObjectFacts
  <2>2. CASE TriggerX(j) = x
    BY <1>4, <2>1, <2>2
  <2>3. QED
    BY <2>1, <2>2
<1>6. /\ FirstFetched(S) \in S
      /\ \A j \in S : \/ TriggerX(FirstFetched(S)) < TriggerX(j)
                      \/ TriggerX(FirstFetched(S)) = TriggerX(j) /\ FirstFetched(S) <= j
  BY <1>4, <1>5 DEF FirstFetched
<1>7. ASSUME NEW j \in S PROVE j = FirstFetched(S) \/ Ahead(FirstFetched(S), j)
  <2>1. j \in Nat /\ FirstFetched(S) \in Nat
    BY <1>6, ObjectFacts
  <2>2. QED
    BY <1>6, <2>1 DEF Ahead
<1>8. QED
  BY <1>6, <1>7

\* A set of objects without one of them.
LEMMA FewerObjects ==
  ASSUME LineTyped, NEW S \in SUBSET DOMAIN objects
  PROVE  /\ IsFiniteSet(S) /\ Cardinality(S) \in Nat
         /\ Cardinality(S) <= Cardinality(DOMAIN objects) /\ Cardinality(DOMAIN objects) \in Nat
         /\ S # {} => Cardinality(S \ {FirstFetched(S)}) = Cardinality(S) - 1
         /\ S # {} => Cardinality(S) # 0
<1>1. IsFiniteSet(DOMAIN objects)
  BY FS_Interval DEF LineTyped
<1>2. IsFiniteSet(S) /\ Cardinality(S) \in Nat /\ Cardinality(DOMAIN objects) \in Nat
      /\ Cardinality(S) <= Cardinality(DOMAIN objects)
  BY <1>1, FS_Subset, FS_CardinalityType
<1>3. S # {} => FirstFetched(S) \in S
  BY FirstOfThem
<1>4. QED
  BY <1>2, <1>3, FS_RemoveElement, FS_EmptySet

\* The objects' dots can be added up, for up to n of them.
Small(n) == {S \in SUBSET DOMAIN objects : Cardinality(S) <= n}
Sums(r, n) == \E f : f = [S \in Small(n) |-> DotsOf(r, f, S)]

\* Sums over sets of up to n objects come from those over smaller ones.
LEMMA SumsGrow ==
  ASSUME LineTyped, NEW r, NEW n \in Nat, n = 0 \/ Sums(r, n - 1)
  PROVE  Sums(r, n)
<1>1. PICK f : n = 0 \/ f = [S \in Small(n - 1) |-> DotsOf(r, f, S)]
  BY DEF Sums
<1> DEFINE g == [S \in Small(n) |-> DotsOf(r, f, S)]
<1>2. ASSUME NEW S \in Small(n) PROVE DotsOf(r, g, S) = DotsOf(r, f, S)
  <2>1. CASE S = {}
    BY <2>1 DEF DotsOf
  <2>2. CASE S # {}
    <3> DEFINE T == S \ {FirstFetched(S)}
    <3>1. S \in SUBSET DOMAIN objects /\ Cardinality(S) <= n
      BY DEF Small
    <3>2. Cardinality(T) = Cardinality(S) - 1 /\ Cardinality(S) \in Nat /\ Cardinality(S) # 0
      BY <2>2, <3>1, FewerObjects
    <3>3. n # 0 /\ T \in Small(n - 1) /\ T \in Small(n)
      BY <3>1, <3>2 DEF Small
    <3>4. f[T] = DotsOf(r, f, T) /\ g[T] = DotsOf(r, f, T)
      BY <1>1, <3>3
    <3> HIDE DEF g, T
    <3>5. g[T] = f[T]
      BY <3>4
    <3>6. QED
      BY <3>5 DEF DotsOf, T
  <2>3. QED
    BY <2>1, <2>2
<1>3. g = [S \in Small(n) |-> DotsOf(r, g, S)]
  BY <1>2
<1>4. QED
  BY <1>3 DEF Sums

\* The sum of the objects' dots is what the recursion says it is.
LEMMA PenaltiesDefined ==
  ASSUME LineTyped, NEW r
  PROVE  Penalties(r) = [S \in SUBSET DOMAIN objects |-> DotsOf(r, Penalties(r), S)]
<1> DEFINE Bad == {n \in Nat : ~Sums(r, n)}
<1>1. Bad = {}
  <2>1. SUFFICES ASSUME Bad # {} PROVE FALSE
    OBVIOUS
  <2>2. PICK n \in Bad : \A m \in Bad : n <= m
    BY <2>1, LeastElement
  <2>3. n = 0 \/ (n - 1 \in Nat /\ n - 1 \notin Bad)
    BY <2>2
  <2>4. QED
    BY <2>2, <2>3, SumsGrow
<1>2. Sums(r, Cardinality(DOMAIN objects))
  BY <1>1, FewerObjects
<1>3. Small(Cardinality(DOMAIN objects)) = SUBSET DOMAIN objects
  BY FewerObjects DEF Small
<1>4. QED
  BY <1>2, <1>3, PenaltiesAreSums DEF Sums

\* The tile an object is charged for.
LEMMA PenaltyTileTyped ==
  ASSUME LineTyped, NEW k \in DOMAIN objects PROVE PenaltyTile(objects[k], regs) \in Int
BY LineFacts, ObjectFacts DEF PenaltyTile

\* The first object's dots, then those of the others.
LEMMA PenaltiesUnfold ==
  ASSUME LineTyped, NEW S \in SUBSET DOMAIN objects, NEW tile \in Int
  PROVE  Penalties(regs)[S][tile]
           = IF S = {} THEN 0
             ELSE ObjectPenalty(objects[FirstFetched(S)], regs, tile)
                  + Penalties(regs)[S \ {FirstFetched(S)}]
                                   [PenaltyTile(objects[FirstFetched(S)], regs)]
<1>1. Penalties(regs)[S] = DotsOf(regs, Penalties(regs), S)
  BY PenaltiesDefined
<1> DEFINE f == Penalties(regs)
<1> HIDE DEF f
<1>2. DotsOf(regs, f, S)[tile]
           = IF S = {} THEN 0
             ELSE ObjectPenalty(objects[FirstFetched(S)], regs, tile)
                  + f[S \ {FirstFetched(S)}][PenaltyTile(objects[FirstFetched(S)], regs)]
  BY DEF DotsOf
<1>3. QED
  BY <1>1, <1>2 DEF f

\* Six dots or more, for every object.
LEMMA PenaltiesTyped ==
  ASSUME LineTyped, NEW S \in SUBSET DOMAIN objects, NEW tile \in Int
  PROVE  /\ Penalties(regs)[S][tile] \in Nat
         /\ S = {} => Penalties(regs)[S][tile] = 0
         /\ S # {} => Penalties(regs)[S][tile] >= 6
<1> DEFINE Typed0(U) == \A b \in Int : Penalties(regs)[U][b] \in Nat
           Bad == {n \in Nat : \E U \in SUBSET DOMAIN objects : Cardinality(U) = n /\ ~Typed0(U)}
<1>1. ASSUME NEW U \in SUBSET DOMAIN objects, U # {}, Typed0(U \ {FirstFetched(U)}), NEW b \in Int
      PROVE  Penalties(regs)[U][b] \in Nat /\ Penalties(regs)[U][b] >= 6
  <2> DEFINE k == FirstFetched(U)
  <2>1. k \in DOMAIN objects
    BY <1>1, FirstOfThem
  <2>2. PenaltyTile(objects[k], regs) \in Int
    BY <2>1, PenaltyTileTyped
  <2>3. /\ ObjectPenalty(objects[k], regs, b) \in Nat
        /\ ObjectPenalty(objects[k], regs, b) >= 6
    BY <2>1, ObjectFacts, PenaltyIsWhole
  <2>4. Penalties(regs)[U \ {k}][PenaltyTile(objects[k], regs)] \in Nat
    BY <1>1, <2>2
  <2>5. Penalties(regs)[U][b] = ObjectPenalty(objects[k], regs, b)
          + Penalties(regs)[U \ {k}][PenaltyTile(objects[k], regs)]
    BY <1>1, PenaltiesUnfold
  <2> HIDE DEF k
  <2>6. QED
    BY <2>3, <2>4, <2>5
<1>2. Bad = {}
  <2>1. SUFFICES ASSUME Bad # {} PROVE FALSE
    OBVIOUS
  <2>2. PICK n \in Bad : \A m \in Bad : n <= m
    BY <2>1, LeastElement
  <2>3. PICK U \in SUBSET DOMAIN objects : Cardinality(U) = n /\ ~Typed0(U)
    BY <2>2
  <2>4. CASE U = {}
    <3>1. ASSUME NEW b \in Int PROVE Penalties(regs)[U][b] = 0
      BY <2>4, PenaltiesUnfold
    <3>2. QED
      BY <2>3, <3>1
  <2>5. CASE U # {}
    <3>1. Cardinality(U \ {FirstFetched(U)}) = n - 1 /\ n \in Nat /\ n # 0
      BY <2>3, <2>5, FewerObjects
    <3>2. n - 1 \in Nat /\ n - 1 \notin Bad
      BY <2>2, <3>1
    <3>3. Typed0(U \ {FirstFetched(U)})
      BY <3>1, <3>2
    <3>4. QED
      BY <1>1, <2>3, <2>5, <3>3
  <2>6. QED
    BY <2>4, <2>5
<1>3. ASSUME NEW U \in SUBSET DOMAIN objects PROVE Typed0(U)
  <2>1. Cardinality(U) \in Nat
    BY FewerObjects
  <2>2. QED
    BY <1>2, <2>1
<1>4. S # {} => Typed0(S \ {FirstFetched(S)})
  BY <1>3
<1>5. S = {} => Penalties(regs)[S][tile] = 0
  BY PenaltiesUnfold
<1> HIDE DEF Typed0
<1>6. QED
  BY <1>1, <1>3, <1>4, <1>5 DEF Typed0
-----------------------------------------------------------------------------
(* The dots a line has left.                                               *)

\* The dots until the fetcher's row, those of the window's restart, and the pixels to throw away.
Stall(p) == IF p.queue = <<>> THEN FetchStallDots(p) ELSE 0
Opening(p) == IF ~p.window /\ WindowEnabled(regs) /\ Start < Width THEN 6 ELSE 0
Thrown(p) == IF p.discardFetch /\ p.step = "Tile" /\ p.stepDots = 0 THEN Fine ELSE p.discard
Balance(p) == Stall(p) + Opening(p) + Thrown(p)

\* Once a row is in, the next one comes n dots or more before the FIFO runs out.
Flow(p, n) ==
  /\ p.fetchReset => p.queue = <<>> /\ p.step = "Tile" /\ p.stepDots = 0
  /\ p.discardFetch => p.queue = <<>> /\ p.step \in {"Tile", "DataLow", "DataHigh"}
  /\ p.step = "Push" => ~p.pushed
  /\ p.queue # <<>> => Len(p.queue) >= FetchStallDots(p) + n
  /\ p.step = "Sleep" /\ p.pushed => Len(p.queue) >= 7 - p.stepDots + n
  /\ p.fifoLead \in Nat

\* What the fetcher and the window's counter leave alone.
SameCharges(p, q) ==
  /\ DOMAIN q = DOMAIN p /\ q.pixelX = p.pixelX /\ q.drawn = p.drawn /\ q.lastTile = p.lastTile
  /\ q.penaltyStarted = p.penaltyStarted /\ q.objectDots = p.objectDots
  /\ q.objectLeadDots = p.objectLeadDots /\ q.fifoLead = p.fifoLead

\* The dots the fetcher owes, step by step.
LEMMA StallIs ==
  ASSUME NEW p, p.step \in {"Tile", "DataLow", "DataHigh", "Sleep", "Push"}
  PROVE  FetchStallDots(p) = (IF p.fetchReset THEN 1 ELSE 0)
                             + (IF p.step = "Tile" THEN 5 - p.stepDots
                                ELSE IF p.step = "DataLow" THEN 3 - p.stepDots
                                ELSE IF p.step = "DataHigh" THEN 1 - p.stepDots ELSE 0)
                             + (IF p.discardFetch THEN 6 ELSE 0)
BY DEF FetchStallDots

\* Whole numbers: the dots the fetcher owes and the pixels it is ahead.
LEMMA StallTyped ==
  ASSUME NEW p, PipeInv(p)
  PROVE  /\ p.step \in {"Tile", "DataLow", "DataHigh", "Sleep", "Push"} /\ p.stepDots \in {0, 1}
         /\ FetchStallDots(p) \in Nat
         /\ Len(p.queue) \in Nat /\ (p.queue = <<>> <=> Len(p.queue) = 0)
<1>1. /\ p.step \in {"Tile", "DataLow", "DataHigh", "Sleep", "Push"} /\ p.stepDots \in {0, 1}
      /\ PixelsWhole(p.queue)
  BY DEF PipeInv, FetchedWhole
<1>2. FetchStallDots(p) \in Nat
  BY <1>1, StallIs
<1>3. PICK Pixels : p.queue \in Seq(Pixels)
  BY <1>1 DEF PixelsWhole
<1>4. QED
  BY <1>1, <1>2, <1>3

\* A row offered to the FIFO goes in when there is room.
LEMMA TryTimes ==
  ASSUME NEW p, Drawn(p), PixelsWhole(p.queue), p.fifoLead \in Nat
  PROVE  LET v == TryPushRow(p)
         IN /\ SameCharges(p, v) /\ v.window = p.window /\ v.discard = p.discard
            /\ v.discardFetch = p.discardFetch /\ v.fetchReset = p.fetchReset
            /\ v.step = p.step /\ v.stepDots = p.stepDots
            /\ Len(p.queue) \in Nat /\ Len(v.queue) \in Nat
            /\ (v.queue = <<>> <=> Len(v.queue) = 0)
            /\ \/ v.pushed /\ Len(v.queue) >= 8
               \/ v.pushed = p.pushed /\ Len(v.queue) > 0
<1> DEFINE row == [k \in 1..8 |-> [layers |-> {p.tile.layer, p.low, p.high},
                                   col |-> p.tile.col, pos |-> k - 1]]
           v == TryPushRow(p)
<1>1. PICK Pixels : p.queue \in Seq(Pixels)
  BY DEF PixelsWhole
<1>2. row \in Seq({row[k] : k \in 1 .. 8}) /\ Len(row) = 8
  OBVIOUS
<1>3. v = IF Len(p.queue) > p.fifoLead THEN p
          ELSE [p EXCEPT !.queue = p.queue \o row, !.fifoFed = TRUE,
                         !.fetcherX = p.fetcherX + 1, !.pushed = TRUE]
  BY DEF TryPushRow
<1> HIDE DEF row, v
<1>4. PICK All : p.queue \in Seq(All) /\ row \in Seq(All)
  <2>1. PICK R : row \in Seq(R)
    BY <1>2
  <2>2. p.queue \in Seq(Pixels \cup R) /\ row \in Seq(Pixels \cup R)
    BY <1>1, <2>1
  <2>3. QED
    BY <2>2
<1>5. /\ p.queue \o row \in Seq(All) /\ Len(p.queue \o row) = Len(p.queue) + 8
      /\ Len(p.queue) \in Nat
  <2>1. p.queue \o row \in Seq(All) /\ Len(p.queue \o row) = Len(p.queue) + Len(row)
    BY <1>4, JoinIn
  <2>2. Len(p.queue) \in Nat
    BY <1>4
  <2>3. QED
    BY <1>2, <2>1, <2>2
<1>6. CASE Len(p.queue) > p.fifoLead
  BY <1>1, <1>3, <1>6 DEF SameCharges, v
<1>7. CASE ~(Len(p.queue) > p.fifoLead)
  <2>1. v = [p EXCEPT !.queue = p.queue \o row, !.fifoFed = TRUE,
                      !.fetcherX = p.fetcherX + 1, !.pushed = TRUE]
    BY <1>3, <1>7
  <2>2. v.queue = p.queue \o row /\ v.pushed
    BY <2>1 DEF Drawn
  <2>3. v.queue \in Seq(All) /\ Len(v.queue) = Len(p.queue) + 8
    BY <1>5, <2>2
  <2>4. SameCharges(p, v) /\ v.window = p.window /\ v.discard = p.discard
        /\ v.discardFetch = p.discardFetch /\ v.fetchReset = p.fetchReset
        /\ v.step = p.step /\ v.stepDots = p.stepDots
    BY <2>1 DEF Drawn, SameCharges
  <2>5. Len(v.queue) \in Nat /\ Len(v.queue) >= 8 /\ (v.queue = <<>> <=> Len(v.queue) = 0)
    BY <1>5, <2>3
  <2>6. QED
    BY <1>5, <2>2, <2>4, <2>5 DEF v
<1>8. QED
  BY <1>6, <1>7

\* A dot of the fetcher: one less to its row, or the FIFO is one dot further ahead.
FetchedDot(p, s) ==
  /\ SameCharges(p, s) /\ s.window = p.window /\ Flow(s, 1) /\ Thrown(s) = Thrown(p)
  /\ ~p.discardFetch => ~s.discardFetch /\ s.discard = p.discard
  /\ IF Idle(p) THEN s.queue = <<>> /\ FetchStallDots(s) = FetchStallDots(p) - 1
     ELSE s.queue # <<>>

\* A dot that offers no row.
LEMMA PlainTimes ==
  ASSUME NEW p, NEW s, Drawn(p), PipeInv(p), PipeInv(s), Flow(p, 0),
         SameCharges(p, s), s.window = p.window,
         s.queue = p.queue, ~s.fetchReset, Thrown(s) = Thrown(p),
         s.discardFetch => p.discardFetch, ~p.discardFetch => s.discard = p.discard,
         p.queue = <<>> => s.step # "Sleep",
         s.discardFetch => s.step \in {"Tile", "DataLow", "DataHigh"},
         s.step # "Push",
         s.step = "Sleep" => p.step = "Sleep" /\ s.pushed = p.pushed /\ p.pushed
                             /\ s.stepDots = p.stepDots + 1,
         \/ FetchStallDots(s) = FetchStallDots(p) - 1
         \/ p.step = "Sleep" /\ p.pushed
            /\ FetchStallDots(s) <= 6 - p.stepDots
  PROVE  FetchedDot(p, s)
<1>1. /\ Len(p.queue) \in Nat /\ FetchStallDots(p) \in Nat /\ FetchStallDots(s) \in Nat
      /\ p.stepDots \in {0, 1} /\ s.stepDots \in {0, 1} /\ (p.queue = <<>> <=> Len(p.queue) = 0)
  BY StallTyped
<1>2. p.step = "Sleep" /\ p.pushed => Len(p.queue) >= 7 - p.stepDots
  BY <1>1 DEF Flow
<1>3. s.queue # <<>> => Len(s.queue) >= FetchStallDots(s) + 1
  BY <1>1, <1>2 DEF Flow
<1>4. s.step = "Sleep" /\ s.pushed => Len(s.queue) >= 7 - s.stepDots + 1
  BY <1>1, <1>2
<1>5. Flow(s, 1)
  BY <1>3, <1>4 DEF Flow, SameCharges
<1>6. p.queue = <<>> => FetchStallDots(s) = FetchStallDots(p) - 1 /\ FetchStallDots(p) # 0
  BY <1>1, <1>2
<1>7. QED
  BY <1>5, <1>6 DEF FetchedDot, Idle

\* A dot of the fetcher, whichever of its steps it is.
LEMMA FetchTimes ==
  ASSUME LineTyped, NEW p, Drawn(p), PipeInv(p), Flow(p, 0), p.window \in BOOLEAN,
         p.window => regs.winOn
  PROVE  FetchedDot(p, StepFetcher(p, regs))
<1> DEFINE s == StepFetcher(p, regs)
<1>1. /\ p.step \in {"Tile", "DataLow", "DataHigh", "Sleep", "Push"} /\ p.stepDots \in {0, 1}
      /\ Len(p.queue) \in Nat /\ (p.queue = <<>> <=> Len(p.queue) = 0) /\ PixelsWhole(p.queue)
      /\ FetchStallDots(p) \in Nat
  BY StallTyped DEF PipeInv, FetchedWhole
<1>2. PipeInv(s)
  BY FetcherKeeps
<1>3. /\ s.step \in {"Tile", "DataLow", "DataHigh", "Sleep", "Push"} /\ s.stepDots \in {0, 1}
      /\ Len(s.queue) \in Nat /\ (s.queue = <<>> <=> Len(s.queue) = 0)
      /\ FetchStallDots(s) \in Nat
  BY <1>2, StallTyped
<1>4. /\ p.fetchReset => p.queue = <<>> /\ p.step = "Tile" /\ p.stepDots = 0
      /\ p.discardFetch => p.queue = <<>> /\ p.step \in {"Tile", "DataLow", "DataHigh"}
      /\ p.step = "Push" => ~p.pushed
      /\ p.step = "Sleep" /\ p.pushed => Len(p.queue) >= 7 - p.stepDots
      /\ p.fifoLead \in Nat
  BY <1>1 DEF Flow
<1>5. CASE p.fetchReset
  <2>1. s = [p EXCEPT !.fetchReset = FALSE]
    BY <1>5 DEF StepFetcher
  <2> HIDE DEF s
  <2>2. /\ SameCharges(p, s) /\ s.window = p.window /\ s.queue = p.queue /\ ~s.fetchReset
        /\ s.step = p.step /\ s.stepDots = p.stepDots /\ s.discardFetch = p.discardFetch
        /\ s.discard = p.discard
    BY <2>1 DEF Drawn, SameCharges
  <2>3. Thrown(s) = Thrown(p)
    BY <2>2 DEF Thrown
  <2>4. FetchStallDots(s) = FetchStallDots(p) - 1
    BY <1>1, <1>4, <1>5, <2>2, StallIs
  <2>5. FetchedDot(p, s)
    BY <1>2, <1>4, <1>5, <2>2, <2>3, <2>4, PlainTimes
  <2>6. QED
    BY <2>5 DEF s
<1>6. CASE ~p.fetchReset /\ p.step = "Tile" /\ p.stepDots = 0
  <2>1. s = Dots(SampleTileIndex(p, regs), "DataLow")
    BY <1>6 DEF StepFetcher
  <2>2. /\ SameCharges(p, s) /\ s.window = p.window /\ s.queue = p.queue
        /\ s.fetchReset = p.fetchReset
        /\ s.step = "Tile" /\ s.stepDots = 1 /\ s.discardFetch = p.discardFetch
        /\ s.discard = IF p.discardFetch THEN Fine ELSE p.discard
    BY <1>6, <2>1 DEF Drawn, SameCharges, Dots, SampleTileIndex, Fine
  <2> HIDE DEF s
  <2>3. Thrown(s) = Thrown(p)
    BY <1>6, <2>2 DEF Thrown
  <2>4. FetchStallDots(s) = FetchStallDots(p) - 1
    BY <1>6, <2>2, StallIs
  <2>5. FetchedDot(p, s)
    BY <1>2, <1>6, <2>2, <2>3, <2>4, PlainTimes
  <2>6. QED
    BY <2>5 DEF s
<1>7. CASE ~p.fetchReset /\ (\/ p.step = "Tile" /\ p.stepDots = 1
                             \/ p.step = "DataLow"
                             \/ p.step = "DataHigh" /\ p.stepDots = 0)
  <2>1. \/ p.step = "Tile" /\ s = Dots(p, "DataLow")
        \/ p.step = "DataLow" /\ p.stepDots = 0 /\ s = Dots([p EXCEPT !.low = Layer(p)], "DataHigh")
        \/ p.step = "DataLow" /\ p.stepDots = 1 /\ s = Dots(p, "DataHigh")
        \/ p.step = "DataHigh" /\ s = Dots([p EXCEPT !.high = Layer(p)], "DataHigh")
    BY <1>1, <1>7 DEF StepFetcher
  <2> HIDE DEF s
  <2>2. /\ SameCharges(p, s) /\ s.window = p.window /\ s.queue = p.queue
        /\ s.fetchReset = p.fetchReset
        /\ s.discardFetch = p.discardFetch /\ s.discard = p.discard
        /\ \/ p.stepDots = 0 /\ s.step = p.step /\ s.stepDots = 1
           \/ p.stepDots = 1 /\ p.step = "Tile" /\ s.step = "DataLow" /\ s.stepDots = 0
           \/ p.stepDots = 1 /\ p.step = "DataLow" /\ s.step = "DataHigh" /\ s.stepDots = 0
    <3>1. CASE p.step = "Tile" /\ p.stepDots = 1 /\ s = Dots(p, "DataLow")
      BY <3>1 DEF Drawn, SameCharges, Dots
    <3>2. CASE /\ p.step = "DataLow" /\ p.stepDots = 0
               /\ s = Dots([p EXCEPT !.low = Layer(p)], "DataHigh")
      BY <3>2 DEF Drawn, SameCharges, Dots
    <3>3. CASE p.step = "DataLow" /\ p.stepDots = 1 /\ s = Dots(p, "DataHigh")
      BY <3>3 DEF Drawn, SameCharges, Dots
    <3>4. CASE /\ p.step = "DataHigh" /\ p.stepDots = 0
               /\ s = Dots([p EXCEPT !.high = Layer(p)], "DataHigh")
      BY <3>4 DEF Drawn, SameCharges, Dots
    <3>5. QED
      BY <1>7, <2>1, <3>1, <3>2, <3>3, <3>4
  <2>3. Thrown(s) = Thrown(p)
    BY <1>7, <2>2 DEF Thrown
  <2>4. FetchStallDots(s) = FetchStallDots(p) - 1
    BY <1>1, <1>7, <2>2, StallIs
  <2>5. s.step \in {"Tile", "DataLow", "DataHigh"}
    BY <1>7, <2>2
  <2>6. FetchedDot(p, s)
    BY <1>2, <1>7, <2>2, <2>3, <2>4, <2>5, PlainTimes
  <2>7. QED
    BY <2>6 DEF s
<1>8. CASE p.step = "Sleep" /\ p.pushed
  <2>1. s = Dots(p, "Tile") /\ ~p.fetchReset /\ ~p.discardFetch
    BY <1>4, <1>8 DEF StepFetcher
  <2> HIDE DEF s
  <2>2. /\ SameCharges(p, s) /\ s.window = p.window /\ s.queue = p.queue
        /\ s.fetchReset = p.fetchReset /\ s.pushed = p.pushed
        /\ s.discardFetch = p.discardFetch /\ s.discard = p.discard
        /\ \/ p.stepDots = 0 /\ s.step = "Sleep" /\ s.stepDots = 1
           \/ p.stepDots = 1 /\ s.step = "Tile" /\ s.stepDots = 0
    BY <1>1, <1>8, <2>1 DEF Drawn, SameCharges, Dots
  <2>3. Thrown(s) = Thrown(p)
    BY <2>1, <2>2 DEF Thrown
  <2>4. FetchStallDots(s) <= 6 - p.stepDots
    BY <1>1, <2>1, <2>2, StallIs
  <2>5. p.queue # <<>>
    BY <1>1, <1>4, <1>8
  <2>6. FetchedDot(p, s)
    <3>1. /\ ~s.fetchReset /\ ~s.discardFetch /\ s.discard = p.discard /\ s.step # "Push"
          /\ s.step = "Sleep" => p.step = "Sleep" /\ s.pushed = p.pushed /\ p.pushed
                                 /\ s.stepDots = p.stepDots + 1
      <4>1. ~s.fetchReset /\ ~s.discardFetch
        BY <2>1, <2>2, Zenon
      <4>2. s.step # "Push" /\ (s.step = "Sleep" => s.stepDots = p.stepDots + 1)
        BY <2>2
      <4>3. QED
        BY <1>8, <2>2, <4>1, <4>2, Zenon
    <3>2. SameCharges(p, s) /\ s.window = p.window /\ s.queue = p.queue
      BY <2>2
    <3>3. QED
      BY <1>2, <1>8, <2>3, <2>4, <2>5, <3>1, <3>2, PlainTimes
  <2>7. QED
    BY <2>6 DEF s
\* A row is offered: it goes in, or there is one in front of it.
<1>9. ASSUME NEW u, Drawn(u), SameCharges(p, u), u.window = p.window, u.queue = p.queue,
             u.discard = p.discard, ~u.discardFetch, ~u.fetchReset, ~p.discardFetch, ~u.pushed,
             FetchStallDots(p) = 0,
             /\ SameCharges(TryPushRow(u), s) /\ s.window = TryPushRow(u).window
             /\ s.queue = TryPushRow(u).queue
             /\ s.discard = u.discard /\ s.discardFetch = u.discardFetch
             /\ s.fetchReset = u.fetchReset /\ s.pushed = TryPushRow(u).pushed
             /\ s.step = "Push" => ~s.pushed
             /\ s.step \in {"Sleep", "Push"} \/ (s.step = "Tile" /\ s.stepDots = 0 /\ s.pushed)
      PROVE  FetchedDot(p, s)
  <2> HIDE DEF s
  <2>1. /\ SameCharges(u, TryPushRow(u)) /\ TryPushRow(u).window = u.window
        /\ \/ s.pushed /\ Len(s.queue) >= 8
           \/ ~s.pushed /\ Len(s.queue) > 0
    BY <1>1, <1>4, <1>9, TryTimes DEF SameCharges
  <2>2. SameCharges(p, s) /\ s.window = p.window /\ s.queue # <<>>
    BY <1>3, <1>9, <2>1 DEF SameCharges
  <2>3. s.step \in {"Sleep", "Push"} => FetchStallDots(s) = 0
    BY <1>9, StallIs
  <2>4. s.step = "Tile" => FetchStallDots(s) = 5
    BY <1>9, StallIs
  <2>5. Flow(s, 1)
    BY <1>3, <1>4, <1>9, <2>1, <2>2, <2>3, <2>4 DEF Flow, SameCharges
  <2>6. Thrown(s) = Thrown(p)
    BY <1>9 DEF Thrown
  <2>7. QED
    BY <1>9, <2>2, <2>5, <2>6 DEF FetchedDot, Idle
<1>10. CASE p.step \in {"Sleep", "Push"} /\ ~p.pushed
  <2> DEFINE v == TryPushRow(p)
  <2>1. ~p.fetchReset /\ ~p.discardFetch /\ FetchStallDots(p) = 0
    BY <1>1, <1>4, <1>10, StallIs
  <2>2. /\ p.step = "Sleep" => s = Dots(v, IF v.pushed THEN "Tile" ELSE "Push")
        /\ p.step = "Push" => s = IF v.pushed THEN [v EXCEPT !.step = "Tile"] ELSE v
    BY <1>10, <2>1 DEF StepFetcher
  <2>3. /\ SameCharges(p, v) /\ v.window = p.window /\ v.step = p.step /\ v.stepDots = p.stepDots
        /\ v.discard = p.discard /\ v.discardFetch = p.discardFetch
        /\ v.fetchReset = p.fetchReset
    BY <1>1, <1>4, TryTimes
  <2>4. p.step = "Push" => p.stepDots = 0
    BY DEF PipeInv, FetchedWhole
  <2>5. DOMAIN v = DOMAIN p
    BY <2>3 DEF SameCharges
  <2> HIDE DEF v, s
  <2>6. /\ SameCharges(v, s) /\ s.window = v.window /\ s.queue = v.queue
        /\ s.discard = v.discard /\ s.discardFetch = v.discardFetch
        /\ s.fetchReset = v.fetchReset /\ s.pushed = v.pushed
        /\ s.step = "Push" => ~s.pushed
        /\ s.step \in {"Sleep", "Push"} \/ (s.step = "Tile" /\ s.stepDots = 0 /\ s.pushed)
    <3>1. CASE p.step = "Sleep"
      <4>1. \/ v.stepDots = 0 /\ s = [v EXCEPT !.stepDots = 1]
            \/ v.stepDots = 1 /\ v.pushed /\ s = [v EXCEPT !.stepDots = 0, !.step = "Tile"]
            \/ v.stepDots = 1 /\ ~v.pushed /\ s = [v EXCEPT !.stepDots = 0, !.step = "Push"]
        BY <1>1, <2>2, <2>3, <3>1 DEF Dots
      <4>2. CASE v.stepDots = 0 /\ s = [v EXCEPT !.stepDots = 1]
        BY <2>3, <2>5, <3>1, <4>2 DEF Drawn, SameCharges
      <4>3. CASE v.stepDots = 1 /\ v.pushed /\ s = [v EXCEPT !.stepDots = 0, !.step = "Tile"]
        BY <2>3, <2>5, <3>1, <4>3 DEF Drawn, SameCharges
      <4>4. CASE v.stepDots = 1 /\ ~v.pushed /\ s = [v EXCEPT !.stepDots = 0, !.step = "Push"]
        BY <2>3, <2>5, <3>1, <4>4 DEF Drawn, SameCharges
      <4>5. QED
        BY <4>1, <4>2, <4>3, <4>4
    <3>2. CASE p.step = "Push"
      BY <1>1, <1>10, <2>2, <2>3, <2>4, <2>5, <3>2 DEF Drawn, SameCharges
    <3>3. QED
      BY <1>10, <3>1, <3>2
  <2>7. SameCharges(p, p)
    BY DEF SameCharges
  <2>8. QED
    BY <1>9, <1>10, <2>1, <2>3, <2>6, <2>7 DEF v, s
<1>11. CASE ~p.fetchReset /\ p.step = "DataHigh" /\ p.stepDots = 1
  <2> DEFINE q == StopWindowIfDisabled([p EXCEPT !.stepDots = 0], regs)
  <2>1. s = FetchComplete(p, regs)
    BY <1>11 DEF StepFetcher
  <2>2. q = [p EXCEPT !.stepDots = 0, !.window = p.window]
    <3>1. (p.window /\ regs.winOn) = p.window
      BY Zenon
    <3>2. q = [p EXCEPT !.stepDots = 0, !.window = p.window /\ regs.winOn]
      BY DEF StopWindowIfDisabled, Drawn
    <3> HIDE DEF q
    <3>3. QED
      BY <3>1, <3>2
  <2>3. s = IF q.discardFetch THEN [q EXCEPT !.discardFetch = FALSE, !.step = "Tile"]
            ELSE [TryPushRow([q EXCEPT !.pushed = FALSE]) EXCEPT !.step = "Sleep"]
    BY <2>1 DEF FetchComplete
  <2> HIDE DEF q, s
  <2>4. /\ SameCharges(p, q) /\ q.window = p.window /\ q.queue = p.queue /\ ~q.fetchReset
        /\ q.discard = p.discard /\ q.discardFetch = p.discardFetch /\ q.stepDots = 0
        /\ Drawn(q)
    BY <1>11, <2>2 DEF Drawn, SameCharges
  <2>5. CASE q.discardFetch
    <3>1. /\ SameCharges(p, s) /\ s.window = p.window /\ s.queue = p.queue /\ ~s.fetchReset
          /\ s.discard = p.discard /\ ~s.discardFetch /\ s.step = "Tile" /\ s.stepDots = 0
      BY <2>3, <2>4, <2>5 DEF Drawn, SameCharges
    <3>2. FetchStallDots(s) = 5 /\ FetchStallDots(p) = 6
      <4>1. p.discardFetch
        BY <2>4, <2>5, Zenon
      <4>2. FetchStallDots(p) = 6
        BY <1>11, <4>1, StallIs
      <4>3. FetchStallDots(s) = 5
        BY <3>1, StallIs
      <4>4. QED
        BY <4>2, <4>3
    <3>3. Thrown(s) = Thrown(p)
      BY <1>11, <3>1 DEF Thrown
    <3>4. FetchedDot(p, s)
      BY <1>2, <1>11, <2>4, <2>5, <3>1, <3>2, <3>3, PlainTimes DEF s
    <3>5. QED
      BY <3>4 DEF s
  <2>6. CASE ~q.discardFetch
    <3> DEFINE u == [q EXCEPT !.pushed = FALSE]
               v == TryPushRow(u)
    <3>1. s = [v EXCEPT !.step = "Sleep"]
      BY <2>3, <2>6
    <3>2. /\ SameCharges(p, u) /\ u.window = p.window /\ u.queue = p.queue /\ Drawn(u)
          /\ u.discard = p.discard /\ ~u.discardFetch /\ ~u.fetchReset /\ ~u.pushed
      BY <2>4, <2>6 DEF Drawn, SameCharges
    <3> HIDE DEF u
    <3>3. /\ SameCharges(u, v) /\ v.discard = u.discard /\ v.discardFetch = u.discardFetch
          /\ v.fetchReset = u.fetchReset
      BY <1>1, <1>4, <3>2, TryTimes DEF SameCharges
    <3> HIDE DEF v
    <3>4. /\ SameCharges(v, s) /\ s.window = v.window /\ s.queue = v.queue
          /\ s.discard = v.discard /\ s.discardFetch = v.discardFetch
          /\ s.fetchReset = v.fetchReset /\ s.pushed = v.pushed /\ s.step = "Sleep"
      BY <3>1, <3>2, <3>3 DEF Drawn, SameCharges
    <3>5. FetchStallDots(p) = 0
      BY <1>11, <2>4, <2>6, StallIs
    <3>6. QED
      BY <1>9, <2>4, <2>6, <3>2, <3>3, <3>4, <3>5 DEF v, s
  <2>7. QED
    BY <2>5, <2>6
<1>12. QED
  BY <1>1, <1>4, <1>5, <1>6, <1>7, <1>8, <1>10, <1>11

-----------------------------------------------------------------------------
(* The window's counter, for a dot: the restart is paid for where it is due. *)

\* Pixels are thrown away before the first is shown.
Trimmed(p) == p.pixelX > 0 => p.discard = 0 /\ ~p.discardFetch

\* What the dots left are told by.
SameTimes(p, q) ==
  /\ SameCharges(p, q) /\ q.window = p.window /\ q.queue = p.queue /\ q.step = p.step
  /\ q.stepDots = p.stepDots /\ q.pushed = p.pushed /\ q.fetchReset = p.fetchReset
  /\ q.discardFetch = p.discardFetch /\ q.discard = p.discard

SameFlow(p, q) ==
  /\ q.pixelX = p.pixelX /\ q.window = p.window /\ q.queue = p.queue /\ q.step = p.step
  /\ q.stepDots = p.stepDots /\ q.pushed = p.pushed /\ q.fetchReset = p.fetchReset
  /\ q.discardFetch = p.discardFetch /\ q.discard = p.discard
  /\ p.fifoLead \in Nat => q.fifoLead \in Nat

\* What leaves the stream alone leaves the dots of the stream.
LEMMA FlowSame ==
  ASSUME NEW p, NEW q, SameFlow(p, q)
  PROVE  /\ Balance(q) = Balance(p) /\ Thrown(q) = Thrown(p) /\ Stall(q) = Stall(p)
         /\ Opening(q) = Opening(p)
         /\ (Idle(q) <=> Idle(p)) /\ FetchStallDots(q) = FetchStallDots(p)
         /\ (Trimmed(p) => Trimmed(q)) /\ (Flow(p, 0) => Flow(q, 0))
<1>1. FetchStallDots(q) = FetchStallDots(p)
  BY DEF SameFlow, FetchStallDots
<1>2. Stall(q) = Stall(p) /\ Opening(q) = Opening(p) /\ Thrown(q) = Thrown(p)
  BY <1>1 DEF SameFlow, Stall, Opening, Thrown
<1>3. /\ (Idle(q) <=> Idle(p)) /\ (Trimmed(p) => Trimmed(q))
  BY <1>1 DEF SameFlow, Idle, Trimmed
<1>4. Flow(p, 0) => Flow(q, 0)
  BY <1>1 DEF SameFlow, Flow
<1>5. QED
  BY <1>1, <1>2, <1>3, <1>4 DEF Balance

\* What moves none of that keeps the dots left.
LEMMA SameBalance ==
  ASSUME NEW p, NEW q, SameTimes(p, q)
  PROVE  /\ Balance(q) = Balance(p) /\ Thrown(q) = Thrown(p) /\ Stall(q) = Stall(p)
         /\ (Idle(q) <=> Idle(p)) /\ FetchStallDots(q) = FetchStallDots(p)
         /\ (Trimmed(p) => Trimmed(q)) /\ (Flow(p, 0) => Flow(q, 0))
<1>1. SameFlow(p, q)
  BY DEF SameTimes, SameCharges, SameFlow
<1>2. QED
  BY <1>1, FlowSame

\* How far the fetcher is before its first row.
LEMMA PrefetchStall ==
  ASSUME NEW p, Prefetching(p, 0), p.lead = 0
  PROVE  /\ FetchStallDots(p) = 7 - p.windowX /\ Thrown(p) = p.discard
         /\ p.windowX \in 0 .. 7 /\ p.pixelX = 0 /\ p.queue = <<>>
<1>1. /\ p.step \in {"Tile", "DataLow", "DataHigh"} /\ p.stepDots \in {0, 1}
      /\ p.windowX \in 0 .. 7 /\ p.pixelX = 0 /\ p.queue = <<>>
      /\ FetchedDots(p) + 0 = CountedDots(p)
      /\ p.fetchReset => p.step = "Tile" /\ p.stepDots = 0 /\ p.discardFetch
  BY DEF Prefetching
<1>2. CountedDots(p) = 5 + p.windowX
  BY <1>1 DEF CountedDots
<1>3. FetchedDots(p) = (IF p.fetchReset THEN 0
                        ELSE (IF p.discardFetch THEN 1 ELSE 7) + Place(p.step) + p.stepDots)
  BY DEF FetchedDots
<1>4. ~p.fetchReset
  BY <1>1, <1>2, <1>3
<1>5. Place(p.step) = IF p.step = "Tile" THEN 0 ELSE IF p.step = "DataLow" THEN 2 ELSE 4
  BY DEF Place
<1>6. 5 + p.windowX = (IF p.discardFetch THEN 1 ELSE 7) + Place(p.step) + p.stepDots
  BY <1>1, <1>2, <1>3, <1>4, <1>5
<1>7. FetchStallDots(p) = 7 - p.windowX
  <2>1. FetchStallDots(p) = (IF p.step = "Tile" THEN 5 - p.stepDots
                             ELSE IF p.step = "DataLow" THEN 3 - p.stepDots
                             ELSE 1 - p.stepDots) + (IF p.discardFetch THEN 6 ELSE 0)
    BY <1>1, <1>4, StallIs
  <2>2. QED
    BY <1>1, <1>5, <1>6, <2>1
<1>8. Thrown(p) = p.discard
  BY <1>1, <1>5, <1>6 DEF Thrown
<1>9. QED
  BY <1>1, <1>7, <1>8

\* The window starts: its restart takes the place of the row under way, or stops the stream.
LEMMA StartTimes ==
  ASSUME LineTyped, NEW p, Drawn(p), PipeInv(p), FeedInv(p), Flow(p, 0), Trimmed(p),
         ~p.window, WindowEnabled(regs), p.lead = 0, p.windowX = regs.wx, p.pixelX < Width
  PROVE  LET m == StartWindow(p)
         IN /\ SameCharges(p, m) /\ m.window /\ Flow(m, 0) /\ Trimmed(m)
            /\ Idle(m) /\ FetchStallDots(m) = 6
            /\ Balance(m) = Balance(p) /\ Thrown(m) >= Thrown(p) /\ Thrown(p) \in Nat
            /\ Start >= 0 => ~Idle(p)
            /\ ~Idle(p) => p.pixelX = Start
<1> DEFINE m == StartWindow(p)
           left == IF p.windowX < 7 THEN 7 - p.windowX ELSE 0
<1>1. /\ SameCharges(p, m) /\ m.window /\ m.queue = <<>> /\ m.step = "Tile" /\ m.stepDots = 0
      /\ m.fetchReset /\ ~m.discardFetch /\ ~m.pushed /\ m.discard = p.discard + left
  BY DEF Drawn, SameCharges, StartWindow, kWindowCounterHeadStart
<1>2. regs.wx \in 0 .. 255 /\ Start = regs.wx - 7
  BY LineFacts
<1>3. p.pixelX \in Nat /\ p.discard \in Nat
  BY DEF FeedInv
<1> HIDE DEF m
<1>4. FetchStallDots(m) = 6 /\ Idle(m)
  <2>1. FetchStallDots(m) = 6
    BY <1>1, StallIs
  <2>2. QED
    BY <1>1, <2>1 DEF Idle
<1>5. Flow(m, 0)
  BY <1>1 DEF Flow, SameCharges
<1>6. Stall(m) = 6 /\ Opening(m) = 0 /\ Thrown(m) = p.discard + left
  BY <1>1, <1>4 DEF Stall, Opening, Thrown
<1>7. CASE Prefetching(p, 0)
  <2>1. /\ FetchStallDots(p) = 7 - regs.wx /\ Thrown(p) = p.discard
        /\ p.windowX \in 0 .. 7 /\ p.pixelX = 0 /\ p.queue = <<>>
    BY <1>7, PrefetchStall
  <2>2. Stall(p) = 7 - regs.wx /\ left = 7 - regs.wx /\ Start <= 0
    BY <1>2, <2>1 DEF Stall
  <2>3. Opening(p) = 6
    BY <1>2, <2>2, WidthAssumption DEF Opening
  <2>4. Balance(m) = Balance(p)
    BY <1>2, <1>3, <1>6, <2>1, <2>2, <2>3 DEF Balance
  <2>5. Idle(p) <=> regs.wx # 7
    BY <1>2, <2>1 DEF Idle
  <2>6. Trimmed(m)
    BY <1>1, <2>1 DEF Trimmed, SameCharges
  <2>7. QED
    BY <1>1, <1>2, <1>3, <1>4, <1>5, <1>6, <2>1, <2>2, <2>4, <2>5, <2>6 DEF m
<1>8. CASE Streaming(p, 0)
  <2>1. /\ ~p.discardFetch /\ ~p.fetchReset /\ p.windowX = p.pixelX + 7
        /\ (~ZeroPut(p) => Fed(p, 0))
        /\ p.objectLeadDots \in 0 .. 3
    BY <1>8 DEF Streaming
  <2>2. ~ZeroPut(p)
    BY DEF ZeroPut, LeavesZero, WindowEnabled
  <2>3. p.queue = <<>> => FetchStallDots(p) = 0
    <3> SUFFICES ASSUME p.queue = <<>> PROVE FetchStallDots(p) = 0
      OBVIOUS
    <3>1. /\ p.step \in {"Tile", "DataLow", "DataHigh", "Sleep", "Push"} /\ p.stepDots \in {0, 1}
          /\ Len(p.queue) = 0
      BY StallTyped
    <3>2. Gained(p) \in Nat
      BY <2>1 DEF Gained
    <3>3. 0 = Distance(p) + Gained(p) + 0
      BY <2>1, <2>2, <3>1 DEF Fed
    <3>4. Distance(p) = (IF p.step = "Tile" THEN 5 ELSE IF p.step = "DataLow" THEN 3
                         ELSE IF p.step = "DataHigh" THEN 1 ELSE 7) - p.stepDots
      BY DEF Distance
    <3>5. p.step = "DataHigh" /\ p.stepDots = 1
      BY <3>1, <3>2, <3>3, <3>4
    <3>6. QED
      BY <2>1, <3>5, StallIs
  <2>4. Stall(p) = 0 /\ ~Idle(p) /\ Thrown(p) = p.discard
    BY <2>1, <2>3 DEF Stall, Idle, Thrown
  <2>5. left = 0 /\ p.pixelX = Start
    BY <1>2, <1>3, <2>1
  <2>6. Opening(p) = 6
    BY <2>5 DEF Opening
  <2>7. Balance(m) = Balance(p)
    BY <1>3, <1>6, <2>4, <2>5, <2>6 DEF Balance
  <2>8. Trimmed(m)
    BY <1>1, <1>3, <2>5 DEF Trimmed, SameCharges
  <2>9. QED
    BY <1>1, <1>3, <1>4, <1>5, <1>6, <2>4, <2>5, <2>7, <2>8 DEF m
<1>9. QED
  BY <1>7, <1>8 DEF FeedInv, InWindow

\* A pixel of colour 0 put in changes nothing of the dots left.
LEMMA ZeroTimes ==
  ASSUME LineTyped, NEW p, Drawn(p), PipeInv(p), FeedInv(p), Flow(p, 0),
         ~WindowConditions(p, regs), p.lead = 0, regs.reached, p.windowX = regs.wx,
         p.windowX > p.comparedX
  PROVE  LET m == PushColourZeroPixel(p)
         IN /\ SameCharges(p, m) /\ m.window = p.window /\ Flow(m, 0)
            /\ m.discard = p.discard /\ m.discardFetch = p.discardFetch
            /\ (Idle(m) <=> Idle(p)) /\ FetchStallDots(m) = FetchStallDots(p)
            /\ Balance(m) = Balance(p) /\ Thrown(m) = Thrown(p)
<1> DEFINE m == PushColourZeroPixel(p)
<1>1. /\ SameCharges(p, m) /\ m.window = p.window /\ m.step = p.step /\ m.stepDots = p.stepDots
      /\ m.fetchReset = p.fetchReset /\ m.discardFetch = p.discardFetch /\ m.pushed = p.pushed
      /\ m.discard = p.discard
      /\ m.queue = p.queue \/ m.queue = <<ZeroPixel>> \o p.queue
  BY DEF Drawn, SameCharges, PushColourZeroPixel
<1>2. /\ \/ Prefetching(m, 0) /\ m.queue = p.queue
         \/ Streaming(m, 0) /\ ~Idle(p)
      /\ FetchStallDots(m) = FetchStallDots(p)
  BY ZeroFeeds
<1>3. PixelsWhole(p.queue)
  BY DEF PipeInv, FetchedWhole
<1> HIDE DEF m
<1>4. CASE m.queue = p.queue
  <2>1. SameTimes(p, m)
    BY <1>1, <1>4 DEF SameTimes
  <2>2. QED
    BY <1>1, <2>1, SameBalance DEF m
<1>5. CASE m.queue = <<ZeroPixel>> \o p.queue /\ ~Idle(p)
  <2>1. m.queue # <<>> /\ Len(m.queue) = Len(p.queue) + 1
    <3>1. PICK Pixels : p.queue \in Seq(Pixels)
      BY <1>3 DEF PixelsWhole
    <3>2. <<ZeroPixel>> \in Seq(Pixels \cup {ZeroPixel}) /\ p.queue \in Seq(Pixels \cup {ZeroPixel})
      BY <3>1
    <3>3. /\ <<ZeroPixel>> \o p.queue \in Seq(Pixels \cup {ZeroPixel})
          /\ Len(<<ZeroPixel>> \o p.queue) = Len(<<ZeroPixel>>) + Len(p.queue)
      BY <3>2, JoinIn
    <3>4. Len(<<ZeroPixel>>) = 1 /\ Len(p.queue) \in Nat
      BY StallTyped
    <3>5. Len(m.queue) = Len(p.queue) + 1 /\ m.queue \in Seq(Pixels \cup {ZeroPixel})
      BY <1>5, <3>3, <3>4
    <3>6. QED
      BY <3>4, <3>5
  <2>2. /\ p.step \in {"Tile", "DataLow", "DataHigh", "Sleep", "Push"} /\ p.stepDots \in {0, 1}
        /\ FetchStallDots(p) \in Nat /\ Len(p.queue) \in Nat
        /\ (p.queue = <<>> <=> Len(p.queue) = 0)
    BY StallTyped
  <2>3. ~p.fetchReset /\ ~p.discardFetch
    <3>1. p.fetchReset \/ p.discardFetch => FetchStallDots(p) # 0
      BY <2>2, StallIs
    <3>2. QED
      BY <1>5, <3>1 DEF Flow, Idle
  <2>4. Len(m.queue) >= FetchStallDots(m) + 0
    BY <1>2, <1>5, <2>1, <2>2 DEF Flow, Idle
  <2>5. p.step = "Sleep" /\ p.pushed => Len(m.queue) >= 7 - m.stepDots + 0
    BY <1>1, <2>1, <2>2 DEF Flow
  <2>6. Flow(m, 0)
    BY <1>1, <2>3, <2>4, <2>5 DEF Flow, SameCharges
  <2>7. Stall(m) = Stall(p) /\ Opening(m) = Opening(p) /\ Thrown(m) = Thrown(p)
    BY <1>1, <1>5, <2>1, <2>3 DEF Stall, Opening, Thrown, Idle
  <2>8. ~Idle(m)
    BY <2>1 DEF Idle
  <2>9. QED
    BY <1>1, <1>2, <1>5, <2>6, <2>7, <2>8 DEF Balance, m
<1>6. QED
  BY <1>1, <1>2, <1>4, <1>5

\* The window's counter, for a dot.
Ticked(p, b) ==
  /\ SameCharges(p, b) /\ Flow(b, 0) /\ Trimmed(b)
  /\ Balance(b) = Balance(p) /\ Thrown(b) >= Thrown(p) /\ Thrown(p) \in Nat
  /\ \/ b.window = p.window /\ (Idle(b) <=> Idle(p)) /\ FetchStallDots(b) = FetchStallDots(p)
     \/ /\ ~p.window /\ b.window /\ Idle(b) /\ FetchStallDots(b) = 6 /\ WindowEnabled(regs)
        /\ Start >= 0 => ~Idle(p)
        /\ ~Idle(p) => p.pixelX = Start

\* The same of what moves nothing more.
LEMMA TickedSame ==
  ASSUME NEW p, NEW m, NEW b, Ticked(p, m), SameTimes(m, b) PROVE Ticked(p, b)
BY SameBalance DEF Ticked, SameTimes, SameCharges

\* The comparison with WX: a start, a pixel of colour 0, or nothing.
LEMMA CompareTimes ==
  ASSUME LineTyped, NEW p, Drawn(p), PipeInv(p), FeedInv(p), Flow(p, 0), Trimmed(p),
         p.wxPipe[1] = regs.wx, p.pixelX < Width
  PROVE  Ticked(p, CompareWindow(p, regs))
<1> DEFINE m == CompareWindow(p, regs)
           match == p.lead = 0 /\ regs.reached /\ p.windowX = p.wxPipe[1]
<1>1. Thrown(p) \in Nat
  BY LineFacts DEF Thrown, FeedInv
<1>2. CASE match /\ WindowConditions(p, regs)
  <2>1. m = StartWindow(p) /\ ~p.window /\ WindowEnabled(regs) /\ p.lead = 0 /\ p.windowX = regs.wx
    BY <1>2 DEF CompareWindow, WindowConditions
  <2>2. QED
    BY <2>1, StartTimes DEF Ticked
<1>3. CASE match /\ ~WindowConditions(p, regs) /\ p.windowX > p.comparedX
  <2>1. m = PushColourZeroPixel(p)
    BY <1>3 DEF CompareWindow
  <2> HIDE DEF m
  <2>2. /\ SameCharges(p, m) /\ m.window = p.window /\ Flow(m, 0)
        /\ m.discard = p.discard /\ m.discardFetch = p.discardFetch
        /\ (Idle(m) <=> Idle(p)) /\ FetchStallDots(m) = FetchStallDots(p)
        /\ Balance(m) = Balance(p) /\ Thrown(m) = Thrown(p)
    BY <1>3, <2>1, ZeroTimes
  <2>3. Trimmed(m)
    BY <2>2 DEF Trimmed, SameCharges
  <2>4. QED
    BY <1>1, <2>2, <2>3 DEF Ticked, m
<1>4. CASE ~(match /\ WindowConditions(p, regs))
           /\ ~(match /\ ~WindowConditions(p, regs) /\ p.windowX > p.comparedX)
  <2>1. m = p
    BY <1>4 DEF CompareWindow
  <2>2. QED
    BY <1>1, <2>1 DEF Ticked, SameCharges
<1>5. QED
  BY <1>2, <1>3, <1>4

\* A dot up to the objects: the counter has moved, and nothing has been paid twice.
LEMMA CountTimes ==
  ASSUME LineTyped, NEW p0, NEW b, NEW due, Drawn(p0), PipeInv(p0), FeedInv(p0), SettledInv(p0),
         Flow(p0, 0), Trimmed(p0), p0.pixelX < Width, Ready(p0, b, due)
  PROVE  Ticked(p0, b)
<1> DEFINE p == [p0 EXCEPT !.out = NoPixel]
           m == CompareWindow(p, regs)
           c == ShiftPipes(m, regs)
<1>1. b = AdvanceWindowCounter(c)
  BY DEF Ready, Counted
<1>2. /\ SameStream(p0, p) /\ Drawn(p) /\ SameTimes(p0, p) /\ p.wxPipe = p0.wxPipe
      /\ Shaped(p) /\ SameFetch(p0, p) /\ SameSlots(p0, p) /\ SameTimes(p, p0)
  BY DEF Drawn, SameStream, SameRest, SameQueue, SameTimes, SameCharges, Shaped, SameFetch,
         SameSlots
<1> HIDE DEF p
<1>3. PipeInv(p) /\ FeedInv(p) /\ p.wxPipe[1] = regs.wx /\ Flow(p, 0) /\ Trimmed(p)
      /\ p.pixelX < Width
  BY <1>2, SameKeeps, FeedSame, SameBalance DEF SettledInv, SameTimes, SameCharges
<1>4. Ticked(p, m) /\ Drawn(m)
  <2>1. Ticked(p, m)
    BY <1>2, <1>3, CompareTimes
  <2>2. QED
    BY <1>2, <2>1 DEF Drawn, Ticked, SameCharges
<1> HIDE DEF m
<1>5. SameTimes(m, c) /\ Drawn(c)
  BY <1>4 DEF Drawn, SameTimes, SameCharges, ShiftPipes
<1> HIDE DEF c
<1>6. SameTimes(c, b)
  BY <1>1, <1>5 DEF Drawn, SameTimes, SameCharges, AdvanceWindowCounter
<1>7. Ticked(p, b)
  BY <1>4, <1>5, <1>6, TickedSame
<1>8. QED
  BY <1>2, <1>7, SameBalance DEF Ticked, SameTimes, SameCharges

-----------------------------------------------------------------------------
(* The objects' dots, and what the prediction counts.                      *)

\* The dots of the objects still to be fetched, less the fetcher's lead.
ObjectsLeft(p) ==
  (IF regs.objOn THEN PendingPenalties(p, regs) ELSE 0)
  - (IF p.penaltyStarted \/ (regs.objOn /\ Pending(p) # {}) THEN 3 ELSE 0)

\* The pixel counter has not passed WX while the window may still start.
LEMMA NotLate ==
  ASSUME LineTyped, NEW p, FeedInv(p), WindowConditions(p, regs)
  PROVE  p.windowX \in Int /\ p.windowX <= regs.wx
<1>1. ~InWindow(p)
  BY DEF WindowConditions, InWindow
<1>2. ComparedOnce(p) /\ NotYet(p) /\ p.windowX \in Int
  BY <1>1 DEF FeedInv, Prefetching, Streaming
<1>3. p.comparedX # regs.wx /\ regs.reached
  BY <1>2, LineFacts DEF ComparedOnce, WindowConditions, WindowEnabled
<1>4. QED
  BY <1>2, <1>3 DEF NotYet

\* The prediction counts the pixels, the stalls, the restart to come and the objects.
LEMMA DotsAre ==
  ASSUME LineTyped, NEW p, FeedInv(p), SettledInv(p), p.pixelX < Width \/ Stall(p) = 0
  PROVE  DotsRemaining(p, regs)
           = Width - p.pixelX + p.objectDots + Stall(p) + Opening(p) + ObjectsLeft(p)
<1> DEFINE stall == IF p.queue = <<>> /\ p.pixelX < Width THEN FetchStallDots(p) ELSE 0
           activation == IF /\ WindowConditions(p, regs)
                            /\ p.wxPipe[1] \in p.windowX .. kWindowCounterHeadStart + Width - 1
                         THEN kWindowRestartDots ELSE 0
           objectDots == IF regs.objOn THEN PendingPenalties(p, regs) ELSE 0
           lead == IF p.penaltyStarted \/ (regs.objOn /\ Pending(p) # {})
                   THEN kObjectFetcherLead ELSE 0
<1>1. DotsRemaining(p, regs)
        = Width - p.pixelX + p.objectDots + stall + activation + objectDots - lead
  BY DEF DotsRemaining
<1>2. stall = Stall(p)
  BY DEF Stall
<1>3. activation = Opening(p)
  <2>1. p.wxPipe[1] = regs.wx
    BY DEF SettledInv
  <2>2. regs.wx \in 0 .. 255 /\ Start = regs.wx - 7
    BY LineFacts
  <2>3. CASE WindowConditions(p, regs)
    <3>1. p.windowX \in Int /\ p.windowX <= regs.wx
      BY <2>3, NotLate
    <3>2. regs.wx \in p.windowX .. 7 + Width - 1 <=> Start < Width
      BY <2>2, <3>1, WidthAssumption
    <3>3. QED
      BY <2>1, <2>3, <3>2
         DEF Opening, WindowConditions, kWindowCounterHeadStart, kWindowRestartDots
  <2>4. CASE ~WindowConditions(p, regs)
    BY <2>4 DEF Opening, WindowConditions
  <2>5. QED
    BY <2>3, <2>4
<1>4. objectDots - lead = ObjectsLeft(p)
  BY DEF ObjectsLeft, kObjectFetcherLead
<1> HIDE DEF stall, activation, objectDots, lead
<1>5. QED
  BY <1>1, <1>2, <1>3, <1>4

\* What the objects still to be fetched cost.
LEMMA LeftTyped ==
  ASSUME LineTyped, NEW p, p.lastTile \in Int
  PROVE  /\ Pending(p) \in SUBSET DOMAIN objects
         /\ PendingPenalties(p, regs) \in Nat
         /\ Pending(p) = {} => PendingPenalties(p, regs) = 0
         /\ Pending(p) # {} => PendingPenalties(p, regs) >= 6
         /\ ObjectsLeft(p) \in Int /\ ObjectsLeft(p) >= -3
<1>1. Pending(p) \in SUBSET DOMAIN objects
  BY DEF Pending
<1>2. /\ PendingPenalties(p, regs) \in Nat
      /\ Pending(p) = {} => PendingPenalties(p, regs) = 0
      /\ Pending(p) # {} => PendingPenalties(p, regs) >= 6
  BY <1>1, PenaltiesTyped DEF PendingPenalties
<1>3. ObjectsLeft(p) \in Int /\ ObjectsLeft(p) >= -3
  BY <1>2 DEF ObjectsLeft
<1>4. QED
  BY <1>1, <1>2, <1>3

\* What leaves the objects and the pixel counter alone.
LEMMA LeftSame ==
  ASSUME NEW p, NEW q, q.drawn = p.drawn, q.pixelX = p.pixelX, q.lastTile = p.lastTile,
         q.penaltyStarted = p.penaltyStarted
  PROVE  Pending(q) = Pending(p) /\ ObjectsLeft(q) = ObjectsLeft(p)
BY DEF Pending, ObjectsLeft, PendingPenalties

\* A pixel shown passes no object.
LEMMA LeftShown ==
  ASSUME LineTyped, NEW p, NEW q, p.pixelX \in Nat, q.drawn = p.drawn, q.pixelX = p.pixelX + 1,
         q.lastTile = p.lastTile, q.penaltyStarted = p.penaltyStarted,
         regs.objOn => ObjectsDue(p) = {}
  PROVE  ObjectsLeft(q) = ObjectsLeft(p)
<1>1. CASE regs.objOn
  <2>1. ASSUME NEW k \in DOMAIN objects, k \notin p.drawn
        PROVE  TriggerX(k) \in p.pixelX .. Width - 1 <=> TriggerX(k) \in p.pixelX + 1 .. Width - 1
    <3>1. TriggerX(k) # p.pixelX
      BY <1>1, <2>1, DueIsMet
    <3>2. TriggerX(k) \in Nat
      BY ObjectFacts
    <3>3. QED
      BY <3>1, <3>2, WidthAssumption
  <2>2. Pending(q) = Pending(p)
    BY <2>1 DEF Pending
  <2>3. QED
    BY <2>2 DEF ObjectsLeft, PendingPenalties
<1>2. CASE ~regs.objOn
  BY <1>2 DEF ObjectsLeft
<1>3. QED
  BY <1>1, <1>2

\* The object taken is the first of those still to be fetched: its dots are the stall's now.
LEMMA LeftTaken ==
  ASSUME LineTyped, NEW p, NEW q, NEW k, DrawnInOrder(p), regs.objOn, ObjectsDue(p) # {},
         k = FirstOf(ObjectsDue(p)), p.lastTile \in Int, p.pixelX < Width,
         q.drawn = p.drawn \cup {k}, q.pixelX = p.pixelX,
         q.lastTile = PenaltyTile(objects[k], regs), q.penaltyStarted
  PROVE  /\ k \in Pending(p) /\ k = FirstFetched(Pending(p)) /\ TriggerX(k) = p.pixelX
         /\ q.lastTile \in Int
         /\ ObjectsLeft(q) + ObjectPenalty(objects[k], regs, p.lastTile) = ObjectsLeft(p)
<1>1. p.pixelX \in Nat
  BY DEF DrawnInOrder
<1>2. ObjectsDue(p) \in SUBSET DOMAIN objects
  BY DEF ObjectsDue
<1>3. /\ k \in ObjectsDue(p) /\ \A j \in ObjectsDue(p) : k <= j
      /\ k \in DOMAIN objects /\ k \notin p.drawn /\ TriggerX(k) = p.pixelX
  BY <1>1, <1>2, FirstIsLeast, DueIsMet
<1>4. k \in Pending(p) /\ Pending(p) \in SUBSET DOMAIN objects
  BY <1>1, <1>3, WidthAssumption DEF Pending
<1>5. k = FirstFetched(Pending(p))
  <2> DEFINE f == FirstFetched(Pending(p))
  <2>1. f \in Pending(p) /\ (k = f \/ Ahead(f, k))
    BY <1>4, FirstOfThem
  <2> HIDE DEF f
  <2>2. /\ f \in DOMAIN objects /\ f \notin p.drawn /\ TriggerX(f) \in Nat
        /\ TriggerX(f) >= p.pixelX /\ f \in Nat /\ k \in Nat
    BY <1>1, <1>3, <2>1, ObjectFacts DEF Pending
  <2>3. CASE Ahead(f, k)
    <3>1. TriggerX(f) = p.pixelX /\ f < k
      BY <1>1, <1>3, <2>2, <2>3 DEF Ahead
    <3>2. f \in ObjectsDue(p)
      BY <1>1, <2>2, <3>1, DueIsMet
    <3>3. QED
      BY <1>3, <2>2, <3>1, <3>2
  <2>4. QED
    BY <2>1, <2>3 DEF f
<1>6. Pending(q) = Pending(p) \ {k}
  BY DEF Pending
<1>7. q.lastTile \in Int
  BY <1>3, PenaltyTileTyped
<1>8. PendingPenalties(p, regs)
        = ObjectPenalty(objects[k], regs, p.lastTile) + PendingPenalties(q, regs)
  <2> DEFINE S == Pending(p)
  <2>1. S \in SUBSET DOMAIN objects /\ S # {} /\ k = FirstFetched(S)
    BY <1>4, <1>5
  <2> HIDE DEF S
  <2>2. Penalties(regs)[S][p.lastTile]
          = ObjectPenalty(objects[k], regs, p.lastTile)
            + Penalties(regs)[S \ {k}][PenaltyTile(objects[k], regs)]
    BY <2>1, PenaltiesUnfold
  <2>3. QED
    BY <1>6, <2>2 DEF PendingPenalties, S
<1>9. PendingPenalties(q, regs) \in Nat /\ PendingPenalties(p, regs) \in Nat
  BY <1>7, LeftTyped
<1>10. ObjectPenalty(objects[k], regs, p.lastTile) \in Nat
  BY <1>3, ObjectFacts, PenaltyIsWhole
<1>11. Pending(p) # {}
  BY <1>4
<1>12. ObjectsLeft(q) = PendingPenalties(q, regs) - 3
  BY DEF ObjectsLeft
<1>13. ObjectsLeft(p) = PendingPenalties(p, regs) - 3
  BY <1>11 DEF ObjectsLeft
<1>14. QED
  BY <1>3, <1>4, <1>5, <1>7, <1>8, <1>9, <1>10, <1>12, <1>13

\* Until the first object is fetched, they are all the line's.
LEMMA LeftAtFirst ==
  ASSUME LineTyped, NEW p, DrawnInOrder(p), p.drawn = {}, regs.objOn
  PROVE  /\ Pending(p) = Pending(StartLine(regs))
         /\ \A k \in Pending(p) : TriggerX(k) >= p.pixelX
         /\ p.lastTile = NoTile =>
              PendingPenalties(p, regs) = PendingPenalties(StartLine(regs), regs)
<1> DEFINE s == StartLine(regs)
<1>1. s.drawn = {} /\ s.pixelX = 0 /\ s.lastTile = NoTile
  BY DEF StartLine
<1> HIDE DEF s
<1>2. \A k \in DOMAIN objects : TriggerX(k) >= p.pixelX /\ TriggerX(k) \in Nat /\ p.pixelX \in Nat
  BY ObjectFacts DEF DrawnInOrder
<1>3. \A k \in DOMAIN objects : TriggerX(k) \in p.pixelX .. Width - 1
                                  <=> TriggerX(k) \in 0 .. Width - 1
  BY <1>2, WidthAssumption
<1>4. Pending(p) = Pending(s)
  BY <1>1, <1>3 DEF Pending
<1>5. \A k \in Pending(p) : TriggerX(k) >= p.pixelX
  BY <1>2 DEF Pending
<1>6. QED
  BY <1>1, <1>4, <1>5 DEF PendingPenalties, s

-----------------------------------------------------------------------------
(* A dot: the dots left count down by one.                                 *)

\* The first object and the window's start meet on one dot.
Sharing ==
  LET all == Pending(StartLine(regs))
  IN WindowEnabled(regs) /\ regs.objOn /\ all # {} /\ Start = TriggerX(FirstFetched(all))

\* The dots the two share, counted by the stall and by the restart, that are still to pass.
Shared(p) == IF ~Sharing THEN 0 ELSE IF p.penaltyStarted THEN p.objectLeadDots ELSE 3

\* The dots of the line from there on.
SharedFrom == Width - Start + PendingPenalties(StartLine(regs), regs)

\* What the prediction says is left ...
DotsLeft(p) ==
  Width - p.pixelX + p.objectDots + Stall(p) + Opening(p) + ObjectsLeft(p)

\* ... and the fine scroll's dots, which it does not know of.
Total(p) == Width - p.pixelX + p.objectDots + ObjectsLeft(p) + Balance(p)

\* The fetch of an object: when the first one's three dots come with the window's restart.
LeadIsTimed(p) ==
  /\ p.penaltyStarted \in BOOLEAN /\ p.lastTile \in Int /\ p.objectDots \in Nat
  /\ p.objectLeadDots \in 0 .. 3 /\ p.objectLeadDots <= p.objectDots
  /\ ~p.penaltyStarted => p.drawn = {} /\ p.lastTile = NoTile /\ p.objectDots = 0
  /\ p.objectDots > 0 => p.penaltyStarted /\ Flowing(p)
  /\ p.objectLeadDots > 0 =>
       IF Sharing THEN Idle(p) /\ FetchStallDots(p) = 3 + p.objectLeadDots ELSE ~Idle(p)
  /\ Sharing =>
       IF ~p.penaltyStarted THEN ~p.window
       ELSE IF p.objectLeadDots > 0 THEN DotsLeft(p) = SharedFrom - 4 + 2 * p.objectLeadDots
       ELSE DotsLeft(p) <= SharedFrom - 4

Timed(p) == Flow(p, 0) /\ Trimmed(p) /\ LeadIsTimed(p)

CountsDown(p, q) ==
  /\ Timed(q) /\ Total(q) - Shared(q) = Total(p) - Shared(p) - 1
  /\ Thrown(q) >= Thrown(p) - 1
  /\ q.pixelX <= Width /\ (q.pixelX < Width \/ (Stall(q) = 0 /\ q.objectDots = 0))

\* Whole numbers, all of them.
LEMMA TotalTyped ==
  ASSUME LineTyped, NEW p, PipeInv(p), Typed(p), p.objectDots \in Nat, p.lastTile \in Int
  PROVE  /\ Stall(p) \in Nat /\ Opening(p) \in {0, 6} /\ Thrown(p) \in Nat
         /\ ObjectsLeft(p) \in Int /\ p.pixelX \in Nat /\ p.objectDots \in Nat /\ Width \in Int
         /\ Balance(p) = Stall(p) + Opening(p) + Thrown(p)
         /\ Total(p) = DotsLeft(p) + Thrown(p)
         /\ DotsLeft(p) \in Int /\ Total(p) \in Int
         /\ (Idle(p) => Stall(p) = FetchStallDots(p)) /\ (~Idle(p) => Stall(p) = 0)
<1>1. Stall(p) \in Nat
  BY StallTyped DEF Stall
<1>2. Opening(p) \in {0, 6}
  BY DEF Opening
<1>3. Thrown(p) \in Nat /\ p.pixelX \in Nat
  BY LineFacts DEF Thrown, Typed
<1>4. ObjectsLeft(p) \in Int
  BY LeftTyped
<1>5. (Idle(p) => Stall(p) = FetchStallDots(p)) /\ (~Idle(p) => Stall(p) = 0)
  BY DEF Idle, Stall
<1>6. Balance(p) = Stall(p) + Opening(p) + Thrown(p)
  BY DEF Balance
<1>7. Width \in Int
  BY WidthAssumption
<1>8. QED
  BY <1>1, <1>2, <1>3, <1>4, <1>5, <1>6, <1>7 DEF Total, DotsLeft

\* A dot of the fetcher leaves one more pixel in the FIFO than is needed before the next row.
LEMMA FlowLess ==
  ASSUME NEW p, PipeInv(p), Flow(p, 1) PROVE Flow(p, 0)
<1>1. /\ FetchStallDots(p) \in Nat /\ Len(p.queue) \in Nat /\ p.stepDots \in {0, 1}
  BY StallTyped
<1>2. QED
  BY <1>1 DEF Flow

\* An object's reads cost nothing.
LEMMA ReadTimes ==
  ASSUME NEW u, Drawn(u) PROVE SameTimes(u, ReadObjectRowIfDue(u))
BY DEF Drawn, SameTimes, SameCharges, ReadObjectRowIfDue, MergeObject

\* Nor does giving a fetch up before its low byte's address is out.
LEMMA CancelTimes ==
  ASSUME NEW u, Drawn(u) PROVE SameTimes(u, CancelObjectIfDisabled(u, regs))
BY DEF Drawn, SameTimes, SameCharges, CancelObjectIfDisabled

\* One such step after another.
LEMMA SameTimesTrans ==
  ASSUME NEW p, NEW q, NEW s, SameTimes(p, q), SameTimes(q, s) PROVE SameTimes(p, s)
BY DEF SameTimes, SameCharges

\* The same charges are the same objects still to be fetched.
LEMMA ChargesLeft ==
  ASSUME NEW p, NEW q, SameCharges(p, q)
  PROVE  Pending(q) = Pending(p) /\ ObjectsLeft(q) = ObjectsLeft(p)
BY LeftSame DEF SameCharges

\* What a dot has at hand when the window's counter has moved on.
Counting(p, b) ==
  /\ Drawn(b) /\ PipeInv(b) /\ Typed(b) /\ Ticked(p, b) /\ ObjectInv(b)
  /\ b.window => regs.winOn
  /\ b.objectDots \in Nat /\ b.lastTile \in Int /\ p.objectDots \in Nat /\ p.lastTile \in Int
  /\ Total(b) = Total(p) /\ p.pixelX \in Nat

\* It holds of every dot of an undisturbed line.
LEMMA DotCounts ==
  ASSUME LineTyped, NEW p0, NEW b, NEW due, Picture(p0), Timed(p0), p0.pixelX < Width,
         Ready(p0, b, due)
  PROVE  Counting(p0, b)
<1>1. /\ Drawn(p0) /\ PipeInv(p0) /\ FeedInv(p0) /\ SettledInv(p0) /\ ObjectInv(p0)
      /\ Flow(p0, 0) /\ Trimmed(p0) /\ p0.objectDots \in Nat /\ p0.lastTile \in Int
  BY DEF Picture, Timed, LeadIsTimed
<1>2. Ticked(p0, b)
  BY <1>1, CountTimes
<1>3. /\ Drawn(b) /\ PipeInv(b) /\ Typed(b) /\ ObjectInv(b)
  BY <1>1, SameInvObjects DEF Ready, Advanced, Drawn
<1>4. b.window => regs.winOn
  BY DEF Ready, Advanced, Prefetching, Streaming, InWindow, WindowEnabled
<1>5. b.objectDots = p0.objectDots /\ b.lastTile = p0.lastTile /\ b.pixelX = p0.pixelX
      /\ ObjectsLeft(b) = ObjectsLeft(p0) /\ Balance(b) = Balance(p0)
  BY <1>2, ChargesLeft DEF Ticked, SameCharges
<1>6. Total(b) = Total(p0)
  BY <1>5 DEF Total
<1>7. QED
  BY <1>1, <1>2, <1>3, <1>4, <1>5, <1>6 DEF Counting, FeedInv

\* Whole numbers: the dots left from where the first object meets the window.
LEMMA SharedTyped ==
  ASSUME LineTyped
  PROVE  SharedFrom \in Int /\ PendingPenalties(StartLine(regs), regs) \in Nat
<1>1. StartLine(regs).lastTile \in Int
  BY DEF StartLine, NoTile
<1>2. QED
  BY <1>1, LeftTyped, LineFacts, WidthAssumption DEF SharedFrom

\* No window starts while an object is fetched.
LEMMA NoStart ==
  ASSUME LineTyped, NEW p, NEW b, Flowing(p), Ticked(p, b)
  PROVE  /\ b.window = p.window /\ (Idle(b) <=> Idle(p))
         /\ FetchStallDots(b) = FetchStallDots(p)
<1> SUFFICES ASSUME ~p.window, WindowEnabled(regs), Start >= 0 => ~Idle(p),
                    ~Idle(p) => p.pixelX = Start
             PROVE  FALSE
  BY DEF Ticked
<1>1. Streaming(p, 0) /\ NotMet(p) /\ p.pixelX \in Nat
  BY DEF Flowing, InWindow, Typed
<1>2. p.windowX = p.pixelX + 7 /\ p.lead = 0 /\ ComparedOnce(p)
  BY <1>1 DEF Streaming
<1>3. p.comparedX # regs.wx /\ regs.reached
  BY <1>2, LineFacts DEF ComparedOnce, WindowEnabled
<1>4. p.pixelX + 7 < regs.wx
  BY <1>1, <1>2, <1>3 DEF NotMet
<1>5. p.pixelX < Start /\ Start >= 0
  BY <1>1, <1>4, LineFacts
<1>6. QED
  BY <1>1, <1>5

\* A stall counts down the object's dots, and with the first object's lead the fetcher's too.
LEMMA StallTimes ==
  ASSUME LineTyped, NEW p0, NEW b, NEW due, NEW q, Picture(p0), Timed(p0), p0.pixelX < Width,
         Ready(p0, b, due), Counting(p0, b), Stalls(b, q), Flowing(q), PipeInv(q)
  PROVE  CountsDown(p0, q)
<1> DEFINE a == [b EXCEPT !.objectDots = b.objectDots - 1]
           c == [a EXCEPT !.objectLeadDots = a.objectLeadDots - 1]
           s == StepFetcher(c, regs)
           d == IF a.objectLeadDots > 0 THEN s ELSE a
<1>1. q = ReadObjectRowIfDue(CancelObjectIfDisabled(d, regs)) /\ b.objectDots > 0
  BY DEF Stalls, StallDot
<1>2. /\ Drawn(b) /\ PipeInv(b) /\ Typed(b) /\ Ticked(p0, b) /\ b.objectDots \in Nat
      /\ b.lastTile \in Int /\ Total(b) = Total(p0) /\ (b.window => regs.winOn)
      /\ Flow(b, 0) /\ Trimmed(b) /\ SameCharges(p0, b)
  BY DEF Counting, Ticked
<1>3. /\ p0.objectDots > 0 /\ p0.penaltyStarted /\ Flowing(p0) /\ LeadIsTimed(p0)
      /\ b.objectLeadDots = p0.objectLeadDots /\ b.objectLeadDots \in 0 .. 3
      /\ b.objectLeadDots <= b.objectDots /\ b.penaltyStarted = TRUE
      /\ b.penaltyStarted = p0.penaltyStarted
  BY <1>1, <1>2 DEF Timed, LeadIsTimed, SameCharges
<1>4. /\ b.window = p0.window /\ (Idle(b) <=> Idle(p0))
      /\ FetchStallDots(b) = FetchStallDots(p0)
  BY <1>2, <1>3, NoStart
<1>5. /\ DOMAIN a = DOMAIN b /\ a.objectDots = b.objectDots - 1 /\ SameFlow(b, a)
      /\ a.drawn = b.drawn /\ a.lastTile = b.lastTile /\ a.penaltyStarted = b.penaltyStarted
      /\ a.objectLeadDots = b.objectLeadDots /\ a.fifoLead = b.fifoLead
  BY <1>2 DEF SameFlow, Drawn
<1>6. /\ DOMAIN c = DOMAIN b /\ c.objectDots = b.objectDots - 1 /\ SameFlow(b, c)
      /\ c.drawn = b.drawn /\ c.lastTile = b.lastTile /\ c.penaltyStarted = b.penaltyStarted
      /\ c.objectLeadDots = b.objectLeadDots - 1 /\ c.fifoLead = b.fifoLead
      /\ Shaped(c) /\ SameFetch(b, c) /\ SameSlots(b, c)
  BY <1>2 DEF SameFlow, Drawn, Shaped, SameFetch, SameSlots
<1> HIDE DEF a
<1>7. Drawn(a) /\ Drawn(c) /\ PipeInv(c) /\ Flow(c, 0)
  BY <1>2, <1>5, <1>6, SameKeeps, FlowSame DEF Drawn
<1> HIDE DEF c
<1>8. FetchedDot(c, s) /\ PipeInv(s)
  BY <1>2, <1>6, <1>7, FetchTimes, FetcherKeeps DEF Typed, SameFlow
<1>9. Drawn(s)
  BY <1>7, <1>8 DEF FetchedDot, SameCharges, Drawn
<1> HIDE DEF s
<1>10. SameTimes(d, q)
  <2> DEFINE e == CancelObjectIfDisabled(d, regs)
  <2>1. Drawn(d)
    BY <1>7, <1>9
  <2> HIDE DEF d
  <2>2. SameTimes(d, e)
    BY <2>1, CancelTimes
  <2>3. Drawn(e)
    BY <2>1, <2>2 DEF Drawn, SameTimes, SameCharges
  <2> HIDE DEF e
  <2>4. SameTimes(e, q)
    BY <1>1, <2>3, ReadTimes DEF e
  <2>5. QED
    BY <2>2, <2>4, SameTimesTrans
<1>11. /\ q.pixelX = b.pixelX /\ q.drawn = b.drawn /\ q.lastTile = b.lastTile
       /\ q.penaltyStarted = b.penaltyStarted /\ q.objectDots = b.objectDots - 1
       /\ q.window = b.window
  <2>1. CASE a.objectLeadDots > 0
    BY <1>5, <1>6, <1>8, <1>10, <2>1 DEF SameTimes, SameCharges, FetchedDot, SameFlow
  <2>2. CASE ~(a.objectLeadDots > 0)
    BY <1>5, <1>10, <2>2 DEF SameTimes, SameCharges, SameFlow
  <2>3. QED
    BY <2>1, <2>2
<1>12. ObjectsLeft(q) = ObjectsLeft(b) /\ Opening(q) = Opening(b)
  BY <1>11, LeftSame DEF Opening
<1>13. /\ Stall(b) \in Nat /\ Opening(b) \in {0, 6} /\ Thrown(b) \in Nat /\ ObjectsLeft(b) \in Int
       /\ b.pixelX \in Nat /\ Width \in Int
       /\ Balance(b) = Stall(b) + Opening(b) + Thrown(b) /\ Total(b) = DotsLeft(b) + Thrown(b)
       /\ DotsLeft(b) \in Int /\ Total(b) \in Int
       /\ (Idle(b) => Stall(b) = FetchStallDots(b)) /\ (~Idle(b) => Stall(b) = 0)
  BY <1>2, TotalTyped
<1>14. Thrown(p0) = Thrown(b) /\ DotsLeft(p0) = DotsLeft(b)
  <2>1. Opening(b) = Opening(p0)
    BY <1>4 DEF Opening
  <2>2. Stall(b) = Stall(p0)
    BY <1>4 DEF Stall, Idle
  <2>3. Thrown(p0) \in Nat /\ Balance(b) = Balance(p0)
    BY <1>2 DEF Ticked
  <2>4. Thrown(p0) = Thrown(b)
    BY <1>13, <2>1, <2>2, <2>3 DEF Balance
  <2>5. ObjectsLeft(b) = ObjectsLeft(p0) /\ b.pixelX = p0.pixelX /\ b.objectDots = p0.objectDots
    BY <1>2, ChargesLeft DEF SameCharges
  <2>6. QED
    BY <2>1, <2>2, <2>4, <2>5 DEF DotsLeft
<1>15. /\ q.objectDots \in Nat /\ q.lastTile \in Int /\ q.pixelX < Width
       /\ q.penaltyStarted \in BOOLEAN /\ q.penaltyStarted
  <2>1. q.penaltyStarted = TRUE
    BY <1>3, <1>11
  <2>2. q.objectDots \in Nat
    BY <1>1, <1>2, <1>11
  <2>3. q.pixelX < Width
    BY <1>2, <1>11 DEF SameCharges
  <2>4. QED
    BY <1>2, <1>11, <2>1, <2>2, <2>3
<1>16. ASSUME Flow(q, 0), Trimmed(q), q.objectLeadDots \in 0 .. 3, q.objectLeadDots <= q.objectDots,
              q.objectLeadDots > 0 =>
                IF Sharing THEN Idle(q) /\ FetchStallDots(q) = 3 + q.objectLeadDots ELSE ~Idle(q),
              Sharing => IF q.objectLeadDots > 0
                         THEN DotsLeft(q) = SharedFrom - 4 + 2 * q.objectLeadDots
                         ELSE DotsLeft(q) <= SharedFrom - 4,
              Total(q) - Shared(q) = Total(p0) - Shared(p0) - 1, Thrown(q) >= Thrown(p0) - 1
       PROVE  CountsDown(p0, q)
  <2>1. LeadIsTimed(q)
    BY <1>15, <1>16 DEF LeadIsTimed
  <2>2. QED
    BY <1>11, <1>13, <1>15, <1>16, <2>1 DEF CountsDown, Timed
<1>17. Shared(p0) = (IF Sharing THEN b.objectLeadDots ELSE 0)
       /\ Shared(q) = (IF Sharing THEN q.objectLeadDots ELSE 0)
  BY <1>3, <1>15 DEF Shared
<1>18. CASE ~(a.objectLeadDots > 0)
  <2>1. SameTimes(a, q) /\ b.objectLeadDots = 0
    BY <1>3, <1>5, <1>10, <1>18
  <2>2. /\ Stall(q) = Stall(b) /\ Thrown(q) = Thrown(b) /\ Balance(q) = Balance(b)
        /\ Flow(q, 0) /\ Trimmed(q)
    BY <1>2, <1>5, <2>1, SameBalance, FlowSame
  <2>3. q.objectLeadDots = 0
    BY <1>5, <2>1 DEF SameTimes, SameCharges
  <2>4. DotsLeft(q) = DotsLeft(b) - 1 /\ Total(q) = Total(b) - 1
    BY <1>2, <1>11, <1>12, <1>13, <2>2 DEF DotsLeft, Total
  <2>5. Sharing => DotsLeft(p0) <= SharedFrom - 4
    BY <1>3, <2>1 DEF LeadIsTimed
  <2>6. Sharing => DotsLeft(q) <= SharedFrom - 4
    BY <1>13, <1>14, <2>4, <2>5, SharedTyped
  <2>7. Total(q) - Shared(q) = Total(p0) - Shared(p0) - 1
    BY <1>2, <1>13, <1>17, <2>1, <2>3, <2>4
  <2>8. Thrown(q) >= Thrown(p0) - 1
    BY <1>13, <1>14, <2>2
  <2>9. QED
    BY <1>15, <1>16, <2>2, <2>3, <2>6, <2>7, <2>8
<1>19. CASE a.objectLeadDots > 0
  <2>1. SameTimes(s, q) /\ b.objectLeadDots > 0
    BY <1>5, <1>10, <1>19
  <2>2. /\ Stall(q) = Stall(s) /\ Thrown(q) = Thrown(s) /\ (Idle(q) <=> Idle(s))
        /\ FetchStallDots(q) = FetchStallDots(s) /\ (Trimmed(s) => Trimmed(q)) /\ Flow(q, 0)
    BY <1>8, <2>1, SameBalance, FlowLess DEF FetchedDot
  <2>3. /\ q.objectLeadDots = b.objectLeadDots - 1
    BY <1>6, <1>8, <2>1 DEF SameTimes, SameCharges, FetchedDot
  <2>4. /\ Stall(c) = Stall(b) /\ Thrown(c) = Thrown(b) /\ (Idle(c) <=> Idle(b)) /\ Trimmed(c)
        /\ FetchStallDots(c) = FetchStallDots(b)
    BY <1>2, <1>6, FlowSame
  <2>5. Thrown(q) = Thrown(b)
    BY <1>8, <2>2, <2>4 DEF FetchedDot
  <2>6. Trimmed(q)
    BY <1>8, <2>2, <2>4 DEF FetchedDot, Trimmed, SameCharges
  <2>7. CASE Sharing
    <3>1. Idle(b) /\ FetchStallDots(b) = 3 + b.objectLeadDots
          /\ DotsLeft(b) = SharedFrom - 4 + 2 * b.objectLeadDots
      BY <1>3, <1>4, <1>14, <2>1, <2>7 DEF LeadIsTimed
    <3>2. s.queue = <<>> /\ FetchStallDots(s) = FetchStallDots(b) - 1
      BY <1>8, <2>4, <3>1 DEF FetchedDot
    <3>3. FetchStallDots(q) = 3 + q.objectLeadDots /\ Stall(q) = Stall(b) - 1 /\ Idle(q)
      BY <1>3, <1>13, <2>1, <2>2, <2>3, <3>1, <3>2 DEF Stall, Idle
    <3>4. DotsLeft(q) = DotsLeft(b) - 2
      BY <1>2, <1>11, <1>12, <1>13, <3>3 DEF DotsLeft
    <3>5. Total(q) = Total(b) - 2
      <4>1. Balance(q) = Stall(q) + Opening(q) + Thrown(q)
        BY DEF Balance
      <4>2. Balance(q) = Balance(b) - 1 /\ Balance(b) \in Int
        BY <1>12, <1>13, <2>5, <3>3, <4>1
      <4>3. QED
        BY <1>2, <1>11, <1>12, <1>13, <4>2 DEF Total
    <3>6. DotsLeft(q) = SharedFrom - 4 + 2 * q.objectLeadDots
      BY <1>3, <1>13, <2>3, <3>1, <3>4, SharedTyped
    <3>7. Total(q) - Shared(q) = Total(p0) - Shared(p0) - 1
      BY <1>2, <1>3, <1>13, <1>17, <2>3, <2>7, <3>5
    <3>8. q.objectLeadDots \in 0 .. 3 /\ q.objectLeadDots <= q.objectDots
      BY <1>2, <1>3, <1>11, <2>1, <2>3
    <3>9. q.objectLeadDots = 0 => DotsLeft(q) <= SharedFrom - 4
      BY <3>6, SharedTyped
    <3>10. Thrown(q) >= Thrown(p0) - 1
      BY <1>13, <1>14, <2>5
    <3>11. QED
      BY <1>15, <1>16, <2>2, <2>6, <2>7, <3>3, <3>6, <3>7, <3>8, <3>9, <3>10
  <2>8. CASE ~Sharing
    <3>1. ~Idle(b)
      BY <1>3, <1>4, <2>1, <2>8 DEF LeadIsTimed
    <3>2. s.queue # <<>>
      BY <1>8, <2>4, <3>1 DEF FetchedDot
    <3>3. Stall(q) = 0 /\ Stall(b) = 0 /\ ~Idle(q)
      BY <1>13, <2>2, <3>1, <3>2 DEF Stall, Idle
    <3>4. Total(q) = Total(b) - 1
      BY <1>2, <1>11, <1>12, <1>13, <2>5, <3>3 DEF Total, Balance
    <3>5. Total(q) - Shared(q) = Total(p0) - Shared(p0) - 1
      BY <1>2, <1>13, <1>17, <2>8, <3>4
    <3>6. q.objectLeadDots \in 0 .. 3 /\ q.objectLeadDots <= q.objectDots
      BY <1>2, <1>3, <1>11, <2>1, <2>3
    <3>7. Thrown(q) >= Thrown(p0) - 1
      BY <1>13, <1>14, <2>5
    <3>8. QED
      BY <1>15, <1>16, <2>2, <2>6, <2>8, <3>3, <3>5, <3>6, <3>7
  <2>9. QED
    BY <2>7, <2>8
<1>20. QED
  BY <1>18, <1>19

\* Where the window starts on the dot of the first object, or the two stay apart.
LEMMA FirstMeets ==
  ASSUME LineTyped, NEW p0, NEW b, NEW due, Picture(p0), Timed(p0), p0.pixelX < Width,
         Ready(p0, b, due), Counting(p0, b), ~p0.penaltyStarted, due, regs.objOn,
         ObjectsDue(b) # {}
  PROVE  /\ Pending(b) # {} /\ ObjectsLeft(b) = PendingPenalties(StartLine(regs), regs) - 3
         /\ Sharing => b.pixelX = Start /\ b.window /\ Idle(b) /\ FetchStallDots(b) = 6
         /\ ~Sharing => ~Idle(b)
<1> DEFINE k == FirstOf(ObjectsDue(b))
           u == [b EXCEPT !.drawn = b.drawn \cup {k}, !.penaltyStarted = TRUE,
                          !.lastTile = PenaltyTile(objects[k], regs)]
<1>1. /\ Drawn(b) /\ PipeInv(b) /\ Typed(b) /\ DrawnInOrder(b) /\ b.lastTile \in Int
      /\ Ticked(p0, b) /\ SameCharges(p0, b) /\ Advanced(b) /\ ~Prefetching(b, 1) /\ ~Idle(p0)
  BY DEF Counting, ObjectInv, Ticked, Ready
<1>2. /\ b.drawn = {} /\ b.lastTile = NoTile /\ ~b.penaltyStarted /\ b.pixelX < Width
      /\ (Sharing => ~p0.window)
  BY <1>1 DEF Timed, LeadIsTimed, SameCharges
<1>3. /\ u.drawn = b.drawn \cup {k} /\ u.pixelX = b.pixelX
      /\ u.lastTile = PenaltyTile(objects[k], regs) /\ u.penaltyStarted
  BY <1>1 DEF Drawn
<1> HIDE DEF u
<1>4. k \in Pending(b) /\ k = FirstFetched(Pending(b)) /\ TriggerX(k) = b.pixelX
  BY <1>1, <1>2, <1>3, LeftTaken
<1>5. Pending(b) = Pending(StartLine(regs))
      /\ PendingPenalties(b, regs) = PendingPenalties(StartLine(regs), regs)
  BY <1>1, <1>2, LeftAtFirst
<1> HIDE DEF k
<1>6. Pending(b) # {} /\ ObjectsLeft(b) = PendingPenalties(StartLine(regs), regs) - 3
  BY <1>4, <1>5 DEF ObjectsLeft
<1>7. Sharing <=> WindowEnabled(regs) /\ Start = b.pixelX
  BY <1>4, <1>5, <1>6 DEF Sharing
<1>8. ASSUME Sharing PROVE b.window
  <2> SUFFICES ASSUME ~b.window PROVE FALSE
    OBVIOUS
  <2>1. Streaming(b, 0) /\ NotMet(b)
    BY <1>1 DEF Advanced, InWindow
  <2>2. b.windowX = b.pixelX + 7 /\ b.lead = 0 /\ ComparedOnce(b) /\ b.pixelX \in Nat
    BY <1>1, <2>1 DEF Streaming, Typed
  <2>3. b.comparedX # regs.wx /\ regs.reached
    BY <1>7, <1>8, <2>2, LineFacts DEF ComparedOnce, WindowEnabled
  <2>4. b.windowX < regs.wx
    BY <2>1, <2>2, <2>3 DEF NotMet
  <2>5. QED
    BY <1>7, <1>8, <2>2, <2>4, LineFacts
<1>9. ASSUME Sharing PROVE Idle(b) /\ FetchStallDots(b) = 6
  BY <1>1, <1>2, <1>8, <1>9 DEF Ticked
<1>10. ASSUME ~Sharing PROVE ~Idle(b)
  <2> SUFFICES ASSUME Idle(b) PROVE FALSE
    OBVIOUS
  <2>1. WindowEnabled(regs) /\ p0.pixelX = Start
    BY <1>1 DEF Ticked
  <2>2. QED
    BY <1>1, <1>7, <1>10, <2>1 DEF SameCharges
<1>11. QED
  BY <1>6, <1>7, <1>8, <1>9, <1>10

\* An object taken turns its dots into a stall's, of which this one is the first.
LEMMA TakeTimes ==
  ASSUME LineTyped, NEW p0, NEW b, NEW due, NEW q, Picture(p0), Timed(p0), p0.pixelX < Width,
         Ready(p0, b, due), Counting(p0, b), StartsObject(b, due, q), Flowing(q), PipeInv(q)
  PROVE  CountsDown(p0, q)
<1> DEFINE k == FirstOf(ObjectsDue(b))
           dots == ObjectPenalty(objects[k], regs, b.lastTile)
           u == [StartObject(b, regs, k) EXCEPT !.objectDots = @ - 1]
<1>1. /\ Drawn(b) /\ PipeInv(b) /\ Typed(b) /\ DrawnInOrder(b) /\ b.lastTile \in Int
      /\ Ticked(p0, b) /\ SameCharges(p0, b) /\ Flow(b, 0) /\ Trimmed(b)
      /\ Total(b) = Total(p0) /\ b.objectDots \in Nat
  BY DEF Counting, ObjectInv, Ticked
<1>2. /\ b.objectDots = 0 /\ regs.objOn /\ due /\ ObjectsDue(b) # {}
      /\ q = ReadObjectRowIfDue(u)
  BY DEF StartsObject
<1>3. /\ b.objectLeadDots = 0 /\ b.penaltyStarted \in BOOLEAN /\ b.pixelX < Width
      /\ p0.penaltyStarted \in BOOLEAN /\ b.penaltyStarted = p0.penaltyStarted
      /\ p0.objectLeadDots = 0 /\ p0.objectDots = 0
  BY <1>1, <1>2 DEF Timed, LeadIsTimed, SameCharges
<1>4. /\ DOMAIN u = DOMAIN b /\ SameFlow(b, u) /\ u.drawn = b.drawn \cup {k}
      /\ u.lastTile = PenaltyTile(objects[k], regs) /\ u.penaltyStarted = TRUE
      /\ u.objectDots = dots - 1
      /\ u.objectLeadDots = (IF b.penaltyStarted THEN b.objectLeadDots ELSE 3)
  <2> DEFINE v == StartObject(b, regs, k)
  <2>1. /\ DOMAIN v = DOMAIN b /\ SameFlow(b, v) /\ v.drawn = b.drawn \cup {k}
        /\ v.lastTile = PenaltyTile(objects[k], regs) /\ v.penaltyStarted = TRUE
        /\ v.objectDots = dots
        /\ v.objectLeadDots = (IF b.penaltyStarted THEN b.objectLeadDots ELSE 3)
    <3> HIDE DEF k, dots
    <3>1. /\ v.fifoLead = IF b.penaltyStarted THEN b.fifoLead ELSE 3
      BY <1>1 DEF Drawn, StartObject, kObjectFetcherLead
    <3>2. v.objectDots = dots
      BY <1>1 DEF Drawn, StartObject, dots
    <3>3. /\ DOMAIN v = DOMAIN b /\ v.drawn = b.drawn \cup {k}
          /\ v.lastTile = PenaltyTile(objects[k], regs) /\ v.penaltyStarted = TRUE
          /\ v.objectLeadDots = (IF b.penaltyStarted THEN b.objectLeadDots ELSE 3)
      BY <1>1 DEF Drawn, StartObject, kObjectFetcherLead
    <3>4. SameFlow(b, v)
      BY <1>1, <3>1 DEF Drawn, StartObject, SameFlow
    <3>5. QED
      BY <3>2, <3>3, <3>4
  <2>2. u = [v EXCEPT !.objectDots = v.objectDots - 1] /\ Drawn(v)
    BY <1>1, <2>1 DEF Drawn
  <2> HIDE DEF v, u, dots, k
  <2>3. QED
    BY <2>1, <2>2 DEF Drawn, SameFlow
<1>5. k \in DOMAIN objects
  <2>1. ObjectsDue(b) \in SUBSET DOMAIN objects
    BY DEF ObjectsDue
  <2>2. QED
    BY <1>2, <2>1, FirstIsLeast
<1>6. dots \in Nat /\ dots >= 6
  BY <1>5, ObjectFacts, PenaltyIsWhole
<1>7. SameTimes(u, q)
  BY <1>1, <1>2, <1>4, ReadTimes DEF Drawn
<1> HIDE DEF u
<1>8. /\ q.pixelX = b.pixelX /\ q.drawn = b.drawn \cup {k} /\ q.window = b.window
      /\ q.lastTile = PenaltyTile(objects[k], regs) /\ q.penaltyStarted = TRUE
      /\ q.objectDots = dots - 1
      /\ q.objectLeadDots = (IF b.penaltyStarted THEN 0 ELSE 3)
  BY <1>3, <1>4, <1>7 DEF SameTimes, SameCharges, SameFlow
<1>9. /\ Balance(q) = Balance(b) /\ Thrown(q) = Thrown(b) /\ Stall(q) = Stall(b)
      /\ Opening(q) = Opening(b)
      /\ (Idle(q) <=> Idle(b)) /\ FetchStallDots(q) = FetchStallDots(b)
      /\ Trimmed(q) /\ Flow(q, 0)
  <2>1. SameFlow(u, q)
    BY <1>7 DEF SameTimes, SameCharges, SameFlow
  <2>2. QED
    BY <1>1, <1>4, <2>1, FlowSame
<1>10. q.lastTile \in Int /\ ObjectsLeft(q) + dots = ObjectsLeft(b)
  <2>1. q.penaltyStarted
    BY <1>8
  <2>2. QED
    BY <1>1, <1>2, <1>3, <1>8, <2>1, LeftTaken
<1> HIDE DEF dots
<1>11. /\ Stall(b) \in Nat /\ Opening(b) \in {0, 6} /\ Thrown(b) \in Nat /\ ObjectsLeft(b) \in Int
       /\ b.pixelX \in Nat /\ Width \in Int
       /\ Balance(b) = Stall(b) + Opening(b) + Thrown(b) /\ Total(b) = DotsLeft(b) + Thrown(b)
       /\ DotsLeft(b) \in Int /\ Total(b) \in Int
       /\ (Idle(b) => Stall(b) = FetchStallDots(b)) /\ (~Idle(b) => Stall(b) = 0)
  BY <1>1, TotalTyped
<1>12. q.objectDots \in Nat
  BY <1>6, <1>8
<1>13. /\ ObjectsLeft(q) \in Int /\ Total(q) = DotsLeft(q) + Thrown(q) /\ DotsLeft(q) \in Int
  BY <1>10, <1>12, TotalTyped DEF Flowing
<1>14. Total(q) = Total(b) - 1
  <2>1. Balance(b) \in Int
    BY <1>11
  <2>2. QED
    BY <1>2, <1>6, <1>8, <1>9, <1>10, <1>11, <1>13, <2>1 DEF Total
<1>15. Thrown(p0) \in Nat /\ Thrown(b) >= Thrown(p0)
  BY <1>1 DEF Ticked
<1>16. Thrown(q) >= Thrown(p0) - 1
  BY <1>9, <1>11, <1>15
<1>17. q.penaltyStarted \in BOOLEAN /\ q.penaltyStarted /\ q.pixelX < Width /\ q.pixelX <= Width
  <2>1. q.penaltyStarted = TRUE
    BY <1>8
  <2>2. q.pixelX < Width /\ q.pixelX <= Width
    BY <1>3, <1>8, <1>11
  <2>3. QED
    BY <2>1, <2>2
<1>18. Total(q) - Shared(q) = Total(p0) - Shared(p0) - 1
  <2>1. Shared(q) = Shared(p0) /\ Shared(p0) \in Int
    BY <1>3, <1>8, <1>17 DEF Shared
  <2>2. QED
    BY <1>1, <1>11, <1>14, <2>1
<1>19. ASSUME q.objectLeadDots > 0 =>
                IF Sharing THEN Idle(q) /\ FetchStallDots(q) = 3 + q.objectLeadDots ELSE ~Idle(q),
              Sharing => IF q.objectLeadDots > 0
                         THEN DotsLeft(q) = SharedFrom - 4 + 2 * q.objectLeadDots
                         ELSE DotsLeft(q) <= SharedFrom - 4
       PROVE  CountsDown(p0, q)
  <2>1. q.objectLeadDots \in 0 .. 3 /\ q.objectLeadDots <= q.objectDots
    BY <1>3, <1>6, <1>8
  <2>2. LeadIsTimed(q)
    BY <1>10, <1>12, <1>17, <1>19, <2>1 DEF LeadIsTimed
  <2>3. QED
    BY <1>9, <1>16, <1>17, <1>18, <2>2 DEF CountsDown, Timed
<1>20. CASE p0.penaltyStarted
  <2>1. q.objectLeadDots = 0
    BY <1>3, <1>8, <1>20
  <2>2. Sharing => DotsLeft(p0) <= SharedFrom - 4
    BY <1>3, <1>20 DEF Timed, LeadIsTimed
  <2>3. Total(p0) = DotsLeft(p0) + Thrown(p0) /\ DotsLeft(p0) \in Int
    BY TotalTyped DEF Picture, FeedInv, Typed, Timed, LeadIsTimed
  <2>4. DotsLeft(q) <= DotsLeft(p0)
    <3>1. Total(b) = Total(p0)
      BY <1>1
    <3>2. Thrown(q) \in Nat /\ Thrown(q) >= Thrown(p0)
      BY <1>9, <1>11, <1>15
    <3>3. QED
      BY <1>13, <1>14, <1>15, <2>3, <3>1, <3>2
  <2>5. Sharing => DotsLeft(q) <= SharedFrom - 4
    BY <1>13, <2>2, <2>3, <2>4, SharedTyped
  <2>6. QED
    BY <1>19, <2>1, <2>5
<1>21. CASE ~p0.penaltyStarted
  <2>1. /\ ObjectsLeft(b) = PendingPenalties(StartLine(regs), regs) - 3
        /\ Sharing => b.pixelX = Start /\ b.window /\ Idle(b) /\ FetchStallDots(b) = 6
        /\ ~Sharing => ~Idle(b)
    BY <1>2, <1>21, FirstMeets
  <2>2. q.objectLeadDots = 3
    BY <1>3, <1>8, <1>21
  <2>3. ASSUME Sharing PROVE DotsLeft(q) = SharedFrom - 4 + 2 * q.objectLeadDots
    <3>1. Stall(q) = 6 /\ Opening(q) = 0
      BY <1>9, <1>11, <2>1, <2>3 DEF Opening
    <3>2. DotsLeft(q) = Width - Start + (dots - 1) + 6 + 0 + ObjectsLeft(q)
      BY <1>8, <2>1, <2>3, <3>1 DEF DotsLeft
    <3>3. Start \in Int
      BY LineFacts
    <3>4. PendingPenalties(StartLine(regs), regs) = ObjectsLeft(q) + dots + 3
      BY <1>6, <1>10, <1>13, <2>1, SharedTyped
    <3> DEFINE c == PendingPenalties(StartLine(regs), regs)
    <3> HIDE DEF c
    <3>5. SharedFrom = Width - Start + c /\ c = ObjectsLeft(q) + dots + 3
      BY <3>4 DEF SharedFrom, c
    <3>6. QED
      BY <1>6, <1>11, <1>13, <2>2, <3>2, <3>3, <3>5
  <2>4. QED
    BY <1>9, <1>19, <2>1, <2>2, <2>3
<1>22. QED
  BY <1>3, <1>20, <1>21

\* A dot of drawing takes one from the fetcher's stall, from the pixels to throw away or from
\* those to show.
LEMMA DrawTimes ==
  ASSUME LineTyped, NEW p0, NEW b, NEW due, NEW q, Picture(p0), Timed(p0), p0.pixelX < Width,
         Ready(p0, b, due), Counting(p0, b), Draws(b, due, q), PipeInv(q), Typed(q)
  PROVE  CountsDown(p0, q)
<1> DEFINE s == StepFetcher(b, regs)
<1>1. /\ Drawn(b) /\ PipeInv(b) /\ Typed(b) /\ DrawnInOrder(b) /\ b.lastTile \in Int
      /\ Ticked(p0, b) /\ SameCharges(p0, b) /\ Flow(b, 0) /\ Trimmed(b)
      /\ Total(b) = Total(p0) /\ b.objectDots \in Nat /\ (b.window => regs.winOn)
  BY DEF Counting, ObjectInv, Ticked
<1>2. /\ b.objectDots = 0 /\ (regs.objOn /\ due => ObjectsDue(b) = {})
      /\ q = EmitPixel(s, regs.objOn)
  BY <1>1 DEF Draws
<1>3. /\ b.objectLeadDots = 0 /\ b.penaltyStarted \in BOOLEAN /\ b.pixelX < Width
      /\ p0.penaltyStarted \in BOOLEAN /\ b.penaltyStarted = p0.penaltyStarted
      /\ p0.objectLeadDots = 0 /\ p0.objectDots = 0
      /\ (~b.penaltyStarted => b.drawn = {} /\ b.lastTile = NoTile)
  BY <1>1, <1>2 DEF Timed, LeadIsTimed, SameCharges
<1>4. FetchedDot(b, s) /\ PipeInv(s)
  BY <1>1, FetchTimes, FetcherKeeps DEF Typed
<1>5. Drawn(s)
  BY <1>1, <1>4 DEF FetchedDot, SameCharges, Drawn
<1> HIDE DEF s
<1>6. /\ Stall(b) \in Nat /\ Opening(b) \in {0, 6} /\ Thrown(b) \in Nat /\ ObjectsLeft(b) \in Int
      /\ b.pixelX \in Nat /\ Width \in Int
      /\ Balance(b) = Stall(b) + Opening(b) + Thrown(b) /\ Total(b) = DotsLeft(b) + Thrown(b)
      /\ DotsLeft(b) \in Int /\ Total(b) \in Int
      /\ (Idle(b) => Stall(b) = FetchStallDots(b)) /\ (~Idle(b) => Stall(b) = 0)
  BY <1>1, TotalTyped
<1>7. Thrown(p0) \in Nat /\ Thrown(b) >= Thrown(p0)
  BY <1>1 DEF Ticked
\* What the three have in common.
<1>8. ASSUME q.drawn = b.drawn, q.lastTile = b.lastTile, q.penaltyStarted = b.penaltyStarted,
             q.objectDots = 0, q.objectLeadDots = 0, q.window = b.window,
             Flow(q, 0), Trimmed(q), q.pixelX <= Width, q.pixelX < Width \/ Stall(q) = 0,
             Total(q) = Total(b) - 1, Thrown(q) >= Thrown(b) - 1
      PROVE  CountsDown(p0, q)
  <2>1. Sharing /\ ~q.penaltyStarted => ~q.window
    <3> SUFFICES ASSUME Sharing, ~p0.penaltyStarted, b.window PROVE FALSE
      BY <1>3, <1>8
    <3>1. ~p0.window
      BY DEF Timed, LeadIsTimed
    <3>2. (Start >= 0 => ~Idle(p0)) /\ (~Idle(p0) => p0.pixelX = Start)
      BY <1>1, <3>1 DEF Ticked
    <3> DEFINE k == FirstFetched(Pending(StartLine(regs)))
    <3>3. /\ regs.objOn /\ Pending(StartLine(regs)) # {} /\ Start = TriggerX(k)
      BY DEF Sharing
    <3>4. Pending(b) = Pending(StartLine(regs))
      BY <1>1, <1>3, <3>3, LeftAtFirst
    <3>5. Pending(b) \in SUBSET DOMAIN objects
      BY DEF Pending
    <3>6. k \in Pending(b)
      BY <3>3, <3>4, <3>5, FirstOfThem
    <3> HIDE DEF k
    <3>7. k \in DOMAIN objects /\ k \notin b.drawn /\ TriggerX(k) \in Nat
      BY <3>5, <3>6, ObjectFacts DEF Pending
    <3>8. ~Idle(p0) /\ b.pixelX = Start
      BY <1>1, <3>2, <3>3, <3>7 DEF SameCharges
    <3>9. k \in ObjectsDue(b)
      BY <1>6, <3>3, <3>7, <3>8, DueIsMet
    <3>10. due
      BY <3>8 DEF Ready
    <3>11. QED
      BY <1>2, <3>3, <3>9, <3>10
  <2>2. q.objectDots \in Nat /\ q.lastTile \in Int
    BY <1>1, <1>8
  <2>3. Total(q) = DotsLeft(q) + Thrown(q) /\ DotsLeft(q) \in Int /\ Thrown(q) \in Nat
    BY <2>2, TotalTyped
  <2>4. Total(p0) = DotsLeft(p0) + Thrown(p0) /\ DotsLeft(p0) \in Int
    BY TotalTyped DEF Picture, FeedInv, Typed, Timed, LeadIsTimed
  <2>5. DotsLeft(q) <= DotsLeft(p0)
    <3>1. Total(b) = Total(p0)
      BY <1>1
    <3>2. QED
      BY <1>6, <1>7, <1>8, <2>3, <2>4, <3>1
  <2>6. Sharing /\ p0.penaltyStarted => DotsLeft(p0) <= SharedFrom - 4
    BY <1>3 DEF Timed, LeadIsTimed
  <2>7. Sharing /\ q.penaltyStarted => DotsLeft(q) <= SharedFrom - 4
    BY <1>3, <1>8, <2>3, <2>4, <2>5, <2>6, SharedTyped
  <2>8. /\ q.penaltyStarted \in BOOLEAN
        /\ ~q.penaltyStarted => q.drawn = {} /\ q.lastTile = NoTile
    BY <1>3, <1>8
  <2>9. LeadIsTimed(q)
    BY <1>8, <2>1, <2>2, <2>7, <2>8 DEF LeadIsTimed
  <2>10. Shared(q) = Shared(p0) /\ Shared(p0) \in Int
    BY <1>3, <1>8 DEF Shared
  <2>11. Total(q) - Shared(q) = Total(p0) - Shared(p0) - 1
    BY <1>1, <1>6, <1>8, <2>10
  <2>12. Thrown(q) >= Thrown(p0) - 1
    BY <1>6, <1>7, <1>8, <2>3
  <2>13. QED
    BY <1>8, <2>9, <2>11, <2>12 DEF CountsDown, Timed
<1>9. /\ SameCharges(b, s) /\ s.window = b.window /\ Flow(s, 1) /\ Flow(s, 0)
      /\ Thrown(s) = Thrown(b) /\ (~b.discardFetch => ~s.discardFetch /\ s.discard = b.discard)
  BY <1>4, FlowLess DEF FetchedDot
<1>10. Opening(s) = Opening(b) /\ ObjectsLeft(s) = ObjectsLeft(b) /\ s.pixelX = b.pixelX
       /\ s.objectDots = 0 /\ s.objectLeadDots = 0 /\ Trimmed(s)
  BY <1>1, <1>2, <1>3, <1>9, ChargesLeft DEF Opening, SameCharges, Trimmed
<1>11. CASE Idle(b)
  <2>1. s.queue = <<>> /\ FetchStallDots(s) = FetchStallDots(b) - 1
    BY <1>4, <1>11 DEF FetchedDot
  <2>2. q = s
    BY <1>2, <2>1 DEF EmitPixel
  <2>3. Stall(s) = Stall(b) - 1
    BY <1>6, <1>11, <2>1 DEF Stall
  <2>4. Balance(s) = Balance(b) - 1
    <3>1. Balance(s) = Stall(s) + Opening(s) + Thrown(s)
      BY DEF Balance
    <3>2. QED
      BY <1>6, <1>9, <1>10, <2>3, <3>1
  <2>5. Total(s) = Total(b) - 1
    <3>1. Balance(b) \in Int
      BY <1>6
    <3>2. QED
      BY <1>2, <1>6, <1>10, <2>4, <3>1 DEF Total
  <2>6. Thrown(s) >= Thrown(b) - 1
    BY <1>6, <1>9
  <2>7. QED
    BY <1>3, <1>6, <1>8, <1>9, <1>10, <2>2, <2>5, <2>6 DEF SameCharges
<1>12. CASE ~Idle(b)
  <2>1. s.queue # <<>> /\ PixelsWhole(s.queue)
    BY <1>4, <1>12 DEF FetchedDot, PipeInv, FetchedWhole
  <2>2. ~Idle(p0) /\ due
    BY <1>1, <1>12 DEF Ticked, Ready
  <2>3. /\ ~s.fetchReset /\ ~s.discardFetch /\ s.fifoLead \in Nat
    BY <1>9, <2>1 DEF Flow
  <2>4. /\ Len(s.queue) \in Nat \ {0} /\ Len(Tail(s.queue)) = Len(s.queue) - 1
        /\ Len(Tail(s.queue)) \in Nat
        /\ (Tail(s.queue) = <<>> <=> Len(Tail(s.queue)) = 0)
    <3>1. PICK P : s.queue \in Seq(P)
      BY <2>1 DEF PixelsWhole
    <3>2. Len(s.queue) \in Nat \ {0} /\ Tail(s.queue) \in Seq(P)
          /\ Len(Tail(s.queue)) = Len(s.queue) - 1
      BY <2>1, <3>1, TailAt
    <3> DEFINE rest == Tail(s.queue)
    <3>3. rest \in Seq(P)
      BY <3>2
    <3> HIDE DEF rest
    <3>4. rest = <<>> <=> Len(rest) = 0
      BY <3>3
    <3>5. Len(rest) = Len(s.queue) - 1 /\ Len(s.queue) \in Nat \ {0}
      BY <3>2 DEF rest
    <3>6. Len(rest) \in Nat
      BY <3>5
    <3>7. QED
      BY <3>4, <3>5, <3>6 DEF rest
  <2>5. Thrown(s) = s.discard /\ s.discard = Thrown(b)
    BY <1>9, <2>3 DEF Thrown
  <2>6. /\ DOMAIN q = DOMAIN s /\ q.queue = Tail(s.queue) /\ q.window = s.window /\ q.step = s.step
        /\ q.stepDots = s.stepDots /\ q.pushed = s.pushed /\ q.fetchReset = s.fetchReset
        /\ q.discardFetch = s.discardFetch /\ q.fifoLead = s.fifoLead
        /\ q.drawn = s.drawn /\ q.lastTile = s.lastTile
        /\ q.penaltyStarted = s.penaltyStarted /\ q.objectDots = s.objectDots
        /\ q.objectLeadDots = s.objectLeadDots
    BY <1>2, <1>5, <2>1 DEF EmitPixel, Drawn
  <2>7. \/ s.discard > 0 /\ q.discard = s.discard - 1 /\ q.pixelX = s.pixelX
        \/ ~(s.discard > 0) /\ q.discard = s.discard /\ q.pixelX = s.pixelX + 1
    BY <1>2, <1>5, <2>1 DEF EmitPixel, Drawn
  <2>8. FetchStallDots(q) = FetchStallDots(s) /\ FetchStallDots(s) \in Nat /\ s.stepDots \in {0, 1}
    BY <1>4, <2>6, StallTyped DEF FetchStallDots
  <2>9. Flow(q, 0)
    <3>1. q.queue # <<>> => Len(q.queue) >= FetchStallDots(q) + 0
      BY <1>9, <2>1, <2>4, <2>6, <2>8 DEF Flow
    <3>2. q.step = "Sleep" /\ q.pushed => Len(q.queue) >= 7 - q.stepDots + 0
      BY <1>9, <2>4, <2>6, <2>8 DEF Flow
    <3>3. /\ ~q.fetchReset /\ ~q.discardFetch /\ q.fifoLead \in Nat
          /\ (q.step = "Push" => ~q.pushed)
      BY <1>9, <2>3, <2>6 DEF Flow
    <3>4. QED
      BY <3>1, <3>2, <3>3 DEF Flow
  <2>10. Stall(q) = 0
    <3>1. Len(s.queue) >= FetchStallDots(s) + 1
      BY <1>9, <2>1 DEF Flow
    <3>2. QED
      BY <2>4, <2>6, <2>8, <3>1 DEF Stall
  <2>11. Stall(b) = 0 /\ Opening(q) = Opening(b) /\ Thrown(q) = q.discard
    BY <1>6, <1>9, <1>12, <2>3, <2>6 DEF Opening, Thrown
  <2>12. Balance(q) = Opening(b) + q.discard /\ Balance(b) = Opening(b) + s.discard
    BY <1>6, <1>10, <2>5, <2>10, <2>11 DEF Balance
  <2>13. /\ q.drawn = b.drawn /\ q.lastTile = b.lastTile /\ q.penaltyStarted = b.penaltyStarted
         /\ q.objectDots = 0 /\ q.objectLeadDots = 0 /\ q.window = b.window
    BY <1>9, <1>10, <2>6 DEF SameCharges
  <2>14. CASE s.discard > 0 /\ q.discard = s.discard - 1 /\ q.pixelX = s.pixelX
    <3>1. ObjectsLeft(q) = ObjectsLeft(b) /\ q.pixelX = b.pixelX
      BY <1>10, <2>13, <2>14, LeftSame
    <3>2. ~(q.pixelX > 0)
      BY <1>9, <1>10, <2>5, <2>14, <3>1 DEF Trimmed
    <3>3. Trimmed(q)
      BY <3>2 DEF Trimmed
    <3>4. Total(q) = Total(b) - 1
      BY <1>2, <1>6, <2>5, <2>12, <2>13, <2>14, <3>1 DEF Total
    <3>5. Thrown(q) >= Thrown(b) - 1
      BY <1>6, <2>5, <2>11, <2>14
    <3>6. QED
      BY <1>3, <1>6, <1>8, <2>9, <2>13, <3>1, <3>3, <3>4, <3>5
  <2>15. CASE ~(s.discard > 0) /\ q.discard = s.discard /\ q.pixelX = s.pixelX + 1
    <3>1. q.pixelX = b.pixelX + 1 /\ s.discard = 0
      BY <1>6, <1>10, <2>5, <2>15
    <3>2. ObjectsLeft(q) = ObjectsLeft(b)
      BY <1>2, <1>6, <2>2, <2>13, <3>1, LeftShown
    <3>3. Trimmed(q)
      BY <2>3, <2>6, <2>15, <3>1 DEF Trimmed
    <3>4. Total(q) = Total(b) - 1
      BY <1>2, <1>6, <2>5, <2>12, <2>13, <2>15, <3>1, <3>2 DEF Total
    <3>5. Thrown(q) >= Thrown(b) - 1
      BY <1>6, <2>5, <2>11, <2>15
    <3>6. q.pixelX <= Width
      BY <1>3, <1>6, <3>1
    <3>7. QED
      BY <1>8, <2>9, <2>10, <2>13, <3>3, <3>4, <3>5, <3>6
  <2>16. QED
    BY <2>7, <2>14, <2>15
<1>13. QED
  BY <1>11, <1>12

\* Every dot of the line, whatever it does, counts down by one what is left of it.
LEMMA DotTimes ==
  ASSUME LineTyped, NEW p, Picture(p), Timed(p), p.pixelX < Width
  PROVE  CountsDown(p, StepPipeline(p, regs))
<1> DEFINE q == StepPipeline(p, regs)
<1>1. /\ Drawn(p) /\ PipeInv(p) /\ FeedInv(p) /\ ObjectInv(p) /\ SettledInv(p)
      /\ (p.objectDots > 0 => p.penaltyStarted) /\ p.objectFetching \in BOOLEAN
      /\ (p.objectFetching => regs.objOn)
  BY DEF Picture, ObjectInv, FetchIsLast, DrawnInOrder
<1>2. PICK b, due : /\ Ready(p, b, due)
                    /\ Stalls(b, q) \/ StartsObject(b, due, q) \/ Draws(b, due, q)
  BY <1>1, DotForms
<1>3. PipeInv(q)
  BY <1>1, DotKeeps
<1> HIDE DEF q
<1>4. Counting(p, b)
  BY <1>2, DotCounts
<1>5. CASE Stalls(b, q)
  <2>1. Flowing(q)
    BY <1>1, <1>2, <1>5, StallFeeds
  <2>2. QED
    BY <1>2, <1>3, <1>4, <1>5, <2>1, StallTimes DEF q
<1>6. CASE StartsObject(b, due, q)
  <2>1. Flowing(q)
    BY <1>1, <1>2, <1>6, StartObjectFeeds
  <2>2. QED
    BY <1>2, <1>3, <1>4, <1>6, <2>1, TakeTimes DEF q
<1>7. CASE Draws(b, due, q)
  <2>1. Typed(q)
    BY <1>1, <1>2, <1>7, DrawFeeds DEF FeedInv, Typed
  <2>2. QED
    BY <1>2, <1>3, <1>4, <1>7, <2>1, DrawTimes DEF q
<1>8. QED
  BY <1>2, <1>5, <1>6, <1>7

-----------------------------------------------------------------------------
(* The end of mode 3.                                                      *)

\* The three dots the fetch of the line's first object gives, when the restart gives them too.
Spent == IF Sharing THEN 3 ELSE 0

\* Those of them that pass before the prediction falls to the lag.
SpentInMode == IF Sharing THEN Smaller(3, (SharedFrom + 2 - lineLag) \div 2) ELSE 0

Terms == SumOf(ModeThreeTerms(StartLine(regs)))

\* No line is shorter than its pixels and the first fetch.
LEMMA TermsTyped ==
  ASSUME LineTyped PROVE Terms \in Int /\ Terms >= Width + 12
<1> DEFINE p == StartLine(regs)
           d == ModeThreeTerms(p)
<1>1. p.lastTile \in Int
  BY DEF StartLine, NoTile
<1> HIDE DEF p
<1>2. /\ PendingPenalties(p, regs) \in Nat
      /\ Pending(p) # {} => PendingPenalties(p, regs) >= 6
  BY <1>1, LeftTyped
<1>3. d.minimum = Width + 12 /\ d.fine \in Nat /\ d.restart \in Nat /\ d.objects \in Nat
  BY <1>2, LineFacts, WidthAssumption
     DEF ModeThreeTerms, Fine, kWindowRestartDots, kObjectFetcherLead
<1> HIDE DEF d
<1>4. Terms = d.minimum + d.fine + d.restart + d.objects
  BY DEF Terms, SumOf, d, p
<1>5. QED
  BY <1>3, <1>4, WidthAssumption

\* The length of mode 3.
LEMMA LengthIs ==
  ASSUME LineTyped PROVE ModeThreeLength = Terms - SpentInMode
<1> DEFINE p == StartLine(regs)
           d == ModeThreeTerms(p)
<1>1. p.lastTile \in Int
  BY DEF StartLine, NoTile
<1>2. ModeThreeLength = Terms - (IF d.objects > 0 THEN SharedDots(p) ELSE 0)
  BY DEF ModeThreeLength, Terms
<1>3. Sharing <=> /\ WindowEnabled(regs) /\ regs.objOn /\ Pending(p) # {}
                  /\ Start = TriggerX(FirstFetched(Pending(p)))
  BY DEF Sharing
<1>4. SpentInMode
        = IF Sharing
          THEN Smaller(3, (Width - Start + PendingPenalties(p, regs) + 2 - lineLag) \div 2)
          ELSE 0
  BY DEF SpentInMode, SharedFrom
<1> HIDE DEF p
<1>5. Pending(p) # {} => PendingPenalties(p, regs) >= 6 /\ PendingPenalties(p, regs) \in Nat
  BY <1>1, LeftTyped
<1>6. d.objects > 0 <=> regs.objOn /\ Pending(p) # {}
  BY <1>5 DEF ModeThreeTerms, kObjectFetcherLead
<1> HIDE DEF d
<1>7. SharedDots(p)
        = IF WindowEnabled(regs) /\ Start = TriggerX(FirstFetched(Pending(p)))
          THEN Smaller(3, (Width - Start + PendingPenalties(p, regs) + 2 - lineLag) \div 2)
          ELSE 0
  BY DEF SharedDots, kObjectFetcherLead
<1>8. QED
  BY <1>2, <1>3, <1>4, <1>6, <1>7

\* Where the first object meets the window's start.
LEMMA SharedFacts ==
  ASSUME LineTyped, Sharing
  PROVE  /\ SharedFrom \in Int /\ SharedFrom >= 7 /\ Start \in 0 .. Width - 1
         /\ SharedFrom = Width - Start + PendingPenalties(StartLine(regs), regs)
         /\ PendingPenalties(StartLine(regs), regs) \in Nat
<1> DEFINE p == StartLine(regs)
           k == FirstFetched(Pending(p))
<1>1. p.lastTile \in Int /\ p.pixelX = 0 /\ p.drawn = {}
  BY DEF StartLine, NoTile
<1>2. Pending(p) # {} /\ Start = TriggerX(k)
  BY DEF Sharing
<1>3. SharedFrom = Width - Start + PendingPenalties(p, regs)
  BY DEF SharedFrom
<1> HIDE DEF p
<1>4. /\ Pending(p) \in SUBSET DOMAIN objects /\ PendingPenalties(p, regs) \in Nat
      /\ PendingPenalties(p, regs) >= 6
  BY <1>1, <1>2, LeftTyped
<1>5. k \in Pending(p)
  BY <1>2, <1>4, FirstOfThem
<1> HIDE DEF k
<1>6. Start \in 0 .. Width - 1
  BY <1>1, <1>2, <1>5 DEF Pending
<1>7. QED
  BY <1>3, <1>4, <1>6, WidthAssumption DEF p

\* The dots shared before mode 3 ends: half of those left, three at most.
LEMMA HalfOf ==
  ASSUME NEW c \in Int, NEW lag \in 0 .. 7, c >= 7
  PROVE  LET n == Smaller(3, (c + 2 - lag) \div 2)
         IN n \in 1 .. 3 /\ 2 * n <= c + 2 - lag /\ (n = 3 \/ 2 * n >= c + 1 - lag)
<1> DEFINE u == c + 2 - lag
           h == u \div 2
<1>1. u \in Int /\ u >= 2
  OBVIOUS
<1> HIDE DEF u
<1>2. h \in Int /\ 2 * h <= u /\ u <= 2 * h + 1
  BY <1>1
<1> HIDE DEF h
<1>3. Smaller(3, h) = IF 3 < h THEN 3 ELSE h
  BY DEF Smaller
<1>4. c + 1 - lag = u - 1
  BY DEF u
<1>5. QED
  BY <1>1, <1>2, <1>3, <1>4 DEF h, u

\* Three of the dots at most are shared.
LEMMA SpentTyped ==
  ASSUME LineTyped, lineLag \in 0 .. 7 PROVE SpentInMode \in 0 .. 3
<1>1. CASE Sharing
  <2> DEFINE n == Smaller(3, (SharedFrom + 2 - lineLag) \div 2)
  <2>1. SharedFrom \in Int /\ SharedFrom >= 7
    BY <1>1, SharedFacts
  <2>2. n \in 1 .. 3
    BY <2>1, HalfOf
  <2>3. SpentInMode = n
    BY <1>1 DEF SpentInMode
  <2> HIDE DEF n
  <2>4. QED
    BY <2>2, <2>3
<1>2. CASE ~Sharing
  BY <1>2 DEF SpentInMode
<1>3. QED
  BY <1>1, <1>2

\* No pixel is left to be thrown away but at the line's first.
LEMMA ThrownEarly ==
  ASSUME LineTyped, NEW p, Picture(p), Timed(p), Thrown(p) > 0
  PROVE  /\ p.pixelX = 0 /\ DotsLeft(p) >= Width - 3
         /\ p.penaltyStarted => DotsLeft(p) - p.objectLeadDots >= Width - 3
<1>1. /\ PipeInv(p) /\ Typed(p) /\ p.objectDots \in Nat /\ p.lastTile \in Int
      /\ p.objectLeadDots \in 0 .. 3 /\ p.objectLeadDots <= p.objectDots
  BY DEF Picture, FeedInv, Typed, Timed, LeadIsTimed
<1>2. p.pixelX = 0
  <2> SUFFICES ASSUME p.pixelX > 0 PROVE FALSE
    BY <1>1 DEF Typed
  <2>1. p.discard = 0 /\ ~p.discardFetch
    BY DEF Timed, Trimmed
  <2>2. QED
    BY <2>1 DEF Thrown
<1>3. /\ Stall(p) \in Nat /\ Opening(p) \in {0, 6} /\ Width \in Int
  BY <1>1, TotalTyped
<1>4. ObjectsLeft(p) \in Int /\ ObjectsLeft(p) >= -3
  BY <1>1, LeftTyped
<1>5. DotsLeft(p) = Width - p.pixelX + p.objectDots + Stall(p) + Opening(p) + ObjectsLeft(p)
  BY DEF DotsLeft
<1>6. QED
  BY <1>1, <1>2, <1>3, <1>4, <1>5

\* Nothing is left after the last pixel.
LEMMA NothingLeft ==
  ASSUME LineTyped, NEW p, Picture(p), Timed(p), p.pixelX = Width, Stall(p) = 0, p.objectDots = 0
  PROVE  DotsLeft(p) <= 0
<1>1. FeedInv(p) /\ p.lastTile \in Int /\ Width \in Nat \ {0}
  BY WidthAssumption DEF Picture, Timed, LeadIsTimed
<1>2. Opening(p) = 0
  <2> SUFFICES ASSUME ~p.window, WindowEnabled(regs), Start < Width PROVE FALSE
    BY DEF Opening
  <2>1. p.windowX \in Int /\ p.windowX <= regs.wx
    BY <1>1, NotLate DEF WindowConditions
  <2>2. p.windowX = Width + 7
    BY <1>1 DEF FeedInv, Prefetching, Streaming, InWindow
  <2>3. QED
    BY <1>1, <2>1, <2>2, LineFacts
<1>3. Pending(p) = {}
  BY <1>1 DEF Pending
<1>4. ObjectsLeft(p) = 0 - (IF p.penaltyStarted THEN 3 ELSE 0)
  BY <1>1, <1>3, LeftTyped DEF ObjectsLeft
<1>5. ObjectsLeft(p) \in Int /\ ObjectsLeft(p) <= 0
  BY <1>4
<1>6. QED
  BY <1>1, <1>2, <1>5 DEF DotsLeft

\* The dots left, before the first object meets the window.
LEMMA BeforeMeeting ==
  ASSUME LineTyped, NEW p, Picture(p), Timed(p), Sharing, ~p.penaltyStarted
  PROVE  DotsLeft(p) >= SharedFrom + 3
<1> DEFINE first == FirstFetched(Pending(StartLine(regs)))
<1>1. /\ PipeInv(p) /\ Typed(p) /\ p.objectDots = 0 /\ p.lastTile = NoTile /\ p.lastTile \in Int
      /\ p.drawn = {} /\ ~p.window /\ DrawnInOrder(p)
  BY DEF Picture, FeedInv, Typed, Timed, LeadIsTimed, ObjectInv
<1>2. /\ WindowEnabled(regs) /\ regs.objOn /\ Pending(StartLine(regs)) # {}
      /\ Start = TriggerX(first)
  BY DEF Sharing
<1>3. /\ Pending(p) = Pending(StartLine(regs)) /\ \A k \in Pending(p) : TriggerX(k) >= p.pixelX
      /\ PendingPenalties(p, regs) = PendingPenalties(StartLine(regs), regs)
  BY <1>1, <1>2, LeftAtFirst
<1>4. /\ SharedFrom \in Int /\ Start \in 0 .. Width - 1
      /\ SharedFrom = Width - Start + PendingPenalties(StartLine(regs), regs)
      /\ PendingPenalties(StartLine(regs), regs) \in Nat
  BY SharedFacts
<1>5. Start >= p.pixelX
  <2>1. Pending(p) \in SUBSET DOMAIN objects
    BY DEF Pending
  <2>2. first \in Pending(p)
    BY <1>2, <1>3, <2>1, FirstOfThem
  <2>3. QED
    BY <1>2, <1>3, <2>2
<1> HIDE DEF first
<1>6. Opening(p) = 6
  BY <1>1, <1>2, <1>4, WidthAssumption DEF Opening
<1>7. ObjectsLeft(p) = PendingPenalties(StartLine(regs), regs) - 3
  BY <1>2, <1>3 DEF ObjectsLeft
<1>8. Stall(p) \in Nat /\ p.pixelX \in Nat /\ Width \in Int
  BY <1>1, TotalTyped DEF Typed
<1>9. DotsLeft(p) = Width - p.pixelX + p.objectDots + Stall(p) + Opening(p) + ObjectsLeft(p)
  BY DEF DotsLeft
<1> DEFINE c == PendingPenalties(StartLine(regs), regs)
<1> HIDE DEF c
<1>10. c \in Nat /\ SharedFrom = Width - Start + c /\ ObjectsLeft(p) = c - 3
  BY <1>4, <1>7 DEF c
<1>11. QED
  BY <1>1, <1>4, <1>5, <1>6, <1>8, <1>9, <1>10

\* The prediction falls to the lag on the dot mode 3's length is spent.
LEMMA ModeIsPredicted ==
  ASSUME LineTyped, NEW p, NEW n \in Nat, Picture(p), Timed(p), lineLag \in 0 .. 7,
         p.pixelX <= Width, p.pixelX < Width \/ (Stall(p) = 0 /\ p.objectDots = 0),
         n + (Total(p) - Shared(p)) = lineLag + Terms - Spent
  PROVE  DotsRemaining(p, regs) <= lineLag \/ ~(p.pixelX < Width) <=> ~(n < ModeThreeLength)
<1> DEFINE d == DotsLeft(p)
           v == Thrown(p)
           sh == SpentInMode
           lag == lineLag
<1>1. /\ PipeInv(p) /\ FeedInv(p) /\ SettledInv(p) /\ Typed(p) /\ p.objectDots \in Nat
      /\ p.lastTile \in Int /\ LeadIsTimed(p) /\ p.pixelX \in Nat
      /\ p.objectLeadDots \in 0 .. 3 /\ p.penaltyStarted \in BOOLEAN
  BY DEF Picture, FeedInv, Typed, Timed, LeadIsTimed
<1>2. DotsRemaining(p, regs) = d
  BY <1>1, DotsAre DEF DotsLeft
<1>3. /\ d \in Int /\ v \in Nat /\ Total(p) = d + v /\ Width \in Int
  BY <1>1, TotalTyped
<1>4. sh \in 0 .. 3 /\ lag \in 0 .. 7 /\ Terms \in Int /\ ModeThreeLength = Terms - sh
      /\ Width > 10
  BY SpentTyped, TermsTyped, LengthIs, LagAssumption
<1>5. v > 0 => /\ p.pixelX = 0 /\ d >= Width - 3
               /\ p.penaltyStarted => d - p.objectLeadDots >= Width - 3
  BY ThrownEarly
<1>6. ~(p.pixelX < Width) => d <= 0
  BY <1>1, <1>3, NothingLeft
<1>7. Shared(p) \in 0 .. 3 /\ Spent \in {0, 3}
  BY <1>1 DEF Shared, Spent
<1> HIDE DEF d, v, sh, lag
<1>8. n < ModeThreeLength <=> d + v - Shared(p) > lag - Spent + sh
  <2>1. n = lag + Terms - Spent - (d + v - Shared(p))
    BY <1>3, <1>4, <1>7 DEF lag
  <2>2. QED
    BY <1>3, <1>4, <1>7, <2>1
<1>9. n < ModeThreeLength <=> d > lag
  <2>1. CASE ~Sharing
    <3>1. Shared(p) = 0 /\ Spent = 0 /\ sh = 0
      BY <2>1 DEF Shared, Spent, SpentInMode, sh
    <3>2. QED
      BY <1>3, <1>4, <1>5, <1>8, <3>1
  <2>2. CASE Sharing
    <3> DEFINE c == SharedFrom
    <3>1. c \in Int /\ c >= 7
      BY <2>2, SharedFacts
    <3>2. sh \in 1 .. 3 /\ 2 * sh <= c + 2 - lag /\ (sh = 3 \/ 2 * sh >= c + 1 - lag)
      BY <1>4, <2>2, <3>1, HalfOf DEF SpentInMode, sh, lag
    <3>3. Spent = 3
      BY <2>2 DEF Spent
    <3>4. CASE ~p.penaltyStarted
      <4>1. Shared(p) = 3
        BY <2>2, <3>4 DEF Shared
      <4>2. d >= c + 3
        BY <2>2, <3>4, BeforeMeeting DEF d
      <4> HIDE DEF c
      <4>3. d > lag
        BY <1>3, <1>4, <3>1, <4>2
      <4>4. d + v - Shared(p) > lag - Spent + sh
        BY <1>3, <1>4, <3>1, <3>2, <3>3, <4>1, <4>2
      <4>5. QED
        BY <1>8, <4>3, <4>4
    <3>5. CASE p.penaltyStarted /\ p.objectLeadDots > 0
      <4>1. Shared(p) = p.objectLeadDots
        BY <2>2, <3>5 DEF Shared
      <4>2. d = c - 4 + 2 * p.objectLeadDots
        BY <1>1, <2>2, <3>5 DEF LeadIsTimed, d
      <4> HIDE DEF c
      <4>3. p.objectLeadDots \in 1 .. 3
        BY <1>1, <3>5
      <4>4. CASE v > 0
        BY <1>3, <1>4, <1>5, <1>8, <3>2, <3>3, <3>5, <4>1, <4>3, <4>4
      <4>5. CASE v = 0
        <5>1. n < ModeThreeLength <=> d - p.objectLeadDots > lag - 3 + sh
          <6>1. d + v - Shared(p) = d - p.objectLeadDots
            BY <1>3, <4>1, <4>3, <4>5
          <6>2. QED
            BY <1>8, <3>3, <6>1
        <5>2. CASE p.objectLeadDots = 1
          BY <1>4, <3>1, <3>2, <4>2, <5>1, <5>2
        <5>3. CASE p.objectLeadDots = 2
          BY <1>4, <3>1, <3>2, <4>2, <5>1, <5>3
        <5>4. CASE p.objectLeadDots = 3
          BY <1>4, <3>1, <3>2, <4>2, <5>1, <5>4
        <5>5. QED
          BY <4>3, <5>2, <5>3, <5>4
      <4>6. QED
        BY <1>3, <4>4, <4>5
    <3>6. CASE p.penaltyStarted /\ ~(p.objectLeadDots > 0)
      <4>1. Shared(p) = 0
        BY <1>1, <2>2, <3>6 DEF Shared
      <4>2. d <= c - 4
        BY <1>1, <2>2, <3>6 DEF LeadIsTimed, d
      <4> HIDE DEF c
      <4>3. CASE v > 0
        BY <1>3, <1>4, <1>5, <1>8, <3>2, <3>3, <4>1, <4>3
      <4>4. CASE v = 0
        BY <1>3, <1>4, <1>8, <3>1, <3>2, <3>3, <4>1, <4>2, <4>4
      <4>5. QED
        BY <1>3, <4>3, <4>4
    <3>7. QED
      BY <3>4, <3>5, <3>6
  <2>3. QED
    BY <2>1, <2>2
<1>10. QED
  BY <1>2, <1>3, <1>4, <1>6, <1>9 DEF lag

\* The line's start: nothing of it has passed, and the prediction is the sum of the terms.
LEMMA StartTimed ==
  ASSUME LineTyped
  PROVE  /\ Timed(StartLine(regs)) /\ StartLine(regs).pixelX = 0
         /\ Total(StartLine(regs)) - Shared(StartLine(regs)) = Terms - Spent
         /\ Total(StartLine(regs)) \in Int /\ Shared(StartLine(regs)) \in Int
<1> DEFINE p == StartLine(regs)
           d == ModeThreeTerms(p)
<1>1. /\ p.queue = <<>> /\ p.step = "Tile" /\ p.stepDots = 0 /\ p.fetchReset = TRUE
      /\ p.discardFetch = TRUE /\ p.pushed = FALSE /\ p.fifoLead = 0 /\ p.pixelX = 0
      /\ p.window = FALSE /\ p.discard = 0 /\ p.penaltyStarted = FALSE /\ p.drawn = {}
      /\ p.lastTile = NoTile /\ p.objectDots = 0 /\ p.objectLeadDots = 0
  BY DEF StartLine
<1>2. PipeInv(p) /\ Typed(p)
  BY StartPictures DEF Picture, FeedInv, Typed
<1>3. NoTile \in Int
  BY DEF NoTile
<1>4. Shared(p) = Spent /\ Spent \in Int
  BY <1>1 DEF Shared, Spent
<1> HIDE DEF p
<1>5. FetchStallDots(p) = 12
  BY <1>1, StallIs
<1>6. Flow(p, 0) /\ Trimmed(p)
  BY <1>1 DEF Flow, Trimmed
<1>7. LeadIsTimed(p)
  <2>1. p.penaltyStarted \in BOOLEAN /\ ~p.penaltyStarted /\ ~p.window
    BY <1>1
  <2>2. QED
    BY <1>1, <1>3, <2>1 DEF LeadIsTimed
<1>8. Stall(p) = 12 /\ Thrown(p) = Fine
  BY <1>1, <1>5 DEF Stall, Thrown
<1>9. Opening(p) = d.restart /\ d.fine = Fine /\ d.minimum = Width + 12
  BY <1>1 DEF Opening, ModeThreeTerms, Fine, kWindowRestartDots
<1>10. /\ PendingPenalties(p, regs) \in Nat
       /\ Pending(p) = {} => PendingPenalties(p, regs) = 0
  BY <1>1, <1>3, LeftTyped
<1>11. ObjectsLeft(p) = d.objects /\ d.objects \in Int
  BY <1>1, <1>10 DEF ObjectsLeft, ModeThreeTerms, kObjectFetcherLead
<1>12. Opening(p) \in {0, 6} /\ Fine \in 0 .. 7 /\ Width \in Int
  BY LineFacts, WidthAssumption DEF Opening
<1>13. Terms = d.minimum + d.fine + d.restart + d.objects
  BY DEF Terms, SumOf, p
<1> HIDE DEF d
<1>14. Total(p) = Terms /\ Terms \in Int
  BY <1>1, <1>8, <1>9, <1>11, <1>12, <1>13 DEF Total, Balance
<1>15. QED
  BY <1>1, <1>4, <1>6, <1>7, <1>14 DEF p, Timed

\* The inductive invariant: the dots passed and the dots left make up the length, until a
\* register is written.
LineIsTimed ==
  /\ Timed(pipe) /\ lineLag \in 0 .. 7 /\ t \in Nat /\ renderLag \in Nat
  /\ rendering => pipe.pixelX < Width
  /\ renderLag > 0 => pipe = StartLine(regs) /\ t + renderLag = lineLag
  /\ renderLag = 0 => t + (Total(pipe) - Shared(pipe)) = lineLag + Terms - Spent
  /\ mode = 3 <=> t < ModeThreeLength

TimeInv == LineInv /\ (LineUndisturbed => LineIsTimed)

\* The same registers and objects cost the same, a step later.
LEMMA TimesMove ==
  ASSUME LineTyped, regs' = regs, objects' = objects, lineLag' = lineLag
  PROVE  /\ Timed(pipe') => Timed(pipe)'
         /\ Total(pipe)' = Total(pipe') /\ Shared(pipe)' = Shared(pipe')
         /\ Terms' = Terms /\ Spent' = Spent /\ ModeThreeLength' = ModeThreeLength
         /\ StartLine(regs)' = StartLine(regs)
<1>1. Penalties(regs)' = Penalties(regs)
  BY DEF Penalties, FirstFetched, TriggerX, ObjectPenalty, PenaltyTile
<1>2. /\ Start' = Start /\ WindowEnabled(regs)' = WindowEnabled(regs) /\ Fine' = Fine
      /\ StartLine(regs)' = StartLine(regs)
  BY DEF Start, WindowEnabled, Fine, StartLine
<1>3. Pending(StartLine(regs))' = Pending(StartLine(regs))
  BY <1>2 DEF Pending, TriggerX
<1>4. FirstFetched(Pending(StartLine(regs)))' = FirstFetched(Pending(StartLine(regs)))
  BY <1>3 DEF FirstFetched, TriggerX
<1>5. PendingPenalties(StartLine(regs), regs)' = PendingPenalties(StartLine(regs), regs)
  BY <1>1, <1>2, <1>3 DEF PendingPenalties
<1>6. Sharing' <=> Sharing
  BY <1>2, <1>3, <1>4 DEF Sharing, TriggerX
<1>7. Spent' = Spent /\ SharedFrom' = SharedFrom /\ Shared(pipe)' = Shared(pipe')
  BY <1>2, <1>5, <1>6 DEF Spent, SharedFrom, Shared
<1>8. /\ Pending(pipe)' = Pending(pipe')
      /\ PendingPenalties(pipe, regs)' = PendingPenalties(pipe', regs)
  <2>1. Pending(pipe)' = Pending(pipe')
    BY DEF Pending, TriggerX
  <2>2. QED
    BY <1>1, <2>1 DEF PendingPenalties
<1>9. ObjectsLeft(pipe)' = ObjectsLeft(pipe')
  BY <1>8 DEF ObjectsLeft
<1>10. /\ Stall(pipe)' = Stall(pipe') /\ Opening(pipe)' = Opening(pipe')
       /\ Thrown(pipe)' = Thrown(pipe')
  BY <1>2 DEF Stall, FetchStallDots, Opening, Thrown
<1>11. Total(pipe)' = Total(pipe') /\ DotsLeft(pipe)' = DotsLeft(pipe')
  BY <1>9, <1>10 DEF Total, DotsLeft, Balance
<1>12. Terms' = Terms
  BY <1>2, <1>3, <1>5 DEF Terms, SumOf, ModeThreeTerms
<1>13. ModeThreeLength' = ModeThreeLength
  BY <1>2, <1>3, <1>4, <1>5 DEF ModeThreeLength, SharedDots, ModeThreeTerms, SumOf, TriggerX
<1>14. Timed(pipe') => Timed(pipe)'
  <2>1. Flow(pipe', 0) => Flow(pipe, 0)'
    BY DEF Flow, FetchStallDots
  <2>2. Trimmed(pipe') => Trimmed(pipe)'
    BY DEF Trimmed
  <2>3. Flowing(pipe') => Flowing(pipe)'
    BY PhasesMove DEF Flowing, Typed
  <2>4. LeadIsTimed(pipe') => LeadIsTimed(pipe)'
    BY <1>6, <1>7, <1>11, <2>3 DEF LeadIsTimed, Idle, FetchStallDots, NoTile
  <2>5. QED
    BY <2>1, <2>2, <2>4 DEF Timed
<1>15. QED
  BY <1>2, <1>7, <1>11, <1>12, <1>13, <1>14

\* The lag is over: the dots left are the whole line's.
LEMMA LagIsOver ==
  ASSUME NEW dots \in Nat, NEW lag, NEW left, NEW sum \in Int, NEW spent \in Int,
         dots + 0 = lag, left = sum - spent
  PROVE  dots + left = lag + sum - spent
OBVIOUS

\* Mode 3 begins with the whole line left.
LEMMA TimeStarts == LineInit => TimeInv
<1> SUFFICES ASSUME LineInit PROVE TimeInv
  OBVIOUS
<1> DEFINE p == StartLine(regs)
<1>1. LineInv /\ LineUndisturbed /\ LineTyped
  BY LineStarts DEF LineInv, LineInit, LineUndisturbed
<1>2. /\ pipe = p /\ lineLag \in RenderLags /\ renderLag = lineLag /\ t = 0 /\ mode = 3
  BY DEF LineInit
<1>3. lineLag \in 0 .. 7 /\ Width > 10 /\ Width \in Nat
  BY <1>2, LagAssumption, WidthAssumption
<1>4. /\ Timed(p) /\ p.pixelX = 0 /\ Total(p) - Shared(p) = Terms - Spent
      /\ Total(p) \in Int /\ Shared(p) \in Int
  BY <1>1, StartTimed
<1>5. t < ModeThreeLength
  BY <1>1, <1>2, <1>3, LengthIs, TermsTyped, SpentTyped
<1>6. Terms \in Int /\ Spent \in Int
  BY <1>1, TermsTyped DEF Spent
<1> HIDE DEF p
<1>7. renderLag = 0 => t + (Total(pipe) - Shared(pipe)) = lineLag + Terms - Spent
  BY <1>2, <1>3, <1>4, <1>6
<1>8. LineIsTimed
  BY <1>2, <1>3, <1>4, <1>5, <1>7 DEF LineIsTimed, p
<1>9. QED
  BY <1>1, <1>8 DEF TimeInv

\* Every dot of an undisturbed line moves one from those left to those passed.
LEMMA TimeKeeps == TimeInv /\ [LineNext]_lineVars => TimeInv'
<1> SUFFICES ASSUME TimeInv, [LineNext]_lineVars PROVE TimeInv'
  OBVIOUS
<1>1. LineInv'
  BY LineKeepsPicture DEF TimeInv
<1>2. CASE WriteRegister
  <2>1. lineWrites' = lineWrites + 1 /\ lineWrites \in Nat
    BY <1>2 DEF WriteRegister, TimeInv, LineInv
  <2>2. QED
    BY <1>1, <2>1 DEF TimeInv, LineUndisturbed
<1>3. ASSUME regs' = regs, objects' = objects, lineLag' = lineLag, lineWrites' = lineWrites,
             LineUndisturbed /\ LineTyped /\ Picture(pipe) /\ LineIsTimed =>
               /\ Timed(pipe') /\ t' \in Nat /\ renderLag' \in Nat
               /\ rendering' => pipe'.pixelX < Width
               /\ renderLag' > 0 => pipe' = StartLine(regs) /\ t' + renderLag' = lineLag
               /\ renderLag' = 0 => t' + (Total(pipe') - Shared(pipe')) = lineLag + Terms - Spent
               /\ mode' = 3 <=> t' < ModeThreeLength
      PROVE  TimeInv'
  <2> SUFFICES ASSUME LineUndisturbed' PROVE LineIsTimed'
    BY <1>1 DEF TimeInv
  <2>1. LineUndisturbed /\ LineTyped /\ Picture(pipe) /\ LineIsTimed
    BY <1>3 DEF LineUndisturbed, TimeInv, LineInv
  <2>2. /\ Timed(pipe)' /\ Total(pipe)' = Total(pipe') /\ Shared(pipe)' = Shared(pipe')
        /\ Terms' = Terms /\ Spent' = Spent /\ ModeThreeLength' = ModeThreeLength
        /\ StartLine(regs)' = StartLine(regs)
    BY <1>3, <2>1, TimesMove
  <2>3. lineLag \in 0 .. 7
    BY <2>1 DEF LineIsTimed
  <2>4. QED
    BY <1>3, <2>1, <2>2, <2>3 DEF LineIsTimed
<1>4. CASE UNCHANGED lineVars
  <2>1. /\ regs' = regs /\ objects' = objects /\ lineLag' = lineLag /\ lineWrites' = lineWrites
        /\ pipe' = pipe /\ t' = t /\ renderLag' = renderLag /\ rendering' = rendering
        /\ mode' = mode
    BY <1>4 DEF lineVars
  <2>2. QED
    BY <1>3, <2>1 DEF LineIsTimed
<1>5. CASE LagDot
  <2>1. /\ regs' = regs /\ objects' = objects /\ lineLag' = lineLag /\ lineWrites' = lineWrites
        /\ t' = t + 1 /\ rendering' = rendering /\ mode' = mode
        /\ renderLag > 0 /\ renderLag' = renderLag - 1
        /\ pipe' = IF renderLag' = 0 THEN StartLine(regs) ELSE pipe
    BY <1>5 DEF LagDot, DotPasses
  <2> SUFFICES ASSUME LineUndisturbed, LineTyped, LineIsTimed
               PROVE  /\ Timed(pipe') /\ t' \in Nat /\ renderLag' \in Nat
                      /\ rendering' => pipe'.pixelX < Width
                      /\ renderLag' > 0 => pipe' = StartLine(regs) /\ t' + renderLag' = lineLag
                      /\ renderLag' = 0 =>
                           t' + (Total(pipe') - Shared(pipe')) = lineLag + Terms - Spent
                      /\ mode' = 3 <=> t' < ModeThreeLength
    BY <1>3, <2>1
  <2> DEFINE p == StartLine(regs)
  <2>2. /\ pipe = p /\ t + renderLag = lineLag /\ t \in Nat /\ renderLag \in Nat
        /\ lineLag \in 0 .. 7 /\ (mode = 3 <=> t < ModeThreeLength)
    BY <2>1 DEF LineIsTimed
  <2>3. pipe' = p
    BY <2>1, <2>2
  <2>4. /\ Timed(p) /\ p.pixelX = 0 /\ Total(p) - Shared(p) = Terms - Spent
        /\ Total(p) \in Int /\ Shared(p) \in Int
    BY StartTimed
  <2>5. Width > 10 /\ Width \in Nat /\ Terms \in Int /\ Spent \in Int
    BY LagAssumption, WidthAssumption, TermsTyped DEF Spent
  <2> HIDE DEF p
  <2>6. t + 1 < ModeThreeLength
    BY <2>1, <2>2, <2>5, LengthIs, TermsTyped, SpentTyped
  <2>7. t < ModeThreeLength
    BY <2>2, <2>5, <2>6, LengthIs, TermsTyped, SpentTyped
  <2>8. t' \in Nat /\ renderLag' \in Nat /\ t' + renderLag' = lineLag
    BY <2>1, <2>2
  <2>9. renderLag' = 0 => t' + (Total(p) - Shared(p)) = lineLag + Terms - Spent
    <3> DEFINE x == Total(p) - Shared(p)
    <3>1. x = Terms - Spent /\ x \in Int
      BY <2>4
    <3> HIDE DEF x
    <3>2. renderLag' = 0 => t' + x = lineLag + Terms - Spent
      <4> SUFFICES ASSUME renderLag' = 0 PROVE t' + x = lineLag + Terms - Spent
        OBVIOUS
      <4>1. t' + 0 = lineLag /\ t' \in Nat
        BY <2>8
      <4>2. QED
        BY <2>5, <3>1, <4>1, LagIsOver
    <3>3. QED
      BY <3>2 DEF x
  <2>10. pipe'.pixelX < Width
    BY <2>3, <2>4, <2>5
  <2>11. mode' = 3 /\ t' < ModeThreeLength
    BY <2>1, <2>2, <2>6, <2>7
  <2>12. QED
    BY <2>3, <2>4, <2>8, <2>9, <2>10, <2>11 DEF p
<1>6. CASE DrawDot
  <2>1. /\ regs' = regs /\ objects' = objects /\ lineLag' = lineLag /\ lineWrites' = lineWrites
        /\ t' = t + 1 /\ rendering /\ renderLag = 0 /\ renderLag' = renderLag
        /\ pipe' = StepPipeline(pipe, regs) /\ rendering' = (pipe'.pixelX < Width)
        /\ mode' = IF DotsRemaining(pipe', regs) <= lineLag \/ ~rendering' THEN 0 ELSE mode
    BY <1>6 DEF DrawDot, DotPasses
  <2> SUFFICES ASSUME LineUndisturbed, LineTyped, LineIsTimed, Picture(pipe)
               PROVE  /\ Timed(pipe') /\ t' \in Nat /\ renderLag' \in Nat
                      /\ rendering' => pipe'.pixelX < Width
                      /\ renderLag' > 0 => pipe' = StartLine(regs) /\ t' + renderLag' = lineLag
                      /\ renderLag' = 0 =>
                           t' + (Total(pipe') - Shared(pipe')) = lineLag + Terms - Spent
                      /\ mode' = 3 <=> t' < ModeThreeLength
    BY <1>3, <2>1
  <2>2. /\ Timed(pipe) /\ lineLag \in 0 .. 7 /\ t \in Nat /\ pipe.pixelX < Width
        /\ t + (Total(pipe) - Shared(pipe)) = lineLag + Terms - Spent
        /\ (mode = 3 <=> t < ModeThreeLength)
    BY <2>1 DEF LineIsTimed
  <2> DEFINE q == StepPipeline(pipe, regs)
  <2>3. /\ CountsDown(pipe, q) /\ Picture(q)
    BY <2>2, DotTimes, DotPictures
  <2> HIDE DEF q
  <2>4. /\ Timed(q) /\ Total(q) - Shared(q) = Total(pipe) - Shared(pipe) - 1 /\ q.pixelX <= Width
        /\ q.pixelX < Width \/ (Stall(q) = 0 /\ q.objectDots = 0)
    BY <2>3 DEF CountsDown
  <2>5. Total(pipe) - Shared(pipe) \in Int
    <3>1. Total(pipe) \in Int
      BY <2>2, TotalTyped DEF Picture, FeedInv, Typed, Timed, LeadIsTimed
    <3>2. Shared(pipe) \in Int
      BY <2>2 DEF Timed, LeadIsTimed, Shared
    <3>3. QED
      BY <3>1, <3>2
  <2>6. t + 1 \in Nat /\ (t + 1) + (Total(q) - Shared(q)) = lineLag + Terms - Spent
    <3> DEFINE x == Total(pipe) - Shared(pipe)
               y == Total(q) - Shared(q)
    <3>1. x \in Int /\ y = x - 1 /\ t + x = lineLag + Terms - Spent
      BY <2>2, <2>4, <2>5
    <3> HIDE DEF x, y
    <3>2. (t + 1) + y = lineLag + Terms - Spent /\ t + 1 \in Nat
      BY <2>2, <3>1
    <3>3. QED
      BY <3>2 DEF y
  <2>7. DotsRemaining(q, regs) <= lineLag \/ ~(q.pixelX < Width) <=> ~(t + 1 < ModeThreeLength)
    BY <2>2, <2>3, <2>4, <2>6, ModeIsPredicted
  <2>8. ModeThreeLength \in Int
    BY <2>2, LengthIs, TermsTyped, SpentTyped
  <2>9. pipe' = q
    BY <2>1 DEF q
  <2>10. mode' = 3 <=> t' < ModeThreeLength
    <3> DEFINE over == DotsRemaining(q, regs) <= lineLag \/ ~(q.pixelX < Width)
    <3>1. over <=> ~(t + 1 < ModeThreeLength)
      BY <2>7
    <3>2. DotsRemaining(pipe', regs) <= lineLag \/ ~rendering' <=> over
      BY <2>1, <2>9
    <3> HIDE DEF over
    <3>3. mode' = IF over THEN 0 ELSE mode
      BY <2>1, <3>2
    <3>4. CASE over
      BY <2>1, <3>1, <3>3, <3>4
    <3>5. CASE ~over
      <4>1. t < ModeThreeLength
        BY <2>2, <2>8, <3>1, <3>5
      <4>2. QED
        BY <2>1, <2>2, <3>1, <3>3, <3>5, <4>1
    <3>6. QED
      BY <3>4, <3>5
  <2>11. rendering' => pipe'.pixelX < Width
    BY <2>1
  <2>12. renderLag' = 0 /\ t' = t + 1
    BY <2>1
  <2>13. QED
    BY <2>4, <2>6, <2>9, <2>10, <2>11, <2>12
<1>7. QED
  BY <1>2, <1>4, <1>5, <1>6 DEF LineNext

\* On any line whose registers are left alone, mode 3 lasts exactly its minimum, the fine scroll,
\* the window's restart and the objects' penalties less the fetcher's three dots, and less the
\* dots shared where the first object meets the window's start: for any SCX, WX and objects, on
\* line 0 and on the others (PixelPipeline::dotsRemaining, and Ppu::stepDot, which ends the mode).
THEOREM ModeThreeIsExactAlways == LineSpec => []ModeThreeIsExact
<1>1. TimeInv => ModeThreeIsExact
  BY DEF TimeInv, LineIsTimed, ModeThreeIsExact
<1>2. QED
  BY <1>1, TimeStarts, TimeKeeps, PTL DEF LineSpec
=============================================================================
