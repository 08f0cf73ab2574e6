--------------------------- MODULE FrontEndProofs --------------------------
(* Theorems about what runs the machine and keeps its saves: the desktop's    *)
(* frame loop with its sound and its pace, for every length of a frame, every *)
(* device, every duration of a pass and every overrun of a sleep, and the     *)
(* page's saves, for every set of ROMs, every sharing of keys and file names  *)
(* and every size of RAM.                                                     *)
EXTENDS FrameLoop, WebSave, TLAPS

-----------------------------------------------------------------------------
(* The frame loop.  The desktop's policies keep apart, the queue stays short *)
(* and late passes are not made up for in a burst.                           *)

SoundInv ==
  /\ pending \in 0..Burst
  /\ queue \in Nat
  /\ LatencyIsBounded
  /\ PoliciesKeepApart

\* How far passes have run ahead of the clock is what the deadline still allows for: a
\* deadline that is near lets the next pass come soon, and only after passes that took
\* their time.  A pass that begins behind the clock owes its own period alone, however far
\* behind its deadline it is.
PaceInv ==
  /\ slack \in Int
  /\ lead \in Nat
  /\ slack <= Period
  /\ ~desktop => lead = 0
  /\ IF host = "events" THEN lead = 0 \/ lead < slack + Period
     ELSE lead <= Period \/ lead < slack + 2 * Period

-----------------------------------------------------------------------------
(* The two policies *)

LEMMA CorrectionIsSmall ==
  ASSUME NEW samples \in Nat, NEW queued \in Nat, NEW emulated \in BOOLEAN
  PROVE  LET count == CorrectedCount(samples, DriftCorrection(emulated, queued))
         IN /\ count \in Nat
            /\ count <= samples + 1
            /\ queued >= LowWater => count <= samples
BY PlaybackAssumption DEF CorrectedCount, DriftCorrection, LowWater, HighWater

\* A queue that was cut is in the band where no correction is due, whatever the clear left.
LEMMA CutIsQuiet ==
  ASSUME NEW emulated \in BOOLEAN, NEW rest \in Nat, rest <= HighWater
  PROVE  /\ Reprimed(rest) \in Nat
         /\ LowWater <= Reprimed(rest) /\ Reprimed(rest) <= HighWater
         /\ DriftCorrection(emulated, Reprimed(rest)) = "none"
<1>1. /\ Target \in Nat /\ LowWater \in Nat /\ HighWater \in Nat
      /\ LowWater <= Target /\ Target <= HighWater
  BY PlaybackAssumption DEF Target, LowWater, HighWater
<1>2. Reprimed(rest) \in Nat /\ LowWater <= Reprimed(rest) /\ Reprimed(rest) <= HighWater
  BY <1>1 DEF Reprimed
<1>3. ~(Reprimed(rest) > HighWater) /\ ~(Reprimed(rest) < LowWater)
  BY <1>1, <1>2
<1>4. DriftCorrection(emulated, Reprimed(rest)) = "none"
  BY <1>3 DEF DriftCorrection
<1> QED
  BY <1>2, <1>4

LEMMA RestIsSmall == ASSUME NEW rest \in Remainders PROVE rest \in Nat /\ rest <= HighWater
BY RemaindersAssumption, PlaybackAssumption DEF HighWater

LEMMA PushKeeps ==
  ASSUME pending \in 0..Burst, paused \in BOOLEAN, NEW left \in Nat, NEW rest \in Nat,
         rest <= HighWater, PushSound(left, rest)
  PROVE  /\ queue' \in Nat
         /\ queue' <= MaxQueued + Burst
         /\ trimmed' => corrected' = "none"
<1> DEFINE from == IF ExcessQueued(left) > 0 THEN Reprimed(rest) ELSE left
           count == CorrectedCount(pending, corrected')
<1>1. /\ trimmed' = (ExcessQueued(left) > 0)
      /\ corrected' = DriftCorrection(~paused, from)
      /\ queue' = from + count
  BY DEF PushSound
<1>2. /\ Target \in Nat /\ LowWater \in Nat /\ MaxQueued \in Nat /\ HighWater \in Nat
      /\ Target < MaxQueued /\ LowWater < MaxQueued /\ HighWater <= MaxQueued
  BY PlaybackAssumption DEF Target, LowWater, HighWater, MaxQueued
<1>3. from \in Nat /\ from <= MaxQueued /\ (trimmed' => from = Reprimed(rest))
  <2>1. CASE left <= MaxQueued
    <3>1. ExcessQueued(left) = 0
      BY <2>1 DEF ExcessQueued
    <3>2. (ExcessQueued(left) > 0) = FALSE
      BY <3>1
    <3>3. from = left
      BY <3>2, Zenon
    <3>4. trimmed' = FALSE
      BY <1>1, <3>2, Zenon
    <3> QED
      BY <2>1, <3>3, <3>4
  <2>2. CASE left > MaxQueued
    <3>1. ExcessQueued(left) > 0
      BY <1>2, <2>2 DEF ExcessQueued
    <3> QED
      BY <1>2, <3>1, CutIsQuiet
  <2> QED
    BY <1>2, <2>1, <2>2
<1> HIDE DEF from
<1>4. /\ count \in Nat /\ count <= pending + 1
      /\ from >= LowWater => count <= pending
  <2>1. pending \in Nat /\ (~paused) \in BOOLEAN
    BY FrameLoopAssumption
  <2>2. count = CorrectedCount(pending, DriftCorrection(~paused, from))
    BY <1>1
  <2> QED
    BY <1>3, <2>1, <2>2, CorrectionIsSmall
<1>5. pending \in Nat /\ pending <= Burst /\ Burst \in Nat
  BY FrameLoopAssumption
<1> HIDE DEF count
<1>6. queue' \in Nat /\ queue' <= MaxQueued + Burst
  BY <1>1, <1>2, <1>3, <1>4, <1>5
<1>7. trimmed' => corrected' = "none"
  BY <1>1, <1>3, CutIsQuiet
<1> QED
  BY <1>6, <1>7

-----------------------------------------------------------------------------
(* The sound *)

LEMMA SoundInit == LoopInit => SoundInv /\ paused \in BOOLEAN
<1> SUFFICES ASSUME LoopInit PROVE SoundInv /\ paused \in BOOLEAN
  OBVIOUS
<1>1. pending = 0 /\ trimmed = FALSE /\ paused = FALSE
  BY DEF LoopInit
<1>2. queue = Target \/ queue = 0
  BY DEF LoopInit
<1>3. queue \in Nat /\ queue <= MaxQueued + Burst
  BY <1>2, PlaybackAssumption, FrameLoopAssumption DEF Target, MaxQueued
<1>4. pending \in 0..Burst
  BY <1>1, FrameLoopAssumption
<1>5. paused \in BOOLEAN
  BY <1>1
<1>6. PoliciesKeepApart
  BY <1>1 DEF PoliciesKeepApart
<1> QED
  BY <1>3, <1>4, <1>5, <1>6 DEF SoundInv, LatencyIsBounded

LEMMA ClearedIsLow ==
  ASSUME queue \in Nat, NEW rest \in Remainders
  PROVE  Cleared(rest) \in Nat /\ Cleared(rest) <= MaxQueued + Burst
<1>1. rest \in Nat /\ rest <= HighWater
  BY RestIsSmall
<1> DEFINE left == IF rest < queue THEN rest ELSE queue
<1>2. left \in Nat /\ left <= HighWater
  BY <1>1, PlaybackAssumption DEF HighWater
<1> HIDE DEF left
<1>3. Reprimed(left) \in Nat /\ Reprimed(left) <= HighWater
  BY <1>2, CutIsQuiet
<1>4. HighWater \in Nat /\ MaxQueued \in Nat /\ HighWater <= MaxQueued /\ Burst \in Nat
  BY PlaybackAssumption, FrameLoopAssumption DEF HighWater, MaxQueued
<1> QED
  BY <1>3, <1>4 DEF Cleared, left

LEMMA SoundNext ==
  ASSUME SoundInv, paused \in BOOLEAN, [LoopNext]_loopVars
  PROVE  SoundInv' /\ paused' \in BOOLEAN
<1> USE DEF SoundInv, LatencyIsBounded, PoliciesKeepApart
<1>1. CASE UNCHANGED <<paused, sound>>
  BY <1>1 DEF sound
<1>2. ASSUME NEW rest \in Remainders, TogglePause(rest)
      PROVE  SoundInv' /\ paused' \in BOOLEAN
  <2>1. queue' = queue \/ queue' = Cleared(rest)
    BY <1>2 DEF TogglePause
  <2>2. pending' = pending /\ corrected' = corrected /\ trimmed' = trimmed
    BY <1>2 DEF TogglePause
  <2>3. paused' \in BOOLEAN
    BY <1>2 DEF TogglePause
  <2> QED
    BY <2>1, <2>2, <2>3, ClearedIsLow
<1>3. ASSUME NEW rest \in Remainders, DesktopReset(rest)
      PROVE  SoundInv' /\ paused' \in BOOLEAN
  <2>1. queue' = queue \/ queue' = Cleared(rest)
    BY <1>3 DEF DesktopReset
  <2>2. corrected' = corrected /\ trimmed' = trimmed
    BY <1>3 DEF DesktopReset
  <2>3. paused' \in BOOLEAN
    BY <1>3 DEF DesktopReset
  <2>4. pending' \in 0..Burst
    BY <1>3, FrameLoopAssumption DEF DesktopReset
  <2> QED
    BY <2>1, <2>2, <2>3, <2>4, ClearedIsLow
<1>4. CASE DesktopStep
  <2>1. /\ pending' = IF pending < Burst THEN pending + 1 ELSE Burst
        /\ UNCHANGED <<paused, queue, corrected, trimmed>>
    BY <1>4 DEF DesktopStep
  <2> QED
    BY <2>1, FrameLoopAssumption
<1>5. ASSUME NEW played \in Played, NEW rest \in Remainders, DesktopPresent(played, rest)
      PROVE  SoundInv' /\ paused' \in BOOLEAN
  <2> DEFINE left == IF queue > played THEN queue - played ELSE 0
  <2>1. left \in Nat
    BY ClocksAssumption
  <2>2. pending' = 0 /\ paused' = paused
    BY <1>5 DEF DesktopPresent
  <2>3. CASE open
    <3>1. PushSound(left, rest)
      BY <1>5, <2>3 DEF DesktopPresent
    <3> HIDE DEF left
    <3>2. /\ queue' \in Nat /\ queue' <= MaxQueued + Burst
          /\ trimmed' => corrected' = "none"
      BY <2>1, <3>1, RestIsSmall, PushKeeps
    <3> QED
      BY <2>2, <3>2, FrameLoopAssumption
  <2>4. CASE ~open
    BY <1>5, <2>2, <2>4, FrameLoopAssumption DEF DesktopPresent
  <2> QED
    BY <2>3, <2>4
<1>6. CASE Press \/ PressOther \/ PageReset \/ Pass \/ WebStep \/ WebPresent
  BY <1>1, <1>6 DEF Press, PressOther, PageReset, Pass, DesktopPass, WebPass, WebStep,
                    WebPresent, sound
<1>7. ASSUME NEW duration, NEW over, Pace(duration, over)
      PROVE  UNCHANGED <<paused, sound>>
  BY <1>7 DEF Pace
<1>8. CASE UNCHANGED loopVars
  BY <1>1, <1>8 DEF loopVars
<1> QED
  BY <1>1, <1>2, <1>3, <1>4, <1>5, <1>6, <1>7, <1>8 DEF LoopNext, Key, Step, Present

-----------------------------------------------------------------------------
(* The clock *)

LEMMA PaceInit == LoopInit => PaceInv
BY PlaybackAssumption DEF LoopInit, PaceInv

\* The pass at hand is a period further on.
LEMMA PaceBegins == ASSUME PaceInv, DesktopPass PROVE PaceInv'
<1>1. slack' = slack /\ desktop' = desktop /\ desktop /\ host = "events" /\ host' # "events"
  BY DEF DesktopPass, front
<1>2. lead' = lead \/ lead' = lead + Period
  BY DEF DesktopPass
<1> QED
  BY <1>1, <1>2, PlaybackAssumption DEF PaceInv

\* It ends early, late, or too late for its lag to be kept; a sleep that is too long brings
\* the deadline nearer by as much as it gives the clock.
LEMMA PaceStep ==
  ASSUME PaceInv, NEW duration \in Nat, NEW over \in Nat, Pace(duration, over)
  PROVE  PaceInv'
<1> DEFINE left == slack - duration
           late == IF Sleep(left) > 0 THEN over ELSE 0
           slept == Sleep(left) + late
<1>1. /\ slack' = NextSlack(left) - late /\ lead' = Drained(duration + slept)
      /\ host' = "events" /\ desktop'
  <2>1. Sleep(left) \in Int /\ late \in Int
    BY DEF Sleep, PaceInv
  <2>2. /\ slack' = NextSlack(left) - (slept - Sleep(left))
        /\ lead' = Drained(duration + slept) /\ host' = "events" /\ desktop'
    BY DEF Pace, front
  <2>3. slept - Sleep(left) = late
    BY <2>1
  <2> QED
    BY <2>2, <2>3
<1>2. /\ left \in Int /\ Period \in Nat /\ Period > 1
      /\ slack \in Int /\ lead \in Nat /\ slack <= Period
      /\ lead <= Period \/ lead < slack + 2 * Period
  <2>1. host = "pace"
    BY DEF Pace
  <2> QED
    BY <2>1, PlaybackAssumption DEF PaceInv
<1>3. CASE left > 0
  <2>1. slack' = Period - over /\ lead' = Drained(slack + over)
    BY <1>1, <1>2, <1>3 DEF Sleep, NextSlack
  <2> QED
    BY <1>1, <1>2, <1>3, <2>1 DEF PaceInv, Drained
<1>4. CASE left <= -Period
  <2>1. slack' = Period /\ lead' = Drained(duration)
    BY <1>1, <1>2, <1>4 DEF Sleep, NextSlack
  <2> QED
    BY <1>1, <1>2, <1>4, <2>1 DEF PaceInv, Drained
<1>5. CASE left <= 0 /\ left > -Period
  <2>1. slack' = left + Period /\ lead' = Drained(duration)
    BY <1>1, <1>2, <1>5 DEF Sleep, NextSlack
  <2> QED
    BY <1>1, <1>2, <1>5, <2>1 DEF PaceInv, Drained
<1> QED
  BY <1>2, <1>3, <1>4, <1>5

LEMMA PaceNext ==
  ASSUME PaceInv, [LoopNext]_loopVars
  PROVE  PaceInv'
<1>1. ASSUME UNCHANGED <<pace, desktop>>, host = "events" <=> host' = "events" PROVE PaceInv'
  BY <1>1 DEF pace, PaceInv
<1>2. ASSUME NEW duration \in Durations, NEW over \in Overruns, Pace(duration, over)
      PROVE  PaceInv'
  BY <1>2, PaceStep, ClocksAssumption
<1>3. CASE DesktopPass
  BY <1>3, PaceBegins
<1>4. CASE Press \/ PressOther \/ PageReset \/ DesktopStep
  BY <1>1, <1>4 DEF Press, PressOther, PageReset, DesktopStep, front, pace
<1>5. ASSUME NEW rest, TogglePause(rest) \/ DesktopReset(rest)
      PROVE  PaceInv'
  BY <1>1, <1>5 DEF TogglePause, DesktopReset, front, pace
<1>6. ASSUME NEW played, NEW rest, DesktopPresent(played, rest)
      PROVE  PaceInv'
  BY <1>1, <1>6 DEF DesktopPresent, front, pace
<1>7. CASE WebPass \/ WebStep \/ WebPresent
  <2>1. UNCHANGED <<slack, lead, desktop>> /\ ~desktop
    BY <1>7 DEF WebPass, WebStep, WebPresent, front, pace
  <2> QED
    BY <2>1, PlaybackAssumption DEF PaceInv
<1>8. CASE UNCHANGED loopVars
  BY <1>1, <1>8 DEF loopVars, front
<1> QED
  BY <1>2, <1>3, <1>4, <1>5, <1>6, <1>7, <1>8 DEF LoopNext, Key, Pass, Step, Present

-----------------------------------------------------------------------------
\* A pass that cut the backlog corrects no drift, for every depth of the queue.
THEOREM PoliciesKeepApartAlways == LoopSpec => []PoliciesKeepApart
<1>1. SoundInv /\ paused \in BOOLEAN /\ [LoopNext]_loopVars => (SoundInv /\ paused \in BOOLEAN)'
  BY SoundNext
<1>2. SoundInv => PoliciesKeepApart
  BY DEF SoundInv
<1> QED
  BY <1>1, <1>2, SoundInit, PTL DEF LoopSpec

\* The queue holds one pass's sound beyond the ceiling at most, whatever the device plays.
THEOREM LatencyIsBoundedAlways == LoopSpec => []LatencyIsBounded
<1>1. SoundInv /\ paused \in BOOLEAN /\ [LoopNext]_loopVars => (SoundInv /\ paused \in BOOLEAN)'
  BY SoundNext
<1>2. SoundInv => LatencyIsBounded
  BY DEF SoundInv
<1> QED
  BY <1>1, <1>2, SoundInit, PTL DEF LoopSpec

\* Passes never run ahead of the clock by three frames, however long each of them takes and
\* however long every sleep overruns.
THEOREM NoBurstOfPassesAlways == LoopSpec => []NoBurstOfPasses
<1>1. PaceInv /\ [LoopNext]_loopVars => PaceInv'
  BY PaceNext
<1>2. PaceInv => NoBurstOfPasses
  BY PlaybackAssumption DEF PaceInv, NoBurstOfPasses
<1> QED
  BY <1>1, <1>2, PaceInit, PTL DEF LoopSpec

-----------------------------------------------------------------------------
(* The page's saves.                                                       *)

\* The snapshot is under the cartridge's key; under its file name only while the key is
\* free, which is what makes restoring find it.
SnapshotIsFound ==
  rom # NoRom /\ rom \in Battery /\ savedSnapshot # None =>
    \/ stored[CartId[rom]] = savedSnapshot
    \/ stored[CartId[rom]] = None /\ legacy[Name[rom]] = savedSnapshot

SaveInv == TypeOK /\ SnapshotIsFound

-----------------------------------------------------------------------------
LEMMA KeyType == ASSUME NEW r \in Roms PROVE CartId[r] \in Ids /\ Name[r] \in Names
BY DEF Ids, Names

LEMMA ImageType == ASSUME NEW r \in Roms, NEW v \in Values PROVE Image(r, v) \in Save /\ Image(r, v) # None
BY WebSaveAssumption DEF Image, Save, None

LEMMA InitSaveInv == Init => SaveInv
<1> SUFFICES ASSUME Init PROVE SaveInv
  OBVIOUS
<1>1. \A r \in Battery, v \in Values : Image(r, v) \in Save
  BY ImageType, WebSaveAssumption
<1>2. legacy \in [Names -> Save \cup {None}]
  BY <1>1 DEF Init
<1>3. TypeOK
  BY <1>2, WebSaveAssumption DEF Init, TypeOK
<1>4. QED
  BY <1>3 DEF Init, SaveInv, SnapshotIsFound

-----------------------------------------------------------------------------
\* Restoring over saves of the right type leaves saves of the right type, and a snapshot
\* that will be found again, if the one it was given was.
LEMMA RestoreKeeps ==
  ASSUME NEW r \in Roms, NEW storage \in [Ids -> Save \cup {None}],
         NEW snapshot \in Save \cup {None},
         legacy \in [Names -> Save \cup {None}],
         RestoreSave(r, storage, snapshot),
         r \in Battery /\ snapshot # None =>
           \/ storage[CartId[r]] = snapshot
           \/ storage[CartId[r]] = None /\ legacy[Name[r]] = snapshot
  PROVE  /\ stored' \in [Ids -> Save \cup {None}]
         /\ legacy' \in [Names -> Save \cup {None}]
         /\ ram' \in Values
         /\ savedSnapshot' \in Save \cup {None}
         /\ r \in Battery /\ savedSnapshot' # None =>
              \/ stored'[CartId[r]] = savedSnapshot'
              \/ stored'[CartId[r]] = None /\ legacy'[Name[r]] = savedSnapshot'
<1> DEFINE id == CartId[r]
           old == storage[id] = None /\ legacy[Name[r]] # None
           raw == IF old THEN legacy[Name[r]] ELSE storage[id]
           fits == raw # None /\ raw.size = RamSize[r]
<1>1. id \in Ids /\ Name[r] \in Names /\ raw \in Save \cup {None}
  BY KeyType
<1>2. fits => raw.value \in Values
  BY <1>1 DEF Save, None
<1>3. CASE r \notin Battery
  BY <1>3, WebSaveAssumption DEF RestoreSave
<1>4. CASE r \in Battery
  <2>1. /\ \/ /\ stored' = [storage EXCEPT ![id] = raw]
              /\ legacy' = IF old THEN [legacy EXCEPT ![Name[r]] = None] ELSE legacy
           \/ old /\ stored' = storage /\ legacy' = legacy
        /\ ram' = IF fits THEN raw.value ELSE Fresh
        /\ savedSnapshot' = IF fits THEN raw ELSE snapshot
    BY <1>4 DEF RestoreSave
  <2>2. ram' \in Values /\ savedSnapshot' \in Save \cup {None}
    BY <1>1, <1>2, <2>1, WebSaveAssumption
  <2>3. stored' \in [Ids -> Save \cup {None}] /\ legacy' \in [Names -> Save \cup {None}]
    BY <1>1, <2>1
  <2>4. \/ stored'[id] = raw
        \/ stored'[id] = None /\ legacy'[Name[r]] = raw
    BY <1>1, <2>1
  <2>5. snapshot # None => raw = snapshot
    BY <1>4
  <2>6. savedSnapshot' # None => savedSnapshot' = raw
    BY <2>1, <2>5
  <2>7. QED
    BY <2>2, <2>3, <2>4, <2>6
<1>5. QED
  BY <1>3, <1>4

LEMMA LoadSaveInv ==
  ASSUME SaveInv, NEW r \in Roms, Load(r),
         remembered' \in Roms \cup {NoRom}, page' \in BOOLEAN
  PROVE  SaveInv'
<1>1. /\ stored \in [Ids -> Save \cup {None}] /\ legacy \in [Names -> Save \cup {None}]
      /\ None \in Save \cup {None}
  BY DEF SaveInv, TypeOK
<1>2. rom' = r /\ cartId' = r /\ RestoreSave(r, stored, None)
  BY DEF Load
<1>3. QED
  BY <1>1, <1>2, RestoreKeeps DEF SaveInv, TypeOK, SnapshotIsFound

LEMMA FlushSaveInv == ASSUME SaveInv, NEW lands \in BOOLEAN, Flush(lands) PROVE SaveInv'
<1>1. legacy' = legacy /\ page' = page /\ rom' = rom /\ cartId' = cartId /\ ram' = ram
  BY DEF Flush
<1>2. remembered' \in Roms \cup {NoRom}
  BY DEF SaveInv, TypeOK, Flush, PersistSave
<1>3. CASE stored' = stored /\ savedSnapshot' = savedSnapshot
  BY <1>1, <1>2, <1>3 DEF SaveInv, TypeOK, SnapshotIsFound
<1>4. CASE MustPersist(rom, ram) /\ lands
  <2>1. rom \in Roms /\ cartId = rom /\ ram \in Values
    BY <1>4 DEF MustPersist, SaveInv, TypeOK
  <2>2. Image(rom, ram) \in Save /\ CartId[rom] \in Ids
    BY <2>1, ImageType, KeyType
  <2>3. stored' = [stored EXCEPT ![CartId[rom]] = Image(rom, ram)]
        /\ savedSnapshot' = Image(rom, ram)
    BY <1>4, <2>1 DEF Flush, PersistSave
  <2>4. QED
    BY <1>1, <1>2, <2>2, <2>3 DEF SaveInv, TypeOK, SnapshotIsFound
<1>5. QED
  BY <1>3, <1>4 DEF Flush, PersistSave

\* What a reset restores from: the save it has just written, or the one there was.
LEMMA ResetSaveInv == ASSUME SaveInv, NEW lands \in BOOLEAN, Reset(lands) PROVE SaveInv'
<1> DEFINE written == MustPersist(rom, ram) /\ lands
           storage == IF written THEN [stored EXCEPT ![CartId[cartId]] = Image(rom, ram)] ELSE stored
           snapshot == IF written THEN Image(rom, ram) ELSE savedSnapshot
<1>1. rom \in Roms /\ cartId = rom /\ ram \in Values /\ CartId[rom] \in Ids
      /\ Image(rom, ram) \in Save
  <2>1. rom \in Roms /\ cartId = rom /\ ram \in Values
    BY DEF Reset, SaveInv, TypeOK
  <2>2. QED
    BY <2>1, KeyType, ImageType
<1>2. RestoreSave(rom, storage, snapshot) /\ rom' = rom /\ cartId' = cartId /\ page' = page
  BY DEF Reset
<1>3. remembered' \in Roms \cup {NoRom}
  BY DEF Reset, SaveInv, TypeOK
<1>4. storage \in [Ids -> Save \cup {None}] /\ snapshot \in Save \cup {None}
      /\ legacy \in [Names -> Save \cup {None}]
  BY <1>1 DEF SaveInv, TypeOK
<1>5. rom \in Battery /\ snapshot # None =>
        \/ storage[CartId[rom]] = snapshot
        \/ storage[CartId[rom]] = None /\ legacy[Name[rom]] = snapshot
  BY <1>1 DEF SaveInv, TypeOK, SnapshotIsFound, Reset
<1> HIDE DEF storage, snapshot
<1>6. QED
  BY <1>1, <1>2, <1>3, <1>4, <1>5, RestoreKeeps DEF SaveInv, TypeOK, SnapshotIsFound

-----------------------------------------------------------------------------
LEMMA NextSaveInv == SaveInv /\ [Next]_vars => SaveInv'
<1> SUFFICES ASSUME SaveInv, [Next]_vars PROVE SaveInv'
  OBVIOUS
<1>1. CASE UNCHANGED vars
  BY <1>1 DEF vars, SaveInv, TypeOK, SnapshotIsFound
<1>2. ASSUME NEW r \in Roms, OpenRom(r) PROVE SaveInv'
  BY <1>2, LoadSaveInv DEF OpenRom, SaveInv, TypeOK
<1>3. CASE OpenFails
  BY <1>3, WebSaveAssumption DEF OpenFails, SaveInv, TypeOK, SnapshotIsFound
<1>4. CASE OpenPage
  <2>1. CASE remembered = NoRom
    BY <1>4, <2>1 DEF OpenPage, SaveInv, TypeOK, SnapshotIsFound
  <2>2. CASE remembered # NoRom
    BY <1>4, <2>2, LoadSaveInv DEF OpenPage, SaveInv, TypeOK
  <2>3. QED
    BY <2>1, <2>2
<1>5. CASE GameWrites
  BY <1>5 DEF GameWrites, SaveInv, TypeOK, SnapshotIsFound
<1>6. ASSUME NEW lands \in BOOLEAN, Flush(lands) \/ Reset(lands) PROVE SaveInv'
  BY <1>6, FlushSaveInv, ResetSaveInv
<1>7. CASE PageGone
  BY <1>7, WebSaveAssumption DEF PageGone, SaveInv, TypeOK, SnapshotIsFound
<1>8. QED
  BY <1>1, <1>2, <1>3, <1>4, <1>5, <1>6, <1>7 DEF Next

LEMMA SpecSaveInv == Spec => []SaveInv
BY InitSaveInv, NextSaveInv, PTL DEF Spec

\* Saves, keys and RAM keep their types; the key is the loaded cartridge's.
THEOREM TypeCorrect == Spec => []TypeOK
<1>1. SaveInv => TypeOK
  BY DEF SaveInv
<1>2. QED
  BY <1>1, SpecSaveInv, PTL

\* A flush that is skipped because of the snapshot has nothing left to store
\* (fourshades.js:276, 334-340, 346-348, 399-402).
THEOREM SnapshotIsStoredAlways == Spec => []SnapshotIsStored
<1>1. SaveInv => SnapshotIsStored
  BY DEF SaveInv, SnapshotIsFound, SnapshotIsStored
<1>2. QED
  BY <1>1, SpecSaveInv, PTL

\* A reset that can write brings the battery's RAM back, whether it wrote it, had it
\* under the key or still has it under the file's name (fourshades.js:285-293).
THEOREM ResetKeepsRamAlways == Spec => ResetKeepsRam
<1> DEFINE Kept == Reset(TRUE) /\ rom \in Battery /\ RamSize[rom] > 0 => ram' = ram
<1>1. ASSUME SaveInv, Reset(TRUE), rom \in Battery, RamSize[rom] > 0 PROVE ram' = ram
  <2> DEFINE written == MustPersist(rom, ram)
             storage == IF written THEN [stored EXCEPT ![CartId[cartId]] = Image(rom, ram)]
                        ELSE stored
             snapshot == IF written THEN Image(rom, ram) ELSE savedSnapshot
             id == CartId[rom]
             old == storage[id] = None /\ legacy[Name[rom]] # None
             raw == IF old THEN legacy[Name[rom]] ELSE storage[id]
  <2>1. rom \in Roms /\ rom # NoRom /\ cartId = rom /\ ram \in Values /\ id \in Ids
        /\ stored \in [Ids -> Save \cup {None}]
    BY <1>1, KeyType DEF Reset, SaveInv, TypeOK
  <2>2. RestoreSave(rom, storage, snapshot)
    BY <1>1 DEF Reset
  <2>3. Image(rom, ram) # None
    BY <2>1, ImageType
  <2>4. raw = Image(rom, ram)
    <3>1. CASE written
      BY <2>1, <2>3, <3>1
    <3>2. CASE ~written
      <4>1. savedSnapshot = Image(rom, ram)
        BY <1>1, <2>1, <3>2 DEF MustPersist
      <4>2. QED
        BY <1>1, <2>1, <2>3, <3>2, <4>1 DEF SaveInv, SnapshotIsFound
    <3>3. QED
      BY <3>1, <3>2
  <2>5. raw # None /\ raw.size = RamSize[rom] /\ raw.value = ram
    BY <2>3, <2>4 DEF Image
  <2>6. ram' = IF raw # None /\ raw.size = RamSize[rom] THEN raw.value ELSE Fresh
    BY <1>1, <2>2 DEF RestoreSave
  <2>7. QED
    BY <2>5, <2>6
<1>2. SaveInv /\ [Next]_vars => [Kept]_vars
  BY <1>1
<1>3. QED
  BY <1>2, SpecSaveInv, PTL DEF Spec, ResetKeepsRam

\* Loading a cartridge, remembered or chosen, loses no save: one that moves to its key
\* leaves its file's name only if the key took it (fourshades.js:374-389).
THEOREM LoadDestroysNothingAlways == Spec => LoadDestroysNothing
<1> DEFINE Loads == (\E r \in Roms : OpenRom(r)) \/ OpenPage
           Before == {stored[id] : id \in Ids} \cup {legacy[n] : n \in Names}
           After == {stored'[id] : id \in Ids} \cup {legacy'[n] : n \in Names} \cup {None}
<1>1. ASSUME TypeOK, NEW r \in Roms, Load(r) PROVE Before \subseteq After
  <2> DEFINE key == CartId[r]
             old == stored[key] = None /\ legacy[Name[r]] # None
             raw == IF old THEN legacy[Name[r]] ELSE stored[key]
  <2>1. /\ key \in Ids /\ Name[r] \in Names
        /\ stored \in [Ids -> Save \cup {None}] /\ legacy \in [Names -> Save \cup {None}]
    BY <1>1, KeyType DEF TypeOK
  <2>2. \/ stored' = stored /\ legacy' = legacy
        \/ /\ stored' = [stored EXCEPT ![key] = raw]
           /\ legacy' = IF old THEN [legacy EXCEPT ![Name[r]] = None] ELSE legacy
    BY <1>1 DEF Load, RestoreSave
  <2>3. ASSUME NEW id \in Ids PROVE stored[id] \in After
    <3>1. stored'[id] = stored[id] \/ stored[id] = None
      BY <2>1, <2>2
    <3>2. QED
      BY <3>1
  <2>4. ASSUME NEW n \in Names PROVE legacy[n] \in After
    <3>1. legacy'[n] = legacy[n] \/ stored'[key] = legacy[n]
      BY <2>1, <2>2
    <3>2. QED
      BY <2>1, <3>1
  <2>5. QED
    BY <2>3, <2>4
<1>2. SaveInv /\ Loads => Before \subseteq After
  <2> SUFFICES ASSUME SaveInv, Loads PROVE Before \subseteq After
    OBVIOUS
  <2>1. CASE \E r \in Roms : OpenRom(r)
    BY <1>1, <2>1 DEF OpenRom, SaveInv
  <2>2. CASE OpenPage
    <3>1. CASE remembered = NoRom
      BY <2>2, <3>1 DEF OpenPage
    <3>2. CASE remembered # NoRom
      <4>1. remembered \in Roms /\ Load(remembered)
        BY <2>2, <3>2 DEF OpenPage, SaveInv, TypeOK
      <4>2. QED
        BY <1>1, <4>1 DEF SaveInv
    <3>3. QED
      BY <3>1, <3>2
  <2>3. QED
    BY <2>1, <2>2
<1>3. SaveInv /\ [Next]_vars => [Loads => Before \subseteq After]_vars
  BY <1>2
<1>4. QED
  BY <1>3, SpecSaveInv, PTL DEF Spec, LoadDestroysNothing
=============================================================================
