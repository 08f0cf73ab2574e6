------------------------------- MODULE WebSave -----------------------------
(***************************************************************************)
(* The page's battery saves (web/fourshades.js over web/wasm_main.cpp):    *)
(* what localStorage holds, the RAM of the cartridge that is loaded, and   *)
(* the snapshot of the RAM last stored, by which a flush that would store  *)
(* the same again is skipped.  Every handler runs to its end before the    *)
(* next; storage may throw on any write.                                   *)
(*                                                                         *)
(* A stored save is the length and the contents of a RAM.  Its key comes   *)
(* from the header, so two ROMs may share one; saves under the ROM's file  *)
(* name date from an earlier version of the page.                          *)
(***************************************************************************)
EXTENDS Integers

CONSTANTS
  Roms,       \* ROMs the player may open
  NoRom,
  CartId,     \* CartId[rom]: cartridgeId(bytes)
  Name,       \* Name[rom]: its file name
  Battery,    \* the ROMs whose cartridge has a battery
  RamSize,    \* RamSize[rom]: bytes of its RAM
  Values,     \* contents of a RAM
  Fresh       \* a new cartridge's RAM

ASSUME WebSaveAssumption ==
  /\ NoRom \notin Roms
  /\ Battery \subseteq Roms
  /\ RamSize \in [Roms -> Nat]
  /\ Fresh \in Values

Ids == {CartId[r] : r \in Roms}
Names == {Name[r] : r \in Roms}

Save == [size : Nat, value : Values]
None == [size |-> -1, value |-> Fresh]

VARIABLES
  stored,       \* stored[id]: the save under a cartridge's key
  legacy,       \* legacy[name]: a save under a file's name
  remembered,   \* the ROM under fourshades:rom
  page,         \* the page is open
  rom,          \* the loaded cartridge, fs_loaded()
  cartId,       \* the ROM cartId was last taken from
  ram,          \* fs_ram_data()
  savedSnapshot

vars == <<stored, legacy, remembered, page, rom, cartId, ram, savedSnapshot>>

TypeOK ==
  /\ stored \in [Ids -> Save \cup {None}]
  /\ legacy \in [Names -> Save \cup {None}]
  /\ remembered \in Roms \cup {NoRom}
  /\ page \in BOOLEAN
  /\ rom \in Roms \cup {NoRom}
  /\ cartId \in Roms \cup {NoRom}
  /\ rom # NoRom => cartId = rom
  /\ ram \in Values
  /\ savedSnapshot \in Save \cup {None}

Image(r, v) == [size |-> RamSize[r], value |-> v]

\* What the earlier version may have left, of any ROM that once had that name.
Init ==
  /\ stored = [id \in Ids |-> None]
  /\ legacy \in [Names -> {Image(r, v) : r \in Battery, v \in Values} \cup {None}]
  /\ remembered = NoRom
  /\ page = FALSE
  /\ rom = NoRom /\ cartId = NoRom
  /\ ram = Fresh
  /\ savedSnapshot = None

-----------------------------------------------------------------------------
\* Mutant: once there is a snapshot nothing more is written.
MustPersistOnce(r, v) ==
  /\ r # NoRom
  /\ r \in Battery
  /\ RamSize[r] > 0
  /\ savedSnapshot = None

\* persistSave has something to write: there is RAM behind a battery, and it is not
\* the snapshot.
MustPersist(r, v) ==
  /\ r # NoRom
  /\ r \in Battery
  /\ RamSize[r] > 0
  /\ savedSnapshot # Image(r, v)

\* persistSave: the write lands or it does not.  If the first try fails the remembered
\* cartridge makes room for a second, unless it cannot be removed either.
PersistSave(lands) ==
  IF MustPersist(rom, ram)
  THEN /\ remembered' \in {remembered, NoRom}
       /\ IF lands
          THEN /\ stored' = [stored EXCEPT ![CartId[cartId]] = Image(rom, ram)]
               /\ savedSnapshot' = Image(rom, ram)
          ELSE UNCHANGED <<stored, savedSnapshot>>
  ELSE UNCHANGED <<stored, savedSnapshot, remembered>>

\* Mutant: the save under the file's name goes even if the new key cannot be written.
RestoreSaveRemovesFirst(r, storage, snapshot) ==
  LET id == CartId[r]
      old == storage[id] = None /\ legacy[Name[r]] # None
      raw == IF old THEN legacy[Name[r]] ELSE storage[id]
      fits == raw # None /\ raw.size = RamSize[r]
  IN  /\ stored' = storage \/ stored' = [storage EXCEPT ![id] = raw]
      /\ legacy' = IF old THEN [legacy EXCEPT ![Name[r]] = None] ELSE legacy
      /\ ram' = IF fits THEN raw.value ELSE Fresh
      /\ savedSnapshot' = IF fits THEN raw ELSE snapshot

\* restoreSave for ROM r over the saves in storage: what is found, after moving
\* a save from the file's name if there is none under the key, comes back only if
\* its length is this cartridge's.  The move may fail and leave both as they are.
RestoreSave(r, storage, snapshot) ==
  LET id == CartId[r]
      old == storage[id] = None /\ legacy[Name[r]] # None
      raw == IF old THEN legacy[Name[r]] ELSE storage[id]
      fits == raw # None /\ raw.size = RamSize[r]
  IN  IF r \notin Battery
      THEN /\ stored' = storage
           /\ ram' = Fresh
           /\ savedSnapshot' = snapshot
           /\ UNCHANGED legacy
      ELSE /\ \/ /\ stored' = [storage EXCEPT ![id] = raw]
                 /\ legacy' = IF old THEN [legacy EXCEPT ![Name[r]] = None] ELSE legacy
              \/ /\ old
                 /\ stored' = storage
                 /\ UNCHANGED legacy
           /\ ram' = IF fits THEN raw.value ELSE Fresh
           /\ savedSnapshot' = IF fits THEN raw ELSE snapshot

-----------------------------------------------------------------------------
\* Mutant: the snapshot of the cartridge before stays.
LoadKeepsSnapshot(r) ==
  /\ rom' = r
  /\ cartId' = r
  /\ RestoreSave(r, stored, savedSnapshot)

\* load(): nothing of the machine before is kept, nor written.
Load(r) ==
  /\ rom' = r
  /\ cartId' = r
  /\ RestoreSave(r, stored, None)

\* A ROM the player chooses is remembered if storage has room.
OpenRom(r) ==
  /\ page
  /\ Load(r)
  /\ remembered' \in {r, NoRom}
  /\ UNCHANGED page

\* A file that is no ROM: the machine is gone, the key and the snapshot stay.
OpenFails ==
  /\ page
  /\ rom' = NoRom
  /\ ram' = Fresh
  /\ UNCHANGED <<stored, legacy, remembered, page, cartId, savedSnapshot>>

\* The page starts and opens the cartridge it remembers.
OpenPage ==
  /\ ~page
  /\ page' = TRUE
  /\ IF remembered = NoRom
     THEN UNCHANGED <<stored, legacy, rom, cartId, ram, savedSnapshot>>
     ELSE Load(remembered)
  /\ UNCHANGED remembered

GameWrites ==
  /\ page
  /\ rom # NoRom
  /\ ram' \in Values
  /\ UNCHANGED <<stored, legacy, remembered, page, rom, cartId, savedSnapshot>>

\* The timer, pagehide, beforeunload and a hidden page.
Flush(lands) ==
  /\ page
  /\ PersistSave(lands)
  /\ UNCHANGED <<legacy, page, rom, cartId, ram>>

\* reset(): the machine is built afresh between saving and restoring, so what could
\* not be stored does not come back.
Reset(lands) ==
  LET must == MustPersist(rom, ram)
      written == must /\ lands
  IN  /\ page
      /\ rom # NoRom
      /\ RestoreSave(rom,
           IF written THEN [stored EXCEPT ![CartId[cartId]] = Image(rom, ram)] ELSE stored,
           IF written THEN Image(rom, ram) ELSE savedSnapshot)
      /\ remembered' \in (IF must THEN {remembered, NoRom} ELSE {remembered})
      /\ UNCHANGED <<page, rom, cartId>>

\* The page goes, without a flush: a crash of the tab, or a browser that tells
\* nobody.  With one it is Flush and then this.
PageGone ==
  /\ page
  /\ page' = FALSE
  /\ rom' = NoRom /\ cartId' = NoRom
  /\ ram' = Fresh
  /\ savedSnapshot' = None
  /\ UNCHANGED <<stored, legacy, remembered>>

Next ==
  \/ \E r \in Roms : OpenRom(r)
  \/ OpenFails
  \/ OpenPage
  \/ GameWrites
  \/ \E lands \in BOOLEAN : Flush(lands) \/ Reset(lands)
  \/ PageGone

Spec == Init /\ [][Next]_vars

-----------------------------------------------------------------------------
\* The snapshot by which a flush is skipped is what storage holds for the loaded
\* cartridge, so that a flush skipped is a flush already stored: the snapshot never
\* stands for another cartridge or for a write that failed
\* (fourshades.js:276, 334-340, 346-348, 399-402).
SnapshotIsStored ==
  rom # NoRom /\ rom \in Battery /\ savedSnapshot # None =>
    stored[CartId[rom]] = savedSnapshot \/ legacy[Name[rom]] = savedSnapshot

\* A reset of the page that could write keeps the RAM a battery keeps: it is stored before the
\* machine is built afresh and restored after (fourshades.js:285-293).
ResetKeepsRam ==
  [][Reset(TRUE) /\ rom \in Battery /\ RamSize[rom] > 0 => ram' = ram]_vars

\* What wasm_main.cpp says of a reset: "a Cartridge holds battery RAM and, on an MBC3, a
\* running clock, and a reset must not keep either" (wasm_main.cpp:44-45, 177-179).  fs_reset
\* does not keep them; the page's reset() around it puts the RAM back.
ResetDropsRam ==
  [][(\E lands \in BOOLEAN : Reset(lands)) => ram' = Fresh]_vars

\* A save is never destroyed by bringing it over from its file's name, nor by any
\* load: it is under one key or under both (fourshades.js:374-389).
LoadDestroysNothing ==
  [][(\E r \in Roms : OpenRom(r)) \/ OpenPage =>
       {stored[id] : id \in Ids} \cup {legacy[n] : n \in Names}
         \subseteq {stored'[id] : id \in Ids} \cup {legacy'[n] : n \in Names} \cup {None}]_vars

\* "a save whose length does not match this cartridge is refused and left alone
\* rather than cropped" (fourshades.js:319-322): while that cartridge is loaded the
\* save under its key is not written over.
RefusedSaveIsLeftAlone ==
  [][rom # NoRom /\ rom' = rom /\ stored[CartId[rom]] # None
       /\ stored[CartId[rom]].size # RamSize[rom]
         => stored'[CartId[rom]] = stored[CartId[rom]]]_vars
=============================================================================
