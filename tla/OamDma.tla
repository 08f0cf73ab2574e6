------------------------------- MODULE OamDma ------------------------------
(***************************************************************************)
(* OAM DMA and the bus conflicts it causes (core/GameBoy).  A write to     *)
(* FF46 starts a transfer that copies OamSize bytes of a page into OAM,    *)
(* one per M-cycle, after one start-up M-cycle; meanwhile the CPU is shut  *)
(* out of OAM and of the bus the transfer reads from.  As in Clockwork an  *)
(* M-cycle is a Tick and then the CPU's access.                            *)
(*                                                                         *)
(* A page stands for the source address's high byte after the echo mapping *)
(* (E000 and above read as C000 and above).  What the PPU adds - its locks,*)
(* which may drop a write to VRAM or OAM, and the OAM corruption bug - is  *)
(* a choice here.  Reads are left out: they change nothing but the         *)
(* corruption that TouchOam stands for.                                    *)
(***************************************************************************)
EXTENDS Integers, FiniteSets

CONSTANTS
  OamSize,        \* bytes of a transfer: 160 in the code
  ExternalPages,  \* pages on the external bus: ROM, cartridge RAM, WRAM
  VideoPages,     \* pages on the video bus: VRAM
  Bytes

Pages == ExternalPages \cup VideoPages

ASSUME DmaAssumption ==
  /\ OamSize \in Nat \ {0}
  /\ ExternalPages \cap VideoPages = {}
  /\ Pages # {}
  /\ Bytes # {}

VARIABLES
  phase,          \* "tick" or "access"
  memory,         \* memory[p][i]: byte i of page p
  oam,            \* oam_
  oamTouched,     \* corruptRow_ >= 0: the CPU reached OAM while the PPU scanned it
  dmaSource,      \* dmaSource_ and dmaRegister_: the page last written to FF46
  dmaStartDelay,  \* dmaStartDelay_
  dmaActive,      \* dmaActive_
  dmaIndex,       \* dmaIndex_
  dmaFrom,        \* dmaFrom_: the page of the transfer in progress
  dmaCopying,     \* dmaCopying_: a byte was copied in this M-cycle
  currentPage,    \* dmaCurrentSource_, its page
  currentByte,    \* dmaCurrentByte_
  ff46Writes,     \* history: page and age in M-cycles of the FF46 writes, while
                  \*          a transfer they started could still be copying
  snapshot,       \* history: the page as it stood when its first byte was copied
  scrambled       \* history: the corruption bug struck since then

dmaVars == <<dmaSource, dmaStartDelay, dmaActive, dmaIndex, dmaFrom,
             dmaCopying, currentPage, currentByte>>
memoryVars == <<phase, memory, oam, oamTouched, dmaVars, ff46Writes, snapshot, scrambled>>

Positions == 0 .. OamSize - 1
PageContents == [Positions -> Bytes]

DmaTypeOK ==
  /\ phase \in {"tick", "access"}
  /\ memory \in [Pages -> PageContents]
  /\ oam \in PageContents
  /\ oamTouched \in BOOLEAN
  /\ dmaSource \in Pages
  /\ dmaStartDelay \in {0, 1}
  /\ dmaActive \in BOOLEAN
  /\ dmaIndex \in 0..OamSize
  /\ dmaActive => dmaIndex < OamSize
  /\ dmaFrom \in Pages
  /\ dmaCopying \in BOOLEAN
  /\ currentPage \in Pages
  /\ currentByte \in Bytes
  /\ ff46Writes \subseteq [age : 0 .. OamSize + 1, page : Pages]
  /\ snapshot \in PageContents
  /\ scrambled \in BOOLEAN

DmaInit ==
  /\ phase = "tick"
  /\ memory \in [Pages -> PageContents]
  /\ \E b \in Bytes : oam = [i \in Positions |-> b] /\ currentByte = b
  /\ oamTouched = FALSE
  /\ \E p \in Pages : dmaSource = p /\ dmaFrom = p /\ currentPage = p
  /\ dmaStartDelay = 0
  /\ dmaActive = FALSE
  /\ dmaIndex = 0
  /\ dmaCopying = FALSE
  /\ ff46Writes = {}
  /\ snapshot = oam
  /\ scrambled = FALSE

-----------------------------------------------------------------------------
\* The write whose transfer copies in this M-cycle: of those old enough to be
\* past their start-up, the latest.
Started == {w \in ff46Writes : w.age >= 2}
Youngest(ws) == CHOOSE w \in ws : \A v \in ws : w.age <= v.age

\* Every write is an M-cycle older; those whose last byte is out are forgotten.
Aged == {[w EXCEPT !.age = @ + 1] : w \in {v \in ff46Writes : v.age <= OamSize}}

\* tickDma.  The copy comes first, then the start-up count: on a restart the
\* transfer in progress copies one more byte before the new one replaces it.
\* `before' is OAM as the corruption bug left it.
TickDma(before) ==
  /\ dmaCopying' = dmaActive
  /\ IF dmaActive
     THEN /\ currentPage' = dmaFrom
          /\ currentByte' = memory[dmaFrom][dmaIndex]
          /\ oam' = [before EXCEPT ![dmaIndex] = memory[dmaFrom][dmaIndex]]
     ELSE /\ oam' = before
          /\ UNCHANGED <<currentPage, currentByte>>
  /\ IF dmaStartDelay = 1
     THEN /\ dmaActive' = TRUE
          /\ dmaIndex' = 0
          /\ dmaFrom' = dmaSource
     ELSE /\ dmaActive' = (dmaActive /\ dmaIndex + 1 < OamSize)
          /\ dmaIndex' = IF dmaActive THEN dmaIndex + 1 ELSE dmaIndex
          /\ UNCHANGED dmaFrom
  /\ dmaStartDelay' = 0
  /\ UNCHANGED dmaSource

\* The PPU applies the corruption the CPU's last access asked for, then the DMA
\* takes its M-cycle.  The corruption may leave OAM as it was: row 0 is safe.
DmaTick ==
  /\ phase = "tick"
  /\ \E before \in (IF oamTouched THEN PageContents ELSE {oam}) :
       /\ TickDma(before)
       /\ scrambled' = IF dmaActive /\ dmaIndex = 0 THEN FALSE
                       ELSE scrambled \/ before # oam
  /\ oamTouched' = FALSE
  /\ phase' = "access"
  /\ ff46Writes' = Aged
  /\ snapshot' = IF dmaActive /\ dmaIndex = 0 THEN memory[dmaFrom] ELSE snapshot
  /\ UNCHANGED memory

-----------------------------------------------------------------------------
\* Mutant: OAM is free in the M-cycle of the last byte.
DmaBlocksOamTooShort == dmaCopying /\ dmaActive

\* dmaBlocks: nothing unless a byte is being copied; then OAM, and the bus of the
\* page being copied.
DmaBlocksOam == dmaCopying
DmaBlocks(p) ==
  /\ dmaCopying
  /\ IF currentPage \in VideoPages THEN p \in VideoPages ELSE p \in ExternalPages

EndAccess ==
  /\ phase = "access"
  /\ phase' = "tick"
  /\ UNCHANGED <<snapshot, scrambled>>

\* An idle M-cycle, a read, or an access to HRAM, I/O or IE.
NoAccess ==
  /\ EndAccess
  /\ UNCHANGED <<memory, oam, oamTouched, dmaVars, ff46Writes>>

\* A read or write in FE00-FEFF while the PPU scans OAM: the address reaches OAM
\* whether or not a lock lets the access through.
TouchOam ==
  /\ EndAccess
  /\ oamTouched' = TRUE
  /\ UNCHANGED <<memory, oam, dmaVars, ff46Writes>>

\* The PPU's own lock on OAM may drop a write the DMA lets through.
WriteOam(i, b) ==
  /\ EndAccess
  /\ ~DmaBlocksOam
  /\ oam' = [oam EXCEPT ![i] = b]
  /\ UNCHANGED <<memory, oamTouched, dmaVars, ff46Writes>>

WriteMemory(p, i, b) ==
  /\ EndAccess
  /\ ~DmaBlocks(p)
  /\ memory' = [memory EXCEPT ![p][i] = b]
  /\ UNCHANGED <<oam, oamTouched, dmaVars, ff46Writes>>

\* Mutant: a restart changes the page of the transfer that is still running.
WriteFF46AtOnce(p) ==
  /\ EndAccess
  /\ dmaSource' = p
  /\ dmaFrom' = p
  /\ dmaStartDelay' = 1
  /\ ff46Writes' = ff46Writes \cup {[age |-> 0, page |-> p]}
  /\ UNCHANGED <<memory, oam, oamTouched, dmaActive, dmaIndex, dmaCopying,
                 currentPage, currentByte>>

WriteFF46(p) ==
  /\ EndAccess
  /\ dmaSource' = p
  /\ dmaStartDelay' = 1
  /\ ff46Writes' = ff46Writes \cup {[age |-> 0, page |-> p]}
  /\ UNCHANGED <<memory, oam, oamTouched, dmaActive, dmaIndex, dmaFrom, dmaCopying,
                 currentPage, currentByte>>

DmaNext ==
  \/ DmaTick
  \/ NoAccess
  \/ TouchOam
  \/ \E i \in Positions, b \in Bytes : WriteOam(i, b)
  \/ \E p \in Pages, i \in Positions, b \in Bytes : WriteMemory(p, i, b)
  \/ \E p \in Pages : WriteFF46(p)

DmaSpec == DmaInit /\ [][DmaNext]_memoryVars

-----------------------------------------------------------------------------
\* A write to FF46 means a start-up M-cycle and then a copy of byte i in the i-th
\* M-cycle after it, until the next write's own first copy: the transfer of every
\* write begins on time, ends after its last byte and is replaced, without a gap,
\* by a restart (GameBoy.cpp:123-159).
CopyFollowsWrite ==
  phase = "access" =>
    /\ dmaCopying <=> Started # {}
    /\ dmaCopying =>
         LET w == Youngest(Started)
         IN  /\ currentPage = w.page
             /\ currentByte = memory[w.page][w.age - 2]
             /\ oam[w.age - 2] = currentByte

\* What a transfer has copied so far is the page as it stood at its first byte,
\* whatever the CPU does meanwhile, up to and including the access in the M-cycle
\* of the last byte: neither the source nor OAM can be written underneath it.
\* Only the OAM corruption bug gets through (GameBoy.cpp:123-185).
TransferIsSnapshot ==
  Started # {} /\ ~scrambled =>
    \A i \in 0 .. Youngest(Started).age - 2 : oam[i] = snapshot[i]

\* The CPU is never shut out of a bus the transfer does not read, nor of anything
\* once the M-cycle of the last byte has passed (GameBoy.cpp:173-185): whenever a
\* page is blocked a transfer from the same bus is under way.
BlockedOnlyByOwnBus ==
  \A p \in Pages : phase = "access" /\ DmaBlocks(p) =>
    /\ Started # {}
    /\ p \in VideoPages <=> Youngest(Started).page \in VideoPages
=============================================================================
