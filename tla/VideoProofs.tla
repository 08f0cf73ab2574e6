----------------------------- MODULE VideoProofs -----------------------------
(***************************************************************************)
(* What OAM DMA and the PPU promise, for every size of OAM and of a frame: *)
(* a transfer copies what its page held, nothing the PPU reads is read by  *)
(* the CPU meanwhile, and a frame is a frame.                              *)
(***************************************************************************)
EXTENDS OamDma, Ppu, FiniteSetTheorems, TLAPS

-----------------------------------------------------------------------------
(* OAM DMA.                                                                *)

IsLatest(w, ws) == w \in ws /\ \A v \in ws : w.age <= v.age

\* The CPU has one access per M-cycle, so no two writes are as old.
AgesDiffer == \A v, w \in ff46Writes : v.age = w.age => v = w

\* The start-up count stands for a write of the M-cycle just over.
StartUpIsWrite ==
  /\ phase = "access" => dmaStartDelay = 0
  /\ dmaStartDelay = 1 <=> \E w \in ff46Writes : w.age = 0
  /\ \A w \in ff46Writes : w.age = 0 => w.page = dmaSource

\* The writes past their start-up.
Running == {w \in ff46Writes : w.age >= 1}

HaveLatest ==
  /\ Running # {} => \E w \in Running : IsLatest(w, Running)
  /\ Started # {} => \E w \in Started : IsLatest(w, Started)

\* The latest of them is the transfer in progress, which nothing writes underneath.
TransferIsLatest ==
  /\ Running = {} => ~dmaActive
  /\ \A w \in Running : IsLatest(w, Running) =>
       /\ dmaActive <=> w.age <= OamSize
       /\ dmaIndex = w.age - 1
       /\ dmaFrom = w.page
       /\ w.age >= 2 => memory[w.page] = snapshot

\* The M-cycle's copy is the one of the latest write that has begun to copy.
CopyIsLatest ==
  phase = "access" =>
    /\ dmaCopying <=> Started # {}
    /\ \A w \in Started : IsLatest(w, Started) =>
         /\ currentPage = w.page
         /\ currentByte = memory[w.page][w.age - 2]
         /\ oam[w.age - 2] = currentByte

CopiedIsSnapshot ==
  \A w \in Started : IsLatest(w, Started) /\ ~scrambled =>
    \A i \in 0 .. w.age - 2 : oam[i] = snapshot[i]

DmaInv ==
  DmaTypeOK /\ AgesDiffer /\ StartUpIsWrite /\ HaveLatest /\ TransferIsLatest
    /\ CopyIsLatest /\ CopiedIsSnapshot

LEMMA DmaInitInv == DmaInit => DmaInv
<1> SUFFICES ASSUME DmaInit PROVE DmaInv
  OBVIOUS
<1> USE DmaAssumption
<1>1. ff46Writes = {} /\ Running = {} /\ Started = {}
  BY DEF DmaInit, Running, Started
<1>2. DmaTypeOK
  <2>1. oam \in PageContents /\ snapshot \in PageContents /\ currentByte \in Bytes
    BY DEF DmaInit, PageContents
  <2>2. dmaSource \in Pages /\ dmaFrom \in Pages /\ currentPage \in Pages
    BY DEF DmaInit
  <2>3. /\ dmaIndex \in 0 .. OamSize /\ ~dmaActive
        /\ ff46Writes \subseteq [age : 0 .. OamSize + 1, page : Pages]
    BY <1>1 DEF DmaInit
  <2>4. QED
    BY <2>1, <2>2, <2>3 DEF DmaInit, DmaTypeOK
<1>3. QED
  BY <1>1, <1>2 DEF DmaInit, DmaInv, AgesDiffer, StartUpIsWrite, HaveLatest, TransferIsLatest,
                    CopyIsLatest, CopiedIsSnapshot

LEMMA AgedMembers ==
  ASSUME DmaTypeOK
  PROVE  /\ \A w \in ff46Writes : w.age <= OamSize => [age |-> w.age + 1, page |-> w.page] \in Aged
         /\ \A w \in Aged : \E v \in ff46Writes :
              v.age <= OamSize /\ w = [age |-> v.age + 1, page |-> v.page]
         /\ \A w \in ff46Writes : w.age \in 0 .. OamSize + 1 /\ w.page \in Pages
         /\ \A v, w \in ff46Writes : v.age = w.age /\ v.page = w.page => v = w
<1> USE DmaAssumption
<1>1. ff46Writes \subseteq [age : 0 .. OamSize + 1, page : Pages]
  BY DEF DmaTypeOK
<1>2. \A v \in ff46Writes :
        [v EXCEPT !.age = v.age + 1] = [age |-> v.age + 1, page |-> v.page]
  BY <1>1
<1>3. QED
  BY <1>1, <1>2 DEF Aged

LEMMA DmaTypeTick == ASSUME DmaInv, DmaTick PROVE DmaTypeOK'
<1> USE DmaAssumption
<1>1. PICK before \in PageContents : TickDma(before)
  BY DEF DmaTick, DmaInv, DmaTypeOK
<1>2. DmaTypeOK
  BY DEF DmaInv
<1>3. dmaActive => dmaIndex \in Positions /\ memory[dmaFrom][dmaIndex] \in Bytes
  BY <1>2 DEF DmaTypeOK, Positions, PageContents
<1>4. oam' \in PageContents /\ currentByte' \in Bytes /\ currentPage' \in Pages
  BY <1>1, <1>2, <1>3 DEF TickDma, DmaTypeOK, PageContents
<1>5. dmaIndex' \in 0 .. OamSize /\ (dmaActive' => dmaIndex' < OamSize)
  <2>1. CASE dmaStartDelay = 1
    BY <1>1, <2>1 DEF TickDma
  <2>2. CASE dmaStartDelay # 1 /\ dmaActive
    <3>1. dmaIndex' = dmaIndex + 1
      BY <1>1, <2>2 DEF TickDma
    <3>2. dmaActive' => dmaIndex + 1 < OamSize
      BY <1>1, <2>2, Zenon DEF TickDma
    <3>3. dmaIndex \in 0 .. OamSize /\ dmaIndex < OamSize
      BY <1>2, <2>2 DEF DmaTypeOK
    <3>4. QED
      BY <3>1, <3>2, <3>3
  <2>3. CASE dmaStartDelay # 1 /\ ~dmaActive
    BY <1>1, <1>2, <2>3 DEF TickDma, DmaTypeOK
  <2>4. QED
    BY <2>1, <2>2, <2>3
<1>6. ff46Writes' \subseteq [age : 0 .. OamSize + 1, page : Pages]
  <2> SUFFICES ASSUME NEW w \in Aged PROVE w \in [age : 0 .. OamSize + 1, page : Pages]
    BY DEF DmaTick
  <2> QED
    BY <1>2, AgedMembers
<1>7. snapshot' \in PageContents
  BY <1>2 DEF DmaTick, DmaTypeOK
<1>8. dmaActive' \in BOOLEAN /\ dmaCopying' \in BOOLEAN /\ dmaStartDelay' \in {0, 1}
  BY <1>1, <1>2 DEF TickDma, DmaTypeOK
<1>9. dmaFrom' \in Pages /\ dmaSource' \in Pages
  BY <1>1, <1>2 DEF TickDma, DmaTypeOK
<1>10. memory' = memory /\ phase' = "access" /\ oamTouched' = FALSE /\ scrambled' \in BOOLEAN
  BY <1>2 DEF DmaTick, DmaTypeOK
<1>11. QED
  BY <1>2, <1>4, <1>5, <1>6, <1>7, <1>8, <1>9, <1>10 DEF DmaTypeOK

\* A tick makes every write one M-cycle older: the latest stays the latest, and what it says
\* of the transfer stays true.
LEMMA LatestTick ==
  ASSUME DmaInv, DmaTick
  PROVE  AgesDiffer' /\ StartUpIsWrite' /\ HaveLatest' /\ TransferIsLatest'
<1> USE DmaAssumption
<1>1. PICK before : TickDma(before)
  BY DEF DmaTick
<1>2. DmaTypeOK /\ DmaTypeOK' /\ ff46Writes' = Aged /\ memory' = memory /\ phase' = "access"
  BY DmaTypeTick DEF DmaInv, DmaTick
<1> DEFINE Next1(v) == [age |-> v.age + 1, page |-> v.page]
<1>3. /\ \A w \in ff46Writes : w.age <= OamSize => Next1(w) \in Aged
      /\ \A w \in Aged : \E v \in ff46Writes : v.age <= OamSize /\ w = Next1(v)
      /\ \A w \in ff46Writes : w.age \in 0 .. OamSize + 1 /\ w.page \in Pages
  BY <1>2, AgedMembers
<1>4. Running' = Aged /\ Started' = {w \in Aged : w.age >= 2}
  BY <1>2, <1>3 DEF Running, Started
<1>5. AgesDiffer'
  <2> SUFFICES ASSUME NEW v \in Aged, NEW w \in Aged, v.age = w.age PROVE v = w
    BY <1>2 DEF AgesDiffer
  <2>1. PICK v0 \in ff46Writes, w0 \in ff46Writes : v = Next1(v0) /\ w = Next1(w0)
    BY <1>3
  <2>2. v0.age = w0.age
    BY <1>3, <2>1
  <2>3. QED
    BY <2>1, <2>2 DEF DmaInv, AgesDiffer
<1>6. StartUpIsWrite'
  BY <1>1, <1>2, <1>3 DEF StartUpIsWrite, TickDma
<1>7. CASE dmaStartDelay = 1
  <2>1. PICK u \in ff46Writes : u.age = 0 /\ u.page = dmaSource
    BY <1>7 DEF DmaInv, StartUpIsWrite
  <2>2. Next1(u) \in Aged /\ Next1(u).age = 1
    BY <1>3, <2>1
  <2>3. IsLatest(Next1(u), Aged)
    BY <1>3, <2>2 DEF IsLatest
  <2>4. \A w \in Aged : IsLatest(w, Aged) => w.age = 1 /\ w.page = dmaSource
    <3> SUFFICES ASSUME NEW w \in Aged, IsLatest(w, Aged) PROVE w.age = 1 /\ w.page = dmaSource
      OBVIOUS
    <3>1. PICK v \in ff46Writes : w = Next1(v)
      BY <1>3
    <3>2. w.age <= 1 /\ v.age = 0
      BY <1>3, <2>2, <3>1 DEF IsLatest
    <3>3. QED
      BY <3>1, <3>2 DEF DmaInv, StartUpIsWrite
  <2>5. dmaActive' = TRUE /\ dmaIndex' = 0 /\ dmaFrom' = dmaSource
    BY <1>1, <1>7 DEF TickDma
  <2>6. TransferIsLatest'
    BY <1>4, <2>2, <2>4, <2>5 DEF TransferIsLatest, IsLatest
  <2>7. Started' # {} => \E w \in Started' : IsLatest(w, Started')
    <3> SUFFICES ASSUME Started' # {} PROVE \E w \in Started' : IsLatest(w, Started')
      OBVIOUS
    <3>1. PICK s \in ff46Writes : s.age >= 1 /\ s.age <= OamSize
      BY <1>3, <1>4
    <3>2. PICK l \in Running : IsLatest(l, Running)
      BY <3>1 DEF DmaInv, HaveLatest, Running
    <3>3. l \in ff46Writes /\ l.age >= 1 /\ l.age <= OamSize
      BY <1>3, <3>1, <3>2 DEF IsLatest, Running
    <3>4. Next1(l) \in Started'
      BY <1>3, <1>4, <3>3
    <3>5. \A w \in Started' : Next1(l).age <= w.age
      BY <1>3, <1>4, <3>2, <3>3 DEF IsLatest, Running
    <3>6. QED
      BY <3>4, <3>5 DEF IsLatest
  <2>8. QED
    BY <1>4, <1>5, <1>6, <2>2, <2>3, <2>6, <2>7 DEF HaveLatest
<1>8. CASE dmaStartDelay # 1
  <2>1. Running = ff46Writes
    BY <1>3, <1>8 DEF DmaInv, StartUpIsWrite, Running
  <2>2. Started' = Aged
    BY <1>3, <1>4, <2>1 DEF Running
  <2>3. \A w \in Aged : \A v \in ff46Writes :
          IsLatest(w, Aged) /\ v.age <= OamSize /\ w = Next1(v) => IsLatest(v, Running)
    <3> SUFFICES ASSUME NEW w \in Aged, NEW v \in ff46Writes, NEW x \in ff46Writes,
                        IsLatest(w, Aged), v.age <= OamSize, w = Next1(v)
                 PROVE  v.age <= x.age
      BY <2>1 DEF IsLatest
    <3>1. CASE x.age <= OamSize
      <4>1. w.age <= Next1(x).age
        BY <1>3, <3>1 DEF IsLatest
      <4>2. QED
        BY <1>3, <4>1
    <3>2. CASE x.age > OamSize
      BY <1>3, <3>2
    <3>3. QED
      BY <1>3, <3>1, <3>2
  <2>4. Aged # {} => \E w \in Aged : IsLatest(w, Aged)
    <3> SUFFICES ASSUME Aged # {} PROVE \E w \in Aged : IsLatest(w, Aged)
      OBVIOUS
    <3>1. PICK s \in ff46Writes : s.age <= OamSize
      BY <1>3
    <3>2. PICK l \in Running : IsLatest(l, Running)
      BY <2>1, <3>1 DEF DmaInv, HaveLatest
    <3>3. l \in ff46Writes /\ l.age <= OamSize
      BY <1>3, <2>1, <3>1, <3>2 DEF IsLatest
    <3>4. Next1(l) \in Aged /\ \A w \in Aged : Next1(l).age <= w.age
      BY <1>3, <2>1, <3>2, <3>3 DEF IsLatest
    <3>5. QED
      BY <3>4 DEF IsLatest
  <2>5. /\ dmaActive' = (dmaActive /\ dmaIndex + 1 < OamSize)
        /\ dmaIndex' = IF dmaActive THEN dmaIndex + 1 ELSE dmaIndex
        /\ dmaFrom' = dmaFrom
        /\ snapshot' = IF dmaActive /\ dmaIndex = 0 THEN memory[dmaFrom] ELSE snapshot
    BY <1>1, <1>8 DEF TickDma, DmaTick
  <2>6. Aged = {} => ~dmaActive'
    <3> SUFFICES ASSUME dmaActive PROVE Aged # {}
      BY <2>5
    <3>1. PICK l \in Running : IsLatest(l, Running)
      BY DEF DmaInv, HaveLatest, TransferIsLatest
    <3>2. l.age <= OamSize
      BY <3>1 DEF DmaInv, TransferIsLatest
    <3>3. QED
      BY <1>3, <2>1, <3>1, <3>2
  <2>7. ASSUME NEW w \in Aged, IsLatest(w, Aged)
        PROVE  /\ dmaActive' <=> w.age <= OamSize
               /\ dmaIndex' = w.age - 1
               /\ dmaFrom' = w.page
               /\ w.age >= 2 => memory[w.page] = snapshot'
    <3>1. PICK v \in ff46Writes : v.age <= OamSize /\ w = Next1(v)
      BY <1>3
    <3>2. v \in Running /\ IsLatest(v, Running) /\ v.age \in 1 .. OamSize + 1
      BY <1>3, <2>1, <2>3, <2>7, <3>1 DEF Running
    <3>3. /\ dmaActive /\ dmaIndex = v.age - 1 /\ dmaFrom = v.page
          /\ v.age >= 2 => memory[v.page] = snapshot
      BY <3>1, <3>2 DEF DmaInv, TransferIsLatest
    <3>4. w.age = v.age + 1 /\ w.page = v.page
      BY <3>1
    <3>5. memory[w.page] = snapshot'
      BY <2>5, <3>2, <3>3, <3>4
    <3>6. dmaActive' <=> w.age <= OamSize
      <4>1. dmaIndex + 1 < OamSize <=> w.age <= OamSize
        BY <3>2, <3>3, <3>4
      <4>2. QED
        BY <2>5, <3>3, <4>1, Zenon
    <3>7. QED
      BY <2>5, <3>2, <3>3, <3>4, <3>5, <3>6
  <2>8. TransferIsLatest'
    BY <1>2, <1>4, <2>6, <2>7 DEF TransferIsLatest, IsLatest
  <2>9. QED
    BY <1>4, <1>5, <1>6, <2>2, <2>4, <2>8 DEF HaveLatest, IsLatest
<1>9. QED
  BY <1>7, <1>8

\* What a tick copies belongs to the latest write past its start-up, which is a Started one
\* from then on.
LEMMA CopyTick ==
  ASSUME DmaInv, DmaTick
  PROVE  CopyIsLatest' /\ CopiedIsSnapshot'
<1> USE DmaAssumption
<1>1. PICK before \in (IF oamTouched THEN PageContents ELSE {oam}) :
        /\ TickDma(before)
        /\ scrambled' = IF dmaActive /\ dmaIndex = 0 THEN FALSE ELSE scrambled \/ before # oam
  BY DEF DmaTick
<1>2. /\ DmaTypeOK /\ ff46Writes' = Aged /\ memory' = memory
      /\ snapshot' = IF dmaActive /\ dmaIndex = 0 THEN memory[dmaFrom] ELSE snapshot
      /\ dmaCopying' = dmaActive
  BY <1>1 DEF DmaInv, DmaTick, TickDma
<1> DEFINE Next1(v) == [age |-> v.age + 1, page |-> v.page]
<1>3. /\ \A w \in ff46Writes : w.age <= OamSize => Next1(w) \in Aged
      /\ \A w \in Aged : \E v \in ff46Writes : v.age <= OamSize /\ w = Next1(v)
      /\ \A w \in ff46Writes : w.age \in 0 .. OamSize + 1 /\ w.page \in Pages
  BY <1>2, AgedMembers
<1>4. Started' = {w \in Aged : w.age >= 2}
  BY <1>2 DEF Started
<1>5. dmaCopying' <=> Started' # {}
  <2>1. ASSUME dmaActive PROVE Started' # {}
    <3>1. PICK l \in Running : IsLatest(l, Running)
      BY <2>1 DEF DmaInv, HaveLatest, TransferIsLatest
    <3>2. l \in ff46Writes /\ l.age >= 1 /\ l.age <= OamSize
      BY <2>1, <3>1 DEF DmaInv, TransferIsLatest, Running
    <3>3. Next1(l) \in Started'
      BY <1>3, <1>4, <3>2
    <3>4. QED
      BY <3>3
  <2>2. ASSUME Started' # {} PROVE dmaActive
    <3>1. PICK v \in ff46Writes : v.age >= 1 /\ v.age <= OamSize
      BY <1>3, <1>4, <2>2
    <3>2. PICK l \in Running : IsLatest(l, Running)
      BY <3>1 DEF DmaInv, HaveLatest, Running
    <3>3. l.age <= OamSize
      BY <1>3, <3>1, <3>2 DEF IsLatest, Running
    <3>4. QED
      BY <3>2, <3>3 DEF DmaInv, TransferIsLatest
  <2>3. QED
    BY <1>2, <2>1, <2>2, Zenon
<1>6. ASSUME NEW w \in Started', IsLatest(w, Started')
      PROVE  /\ currentPage' = w.page
             /\ currentByte' = memory'[w.page][w.age - 2]
             /\ oam'[w.age - 2] = currentByte'
             /\ ~scrambled' => \A i \in 0 .. w.age - 2 : oam'[i] = snapshot'[i]
  <2>1. PICK v \in ff46Writes : v.age <= OamSize /\ w = Next1(v)
    BY <1>3, <1>4
  <2>2. w.age = v.age + 1 /\ w.page = v.page /\ v.age \in 1 .. OamSize
    BY <1>3, <1>4, <2>1
  <2>3. IsLatest(v, Running)
    <3>1. v \in Running
      BY <2>2 DEF Running
    <3> SUFFICES ASSUME NEW x \in Running PROVE v.age <= x.age
      BY <3>1 DEF IsLatest
    <3>2. x \in ff46Writes /\ x.age \in 1 .. OamSize + 1
      BY <1>3 DEF Running
    <3>3. CASE x.age <= OamSize
      <4>1. Next1(x) \in Started'
        BY <1>3, <1>4, <3>2, <3>3
      <4>2. w.age <= Next1(x).age
        BY <1>6, <4>1 DEF IsLatest
      <4>3. QED
        BY <2>2, <3>2, <4>2
    <3>4. QED
      BY <2>2, <3>2, <3>3
  <2>4. /\ dmaActive /\ dmaIndex = v.age - 1 /\ dmaFrom = v.page
        /\ v.age >= 2 => memory[v.page] = snapshot
    BY <2>2, <2>3 DEF DmaInv, TransferIsLatest, IsLatest
  <2>5. /\ currentPage' = dmaFrom /\ currentByte' = memory[dmaFrom][dmaIndex]
        /\ oam' = [before EXCEPT ![dmaIndex] = memory[dmaFrom][dmaIndex]]
    BY <1>1, <2>4 DEF TickDma
  <2>6. before \in [Positions -> Bytes] /\ dmaIndex \in Positions
    BY <1>2, <2>2, <2>4 DEF DmaTypeOK, PageContents, Positions
  <2>7. oam'[dmaIndex] = memory[dmaFrom][dmaIndex]
    BY <2>5, <2>6
  <2>8. dmaIndex = w.age - 2
    BY <2>2, <2>4
  <2>9. ASSUME ~scrambled', NEW i \in 0 .. w.age - 2 PROVE oam'[i] = snapshot'[i]
    <3>1. CASE v.age = 1
      <4>1. i = dmaIndex /\ snapshot' = memory[dmaFrom]
        BY <1>2, <2>2, <2>4, <2>8, <3>1
      <4>2. QED
        BY <2>7, <4>1
    <3>2. CASE v.age # 1
      <4>1. snapshot' = snapshot /\ snapshot = memory[dmaFrom] /\ v.age >= 2
        BY <1>2, <2>2, <2>4, <3>2
      <4>2. ~scrambled /\ before = oam
        <5>1. dmaIndex # 0
          BY <2>2, <2>4, <3>2
        <5>2. QED
          BY <1>1, <2>9, <5>1, Zenon
      <4>3. CASE i = dmaIndex
        BY <2>7, <4>1, <4>3
      <4>4. CASE i # dmaIndex
        <5>1. i \in 0 .. v.age - 2 /\ i \in Positions
          BY <2>2, <2>4, <2>8, <4>4 DEF Positions
        <5>2. v \in Started /\ IsLatest(v, Started)
          <6>1. \A x \in Started : x \in Running
            BY <1>3 DEF Started, Running
          <6>2. v \in Started
            BY <2>3, <4>1 DEF IsLatest, Started, Running
          <6>3. QED
            BY <2>3, <6>1, <6>2 DEF IsLatest
        <5>3. oam[i] = snapshot[i]
          BY <4>2, <5>1, <5>2 DEF DmaInv, CopiedIsSnapshot
        <5>4. oam'[i] = oam[i]
          BY <2>5, <2>6, <4>2, <4>4, <5>1
        <5>5. QED
          BY <4>1, <5>3, <5>4
      <4>5. QED
        BY <4>3, <4>4
    <3>3. QED
      BY <3>1, <3>2
  <2>10. QED
    BY <1>2, <2>2, <2>4, <2>5, <2>7, <2>8, <2>9
<1>7. QED
  BY <1>5, <1>6 DEF CopyIsLatest, CopiedIsSnapshot

\* The accesses that leave the DMA's registers alone.
LEMMA AccessKeepsTransfer ==
  ASSUME DmaInv, EndAccess, UNCHANGED <<dmaVars, ff46Writes>>,
         oam' \in PageContents, memory' \in [Pages -> PageContents], oamTouched' \in BOOLEAN,
         \/ oam' = oam
         \/ ~DmaBlocksOam,
         \A p \in Pages : memory'[p] = memory[p] \/ ~DmaBlocks(p)
  PROVE  DmaInv'
<1> USE DmaAssumption
<1>1. /\ phase = "access" /\ phase' = "tick" /\ snapshot' = snapshot /\ scrambled' = scrambled
      /\ dmaSource' = dmaSource /\ dmaStartDelay' = dmaStartDelay /\ dmaActive' = dmaActive
      /\ dmaIndex' = dmaIndex /\ dmaFrom' = dmaFrom /\ dmaCopying' = dmaCopying
      /\ currentPage' = currentPage /\ currentByte' = currentByte /\ ff46Writes' = ff46Writes
  BY DEF EndAccess, dmaVars
<1>2. DmaTypeOK'
  BY <1>1 DEF DmaInv, DmaTypeOK
<1>3. Running' = Running /\ Started' = Started
  BY <1>1 DEF Running, Started
<1>4. AgesDiffer' /\ StartUpIsWrite' /\ HaveLatest'
  BY <1>1, <1>3 DEF DmaInv, AgesDiffer, StartUpIsWrite, HaveLatest
<1>5. TransferIsLatest'
  <2> SUFFICES ASSUME NEW w \in Running, IsLatest(w, Running), w.age >= 2
               PROVE  memory'[w.page] = snapshot
    BY <1>1, <1>3 DEF DmaInv, TransferIsLatest
  <2>1. w \in Started /\ IsLatest(w, Started)
    <3>1. \A v \in Started : v \in Running
      BY AgedMembers DEF DmaInv, Started, Running
    <3>2. w \in Started
      BY DEF Started, Running
    <3>3. QED
      BY <3>1, <3>2 DEF IsLatest
  <2>2. dmaCopying /\ currentPage = w.page
    BY <1>1, <2>1 DEF DmaInv, CopyIsLatest
  <2>3. w.page \in Pages
    BY DEF DmaInv, DmaTypeOK, Running
  <2>4. DmaBlocks(w.page)
    BY <2>2, <2>3 DEF DmaBlocks, Pages
  <2>5. QED
    BY <2>3, <2>4 DEF DmaInv, TransferIsLatest
<1>6. CopyIsLatest'
  BY <1>1 DEF CopyIsLatest
<1>7. CopiedIsSnapshot'
  <2> SUFFICES ASSUME NEW w \in Started, IsLatest(w, Started), ~scrambled,
                      NEW i \in 0 .. w.age - 2
               PROVE  oam'[i] = snapshot[i]
    BY <1>1, <1>3 DEF CopiedIsSnapshot
  <2>1. DmaBlocksOam
    BY <1>1 DEF DmaInv, CopyIsLatest, DmaBlocksOam
  <2>2. QED
    BY <2>1 DEF DmaInv, CopiedIsSnapshot
<1>8. QED
  BY <1>2, <1>4, <1>5, <1>6, <1>7 DEF DmaInv

LEMMA FF46KeepsTransfer ==
  ASSUME DmaInv, NEW p \in Pages, WriteFF46(p)
  PROVE  DmaInv'
<1> USE DmaAssumption
<1> DEFINE new == [age |-> 0, page |-> p]
<1>1. /\ phase = "access" /\ phase' = "tick" /\ snapshot' = snapshot /\ scrambled' = scrambled
      /\ dmaSource' = p /\ dmaStartDelay' = 1 /\ dmaActive' = dmaActive
      /\ dmaIndex' = dmaIndex /\ dmaFrom' = dmaFrom /\ dmaCopying' = dmaCopying
      /\ currentPage' = currentPage /\ currentByte' = currentByte
      /\ ff46Writes' = ff46Writes \cup {new}
      /\ memory' = memory /\ oam' = oam /\ oamTouched' = oamTouched
  BY DEF EndAccess, WriteFF46
<1>2. new \in [age : 0 .. OamSize + 1, page : Pages] /\ new.age = 0 /\ new.page = p
  OBVIOUS
<1>3. DmaTypeOK'
  BY <1>1, <1>2 DEF DmaInv, DmaTypeOK
<1> HIDE DEF new
<1>4. \A w \in ff46Writes : w.age # 0
  BY <1>1 DEF DmaInv, StartUpIsWrite
<1>5. Running' = Running /\ Started' = Started
  BY <1>1, <1>2 DEF Running, Started
<1>6. AgesDiffer'
  BY <1>1, <1>2, <1>4 DEF DmaInv, AgesDiffer
<1>7. StartUpIsWrite'
  BY <1>1, <1>2, <1>4 DEF StartUpIsWrite
<1>8. HaveLatest' /\ TransferIsLatest'
  BY <1>1, <1>5 DEF DmaInv, HaveLatest, TransferIsLatest
<1>9. CopyIsLatest' /\ CopiedIsSnapshot'
  BY <1>1, <1>5 DEF DmaInv, CopyIsLatest, CopiedIsSnapshot
<1>10. QED
  BY <1>3, <1>6, <1>7, <1>8, <1>9 DEF DmaInv

LEMMA DmaStep == DmaInv /\ [DmaNext]_memoryVars => DmaInv'
<1> SUFFICES ASSUME DmaInv, [DmaNext]_memoryVars PROVE DmaInv'
  OBVIOUS
<1>1. CASE DmaTick
  BY <1>1, DmaTypeTick, LatestTick, CopyTick DEF DmaInv
<1>2. CASE NoAccess \/ TouchOam
  BY <1>2, AccessKeepsTransfer DEF NoAccess, TouchOam, DmaInv, DmaTypeOK
<1>3. ASSUME NEW i \in Positions, NEW b \in Bytes, WriteOam(i, b) PROVE DmaInv'
  BY <1>3, AccessKeepsTransfer DEF WriteOam, DmaInv, DmaTypeOK, PageContents
<1>4. ASSUME NEW p \in Pages, NEW i \in Positions, NEW b \in Bytes, WriteMemory(p, i, b)
      PROVE  DmaInv'
  <2>1. /\ memory \in [Pages -> PageContents] /\ oam \in PageContents
        /\ memory' = [memory EXCEPT ![p][i] = b]
    BY <1>4 DEF WriteMemory, DmaInv, DmaTypeOK
  <2>2. memory' \in [Pages -> PageContents]
    BY <2>1 DEF PageContents
  <2>3. \A q \in Pages : memory'[q] = memory[q] \/ ~DmaBlocks(q)
    BY <1>4, <2>1 DEF WriteMemory
  <2>4. QED
    BY <1>4, <2>1, <2>2, <2>3, AccessKeepsTransfer DEF WriteMemory, DmaInv, DmaTypeOK
<1>5. ASSUME NEW p \in Pages, WriteFF46(p) PROVE DmaInv'
  BY <1>5, FF46KeepsTransfer
<1>6. CASE UNCHANGED memoryVars
  <2>1. /\ UNCHANGED <<phase, memory, oam, oamTouched, ff46Writes, snapshot, scrambled>>
        /\ UNCHANGED <<dmaSource, dmaStartDelay, dmaActive, dmaIndex, dmaFrom, dmaCopying,
                       currentPage, currentByte>>
    BY <1>6 DEF memoryVars, dmaVars
  <2>2. Running' = Running /\ Started' = Started
    BY <2>1 DEF Running, Started
  <2>3. DmaTypeOK' /\ AgesDiffer' /\ StartUpIsWrite' /\ HaveLatest'
    BY <2>1, <2>2 DEF DmaInv, DmaTypeOK, AgesDiffer, StartUpIsWrite, HaveLatest
  <2>4. TransferIsLatest' /\ CopyIsLatest' /\ CopiedIsSnapshot'
    BY <2>1, <2>2 DEF DmaInv, TransferIsLatest, CopyIsLatest, CopiedIsSnapshot
  <2>5. QED
    BY <2>3, <2>4 DEF DmaInv
<1>7. QED
  BY <1>1, <1>2, <1>3, <1>4, <1>5, <1>6 DEF DmaNext

LEMMA DmaSpecInv == DmaSpec => []DmaInv
BY DmaInitInv, DmaStep, PTL DEF DmaSpec

\* The latest is the only one as young.
LEMMA YoungestIsLatest ==
  ASSUME DmaInv, Started # {}
  PROVE  Youngest(Started) \in Started /\ IsLatest(Youngest(Started), Started)
BY DEF DmaInv, HaveLatest, IsLatest, Youngest

\* The CPU's view of OAM DMA has the types GameBoy's members give it.
THEOREM DmaTypeOKAlways == DmaSpec => []DmaTypeOK
BY DmaSpecInv, PTL DEF DmaInv

\* Every write to FF46 means a start-up M-cycle and then byte i in the i-th M-cycle after it,
\* until the next write's own first copy (GameBoy.cpp:123-159).
THEOREM CopyFollowsWriteAlways == DmaSpec => []CopyFollowsWrite
<1>1. DmaInv => CopyFollowsWrite
  BY YoungestIsLatest DEF DmaInv, CopyIsLatest, CopyFollowsWrite
<1>2. QED
  BY <1>1, DmaSpecInv, PTL

\* What a transfer has copied so far is the page as it stood at its first byte, whatever the
\* CPU writes meanwhile and however often it restarts the transfer (GameBoy.cpp:123-185).
THEOREM TransferIsSnapshotAlways == DmaSpec => []TransferIsSnapshot
<1>1. DmaInv => TransferIsSnapshot
  BY YoungestIsLatest DEF DmaInv, CopiedIsSnapshot, TransferIsSnapshot
<1>2. QED
  BY <1>1, DmaSpecInv, PTL

\* The CPU is shut out of a bus only while a transfer from that very bus is under way.
THEOREM BlockedOnlyByOwnBusAlways == DmaSpec => []BlockedOnlyByOwnBus
<1>1. DmaInv => BlockedOnlyByOwnBus
  <2> SUFFICES ASSUME DmaInv, NEW p \in Pages, phase = "access", DmaBlocks(p)
               PROVE  /\ Started # {}
                      /\ p \in VideoPages <=> Youngest(Started).page \in VideoPages
    BY DEF BlockedOnlyByOwnBus
  <2>1. Started # {}
    BY DEF DmaInv, CopyIsLatest, DmaBlocks
  <2>2. currentPage = Youngest(Started).page
    BY <2>1, YoungestIsLatest DEF DmaInv, CopyIsLatest
  <2>3. QED
    BY <2>1, <2>2, DmaAssumption DEF DmaBlocks, Pages
<1>2. QED
  BY <1>1, DmaSpecInv, PTL
-----------------------------------------------------------------------------
(* The PPU's dots.                                                         *)

Sources == {"lyc", "oam", "vblank", "hblank"}

PpuStates ==
  [line : 0 .. Lines - 1, dot : 0 .. LineDots - 1, mode : 0 .. 3, visible : 0 .. 3,
   drawLeft : Nat, lcdOn : BOOLEAN, lcdOnLine : BOOLEAN, lycSuppressed : BOOLEAN,
   lycFrozen : BOOLEAN, statLine : BOOLEAN, clockStopped : BOOLEAN, windowReached : BOOLEAN,
   select : SUBSET Sources, lyc : Nat, wy : Nat, requests : SUBSET {"Lcd", "VBlank"}]

\* What no dot and no STAT write changes.
SameSetting(p, q) ==
  /\ q.lcdOn = p.lcdOn /\ q.clockStopped = p.clockStopped /\ q.lycFrozen = p.lycFrozen
  /\ q.visible = p.visible /\ q.lyc = p.lyc /\ q.wy = p.wy

SamePlace(p, q) ==
  /\ q.line = p.line /\ q.dot = p.dot /\ q.mode = p.mode /\ q.drawLeft = p.drawLeft
  /\ q.lcdOnLine = p.lcdOnLine

LEMMA ConditionsAreBoolean ==
  ASSUME NEW p, NEW sel PROVE StatConditions(p, sel) \in BOOLEAN
BY DEF StatConditions

\* The level line depends on neither the line's last state nor the requests.
LEMMA SameConditions ==
  ASSUME NEW p, NEW q, NEW sel, SameSetting(p, q), q.line = p.line, q.dot = p.dot,
         q.lycSuppressed = p.lycSuppressed
  PROVE  StatConditions(q, sel) = StatConditions(p, sel)
<1>1. Ly(q) = Ly(p)
  BY DEF Ly
<1>2. LycMatch(q) = LycMatch(p)
  BY <1>1, Zenon DEF LycMatch, SameSetting
<1>3. OamSourceHigh(q) = OamSourceHigh(p)
  BY Zenon DEF OamSourceHigh, SameSetting
<1>4. QED
  BY <1>2, <1>3, Zenon DEF StatConditions, SameSetting

LEMMA UpdateFields ==
  ASSUME NEW p \in PpuStates, NEW sel
  PROVE  LET q == UpdateStatLine(p, sel)
         IN  /\ q \in PpuStates
             /\ SameSetting(p, q) /\ SamePlace(p, q)
             /\ q.lycSuppressed = p.lycSuppressed /\ q.select = p.select
             /\ q.statLine = StatConditions(p, sel)
             /\ "Lcd" \in q.requests <=>
                  "Lcd" \in p.requests \/ (StatConditions(p, sel) /\ ~p.statLine)
             /\ "VBlank" \in q.requests <=> "VBlank" \in p.requests
<1> DEFINE high == StatConditions(p, sel)
           q == UpdateStatLine(p, sel)
<1>1. high \in BOOLEAN
  BY ConditionsAreBoolean
<1> HIDE DEF high
<1>2. q = [p EXCEPT !.statLine = high,
                    !.requests = IF high /\ ~p.statLine THEN p.requests \cup {"Lcd"} ELSE p.requests]
  BY DEF UpdateStatLine, high
<1>3. q \in PpuStates
  BY <1>1, <1>2 DEF PpuStates
<1>4. SameSetting(p, q) /\ SamePlace(p, q)
  BY <1>2 DEF PpuStates, SameSetting, SamePlace
<1>5. q.lycSuppressed = p.lycSuppressed /\ q.select = p.select
  BY <1>2 DEF PpuStates
<1>6. q.statLine = high
  BY <1>2 DEF PpuStates
<1>7. q.requests = IF high /\ ~p.statLine THEN p.requests \cup {"Lcd"} ELSE p.requests
  BY <1>2 DEF PpuStates
<1> HIDE DEF q
<1>8. "Lcd" \in q.requests <=> "Lcd" \in p.requests \/ (high /\ ~p.statLine)
  BY <1>7
<1>9. "VBlank" \in q.requests <=> "VBlank" \in p.requests
  BY <1>7
<1>10. QED
  BY <1>3, <1>4, <1>5, <1>6, <1>8, <1>9 DEF q, high

\* The line after a line.
NextLine(n) == IF n + 1 >= Lines THEN 0 ELSE n + 1

\* The dot that ends a line.
LEMMA NewLineFields ==
  ASSUME NEW p \in PpuStates
  PROVE  LET q == NewLine(p)
         IN  /\ q \in PpuStates
             /\ SameSetting(p, q) /\ q.select = p.select /\ q.statLine = p.statLine
             /\ q.dot = 0 /\ q.line = NextLine(p.line) /\ ~q.lcdOnLine
             /\ q.drawLeft = p.drawLeft
             /\ q.mode = IF q.line = Visible THEN 1 ELSE IF q.line < Visible THEN 2 ELSE p.mode
             /\ "VBlank" \in q.requests <=> "VBlank" \in p.requests \/ q.line = Visible
             /\ "Lcd" \in q.requests <=> "Lcd" \in p.requests
<1> USE FrameAssumption
<1> DEFINE line == NextLine(p.line)
           q == NewLine(p)
           reached == (line # 0 /\ p.windowReached) \/ (line < Visible /\ line = p.wy)
           newMode == IF line = Visible THEN 1 ELSE IF line < Visible THEN 2 ELSE p.mode
           asked == IF line = Visible THEN p.requests \cup {"VBlank"} ELSE p.requests
<1>1. /\ line \in 0 .. Lines - 1 /\ 0 \in 0 .. LineDots - 1 /\ reached \in BOOLEAN
      /\ newMode \in 0 .. 3 /\ asked \in SUBSET {"Lcd", "VBlank"}
  BY DEF NextLine, PpuStates, LineDots
<1>2. q = [p EXCEPT !.dot = 0, !.line = line, !.lcdOnLine = FALSE, !.mode = newMode,
                    !.windowReached = reached, !.requests = asked]
  BY DEF NewLine, NextLine
<1> HIDE DEF line, reached, newMode, asked
<1>3. q \in PpuStates
  BY <1>1, <1>2 DEF PpuStates
<1>4. /\ SameSetting(p, q) /\ q.select = p.select /\ q.statLine = p.statLine
      /\ q.dot = 0 /\ q.line = line /\ ~q.lcdOnLine /\ q.drawLeft = p.drawLeft
      /\ q.mode = newMode /\ q.requests = asked
  BY <1>2 DEF PpuStates, SameSetting
<1> HIDE DEF q
<1>5. QED
  BY <1>3, <1>4 DEF line, newMode, asked, q

\* Every other dot.
LEMMA LaterDotFields ==
  ASSUME NEW p \in PpuStates, NEW draw \in DrawLengths, p.dot + 1 < LineDots
  PROVE  LET q == LaterDot(p, draw)
             begins == p.line < Visible /\ q.dot = OamDots /\ (p.mode = 2 \/ p.lcdOnLine)
             ends == p.line < Visible /\ p.mode = 3 /\ p.drawLeft = 1
         IN  /\ q \in PpuStates
             /\ SameSetting(p, q) /\ q.select = p.select /\ q.statLine = p.statLine
             /\ q.dot = p.dot + 1 /\ q.line = p.line /\ q.lcdOnLine = p.lcdOnLine
             /\ q.requests = p.requests
             /\ q.mode = IF begins THEN 3 ELSE IF ends THEN 0 ELSE p.mode
             /\ q.drawLeft = IF begins THEN draw ELSE IF p.drawLeft > 0 THEN p.drawLeft - 1 ELSE 0
<1> DEFINE q == LaterDot(p, draw)
           begins == p.line < Visible /\ p.dot + 1 = OamDots /\ (p.mode = 2 \/ p.lcdOnLine)
           ends == p.line < Visible /\ p.mode = 3 /\ p.drawLeft = 1
           newMode == IF begins THEN 3 ELSE IF ends THEN 0 ELSE p.mode
           newLeft == IF begins THEN draw ELSE IF p.drawLeft > 0 THEN p.drawLeft - 1 ELSE 0
<1>1. p.dot + 1 \in 0 .. LineDots - 1 /\ newMode \in 0 .. 3 /\ newLeft \in Nat
  BY FrameAssumption, DrawAssumption DEF PpuStates, LineDots
<1>2. q = [p EXCEPT !.dot = p.dot + 1, !.mode = newMode, !.drawLeft = newLeft]
  BY DEF LaterDot
<1> HIDE DEF newMode, newLeft
<1>3. q \in PpuStates
  BY <1>1, <1>2 DEF PpuStates
<1>4. /\ SameSetting(p, q) /\ q.select = p.select /\ q.statLine = p.statLine
      /\ q.dot = p.dot + 1 /\ q.line = p.line /\ q.lcdOnLine = p.lcdOnLine
      /\ q.requests = p.requests /\ q.mode = newMode /\ q.drawLeft = newLeft
  BY <1>2 DEF PpuStates, SameSetting
<1> HIDE DEF q
<1>5. QED
  BY <1>3, <1>4 DEF newMode, newLeft, q

\* What every dot does to the comparison, the level line and the STAT request.
LevelStep(p, q) ==
  /\ SameSetting(p, q) /\ q.select = p.select
  /\ q.lycSuppressed <=> q.dot < 4
  /\ q.statLine = StatConditions(q, q.select)
  /\ "Lcd" \in q.requests <=> "Lcd" \in p.requests \/ (q.statLine /\ ~p.statLine)

Begins(p, dot) == p.line < Visible /\ dot = OamDots /\ (p.mode = 2 \/ p.lcdOnLine)

DotWithin(p, q, draw) ==
  /\ q.dot = p.dot + 1 /\ q.line = p.line /\ q.lcdOnLine = p.lcdOnLine
  /\ "VBlank" \in q.requests <=> "VBlank" \in p.requests
  /\ q.mode = IF Begins(p, q.dot) THEN 3
              ELSE IF p.line < Visible /\ p.mode = 3 /\ p.drawLeft = 1 THEN 0 ELSE p.mode
  /\ q.drawLeft = IF Begins(p, q.dot) THEN draw
                  ELSE IF p.drawLeft > 0 THEN p.drawLeft - 1 ELSE 0

LineEnds(p, q) ==
  /\ q.dot = 0 /\ q.line = NextLine(p.line) /\ ~q.lcdOnLine
  /\ "VBlank" \in q.requests <=> "VBlank" \in p.requests \/ q.line = Visible
  /\ q.mode = IF q.line = Visible THEN 1 ELSE IF q.line < Visible THEN 2 ELSE p.mode

LEMMA DotFields ==
  ASSUME NEW p \in PpuStates, NEW draw \in DrawLengths
  PROVE  LET q == StepDot(p, draw)
         IN  /\ q \in PpuStates /\ LevelStep(p, q)
             /\ p.dot + 1 < LineDots => DotWithin(p, q, draw)
             /\ p.dot + 1 >= LineDots => LineEnds(p, q)
<1> DEFINE a == IF p.dot + 1 >= LineDots THEN NewLine(p) ELSE LaterDot(p, draw)
           b == [a EXCEPT !.lycSuppressed = a.dot < 4]
           q == StepDot(p, draw)
           off == a.dot < 4
<1>1. /\ a \in PpuStates /\ SameSetting(p, a) /\ a.select = p.select /\ a.statLine = p.statLine
      /\ "Lcd" \in a.requests <=> "Lcd" \in p.requests
      /\ p.dot + 1 < LineDots => DotWithin(p, a, draw)
      /\ p.dot + 1 >= LineDots => LineEnds(p, a)
  <2>1. p.dot + 1 \in Int /\ LineDots \in Int
    BY FrameAssumption DEF PpuStates, LineDots
  <2>2. CASE p.dot + 1 >= LineDots
    <3>1. a = NewLine(p)
      BY <2>2
    <3> HIDE DEF a
    <3>2. QED
      BY <2>1, <2>2, <3>1, NewLineFields DEF LineEnds
  <2>3. CASE ~(p.dot + 1 >= LineDots)
    <3>1. a = LaterDot(p, draw) /\ p.dot + 1 < LineDots
      BY <2>1, <2>3
    <3> HIDE DEF a
    <3>2. QED
      BY <2>1, <3>1, LaterDotFields DEF DotWithin, Begins
  <2>4. QED
    BY <2>2, <2>3
<1>2. q = UpdateStatLine(b, b.select) /\ off \in BOOLEAN /\ b = [a EXCEPT !.lycSuppressed = off]
  BY DEF StepDot
<1> HIDE DEF a, off
<1>3. /\ b \in PpuStates /\ SameSetting(a, b) /\ SamePlace(a, b) /\ b.select = a.select
      /\ b.statLine = a.statLine /\ b.requests = a.requests /\ b.lycSuppressed = off
  BY <1>1, <1>2 DEF PpuStates, SameSetting, SamePlace
<1> HIDE DEF b, q
<1>4. /\ q \in PpuStates /\ SameSetting(b, q) /\ SamePlace(b, q)
      /\ q.lycSuppressed = b.lycSuppressed /\ q.select = b.select
      /\ q.statLine = StatConditions(b, b.select)
      /\ "Lcd" \in q.requests <=>
           "Lcd" \in b.requests \/ (StatConditions(b, b.select) /\ ~b.statLine)
      /\ "VBlank" \in q.requests <=> "VBlank" \in b.requests
  BY <1>2, <1>3, UpdateFields
<1>5. StatConditions(q, q.select) = StatConditions(b, b.select)
  BY <1>4, SameConditions DEF SamePlace
<1>6. SameSetting(p, q) /\ q.select = p.select
  BY <1>1, <1>3, <1>4 DEF SameSetting
<1>7. q.lycSuppressed <=> q.dot < 4
  BY <1>3, <1>4 DEF off, SamePlace
<1>8. "Lcd" \in q.requests <=> "Lcd" \in p.requests \/ (q.statLine /\ ~p.statLine)
  BY <1>1, <1>3, <1>4
<1>9. LevelStep(p, q)
  BY <1>4, <1>5, <1>6, <1>7, <1>8 DEF LevelStep
<1>10. /\ q.dot = a.dot /\ q.line = a.line /\ q.mode = a.mode /\ q.drawLeft = a.drawLeft
       /\ q.lcdOnLine = a.lcdOnLine
       /\ "VBlank" \in q.requests <=> "VBlank" \in a.requests
  BY <1>3, <1>4 DEF SamePlace
<1>11. p.dot + 1 < LineDots => DotWithin(p, q, draw)
  BY <1>1, <1>10 DEF DotWithin
<1>12. p.dot + 1 >= LineDots => LineEnds(p, q)
  BY <1>1, <1>10 DEF LineEnds
<1>13. QED
  BY <1>4, <1>9, <1>11, <1>12 DEF q

\* The conditions cannot change between two dots of an M-cycle.
LEMMA ConditionsWithin ==
  ASSUME NEW p \in PpuStates, NEW q \in PpuStates, NEW sel, SameSetting(p, q), q.line = p.line,
         p.dot > 0, q.dot > 0, p.dot < 4 <=> q.dot < 4,
         p.lycSuppressed <=> p.dot < 4, q.lycSuppressed <=> q.dot < 4
  PROVE  StatConditions(q, sel) = StatConditions(p, sel)
<1>1. Ly(q) = Ly(p)
  BY DEF Ly, PpuStates
<1>2. q.lycSuppressed = p.lycSuppressed
  BY DEF PpuStates
<1>3. LycMatch(q) = LycMatch(p)
  BY <1>1, <1>2, Zenon DEF LycMatch, SameSetting
<1>4. OamSourceHigh(q) <=> OamSourceHigh(p)
  BY DEF OamSourceHigh, SameSetting, PpuStates
<1>5. OamSourceHigh(q) = OamSourceHigh(p)
  BY <1>4, Zenon DEF OamSourceHigh
<1>6. QED
  BY <1>3, <1>5, Zenon DEF StatConditions, SameSetting

\* The state just inside an M-cycle: STAT shows the mode of the M-cycle before.
Inside(p, m) ==
  /\ m.line = p.line /\ m.dot = p.dot + 1 /\ m.visible = p.mode
  /\ m.lcdOn /\ m.lyc = p.lyc
  /\ m.lycSuppressed <=> m.dot < 4

\* A whole M-cycle of a PPU that runs: four dots, of which only the last can end a line or
\* begin mode 3, and two moments at which the level line can rise.
TickTaken(p, q, draw) ==
  /\ q.visible = p.mode
  /\ q.lcdOn /\ ~q.clockStopped /\ q.lycFrozen = p.lycFrozen /\ q.lyc = p.lyc /\ q.wy = p.wy
  /\ q.select = p.select
  /\ q.lycSuppressed <=> q.dot < 4
  /\ q.statLine = StatConditions(q, q.select)
  /\ \E m \in PpuStates :
       /\ Inside(p, m)
       /\ "Lcd" \in q.requests <=>
            \/ StatConditions(m, p.select) /\ ~p.statLine
            \/ q.statLine /\ ~StatConditions(m, p.select)
  /\ p.dot + 4 < LineDots =>
       /\ q.dot = p.dot + 4 /\ q.line = p.line /\ q.lcdOnLine = p.lcdOnLine
       /\ "VBlank" \notin q.requests
       /\ q.mode = IF Begins(p, q.dot) THEN 3
                   ELSE IF p.line < Visible /\ p.mode = 3 /\ p.drawLeft \in 1 .. 4 THEN 0
                   ELSE p.mode
       /\ q.drawLeft = IF Begins(p, q.dot) THEN draw
                       ELSE IF p.drawLeft > 4 THEN p.drawLeft - 4 ELSE 0
  /\ p.dot + 4 >= LineDots =>
       /\ q.dot = 0 /\ q.line = NextLine(p.line) /\ ~q.lcdOnLine
       /\ "VBlank" \in q.requests <=> q.line = Visible
       /\ q.line = Visible => q.mode = 1
       /\ q.line < Visible => q.mode = 2
       /\ q.line > Visible /\ p.line >= Visible => q.mode = p.mode

LEMMA TickFields ==
  ASSUME NEW p \in PpuStates, NEW draw \in DrawLengths, p.lcdOn, ~p.clockStopped,
         NEW k \in 0 .. LineCycles - 1, p.dot = 4 * k
  PROVE  TickPpu(p, draw) \in PpuStates /\ TickTaken(p, TickPpu(p, draw), draw)
<1> USE FrameAssumption
<1> DEFINE q0 == [p EXCEPT !.visible = p.mode, !.requests = {}]
           q1 == StepDot(q0, draw)
           q2 == StepDot(q1, draw)
           q3 == StepDot(q2, draw)
           q4 == StepDot(q3, draw)
<1>1. TickPpu(p, draw) = q4
  BY DEF TickPpu
<1>2. /\ q0 \in PpuStates /\ SamePlace(p, q0) /\ q0.visible = p.mode /\ q0.requests = {}
      /\ q0.lcdOn /\ ~q0.clockStopped /\ q0.lycFrozen = p.lycFrozen /\ q0.lyc = p.lyc
      /\ q0.wy = p.wy /\ q0.select = p.select /\ q0.statLine = p.statLine
  BY DEF PpuStates, SamePlace
<1> HIDE DEF q0
<1>3. p.dot + 4 <= LineDots /\ LineDots = 4 * LineCycles /\ OamDots = 4 * OamCycles
  BY DEF LineDots, OamDots
<1>4. q1 \in PpuStates /\ LevelStep(q0, q1) /\ DotWithin(q0, q1, draw)
  BY <1>2, <1>3, DotFields DEF SamePlace
<1> HIDE DEF q1
<1>5. q1.dot = p.dot + 1
  BY <1>2, <1>4 DEF DotWithin, SamePlace
<1>6. q2 \in PpuStates /\ LevelStep(q1, q2) /\ DotWithin(q1, q2, draw)
  BY <1>3, <1>4, <1>5, DotFields
<1> HIDE DEF q2
<1>7. q2.dot = p.dot + 2
  BY <1>5, <1>6 DEF DotWithin
<1>8. q3 \in PpuStates /\ LevelStep(q2, q3) /\ DotWithin(q2, q3, draw)
  BY <1>3, <1>6, <1>7, DotFields
<1> HIDE DEF q3
<1>9. q3.dot = p.dot + 3
  BY <1>7, <1>8 DEF DotWithin
<1>10. /\ q4 \in PpuStates /\ LevelStep(q3, q4)
       /\ p.dot + 4 < LineDots => DotWithin(q3, q4, draw)
       /\ p.dot + 4 >= LineDots => LineEnds(q3, q4)
  BY <1>3, <1>8, <1>9, DotFields
<1> HIDE DEF q4
<1>11. /\ SameSetting(q0, q4) /\ q4.select = p.select
       /\ SameSetting(q1, q2) /\ SameSetting(q2, q3) /\ SameSetting(q0, q1)
       /\ q1.select = p.select /\ q2.select = p.select /\ q3.select = p.select
  BY <1>2, <1>4, <1>6, <1>8, <1>10 DEF LevelStep, SameSetting
<1>12. q1.line = p.line /\ q2.line = p.line /\ q3.line = p.line
  BY <1>2, <1>4, <1>6, <1>8 DEF DotWithin, SamePlace
<1>13. /\ StatConditions(q2, p.select) = StatConditions(q1, p.select)
       /\ StatConditions(q3, p.select) = StatConditions(q2, p.select)
  <2>1. p.dot + 1 < 4 <=> p.dot + 2 < 4
    BY <1>3
  <2>2. p.dot + 2 < 4 <=> p.dot + 3 < 4
    BY <1>3
  <2>3. p.dot + 1 > 0 /\ p.dot + 2 > 0 /\ p.dot + 3 > 0
    BY <1>3
  <2>4. StatConditions(q2, p.select) = StatConditions(q1, p.select)
    BY <1>4, <1>5, <1>6, <1>7, <1>11, <1>12, <2>1, <2>3, ConditionsWithin DEF LevelStep
  <2>5. StatConditions(q3, p.select) = StatConditions(q2, p.select)
    BY <1>6, <1>7, <1>8, <1>9, <1>11, <1>12, <2>2, <2>3, ConditionsWithin DEF LevelStep
  <2>6. QED
    BY <2>4, <2>5
<1>14. "Lcd" \in q4.requests <=>
         \/ StatConditions(q1, p.select) /\ ~p.statLine
         \/ q4.statLine /\ ~StatConditions(q1, p.select)
  <2>1. /\ q1.statLine = StatConditions(q1, p.select)
        /\ q2.statLine = StatConditions(q1, p.select)
        /\ q3.statLine = StatConditions(q1, p.select)
    BY <1>4, <1>6, <1>8, <1>11, <1>13 DEF LevelStep
  <2>2. "Lcd" \notin q0.requests
    BY <1>2
  <2>3. QED
    BY <1>2, <1>4, <1>6, <1>8, <1>10, <2>1, <2>2, Zenon DEF LevelStep
<1>15. Inside(p, q1)
  BY <1>2, <1>4, <1>5, <1>11, <1>12 DEF Inside, LevelStep, SameSetting
<1>16. "VBlank" \notin q3.requests
  BY <1>2, <1>4, <1>6, <1>8 DEF DotWithin
<1>17. ~Begins(q0, q1.dot) /\ ~Begins(q1, q2.dot) /\ ~Begins(q2, q3.dot)
  BY <1>3, <1>5, <1>7, <1>9 DEF Begins
<1> DEFINE Ended(r) == p.line < Visible /\ p.mode = 3 /\ p.drawLeft \in 1 .. r
<1>18. /\ q3.lcdOnLine = p.lcdOnLine
       /\ q3.mode = IF Ended(3) THEN 0 ELSE p.mode
       /\ q3.drawLeft = IF p.drawLeft > 3 THEN p.drawLeft - 3 ELSE 0
  <2>1. p.drawLeft \in Nat /\ p.line \in Nat /\ p.mode \in 0 .. 3
    BY DEF PpuStates
  <2>2. /\ q1.mode = IF Ended(1) THEN 0 ELSE p.mode
        /\ q1.drawLeft = IF p.drawLeft > 1 THEN p.drawLeft - 1 ELSE 0
    BY <1>2, <1>4, <1>17, <2>1 DEF DotWithin, SamePlace
  <2>3. /\ q2.mode = IF Ended(2) THEN 0 ELSE p.mode
        /\ q2.drawLeft = IF p.drawLeft > 2 THEN p.drawLeft - 2 ELSE 0
    BY <1>6, <1>12, <1>17, <2>1, <2>2 DEF DotWithin
  <2>4. /\ q3.mode = IF Ended(3) THEN 0 ELSE p.mode
        /\ q3.drawLeft = IF p.drawLeft > 3 THEN p.drawLeft - 3 ELSE 0
    BY <1>8, <1>12, <1>17, <2>1, <2>3 DEF DotWithin
  <2>5. q3.lcdOnLine = p.lcdOnLine
    BY <1>2, <1>4, <1>6, <1>8 DEF DotWithin, SamePlace
  <2>6. QED
    BY <2>4, <2>5
<1>19. ASSUME p.dot + 4 < LineDots
       PROVE  /\ q4.dot = p.dot + 4 /\ q4.line = p.line /\ q4.lcdOnLine = p.lcdOnLine
              /\ "VBlank" \notin q4.requests
              /\ q4.mode = IF Begins(p, q4.dot) THEN 3 ELSE IF Ended(4) THEN 0 ELSE p.mode
              /\ q4.drawLeft = IF Begins(p, q4.dot) THEN draw
                               ELSE IF p.drawLeft > 4 THEN p.drawLeft - 4 ELSE 0
  <2>1. p.drawLeft \in Nat /\ p.line \in Nat /\ p.mode \in 0 .. 3
    BY DEF PpuStates
  <2>2. DotWithin(q3, q4, draw)
    BY <1>10, <1>19
  <2>3. q4.dot = p.dot + 4 /\ q4.line = p.line /\ q4.lcdOnLine = p.lcdOnLine
    BY <1>9, <1>12, <1>18, <2>2 DEF DotWithin
  <2>4. "VBlank" \notin q4.requests
    BY <1>16, <2>2 DEF DotWithin
  <2>5. Begins(q3, q4.dot) <=> Begins(p, q4.dot)
    BY <1>12, <1>18, <2>1 DEF Begins
  <2>6. q4.mode = IF Begins(p, q4.dot) THEN 3 ELSE IF Ended(4) THEN 0 ELSE p.mode
    BY <1>12, <1>18, <2>1, <2>2, <2>5 DEF DotWithin
  <2>7. q4.drawLeft = IF Begins(p, q4.dot) THEN draw
                      ELSE IF p.drawLeft > 4 THEN p.drawLeft - 4 ELSE 0
    BY <1>18, <2>1, <2>2, <2>5 DEF DotWithin
  <2>8. QED
    BY <2>3, <2>4, <2>6, <2>7
<1>20. ASSUME p.dot + 4 >= LineDots
       PROVE  /\ q4.dot = 0 /\ q4.line = NextLine(p.line) /\ ~q4.lcdOnLine
              /\ "VBlank" \in q4.requests <=> q4.line = Visible
              /\ q4.line = Visible => q4.mode = 1
              /\ q4.line < Visible => q4.mode = 2
              /\ q4.line > Visible /\ p.line >= Visible => q4.mode = p.mode
  <2>1. LineEnds(q3, q4)
    BY <1>10, <1>20
  <2>2. p.line \in Nat /\ q4.line \in Nat
    BY <1>10 DEF PpuStates
  <2>3. p.line >= Visible => q3.mode = p.mode
    BY <1>18, <2>2
  <2>4. QED
    BY <1>12, <1>16, <2>1, <2>2, <2>3 DEF LineEnds
<1>21. /\ q4.visible = p.mode /\ q4.lcdOn /\ ~q4.clockStopped /\ q4.lycFrozen = p.lycFrozen
       /\ q4.lyc = p.lyc /\ q4.wy = p.wy
  BY <1>2, <1>11 DEF SameSetting
<1>22. (q4.lycSuppressed <=> q4.dot < 4) /\ q4.statLine = StatConditions(q4, q4.select)
  BY <1>10 DEF LevelStep
<1>23. QED
  BY <1>1, <1>4, <1>10, <1>11, <1>14, <1>15, <1>19, <1>20, <1>21, <1>22 DEF TickTaken
-----------------------------------------------------------------------------
(* The PPU's invariant: an M-cycle ends on a fourth dot, the modes stand   *)
(* where the line puts them, the level line is what the conditions say,    *)
(* and the M-cycles counted are the place in the frame.                    *)

PpuTypeOK ==
  /\ ppu \in PpuStates
  /\ \E k \in 0 .. LineCycles - 1 : ppu.dot = 4 * k
  /\ requested \subseteq {"Lcd", "VBlank"}
  /\ access \in BOOLEAN /\ reselected \in BOOLEAN
  /\ since \in Nat /\ raised \in Nat /\ writes \in Nat
  /\ from \in {"boot", "on", "vblank"}

ModesInPlace ==
  /\ ~ppu.lcdOn => ppu.mode = 0
  /\ ppu.line < Visible => ppu.mode # 1

LevelIsCurrent ==
  access /\ ppu.lcdOn /\ ~ppu.clockStopped =>
    ppu.statLine = StatConditions(ppu, ppu.select)

FrozenIsLevel ==
  ~ppu.lcdOn /\ ~reselected /\ ppu.select = {"lyc"} => ppu.statLine = ppu.lycFrozen

FramePlace ==
  /\ ppu.lcdOn /\ from = "on" =>
       ppu.line < Visible /\ 4 * since + 4 = ppu.line * LineDots + ppu.dot
  /\ ppu.lcdOn /\ from = "vblank" =>
       4 * since + Visible * LineDots =
         ppu.line * LineDots + ppu.dot + (IF ppu.line < Visible THEN Lines * LineDots ELSE 0)

PpuInv ==
  PpuTypeOK /\ ModesInPlace /\ LevelIsCurrent /\ FrozenIsLevel /\ FramePlace /\ LocksCoverUse

LEMMA LineDotsFacts ==
  /\ LineDots \in Nat /\ OamDots \in Nat
  /\ LineDots = 4 * LineCycles /\ OamDots = 4 * OamCycles /\ OamDots >= 8 /\ OamDots + 4 <= LineDots
  /\ \A n \in Nat : n * LineDots \in Nat /\ (n + 1) * LineDots = n * LineDots + LineDots
  /\ \A n \in Nat : n * LineDots = 4 * (n * LineCycles) /\ n * LineCycles \in Nat
  /\ 0 * LineDots = 0
<1>1. /\ LineDots \in Nat /\ OamDots \in Nat /\ LineDots = 4 * LineCycles
      /\ OamDots = 4 * OamCycles /\ OamDots >= 8 /\ OamDots + 4 <= LineDots
  BY FrameAssumption DEF LineDots, OamDots
<1>2. ASSUME NEW n \in Nat
      PROVE  n * LineDots \in Nat /\ (n + 1) * LineDots = n * LineDots + LineDots
  BY <1>1, Z3
<1>3. ASSUME NEW n \in Nat PROVE n * LineDots = 4 * (n * LineCycles) /\ n * LineCycles \in Nat
  <2>1. LineCycles \in Nat
    BY FrameAssumption
  <2>2. QED
    BY <1>1, <2>1, Z3
<1>4. QED
  BY <1>1, <1>2, <1>3

\* Which writes leave the picture's place, its modes and its locks alone.
Quiet(p, q) ==
  /\ SamePlace(p, q) /\ q.lcdOn = p.lcdOn /\ q.visible = p.visible
  /\ q.requests \subseteq {"Lcd"}

LEMMA MatchIsBoolean ==
  ASSUME NEW p \in PpuStates PROVE LycMatch(p) \in BOOLEAN
<1>1. CASE ~p.lcdOn
  BY <1>1 DEF LycMatch, PpuStates
<1>2. CASE p.lcdOn
  BY <1>2 DEF LycMatch
<1>3. QED
  BY <1>1, <1>2

\* The switch puts the PPU at a place of its own choice.
LEMMA LinePutIsState ==
  ASSUME NEW p \in PpuStates, NEW on \in BOOLEAN, NEW line \in 0 .. Lines - 1,
         NEW dot \in 0 .. LineDots - 1, NEW left \in Nat, NEW onLine \in BOOLEAN,
         NEW held \in BOOLEAN, NEW reached \in BOOLEAN, NEW shown \in 0 .. 3,
         NEW asked \in SUBSET {"Lcd", "VBlank"}
  PROVE  [p EXCEPT !.lcdOn = on, !.line = line, !.dot = dot, !.mode = shown, !.visible = shown,
                   !.drawLeft = left, !.lcdOnLine = onLine, !.lycSuppressed = held,
                   !.windowReached = reached, !.requests = asked] \in PpuStates
BY DEF PpuStates

LEMMA SwitchOffFields ==
  ASSUME NEW p \in PpuStates
  PROVE  LET q == SwitchOff(p)
         IN  /\ q \in PpuStates /\ q.requests = {}
             /\ q.lcdOn = FALSE /\ q.line = 0 /\ q.dot = 0 /\ q.mode = 0 /\ q.visible = 0
             /\ q.lycFrozen = LycMatch(p) /\ q.statLine = p.statLine /\ q.select = p.select
<1> DEFINE held == LycMatch(p)
           q == SwitchOff(p)
<1>1. held \in BOOLEAN
  BY MatchIsBoolean
<1>2. q = [p EXCEPT !.lycFrozen = held, !.lcdOn = FALSE, !.line = 0, !.dot = 0, !.mode = 0,
              !.visible = 0, !.drawLeft = 0, !.lcdOnLine = FALSE, !.lycSuppressed = FALSE,
              !.windowReached = FALSE, !.requests = {}]
  BY DEF SwitchOff
<1> HIDE DEF held
<1>3. q \in PpuStates
  <2> DEFINE r == [p EXCEPT !.lycFrozen = held]
  <2>1. r \in PpuStates
    BY <1>1 DEF PpuStates
  <2>2. q = [r EXCEPT !.lcdOn = FALSE, !.line = 0, !.dot = 0, !.mode = 0, !.visible = 0,
                      !.drawLeft = 0, !.lcdOnLine = FALSE, !.lycSuppressed = FALSE,
                      !.windowReached = FALSE, !.requests = {}]
    BY <1>2
  <2> HIDE DEF r
  <2>3. 0 \in 0 .. Lines - 1 /\ 0 \in 0 .. LineDots - 1 /\ FALSE \in BOOLEAN /\ 0 \in Nat
    BY FrameAssumption DEF LineDots
  <2>4. 0 \in 0 .. 3 /\ {} \in SUBSET {"Lcd", "VBlank"}
    OBVIOUS
  <2>5. [r EXCEPT !.lcdOn = FALSE, !.line = 0, !.dot = 0, !.mode = 0, !.visible = 0,
                  !.drawLeft = 0, !.lcdOnLine = FALSE, !.lycSuppressed = FALSE,
                  !.windowReached = FALSE, !.requests = {}] \in PpuStates
    BY <2>1, <2>3, <2>4, LinePutIsState
  <2>6. QED
    BY <2>2, <2>5, Zenon
<1>4. QED
  BY <1>2, <1>3 DEF PpuStates, held

LEMMA SwitchOnFields ==
  ASSUME NEW p \in PpuStates
  PROVE  LET q == SwitchOn(p)
         IN  /\ q \in PpuStates /\ q.requests \subseteq {"Lcd"}
             /\ q.lcdOn = TRUE /\ q.line = 0 /\ q.dot = 4 /\ q.mode = 0
             /\ "Lcd" \in q.requests <=> "lyc" \in p.select /\ p.lyc = 0 /\ ~p.statLine
<1> DEFINE sel == p.select \ {"hblank"}
           reached == p.windowReached \/ p.wy = 0
           a == [p EXCEPT !.lcdOn = TRUE, !.line = 0, !.dot = 4, !.mode = 0, !.visible = 0,
                          !.lcdOnLine = TRUE, !.lycSuppressed = FALSE,
                          !.windowReached = reached, !.requests = {}]
           q == SwitchOn(p)
<1>1. 0 \in 0 .. Lines - 1 /\ 4 \in 0 .. LineDots - 1 /\ reached \in BOOLEAN
  BY FrameAssumption DEF PpuStates, LineDots
<1>2. q = UpdateStatLine(a, a.select \ {"hblank"})
  BY DEF SwitchOn
<1> HIDE DEF reached
<1>3. /\ a \in PpuStates /\ a.requests = {} /\ a.lcdOn /\ a.line = 0 /\ a.dot = 4 /\ a.mode = 0
      /\ a.visible = 0 /\ ~a.lycSuppressed /\ a.lyc = p.lyc /\ a.statLine = p.statLine
      /\ a.select = p.select
  <2>1. a \in PpuStates
    <3> DEFINE b == [p EXCEPT !.lcdOn = TRUE, !.line = 0, !.dot = 4, !.mode = 0, !.visible = 0,
                          !.drawLeft = p.drawLeft, !.lcdOnLine = TRUE, !.lycSuppressed = FALSE,
                          !.windowReached = reached, !.requests = {}]
    <3>1. /\ TRUE \in BOOLEAN /\ FALSE \in BOOLEAN /\ p.drawLeft \in Nat
          /\ 0 \in 0 .. 3 /\ {} \in SUBSET {"Lcd", "VBlank"}
      BY DEF PpuStates
    <3>2. b \in PpuStates
      BY <1>1, <3>1, LinePutIsState
    <3>3. a = b
      BY DEF PpuStates
    <3>4. QED
      BY <3>2, <3>3
  <2>2. QED
    BY <2>1 DEF PpuStates
<1> HIDE DEF a
<1>4. StatConditions(a, sel) <=> "lyc" \in sel /\ p.lyc = 0
  <2>1. LycMatch(a) <=> p.lyc = 0
    BY <1>3, FrameAssumption DEF LycMatch, Ly, PpuStates
  <2>2. ~OamSourceHigh(a)
    BY <1>3 DEF OamSourceHigh
  <2>3. QED
    BY <1>3, <2>1, <2>2 DEF StatConditions
<1> HIDE DEF q
<1>5. /\ q \in PpuStates /\ SameSetting(a, q) /\ SamePlace(a, q)
      /\ "Lcd" \in q.requests <=>
           "Lcd" \in a.requests \/ (StatConditions(a, sel) /\ ~a.statLine)
      /\ "VBlank" \in q.requests <=> "VBlank" \in a.requests
  BY <1>2, <1>3, UpdateFields
<1>6. q.requests \subseteq {"Lcd"}
  BY <1>3, <1>5 DEF PpuStates
<1>7. q.lcdOn = TRUE /\ q.line = 0 /\ q.dot = 4 /\ q.mode = 0
  <2>1. a.lcdOn = TRUE
    BY <1>3 DEF PpuStates
  <2>2. QED
    BY <1>3, <1>5, <2>1 DEF SameSetting, SamePlace
<1>8. "Lcd" \in q.requests <=> "lyc" \in p.select /\ p.lyc = 0 /\ ~p.statLine
  BY <1>3, <1>4, <1>5
<1>9. QED
  BY <1>5, <1>6, <1>7, <1>8 DEF q

LEMMA WriteSelectFields ==
  ASSUME NEW p \in PpuStates, NEW sel \in Selections
  PROVE  WriteSelect(p, sel) \in PpuStates /\ Quiet(p, WriteSelect(p, sel))
<1> DEFINE a == [p EXCEPT !.requests = {}]
           g == UpdateStatLine(a, {"lyc", "oam", "vblank", "hblank"})
           b == IF p.lcdOn THEN g ELSE a
           q == WriteSelect(p, sel)
<1>1. /\ a \in PpuStates /\ SamePlace(p, a) /\ a.lcdOn = p.lcdOn /\ a.visible = p.visible
      /\ a.requests = {}
  BY DEF PpuStates, SamePlace
<1>2. q = [b EXCEPT !.select = sel]
  BY DEF WriteSelect
<1> HIDE DEF a, q
<1>3. g \in PpuStates /\ SamePlace(a, g) /\ SameSetting(a, g) /\ "VBlank" \notin g.requests
  BY <1>1, UpdateFields
<1> HIDE DEF g
<1>4. /\ b \in PpuStates /\ SamePlace(p, b) /\ b.lcdOn = p.lcdOn /\ b.visible = p.visible
      /\ b.requests \subseteq {"Lcd"}
  BY <1>1, <1>3 DEF SamePlace, SameSetting, PpuStates
<1> HIDE DEF b
<1>5. sel \in SUBSET Sources
  BY InputAssumption DEF Sources
<1>6. q \in PpuStates
  BY <1>2, <1>4, <1>5 DEF PpuStates
<1>7. SamePlace(b, q) /\ q.lcdOn = b.lcdOn /\ q.visible = b.visible /\ q.requests = b.requests
  BY <1>2, <1>4 DEF PpuStates, SamePlace
<1>8. QED
  BY <1>4, <1>6, <1>7 DEF Quiet, SamePlace, q

LEMMA PpuInitInv == Init => PpuInv
<1> SUFFICES ASSUME Init PROVE PpuInv
  OBVIOUS
<1> USE FrameAssumption, BootAssumption, LineDotsFacts
<1>1. ppu \in PpuStates
  <2>1. /\ Lines - 1 \in 0 .. Lines - 1 /\ BootDot \in 0 .. LineDots - 1 /\ 1 \in 0 .. 3
        /\ {} \in SUBSET Sources /\ {} \in SUBSET {"Lcd", "VBlank"}
    OBVIOUS
  <2>2. QED
    BY <2>1 DEF Init, BootPpu, PpuStates
<1>2. /\ ppu.dot = BootDot /\ ppu.line = Lines - 1 /\ ppu.mode = 1 /\ ppu.lcdOn
      /\ access = FALSE /\ from = "boot"
  BY DEF Init, BootPpu
<1>3. \E k \in 0 .. LineCycles - 1 : ppu.dot = 4 * k
  <2>1. BootDot = 4 * (BootDot \div 4) /\ BootDot \div 4 \in 0 .. LineCycles - 1
    BY Z3
  <2>2. QED
    BY <1>2, <2>1
<1>4. PpuTypeOK
  BY <1>1, <1>3 DEF Init, PpuTypeOK
<1>5. ModesInPlace /\ LevelIsCurrent /\ FrozenIsLevel /\ FramePlace /\ LocksCoverUse
  BY <1>2 DEF ModesInPlace, LevelIsCurrent, FrozenIsLevel, FramePlace, LocksCoverUse
<1>6. QED
  BY <1>4, <1>5 DEF PpuInv

\* An M-cycle in which the PPU does not run.
LEMMA IdleTick ==
  ASSUME PpuInv, NEW draw \in DrawLengths, Tick(draw), ppu.clockStopped \/ ~ppu.lcdOn
  PROVE  /\ ppu' \in PpuStates /\ ppu' = [ppu EXCEPT !.requests = {}] /\ ppu'.requests = {}
         /\ since' = since /\ raised' = raised /\ from' = from /\ writes' = writes
<1>1. ppu' = [ppu EXCEPT !.requests = {}]
  BY DEF Tick, TickPpu
<1>2. ppu \in PpuStates
  BY DEF PpuInv, PpuTypeOK
<1>3. ppu' \in PpuStates /\ ppu'.requests = {}
  BY <1>1, <1>2 DEF PpuStates
<1>4. ppu'.clockStopped = ppu.clockStopped /\ ppu'.lcdOn = ppu.lcdOn
  BY <1>1, <1>2 DEF PpuStates
<1>5. QED
  BY <1>1, <1>3, <1>4 DEF Tick

LEMMA IdleKeeps ==
  ASSUME PpuInv, NEW draw \in DrawLengths, Tick(draw), ppu.clockStopped \/ ~ppu.lcdOn
  PROVE  PpuInv'
<1>1. /\ ppu \in PpuStates /\ ppu' \in PpuStates /\ SamePlace(ppu, ppu')
      /\ ppu'.lcdOn = ppu.lcdOn /\ ppu'.clockStopped = ppu.clockStopped
      /\ ppu'.visible = ppu.visible /\ ppu'.select = ppu.select
      /\ ppu'.statLine = ppu.statLine /\ ppu'.lycFrozen = ppu.lycFrozen
  BY IdleTick DEF PpuInv, PpuTypeOK, PpuStates, SamePlace
<1>2. /\ since' = since /\ raised' = raised /\ from' = from /\ writes' = writes
      /\ reselected' = reselected /\ access' = TRUE /\ requested' = {}
  BY IdleTick DEF Tick
<1>3. PpuTypeOK'
  BY <1>1, <1>2 DEF PpuInv, PpuTypeOK, SamePlace
<1>4. ModesInPlace' /\ LevelIsCurrent' /\ FrozenIsLevel'
  BY <1>1, <1>2 DEF PpuInv, ModesInPlace, LevelIsCurrent, FrozenIsLevel, SamePlace
<1>5. FramePlace'
  BY <1>1, <1>2 DEF PpuInv, FramePlace, SamePlace
<1>6. LocksCoverUse'
  BY <1>1 DEF PpuInv, LocksCoverUse, VramBlocked, OamBlocked, SamePlace
<1>7. QED
  BY <1>3, <1>4, <1>5, <1>6 DEF PpuInv

\* An M-cycle in which it runs.
LEMMA RunningTick ==
  ASSUME PpuInv, NEW draw \in DrawLengths, Tick(draw), ~ppu.clockStopped, ppu.lcdOn
  PROVE  /\ ppu' \in PpuStates /\ TickTaken(ppu, ppu', draw)
         /\ requested' = ppu'.requests /\ access' = TRUE /\ reselected' = reselected
         /\ IF "VBlank" \in ppu'.requests
            THEN since' = 0 /\ from' = "vblank" /\ raised' = 0 /\ writes' = 0
            ELSE /\ since' = since + 1 /\ from' = from /\ writes' = writes
                 /\ raised' = IF "Lcd" \in ppu'.requests THEN raised + 1 ELSE raised
<1>1. PICK k \in 0 .. LineCycles - 1 : ppu.dot = 4 * k
  BY DEF PpuInv, PpuTypeOK
<1>2. ppu' = TickPpu(ppu, draw)
  BY DEF Tick
<1>3. ppu' \in PpuStates /\ TickTaken(ppu, ppu', draw)
  BY <1>1, <1>2, TickFields DEF PpuInv, PpuTypeOK
<1>4. ~ppu'.clockStopped /\ ppu'.lcdOn
  BY <1>3 DEF TickTaken
<1>5. QED
  BY <1>2, <1>3, <1>4 DEF Tick

LEMMA NextLineFacts ==
  ASSUME NEW n \in 0 .. Lines - 1
  PROVE  /\ NextLine(n) \in 0 .. Lines - 1
         /\ n < Visible => NextLine(n) = n + 1
         /\ n >= Visible => NextLine(n) = 0 \/ NextLine(n) = n + 1
         /\ NextLine(n) = 0 <=> n = Lines - 1
BY FrameAssumption DEF NextLine

LEMMA TickKeepsPlace ==
  ASSUME PpuInv, NEW draw \in DrawLengths, Tick(draw), ~ppu.clockStopped, ppu.lcdOn
  PROVE  FramePlace'
<1> USE FrameAssumption
<1>1. /\ ppu \in PpuStates /\ ppu' \in PpuStates /\ TickTaken(ppu, ppu', draw)
      /\ since \in Nat /\ FramePlace
  BY RunningTick DEF PpuInv, PpuTypeOK
<1>2. /\ ppu.line \in 0 .. Lines - 1 /\ ppu.dot \in 0 .. LineDots - 1
      /\ ppu'.line \in 0 .. Lines - 1 /\ ppu'.dot \in 0 .. LineDots - 1
  BY <1>1 DEF PpuStates
<1>3. ppu.dot + 4 <= LineDots
  BY LineDotsFacts DEF PpuInv, PpuTypeOK
<1> DEFINE at == ppu.line * LineDots
           top == Visible * LineDots
           all == Lines * LineDots
<1>4. at \in Nat /\ top \in Nat /\ all \in Nat /\ (ppu.line + 1) * LineDots = at + LineDots
  BY <1>2, LineDotsFacts
<1>5. CASE ppu.dot + 4 < LineDots
  <2>1. /\ ppu'.dot = ppu.dot + 4 /\ ppu'.line = ppu.line /\ since' = since + 1 /\ from' = from
    BY <1>1, <1>5, RunningTick DEF TickTaken
  <2>2. ppu'.line * LineDots = at
    BY <2>1
  <2> HIDE DEF at, top, all
  <2>3. FramePlace => /\ from = "on" => ppu.line < Visible /\ 4 * since + 4 = at + ppu.dot
                      /\ from = "vblank" => 4 * since + top =
                           at + ppu.dot + (IF ppu.line < Visible THEN all ELSE 0)
    BY DEF FramePlace, at, top, all
  <2>4. /\ from' = "on" => ppu'.line < Visible /\ 4 * since' + 4 = at + ppu'.dot
        /\ from' = "vblank" => 4 * since' + top =
             at + ppu'.dot + (IF ppu'.line < Visible THEN all ELSE 0)
    BY <1>1, <1>2, <1>4, <2>1, <2>3
  <2>5. QED
    BY <2>2, <2>4 DEF FramePlace, top, all
<1>6. CASE ppu.dot + 4 >= LineDots
  <2>1. ppu'.dot = 0 /\ ppu'.line = NextLine(ppu.line) /\ ppu.dot + 4 = LineDots
    BY <1>1, <1>2, <1>3, <1>6, LineDotsFacts DEF TickTaken
  <2>2. "VBlank" \in ppu'.requests <=> ppu'.line = Visible
    BY <1>1, <1>6 DEF TickTaken
  <2>3. CASE ppu'.line = Visible
    <3>1. since' = 0 /\ from' = "vblank"
      BY <2>2, <2>3, RunningTick
    <3>2. ppu'.line * LineDots = top
      BY <2>3
    <3> HIDE DEF top, all
    <3>3. 4 * since' + top = ppu'.line * LineDots + ppu'.dot + 0
      BY <1>4, <2>1, <3>1, <3>2
    <3>4. ~(ppu'.line < Visible)
      BY <2>3
    <3>5. QED
      BY <3>1, <3>3, <3>4 DEF FramePlace, top, all
  <2>4. CASE ppu'.line # Visible
    <3>1. since' = since + 1 /\ from' = from
      BY <2>2, <2>4, RunningTick
    <3>2. CASE ppu'.line = ppu.line + 1
      <4>1. ppu'.line * LineDots = at + LineDots
        BY <1>4, <3>2
      <4>2. ppu.line < Visible <=> ppu'.line < Visible
        BY <1>2, <2>4, <3>2
      <4> HIDE DEF at, top, all
      <4>3. /\ from = "on" => ppu.line < Visible /\ 4 * since + 4 = at + ppu.dot
            /\ from = "vblank" => 4 * since + top =
                 at + ppu.dot + (IF ppu.line < Visible THEN all ELSE 0)
        BY <1>1 DEF FramePlace, at, top, all
      <4>4. /\ from' = "on" => ppu'.line < Visible /\ 4 * since' + 4 = (at + LineDots) + ppu'.dot
            /\ from' = "vblank" => 4 * since' + top =
                 (at + LineDots) + ppu'.dot + (IF ppu'.line < Visible THEN all ELSE 0)
        BY <1>1, <1>2, <1>4, <2>1, <3>1, <4>2, <4>3, LineDotsFacts
      <4>5. QED
        BY <4>1, <4>4 DEF FramePlace, top, all
    <3>3. CASE ppu'.line # ppu.line + 1
      <4>1. ppu'.line = 0 /\ ppu.line = Lines - 1 /\ ppu.line >= Visible
        BY <1>2, <2>1, <3>3, NextLineFacts
      <4>2. ppu'.line * LineDots = 0 /\ at + LineDots = all
        BY <1>4, <4>1, LineDotsFacts
      <4> HIDE DEF at, top, all
      <4>3. /\ from # "on"
            /\ from = "vblank" => 4 * since + top = at + ppu.dot
        BY <1>1, <1>2, <1>4, <4>1 DEF FramePlace, at, top
      <4>4. from' = "vblank" => 4 * since' + top = 0 + ppu'.dot + all
        BY <1>1, <1>2, <1>4, <2>1, <3>1, <4>2, <4>3, LineDotsFacts
      <4>5. QED
        BY <3>1, <4>1, <4>2, <4>3, <4>4 DEF FramePlace, top, all
    <3>4. QED
      BY <3>2, <3>3
  <2>5. QED
    BY <2>3, <2>4
<1>7. QED
  BY <1>2, <1>5, <1>6, LineDotsFacts

\* Mode 3 begins where mode 2 stood, but on the line the LCD was switched on in; and STAT
\* shows the mode of the M-cycle before, so that the locks hold from the first dot.
LEMMA TickKeepsLocks ==
  ASSUME PpuInv, NEW draw \in DrawLengths, Tick(draw), ~ppu.clockStopped, ppu.lcdOn
  PROVE  ModesInPlace' /\ LocksCoverUse'
<1>1. /\ ppu \in PpuStates /\ ppu' \in PpuStates /\ TickTaken(ppu, ppu', draw)
      /\ ModesInPlace
  BY RunningTick DEF PpuInv, PpuTypeOK
<1>2. /\ ppu.line \in 0 .. Lines - 1 /\ ppu.dot \in 0 .. LineDots - 1 /\ ppu.mode \in 0 .. 3
      /\ ppu'.line \in 0 .. Lines - 1 /\ ppu'.mode \in 0 .. 3 /\ ppu.drawLeft \in Nat
  BY <1>1 DEF PpuStates
<1>3. ppu'.lcdOn /\ ppu'.visible = ppu.mode
  BY <1>1 DEF TickTaken
<1>4. CASE ppu.dot + 4 < LineDots
  <2>1. /\ ppu'.dot = ppu.dot + 4 /\ ppu'.line = ppu.line /\ ppu'.lcdOnLine = ppu.lcdOnLine
        /\ ppu'.mode = IF Begins(ppu, ppu'.dot) THEN 3
                       ELSE IF ppu.line < Visible /\ ppu.mode = 3 /\ ppu.drawLeft \in 1 .. 4 THEN 0
                       ELSE ppu.mode
    BY <1>1, <1>4 DEF TickTaken
  <2>2. ppu'.line < Visible => ppu'.mode # 1
    BY <1>1, <1>2, <2>1 DEF ModesInPlace
  <2>3. ASSUME ppu'.mode = 3
        PROVE  ppu'.visible \in {2, 3} \/ (ppu'.lcdOnLine /\ ppu'.dot = OamDots)
    BY <1>2, <1>3, <2>1, <2>3 DEF Begins
  <2>4. QED
    BY <1>1, <1>2, <1>3, <2>2, <2>3 DEF ModesInPlace, LocksCoverUse, VramBlocked, OamBlocked
<1>5. CASE ppu.dot + 4 >= LineDots
  <2>1. /\ ppu'.line = NextLine(ppu.line)
        /\ ppu'.line = Visible => ppu'.mode = 1
        /\ ppu'.line < Visible => ppu'.mode = 2
        /\ ppu'.line > Visible /\ ppu.line >= Visible => ppu'.mode = ppu.mode
    BY <1>1, <1>5 DEF TickTaken
  <2>2. ppu'.line > Visible => ppu.line >= Visible
    BY <1>2, <2>1, NextLineFacts, FrameAssumption
  <2>3. ppu'.mode = 3 => ppu'.visible = 3
    BY <1>2, <1>3, <2>1, <2>2, FrameAssumption
  <2>4. QED
    BY <1>2, <1>3, <2>1, <2>3, FrameAssumption
    DEF ModesInPlace, LocksCoverUse, VramBlocked, OamBlocked
<1>6. LineDots \in Nat
  BY LineDotsFacts
<1>7. QED
  BY <1>2, <1>4, <1>5, <1>6

LEMMA RunningKeeps ==
  ASSUME PpuInv, NEW draw \in DrawLengths, Tick(draw), ~ppu.clockStopped, ppu.lcdOn
  PROVE  PpuInv'
<1>1. /\ ppu \in PpuStates /\ ppu' \in PpuStates /\ TickTaken(ppu, ppu', draw)
  BY RunningTick DEF PpuInv, PpuTypeOK
<1>2. PICK k \in 0 .. LineCycles - 1 : ppu.dot = 4 * k
  BY DEF PpuInv, PpuTypeOK
<1>3. \E j \in 0 .. LineCycles - 1 : ppu'.dot = 4 * j
  <2>1. CASE ppu.dot + 4 < LineDots
    <3>1. ppu'.dot = 4 * (k + 1) /\ k + 1 \in 0 .. LineCycles - 1
      BY <1>1, <1>2, <2>1, LineDotsFacts, FrameAssumption DEF TickTaken
    <3>2. QED
      BY <3>1
  <2>2. CASE ppu.dot + 4 >= LineDots
    <3>1. ppu'.dot = 4 * 0 /\ 0 \in 0 .. LineCycles - 1
      BY <1>1, <2>2, FrameAssumption DEF TickTaken
    <3>2. QED
      BY <3>1
  <2>3. QED
    BY <1>2, <2>1, <2>2, LineDotsFacts
<1>4. /\ requested' \subseteq {"Lcd", "VBlank"} /\ since' \in Nat /\ raised' \in Nat
      /\ writes' \in Nat /\ from' \in {"boot", "on", "vblank"}
  <2>1. since \in Nat /\ raised \in Nat /\ writes \in Nat /\ from \in {"boot", "on", "vblank"}
    BY DEF PpuInv, PpuTypeOK
  <2>2. requested' \subseteq {"Lcd", "VBlank"}
    BY <1>1, RunningTick DEF PpuStates
  <2>3. CASE "VBlank" \in ppu'.requests
    <3>1. since' = 0 /\ from' = "vblank" /\ raised' = 0 /\ writes' = 0
      BY <2>3, RunningTick, Zenon
    <3>2. QED
      BY <2>2, <3>1
  <2>4. CASE "VBlank" \notin ppu'.requests
    <3>1. /\ since' = since + 1 /\ from' = from /\ writes' = writes
          /\ raised' = IF "Lcd" \in ppu'.requests THEN raised + 1 ELSE raised
      BY <2>4, RunningTick, Zenon
    <3>2. QED
      BY <2>1, <2>2, <3>1
  <2>5. QED
    BY <2>3, <2>4
<1>5. access' = TRUE /\ reselected' \in BOOLEAN
  BY RunningTick DEF PpuInv, PpuTypeOK
<1>6. PpuTypeOK'
  BY <1>1, <1>3, <1>4, <1>5 DEF PpuTypeOK
<1>7. LevelIsCurrent' /\ FrozenIsLevel'
  BY <1>1 DEF LevelIsCurrent, FrozenIsLevel, TickTaken
<1>8. QED
  BY <1>6, <1>7, TickKeepsPlace, TickKeepsLocks DEF PpuInv

LEMMA WriteTypes ==
  ASSUME PpuInv, ppu' \in PpuStates, NEW k \in 0 .. LineCycles - 1, ppu'.dot = 4 * k,
         requested' = ppu'.requests, access' = FALSE, reselected' \in BOOLEAN,
         since' \in Nat, raised' = raised, writes' = writes + 1,
         from' \in {"boot", "on", "vblank"}
  PROVE  PpuTypeOK'
<1>1. requested' \subseteq {"Lcd", "VBlank"}
  BY DEF PpuStates
<1>2. raised' \in Nat /\ access' \in BOOLEAN
  BY DEF PpuInv, PpuTypeOK
<1>3. writes' \in Nat
  <2>1. writes \in Nat
    BY DEF PpuInv, PpuTypeOK
  <2>2. QED
    BY <2>1
<1>4. \E j \in 0 .. LineCycles - 1 : ppu'.dot = 4 * j
  OBVIOUS
<1>5. QED
  BY <1>1, <1>2, <1>3, <1>4 DEF PpuTypeOK

\* A write that leaves the place, the modes and the locks alone.
LEMMA QuietKeeps ==
  ASSUME PpuInv, ppu' \in PpuStates, Quiet(ppu, ppu'),
         requested' = ppu'.requests, access' = FALSE, reselected' \in BOOLEAN,
         since' = since, from' = from, raised' = raised, writes' = writes + 1,
         FrozenIsLevel'
  PROVE  PpuInv'
<1>1. PpuTypeOK'
  <2>1. PICK k \in 0 .. LineCycles - 1 : ppu.dot = 4 * k
    BY DEF PpuInv, PpuTypeOK
  <2>2. ppu'.dot = 4 * k /\ since' \in Nat /\ from' \in {"boot", "on", "vblank"}
    BY <2>1 DEF Quiet, SamePlace, PpuInv, PpuTypeOK
  <2>3. QED
    BY <2>2, WriteTypes
<1>2. ModesInPlace' /\ LevelIsCurrent'
  BY DEF PpuInv, ModesInPlace, LevelIsCurrent, Quiet, SamePlace
<1>3. FramePlace'
  BY DEF PpuInv, FramePlace, Quiet, SamePlace
<1>4. LocksCoverUse'
  BY DEF PpuInv, LocksCoverUse, VramBlocked, OamBlocked, Quiet, SamePlace
<1>5. QED
  BY <1>1, <1>2, <1>3, <1>4 DEF PpuInv

LEMMA LcdOffKeeps == ASSUME PpuInv, LcdOff PROVE PpuInv'
<1> USE FrameAssumption
<1>1. ppu \in PpuStates /\ ppu' = SwitchOff(ppu)
  BY DEF PpuInv, PpuTypeOK, LcdOff, Write
<1>2. /\ ppu' \in PpuStates /\ ppu'.requests = {}
      /\ ppu'.lcdOn = FALSE /\ ppu'.line = 0 /\ ppu'.dot = 0 /\ ppu'.mode = 0
      /\ ppu'.lycFrozen = LycMatch(ppu) /\ ppu'.statLine = ppu.statLine
      /\ ppu'.select = ppu.select
  BY <1>1, SwitchOffFields
<1>3. /\ requested' = {} /\ access' = FALSE /\ writes' = writes + 1 /\ raised' = raised
      /\ reselected' = FALSE /\ since' = since /\ from' = from
      /\ access /\ ppu.lcdOn /\ ~ppu.clockStopped
  BY <1>1, <1>2 DEF LcdOff, Write
<1>4. PpuTypeOK'
  <2>1. ppu'.dot = 4 * 0 /\ 0 \in 0 .. LineCycles - 1
    BY <1>2
  <2>2. QED
    <3>1. since' \in Nat /\ from' \in {"boot", "on", "vblank"} /\ reselected' \in BOOLEAN
      BY <1>3 DEF PpuInv, PpuTypeOK
    <3>2. requested' = ppu'.requests
      BY <1>2, <1>3
    <3>3. QED
      BY <1>2, <1>3, <2>1, <3>1, <3>2, WriteTypes
<1>5. FrozenIsLevel'
  <2> SUFFICES ASSUME ppu.select = {"lyc"} PROVE ppu.statLine = LycMatch(ppu)
    BY <1>2 DEF FrozenIsLevel
  <2>1. StatConditions(ppu, {"lyc"}) <=> LycMatch(ppu)
    BY DEF StatConditions
  <2>2. ppu.statLine = StatConditions(ppu, {"lyc"})
    BY <1>3 DEF PpuInv, LevelIsCurrent
  <2>3. LycMatch(ppu) \in BOOLEAN /\ StatConditions(ppu, {"lyc"}) \in BOOLEAN
    BY <1>1, MatchIsBoolean, ConditionsAreBoolean
  <2>4. QED
    BY <2>1, <2>2, <2>3
<1>6. ModesInPlace' /\ LevelIsCurrent' /\ FramePlace' /\ LocksCoverUse'
  BY <1>2, <1>3 DEF ModesInPlace, LevelIsCurrent, FramePlace, LocksCoverUse
<1>7. QED
  BY <1>4, <1>5, <1>6 DEF PpuInv

LEMMA LcdOnKeeps == ASSUME PpuInv, LcdOn PROVE PpuInv'
<1> USE FrameAssumption
<1>1. ppu \in PpuStates /\ ppu' = SwitchOn(ppu)
  BY DEF PpuInv, PpuTypeOK, LcdOn, Write
<1>2. /\ ppu' \in PpuStates /\ ppu'.requests \subseteq {"Lcd"}
      /\ ppu'.lcdOn = TRUE /\ ppu'.line = 0 /\ ppu'.dot = 4 /\ ppu'.mode = 0
  BY <1>1, SwitchOnFields
<1>3. /\ requested' = ppu'.requests /\ access' = FALSE /\ writes' = writes + 1
      /\ raised' = raised /\ reselected' = reselected /\ since' = 0 /\ from' = "on"
  BY <1>1 DEF LcdOn, Write
<1>4. PpuTypeOK'
  <2>1. ppu'.dot = 4 * 1 /\ 1 \in 0 .. LineCycles - 1
    BY <1>2
  <2>2. QED
    <3>1. since' \in Nat /\ from' \in {"boot", "on", "vblank"} /\ reselected' \in BOOLEAN
      BY <1>3 DEF PpuInv, PpuTypeOK
    <3>2. QED
      BY <1>2, <1>3, <2>1, <3>1, WriteTypes
<1>5. FramePlace'
  BY <1>2, <1>3, LineDotsFacts DEF FramePlace
<1>6. ModesInPlace' /\ LevelIsCurrent' /\ FrozenIsLevel' /\ LocksCoverUse'
  BY <1>2, <1>3 DEF ModesInPlace, LevelIsCurrent, FrozenIsLevel, LocksCoverUse
<1>7. QED
  BY <1>4, <1>5, <1>6 DEF PpuInv

LEMMA WriteStatKeeps == ASSUME PpuInv, NEW sel \in Selections, WriteStat(sel) PROVE PpuInv'
<1>1. ppu \in PpuStates /\ ppu' = WriteSelect(ppu, sel) /\ reselected' = TRUE
  BY DEF PpuInv, PpuTypeOK, WriteStat, Write
<1>2. ppu' \in PpuStates /\ Quiet(ppu, ppu')
  BY <1>1, WriteSelectFields
<1>3. /\ requested' = ppu'.requests /\ access' = FALSE /\ writes' = writes + 1
      /\ raised' = raised /\ since' = since /\ from' = from
  BY <1>1 DEF WriteStat, Write
<1>4. FrozenIsLevel'
  BY <1>1 DEF FrozenIsLevel
<1>5. QED
  BY <1>1, <1>2, <1>3, <1>4, QuietKeeps

\* LYC, WY and the clock's stopping change neither the level line nor what is selected.
LEMMA PlainWriteKeeps ==
  ASSUME PpuInv, NEW lyc \in Nat, NEW wy \in Nat, NEW stopped \in BOOLEAN,
         ppu' = [ppu EXCEPT !.lyc = lyc, !.wy = wy, !.clockStopped = stopped, !.requests = {}],
         requested' = {}, access' = FALSE, reselected' = reselected,
         since' = since, from' = from, raised' = raised, writes' = writes + 1
  PROVE  PpuInv'
<1>1. ppu \in PpuStates
  BY DEF PpuInv, PpuTypeOK
<1>2. ppu' \in PpuStates /\ ppu'.requests = {}
  BY <1>1 DEF PpuStates
<1>3. Quiet(ppu, ppu')
  BY <1>1, <1>2 DEF PpuStates, Quiet, SamePlace
<1>4. /\ ppu'.lcdOn = ppu.lcdOn /\ ppu'.select = ppu.select /\ ppu'.statLine = ppu.statLine
      /\ ppu'.lycFrozen = ppu.lycFrozen
  BY <1>1 DEF PpuStates
<1>5. FrozenIsLevel'
  BY <1>4 DEF PpuInv, FrozenIsLevel
<1>6. reselected' \in BOOLEAN
  BY DEF PpuInv, PpuTypeOK
<1>7. QED
  BY <1>2, <1>3, <1>5, <1>6, QuietKeeps

LEMMA PpuStep == PpuInv /\ [Next]_vars => PpuInv'
<1> SUFFICES ASSUME PpuInv, [Next]_vars PROVE PpuInv'
  OBVIOUS
<1>1. ppu \in PpuStates /\ ppu.lyc \in Nat /\ ppu.wy \in Nat /\ ppu.clockStopped \in BOOLEAN
  BY DEF PpuInv, PpuTypeOK, PpuStates
<1>2. ASSUME NEW draw \in DrawLengths, Tick(draw) PROVE PpuInv'
  BY <1>2, IdleKeeps, RunningKeeps
<1>3. CASE LcdOff
  BY <1>3, LcdOffKeeps
<1>4. CASE LcdOn
  BY <1>4, LcdOnKeeps
<1>5. ASSUME NEW sel \in Selections, WriteStat(sel) PROVE PpuInv'
  BY <1>5, WriteStatKeeps
<1>6. ASSUME NEW y \in YValues, WriteLyc(y) PROVE PpuInv'
  <2>1. /\ ppu' = [ppu EXCEPT !.lyc = y, !.requests = {}] /\ requested' = ppu'.requests
        /\ access' = FALSE /\ reselected' = reselected
        /\ since' = since /\ from' = from /\ raised' = raised /\ writes' = writes + 1
    BY <1>6 DEF WriteLyc, Write
  <2>2. /\ ppu' = [ppu EXCEPT !.lyc = y, !.wy = ppu.wy, !.clockStopped = ppu.clockStopped,
                              !.requests = {}]
        /\ ppu'.requests = {}
    BY <1>1, <2>1 DEF PpuStates
  <2>3. y \in Nat
    BY InputAssumption
  <2>4. QED
    BY <1>1, <2>1, <2>2, <2>3, PlainWriteKeeps
<1>7. ASSUME NEW y \in YValues, WriteWy(y) PROVE PpuInv'
  <2>1. /\ ppu' = [ppu EXCEPT !.wy = y, !.requests = {}] /\ requested' = ppu'.requests
        /\ access' = FALSE /\ reselected' = reselected
        /\ since' = since /\ from' = from /\ raised' = raised /\ writes' = writes + 1
    BY <1>7 DEF WriteWy, Write
  <2>2. /\ ppu' = [ppu EXCEPT !.lyc = ppu.lyc, !.wy = y, !.clockStopped = ppu.clockStopped,
                              !.requests = {}]
        /\ ppu'.requests = {}
    BY <1>1, <2>1 DEF PpuStates
  <2>3. y \in Nat
    BY InputAssumption
  <2>4. QED
    BY <1>1, <2>1, <2>2, <2>3, PlainWriteKeeps
<1>8. ASSUME NEW stopped \in BOOLEAN, SetClockStopped(stopped) PROVE PpuInv'
  <2>1. /\ ppu' = [ppu EXCEPT !.clockStopped = stopped, !.requests = {}] /\ requested' = {}
        /\ access' = FALSE /\ reselected' = reselected
        /\ since' = since /\ from' = from /\ raised' = raised /\ writes' = writes + 1
    BY <1>8 DEF SetClockStopped
  <2>2. ppu' = [ppu EXCEPT !.lyc = ppu.lyc, !.wy = ppu.wy, !.clockStopped = stopped,
                           !.requests = {}]
    BY <1>1, <2>1 DEF PpuStates
  <2>3. QED
    BY <1>1, <2>1, <2>2, PlainWriteKeeps
<1>9. CASE UNCHANGED vars
  BY <1>9 DEF vars, PpuInv, PpuTypeOK, ModesInPlace, LevelIsCurrent, FrozenIsLevel, FramePlace,
              LocksCoverUse
<1>10. QED
  BY <1>2, <1>3, <1>4, <1>5, <1>6, <1>7, <1>8, <1>9 DEF Next

LEMMA PpuSpecInv == Spec => []PpuInv
BY PpuInitInv, PpuStep, PTL DEF Spec

\* Nothing the PPU reads can be read by the CPU meanwhile, but for the first M-cycle of drawing
\* on the line the LCD was switched on in (Ppu.cpp, vramBlocked and oamBlocked).
THEOREM LocksCoverUseAlways == Spec => []LocksCoverUse
BY PpuSpecInv, PTL DEF PpuInv

\* The level line is at every access what the conditions and the selection say.
THEOREM LevelIsCurrentAlways == Spec => []LevelIsCurrent
BY PpuSpecInv, PTL DEF PpuInv

\* Only switching on makes an LCD that was off go on.
LEMMA OnlySwitchTurnsOn ==
  ASSUME PpuInv, Next, ~ppu.lcdOn, ppu'.lcdOn
  PROVE  ppu' = SwitchOn(ppu) /\ requested' = ppu'.requests
<1>1. ppu \in PpuStates
  BY DEF PpuInv, PpuTypeOK
<1>2. ASSUME NEW draw \in DrawLengths, Tick(draw) PROVE FALSE
  BY <1>1, <1>2, IdleTick DEF PpuStates
<1>3. CASE LcdOff
  BY <1>3 DEF LcdOff
<1>4. CASE LcdOn
  BY <1>4 DEF LcdOn, Write
<1>5. ASSUME NEW sel \in Selections, WriteStat(sel) PROVE FALSE
  BY <1>1, <1>5, WriteSelectFields DEF WriteStat, Write, Quiet
<1>6. ASSUME NEW y \in YValues, WriteLyc(y) \/ WriteWy(y) PROVE FALSE
  BY <1>1, <1>6 DEF WriteLyc, WriteWy, Write, PpuStates
<1>7. ASSUME NEW stopped \in BOOLEAN, SetClockStopped(stopped) PROVE FALSE
  BY <1>1, <1>7 DEF SetClockStopped, PpuStates
<1>8. QED
  BY <1>2, <1>3, <1>4, <1>5, <1>6, <1>7 DEF Next

\* The comparison stops with the LCD and its result is kept: whatever is written while the LCD
\* is off, switching it on requests an interrupt only if LY = LYC becomes true by it.
THEOREM SwitchingKeepsComparisonAlways == Spec => SwitchingKeepsComparison
<1>1. ASSUME PpuInv, [Next]_vars, ~ppu.lcdOn, ppu'.lcdOn, ppu.select = {"lyc"}, ~reselected
      PROVE  "Lcd" \in requested' <=> ppu.lyc = 0 /\ ~ppu.lycFrozen
  <2>1. Next
    BY <1>1 DEF vars
  <2>2. ppu' = SwitchOn(ppu) /\ requested' = ppu'.requests
    BY <1>1, <2>1, OnlySwitchTurnsOn
  <2>3. ppu \in PpuStates
    BY <1>1 DEF PpuInv, PpuTypeOK
  <2>4. "Lcd" \in requested' <=> "lyc" \in ppu.select /\ ppu.lyc = 0 /\ ~ppu.statLine
    BY <2>2, <2>3, SwitchOnFields
  <2>5. ppu.statLine = ppu.lycFrozen
    BY <1>1 DEF PpuInv, FrozenIsLevel
  <2>6. QED
    BY <1>1, <2>4, <2>5
<1>2. PpuInv /\ [Next]_vars =>
        [~ppu.lcdOn /\ ppu'.lcdOn /\ ppu.select = {"lyc"} /\ ~reselected =>
           ("Lcd" \in requested' <=> ppu.lyc = 0 /\ ~ppu.lycFrozen)]_vars
  BY <1>1
<1>3. QED
  BY <1>2, PpuSpecInv, PTL DEF Spec, SwitchingKeepsComparison

\* VBlank is requested by no write, and by a tick only at the end of the last line drawn.
LEMMA VBlankIsLineEnd ==
  ASSUME PpuInv, Next, "VBlank" \in requested'
  PROVE  \E draw \in DrawLengths :
           /\ Tick(draw) /\ ~ppu.clockStopped /\ ppu.lcdOn
           /\ ppu.line = Visible - 1 /\ ppu.dot + 4 = LineDots
<1> USE FrameAssumption
<1>1. ppu \in PpuStates
  BY DEF PpuInv, PpuTypeOK
<1>2. ASSUME NEW draw \in DrawLengths, Tick(draw)
      PROVE  /\ ~ppu.clockStopped /\ ppu.lcdOn
             /\ ppu.line = Visible - 1 /\ ppu.dot + 4 = LineDots
  <2>1. ~ppu.clockStopped /\ ppu.lcdOn
    BY <1>2, IdleTick DEF Tick
  <2>2. ppu' \in PpuStates /\ TickTaken(ppu, ppu', draw) /\ requested' = ppu'.requests
    BY <1>2, <2>1, RunningTick
  <2>3. /\ ppu.dot \in 0 .. LineDots - 1 /\ ppu.line \in 0 .. Lines - 1
        /\ ppu'.line \in 0 .. Lines - 1 /\ LineDots \in Nat
    BY <1>1, <2>2, LineDotsFacts DEF PpuStates
  <2>4. ppu.dot + 4 <= LineDots
    BY LineDotsFacts DEF PpuInv, PpuTypeOK
  <2>5. ppu.dot + 4 >= LineDots
    BY <2>2, <2>3 DEF TickTaken
  <2>6. NextLine(ppu.line) = Visible
    BY <2>2, <2>5 DEF TickTaken
  <2>7. ppu.line = Visible - 1
    BY <2>3, <2>6 DEF NextLine
  <2>8. QED
    BY <2>1, <2>3, <2>4, <2>5, <2>7
<1>3. ~LcdOff
  BY <1>1, SwitchOffFields DEF LcdOff, Write
<1>4. ~LcdOn
  <2> SUFFICES ASSUME LcdOn PROVE FALSE
    OBVIOUS
  <2>1. requested' = SwitchOn(ppu).requests
    BY DEF LcdOn, Write
  <2>2. SwitchOn(ppu).requests \subseteq {"Lcd"}
    BY <1>1, SwitchOnFields
  <2>3. QED
    BY <2>1, <2>2
<1>5. ASSUME NEW sel \in Selections PROVE ~WriteStat(sel)
  BY <1>1, WriteSelectFields DEF WriteStat, Write, Quiet
<1>6. ASSUME NEW y \in YValues PROVE ~WriteLyc(y) /\ ~WriteWy(y)
  BY <1>1 DEF WriteLyc, WriteWy, Write, PpuStates
<1>7. ASSUME NEW stopped \in BOOLEAN PROVE ~SetClockStopped(stopped)
  BY DEF SetClockStopped
<1>8. QED
  BY <1>2, <1>3, <1>4, <1>5, <1>6, <1>7 DEF Next

\* VBlank is requested once per frame of M-cycles the PPU ran, whatever is written, for every
\* number and length of lines: the first time after the LCD is switched on one M-cycle early
\* (Ppu.cpp:442-448).
THEOREM FrameIsExactAlways == Spec => FrameIsExact
<1> USE FrameAssumption
<1>1. ASSUME PpuInv, [Next]_vars, requested' # requested \/ ppu' # ppu,
             "VBlank" \in requested', from # "boot"
      PROVE  since + 1 = IF from = "on" THEN Visible * LineCycles - 1 ELSE FrameCycles
  <2>1. Next
    BY <1>1 DEF vars
  <2>2. ppu.lcdOn /\ ppu.line = Visible - 1 /\ ppu.dot + 4 = LineDots
    BY <1>1, <2>1, VBlankIsLineEnd
  <2>3. ppu \in PpuStates /\ since \in Nat /\ from \in {"on", "vblank"} /\ FramePlace
    BY <1>1 DEF PpuInv, PpuTypeOK
  <2>4. ppu.dot \in Nat /\ LineDots \in Nat /\ Visible - 1 \in Nat
    BY <2>3, LineDotsFacts DEF PpuStates
  <2> DEFINE at == ppu.line * LineDots
             top == Visible * LineDots
             all == Lines * LineDots
             topCycles == Visible * LineCycles
             allCycles == Lines * LineCycles
  <2>5. /\ at \in Nat /\ top = at + LineDots
        /\ top = 4 * topCycles /\ topCycles \in Nat
        /\ all = 4 * allCycles /\ allCycles \in Nat
    <3>1. ((Visible - 1) + 1) * LineDots = (Visible - 1) * LineDots + LineDots
      BY <2>4, LineDotsFacts
    <3>2. (Visible - 1) + 1 = Visible
      OBVIOUS
    <3>3. (Visible - 1) * LineDots \in Nat
      BY <2>4, LineDotsFacts
    <3>4. top = 4 * topCycles /\ topCycles \in Nat /\ all = 4 * allCycles /\ allCycles \in Nat
      BY LineDotsFacts
    <3>5. QED
      BY <2>2, <3>1, <3>2, <3>3, <3>4
  <2>6. /\ from = "on" => 4 * since + 4 = at + ppu.dot
        /\ from = "vblank" => 4 * since + top = at + ppu.dot + all
    BY <2>2, <2>3 DEF FramePlace
  <2> HIDE DEF at, top, all, topCycles, allCycles
  <2>7. /\ from = "on" => since + 1 = topCycles - 1
        /\ from = "vblank" => since + 1 = allCycles
    BY <2>2, <2>3, <2>4, <2>5, <2>6
  <2>8. QED
    BY <2>3, <2>7 DEF topCycles, allCycles, FrameCycles
<1>2. PpuInv /\ [Next]_vars =>
        [requested' # requested \/ ppu' # ppu =>
           ("VBlank" \in requested' /\ from # "boot" =>
              since + 1 = IF from = "on" THEN Visible * LineCycles - 1 ELSE FrameCycles)]_vars
  BY <1>1
<1>3. QED
  BY <1>2, PpuSpecInv, PTL DEF Spec, FrameIsExact
-----------------------------------------------------------------------------
(* A frame in which nothing is written.                                    *)

\* Where such a frame's lines have the modes, and what STAT shows of them: HBlank ends every
\* line drawn, and VBlank's mode is shown an M-cycle after it began.
ShapeOf(p) ==
  /\ p.lcdOn /\ ~p.clockStopped /\ ~p.lcdOnLine
  /\ p.lycSuppressed <=> p.dot < 4
  /\ p.statLine = StatConditions(p, p.select)
  /\ p.line >= Visible =>
       /\ p.mode = 1
       /\ p.visible = 1 <=> ~(p.line = Visible /\ p.dot = 0)
  /\ p.line < Visible =>
       /\ p.dot = 0 => p.mode = 2 /\ p.visible = (IF p.line = 0 THEN 1 ELSE 0)
       /\ p.dot > 0 /\ p.dot < OamDots => p.mode = 2 /\ p.visible = 2
       /\ p.dot = OamDots => p.mode = 3 /\ p.visible = 2
       /\ p.dot > OamDots =>
            p.mode \in {0, 3} /\ p.visible \in {0, 3} /\ (p.mode = 3 => p.visible = 3)
       /\ p.mode = 3 => p.drawLeft > 0 /\ p.dot + p.drawLeft + 4 <= LineDots

\* The PPU is past the start of line n.
Past(p, n) == p.line > n \/ (p.line = n /\ p.dot > 0)

\* The requests of a frame's one source, from VBlank on.
LycSoFar(p) ==
  IF p.line >= Visible
  THEN IF \/ p.lyc >= Visible /\ p.lyc < Lines - 1 /\ Past(p, p.lyc)
          \/ p.lyc = 0 /\ Past(p, Lines - 1)
       THEN 1 ELSE 0
  ELSE (IF p.lyc = 0 \/ (p.lyc >= Visible /\ p.lyc < Lines - 1) THEN 1 ELSE 0)
       + (IF Past(p, p.lyc) THEN 1 ELSE 0)

HBlankSoFar(p) ==
  IF p.line >= Visible THEN 0 ELSE p.line + (IF p.dot > 0 /\ p.visible = 0 THEN 1 ELSE 0)

OamSoFar(p) ==
  IF p.line >= Visible THEN 0 ELSE p.line + (IF p.dot > 0 THEN 1 ELSE 0)

VBlankSoFar(p) == IF p.line = Visible /\ p.dot = 0 THEN 0 ELSE 1

RaisedIsCount ==
  Undisturbed =>
    /\ ppu.select = {} => raised = 0
    /\ ppu.select = {"lyc"} => raised = LycSoFar(ppu)
    /\ ppu.select = {"oam"} => raised = OamSoFar(ppu)
    /\ ppu.select = {"vblank"} => raised = VBlankSoFar(ppu)
    /\ ppu.select = {"hblank"} => raised = HBlankSoFar(ppu)

FrameInv == (Undisturbed => ShapeOf(ppu)) /\ RaisedIsCount

\* What a tick can be, and the numbers its cases compare.
LEMMA TickCases ==
  ASSUME NEW p \in PpuStates, NEW q \in PpuStates, NEW draw \in DrawLengths,
         TickTaken(p, q, draw), NEW k \in 0 .. LineCycles - 1, p.dot = 4 * k
  PROVE  /\ p.line \in 0 .. Lines - 1 /\ q.line \in 0 .. Lines - 1 /\ p.lyc \in Nat
         /\ p.drawLeft \in Nat /\ p.mode \in 0 .. 3 /\ p.dot \in Nat
         /\ LineDots \in Nat /\ OamDots \in Nat /\ OamDots >= 8 /\ OamDots + 4 <= LineDots
         /\ p.dot = 0 \/ p.dot >= 4
         /\ p.dot < OamDots => p.dot + 4 <= OamDots
         /\ \/ p.dot + 4 < LineDots /\ q.dot = p.dot + 4 /\ q.line = p.line
            \/ p.dot + 4 = LineDots /\ q.dot = 0 /\ q.line = NextLine(p.line)
<1>1. /\ LineDots \in Nat /\ OamDots \in Nat /\ LineDots = 4 * LineCycles
      /\ OamDots = 4 * OamCycles /\ OamDots >= 8 /\ OamDots + 4 <= LineDots
  BY LineDotsFacts
<1>2. LineCycles \in Nat /\ OamCycles \in Nat
  BY FrameAssumption
<1>3. p.dot \in Nat /\ p.dot + 4 <= LineDots /\ (p.dot = 0 \/ p.dot >= 4)
  BY <1>1, <1>2
<1>4. p.dot < OamDots => p.dot + 4 <= OamDots
  BY <1>1, <1>2
<1>5. \/ p.dot + 4 < LineDots /\ q.dot = p.dot + 4 /\ q.line = p.line
      \/ p.dot + 4 = LineDots /\ q.dot = 0 /\ q.line = NextLine(p.line)
  BY <1>1, <1>3 DEF TickTaken
<1>6. /\ p.line \in 0 .. Lines - 1 /\ q.line \in 0 .. Lines - 1 /\ p.lyc \in Nat
      /\ p.drawLeft \in Nat /\ p.mode \in 0 .. 3
  BY DEF PpuStates
<1>7. QED
  BY <1>1, <1>3, <1>4, <1>5, <1>6

LEMMA ShapeStep ==
  ASSUME NEW p \in PpuStates, NEW q \in PpuStates, NEW draw \in DrawLengths,
         TickTaken(p, q, draw), NEW k \in 0 .. LineCycles - 1, p.dot = 4 * k, ShapeOf(p)
  PROVE  /\ ShapeOf(q)
         /\ p.line < Visible /\ q.dot = 0 => p.mode = 0 /\ p.dot > OamDots
<1> USE FrameAssumption
<1>1. /\ p.line \in 0 .. Lines - 1 /\ q.line \in 0 .. Lines - 1 /\ p.lyc \in Nat
      /\ p.drawLeft \in Nat /\ p.mode \in 0 .. 3 /\ p.dot \in Nat
      /\ LineDots \in Nat /\ OamDots \in Nat /\ OamDots >= 8 /\ OamDots + 4 <= LineDots
      /\ p.dot = 0 \/ p.dot >= 4
      /\ p.dot < OamDots => p.dot + 4 <= OamDots
      /\ \/ p.dot + 4 < LineDots /\ q.dot = p.dot + 4 /\ q.line = p.line
         \/ p.dot + 4 = LineDots /\ q.dot = 0 /\ q.line = NextLine(p.line)
  BY TickCases
<1>2. draw \in Nat /\ draw > 4 /\ OamDots + draw + 4 <= LineDots
  BY DrawAssumption DEF OamDots, LineDots
<1>3. /\ q.visible = p.mode /\ q.lcdOn /\ ~q.clockStopped
      /\ q.lycSuppressed <=> q.dot < 4
      /\ q.statLine = StatConditions(q, q.select)
  BY DEF TickTaken
<1>4. CASE q.dot = p.dot + 4
  <2>1. p.dot + 4 < LineDots /\ q.line = p.line /\ q.dot > 0
    BY <1>1, <1>4
  <2>2. /\ q.mode = IF Begins(p, q.dot) THEN 3
                    ELSE IF p.line < Visible /\ p.mode = 3 /\ p.drawLeft \in 1 .. 4 THEN 0
                    ELSE p.mode
        /\ q.drawLeft = IF Begins(p, q.dot) THEN draw
                        ELSE IF p.drawLeft > 4 THEN p.drawLeft - 4 ELSE 0
        /\ q.lcdOnLine = p.lcdOnLine
    BY <2>1 DEF TickTaken
  <2>3. CASE p.line >= Visible
    BY <1>1, <1>3, <1>4, <2>1, <2>2, <2>3 DEF ShapeOf, Begins
  <2>4. CASE p.line < Visible /\ p.dot < OamDots
    <3>1. p.mode = 2 /\ q.visible = 2 /\ q.dot <= OamDots
      BY <1>1, <1>3, <1>4, <2>4 DEF ShapeOf
    <3>2. CASE q.dot = OamDots
      <4>1. q.mode = 3 /\ q.drawLeft = draw
        BY <2>2, <2>4, <3>1, <3>2 DEF Begins
      <4>2. QED
        BY <1>1, <1>2, <1>3, <2>1, <2>2, <2>4, <3>1, <3>2, <4>1 DEF ShapeOf
    <3>3. CASE q.dot # OamDots
      <4>1. q.mode = 2 /\ q.dot < OamDots
        BY <1>1, <1>4, <2>2, <3>1, <3>3 DEF Begins
      <4>2. QED
        BY <1>1, <1>3, <2>1, <2>2, <2>4, <3>1, <4>1 DEF ShapeOf
    <3>4. QED
      BY <3>2, <3>3
  <2>5. CASE p.line < Visible /\ p.dot >= OamDots
    <3>1. p.mode \in {0, 3} /\ q.visible \in {0, 3} /\ q.dot > OamDots
      BY <1>1, <1>3, <1>4, <2>5 DEF ShapeOf
    <3>2. ~Begins(p, q.dot)
      BY <3>1, <1>1, <1>4 DEF Begins
    <3>3. q.mode \in {0, 3} /\ (q.mode = 3 => q.visible = 3)
      BY <1>3, <2>2, <3>1, <3>2
    <3>4. q.mode = 3 => q.drawLeft > 0 /\ q.dot + q.drawLeft + 4 <= LineDots
      <4> SUFFICES ASSUME q.mode = 3
                   PROVE  q.drawLeft > 0 /\ q.dot + q.drawLeft + 4 <= LineDots
        OBVIOUS
      <4>1. p.mode = 3 /\ p.drawLeft \notin 1 .. 4
        BY <2>2, <2>5, <3>1, <3>2
      <4>2. p.drawLeft > 0 /\ p.dot + p.drawLeft + 4 <= LineDots
        BY <2>5, <4>1 DEF ShapeOf
      <4>3. q.drawLeft = p.drawLeft - 4
        BY <1>1, <2>2, <3>2, <4>1, <4>2
      <4>4. QED
        BY <1>1, <1>4, <4>1, <4>2, <4>3
    <3>5. QED
      BY <1>1, <1>3, <2>1, <2>2, <2>5, <3>1, <3>3, <3>4 DEF ShapeOf
  <2>6. QED
    BY <1>1, <2>1, <2>3, <2>4, <2>5
<1>5. CASE q.dot # p.dot + 4
  <2>1. p.dot + 4 = LineDots /\ q.dot = 0 /\ q.line = NextLine(p.line)
    BY <1>1, <1>5
  <2>2. /\ ~q.lcdOnLine
        /\ q.line = Visible => q.mode = 1
        /\ q.line < Visible => q.mode = 2
        /\ q.line > Visible /\ p.line >= Visible => q.mode = p.mode
    BY <1>1, <2>1 DEF TickTaken
  <2>3. CASE p.line >= Visible
    <3>1. p.mode = 1 /\ q.visible = 1
      BY <1>3, <2>3 DEF ShapeOf
    <3>2. q.line = 0 \/ q.line > Visible
      BY <1>1, <2>1, <2>3, NextLineFacts
    <3>3. QED
      BY <1>1, <1>3, <2>1, <2>2, <2>3, <3>1, <3>2 DEF ShapeOf
  <2>4. CASE p.line < Visible
    <3>1. p.dot >= OamDots
      BY <1>1, <2>1
    <3>2. p.mode # 3
      <4> SUFFICES ASSUME p.mode = 3 PROVE FALSE
        OBVIOUS
      <4>1. p.drawLeft > 0 /\ p.dot + p.drawLeft + 4 <= LineDots
        BY <2>4 DEF ShapeOf
      <4>2. QED
        BY <1>1, <2>1, <4>1
    <3>3. p.dot > OamDots /\ p.mode = 0
      BY <1>1, <2>4, <3>1, <3>2 DEF ShapeOf
    <3>4. q.line = p.line + 1
      BY <1>1, <2>1, <2>4, NextLineFacts
    <3>5. QED
      BY <1>1, <1>3, <2>1, <2>2, <2>4, <3>3, <3>4 DEF ShapeOf
  <2>5. QED
    BY <1>1, <2>3, <2>4
<1>6. QED
  BY <1>4, <1>5

\* What LY reads from the second M-cycle of line n on.
LySettled(n) == IF n = Lines - 1 THEN 0 ELSE n

\* When each source, alone, requests an interrupt in an M-cycle of such a frame.
LEMMA SourceRises ==
  ASSUME NEW p \in PpuStates, NEW q \in PpuStates, NEW draw \in DrawLengths,
         TickTaken(p, q, draw), ShapeOf(p), p.dot = 0 \/ p.dot >= 4
  PROVE  LET rises == "Lcd" \in q.requests
         IN  /\ p.select = {} => ~rises
             /\ p.select = {"hblank"} => (rises <=> p.mode = 0 /\ p.visible # 0)
             /\ p.select = {"vblank"} => (rises <=> p.mode = 1 /\ p.visible # 1)
             /\ p.select = {"oam"} =>
                  (rises <=> \/ p.mode = 2 /\ p.visible # 2 /\ ~(p.line = Visible /\ p.dot = 0)
                             \/ p.mode # 2 /\ q.line = Visible /\ q.dot = 0)
             /\ p.select = {"lyc"} =>
                  (rises <=> /\ q.dot >= 4 /\ LySettled(q.line) = p.lyc
                             /\ ~(p.dot >= 4 /\ LySettled(p.line) = p.lyc))
<1> USE FrameAssumption
<1>1. PICK m \in PpuStates :
        /\ Inside(p, m)
        /\ "Lcd" \in q.requests <=>
             \/ StatConditions(m, p.select) /\ ~p.statLine
             \/ q.statLine /\ ~StatConditions(m, p.select)
  BY DEF TickTaken
<1>2. /\ q.visible = p.mode /\ q.lcdOn /\ q.lyc = p.lyc /\ q.select = p.select
      /\ q.lycSuppressed <=> q.dot < 4
      /\ q.statLine = StatConditions(q, p.select)
  BY DEF TickTaken
<1>3. /\ p.lcdOn /\ (p.lycSuppressed <=> p.dot < 4)
      /\ p.statLine = StatConditions(p, p.select)
  BY DEF ShapeOf
<1>4. /\ m.line = p.line /\ m.dot = p.dot + 1 /\ m.visible = p.mode /\ m.lcdOn /\ m.lyc = p.lyc
      /\ (m.lycSuppressed <=> m.dot < 4)
  BY <1>1 DEF Inside
<1>5. p.dot \in Nat /\ q.dot \in Nat /\ p.line \in Nat /\ q.line \in Nat
  BY DEF PpuStates
<1>6. /\ LycMatch(p) <=> p.dot >= 4 /\ LySettled(p.line) = p.lyc
      /\ LycMatch(m) <=> p.dot + 1 >= 4 /\ Ly(m) = p.lyc
      /\ LycMatch(q) <=> q.dot >= 4 /\ LySettled(q.line) = p.lyc
  BY <1>2, <1>3, <1>4, <1>5 DEF LycMatch, Ly, LySettled
<1>7. /\ OamSourceHigh(p) <=> p.visible = 2 \/ (p.line = Visible /\ p.dot = 0)
      /\ OamSourceHigh(m) <=> p.mode = 2
      /\ OamSourceHigh(q) <=> p.mode = 2 \/ (q.line = Visible /\ q.dot = 0)
  BY <1>2, <1>4, <1>5 DEF OamSourceHigh
<1>8. p.select = {} => ~("Lcd" \in q.requests)
  BY <1>1, <1>2, <1>3 DEF StatConditions
<1>9. p.select = {"hblank"} => ("Lcd" \in q.requests <=> p.mode = 0 /\ p.visible # 0)
  BY <1>1, <1>2, <1>3, <1>4 DEF StatConditions
<1>10. p.select = {"vblank"} => ("Lcd" \in q.requests <=> p.mode = 1 /\ p.visible # 1)
  BY <1>1, <1>2, <1>3, <1>4 DEF StatConditions
<1>11. p.select = {"oam"} =>
         ("Lcd" \in q.requests <=>
            \/ p.mode = 2 /\ p.visible # 2 /\ ~(p.line = Visible /\ p.dot = 0)
            \/ p.mode # 2 /\ q.line = Visible /\ q.dot = 0)
  BY <1>1, <1>2, <1>3, <1>4, <1>7 DEF StatConditions
<1>12. LycMatch(m) <=> LycMatch(p)
  BY <1>4, <1>5, <1>6 DEF Ly, LySettled
<1>13. p.select = {"lyc"} =>
         ("Lcd" \in q.requests <=>
            /\ q.dot >= 4 /\ LySettled(q.line) = p.lyc
            /\ ~(p.dot >= 4 /\ LySettled(p.line) = p.lyc))
  BY <1>1, <1>2, <1>3, <1>6, <1>12 DEF StatConditions
<1>14. QED
  BY <1>8, <1>9, <1>10, <1>11, <1>13

\* From VBlank to VBlank the counts follow the place in the frame.
LEMMA CountStep ==
  ASSUME NEW p \in PpuStates, NEW q \in PpuStates, NEW draw \in DrawLengths,
         TickTaken(p, q, draw), NEW k \in 0 .. LineCycles - 1, p.dot = 4 * k, ShapeOf(p),
         ~(q.line = Visible /\ q.dot = 0)
  PROVE  LET more == IF "Lcd" \in q.requests THEN 1 ELSE 0
         IN  /\ p.select = {} => more = 0
             /\ p.select = {"lyc"} => LycSoFar(q) = LycSoFar(p) + more
             /\ p.select = {"oam"} => OamSoFar(q) = OamSoFar(p) + more
             /\ p.select = {"vblank"} => VBlankSoFar(q) = VBlankSoFar(p) + more
             /\ p.select = {"hblank"} => HBlankSoFar(q) = HBlankSoFar(p) + more
<1> USE FrameAssumption
<1> DEFINE more == IF "Lcd" \in q.requests THEN 1 ELSE 0
<1>1. /\ p.line \in 0 .. Lines - 1 /\ q.line \in 0 .. Lines - 1 /\ p.lyc \in Nat
      /\ p.mode \in 0 .. 3 /\ p.dot \in Nat
      /\ LineDots \in Nat /\ OamDots \in Nat /\ OamDots >= 8 /\ OamDots + 4 <= LineDots
      /\ p.dot = 0 \/ p.dot >= 4
      /\ \/ p.dot + 4 < LineDots /\ q.dot = p.dot + 4 /\ q.line = p.line
         \/ p.dot + 4 = LineDots /\ q.dot = 0 /\ q.line = NextLine(p.line)
  BY TickCases
<1>2. q.visible = p.mode /\ q.lyc = p.lyc
  BY DEF TickTaken
<1>3. /\ p.line >= Visible =>
           p.mode = 1 /\ (p.visible = 1 <=> ~(p.line = Visible /\ p.dot = 0))
      /\ p.line < Visible =>
           /\ p.dot = 0 => p.mode = 2 /\ p.visible \in {0, 1}
           /\ p.dot > 0 /\ p.dot < OamDots => p.mode = 2 /\ p.visible = 2
           /\ p.dot = OamDots => p.mode = 3 /\ p.visible = 2
           /\ p.dot > OamDots =>
                p.mode \in {0, 3} /\ p.visible \in {0, 3} /\ (p.mode = 3 => p.visible = 3)
  BY DEF ShapeOf
<1>4. p.line < Visible /\ q.dot = 0 => p.mode = 0 /\ p.dot > OamDots
  BY ShapeStep
<1>5. q.dot = 0 =>
        \/ q.line = p.line + 1
        \/ q.line = 0 /\ p.line = Lines - 1
  BY <1>1, NextLineFacts
<1>6. /\ p.select = {} => ~("Lcd" \in q.requests)
      /\ p.select = {"hblank"} => ("Lcd" \in q.requests <=> p.mode = 0 /\ p.visible # 0)
      /\ p.select = {"vblank"} => ("Lcd" \in q.requests <=> p.mode = 1 /\ p.visible # 1)
      /\ p.select = {"oam"} =>
           ("Lcd" \in q.requests <=>
              p.mode = 2 /\ p.visible # 2 /\ ~(p.line = Visible /\ p.dot = 0))
      /\ p.select = {"lyc"} =>
           ("Lcd" \in q.requests <=> /\ q.dot >= 4 /\ LySettled(q.line) = p.lyc
                                    /\ ~(p.dot >= 4 /\ LySettled(p.line) = p.lyc))
  BY <1>1, SourceRises
<1>7. p.select = {} => more = 0
  BY <1>6
<1>8. p.select = {"hblank"} => HBlankSoFar(q) = HBlankSoFar(p) + more
  BY <1>1, <1>2, <1>3, <1>4, <1>5, <1>6 DEF HBlankSoFar
<1>9. p.select = {"vblank"} => VBlankSoFar(q) = VBlankSoFar(p) + more
  BY <1>1, <1>2, <1>3, <1>4, <1>5, <1>6 DEF VBlankSoFar
<1>10. p.select = {"oam"} => OamSoFar(q) = OamSoFar(p) + more
  BY <1>1, <1>2, <1>3, <1>4, <1>5, <1>6 DEF OamSoFar
<1>11. p.select = {"lyc"} => LycSoFar(q) = LycSoFar(p) + more
  <2> SUFFICES ASSUME p.select = {"lyc"} PROVE LycSoFar(q) = LycSoFar(p) + more
    OBVIOUS
  <2>1. CASE q.dot = 0
    <3>1. more = 0 /\ p.dot > 0
      BY <1>1, <1>6, <2>1
    <3>2. CASE q.line = p.line + 1
      <4>1. \A n \in Nat : Past(q, n) <=> Past(p, n)
        BY <1>1, <2>1, <3>1, <3>2 DEF Past
      <4>2. q.line >= Visible <=> p.line >= Visible
        BY <1>1, <2>1, <3>2
      <4>3. Lines - 1 \in Nat
        OBVIOUS
      <4>4. LycSoFar(q) = LycSoFar(p) /\ LycSoFar(p) \in Nat
        BY <1>1, <1>2, <4>1, <4>2, <4>3 DEF LycSoFar
      <4>5. QED
        BY <3>1, <4>4
    <3>3. CASE q.line = 0 /\ p.line = Lines - 1
      BY <1>1, <1>2, <2>1, <3>1, <3>3 DEF LycSoFar, Past
    <3>4. QED
      BY <1>5, <2>1, <3>2, <3>3
  <2>2. CASE q.dot # 0 /\ p.dot > 0
    <3>1. q.line = p.line /\ q.dot > 0 /\ q.dot >= 4 /\ p.dot >= 4
      BY <1>1, <2>2
    <3>2. more = 0
      BY <1>6, <3>1
    <3>3. LycSoFar(q) = LycSoFar(p) /\ LycSoFar(p) \in Nat
      BY <1>1, <1>2, <2>2, <3>1 DEF LycSoFar, Past
    <3>4. QED
      BY <3>2, <3>3
  <2>3. CASE q.dot # 0 /\ p.dot = 0
    <3>1. q.line = p.line /\ q.dot = 4
      BY <1>1, <2>3
    <3>2. more = IF LySettled(p.line) = p.lyc THEN 1 ELSE 0
      BY <1>1, <1>6, <2>3, <3>1
    <3>3. QED
      BY <1>1, <1>2, <2>3, <3>1, <3>2 DEF LycSoFar, Past, LySettled
  <2>4. QED
    BY <1>1, <2>1, <2>2, <2>3
<1>12. QED
  BY <1>7, <1>8, <1>9, <1>10, <1>11

\* The end of a frame's last drawn line begins the next frame, with nothing counted yet.
LEMMA FrameBegins ==
  ASSUME NEW p \in PpuStates, NEW q \in PpuStates, NEW draw \in DrawLengths,
         TickTaken(p, q, draw), q.line = Visible, q.dot = 0, ~q.lcdOnLine, p.mode # 1, q.mode = 1
  PROVE  /\ ShapeOf(q)
         /\ LycSoFar(q) = 0 /\ OamSoFar(q) = 0 /\ VBlankSoFar(q) = 0 /\ HBlankSoFar(q) = 0
<1> USE FrameAssumption
<1>1. /\ q.visible = p.mode /\ q.lcdOn /\ ~q.clockStopped
      /\ q.lycSuppressed <=> q.dot < 4
      /\ q.statLine = StatConditions(q, q.select)
  BY DEF TickTaken
<1>2. ShapeOf(q)
  BY <1>1 DEF ShapeOf
<1>3. q.lyc \in Nat
  BY DEF PpuStates
<1>4. ~(q.lyc >= Visible /\ q.lyc < Lines - 1 /\ Past(q, q.lyc)) /\ ~Past(q, Lines - 1)
  BY <1>3 DEF Past
<1>5. QED
  BY <1>2, <1>4 DEF LycSoFar, OamSoFar, VBlankSoFar, HBlankSoFar

\* A line ends in VBlank exactly where VBlank is requested.
LEMMA VBlankAtTop ==
  ASSUME NEW p \in PpuStates, NEW q \in PpuStates, NEW draw \in DrawLengths,
         TickTaken(p, q, draw), NEW k \in 0 .. LineCycles - 1, p.dot = 4 * k
  PROVE  "VBlank" \in q.requests <=> q.line = Visible /\ q.dot = 0
<1>1. /\ p.dot \in Nat /\ LineDots \in Nat
      /\ \/ p.dot + 4 < LineDots /\ q.dot = p.dot + 4 /\ q.line = p.line
         \/ p.dot + 4 = LineDots /\ q.dot = 0 /\ q.line = NextLine(p.line)
  BY TickCases
<1>2. QED
  BY <1>1 DEF TickTaken

LEMMA RunningKeepsFrame ==
  ASSUME PpuInv, FrameInv, NEW draw \in DrawLengths, Tick(draw), ~ppu.clockStopped, ppu.lcdOn
  PROVE  FrameInv'
<1>1. PICK k \in 0 .. LineCycles - 1 : ppu.dot = 4 * k
  BY DEF PpuInv, PpuTypeOK
<1>2. /\ ppu \in PpuStates /\ ppu' \in PpuStates /\ TickTaken(ppu, ppu', draw)
      /\ raised \in Nat
  BY RunningTick DEF PpuInv, PpuTypeOK
<1>3. "VBlank" \in ppu'.requests <=> ppu'.line = Visible /\ ppu'.dot = 0
  BY <1>1, <1>2, VBlankAtTop
<1>4. ppu'.select = ppu.select
  BY <1>2 DEF TickTaken
<1>5. CASE "VBlank" \in ppu'.requests
  <2>1. requested' = ppu'.requests /\ raised' = 0
    BY <1>5, RunningTick
  <2>2. ppu.line = Visible - 1 /\ ppu.dot + 4 = LineDots
    BY <1>5, <2>1, VBlankIsLineEnd DEF Next
  <2>3. ppu'.mode = 1 /\ ~ppu'.lcdOnLine
    <3>1. ppu.dot + 4 >= LineDots
      BY <2>2, LineDotsFacts
    <3>2. QED
      BY <1>2, <1>3, <1>5, <3>1 DEF TickTaken
  <2>4. ppu.mode # 1
    BY <2>2, FrameAssumption DEF PpuInv, ModesInPlace
  <2>5. /\ ShapeOf(ppu') /\ LycSoFar(ppu') = 0 /\ OamSoFar(ppu') = 0
        /\ VBlankSoFar(ppu') = 0 /\ HBlankSoFar(ppu') = 0
    BY <1>2, <1>3, <1>5, <2>3, <2>4, FrameBegins
  <2>6. QED
    BY <2>1, <2>5 DEF FrameInv, RaisedIsCount
<1>6. CASE "VBlank" \notin ppu'.requests
  <2> SUFFICES ASSUME Undisturbed'
               PROVE  /\ ShapeOf(ppu')
                      /\ ppu'.select = {} => raised' = 0
                      /\ ppu'.select = {"lyc"} => raised' = LycSoFar(ppu')
                      /\ ppu'.select = {"oam"} => raised' = OamSoFar(ppu')
                      /\ ppu'.select = {"vblank"} => raised' = VBlankSoFar(ppu')
                      /\ ppu'.select = {"hblank"} => raised' = HBlankSoFar(ppu')
    BY DEF FrameInv, RaisedIsCount
  <2>1. /\ from' = from /\ writes' = writes
        /\ raised' = IF "Lcd" \in ppu'.requests THEN raised + 1 ELSE raised
    BY <1>6, RunningTick
  <2>2. Undisturbed
    BY <2>1 DEF Undisturbed
  <2>3. ShapeOf(ppu) /\ RaisedIsCount
    BY <2>2 DEF FrameInv
  <2>4. ShapeOf(ppu')
    BY <1>1, <1>2, <2>3, ShapeStep
  <2> DEFINE more == IF "Lcd" \in ppu'.requests THEN 1 ELSE 0
  <2>5. /\ ppu.select = {} => more = 0
        /\ ppu.select = {"lyc"} => LycSoFar(ppu') = LycSoFar(ppu) + more
        /\ ppu.select = {"oam"} => OamSoFar(ppu') = OamSoFar(ppu) + more
        /\ ppu.select = {"vblank"} => VBlankSoFar(ppu') = VBlankSoFar(ppu) + more
        /\ ppu.select = {"hblank"} => HBlankSoFar(ppu') = HBlankSoFar(ppu) + more
    BY <1>1, <1>2, <1>3, <1>6, <2>3, CountStep
  <2>6. raised' = raised + more
    BY <1>2, <2>1
  <2> HIDE DEF more
  <2>7. QED
    BY <1>2, <1>4, <2>2, <2>3, <2>4, <2>5, <2>6 DEF RaisedIsCount
<1>7. QED
  BY <1>5, <1>6

LEMMA FrameStep == PpuInv /\ FrameInv /\ [Next]_vars => FrameInv'
<1> SUFFICES ASSUME PpuInv, FrameInv, [Next]_vars PROVE FrameInv'
  OBVIOUS
<1>1. writes \in Nat
  BY DEF PpuInv, PpuTypeOK
<1>2. ASSUME NEW draw \in DrawLengths, Tick(draw) PROVE FrameInv'
  <2>1. CASE ~ppu.clockStopped /\ ppu.lcdOn
    BY <1>2, <2>1, RunningKeepsFrame
  <2>2. CASE ppu.clockStopped \/ ~ppu.lcdOn
    <3>1. from' = from /\ writes' = writes
      BY <1>2, <2>2, IdleTick
    <3>2. ~Undisturbed
      BY <2>2 DEF FrameInv, ShapeOf
    <3>3. ~Undisturbed'
      BY <3>1, <3>2 DEF Undisturbed
    <3>4. QED
      BY <3>3 DEF FrameInv, RaisedIsCount
  <2>3. QED
    BY <2>1, <2>2
<1>3. ASSUME writes' = writes + 1 PROVE FrameInv'
  <2>1. ~Undisturbed'
    BY <1>1, <1>3 DEF Undisturbed
  <2>2. QED
    BY <2>1 DEF FrameInv, RaisedIsCount
<1>4. CASE LcdOff
  BY <1>3, <1>4 DEF LcdOff, Write
<1>5. CASE LcdOn
  BY <1>3, <1>5 DEF LcdOn, Write
<1>6. ASSUME NEW sel \in Selections, WriteStat(sel) PROVE FrameInv'
  BY <1>3, <1>6 DEF WriteStat, Write
<1>7. ASSUME NEW y \in YValues, WriteLyc(y) \/ WriteWy(y) PROVE FrameInv'
  BY <1>3, <1>7 DEF WriteLyc, WriteWy, Write
<1>8. ASSUME NEW stopped \in BOOLEAN, SetClockStopped(stopped) PROVE FrameInv'
  BY <1>3, <1>8 DEF SetClockStopped
<1>9. CASE UNCHANGED vars
  <2>1. ppu' = ppu /\ raised' = raised /\ writes' = writes /\ from' = from
    BY <1>9 DEF vars
  <2>2. Undisturbed' <=> Undisturbed
    BY <2>1 DEF Undisturbed
  <2>3. QED
    BY <2>1, <2>2 DEF FrameInv, RaisedIsCount
<1>10. QED
  BY <1>2, <1>4, <1>5, <1>6, <1>7, <1>8, <1>9 DEF Next

LEMMA FrameInit == Init => FrameInv
BY DEF Init, FrameInv, RaisedIsCount, Undisturbed

\* A selection of at most one source is one of five.
LEMMA SingleSource ==
  ASSUME NEW sel \in SUBSET Sources, Cardinality(sel) <= 1
  PROVE  sel \in {{}, {"lyc"}, {"oam"}, {"vblank"}, {"hblank"}}
<1>1. ASSUME NEW x \in sel, NEW y \in sel, x # y PROVE FALSE
  <2>1. IsFiniteSet(Sources)
    <3>1. IsFiniteSet({"lyc"})
      BY FS_Singleton
    <3>2. IsFiniteSet({"lyc"} \cup {"oam"})
      BY <3>1, FS_AddElement
    <3>3. IsFiniteSet(({"lyc"} \cup {"oam"}) \cup {"vblank"})
      BY <3>2, FS_AddElement
    <3>4. IsFiniteSet((({"lyc"} \cup {"oam"}) \cup {"vblank"}) \cup {"hblank"})
      BY <3>3, FS_AddElement
    <3>5. Sources = (({"lyc"} \cup {"oam"}) \cup {"vblank"}) \cup {"hblank"}
      BY DEF Sources
    <3>6. QED
      BY <3>4, <3>5
  <2>2. IsFiniteSet(sel)
    BY <2>1, FS_Subset
  <2>3. IsFiniteSet({x}) /\ Cardinality({x}) = 1
    BY FS_Singleton
  <2>4. Cardinality({x} \cup {y}) = 2
    <3>1. y \notin {x}
      BY <1>1
    <3> DEFINE X == {x}
    <3> HIDE DEF X
    <3>2. Cardinality(X \cup {y}) = IF y \in X THEN Cardinality(X) ELSE Cardinality(X) + 1
      BY <2>3, FS_AddElement DEF X
    <3>3. QED
      BY <2>3, <3>1, <3>2 DEF X
  <2>5. {x} \cup {y} \subseteq sel
    OBVIOUS
  <2>6. Cardinality({x} \cup {y}) <= Cardinality(sel)
    BY <2>2, <2>5, FS_Subset
  <2>7. Cardinality(sel) \in Nat
    BY <2>2, FS_CardinalityType
  <2>8. QED
    BY <2>4, <2>6, <2>7
<1>2. CASE sel = {}
  BY <1>2
<1>3. ASSUME NEW x \in sel PROVE sel = {x} /\ x \in Sources
  BY <1>1
<1>4. QED
  BY <1>2, <1>3 DEF Sources

\* For every number and length of lines and every length of drawing, one source alone requests
\* its number of interrupts in a frame without writes: HBlank once per line drawn, OAM once
\* more, LYC on its line, twice on line 0 (Ppu.cpp:155-203).
THEOREM SourcesRequestTheirCountAlways == Spec => SourcesRequestTheirCount
<1> USE FrameAssumption
<1>1. ASSUME PpuInv, FrameInv, Next,
             Undisturbed, "VBlank" \in requested', Cardinality(ppu.select) <= 1
      PROVE  raised + (IF "Lcd" \in requested' THEN 1 ELSE 0)
               = RequestsPerFrame(ppu.select, ppu.lyc)
  <2>2. PICK draw \in DrawLengths :
          /\ Tick(draw) /\ ~ppu.clockStopped /\ ppu.lcdOn
          /\ ppu.line = Visible - 1 /\ ppu.dot + 4 = LineDots
    BY <1>1, VBlankIsLineEnd
  <2>3. PICK k \in 0 .. LineCycles - 1 : ppu.dot = 4 * k
    BY <1>1 DEF PpuInv, PpuTypeOK
  <2>4. /\ ppu \in PpuStates /\ ppu' \in PpuStates /\ TickTaken(ppu, ppu', draw)
        /\ requested' = ppu'.requests /\ raised \in Nat
    BY <1>1, <2>2, RunningTick DEF PpuInv, PpuTypeOK
  <2>5. ShapeOf(ppu) /\ RaisedIsCount
    BY <1>1 DEF FrameInv
  <2>6. ppu'.line = Visible /\ ppu'.dot = 0
    BY <1>1, <2>3, <2>4, VBlankAtTop
  <2>7. ppu.mode = 0 /\ ppu.dot > OamDots
    BY <2>2, <2>3, <2>4, <2>5, <2>6, ShapeStep
  <2>8. ppu.dot \in Nat /\ ppu.dot >= 4 /\ ppu.line \in Nat /\ ppu.lyc \in Nat
    BY <2>4, <2>7, LineDotsFacts DEF PpuStates
  <2> DEFINE more == IF "Lcd" \in requested' THEN 1 ELSE 0
  <2>9. /\ ppu.select = {} => more = 0
        /\ ppu.select = {"hblank"} => more = IF ppu.visible # 0 THEN 1 ELSE 0
        /\ ppu.select = {"vblank"} => more = 0
        /\ ppu.select = {"oam"} => more = 1
        /\ ppu.select = {"lyc"} => more = 0
    BY <2>4, <2>5, <2>6, <2>7, <2>8, SourceRises
  <2> HIDE DEF more
  <2>10. ppu.select \in {{}, {"lyc"}, {"oam"}, {"vblank"}, {"hblank"}}
    BY <1>1, <2>4, InputAssumption, SingleSource DEF PpuStates
  <2>11. CASE ppu.select = {}
    <3>1. raised = 0 /\ more = 0
      BY <1>1, <2>5, <2>9, <2>11 DEF RaisedIsCount
    <3>2. RequestsPerFrame(ppu.select, ppu.lyc) = 0
      BY <2>11 DEF RequestsPerFrame
    <3>3. QED
      BY <3>1, <3>2 DEF more
  <2>12. CASE ppu.select = {"lyc"}
    <3>1. raised = LycSoFar(ppu) /\ more = 0
      BY <1>1, <2>5, <2>9, <2>12 DEF RaisedIsCount
    <3>2. RequestsPerFrame(ppu.select, ppu.lyc)
            = IF ppu.lyc = 0 THEN 2 ELSE IF ppu.lyc < Lines - 1 THEN 1 ELSE 0
      BY <2>12 DEF RequestsPerFrame
    <3>3. LycSoFar(ppu) = IF ppu.lyc = 0 THEN 2 ELSE IF ppu.lyc < Lines - 1 THEN 1 ELSE 0
      BY <2>2, <2>8 DEF LycSoFar, Past
    <3>4. raised + more = raised
      BY <2>4, <3>1
    <3>5. QED
      BY <3>1, <3>2, <3>3, <3>4 DEF more
  <2>13. CASE ppu.select = {"oam"}
    <3>1. raised = OamSoFar(ppu) /\ more = 1
      BY <1>1, <2>5, <2>9, <2>13 DEF RaisedIsCount
    <3>2. RequestsPerFrame(ppu.select, ppu.lyc) = Visible + 1
      BY <2>13 DEF RequestsPerFrame
    <3>3. OamSoFar(ppu) = Visible
      BY <2>2, <2>8 DEF OamSoFar
    <3>4. QED
      BY <3>1, <3>2, <3>3 DEF more
  <2>14. CASE ppu.select = {"vblank"}
    <3>1. raised = VBlankSoFar(ppu) /\ more = 0
      BY <1>1, <2>5, <2>9, <2>14 DEF RaisedIsCount
    <3>2. RequestsPerFrame(ppu.select, ppu.lyc) = 1
      BY <2>14 DEF RequestsPerFrame
    <3>3. VBlankSoFar(ppu) = 1
      BY <2>2, <2>8 DEF VBlankSoFar
    <3>4. QED
      BY <3>1, <3>2, <3>3 DEF more
  <2>15. CASE ppu.select = {"hblank"}
    <3>1. raised = HBlankSoFar(ppu) /\ more = IF ppu.visible # 0 THEN 1 ELSE 0
      BY <1>1, <2>5, <2>9, <2>15 DEF RaisedIsCount
    <3>2. RequestsPerFrame(ppu.select, ppu.lyc) = Visible
      BY <2>15 DEF RequestsPerFrame
    <3>3. HBlankSoFar(ppu) = Visible - 1 + (IF ppu.visible = 0 THEN 1 ELSE 0)
      BY <2>2, <2>8 DEF HBlankSoFar
    <3>4. raised + more = Visible
      BY <3>1, <3>3
    <3>5. QED
      BY <3>2, <3>4 DEF more
  <2>16. QED
    BY <2>10, <2>11, <2>12, <2>13, <2>14, <2>15
<1>2. PpuInv /\ FrameInv /\ [Next]_vars =>
        [Undisturbed /\ "VBlank" \in requested' /\ Cardinality(ppu.select) <= 1 =>
           raised + (IF "Lcd" \in requested' THEN 1 ELSE 0)
             = RequestsPerFrame(ppu.select, ppu.lyc)]_vars
  BY <1>1
<1>3. QED
  BY <1>2, FrameInit, FrameStep, PpuSpecInv, PTL DEF Spec, SourcesRequestTheirCount
=============================================================================
