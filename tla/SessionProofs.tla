---------------------------- MODULE SessionProofs --------------------------
(***************************************************************************)
(* Theorems about Session for every set of ROMs, save paths and files: a   *)
(* save that could not be read is kept, by any number of instances, and a  *)
(* single instance implements SaveStore and saves before its machine goes. *)
(***************************************************************************)
EXTENDS Session, TLAPS

\* No other copy of the program runs.
Alone == \E i : Instances = {i}

\* What the session knows of its cartridge and of the file it found.  Until loadSave has
\* answered, status is still that of the ROM before.
AnswerInv ==
  \A i \in Instances :
    /\ step[i] = "read" => rom[i] \in Battery
    /\ step[i] \notin {"probe", "read"} /\ status[i] # "NoBattery" => rom[i] \in Battery
    /\ step[i] \in WriteSteps => MayWriteSave(status[i])
    /\ step[i] \notin {"probe", "read"} /\ status[i] = "NoFile" /\ ~ProbeMayFail
         => found[i] = Absent

IInv == TypeOK /\ AnswerInv

\* How far the scratch file has come, for an instance that shares it with nobody, and
\* that what it takes the place of is on the disk.
ScratchInv ==
  /\ \A p \in Paths : disk[p].durable
  /\ \A i \in Instances :
       /\ step[i] = "write" => temp[PathOf(i)].value = ram[i]
       /\ step[i] = "flush" => /\ temp[PathOf(i)].value = ram[i]
                               /\ temp[PathOf(i)].size = ImageSize(rom[i])
       /\ step[i] = "rename" => temp[PathOf(i)] = Image(rom[i], ram[i])

SoloInv == IInv /\ ScratchInv /\ RamIsSavedBeforeItGoes

-----------------------------------------------------------------------------
LEMMA AbsentIsAFile == Absent \in File
BY SessionAssumption DEF Absent, File

LEMMA PathType == ASSUME NEW r \in Roms PROVE SavePath[r] \in Paths
BY DEF Paths

LEMMA ImageType ==
  ASSUME NEW r \in Battery, NEW v \in Values
  PROVE  ImageSize(r) \in Nat /\ Image(r, v) \in File /\ Image(r, v).durable
BY SessionAssumption DEF ImageSize, Image, File

LEMMA InitIInv == Init => IInv
<1> SUFFICES ASSUME Init PROVE IInv
  OBVIOUS
<1>1. TypeOK
  BY AbsentIsAFile, SessionAssumption, StrangersAssumption
  DEF Init, TypeOK, Steps, Statuses, WriteSteps
<1>2. AnswerInv
  BY DEF Init, AnswerInv, WriteSteps
<1>3. QED
  BY <1>1, <1>2 DEF IInv

-----------------------------------------------------------------------------
(* Steps of one instance.                                                  *)

LEMMA PlayIInv ==
  ASSUME IInv, NEW i \in Instances, Start(i) \/ GameWrites(i) \/ Reset(i) \/ Stay(i)
  PROVE  IInv'
<1>1. TypeOK'
  BY SessionAssumption
  DEF IInv, TypeOK, Start, GameWrites, Reset, Stay, At, Goto, files, session, Steps, WriteSteps
<1>2. AnswerInv'
  BY DEF IInv, TypeOK, AnswerInv, Start, GameWrites, Reset, Stay, At, Goto, session, WriteSteps
<1>3. QED
  BY <1>1, <1>2 DEF IInv

LEMMA SaveSessionIInv ==
  ASSUME IInv, NEW i \in Instances, NEW then \in Roms \cup {BadRom, "exit", "stay"},
         SaveSession(i, then)
  PROVE  IInv'
<1>1. TypeOK'
  BY DEF IInv, TypeOK, AnswerInv, MayWriteSave, SaveSession, At, Goto, files, session, Steps,
         WriteSteps
<1>2. AnswerInv'
  BY DEF IInv, TypeOK, AnswerInv, SaveSession, At, Goto, session, WriteSteps
<1>3. QED
  BY <1>1, <1>2 DEF IInv

\* A step of a save or of its end that leaves what the session knows alone.
LEMMA ProgressIInv ==
  ASSUME IInv, NEW i \in Instances, NEW s \in Steps, Goto(i, s), UNCHANGED session,
         step[i] \notin {"probe", "read"}, s \notin {"probe", "read"},
         s \in WriteSteps => step[i] \in WriteSteps,
         disk' \in [Paths -> File], temp' \in [Paths -> File],
         opened' \in [Paths -> SUBSET Instances],
         next' = next, result' \in [Instances -> {"none", "Written", "Failed"}]
  PROVE  IInv'
<1>1. TypeOK'
  BY DEF IInv, TypeOK, Goto, session
<1>2. AnswerInv'
  BY DEF IInv, TypeOK, AnswerInv, Goto, session
<1>3. QED
  BY <1>1, <1>2 DEF IInv

LEMMA WriteIInv ==
  ASSUME IInv, NEW i \in Instances,
         CreateTemp(i) \/ WriteChunk(i) \/ WriteEnds(i) \/ FlushTemp(i) \/ CommitTemp(i)
           \/ WriteFails(i) \/ RemoveTemp(i)
  PROVE  IInv'
<1>1. /\ step[i] \in WriteSteps /\ rom[i] \in Battery /\ rom[i] \in Roms /\ PathOf(i) \in Paths
      /\ ram[i] \in Values /\ ImageSize(rom[i]) \in Nat
      /\ TypeOK /\ temp \in [Paths -> File] /\ disk \in [Paths -> File]
  BY SessionAssumption, PathType, ImageType
  DEF IInv, TypeOK, CreateTemp, WriteChunk, WriteEnds, FlushTemp, CommitTemp, WriteFails,
      RemoveTemp, At, WriteSteps, PathOf
<1>2. CASE CreateTemp(i)
  <2>1. [size |-> 0, value |-> ram[i], durable |-> FALSE] \in File
    BY <1>1 DEF File
  <2>2. temp' \in [Paths -> File] /\ opened' \in [Paths -> SUBSET Instances]
    BY <1>1, <1>2, <2>1 DEF CreateTemp, TypeOK
  <2>3. QED
    BY <1>1, <1>2, <2>2, ProgressIInv DEF CreateTemp, TypeOK, Steps, WriteSteps
<1>3. CASE WriteChunk(i)
  <2>1. PICK n \in Written(i) + 1 .. ImageSize(rom[i]) :
          temp' = [temp EXCEPT ![PathOf(i)] = [@ EXCEPT !.size = n, !.durable = FALSE]]
    BY <1>3 DEF WriteChunk
  <2>2. Written(i) \in Int /\ n \in Int
    BY <1>1 DEF Written, File
  <2>3. temp' \in [Paths -> File]
    BY <1>1, <2>1, <2>2 DEF File
  <2>4. step' = [step EXCEPT ![i] = step[i]]
    BY <1>1, <1>3 DEF WriteChunk, TypeOK
  <2>5. QED
    BY <1>1, <1>3, <2>3, <2>4, ProgressIInv DEF WriteChunk, TypeOK, Goto, Steps, WriteSteps
<1>4. CASE WriteEnds(i)
  BY <1>1, <1>4, ProgressIInv DEF WriteEnds, TypeOK, files, Steps, WriteSteps
<1>5. CASE FlushTemp(i)
  <2>1. temp' \in [Paths -> File] /\ opened' \in [Paths -> SUBSET Instances]
    BY <1>1, <1>5 DEF FlushTemp, TypeOK, File
  <2>2. QED
    BY <1>1, <1>5, <2>1, ProgressIInv DEF FlushTemp, TypeOK, Steps, WriteSteps
<1>6. CASE CommitTemp(i)
  <2>1. temp' \in [Paths -> File] /\ disk' \in [Paths -> File]
    BY <1>1, <1>6, AbsentIsAFile DEF CommitTemp
  <2>2. QED
    BY <1>1, <1>6, <2>1, ProgressIInv DEF CommitTemp, TypeOK, Steps, WriteSteps
<1>7. CASE WriteFails(i)
  <2>1. opened' \in [Paths -> SUBSET Instances]
    BY <1>1, <1>7 DEF WriteFails, TypeOK
  <2>2. QED
    BY <1>1, <1>7, <2>1, ProgressIInv DEF WriteFails, TypeOK, Steps, WriteSteps
<1>8. CASE RemoveTemp(i)
  <2>1. temp' \in [Paths -> File]
    BY <1>1, <1>8, AbsentIsAFile DEF RemoveTemp
  <2>2. QED
    BY <1>1, <1>8, <2>1, ProgressIInv DEF RemoveTemp, TypeOK, Steps, WriteSteps
<1>9. QED
  BY <1>2, <1>3, <1>4, <1>5, <1>6, <1>7, <1>8

LEMMA ClearedIInv ==
  ASSUME IInv, NEW i \in Instances, NEW s \in {"off", "idle"}, Goto(i, s), Cleared(i),
         disk' = disk, temp' = temp, opened' \in [Paths -> SUBSET Instances],
         next' = next, result' = result
  PROVE  IInv'
<1>1. TypeOK'
  BY AbsentIsAFile, SessionAssumption
  DEF IInv, TypeOK, Goto, Cleared, Steps, WriteSteps, Statuses
<1>2. AnswerInv'
  BY DEF IInv, TypeOK, AnswerInv, Goto, Cleared, WriteSteps
<1>3. QED
  BY <1>1, <1>2 DEF IInv

LEMMA EndsIInv ==
  ASSUME IInv, NEW i \in Instances, Exit(i) \/ LoadFails(i) \/ Kill(i)
  PROVE  IInv'
<1>1. opened' \in [Paths -> SUBSET Instances]
  BY DEF IInv, TypeOK, Exit, LoadFails, Kill, files
<1>2. QED
  BY <1>1, ClearedIInv DEF Exit, LoadFails, Kill, files

LEMMA LoadIInv ==
  ASSUME IInv, NEW i \in Instances,
         LoadRom(i) \/ ProbeNoBattery(i) \/ ProbeNoFile(i) \/ ProbeRefused(i)
           \/ ProbeMeasured(i) \/ ReadSave(i) \/ ReadFails(i)
  PROVE  IInv'
<1>1. TypeOK /\ AnswerInv
  BY DEF IInv
<1>2. step[i] \in {"probe", "read"} /\ rom[i] \in Battery => PathOf(i) \in Paths
  BY SessionAssumption, PathType DEF PathOf
<1>3. CASE LoadRom(i)
  <2>1. TypeOK'
    BY <1>1, <1>3, SessionAssumption DEF TypeOK, LoadRom, At, Goto, files, Steps, WriteSteps
  <2>2. AnswerInv'
    BY <1>1, <1>3 DEF TypeOK, AnswerInv, LoadRom, At, Goto, WriteSteps
  <2>3. QED
    BY <2>1, <2>2 DEF IInv
<1>4. CASE ProbeNoBattery(i)
  <2>1. TypeOK'
    BY <1>1, <1>4, AbsentIsAFile
    DEF TypeOK, ProbeNoBattery, Look, Restored, At, Goto, files, Steps, WriteSteps, Statuses
  <2>2. AnswerInv'
    BY <1>1, <1>4 DEF TypeOK, AnswerInv, ProbeNoBattery, Look, Restored, Goto, WriteSteps
  <2>3. QED
    BY <2>1, <2>2 DEF IInv
<1>5. CASE ProbeNoFile(i)
  <2>1. TypeOK'
    BY <1>1, <1>2, <1>5
    DEF TypeOK, ProbeNoFile, Look, Restored, At, Goto, files, Steps, WriteSteps, Statuses
  <2>2. AnswerInv'
    BY <1>1, <1>5 DEF TypeOK, AnswerInv, ProbeNoFile, Look, Restored, Goto, WriteSteps
  <2>3. QED
    BY <2>1, <2>2 DEF IInv
<1>6. CASE ProbeRefused(i)
  <2>1. TypeOK'
    BY <1>1, <1>2, <1>6
    DEF TypeOK, ProbeRefused, Look, Restored, At, Goto, files, Steps, WriteSteps, Statuses
  <2>2. AnswerInv'
    BY <1>1, <1>6 DEF TypeOK, AnswerInv, ProbeRefused, Look, Restored, Goto, WriteSteps
  <2>3. QED
    BY <2>1, <2>2 DEF IInv
<1>7. CASE ProbeMeasured(i)
  <2>1. disk[PathOf(i)] \in File /\ disk[PathOf(i)].size \in Nat
    BY <1>1, <1>2, <1>7, SessionAssumption
    DEF ProbeMeasured, Look, At, Accepts, ImageSize, TypeOK
  <2>2. TypeOK'
    BY <1>1, <1>7, <2>1
    DEF TypeOK, ProbeMeasured, Look, At, Goto, files, Steps, WriteSteps
  <2>3. AnswerInv'
    BY <1>1, <1>7 DEF TypeOK, AnswerInv, ProbeMeasured, Look, Goto, WriteSteps
  <2>4. QED
    BY <2>2, <2>3 DEF IInv
<1>8. CASE ReadSave(i)
  <2>1. disk[PathOf(i)].value \in Values
    BY <1>1, <1>2, <1>8 DEF ReadSave, At, AnswerInv, TypeOK, File
  <2>2. TypeOK'
    BY <1>1, <1>8, <2>1
    DEF TypeOK, ReadSave, Restored, At, Goto, files, Steps, WriteSteps, Statuses
  <2>3. AnswerInv'
    BY <1>1, <1>8 DEF TypeOK, AnswerInv, ReadSave, Restored, At, Goto, WriteSteps
  <2>4. QED
    BY <2>2, <2>3 DEF IInv
<1>9. CASE ReadFails(i)
  <2>1. TypeOK'
    BY <1>1, <1>9 DEF TypeOK, ReadFails, Restored, At, Goto, files, Steps, WriteSteps, Statuses
  <2>2. AnswerInv'
    BY <1>1, <1>9 DEF TypeOK, AnswerInv, ReadFails, Restored, At, Goto, WriteSteps
  <2>3. QED
    BY <2>1, <2>2 DEF IInv
<1>10. QED
  BY <1>3, <1>4, <1>5, <1>6, <1>7, <1>8, <1>9

-----------------------------------------------------------------------------
(* A power cut.                                                            *)

LEMMA TornType == ASSUME NEW f \in File, NEW g \in Torn(f) PROVE g \in File
<1>1. CASE f.durable
  BY <1>1 DEF Torn
<1>2. CASE ~f.durable
  <2>1. CASE g = Absent
    BY <2>1, AbsentIsAFile
  <2>2. ASSUME NEW n \in 0..f.size, g = [f EXCEPT !.size = n, !.durable = TRUE] PROVE g \in File
    <3>1. n \in Int
      OBVIOUS
    <3>2. QED
      BY <2>2, <3>1 DEF File
  <2>3. QED
    BY <1>2, <2>1, <2>2 DEF Torn
<1>3. QED
  BY <1>1, <1>2

LEMMA PowerCutIInv == ASSUME IInv, PowerCut PROVE IInv'
<1>1. /\ disk' \in [Paths -> UNION {Torn(disk[p]) : p \in Paths}]
      /\ \A p \in Paths : disk'[p] \in Torn(disk[p])
      /\ temp' \in [Paths -> UNION {Torn(temp[p]) : p \in Paths}]
      /\ \A p \in Paths : temp'[p] \in Torn(temp[p])
  BY DEF PowerCut
<1>2. \A p \in Paths : disk'[p] \in File /\ temp'[p] \in File
  BY <1>1, TornType DEF IInv, TypeOK
<1>3. disk' \in [Paths -> File] /\ temp' \in [Paths -> File]
  BY <1>1, <1>2
<1>4. TypeOK'
  BY <1>3, AbsentIsAFile, SessionAssumption
  DEF IInv, TypeOK, PowerCut, Steps, WriteSteps, Statuses
<1>5. AnswerInv'
  BY DEF AnswerInv, PowerCut, WriteSteps
<1>6. QED
  BY <1>4, <1>5 DEF IInv

-----------------------------------------------------------------------------
LEMMA NextIInv == IInv /\ [Next]_vars => IInv'
<1> SUFFICES ASSUME IInv, [Next]_vars PROVE IInv'
  OBVIOUS
<1>1. CASE UNCHANGED vars
  BY <1>1 DEF vars, files, session, IInv, TypeOK, AnswerInv
<1>2. CASE PowerCut
  BY <1>2, PowerCutIInv
<1>3. ASSUME NEW i \in Instances,
             Start(i) \/ GameWrites(i) \/ Reset(i) \/ Saving(i) \/ Stay(i) \/ Exit(i)
               \/ Loading(i) \/ Kill(i)
      PROVE  IInv'
  BY <1>3, PlayIInv, SaveSessionIInv, WriteIInv, EndsIInv, LoadIInv DEF Saving, Loading
<1>4. QED
  BY <1>1, <1>2, <1>3 DEF Next

LEMMA SpecIInv == Spec => []IInv
BY InitIInv, NextIInv, PTL DEF Spec

\* A session's state has its type, and only a cartridge with a battery is ever written.
THEOREM TypeCorrect == Spec => []TypeOK
<1>1. IInv => TypeOK
  BY DEF IInv
<1>2. QED
  BY <1>1, SpecIInv, PTL

\* A save that was there and was not loaded is not written over, by any instance, unless
\* exists() reports an error (Save.cpp:161-163, 179-202; main.cpp:93, 138-155).
THEOREM UnreadSaveIsKeptAlways == ~ProbeMayFail => (Spec => UnreadSaveIsKept)
<1> SUFFICES ASSUME ~ProbeMayFail PROVE Spec => UnreadSaveIsKept
  OBVIOUS
<1> DEFINE Kept == \A i \in Instances :
      found[i] # Absent /\ status[i] # "Loaded" /\ At(i, "rename") /\ step'[i] # "rename"
        => disk' = disk
<1>1. IInv => Kept
  BY DEF IInv, AnswerInv, At, WriteSteps, MayWriteSave
<1>2. IInv /\ [Next]_vars => [Kept]_vars
  BY <1>1
<1>3. QED
  BY <1>2, SpecIInv, PTL DEF Spec, UnreadSaveIsKept

-----------------------------------------------------------------------------
(* One instance alone.                                                     *)

LEMMA InitSoloInv == Init => SoloInv
<1> SUFFICES ASSUME Init PROVE SoloInv
  OBVIOUS
<1>1. IInv
  BY InitIInv
<1>2. \A p \in Paths : disk[p].durable
  BY StrangersAssumption DEF Init, Absent
<1>3. ScratchInv /\ RamIsSavedBeforeItGoes
  BY <1>2 DEF Init, ScratchInv, RamIsSavedBeforeItGoes, At
<1>4. QED
  BY <1>1, <1>3 DEF SoloInv

\* A step that leaves the disk alone keeps the promise, if it is not the end of a save.
LEMMA QuietSolo ==
  ASSUME SoloInv, IInv', NEW i \in Instances, Instances = {i}, disk' = disk,
         step'[i] \in {"off", "idle", "probe", "read", "create", "remove"}
  PROVE  SoloInv'
BY DEF SoloInv, ScratchInv, RamIsSavedBeforeItGoes, At

LEMMA SaveSessionSolo ==
  ASSUME SoloInv, IInv', NEW i \in Instances, Instances = {i},
         NEW then \in Roms \cup {BadRom, "exit", "stay"}, SaveSession(i, then)
  PROVE  SoloInv'
<1>1. /\ step' = [step EXCEPT ![i] = IF rom[i] # NoRom /\ MayWriteSave(status[i])
                                      THEN "create" ELSE "done"]
      /\ disk' = disk /\ rom' = rom /\ status' = status
  BY DEF SaveSession, Goto, files, session
<1>2. step'[i] = IF rom[i] # NoRom /\ MayWriteSave(status[i]) THEN "create" ELSE "done"
  BY <1>1 DEF SoloInv, IInv, TypeOK
<1>3. ScratchInv'
  BY <1>1, <1>2 DEF SoloInv, ScratchInv
<1>4. RamIsSavedBeforeItGoes'
  BY <1>1, <1>2 DEF RamIsSavedBeforeItGoes, At
<1>5. QED
  BY <1>3, <1>4 DEF SoloInv

LEMMA WriteSolo ==
  ASSUME SoloInv, IInv', NEW i \in Instances, Instances = {i},
         CreateTemp(i) \/ WriteChunk(i) \/ WriteEnds(i) \/ FlushTemp(i) \/ CommitTemp(i)
           \/ WriteFails(i) \/ RemoveTemp(i)
  PROVE  SoloInv'
<1>1. /\ step \in [Instances -> Steps] /\ temp \in [Paths -> File] /\ disk \in [Paths -> File]
      /\ result \in [Instances -> {"none", "Written", "Failed"}]
      /\ step[i] \in WriteSteps
      /\ rom[i] \in Battery /\ PathOf(i) \in Paths /\ ram[i] \in Values
  BY SessionAssumption, PathType
  DEF SoloInv, IInv, TypeOK, CreateTemp, WriteChunk, WriteEnds, FlushTemp, CommitTemp,
      WriteFails, RemoveTemp, At, WriteSteps, PathOf
<1>2. rom' = rom /\ ram' = ram /\ status' = status
  BY DEF CreateTemp, WriteChunk, WriteEnds, FlushTemp, CommitTemp, WriteFails, RemoveTemp, session
<1>3. PathOf(i)' = PathOf(i) /\ ImageSize(rom[i])' = ImageSize(rom[i])
      /\ Image(rom[i], ram[i])' = Image(rom[i], ram[i])
  BY <1>2 DEF PathOf, ImageSize, Image
<1>4. CASE CreateTemp(i)
  <2>1. step'[i] = "write" /\ temp'[PathOf(i)].value = ram[i] /\ disk' = disk
    BY <1>1, <1>4 DEF CreateTemp, Goto
  <2>2. QED
    BY <1>2, <1>3, <2>1 DEF SoloInv, ScratchInv, RamIsSavedBeforeItGoes, At
<1>5. CASE WriteChunk(i)
  <2>1. step'[i] = "write" /\ disk' = disk
    BY <1>5 DEF WriteChunk, At
  <2>2. temp'[PathOf(i)].value = temp[PathOf(i)].value
    BY <1>1, <1>5 DEF WriteChunk, File
  <2>3. temp[PathOf(i)].value = ram[i]
    BY <1>5 DEF WriteChunk, At, SoloInv, ScratchInv
  <2>4. QED
    BY <1>2, <1>3, <2>1, <2>2, <2>3 DEF SoloInv, ScratchInv, RamIsSavedBeforeItGoes, At
<1>6. CASE WriteEnds(i)
  <2>1. step[i] = "write" /\ step'[i] = "flush" /\ disk' = disk /\ temp' = temp
        /\ temp[PathOf(i)].size = ImageSize(rom[i])
    BY <1>1, <1>6 DEF WriteEnds, At, Goto, files, Written
  <2>2. QED
    BY <1>2, <1>3, <2>1 DEF SoloInv, ScratchInv, RamIsSavedBeforeItGoes, At
<1>7. CASE FlushTemp(i)
  <2>1. step[i] = "flush" /\ step'[i] = "rename" /\ disk' = disk
        /\ temp'[PathOf(i)] = [temp[PathOf(i)] EXCEPT !.durable = TRUE]
    BY <1>1, <1>7 DEF FlushTemp, At, Goto
  <2>2. temp[PathOf(i)].size = ImageSize(rom[i]) /\ temp[PathOf(i)].value = ram[i]
    BY <2>1 DEF SoloInv, ScratchInv
  <2>3. temp'[PathOf(i)] = Image(rom[i], ram[i])
    BY <1>1, <2>1, <2>2 DEF Image, File
  <2>4. QED
    BY <1>2, <1>3, <2>1, <2>3 DEF SoloInv, ScratchInv, RamIsSavedBeforeItGoes, At
<1>8. CASE CommitTemp(i)
  <2>1. step[i] = "rename" /\ step'[i] = "done"
        /\ disk' = [disk EXCEPT ![PathOf(i)] = temp[PathOf(i)]]
    BY <1>1, <1>8 DEF CommitTemp, At, Goto
  <2>2. temp[PathOf(i)] = Image(rom[i], ram[i])
    BY <2>1 DEF SoloInv, ScratchInv
  <2>3. disk'[PathOf(i)] = Image(rom[i], ram[i]) /\ \A p \in Paths : disk'[p].durable
    BY <1>1, <2>1, <2>2, ImageType DEF SoloInv, ScratchInv
  <2>4. QED
    BY <1>2, <1>3, <2>1, <2>3 DEF SoloInv, ScratchInv, RamIsSavedBeforeItGoes, At
<1>9. CASE WriteFails(i)
  BY <1>1, <1>9, QuietSolo DEF WriteFails, Goto
<1>10. CASE RemoveTemp(i)
  <2>1. step'[i] = "done" /\ result'[i] = "Failed" /\ disk' = disk
    BY <1>1, <1>10 DEF RemoveTemp, Goto
  <2>2. QED
    BY <2>1 DEF SoloInv, ScratchInv, RamIsSavedBeforeItGoes, At
<1>11. QED
  BY <1>4, <1>5, <1>6, <1>7, <1>8, <1>9, <1>10

LEMMA OtherSolo ==
  ASSUME SoloInv, IInv', NEW i \in Instances, Instances = {i},
         Start(i) \/ GameWrites(i) \/ Reset(i) \/ Stay(i) \/ Exit(i) \/ Loading(i) \/ Kill(i)
  PROVE  SoloInv'
<1>1. step \in [Instances -> Steps]
  BY DEF SoloInv, IInv, TypeOK
<1>2. disk' = disk
  BY DEF Start, GameWrites, Reset, Stay, Exit, Loading, LoadFails, LoadRom, ProbeNoBattery,
         ProbeNoFile, ProbeRefused, ProbeMeasured, ReadSave, ReadFails, Kill, Look, files
<1>3. step'[i] \in {"off", "idle", "probe", "read"}
  BY <1>1
  DEF Start, GameWrites, Reset, Stay, Exit, Loading, LoadFails, LoadRom, ProbeNoBattery,
      ProbeNoFile, ProbeRefused, ProbeMeasured, ReadSave, ReadFails, Kill, Restored, At, Goto
<1>4. QED
  BY <1>2, <1>3, QuietSolo

\* A power cut takes nothing that has reached the disk.
LEMMA PowerCutKeepsDisk == ASSUME SoloInv, PowerCut PROVE disk' = disk
<1>1. /\ disk' \in [Paths -> UNION {Torn(disk[p]) : p \in Paths}]
      /\ \A p \in Paths : disk'[p] \in Torn(disk[p])
      /\ disk \in [Paths -> File]
  BY DEF PowerCut, SoloInv, IInv, TypeOK
<1>2. ASSUME NEW p \in Paths PROVE disk'[p] = disk[p]
  BY <1>1 DEF SoloInv, ScratchInv, Torn
<1>3. QED
  BY <1>1, <1>2

LEMMA NextSoloInv == ASSUME Alone, SoloInv, [Next]_vars PROVE SoloInv'
<1>1. IInv'
  BY NextIInv DEF SoloInv
<1>2. PICK self : Instances = {self}
  BY DEF Alone
<1>3. CASE UNCHANGED vars
  BY <1>3 DEF vars, files, session, SoloInv, IInv, TypeOK, AnswerInv, ScratchInv,
              RamIsSavedBeforeItGoes, At, PathOf
<1>4. CASE PowerCut
  <2>1. disk' = disk /\ step'[self] = "off"
    BY <1>2, <1>4, PowerCutKeepsDisk DEF PowerCut
  <2>2. QED
    BY <1>1, <1>2, <2>1, QuietSolo
<1>5. ASSUME NEW i \in Instances,
             Start(i) \/ GameWrites(i) \/ Reset(i) \/ Saving(i) \/ Stay(i) \/ Exit(i)
               \/ Loading(i) \/ Kill(i)
      PROVE  SoloInv'
  BY <1>1, <1>2, <1>5, OtherSolo, SaveSessionSolo, WriteSolo DEF Saving
<1>6. QED
  BY <1>3, <1>4, <1>5 DEF Next

LEMMA SpecSoloInv == ASSUME Alone PROVE Spec => []SoloInv
<1>1. SoloInv /\ [Next]_vars => SoloInv'
  BY NextSoloInv
<1>2. QED
  BY <1>1, InitSoloInv, PTL DEF Spec

\* What was to be kept is on the disk, or was reported as not (main.cpp:89-104).
THEOREM RamIsSavedBeforeItGoesAlways == Alone => (Spec => []RamIsSavedBeforeItGoes)
<1> SUFFICES ASSUME Alone PROVE Spec => []RamIsSavedBeforeItGoes
  OBVIOUS
<1>1. SoloInv => RamIsSavedBeforeItGoes
  BY DEF SoloInv
<1>2. QED
  BY <1>1, SpecSoloInv, PTL

\* One instance implements SaveStore: through kills, power cuts and failures of any call
\* a save goes from one whole image to another in one step (Save.cpp:234-276, 311-322).
THEOREM SessionImplementsStore == Alone => (Spec => SaveIsReplacedWhole)
<1> SUFFICES ASSUME Alone PROVE Spec => SaveIsReplacedWhole
  OBVIOUS
<1>1. Init => Store!Init
  BY StrangersAssumption, AbsentIsAFile DEF Init, Store!Init, WholeSaves
<1>2. SoloInv /\ [Next]_vars => [Store!Next]_disk
  <2> SUFFICES ASSUME SoloInv, Next, disk' # disk PROVE Store!Next
    BY DEF vars, files
  <2>1. PICK i \in Instances : CommitTemp(i)
    BY PowerCutKeepsDisk
    DEF Next, Start, GameWrites, Reset, Stay, Exit, Saving, SaveSession, CreateTemp, WriteChunk,
        WriteEnds, FlushTemp, WriteFails, RemoveTemp, Loading, LoadFails, LoadRom,
        ProbeNoBattery, ProbeNoFile, ProbeRefused, ProbeMeasured, ReadSave, ReadFails, Kill,
        Look, files
  <2>2. /\ step[i] = "rename" /\ rom[i] \in Battery /\ ram[i] \in Values
        /\ PathOf(i) = SavePath[rom[i]] /\ PathOf(i) \in Paths
    BY <2>1, SessionAssumption, PathType
    DEF CommitTemp, At, SoloInv, IInv, TypeOK, WriteSteps, PathOf
  <2>3. disk' = [disk EXCEPT ![PathOf(i)] = Image(rom[i], ram[i])]
    BY <2>1, <2>2 DEF CommitTemp, SoloInv, ScratchInv
  <2>4. PathOf(i) \in DOMAIN WholeSaves /\ Image(rom[i], ram[i]) \in WholeSaves[PathOf(i)]
    BY <2>2 DEF WholeSaves
  <2>5. QED
    BY <2>3, <2>4 DEF Store!Next, Store!Replace
<1>3. QED
  BY <1>1, <1>2, SpecSoloInv, PTL DEF Spec, SaveIsReplacedWhole, Store!Spec
=============================================================================
