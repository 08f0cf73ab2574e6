------------------------------- MODULE Session -----------------------------
(***************************************************************************)
(* A desktop session and its save file (app/main.cpp, app/AppController,   *)
(* app/Save): the ROM that is running, what its save turned out to be when *)
(* it was loaded, and the write through a scratch file beside the save,    *)
(* with a failure of any system call, a kill or a power cut at any moment, *)
(* and several instances of the program at once.                           *)
(*                                                                         *)
(* A file is its length, what its RAM part holds, and whether its bytes    *)
(* have reached the disk.  The contents of the clock footer and the paths' *)
(* spelling are left out; CONSTANTS say which ROMs share a save path.      *)
(***************************************************************************)
EXTENDS Integers, FiniteSets

CONSTANTS
  Instances,    \* running copies of the program
  Roms,         \* paths of ROMs that load
  BadRom,       \* the path of a file that is no ROM
  NoRom,
  SavePath,     \* savePathFor(rom): ROMs that differ in extension only share one
  Battery,      \* the ROMs whose cartridge has a battery
  Clock,        \* those whose cartridge has a real-time clock
  RamSize,      \* RamSize[rom]: bytes of cartridge RAM
  FooterSize,   \* kRtcFooterBytes: 48 in the code
  Values,       \* contents of a cartridge's RAM
  Fresh,        \* RAM as a new cartridge has it
  Strangers,    \* files that may be at a save path before the program ever ran
  ProbeMayFail  \* exists(path, ec) may report an error

Paths == {SavePath[r] : r \in Roms}

ASSUME SessionAssumption ==
  /\ BadRom \notin Roms
  /\ NoRom \notin Roms
  /\ Battery \subseteq Roms
  /\ Clock \subseteq Battery
  /\ RamSize \in [Roms -> Nat]
  /\ FooterSize \in Nat
  /\ Fresh \in Values
  /\ ProbeMayFail \in BOOLEAN

Absent == [size |-> -1, value |-> Fresh, durable |-> TRUE]

\* What writeSave writes for `rom' with `value' in its RAM.
ImageSize(rom) == RamSize[rom] + (IF rom \in Clock THEN FooterSize ELSE 0)
Image(rom, value) == [size |-> ImageSize(rom), value |-> value, durable |-> TRUE]

\* The lengths loadSave accepts.
Accepts(rom, size) == size = RamSize[rom] \/ size = ImageSize(rom)

VARIABLES
  disk,       \* disk[path]: the file at a save path
  temp,       \* temp[path]: the scratch file beside it
  opened,     \* opened[path]: the instances with the scratch file open
  step,       \* step[i]: what instance i does next
  next,       \* next[i]: what it does after saving: a ROM to load, "exit" or "stay"
  rom,        \* rom[i]: session.romPath, and with it AppState::Running
  status,     \* status[i]: session.saveStatus
  ram,        \* ram[i]: the running cartridge's RAM
  measured,   \* measured[i]: the length loadSave found
  found,      \* history: found[i]: the file that was there when loadSave looked
  result      \* history: result[i]: what the last writeSave returned

files == <<disk, temp, opened>>
session == <<rom, status, ram, measured, found>>
vars == <<files, step, next, session, result>>

File == [size : Int, value : Values, durable : BOOLEAN]

ASSUME StrangersAssumption == Strangers \subseteq {f \in File : f.durable}

Statuses == {"NoBattery", "NoFile", "Loaded", "Refused"}
WriteSteps == {"create", "write", "flush", "rename", "remove"}
Steps == {"off", "idle", "done", "probe", "read"} \cup WriteSteps

TypeOK ==
  /\ disk \in [Paths -> File]
  /\ temp \in [Paths -> File]
  /\ opened \in [Paths -> SUBSET Instances]
  /\ step \in [Instances -> Steps]
  /\ next \in [Instances -> Roms \cup {BadRom, "exit", "stay"}]
  /\ rom \in [Instances -> Roms \cup {NoRom}]
  /\ status \in [Instances -> Statuses]
  /\ ram \in [Instances -> Values]
  /\ measured \in [Instances -> Nat]
  /\ found \in [Instances -> File]
  /\ result \in [Instances -> {"none", "Written", "Failed"}]
  /\ \A i \in Instances : step[i] \in WriteSteps => rom[i] \in Battery

Init ==
  /\ disk \in [Paths -> Strangers \cup {Absent}]
  /\ temp = [p \in Paths |-> Absent]
  /\ opened = [p \in Paths |-> {}]
  /\ step = [i \in Instances |-> "off"]
  /\ next = [i \in Instances |-> "stay"]
  /\ rom = [i \in Instances |-> NoRom]
  /\ status = [i \in Instances |-> "NoBattery"]
  /\ ram = [i \in Instances |-> Fresh]
  /\ measured = [i \in Instances |-> 0]
  /\ found = [i \in Instances |-> Absent]
  /\ result = [i \in Instances |-> "none"]

-----------------------------------------------------------------------------
At(i, s) == step[i] = s
Goto(i, s) == step' = [step EXCEPT ![i] = s]
PathOf(i) == SavePath[rom[i]]

\* Instance i has no ROM: the session is cleared and the machine, if any, gone.
Cleared(i) ==
  /\ rom' = [rom EXCEPT ![i] = NoRom]
  /\ status' = [status EXCEPT ![i] = "NoBattery"]
  /\ ram' = [ram EXCEPT ![i] = Fresh]
  /\ found' = [found EXCEPT ![i] = Absent]
  /\ measured' = [measured EXCEPT ![i] = 0]

Start(i) ==
  /\ At(i, "off")
  /\ Goto(i, "idle")
  /\ UNCHANGED <<files, next, session, result>>

\* The program writes its RAM; nothing of the session runs while it does.
GameWrites(i) ==
  /\ At(i, "idle")
  /\ rom[i] # NoRom
  /\ \E v \in Values : ram' = [ram EXCEPT ![i] = v]
  /\ UNCHANGED <<files, step, next, rom, status, measured, found, result>>

\* AppController::reset: a cartridge as it was loaded, with the RAM a battery keeps.
Reset(i) ==
  /\ At(i, "idle")
  /\ rom[i] # NoRom
  /\ ram' = [ram EXCEPT ![i] = IF rom[i] \in Battery THEN @ ELSE Fresh]
  /\ UNCHANGED <<files, step, next, rom, status, measured, found, result>>

-----------------------------------------------------------------------------
(* Saving.                                                                 *)

\* Mutant: a refused save may be written over.
MayWriteAnyBattery(s) == s # "NoBattery"

MayWriteSave(s) == s \in {"NoFile", "Loaded"}

\* Mutant: a dropped ROM replaces the machine without saving it.
SaveSessionNotOnDrop(i, then) ==
  /\ At(i, "idle")
  /\ then = "stay" => rom[i] # NoRom
  /\ next' = [next EXCEPT ![i] = then]
  /\ result' = [result EXCEPT ![i] = "none"]
  /\ Goto(i, IF rom[i] # NoRom /\ MayWriteSave(status[i]) /\ then \notin Roms
             THEN "create" ELSE "done")
  /\ UNCHANGED <<files, session>>

\* saveSession: on a pause, on quitting, and before the ROM of a dropped path is
\* loaded.
SaveSession(i, then) ==
  /\ At(i, "idle")
  /\ then = "stay" => rom[i] # NoRom
  /\ next' = [next EXCEPT ![i] = then]
  /\ result' = [result EXCEPT ![i] = "none"]
  /\ Goto(i, IF rom[i] # NoRom /\ MayWriteSave(status[i]) THEN "create" ELSE "done")
  /\ UNCHANGED <<files, session>>

\* The scratch file is opened for this instance alone: no other can have it open,
\* and whatever was in it is gone.
CreateTemp(i) ==
  /\ At(i, "create")
  /\ opened[PathOf(i)] = {}
  /\ opened' = [opened EXCEPT ![PathOf(i)] = {i}]
  /\ temp' = [temp EXCEPT ![PathOf(i)] = [size |-> 0, value |-> ram[i], durable |-> FALSE]]
  /\ Goto(i, "write")
  /\ UNCHANGED <<disk, next, session, result>>

Written(i) == temp[PathOf(i)].size

WriteChunk(i) ==
  /\ At(i, "write")
  /\ \E n \in Written(i) + 1 .. ImageSize(rom[i]) :
       temp' = [temp EXCEPT ![PathOf(i)] = [@ EXCEPT !.size = n, !.durable = FALSE]]
  /\ UNCHANGED <<disk, opened, step, next, session, result>>

WriteEnds(i) ==
  /\ At(i, "write")
  /\ Written(i) = ImageSize(rom[i])
  /\ Goto(i, "flush")
  /\ UNCHANGED <<files, next, session, result>>

\* Mutant: the scratch file is renamed before its bytes are on the disk.
FlushTempSkipped(i) ==
  /\ At(i, "flush")
  /\ opened' = [opened EXCEPT ![PathOf(i)] = @ \ {i}]
  /\ Goto(i, "rename")
  /\ UNCHANGED <<disk, temp, next, session, result>>

\* FlushFileBuffers, then the handle is closed so that the file can be renamed.
FlushTemp(i) ==
  /\ At(i, "flush")
  /\ temp' = [temp EXCEPT ![PathOf(i)] = [@ EXCEPT !.durable = TRUE]]
  /\ opened' = [opened EXCEPT ![PathOf(i)] = @ \ {i}]
  /\ Goto(i, "rename")
  /\ UNCHANGED <<disk, next, session, result>>

\* MoveFileExW: refused while the scratch file is gone or somebody has it open.
CommitTemp(i) ==
  /\ At(i, "rename")
  /\ temp[PathOf(i)] # Absent
  /\ opened[PathOf(i)] = {}
  /\ disk' = [disk EXCEPT ![PathOf(i)] = temp[PathOf(i)]]
  /\ temp' = [temp EXCEPT ![PathOf(i)] = Absent]
  /\ result' = [result EXCEPT ![i] = "Written"]
  /\ Goto(i, "done")
  /\ UNCHANGED <<opened, next, session>>

\* Any of the calls fails; leaving writeTempFile closes its handle.
WriteFails(i) ==
  /\ step[i] \in {"create", "write", "flush", "rename"}
  /\ opened' = [opened EXCEPT ![PathOf(i)] = @ \ {i}]
  /\ Goto(i, "remove")
  /\ UNCHANGED <<disk, temp, next, session, result>>

\* The scratch file is removed, unless that fails too.
RemoveTemp(i) ==
  /\ At(i, "remove")
  /\ \/ /\ opened[PathOf(i)] = {}
        /\ temp' = [temp EXCEPT ![PathOf(i)] = Absent]
     \/ UNCHANGED temp
  /\ result' = [result EXCEPT ![i] = "Failed"]
  /\ Goto(i, "done")
  /\ UNCHANGED <<disk, opened, next, session>>

-----------------------------------------------------------------------------
(* What the save was for.                                                  *)

Stay(i) ==
  /\ At(i, "done")
  /\ next[i] = "stay"
  /\ Goto(i, "idle")
  /\ UNCHANGED <<files, next, session, result>>

Exit(i) ==
  /\ At(i, "done")
  /\ next[i] = "exit"
  /\ Goto(i, "off")
  /\ Cleared(i)
  /\ UNCHANGED <<files, next, result>>

\* AppController::loadRom destroys the machine that was running either way.
LoadFails(i) ==
  /\ At(i, "done")
  /\ next[i] = BadRom
  /\ Goto(i, "idle")
  /\ Cleared(i)
  /\ UNCHANGED <<files, next, result>>

LoadRom(i) ==
  /\ At(i, "done")
  /\ next[i] \in Roms
  /\ rom' = [rom EXCEPT ![i] = next[i]]
  /\ ram' = [ram EXCEPT ![i] = Fresh]
  /\ Goto(i, "probe")
  /\ UNCHANGED <<files, next, status, measured, found, result>>

-----------------------------------------------------------------------------
(* restoreSession and loadSave.                                            *)

Restored(i, s) ==
  /\ status' = [status EXCEPT ![i] = s]
  /\ Goto(i, "idle")

Look(i) ==
  /\ At(i, "probe")
  /\ found' = [found EXCEPT ![i] = IF rom[i] \in Battery THEN disk[PathOf(i)] ELSE Absent]
  /\ UNCHANGED <<files, next, rom, ram, result>>

ProbeNoBattery(i) ==
  /\ Look(i)
  /\ rom[i] \notin Battery
  /\ Restored(i, "NoBattery")
  /\ UNCHANGED measured

\* exists() says no - or reports an error, which is taken the same way.
ProbeNoFile(i) ==
  /\ Look(i)
  /\ rom[i] \in Battery
  /\ disk[PathOf(i)] = Absent \/ ProbeMayFail
  /\ Restored(i, "NoFile")
  /\ UNCHANGED measured

\* The length is wrong, or cannot be had.
ProbeRefused(i) ==
  /\ Look(i)
  /\ rom[i] \in Battery
  /\ disk[PathOf(i)] # Absent
  /\ Restored(i, "Refused")
  /\ UNCHANGED measured

ProbeMeasured(i) ==
  /\ Look(i)
  /\ rom[i] \in Battery
  /\ disk[PathOf(i)] # Absent
  /\ Accepts(rom[i], disk[PathOf(i)].size)
  /\ measured' = [measured EXCEPT ![i] = disk[PathOf(i)].size]
  /\ Goto(i, "read")
  /\ UNCHANGED status

\* Exactly the measured bytes are read, whatever the file has become.
ReadSave(i) ==
  /\ At(i, "read")
  /\ disk[PathOf(i)].size >= measured[i]
  /\ ram' = [ram EXCEPT ![i] = disk[PathOf(i)].value]
  /\ Restored(i, "Loaded")
  /\ UNCHANGED <<files, next, rom, measured, found, result>>

ReadFails(i) ==
  /\ At(i, "read")
  /\ Restored(i, "Refused")
  /\ UNCHANGED <<files, next, rom, ram, measured, found, result>>

-----------------------------------------------------------------------------
(* What happens to the program.                                            *)

Kill(i) ==
  /\ ~At(i, "off")
  /\ Goto(i, "off")
  /\ opened' = [p \in Paths |-> opened[p] \ {i}]
  /\ Cleared(i)
  /\ UNCHANGED <<disk, temp, next, result>>

\* Of bytes that have not been flushed any number may be missing, and the file too.
Torn(file) ==
  IF file.durable THEN {file}
  ELSE {Absent} \cup {[file EXCEPT !.size = n, !.durable = TRUE] : n \in 0..file.size}

PowerCut ==
  /\ \E i \in Instances : ~At(i, "off")
  /\ disk' \in {d \in [Paths -> UNION {Torn(disk[p]) : p \in Paths}] :
                  \A p \in Paths : d[p] \in Torn(disk[p])}
  /\ temp' \in {t \in [Paths -> UNION {Torn(temp[p]) : p \in Paths}] :
                  \A p \in Paths : t[p] \in Torn(temp[p])}
  /\ opened' = [p \in Paths |-> {}]
  /\ step' = [i \in Instances |-> "off"]
  /\ rom' = [i \in Instances |-> NoRom]
  /\ status' = [i \in Instances |-> "NoBattery"]
  /\ ram' = [i \in Instances |-> Fresh]
  /\ measured' = [i \in Instances |-> 0]
  /\ found' = [i \in Instances |-> Absent]
  /\ UNCHANGED <<next, result>>

Saving(i) ==
  \/ \E then \in Roms \cup {BadRom, "exit", "stay"} : SaveSession(i, then)
  \/ CreateTemp(i)
  \/ WriteChunk(i)
  \/ WriteEnds(i)
  \/ FlushTemp(i)
  \/ CommitTemp(i)
  \/ WriteFails(i)
  \/ RemoveTemp(i)

Loading(i) ==
  \/ LoadFails(i)
  \/ LoadRom(i)
  \/ ProbeNoBattery(i)
  \/ ProbeNoFile(i)
  \/ ProbeRefused(i)
  \/ ProbeMeasured(i)
  \/ ReadSave(i)
  \/ ReadFails(i)

Next ==
  \/ \E i \in Instances :
       Start(i) \/ GameWrites(i) \/ Reset(i) \/ Saving(i) \/ Stay(i) \/ Exit(i)
         \/ Loading(i) \/ Kill(i)
  \/ PowerCut

Spec == Init /\ [][Next]_vars

-----------------------------------------------------------------------------
(* Properties.                                                             *)

\* WholeSaves[path]: the whole images of the cartridges that save there.
WholeSaves == [p \in Paths |-> {Image(r, v) : r \in {b \in Battery : SavePath[b] = p},
                                              v \in Values}]

\* Through kills, power cuts and failures a save is only ever replaced, at one
\* stroke, by a whole image that is on the disk (Save.cpp:234-276, 311-322; the
\* promise of Save.h:153-155).  It takes a second instance, with the same scratch
\* file, to break it.
Store == INSTANCE SaveStore WITH Files <- File, Images <- WholeSaves, saved <- disk
SaveIsReplacedWhole == Store!Spec

\* A save that was there when the session looked and was not loaded - of another length, or
\* not to be opened, or cut short in reading - is not written over by that session, unless
\* exists() itself reported an error (Save.cpp:161-163, 179-202; main.cpp:93, 138-155).
UnreadSaveIsKept ==
  [][\A i \in Instances :
       found[i] # Absent /\ status[i] # "Loaded" /\ At(i, "rename") /\ step'[i] # "rename"
         => disk' = disk]_vars

\* When the machine is about to be left - paused, replaced or closed - its battery
\* RAM is on the disk, unless the session may not write or the write was reported
\* as failed (main.cpp:89-104, 138-151, 433, 625).
RamIsSavedBeforeItGoes ==
  \A i \in Instances :
    At(i, "done") /\ rom[i] # NoRom /\ MayWriteSave(status[i]) =>
      result[i] = "Failed" \/ disk[PathOf(i)] = Image(rom[i], ram[i])
=============================================================================
