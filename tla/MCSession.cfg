SPECIFICATION Spec
CONSTANTS
  red = red
  redAlt = redAlt
  loose = loose
  BadRom = bad
  NoRom = none
  Instances = {i1}
  Roms = {red, redAlt, loose}
  Battery = {red, redAlt}
  Clock = {redAlt}
  SavePath <- MCSavePath
  RamSize <- MCRamSize
  FooterSize = 1
  Values = {0, 1, 2}
  Fresh = 0
  Strangers <- MCStrangers
  ProbeMayFail = FALSE
INVARIANTS RamIsSavedBeforeItGoes
PROPERTIES UnreadSaveIsKept SaveIsReplacedWhole
