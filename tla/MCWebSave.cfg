SPECIFICATION Spec
CONSTANTS
  game = game
  hack = hack
  other = other
  loose = loose
  NoRom = none
  Roms = {game, hack, other, loose}
  CartId <- MCCartId
  Name <- MCName
  Battery = {game, hack, other}
  RamSize <- MCRamSize
  Values = {0, 1, 2}
  Fresh = 0
INVARIANTS SnapshotIsStored
PROPERTIES ResetKeepsRam LoadDestroysNothing
