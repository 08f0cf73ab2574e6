SPECIFICATION DmaSpec
CONSTANTS
  OamSize = 3
  ExternalPages = {wram}
  VideoPages = {vram}
  Bytes = {x, y}
INVARIANTS CopyFollowsWrite TransferIsSnapshot
CONSTANTS
  wram = wram
  vram = vram
  x = x
  y = y
