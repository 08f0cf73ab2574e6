SPECIFICATION FairSpec
CONSTANTS
  directions = directions
  Groups = {directions}
  Lines = {0}
  Sources = {0, 1, 2}
  JoypadSource = 2
  PpuSources = {0}
  LastAddress = 3
INVARIANTS DispatchIsClosed ReturnsToUnexecuted
PROPERTIES NoRequestLost HaltWakes
