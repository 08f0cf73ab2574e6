SPECIFICATION FairSpec
CONSTANTS
  FrequencySize = 8
  LowSize = 4
  SweepReload = 2
  HighBit = 3
  NarrowBit = 1
  WaveBytes = 2
  WaveGroup = 1
  TriggerDelay = 6
  LengthMax <- MCLengthMax
  Played = {1, 3, 4}
  Periods = {0, 1, 2}
  Shifts = {0, 1}
  WaveValues = {0, 1}
  MaxWrites = 4
INVARIANTS OnMeansPlaying NoiseIsAlive
PROPERTIES LengthFollowsItsGate SweepStopsInTime NotesEnd
