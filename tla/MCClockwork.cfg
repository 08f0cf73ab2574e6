SPECIFICATION FairSpec
CONSTANTS
  CounterSize = 32
  TacHalf <- MCTacHalf
  SerialHalf = 8
  SequencerHalf = 16
  TimaSize = 2
  StartCounter = 10
  SerialBits = 2
  SbSize = 2
  Steps = 2
  Accesses = {"DIV", "TIMA", "TMA", "TAC", "SB", "SC", "NR52"}
INVARIANTS OverflowReadsZero SerialInterruptAfterWholeByte SequencerFollowsBit12
PROPERTIES InterruptPerWrap TimaRateIsExact TransferEnds
