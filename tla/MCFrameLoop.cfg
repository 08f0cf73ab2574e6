SPECIFICATION FairSpec
CONSTANTS
  FrameSteps = 5
  VBlankStep = 3
  CallSteps = 2
  CallsPerFrame = 3
  MaxCatchup = 2
  FrameSamples = 5
  Period = 3
  Burst = 12
  Played = {0, 4, 5, 6}
  Remainders = {0, 12}
  Durations = {0, 2, 5, 6, 7}
  Overruns = {0, 1, 5}
INVARIANTS PoliciesKeepApart LatencyIsBounded NoBurstOfPasses
PROPERTIES HeldButtonEndsStopOnPage PassesEndWhileLcdRuns
