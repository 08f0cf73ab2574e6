SPECIFICATION Spec
CONSTANTS
  TicksPerSecond = 2
  Limit <- MCLimit
  Span <- MCSpan
  DayLowSize = 2
  Headers <- MCHeaders
  ControlWrites <- MCControlWrites
  RomAddresses <- MCRomAddresses
  RamAddresses <- MCRamAddresses
  RamBytes = {165}
  ClockWrites <- MCClockWrites
  DayHighWrites <- MCDayHighWrites
  Footers <- MCFooters
  Elapsed = {0, 9}
  MaxCatchUp = 9
INVARIANTS AccessesStayInside PristineIsAsLoaded CatchUpIsSecondBySecond
PROPERTIES CarryIsKept
