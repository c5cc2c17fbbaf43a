SPECIFICATION FairSpec
CONSTANTS
  Command = command
  Descendants = {d1, d2}
  Limits <- MCLimits
  Timeouts <- MCTimeouts
  Capacity = 2
  MaxWritten = 4
INVARIANTS
  IInv
  TextIsWhole
  NothingRunsOn
PROPERTIES
  ReturnsWhenLetGo
