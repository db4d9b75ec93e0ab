SPECIFICATION MonitorSpec
CONSTANTS
  Polls = {p1, p2}
  MaxEvents = 3
  MaxRuns = 2
  None = None
INVARIANTS MonitorTypeOK GaplessView
PROPERTIES CatchesUp
