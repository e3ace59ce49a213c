SPECIFICATION Spec
CONSTANTS
  x = x
  y = y
  o = o
  p = p
  None = None
  Refused = Refused
  Roots <- TwoRoots
  Outcomes <- TwoOutcomes
  MaxHeight = 3
  MaxRecords = 3
  WindowsFrom = 2
  Misstated <- Second
  MaxAnchors = 2
SYMMETRY Interchangeable
CHECK_DEADLOCK FALSE
INVARIANT ExportNeverRefused
INVARIANT AcceptedIsRecorded
INVARIANT AcceptedOfOneHistory
INVARIANT AcceptedIsDated
