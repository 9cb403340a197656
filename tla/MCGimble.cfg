SPECIFICATION TurnsSpec
CONSTANTS
  main = main
  server = server
  NaN = NaN
  Garbage = Garbage
  Threads <- BothThreads
  Axes <- BothAxes
  Span <- MCSpan
  StartDeg <- MCStartDeg
  DutyMin = 880000
  DutyRange = 1320000
  SetArgs <- Degrees
  StepArgs <- Steps
INVARIANTS
  InRange
  FieldIsDevice
PROPERTY
  MountSpec
