SPECIFICATION TSpec
CONSTANTS
  main = main
  server = server
  NaN = NaN
  Garbage = Garbage
  Threads <- Both
  Cancellable <- NoThreads
  Durations <- OneFiring
  FIRE_DUTY_TIME = 500
  Axes <- MCAxes
  Span <- MCSpan
  DefaultDeg <- MCDefault
  DutyMin = 880
  DutyRange = 1320
  SetArgs <- MCSetArgs
  StepArgs <- MCStepArgs
  Unit = 2
  Sightings <- MCOneSighting
  Width = 320
  Height = 240
  HORIZ_FOV = 320
  VERT_FOV = 160
  NUM_FRAMES_MIN = 2
  UserSets <- MCUserSets
  UserFires = FALSE
PROPERTIES
  UserTakesOver
