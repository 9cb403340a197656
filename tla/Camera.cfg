SPECIFICATION Spec
CONSTANTS
  main = main
  camera = camera
  desiredBuffers = 3
  Drop = 1
  Failures = {"open", "setup", "select", "dequeue", "again", "index", "requeue"}
  MaxFaults = 2
  MaxReads = 4
  MaxFrames = 6
CHECK_DEADLOCK FALSE
INVARIANTS
  Exclusive
  BuffersAccounted
PROPERTIES
  Fresh
  StopEnds
