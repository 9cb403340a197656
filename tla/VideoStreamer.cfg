SPECIFICATION Spec
CONSTANTS
  Bystanders = {7, 9}
  CPU = {0, 3, 7}
  MaxStarts = 2
INVARIANT StopKillsStream
CHECK_DEADLOCK FALSE
