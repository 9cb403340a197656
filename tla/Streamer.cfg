SPECIFICATION Spec
CONSTANTS
  camera = camera  server = server  main = main  signal = signal  free = free
  Clients = {t1, t2}
  Threads = {camera, server, main, signal, t1, t2}
  MaxConnections = 2
  Sockets = {1}
  Requests = {"snapshot", "stream", "resolution"}
  NB_BUFFER = 2
  DropSmall = FALSE
  DestroyBlocks = FALSE
  MaxFrames = 2
  MaxEmpty = 1
  MaxChanges = 1
  MaxFaults = 1
INVARIANTS  PictureWhole  OnlyEmptiesLost
CHECK_DEADLOCK FALSE
