SPECIFICATION Spec
CONSTANTS
  camera = camera  server = server  main = main  signal = signal  free = free
  Clients = {t1, t2}
  Threads = {camera, server, main, signal, t1, t2}
  MaxConnections = 2
  Sockets = {1}
  Requests = {"stream", "other"}
  NB_BUFFER = 2
  DropSmall = TRUE
  DestroyBlocks = FALSE
  MaxFrames = 1
  MaxEmpty = 1
  MaxChanges = 0
  MaxFaults = 0
PROPERTIES MutexPasses 
CHECK_DEADLOCK FALSE
