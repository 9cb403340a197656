SPECIFICATION PluginsSpec
CONSTANTS
  input = input
  output = output
  free = free
  id = 0
  input_number = 0
  MaxFaults = 1
  MaxClock = 2
  Names <- SomeNames
  anyName = "any"
  InPlace = FALSE
  MaxFiles = 2
  MaxPictures = 4
  Webcams <- WebcamsFor
  buffers = 2
  MaxCaptures = 4
  Clients = {c1}
  FileNames = {f1}
  noName = noName
  noClient = noClient
  MaxMessages = 1
  MAX_PLUGIN_ARGUMENTS = 7
  incnt = 1
  CommandLines <- Lines
  MaxRuns = 2
  b1 = b1
  b2 = b2
  HttpClients = {b1, b2}
  V4L2_CID_BASE = 10
  V4L2_CID_LASTP1 = 14
  V4L2_CID_PRIVATE_BASE = 20
  IO_BUFFER = 4
  LINE = 6
  Situations <- SomeSituations
INVARIANTS
  RingBuffer
  EndsOnlyWhenTold
  
  
  AnsweredAsAsked
  
  
  FramesInOrder
PROPERTIES
  OnlyAuthorised
CHECK_DEADLOCK FALSE
