SPECIFICATION Spec
CONSTANTS
  c1 = c1
  c2 = c2
  NoClient = NoClient
  Clients <- TwoClients
  MaxCommands = 3
  Module <- MCModule
  Modes <- Both
INVARIANTS
  InOrder
  ClosedOnce
PROPERTIES
  
  EveryCommandAnswered
CHECK_DEADLOCK FALSE
