SPECIFICATION FairSpec
CONSTANTS
  WS = 2
  MLimit = 4
  Capacity = 2
INVARIANTS
  TypeOK
  AcksLegal
  WindowIsBacklog
  NoStaleFrame
PROPERTIES
  Delivers
  DeliversAll
