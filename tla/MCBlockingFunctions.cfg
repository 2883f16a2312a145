CONSTANTS
  Requests = {r1, r2, r3}
  Settings <- MCSettings
  Projects = {"p1"}
  Bodies <- MCBodies
  Domain <- MCDomain
  Lower <- MCLower
SPECIFICATION FairSpec
INVARIANTS TypeOK DepsInUse FirstOutcomeLasts
PROPERTY EveryRequestEnds
CHECK_DEADLOCK FALSE
