CONSTANTS
  Requests = {r1}
  Settings <- AnySettings
  Projects = {"p1"}
  Bodies <- MCBodies
  Domain <- MCDomain
  Lower <- MCLower
SPECIFICATION Spec
PROPERTY RulesApplied
CHECK_DEADLOCK FALSE
