CONSTANTS
  Instances = {i1}
  Callers <- ThreeCallers
  NoHeader = "none"
  Limit = 1
  Burst = 1
  Window = 2
  Horizon = 4
  MaxRequests = 5
SPECIFICATION Spec
INVARIANTS TypeOK AllowedPerWindow DeniedOnlyWhenBusy
