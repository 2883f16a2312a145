CONSTANTS
  Devices = {d1, d2}
  Requests = {r1, r2}
  MaxAttempts = 2
  MaxWrites = 4
SPECIFICATION Spec
INVARIANTS TypeOK 
PROPERTY DatedOnce
