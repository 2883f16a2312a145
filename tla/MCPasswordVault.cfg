CONSTANTS
  Calls = {c1, c2}
  Hashers = {h1, h2}
  Passwords = {p1, p2}
  Nothing = Nothing
SPECIFICATION Spec
INVARIANTS TypeOK HoldsLastSet
PROPERTIES VerdictIsRight MigratesForward
