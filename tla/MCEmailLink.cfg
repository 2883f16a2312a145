CONSTANTS
  Addresses = {a1, a2}
  Default = Default
  None = None
  Calls = {c1, c2}
  Countdown = 2
SPECIFICATION FairSpec
INVARIANTS TypeOK AwaitedIsKnown
PROPERTIES ResendsSpaced CountdownEnds
