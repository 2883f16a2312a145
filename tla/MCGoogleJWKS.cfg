CONSTANTS
  Threads = {t1, t2}
  Kids = {k1, k2}
  RefreshAfter = 1
  FetchTimeout = 1
  Horizon = 3
SPECIFICATION Spec
INVARIANT TypeOK
PROPERTIES WithdrawnKeyRefused MissesExplained
