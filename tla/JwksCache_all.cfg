SPECIFICATION JSpec
CONSTANTS
  Proc = {p1, p2}
  Kid = {k1, k2}
  CacheTTL = 4
  MinGap = 2
  FetchTime = 1
  MaxTime = 6
  Faults = {"fail"}
  None = None
SYMMETRY Symmetric
PROPERTIES OneFetchPerGap KnownKeyServed NewKeyServed WithdrawnKeyExpires
CHECK_DEADLOCK FALSE
