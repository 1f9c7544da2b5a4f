SPECIFICATION CachesSpec
CONSTANTS
  Readers = {r1, r2}
  Parts = {1, 2}
  Teams = {t1, t2}
  Ttl = 3
  PastTtl = 5
  Retry = 1
  MaxTime = 9
  Callers = {r1, r2}
  TTL = 3
  MaxWait = 2
  NoCopy = NoCopy
  LastTime = 9
  Faults = {"downloadFails", "diskFails", "restart"}
INVARIANTS
  FreshEnough
  ByesAreReal
  NewestReportWins
  AgeBelowTwice
PROPERTIES
  FetchesApart
  FailureTakesNothing
  DownloadsApart
