SPECIFICATION FairSpec
CONSTANTS
  Callers = {c1, c2}
  Tasks = {t1, t2}
  None = None
  CATALOG_TTL = 3
  CATALOG_MAX_AGE = 5
  RETRY_DELAY = 2
  REQUEST_TIMEOUT = 2
INVARIANTS TypeOK OneRequestAtATime NoOldPrices WaitersHaveRequest LeavingIsPrivate WaitBounded
PROPERTIES RequestsSpaced RefreshEnds
