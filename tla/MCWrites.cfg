SPECIFICATION FairSpec
CONSTANTS
  Calls = {c1, c2}
  Intents = {i1, i2, u}
  Unrecorded = {u}
  Ids = {a, b, bad}
  Malformed = {bad}
  None = None
  ATTEMPTS = 2
INVARIANTS TypeOK AtMostOnce KnownBeforeSent DoneIsTrue
PROPERTIES KeepsPromise CallsEnd
CHECK_DEADLOCK FALSE
