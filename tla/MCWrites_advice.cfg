SPECIFICATION Spec
CONSTANTS
  Calls = {c1, c2}
  Intents = {i1, u}
  Unrecorded = {u}
  Ids = {a, b}
  Malformed = {}
  None = None
  ATTEMPTS = 2
INVARIANT AdviceCanBeFollowed
CHECK_DEADLOCK FALSE
