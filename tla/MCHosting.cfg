SPECIFICATION Spec
CONSTANTS
  Calls = {c1}
  Windows = {w1}
  Clients = {k1}
  None = None
  TIME = 3
  HOURS = 2
INVARIANT TypeOK
PROPERTIES HappensAsShown NothingElseChanged
