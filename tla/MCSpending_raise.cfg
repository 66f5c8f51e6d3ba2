SPECIFICATION Spec
CONSTANTS
  Calls = {c1, c2}
  Things = {o1}
  PRICE = 2
  REPLICAS = 1
  DISK = 0
  OTHERS = FALSE
  None = None
PROPERTY NoUnconfirmedRaise
