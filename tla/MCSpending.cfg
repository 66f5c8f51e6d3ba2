SPECIFICATION Spec
CONSTANTS
  Calls = {c1, c2}
  Things = {o1}
  PRICE = 2
  REPLICAS = 2
  DISK = 2
  OTHERS = TRUE
  None = None
SYMMETRY Symmetry
INVARIANTS TypeOK NeverAboveLimit NeverAboveAgreed
PROPERTY PaidAsShown
