SPECIFICATION Spec
CONSTANTS
  Things = {t1, t2, t3}
  Labels = {l1, l2}
  Requests = {q1}
  Resolvers = {"resolve_pod"}
  None = None
SYMMETRY Symmetry
INVARIANT DeletesWhatWasShown
CHECK_DEADLOCK FALSE
