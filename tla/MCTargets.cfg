SPECIFICATION Spec
CONSTANTS
  Things = {t1, t2, t3}
  Labels = {l1, l2}
  Requests = {q1, q2}
  Resolvers = {"resolve", "resolve_target", "resolve_pod"}
  None = None
SYMMETRY Symmetry
INVARIANTS TypeOK ChangesWhatWasShown RetryFindsRecord
CHECK_DEADLOCK FALSE
