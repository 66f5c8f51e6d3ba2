SPECIFICATION Spec
CONSTANTS
  Rows = {r1, r2, r3, r4, r5, r6}
  None = None
  Styles = {"pages"}
  Limits = {2, 3}
  PagesLimits = {2, 3}
  DEFAULT_LIMIT = 2
  MAX_LIMIT = 3
SYMMETRY Symmetry
INVARIANT CompleteIfUnchanged
