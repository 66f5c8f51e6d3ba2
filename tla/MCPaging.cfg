SPECIFICATION Spec
CONSTANTS
  Rows = {r1, r2, r3, r4, r5, r6}
  None = None
  Styles = {"memory", "extra", "pages"}
  Limits = {1, 2, 4, None}
  PagesLimits = {2, None}
  DEFAULT_LIMIT = 2
  MAX_LIMIT = 3
SYMMETRY Symmetry
INVARIANTS TypeOK Complete NoRepeats
PROPERTY Advances
