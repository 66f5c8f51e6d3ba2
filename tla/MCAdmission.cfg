SPECIFICATION FairSpec
CONSTANTS
  Requests = {r1, r2, r3}
  MAX_REQUESTS = 2
  MAX_LARGE_BODIES = 1
INVARIANTS TypeOK SlotsMatch WorkBounded OnlyVettedHandled
PROPERTIES SmallRefusedOnlyWhenFull SlotsComeBack SlotsArePools
