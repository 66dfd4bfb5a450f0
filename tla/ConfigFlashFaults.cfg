\* Resets between any two flash writes, flash time-outs, pages that fill up.
SPECIFICATION Spec
CONSTANTS
  Capacity = 7
  MaxRequests = 4
  Faults = TRUE
INVARIANTS TypeOK UniqueIds
PROPERTY RegisterSpec
