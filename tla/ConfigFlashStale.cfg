SPECIFICATION Spec
CONSTANTS
  Capacity = 5
  MaxRequests = 3
  Faults = TRUE
PROPERTY LatestWins
