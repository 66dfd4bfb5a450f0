SPECIFICATION FairSpec
CONSTANTS
  Capacity = 5
  MaxRequests = 3
  Faults = FALSE
  Values = {0, 5, 145, 153}
  MaxWrites = 2
INVARIANT SingleCopy
PROPERTIES LastSaveRuns SavedEventually BluetoothEnds DfuReached ShutdownHonoured
