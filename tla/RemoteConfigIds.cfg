\* Two writes of one client, a device number and a command.
SPECIFICATION Spec
CONSTANTS
  Capacity = 4
  MaxRequests = 2
  Faults = FALSE
  Values = {5, 145}
  MaxWrites = 2
INVARIANT ValidIds
