SPECIFICATION Spec
CONSTANTS
  Capacity = 4
  MaxRequests = 2
  Faults = TRUE
  Values = {5, 145, 148, 153}
  MaxWrites = 2
INVARIANT TypeOK
PROPERTIES FlashSpec SaveChangesOneThing OneWriteIsObeyed
