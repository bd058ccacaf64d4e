SPECIFICATION Spec
CONSTANTS
  NumGuards = 2
  Cap = 2
  Sizes = {1, 2, 3}
  MaxBytes = 6
  Codes = {200, 404}
INVARIANTS FlushDelivers EarlyPanicIs500 StoreIsOurs
PROPERTIES Exchanged
