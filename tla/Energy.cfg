CONSTANTS
  Callbacks <- BothCallbacks
  TxModels <- AllModels
  TxPowers <- TwoPowers
  Capacity = 200000
  LowBattery = 60000
  UpdateInterval = 3
  MaxTime = 10
SPECIFICATION Spec
CHECK_DEADLOCK FALSE
INVARIANT TypeOK
INVARIANT StatesAgree
INVARIANT BooksAgree
