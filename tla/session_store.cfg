SPECIFICATION SessionStoreSpec
CONSTANTS
  None = None
  Timeout = 2
  CounterMax = 3
  Received = {0, 1, 2, 3, 4}
  MaxStarts = 3
INVARIANTS SessionStoreTypeOK GrantedIsDurable BankKeysDurable
PROPERTIES NoReplay ImplementsAtomicStore
CHECK_DEADLOCK FALSE
