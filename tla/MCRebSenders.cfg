SPECIFICATION FairSpec
CONSTANTS
  MILLIS_MODULUS = 2
  NONCE_MODULUS = 6
  UINT8_MODULUS = 1
  REB_THEFT_CONFIRM_WINDOW_MS = 1
  REB_BLOCKED_RETRANSMIT_MS = 1
  REB_NONCE_WINDOW_SIZE = 2
  REB_NONCE_HISTORY_SIZE = 1
  Speeds = {0}
  WIRE_MODULUS = 6
  QueueCapacity = 2
  MaxRestarts = 1
INVARIANT
  TypeOK
PROPERTIES
  ReachLostByWasteOnly
  OutOfReachForGood
  PersistentUnlockReleases
