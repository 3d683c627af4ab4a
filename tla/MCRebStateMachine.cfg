SPECIFICATION Spec
CONSTANTS
  MILLIS_MODULUS = 4
  NONCE_MODULUS = 7
  UINT8_MODULUS = 5
  REB_THEFT_CONFIRM_WINDOW_MS = 2
  REB_BLOCKED_RETRANSMIT_MS = 2
  REB_NONCE_WINDOW_SIZE = 3
  REB_NONCE_HISTORY_SIZE = 2
  Speeds <- MCSpeeds
  Inputs <- MCInputs
INVARIANTS
  TypeOK
  HistoryInOrder
  HistoryKeepsNewest
  SpentNoncesRejected
  AutomaticOnlyInTheft
PROPERTIES
  NonceSpentOnce
  LockIsAnnounced
  ImplementsImmobilizer
