SPECIFICATION Spec
CONSTANTS
  MILLIS_MODULUS = 7
  NONCE_MODULUS = 3
  UINT8_MODULUS = 3
  REB_THEFT_CONFIRM_WINDOW_MS = 2
  REB_BLOCKED_RETRANSMIT_MS = 2
  REB_NONCE_WINDOW_SIZE = 2
  REB_NONCE_HISTORY_SIZE = 2
  Speeds <- MCSpeeds
  Messages <- MCMessages
  TickDeltas = {1, 2}
  START_MS = 1
  UninitializedRecords <- NoRecords
  Faults = {}
PROPERTY
  LateCancelObeyed
