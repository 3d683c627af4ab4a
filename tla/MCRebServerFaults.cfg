SPECIFICATION Spec
CONSTANTS
  MILLIS_MODULUS = 3
  NONCE_MODULUS = 3
  UINT8_MODULUS = 3
  REB_THEFT_CONFIRM_WINDOW_MS = 1
  REB_BLOCKED_RETRANSMIT_MS = 1
  REB_NONCE_WINDOW_SIZE = 2
  REB_NONCE_HISTORY_SIZE = 2
  Speeds <- MCSpeeds
  Messages <- MCRemoteMessages
  TickDeltas = {1}
  START_MS = 1
  UninitializedRecords <- MCUninitializedRecords
  Faults = {"stop", "power", "torn", "disk", "fresh"}
INVARIANTS
  TypeOK
  SpentNoncesRejected
  LockSurvivesRestart
  AnnouncedNonceStaysSpent
