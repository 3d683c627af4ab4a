SPECIFICATION Spec
CONSTANTS
  MILLIS_MODULUS = 268435456
  NONCE_MODULUS = 16384
  UINT8_MODULUS = 256
  REB_THEFT_CONFIRM_WINDOW_MS = 60000
  REB_BLOCKED_RETRANSMIT_MS = 5000
  REB_NONCE_WINDOW_SIZE = 32
  REB_NONCE_HISTORY_SIZE = 10
  Speeds <- MCSpeeds
  BYTE = 128
  Meant <- MCMeant
  OtherFrames <- MCOtherFrames
  Answered <- MCAnswered
  TickDeltas = {500, 1001}
  START_MS = 1000
  MaxClock = 2001
INVARIANTS
  TypeOK
  MeaningPreserved
  EcusObey
  FreshIsRecent
  RecentIsFresh
PROPERTY
  OnlyStrangersRefused
CHECK_DEADLOCK FALSE
