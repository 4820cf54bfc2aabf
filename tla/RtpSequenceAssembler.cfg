SPECIFICATION AssemblerSpec
CONSTANTS
  Position <- MCPosition
  Timestamp <- MCTimestamp
  Modulus = 16
  MaxCorrection = 4
  MaxDup = 1
CHECK_DEADLOCK FALSE
INVARIANT PayloadIsOwn
INVARIANT NothingLost
INVARIANT InOrder
INVARIANT HeldBriefly
