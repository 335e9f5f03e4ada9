SPECIFICATION Spec
CONSTANTS
  MaxCalls = 3
  MaxMessages = 3
INVARIANTS
  TypeOK
  SevereHeard
  HeardOnce
  OthersWereLeft
  EndHonest
  NoTransactionForgiven
CHECK_DEADLOCK FALSE
