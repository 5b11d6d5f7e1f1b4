SPECIFICATION AccountsSpec
CONSTANTS
  Payers = {"b1", "b2", "t"}
  Buys <- MCBuys
  TopUps = {"t"}
  Relays = {"r1", "r2"}
  RelayOf <- MCRelayOf
  PayBuf = 2
  MaxPause = 1
  MaxSpent <- MCMaxSpent
  RelayRate = 2
  ServiceRate = 3
  ReqLen = 6
  RepLen = 5
  PadLen = 7
  Unit = 4
  Start = 7
  SvcBuf = 1
  MaxRepeats = 1
INVARIANTS
  PaymentsAccounted ClientBacked OnlyItsOwnLayer ClientNotBehind AnswersMatch

   
CHECK_DEADLOCK FALSE
