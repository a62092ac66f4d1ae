SPECIFICATION FairSpec
CONSTANTS
  MaxSms = 1
  InitCommands = 2
  ResetWait = 0
  CreditAttempt = 1
  LowCreditMessages = 1
  ResetSmsDelay = 0
  ReceiveTimeout = 0
  QueueSize = 2
  Inbound <- ResultLines
  Credits = {"CREDIT_LOW"}
  Faults = {"late", "lost", "refused"}
  MaxExpiries = 1
  MaxRings = 0
  MaxReplies = 3
  MaxNotices = 3
  MaxText = 3
INVARIANTS ParserMatchesState InFlightIsHead
PROPERTIES LeavesQueueWhenConfirmed AlwaysIdleAgain QueueDrains
