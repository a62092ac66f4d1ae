SPECIFICATION Spec
CONSTANTS
  MaxSms = 0
  InitCommands = 1
  ResetWait = 0
  CreditAttempt = 1
  LowCreditMessages = 1
  ResetSmsDelay = 0
  ReceiveTimeout = 0
  QueueSize = 2
  Inbound <- DoorAndStatus
  Credits = {"CREDIT_GOOD"}
  Faults = {}
  MaxExpiries = 1
  MaxRings = 1
  MaxReplies = 3
  MaxNotices = 3
  MaxText = 16
PROPERTIES NothingOwedAfterWaiting
