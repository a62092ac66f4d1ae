SPECIFICATION Spec
CONSTANTS
  MaxSms = 2
  InitCommands = 1
  ResetWait = 0
  CreditAttempt = 1
  LowCreditMessages = 1
  ResetSmsDelay = 0
  ReceiveTimeout = 0
  QueueSize = 2
  Inbound <- Many
  Credits = {"CREDIT_GOOD"}
  Faults = {"lost"}
  MaxExpiries = 0
  MaxRings = 1
  MaxReplies = 3
  MaxNotices = 4
  MaxText = 16
INVARIANTS TypeOK DoorMovedOnOrder AnswersInOrder
PROPERTIES ServesAsPromised SmsHandledOnceInOrder MissedSmsExplained ForgetsOnlyDeletedSms
