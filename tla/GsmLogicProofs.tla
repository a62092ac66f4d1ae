--------------------------- MODULE GsmLogicProofs ---------------------------
(* Theorems about GsmLogic, for every value of its constants. *)
EXTENDS GsmLogic, GsmTextProofs

(* The counts and bounds are numbers (the named assumptions, conjunct by conjunct). *)
LEMMA ConstantsAreNat ==
  /\ MaxSms \in Nat /\ InitCommands \in Nat \ {0} /\ CreditAttempt \in Nat \ {0}
  /\ QueueSize \in Nat \ {0} /\ ResetWait \in Nat /\ LowCreditMessages \in Nat
  /\ ResetSmsDelay \in Nat /\ ReceiveTimeout \in Nat /\ MaxExpiries \in Nat
  /\ MaxRings \in Nat
BY GsmAssumption, MaxSmsAssumption

USE ConstantsAreNat

-----------------------------------------------------------------------------
(* What the operators of GsmLogic return.                                      *)
LEMMA LesserInRange ==
  ASSUME NEW a \in Nat, NEW b \in Nat
  PROVE  Lesser(a, b) \in 0..b /\ Lesser(a, b) <= a
BY DEF Lesser

(* Push: the queue never grows beyond QueueSize, and its head stays.           *)
LEMMA PushKeepsHead ==
  ASSUME NEW q \in Seq(Messages), Len(q) <= QueueSize, NEW what \in Whats, NEW i \in 0..MaxSms
  PROVE  /\ Push(q, what, i) \in Seq(Messages) /\ Len(Push(q, what, i)) <= QueueSize
         /\ Len(q) <= Len(Push(q, what, i))
         /\ q # <<>> => Push(q, what, i) # <<>> /\ Head(Push(q, what, i)) = Head(q)
<1> DEFINE m == [what |-> what, id |-> i]
<1>1. m \in Messages
  BY DEF Messages
<1>2. CASE Len(q) < QueueSize
  <2>1. Append(q, m) \in Seq(Messages) /\ Len(Append(q, m)) = Len(q) + 1
    BY <1>1, AppendProperties
  <2>2. q # <<>> => Head(Append(q, m)) = Head(q)
    BY <1>1, HeadTailAppend
  <2>3. Append(q, m) # <<>>
    BY <1>1, AppendProperties
  <2> QED
    BY <1>2, <2>1, <2>2, <2>3 DEF Push
<1>3. CASE ~(Len(q) < QueueSize)
  BY <1>3 DEF Push
<1> QED
  BY <1>2, <1>3

(* A step that pushes at most one message.                                     *)
HeadStays ==
  /\ SmsQueue' \in Seq(Messages) /\ Len(SmsQueue) <= Len(SmsQueue')
  /\ SmsQueue # <<>> => SmsQueue' # <<>> /\ Head(SmsQueue') = Head(SmsQueue)

(* A step that pushes one message or none keeps the queue's type and its head. *)
LEMMA PushStepKeepsHead ==
  ASSUME QueueType, NEW what \in Whats, NEW i \in 0..MaxSms,
         SmsQueue' = SmsQueue \/ SmsQueue' = Push(SmsQueue, what, i)
  PROVE  QueueType' /\ HeadStays
<1>1. SmsQueue \in Seq(Messages) /\ Len(SmsQueue) \in Nat /\ Len(SmsQueue) <= QueueSize
  BY DEF QueueType
<1>2. CASE SmsQueue' = SmsQueue
  BY <1>1, <1>2 DEF QueueType, HeadStays
<1>3. CASE SmsQueue' = Push(SmsQueue, what, i)
  <2> DEFINE q == Push(SmsQueue, what, i)
  <2>1. /\ q \in Seq(Messages) /\ Len(q) <= QueueSize /\ Len(SmsQueue) <= Len(q)
        /\ SmsQueue # <<>> => q # <<>> /\ Head(q) = Head(SmsQueue)
    BY <1>1, PushKeepsHead
  <2> HIDE DEF q
  <2>2. SmsQueue' = q
    BY <1>3 DEF q
  <2> QED
    BY <2>1, <2>2 DEF QueueType, HeadStays
<1> QED
  BY <1>2, <1>3

Asked == {"Simple", "Credit", "Signal", "SendSms"}

(* Whatever its faults, the modem answers a command with reply lines only.   *)
LEMMA AnswersAreReplies ==
  ASSUME NEW command \in Asked
  PROVE  Answers(command) \subseteq Seq(Replies)
<1>1. /\ Credits \subseteq Replies
      /\ {"OK", "ERROR", "CUSD2", "CSQ", "CMGS"} \subseteq Replies
  BY GsmAssumption DEF Replies
<1>2. /\ <<>> \in Seq(Replies)
      /\ \A x \in Replies : <<x>> \in Seq(Replies)
      /\ \A x, y \in Replies : <<x, y>> \in Seq(Replies)
      /\ \A x, y, z \in Replies : <<x, y, z>> \in Seq(Replies)
  OBVIOUS
<1>3. Full(command) \subseteq Seq(Replies)
  <2>1. CASE command = "Simple"
    BY <1>1, <1>2, <2>1 DEF Full
  <2>2. CASE command = "Credit"
    <3>1. \A c \in Credits : <<"OK", c, "CUSD2">> \in Seq(Replies)
      BY <1>1, <1>2
    <3> QED
      BY <2>2, <3>1 DEF Full
  <2>3. CASE command \in {"Signal", "SendSms"}
    BY <1>1, <1>2, <2>3 DEF Full
  <2> QED
    BY <2>1, <2>2, <2>3 DEF Asked
<1>4. Truncated(command) \subseteq Seq(Replies)
  <2>1. CASE command = "Credit"
    BY <1>1, <1>2, <2>1 DEF Truncated
  <2>2. CASE command # "Credit"
    BY <1>1, <1>2, <2>2 DEF Truncated, Asked
  <2> QED
    BY <2>1, <2>2
<1> QED
  BY <1>1, <1>2, <1>3, <1>4 DEF Answers

(* SendGsmCommand leaves the modem with text to write that is a sequence of pieces. *)
LEMMA SendKeepsText ==
  ASSUME replies \in Seq(Piece), NEW command \in Asked, SendGsmCommand(command)
  PROVE  replies' \in Seq(Piece)
<1>1. PICK a \in Answers(command) :
        LET all == replies \o [i \in 1..Len(a) |-> Plain(a[i])]
        IN  replies' = IF Len(all) <= MaxReplies THEN all ELSE replies
  BY DEF SendGsmCommand
<1>2. a \in Seq(Replies)
  BY AnswersAreReplies
<1>3. \A i \in 1..Len(a) : Plain(a[i]) \in Piece
  <2> TAKE i \in 1..Len(a)
  <2>1. a[i] \in Kinds
    BY <1>2 DEF Kinds
  <2>2. 0 \in 0..MaxSms
    OBVIOUS
  <2> QED
    BY <2>1, <2>2 DEF Plain, Piece
<1>4. [i \in 1..Len(a) |-> Plain(a[i])] \in Seq(Piece)
  BY <1>2, <1>3, IsASeq
<1>5. replies \o [i \in 1..Len(a) |-> Plain(a[i])] \in Seq(Piece)
  BY <1>4, ConcatProperties
<1> QED
  BY <1>1, <1>5

(* The counter of credit attempts and the bound on expiries keep to their ranges. *)
LEMMA SettleKeepsType ==
  ASSUME MachineType, Settle
  PROVE  /\ OperatorsCreditAcquired' \in BOOLEAN /\ creditAttempt' \in 0..CreditAttempt
         /\ expiries' \in 0..MaxExpiries
<1>1. Lesser(creditAttempt + 2, CreditAttempt) \in 0..CreditAttempt
  BY LesserInRange DEF MachineType
<1>2. OperatorsCreditAcquired' \in BOOLEAN
  BY DEF Settle, MachineType
<1>3. creditAttempt' \in 0..CreditAttempt
  BY <1>1 DEF Settle, MachineType
<1>4. expiries' \in 0..MaxExpiries
  BY DEF Settle, MachineType
<1> QED
  BY <1>2, <1>3, <1>4

(* The signal strength's age is never noticed. *)
LEMMA AgedSignalStays ==
  ASSUME NEW acquired \in BOOLEAN
  PROVE  AgedSignal(acquired) = acquired
BY DEF AgedSignal

(* A report of a parser to the state machine keeps the types, and never enters *)
(* the wait after a reset.                                                     *)
LEMMA ReportKeepsType ==
  ASSUME ControlType, MachineType, QueueType, ParserOK \/ ParserFailure
  PROVE  /\ MachineType' /\ QueueType' /\ parser' \in Parsers /\ GsmLogicState' \in States
         /\ GsmLogicState' = "GSM_RESET_WAIT" => GsmLogicState = "GSM_RESET_WAIT"
<1>1. parser' \in Parsers
  BY DEF ParserOK, ParserFailure, StopWaiting, Parsers, ControlType
<1>2. /\ GsmLogicState' \in States
      /\ GsmLogicState' = "GSM_RESET_WAIT" => GsmLogicState = "GSM_RESET_WAIT"
  BY DEF ParserOK, ParserFailure, States, ControlType, Waiting, ParserOf
<1>3. QueueType'
  <2>1. SmsQueue' = SmsQueue \/ (SmsQueue # <<>> /\ SmsQueue' = Tail(SmsQueue))
    BY DEF ParserOK, ParserFailure
  <2>2. ASSUME SmsQueue # <<>>
        PROVE  Tail(SmsQueue) \in Seq(Messages) /\ Len(Tail(SmsQueue)) = Len(SmsQueue) - 1
    BY <2>2, HeadTailProperties DEF QueueType
  <2> QED
    BY <2>1, <2>2 DEF QueueType
<1>4. MachineType'
  <2>0. SignalStrengthAcquired' \in BOOLEAN
    <3>1. /\ AgedSignal(SignalStrengthAcquired) \in BOOLEAN
          /\ AgedSignal(SignalStrengthAcquired \/ GsmLogicState = "GET_SIGNAL_STRENGTH") \in BOOLEAN
      BY AgedSignalStays DEF MachineType
    <3> QED
      BY <3>1 DEF ParserOK, ParserFailure
  <2>1. CASE ParserFailure
    BY <2>0, <2>1, SettleKeepsType DEF ParserFailure, MachineType
  <2>2. CASE ParserOK
    <3>1. /\ OperatorsCreditAcquired' \in BOOLEAN /\ creditAttempt' \in 0..CreditAttempt
          /\ expiries' \in 0..MaxExpiries
      BY <2>2, SettleKeepsType, LesserInRange DEF ParserOK, MachineType
    <3> QED
      BY <2>0, <2>2, <3>1 DEF ParserOK, MachineType
  <2> QED
    BY <2>1, <2>2
<1> QED
  BY <1>1, <1>2, <1>3, <1>4

(* ReceivedOperatorCredit keeps the notice counters and the queue in range.  *)
LEMMA CreditKeepsType ==
  ASSUME NoticesType, QueueType, NEW b, ReceivedOperatorCredit(b)
  PROVE  NoticesType' /\ QueueType'
<1>1. NoticesType'
  <2>1. Lesser(lowCreditMessages + 1, LowCreditMessages + 1) \in 0..(LowCreditMessages + 1)
    BY LesserInRange DEF NoticesType
  <2>2. lowCreditMessages' \in 0..(LowCreditMessages + 1)
    <3>1. lowCreditMessages' \in {Lesser(lowCreditMessages + 1, LowCreditMessages + 1), 0}
      BY DEF ReceivedOperatorCredit
    <3> QED
      BY <2>1, <3>1
  <2>3. /\ GsmCurrentCreditAcquired' \in BOOLEAN
        /\ UNCHANGED <<ResetSmsSent, waitForSendingResetSms>>
    BY DEF ReceivedOperatorCredit
  <2> QED
    BY <2>2, <2>3 DEF NoticesType
<1>2. SmsQueue' = SmsQueue \/ SmsQueue' = Push(SmsQueue, "LOW CREDIT", 0)
  BY DEF ReceivedOperatorCredit
<1>3. QueueType'
  <2>1. "LOW CREDIT" \in Whats /\ 0 \in 0..MaxSms
    BY DEF Whats
  <2> QED
    BY <1>2, <2>1, PushStepKeepsHead
<1> QED
  BY <1>1, <1>3

-----------------------------------------------------------------------------
(* TypeOK is preserved by every handler.                                       *)
LEMMA RefusedKeepsType ==
  ASSUME TypeOK, NEW b \in Seq(Piece), Refused(b)
  PROVE  /\ dataToProcess' \in Seq(Piece) /\ MachineType' /\ QueueType' /\ ControlType'
         /\ GsmLogicState' = "GSM_RESET_WAIT" => GsmLogicState = "GSM_RESET_WAIT"
<1>1. FindError(b) \in 0..Len(b)
  BY SearchesInRange
<1>2. CASE FindError(b) # 0
  <2>1. ParserFailure /\ Keep(Cut(b, FindError(b)))
    BY <1>2 DEF Refused
  <2> QED
    BY <1>1, <2>1, CutIsSuffix, ReportKeepsType DEF TypeOK, ControlType, Keep
<1>3. CASE FindError(b) = 0
  <2>1. Silent /\ Keep(b)
    BY <1>3 DEF Refused
  <2> QED
    BY <2>1 DEF TypeOK, ControlType, MachineType, QueueType, Silent, machine, Keep
<1> QED
  BY <1>2, <1>3

(* The four parsers, and what the idle parser does first.                      *)
Parsed ==
  /\ dataToProcess' \in Seq(Piece) /\ MachineType /\ MachineType' /\ QueueType'
  /\ ControlType' /\ NoticesType'
  /\ GsmLogicState' = "GSM_RESET_WAIT" => GsmLogicState = "GSM_RESET_WAIT"

(* ParseSimple, the parser of commands answered by a plain OK.               *)
LEMMA SimpleKeepsType ==
  ASSUME TypeOK, NEW b \in Seq(Piece), ParseSimple(b)
  PROVE  Parsed
<1>1. NoticesType'
  BY DEF ParseSimple, notices, NoticesType, TypeOK
<1>2. CASE FindOk(b) # 0
  <2>1. ParserOK /\ Keep(Cut(b, FindOk(b))) /\ FindOk(b) \in 0..Len(b)
    BY <1>2, SearchesInRange DEF ParseSimple
  <2> QED
    BY <1>1, <2>1, CutIsSuffix, ReportKeepsType DEF Parsed, TypeOK, ControlType, Keep
<1>3. CASE FindOk(b) = 0
  <2>1. Refused(b)
    BY <1>3 DEF ParseSimple
  <2> QED
    BY <1>1, <2>1, RefusedKeepsType DEF Parsed, TypeOK
<1> QED
  BY <1>2, <1>3

(* A parser that reports nothing leaves state machine and queue alone.       *)
LEMMA SilentKeepsType ==
  ASSUME TypeOK, Silent
  PROVE  /\ MachineType' /\ QueueType' /\ parser' = parser /\ GsmLogicState' = GsmLogicState
BY DEF TypeOK, MachineType, QueueType, Silent, machine

(* ParseGetOperatorCreditResponse: the credit may push LOW CREDIT.           *)
LEMMA CreditParserKeepsType ==
  ASSUME TypeOK, NEW b \in Seq(Piece), ParseGetOperatorCreditResponse(b)
  PROVE  Parsed
<1>1. CASE Find(b, "CUSD2") = 0
  <2>1. Refused(b) /\ UNCHANGED notices
    BY <1>1 DEF ParseGetOperatorCreditResponse
  <2> QED
    BY <2>1, RefusedKeepsType DEF Parsed, TypeOK, notices, NoticesType
<1>2. CASE Find(b, "CUSD2") # 0 /\ FindCredit(b) # 0
  <2>1. ReceivedOperatorCredit(b) /\ UNCHANGED machine /\ Work(b, "OK")
    BY <1>2 DEF ParseGetOperatorCreditResponse
  <2>2. NoticesType' /\ QueueType'
    BY <2>1, CreditKeepsType DEF TypeOK
  <2> QED
    BY <2>1, <2>2 DEF Parsed, TypeOK, ControlType, MachineType, machine, Work
<1>3. CASE Find(b, "CUSD2") # 0 /\ FindCredit(b) = 0
  <2>1. Silent /\ Keep(b) /\ UNCHANGED notices
    BY <1>3 DEF ParseGetOperatorCreditResponse
  <2> QED
    BY <2>1, SilentKeepsType DEF Parsed, TypeOK, ControlType, NoticesType, notices, Keep
<1> QED
  BY <1>1, <1>2, <1>3

(* ParseGetSignalStrengthResponse, which drops all text when it is done.     *)
LEMMA SignalParserKeepsType ==
  ASSUME TypeOK, NEW b \in Seq(Piece), ParseGetSignalStrengthResponse(b)
  PROVE  Parsed
<1>1. NoticesType'
  BY DEF ParseGetSignalStrengthResponse, notices, NoticesType, TypeOK
<1>2. CASE FindOk(b) # 0 /\ Find(b, "CSQ") # 0
  <2>1. ParserOK /\ Keep(<<>>)
    BY <1>2 DEF ParseGetSignalStrengthResponse
  <2> QED
    BY <1>1, <2>1, ReportKeepsType DEF Parsed, TypeOK, ControlType, Keep
<1>3. CASE FindOk(b) # 0 /\ Find(b, "CSQ") = 0
  <2>1. Silent /\ Keep(Cut(b, FindOk(b))) /\ FindOk(b) \in 0..Len(b)
    BY <1>3, SearchesInRange DEF ParseGetSignalStrengthResponse
  <2> QED
    BY <1>1, <2>1, SilentKeepsType, CutIsSuffix DEF Parsed, TypeOK, ControlType, Keep
<1>4. CASE FindOk(b) = 0
  <2>1. Refused(b)
    BY <1>4 DEF ParseGetSignalStrengthResponse
  <2> QED
    BY <1>1, <2>1, RefusedKeepsType DEF Parsed, TypeOK
<1> QED
  BY <1>2, <1>3, <1>4

(* ParseSendSmsResponse, which leaves its report to the notifications loop.  *)
LEMMA SendSmsParserKeepsType ==
  ASSUME TypeOK, NEW b \in Seq(Piece), ParseSendSmsResponse(b)
  PROVE  Parsed
<1>1. NoticesType'
  BY DEF ParseSendSmsResponse, notices, NoticesType, TypeOK
<1>2. CASE Silent /\ Work(b, "OK")
  BY <1>1, <1>2, SilentKeepsType DEF Parsed, TypeOK, ControlType, Work
<1>3. CASE Refused(b)
  BY <1>1, <1>3, RefusedKeepsType DEF Parsed, TypeOK
<1> QED
  BY <1>2, <1>3 DEF ParseSendSmsResponse

(* GsmCommands_loop: the text read is appended, and one parser runs on it.   *)
LEMMA LoopKeepsType == TypeOK /\ GsmCommands_loop => TypeOK'
<1> SUFFICES ASSUME TypeOK, GsmCommands_loop PROVE TypeOK'
  OBVIOUS
<1>1. PICK n \in 1..Len(rx) :
        LET b == dataToProcess \o SubSeq(rx, 1, n)
        IN  /\ rx' = Cut(rx, n)
            /\ CASE parser = "Idle" -> Silent /\ Work(b, "Idle") /\ UNCHANGED notices
                 [] parser = "Simple"  -> ParseSimple(b)
                 [] parser = "Credit"  -> ParseGetOperatorCreditResponse(b)
                 [] parser = "Signal"  -> ParseGetSignalStrengthResponse(b)
                 [] parser = "SendSms" -> ParseSendSmsResponse(b)
  BY DEF GsmCommands_loop
<1> DEFINE b == dataToProcess \o SubSeq(rx, 1, n)
<1>2. rx \in Seq(Piece) /\ Len(rx) \in Nat /\ dataToProcess \in Seq(Piece)
  BY DEF TypeOK, TextType
<1>3. b \in Seq(Piece)
  <2>1. \A i \in 1..n : rx[i] \in Piece
    BY <1>2
  <2>2. SubSeq(rx, 1, n) \in Seq(Piece)
    BY <2>1, SubSeqProperties
  <2> QED
    BY <1>2, <2>2, ConcatProperties
<1>4. rx' \in Seq(Piece)
  BY <1>1, <1>2, CutIsSuffix
<1>5. Parsed
  <2> HIDE DEF b
  <2>1. CASE parser = "Idle"
    <3>1. Silent /\ Work(b, "Idle") /\ UNCHANGED notices
      BY <1>1, <2>1 DEF b
    <3> QED
      BY <1>3, <3>1, SilentKeepsType DEF Parsed, TypeOK, ControlType, NoticesType, notices, Work
  <2>2. CASE parser = "Simple"
    BY <1>1, <1>3, <2>2, SimpleKeepsType DEF b
  <2>3. CASE parser = "Credit"
    BY <1>1, <1>3, <2>3, CreditParserKeepsType DEF b
  <2>4. CASE parser = "Signal"
    BY <1>1, <1>3, <2>4, SignalParserKeepsType DEF b
  <2>5. CASE parser = "SendSms"
    BY <1>1, <1>3, <2>5, SendSmsParserKeepsType DEF b
  <2> QED
    BY <2>1, <2>2, <2>3, <2>4, <2>5 DEF TypeOK, ControlType, Parsers
<1>6. TextType'
  BY <1>4, <1>5 DEF TypeOK, TextType, Parsed, GsmCommands_loop
<1>7. WorldType' /\ GhostsType'
  BY DEF TypeOK, WorldType, GhostsType, GsmCommands_loop, world, ghosts
<1>8. SetupType'
  BY <1>5 DEF TypeOK, SetupType, Parsed, GsmCommands_loop, setup
<1> QED
  BY <1>5, <1>6, <1>7, <1>8 DEF TypeOK, Parsed

(* The 100 ms handler: a timeout reports a failure or ends a half-read credit. *)
LEMMA TimeoutKeepsType == TypeOK /\ GsmCommands_100msHandler => TypeOK'
<1> SUFFICES ASSUME TypeOK, GsmCommands_100msHandler PROVE TypeOK'
  OBVIOUS
<1>1. TextType' /\ WorldType' /\ GhostsType'
  BY DEF TypeOK, TextType, WorldType, GhostsType, GsmCommands_100msHandler, outside, world,
    ghosts, Keep, Work
<1>2. /\ ControlType' /\ MachineType' /\ NoticesType' /\ QueueType'
      /\ GsmLogicState' = "GSM_RESET_WAIT" => GsmLogicState = "GSM_RESET_WAIT"
  <2>1. CASE parser = "Credit" /\ FindCredit(dataToProcess) # 0
    <3>1. /\ ReceivedOperatorCredit(dataToProcess) /\ UNCHANGED machine
          /\ Work(dataToProcess, "Timeout")
      BY <2>1 DEF GsmCommands_100msHandler
    <3> QED
      BY <3>1, CreditKeepsType DEF TypeOK, ControlType, MachineType, machine, Work
  <2>2. CASE parser = "Credit" /\ FindCredit(dataToProcess) = 0
    <3>1. ParserFailure /\ Keep(dataToProcess) /\ UNCHANGED notices
      BY <2>2 DEF GsmCommands_100msHandler
    <3> QED
      BY <3>1, ReportKeepsType DEF TypeOK, ControlType, NoticesType, notices, Keep
  <2>3. CASE parser # "Credit"
    <3>1. Silent /\ Work(dataToProcess, "Timeout") /\ UNCHANGED notices
      BY <2>3 DEF GsmCommands_100msHandler
    <3> QED
      BY <3>1, SilentKeepsType DEF TypeOK, ControlType, NoticesType, notices, Work
  <2> QED
    BY <2>1, <2>2, <2>3
<1>3. SetupType'
  BY <1>2 DEF TypeOK, SetupType, GsmCommands_100msHandler, setup
<1> QED
  BY <1>1, <1>2, <1>3 DEF TypeOK

(* What the modem and the network write are pieces, within the bounds.       *)
LEMMA ModemKeepsType == TypeOK /\ Modem => TypeOK'
<1> SUFFICES ASSUME TypeOK, Modem PROVE TypeOK'
  OBVIOUS
<1>1. ControlType' /\ MachineType' /\ SetupType' /\ NoticesType' /\ QueueType' /\ GhostsType'
  <2>1. UNCHANGED <<machine, setup, notices, SmsQueue, pc, after, ghosts>>
    BY DEF Modem, ModemWrites, SmsArrives, PhoneRings
  <2>2. ControlType' /\ MachineType' /\ SetupType'
    BY <2>1 DEF TypeOK, ControlType, MachineType, SetupType, machine, setup
  <2>3. NoticesType' /\ QueueType' /\ GhostsType'
    BY <2>1 DEF TypeOK, NoticesType, QueueType, GhostsType, notices, ghosts
  <2> QED
    BY <2>2, <2>3
<1>2. UNCHANGED text
  BY DEF Modem, ModemWrites, SmsArrives, PhoneRings
<1>3. CASE ModemWrites
  <2>1. Head(replies) \in Piece /\ Tail(replies) \in Seq(Piece)
    BY <1>3, HeadTailProperties DEF TypeOK, TextType, ModemWrites
  <2>2. Append(rx, Head(replies)) \in Seq(Piece)
    BY <2>1, AppendProperties DEF TypeOK, TextType
  <2> QED
    BY <1>1, <1>2, <1>3, <2>1, <2>2 DEF TypeOK, TextType, WorldType, ModemWrites, text
<1>4. CASE SmsArrives
  <2>1. PICK s \in Inbound :
          /\ rx' = rx \o <<Header(delivered + 1, s.from), Body(delivered + 1, s.text)>>
          /\ orders' = IF s.from = "registered" /\ s.text \in {"OPEN", "CLOSE"}
                       THEN orders \cup {delivered + 1} ELSE orders
    BY <1>4 DEF SmsArrives
  <2>2. delivered' = delivered + 1 /\ delivered' \in 1..MaxSms
    BY <1>4 DEF SmsArrives, TypeOK, WorldType
  <2>3. s.from \in Senders /\ s.text \in Texts
    BY GsmAssumption
  <2>4. Header(delivered + 1, s.from) \in Piece /\ Body(delivered + 1, s.text) \in Piece
    <3>1. delivered + 1 \in 0..MaxSms
      BY <2>2
    <3> QED
      BY <2>3, <3>1 DEF Header, Body, Piece, Kinds
  <2>5. rx' \in Seq(Piece)
    BY <2>1, <2>4, ConcatProperties DEF TypeOK, TextType
  <2>6. WorldType'
    BY <1>4, <2>1, <2>2 DEF SmsArrives, TypeOK, WorldType
  <2> QED
    BY <1>1, <1>2, <1>4, <2>5, <2>6 DEF TypeOK, TextType, text, SmsArrives
<1>5. CASE PhoneRings
  <2>1. Plain("RING") \in Piece /\ Plain("CLIP") \in Piece
    BY DEF Plain, Piece, Kinds
  <2>2. rx' \in Seq(Piece)
    BY <1>5, <2>1, ConcatProperties DEF TypeOK, TextType, PhoneRings
  <2> QED
    BY <1>1, <1>2, <1>5, <2>2 DEF TypeOK, TextType, WorldType, PhoneRings, text
<1> QED
  BY <1>3, <1>4, <1>5 DEF Modem

(* An SMS handled may push an answer, and its text is cut off the buffer.    *)
LEMMA HandleSmsKeepsType == TypeOK /\ HandleSms => TypeOK'
<1> SUFFICES ASSUME TypeOK, HandleSms PROVE TypeOK'
  OBVIOUS
<1> DEFINE n == FindSms(dataToProcess)
           h == dataToProcess[n - 1]
<1>1. /\ ReceivedSmsNotification(h.id, h.from, dataToProcess[n].text)
      /\ dataToProcess' = Cut(dataToProcess, n)
      /\ handled' = h.id
      /\ UNCHANGED <<outside, receiveTimeout, heard, GsmLogicState, parser,
                     OperatorsCreditAcquired, expiries, creditAttempt, SignalStrengthAcquired,
                     TwoSecondsTimerCounter, setup, notices, after, handledAtDelete, inFlight>>
  BY DEF HandleSms
<1>2. dataToProcess \in Seq(Piece) /\ n \in 2..Len(dataToProcess) /\ Len(dataToProcess) \in Nat
  BY FindSmsIsBodyOfFirstHeader DEF HandleSms, TypeOK, TextType
<1> HIDE DEF n
<1>3. h.id \in 0..MaxSms
  <2>1. h \in Piece
    BY <1>2
  <2> QED
    BY <2>1 DEF Piece
<1>4. Cut(dataToProcess, n) \in Seq(Piece)
  BY <1>2, CutIsSuffix
<1> HIDE DEF h
<1>5. TextType' /\ WorldType' /\ SetupType' /\ NoticesType'
  BY <1>1, <1>4 DEF TypeOK, TextType, WorldType, SetupType, NoticesType, outside, world, setup,
    notices
<1>6. /\ SmsIsReceived' = TRUE /\ pc' \in {"hung", "ring"} /\ doorOrder' \in {h.id, doorOrder}
      /\ SmsQueue' = SmsQueue \/ \E what \in Whats : SmsQueue' = Push(SmsQueue, what, h.id)
  <2> DEFINE t == dataToProcess[n].text
  <2> HIDE DEF t
  <2>1. ReceivedSmsNotification(h.id, h.from, t)
    BY <1>1 DEF t
  <2>2. AnswerTo(t) \in Whats \cup {"nothing"}
    BY DEF AnswerTo, Whats
  <2>3. SmsIsReceived' = TRUE /\ pc' \in {"hung", "ring"} /\ doorOrder' \in {h.id, doorOrder}
    BY <2>1 DEF ReceivedSmsNotification
  <2>4. SmsQueue' = SmsQueue \/ \E what \in Whats : SmsQueue' = Push(SmsQueue, what, h.id)
    BY <2>1, <2>2 DEF ReceivedSmsNotification, Whats
  <2> QED
    BY <2>3, <2>4
<1>7. MachineType'
  BY <1>1, <1>6 DEF TypeOK, MachineType
<1>8. ControlType' /\ GhostsType'
  BY <1>1, <1>3, <1>6 DEF TypeOK, ControlType, GhostsType
<1>9. QueueType'
  <2>1. PICK what \in Whats :
          SmsQueue' = SmsQueue \/ SmsQueue' = Push(SmsQueue, what, h.id)
    BY <1>6 DEF Whats
  <2> QED
    BY <1>3, <2>1, PushStepKeepsHead DEF TypeOK
<1> QED
  BY <1>5, <1>7, <1>8, <1>9 DEF TypeOK

(* A call handled sends ATH and cuts the RING off the buffer.                *)
LEMMA HandleRingKeepsType == TypeOK /\ HandleRing => TypeOK'
<1> SUFFICES ASSUME TypeOK, HandleRing PROVE TypeOK'
  OBVIOUS
<1>1. dataToProcess' \in Seq(Piece)
  BY AfterRingIsText DEF HandleRing, TypeOK, TextType
<1>2. replies' \in Seq(Piece)
  BY SendKeepsText DEF HandleRing, TypeOK, TextType, Asked
<1>3. /\ UNCHANGED <<rx, world, receiveTimeout, heard, machine, setup, notices, SmsQueue,
                     after, ghosts>>
      /\ pc' \in {"loop", "sms"}
  BY DEF HandleRing
<1>4. TextType' /\ WorldType' /\ SetupType' /\ NoticesType'
  BY <1>1, <1>2, <1>3 DEF TypeOK, TextType, WorldType, SetupType, NoticesType, world, setup,
    notices, machine
<1>5. ControlType' /\ MachineType' /\ QueueType' /\ GhostsType'
  BY <1>3 DEF TypeOK, ControlType, MachineType, QueueType, GhostsType, machine, ghosts
<1> QED
  BY <1>4, <1>5 DEF TypeOK

(* The end of the notifications loop: the parser's pending report is made.   *)
LEMMA NotificationsDoneKeepsType == TypeOK /\ NotificationsDone => TypeOK'
<1> SUFFICES ASSUME TypeOK, NotificationsDone PROVE TypeOK'
  OBVIOUS
<1>1. /\ dataToProcess' \in Seq(Piece) /\ MachineType' /\ QueueType' /\ ControlType'
      /\ GsmLogicState' = "GSM_RESET_WAIT" => GsmLogicState = "GSM_RESET_WAIT"
  <2>1. pc' = "loop" /\ after' = "Idle"
    BY DEF NotificationsDone
  <2>2. CASE after = "Idle"
    <3>1. Silent /\ UNCHANGED dataToProcess
      BY <2>2 DEF NotificationsDone
    <3> QED
      BY <2>1, <3>1, SilentKeepsType DEF TypeOK, ControlType, TextType
  <2>3. CASE after = "OK" \/ after = "Timeout"
    <3>1. (ParserOK \/ ParserFailure) /\ dataToProcess' = <<>>
      BY <2>3 DEF NotificationsDone
    <3> QED
      BY <2>1, <3>1, ReportKeepsType DEF TypeOK, ControlType
  <2> QED
    BY <2>2, <2>3 DEF TypeOK, ControlType
<1>2. UNCHANGED <<outside, receiveTimeout, heard, setup, notices, ghosts>>
  BY DEF NotificationsDone
<1>3. TextType' /\ WorldType' /\ SetupType' /\ NoticesType' /\ GhostsType'
  BY <1>1, <1>2 DEF TypeOK, TextType, WorldType, SetupType, NoticesType, GhostsType, outside,
    world, setup, notices, ghosts
<1> QED
  BY <1>1, <1>3 DEF TypeOK

(* A step that only moves the program counter.                               *)
LEMMA StutterKeepsType ==
  ASSUME TypeOK,
         UNCHANGED <<outside, text, machine, setup, notices, SmsQueue, after, ghosts>>,
         pc' \in {"loop", "poll", "sms", "ring", "hung"}
  PROVE  TypeOK'
<1>1. TextType' /\ WorldType' /\ SetupType' /\ NoticesType'
  BY DEF TypeOK, TextType, WorldType, SetupType, NoticesType, outside, text, world, setup,
    notices, machine
<1>2. ControlType' /\ MachineType' /\ QueueType' /\ GhostsType'
  BY DEF TypeOK, ControlType, MachineType, QueueType, GhostsType, machine, ghosts
<1> QED
  BY <1>1, <1>2 DEF TypeOK

-----------------------------------------------------------------------------
(* The 1 s handler.  Second is what all its cases share.                       *)
LEMMA SecondKeepsType ==
  ASSUME TypeOK, NEW reinit \in BOOLEAN, Second(reinit)
  PROVE  /\ rx' \in Seq(Piece) /\ dataToProcess' \in Seq(Piece)
         /\ receiveTimeout' \in 0..(ReceiveTimeout + 1)
         /\ waitForSendingResetSms' \in 0..(ResetSmsDelay + 1) /\ ResetSmsSent' \in BOOLEAN
         /\ QueueType' /\ WorldType' /\ pc' = "poll" /\ after' \in {"Idle", "OK", "Timeout"}
         /\ handled' \in 0..MaxSms /\ doorOrder' \in 0..MaxSms
         /\ HeadStays
<1>1. /\ pc' = "poll" /\ rx' \in Seq(Piece) /\ WorldType' /\ after' \in {"Idle", "OK", "Timeout"}
      /\ handled' \in 0..MaxSms /\ doorOrder' \in 0..MaxSms
  BY DEF Second, world, TypeOK, TextType, WorldType, ControlType, GhostsType
<1>2. dataToProcess' \in Seq(Piece)
  BY DEF Second, PurgeStaleText, TypeOK, TextType
<1>3. receiveTimeout' \in 0..(ReceiveTimeout + 1)
  <2>1. Lesser(receiveTimeout + 1, ReceiveTimeout + 1) \in 0..(ReceiveTimeout + 1)
    <3>1. receiveTimeout + 1 \in Nat /\ ReceiveTimeout + 1 \in Nat
      BY DEF TypeOK, TextType
    <3> QED
      BY <3>1, LesserInRange
  <2>2. receiveTimeout' \in {0, Lesser(receiveTimeout + 1, ReceiveTimeout + 1)}
    BY DEF Second, PurgeStaleText
  <2> QED
    BY <2>1, <2>2
<1>4. waitForSendingResetSms' \in 0..(ResetSmsDelay + 1)
  <2>1. Lesser(waitForSendingResetSms + 1, ResetSmsDelay + 1) \in 0..(ResetSmsDelay + 1)
    BY LesserInRange DEF TypeOK, NoticesType
  <2>2. waitForSendingResetSms' = Lesser(waitForSendingResetSms + 1, ResetSmsDelay + 1)
    BY DEF Second, ResetMessage
  <2> QED
    BY <2>1, <2>2
<1>5. ResetSmsSent' \in BOOLEAN
  BY DEF Second, ResetMessage
<1>6. QueueType' /\ HeadStays
  <2>1. SmsQueue' = SmsQueue \/ SmsQueue' = Push(SmsQueue, "RESET OCCURED", 0)
    BY DEF Second, ResetMessage
  <2>2. "RESET OCCURED" \in Whats /\ 0 \in 0..MaxSms
    BY DEF Whats
  <2> QED
    BY <2>1, <2>2, PushStepKeepsHead DEF TypeOK
<1> QED
  BY <1>1, <1>2, <1>3, <1>4, <1>5, <1>6

(* An even second: what GLSM_A_2sTick shares in all its states.              *)
LEMMA TickKeepsType ==
  ASSUME TypeOK, Tick
  PROVE  /\ NoticesType' /\ QueueType' /\ WorldType' /\ pc' = "poll"
         /\ TwoSecondsTimerCounter' = 0 /\ SmsIsReceived' \in BOOLEAN
         /\ SignalStrengthAcquired' \in BOOLEAN
<1>1. Second(FALSE) /\ TwoSecondsTimerCounter' = 0
  BY DEF Tick
<1>2. /\ waitForSendingResetSms' \in 0..(ResetSmsDelay + 1) /\ ResetSmsSent' \in BOOLEAN
      /\ QueueType' /\ WorldType' /\ pc' = "poll"
  BY <1>1, SecondKeepsType
<1>3. UNCHANGED <<GsmCurrentCreditAcquired, lowCreditMessages, SmsIsReceived>>
  BY DEF Tick
<1>4. SignalStrengthAcquired' = SignalStrengthAcquired
  BY AgedSignalStays DEF Tick, TypeOK, MachineType
<1> QED
  BY <1>1, <1>2, <1>3, <1>4 DEF TypeOK, NoticesType, MachineType

(* A tick that leaves the modem alone, and one that sends it a command.         *)
LEMMA QuietTickKeepsType ==
  ASSUME TypeOK, Tick, Settle, UNCHANGED <<replies, heard, handledAtDelete, inFlight>>,
         parser' \in Parsers, GsmLogicState' \in States, SetupType'
  PROVE  TypeOK'
<1>1. Second(FALSE)
  BY DEF Tick
<1>2. TextType' /\ GhostsType' /\ ControlType'
  BY <1>1, SecondKeepsType DEF TypeOK, TextType, GhostsType, ControlType
<1>3. MachineType'
  BY TickKeepsType, SettleKeepsType DEF TypeOK, MachineType
<1> QED
  BY <1>2, <1>3, TickKeepsType DEF TypeOK

(* A tick that sends a command, and waits for its answer.                    *)
LEMMA CommandTickKeepsType ==
  ASSUME TypeOK, Tick, NEW next \in Waiting, NEW kind \in Asked, Command(next, kind),
         OperatorsCreditAcquired' \in BOOLEAN, creditAttempt' \in 0..CreditAttempt,
         expiries' \in 0..MaxExpiries, handledAtDelete' \in 0..MaxSms, inFlight' \in Messages,
         initCommand' \in 0..InitCommands, UNCHANGED GsmSM_counter
  PROVE  TypeOK'
<1>1. Second(FALSE)
  BY DEF Tick
<1>2. replies' \in Seq(Piece) /\ heard' \in BOOLEAN
  BY SendKeepsText DEF Command, TypeOK, TextType
<1>3. TextType' /\ GhostsType'
  BY <1>1, <1>2, SecondKeepsType DEF TextType, GhostsType
<1>4. parser' \in Parsers /\ GsmLogicState' \in States /\ GsmLogicState' # "GSM_RESET_WAIT"
  BY DEF Command, Parsers, States, Asked, Waiting, ParserOf
<1>5. ControlType' /\ SetupType'
  BY <1>1, <1>4, SecondKeepsType DEF ControlType, SetupType, TypeOK
<1>6. MachineType'
  BY TickKeepsType DEF MachineType
<1> QED
  BY <1>3, <1>5, <1>6, TickKeepsType DEF TypeOK

(* An odd second does no more than the purge and the RESET OCCURED message.  *)
LEMMA OddSecondKeepsType == TypeOK /\ OddSecond => TypeOK'
<1> SUFFICES ASSUME TypeOK, OddSecond PROVE TypeOK'
  OBVIOUS
<1>1. Second(FALSE)
  BY DEF OddSecond
<1>2. TextType' /\ WorldType' /\ QueueType'
  BY <1>1, SecondKeepsType DEF OddSecond, TypeOK, TextType
<1>3. ControlType'
  BY <1>1, SecondKeepsType DEF OddSecond, TypeOK, ControlType
<1>5. SetupType'
  BY DEF OddSecond, TypeOK, SetupType, setup
<1>6. MachineType'
  BY DEF OddSecond, TypeOK, MachineType
<1>4. NoticesType' /\ GhostsType'
  BY <1>1, SecondKeepsType DEF OddSecond, TypeOK, NoticesType, GhostsType
<1> QED
  BY <1>2, <1>3, <1>4, <1>5, <1>6 DEF TypeOK

(* GLSM_S_ERROR: GsmLogic_InternalInit sets everything to its first value.   *)
LEMMA TickErrorKeepsType == TypeOK /\ TickError => TypeOK'
<1> SUFFICES ASSUME TypeOK, TickError PROVE TypeOK'
  OBVIOUS
<1>1. Second(TRUE)
  BY DEF TickError
<1>2. /\ rx' \in Seq(Piece) /\ dataToProcess' \in Seq(Piece)
      /\ receiveTimeout' \in 0..(ReceiveTimeout + 1)
      /\ waitForSendingResetSms' \in 0..(ResetSmsDelay + 1) /\ ResetSmsSent' \in BOOLEAN
      /\ QueueType' /\ WorldType' /\ pc' = "poll" /\ after' \in {"Idle", "OK", "Timeout"}
      /\ handled' \in 0..MaxSms /\ doorOrder' \in 0..MaxSms
  BY <1>1, SecondKeepsType
<1>3. /\ replies' = <<>> /\ GsmLogicState' = "GSM_RESET_WAIT" /\ parser' = "Idle"
      /\ TwoSecondsTimerCounter' = 0 /\ GsmSM_counter' = 0
      /\ lowCreditMessages' = 0 /\ creditAttempt' = CreditAttempt
      /\ UNCHANGED <<heard, expiries, initCommand, handledAtDelete, inFlight>>
  BY DEF TickError
<1>4. /\ SmsIsReceived' = FALSE /\ OperatorsCreditAcquired' = FALSE
      /\ SignalStrengthAcquired' = FALSE /\ GsmCurrentCreditAcquired' = FALSE
  BY DEF TickError
<1>5. TextType' /\ GhostsType'
  BY <1>2, <1>3 DEF TypeOK, TextType, GhostsType
<1>6. ControlType' /\ SetupType'
  BY <1>2, <1>3 DEF TypeOK, ControlType, SetupType, Parsers, States
<1>7. /\ SmsIsReceived' \in BOOLEAN /\ OperatorsCreditAcquired' \in BOOLEAN
      /\ SignalStrengthAcquired' \in BOOLEAN /\ GsmCurrentCreditAcquired' \in BOOLEAN
  BY <1>4
<1>8. MachineType'
  <2>1. /\ creditAttempt' \in 0..CreditAttempt /\ TwoSecondsTimerCounter' \in 0..1
        /\ expiries' \in 0..MaxExpiries
    BY <1>3 DEF TypeOK, MachineType
  <2> QED
    BY <1>7, <2>1 DEF MachineType
<1>9. NoticesType'
  <2>1. lowCreditMessages' \in 0..(LowCreditMessages + 1)
    BY <1>3
  <2> QED
    BY <1>2, <1>7, <2>1 DEF NoticesType
<1> QED
  BY <1>2, <1>5, <1>6, <1>8, <1>9 DEF TypeOK

(* GLSM_S_GSM_RESET_WAIT: its counter stops as it passes ResetWait.          *)
LEMMA TickResetWaitKeepsType == TypeOK /\ TickResetWait => TypeOK'
<1> SUFFICES ASSUME TypeOK, TickResetWait PROVE TypeOK'
  OBVIOUS
<1>1. parser' \in Parsers /\ GsmLogicState' \in States
  BY DEF TickResetWait, TypeOK, ControlType, Parsers, States
<1>2. SetupType'
  BY DEF TickResetWait, TypeOK, SetupType
<1> QED
  BY <1>1, <1>2, QuietTickKeepsType DEF TickResetWait

(* The ticks on which the state machine has nothing to send.                 *)
LEMMA QuietTicksKeepType == TypeOK /\ (TickNothingToDo \/ TickWaiting) => TypeOK'
<1> SUFFICES ASSUME TypeOK, TickNothingToDo \/ TickWaiting PROVE TypeOK'
  OBVIOUS
<1>1. /\ Tick /\ Settle /\ UNCHANGED <<parser, replies, heard, setup, handledAtDelete, inFlight>>
      /\ GsmLogicState' \in {"IDLE", GsmLogicState}
  BY DEF TickNothingToDo, TickWaiting
<1>2. parser' \in Parsers /\ GsmLogicState' \in States
  BY <1>1 DEF TypeOK, ControlType, States
<1>3. SetupType'
  BY <1>1 DEF TypeOK, SetupType, setup
<1> QED
  BY <1>1, <1>2, <1>3, QuietTickKeepsType

(* The six ticks that send a command.                                        *)
LEMMA CommandTicksKeepType ==
  TypeOK /\ (TickInit \/ TickNextInitCommand \/ TickDeleteSms \/ TickGetCredit
             \/ TickGetSignalStrength \/ TickSendSms) => TypeOK'
<1> SUFFICES ASSUME TypeOK,
                    TickInit \/ TickNextInitCommand \/ TickDeleteSms \/ TickGetCredit
                      \/ TickGetSignalStrength \/ TickSendSms
             PROVE  TypeOK'
  OBVIOUS
<1>1. /\ Waiting = {"SIMPLE_INIT_AT_SENT", "GET_CREDIT", "GET_SIGNAL_STRENGTH",
                    "WAIT_SMS_DELETE", "WAIT_SMS_SEND_CONFIRMATION"}
      /\ initCommand \in 0..InitCommands /\ handled \in 0..MaxSms
      /\ handledAtDelete \in 0..MaxSms /\ inFlight \in Messages
      /\ SmsQueue # <<>> => Head(SmsQueue) \in Messages
  BY HeadTailProperties DEF Waiting, ParserOf, TypeOK, SetupType, GhostsType, QueueType
<1>2. MachineType
  BY DEF TypeOK
<1>3. CASE TickInit
  BY <1>1, <1>2, <1>3, SettleKeepsType, CommandTickKeepsType DEF TickInit, Asked
<1>4. CASE TickNextInitCommand
  <2>1. initCommand' \in 0..InitCommands
    BY <1>1, <1>4 DEF TickNextInitCommand
  <2> QED
    BY <1>1, <1>2, <1>4, <2>1, SettleKeepsType, CommandTickKeepsType
      DEF TickNextInitCommand, Asked
<1>5. CASE TickDeleteSms
  BY <1>1, <1>2, <1>5, SettleKeepsType, CommandTickKeepsType DEF TickDeleteSms, Asked, setup
<1>6. CASE TickGetCredit
  <2>1. /\ OperatorsCreditAcquired' \in BOOLEAN /\ creditAttempt' \in 0..CreditAttempt
        /\ expiries' \in 0..MaxExpiries
    BY <1>2, <1>6 DEF TickGetCredit, MachineType
  <2> QED
    BY <1>1, <1>6, <2>1, CommandTickKeepsType DEF TickGetCredit, Asked, setup
<1>7. CASE TickGetSignalStrength
  BY <1>1, <1>2, <1>7, SettleKeepsType, CommandTickKeepsType
    DEF TickGetSignalStrength, Asked, setup
<1>8. CASE TickSendSms
  BY <1>1, <1>2, <1>8, SettleKeepsType, CommandTickKeepsType DEF TickSendSms, Asked, setup
<1> QED
  BY <1>3, <1>4, <1>5, <1>6, <1>7, <1>8

(* Power-up.                                                                 *)
LEMMA InitIsTyped == Init => TypeOK
<1> SUFFICES ASSUME Init PROVE TypeOK
  OBVIOUS
<1>1. /\ replies = <<>> /\ rx = <<>> /\ dataToProcess = <<>> /\ SmsQueue = <<>> /\ orders = {}
      /\ receiveTimeout = 0 /\ initCommand = 0 /\ GsmSM_counter = 0
      /\ TwoSecondsTimerCounter = 0 /\ creditAttempt = CreditAttempt
      /\ lowCreditMessages = 0 /\ waitForSendingResetSms = 0 /\ expiries = 0
      /\ delivered = 0 /\ rung = 0 /\ handled = 0 /\ handledAtDelete = 0 /\ doorOrder = 0
      /\ pc = "loop" /\ after = "Idle" /\ parser = "Idle" /\ GsmLogicState = "ERROR"
  BY DEF Init
<1>2. /\ SmsIsReceived \in BOOLEAN /\ OperatorsCreditAcquired \in BOOLEAN
      /\ SignalStrengthAcquired \in BOOLEAN /\ GsmCurrentCreditAcquired \in BOOLEAN
      /\ ResetSmsSent \in BOOLEAN /\ heard \in BOOLEAN
  BY DEF Init
<1>3. TextType /\ WorldType /\ ControlType
  BY <1>1, <1>2 DEF TextType, WorldType, ControlType, Parsers, States
<1>4. SetupType /\ QueueType /\ GhostsType
  <2>1. inFlight \in Messages
    <3>1. inFlight = [what |-> "RESET OCCURED", id |-> 0]
      BY DEF Init
    <3>2. "RESET OCCURED" \in Whats /\ 0 \in 0..MaxSms
      BY DEF Whats
    <3> QED
      BY <3>1, <3>2 DEF Messages
  <2> QED
    BY <1>1, <2>1 DEF SetupType, QueueType, GhostsType
<1>5. MachineType /\ NoticesType
  <2>1. /\ creditAttempt \in 0..CreditAttempt /\ TwoSecondsTimerCounter \in 0..1
        /\ expiries \in 0..MaxExpiries /\ lowCreditMessages \in 0..(LowCreditMessages + 1)
        /\ waitForSendingResetSms \in 0..(ResetSmsDelay + 1)
    BY <1>1
  <2> QED
    BY <1>2, <2>1 DEF MachineType, NoticesType
<1> QED
  BY <1>3, <1>4, <1>5 DEF TypeOK

(* The restart by the task watchdog: the values of power-up again.           *)
LEMMA RestartKeepsType == TypeOK /\ WatchdogRestart => TypeOK'
<1> SUFFICES ASSUME TypeOK, WatchdogRestart PROVE TypeOK'
  OBVIOUS
<1>1. /\ replies' = <<>> /\ rx' = <<>> /\ dataToProcess' = <<>> /\ SmsQueue' = <<>>
      /\ receiveTimeout' = 0 /\ initCommand' = 0 /\ GsmSM_counter' = 0
      /\ TwoSecondsTimerCounter' = 0 /\ creditAttempt' = CreditAttempt
      /\ lowCreditMessages' = 0 /\ waitForSendingResetSms' = 0
      /\ pc' = "loop" /\ after' = "Idle" /\ parser' = "Idle" /\ GsmLogicState' = "ERROR"
      /\ UNCHANGED <<world, expiries, ghosts>>
  BY DEF WatchdogRestart
<1>2. /\ SmsIsReceived' = FALSE /\ OperatorsCreditAcquired' = FALSE
      /\ SignalStrengthAcquired' = FALSE /\ GsmCurrentCreditAcquired' = FALSE
      /\ ResetSmsSent' = FALSE /\ heard' = FALSE
  BY DEF WatchdogRestart
<1>3. /\ SmsIsReceived' \in BOOLEAN /\ OperatorsCreditAcquired' \in BOOLEAN
      /\ SignalStrengthAcquired' \in BOOLEAN /\ GsmCurrentCreditAcquired' \in BOOLEAN
      /\ ResetSmsSent' \in BOOLEAN /\ heard' \in BOOLEAN
  BY <1>2
<1>4. TextType' /\ WorldType' /\ ControlType'
  BY <1>1, <1>3 DEF TypeOK, TextType, WorldType, ControlType, Parsers, States, world
<1>5. SetupType' /\ QueueType' /\ GhostsType'
  BY <1>1 DEF TypeOK, SetupType, QueueType, GhostsType, ghosts
<1>6. MachineType' /\ NoticesType'
  <2>1. /\ creditAttempt' \in 0..CreditAttempt /\ TwoSecondsTimerCounter' \in 0..1
        /\ expiries' \in 0..MaxExpiries /\ lowCreditMessages' \in 0..(LowCreditMessages + 1)
        /\ waitForSendingResetSms' \in 0..(ResetSmsDelay + 1)
    BY <1>1 DEF TypeOK, MachineType
  <2> QED
    BY <1>3, <2>1 DEF MachineType, NoticesType
<1> QED
  BY <1>4, <1>5, <1>6 DEF TypeOK

(* TypeOK is inductive as it stands: each handler by its lemma above.        *)
LEMMA TypeInductive == TypeOK /\ [Next]_vars => TypeOK'
<1> SUFFICES ASSUME TypeOK, [Next]_vars PROVE TypeOK'
  OBVIOUS
<1>1. CASE Modem
  BY <1>1, ModemKeepsType
<1>2. CASE GsmCommands_loop
  BY <1>2, LoopKeepsType
<1>3. CASE NothingArrived \/ NoRing \/ UNCHANGED vars
  BY <1>3, StutterKeepsType DEF NothingArrived, NoRing, vars, TypeOK, ControlType
<1>4. CASE HandleSms \/ HandleRing \/ NotificationsDone
  BY <1>4, HandleSmsKeepsType, HandleRingKeepsType, NotificationsDoneKeepsType
<1>5. CASE GsmCommands_100msHandler
  BY <1>5, TimeoutKeepsType
<1>6. CASE GsmLogic_1sHandler
  BY <1>6, OddSecondKeepsType, TickErrorKeepsType, TickResetWaitKeepsType, QuietTicksKeepType,
    CommandTicksKeepType DEF GsmLogic_1sHandler
<1>7. CASE WatchdogRestart
  BY <1>7, RestartKeepsType
<1> QED
  BY <1>1, <1>2, <1>3, <1>4, <1>5, <1>6, <1>7 DEF Next, Notifications

(* Every variable keeps to its range: the queue of outgoing SMSs never holds   *)
(* more than QueueSize messages, and no search of a parser leaves the text.    *)
THEOREM TypeCorrect == Spec => []TypeOK
<1> QED
  BY InitIsTyped, TypeInductive, PTL DEF Spec

-----------------------------------------------------------------------------
(* ParserMatchesState is inductive together with the types: every action that  *)
(* enters or leaves a waiting state of GsmLogic.ino switches the parser of      *)
(* GsmCommands.ino in the same step.                                           *)
LEMMA ReportKeepsParser ==
  ASSUME ParserMatchesState, ParserOK \/ ParserFailure
  PROVE  ParserMatchesState'
BY DEF ParserMatchesState, ParserOK, ParserFailure, StopWaiting, Waiting, ParserOf

(* GsmCommands_loop calls the parser that is in use.                           *)
LEMMA LoopCases ==
  ASSUME TypeOK, GsmCommands_loop
  PROVE  \E b : \/ Silent
                \/ parser = "Simple" /\ ParseSimple(b)
                \/ parser = "Credit" /\ ParseGetOperatorCreditResponse(b)
                \/ parser = "Signal" /\ ParseGetSignalStrengthResponse(b)
                \/ parser = "SendSms" /\ ParseSendSmsResponse(b)
<1>1. PICK n \in 1..Len(rx) :
        LET b == dataToProcess \o SubSeq(rx, 1, n)
        IN  CASE parser = "Idle" -> Silent /\ Work(b, "Idle") /\ UNCHANGED notices
              [] parser = "Simple"  -> ParseSimple(b)
              [] parser = "Credit"  -> ParseGetOperatorCreditResponse(b)
              [] parser = "Signal"  -> ParseGetSignalStrengthResponse(b)
              [] parser = "SendSms" -> ParseSendSmsResponse(b)
  BY DEF GsmCommands_loop
<1> QED
  BY <1>1 DEF TypeOK, ControlType, Parsers

(* What one pass of GsmCommands_loop may do to the state machine and the queue. *)
LEMMA LoopReportsOrNot ==
  ASSUME TypeOK, GsmCommands_loop
  PROVE  \/ ParserOK /\ parser # "SendSms"
         \/ ParserFailure
         \/ Silent
         \/ UNCHANGED machine /\ \E b : ReceivedOperatorCredit(b)
BY LoopCases DEF ParseSimple, ParseGetOperatorCreditResponse, ParseGetSignalStrengthResponse,
  ParseSendSmsResponse, Refused

(* Every handler keeps the parser and the state in step.                     *)
LEMMA ParserMatchesStateInductive ==
  TypeOK /\ ParserMatchesState /\ [Next]_vars => ParserMatchesState'
<1> SUFFICES ASSUME TypeOK, ParserMatchesState, [Next]_vars
             PROVE  ParserMatchesState'
  OBVIOUS
<1>1. ASSUME UNCHANGED <<GsmLogicState, parser>>
      PROVE  ParserMatchesState'
  BY <1>1 DEF ParserMatchesState
<1>2. CASE Modem \/ NothingArrived \/ HandleSms \/ HandleRing \/ NoRing
  BY <1>1, <1>2 DEF Modem, ModemWrites, SmsArrives, PhoneRings, NothingArrived, HandleSms,
    HandleRing, NoRing, machine
<1>3. CASE GsmCommands_loop
  BY <1>1, <1>3, LoopReportsOrNot, ReportKeepsParser DEF Silent, machine
<1>4. CASE NotificationsDone
  <2>1. ParserOK \/ ParserFailure \/ Silent
    BY <1>4 DEF NotificationsDone, TypeOK, ControlType
  <2> QED
    BY <1>1, <2>1, ReportKeepsParser DEF Silent, machine
<1>5. CASE GsmCommands_100msHandler
  <2>1. ParserFailure \/ Silent \/ UNCHANGED machine
    BY <1>5 DEF GsmCommands_100msHandler
  <2> QED
    BY <1>1, <2>1, ReportKeepsParser DEF Silent, machine
<1>6. CASE GsmLogic_1sHandler
  <2>1. CASE OddSecond \/ TickWaiting
    BY <1>1, <2>1 DEF OddSecond, TickWaiting
  <2>2. CASE TickError \/ TickResetWait
    BY <1>1, <2>2 DEF TickError, TickResetWait, ParserMatchesState, Waiting, ParserOf
  <2>3. CASE TickNothingToDo
    BY <2>3 DEF TickNothingToDo, Idle, CanSendAtCommand, ParserMatchesState, Waiting, ParserOf
  <2>4. ASSUME NEW next \in Waiting, Command(next, ParserOf[next])
        PROVE  ParserMatchesState'
    BY <2>4 DEF Command, ParserMatchesState
  <2>5. CASE TickInit \/ TickNextInitCommand
    BY <2>4, <2>5 DEF TickInit, TickNextInitCommand, Waiting, ParserOf
  <2>6. CASE TickDeleteSms \/ TickGetCredit
    BY <2>4, <2>6 DEF TickDeleteSms, TickGetCredit, Waiting, ParserOf
  <2>7. CASE TickGetSignalStrength \/ TickSendSms
    BY <2>4, <2>7 DEF TickGetSignalStrength, TickSendSms, Waiting, ParserOf
  <2> QED
    BY <1>6, <2>1, <2>2, <2>3, <2>5, <2>6, <2>7 DEF GsmLogic_1sHandler
<1>7. CASE WatchdogRestart
  BY <1>7 DEF WatchdogRestart, ParserMatchesState, Waiting, ParserOf
<1>8. CASE UNCHANGED vars
  BY <1>1, <1>8 DEF vars, machine
<1> QED
  BY <1>2, <1>3, <1>4, <1>5, <1>6, <1>7, <1>8 DEF Next, Notifications

(* The parser in use is always the one GsmLogicState waits with: no reply is   *)
(* read by a parser that does not know it.                                     *)
THEOREM ParserAlwaysMatchesState == Spec => []ParserMatchesState
<1>1. Init => ParserMatchesState
  BY DEF Init, ParserMatchesState, Waiting, ParserOf
<1> QED
  BY <1>1, InitIsTyped, TypeInductive, ParserMatchesStateInductive, PTL DEF Spec

-----------------------------------------------------------------------------
(* The message in flight stays at the head of the queue: pushes go to the      *)
(* other end, and only a report of the send command ends the wait.             *)
LEMMA ReportEndsWait ==
  ASSUME ParserOK \/ ParserFailure
  PROVE  GsmLogicState' # "WAIT_SMS_SEND_CONFIRMATION"
BY DEF ParserOK, ParserFailure, Waiting, ParserOf

(* A LOW CREDIT message goes behind the message in flight.                   *)
LEMMA CreditKeepsHead ==
  ASSUME TypeOK, NEW b, ReceivedOperatorCredit(b)
  PROVE  HeadStays
<1>1. SmsQueue' = SmsQueue \/ SmsQueue' = Push(SmsQueue, "LOW CREDIT", 0)
  BY DEF ReceivedOperatorCredit
<1>2. "LOW CREDIT" \in Whats /\ 0 \in 0..MaxSms
  BY DEF Whats
<1> QED
  BY <1>1, <1>2, PushStepKeepsHead DEF TypeOK

(* The answer to an SMS goes behind the message in flight.                   *)
LEMMA HandleSmsKeepsHead ==
  ASSUME TypeOK, HandleSms
  PROVE  HeadStays
<1> DEFINE n == FindSms(dataToProcess)
           h == dataToProcess[n - 1]
           t == dataToProcess[n].text
<1>1. ReceivedSmsNotification(h.id, h.from, t)
  BY DEF HandleSms
<1>2. h.id \in 0..MaxSms
  <2>1. dataToProcess \in Seq(Piece) /\ n \in 2..Len(dataToProcess)
    BY FindSmsIsBodyOfFirstHeader DEF HandleSms, TypeOK, TextType
  <2> HIDE DEF n
  <2>2. h \in Piece
    BY <2>1
  <2> QED
    BY <2>2 DEF Piece
<1> HIDE DEF n, h, t
<1>3. AnswerTo(t) \in Whats \cup {"nothing"}
  BY DEF AnswerTo, Whats
<1>4. SmsQueue' = SmsQueue \/ \E what \in Whats : SmsQueue' = Push(SmsQueue, what, h.id)
  BY <1>1, <1>3 DEF ReceivedSmsNotification, Whats
<1>5. PICK what \in Whats : SmsQueue' = SmsQueue \/ SmsQueue' = Push(SmsQueue, what, h.id)
  BY <1>4 DEF Whats
<1> QED
  BY <1>2, <1>5, PushStepKeepsHead DEF TypeOK

(* Only TickSendSms enters the wait, and there inFlight is the head by definition. *)
LEMMA InFlightIsHeadInductive ==
  TypeOK /\ InFlightIsHead /\ [Next]_vars => InFlightIsHead'
<1> SUFFICES ASSUME TypeOK, InFlightIsHead, [Next]_vars
             PROVE  InFlightIsHead'
  OBVIOUS
<1>1. ASSUME UNCHANGED <<GsmLogicState, inFlight>>, HeadStays
      PROVE  InFlightIsHead'
  BY <1>1 DEF InFlightIsHead, HeadStays
<1>2. ASSUME UNCHANGED SmsQueue
      PROVE  HeadStays
  BY <1>2 DEF HeadStays, TypeOK, QueueType
<1>3. ASSUME ParserOK \/ ParserFailure
      PROVE  InFlightIsHead'
  BY <1>3, ReportEndsWait DEF InFlightIsHead
<1>4. ASSUME GsmLogicState' # "WAIT_SMS_SEND_CONFIRMATION"
      PROVE  InFlightIsHead'
  BY <1>4 DEF InFlightIsHead
<1>5. CASE Modem \/ NothingArrived \/ HandleRing \/ NoRing \/ UNCHANGED vars
  <2>1. UNCHANGED <<GsmLogicState, inFlight, SmsQueue>>
    BY <1>5 DEF Modem, ModemWrites, SmsArrives, PhoneRings, NothingArrived, HandleRing, NoRing,
      vars, machine, ghosts
  <2> QED
    BY <1>1, <1>2, <2>1
<1>6. CASE HandleSms
  <2>1. UNCHANGED <<GsmLogicState, inFlight>>
    BY <1>6 DEF HandleSms
  <2> QED
    BY <1>1, <1>6, <2>1, HandleSmsKeepsHead
<1>7. CASE GsmCommands_loop
  <2>1. UNCHANGED inFlight
    BY <1>7 DEF GsmCommands_loop, ghosts
  <2> QED
    BY <1>1, <1>2, <1>3, <1>7, <2>1, LoopReportsOrNot, CreditKeepsHead DEF Silent, machine
<1>8. CASE NotificationsDone
  <2>1. ParserOK \/ ParserFailure \/ Silent
    BY <1>8 DEF NotificationsDone, TypeOK, ControlType
  <2>2. UNCHANGED inFlight
    BY <1>8 DEF NotificationsDone, ghosts
  <2> QED
    BY <1>1, <1>2, <1>3, <2>1, <2>2 DEF Silent, machine
<1>9. CASE GsmCommands_100msHandler
  <2>1. \/ ParserFailure \/ Silent
        \/ UNCHANGED machine /\ ReceivedOperatorCredit(dataToProcess)
    BY <1>9 DEF GsmCommands_100msHandler
  <2>2. UNCHANGED inFlight
    BY <1>9 DEF GsmCommands_100msHandler, ghosts
  <2> QED
    BY <1>1, <1>2, <1>3, <2>1, <2>2, CreditKeepsHead DEF Silent, machine
<1>10. CASE GsmLogic_1sHandler
  <2>1. ASSUME NEW reinit \in BOOLEAN, Second(reinit)
        PROVE  HeadStays
    BY <2>1, SecondKeepsType
  <2>2. CASE OddSecond \/ TickWaiting
    BY <1>1, <2>1, <2>2 DEF OddSecond, TickWaiting, Tick
  <2>3. CASE TickError \/ TickInit \/ TickNextInitCommand \/ TickNothingToDo
    BY <1>4, <2>3 DEF TickError, TickInit, TickNextInitCommand, TickNothingToDo, Command
  <2>4. CASE TickResetWait
    BY <1>4, <2>4 DEF TickResetWait
  <2>5. CASE TickDeleteSms \/ TickGetCredit \/ TickGetSignalStrength
    BY <1>4, <2>5 DEF TickDeleteSms, TickGetCredit, TickGetSignalStrength, Command
  <2>6. CASE TickSendSms
    <3>1. SmsQueue # <<>> /\ inFlight' = Head(SmsQueue) /\ HeadStays
      BY <2>1, <2>6 DEF TickSendSms, Tick
    <3> QED
      BY <3>1 DEF HeadStays, InFlightIsHead
  <2> QED
    BY <1>10, <2>2, <2>3, <2>4, <2>5, <2>6 DEF GsmLogic_1sHandler
<1>11. CASE WatchdogRestart
  BY <1>4, <1>11 DEF WatchdogRestart
<1> QED
  BY <1>5, <1>6, <1>7, <1>8, <1>9, <1>10, <1>11 DEF Next, Notifications

(* The message popped when a confirmation is found is the one the modem was     *)
(* given.                                                                      *)
THEOREM InFlightAlwaysHead == Spec => []InFlightIsHead
<1>1. Init => InFlightIsHead
  BY DEF Init, InFlightIsHead
<1> QED
  BY <1>1, InitIsTyped, TypeInductive, InFlightIsHeadInductive, PTL DEF Spec

-----------------------------------------------------------------------------
(* How a message leaves the queue.                                             *)
LEMMA ReportPops ==
  ASSUME TypeOK, ParserMatchesState, InFlightIsHead, ParserOK \/ ParserFailure,
         Len(SmsQueue') < Len(SmsQueue)
  PROVE  /\ ParserOK /\ ~ParserFailure /\ parser = "SendSms"
         /\ SmsQueue' = Tail(SmsQueue) /\ Head(SmsQueue) = inFlight
<1>1. ~UNCHANGED SmsQueue
  BY DEF TypeOK, QueueType
<1>2. ParserOK /\ ~ParserFailure
  BY <1>1 DEF ParserFailure
<1>3. /\ GsmLogicState = "WAIT_SMS_SEND_CONFIRMATION"
      /\ SmsQueue' = Tail(SmsQueue)
  BY <1>1, <1>2 DEF ParserOK
<1> QED
  BY <1>2, <1>3 DEF ParserMatchesState, InFlightIsHead, Waiting, ParserOf

(* The one-step form of LeavesQueueWhenConfirmed, action by action.          *)
LEMMA LeavesWhenConfirmedStep ==
  ASSUME TypeOK, ParserMatchesState, InFlightIsHead, [Next]_vars,
         Len(SmsQueue') < Len(SmsQueue)
  PROVE  \/ pc = "hung"
         \/ /\ SmsQueue' = Tail(SmsQueue) /\ Head(SmsQueue) = inFlight
            /\ pc = "sms" /\ after = "OK" /\ parser = "SendSms"
<1>1. ~HeadStays /\ ~UNCHANGED SmsQueue
  BY DEF HeadStays, TypeOK, QueueType
<1>2. CASE Modem \/ NothingArrived \/ HandleRing \/ NoRing \/ UNCHANGED vars
  BY <1>1, <1>2 DEF Modem, ModemWrites, SmsArrives, PhoneRings, NothingArrived, HandleRing,
    NoRing, vars
<1>3. CASE HandleSms
  BY <1>1, <1>3, HandleSmsKeepsHead
<1>4. CASE GsmCommands_loop
  BY <1>1, <1>4, LoopReportsOrNot, ReportPops, CreditKeepsHead DEF Silent
<1>5. CASE NotificationsDone
  <2>1. /\ pc = "sms"
        /\ \/ after = "OK" /\ ParserOK
           \/ ParserFailure \/ Silent
    BY <1>5 DEF NotificationsDone, TypeOK, ControlType
  <2> QED
    BY <1>1, <2>1, ReportPops DEF Silent
<1>6. CASE GsmCommands_100msHandler
  <2>1. ParserFailure \/ Silent \/ ReceivedOperatorCredit(dataToProcess)
    BY <1>6 DEF GsmCommands_100msHandler
  <2> QED
    BY <1>1, <2>1, ReportPops, CreditKeepsHead DEF Silent
<1>7. CASE GsmLogic_1sHandler
  <2>1. Second(TRUE) \/ Second(FALSE)
    BY <1>7 DEF GsmLogic_1sHandler, OddSecond, TickError, TickResetWait, TickInit,
      TickNextInitCommand, TickDeleteSms, TickGetCredit, TickGetSignalStrength, TickSendSms,
      TickNothingToDo, TickWaiting, Tick
  <2> QED
    BY <1>1, <2>1, SecondKeepsType
<1>8. CASE WatchdogRestart
  BY <1>8 DEF WatchdogRestart
<1> QED
  BY <1>2, <1>3, <1>4, <1>5, <1>6, <1>7, <1>8 DEF Next, Notifications

(* No message is dropped but for a restart, unless the parser of the send       *)
(* command found +CMGS and OK while that message was in flight: for any queue   *)
(* size, any network and any answers of the modem.                             *)
THEOREM LeavesOnlyWhenConfirmed == Spec => LeavesQueueWhenConfirmed
<1>1. Init => ParserMatchesState /\ InFlightIsHead
  BY DEF Init, ParserMatchesState, InFlightIsHead, Waiting, ParserOf
<1>2. TypeOK /\ ParserMatchesState /\ InFlightIsHead /\ [Next]_vars
        => [Len(SmsQueue') < Len(SmsQueue) =>
              \/ pc = "hung"
              \/ /\ SmsQueue' = Tail(SmsQueue) /\ Head(SmsQueue) = inFlight
                 /\ pc = "sms" /\ after = "OK" /\ parser = "SendSms"]_vars
  BY LeavesWhenConfirmedStep
<1> QED
  BY <1>1, <1>2, InitIsTyped, TypeInductive, ParserMatchesStateInductive,
    InFlightIsHeadInductive, PTL DEF Spec, LeavesQueueWhenConfirmed
=============================================================================
