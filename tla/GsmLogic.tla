------------------------------ MODULE GsmLogic ------------------------------
(***************************************************************************)
(* The GSM part of the controller: GsmCommands.ino (the parsers of the     *)
(* modem's text and the commands sent to it) and GsmLogic.ino (the state   *)
(* machine above them, the queue of outgoing SMSs and the SMS commands).   *)
(*                                                                         *)
(* loop() is one thread, so a handler is one action; the modem and the     *)
(* network run between any two of them.  The "while" that works off        *)
(* notifications is a loop of actions (pc = "sms", "ring"), after which    *)
(* the parser goes on as `after' says.  millis() is abstracted: a timeout  *)
(* that is running may elapse at any 100 ms handler.                       *)
(***************************************************************************)
EXTENDS GsmText

CONSTANTS
  InitCommands,        \* INIT_COMMANDS_LENGTH
  ResetWait,           \* the 10 of GLSM_S_GSM_RESET_WAIT
  CreditAttempt,       \* GET_OPERATOR_CREDIT_ATTEMPT_INTERVAL_SEC
  LowCreditMessages,   \* SEND_LOW_CREDIT_NOTIFICATION_NUMBER
  ResetSmsDelay,       \* the 600 seconds of GsmLogic_1sHandler
  ReceiveTimeout,      \* GSM_RECEIVE_TIMEOUT_SEC
  QueueSize,           \* the record count of SmsQueue
  Inbound,             \* the [from, text] of the SMSs the network may deliver
  Credits,             \* what the operator may report: credit lines
  Faults,              \* what the modem may do to a command
  MaxExpiries,         \* bound: how often a known credit becomes old
  MaxRings,            \* bound: RING notifications in a behaviour
  MaxReplies,          \* bound: pieces of reply the modem still has to write
  MaxNotices,          \* bound: pieces held when the network may add to them
  MaxText              \* bound: pieces held (UART and _dataToProcess) when the
                       \* modem may add to them

ASSUME GsmAssumption ==
  /\ {InitCommands, CreditAttempt, QueueSize} \subseteq Nat \ {0}
  /\ {ResetWait, LowCreditMessages, ResetSmsDelay, ReceiveTimeout} \subseteq Nat
  /\ {MaxExpiries, MaxRings, MaxReplies, MaxNotices, MaxText} \subseteq Nat
  /\ Inbound \subseteq [from : Senders, text : Texts]
  /\ Credits \subseteq {"CREDIT_GOOD", "CREDIT_LOW"} /\ Credits # {}
  /\ Faults \subseteq {"late", "lost", "refused", "truncated"}

VARIABLES
  replies,        \* modem: the pieces of reply it has not written yet
  rx,             \* the UART: pieces written by the modem and not read
  delivered,      \* how many SMSs the network has delivered
  rung,           \* how many times the phone has rung
  orders,         \* ids of delivered SMSs that order the door, legitimately
  dataToProcess, parser, receiveTimeout,                  \* GsmCommands.ino
  GsmLogicState, initCommand, GsmSM_counter, TwoSecondsTimerCounter,
  SmsIsReceived, OperatorsCreditAcquired, creditAttempt, SignalStrengthAcquired,
  GsmCurrentCreditAcquired, ResetSmsSent, lowCreditMessages, waitForSendingResetSms,
  SmsQueue,                                               \* GsmLogic.ino
  pc, after,      \* where loop() stands
  heard,          \* has anything arrived since the last command?
  expiries,       \* how often a known credit has become old
  handled,        \* id of the SMS handled last, 0 if none
  handledAtDelete,\* its value when AT+CMGD was last sent
  inFlight,       \* the message last given to the modem
  doorOrder       \* id of the SMS that last moved the door

world    == <<delivered, rung, orders>>
outside  == <<replies, rx, world>>
text     == <<dataToProcess, receiveTimeout, heard>>
machine  == <<GsmLogicState, parser, SmsIsReceived, OperatorsCreditAcquired, creditAttempt,
              SignalStrengthAcquired, TwoSecondsTimerCounter, expiries>>
setup    == <<initCommand, GsmSM_counter>>
notices  == <<GsmCurrentCreditAcquired, ResetSmsSent, lowCreditMessages, waitForSendingResetSms>>
ghosts   == <<handled, handledAtDelete, inFlight, doorOrder>>
vars     == <<outside, text, machine, setup, notices, SmsQueue, pc, after, ghosts>>

-----------------------------------------------------------------------------
(* The states of the state machine, and the parser each waiting state needs.  *)
ParserOf == [SIMPLE_INIT_AT_SENT        |-> "Simple",
             GET_CREDIT                 |-> "Credit",
             GET_SIGNAL_STRENGTH        |-> "Signal",
             WAIT_SMS_DELETE            |-> "Simple",
             WAIT_SMS_SEND_CONFIRMATION |-> "SendSms"]
Waiting == DOMAIN ParserOf
States  == Waiting \cup {"INIT", "ERROR", "GSM_RESET_WAIT", "SIMPLE_INIT_AT_PAUSE", "IDLE"}
Parsers == {"Idle", "Simple", "Credit", "Signal", "SendSms"}

CanSendAtCommand == parser = "Idle"

(* A message of the queue: what it says and the SMS it answers (0 for none).  *)
Whats    == {"RESET OCCURED", "LOW CREDIT", "UNREGISTERED", "STATUS", "FORMAT", "FORWARD"}
Messages == [what : Whats, id : 0..MaxSms]

PushUnbounded(q, what, i) == Append(q, [what |-> what, id |-> i])             \* mutant
PushOverwriting(q, what, i) ==                                                \* mutant
  Append(IF Len(q) < QueueSize THEN q ELSE Tail(q), [what |-> what, id |-> i])

(* PushSmsIntoSendingQueue: a full queue refuses, and no caller looks.         *)
Push(q, what, i) == IF Len(q) < QueueSize THEN Append(q, [what |-> what, id |-> i]) ELSE q

Lesser(a, b) == IF a < b THEN a ELSE b     \* counters stop where no test tells more

-----------------------------------------------------------------------------
(* The modem.  What it answers to a command, and what Faults let it write      *)
(* instead: nothing, an error, or the answer without one of its parts.         *)
Full(command) ==
  CASE command = "Simple"  -> {<<"OK">>}
    [] command = "Credit"  -> {<<"OK", c, "CUSD2">> : c \in Credits}
    [] command = "Signal"  -> {<<"CSQ", "OK">>}
    [] command = "SendSms" -> {<<"CMGS", "OK">>}
Truncated(command) ==
  CASE command = "Credit" -> {<<"OK", "CUSD2">>} \cup {<<"OK", c>> : c \in Credits}
    [] command = "Simple" -> {}
    [] OTHER              -> {<<"OK">>}
Answers(command) ==
  Full(command) \cup (IF "lost" \in Faults THEN {<<>>} ELSE {})
                \cup (IF "refused" \in Faults THEN {<<"ERROR">>} ELSE {})
                \cup (IF "truncated" \in Faults THEN Truncated(command) ELSE {})

(* SendGsmCommand.  The modem decides at once what it will write, and writes   *)
(* it later; beyond MaxReplies the command is lost.                            *)
SendGsmCommand(command) ==
  \E a \in Answers(command) :
    LET all == replies \o [i \in 1..Len(a) |-> Plain(a[i])]
    IN  replies' = IF Len(all) <= MaxReplies THEN all ELSE replies

Held == Len(rx) + Len(dataToProcess)

ModemWrites ==
  /\ replies # <<>> /\ Held < MaxText
  /\ rx' = Append(rx, Head(replies))
  /\ replies' = Tail(replies)
  /\ UNCHANGED <<delivered, rung, orders, text, machine, setup, notices, SmsQueue, pc, after, ghosts>>

(* "+CMT: .." comes whole, but loop() may run between its two lines.           *)
SmsArrives ==
  /\ delivered < MaxSms /\ Held + 2 <= MaxNotices
  /\ \E s \in Inbound :
       /\ rx' = rx \o <<Header(delivered + 1, s.from), Body(delivered + 1, s.text)>>
       /\ orders' = IF s.from = "registered" /\ s.text \in {"OPEN", "CLOSE"}
                    THEN orders \cup {delivered + 1} ELSE orders
  /\ delivered' = delivered + 1
  /\ UNCHANGED <<replies, rung, text, machine, setup, notices, SmsQueue, pc, after, ghosts>>

PhoneRings ==
  /\ rung < MaxRings /\ Held + 2 <= MaxNotices
  /\ rx' = rx \o <<Plain("RING"), Plain("CLIP")>>
  /\ rung' = rung + 1
  /\ UNCHANGED <<replies, delivered, orders, text, machine, setup, notices, SmsQueue, pc, after, ghosts>>

-----------------------------------------------------------------------------
(* GsmLogicStateMachine called by a parser: the switch, and the part of the    *)
(* tail that does not need GLSM_A_2sTick.  ParserError and ParserTimeout have  *)
(* the same cases in every state.                                              *)
Settle ==     \* the attempt counter; a credit that is known may just have become old
  \/ /\ creditAttempt' = Lesser(creditAttempt + 2, CreditAttempt)
     /\ UNCHANGED <<OperatorsCreditAcquired, expiries>>
  \/ /\ OperatorsCreditAcquired
     /\ expiries < MaxExpiries /\ expiries' = expiries + 1
     /\ OperatorsCreditAcquired' = FALSE
     /\ creditAttempt' = CreditAttempt

(* ... and the signal strength, of any age, is forgotten if it is not acquired. *)
AgedSignal(acquired) == IF ~acquired THEN FALSE ELSE acquired

StopsNotAfterSignal ==                                                        \* mutant
  parser' = IF GsmLogicState \in Waiting \ {"GET_SIGNAL_STRENGTH"} THEN "Idle" ELSE parser

(* SetupIdleParser, in every case of a waiting state. *)
StopWaiting == parser' = IF GsmLogicState \in Waiting THEN "Idle" ELSE parser

ParserOKWithoutSignal ==    \* mutant: the acquired signal strength is not noted
  /\ GsmLogicState' = CASE GsmLogicState = "SIMPLE_INIT_AT_SENT" -> "SIMPLE_INIT_AT_PAUSE"
                        [] GsmLogicState \in Waiting \ {"SIMPLE_INIT_AT_SENT"} -> "IDLE"
                        [] OTHER -> GsmLogicState
  /\ StopWaiting
  /\ TwoSecondsTimerCounter' = IF GsmLogicState = "SIMPLE_INIT_AT_SENT" THEN 0
                               ELSE TwoSecondsTimerCounter
  /\ UNCHANGED SignalStrengthAcquired
  /\ SmsIsReceived' = (SmsIsReceived /\ GsmLogicState # "WAIT_SMS_DELETE")
  /\ SmsQueue' = IF GsmLogicState = "WAIT_SMS_SEND_CONFIRMATION" /\ SmsQueue # <<>>
                 THEN Tail(SmsQueue) ELSE SmsQueue
  /\ IF GsmLogicState = "GET_CREDIT"
     THEN /\ OperatorsCreditAcquired' = TRUE /\ creditAttempt' = Lesser(2, CreditAttempt)
          /\ UNCHANGED expiries
     ELSE Settle

ParserOK ==
  /\ GsmLogicState' = CASE GsmLogicState = "SIMPLE_INIT_AT_SENT" -> "SIMPLE_INIT_AT_PAUSE"
                        [] GsmLogicState \in Waiting \ {"SIMPLE_INIT_AT_SENT"} -> "IDLE"
                        [] OTHER -> GsmLogicState
  /\ StopWaiting
  /\ TwoSecondsTimerCounter' = IF GsmLogicState = "SIMPLE_INIT_AT_SENT" THEN 0
                               ELSE TwoSecondsTimerCounter
  /\ SignalStrengthAcquired' =
       AgedSignal(SignalStrengthAcquired \/ GsmLogicState = "GET_SIGNAL_STRENGTH")
  /\ SmsIsReceived' = (SmsIsReceived /\ GsmLogicState # "WAIT_SMS_DELETE")
  /\ SmsQueue' = IF GsmLogicState = "WAIT_SMS_SEND_CONFIRMATION" /\ SmsQueue # <<>>
                 THEN Tail(SmsQueue) ELSE SmsQueue
  /\ IF GsmLogicState = "GET_CREDIT"
     THEN /\ OperatorsCreditAcquired' = TRUE /\ creditAttempt' = Lesser(2, CreditAttempt)
          /\ UNCHANGED expiries
     ELSE Settle

ParserFailureAsSuccess ==    \* mutant: what OK means is done after a failure too
  /\ GsmLogicState' = CASE GsmLogicState = "SIMPLE_INIT_AT_SENT" -> "ERROR"
                        [] GsmLogicState \in Waiting \ {"SIMPLE_INIT_AT_SENT"} -> "IDLE"
                        [] OTHER -> GsmLogicState
  /\ StopWaiting
  /\ Settle
  /\ SmsIsReceived' = (SmsIsReceived /\ GsmLogicState # "WAIT_SMS_DELETE")
  /\ SmsQueue' = IF GsmLogicState = "WAIT_SMS_SEND_CONFIRMATION" /\ SmsQueue # <<>>
                 THEN Tail(SmsQueue) ELSE SmsQueue
  /\ UNCHANGED <<TwoSecondsTimerCounter, SignalStrengthAcquired>>

ParserFailure ==
  /\ GsmLogicState' = CASE GsmLogicState = "SIMPLE_INIT_AT_SENT" -> "ERROR"
                        [] GsmLogicState \in Waiting \ {"SIMPLE_INIT_AT_SENT"} -> "IDLE"
                        [] OTHER -> GsmLogicState
  /\ StopWaiting
  /\ Settle
  /\ SignalStrengthAcquired' = AgedSignal(SignalStrengthAcquired)
  /\ UNCHANGED <<TwoSecondsTimerCounter, SmsIsReceived, SmsQueue>>

Silent == UNCHANGED <<machine, SmsQueue>>

-----------------------------------------------------------------------------
(* GsmCommands_loop: the n pieces that have arrived by now are appended and the *)
(* current parser is called once.  Work(b, a) leaves text b to the loop over   *)
(* notifications.                                                              *)
Keep(b) == dataToProcess' = b /\ pc' = "loop" /\ UNCHANGED after
Work(b, a) == dataToProcess' = b /\ pc' = "sms" /\ after' = a

Refused(b) ==   \* the ERROR branch that ends every parser
  IF FindError(b) # 0 THEN ParserFailure /\ Keep(Cut(b, FindError(b)))
                      ELSE Silent /\ Keep(b)

ParseSimple(b) ==
  /\ IF FindOk(b) # 0 THEN ParserOK /\ Keep(Cut(b, FindOk(b))) ELSE Refused(b)
  /\ UNCHANGED notices

ReceivedOperatorCredit(b) ==
  LET low == b[FindCredit(b)].kind = "CREDIT_LOW"
      n   == Lesser(lowCreditMessages + 1, LowCreditMessages + 1)
  IN  /\ GsmCurrentCreditAcquired' = TRUE
      /\ lowCreditMessages' = IF low THEN n ELSE 0
      /\ SmsQueue' = IF low /\ n <= LowCreditMessages THEN Push(SmsQueue, "LOW CREDIT", 0)
                     ELSE SmsQueue
      /\ UNCHANGED <<ResetSmsSent, waitForSendingResetSms>>

ParseGetOperatorCreditResponse(b) ==
  IF Find(b, "CUSD2") # 0
  THEN IF FindCredit(b) # 0
       THEN ReceivedOperatorCredit(b) /\ UNCHANGED machine /\ Work(b, "OK")
       ELSE Silent /\ Keep(b) /\ UNCHANGED notices
  ELSE Refused(b) /\ UNCHANGED notices

ParseGetSignalStrengthResponse(b) ==
  /\ IF FindOk(b) # 0
     THEN IF Find(b, "CSQ") # 0 THEN ParserOK /\ Keep(<<>>)
                                ELSE Silent /\ Keep(Cut(b, FindOk(b)))
     ELSE Refused(b)
  /\ UNCHANGED notices

ParseSendSmsResponse(b) ==
  /\ IF Find(b, "CMGS") # 0 /\ FindOk(b) # 0 THEN Silent /\ Work(b, "OK") ELSE Refused(b)
  /\ UNCHANGED notices

GsmCommands_loop ==
  /\ pc \in {"loop", "poll"} /\ rx # <<>>
  /\ receiveTimeout' = 0 /\ heard' = TRUE
  /\ \E n \in 1..Len(rx) :
     LET b == dataToProcess \o SubSeq(rx, 1, n)
     IN  /\ rx' = Cut(rx, n)
         /\ CASE parser = "Idle" -> Silent /\ Work(b, "Idle") /\ UNCHANGED notices
              [] parser = "Simple"  -> ParseSimple(b)
              [] parser = "Credit"  -> ParseGetOperatorCreditResponse(b)
              [] parser = "Signal"  -> ParseGetSignalStrengthResponse(b)
              [] parser = "SendSms" -> ParseSendSmsResponse(b)
  /\ UNCHANGED <<replies, world, setup, ghosts>>

NothingArrived ==
  /\ pc = "poll" /\ rx = <<>>
  /\ pc' = "loop"
  /\ UNCHANGED <<outside, text, machine, setup, notices, SmsQueue, after, ghosts>>

GsmCommands_100msHandlerReturns ==   \* mutant: without a credit line it just returns
  /\ pc = "loop" /\ parser # "Idle"
  /\ "late" \in Faults \/ (replies = <<>> /\ rx = <<>>)
  /\ IF parser = "Credit"
     THEN IF FindCredit(dataToProcess) # 0
          THEN ReceivedOperatorCredit(dataToProcess) /\ UNCHANGED machine
               /\ Work(dataToProcess, "Timeout")
          ELSE Silent /\ Keep(dataToProcess) /\ UNCHANGED notices
     ELSE Silent /\ Work(dataToProcess, "Timeout") /\ UNCHANGED notices
  /\ UNCHANGED <<outside, receiveTimeout, heard, setup, ghosts>>

(* GsmCommands_100msHandler when the running timeout has elapsed: unless the   *)
(* modem may be late, only when it has nothing left to say.                    *)
GsmCommands_100msHandler ==
  /\ pc = "loop" /\ parser # "Idle"
  /\ "late" \in Faults \/ (replies = <<>> /\ rx = <<>>)
  /\ IF parser = "Credit"
     THEN IF FindCredit(dataToProcess) # 0
          THEN ReceivedOperatorCredit(dataToProcess) /\ UNCHANGED machine
               /\ Work(dataToProcess, "Timeout")
          ELSE ParserFailure /\ Keep(dataToProcess) /\ UNCHANGED notices
     ELSE Silent /\ Work(dataToProcess, "Timeout") /\ UNCHANGED notices
  /\ UNCHANGED <<outside, receiveTimeout, heard, setup, ghosts>>

-----------------------------------------------------------------------------
(* The loop over notifications: an SMS, then a RING, and again unless the idle *)
(* parser is at work, which looks for one of each.                             *)

(* GsmLogic_ParseSms: what is pushed in answer to a registered sender's text.  *)
AnswerTo(t) ==
  CASE t = "STATUS"  -> "STATUS"
    [] t = "SENDSMS" -> "FORWARD"
    [] t \in {"OPEN", "OPEN_OTHER", "CLOSE", "CLOSE_OTHER", "RESET"} -> "nothing"
    [] OTHER -> "FORMAT"

ReceivedSmsNotificationUnchecked(i, from, t) ==   \* mutant: any second parameter will do
  /\ SmsIsReceived' = TRUE
  /\ SmsQueue' = SmsQueue
  /\ doorOrder' = IF from = "registered" /\ t \in {"OPEN", "OPEN_OTHER", "CLOSE"} THEN i
                  ELSE doorOrder
  /\ pc' = "ring"

ReceivedSmsNotification(i, from, t) ==
  LET what == CASE from = "registered" -> AnswerTo(t)
                [] from = "ignored"    -> "nothing"
                [] OTHER               -> "UNREGISTERED"
      ordered == from = "registered" /\ t \in {"OPEN", "CLOSE"}
  IN  /\ SmsIsReceived' = TRUE
      /\ SmsQueue' = IF what = "nothing" THEN SmsQueue ELSE Push(SmsQueue, what, i)
      /\ doorOrder' = IF ordered THEN i ELSE doorOrder
      /\ pc' = IF from = "registered" /\ t = "RESET" THEN "hung" ELSE "ring"

HandleSms ==
  /\ pc = "sms" /\ FindSms(dataToProcess) # 0
  /\ LET n == FindSms(dataToProcess)
         h == dataToProcess[n - 1]
     IN  /\ ReceivedSmsNotification(h.id, h.from, dataToProcess[n].text)
         /\ dataToProcess' = Cut(dataToProcess, n)
         /\ handled' = h.id
  /\ UNCHANGED <<outside, receiveTimeout, heard, GsmLogicState, parser, OperatorsCreditAcquired, expiries,
                 creditAttempt, SignalStrengthAcquired, TwoSecondsTimerCounter, setup,
                 notices, after, handledAtDelete, inFlight>>

(* ReceivedRingNotification: SendHangupCallCommand, whose reply nobody awaits. *)
HandleRing ==
  /\ pc = "ring" \/ (pc = "sms" /\ FindSms(dataToProcess) = 0)
  /\ FindRing(dataToProcess) # 0
  /\ SendGsmCommand("Simple")
  /\ \E rest \in AfterRing(dataToProcess) :
       /\ after # "Idle" => rest # dataToProcess    \* the while loop gets there
       /\ dataToProcess' = rest
  /\ pc' = IF after = "Idle" THEN "loop" ELSE "sms"
  /\ UNCHANGED <<rx, world, receiveTimeout, heard, machine, setup, notices,
                 SmsQueue, after, ghosts>>

NoRing ==
  /\ pc = "ring" /\ FindRing(dataToProcess) = 0
  /\ pc' = IF after = "Idle" THEN "loop" ELSE "sms"
  /\ UNCHANGED <<outside, text, machine, setup, notices, SmsQueue, after, ghosts>>

(* Nothing left to work off: back to the parser, which reports and returns.    *)
NotificationsDoneClears ==     \* mutant: the idle parser starts afresh each time
  /\ pc = "sms" /\ FindSms(dataToProcess) = 0 /\ FindRing(dataToProcess) = 0
  /\ CASE after = "Idle"    -> Silent /\ dataToProcess' = <<>>
       [] after = "OK"      -> ParserOK /\ dataToProcess' = <<>>
       [] after = "Timeout" -> ParserFailure /\ dataToProcess' = <<>>
  /\ pc' = "loop" /\ after' = "Idle"
  /\ UNCHANGED <<outside, receiveTimeout, heard, setup, notices, ghosts>>

NotificationsDone ==
  /\ pc = "sms" /\ FindSms(dataToProcess) = 0 /\ FindRing(dataToProcess) = 0
  /\ CASE after = "Idle"    -> Silent /\ UNCHANGED dataToProcess
       [] after = "OK"      -> ParserOK /\ dataToProcess' = <<>>
       [] after = "Timeout" -> ParserFailure /\ dataToProcess' = <<>>
  /\ pc' = "loop" /\ after' = "Idle"
  /\ UNCHANGED <<outside, receiveTimeout, heard, setup, notices, ghosts>>

-----------------------------------------------------------------------------
(* GsmLogic_1sHandler: GsmCommands_1sHandler, every second time the state      *)
(* machine with GLSM_A_2sTick, then the RESET OCCURED message.  `reinit' says  *)
(* that GsmLogic_InternalInit ran in between.                                  *)
(* What has arrived since a command is never purged before the command's       *)
(* timeout (120 s at most) has elapsed: that is checked first in the same pass.*)
PurgeStaleText ==
  LET due == receiveTimeout + 1 > ReceiveTimeout /\ dataToProcess # <<>>
  IN  /\ ~(due /\ heard /\ parser # "Idle")
      /\ receiveTimeout' = IF due THEN 0 ELSE Lesser(receiveTimeout + 1, ReceiveTimeout + 1)
      /\ dataToProcess' = IF due THEN <<>> ELSE dataToProcess

ResetMessage(reinit) ==
  LET waited == Lesser(waitForSendingResetSms + 1, ResetSmsDelay + 1)
      due == /\ reinit \/ ~ResetSmsSent
             /\ waited > ResetSmsDelay \/ (GsmCurrentCreditAcquired /\ ~reinit)
  IN  /\ waitForSendingResetSms' = waited
      /\ ResetSmsSent' = (due \/ (ResetSmsSent /\ ~reinit))
      /\ SmsQueue' = IF due THEN Push(SmsQueue, "RESET OCCURED", 0) ELSE SmsQueue

Second(reinit) ==
  /\ pc = "loop" /\ pc' = "poll"      \* loop() reads the UART before the next second
  /\ PurgeStaleText
  /\ ResetMessage(reinit)
  /\ UNCHANGED <<rx, world, after, handled, doorOrder>>

Tick ==
  /\ Second(FALSE)
  /\ TwoSecondsTimerCounter = 1 /\ TwoSecondsTimerCounter' = 0
  /\ SignalStrengthAcquired' = AgedSignal(SignalStrengthAcquired)
  /\ UNCHANGED <<GsmCurrentCreditAcquired, lowCreditMessages, SmsIsReceived>>

OddSecond ==
  /\ Second(FALSE)
  /\ TwoSecondsTimerCounter = 0 /\ TwoSecondsTimerCounter' = 1
  /\ UNCHANGED <<GsmCurrentCreditAcquired, lowCreditMessages, SmsIsReceived,
                 SignalStrengthAcquired, replies, GsmLogicState, parser,
                 OperatorsCreditAcquired, creditAttempt, expiries, heard, setup, handledAtDelete,
                 inFlight>>

(* GLSM_S_ERROR: ResetGsmModem (the modem forgets what it had to write) and    *)
(* GsmLogic_InternalInit; the queue and the received text stay.                *)
TickError ==
  /\ GsmLogicState = "ERROR"
  /\ Second(TRUE)
  /\ TwoSecondsTimerCounter = 1 /\ TwoSecondsTimerCounter' = 0
  /\ replies' = <<>>
  /\ GsmLogicState' = "GSM_RESET_WAIT" /\ parser' = "Idle" /\ GsmSM_counter' = 0
  /\ SmsIsReceived' = FALSE /\ OperatorsCreditAcquired' = FALSE
  /\ SignalStrengthAcquired' = FALSE /\ GsmCurrentCreditAcquired' = FALSE
  /\ lowCreditMessages' = 0 /\ creditAttempt' = CreditAttempt
  /\ UNCHANGED <<heard, expiries, initCommand, handledAtDelete, inFlight>>

TickResetWait ==
  /\ GsmLogicState = "GSM_RESET_WAIT"
  /\ Tick /\ Settle
  /\ GsmSM_counter' = GsmSM_counter + 1
  /\ IF GsmSM_counter' > ResetWait THEN GsmLogicState' = "INIT" /\ parser' = "Idle"
                                   ELSE UNCHANGED <<GsmLogicState, parser>>
  /\ UNCHANGED <<replies, heard, initCommand, handledAtDelete, inFlight>>

Command(next, kind) ==   \* SetupNonIdleParser, SendGsmCommand and the state that waits
  GsmLogicState' = next /\ parser' = kind /\ SendGsmCommand(kind) /\ heard' = FALSE

TickInit ==
  /\ GsmLogicState = "INIT" /\ CanSendAtCommand
  /\ Tick /\ Settle
  /\ Command("SIMPLE_INIT_AT_SENT", "Simple") /\ initCommand' = 1
  /\ UNCHANGED <<GsmSM_counter, handledAtDelete, inFlight>>

TickNextInitCommand ==
  /\ GsmLogicState = "SIMPLE_INIT_AT_PAUSE" /\ CanSendAtCommand
  /\ initCommand < InitCommands
  /\ Tick /\ Settle
  /\ Command("SIMPLE_INIT_AT_SENT", "Simple") /\ initCommand' = initCommand + 1
  /\ UNCHANGED <<GsmSM_counter, handledAtDelete, inFlight>>

(* GLSM_S_IDLE, or GLSM_S_SIMPLE_INIT_AT_PAUSE that has run out of commands    *)
(* and enters it: the first of four things there is to do.                     *)
Idle ==
  /\ CanSendAtCommand
  /\ \/ GsmLogicState = "IDLE"
     \/ GsmLogicState = "SIMPLE_INIT_AT_PAUSE" /\ initCommand >= InitCommands
CreditDue == ~OperatorsCreditAcquired /\ creditAttempt >= CreditAttempt

TickDeleteSms ==
  /\ Idle /\ SmsIsReceived
  /\ Tick /\ Settle
  /\ Command("WAIT_SMS_DELETE", "Simple") /\ handledAtDelete' = handled
  /\ UNCHANGED <<setup, inFlight>>

TickGetCredit ==
  /\ Idle /\ ~SmsIsReceived /\ CreditDue
  /\ Tick
  /\ Command("GET_CREDIT", "Credit") /\ creditAttempt' = 0
  /\ UNCHANGED <<OperatorsCreditAcquired, expiries, setup, handledAtDelete, inFlight>>

TickGetSignalStrength ==
  /\ Idle /\ ~SmsIsReceived /\ ~CreditDue /\ ~SignalStrengthAcquired
  /\ Tick /\ Settle
  /\ Command("GET_SIGNAL_STRENGTH", "Signal")
  /\ UNCHANGED <<setup, handledAtDelete, inFlight>>

TickSendSms ==
  /\ Idle /\ ~SmsIsReceived /\ ~CreditDue /\ SignalStrengthAcquired /\ SmsQueue # <<>>
  /\ Tick /\ Settle
  /\ Command("WAIT_SMS_SEND_CONFIRMATION", "SendSms") /\ inFlight' = Head(SmsQueue)
  /\ UNCHANGED <<setup, handledAtDelete>>

TickNothingToDo ==
  /\ Idle /\ ~SmsIsReceived /\ ~CreditDue /\ SignalStrengthAcquired /\ SmsQueue = <<>>
  /\ Tick /\ Settle
  /\ GsmLogicState' = "IDLE"
  /\ UNCHANGED <<parser, replies, heard, setup, handledAtDelete, inFlight>>

TickWaiting ==   \* no case for GLSM_A_2sTick, or its CanSendAtCommand fails
  /\ \/ GsmLogicState \in Waiting
     \/ GsmLogicState \in {"INIT", "SIMPLE_INIT_AT_PAUSE", "IDLE"} /\ ~CanSendAtCommand
  /\ Tick /\ Settle
  /\ UNCHANGED <<GsmLogicState, parser, replies, heard, setup, handledAtDelete, inFlight>>

GsmLogic_1sHandler ==
  \/ OddSecond \/ TickError \/ TickResetWait \/ TickInit \/ TickNextInitCommand
  \/ TickDeleteSms \/ TickGetCredit \/ TickGetSignalStrength \/ TickSendSms
  \/ TickNothingToDo \/ TickWaiting

-----------------------------------------------------------------------------
(* Power-up: the initial values and GsmLogic_Initialise, which resets the modem.*)
Init ==
  /\ replies = <<>> /\ rx = <<>>
  /\ dataToProcess = <<>> /\ parser = "Idle" /\ receiveTimeout = 0
  /\ GsmLogicState = "ERROR" /\ initCommand = 0 /\ GsmSM_counter = 0
  /\ TwoSecondsTimerCounter = 0 /\ SmsIsReceived = FALSE
  /\ OperatorsCreditAcquired = FALSE /\ creditAttempt = CreditAttempt
  /\ SignalStrengthAcquired = FALSE /\ GsmCurrentCreditAcquired = FALSE
  /\ ResetSmsSent = FALSE /\ lowCreditMessages = 0 /\ waitForSendingResetSms = 0
  /\ SmsQueue = <<>> /\ pc = "loop" /\ after = "Idle" /\ heard = FALSE /\ expiries = 0
  /\ delivered = 0 /\ rung = 0 /\ orders = {}
  /\ handled = 0 /\ handledAtDelete = 0 /\ doorOrder = 0
  /\ inFlight = [what |-> "RESET OCCURED", id |-> 0]

(* The SMS command RESET spins in while(1) until the task watchdog restarts    *)
(* the ESP32: everything in memory is lost, the outgoing queue included.       *)
WatchdogRestart ==
  /\ pc = "hung"
  /\ replies' = <<>> /\ rx' = <<>>
  /\ dataToProcess' = <<>> /\ parser' = "Idle" /\ receiveTimeout' = 0
  /\ GsmLogicState' = "ERROR" /\ initCommand' = 0 /\ GsmSM_counter' = 0
  /\ TwoSecondsTimerCounter' = 0 /\ SmsIsReceived' = FALSE
  /\ OperatorsCreditAcquired' = FALSE /\ creditAttempt' = CreditAttempt
  /\ SignalStrengthAcquired' = FALSE /\ GsmCurrentCreditAcquired' = FALSE
  /\ ResetSmsSent' = FALSE /\ lowCreditMessages' = 0 /\ waitForSendingResetSms' = 0
  /\ SmsQueue' = <<>> /\ pc' = "loop" /\ after' = "Idle" /\ heard' = FALSE
  /\ UNCHANGED <<world, expiries, ghosts>>

Modem == ModemWrites \/ SmsArrives \/ PhoneRings
Notifications == HandleSms \/ HandleRing \/ NoRing \/ NotificationsDone

Next ==
  \/ Modem \/ GsmCommands_loop \/ NothingArrived \/ Notifications
  \/ GsmCommands_100msHandler \/ GsmLogic_1sHandler \/ WatchdogRestart

Spec == Init /\ [][Next]_vars

(* loop() polls the UART and the timer flags without end, the watchdog runs in  *)
(* hardware, and what the modem has to write it writes.  A timeout that stays   *)
(* armed elapses although the handler that checks it only runs now and then,    *)
(* hence strong fairness.  Nothing is assumed of the network.                   *)
FairSpec ==
  /\ Spec
  /\ WF_vars(GsmCommands_loop \/ NothingArrived) /\ WF_vars(Notifications)
  /\ SF_vars(GsmCommands_100msHandler) /\ WF_vars(GsmLogic_1sHandler)
  /\ WF_vars(WatchdogRestart) /\ WF_vars(ModemWrites)

-----------------------------------------------------------------------------
TextType ==
  /\ replies \in Seq(Piece) /\ rx \in Seq(Piece) /\ dataToProcess \in Seq(Piece)
  /\ receiveTimeout \in 0..(ReceiveTimeout + 1) /\ heard \in BOOLEAN
WorldType == delivered \in 0..MaxSms /\ rung \in 0..MaxRings /\ orders \subseteq 1..delivered
ControlType ==
  /\ pc \in {"loop", "poll", "sms", "ring", "hung"} /\ after \in {"Idle", "OK", "Timeout"}
  /\ parser \in Parsers /\ GsmLogicState \in States
MachineType ==
  /\ SmsIsReceived \in BOOLEAN /\ OperatorsCreditAcquired \in BOOLEAN
  /\ SignalStrengthAcquired \in BOOLEAN /\ creditAttempt \in 0..CreditAttempt
  /\ TwoSecondsTimerCounter \in 0..1 /\ expiries \in 0..MaxExpiries
SetupType ==     \* the wait after a reset is over as soon as its counter passes ResetWait
  /\ initCommand \in 0..InitCommands /\ GsmSM_counter \in 0..(ResetWait + 1)
  /\ GsmLogicState = "GSM_RESET_WAIT" => GsmSM_counter <= ResetWait
NoticesType ==
  /\ GsmCurrentCreditAcquired \in BOOLEAN /\ ResetSmsSent \in BOOLEAN
  /\ lowCreditMessages \in 0..(LowCreditMessages + 1)
  /\ waitForSendingResetSms \in 0..(ResetSmsDelay + 1)
QueueType == SmsQueue \in Seq(Messages) /\ Len(SmsQueue) <= QueueSize
GhostsType ==
  /\ handled \in 0..MaxSms /\ handledAtDelete \in 0..MaxSms /\ doorOrder \in 0..MaxSms
  /\ inFlight \in Messages

(* The variables keep to their ranges.  What can be wrong: the queue takes more *)
(* than it has room for, or an index leaves the text.                          *)
TypeOK ==
  /\ TextType /\ WorldType /\ ControlType /\ MachineType
  /\ SetupType /\ NoticesType /\ QueueType /\ GhostsType

(* The parser that reads the modem's text is the one for the command the state *)
(* machine waits on, and the idle parser when it waits on none: otherwise a    *)
(* reply is never recognised, or its callback falls into a state without a     *)
(* case for it.  GsmCommands.ino switches the one, GsmLogic.ino the other.     *)
ParserMatchesState ==
  parser = IF GsmLogicState \in Waiting THEN ParserOf[GsmLogicState] ELSE "Idle"

(* While a confirmation is awaited, the head of the queue (the message popped  *)
(* on OK) is the one that was given to the modem, whatever was pushed since.   *)
InFlightIsHead ==
  GsmLogicState = "WAIT_SMS_SEND_CONFIRMATION" => SmsQueue # <<>> /\ Head(SmsQueue) = inFlight

(* Only an SMS that the network delivered from a registered sender, with a     *)
(* registered number in its text, has ever moved the door.                     *)
DoorMovedOnOrder == doorOrder \in orders \cup {0}

(* Every SMS is acted on at most once, and in the order of arrival, across the *)
(* idle parser, the loops of the other parsers and the cuts they make.         *)
SmsHandledOnceInOrder == [][HandleSms => handled < handled']_vars

(* An SMS that has arrived is missed in four ways only: the parser of a command *)
(* cuts it off with the command's answer, the idle parser cuts it off with a    *)
(* RING behind it, nothing arrives for 120 s after a text that the idle parser  *)
(* has not worked off, or the program restarts.                                *)
SmsIn(b) == {b[i].id : i \in {j \in 1..Len(b) : b[j].kind = "CMT"}}
MissedSmsExplained ==
  [][\A i \in SmsIn(rx \o dataToProcess) \ SmsIn(rx' \o dataToProcess') :
       \/ i = handled' \/ GsmLogicState \in Waiting \/ FindRing(dataToProcess) # 0
       \/ pc = "loop" /\ pc' = "poll" /\ receiveTimeout + 1 > ReceiveTimeout
       \/ pc = "hung"]_vars

(* A message leaves the queue only as the one in flight, when the parser of the *)
(* send command has seen +CMGS and OK, or with the whole memory at a watchdog   *)
(* restart: neither an error nor a timeout, nor an OK that another parser finds, *)
(* drops a message.  Whose +CMGS it was the program cannot tell: one of an      *)
(* earlier attempt that comes late confirms the message in flight just the same. *)
LeavesQueueWhenConfirmed ==
  [][Len(SmsQueue') < Len(SmsQueue) =>
       \/ pc = "hung"
       \/ /\ SmsQueue' = Tail(SmsQueue) /\ Head(SmsQueue) = inFlight
          /\ pc = "sms" /\ after = "OK" /\ parser = "SendSms"]_vars

(* The messages and the SMSs as the correspondents see them: SMSs are dealt with *)
(* once and answered once at most, and a message that was confirmed leaves the *)
(* queue, and no other does (SmsService).  Confirmed means that the parser of  *)
(* the send command has found +CMGS and OK.                                    *)
given    == IF GsmLogicState = "WAIT_SMS_SEND_CONFIRMATION" THEN <<inFlight>> ELSE <<>>
confirmed == parser = "SendSms" /\ after = "OK"

Service == INSTANCE SmsService WITH unsent <- SmsQueue, seen <- handled, moved <- doorOrder

ServesAsPromised == Service!ServiceSpec

(* The answers in the queue are to different SMSs, in the order in which those   *)
(* came, and to none that has not been dealt with: however often an answer is  *)
(* sent anew, nobody gets that of another SMS instead, or two.                 *)
AnswersInOrder ==
  \A k \in 1..Len(SmsQueue) :
    /\ SmsQueue[k].id <= handled
    /\ \A j \in 1..(k - 1) : SmsQueue[k].id # 0 => SmsQueue[j].id < SmsQueue[k].id

(* "SMS received" is only forgotten when every SMS handled so far was stored   *)
(* before AT+CMGD was sent, or when the modem is initialised anew (its init    *)
(* commands delete all SMSs too).                                              *)
ForgetsOnlyDeletedSms ==
  [][SmsIsReceived /\ ~SmsIsReceived' =>
       GsmLogicState = "ERROR" \/ pc = "hung" \/ handled = handledAtDelete]_vars

(* When the wait for a command is over, none of the text the modem owes is      *)
(* still to come: "we do not expect any command response" (GsmCommands.ino:241).*)
NothingOwedAfterWaiting ==
  [][(GsmLogicState \in Waiting /\ GsmLogicState' \notin Waiting) => Len(replies') = 0]_vars

(* loop() always comes back, and no command is waited on for ever.             *)
AlwaysIdleAgain == []<>(pc = "loop" /\ parser = "Idle")

(* A step in which the modem fails a command: it will not write the whole       *)
(* answer, or the time-out comes before the answer.                            *)
ModemFails ==
  \/ /\ parser = "Idle" /\ parser' # "Idle"
     /\ \A a \in Full(parser') : replies' # replies \o [i \in 1..Len(a) |-> Plain(a[i])]
  \/ GsmCommands_100msHandler /\ (replies # <<>> \/ rx # <<>>)

(* The queue is empty again and again, however SMSs, credit checks and time-outs *)
(* interleave, unless the modem goes on failing: whatever lost, refused and     *)
(* late answers have left behind, the program recovers from it.  A modem that  *)
(* goes on being slower than the time-outs counts as failing.                  *)
QueueDrains == []<><<ModemFails>>_vars \/ []<>(SmsQueue = <<>>)

(* The signal strength is asked for anew when it is old: "1 hour"               *)
(* (GsmLogic.ino:556).                                                         *)
SignalStrengthExpires == [](SignalStrengthAcquired => <>~SignalStrengthAcquired)
=============================================================================
