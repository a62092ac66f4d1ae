----------------------------- MODULE SmsService -----------------------------
(***************************************************************************)
(* What the GSM part promises its correspondents: SMSs are dealt with once *)
(* and in order, each of them is answered by one message at most or moves  *)
(* the door; messages are sent one at a time and in order, and one leaves  *)
(* only when it was confirmed, and then for good.                          *)
(***************************************************************************)
EXTENDS Integers, Sequences

CONSTANT QueueSize      \* the record count of SmsQueue

AnswerWhats == {"UNREGISTERED", "STATUS", "FORMAT", "FORWARD"}
NoticeWhats == {"RESET OCCURED", "LOW CREDIT"}

VARIABLES
  unsent,     \* the messages that wait, the oldest first
  given,      \* the message that the modem was given: <<>> or <<m>>
  confirmed,  \* was a confirmation seen since?
  seen,       \* the number of the last SMS dealt with
  moved       \* the number of the SMS that last moved the door

serviceVars == <<unsent, given, confirmed, seen, moved>>

ServiceInit ==
  unsent = <<>> /\ given = <<>> /\ confirmed = FALSE /\ seen = 0 /\ moved = 0

(* A message is added, unless there is no room for it. *)
Adds(whats, i) ==
  \E what \in whats :
    unsent' = IF Len(unsent) < QueueSize THEN Append(unsent, [what |-> what, id |-> i]) ELSE unsent

Receive ==
  /\ seen' > seen
  /\ \/ moved' = seen' /\ UNCHANGED unsent
     \/ moved' = moved /\ (Adds(AnswerWhats, seen') \/ UNCHANGED unsent)
  /\ UNCHANGED <<given, confirmed>>

Notify == Adds(NoticeWhats, 0) /\ UNCHANGED <<given, confirmed, seen, moved>>

(* A notice may be added along with it. *)
Give ==
  /\ unsent # <<>> /\ given = <<>>
  /\ given' = <<Head(unsent)>>
  /\ Adds(NoticeWhats, 0) \/ UNCHANGED unsent
  /\ UNCHANGED <<confirmed, seen, moved>>

Confirm ==
  /\ given # <<>> /\ ~confirmed /\ confirmed'
  /\ UNCHANGED <<unsent, given, seen, moved>>

(* The modem has refused the message, or has not answered in time: it waits on. *)
Fail ==
  /\ given # <<>> /\ ~confirmed /\ given' = <<>>
  /\ UNCHANGED <<unsent, confirmed, seen, moved>>

Leave ==
  /\ confirmed /\ given = <<Head(unsent)>>
  /\ unsent' = Tail(unsent) /\ given' = <<>> /\ confirmed' = FALSE
  /\ UNCHANGED <<seen, moved>>

(* The watchdog restarts the program: what waits is lost. *)
Lose ==
  /\ unsent' = <<>> /\ given' = <<>> /\ confirmed' = FALSE
  /\ UNCHANGED <<seen, moved>>

ServiceNext ==
  \/ Receive \/ Notify \/ Give \/ Confirm \/ Fail \/ Leave \/ Lose

ServiceSpec == ServiceInit /\ [][ServiceNext]_serviceVars
=============================================================================
