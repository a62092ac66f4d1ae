------------------------------- MODULE GsmText -------------------------------
(***************************************************************************)
(* The text that GsmCommands.ino accumulates in _dataToProcess, and the    *)
(* searches its parsers make in it.                                        *)
(*                                                                         *)
(* The text is a sequence of pieces, each the shortest text whose arrival  *)
(* a parser can tell apart: a result line, or one half of a notification   *)
(* (the header and the body line of an SMS, the start and the rest of a    *)
(* RING).  A search returns the index of the piece that completes the      *)
(* match, and 0 for the code's -1; Cut is _dataToProcess.substring(n).     *)
(***************************************************************************)
EXTENDS Integers, Sequences, FiniteSets, FiniteSetsExt

CONSTANT MaxSms        \* bound: how many SMS the network delivers in a behaviour

ASSUME MaxSmsAssumption == MaxSms \in Nat

(* Whom an SMS comes from: GsmLogic_IsSmsSenderAuthorized / Ignored / neither. *)
Senders == {"registered", "ignored", "other"}

(* What an SMS says.  OPEN and CLOSE carry a registered number as second       *)
(* parameter, the _OTHER forms an unregistered one, the _BAD forms lack their  *)
(* commas.  OK and ERROR are unknown commands with the text of a result line.  *)
Texts == {"STATUS", "OPEN", "OPEN_OTHER", "OPEN_BAD", "CLOSE", "CLOSE_OTHER",
          "CLOSE_BAD", "SENDSMS", "SENDSMS_BAD", "RESET", "OK", "ERROR", "OTHER"}

(* OK_RESPONSE, ERROR_RESPONSE, the "Kredit: .. din" line of a good and of a  *)
(* low credit, GET_CREDIT_FINAL_RESPONSE, SIGNAL_STRENGTH_RESPONSE_START and   *)
(* SMS_SEND_RESPONSE_START.                                                    *)
Replies == {"OK", "ERROR", "CREDIT_GOOD", "CREDIT_LOW", "CUSD2", "CSQ", "CMGS"}
Kinds   == Replies \cup {"CMT", "BODY", "RING", "CLIP"}

Piece == [kind : Kinds, id : 0..MaxSms, from : Senders \cup {""}, text : Texts \cup {""}]

Plain(k)     == [kind |-> k, id |-> 0, from |-> "", text |-> ""]
Header(i, f) == [kind |-> "CMT", id |-> i, from |-> f, text |-> ""]
Body(i, t)   == [kind |-> "BODY", id |-> i, from |-> "", text |-> t]

-----------------------------------------------------------------------------
(* indexOf: the first piece of a kind, and FindString for the three searches    *)
(* that the content of an SMS can satisfy too.  A body line "OK" follows its   *)
(* header's line end, so it reads "\r\nOK\r\n"; ERROR_RESPONSE has no line ends  *)
(* and is found inside any body.                                               *)
First(I) == IF I = {} THEN 0 ELSE Min(I)

Find(b, k)    == First({i \in 1..Len(b) : b[i].kind = k})
FindOk(b)     == First({i \in 1..Len(b) : \/ b[i].kind = "OK"
                                          \/ i > 1 /\ b[i].kind = "BODY" /\ b[i].text = "OK"})
FindError(b)  == First({i \in 1..Len(b) : "ERROR" \in {b[i].kind, b[i].text}})
FindCredit(b) == First({i \in 1..Len(b) : b[i].kind \in {"CREDIT_GOOD", "CREDIT_LOW"}})

CutNothing(b, n) == b     \* mutant: the handled text stays in the buffer
Cut(b, n) == SubSeq(b, n + 1, Len(b))

(* FindSmsNotification: the first header, once the line after it is complete.  *)
(* The result is the index of that line, which holds the content.              *)
FindSms(b) == LET h == Find(b, "CMT") IN IF h # 0 /\ h < Len(b) THEN h + 1 ELSE 0

(* FindRingNotification finds "RING .. +CLIP" even when the rest of its line   *)
(* has not arrived: both searches for the end fail and the test at :1036 lets  *)
(* that pass.                                                                  *)
FindRing(b) == Find(b, "RING")

(* foundEndIndex of such a half ring is -1 + 2, so only the first character of *)
(* the whole text goes: its first piece is no longer recognised, except a      *)
(* piece whose keyword is not at its front.                                    *)
WithoutFirstCharacter(b) ==
  {Tail(b)} \cup {c \in {b} : Head(c).kind \in {"ERROR", "CREDIT_GOOD", "CREDIT_LOW"}}

(* What can be left of the text when its first RING has been handled.          *)
AfterRing(b) ==
  IF FindRing(b) < Len(b) THEN {Cut(b, FindRing(b) + 1)} ELSE WithoutFirstCharacter(b)
=============================================================================
