---------------------------- MODULE GsmSmsProofs ----------------------------
(***************************************************************************)
(* Theorems about the way of an SMS through GsmLogic: from the UART into   *)
(* the received text, out of it once and in order, and to the door.        *)
(***************************************************************************)
EXTENDS GsmLogicProofs

-----------------------------------------------------------------------------
(* The text the program has or will have: what it holds, then the UART.        *)
TextLen == Len(dataToProcess) + Len(rx)
TextAt(i) == IF i <= Len(dataToProcess) THEN dataToProcess[i] ELSE rx[i - Len(dataToProcess)]

(* Every header in it stands before its body, is newer than what was handled   *)
(* and what stands before it, and is among the orders if it makes one.         *)
SmsInText ==
  \A i \in 1..TextLen : TextAt(i).kind = "CMT" =>
    /\ i + 1 <= TextLen /\ TextAt(i + 1).kind = "BODY"
    /\ handled < TextAt(i).id /\ TextAt(i).id <= delivered
    /\ TextAt(i).from = "registered" /\ TextAt(i + 1).text \in {"OPEN", "CLOSE"}
         => TextAt(i).id \in orders
    /\ \A j \in 1..(i - 1) : TextAt(j).kind = "CMT" => TextAt(j).id < TextAt(i).id

(* The modem owes reply lines only: an SMS never hides among them.             *)
RepliesPlain == \A i \in 1..Len(replies) : replies[i].kind # "CMT"

SmsInv == SmsInText /\ handled <= delivered /\ RepliesPlain

-----------------------------------------------------------------------------
(* Two things can happen to the text: its first m pieces go, or some are added. *)
Drops(m) ==
  /\ m \in 0..TextLen /\ TextLen' = TextLen - m
  /\ \A i \in 1..(TextLen - m) : TextAt(i)' = TextAt(m + i)

Adds(k) ==
  /\ TextLen' = TextLen + k
  /\ \A i \in 1..TextLen : TextAt(i)' = TextAt(i)

(* What TypeOK says of the text as a whole.                                    *)
LEMMA TextIsTyped ==
  ASSUME TypeOK
  PROVE  /\ dataToProcess \in Seq(Piece) /\ rx \in Seq(Piece)
         /\ TextLen \in Nat /\ \A i \in 1..TextLen : TextAt(i).id \in Nat
         /\ handled \in Nat /\ delivered \in Nat
<1>1. dataToProcess \in Seq(Piece) /\ rx \in Seq(Piece)
  BY DEF TypeOK, TextType
<1>2. TextLen \in Nat
  BY <1>1 DEF TextLen
<1>3. ASSUME NEW i \in 1..TextLen PROVE TextAt(i).id \in Nat
  <2>1. ASSUME i <= Len(dataToProcess) PROVE TextAt(i) \in Piece
    BY <1>1, <2>1 DEF TextAt
  <2>2. ASSUME ~(i <= Len(dataToProcess)) PROVE TextAt(i) \in Piece
    <3>1. i - Len(dataToProcess) \in 1..Len(rx)
      BY <1>1, <2>2 DEF TextLen
    <3> QED
      BY <1>1, <2>2, <3>1 DEF TextAt
  <2>3. TextAt(i) \in Piece
    BY <2>1, <2>2
  <2>4. TextAt(i).id \in 0..MaxSms
    BY <2>3 DEF Piece
  <2> QED
    BY <2>4, ConstantsAreNat
<1> QED
  BY <1>1, <1>2, <1>3, ConstantsAreNat DEF TypeOK, WorldType, GhostsType

(* What the headers of the rest are is as true of them as before, when the SMS  *)
(* handled last, if there is a new one, was among what went.                   *)
LEMMA DropKeepsSms ==
  ASSUME TypeOK, SmsInText, NEW m, Drops(m), UNCHANGED <<delivered, orders>>,
         \/ handled' = handled
         \/ \E k \in 1..m : TextAt(k).kind = "CMT" /\ handled' = TextAt(k).id
  PROVE  SmsInText'
<1>1. /\ m \in 0..TextLen /\ TextLen \in Nat /\ TextLen' = TextLen - m
      /\ \A i \in 1..(TextLen - m) : TextAt(i)' = TextAt(m + i)
  BY TextIsTyped DEF Drops
<1> SUFFICES ASSUME NEW i \in 1..TextLen', TextAt(i)'.kind = "CMT"
             PROVE  /\ i + 1 <= TextLen' /\ TextAt(i + 1)'.kind = "BODY"
                    /\ handled' < TextAt(i)'.id /\ TextAt(i)'.id <= delivered'
                    /\ TextAt(i)'.from = "registered" /\ TextAt(i + 1)'.text \in {"OPEN", "CLOSE"}
                         => TextAt(i)'.id \in orders'
                    /\ \A j \in 1..(i - 1) :
                         TextAt(j)'.kind = "CMT" => TextAt(j)'.id < TextAt(i)'.id
  BY DEF SmsInText
<1>2. m + i \in 1..TextLen /\ TextAt(i)' = TextAt(m + i) /\ TextAt(m + i).kind = "CMT"
  BY <1>1
<1>3. /\ (m + i) + 1 <= TextLen /\ TextAt((m + i) + 1).kind = "BODY"
      /\ handled < TextAt(m + i).id /\ TextAt(m + i).id <= delivered
      /\ TextAt(m + i).from = "registered" /\ TextAt((m + i) + 1).text \in {"OPEN", "CLOSE"}
           => TextAt(m + i).id \in orders
      /\ \A j \in 1..((m + i) - 1) : TextAt(j).kind = "CMT" => TextAt(j).id < TextAt(m + i).id
  BY <1>2 DEF SmsInText
<1>4. i + 1 \in 1..(TextLen - m) /\ TextAt(i + 1)' = TextAt((m + i) + 1)
  <2>1. i + 1 \in 1..(TextLen - m) /\ m + (i + 1) = (m + i) + 1
    BY <1>1, <1>3
  <2> QED
    BY <1>1, <2>1
<1>5. handled' < TextAt(m + i).id
  <2>1. CASE handled' = handled
    BY <1>3, <2>1
  <2>2. ASSUME NEW k \in 1..m, TextAt(k).kind = "CMT", handled' = TextAt(k).id
        PROVE  handled' < TextAt(m + i).id
    <3>1. k \in 1..((m + i) - 1)
      BY <1>1
    <3> QED
      BY <1>3, <2>2, <3>1
  <2> QED
    BY <2>1, <2>2
<1>6. ASSUME NEW j \in 1..(i - 1), TextAt(j)'.kind = "CMT"
      PROVE  TextAt(j)'.id < TextAt(i)'.id
  <2>1. j \in 1..(TextLen - m) /\ m + j \in 1..((m + i) - 1)
    BY <1>1
  <2> QED
    BY <1>1, <1>2, <1>3, <1>6, <2>1
<1> QED
  BY <1>1, <1>2, <1>3, <1>4, <1>5, <1>6

(* Pieces that are no headers may be added at the end.                         *)
LEMMA AddKeepsSms ==
  ASSUME TypeOK, SmsInText, NEW k \in Nat, Adds(k), UNCHANGED <<delivered, orders, handled>>,
         \A i \in (TextLen + 1)..(TextLen + k) : TextAt(i)'.kind # "CMT"
  PROVE  SmsInText'
<1>1. /\ TextLen \in Nat /\ TextLen' = TextLen + k
      /\ \A i \in 1..TextLen : TextAt(i)' = TextAt(i)
  BY TextIsTyped DEF Adds
<1> SUFFICES ASSUME NEW i \in 1..TextLen', TextAt(i)'.kind = "CMT"
             PROVE  /\ i + 1 <= TextLen' /\ TextAt(i + 1)'.kind = "BODY"
                    /\ handled' < TextAt(i)'.id /\ TextAt(i)'.id <= delivered'
                    /\ TextAt(i)'.from = "registered" /\ TextAt(i + 1)'.text \in {"OPEN", "CLOSE"}
                         => TextAt(i)'.id \in orders'
                    /\ \A j \in 1..(i - 1) :
                         TextAt(j)'.kind = "CMT" => TextAt(j)'.id < TextAt(i)'.id
  BY DEF SmsInText
<1>2. i \in 1..TextLen /\ TextAt(i)' = TextAt(i) /\ TextAt(i).kind = "CMT"
  BY <1>1
<1>3. /\ i + 1 <= TextLen /\ TextAt(i + 1).kind = "BODY"
      /\ handled < TextAt(i).id /\ TextAt(i).id <= delivered
      /\ TextAt(i).from = "registered" /\ TextAt(i + 1).text \in {"OPEN", "CLOSE"}
           => TextAt(i).id \in orders
      /\ \A j \in 1..(i - 1) : TextAt(j).kind = "CMT" => TextAt(j).id < TextAt(i).id
  BY <1>2 DEF SmsInText
<1>4. i + 1 \in 1..TextLen /\ TextAt(i + 1)' = TextAt(i + 1)
  BY <1>1, <1>2, <1>3
<1>5. \A j \in 1..(i - 1) : j \in 1..TextLen /\ TextAt(j)' = TextAt(j)
  BY <1>1, <1>2
<1> QED
  BY <1>1, <1>2, <1>3, <1>4, <1>5

-----------------------------------------------------------------------------
(* How the program's steps drop text.                                          *)

(* The received text alone loses its first m pieces.                           *)
LEMMA CutDrops ==
  ASSUME TypeOK, NEW m \in 0..Len(dataToProcess), dataToProcess' = Cut(dataToProcess, m),
         rx' = rx
  PROVE  Drops(m)
<1>1. /\ dataToProcess \in Seq(Piece) /\ rx \in Seq(Piece)
      /\ Len(dataToProcess) \in Nat /\ Len(rx) \in Nat
  BY DEF TypeOK, TextType
<1>2. /\ Len(dataToProcess') = Len(dataToProcess) - m
      /\ \A i \in 1..(Len(dataToProcess) - m) : dataToProcess'[i] = dataToProcess[m + i]
  BY <1>1, CutIsSuffix
<1>3. m \in 0..TextLen /\ TextLen' = TextLen - m
  BY <1>1, <1>2 DEF TextLen
<1>4. ASSUME NEW i \in 1..(TextLen - m) PROVE TextAt(i)' = TextAt(m + i)
  <2>1. CASE i <= Len(dataToProcess) - m
    <3>1. m + i <= Len(dataToProcess) /\ i <= Len(dataToProcess')
      BY <1>1, <1>2, <2>1
    <3> QED
      BY <1>1, <1>2, <2>1, <3>1 DEF TextAt
  <2>2. CASE ~(i <= Len(dataToProcess) - m)
    <3>1. /\ ~(m + i <= Len(dataToProcess)) /\ ~(i <= Len(dataToProcess'))
          /\ i - Len(dataToProcess') = m + i - Len(dataToProcess)
      BY <1>1, <1>2, <2>2 DEF TextLen
    <3> QED
      BY <3>1 DEF TextAt
  <2> QED
    BY <2>1, <2>2
<1> QED
  BY <1>3, <1>4 DEF Drops

(* All of the received text goes.                                              *)
LEMMA PurgeDrops ==
  ASSUME TypeOK, dataToProcess' = <<>>, rx' = rx
  PROVE  Drops(Len(dataToProcess))
<1>1. dataToProcess \in Seq(Piece) /\ Len(dataToProcess) \in Nat
  BY DEF TypeOK, TextType
<1>2. Len(Cut(dataToProcess, Len(dataToProcess))) = 0
  BY <1>1, CutIsSuffix
<1>3. Cut(dataToProcess, Len(dataToProcess)) = <<>>
  BY <1>1, <1>2, CutIsSuffix, EmptySeq
<1> QED
  BY <1>1, <1>3, CutDrops

(* Where what is left of the UART's r pieces stands, when n of them have gone   *)
(* behind a text of l pieces and the first m of the whole were cut.            *)
LEMMA BeyondTheText ==
  ASSUME NEW l \in Nat, NEW r \in Nat, NEW n \in 1..r, NEW m \in 0..(l + n),
         NEW i \in 1..(l + r - m), ~(i <= l + n - m)
  PROVE  /\ ~(m + i <= l) /\ i - (l + n - m) \in 1..(r - n)
         /\ n + (i - (l + n - m)) = m + i - l
OBVIOUS

(* GsmCommands_loop moves text from the UART behind the received text, which    *)
(* drops nothing, and then its parser may cut m pieces.                         *)
LEMMA ReadDrops ==
  ASSUME TypeOK, NEW n \in 1..Len(rx), NEW b, b = dataToProcess \o SubSeq(rx, 1, n),
         rx' = Cut(rx, n), NEW m \in 0..Len(b), dataToProcess' = Cut(b, m)
  PROVE  Drops(m)
<1>1. /\ dataToProcess \in Seq(Piece) /\ rx \in Seq(Piece)
      /\ Len(dataToProcess) \in Nat /\ Len(rx) \in Nat
  BY DEF TypeOK, TextType
<1>2. /\ SubSeq(rx, 1, n) \in Seq(Piece) /\ Len(SubSeq(rx, 1, n)) = n
      /\ \A i \in 1..n : SubSeq(rx, 1, n)[i] = rx[i]
  <2>1. \A i \in 1..n : rx[i] \in Piece
    BY <1>1
  <2> QED
    BY <1>1, <2>1, SubSeqProperties
<1>3. /\ b \in Seq(Piece) /\ Len(b) = Len(dataToProcess) + n
      /\ \A i \in 1..Len(b) : b[i] = IF i <= Len(dataToProcess) THEN dataToProcess[i]
                                     ELSE rx[i - Len(dataToProcess)]
  <2> DEFINE part == SubSeq(rx, 1, n)
  <2>1. /\ b \in Seq(Piece) /\ Len(b) = Len(dataToProcess) + Len(part)
        /\ \A i \in 1..(Len(dataToProcess) + Len(part)) :
             b[i] = IF i <= Len(dataToProcess) THEN dataToProcess[i]
                    ELSE part[i - Len(dataToProcess)]
    BY <1>1, <1>2, ConcatProperties
  <2>2. \A i \in 1..Len(b) : i <= Len(dataToProcess) \/ i - Len(dataToProcess) \in 1..n
    BY <1>1, <1>2, <2>1
  <2> QED
    BY <1>2, <2>1, <2>2
<1>4. /\ Len(dataToProcess') = Len(b) - m
      /\ \A i \in 1..(Len(b) - m) : dataToProcess'[i] = b[m + i]
  BY <1>3, CutIsSuffix
<1>5. Len(rx') = Len(rx) - n /\ \A i \in 1..(Len(rx) - n) : rx'[i] = rx[n + i]
  <2>1. n \in 0..Len(rx)
    BY <1>1
  <2>2. /\ Len(Cut(rx, n)) = Len(rx) - n
        /\ \A i \in 1..(Len(rx) - n) : Cut(rx, n)[i] = rx[n + i]
    BY <1>1, <2>1, CutIsSuffix
  <2> QED
    BY <2>2
<1>6. m \in 0..TextLen /\ TextLen' = TextLen - m
  <2>1. TextLen' = (Len(b) - m) + (Len(rx) - n)
    BY <1>4, <1>5 DEF TextLen
  <2>2. TextLen = Len(dataToProcess) + Len(rx) /\ Len(b) = Len(dataToProcess) + n
    BY <1>3 DEF TextLen
  <2> QED
    BY <1>1, <2>1, <2>2
<1>7. ASSUME NEW i \in 1..(TextLen - m) PROVE TextAt(i)' = TextAt(m + i)
  <2>1. CASE i <= Len(b) - m
    <3>1. m + i \in 1..Len(b) /\ i <= Len(dataToProcess')
      BY <1>1, <1>3, <1>4, <2>1
    <3>2. TextAt(i)' = b[m + i]
      BY <1>3, <1>4, <2>1, <3>1 DEF TextAt
    <3> QED
      BY <1>3, <3>1, <3>2 DEF TextAt
  <2>2. CASE ~(i <= Len(b) - m)
    <3>1. /\ ~(i <= Len(dataToProcess')) /\ ~(m + i <= Len(dataToProcess))
          /\ i - Len(dataToProcess') \in 1..(Len(rx) - n)
          /\ n + (i - Len(dataToProcess')) = m + i - Len(dataToProcess)
      <4> DEFINE l == Len(dataToProcess)
                 r == Len(rx)
      <4>1. Len(dataToProcess') = l + n - m /\ ~(i <= l + n - m)
        BY <1>3, <1>4, <2>2
      <4>2. i \in 1..(l + r - m)
        BY DEF TextLen
      <4>3. l \in Nat /\ r \in Nat /\ n \in 1..r
        BY <1>1
      <4>4. m \in 0..(l + n)
        BY <1>3
      <4> HIDE DEF l, r
      <4>5. /\ ~(m + i <= l) /\ i - (l + n - m) \in 1..(r - n)
            /\ n + (i - (l + n - m)) = m + i - l
        BY <4>1, <4>2, <4>3, <4>4, BeyondTheText
      <4> QED
        BY <4>1, <4>5 DEF l, r
    <3>2. TextAt(i)' = rx'[i - Len(dataToProcess')]
      BY <3>1 DEF TextAt
    <3>3. rx'[i - Len(dataToProcess')] = rx[m + i - Len(dataToProcess)]
      BY <1>5, <3>1
    <3> QED
      BY <3>1, <3>2, <3>3 DEF TextAt
  <2> QED
    BY <2>1, <2>2
<1> QED
  BY <1>6, <1>7 DEF Drops

(* To keep a text, to lose its first piece and to lose all of it are cuts, too. *)
LEMMA EveryCut ==
  ASSUME NEW b \in Seq(Piece)
  PROVE  /\ Cut(b, 0) = b /\ Cut(b, Len(b)) = <<>> /\ Len(b) \in Nat
         /\ b # <<>> => Len(b) >= 1 /\ Cut(b, 1) = Tail(b)
<1>1. Len(b) \in Nat
  OBVIOUS
<1>2. Cut(b, 0) = b
  <2>1. /\ Cut(b, 0) \in Seq(Piece) /\ Len(Cut(b, 0)) = Len(b)
        /\ \A i \in 1..Len(b) : Cut(b, 0)[i] = b[i]
    BY <1>1, CutIsSuffix
  <2> QED
    BY <2>1, SeqEqual
<1>3. Cut(b, Len(b)) = <<>>
  BY <1>1, CutIsSuffix, EmptySeq
<1>4. ASSUME b # <<>> PROVE Len(b) >= 1 /\ Cut(b, 1) = Tail(b)
  <2>1. /\ Tail(b) \in Seq(Piece) /\ Len(Tail(b)) = Len(b) - 1 /\ Len(b) >= 1
        /\ \A i \in 1..Len(Tail(b)) : Tail(b)[i] = b[i + 1]
    BY <1>1, <1>4, HeadTailProperties, EmptySeq
  <2>2. /\ Cut(b, 1) \in Seq(Piece) /\ Len(Cut(b, 1)) = Len(b) - 1
        /\ \A i \in 1..(Len(b) - 1) : Cut(b, 1)[i] = b[1 + i]
    <3>1. 1 \in 0..Len(b)
      BY <1>1, <2>1
    <3> QED
      BY <3>1, CutIsSuffix
  <2>3. \A i \in 1..Len(Cut(b, 1)) : Cut(b, 1)[i] = Tail(b)[i]
    BY <1>1, <2>1, <2>2
  <2> QED
    BY <2>1, <2>2, <2>3, SeqEqual
<1> QED
  BY <1>1, <1>2, <1>3, <1>4

(* Every parser leaves a suffix of the text it was called with; the idle one    *)
(* leaves it all to the loop over notifications.                               *)
LEMMA ParserCuts ==
  ASSUME NEW b \in Seq(Piece),
         \/ ParseSimple(b) \/ ParseGetOperatorCreditResponse(b)
         \/ ParseGetSignalStrengthResponse(b) \/ ParseSendSmsResponse(b) \/ Work(b, "Idle")
  PROVE  \E m \in 0..Len(b) : dataToProcess' = Cut(b, m) /\ (Work(b, "Idle") => m = 0)
<1>1. /\ Cut(b, 0) = b /\ Cut(b, Len(b)) = <<>> /\ Len(b) \in Nat
      /\ FindOk(b) \in 0..Len(b) /\ FindError(b) \in 0..Len(b)
  BY EveryCut, SearchesInRange
<1>2. CASE dataToProcess' = b
  BY <1>1, <1>2
<1>3. CASE ~(dataToProcess' = b)
  <2>1. ~Work(b, "Idle") /\ ~Work(b, "OK") /\ ~Keep(b)
    BY <1>3 DEF Work, Keep
  <2>2. dataToProcess' \in {Cut(b, FindOk(b)), Cut(b, FindError(b)), <<>>}
    BY <2>1 DEF ParseSimple, ParseGetOperatorCreditResponse, ParseGetSignalStrengthResponse,
       ParseSendSmsResponse, Refused, Keep
  <2> QED
    BY <1>1, <2>1, <2>2
<1> QED
  BY <1>2, <1>3

(* GsmCommands_loop loses text only to the parser of a command.                *)
LEMMA LoopDrops ==
  ASSUME TypeOK, GsmCommands_loop
  PROVE  \E m : Drops(m) /\ (parser = "Idle" => m = 0)
<1>1. PICK n \in 1..Len(rx) :
        LET b == dataToProcess \o SubSeq(rx, 1, n)
        IN  /\ rx' = Cut(rx, n)
            /\ CASE parser = "Idle" -> Silent /\ Work(b, "Idle") /\ UNCHANGED notices
                 [] parser = "Simple"  -> ParseSimple(b)
                 [] parser = "Credit"  -> ParseGetOperatorCreditResponse(b)
                 [] parser = "Signal"  -> ParseGetSignalStrengthResponse(b)
                 [] parser = "SendSms" -> ParseSendSmsResponse(b)
  BY DEF GsmCommands_loop
<1> DEFINE b == dataToProcess \o SubSeq(rx, 1, n)
<1>2. b \in Seq(Piece)
  <2>1. rx \in Seq(Piece) /\ Len(rx) \in Nat /\ dataToProcess \in Seq(Piece)
    BY DEF TypeOK, TextType
  <2>2. \A i \in 1..n : rx[i] \in Piece
    BY <2>1
  <2>3. SubSeq(rx, 1, n) \in Seq(Piece)
    BY <2>2, SubSeqProperties
  <2> QED
    BY <2>1, <2>3, ConcatProperties
<1> HIDE DEF b
<1>3. /\ rx' = Cut(rx, n)
      /\ parser = "Idle" => Work(b, "Idle")
      /\ \/ ParseSimple(b) \/ ParseGetOperatorCreditResponse(b)
         \/ ParseGetSignalStrengthResponse(b) \/ ParseSendSmsResponse(b) \/ Work(b, "Idle")
  BY <1>1 DEF b, TypeOK, ControlType, Parsers
<1>4. PICK m \in 0..Len(b) : dataToProcess' = Cut(b, m) /\ (Work(b, "Idle") => m = 0)
  BY <1>2, <1>3, ParserCuts
<1>5. Drops(m)
  BY <1>3, <1>4, ReadDrops DEF b
<1> QED
  BY <1>3, <1>4, <1>5

(* What the steps of the loop over notifications leave of the text.            *)
LEMMA HandleSmsDrops ==
  ASSUME TypeOK, SmsInText, HandleSms
  PROVE  /\ Drops(FindSms(dataToProcess)) /\ FindSms(dataToProcess) \in 2..TextLen
         /\ TextAt(FindSms(dataToProcess) - 1).kind = "CMT"
         /\ handled' = TextAt(FindSms(dataToProcess) - 1).id
         /\ \A i \in 1..FindSms(dataToProcess) :
              TextAt(i).kind = "CMT" => i = FindSms(dataToProcess) - 1
<1> DEFINE n == FindSms(dataToProcess)
<1>1. /\ dataToProcess \in Seq(Piece) /\ Len(dataToProcess) \in Nat /\ Len(rx) \in Nat
      /\ n \in 2..Len(dataToProcess) /\ n - 1 = Find(dataToProcess, "CMT")
      /\ dataToProcess[n - 1].kind = "CMT"
  BY FindSmsIsBodyOfFirstHeader DEF HandleSms, TypeOK, TextType
<1>2. /\ dataToProcess' = Cut(dataToProcess, n) /\ rx' = rx
      /\ handled' = dataToProcess[n - 1].id
  BY DEF HandleSms, outside
<1> HIDE DEF n
<1>3. \A i \in 1..Len(dataToProcess) : TextAt(i) = dataToProcess[i]
  BY <1>1 DEF TextAt
<1>4. n \in 2..TextLen /\ TextAt(n - 1) = dataToProcess[n - 1] /\ n - 1 \in 1..TextLen
  BY <1>1, <1>3 DEF TextLen
<1>5. ASSUME NEW i \in 1..n, TextAt(i).kind = "CMT" PROVE i = n - 1
  <2>1. i \in 1..Len(dataToProcess) /\ dataToProcess[i].kind = "CMT"
    BY <1>1, <1>3, <1>5
  <2>2. n - 1 <= i
    BY <1>1, <2>1, FindIsFirstMatch
  <2>3. TextAt((n - 1) + 1).kind = "BODY"
    BY <1>1, <1>4 DEF SmsInText
  <2> QED
    BY <1>1, <1>5, <2>2, <2>3
<1>6. Drops(n)
  BY <1>1, <1>2, CutDrops
<1> QED
  BY <1>1, <1>2, <1>4, <1>5, <1>6 DEF n

(* ParseRing loses RING and the piece behind it, or its first character.       *)
LEMMA HandleRingDrops ==
  ASSUME TypeOK, HandleRing
  PROVE  \E m : Drops(m)
<1> DEFINE n == FindRing(dataToProcess)
<1>1. /\ dataToProcess \in Seq(Piece) /\ Len(dataToProcess) \in Nat
      /\ n \in 1..Len(dataToProcess) /\ dataToProcess' \in AfterRing(dataToProcess) /\ rx' = rx
  BY SearchesInRange DEF HandleRing, TypeOK, TextType
<1>2. CASE n < Len(dataToProcess)
  <2>1. n + 1 \in 0..Len(dataToProcess) /\ dataToProcess' = Cut(dataToProcess, n + 1)
    BY <1>1, <1>2 DEF AfterRing
  <2> QED
    BY <1>1, <2>1, CutDrops
<1>3. CASE ~(n < Len(dataToProcess))
  <2>1. dataToProcess' = Tail(dataToProcess) \/ dataToProcess' = dataToProcess
    BY <1>1, <1>3 DEF AfterRing, WithoutFirstCharacter
  <2>2. dataToProcess # <<>>
    BY <1>1
  <2>3. /\ dataToProcess' = Cut(dataToProcess, 1) \/ dataToProcess' = Cut(dataToProcess, 0)
        /\ {0, 1} \subseteq 0..Len(dataToProcess)
    BY <1>1, <2>1, <2>2, EveryCut
  <2> QED
    BY <1>1, <2>3, CutDrops
<1> QED
  BY <1>2, <1>3

(* Steps that keep the received text, or lose all of it.                       *)
LEMMA KeepOrPurgeDrops ==
  ASSUME TypeOK, rx' = rx, dataToProcess' \in {dataToProcess, <<>>}
  PROVE  \E m : Drops(m) /\ (dataToProcess' = dataToProcess => m = 0)
<1>1. dataToProcess \in Seq(Piece)
  BY DEF TypeOK, TextType
<1>2. CASE dataToProcess' = dataToProcess
  <2>1. 0 \in 0..Len(dataToProcess) /\ dataToProcess' = Cut(dataToProcess, 0)
    BY <1>1, <1>2, EveryCut
  <2>2. Drops(0)
    BY <1>2, <2>1, CutDrops
  <2> QED
    BY <2>2
<1>3. CASE dataToProcess' # dataToProcess
  BY <1>3, PurgeDrops
<1> QED
  BY <1>2, <1>3

(* The tick loses text only when it purges what no parser has worked off.      *)
LEMMA SecondDrops ==
  ASSUME TypeOK, GsmLogic_1sHandler
  PROVE  /\ \E m : Drops(m) /\ (dataToProcess' = dataToProcess => m = 0)
         /\ UNCHANGED <<delivered, orders, handled, doorOrder>>
         /\ pc = "loop" /\ pc' = "poll" /\ UNCHANGED after
         /\ dataToProcess' # dataToProcess => receiveTimeout + 1 > ReceiveTimeout
<1>1. Second(TRUE) \/ Second(FALSE)
  BY DEF GsmLogic_1sHandler, OddSecond, TickError, TickResetWait, TickInit, TickNextInitCommand,
    TickDeleteSms, TickGetCredit, TickGetSignalStrength, TickSendSms, TickNothingToDo,
    TickWaiting, Tick
<1>2. /\ rx' = rx /\ dataToProcess' \in {dataToProcess, <<>>}
      /\ UNCHANGED <<delivered, orders, handled, doorOrder>>
      /\ pc = "loop" /\ pc' = "poll" /\ UNCHANGED after
      /\ dataToProcess' # dataToProcess => receiveTimeout + 1 > ReceiveTimeout
  BY <1>1 DEF Second, PurgeStaleText, world
<1> QED
  BY <1>2, KeepOrPurgeDrops

(* After the notifications, text is lost only when the parser was not idle.    *)
LEMMA NotificationsDoneDrops ==
  ASSUME TypeOK, NotificationsDone
  PROVE  \E m : Drops(m) /\ (after = "Idle" => m = 0)
<1>1. /\ rx' = rx /\ dataToProcess' \in {dataToProcess, <<>>}
      /\ after = "Idle" => dataToProcess' = dataToProcess
  BY DEF NotificationsDone, outside, TypeOK, ControlType
<1> QED
  BY <1>1, KeepOrPurgeDrops

(* The steps of the program that leave the text as it is.                      *)
LEMMA OthersDropNothing ==
  ASSUME TypeOK,
         NothingArrived \/ NoRing \/ GsmCommands_100msHandler \/ UNCHANGED vars
  PROVE  Drops(0) /\ UNCHANGED <<delivered, orders, handled, doorOrder, replies>>
<1>1. rx' = rx /\ dataToProcess' = dataToProcess
  BY DEF NothingArrived, NoRing, GsmCommands_100msHandler, vars, outside, text, Keep, Work
<1>2. UNCHANGED <<delivered, orders, handled, doorOrder, replies>>
  BY DEF NothingArrived, NoRing, GsmCommands_100msHandler, vars, outside, world, ghosts
<1> QED
  BY <1>1, <1>2, KeepOrPurgeDrops

(* The restart loses the whole text, and nothing that is outside the program.  *)
LEMMA RestartDrops ==
  ASSUME TypeOK, WatchdogRestart
  PROVE  Drops(TextLen) /\ UNCHANGED <<delivered, orders, handled, doorOrder>>
<1>1. rx' = <<>> /\ dataToProcess' = <<>> /\ UNCHANGED <<world, ghosts>>
  BY DEF WatchdogRestart
<1>2. TextLen' = 0 /\ TextLen \in Nat
  BY <1>1, TextIsTyped DEF TextLen
<1> QED
  BY <1>1, <1>2 DEF Drops, world, ghosts

-----------------------------------------------------------------------------
(* The modem and the network only add to the text.                             *)
LEMMA PlusOne ==
  ASSUME TypeOK, NEW p \in Piece, rx' = Append(rx, p), UNCHANGED dataToProcess
  PROVE  Adds(1) /\ \A i : i = TextLen + 1 => TextAt(i)' = p
<1>1. /\ rx \in Seq(Piece) /\ Len(rx) \in Nat /\ Len(dataToProcess) \in Nat
      /\ Len(rx') = Len(rx) + 1 /\ rx'[Len(rx) + 1] = p
      /\ \A i \in 1..Len(rx) : rx'[i] = rx[i]
  BY AppendProperties DEF TypeOK, TextType
<1>2. TextLen' = TextLen + 1 /\ TextLen = Len(dataToProcess) + Len(rx)
  BY <1>1 DEF TextLen
<1>3. ASSUME NEW i \in 1..TextLen PROVE TextAt(i)' = TextAt(i)
  <2>1. i <= Len(dataToProcess) \/ i - Len(dataToProcess) \in 1..Len(rx)
    BY <1>1, <1>2
  <2> QED
    BY <1>1, <2>1 DEF TextAt
<1>4. ASSUME NEW i, i = TextLen + 1 PROVE TextAt(i)' = p
  <2>1. ~(i <= Len(dataToProcess)) /\ i - Len(dataToProcess) = Len(rx) + 1
    BY <1>1, <1>2, <1>4
  <2> QED
    BY <1>1, <2>1 DEF TextAt
<1> QED
  BY <1>2, <1>3, <1>4 DEF Adds

(* The modem adds two pieces: a header with its body, or RING with CLIP.       *)
LEMMA PlusTwo ==
  ASSUME TypeOK, NEW p \in Piece, NEW q \in Piece, rx' = rx \o <<p, q>>, UNCHANGED dataToProcess
  PROVE  /\ Adds(2)
         /\ \A i : i = TextLen + 1 => TextAt(i)' = p
         /\ \A i : i = TextLen + 2 => TextAt(i)' = q
<1>1. /\ rx \in Seq(Piece) /\ Len(rx) \in Nat /\ Len(dataToProcess) \in Nat
      /\ <<p, q>> \in Seq(Piece) /\ Len(<<p, q>>) = 2
  BY DEF TypeOK, TextType
<1>2. /\ Len(rx') = Len(rx) + 2
      /\ \A i \in 1..(Len(rx) + 2) :
           rx'[i] = IF i <= Len(rx) THEN rx[i] ELSE <<p, q>>[i - Len(rx)]
  BY <1>1, ConcatProperties
<1>3. /\ \A i \in 1..Len(rx) : rx'[i] = rx[i]
      /\ rx'[Len(rx) + 1] = p /\ rx'[Len(rx) + 2] = q
  BY <1>1, <1>2
<1>4. TextLen' = TextLen + 2 /\ TextLen = Len(dataToProcess) + Len(rx)
  BY <1>1, <1>2 DEF TextLen
<1>5. ASSUME NEW i \in 1..TextLen PROVE TextAt(i)' = TextAt(i)
  <2>1. i <= Len(dataToProcess) \/ i - Len(dataToProcess) \in 1..Len(rx)
    BY <1>1, <1>4
  <2> QED
    BY <1>1, <1>3, <2>1 DEF TextAt
<1>6. ASSUME NEW i, i = TextLen + 1 PROVE TextAt(i)' = p
  <2>1. ~(i <= Len(dataToProcess)) /\ i - Len(dataToProcess) = Len(rx) + 1
    BY <1>1, <1>4, <1>6
  <2> QED
    BY <1>1, <1>3, <2>1 DEF TextAt
<1>7. ASSUME NEW i, i = TextLen + 2 PROVE TextAt(i)' = q
  <2>1. ~(i <= Len(dataToProcess)) /\ i - Len(dataToProcess) = Len(rx) + 2
    BY <1>1, <1>4, <1>7
  <2> QED
    BY <1>1, <1>3, <2>1 DEF TextAt
<1> QED
  BY <1>4, <1>5, <1>6, <1>7 DEF Adds

(* A new SMS is newer than all that there is, and has its body behind it.      *)
LEMMA ArrivalKeepsSms ==
  ASSUME TypeOK, SmsInv, SmsArrives
  PROVE  SmsInText'
<1>1. PICK s \in Inbound :
        /\ rx' = rx \o <<Header(delivered + 1, s.from), Body(delivered + 1, s.text)>>
        /\ orders' = IF s.from = "registered" /\ s.text \in {"OPEN", "CLOSE"}
                     THEN orders \cup {delivered + 1} ELSE orders
  BY DEF SmsArrives
<1>2. /\ delivered' = delivered + 1 /\ handled' = handled /\ dataToProcess' = dataToProcess
      /\ delivered + 1 \in 0..MaxSms /\ handled \in Nat /\ delivered \in Nat
      /\ handled <= delivered /\ TextLen \in Nat
  BY TextIsTyped, ConstantsAreNat DEF SmsArrives, text, ghosts, TypeOK, WorldType, SmsInv
<1> DEFINE h == Header(delivered + 1, s.from)
           b == Body(delivered + 1, s.text)
<1>3. /\ h \in Piece /\ b \in Piece
      /\ h.kind = "CMT" /\ h.id = delivered + 1 /\ h.from = s.from
      /\ b.kind = "BODY" /\ b.text = s.text
  <2>1. s.from \in Senders /\ s.text \in Texts
    BY GsmAssumption
  <2> QED
    BY <1>2, <2>1 DEF Header, Body, Piece, Kinds
<1> HIDE DEF h, b
<1>4. /\ Adds(2)
      /\ \A i : i = TextLen + 1 => TextAt(i)' = h
      /\ \A i : i = TextLen + 2 => TextAt(i)' = b
  BY <1>1, <1>2, <1>3, PlusTwo DEF h, b
<1>5. TextLen' = TextLen + 2 /\ \A i \in 1..TextLen : TextAt(i)' = TextAt(i)
  BY <1>4 DEF Adds
<1>6. orders \subseteq orders'
      /\ (s.from = "registered" /\ s.text \in {"OPEN", "CLOSE"} => delivered + 1 \in orders')
  BY <1>1
<1> SUFFICES ASSUME NEW i \in 1..TextLen', TextAt(i)'.kind = "CMT"
             PROVE  /\ i + 1 <= TextLen' /\ TextAt(i + 1)'.kind = "BODY"
                    /\ handled' < TextAt(i)'.id /\ TextAt(i)'.id <= delivered'
                    /\ TextAt(i)'.from = "registered" /\ TextAt(i + 1)'.text \in {"OPEN", "CLOSE"}
                         => TextAt(i)'.id \in orders'
                    /\ \A j \in 1..(i - 1) :
                         TextAt(j)'.kind = "CMT" => TextAt(j)'.id < TextAt(i)'.id
  BY DEF SmsInText
<1>7. CASE i \in 1..TextLen
  <2>1. TextAt(i)' = TextAt(i) /\ TextAt(i).kind = "CMT"
    BY <1>5, <1>7
  <2>2. /\ i + 1 <= TextLen /\ TextAt(i + 1).kind = "BODY"
        /\ handled < TextAt(i).id /\ TextAt(i).id <= delivered
        /\ TextAt(i).from = "registered" /\ TextAt(i + 1).text \in {"OPEN", "CLOSE"}
             => TextAt(i).id \in orders
        /\ \A j \in 1..(i - 1) : TextAt(j).kind = "CMT" => TextAt(j).id < TextAt(i).id
    BY <1>7, <2>1 DEF SmsInv, SmsInText
  <2>3. i + 1 \in 1..TextLen /\ TextAt(i + 1)' = TextAt(i + 1)
    BY <1>2, <1>5, <1>7, <2>2
  <2>4. \A j \in 1..(i - 1) : TextAt(j)' = TextAt(j)
    BY <1>2, <1>5, <1>7
  <2>5. TextAt(i).id <= delivered + 1
    <3>1. TextAt(i).id \in Nat
      BY <1>7, TextIsTyped
    <3> QED
      BY <1>2, <2>2, <3>1
  <2> QED
    BY <1>2, <1>5, <1>6, <2>1, <2>2, <2>3, <2>4, <2>5
<1>8. CASE i = TextLen + 1
  <2>1. TextAt(i)' = h /\ TextAt(i + 1)' = b /\ i + 1 <= TextLen'
    BY <1>2, <1>4, <1>5, <1>8
  <2>2. ASSUME NEW j \in 1..(i - 1), TextAt(j)'.kind = "CMT"
        PROVE  TextAt(j)'.id < delivered + 1
    <3>1. j \in 1..TextLen /\ TextAt(j)' = TextAt(j)
      BY <1>2, <1>5, <1>8
    <3>2. TextAt(j).id <= delivered
      BY <2>2, <3>1 DEF SmsInv, SmsInText
    <3>3. TextAt(j).id \in Nat
      BY <3>1, TextIsTyped
    <3> QED
      BY <1>2, <3>1, <3>2, <3>3
  <2> QED
    BY <1>2, <1>3, <1>6, <2>1, <2>2
<1>9. CASE i = TextLen + 2
  BY <1>3, <1>4, <1>9
<1> QED
  BY <1>2, <1>5, <1>7, <1>8, <1>9

(* A reply line, or the two pieces of a RING, are no headers.                  *)
LEMMA WritingKeepsSms ==
  ASSUME TypeOK, SmsInv, ModemWrites \/ PhoneRings
  PROVE  SmsInText'
<1>1. /\ UNCHANGED <<delivered, orders, handled, dataToProcess>>
      /\ TextLen \in Nat
  BY TextIsTyped DEF ModemWrites, PhoneRings, text, ghosts
<1>2. CASE ModemWrites
  <2>1. Head(replies) \in Piece /\ Head(replies).kind # "CMT" /\ rx' = Append(rx, Head(replies))
    <3>1. replies \in Seq(Piece) /\ replies # <<>> /\ 1 \in 1..Len(replies)
      BY <1>2, EmptySeq DEF ModemWrites, TypeOK, TextType
    <3>2. Head(replies) = replies[1]
      BY <3>1
    <3> QED
      BY <1>2, <3>1, <3>2 DEF ModemWrites, SmsInv, RepliesPlain
  <2>2. Adds(1) /\ \A i : i = TextLen + 1 => TextAt(i)' = Head(replies)
    BY <1>1, <2>1, PlusOne
  <2>3. \A i \in (TextLen + 1)..(TextLen + 1) : TextAt(i)'.kind # "CMT"
    BY <1>1, <2>1, <2>2
  <2> QED
    BY <1>1, <2>2, <2>3, AddKeepsSms DEF SmsInv
<1>3. CASE PhoneRings
  <2>1. /\ Plain("RING") \in Piece /\ Plain("CLIP") \in Piece
        /\ Plain("RING").kind # "CMT" /\ Plain("CLIP").kind # "CMT"
    BY ConstantsAreNat DEF Plain, Piece, Kinds
  <2>2. /\ Adds(2)
        /\ \A i : i = TextLen + 1 => TextAt(i)' = Plain("RING")
        /\ \A i : i = TextLen + 2 => TextAt(i)' = Plain("CLIP")
    BY <1>1, <1>3, <2>1, PlusTwo DEF PhoneRings
  <2>3. \A i \in (TextLen + 1)..(TextLen + 2) : i = TextLen + 1 \/ i = TextLen + 2
    BY <1>1
  <2>4. \A i \in (TextLen + 1)..(TextLen + 2) : TextAt(i)'.kind # "CMT"
    BY <2>1, <2>2, <2>3
  <2> QED
    BY <1>1, <2>2, <2>4, AddKeepsSms DEF SmsInv
<1> QED
  BY <1>2, <1>3

(* What a command adds to the modem's replies are reply lines.                 *)
LEMMA SendKeepsPlain ==
  ASSUME TypeOK, RepliesPlain, NEW command \in Asked, SendGsmCommand(command)
  PROVE  RepliesPlain'
<1>1. PICK a \in Answers(command) :
        LET all == replies \o [i \in 1..Len(a) |-> Plain(a[i])]
        IN  replies' = IF Len(all) <= MaxReplies THEN all ELSE replies
  BY DEF SendGsmCommand
<1> DEFINE t == [i \in 1..Len(a) |-> Plain(a[i])]
<1>2. a \in Seq(Replies) /\ Len(a) \in Nat /\ \A i \in 1..Len(a) : a[i] \in Replies
  BY AnswersAreReplies
<1>3. ASSUME NEW i \in 1..Len(a) PROVE Plain(a[i]) \in Piece /\ Plain(a[i]).kind # "CMT"
  <2>1. a[i] \in Kinds /\ a[i] # "CMT"
    BY <1>2 DEF Kinds, Replies
  <2> QED
    BY <2>1, ConstantsAreNat DEF Plain, Piece
<1>4. t \in Seq(Piece) /\ Len(t) = Len(a)
  BY <1>2, <1>3, IsASeq
<1>5. \A i \in 1..Len(t) : t[i].kind # "CMT"
  BY <1>3, <1>4
<1> HIDE DEF t
<1>6. replies \in Seq(Piece) /\ Len(replies) \in Nat /\ Len(t) \in Nat
  BY <1>4 DEF TypeOK, TextType
<1>7. /\ Len(replies \o t) = Len(replies) + Len(t)
      /\ \A i \in 1..(Len(replies) + Len(t)) :
           (replies \o t)[i] = IF i <= Len(replies) THEN replies[i] ELSE t[i - Len(replies)]
  BY <1>4, <1>6, ConcatProperties
<1>8. ASSUME NEW i \in 1..Len(replies \o t) PROVE (replies \o t)[i].kind # "CMT"
  <2>1. i \in 1..Len(replies) \/ (~(i <= Len(replies)) /\ i - Len(replies) \in 1..Len(t))
    BY <1>6, <1>7
  <2> QED
    BY <1>5, <1>7, <2>1 DEF RepliesPlain
<1>9. replies' = replies \o t \/ replies' = replies
  BY <1>1 DEF t
<1>10. CASE replies' = replies
  BY <1>10 DEF RepliesPlain
<1>11. CASE replies' = replies \o t
  BY <1>8, <1>11 DEF RepliesPlain
<1> QED
  BY <1>9, <1>10, <1>11

(* So the modem owes reply lines only, whatever the step.                      *)
LEMMA RepliesStayPlain ==
  ASSUME TypeOK, RepliesPlain, [Next]_vars
  PROVE  RepliesPlain'
<1>1. ASSUME UNCHANGED replies PROVE RepliesPlain'
  BY <1>1 DEF RepliesPlain
<1>2. ASSUME replies' = <<>> PROVE RepliesPlain'
  BY <1>2, EmptySeq DEF RepliesPlain
<1>3. ASSUME NEW next, NEW kind \in Asked, Command(next, kind) PROVE RepliesPlain'
  BY <1>3, SendKeepsPlain DEF Command
<1>4. CASE ModemWrites
  <2>1. replies \in Seq(Piece) /\ replies # <<>> /\ replies' = Tail(replies)
    BY <1>4 DEF ModemWrites, TypeOK, TextType
  <2>2. /\ Len(replies') = Len(replies) - 1 /\ Len(replies) \in Nat
        /\ \A i \in 1..Len(replies') : replies'[i] = replies[i + 1]
    BY <2>1, HeadTailProperties
  <2>3. \A i \in 1..Len(replies') : i + 1 \in 1..Len(replies)
    BY <2>2
  <2> QED
    BY <2>2, <2>3 DEF RepliesPlain
<1>5. CASE SmsArrives \/ PhoneRings \/ GsmCommands_loop \/ HandleSms \/ NotificationsDone
  BY <1>1, <1>5 DEF SmsArrives, PhoneRings, GsmCommands_loop, HandleSms, NotificationsDone,
    outside
<1>6. CASE NothingArrived \/ NoRing \/ GsmCommands_100msHandler \/ UNCHANGED vars
  BY <1>1, <1>6, OthersDropNothing
<1>7. CASE HandleRing
  BY <1>7, SendKeepsPlain DEF HandleRing, Asked
<1>8. CASE GsmLogic_1sHandler
  <2>1. CASE OddSecond \/ TickResetWait \/ TickNothingToDo \/ TickWaiting
    BY <1>1, <2>1 DEF OddSecond, TickResetWait, TickNothingToDo, TickWaiting
  <2>2. CASE TickError
    BY <1>2, <2>2 DEF TickError
  <2>3. CASE TickInit \/ TickNextInitCommand \/ TickDeleteSms
    BY <1>3, <2>3 DEF TickInit, TickNextInitCommand, TickDeleteSms, Asked
  <2>4. CASE TickGetCredit \/ TickGetSignalStrength \/ TickSendSms
    BY <1>3, <2>4 DEF TickGetCredit, TickGetSignalStrength, TickSendSms, Asked
  <2> QED
    BY <1>8, <2>1, <2>2, <2>3, <2>4 DEF GsmLogic_1sHandler
<1>9. CASE WatchdogRestart
  BY <1>2, <1>9 DEF WatchdogRestart
<1> QED
  BY <1>4, <1>5, <1>6, <1>7, <1>8, <1>9 DEF Next, Modem, Notifications

-----------------------------------------------------------------------------
(* The steps in which nothing is handled and nothing arrives: text may go.     *)
LEMMA QuietStepDrops ==
  ASSUME TypeOK, [Next]_vars, ~Modem, ~HandleSms
  PROVE  /\ UNCHANGED <<delivered, orders, handled, doorOrder>>
         /\ \E m : Drops(m)
<1>1. CASE GsmCommands_loop
  BY <1>1, LoopDrops DEF GsmCommands_loop, world, ghosts
<1>2. CASE HandleRing
  BY <1>2, HandleRingDrops DEF HandleRing, world, ghosts
<1>3. CASE NotificationsDone
  BY <1>3, NotificationsDoneDrops DEF NotificationsDone, outside, world, ghosts
<1>4. CASE NothingArrived \/ NoRing \/ GsmCommands_100msHandler \/ UNCHANGED vars
  BY <1>4, OthersDropNothing
<1>5. CASE GsmLogic_1sHandler
  BY <1>5, SecondDrops
<1>6. CASE WatchdogRestart
  BY <1>6, RestartDrops
<1> QED
  BY <1>1, <1>2, <1>3, <1>4, <1>5, <1>6 DEF Next, Notifications

(* The invariant is inductive: text only goes, unless the modem adds to it.    *)
LEMMA SmsInvInductive ==
  ASSUME TypeOK, SmsInv, [Next]_vars
  PROVE  SmsInv'
<1>1. RepliesPlain'
  BY RepliesStayPlain DEF SmsInv, RepliesPlain
<1>2. CASE SmsArrives
  <2>1. handled' <= delivered'
    BY <1>2, TextIsTyped DEF SmsArrives, SmsInv, ghosts
  <2> QED
    BY <1>1, <1>2, <2>1, ArrivalKeepsSms DEF SmsInv, RepliesPlain
<1>3. CASE ModemWrites \/ PhoneRings
  <2>1. UNCHANGED <<delivered, handled>>
    BY <1>3 DEF ModemWrites, PhoneRings, ghosts
  <2> QED
    BY <1>1, <1>3, <2>1, WritingKeepsSms DEF SmsInv, RepliesPlain
<1>4. CASE HandleSms
  <2> DEFINE n == FindSms(dataToProcess)
  <2>1. /\ Drops(n) /\ n \in 2..TextLen
        /\ TextAt(n - 1).kind = "CMT" /\ handled' = TextAt(n - 1).id
    BY <1>4, HandleSmsDrops DEF SmsInv
  <2> HIDE DEF n
  <2>2. n - 1 \in 1..n /\ n - 1 \in 1..TextLen /\ UNCHANGED <<delivered, orders>>
    BY <1>4, <2>1, TextIsTyped DEF HandleSms, outside, world
  <2>3. SmsInText'
    BY <2>1, <2>2, DropKeepsSms DEF SmsInv
  <2>4. handled' <= delivered'
    BY <2>1, <2>2 DEF SmsInv, SmsInText
  <2> QED
    BY <1>1, <2>3, <2>4 DEF SmsInv, RepliesPlain
<1>5. CASE ~Modem /\ ~HandleSms
  <2>1. UNCHANGED <<delivered, orders, handled>> /\ \E m : Drops(m)
    BY <1>5, QuietStepDrops
  <2>2. SmsInText'
    BY <2>1, DropKeepsSms DEF SmsInv
  <2> QED
    BY <1>1, <2>1, <2>2 DEF SmsInv, RepliesPlain
<1> QED
  BY <1>2, <1>3, <1>4, <1>5 DEF Modem

(* And it holds at the start, when there is no text.                           *)
LEMMA SmsInvAtStart == Init => SmsInv
<1> SUFFICES ASSUME Init PROVE SmsInv
  OBVIOUS
<1>1. replies = <<>> /\ rx = <<>> /\ dataToProcess = <<>> /\ handled = 0 /\ delivered = 0
  BY DEF Init
<1>2. TextLen = 0
  BY <1>1 DEF TextLen
<1> QED
  BY <1>1, <1>2 DEF SmsInv, SmsInText, RepliesPlain

-----------------------------------------------------------------------------
(* An order to the door comes from an SMS that has arrived, with its own text. *)
LEMMA DoorStaysOnOrder ==
  ASSUME TypeOK, SmsInv, DoorMovedOnOrder, [Next]_vars
  PROVE  DoorMovedOnOrder'
<1>1. CASE Modem
  <2>1. doorOrder' = doorOrder /\ orders \subseteq orders'
    BY <1>1 DEF Modem, ModemWrites, SmsArrives, PhoneRings, ghosts
  <2> QED
    BY <2>1 DEF DoorMovedOnOrder
<1>2. CASE HandleSms
  <2> DEFINE n == FindSms(dataToProcess)
             h == dataToProcess[n - 1]
             t == dataToProcess[n].text
  <2>1. /\ dataToProcess \in Seq(Piece) /\ Len(dataToProcess) \in Nat /\ Len(rx) \in Nat
        /\ n \in 2..Len(dataToProcess) /\ h.kind = "CMT"
    BY <1>2, FindSmsIsBodyOfFirstHeader DEF HandleSms, TypeOK, TextType
  <2>2. ReceivedSmsNotification(h.id, h.from, t) /\ orders' = orders
    BY <1>2 DEF HandleSms, outside, world
  <2> HIDE DEF n
  <2>3. /\ n - 1 \in 1..TextLen /\ TextAt(n - 1) = h
        /\ TextAt((n - 1) + 1) = dataToProcess[n]
    BY <2>1 DEF TextAt, TextLen
  <2>4. h.from = "registered" /\ t \in {"OPEN", "CLOSE"} => h.id \in orders
    BY <2>1, <2>3 DEF SmsInv, SmsInText
  <2>5. doorOrder' = IF h.from = "registered" /\ t \in {"OPEN", "CLOSE"} THEN h.id ELSE doorOrder
    BY <2>2 DEF ReceivedSmsNotification
  <2> QED
    BY <2>2, <2>4, <2>5 DEF DoorMovedOnOrder
<1>3. CASE ~Modem /\ ~HandleSms
  BY <1>3, QuietStepDrops DEF DoorMovedOnOrder
<1> QED
  BY <1>1, <1>2, <1>3

(* The door moves only on the order of a registered sender that names a         *)
(* registered number, whatever comes in parts, late, lost or out of turn.      *)
THEOREM DoorOnlyOnOrder == Spec => []DoorMovedOnOrder
<1>1. Init => DoorMovedOnOrder
  BY DEF Init, DoorMovedOnOrder
<1>2. TypeOK /\ SmsInv /\ DoorMovedOnOrder /\ [Next]_vars => DoorMovedOnOrder'
  BY DoorStaysOnOrder
<1>3. TypeOK /\ SmsInv /\ [Next]_vars => SmsInv'
  BY SmsInvInductive
<1> QED
  BY <1>1, <1>2, <1>3, InitIsTyped, TypeInductive, SmsInvAtStart, PTL DEF Spec

(* No SMS is acted on twice, or after one that came later.                     *)
THEOREM HandledOnceInOrder == Spec => SmsHandledOnceInOrder
<1>1. ASSUME TypeOK, SmsInv, HandleSms PROVE handled < handled'
  <2> DEFINE n == FindSms(dataToProcess)
  <2>1. n \in 2..TextLen /\ TextAt(n - 1).kind = "CMT" /\ handled' = TextAt(n - 1).id
    BY <1>1, HandleSmsDrops DEF SmsInv
  <2> HIDE DEF n
  <2>2. n - 1 \in 1..TextLen
    BY <2>1, <1>1, TextIsTyped
  <2> QED
    BY <1>1, <2>1, <2>2 DEF SmsInv, SmsInText
<1>2. TypeOK /\ SmsInv /\ [Next]_vars => [HandleSms => handled < handled']_vars
  BY <1>1
<1>3. TypeOK /\ SmsInv /\ [Next]_vars => SmsInv'
  BY SmsInvInductive
<1> QED
  BY <1>2, <1>3, InitIsTyped, TypeInductive, SmsInvAtStart, PTL DEF Spec, SmsHandledOnceInOrder

-----------------------------------------------------------------------------
(* Where the flow of control and the state machine meet: a parser that waits    *)
(* for the loop over notifications has a command to report, and between that    *)
(* loop's turns nothing has been handled since AT+CMGD was sent.               *)
FlowInv ==
  /\ pc \in {"loop", "poll"} => after = "Idle"
  /\ pc \in {"sms", "ring"} /\ after # "Idle" => GsmLogicState \in Waiting
  /\ GsmLogicState = "WAIT_SMS_DELETE" =>
       IF pc \in {"loop", "poll"} THEN handled = handledAtDelete
                                  ELSE after = "Timeout" \/ pc = "hung"

(* What the states after a report, and those without one, have in common.      *)
LEMMA NoCommandAwaited ==
  \A x, y : x \in {"SIMPLE_INIT_AT_PAUSE", "ERROR", "IDLE"} \/ (y \notin Waiting /\ x = y)
              => x \notin Waiting /\ x # "WAIT_SMS_DELETE"
<1>1. Waiting = {"SIMPLE_INIT_AT_SENT", "GET_CREDIT", "GET_SIGNAL_STRENGTH", "WAIT_SMS_DELETE",
                 "WAIT_SMS_SEND_CONFIRMATION"}
  BY DEF Waiting, ParserOf
<1> QED
  BY <1>1

(* A report ends the wait: neither the deletion nor any other goes on.         *)
LEMMA ReportEndsCommand ==
  ASSUME ParserOK \/ ParserFailure
  PROVE  GsmLogicState' \notin Waiting /\ GsmLogicState' # "WAIT_SMS_DELETE"
<1>1. \/ GsmLogicState' \in {"SIMPLE_INIT_AT_PAUSE", "ERROR", "IDLE"}
      \/ GsmLogicState \notin Waiting /\ GsmLogicState' = GsmLogicState
  <2>1. Waiting = {"SIMPLE_INIT_AT_SENT", "GET_CREDIT", "GET_SIGNAL_STRENGTH", "WAIT_SMS_DELETE",
                   "WAIT_SMS_SEND_CONFIRMATION"}
    BY DEF Waiting, ParserOf
  <2> QED
    BY <2>1 DEF ParserOK, ParserFailure
<1> QED
  BY <1>1, NoCommandAwaited

(* Where GsmCommands_loop leaves control: at rest, or with the notifications,   *)
(* and then after the idle parser or one that has a command's OK to report;    *)
(* the parser that awaits the deletion is not among these.                     *)
LEMMA LoopLeaves ==
  ASSUME TypeOK, ParserMatchesState, FlowInv, GsmCommands_loop
  PROVE  /\ after = "Idle" /\ UNCHANGED <<handled, handledAtDelete>>
         /\ \/ pc' = "loop" /\ after' = after
            \/ /\ pc' = "sms" /\ UNCHANGED machine
               /\ \/ parser = "Idle" /\ after' = "Idle"
                  \/ parser \in {"Credit", "SendSms"} /\ after' = "OK"
<1>1. PICK n \in 1..Len(rx) :
        LET b == dataToProcess \o SubSeq(rx, 1, n)
        IN  CASE parser = "Idle" -> Silent /\ Work(b, "Idle") /\ UNCHANGED notices
              [] parser = "Simple"  -> ParseSimple(b)
              [] parser = "Credit"  -> ParseGetOperatorCreditResponse(b)
              [] parser = "Signal"  -> ParseGetSignalStrengthResponse(b)
              [] parser = "SendSms" -> ParseSendSmsResponse(b)
  BY DEF GsmCommands_loop
<1>2. after = "Idle" /\ UNCHANGED <<handled, handledAtDelete>>
  BY DEF GsmCommands_loop, FlowInv, ghosts
<1> DEFINE b == dataToProcess \o SubSeq(rx, 1, n)
<1>3. \/ parser = "Idle" /\ Silent /\ Work(b, "Idle")
      \/ ParseSimple(b) \/ ParseGetSignalStrengthResponse(b)
      \/ parser = "Credit" /\ ParseGetOperatorCreditResponse(b)
      \/ parser = "SendSms" /\ ParseSendSmsResponse(b)
  BY <1>1 DEF TypeOK, ControlType, Parsers
<1> HIDE DEF b
<1>4. CASE parser = "Idle" /\ Silent /\ Work(b, "Idle")
  BY <1>2, <1>4 DEF Silent, Work
<1>5. CASE ParseSimple(b) \/ ParseGetSignalStrengthResponse(b)
  BY <1>2, <1>5 DEF ParseSimple, ParseGetSignalStrengthResponse, Refused, Keep
<1>6. CASE parser = "Credit" /\ ParseGetOperatorCreditResponse(b)
  BY <1>2, <1>6 DEF ParseGetOperatorCreditResponse, Refused, Keep, Work, Silent
<1>7. CASE parser = "SendSms" /\ ParseSendSmsResponse(b)
  BY <1>2, <1>7 DEF ParseSendSmsResponse, Refused, Keep, Work, Silent
<1> QED
  BY <1>3, <1>4, <1>5, <1>6, <1>7

(* FlowInv is inductive.                                                       *)
LEMMA FlowInvInductive ==
  ASSUME TypeOK, ParserMatchesState, FlowInv, [Next]_vars
  PROVE  FlowInv'
<1>1. CASE Modem \/ UNCHANGED vars
  BY <1>1 DEF Modem, ModemWrites, SmsArrives, PhoneRings, vars, machine, ghosts, FlowInv
<1>2. CASE GsmCommands_loop
  <2>1. ParserOK \/ ParserFailure \/ UNCHANGED <<GsmLogicState, parser>>
    BY <1>2, LoopReportsOrNot DEF Silent, machine
  <2>2. CASE pc' = "loop" /\ after' = after
    BY <1>2, <2>1, <2>2, LoopLeaves, ReportEndsCommand
      DEF FlowInv, GsmCommands_loop
  <2>3. CASE pc' = "sms" /\ UNCHANGED machine
    BY <1>2, <2>3, LoopLeaves DEF FlowInv, ParserMatchesState, ParserOf, Waiting, machine
  <2> QED
    BY <1>2, <2>2, <2>3, LoopLeaves
<1>3. CASE NothingArrived \/ NoRing
  BY <1>3 DEF NothingArrived, NoRing, FlowInv, machine, ghosts
<1>4. CASE HandleSms \/ HandleRing
  BY <1>4 DEF HandleSms, ReceivedSmsNotification, HandleRing, FlowInv, machine, ghosts
<1>5. CASE NotificationsDone
  <2>1. pc' = "loop" /\ after' = "Idle" /\ pc = "sms"
    BY <1>5 DEF NotificationsDone
  <2>2. ParserOK \/ ParserFailure \/ (after = "Idle" /\ UNCHANGED <<GsmLogicState>>)
    BY <1>5 DEF NotificationsDone, Silent, machine, TypeOK, ControlType
  <2> QED
    BY <2>1, <2>2, ReportEndsCommand DEF FlowInv
<1>6. CASE GsmCommands_100msHandler
  <2>1. parser # "Idle" /\ pc = "loop" /\ UNCHANGED <<handled, handledAtDelete>>
    BY <1>6 DEF GsmCommands_100msHandler, ghosts
  <2>2. GsmLogicState \in Waiting
    BY <2>1 DEF ParserMatchesState
  <2>3. \/ pc' = "loop" /\ after' = after /\ ParserFailure
        \/ pc' = "sms" /\ after' = "Timeout" /\ GsmLogicState' = GsmLogicState
    BY <1>6 DEF GsmCommands_100msHandler, Silent, Work, Keep, machine
  <2> QED
    BY <2>1, <2>2, <2>3, ReportEndsCommand DEF FlowInv
<1>7. CASE GsmLogic_1sHandler
  <2>1. pc = "loop" /\ pc' = "poll" /\ after' = after /\ handled' = handled
    BY <1>7, SecondDrops
  <2>2. CASE TickDeleteSms
    BY <2>1, <2>2 DEF TickDeleteSms, FlowInv
  <2>3. CASE OddSecond \/ TickWaiting
    BY <2>1, <2>3 DEF OddSecond, TickWaiting, FlowInv
  <2>4. CASE TickError \/ TickNothingToDo
    BY <2>1, <2>4 DEF TickError, TickNothingToDo, FlowInv
  <2>5. CASE TickResetWait
    BY <2>1, <2>5 DEF TickResetWait, FlowInv
  <2>6. CASE TickInit \/ TickNextInitCommand \/ TickGetCredit \/ TickGetSignalStrength \/ TickSendSms
    BY <2>1, <2>6 DEF TickInit, TickNextInitCommand, TickGetCredit, TickGetSignalStrength,
      TickSendSms, Command, FlowInv
  <2> QED
    BY <1>7, <2>2, <2>3, <2>4, <2>5, <2>6 DEF GsmLogic_1sHandler
<1>8. CASE WatchdogRestart
  BY <1>8 DEF WatchdogRestart, FlowInv
<1> QED
  BY <1>1, <1>2, <1>3, <1>4, <1>5, <1>6, <1>7, <1>8 DEF Next, Notifications

(* It holds at the start: loop() is at rest and no command is awaited.         *)
LEMMA FlowInvAtStart == Init => FlowInv
BY DEF Init, FlowInv

(* An SMS is not forgotten before it was deleted in the modem: the OK that      *)
(* clears "SMS received" is that of an AT+CMGD sent after the last one handled. *)
THEOREM ForgetsOnlyDeleted == Spec => ForgetsOnlyDeletedSms
<1> DEFINE Forgets == SmsIsReceived /\ ~SmsIsReceived'
           Allowed == GsmLogicState = "ERROR" \/ pc = "hung" \/ handled = handledAtDelete
<1>1. ASSUME TypeOK, ParserMatchesState, FlowInv, Next, Forgets
      PROVE  Allowed
  <2>1. ASSUME ParserOK, pc \in {"loop", "poll"} PROVE Allowed
    BY <1>1, <2>1 DEF ParserOK, FlowInv
  <2>2. CASE Modem \/ NothingArrived \/ NoRing \/ HandleSms \/ HandleRing
    BY <1>1, <2>2 DEF Modem, ModemWrites, SmsArrives, PhoneRings, NothingArrived, NoRing,
      HandleSms, ReceivedSmsNotification, HandleRing, machine
  <2>3. CASE GsmCommands_loop
    <3>1. pc \in {"loop", "poll"} /\ ParserOK
      BY <1>1, <2>3, LoopReportsOrNot DEF GsmCommands_loop, ParserFailure, Silent, machine
    <3> QED
      BY <2>1, <3>1
  <2>4. CASE NotificationsDone
    BY <1>1, <2>4 DEF NotificationsDone, ParserOK, ParserFailure, Silent, machine, FlowInv,
      TypeOK, ControlType
  <2>5. CASE GsmCommands_100msHandler
    BY <1>1, <2>5 DEF GsmCommands_100msHandler, ParserFailure, Silent, machine
  <2>6. CASE GsmLogic_1sHandler
    <3>1. GsmLogicState = "ERROR"
      BY <1>1, <2>6 DEF GsmLogic_1sHandler, OddSecond, TickError, TickResetWait, TickInit,
        TickNextInitCommand, TickDeleteSms, TickGetCredit, TickGetSignalStrength, TickSendSms,
        TickNothingToDo, TickWaiting, Tick
    <3> QED
      BY <3>1
  <2>7. CASE WatchdogRestart
    BY <2>7 DEF WatchdogRestart
  <2> QED
    BY <1>1, <2>2, <2>3, <2>4, <2>5, <2>6, <2>7 DEF Next, Notifications
<1>2. TypeOK /\ ParserMatchesState /\ FlowInv /\ [Next]_vars => [Forgets => Allowed]_vars
  BY <1>1
<1>3. TypeOK /\ ParserMatchesState /\ FlowInv /\ [Next]_vars => FlowInv'
  BY FlowInvInductive
<1>4. Init => ParserMatchesState
  BY DEF Init, ParserMatchesState, Waiting, ParserOf
<1> QED
  BY <1>2, <1>3, <1>4, InitIsTyped, TypeInductive, ParserMatchesStateInductive, FlowInvAtStart,
    PTL DEF Spec, ForgetsOnlyDeletedSms

-----------------------------------------------------------------------------
(* The SMSs of the text are those of its headers, wherever they stand.         *)
LEMMA SmsHasHeader ==
  ASSUME TypeOK, NEW i \in SmsIn(rx \o dataToProcess)
  PROVE  \E k \in 1..TextLen : TextAt(k).kind = "CMT" /\ TextAt(k).id = i
<1> DEFINE b == rx \o dataToProcess
<1>1. /\ rx \in Seq(Piece) /\ dataToProcess \in Seq(Piece)
      /\ Len(rx) \in Nat /\ Len(dataToProcess) \in Nat
  BY DEF TypeOK, TextType
<1>2. /\ Len(b) = Len(rx) + Len(dataToProcess)
      /\ \A j \in 1..(Len(rx) + Len(dataToProcess)) :
           b[j] = IF j <= Len(rx) THEN rx[j] ELSE dataToProcess[j - Len(rx)]
  BY <1>1, ConcatProperties
<1>3. PICK j \in 1..Len(b) : b[j].kind = "CMT" /\ b[j].id = i
  BY DEF SmsIn
<1> HIDE DEF b
<1>4. CASE j <= Len(rx)
  <2>1. /\ Len(dataToProcess) + j \in 1..TextLen
        /\ TextAt(Len(dataToProcess) + j) = rx[j]
    BY <1>1, <1>2, <1>4 DEF TextLen, TextAt
  <2> QED
    BY <1>2, <1>3, <1>4, <2>1
<1>5. CASE ~(j <= Len(rx))
  <2>1. j - Len(rx) \in 1..TextLen /\ TextAt(j - Len(rx)) = dataToProcess[j - Len(rx)]
    BY <1>1, <1>2, <1>5 DEF TextLen, TextAt
  <2> QED
    BY <1>2, <1>3, <1>5, <2>1
<1> QED
  BY <1>4, <1>5

(* And so they are after a step.                                               *)
LEMMA HeaderIsSms ==
  ASSUME TypeOK', NEW k \in 1..TextLen', TextAt(k)'.kind = "CMT"
  PROVE  TextAt(k)'.id \in SmsIn(rx' \o dataToProcess')
<1> DEFINE b == rx' \o dataToProcess'
<1>1. /\ rx' \in Seq(Piece) /\ dataToProcess' \in Seq(Piece)
      /\ Len(rx') \in Nat /\ Len(dataToProcess') \in Nat
  BY DEF TypeOK, TextType
<1>2. /\ Len(b) = Len(rx') + Len(dataToProcess')
      /\ \A j \in 1..(Len(rx') + Len(dataToProcess')) :
           b[j] = IF j <= Len(rx') THEN rx'[j] ELSE dataToProcess'[j - Len(rx')]
  BY <1>1, ConcatProperties
<1>3. ASSUME NEW j \in 1..Len(b), b[j] = TextAt(k)' PROVE TextAt(k)'.id \in SmsIn(b)
  BY <1>3 DEF SmsIn
<1> HIDE DEF b
<1>4. CASE k <= Len(dataToProcess')
  <2>1. /\ Len(rx') + k \in 1..Len(b) /\ ~(Len(rx') + k <= Len(rx'))
        /\ Len(rx') + k - Len(rx') = k
    BY <1>1, <1>2, <1>4 DEF TextLen
  <2>2. b[Len(rx') + k] = dataToProcess'[k]
    BY <1>2, <2>1
  <2> QED
    BY <1>3, <1>4, <2>1, <2>2 DEF TextAt, b
<1>5. CASE ~(k <= Len(dataToProcess'))
  <2>1. /\ k - Len(dataToProcess') \in 1..Len(b) /\ k - Len(dataToProcess') <= Len(rx')
    BY <1>1, <1>2, <1>5 DEF TextLen
  <2>2. b[k - Len(dataToProcess')] = rx'[k - Len(dataToProcess')]
    BY <1>2, <2>1
  <2> QED
    BY <1>3, <1>5, <2>1, <2>2 DEF TextAt, b
<1> QED
  BY <1>4, <1>5

(* An SMS that a step loses stood among the pieces that went.                  *)
LEMMA LostIsDropped ==
  ASSUME TypeOK, TypeOK', NEW m, Drops(m),
         NEW i \in SmsIn(rx \o dataToProcess) \ SmsIn(rx' \o dataToProcess')
  PROVE  \E k \in 1..m : TextAt(k).kind = "CMT" /\ TextAt(k).id = i
<1>1. PICK k \in 1..TextLen : TextAt(k).kind = "CMT" /\ TextAt(k).id = i
  BY SmsHasHeader
<1>2. TextLen \in Nat /\ m \in 0..TextLen
  BY TextIsTyped DEF Drops
<1>3. ASSUME ~(k <= m) PROVE FALSE
  <2>1. k - m \in 1..TextLen' /\ TextAt(k - m)' = TextAt(m + (k - m)) /\ m + (k - m) = k
    BY <1>2, <1>3 DEF Drops
  <2> QED
    BY <1>1, <2>1, HeaderIsSms
<1> QED
  BY <1>1, <1>2, <1>3

(* The modem's steps lose none.                                                *)
LEMMA ModemLosesNone ==
  ASSUME TypeOK, TypeOK', Modem
  PROVE  SmsIn(rx \o dataToProcess) \subseteq SmsIn(rx' \o dataToProcess')
<1>1. /\ rx \in Seq(Piece) /\ Len(rx) \in Nat /\ Len(dataToProcess) \in Nat
  BY DEF TypeOK, TextType
<1>2. ASSUME NEW p, NEW q, rx' = rx \o <<p, q>>
      PROVE  Len(rx') = Len(rx) + 2 /\ \A j \in 1..Len(rx) : rx'[j] = rx[j]
  <2>1. <<p, q>> \in Seq({p, q}) /\ Len(<<p, q>>) = 2
    OBVIOUS
  <2>2. /\ rx \in Seq(Piece \cup {p, q}) /\ <<p, q>> \in Seq(Piece \cup {p, q})
    BY <1>1, <2>1
  <2>3. /\ Len(rx \o <<p, q>>) = Len(rx) + 2
        /\ \A j \in 1..(Len(rx) + 2) :
             (rx \o <<p, q>>)[j] = IF j <= Len(rx) THEN rx[j] ELSE <<p, q>>[j - Len(rx)]
    BY <2>1, <2>2, ConcatProperties
  <2> QED
    BY <1>1, <1>2, <2>3
<1>3. /\ dataToProcess' = dataToProcess /\ Len(rx') \in Nat /\ Len(rx) <= Len(rx')
      /\ \A j \in 1..Len(rx) : rx'[j] = rx[j]
  <2>1. dataToProcess' = dataToProcess
    BY DEF Modem, ModemWrites, SmsArrives, PhoneRings, text
  <2>2. CASE ModemWrites
    <3>1. replies \in Seq(Piece) /\ replies # <<>> /\ rx' = Append(rx, Head(replies))
      BY <2>2 DEF ModemWrites, TypeOK, TextType
    <3>2. Head(replies) \in Piece
      BY <3>1
    <3> QED
      BY <1>1, <2>1, <3>1, <3>2, AppendProperties
  <2>3. CASE SmsArrives
    <3>1. PICK s \in Inbound :
            rx' = rx \o <<Header(delivered + 1, s.from), Body(delivered + 1, s.text)>>
      BY <2>3 DEF SmsArrives
    <3> QED
      BY <1>1, <1>2, <2>1, <3>1
  <2>4. CASE PhoneRings
    <3>1. rx' = rx \o <<Plain("RING"), Plain("CLIP")>>
      BY <2>4 DEF PhoneRings
    <3> QED
      BY <1>1, <1>2, <2>1, <3>1
  <2> QED
    BY <2>2, <2>3, <2>4 DEF Modem
<1>4. ASSUME NEW i \in SmsIn(rx \o dataToProcess)
      PROVE  i \in SmsIn(rx' \o dataToProcess')
  <2>1. PICK k \in 1..TextLen : TextAt(k).kind = "CMT" /\ TextAt(k).id = i
    BY SmsHasHeader
  <2>2. k <= Len(dataToProcess) \/ k - Len(dataToProcess) \in 1..Len(rx)
    BY <1>1 DEF TextLen
  <2>3. k \in 1..TextLen' /\ TextAt(k)' = TextAt(k)
    BY <1>1, <1>3, <2>2 DEF TextLen, TextAt
  <2> QED
    BY <2>1, <2>3, HeaderIsSms
<1> QED
  BY <1>4

(* Whatever a step loses, it loses for one of the reasons given.               *)
LEMMA LossIsExplained ==
  ASSUME TypeOK, TypeOK', SmsInv, ParserMatchesState, FlowInv, Next,
         NEW i \in SmsIn(rx \o dataToProcess) \ SmsIn(rx' \o dataToProcess')
  PROVE  \/ i = handled' \/ GsmLogicState \in Waiting \/ FindRing(dataToProcess) # 0
         \/ pc = "loop" /\ pc' = "poll" /\ receiveTimeout + 1 > ReceiveTimeout
         \/ pc = "hung"
<1>1. ASSUME NEW m, Drops(m), m = 0 PROVE FALSE
  BY <1>1, LostIsDropped
<1>2. CASE Modem
  BY <1>2, ModemLosesNone
<1>3. CASE HandleSms
  <2> DEFINE n == FindSms(dataToProcess)
  <2>1. /\ Drops(n) /\ handled' = TextAt(n - 1).id
        /\ \A k \in 1..n : TextAt(k).kind = "CMT" => k = n - 1
    BY <1>3, HandleSmsDrops DEF SmsInv
  <2> HIDE DEF n
  <2>2. PICK k \in 1..n : TextAt(k).kind = "CMT" /\ TextAt(k).id = i
    BY <2>1, LostIsDropped
  <2> QED
    BY <2>1, <2>2
<1>4. CASE GsmCommands_loop
  <2>1. parser # "Idle"
    BY <1>1, <1>4, LoopDrops
  <2> QED
    BY <2>1 DEF ParserMatchesState
<1>5. CASE HandleRing
  BY <1>5 DEF HandleRing
<1>6. CASE NotificationsDone
  <2>1. after # "Idle" /\ pc = "sms"
    BY <1>1, <1>6, NotificationsDoneDrops DEF NotificationsDone
  <2> QED
    BY <2>1 DEF FlowInv
<1>7. CASE NothingArrived \/ NoRing \/ GsmCommands_100msHandler
  BY <1>1, <1>7, OthersDropNothing
<1>8. CASE GsmLogic_1sHandler
  BY <1>1, <1>8, SecondDrops
<1>9. CASE WatchdogRestart
  BY <1>9 DEF WatchdogRestart
<1> QED
  BY <1>2, <1>3, <1>4, <1>5, <1>6, <1>7, <1>8, <1>9 DEF Next, Notifications

(* An SMS that has arrived is handled, unless the parser of a command or a RING *)
(* cuts it off, the stale text is purged, or the program restarts: in no other  *)
(* way does a text disappear, however the pieces arrive.                       *)
THEOREM MissedOnlyAsExplained == Spec => MissedSmsExplained
<1> DEFINE Explained ==
      \A i \in SmsIn(rx \o dataToProcess) \ SmsIn(rx' \o dataToProcess') :
        \/ i = handled' \/ GsmLogicState \in Waiting \/ FindRing(dataToProcess) # 0
        \/ pc = "loop" /\ pc' = "poll" /\ receiveTimeout + 1 > ReceiveTimeout
        \/ pc = "hung"
<1>1. TypeOK /\ TypeOK' /\ SmsInv /\ ParserMatchesState /\ FlowInv /\ [Next]_vars
        => [Explained]_vars
  BY LossIsExplained
<1>2. TypeOK /\ ParserMatchesState /\ FlowInv /\ [Next]_vars => FlowInv'
  BY FlowInvInductive
<1>3. TypeOK /\ SmsInv /\ [Next]_vars => SmsInv'
  BY SmsInvInductive
<1>4. Init => ParserMatchesState
  BY DEF Init, ParserMatchesState, Waiting, ParserOf
<1> QED
  BY <1>1, <1>2, <1>3, <1>4, InitIsTyped, TypeInductive, ParserMatchesStateInductive,
    FlowInvAtStart, SmsInvAtStart, PTL DEF Spec, MissedSmsExplained

-----------------------------------------------------------------------------
(* The program implements SmsService: what each step does to the messages and  *)
(* the SMSs, as the correspondents see them.                                   *)
ServedVars == <<SmsQueue, given, confirmed, handled, doorOrder>>
Serves     == Service!ServiceNext \/ UNCHANGED ServedVars

(* Nobody notices a step that leaves these alone.                              *)
LEMMA UnnoticedStep ==
  ASSUME UNCHANGED <<SmsQueue, GsmLogicState, parser, after, inFlight, handled, doorOrder>>
  PROVE  Serves
BY DEF Serves, ServedVars, given, confirmed

(* A push is what the service calls an addition.                               *)
LEMMA PushAdds ==
  ASSUME NEW whats, NEW what \in whats, NEW i, SmsQueue' = Push(SmsQueue, what, i)
  PROVE  Service!Adds(whats, i)
BY DEF Push, Service!Adds

(* Any message of the program's own making is a notice.                        *)
LEMMA NoticeStep ==
  ASSUME NEW what \in {"RESET OCCURED", "LOW CREDIT"},
         SmsQueue' = SmsQueue \/ SmsQueue' = Push(SmsQueue, what, 0),
         UNCHANGED <<given, confirmed, handled, doorOrder>>
  PROVE  Serves
<1>1. CASE SmsQueue' = SmsQueue
  BY <1>1 DEF Serves, ServedVars
<1>2. CASE SmsQueue' = Push(SmsQueue, what, 0)
  <2>1. Service!Adds(Service!NoticeWhats, 0)
    BY <1>2, PushAdds DEF Service!NoticeWhats
  <2> QED
    BY <2>1 DEF Serves, Service!ServiceNext, Service!Notify
<1> QED
  BY <1>1, <1>2

(* A failure that is reported gives up the message in flight, if there is one. *)
LEMMA FailureStep ==
  ASSUME ParserFailure, after # "OK", after' = "Idle", UNCHANGED <<handled, doorOrder>>
  PROVE  Serves
<1>1. given' = <<>> /\ ~confirmed /\ confirmed' = confirmed /\ SmsQueue' = SmsQueue
  <2>1. GsmLogicState' # "WAIT_SMS_SEND_CONFIRMATION"
    BY ReportEndsWait
  <2> QED
    BY <2>1 DEF given, confirmed, ParserFailure
<1>2. CASE given = <<>>
  BY <1>1, <1>2 DEF Serves, ServedVars
<1>3. CASE given # <<>>
  BY <1>1, <1>3 DEF Serves, Service!ServiceNext, Service!Fail
<1> QED
  BY <1>2, <1>3

(* So does the OK of any other command: there is none then.                    *)
LEMMA OtherCommandsOK ==
  ASSUME ParserMatchesState, ParserOK, parser # "SendSms", UNCHANGED <<handled, doorOrder>>
  PROVE  Serves
<1>1. GsmLogicState # "WAIT_SMS_SEND_CONFIRMATION"
  BY DEF ParserMatchesState, Waiting, ParserOf
<1>2. GsmLogicState' # "WAIT_SMS_SEND_CONFIRMATION"
  BY ReportEndsWait
<1>3. parser' # "SendSms" /\ SmsQueue' = SmsQueue
  BY <1>1 DEF ParserOK, StopWaiting
<1> QED
  BY <1>1, <1>2, <1>3 DEF Serves, ServedVars, given, confirmed

(* The confirmation of the message in flight takes it out of the queue.        *)
LEMMA ConfirmedStep ==
  ASSUME ParserMatchesState, InFlightIsHead, ParserOK, parser = "SendSms", after = "OK",
         after' = "Idle", UNCHANGED <<handled, doorOrder>>
  PROVE  Serves
<1>1. GsmLogicState = "WAIT_SMS_SEND_CONFIRMATION"
  BY DEF ParserMatchesState, Waiting, ParserOf
<1>2. given = <<Head(SmsQueue)>> /\ SmsQueue # <<>> /\ confirmed
  BY <1>1 DEF InFlightIsHead, given, confirmed
<1>3. given' = <<>> /\ ~confirmed' /\ SmsQueue' = Tail(SmsQueue)
  <2>1. GsmLogicState' # "WAIT_SMS_SEND_CONFIRMATION"
    BY ReportEndsWait
  <2> QED
    BY <1>1, <1>2, <2>1 DEF given, confirmed, ParserOK
<1>4. confirmed' = FALSE
  BY <1>3 DEF confirmed
<1> QED
  BY <1>2, <1>3, <1>4 DEF Serves, Service!ServiceNext, Service!Leave

(* The credit that was read may make a notice of low credit.                   *)
LEMMA CreditStep ==
  ASSUME NEW b, ReceivedOperatorCredit(b), parser # "SendSms",
         UNCHANGED <<machine, inFlight, handled, doorOrder>>
  PROVE  Serves
<1>1. SmsQueue' = SmsQueue \/ SmsQueue' = Push(SmsQueue, "LOW CREDIT", 0)
  BY DEF ReceivedOperatorCredit
<1>2. UNCHANGED <<given, confirmed, handled, doorOrder>>
  BY DEF machine, given, confirmed
<1> QED
  BY <1>1, <1>2, NoticeStep

-----------------------------------------------------------------------------
(* An SMS that is handled is a new one; it moves the door or is answered.      *)
LEMMA HandleSmsServes ==
  ASSUME TypeOK, SmsInv, HandleSms
  PROVE  Serves
<1> DEFINE n == FindSms(dataToProcess)
           h == dataToProcess[n - 1]
           t == dataToProcess[n].text
<1>1. handled < handled'
  <2>1. /\ FindSms(dataToProcess) \in 2..TextLen
        /\ TextAt(FindSms(dataToProcess) - 1).kind = "CMT"
        /\ handled' = TextAt(FindSms(dataToProcess) - 1).id
    BY HandleSmsDrops DEF SmsInv
  <2>2. FindSms(dataToProcess) - 1 \in 1..TextLen
    BY <2>1, TextIsTyped
  <2> QED
    BY <2>1, <2>2 DEF SmsInv, SmsInText
<1>2. ReceivedSmsNotification(h.id, h.from, t) /\ handled' = h.id
  BY DEF HandleSms
<1>3. UNCHANGED <<given, confirmed>>
  BY DEF HandleSms, given, confirmed
<1> HIDE DEF n, h, t
<1>4. handled' > handled
  BY <1>1, TextIsTyped DEF TypeOK, GhostsType
<1>5. CASE h.from = "registered" /\ t \in {"OPEN", "CLOSE"}
  <2>1. doorOrder' = handled' /\ SmsQueue' = SmsQueue
    BY <1>2, <1>5 DEF ReceivedSmsNotification, AnswerTo
  <2> QED
    BY <1>3, <1>4, <2>1 DEF Serves, Service!ServiceNext, Service!Receive
<1>6. CASE ~(h.from = "registered" /\ t \in {"OPEN", "CLOSE"})
  <2>1. /\ doorOrder' = doorOrder
        /\ \/ SmsQueue' = SmsQueue
           \/ \E what \in Service!AnswerWhats : SmsQueue' = Push(SmsQueue, what, handled')
    BY <1>2, <1>6 DEF ReceivedSmsNotification, AnswerTo, Service!AnswerWhats
  <2>2. SmsQueue' = SmsQueue \/ Service!Adds(Service!AnswerWhats, handled')
    BY <2>1, PushAdds
  <2> QED
    BY <1>3, <1>4, <2>1, <2>2 DEF Serves, Service!ServiceNext, Service!Receive
<1> QED
  BY <1>5, <1>6

(* Reading the UART: a parser reports a failure or another command's OK, has   *)
(* found a credit, or has found a confirmation.                                *)
LEMMA LoopServes ==
  ASSUME TypeOK, ParserMatchesState, FlowInv, GsmCommands_loop
  PROVE  Serves
<1>1. /\ UNCHANGED <<inFlight, handled, doorOrder>>
      /\ after = "Idle"
      /\ \/ after' = "Idle"
         \/ /\ UNCHANGED machine
            /\ parser \in {"Credit", "SendSms"} /\ after' = "OK"
  BY LoopLeaves DEF GsmCommands_loop, ghosts
<1>2. \/ ParserOK /\ parser # "SendSms"
      \/ ParserFailure
      \/ Silent
      \/ parser = "Credit" /\ UNCHANGED machine /\ \E b : ReceivedOperatorCredit(b)
  BY LoopCases DEF ParseSimple, ParseGetOperatorCreditResponse, ParseGetSignalStrengthResponse,
    ParseSendSmsResponse, Refused
<1>3. CASE ParserOK /\ parser # "SendSms"
  BY <1>1, <1>3, OtherCommandsOK
<1>4. CASE parser = "Credit" /\ UNCHANGED machine /\ \E b : ReceivedOperatorCredit(b)
  BY <1>1, <1>4, CreditStep
<1>5. CASE after' = "Idle" /\ (ParserFailure \/ Silent)
  BY <1>1, <1>5, FailureStep, UnnoticedStep DEF Silent, machine
<1>6. CASE UNCHANGED machine /\ after' = "OK" /\ (ParserFailure \/ Silent)
  <2>1. SmsQueue' = SmsQueue /\ given' = given /\ ~confirmed
    BY <1>1, <1>6 DEF ParserFailure, Silent, machine, given, confirmed
  <2>2. CASE parser = "SendSms"
    <3>1. given # <<>> /\ confirmed'
      BY <1>6, <2>2 DEF ParserMatchesState, Waiting, ParserOf, given, confirmed, machine
    <3> QED
      BY <1>1, <2>1, <3>1 DEF Serves, Service!ServiceNext, Service!Confirm
  <2>3. CASE parser # "SendSms"
    BY <1>1, <1>6, <2>1, <2>3 DEF Serves, ServedVars, confirmed, machine
  <2> QED
    BY <2>2, <2>3
<1> QED
  BY <1>1, <1>2, <1>3, <1>4, <1>5, <1>6

(* The timeout: the credit is looked for, a failure is reported, or the         *)
(* notifications come first.                                                   *)
LEMMA TimeoutServes ==
  ASSUME TypeOK, FlowInv, GsmCommands_100msHandler
  PROVE  Serves
<1>1. /\ after = "Idle" /\ UNCHANGED <<inFlight, handled, doorOrder>>
      /\ \/ parser = "Credit" /\ UNCHANGED machine /\ ReceivedOperatorCredit(dataToProcess)
         \/ ParserFailure /\ after' = "Idle"
         \/ Silent /\ after' = "Timeout"
  BY DEF GsmCommands_100msHandler, FlowInv, Keep, Work, ghosts
<1>2. CASE parser = "Credit" /\ UNCHANGED machine /\ ReceivedOperatorCredit(dataToProcess)
  BY <1>1, <1>2, CreditStep
<1>3. CASE ParserFailure /\ after' = "Idle"
  BY <1>1, <1>3, FailureStep
<1>4. CASE Silent /\ after' = "Timeout"
  BY <1>1, <1>4 DEF Silent, machine, Serves, ServedVars, given, confirmed
<1> QED
  BY <1>1, <1>2, <1>3, <1>4

(* After the notifications comes what the parser has to report.                *)
LEMMA NotificationsDoneServes ==
  ASSUME TypeOK, ParserMatchesState, InFlightIsHead, NotificationsDone
  PROVE  Serves
<1>1. /\ after' = "Idle" /\ UNCHANGED <<inFlight, handled, doorOrder>>
      /\ \/ after = "Idle" /\ Silent
         \/ after = "OK" /\ ParserOK
         \/ after = "Timeout" /\ ParserFailure
  BY DEF NotificationsDone, ghosts, TypeOK, ControlType
<1>2. CASE after = "Idle" /\ Silent
  BY <1>1, <1>2, UnnoticedStep DEF Silent, machine
<1>3. CASE after = "OK" /\ ParserOK
  BY <1>1, <1>3, ConfirmedStep, OtherCommandsOK
<1>4. CASE after = "Timeout" /\ ParserFailure
  BY <1>1, <1>4, FailureStep
<1> QED
  BY <1>1, <1>2, <1>3, <1>4

(* The tick may give the modem the first message, and add RESET OCCURED.       *)
LEMMA SecondServes ==
  ASSUME TypeOK, ParserMatchesState, FlowInv, GsmLogic_1sHandler
  PROVE  Serves
<1>1. Second(TRUE) \/ Second(FALSE)
  BY DEF GsmLogic_1sHandler, OddSecond, TickError, TickResetWait, TickInit, TickNextInitCommand,
    TickDeleteSms, TickGetCredit, TickGetSignalStrength, TickSendSms, TickNothingToDo,
    TickWaiting, Tick
<1>2. /\ UNCHANGED <<handled, doorOrder>>
      /\ SmsQueue' = SmsQueue \/ SmsQueue' = Push(SmsQueue, "RESET OCCURED", 0)
      /\ ~confirmed /\ confirmed' = confirmed
  BY <1>1 DEF Second, ResetMessage, FlowInv, confirmed
<1>3. CASE TickSendSms
  <2>1. /\ SmsQueue # <<>> /\ inFlight' = Head(SmsQueue)
        /\ GsmLogicState' = "WAIT_SMS_SEND_CONFIRMATION"
        /\ GsmLogicState # "WAIT_SMS_SEND_CONFIRMATION"
    BY <1>3 DEF TickSendSms, Idle, Command
  <2>2. given = <<>> /\ given' = <<Head(SmsQueue)>>
    BY <2>1 DEF given
  <2>3. UNCHANGED SmsQueue \/ Service!Adds(Service!NoticeWhats, 0)
    BY <1>2, PushAdds DEF Service!NoticeWhats
  <2> QED
    BY <1>2, <2>1, <2>2, <2>3 DEF Serves, Service!ServiceNext, Service!Give
<1>4. CASE ~TickSendSms
  <2>1. \/ UNCHANGED <<GsmLogicState, inFlight>>
        \/ /\ GsmLogicState # "WAIT_SMS_SEND_CONFIRMATION"
           /\ GsmLogicState' # "WAIT_SMS_SEND_CONFIRMATION"
    <3>1. CASE OddSecond \/ TickWaiting
      BY <3>1 DEF OddSecond, TickWaiting
    <3>2. CASE TickError \/ TickResetWait
      BY <3>2 DEF TickError, TickResetWait
    <3>3. CASE TickInit \/ TickNextInitCommand
      BY <3>3 DEF TickInit, TickNextInitCommand, Command
    <3>4. CASE TickDeleteSms \/ TickGetCredit \/ TickGetSignalStrength \/ TickNothingToDo
      BY <3>4 DEF TickDeleteSms, TickGetCredit, TickGetSignalStrength, TickNothingToDo, Idle,
        Command
    <3> QED
      BY <1>4, <3>1, <3>2, <3>3, <3>4 DEF GsmLogic_1sHandler
  <2>2. given' = given
    BY <2>1 DEF given
  <2> QED
    BY <1>2, <2>2, NoticeStep
<1> QED
  BY <1>3, <1>4

(* Every step of the program is one that the service takes, or goes unnoticed. *)
LEMMA StepServes ==
  ASSUME TypeOK, ParserMatchesState, InFlightIsHead, SmsInv, FlowInv, [Next]_vars
  PROVE  Serves
<1>1. CASE Modem \/ NothingArrived \/ HandleRing \/ NoRing \/ UNCHANGED vars
  BY <1>1, UnnoticedStep DEF Modem, ModemWrites, SmsArrives, PhoneRings, NothingArrived,
    HandleRing, NoRing, vars, machine, ghosts
<1>2. CASE WatchdogRestart
  <2>1. /\ SmsQueue' = <<>> /\ given' = <<>> /\ confirmed' = FALSE
        /\ UNCHANGED <<handled, doorOrder>>
    BY <1>2 DEF WatchdogRestart, given, confirmed, ghosts
  <2> QED
    BY <2>1 DEF Serves, Service!ServiceNext, Service!Lose
<1> QED
  BY <1>1, <1>2, HandleSmsServes, LoopServes, TimeoutServes, NotificationsDoneServes,
    SecondServes DEF Next, Notifications

(* At the start nothing waits, and nothing has been dealt with.                *)
LEMMA ServiceAtStart == Init => Service!ServiceInit
BY DEF Init, Service!ServiceInit, given, confirmed

(* The program keeps what SmsService promises the correspondents: whatever      *)
(* comes late, in parts or not at all, an SMS is dealt with once and in order, *)
(* answered by one message at most, and a message in flight when a confirmation *)
(* is found leaves the queue, and no other does unless the program restarts.   *)
THEOREM ServiceIsKept == Spec => ServesAsPromised
<1>1. /\ TypeOK /\ ParserMatchesState /\ InFlightIsHead /\ SmsInv /\ FlowInv /\ [Next]_vars
      => [Service!ServiceNext]_<<SmsQueue, given, confirmed, handled, doorOrder>>
  BY StepServes DEF Serves, ServedVars
<1>2. Init => ParserMatchesState /\ InFlightIsHead
  BY DEF Init, ParserMatchesState, InFlightIsHead, Waiting, ParserOf
<1>3. TypeOK /\ SmsInv /\ [Next]_vars => SmsInv'
  BY SmsInvInductive
<1>4. TypeOK /\ ParserMatchesState /\ FlowInv /\ [Next]_vars => FlowInv'
  BY FlowInvInductive
<1> QED
  BY <1>1, <1>2, <1>3, <1>4, InitIsTyped, TypeInductive, ParserMatchesStateInductive,
    InFlightIsHeadInductive, SmsInvAtStart, FlowInvAtStart, ServiceAtStart, PTL
    DEF Spec, ServesAsPromised, Service!ServiceSpec, Service!serviceVars

-----------------------------------------------------------------------------
(* The answers of q are to different SMSs, in order, and to none after `last'. *)
Ordered(q, last) ==
  \A k \in 1..Len(q) :
    /\ q[k].id <= last
    /\ \A j \in 1..(k - 1) : q[k].id # 0 => q[j].id < q[k].id

(* A notice, or the answer to an SMS that is newer than all the others, keeps   *)
(* them in order.                                                              *)
LEMMA AppendKeepsOrder ==
  ASSUME NEW q \in Seq(Messages), NEW last \in Nat, NEW new \in Nat, NEW what \in Whats,
         NEW i \in 0..MaxSms, Ordered(q, last), last <= new, i = 0 \/ (last < i /\ i = new)
  PROVE  Ordered(Append(q, [what |-> what, id |-> i]), new)
<1> DEFINE m == [what |-> what, id |-> i]
           r == Append(q, m)
<1>1. m \in Messages /\ m.id = i /\ i \in Nat
  BY ConstantsAreNat DEF Messages
<1> HIDE DEF m
<1>2. /\ Len(q) \in Nat /\ Len(r) = Len(q) + 1 /\ r[Len(q) + 1] = m
      /\ \A j \in 1..Len(q) : r[j] = q[j]
  BY <1>1, AppendProperties
<1>3. \A j \in 1..Len(q) : q[j].id \in Nat
  <2>1. \A j \in 1..Len(q) : q[j] \in Messages
    OBVIOUS
  <2> QED
    BY <2>1, ConstantsAreNat DEF Messages
<1> HIDE DEF r
<1>4. ASSUME NEW k \in 1..Len(r)
      PROVE  r[k].id <= new /\ \A j \in 1..(k - 1) : r[k].id # 0 => r[j].id < r[k].id
  <2>1. CASE k \in 1..Len(q)
    <3>1. /\ r[k] = q[k] /\ q[k].id <= last
          /\ \A j \in 1..(k - 1) : q[k].id # 0 => q[j].id < q[k].id
      BY <1>2, <2>1 DEF Ordered
    <3>2. \A j \in 1..(k - 1) : r[j] = q[j]
      BY <1>2, <2>1
    <3>3. q[k].id <= new
      BY <1>3, <2>1, <3>1
    <3> QED
      BY <3>1, <3>2, <3>3
  <2>2. CASE k = Len(q) + 1
    <3>1. \A j \in 1..(k - 1) : r[j] = q[j] /\ q[j].id <= last /\ q[j].id \in Nat
      BY <1>2, <1>3, <2>2 DEF Ordered
    <3>2. r[k].id = i
      BY <1>1, <1>2, <2>2
    <3> QED
      BY <1>1, <3>1, <3>2
  <2> QED
    BY <1>2, <2>1, <2>2
<1>5. Ordered(r, new)
  BY <1>4 DEF Ordered
<1> QED
  BY <1>5 DEF r, m

(* So does the loss of the oldest.                                             *)
LEMMA TailKeepsOrder ==
  ASSUME NEW q \in Seq(Messages), q # <<>>, NEW last \in Nat, Ordered(q, last)
  PROVE  Ordered(Tail(q), last)
<1> DEFINE r == Tail(q)
<1>1. /\ Len(q) \in Nat /\ Len(r) = Len(q) - 1
      /\ \A j \in 1..Len(r) : r[j] = q[j + 1]
  BY HeadTailProperties
<1> HIDE DEF r
<1>2. ASSUME NEW k \in 1..Len(r)
      PROVE  r[k].id <= last /\ \A j \in 1..(k - 1) : r[k].id # 0 => r[j].id < r[k].id
  <2>1. /\ k + 1 \in 1..Len(q) /\ r[k] = q[k + 1]
        /\ \A j \in 1..(k - 1) : j + 1 \in 1..((k + 1) - 1) /\ r[j] = q[j + 1]
    BY <1>1
  <2>2. /\ q[k + 1].id <= last
        /\ \A j \in 1..((k + 1) - 1) : q[k + 1].id # 0 => q[j].id < q[k + 1].id
    BY <2>1 DEF Ordered
  <2> QED
    BY <2>1, <2>2
<1>3. Ordered(r, last)
  BY <1>2 DEF Ordered
<1> QED
  BY <1>3 DEF r

(* And so does the passing of time.                                            *)
LEMMA LaterKeepsOrder ==
  ASSUME NEW q \in Seq(Messages), NEW last \in Nat, NEW new \in Nat, Ordered(q, last),
         last <= new
  PROVE  Ordered(q, new)
<1>1. \A j \in 1..Len(q) : q[j].id \in Nat
  <2>1. \A j \in 1..Len(q) : q[j] \in Messages
    OBVIOUS
  <2> QED
    BY <2>1, ConstantsAreNat DEF Messages
<1>2. \A k \in 1..Len(q) : q[k].id <= new
  BY <1>1 DEF Ordered
<1> QED
  BY <1>2 DEF Ordered

(* What is added by the service is in order: the answer to the SMS just dealt   *)
(* with, or a notice.                                                          *)
LEMMA AddKeepsOrder ==
  ASSUME QueueType, NEW last \in Nat, NEW new \in Nat, NEW whats \in SUBSET Whats,
         NEW i \in 0..MaxSms, Service!Adds(whats, i), Ordered(SmsQueue, last), last <= new,
         i = 0 \/ (last < i /\ i = new)
  PROVE  Ordered(SmsQueue', new)
<1>1. PICK what \in whats :
        SmsQueue' = IF Len(SmsQueue) < QueueSize THEN Append(SmsQueue, [what |-> what, id |-> i])
                    ELSE SmsQueue
  BY DEF Service!Adds
<1>2. Ordered(Append(SmsQueue, [what |-> what, id |-> i]), new)
  BY AppendKeepsOrder DEF QueueType
<1>3. Ordered(SmsQueue, new)
  BY LaterKeepsOrder DEF QueueType
<1> QED
  BY <1>1, <1>2, <1>3

(* Whatever the service does, the answers stay in order.                       *)
LEMMA ServiceKeepsOrder ==
  ASSUME TypeOK, TypeOK', InFlightIsHead, AnswersInOrder, Serves
  PROVE  AnswersInOrder'
<1>1. /\ SmsQueue \in Seq(Messages) /\ QueueType
      /\ handled \in Nat /\ handled' \in 0..MaxSms /\ handled' \in Nat /\ 0 \in 0..MaxSms
  BY ConstantsAreNat DEF TypeOK, QueueType, GhostsType
<1>2. Ordered(SmsQueue, handled)
  BY DEF AnswersInOrder, Ordered
<1>3. /\ Service!NoticeWhats \in SUBSET Whats /\ Service!AnswerWhats \in SUBSET Whats
  BY DEF Service!NoticeWhats, Service!AnswerWhats, Whats
<1>4. CASE Service!Receive
  <2>1. handled < handled' /\ handled <= handled'
    BY <1>1, <1>4 DEF Service!Receive
  <2>2. SmsQueue' = SmsQueue \/ Service!Adds(Service!AnswerWhats, handled')
    BY <1>4 DEF Service!Receive
  <2>3. Ordered(SmsQueue', handled')
    BY <1>1, <1>2, <1>3, <2>1, <2>2, LaterKeepsOrder, AddKeepsOrder
  <2> QED
    BY <2>3 DEF AnswersInOrder, Ordered
<1>5. ASSUME handled' = handled, Ordered(SmsQueue', handled) PROVE AnswersInOrder'
  BY <1>5 DEF AnswersInOrder, Ordered
<1>6. CASE Service!Notify \/ Service!Give
  <2>1. /\ handled' = handled
        /\ SmsQueue' = SmsQueue \/ Service!Adds(Service!NoticeWhats, 0)
    BY <1>6 DEF Service!Notify, Service!Give
  <2>2. Ordered(SmsQueue', handled)
    BY <1>1, <1>2, <1>3, <2>1, AddKeepsOrder
  <2> QED
    BY <1>5, <2>1, <2>2
<1>7. CASE Service!Confirm \/ Service!Fail \/ UNCHANGED ServedVars
  BY <1>2, <1>5, <1>7 DEF Service!Confirm, Service!Fail, ServedVars
<1>8. CASE Service!Leave
  <2>1. /\ handled' = handled /\ SmsQueue' = Tail(SmsQueue)
        /\ GsmLogicState = "WAIT_SMS_SEND_CONFIRMATION"
    BY <1>8 DEF Service!Leave, given
  <2>2. Ordered(SmsQueue', handled)
    BY <1>1, <1>2, <2>1, TailKeepsOrder DEF InFlightIsHead
  <2> QED
    BY <1>5, <2>1, <2>2
<1>9. CASE Service!Lose
  <2>1. handled' = handled /\ SmsQueue' = <<>>
    BY <1>9 DEF Service!Lose
  <2> QED
    BY <1>5, <2>1, EmptySeq DEF Ordered
<1> QED
  BY <1>4, <1>6, <1>7, <1>8, <1>9 DEF Serves, Service!ServiceNext

(* The answers in the queue are to different SMSs, in the order in which those  *)
(* came, and to none that was not dealt with.                                  *)
THEOREM AnswersKeepOrder == Spec => []AnswersInOrder
<1>1. ASSUME Init PROVE AnswersInOrder
  <2>1. SmsQueue = <<>> /\ Len(SmsQueue) = 0
    BY <1>1 DEF Init
  <2> QED
    BY <2>1 DEF AnswersInOrder
<1>2. ASSUME TypeOK, ParserMatchesState, InFlightIsHead, SmsInv, FlowInv, AnswersInOrder,
             [Next]_vars
      PROVE  AnswersInOrder'
  <2>1. TypeOK'
    BY <1>2, TypeInductive
  <2>2. Serves
    BY <1>2, StepServes
  <2> QED
    BY <1>2, <2>1, <2>2, ServiceKeepsOrder
<1>3. Init => ParserMatchesState /\ InFlightIsHead
  BY DEF Init, ParserMatchesState, InFlightIsHead, Waiting, ParserOf
<1>4. TypeOK /\ SmsInv /\ [Next]_vars => SmsInv'
  BY SmsInvInductive
<1>5. TypeOK /\ ParserMatchesState /\ FlowInv /\ [Next]_vars => FlowInv'
  BY FlowInvInductive
<1> QED
  BY <1>1, <1>2, <1>3, <1>4, <1>5, InitIsTyped, TypeInductive, ParserMatchesStateInductive,
    InFlightIsHeadInductive, SmsInvAtStart, FlowInvAtStart, PTL DEF Spec
=============================================================================
