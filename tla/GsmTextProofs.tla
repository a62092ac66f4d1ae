---------------------------- MODULE GsmTextProofs ----------------------------
(* What the searches and cuts of GsmText return, for every text. *)
EXTENDS GsmText, TLAPS, WellFoundedInduction, SequenceTheorems

(* First returns the least index of a match, and 0 only when there is none:    *)
(* what every indexOf of GsmCommands.ino promises.                             *)
LEMMA FirstIsLeast ==
  ASSUME NEW n \in Nat, NEW I \in SUBSET (1..n)
  PROVE  /\ First(I) \in 0..n
         /\ I = {} => First(I) = 0
         /\ I # {} => First(I) \in I /\ \A j \in I : First(I) <= j
<1>1. CASE I = {}
  BY <1>1 DEF First
<1>2. CASE I # {}
  <2> DEFINE R == OpToRel(<, Nat)
  <2>1. IsWellFoundedOn(R, Nat)
    BY NatLessThanWellFounded
  <2>2. \A y, z \in Nat : y < z => <<y, z>> \in R
    BY DEF OpToRel
  <2> HIDE DEF R
  <2>3. I \subseteq Nat
    OBVIOUS
  <2>4. PICK x \in I : \A y \in I : ~(<<y, x>> \in R)
    BY <1>2, <2>1, <2>3, WFMin
  <2>5. ASSUME NEW y \in I PROVE x <= y
    <3>1. x \in Nat /\ y \in Nat
      BY <2>3
    <3>2. ~(y < x)
      BY <2>2, <2>4, <3>1
    <3> QED
      BY <3>1, <3>2
  <2>6. First(I) = CHOOSE m \in I : \A y \in I : m <= y
    BY <1>2 DEF First, Min
  <2>7. First(I) \in I /\ \A j \in I : First(I) <= j
    BY <1>2, <2>5, <2>6
  <2>8. First(I) \in 0..n
    <3>1. \A j \in I : j \in 1..n
      OBVIOUS
    <3>2. First(I) \in 1..n
      BY <2>7, <3>1
    <3> QED
      BY <3>2
  <2> QED
    BY <1>2, <2>7, <2>8
<1> QED
  BY <1>1, <1>2

(* Find returns the first piece of a kind: a piece of that kind, and no piece  *)
(* of that kind stands before it.                                              *)
LEMMA FindIsFirstMatch ==
  ASSUME NEW b \in Seq(Piece), NEW k
  PROVE  /\ Find(b, k) \in 0..Len(b)
         /\ Find(b, k) # 0 => b[Find(b, k)].kind = k
         /\ \A j \in 1..Len(b) : b[j].kind = k => Find(b, k) # 0 /\ Find(b, k) <= j
<1> DEFINE I == {i \in 1..Len(b) : b[i].kind = k}
<1>1. Len(b) \in Nat /\ I \in SUBSET (1..Len(b)) /\ Find(b, k) = First(I)
  BY DEF Find
<1>2. /\ First(I) \in 0..Len(b)
      /\ I = {} => First(I) = 0
      /\ I # {} => First(I) \in I /\ \A j \in I : First(I) <= j
  <2> HIDE DEF I
  <2> QED
    BY <1>1, FirstIsLeast
<1>3. Find(b, k) \in 0..Len(b)
  BY <1>1, <1>2
<1>4. ASSUME Find(b, k) # 0 PROVE b[Find(b, k)].kind = k
  <2>1. Find(b, k) \in I
    BY <1>1, <1>2, <1>4
  <2> QED
    BY <2>1
<1>5. ASSUME NEW j \in 1..Len(b), b[j].kind = k
      PROVE  Find(b, k) # 0 /\ Find(b, k) <= j
  <2>1. j \in I
    BY <1>5
  <2>2. Find(b, k) \in I /\ Find(b, k) <= j
    BY <1>1, <1>2, <2>1
  <2> QED
    BY <2>2
<1> QED
  BY <1>3, <1>4, <1>5

(* The other searches return an index of the text or 0.                        *)
LEMMA SearchesInRange ==
  ASSUME NEW b \in Seq(Piece)
  PROVE  /\ FindOk(b) \in 0..Len(b) /\ FindError(b) \in 0..Len(b)
         /\ FindCredit(b) \in 0..Len(b) /\ FindRing(b) \in 0..Len(b)
<1>1. Len(b) \in Nat
  OBVIOUS
<1>2. FindOk(b) \in 0..Len(b)
  BY <1>1, FirstIsLeast DEF FindOk
<1>3. FindError(b) \in 0..Len(b)
  BY <1>1, FirstIsLeast DEF FindError
<1>4. FindCredit(b) \in 0..Len(b)
  BY <1>1, FirstIsLeast DEF FindCredit
<1> QED
  BY <1>2, <1>3, <1>4, FindIsFirstMatch DEF FindRing

(* FindSmsNotification returns the line after the first header, and there is   *)
(* such a line.                                                                *)
LEMMA FindSmsIsBodyOfFirstHeader ==
  ASSUME NEW b \in Seq(Piece), FindSms(b) # 0
  PROVE  /\ FindSms(b) \in 2..Len(b)
         /\ b[FindSms(b) - 1].kind = "CMT" /\ FindSms(b) - 1 = Find(b, "CMT")
BY FindIsFirstMatch DEF FindSms

(* Cut, which is substring, keeps the rest of the text in order.               *)
LEMMA CutIsSuffix ==
  ASSUME NEW b \in Seq(Piece), NEW n \in 0..Len(b)
  PROVE  /\ Cut(b, n) \in Seq(Piece) /\ Len(Cut(b, n)) = Len(b) - n
         /\ \A i \in 1..(Len(b) - n) : Cut(b, n)[i] = b[n + i]
<1>1. Len(b) \in Nat /\ \A i \in (n + 1)..Len(b) : b[i] \in Piece
  OBVIOUS
<1>2. /\ SubSeq(b, n + 1, Len(b)) \in Seq(Piece)
      /\ Len(SubSeq(b, n + 1, Len(b))) =
           IF n + 1 <= Len(b) THEN Len(b) - (n + 1) + 1 ELSE 0
      /\ \A i \in 1..(Len(b) - (n + 1) + 1) :
           SubSeq(b, n + 1, Len(b))[i] = b[n + 1 + i - 1]
  BY <1>1, SubSeqProperties
<1> QED
  BY <1>1, <1>2 DEF Cut

(* Whatever is left of a text when its first RING is handled is text.          *)
LEMMA AfterRingIsText ==
  ASSUME NEW b \in Seq(Piece), FindRing(b) # 0
  PROVE  AfterRing(b) \subseteq Seq(Piece)
<1>1. FindRing(b) \in 1..Len(b) /\ Len(b) \in Nat
  BY SearchesInRange
<1>2. CASE FindRing(b) < Len(b)
  BY <1>1, <1>2, CutIsSuffix DEF AfterRing
<1>3. CASE ~(FindRing(b) < Len(b))
  <2>1. Tail(b) \in Seq(Piece)
    BY <1>1, HeadTailProperties
  <2> QED
    BY <1>3, <2>1 DEF AfterRing, WithoutFirstCharacter
<1> QED
  BY <1>2, <1>3
=============================================================================
