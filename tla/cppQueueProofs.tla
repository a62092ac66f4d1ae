--------------------------- MODULE cppQueueProofs ---------------------------
(***************************************************************************)
(* That the ring of cppQueue.tla implements the bounded sequence of        *)
(* BoundedQueue.tla, for every capacity and all four kinds of queue.       *)
(***************************************************************************)
EXTENDS cppQueue, TLAPS

-----------------------------------------------------------------------------
(* Arithmetic of the ring.                                                     *)

(* A position that left the ring on either side comes back on the other one.    *)
LEMMA Wraps ==
  ASSUME NEW N \in Nat \ {0}, NEW a \in Int, -N <= a, a < 2 * N
  PROVE  a % N = IF a < 0 THEN a + N ELSE IF a < N THEN a ELSE a - N
OBVIOUS

(* The ring has a slot: without the width of the code's integers, which large numerals
   would bring into every obligation. *)
LEMMA RingSize == rec_nb \in Nat \ {0}
BY CapacityAssumption

(* Where the i-th record is: the cnt slots before `in'. *)
Slot(end, n, i) == IF end - n + i - 1 < 0 THEN end - n + i - 1 + rec_nb ELSE end - n + i - 1

(* A record's slot, without the remainder. *)
LEMMA SlotOfContents ==
  ASSUME NEW end \in Slots, NEW n \in 0..rec_nb, NEW i \in 1..n
  PROVE  /\ (end - n + i - 1) % rec_nb = Slot(end, n, i)
         /\ Slot(end, n, i) \in Slots
<1> DEFINE a == end - n + i - 1
<1>1. rec_nb \in Nat \ {0}
  BY RingSize
<1>2. a \in Int /\ -rec_nb <= a /\ a < rec_nb
  BY <1>1 DEF Slots
<1>3. a % rec_nb = IF a < 0 THEN a + rec_nb ELSE a
  BY <1>1, <1>2, Wraps
<1> QED
  BY <1>1, <1>2, <1>3 DEF Slot, Slots

(* Records that are written and never garbage, the end of a FIFO and, unless it  *)
(* has overwritten, that of a LIFO.                                            *)
WrittenRecords == \A i \in 1..cnt : queue[Slot(in, cnt, i)] \in Records

EndOfQueue ==
  /\ impl = "FIFO" => out = IF in < cnt THEN in - cnt + rec_nb ELSE in - cnt
  /\ impl = "LIFO" => \/ in = IF cnt = rec_nb THEN 0 ELSE cnt
                      \/ ovw /\ \A s \in Slots : queue[s] \in Records

QueueInv == TypeOK /\ WrittenRecords /\ EndOfQueue

(* Incrementing and decrementing keep to the ring and undo each other. *)
LEMMA IndicesStay ==
  ASSUME NEW idx \in Slots
  PROVE  /\ Inc(idx) \in Slots /\ Dec(idx) \in Slots
         /\ Dec(Inc(idx)) = idx /\ Inc(Dec(idx)) = idx
BY RingSize DEF Slots, Inc, Dec

(* The record that is read next is the one at the end of the contents it should *)
(* be.                                                                         *)
LEMMA NextSlotIsEnd ==
  ASSUME QueueInv, ~isEmpty
  PROVE  /\ NextSlot = Slot(in, cnt, IF impl = "FIFO" THEN 1 ELSE cnt)
         /\ queue[NextSlot] \in Records
<1> DEFINE i == IF impl = "FIFO" THEN 1 ELSE cnt
<1>1. i \in 1..cnt
  BY RingSize DEF QueueInv, TypeOK, isEmpty
<1>2. NextSlot = Slot(in, cnt, i)
  BY RingSize DEF QueueInv, TypeOK, EndOfQueue, isEmpty, NextSlot, Slot, Slots, Dec
<1>3. queue[Slot(in, cnt, i)] \in Records
  BY <1>1 DEF QueueInv, WrittenRecords
<1> QED
  BY <1>2, <1>3

(* The record that peekIdx finds, but in a LIFO that may have overwritten.      *)
LEMMA AtIdxIsSlot ==
  ASSUME QueueInv, NEW idx \in Nat, idx < cnt,
         impl = "FIFO" \/ in = IF cnt = rec_nb THEN 0 ELSE cnt
  PROVE  AtIdx(idx) = queue[Slot(in, cnt, idx + 1)]
<1>1. CASE impl = "FIFO"
  <2> DEFINE a == out + idx
  <2>1. a \in Int /\ -rec_nb <= a /\ a < 2 * rec_nb /\ ~(a < 0)
    BY RingSize DEF QueueInv, TypeOK, Slots
  <2> HIDE DEF a
  <2>2. a % rec_nb = IF a < rec_nb THEN a ELSE a - rec_nb
    BY <2>1, Wraps, RingSize
  <2>3. a % rec_nb = Slot(in, cnt, idx + 1)
    BY <1>1, <2>2, RingSize DEF QueueInv, TypeOK, EndOfQueue, Slot, Slots, a
  <2> QED
    BY <1>1, <2>3 DEF AtIdx, a
<1>2. CASE impl = "LIFO" /\ in = IF cnt = rec_nb THEN 0 ELSE cnt
  <2>1. idx = Slot(in, cnt, idx + 1)
    BY <1>2, RingSize DEF QueueInv, TypeOK, Slot, Slots
  <2> QED
    BY <1>2, <2>1 DEF AtIdx
<1> QED
  BY <1>1, <1>2 DEF QueueInv, TypeOK

(* Below the count, peekIdx never finds garbage, a LIFO that has overwritten included. *)
LEMMA AtIdxIsRecord ==
  ASSUME QueueInv, NEW idx \in Nat, idx < cnt
  PROVE  AtIdx(idx) \in Records
<1>1. CASE impl = "FIFO" \/ in = IF cnt = rec_nb THEN 0 ELSE cnt
  <2>1. AtIdx(idx) = queue[Slot(in, cnt, idx + 1)] /\ idx + 1 \in 1..cnt
    BY <1>1, AtIdxIsSlot DEF QueueInv, TypeOK
  <2> QED
    BY <2>1 DEF QueueInv, WrittenRecords
<1>2. CASE impl = "LIFO" /\ \A s \in Slots : queue[s] \in Records
  BY <1>2, RingSize DEF AtIdx, QueueInv, TypeOK, Slots
<1> QED
  BY <1>1, <1>2 DEF QueueInv, TypeOK, EndOfQueue

(* A full queue has a record in every slot. *)
LEMMA FullIsWritten ==
  ASSUME QueueInv, isFull, NEW s \in Slots
  PROVE  queue[s] \in Records
<1> DEFINE i == IF s < in THEN s - in + rec_nb + 1 ELSE s - in + 1
<1>1. i \in 1..cnt /\ s = Slot(in, cnt, i)
  BY RingSize DEF QueueInv, TypeOK, isFull, Slots, Slot
<1> QED
  BY <1>1 DEF QueueInv, WrittenRecords

(* Every call keeps the inductive invariant. *)
LEMMA QueueInvInductive ==
  ASSUME QueueInv, [Next]_vars
  PROVE  QueueInv'
<1> USE RecordsAssumption, RingSize
<1>1. CASE flush
  BY <1>1 DEF flush, QueueInv, TypeOK, WrittenRecords, EndOfQueue, Slots
<1>2. CASE pushRefused
  BY <1>2 DEF pushRefused, QueueInv, TypeOK, WrittenRecords, EndOfQueue, Slot
<1>3. ASSUME NEW r \in Records, push(r) PROVE QueueInv'
  <2>1. TypeOK'
    BY <1>3, IndicesStay DEF push, isFull, QueueInv, TypeOK
  <2>2. WrittenRecords'
    <3> SUFFICES ASSUME NEW i \in 1..cnt'
                 PROVE  queue'[Slot(in', cnt', i)] \in Records
      BY DEF WrittenRecords, Slot
    <3>1. Slot(in', cnt', i) \in Slots /\ i \in Nat
      BY <1>3 DEF push, isFull, QueueInv, TypeOK, Slot, Slots, Inc
    <3>2. CASE Slot(in', cnt', i) = in
      BY <1>3, <3>2 DEF push, QueueInv, TypeOK
    <3>3. CASE Slot(in', cnt', i) # in
      <4>1. queue'[Slot(in', cnt', i)] = queue[Slot(in', cnt', i)]
        BY <1>3, <3>1, <3>3 DEF push, QueueInv, TypeOK
      <4>2. CASE isFull
        BY <3>1, <4>1, <4>2, FullIsWritten
      <4>3. CASE ~isFull
        <5>1. i \in 1..cnt /\ Slot(in', cnt', i) = Slot(in, cnt, i)
          BY <1>3, <3>1, <3>3, <4>3 DEF push, isFull, QueueInv, TypeOK, Slot, Slots, Inc
        <5> QED
          BY <4>1, <5>1 DEF QueueInv, WrittenRecords
      <4> QED
        BY <4>2, <4>3
    <3> QED
      BY <3>2, <3>3
  <2>3. EndOfQueue'
    <3>1. CASE impl = "FIFO"
      BY <1>3, <3>1 DEF push, isFull, QueueInv, TypeOK, EndOfQueue, Slots, Inc
    <3>2. CASE impl = "LIFO" /\ ~isFull
      BY <1>3, <3>2 DEF push, isFull, QueueInv, TypeOK, EndOfQueue, Slots, Inc
    <3>3. CASE impl = "LIFO" /\ isFull
      <4>1. \A s \in Slots : queue'[s] \in Records
        BY <1>3, <3>3, FullIsWritten DEF push, QueueInv, TypeOK
      <4>2. ovw /\ impl' = "LIFO" /\ ovw' = ovw
        BY <1>3, <3>3 DEF push
      <4> QED
        BY <4>1, <4>2 DEF EndOfQueue, Slots
    <3> QED
      BY <3>1, <3>2, <3>3 DEF QueueInv, TypeOK
  <2> QED
    BY <2>1, <2>2, <2>3 DEF QueueInv
<1>4. ASSUME remove, answer' \in Records \cup {"true"} PROVE QueueInv'
  <2>1. TypeOK'
    BY <1>4, IndicesStay DEF remove, isEmpty, QueueInv, TypeOK
  <2>2. WrittenRecords'
    <3> SUFFICES ASSUME NEW i \in 1..cnt'
                 PROVE  queue'[Slot(in', cnt', i)] \in Records
      BY DEF WrittenRecords, Slot
    <3> DEFINE j == IF impl = "FIFO" THEN i + 1 ELSE i
    <3>1. j \in 1..cnt /\ Slot(in', cnt', i) = Slot(in, cnt, j)
      BY <1>4 DEF remove, isEmpty, QueueInv, TypeOK, Slot, Slots, Inc, Dec
    <3> QED
      BY <1>4, <3>1 DEF remove, QueueInv, WrittenRecords
  <2>3. EndOfQueue'
    BY <1>4 DEF remove, isEmpty, QueueInv, TypeOK, EndOfQueue, Slots, Inc, Dec
  <2> QED
    BY <2>1, <2>2, <2>3 DEF QueueInv
<1>5. CASE pop \/ drop
  BY <1>4, <1>5, NextSlotIsEnd DEF pop, drop, remove
<1>6. CASE peek
  BY <1>6, NextSlotIsEnd DEF peek, QueueInv, TypeOK, WrittenRecords, EndOfQueue, Slot
<1>7. CASE nothingThere
  BY <1>7 DEF nothingThere, QueueInv, TypeOK, WrittenRecords, EndOfQueue, Slot
<1>8. ASSUME NEW idx \in Nat, peekIdx(idx) PROVE QueueInv'
  <2>1. answer' \in Records \cup {"false"}
    BY <1>8, AtIdxIsRecord DEF peekIdx, QueueInv, TypeOK
  <2> QED
    BY <1>8, <2>1 DEF peekIdx, QueueInv, TypeOK, WrittenRecords, EndOfQueue, Slot
<1>9. CASE peekPrevious
  BY <1>8, <1>9 DEF peekPrevious, QueueInv, TypeOK
<1>10. CASE UNCHANGED vars
  BY <1>10 DEF vars, QueueInv, TypeOK, WrittenRecords, EndOfQueue, Slot
<1> QED
  BY <1>1, <1>2, <1>3, <1>5, <1>6, <1>7, <1>8, <1>9, <1>10 DEF Next

(* cppQueue.cpp: positions and the count keep to the ring, whatever is called,  *)
(* and a call never answers with what a slot held before it was written.       *)
THEOREM TypeCorrect == Spec => []TypeOK
<1>1. Init => QueueInv
  BY RingSize DEF Init, QueueInv, TypeOK, WrittenRecords, EndOfQueue, Slots
<1>2. QueueInv /\ [Next]_vars => QueueInv'
  BY QueueInvInductive
<1>3. QueueInv => TypeOK
  BY DEF QueueInv
<1> QED
  BY <1>1, <1>2, <1>3, PTL DEF Spec

-----------------------------------------------------------------------------
(* The contents as the proof sees them: no remainders.                         *)
LEMMA ContentsAre ==
  ASSUME QueueInv
  PROVE  /\ Contents \in Seq(Records) /\ Len(Contents) = cnt
         /\ \A i \in 1..cnt : Contents[i] = queue[Slot(in, cnt, i)]
<1>1. \A i \in 1..cnt : (in - cnt + i - 1) % rec_nb = Slot(in, cnt, i)
  BY SlotOfContents DEF QueueInv, TypeOK
<1>2. \A i \in 1..cnt : Contents[i] = queue[Slot(in, cnt, i)]
  BY <1>1 DEF Contents
<1>3. \A i \in 1..cnt : Contents[i] \in Records
  BY <1>2 DEF QueueInv, WrittenRecords
<1>4. cnt \in Nat /\ DOMAIN Contents = 1..cnt
  BY RingSize DEF Contents, QueueInv, TypeOK
<1>5. Contents \in [1..cnt -> Records]
  BY <1>3, <1>4 DEF Contents
<1> QED
  BY <1>2, <1>4, <1>5

(* The same after a step. *)
LEMMA ContentsWillBe ==
  ASSUME QueueInv'
  PROVE  /\ Contents' \in Seq(Records) /\ Len(Contents') = cnt'
         /\ \A i \in 1..cnt' : Contents'[i] = queue'[Slot(in', cnt', i)]
<1>1. \A i \in 1..cnt' : (in' - cnt' + i - 1) % rec_nb = Slot(in', cnt', i)
  BY SlotOfContents DEF QueueInv, TypeOK, Slots
<1>2. \A i \in 1..cnt' : Contents'[i] = queue'[Slot(in', cnt', i)]
  BY <1>1 DEF Contents
<1>3. \A i \in 1..cnt' : Contents'[i] \in Records
  BY <1>2 DEF QueueInv, WrittenRecords, Slot
<1>4. cnt' \in Nat /\ DOMAIN Contents' = 1..cnt'
  BY RingSize DEF Contents, QueueInv, TypeOK
<1>5. Contents' \in [1..cnt' -> Records]
  BY <1>3, <1>4 DEF Contents
<1> QED
  BY <1>2, <1>4, <1>5

(* Sequences of the same length and elements are the same. *)
LEMMA SameSequence ==
  ASSUME NEW s \in Seq(Records), NEW t \in Seq(Records), Len(s) = Len(t),
         \A i \in 1..Len(s) : s[i] = t[i]
  PROVE  s = t
OBVIOUS

(* What is left of a FIFO's contents when one is taken. *)
LEMMA AllButFirst ==
  ASSUME NEW s \in Seq(Records), s # <<>>
  PROVE  /\ Tail(s) \in Seq(Records) /\ Len(Tail(s)) = Len(s) - 1
         /\ \A i \in 1..(Len(s) - 1) : Tail(s)[i] = s[i + 1]
         /\ Head(s) = s[1]
OBVIOUS

(* What is left of a LIFO's contents when one is taken. *)
LEMMA AllButLast ==
  ASSUME NEW s \in Seq(Records), s # <<>>
  PROVE  /\ SubSeq(s, 1, Len(s) - 1) \in Seq(Records)
         /\ Len(SubSeq(s, 1, Len(s) - 1)) = Len(s) - 1
         /\ \A i \in 1..(Len(s) - 1) : SubSeq(s, 1, Len(s) - 1)[i] = s[i]
OBVIOUS

(* The contents with one more record. *)
LEMMA OneMore ==
  ASSUME NEW s \in Seq(Records), NEW r \in Records
  PROVE  /\ Append(s, r) \in Seq(Records) /\ Len(Append(s, r)) = Len(s) + 1
         /\ \A i \in 1..Len(s) : Append(s, r)[i] = s[i]
         /\ Append(s, r)[Len(s) + 1] = r
OBVIOUS

-----------------------------------------------------------------------------
(* Each call is the abstract queue's: a push, overwriting or not.              *)
LEMMA PushIsPush ==
  ASSUME QueueInv, QueueInv', NEW r \in Records, push(r)
  PROVE  Promise!Push(r) /\ UNCHANGED <<impl, ovw>>
<1> USE RingSize
<1> DEFINE rest == IF cnt = rec_nb THEN Tail(Contents) ELSE Contents
           k    == IF cnt = rec_nb THEN cnt - 1 ELSE cnt
<1>1. /\ rest \in Seq(Records) /\ Len(rest) = k
      /\ \A i \in 1..k : rest[i] = queue[Slot(in, cnt, IF cnt = rec_nb THEN i + 1 ELSE i)]
  <2>1. CASE cnt = rec_nb
    <3>1. Contents # <<>>
      BY <2>1, ContentsAre
    <3>2. Tail(Contents) \in Seq(Records) /\ Len(Tail(Contents)) = cnt - 1
      BY <3>1, ContentsAre, AllButFirst
    <3>3. \A i \in 1..(cnt - 1) : i + 1 \in 1..cnt /\ Tail(Contents)[i] = Contents[i + 1]
      BY <3>1, ContentsAre, AllButFirst DEF QueueInv, TypeOK
    <3> QED
      BY <2>1, <3>2, <3>3, ContentsAre
  <2>2. CASE cnt # rec_nb
    BY <2>2, ContentsAre
  <2> QED
    BY <2>1, <2>2
<1>2. cnt' = k + 1 /\ k \in Nat /\ k < rec_nb
  BY DEF push, isFull, QueueInv, TypeOK
<1>3. ASSUME NEW i \in 1..k
      PROVE  queue'[Slot(in', cnt', i)] = queue[Slot(in, cnt, IF cnt = rec_nb THEN i + 1 ELSE i)]
  <2>1. /\ Slot(in', cnt', i) = Slot(in, cnt, IF cnt = rec_nb THEN i + 1 ELSE i)
        /\ Slot(in', cnt', i) # in
    BY <1>2 DEF push, isFull, QueueInv, TypeOK, Slot, Slots, Inc
  <2> QED
    BY <2>1 DEF push, QueueInv, TypeOK
<1>4. queue'[Slot(in', cnt', k + 1)] = r
  <2>1. Slot(in', cnt', k + 1) = in
    BY <1>2 DEF push, isFull, QueueInv, TypeOK, Slot, Slots, Inc
  <2> QED
    BY <2>1 DEF push, QueueInv, TypeOK
<1> HIDE DEF rest, k
<1>5. Append(rest, r) \in Seq(Records) /\ Len(Append(rest, r)) = k + 1
  BY <1>1, <1>2, OneMore
<1>6. \A i \in 1..(k + 1) : Contents'[i] = Append(rest, r)[i]
  <2> SUFFICES ASSUME NEW i \in 1..(k + 1) PROVE Contents'[i] = Append(rest, r)[i]
    OBVIOUS
  <2>1. CASE i \in 1..k
    BY <1>1, <1>2, <1>3, <2>1, OneMore, ContentsWillBe
  <2>2. CASE i = k + 1
    BY <1>1, <1>2, <1>4, <2>2, OneMore, ContentsWillBe
  <2>3. i \in 1..k \/ i = k + 1
    BY <1>2
  <2> QED
    BY <2>1, <2>2, <2>3
<1>7. Contents' = Append(rest, r)
  BY <1>2, <1>5, <1>6, ContentsWillBe, SameSequence
<1>8. Len(Contents) = cnt /\ (Len(Contents) < rec_nb \/ ovw)
  BY ContentsAre DEF push, isFull, QueueInv, TypeOK
<1> QED
  BY <1>7, <1>8 DEF push, Promise!Push, rest

(* A push that is refused is the abstract queue's refusal. *)
LEMMA RefusedIsPush ==
  ASSUME QueueInv, QueueInv', pushRefused
  PROVE  (\E r \in Records : Promise!Push(r)) /\ UNCHANGED <<impl, ovw>>
<1>1. PICK r \in Records : TRUE
  BY RingSize, FullIsWritten DEF pushRefused, QueueInv, TypeOK, Slots
<1>2. Contents' = Contents
  BY DEF pushRefused, Contents
<1>3. Len(Contents) = rec_nb
  BY ContentsAre DEF pushRefused, isFull
<1>4. Promise!Push(r)
  BY <1>2, <1>3, RingSize DEF pushRefused, Promise!Push
<1> QED
  BY <1>4 DEF pushRefused

(* pop and peek answer with the record that the abstract queue has next. *)
LEMMA ReadsNext ==
  ASSUME QueueInv, ~isEmpty
  PROVE  Contents # <<>> /\ Promise!Next1 = queue[NextSlot]
<1>1. Contents # <<>> /\ Len(Contents) = cnt
  BY ContentsAre, RingSize DEF isEmpty, QueueInv, TypeOK
<1>2. cnt \in 1..cnt /\ 1 \in 1..cnt
  BY RingSize DEF isEmpty, QueueInv, TypeOK
<1>3. Head(Contents) = Contents[1]
  BY <1>1, ContentsAre, AllButFirst
<1> QED
  BY <1>1, <1>2, <1>3, ContentsAre, NextSlotIsEnd DEF Promise!Next1

(* pop and drop leave what the abstract queue leaves. *)
LEMMA RemoveLeavesRest ==
  ASSUME QueueInv, QueueInv', remove
  PROVE  Contents' = Promise!Rest /\ UNCHANGED <<impl, ovw>>
<1> USE RingSize
<1>1. ~isEmpty /\ Contents # <<>> /\ cnt' = cnt - 1 /\ cnt \in Nat \ {0}
  BY ReadsNext DEF remove, isEmpty, QueueInv, TypeOK
<1>2. CASE impl = "FIFO"
  <2>1. \A i \in 1..(cnt - 1) : queue'[Slot(in', cnt', i)] = queue[Slot(in, cnt, i + 1)]
    BY <1>1, <1>2 DEF remove, QueueInv, TypeOK, Slot, Slots
  <2>2. \A i \in 1..(cnt - 1) : i + 1 \in 1..cnt /\ Tail(Contents)[i] = Contents[i + 1]
    BY <1>1, ContentsAre, AllButFirst
  <2>3. \A i \in 1..(cnt - 1) : Contents'[i] = Tail(Contents)[i]
    BY <1>1, <2>1, <2>2, ContentsAre, ContentsWillBe
  <2>4. Tail(Contents) \in Seq(Records) /\ Len(Tail(Contents)) = cnt - 1
    BY <1>1, ContentsAre, AllButFirst
  <2>5. Contents' = Tail(Contents)
    BY <1>1, <2>3, <2>4, ContentsWillBe, SameSequence
  <2> QED
    BY <1>2, <2>5 DEF remove, Promise!Rest
<1>3. CASE impl = "LIFO"
  <2> DEFINE rest == SubSeq(Contents, 1, Len(Contents) - 1)
  <2>1. ASSUME NEW i \in 1..(cnt - 1)
        PROVE  queue'[Slot(in', cnt', i)] = queue[Slot(in, cnt, i)]
    <3>1. in' = IF in > 0 THEN in - 1 ELSE rec_nb - 1
      BY <1>3 DEF remove, Dec
    <3>2. in \in 0..(rec_nb - 1) /\ cnt \in 0..rec_nb /\ cnt' = cnt - 1
      BY <1>1 DEF QueueInv, TypeOK, Slots
    <3>3. Slot(in', cnt', i) = Slot(in, cnt, i)
      BY <3>1, <3>2 DEF Slot
    <3> QED
      BY <3>3 DEF remove
  <2>2. rest \in Seq(Records) /\ Len(rest) = cnt - 1
    BY <1>1, ContentsAre, AllButLast
  <2>3. \A i \in 1..(cnt - 1) : i \in 1..cnt /\ rest[i] = Contents[i]
    BY <1>1, ContentsAre, AllButLast
  <2> HIDE DEF rest
  <2>4. \A i \in 1..(cnt - 1) : Contents'[i] = rest[i]
    BY <1>1, <2>1, <2>3, ContentsAre, ContentsWillBe
  <2>5. Contents' = rest
    BY <1>1, <2>2, <2>4, ContentsWillBe, SameSequence
  <2> QED
    BY <1>3, <2>5 DEF remove, Promise!Rest, rest
<1> QED
  BY <1>2, <1>3 DEF QueueInv, TypeOK

(* peekIdx answers as the abstract queue's, and so does peekPrevious, which calls it. *)
LEMMA PeekIdxIsPeekIdx ==
  ASSUME QueueInv, NEW idx \in Nat, peekIdx(idx)
  PROVE  /\ \E k \in 0..rec_nb : Promise!PeekIdx(k)
         /\ UNCHANGED <<impl, ovw>>
<1> USE RingSize
<1>1. Contents' = Contents /\ Len(Contents) = cnt /\ cnt \in 0..rec_nb
  BY ContentsAre DEF peekIdx, Contents, QueueInv, TypeOK
<1>2. CASE idx >= cnt
  <2>1. answer' = "false"
    BY <1>1, <1>2 DEF peekIdx
  <2>2. Promise!PeekIdx(cnt)
    BY <1>1, <2>1 DEF Promise!PeekIdx
  <2> QED
    BY <1>1, <2>2 DEF peekIdx
<1>3. CASE idx < cnt
  <2>1. idx \in 0..rec_nb /\ idx + 1 \in 1..cnt /\ answer' = AtIdx(idx)
    BY <1>1, <1>3 DEF peekIdx
  <2>2. CASE impl = "LIFO" /\ ovw
    BY <1>1, <1>3, <2>1, <2>2, AtIdxIsRecord DEF Promise!PeekIdx, peekIdx
  <2>3. CASE ~(impl = "LIFO" /\ ovw)
    <3>1. AtIdx(idx) = queue[Slot(in, cnt, idx + 1)]
      BY <1>3, <2>3, AtIdxIsSlot DEF QueueInv, TypeOK, EndOfQueue
    <3>2. answer' = Contents[idx + 1]
      BY <2>1, <3>1, ContentsAre
    <3>3. Promise!PeekIdx(idx)
      BY <1>1, <1>3, <2>3, <3>2 DEF Promise!PeekIdx
    <3> QED
      BY <2>1, <3>3 DEF peekIdx
  <2> QED
    BY <2>2, <2>3
<1> QED
  BY <1>1, <1>2, <1>3

(* Every step is one of the abstract queue, or none. *)
LEMMA StepIsPromised ==
  ASSUME QueueInv, QueueInv', [Next]_vars
  PROVE  [Promise!QueueNext]_(Promise!queueVars)
<1> USE RingSize
<1>1. CASE flush
  <2>1. Contents' = <<>>
    BY <1>1, ContentsWillBe DEF flush
  <2>2. Promise!Flush
    BY <1>1, <2>1 DEF flush, Promise!Flush
  <2> QED
    BY <1>1, <2>2 DEF flush, Promise!QueueNext
<1>2. CASE pushRefused
  BY <1>2, RefusedIsPush DEF Promise!QueueNext
<1>3. CASE \E r \in Records : push(r)
  BY <1>3, PushIsPush DEF Promise!QueueNext
<1>4. CASE pop
  <2>1. Promise!Pop
    BY <1>4, ReadsNext, RemoveLeavesRest DEF pop, remove, Promise!Pop
  <2> QED
    BY <1>4, <2>1, RemoveLeavesRest DEF pop, Promise!QueueNext
<1>5. CASE drop
  <2>1. Promise!Drop
    BY <1>5, ReadsNext, RemoveLeavesRest DEF drop, remove, Promise!Drop
  <2> QED
    BY <1>5, <2>1, RemoveLeavesRest DEF drop, Promise!QueueNext
<1>6. CASE peek
  <2>1. Contents' = Contents
    BY <1>6 DEF peek, Contents
  <2>2. Promise!Peek
    BY <1>6, <2>1, ReadsNext DEF peek, Promise!Peek
  <2> QED
    BY <1>6, <2>2 DEF peek, Promise!QueueNext
<1>7. CASE nothingThere
  <2>1. Contents' = Contents /\ Contents = <<>>
    BY <1>7, ContentsAre DEF nothingThere, isEmpty, Contents
  <2>2. Promise!Peek
    BY <1>7, <2>1 DEF nothingThere, Promise!Peek
  <2> QED
    BY <1>7, <2>2 DEF nothingThere, Promise!QueueNext
<1>8. CASE \E idx \in 0..rec_nb : peekIdx(idx)
  BY <1>8, PeekIdxIsPeekIdx DEF Promise!QueueNext
<1>9. CASE peekPrevious
  <2>1. PICK idx \in Nat : peekIdx(idx)
    BY <1>9 DEF peekPrevious, QueueInv, TypeOK
  <2> QED
    BY <2>1, PeekIdxIsPeekIdx DEF Promise!QueueNext
<1>10. CASE UNCHANGED vars
  BY <1>10 DEF vars, Contents, Promise!queueVars
<1> QED
  BY <1>1, <1>2, <1>3, <1>4, <1>5, <1>6, <1>7, <1>8, <1>9, <1>10 DEF Next

(* cppQueue.h: of every capacity and kind, the ring answers every sequence of   *)
(* calls as a bounded sequence does.                                           *)
THEOREM RingKeepsPromise == Spec => KeepsPromise
<1>1. Init => QueueInv /\ Promise!QueueInit
  BY RingSize DEF Init, QueueInv, TypeOK, WrittenRecords, EndOfQueue, Slots, Contents,
     Promise!QueueInit
<1>2. QueueInv /\ [Next]_vars => QueueInv'
  BY QueueInvInductive
<1>3. QueueInv /\ QueueInv' /\ [Next]_vars => [Promise!QueueNext]_(Promise!queueVars)
  BY StepIsPromised
<1> QED
  BY <1>1, <1>2, <1>3, PTL DEF Spec, KeepsPromise, Promise!QueueSpec
=============================================================================
