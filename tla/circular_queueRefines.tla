----------------------- MODULE circular_queueRefines -----------------------
(***************************************************************************)
(* The queues of circular_queue_mp.tla implement the channel of            *)
(* FifoChannel.tla: every access to what the threads share is a step of    *)
(* the channel, or nobody sees it.  The contents are described element by  *)
(* element, wherever in a call of the consumer an element is just then; a  *)
(* step is then a matter of which elements it leaves, moves or adds.       *)
(***************************************************************************)
EXTENDS circular_queueProofs

-----------------------------------------------------------------------------
(* What is in the queue, element by element.                                   *)

(* How many elements there are: one that was put back counts once. *)
Held == IF consumer.pc = "release" THEN inQueue - 1 ELSE inQueue

(* The i-th of them: in the hands of the consumer, in what for_each_rev_requeue *)
(* found, or in its slot.                                                      *)
Elem(i) ==
  IF consumer.pc = "store" /\ i <= consumer.n THEN consumer.got[i]
  ELSE IF consumer.pc \in Revs /\ i <= Len(before) THEN before[i]
  ELSE m_buffer[Ahead(m_outPos, IF consumer.pc = "release" THEN i ELSE i - 1)]

ContentsAre ==
  /\ Held \in 0..capacity /\ Contents \in Seq(T \cup {Nothing}) /\ Len(Contents) = Held
  /\ \A i \in 1..Held : Contents[i] = Elem(i)

(* Two sequences in a row. *)
LEMMA InARow ==
  ASSUME NEW S, NEW r \in Seq(S), NEW q \in Seq(S)
  PROVE  /\ r \o q \in Seq(S) /\ Len(r \o q) = Len(r) + Len(q)
         /\ \A i \in 1..(Len(r) + Len(q)) : (r \o q)[i] = IF i <= Len(r) THEN r[i] ELSE q[i - Len(r)]
OBVIOUS

(* Sequences that have the same elements are the same. *)
LEMMA SameSequence ==
  ASSUME NEW S, NEW r \in Seq(S), NEW q \in Seq(S), Len(r) = Len(q),
         \A i \in 1..Len(r) : r[i] = q[i]
  PROVE  r = q
OBVIOUS

(* A part of a sequence. *)
LEMMA PartOf ==
  ASSUME NEW S, NEW r \in Seq(S), NEW k \in 0..Len(r)
  PROVE  LET part == SubSeq(r, k + 1, Len(r))
         IN  /\ part \in Seq(S) /\ Len(part) = Len(r) - k
             /\ \A i \in 1..(Len(r) - k) : part[i] = r[k + i]
OBVIOUS

(* What is behind the first n elements. *)
LEMMA AfterIs ==
  ASSUME Typed, NEW n \in 0..capacity, n <= inQueue, inQueue - n <= capacity
  PROVE  /\ After(n) \in Seq(T \cup {Nothing}) /\ Len(After(n)) = inQueue - n
         /\ \A i \in 1..(inQueue - n) : After(n)[i] = m_buffer[Ahead(m_outPos, n + (i - 1))]
<1> DEFINE from == Ahead(m_outPos, n)
           rest == inQueue - n
<1>1. /\ m_inPos \in Slots /\ m_outPos \in Slots /\ m_inPos = Ahead(m_outPos, inQueue)
      /\ inQueue \in Int /\ inQueue <= m_bufSize /\ n \in 0..m_bufSize
      /\ capacity \in Int /\ m_bufSize = capacity + 1 /\ n \in Nat
  <2>1. m_inPos \in Slots /\ m_outPos \in Slots
    BY DEF Typed, Shapes
  <2>2. m_inPos = Ahead(m_outPos, inQueue) /\ inQueue \in 0..m_bufSize
    BY InQueueIs
  <2> QED
    BY <2>1, <2>2, RingSize
<1>2. rest \in Nat /\ rest <= capacity /\ n + rest = inQueue
  BY <1>1
<1>3. from \in Slots
  BY <1>1, AheadIs
<1> HIDE DEF rest
<1>4. m_inPos = Ahead(from, rest)
  BY <1>1, <1>2, AheadAgain
<1>5. Available(m_inPos, from) = rest
  BY <1>2, <1>3, <1>4, AvailableAhead
<1>6. After(n) = Between(from, m_inPos)
  BY DEF After, Ahead
<1> HIDE DEF from
<1>7. /\ After(n) \in Seq(T \cup {Nothing}) /\ Len(After(n)) = rest
      /\ \A i \in 1..rest : After(n)[i] = m_buffer[Ahead(from, i - 1)]
  <2>1. /\ Between(from, m_inPos) \in Seq(T \cup {Nothing})
        /\ Len(Between(from, m_inPos)) = Available(m_inPos, from)
        /\ \A i \in 1..Available(m_inPos, from) :
             Between(from, m_inPos)[i] = m_buffer[Ahead(from, i - 1)]
    BY <1>1, <1>3, BetweenIs
  <2> QED
    BY <1>5, <1>6, <2>1
<1>8. \A i \in 1..rest : Ahead(from, i - 1) = Ahead(m_outPos, n + (i - 1))
  <2> TAKE i \in 1..rest
  <2>1. i - 1 \in Nat /\ n + (i - 1) <= m_bufSize
    BY <1>1, <1>2
  <2> QED
    BY <1>1, <2>1, AheadAgain DEF from
<1> QED
  BY <1>7, <1>8 DEF rest

(* Contents, element by element. *)
LEMMA ContentsIs == QInv => ContentsAre
<1> SUFFICES ASSUME QInv PROVE ContentsAre
  OBVIOUS
<1>0. /\ m_inPos \in Slots /\ m_outPos \in Slots /\ m_buffer \in [Slots -> T \cup {Nothing}]
      /\ consumer \in ConsumerCalls /\ before \in Seq(T \cup {Nothing}) /\ Typed
      /\ consumer.got \in Seq(T \cup {Nothing}) /\ consumer.n \in 0..capacity
  BY DEF QInv, Typed, Shapes, ConsumerCalls
<1>1. /\ inQueue \in Int /\ 0 <= inQueue /\ inQueue <= m_bufSize /\ capacity \in Int
      /\ m_bufSize = capacity + 1 /\ 0 \in 0..capacity /\ 1 \in 0..capacity
      /\ consumer.pc # "release" => inQueue <= capacity
      /\ consumer.pc = "release" => inQueue > 0
  <2>1. inQueue \in 0..m_bufSize /\ (consumer.pc # "release" => inQueue <= capacity)
        /\ (consumer.pc = "release" => inQueue > 0)
    BY <1>0, InQueueIs
  <2> QED
    BY <2>1, RingSize
<1>2. Held \in 0..capacity
  BY <1>1 DEF Held
<1> DEFINE S == T \cup {Nothing}
<1>3. ASSUME NEW front \in Seq(S), Len(front) <= inQueue, consumer.pc # "release",
             Contents = front \o After(Len(front)),
             \A i \in 1..inQueue : Elem(i) = IF i <= Len(front) THEN front[i]
                                             ELSE m_buffer[Ahead(m_outPos, i - 1)]
      PROVE  ContentsAre
  <2> DEFINE n == Len(front)
  <2>1. n \in 0..capacity /\ n <= inQueue /\ inQueue - n <= capacity /\ n \in Nat
    BY <1>1, <1>3
  <2>2. /\ After(n) \in Seq(S) /\ Len(After(n)) = inQueue - n
        /\ \A i \in 1..(inQueue - n) : After(n)[i] = m_buffer[Ahead(m_outPos, n + (i - 1))]
    BY <1>0, <2>1, AfterIs
  <2>3. Held = inQueue
    BY <1>3 DEF Held
  <2> HIDE DEF S
  <2>4. /\ Contents \in Seq(S) /\ Len(Contents) = Len(front) + Len(After(n))
        /\ \A i \in 1..(Len(front) + Len(After(n))) :
             Contents[i] = IF i <= Len(front) THEN front[i] ELSE After(n)[i - Len(front)]
    BY <1>3, <2>2, InARow
  <2>5. Len(front) + Len(After(n)) = inQueue
    BY <1>1, <2>1, <2>2
  <2>6. ASSUME NEW i \in 1..inQueue PROVE Contents[i] = Elem(i)
    <3>1. CASE i <= n
      BY <1>3, <2>4, <2>5, <3>1
    <3>2. CASE ~(i <= n)
      <4>1. i - n \in 1..(inQueue - n) /\ n + ((i - n) - 1) = i - 1
        BY <1>1, <2>1, <3>2
      <4>2. After(n)[i - n] = m_buffer[Ahead(m_outPos, i - 1)]
        BY <2>2, <4>1
      <4> QED
        BY <1>3, <2>4, <2>5, <3>2, <4>2
    <3> QED
      BY <3>1, <3>2
  <2> QED
    BY <1>2, <2>3, <2>4, <2>5, <2>6 DEF ContentsAre, S
<1>4. CASE consumer.pc = "store"
  <2>1. Len(consumer.got) = consumer.n /\ consumer.n <= inQueue
    <3>1. Len(consumer.got) = consumer.n /\ consumer.n <= ToGo /\ ToGo <= inQueue
      BY <1>4 DEF QInv, ConsumerInv, TakeInv
    <3>2. ToGo \in 0..capacity
      <4>1. consumer.until \in Slots /\ m_outPos \in 0..m_bufSize
        BY <1>0, RingSize DEF ConsumerCalls
      <4> QED
        BY <4>1, AvailableIs DEF ToGo
    <3> QED
      BY <1>0, <1>1, <3>1, <3>2
  <2>2. Contents = consumer.got \o After(Len(consumer.got))
    BY <1>4, <2>1 DEF Contents
  <2>3. \A i \in 1..inQueue : Elem(i) = IF i <= Len(consumer.got) THEN consumer.got[i]
                                        ELSE m_buffer[Ahead(m_outPos, i - 1)]
    BY <1>4, <2>1 DEF Elem, Revs
  <2> QED
    BY <1>0, <1>3, <1>4, <2>1, <2>2, <2>3
<1>5. CASE consumer.pc \in Revs
  <2>1. Len(before) <= inQueue /\ consumer.pc # "store" /\ consumer.pc # "release"
    BY <1>5 DEF QInv, ConsumerInv, RevInv, Revs
  <2>2. Contents = before \o After(Len(before))
    BY <1>5 DEF Contents, Revs
  <2>3. \A i \in 1..inQueue : Elem(i) = IF i <= Len(before) THEN before[i]
                                        ELSE m_buffer[Ahead(m_outPos, i - 1)]
    BY <1>5, <2>1 DEF Elem
  <2> QED
    BY <1>0, <1>3, <2>1, <2>2, <2>3
<1>6. CASE consumer.pc = "release"
  <2>1. Contents = After(1) /\ Held = inQueue - 1
    BY <1>6 DEF Contents, Held
  <2>2. 1 <= inQueue /\ inQueue - 1 <= capacity
    BY <1>1, <1>6
  <2>3. /\ After(1) \in Seq(S) /\ Len(After(1)) = inQueue - 1
        /\ \A i \in 1..(inQueue - 1) : After(1)[i] = m_buffer[Ahead(m_outPos, 1 + (i - 1))]
    BY <1>0, <1>1, <2>2, AfterIs
  <2>4. \A i \in 1..(inQueue - 1) : 1 + (i - 1) = i /\ Elem(i) = m_buffer[Ahead(m_outPos, i)]
    BY <1>1, <1>6 DEF Elem, Revs
  <2> QED
    BY <1>2, <2>1, <2>3, <2>4 DEF ContentsAre
<1>7. CASE consumer.pc \notin Revs /\ consumer.pc \notin {"store", "release"}
  <2>1. Contents = After(0) /\ Held = inQueue
    BY <1>7 DEF Contents, Held, Revs
  <2>2. /\ After(0) \in Seq(S) /\ Len(After(0)) = inQueue - 0
        /\ \A i \in 1..(inQueue - 0) : After(0)[i] = m_buffer[Ahead(m_outPos, 0 + (i - 1))]
    BY <1>0, <1>1, <1>7, AfterIs
  <2>3. inQueue - 0 = inQueue /\ \A i \in 1..inQueue : 0 + (i - 1) = i - 1
                                   /\ Elem(i) = m_buffer[Ahead(m_outPos, i - 1)]
    BY <1>1, <1>7 DEF Elem
  <2> QED
    BY <1>2, <2>1, <2>2, <2>3 DEF ContentsAre
<1> QED
  BY <1>4, <1>5, <1>6, <1>7

-----------------------------------------------------------------------------
(* What a step does to the contents, from what it does to the elements.        *)

(* The contents after the step. *)
LEMMA ContentsNext ==
  ASSUME QInv'
  PROVE  /\ Held' \in 0..capacity /\ Contents' \in Seq(T \cup {Nothing}) /\ Len(Contents') = Held'
         /\ \A i \in 1..Held' : Contents'[i] = Elem(i)'
<1>1. ContentsAre'
  BY ContentsIs, PTL
<1> QED
  BY <1>1 DEF ContentsAre

(* Nothing changes. *)
LEMMA SameContents ==
  ASSUME QInv, QInv', Held' = Held, \A i \in 1..Held : Elem(i)' = Elem(i)
  PROVE  Contents' = Contents
<1>1. /\ Held \in 0..capacity /\ Contents \in Seq(T \cup {Nothing}) /\ Len(Contents) = Held
      /\ \A i \in 1..Held : Contents[i] = Elem(i)
  BY ContentsIs DEF ContentsAre
<1>2. /\ Contents' \in Seq(T \cup {Nothing}) /\ Len(Contents') = Held'
      /\ \A i \in 1..Held' : Contents'[i] = Elem(i)'
  BY ContentsNext
<1>3. \A i \in 1..Held : Contents'[i] = Contents[i]
  BY <1>1, <1>2
<1> QED
  BY <1>1, <1>2, <1>3, SameSequence

(* The k oldest elements leave. *)
LEMMA FewerContents ==
  ASSUME QInv, QInv', NEW k \in 0..Held, Held' = Held - k,
         \A i \in 1..(Held - k) : Elem(i)' = Elem(k + i)
  PROVE  k \in 0..Len(Contents) /\ Contents' = SubSeq(Contents, k + 1, Len(Contents))
<1> DEFINE S == T \cup {Nothing}
           part == SubSeq(Contents, k + 1, Len(Contents))
<1>1. /\ Held \in 0..capacity /\ Contents \in Seq(S) /\ Len(Contents) = Held
      /\ \A i \in 1..Held : Contents[i] = Elem(i)
  BY ContentsIs DEF ContentsAre
<1>2. /\ Contents' \in Seq(S) /\ Len(Contents') = Held'
      /\ \A i \in 1..Held' : Contents'[i] = Elem(i)'
  BY ContentsNext
<1> HIDE DEF S
<1>3. /\ part \in Seq(S) /\ Len(part) = Held - k
      /\ \A i \in 1..(Held - k) : part[i] = Contents[k + i]
  BY <1>1, PartOf
<1>4. \A i \in 1..(Held - k) : k + i \in 1..Held
  BY <1>1
<1>5. \A i \in 1..(Held - k) : Contents'[i] = part[i]
  BY <1>1, <1>2, <1>3, <1>4
<1> HIDE DEF part
<1>6. Contents' = part
  BY <1>2, <1>3, <1>5, SameSequence
<1> QED
  BY <1>1, <1>6 DEF part

(* The first k elements, which are handed out. *)
LEMMA FirstContents ==
  ASSUME QInv, NEW k \in 1..Held, NEW got \in Seq(T \cup {Nothing}), Len(got) = k,
         \A i \in 1..k : got[i] = Elem(i)
  PROVE  k \in 1..Len(Contents) /\ got = SubSeq(Contents, 1, k)
<1> DEFINE S == T \cup {Nothing}
           part == SubSeq(Contents, 1, k)
<1>1. /\ Held \in 0..capacity /\ Contents \in Seq(S) /\ Len(Contents) = Held
      /\ \A i \in 1..Held : Contents[i] = Elem(i)
  BY ContentsIs DEF ContentsAre
<1> HIDE DEF S
<1>2. \A r \in Seq(S) : \A j \in 1..Len(r) :
        /\ SubSeq(r, 1, j) \in Seq(S) /\ Len(SubSeq(r, 1, j)) = j
        /\ \A i \in 1..j : SubSeq(r, 1, j)[i] = r[i]
  OBVIOUS
<1>3. part \in Seq(S) /\ Len(part) = k /\ \A i \in 1..k : part[i] = Contents[i]
  BY <1>1, <1>2
<1>4. \A i \in 1..k : got[i] = part[i]
  BY <1>1, <1>3
<1> HIDE DEF part
<1>5. got = part
  BY <1>3, <1>4, SameSequence DEF S
<1> QED
  BY <1>1, <1>5 DEF part

(* The elements es come in behind the others. *)
LEMMA MoreContents ==
  ASSUME QInv, QInv', NEW es \in Seq(T), NEW h \in Nat, Held = h,
         Held' = h + Len(es),
         \A i \in 1..h : Elem(i)' = Elem(i),
         \A j \in 1..Len(es) : Elem(h + j)' = es[j]
  PROVE  Contents' = Contents \o es
<1> DEFINE S == T \cup {Nothing}
           all == Contents \o es
<1>1. /\ Held \in 0..capacity /\ Contents \in Seq(S) /\ Len(Contents) = Held
      /\ \A i \in 1..Held : Contents[i] = Elem(i)
  BY ContentsIs DEF ContentsAre
<1>2. /\ Contents' \in Seq(S) /\ Len(Contents') = Held'
      /\ \A i \in 1..Held' : Contents'[i] = Elem(i)'
  BY ContentsNext
<1>3. es \in Seq(S)
  OBVIOUS
<1> HIDE DEF S
<1>4. /\ all \in Seq(S) /\ Len(all) = Len(Contents) + Len(es)
      /\ \A i \in 1..(Len(Contents) + Len(es)) :
           all[i] = IF i <= Len(Contents) THEN Contents[i] ELSE es[i - Len(Contents)]
  BY <1>1, <1>3, InARow
<1> HIDE DEF all
<1>5. Len(es) \in Nat
  BY <1>3
<1>6. ASSUME NEW i \in 1..(h + Len(es)) PROVE Contents'[i] = all[i]
  <2>1. CASE i <= h
    BY <1>1, <1>2, <1>4, <1>5, <2>1
  <2>2. CASE ~(i <= h)
    <3>1. i - h \in 1..Len(es) /\ h + (i - h) = i
      BY <1>1, <1>5, <2>2
    <3>2. Elem(h + (i - h))' = es[i - h]
      BY <3>1
    <3>3. Elem(i)' = es[i - h]
      BY <3>1, <3>2 DEF Elem
    <3> QED
      BY <1>1, <1>2, <1>4, <2>2, <3>3
  <2> QED
    BY <2>1, <2>2
<1>7. Contents' = all
  BY <1>1, <1>2, <1>4, <1>6, SameSequence
<1> QED
  BY <1>7 DEF all

(* The oldest element becomes the newest. *)
LEMMA RotatedContents ==
  ASSUME QInv, QInv', Held > 0, Held' = Held, Elem(Held)' = Elem(1),
         \A i \in 1..(Held - 1) : Elem(i)' = Elem(i + 1)
  PROVE  /\ Contents # <<>> /\ Contents' = Append(Tail(Contents), Head(Contents))
         /\ Head(Contents) = Elem(1)
<1> DEFINE S == T \cup {Nothing}
           all == Append(Tail(Contents), Head(Contents))
<1>1. /\ Held \in 0..capacity /\ Contents \in Seq(S) /\ Len(Contents) = Held
      /\ \A i \in 1..Held : Contents[i] = Elem(i)
  BY ContentsIs DEF ContentsAre
<1>2. /\ Contents' \in Seq(S) /\ Len(Contents') = Held'
      /\ \A i \in 1..Held' : Contents'[i] = Elem(i)'
  BY ContentsNext
<1> HIDE DEF S
<1>3. \A r \in Seq(S) : Len(r) > 0 =>
        /\ Append(Tail(r), Head(r)) \in Seq(S) /\ Len(Append(Tail(r), Head(r))) = Len(r)
        /\ Append(Tail(r), Head(r))[Len(r)] = r[1] /\ Head(r) = r[1] /\ r # <<>>
        /\ \A i \in 1..(Len(r) - 1) : Append(Tail(r), Head(r))[i] = r[i + 1]
  OBVIOUS
<1>4. /\ all \in Seq(S) /\ Len(all) = Held /\ all[Held] = Contents[1] /\ Head(Contents) = Contents[1]
      /\ Contents # <<>> /\ \A i \in 1..(Held - 1) : all[i] = Contents[i + 1]
  BY <1>1, <1>3
<1> HIDE DEF all
<1>5. 1 \in 1..Held /\ Held \in 1..Held
  BY <1>1
<1>6. ASSUME NEW i \in 1..Held PROVE Contents'[i] = all[i]
  <2>1. CASE i = Held
    <3>1. Contents'[i] = Elem(Held)'
      BY <1>2, <1>5, <2>1 DEF Elem
    <3> QED
      BY <1>1, <1>4, <1>5, <2>1, <3>1
  <2>2. CASE i # Held
    <3>1. i \in 1..(Held - 1) /\ i + 1 \in 1..Held
      BY <1>1, <2>2
    <3> QED
      BY <1>1, <1>2, <1>4, <3>1
  <2> QED
    BY <2>1, <2>2
<1>7. Contents' = all
  BY <1>1, <1>2, <1>4, <1>6, SameSequence
<1> QED
  BY <1>1, <1>4, <1>5, <1>7 DEF all

(* Of the n oldest elements those in `places' stay. *)
LEMMA KeptContents ==
  ASSUME QInv, QInv', NEW n \in 0..Held, NEW m \in 0..n, NEW places \in [1..m -> 1..n],
         Held' = m + (Held - n),
         \A j \in 1..m : Elem(j)' = Elem(places[j]),
         \A j \in 1..(Held - n) : Elem(m + j)' = Elem(n + j),
         NEW got \in Seq(T \cup {Nothing}), Len(got) = m, \A j \in 1..m : got[j] = Elem(places[j])
  PROVE  LET kept == [j \in 1..m |-> Contents[places[j]]]
         IN  /\ n \in 0..Len(Contents) /\ got = kept
             /\ Contents' = kept \o SubSeq(Contents, n + 1, Len(Contents))
<1> DEFINE S == T \cup {Nothing}
           kept == [j \in 1..m |-> Contents[places[j]]]
           rest == SubSeq(Contents, n + 1, Len(Contents))
           all == kept \o rest
<1>1. /\ Held \in 0..capacity /\ Contents \in Seq(S) /\ Len(Contents) = Held
      /\ \A i \in 1..Held : Contents[i] = Elem(i)
  BY ContentsIs DEF ContentsAre
<1>2. /\ Contents' \in Seq(S) /\ Len(Contents') = Held'
      /\ \A i \in 1..Held' : Contents'[i] = Elem(i)'
  BY ContentsNext
<1> HIDE DEF S
<1>3. /\ rest \in Seq(S) /\ Len(rest) = Held - n
      /\ \A i \in 1..(Held - n) : rest[i] = Contents[n + i]
  BY <1>1, PartOf
<1>4. \A j \in 1..m : places[j] \in 1..Held /\ Contents[places[j]] \in S
  BY <1>1
<1>5. kept \in [1..m -> S] /\ m \in Nat /\ \A j \in 1..m : kept[j] = Elem(places[j])
  BY <1>1, <1>4
<1> HIDE DEF kept, rest
<1>6. kept \in Seq(S) /\ Len(kept) = m
  BY <1>5, FunctionIsSeq
<1>7. got = kept
  BY <1>5, <1>6, SameSequence DEF S
<1>8. /\ all \in Seq(S) /\ Len(all) = Len(kept) + Len(rest)
      /\ \A i \in 1..(Len(kept) + Len(rest)) :
           all[i] = IF i <= Len(kept) THEN kept[i] ELSE rest[i - Len(kept)]
  BY <1>3, <1>6, InARow
<1> HIDE DEF all
<1>9. ASSUME NEW i \in 1..(m + (Held - n)) PROVE Contents'[i] = all[i]
  <2>1. CASE i <= m
    <3>1. i \in 1..m
      BY <1>5, <2>1
    <3> QED
      BY <1>2, <1>3, <1>5, <1>6, <1>8, <3>1
  <2>2. CASE ~(i <= m)
    <3>1. i - m \in 1..(Held - n) /\ m + (i - m) = i /\ n + (i - m) \in 1..Held
      BY <1>1, <1>5, <2>2
    <3>2. Elem(m + (i - m))' = Elem(n + (i - m))
      BY <3>1
    <3>3. Elem(i)' = Elem(n + (i - m))
      BY <3>1, <3>2 DEF Elem
    <3>4. all[i] = rest[i - m]
      BY <1>3, <1>6, <1>8, <2>2
    <3> QED
      BY <1>1, <1>2, <1>3, <3>1, <3>3, <3>4
  <2> QED
    BY <2>1, <2>2
<1>10. Contents' = all
  BY <1>1, <1>2, <1>3, <1>6, <1>8, <1>9, SameSequence
<1> QED
  BY <1>1, <1>7, <1>10 DEF all, kept, rest

-----------------------------------------------------------------------------
(* Every step of the ring is a step of the channel.                            *)
ChannelStep == Promise!ChannelNext \/ UNCHANGED Promise!channelVars

(* The elements after a step. *)
LEMMA ElemNext ==
  \A i \in Int :
    Elem(i)' = IF consumer'.pc = "store" /\ i <= consumer'.n THEN consumer'.got[i]
               ELSE IF consumer'.pc \in Revs /\ i <= Len(before') THEN before'[i]
               ELSE m_buffer'[Ahead(m_outPos', IF consumer'.pc = "release" THEN i ELSE i - 1)]
BY DEF Elem, Ahead, m_bufSize

(* How many elements there can be. *)
LEMMA HeldIs ==
  ASSUME QInv
  PROVE  /\ inQueue \in Int /\ 0 <= inQueue /\ Held \in 0..capacity /\ Held \in Nat
         /\ Held <= inQueue /\ capacity \in Nat
         /\ consumer.pc # "release" => Held = inQueue
         /\ consumer.pc = "release" => Held = inQueue - 1
<1>1. inQueue \in 0..m_bufSize
  BY InQueueIs DEF QInv
<1>2. Held \in 0..capacity
  BY ContentsIs DEF ContentsAre
<1> QED
  BY <1>1, <1>2, RingSize DEF Held

(* The channel has as much room as the ring. *)
LEMMA RoomIs ==
  ASSUME QInv
  PROVE  Promise!Room = capacity - inQueue /\ Len(Contents) = Held
<1>1. Len(Contents) = Held
  BY ContentsIs DEF ContentsAre
<1>2. CASE PutBack
  BY <1>1, <1>2, HeldIs DEF Promise!Room, PutBack
<1>3. CASE ~PutBack
  BY <1>1, <1>3, HeldIs DEF Promise!Room, PutBack
<1> QED
  BY <1>1, <1>2, <1>3

(* A step that gives no answer and changes nothing in the queue. *)
LEMMA NothingHappens ==
  ASSUME QInv, QInv', NoAnswer, Held' = Held, \A i \in 1..Held : Elem(i)' = Elem(i),
         Offered' = Offered, PutBack' = PutBack
  PROVE  ChannelStep
<1>1. Contents' = Contents
  BY SameContents
<1> QED
  BY <1>1 DEF ChannelStep, Promise!ChannelNext, Promise!NoAnswer, NoAnswer

(* A step of the consumer offers nothing. *)
LEMMA NoOffer ==
  ASSUME UNCHANGED producer
  PROVE  Offered' = Offered
BY DEF Offered

(* A step of the producer p offers nothing for the others. *)
LEMMA OfferedNext ==
  ASSUME QInv, NEW p \in Producers, ProducerStep(p) \/ Estimate(p)
  PROVE  /\ Offered' = [Offered EXCEPT ![p] = producer'[p].es]
         /\ Offered[p] = producer[p].es /\ Offered'[p] = producer'[p].es
         /\ producer'[p].es = producer[p].es => Offered' = Offered
<1>1. \A q \in Producers : q # p => producer'[q] = producer[q]
  BY ProducerChanges DEF QInv
<1>2. Offered' = [q \in Producers |-> producer'[q].es]
  BY DEF Offered
<1> QED
  BY <1>1, <1>2 DEF Offered

(* A producer does not touch what is in the queue. *)
LEMMA ProducerLeaves ==
  ASSUME QInv, UNCHANGED <<m_outPos, consumer, before>>,
         \A k \in 0..(inQueue - 1) : m_buffer'[Ahead(m_outPos, k)] = m_buffer[Ahead(m_outPos, k)]
  PROVE  \A i \in 1..Held : Elem(i)' = Elem(i)
<1> TAKE i \in 1..Held
<1> DEFINE k == IF consumer.pc = "release" THEN i ELSE i - 1
<1>1. k \in 0..(inQueue - 1) /\ i \in Int
  BY HeldIs
<1>2. m_buffer'[Ahead(m_outPos, k)] = m_buffer[Ahead(m_outPos, k)]
  BY <1>1
<1> QED
  BY <1>1, <1>2, ElemNext DEF Elem

(* Up to the store of m_inPos the queue stays what it is.                      *)
LEMMA PushingUnseen ==
  ASSUME QInv, QInv', UNCHANGED <<m_inPos, m_outPos, consumer, before>>,
         \A k \in 0..(inQueue - 1) : m_buffer'[Ahead(m_outPos, k)] = m_buffer[Ahead(m_outPos, k)]
  PROVE  /\ Held' = Held /\ (\A i \in 1..Held : Elem(i)' = Elem(i))
         /\ Contents' = Contents /\ PutBack' = PutBack
<1>1. inQueue' = inQueue
  BY SameInQueue
<1>2. Held' = Held
  BY <1>1 DEF Held
<1>3. \A i \in 1..Held : Elem(i)' = Elem(i)
  BY ProducerLeaves
<1>4. Contents' = Contents
  BY <1>2, <1>3, SameContents
<1> QED
  BY <1>2, <1>3, <1>4 DEF PutBack

(* push, push_n and pushpeek begin. *)
LEMMA StartImplements ==
  ASSUME QInv, NEW p \in Producers, ProducerStep(p), start(p) \/ pushpeek(p)
  PROVE  ChannelStep
<1> DEFINE c == producer[p]
           d == producer'[p]
<1>1. QInv' /\ NoAnswer /\ Contents' = Contents /\ PutBack' = PutBack
  BY StartKeeps, PushingUnseen
<1>2. PICK how, es : Offer(p, how, es)
  BY DEF start, push_load, push_n_load, pushpeek
<1>3. producer \in [Producers -> ProducerCalls] /\ producer' \in [Producers -> ProducerCalls]
  BY <1>1 DEF QInv, Typed, Shapes
<1>4. c.es = <<>>
  BY <1>2 DEF Offer, QInv, Apart, idleProducer
<1>5. d.pc = "test"
  BY <1>2, <1>3 DEF Offer, idleProducer
<1>6. d.es \in Seq(T) \ {<<>>}
  <2>1. d.es \in Seq(T) /\ Len(d.es) > 0
    BY <1>1, <1>3, <1>5 DEF QInv, Typed, Blocks, ProducerCalls
  <2> QED
    BY <2>1
<1>7. Promise!Call(p)
  BY <1>1, <1>4, <1>6, OfferedNext DEF Promise!Call, NoAnswer
<1> QED
  BY <1>7 DEF ChannelStep, Promise!ChannelNext

(* push_test: nobody sees it, or the queue is full. *)
LEMMA TestImplements ==
  ASSUME ~Lapped, QInv, NEW p \in Producers, ProducerStep(p), push_test(p)
  PROVE  ChannelStep
<1> DEFINE c == producer[p]
           d == producer'[p]
<1>1. /\ c.pc = "test" /\ UNCHANGED <<m_buffer, m_inPos, m_outPos, consumer, before>>
      /\ \/ d = idleProducer /\ Return(p, <<0>>) /\ inQueue = capacity
         \/ d.es = c.es /\ NoAnswer
  BY TestFinds
<1>2. QInv'
  BY TestKeeps
<1>3. /\ Held' = Held /\ (\A i \in 1..Held : Elem(i)' = Elem(i))
      /\ Contents' = Contents /\ PutBack' = PutBack
  BY <1>1, <1>2, PushingUnseen
<1>4. CASE d.es = c.es /\ NoAnswer
  BY <1>2, <1>3, <1>4, OfferedNext, NothingHappens
<1>5. CASE d = idleProducer /\ Return(p, <<0>>) /\ inQueue = capacity
  <2>1. c.es # <<>>
    BY <1>1 DEF QInv, Typed, Blocks
  <2>2. Promise!Room <= 0
    BY <1>5, RoomIs, RingSize
  <2>3. d.es = <<>>
    BY <1>5 DEF idleProducer
  <2>4. Promise!Refuse(p)
    BY <1>3, <1>5, <2>1, <2>2, <2>3, OfferedNext
       DEF Promise!Refuse, Promise!Answer, Promise!Return, Return
  <2> QED
    BY <2>4 DEF ChannelStep, Promise!ChannelNext
<1> QED
  BY <1>1, <1>4, <1>5

(* push_store: the elements are in the queue, and the producer is told how many *)
(* they are.                                                                   *)
LEMMA StoreImplements ==
  ASSUME QInv, NEW p \in Producers, ProducerStep(p), push_store(p)
  PROVE  ChannelStep
<1> DEFINE c == producer[p]
           n == c.first + c.second
           es == SubSeq(c.es, 1, n)
<1>1. /\ c.pc = "store" /\ UNCHANGED <<m_buffer, m_outPos, consumer, before>>
      /\ n \in 1..capacity /\ n <= Room /\ n <= Len(c.es) /\ inQueue' = inQueue + n
      /\ \A j \in 0..(n - 1) : m_buffer[Ahead(m_inPos, j)] = c.es[j + 1]
      /\ Return(p, <<n>>) /\ producer'[p] = idleProducer
  BY StoreLengthens
<1>2. QInv'
  BY StoreKeeps
<1>3. c.es \in Seq(T)
  BY DEF QInv, Typed, Shapes, ProducerCalls
<1> HIDE DEF n, c
<1>4. n \in Nat /\ n \in 1..Len(c.es)
  BY <1>1, <1>3
<1>5. es \in Seq(T) /\ Len(es) = n /\ \A j \in 1..n : es[j] = c.es[j]
  <2>1. \A r \in Seq(T) : \A j \in 1..Len(r) :
          /\ SubSeq(r, 1, j) \in Seq(T) /\ Len(SubSeq(r, 1, j)) = j
          /\ \A i \in 1..j : SubSeq(r, 1, j)[i] = r[i]
    OBVIOUS
  <2> QED
    BY <1>3, <1>4, <2>1
<1> HIDE DEF es
<1>6. /\ inQueue \in Int /\ 0 <= inQueue /\ Held \in Nat /\ Held <= inQueue
      /\ capacity \in Nat /\ inQueue + n <= capacity /\ Held + n <= capacity
  BY <1>1, <1>4, HeldIs DEF Room
<1>7. Held' = Held + n
  BY <1>1, <1>6 DEF Held
<1>8. \A i \in 1..Held : Elem(i)' = Elem(i)
  BY <1>1, ProducerLeaves
<1> DEFINE put(j) == IF consumer.pc = "release" THEN Held + j ELSE (Held + j) - 1
<1>9. ASSUME NEW j \in 1..n
      PROVE  /\ put(j) = inQueue + (j - 1) /\ m_buffer[Ahead(m_outPos, put(j))] = es[j]
             /\ ~(consumer.pc = "store" /\ Held + j <= consumer.n)
             /\ ~(consumer.pc \in Revs /\ Held + j <= Len(before)) /\ Held + j \in Int
  <2>1. j - 1 \in Nat /\ j - 1 \in 0..(n - 1) /\ inQueue + (j - 1) <= m_bufSize /\ (j - 1) + 1 = j
    BY <1>4, <1>6, RingSize
  <2>2. put(j) = inQueue + (j - 1)
    BY <1>4, <1>6, <2>1, HeldIs
  <2>3. Ahead(m_inPos, j - 1) = Ahead(m_outPos, inQueue + (j - 1))
    BY <2>1, BehindQueue DEF QInv
  <2>4. m_buffer[Ahead(m_inPos, j - 1)] = es[j]
    BY <1>1, <1>5, <2>1
  <2>5. consumer.pc = "store" => consumer.n <= Held
    <3> SUFFICES ASSUME consumer.pc = "store" PROVE consumer.n <= Held
      OBVIOUS
    <3>1. consumer.n <= ToGo /\ ToGo <= inQueue /\ Held = inQueue
      BY HeldIs DEF QInv, ConsumerInv, TakeInv
    <3>2. consumer.until \in Slots /\ m_outPos \in 0..m_bufSize /\ consumer.n \in Int
      BY RingSize DEF QInv, Typed, Shapes, ConsumerCalls
    <3>3. ToGo \in 0..capacity
      BY <3>2, AvailableIs DEF ToGo
    <3> QED
      BY <1>6, <3>1, <3>2, <3>3
  <2>6. consumer.pc \in Revs => Len(before) <= Held
    BY HeldIs DEF QInv, ConsumerInv, RevInv, Revs
  <2>7. consumer.n \in Int /\ Len(before) \in Int
    BY DEF QInv, Typed, Shapes, ConsumerCalls
  <2>8. \A a, b, x \in Int : a <= b /\ 0 < x => ~(b + x <= a)
    OBVIOUS
  <2>9. ~(consumer.pc = "store" /\ Held + j <= consumer.n)
        /\ ~(consumer.pc \in Revs /\ Held + j <= Len(before)) /\ Held + j \in Int
    BY <1>4, <1>6, <2>5, <2>6, <2>7, <2>8
  <2> QED
    BY <2>2, <2>3, <2>4, <2>9
<1>10. PICK h \in Nat : h = Held
  BY <1>6
<1>11. ASSUME NEW j \in 1..n PROVE Elem(h + j)' = es[j]
  <2>1. h + j \in Int
    BY <1>4
  <2>2. /\ m_buffer[Ahead(m_outPos, put(j))] = es[j]
        /\ ~(consumer.pc = "store" /\ h + j <= consumer.n)
        /\ ~(consumer.pc \in Revs /\ h + j <= Len(before))
    BY <1>9, <1>10
  <2> QED
    BY <1>1, <1>10, <2>1, <2>2, ElemNext
<1>12. Contents' = Contents \o es
  BY <1>2, <1>5, <1>7, <1>8, <1>10, <1>11, MoreContents
<1>13. n <= Promise!Room
  BY <1>1, RoomIs DEF Room
<1>14. /\ Offered[p] = c.es /\ Offered' = [Offered EXCEPT ![p] = <<>>] /\ c.es # <<>>
       /\ PutBack' = PutBack
  BY <1>1, <1>4, OfferedNext DEF idleProducer, PutBack, c
<1>15. Promise!Answer(p, n)
  BY <1>1, <1>14 DEF Promise!Answer, Promise!Return, Return
<1>16. Promise!Enqueue(p)
  BY <1>4, <1>12, <1>13, <1>14, <1>15 DEF Promise!Enqueue, es
<1> QED
  BY <1>16 DEF ChannelStep, Promise!ChannelNext

(* available_for_push: what it answers is not more than there is room. *)
LEMMA EstimateImplements ==
  ASSUME QInv, NEW p \in Producers, Estimate(p)
  PROVE  ChannelStep
<1>1. QInv' /\ UNCHANGED <<m_buffer, m_inPos, m_outPos, consumer, before>>
  BY EstimateKeeps
<1>2. /\ Held' = Held /\ (\A i \in 1..Held : Elem(i)' = Elem(i))
      /\ Contents' = Contents /\ PutBack' = PutBack
  BY <1>1, PushingUnseen
<1>3. Offered' = Offered /\ Offered[p] = <<>>
  <2>1. producer[p].es = <<>> /\ producer'[p].es = <<>>
    <3>1. producer \in [Producers -> ProducerCalls]
      BY DEF QInv, Typed, Shapes
    <3>2. producer[p].es = <<>>
      BY DEF Estimate, available_load, available_return, ProducerAt, QInv, Apart, ProducerInv, idleProducer
    <3>3. CASE available_load(p)
      <4> DEFINE d == [producer[p] EXCEPT !.pc = "available", !.at = m_outPos]
      <4>1. producer'[p] = d
        BY <3>1, <3>3 DEF available_load
      <4>2. d.es = producer[p].es
        BY <3>1 DEF ProducerCalls
      <4> HIDE DEF d
      <4> QED
        BY <3>2, <4>1, <4>2
    <3>4. CASE available_return(p)
      BY <3>1, <3>2, <3>4 DEF available_return, ProducerReturns, idleProducer
    <3> QED
      BY <3>2, <3>3, <3>4 DEF Estimate
  <2> QED
    BY <2>1, OfferedNext
<1>4. CASE available_load(p)
  BY <1>1, <1>2, <1>3, <1>4, NothingHappens DEF available_load
<1>5. CASE available_return(p)
  <2> DEFINE at == producer[p].at
             n == available_for_push(m_inPos, at)
             d == Available(m_outPos, at)
             q == inQueue
  <2>1. producer[p].pc = "available" /\ Return(p, <<n>>)
    BY <1>5 DEF available_return, ProducerAt, ProducerReturns
  <2>2. /\ d + q <= capacity /\ consumer.pc # "release"
        /\ at \in Slots /\ m_outPos \in Slots /\ m_inPos \in Slots
    BY <2>1 DEF QInv, ProducerInv, Apart, Requeues, Typed, Shapes, ProducerCalls
  <2>3. d \in 0..capacity /\ q \in Int /\ 0 <= q /\ Held = q /\ Held' = Held
    <3>1. at \in 0..m_bufSize
      BY <2>2, RingSize
    <3>2. inQueue' = inQueue
      BY <1>1, SameInQueue
    <3>3. Held = q /\ Held' = q
      BY <1>1, <2>2, <3>2 DEF Held
    <3> QED
      BY <2>2, <3>1, <3>3, AvailableIs, HeldIs
  <2>4. m_outPos = Ahead(at, d) /\ m_inPos = Ahead(m_outPos, q)
    BY <2>2, AheadAvailable, InQueueIs DEF QInv
  <2> HIDE DEF d, q, at
  <2>5. d \in Nat /\ q \in Nat /\ d + q <= m_bufSize /\ d + q \in 0..m_bufSize /\ capacity \in Nat
    BY <2>2, <2>3, RingSize
  <2>6. m_inPos = Ahead(at, d + q)
    BY <2>2, <2>4, <2>5, AheadAgain
  <2>7. n = capacity - (d + q)
    <3> DEFINE a == at - m_inPos - 1
    <3>1. m_inPos = IF at + (d + q) <= capacity THEN at + (d + q) ELSE at + (d + q) - m_bufSize
      BY <2>2, <2>5, <2>6, AheadIs
    <3>2. /\ a = (IF at + (d + q) <= capacity THEN -((d + q) + 1) ELSE capacity - (d + q))
          /\ m_bufSize \in Nat \ {0} /\ a \in Int /\ -m_bufSize <= a /\ a < 2 * m_bufSize
      BY <2>2, <2>5, <3>1, RingSize
    <3> HIDE DEF a
    <3>3. a % m_bufSize = IF a < 0 THEN a + m_bufSize ELSE IF a < m_bufSize THEN a ELSE a - m_bufSize
      BY <3>2, Wraps
    <3>4. a % m_bufSize = capacity - (d + q)
      BY <2>2, <2>5, <3>2, <3>3, RingSize
    <3> QED
      BY <3>4 DEF a, available_for_push
  <2>8. n \in 0..(capacity - q)
    BY <2>2, <2>5, <2>7
  <2>9. Promise!Room = capacity - q
    BY RoomIs DEF q
  <2> HIDE DEF n
  <2>10. Promise!AvailableForPush(p)
    BY <1>2, <1>3, <2>1, <2>8, <2>9 DEF Promise!AvailableForPush, Promise!Return, Return
  <2> QED
    BY <2>10 DEF ChannelStep, Promise!ChannelNext
<1> QED
  BY <1>4, <1>5 DEF Estimate

(* The producers. *)
LEMMA ProducerImplements ==
  ASSUME ~overrun', QInv, NEW p \in Producers, ProducerStep(p) \/ Estimate(p)
  PROVE  ChannelStep
<1>1. CASE Estimate(p)
  BY <1>1, EstimateImplements
<1>2. CASE ProducerStep(p) /\ (start(p) \/ pushpeek(p))
  BY <1>2, StartImplements
<1>3. CASE ProducerStep(p) /\ push_test(p)
  BY <1>3, TestsInTime, TestImplements
<1>4. CASE ProducerStep(p) /\ push_write(p)
  <2>1. /\ QInv' /\ NoAnswer /\ Held' = Held /\ (\A i \in 1..Held : Elem(i)' = Elem(i))
        /\ PutBack' = PutBack
    BY <1>4, WriteKeeps, PushingUnseen DEF push_write
  <2>2. producer'[p].es = producer[p].es
    <3>1. producer[p] \in ProducerCalls /\ producer \in [Producers -> ProducerCalls]
      BY DEF QInv, Typed, Shapes
    <3>2. producer' = [producer EXCEPT ![p].pc = "store"]
      BY <1>4 DEF push_write
    <3> QED
      BY <3>1, <3>2 DEF ProducerCalls
  <2> QED
    BY <1>4, <2>1, <2>2, OfferedNext, NothingHappens
<1>5. CASE ProducerStep(p) /\ push_store(p)
  BY <1>5, StoreImplements
<1> QED
  BY <1>1, <1>2, <1>3, <1>4, <1>5 DEF ProducerStep, locked

(* The consumer begins a call, and has an answer only if there is nothing to do *)
(* or nothing to take: peek.                                                   *)
LEMMA CallImplements ==
  ASSUME QInv, call \/ for_each_requeue_load, UNCHANGED <<class, m_pushMtx>>
  PROVE  ChannelStep
<1>1. QInv' /\ inQueue' = inQueue /\ CallBegins
  BY CallKeeps
<1>2. /\ consumer.pc = "idle" /\ UNCHANGED <<m_buffer, m_inPos, m_outPos, producer>>
      /\ m_inPos \in Slots /\ m_outPos \in Slots /\ m_buffer \in [Slots -> T \cup {Nothing}]
  BY <1>1 DEF CallBegins, QInv, Typed, Shapes
<1>3. /\ consumer'.pc \notin {"store", "release", "revstore"}
      /\ consumer'.pc = "rev" =>
           before' = Between(m_outPos, m_inPos) /\ Len(before') = inQueue /\ NoAnswer
  BY <1>1 DEF CallBegins
<1>4. Held' = Held /\ Held = inQueue
  BY <1>1, <1>2, <1>3 DEF Held
<1>5. \A i \in 1..Held : Elem(i)' = Elem(i)
  <2> TAKE i \in 1..Held
  <2>1. i \in Int /\ Elem(i) = m_buffer[Ahead(m_outPos, i - 1)]
    BY <1>2, HeldIs DEF Elem, Revs
  <2>2. CASE consumer'.pc = "rev"
    <3>1. i \in 1..Available(m_inPos, m_outPos)
      BY <1>2, <1>4, InQueueIs DEF QInv
    <3>2. Between(m_outPos, m_inPos)[i] = m_buffer[Ahead(m_outPos, i - 1)]
      BY <1>2, <3>1, BetweenIs DEF QInv
    <3>3. Elem(i)' = before'[i]
      BY <1>3, <1>4, <2>1, <2>2, ElemNext, HeldIs DEF Revs
    <3> QED
      BY <1>3, <2>1, <2>2, <3>2, <3>3
  <2>3. CASE consumer'.pc # "rev"
    <3>1. Elem(i)' = m_buffer'[Ahead(m_outPos', i - 1)]
      BY <1>3, <2>1, <2>3, ElemNext DEF Revs
    <3> QED
      BY <1>2, <2>1, <3>1
  <2> QED
    BY <2>2, <2>3
<1>6. Contents' = Contents
  BY <1>1, <1>4, <1>5, SameContents
<1>7. Offered' = Offered /\ PutBack' = PutBack
  BY <1>2, <1>3, NoOffer DEF PutBack
<1>8. CASE NoAnswer
  BY <1>1, <1>4, <1>5, <1>7, <1>8, NothingHappens
<1>9. CASE m_inPos = m_outPos /\ Return(Consumer, <<>>)
  <2>1. inQueue = 0
    <3>1. m_outPos = Ahead(m_outPos, 0) /\ 0 \in 0..capacity
      BY <1>2, AheadRound, RingSize
    <3>2. Available(m_outPos, m_outPos) = 0
      BY <1>2, <3>1, AvailableAhead
    <3> QED
      BY <1>2, <1>9, <3>2 DEF inQueue
  <2>2. Contents = <<>>
    BY <1>4, <2>1, ContentsIs DEF ContentsAre
  <2>3. Promise!NothingThere
    BY <1>6, <1>9, <2>2 DEF Promise!NothingThere, Promise!Return, Return
  <2> QED
    BY <1>7, <2>3 DEF ChannelStep, Promise!ChannelNext
<1>10. CASE Return(Consumer, <<m_buffer[m_outPos]>>)
  <2> DEFINE e == m_buffer[m_outPos]
  <2>1. e \in T \cup {Nothing}
    BY <1>2
  <2>2. Contents # <<>> => e = Head(Contents)
    <3> SUFFICES ASSUME Contents # <<>> PROVE e = Head(Contents)
      OBVIOUS
    <3>1. /\ Held \in 0..capacity /\ Contents \in Seq(T \cup {Nothing}) /\ Len(Contents) = Held
          /\ \A i \in 1..Held : Contents[i] = Elem(i)
      BY ContentsIs DEF ContentsAre
    <3>2. 1 \in 1..Held /\ Head(Contents) = Contents[1]
      BY <3>1
    <3>3. Elem(1) = m_buffer[Ahead(m_outPos, 0)]
      BY <1>2 DEF Elem, Revs
    <3> QED
      BY <1>2, <3>1, <3>2, <3>3, AheadRound
  <2> HIDE DEF e
  <2>3. Promise!Peek
    BY <1>6, <1>10, <2>1, <2>2 DEF Promise!Peek, Promise!Return, Return, e
  <2> QED
    BY <1>7, <2>3 DEF ChannelStep, Promise!ChannelNext
<1> QED
  BY <1>1, <1>8, <1>9, <1>10 DEF CallBegins

(* take_move: the elements change hands, and nobody sees it. *)
LEMMA TakeMoveImplements ==
  ASSUME QInv, take_move, UNCHANGED <<class, m_pushMtx>>
  PROVE  ChannelStep
<1> DEFINE n == consumer.n
<1>1. /\ QInv' /\ inQueue' = inQueue /\ consumer.pc = "move" /\ consumer'.pc = "store"
      /\ consumer'.n = n /\ n \in 1..capacity /\ n <= inQueue
      /\ UNCHANGED <<m_inPos, m_outPos, producer, before>> /\ NoAnswer
      /\ \A j \in 1..n : consumer'.got[j] = m_buffer[Ahead(m_outPos, j - 1)]
      /\ \A k \in n..capacity : m_buffer'[Ahead(m_outPos, k)] = m_buffer[Ahead(m_outPos, k)]
  BY TakeMoveKeeps
<1> HIDE DEF n
<1>2. Held' = Held /\ Held = inQueue
  BY <1>1 DEF Held
<1>3. ASSUME NEW i \in 1..Held PROVE Elem(i)' = Elem(i)
  <2>1. i \in Int /\ 1 <= i /\ i <= capacity /\ capacity \in Int /\ n \in Int
    BY <1>1, HeldIs
  <2>2. Elem(i) = m_buffer[Ahead(m_outPos, i - 1)]
    BY <1>1 DEF Elem, Revs
  <2>3. CASE i <= n
    <3>1. Elem(i)' = consumer'.got[i]
      BY <1>1, <2>1, <2>3, ElemNext
    <3>2. i \in 1..n
      BY <2>1, <2>3
    <3> QED
      BY <1>1, <2>2, <3>1, <3>2
  <2>4. CASE ~(i <= n)
    <3>1. Elem(i)' = m_buffer'[Ahead(m_outPos', i - 1)]
      BY <1>1, <2>1, <2>4, ElemNext DEF Revs
    <3>2. i - 1 \in n..capacity
      BY <2>1, <2>4
    <3>3. m_buffer'[Ahead(m_outPos, i - 1)] = m_buffer[Ahead(m_outPos, i - 1)]
      BY <1>1, <3>2
    <3> QED
      BY <1>1, <2>2, <3>1, <3>3
  <2> QED
    BY <2>3, <2>4
<1>4. Offered' = Offered /\ PutBack' = PutBack
  BY <1>1, NoOffer DEF PutBack
<1> QED
  BY <1>1, <1>2, <1>3, <1>4, NothingHappens

(* A step that takes the k oldest elements out of the ring, at m_outPos. *)
LEMMA Removed ==
  ASSUME QInv, QInv', NEW k \in Nat, inQueue' = inQueue - k, m_outPos' = Ahead(m_outPos, k),
         k <= inQueue, consumer.pc \notin Revs, consumer.pc # "release",
         consumer.pc = "store" => consumer.n = k,
         consumer'.pc \notin Revs, consumer'.pc \notin {"store", "release"},
         \A j \in k..capacity : m_buffer'[Ahead(m_outPos, j)] = m_buffer[Ahead(m_outPos, j)]
  PROVE  /\ k \in 0..Len(Contents) /\ Contents' = SubSeq(Contents, k + 1, Len(Contents))
         /\ Held = inQueue
<1>1. /\ Held = inQueue /\ Held' = Held - k /\ k \in 0..Held /\ inQueue <= capacity
      /\ inQueue \in Int /\ capacity \in Nat
  BY HeldIs DEF Held
<1>2. m_outPos \in Slots /\ m_bufSize = capacity + 1
  BY RingSize DEF QInv, Typed, Shapes
<1>3. ASSUME NEW i \in 1..(Held - k) PROVE Elem(i)' = Elem(k + i)
  <2>1. /\ i \in Int /\ i - 1 \in Nat /\ k + (i - 1) \in k..capacity /\ k + (i - 1) <= m_bufSize
        /\ (k + i) - 1 = k + (i - 1) /\ ~(k + i <= k)
    BY <1>1, <1>2
  <2>2. Elem(i)' = m_buffer'[Ahead(m_outPos', i - 1)]
    BY <2>1, ElemNext
  <2>3. Ahead(m_outPos', i - 1) = Ahead(m_outPos, k + (i - 1))
    BY <1>2, <2>1, AheadAgain
  <2>4. m_buffer'[Ahead(m_outPos, k + (i - 1))] = m_buffer[Ahead(m_outPos, k + (i - 1))]
    BY <2>1
  <2>5. Elem(k + i) = m_buffer[Ahead(m_outPos, (k + i) - 1)]
    BY <2>1 DEF Elem
  <2> QED
    BY <2>1, <2>2, <2>3, <2>4, <2>5
<1>4. k \in 0..Len(Contents) /\ Contents' = SubSeq(Contents, k + 1, Len(Contents))
  BY <1>1, <1>3, FewerContents
<1> QED
  BY <1>1, <1>4

(* take_store: pop, pop_n and for_each hand out the oldest elements. *)
LEMMA TakeStoreImplements ==
  ASSUME QInv, take_store, UNCHANGED <<class, m_pushMtx>>
  PROVE  ChannelStep
<1> DEFINE n == consumer.n
           got == consumer.got
<1>1. /\ QInv' /\ inQueue' = inQueue - n /\ m_outPos' = Ahead(m_outPos, n)
      /\ consumer.pc = "store" /\ consumer'.pc \in {"idle", "move"}
      /\ n \in 1..capacity /\ n <= inQueue
      /\ got \in Seq(T \cup {Nothing}) /\ Len(got) = n
      /\ UNCHANGED <<m_buffer, m_inPos, producer, before>> /\ Return(Consumer, got)
  BY TakeStoreKeeps
<1>2. \A i \in 1..n : Elem(i) = got[i]
  BY <1>1 DEF Elem
<1> HIDE DEF n, got
<1>3. n \in Nat
  BY <1>1
<1>4. /\ n \in 0..Len(Contents) /\ Contents' = SubSeq(Contents, n + 1, Len(Contents))
      /\ Held = inQueue
  <2>1. \A j \in n..capacity : m_buffer'[Ahead(m_outPos, j)] = m_buffer[Ahead(m_outPos, j)]
    BY <1>1
  <2>2. /\ consumer.pc \notin Revs /\ consumer.pc # "release" /\ consumer.n = n
        /\ consumer'.pc \notin Revs /\ consumer'.pc \notin {"store", "release"}
    BY <1>1 DEF Revs, n
  <2> QED
    BY <1>1, <1>3, <2>1, <2>2, Removed
<1>5. n \in 1..Held
  BY <1>1, <1>3, <1>4, HeldIs
<1>6. n \in 1..Len(Contents) /\ got = SubSeq(Contents, 1, n)
  BY <1>1, <1>2, <1>5, FirstContents
<1>7. Promise!Dequeue
  BY <1>1, <1>4, <1>6 DEF Promise!Dequeue, Promise!Return, Return
<1>8. Offered' = Offered /\ PutBack' = PutBack
  BY <1>1, NoOffer DEF PutBack
<1> QED
  BY <1>7, <1>8 DEF ChannelStep, Promise!ChannelNext

(* flush, and pop_n into no buffer, drop the oldest elements. *)
LEMMA FlushImplements ==
  ASSUME QInv, flush_store, UNCHANGED <<class, m_pushMtx>>
  PROVE  ChannelStep
<1>1. /\ QInv' /\ ToGo \in Nat /\ ToGo <= inQueue /\ inQueue' = inQueue - ToGo
      /\ m_outPos' = Ahead(m_outPos, ToGo)
      /\ consumer.pc = "flush" /\ consumer'.pc = "idle" /\ Return(Consumer, <<>>)
      /\ \A j \in ToGo..capacity : m_buffer'[Ahead(m_outPos, j)] = m_buffer[Ahead(m_outPos, j)]
  BY FlushKeeps
<1>2. /\ consumer.pc \notin Revs /\ consumer.pc \notin {"store", "release"}
      /\ consumer'.pc \notin Revs /\ consumer'.pc \notin {"store", "release"}
  BY <1>1 DEF Revs
<1>3. /\ ToGo \in 0..Len(Contents) /\ Contents' = SubSeq(Contents, ToGo + 1, Len(Contents))
  BY <1>1, <1>2, Removed
<1>4. Promise!Discard
  BY <1>1, <1>3 DEF Promise!Discard, Promise!Return, Return
<1>5. Offered' = Offered /\ PutBack' = PutBack
  BY <1>1, NoOffer DEF PutBack, flush_store
<1> QED
  BY <1>4, <1>5 DEF ChannelStep, Promise!ChannelNext

(* for_each_requeue: an element that was dropped is the next one out; one that  *)
(* was put back is released where nobody sees it.                              *)
LEMMA RequeueStoreImplements ==
  ASSUME QInv, for_each_requeue_store
  PROVE  ChannelStep
<1>1. /\ QInv' /\ inQueue \in Nat /\ 1 <= inQueue /\ inQueue - 1 <= capacity
      /\ inQueue' = inQueue - 1
      /\ m_outPos' = Ahead(m_outPos, 1) /\ UNCHANGED <<m_inPos, producer, before>>
      /\ consumer.pc \in {"release", "dropped"} /\ consumer'.pc \in {"idle", "ask"}
      /\ \A k \in 1..capacity : m_buffer'[Ahead(m_outPos, k)] = m_buffer[Ahead(m_outPos, k)]
      /\ IF consumer.pc = "dropped" THEN Return(Consumer, <<m_buffer[m_outPos]>>) ELSE NoAnswer
  BY RequeueStoreKeeps
<1>2. m_outPos \in Slots /\ m_buffer \in [Slots -> T \cup {Nothing}] /\ capacity \in Nat
      /\ m_bufSize = capacity + 1
  BY RingSize DEF QInv, Typed, Shapes
<1>3. CASE consumer.pc = "dropped"
  <2> DEFINE e == m_buffer[m_outPos]
             got == <<e>>
  <2>1. /\ consumer.pc \notin Revs /\ consumer.pc \notin {"store", "release"}
        /\ consumer'.pc \notin Revs /\ consumer'.pc \notin {"store", "release"}
    BY <1>1, <1>3 DEF Revs
  <2>2. /\ 1 \in 0..Len(Contents) /\ Contents' = SubSeq(Contents, 1 + 1, Len(Contents))
        /\ Held = inQueue
    BY <1>1, <2>1, Removed
  <2>3. e \in T \cup {Nothing} /\ 1 \in 1..Held
    BY <1>1, <1>2, <2>2
  <2>4. Elem(1) = e
    BY <1>2, <2>1, AheadRound DEF Elem
  <2> HIDE DEF e
  <2>5. got \in Seq(T \cup {Nothing}) /\ Len(got) = 1 /\ got[1] = e
    BY <2>3
  <2>6. Return(Consumer, got)
    BY <1>1, <1>3 DEF e
  <2> HIDE DEF got
  <2>7. \A i \in 1..1 : got[i] = Elem(i)
    BY <2>4, <2>5
  <2>8. 1 \in 1..Len(Contents) /\ got = SubSeq(Contents, 1, 1)
    BY <2>3, <2>5, <2>7, FirstContents
  <2>9. Promise!Dequeue
    BY <2>2, <2>6, <2>8 DEF Promise!Dequeue, Promise!Return, Return
  <2>10. Offered' = Offered /\ PutBack' = PutBack
    BY <1>1, <1>3, NoOffer DEF PutBack
  <2> QED
    BY <2>9, <2>10 DEF ChannelStep, Promise!ChannelNext
<1>4. CASE consumer.pc = "release"
  <2>1. NoAnswer /\ Held = inQueue - 1 /\ Held' = Held
    BY <1>1, <1>4 DEF Held
  <2>2. ASSUME NEW i \in 1..Held PROVE Elem(i)' = Elem(i)
    <3>1. /\ i \in Int /\ i - 1 \in Nat /\ 1 + (i - 1) = i /\ i \in 1..capacity /\ i <= m_bufSize
          /\ 1 \in Nat /\ 1 + (i - 1) <= m_bufSize
      BY <1>1, <1>2, <2>1
    <3>2. Elem(i) = m_buffer[Ahead(m_outPos, i)]
      BY <1>4 DEF Elem, Revs
    <3>3. Elem(i)' = m_buffer'[Ahead(m_outPos', i - 1)]
      BY <1>1, <3>1, ElemNext DEF Revs
    <3>4. Ahead(m_outPos', i - 1) = Ahead(m_outPos, i)
      BY <1>1, <1>2, <3>1, AheadAgain
    <3>5. m_buffer'[Ahead(m_outPos, i)] = m_buffer[Ahead(m_outPos, i)]
      BY <1>1, <3>1
    <3> QED
      BY <3>2, <3>3, <3>4, <3>5
  <2>3. Contents' = Contents
    BY <1>1, <2>1, <2>2, SameContents
  <2>4. PutBack /\ PutBack' = FALSE /\ Offered' = Offered
    BY <1>1, <1>4, NoOffer DEF PutBack
  <2>5. Promise!GiveFree
    BY <2>1, <2>3, <2>4 DEF Promise!GiveFree, NoAnswer
  <2> QED
    BY <2>5 DEF ChannelStep, Promise!ChannelNext
<1> QED
  BY <1>1, <1>3, <1>4

(* for_each_requeue: the element is handed out and is the newest from there on.  *)
LEMMA RequeueKeepImplements ==
  ASSUME QInv, for_each_requeue_keep
  PROVE  ChannelStep
<1>1. /\ QInv' /\ inQueue \in 1..capacity /\ inQueue' = inQueue + 1
      /\ consumer.pc = "lock" /\ consumer'.pc = "release"
      /\ UNCHANGED <<m_outPos, producer, before>>
      /\ m_buffer'[m_inPos] = m_buffer[m_outPos] /\ m_inPos = Ahead(m_outPos, inQueue)
      /\ \A k \in 1..(inQueue - 1) : m_buffer'[Ahead(m_outPos, k)] = m_buffer[Ahead(m_outPos, k)]
      /\ Return(Consumer, <<m_buffer[m_outPos]>>)
  BY RequeueKeepKeeps
<1>2. m_outPos \in Slots /\ capacity \in Nat
  BY RingSize DEF QInv, Typed, Shapes
<1>3. Held = inQueue /\ Held' = Held
  BY <1>1, <1>2 DEF Held
<1>4. \A i \in Int : Elem(i)' = m_buffer'[Ahead(m_outPos, i)] /\ Elem(i) = m_buffer[Ahead(m_outPos, i - 1)]
  BY <1>1, ElemNext DEF Elem, Revs
<1>5. Elem(1) = m_buffer[m_outPos]
  BY <1>2, <1>4, AheadRound
<1>6. PICK h \in Nat : h = Held
  BY <1>1, <1>2, <1>3
<1>7. Elem(h)' = Elem(1)
  BY <1>1, <1>3, <1>4, <1>5, <1>6
<1>8. Elem(Held)' = Elem(1)
  BY <1>3, <1>6, <1>7 DEF Elem
<1>9. ASSUME NEW i \in 1..(Held - 1) PROVE Elem(i)' = Elem(i + 1)
  <2>1. i \in Int /\ i + 1 \in Int /\ (i + 1) - 1 = i /\ i \in 1..(inQueue - 1)
    BY <1>1, <1>2, <1>3
  <2> QED
    BY <1>1, <1>4, <2>1
<1>10. Held > 0
  BY <1>1, <1>2, <1>3
<1>11. /\ Contents # <<>> /\ Contents' = Append(Tail(Contents), Head(Contents))
       /\ Head(Contents) = Elem(1)
  BY <1>1, <1>3, <1>8, <1>9, <1>10, RotatedContents
<1>12. ~PutBack /\ PutBack' = TRUE /\ Offered' = Offered
  BY <1>1, NoOffer DEF PutBack
<1>13. Promise!Rotate
  BY <1>1, <1>5, <1>11, <1>12 DEF Promise!Rotate, Promise!Return, Return
<1> QED
  BY <1>13 DEF ChannelStep, Promise!ChannelNext

(* for_each_rev_requeue: while it is at work, what it found counts. *)
LEMMA RevCallImplements ==
  ASSUME QInv, NEW keep \in BOOLEAN, for_each_rev_requeue_call(keep), UNCHANGED <<class, m_pushMtx>>
  PROVE  ChannelStep
<1>1. /\ QInv' /\ inQueue' = inQueue /\ consumer.pc = "rev" /\ consumer'.pc \in Revs
      /\ UNCHANGED <<m_inPos, m_outPos, producer, before>> /\ NoAnswer
      /\ \A k \in Len(before)..capacity :
           m_buffer'[Ahead(m_outPos, k)] = m_buffer[Ahead(m_outPos, k)]
  BY RevCallKeeps
<1>2. Held' = Held /\ consumer'.pc # "store" /\ consumer'.pc # "release"
  BY <1>1 DEF Held, Revs
<1>3. Len(before) \in Nat
  BY DEF QInv, Typed, Shapes
<1>4. ASSUME NEW i \in 1..Held PROVE Elem(i)' = Elem(i)
  <2>1. i \in Int /\ 1 <= i /\ i <= capacity /\ capacity \in Nat
    BY HeldIs
  <2>2. Elem(i) = IF i <= Len(before) THEN before[i] ELSE m_buffer[Ahead(m_outPos, i - 1)]
    BY <1>1 DEF Elem, Revs
  <2>3. Elem(i)' = IF i <= Len(before) THEN before[i] ELSE m_buffer'[Ahead(m_outPos, i - 1)]
    BY <1>1, <1>2, <2>1, ElemNext
  <2>4. ~(i <= Len(before)) => i - 1 \in Len(before)..capacity
    BY <1>3, <2>1
  <2> QED
    BY <1>1, <2>2, <2>3, <2>4
<1>5. Offered' = Offered /\ PutBack' = PutBack
  BY <1>1, <1>2, NoOffer DEF PutBack, Revs
<1> QED
  BY <1>5, <1>1, <1>2, <1>4, NothingHappens

(* When it is through, those stay that the callback asked for. *)
LEMMA RevStoreImplements ==
  ASSUME QInv, for_each_rev_requeue_store, UNCHANGED <<class, m_pushMtx>>
  PROVE  ChannelStep
<1> DEFINE n == Len(before)
           m == Kept
           k == KeptAt
           got == consumer.got
<1>1. /\ QInv' /\ k \in Nat /\ inQueue' = inQueue - k
      /\ m_outPos' = Ahead(m_outPos, k)
      /\ consumer.pc = "revstore" /\ consumer'.pc = "idle" /\ Return(Consumer, got)
      /\ \A j \in k..capacity : m_buffer'[Ahead(m_outPos, j)] = m_buffer[Ahead(m_outPos, j)]
  BY RevStoreKeeps
<1>2. /\ Unseen = 0 /\ n <= inQueue /\ k + m = n
      /\ \A j \in 1..m : m_buffer[Ahead(m_outPos, k + (j - 1))] = got[j]
      /\ Chosen
  BY <1>1 DEF QInv, ConsumerInv, RevInv, Revs
<1>3. /\ got \in Seq(T \cup {Nothing}) /\ Len(got) = m /\ m \in Nat /\ n \in Nat
      /\ m_outPos \in Slots /\ m_bufSize = capacity + 1 /\ capacity \in Nat
  BY RingSize DEF QInv, Typed, Shapes, ConsumerCalls, Kept
<1>4. PICK places \in [1..m -> 1..n] :
        Increasing(places) /\ \A j \in 1..m : got[j] = before[places[j]]
  <2>1. Unseen + 1 = 1
    BY <1>2
  <2> QED
    BY <1>2, <2>1 DEF Chosen
<1>5. Increasing(places) => Promise!Increasing(places)
  BY DEF Increasing, Promise!Increasing
<1> HIDE DEF n, m, k, got
<1>6. /\ Held = inQueue /\ inQueue \in Int /\ inQueue <= capacity
      /\ n \in 0..Held /\ m \in 0..n /\ k + m = n
      /\ Held' = m + (Held - n)
  <2>1. Held = inQueue /\ inQueue \in Int /\ Held \in 0..capacity
    BY <1>1, HeldIs
  <2>2. Held' = inQueue - k
    BY <1>1 DEF Held
  <2> QED
    BY <1>1, <1>2, <1>3, <2>1, <2>2
<1>7. \A i \in 1..n : Elem(i) = before[i]
  BY <1>1 DEF Elem, Revs, n
<1>8. \A j \in 1..m : got[j] = Elem(places[j])
  BY <1>4, <1>7
<1>9. ASSUME NEW j \in 1..(m + (Held - n))
      PROVE  /\ Elem(j)' = m_buffer[Ahead(m_outPos, k + (j - 1))]
             /\ k + (j - 1) \in k..capacity
  <2>1. j \in Int /\ j - 1 \in Nat /\ k + (j - 1) <= m_bufSize /\ k + (j - 1) \in k..capacity
    BY <1>1, <1>3, <1>6
  <2>2. Elem(j)' = m_buffer'[Ahead(m_outPos', j - 1)]
    BY <1>1, <2>1, ElemNext DEF Revs
  <2>3. Ahead(m_outPos', j - 1) = Ahead(m_outPos, k + (j - 1))
    BY <1>1, <1>3, <2>1, AheadAgain
  <2> QED
    BY <1>1, <2>1, <2>2, <2>3
<1>10. ASSUME NEW j \in 1..m PROVE Elem(j)' = Elem(places[j])
  <2>1. j \in 1..(m + (Held - n))
    BY <1>3, <1>6
  <2> QED
    BY <1>2, <1>8, <1>9, <2>1
<1>11. PICK c \in Nat : c = m
  BY <1>3
<1>12. ASSUME NEW j \in 1..(Held - n) PROVE Elem(c + j)' = Elem(n + j)
  <2> DEFINE i == c + j
  <2>1. /\ i \in 1..(m + (Held - n)) /\ (n + j) - 1 = k + (i - 1) /\ ~(n + j <= n)
    <3>1. /\ k \in Int /\ m \in Int /\ n \in Int /\ Held \in Int /\ 0 <= m /\ c = m /\ k + m = n
          /\ j \in Int /\ 1 <= j /\ j <= Held - n
      BY <1>1, <1>3, <1>6, <1>11
    <3> QED
      BY <3>1
  <2>2. Elem(n + j) = m_buffer[Ahead(m_outPos, (n + j) - 1)]
    BY <1>1, <2>1 DEF Elem, Revs, n
  <2> HIDE DEF i
  <2>3. Elem(i)' = m_buffer[Ahead(m_outPos, k + (i - 1))]
    BY <1>9, <2>1
  <2> QED
    BY <2>1, <2>2, <2>3 DEF i
<1> DEFINE kept == [j \in 1..m |-> Contents[places[j]]]
<1>13. /\ n \in 0..Len(Contents) /\ got = kept
       /\ Contents' = kept \o SubSeq(Contents, n + 1, Len(Contents))
  <2>1. /\ c \in 0..n /\ places \in [1..c -> 1..n] /\ Held' = c + (Held - n) /\ Len(got) = c
        /\ \A j \in 1..c : Elem(j)' = Elem(places[j])
        /\ \A j \in 1..c : got[j] = Elem(places[j])
    BY <1>3, <1>4, <1>6, <1>8, <1>10, <1>11
  <2> DEFINE some == [j \in 1..c |-> Contents[places[j]]]
  <2>2. /\ n \in 0..Len(Contents) /\ got = some
        /\ Contents' = some \o SubSeq(Contents, n + 1, Len(Contents))
    BY <1>1, <1>3, <1>6, <1>12, <2>1, KeptContents
  <2> QED
    BY <1>11, <2>2
<1>14. Promise!Keep
  BY <1>1, <1>4, <1>5, <1>6, <1>13 DEF Promise!Keep, Promise!Return, Return
<1>15. Offered' = Offered /\ PutBack' = PutBack
  BY <1>1, NoOffer DEF PutBack, for_each_rev_requeue_store
<1> QED
  BY <1>14, <1>15 DEF ChannelStep, Promise!ChannelNext

(* The consumer. *)
LEMMA ConsumerImplements ==
  ASSUME QInv, ConsumerStep
  PROVE  ChannelStep
<1>1. CASE (call /\ UNCHANGED <<class, m_pushMtx>>) \/ for_each_requeue_load
  <2>1. UNCHANGED <<class, m_pushMtx>>
    BY <1>1 DEF for_each_requeue_load
  <2> QED
    BY <1>1, <2>1, CallImplements
<1>2. CASE consume /\ UNCHANGED <<class, m_pushMtx>>
  BY <1>2, TakeMoveImplements, TakeStoreImplements, FlushImplements, RevStoreImplements,
     RevCallImplements DEF consume
<1>3. ASSUME NEW keep \in BOOLEAN, for_each_requeue_call(keep) PROVE ChannelStep
  <2>1. /\ QInv' /\ inQueue' = inQueue /\ consumer.pc = "ask" /\ consumer'.pc \in {"lock", "dropped"}
        /\ UNCHANGED <<m_buffer, m_inPos, m_outPos, producer, before>> /\ NoAnswer
    BY <1>3, RequeueCallKeeps
  <2>2. Held' = Held
    BY <2>1 DEF Held
  <2>3. \A i \in Int : Elem(i)' = Elem(i)
    BY <2>1, ElemNext DEF Elem, Revs
  <2>4. \A i \in 1..Held : Elem(i)' = Elem(i)
    BY <2>3, HeldIs
  <2>5. Offered' = Offered /\ PutBack' = PutBack
    BY <2>1, NoOffer DEF PutBack
  <2> QED
    BY <2>1, <2>2, <2>4, <2>5, NothingHappens
<1>4. CASE for_each_requeue_keep \/ for_each_requeue_store
  BY <1>4, RequeueKeepImplements, RequeueStoreImplements
<1> QED
  BY <1>1, <1>2, <1>3, <1>4 DEF ConsumerStep, ConsumerWork

(* Every step. *)
LEMMA NextImplements ==
  ASSUME ~overrun', QInv, [Next]_vars
  PROVE  ChannelStep
<1>1. CASE \E p \in Producers : ProducerStep(p) \/ Estimate(p)
  BY <1>1, ProducerImplements
<1>2. CASE ConsumerStep
  BY <1>2, ConsumerImplements
<1>3. CASE UNCHANGED vars
  <2>1. QInv'
    BY <1>3, StutterKeeps
  <2>2. UNCHANGED <<m_buffer, m_inPos, m_outPos, producer, consumer, before, answer>>
    BY <1>3 DEF vars, queueVars
  <2>3. Held' = Held
    BY <2>2, SameInQueue DEF Held
  <2>4. \A i \in 1..Held : Elem(i)' = Elem(i)
    BY <2>2, ProducerLeaves
  <2>5. Contents' = Contents
    BY <2>1, <2>3, <2>4, SameContents
  <2>6. Offered' = Offered /\ PutBack' = PutBack
    BY <2>2 DEF Offered, PutBack
  <2> QED
    BY <2>2, <2>5, <2>6 DEF ChannelStep, Promise!channelVars
<1> QED
  BY <1>1, <1>2, <1>3 DEF Next

(* Nothing is in the queue at the start. *)
LEMMA InitImplements == Init => Promise!ChannelInit
<1> SUFFICES ASSUME Init PROVE Promise!ChannelInit
  OBVIOUS
<1>1. QInv /\ answer = <<>> /\ m_inPos = m_outPos /\ consumer.pc = "idle" /\ m_outPos \in Slots
  BY InitQInv, IdleTypes DEF Init, QueueInit, idleConsumer
<1>2. inQueue = 0
  <2>1. m_outPos = Ahead(m_outPos, 0) /\ 0 \in 0..capacity
    BY <1>1, AheadRound, RingSize
  <2>2. Available(m_outPos, m_outPos) = 0
    BY <1>1, <2>1, AvailableAhead
  <2> QED
    BY <1>1, <2>2 DEF inQueue
<1>3. Contents = <<>>
  BY <1>1, <1>2, ContentsIs DEF ContentsAre, Held
<1>4. Offered = [p \in Producers |-> <<>>] /\ PutBack = FALSE
  BY <1>1 DEF Init, QueueInit, Offered, PutBack, idleProducer
<1> QED
  BY <1>1, <1>3, <1>4 DEF Promise!ChannelInit

(* Whatever the threads do between two accesses of a call, the queue is a       *)
(* sequence up to the push that is accepted on a ring which for_each_requeue   *)
(* has lapped: circular_queue.h and circular_queue_mp.h implement the channel   *)
(* until then, for every capacity, every number of producers and blocks of any *)
(* size.                                                                       *)
THEOREM PromiseKept == Spec => LinearizableUntilOverrun
<1>1. (overrun \/ QInv) /\ [Next]_vars => (overrun \/ QInv)'
  BY NextKeeps, OverrunStays
<1>2. /\ (overrun \/ QInv) /\ [Next]_vars
      => [overrun' \/ Promise!ChannelNext]_(Promise!channelVars)
  BY NextImplements, OverrunStays DEF ChannelStep
<1> QED
  BY <1>1, <1>2, InitQInv, InitImplements, PTL DEF Spec, LinearizableUntilOverrun

(* A queue without a mutex is one for ever: for_each_requeue is not its own.    *)
THEOREM PromiseKeptAlone == Spec /\ class = "circular_queue" => Linearizable
<1>1. (~overrun /\ QInv) /\ (~overrun /\ QInv)' /\ [Next]_vars
      => [Promise!ChannelNext]_(Promise!channelVars)
  BY NextImplements DEF ChannelStep
<1> QED
  BY <1>1, NeverOverrunAlone, InitImplements, PTL DEF Spec, Linearizable, Promise!ChannelSpec
=============================================================================
