------------------------ MODULE circular_queueProofs ------------------------
(***************************************************************************)
(* Proofs about the queues of circular_queue_mp.tla, for every capacity,   *)
(* every number of producers and blocks of any size: the variables keep to *)
(* their ranges, and what each thread relies on between two accesses of a  *)
(* call stays true whatever the others do.  circular_queueRefines.tla goes *)
(* on from there.                                                          *)
(***************************************************************************)
EXTENDS circular_queue_mp, TLAPS

-----------------------------------------------------------------------------
(* Arithmetic of the ring.                                                     *)

(* The ring has a slot more than it holds elements. *)
LEMMA RingSize ==
  /\ capacity \in Nat /\ capacity > 0 /\ m_bufSize = capacity + 1
  /\ \A s : s \in Slots <=> s \in Int /\ 0 <= s /\ s <= capacity
BY CapacityAssumption DEF m_bufSize, Slots

(* What is taken modulo the ring's size leaves the ring at most once. *)
LEMMA Wraps ==
  ASSUME NEW N \in Nat \ {0}, NEW a \in Int, -N <= a, a < 2 * N
  PROVE  a % N = IF a < 0 THEN a + N ELSE IF a < N THEN a ELSE a - N
OBVIOUS

(* The slot that is k slots ahead of pos. *)
Ahead(pos, k) == (pos + k) % m_bufSize

(* The same without the remainder. *)
LEMMA AheadIs ==
  ASSUME NEW pos \in Slots, NEW k \in 0..m_bufSize
  PROVE  /\ Ahead(pos, k) = IF pos + k <= capacity THEN pos + k ELSE pos + k - m_bufSize
         /\ Ahead(pos, k) \in Slots
<1> DEFINE a == pos + k
<1>1. m_bufSize \in Nat \ {0} /\ a \in Int /\ -m_bufSize <= a /\ a < 2 * m_bufSize /\ ~(a < 0)
  BY RingSize
<1> HIDE DEF a
<1>2. a % m_bufSize = IF a < m_bufSize THEN a ELSE a - m_bufSize
  BY <1>1, Wraps
<1> QED
  BY <1>1, <1>2, RingSize DEF Ahead, a

(* Not going anywhere, and all the way round. *)
LEMMA AheadRound ==
  ASSUME NEW pos \in Slots
  PROVE  Ahead(pos, 0) = pos /\ Ahead(pos, m_bufSize) = pos
<1>1. 0 \in 0..m_bufSize /\ m_bufSize \in 0..m_bufSize
  BY RingSize
<1>2. Ahead(pos, 0) = IF pos + 0 <= capacity THEN pos + 0 ELSE pos + 0 - m_bufSize
  BY <1>1, AheadIs
<1>3. Ahead(pos, m_bufSize) = IF pos + m_bufSize <= capacity THEN pos + m_bufSize
                              ELSE pos + m_bufSize - m_bufSize
  BY <1>1, AheadIs
<1> QED
  BY <1>2, <1>3, RingSize

(* How many slots there are from out to in, without the remainder. *)
LEMMA AvailableIs ==
  ASSUME NEW in \in Slots, NEW out \in 0..m_bufSize
  PROVE  /\ Available(in, out) = IF out <= in THEN in - out ELSE in - out + m_bufSize
         /\ Available(in, out) \in 0..capacity
<1> DEFINE a == in - out
<1>1. m_bufSize \in Nat \ {0} /\ a \in Int /\ -m_bufSize <= a /\ a < m_bufSize
      /\ a < 2 * m_bufSize
  BY RingSize
<1> HIDE DEF a
<1>2. a % m_bufSize = IF a < 0 THEN a + m_bufSize ELSE a
  BY <1>1, Wraps
<1> QED
  BY <1>1, <1>2, RingSize DEF Available, a

(* Going ahead in two steps, and the distance to where one went. *)
LEMMA AheadAgain ==
  ASSUME NEW pos \in Slots, NEW j \in Nat, NEW k \in Nat, j + k <= m_bufSize
  PROVE  Ahead(Ahead(pos, j), k) = Ahead(pos, j + k)
<1>1. j \in 0..m_bufSize /\ k \in 0..m_bufSize /\ j + k \in 0..m_bufSize
  BY RingSize
<1>2. Ahead(pos, j) \in Slots
  BY <1>1, AheadIs
<1> DEFINE there == Ahead(pos, j)
<1>3. there = IF pos + j <= capacity THEN pos + j ELSE pos + j - m_bufSize
  BY <1>1, AheadIs
<1>4. Ahead(pos, j + k) = IF pos + (j + k) <= capacity THEN pos + (j + k)
                         ELSE pos + (j + k) - m_bufSize
  BY <1>1, AheadIs
<1> HIDE DEF there
<1>5. Ahead(there, k) = IF there + k <= capacity THEN there + k ELSE there + k - m_bufSize
  BY <1>1, <1>2, AheadIs DEF there
<1> QED
  BY <1>1, <1>3, <1>4, <1>5, RingSize DEF there

(* Two distances less than the ring lead to two slots. *)
LEMMA AheadInjective ==
  ASSUME NEW pos \in Slots, NEW j \in 0..capacity, NEW k \in 0..capacity,
         Ahead(pos, j) = Ahead(pos, k)
  PROVE  j = k
<1>1. j \in 0..m_bufSize /\ k \in 0..m_bufSize
  BY RingSize
<1>2. Ahead(pos, j) = IF pos + j <= capacity THEN pos + j ELSE pos + j - m_bufSize
  BY <1>1, AheadIs
<1>3. Ahead(pos, k) = IF pos + k <= capacity THEN pos + k ELSE pos + k - m_bufSize
  BY <1>1, AheadIs
<1>4. /\ pos \in Int /\ 0 <= pos /\ pos <= capacity /\ capacity \in Int
      /\ m_bufSize = capacity + 1
  BY RingSize
<1>5. j \in Int /\ 0 <= j /\ j <= capacity /\ k \in Int /\ 0 <= k /\ k <= capacity
  BY <1>4
<1> DEFINE x == Ahead(pos, j)
<1>6. x = (IF pos + j <= capacity THEN pos + j ELSE pos + j - m_bufSize)
  BY <1>2
<1>7. x = (IF pos + k <= capacity THEN pos + k ELSE pos + k - m_bufSize)
  BY <1>3
<1> HIDE DEF x
<1> QED
  BY <1>4, <1>5, <1>6, <1>7

(* A slot is as far ahead as it is available. *)
LEMMA AheadAvailable ==
  ASSUME NEW pos \in Slots, NEW in \in Slots
  PROVE  Ahead(pos, Available(in, pos)) = in
<1>1. pos \in 0..m_bufSize
  BY RingSize
<1>2. Available(in, pos) \in 0..m_bufSize
  BY <1>1, AvailableIs, RingSize
<1> DEFINE k == Available(in, pos)
<1>3. k = IF pos <= in THEN in - pos ELSE in - pos + m_bufSize
  BY <1>1, AvailableIs
<1> HIDE DEF k
<1>4. Ahead(pos, k) = IF pos + k <= capacity THEN pos + k ELSE pos + k - m_bufSize
  BY <1>2, AheadIs DEF k
<1>5. /\ pos \in Int /\ 0 <= pos /\ pos <= capacity /\ capacity \in Int
      /\ in \in Int /\ 0 <= in /\ in <= capacity /\ m_bufSize = capacity + 1
  BY RingSize
<1>6. Ahead(pos, k) = in
  BY <1>3, <1>4, <1>5
<1> QED
  BY <1>6 DEF k

(* The distance to where one went is how far one went. *)
LEMMA AvailableAhead ==
  ASSUME NEW pos \in Slots, NEW k \in 0..capacity
  PROVE  Available(Ahead(pos, k), pos) = k
<1>0. k \in 0..m_bufSize /\ pos \in 0..m_bufSize
  BY RingSize
<1>1. Ahead(pos, k) \in Slots
  BY <1>0, AheadIs
<1> DEFINE there == Ahead(pos, k)
<1>2. there = IF pos + k <= capacity THEN pos + k ELSE pos + k - m_bufSize
  BY <1>0, AheadIs
<1> HIDE DEF there
<1>3. Available(there, pos) = IF pos <= there THEN there - pos ELSE there - pos + m_bufSize
  BY <1>0, <1>1, AvailableIs DEF there
<1> QED
  BY <1>0, <1>2, <1>3, RingSize DEF there

(* Going ahead towards `in' leaves less to go. *)
LEMMA AvailableLess ==
  ASSUME NEW pos \in Slots, NEW in \in Slots, NEW k \in Nat, k <= Available(in, pos)
  PROVE  Available(in, Ahead(pos, k)) = Available(in, pos) - k
<1>1. pos \in 0..m_bufSize /\ Available(in, pos) \in 0..capacity
  BY AvailableIs, RingSize
<1>2. k \in 0..m_bufSize
  BY <1>1, RingSize
<1>3. Ahead(pos, k) \in Slots /\ Ahead(pos, k) \in 0..m_bufSize
  BY <1>2, AheadIs, RingSize
<1> DEFINE there == Ahead(pos, k)
<1>4. there = IF pos + k <= capacity THEN pos + k ELSE pos + k - m_bufSize
  BY <1>2, AheadIs
<1>5. Available(in, pos) = IF pos <= in THEN in - pos ELSE in - pos + m_bufSize
  BY <1>1, AvailableIs
<1> HIDE DEF there
<1>6. Available(in, there) = IF there <= in THEN in - there ELSE in - there + m_bufSize
  BY <1>3, AvailableIs DEF there
<1> QED
  BY <1>1, <1>2, <1>4, <1>5, <1>6, RingSize DEF there

(* When `in' goes ahead there is more to go. *)
LEMMA AvailableMore ==
  ASSUME NEW pos \in Slots, NEW in \in Slots, NEW k \in Nat, Available(in, pos) + k <= capacity
  PROVE  Available(Ahead(in, k), pos) = Available(in, pos) + k
<1>1. pos \in 0..m_bufSize /\ Available(in, pos) \in 0..capacity
  BY AvailableIs, RingSize
<1>2. k \in 0..m_bufSize
  BY <1>1, RingSize
<1>3. Ahead(in, k) \in Slots
  BY <1>2, AheadIs
<1> DEFINE there == Ahead(in, k)
<1>4. there = IF in + k <= capacity THEN in + k ELSE in + k - m_bufSize
  BY <1>2, AheadIs
<1>5. Available(in, pos) = IF pos <= in THEN in - pos ELSE in - pos + m_bufSize
  BY <1>1, AvailableIs
<1> HIDE DEF there
<1>6. Available(there, pos) = IF pos <= there THEN there - pos ELSE there - pos + m_bufSize
  BY <1>1, <1>3, AvailableIs DEF there
<1> QED
  BY <1>1, <1>2, <1>4, <1>5, <1>6, RingSize DEF there

(* The expression that inQueue has for a position that is not wrapped. *)
LEMMA AvailableFromNext ==
  ASSUME NEW pos \in Slots, NEW in \in Slots
  PROVE  Available(in, pos + 1) = Available(in, Ahead(pos, 1))
<1>1. 1 \in 0..m_bufSize /\ pos + 1 \in 0..m_bufSize
  BY RingSize
<1>2. Ahead(pos, 1) \in Slots /\ Ahead(pos, 1) \in 0..m_bufSize
  BY <1>1, AheadIs, RingSize
<1> DEFINE there == Ahead(pos, 1)
<1>4. there = IF pos + 1 <= capacity THEN pos + 1 ELSE pos + 1 - m_bufSize
  BY <1>1, AheadIs
<1> HIDE DEF there
<1>5. Available(in, pos + 1) = IF pos + 1 <= in THEN in - (pos + 1)
                             ELSE in - (pos + 1) + m_bufSize
  BY <1>1, AvailableIs
<1>6. Available(in, there) = IF there <= in THEN in - there ELSE in - there + m_bufSize
  BY <1>2, AvailableIs DEF there
<1> QED
  BY <1>1, <1>4, <1>5, <1>6, RingSize DEF there

(* push_n's blocks: no more than asked for and than there is room, the second   *)
(* one only when the first one reaches the end of the buffer, and none at all   *)
(* only when there is no room.                                                 *)
LEMMA BlockSizes ==
  ASSUME NEW in \in Slots, NEW out \in Slots, NEW n \in Nat, n > 0
  PROVE  LET first  == firstBlock(in, out, n)
             second == secondBlock(in, out, n)
         IN  /\ first \in Nat /\ second \in Nat /\ first + second <= n
             /\ Available(in, out) + first + second <= capacity
             /\ in + first <= m_bufSize /\ (second > 0 => in + first = m_bufSize)
             /\ first = 0 => Available(in, out) = capacity
<1> DEFINE first == firstBlock(in, out, n)
           second == secondBlock(in, out, n)
           next == (in + first) % m_bufSize
           avail == Available(in, out)
<1>0. /\ in \in Int /\ 0 <= in /\ in <= capacity /\ capacity \in Int /\ capacity > 0
      /\ out \in Int /\ 0 <= out /\ out <= capacity /\ m_bufSize = capacity + 1
      /\ out \in 0..m_bufSize /\ capacity < 65536
  BY RingSize, CapacityAssumption
<1>1. avail = IF out <= in THEN in - out ELSE in - out + m_bufSize
  BY <1>0, AvailableIs
<1>2. first = IF n < (IF out > in THEN out - 1 - in
                      ELSE IF out = 0 THEN m_bufSize - 1 - in ELSE m_bufSize - in)
              THEN n
              ELSE IF out > in THEN out - 1 - in
                   ELSE IF out = 0 THEN m_bufSize - 1 - in ELSE m_bufSize - in
  BY DEF firstBlock, Lesser
<1> HIDE DEF first
<1>3. first \in 0..m_bufSize
  BY <1>0, <1>2
<1>4. next = IF in + first <= capacity THEN in + first ELSE in + first - m_bufSize
  BY <1>0, <1>3, AheadIs DEF Ahead
<1>5. second = Lesser(n - first, IF out > 1 THEN AsSize(out - next - 1) ELSE 0)
  BY DEF secondBlock, first
<1> HIDE DEF avail, second, next
<1>6. AsSize(out - next - 1) \in Nat
      /\ (out - next - 1 >= 0 => AsSize(out - next - 1) = out - next - 1)
  <2>1. \A x \in Int : x % 65536 \in Nat /\ (0 <= x /\ x < 65536 => x % 65536 = x)
    OBVIOUS
  <2>2. out - next - 1 \in Int /\ out - next - 1 < 65536
    BY <1>0, <1>3, <1>4
  <2> QED
    BY <2>1, <2>2 DEF AsSize
<1>7. second = IF n - first < (IF out > 1 THEN AsSize(out - next - 1) ELSE 0) THEN n - first
               ELSE IF out > 1 THEN AsSize(out - next - 1) ELSE 0
  BY <1>5 DEF Lesser
<1> DEFINE rest == AsSize(out - next - 1)
<1> HIDE DEF rest
<1>8. /\ rest \in Nat /\ (out - next - 1 >= 0 => rest = out - next - 1)
      /\ second = IF n - first < (IF out > 1 THEN rest ELSE 0) THEN n - first
                  ELSE IF out > 1 THEN rest ELSE 0
  BY <1>6, <1>7 DEF rest
<1>9. \/ first = n
      \/ out > in /\ first = out - 1 - in
      \/ out <= in /\ out = 0 /\ first = m_bufSize - 1 - in
      \/ out <= in /\ out > 0 /\ first = m_bufSize - in
  BY <1>0, <1>2
<1>10. first <= n /\ first \in Nat /\ second \in Nat /\ first + second <= n
  <2>1. first <= n
    BY <1>0, <1>2
  <2>2. first \in Nat /\ n - first \in Nat
    BY <1>0, <1>3, <2>1
  <2>3. second \in Nat /\ second <= n - first
    BY <1>8, <2>2
  <2> QED
    BY <2>1, <2>2, <2>3
<1> DEFINE Fit == /\ avail + first + second <= capacity
                  /\ in + first <= m_bufSize /\ (second > 0 => in + first = m_bufSize)
                  /\ first = 0 => avail = capacity
<1>11. ASSUME first = n
       PROVE  Fit
  <2>1. second = 0
    BY <1>10, <1>11
  <2> QED
    BY <1>0, <1>1, <1>2, <1>10, <1>11, <2>1
<1>12. ASSUME out > in /\ first = out - 1 - in
       PROVE  Fit
  <2>1. next = out - 1
    BY <1>0, <1>4, <1>12
  <2>2. second = 0
    BY <1>0, <1>8, <1>10, <2>1
  <2> QED
    BY <1>0, <1>1, <1>10, <1>12, <2>2
<1>13. ASSUME out <= in /\ out = 0 /\ first = m_bufSize - 1 - in
       PROVE  Fit
  <2>1. second = 0
    BY <1>0, <1>8, <1>10, <1>13
  <2> QED
    BY <1>0, <1>1, <1>10, <1>13, <2>1
<1>14. ASSUME out <= in /\ out > 0 /\ first = m_bufSize - in
       PROVE  Fit
  <2>1. next = 0
    BY <1>0, <1>4, <1>14
  <2>2. second <= out - 1
    BY <1>0, <1>8, <1>10, <1>14, <2>1
  <2> QED
    BY <1>0, <1>1, <1>10, <1>14, <2>2
<1>15. Fit
  BY <1>9, <1>11, <1>12, <1>13, <1>14
<1> QED
  BY <1>10, <1>15 DEF first, second, avail

-----------------------------------------------------------------------------
(* The types of all the variables, and what push_test finds of the blocks.     *)
Requeues == {"ask", "lock", "release", "dropped"}
Revs     == {"rev", "revstore"}

ProducerCalls ==
  [pc : {"idle", "test", "write", "store", "available"}, how : {"push", "push_n", "pushpeek"},
   es : Seq(T), at : Slots, first : 0..capacity, second : 0..capacity]

ConsumerCalls ==
  [pc : {"idle", "move", "store", "flush"} \cup Requeues \cup Revs, at : Slots, until : Slots,
   n : 0..capacity, keepAt : Slots, got : Seq(T \cup {Nothing})]

Shapes ==
  /\ m_buffer \in [Slots -> T \cup {Nothing}] /\ m_inPos \in Slots /\ m_outPos \in Slots
  /\ producer \in [Producers -> ProducerCalls]
  /\ consumer \in ConsumerCalls
  /\ before \in Seq(T \cup {Nothing})
  /\ class \in {"circular_queue", "circular_queue_mp"}
  /\ m_pushMtx \in Producers \cup {NoOne}

Blocks(c) ==
  /\ c.first + c.second <= capacity
  /\ c.pc \in {"test", "write", "store"} =>
       Len(c.es) > 0 /\ (c.how # "push_n" => Len(c.es) = 1)
  /\ c.pc \in {"write", "store"} =>
       /\ c.first > 0 /\ c.first + c.second <= Len(c.es)
       /\ c.at + c.first <= m_bufSize /\ (c.second > 0 => c.at + c.first = m_bufSize)

Typed == Shapes /\ \A p \in Producers : Blocks(producer[p])

(* The two ends of the ring, and calls that have not begun.                    *)
LEMMA IdleTypes ==
  /\ 0 \in Slots /\ 0 \in 0..capacity
  /\ idleProducer \in ProducerCalls /\ Blocks(idleProducer)
  /\ idleConsumer \in ConsumerCalls
<1>1. 0 \in Slots /\ 0 \in 0..capacity
  BY RingSize
<1> QED
  BY <1>1 DEF idleProducer, idleConsumer, ProducerCalls, ConsumerCalls, Blocks

(* At the start. *)
LEMMA InitTyped == Init => Typed
<1> SUFFICES ASSUME Init PROVE Typed
  OBVIOUS
<1>1. Shapes
  BY IdleTypes DEF Init, QueueInit, Shapes
<1>2. \A p \in Producers : Blocks(producer[p])
  BY IdleTypes DEF Init, QueueInit
<1> QED
  BY <1>1, <1>2 DEF Typed

(* A step of a producer that leaves the rest of the shared state's types alone. *)
LEMMA ProducerTypes ==
  ASSUME Typed, NEW p \in Producers, NEW c \in ProducerCalls, Blocks(c),
         producer' = [producer EXCEPT ![p] = c],
         m_buffer' \in [Slots -> T \cup {Nothing}], m_inPos' \in Slots,
         UNCHANGED <<m_outPos, consumer, before, class>>,
         m_pushMtx' \in Producers \cup {NoOne}
  PROVE  Typed'
<1>1. producer' \in [Producers -> ProducerCalls]
  BY DEF Typed, Shapes
<1>2. \A q \in Producers : Blocks(producer'[q])
  BY DEF Typed, Shapes
<1>3. Shapes'
  BY <1>1 DEF Typed, Shapes
<1> QED
  BY <1>2, <1>3 DEF Typed, Blocks

(* Every step of a producer's call keeps the types. *)
LEMMA OfferTypes ==
  ASSUME Typed, NEW p \in Producers, NEW how \in {"push", "push_n", "pushpeek"},
         NEW es \in Seq(T), Len(es) > 0, how # "push_n" => Len(es) = 1, Offer(p, how, es),
         m_buffer' \in [Slots -> T \cup {Nothing}],
         class' = class, m_pushMtx' \in Producers \cup {NoOne}
  PROVE  Typed'
<1> DEFINE c == [idleProducer EXCEPT !.pc = "test", !.how = how, !.at = m_inPos, !.es = es]
<1>1. c \in ProducerCalls /\ Blocks(c)
  BY IdleTypes DEF Typed, Shapes, idleProducer, ProducerCalls, Blocks
<1>2. producer' = [producer EXCEPT ![p] = c] /\ m_inPos' = m_inPos
      /\ UNCHANGED <<m_outPos, consumer, before>>
  BY DEF Offer
<1> HIDE DEF c
<1> QED
  BY <1>1, <1>2, ProducerTypes DEF Typed, Shapes

(* A function on 1..n is a sequence. *)
LEMMA FunctionIsSeq ==
  ASSUME NEW S, NEW n \in Nat, NEW es \in [1..n -> S]
  PROVE  es \in Seq(S) /\ Len(es) = n
OBVIOUS

(* What begins a producer's call. *)
LEMMA StartTypes ==
  ASSUME Typed, NEW p \in Producers, start(p) \/ pushpeek(p), class' = class,
         m_pushMtx' \in Producers \cup {NoOne}
  PROVE  Typed'
<1>0. m_buffer \in [Slots -> T \cup {Nothing}]
  BY DEF Typed, Shapes
<1>1. CASE push_load(p)
  <2>1. PICK e \in T : Offer(p, "push", <<e>>)
    BY <1>1 DEF push_load
  <2>2. m_buffer' \in [Slots -> T \cup {Nothing}]
    BY <1>0, <1>1 DEF push_load
  <2> DEFINE es == <<e>>
  <2>3. es \in Seq(T) /\ Len(es) = 1 /\ Len(es) > 0
    OBVIOUS
  <2>4. Offer(p, "push", es)
    BY <2>1
  <2> HIDE DEF es
  <2> QED
    BY <2>2, <2>3, <2>4, OfferTypes
<1>2. ASSUME NEW n \in 1..MaxBlock, NEW es \in [1..n -> T], push_n_load(p, es) PROVE Typed'
  <2>1. es \in Seq(T) /\ Len(es) > 0
    BY FunctionIsSeq
  <2>2. Offer(p, "push_n", es) /\ m_buffer' \in [Slots -> T \cup {Nothing}]
    BY <1>0, <1>2 DEF push_n_load
  <2> QED
    BY <2>1, <2>2, OfferTypes
<1>3. CASE pushpeek(p)
  <2>1. PICK e \in T : Offer(p, "pushpeek", <<e>>) /\ m_buffer' = [m_buffer EXCEPT ![m_inPos] = e]
    BY <1>3 DEF pushpeek
  <2>2. m_buffer' \in [Slots -> T \cup {Nothing}]
    BY <1>0, <2>1
  <2> DEFINE es == <<e>>
  <2>3. es \in Seq(T) /\ Len(es) = 1 /\ Len(es) > 0
    OBVIOUS
  <2>4. Offer(p, "pushpeek", es)
    BY <2>1
  <2> HIDE DEF es
  <2> QED
    BY <2>2, <2>3, <2>4, OfferTypes
<1> QED
  BY <1>1, <1>2, <1>3 DEF start

(* What is in a slot after push_write.  The blocks do not overlap: the second   *)
(* one ends before the first one begins.                                       *)
Written(c, s) ==
  IF c.at <= s /\ s < c.at + c.first THEN c.es[s - c.at + 1]
  ELSE IF s < c.second THEN c.es[c.first + s + 1] ELSE m_buffer[s]

(* And push_write leaves just that. *)
LEMMA WhatIsWritten ==
  ASSUME Typed, NEW p \in Producers, push_write(p), NEW s \in Slots
  PROVE  m_buffer'[s] = Written(producer[p], s)
<1> DEFINE c == producer[p]
<1>1. c \in ProducerCalls /\ Blocks(c) /\ c.pc = "write"
  BY DEF Typed, Shapes, push_write, ProducerAt
<1>2. /\ c.first \in Int /\ c.second \in Int /\ c.at \in Int
      /\ c.first + c.second <= capacity /\ capacity \in Int /\ m_bufSize = capacity + 1
      /\ c.second > 0 => c.at + c.first = m_bufSize
      /\ s \in Int /\ 0 <= s
  BY <1>1, RingSize DEF ProducerCalls, Blocks
<1> DEFINE isFirst == s \in c.at..(c.at + c.first - 1)
           isSecond == s < c.second
<1>3. isFirst <=> c.at <= s /\ s < c.at + c.first
  BY <1>2
<1>4. ~(isFirst /\ isSecond)
  BY <1>2, <1>3
<1>5. m_buffer'[s] = CASE isFirst  -> c.es[s - c.at + 1]
                       [] isSecond -> c.es[c.first + s + 1]
                       [] OTHER    -> m_buffer[s]
  BY DEF push_write
<1>6. Written(c, s) = IF isFirst THEN c.es[s - c.at + 1]
                      ELSE IF isSecond THEN c.es[c.first + s + 1] ELSE m_buffer[s]
  BY <1>3 DEF Written
<1> HIDE DEF isFirst, isSecond, c
<1>7. m_buffer'[s] = Written(c, s)
  BY <1>4, <1>5, <1>6
<1> QED
  BY <1>7 DEF c

(* The steps of a producer's call. *)
LEMMA TestTypes ==
  ASSUME Typed, NEW p \in Producers, push_test(p), class' = class,
         m_pushMtx' \in Producers \cup {NoOne}
  PROVE  Typed'
<1> DEFINE c == producer[p]
           n == Len(c.es)
           first  == IF c.how = "push_n" THEN firstBlock(c.at, m_outPos, n)
                     ELSE IF isFull(c.at, m_outPos) THEN 0 ELSE 1
           second == IF c.how = "push_n" THEN secondBlock(c.at, m_outPos, n) ELSE 0
           pc == IF c.how = "pushpeek" THEN "store" ELSE "write"
           d == [c EXCEPT !.pc = pc, !.first = first, !.second = second]
<1>1. c \in ProducerCalls /\ Blocks(c) /\ c.pc = "test" /\ m_outPos \in Slots
  BY DEF Typed, Shapes, push_test, ProducerAt
<1>2. n \in Nat /\ n > 0 /\ (c.how # "push_n" => n = 1) /\ c.at \in Slots /\ c.es \in Seq(T)
  BY <1>1 DEF ProducerCalls, Blocks
<1>3. /\ m_buffer' \in [Slots -> T \cup {Nothing}] /\ m_inPos' \in Slots
      /\ UNCHANGED <<m_outPos, consumer, before>>
  BY DEF push_test, Typed, Shapes
<1>4. producer' = [producer EXCEPT ![p] = IF first = 0 THEN idleProducer ELSE d]
  BY DEF push_test, ProducerReturns, Typed, Shapes
<1>5. /\ first \in Nat /\ second \in Nat /\ first + second <= n /\ first + second <= capacity
      /\ c.at + first <= m_bufSize /\ (second > 0 => c.at + first = m_bufSize)
  <2>1. CASE c.how = "push_n"
    <3>0. c.at \in Slots /\ m_outPos \in 0..m_bufSize
      BY <1>1, <1>2, RingSize
    <3>1. Available(c.at, m_outPos) \in 0..capacity
      BY <3>0, AvailableIs
    <3> DEFINE avail == Available(c.at, m_outPos)
               one   == firstBlock(c.at, m_outPos, n)
               two   == secondBlock(c.at, m_outPos, n)
    <3>2. first = one /\ second = two
      BY <2>1
    <3> HIDE DEF n
    <3>3. /\ one \in Nat /\ two \in Nat /\ one + two <= n
          /\ Available(c.at, m_outPos) + one + two <= capacity
          /\ c.at + one <= m_bufSize /\ (two > 0 => c.at + one = m_bufSize)
      BY <1>1, <1>2, BlockSizes
    <3> HIDE DEF avail, first, second, one, two
    <3> QED
      BY <3>1, <3>2, <3>3, RingSize DEF avail
  <2>2. CASE c.how # "push_n"
    <3>1. second = 0 /\ first \in {0, 1}
      BY <2>2
    <3> HIDE DEF first, second
    <3> QED
      BY <1>2, <2>2, <3>1, RingSize
  <2> QED
    BY <2>1, <2>2
<1>6. CASE first = 0
  BY <1>3, <1>4, <1>6, IdleTypes, ProducerTypes
<1>7. CASE first # 0
  <2>1. first \in 0..capacity /\ second \in 0..capacity /\ first > 0
    <3> HIDE DEF first, second
    <3> QED
      BY <1>5, <1>7, RingSize
  <2>2. pc \in {"write", "store"}
    OBVIOUS
  <2> HIDE DEF first, second, pc
  <2>3. d \in ProducerCalls
    BY <1>1, <2>1, <2>2 DEF ProducerCalls
  <2>4. d.first = first /\ d.second = second /\ d.at = c.at /\ d.es = c.es /\ d.how = c.how
        /\ d.pc = pc
    BY <1>1 DEF ProducerCalls
  <2>5. Blocks(d)
    BY <1>2, <1>5, <2>1, <2>4 DEF Blocks
  <2> HIDE DEF d
  <2>6. producer' = [producer EXCEPT ![p] = d]
    BY <1>4, <1>7
  <2> QED
    BY <1>3, <2>3, <2>5, <2>6, ProducerTypes
<1> QED
  BY <1>6, <1>7

(* push_write keeps the types. *)
LEMMA WriteTypes ==
  ASSUME Typed, NEW p \in Producers, push_write(p), class' = class,
         m_pushMtx' \in Producers \cup {NoOne}
  PROVE  Typed'
<1> DEFINE c == producer[p]
           d == [c EXCEPT !.pc = "store"]
<1>1. /\ c \in ProducerCalls /\ Blocks(c) /\ c.pc = "write"
      /\ m_buffer \in [Slots -> T \cup {Nothing}]
  BY DEF Typed, Shapes, push_write, ProducerAt
<1>2. m_inPos' \in Slots /\ UNCHANGED <<m_outPos, consumer, before>>
  BY DEF push_write, Typed, Shapes
<1>3. producer' = [producer EXCEPT ![p] = d]
  BY DEF push_write, Typed, Shapes
<1>4. d \in ProducerCalls
  BY <1>1 DEF ProducerCalls
<1>5. d.first = c.first /\ d.second = c.second /\ d.at = c.at /\ d.es = c.es /\ d.how = c.how
      /\ d.pc = "store"
  BY <1>1 DEF ProducerCalls
<1>6. Blocks(d)
  BY <1>1, <1>5 DEF Blocks
<1>7. m_buffer' \in [Slots -> T \cup {Nothing}]
  <2>1. /\ c.es \in Seq(T) /\ c.first \in Nat /\ c.second \in Nat /\ c.at \in Slots
        /\ c.first + c.second <= Len(c.es) /\ c.first + c.second <= capacity
        /\ c.second > 0 => c.at + c.first = m_bufSize
    BY <1>1, RingSize DEF ProducerCalls, Blocks
  <2>2. ASSUME NEW s \in Slots PROVE m_buffer'[s] \in T \cup {Nothing}
    <3>1. m_buffer'[s] = Written(c, s)
      BY WhatIsWritten
    <3>2. \A i \in 1..Len(c.es) : c.es[i] \in T
      BY <2>1
    <3>3. m_buffer[s] \in T \cup {Nothing} /\ s \in Int /\ 0 <= s /\ c.at \in Int
      BY <1>1, <2>1, RingSize
    <3> DEFINE len == Len(c.es)
    <3>a. len \in Int /\ c.first \in Int /\ 0 <= c.first /\ c.second \in Int /\ 0 <= c.second
          /\ c.first + c.second <= len
      BY <2>1
    <3> HIDE DEF len
    <3>4. c.at <= s /\ s < c.at + c.first => s - c.at + 1 \in 1..len
      BY <3>a, <3>3
    <3>5. s < c.second => c.first + s + 1 \in 1..len
      BY <3>a, <3>3
    <3> USE DEF len
    <3>6. c.at <= s /\ s < c.at + c.first => c.es[s - c.at + 1] \in T
      BY <3>2, <3>4
    <3>7. s < c.second => c.es[c.first + s + 1] \in T
      BY <3>2, <3>5
    <3> QED
      BY <3>1, <3>3, <3>6, <3>7, Zenon DEF Written
  <2> QED
    BY <2>2 DEF push_write
<1> HIDE DEF d
<1> QED
  BY <1>2, <1>3, <1>4, <1>6, <1>7, ProducerTypes

(* m_inPos goes ahead by as much as was written. *)
LEMMA StoreGoesAhead ==
  ASSUME NEW at \in Slots, NEW first \in 0..capacity, NEW second \in 0..capacity,
         first + second <= capacity, at + first <= m_bufSize,
         second > 0 => at + first = m_bufSize
  PROVE  ((at + first) % m_bufSize) + second = Ahead(at, first + second)
<1>1. /\ at \in Int /\ 0 <= at /\ at <= capacity /\ capacity \in Int /\ m_bufSize = capacity + 1
      /\ first \in 0..m_bufSize /\ first + second \in 0..m_bufSize
  BY RingSize
<1> DEFINE next == (at + first) % m_bufSize
           to == Ahead(at, first + second)
<1>2. next = IF at + first <= capacity THEN at + first ELSE at + first - m_bufSize
  BY <1>1, AheadIs DEF Ahead
<1>3. to = IF at + (first + second) <= capacity THEN at + (first + second)
           ELSE at + (first + second) - m_bufSize
  BY <1>1, AheadIs
<1> HIDE DEF next, to
<1>4. next + second = to
  BY <1>1, <1>2, <1>3
<1> QED
  BY <1>4 DEF next, to

(* push_store keeps the types: m_inPos stays in the ring. *)
LEMMA StoreTypes ==
  ASSUME Typed, NEW p \in Producers, push_store(p), class' = class,
         m_pushMtx' \in Producers \cup {NoOne}
  PROVE  Typed' /\ m_inPos' = Ahead(producer[p].at, producer[p].first + producer[p].second)
<1> DEFINE c == producer[p]
<1>1. c \in ProducerCalls /\ Blocks(c) /\ c.pc = "store"
  BY DEF Typed, Shapes, push_store, ProducerAt
<1>2. /\ c.at \in Slots /\ c.first \in 0..capacity /\ c.second \in 0..capacity
      /\ c.first + c.second <= capacity /\ c.at + c.first <= m_bufSize
      /\ (c.second > 0 => c.at + c.first = m_bufSize)
  BY <1>1 DEF ProducerCalls, Blocks
<1>3. m_inPos' = Ahead(c.at, c.first + c.second)
  BY <1>2, StoreGoesAhead DEF push_store
<1>4. c.first + c.second \in 0..m_bufSize
  BY <1>2, RingSize
<1>5. m_inPos' \in Slots
  BY <1>2, <1>3, <1>4, AheadIs
<1>6. /\ producer' = [producer EXCEPT ![p] = idleProducer]
      /\ m_buffer' \in [Slots -> T \cup {Nothing}]
      /\ UNCHANGED <<m_outPos, consumer, before>>
  BY DEF push_store, ProducerReturns, Typed, Shapes
<1> QED
  BY <1>3, <1>5, <1>6, IdleTypes, ProducerTypes

(* available_for_push keeps the types. *)
LEMMA EstimateTypes ==
  ASSUME Typed, NEW p \in Producers, available_load(p) \/ available_return(p), class' = class,
         m_pushMtx' \in Producers \cup {NoOne}
  PROVE  Typed'
<1>1. CASE available_load(p)
  <2> DEFINE c == [producer[p] EXCEPT !.pc = "available", !.at = m_outPos]
  <2>1. c \in ProducerCalls /\ Blocks(c)
    BY DEF Typed, Shapes, ProducerCalls, Blocks
  <2>2. /\ producer' = [producer EXCEPT ![p] = c]
        /\ m_buffer' \in [Slots -> T \cup {Nothing}] /\ m_inPos' \in Slots
        /\ UNCHANGED <<m_outPos, consumer, before>>
    BY <1>1 DEF available_load, Typed, Shapes
  <2> HIDE DEF c
  <2> QED
    BY <2>1, <2>2, ProducerTypes
<1>2. CASE available_return(p)
  <2>1. /\ producer' = [producer EXCEPT ![p] = idleProducer]
        /\ m_buffer' \in [Slots -> T \cup {Nothing}] /\ m_inPos' \in Slots
        /\ UNCHANGED <<m_outPos, consumer, before>>
    BY <1>2 DEF available_return, ProducerReturns, Typed, Shapes
  <2> QED
    BY <2>1, IdleTypes, ProducerTypes
<1> QED
  BY <1>1, <1>2

(* Every step of a producer keeps the types. *)
LEMMA ProducerStepTypes ==
  ASSUME Typed, NEW p \in Producers, ProducerStep(p) \/ Estimate(p)
  PROVE  Typed'
<1>1. class' = class
  BY DEF ProducerStep, Estimate
<1>2. m_pushMtx' \in Producers \cup {NoOne}
  BY DEF ProducerStep, Estimate, locked, Typed, Shapes
<1>3. \/ start(p) \/ pushpeek(p) \/ push_test(p) \/ push_write(p) \/ push_store(p)
      \/ available_load(p) \/ available_return(p)
  BY DEF ProducerStep, Estimate, locked
<1> QED
  BY <1>1, <1>2, <1>3, StartTypes, TestTypes, WriteTypes, StoreTypes, EstimateTypes

(* A step of the consumer, which leaves the producers alone. *)
LEMMA ConsumerTypes ==
  ASSUME Typed, consumer' \in ConsumerCalls, m_buffer' \in [Slots -> T \cup {Nothing}],
         m_inPos' \in Slots, m_outPos' \in Slots, before' \in Seq(T \cup {Nothing}),
         UNCHANGED <<producer, class, m_pushMtx>>
  PROVE  Typed'
<1>1. Shapes'
  BY DEF Typed, Shapes
<1> QED
  BY <1>1 DEF Typed, Blocks

(* The beginning of a call. *)
LEMMA BeginTypes ==
  ASSUME NEW place \in {"move", "flush", "rev", "ask"}, NEW at \in Slots, NEW n \in 0..capacity,
         NEW until \in Slots, Begin(place, at, n, until)
  PROVE  consumer' \in ConsumerCalls
<1>1. place \in {"idle", "move", "store", "flush"} \cup Requeues \cup Revs
  BY DEF Requeues, Revs
<1>2. (IF place = "rev" THEN at ELSE 0) \in Slots
  BY IdleTypes
<1> QED
  BY <1>1, <1>2, IdleTypes DEF Begin, idleConsumer, ConsumerCalls

(* How much there is of what was asked for. *)
LEMMA LesserIs ==
  ASSUME NEW n \in Nat, NEW in \in Slots, NEW out \in Slots
  PROVE  /\ Lesser(n, Available(in, out)) \in 0..capacity
         /\ Lesser(n, Available(in, out)) <= Available(in, out)
         /\ Lesser(n, Available(in, out)) <= n
         /\ (n > 0 /\ Lesser(n, Available(in, out)) = 0 => in = out)
<1>1. out \in 0..m_bufSize
  BY RingSize
<1> DEFINE avail == Available(in, out)
<1>2. avail \in 0..capacity /\ avail = IF out <= in THEN in - out ELSE in - out + m_bufSize
  BY <1>1, AvailableIs
<1> HIDE DEF avail
<1>3. avail = 0 => in = out
  BY <1>2, RingSize
<1>4. /\ Lesser(n, avail) \in 0..capacity /\ Lesser(n, avail) <= avail /\ Lesser(n, avail) <= n
      /\ (n > 0 /\ Lesser(n, avail) = 0 => avail = 0)
  BY <1>2, RingSize DEF Lesser
<1> QED
  BY <1>3, <1>4 DEF avail

(* What is between two positions. *)
LEMMA BetweenIs ==
  ASSUME Typed, NEW from \in Slots, NEW to \in Slots
  PROVE  /\ Between(from, to) \in Seq(T \cup {Nothing})
         /\ Len(Between(from, to)) = Available(to, from)
         /\ \A i \in 1..Available(to, from) : Between(from, to)[i] = m_buffer[Ahead(from, i - 1)]
<1>1. from \in 0..m_bufSize
  BY RingSize
<1> DEFINE n == Available(to, from)
<1>2. n \in 0..capacity
  BY <1>1, AvailableIs
<1>3. Between(from, to) = [i \in 1..n |-> m_buffer[(from + i - 1) % m_bufSize]]
  BY DEF Between
<1> HIDE DEF n
<1>4. ASSUME NEW i \in 1..n
      PROVE  /\ (from + i - 1) % m_bufSize = Ahead(from, i - 1)
             /\ m_buffer[(from + i - 1) % m_bufSize] \in T \cup {Nothing}
  <2>1. i - 1 \in 0..m_bufSize /\ from \in Int /\ i \in Int
    BY <1>2, RingSize
  <2>2. from + i - 1 = from + (i - 1)
    BY <2>1
  <2>3. Ahead(from, i - 1) \in Slots
    BY <2>1, AheadIs
  <2> QED
    BY <2>2, <2>3 DEF Ahead, Typed, Shapes
<1>5. Between(from, to) \in [1..n -> T \cup {Nothing}]
  BY <1>3, <1>4
<1>6. Between(from, to) \in Seq(T \cup {Nothing}) /\ Len(Between(from, to)) = n
  BY <1>2, <1>5, FunctionIsSeq
<1>7. \A i \in 1..n : Between(from, to)[i] = m_buffer[Ahead(from, i - 1)]
  BY <1>3, <1>4
<1> QED
  BY <1>6, <1>7 DEF n

(* The calls of the consumer begin. *)
LEMMA CallTypes ==
  ASSUME Typed, call \/ for_each_requeue_load, UNCHANGED <<class, m_pushMtx>>
  PROVE  Typed'
<1>0. /\ m_inPos \in Slots /\ m_outPos \in Slots /\ m_buffer \in [Slots -> T \cup {Nothing}]
      /\ before \in Seq(T \cup {Nothing})
  BY DEF Typed, Shapes
<1>1. 1 \in 0..capacity /\ 1 \in 0..m_bufSize /\ Ahead(m_outPos, 1) \in Slots
  <2>1. 1 \in 0..capacity /\ 1 \in 0..m_bufSize
    BY RingSize
  <2> QED
    BY <1>0, <2>1, AheadIs
<1>2. ASSUME consumer' \in ConsumerCalls, UNCHANGED <<m_buffer, m_inPos, m_outPos, producer, before>>
      PROVE  Typed'
  BY <1>0, <1>2, ConsumerTypes
<1>3. ASSUME NEW a, ConsumerReturns(a) PROVE consumer' \in ConsumerCalls
  BY <1>3, IdleTypes DEF ConsumerReturns
<1>4. CASE pop_load
  <2>1. ConsumerReturns(<<>>) \/ Begin("move", m_outPos, 1, Ahead(m_outPos, 1))
    BY <1>4 DEF pop_load, Ahead
  <2>2. consumer' \in ConsumerCalls
    BY <1>0, <1>1, <1>3, <2>1, BeginTypes
  <2> QED
    BY <1>2, <1>4, <2>2 DEF pop_load
<1>5. ASSUME NEW n \in 1..MaxBlock, pop_n_load(n) PROVE Typed'
  <2> DEFINE size == Lesser(n, Available(m_inPos, m_outPos))
  <2>1. n \in Nat
    BY BoundsAssumption
  <2>2. size \in 0..capacity
    BY <1>0, <2>1, LesserIs
  <2>3. ConsumerReturns(<<>>) \/ Begin("move", m_outPos, size, Ahead(m_outPos, size))
    BY <1>5 DEF pop_n_load, Ahead
  <2> HIDE DEF size
  <2>4. size \in 0..m_bufSize
    BY <2>2, RingSize
  <2>5. Ahead(m_outPos, size) \in Slots
    BY <1>0, <2>4, AheadIs
  <2>6. consumer' \in ConsumerCalls
    BY <1>0, <1>3, <2>2, <2>3, <2>5, BeginTypes
  <2> QED
    BY <1>2, <1>5, <2>6 DEF pop_n_load
<1>6. CASE for_each_load
  <2>1. consumer' \in ConsumerCalls
    BY <1>0, <1>1, <1>3, <1>6, BeginTypes DEF for_each_load
  <2> QED
    BY <1>2, <1>6, <2>1 DEF for_each_load
<1>7. ASSUME NEW n \in {MaxBlock, capacity}, flush_load(n) PROVE Typed'
  <2> DEFINE size == Lesser(n, Available(m_inPos, m_outPos))
  <2>1. n \in Nat
    BY BoundsAssumption, RingSize
  <2>2. size \in 0..capacity
    BY <1>0, <2>1, LesserIs
  <2>3. Begin("flush", m_outPos, 0, Ahead(m_outPos, size))
    BY <1>7 DEF flush_load, Ahead
  <2> HIDE DEF size
  <2>4. size \in 0..m_bufSize /\ 0 \in 0..capacity
    BY <2>2, RingSize
  <2>5. Ahead(m_outPos, size) \in Slots
    BY <1>0, <2>4, AheadIs
  <2>6. consumer' \in ConsumerCalls
    BY <1>0, <2>3, <2>4, <2>5, BeginTypes
  <2> QED
    BY <1>2, <1>7, <2>6 DEF flush_load
<1>8. CASE peek
  BY <1>2, <1>3, <1>8 DEF peek
<1>9. CASE for_each_rev_requeue_load
  <2>1. consumer' \in ConsumerCalls
    BY <1>0, <1>3, <1>9, IdleTypes, BeginTypes DEF for_each_rev_requeue_load
  <2>2. before' \in Seq(T \cup {Nothing})
    BY <1>0, <1>9, BetweenIs DEF for_each_rev_requeue_load
  <2> QED
    BY <1>0, <1>9, <2>1, <2>2, ConsumerTypes DEF for_each_rev_requeue_load
<1>10. CASE for_each_requeue_load
  <2>1. consumer' \in ConsumerCalls
    BY <1>0, <1>1, <1>3, <1>10, BeginTypes DEF for_each_requeue_load
  <2> QED
    BY <1>2, <1>10, <2>1 DEF for_each_requeue_load
<1> QED
  BY <1>4, <1>5, <1>6, <1>7, <1>8, <1>9, <1>10 DEF call

(* take_move's two blocks are the n slots from where it starts. *)
LEMMA TakenSlots ==
  ASSUME NEW at \in Slots, NEW n \in 0..capacity, NEW i \in 1..n
  PROVE  LET first == Lesser(n, m_bufSize - at)
         IN  (IF i <= first THEN at + i - 1 ELSE i - first - 1) = Ahead(at, i - 1)
<1> DEFINE first == Lesser(n, m_bufSize - at)
           to == Ahead(at, i - 1)
<1>1. /\ at \in Int /\ 0 <= at /\ at <= capacity /\ capacity \in Int /\ m_bufSize = capacity + 1
      /\ n \in Int /\ n <= capacity /\ i \in Int /\ 1 <= i /\ i <= n
  BY RingSize
<1>2. i - 1 \in 0..m_bufSize
  BY <1>1
<1>3. to = IF at + (i - 1) <= capacity THEN at + (i - 1) ELSE at + (i - 1) - m_bufSize
  BY <1>2, AheadIs
<1>4. first = IF n < m_bufSize - at THEN n ELSE m_bufSize - at
  BY DEF Lesser
<1> HIDE DEF to, first
<1>5. (IF i <= first THEN at + i - 1 ELSE i - first - 1) = to
  BY <1>1, <1>3, <1>4
<1> QED
  BY <1>5 DEF first, to

(* take_move hands out what is in these slots, and moves it out of them. *)
LEMMA TakeMoves ==
  ASSUME Typed, take_move
  PROVE  LET at == consumer.at
             n  == consumer.n
         IN  /\ consumer.pc = "move"
             /\ consumer'.got = [i \in 1..n |-> m_buffer[Ahead(at, i - 1)]]
             /\ consumer' = [consumer EXCEPT !.pc = "store", !.got = consumer'.got]
             /\ \A s \in Slots : m_buffer'[s] = IF \E i \in 1..n : Ahead(at, i - 1) = s THEN Nothing
                                                ELSE m_buffer[s]
             /\ m_buffer' \in [Slots -> T \cup {Nothing}]
             /\ \A i \in 1..n : Ahead(at, i - 1) \in Slots
<1> DEFINE at == consumer.at
           n == consumer.n
           first == Lesser(n, m_bufSize - at)
           slot(i) == IF i <= first THEN at + i - 1 ELSE i - first - 1
<1>1. /\ at \in Slots /\ n \in 0..capacity /\ m_buffer \in [Slots -> T \cup {Nothing}]
      /\ consumer \in ConsumerCalls
  BY DEF Typed, Shapes, ConsumerCalls
<1>2. \A i \in 1..n : slot(i) = Ahead(at, i - 1)
  BY <1>1, TakenSlots
<1>3. \A i \in 1..n : Ahead(at, i - 1) \in Slots
  <2> TAKE i \in 1..n
  <2>1. i - 1 \in 0..m_bufSize
    BY <1>1, RingSize
  <2> QED
    BY <1>1, <2>1, AheadIs
<1>4. /\ consumer.pc = "move"
      /\ consumer' = [consumer EXCEPT !.pc = "store", !.got = [i \in 1..n |-> m_buffer[slot(i)]]]
      /\ m_buffer' = [s \in Slots |-> IF \E i \in 1..n : slot(i) = s THEN Nothing ELSE m_buffer[s]]
  BY DEF take_move
<1> HIDE DEF slot, n, at
<1>5. consumer' = [consumer EXCEPT !.pc = "store", !.got = [i \in 1..n |-> m_buffer[Ahead(at, i - 1)]]]
  BY <1>2, <1>4
<1>6. consumer'.got = [i \in 1..n |-> m_buffer[Ahead(at, i - 1)]]
  BY <1>1, <1>5 DEF ConsumerCalls
<1>7. \A s \in Slots : m_buffer'[s] = IF \E i \in 1..n : Ahead(at, i - 1) = s THEN Nothing
                                      ELSE m_buffer[s]
  BY <1>2, <1>4
<1>8. m_buffer' \in [Slots -> T \cup {Nothing}]
  BY <1>1, <1>4
<1> QED
  BY <1>3, <1>4, <1>5, <1>6, <1>7, <1>8 DEF n, at

(* A release keeps the types. *)
LEMMA ReleaseTypes ==
  ASSUME Typed, NEW to \in Slots, Release(to)
  PROVE  m_outPos' \in Slots /\ m_buffer' \in [Slots -> T \cup {Nothing}]
BY DEF Typed, Shapes, Release

(* Every step of a consumer's call keeps the types. *)
LEMMA ConsumeTypes ==
  ASSUME Typed, consume, UNCHANGED <<class, m_pushMtx>>
  PROVE  Typed'
<1>0. /\ m_inPos \in Slots /\ m_outPos \in Slots /\ m_buffer \in [Slots -> T \cup {Nothing}]
      /\ before \in Seq(T \cup {Nothing}) /\ consumer \in ConsumerCalls
  BY DEF Typed, Shapes
<1>1. /\ consumer.at \in Slots /\ consumer.until \in Slots /\ consumer.keepAt \in Slots
      /\ consumer.n \in 0..capacity /\ consumer.got \in Seq(T \cup {Nothing})
  BY <1>0 DEF ConsumerCalls
<1>2. /\ Ahead(consumer.at, consumer.n) \in Slots
      /\ Previous(consumer.at) \in Slots /\ Previous(consumer.keepAt) \in Slots
  <2>1. consumer.n \in 0..m_bufSize /\ m_bufSize - 1 \in 0..m_bufSize
    BY <1>1, RingSize
  <2>2. \A pos \in Slots : Previous(pos) = Ahead(pos, m_bufSize - 1)
    <3> TAKE pos \in Slots
    <3>1. pos + m_bufSize - 1 = pos + (m_bufSize - 1)
      BY RingSize
    <3> QED
      BY <3>1 DEF Previous, Ahead
  <2> QED
    BY <1>1, <2>1, <2>2, AheadIs
<1>3. CASE take_move
  <2> DEFINE got == [i \in 1..consumer.n |-> m_buffer[Ahead(consumer.at, i - 1)]]
  <2>1. got \in [1..consumer.n -> T \cup {Nothing}]
    BY <1>0, <1>3, TakeMoves
  <2> HIDE DEF got
  <2>6. consumer.n \in Nat
    BY <1>1
  <2>2. got \in Seq(T \cup {Nothing})
    BY <2>1, <2>6, FunctionIsSeq
  <2> USE DEF got
  <2>3. consumer' = [consumer EXCEPT !.pc = "store", !.got = got]
    BY <1>3, TakeMoves
  <2> HIDE DEF got
  <2>4. consumer' \in ConsumerCalls
    BY <1>0, <2>2, <2>3 DEF ConsumerCalls
  <2>5. m_buffer' \in [Slots -> T \cup {Nothing}]
    BY <1>3, TakeMoves
  <2> QED
    BY <1>0, <1>3, <2>4, <2>5, ConsumerTypes DEF take_move
<1>4. CASE take_store
  <2>1. m_outPos' = Ahead(consumer.at, consumer.n)
    BY <1>4 DEF take_store, Ahead
  <2>2. consumer' \in ConsumerCalls
    <3>1. consumer' = idleConsumer
          \/ consumer' = [consumer EXCEPT !.pc = "move", !.at = Ahead(consumer.at, consumer.n), !.got = <<>>]
      BY <1>4 DEF take_store, Ahead
    <3> QED
      BY <1>0, <1>2, <3>1, IdleTypes DEF ConsumerCalls
  <2> QED
    BY <1>0, <1>2, <1>4, <2>1, <2>2, ConsumerTypes DEF take_store
<1>5. CASE flush_store
  BY <1>0, <1>1, <1>5, IdleTypes, ReleaseTypes, ConsumerTypes
     DEF flush_store, ConsumerReturns
<1>6. ASSUME NEW keep \in BOOLEAN, for_each_rev_requeue_call(keep) PROVE Typed'
  <2> DEFINE pos == Previous(consumer.at)
             to  == IF keep THEN Previous(consumer.keepAt) ELSE consumer.keepAt
             val == m_buffer[pos]
             got == IF keep THEN <<val>> \o consumer.got ELSE consumer.got
             pc  == IF pos = consumer.until THEN "revstore" ELSE "rev"
  <2>1. pos \in Slots /\ to \in Slots /\ val \in T \cup {Nothing} /\ pc \in Revs
    BY <1>0, <1>1, <1>2 DEF Revs
  <2>2. got \in Seq(T \cup {Nothing})
    <3> HIDE DEF val
    <3>1. <<val>> \in Seq(T \cup {Nothing})
      BY <2>1
    <3>2. \A S : \A r, q \in Seq(S) : r \o q \in Seq(S)
      OBVIOUS
    <3>3. <<val>> \o consumer.got \in Seq(T \cup {Nothing})
      BY <1>1, <3>1, <3>2
    <3> QED
      BY <1>1, <3>3
  <2>3. m_buffer' = IF keep /\ to # pos THEN [m_buffer EXCEPT ![to] = val, ![pos] = Nothing]
                    ELSE m_buffer
    BY <1>6 DEF for_each_rev_requeue_call
  <2>4. consumer' = [consumer EXCEPT !.at = pos, !.keepAt = to, !.got = got, !.pc = pc]
    BY <1>0, <1>6 DEF for_each_rev_requeue_call, ConsumerCalls
  <2> HIDE DEF pos, to, val, got, pc
  <2>5. consumer' \in ConsumerCalls
    BY <1>0, <2>1, <2>2, <2>4 DEF ConsumerCalls
  <2>6. m_buffer' \in [Slots -> T \cup {Nothing}]
    BY <1>0, <2>1, <2>3
  <2>7. UNCHANGED <<m_inPos, m_outPos, producer, before>>
    BY <1>6 DEF for_each_rev_requeue_call
  <2> QED
    BY <1>0, <2>5, <2>6, <2>7, ConsumerTypes
<1>7. CASE for_each_rev_requeue_store
  <2>1. <<>> \in Seq(T \cup {Nothing})
    OBVIOUS
  <2> QED
    BY <1>0, <1>1, <1>7, <2>1, IdleTypes, ReleaseTypes, ConsumerTypes
    DEF for_each_rev_requeue_store, ConsumerReturns
<1> QED
  BY <1>3, <1>4, <1>5, <1>6, <1>7 DEF consume

(* The same of for_each_requeue. *)
LEMMA RequeueTypes ==
  ASSUME Typed, \/ \E keep \in BOOLEAN : for_each_requeue_call(keep)
                \/ for_each_requeue_keep \/ for_each_requeue_store
  PROVE  Typed'
<1>0. /\ m_inPos \in Slots /\ m_outPos \in Slots /\ m_buffer \in [Slots -> T \cup {Nothing}]
      /\ before \in Seq(T \cup {Nothing}) /\ consumer \in ConsumerCalls
  BY DEF Typed, Shapes
<1>1. /\ consumer.at \in Slots /\ consumer.until \in Slots
      /\ Ahead(consumer.at, 1) \in Slots /\ Ahead(m_inPos, 1) \in Slots
  <2>1. consumer.at \in Slots /\ consumer.until \in Slots
    BY <1>0 DEF ConsumerCalls
  <2>2. 1 \in 0..m_bufSize
    BY RingSize
  <2> QED
    BY <1>0, <2>1, <2>2, AheadIs
<1>2. ASSUME NEW keep \in BOOLEAN, for_each_requeue_call(keep) PROVE Typed'
  <2>1. <<m_buffer[consumer.at]>> \in Seq(T \cup {Nothing})
    BY <1>0, <1>1
  <2> DEFINE got == <<m_buffer[consumer.at]>>
  <2>2. \/ consumer' = [consumer EXCEPT !.pc = "lock"]
        \/ consumer' = [consumer EXCEPT !.pc = "dropped", !.got = got]
    BY <1>2 DEF for_each_requeue_call
  <2> HIDE DEF got
  <2>3. consumer' \in ConsumerCalls
    BY <1>0, <2>1, <2>2 DEF ConsumerCalls, Requeues, got
  <2> QED
    BY <1>0, <1>2, <2>3, ConsumerTypes DEF for_each_requeue_call
<1>3. CASE for_each_requeue_keep
  <2>1. consumer' \in ConsumerCalls
    BY <1>0, <1>3 DEF for_each_requeue_keep, ConsumerCalls, Requeues
  <2>2. m_buffer' \in [Slots -> T \cup {Nothing}]
    BY <1>0, <1>1, <1>3 DEF for_each_requeue_keep
  <2>3. m_inPos' \in Slots
    BY <1>1, <1>3 DEF for_each_requeue_keep, Ahead
  <2> QED
    BY <1>0, <1>3, <2>1, <2>2, <2>3, ConsumerTypes DEF for_each_requeue_keep
<1>4. CASE for_each_requeue_store
  <2> DEFINE next == Ahead(consumer.at, 1)
  <2>1. /\ Release(next)
        /\ \/ consumer' = idleConsumer
           \/ consumer' = [consumer EXCEPT !.pc = "ask", !.at = next, !.got = <<>>]
    BY <1>4 DEF for_each_requeue_store, Ahead
  <2>2. m_outPos' \in Slots /\ m_buffer' \in [Slots -> T \cup {Nothing}]
    BY <1>1, <2>1, ReleaseTypes
  <2>3. consumer' \in ConsumerCalls
    BY <1>0, <1>1, <2>1, IdleTypes DEF ConsumerCalls, Requeues
  <2> QED
    BY <1>0, <1>4, <2>2, <2>3, ConsumerTypes DEF for_each_requeue_store
<1> QED
  BY <1>2, <1>3, <1>4

(* Every step keeps the types, whether the queue has been overrun or not. *)
LEMMA NextTyped == Typed /\ [Next]_vars => Typed'
<1> SUFFICES ASSUME Typed, [Next]_vars PROVE Typed'
  OBVIOUS
<1>1. CASE \E p \in Producers : ProducerStep(p) \/ Estimate(p)
  BY <1>1, ProducerStepTypes
<1>2. CASE ConsumerStep
  BY <1>2, CallTypes, ConsumeTypes, RequeueTypes
  DEF ConsumerStep, ConsumerWork, for_each_requeue_load
<1>3. CASE UNCHANGED vars
  BY <1>3 DEF vars, queueVars, Typed, Shapes, Blocks
<1> QED
  BY <1>1, <1>2, <1>3 DEF Next

(* Every position and every call keeps to its range: whatever the threads do,   *)
(* no access of circular_queue.h leaves the buffer.                            *)
THEOREM TypeCorrect == Spec => []TypeOK
<1>1. Typed /\ overrun \in BOOLEAN => TypeOK
  BY DEF Typed, Shapes, Blocks, TypeOK, ProducerCalls, ConsumerCalls
<1>2. Init => overrun \in BOOLEAN
  BY DEF Init
<1>3. overrun \in BOOLEAN /\ [Next]_vars => (overrun \in BOOLEAN)'
  BY DEF Next, ProducerStep, Estimate, ConsumerStep, ConsumerWork, for_each_requeue_load,
         for_each_requeue_call, for_each_requeue_keep, for_each_requeue_store, vars
<1> QED
  BY <1>1, <1>2, <1>3, InitTyped, NextTyped, PTL DEF Spec

-----------------------------------------------------------------------------
(* What the threads rely on until the queue is overrun.                        *)

(* The mutex, or the single producer, keeps the producers' calls apart.        *)
Apart ==
  /\ \A p \in Producers : ProducerAt(p, "idle") => producer[p] = idleProducer
  /\ isShared => \A p \in Producers : /\ ~ProducerAt(p, "idle") <=> m_pushMtx = p
                                      /\ ~ProducerAt(p, "available")
  /\ ~isShared => /\ m_pushMtx = NoOne
                  /\ \A p \in Producers : ~ProducerAt(p, "idle") => isSole(p)
                  /\ consumer.pc \notin Requeues

(* The slots in use: an element that for_each_requeue has put back and not yet  *)
(* released takes up two.                                                      *)
inQueue == IF consumer.pc = "release" THEN 1 + Available(m_inPos, m_outPos + 1)
           ELSE Available(m_inPos, m_outPos)

Room == capacity - inQueue

(* A producer has the m_inPos that it loaded to itself, and the slots from      *)
(* there as far as it found them free: the consumer only makes more room.      *)
ProducerInv(p) ==
  LET c == producer[p] IN
  /\ c.pc \in {"test", "write", "store"} => c.at = m_inPos
  /\ c.pc = "test" /\ c.how = "pushpeek" => ~isShared /\ m_buffer[m_inPos] = c.es[1]
  /\ c.pc \in {"write", "store"} => c.first + c.second <= Room
  /\ c.pc = "store" =>
       \A j \in 0..((c.first + c.second) - 1) : m_buffer[Ahead(m_inPos, j)] = c.es[j + 1]
  /\ c.pc = "available" =>
       ~isShared /\ c.es = <<>> /\ Available(m_outPos, c.at) + inQueue <= capacity

(* The consumer has the elements that it found: producers only add more.       *)
ToGo == Available(consumer.until, m_outPos)

TakeInv ==
  consumer.pc \in {"move", "store"} =>
    /\ consumer.at = m_outPos /\ 0 < consumer.n /\ consumer.n <= ToGo /\ ToGo <= inQueue
    /\ consumer.n = 1 \/ consumer.n = ToGo
    /\ consumer.pc = "store" => Len(consumer.got) = consumer.n

FlushInv == consumer.pc = "flush" => ToGo <= inQueue

RequeueInv ==
  consumer.pc \in Requeues =>
    /\ consumer.at = m_outPos /\ 0 < ToGo
    /\ ToGo <= IF consumer.pc = "release" THEN inQueue - 1 ELSE inQueue
    /\ consumer.pc = "dropped" => consumer.got = <<m_buffer[m_outPos]>>

(* for_each_rev_requeue: the elements before `at' are where they were, the ones *)
(* to keep lie up against the newest one, and are some of those behind `at'.   *)
Unseen == Available(consumer.at, m_outPos)
KeptAt == Available(consumer.keepAt, m_outPos)
Kept   == Len(consumer.got)

Increasing(places) == \A i, j \in DOMAIN places : i < j => places[i] < places[j]

Chosen ==
  \E places \in [1..Kept -> (Unseen + 1)..Len(before)] :
    Increasing(places) /\ \A j \in 1..Kept : consumer.got[j] = before[places[j]]

RevInv ==
  consumer.pc \in Revs =>
    /\ consumer.until = m_outPos
    /\ consumer.pc = "revstore" <=> Unseen = 0
    /\ Len(before) <= inQueue
    /\ Unseen <= KeptAt /\ KeptAt + Kept = Len(before)
    /\ \A j \in 0..(Unseen - 1) : m_buffer[Ahead(m_outPos, j)] = before[j + 1]
    /\ \A j \in 1..Kept : m_buffer[Ahead(m_outPos, KeptAt + (j - 1))] = consumer.got[j]
    /\ Chosen

ConsumerInv == TakeInv /\ FlushInv /\ RequeueInv /\ RevInv

QInv == Typed /\ Apart /\ (\A p \in Producers : ProducerInv(p)) /\ ConsumerInv

(* inQueue says how far m_inPos is ahead of m_outPos, and is the whole ring only *)
(* while for_each_requeue has put back an element of a full queue.             *)
LEMMA InQueueIs ==
  Typed => /\ inQueue \in 0..m_bufSize /\ m_inPos = Ahead(m_outPos, inQueue)
           /\ consumer.pc # "release" => inQueue = Available(m_inPos, m_outPos) /\ inQueue <= capacity
           /\ consumer.pc = "release" => inQueue > 0
<1> SUFFICES ASSUME Typed
             PROVE  /\ inQueue \in 0..m_bufSize /\ m_inPos = Ahead(m_outPos, inQueue)
                    /\ consumer.pc # "release" =>
                         inQueue = Available(m_inPos, m_outPos) /\ inQueue <= capacity
                    /\ consumer.pc = "release" => inQueue > 0
  OBVIOUS
<1>1. m_inPos \in Slots /\ m_outPos \in Slots /\ m_outPos \in 0..m_bufSize
  BY RingSize DEF Typed, Shapes
<1>2. CASE consumer.pc # "release"
  <2>1. inQueue = Available(m_inPos, m_outPos)
    BY <1>2 DEF inQueue
  <2>2. Available(m_inPos, m_outPos) \in 0..capacity
    BY <1>1, AvailableIs
  <2>3. Ahead(m_outPos, inQueue) = m_inPos
    BY <1>1, <2>1, AheadAvailable
  <2>4. inQueue \in 0..capacity
    BY <2>1, <2>2
  <2>5. inQueue \in 0..m_bufSize /\ inQueue <= capacity
    BY <2>4, RingSize
  <2> QED
    BY <1>2, <2>1, <2>3, <2>5
<1>3. CASE consumer.pc = "release"
  <2> DEFINE k == Available(m_inPos, Ahead(m_outPos, 1))
  <2>1. inQueue = 1 + k
    BY <1>1, <1>3, AvailableFromNext DEF inQueue
  <2>2. 1 \in 0..m_bufSize
    BY RingSize
  <2>3. Ahead(m_outPos, 1) \in Slots /\ Ahead(m_outPos, 1) \in 0..m_bufSize
    BY <1>1, <2>2, AheadIs, RingSize
  <2>4. k \in 0..capacity
    BY <1>1, <2>3, AvailableIs
  <2>5. Ahead(Ahead(m_outPos, 1), k) = m_inPos
    BY <1>1, <2>3, AheadAvailable
  <2> HIDE DEF k
  <2>6. k \in Nat /\ 1 \in Nat /\ 1 + k <= m_bufSize /\ 1 + k \in 0..m_bufSize /\ 1 + k > 0
    BY <2>4, RingSize
  <2>7. Ahead(Ahead(m_outPos, 1), k) = Ahead(m_outPos, 1 + k)
    BY <1>1, <2>6, AheadAgain
  <2> QED
    BY <1>3, <2>1, <2>5, <2>6, <2>7
<1> QED
  BY <1>2, <1>3

(* And the other way round. *)
HowFarAhead ==
  \A k \in Int :
    /\ m_inPos = Ahead(m_outPos, k)
    /\ IF consumer.pc = "release" THEN 1 <= k /\ k <= m_bufSize ELSE 0 <= k /\ k <= capacity
    => inQueue = k

(* It is so in every state. *)
LEMMA InQueueFrom == Typed => HowFarAhead
<1> SUFFICES ASSUME Typed, NEW k \in Int, m_inPos = Ahead(m_outPos, k),
                    IF consumer.pc = "release" THEN 1 <= k /\ k <= m_bufSize
                    ELSE 0 <= k /\ k <= capacity
             PROVE  inQueue = k
  BY DEF HowFarAhead
<1>1. m_inPos \in Slots /\ m_outPos \in Slots
  BY DEF Typed, Shapes
<1>2. CASE consumer.pc # "release"
  <2>1. k \in 0..capacity
    BY <1>2, RingSize
  <2> QED
    BY <1>1, <1>2, <2>1, AvailableAhead DEF inQueue
<1>3. CASE consumer.pc = "release"
  <2> DEFINE j == k - 1
  <2>1. /\ j \in 0..capacity /\ j \in Nat /\ 1 \in Nat /\ 1 + j = k /\ 1 + j <= m_bufSize
        /\ 1 \in 0..m_bufSize /\ 1 + j = k
    BY <1>3, RingSize
  <2> HIDE DEF j
  <2>2. Ahead(m_outPos, 1) \in Slots
    BY <1>1, <2>1, AheadIs
  <2>3. Ahead(Ahead(m_outPos, 1), j) = m_inPos
    BY <1>1, <2>1, AheadAgain
  <2>4. Available(m_inPos, Ahead(m_outPos, 1)) = j
    BY <2>1, <2>2, <2>3, AvailableAhead
  <2>5. inQueue = 1 + j
    BY <1>1, <1>3, <2>4, AvailableFromNext DEF inQueue
  <2> QED
    BY <2>1, <2>5
<1> QED
  BY <1>2, <1>3

(* The producers' slots are behind those of the queue. *)
LEMMA BehindQueue ==
  Typed => \A j \in Nat : inQueue + j <= m_bufSize =>
             Ahead(m_inPos, j) = Ahead(m_outPos, inQueue + j)
<1> SUFFICES ASSUME Typed, NEW j \in Nat, inQueue + j <= m_bufSize
             PROVE  Ahead(m_inPos, j) = Ahead(m_outPos, inQueue + j)
  OBVIOUS
<1>1. m_outPos \in Slots /\ inQueue \in 0..m_bufSize /\ m_inPos = Ahead(m_outPos, inQueue)
  BY InQueueIs DEF Typed, Shapes
<1>2. inQueue \in Nat
  BY <1>1, RingSize
<1>3. Ahead(Ahead(m_outPos, inQueue), j) = Ahead(m_outPos, inQueue + j)
  BY <1>1, <1>2, AheadAgain
<1> QED
  BY <1>1, <1>3

-----------------------------------------------------------------------------
(* The producers. *)

(* Whatever a producer does, the consumer keeps what it relies on, as long as   *)
(* the queue does not shrink and its slots are left alone.                     *)
LEMMA ProducerFrame ==
  ASSUME Typed, ConsumerInv, UNCHANGED <<m_outPos, consumer, before>>,
         inQueue' \in Int, inQueue <= inQueue',
         \A k \in 0..(inQueue - 1) : m_buffer'[Ahead(m_outPos, k)] = m_buffer[Ahead(m_outPos, k)]
  PROVE  ConsumerInv'
<1>0. /\ m_outPos \in Slots /\ m_outPos \in 0..m_bufSize /\ consumer.until \in Slots
      /\ consumer.at \in Slots /\ consumer.keepAt \in Slots
      /\ inQueue \in Int /\ 0 <= inQueue /\ Kept \in Nat /\ before \in Seq(T \cup {Nothing})
  BY InQueueIs, RingSize DEF Typed, Shapes, ConsumerCalls, Kept
<1>1. ToGo \in 0..capacity /\ ToGo' = ToGo
  BY <1>0, AvailableIs DEF ToGo, Available
<1>2. TakeInv'
  BY <1>0, <1>1 DEF ConsumerInv, TakeInv
<1>3. FlushInv'
  BY <1>0, <1>1 DEF ConsumerInv, FlushInv
<1>4. RequeueInv'
  <2>1. CASE consumer.pc \in Requeues
    <3>1. /\ consumer.at = m_outPos /\ 0 < ToGo
          /\ ToGo <= IF consumer.pc = "release" THEN inQueue - 1 ELSE inQueue
          /\ consumer.pc = "dropped" => consumer.got = <<m_buffer[m_outPos]>>
      BY <2>1 DEF ConsumerInv, RequeueInv
    <3>2. 0 \in 0..m_bufSize /\ 0 \in 0..(inQueue - 1)
      BY <1>0, <1>1, <3>1, RingSize
    <3>3. Ahead(m_outPos, 0) = m_outPos
      BY <1>0, AheadRound
    <3>4. m_buffer'[m_outPos] = m_buffer[m_outPos]
      BY <3>2, <3>3
    <3>5. ToGo <= IF consumer.pc = "release" THEN inQueue' - 1 ELSE inQueue'
      <4>1. ToGo \in Int
        BY <1>1, RingSize
      <4>2. \A g, a, b \in Int : a <= b =>
              (g <= a => g <= b) /\ (g <= a - 1 => g <= b - 1)
        OBVIOUS
      <4> QED
        BY <1>0, <3>1, <4>1, <4>2
    <3> QED
      BY <1>1, <3>1, <3>4, <3>5 DEF RequeueInv
  <2>2. CASE consumer.pc \notin Requeues
    BY <2>2 DEF RequeueInv
  <2> QED
    BY <2>1, <2>2
<1>5. RevInv'
  <2>1. CASE consumer.pc \in Revs
    <3>1. Unseen' = Unseen /\ KeptAt' = KeptAt /\ Kept' = Kept
      BY DEF Unseen, KeptAt, Kept, Available
    <3>2. Unseen \in 0..capacity /\ KeptAt \in 0..capacity
      BY <1>0, AvailableIs DEF Unseen, KeptAt
    <3>3. /\ Len(before) <= inQueue /\ Unseen <= KeptAt /\ KeptAt + Kept = Len(before)
          /\ \A j \in 0..(Unseen - 1) : m_buffer[Ahead(m_outPos, j)] = before[j + 1]
          /\ \A j \in 1..Kept : m_buffer[Ahead(m_outPos, KeptAt + (j - 1))] = consumer.got[j]
      BY <2>1 DEF ConsumerInv, RevInv
    <3>4. Len(before) \in Nat
      BY <1>0
    <3>5. ASSUME NEW j \in 0..(Unseen - 1)
          PROVE  m_buffer'[Ahead(m_outPos, j)] = before[j + 1]
      <4>1. j \in 0..(inQueue - 1)
        BY <1>0, <3>2, <3>3, <3>4
      <4> QED
        BY <3>3, <4>1
    <3>6. ASSUME NEW j \in 1..Kept
          PROVE  m_buffer'[Ahead(m_outPos, KeptAt + (j - 1))] = consumer.got[j]
      <4>1. KeptAt + (j - 1) \in 0..(inQueue - 1)
        BY <1>0, <3>2, <3>3, <3>4
      <4> QED
        BY <3>3, <4>1
    <3>7. Len(before) <= inQueue'
      BY <1>0, <3>3, <3>4
    <3>8. consumer.until = m_outPos /\ (consumer.pc = "revstore" <=> Unseen = 0) /\ Chosen
      BY <2>1 DEF ConsumerInv, RevInv
    <3>9. Chosen'
      BY <3>1, <3>8 DEF Chosen
    <3> HIDE DEF Chosen, Unseen, KeptAt, Kept
    <3>10. /\ consumer'.until = m_outPos' /\ (consumer'.pc = "revstore" <=> Unseen' = 0)
           /\ Len(before') <= inQueue' /\ Unseen' <= KeptAt' /\ KeptAt' + Kept' = Len(before')
      BY <3>1, <3>3, <3>7, <3>8
    <3>11. \A j \in 0..(Unseen' - 1) : m_buffer'[Ahead(m_outPos', j)] = before'[j + 1]
      BY <3>1, <3>5
    <3>12. \A j \in 1..Kept' : m_buffer'[Ahead(m_outPos', KeptAt' + (j - 1))] = consumer'.got[j]
      BY <3>1, <3>6
    <3> QED
      BY <3>9, <3>10, <3>11, <3>12 DEF RevInv
  <2>2. CASE consumer.pc \notin Revs
    BY <2>2 DEF RevInv
  <2> QED
    BY <2>1, <2>2
<1> QED
  BY <1>2, <1>3, <1>4, <1>5 DEF ConsumerInv

(* What a producer's step leaves alone. *)
LEMMA ProducerChanges ==
  ASSUME Typed, NEW p \in Producers, ProducerStep(p) \/ Estimate(p)
  PROVE  /\ producer' = [producer EXCEPT ![p] = producer'[p]]
         /\ \A q \in Producers : q # p => producer'[q] = producer[q]
         /\ ProducerAt(p, "idle")' => producer'[p] = idleProducer
         /\ ProducerAt(p, "available")' => available_load(p)
         /\ ProducerAt(p, "idle") => \/ start(p) \/ pushpeek(p) \/ available_load(p)
         /\ UNCHANGED <<m_outPos, consumer, before, class>>
<1>0. producer \in [Producers -> ProducerCalls]
  BY DEF Typed, Shapes
<1> DEFINE Good == /\ producer' = [producer EXCEPT ![p] = producer'[p]]
                   /\ producer'[p].pc = "idle" => producer'[p] = idleProducer
                   /\ producer'[p].pc = "available" => available_load(p)
                   /\ producer[p].pc = "idle" => start(p) \/ pushpeek(p) \/ available_load(p)
                   /\ UNCHANGED <<m_outPos, consumer, before>>
<1>1. ASSUME NEW d, producer' = [producer EXCEPT ![p] = d]
      PROVE  producer'[p] = d /\ producer' = [producer EXCEPT ![p] = producer'[p]]
  BY <1>0, <1>1
<1>2. ASSUME NEW how, NEW es, Offer(p, how, es)
      PROVE  /\ producer' = [producer EXCEPT ![p] = producer'[p]] /\ producer'[p].pc = "test"
             /\ UNCHANGED <<m_outPos, consumer, before>>
  <2> DEFINE d == [idleProducer EXCEPT !.pc = "test", !.how = how, !.at = m_inPos, !.es = es]
  <2>1. d.pc = "test"
    BY DEF idleProducer
  <2>2. producer' = [producer EXCEPT ![p] = d] /\ UNCHANGED <<m_outPos, consumer, before>>
    BY <1>2 DEF Offer
  <2> HIDE DEF d
  <2> QED
    BY <1>1, <2>1, <2>2
<1>3. ASSUME start(p) \/ pushpeek(p) PROVE Good
  <2>1. \E how, es : Offer(p, how, es)
    BY <1>3 DEF start, push_load, push_n_load, pushpeek
  <2> QED
    BY <1>2, <1>3, <2>1
<1>4. ASSUME push_test(p) PROVE Good
  <2> DEFINE c == producer[p]
             n == Len(c.es)
             first  == IF c.how = "push_n" THEN firstBlock(c.at, m_outPos, n)
                       ELSE IF isFull(c.at, m_outPos) THEN 0 ELSE 1
             second == IF c.how = "push_n" THEN secondBlock(c.at, m_outPos, n) ELSE 0
             pc == IF c.how = "pushpeek" THEN "store" ELSE "write"
             d == [c EXCEPT !.pc = pc, !.first = first, !.second = second]
             e == IF first = 0 THEN idleProducer ELSE d
  <2>1. producer' = [producer EXCEPT ![p] = e]
    BY <1>0, <1>4 DEF push_test, ProducerReturns
  <2>2. c.pc = "test" /\ UNCHANGED <<m_outPos, consumer, before>>
    BY <1>4 DEF push_test, ProducerAt
  <2>3. pc \in {"store", "write"}
    OBVIOUS
  <2> HIDE DEF first, second, pc
  <2>4. d.pc = pc
    BY <1>0 DEF ProducerCalls
  <2> HIDE DEF d
  <2>5. e = idleProducer \/ e.pc = pc
    BY <2>4
  <2> HIDE DEF e
  <2> QED
    <3>1. producer'[p] = e /\ producer' = [producer EXCEPT ![p] = producer'[p]]
      BY <1>1, <2>1
    <3>2. idleProducer.pc = "idle"
      BY DEF idleProducer
    <3> QED
      BY <2>2, <2>3, <2>5, <3>1, <3>2
<1>5. ASSUME push_write(p) PROVE Good
  <2> DEFINE d == [producer[p] EXCEPT !.pc = "store"]
  <2>1. d.pc = "store"
    BY <1>0 DEF ProducerCalls
  <2>2. /\ producer' = [producer EXCEPT ![p] = d] /\ UNCHANGED <<m_outPos, consumer, before>>
        /\ producer[p].pc = "write"
    BY <1>0, <1>5 DEF push_write, ProducerAt
  <2> HIDE DEF d
  <2> QED
    BY <1>1, <2>1, <2>2
<1>6. ASSUME push_store(p) \/ available_return(p) PROVE Good
  <2>1. /\ producer' = [producer EXCEPT ![p] = idleProducer]
        /\ UNCHANGED <<m_outPos, consumer, before>>
        /\ producer[p].pc # "idle"
    BY <1>6 DEF push_store, available_return, ProducerReturns, ProducerAt
  <2>2. idleProducer.pc = "idle"
    BY DEF idleProducer
  <2> QED
    BY <1>1, <2>1, <2>2
<1>7. ASSUME available_load(p) PROVE Good
  <2> DEFINE d == [producer[p] EXCEPT !.pc = "available", !.at = m_outPos]
  <2>1. d.pc = "available"
    BY <1>0 DEF ProducerCalls
  <2>2. producer' = [producer EXCEPT ![p] = d] /\ UNCHANGED <<m_outPos, consumer, before>>
    BY <1>0, <1>7 DEF available_load
  <2> HIDE DEF d
  <2> QED
    BY <1>1, <1>7, <2>1, <2>2
<1>8. Good
  BY <1>3, <1>4, <1>5, <1>6, <1>7 DEF ProducerStep, Estimate, locked
<1>9. \A q \in Producers : q # p => producer'[q] = producer[q]
  BY <1>0, <1>8
<1>10. class' = class
  BY DEF ProducerStep, Estimate
<1> QED
  BY <1>8, <1>9, <1>10 DEF ProducerAt

(* While one producer is at work the others are not. *)
LEMMA OneAtWork ==
  ASSUME Typed, Apart, NEW p \in Producers, ProducerStep(p) \/ Estimate(p)
  PROVE  \A q \in Producers : q # p => producer[q] = idleProducer
<1> SUFFICES ASSUME NEW q \in Producers, q # p PROVE ProducerAt(q, "idle")
  BY DEF Apart
<1>1. CASE isShared
  <2>1. locked(p)
    BY <1>1 DEF ProducerStep, Estimate
  <2>2. m_pushMtx = NoOne \/ ~ProducerAt(p, "idle")
    BY <2>1 DEF locked, push_test, push_write, push_store, ProducerAt
  <2>3. m_pushMtx # q
    BY <1>1, <2>2, NoOneAssumption DEF Apart
  <2> QED
    BY <1>1, <2>3 DEF Apart
<1>2. CASE ~isShared
  <2>1. isSole(p)
    BY <1>2 DEF ProducerStep, Estimate
  <2> QED
    BY <1>2, <2>1 DEF Apart, isSole
<1> QED
  BY <1>1, <1>2

(* A producer's step keeps the calls apart. *)
LEMMA ProducerApart ==
  ASSUME Typed, Apart, NEW p \in Producers, ProducerStep(p) \/ Estimate(p)
  PROVE  Apart'
<1>1. /\ \A q \in Producers : q # p => producer'[q] = idleProducer
      /\ ProducerAt(p, "idle")' => producer'[p] = idleProducer
      /\ UNCHANGED <<consumer, class>>
  BY OneAtWork, ProducerChanges
<1>2. \A q \in Producers : q # p => ProducerAt(q, "idle")' /\ ~ProducerAt(q, "available")'
  BY <1>1 DEF ProducerAt, idleProducer
<1>3. isShared' = isShared
  BY <1>1 DEF isShared
<1>4. CASE isShared
  <2>1. locked(p)
    BY <1>4 DEF ProducerStep, Estimate
  <2>2. \/ start(p) /\ m_pushMtx' = p
        \/ m_pushMtx' = IF producer'[p].pc = "idle" THEN NoOne ELSE p
    BY <2>1 DEF locked
  <2>3. start(p) => ~ProducerAt(p, "idle")'
    BY DEF start, push_load, push_n_load, Offer, ProducerAt, idleProducer, Typed, Shapes
  <2>4. ~ProducerAt(p, "idle")' <=> m_pushMtx' = p
    BY <2>2, <2>3, NoOneAssumption DEF ProducerAt
  <2>5. \A q \in Producers : q # p => m_pushMtx' # q
    BY <2>2, NoOneAssumption
  <2>6. ~ProducerAt(p, "available")'
    <3>1. start(p) \/ push_test(p) \/ push_write(p) \/ push_store(p)
      BY <2>1 DEF locked
    <3>2. ~ProducerAt(p, "available")
      BY <1>4 DEF Apart
    <3>3. ~available_load(p) \/ m_pushMtx' = m_pushMtx
      <4>1. start(p) => producer'[p].pc = "test"
        BY DEF start, push_load, push_n_load, Offer, idleProducer, Typed, Shapes
      <4>2. available_load(p) => producer'[p].pc = "available"
        BY DEF available_load, Typed, Shapes, ProducerCalls
      <4>3. available_load(p) => ProducerAt(p, "idle")
        BY DEF available_load
      <4>4. push_test(p) \/ push_write(p) \/ push_store(p) => ~ProducerAt(p, "idle")
        BY DEF push_test, push_write, push_store, ProducerAt
      <4> QED
        BY <3>1, <4>1, <4>2, <4>3, <4>4
    <3>4. start(p) => producer'[p].pc = "test"
      BY DEF start, push_load, push_n_load, Offer, idleProducer, Typed, Shapes
    <3>5. push_test(p) \/ push_write(p) \/ push_store(p) => ~available_load(p)
      BY DEF push_test, push_write, push_store, ProducerAt, available_load
    <3> QED
      BY <3>1, <3>4, <3>5, ProducerChanges DEF ProducerAt
  <2> QED
    BY <1>1, <1>2, <1>3, <1>4, <2>4, <2>5, <2>6 DEF Apart
<1>5. CASE ~isShared
  <2>1. isSole(p) /\ m_pushMtx' = m_pushMtx
    BY <1>5 DEF ProducerStep, Estimate
  <2> QED
    BY <1>1, <1>2, <1>3, <1>5, <2>1 DEF Apart, isSole
<1> QED
  BY <1>4, <1>5

(* What is left to show of a producer's step. *)
LEMMA ProducerKeeps ==
  ASSUME QInv, NEW p \in Producers, ProducerStep(p) \/ Estimate(p),
         inQueue <= inQueue',
         \A k \in 0..(inQueue - 1) : m_buffer'[Ahead(m_outPos, k)] = m_buffer[Ahead(m_outPos, k)],
         ProducerInv(p)'
  PROVE  QInv'
<1>1. Typed'
  BY ProducerStepTypes DEF QInv
<1>2. Apart'
  BY ProducerApart DEF QInv
<1>3. inQueue' \in Int
  <2>1. (inQueue \in 0..m_bufSize)'
    BY <1>1, InQueueIs, PTL
  <2> QED
    BY <2>1, RingSize DEF m_bufSize
<1>4. ConsumerInv'
  BY <1>3, ProducerChanges, ProducerFrame DEF QInv
<1>5. ASSUME NEW q \in Producers, q # p PROVE ProducerInv(q)'
  <2>1. producer'[q].pc = "idle"
    BY <1>5, OneAtWork, ProducerChanges DEF QInv, idleProducer
  <2> QED
    BY <2>1 DEF ProducerInv
<1> QED
  BY <1>1, <1>2, <1>4, <1>5 DEF QInv

(* A step that leaves both positions alone leaves as much in the queue. *)
LEMMA SameInQueue ==
  ASSUME UNCHANGED <<m_inPos, m_outPos, consumer>>
  PROVE  inQueue' = inQueue /\ Room' = Room
BY DEF inQueue, Available, Room, m_bufSize

(* push, push_n and pushpeek begin. *)
LEMMA OfferKeeps ==
  ASSUME QInv, NEW p \in Producers, NEW how, NEW es, Offer(p, how, es), class' = class,
         ProducerStep(p),
         how = "pushpeek" => ~isShared /\ m_buffer'[m_inPos] = es[1],
         \A k \in 0..(inQueue - 1) : m_buffer'[Ahead(m_outPos, k)] = m_buffer[Ahead(m_outPos, k)]
  PROVE  QInv'
<1> DEFINE c == [idleProducer EXCEPT !.pc = "test", !.how = how, !.at = m_inPos, !.es = es]
<1>1. producer'[p] = c /\ UNCHANGED <<m_inPos, m_outPos, consumer>>
  BY DEF Offer, QInv, Typed, Shapes
<1>2. c.pc = "test" /\ c.how = how /\ c.at = m_inPos /\ c.es = es
  BY DEF idleProducer
<1> HIDE DEF c
<1>3. inQueue' = inQueue /\ Room' = Room /\ isShared' = isShared
  BY <1>1, SameInQueue DEF isShared
<1>4. ProducerInv(p)'
  BY <1>1, <1>2, <1>3 DEF ProducerInv
<1>5. inQueue \in Int
  BY InQueueIs, RingSize DEF QInv
<1>6. inQueue <= inQueue'
  BY <1>3, <1>5
<1> QED
  BY <1>4, <1>6, ProducerKeeps

(* The slot at m_inPos is not one of the queue's. *)
LEMMA NextIsFree ==
  ASSUME Typed, consumer.pc # "release", NEW k \in 0..(inQueue - 1)
  PROVE  Ahead(m_outPos, k) # m_inPos
<1>1. /\ m_outPos \in Slots /\ inQueue \in 0..m_bufSize /\ inQueue <= capacity
      /\ m_inPos = Ahead(m_outPos, inQueue)
  BY InQueueIs DEF Typed, Shapes
<1>2. k \in 0..capacity /\ inQueue \in 0..capacity /\ k # inQueue
  BY <1>1, RingSize
<1> QED
  BY <1>1, <1>2, AheadInjective

(* The calls of the producers begin. *)
LEMMA StartKeeps ==
  ASSUME QInv, NEW p \in Producers, ProducerStep(p), start(p) \/ pushpeek(p)
  PROVE  /\ QInv' /\ NoAnswer /\ UNCHANGED <<m_inPos, m_outPos, consumer, before>>
         /\ \A k \in 0..(inQueue - 1) : m_buffer'[Ahead(m_outPos, k)] = m_buffer[Ahead(m_outPos, k)]
<1> DEFINE Good == /\ QInv' /\ NoAnswer /\ UNCHANGED <<m_inPos, m_outPos, consumer, before>>
                   /\ \A k \in 0..(inQueue - 1) :
                        m_buffer'[Ahead(m_outPos, k)] = m_buffer[Ahead(m_outPos, k)]
<1>1. class' = class
  BY DEF ProducerStep
<1>3. ASSUME NEW how, NEW es, Offer(p, how, es), how # "pushpeek", m_buffer' = m_buffer
      PROVE  Good
  BY <1>1, <1>3, OfferKeeps DEF Offer
<1>4. ASSUME push_load(p) PROVE Good
  BY <1>3, <1>4 DEF push_load
<1>5. ASSUME NEW n \in 1..MaxBlock, NEW es \in [1..n -> T], push_n_load(p, es) PROVE Good
  BY <1>3, <1>5 DEF push_n_load
<1>6. ASSUME pushpeek(p), ~start(p) PROVE Good
  <2>1. PICK e \in T : Offer(p, "pushpeek", <<e>>) /\ m_buffer' = [m_buffer EXCEPT ![m_inPos] = e]
    BY <1>6 DEF pushpeek
  <2>2. ~isShared /\ consumer.pc \notin Requeues
    <3>1. ProducerAt(p, "idle")
      BY <2>1 DEF Offer
    <3>2. ~locked(p)
      BY <1>6, <3>1 DEF locked, push_test, push_write, push_store, ProducerAt
    <3> QED
      BY <3>2 DEF ProducerStep, QInv, Apart
  <2>3. consumer.pc # "release"
    BY <2>2 DEF Requeues
  <2>4. m_buffer \in [Slots -> T \cup {Nothing}] /\ m_inPos \in Slots /\ m_outPos \in Slots
    BY DEF QInv, Typed, Shapes
  <2>5. m_buffer'[m_inPos] = e /\ <<e>>[1] = e
    BY <2>1, <2>4
  <2>6. ASSUME NEW k \in 0..(inQueue - 1)
        PROVE  m_buffer'[Ahead(m_outPos, k)] = m_buffer[Ahead(m_outPos, k)]
    <3>1. Ahead(m_outPos, k) # m_inPos
      BY <2>3, NextIsFree DEF QInv
    <3>2. k \in 0..m_bufSize
      BY InQueueIs, RingSize DEF QInv
    <3>3. Ahead(m_outPos, k) \in Slots
      BY <2>4, <3>2, AheadIs
    <3> QED
      BY <2>1, <2>4, <3>1, <3>3
  <2> DEFINE es == <<e>>
  <2>7. Offer(p, "pushpeek", es) /\ m_buffer'[m_inPos] = es[1]
    BY <2>1, <2>5
  <2> HIDE DEF es
  <2> QED
    BY <1>1, <2>2, <2>6, <2>7, OfferKeeps DEF Offer
<1> QED
  BY <1>4, <1>5, <1>6 DEF start

(* The queue is the whole ring only while the consumer has lapped it. *)
LEMMA NotLapped ==
  ASSUME Typed, ~Lapped
  PROVE  inQueue \in 0..capacity
<1>1. /\ inQueue \in 0..m_bufSize /\ m_inPos = Ahead(m_outPos, inQueue) /\ m_outPos \in Slots
      /\ consumer.pc # "release" => inQueue <= capacity
  BY InQueueIs DEF Typed, Shapes
<1>2. Ahead(m_outPos, m_bufSize) = m_outPos
  BY <1>1, AheadRound
<1>3. inQueue # m_bufSize
  <2>1. CASE consumer.pc = "release"
    BY <1>1, <1>2, <2>1 DEF Lapped
  <2>2. CASE consumer.pc # "release"
    BY <1>1, <2>2, RingSize
  <2> QED
    BY <2>1, <2>2
<1> QED
  BY <1>1, <1>3, RingSize

(* While a producer writes the queue is not the whole ring, and it was not when *)
(* the producer found the room to write.                                       *)
LEMMA PushingFits ==
  ASSUME QInv, NEW p \in Producers, \/ producer[p].pc = "test" /\ ~Lapped
                                    \/ producer[p].pc \in {"write", "store"}
  PROVE  /\ inQueue = Available(m_inPos, m_outPos) /\ inQueue \in 0..capacity
         /\ m_inPos \in Slots /\ m_outPos \in Slots /\ producer[p].at = m_inPos
<1>1. /\ m_inPos \in Slots /\ m_outPos \in Slots /\ producer[p] \in ProducerCalls
      /\ Blocks(producer[p])
  BY DEF QInv, Typed, Shapes
<1>2. ProducerInv(p) /\ producer[p].at = m_inPos
  BY DEF QInv, ProducerInv
<1>3. inQueue \in 0..m_bufSize /\ m_inPos = Ahead(m_outPos, inQueue)
  BY InQueueIs DEF QInv
<1>4. inQueue \in 0..capacity
  <2>1. CASE ~Lapped
    BY <2>1, NotLapped DEF QInv
  <2>2. CASE producer[p].pc \in {"write", "store"}
    <3> DEFINE first == producer[p].first
               second == producer[p].second
    <3>1. first \in Nat /\ second \in Nat /\ first > 0 /\ first + second <= capacity - inQueue
      BY <1>1, <1>2, <2>2, RingSize DEF ProducerInv, ProducerCalls, Blocks, Room
    <3> HIDE DEF first, second
    <3> QED
      BY <1>3, <3>1, RingSize
  <2> QED
    BY <2>1, <2>2
<1>5. Available(m_inPos, m_outPos) = inQueue
  BY <1>1, <1>3, <1>4, AvailableAhead
<1> QED
  BY <1>1, <1>2, <1>4, <1>5

(* The queue is full when one more would make m_inPos equal to m_outPos. *)
LEMMA FullIs ==
  ASSUME NEW in \in Slots, NEW out \in Slots
  PROVE  isFull(in, out) <=> Available(in, out) = capacity
<1>1. 1 \in 0..m_bufSize /\ out \in 0..m_bufSize
  BY RingSize
<1> DEFINE next == Ahead(in, 1)
           avail == Available(in, out)
<1>2. next = IF in + 1 <= capacity THEN in + 1 ELSE in + 1 - m_bufSize
  BY <1>1, AheadIs
<1>3. avail = IF out <= in THEN in - out ELSE in - out + m_bufSize
  BY <1>1, AvailableIs
<1> HIDE DEF next, avail
<1>4. next = out <=> avail = capacity
  BY <1>2, <1>3, RingSize
<1> QED
  BY <1>4 DEF isFull, Ahead, next, avail

(* push_test fails only when the queue is full; else there is room for all the  *)
(* elements that it is going to write, unless the ring is lapped.              *)
LEMMA TestFinds ==
  ASSUME QInv, NEW p \in Producers, push_test(p), ~Lapped
  PROVE  LET c == producer[p]
             d == producer'[p]
         IN  /\ c.pc = "test"
             /\ UNCHANGED <<m_buffer, m_inPos, m_outPos, consumer, before>>
             /\ \/ d = idleProducer /\ Return(p, <<0>>) /\ inQueue = capacity
                \/ /\ d.pc = IF c.how = "pushpeek" THEN "store" ELSE "write"
                   /\ d.at = c.at /\ d.es = c.es /\ d.how = c.how
                   /\ d.first \in Nat /\ d.second \in Nat /\ 0 < d.first + d.second
                   /\ d.first + d.second <= Room
                   /\ c.how = "pushpeek" => d.first = 1 /\ d.second = 0
                   /\ NoAnswer
<1> DEFINE c == producer[p]
           n == Len(c.es)
           first  == IF c.how = "push_n" THEN firstBlock(c.at, m_outPos, n)
                     ELSE IF isFull(c.at, m_outPos) THEN 0 ELSE 1
           second == IF c.how = "push_n" THEN secondBlock(c.at, m_outPos, n) ELSE 0
           pc == IF c.how = "pushpeek" THEN "store" ELSE "write"
           d == [c EXCEPT !.pc = pc, !.first = first, !.second = second]
<1>1. /\ c \in ProducerCalls /\ c.pc = "test" /\ producer \in [Producers -> ProducerCalls]
      /\ UNCHANGED <<m_buffer, m_inPos, m_outPos, consumer, before>>
  BY DEF QInv, Typed, Shapes, push_test, ProducerAt
<1>2. n \in Nat /\ n > 0 /\ (c.how # "push_n" => n = 1)
  BY <1>1 DEF QInv, Typed, ProducerCalls, Blocks
<1>3. /\ inQueue = Available(m_inPos, m_outPos) /\ inQueue \in 0..capacity
      /\ m_inPos \in Slots /\ m_outPos \in Slots /\ c.at = m_inPos
  BY <1>1, PushingFits
<1>4. /\ first \in Nat /\ second \in Nat /\ inQueue + first + second <= capacity
      /\ first = 0 => inQueue = capacity
  <2>1. CASE c.how = "push_n"
    <3>1. first = firstBlock(m_inPos, m_outPos, n) /\ second = secondBlock(m_inPos, m_outPos, n)
      BY <1>3, <2>1
    <3> HIDE DEF first, second, n
    <3> QED
      BY <1>2, <1>3, <3>1, BlockSizes
  <2>2. CASE c.how # "push_n"
    <3>1. second = 0 /\ first = IF isFull(m_inPos, m_outPos) THEN 0 ELSE 1
      BY <1>3, <2>2
    <3>2. isFull(m_inPos, m_outPos) <=> inQueue = capacity
      BY <1>3, FullIs
    <3> HIDE DEF first, second
    <3>3. CASE inQueue = capacity
      BY <1>3, <3>1, <3>2, <3>3, RingSize
    <3>4. CASE inQueue # capacity
      BY <1>3, <3>1, <3>2, <3>4, RingSize
    <3> QED
      BY <3>3, <3>4
  <2> QED
    BY <2>1, <2>2
<1>5. c.how = "pushpeek" => first \in {0, 1} /\ second = 0
  OBVIOUS
<1>6. CASE first = 0
  <2>1. producer' = [producer EXCEPT ![p] = idleProducer] /\ Return(p, <<0>>)
    BY <1>6 DEF push_test, ProducerReturns
  <2>2. producer'[p] = idleProducer
    BY <1>1, <2>1
  <2> QED
    BY <1>1, <1>4, <1>6, <2>1, <2>2
<1>7. CASE first # 0
  <2>1. producer' = [producer EXCEPT ![p] = d] /\ NoAnswer
    BY <1>1, <1>7 DEF push_test
  <2> HIDE DEF first, second, pc
  <2>2. /\ d.pc = pc /\ d.at = c.at /\ d.es = c.es /\ d.how = c.how
        /\ d.first = first /\ d.second = second
    BY <1>1 DEF ProducerCalls
  <2> HIDE DEF d
  <2>3. producer'[p] = d
    BY <1>1, <2>1
  <2>4. first + second <= Room /\ 0 < first + second
    BY <1>3, <1>4, <1>7, RingSize DEF Room
  <2>5. c.how = "pushpeek" => first = 1 /\ second = 0
    BY <1>5, <1>7
  <2> QED
    BY <1>1, <1>4, <2>1, <2>2, <2>3, <2>4, <2>5 DEF pc
<1> QED
  BY <1>6, <1>7

(* push_test keeps what the threads rely on. *)
LEMMA TestKeeps ==
  ASSUME QInv, NEW p \in Producers, ProducerStep(p), push_test(p), ~Lapped
  PROVE  QInv'
<1> DEFINE c == producer[p]
           d == producer'[p]
<1>1. /\ c.pc = "test" /\ UNCHANGED <<m_buffer, m_inPos, m_outPos, consumer>>
      /\ \/ d = idleProducer
         \/ /\ d.pc = IF c.how = "pushpeek" THEN "store" ELSE "write"
            /\ d.at = c.at /\ d.es = c.es /\ d.how = c.how
            /\ d.first \in Nat /\ d.second \in Nat
            /\ d.first + d.second <= Room
            /\ c.how = "pushpeek" => d.first = 1 /\ d.second = 0
  BY TestFinds
<1>2. inQueue' = inQueue /\ Room' = Room /\ inQueue \in Int /\ isShared' = isShared
  BY <1>1, SameInQueue, InQueueIs, RingSize DEF QInv, isShared, ProducerStep
<1>3. /\ c.at = m_inPos
      /\ c.how = "pushpeek" => m_buffer[m_inPos] = c.es[1]
  BY <1>1 DEF QInv, ProducerInv
<1>4. ProducerInv(p)'
  <2>1. CASE d = idleProducer
    BY <2>1 DEF ProducerInv, idleProducer
  <2>2. CASE d # idleProducer
    <3>1. /\ d.pc \in {"write", "store"} /\ d.at = m_inPos'
          /\ d.first + d.second <= Room'
      BY <1>1, <1>2, <1>3, <2>2
    <3>2. d.pc = "store" =>
            \A j \in 0..((d.first + d.second) - 1) : m_buffer'[Ahead(m_inPos', j)] = d.es[j + 1]
      <4> SUFFICES ASSUME d.pc = "store", NEW j \in 0..((d.first + d.second) - 1)
                   PROVE  m_buffer'[Ahead(m_inPos', j)] = d.es[j + 1]
        OBVIOUS
      <4>1. d.first = 1 /\ d.second = 0 /\ c.how = "pushpeek"
        BY <1>1, <2>2
      <4>2. j = 0
        BY <4>1
      <4>3. Ahead(m_inPos, 0) = m_inPos
        BY AheadRound DEF QInv, Typed, Shapes
      <4>4. m_buffer[m_inPos] = c.es[1] /\ d.es = c.es
        BY <1>1, <1>3, <2>2, <4>1
      <4> QED
        BY <1>1, <4>2, <4>3, <4>4
    <3> HIDE DEF d
    <3> QED
      BY <3>1, <3>2 DEF ProducerInv, d
  <2> QED
    BY <2>1, <2>2
<1>5. inQueue <= inQueue'
  BY <1>2
<1> QED
  BY <1>1, <1>4, <1>5, ProducerKeeps

(* push_write fills the slots from m_inPos with the elements in their order,    *)
(* across the end of the buffer, and writes to no other slot.                  *)
LEMMA WriteFills ==
  ASSUME QInv, NEW p \in Producers, push_write(p), NEW j \in 0..capacity
  PROVE  LET c == producer[p]
         IN  m_buffer'[Ahead(m_inPos, j)] = IF j < c.first + c.second THEN c.es[j + 1]
                                            ELSE m_buffer[Ahead(m_inPos, j)]
<1> DEFINE c == producer[p]
           s == Ahead(m_inPos, j)
<1>1. c \in ProducerCalls /\ c.pc = "write" /\ Blocks(c) /\ m_inPos \in Slots
  BY DEF QInv, Typed, Shapes, push_write, ProducerAt
<1>2. c.at = m_inPos
  BY <1>1 DEF QInv, ProducerInv
<1>3. /\ c.first \in Nat /\ c.second \in Nat /\ c.first + c.second <= capacity
      /\ c.at + c.first <= m_bufSize /\ (c.second > 0 => c.at + c.first = m_bufSize)
  BY <1>1 DEF ProducerCalls, Blocks
<1>4. j \in 0..m_bufSize
  BY RingSize
<1>5. s \in Slots /\ s = IF m_inPos + j <= capacity THEN m_inPos + j ELSE m_inPos + j - m_bufSize
  BY <1>1, <1>4, AheadIs
<1>6. m_buffer'[s] = Written(c, s)
  BY <1>5, WhatIsWritten DEF QInv
<1> DEFINE at == c.at
           first == c.first
           second == c.second
<1> HIDE DEF s
<1>7. /\ at \in Int /\ 0 <= at /\ at <= capacity /\ capacity \in Int /\ m_bufSize = capacity + 1
      /\ j \in Int /\ 0 <= j /\ j <= capacity
      /\ s = IF at + j <= capacity THEN at + j ELSE at + j - m_bufSize
  BY <1>1, <1>2, <1>5, RingSize
<1>8. m_buffer'[s] = IF at <= s /\ s < at + first THEN c.es[s - at + 1]
                     ELSE IF s < second THEN c.es[first + s + 1] ELSE m_buffer[s]
  BY <1>6 DEF Written
<1>9. /\ first \in Int /\ 0 <= first /\ second \in Int /\ 0 <= second
      /\ first + second <= capacity
      /\ at + first <= m_bufSize /\ (second > 0 => at + first = m_bufSize)
  BY <1>3
<1> HIDE DEF c, at, first, second
<1>10. CASE j < first
  <2>1. at <= s /\ s < at + first /\ s - at + 1 = j + 1 /\ j < first + second
    BY <1>7, <1>9, <1>10
  <2> QED
    BY <1>8, <2>1 DEF s, c, first, second
<1>11. CASE first <= j /\ j < first + second
  <2>1. ~(at <= s) /\ s < second /\ first + s + 1 = j + 1
    BY <1>7, <1>9, <1>11
  <2> QED
    BY <1>8, <1>11, <2>1 DEF s, c, first, second
<1>12. CASE first + second <= j
  <2>1. ~(at <= s /\ s < at + first) /\ ~(s < second) /\ ~(j < first + second)
    BY <1>7, <1>9, <1>12
  <2> QED
    BY <1>8, <2>1 DEF s, c, first, second
<1>13. j < first \/ (first <= j /\ j < first + second) \/ first + second <= j
  BY <1>7, <1>9
<1> QED
  BY <1>10, <1>11, <1>12, <1>13

(* push_write keeps it, and leaves what is in the queue alone. *)
LEMMA WriteKeeps ==
  ASSUME QInv, NEW p \in Producers, ProducerStep(p), push_write(p)
  PROVE  /\ QInv' /\ UNCHANGED <<m_inPos, m_outPos, consumer, before>>
         /\ \A k \in 0..(inQueue - 1) : m_buffer'[Ahead(m_outPos, k)] = m_buffer[Ahead(m_outPos, k)]
<1> DEFINE c == producer[p]
           d == producer'[p]
           size == c.first + c.second
<1>1. /\ c \in ProducerCalls /\ c.pc = "write" /\ m_inPos \in Slots /\ m_outPos \in Slots
      /\ UNCHANGED <<m_inPos, m_outPos, consumer, before>>
  BY DEF QInv, Typed, Shapes, push_write, ProducerAt
<1>2. /\ d.pc = "store" /\ d.at = c.at /\ d.es = c.es /\ d.how = c.how
      /\ d.first = c.first /\ d.second = c.second
  <2>1. producer \in [Producers -> ProducerCalls]
    BY DEF QInv, Typed, Shapes
  <2>2. d = [c EXCEPT !.pc = "store"]
    BY <2>1 DEF push_write
  <2> QED
    BY <1>1, <2>2 DEF ProducerCalls
<1>3. /\ c.at = m_inPos /\ size <= Room
      /\ inQueue \in 0..capacity /\ size \in Nat
  BY <1>1, PushingFits DEF QInv, ProducerInv, ProducerCalls
<1>4. inQueue' = inQueue /\ Room' = Room
  BY <1>1, SameInQueue
<1>5. ASSUME NEW k \in 0..(inQueue - 1)
      PROVE  m_buffer'[Ahead(m_outPos, k)] = m_buffer[Ahead(m_outPos, k)]
  <2> DEFINE j == m_bufSize - inQueue + k
  <2>1. j \in 0..capacity /\ j \in Nat /\ ~(j < size)
    BY <1>3, RingSize DEF Room
  <2>2. /\ inQueue \in Nat /\ k \in 0..m_bufSize /\ k \in Nat /\ m_bufSize \in Nat
        /\ m_bufSize - inQueue \in Nat /\ (m_bufSize - inQueue) + k <= m_bufSize
        /\ inQueue + (m_bufSize - inQueue) = m_bufSize
    BY <1>3, RingSize
  <2>3. m_inPos = Ahead(m_outPos, inQueue)
    BY InQueueIs DEF QInv
  <2>4. Ahead(m_inPos, m_bufSize - inQueue) = Ahead(m_outPos, m_bufSize)
    BY <1>1, <2>2, <2>3, AheadAgain
  <2>5. Ahead(m_inPos, m_bufSize - inQueue) = m_outPos
    BY <1>1, <2>4, AheadRound
  <2>6. Ahead(m_inPos, (m_bufSize - inQueue) + k) = Ahead(m_outPos, k)
    BY <1>1, <2>2, <2>5, AheadAgain
  <2>7. Ahead(m_inPos, j) = Ahead(m_outPos, k)
    BY <2>6
  <2> HIDE DEF j
  <2>8. m_buffer'[Ahead(m_inPos, j)] = m_buffer[Ahead(m_inPos, j)]
    BY <2>1, WriteFills
  <2> QED
    BY <2>7, <2>8
<1>6. ASSUME NEW j \in 0..(size - 1)
      PROVE  m_buffer'[Ahead(m_inPos, j)] = c.es[j + 1]
  <2>1. j \in 0..capacity /\ j < c.first + c.second
    BY <1>3, RingSize DEF Room
  <2> QED
    BY <2>1, WriteFills
<1>7. ProducerInv(p)'
  <2>1. /\ d.at = m_inPos'
        /\ d.first + d.second <= Room'
    BY <1>1, <1>2, <1>3, <1>4
  <2>2. \A j \in 0..((d.first + d.second) - 1) : m_buffer'[Ahead(m_inPos', j)] = d.es[j + 1]
    <3> SUFFICES ASSUME NEW j \in 0..((d.first + d.second) - 1)
                 PROVE  m_buffer'[Ahead(m_inPos', j)] = d.es[j + 1]
      OBVIOUS
    <3>1. j \in 0..(size - 1)
      BY <1>2
    <3>2. m_buffer'[Ahead(m_inPos, j)] = c.es[j + 1]
      BY <1>6, <3>1
    <3>3. m_inPos' = m_inPos /\ d.es = c.es
      BY <1>1, <1>2
    <3> QED
      BY <3>2, <3>3
  <2>3. d.pc = "store"
    BY <1>2
  <2> HIDE DEF d
  <2> QED
    BY <2>1, <2>2, <2>3 DEF ProducerInv, d
<1>8. inQueue <= inQueue'
  BY <1>3, <1>4, RingSize
<1> QED
  BY <1>1, <1>5, <1>7, <1>8, ProducerKeeps

(* push_store lengthens the queue by what was written. *)
LEMMA StoreLengthens ==
  ASSUME QInv, NEW p \in Producers, ProducerStep(p), push_store(p)
  PROVE  LET c == producer[p]
         IN  /\ c.pc = "store"
             /\ UNCHANGED <<m_buffer, m_outPos, consumer, before>>
             /\ c.first + c.second \in 1..capacity /\ c.first + c.second <= Room
             /\ c.first + c.second <= Len(c.es)
             /\ inQueue \in 0..capacity /\ inQueue' = inQueue + (c.first + c.second)
             /\ \A j \in 0..((c.first + c.second) - 1) : m_buffer[Ahead(m_inPos, j)] = c.es[j + 1]
             /\ Return(p, <<c.first + c.second>>)
             /\ producer'[p] = idleProducer
<1> DEFINE c == producer[p]
           size == c.first + c.second
<1>1. /\ c \in ProducerCalls /\ Blocks(c) /\ c.pc = "store" /\ m_outPos \in Slots
      /\ UNCHANGED <<m_buffer, m_outPos, consumer, before>>
      /\ Return(p, <<c.first + c.second>>) /\ producer'[p] = idleProducer
  BY DEF QInv, Typed, Shapes, push_store, ProducerAt, ProducerReturns
<1>2. /\ inQueue \in 0..capacity /\ size <= Room /\ c.at = m_inPos
      /\ \A j \in 0..(size - 1) : m_buffer[Ahead(m_inPos, j)] = c.es[j + 1]
  <2>1. inQueue \in 0..capacity /\ c.at = m_inPos
    BY <1>1, PushingFits
  <2>2. ProducerInv(p)
    BY DEF QInv
  <2>3. c.first + c.second <= Room
    BY <1>1, <2>2 DEF ProducerInv
  <2>4. \A j \in 0..((c.first + c.second) - 1) : m_buffer[Ahead(m_inPos, j)] = c.es[j + 1]
    BY <1>1, <2>2 DEF ProducerInv
  <2> QED
    BY <2>1, <2>3, <2>4
<1>3. size \in 1..capacity /\ size \in Nat /\ size <= Len(c.es)
  BY <1>1, RingSize DEF Blocks, ProducerCalls
<1> HIDE DEF size
<1>4. class' = class /\ m_pushMtx' \in Producers \cup {NoOne}
  BY DEF ProducerStep, locked, QInv, Typed, Shapes
<1>5. m_inPos' = Ahead(m_inPos, size) /\ Typed'
  BY <1>2, <1>4, StoreTypes DEF QInv, size
<1>6. inQueue + size <= m_bufSize /\ inQueue + size \in Int /\ 1 <= inQueue + size
      /\ inQueue + size <= capacity
  BY <1>2, <1>3, RingSize DEF Room
<1>7. m_inPos' = Ahead(m_outPos', inQueue + size)
  BY <1>1, <1>3, <1>5, <1>6, BehindQueue DEF QInv
<1>8. HowFarAhead'
  BY <1>5, InQueueFrom, PTL
<1>9. m_bufSize' = m_bufSize /\ capacity \in Int
  BY RingSize DEF m_bufSize
<1>10. inQueue' = inQueue + size
  BY <1>6, <1>7, <1>8, <1>9 DEF HowFarAhead, Ahead
<1>11. \A j \in 0..((c.first + c.second) - 1) : m_buffer[Ahead(m_inPos, j)] = c.es[j + 1]
  BY <1>2 DEF size
<1>12. /\ c.first + c.second \in 1..capacity /\ c.first + c.second <= Room
       /\ c.first + c.second <= Len(c.es) /\ inQueue' = inQueue + (c.first + c.second)
  BY <1>2, <1>3, <1>10 DEF size
<1> QED
  BY <1>1, <1>2, <1>11, <1>12

(* push_store keeps it: the slots that were written are the queue's now. *)
LEMMA StoreKeeps ==
  ASSUME QInv, NEW p \in Producers, ProducerStep(p), push_store(p)
  PROVE  QInv'
<1> DEFINE size == producer[p].first + producer[p].second
<1>1. /\ size \in 1..capacity /\ inQueue \in 0..capacity /\ inQueue' = inQueue + size
      /\ m_buffer' = m_buffer /\ producer'[p] = idleProducer
  BY StoreLengthens
<1> HIDE DEF size
<1>2. ProducerInv(p)'
  BY <1>1 DEF ProducerInv, idleProducer
<1>3. inQueue <= inQueue'
  BY <1>1, RingSize
<1> QED
  BY <1>1, <1>2, <1>3, ProducerKeeps

(* available_for_push: what it loads is not ahead of what it will find. *)
LEMMA EstimateKeeps ==
  ASSUME QInv, NEW p \in Producers, Estimate(p)
  PROVE  QInv' /\ UNCHANGED <<m_buffer, m_inPos, m_outPos, consumer, before>>
<1>0. m_outPos \in Slots /\ producer \in [Producers -> ProducerCalls]
  BY DEF QInv, Typed, Shapes
<1>1. UNCHANGED <<m_buffer, m_inPos, m_outPos, consumer, before, class>> /\ ~isShared
  BY DEF Estimate, available_load, available_return
<1>2. inQueue' = inQueue /\ inQueue \in Int /\ inQueue <= capacity
  <2>1. consumer.pc # "release"
    BY <1>1 DEF QInv, Apart, Requeues
  <2> QED
    BY <1>1, <2>1, SameInQueue, InQueueIs, RingSize DEF QInv
<1>3. ProducerInv(p)'
  <2>1. CASE available_load(p)
    <3> DEFINE d == [producer[p] EXCEPT !.pc = "available", !.at = m_outPos]
    <3>1. d.pc = "available" /\ d.at = m_outPos /\ d.es = producer[p].es
      BY <1>0 DEF ProducerCalls
    <3>2. producer'[p] = d
      BY <1>0, <2>1 DEF available_load
    <3> HIDE DEF d
    <3>3. Available(m_outPos, m_outPos) = 0
      <4>1. 0 \in 0..capacity
        BY RingSize
      <4> QED
        BY <1>0, <4>1, AheadRound, AvailableAhead
    <3>4. Available(m_outPos', producer'[p].at) + inQueue' <= capacity
      <4>1. Available(m_outPos', producer'[p].at) = 0
        BY <1>1, <3>1, <3>2, <3>3 DEF Available
      <4> QED
        BY <1>2, <4>1
    <3>5. producer'[p].pc = "available" /\ ~isShared'
      BY <1>1, <3>1, <3>2 DEF isShared
    <3>6. producer'[p].es = <<>>
      BY <2>1, <3>1, <3>2 DEF available_load, QInv, Apart, idleProducer
    <3> QED
      BY <3>4, <3>5, <3>6 DEF ProducerInv, Available, m_bufSize
  <2>2. CASE available_return(p)
    <3>1. producer'[p] = idleProducer
      BY <1>0, <2>2 DEF available_return, ProducerReturns
    <3> QED
      BY <3>1 DEF ProducerInv, idleProducer
  <2> QED
    BY <2>1, <2>2 DEF Estimate
<1>4. inQueue <= inQueue'
  BY <1>2
<1> QED
  BY <1>1, <1>3, <1>4, ProducerKeeps

(* A push that does not overrun the queue does not find the ring lapped. *)
LEMMA TestsInTime ==
  ASSUME NEW p \in Producers, ProducerStep(p), push_test(p), ~overrun'
  PROVE  ~Lapped
BY DEF ProducerStep, push_test

(* Every step of a producer keeps what the threads rely on. *)
LEMMA ProducerPreserves ==
  ASSUME ~overrun', QInv, NEW p \in Producers, ProducerStep(p) \/ Estimate(p)
  PROVE  QInv'
<1>1. CASE ProducerStep(p)
  <2>1. start(p) \/ pushpeek(p) \/ push_test(p) \/ push_write(p) \/ push_store(p)
    BY <1>1 DEF ProducerStep, locked
  <2> QED
    BY <1>1, <2>1, StartKeeps, TestsInTime, TestKeeps, WriteKeeps, StoreKeeps
<1>2. CASE Estimate(p)
  BY <1>2, EstimateKeeps
<1> QED
  BY <1>1, <1>2

-----------------------------------------------------------------------------
(* The consumer. *)

(* What is left to show of a consumer's step that puts nothing back: it makes   *)
(* room, and leaves the slots alone that are not the queue's.                  *)
LEMMA ConsumerKeeps ==
  ASSUME QInv, Typed', ConsumerInv', UNCHANGED <<m_inPos, producer, class, m_pushMtx>>,
         NEW d \in Nat, inQueue' = inQueue - d, m_outPos' = Ahead(m_outPos, d),
         \A k \in inQueue..capacity : m_buffer'[Ahead(m_outPos, k)] = m_buffer[Ahead(m_outPos, k)],
         consumer'.pc \in Requeues => isShared
  PROVE  QInv'
<1>1. /\ inQueue \in Int /\ 0 <= inQueue - d /\ inQueue <= m_bufSize
      /\ capacity \in Int /\ m_bufSize = capacity + 1
  <2>1. (inQueue \in 0..m_bufSize)'
    BY InQueueIs, PTL
  <2> QED
    BY <2>1, InQueueIs, RingSize DEF QInv, m_bufSize
<1>2. Apart'
  BY DEF QInv, Apart, isShared, ProducerAt
<1>3. ASSUME NEW q \in Producers PROVE ProducerInv(q)'
  <2> DEFINE c == producer[q]
  <2>1. c \in ProducerCalls /\ ProducerInv(q) /\ Blocks(c)
    BY DEF QInv, Typed, Shapes
  <2>2. /\ Room \in Int /\ Room' \in Int /\ Room <= Room' /\ c.first \in Nat /\ c.second \in Nat
        /\ Len(c.es) \in Nat
    <3>1. Room' = capacity - (inQueue - d) /\ Room = capacity - inQueue
      BY DEF Room
    <3>2. c.first \in Nat /\ c.second \in Nat /\ Len(c.es) \in Nat
      BY <2>1, <1>1 DEF ProducerCalls
    <3> QED
      BY <1>1, <3>1, <3>2
  <2>3. c.pc \in {"test", "write", "store"} => c.at = m_inPos
    BY <2>1 DEF ProducerInv
  <2>4. c.pc = "test" /\ c.how = "pushpeek" => ~isShared /\ m_buffer'[m_inPos] = c.es[1]
    <3> SUFFICES ASSUME c.pc = "test", c.how = "pushpeek"
                 PROVE  ~isShared /\ m_buffer'[m_inPos] = c.es[1]
      OBVIOUS
    <3>1. ~isShared /\ m_buffer[m_inPos] = c.es[1]
      BY <2>1 DEF ProducerInv
    <3>2. consumer.pc # "release"
      BY <3>1 DEF QInv, Apart, Requeues
    <3>3. inQueue <= capacity /\ m_inPos = Ahead(m_outPos, inQueue)
      BY <3>2, InQueueIs DEF QInv
    <3>4. inQueue \in inQueue..capacity
      BY <1>1, <3>3
    <3> QED
      BY <3>1, <3>3, <3>4
  <2>5. c.pc \in {"write", "store"} => c.first + c.second <= Room'
    BY <2>1, <2>2 DEF ProducerInv
  <2>6. ASSUME c.pc = "store", NEW j \in 0..((c.first + c.second) - 1)
        PROVE  m_buffer'[Ahead(m_inPos, j)] = c.es[j + 1]
    <3>1. m_buffer[Ahead(m_inPos, j)] = c.es[j + 1] /\ c.first + c.second <= Room
      BY <2>1, <2>6 DEF ProducerInv
    <3>2. j \in Nat /\ inQueue + j <= m_bufSize /\ inQueue + j \in inQueue..capacity
      <4>1. inQueue \in Int /\ c.first + c.second <= capacity - inQueue
        BY <1>1, <3>1 DEF Room
      <4> HIDE DEF c
      <4> QED
        BY <1>1, <2>2, <2>6, <4>1
    <3>3. Ahead(m_inPos, j) = Ahead(m_outPos, inQueue + j)
      BY <3>2, BehindQueue DEF QInv
    <3> QED
      BY <3>1, <3>2, <3>3
  <2>7. c.pc = "available" =>
          ~isShared /\ c.es = <<>> /\ Available(m_outPos', c.at) + inQueue' <= capacity
    <3> SUFFICES ASSUME c.pc = "available"
                 PROVE  ~isShared /\ c.es = <<>> /\ Available(m_outPos', c.at) + inQueue' <= capacity
      OBVIOUS
    <3>1. ~isShared /\ c.es = <<>> /\ Available(m_outPos, c.at) + inQueue <= capacity
      BY <2>1 DEF ProducerInv
    <3>2. c.at \in Slots /\ c.at \in 0..m_bufSize /\ m_outPos \in Slots
      BY <2>1, RingSize DEF ProducerCalls, QInv, Typed, Shapes
    <3> DEFINE gone == Available(m_outPos, c.at)
    <3>3. gone \in 0..capacity /\ gone + inQueue <= capacity
      BY <3>1, <3>2, AvailableIs
    <3> HIDE DEF gone
    <3>4. gone + d <= capacity /\ (gone + d) + (inQueue - d) <= capacity
      BY <1>1, <3>3
    <3> USE DEF gone
    <3>5. Available(Ahead(m_outPos, d), c.at) = gone + d
      BY <3>2, <3>4, AvailableMore
    <3> QED
      BY <3>1, <3>4, <3>5
  <2>8. producer'[q] = c /\ m_inPos' = m_inPos /\ isShared' = isShared
        /\ \A x, y : Available(x, y)' = Available(x, y)
    BY DEF isShared
  <2> HIDE DEF c
  <2> QED
    BY <2>3, <2>4, <2>5, <2>6, <2>7, <2>8 DEF ProducerInv, Available, m_bufSize
<1> QED
  BY <1>2, <1>3 DEF QInv

(* The queue is shorter by what was released. *)
LEMMA InQueueLess ==
  ASSUME Typed, Typed', m_inPos' = m_inPos, consumer'.pc # "release",
         NEW d \in Nat, d <= inQueue, inQueue - d <= capacity, m_outPos' = Ahead(m_outPos, d)
  PROVE  inQueue' = inQueue - d
<1>1. /\ inQueue \in Nat /\ inQueue <= m_bufSize /\ m_inPos = Ahead(m_outPos, inQueue)
      /\ m_outPos \in Slots
  BY InQueueIs, RingSize DEF Typed, Shapes
<1> DEFINE rest == inQueue - d
<1>2. /\ rest \in Nat /\ d + rest <= m_bufSize /\ d + rest = inQueue /\ rest <= capacity
      /\ rest \in Int /\ 0 <= rest
  BY <1>1, RingSize
<1> HIDE DEF rest
<1>3. m_inPos' = Ahead(m_outPos', rest)
  BY <1>1, <1>2, AheadAgain
<1>4. HowFarAhead'
  BY InQueueFrom, PTL
<1>5. m_bufSize' = m_bufSize
  BY DEF m_bufSize
<1>6. inQueue' = rest
  BY <1>2, <1>3, <1>4, <1>5 DEF HowFarAhead, Ahead
<1> QED
  BY <1>6 DEF rest

(* A consumer that is idle relies on nothing. *)
LEMMA IdleConsumer ==
  ASSUME consumer'.pc = "idle"
  PROVE  ConsumerInv'
BY DEF ConsumerInv, TakeInv, FlushInv, RequeueInv, RevInv, Requeues, Revs

(* A step that changes only what the consumer knows. *)
LEMMA OnlyConsumer ==
  ASSUME QInv, Typed', ConsumerInv',
         UNCHANGED <<m_buffer, m_inPos, m_outPos, producer, class, m_pushMtx>>,
         consumer.pc # "release", consumer'.pc # "release",
         consumer'.pc \in Requeues => isShared
  PROVE  QInv' /\ inQueue' = inQueue
<1>1. inQueue \in Int /\ 0 <= inQueue /\ inQueue <= capacity /\ m_outPos \in Slots
  BY InQueueIs, RingSize DEF QInv, Typed, Shapes
<1>2. inQueue' = inQueue
  BY DEF inQueue, Available, m_bufSize
<1>3. inQueue' = inQueue - 0 /\ 0 \in Nat
  BY <1>1, <1>2
<1>4. m_outPos' = Ahead(m_outPos, 0)
  BY <1>1, AheadRound
<1> QED
  BY <1>2, <1>3, <1>4, ConsumerKeeps

(* What a release leaves behind. *)
LEMMA ReleaseFrees ==
  ASSUME Typed, NEW to \in Slots, Release(to), NEW k \in 0..capacity
  PROVE  m_buffer'[Ahead(m_outPos, k)] = IF k < Available(to, m_outPos) THEN Nothing
                                         ELSE m_buffer[Ahead(m_outPos, k)]
<1>1. m_outPos \in Slots /\ k \in 0..m_bufSize
  BY RingSize DEF Typed, Shapes
<1>2. Ahead(m_outPos, k) \in Slots /\ Available(Ahead(m_outPos, k), m_outPos) = k
  BY <1>1, AheadIs, AvailableAhead
<1> DEFINE s == Ahead(m_outPos, k)
<1> HIDE DEF s
<1>3. m_buffer'[s] = IF Available(s, m_outPos) < Available(to, m_outPos) THEN Nothing
                     ELSE m_buffer[s]
  BY <1>2 DEF Release, s
<1> QED
  BY <1>2, <1>3 DEF s

(* The local variables of a call that begins. *)
LEMMA BeginIs ==
  ASSUME NEW place, NEW at, NEW n, NEW until, Begin(place, at, n, until)
  PROVE  /\ consumer'.pc = place /\ consumer'.at = at /\ consumer'.n = n /\ consumer'.until = until
         /\ consumer'.keepAt = (IF place = "rev" THEN at ELSE 0) /\ consumer'.got = <<>>
         /\ NoAnswer
BY DEF Begin, idleConsumer

(* What a call has to establish when it begins. *)
LEMMA BeginTake ==
  ASSUME QInv, consumer.pc = "idle", UNCHANGED <<m_inPos, m_outPos>>,
         NEW n \in 1..capacity, NEW k \in Nat, k <= inQueue, n <= k, n = 1 \/ n = k,
         Begin("move", m_outPos, n, Ahead(m_outPos, k))
  PROVE  ConsumerInv'
<1>1. /\ consumer'.pc = "move" /\ consumer'.at = m_outPos' /\ consumer'.n = n
      /\ consumer'.until = Ahead(m_outPos, k)
  BY BeginIs
<1>2. m_outPos \in Slots /\ inQueue \in Int /\ inQueue <= capacity /\ capacity \in Int
  BY InQueueIs, RingSize DEF QInv, Typed, Shapes
<1>3. k \in 0..capacity
  BY <1>2
<1>4. Available(Ahead(m_outPos, k), m_outPos) = k
  BY <1>2, <1>3, AvailableAhead
<1>5. ToGo' = k
  BY <1>1, <1>4 DEF ToGo, Available, m_bufSize
<1>6. inQueue' = inQueue
  BY <1>1 DEF inQueue, Available, m_bufSize
<1>7. TakeInv'
  BY <1>1, <1>2, <1>5, <1>6 DEF TakeInv
<1> QED
  BY <1>1, <1>7 DEF ConsumerInv, FlushInv, RequeueInv, RevInv, Requeues, Revs

(* for_each_requeue begins. *)
LEMMA BeginRequeue ==
  ASSUME QInv, consumer.pc = "idle", m_inPos # m_outPos, UNCHANGED <<m_inPos, m_outPos>>,
         Begin("ask", m_outPos, 1, m_inPos)
  PROVE  ConsumerInv'
<1>1. consumer'.pc = "ask" /\ consumer'.at = m_outPos' /\ consumer'.until = m_inPos
  BY BeginIs
<1>2. m_outPos \in Slots /\ inQueue = Available(m_inPos, m_outPos) /\ m_inPos = Ahead(m_outPos, inQueue)
      /\ inQueue \in Int /\ 0 <= inQueue
  BY InQueueIs, RingSize DEF QInv, Typed, Shapes
<1>3. inQueue # 0
  BY <1>2, AheadRound
<1>4. ToGo' = inQueue /\ inQueue' = inQueue
  BY <1>1, <1>2 DEF ToGo, inQueue, Available, m_bufSize
<1>5. RequeueInv'
  <2>1. 0 < inQueue /\ inQueue <= inQueue
    BY <1>2, <1>3
  <2>2. 0 < ToGo' /\ ToGo' <= inQueue'
    BY <1>4, <2>1
  <2>3. consumer'.pc # "release" /\ consumer'.pc # "dropped"
    BY <1>1
  <2> QED
    BY <1>1, <2>2, <2>3 DEF RequeueInv
<1> QED
  BY <1>1, <1>5 DEF ConsumerInv, TakeInv, FlushInv, RevInv, Revs

(* for_each_rev_requeue begins: everything is unseen, nothing is kept. *)
LEMMA BeginRev ==
  ASSUME QInv, consumer.pc = "idle", m_inPos # m_outPos, UNCHANGED <<m_buffer, m_inPos, m_outPos>>,
         Begin("rev", m_inPos, 0, m_outPos), before' = Between(m_outPos, m_inPos)
  PROVE  ConsumerInv' /\ Len(before') = inQueue
<1>1. /\ consumer'.pc = "rev" /\ consumer'.at = m_inPos' /\ consumer'.keepAt = m_inPos'
      /\ consumer'.until = m_outPos' /\ consumer'.got = <<>>
  BY BeginIs
<1>2. m_outPos \in Slots /\ inQueue = Available(m_inPos, m_outPos) /\ m_inPos = Ahead(m_outPos, inQueue)
      /\ m_inPos \in Slots /\ inQueue \in Int /\ 0 <= inQueue
  BY InQueueIs, RingSize DEF QInv, Typed, Shapes
<1>3. inQueue # 0
  BY <1>2, AheadRound
<1>4. /\ Unseen' = inQueue /\ KeptAt' = inQueue /\ Kept' = 0 /\ inQueue' = inQueue
  BY <1>1, <1>2 DEF Unseen, KeptAt, Kept, inQueue, Available, m_bufSize
<1>5. Len(before') = inQueue
  BY <1>2, BetweenIs DEF QInv
<1>6. ASSUME NEW j \in 0..(inQueue - 1) PROVE m_buffer'[Ahead(m_outPos', j)] = before'[j + 1]
  <2>1. j + 1 \in 1..Available(m_inPos, m_outPos) /\ (j + 1) - 1 = j
    BY <1>2
  <2>2. before'[j + 1] = m_buffer[Ahead(m_outPos, (j + 1) - 1)]
    BY <1>2, <2>1, BetweenIs DEF QInv
  <2> QED
    BY <2>1, <2>2
<1>7. Chosen'
  <2> DEFINE places == [j \in 1..0 |-> 1]
  <2>1. places \in [1..Kept' -> (Unseen' + 1)..Len(before')] /\ DOMAIN places = 1..0
    BY <1>4
  <2>2. Increasing(places)
    BY <2>1 DEF Increasing
  <2>3. \A j \in 1..Kept' : consumer'.got[j] = before'[places[j]]
    BY <1>4
  <2> HIDE DEF places
  <2> QED
    BY <2>1, <2>2, <2>3 DEF Chosen, Increasing
<1>8. RevInv'
  <2>1. /\ consumer'.until = m_outPos' /\ (consumer'.pc = "revstore" <=> Unseen' = 0)
        /\ Len(before') <= inQueue' /\ Unseen' <= KeptAt' /\ KeptAt' + Kept' = Len(before')
    <3>1. consumer'.until = m_outPos' /\ consumer'.pc = "rev" /\ inQueue <= inQueue
          /\ inQueue + 0 = inQueue
      BY <1>1, <1>2
    <3> QED
      BY <1>3, <1>4, <1>5, <3>1
  <2>2. \A j \in 0..(Unseen' - 1) : m_buffer'[Ahead(m_outPos', j)] = before'[j + 1]
    BY <1>4, <1>6
  <2>3. \A j \in 1..Kept' : m_buffer'[Ahead(m_outPos', KeptAt' + (j - 1))] = consumer'.got[j]
    BY <1>4
  <2> QED
    BY <1>7, <2>1, <2>2, <2>3 DEF RevInv
<1> QED
  BY <1>1, <1>5, <1>8 DEF ConsumerInv, TakeInv, FlushInv, RequeueInv, Requeues

(* flush begins. *)
LEMMA BeginFlush ==
  ASSUME QInv, consumer.pc = "idle", UNCHANGED <<m_inPos, m_outPos>>,
         NEW k \in Nat, k <= inQueue, Begin("flush", m_outPos, 0, Ahead(m_outPos, k))
  PROVE  ConsumerInv'
<1>1. consumer'.pc = "flush" /\ consumer'.until = Ahead(m_outPos, k)
  BY BeginIs
<1>2. m_outPos \in Slots /\ inQueue \in Int /\ inQueue <= capacity /\ capacity \in Int
  BY InQueueIs, RingSize DEF QInv, Typed, Shapes
<1>3. k \in 0..capacity
  BY <1>2
<1>4. Available(Ahead(m_outPos, k), m_outPos) = k
  BY <1>2, <1>3, AvailableAhead
<1>5. ToGo' = k /\ inQueue' = inQueue
  BY <1>1, <1>4 DEF ToGo, inQueue, Available, m_bufSize
<1>6. FlushInv'
  BY <1>1, <1>2, <1>5 DEF FlushInv
<1> QED
  BY <1>1, <1>6 DEF ConsumerInv, TakeInv, RequeueInv, RevInv, Requeues, Revs

(* The calls of the consumer begin; a call that finds nothing to do returns.    *)
CallBegins ==
  /\ consumer.pc = "idle"
  /\ UNCHANGED <<m_buffer, m_inPos, m_outPos, producer>>
  /\ \/ consumer'.pc = "idle" /\ UNCHANGED before /\ m_inPos = m_outPos
        /\ Return(Consumer, <<>>)
     \/ consumer'.pc = "idle" /\ UNCHANGED before /\ Return(Consumer, <<m_buffer[m_outPos]>>)
     \/ consumer'.pc \in {"move", "flush", "ask"} /\ UNCHANGED before /\ NoAnswer
     \/ /\ consumer'.pc = "rev" /\ NoAnswer
        /\ before' = Between(m_outPos, m_inPos) /\ Len(before') = inQueue

(* A call that begins keeps what the threads rely on. *)
LEMMA CallKeeps ==
  ASSUME QInv, call \/ for_each_requeue_load, UNCHANGED <<class, m_pushMtx>>
  PROVE  QInv' /\ inQueue' = inQueue /\ CallBegins
<1>0. Typed'
  BY CallTypes DEF QInv
<1>1. /\ consumer.pc = "idle" /\ UNCHANGED <<m_buffer, m_inPos, m_outPos, producer>>
  BY
     DEF call, pop_load, pop_n_load, for_each_load, flush_load, peek,
         for_each_rev_requeue_load,
         for_each_requeue_load, ConsumerIdle
<1>2. /\ m_outPos \in Slots /\ m_inPos \in Slots /\ inQueue = Available(m_inPos, m_outPos)
      /\ m_inPos = Ahead(m_outPos, inQueue) /\ inQueue \in Int /\ 0 <= inQueue
      /\ capacity \in Int /\ 1 <= capacity /\ inQueue <= capacity
  BY <1>1, InQueueIs, RingSize DEF QInv, Typed, Shapes
<1>3. m_inPos # m_outPos => 1 <= inQueue
  BY <1>2, AheadRound
<1>4. ASSUME ConsumerReturns(<<>>) \/ ConsumerReturns(<<m_buffer[m_outPos]>>)
      PROVE  consumer'.pc = "idle" /\ ConsumerInv'
  <2>1. consumer'.pc = "idle"
    BY <1>4 DEF ConsumerReturns, idleConsumer
  <2> QED
    BY <2>1, IdleConsumer
<1>5. \/ ConsumerReturns(<<>>) /\ UNCHANGED before /\ m_inPos = m_outPos
      \/ ConsumerReturns(<<m_buffer[m_outPos]>>) /\ UNCHANGED before
      \/ consumer'.pc \in {"move", "flush"} /\ UNCHANGED before /\ NoAnswer /\ ConsumerInv'
      \/ /\ consumer'.pc = "rev" /\ NoAnswer /\ ConsumerInv'
         /\ before' = Between(m_outPos, m_inPos) /\ Len(before') = inQueue
      \/ /\ consumer'.pc = "ask" /\ UNCHANGED before /\ NoAnswer /\ ConsumerInv'
         /\ for_each_requeue_load
  <2> DEFINE Goal ==
        \/ ConsumerReturns(<<>>) /\ UNCHANGED before /\ m_inPos = m_outPos
        \/ ConsumerReturns(<<m_buffer[m_outPos]>>) /\ UNCHANGED before
        \/ consumer'.pc \in {"move", "flush"} /\ UNCHANGED before /\ NoAnswer /\ ConsumerInv'
        \/ /\ consumer'.pc = "rev" /\ NoAnswer /\ ConsumerInv'
           /\ before' = Between(m_outPos, m_inPos) /\ Len(before') = inQueue
        \/ /\ consumer'.pc = "ask" /\ UNCHANGED before /\ NoAnswer /\ ConsumerInv'
           /\ for_each_requeue_load
  <2>1. ASSUME pop_load PROVE Goal
    <3>1. CASE m_inPos = m_outPos
      BY <2>1, <3>1 DEF pop_load
    <3>2. CASE m_inPos # m_outPos
      <4>1. Begin("move", m_outPos, 1, Ahead(m_outPos, 1)) /\ UNCHANGED before
        BY <2>1, <3>2 DEF pop_load, Ahead
      <4>2. 1 \in 1..capacity /\ 1 \in Nat /\ 1 <= inQueue
        BY <1>2, <1>3, <3>2
      <4>3. ConsumerInv'
        BY <1>1, <4>1, <4>2, BeginTake
      <4> QED
        BY <4>1, <4>3, BeginIs
    <3> QED
      BY <3>1, <3>2
  <2>2. ASSUME NEW n \in 1..MaxBlock, pop_n_load(n) PROVE Goal
    <3> DEFINE size == Lesser(n, Available(m_inPos, m_outPos))
    <3>1. /\ size \in 0..capacity /\ size <= inQueue /\ (size = 0 => m_inPos = m_outPos)
      <4>1. n \in Nat /\ n > 0
        BY BoundsAssumption
      <4> QED
        BY <1>2, <4>1, LesserIs
    <3>2. IF size = 0 THEN ConsumerReturns(<<>>)
          ELSE Begin("move", m_outPos, size, Ahead(m_outPos, size))
      BY <2>2 DEF pop_n_load, Ahead
    <3>3. UNCHANGED before
      BY <2>2 DEF pop_n_load
    <3> HIDE DEF size
    <3>4. CASE size = 0
      BY <3>1, <3>2, <3>3, <3>4
    <3>5. CASE size # 0
      <4>1. size \in 1..capacity /\ size \in Nat
        BY <1>2, <3>1, <3>5
      <4>2. ConsumerInv'
        BY <1>1, <3>1, <3>2, <3>5, <4>1, BeginTake
      <4> QED
        BY <3>2, <3>3, <3>5, <4>2, BeginIs
    <3> QED
      BY <3>4, <3>5
  <2>3. ASSUME for_each_load PROVE Goal
    <3>1. CASE m_inPos = m_outPos
      BY <2>3, <3>1 DEF for_each_load
    <3>2. CASE m_inPos # m_outPos
      <4>1. Begin("move", m_outPos, 1, Ahead(m_outPos, inQueue)) /\ UNCHANGED before
        BY <1>2, <2>3, <3>2 DEF for_each_load
      <4>2. 1 \in 1..capacity /\ inQueue \in Nat /\ 1 <= inQueue
        BY <1>2, <1>3, <3>2
      <4>3. ConsumerInv'
        BY <1>1, <1>2, <4>1, <4>2, BeginTake
      <4> QED
        BY <4>1, <4>3, BeginIs
    <3> QED
      BY <3>1, <3>2
  <2>4. ASSUME NEW n \in {MaxBlock, capacity}, flush_load(n) PROVE Goal
    <3> DEFINE size == Lesser(n, Available(m_inPos, m_outPos))
    <3>1. size \in 0..capacity /\ size <= inQueue
      <4>1. n \in Nat
        BY <1>2, BoundsAssumption
      <4> QED
        BY <1>2, <4>1, LesserIs
    <3>2. Begin("flush", m_outPos, 0, Ahead(m_outPos, size)) /\ UNCHANGED before
      BY <2>4 DEF flush_load, Ahead
    <3> HIDE DEF size
    <3>3. size \in Nat
      BY <1>2, <3>1
    <3>4. ConsumerInv'
      BY <1>1, <3>1, <3>2, <3>3, BeginFlush
    <3> QED
      BY <3>2, <3>4, BeginIs
  <2>5. ASSUME peek PROVE Goal
    BY <2>5 DEF peek
  <2>6. ASSUME for_each_rev_requeue_load PROVE Goal
    <3>1. CASE m_inPos = m_outPos
      BY <2>6, <3>1 DEF for_each_rev_requeue_load
    <3>2. CASE m_inPos # m_outPos
      <4>1. Begin("rev", m_inPos, 0, m_outPos) /\ before' = Between(m_outPos, m_inPos)
        BY <2>6, <3>2 DEF for_each_rev_requeue_load
      <4>2. ConsumerInv' /\ Len(before') = inQueue
        BY <1>1, <3>2, <4>1, BeginRev
      <4> QED
        BY <4>1, <4>2, BeginIs
    <3> QED
      BY <3>1, <3>2
  <2>7. ASSUME for_each_requeue_load PROVE Goal
    <3>1. CASE m_inPos = m_outPos
      BY <2>7, <3>1 DEF for_each_requeue_load
    <3>2. CASE m_inPos # m_outPos
      <4>1. Begin("ask", m_outPos, 1, m_inPos) /\ UNCHANGED before
        BY <2>7, <3>2 DEF for_each_requeue_load
      <4>2. ConsumerInv'
        BY <1>1, <3>2, <4>1, BeginRequeue
      <4> QED
        BY <2>7, <4>1, <4>2, BeginIs
    <3> QED
      BY <3>1, <3>2
  <2> QED
    BY <2>1, <2>2, <2>3, <2>4, <2>5, <2>6, <2>7 DEF call
<1>6. CallBegins
  BY <1>1, <1>4, <1>5 DEF CallBegins, ConsumerReturns
<1>7. consumer'.pc # "release" /\ ConsumerInv'
  BY <1>4, <1>5
<1>8. ASSUME consumer'.pc \in Requeues PROVE isShared
  BY <1>4, <1>5, <1>8 DEF Requeues, for_each_requeue_load
<1>9. consumer.pc # "release"
  BY <1>1
<1> QED
  BY <1>0, <1>1, <1>6, <1>7, <1>8, <1>9, OnlyConsumer

(* take_move: the n oldest elements change from their slots into the hands of   *)
(* the consumer, and are in the queue until take_store.                        *)
LEMMA TakeMoveKeeps ==
  ASSUME QInv, take_move, UNCHANGED <<class, m_pushMtx>>
  PROVE  LET n == consumer.n
         IN  /\ QInv' /\ inQueue' = inQueue
             /\ consumer.pc = "move" /\ consumer'.pc = "store" /\ consumer'.n = n
             /\ n \in 1..capacity /\ n <= inQueue
             /\ UNCHANGED <<m_inPos, m_outPos, producer, before>> /\ NoAnswer
             /\ \A j \in 1..n : consumer'.got[j] = m_buffer[Ahead(m_outPos, j - 1)]
             /\ \A k \in n..capacity : m_buffer'[Ahead(m_outPos, k)] = m_buffer[Ahead(m_outPos, k)]
<1> DEFINE n == consumer.n
<1>0. consumer \in ConsumerCalls /\ m_outPos \in Slots /\ m_buffer \in [Slots -> T \cup {Nothing}]
  BY DEF QInv, Typed, Shapes
<1>1. /\ consumer.pc = "move"
      /\ UNCHANGED <<m_inPos, m_outPos, producer, before>> /\ NoAnswer
  BY DEF take_move
<1>2. /\ consumer.at = m_outPos /\ 0 < n /\ n <= ToGo /\ ToGo <= inQueue /\ (n = 1 \/ n = ToGo)
  BY <1>1 DEF QInv, ConsumerInv, TakeInv
<1>3. /\ inQueue \in Int /\ 0 <= inQueue /\ inQueue <= capacity /\ capacity \in Int /\ ToGo \in Int
      /\ n \in Int /\ m_bufSize = capacity + 1
  <2>1. ToGo \in 0..capacity
    BY <1>0, AvailableIs, RingSize DEF ToGo, ConsumerCalls
  <2> QED
    BY <1>0, <1>1, <2>1, InQueueIs, RingSize DEF QInv, ConsumerCalls
<1>4. n \in 1..capacity /\ n <= inQueue
  BY <1>2, <1>3
<1>5. /\ consumer'.got = [i \in 1..n |-> m_buffer[Ahead(m_outPos, i - 1)]]
      /\ consumer' = [consumer EXCEPT !.pc = "store", !.got = consumer'.got]
      /\ \A s \in Slots : m_buffer'[s] = IF \E i \in 1..n : Ahead(m_outPos, i - 1) = s THEN Nothing
                                         ELSE m_buffer[s]
  BY <1>2, TakeMoves DEF QInv
<1>6. /\ consumer'.pc = "store" /\ consumer'.n = n /\ consumer'.at = consumer.at
      /\ consumer'.until = consumer.until
  BY <1>0, <1>5 DEF ConsumerCalls
<1>7. \A j \in 1..n : consumer'.got[j] = m_buffer[Ahead(m_outPos, j - 1)]
  BY <1>5
<1>8. ASSUME NEW k \in n..capacity
      PROVE  m_buffer'[Ahead(m_outPos, k)] = m_buffer[Ahead(m_outPos, k)]
  <2>1. k \in 0..m_bufSize /\ k \in 0..capacity
    BY <1>3, <1>4
  <2>2. Ahead(m_outPos, k) \in Slots
    BY <1>0, <2>1, AheadIs
  <2>3. ASSUME NEW i \in 1..n PROVE Ahead(m_outPos, i - 1) # Ahead(m_outPos, k)
    <3>1. i - 1 \in 0..capacity /\ i - 1 # k
      BY <1>3, <1>4
    <3> QED
      BY <1>0, <2>1, <3>1, AheadInjective
  <2> QED
    BY <1>5, <2>2, <2>3
<1>9. Len(consumer'.got) = n
  <2>1. n \in Nat
    BY <1>4
  <2> HIDE DEF n
  <2> QED
    BY <1>5, <2>1
<1>10. inQueue' = inQueue
  BY <1>1, <1>6 DEF inQueue, Available, m_bufSize
<1>11. ConsumerInv'
  <2>1. ToGo' = ToGo
    BY <1>1, <1>6 DEF ToGo, Available, m_bufSize
  <2>2. TakeInv'
    BY <1>1, <1>2, <1>6, <1>9, <1>10, <2>1 DEF TakeInv
  <2> QED
    BY <1>6, <2>2 DEF ConsumerInv, FlushInv, RequeueInv, RevInv, Requeues, Revs
<1>12. Typed'
  BY ConsumeTypes DEF QInv, consume
<1>13. QInv'
  <2>1. inQueue' = inQueue - 0 /\ 0 \in Nat /\ m_outPos' = Ahead(m_outPos, 0)
    BY <1>0, <1>1, <1>3, <1>10, AheadRound
  <2>2. \A k \in inQueue..capacity : m_buffer'[Ahead(m_outPos, k)] = m_buffer[Ahead(m_outPos, k)]
    <3> TAKE k \in inQueue..capacity
    <3>1. k \in n..capacity
      BY <1>3, <1>4
    <3> QED
      BY <1>8, <3>1
  <2>3. consumer'.pc \notin Requeues
    BY <1>6 DEF Requeues
  <2> QED
    BY <1>1, <1>11, <1>12, <2>1, <2>2, <2>3, ConsumerKeeps
<1> QED
  BY <1>1, <1>4, <1>6, <1>7, <1>8, <1>10, <1>13

(* take_store: they are released, and handed out. *)
LEMMA TakeStoreKeeps ==
  ASSUME QInv, take_store, UNCHANGED <<class, m_pushMtx>>
  PROVE  LET n == consumer.n
         IN  /\ QInv' /\ inQueue' = inQueue - n /\ m_outPos' = Ahead(m_outPos, n)
             /\ consumer.pc = "store" /\ consumer'.pc \in {"idle", "move"}
             /\ n \in 1..capacity /\ n <= inQueue
             /\ consumer.got \in Seq(T \cup {Nothing}) /\ Len(consumer.got) = n
             /\ UNCHANGED <<m_buffer, m_inPos, producer, before>>
             /\ Return(Consumer, consumer.got)
<1> DEFINE n == consumer.n
<1>0. /\ consumer \in ConsumerCalls /\ m_outPos \in Slots /\ m_outPos \in 0..m_bufSize
      /\ m_buffer \in [Slots -> T \cup {Nothing}]
  BY RingSize DEF QInv, Typed, Shapes
<1>1. /\ consumer.pc = "store" /\ Return(Consumer, consumer.got)
      /\ UNCHANGED <<m_buffer, m_inPos, producer, before>>
  BY DEF take_store
<1>2. /\ consumer.at = m_outPos /\ 0 < n /\ n <= ToGo /\ ToGo <= inQueue /\ (n = 1 \/ n = ToGo)
      /\ Len(consumer.got) = n
  BY <1>1 DEF QInv, ConsumerInv, TakeInv
<1>3. /\ inQueue \in Int /\ 0 <= inQueue /\ inQueue <= capacity /\ capacity \in Int
      /\ ToGo \in 0..capacity /\ n \in Int
  <2>1. ToGo \in 0..capacity
    BY <1>0, AvailableIs DEF ToGo, ConsumerCalls
  <2> QED
    BY <1>0, <1>1, <2>1, InQueueIs, RingSize DEF QInv, ConsumerCalls
<1>4. n \in 1..capacity /\ n <= inQueue /\ n \in Nat /\ inQueue - n <= capacity
  BY <1>2, <1>3
<1>5. /\ m_outPos' = Ahead(m_outPos, n)
      /\ consumer' = IF Ahead(m_outPos, n) = consumer.until THEN idleConsumer
                     ELSE [consumer EXCEPT !.pc = "move", !.at = Ahead(m_outPos, n), !.got = <<>>]
  BY <1>2 DEF take_store, Ahead
<1>6. Typed'
  BY ConsumeTypes DEF QInv, consume
<1>7. \/ consumer'.pc = "idle"
      \/ /\ consumer'.pc = "move" /\ consumer'.at = m_outPos' /\ consumer'.n = n
         /\ consumer'.until = consumer.until /\ Ahead(m_outPos, n) # consumer.until
  <2>1. CASE Ahead(m_outPos, n) = consumer.until
    BY <1>5, <2>1 DEF idleConsumer
  <2>2. CASE Ahead(m_outPos, n) # consumer.until
    BY <1>0, <1>5, <2>2 DEF ConsumerCalls
  <2> QED
    BY <2>1, <2>2
<1>8. inQueue' = inQueue - n
  <2>1. consumer'.pc # "release"
    BY <1>7
  <2> QED
    BY <1>1, <1>4, <1>5, <1>6, <2>1, InQueueLess DEF QInv
<1>9. ConsumerInv'
  <2>1. CASE consumer'.pc = "idle"
    BY <2>1, IdleConsumer
  <2>2. CASE consumer'.pc # "idle"
    <3>1. consumer.until \in Slots
      BY <1>0 DEF ConsumerCalls
    <3>2. Ahead(m_outPos, ToGo) = consumer.until
      BY <1>0, <3>1, AheadAvailable DEF ToGo
    <3>3. n # ToGo /\ n = 1
      BY <1>2, <1>7, <2>2, <3>2
    <3>4. n \in Nat /\ n <= Available(consumer.until, m_outPos)
      BY <1>2, <1>4 DEF ToGo
    <3>5. Available(consumer.until, Ahead(m_outPos, n)) = ToGo - n
      BY <1>0, <3>1, <3>4, AvailableLess DEF ToGo
    <3>6. ToGo' = ToGo - n
      BY <1>5, <1>7, <2>2, <3>5 DEF ToGo, Available, m_bufSize
    <3>7. 0 < ToGo - n /\ 1 <= ToGo - n /\ ToGo - n <= inQueue - n
      BY <1>2, <1>3, <3>3
    <3>8. TakeInv'
      BY <1>7, <1>8, <2>2, <3>3, <3>6, <3>7 DEF TakeInv
    <3> QED
      BY <1>7, <2>2, <3>8 DEF ConsumerInv, FlushInv, RequeueInv, RevInv, Requeues, Revs
  <2> QED
    BY <2>1, <2>2
<1>10. consumer'.pc \notin Requeues
  BY <1>7 DEF Requeues
<1>11. QInv'
  BY <1>1, <1>4, <1>5, <1>6, <1>8, <1>9, <1>10, ConsumerKeeps
<1>12. consumer.got \in Seq(T \cup {Nothing})
  BY <1>0 DEF ConsumerCalls
<1> QED
  BY <1>1, <1>2, <1>4, <1>5, <1>7, <1>8, <1>11, <1>12

(* A release of the k oldest slots. *)
LEMMA ReleaseKeeps ==
  ASSUME QInv, NEW to \in Slots, Release(to), Typed', ConsumerInv',
         UNCHANGED <<m_inPos, producer, class, m_pushMtx>>,
         consumer'.pc # "release", consumer'.pc \in Requeues => consumer.pc \in Requeues,
         Available(to, m_outPos) <= inQueue,
         inQueue - Available(to, m_outPos) <= capacity
  PROVE  LET k == Available(to, m_outPos)
         IN  /\ QInv' /\ k \in Nat /\ inQueue' = inQueue - k /\ m_outPos' = Ahead(m_outPos, k)
             /\ \A j \in k..capacity : m_buffer'[Ahead(m_outPos, j)] = m_buffer[Ahead(m_outPos, j)]
<1> DEFINE k == Available(to, m_outPos)
<1>0. m_outPos \in Slots /\ m_outPos \in 0..m_bufSize
  BY RingSize DEF QInv, Typed, Shapes
<1>1. k \in 0..capacity
  BY <1>0, AvailableIs
<1>2. m_outPos' = Ahead(m_outPos, k)
  BY <1>0, AheadAvailable DEF Release
<1>3. ASSUME NEW j \in k..capacity
      PROVE  m_buffer'[Ahead(m_outPos, j)] = m_buffer[Ahead(m_outPos, j)]
  <2> HIDE DEF k
  <2>1. j \in 0..capacity /\ ~(j < k)
    BY <1>1, RingSize
  <2> QED
    BY <2>1, ReleaseFrees DEF QInv, k
<1>4. /\ inQueue \in Int /\ capacity \in Int
  BY InQueueIs, RingSize DEF QInv
<1> HIDE DEF k
<1>5. k \in Nat /\ k <= inQueue /\ inQueue - k <= capacity
  BY <1>1, <1>4 DEF k
<1>6. inQueue' = inQueue - k
  BY <1>2, <1>5, InQueueLess DEF QInv
<1>7. \A j \in inQueue..capacity : m_buffer'[Ahead(m_outPos, j)] = m_buffer[Ahead(m_outPos, j)]
  <2> TAKE j \in inQueue..capacity
  <2>1. j \in k..capacity
    BY <1>4, <1>5
  <2> QED
    BY <1>3, <2>1
<1>8. consumer'.pc \in Requeues => isShared
  BY DEF QInv, Apart
<1>9. QInv'
  BY <1>2, <1>5, <1>6, <1>7, <1>8, ConsumerKeeps
<1> QED
  BY <1>2, <1>3, <1>5, <1>6, <1>9 DEF k

(* flush drops what it found. *)
LEMMA FlushKeeps ==
  ASSUME QInv, flush_store, UNCHANGED <<class, m_pushMtx>>
  PROVE  /\ QInv' /\ ToGo \in Nat /\ ToGo <= inQueue /\ inQueue' = inQueue - ToGo
         /\ m_outPos' = Ahead(m_outPos, ToGo)
         /\ consumer.pc = "flush" /\ consumer'.pc = "idle" /\ Return(Consumer, <<>>)
         /\ \A j \in ToGo..capacity : m_buffer'[Ahead(m_outPos, j)] = m_buffer[Ahead(m_outPos, j)]
<1>1. /\ consumer.pc = "flush" /\ Release(consumer.until) /\ ConsumerReturns(<<>>)
      /\ UNCHANGED <<m_inPos, producer, before>>
  BY DEF flush_store
<1>2. consumer'.pc = "idle" /\ Return(Consumer, <<>>)
  BY <1>1 DEF ConsumerReturns, idleConsumer
<1>3. consumer.until \in Slots
  BY DEF QInv, Typed, Shapes, ConsumerCalls
<1>4. Available(consumer.until, m_outPos) <= inQueue
  BY <1>1 DEF QInv, ConsumerInv, FlushInv, ToGo
<1>5. Typed'
  BY ConsumeTypes DEF QInv, consume
<1>6. consumer'.pc # "release" /\ consumer'.pc \notin Requeues
  BY <1>2 DEF Requeues
<1>7. inQueue - Available(consumer.until, m_outPos) <= capacity
  <2>1. Available(consumer.until, m_outPos) \in 0..capacity
    <3>1. m_outPos \in 0..m_bufSize
      BY RingSize DEF QInv, Typed, Shapes
    <3> QED
      BY <1>3, <3>1, AvailableIs
  <2>2. inQueue \in Int /\ inQueue <= capacity /\ capacity \in Int
    BY <1>1, InQueueIs, RingSize DEF QInv
  <2> QED
    BY <2>1, <2>2
<1> QED
  BY <1>1, <1>2, <1>3, <1>4, <1>5, <1>6, <1>7, IdleConsumer, ReleaseKeeps DEF ToGo

(* for_each_requeue: the callback has the oldest element. *)
LEMMA RequeueCallKeeps ==
  ASSUME QInv, NEW keep \in BOOLEAN, for_each_requeue_call(keep)
  PROVE  /\ QInv' /\ inQueue' = inQueue
         /\ consumer.pc = "ask" /\ consumer'.pc \in {"lock", "dropped"}
         /\ UNCHANGED <<m_buffer, m_inPos, m_outPos, producer, before>> /\ NoAnswer
<1>0. consumer \in ConsumerCalls
  BY DEF QInv, Typed, Shapes
<1>1. /\ consumer.pc = "ask"
      /\ UNCHANGED <<m_buffer, m_inPos, m_outPos, producer, before, class, m_pushMtx>> /\ NoAnswer
  BY DEF for_each_requeue_call
<1>2. /\ consumer'.pc \in {"lock", "dropped"} /\ consumer'.at = consumer.at
      /\ consumer'.until = consumer.until
      /\ consumer'.pc = "dropped" => consumer'.got = <<m_buffer[consumer.at]>>
  BY <1>0 DEF for_each_requeue_call, ConsumerCalls
<1>3. consumer.at = m_outPos /\ 0 < ToGo /\ ToGo <= inQueue
  BY <1>1 DEF QInv, ConsumerInv, RequeueInv, Requeues
<1>4. ToGo' = ToGo /\ inQueue' = inQueue
  BY <1>1, <1>2 DEF ToGo, inQueue, Available, m_bufSize
<1>5. RequeueInv'
  BY <1>1, <1>2, <1>3, <1>4 DEF RequeueInv
<1>6. ConsumerInv'
  BY <1>2, <1>5 DEF ConsumerInv, TakeInv, FlushInv, RevInv, Revs
<1>7. Typed'
  BY RequeueTypes DEF QInv
<1>8. consumer.pc \in Requeues /\ isShared /\ consumer.pc # "release" /\ consumer'.pc # "release"
  BY <1>1, <1>2 DEF Requeues, QInv, Apart
<1>9. QInv'
  BY <1>1, <1>6, <1>7, <1>8, OnlyConsumer
<1> QED
  BY <1>1, <1>2, <1>4, <1>9

(* for_each_requeue puts the element back: no producer is at work, and it is    *)
(* twice in the ring until it is released.                                     *)
LEMMA RequeueKeepKeeps ==
  ASSUME QInv, for_each_requeue_keep
  PROVE  /\ QInv' /\ inQueue \in 1..capacity /\ inQueue' = inQueue + 1
         /\ consumer.pc = "lock" /\ consumer'.pc = "release"
         /\ UNCHANGED <<m_outPos, producer, before>>
         /\ m_buffer'[m_inPos] = m_buffer[m_outPos] /\ m_inPos = Ahead(m_outPos, inQueue)
         /\ \A k \in 1..(inQueue - 1) : m_buffer'[Ahead(m_outPos, k)] = m_buffer[Ahead(m_outPos, k)]
         /\ Return(Consumer, <<m_buffer[m_outPos]>>)
<1>0. /\ consumer \in ConsumerCalls /\ m_inPos \in Slots /\ m_outPos \in Slots
      /\ m_buffer \in [Slots -> T \cup {Nothing}]
  BY DEF QInv, Typed, Shapes
<1>1. /\ consumer.pc = "lock" /\ m_pushMtx = NoOne
      /\ UNCHANGED <<m_outPos, producer, before, class, m_pushMtx>>
      /\ m_inPos' = Ahead(m_inPos, 1)
  BY DEF for_each_requeue_keep, Ahead
<1>2. /\ consumer'.pc = "release" /\ consumer'.at = consumer.at /\ consumer'.until = consumer.until
  BY <1>0 DEF for_each_requeue_keep, ConsumerCalls
<1>3. consumer.at = m_outPos /\ 0 < ToGo /\ ToGo <= inQueue
  BY <1>1 DEF QInv, ConsumerInv, RequeueInv, Requeues
<1>4. /\ inQueue \in Int /\ inQueue <= capacity /\ capacity \in Int /\ m_bufSize = capacity + 1
      /\ m_inPos = Ahead(m_outPos, inQueue) /\ ToGo \in Int
  <2>1. m_outPos \in 0..m_bufSize /\ consumer.until \in Slots
    BY <1>0, RingSize DEF ConsumerCalls
  <2>2. ToGo \in 0..capacity
    BY <2>1, AvailableIs DEF ToGo
  <2> QED
    BY <1>1, <2>2, InQueueIs, RingSize DEF QInv
<1>5. inQueue \in 1..capacity
  BY <1>3, <1>4
<1>6. Typed'
  BY RequeueTypes DEF QInv
<1>7. inQueue' = inQueue + 1
  <2>1. 1 \in Nat /\ inQueue + 1 <= m_bufSize /\ inQueue + 1 \in Int /\ 1 <= inQueue + 1
    BY <1>4, <1>5
  <2>2. m_inPos' = Ahead(m_outPos', inQueue + 1)
    BY <1>1, <2>1, BehindQueue DEF QInv
  <2>3. HowFarAhead'
    BY <1>6, InQueueFrom, PTL
  <2>4. m_bufSize' = m_bufSize
    BY DEF m_bufSize
  <2> QED
    BY <1>2, <2>1, <2>2, <2>3, <2>4 DEF HowFarAhead, Ahead
<1>8. isShared /\ isShared' /\ \A p \in Producers : ProducerAt(p, "idle")
  <2>1. isShared
    BY <1>1 DEF QInv, Apart, Requeues
  <2>2. \A p \in Producers : m_pushMtx # p
    BY <1>1, NoOneAssumption
  <2> QED
    BY <1>1, <2>1, <2>2 DEF QInv, Apart, isShared
<1>9. Apart'
  BY <1>1, <1>8 DEF QInv, Apart, ProducerAt
<1>10. \A p \in Producers : ProducerInv(p)'
  BY <1>1, <1>8 DEF ProducerInv, ProducerAt
<1>11. ConsumerInv'
  <2>1. ToGo' = ToGo
    BY <1>1, <1>2 DEF ToGo, Available, m_bufSize
  <2>2. ToGo <= (inQueue + 1) - 1
    BY <1>3, <1>4
  <2>3. ToGo' <= inQueue' - 1
    BY <1>7, <2>1, <2>2
  <2>4. RequeueInv'
    BY <1>1, <1>2, <1>3, <2>1, <2>3 DEF RequeueInv
  <2> QED
    BY <1>2, <2>4 DEF ConsumerInv, TakeInv, FlushInv, RevInv, Revs
<1>12. /\ m_buffer' = [m_buffer EXCEPT ![m_outPos] = Nothing, ![m_inPos] = m_buffer[m_outPos]]
       /\ Return(Consumer, <<m_buffer[m_outPos]>>)
  BY <1>3 DEF for_each_requeue_keep
<1>13. m_buffer'[m_inPos] = m_buffer[m_outPos]
  BY <1>0, <1>12
<1>14. ASSUME NEW k \in 1..(inQueue - 1)
       PROVE  m_buffer'[Ahead(m_outPos, k)] = m_buffer[Ahead(m_outPos, k)]
  <2>1. /\ k \in 0..m_bufSize /\ k \in 0..capacity /\ 0 \in 0..capacity /\ k # 0
        /\ k \in 0..(inQueue - 1)
    BY <1>4, <1>5
  <2>2. Ahead(m_outPos, k) \in Slots
    BY <1>0, <2>1, AheadIs
  <2>3. Ahead(m_outPos, k) # m_inPos
    BY <1>1, <2>1, NextIsFree DEF QInv
  <2>4. Ahead(m_outPos, k) # m_outPos
    <3>1. Ahead(m_outPos, 0) = m_outPos
      BY <1>0, AheadRound
    <3> QED
      BY <1>0, <2>1, <3>1, AheadInjective
  <2> QED
    BY <1>0, <1>12, <2>2, <2>3, <2>4
<1> QED
  BY <1>1, <1>2, <1>4, <1>5, <1>6, <1>7, <1>9, <1>10, <1>11, <1>12, <1>13, <1>14
     DEF QInv

(* for_each_requeue releases the slot, and goes on or is through. *)
LEMMA RequeueStoreKeeps ==
  ASSUME QInv, for_each_requeue_store
  PROVE  /\ QInv' /\ inQueue \in Nat /\ 1 <= inQueue /\ inQueue - 1 <= capacity
         /\ inQueue' = inQueue - 1
         /\ m_outPos' = Ahead(m_outPos, 1) /\ UNCHANGED <<m_inPos, producer, before>>
         /\ consumer.pc \in {"release", "dropped"} /\ consumer'.pc \in {"idle", "ask"}
         /\ \A k \in 1..capacity : m_buffer'[Ahead(m_outPos, k)] = m_buffer[Ahead(m_outPos, k)]
         /\ IF consumer.pc = "dropped" THEN Return(Consumer, <<m_buffer[m_outPos]>>) ELSE NoAnswer
<1>0. /\ consumer \in ConsumerCalls /\ m_inPos \in Slots /\ m_outPos \in Slots
      /\ consumer.until \in Slots
  BY DEF QInv, Typed, Shapes, ConsumerCalls
<1>1. /\ consumer.pc \in {"release", "dropped"} /\ UNCHANGED <<m_inPos, producer, before, class, m_pushMtx>>
  BY DEF for_each_requeue_store
<1>2. /\ consumer.at = m_outPos /\ 0 < ToGo
      /\ ToGo <= IF consumer.pc = "release" THEN inQueue - 1 ELSE inQueue
      /\ consumer.pc = "dropped" => consumer.got = <<m_buffer[m_outPos]>>
  BY <1>1 DEF QInv, ConsumerInv, RequeueInv, Requeues
<1>3. /\ Release(Ahead(m_outPos, 1))
      /\ IF consumer.pc = "dropped" THEN Return(Consumer, consumer.got) ELSE NoAnswer
      /\ consumer' = IF Ahead(m_outPos, 1) = consumer.until THEN idleConsumer
                     ELSE [consumer EXCEPT !.pc = "ask", !.at = Ahead(m_outPos, 1), !.got = <<>>]
  BY <1>2 DEF for_each_requeue_store, Ahead
<1>4. /\ inQueue \in Int /\ inQueue <= m_bufSize /\ m_bufSize = capacity + 1 /\ capacity \in Int
      /\ ToGo \in Int /\ 1 <= capacity
  <2>1. m_outPos \in 0..m_bufSize
    BY <1>0, RingSize
  <2>2. ToGo \in 0..capacity
    BY <1>0, <2>1, AvailableIs DEF ToGo
  <2> QED
    BY <2>2, InQueueIs, RingSize DEF QInv
<1>5. /\ 1 <= inQueue /\ ToGo <= inQueue /\ 1 <= ToGo /\ inQueue - 1 <= capacity /\ inQueue \in Nat
      /\ 1 \in 0..capacity /\ 1 \in 0..m_bufSize /\ 1 \in Nat
  <2>1. CASE consumer.pc = "release"
    BY <1>2, <1>4, <2>1
  <2>2. CASE consumer.pc # "release"
    BY <1>2, <1>4, <2>2
  <2> QED
    BY <2>1, <2>2
<1>6. Ahead(m_outPos, 1) \in Slots /\ Available(Ahead(m_outPos, 1), m_outPos) = 1
  BY <1>0, <1>5, AheadIs, AvailableAhead
<1>7. Typed'
  BY RequeueTypes DEF QInv
<1>8. \/ consumer'.pc = "idle"
      \/ /\ consumer'.pc = "ask" /\ consumer'.at = Ahead(m_outPos, 1)
         /\ consumer'.until = consumer.until /\ Ahead(m_outPos, 1) # consumer.until
  <2>1. CASE Ahead(m_outPos, 1) = consumer.until
    BY <1>3, <2>1 DEF idleConsumer
  <2>2. CASE Ahead(m_outPos, 1) # consumer.until
    BY <1>0, <1>3, <2>2 DEF ConsumerCalls
  <2> QED
    BY <2>1, <2>2
<1>9. inQueue' = inQueue - 1 /\ m_outPos' = Ahead(m_outPos, 1) /\ consumer'.pc # "release"
  <2>1. m_outPos' = Ahead(m_outPos, 1) /\ consumer'.pc # "release"
    BY <1>3, <1>8 DEF Release
  <2> QED
    BY <1>1, <1>5, <1>7, <2>1, InQueueLess DEF QInv
<1>10. ConsumerInv'
  <2>1. CASE consumer'.pc = "idle"
    BY <2>1, IdleConsumer
  <2>2. CASE consumer'.pc # "idle"
    <3>1. Ahead(m_outPos, ToGo) = consumer.until
      BY <1>0, AheadAvailable DEF ToGo
    <3>2. ToGo # 1
      BY <1>8, <2>2, <3>1
    <3>3. 1 <= Available(consumer.until, m_outPos)
      BY <1>5 DEF ToGo
    <3>4. Available(consumer.until, Ahead(m_outPos, 1)) = ToGo - 1
      BY <1>0, <1>5, <3>3, AvailableLess DEF ToGo
    <3>5. ToGo' = ToGo - 1
      BY <1>8, <1>9, <2>2, <3>4 DEF ToGo, Available, m_bufSize
    <3>6. 0 < ToGo - 1 /\ ToGo - 1 <= inQueue - 1
      BY <1>4, <1>5, <3>2
    <3>7. 0 < ToGo' /\ ToGo' <= inQueue'
      BY <1>9, <3>5, <3>6
    <3>8. consumer'.pc = "ask" /\ consumer'.at = m_outPos'
      BY <1>8, <1>9, <2>2
    <3>9. RequeueInv'
      BY <3>7, <3>8 DEF RequeueInv
    <3> QED
      BY <3>8, <3>9 DEF ConsumerInv, TakeInv, FlushInv, RevInv, Revs
  <2> QED
    BY <2>1, <2>2
<1>11. consumer.pc \in Requeues
  BY <1>1 DEF Requeues
<1>12. QInv' /\ \A k \in 1..capacity : m_buffer'[Ahead(m_outPos, k)] = m_buffer[Ahead(m_outPos, k)]
  BY <1>1, <1>3, <1>5, <1>6, <1>7, <1>9, <1>10, <1>11, ReleaseKeeps
<1> QED
  BY <1>1, <1>2, <1>3, <1>5, <1>8, <1>9, <1>12

(* for_each_rev_requeue is through: what is left of what it found is released.  *)
LEMMA RevStoreKeeps ==
  ASSUME QInv, for_each_rev_requeue_store, UNCHANGED <<class, m_pushMtx>>
  PROVE  /\ QInv' /\ KeptAt \in Nat /\ inQueue' = inQueue - KeptAt
         /\ m_outPos' = Ahead(m_outPos, KeptAt) /\ UNCHANGED <<m_inPos, producer>>
         /\ consumer.pc = "revstore" /\ consumer'.pc = "idle" /\ Return(Consumer, consumer.got)
         /\ \A k \in KeptAt..capacity : m_buffer'[Ahead(m_outPos, k)] = m_buffer[Ahead(m_outPos, k)]
<1>1. /\ consumer.pc = "revstore" /\ Release(consumer.keepAt) /\ ConsumerReturns(consumer.got)
      /\ UNCHANGED <<m_inPos, producer>>
  BY DEF for_each_rev_requeue_store
<1>2. consumer'.pc = "idle" /\ Return(Consumer, consumer.got)
  BY <1>1 DEF ConsumerReturns, idleConsumer
<1>3. /\ consumer.keepAt \in Slots /\ m_outPos \in 0..m_bufSize /\ before \in Seq(T \cup {Nothing})
      /\ consumer.got \in Seq(T \cup {Nothing})
  BY RingSize DEF QInv, Typed, Shapes, ConsumerCalls
<1>4. /\ inQueue \in Int /\ inQueue <= capacity /\ capacity \in Int /\ KeptAt \in 0..capacity
      /\ Kept \in Nat /\ Len(before) \in Nat
  <2>1. KeptAt \in 0..capacity
    BY <1>3, AvailableIs DEF KeptAt
  <2>2. inQueue \in 0..m_bufSize /\ inQueue <= capacity
    BY <1>1, InQueueIs DEF QInv
  <2>3. Kept \in Nat /\ Len(before) \in Nat
    BY <1>3 DEF Kept
  <2> QED
    BY <2>1, <2>2, <2>3, RingSize
<1>5. KeptAt + Kept = Len(before) /\ Len(before) <= inQueue
  BY <1>1 DEF QInv, ConsumerInv, RevInv, Revs
<1>6. KeptAt <= inQueue /\ inQueue - KeptAt <= capacity
  BY <1>4, <1>5
<1>7. Typed'
  BY ConsumeTypes DEF QInv, consume
<1>8. consumer'.pc # "release" /\ consumer'.pc \notin Requeues
  BY <1>2 DEF Requeues
<1> QED
  BY <1>1, <1>2, <1>3, <1>6, <1>7, <1>8, IdleConsumer, ReleaseKeeps DEF KeptAt

(* A step back in the ring is a step less ahead. *)
LEMMA PreviousIs ==
  ASSUME NEW pos \in Slots, NEW out \in Slots, Available(pos, out) > 0
  PROVE  /\ Previous(pos) \in Slots /\ Available(Previous(pos), out) = Available(pos, out) - 1
         /\ Previous(pos) = Ahead(out, Available(pos, out) - 1)
<1> DEFINE k == Available(pos, out)
<1>1. out \in 0..m_bufSize /\ k \in 0..capacity /\ Ahead(out, k) = pos
  BY AvailableIs, AheadAvailable, RingSize
<1> HIDE DEF k
<1>2. k > 0
  BY DEF k
<1> DEFINE before1 == Ahead(out, k - 1)
<1>3. k - 1 \in 0..capacity /\ k - 1 \in 0..m_bufSize /\ k \in 0..m_bufSize
  BY <1>1, <1>2, RingSize
<1>4. /\ before1 \in Slots /\ Available(before1, out) = k - 1
      /\ before1 = IF out + (k - 1) <= capacity THEN out + (k - 1) ELSE out + (k - 1) - m_bufSize
  BY <1>3, AheadIs, AvailableAhead
<1>5. pos = IF out + k <= capacity THEN out + k ELSE out + k - m_bufSize
  BY <1>1, <1>3, AheadIs
<1>6. Previous(pos) = IF pos = 0 THEN capacity ELSE pos - 1
  <2> DEFINE a == pos + m_bufSize - 1
  <2>1. m_bufSize \in Nat \ {0} /\ a \in Int /\ -m_bufSize <= a /\ a < 2 * m_bufSize /\ ~(a < 0)
    BY RingSize
  <2> HIDE DEF a
  <2>2. a % m_bufSize = IF a < m_bufSize THEN a ELSE a - m_bufSize
    BY <2>1, Wraps
  <2> QED
    BY <2>1, <2>2, RingSize DEF Previous, a
<1> HIDE DEF before1
<1>7. Previous(pos) = before1
  BY <1>1, <1>2, <1>4, <1>5, <1>6, RingSize
<1> QED
  BY <1>4, <1>7 DEF k, before1

(* for_each_rev_requeue goes a step back, and moves the element that is to stay *)
(* up against those that it has kept.                                          *)
LEMMA RevCallKeeps ==
  ASSUME QInv, NEW keep \in BOOLEAN, for_each_rev_requeue_call(keep), UNCHANGED <<class, m_pushMtx>>
  PROVE  /\ QInv' /\ inQueue' = inQueue
         /\ consumer.pc = "rev" /\ consumer'.pc \in Revs
         /\ UNCHANGED <<m_inPos, m_outPos, producer, before>> /\ NoAnswer
         /\ \A k \in Len(before)..capacity : m_buffer'[Ahead(m_outPos, k)] = m_buffer[Ahead(m_outPos, k)]
<1> DEFINE pos == Previous(consumer.at)
           to  == IF keep THEN Previous(consumer.keepAt) ELSE consumer.keepAt
           val == m_buffer[pos]
           got == IF keep THEN <<val>> \o consumer.got ELSE consumer.got
           toAt == IF keep THEN KeptAt - 1 ELSE KeptAt
           n == Len(before)
<1>0. /\ consumer \in ConsumerCalls /\ m_inPos \in Slots /\ m_outPos \in Slots
      /\ m_outPos \in 0..m_bufSize /\ m_buffer \in [Slots -> T \cup {Nothing}]
      /\ consumer.at \in Slots /\ consumer.keepAt \in Slots /\ consumer.until \in Slots
      /\ consumer.got \in Seq(T \cup {Nothing}) /\ before \in Seq(T \cup {Nothing})
  BY RingSize DEF QInv, Typed, Shapes, ConsumerCalls
<1>1. consumer.pc = "rev" /\ UNCHANGED <<m_inPos, m_outPos, producer, before>> /\ NoAnswer
  BY DEF for_each_rev_requeue_call
<1>2. /\ consumer.until = m_outPos /\ Unseen # 0 /\ n <= inQueue
      /\ Unseen <= KeptAt /\ KeptAt + Kept = n
      /\ \A j \in 0..(Unseen - 1) : m_buffer[Ahead(m_outPos, j)] = before[j + 1]
      /\ \A j \in 1..Kept : m_buffer[Ahead(m_outPos, KeptAt + (j - 1))] = consumer.got[j]
      /\ Chosen
  BY <1>1 DEF QInv, ConsumerInv, RevInv, Revs
<1>3. /\ Unseen \in 0..capacity /\ KeptAt \in 0..capacity /\ Kept \in Nat /\ n \in Nat
      /\ inQueue \in Int /\ inQueue <= capacity /\ capacity \in Int /\ m_bufSize = capacity + 1
  <2>1. Unseen \in 0..capacity /\ KeptAt \in 0..capacity
    BY <1>0, AvailableIs DEF Unseen, KeptAt
  <2>2. inQueue \in 0..m_bufSize /\ inQueue <= capacity
    BY <1>1, InQueueIs DEF QInv
  <2>3. Kept \in Nat /\ n \in Nat
    BY <1>0 DEF Kept
  <2> QED
    BY <2>1, <2>2, <2>3, RingSize
<1>4. /\ 0 < Unseen /\ 0 < KeptAt /\ n <= capacity
      /\ toAt \in Nat /\ Unseen - 1 <= toAt /\ toAt <= KeptAt /\ toAt <= n
  BY <1>2, <1>3
<1>5. /\ pos \in Slots /\ Available(pos, m_outPos) = Unseen - 1 /\ pos = Ahead(m_outPos, Unseen - 1)
  BY <1>0, <1>4, PreviousIs DEF Unseen
<1>6. /\ to \in Slots /\ Available(to, m_outPos) = toAt /\ to = Ahead(m_outPos, toAt)
  BY <1>0, <1>4, PreviousIs, AheadAvailable DEF KeptAt
<1>7. /\ m_buffer' = IF keep /\ to # pos THEN [m_buffer EXCEPT ![to] = val, ![pos] = Nothing]
                     ELSE m_buffer
      /\ consumer' = [consumer EXCEPT !.at = pos, !.keepAt = to, !.got = got,
                        !.pc = IF pos = consumer.until THEN "revstore" ELSE "rev"]
  BY <1>0 DEF for_each_rev_requeue_call, ConsumerCalls
<1>8. /\ consumer'.pc = (IF pos = consumer.until THEN "revstore" ELSE "rev")
      /\ consumer'.at = pos /\ consumer'.keepAt = to /\ consumer'.got = got
      /\ consumer'.until = consumer.until
  BY <1>0, <1>7 DEF ConsumerCalls
<1>9. /\ Unseen' = Unseen - 1 /\ KeptAt' = toAt /\ inQueue' = inQueue
  <2>1. inQueue' = inQueue
    BY <1>1, <1>8 DEF inQueue, Available, m_bufSize
  <2> QED
    BY <1>1, <1>5, <1>6, <1>8, <2>1 DEF Unseen, KeptAt, Available, m_bufSize
<1>10. Kept' = (IF keep THEN Kept + 1 ELSE Kept)
       /\ (keep => got[1] = val /\ \A j \in 2..(Kept + 1) : got[j] = consumer.got[j - 1])
  <2>1. CASE keep
    <3>1. got = <<val>> \o consumer.got
      BY <2>1
    <3> HIDE DEF val
    <3>2. val \in T \cup {Nothing}
      BY <1>0, <1>5 DEF val
    <3>3. <<val>> \in Seq(T \cup {Nothing}) /\ Len(<<val>>) = 1 /\ <<val>>[1] = val
      BY <3>2
    <3>4. /\ Len(got) = 1 + Kept /\ got[1] = val
          /\ \A j \in 2..(Kept + 1) : got[j] = consumer.got[j - 1]
      BY <1>0, <1>3, <3>1, <3>3 DEF Kept
    <3>5. Kept' = Len(got)
      BY <1>8 DEF Kept
    <3> QED
      BY <1>3, <2>1, <3>4, <3>5
  <2>2. CASE ~keep
    BY <1>8, <2>2 DEF Kept
  <2> QED
    BY <2>1, <2>2
<1> HIDE DEF pos, to, val, got, toAt, n
<1>11. val = before[Unseen]
  <2>1. Unseen - 1 \in 0..(Unseen - 1) /\ (Unseen - 1) + 1 = Unseen
    BY <1>3, <1>4
  <2> QED
    BY <1>2, <1>5, <2>1 DEF val
<1>12. ASSUME NEW k \in 0..capacity, k # Unseen - 1, ~keep \/ k # toAt
       PROVE  m_buffer'[Ahead(m_outPos, k)] = m_buffer[Ahead(m_outPos, k)]
  <2>1. k \in 0..m_bufSize /\ Unseen - 1 \in 0..capacity /\ toAt \in 0..capacity
    BY <1>3, <1>4
  <2>2. Ahead(m_outPos, k) \in Slots
    BY <1>0, <2>1, AheadIs
  <2>3. Ahead(m_outPos, k) # pos
    BY <1>0, <1>5, <1>12, <2>1, AheadInjective
  <2>4. ~keep \/ Ahead(m_outPos, k) # to
    BY <1>0, <1>6, <1>12, <2>1, AheadInjective
  <2> QED
    BY <1>0, <1>7, <2>2, <2>3, <2>4
<1>13. ASSUME NEW k \in n..capacity
       PROVE  m_buffer'[Ahead(m_outPos, k)] = m_buffer[Ahead(m_outPos, k)]
  <2>1. k \in 0..capacity /\ k # Unseen - 1 /\ (~keep \/ k # toAt)
    BY <1>2, <1>3, <1>4 DEF toAt
  <2> QED
    BY <1>12, <2>1
<1>14. keep => m_buffer'[to] = val
  BY <1>0, <1>5, <1>6, <1>7 DEF val
<1>15. ASSUME NEW j \in 0..((Unseen - 1) - 1) PROVE m_buffer'[Ahead(m_outPos, j)] = before[j + 1]
  <2>1. j \in 0..capacity /\ j # Unseen - 1 /\ j # toAt /\ j \in 0..(Unseen - 1)
    BY <1>3, <1>4
  <2> QED
    BY <1>2, <1>12, <2>1
<1>16. ASSUME NEW j \in 1..Kept' PROVE m_buffer'[Ahead(m_outPos, toAt + (j - 1))] = got[j]
  <2>1. CASE keep /\ j = 1
    <3>1. toAt + (j - 1) = toAt
      BY <1>4, <2>1
    <3> QED
      BY <1>6, <1>10, <1>14, <2>1, <3>1
  <2>2. CASE keep /\ j # 1
    <3>1. j \in 2..(Kept + 1) /\ j - 1 \in 1..Kept
      BY <1>3, <1>10, <2>2
    <3>2. toAt + (j - 1) = KeptAt + ((j - 1) - 1)
      BY <1>3, <2>2, <3>1 DEF toAt
    <3>3. KeptAt + ((j - 1) - 1) \in 0..capacity /\ KeptAt + ((j - 1) - 1) # Unseen - 1
          /\ KeptAt + ((j - 1) - 1) # toAt
      BY <1>2, <1>3, <1>4, <2>2, <3>1 DEF toAt
    <3>4. m_buffer'[Ahead(m_outPos, KeptAt + ((j - 1) - 1))]
          = m_buffer[Ahead(m_outPos, KeptAt + ((j - 1) - 1))]
      BY <1>12, <3>3
    <3>5. m_buffer[Ahead(m_outPos, KeptAt + ((j - 1) - 1))] = consumer.got[j - 1]
      BY <1>2, <3>1
    <3>6. got[j] = consumer.got[j - 1]
      BY <1>10, <2>2, <3>1
    <3> QED
      BY <3>2, <3>4, <3>5, <3>6
  <2>3. CASE ~keep
    <3>1. j \in 1..Kept /\ toAt = KeptAt /\ got = consumer.got
      BY <1>10, <2>3 DEF toAt, got
    <3>2. KeptAt + (j - 1) \in 0..capacity /\ KeptAt + (j - 1) # Unseen - 1
      BY <1>2, <1>3, <1>4, <3>1
    <3>3. m_buffer'[Ahead(m_outPos, KeptAt + (j - 1))] = m_buffer[Ahead(m_outPos, KeptAt + (j - 1))]
      BY <1>12, <2>3, <3>2
    <3> QED
      BY <1>2, <3>1, <3>3
  <2> QED
    BY <2>1, <2>2, <2>3
<1>17. Chosen'
  <2>1. PICK places \in [1..Kept -> (Unseen + 1)..n] :
          Increasing(places) /\ \A j \in 1..Kept : consumer.got[j] = before[places[j]]
    BY <1>2 DEF Chosen, n
  <2>2. \A i, j \in 1..Kept : i < j => places[i] < places[j]
    BY <2>1 DEF Increasing
  <2> SUFFICES \E more \in [1..Kept' -> ((Unseen - 1) + 1)..n] :
                 Increasing(more) /\ \A j \in 1..Kept' : got[j] = before[more[j]]
    BY <1>1, <1>8, <1>9 DEF Chosen, n
  <2>3. CASE keep
    <3> DEFINE more == [j \in 1..Kept' |-> IF j = 1 THEN Unseen ELSE places[j - 1]]
    <3>1. Kept' = Kept + 1
      BY <1>10, <2>3
    <3>2. \A j \in 1..(Kept + 1) : j = 1 \/ (j - 1 \in 1..Kept /\ j \in 2..(Kept + 1))
      BY <1>3
    <3>3. \A j \in 1..Kept : places[j] \in (Unseen + 1)..n
      BY <2>1
    <3>4. ASSUME NEW j \in 1..Kept' PROVE more[j] \in ((Unseen - 1) + 1)..n
      <4>1. CASE j = 1
        BY <1>2, <1>3, <1>4, <4>1
      <4>2. CASE j # 1
        <5>1. places[j - 1] \in (Unseen + 1)..n
          BY <3>1, <3>2, <3>3, <4>2
        <5> QED
          BY <1>3, <4>2, <5>1
      <4> QED
        BY <4>1, <4>2
    <3>5. more \in [1..Kept' -> ((Unseen - 1) + 1)..n] /\ DOMAIN more = 1..Kept'
      BY <3>4
    <3>6. ASSUME NEW i \in 1..Kept', NEW j \in 1..Kept', i < j PROVE more[i] < more[j]
      <4>1. j # 1 /\ j - 1 \in 1..Kept
        BY <1>3, <3>1, <3>6
      <4>2. more[j] = places[j - 1] /\ places[j - 1] \in (Unseen + 1)..n
        BY <3>3, <4>1
      <4>3. CASE i = 1
        BY <1>3, <4>2, <4>3
      <4>4. CASE i # 1
        <5>1. i - 1 \in 1..Kept /\ i - 1 < j - 1
          BY <1>3, <3>1, <3>6, <4>4
        <5>2. more[i] = places[i - 1]
          BY <4>4
        <5> QED
          BY <2>2, <4>1, <4>2, <5>1, <5>2
      <4> QED
        BY <4>3, <4>4
    <3>7. ASSUME NEW j \in 1..Kept' PROVE got[j] = before[more[j]]
      <4>1. CASE j = 1
        BY <1>10, <1>11, <2>3, <4>1
      <4>2. CASE j # 1
        <5>1. j - 1 \in 1..Kept /\ j \in 2..(Kept + 1)
          BY <3>1, <3>2, <4>2
        <5>2. got[j] = consumer.got[j - 1] /\ consumer.got[j - 1] = before[places[j - 1]]
          BY <1>10, <2>1, <2>3, <5>1
        <5> QED
          BY <4>2, <5>2
      <4> QED
        BY <4>1, <4>2
    <3> HIDE DEF more
    <3>8. Increasing(more)
      BY <3>5, <3>6 DEF Increasing
    <3> QED
      BY <3>5, <3>7, <3>8
  <2>4. CASE ~keep
    <3>1. Kept' = Kept /\ got = consumer.got
      BY <1>10, <2>4 DEF got
    <3>2. (Unseen + 1)..n \subseteq ((Unseen - 1) + 1)..n
      BY <1>3
    <3>3. places \in [1..Kept' -> ((Unseen - 1) + 1)..n]
      BY <2>1, <3>1, <3>2
    <3> QED
      BY <2>1, <3>1, <3>3
  <2> QED
    BY <2>3, <2>4
<1>18. consumer'.pc \in Revs /\ consumer'.until = m_outPos' /\ (consumer'.pc = "revstore" <=> Unseen' = 0)
  <2>1. pos = m_outPos <=> Unseen - 1 = 0
    <3>1. 0 \in 0..capacity /\ Unseen - 1 \in 0..capacity
      BY <1>3, <1>4
    <3>2. Ahead(m_outPos, 0) = m_outPos
      BY <1>0, AheadRound
    <3> QED
      BY <1>0, <1>5, <3>1, <3>2, AheadInjective
  <2> QED
    BY <1>1, <1>2, <1>8, <1>9, <2>1 DEF Revs
<1>19. RevInv'
  <2>1. /\ n <= inQueue /\ Unseen - 1 <= toAt /\ toAt + Kept' = n
    BY <1>2, <1>3, <1>4, <1>10 DEF toAt
  <2>2. /\ Len(before') <= inQueue' /\ Unseen' <= KeptAt' /\ KeptAt' + Kept' = Len(before')
    BY <1>1, <1>9, <2>1 DEF n
  <2>3. \A j \in 0..(Unseen' - 1) : m_buffer'[Ahead(m_outPos', j)] = before'[j + 1]
    BY <1>1, <1>9, <1>15
  <2>4. \A j \in 1..Kept' : m_buffer'[Ahead(m_outPos', KeptAt' + (j - 1))] = consumer'.got[j]
    BY <1>1, <1>8, <1>9, <1>16
  <2> QED
    BY <1>17, <1>18, <2>2, <2>3, <2>4 DEF RevInv
<1>20. ConsumerInv'
  BY <1>18, <1>19 DEF ConsumerInv, TakeInv, FlushInv, RequeueInv, Requeues, Revs
<1>21. Typed'
  BY ConsumeTypes DEF QInv, consume
<1>22. QInv'
  <2>1. inQueue' = inQueue - 0 /\ 0 \in Nat /\ m_outPos' = Ahead(m_outPos, 0)
    BY <1>0, <1>1, <1>3, <1>9, AheadRound
  <2>2. \A k \in inQueue..capacity : m_buffer'[Ahead(m_outPos, k)] = m_buffer[Ahead(m_outPos, k)]
    <3> TAKE k \in inQueue..capacity
    <3>1. k \in n..capacity
      BY <1>2, <1>3
    <3> QED
      BY <1>13, <3>1
  <2>3. consumer'.pc \notin Requeues
    BY <1>18 DEF Requeues, Revs
  <2> QED
    BY <1>1, <1>20, <1>21, <2>1, <2>2, <2>3, ConsumerKeeps
<1> QED
  BY <1>1, <1>9, <1>13, <1>18, <1>22 DEF n
(* Every step of the consumer keeps it, too. *)
LEMMA ConsumerPreserves ==
  ASSUME QInv, ConsumerStep
  PROVE  QInv'
<1>1. CASE (call /\ UNCHANGED <<class, m_pushMtx>>) \/ for_each_requeue_load
  <2>1. UNCHANGED <<class, m_pushMtx>>
    BY <1>1 DEF for_each_requeue_load
  <2> QED
    BY <1>1, <2>1, CallKeeps
<1>2. CASE consume /\ UNCHANGED <<class, m_pushMtx>>
  BY <1>2, TakeMoveKeeps, TakeStoreKeeps, FlushKeeps, RevStoreKeeps, RevCallKeeps
     DEF consume
<1>3. CASE \E keep \in BOOLEAN : for_each_requeue_call(keep)
  BY <1>3, RequeueCallKeeps
<1>4. CASE for_each_requeue_keep \/ for_each_requeue_store
  BY <1>4, RequeueKeepKeeps, RequeueStoreKeeps
<1> QED
  BY <1>1, <1>2, <1>3, <1>4 DEF ConsumerStep, ConsumerWork

-----------------------------------------------------------------------------
(* At the start nobody is at work. *)
LEMMA InitQInv == Init => QInv
<1> SUFFICES ASSUME Init PROVE QInv
  OBVIOUS
<1>1. /\ producer = [p \in Producers |-> idleProducer] /\ consumer.pc = "idle"
      /\ m_pushMtx = NoOne
  BY DEF Init, QueueInit, idleConsumer
<1>2. \A p \in Producers : producer[p] = idleProducer /\ producer[p].pc = "idle"
  BY <1>1 DEF idleProducer
<1>3. Apart
  BY <1>1, <1>2, NoOneAssumption DEF Apart, ProducerAt, Requeues
<1>4. \A p \in Producers : ProducerInv(p)
  BY <1>2 DEF ProducerInv
<1>5. ConsumerInv
  BY <1>1 DEF ConsumerInv, TakeInv, FlushInv, RequeueInv, RevInv, Requeues, Revs
<1> QED
  BY <1>3, <1>4, <1>5, InitTyped DEF QInv

(* Nothing happens. *)
LEMMA StutterKeeps == QInv /\ UNCHANGED vars => QInv'
<1> SUFFICES ASSUME QInv, UNCHANGED vars PROVE QInv'
  OBVIOUS
<1>1. UNCHANGED <<m_buffer, m_inPos, m_outPos, producer, consumer, before, class, m_pushMtx>>
  BY DEF vars, queueVars
<1>2. inQueue' = inQueue
  BY <1>1, SameInQueue
<1>3. Typed' /\ Apart'
  BY <1>1 DEF QInv, Typed, Shapes, Blocks, Apart, ProducerAt, isShared, m_bufSize
<1>4. ASSUME NEW p \in Producers PROVE ProducerInv(p)'
  BY <1>1, <1>2 DEF QInv, ProducerInv, Room, Available, Ahead, m_bufSize, isShared
<1>5. ConsumerInv'
  BY <1>1, <1>2 DEF QInv, ConsumerInv, TakeInv, FlushInv, RequeueInv, RevInv, Chosen, ToGo, Unseen,
                    KeptAt, Kept, Available, Ahead, m_bufSize
<1> QED
  BY <1>3, <1>4, <1>5 DEF QInv

(* Every step keeps what the threads rely on, unless it overruns the queue. *)
LEMMA NextKeeps == ~overrun' /\ QInv /\ [Next]_vars => QInv'
BY ProducerPreserves, ConsumerPreserves, StutterKeeps DEF Next

(* A queue that has been overrun is so for ever, as far as the history goes. *)
LEMMA OverrunStays == overrun /\ [Next]_vars => overrun'
BY DEF Next, ProducerStep, Estimate, ConsumerStep, ConsumerWork, for_each_requeue_load,
       for_each_requeue_call, for_each_requeue_keep, for_each_requeue_store, vars

(* Until a push is accepted on a lapped ring, the threads can rely on it: the   *)
(* slots that a producer found free stay free until it has stored m_inPos,     *)
(* those that the consumer found are the queue's until it has stored m_outPos, *)
(* and only one producer is at work.                                           *)
THEOREM ThreadsApart == Spec => [](overrun \/ QInv)
<1>1. (overrun \/ QInv) /\ [Next]_vars => (overrun \/ QInv)'
  BY NextKeeps, OverrunStays
<1> QED
  BY <1>1, InitQInv, PTL DEF Spec

(* A queue without a mutex is never overrun: for_each_requeue is not its own.   *)
LEMMA NotLappedAlone ==
  ASSUME QInv, ~isShared
  PROVE  ~Lapped
BY DEF QInv, Apart, Requeues, Lapped

(* So its threads rely on it always. *)
LEMMA NeverOverrunAlone == Spec /\ class = "circular_queue" => [](~overrun /\ QInv)
<1> DEFINE J == class = "circular_queue" /\ ~overrun /\ QInv
<1>1. Init /\ class = "circular_queue" => J
  BY InitQInv DEF Init
<1>2. J /\ [Next]_vars => J'
  <2> SUFFICES ASSUME J, [Next]_vars PROVE J'
    OBVIOUS
  <2>1. ~isShared /\ ~Lapped
    BY NotLappedAlone DEF isShared
  <2>2. CASE \E p \in Producers : ProducerStep(p) \/ Estimate(p)
    <3>1. class' = class /\ (overrun' => overrun \/ Lapped)
      <4> PICK p \in Producers : ProducerStep(p) \/ Estimate(p)
        BY <2>2
      <4>1. CASE ProducerStep(p)
        BY <4>1 DEF ProducerStep, ProducerAt
      <4>2. CASE Estimate(p)
        BY <4>2 DEF Estimate
      <4> QED
        BY <4>1, <4>2
    <3>2. ~overrun'
      BY <2>1, <3>1
    <3> QED
      BY <3>1, <3>2, NextKeeps
  <2>3. CASE ConsumerStep \/ UNCHANGED vars
    <3>1. UNCHANGED <<class, overrun>>
      BY <2>3 DEF ConsumerStep, ConsumerWork, for_each_requeue_load, for_each_requeue_call,
                  for_each_requeue_keep, for_each_requeue_store, vars
    <3> QED
      BY <3>1, NextKeeps
  <2> QED
    BY <2>2, <2>3 DEF Next
<1>3. J => ~overrun /\ QInv
  OBVIOUS
<1> HIDE DEF J
<1> QED
  BY <1>1, <1>2, <1>3, PTL DEF Spec
=============================================================================
