--------------------------- MODULE circular_queue ---------------------------
(***************************************************************************)
(* circular_queue.h: a ring buffer between a producer and a consumer that  *)
(* take no lock.  Each thread owns one of the two positions and reads the  *)
(* other one's; a slot more than the capacity tells full from empty.  One  *)
(* action per access to what the threads share, in the order the fences    *)
(* give them.  An access to a position that only the same thread changes   *)
(* is part of the action that follows it.                                  *)
(*   The methods that a compiler must refuse to instantiate (capacity(n),  *)
(* and those that copy a unique_ptr) are left out.                         *)
(***************************************************************************)
EXTENDS Integers, Sequences, FiniteSets

CONSTANTS
  Producers,
  Consumer,
  T,           \* what the elements may be
  Nothing,     \* a slot never written, or moved from
  capacity,
  MaxBlock     \* bound: how many elements push_n or pop_n is asked for

ASSUME ThreadsAssumption == Consumer \notin Producers
ASSUME CapacityAssumption == capacity \in 1..65535      \* AsSize can tell it
ASSUME ElementsAssumption == Nothing \notin T
ASSUME BoundsAssumption == MaxBlock \in Nat \ {0}

VARIABLES
  m_buffer, m_inPos, m_outPos,
  producer,    \* where each producer's call stands, with its local variables
  consumer,    \* the same of the consumer's call
  answer,      \* who got which answer in the last step, if anybody did
  before       \* what for_each_rev_requeue found in the queue

queueVars == <<m_buffer, m_inPos, m_outPos, producer, consumer, answer, before>>

m_bufSize == capacity + 1
Slots     == 0..(m_bufSize - 1)

Lesser(a, b) == IF a < b THEN a ELSE b

Available(in, out)        == (in - out) % m_bufSize
available_for_push(in, out) == (out - in - 1) % m_bufSize

idleProducer == [pc |-> "idle", how |-> "push", es |-> <<>>, at |-> 0, first |-> 0, second |-> 0]
idleConsumer == [pc |-> "idle", at |-> 0, until |-> 0, n |-> 0, keepAt |-> 0, got |-> <<>>]

QueueInit ==
  /\ m_buffer = [s \in Slots |-> Nothing] /\ m_inPos = 0 /\ m_outPos = 0
  /\ producer = [p \in Producers |-> idleProducer] /\ consumer = idleConsumer
  /\ answer = <<>>
  /\ before = <<>>

-----------------------------------------------------------------------------
(* The producer.  push moves one element, push_n copies up to two blocks, and   *)
(* pushpeek has its caller write into the next slot, which push() releases.    *)
ProducerAt(p, place) == producer[p].pc = place

Return(t, a) == answer' = <<[to |-> t, is |-> a]>>
NoAnswer     == answer' = <<>>

ProducerReturns(p, n) ==
  /\ Return(p, <<n>>)
  /\ producer' = [producer EXCEPT ![p] = idleProducer]

Offer(p, how, es) ==      \* the elements es, and m_inPos is loaded
  /\ ProducerAt(p, "idle")
  /\ producer' = [producer EXCEPT ![p] = [idleProducer EXCEPT !.pc = "test", !.how = how,
                    !.at = m_inPos, !.es = es]]
  /\ NoAnswer /\ UNCHANGED <<m_inPos, m_outPos, consumer, before>>

push_load(p)       == (\E e \in T : Offer(p, "push", <<e>>)) /\ UNCHANGED m_buffer
push_n_load(p, es) == Offer(p, "push_n", es) /\ UNCHANGED m_buffer

pushpeek(p) ==
  \E e \in T : Offer(p, "pushpeek", <<e>>) /\ m_buffer' = [m_buffer EXCEPT ![m_inPos] = e]

(* The sizes of push_n's blocks: from inPos to the end or to the consumer, and  *)
(* then from the start of the buffer.                                          *)
AsSize(n) == n % 65536     \* size_t: what would be negative is more than any size

firstBlock(in, out, n) ==
  Lesser(n, IF out > in THEN out - 1 - in
            ELSE IF out = 0 THEN m_bufSize - 1 - in ELSE m_bufSize - in)
secondBlockPastOut(in, out, n) ==                                             \* mutant
  LET next == (in + firstBlock(in, out, n)) % m_bufSize
  IN  Lesser(n - firstBlock(in, out, n), IF out > 0 THEN AsSize(out - next) ELSE 0)
secondBlock(in, out, n) ==
  LET next == (in + firstBlock(in, out, n)) % m_bufSize
  IN  Lesser(n - firstBlock(in, out, n), IF out > 1 THEN AsSize(out - next - 1) ELSE 0)

isFull(in, out) == (in + 1) % m_bufSize = out

(* m_outPos is loaded: is there room? *)
push_test(p) ==
  LET c == producer[p]
      n == Len(c.es)
      first  == IF c.how = "push_n" THEN firstBlock(c.at, m_outPos, n)
                ELSE IF isFull(c.at, m_outPos) THEN 0 ELSE 1
      second == IF c.how = "push_n" THEN secondBlock(c.at, m_outPos, n) ELSE 0
  IN  /\ ProducerAt(p, "test")
      /\ IF first = 0 THEN ProducerReturns(p, 0)
         ELSE /\ producer' = [producer EXCEPT
                   ![p].pc = IF c.how = "pushpeek" THEN "store" ELSE "write",
                   ![p].first = first, ![p].second = second]
              /\ NoAnswer
      /\ UNCHANGED <<m_buffer, m_inPos, m_outPos, consumer, before>>

(* The second block goes to the first slots of the buffer. *)
push_write(p) ==
  LET c == producer[p] IN
  /\ ProducerAt(p, "write")
  /\ m_buffer' = [s \in Slots |-> CASE s \in c.at..(c.at + c.first - 1) -> c.es[s - c.at + 1]
                                    [] s < c.second -> c.es[c.first + s + 1]
                                    [] OTHER -> m_buffer[s]]
  /\ producer' = [producer EXCEPT ![p].pc = "store"]
  /\ NoAnswer /\ UNCHANGED <<m_inPos, m_outPos, consumer, before>>

push_store(p) ==
  LET c == producer[p] IN
  /\ ProducerAt(p, "store")
  /\ m_inPos' = ((c.at + c.first) % m_bufSize) + c.second
  /\ ProducerReturns(p, c.first + c.second)
  /\ UNCHANGED <<m_buffer, m_outPos, consumer, before>>

(* available_for_push loads m_outPos first. *)
available_load(p) ==
  /\ ProducerAt(p, "idle")
  /\ producer' = [producer EXCEPT ![p].pc = "available", ![p].at = m_outPos]
  /\ NoAnswer /\ UNCHANGED <<m_buffer, m_inPos, m_outPos, consumer, before>>

available_return(p) ==
  /\ ProducerAt(p, "available")
  /\ ProducerReturns(p, available_for_push(m_inPos, producer[p].at))
  /\ UNCHANGED <<m_buffer, m_inPos, m_outPos, consumer, before>>

-----------------------------------------------------------------------------
(* The consumer.  m_outPos is its own, so a call starts with the load of        *)
(* m_inPos, which decides how far it goes.                                     *)
ConsumerIdle == consumer.pc = "idle"

ConsumerReturns(a) == Return(Consumer, a) /\ consumer' = idleConsumer

Begin(place, at, n, until) ==
  /\ consumer' = [idleConsumer EXCEPT !.pc = place, !.at = at, !.n = n, !.until = until,
                    !.keepAt = IF place = "rev" THEN at ELSE 0]
  /\ NoAnswer

pop_load ==
  /\ ConsumerIdle
  /\ IF m_inPos = m_outPos THEN ConsumerReturns(<<>>)
     ELSE Begin("move", m_outPos, 1, (m_outPos + 1) % m_bufSize)
  /\ UNCHANGED <<m_buffer, m_inPos, m_outPos, producer, before>>

pop_n_load(n) ==
  LET size == Lesser(n, Available(m_inPos, m_outPos)) IN
  /\ ConsumerIdle
  /\ IF size = 0 THEN ConsumerReturns(<<>>)
     ELSE Begin("move", m_outPos, size, (m_outPos + size) % m_bufSize)
  /\ UNCHANGED <<m_buffer, m_inPos, m_outPos, producer, before>>

for_each_load ==
  /\ ConsumerIdle
  /\ IF m_inPos = m_outPos THEN ConsumerReturns(<<>>)
     ELSE Begin("move", m_outPos, 1, m_inPos)
  /\ UNCHANGED <<m_buffer, m_inPos, m_outPos, producer, before>>

(* The n elements from m_outPos are moved out: two blocks, as in push_n. *)
take_move ==
  LET first == Lesser(consumer.n, m_bufSize - consumer.at)
      slot(i) == IF i <= first THEN consumer.at + i - 1 ELSE i - first - 1
  IN  /\ consumer.pc = "move"
      /\ consumer' = [consumer EXCEPT !.pc = "store",
                        !.got = [i \in 1..consumer.n |-> m_buffer[slot(i)]]]
      /\ m_buffer' = [s \in Slots |-> IF \E i \in 1..consumer.n : slot(i) = s THEN Nothing
                                      ELSE m_buffer[s]]
      /\ NoAnswer /\ UNCHANGED <<m_inPos, m_outPos, producer, before>>

take_storeUnwrapped ==                   \* mutant: the end of the buffer is not noticed
  LET next == consumer.at + consumer.n IN
  /\ consumer.pc = "store"
  /\ m_outPos' = next
  /\ Return(Consumer, consumer.got)
  /\ consumer' = IF next = consumer.until THEN idleConsumer
                 ELSE [consumer EXCEPT !.pc = "move", !.at = next, !.got = <<>>]
  /\ UNCHANGED <<m_buffer, m_inPos, producer, before>>

(* The slots are released; for_each goes on until it is where m_inPos was. *)
take_store ==
  LET next == (consumer.at + consumer.n) % m_bufSize IN
  /\ consumer.pc = "store"
  /\ m_outPos' = next
  /\ Return(Consumer, consumer.got)
  /\ consumer' = IF next = consumer.until THEN idleConsumer
                 ELSE [consumer EXCEPT !.pc = "move", !.at = next, !.got = <<>>]
  /\ UNCHANGED <<m_buffer, m_inPos, producer, before>>

(* m_outPos is stored.  What stays behind in a slot that is not the queue's any *)
(* more is forgotten: nobody may read it before it is written again.           *)
Release(to) ==
  /\ m_outPos' = to
  /\ m_buffer' = [s \in Slots |-> IF Available(s, m_outPos) < Available(to, m_outPos) THEN Nothing
                                  ELSE m_buffer[s]]

(* pop_n into no buffer, and flush: the elements up to the m_inPos that was     *)
(* loaded are dropped.                                                         *)
flush_load(n) ==
  /\ ConsumerIdle
  /\ Begin("flush", m_outPos, 0, (m_outPos + Lesser(n, Available(m_inPos, m_outPos))) % m_bufSize)
  /\ UNCHANGED <<m_buffer, m_inPos, m_outPos, producer, before>>

flush_store ==
  /\ consumer.pc = "flush"
  /\ Release(consumer.until) /\ ConsumerReturns(<<>>)
  /\ UNCHANGED <<m_inPos, producer, before>>

(* peek looks at its slot whether or not it holds an element. *)
peek ==
  /\ ConsumerIdle /\ ConsumerReturns(<<m_buffer[m_outPos]>>)
  /\ UNCHANGED <<m_buffer, m_inPos, m_outPos, producer, before>>

(* for_each_rev_requeue goes from the newest element to the oldest and moves    *)
(* those to keep up against the m_inPos that it loaded.                        *)
Between(from, to) ==
  [i \in 1..Available(to, from) |-> m_buffer[(from + i - 1) % m_bufSize]]

for_each_rev_requeue_load ==
  /\ ConsumerIdle
  /\ IF m_inPos = m_outPos THEN ConsumerReturns(<<>>) /\ UNCHANGED before
     ELSE Begin("rev", m_inPos, 0, m_outPos) /\ before' = Between(m_outPos, m_inPos)
  /\ UNCHANGED <<m_buffer, m_inPos, m_outPos, producer>>

Previous(pos) == (pos + m_bufSize - 1) % m_bufSize

for_each_rev_requeue_call(keep) ==
  LET pos == Previous(consumer.at)
      to  == IF keep THEN Previous(consumer.keepAt) ELSE consumer.keepAt
      val == m_buffer[pos]
  IN  /\ consumer.pc = "rev"
      /\ m_buffer' = IF keep /\ to # pos THEN [m_buffer EXCEPT ![to] = val, ![pos] = Nothing]
                     ELSE m_buffer
      /\ consumer' = [consumer EXCEPT !.at = pos, !.keepAt = to,
                        !.got = IF keep THEN <<val>> \o @ ELSE @,
                        !.pc = IF pos = consumer.until THEN "revstore" ELSE "rev"]
      /\ NoAnswer /\ UNCHANGED <<m_inPos, m_outPos, producer, before>>

for_each_rev_requeue_store ==
  /\ consumer.pc = "revstore"
  /\ Release(consumer.keepAt) /\ ConsumerReturns(consumer.got) /\ before' = <<>>
  /\ UNCHANGED <<m_inPos, producer>>

-----------------------------------------------------------------------------
produce(p) == push_test(p) \/ push_write(p) \/ push_store(p) \/ available_return(p)

call ==
  \/ pop_load \/ for_each_load \/ peek \/ for_each_rev_requeue_load
  \/ \E n \in 1..MaxBlock : pop_n_load(n)
  \/ \E n \in {MaxBlock, capacity} : flush_load(n)

consume ==
  \/ take_move \/ take_store \/ flush_store \/ for_each_rev_requeue_store
  \/ \E keep \in BOOLEAN : for_each_rev_requeue_call(keep)
=============================================================================
