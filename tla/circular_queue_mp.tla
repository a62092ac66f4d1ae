------------------------- MODULE circular_queue_mp -------------------------
(***************************************************************************)
(* circular_queue_mp.h: several producers, whose calls a mutex keeps       *)
(* apart, and a consumer that takes it only to put an element back.  The   *)
(* class derives from circular_queue, which is modelled along with it: it  *)
(* has no mutex, and its clients are one producer at a time.               *)
(***************************************************************************)
EXTENDS circular_queue

CONSTANT NoOne

ASSUME NoOneAssumption == NoOne \notin Producers

VARIABLES
  class, m_pushMtx,     \* the class of the queue, the mutex's holder
  overrun               \* history: has a push been accepted while the ring was lapped?

vars == <<queueVars, class, m_pushMtx, overrun>>

Init ==
  /\ QueueInit
  /\ class \in {"circular_queue", "circular_queue_mp"} /\ m_pushMtx = NoOne
  /\ overrun = FALSE

isShared == class = "circular_queue_mp"

(* A queue without a mutex has a single producer.                              *)
isSole(p) == p = CHOOSE q \in Producers : TRUE

(* for_each_requeue puts an element back without asking whether the queue is    *)
(* full.  If it was, m_inPos has run into m_outPos until the old slot of that   *)
(* element is released, as it is when the queue is empty: a push then finds     *)
(* room that is not there.                                                     *)
Lapped == consumer.pc = "release" /\ m_inPos = m_outPos

start(p) == push_load(p) \/ \E n \in 1..MaxBlock : \E es \in [1..n -> T] : push_n_load(p, es)

lockedUnguarded(p) ==                           \* mutant: two producers may be at work
  \/ start(p) /\ UNCHANGED m_pushMtx
  \/ (push_test(p) \/ push_write(p) \/ push_store(p)) /\ UNCHANGED m_pushMtx

(* The mutex is held from the load of m_inPos to the return. *)
locked(p) ==
  \/ m_pushMtx = NoOne /\ start(p) /\ m_pushMtx' = p
  \/ /\ push_test(p) \/ push_write(p) \/ push_store(p)
     /\ m_pushMtx' = IF producer'[p].pc = "idle" THEN NoOne ELSE p

ProducerStep(p) ==
  /\ IF isShared THEN locked(p)
     ELSE /\ isSole(p) /\ (start(p) \/ pushpeek(p) \/ push_test(p) \/ push_write(p) \/ push_store(p))
          /\ UNCHANGED m_pushMtx
  /\ overrun' = (overrun \/ (Lapped /\ ProducerAt(p, "test")))
  /\ UNCHANGED class

(* With other producers about, the room may be gone before the answer is used.  *)
Estimate(p) ==
  /\ ~isShared /\ isSole(p)
  /\ available_load(p) \/ available_return(p)
  /\ UNCHANGED <<class, m_pushMtx, overrun>>

-----------------------------------------------------------------------------
for_each_requeue_load ==
  /\ isShared /\ ConsumerIdle
  /\ IF m_inPos = m_outPos THEN ConsumerReturns(<<>>)
     ELSE Begin("ask", m_outPos, 1, m_inPos)
  /\ UNCHANGED <<m_buffer, m_inPos, m_outPos, producer, before, class, m_pushMtx, overrun>>

(* The callback has the element and says whether it wants it back in the queue, *)
(* which needs the mutex.                                                      *)
for_each_requeue_call(keep) ==
  /\ consumer.pc = "ask"
  /\ consumer' = IF keep THEN [consumer EXCEPT !.pc = "lock"]
                 ELSE [consumer EXCEPT !.pc = "dropped", !.got = <<m_buffer[consumer.at]>>]
  /\ NoAnswer
  /\ UNCHANGED <<m_buffer, m_inPos, m_outPos, producer, before, class, m_pushMtx, overrun>>

for_each_requeue_keep ==
  /\ consumer.pc = "lock" /\ m_pushMtx = NoOne
  /\ m_buffer' = [m_buffer EXCEPT ![consumer.at] = Nothing, ![m_inPos] = m_buffer[consumer.at]]
  /\ m_inPos' = (m_inPos + 1) % m_bufSize
  /\ consumer' = [consumer EXCEPT !.pc = "release"]
  /\ Return(Consumer, <<m_buffer[consumer.at]>>)
  /\ UNCHANGED <<m_outPos, producer, before, class, m_pushMtx, overrun>>

for_each_requeue_storeUntilEmpty ==      \* mutant: not up to where m_inPos was
  LET next == (consumer.at + 1) % m_bufSize IN
  /\ consumer.pc \in {"release", "dropped"}
  /\ Release(next)
  /\ IF consumer.pc = "dropped" THEN Return(Consumer, consumer.got) ELSE NoAnswer
  /\ consumer' = IF next = m_inPos THEN idleConsumer
                 ELSE [consumer EXCEPT !.pc = "ask", !.at = next, !.got = <<>>]
  /\ UNCHANGED <<m_inPos, producer, before, class, m_pushMtx, overrun>>

for_each_requeue_store ==
  LET next == (consumer.at + 1) % m_bufSize IN
  /\ consumer.pc \in {"release", "dropped"}
  /\ Release(next)
  /\ IF consumer.pc = "dropped" THEN Return(Consumer, consumer.got) ELSE NoAnswer
  /\ consumer' = IF next = consumer.until THEN idleConsumer
                 ELSE [consumer EXCEPT !.pc = "ask", !.at = next, !.got = <<>>]
  /\ UNCHANGED <<m_inPos, producer, before, class, m_pushMtx, overrun>>

ConsumerWork ==
  \/ consume /\ UNCHANGED <<class, m_pushMtx, overrun>>
  \/ \E keep \in BOOLEAN : for_each_requeue_call(keep)
  \/ for_each_requeue_keep \/ for_each_requeue_store

ConsumerStep == (call /\ UNCHANGED <<class, m_pushMtx, overrun>>) \/ for_each_requeue_load \/ ConsumerWork

Next == (\E p \in Producers : ProducerStep(p) \/ Estimate(p)) \/ ConsumerStep

(* Nobody has to call anything, but a call that has begun goes on, the threads  *)
(* being scheduled; and the mutex, free again and again, is had in the end.     *)
InCall(p) == producer[p].pc # "idle" /\ (ProducerStep(p) \/ Estimate(p))

Spec ==
  /\ Init /\ [][Next]_vars
  /\ \A p \in Producers : WF_vars(InCall(p))
  /\ WF_vars(ConsumerWork) /\ SF_vars(for_each_requeue_keep)

-----------------------------------------------------------------------------
(* Every position and every call keeps to its range. *)
TypeOK ==
  /\ m_buffer \in [Slots -> T \cup {Nothing}]
  /\ m_inPos \in Slots /\ m_outPos \in Slots
  /\ \A p \in Producers : producer[p].at \in Slots /\ producer[p].first + producer[p].second <= capacity
  /\ consumer.at \in Slots /\ consumer.until \in Slots 
  /\ consumer.keepAt \in Slots /\ consumer.n \in 0..capacity
  /\ m_pushMtx \in Producers \cup {NoOne}
  /\ overrun \in BOOLEAN

(* What is in the queue.  While the consumer is at work, some of it is no       *)
(* longer in its slot: it has been moved out but not released (take_move), put  *)
(* back but not released (for_each_requeue), or moved up (for_each_rev_requeue).*)
After(n) == Between((m_outPos + n) % m_bufSize, m_inPos)
Contents ==
  CASE consumer.pc = "store"               -> consumer.got \o After(consumer.n)
    [] consumer.pc = "release"             -> After(1)
    [] consumer.pc \in {"rev", "revstore"} -> before \o After(Len(before))
    [] OTHER                               -> After(0)

(* What the producers have called push or push_n with, and whether the old slot *)
(* of an element that was put back is still to be given free.                  *)
Offered == [p \in Producers |-> producer[p].es]
PutBack == consumer.pc = "release"

Promise == INSTANCE FifoChannel
             WITH Elements <- T, Capacity <- capacity, ProducerThreads <- Producers,
                  ConsumerThread <- Consumer, contents <- Contents, offered <- Offered,
                  putBack <- PutBack

(* Whatever the threads do between two accesses of a call, the queue is a       *)
(* sequence: no element is lost, doubled, overtaken or overwritten before it is *)
(* handed out, and a call fails only when the queue is full, or empty.  This is *)
(* what both classes say of push, pop and the rest (circular_queue_mp.h:76-123), *)
(* and it is not so: see overrun.                                              *)
Linearizable == Promise!ChannelSpec

(* The same as long as no push has been accepted on a lapped ring: that is the   *)
(* one way in which a queue stops being a sequence, for a queue without         *)
(* for_each_requeue it cannot happen, and up to then nothing else goes wrong.   *)
LinearizableUntilOverrun ==
  Promise!ChannelInit /\ [][overrun' \/ Promise!ChannelNext]_(Promise!channelVars)

(* "Lock-free": a call of the consumer ends, whatever the producers push in the *)
(* meantime.                                                                   *)
ConsumerReturnsAlways == [](~ConsumerIdle => <>ConsumerIdle)
=============================================================================
