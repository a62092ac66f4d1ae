---------------------------- MODULE FifoChannel ----------------------------
(***************************************************************************)
(* What circular_queue.h and circular_queue_mp.h promise: a sequence of at *)
(* most Capacity elements, to which producers append and from which one    *)
(* consumer takes, every change at one moment of the call that makes it.   *)
(* `offered' holds what each producer has called push or push_n with, and  *)
(* `answer' says who got an answer in the last step, if anybody did, and   *)
(* which one: <<n>> for a number, or the elements that were handed out.    *)
(***************************************************************************)
EXTENDS Integers, Sequences

CONSTANTS Elements, Nothing, Capacity, ProducerThreads, ConsumerThread

VARIABLES
  contents, offered, answer,
  putBack     \* an element that was put back takes up its old slot as well

channelVars == <<contents, offered, answer, putBack>>

ChannelInit ==
  /\ contents = <<>> /\ offered = [t \in ProducerThreads |-> <<>>]
  /\ answer = <<>> /\ putBack = FALSE

Return(t, a) == answer' = <<[to |-> t, is |-> a]>>

Room == Capacity - Len(contents) - IF putBack THEN 1 ELSE 0

(* A producer calls push or push_n. *)
Call(t) ==
  /\ offered[t] = <<>> /\ offered' = [offered EXCEPT ![t] = offered'[t]]
  /\ offered'[t] \in Seq(Elements) \ {<<>>}
  /\ answer' = <<>> /\ UNCHANGED <<contents, putBack>>

(* The call is over, and has appended n of the elements. *)
Answer(t, n) ==
  /\ offered[t] # <<>> /\ offered' = [offered EXCEPT ![t] = <<>>]
  /\ Return(t, <<n>>) /\ UNCHANGED putBack

(* Some of the elements offered are appended, the first ones and in order, and  *)
(* none only if the queue is full.                                             *)
Enqueue(t) ==
  \E n \in 1..Len(offered[t]) :
    /\ n <= Room
    /\ contents' = contents \o SubSeq(offered[t], 1, n) /\ Answer(t, n)

Refuse(t) == Room <= 0 /\ Answer(t, 0) /\ UNCHANGED contents

(* The room that is there at least, for a producer that is the only one. *)
AvailableForPush(t) ==
  /\ offered[t] = <<>>
  /\ \E n \in 0..Room : Return(t, <<n>>)
  /\ UNCHANGED <<contents, offered, putBack>>

(* pop, pop_n, for_each: the oldest elements are handed out, and none only if   *)
(* the queue is empty.                                                         *)
Dequeue ==
  \E n \in 1..Len(contents) :
    /\ contents' = SubSeq(contents, n + 1, Len(contents))
    /\ Return(ConsumerThread, SubSeq(contents, 1, n))

NothingThere == contents = <<>> /\ Return(ConsumerThread, <<>>) /\ UNCHANGED contents

(* flush, pop_n into no buffer: the oldest elements are dropped. *)
Discard ==
  \E n \in 0..Len(contents) :
    /\ contents' = SubSeq(contents, n + 1, Len(contents))
    /\ Return(ConsumerThread, <<>>)

Peek ==
  /\ \E e \in Elements \cup {Nothing} :
       (contents # <<>> => e = Head(contents)) /\ Return(ConsumerThread, <<e>>)
  /\ UNCHANGED contents

(* for_each_requeue: the oldest element becomes the newest, and its old slot is  *)
(* given free later.                                                           *)
Rotate ==
  /\ contents # <<>>
  /\ contents' = Append(Tail(contents), Head(contents))
  /\ Return(ConsumerThread, <<Head(contents)>>)
  /\ ~putBack /\ putBack' = TRUE /\ UNCHANGED offered

GiveFree ==
  /\ putBack /\ putBack' = FALSE
  /\ answer' = <<>> /\ UNCHANGED <<contents, offered>>

(* for_each_rev_requeue: of the n oldest elements just those stay for which the *)
(* callback asked, in their order.                                             *)
Increasing(places) ==
  \A i, j \in DOMAIN places : i < j => places[i] < places[j]

Keep ==
  \E n \in 0..Len(contents) : \E m \in 0..n : \E places \in [1..m -> 1..n] :
    LET kept == [j \in 1..m |-> contents[places[j]]]
    IN  /\ Increasing(places)
        /\ contents' = kept \o SubSeq(contents, n + 1, Len(contents))
        /\ Return(ConsumerThread, kept)

NoAnswer == answer' = <<>> /\ UNCHANGED contents

ChannelNext ==
  \/ \E t \in ProducerThreads : Call(t) \/ Enqueue(t) \/ Refuse(t) \/ AvailableForPush(t)
  \/ /\ Dequeue \/ NothingThere \/ Discard \/ Peek \/ Keep \/ NoAnswer
     /\ UNCHANGED <<offered, putBack>>
  \/ Rotate \/ GiveFree

ChannelSpec == ChannelInit /\ [][ChannelNext]_channelVars
=============================================================================
