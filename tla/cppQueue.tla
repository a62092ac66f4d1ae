------------------------------ MODULE cppQueue ------------------------------
(***************************************************************************)
(* cppQueue.cpp: the ring of rec_nb slots that holds the messages waiting  *)
(* to be sent.  GsmLogic.ino makes it a FIFO of 5 records that refuses a   *)
(* record when full; the library's other kinds are modelled with it.       *)
(* Records are copied whole, so a slot holds a record; the queue is one    *)
(* whose malloc succeeded, its slots holding what was there.               *)
(***************************************************************************)
EXTENDS Integers, Sequences

CONSTANTS
  Records,
  Garbage,     \* what a slot holds that was never written
  rec_nb

ASSUME RecordsAssumption == Garbage \notin Records /\ {"true", "false", "void"} \cap Records = {}
ASSUME CapacityAssumption == rec_nb \in 1..65535

VARIABLES impl, ovw, queue, in, out, cnt, answer

vars == <<impl, ovw, queue, in, out, cnt, answer>>

Slots == 0..(rec_nb - 1)

Init ==
  /\ impl \in {"FIFO", "LIFO"} /\ ovw \in BOOLEAN
  /\ queue = [s \in Slots |-> Garbage]
  /\ in = 0 /\ out = 0 /\ cnt = 0 /\ answer = "void"

IncPastEnd(idx) == IF idx < rec_nb THEN idx + 1 ELSE 0                        \* mutant

Inc(idx) == IF idx < rec_nb - 1 THEN idx + 1 ELSE 0
Dec(idx) == IF idx > 0 THEN idx - 1 ELSE rec_nb - 1

isFull  == cnt = rec_nb
isEmpty == cnt = 0

flush ==
  /\ in' = 0 /\ out' = 0 /\ cnt' = 0 /\ answer' = "void"
  /\ UNCHANGED <<impl, ovw, queue>>

pushKeepingOut(r) ==            \* mutant: `out' stays on the record just overwritten
  /\ ~(isFull /\ ~ovw)
  /\ queue' = [queue EXCEPT ![in] = r] /\ in' = Inc(in)
  /\ cnt' = IF isFull THEN cnt ELSE cnt + 1
  /\ answer' = "true"
  /\ UNCHANGED <<impl, ovw, out>>

push(r) ==
  /\ ~(isFull /\ ~ovw)
  /\ queue' = [queue EXCEPT ![in] = r] /\ in' = Inc(in)
  /\ cnt' = IF isFull THEN cnt ELSE cnt + 1
  /\ out' = IF isFull /\ impl = "FIFO" THEN Inc(out) ELSE out
  /\ answer' = "true"
  /\ UNCHANGED <<impl, ovw>>

pushRefused == isFull /\ ~ovw /\ answer' = "false" /\ UNCHANGED <<impl, ovw, queue, in, out, cnt>>

(* The slot of the record that peek returns and that pop and drop remove. *)
NextSlot == IF impl = "FIFO" THEN out ELSE Dec(in)

remove ==
  /\ ~isEmpty /\ cnt' = cnt - 1
  /\ IF impl = "FIFO" THEN out' = Inc(out) /\ UNCHANGED in ELSE in' = Dec(in) /\ UNCHANGED out
  /\ UNCHANGED <<impl, ovw, queue>>

pop  == remove /\ answer' = queue[NextSlot]
drop == remove /\ answer' = "true"
peek == ~isEmpty /\ answer' = queue[NextSlot] /\ UNCHANGED <<impl, ovw, queue, in, out, cnt>>

(* pop, drop and peek of an empty queue. *)
nothingThere == isEmpty /\ answer' = "false" /\ UNCHANGED <<impl, ovw, queue, in, out, cnt>>

AtIdx(idx) == queue[IF impl = "FIFO" THEN (out + idx) % rec_nb ELSE idx]

peekIdx(idx) ==
  /\ answer' = IF idx + 1 > cnt THEN "false" ELSE AtIdx(idx)
  /\ UNCHANGED <<impl, ovw, queue, in, out, cnt>>

(* An empty queue's index wraps to 65535, which peekIdx refuses. *)
peekPrevious == peekIdx((cnt - 1) % 65536)

Next ==
  \/ flush \/ pushRefused \/ pop \/ drop \/ peek \/ nothingThere \/ peekPrevious
  \/ \E r \in Records : push(r)
  \/ \E idx \in 0..rec_nb : peekIdx(idx)

Spec == Init /\ [][Next]_vars

-----------------------------------------------------------------------------
(* Positions and the count keep to the ring, and reading never answers with     *)
(* what was in a slot before it was written.                                   *)
TypeOK ==
  /\ impl \in {"FIFO", "LIFO"} /\ ovw \in BOOLEAN
  /\ queue \in [Slots -> Records \cup {Garbage}]
  /\ in \in Slots /\ out \in Slots /\ cnt \in 0..rec_nb
  /\ answer \in Records \cup {"true", "false", "void"}

(* The contents, the oldest first: the cnt slots that end before `in'. *)
Contents == [i \in 1..cnt |-> queue[(in - cnt + i - 1) % rec_nb]]

Promise == INSTANCE BoundedQueue
             WITH Capacity <- rec_nb, contents <- Contents

(* Whatever the calls and however often the ring wraps, the queue answers as a  *)
(* bounded sequence does: nothing is lost, doubled or handed out of turn, and  *)
(* a full queue refuses a record or forgets just the oldest.                   *)
KeepsPromise == Promise!QueueSpec
=============================================================================
