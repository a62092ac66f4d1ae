---------------------------- MODULE BoundedQueue ----------------------------
(***************************************************************************)
(* What cppQueue.h promises of a queue of Capacity records, FIFO or LIFO,  *)
(* that refuses a record when it is full or overwrites its oldest one.     *)
(* The contents are a sequence, the oldest record first; `answer' is what  *)
(* the last call returned: a record, or "true", "false" or "void".         *)
(***************************************************************************)
EXTENDS Integers, Sequences

CONSTANTS Records, Capacity

VARIABLES impl, ovw, contents, answer

queueVars == <<impl, ovw, contents, answer>>

QueueInit ==
  /\ impl \in {"FIFO", "LIFO"} /\ ovw \in BOOLEAN
  /\ contents = <<>> /\ answer = "void"

Flush == contents' = <<>> /\ answer' = "void"

(* A full queue that may not overwrite keeps what it holds. *)
Push(r) ==
  IF Len(contents) < Capacity \/ ovw
  THEN /\ contents' = Append(IF Len(contents) = Capacity THEN Tail(contents) ELSE contents, r)
       /\ answer' = "true"
  ELSE answer' = "false" /\ UNCHANGED contents

(* The record that leaves the queue next, and the queue without it. *)
Next1 == IF impl = "FIFO" THEN Head(contents) ELSE contents[Len(contents)]
Rest  == IF impl = "FIFO" THEN Tail(contents)
         ELSE SubSeq(contents, 1, Len(contents) - 1)

Pop ==
  IF contents = <<>> THEN answer' = "false" /\ UNCHANGED contents
  ELSE contents' = Rest /\ answer' = Next1

Drop ==
  IF contents = <<>> THEN answer' = "false" /\ UNCHANGED contents
  ELSE contents' = Rest /\ answer' = "true"

Peek ==
  /\ answer' = IF contents = <<>> THEN "false" ELSE Next1
  /\ UNCHANGED contents

(* Records are numbered from the oldest.  Nothing is promised of the numbers in *)
(* a LIFO queue that overwrites: it need not remember where its oldest is.     *)
PeekIdx(idx) ==
  /\ CASE idx >= Len(contents)        -> answer' = "false"
       [] idx < Len(contents) /\ impl = "LIFO" /\ ovw -> answer' \in Records
       [] OTHER                       -> answer' = contents[idx + 1]
  /\ UNCHANGED contents

QueueNext ==
  /\ \/ Flush \/ Pop \/ Drop \/ Peek
     \/ \E r \in Records : Push(r)
     \/ \E idx \in 0..Capacity : PeekIdx(idx)
  /\ UNCHANGED <<impl, ovw>>

QueueSpec == QueueInit /\ [][QueueNext]_queueVars
=============================================================================
