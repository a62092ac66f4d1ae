------------------------------- MODULE Timer1 -------------------------------
(***************************************************************************)
(* Timer1Code.ino: the ticker's callback, which raises a flag each 10 ms,  *)
(* 100 ms and 1000 ms, and Timer1MailLoop, which loop() calls to run the   *)
(* handlers of the raised flags.  The callback runs in the timer's task on *)
(* the other core, so its steps fall anywhere between those of loop(); the *)
(* flags are all the two share.  Level 1 is 10 ms, 2 is 100 ms, 3 is 1 s.  *)
(* The 1 ms flag, raised with the 10 ms flag for a handler that is empty,  *)
(* is left out.                                                            *)
(***************************************************************************)
EXTENDS Integers

CONSTANT Ratio      \* how many ticks of a level make one of the next

ASSUME RatioAssumption == Ratio \in Nat \ {0}

VARIABLES
  raising,    \* the level whose flag the callback raises next; 1 between calls
  counter,    \* Timer1_10msCounter and Timer1_100msCounter
  flag,       \* Timer1_10ms_flag, Timer1_100ms_flag and Timer1_1000ms_flag
  at,         \* where loop() stands: <<"gsm", 3>> is GsmLogic_1sHandler, <<"gsm", 2>>
              \* GsmLogic_100msHandler and <<"gsm", 1>> GsmLogic_loop
  waiting     \* ghost: the levels with a tick after which no handler has started

timerVars == <<raising, counter, flag, at, waiting>>

Levels == 1..3
Places == {"test", "clear", "run"} \X Levels \cup {"gsm"} \X Levels \cup {<<"hung", 1>>}

TimerInit ==
  /\ raising = 1 /\ counter = [i \in 1..2 |-> 0]
  /\ flag = [i \in Levels |-> FALSE]
  /\ at = <<"test", 1>> /\ waiting = {}

RaiseEarly(i) ==                                          \* mutant: one tick short
  /\ raising = i
  /\ flag' = [flag EXCEPT ![i] = TRUE] /\ waiting' = waiting \cup {i}
  /\ IF i < 3
     THEN LET n == counter[i] + 1
          IN  /\ counter' = [counter EXCEPT ![i] = IF n = Ratio - 1 THEN 0 ELSE n]
              /\ raising' = IF n = Ratio - 1 THEN i + 1 ELSE 1
     ELSE raising' = 1 /\ UNCHANGED counter
  /\ UNCHANGED at

(* Timer1OnInterrupExecute, one step per flag: every Ratio-th tick of a level   *)
(* goes on to the flag of the next.                                            *)
Raise(i) ==
  /\ raising = i
  /\ flag' = [flag EXCEPT ![i] = TRUE] /\ waiting' = waiting \cup {i}
  /\ IF i < 3
     THEN LET n == counter[i] + 1
          IN  /\ counter' = [counter EXCEPT ![i] = IF n = Ratio THEN 0 ELSE n]
              /\ raising' = IF n = Ratio THEN i + 1 ELSE 1
     ELSE raising' = 1 /\ UNCHANGED counter
  /\ UNCHANGED at

(* Timer1MailLoop: the test of each level is nested in the handling of the one  *)
(* below it, and each flag is cleared before its handler runs.                 *)
Test(i) ==
  /\ at = <<"test", i>>
  /\ at' = IF flag[i] THEN <<"clear", i>> ELSE <<"gsm", 1>>
  /\ UNCHANGED <<raising, counter, flag, waiting>>

ClearAll(i) ==                                                                \* mutant
  /\ at = <<"clear", i>> /\ at' = <<"run", i>>
  /\ flag' = [j \in Levels |-> FALSE]
  /\ UNCHANGED <<raising, counter, waiting>>

Clear(i) ==
  /\ at = <<"clear", i>> /\ at' = <<"run", i>>
  /\ flag' = [flag EXCEPT ![i] = FALSE]
  /\ UNCHANGED <<raising, counter, waiting>>

(* What Timer1MailLoop does as it calls the handler of level i; what the        *)
(* handler does is said by the modules that extend this one.                   *)
Run(i) ==
  /\ at = <<"run", i>>
  /\ waiting' = waiting \ {i}
  /\ UNCHANGED <<raising, counter, flag>>

-----------------------------------------------------------------------------
TimerTypeOK ==
  /\ raising \in Levels
  /\ counter \in [1..2 -> 0..(Ratio - 1)]
  /\ flag \in [Levels -> BOOLEAN]
  /\ at \in Places
  /\ waiting \subseteq Levels
=============================================================================
