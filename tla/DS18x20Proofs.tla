--------------------------- MODULE DS18x20Proofs ---------------------------
(***************************************************************************)
(* Proofs about DS18x20: for every ratio of the ticks, every line of       *)
(* devices and all delays of at most a second, the variables keep to their *)
(* ranges, what is shown is recent, and a reading is of a conversion that  *)
(* is finished unless the second was disturbed.  And whatever bytes it is, *)
(* they are read as the temperature that they stand for.                   *)
(***************************************************************************)
EXTENDS DS18x20, TLAPS

(* Init establishes the types. *)
LEMMA InitTypes == Init => TypeOK
<1> SUFFICES ASSUME Init PROVE TypeOK
  OBVIOUS
<1>1. TimerTypeOK
  <2>1. at \in Places /\ flag \in [Levels -> BOOLEAN]
    BY DEF Init, TimerInit, Levels, Places
  <2>2. 0 \in 0..(Ratio - 1)
    BY RatioAssumption
  <2> QED
    BY <2>1, <2>2 DEF Init, TimerInit, TimerTypeOK, Levels
<1>2. lastFound \in 0..Len(Devices)
  BY DevicesAssumption DEF Init
<1>3. delay \in Lasting
  BY DEF Init, Lasting
<1>4. /\ _valueValidForInterval \in 0..(Retaining - 1)
      /\ age \in 0..Conversion /\ sinceReading \in 0..Retaining
  BY TicksAssumption DEF Init
<1> QED
  BY <1>1, <1>2, <1>3, <1>4 DEF Init, TypeOK

(* The ticker's callback keeps the timer's types, whichever flag it raises. *)
LEMMA RaiseTypes == ASSUME NEW i \in Levels, TimerTypeOK, Raise(i) PROVE TimerTypeOK'
<1>1. raising' \in Levels /\ at' \in Places /\ waiting' \subseteq Levels
      /\ flag' \in [Levels -> BOOLEAN]
  BY RatioAssumption DEF TimerTypeOK, Raise, Levels, Places
<1>2. counter' \in [1..2 -> 0..(Ratio - 1)]
  <2>1. CASE i = 3
    BY <2>1 DEF TimerTypeOK, Raise
  <2>2. CASE i # 3
    <3>1. i \in 1..2 /\ counter[i] \in 0..(Ratio - 1)
      BY <2>2 DEF TimerTypeOK, Levels
    <3>2. (IF counter[i] + 1 = Ratio THEN 0 ELSE counter[i] + 1) \in 0..(Ratio - 1)
      BY <3>1, RatioAssumption
    <3> QED
      BY <2>2, <3>1, <3>2 DEF TimerTypeOK, Raise, Levels
  <2> QED
    BY <2>1, <2>2
<1> QED
  BY <1>1, <1>2 DEF TimerTypeOK

(* A tick shortens the delay by one at most. *)
LEMMA DelayRuns ==
  ASSUME delay \in Lasting PROVE (IF delay > 0 THEN delay - 1 ELSE 0) \in Lasting
<1>1. CASE delay = 0
  BY <1>1 DEF Lasting
<1>2. CASE \E d \in Delays : delay \in 0..d
  <2>1. PICK d \in Delays : delay \in 0..d
    BY <1>2
  <2>2. d \in Nat
    BY TicksAssumption
  <2>3. (IF delay > 0 THEN delay - 1 ELSE 0) \in 0..d
    BY <2>1, <2>2
  <2> QED
    BY <2>1, <2>3 DEF Lasting
<1> QED
  BY <1>1, <1>2 DEF Lasting

(* Every step of the callback, of loop() and of the world keeps the types. *)
LEMMA NextTypes == TypeOK /\ [Next]_vars => TypeOK'
<1> SUFFICES ASSUME TypeOK, [Next]_vars PROVE TypeOK'
  OBVIOUS
<1> USE RatioAssumption, TicksAssumption
<1>0. Len(Devices) \in Nat /\ delay \in Lasting
  BY DevicesAssumption DEF TypeOK
<1>1. CASE Timer1OnInterrupExecute
  <2>1. TimerTypeOK'
    BY <1>1, RaiseTypes DEF Timer1OnInterrupExecute, TypeOK, Levels
  <2>2. delay' \in Lasting
    BY <1>0, <1>1, DelayRuns DEF Timer1OnInterrupExecute
  <2>3. age' \in 0..Conversion /\ sinceReading' \in 0..Retaining
    BY <1>1 DEF Timer1OnInterrupExecute, TypeOK, UpTo
  <2> QED
    BY <1>1, <2>1, <2>2, <2>3 DEF Timer1OnInterrupExecute, TypeOK, sensor
<1>2. CASE PlugOrUnplug
  BY <1>2 DEF PlugOrUnplug, TypeOK, TimerTypeOK, timerVars, sensor
<1>3. CASE MailLoop
  <2>1. PICK i \in Levels : Test(i) \/ Clear(i)
    BY <1>3 DEF MailLoop
  <2>2. at' \in Places
    BY <2>1 DEF Test, Clear, Levels, Places
  <2>3. TimerTypeOK'
    BY <2>1, <2>2 DEF Test, Clear, TypeOK, TimerTypeOK
  <2> QED
    BY <1>3, <2>3 DEF MailLoop, TypeOK, sensor, ghosts
<1>4. CASE Timer1_10msHandler
  BY <1>4
     DEF Timer1_10msHandler, Run, TypeOK, TimerTypeOK, Levels, Places, sensor, ghosts
<1>5. CASE Timer1_100msHandler
  <2>1. TimerTypeOK'
    BY <1>5 DEF Timer1_100msHandler, Run, TypeOK, TimerTypeOK, Levels, Places
  <2>2. /\ S0_State' \in {"GetAndSendCommand", "ReadTemp", "Error"}
        /\ lastFound' \in 0..Len(Devices)
    BY <1>0, <1>5
       DEF Timer1_100msHandler, DS18x20_Timer100ms_Handler, GetSensorAndSendReadCommand,
           TypeOK
  <2> QED
    BY <1>5, <2>1, <2>2
       DEF Timer1_100msHandler, DS18x20_Timer100ms_Handler, TypeOK, ghosts
<1>6. CASE Timer1_1000msHandler
  <2>1. TimerTypeOK'
    BY <1>6 DEF Timer1_1000msHandler, Run, TypeOK, TimerTypeOK, Levels, Places
  <2>2. /\ S0_State' \in {"GetAndSendCommand", "ReadTemp", "Error"}
        /\ _start' \in BOOLEAN /\ _valueValidForInterval' \in 0..(Retaining - 1)
        /\ sinceReading' \in 0..Retaining
    <3> DEFINE v == _valueValidForInterval
    <3>1. /\ Countdown(v) \in 0..(Retaining - 1)
          /\ Countdown(Retaining) \in 0..(Retaining - 1)
          /\ 0 \in 0..Retaining
      BY DEF Countdown, TypeOK
    <3> HIDE DEF v
    <3>2. DS18x20_Timer1s_Handler
      BY <1>6 DEF Timer1_1000msHandler
    <3>3. CASE ReadOK
      BY <3>1, <3>3 DEF ReadOK, TypeOK
    <3>4. CASE ReadFails
      BY <3>1, <3>4 DEF ReadFails, TypeOK, v
    <3>5. CASE NoReading
      <4>1. S0_State' \in {"GetAndSendCommand", "ReadTemp", "Error"}
        BY <3>5 DEF NoReading, TypeOK
      <4> QED
        BY <3>1, <3>5, <4>1 DEF NoReading, TypeOK, v
    <3> QED
      BY <3>2, <3>3, <3>4, <3>5 DEF DS18x20_Timer1s_Handler, ReadTemp
  <2>3. age' \in 0..Conversion /\ disturbed' \in BOOLEAN /\ lastFound' \in 0..Len(Devices)
    <3>1. age' = 0 /\ disturbed' = FALSE /\ lastFound' = lastFound
      BY <1>6 DEF Timer1_1000msHandler, DS18x20_Timer1s_Handler
    <3>2. 0 \in 0..Conversion
      OBVIOUS
    <3>3. lastFound' \in 0..Len(Devices)
      BY <3>1 DEF TypeOK
    <3> QED
      BY <3>1, <3>2, <3>3
  <2>4. plugged' \in BOOLEAN /\ delay' \in Lasting
    BY <1>6 DEF Timer1_1000msHandler, TypeOK
  <2> QED
    BY <2>1, <2>2, <2>3, <2>4 DEF TypeOK
<1>7. CASE GsmLogic_1sHandler
  <2>1. TimerTypeOK'
    <3>1. at' \in Places
      BY <1>7 DEF GsmLogic_1sHandler, Levels, Places
    <3> QED
      BY <1>7, <3>1 DEF GsmLogic_1sHandler, TypeOK, TimerTypeOK
  <2>2. delay' \in Lasting
    <3>1. CASE delay' \in Delays
      BY <3>1 DEF Lasting
    <3> QED
      BY <1>0, <1>7, <3>1 DEF GsmLogic_1sHandler
  <2> QED
    BY <1>7, <2>1, <2>2 DEF GsmLogic_1sHandler, TypeOK, sensor
<1>8. CASE GsmLogic_loop
  BY <1>8 DEF GsmLogic_loop, TypeOK, TimerTypeOK, Levels, Places, sensor, ghosts
<1>9. CASE UNCHANGED vars
  BY <1>9 DEF vars, TypeOK, TimerTypeOK, timerVars, sensor, ghosts
<1> QED
  BY <1>1, <1>2, <1>3, <1>4, <1>5, <1>6, <1>7, <1>8, <1>9 DEF Next, loop

(* The variables keep to their ranges. *)
THEOREM TypeCorrect == Spec => []TypeOK
  BY InitTypes, NextTypes, PTL DEF Spec

-----------------------------------------------------------------------------
(* Where the second stands: the ticks since the 1 s flag was last raised, those *)
(* counted for whose flag of the next level the callback is about to raise.    *)
Phase ==
  IF raising = 3 THEN Ratio * Ratio
  ELSE counter[1] + Ratio * counter[2] + (IF raising = 2 THEN Ratio ELSE 0)

(* What is needed of the product in Phase. *)
LEMMA Rows ==
  ASSUME NEW n \in 0..(Ratio - 1)
  PROVE  /\ Ratio * n \in Nat /\ Ratio * (n + 1) = Ratio * n + Ratio
         /\ Ratio * n + Ratio <= Ratio * Ratio
         /\ n = 0 => Ratio * n = 0
         /\ n = 1 => Ratio * n = Ratio
         /\ n = 2 => Ratio * n = 2 * Ratio
         /\ n > 1 => Ratio * n >= 2 * Ratio
         /\ n > 2 => Ratio * n >= 3 * Ratio
<1> USE RatioAssumption
<1>1. Ratio * n \in Nat /\ Ratio * (n + 1) = Ratio * n + Ratio
  OBVIOUS
<1>2. \A a, b \in Nat : a <= b => Ratio * a <= Ratio * b
  OBVIOUS
<1>3. /\ Ratio * (n + 1) <= Ratio * Ratio
      /\ n > 1 => Ratio * 2 <= Ratio * n
      /\ n > 2 => Ratio * 3 <= Ratio * n
  BY <1>2
<1> QED
  BY <1>1, <1>3

(* Between two calls of the callback, no level counts what is about to be       *)
(* raised.                                                                     *)
Carried ==
  /\ raising = 2 => counter[1] = 0
  /\ raising = 3 => counter[1] = 0 /\ counter[2] = 0

(* The phase lies within a second, one tick moves it on by one, and with the    *)
(* 1 s flag it starts again.                                                   *)
LEMMA PhaseMoves ==
  ASSUME TimerTypeOK, Carried
  PROVE  /\ Phase \in 0..(Ratio * Ratio)
         /\ Raise(1) => Phase' = Phase + 1 /\ Carried'
         /\ Raise(2) => Phase' = Phase /\ Carried'
         /\ Raise(3) => Phase = Ratio * Ratio /\ Phase' = 0 /\ Carried'
<1> USE RatioAssumption
<1>1. counter[1] \in 0..(Ratio - 1) /\ counter[2] \in 0..(Ratio - 1) /\ raising \in 1..3
  BY DEF TimerTypeOK, Levels
<1>2. /\ Ratio * counter[2] \in Nat
      /\ Ratio * (counter[2] + 1) = Ratio * counter[2] + Ratio
      /\ Ratio * counter[2] + Ratio <= Ratio * Ratio
      /\ counter[2] = 0 => Ratio * counter[2] = 0
  BY <1>1, Rows
<1>3. Phase \in 0..(Ratio * Ratio)
  BY <1>1, <1>2 DEF Phase, Carried
<1>4. ASSUME Raise(1) PROVE Phase' = Phase + 1 /\ Carried'
  <2>1. raising = 1 /\ counter'[2] = counter[2]
    BY <1>4 DEF Raise, TimerTypeOK
  <2>2. CASE counter[1] + 1 = Ratio
    <3>1. counter'[1] = 0 /\ raising' = 2
      BY <1>4, <2>2 DEF Raise, TimerTypeOK
    <3> QED
      BY <1>1, <1>2, <2>1, <2>2, <3>1 DEF Phase, Carried
  <2>3. CASE counter[1] + 1 # Ratio
    <3>1. counter'[1] = counter[1] + 1 /\ raising' = 1
      BY <1>4, <2>3 DEF Raise, TimerTypeOK
    <3> QED
      BY <1>1, <1>2, <2>1, <2>3, <3>1 DEF Phase, Carried
  <2> QED
    BY <2>2, <2>3
<1>5. ASSUME Raise(2) PROVE Phase' = Phase /\ Carried'
  <2>1. raising = 2 /\ counter[1] = 0 /\ counter'[1] = 0
    BY <1>5 DEF Raise, TimerTypeOK, Carried
  <2>2. CASE counter[2] + 1 = Ratio
    <3>1. counter'[2] = 0 /\ raising' = 3
      BY <1>5, <2>2 DEF Raise, TimerTypeOK
    <3> QED
      BY <1>1, <1>2, <2>1, <2>2, <3>1 DEF Phase, Carried
  <2>3. CASE counter[2] + 1 # Ratio
    <3>1. counter'[2] = counter[2] + 1 /\ raising' = 1
      BY <1>5, <2>3 DEF Raise, TimerTypeOK
    <3>2. Phase = Ratio * counter[2] + Ratio /\ Phase' = Ratio * (counter[2] + 1)
      BY <1>1, <1>2, <2>1, <3>1 DEF Phase
    <3> QED
      BY <1>2, <3>1, <3>2 DEF Carried
  <2> QED
    BY <2>2, <2>3
<1>6. ASSUME Raise(3) PROVE Phase = Ratio * Ratio /\ Phase' = 0 /\ Carried'
  <2>1. /\ raising = 3 /\ raising' = 1
        /\ counter' = counter /\ counter[1] = 0 /\ counter[2] = 0
    BY <1>6 DEF Raise, Carried
  <2> QED
    BY <1>2, <2>1 DEF Phase, Carried
<1> QED
  BY <1>3, <1>4, <1>5, <1>6

-----------------------------------------------------------------------------
(* Where loop() is when a tick may come. *)
Waits == {<<"gsm", 1>>, <<"test", 1>>}

(* loop() is on its way to the test of flag[2]; of flag[3]. *)
To2 == {<<"clear", 1>>, <<"run", 1>>, <<"test", 2>>}
To3 == {<<"clear", 2>>, <<"run", 2>>, <<"test", 3>>, <<"clear", 3>>}

(* The 1 s tick whose handler has not run has its flag, until the handler is    *)
(* called; a flag is handled in the tick after it was raised, unless a delay   *)
(* kept loop() from it, and then as soon as loop() is back.                    *)
FlagsHandled ==
  /\ Carried
  /\ delay > 0 => at = <<"gsm", 1>>
  /\ at \in Waits \cup To2 \cup To3 \cup {<<"run", 3>>, <<"gsm", 3>>}
  /\ 3 \in waiting <=> flag[3] \/ at = <<"run", 3>>
  /\ at = <<"clear", 3>> => flag[3]
  /\ at \in {<<"run", 3>>, <<"gsm", 3>>} => ~flag[3]
  /\ flag[2] => \/ counter[1] = 0
                \/ at \in Waits /\ flag[1]
                \/ at \in To2 \/ at = <<"clear", 2>>
  /\ flag[3] => \/ counter[2] = 0
                \/ at \in Waits \cup To2 /\ flag[2]
                \/ at \in To3

(* The 1 s handler is called in the second that its tick belongs to, within the *)
(* first ticks, or, after a delay, as many ticks later than the delay ended.   *)
Punctual ==
  /\ 3 \in waiting => Phase + delay <= Ratio + 1
  /\ Phase + delay <= Ratio * Ratio + Ratio + 1
  /\ at \in {<<"clear", 3>>, <<"run", 3>>, <<"gsm", 3>>} => Phase <= Ratio + 1

(* A second is longer than what comes late in it. *)
LEMMA LongSecond == 2 < Ratio /\ 2 * Ratio + 1 < Ratio * Ratio
<1>1. \A r \in Nat : r > 2 => 3 * r <= r * r
  OBVIOUS
<1>2. Ratio # 1 /\ Ratio # 2
  BY RatioAssumption, TicksAssumption, SecondAssumption
<1>3. 2 < Ratio
  BY <1>2, RatioAssumption
<1> QED
  BY <1>1, <1>3, RatioAssumption

(* At the start no flag is raised and no time has passed. *)
LEMMA InitFlags == Init => FlagsHandled
  BY DEF Init, TimerInit, FlagsHandled, Carried, Waits, Levels

(* Every step keeps the flags from being forgotten. *)
LEMMA NextFlags == TypeOK /\ FlagsHandled /\ Punctual /\ [Next]_vars => FlagsHandled'
<1> SUFFICES ASSUME TypeOK, FlagsHandled, Punctual, [Next]_vars PROVE FlagsHandled'
  OBVIOUS
<1>0. /\ TimerTypeOK /\ Carried /\ delay \in Nat
  <2>1. delay \in Nat
    BY TicksAssumption DEF TypeOK, Lasting
  <2> QED
    BY <2>1 DEF TypeOK, FlagsHandled
<1>1. CASE Timer1OnInterrupExecute
  <2>1. CASE Raise(1) /\ (delay > 0 \/ (at \in {<<"gsm", 1>>, <<"test", 1>>} /\ ~flag[1]))
              /\ delay' = IF delay > 0 THEN delay - 1 ELSE 0
    <3>1. Carried' /\ at \in Waits
      BY <1>0, <2>1, PhaseMoves DEF FlagsHandled, Waits
    <3> QED
      BY <1>0, <2>1, <3>1 DEF Raise, FlagsHandled, TimerTypeOK, Levels
  <2>2. CASE Raise(2) /\ UNCHANGED delay
    <3>1. Carried'
      BY <1>0, <2>2, PhaseMoves
    <3> QED
      BY <1>0, <2>2, <3>1
         DEF Raise, FlagsHandled, Carried, TimerTypeOK, Levels, Waits, To2, To3
  <2>3. CASE Raise(3) /\ UNCHANGED delay
    <3>1. Carried' /\ Phase = Ratio * Ratio
      BY <1>0, <2>3, PhaseMoves
    <3>2. 3 \notin waiting /\ at \notin {<<"clear", 3>>, <<"run", 3>>, <<"gsm", 3>>}
      BY <1>0, <3>1, LongSecond, RatioAssumption DEF Punctual
    <3> QED
      BY <1>0, <2>3, <3>1, <3>2
         DEF Raise, FlagsHandled, Carried, TimerTypeOK, Levels, Waits, To2, To3
  <2> QED
    BY <1>1, <2>1, <2>2, <2>3 DEF Timer1OnInterrupExecute
<1>2. CASE PlugOrUnplug \/ UNCHANGED vars
  BY <1>2 DEF PlugOrUnplug, vars, timerVars, FlagsHandled, Carried
<1>3. ASSUME NEW i \in Levels, Test(i), delay = 0, UNCHANGED delay PROVE FlagsHandled'
  BY <1>0, <1>3 DEF Test, FlagsHandled, Carried, TimerTypeOK, Levels, Waits, To2, To3
<1>4. ASSUME NEW i \in Levels, Clear(i), delay = 0, UNCHANGED delay PROVE FlagsHandled'
  BY <1>0, <1>4 DEF Clear, FlagsHandled, Carried, TimerTypeOK, Levels, Waits, To2, To3
<1>5. CASE /\ delay = 0
           /\ Timer1_10msHandler \/ Timer1_100msHandler \/ Timer1_1000msHandler
  <2>1. delay' = 0
    BY <1>5 DEF Timer1_10msHandler, Timer1_100msHandler, Timer1_1000msHandler
  <2>2. \/ Run(1) /\ at' = <<"test", 2>>
        \/ Run(2) /\ at' = <<"test", 3>>
        \/ Run(3) /\ at' = <<"gsm", 3>>
    BY <1>5 DEF Timer1_10msHandler, Timer1_100msHandler, Timer1_1000msHandler
  <2> QED
    BY <1>0, <2>1, <2>2
       DEF Run, FlagsHandled, Carried, TimerTypeOK, Levels, Waits, To2, To3
<1>6. CASE delay = 0 /\ (GsmLogic_1sHandler \/ GsmLogic_loop)
  BY <1>0, <1>6
     DEF GsmLogic_1sHandler, GsmLogic_loop, FlagsHandled, Carried, Waits, To2, To3
<1> QED
  BY <1>1, <1>2, <1>3, <1>4, <1>5, <1>6 DEF Next, loop, MailLoop

(* When a tick comes that loop() was ready for, and the 1 s tick has not been   *)
(* handled, it is one of the first of the second.                              *)
LEMMA EarlyInSecond ==
  ASSUME TimerTypeOK, FlagsHandled, Punctual, delay = 0, raising = 1, at \in Waits,
         ~flag[1], 3 \in waiting
  PROVE  Phase <= Ratio
<1>1. counter[1] \in 0..(Ratio - 1) /\ counter[2] \in 0..(Ratio - 1)
  BY DEF TimerTypeOK
<1>2. Phase = counter[1] + Ratio * counter[2]
  BY <1>1, Rows DEF Phase
<1>3. counter[2] = 0 \/ flag[2]
  BY DEF FlagsHandled, Waits, To3
<1>4. flag[2] => counter[1] = 0
  BY DEF FlagsHandled, Waits, To2
<1>5. Phase <= Ratio + 1
  BY <1>1, <1>2, Rows DEF Punctual
<1> QED
  BY <1>1, <1>2, <1>3, <1>4, <1>5, Rows, RatioAssumption, LongSecond

(* Every step keeps the 1 s handler punctual. *)
LEMMA NextPunctual == TypeOK /\ FlagsHandled /\ Punctual /\ [Next]_vars => Punctual'
<1> SUFFICES ASSUME TypeOK, FlagsHandled, Punctual, [Next]_vars PROVE Punctual'
  OBVIOUS
<1>0. /\ TimerTypeOK /\ Carried /\ delay \in Nat /\ Ratio \in Nat
      /\ Phase \in Nat /\ Phase <= Ratio * Ratio /\ Ratio * Ratio \in Nat
      /\ \A d \in Delays : d \in Nat /\ d <= Ratio * Ratio
  <2>1. delay \in Nat /\ TimerTypeOK /\ Carried
    BY TicksAssumption DEF TypeOK, Lasting, FlagsHandled
  <2> QED
    BY <2>1, PhaseMoves, RatioAssumption, TicksAssumption, SecondAssumption
<1> DEFINE Second == Ratio * Ratio
<1>1. CASE Timer1OnInterrupExecute
  <2>1. CASE Raise(1) /\ (delay > 0 \/ (at \in {<<"gsm", 1>>, <<"test", 1>>} /\ ~flag[1]))
              /\ delay' = IF delay > 0 THEN delay - 1 ELSE 0
    <3>1. /\ Phase' = Phase + 1 /\ (3 \in waiting' <=> 3 \in waiting)
          /\ at' = at /\ at \in Waits
      BY <1>0, <2>1, PhaseMoves DEF Raise, FlagsHandled, Waits
    <3>2. delay = 0 /\ 3 \in waiting => Phase <= Ratio
      BY <1>0, <2>1, <3>1, EarlyInSecond DEF Raise, Waits
    <3> QED
      BY <1>0, <2>1, <3>1, <3>2 DEF Punctual, Waits
  <2>2. CASE Raise(2) /\ UNCHANGED delay
    <3>1. Phase' = Phase /\ (3 \in waiting' <=> 3 \in waiting) /\ at' = at
      BY <1>0, <2>2, PhaseMoves DEF Raise
    <3> QED
      BY <2>2, <3>1 DEF Punctual
  <2>3. CASE Raise(3) /\ UNCHANGED delay
    <3>1. Phase = Ratio * Ratio /\ Phase' = 0
      BY <1>0, <2>3, PhaseMoves
    <3> QED
      BY <1>0, <2>3, <3>1 DEF Punctual
  <2> QED
    BY <1>1, <2>1, <2>2, <2>3 DEF Timer1OnInterrupExecute
<1>2. CASE ~Timer1OnInterrupExecute
  <2>1. Phase' = Phase
    BY <1>2
       DEF Next, loop, MailLoop, Test, Clear, Timer1_10msHandler, Timer1_100msHandler,
          Timer1_1000msHandler, Run, GsmLogic_1sHandler, GsmLogic_loop, PlugOrUnplug, vars,
          timerVars, Phase
  <2>2. CASE PlugOrUnplug \/ UNCHANGED vars
    BY <2>1, <2>2 DEF PlugOrUnplug, vars, timerVars, Punctual
  <2>3. CASE MailLoop
    BY <1>0, <2>1, <2>3 DEF MailLoop, Levels, Test, Clear, Punctual, FlagsHandled
  <2>4. CASE Timer1_10msHandler \/ Timer1_100msHandler \/ Timer1_1000msHandler
    <3>1. delay' = delay /\ (3 \in waiting' => 3 \in waiting)
      BY <2>4 DEF Timer1_10msHandler, Timer1_100msHandler, Timer1_1000msHandler, Run
    <3>2. at' = <<"gsm", 3>> => at = <<"run", 3>>
      BY <2>4 DEF Timer1_10msHandler, Timer1_100msHandler, Timer1_1000msHandler, Run
    <3>3. at' \notin {<<"clear", 3>>, <<"run", 3>>}
      BY <2>4 DEF Timer1_10msHandler, Timer1_100msHandler, Timer1_1000msHandler
    <3> QED
      BY <2>1, <3>1, <3>2, <3>3 DEF Punctual
  <2>5. CASE GsmLogic_1sHandler
    BY <1>0, <2>1, <2>5 DEF GsmLogic_1sHandler, Punctual, FlagsHandled
  <2>6. CASE GsmLogic_loop
    BY <2>1, <2>6 DEF GsmLogic_loop, Punctual
  <2> QED
    BY <1>2, <2>2, <2>3, <2>4, <2>5, <2>6 DEF Next, loop
<1> QED
  BY <1>1, <1>2

(* At the start no time has passed, and there is no delay. *)
LEMMA InitPunctual == Init => Punctual
<1>1. ASSUME Init PROVE Phase = 0 /\ delay = 0 /\ waiting = {} /\ at = <<"test", 1>>
  BY <1>1, RatioAssumption DEF Init, TimerInit, Phase
<1>2. 0 + 0 <= Ratio + 1 /\ 0 + 0 <= Ratio * Ratio + Ratio + 1
  BY RatioAssumption, LongSecond
<1> QED
  BY <1>1, <1>2 DEF Punctual

-----------------------------------------------------------------------------
(* A second in which nothing disturbs: a conversion is asked for by the first   *)
(* 100 ms handler after the 1 s handler, early in the second, and its age keeps *)
(* up with the second.                                                         *)
Asked ==
  S0_State = "GetAndSendCommand" /\ ~disturbed =>
    /\ 3 \notin waiting /\ Phase <= 2 * Ratio + 1
    /\ \/ Phase < 2 * Ratio \/ (Phase = 2 * Ratio /\ raising = 2)
       \/ flag[2] \/ at = <<"run", 2>>

Converting ==
  S0_State = "ReadTemp" /\ ~disturbed =>
    age >= Conversion \/ (3 \notin waiting /\ age + 2 * Ratio + 1 >= Phase)

(* The filter counts down in step with the seconds since the last reading, but  *)
(* for the one whose handler has not run.                                      *)
CountsSeconds ==
  hasValue =>
    _valueValidForInterval + sinceReading <= Retaining - (IF 3 \in waiting THEN 0 ELSE 1)

SensorInv ==
  /\ ~disturbed => delay = 0
  /\ Asked /\ Converting /\ CountsSeconds

(* At the start the conversion is yet to be asked for, and nothing is shown. *)
LEMMA InitSensor == Init => SensorInv
<1> SUFFICES ASSUME Init PROVE SensorInv
  OBVIOUS
<1>1. Phase = 0 /\ waiting = {}
  BY RatioAssumption DEF Init, TimerInit, Phase
<1>2. Asked
  BY <1>1, RatioAssumption DEF Init, Asked
<1>3. Converting /\ delay = 0
  BY DEF Init, Converting
<1>4. ~hasValue
  BY DEF Init, hasValue
<1> QED
  BY <1>2, <1>3, <1>4 DEF SensorInv, CountsSeconds

(* A tick of a second that nothing disturbed, the conversion not yet asked for, *)
(* is one of the first two and one of the hundred (for a ratio of 10).         *)
LEMMA TickWhileAsking ==
  ASSUME TimerTypeOK, FlagsHandled, Asked, Raise(1), at \in Waits, ~flag[1],
         S0_State = "GetAndSendCommand", ~disturbed
  PROVE  /\ Phase + 1 <= 2 * Ratio + 1
         /\ Phase + 1 < 2 * Ratio \/ (Phase + 1 = 2 * Ratio /\ raising' = 2) \/ flag'[2]
<1> USE RatioAssumption, LongSecond
<1>1. counter[1] \in 0..(Ratio - 1) /\ counter[2] \in 0..(Ratio - 1) /\ raising = 1
  BY DEF TimerTypeOK, Raise
<1>2. Phase = counter[1] + Ratio * counter[2]
  BY <1>1, Rows DEF Phase
<1>3. flag[2] => counter[1] = 0
  BY DEF FlagsHandled, Waits, To2
<1>4. flag'[2] = flag[2]
  BY DEF Raise, TimerTypeOK, Levels
<1>5. CASE flag[2]
  <2>1. Phase = Ratio * counter[2] /\ Phase <= 2 * Ratio + 1
    BY <1>1, <1>2, <1>3, <1>5, Rows DEF Asked
  <2>2. counter[2] \in 0..2
    BY <1>1, <2>1, Rows
  <2>3. Phase <= 2 * Ratio
    BY <1>1, <2>1, <2>2, Rows
  <2> QED
    BY <1>1, <1>4, <1>5, <2>1, <2>3, Rows
<1>6. CASE ~flag[2]
  <2>1. Phase < 2 * Ratio
    BY <1>1, <1>6 DEF Asked, Waits
  <2>2. ASSUME Phase + 1 = 2 * Ratio PROVE counter[1] + 1 = Ratio
    BY <1>1, <1>2, <2>2, Rows
  <2>3. Phase + 1 = 2 * Ratio => raising' = 2
    BY <2>2 DEF Raise
  <2> QED
    BY <1>1, <1>2, <2>1, <2>3, Rows
<1> QED
  BY <1>5, <1>6

(* Every step keeps the sensor's state machine in step with the second. *)
LEMMA NextSensor ==
  TypeOK /\ FlagsHandled /\ Punctual /\ SensorInv /\ [Next]_vars => SensorInv'
<1> SUFFICES ASSUME TypeOK, FlagsHandled, Punctual, SensorInv, [Next]_vars PROVE SensorInv'
  OBVIOUS
<1> USE RatioAssumption, TicksAssumption, LongSecond
<1>0. /\ TimerTypeOK /\ Carried /\ delay \in Nat /\ age \in Nat /\ sinceReading \in Nat
      /\ Phase \in Nat /\ Phase <= Ratio * Ratio /\ Ratio * Ratio \in Nat
      /\ _valueValidForInterval \in 0..(Retaining - 1)
  <2>1. delay \in Nat /\ TimerTypeOK /\ Carried
    BY DEF TypeOK, Lasting, FlagsHandled
  <2>2. age \in Nat /\ sinceReading \in Nat /\ _valueValidForInterval \in 0..(Retaining - 1)
    BY DEF TypeOK
  <2> QED
    BY <2>1, <2>2, PhaseMoves
<1>1. CASE Timer1OnInterrupExecute
  <2>0. UNCHANGED <<S0_State, _start, _valueValidForInterval, disturbed>> /\ at' = at
    BY <1>1 DEF Timer1OnInterrupExecute, sensor, Raise
  <2>1. CASE /\ Raise(1) /\ (delay > 0 \/ (at \in {<<"gsm", 1>>, <<"test", 1>>} /\ ~flag[1]))
             /\ delay' = IF delay > 0 THEN delay - 1 ELSE 0
             /\ age' = IF S0_State = "ReadTemp" THEN UpTo(age, Conversion) ELSE age
             /\ UNCHANGED sinceReading
    <3>1. Phase' = Phase + 1 /\ (3 \in waiting' <=> 3 \in waiting)
      BY <1>0, <2>1, PhaseMoves DEF Raise
    <3>2. Asked'
      <4>1. SUFFICES ASSUME S0_State = "GetAndSendCommand", ~disturbed PROVE Asked'
        BY <2>0 DEF Asked
      <4>2. delay = 0 /\ at \in Waits /\ ~flag[1]
        BY <2>1, <4>1 DEF SensorInv, Waits
      <4>3. /\ Phase + 1 <= 2 * Ratio + 1
            /\ Phase + 1 < 2 * Ratio \/ (Phase + 1 = 2 * Ratio /\ raising' = 2) \/ flag'[2]
        BY <1>0, <2>1, <4>1, <4>2, TickWhileAsking DEF SensorInv
      <4>4. 3 \notin waiting
        BY <4>1 DEF SensorInv, Asked
      <4> QED
        BY <3>1, <4>3, <4>4 DEF Asked
    <3>3. Converting'
      BY <1>0, <2>0, <2>1, <3>1 DEF SensorInv, Converting, UpTo
    <3>4. CountsSeconds' /\ (~disturbed' => delay' = 0)
      BY <1>0, <2>0, <2>1, <3>1 DEF SensorInv, CountsSeconds, hasValue
    <3> QED
      BY <3>2, <3>3, <3>4 DEF SensorInv
  <2>2. CASE Raise(2) /\ UNCHANGED <<delay, age, sinceReading>>
    <3>1. Phase' = Phase /\ (3 \in waiting' <=> 3 \in waiting) /\ flag'[2]
      BY <1>0, <2>2, PhaseMoves DEF Raise, TimerTypeOK, Levels
    <3> QED
      BY <2>0, <2>2, <3>1 DEF SensorInv, Asked, Converting, CountsSeconds, hasValue
  <2>3. CASE /\ Raise(3) /\ sinceReading' = UpTo(sinceReading, Retaining)
             /\ UNCHANGED <<delay, age>>
    <3>1. Phase = Ratio * Ratio /\ Phase' = 0 /\ 3 \in waiting'
      BY <1>0, <2>3, PhaseMoves DEF Raise
    <3>2. 3 \notin waiting
      BY <1>0, <3>1 DEF Punctual
    <3>3. Asked'
      BY <1>0, <2>0, <3>1 DEF SensorInv, Asked
    <3>4. Converting'
      BY <1>0, <2>0, <2>3, <3>1, SecondAssumption DEF SensorInv, Converting
    <3>5. CountsSeconds' /\ (~disturbed' => delay' = 0)
      BY <1>0, <2>0, <2>3, <3>1, <3>2 DEF SensorInv, CountsSeconds, hasValue, UpTo
    <3> QED
      BY <3>3, <3>4, <3>5 DEF SensorInv
  <2> QED
    BY <1>1, <2>1, <2>2, <2>3 DEF Timer1OnInterrupExecute
<1>2. CASE ~Timer1OnInterrupExecute
  <2>1. Phase' = Phase /\ raising' = raising
    BY <1>2
       DEF Next, loop, MailLoop, Test, Clear, Timer1_10msHandler, Timer1_100msHandler,
          Timer1_1000msHandler, Run, GsmLogic_1sHandler, GsmLogic_loop, PlugOrUnplug, vars,
          timerVars, Phase
  <2>2. CASE PlugOrUnplug \/ UNCHANGED vars
    BY <2>1, <2>2 DEF PlugOrUnplug, vars, timerVars, sensor, ghosts, SensorInv, Asked,
          Converting, CountsSeconds, hasValue
  <2>3. CASE MailLoop
    <3>1. PICK i \in Levels : Test(i) \/ Clear(i)
      BY <2>3 DEF MailLoop
    <3>2. UNCHANGED <<waiting, S0_State, _start, _valueValidForInterval, delay, age,
                      disturbed, sinceReading>>
      BY <2>3, <3>1 DEF MailLoop, Test, Clear, sensor, ghosts
    <3>3. flag[2] \/ at = <<"run", 2>> => flag'[2] \/ at' = <<"run", 2>>
      BY <1>0, <3>1 DEF Test, Clear, TimerTypeOK, Levels
    <3> QED
      BY <2>1, <3>2, <3>3 DEF SensorInv, Asked, Converting, CountsSeconds, hasValue
  <2>4. CASE Timer1_10msHandler
    <3>1. UNCHANGED <<flag, S0_State, _start, _valueValidForInterval, delay, age,
                      disturbed, sinceReading>>
      BY <2>4 DEF Timer1_10msHandler, Run, sensor, ghosts
    <3>2. at # <<"run", 2>> /\ (3 \in waiting' <=> 3 \in waiting)
      BY <2>4 DEF Timer1_10msHandler, Run
    <3> QED
      BY <2>1, <3>1, <3>2 DEF SensorInv, Asked, Converting, CountsSeconds, hasValue
  <2>5. CASE Timer1_100msHandler
    <3>1. UNCHANGED <<_start, _valueValidForInterval, delay, age, disturbed,
                      sinceReading>>
      BY <2>5 DEF Timer1_100msHandler, DS18x20_Timer100ms_Handler, ghosts
    <3>2. 3 \in waiting' <=> 3 \in waiting
      BY <2>5 DEF Timer1_100msHandler, Run
    <3>3. /\ S0_State' # "GetAndSendCommand"
          /\ S0_State # "GetAndSendCommand" => S0_State' = S0_State
      BY <2>5
         DEF Timer1_100msHandler, DS18x20_Timer100ms_Handler,
             GetSensorAndSendReadCommand
    <3> QED
      BY <1>0, <2>1, <3>1, <3>2, <3>3
         DEF SensorInv, Asked, Converting, CountsSeconds, hasValue
  <2>6. CASE Timer1_1000msHandler
    <3>1. at = <<"run", 3>> /\ 3 \in waiting /\ 3 \notin waiting' /\ UNCHANGED delay
      BY <2>6 DEF Timer1_1000msHandler, Run, FlagsHandled
    <3>2. DS18x20_Timer1s_Handler
      BY <2>6 DEF Timer1_1000msHandler
    <3>3. Phase <= Ratio + 1 /\ delay = 0
      BY <1>0, <3>1 DEF Punctual, FlagsHandled
    <3>4. S0_State' # "ReadTemp"
      BY <3>2 DEF DS18x20_Timer1s_Handler, ReadTemp, ReadOK, ReadFails, NoReading
    <3>5. Asked'
      BY <1>0, <2>1, <3>1, <3>3 DEF Asked
    <3>6. CountsSeconds'
      <4>1. CASE ReadOK
        BY <1>0, <3>1, <4>1 DEF ReadOK, Countdown, CountsSeconds
      <4>2. CASE ReadFails \/ NoReading
        BY <1>0, <3>1, <4>2
           DEF SensorInv, CountsSeconds, hasValue, ReadFails, NoReading, Countdown
      <4> QED
        BY <3>2, <4>1, <4>2 DEF DS18x20_Timer1s_Handler, ReadTemp
    <3> QED
      BY <3>1, <3>3, <3>4, <3>5, <3>6 DEF SensorInv, Converting
  <2>7. CASE GsmLogic_1sHandler
    <3>1. UNCHANGED <<flag, waiting, S0_State, _start, _valueValidForInterval, age,
                      sinceReading>>
      BY <2>7 DEF GsmLogic_1sHandler, sensor
    <3>2. disturbed' \/ UNCHANGED <<delay, disturbed>>
      BY <2>7 DEF GsmLogic_1sHandler
    <3>3. at # <<"run", 2>>
      BY <2>7 DEF GsmLogic_1sHandler
    <3> QED
      BY <2>1, <3>1, <3>2, <3>3
         DEF SensorInv, Asked, Converting, CountsSeconds, hasValue
  <2>8. CASE GsmLogic_loop
    <3>1. at # <<"run", 2>>
      BY <2>8 DEF GsmLogic_loop
    <3> QED
      BY <2>1, <2>8, <3>1
         DEF GsmLogic_loop, sensor, ghosts, SensorInv, Asked, Converting,
            CountsSeconds, hasValue
  <2> QED
    BY <1>2, <2>2, <2>3, <2>4, <2>5, <2>6, <2>7, <2>8 DEF Next, loop
<1> QED
  BY <1>1, <1>2

-----------------------------------------------------------------------------
(* The inductive invariant. *)
InTime == TypeOK /\ FlagsHandled /\ Punctual /\ SensorInv

(* It holds in every behaviour. *)
THEOREM AlwaysInTime == Spec => []InTime
<1>1. Init => InTime
  BY InitTypes, InitFlags, InitPunctual, InitSensor DEF InTime
<1>2. InTime /\ [Next]_vars => InTime'
  BY NextTypes, NextFlags, NextPunctual, NextSensor DEF InTime
<1> QED
  BY <1>1, <1>2, PTL DEF Spec

(* A temperature that is shown is less than Retaining seconds old, whatever     *)
(* delays put off the handler that counts the seconds.                         *)
THEOREM ShownAlwaysRecent == Spec => []ShownIsRecent
<1>1. InTime => ShownIsRecent
  <2> SUFFICES ASSUME InTime, hasValue PROVE sinceReading < Retaining
    BY DEF ShownIsRecent
  <2>1. /\ _valueValidForInterval \in 0..(Retaining - 1) /\ _valueValidForInterval > 0
        /\ sinceReading \in 0..Retaining
    BY DEF InTime, TypeOK, hasValue
  <2>2. _valueValidForInterval + sinceReading <= Retaining - (IF 3 \in waiting THEN 0 ELSE 1)
    BY DEF InTime, SensorInv, CountsSeconds
  <2> QED
    BY <2>1, <2>2, TicksAssumption
<1> QED
  BY <1>1, AlwaysInTime, PTL

(* A reading is of a conversion that is finished, unless the second was         *)
(* disturbed by a delay or the line was (un)plugged.                           *)
THEOREM ConversionsAreFinished == Spec => ConversionFinishedUndisturbed
<1>1. InTime /\ [Next]_vars =>
        [S0_State = "ReadTemp" /\ S0_State' # "ReadTemp" => age >= Conversion \/ disturbed]_vars
  <2> SUFFICES ASSUME InTime, [Next]_vars, S0_State = "ReadTemp", S0_State' # "ReadTemp"
               PROVE  age >= Conversion \/ disturbed
    OBVIOUS
  <2>1. Timer1_1000msHandler
    BY
       DEF Next, Timer1OnInterrupExecute, PlugOrUnplug, loop, MailLoop,
           Timer1_10msHandler,
           Timer1_100msHandler, DS18x20_Timer100ms_Handler, GsmLogic_1sHandler, GsmLogic_loop,
           vars, sensor
  <2>2. 3 \in waiting
    BY <2>1 DEF Timer1_1000msHandler, Run, InTime, FlagsHandled
  <2> QED
    BY <2>2 DEF InTime, SensorInv, Converting
<1> QED
  BY <1>1, AlwaysInTime, PTL DEF Spec, ConversionFinishedUndisturbed

-----------------------------------------------------------------------------
(* The arithmetic of a reading: the weights of a word's bits. *)
LEMMA Powers ==
  /\ 2^0 = 1 /\ 2^1 = 2 /\ 2^2 = 4 /\ 2^3 = 8 /\ 2^4 = 16 /\ 2^5 = 32 /\ 2^6 = 64 /\ 2^7 = 128
  /\ 2^8 = 256 /\ 2^9 = 512 /\ 2^10 = 1024 /\ 2^11 = 2048 /\ 2^12 = 4096 /\ 2^13 = 8192
  /\ 2^14 = 16384 /\ 2^15 = 32768
OBVIOUS

(* What the bits of n below bit i count, and what bit i does.                  *)
Low(n, i)    == n % 2 ^ i
Counts(n, i) == bit(n, i) * 2 ^ i

(* One more bit of a word takes the remainder to the next power of two. *)
LEMMA BitAdds ==
  ASSUME NEW n \in Int, 0 <= n, n < 65536, NEW i \in 0..14
  PROVE  /\ Low(n, i) \in Int /\ Counts(n, i) \in Int
         /\ Low(n, i) + Counts(n, i) = Low(n, i + 1)
<1>0. CASE i = 0
  BY <1>0, Powers DEF bit, Low, Counts
<1>1. CASE i = 1
  BY <1>1, Powers DEF bit, Low, Counts
<1>2. CASE i = 2
  BY <1>2, Powers DEF bit, Low, Counts
<1>3. CASE i = 3
  BY <1>3, Powers DEF bit, Low, Counts
<1>4. CASE i = 4
  BY <1>4, Powers DEF bit, Low, Counts
<1>5. CASE i = 5
  BY <1>5, Powers DEF bit, Low, Counts
<1>6. CASE i = 6
  BY <1>6, Powers DEF bit, Low, Counts
<1>7. CASE i = 7
  BY <1>7, Powers DEF bit, Low, Counts
<1>8. CASE i = 8
  BY <1>8, Powers DEF bit, Low, Counts
<1>9. CASE i = 9
  BY <1>9, Powers DEF bit, Low, Counts
<1>10. CASE i = 10
  BY <1>10, Powers DEF bit, Low, Counts
<1>11. CASE i = 11
  BY <1>11, Powers DEF bit, Low, Counts
<1>12. CASE i = 12
  BY <1>12, Powers DEF bit, Low, Counts
<1>13. CASE i = 13
  BY <1>13, Powers DEF bit, Low, Counts
<1>14. CASE i = 14
  BY <1>14, Powers DEF bit, Low, Counts
<1> QED
  BY <1>0, <1>1, <1>2, <1>3, <1>4, <1>5, <1>6, <1>7, <1>8, <1>9, <1>10, <1>11, <1>12, <1>13, <1>14

(* The number that a word stands for, by its top bit.                          *)
LEMMA SignedWord ==
  ASSUME NEW n \in Int, 0 <= n, n < 65536
  PROVE  int16(n) = (n % 32768) - (IF n < 32768 THEN 0 ELSE 32768)
<1>1. CASE n < 32768
  <2>1. n % 32768 = n
    BY <1>1
  <2> QED
    BY <1>1, <2>1 DEF int16
<1>2. CASE ~(n < 32768)
  <2>1. n % 32768 = n - 32768
    BY <1>2
  <2> QED
    BY <1>2, <2>1 DEF int16
<1> QED
  BY <1>1, <1>2

(* Its sign bit is that of the high byte.                                      *)
LEMMA TopBit ==
  ASSUME NEW data0 \in Int, NEW data1 \in Int, 0 <= data0, data0 < 256, 0 <= data1, data1 < 256
  PROVE  (data1 \div 128) % 2 = IF data1 * 256 + data0 < 32768 THEN 0 ELSE 1
<1>1. CASE data1 < 128
  <2>1. data1 \div 128 = 0 /\ data1 * 256 + data0 < 32768
    BY <1>1
  <2> QED
    BY <2>1
<1>2. CASE ~(data1 < 128)
  <2>1. data1 \div 128 = 1 /\ ~(data1 * 256 + data0 < 32768)
    BY <1>2
  <2> QED
    BY <2>1
<1> QED
  BY <1>1, <1>2

(* The low bits do not depend on the sign.                                     *)
LEMMA LowBits ==
  ASSUME NEW n \in Int, 0 <= n, n < 65536, NEW u \in {0, 1, 2, 3}
  PROVE  Low(int16(n), u) = Low(n, u) /\ Low(n, u) \in Int /\ int16(n) \in Int
<1>1. /\ (n - 65536) % 1 = n % 1 /\ (n - 65536) % 2 = n % 2
      /\ (n - 65536) % 4 = n % 4 /\ (n - 65536) % 8 = n % 8
  OBVIOUS
<1>2. int16(n) \in Int /\ (int16(n) = n \/ int16(n) = n - 65536)
  BY DEF int16
<1>3. /\ int16(n) % 1 = n % 1 /\ int16(n) % 2 = n % 2
      /\ int16(n) % 4 = n % 4 /\ int16(n) % 8 = n % 8
      /\ n % 1 \in Int /\ n % 2 \in Int /\ n % 4 \in Int /\ n % 8 \in Int
  <2>1. CASE int16(n) = n
    BY <2>1
  <2>2. CASE int16(n) = n - 65536
    BY <1>1, <2>2
  <2> QED
    BY <1>2, <2>1, <2>2
<1> QED
  <2>1. CASE u = 0
    BY <1>2, <1>3, <2>1, Powers DEF Low
  <2>2. CASE u = 1
    BY <1>2, <1>3, <2>2, Powers DEF Low
  <2>3. CASE u = 2
    BY <1>2, <1>3, <2>3, Powers DEF Low
  <2>4. CASE u = 3
    BY <1>2, <1>3, <2>4, Powers DEF Low
  <2> QED
    BY <2>1, <2>2, <2>3, <2>4

-----------------------------------------------------------------------------
(* The defined bits below bit 15 add up to the remainder, less what the         *)
(* undefined ones count.                                                       *)
LEMMA BelowIsRemainder ==
  ASSUME NEW n \in Int, 0 <= n, n < 65536, NEW u \in 0..3
  PROVE  Below(n, u)[15] = Low(n, 15) - Low(n, u)
<1> DEFINE Closed == [i \in 0..15 |-> IF i <= u THEN 0 ELSE Low(n, i) - Low(n, u)]
           Plus(g, i) == IF i = 0 THEN 0
                         ELSE g[i - 1] + (IF i > u THEN Counts(n, i - 1) ELSE 0)
           Sum(g) == [i \in 0..15 |-> Plus(g, i)]
           sum == Below(n, u)
<1>1. ASSUME NEW i \in 1..15, NEW g, g[i - 1] = Closed[i - 1]
      PROVE  Plus(g, i) = Closed[i]
  <2>1. i - 1 \in 0..14 /\ i \in 0..15 /\ (i - 1) + 1 = i /\ i # 0 /\ u \in 0..15
    OBVIOUS
  <2>2. /\ Low(n, i - 1) \in Int /\ Counts(n, i - 1) \in Int
        /\ Low(n, i - 1) + Counts(n, i - 1) = Low(n, i)
    BY <2>1, BitAdds
  <2>3. Low(n, u) \in Int
    BY BitAdds
  <2>4. CASE i <= u
    <3>1. Closed[i - 1] = 0 /\ Closed[i] = 0
      BY <2>1, <2>4
    <3> QED
      BY <1>1, <2>1, <2>4, <3>1
  <2>5. CASE ~(i <= u)
    <3>1. Closed[i] = Low(n, i) - Low(n, u)
      BY <2>1, <2>5
    <3>2. Closed[i - 1] = Low(n, i - 1) - Low(n, u)
      <4>1. CASE i - 1 <= u
        <5>1. i - 1 = u
          BY <2>1, <2>5, <4>1
        <5> QED
          BY <2>1, <2>3, <5>1
      <4>2. CASE ~(i - 1 <= u)
        BY <2>1, <4>2
      <4> QED
        BY <4>1, <4>2
    <3>3. Plus(g, i) = g[i - 1] + Counts(n, i - 1)
      BY <2>1, <2>5
    <3> HIDE DEF Plus, Closed
    <3> QED
      BY <1>1, <2>2, <2>3, <3>1, <3>2, <3>3
  <2> QED
    BY <2>4, <2>5
<1>2. sum = CHOOSE g : g = Sum(g)
  BY DEF Below, Counts
<1> HIDE DEF sum
<1>3. Plus(sum, 0) = 0 /\ Closed[0] = 0 /\ Plus(Closed, 0) = 0
  OBVIOUS
<1> HIDE DEF Plus
<1>4. Closed = Sum(Closed)
  <2>1. ASSUME NEW i \in 0..15 PROVE Plus(Closed, i) = Closed[i]
    <3> HIDE DEF Closed
    <3>1. i = 0 \/ i \in 1..15
      OBVIOUS
    <3> QED
      BY <1>1, <1>3, <3>1
  <2>2. Closed = [i \in 0..15 |-> Closed[i]]
    OBVIOUS
  <2> HIDE DEF Closed
  <2> QED
    BY <2>1, <2>2
<1> HIDE DEF Closed
<1>5. sum = Sum(sum)
  <2> HIDE DEF Sum
  <2> QED
    BY <1>2, <1>4
<1>6. /\ sum[0] = Plus(sum, 0)
      /\ \A i \in 1..15 : sum[i] = Plus(sum, i)
  <2>1. \A i \in 0..15 : Sum(sum)[i] = Plus(sum, i)
    OBVIOUS
  <2> HIDE DEF Sum
  <2> QED
    BY <1>5, <2>1
<1> HIDE DEF Sum
<1>7. /\ sum[0] = Closed[0]
      /\ \A i \in 1..15 : sum[i - 1] = Closed[i - 1] => sum[i] = Closed[i]
  BY <1>1, <1>3, <1>6
<1>8. sum[5] = Closed[5]
  BY <1>7
<1>9. sum[10] = Closed[10]
  BY <1>7, <1>8
<1>10. sum[15] = Closed[15]
  BY <1>7, <1>9
<1> QED
  BY <1>10 DEF Closed, sum

(* So any two bytes are read as the temperature that they stand for. *)
LEMMA BytesRead == BytesAreTemperature
<1> SUFFICES ASSUME NEW data1 \in 0..255, NEW data0 \in 0..255, NEW r \in 0..3
             PROVE  celsius(data0, data1, 31 + 32 * r) = Temperature(data0, data1, 31 + 32 * r)
  BY DEF BytesAreTemperature
<1>1. PICK n \in Int : n = data1 * 256 + data0
  OBVIOUS
<1>2. PICK u \in 0..3 : u = 3 - r
  OBVIOUS
<1>3. 3 - resolution(31 + 32 * r) = u
  BY <1>2 DEF resolution
<1>4. 0 <= n /\ n < 65536
  BY <1>1
<1>5. /\ celsius(data0, data1, 31 + 32 * r) = int16(n) - Low(int16(n), u)
      /\ Temperature(data0, data1, 31 + 32 * r) = Below(n, u)[15] - (bit(data1, 7) * 2 ^ 15)
  BY <1>1, <1>3 DEF celsius, withoutLowBits, Temperature, Low
<1>6. Below(n, u)[15] = Low(n, 15) - Low(n, u)
  BY <1>4, BelowIsRemainder
<1>7. int16(n) = Low(n, 15) - (bit(data1, 7) * 2 ^ 15)
  <2>1. bit(data1, 7) = IF n < 32768 THEN 0 ELSE 1
    BY <1>1, TopBit, Powers DEF bit
  <2>2. bit(data1, 7) * 2 ^ 15 = IF n < 32768 THEN 0 ELSE 32768
    BY <2>1, Powers
  <2>3. Low(n, 15) = n % 32768
    BY Powers DEF Low
  <2> QED
    BY <1>4, <2>2, <2>3, SignedWord
<1>8. /\ Low(int16(n), u) = Low(n, u) /\ Low(n, u) \in Int /\ Low(n, 15) \in Int
      /\ bit(data1, 7) * 2 ^ 15 \in Int
  <2>1. u \in {0, 1, 2, 3}
    OBVIOUS
  <2>2. Low(int16(n), u) = Low(n, u) /\ Low(n, u) \in Int
    BY <1>4, <2>1, LowBits
  <2>3. Low(n, 15) \in Int /\ bit(data1, 7) * 2 ^ 15 \in Int
    BY Powers DEF Low, bit
  <2> QED
    BY <2>2, <2>3
<1>9. \A x, y, z \in Int : (x - y) - z = (x - z) - y
  OBVIOUS
<1> QED
  BY <1>5, <1>6, <1>7, <1>8, <1>9

(* Whenever ReadTemp runs, it reads the sensor's bytes as the temperature that  *)
(* they stand for: any two bytes, below zero too and at every resolution.      *)
THEOREM TemperatureAlwaysRead == Spec => []TemperatureRead
<1>1. TemperatureRead
  BY BytesRead DEF TemperatureRead
<1> QED
  BY <1>1, PTL
=============================================================================
