------------------------------- MODULE DS18x20 -------------------------------
(***************************************************************************)
(* DS18x20SingleWire.ino and util/FilteredValue.h: the temperature sensors *)
(* on the 1-wire line, asked for a conversion by the 100 ms handler and    *)
(* read by the 1 s handler, and the filtered value that a status report    *)
(* shows while it is recent enough.  Here it matters when a temperature is *)
(* read and how long it is shown; which one it is, Scratchpad.tla and      *)
(* FilteredValue.tla say.                                                  *)
(*   Time is the ticks of the ticker's callback (10 ms).  loop() is done   *)
(* with a tick before the next one comes, except in the delay()s that      *)
(* GsmLogic_1sHandler may run into: 500 ms in SendSmsCommand, 1000 ms in   *)
(* ResetGsmModem.  The callback still overtakes loop() inside a tick.      *)
(***************************************************************************)
EXTENDS Timer1, Scratchpad, Sequences

CONSTANTS
  Devices,      \* what is on the line, in the order of the search
  Retaining,    \* s0_temp.init(10, 10): _secondsRetaining
  Conversion,   \* ticks of a 12 bit conversion, 750 ms
  Delays        \* ticks of the delays GsmLogic_1sHandler may run into

ASSUME DevicesAssumption == Devices \in Seq({"healthy", "noisy", "foreign"})
ASSUME TicksAssumption == Retaining \in Nat \ {0} /\ Conversion \in Nat /\ Delays \subseteq Nat \ {0}

(* No delay is longer than a second, and a conversion is done in less, even when*)
(* it was asked for by the second 100 ms handler.                              *)
ASSUME SecondAssumption ==
  /\ Ratio > 1
  /\ \A d \in Delays : d <= Ratio * Ratio
  /\ Conversion < Ratio * Ratio - 2 * Ratio

VARIABLES
  S0_State,
  lastFound,               \* how far OneWire's search of the line has come
  _start,                  \* has the filter never had a value?
  _valueValidForInterval,
  plugged,                 \* is the line connected to its sensors?
  delay,                   \* ticks left of the delay loop() is in
  age,                     \* ticks since the conversion ReadTemp will read was asked for,
                           \* up to Conversion; 0 when there is none
  disturbed,               \* a delay, or (un)plugging, since the 1 s handler's last run?
  sinceReading             \* 1 s ticks since the last reading, up to Retaining

sensor == <<S0_State, lastFound, _start, _valueValidForInterval>>
ghosts == <<age, disturbed, sinceReading>>
vars   == <<timerVars, sensor, plugged, delay, ghosts>>

Init ==
  /\ TimerInit
  /\ S0_State = "GetAndSendCommand" /\ lastFound = 0
  /\ _start = TRUE /\ _valueValidForInterval = 0
  /\ plugged \in BOOLEAN /\ delay = 0
  /\ age = 0 /\ disturbed = FALSE /\ sinceReading = 0

hasValue == _valueValidForInterval > 0 /\ ~_start

-----------------------------------------------------------------------------
(* The world: the ticker and the line. *)
UpTo(n, most) == IF n < most THEN n + 1 ELSE n

Timer1OnInterrupExecute ==
  /\ \/ /\ Raise(1)
        /\ delay > 0 \/ (at \in {<<"gsm", 1>>, <<"test", 1>>} /\ ~flag[1])
        /\ delay' = IF delay > 0 THEN delay - 1 ELSE 0
        /\ age' = IF S0_State = "ReadTemp" THEN UpTo(age, Conversion) ELSE age
        /\ UNCHANGED sinceReading
     \/ Raise(2) /\ UNCHANGED <<delay, age, sinceReading>>
     \/ /\ Raise(3)
        /\ sinceReading' = UpTo(sinceReading, Retaining) /\ UNCHANGED <<delay, age>>
  /\ UNCHANGED <<sensor, plugged, disturbed>>

PlugOrUnplug ==
  /\ plugged' = ~plugged /\ disturbed' = TRUE
  /\ UNCHANGED <<timerVars, sensor, delay, age, sinceReading>>

-----------------------------------------------------------------------------
(* GetSensorAndSendReadCommand: the search yields the next device of the line,  *)
(* or none and starts again.  The family code and the CRC of its address       *)
(* decide whether it is asked for a conversion.                                *)
GetSensorAndSendReadCommand ==
  IF plugged /\ lastFound < Len(Devices)
  THEN /\ lastFound' = lastFound + 1
       /\ \/ /\ Devices[lastFound'] # "foreign"
             /\ S0_State' = "ReadTemp"
          \/ /\ Devices[lastFound'] # "healthy"
             /\ S0_State' = "Error"
  ELSE lastFound' = 0 /\ S0_State' = "Error"

DS18x20_Timer100ms_Handler ==
  /\ IF S0_State = "GetAndSendCommand" THEN GetSensorAndSendReadCommand
     ELSE UNCHANGED <<S0_State, lastFound>>
  /\ UNCHANGED <<_start, _valueValidForInterval, ghosts>>

(* ExecuteOn1secondInterval follows the state machine, an added value included. *)
CountdownUnguarded(n) == n - 1                                                \* mutant
CountdownForgotten(n) == n                                                    \* mutant

Countdown(n) == IF n > 0 THEN n - 1 ELSE 0

ReadOK ==
  /\ plugged
  /\ S0_State' = "GetAndSendCommand" /\ _start' = FALSE
  /\ _valueValidForInterval' = Countdown(Retaining) /\ sinceReading' = 0

ReadFailsShown ==                          \* mutant: adds the value it could not read
  /\ plugged => Devices[lastFound] # "healthy"
  /\ S0_State' = "Error" /\ _start' = FALSE
  /\ _valueValidForInterval' = Countdown(Retaining)
  /\ UNCHANGED sinceReading

ReadFails ==
  /\ plugged => Devices[lastFound] # "healthy"
  /\ S0_State' = "Error" /\ _valueValidForInterval' = Countdown(_valueValidForInterval)
  /\ UNCHANGED <<_start, sinceReading>>

NoReadingStuck ==                          \* mutant: no way out of S2_Error
  /\ _valueValidForInterval' = Countdown(_valueValidForInterval)
  /\ UNCHANGED <<S0_State, _start, sinceReading>>

NoReading ==
  /\ S0_State' = IF S0_State = "Error" THEN "GetAndSendCommand" ELSE S0_State
  /\ _valueValidForInterval' = Countdown(_valueValidForInterval)
  /\ UNCHANGED <<_start, sinceReading>>

ReadTemp == S0_State = "ReadTemp" /\ (ReadOK \/ ReadFails)

DS18x20_Timer1s_Handler ==
  /\ ReadTemp \/ (S0_State # "ReadTemp" /\ NoReading)
  /\ disturbed' = FALSE /\ age' = 0
  /\ UNCHANGED lastFound

-----------------------------------------------------------------------------
MailLoop ==
  /\ \E i \in Levels : Test(i) \/ Clear(i)
  /\ UNCHANGED <<sensor, plugged, delay, ghosts>>

Timer1_10msHandler ==
  /\ Run(1) /\ at' = <<"test", 2>>
  /\ UNCHANGED <<sensor, plugged, delay, ghosts>>

Timer1_100msHandler ==
  /\ Run(2) /\ at' = <<"test", 3>>
  /\ DS18x20_Timer100ms_Handler
  /\ UNCHANGED <<plugged, delay>>

Timer1_1000msHandler ==
  /\ Run(3) /\ at' = <<"gsm", 3>>
  /\ DS18x20_Timer1s_Handler
  /\ UNCHANGED <<plugged, delay>>

GsmLogic_1sHandler ==
  /\ at = <<"gsm", 3>> /\ at' = <<"gsm", 1>>
  /\ \/ UNCHANGED <<delay, disturbed>>
     \/ delay' \in Delays /\ disturbed' = TRUE
  /\ UNCHANGED <<raising, counter, flag, waiting, sensor, plugged, age, sinceReading>>

GsmLogic_loop ==
  /\ at = <<"gsm", 1>> /\ at' = <<"test", 1>>
  /\ UNCHANGED <<raising, counter, flag, waiting, sensor, plugged, delay, ghosts>>

loop ==
  /\ delay = 0
  /\ \/ MailLoop \/ Timer1_10msHandler \/ Timer1_100msHandler \/ Timer1_1000msHandler
     \/ GsmLogic_1sHandler \/ GsmLogic_loop

Next == Timer1OnInterrupExecute \/ loop \/ PlugOrUnplug

(* The ticker never stops and loop() is called for ever. *)
Spec == Init /\ [][Next]_vars /\ WF_vars(Timer1OnInterrupExecute) /\ WF_vars(loop)

-----------------------------------------------------------------------------
(* What is left of a delay that loop() may run into. *)
Lasting == {0} \cup UNION {0..d : d \in Delays}

(* The variables keep to their ranges. *)
TypeOK ==
  /\ TimerTypeOK
  /\ S0_State \in {"GetAndSendCommand", "ReadTemp", "Error"}
  /\ lastFound \in 0..Len(Devices)
  /\ _start \in BOOLEAN /\ _valueValidForInterval \in 0..(Retaining - 1)
  /\ plugged \in BOOLEAN /\ delay \in Lasting
  /\ age \in 0..Conversion /\ disturbed \in BOOLEAN /\ sinceReading \in 0..Retaining

(* A temperature that is shown is less than Retaining seconds old, even when a  *)
(* delay puts off the handler that counts the seconds.                         *)
ShownIsRecent == hasValue => sinceReading < Retaining

(* At every resolution, and below zero too, ReadTemp reads the bytes as the      *)
(* temperature they stand for, rounded towards the lower one.                  *)
TemperatureRead == S0_State = "ReadTemp" => BytesAreTemperature

(* DS18x20SingleWire.ino:229: a reading is of a conversion that is finished.    *)
ConversionFinished ==
  [][S0_State = "ReadTemp" /\ S0_State' # "ReadTemp" => age >= Conversion]_vars

(* The same, but for seconds in which loop() was delayed or the line (un)plugged.*)
ConversionFinishedUndisturbed ==
  [][S0_State = "ReadTemp" /\ S0_State' # "ReadTemp" => age >= Conversion \/ disturbed]_vars

(* A healthy sensor's temperature comes to be shown, and is then shown without  *)
(* a gap, whatever else is on the line.                                        *)
ShownWhilePlugged == <>[]plugged => <>[]hasValue

(* A line that stays unplugged shows no temperature in the end. *)
ExpiresWhenUnplugged == <>[]~plugged => <>[]~hasValue
=============================================================================
