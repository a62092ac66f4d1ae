------------------------------ MODULE MainLoop ------------------------------
(***************************************************************************)
(* MainSketch.ino as the door and the LED see it: loop() runs the timer's *)
(* handlers and then GsmLogic_loop, while the ticker's callback raises     *)
(* flags on the other core and the task watchdog restarts a loop() that    *)
(* hangs.  The GSM part is reduced to what it does to the door: an SMS     *)
(* read by GsmLogic_loop, or by a parser whose timeout the 100 ms handler  *)
(* reports, may open or close the door or hang the program (GsmLogic.tla   *)
(* says when).  Delays in a handler are steps of the callback between two  *)
(* of loop().                                                              *)
(***************************************************************************)
EXTENDS Timer1, DoorControl, SignalLED

CONSTANT MaxOrders      \* bound: orders to the door in a behaviour

ASSUME MaxOrdersAssumption == MaxOrders \in Nat

VARIABLES
  orders,       \* how many orders the door was given
  ordered,      \* has the door been given an order since the last restart?
  held          \* 10 ms ticks since the last order and since a circuit was driven
                \* or let go, up to PulseLen + 1

ghosts == <<orders, ordered, held>>
vars   == <<timerVars, doorVars, ledVars, ghosts>>

Init ==
  /\ TimerInit /\ DoorInit /\ LedInit
  /\ orders = 0 /\ ordered = FALSE /\ held = 0

(* The callback runs whatever loop() does, hanging included. *)
Timer1OnInterrupExecute ==
  \E i \in Levels :
    /\ Raise(i)
    /\ held' = IF i = 1 /\ held <= PulseLen THEN held + 1 ELSE held
    /\ UNCHANGED <<doorVars, ledVars, orders, ordered>>

(* The circuits that are driven: the buttons that the door opener sees pressed. *)
pressed == (IF OpenActive THEN {"open"} ELSE {}) \cup (IF CloseActive THEN {"close"} ELSE {})

(* loop() is inside a handler that switches circuits. *)
Switching ==
  /\ CircuitCall
  /\ held' = IF pressed' = pressed THEN held ELSE 0
  /\ UNCHANGED <<timerVars, ledVars, orders, ordered>>

MailLoop ==
  /\ calls = <<>>
  /\ \E i \in Levels : Test(i) \/ Clear(i)
  /\ UNCHANGED <<doorVars, ledVars, ghosts>>

Timer1_10msHandler ==
  /\ calls = <<>>
  /\ Run(1) /\ at' = <<"test", 2>>
  /\ Signal_LEDs_10msHandler /\ DoorControl_10msHandler
  /\ UNCHANGED ghosts

Timer1_100msHandler ==
  /\ calls = <<>>
  /\ Run(2) /\ at' = <<"gsm", 2>>
  /\ UNCHANGED <<doorVars, ledVars, ghosts>>

Timer1_1000msHandler ==      \* none of its handlers switches a circuit
  /\ calls = <<>>
  /\ Run(3) /\ at' = <<"gsm", 1>>
  /\ UNCHANGED <<doorVars, ledVars, ghosts>>

(* GsmLogic_loop and GsmLogic_100msHandler handle any number of SMSs: each may  *)
(* order the door, and one may hang the program.                               *)
AtGsm == calls = <<>> /\ at \in {<<"gsm", 1>>, <<"gsm", 2>>}

SmsOrdersDoor ==
  /\ AtGsm /\ orders < MaxOrders
  /\ DoorControl_Open \/ DoorControl_Close
  /\ orders' = orders + 1 /\ ordered' = TRUE /\ held' = 0
  /\ UNCHANGED <<timerVars, ledVars>>

SmsHangs ==
  /\ AtGsm /\ at' = <<"hung", 1>>
  /\ UNCHANGED <<raising, counter, flag, waiting, doorVars, ledVars, ghosts>>

GsmDone ==
  /\ AtGsm /\ at' = IF at[2] = 2 THEN <<"test", 3>> ELSE <<"test", 1>>
  /\ UNCHANGED <<raising, counter, flag, waiting, doorVars, ledVars, ghosts>>

WatchdogRestart ==
  /\ at = <<"hung", 1>>
  /\ raising' = 1 /\ counter' = [i \in 1..2 |-> 0]
  /\ flag' = [i \in Levels |-> FALSE]
  /\ at' = <<"test", 1>> /\ waiting' = {}
  /\ DoorReset /\ Signal_LEDs_Initialise
  /\ ordered' = FALSE /\ held' = 0
  /\ UNCHANGED orders

loop ==
  \/ Switching \/ MailLoop \/ Timer1_10msHandler \/ Timer1_100msHandler
  \/ Timer1_1000msHandler \/ SmsOrdersDoor \/ SmsHangs \/ GsmDone

Next == Timer1OnInterrupExecute \/ loop \/ WatchdogRestart

Spec == Init /\ [][Next]_vars

(* The ticker is driven by hardware, loop() is called for ever, and so is the   *)
(* watchdog's restart of one that hangs.                                       *)
FairSpec ==
  /\ Spec
  /\ WF_vars(Timer1OnInterrupExecute) /\ WF_vars(loop) /\ WF_vars(WatchdogRestart)

-----------------------------------------------------------------------------
(* The variables keep to their ranges; the pulse counter never passes PulseLen. *)
TypeOK ==
  /\ TimerTypeOK /\ DoorTypeOK /\ LedTypeOK
  /\ orders \in 0..MaxOrders /\ ordered \in BOOLEAN /\ held \in 0..(PulseLen + 1)

(* The open and the close circuit are never driven together, not even between   *)
(* two calls of a handler that turns the door round in the middle of a pulse.  *)
NeverBothCircuits == OpenReleased \/ CloseReleased

(* From the first order on, the outputs are those of DoorControl_State whenever *)
(* no handler is running: no pulse outlives its state, or is lost.             *)
CircuitsFollowState ==
  calls = <<>> =>
    /\ DoorControl_State = "OpeningSignalActive" => OpenActive /\ CloseReleased
    /\ DoorControl_State = "ClosingSignalActive" => CloseActive /\ OpenReleased
    /\ DoorControl_State = "Idle" /\ ordered => OpenReleased /\ CloseReleased

(* However the ticks fall and however many a slow handler merges, a pulse ends  *)
(* only when PulseLen ticks have come since the last order, and since its      *)
(* circuit was driven for it.                                                  *)
PulseLongEnough ==
  [][DoorControl_State # "Idle" /\ DoorControl_State' = "Idle" =>
       at = <<"hung", 1>> \/ held >= PulseLen]_vars

(* What the door opener sees is what DoorOpener promises: buttons pressed one at *)
(* a time, for an order, and for long enough.                                  *)
wanted ==
  CASE DoorControl_State = "Idle"                -> "none"
    [] DoorControl_State = "OpeningSignalActive" -> "open"
    [] DoorControl_State = "ClosingSignalActive" -> "close"

Opener == INSTANCE DoorOpener

ButtonsAsOrdered == Opener!OpenerSpec

(* No tick is forgotten: every one, the rare 1 s ticks too, is followed by the  *)
(* start of a run of its handler (or by a restart), whatever the race between  *)
(* the callback and the tests of Timer1MailLoop.                               *)
EveryTickHandled == \A i \in Levels : i \in waiting ~> i \notin waiting

(* A pulse ends: the door opener's button is not held down for ever.           *)
PulseEnds == ordered ~> ~ordered \/ (OpenReleased /\ CloseReleased)

(* The LED is a sign of life: unless the program hangs again and again, it goes *)
(* on and off for ever, whatever ticks are merged and wherever a restart falls. *)
LedBlinks == []<>(at = <<"hung", 1>>) \/ ([]<>(led = "ON") /\ []<>(led = "OFF"))

(* While no pulse is going on, both circuits are released.                     *)
IdleMeansReleased ==
  DoorControl_State = "Idle" /\ calls = <<>> => OpenReleased /\ CloseReleased
=============================================================================
