--------------------------- MODULE MainLoopProofs ---------------------------
(* Proofs about MainLoop, for every Ratio, PulseLen, LED sequence and number of *)
(* orders.                                                                     *)
EXTENDS MainLoop, TLAPS

Numbers ==
  /\ Ratio \in Nat \ {0} /\ PulseLen \in Nat \ {0} /\ MaxOrders \in Nat
  /\ LedOnTime \in Nat \ {0} /\ LedOffTime \in Nat \ {0}

(* The constants are numbers. *)
LEMMA ConstantsAreNumbers == Numbers
BY RatioAssumption, PulseLenAssumption, MaxOrdersAssumption, LedAssumption DEF Numbers

(* Switching a circuit gives levels of the four outputs. *)
LEMMA SwitchIsTyped ==
  ASSUME NEW call \in CircuitCalls, NEW p \in Pins
  PROVE  Switch(call, p) \in Pins
BY DEF CircuitCalls, Pins, Switch

(* The actions of the door keep its types. *)
LEMMA DoorKeepsType ==
  ASSUME DoorTypeOK, Numbers,
         DoorControl_Open \/ DoorControl_Close \/ DoorControl_10msHandler \/ CircuitCall
           \/ UNCHANGED doorVars
  PROVE  DoorTypeOK'
<1>0. /\ \A x \in CircuitCalls : <<x>> \in Seq(CircuitCalls)
      /\ \A x, y \in CircuitCalls : <<x, y>> \in Seq(CircuitCalls)
  OBVIOUS
<1>1. CASE DoorControl_Open
  BY <1>0, <1>1 DEF DoorControl_Open, DoorTypeOK, Numbers, CircuitCalls
<1>2. CASE DoorControl_Close
  BY <1>0, <1>2 DEF DoorControl_Close, DoorTypeOK, Numbers, CircuitCalls
<1>3. CASE DoorControl_10msHandler
  <2>1. calls' \in Seq(CircuitCalls)
    BY <1>0, <1>3 DEF DoorControl_10msHandler, DoorTypeOK, doorVars, CircuitCalls
  <2>. QED BY <1>3, <2>1 DEF DoorControl_10msHandler, DoorTypeOK, Numbers, doorVars
<1>4. CASE CircuitCall
  <2>1. Head(calls) \in CircuitCalls /\ Tail(calls) \in Seq(CircuitCalls)
    BY <1>4 DEF CircuitCall, DoorTypeOK, CircuitCalls
  <2>. QED BY <1>4, <2>1, SwitchIsTyped DEF CircuitCall, DoorTypeOK, CircuitCalls
<1>5. CASE UNCHANGED doorVars
  BY <1>5 DEF doorVars, DoorTypeOK
<1>. QED BY <1>1, <1>2, <1>3, <1>4, <1>5

(* The LED's handler keeps the LED's. *)
LEMMA LedKeepsType ==
  ASSUME LedTypeOK, Numbers,
         Signal_LEDs_10msHandler \/ Signal_LEDs_Initialise \/ UNCHANGED ledVars
  PROVE  LedTypeOK'
<1>0. /\ Len(LedCommsSeq) = 2 /\ LedCommsSeq[1] = LedOnTime /\ LedCommsSeq[2] = LedOffTime
      /\ LedCommsSeqCurrentSeg \in {0, 1}
  BY DEF LedCommsSeq, LedTypeOK
<1>1. CASE LedCommsSeqCurrentSeg = 0
  BY <1>0, <1>1 DEF LedTypeOK, Signal_LEDs_10msHandler, Signal_LEDs_Initialise, ledVars, Numbers
<1>2. CASE LedCommsSeqCurrentSeg = 1
  BY <1>0, <1>2 DEF LedTypeOK, Signal_LEDs_10msHandler, Signal_LEDs_Initialise, ledVars, Numbers
<1>. QED BY <1>0, <1>1, <1>2

(* The callback and Timer1MailLoop keep theirs. *)
LEMMA RaiseKeepsType ==
  ASSUME TimerTypeOK, Numbers, NEW i \in Levels, Raise(i)
  PROVE  TimerTypeOK'
<1>1. raising' \in Levels /\ flag' \in [Levels -> BOOLEAN] /\ at' \in Places /\ waiting' \subseteq Levels
  BY DEF Raise, TimerTypeOK, Levels
<1>2. counter' \in [1..2 -> 0..(Ratio - 1)]
  <2>1. CASE i < 3
    <3>1. i \in 1..2 /\ counter[i] \in 0..(Ratio - 1)
      BY <2>1 DEF TimerTypeOK, Levels
    <3>. QED BY <2>1, <3>1 DEF Raise, TimerTypeOK, Numbers
  <2>2. CASE ~(i < 3)
    BY <2>2 DEF Raise, TimerTypeOK
  <2>. QED BY <2>1, <2>2
<1>. QED BY <1>1, <1>2 DEF TimerTypeOK

(* Where loop() may go. *)
LEMMA PlacesAre ==
  /\ \A i \in Levels : <<"test", i>> \in Places /\ <<"clear", i>> \in Places /\ <<"run", i>> \in Places
  /\ <<"gsm", 1>> \in Places /\ <<"gsm", 2>> \in Places /\ <<"hung", 1>> \in Places
  /\ {1, 2, 3} \subseteq Levels
BY DEF Places, Levels

(* The values that a start gives the variables. *)
LEMMA InitialValues ==
  ASSUME Numbers
  PROVE  /\ InitialPins \in Pins
         /\ [i \in 1..2 |-> 0] \in [1..2 -> 0..(Ratio - 1)]
         /\ [i \in Levels |-> FALSE] \in [Levels -> BOOLEAN]
         /\ <<>> \in Seq(CircuitCalls)
BY DEF InitialPins, Pins, Numbers

(* TypeOK is inductive. *)
LEMMA TypeInductive == Numbers /\ TypeOK /\ [Next]_vars => TypeOK'
<1>. SUFFICES ASSUME Numbers, TypeOK, [Next]_vars PROVE TypeOK'
  OBVIOUS
<1>1. CASE Timer1OnInterrupExecute
  <2>1. TimerTypeOK' /\ DoorTypeOK' /\ LedTypeOK'
    BY <1>1, RaiseKeepsType, DoorKeepsType, LedKeepsType DEF Timer1OnInterrupExecute, TypeOK
  <2>. QED BY <1>1, <2>1 DEF Timer1OnInterrupExecute, TypeOK, Numbers
<1>2. CASE Switching
  <2>1. held' \in 0..(PulseLen + 1)
    BY <1>2 DEF Switching, TypeOK, Numbers
  <2>. QED BY <1>2, <2>1, DoorKeepsType, LedKeepsType DEF Switching, TypeOK, TimerTypeOK, timerVars
<1>3. CASE MailLoop
  <2>1. TimerTypeOK'
    <3>. PICK i \in Levels : Test(i) \/ Clear(i)
      BY <1>3 DEF MailLoop
    <3>. QED BY PlacesAre DEF Test, Clear, TypeOK, TimerTypeOK
  <2>. QED BY <1>3, <2>1, DoorKeepsType, LedKeepsType DEF MailLoop, TypeOK, ghosts
<1>4. CASE Timer1_10msHandler
  <2>1. TimerTypeOK'
    BY <1>4, PlacesAre DEF Timer1_10msHandler, Run, TypeOK, TimerTypeOK
  <2>. QED BY <1>4, <2>1, DoorKeepsType, LedKeepsType DEF Timer1_10msHandler, TypeOK, ghosts
<1>5. CASE Timer1_100msHandler \/ Timer1_1000msHandler
  <2>1. TimerTypeOK'
    BY <1>5, PlacesAre DEF Timer1_100msHandler, Timer1_1000msHandler, Run, TypeOK, TimerTypeOK
  <2>. QED BY <1>5, <2>1, DoorKeepsType, LedKeepsType
           DEF Timer1_100msHandler, Timer1_1000msHandler, TypeOK, ghosts
<1>6. CASE SmsOrdersDoor
  BY <1>6, DoorKeepsType, LedKeepsType DEF SmsOrdersDoor, TypeOK, TimerTypeOK, timerVars, Numbers
<1>7. CASE SmsHangs \/ GsmDone
  <2>1. TimerTypeOK'
    BY <1>7, PlacesAre DEF SmsHangs, GsmDone, TypeOK, TimerTypeOK
  <2>. QED BY <1>7, <2>1, DoorKeepsType, LedKeepsType DEF SmsHangs, GsmDone, TypeOK, ghosts
<1>8. CASE WatchdogRestart
  <2>1. TimerTypeOK'
    BY <1>8, PlacesAre, InitialValues DEF WatchdogRestart, TypeOK, TimerTypeOK
  <2>2. DoorTypeOK'
    BY <1>8, InitialValues DEF WatchdogRestart, DoorReset, DoorTypeOK, Numbers
  <2>3. LedTypeOK'
    BY <1>8, LedKeepsType DEF WatchdogRestart, TypeOK
  <2>4. held' \in 0..(PulseLen + 1) /\ orders' \in 0..MaxOrders
    BY <1>8 DEF WatchdogRestart, TypeOK, Numbers
  <2>5. ordered' \in BOOLEAN
    BY <1>8 DEF WatchdogRestart
  <2>. QED BY <2>1, <2>2, <2>3, <2>4, <2>5 DEF TypeOK
<1>9. CASE UNCHANGED vars
  BY <1>9, DoorKeepsType, LedKeepsType DEF vars, timerVars, ghosts, TypeOK, TimerTypeOK
<1>. QED BY <1>1, <1>2, <1>3, <1>4, <1>5, <1>6, <1>7, <1>8, <1>9 DEF Next, loop

(* Flags, counters, outputs and the pulse counter keep to their ranges.        *)
THEOREM TypeCorrect == Spec => []TypeOK
<1>1. Init => TypeOK
  <2>. SUFFICES ASSUME Init PROVE TypeOK
    OBVIOUS
  <2>1. TimerTypeOK
    BY ConstantsAreNumbers, PlacesAre, InitialValues DEF Init, TimerInit, TimerTypeOK
  <2>2. DoorTypeOK
    BY ConstantsAreNumbers, InitialValues DEF Init, DoorInit, DoorTypeOK, Numbers
  <2>3. orders \in 0..MaxOrders /\ held \in 0..(PulseLen + 1)
    BY ConstantsAreNumbers DEF Init, Numbers
  <2>4. ordered \in BOOLEAN
    BY DEF Init
  <2>5. LedTypeOK
    BY ConstantsAreNumbers DEF Init, LedInit, LedTypeOK, LedCommsSeq, Numbers
  <2>. QED BY <2>1, <2>2, <2>3, <2>4, <2>5 DEF TypeOK
<1>. QED BY <1>1, TypeInductive, ConstantsAreNumbers, PTL DEF Spec
-----------------------------------------------------------------------------
(* The pulse.  Each tick of the callback raises the 10 ms flag; the flag and a  *)
(* handler about to run stand for at most the ticks that came since the order, *)
(* and one from before it.  While the circuit has not been driven for the      *)
(* order, nothing has been counted.                                            *)
Pending == (IF flag[1] THEN 1 ELSE 0) + (IF at = <<"run", 1>> THEN 1 ELSE 0)

TickBudget ==
  /\ at = <<"clear", 1>> => flag[1]
  /\ DoorControl_State # "Idle" => DoorControl_PuseCounter + Pending <= held + 1
  /\ DoorControl_State # "Idle" /\ calls # <<>> =>
       DoorControl_PuseCounter = 0 /\ at \in {<<"gsm", 1>>, <<"gsm", 2>>}

(* TickBudget is inductive under TypeOK. *)
LEMMA TickBudgetInductive == Numbers /\ TypeOK /\ TickBudget /\ [Next]_vars => TickBudget'
<1>. SUFFICES ASSUME Numbers, TypeOK, TickBudget, [Next]_vars PROVE TickBudget'
  OBVIOUS
<1>0. /\ DoorControl_PuseCounter \in 0..PulseLen /\ held \in 0..(PulseLen + 1)
      /\ flag \in [Levels -> BOOLEAN] /\ 1 \in Levels /\ PulseLen \in Nat
  BY DEF TypeOK, TimerTypeOK, DoorTypeOK, Levels, Numbers
<1>. USE <1>0
<1>1. CASE Timer1OnInterrupExecute
  <2>. PICK i \in Levels :
         /\ Raise(i)
         /\ held' = IF i = 1 /\ held <= PulseLen THEN held + 1 ELSE held
         /\ UNCHANGED doorVars
    BY <1>1 DEF Timer1OnInterrupExecute
  <2>1. at' = at /\ DoorControl_State' = DoorControl_State /\ calls' = calls
        /\ DoorControl_PuseCounter' = DoorControl_PuseCounter
    BY DEF Raise, doorVars
  <2>2. CASE i = 1
    <3>1. flag'[1]
      BY <2>2 DEF Raise
    <3>. QED BY <2>1, <2>2, <3>1 DEF TickBudget, Pending
  <2>3. CASE i # 1
    <3>1. flag'[1] = flag[1]
      BY <2>3 DEF Raise
    <3>. QED BY <2>1, <2>3, <3>1 DEF TickBudget, Pending
  <2>. QED BY <2>2, <2>3
<1>2. CASE Switching
  <2>1. /\ calls # <<>> /\ held' \in {held, 0}
        /\ UNCHANGED <<DoorControl_State, DoorControl_PuseCounter, at, flag>>
    BY <1>2 DEF Switching, CircuitCall, timerVars
  <2>2. at' = <<"clear", 1>> => flag'[1]
    BY <2>1 DEF TickBudget
  <2>3. CASE DoorControl_State # "Idle"
    <3>1. DoorControl_PuseCounter = 0 /\ at \in {<<"gsm", 1>>, <<"gsm", 2>>}
      BY <2>1, <2>3 DEF TickBudget
    <3>2. PICK n \in 0..1 : Pending' = n
      BY <2>1, <3>1 DEF Pending
    <3>3. PICK h \in Nat : held' = h
      BY <2>1
    <3>4. DoorControl_PuseCounter' = 0 /\ at' \in {<<"gsm", 1>>, <<"gsm", 2>>}
      BY <2>1, <3>1
    <3>5. 0 + n <= h + 1
      OBVIOUS
    <3>6. DoorControl_PuseCounter' + Pending' <= held' + 1
      BY <3>2, <3>3, <3>4, <3>5
    <3>. QED BY <2>2, <3>4, <3>6 DEF TickBudget
  <2>4. CASE DoorControl_State = "Idle"
    BY <2>1, <2>2, <2>4 DEF TickBudget
  <2>. QED BY <2>3, <2>4
<1>3. CASE MailLoop
  <2>. PICK i \in Levels : Test(i) \/ Clear(i)
    BY <1>3 DEF MailLoop
  <2>1. calls = <<>> /\ UNCHANGED <<DoorControl_State, DoorControl_PuseCounter, calls, held>>
    BY <1>3 DEF MailLoop, doorVars, ghosts
  <2>2. CASE Test(i)
    BY <2>1, <2>2 DEF Test, TickBudget, Pending
  <2>3. CASE Clear(i) /\ i = 1
    BY <2>1, <2>3 DEF Clear, TickBudget, Pending
  <2>4. CASE Clear(i) /\ i # 1
    <3>1. flag'[1] = flag[1] /\ at' # <<"run", 1>> /\ at' # <<"clear", 1>> /\ at # <<"run", 1>>
      BY <2>4 DEF Clear
    <3>. QED BY <2>1, <3>1 DEF TickBudget, Pending
  <2>. QED BY <2>2, <2>3, <2>4
<1>4. CASE Timer1_10msHandler
  <2>1. at = <<"run", 1>> /\ at' = <<"test", 2>> /\ UNCHANGED <<flag, held>>
    BY <1>4 DEF Timer1_10msHandler, Run, ghosts
  <2>2. \/ DoorControl_State' = "Idle"
        \/ /\ DoorControl_State # "Idle" /\ calls' = <<>>
           /\ DoorControl_PuseCounter' = DoorControl_PuseCounter + 1
    BY <1>4 DEF Timer1_10msHandler, DoorControl_10msHandler, doorVars
  <2>. QED BY <2>1, <2>2 DEF TickBudget, Pending
<1>5. CASE Timer1_100msHandler \/ Timer1_1000msHandler
  BY <1>5 DEF Timer1_100msHandler, Timer1_1000msHandler, Run, doorVars, ghosts, TickBudget, Pending
<1>6. CASE SmsOrdersDoor
  BY <1>6 DEF SmsOrdersDoor, AtGsm, DoorControl_Open, DoorControl_Close, timerVars, TickBudget, Pending
<1>7. CASE SmsHangs \/ GsmDone
  BY <1>7 DEF SmsHangs, GsmDone, AtGsm, doorVars, ghosts, TickBudget, Pending
<1>8. CASE WatchdogRestart
  BY <1>8 DEF WatchdogRestart, DoorReset, TickBudget
<1>9. CASE UNCHANGED vars
  BY <1>9 DEF vars, timerVars, doorVars, ghosts, TickBudget, Pending
<1>. QED BY <1>1, <1>2, <1>3, <1>4, <1>5, <1>6, <1>7, <1>8, <1>9 DEF Next, loop

(* The 10 ms handler releases the circuit when PulseLen ticks at least have     *)
(* come since the order, whatever races and merged ticks there were.           *)
THEOREM PulsesAreLongEnough == Spec => PulseLongEnough
<1>1. Init => TickBudget
  BY DEF Init, TimerInit, DoorInit, TickBudget
<1>2. Numbers /\ TypeOK /\ TickBudget /\ [Next]_vars
        => [DoorControl_State # "Idle" /\ DoorControl_State' = "Idle" =>
              at = <<"hung", 1>> \/ held >= PulseLen]_vars
  <2>. SUFFICES ASSUME Numbers, TypeOK, TickBudget, [Next]_vars,
                       DoorControl_State # "Idle", DoorControl_State' = "Idle"
                PROVE  at = <<"hung", 1>> \/ held >= PulseLen
    OBVIOUS
  <2>1. Timer1_10msHandler \/ WatchdogRestart
    BY DEF Next, loop, Timer1OnInterrupExecute, Switching, CircuitCall, MailLoop, Timer1_100msHandler,
      Timer1_1000msHandler, SmsOrdersDoor, DoorControl_Open, DoorControl_Close, SmsHangs, GsmDone,
      vars, doorVars
  <2>2. CASE Timer1_10msHandler
    <3>1. at = <<"run", 1>> /\ DoorControl_PuseCounter + 1 > PulseLen
      BY <2>2 DEF Timer1_10msHandler, Run, DoorControl_10msHandler, doorVars
    <3>2. flag[1] \in BOOLEAN /\ DoorControl_PuseCounter \in Nat /\ held \in Nat
      BY DEF TypeOK, TimerTypeOK, DoorTypeOK, Levels, Numbers
    <3>. QED BY <3>1, <3>2 DEF TickBudget, Pending, Numbers
  <2>3. CASE WatchdogRestart
    BY <2>3 DEF WatchdogRestart
  <2>. QED BY <2>1, <2>2, <2>3
<1>3. Spec => [](Numbers /\ TypeOK /\ TickBudget)
  BY <1>1, TypeCorrect, TickBudgetInductive, ConstantsAreNumbers, PTL DEF Spec
<1>. QED BY <1>2, <1>3, PTL DEF Spec, PulseLongEnough
-----------------------------------------------------------------------------
(* The circuits.  Each handler that switches them leaves one of six lists of   *)
(* calls to make, and what it has released by then is known.                   *)
PendingCalls ==
  \/ /\ calls = <<>>
     /\ CircuitsFollowState
  \/ DoorControl_State = "OpeningSignalActive" /\ ordered /\ calls = <<"DeactivateClose", "ActivateOpen">>
  \/ /\ DoorControl_State = "OpeningSignalActive" /\ ordered /\ calls = <<"ActivateOpen">>
     /\ CloseReleased
  \/ DoorControl_State = "ClosingSignalActive" /\ ordered /\ calls = <<"DeactivateOpen", "ActivateClose">>
  \/ /\ DoorControl_State = "ClosingSignalActive" /\ ordered /\ calls = <<"ActivateClose">>
     /\ OpenReleased
  \/ DoorControl_State = "Idle" /\ calls = <<"DeactivateOpen">> /\ CloseReleased
  \/ DoorControl_State = "Idle" /\ calls = <<"DeactivateClose">> /\ OpenReleased

CircuitsInv == PendingCalls /\ NeverBothCircuits

Circuits == <<doorVars, ordered>>

(* Making the next call keeps CircuitsInv. *)
LEMMA SwitchingKeepsCircuits == TypeOK /\ CircuitsInv /\ Switching => CircuitsInv'
<1>. SUFFICES ASSUME TypeOK, CircuitsInv, Switching PROVE CircuitsInv'
  OBVIOUS
<1>0. /\ calls # <<>> /\ pin' = Switch(Head(calls), pin) /\ calls' = Tail(calls)
      /\ UNCHANGED <<DoorControl_State, ordered>> /\ pin \in Pins
  BY DEF Switching, CircuitCall, ghosts, TypeOK, DoorTypeOK
<1>. USE <1>0 DEF Pins, Switch, CircuitsInv, NeverBothCircuits, OpenReleased, CloseReleased
<1>1. CASE calls = <<"DeactivateClose", "ActivateOpen">>
  <2>1. Head(calls) = "DeactivateClose" /\ calls' = <<"ActivateOpen">>
    BY <1>1
  <2>. QED BY <1>1, <2>1 DEF PendingCalls
<1>2. CASE calls = <<"DeactivateOpen", "ActivateClose">>
  <2>1. Head(calls) = "DeactivateOpen" /\ calls' = <<"ActivateClose">>
    BY <1>2
  <2>. QED BY <1>2, <2>1 DEF PendingCalls
<1>3. CASE calls = <<"ActivateOpen">>
  <2>1. Head(calls) = "ActivateOpen" /\ calls' = <<>>
    BY <1>3
  <2>. QED BY <1>3, <2>1 DEF PendingCalls, CircuitsFollowState, OpenActive
<1>4. CASE calls = <<"ActivateClose">>
  <2>1. Head(calls) = "ActivateClose" /\ calls' = <<>>
    BY <1>4
  <2>. QED BY <1>4, <2>1 DEF PendingCalls, CircuitsFollowState, CloseActive
<1>5. CASE calls = <<"DeactivateOpen">>
  <2>1. Head(calls) = "DeactivateOpen" /\ calls' = <<>>
    BY <1>5
  <2>. QED BY <1>5, <2>1 DEF PendingCalls, CircuitsFollowState
<1>6. CASE calls = <<"DeactivateClose">>
  <2>1. Head(calls) = "DeactivateClose" /\ calls' = <<>>
    BY <1>6
  <2>. QED BY <1>6, <2>1 DEF PendingCalls, CircuitsFollowState
<1>. QED BY <1>1, <1>2, <1>3, <1>4, <1>5, <1>6 DEF PendingCalls

(* CircuitsInv is inductive under TypeOK. *)
LEMMA CircuitsInductive == TypeOK /\ CircuitsInv /\ [Next]_vars => CircuitsInv'
<1>. SUFFICES ASSUME TypeOK, CircuitsInv, [Next]_vars PROVE CircuitsInv'
  OBVIOUS
<1>1. CASE Switching
  BY <1>1, SwitchingKeepsCircuits
<1>2. CASE UNCHANGED Circuits
  BY <1>2 DEF Circuits, doorVars, CircuitsInv, PendingCalls, NeverBothCircuits, CircuitsFollowState,
    OpenReleased, CloseReleased, OpenActive, CloseActive
<1>3. CASE SmsOrdersDoor
  BY <1>3 DEF SmsOrdersDoor, DoorControl_Open, DoorControl_Close, CircuitsInv, PendingCalls,
    NeverBothCircuits, OpenReleased, CloseReleased
<1>4. CASE Timer1_10msHandler
  <2>1. calls = <<>> /\ CircuitsFollowState
    BY <1>4 DEF Timer1_10msHandler, CircuitsInv, PendingCalls
  <2>2. CASE UNCHANGED <<DoorControl_State, pin, calls>>
    BY <1>4, <2>1, <2>2 DEF Timer1_10msHandler, ghosts, CircuitsInv, PendingCalls, NeverBothCircuits,
      CircuitsFollowState, OpenReleased, CloseReleased, OpenActive, CloseActive
  <2>3. CASE /\ DoorControl_State # "Idle" /\ DoorControl_State' = "Idle" /\ UNCHANGED pin
             /\ calls' = IF DoorControl_State = "OpeningSignalActive" THEN <<"DeactivateOpen">>
                         ELSE <<"DeactivateClose">>
    <3>1. DoorControl_State \in {"OpeningSignalActive", "ClosingSignalActive"}
      BY <2>3 DEF TypeOK, DoorTypeOK
    <3>. QED BY <2>1, <2>3, <3>1 DEF CircuitsInv, PendingCalls, NeverBothCircuits, CircuitsFollowState,
             OpenReleased, CloseReleased
  <2>. QED BY <1>4, <2>2, <2>3 DEF Timer1_10msHandler, DoorControl_10msHandler, doorVars
<1>5. CASE WatchdogRestart
  BY <1>5 DEF WatchdogRestart, DoorReset, InitialPins, CircuitsInv, PendingCalls, NeverBothCircuits,
    CircuitsFollowState, OpenReleased, CloseReleased
<1>. QED BY <1>1, <1>2, <1>3, <1>4, <1>5 DEF Next, loop, Timer1OnInterrupExecute, MailLoop,
         Timer1_100msHandler, Timer1_1000msHandler, SmsHangs, GsmDone, vars, ghosts, Circuits

(* Initially the close circuit is half driven, the open circuit released. *)
LEMMA CircuitsInitially == Init => CircuitsInv
BY DEF Init, DoorInit, InitialPins, CircuitsInv, PendingCalls, NeverBothCircuits, CircuitsFollowState,
  OpenReleased, CloseReleased

(* At no moment are both circuits driven, the moments inside a handler included. *)
THEOREM CircuitsExclude == Spec => []NeverBothCircuits
<1>1. CircuitsInv => NeverBothCircuits
  BY DEF CircuitsInv
<1>. QED BY <1>1, CircuitsInitially, CircuitsInductive, TypeCorrect, PTL DEF Spec

(* Between handlers the outputs are those that DoorControl_State asks for.      *)
THEOREM CircuitsAlwaysFollowState == Spec => []CircuitsFollowState
<1>1. CircuitsInv => CircuitsFollowState
  BY DEF CircuitsInv, PendingCalls, CircuitsFollowState
<1>. QED BY <1>1, CircuitsInitially, CircuitsInductive, TypeCorrect, PTL DEF Spec
-----------------------------------------------------------------------------
(* The refinement of DoorOpener.  What each circuit call does to the buttons.   *)
LEMMA SwitchMovesButtons ==
  ASSUME TypeOK, CircuitCall
  PROVE  /\ Head(calls) = "ActivateOpen"    => pressed' = pressed \cup {"open"}
         /\ Head(calls) = "DeactivateOpen"  => pressed' = pressed \ {"open"}
         /\ Head(calls) = "ActivateClose"   => pressed' = pressed \cup {"close"}
         /\ Head(calls) = "DeactivateClose" => pressed' = pressed \ {"close"}
<1>1. pin \in Pins /\ pin' = Switch(Head(calls), pin)
  BY DEF TypeOK, DoorTypeOK, CircuitCall
<1>. USE <1>1 DEF Pins, Switch, pressed, OpenActive, CloseActive
<1>2. CASE Head(calls) = "ActivateOpen"
  BY <1>2
<1>3. CASE Head(calls) = "DeactivateOpen"
  BY <1>3
<1>4. CASE Head(calls) = "ActivateClose"
  BY <1>4
<1>5. CASE Head(calls) = "DeactivateClose"
  BY <1>5
<1>. QED BY <1>2, <1>3, <1>4, <1>5

(* A released circuit's button is not pressed, a driven one's is. *)
LEMMA ButtonsAndCircuits ==
  ASSUME TypeOK
  PROVE  /\ pressed \subseteq {"open", "close"}
         /\ OpenReleased => "open" \notin pressed
         /\ CloseReleased => "close" \notin pressed
         /\ OpenActive <=> "open" \in pressed
         /\ CloseActive <=> "close" \in pressed
BY DEF pressed, OpenReleased, CloseReleased, OpenActive, CloseActive

(* Each circuit call presses a button, lets one go, or changes nothing. *)
LEMMA SwitchingImplements ==
  ASSUME TypeOK, CircuitsInv, Switching
  PROVE  [Opener!OpenerNext]_(Opener!openerVars)
<1>1. /\ wanted' = wanted /\ held' = IF pressed' = pressed THEN held ELSE 0
      /\ calls # <<>> /\ CircuitCall
  BY DEF Switching, CircuitCall, wanted
<1>2. /\ pressed \subseteq {"open", "close"} /\ ~({"open", "close"} \subseteq pressed)
      /\ OpenReleased => pressed \subseteq {"close"}
      /\ CloseReleased => pressed \subseteq {"open"}
  BY ButtonsAndCircuits DEF CircuitsInv, NeverBothCircuits
<1>3. pressed' = pressed => UNCHANGED Opener!openerVars
  BY <1>1 DEF Opener!openerVars
<1>4. pressed # {} /\ pressed' = {} /\ wanted \notin pressed => Opener!OpenerNext
  BY <1>1 DEF Opener!OpenerNext, Opener!Release
<1>5. pressed = {} /\ pressed' = {wanted} /\ wanted # "none" => Opener!OpenerNext
  BY <1>1 DEF Opener!OpenerNext, Opener!Press
<1>6. CASE DoorControl_State = "OpeningSignalActive" /\ calls = <<"DeactivateClose", "ActivateOpen">>
  <2>1. wanted = "open" /\ Head(calls) = "DeactivateClose"
    BY <1>6 DEF wanted
  <2>. QED BY <1>1, <1>2, <1>3, <1>4, <2>1, SwitchMovesButtons
<1>7. CASE DoorControl_State = "ClosingSignalActive" /\ calls = <<"DeactivateOpen", "ActivateClose">>
  <2>1. wanted = "close" /\ Head(calls) = "DeactivateOpen"
    BY <1>7 DEF wanted
  <2>. QED BY <1>1, <1>2, <1>3, <1>4, <2>1, SwitchMovesButtons
<1>8. CASE DoorControl_State = "OpeningSignalActive" /\ calls = <<"ActivateOpen">> /\ CloseReleased
  <2>1. wanted = "open" /\ Head(calls) = "ActivateOpen"
    BY <1>8 DEF wanted
  <2>. QED BY <1>1, <1>2, <1>3, <1>5, <1>8, <2>1, SwitchMovesButtons
<1>9. CASE DoorControl_State = "ClosingSignalActive" /\ calls = <<"ActivateClose">> /\ OpenReleased
  <2>1. wanted = "close" /\ Head(calls) = "ActivateClose"
    BY <1>9 DEF wanted
  <2>. QED BY <1>1, <1>2, <1>3, <1>5, <1>9, <2>1, SwitchMovesButtons
<1>10. CASE DoorControl_State = "Idle" /\ calls = <<"DeactivateOpen">> /\ CloseReleased
  <2>1. wanted = "none" /\ Head(calls) = "DeactivateOpen"
    BY <1>10 DEF wanted
  <2>. QED BY <1>1, <1>2, <1>3, <1>4, <1>10, <2>1, SwitchMovesButtons
<1>11. CASE DoorControl_State = "Idle" /\ calls = <<"DeactivateClose">> /\ OpenReleased
  <2>1. wanted = "none" /\ Head(calls) = "DeactivateClose"
    BY <1>11 DEF wanted
  <2>. QED BY <1>1, <1>2, <1>3, <1>4, <1>11, <2>1, SwitchMovesButtons
<1>. QED BY <1>1, <1>6, <1>7, <1>8, <1>9, <1>10, <1>11 DEF CircuitsInv, PendingCalls

(* The 10 ms handler ends a pulse only when its button has been held for long   *)
(* enough, by TickBudget.                                                      *)
LEMMA HandlerImplements ==
  ASSUME Numbers, TypeOK, TickBudget, CircuitsInv, Timer1_10msHandler
  PROVE  [Opener!OpenerNext]_(Opener!openerVars)
<1>1. /\ at = <<"run", 1>> /\ calls = <<>> /\ UNCHANGED held
      /\ DoorControl_10msHandler
  BY DEF Timer1_10msHandler, Run, ghosts
<1>2. pressed' = pressed
  BY <1>1 DEF DoorControl_10msHandler, doorVars, pressed, OpenActive, CloseActive
<1>3. CASE UNCHANGED DoorControl_State
  BY <1>1, <1>2, <1>3 DEF wanted, Opener!openerVars
<1>4. CASE /\ DoorControl_State # "Idle" /\ DoorControl_PuseCounter + 1 > PulseLen
           /\ DoorControl_State' = "Idle"
  <2>1. held >= PulseLen
    <3>1. flag[1] \in BOOLEAN /\ DoorControl_PuseCounter \in Nat /\ held \in Nat
      BY DEF TypeOK, TimerTypeOK, DoorTypeOK, Levels, Numbers
    <3>. QED BY <1>1, <1>4, <3>1 DEF TickBudget, Pending, Numbers
  <2>2. wanted # "none" /\ wanted' = "none" /\ pressed = {wanted}
    <3>1. CircuitsFollowState
      BY <1>1 DEF CircuitsInv, PendingCalls
    <3>2. CASE DoorControl_State = "OpeningSignalActive"
      BY <1>1, <1>4, <3>1, <3>2, ButtonsAndCircuits DEF CircuitsFollowState, wanted
    <3>3. CASE DoorControl_State = "ClosingSignalActive"
      BY <1>1, <1>4, <3>1, <3>3, ButtonsAndCircuits DEF CircuitsFollowState, wanted
    <3>. QED BY <1>4, <3>2, <3>3 DEF TypeOK, DoorTypeOK
  <2>. QED BY <1>1, <1>2, <2>1, <2>2 DEF Opener!OpenerNext, Opener!Finish
<1>. QED BY <1>1, <1>3, <1>4 DEF DoorControl_10msHandler, doorVars

(* Every step is one of DoorOpener, or one that the opener does not see. *)
LEMMA StepImplements ==
  Numbers /\ TypeOK /\ TickBudget /\ CircuitsInv /\ [Next]_vars
    => [Opener!OpenerNext]_(Opener!openerVars)
<1>. SUFFICES ASSUME Numbers, TypeOK, TickBudget, CircuitsInv, [Next]_vars
              PROVE  [Opener!OpenerNext]_(Opener!openerVars)
  OBVIOUS
<1>1. CASE UNCHANGED <<DoorControl_State, pin>> /\ UNCHANGED held
  BY <1>1 DEF wanted, pressed, OpenActive, CloseActive, Opener!openerVars
<1>2. CASE Timer1OnInterrupExecute
  <2>1. UNCHANGED <<DoorControl_State, pin>> /\ held' \in {held, held + 1}
    BY <1>2 DEF Timer1OnInterrupExecute, doorVars
  <2>2. CASE held' = held
    BY <1>1, <2>1, <2>2
  <2>3. CASE held' = held + 1
    BY <2>1, <2>3 DEF wanted, pressed, OpenActive, CloseActive, Opener!OpenerNext, Opener!Tick
  <2>. QED BY <2>1, <2>2, <2>3
<1>3. CASE Switching
  BY <1>3, SwitchingImplements
<1>4. CASE Timer1_10msHandler
  BY <1>4, HandlerImplements
<1>5. CASE SmsOrdersDoor
  <2>1. pressed' = pressed /\ held' = 0 /\ wanted' \in {"open", "close"}
    BY <1>5 DEF SmsOrdersDoor, DoorControl_Open, DoorControl_Close, wanted, pressed, OpenActive,
      CloseActive
  <2>. QED BY <2>1 DEF Opener!OpenerNext, Opener!Order, Opener!Buttons
<1>6. CASE WatchdogRestart
  <2>1. wanted' = "none" /\ pressed' = {} /\ held' = 0
    BY <1>6 DEF WatchdogRestart, DoorReset, InitialPins, wanted, pressed, OpenActive, CloseActive
  <2>. QED BY <2>1 DEF Opener!OpenerNext, Opener!Restart
<1>. QED BY <1>1, <1>2, <1>3, <1>4, <1>5, <1>6 DEF Next, loop, MailLoop, Timer1_100msHandler,
         Timer1_1000msHandler, SmsHangs, GsmDone, vars, doorVars, ghosts

(* The buttons of the door opener are pressed one at a time, only for an order, *)
(* and held for PulseLen ticks at least from the moment the circuit is driven, *)
(* for every pulse length and ratio, and whatever ticks are merged.            *)
THEOREM ButtonsKeepPromise == Spec => ButtonsAsOrdered
<1>1. Init => Opener!OpenerInit
  BY DEF Init, DoorInit, InitialPins, wanted, pressed, OpenActive, CloseActive, Opener!OpenerInit
<1>2. Init => TickBudget
  BY DEF Init, TimerInit, DoorInit, TickBudget
<1>. QED BY <1>1, <1>2, StepImplements, TickBudgetInductive, CircuitsInitially, CircuitsInductive,
         TypeCorrect, ConstantsAreNumbers, PTL DEF Spec, ButtonsAsOrdered, Opener!OpenerSpec
=============================================================================
