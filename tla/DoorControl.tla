----------------------------- MODULE DoorControl -----------------------------
(***************************************************************************)
(* DoorControl.ino: the pulse on the open or the close circuit that stands *)
(* for a push of the door opener's button.  Each circuit has two outputs,  *)
(* one active low and one active high.  A handler leaves the calls it      *)
(* makes to switch the circuits in `calls': the door sees each of them     *)
(* take effect.                                                            *)
(***************************************************************************)
EXTENDS Integers, Sequences

CONSTANT PulseLen      \* DOOR_CONTROL_PULSE_LEN_MS / 10

ASSUME PulseLenAssumption == PulseLen \in Nat \ {0}

VARIABLES
  DoorControl_State,
  DoorControl_PuseCounter,
  pin,        \* the level of the four outputs
  calls       \* the circuit calls that the running handler still has to make

doorVars == <<DoorControl_State, DoorControl_PuseCounter, pin, calls>>

Pins == [OPEN_LOW : {"LOW", "HIGH"}, OPEN_HIGH : {"LOW", "HIGH"},
         CLOSE_LOW : {"LOW", "HIGH"}, CLOSE_HIGH : {"LOW", "HIGH"}]

(* The four functions that switch a circuit. *)
CircuitCalls == {"ActivateOpen", "DeactivateOpen", "ActivateClose", "DeactivateClose"}

Switch(call, p) ==
  CASE call = "ActivateOpen"    -> [p EXCEPT !.OPEN_LOW = "LOW", !.OPEN_HIGH = "HIGH"]
    [] call = "DeactivateOpen"  -> [p EXCEPT !.OPEN_LOW = "HIGH", !.OPEN_HIGH = "LOW"]
    [] call = "ActivateClose"   -> [p EXCEPT !.CLOSE_LOW = "LOW", !.CLOSE_HIGH = "HIGH"]
    [] call = "DeactivateClose" -> [p EXCEPT !.CLOSE_LOW = "HIGH", !.CLOSE_HIGH = "LOW"]

(* DoorControl_Initialise, after a reset that leaves every output LOW: it       *)
(* writes the active-low close output twice, HIGH and then LOW.                *)
InitialPins == [OPEN_LOW |-> "HIGH", OPEN_HIGH |-> "LOW", CLOSE_LOW |-> "LOW", CLOSE_HIGH |-> "LOW"]

DoorInit ==
  /\ DoorControl_State = "Idle" /\ DoorControl_PuseCounter = 0
  /\ pin = InitialPins /\ calls = <<>>

DoorReset ==
  /\ DoorControl_State' = "Idle" /\ DoorControl_PuseCounter' = 0
  /\ pin' = InitialPins /\ calls' = <<>>

DoorControl_OpenTogether ==                \* mutant: the circuits are switched in the wrong order
  /\ DoorControl_State' = "OpeningSignalActive" /\ DoorControl_PuseCounter' = 0
  /\ calls' = <<"ActivateOpen", "DeactivateClose">>
  /\ UNCHANGED pin

DoorControl_Open ==
  /\ DoorControl_State' = "OpeningSignalActive" /\ DoorControl_PuseCounter' = 0
  /\ calls' = <<"DeactivateClose", "ActivateOpen">>
  /\ UNCHANGED pin

DoorControl_CloseGoesOn ==                 \* mutant: the counter goes on from the other pulse
  /\ DoorControl_State' = "ClosingSignalActive"
  /\ calls' = <<"DeactivateOpen", "ActivateClose">>
  /\ UNCHANGED <<pin, DoorControl_PuseCounter>>

DoorControl_CloseOnly ==                   \* mutant: the open circuit is left as it is
  /\ DoorControl_State' = "ClosingSignalActive" /\ DoorControl_PuseCounter' = 0
  /\ calls' = <<"ActivateClose">>
  /\ UNCHANGED pin

DoorControl_Close ==
  /\ DoorControl_State' = "ClosingSignalActive" /\ DoorControl_PuseCounter' = 0
  /\ calls' = <<"DeactivateOpen", "ActivateClose">>
  /\ UNCHANGED pin

DoorControl_10msHandlerEarly ==            \* mutant: one tick short
  \/ /\ DoorControl_State = "Idle" /\ UNCHANGED doorVars
  \/ /\ DoorControl_State # "Idle" /\ DoorControl_PuseCounter + 1 < PulseLen
     /\ DoorControl_PuseCounter' = DoorControl_PuseCounter + 1
     /\ UNCHANGED <<DoorControl_State, pin, calls>>
  \/ /\ DoorControl_State # "Idle" /\ DoorControl_PuseCounter + 1 >= PulseLen
     /\ calls' = IF DoorControl_State = "OpeningSignalActive" THEN <<"DeactivateOpen">>
                 ELSE <<"DeactivateClose">>
     /\ DoorControl_State' = "Idle" /\ DoorControl_PuseCounter' = 0
     /\ UNCHANGED pin

DoorControl_10msHandlerSwapped ==          \* mutant: releases the other circuit
  \/ /\ DoorControl_State = "Idle" /\ UNCHANGED doorVars
  \/ /\ DoorControl_State # "Idle" /\ DoorControl_PuseCounter + 1 <= PulseLen
     /\ DoorControl_PuseCounter' = DoorControl_PuseCounter + 1
     /\ UNCHANGED <<DoorControl_State, pin, calls>>
  \/ /\ DoorControl_State # "Idle" /\ DoorControl_PuseCounter + 1 > PulseLen
     /\ calls' = IF DoorControl_State = "ClosingSignalActive" THEN <<"DeactivateOpen">>
                 ELSE <<"DeactivateClose">>
     /\ DoorControl_State' = "Idle" /\ DoorControl_PuseCounter' = 0
     /\ UNCHANGED pin

DoorControl_10msHandlerPastLimit ==        \* mutant: tests the limit before it counts
  \/ /\ DoorControl_State = "Idle" /\ UNCHANGED doorVars
  \/ /\ DoorControl_State # "Idle" /\ DoorControl_PuseCounter <= PulseLen
     /\ DoorControl_PuseCounter' = DoorControl_PuseCounter + 1
     /\ UNCHANGED <<DoorControl_State, pin, calls>>
  \/ /\ DoorControl_State # "Idle" /\ DoorControl_PuseCounter > PulseLen
     /\ calls' = IF DoorControl_State = "OpeningSignalActive" THEN <<"DeactivateOpen">>
                 ELSE <<"DeactivateClose">>
     /\ DoorControl_State' = "Idle" /\ DoorControl_PuseCounter' = 0
     /\ UNCHANGED pin

DoorControl_10msHandler ==
  \/ /\ DoorControl_State = "Idle" /\ UNCHANGED doorVars
  \/ /\ DoorControl_State # "Idle" /\ DoorControl_PuseCounter + 1 <= PulseLen
     /\ DoorControl_PuseCounter' = DoorControl_PuseCounter + 1
     /\ UNCHANGED <<DoorControl_State, pin, calls>>
  \/ /\ DoorControl_State # "Idle" /\ DoorControl_PuseCounter + 1 > PulseLen
     /\ calls' = IF DoorControl_State = "OpeningSignalActive" THEN <<"DeactivateOpen">>
                 ELSE <<"DeactivateClose">>
     /\ DoorControl_State' = "Idle" /\ DoorControl_PuseCounter' = 0
     /\ UNCHANGED pin

CircuitCall ==
  /\ calls # <<>>
  /\ pin' = Switch(Head(calls), pin) /\ calls' = Tail(calls)
  /\ UNCHANGED <<DoorControl_State, DoorControl_PuseCounter>>

-----------------------------------------------------------------------------
OpenActive    == pin.OPEN_LOW = "LOW" /\ pin.OPEN_HIGH = "HIGH"
OpenReleased  == pin.OPEN_LOW = "HIGH" /\ pin.OPEN_HIGH = "LOW"
CloseActive   == pin.CLOSE_LOW = "LOW" /\ pin.CLOSE_HIGH = "HIGH"
CloseReleased == pin.CLOSE_LOW = "HIGH" /\ pin.CLOSE_HIGH = "LOW"

DoorTypeOK ==
  /\ DoorControl_State \in {"Idle", "OpeningSignalActive", "ClosingSignalActive"}
  /\ DoorControl_PuseCounter \in 0..PulseLen
  /\ pin \in Pins
  /\ calls \in Seq(CircuitCalls)
=============================================================================
