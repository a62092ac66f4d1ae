------------------------------ MODULE SignalLED ------------------------------
(***************************************************************************)
(* SignalLEDControl.ino, the part for this board: the LED that blinks as a *)
(* sign of life.  It follows a sequence of times, on and off by turns.     *)
(***************************************************************************)
EXTENDS Integers, Sequences

CONSTANTS LedOnTime, LedOffTime     \* LEDS_COMMS_LOST_SEQ, in calls of the handler

ASSUME LedAssumption == {LedOnTime, LedOffTime} \subseteq Nat \ {0}

VARIABLES
  LedCommsSeqCurrentSeg,
  LedCommsCounter,
  led           \* what SIGNAL_LED_PIN shows

ledVars == <<LedCommsSeqCurrentSeg, LedCommsCounter, led>>

LedCommsSeq == <<LedOnTime, LedOffTime>>

LedInit == LedCommsSeqCurrentSeg = 0 /\ LedCommsCounter = 0 /\ led = "ON"

Signal_LEDs_Initialise ==
  LedCommsSeqCurrentSeg' = 0 /\ LedCommsCounter' = 0 /\ led' = "ON"

Signal_LEDs_10msHandlerOnce ==           \* mutant: the sequence does not start over
  \/ /\ LedCommsCounter + 1 < LedCommsSeq[LedCommsSeqCurrentSeg + 1]
     /\ LedCommsCounter' = LedCommsCounter + 1
     /\ UNCHANGED <<LedCommsSeqCurrentSeg, led>>
  \/ /\ LedCommsCounter + 1 >= LedCommsSeq[LedCommsSeqCurrentSeg + 1]
     /\ LedCommsCounter' = 0 /\ LedCommsSeqCurrentSeg' = 1 /\ led' = "OFF"

Signal_LEDs_10msHandler ==
  \/ /\ LedCommsCounter + 1 < LedCommsSeq[LedCommsSeqCurrentSeg + 1]
     /\ LedCommsCounter' = LedCommsCounter + 1
     /\ UNCHANGED <<LedCommsSeqCurrentSeg, led>>
  \/ /\ LedCommsCounter + 1 >= LedCommsSeq[LedCommsSeqCurrentSeg + 1]
     /\ LedCommsCounter' = 0
     /\ LedCommsSeqCurrentSeg' = (LedCommsSeqCurrentSeg + 1) % Len(LedCommsSeq)
     /\ led' = IF LedCommsSeqCurrentSeg' % 2 = 0 THEN "ON" ELSE "OFF"

-----------------------------------------------------------------------------
LedTypeOK ==
  /\ LedCommsSeqCurrentSeg \in 0..(Len(LedCommsSeq) - 1)
  /\ LedCommsCounter \in 0..(LedCommsSeq[LedCommsSeqCurrentSeg + 1] - 1)
  /\ led = IF LedCommsSeqCurrentSeg = 0 THEN "ON" ELSE "OFF"
=============================================================================
