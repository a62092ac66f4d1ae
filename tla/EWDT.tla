-------------------------------- MODULE EWDT --------------------------------
(***************************************************************************)
(* EWDT.ino: the pin that has to reset the external watchdog's counter.    *)
(* EWDT_1msHandler is called by the 10 ms handler.  loop() is done with a  *)
(* tick of the callback before the next one comes.                         *)
(***************************************************************************)
EXTENDS Timer1

CONSTANTS EWDT_RESET_INTERVAL_SEC, EWDT_HIGH_LEN_MS

VARIABLES
  EWDT_counterInterval, EWDT_counterHigh,
  EWDT_pinStatus,
  sinceHigh     \* runs of the 1 s handler since the pin was last HIGH, up to the interval + 2

ewdtVars == <<EWDT_counterInterval, EWDT_counterHigh, EWDT_pinStatus, sinceHigh>>
vars == <<timerVars, ewdtVars>>

Init ==
  /\ TimerInit
  /\ EWDT_counterInterval = 0 /\ EWDT_counterHigh = 0
  /\ EWDT_pinStatus = FALSE /\ sinceHigh = 0

Timer1OnInterrupExecute ==
  /\ \/ Raise(1) /\ ~flag[1] /\ at \in {<<"gsm", 1>>, <<"test", 1>>}
     \/ Raise(2) \/ Raise(3)
  /\ UNCHANGED ewdtVars

EWDT_1sHandler ==
  IF EWDT_counterInterval + 1 > EWDT_RESET_INTERVAL_SEC
  THEN EWDT_counterInterval' = 0 /\ EWDT_counterHigh' = 0
       /\ EWDT_pinStatus' = TRUE /\ sinceHigh' = 0
  ELSE /\ EWDT_counterInterval' = EWDT_counterInterval + 1
       /\ sinceHigh' = IF sinceHigh > EWDT_RESET_INTERVAL_SEC + 1 THEN sinceHigh ELSE sinceHigh + 1
       /\ UNCHANGED <<EWDT_counterHigh, EWDT_pinStatus>>

EWDT_1msHandler ==
  /\ IF EWDT_counterHigh + 1 > EWDT_HIGH_LEN_MS
     THEN EWDT_counterInterval' = 0 /\ EWDT_counterHigh' = 0 /\ EWDT_pinStatus' = FALSE
     ELSE EWDT_counterHigh' = EWDT_counterHigh + 1
          /\ UNCHANGED <<EWDT_counterInterval, EWDT_pinStatus>>
  /\ UNCHANGED sinceHigh

loop ==
  \/ (\E i \in Levels : Test(i) \/ Clear(i)) /\ UNCHANGED ewdtVars
  \/ Run(1) /\ at' = <<"test", 2>> /\ EWDT_1msHandler
  \/ Run(2) /\ at' = <<"test", 3>> /\ UNCHANGED ewdtVars
  \/ Run(3) /\ at' = <<"gsm", 1>> /\ EWDT_1sHandler
  \/ /\ at = <<"gsm", 1>> /\ at' = <<"test", 1>>
     /\ UNCHANGED <<raising, counter, flag, waiting, ewdtVars>>

Next == Timer1OnInterrupExecute \/ loop

Spec == Init /\ [][Next]_vars

-----------------------------------------------------------------------------
(* EWDT.ino:3: the external watchdog's counter is reset every                   *)
(* EWDT_RESET_INTERVAL_SEC seconds, or in the second after.                    *)
WatchdogReset == sinceHigh <= EWDT_RESET_INTERVAL_SEC + 1
=============================================================================
