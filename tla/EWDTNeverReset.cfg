SPECIFICATION Spec
CONSTANTS
  Ratio = 10
  EWDT_RESET_INTERVAL_SEC = 5
  EWDT_HIGH_LEN_MS = 50
INVARIANTS WatchdogReset
