\* A ring of two entries under a reload that asks for three.
CONSTANTS
  NoSession = NoSession
  AlertSessions = {"s"}
  AlertScans <- UnsafeScans
  SelfmodAlerts = {"petasos.selfmod.config_write"}
  AlertConfigs <- GrowingLimits
  Minute = 1
  Hour = 2
  MaxAlertNow = 2
  MaxAlertCalls = 5
SPECIFICATION AlertSpec
CHECK_DEADLOCK FALSE
INVARIANT KeptRingsHarmless
