\* Two replies through disarming, lost answers, refused connections, a crash of the
\* gateway or the bridge, and a write that fails.
SPECIFICATION Spec
CONSTANTS
  r1 = r1  r2 = r2  None = None
  Request = {r1, r2}
  MaxAttempts = 2  MaxArms = 2  MaxCrashes = 1  MaxFailures = 1
INVARIANTS
  TypeOK
  DeliveredOnce
  RecordIsTrue
  MediaIsKept
SYMMETRY Alike
CHECK_DEADLOCK FALSE
