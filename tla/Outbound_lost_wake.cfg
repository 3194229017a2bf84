\* A claim that raises while a hook submits.
SPECIFICATION FairSpec
CONSTANTS
  r1 = r1  r2 = r2  None = None
  Request = {r1}
  MaxAttempts = 2  MaxArms = 1  MaxCrashes = 0  MaxFailures = 0
PROPERTIES
  NoWakeIsLost
CHECK_DEADLOCK FALSE
