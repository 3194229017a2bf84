\* Two replies, and an ARM file that is removed and written again.
SPECIFICATION FairSpec
CONSTANTS
  r1 = r1  r2 = r2  None = None
  Request = {r1, r2}
  MaxAttempts = 2  MaxArms = 2  MaxCrashes = 0  MaxFailures = 0
PROPERTIES
  PreparedIsTried
CHECK_DEADLOCK FALSE
