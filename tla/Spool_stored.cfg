\* One process per event and one janitor, with a crash, failed captures and refused
\* unlinks, in a spool that holds both files but not their abandoned copies as well, and a
\* source that may gain a byte while it is copied.
SPECIFICATION FairSpec
CONSTANTS
  e1 = e1  e2 = e2  r1 = r1  r2 = r2  j1 = j1  None = None
  Event = {e1, e2}  Producer = {r1, r2}  Janitor = {j1}
  Size <- TwoSizes  MaximumSpoolBytes = 3
  SingleCapture = TRUE  PromptRetry = TRUE  MaxGrowth = 1  MaxCrashes = 1
INVARIANTS
  TypeOK
  ActiveMediaIsStored
  SpoolWithinQuota
PROPERTIES
  OrphansGo
  SettledMediaGoes
