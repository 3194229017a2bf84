\* A session file with an event, a line without one and a line that does not parse,
\* rotated or cut once, a crash of the tail at any step, and an event that another
\* producer may record first, or the old pipeline may have delivered.
SPECIFICATION FairSpec
CONSTANTS
  a = a  b = b  n = n  m = m  None = None
  Event = {a, b}  Noise = {n}  Malformed = {m}
  Shared = {b}  Listed = {b}
  SlowRegrowth = TRUE  MaxLines = 2  MaxRewrites = 1  MaxTailCrashes = 1
INVARIANTS
  TypeOK
  CursorPassesNothing
PROPERTIES
  LinesAreTaken
