\* Two runs of the daily notes, which may overlap and crash, while events are
\* captured and claims are added.
SPECIFICATION FairSpec
CONSTANTS
  a1 = a1  a2 = a2  u = u  shared = shared  private = private
  d1 = d1  p1 = p1  p2 = p2  c1 = c1  c2 = c2  None = None
  Event = {a1, a2, u}  Undated = {u}  Scope = {shared, private}
  Rank <- Ranks  ScopeOf <- Scopes  Day = {d1}  DayOf <- Days  ScopeOrder <- Order
  BatchLimit = 1  Projector = {p1, p2}  Claim = {c1, c2}
  MaxEvidence = 1  MaxProjectorCrashes = 1
INVARIANTS
  TypeOK
  NoteHasProjected
  CursorIsProjected
  ScopeNeverLoosens
PROPERTIES
  EventsAreProjected
