\* Two replies with receipts, one reaction candidate per cycle.
SPECIFICATION FairSpec
CONSTANTS
  m = m  g = g  k3 = k3  k4 = k4  k5 = k5  r1 = r1  r2 = r2  o1 = o1  o2 = o2
  ca = ca  cb = cb  cg = cg  d1 = d1  d2 = d2  None = None
  Chat <- ChatOf  Alt <- AltOf  Ref <- RefOf  Level <- LevelOf  RemoteIds <- IdsOf
  Message = {}  Receipt = {k3, k5}  Reply = {o1, o2}
  Conversation = {ca, cb, cg}  Destination = {d1, d2}
  Scope = {"owner_private", "area_shared"}
  Group = {}  Malformed = {}  HasMedia = {}  Labelled = {}  Unaddressed = {}
  BatchLimit = 2  MaxItems = 1  MaxFaults = 0  MaxCommands = 0
PROPERTIES
  ReactionsCatchUp
CHECK_DEADLOCK FALSE
