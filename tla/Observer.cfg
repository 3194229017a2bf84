\* A contact with two identities, a group, two receipts of one reply.
SPECIFICATION FairSpec
CONSTANTS
  m = m  g = g  k3 = k3  k4 = k4  k5 = k5  r1 = r1  r2 = r2  o1 = o1  o2 = o2
  ca = ca  cb = cb  cg = cg  d1 = d1  d2 = d2  None = None
  Chat <- ChatOf  Alt <- AltOf  Ref <- RefOf  Level <- LevelOf  RemoteIds <- IdsOf
  Message = {m, g}  Receipt = {k3, k4}  Reply = {o1}
  Conversation = {ca, cb, cg}  Destination = {d1, d2}
  Scope = {"owner_private", "area_shared"}
  Group = {g}  Malformed = {}  HasMedia = {m}  Labelled = {g}  Unaddressed = {}
  BatchLimit = 2  MaxItems = 2  MaxFaults = 1  MaxCommands = 2
INVARIANTS
  TypeOK
  AckedIsDurable
  SourceKeptUntilDurable
  ReactionIsProven
PROPERTIES
  ReactionNeverRegresses
  DrainsUnlessStuck
  ReactionsCatchUp
CHECK_DEADLOCK FALSE
