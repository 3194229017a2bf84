\* Routes, blocks, legacy ids, the JSONL tail, purges and cleanup against a worker.
SPECIFICATION Spec
CONSTANTS
  e1 = e1  e2 = e2  c1 = c1  c2 = c2  p1 = p1  p2 = p2
  t1 = t1  t2 = t2  w1 = w1  w2 = w2  op = op
  None = None  Gone = Gone  Owner <- MCOwner
  Event = {e1, e2}  Conversation = {c1}  Profile = {p1}  Topic = {t1, t2}
  ConversationOf <- OneConversation  ProfileOf <- OneProfile
  HasMedia = {e1}  Tailed = {e2}  PolicyRejected = {e2}
  Worker = {w1}  Operator = {op}
  WorkerProfile <- SameWorkers  OperatorProfile <- ProfileOne
  LeaseSeconds = 1  RuntimeLockSeconds = 1  MaxAttempts = 1
  BaseBackoff = 0  MaxBackoff = 0  RetentionSeconds = 0  CleanupRetrySeconds = 1
  Horizon = 1  Timely = FALSE  MaxStall = 0  MaxCommands = 2  MaxCrashes = 0
SYMMETRY TopicSymmetry
INVARIANTS
  NothingFallsOut
  MediaRemovalIsJustified
PROPERTIES
  ClaimsFollowTheRoute
  LegacyIsNotQueued
  OperatorResolvesUncertain
