\* Two profiles share a ledger, with an operator and heartbeats in time: the
\* outbox promise and serial sending.
SPECIFICATION Spec
CONSTANTS
  e1 = e1  e2 = e2  c1 = c1  c2 = c2  p1 = p1  p2 = p2
  t1 = t1  t2 = t2  w1 = w1  w2 = w2  op = op
  None = None  Gone = Gone  Owner <- MCOwner
  Event = {e1, e2}  Conversation = {c1, c2}  Profile = {p1, p2}  Topic = {t1}
  ConversationOf <- OwnConversation  ProfileOf <- OwnProfile
  HasMedia = {}  Tailed = {}  PolicyRejected = {}
  Worker = {w1, w2}  Operator = {op}
  WorkerProfile <- OwnWorkers  OperatorProfile <- ProfileOne
  LeaseSeconds = 2  RuntimeLockSeconds = 2  MaxAttempts = 1
  BaseBackoff = 0  MaxBackoff = 0  RetentionSeconds = 0  CleanupRetrySeconds = 1
  Horizon = 1  Timely = TRUE  MaxStall = 0  MaxCommands = 1  MaxCrashes = 0
INVARIANTS
  NoConcurrentSends
PROPERTIES
  ImplementsOutbox
