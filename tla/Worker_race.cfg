\* Two workers of one profile race for one event: leases, heartbeats, late
\* answers, crashes and an operator command.  Every delivery settles.
SPECIFICATION FairSpec
CONSTANTS
  e1 = e1  e2 = e2  c1 = c1  c2 = c2  p1 = p1  p2 = p2
  t1 = t1  t2 = t2  w1 = w1  w2 = w2  op = op
  None = None  Gone = Gone  Owner <- MCOwner
  Event = {e1}  Conversation = {c1}  Profile = {p1}  Topic = {t1}
  ConversationOf <- OneConversation  ProfileOf <- OneProfile
  HasMedia = {}  Tailed = {}  PolicyRejected = {}
  Worker = {w1, w2}  Operator = {op}
  WorkerProfile <- SameWorkers  OperatorProfile <- ProfileOne
  LeaseSeconds = 1  RuntimeLockSeconds = 2  MaxAttempts = 2
  BaseBackoff = 1  MaxBackoff = 1  RetentionSeconds = 1  CleanupRetrySeconds = 1
  Horizon = 2  Timely = FALSE  MaxStall = 1  MaxCommands = 1  MaxCrashes = 1
INVARIANTS
  TypeOK
  NoBlindResend
  KnownFailuresNeverLand
  SentIsProven
  LeaseIsTheInflightDelivery
PROPERTIES
  ImplementsOutbox
  DeliveriesSettle
