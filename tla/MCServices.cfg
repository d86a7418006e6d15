SPECIFICATION MCSpec
CONSTANTS
  VoteCalls = {q1, q2}
  Voters = {v1, v2, v3}
  Escalations = {e1, e2}
  People = {p1, p2}
  Sockets = {w1, w2, w3}
  MaxSockets = 2
  Boxes = {s1}
  Commands = {k4, k5}
  Destroyers = {d1, d2}
  MaxAudit = 2
  MaxSandboxCrashes = 2
  Services <- AllServices
  MaxObservations = 4
  Topics = {1, 2}
  Compressors = {m1, m2}
  MinObservations = 2
  MaxBatch = 3
  MaxEntries = 4
  MinPatterns = 2
  Keys = {k1, k2, k3}
  Updates = {u1, u2}
  Capacity = 2
  MaxUses = 6
  MinSamples = 4
  Callers = {n1, n2}
  MaxFailures = 2
  MaxScans = 2
  MaxIterations = 2
  Letters = {"a", "b"}
  MaxName = 3
  c1 = c1
  c2 = c2
  Consumers = {c1, c2}
  Operators = {o1}
  BatchSize = 2
  MaxLen = 2
  MaxRetries <- MCMaxRetries
  MaxTracked = 1
  MaxMessages = 3
  MaxFaults = 1
  Depths = {0, 1, 2}
  MaxSourceLines = 4
  Roots = {"x", "y", "z"}
  MaxIndices = 2
  MaxStores = 5
  Embedders = {z1, z2}
  EmbedBatch = 2
  MaxChunks = 5
  Questions = {"x", "y"}
  MaxFetches = 3
  MaxToggles = 4
  MaxDrops = 2
INVARIANTS
  NothingVanishes
  EachMessageHasOneConsumer
  DeadLettersAreKept
  ApprovalsAreEarned
  ContainersAreAccountedFor
  ShutdownIsOrderly
  KnowledgeIsGrounded
  RecordsAreTrue
  GateIsTight
  IndexIsFaithful
  PageIsUpToDate
PROPERTIES
  ServicesProgress
  ServiceSteps
CHECK_DEADLOCK FALSE
