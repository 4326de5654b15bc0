CONSTANTS
  o1 = o1
  o2 = o2
  k1 = k1
  Nobody = Nobody
  Owners <- MCOwners
  Keys <- MCKeys
  Ttls = {1, 3}
  StealTtl = 2
  ExpirySkew = 1
  MaxCounter = 4
  c1 = c1
  c2 = c2
  c3 = c3
  Callers <- MCThreeCallers
  Amounts = {1, 2, 3}
  HardCap = 5
  TierLimits = {5}
  MaxReservations = 5
  Nodes = {1, 2}
  LeaderTtl = 1
  GracePeriod = 1
  MaxEpoch = 2
  MaxElectionAttempts = 1
  Requests = {1, 2, 3}
  IdempotencyKeys = {"a", "b"}
  Methods = {"POST", "PUT"}
  MaxEntries = 1
  Partitions = {"p", "q"}
  Consumers = {1, 2}
  GivenSequences = {0, 1}
  MaxPartitionConcurrency = 1
  MaxPublished = 2
  MaxSessions = 3
  MaxTakeovers = 2
  MaxRetried = 1
CHECK_DEADLOCK FALSE
SPECIFICATION SharedSpec
INVARIANT SharedInv
INVARIANT HardCapHolds
INVARIANT OneLeaderOneLease
INVARIANT OneWriter
INVARIANT OneExecutionPerKey
INVARIANT SlotsAreCounted
INVARIANT ReadyWaitsForASlot
INVARIANT VerdictStands
PROPERTY ImplementsFencedLock
PROPERTY LeadershipIsFenced
