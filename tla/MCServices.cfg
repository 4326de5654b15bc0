CONSTANTS
  MaxSessions = 3
  MaxCreated = 3
  BatchSize = 3
  ChunkSize = 2
  MaxRetries = 2
  Refused = {1}
  MaxInterruptions = 1
  MaxEvents = 2
  MaxDeliveryRetries = 2
  MaxSubscribes = 2
  MaxCommands = 1
  MaxJobs = 2
  Adapters = {1, 2}
  Urgent = {2}
  MaxAttempts = 2
  MaxJobRetries = 1
  MaxApprovals = 3
  Approvers = {1, 2}
  SessionOf <- MCSessionOf
  Quorum <- MCQuorum
  Policy <- MCPolicy
  Undeliverable = {1}
  Calls = {1, 2, 3}
  FailureThreshold = 2
  SuccessThreshold = 2
  MinSampleSize = 3
  MaxWindow = 3
  MaxSeen = 4
  PlaneCalls = {1, 2, 3}
  Limits = {1, 2}
  QueueSizes = {1, 2}
CHECK_DEADLOCK FALSE
SPECIFICATION ServicesSpec
INVARIANT ServicesInv
INVARIANT DoneTogether
INVARIANT SentOncePerInterruption
INVARIANT AttemptsAreBounded
INVARIANT PlacesAreUsed
PROPERTY ResultFromOwner
PROPERTY ResolvedOnce
PROPERTY StalledRunsAreRequeued
PROPERTY MismatchesAreReconciled
PROPERTY CommittedEntriesSettle
PROPERTY PendingSettlesOrParks
PROPERTY JobsEnd
PROPERTY OverdueIsResolved
PROPERTY BreakerRecovers
PROPERTY CallersAreAnswered
