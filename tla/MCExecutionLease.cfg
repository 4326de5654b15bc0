CONSTANTS
  w1 = w1
  w2 = w2
  e1 = e1
  north = north
  south = south
  NoRegion = NoRegion
  Workers <- MCWorkers
  Executions <- MCExecutions
  Remote <- MCRemote
  MaxConcurrency <- MCMaxConcurrency
  ReportedStatuses = {"idle"}
  HeartbeatTtl = 0
  MaxSilence = 1
  LeaseIds = {1, 2}
  MinTtl = 1
  MaxTtl = 1
  RequestedTtls = {1, 2}
  Skew = 1
  Horizon = 2
  Features = {"gpu"}
  Provides <- MCProvides
  Regions <- MCRegions
  RegionOf <- MCRegionOf
SPECIFICATION Spec
INVARIANT TypeOK
INVARIANT HolderHasTopToken
INVARIANT AuditExplainsLease
PROPERTY AcceptedWritesNeverRegress
PROPERTY ClosedLeasesAreFinal
PROPERTY ImplementsFencedOwnership
