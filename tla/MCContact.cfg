CONSTANTS
  w1 = w1
  w2 = w2
  e1 = e1
  NoRegion = NoRegion
  Workers <- MCWorkers
  Executions <- MCExecutions
  Remote = {}
  MaxConcurrency <- MCMaxConcurrency
  ReportedStatuses = {"idle"}
  HeartbeatTtl = 0
  MaxSilence = 1
  LeaseIds = {1, 2, 3}
  MinTtl = 1
  MaxTtl = 1
  RequestedTtls = {1}
  Skew = 0
  Horizon = 2
  Features = {}
  Provides <- MCProvides
  Regions = {}
  RegionOf <- MCRegionOf
  TicketIds = {1, 2, 3}
  Processes = {1}
  Requires <- MCRequires
  LeaseTtl = 1
  SafetyMargin = 0
  MaxDelay = 1
  Outcomes = {"succeeded"}
  PoisonPill = FALSE
  Urgent = {}
SPECIFICATION ContactSpec
PROPERTY OnlyHeardWorkersSelected
