CONSTANTS
  w1 = w1
  w2 = w2
  e1 = e1
  e2 = e2
  p1 = p1
  p2 = p2
  NoRegion = NoRegion
  Workers <- MCOneWorker
  Executions <- MCTwoExecutions
  Remote = {}
  MaxConcurrency <- MCMaxConcurrency
  ReportedStatuses = {"idle"}
  HeartbeatTtl = 0
  MaxSilence = 0
  LeaseIds = {1, 2}
  MinTtl = 1
  MaxTtl = 1
  RequestedTtls = {1}
  Skew = 0
  Horizon = 1
  Features = {}
  Provides <- MCProvides
  Regions = {}
  RegionOf <- MCRegionOf
  TicketIds = {1, 2, 3}
  Processes <- MCProcesses
  Requires <- MCRequires
  Urgent <- MCUrgent
  LeaseTtl = 1
  SafetyMargin = 0
  MaxDelay = 0
  Outcomes = {"succeeded"}
  PoisonPill = FALSE
SYMMETRY MCSymmetry
VIEW MCView
SPECIFICATION ConcurrentSpec
INVARIANT DispatchInv
INVARIANT OneLiveTicketPerAttempt
INVARIANT BlockedHasTicket
