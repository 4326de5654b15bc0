CONSTANTS
  MaxApprovals = 3
  Approvers = {1, 2, 3}
  SessionOf <- MCSessionOf
  Quorum <- MCQuorum
  Policy <- MCPolicy
  Undeliverable = {1}
SPECIFICATION ApprovalSpec
INVARIANT QuorumIsDistinct
