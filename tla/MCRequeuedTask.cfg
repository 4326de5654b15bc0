SPECIFICATION FairSpec
CONSTANT MaxSessions = 2
PROPERTY RequeuedTaskEnds
CHECK_DEADLOCK FALSE
