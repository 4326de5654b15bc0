SPECIFICATION Spec
CONSTANT MaxSessions = 2
PROPERTY FinishedStaysFinished
CHECK_DEADLOCK FALSE
