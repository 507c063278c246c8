CONSTANTS
  NumPipelines = 2
  MaxRequests = 1
SPECIFICATION FairSpec
PROPERTY ShutdownTerminates
CHECK_DEADLOCK FALSE
