CONSTANTS
  NumPipelines = 2
  MaxRequests = 2
SPECIFICATION FairSpec
INVARIANTS
  NoDispatchAfterSignalingStop
PROPERTIES
  TimersFindServerReady
  RunningServerShutsDown
CHECK_DEADLOCK FALSE
