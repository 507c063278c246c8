\* Two cameras, time scaled down, the GStreamer thread may lag.
CONSTANTS
  NumPipelines = 2
  Outputs = {o1}
  WebrtcPipelines = {1, 2}
  CheckPeriod = 1
  GiveMoreTime = 1
  Timeout = 1
  StuckTicks = 2
  StartupTime = 3
  MaxUptime = 2
  MaxRequests = 3
  GstKeepsUp = FALSE
SPECIFICATION Spec
INVARIANTS
  RebuildFindsFreshPipeline
  EndpointsMatchPipelines
  RequestsFindBuiltPipeline
CHECK_DEADLOCK TRUE
