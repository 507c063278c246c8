\* One camera with the code's own time constants, a GStreamer thread that keeps
\* up, and a usable device that gets to PLAYING within the restart timeout.
CONSTANTS
  NumPipelines = 1
  Outputs = {o1, o2}
  WebrtcPipelines = {1}
  CheckPeriod = 3
  GiveMoreTime = 3
  Timeout = 10
  StuckTicks = 5
  StartupTime = 9
  MaxUptime = 11
  MaxRequests = 3
  GstKeepsUp = TRUE
SPECIFICATION FairSpec
INVARIANT OneRequestPerPipeline
PROPERTIES
  RestartsLeaveTimeToStart
  StartFailuresEscalate
  PipelinesRecover
CHECK_DEADLOCK TRUE
