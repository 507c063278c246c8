\* The code's own constants; the slowest output whose frame rate is always
\* known (a frame every three seconds); two clients.
CONSTANTS
  Clients = {c1, c2}
  EstablishTimeout = 10
  FrameInterval = 3
  Window = 10
  MinTimestamps = 3
  Grace = 10
  CheckPeriod = 3
  StuckTicks = 5
SPECIFICATION StuckSpec
INVARIANT StarvingClientsAreNoticed
PROPERTIES
  SteadyOutputsAreKept
  SingleNegotiationIsNotCutOff
