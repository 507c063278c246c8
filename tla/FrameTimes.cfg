\* A ring of three slots that the lost frames can fill: one in the encoder, two
\* lost, four that arrive, the first of them at time 0; restarts up to three
\* base times, so that the pipeline can play, stop and start again.
CONSTANTS
  Size = 3
  Values = {0, 1, 2, 3, 4}
  EncoderDepth = 1
  MaxLost = 2
  MaxFrames = 4
  MaxUntimed = 1
  MaxSessions = 3
  MaxBus = 2
  OutputSize = 2
  PacketsPerFrame = 2
SPECIFICATION FramesSpec
INVARIANTS
  TimesLagOnlyByLosses
  ProcessingTimeIsOfLastFrame
  CorrectionsFindTheirFrame
  FreshSessionsUseOwnBase
PROPERTY QueuesUntilCrossed
CHECK_DEADLOCK FALSE
