\* Up to two outputs of any kind, three of one size; every kind of input.
CONSTANTS
  InputFormats = {"RAW", "JPEG", "PNG", "H264"}
  OutputLists <- MCOutputLists
  FullSize = "full"
  Machines <- MCMachines
SPECIFICATION Spec
INVARIANTS
  OutputsGetWhatTheyAskFor
  CompatibleOutputsShareScale
  OutputsCanPauseAlone
  RawFramesStayInSystemMemory
  EncodersFallBack
CHECK_DEADLOCK FALSE
