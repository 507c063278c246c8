\* The desired hardware decoders come first, one of them cannot be created and
\* only the last software decoder works; a scaled threshold.
CONSTANTS
  Codec = "H264"
  Preference = {"VA", "NVIDIA", "UNKNOWN"}
  Installed = {"vah264lpdec", "vah264dec", "nvh264dec", "avdec_h264"}
  Creatable = {"vah264lpdec", "nvh264dec", "avdec_h264"}
  Working = {"AV"}
  CheckThreshold = 3
SPECIFICATION FairSpec
PROPERTIES
  OneSwapAtATime
  DecodesOrGivesUp
  SwapsAreDeserved
CHECK_DEADLOCK TRUE
