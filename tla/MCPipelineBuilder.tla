-------------------------- MODULE MCPipelineBuilder --------------------------
(* Up to two outputs of any kind, or three that all scale to the same size. *)
EXTENDS PipelineBuilder

Config(formats, size, framerate, encoder) ==
  [formats |-> formats, size |-> size, framerate |-> framerate,
   encoder |-> encoder]

HW == {"HW"}
SW == {"SW"}

Raw   == {"RAW"}
Video == {"H264"}
Image == {"JPEG", "PNG"}
Auto  == {"RAW", "JPEG", "PNG"}

AnyConfigs ==
  {Config(f, s, r, HW) : f \in {Raw, Video, Auto},
                           s \in {"full", "small", "tiny"},
                           r \in {0, 20, 30}}
    \cup {Config(Video, s, r, SW) : s \in {"full", "small"}, r \in {0, 30}}

SmallConfigs ==
  {Config(f, "small", r, HW) : f \in {Raw, Video, Image}, r \in {0, 10, 20, 30}}

MCOutputLists ==
  BoundedSeq(AnyConfigs, 2) \cup [1 .. 3 -> SmallConfigs]

\* A computer with a VA-API driver, the same with a driver whose encoders cannot
\* be created, one with an NVIDIA card and a Jetson, each with software codecs.
Software == {"x264enc", "jpegenc", "pngenc", "avdec_h264", "jpegdec", "pngdec"}
Va       == {"vah264lpenc", "vah264enc", "vajpegenc"}

Machine(creatable, broken) ==
  [installed |-> creatable \cup broken, creatable |-> creatable]

MCMachines ==
  { Machine(Software \cup Va \cup {"vapostproc"}, {}),
    Machine(Software \cup {"vapostproc"}, Va),
    Machine(Software \cup {"nvh264enc", "cudascale", "cudaupload"}, {}),
    Machine(Software \cup {"nvv4l2h264enc", "nvvidconv"}, {}) }
=============================================================================
