--------------------------- MODULE CodecSelection ---------------------------
(***************************************************************************)
(* The codec tables and the functions of codec_common.hpp that choose      *)
(* among them: which backends a preference string asks for, which of them  *)
(* is selected and created, what memory an encoder reads and which scaler  *)
(* produces it. Backends and memory features are bit flags in the code and *)
(* names here; a preference string is the set of its upper-case tokens.    *)
(***************************************************************************)
EXTENDS Integers, Sequences, FiniteSetsExt

None == "NONE"

-----------------------------------------------------------------------------
(* The tables: backends by priority, then the aliases.                     *)

Entry(name, factory) == [name |-> name, factory |-> factory]
Descriptor(backends, aliases) == [backends |-> backends, aliases |-> aliases]

Encoders == [
  H264 |-> Descriptor(
    << Entry("VA_LP", "vah264lpenc"), Entry("VA", "vah264enc"),
       Entry("NV", "nvh264enc"), Entry("NVV4L2", "nvv4l2h264enc"),
       Entry("MPP", "mpph264enc"), Entry("VAAPI", "vaapih264enc"),
       Entry("OPENH264", "openh264enc"), Entry("X264", "x264enc") >>,
    [SOFTWARE |-> {"OPENH264", "X264"}, SW |-> {"OPENH264", "X264"},
     HW |-> {"VA", "VA_LP", "VAAPI", "NV", "NVV4L2", "MPP"}]),
  H265 |-> Descriptor(
    << Entry("VA_LP", "vah265lpenc"), Entry("VA", "vah265enc"),
       Entry("NV", "nvh265enc"), Entry("NVV4L2", "nvv4l2h265enc"),
       Entry("MPP", "mpph265enc"), Entry("VAAPI", "vaapih265enc"),
       Entry("X265", "x265enc") >>,
    [SOFTWARE |-> {"X265"}, SW |-> {"X265"},
     HW |-> {"VA", "VA_LP", "VAAPI", "NV", "NVV4L2", "MPP"}]),
  JPEG |-> Descriptor(
    << Entry("VA", "vajpegenc"), Entry("NVJPEG", "nvjpegenc"),
       Entry("MPP", "mppjpegenc"), Entry("VAAPI", "vaapijpegenc"),
       Entry("SOFTWARE", "jpegenc") >>,
    [NVIDIA |-> {"NVJPEG"}, SW |-> {"SOFTWARE"}]),
  PNG |-> Descriptor(<< Entry("SOFTWARE", "pngenc") >>, [SW |-> {"SOFTWARE"}]) ]

Decoders == [
  H264 |-> Descriptor(
    << Entry("VA_LP", "vah264lpdec"), Entry("VA", "vah264dec"),
       Entry("NV", "nvh264dec"), Entry("NVV4L2", "nvv4l2decoder"),
       Entry("VAAPI", "vaapih264dec"), Entry("OPENH264", "openh264dec"),
       Entry("AV", "avdec_h264") >>,
    [SOFTWARE |-> {"OPENH264", "AV"}, SW |-> {"OPENH264", "AV"},
     NVIDIA |-> {"NV"}]),
  H265 |-> Descriptor(
    << Entry("VA_LP", "vah265lpdec"), Entry("VA", "vah265dec"),
       Entry("NV", "nvh265dec"), Entry("NVV4L2", "nvv4l2decoder"),
       Entry("VAAPI", "vaapih265dec"), Entry("X265", "x265dec"),
       Entry("AV", "avdec_h265") >>,
    [SW |-> {"X265", "AV"}, NVIDIA |-> {"NV", "NVV4L2"}]),
  JPEG |-> Descriptor(
    << Entry("VA", "vajpegdec"), Entry("NVJPEG", "nvjpegdec"),
       Entry("MPP", "mppjpegdec"), Entry("VAAPI", "vaapijpegdec"),
       Entry("SOFTWARE", "jpegdec") >>,
    [NVIDIA |-> {"NVJPEG"}, SW |-> {"SOFTWARE"}]),
  PNG |-> Descriptor(<< Entry("SOFTWARE", "pngdec") >>, [SW |-> {"SOFTWARE"}]) ]

Names(desc) == {desc.backends[i].name : i \in DOMAIN desc.backends}

-----------------------------------------------------------------------------
(* Selection.                                                              *)

(* codecFromString: aliases before names, unknown tokens ignored.          *)
codecFromString(desc, tokens) ==
  IF tokens = {} \/ "AUTO" \in tokens
  THEN Names(desc)
  ELSE UNION {desc.aliases[t] : t \in tokens \cap DOMAIN desc.aliases}
         \cup ((tokens \cap Names(desc)) \ DOMAIN desc.aliases)

(* codecSelect: the desired backend of the highest priority that is neither *)
(* excluded nor without a factory, or else any such backend, or none.      *)
codecSelect(desc, desired, excluded, factories) ==
  LET found  == {i \in DOMAIN desc.backends :
                   /\ desc.backends[i].factory \in factories
                   /\ desc.backends[i].name \notin excluded}
      wanted == {i \in found : desc.backends[i].name \in desired}
  IN  IF found = {} THEN None
      ELSE desc.backends[Min(IF wanted # {} THEN wanted ELSE found)].name

(* The loops around codecSelect take the first backend whose element can   *)
(* be created and exclude the ones that are tried in vain before it.       *)
TriedInVain(desc, desired, excluded, installed, creatable) ==
  LET vain == {i \in DOMAIN desc.backends :
                 /\ desc.backends[i].factory \in installed \ creatable
                 /\ codecSelect(desc, desired, excluded,
                                creatable \cup {desc.backends[i].factory})
                      = desc.backends[i].name}
  IN  {desc.backends[i].name : i \in vain}

-----------------------------------------------------------------------------
(* Creating encoders. A machine is the set of factories that are installed *)
(* and, of those, the set whose elements can be created.                   *)

(* createNvv4l2EncoderBin throws where the other backends return null. The *)
(* videoconvert and the parser of an encoder's bin are taken for granted:  *)
(* without them createEncoderBin throws as well, whatever the backend.     *)
ThrowsOnFailure == {"nvv4l2h264enc", "nvv4l2h265enc"}

CanCreate(machine, factory) ==
  /\ factory \in machine.creatable
  /\ factory \in ThrowsOnFailure => "nvvidconv" \in machine.creatable

(* Plausible slip: only the selected backend is tried.                     *)
codecCreateSelected(desc, tokens, machine) ==
  LET first == codecSelect(desc, codecFromString(desc, tokens), {},
                           machine.installed)
  IN  IF \E i \in DOMAIN desc.backends :
           /\ desc.backends[i].name = first
           /\ CanCreate(machine, desc.backends[i].factory)
      THEN first ELSE None

(* codecCreate: the backend that is created, or none if it throws.         *)
codecCreate(desc, tokens, machine) ==
  LET ends  == {f \in machine.installed : CanCreate(machine, f)}
                 \cup (machine.installed \cap ThrowsOnFailure)
      first == codecSelect(desc, codecFromString(desc, tokens), {}, ends)
  IN  IF \E i \in DOMAIN desc.backends :
           /\ desc.backends[i].name = first
           /\ CanCreate(machine, desc.backends[i].factory)
      THEN first ELSE None

-----------------------------------------------------------------------------
(* Memory features, by priority.                                           *)

Memories == << "VA", "VA_SURFACE", "DMA_BUF", "CUDA", "NVMM" >>

encoderInputMemoryFlags(backend) ==
  CASE backend \in {"VA", "VA_LP"} -> {"VA", "DMA_BUF"}
    [] backend = "VAAPI"           -> {"VA_SURFACE", "DMA_BUF"}
    [] backend = "NV"              -> {"CUDA"}
    [] backend = "NVV4L2"          -> {"NVMM"}
    [] OTHER                       -> {}

(* HW_SCALER_CANDIDATES, by priority.                                      *)
Scaler(factories, memory) == [factories |-> factories, memory |-> memory]

HwScalers ==
  << Scaler({"vapostproc"}, {"VA"}),
     Scaler({"vaapipostproc"}, {"VA_SURFACE"}),
     Scaler({"nvvideoconvert"}, {"CUDA", "NVMM"}),
     Scaler({"nvvidconv"}, {"CUDA", "NVMM"}),
     Scaler({"cudascale", "cudaupload"}, {"CUDA"}) >>

highestPriorityOverlap(a, b) ==
  Memories[Min({i \in DOMAIN Memories : Memories[i] \in a \cap b})]

(* createScaleElement: the memory in which a scale for the target memory   *)
(* leaves its frames, system memory if no hardware scaler can be created.  *)
ScalesTo(target, machine) ==
  LET usable == {i \in DOMAIN HwScalers :
                   /\ HwScalers[i].memory \cap target # {}
                   /\ HwScalers[i].factories \subseteq machine.creatable}
  IN  IF usable = {} THEN "SYSTEM"
      ELSE highestPriorityOverlap(HwScalers[Min(usable)].memory, target)

=============================================================================
