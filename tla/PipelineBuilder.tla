--------------------------- MODULE PipelineBuilder ---------------------------
(***************************************************************************)
(* CameraPipeline::buildPipeline after the input was created: the planned  *)
(* graph is realized by PipelineBuilder::realize, which selects encoder    *)
(* backends and the memory of hardware scalers, creates an element for     *)
(* each node and a tee where the tree branches, and links the nodes and    *)
(* then the outputs, with a queue on each link and a valve on each branch. *)
(* A failure on the way rolls the build back; a later one starts afresh.   *)
(*                                                                         *)
(* Nodes are realized and linked parents first, here in the order of their *)
(* creation: the order of siblings is left to an unordered_map.            *)
(***************************************************************************)
EXTENDS PipelineGraph, CodecSelection

CONSTANT
  Machines  \* what may be installed and created when a build gets that far

ASSUME MachineAssumption == \A m \in Machines : m.creatable \subseteq m.installed

VARIABLES
  machine,      \* the element factories GStreamer finds, and can use, in a build
  scaleMemory,  \* scale_target_memory_: none for software scaling
  elements,     \* realized_elements_: the nodes that have an element
  tees,         \* output_tees_: the nodes whose element is followed by a tee
  valves,       \* branch_valves: the outputs behind each valve, in order
  queues        \* for each linked node, the kind of queue before it

builderVars == <<machine, scaleMemory, elements, tees, valves, queues>>
vars == <<graphVars, builderVars>>

NoMachine == [installed |-> {}, creatable |-> {}]

Nodes == DOMAIN nodes

-----------------------------------------------------------------------------
(* Walks over the tree.                                                    *)

Below(n) == {m \in Nodes : n \in ToSet(PathTo[m]) /\ m # n}

InterCodedEncoder(n) ==
  nodes[n].type = "Encoder" /\ nodes[n].config.codec \in InterCoded

(* collectDownstreamOutputs *)
DownstreamOutputs(n) ==
  {nodes[m].config : m \in (Below(n) \cup {n}) \cap Sinks}

(* collectDownstreamEncoders stops at encoders and skips image encoders.   *)
DownstreamEncoders(n) == {m \in Below(n) : InterCodedEncoder(m)}

HasRawSink(n) ==
  \E s \in Below(n) \cap Sinks :
    \A m \in ToSet(PathTo[s]) : m > n => nodes[m].type # "Encoder"

-----------------------------------------------------------------------------

BuilderInit ==
  /\ GraphInit
  /\ machine = NoMachine
  /\ scaleMemory = <<>> /\ elements = {} /\ tees = {}
  /\ valves = <<>> /\ queues = <<>>

Plan == GraphNext /\ UNCHANGED builderVars

-----------------------------------------------------------------------------
(* Backends and memory.                                                    *)

(* preselectEncoderBackends: what the registry promises for an encoder.    *)
Preselected(e, m) ==
  LET desc == Encoders[nodes[e].config.codec] IN
    codecSelect(desc, codecFromString(desc, nodes[e].config.encoder), {},
                m.installed)

(* createEncoderElement: the backend that is created in the end.           *)
Created(e, m) ==
  codecCreate(Encoders[nodes[e].config.codec], nodes[e].config.encoder, m)

(* The memory every encoder behind scale n accepts.                        *)
CommonMemory(n, m) ==
  {mem \in ToSet(Memories) :
     \A e \in DownstreamEncoders(n) :
       mem \in encoderInputMemoryFlags(Preselected(e, m))}

(* Plausible slip: consumers without an encoder are not looked for.        *)
HardwareIfEncoders(n, m) == DownstreamEncoders(n) # {} /\ CommonMemory(n, m) # {}

(* determineHwScaling: which scales are done in hardware memory.           *)
ScalesInHardware(n, m) ==
  ~HasRawSink(n) /\ DownstreamEncoders(n) # {} /\ CommonMemory(n, m) # {}

(* preselectEncoderBackends, determineHwScaling                            *)
SelectBackends ==
  /\ phase = "planned"
  /\ machine' \in Machines
  /\ scaleMemory' =
       [n \in {m \in Nodes : nodes[m].type = "Scale" /\ ScalesInHardware(m, machine')}
          |-> CommonMemory(n, machine')]
  /\ phase' = "realize"
  /\ UNCHANGED <<input, outputs, chains, nodes, parent, merged,
                 elements, tees, valves, queues>>

(* Elements are named after their node, but for the bin that               *)
(* createNvv4l2EncoderBin makes: it is called "encoder".                   *)
ElementName(n) ==
  IF InterCodedEncoder(n) /\ Created(n, machine) = "NVV4L2"
  THEN <<"encoder">> ELSE <<nodes[n].type, n>>

(* createElementForNode, gst_bin_add. The decoder is the one the code finds *)
(* by itself (AUTO); one named in the configuration is not modelled.       *)
CanRealize(n) ==
  /\ nodes[n].type = "Decoder" =>
       codecSelect(Decoders[nodes[n].config], {}, {}, machine.creatable) # None
  /\ nodes[n].type = "Encoder" => Created(n, machine) # None
  /\ \A m \in elements : ElementName(m) # ElementName(n)

NextToRealize(n) ==
  /\ phase = "realize"
  /\ n \notin elements /\ nodes[n].type # "Sink"
  /\ \A m \in 1 .. n - 1 : m \in elements \cup Sinks

(* The input element is there; the element of another node is created, and *)
(* a tee if the node has several children. Sinks come with their outputs.  *)
RealizeNode(n) ==
  /\ NextToRealize(n)
  /\ CanRealize(n)
  /\ elements' = elements \cup {n}
  /\ tees' = IF Cardinality(ChildrenOf(n)) > 1 THEN tees \cup {n} ELSE tees
  /\ UNCHANGED <<graphVars, machine, scaleMemory, valves, queues>>

AllRealized ==
  /\ phase = "realize"
  /\ Nodes \ Sinks \subseteq elements
  /\ phase' = "link"
  /\ UNCHANGED <<input, outputs, chains, nodes, parent, merged, builderVars>>

(* linkWithQueue: the kind of queue depends on the parent's type.          *)
QueueAfter(n) == IF InterCodedEncoder(n) THEN "time" ELSE "oneBuffer"

Queued(n) ==
  [m \in DOMAIN queues \cup {n} |->
     IF m = n THEN QueueAfter(nodes[n].input) ELSE queues[m]]

(* Plausible slip: only the branches of processing nodes get a valve.      *)
LinkSinkWithoutValve(n) ==
  /\ queues' = Queued(n)
  /\ valves' = IF nodes[n].input \in tees \ {nodes[m].input : m \in {n} \cap Sinks}
               THEN Append(valves, DownstreamOutputs(n)) ELSE valves

(* linkWithQueue, behind a valve on the branch of a tee. The code goes on   *)
(* without a valve that cannot be created; it is of the same GStreamer     *)
(* plugin as the tees and queues without which a build fails, so that the  *)
(* machines here have it.                                                  *)
Link(n) ==
  /\ queues' = Queued(n)
  /\ valves' = IF nodes[n].input \in tees
               THEN Append(valves, DownstreamOutputs(n)) ELSE valves

LinkNode(n) ==
  /\ phase = "link"
  /\ n \notin DOMAIN queues /\ nodes[n].type \notin {"Source", "Sink"}
  /\ \A m \in 2 .. n - 1 : m \in DOMAIN queues \cup Sinks
  /\ Link(n)
  /\ UNCHANGED <<graphVars, machine, scaleMemory, elements, tees>>

(* realizeOutputs, for the output of one sink.                             *)
RealizeOutput(s) ==
  /\ phase = "link"
  /\ s \in Sinks \ elements
  /\ \A m \in 2 .. s - 1 : m \in DOMAIN queues
  /\ elements' = elements \cup {s}
  /\ Link(s)
  /\ UNCHANGED <<graphVars, machine, scaleMemory, tees>>

Built ==
  /\ phase = "link"
  /\ elements = Nodes
  /\ phase' = "built"
  /\ UNCHANGED <<input, outputs, chains, nodes, parent, merged, builderVars>>

(* An element, a tee, an output or a link cannot be made: the exception    *)
(* reaches buildPipeline, whose guard calls resetBuildState. A later       *)
(* rebuild creates the input and the plan anew.                            *)
Fail ==
  /\ phase \in {"realize", "link"}
  /\ phase' = "compute"
  /\ chains' = [i \in Indices |-> <<>>]
  /\ nodes' = <<[type |-> "Source", config |-> input, input |-> 0]>>
  /\ parent' = [i \in Indices |-> 1]
  /\ merged' = [i \in Indices |-> 0]
  /\ machine' = NoMachine
  /\ scaleMemory' = <<>> /\ elements' = {} /\ tees' = {}
  /\ valves' = <<>> /\ queues' = <<>>
  /\ UNCHANGED <<input, outputs>>

Next ==
  \/ Plan
  \/ SelectBackends
  \/ \E n \in Nodes : RealizeNode(n) \/ LinkNode(n) \/ RealizeOutput(n)
  \/ AllRealized
  \/ Built
  \/ Fail

Spec == BuilderInit /\ [][Next]_vars

-----------------------------------------------------------------------------
(* Properties.                                                             *)

NodeTypes ==
  {"Source", "Decoder", "FramerateLimit", "Scale", "Encoder", "Sink"}

TypeOK ==
  /\ input \in InputFormats
  /\ outputs \in OutputLists
  /\ phase \in {"compute", "optimize", "merge", "planned", "realize", "link",
                "built"}
  /\ \A n \in Nodes : nodes[n].type \in NodeTypes /\ nodes[n].input \in 0 .. n - 1
  /\ parent \in [Indices -> Nodes]
  /\ \A i \in Indices : merged[i] \in 0 .. Len(chains[i])
  /\ elements \subseteq Nodes
  /\ tees \subseteq Nodes \ Sinks
  /\ machine \in Machines \cup {NoMachine}
  /\ DOMAIN scaleMemory \subseteq Nodes
  /\ DOMAIN queues \subseteq Nodes \ {1}
  /\ \A v \in DOMAIN valves : valves[v] \subseteq Indices

(* A built pipeline has what its plan asks for, one valve on each branch,  *)
(* and flow control can pause each of its outputs alone, whatever it       *)
(* shares with the others: of two outputs, each is behind a valve the      *)
(* other is not behind.                                                    *)
OutputsCanPauseAlone ==
  phase = "built" =>
    /\ elements = Nodes /\ DOMAIN queues = Nodes \ {1}
    /\ Len(valves) = Cardinality({n \in Nodes : nodes[n].input \in tees})
    /\ \A i, j \in Indices :
         i # j => \E v \in DOMAIN valves : i \in valves[v] /\ j \notin valves[v]

(* A scaler leaves its frames in hardware memory only if all that read     *)
(* them can: image encoders, of which determineHwScaling takes no notice,  *)
(* and encoders whose backend accepts that memory, unless its creation     *)
(* failed and another backend had to take its place. No output gets them.  *)
RawFramesStayInSystemMemory ==
  phase \in {"realize", "link", "built"} =>
    \A n \in DOMAIN scaleMemory :
      LET produced == ScalesTo(scaleMemory[n], machine) IN
        produced # "SYSTEM" =>
          \A s \in Sinks :
            n \in ToSet(PathTo[s]) =>
              \E e \in ToSet(PathTo[s]) :
                /\ e > n /\ nodes[e].type = "Encoder"
                /\ InterCodedEncoder(e) /\ Created(e, machine) = Preselected(e, machine)
                     => produced \in encoderInputMemoryFlags(Created(e, machine))

(* Creating an encoder falls back on failure: as long as some backend of   *)
(* its codec can be created, so can the encoder, wherever it is preferred. *)
(* With NVV4L2 that fails: its creation throws instead of giving way, and  *)
(* a pipeline has room for one bin named "encoder".                        *)
EncodersFallBack ==
  \A n \in Nodes :
    LET backends == Encoders[nodes[n].config.codec].backends IN
      /\ NextToRealize(n) /\ nodes[n].type = "Encoder"
      /\ \E i \in DOMAIN backends : backends[i].factory \in machine.creatable
      /\ machine.installed \cap ThrowsOnFailure = {}
      => CanRealize(n)

=============================================================================
