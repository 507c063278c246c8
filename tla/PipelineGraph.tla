---------------------------- MODULE PipelineGraph ----------------------------
(***************************************************************************)
(* The planning of a pipeline, PipelineGraph::build: a chain of processing *)
(* elements is computed for each output by itself, the framerate limits of *)
(* chains with the same scale are rearranged so that they can share it,    *)
(* and the chains are merged, level by level, into a tree whose root is    *)
(* the input and whose leaves are the outputs' sinks.                      *)
(*                                                                         *)
(* Framerates are natural numbers in a unit in which all configured ones   *)
(* are whole (0: none, an invalid Framerate); of an encoder's settings     *)
(* only the codec, what decides the backend, the size and the framerate    *)
(* are told apart.                                                         *)
(***************************************************************************)
EXTENDS Integers, Sequences, FiniteSets, SequencesExt, FiniteSetsExt

CONSTANTS
  InputFormats,  \* the formats an input may produce
  OutputLists,   \* the sequences of output configurations to plan for
  FullSize       \* the size of an output without width and height

Formats    == {"RAW", "JPEG", "PNG", "H264", "H265"}
Compressed == Formats \ {"RAW"}
InterCoded == {"H264", "H265"}  \* a frame may depend on the ones before it

ASSUME PlanAssumption ==
  /\ InputFormats \subseteq Formats
  /\ \A list \in OutputLists :
       /\ Len(list) \in Nat /\ DOMAIN list = 1 .. Len(list)
       /\ \A i \in DOMAIN list :
            /\ list[i].formats \subseteq Formats /\ list[i].formats # {}
            /\ list[i].framerate \in Nat

VARIABLES
  input,    \* format of the input
  outputs,  \* configurations of the outputs
  phase,    \* what the build does next
  chains,   \* for each output, the elements between source and sink
  nodes,    \* the tree: a node's input is its parent's index, 0 for the source
  parent,   \* current_parents: for each output, the node its chain has reached
  merged    \* for each output, how many elements of its chain are merged

graphVars == <<input, outputs, phase, chains, nodes, parent, merged>>

Indices == DOMAIN outputs

-----------------------------------------------------------------------------
(* Chains.                                                                 *)

FramerateLimit(rate) == [type |-> "FramerateLimit", config |-> rate]
Decoder(format)      == [type |-> "Decoder", config |-> format]
Scale(size)          == [type |-> "Scale", config |-> size]
Encoder(key)         == [type |-> "Encoder", config |-> key]

If(condition, element) == IF condition THEN <<element>> ELSE <<>>

(* The most wanted compressed format an output supports, or "none".        *)
TargetCompressed(c) ==
  IF "H265" \in c.formats THEN "H265"
  ELSE IF "H264" \in c.formats THEN "H264"
  ELSE IF "JPEG" \in c.formats THEN "JPEG"
  ELSE IF "PNG" \in c.formats THEN "PNG" ELSE "none"

EncoderKey(c) ==
  [codec |-> TargetCompressed(c), encoder |-> c.encoder, size |-> c.size,
   framerate |-> c.framerate]

NeedsScale(c)     == c.size # FullSize
NeedsFramerate(c) == c.framerate # 0

NeedsDecode(c) ==
  /\ input \in Compressed
  /\ \/ NeedsScale(c)
     \/ TargetCompressed(c) \notin {"none", input}
     \/ input \notin c.formats

NeedsEncode(c) ==
  TargetCompressed(c) # "none" /\ (input = "RAW" \/ NeedsDecode(c))

(* computeChain: passthrough, or limit, decode, scale, encode as needed.   *)
Chain(c) ==
  IF ~NeedsScale(c) /\ ~NeedsFramerate(c) /\ input \in c.formats
  THEN <<>>
  ELSE If(NeedsFramerate(c), FramerateLimit(c.framerate))
         \o If(NeedsDecode(c), Decoder(input))
         \o If(NeedsScale(c), Scale(c.size))
         \o If(NeedsEncode(c), Encoder(EncoderKey(c)))

-----------------------------------------------------------------------------
(* optimizeFramerateScaleGroups.                                           *)

ScaleIndex(chain) == SelectInSeq(chain, LAMBDA e : e.type = "Scale")

(* A computed chain begins with its framerate limit, if it has one.        *)
Limited(chain) == chain # <<>> /\ Head(chain).type = "FramerateLimit"

(* The chains with the same scale as chain i, if it has one.               *)
ScaleGroup(i) ==
  {j \in Indices :
     /\ ScaleIndex(chains[i]) > 0 /\ ScaleIndex(chains[j]) > 0
     /\ chains[i][ScaleIndex(chains[i])] = chains[j][ScaleIndex(chains[j])]}

(* The limit moves from the front of the chain to behind the scale.        *)
LimitAfterScale(chain) ==
  InsertAt(Tail(chain), ScaleIndex(chain), Head(chain))

IsMultiple(f1, f2) == f1 % f2 = 0

(* Greedy grouping of a set of rates, highest first: a rate joins the      *)
(* first sub-group whose leader is a multiple of it, or leads a new one.   *)
Leader(rates, rate) ==
  LET leads[r \in rates] ==
        ~ \E l \in rates : l > r /\ leads[l] /\ IsMultiple(l, r)
  IN  Max({l \in rates : leads[l] /\ IsMultiple(l, rate)})

(* Plausible slip: the sub-group's limit replaces the output's own.        *)
LedByOnly(leader, chain) == ReplaceAt(chain, 1, FramerateLimit(leader))

(* The leader's limit before the scale, the chain's own, if lower, after.  *)
LedBy(leader, chain) ==
  LET led == ReplaceAt(chain, 1, FramerateLimit(leader))
  IN  IF Head(chain).config < leader
      THEN InsertAt(led, ScaleIndex(led) + 1, Head(chain))
      ELSE led

(* Plausible slip: limits stay before the scale unless all chains of the   *)
(* group have one.                                                         *)
OptimizeLimitedOnly(i) ==
  LET group == ScaleGroup(i)
      rates == {Head(chains[j]).config : j \in group}
  IN  IF Cardinality(group) <= 1 \/ \E j \in group : ~Limited(chains[j])
      THEN chains[i]
      ELSE LedBy(Leader(rates, Head(chains[i]).config), chains[i])

Optimized(i) ==
  LET group == ScaleGroup(i)
      rates == {Head(chains[j]).config : j \in group}
  IN  IF Cardinality(group) <= 1 THEN chains[i]
      ELSE IF \E j \in group : ~Limited(chains[j])
      THEN IF Limited(chains[i]) THEN LimitAfterScale(chains[i]) ELSE chains[i]
      ELSE LedBy(Leader(rates, Head(chains[i]).config), chains[i])

-----------------------------------------------------------------------------
(* The tree.                                                               *)

(* Framerate's == multiplies crosswise, so that 0/0 equals every rate.     *)
SameRate(r, s) == r = s \/ r = 0 \/ s = 0

(* operator== of the configurations of two elements of the same type.      *)
SameConfig(e, f) ==
  IF e.type = "Encoder"
  THEN /\ SameRate(e.config.framerate, f.config.framerate)
       /\ [e.config EXCEPT !.framerate = 0] = [f.config EXCEPT !.framerate = 0]
  ELSE e.config = f.config

Node(element, from) ==
  [type |-> element.type, config |-> element.config, input |-> from]

ChildrenOf(n) == {m \in DOMAIN nodes : nodes[m].input = n}

(* The children of the parent that findOrCreateNode may reuse.             *)
Matches(from, element) ==
  {m \in ChildrenOf(from) :
     nodes[m].type = element.type /\ SameConfig(nodes[m], element)}

Sinks == {m \in DOMAIN nodes : nodes[m].type = "Sink"}

SinkOf(i) == CHOOSE m \in Sinks : nodes[m].config = i

-----------------------------------------------------------------------------
(* PipelineGraph::build                                                    *)

GraphInit ==
  /\ input \in InputFormats
  /\ outputs \in OutputLists
  /\ phase = "compute"
  /\ chains = [i \in DOMAIN outputs |-> <<>>]
  /\ nodes = <<[type |-> "Source", config |-> input, input |-> 0]>>
  /\ parent = [i \in DOMAIN outputs |-> 1]
  /\ merged = [i \in DOMAIN outputs |-> 0]

ComputeChains ==
  /\ phase = "compute"
  /\ chains' = [i \in Indices |-> Chain(outputs[i])]
  /\ phase' = "optimize"
  /\ UNCHANGED <<input, outputs, nodes, parent, merged>>

OptimizeFramerateScaleGroups ==
  /\ phase = "optimize"
  /\ chains' = [i \in Indices |-> Optimized(i)]
  /\ phase' = "merge"
  /\ UNCHANGED <<input, outputs, nodes, parent, merged>>

(* The chain whose next element is merged: the levels are done in order,   *)
(* and in a level the chains.                                              *)
NextToMerge(i) ==
  /\ merged[i] < Len(chains[i])
  /\ \A j \in Indices :
       merged[j] < Len(chains[j]) =>
         merged[i] < merged[j] \/ (merged[i] = merged[j] /\ i <= j)

MergeElement(i) ==
  /\ phase = "merge"
  /\ NextToMerge(i)
  /\ LET element == chains[i][merged[i] + 1]
         matches == Matches(parent[i], element)
     IN  IF matches # {}
         THEN /\ parent' = [parent EXCEPT ![i] = Min(matches)]
              /\ UNCHANGED nodes
         ELSE /\ nodes' = Append(nodes, Node(element, parent[i]))
              /\ parent' = [parent EXCEPT ![i] = Len(nodes) + 1]
  /\ merged' = [merged EXCEPT ![i] = @ + 1]
  /\ UNCHANGED <<input, outputs, phase, chains>>

(* All sinks are attached at once, in the order of the outputs.            *)
AttachSinks ==
  /\ phase = "merge"
  /\ \A i \in Indices : merged[i] = Len(chains[i])
  /\ nodes' = nodes \o
       [i \in Indices |-> Node([type |-> "Sink", config |-> i], parent[i])]
  /\ phase' = "planned"
  /\ UNCHANGED <<input, outputs, chains, parent, merged>>

GraphNext ==
  \/ ComputeChains
  \/ OptimizeFramerateScaleGroups
  \/ \E i \in Indices : MergeElement(i)
  \/ AttachSinks

(* resolveOutputFormat: the format of the next node upstream that sets it. *)
Resolved[n \in DOMAIN nodes] ==
  IF nodes[n].type = "Encoder" THEN nodes[n].config.codec
  ELSE IF nodes[n].type \in {"Decoder", "Scale"} THEN "RAW"
  ELSE IF nodes[n].type = "Source" THEN input
  ELSE Resolved[nodes[n].input]

-----------------------------------------------------------------------------
(* What a stream has become on its way through the tree.                   *)

PathTo[n \in DOMAIN nodes] ==
  IF nodes[n].input = 0 THEN <<n>> ELSE Append(PathTo[nodes[n].input], n)

(* Frames are dropped, but only of formats the caps filter lists.          *)
Limit(stream, rate) ==
  [stream EXCEPT !.limits = @ \cup {rate},
                 !.sound = @ /\ stream.format \in {"RAW", "JPEG", "PNG"}]

Decode(stream, format) ==
  [stream EXCEPT !.format = "RAW", !.sound = @ /\ stream.format = format]

Resize(stream, size) ==
  [stream EXCEPT !.size = size, !.sound = @ /\ stream.format = "RAW"]

Encode(stream, key) ==
  [stream EXCEPT !.format = key.codec, !.encoder = key.encoder,
                 !.sound = @ /\ stream.format = "RAW"]

(* What the element created for node n makes of a stream.                  *)
Through(stream, n) ==
  LET node == nodes[n] IN
  CASE node.type = "FramerateLimit" -> Limit(stream, node.config)
    [] node.type = "Decoder"        -> Decode(stream, node.config)
    [] node.type = "Scale"          -> Resize(stream, node.config)
    [] node.type = "Encoder"        -> Encode(stream, node.config)
    [] OTHER -> stream

(* What the input delivers.                                                *)
Captured ==
  [format |-> input, limits |-> {}, size |-> FullSize, encoder |-> {"none"},
   sound |-> TRUE]

(* The stream that leaves node n.                                          *)
StreamAt[n \in DOMAIN nodes] ==
  Through(IF nodes[n].input = 0 THEN Captured ELSE StreamAt[nodes[n].input], n)

-----------------------------------------------------------------------------
(* Properties.                                                             *)

Planned == phase \notin {"compute", "optimize", "merge"}

(* However the chains are rearranged and merged, each sink receives what   *)
(* its output is configured for: a format it supports, which is the one    *)
(* resolveOutputFormat reports, its size, its encoder if it is encoded for *)
(* it, and its framerate, thinned out only by whole multiples of it; and   *)
(* each element on the way gets a format it can process. An inter-coded    *)
(* input is the exception: a framerate limit cannot process it.            *)
OutputsGetWhatTheyAskFor ==
  Planned =>
    \A i \in Indices :
      LET c == outputs[i]
          stream == StreamAt[SinkOf(i)]
      IN  /\ stream.sound \/ (input \in InterCoded /\ c.framerate # 0)
          /\ stream.format \in c.formats
          /\ stream.format = Resolved[SinkOf(i)]
          /\ stream.size = c.size
          /\ stream.encoder \in {{"none"}, c.encoder}
          /\ IF c.framerate = 0
             THEN stream.limits = {}
             ELSE /\ c.framerate \in stream.limits
                  /\ \A l \in stream.limits : IsMultiple(l, c.framerate)

ScaleNodes(size) ==
  {n \in DOMAIN nodes : nodes[n].type = "Scale" /\ nodes[n].config = size}

(* Outputs with compatible framerates share a scale: there is one for each *)
(* size if some output of that size has no limit, and else no more than    *)
(* there are rates no higher rate of that size is a multiple of.           *)
CompatibleOutputsShareScale ==
  Planned =>
    \A size \in {outputs[i].size : i \in Indices} \ {FullSize} :
      LET rates == {outputs[i].framerate :
                      i \in {j \in Indices : outputs[j].size = size}}
      IN  Cardinality(ScaleNodes(size)) =
            IF 0 \in rates THEN 1
            ELSE Cardinality({r \in rates :
                   ~ \E s \in rates : s > r /\ IsMultiple(s, r)})

=============================================================================
