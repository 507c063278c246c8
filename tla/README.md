# Specifications of ros_camera_server

TLA+ models of the parts of ros_camera_server that are hard to test: the
supervisor that repairs pipelines from another thread than the one that runs
them, its start-up and shutdown, the valves that pause unused branches, the
sessions of WebRTC clients, the times that travel with a frame around an
encoder, a V4L2 camera whose controls are ROS parameters, the decoder that swaps
itself out, the choice of encoders, the log monitor, and the planner and builder
of a camera's pipeline. TLC checks each model on a
small instance; the theorems in the `*_proofs` modules hold for every value of
the constants.

Paths below are relative to `ros_camera_server/` in the repository.
`PROJECT.json` maps each definition to the lines it models, and lists the runs,
the mutants that show each property can fail, the hazards and the theorems.

## 1. The system

One process serves any number of cameras. For each, a *pipeline* of GStreamer
elements takes frames from an input (V4L2, RTP, a ROS topic, a thermal camera)
to several outputs (RTP, SRT, WebRTC, ROS topics), decoding, limiting the
framerate, scaling and encoding on the way, and sharing what outputs have in
common. Three kinds of threads meet:

| thread | runs | touches |
| --- | --- | --- |
| owner / ROS timers (one executor thread) | constructor, `checkAndRepair` (3 s), `updateFlowControl` (1 s), `processLogMessages` (0.5 s), `updateStatus` (10 s), destructor | reads pipeline states and statistics; decides; queues requests |
| GStreamer thread (one `GMainLoop`) | start-up, queued requests, bus messages, signaling server, dispatched actions, establish timeouts | builds, starts, stops and restarts pipelines; endpoints; sessions |
| streaming, ICE and webrtcbin threads | probes, decoder swaps, transport callbacks, log records | statistics, counters, the monitor's queue; everything else by dispatching to the GStreamer thread |

### Components

| component | state | operations | what makes it correct | modelled in |
| --- | --- | --- | --- | --- |
| supervisor, `src/camera_server.cpp` | `pipelines_`, `stuck_output_ticks_`, `signaling_server_`, `initialized_`, `g_main_loop_` | `checkAndRepair`, `restartPipeline`, `rebuildPipeline`, `initializeWebRTC`, constructor, destructor | a repair never works on a pipeline that is not built, never rebuilds one in operation, does not restart in a loop faster than a device starts, nor an output that is served; endpoints follow the built pipelines; a usable camera ends up streaming; shutdown ends | `CameraServer`, `ServerLifecycle`, `StuckOutput` |
| camera pipeline, `src/camera_pipeline.cpp` | `built_`, GStreamer state, `start_time_`, base time, segment | `buildPipeline`, `start`, `stop`, `restart`, `uptime`, buffer probe | a failed build leaves nothing; a failing start escalates | `CameraServer`, `PipelineBuilder`, `FrameTimes`, `V4l2Input` |
| planner, `src/pipeline/pipeline_graph.cpp` | the chains, the tree | `build`, `resolveOutputFormat` | each output gets what it is configured for, whatever is shared | `PipelineGraph` |
| builder, `src/pipeline/pipeline_builder.cpp` | elements, tees, valves, memory of scales | `realize` | a valve for every branch, a suitable queue on every link, no hardware memory where it cannot be read | `PipelineBuilder` |
| flow controller, `src/pipeline/flow_controller.hpp` | valves, grace timers | `update`, `isOutputFlowing` | a client is never starved, an idle branch is paused after the grace period and not before | `FlowController` |
| WebRTC output and signaling, `src/outputs/webrtc_output.cpp`, `src/webrtc/` | connections, sessions, peers, timeouts, context queue | `onWebSocketOpened`, `onMessage`, `onClosed`, `addPeerBranch`, `removePeerBranch`, `onPipelineStopping`, callbacks | sessions live as long as connections; nobody is left with a dead stream; messages in order | `WebrtcSessions`, `ClientSessions` |
| smart decoder, `src/codecs/smart_video_decoder.hpp` | counters, excluded backends, the pending decoder | the two probes, `smartDecoderSwap` | swaps do not overlap, end, and hit only a decoder that failed | `SmartDecoder` |
| codec selection, `src/codecs/codec_common.hpp` and the tables of `h264.hpp`, `h265.hpp`, `jpeg.hpp`, `png.hpp` | the tables of backends and aliases | `codecFromString`, `codecSelect`, `codecCreate`, `createScaleElement` | a backend that can be created is found, whatever else fails | `CodecSelection` |
| inputs, `src/inputs/v4l2_input.cpp` and others | `extra-controls`, the declared parameters, the callback's state | construction, the declaration of parameters, their callback | a control that was set stays set over stops, starts and sets of others; an exception ends the process only for known causes | `V4l2Input` (V4L2 only) |
| monitor, `src/pipeline_monitor.cpp` | bounded queue, table of coalesced messages | `enqueue`, `processLogMessages` | nothing vanishes uncounted, a recurring fault keeps being logged | `PipelineMonitor` |
| ring buffer, `include/.../helpers/ring_buffer.hpp` | array, two indices, a flag | push, pop, clear, accessors | it is a bounded queue, also between the statements of two threads that share it, as far as that goes (section 4) | `BoundedQueue`, `RingBuffer`, `FrameTimes` |
| output statistics, `src/outputs/pipeline_output.cpp`, `fps_window.hpp` | ring buffers of times | `reportBufferSent`, `statistics` | a processing time is of one frame, the last one sent | `FrameTimes`, `StuckOutput`; what statistics can say is an input of `CameraServer` |
| timestamps, `src/helpers/reference_timestamp_helpers.cpp`, buffer probe of the pipeline | metas of buffers, two rings next to an encoder, the base time | stamp a frame, carry its metas past an encoder | a frame keeps its own times; the base time is that of the running session | `FrameTimes` |
| other outputs, element properties, configuration, factories, node, logging, tools | – | construction from configuration | – | not modelled, see section 6 |

### How they interact

- The supervisor reads `isBuilt`, `getState`, `uptime` and `statistics` of a
  pipeline one after the other, while the GStreamer thread changes them, and
  answers with a function queued on the GStreamer thread. Whatever it decides
  is already history when that function runs.
- A pipeline going to NULL takes the transports of all WebRTC clients with it,
  so its outputs are told before (`onPipelineStopping`).
- Client counts flow from the outputs to the flow controller; whether data flows
  to an output, from there to the supervisor's rule for stuck outputs.
- The valves the flow controller drives are those the builder put into the
  branches of the planner's tree.
- A frame is stamped on the input's streaming thread; an encoder may drop its
  metas, which a pair of probes carries past it, on two threads; the output's
  probe turns them into the statistics the supervisor reads.
- A V4L2 input declares its controls as parameters of the node, which outlive
  the pipeline that declared them. The executor's thread sets them, through a
  callback that writes to an element the GStreamer thread owns.
- Planner and builder ask the codec tables which encoders there will be, and
  choose the memory of a scale accordingly; creation may turn out otherwise.
- Callbacks of webrtcbin hold references of their own and reach libsoup only
  through the signaling context's queue.

### What is hard here

Decisions on stale reads (supervisor, decoder), requests overtaken by others,
failures and restarts in the middle of an operation, time-outs that race the
event they wait for, queues shared without a lock, state that outlives the
attempt that made it, sampling of counts that change meanwhile, queues and tables
at their limits, and a shutdown at any moment. `PROJECT.json` lists these
hazards at the lines where they bite, with the properties that cover them.

## 2. The modules

Each module names its state after the code's members. What is not the code's is
marked in the declaration as *history* (for a property) or *bound*.

**CameraServer** – the running system after start-up. One action per step that
another thread can observe: a visit of the check reads the state (`ReadState`)
and decides later (`Visit…`), with whatever the uptime and the statistics are
then; `restart` is three steps (`RunRestart`, `FinishStop`, `FinishRestart`),
because stopping may take long before `start_time_` is cleared;
`rebuildPipeline` is two, because `built_` is visible before the outputs are
wired. A state change of GStreamer is asynchronous (`ReachPlaying`) or fails.
The statistics of a playing pipeline are any value the check distinguishes, so
every cause of a restart is possible at any visit. Devices come and go. The
histories `sinceStart` and `late` tell a pipeline that was built after the
constructor had already stamped its start time, and not stopped since.

**ServerLifecycle** – from constructor to the end of the destructor, with the
GStreamer thread's steps in the order of the lambda, the owner's steps in the
order of the destructor, and ICE threads that live as long as sessions. The
semantics of `g_main_loop_quit` and `g_main_loop_run` are GLib's: quit clears a
mark that run sets unconditionally when it is entered.

**FlowController** – `update()` looks at one output at a time, so a client may
come or go between two looks of the same update; a branch is a sequence of
outputs, the valves of a path may be nested. Ages replace the clock.

**WebrtcSessions** – the clients of one endpoint. Handlers of the signaling
context are atomic, as they run on one thread; callbacks of webrtcbin interleave
with them and dispatch. A connection is closing before it is closed, the failure
callbacks are in flight for a while, the pipeline may go to NULL at any time.
**ClientSessions** is what an output promises its clients, as a state machine of
phases; `WebrtcSessions` is shown to implement it.

**FrameTimes** – the five threads a frame's times pass through: the source's
stamps it and takes it into the encoder, the encoder's output thread sends it,
the GStreamer thread starts, stops and handles bus messages, a timer reads the
statistics, GStreamer changes states. It extends `RingBuffer` and takes `push`
and `pop_front` apart into their statements, as the two probes share the rings
without a lock: a push that finds the ring full evicts, a pop tests, clears the
flag and advances, and the other thread may be anywhere meanwhile. Frames are
numbered, and a frame's number stands for its capture and ingress time. The only
assumption on the constants is `EncoderFits`, that the encoder holds fewer frames
than the ring has slots. Nothing bounds the frames that get lost, so the ring
fills, for good: with every lost frame a time stays behind. The history `crossed`
is true from the moment a push and a pop are under way at once in a ring without
room; what the code does from then on is modelled like the rest, and the
properties exempt it (section 4).

**V4l2Input** – the GStreamer thread builds, rolls back, starts and stops a V4L2
pipeline; the executor's thread sets parameters. Declaring and setting exclude
one another, as rclcpp serialises them. Configured values are any, out of range
included; launch overrides are in range. The device can be unplugged and returns
with its defaults. An element that leaks when the constructor throws is not
modelled.

**StuckOutput** – composes what the supervisor's rule for stuck outputs depends on:
the sessions of a WebRTC output with their establish timeout, the window of sent
times behind its frame rate, the valve before it and the count of ticks, second
by second, for one output of a playing pipeline with live input. What each of
them does by itself is in the modules of the components; here a session is a
phase, with an age while it negotiates, and a restart takes no time. How long a
connection takes to close is up to the peer and to libsoup's patience with it; its
client counts until then, and there is no bound on it. Frames and checks have any
phase to one another, and a frame may count while a client negotiates, whose
payloader passes its first buffer on. The fault the rule is there for (`Wedge`)
keeps frames from all clients of the output: one that gets none beside others that
do is seen neither by the rule nor by the model. A second output that delivers
would clear the count whenever no other is stuck at the check; one output alone is
the worst case.

**SmartDecoder** – the two threads around the queue with the four atomics, read
and written one at a time; ending a swap (`Release`) clears the claim and removes
its probe in one step. `Creatable` and `Working` say what the machine has. The
histories `arrived` and `outdated` count the frames a decoder got and mark a
check that read counters of its predecessor. **CodecSelection** holds the
repository's tables and the functions that choose among them, for `SmartDecoder`
and `PipelineBuilder`: selection is by priority, desired backends first.

**PipelineMonitor** – producers under the lock against the timer thread, which
drains under the lock and works without it.

**BoundedQueue**, **RingBuffer** – the queue that forgets its oldest value, and
its implementation over an array with indices modulo its size and a `full` flag.

**PipelineGraph** – `PipelineGraph::build` in its phases: compute a chain for
each output, rearrange the framerate limits of chains that scale alike, merge
level by level, attach the sinks. A stream is a record of format, size, limits
and encoder; what an element does to it is `Through`, and `StreamAt` follows it
down the tree. That an output supports some format is an assumption: all
constructors of outputs see to it. **PipelineBuilder**
extends it with `realize`: backends and the memory of scales, an element at a
time, tees, links with their queues and valves, the outputs, and a failure at
any point that rolls everything back. `Machines` are the computers it runs on,
by the factories installed and those whose elements can be created.
**MCPipelineBuilder**, **MCFlowController** give the instances for TLC; the
machines there have VA-API, VA-API whose encoders cannot be created, an NVIDIA
card, or are a Jetson, each with software codecs.

`CameraServer_proofs`, `Supervisor_proofs` (the life cycle and the rule for stuck
outputs), `FlowController_proofs`, `FrameTimes_proofs` (which holds the ring
buffer's as well), `WebrtcSessions_proofs`, `Elements_proofs` (the smart decoder
and the V4L2 input), `PipelineMonitor_proofs` and `PipelineBuilder_proofs` (the
planner and the builder) hold the theorems.

## 3. The runs

Run one with `tlc -config <cfg> <module>`.

| run | module, cfg | question | bounds, and why they are enough |
| --- | --- | --- | --- |
| `two_cameras` | CameraServer, `CameraServer_two.cfg` | Do builds, wiring, requests and checks of two cameras interfere when the GStreamer thread lags arbitrarily? | two pipelines with WebRTC outputs, one output each; times scaled down; a queue of three requests, so that a second check can queue requests behind stale ones of the same pipeline |
| `repair` | CameraServer, `CameraServer_prompt.cfg` | With the code's own constants: do the repair rules leave time, escalate, and end in a playing pipeline? | one pipeline (the rules never relate two), two outputs; the GStreamer thread keeps up; a usable device needs at most 9 s |
| `lifecycle` | ServerLifecycle, `ServerLifecycle.cfg` | Are start-up and shutdown ordered as the comments claim? | two pipelines, so that there is a state between the first and the last; two queued requests |
| `lost_quit` | ServerLifecycle, `ServerLifecycle_shutdown.cfg` | Does the destructor always end? **No**, see findings | as above |
| `flow_control` | MCFlowController, `FlowController.cfg` | Do clients get their stream, and idle branches pause, under changes during an update and a late timer? | an outer valve over two inner ones and a branch of its own; one output with unknown count; a grace of 4 and a timer late by at most 1 |
| `frame_times` | FrameTimes, `FrameTimes.cfg` | Do times stay with their frames, and is the shared ring a queue at every statement? | a ring of three slots, an encoder of one frame, two lost: together they fill the ring, and a fourth frame finds it full and evicts, with and without a pop under way; four frames, so that head and tail wrap, the first of them perhaps at time 0; three base times and two bus messages: sessions with a stop between them and messages of the first still waiting; an output ring of two and two packets per frame, so that pruning, overwriting and correcting all happen |
| `v4l2_input` | V4l2Input, `V4l2Input.cfg` | Does a control that was set stay set, and what can end the process? | two controls of two values, so that setting one may lose the other; every configuration and every launch override; three builds: one that fails, one that meets what it left, one more |
| `stuck_output` | StuckOutput, `StuckOutput.cfg` | Does the rule for stuck outputs notice a starving client, and leave others alone? | the code's own constants; two clients, so that one may hide or add to the other; a frame every three seconds, the slowest output whose frame rate is never 0 |
| `webrtc_sessions` | WebrtcSessions, `WebrtcSessions.cfg` | Do sessions, connections and transports stay in step, and is the promise to clients kept? | two clients, each connecting once (a client that retries is a new connection); a timeout of two seconds |
| `smart_decoder` | SmartDecoder, `SmartDecoder.cfg` | Do swaps exclude one another, end well, and hit only a decoder that had its chance? | the H.264 table with four backends installed, one not creatable, only the software one working; the preference `VA`, `NVIDIA` (an alias) and an unknown token; a threshold of three frames |
| `monitor` | PipelineMonitor, `PipelineMonitor.cfg` | Are drops and suppressed repetitions accounted for? | a message and its replay, a queue of two, a table of one entry: both limits are reached; suppressed counts above two are not told apart, so that repetitions go on for ever |
| `pipeline_build` | MCPipelineBuilder, `PipelineBuilder.cfg` | Does every plan give each output what it asks for, however much is shared, and does a failed build leave nothing? | every list of up to two outputs over formats, sizes, rates and encoders, and every three of one size, which is where rates are grouped; raw, JPEG, PNG and H.264 inputs; four machines |

What the passing runs show:

- *Supervisor.* `RequestsFindBuiltPipeline`: `start` and `restart` dereference
  elements that exist only in a built pipeline, and are queued without looking
  again; still they always find one, since a pipeline never becomes unbuilt.
  `RebuildFindsFreshPipeline`: several queued rebuilds are harmless.
  `EndpointsMatchPipelines`: late cameras get their endpoints. When the GStreamer
  thread keeps up with the timer, `OneRequestPerPipeline`,
  `RestartsLeaveTimeToStart`, `StartFailuresEscalate` and `PipelinesRecover` say
  that the repair neither piles up nor thrashes and does its job. Without that
  assumption they are not promised: checks that see a pipeline still stopping
  queue more restarts, and each takes down what the one before has started.
- *Lifecycle.* The orders the destructor's comments ask for, and that timers
  never see a half-built vector.
- *Flow control.* Safety over any interleaving of the sampling; the grace
  period measured from the last update that saw a client throughout.
- *WebRTC.* The refinement: each client is either waiting, for no longer than the
  timeout, streaming, or broken, and then it is closed. `OfferComesFirst` needs the order of the
  context's queue.
- *Stuck outputs.* `StarvingClientsAreNoticed`: a client whose connection stands
  goes without frames for 19 s at most (tight: 4 s until the frame rate is 0, and
  five checks). `SteadyOutputsAreKept`: ticks left over from other sessions cannot
  restart an output that has been delivering for three frames.
  `SingleNegotiationIsNotCutOff`: a restart never hits a session that is still
  negotiating and alone can have added to the count, since the first and the fifth
  tick are 12 s apart (not 15, as the comment has it) and the timeout asks it to
  close after 10. What the comment promises beyond that does not hold (section 4).
- *Frame times.* `TimesLagOnlyByLosses`: a frame's times are its own or those of
  one frame before it, by no more than the frames lost and by less than the ring is
  long, also when the ring is full and evicts. `QueuesUntilCrossed`: the
  statements of the two threads are those of a queue that forgets its oldest time
  when it is full. Both end where the two probes meet in a ring without room.
  `CorrectionsFindTheirFrame`: the unlocked pruning of the reader never takes what
  a further buffer of the frame corrects.
- *V4L2.* `SetControlsStaySet` is about controls that reached an open device;
  `DiesOnlyOfLeftovers` and `FreedOnlyUnderTheCallback` name the only ways in
  which an exception ends the process or a freed element is written (section 4).
- *Decoder, monitor, planner and builder*: as their properties say, each preceded
  by a comment in its module. `EncodersFallBack` relates a realised build to what
  the machine can create.

Each model has a type invariant. Where it is proved (section 5) no run repeats
it, and the same goes for `QuitFindsLoop`, `PipelinesStoppedAlone` and
`EstablishedInTime`. `FramesTypeOK` is in no run and not proved: it documents the
state.

Deadlock is checked except where the system really ends: a destroyed server, a
finished build, a dead process, or the bounds on frames and builds.

### Fairness

| where | assumed | why |
| --- | --- | --- |
| CameraServer | weak, of the GStreamer thread and of the check; strong, of time | a `GMainLoop` serves sources of one priority in order; ROS timers keep firing; time passes though devices flicker |
| CameraServer | weak, of reaching PLAYING with a usable device | what "usable" means; within `StartupTime` in `repair` |
| ServerLifecycle | weak, of each thread | threads are scheduled; nothing makes the owner destroy the server |
| FlowController, PipelineMonitor | weak, of the running callback; strong, of time | timers keep firing; producers and clients owe nothing |
| WebrtcSessions | weak, of due timeouts, the context's queue, a callback under way, and the end of a closing connection | the main loop; libsoup closes a connection by its own timeout if the client does not answer |
| SmartDecoder | weak, of each thread and of a working decoder's answer | frames keep coming, a decoder that works decodes |
| FrameTimes, V4l2Input, PipelineBuilder, StuckOutput | none | their properties are safety properties; in StuckOutput a second passes only when all that is due has happened |

Clients, devices and failures are never assumed to be fair.

## 4. Findings

- **A quit can be lost** (`lost_quit`, `src/camera_server.cpp:131`). The
  destructor waits for `initialized_`, which is set before `on_initialized` and
  `g_main_loop_run`. A quit in between hits a loop that does not run yet; it
  then runs forever and the join never returns, which is what the comment at
  lines 127-130 says the wait prevents. A server whose loop is running shuts
  down (`RunningServerShutsDown`).

Other divergences are part of the models; a property names them as exempt cases,
or a hazard lists them:

- *Inter-coded inputs* (`src/pipeline/pipeline_builder.cpp:231`). Only streams of
  the pipeline's own encoders are treated as inter-dependent: an H.264 input that
  is passed through goes through leaky queues of one buffer, and a framerate limit
  is put on it undecoded, though `INPUTS.md:97` announces a decoder for it.
  `OutputsGetWhatTheyAskFor` exempts the framerate limits of such inputs.
- *Restarted while negotiating* (`src/camera_server.cpp:337`). The comment at lines
  222-224 says that sessions that are still negotiating are closed by their timeout
  before the rule for stuck outputs can fire. That is wrong in two ways, each of
  which TLC finds with a single client when the property is put so. The timeout
  only asks to close (`closeIfOpen`); the client counts until the close handshake
  is over (`src/outputs/webrtc_output.cpp:632-640`), so the pipeline is restarted
  for one session whose peer is silent for two seconds more
  (`[][RestartStuck /\ Streaming = {} => blamed = 2]_stuckVars` fails). And the
  ticks belong to the pipeline and are cleared only by a delivery, so a client that
  retries is restarted in its second attempt
  (`[][RestartStuck => \A c \in Clients : phase[c] # "negotiating"]_stuckVars`
  fails). `SingleNegotiationIsNotCutOff` is what is left of the promise.
- *Slow outputs are stuck* (`include/.../helpers/fps_window.hpp:38`). The frame rate
  is 0 "if none remain", says the comment at lines 28-29; the code asks for three
  sent times in ten seconds. `SteadyOutputsAreKept` holds for a frame every three
  seconds and fails for one every four or more; one every six is restarted about
  every 15 s as long as the output has a client, with the message that it produced
  no frames. The same function judges the input.
- *A hasty swap* (`src/codecs/smart_video_decoder.hpp:233`). The probe reads the
  counters before it claims the swap. If the swap in progress resets them and
  ends in between, the claim succeeds on the old readings and excludes the
  decoder just installed. `SwapsAreDeserved` names this as the only case.
- *A rebuild that ends the process* (`src/inputs/v4l2_input.cpp:259`). The comment
  at `src/camera_pipeline.cpp:80-82` promises that a failed build is rolled back
  and the next attempt retries from scratch. The parameters it declared stay
  declared, the next declaration throws, and nothing on the GStreamer thread
  catches it (`DiesOnlyOfLeftovers`).
- *Extra controls are replaced* (`src/inputs/v4l2_input.cpp:173`). Each set leaves
  only its own control in `extra-controls`. Of two sets while the device is
  closed the first is lost, and after a replug only the last one is written,
  where `INPUTS.md:40` speaks of parameters that change controls at runtime.
- *The callback and the roll-back* (`src/inputs/v4l2_input.cpp:281`). The callback
  locks its state, which does not own `v4l2src`; a roll-back in between frees it
  (`FreedOnlyUnderTheCallback`).
- *No fallback from NVV4L2* (`src/codecs/codec_common.hpp:405`). Creating it throws
  where the other backends return null, so the next one is not tried, though
  `src/codecs/h264.hpp:87` documents an automatic fallback (`EncodersFallBack`).
- *A camera built late may be restarted at once* (`src/camera_server.cpp:99`,
  `src/camera_pipeline.cpp:174`): the constructor stamped its start time minutes
  before (`RestartsLeaveTimeToStart`).
- *A stale base time* (`src/camera_pipeline.cpp:186`): a failed start goes to NULL
  without the rest of `stop()`; if the pipeline had lost its state before, the
  base time of the last session stays (`FreshSessionsUseOwnBase`).
- *Shifted times* (`src/helpers/reference_timestamp_helpers.cpp:145`): times are
  matched to encoded frames by order, so a frame the encoder loses shifts those
  of all later frames for good (`TimesLagOnlyByLosses`), restarts included, which
  flush the encoder but not the rings.
- *A full ring taken for empty* (`include/.../helpers/ring_buffer.hpp:44`, `:100`).
  After six lost frames the rings stay full, and the probes of the source's and
  the encoder's thread meet in them without a lock; the comment at
  `src/helpers/reference_timestamp_helpers.cpp:78-79` says the rings handle
  encoders that strip metas and buffer several frames. Between the statements of
  the two, `full` can be cleared on a ring that is full: TLC finds frames that
  leave without times although the ring was full, with the time of a later frame,
  and with the capture and ingress times of different frames. All of these need
  `crossed`, which the properties exempt; none happens without.
- *Image encoders* (`src/pipeline/pipeline_builder.cpp:758`) are left out of the
  choice of memory with a reason that does not hold of their bin.

## 5. What is proved

By TLAPS, for any number of pipelines, clients, outputs, valves, controls,
frames and messages, and any time constants that meet the named assumptions of
the modules. Each argument is the same: the property is not inductive, an
invariant is that adds what the steps rely on, and it is shown action by action.

- **Supervisor** (`CameraServer_proofs`): `SupervisorInvariant`, and from it
  `TypeCorrect`, `RequestsSafe`, `RebuildsSafe`, `EndpointsComplete`.
  `RebuildFindsFreshPipeline`, say, needs that an unbuilt pipeline was never
  started, which needs that no request for it but a rebuild is queued, which
  needs that a visit that has read a state is of a built pipeline. `IInv` adds: a
  visit in progress belongs to the running check, unbuilt pipelines have no start
  time, a stopping pipeline is in NULL, only built pipelines are wired, and only
  while there is a signaling server. A built pipeline staying built carries most
  of it. `PromptRequests` and `RestartsPaced` are about a GStreamer thread that
  serves what a check asks of it before the next one (`GstKeepsUp`, an assumption
  on the constants): `PromptInv` says that between two checks nothing is queued
  or half done, and during one only what this check has asked for, of each
  pipeline it has visited once; `PacedInv` relates the uptime a visit reads to the
  time since the last start. For a late camera the constructor's start time is
  older, which is the exempt case.
- **Lifecycle** (`Supervisor_proofs`): `LifecycleInvariant`, and from it
  `QuitsFindLoop`, `StoppedAlone`, `NoLateDispatch`, `TimersSafe`. The progress of
  the GStreamer thread says what exists (`ThreadInv`), that of the destructor what
  the thread has left behind (`OwnerInv`), and sessions, whose ICE threads
  dispatch, exist only while the signaling server does (`SessionInv`).
- **Stuck outputs** (`Supervisor_proofs`): `StuckTypes`, and `StarvingNoticed`,
  `SteadyKept`, `NegotiationTolerated`, each from the relation of the times that
  makes it true. `StarveInv` bounds a client's wait by the time until its last
  frames have left the window plus `CheckPeriod` for each tick still missing, as
  long as the window forgets (10 - 2 * 3 >= 1 in the code). `SteadyInv` says that
  a frame that has come in time keeps the window filled, if the three frames fit
  (9 <= 10). `BlameInv` bounds the age of the session by that of the ticks it is
  blamed for: a single negotiation is over before the fifth tick if
  (StuckTicks - 1) * CheckPeriod > EstablishTimeout, in the code 12 > 10, however
  long connections take to close, and for any number of clients.
- **Flow controller** (`FlowController_proofs`): `TypeCorrect`, `ServedFlow`,
  `GraceKept`. `IInv` says that whoever was witnessed throughout is still
  active, that the branches the running update has passed are open for them,
  that the outputs skipped in the current branch were seen idle, and that a
  grace timer is no older than the time since an output behind it was served.
- **WebRTC** (`WebrtcSessions_proofs`): `SessionInvariant`, and from it
  `SessionsAreConnected`, `LostAreClosing`, `EstablishedOrClosing`, `OfferFirst`.
  An open connection has a session; an open session that is not established has
  a timeout armed that is not overdue; candidates in the context's queue come
  after an offer. `KeepsPromise` is the refinement: every step is a step of
  `ClientSessions` or a stutter. Only its fairness is left to `webrtc_sessions`.
- **Frame times** (`FrameTimes_proofs`): `OwnBaseTime`, from what may be on the bus
  after a stop; `StatisticsInvariant`, and from it `ProcessingTimeOfLastFrame` and
  `CorrectionsSafe`, under any pruning by the reader. `TimesInFlight` and
  `TimesLagBounded`: both rings hold the times of consecutive frames, the last ones
  stamped, as many as the encoder holds and has lost or as fit, with what the
  thread that pushes or pops has already done added or taken off (`FlightInv`, one
  case per statement of the two threads). So the times taken out lag behind the
  frame by the losses at most, and by less than `Size`. The assumptions are
  `EncoderFits`, which the code's six slots are chosen for, and, in the properties
  themselves, that the probes have not met in a ring without room.
- **Ring buffer** (`FrameTimes_proofs`): `ImplementsBoundedQueue`, the refinement
  for any size, with `full => head = tail` as the strengthening and lemmas on
  indices modulo the size; `TypeCorrect`, `AccessorsCorrect`. They are about
  `RingBuffer`'s `Spec`, that is whole calls; `InterleavedBoundedQueue` is about
  the interleaved statements of two threads, from `FlightInv`: a push takes effect
  when it writes, which takes the place of the oldest value if the ring is full, a
  pop when it advances `tail`, and every other statement leaves the queue (`Held`)
  as it is, until the two meet in a ring without room.
- **V4L2 input** (`Elements_proofs`): `InputInvariant`, and from it
  `ControlsStaySet`, `DeathsExplained`, `FreedUseExplained`. `ReachedInv` says what
  the device and `extra-controls` hold for controls that were set, `DeclaredInv`
  of which build the declared parameters are, `CallInv` whether the build was
  rolled back under a call in progress.
- **Smart decoder** (`Elements_proofs`): `SwapInvariant`, and from it
  `SwapsOneAtATime`, `DeservedSwaps`, `GivenUpForGood`, for any of the tables, any
  machine and any threshold; lemmas say what `codecSelect` returns.
- **Monitor** (`PipelineMonitor_proofs`): `MonitorInvariant`, `TypeCorrect`,
  `DropsCounted`, `WithheldCounted`; the strengthening is that a key without an
  entry has no count, which is why eviction may only take entries without one.
- **Planner** (`PipelineBuilder_proofs`): `PlanInvariant`, and from it
  `OutputsAreServed` and `ScalesAreShared`, for any lists of outputs. Three steps
  carry it. A chain is computed, and then optimized, to `PlannedChain`, a formula
  with a limit before the scale, one after it, and what lies around them; the
  greedy grouping comes down to the rates no higher one is a multiple of (`Top`,
  `LeaderParts`). `GraphInv` says what merging keeps: the nodes are a tree,
  each chain has a track in it, a way from the source through nodes like its
  elements, each node was made for an element of a chain, and siblings differ but
  for encoders. Along a track the stream is what the formula makes of it
  (`PlannedStream`). And a scale is known by what lies before it on its track, so
  that the scales of a size and the rates in `Top` are counted by a bijection.
- **Builder** (`PipelineBuilder_proofs`): `BuildInvariant`, and from it
  `BuilderTypeCorrect`, `OutputsPauseAlone`, `RawFramesInSystemMemory` and
  `EncodersDoFallBack`, for any outputs and machines. `BuilderInv` says that tees
  are where the tree branches and that there is one valve for each branch linked
  so far, for the outputs below it. Of two outputs, the first node on the way to
  the one that is not on the way to the other is such a branch (`WaysPart`).

Recursion over the tree (`PathTo`, `StreamAt`, `Resolved`) is within reach, as it
goes up to nodes of lower numbers: `TreeRecursion` shows that such a definition
has the value its equation gives, `TreeInduction` what holds of all nodes, both by
the least number that would be an exception.

Only model-checked: all liveness properties (`StartFailuresEscalate`,
`PipelinesRecover`, `RunningServerShutsDown`, `ClientsGetStream`,
`IdleBranchesClose`, `ClientsAreNotLeftHanging`, `DecodesOrGivesUp`,
`RecurringAreEmitted`), since the prover handles neither fairness nor ENABLED. All
safety properties of the runs are proved.

## 6. What is not modelled, and why

- *Other inputs, RTP/SRT/ROS 2 outputs, codec elements.* They construct GStreamer
  elements and set their properties. What the rest depends on is an input of the
  models: an input's format and that it may fail, client counts, a backend's
  memory. The RTP header extension packs bytes.
- *Configuration, factories, node, announcement.* Sequential parsing and
  construction. The comparison of configurations by which elements are shared is
  part of `PipelineGraph`.
- *GStreamer, GLib, libsoup, rclcpp, the V4L2 driver.* Only through how the code
  uses them.
- *Payloads, wording, logging, tools, the vendored JSON library.* The last alone
  is two thirds of the repository's lines (`helpers/json.hpp`, 25 526 lines).
- In the modelled parts: SDP and ICE contents, TLS, several endpoints (they
  differ in their path only), the text of log records, the properties of queues
  beyond their kind, the order of siblings in the builder (left to an
  `unordered_map`; each order realises parents first), encoder timing averages,
  the plausibility checks and the segment of `deriveCaptureTime`, clocks that
  jump (times are ordinals), and frames with equal time stamps, also over restarts.
  The probes are interleaved by statements: an update lost inside one of them, or
  reordered by the compiler, is not in the model. The decoder a configuration names
  (the builder chooses by itself), `videoconvert` and the parsers inside encoder
  bins, and valves that cannot be created while tees and queues can.

## 7. Plan

Done: the supervisor and its life cycle first, as everything depends on them;
then flow control, sessions, decoder, monitor, planner and builder; frame times
with the ring buffer under them, the V4L2 input, codec selection, and the rule
for stuck outputs as a composition; the proofs listed above.

Next, in order:

1. `FramerateGate` – the fallback that drops frames by their time stamps.
2. Client counts of SRT and RTP outputs, as `FlowController` reads them.
3. Builder and flow controller composed: the valves of every plan instead of the
   fixed nesting.
4. `deriveCaptureTime` with segments and clocks that jump, and the encoder timing
   averages.

Abstract specifications still worth stating: a pipeline as the supervisor sees it
(down, coming up, playing), and frames with their capture times as a queue
through the encoder.

Theorems: the refinements of these specifications; the composition of builder and
flow controller, of which `OutputsPauseAlone` and `ServedFlow` are the halves; and
`FramesTypeOK`.
