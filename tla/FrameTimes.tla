------------------------------ MODULE FrameTimes ------------------------------
(***************************************************************************)
(* The times that travel with a frame, from the probe on the input         *)
(* (CameraPipeline::inputBufferCallback) around an encoder that may strip  *)
(* them (encoder_sink_probe, encoder_src_probe) to the statistics of an    *)
(* output (reportBufferSent, statistics), over restarts of the pipeline.   *)
(*                                                                         *)
(* Five threads meet here: the source's, which stamps a frame and takes it *)
(* into the encoder; the encoder's output thread, which sends it; the      *)
(* GStreamer thread, which starts and stops the pipeline and handles its   *)
(* bus; the timer that reads the statistics; and GStreamer's own, which    *)
(* change states. The two probes share unsynchronised ring buffers, so     *)
(* push and pop_front on unix_timestamps, the ring of module RingBuffer,   *)
(* are taken apart into their statements. Nothing keeps that ring from     *)
(* filling up: every frame the encoder loses leaves its time behind.       *)
(* ingress_timestamps goes along with it and is a queue here. Frames are   *)
(* numbered, and a frame's number stands for its capture and ingress time. *)
(***************************************************************************)
EXTENDS RingBuffer

CONSTANTS
  EncoderDepth,   \* frames the encoder holds at most
  MaxLost,        \* bound: frames lost in the encoder, by drops or restarts
  MaxFrames,      \* bound: frames the input delivers
  MaxUntimed,     \* bound: frames that arrive at ROS time 0
  MaxSessions,    \* bound: base times the pipeline goes through
  MaxBus,         \* bound: state messages waiting on the bus
  OutputSize,     \* capacity of the output's ring of sent times (30)
  PacketsPerFrame \* buffers an output makes of a frame at most

Frames == 1 .. MaxFrames
NoTime == 0       \* no reference timestamp meta, or a time of 0

(* The frames in the encoder fit into the ring with the one that is on its *)
(* way in, which is what the ring is there for; those lost need not.       *)
ASSUME EncoderFits ==
  /\ EncoderDepth \in Nat /\ EncoderDepth < Size /\ MaxLost \in Nat
  /\ MaxFrames \in Nat /\ MaxUntimed \in Nat /\ Values = 0 .. MaxFrames
  /\ MaxSessions \in Nat /\ MaxBus \in Nat
  /\ OutputSize \in Nat \ {0} /\ PacketsPerFrame \in Nat \ {0}

VARIABLES
  state,      \* the pipeline's GStreamer state
  session,    \* number of the base time the pipeline runs with
  baseTime,   \* pipeline_base_time_: the session it is of, or NoTime
  bus,        \* state messages of the pipeline, not handled yet
  settled,    \* no state was lost since the last stop() (history)
  arrived,    \* frames that arrived at the input
  sourceAt,   \* where the source's thread is in encoder_sink_probe
  encoder,    \* the frames in the encoder
  strips,     \* the encoder strips the metas
  untimed,    \* first frames that arrive before simulated time has begun
  lost,       \* frames lost in the encoder (history)
  hasPts,     \* the buffers of the output have a PTS
  ingress,    \* ingress_timestamps
  outputAt,   \* where the encoder's output thread is
  frame,      \* the frame it has, with its metas
  packets,    \* buffers of that frame sent
  lastPts,    \* last_buffer_timestamp_, as a frame
  isNew,      \* is_new_frame_
  frameIngress,  \* current_frame_ingress_time_ns_
  procTimes,  \* buffer_processing_times_: the frames measured
  sentTimes,  \* output_buffer_timestamps_: the frames sent
  strayWrite, \* the last element of an empty ring was written (history)
  crossed     \* the probes have met in a ring without room (history)

ring        == <<buffer, head, tail, full>>
sessionVars == <<state, session, baseTime, bus, settled>>
sourceVars  == <<arrived, sourceAt>>
encoderFate == <<strips, untimed, lost, hasPts>>
senderVars  == <<outputAt, frame, packets>>
statsVars   == <<lastPts, isNew, frameIngress, procTimes, sentTimes,
                 strayWrite>>
frameVars   == <<ring, sourceVars, encoder, encoderFate, ingress,
                 senderVars, statsVars>>
allVars     == <<frameVars, sessionVars, crossed>>

(* The capture and ingress time of a frame.                                *)
TimeOf(n) == IF n <= untimed THEN NoTime ELSE n

(* push on a ring that is seen as a queue of at most n values.             *)
Pushed(q, v, n) == IF Len(q) = n THEN Append(Tail(q), v) ELSE Append(q, v)
Popped(q)       == IF q = <<>> THEN q ELSE Tail(q)

-----------------------------------------------------------------------------
(* The GStreamer thread, and the states and the bus of the pipeline.       *)

Streaming == sourceAt # "idle" \/ outputAt # "idle"

(* Setting the pipeline to NULL ends the streaming threads and drops what  *)
(* the encoder holds; it also flushes the bus.                             *)
GoToNull ==
  /\ ~Streaming
  /\ lost + Len(encoder) <= MaxLost
  /\ lost' = lost + Len(encoder)
  /\ encoder' = <<>>
  /\ state' = "NULL"
  /\ bus' = <<>>

(* Plausible slip: the base time is left for the next bus message.         *)
StopWithoutInvalidation ==
  /\ GoToNull
  /\ settled' = TRUE
  /\ UNCHANGED <<session, baseTime, ring, sourceVars, strips, untimed,
                 hasPts, ingress, senderVars, statsVars>>

(* CameraPipeline::stop                                                    *)
Stop ==
  /\ GoToNull
  /\ baseTime' = NoTime
  /\ settled' = TRUE
  /\ UNCHANGED <<session, ring, sourceVars, strips, untimed, hasPts,
                 ingress, senderVars, statsVars>>

(* CameraPipeline::start on a pipeline in NULL; what it had as base time   *)
(* is no longer true of the frames to come.                                *)
Start ==
  /\ state = "NULL"
  /\ session < MaxSessions /\ Len(bus) < MaxBus
  /\ state' = "PAUSED"
  /\ session' = session + 1
  /\ bus' = Append(bus, "other")
  /\ UNCHANGED <<baseTime, settled, frameVars>>

(* A start() that fails goes back to NULL without the rest of stop().      *)
StartFails ==
  /\ state # "PLAYING"
  /\ GoToNull
  /\ UNCHANGED <<session, baseTime, settled, ring, sourceVars, strips,
                 untimed, hasPts, ingress, senderVars, statsVars>>

(* A pipeline that starts to play gets a base time.                        *)
ReachPlaying ==
  /\ state = "PAUSED"
  /\ session < MaxSessions /\ Len(bus) < MaxBus
  /\ state' = "PLAYING"
  /\ session' = session + 1
  /\ bus' = Append(bus, "playing")
  /\ UNCHANGED <<baseTime, settled, frameVars>>

LoseState ==
  /\ state = "PLAYING"
  /\ Len(bus) < MaxBus
  /\ state' = "PAUSED"
  /\ bus' = Append(bus, "other")
  /\ settled' = FALSE
  /\ UNCHANGED <<session, baseTime, frameVars>>

(* CameraPipeline::onBusMessage: a PLAYING message reads the base time the *)
(* pipeline has by now.                                                    *)
OnBusMessage ==
  /\ bus # <<>>
  /\ bus' = Tail(bus)
  /\ baseTime' = IF Head(bus) = "playing" THEN session ELSE NoTime
  /\ UNCHANGED <<state, session, settled, frameVars>>

Pipeline == \/ Stop \/ Start \/ StartFails
            \/ ReachPlaying \/ LoseState \/ OnBusMessage

-----------------------------------------------------------------------------
(* The source's thread: a frame arrives, is stamped with its times and     *)
(* goes through encoder_sink_probe into the encoder.                       *)

SinkStep(from, to) ==
  /\ sourceAt = from
  /\ sourceAt' = to
  /\ UNCHANGED <<encoderFate, senderVars, statsVars, sessionVars>>

(* push: buffer[head] = value                                              *)
SinkWrite ==
  /\ SinkStep("idle", "check")
  /\ state # "NULL"
  /\ arrived < MaxFrames
  /\ arrived' = arrived + 1
  /\ buffer' = [buffer EXCEPT ![head] = TimeOf(arrived + 1)]
  /\ UNCHANGED <<head, tail, full, ingress, encoder>>

(* push: if ( full )                                                       *)
SinkCheck ==
  /\ SinkStep("check", IF full THEN "evict" ELSE "advance")
  /\ UNCHANGED <<arrived, ring, ingress, encoder>>

(* Plausible slip: the oldest value is left where the newest was written.  *)
SinkKeepOldest ==
  /\ SinkStep("evict", "advance")
  /\ UNCHANGED <<arrived, ring, ingress, encoder>>

(* push: tail = ...                                                        *)
SinkEvict ==
  /\ SinkStep("evict", "advance")
  /\ tail' = (tail + 1) % Size
  /\ UNCHANGED <<arrived, buffer, head, full, ingress, encoder>>

(* push: head = ...                                                        *)
SinkAdvance ==
  /\ SinkStep("advance", "mark")
  /\ head' = (head + 1) % Size
  /\ UNCHANGED <<arrived, buffer, tail, full, ingress, encoder>>

(* push: full = ( head == tail )                                           *)
SinkMark ==
  /\ SinkStep("mark", "ingress")
  /\ full' = (head = tail)
  /\ UNCHANGED <<arrived, buffer, head, tail, ingress, encoder>>

SinkIngress ==
  /\ SinkStep("ingress", "encode")
  /\ ingress' = Pushed(ingress, TimeOf(arrived), Size)
  /\ UNCHANGED <<arrived, ring, encoder>>

(* The encoder takes a frame when it has room for it.                      *)
EnterEncoder ==
  /\ SinkStep("encode", "idle")
  /\ Len(encoder) < EncoderDepth
  /\ encoder' = Append(encoder, arrived)
  /\ UNCHANGED <<arrived, ring, ingress>>

Source == \/ SinkWrite \/ SinkCheck \/ SinkEvict \/ SinkAdvance \/ SinkMark
          \/ SinkIngress \/ EnterEncoder

-----------------------------------------------------------------------------
(* The encoder and its output thread: encoder_src_probe, then the output.  *)

(* The encoder drops a frame.                                              *)
LoseFrame ==
  /\ encoder # <<>>
  /\ lost < MaxLost
  /\ lost' = lost + 1
  /\ encoder' = Tail(encoder)
  /\ UNCHANGED <<ring, sourceVars, strips, untimed, hasPts, ingress,
                 senderVars, statsVars, sessionVars>>

SrcStep(from, to) ==
  /\ outputAt = from
  /\ outputAt' = to
  /\ UNCHANGED <<sourceVars, encoderFate, statsVars, sessionVars>>

(* The encoder is done with a frame, with its metas or without.            *)
SrcTake ==
  /\ encoder # <<>>
  /\ SrcStep("idle", "test")
  /\ encoder' = Tail(encoder)
  /\ LET t == IF strips THEN NoTime ELSE TimeOf(Head(encoder))
     IN  frame' = [number |-> Head(encoder), capture |-> t, ingress |-> t]
  /\ packets' = 0
  /\ UNCHANGED <<ring, ingress>>

(* The probe lets it pass if unix_timestamps is empty.                     *)
SrcTest ==
  /\ SrcStep("test", IF Empty THEN "send" ELSE "front")
  /\ UNCHANGED <<ring, ingress, encoder, frame, packets>>

(* Plausible slip: back() is taken for front().                            *)
SrcBack ==
  /\ SrcStep("front", "check")
  /\ frame' = IF strips THEN [frame EXCEPT !.capture = Back] ELSE frame
  /\ UNCHANGED <<ring, ingress, encoder, packets>>

(* front() of unix_timestamps, used only if the meta is missing            *)
SrcFront ==
  /\ SrcStep("front", "check")
  /\ frame' = IF strips THEN [frame EXCEPT !.capture = Front] ELSE frame
  /\ UNCHANGED <<ring, ingress, encoder, packets>>

(* pop_front: if ( empty() )                                               *)
SrcCheck ==
  /\ SrcStep("check", IF Empty THEN "pair" ELSE "unmark")
  /\ UNCHANGED <<ring, ingress, encoder, frame, packets>>

(* pop_front: full = false                                                 *)
SrcUnmark ==
  /\ SrcStep("unmark", "advance")
  /\ full' = FALSE
  /\ UNCHANGED <<buffer, head, tail, ingress, encoder, frame, packets>>

(* pop_front: tail = ...                                                   *)
SrcAdvance ==
  /\ SrcStep("advance", "pair")
  /\ tail' = (tail + 1) % Size
  /\ UNCHANGED <<buffer, head, full, ingress, encoder, frame, packets>>

(* front() and pop_front() of ingress_timestamps; front() of an empty ring *)
(* is whatever its slot holds.                                             *)
SrcPair ==
  /\ SrcStep("pair", "send")
  /\ \E t \in IF ingress = <<>> THEN Values ELSE {Head(ingress)} :
       frame' = IF strips THEN [frame EXCEPT !.ingress = t] ELSE frame
  /\ ingress' = Popped(ingress)
  /\ UNCHANGED <<ring, encoder, packets>>

(* The output's thread sends the buffers of a frame; the frame's number is *)
(* their PTS, if they have one, and stands for the processing time         *)
(* measured now.                                                           *)
NewFrame == ~hasPts \/ frame.number # lastPts
Overwritten(q, v) == IF q = <<>> THEN q ELSE [q EXCEPT ![Len(q)] = v]

(* Plausible slip: nobody else shortens output_buffer_timestamps_.         *)
BeginsEntryIfNew == NewFrame

(* A buffer begins an entry of output_buffer_timestamps_, or corrects one. *)
BeginsEntry == NewFrame \/ sentTimes = <<>>

(* Plausible slip: the entry of the frame before is kept.                  *)
AllOldTimes == procTimes

(* A new frame removes the processing time of the frame before.            *)
OldTimes == IF NewFrame THEN Popped(procTimes) ELSE procTimes

(* PipelineOutput::reportBufferSent                                        *)
ReportBufferSent ==
  LET time  == IF NewFrame THEN frame.ingress ELSE frameIngress
      fresh == NewFrame \/ isNew
  IN  /\ outputAt = "send"
      /\ packets < PacketsPerFrame
      /\ packets' = packets + 1
      /\ lastPts' = frame.number
      /\ frameIngress' = time
      /\ isNew' = (fresh /\ time = NoTime)
      /\ procTimes' =
           IF time = NoTime THEN OldTimes
           ELSE IF fresh THEN Pushed(OldTimes, frame.number, OutputSize)
                         ELSE Overwritten(OldTimes, frame.number)
      /\ sentTimes' =
           IF BeginsEntry THEN Pushed(sentTimes, frame.number, OutputSize)
                          ELSE Overwritten(sentTimes, frame.number)
      /\ strayWrite' = \/ strayWrite
                       \/ time # NoTime /\ ~fresh /\ OldTimes = <<>>
                       \/ ~BeginsEntry /\ sentTimes = <<>>
      /\ UNCHANGED <<ring, sourceVars, encoder, encoderFate, ingress, outputAt,
                     frame, sessionVars>>

(* The rest of the frame was sent, or a queue or valve has dropped it.     *)
FrameDone ==
  /\ SrcStep("send", "idle")
  /\ UNCHANGED <<ring, ingress, encoder, frame, packets>>

Output == \/ SrcTake \/ SrcTest \/ SrcFront \/ SrcCheck \/ SrcUnmark
          \/ SrcAdvance \/ SrcPair \/ ReportBufferSent \/ FrameDone

(* PipelineOutput::statistics on the timer's thread: sent times that have  *)
(* become too old are forgotten, whatever frame is being sent.             *)
PruneSentTimes ==
  /\ sentTimes # <<>>
  /\ sentTimes' = Tail(sentTimes)
  /\ UNCHANGED <<lastPts, isNew, frameIngress, procTimes, strayWrite, ring,
                 sourceVars, encoder, encoderFate, ingress, senderVars,
                 sessionVars>>

-----------------------------------------------------------------------------
(* The ring as a queue of times, while push and pop_front are under way.   *)

(* Where push has not moved head past the time it has written yet.         *)
Unmoved == {"check", "evict", "advance"}
Stamping == sourceAt \notin {"idle", "encode"}
Probing  == outputAt \notin {"idle", "send"}

(* The times the indices delimit: none or all if they are equal, and then  *)
(* the flag tells, but for a push that has yet to set it or a pop that     *)
(* has already cleared it.                                                 *)
Stored ==
  IF head = tail /\ (full \/ sourceAt = "mark" \/ outputAt = "advance")
  THEN Size ELSE Count

(* With the time that was written last, which may be in place of another.  *)
Occupied == Stored + (IF sourceAt \in Unmoved THEN 1 ELSE 0)

Newest == IF sourceAt \in Unmoved THEN head ELSE (head + Size - 1) % Size

(* The last times written, as many of them as there are in the ring.       *)
Held ==
  LET n == IF Occupied > Size THEN Size ELSE Occupied
  IN  [i \in 1 .. n |-> buffer[(Newest + Size - n + i) % Size]]

HeldQueue == INSTANCE BoundedQueue WITH items <- Held

(* A push that fills the ring, or finds it full, and a pop at once.        *)
Crossing == Stamping /\ Probing /\ Occupied >= Size

-----------------------------------------------------------------------------

FramesInit ==
  /\ Init
  /\ buffer = [i \in Indices |-> NoTime]
  /\ state = "NULL" /\ session = 0 /\ baseTime = NoTime /\ bus = <<>>
  /\ settled = TRUE
  /\ arrived = 0 /\ untimed \in 0 .. MaxUntimed /\ sourceAt = "idle"
  /\ encoder = <<>> /\ strips \in BOOLEAN /\ lost = 0 /\ ingress = <<>>
  /\ outputAt = "idle" /\ packets = 0 /\ hasPts \in BOOLEAN
  /\ frame = [number |-> NoTime, capture |-> NoTime, ingress |-> NoTime]
  /\ lastPts = NoTime /\ isNew = FALSE /\ frameIngress = NoTime
  /\ procTimes = <<>> /\ sentTimes = <<>> /\ strayWrite = FALSE
  /\ crossed = FALSE

FramesNext ==
  /\ Pipeline \/ Source \/ LoseFrame \/ Output \/ PruneSentTimes
  /\ crossed' = (crossed \/ Crossing')

FramesSpec == FramesInit /\ [][FramesNext]_allVars

-----------------------------------------------------------------------------
(* Properties.                                                             *)

(* The types, over the statements the threads are between.                 *)
FramesTypeOK ==
  /\ TypeOK
  /\ state \in {"NULL", "PAUSED", "PLAYING"}
  /\ session \in 0 .. MaxSessions /\ baseTime \in 0 .. MaxSessions
  /\ bus \in Seq({"other", "playing"}) /\ settled \in BOOLEAN
  /\ sourceAt \in {"idle", "check", "evict", "advance", "mark", "ingress",
                   "encode"}
  /\ outputAt \in {"idle", "test", "front", "check", "unmark", "advance",
                   "pair", "send"}
  /\ encoder \in Seq(Frames) /\ ingress \in Seq(Values)
  /\ frame \in [number : Values, capture : Values, ingress : Values]
  /\ procTimes \in Seq(Frames) /\ sentTimes \in Seq(Frames)

(* A frame leaves the encoder with the capture and ingress time of one and *)
(* the same frame: its own, or, if the probes have to attach them, that of *)
(* a frame some frames earlier. Those lost in the encoder shift the times  *)
(* of all that follow, and not even a restart brings them back in step;    *)
(* but a ring that is full forgets as many as come, so that a frame's      *)
(* times are never of a later one, nor older than the ring is long. That   *)
(* ends where the two probes meet in a ring without room.                  *)
TimesLagOnlyByLosses ==
  outputAt = "send" /\ (strips => ~crossed) =>
    \E n \in Frames :
      /\ n <= frame.number
      /\ IF strips THEN frame.number - n <= lost /\ frame.number - n < Size
                   ELSE n = frame.number
      /\ frame.capture = TimeOf(n)
      /\ frame.ingress = TimeOf(n)

(* Taken apart into the statements of two threads, push and pop_front are  *)
(* those of a queue that forgets its oldest time when it is full: no other *)
(* time is lost, repeated or reordered, until the probes meet in a ring    *)
(* without room. There a full ring may pass for an empty one.              *)
QueuesUntilCrossed ==
  [][crossed' \/ HeldQueue!Push(TimeOf(arrived')) \/ HeldQueue!PopFront
     \/ UNCHANGED Held]_allVars

(* The processing time an output reports is that of the last frame it has  *)
(* sent a buffer of, or none: never a mean over frames, nor that of a      *)
(* frame which is followed by one without an ingress time.                 *)
ProcessingTimeIsOfLastFrame ==
  /\ \A i \in 1 .. Len(procTimes) : procTimes[i] = lastPts
  /\ Len(procTimes) <= 1

(* A further buffer of a frame corrects the times of its first one: there  *)
(* is one, even if the statistics were read in between.                    *)
CorrectionsFindTheirFrame ==
  /\ ~strayWrite
  /\ outputAt = "send" /\ packets > 0 /\ sentTimes # <<>>
       => sentTimes[Len(sentTimes)] = frame.number

(* After a stop() no frame gets a capture time from the base time of an    *)
(* earlier session, unless the pipeline loses its state: that message may  *)
(* still wait on the bus, or be flushed from it by a start() that fails.   *)
FreshSessionsUseOwnBase == settled => baseTime \in {NoTime, session}

=============================================================================
