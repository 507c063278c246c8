-------------------------- MODULE FrameTimes_proofs --------------------------
(***************************************************************************)
(* Proofs about FrameTimes, for any encoder, any ring sizes and any number *)
(* of frames, packets and sessions: which base time a session can use,     *)
(* whose times the statistics of an output hold, that the ring buffer is   *)
(* a bounded queue, used by one thread or by the two of the encoder at     *)
(* once, and whose times a frame leaves the encoder with.                  *)
(***************************************************************************)
EXTENDS FrameTimes, SequenceTheorems, TLAPS

-----------------------------------------------------------------------------
(* The base time.                                                          *)

(* While no state is lost after a stop(), a pipeline that does not play    *)
(* has no base time, and no message on its way that would give it one.     *)
BaseTimeInv ==
  /\ FreshSessionsUseOwnBase
  /\ bus \in Seq({"other", "playing"})
  /\ settled /\ state # "PLAYING" =>
       /\ baseTime = NoTime
       /\ \A i \in 1 .. Len(bus) : bus[i] = "other"

(* The steps of the streaming threads do not touch the session.            *)
LEMMA StreamingKeepsSession ==
  ASSUME Source \/ LoseFrame \/ Output \/ PruneSentTimes
  PROVE  UNCHANGED sessionVars
<1>1. CASE Source
  BY <1>1 DEF Source, SinkStep, SinkWrite, SinkCheck, SinkEvict, SinkAdvance,
              SinkMark, SinkIngress, EnterEncoder
<1>2. CASE LoseFrame
  BY <1>2 DEF LoseFrame
<1>3. CASE Output
  BY <1>3 DEF Output, SrcStep, SrcTake, SrcTest, SrcFront, SrcCheck, SrcUnmark,
              SrcAdvance, SrcPair, ReportBufferSent, FrameDone
<1>4. CASE PruneSentTimes
  BY <1>4 DEF PruneSentTimes
<1> QED  BY <1>1, <1>2, <1>3, <1>4

(* The pipeline's own steps keep the invariant.                            *)
LEMMA PipelineKeepsBaseTime ==
  ASSUME BaseTimeInv, Pipeline
  PROVE  BaseTimeInv'
<1> USE DEF BaseTimeInv, FreshSessionsUseOwnBase, NoTime
<1>1. CASE Stop
  BY <1>1 DEF Stop, GoToNull
<1>2. CASE Start
  <2>1. /\ bus' = Append(bus, "other") /\ bus' \in Seq({"other", "playing"})
        /\ settled => \A i \in 1 .. Len(bus') : bus'[i] = "other"
    BY <1>2 DEF Start
  <2> QED  BY <1>2, <2>1 DEF Start
<1>3. CASE StartFails
  BY <1>3 DEF StartFails, GoToNull
<1>4. CASE ReachPlaying
  <2>1. bus' \in Seq({"other", "playing"})
    BY <1>4 DEF ReachPlaying
  <2> QED  BY <1>4, <2>1 DEF ReachPlaying
<1>5. CASE LoseState
  <2>1. bus' \in Seq({"other", "playing"})
    BY <1>5 DEF LoseState
  <2> QED  BY <1>5, <2>1 DEF LoseState
<1>6. CASE OnBusMessage
  <2>1. /\ bus' \in Seq({"other", "playing"})
        /\ Len(bus) \in Nat \ {0} /\ Head(bus) = bus[1]
        /\ Len(bus') = Len(bus) - 1
        /\ \A i \in 1 .. Len(bus') : bus'[i] = bus[i + 1]
    BY <1>6 DEF OnBusMessage
  <2>2. /\ baseTime' = IF Head(bus) = "playing" THEN session ELSE NoTime
        /\ UNCHANGED <<state, session, settled>>
    BY <1>6 DEF OnBusMessage
  <2>3. FreshSessionsUseOwnBase'
    BY <2>2
  <2>4. ASSUME settled, state # "PLAYING"
        PROVE  baseTime' = NoTime /\ \A i \in 1 .. Len(bus') : bus'[i] = "other"
    <3>1. \A i \in 1 .. Len(bus) : bus[i] = "other"
      BY <2>4
    <3>2. bus[1] = "other"
      BY <2>1, <3>1
    <3> QED  BY <2>1, <2>2, <3>1, <3>2
  <2> QED  BY <2>1, <2>2, <2>3, <2>4
<1> QED  BY <1>1, <1>2, <1>3, <1>4, <1>5, <1>6 DEF Pipeline

(* After a stop() and until a state is lost, capture times are derived     *)
(* with the base time of the running session or not at all.                *)
THEOREM OwnBaseTime == FramesSpec => []FreshSessionsUseOwnBase
<1>1. FramesInit => BaseTimeInv
  BY DEF FramesInit, BaseTimeInv, FreshSessionsUseOwnBase
<1>2. BaseTimeInv /\ [FramesNext]_allVars => BaseTimeInv'
  <2> SUFFICES ASSUME BaseTimeInv, [FramesNext]_allVars PROVE BaseTimeInv'
    OBVIOUS
  <2>1. CASE Pipeline
    BY <2>1, PipelineKeepsBaseTime
  <2>2. CASE UNCHANGED sessionVars
    BY <2>2 DEF BaseTimeInv, FreshSessionsUseOwnBase, sessionVars
  <2> QED  BY <2>1, <2>2, StreamingKeepsSession DEF FramesNext, allVars
<1>3. BaseTimeInv => FreshSessionsUseOwnBase
  BY DEF BaseTimeInv
<1> QED  BY <1>1, <1>2, <1>3, PTL DEF FramesSpec

-----------------------------------------------------------------------------
(* The statistics of an output.                                            *)

(* What a further buffer of a frame relies on: the frame of the last       *)
(* buffer is the one being sent, its processing time is there unless it    *)
(* has none yet or no ingress time, and the last sent time is its own.     *)
StatsInv ==
  /\ procTimes \in Seq(Nat) /\ sentTimes \in Seq(Nat)
  /\ frame.number \in Nat /\ packets \in Nat
  /\ frame = [number  |-> frame.number, capture |-> frame.capture,
              ingress |-> frame.ingress]
  /\ encoder \in Seq(Nat) /\ arrived \in Nat
  /\ ProcessingTimeIsOfLastFrame
  /\ isNew \in BOOLEAN
  /\ isNew => procTimes = <<>>
  /\ ~isNew /\ frameIngress # NoTime => procTimes # <<>>
  /\ strayWrite = FALSE
  /\ sentTimes # <<>> => sentTimes[Len(sentTimes)] = lastPts
  /\ outputAt # "idle" /\ packets > 0 => lastPts = frame.number

(* The last value of a queue that was appended to.                         *)
LEMMA AppendFacts ==
  ASSUME NEW q \in Seq(Nat), NEW v \in Nat
  PROVE  /\ Append(q, v) \in Seq(Nat)
         /\ Len(Append(q, v)) = Len(q) + 1 /\ Len(q) \in Nat
         /\ Append(q, v)[Len(q) + 1] = v
         /\ Append(q, v) # <<>>
         /\ q = <<>> => Append(q, v) = <<v>>
<1>1. /\ Append(q, v) \in Seq(Nat)
      /\ Len(Append(q, v)) = Len(q) + 1 /\ Len(q) \in Nat
      /\ Append(q, v)[Len(q) + 1] = v
  OBVIOUS
<1>2. Append(q, v) # <<>>
  BY <1>1
<1>3. q = <<>> => Append(q, v) = <<v>>
  OBVIOUS
<1> QED  BY <1>1, <1>2, <1>3

(* What is left of a queue without its first value.                        *)
LEMMA TailFacts ==
  ASSUME NEW q \in Seq(Nat), q # <<>>
  PROVE  /\ Head(q) \in Nat /\ Len(q) \in Nat \ {0}
         /\ Tail(q) \in Seq(Nat)
         /\ Tail(q) # <<>> => Tail(q)[Len(Tail(q))] = q[Len(q)]
<1>1. Len(q) \in Nat \ {0} /\ Head(q) = q[1] /\ Head(q) \in Nat
  OBVIOUS
<1>2. /\ Tail(q) \in Seq(Nat)
      /\ Len(Tail(q)) = Len(q) - 1
      /\ \A i \in 1 .. Len(Tail(q)) : Tail(q)[i] = q[i + 1]
  OBVIOUS
<1>3. Tail(q) # <<>> => Len(Tail(q)) \in 1 .. Len(Tail(q))
  BY <1>2
<1> QED  BY <1>1, <1>2, <1>3

(* What push and an assignment to the last value leave.                    *)
LEMMA PushedFacts ==
  ASSUME NEW q \in Seq(Nat), NEW v \in Nat, NEW n \in Nat \ {0}
  PROVE  /\ Pushed(q, v, n) \in Seq(Nat)
         /\ Pushed(q, v, n) # <<>>
         /\ Pushed(q, v, n)[Len(Pushed(q, v, n))] = v
         /\ q = <<>> => Pushed(q, v, n) = <<v>>
<1>1. CASE Len(q) = n
  <2>1. q # <<>> /\ Tail(q) \in Seq(Nat)
    BY <1>1
  <2>2. Pushed(q, v, n) = Append(Tail(q), v)
    BY <1>1 DEF Pushed
  <2> DEFINE t == Tail(q)
  <2>3. t \in Seq(Nat) /\ Pushed(q, v, n) = Append(t, v)
    BY <2>1, <2>2
  <2> HIDE DEF t
  <2> QED  BY <2>1, <2>3, AppendFacts
<1>2. CASE Len(q) # n
  <2>1. Pushed(q, v, n) = Append(q, v)
    BY <1>2 DEF Pushed
  <2> QED  BY <2>1, AppendFacts
<1> QED  BY <1>1, <1>2

(* back() = time writes the last element and keeps the length.             *)
LEMMA OverwrittenFacts ==
  ASSUME NEW q \in Seq(Nat), NEW v \in Nat
  PROVE  /\ Overwritten(q, v) \in Seq(Nat)
         /\ Len(Overwritten(q, v)) = Len(q)
         /\ q # <<>> => Overwritten(q, v)[Len(q)] = v
<1>1. CASE q = <<>>
  BY <1>1 DEF Overwritten
<1>2. CASE q # <<>>
  <2>1. Overwritten(q, v) = [q EXCEPT ![Len(q)] = v] /\ Len(q) \in 1 .. Len(q)
    BY <1>2 DEF Overwritten
  <2> QED  BY <2>1
<1> QED  BY <1>1, <1>2

(* The core of the argument: what reportBufferSent leaves.                 *)
LEMMA ReportKeepsStats ==
  ASSUME StatsInv, ReportBufferSent
  PROVE  StatsInv'
<1> DEFINE time  == IF NewFrame THEN frame.ingress ELSE frameIngress
           fresh == NewFrame \/ isNew
<1>1. /\ outputAt = "send" /\ UNCHANGED <<outputAt, frame>>
      /\ packets' = packets + 1
      /\ lastPts' = frame.number
      /\ frameIngress' = time
      /\ isNew' = (fresh /\ time = NoTime)
      /\ UNCHANGED <<encoder, arrived>>
  BY DEF ReportBufferSent, sourceVars
<1>2. procTimes' = IF time = NoTime THEN OldTimes
                   ELSE IF fresh THEN Pushed(OldTimes, frame.number, OutputSize)
                                 ELSE Overwritten(OldTimes, frame.number)
  BY DEF ReportBufferSent
<1>3. /\ sentTimes' = IF BeginsEntry
                      THEN Pushed(sentTimes, frame.number, OutputSize)
                      ELSE Overwritten(sentTimes, frame.number)
      /\ strayWrite' = \/ strayWrite
                       \/ time # NoTime /\ ~fresh /\ OldTimes = <<>>
                       \/ ~BeginsEntry /\ sentTimes = <<>>
  BY DEF ReportBufferSent
<1>4. /\ procTimes \in Seq(Nat) /\ sentTimes \in Seq(Nat)
      /\ frame.number \in Nat /\ OutputSize \in Nat \ {0}
      /\ Len(procTimes) <= 1 /\ Len(procTimes) \in Nat
      /\ \A i \in 1 .. Len(procTimes) : procTimes[i] = lastPts
  BY EncoderFits DEF StatsInv, ProcessingTimeIsOfLastFrame
<1>5. /\ OldTimes \in Seq(Nat) /\ Len(OldTimes) <= 1 /\ Len(OldTimes) \in Nat
      /\ fresh => OldTimes = <<>>
      /\ \A i \in 1 .. Len(OldTimes) : OldTimes[i] = frame.number
  <2>1. CASE NewFrame
    <3>1. OldTimes = <<>>
      BY <1>4, <2>1 DEF OldTimes, Popped
    <3> QED  BY <3>1
  <2>2. CASE ~NewFrame
    <3>1. OldTimes = procTimes /\ lastPts = frame.number
      BY <2>2 DEF OldTimes, NewFrame
    <3> QED  BY <1>4, <2>2, <3>1 DEF StatsInv
  <2> QED  BY <2>1, <2>2
<1>6. ~fresh /\ time # NoTime => OldTimes # <<>>
  BY DEF StatsInv, OldTimes, NewFrame
<1> HIDE DEF time, fresh
<1>7. /\ procTimes' \in Seq(Nat)
      /\ Len(procTimes') <= 1
      /\ \A i \in 1 .. Len(procTimes') : procTimes'[i] = frame.number
      /\ fresh /\ time = NoTime => procTimes' = <<>>
      /\ time # NoTime => procTimes' # <<>>
  <2>1. CASE time = NoTime
    BY <1>2, <1>5, <2>1
  <2>2. CASE time # NoTime /\ fresh
    <3>1. procTimes' = Pushed(OldTimes, frame.number, OutputSize)
      BY <1>2, <2>2
    <3>2. OldTimes = <<>> /\ <<>> \in Seq(Nat)
      BY <1>5, <2>2
    <3>3. Pushed(<<>>, frame.number, OutputSize) = <<frame.number>>
      BY <1>4, <3>2, PushedFacts
    <3>4. procTimes' = <<frame.number>>
      BY <3>1, <3>2, <3>3
    <3> QED  BY <1>4, <2>2, <3>4
  <2>3. CASE time # NoTime /\ ~fresh
    <3>1. procTimes' = Overwritten(OldTimes, frame.number)
      BY <1>2, <2>3
    <3>2. OldTimes # <<>> /\ Len(OldTimes) = 1
      <4>1. OldTimes # <<>>
        BY <1>6, <2>3
      <4>2. Len(OldTimes) \in Nat \ {0}
        BY <1>5, <4>1, TailFacts
      <4>3. Len(OldTimes) <= 1
        BY <1>5
      <4>4. Len(OldTimes) = 1
        BY <4>2, <4>3
      <4> QED  BY <4>1, <4>4
    <3>3. /\ procTimes' \in Seq(Nat) /\ Len(procTimes') = Len(OldTimes)
          /\ procTimes'[Len(OldTimes)] = frame.number
      BY <1>4, <1>5, <3>1, <3>2, OverwrittenFacts
    <3> QED  BY <2>3, <3>2, <3>3
  <2> QED  BY <2>1, <2>2, <2>3
<1>8. /\ sentTimes' \in Seq(Nat)
      /\ sentTimes' # <<>> => sentTimes'[Len(sentTimes')] = frame.number
  <2>1. CASE BeginsEntry
    BY <1>3, <1>4, <2>1, PushedFacts
  <2>2. CASE ~BeginsEntry
    <3>1. sentTimes # <<>> /\ sentTimes' = Overwritten(sentTimes, frame.number)
      BY <1>3, <2>2 DEF BeginsEntry
    <3> QED  BY <1>4, <3>1, OverwrittenFacts
  <2> QED  BY <2>1, <2>2
<1>9. strayWrite' = FALSE
  BY <1>3, <1>6 DEF StatsInv, BeginsEntry
<1>10. ProcessingTimeIsOfLastFrame'
  BY <1>1, <1>7 DEF ProcessingTimeIsOfLastFrame
<1>11. isNew' \in BOOLEAN
  BY <1>1
<1>12. isNew' => procTimes' = <<>>
  BY <1>1, <1>7
<1>13. ~isNew' /\ frameIngress' # NoTime => procTimes' # <<>>
  BY <1>1, <1>7 DEF NoTime
<1>14. /\ frame'.number \in Nat /\ packets' \in Nat
       /\ frame' = [number  |-> frame'.number, capture |-> frame'.capture,
                    ingress |-> frame'.ingress]
       /\ encoder' \in Seq(Nat) /\ arrived' \in Nat
  BY <1>1 DEF StatsInv
<1>15. /\ sentTimes' # <<>> => sentTimes'[Len(sentTimes')] = lastPts'
       /\ outputAt' # "idle" /\ packets' > 0 => lastPts' = frame'.number
  BY <1>1, <1>8
<1> QED
  BY <1>7, <1>8, <1>9, <1>10, <1>11, <1>12, <1>13, <1>14, <1>15 DEF StatsInv

(* Another step of the streaming threads leaves the statistics alone and   *)
(* sends no buffer; it takes a frame with none sent, or adds to its metas. *)
LEMMA StreamingKeepsStats ==
  ASSUME StatsInv, FramesNext, ~ReportBufferSent, ~PruneSentTimes
  PROVE  StatsInv'
<1>1. UNCHANGED statsVars
  BY DEF FramesNext, Pipeline, Stop, Start, StartFails, ReachPlaying, LoseState,
         OnBusMessage, frameVars, Source, SinkStep, SinkWrite, SinkCheck,
         SinkEvict, SinkAdvance, SinkMark, SinkIngress, EnterEncoder, LoseFrame,
         Output, SrcStep, SrcTake, SrcTest, SrcFront, SrcCheck, SrcUnmark,
         SrcAdvance, SrcPair, FrameDone
<1>3. CASE Source
  <2>1. UNCHANGED senderVars
    BY <1>3 DEF Source, SinkStep, SinkWrite, SinkCheck, SinkEvict,
                SinkAdvance, SinkMark, SinkIngress, EnterEncoder
  <2>2. arrived' \in Nat
    <3>1. arrived' = arrived \/ arrived' = arrived + 1
      BY <1>3 DEF Source, SinkWrite, SinkCheck, SinkEvict, SinkAdvance,
                  SinkMark, SinkIngress, EnterEncoder
    <3>2. arrived \in Nat
      BY DEF StatsInv
    <3> QED  BY <3>1, <3>2
  <2>3. encoder' = encoder \/ encoder' = Append(encoder, arrived)
    BY <1>3 DEF Source, SinkWrite, SinkCheck, SinkEvict, SinkAdvance,
                SinkMark, SinkIngress, EnterEncoder
  <2>4. encoder' \in Seq(Nat)
    BY <2>3, AppendFacts DEF StatsInv
  <2> QED
    BY <1>1, <2>1, <2>2, <2>4
       DEF StatsInv, statsVars, senderVars, ProcessingTimeIsOfLastFrame
<1>4. CASE Pipeline \/ LoseFrame
  <2>1. UNCHANGED <<senderVars, arrived>>
    BY <1>4 DEF Pipeline, Stop, Start, StartFails, ReachPlaying, LoseState,
                OnBusMessage, frameVars, sourceVars, LoseFrame
  <2>2. \/ encoder' = encoder \/ encoder' = <<>>
        \/ encoder # <<>> /\ encoder' = Tail(encoder)
    BY <1>4 DEF Pipeline, Stop, Start, StartFails, ReachPlaying, LoseState,
                OnBusMessage, GoToNull, frameVars, LoseFrame
  <2>3. encoder' \in Seq(Nat)
    <3>1. encoder \in Seq(Nat) /\ <<>> \in Seq(Nat)
      BY DEF StatsInv
    <3> QED  BY <2>2, <3>1, TailFacts
  <2> QED
    BY <1>1, <2>1, <2>3
       DEF StatsInv, statsVars, senderVars, ProcessingTimeIsOfLastFrame
<1>5. CASE Output
  <2>1. /\ encoder' \in Seq(Nat) /\ arrived' = arrived
        /\ frame'.number \in Nat /\ packets' \in Nat
        /\ frame' = [number  |-> frame'.number, capture |-> frame'.capture,
                     ingress |-> frame'.ingress]
        /\ outputAt' # "idle" /\ packets' > 0 => lastPts = frame'.number
    <3>1. CASE SrcTake
      <4>1. encoder # <<>> /\ encoder' = Tail(encoder) /\ packets' = 0
            /\ arrived' = arrived
        BY <3>1 DEF SrcTake, SrcStep, sourceVars
      <4>2. Head(encoder) \in Nat /\ encoder' \in Seq(Nat)
        BY <4>1, TailFacts DEF StatsInv
      <4> QED  BY <3>1, <4>1, <4>2 DEF SrcTake
    <3>2. CASE SrcFront
      BY <3>2 DEF SrcFront, SrcStep, sourceVars, StatsInv
    <3>3. CASE SrcPair
      BY <3>3 DEF SrcPair, SrcStep, sourceVars, StatsInv
    <3>4. CASE SrcTest \/ SrcCheck \/ SrcUnmark \/ SrcAdvance \/ FrameDone
      BY <3>4 DEF SrcTest, SrcCheck, SrcUnmark, SrcAdvance, FrameDone, SrcStep,
                  sourceVars, StatsInv
    <3> QED  BY <1>5, <3>1, <3>2, <3>3, <3>4 DEF Output
  <2> QED
    BY <1>1, <2>1 DEF StatsInv, statsVars, ProcessingTimeIsOfLastFrame
<1> QED
  BY <1>3, <1>4, <1>5 DEF FramesNext

(* Reading the statistics takes away old sent times only.                  *)
LEMMA PruneKeepsStats ==
  ASSUME StatsInv, PruneSentTimes
  PROVE  StatsInv'
<1>1. /\ sentTimes' \in Seq(Nat)
      /\ sentTimes' # <<>> =>
           sentTimes'[Len(sentTimes')] = sentTimes[Len(sentTimes)]
  BY TailFacts DEF PruneSentTimes, StatsInv
<1>2. /\ sentTimes # <<>>
      /\ UNCHANGED <<lastPts, isNew, frameIngress, procTimes, strayWrite,
                     encoder, arrived, outputAt, frame, packets>>
  BY DEF PruneSentTimes, senderVars, sourceVars
<1> QED
  BY <1>1, <1>2 DEF StatsInv, ProcessingTimeIsOfLastFrame

(* The statistics are sound in every reachable state.                      *)
THEOREM StatisticsInvariant == FramesSpec => []StatsInv
<1>1. FramesInit => StatsInv
  <2> SUFFICES ASSUME FramesInit PROVE StatsInv
    OBVIOUS
  <2>1. /\ procTimes = <<>> /\ sentTimes = <<>> /\ encoder = <<>>
        /\ isNew = FALSE /\ strayWrite = FALSE /\ outputAt = "idle"
        /\ packets = 0 /\ arrived = 0 /\ frameIngress = NoTime
        /\ frame = [number |-> 0, capture |-> 0, ingress |-> 0]
    BY DEF FramesInit, NoTime
  <2>2. <<>> \in Seq(Nat) /\ Len(<<>>) = 0
    OBVIOUS
  <2>3. /\ frame.number \in Nat
        /\ frame = [number  |-> frame.number, capture |-> frame.capture,
                    ingress |-> frame.ingress]
    BY <2>1
  <2>4. ProcessingTimeIsOfLastFrame
    BY <2>1, <2>2 DEF ProcessingTimeIsOfLastFrame
  <2> QED  BY <2>1, <2>2, <2>3, <2>4 DEF StatsInv
<1>2. StatsInv /\ [FramesNext]_allVars => StatsInv'
  <2> SUFFICES ASSUME StatsInv, [FramesNext]_allVars PROVE StatsInv'
    OBVIOUS
  <2>1. CASE UNCHANGED allVars
    BY <2>1 DEF allVars, frameVars, sourceVars, senderVars, statsVars, StatsInv,
                ProcessingTimeIsOfLastFrame
  <2> QED
    BY <2>1, ReportKeepsStats, PruneKeepsStats, StreamingKeepsStats
<1> QED  BY <1>1, <1>2, PTL DEF FramesSpec

(* The processing time an output reports is of the last frame it has sent. *)
THEOREM ProcessingTimeOfLastFrame == FramesSpec => []ProcessingTimeIsOfLastFrame
<1>1. StatsInv => ProcessingTimeIsOfLastFrame
  BY DEF StatsInv
<1> QED  BY <1>1, StatisticsInvariant, PTL

(* A further buffer of a frame finds the entries its first one has made.   *)
THEOREM CorrectionsSafe == FramesSpec => []CorrectionsFindTheirFrame
<1>1. StatsInv => CorrectionsFindTheirFrame
  BY DEF StatsInv, CorrectionsFindTheirFrame
<1> QED  BY <1>1, StatisticsInvariant, PTL

-----------------------------------------------------------------------------
(* The ring buffer, of any capacity.                                       *)

(* The flag tells full from empty only when the two indices meet.          *)
IInv == TypeOK /\ (full => head = tail)

(* An index wraps to 0 at the end of the array.                            *)
LEMMA Wrap ==
  ASSUME NEW i \in Indices
  PROVE  (i + 1) % Size = IF i + 1 = Size THEN 0 ELSE i + 1
<1>1. CASE i + 1 = Size
  <2>1. Size % Size = 0  BY SizeAssumption
  <2> QED  BY <1>1, <2>1
<1>2. CASE i + 1 # Size
  <2>1. i + 1 \in 0 .. Size - 1  BY <1>2, SizeAssumption DEF Indices
  <2> QED  BY <1>2, <2>1, SizeAssumption
<1> QED  BY <1>1, <1>2

(* Where the i-th oldest value is.                                         *)
Slot(i) == IF tail + i >= Size THEN tail + i - Size ELSE tail + i

(* The contents are a sequence of Count values, at most Size.              *)
ContentsOK ==
  /\ Count \in 0 .. Size
  /\ Contents \in Seq(Values)
  /\ Len(Contents) = Count
  /\ \A i \in 1 .. Count :
       /\ Slot(i - 1) \in Indices
       /\ Contents[i] = buffer[Slot(i - 1)]

(* The contents of the ring, as a sequence.                                *)
LEMMA ContentsType == IInv => ContentsOK
<1> SUFFICES ASSUME IInv PROVE ContentsOK
  OBVIOUS
<1>1. Count \in 0 .. Size
  BY SizeAssumption DEF IInv, TypeOK, Count, Indices
<1>2. \A i \in 1 .. Count :
        /\ Slot(i - 1) \in Indices
        /\ Contents[i] = buffer[Slot(i - 1)]
        /\ Contents[i] \in Values
  BY <1>1, SizeAssumption DEF IInv, TypeOK, Contents, At, Slot, Indices
<1>3. Contents \in [1 .. Count -> Values]
  BY <1>2 DEF Contents
<1>4. Contents \in Seq(Values)
  BY <1>1, <1>3, SeqDef
<1>5. Len(Contents) = Count
  BY <1>1, <1>3, <1>4, LenProperties
<1> QED  BY <1>1, <1>2, <1>4, <1>5 DEF ContentsOK

(* The slots of two different positions differ.                            *)
LEMMA SlotsDiffer ==
  ASSUME IInv, NEW i \in 0 .. Size - 1, NEW j \in 0 .. Size - 1, i # j
  PROVE  Slot(i) # Slot(j)
  BY SizeAssumption DEF IInv, TypeOK, Slot, Indices

(* The next value is written right behind the newest.                      *)
LEMMA HeadSlot ==
  ASSUME IInv
  PROVE  head = IF full THEN Slot(0) ELSE Slot(Count)
  BY SizeAssumption DEF IInv, TypeOK, Slot, Count, Indices

(* An empty buffer starts at index 0.                                      *)
LEMMA InitInv == Init => IInv
<1> SUFFICES ASSUME Init PROVE IInv
  OBVIOUS
<1>1. buffer \in [Indices -> Values] /\ head \in Indices /\ tail \in Indices
  BY SizeAssumption DEF Init, Indices
<1>2. full \in BOOLEAN /\ ~full
  BY Zenon DEF Init
<1> QED  BY <1>1, <1>2 DEF IInv, TypeOK

(* No operation leaves the array.                                          *)
LEMMA NextInv == IInv /\ [Next]_vars => IInv'
<1> SUFFICES ASSUME IInv, [Next]_vars PROVE IInv'
  OBVIOUS
<1>1. \A i \in Indices : (i + 1) % Size \in Indices
  BY Wrap, SizeAssumption DEF Indices
<1>2. ASSUME NEW v \in Values, Push(v) PROVE IInv'
  BY <1>1, <1>2 DEF IInv, TypeOK, Push
<1>3. CASE PopFront
  BY <1>1, <1>3 DEF IInv, TypeOK, PopFront
<1>4. CASE Clear
  <2>1. /\ buffer' \in [Indices -> Values]
        /\ head' \in Indices /\ tail' \in Indices
    BY <1>4, SizeAssumption DEF IInv, TypeOK, Clear, Indices
  <2>2. full' \in BOOLEAN /\ ~full'
    BY <1>4, Zenon DEF Clear
  <2> QED  BY <2>1, <2>2 DEF IInv, TypeOK
<1>5. CASE UNCHANGED vars
  BY <1>5 DEF IInv, TypeOK, vars
<1> QED  BY <1>2, <1>3, <1>4, <1>5 DEF Next

(* A push appends, after dropping the oldest value of a full buffer.       *)
LEMMA PushAppends ==
  ASSUME IInv, IInv', NEW v \in Values, Push(v)
  PROVE  Queue!Push(v)
<1>1. /\ head \in Indices /\ tail \in Indices
      /\ buffer \in [Indices -> Values]
      /\ buffer' = [buffer EXCEPT ![head] = v]
      /\ head' = IF head + 1 = Size THEN 0 ELSE head + 1
      /\ tail' = IF ~full THEN tail ELSE IF tail + 1 = Size THEN 0 ELSE tail + 1
      /\ full' = (head' = tail')
  BY Wrap DEF IInv, TypeOK, Push
<1>2. /\ Count' \in 0 .. Size
      /\ Contents' \in Seq(Values)
      /\ Len(Contents') = Count'
      /\ \A i \in 1 .. Count' :
           /\ Slot(i - 1)' \in Indices
           /\ Contents'[i] = buffer'[Slot(i - 1)']
  <2>1. ContentsOK'  BY ContentsType, PTL
  <2> QED  BY <2>1 DEF ContentsOK
<1>3. CASE full
  <2> DEFINE rest == Tail(Contents)
  <2>1. Count = Size /\ Count' = Size /\ head = tail
    BY <1>1, <1>3, SizeAssumption DEF IInv, TypeOK, Count, Indices
  <2>2. Contents # <<>> /\ Contents \in Seq(Values) /\ Len(Contents) = Size
    BY <2>1, ContentsType, SizeAssumption, EmptySeq DEF ContentsOK
  <2>3. /\ rest \in Seq(Values) /\ Len(rest) = Size - 1
        /\ \A i \in 1 .. Size - 1 : rest[i] = Contents[i + 1]
    BY <2>2, HeadTailProperties
  <2>4. /\ Append(rest, v) \in Seq(Values)
        /\ Len(Append(rest, v)) = Size
        /\ Append(rest, v)[Size] = v
        /\ \A i \in 1 .. Size - 1 : Append(rest, v)[i] = rest[i]
    BY <2>3, SizeAssumption
  <2>5. Contents'[Size] = v
    <3>1. Slot(Size - 1)' = head
      BY <1>1, <1>3, <2>1, SizeAssumption DEF Slot, Indices
    <3>2. Contents'[Size] = buffer'[Slot(Size - 1)']
      BY <1>2, <2>1, SizeAssumption
    <3> QED  BY <1>1, <3>1, <3>2
  <2>6. ASSUME NEW i \in 1 .. Size - 1
        PROVE  Contents'[i] = rest[i]
    <3>1. Slot(i - 1)' = Slot(i)
      BY <1>1, <1>3, SizeAssumption DEF Slot, Indices
    <3>2. Slot(i) # head
      BY <2>1, HeadSlot, SlotsDiffer, SizeAssumption, <1>3
    <3>3. Contents'[i] = buffer'[Slot(i)] /\ Slot(i) \in Indices
      BY <1>2, <2>1, <3>1
    <3>4. rest[i] = buffer[Slot(i)]
      BY <2>1, <2>3, ContentsType DEF ContentsOK
    <3> QED  BY <1>1, <3>2, <3>3, <3>4
  <2>7. Contents' = Append(rest, v)
    BY <1>2, <2>1, <2>4, <2>5, <2>6, SeqEqual, SizeAssumption
  <2> QED  BY <2>2, <2>7 DEF Queue!Push
<1>4. CASE ~full
  <2>1. Count \in 0 .. Size - 1 /\ Count' = Count + 1
    <3>1. Count = IF head >= tail THEN head - tail ELSE Size + head - tail
      BY <1>4 DEF Count
    <3>2. CASE head' = tail
      <4>1. Count' = Size
        BY <1>1, <1>4, <3>2 DEF Count
      <4> QED  BY <1>1, <3>1, <3>2, <4>1, SizeAssumption DEF Indices
    <3>3. CASE head' # tail
      <4>1. Count' = IF head' >= tail THEN head' - tail ELSE Size + head' - tail
        BY <1>1, <1>4, <3>3 DEF Count
      <4> QED  BY <1>1, <3>1, <3>3, <4>1, SizeAssumption DEF Indices
    <3> QED  BY <3>2, <3>3
  <2>2. Contents \in Seq(Values) /\ Len(Contents) = Count
    BY ContentsType DEF ContentsOK
  <2>3. /\ Append(Contents, v) \in Seq(Values)
        /\ Len(Append(Contents, v)) = Count + 1
        /\ Append(Contents, v)[Count + 1] = v
        /\ \A i \in 1 .. Count : Append(Contents, v)[i] = Contents[i]
    BY <2>1, <2>2
  <2>4. \A i \in Int : Slot(i)' = Slot(i)
    BY <1>1, <1>4 DEF Slot
  <2>5. Contents'[Count + 1] = v
    <3>1. Contents'[Count + 1] = buffer'[Slot(Count)]
      BY <1>2, <2>1, <2>4
    <3> QED  BY <1>1, <1>4, <3>1, HeadSlot
  <2>6. ASSUME NEW i \in 1 .. Count
        PROVE  Contents'[i] = Contents[i]
    <3>1. Slot(i - 1) # head
      BY <1>4, <2>1, HeadSlot, SlotsDiffer, SizeAssumption
    <3>2. Contents'[i] = buffer'[Slot(i - 1)] /\ Slot(i - 1) \in Indices
      BY <1>2, <2>1, <2>4
    <3> QED  BY <1>1, <3>1, <3>2, ContentsType DEF ContentsOK
  <2>7. Contents' = Append(Contents, v)
    BY <1>2, <2>1, <2>3, <2>5, <2>6, SeqEqual
  <2> QED  BY <2>1, <2>2, <2>7, SizeAssumption DEF Queue!Push
<1> QED  BY <1>3, <1>4

(* A pop drops the oldest value.                                           *)
LEMMA PopDropsOldest ==
  ASSUME IInv, IInv', PopFront
  PROVE  Queue!PopFront
<1>1. /\ head \in Indices /\ tail \in Indices /\ full \in BOOLEAN
      /\ buffer' = buffer /\ head' = head /\ full' = FALSE
      /\ tail' = IF tail + 1 = Size THEN 0 ELSE tail + 1
      /\ full \/ head # tail
  BY Wrap DEF IInv, TypeOK, PopFront, Empty
<1>2. /\ Contents' \in Seq(Values)
      /\ Len(Contents') = Count'
      /\ \A i \in 1 .. Count' : Contents'[i] = buffer'[Slot(i - 1)']
  <2>1. ContentsOK'  BY ContentsType, PTL
  <2> QED  BY <2>1 DEF ContentsOK
<1>3. Count \in 1 .. Size /\ Count' = Count - 1
  BY <1>1, SizeAssumption DEF IInv, Count, Indices
<1>4. Contents # <<>> /\ Contents \in Seq(Values) /\ Len(Contents) = Count
  BY <1>3, ContentsType, EmptySeq DEF ContentsOK
<1>5. /\ Tail(Contents) \in Seq(Values) /\ Len(Tail(Contents)) = Count - 1
      /\ \A i \in 1 .. Count - 1 : Tail(Contents)[i] = Contents[i + 1]
  BY <1>4, HeadTailProperties
<1>6. ASSUME NEW i \in 1 .. Count - 1
      PROVE  Contents'[i] = Contents[i + 1]
  <2>1. Slot(i - 1)' = Slot(i)
    BY <1>1, <1>3, SizeAssumption DEF Slot, Indices
  <2> QED  BY <1>1, <1>2, <1>3, <2>1, ContentsType DEF ContentsOK
<1>7. Contents' = Tail(Contents)
  BY <1>2, <1>3, <1>5, <1>6, SeqEqual
<1> QED  BY <1>4, <1>7 DEF Queue!PopFront

(* The ring buffer, of any capacity and over any values, is a bounded      *)
(* queue: pushes, pops and clears change its contents as they change a     *)
(* queue that forgets its oldest value when it is full.                    *)
THEOREM ImplementsBoundedQueue == Spec => IsBoundedQueue
<1>1. Init => IInv
  BY InitInv
<1>2. Init => Queue!Init
  <2> SUFFICES ASSUME Init PROVE Contents = <<>>
    BY DEF Queue!Init
  <2>1. IInv /\ Count = 0
    BY <1>1 DEF Init, Count
  <2> QED  BY <2>1, ContentsType, EmptySeq DEF ContentsOK
<1>3. IInv /\ IInv' /\ [Next]_vars => [Queue!Next]_Contents
  <2> SUFFICES ASSUME IInv, IInv', [Next]_vars PROVE [Queue!Next]_Contents
    OBVIOUS
  <2>1. ASSUME NEW v \in Values, Push(v) PROVE Queue!Next
    BY <2>1, PushAppends DEF Queue!Next
  <2>2. CASE PopFront
    BY <2>2, PopDropsOldest DEF Queue!Next
  <2>3. CASE Clear
    <3>1. Count' = 0
      BY <2>3 DEF Clear, Count
    <3>2. Contents' = <<>>
      BY <3>1 DEF Contents
    <3> QED  BY <3>2 DEF Queue!Next, Queue!Clear
  <2>4. CASE UNCHANGED vars
    BY <2>4 DEF vars, Contents, Count, At
  <2> QED  BY <2>1, <2>2, <2>3, <2>4 DEF Next
<1> QED
  BY <1>1, <1>2, <1>3, NextInv, PTL DEF Spec, Queue!Spec, IsBoundedQueue

(* The indices stay in the array.                                          *)
THEOREM TypeCorrect == Spec => []TypeOK
<1>1. Init => IInv
  BY InitInv
<1>2. IInv => TypeOK
  BY DEF IInv
<1> QED  BY <1>1, <1>2, NextInv, PTL DEF Spec

(* A full buffer is never taken for an empty one, and front() and back()   *)
(* are the oldest and the newest value.                                    *)
THEOREM AccessorsCorrect == Spec => []AccessorsAgree
<1>1. Init => IInv
  BY InitInv
<1>2. IInv => AccessorsAgree
  <2> SUFFICES ASSUME IInv PROVE AccessorsAgree
    OBVIOUS
  <2>1. Empty <=> Count = 0
    BY SizeAssumption DEF IInv, TypeOK, Empty, Count, Indices
  <2>2. Empty <=> Contents = <<>>
    BY <2>1, ContentsType, EmptySeq DEF ContentsOK
  <2>3. ASSUME ~Empty PROVE Front = Contents[1]
    <3>1. Contents[1] = buffer[Slot(0)]
      BY <2>1, <2>3, ContentsType DEF ContentsOK
    <3> QED
      BY <3>1, SizeAssumption DEF Front, Slot, IInv, TypeOK, Indices
  <2>4. ASSUME ~Empty PROVE Back = Contents[Count]
    <3>1. Contents[Count] = buffer[Slot(Count - 1)]
      BY <2>1, <2>4, ContentsType DEF ContentsOK
    <3>2. Slot(Count - 1) = IF head - 1 < 0 THEN head - 1 + Size ELSE head - 1
      BY <2>4, SizeAssumption DEF Slot, Count, Empty, IInv, TypeOK, Indices
    <3> QED  BY <3>1, <3>2 DEF Back
  <2> QED  BY <2>2, <2>3, <2>4 DEF AccessorsAgree
<1> QED  BY <1>1, <1>2, NextInv, PTL DEF Spec

-----------------------------------------------------------------------------
(* The times of the frames between the two probes.                         *)

(* The index behind another one.                                           *)
After(i) == IF i + 1 = Size THEN 0 ELSE i + 1

(* The frames between the two probes that have been stamped: that of the   *)
(* source's thread and those in the encoder.                               *)
InHand == IF sourceAt = "idle" THEN 0 ELSE 1
Coming == InHand + Len(encoder)

(* The frame of the output's thread, while its time is still in the ring.  *)
AtRing == IF outputAt \in {"test", "front", "check", "unmark", "advance"}
          THEN 1 ELSE 0

(* How many times the ring holds, and where.                               *)
Num == IF Occupied > Size THEN Size ELSE Occupied
Place(i) ==
  IF Newest - Num + i < 0 THEN Newest - Num + i + Size ELSE Newest - Num + i

HeldOK ==
  /\ Num \in 0 .. Size /\ Newest \in Indices
  /\ Newest = IF sourceAt \in Unmoved THEN head
              ELSE IF head = 0 THEN Size - 1 ELSE head - 1
  /\ Held \in Seq(Values) /\ Len(Held) = Num
  /\ \A i \in 1 .. Num : Place(i) \in Indices /\ Held[i] = buffer[Place(i)]

(* An index is reduced by at most one round.                               *)
OneRound(a) == a % Size = IF a >= Size THEN a - Size ELSE a

(* It is if it is less than two rounds.                                    *)
LEMMA Remainder ==
  ASSUME NEW a \in 0 .. 2 * Size - 1
  PROVE  OneRound(a)
<1> USE DEF OneRound
<1>1. Size \in Nat \ {0}
  BY SizeAssumption
<1>2. CASE a < Size
  BY <1>1, <1>2
<1>3. CASE a >= Size
  <2>1. a - Size \in 0 .. Size - 1
    BY <1>1, <1>3
  <2>2. ((a - Size) + Size) % Size = (a - Size) % Size
    BY <1>1, <2>1
  <2> QED  BY <1>1, <1>3, <2>1, <2>2
<1> QED  BY <1>1, <1>2, <1>3

(* What the ring holds, as a sequence.                                     *)
LEMMA HeldType == TypeOK => HeldOK
<1> SUFFICES ASSUME TypeOK PROVE HeldOK
  OBVIOUS
<1>1. /\ Size \in Nat \ {0} /\ head \in 0 .. Size - 1 /\ tail \in 0 .. Size - 1
      /\ full \in BOOLEAN /\ buffer \in [0 .. Size - 1 -> Values]
  BY SizeAssumption DEF TypeOK, Indices
<1>2. Count \in 0 .. Size
  BY <1>1 DEF Count
<1>3. Stored \in 0 .. Size
  BY <1>1, <1>2 DEF Stored
<1>4. Occupied \in 0 .. Size + 1
  BY <1>1, <1>3 DEF Occupied
<1>5. Num \in 0 .. Size
  BY <1>1, <1>4 DEF Num
<1>6. (head + Size - 1) % Size = IF head = 0 THEN Size - 1 ELSE head - 1
  <2>1. head + Size - 1 \in 0 .. 2 * Size - 1
    BY <1>1
  <2>2. OneRound(head + Size - 1)
    BY <2>1, Remainder
  <2> QED  BY <1>1, <2>2 DEF OneRound
<1>7. /\ Newest \in 0 .. Size - 1
      /\ Newest = IF sourceAt \in Unmoved THEN head
                  ELSE IF head = 0 THEN Size - 1 ELSE head - 1
  BY <1>1, <1>6 DEF Newest
<1>8. Held = [i \in 1 .. Num |-> buffer[(Newest + Size - Num + i) % Size]]
  BY Zenon DEF Held, Num
<1>9. ASSUME NEW i \in 1 .. Num
      PROVE  /\ Place(i) \in 0 .. Size - 1
             /\ (Newest + Size - Num + i) % Size = Place(i)
  <2>1. Newest + Size - Num + i \in 0 .. 2 * Size - 1
    BY <1>1, <1>5, <1>7
  <2>2. OneRound(Newest + Size - Num + i)
    BY <2>1, Remainder
  <2> QED  BY <1>1, <1>5, <1>7, <2>2 DEF Place, OneRound
<1>10. \A i \in 1 .. Num : /\ Place(i) \in 0 .. Size - 1
                           /\ Held[i] = buffer[Place(i)] /\ Held[i] \in Values
  <2> SUFFICES ASSUME NEW i \in 1 .. Num
               PROVE  /\ Place(i) \in 0 .. Size - 1
                      /\ Held[i] = buffer[Place(i)] /\ Held[i] \in Values
    OBVIOUS
  <2>1. Held[i] = buffer[(Newest + Size - Num + i) % Size]
    BY <1>8
  <2> QED  BY <1>1, <1>9, <2>1
<1>11. Held \in [1 .. Num -> Values]
  <2>1. DOMAIN Held = 1 .. Num
    BY <1>8
  <2>2. Held = [i \in 1 .. Num |-> Held[i]]
    BY <1>8
  <2> QED  BY <1>10, <2>2
<1>12. Held \in Seq(Values) /\ Len(Held) = Num
  <2>1. Held \in Seq(Values)
    BY <1>5, <1>11, SeqDef
  <2> QED  BY <1>5, <1>11, <2>1, LenProperties
<1> QED  BY <1>5, <1>7, <1>10, <1>12 DEF HeldOK, Indices

(* The variables the invariant is about, in their types.                   *)
FlightTypeOK ==
  /\ TypeOK
  /\ sourceAt \in {"idle", "check", "evict", "advance", "mark", "ingress",
                   "encode"}
  /\ outputAt \in {"idle", "test", "front", "check", "unmark", "advance",
                   "pair", "send"}
  /\ arrived \in 0 .. MaxFrames /\ lost \in Nat /\ untimed \in Nat
  /\ strips \in BOOLEAN
  /\ encoder \in Seq(Frames) /\ ingress \in Seq(Values)
  /\ frame \in [number : Values, capture : Values, ingress : Values]

(* While the probes have not met in a ring without room, the flag tells    *)
(* full from empty where the indices meet, except between the statement    *)
(* that evicts the oldest time and the one that moves head after it.       *)
RingShape ==
  /\ ~Crossing
  /\ full => IF sourceAt = "advance" THEN tail = After(head) ELSE head = tail
  /\ sourceAt = "evict" => full
  /\ outputAt = "advance" => ~full

(* The ring holds the times of the last frames that arrived: of all those  *)
(* between the probes, and of no more than were lost besides.              *)
HeldInv ==
  /\ Coming + AtRing <= Len(Held) /\ Len(Held) <= Coming + AtRing + lost
  /\ AtRing = 1 => arrived - frame.number < Len(Held)
  /\ \A i \in 1 .. Len(Held) : Held[i] = TimeOf(arrived - Len(Held) + i)

(* What it holds depends on three things only.                             *)
LEMMA HeldSame ==
  ASSUME Num' = Num, Newest' = Newest, buffer' = buffer
  PROVE  Held' = Held
<1>1. Held = [i \in 1 .. Num |-> buffer[(Newest + Size - Num + i) % Size]]
  BY Zenon DEF Held, Num
<1>2. Held' = [i \in 1 .. Num' |-> buffer'[(Newest' + Size - Num' + i) % Size]]
  BY Zenon DEF Held, Num
<1> QED  BY <1>1, <1>2

(* A push and a pop at once leave room in the ring; and while the output's *)
(* thread has yet to take a time, the ring is not empty, nor taken for it, *)
(* and front() is the oldest time.                                         *)
RingFacts ==
  /\ Len(Held) = Num /\ Len(Held) \in 0 .. Size
  /\ Stamping /\ Probing => Len(Held) = Occupied /\ Len(Held) < Size
  /\ outputAt \in {"test", "front", "check", "unmark"} =>
       ~Empty /\ Front = Held[1]

(* So it is wherever the invariant holds.                                  *)
LEMMA RingIsHeld ==
  ASSUME FlightTypeOK, RingShape, HeldInv
  PROVE  RingFacts
<1>1. TypeOK /\ HeldOK
  BY HeldType DEF FlightTypeOK
<1>2. /\ Size \in Nat \ {0} /\ head \in 0 .. Size - 1 /\ tail \in 0 .. Size - 1
      /\ full \in BOOLEAN /\ Len(encoder) \in Nat
  BY <1>1, SizeAssumption DEF TypeOK, Indices, FlightTypeOK
<1>3. Len(Held) = Num /\ Num \in 0 .. Size
  BY <1>1 DEF HeldOK
<1>4. Stored \in 0 .. Size /\ Occupied \in Stored .. Stored + 1
  BY <1>2 DEF Stored, Count, Occupied
<1>5. Stamping /\ Probing => Num = Occupied /\ Num < Size
  BY <1>2, <1>4 DEF RingShape, Crossing, Num
<1>6. ASSUME outputAt \in {"test", "front", "check", "unmark"}
      PROVE  ~Empty /\ Front = Held[1]
  <2>1. AtRing = 1 /\ Probing /\ outputAt # "advance"
    BY <1>6 DEF AtRing, Probing
  <2>2. Num >= InHand + 1
    BY <1>2, <1>3, <2>1 DEF HeldInv, Coming, InHand
  <2>3. ~Empty
    BY <1>2, <1>4, <1>5, <2>1, <2>2
       DEF Empty, Num, Occupied, Stored, Count, Stamping, Unmoved, InHand,
           RingShape
  <2>4. Place(1) = tail
    <3>1. Newest = IF sourceAt \in Unmoved THEN head
                   ELSE IF head = 0 THEN Size - 1 ELSE head - 1
      BY <1>1 DEF HeldOK
    <3>2. CASE sourceAt \in Unmoved
      <4>1. Newest = head /\ Num = Stored + 1 /\ Num < Size
        BY <1>5, <2>1, <3>1, <3>2 DEF Occupied, Stamping, Unmoved
      <4>2. Stored = Count /\ ~full
        BY <1>2, <2>1, <3>2, <4>1 DEF Stored, Count, Unmoved
      <4> QED  BY <1>2, <4>1, <4>2 DEF Place, Count
    <3>3. CASE sourceAt \notin Unmoved
      <4>1. Newest = IF head = 0 THEN Size - 1 ELSE head - 1
        BY <3>1, <3>3
      <4>2. Num = Stored
        BY <1>2, <1>4, <3>3 DEF Num, Occupied
      <4>3. full => head = tail
        BY <3>3 DEF RingShape, Unmoved
      <4>4. sourceAt = "mark" => head # tail
        BY <1>2, <1>5, <2>1, <4>2 DEF Stamping, Stored
      <4>5. Stored = Count /\ (head = tail => full)
        BY <1>2, <2>1, <2>3, <4>3, <4>4 DEF Stored, Count, Empty
      <4> QED  BY <1>2, <4>1, <4>2, <4>3, <4>5 DEF Place, Count
    <3> QED  BY <3>2, <3>3
  <2>5. Held[1] = buffer[Place(1)]
    <3>1. 1 \in 1 .. Num
      BY <1>3, <2>2 DEF InHand
    <3> QED  BY <1>1, <3>1 DEF HeldOK
  <2> QED  BY <2>3, <2>4, <2>5 DEF Front
<1> QED  BY <1>3, <1>5, <1>6 DEF RingFacts

(* push writes over the oldest of a full ring, behind the newest otherwise. *)
LEMMA SinkWriteRing ==
  ASSUME FlightTypeOK, FlightTypeOK', RingShape, ~Crossing', SinkWrite
  PROVE  /\ RingShape' /\ Held' = Pushed(Held, TimeOf(arrived'), Size)
         /\ Probing => Len(Held) < Size
<1>1. /\ sourceAt = "idle" /\ sourceAt' = "check"
      /\ head' = head /\ tail' = tail /\ full' = full /\ outputAt' = outputAt
      /\ buffer' = [buffer EXCEPT ![head] = TimeOf(arrived')]
  BY DEF SinkWrite, SinkStep, senderVars, TimeOf, encoderFate
<1>2. HeldOK
  BY HeldType DEF FlightTypeOK
<1>3. HeldOK'
  <2>1. TypeOK'
    BY DEF FlightTypeOK
  <2> QED  BY <2>1, HeldType, PTL
<1>4. /\ Size \in Nat \ {0} /\ head \in 0 .. Size - 1 /\ tail \in 0 .. Size - 1
      /\ full \in BOOLEAN /\ buffer \in [0 .. Size - 1 -> Values]
      /\ TimeOf(arrived') \in Values
  <2>1. TypeOK /\ arrived' \in 0 .. MaxFrames
    BY DEF FlightTypeOK
  <2>2. TimeOf(arrived') \in Values
    BY <2>1, EncoderFits DEF TimeOf, NoTime, FlightTypeOK
  <2> QED  BY <2>1, <2>2, SizeAssumption DEF TypeOK, Indices
<1>5. RingShape'
  BY <1>1 DEF RingShape
<1>6. Stored \in 0 .. Size
  BY <1>4 DEF Stored, Count
<1>7. Num = Stored /\ Newest = IF head = 0 THEN Size - 1 ELSE head - 1
  BY <1>1, <1>2, <1>4, <1>6 DEF Num, Occupied, Unmoved, HeldOK
<1>8. Stored' = Stored
  BY <1>1 DEF Stored, Count
<1>9. Num' = (IF Stored = Size THEN Size ELSE Stored + 1) /\ Newest' = head
  BY <1>1, <1>3, <1>4, <1>6, <1>8 DEF Num, Occupied, Unmoved, HeldOK
<1>10. Probing => Len(Held) < Size
  <2>1. Len(Held) = Stored /\ Occupied' = Stored + 1
    BY <1>1, <1>2, <1>7, <1>8 DEF HeldOK, Occupied, Unmoved
  <2>2. Stamping' /\ Probing' = Probing
    BY <1>1 DEF Stamping, Probing
  <2> QED  BY <1>4, <1>6, <2>1, <2>2 DEF Crossing
<1> DEFINE t == TimeOf(arrived')
           h == Held
           g == Held'
<1>11. /\ h \in Seq(Values) /\ Len(h) = Num /\ g \in Seq(Values) /\ Len(g) = Num'
       /\ \A i \in 1 .. Num : Place(i) \in Indices /\ h[i] = buffer[Place(i)]
       /\ \A i \in 1 .. Num' :
            Place(i)' \in Indices /\ g[i] = buffer'[Place(i)']
  BY <1>2, <1>3 DEF HeldOK
<1>12. buffer'[head] = t /\ \A j \in Indices : j # head => buffer'[j] = buffer[j]
  BY <1>1, <1>4 DEF Indices
<1>13. t \in Values
  BY <1>4
<1> HIDE DEF t, h, g
<1>14. CASE Stored = Size
  <2>1. Num = Size /\ Num' = Size
    BY <1>7, <1>9, <1>14
  <2>2. Place(Size)' = head
    BY <1>4, <1>9, <2>1 DEF Place
  <2>3. ASSUME NEW i \in 1 .. Size - 1
        PROVE  Place(i)' = Place(i + 1) /\ Place(i)' # head
    BY <1>4, <1>7, <1>9, <2>1 DEF Place
  <2>4. g[Size] = t
    BY <1>4, <1>11, <1>12, <2>1, <2>2
  <2>5. ASSUME NEW i \in 1 .. Size - 1
        PROVE  g[i] = h[i + 1]
    <3>1. i \in 1 .. Num' /\ i + 1 \in 1 .. Num
      BY <1>4, <2>1
    <3> QED  BY <1>11, <1>12, <2>3, <3>1
  <2>6. /\ Tail(h) \in Seq(Values) /\ Len(Tail(h)) = Size - 1
        /\ \A i \in 1 .. Size - 1 : Tail(h)[i] = h[i + 1]
    <3>1. h # <<>>
      BY <1>4, <1>11, <2>1, EmptySeq
    <3> QED  BY <1>4, <1>11, <2>1, <3>1, HeadTailProperties
  <2> DEFINE r == Tail(h)
  <2>7. r \in Seq(Values) /\ Len(r) = Size - 1
        /\ \A i \in 1 .. Size - 1 : r[i] = h[i + 1]
    BY <2>6
  <2>8. Pushed(h, t, Size) = Append(r, t)
    BY <1>11, <2>1 DEF Pushed
  <2> HIDE DEF r
  <2>9. /\ Append(r, t) \in Seq(Values) /\ Len(Append(r, t)) = Size
        /\ Append(r, t)[Size] = t
        /\ \A i \in 1 .. Size - 1 : Append(r, t)[i] = r[i]
    BY <1>4, <1>13, <2>7
  <2>10. g = Append(r, t)
    BY <1>4, <1>11, <2>1, <2>4, <2>5, <2>7, <2>9, SeqEqual
  <2> QED  BY <1>5, <1>10, <2>8, <2>10 DEF g, h, t
<1>15. CASE Stored # Size
  <2>1. Num < Size /\ Num' = Num + 1 /\ Num \in Nat
    BY <1>4, <1>6, <1>7, <1>9, <1>15
  <2>2. ASSUME NEW n \in 1 .. Size, n = Num'
        PROVE  Place(n)' = head
    BY <1>4, <1>9, <2>1, <2>2 DEF Place
  <2>3. ASSUME NEW i \in 1 .. Num
        PROVE  Place(i)' = Place(i) /\ Place(i)' # head
    BY <1>4, <1>7, <1>9, <2>1 DEF Place
  <2>4. g[Num + 1] = t
    <3>1. PICK n \in 1 .. Size : n = Num'
      BY <1>4, <2>1
    <3>2. Place(n)' = head /\ g[n] = buffer'[Place(n)']
      BY <1>11, <2>2, <3>1
    <3> QED  BY <1>12, <2>1, <3>1, <3>2
  <2>5. ASSUME NEW i \in 1 .. Num
        PROVE  g[i] = h[i]
    <3>1. i \in 1 .. Num'
      BY <2>1
    <3> QED  BY <1>11, <1>12, <2>3, <3>1
  <2>6. Pushed(h, t, Size) = Append(h, t)
    BY <1>11, <2>1, <1>4 DEF Pushed
  <2>7. /\ Append(h, t) \in Seq(Values) /\ Len(Append(h, t)) = Num + 1
        /\ Append(h, t)[Num + 1] = t
        /\ \A i \in 1 .. Num : Append(h, t)[i] = h[i]
    BY <1>11, <1>13, <2>1
  <2>8. g = Append(h, t)
    BY <1>11, <2>1, <2>4, <2>5, <2>7, SeqEqual
  <2> QED  BY <1>5, <1>10, <2>6, <2>8 DEF g, h, t
<1> QED  BY <1>14, <1>15

(* The rest of a push makes no difference to what the ring holds, nor does *)
(* the encoder.                                                            *)
LEMMA SinkRing ==
  ASSUME FlightTypeOK, FlightTypeOK', RingShape, ~Crossing',
         \/ SinkCheck \/ SinkEvict \/ SinkAdvance \/ SinkMark
         \/ SinkIngress \/ EnterEncoder
  PROVE  RingShape' /\ Held' = Held
<1>1. /\ Size \in Nat \ {0} /\ head \in 0 .. Size - 1 /\ tail \in 0 .. Size - 1
      /\ full \in BOOLEAN
  BY SizeAssumption DEF TypeOK, Indices, FlightTypeOK
<1>2. /\ Newest = IF sourceAt \in Unmoved THEN head
                  ELSE IF head = 0 THEN Size - 1 ELSE head - 1
      /\ Newest' = IF sourceAt' \in Unmoved THEN head'
                   ELSE IF head' = 0 THEN Size - 1 ELSE head' - 1
  <2>1. HeldOK
    BY HeldType DEF FlightTypeOK
  <2>2. HeldOK'
    <3>1. TypeOK'
      BY DEF FlightTypeOK
    <3> QED  BY <3>1, HeldType, PTL
  <2> QED  BY <2>1, <2>2 DEF HeldOK
<1>3. outputAt' = outputAt /\ buffer' = buffer
  BY DEF SinkCheck, SinkEvict, SinkAdvance, SinkMark, SinkIngress, EnterEncoder,
         SinkStep, senderVars, ring
<1>4. Stored \in 0 .. Size /\ (sourceAt \in Unmoved => Occupied = Stored + 1)
  BY <1>1 DEF Stored, Count, Occupied
<1>5. Stamping /\ Probing => Num = Occupied /\ Occupied < Size
  BY <1>1, <1>4 DEF RingShape, Crossing, Num, Occupied
<1>6. outputAt = "advance" => Probing
  BY DEF Probing
<1>7. CASE SinkCheck
  <2>1. /\ sourceAt = "check" /\ sourceAt' = IF full THEN "evict" ELSE "advance"
        /\ head' = head /\ tail' = tail /\ full' = full
    BY <1>7 DEF SinkCheck, SinkStep, ring
  <2>2. Num' = Num /\ Newest' = Newest
    BY <1>2, <1>3, <2>1 DEF Num, Occupied, Stored, Count, Unmoved
  <2>3. RingShape'
    BY <1>3, <2>1 DEF RingShape
  <2> QED  BY <1>3, <2>2, <2>3, HeldSame
<1>8. CASE SinkEvict
  <2>1. /\ sourceAt = "evict" /\ sourceAt' = "advance"
        /\ head' = head /\ tail' = (tail + 1) % Size /\ full' = full
    BY <1>8 DEF SinkEvict, SinkStep
  <2>2. full /\ head = tail /\ tail' = After(head)
    BY <1>1, <2>1, Wrap DEF RingShape, After, Indices
  <2>3. Stored = Size /\ Stored' = Size
    BY <1>1, <2>1, <2>2 DEF Stored, Count
  <2>4. Num' = Num /\ Newest' = Newest
    BY <1>2, <1>3, <2>1, <2>3 DEF Num, Occupied, Unmoved
  <2>5. RingShape'
    BY <1>3, <2>1, <2>2 DEF RingShape, After
  <2> QED  BY <1>3, <2>4, <2>5, HeldSame
<1>9. CASE SinkAdvance
  <2>1. /\ sourceAt = "advance" /\ sourceAt' = "mark"
        /\ head' = (head + 1) % Size /\ tail' = tail /\ full' = full
    BY <1>9 DEF SinkAdvance, SinkStep
  <2>2. head' = After(head)
    BY <1>1, <2>1, Wrap DEF After, Indices
  <2>3. Newest' = Newest
    BY <1>1, <1>2, <2>1, <2>2 DEF After, Unmoved
  <2>4. Stamping /\ Occupied = Stored + 1
    BY <1>4, <2>1 DEF Stamping, Unmoved
  <2>5. CASE full
    <3>1. tail = After(head) /\ head' = tail'
      BY <2>1, <2>2, <2>5 DEF RingShape
    <3>2. Stored = Size /\ Occupied' = Size
      BY <1>1, <2>1, <2>5, <3>1 DEF Stored, Count, Occupied, Unmoved
    <3>3. Num = Size /\ Num' = Size
      BY <1>1, <2>4, <3>2 DEF Num
    <3>4. RingShape'
      BY <1>3, <2>1, <3>1 DEF RingShape
    <3> QED  BY <1>3, <2>3, <3>3, <3>4, HeldSame
  <2>6. CASE ~full
    <3>1. Stored = Count /\ Count \in 0 .. Size - 1
      <4>1. ~(head = tail /\ outputAt = "advance")
        BY <1>1, <1>5, <1>6, <2>4 DEF Stored
      <4> QED  BY <1>1, <2>1, <2>6, <4>1 DEF Stored, Count
    <3>2. Occupied' = Count + 1
      <4>1. Stored' = Count + 1
        BY <1>1, <2>1, <2>2, <2>6 DEF Stored, Count, After
      <4>2. Stored' \in Nat /\ sourceAt' \notin Unmoved
        BY <1>1, <2>1, <3>1, <4>1 DEF Unmoved
      <4> QED  BY <4>1, <4>2 DEF Occupied
    <3>3. Num' = Num
      BY <2>4, <3>1, <3>2 DEF Num
    <3>4. RingShape'
      BY <1>3, <2>1, <2>6 DEF RingShape
    <3> QED  BY <1>3, <2>3, <3>3, <3>4, HeldSame
  <2> QED  BY <2>5, <2>6
<1>10. CASE SinkMark
  <2>1. /\ sourceAt = "mark" /\ sourceAt' = "ingress"
        /\ head' = head /\ tail' = tail /\ full' = (head = tail)
    BY <1>10, Zenon DEF SinkMark, SinkStep
  <2>2. full => head = tail
    BY <2>1 DEF RingShape
  <2>3. Newest' = Newest
    BY <1>2, <2>1 DEF Unmoved
  <2>4. Stored' = Stored /\ Occupied = Stored /\ Occupied' = Stored'
    <3>1. Stored' = Stored
      BY <1>1, <1>3, <2>1, <2>2 DEF Stored, Count
    <3> QED  BY <1>4, <2>1, <3>1 DEF Occupied, Unmoved
  <2>5. Num' = Num
    BY <2>4 DEF Num
  <2>6. outputAt = "advance" => head # tail
    <3> SUFFICES ASSUME outputAt = "advance", head = tail PROVE FALSE
      OBVIOUS
    <3>1. Stored = Size /\ Stamping /\ Probing
      BY <1>6, <2>1 DEF Stored, Stamping
    <3> QED  BY <1>1, <1>5, <2>4, <3>1
  <2>7. RingShape'
    BY <1>3, <2>1, <2>6 DEF RingShape
  <2> QED  BY <1>3, <2>3, <2>5, <2>7, HeldSame
<1>11. CASE SinkIngress \/ EnterEncoder
  <2>1. /\ sourceAt \in {"ingress", "encode"} /\ sourceAt' \in {"encode", "idle"}
        /\ head' = head /\ tail' = tail /\ full' = full
    BY <1>11 DEF SinkIngress, EnterEncoder, SinkStep, ring
  <2>2. Num' = Num /\ Newest' = Newest
    BY <1>2, <1>3, <2>1 DEF Num, Occupied, Stored, Count, Unmoved
  <2>3. RingShape'
    BY <1>3, <2>1 DEF RingShape
  <2> QED  BY <1>3, <2>2, <2>3, HeldSame
<1> QED  BY <1>7, <1>8, <1>9, <1>10, <1>11

(* A step that leaves the ring alone, and both threads where they are in   *)
(* push and in pop_front's last statement, leaves what it holds.           *)
LEMMA RingUntouched ==
  ASSUME RingShape, ~Crossing', UNCHANGED <<ring, sourceAt>>,
         outputAt' = "advance" <=> outputAt = "advance"
  PROVE  RingShape' /\ Held' = Held
<1>1. /\ head' = head /\ tail' = tail /\ full' = full /\ buffer' = buffer
      /\ sourceAt' = sourceAt
  BY DEF ring
<1>2. Num' = Num /\ Newest' = Newest
  BY <1>1 DEF Num, Occupied, Stored, Count, Newest
<1>3. RingShape'
  BY <1>1 DEF RingShape
<1> QED  BY <1>1, <1>2, <1>3, HeldSame

(* Nor does a pop that has cleared the flag.                               *)
LEMMA SrcUnmarkRing ==
  ASSUME FlightTypeOK, RingShape, HeldInv, ~Crossing', SrcUnmark
  PROVE  RingShape' /\ Held' = Held
<1>1. /\ outputAt = "unmark" /\ outputAt' = "advance" /\ sourceAt' = sourceAt
      /\ head' = head /\ tail' = tail /\ full' = FALSE /\ buffer' = buffer
  BY DEF SrcUnmark, SrcStep, sourceVars
<1>2. /\ Size \in Nat \ {0} /\ head \in 0 .. Size - 1 /\ tail \in 0 .. Size - 1
      /\ full \in BOOLEAN
  BY SizeAssumption DEF TypeOK, Indices, FlightTypeOK
<1>3. RingFacts
  BY RingIsHeld
<1>4. Newest' = Newest
  BY <1>1 DEF Newest
<1>5. Stored' = Stored
  <2>1. CASE full
    <3>1. Stored = Size /\ sourceAt # "advance"
      <4>1. Stored = Size
        BY <1>2, <2>1 DEF Stored, Count
      <4>2. sourceAt = "advance" => Stamping /\ Probing /\ Occupied = Size + 1
        BY <1>1, <4>1 DEF Stamping, Probing, Occupied, Unmoved
      <4> QED  BY <1>2, <4>1, <4>2 DEF RingShape, Crossing
    <3>2. head = tail
      BY <2>1, <3>1 DEF RingShape
    <3> QED  BY <1>1, <3>1, <3>2 DEF Stored
  <2>2. CASE ~full
    <3>1. head # tail
      BY <1>1, <1>3, <2>2 DEF RingFacts, Empty
    <3> QED  BY <1>1, <2>2, <3>1 DEF Stored, Count
  <2> QED  BY <2>1, <2>2
<1>6. Num' = Num
  BY <1>1, <1>5 DEF Num, Occupied
<1>7. RingShape'
  <2>1. ~full'
    BY <1>1
  <2>2. sourceAt' # "evict"
    <3> SUFFICES ASSUME sourceAt = "evict" PROVE FALSE
      BY <1>1
    <3>1. full /\ Stamping /\ Probing
      BY <1>1 DEF RingShape, Stamping, Probing
    <3>2. Stored = Size
      BY <1>2, <3>1 DEF Stored, Count
    <3>3. Occupied = Size + 1
      BY <3>2 DEF Occupied, Unmoved
    <3> QED  BY <1>2, <3>1, <3>3 DEF RingShape, Crossing
  <2> QED  BY <2>1, <2>2 DEF RingShape
<1> QED  BY <1>1, <1>4, <1>6, <1>7, HeldSame

(* The last statement of pop_front drops the oldest time.                  *)
LEMMA SrcAdvanceRing ==
  ASSUME FlightTypeOK, FlightTypeOK', RingShape, HeldInv, ~Crossing', SrcAdvance
  PROVE  RingShape' /\ Held # <<>> /\ Held' = Tail(Held)
<1>1. /\ outputAt = "advance" /\ outputAt' = "pair" /\ sourceAt' = sourceAt
      /\ head' = head /\ tail' = (tail + 1) % Size /\ full' = full
      /\ buffer' = buffer
  BY DEF SrcAdvance, SrcStep, sourceVars
<1>2. /\ Size \in Nat \ {0} /\ head \in 0 .. Size - 1 /\ tail \in 0 .. Size - 1
      /\ ~full /\ Len(encoder) \in Nat
  BY <1>1, SizeAssumption DEF TypeOK, Indices, FlightTypeOK, RingShape
<1>3. tail' = After(tail)
  BY <1>1, <1>2, Wrap DEF After, Indices
<1>4. HeldOK /\ HeldOK'
  <2>1. TypeOK /\ TypeOK'
    BY DEF FlightTypeOK
  <2> QED  BY <2>1, HeldType, PTL
<1>5. RingFacts
  BY RingIsHeld
<1>6. AtRing = 1 /\ Probing
  BY <1>1 DEF AtRing, Probing
<1>7. Num >= InHand + 1 /\ Num \in 1 .. Size
  BY <1>2, <1>4, <1>6 DEF HeldInv, HeldOK, Coming, InHand
<1>8. Stored \in 0 .. Size
  BY <1>2 DEF Stored, Count
<1>9. Stored' = Stored - 1 /\ Stored >= 1
  <2>1. CASE head = tail
    <3>1. Stored = Size /\ ~Stamping
      <4>1. Stored = Size
        BY <1>1, <2>1 DEF Stored
      <4>2. Occupied >= Size
        BY <1>2, <4>1 DEF Occupied
      <4> QED  BY <1>6, <4>1, <4>2 DEF RingShape, Crossing
    <3>2. sourceAt # "mark"
      BY <3>1 DEF Stamping
    <3> QED
      BY <1>1, <1>2, <1>3, <2>1, <3>1, <3>2 DEF Stored, Count, After
  <2>2. CASE head # tail
    <3>1. Stored = Count /\ Count \in 1 .. Size - 1
      BY <1>2, <2>2 DEF Stored, Count
    <3>2. Count' = Count - 1
      BY <1>1, <1>2, <1>3, <2>2 DEF Count, After
    <3>3. sourceAt = "mark" => Count > 1
      <4> SUFFICES ASSUME sourceAt = "mark" PROVE Count > 1
        OBVIOUS
      <4>1. InHand = 1 /\ Num = Stored
        BY <1>2, <3>1 DEF InHand, Num, Occupied, Unmoved
      <4> QED  BY <1>7, <3>1, <4>1
    <3>4. Stored' = Count'
      <4>1. head = tail' => Count = 1
        BY <1>1, <1>2, <1>3, <2>2 DEF Count, After
      <4> QED  BY <1>1, <1>2, <3>1, <3>3, <4>1 DEF Stored
    <3> QED  BY <3>1, <3>2, <3>4
  <2> QED  BY <2>1, <2>2
<1>10. Num' = Num - 1 /\ Newest' = Newest
  <2>1. CASE sourceAt \in Unmoved
    <3>1. Occupied = Stored + 1 /\ Occupied' = Stored
      BY <1>1, <1>2, <1>8, <1>9, <2>1 DEF Occupied
    <3>2. Occupied < Size
      BY <1>2, <1>5, <1>6, <2>1 DEF RingFacts, Stamping, Unmoved
    <3>3. Num' = Num - 1
      BY <1>2, <1>8, <3>1, <3>2 DEF Num
    <3>4. Newest' = Newest
      BY <1>1 DEF Newest
    <3> QED  BY <3>3, <3>4
  <2>2. CASE sourceAt \notin Unmoved
    <3>1. Occupied = Stored /\ Occupied' = Stored - 1
      BY <1>1, <1>2, <1>8, <1>9, <2>2 DEF Occupied
    <3>2. Num' = Num - 1
      BY <1>2, <1>8, <3>1 DEF Num
    <3>3. Newest' = Newest
      BY <1>1 DEF Newest
    <3> QED  BY <3>2, <3>3
  <2> QED  BY <2>1, <2>2
<1>11. RingShape'
  <2>1. ~full' /\ sourceAt' # "evict"
    BY <1>1, <1>2 DEF RingShape
  <2> QED  BY <2>1 DEF RingShape
<1> DEFINE h == Held
           g == Held'
<1>12. /\ h \in Seq(Values) /\ Len(h) = Num /\ g \in Seq(Values) /\ Len(g) = Num'
       /\ \A i \in 1 .. Num : h[i] = buffer[Place(i)]
       /\ \A i \in 1 .. Num' : g[i] = buffer'[Place(i)']
  BY <1>4 DEF HeldOK
<1> HIDE DEF h, g
<1>13. ASSUME NEW i \in 1 .. Num - 1
       PROVE  g[i] = h[i + 1]
  <2>1. i \in 1 .. Num' /\ i + 1 \in 1 .. Num
    BY <1>7, <1>10
  <2>2. Place(i)' = Place(i + 1)
    <3>1. Newest \in 0 .. Size - 1
      BY <1>4 DEF HeldOK, Indices
    <3> QED  BY <1>2, <1>7, <1>10, <3>1 DEF Place
  <2> QED  BY <1>1, <1>12, <2>1, <2>2
<1>14. h # <<>>
  BY <1>7, <1>12, EmptySeq
<1>15. /\ Tail(h) \in Seq(Values) /\ Len(Tail(h)) = Num - 1
       /\ \A i \in 1 .. Num - 1 : Tail(h)[i] = h[i + 1]
  BY <1>7, <1>12, <1>14, HeadTailProperties
<1>16. g = Tail(h)
  BY <1>7, <1>10, <1>12, <1>13, <1>15, SeqEqual
<1> QED  BY <1>11, <1>14, <1>16 DEF g, h

(* The frames, wherever the probes are: they leave in the order they came, *)
(* and those that have left were not lost and are not in the encoder.      *)
FramesInv ==
  /\ Len(encoder) <= EncoderDepth
  /\ Coming + lost + (IF outputAt = "idle" THEN 0 ELSE 1) <= arrived
  /\ \A i \in 1 .. Len(encoder) : encoder[i] = arrived - Coming + i
  /\ outputAt # "idle" =>
       /\ frame.number \in 1 .. arrived - Coming
       /\ ~strips => /\ frame.capture = TimeOf(frame.number)
                     /\ frame.ingress = TimeOf(frame.number)

(* What push leaves of a queue that is not too long.                       *)
PushedOK(S, q, v, n) ==
  /\ Pushed(q, v, n) \in Seq(S)
  /\ Len(q) < n =>
       /\ Pushed(q, v, n) = Append(q, v)
       /\ Len(Pushed(q, v, n)) = Len(q) + 1
       /\ Pushed(q, v, n)[Len(q) + 1] = v
       /\ \A i \in 1 .. Len(q) : Pushed(q, v, n)[i] = q[i]
  /\ Len(q) = n =>
       /\ Len(Pushed(q, v, n)) = n
       /\ Pushed(q, v, n)[n] = v
       /\ \A i \in 1 .. n - 1 : Pushed(q, v, n)[i] = q[i + 1]

(* For any values and any length of the ring.                              *)
LEMMA PushedSeq ==
  ASSUME NEW S, NEW q \in Seq(S), NEW v \in S, NEW n \in Nat \ {0}
  PROVE  PushedOK(S, q, v, n)
<1>1. CASE Len(q) = n
  <2>1. q # <<>>
    BY <1>1
  <2>2. /\ Tail(q) \in Seq(S) /\ Len(Tail(q)) = n - 1
        /\ \A i \in 1 .. n - 1 : Tail(q)[i] = q[i + 1]
    BY <1>1, <2>1, HeadTailProperties
  <2> DEFINE r == Tail(q)
  <2>3. /\ r \in Seq(S) /\ Len(r) = n - 1
        /\ \A i \in 1 .. n - 1 : r[i] = q[i + 1]
    BY <2>2
  <2>4. Pushed(q, v, n) = Append(r, v)
    BY <1>1 DEF Pushed
  <2> HIDE DEF r
  <2>5. /\ Append(r, v) \in Seq(S) /\ Len(Append(r, v)) = n
        /\ Append(r, v)[n] = v
        /\ \A i \in 1 .. n - 1 : Append(r, v)[i] = r[i]
    BY <2>3
  <2> QED  BY <1>1, <2>3, <2>4, <2>5 DEF PushedOK
<1>2. CASE Len(q) # n
  <2>1. Pushed(q, v, n) = Append(q, v)
    BY <1>2 DEF Pushed
  <2>2. /\ Append(q, v) \in Seq(S) /\ Len(Append(q, v)) = Len(q) + 1
        /\ Append(q, v)[Len(q) + 1] = v
        /\ \A i \in 1 .. Len(q) : Append(q, v)[i] = q[i]
    OBVIOUS
  <2> QED  BY <1>2, <2>1, <2>2 DEF PushedOK
<1> QED  BY <1>1, <1>2

(* What is left of the encoder's frames without the first.                 *)
LEMMA EncoderTail ==
  ASSUME encoder \in Seq(Frames), encoder # <<>>
  PROVE  /\ Head(encoder) = encoder[1] /\ encoder[1] \in Frames
         /\ Tail(encoder) \in Seq(Frames) /\ Len(encoder) \in Nat \ {0}
         /\ Len(Tail(encoder)) = Len(encoder) - 1
         /\ \A i \in 1 .. Len(encoder) - 1 : Tail(encoder)[i] = encoder[i + 1]
  BY HeadTailProperties

(* The source's thread takes a frame and moves it into the encoder.        *)
LEMMA SourceFrames ==
  ASSUME FlightTypeOK, FramesInv, Source
  PROVE  FlightTypeOK' /\ FramesInv'
<1>1. /\ outputAt' = outputAt /\ frame' = frame /\ strips' = strips
      /\ untimed' = untimed /\ lost' = lost
  BY DEF Source, SinkStep, SinkWrite, SinkCheck, SinkEvict, SinkAdvance, SinkMark,
         SinkIngress, EnterEncoder, encoderFate, senderVars
<1>2. /\ arrived \in 0 .. MaxFrames /\ MaxFrames \in Nat /\ lost \in Nat
      /\ Len(encoder) \in Nat /\ untimed \in Nat /\ Values = 0 .. MaxFrames
      /\ Size \in Nat \ {0}
  BY EncoderFits, SizeAssumption DEF FlightTypeOK
<1>3. \A i \in Indices : (i + 1) % Size \in Indices
  BY Wrap, SizeAssumption DEF Indices
<1>4. \A n \in 0 .. MaxFrames : TimeOf(n) \in Values
  BY <1>2 DEF TimeOf, NoTime
<1>5. sourceAt' \in {"idle", "check", "evict", "advance", "mark", "ingress",
                     "encode"}
  BY DEF Source, SinkStep, SinkWrite, SinkCheck, SinkEvict, SinkAdvance, SinkMark,
         SinkIngress, EnterEncoder
<1>6. CASE SinkWrite
  <2>1. /\ sourceAt = "idle" /\ sourceAt' = "check" /\ encoder' = encoder
        /\ ingress' = ingress /\ arrived' = arrived + 1 /\ arrived < MaxFrames
    BY <1>6 DEF SinkWrite, SinkStep
  <2>2. TypeOK'
    <3>1. buffer' = [buffer EXCEPT ![head] = TimeOf(arrived + 1)]
      BY <1>6 DEF SinkWrite
    <3>2. TimeOf(arrived + 1) \in Values
      BY <1>2, <1>4, <2>1
    <3>3. UNCHANGED <<head, tail, full>>
      BY <1>6 DEF SinkWrite
    <3> QED  BY <3>1, <3>2, <3>3 DEF FlightTypeOK, TypeOK
  <2>3. FlightTypeOK'
    BY <1>1, <1>2, <1>5, <2>1, <2>2 DEF FlightTypeOK
  <2>4. Coming' = Coming + 1 /\ Coming = Len(encoder)
    BY <1>2, <2>1 DEF Coming, InHand
  <2>5. \A n : TimeOf(n)' = TimeOf(n)
    BY <1>1 DEF TimeOf
  <2>6. FramesInv'
    BY <1>1, <1>2, <2>1, <2>4, <2>5 DEF FramesInv
  <2> QED  BY <2>3, <2>6
<1>7. CASE \/ SinkCheck \/ SinkEvict \/ SinkAdvance \/ SinkMark \/ SinkIngress
  <2>1. /\ sourceAt # "idle" /\ sourceAt' # "idle" /\ encoder' = encoder
        /\ arrived' = arrived
    BY <1>7 DEF SinkCheck, SinkEvict, SinkAdvance, SinkMark, SinkIngress, SinkStep
  <2>2. TypeOK'
    <3>1. buffer' = buffer
      BY <1>7 DEF SinkCheck, SinkEvict, SinkAdvance, SinkMark, SinkIngress, ring
    <3>2. /\ head' = head \/ head' = (head + 1) % Size
          /\ tail' = tail \/ tail' = (tail + 1) % Size
      BY <1>7 DEF SinkCheck, SinkEvict, SinkAdvance, SinkMark, SinkIngress, ring
    <3>3. full' \in BOOLEAN
      <4>1. CASE SinkMark
        BY <4>1, Zenon DEF SinkMark
      <4>2. CASE ~SinkMark
        <5>1. full' = full
          BY <1>7, <4>2 DEF SinkCheck, SinkEvict, SinkAdvance, SinkIngress, ring
        <5> QED  BY <5>1 DEF FlightTypeOK, TypeOK
      <4> QED  BY <4>1, <4>2
    <3> QED  BY <1>3, <3>1, <3>2, <3>3 DEF FlightTypeOK, TypeOK
  <2>3. ingress' \in Seq(Values)
    <3>1. CASE SinkIngress
      <4>1. ingress' = Pushed(ingress, TimeOf(arrived), Size)
        BY <3>1 DEF SinkIngress
      <4>2. ingress \in Seq(Values) /\ TimeOf(arrived) \in Values
        BY <1>2, <1>4 DEF FlightTypeOK
      <4>3. PushedOK(Values, ingress, TimeOf(arrived), Size)
        BY <1>2, <4>2, PushedSeq
      <4> QED  BY <4>1, <4>3 DEF PushedOK
    <3>2. CASE ~SinkIngress
      BY <1>7, <3>2
         DEF SinkCheck, SinkEvict, SinkAdvance, SinkMark, FlightTypeOK
    <3> QED  BY <3>1, <3>2
  <2>4. FlightTypeOK'
    BY <1>1, <1>5, <2>1, <2>2, <2>3 DEF FlightTypeOK
  <2>5. Coming' = Coming
    BY <2>1 DEF Coming, InHand
  <2>6. \A n : TimeOf(n)' = TimeOf(n)
    BY <1>1 DEF TimeOf
  <2>7. FramesInv'
    BY <1>1, <2>1, <2>5, <2>6 DEF FramesInv
  <2> QED  BY <2>4, <2>7
<1>8. CASE EnterEncoder
  <2>1. /\ sourceAt = "encode" /\ sourceAt' = "idle" /\ arrived' = arrived
        /\ Len(encoder) < EncoderDepth /\ encoder' = Append(encoder, arrived)
        /\ UNCHANGED <<ring, ingress>>
    BY <1>8 DEF EnterEncoder, SinkStep
  <2>2. Coming = Len(encoder) + 1
    BY <1>2, <2>1 DEF Coming, InHand
  <2>3. arrived \in Frames
    BY <1>2, <2>2 DEF FramesInv, Frames
  <2>4. /\ encoder' \in Seq(Frames) /\ Len(encoder') = Len(encoder) + 1
        /\ encoder'[Len(encoder) + 1] = arrived
        /\ \A i \in 1 .. Len(encoder) : encoder'[i] = encoder[i]
    <3>1. encoder \in Seq(Frames)
      BY DEF FlightTypeOK
    <3> QED  BY <2>1, <2>3, <3>1
  <2>5. Coming' = Coming
    BY <1>2, <2>1, <2>2, <2>4 DEF Coming, InHand
  <2>6. TypeOK'
    BY <2>1 DEF FlightTypeOK, TypeOK, ring
  <2>7. FlightTypeOK'
    BY <1>1, <1>5, <2>1, <2>4, <2>6 DEF FlightTypeOK
  <2>8. \A n : TimeOf(n)' = TimeOf(n)
    BY <1>1 DEF TimeOf
  <2>9. ASSUME NEW i \in 1 .. Len(encoder')
        PROVE  encoder'[i] = arrived - Coming + i
    <3>1. CASE i = Len(encoder) + 1
      BY <1>2, <2>2, <2>4, <3>1
    <3>2. CASE i # Len(encoder) + 1
      <4>1. i \in 1 .. Len(encoder)
        BY <1>2, <2>4, <3>2
      <4> QED  BY <2>4, <4>1 DEF FramesInv
    <3> QED  BY <3>1, <3>2
  <2>10. FramesInv'
    <3>1. Len(encoder') <= EncoderDepth
      BY <1>2, <2>1, <2>4, EncoderFits
    <3> QED  BY <1>1, <2>1, <2>5, <2>8, <2>9, <3>1 DEF FramesInv
  <2> QED  BY <2>7, <2>10
<1> QED  BY <1>6, <1>7, <1>8 DEF Source

(* Frames that are lost are the first of the encoder, or all of them.      *)
LEMMA LossFrames ==
  ASSUME FlightTypeOK, FramesInv, LoseFrame \/ Stop \/ StartFails
  PROVE  /\ FlightTypeOK' /\ FramesInv'
         /\ lost' >= lost /\ lost' \in Nat /\ Coming' + lost' = Coming + lost
         /\ UNCHANGED <<ring, sourceVars, ingress, outputAt, frame, strips,
                        untimed>>
<1>1. UNCHANGED <<ring, sourceVars, ingress, outputAt, frame, strips, untimed>>
  BY DEF LoseFrame, Stop, StartFails, GoToNull, senderVars
<1>2. /\ sourceAt' = sourceAt /\ arrived' = arrived /\ lost \in Nat
      /\ arrived \in Nat /\ Len(encoder) \in Nat /\ InHand \in 0 .. 1
      /\ encoder \in Seq(Frames) /\ EncoderDepth \in Nat
  BY <1>1, EncoderFits DEF sourceVars, FlightTypeOK, InHand
<1>3. /\ encoder' \in Seq(Frames) /\ Len(encoder') <= Len(encoder)
      /\ Len(encoder') \in Nat
      /\ lost' = lost + (Len(encoder) - Len(encoder'))
      /\ \A i \in 1 .. Len(encoder') :
           encoder'[i] = encoder[i + Len(encoder) - Len(encoder')]
  <2>1. CASE LoseFrame
    <3>1. encoder # <<>> /\ encoder' = Tail(encoder) /\ lost' = lost + 1
      BY <2>1 DEF LoseFrame
    <3> QED  BY <1>2, <3>1, EncoderTail
  <2>2. CASE Stop \/ StartFails
    <3>1. encoder' = <<>> /\ lost' = lost + Len(encoder)
      BY <2>2 DEF Stop, StartFails, GoToNull
    <3> QED  BY <1>2, <3>1
  <2> QED  BY <2>1, <2>2
<1>4. InHand' = InHand
  BY <1>2 DEF InHand
<1>5. /\ lost' >= lost /\ lost' \in Nat /\ Coming' + lost' = Coming + lost
      /\ Coming' = Coming - (Len(encoder) - Len(encoder'))
  BY <1>2, <1>3, <1>4 DEF Coming
<1>6. FlightTypeOK'
  BY <1>1, <1>2, <1>3, <1>5 DEF FlightTypeOK, TypeOK, ring
<1>7. \A i \in 1 .. Len(encoder') : encoder'[i] = arrived - Coming' + i
  <2> SUFFICES ASSUME NEW i \in 1 .. Len(encoder')
               PROVE  encoder'[i] = arrived - Coming' + i
    OBVIOUS
  <2>1. PICK k \in 1 .. Len(encoder) : k = i + Len(encoder) - Len(encoder')
    BY <1>2, <1>3
  <2>2. encoder[k] = arrived - Coming + k
    BY DEF FramesInv
  <2> QED  BY <1>2, <1>3, <1>5, <2>1, <2>2 DEF Coming
<1>8. \A n : TimeOf(n)' = TimeOf(n)
  BY <1>1 DEF TimeOf
<1>9. outputAt # "idle" => frame.number \in 1 .. arrived' - Coming'
  BY <1>2, <1>3, <1>5 DEF FramesInv, Coming
<1>10. FramesInv'
  BY <1>1, <1>2, <1>3, <1>5, <1>7, <1>8, <1>9 DEF FramesInv, Coming
<1> QED  BY <1>1, <1>5, <1>6, <1>10

(* The output's thread takes the first frame of the encoder.               *)
LEMMA TakeFrames ==
  ASSUME FlightTypeOK, FramesInv, SrcTake
  PROVE  /\ FlightTypeOK' /\ FramesInv'
         /\ Coming' = Coming - 1 /\ Coming \in Nat
         /\ frame'.number = arrived - Coming + 1
<1>1. /\ encoder # <<>> /\ encoder' = Tail(encoder)
      /\ outputAt = "idle" /\ outputAt' = "test"
      /\ UNCHANGED <<ring, ingress, arrived, sourceAt, strips, untimed, lost>>
  BY DEF SrcTake, SrcStep, sourceVars, encoderFate
<1> DEFINE t == IF strips THEN NoTime ELSE TimeOf(Head(encoder))
<1>2. frame' = [number |-> Head(encoder), capture |-> t, ingress |-> t]
  BY DEF SrcTake
<1>3. /\ Head(encoder) = encoder[1] /\ encoder[1] \in Frames
      /\ encoder' \in Seq(Frames) /\ Len(encoder) \in Nat \ {0}
      /\ Len(encoder') = Len(encoder) - 1
      /\ \A i \in 1 .. Len(encoder) - 1 : encoder'[i] = encoder[i + 1]
  BY <1>1, EncoderTail DEF FlightTypeOK
<1>4. /\ arrived \in Nat /\ lost \in Nat /\ InHand \in 0 .. 1 /\ InHand' = InHand
      /\ MaxFrames \in Nat /\ Values = 0 .. MaxFrames /\ EncoderDepth \in Nat
  BY <1>1, EncoderFits DEF FlightTypeOK, InHand
<1>5. Coming' = Coming - 1 /\ Coming \in Nat /\ Coming <= arrived
  BY <1>1, <1>3, <1>4 DEF Coming, FramesInv
<1>6. encoder[1] = arrived - Coming + 1
  BY <1>3 DEF FramesInv
<1>7. t \in Values
  BY <1>3, <1>4 DEF TimeOf, NoTime, Frames
<1>8. frame' \in [number : Values, capture : Values, ingress : Values]
  <2>1. Head(encoder) \in Values
    BY <1>3, <1>4 DEF Frames
  <2> HIDE DEF t
  <2> QED  BY <1>2, <1>7, <2>1
<1>9. FlightTypeOK'
  BY <1>1, <1>3, <1>8 DEF FlightTypeOK, TypeOK, ring
<1>10. ASSUME NEW i \in 1 .. Len(encoder')
       PROVE  encoder'[i] = arrived - Coming' + i
  <2>1. PICK k \in 1 .. Len(encoder) : k = i + 1
    BY <1>3
  <2>2. encoder[k] = arrived - Coming + k
    BY DEF FramesInv
  <2> QED  BY <1>3, <1>4, <1>5, <2>1, <2>2
<1>11. /\ frame'.number = arrived - Coming + 1
       /\ ~strips => frame'.capture = TimeOf(frame'.number)
                     /\ frame'.ingress = TimeOf(frame'.number)
  BY <1>2, <1>3, <1>6
<1>12. \A n : TimeOf(n)' = TimeOf(n)
  BY <1>1 DEF TimeOf
<1>13. FramesInv'
  <2>1. frame'.number \in 1 .. arrived' - Coming'
    BY <1>1, <1>4, <1>5, <1>11
  <2>2. (~strips => /\ frame.capture = TimeOf(frame.number)
                    /\ frame.ingress = TimeOf(frame.number))'
    BY <1>1, <1>11 DEF TimeOf
  <2>3. Len(encoder') <= EncoderDepth
    BY <1>3, <1>4 DEF FramesInv
  <2>4. Coming' + lost' + 1 <= arrived'
    BY <1>1, <1>4, <1>5 DEF FramesInv
  <2>5. \A i \in 1 .. Len(encoder') : encoder'[i] = arrived' - Coming' + i
    BY <1>1, <1>10
  <2> QED  BY <1>1, <2>1, <2>2, <2>3, <2>4, <2>5 DEF FramesInv
<1> QED  BY <1>5, <1>9, <1>11, <1>13

(* The thread attaches times to the frame, and sends it.                   *)
LEMMA OutputFrames ==
  ASSUME FlightTypeOK, FramesInv,
         \/ SrcTest \/ SrcFront \/ SrcCheck \/ SrcUnmark \/ SrcAdvance
         \/ SrcPair \/ FrameDone
  PROVE  /\ FlightTypeOK' /\ FramesInv' /\ Coming' = Coming
         /\ frame'.number = frame.number /\ outputAt # "idle"
<1>1. /\ UNCHANGED <<arrived, sourceAt, strips, untimed, lost, encoder, head,
                     buffer>>
      /\ outputAt # "idle"
      /\ outputAt' \in {"idle", "test", "front", "check", "unmark", "advance",
                        "pair", "send"}
  BY DEF SrcTest, SrcFront, SrcCheck, SrcUnmark, SrcAdvance, SrcPair, FrameDone,
         SrcStep, sourceVars, encoderFate, ring
<1>2. /\ frame'.number = frame.number
      /\ ~strips => frame' = frame
      /\ frame' \in [number : Values, capture : Values, ingress : Values]
  <2>1. CASE SrcFront
    <3>1. Front \in Values
      BY DEF Front, FlightTypeOK, TypeOK
    <3> QED  BY <2>1, <3>1 DEF SrcFront, FlightTypeOK
  <2>2. CASE SrcPair
    <3>1. PICK t \in Values :
            frame' = IF strips THEN [frame EXCEPT !.ingress = t] ELSE frame
      BY <2>2 DEF SrcPair, FlightTypeOK
    <3> QED  BY <3>1 DEF FlightTypeOK
  <2>3. CASE \/ SrcTest \/ SrcCheck \/ SrcUnmark \/ SrcAdvance \/ FrameDone
    <3>1. frame' = frame
      BY <2>3 DEF SrcTest, SrcCheck, SrcUnmark, SrcAdvance, FrameDone
    <3> QED  BY <3>1 DEF FlightTypeOK
  <2> QED  BY <2>1, <2>2, <2>3
<1>3. TypeOK'
  <2>1. tail' = tail \/ tail' = (tail + 1) % Size
    BY DEF SrcTest, SrcFront, SrcCheck, SrcUnmark, SrcAdvance, SrcPair,
           FrameDone, ring
  <2>2. full' = full \/ full' = FALSE
    BY DEF SrcTest, SrcFront, SrcCheck, SrcUnmark, SrcAdvance, SrcPair,
           FrameDone, ring
  <2>3. \A i \in Indices : (i + 1) % Size \in Indices
    BY Wrap, SizeAssumption DEF Indices
  <2> QED  BY <1>1, <2>1, <2>2, <2>3 DEF FlightTypeOK, TypeOK
<1>4. ingress' \in Seq(Values)
  <2>1. ingress' = ingress \/ ingress' = Popped(ingress)
    BY DEF SrcTest, SrcFront, SrcCheck, SrcUnmark, SrcAdvance, SrcPair, FrameDone
  <2>2. ingress \in Seq(Values)
    BY DEF FlightTypeOK
  <2>3. ingress # <<>> => Tail(ingress) \in Seq(Values)
    BY <2>2, HeadTailProperties
  <2> QED  BY <2>1, <2>2, <2>3 DEF Popped
<1>5. FlightTypeOK'
  BY <1>1, <1>2, <1>3, <1>4 DEF FlightTypeOK
<1>6. Coming' = Coming
  BY <1>1 DEF Coming, InHand
<1>7. \A n : TimeOf(n)' = TimeOf(n)
  BY <1>1 DEF TimeOf
<1>8. FramesInv'
  <2>1. arrived \in Nat /\ lost \in Nat /\ Coming \in Nat
    BY DEF FlightTypeOK, Coming, InHand
  <2>2. Coming' + lost' + (IF outputAt' = "idle" THEN 0 ELSE 1) <= arrived'
    BY <1>1, <1>6, <2>1 DEF FramesInv
  <2> QED  BY <1>1, <1>2, <1>6, <1>7, <2>2 DEF FramesInv
<1> QED  BY <1>1, <1>2, <1>5, <1>6, <1>8

(* What ingress_timestamps holds of frames that have not left yet.         *)
Base == IF outputAt = "pair" THEN Tail(ingress) ELSE ingress

(* The two rings go along with each other: they hold the times of the same *)
(* frames, but for those that one of the threads has in one ring only.     *)
IngressInv ==
  Held = IF Stamping THEN Pushed(Base, TimeOf(arrived), Size) ELSE Base

(* A frame whose times the frame at the output may have.                   *)
Lagging(n) ==
  /\ n \in Frames /\ n <= frame.number
  /\ frame.number - n <= lost /\ frame.number - n < Size

(* The output's thread attaches the two times of one such frame.           *)
MetaInv ==
  /\ strips /\ outputAt \in {"check", "unmark", "advance"} =>
       frame.capture = Held[1]
  /\ outputAt = "pair" =>
       /\ ingress # <<>>
       /\ \E n \in Frames : /\ Lagging(n)
                            /\ Head(ingress) = TimeOf(n)
                            /\ strips => frame.capture = TimeOf(n)
  /\ strips /\ outputAt = "send" =>
       \E n \in Frames : /\ Lagging(n)
                         /\ frame.capture = TimeOf(n)
                         /\ frame.ingress = TimeOf(n)

TimesInv == RingShape /\ HeldInv /\ IngressInv /\ MetaInv

(* All of this in a step that leaves the ring, and the frames there are.   *)
LEMMA HeldUnchanged ==
  ASSUME HeldInv, Held' = Held, arrived' = arrived, untimed' = untimed,
         Coming' + AtRing' <= Len(Held), Len(Held) <= Coming' + AtRing' + lost',
         AtRing' = 1 => arrived - frame'.number < Len(Held)
  PROVE  HeldInv'
<1>1. \A n : TimeOf(n)' = TimeOf(n)
  BY DEF TimeOf
<1> QED  BY <1>1 DEF HeldInv

(* Losses only widen the range a frame's times may be from.                *)
LEMMA MetaUnchanged ==
  ASSUME FlightTypeOK, MetaInv, lost' \in Nat, lost' >= lost,
         UNCHANGED <<outputAt, frame, strips, untimed>>,
         outputAt \in {"check", "unmark", "advance"} => Held'[1] = Held[1],
         outputAt = "pair" =>
           (ingress # <<>> => ingress' # <<>> /\ Head(ingress') = Head(ingress))
  PROVE  MetaInv'
<1>1. \A n : TimeOf(n)' = TimeOf(n)
  BY DEF TimeOf
<1>2. \A n \in Frames : Lagging(n) => Lagging(n)'
  <2>1. \A n \in Frames : n \in Nat
    BY DEF Frames
  <2>2. frame.number \in Nat /\ lost \in Nat
    BY EncoderFits DEF FlightTypeOK
  <2> QED  BY <2>1, <2>2 DEF Lagging
<1>3. strips' /\ outputAt' \in {"check", "unmark", "advance"} =>
        frame'.capture = Held'[1]
  BY DEF MetaInv
<1>4. ASSUME outputAt = "pair"
      PROVE  /\ ingress' # <<>>
             /\ \E n \in Frames : /\ Lagging(n)'
                                  /\ Head(ingress') = TimeOf(n)'
                                  /\ strips' => frame'.capture = TimeOf(n)'
  <2>1. PICK n \in Frames : /\ ingress # <<>> /\ Lagging(n)
                            /\ Head(ingress) = TimeOf(n)
                            /\ strips => frame.capture = TimeOf(n)
    BY <1>4 DEF MetaInv
  <2>2. Lagging(n)' /\ TimeOf(n)' = TimeOf(n)
    BY <1>1, <1>2, <2>1
  <2>3. ingress' # <<>> /\ Head(ingress') = Head(ingress)
    BY <1>4, <2>1
  <2> QED  BY <2>1, <2>2, <2>3
<1>5. ASSUME strips, outputAt = "send"
      PROVE  \E n \in Frames : /\ Lagging(n)'
                               /\ frame'.capture = TimeOf(n)'
                               /\ frame'.ingress = TimeOf(n)'
  <2>1. PICK n \in Frames : /\ Lagging(n)
                            /\ frame.capture = TimeOf(n)
                            /\ frame.ingress = TimeOf(n)
    BY <1>5 DEF MetaInv
  <2>2. Lagging(n)' /\ TimeOf(n)' = TimeOf(n)
    BY <1>1, <1>2, <2>1
  <2> QED  BY <2>1, <2>2
<1> QED  BY <1>3, <1>4, <1>5 DEF MetaInv

(* A frame that arrives puts its time behind the others.                   *)
LEMMA SinkWriteTimes ==
  ASSUME FlightTypeOK, FlightTypeOK', FramesInv, TimesInv, ~Crossing', SinkWrite
  PROVE  TimesInv'
<1>1. /\ sourceAt = "idle" /\ sourceAt' = "check" /\ arrived' = arrived + 1
      /\ UNCHANGED <<encoder, ingress, strips, untimed, lost, outputAt, frame>>
  BY DEF SinkWrite, SinkStep, encoderFate, senderVars
<1>2. /\ RingShape' /\ Held' = Pushed(Held, TimeOf(arrived'), Size)
      /\ Probing => Len(Held) < Size
  BY SinkWriteRing DEF TimesInv
<1>3. RingFacts
  BY RingIsHeld DEF TimesInv
<1>4. /\ arrived \in Nat /\ lost \in Nat /\ Len(encoder) \in Nat
      /\ arrived' \in 0 .. MaxFrames /\ MaxFrames \in Nat /\ Values = 0 .. MaxFrames
      /\ untimed \in Nat /\ Size \in Nat \ {0} /\ EncoderDepth < Size
      /\ EncoderDepth \in Nat /\ frame.number \in Nat
  BY EncoderFits, SizeAssumption DEF FlightTypeOK
<1>5. \A n : TimeOf(n)' = TimeOf(n)
  BY <1>1 DEF TimeOf
<1>6. Coming = Len(encoder) /\ Coming' = Coming + 1 /\ AtRing' = AtRing
  BY <1>1, <1>4 DEF Coming, InHand, AtRing
<1> DEFINE h == Held
           g == Held'
           t == TimeOf(arrived')
<1>7. h \in Seq(Values) /\ Len(h) \in 0 .. Size /\ t \in Values
  <2>1. HeldOK
    BY HeldType DEF FlightTypeOK
  <2>2. TimeOf(arrived') \in Values
    BY <1>4 DEF TimeOf, NoTime
  <2> QED  BY <1>4, <2>1, <2>2 DEF HeldOK
<1>8. /\ g = Pushed(h, t, Size) /\ (Probing => Len(h) < Size)
      /\ Coming + AtRing <= Len(h) /\ Len(h) <= Coming + AtRing + lost
      /\ AtRing = 1 => arrived - frame.number < Len(h)
      /\ \A i \in 1 .. Len(h) : h[i] = TimeOf(arrived - Len(h) + i)
  BY <1>2 DEF TimesInv, HeldInv
<1>9. AtRing \in 0 .. 1 /\ (AtRing = 1 => Probing)
  BY DEF AtRing, Probing
<1> HIDE DEF h, g
<1>10. PushedOK(Values, h, t, Size)
  <2> HIDE DEF t
  <2> QED  BY <1>4, <1>7, PushedSeq
<1>11. CASE Len(h) < Size
  <2>1. /\ Len(g) = Len(h) + 1 /\ g[Len(h) + 1] = t
        /\ \A i \in 1 .. Len(h) : g[i] = h[i]
    BY <1>8, <1>10, <1>11 DEF PushedOK
  <2>2. ASSUME NEW i \in 1 .. Len(g)
        PROVE  g[i] = TimeOf(arrived' - Len(g) + i)
    <3>1. CASE i = Len(h) + 1
      <4>1. arrived' - Len(g) + i = arrived'
        BY <1>1, <1>4, <1>7, <2>1, <3>1
      <4> QED  BY <2>1, <3>1, <4>1
    <3>2. CASE i # Len(h) + 1
      <4>1. i \in 1 .. Len(h) /\ arrived' - Len(g) + i = arrived - Len(h) + i
        BY <1>1, <1>4, <1>7, <2>1, <3>2
      <4> QED  BY <1>8, <2>1, <4>1
    <3> QED  BY <3>1, <3>2
  <2>3. HeldInv'
    <3>1. Coming \in Nat /\ Len(g) \in Nat
      BY <1>4, <1>6, <1>7, <2>1
    <3>2. /\ arrived \in Nat /\ lost \in Nat /\ Len(h) \in Nat /\ AtRing \in 0 .. 1
          /\ Coming' = Coming + 1 /\ AtRing' = AtRing /\ Len(g) = Len(h) + 1
          /\ arrived' = arrived + 1 /\ frame'.number = frame.number /\ lost' = lost
          /\ frame.number \in Nat
      BY <1>1, <1>4, <1>6, <1>7, <1>9, <2>1
    <3>3. Coming' + AtRing' <= Len(g)
      BY <1>8, <3>1, <3>2
    <3>4. Len(g) <= Coming' + AtRing' + lost'
      BY <1>8, <3>1, <3>2
    <3>5. AtRing' = 1 => arrived' - frame'.number < Len(g)
      BY <1>8, <3>2
    <3> QED  BY <1>5, <2>2, <3>3, <3>4, <3>5 DEF HeldInv, g
  <2>4. AtRing = 1 => g[1] = h[1]
    BY <1>4, <1>6, <1>7, <1>8, <2>1
  <2> QED
    <3>1. MetaInv'
      <4>1. outputAt \in {"check", "unmark", "advance"} => Held'[1] = Held[1]
        BY <2>4 DEF AtRing, g, h
      <4> QED  BY <1>1, <1>4, <4>1, MetaUnchanged DEF TimesInv
    <3>2. IngressInv'
      <4>1. Held = Base /\ Base' = Base /\ Stamping'
        BY <1>1 DEF TimesInv, IngressInv, Base, Stamping
      <4> QED  BY <1>2, <1>5, <4>1 DEF IngressInv
    <3> QED  BY <1>2, <2>3, <3>1, <3>2 DEF TimesInv
<1>12. CASE Len(h) = Size
  <2>1. /\ Len(g) = Size /\ g[Size] = t /\ ~Probing /\ AtRing = 0
        /\ \A i \in 1 .. Size - 1 : g[i] = h[i + 1]
    BY <1>4, <1>8, <1>9, <1>10, <1>12 DEF PushedOK
  <2>2. ASSUME NEW i \in 1 .. Len(g)
        PROVE  g[i] = TimeOf(arrived' - Len(g) + i)
    <3>1. CASE i = Size
      <4>1. arrived' - Len(g) + i = arrived'
        BY <1>1, <1>4, <2>1, <3>1
      <4> QED  BY <2>1, <3>1, <4>1
    <3>2. CASE i # Size
      <4>1. i \in 1 .. Size - 1 /\ i + 1 \in 1 .. Len(h)
        BY <1>4, <1>12, <2>1, <3>2
      <4>2. arrived' - Len(g) + i = arrived - Len(h) + (i + 1)
        BY <1>1, <1>4, <1>12, <2>1
      <4> QED  BY <1>8, <2>1, <4>1, <4>2
    <3> QED  BY <3>1, <3>2
  <2>3. Coming' <= Size
    BY <1>4, <1>6 DEF FramesInv
  <2>4. HeldInv'
    <3>1. AtRing' = 0 /\ lost' = lost /\ Coming' = Coming + 1 /\ Len(g) = Size
      BY <1>1, <1>6, <2>1
    <3>2. Coming' + AtRing' <= Len(g)
      BY <1>4, <1>6, <2>3, <3>1
    <3>3. Len(g) <= Coming' + AtRing' + lost'
      BY <1>4, <1>6, <1>8, <1>12, <2>1, <3>1
    <3> QED  BY <1>5, <2>2, <3>1, <3>2, <3>3 DEF HeldInv, g
  <2> QED
    <3>1. MetaInv'
      <4>1. outputAt \notin {"check", "unmark", "advance"}
        BY <2>1 DEF AtRing
      <4> QED  BY <1>1, <1>4, <4>1, MetaUnchanged DEF TimesInv
    <3>2. IngressInv'
      <4>1. Held = Base /\ Base' = Base /\ Stamping'
        BY <1>1 DEF TimesInv, IngressInv, Base, Stamping
      <4> QED  BY <1>2, <1>5, <4>1 DEF IngressInv
    <3> QED  BY <1>2, <2>4, <3>1, <3>2 DEF TimesInv
<1> QED  BY <1>4, <1>7, <1>11, <1>12

(* The other statements of a push, and the encoder, change none of this.   *)
LEMMA SinkTimes ==
  ASSUME FlightTypeOK, FlightTypeOK', FramesInv, TimesInv, ~Crossing',
         SinkCheck \/ SinkEvict \/ SinkAdvance \/ SinkMark \/ EnterEncoder
  PROVE  TimesInv' /\ Held' = Held
<1>1. /\ UNCHANGED <<arrived, ingress, strips, untimed, lost, outputAt, frame>>
  BY DEF SinkCheck, SinkEvict, SinkAdvance, SinkMark, EnterEncoder, SinkStep,
         encoderFate, senderVars
<1>2. RingShape' /\ Held' = Held
  BY SinkRing DEF TimesInv
<1>3. lost \in Nat /\ Len(encoder) \in Nat
  BY DEF FlightTypeOK
<1>4. Coming' = Coming /\ AtRing' = AtRing /\ Stamping' = Stamping
  <2>1. CASE SinkCheck \/ SinkEvict \/ SinkAdvance \/ SinkMark
    <3>1. /\ sourceAt \notin {"idle", "encode"} /\ sourceAt' \notin {"idle", "encode"}
          /\ encoder' = encoder
      BY <2>1 DEF SinkCheck, SinkEvict, SinkAdvance, SinkMark, SinkStep
    <3> QED  BY <1>1, <3>1 DEF Coming, InHand, AtRing, Stamping
  <2>2. CASE EnterEncoder
    <3>1. /\ sourceAt = "encode" /\ sourceAt' = "idle"
          /\ Len(encoder') = Len(encoder) + 1
      BY <2>2 DEF EnterEncoder, SinkStep, FlightTypeOK
    <3> QED  BY <1>1, <1>3, <3>1 DEF Coming, InHand, AtRing, Stamping
  <2> QED  BY <2>1, <2>2
<1>5. HeldInv'
  <2>1. /\ Coming' + AtRing' <= Len(Held) /\ Len(Held) <= Coming' + AtRing' + lost'
        /\ AtRing' = 1 => arrived - frame'.number < Len(Held)
    BY <1>1, <1>4 DEF TimesInv, HeldInv
  <2> QED  BY <1>1, <1>2, <2>1, HeldUnchanged DEF TimesInv
<1>6. MetaInv'
  BY <1>1, <1>2, <1>3, MetaUnchanged DEF TimesInv
<1>7. IngressInv'
  <2>1. Base' = Base /\ TimeOf(arrived)' = TimeOf(arrived)
    BY <1>1 DEF Base, TimeOf
  <2> QED  BY <1>2, <1>4, <2>1 DEF TimesInv, IngressInv
<1> QED  BY <1>2, <1>5, <1>6, <1>7 DEF TimesInv

(* The second ring catches up with the first.                              *)
LEMMA SinkIngressTimes ==
  ASSUME FlightTypeOK, FlightTypeOK', FramesInv, TimesInv, ~Crossing', SinkIngress
  PROVE  TimesInv' /\ Held' = Held
<1>1. /\ sourceAt = "ingress" /\ sourceAt' = "encode"
      /\ UNCHANGED <<arrived, encoder, strips, untimed, lost, outputAt, frame>>
      /\ ingress' = Pushed(ingress, TimeOf(arrived), Size)
  BY DEF SinkIngress, SinkStep, encoderFate, senderVars
<1>2. RingShape' /\ Held' = Held
  BY SinkRing DEF TimesInv
<1>3. RingFacts
  BY RingIsHeld DEF TimesInv
<1>4. /\ lost \in Nat /\ Size \in Nat \ {0} /\ ingress \in Seq(Values)
      /\ TimeOf(arrived) \in Values
  BY EncoderFits, SizeAssumption DEF FlightTypeOK, TimeOf, NoTime
<1>5. Coming' = Coming /\ AtRing' = AtRing /\ Stamping /\ ~Stamping'
  BY <1>1 DEF Coming, InHand, AtRing, Stamping
<1>6. HeldInv'
  <2>1. /\ Coming' + AtRing' <= Len(Held) /\ Len(Held) <= Coming' + AtRing' + lost'
        /\ AtRing' = 1 => arrived - frame'.number < Len(Held)
    BY <1>1, <1>5 DEF TimesInv, HeldInv
  <2> QED  BY <1>1, <1>2, <2>1, HeldUnchanged DEF TimesInv
<1>7. Held = Pushed(Base, TimeOf(arrived), Size)
  BY <1>5 DEF TimesInv, IngressInv
<1>8. CASE outputAt # "pair"
  <2>1. Base = ingress /\ Base' = ingress'
    BY <1>1, <1>8 DEF Base
  <2>2. IngressInv'
    BY <1>1, <1>2, <1>5, <1>7, <2>1 DEF IngressInv
  <2>3. MetaInv'
    BY <1>1, <1>2, <1>4, <1>8, MetaUnchanged DEF TimesInv
  <2> QED  BY <1>2, <1>6, <2>2, <2>3 DEF TimesInv
<1>9. CASE outputAt = "pair"
  <2> DEFINE q == ingress
             r == Tail(ingress)
             t == TimeOf(arrived)
  <2>1. q # <<>> /\ q \in Seq(Values) /\ Len(q) \in Nat \ {0} /\ t \in Values
    BY <1>4, <1>9 DEF TimesInv, MetaInv
  <2>2. /\ r \in Seq(Values) /\ Len(r) = Len(q) - 1
        /\ \A i \in 1 .. Len(q) - 1 : r[i] = q[i + 1]
    BY <2>1, HeadTailProperties
  <2>3. Len(Pushed(r, t, Size)) < Size
    <3>1. Stamping /\ Probing
      BY <1>5, <1>9 DEF Probing
    <3>2. Held = Pushed(r, t, Size)
      BY <1>7, <1>9 DEF Base
    <3> QED  BY <1>3, <3>1, <3>2 DEF RingFacts
  <2> HIDE DEF q, r, t
  <2>4. Len(r) # Size /\ Pushed(r, t, Size) = Append(r, t)
    <3>1. PushedOK(Values, r, t, Size)
      BY <1>4, <2>1, <2>2, PushedSeq
    <3>2. Len(r) # Size
      BY <1>4, <2>3, <3>1 DEF PushedOK
    <3> QED  BY <3>2 DEF Pushed
  <2>5. Len(q) < Size /\ Pushed(q, t, Size) = Append(q, t)
    <3>1. Len(Append(r, t)) = Len(r) + 1
      BY <2>1, <2>2
    <3>2. Len(q) < Size
      BY <1>4, <2>1, <2>2, <2>3, <2>4, <3>1
    <3> QED  BY <1>4, <3>2 DEF Pushed
  <2>6. /\ Append(q, t) # <<>> /\ Head(Append(q, t)) = Head(q)
        /\ Tail(Append(q, t)) = Append(r, t)
    BY <2>1, <2>2 DEF q, r
  <2>7. ingress' = Append(q, t)
    BY <1>1, <2>5 DEF q, t
  <2>8. IngressInv'
    <3>1. Base = r /\ Base' = Append(r, t)
      BY <1>1, <1>9, <2>6, <2>7 DEF Base, r
    <3>2. Held' = Append(r, t)
      BY <1>2, <1>7, <2>4, <3>1 DEF t
    <3> QED  BY <1>5, <3>1, <3>2 DEF IngressInv
  <2>9. MetaInv'
    <3>1. ingress' # <<>> /\ Head(ingress') = Head(ingress)
      BY <2>6, <2>7 DEF q
    <3> QED  BY <1>1, <1>2, <1>4, <3>1, MetaUnchanged DEF TimesInv
  <2> QED  BY <1>2, <1>6, <2>8, <2>9 DEF TimesInv
<1> QED  BY <1>8, <1>9

(* Frames that are lost leave their times behind.                          *)
LEMMA LossTimes ==
  ASSUME FlightTypeOK, FlightTypeOK', FramesInv, TimesInv, ~Crossing',
         LoseFrame \/ Stop \/ StartFails
  PROVE  TimesInv' /\ Held' = Held
<1>1. /\ lost' >= lost /\ lost' \in Nat /\ Coming' + lost' = Coming + lost
      /\ UNCHANGED <<ring, sourceVars, ingress, outputAt, frame, strips, untimed>>
  BY LossFrames
<1>2. sourceAt' = sourceAt /\ arrived' = arrived
  BY <1>1 DEF sourceVars
<1>3. RingShape' /\ Held' = Held
  BY <1>1, <1>2, RingUntouched DEF TimesInv
<1>4. /\ lost \in Nat /\ Coming \in Nat /\ Coming' \in Nat /\ AtRing \in 0 .. 1
      /\ AtRing' = AtRing /\ Stamping' = Stamping
  <2>1. Len(encoder) \in Nat /\ Len(encoder') \in Nat
    BY DEF FlightTypeOK
  <2> QED  BY <1>1, <1>2, <2>1 DEF Coming, InHand, AtRing, Stamping, FlightTypeOK
<1>5. RingFacts
  BY RingIsHeld DEF TimesInv
<1>6. HeldInv'
  <2>1. /\ Coming + AtRing <= Len(Held) /\ Len(Held) <= Coming + AtRing + lost
        /\ AtRing = 1 => arrived - frame.number < Len(Held)
        /\ Len(Held) \in Nat
    BY <1>5, SizeAssumption DEF TimesInv, HeldInv, RingFacts
  <2> DEFINE c == Coming'
             l == lost'
             a == AtRing'
  <2>2. /\ c \in Nat /\ l \in Nat /\ l >= lost /\ c + l = Coming + lost
        /\ a = AtRing /\ Coming \in Nat /\ lost \in Nat /\ AtRing \in 0 .. 1
    BY <1>1, <1>4
  <2> HIDE DEF c, l, a
  <2>3. c + a <= Len(Held) /\ Len(Held) <= c + a + l
    BY <2>1, <2>2
  <2>4. Coming' + AtRing' <= Len(Held)
    BY <2>3 DEF c, a
  <2>5. Len(Held) <= Coming' + AtRing' + lost'
    BY <2>3 DEF c, a, l
  <2>6. AtRing' = 1 => arrived - frame'.number < Len(Held)
    BY <1>1, <1>4, <2>1
  <2> QED  BY <1>1, <1>2, <1>3, <2>4, <2>5, <2>6, HeldUnchanged DEF TimesInv
<1>7. MetaInv'
  BY <1>1, <1>3, MetaUnchanged DEF TimesInv
<1>8. IngressInv'
  <2>1. Base' = Base /\ TimeOf(arrived)' = TimeOf(arrived)
    BY <1>1, <1>2 DEF Base, TimeOf
  <2> QED  BY <1>3, <1>4, <2>1 DEF TimesInv, IngressInv
<1> QED  BY <1>3, <1>6, <1>7, <1>8 DEF TimesInv

(* The next frame finds its time in the ring, or one from before.          *)
LEMMA SrcTakeTimes ==
  ASSUME FlightTypeOK, FlightTypeOK', FramesInv, TimesInv, ~Crossing', SrcTake
  PROVE  TimesInv' /\ Held' = Held
<1>1. /\ outputAt = "idle" /\ outputAt' = "test"
      /\ UNCHANGED <<ring, ingress, arrived, sourceAt, strips, untimed, lost>>
  BY DEF SrcTake, SrcStep, sourceVars, encoderFate
<1>2. /\ Coming' = Coming - 1 /\ Coming \in Nat
      /\ frame'.number = arrived - Coming + 1
  BY TakeFrames
<1>3. RingShape' /\ Held' = Held
  BY <1>1, RingUntouched DEF TimesInv
<1>4. AtRing = 0 /\ AtRing' = 1 /\ Stamping' = Stamping
  BY <1>1 DEF AtRing, Stamping
<1>5. /\ Coming <= Len(Held) /\ Len(Held) <= Coming + lost
      /\ Len(Held) \in Nat /\ lost \in Nat /\ arrived \in Nat
  <2>1. RingFacts
    BY RingIsHeld DEF TimesInv
  <2>2. Len(Held) \in Nat /\ lost \in Nat /\ arrived \in Nat
    BY <2>1, SizeAssumption DEF RingFacts, FlightTypeOK
  <2> QED  BY <1>2, <1>4, <2>2 DEF TimesInv, HeldInv
<1>6. HeldInv'
  <2>1. Coming' + AtRing' <= Len(Held)
    BY <1>2, <1>4, <1>5
  <2>2. Len(Held) <= Coming' + AtRing' + lost'
    BY <1>1, <1>2, <1>4, <1>5
  <2>3. arrived - frame'.number < Len(Held)
    BY <1>2, <1>5
  <2> QED  BY <1>1, <1>3, <2>1, <2>2, <2>3, HeldUnchanged DEF TimesInv
<1>7. MetaInv'
  BY <1>1 DEF MetaInv
<1>8. IngressInv'
  <2>1. Base' = Base /\ TimeOf(arrived)' = TimeOf(arrived)
    BY <1>1 DEF Base, TimeOf
  <2> QED  BY <1>3, <1>4, <2>1 DEF TimesInv, IngressInv
<1> QED  BY <1>3, <1>6, <1>7, <1>8 DEF TimesInv

(* The probe finds a time, and takes the oldest for the frame's.           *)
LEMMA SrcProbeTimes ==
  ASSUME FlightTypeOK, FlightTypeOK', FramesInv, TimesInv, ~Crossing',
         SrcTest \/ SrcFront \/ SrcCheck \/ SrcUnmark
  PROVE  TimesInv' /\ Held' = Held
<1>1. RingFacts
  BY RingIsHeld DEF TimesInv
<1>2. /\ outputAt \in {"test", "front", "check", "unmark"}
      /\ ~Empty /\ Front = Held[1]
  BY <1>1 DEF RingFacts, SrcTest, SrcFront, SrcCheck, SrcUnmark, SrcStep
<1>3. /\ outputAt' \in {"front", "check", "unmark", "advance"}
      /\ UNCHANGED <<ingress, arrived, sourceAt, strips, untimed, lost>>
  BY <1>2 DEF SrcTest, SrcFront, SrcCheck, SrcUnmark, SrcStep, sourceVars,
              encoderFate
<1>4. RingShape' /\ Held' = Held
  <2>1. CASE SrcUnmark
    BY <2>1, SrcUnmarkRing DEF TimesInv
  <2>2. CASE SrcTest \/ SrcFront \/ SrcCheck
    <3>1. UNCHANGED ring /\ outputAt' # "advance" /\ outputAt # "advance"
      BY <1>2, <2>2 DEF SrcTest, SrcFront, SrcCheck, SrcStep
    <3> QED  BY <1>3, <3>1, RingUntouched DEF TimesInv
  <2> QED  BY <2>1, <2>2
<1>5. /\ Coming' = Coming /\ frame'.number = frame.number
  BY OutputFrames
<1>6. AtRing = 1 /\ AtRing' = 1 /\ Stamping' = Stamping
  BY <1>2, <1>3 DEF AtRing, Stamping
<1>7. HeldInv'
  <2>1. /\ Coming' + AtRing' <= Len(Held) /\ Len(Held) <= Coming' + AtRing' + lost'
        /\ AtRing' = 1 => arrived - frame'.number < Len(Held)
    BY <1>3, <1>5, <1>6 DEF TimesInv, HeldInv
  <2> QED  BY <1>3, <1>4, <2>1, HeldUnchanged DEF TimesInv
<1>8. MetaInv'
  <2>1. strips /\ outputAt' # "front" => frame'.capture = Held[1]
    <3>1. CASE SrcTest
      BY <1>2, <3>1 DEF SrcTest, SrcStep
    <3>2. CASE SrcFront
      <4>1. strips => frame' = [frame EXCEPT !.capture = Held[1]]
        BY <1>2, <3>2 DEF SrcFront
      <4> QED  BY <4>1 DEF FlightTypeOK
    <3>3. CASE SrcCheck \/ SrcUnmark
      <4>1. outputAt \in {"check", "unmark"} /\ frame' = frame
        BY <3>3 DEF SrcCheck, SrcUnmark, SrcStep
      <4> QED  BY <4>1 DEF TimesInv, MetaInv
    <3> QED  BY <3>1, <3>2, <3>3
  <2> QED  BY <1>3, <1>4, <2>1 DEF MetaInv
<1>9. IngressInv'
  <2>1. Base' = Base /\ TimeOf(arrived)' = TimeOf(arrived)
    BY <1>2, <1>3 DEF Base, TimeOf
  <2> QED  BY <1>4, <1>6, <2>1 DEF TimesInv, IngressInv
<1> QED  BY <1>4, <1>7, <1>8, <1>9 DEF TimesInv

(* That time leaves the ring; the other ring has one of the same frame.    *)
LEMMA SrcAdvanceTimes ==
  ASSUME FlightTypeOK, FlightTypeOK', FramesInv, TimesInv, ~Crossing', SrcAdvance
  PROVE  TimesInv' /\ Held # <<>> /\ Held' = Tail(Held)
<1>1. /\ outputAt = "advance" /\ outputAt' = "pair" /\ frame' = frame
      /\ UNCHANGED <<ingress, arrived, sourceAt, strips, untimed, lost>>
  BY DEF SrcAdvance, SrcStep, sourceVars, encoderFate
<1>2. RingShape' /\ Held # <<>> /\ Held' = Tail(Held)
  BY SrcAdvanceRing DEF TimesInv
<1>3. RingFacts
  BY RingIsHeld DEF TimesInv
<1>4. Coming' = Coming
  BY OutputFrames
<1>5. /\ AtRing = 1 /\ AtRing' = 0 /\ Stamping' = Stamping /\ Probing
  BY <1>1 DEF AtRing, Stamping, Probing
<1>6. /\ arrived \in Nat /\ lost \in Nat /\ Coming \in Nat /\ Size \in Nat \ {0}
      /\ frame.number \in 1 .. arrived - Coming /\ Coming + lost + 1 <= arrived
      /\ MaxFrames \in Nat /\ arrived \in 0 .. MaxFrames
      /\ Coming >= InHand
  <2>1. Len(encoder) \in Nat
    BY DEF FlightTypeOK
  <2> QED
    BY <1>1, <2>1, SizeAssumption, EncoderFits
       DEF FlightTypeOK, FramesInv, Coming, InHand
<1> DEFINE h == Held
           g == Held'
<1>7. h \in Seq(Values) /\ h # <<>> /\ Len(h) \in 0 .. Size /\ g = Tail(h)
  <2>1. HeldOK
    BY HeldType DEF FlightTypeOK
  <2> QED  BY <1>2, <1>3, <2>1 DEF HeldOK, RingFacts
<1>8. /\ Coming + 1 <= Len(h) /\ Len(h) <= Coming + 1 + lost
      /\ arrived - frame.number < Len(h)
      /\ \A i \in 1 .. Len(h) : h[i] = TimeOf(arrived - Len(h) + i)
  BY <1>5 DEF TimesInv, HeldInv
<1>9. /\ strips => frame.capture = h[1]
      /\ h = IF Stamping THEN Pushed(ingress, TimeOf(arrived), Size) ELSE ingress
      /\ Stamping => Len(h) < Size
  BY <1>1, <1>3, <1>5 DEF TimesInv, MetaInv, IngressInv, Base, RingFacts
<1>10. h' = g /\ Held' = g /\ Held = h
  OBVIOUS
<1> HIDE DEF h, g
<1>11. /\ g \in Seq(Values) /\ Len(g) = Len(h) - 1 /\ Len(h) \in 1 .. Size
       /\ \A i \in 1 .. Len(h) - 1 : g[i] = h[i + 1]
  <2>1. Len(h) \in Nat \ {0}
    BY <1>7, EmptySeq
  <2> QED  BY <1>6, <1>7, <2>1, HeadTailProperties
<1>12. \A n : TimeOf(n)' = TimeOf(n)
  BY <1>1 DEF TimeOf
<1>13. HeldInv'
  <2>1. ASSUME NEW i \in 1 .. Len(g)
        PROVE  g[i] = TimeOf(arrived - Len(g) + i)
    <3>1. i \in 1 .. Len(h) - 1 /\ i + 1 \in 1 .. Len(h)
      BY <1>11
    <3>2. arrived - Len(g) + i = arrived - Len(h) + (i + 1)
      BY <1>6, <1>11
    <3> QED  BY <1>8, <1>11, <3>1, <3>2
  <2>2. Coming' + AtRing' <= Len(g)
    BY <1>4, <1>5, <1>6, <1>8, <1>11
  <2>3. Len(g) <= Coming' + AtRing' + lost'
    BY <1>1, <1>4, <1>5, <1>6, <1>8, <1>11
  <2>4. AtRing' # 1
    BY <1>5
  <2> QED  BY <1>1, <1>10, <1>12, <2>1, <2>2, <2>3, <2>4 DEF HeldInv
<1>14. /\ ingress # <<>> /\ Head(ingress) = h[1]
       /\ g = IF Stamping THEN Pushed(Tail(ingress), TimeOf(arrived), Size)
                          ELSE Tail(ingress)
  <2>1. CASE ~Stamping
    BY <1>7, <1>9, <2>1
  <2>2. CASE Stamping
    <3> DEFINE q == ingress
               t == TimeOf(arrived)
    <3>1. q \in Seq(Values) /\ t \in Values
      BY <1>6, EncoderFits DEF FlightTypeOK, TimeOf, NoTime
    <3>2. h = Pushed(q, t, Size) /\ Len(h) < Size /\ Len(h) >= 2
      <4>1. InHand = 1
        BY <2>2 DEF Stamping, InHand
      <4> QED  BY <1>6, <1>8, <1>9, <1>11, <2>2, <4>1
    <3> HIDE DEF q, t
    <3>3. h = Append(q, t)
      <4>1. PushedOK(Values, q, t, Size)
        BY <1>6, <3>1, PushedSeq
      <4>2. Len(q) # Size
        BY <1>6, <3>2, <4>1 DEF PushedOK
      <4> QED  BY <3>2, <4>2 DEF Pushed
    <3>4. q # <<>> /\ Len(q) = Len(h) - 1
      <4>1. Len(q) \in Nat /\ Len(Append(q, t)) = Len(q) + 1
        BY <3>1
      <4> QED  BY <3>1, <3>2, <3>3, <4>1
    <3>5. /\ Head(q) = h[1] /\ Tail(h) = Append(Tail(q), t)
          /\ Len(Tail(q)) = Len(q) - 1
      BY <3>1, <3>3, <3>4
    <3>6. Pushed(Tail(q), t, Size) = Append(Tail(q), t)
      BY <1>6, <1>11, <3>2, <3>4, <3>5 DEF Pushed
    <3>7. q = ingress /\ t = TimeOf(arrived)
      BY DEF q, t
    <3> QED  BY <1>7, <2>2, <3>4, <3>5, <3>6, <3>7
  <2> QED  BY <2>1, <2>2
<1>15. IngressInv'
  <2>1. Base' = Tail(ingress) /\ TimeOf(arrived)' = TimeOf(arrived)
    BY <1>1 DEF Base, TimeOf
  <2>2. g = IF Stamping' THEN Pushed(Base', TimeOf(arrived)', Size) ELSE Base'
    BY <1>5, <1>14, <2>1
  <2> QED  BY <1>10, <2>2 DEF IngressInv
<1>16. MetaInv'
  <2>1. PICK n \in Frames : n = arrived - Len(h) + 1
    <3>1. arrived - Len(h) + 1 \in Frames
      BY <1>6, <1>8, <1>11 DEF Frames
    <3> QED  BY <3>1
  <2>2. h[1] = TimeOf(n)
    <3>1. 1 \in 1 .. Len(h)
      BY <1>11
    <3> QED  BY <1>8, <2>1, <3>1
  <2>3. Lagging(n)'
    <3> DEFINE l == Len(h)
               m == frame.number
    <3>1. /\ l \in Nat /\ m \in Int /\ arrived \in Nat /\ lost \in Nat
          /\ Coming \in Nat /\ n \in Int /\ Size \in Nat
      BY <1>6, <1>11, <2>1 DEF Frames
    <3>2. /\ l <= Size /\ l <= Coming + 1 + lost /\ Coming + 1 <= l
          /\ arrived - m < l /\ m <= arrived - Coming
          /\ n = arrived - l + 1
      BY <1>6, <1>8, <1>11, <2>1
    <3> HIDE DEF l, m
    <3>3. n <= m /\ m - n <= lost /\ m - n < Size
      BY <3>1, <3>2
    <3> QED  BY <1>1, <3>3 DEF Lagging, m
  <2>4. Head(ingress') = TimeOf(n)' /\ ingress' # <<>>
    BY <1>1, <1>12, <1>14, <2>2
  <2>5. strips' => frame'.capture = TimeOf(n)'
    BY <1>1, <1>9, <1>12, <2>2
  <2> QED  BY <1>1, <2>3, <2>4, <2>5 DEF MetaInv
<1> QED  BY <1>2, <1>13, <1>15, <1>16 DEF TimesInv

(* The ingress time that is attached is of the frame the other was of.     *)
LEMMA SrcPairTimes ==
  ASSUME FlightTypeOK, FlightTypeOK', FramesInv, TimesInv, ~Crossing',
         SrcPair \/ FrameDone
  PROVE  TimesInv' /\ Held' = Held
<1>1. /\ outputAt \in {"pair", "send"} /\ outputAt' \in {"send", "idle"}
      /\ UNCHANGED <<ring, arrived, sourceAt, strips, untimed, lost>>
  BY DEF SrcPair, FrameDone, SrcStep, sourceVars, encoderFate
<1>2. RingShape' /\ Held' = Held
  <2>1. outputAt # "advance" /\ outputAt' # "advance"
    BY <1>1
  <2> QED  BY <1>1, <2>1, RingUntouched DEF TimesInv
<1>3. Coming' = Coming /\ frame'.number = frame.number
  BY OutputFrames
<1>4. AtRing = 0 /\ AtRing' = 0 /\ Stamping' = Stamping
  BY <1>1 DEF AtRing, Stamping
<1>5. HeldInv'
  <2>1. /\ Coming' + AtRing' <= Len(Held) /\ Len(Held) <= Coming' + AtRing' + lost'
        /\ AtRing' = 1 => arrived - frame'.number < Len(Held)
    BY <1>1, <1>3, <1>4 DEF TimesInv, HeldInv
  <2> QED  BY <1>1, <1>2, <2>1, HeldUnchanged DEF TimesInv
<1>6. TimeOf(arrived)' = TimeOf(arrived) /\ \A n : TimeOf(n)' = TimeOf(n)
  BY <1>1 DEF TimeOf
<1>7. CASE SrcPair
  <2>1. outputAt = "pair" /\ outputAt' = "send" /\ ingress' = Popped(ingress)
    BY <1>7 DEF SrcPair, SrcStep
  <2>2. PICK n \in Frames : /\ ingress # <<>> /\ Lagging(n)
                            /\ Head(ingress) = TimeOf(n)
                            /\ strips => frame.capture = TimeOf(n)
    BY <2>1 DEF TimesInv, MetaInv
  <2>3. strips => frame' = [frame EXCEPT !.ingress = TimeOf(n)]
    BY <1>7, <2>2 DEF SrcPair
  <2>4. strips => frame'.capture = TimeOf(n) /\ frame'.ingress = TimeOf(n)
    BY <2>2, <2>3 DEF FlightTypeOK
  <2>5. Lagging(n)' /\ TimeOf(n)' = TimeOf(n)
    BY <1>1, <1>3, <1>6, <2>2 DEF Lagging
  <2>6. MetaInv'
    BY <1>1, <2>1, <2>4, <2>5 DEF MetaInv
  <2>7. Base = Tail(ingress) /\ Base' = Tail(ingress)
    BY <2>1, <2>2 DEF Base, Popped
  <2>8. IngressInv'
    BY <1>2, <1>4, <1>6, <2>7 DEF TimesInv, IngressInv
  <2> QED  BY <1>2, <1>5, <2>6, <2>8 DEF TimesInv
<1>8. CASE FrameDone
  <2>1. outputAt = "send" /\ outputAt' = "idle" /\ ingress' = ingress
    BY <1>8 DEF FrameDone, SrcStep
  <2>2. Base' = Base
    BY <2>1 DEF Base
  <2>3. IngressInv'
    BY <1>2, <1>4, <1>6, <2>2 DEF TimesInv, IngressInv
  <2>4. MetaInv'
    BY <2>1 DEF MetaInv
  <2> QED  BY <1>2, <1>5, <2>3, <2>4 DEF TimesInv
<1> QED  BY <1>7, <1>8

(* Until the probes have met in a ring without room.                       *)
FlightInv ==
  /\ FlightTypeOK
  /\ FramesInv
  /\ ~crossed => TimesInv

(* What a step may do to what the ring holds.                              *)
QueueStep ==
  HeldQueue!Push(TimeOf(arrived')) \/ HeldQueue!PopFront \/ UNCHANGED Held

(* The variables all this is about.                                        *)
flightVars ==
  <<ring, sourceVars, encoder, strips, untimed, lost, ingress, outputAt, frame>>

(* A step that leaves them alone.                                          *)
LEMMA RestKeepsFrames ==
  ASSUME FlightTypeOK, FramesInv, UNCHANGED flightVars
  PROVE  FlightTypeOK' /\ FramesInv'
<1>1. /\ UNCHANGED <<ring, arrived, sourceAt, encoder, strips, untimed, lost>>
      /\ UNCHANGED <<ingress, outputAt, frame>>
  BY DEF flightVars, sourceVars
<1>2. FlightTypeOK'
  BY <1>1 DEF FlightTypeOK, TypeOK, ring
<1>3. FramesInv'
  BY <1>1 DEF FramesInv, Coming, InHand, TimeOf
<1> QED  BY <1>2, <1>3

(* It keeps the times where they are, too.                                 *)
LEMMA RestKeepsTimes ==
  ASSUME FlightTypeOK, TimesInv, ~Crossing', UNCHANGED flightVars
  PROVE  TimesInv' /\ Held' = Held
<1>1. /\ UNCHANGED <<ring, arrived, sourceAt, encoder, strips, untimed, lost>>
      /\ UNCHANGED <<ingress, outputAt, frame>>
  BY DEF flightVars, sourceVars
<1>2. RingShape' /\ Held' = Held
  BY <1>1, RingUntouched DEF TimesInv
<1>3. /\ Coming' = Coming /\ AtRing' = AtRing /\ Stamping' = Stamping
  BY <1>1 DEF Coming, InHand, AtRing, Stamping
<1>4. HeldInv'
  <2>1. /\ Coming' + AtRing' <= Len(Held) /\ Len(Held) <= Coming' + AtRing' + lost'
        /\ AtRing' = 1 => arrived - frame'.number < Len(Held)
    BY <1>1, <1>3 DEF TimesInv, HeldInv
  <2> QED  BY <1>1, <1>2, <2>1, HeldUnchanged DEF TimesInv
<1>5. MetaInv'
  <2>1. lost \in Nat
    BY DEF FlightTypeOK
  <2> QED  BY <1>1, <1>2, <2>1, MetaUnchanged DEF TimesInv
<1>6. IngressInv'
  <2>1. Base' = Base /\ TimeOf(arrived)' = TimeOf(arrived)
    BY <1>1 DEF Base, TimeOf
  <2> QED  BY <1>2, <1>3, <2>1 DEF TimesInv, IngressInv
<1> QED  BY <1>2, <1>4, <1>5, <1>6 DEF TimesInv

(* Those steps are the rest of the pipeline's and of the statistics'.      *)
LEMMA OtherSteps ==
  ASSUME [FramesNext]_allVars
  PROVE  \/ Source \/ LoseFrame \/ Stop \/ StartFails \/ SrcTake
         \/ SrcTest \/ SrcFront \/ SrcCheck \/ SrcUnmark \/ SrcAdvance
         \/ SrcPair \/ FrameDone \/ UNCHANGED flightVars
<1>1. ASSUME \/ Start \/ ReachPlaying \/ LoseState \/ OnBusMessage
             \/ ReportBufferSent \/ PruneSentTimes \/ UNCHANGED allVars
      PROVE  UNCHANGED flightVars
  BY <1>1 DEF Start, ReachPlaying, LoseState, OnBusMessage, ReportBufferSent,
              PruneSentTimes, allVars, frameVars, flightVars, encoderFate,
              senderVars
<1> QED  BY <1>1 DEF FramesNext, Pipeline, Output

(* The types and the order of the frames, in every step.                   *)
LEMMA StepKeepsFrames ==
  ASSUME FlightTypeOK, FramesInv, [FramesNext]_allVars
  PROVE  FlightTypeOK' /\ FramesInv'
  BY OtherSteps, SourceFrames, LossFrames, TakeFrames, OutputFrames,
     RestKeepsFrames

(* While the probes have not met in a ring without room, every step keeps  *)
(* the times in order and changes the ring as a queue.                     *)
LEMMA StepKeepsTimes ==
  ASSUME FlightTypeOK, FlightTypeOK', FramesInv, TimesInv, ~Crossing',
         [FramesNext]_allVars
  PROVE  TimesInv' /\ QueueStep
<1> USE DEF QueueStep
<1>1. CASE SinkWrite
  <2>1. Held' = Pushed(Held, TimeOf(arrived'), Size)
    BY <1>1, SinkWriteRing DEF TimesInv
  <2>2. HeldQueue!Push(TimeOf(arrived'))
    BY <2>1 DEF HeldQueue!Push, Pushed
  <2> QED  BY <1>1, <2>2, SinkWriteTimes
<1>2. CASE SinkCheck \/ SinkEvict \/ SinkAdvance \/ SinkMark \/ EnterEncoder
  BY <1>2, SinkTimes
<1>3. CASE SinkIngress
  BY <1>3, SinkIngressTimes
<1>4. CASE LoseFrame \/ Stop \/ StartFails
  BY <1>4, LossTimes
<1>5. CASE SrcTake
  BY <1>5, SrcTakeTimes
<1>6. CASE SrcTest \/ SrcFront \/ SrcCheck \/ SrcUnmark
  BY <1>6, SrcProbeTimes
<1>7. CASE SrcAdvance
  BY <1>7, SrcAdvanceTimes DEF HeldQueue!PopFront
<1>8. CASE SrcPair \/ FrameDone
  BY <1>8, SrcPairTimes
<1>9. CASE UNCHANGED flightVars
  BY <1>9, RestKeepsTimes
<1> QED
  BY <1>1, <1>2, <1>3, <1>4, <1>5, <1>6, <1>7, <1>8, <1>9, OtherSteps DEF Source

(* crossed remembers whether they have.                                    *)
LEMMA CrossedRemembers ==
  ASSUME [FramesNext]_allVars, ~crossed'
  PROVE  ~crossed /\ (Crossing' => UNCHANGED allVars)
<1>1. CASE UNCHANGED allVars
  <2>1. crossed' = crossed
    BY <1>1 DEF allVars
  <2> QED  BY <1>1, <2>1
<1>2. CASE FramesNext
  <2>1. crossed' = (crossed \/ Crossing')
    BY <1>2 DEF FramesNext
  <2>2. ~(crossed \/ Crossing')
    <3> SUFFICES ASSUME crossed \/ Crossing' PROVE FALSE
      OBVIOUS
    <3>1. (crossed \/ Crossing') = TRUE
      OBVIOUS
    <3>2. crossed' = TRUE
      BY <2>1, <3>1
    <3> QED  BY <3>2
  <2> QED  BY <2>2
<1> QED  BY <1>1, <1>2

(* In a stuttering step nobody meets who has not met before.               *)
LEMMA StutterKeepsApart ==
  ASSUME TimesInv, UNCHANGED allVars
  PROVE  ~Crossing'
<1>1. /\ UNCHANGED <<buffer, head, tail, full, sourceAt, outputAt>>
  BY DEF allVars, frameVars, ring, sourceVars, senderVars
<1>2. Crossing' <=> Crossing
  BY <1>1 DEF Crossing, Stamping, Probing, Occupied, Stored, Count, Unmoved
<1> QED  BY <1>2 DEF TimesInv, RingShape

(* The invariant is inductive, and its steps are those of a queue.         *)
LEMMA FlightStep ==
  ASSUME FlightInv, [FramesNext]_allVars
  PROVE  FlightInv' /\ (crossed' \/ QueueStep)
<1>1. FlightTypeOK' /\ FramesInv'
  BY StepKeepsFrames DEF FlightInv
<1>2. ASSUME ~crossed'
      PROVE  TimesInv' /\ QueueStep
  <2>1. ~crossed /\ (Crossing' => UNCHANGED allVars)
    BY <1>2, CrossedRemembers
  <2>2. TimesInv
    BY <2>1 DEF FlightInv
  <2>3. ~Crossing'
    BY <2>1, <2>2, StutterKeepsApart
  <2> QED  BY <1>1, <2>2, <2>3, StepKeepsTimes DEF FlightInv
<1> QED  BY <1>1, <1>2 DEF FlightInv

(* An empty encoder, and nothing in the rings.                             *)
LEMMA FlightInit == FramesInit => FlightInv
<1> SUFFICES ASSUME FramesInit PROVE FlightInv
  OBVIOUS
<1>1. /\ head = 0 /\ tail = 0 /\ full = FALSE /\ buffer \in [Indices -> Values]
      /\ arrived = 0 /\ lost = 0 /\ sourceAt = "idle" /\ outputAt = "idle"
      /\ encoder = <<>> /\ ingress = <<>>
  BY DEF FramesInit, Init
<1>2. TypeOK /\ Size \in Nat \ {0}
  <2>1. full \in BOOLEAN
    BY <1>1, Zenon
  <2> QED  BY <1>1, <2>1, SizeAssumption DEF TypeOK, Indices
<1>3. FlightTypeOK
  <2>1. frame \in [number : Values, capture : Values, ingress : Values]
    BY EncoderFits DEF FramesInit, NoTime
  <2>2. untimed \in Nat /\ strips \in BOOLEAN
    BY EncoderFits DEF FramesInit
  <2> QED  BY <1>1, <1>2, <2>1, <2>2, EncoderFits DEF FlightTypeOK
<1>4. InHand = 0 /\ Coming = 0 /\ AtRing = 0 /\ ~Stamping
  BY <1>1 DEF InHand, Coming, AtRing, Stamping
<1>5. FramesInv
  BY <1>1, <1>4, EncoderFits DEF FramesInv
<1>6. Held = <<>>
  <2>1. Stored = 0
    BY <1>1 DEF Stored, Count
  <2>2. Num = 0
    BY <1>1, <1>2, <2>1 DEF Num, Occupied, Unmoved
  <2>3. HeldOK
    BY <1>2, HeldType
  <2> QED  BY <2>2, <2>3, EmptySeq DEF HeldOK
<1>7. RingShape
  BY <1>1, <1>4 DEF RingShape, Crossing
<1>8. HeldInv
  <2>1. Len(Held) = 0
    BY <1>6
  <2> QED  BY <1>1, <1>4, <2>1 DEF HeldInv
<1>9. IngressInv /\ MetaInv
  BY <1>1, <1>4, <1>6 DEF IngressInv, MetaInv, Base
<1> QED  BY <1>3, <1>5, <1>7, <1>8, <1>9 DEF FlightInv, TimesInv

(* Whatever is lost to drops of the encoder and to restarts: until the two *)
(* probes meet in a ring without room, both rings hold the times of the    *)
(* last frames that arrived, in order, and never fewer than are needed.    *)
THEOREM TimesInFlight == FramesSpec => []FlightInv
<1>1. FlightInv /\ [FramesNext]_allVars => FlightInv'
  BY FlightStep
<1> QED  BY <1>1, FlightInit, PTL DEF FramesSpec

(* Until then a frame leaves the encoder with the two times of one and the *)
(* same frame: at most as many frames earlier as the encoder has lost, and *)
(* less than the ring is long.                                             *)
THEOREM TimesLagBounded == FramesSpec => []TimesLagOnlyByLosses
<1>1. FlightInv => TimesLagOnlyByLosses
  <2> SUFFICES ASSUME FlightInv, outputAt = "send", strips => ~crossed
               PROVE  \E n \in Frames :
                        /\ n <= frame.number
                        /\ IF strips THEN frame.number - n <= lost
                                          /\ frame.number - n < Size
                                     ELSE n = frame.number
                        /\ frame.capture = TimeOf(n)
                        /\ frame.ingress = TimeOf(n)
    BY Zenon DEF TimesLagOnlyByLosses
  <2>1. CASE strips
    <3>1. PICK n \in Frames : /\ Lagging(n)
                              /\ frame.capture = TimeOf(n)
                              /\ frame.ingress = TimeOf(n)
      BY <2>1 DEF FlightInv, TimesInv, MetaInv
    <3> QED  BY <2>1, <3>1 DEF Lagging
  <2>2. CASE ~strips
    <3>1. /\ frame.number \in Frames
          /\ frame.capture = TimeOf(frame.number)
          /\ frame.ingress = TimeOf(frame.number)
      <4>1. /\ frame.number \in 1 .. arrived - Coming
            /\ frame.capture = TimeOf(frame.number)
            /\ frame.ingress = TimeOf(frame.number)
        BY <2>2 DEF FlightInv, FramesInv
      <4>2. arrived \in 0 .. MaxFrames /\ Coming \in Nat
        BY DEF FlightInv, FlightTypeOK, Coming, InHand
      <4> QED  BY <4>1, <4>2, EncoderFits DEF Frames
    <3>2. frame.number <= frame.number
      BY <3>1 DEF Frames
    <3> QED  BY <2>2, <3>1, <3>2
  <2> QED  BY <2>1, <2>2
<1> QED  BY <1>1, TimesInFlight, PTL

(* Until then push and pop_front, taken apart into their statements and    *)
(* run by two threads at once, change what the ring holds as those of a    *)
(* bounded queue do, a full one included: no other time is lost, repeated  *)
(* or reordered.                                                           *)
THEOREM InterleavedBoundedQueue == FramesSpec => QueuesUntilCrossed
<1>1. FlightInv /\ [FramesNext]_allVars =>
        [crossed' \/ HeldQueue!Push(TimeOf(arrived')) \/ HeldQueue!PopFront
         \/ UNCHANGED Held]_allVars
  BY FlightStep DEF QueueStep
<1> QED  BY <1>1, TimesInFlight, PTL DEF FramesSpec, QueuesUntilCrossed

=============================================================================
