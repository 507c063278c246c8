------------------------- MODULE CameraServer_proofs -------------------------
(***************************************************************************)
(* Proofs about CameraServer, for any number of cameras and outputs and    *)
(* any time constants: the type invariant; that the requests queued for    *)
(* the GStreamer thread, the rebuilds and the registered endpoints always  *)
(* fit the pipelines they are about; and, if that thread serves what the   *)
(* checks ask of it between two of them, that no pipeline is asked for     *)
(* twice, and that a check gives a start the time it needs.                *)
(***************************************************************************)
EXTENDS CameraServer, FiniteSetTheorems, TLAPS

(* What the invariants need besides each other: between checks no visit is *)
(* half done, a pipeline that is not built was never started, one that is  *)
(* being stopped is in NULL, and only built pipelines are wired, to a      *)
(* signaling server that is up.                                            *)
VisitInCheck       == cursor = 0 => seenState = "unread"
UnbuiltNotStarted  == \A p \in Pipelines : ~built[p] => sinceStart[p] = Unset
WiredAreBuilt      == wired \subseteq {p \in WebrtcPipelines : built[p]}
WiredNeedSignaling == ~signalingUp => wired = {}
StoppingIsNull     ==
  \A p \in Pipelines : gstTask = <<"stop", p>> => state[p] = "NULL"

Strengthening ==
  /\ VisitInCheck /\ UnbuiltNotStarted /\ StoppingIsNull
  /\ WiredAreBuilt /\ WiredNeedSignaling

(* The inductive invariant.                                                *)
IInv ==
  /\ TypeOK
  /\ RequestsFindBuiltPipeline
  /\ RebuildFindsFreshPipeline
  /\ EndpointsMatchPipelines
  /\ Strengthening

-----------------------------------------------------------------------------
(* Helpers.                                                                *)

(* The cursor of the check stays among the pipelines, with 0 at the end.   *)
LEMMA NextCursor ==
  ASSUME NEW n \in Nat \ {0}, NEW p \in 1 .. n
  PROVE  (p + 1) % (n + 1) \in 0 .. n
<1>1. CASE p < n
  <2>1. p + 1 \in 0 .. n /\ n + 1 > p + 1  BY <1>1
  <2>2. (p + 1) % (n + 1) = p + 1  BY <2>1
  <2> QED  BY <2>1, <2>2
<1>2. CASE p = n
  <2>1. (n + 1) % (n + 1) = 0  OBVIOUS
  <2> QED  BY <1>2, <2>1
<1> QED  BY <1>1, <1>2

(* Serving the head of the queue leaves a queue of requests, each of which *)
(* was there before.                                                       *)
LEMMA ServeHead ==
  ASSUME requests \in Seq(Requests), requests # <<>>
  PROVE  /\ Head(requests) \in Requests
         /\ Head(requests) = requests[1]
         /\ Tail(requests) \in Seq(Requests)
         /\ Len(requests) \in Nat \ {0}
         /\ \A i \in 1 .. Len(Tail(requests)) :
              /\ i + 1 \in 1 .. Len(requests)
              /\ Tail(requests)[i] = requests[i + 1]
OBVIOUS

(* Start moves one pipeline to PLAYING or NULL and leaves it stamped.      *)
LEMMA StartEffect ==
  ASSUME TypeOK, NEW p \in Pipelines, Start(p)
  PROVE  /\ state' \in [Pipelines -> States]
         /\ startedAgo' \in [Pipelines -> {Unset} \cup 0 .. MaxUptime]
         /\ sinceStart' \in [Pipelines -> {Unset} \cup 0 .. MaxUptime]
         /\ sinceStart'[p] # Unset
         /\ late' = late
         /\ \A q \in Pipelines \ {p} :
              sinceStart'[q] = sinceStart[q] /\ state'[q] = state[q]
<1>1. StartStamp(p) \in 0 .. MaxUptime
  BY ConstantsAssumption DEF TypeOK, StartStamp, Unset
<1>2. \A s \in StartResults(p) : s \in States
  BY DEF StartResults, States
<1>3. PICK s \in States : state' = [state EXCEPT ![p] = s]
  BY <1>2 DEF Start
<1>4. /\ startedAgo' = [startedAgo EXCEPT ![p] = StartStamp(p)]
      /\ sinceStart' = [sinceStart EXCEPT ![p] = IF @ = Unset THEN 0 ELSE @]
      /\ late' = late
  BY DEF Start
<1> QED
  BY <1>1, <1>3, <1>4, ConstantsAssumption DEF TypeOK, Unset

(* Enqueueing a request leaves the queue as it was, with one more request. *)
LEMMA EnqueueEffect ==
  ASSUME requests \in Seq(Requests), NEW p \in Pipelines,
         NEW kind \in {"rebuild", "start", "restart"}, Enqueue(kind, p)
  PROVE  /\ requests' \in Seq(Requests)
         /\ Len(requests) \in Nat
         /\ Len(requests') = Len(requests) + 1
         /\ requests'[Len(requests) + 1] = [kind |-> kind, pipeline |-> p]
         /\ \A i \in 1 .. Len(requests) : requests'[i] = requests[i]
<1> DEFINE r == [kind |-> kind, pipeline |-> p]
<1>1. r \in Requests
  BY DEF Requests
<1>2. requests' = Append(requests, r)
  BY DEF Enqueue
<1> HIDE DEF r
<1>3. /\ requests' \in Seq(Requests)
      /\ Len(requests') = Len(requests) + 1
      /\ Len(requests) \in Nat
      /\ requests'[Len(requests) + 1] = r
      /\ \A i \in 1 .. Len(requests) : requests'[i] = requests[i]
  BY <1>1, <1>2
<1> QED  BY <1>3 DEF r

(* What a visit does to the queue keeps the queued requests sound.         *)
LEMMA EnqueueKeepsRequests ==
  ASSUME requests \in Seq(Requests), RequestsFindBuiltPipeline,
         NEW p \in Pipelines, NEW kind \in {"rebuild", "start", "restart"},
         kind # "rebuild" => built[p], Enqueue(kind, p)
  PROVE  /\ requests' \in Seq(Requests)
         /\ \A i \in 1 .. Len(requests') :
              requests'[i].kind # "rebuild" => built[requests'[i].pipeline]
<1>1. /\ requests' \in Seq(Requests)
      /\ Len(requests) \in Nat
      /\ Len(requests') = Len(requests) + 1
      /\ requests'[Len(requests) + 1] = [kind |-> kind, pipeline |-> p]
      /\ \A i \in 1 .. Len(requests) : requests'[i] = requests[i]
  BY EnqueueEffect
<1>2. ASSUME NEW i \in 1 .. Len(requests'), requests'[i].kind # "rebuild"
      PROVE  built[requests'[i].pipeline]
  <2>1. CASE i \in 1 .. Len(requests)
    BY <1>1, <1>2, <2>1 DEF RequestsFindBuiltPipeline
  <2>2. CASE i = Len(requests) + 1
    BY <1>1, <1>2, <2>2
  <2> QED  BY <1>1, <2>1, <2>2
<1> QED  BY <1>1, <1>2

(* Every way a visit can end preserves the invariant.                      *)
LEMMA VisitEnds ==
  ASSUME IInv, NEW p \in Pipelines, cursor = p,
         NEW finding \in Findings, EndVisit(p, finding),
         stuckTicks' \in [Pipelines -> 0 .. StuckTicks - 1],
         \/ UNCHANGED requests
         \/ \E kind \in {"rebuild", "start", "restart"} :
              Enqueue(kind, p) /\ (kind # "rebuild" => built[p])
  PROVE  IInv'
<1> USE DEF IInv, Strengthening, EndVisit, pipelineVars, history
<1>1. /\ requests' \in Seq(Requests)
      /\ \A i \in 1 .. Len(requests') :
           requests'[i].kind # "rebuild" => built[requests'[i].pipeline]
  <2>1. CASE UNCHANGED requests
    BY <2>1 DEF TypeOK, RequestsFindBuiltPipeline
  <2>2. ASSUME NEW kind \in {"rebuild", "start", "restart"},
               Enqueue(kind, p), kind # "rebuild" => built[p]
        PROVE  <1>1
    BY <2>2, EnqueueKeepsRequests DEF TypeOK
  <2> QED  BY <2>1, <2>2
<1>2. cursor' \in 0 .. NumPipelines
  BY NextCursor, ConstantsAssumption DEF Pipelines
<1>3. TypeOK'
  BY <1>1, <1>2 DEF TypeOK
<1>4. RequestsFindBuiltPipeline'
  BY <1>1 DEF RequestsFindBuiltPipeline
<1>5. RebuildFindsFreshPipeline'
  BY DEF RebuildFindsFreshPipeline
<1>6. EndpointsMatchPipelines'
  BY DEF EndpointsMatchPipelines
<1>7. Strengthening'
  BY DEF VisitInCheck, UnbuiltNotStarted, WiredAreBuilt, WiredNeedSignaling,
         StoppingIsNull
<1> QED  BY <1>3, <1>4, <1>5, <1>6, <1>7

(* restartPipeline and its callers' branches.                              *)
LEMMA RestartPipelineEffect ==
  ASSUME TypeOK, NEW p \in Pipelines, RestartPipeline(p)
  PROVE  /\ Enqueue("restart", p)
         /\ stuckTicks' \in [Pipelines -> 0 .. StuckTicks - 1]
  BY ConstantsAssumption DEF RestartPipeline, TypeOK

(* The visits of checkAndRepair.                                           *)
LEMMA VisitStep ==
  ASSUME IInv, NEW p \in Pipelines, Visit(p)
  PROVE  IInv'
<1>1. /\ TypeOK
      /\ stuckTicks \in [Pipelines -> 0 .. StuckTicks - 1]
      /\ cursor = p /\ seenState # "unread" => built[p]
  BY DEF IInv, TypeOK, RequestsFindBuiltPipeline
<1>2. CASE VisitUnbuilt(p)
  BY <1>1, <1>2, VisitEnds DEF VisitUnbuilt, Findings
<1>3. CASE ReadState(p)
  <2> USE <1>3 DEF ReadState, IInv, Strengthening, pipelineVars, history, gstVars
  <2>1. TypeOK'  BY DEF TypeOK
  <2>2. RequestsFindBuiltPipeline'  BY DEF RequestsFindBuiltPipeline
  <2>3. RebuildFindsFreshPipeline'  BY DEF RebuildFindsFreshPipeline
  <2>4. EndpointsMatchPipelines'  BY DEF EndpointsMatchPipelines
  <2>5. Strengthening'
    BY DEF VisitInCheck, UnbuiltNotStarted, WiredAreBuilt, WiredNeedSignaling,
           StoppingIsNull, Pipelines
  <2> QED  BY <2>1, <2>2, <2>3, <2>4, <2>5
<1>4. CASE VisitNotPlaying(p)
  <2>1. EndVisit(p, "notPlaying") /\ "notPlaying" \in Findings /\ built[p]
        /\ cursor = p
    BY <1>1, <1>4 DEF VisitNotPlaying, Findings
  <2>2. CASE RestartPipeline(p)
    BY <1>1, <2>1, <2>2, RestartPipelineEffect, VisitEnds
  <2>3. CASE UNCHANGED <<requests, stuckTicks>>
    BY <1>1, <2>1, <2>3, VisitEnds
  <2>4. CASE Enqueue("start", p) /\ UNCHANGED stuckTicks
    BY <1>1, <2>1, <2>4, VisitEnds
  <2> QED  BY <1>4, <2>2, <2>3, <2>4 DEF VisitNotPlaying
<1>5. ASSUME NEW stats \in Statistics, VisitSilentInput(p, stats)
      PROVE  IInv'
  <2>1. EndVisit(p, "noInput") /\ "noInput" \in Findings /\ built[p] /\ cursor = p
    BY <1>1, <1>5 DEF VisitSilentInput, Findings
  <2>2. CASE RestartPipeline(p)
    BY <1>1, <2>1, <2>2, RestartPipelineEffect, VisitEnds
  <2>3. CASE UNCHANGED <<requests, stuckTicks>>
    BY <1>1, <2>1, <2>3, VisitEnds
  <2> QED  BY <1>5, <2>2, <2>3 DEF VisitSilentInput
<1>6. ASSUME NEW stats \in Statistics, VisitOverloaded(p, stats)
      PROVE  IInv'
  <2>1. /\ EndVisit(p, "overloaded") /\ "overloaded" \in Findings
        /\ built[p] /\ cursor = p /\ RestartPipeline(p)
    BY <1>1, <1>6 DEF VisitOverloaded, Findings
  <2> QED  BY <1>1, <2>1, RestartPipelineEffect, VisitEnds
<1>7. ASSUME NEW stats \in Statistics, VisitStuck(p, stats)
      PROVE  IInv'
  <2>1. EndVisit(p, "stuck") /\ "stuck" \in Findings /\ built[p] /\ cursor = p
    BY <1>1, <1>7 DEF VisitStuck, Findings
  <2>2. CASE stuckTicks[p] + 1 >= StuckTicks
    BY <1>1, <1>7, <2>1, <2>2, RestartPipelineEffect, VisitEnds DEF VisitStuck
  <2>3. CASE ~(stuckTicks[p] + 1 >= StuckTicks)
    <3>1. stuckTicks' = [stuckTicks EXCEPT ![p] = stuckTicks[p] + 1]
          /\ UNCHANGED requests
      BY <1>7, <2>3 DEF VisitStuck
    <3>2. stuckTicks[p] + 1 \in 0 .. StuckTicks - 1
      BY <1>1, <2>3, ConstantsAssumption
    <3>3. stuckTicks' \in [Pipelines -> 0 .. StuckTicks - 1]
      BY <1>1, <3>1, <3>2
    <3> QED  BY <2>1, <3>1, <3>3, VisitEnds
  <2> QED  BY <2>2, <2>3
<1>8. ASSUME NEW stats \in Statistics, VisitHealthy(p, stats)
      PROVE  IInv'
  <2>1. EndVisit(p, "ok") /\ "ok" \in Findings /\ cursor = p /\ UNCHANGED requests
    BY <1>8 DEF VisitHealthy, Findings
  <2>2. stuckTicks' \in [Pipelines -> 0 .. StuckTicks - 1]
    BY <1>1, <1>8, ConstantsAssumption DEF VisitHealthy
  <2> QED  BY <2>1, <2>2, VisitEnds
<1> QED
  BY <1>2, <1>3, <1>4, <1>5, <1>6, <1>7, <1>8 DEF Visit, VisitPlaying

-----------------------------------------------------------------------------
(* The steps of the GStreamer thread.                                      *)

(* RunRebuild publishes built_ and leaves the pipeline for FinishRebuild.  *)
LEMMA RunRebuildStep ==
  ASSUME IInv, RunRebuild
  PROVE  IInv'
<1> DEFINE p == Head(requests).pipeline
<1> USE DEF IInv, Strengthening, history, checkVars, RunRebuild, NextRequest
<1>1. p \in Pipelines
  BY ServeHead DEF TypeOK, Requests
<1> HIDE DEF p
<1>2. \/ /\ ~built[p]
         /\ built' = [built EXCEPT ![p] = TRUE]
         /\ late' = late \cup {p}
         /\ gstTask' = <<"wireAndStart", p>>
      \/ UNCHANGED <<built, late, gstTask>>
  BY DEF p
<1>3. \A q \in Pipelines : built[q] => built'[q]
  BY <1>1, <1>2 DEF TypeOK
<1>4. TypeOK'
  <2>1. built' \in [Pipelines -> BOOLEAN] /\ late' \subseteq Pipelines
    BY <1>1, <1>2 DEF TypeOK
  <2>2. requests' \in Seq(Requests)
    BY ServeHead DEF TypeOK
  <2>3. gstTask' \in Tasks
    BY <1>1, <1>2 DEF TypeOK, Tasks
  <2> QED  BY <2>1, <2>2, <2>3 DEF TypeOK
<1>5. RequestsFindBuiltPipeline'
  <2>1. ASSUME NEW i \in 1 .. Len(requests'), requests'[i].kind # "rebuild"
        PROVE  built'[requests'[i].pipeline]
    <3>1. /\ i + 1 \in 1 .. Len(requests)
          /\ requests'[i] = requests[i + 1]
          /\ requests'[i] \in Requests
      BY ServeHead DEF TypeOK
    <3> QED  BY <1>3, <2>1, <3>1 DEF RequestsFindBuiltPipeline, Requests
  <2>2. gstTask' # Idle => built'[gstTask'[2]]
    BY <1>1, <1>2 DEF TypeOK
  <2>3. seenState # "unread" => built'[cursor]
    <3>1. seenState # "unread" => cursor \in Pipelines /\ built[cursor]
      BY ConstantsAssumption
         DEF TypeOK, VisitInCheck, RequestsFindBuiltPipeline, Pipelines
    <3> QED  BY <1>3, <3>1
  <2> QED  BY <2>1, <2>2, <2>3 DEF RequestsFindBuiltPipeline
<1>6. RebuildFindsFreshPipeline'
  BY <1>1, <1>2 DEF RebuildFindsFreshPipeline, UnbuiltNotStarted
<1>7. WiredAreBuilt' /\ WiredNeedSignaling'
  BY <1>3, ConstantsAssumption DEF WiredAreBuilt, WiredNeedSignaling
<1>8. EndpointsMatchPipelines'
  BY <1>2 DEF EndpointsMatchPipelines, Idle
<1>9. VisitInCheck' /\ UnbuiltNotStarted' /\ StoppingIsNull'
  BY <1>2, <1>3 DEF VisitInCheck, UnbuiltNotStarted, StoppingIsNull, TypeOK
<1> QED  BY <1>4, <1>5, <1>6, <1>7, <1>8, <1>9

(* A start or restart request runs on a built pipeline.                    *)
LEMMA HeadFindsBuiltPipeline ==
  ASSUME IInv, requests # <<>>, Head(requests).kind # "rebuild"
  PROVE  Head(requests).pipeline \in Pipelines /\ built[Head(requests).pipeline]
<1>1. Head(requests) \in Requests /\ Head(requests) = requests[1]
      /\ Len(requests) \in Nat \ {0}
  BY ServeHead DEF IInv, TypeOK
<1>2. 1 \in 1 .. Len(requests)
  BY <1>1
<1> QED  BY <1>1, <1>2 DEF IInv, RequestsFindBuiltPipeline, Requests

(* The tail of a sound queue is sound.                                     *)
LEMMA TailFindsBuiltPipelines ==
  ASSUME IInv, requests # <<>>, requests' = Tail(requests)
  PROVE  /\ requests' \in Seq(Requests)
         /\ \A i \in 1 .. Len(requests') :
              requests'[i].kind # "rebuild" => built[requests'[i].pipeline]
  BY ServeHead DEF IInv, TypeOK, RequestsFindBuiltPipeline

(* Every step of the GStreamer thread preserves the invariant.             *)
LEMMA GstThreadStep ==
  ASSUME IInv, GstThread
  PROVE  IInv'
<1> USE DEF IInv, Strengthening, history, checkVars
<1>1. CASE RunRebuild
  BY <1>1, RunRebuildStep
<1>2. CASE FinishRebuild
  <2> DEFINE p == gstTask[2]
  <2>1. p \in Pipelines /\ gstTask = <<"wireAndStart", p>> /\ built[p]
    BY <1>2 DEF FinishRebuild, TypeOK, Tasks, Idle, RequestsFindBuiltPipeline
  <2> HIDE DEF p
  <2>2. /\ Start(p) /\ gstTask' = Idle /\ InitializeWebRTC
        /\ UNCHANGED <<built, requests, cursor, seenState, sinceCheck,
                       stuckTicks, observed, source>>
    BY <1>2 DEF FinishRebuild, p
  <2>3. /\ signalingUp' \in BOOLEAN
        /\ wired' = IF signalingUp'
                    THEN {q \in WebrtcPipelines : built[q]} ELSE {}
    <3> DEFINE needed == {q \in WebrtcPipelines : built[q]}
    <3>1. wired \subseteq needed /\ (~signalingUp => wired = {})
      BY DEF WiredAreBuilt, WiredNeedSignaling
    <3>2. \/ signalingUp' = TRUE /\ wired' = wired \cup needed
          \/ ~signalingUp /\ signalingUp' = signalingUp /\ wired' = wired
      BY <2>2 DEF InitializeWebRTC
    <3>3. signalingUp \in BOOLEAN
      BY DEF TypeOK
    <3> HIDE DEF needed
    <3>4. CASE signalingUp' = TRUE /\ wired' = wired \cup needed
      <4>1. wired' = needed  BY <3>1, <3>4
      <4> QED  BY <3>4, <4>1 DEF needed
    <3>5. CASE ~signalingUp /\ signalingUp' = signalingUp /\ wired' = wired
      BY <3>1, <3>3, <3>5
    <3> QED  BY <3>2, <3>4, <3>5
  <2>4. TypeOK'
    <3>1. /\ state' \in [Pipelines -> States]
          /\ startedAgo' \in [Pipelines -> {Unset} \cup 0 .. MaxUptime]
          /\ sinceStart' \in [Pipelines -> {Unset} \cup 0 .. MaxUptime]
          /\ late' = late
      BY <2>1, <2>2, StartEffect
    <3>2. gstTask' \in Tasks
      BY <2>2 DEF Tasks
    <3>3. signalingUp' \in BOOLEAN /\ wired' \subseteq WebrtcPipelines
      BY <2>3
    <3> QED  BY <2>2, <3>1, <3>2, <3>3 DEF TypeOK
  <2>5. RequestsFindBuiltPipeline'
    BY <2>2 DEF RequestsFindBuiltPipeline
  <2>6. RebuildFindsFreshPipeline'
    BY <2>1, <2>2, StartEffect DEF RebuildFindsFreshPipeline, Idle
  <2>7. EndpointsMatchPipelines' /\ WiredAreBuilt' /\ WiredNeedSignaling'
    BY <2>2, <2>3 DEF EndpointsMatchPipelines, WiredAreBuilt, WiredNeedSignaling
  <2>8. VisitInCheck' /\ UnbuiltNotStarted' /\ StoppingIsNull'
    BY <2>1, <2>2, StartEffect
       DEF VisitInCheck, UnbuiltNotStarted, StoppingIsNull, Idle
  <2> QED  BY <2>4, <2>5, <2>6, <2>7, <2>8
<1>3. CASE RunStart
  <2> DEFINE p == Head(requests).pipeline
  <2>1. p \in Pipelines /\ built[p]
    BY <1>3, HeadFindsBuiltPipeline DEF RunStart, NextRequest
  <2>2. /\ requests' \in Seq(Requests)
        /\ \A i \in 1 .. Len(requests') :
             requests'[i].kind # "rebuild" => built[requests'[i].pipeline]
    BY <1>3, TailFindsBuiltPipelines DEF RunStart, NextRequest
  <2> HIDE DEF p
  <2>3. /\ Start(p) /\ gstTask = Idle
        /\ UNCHANGED <<built, gstTask, signalingUp, wired, cursor, seenState,
                       sinceCheck, stuckTicks, observed, source>>
    BY <1>3 DEF RunStart, NextRequest, p
  <2>4. TypeOK'
    BY <2>1, <2>2, <2>3, StartEffect DEF TypeOK
  <2>5. RequestsFindBuiltPipeline'
    BY <2>2, <2>3 DEF RequestsFindBuiltPipeline
  <2>6. RebuildFindsFreshPipeline'
    BY <2>1, <2>3, StartEffect DEF RebuildFindsFreshPipeline, Idle
  <2>7. EndpointsMatchPipelines' /\ WiredAreBuilt' /\ WiredNeedSignaling'
    BY <2>3 DEF EndpointsMatchPipelines, WiredAreBuilt, WiredNeedSignaling
  <2>8. VisitInCheck' /\ UnbuiltNotStarted' /\ StoppingIsNull'
    BY <2>1, <2>3, StartEffect
       DEF VisitInCheck, UnbuiltNotStarted, StoppingIsNull, Idle
  <2> QED  BY <2>4, <2>5, <2>6, <2>7, <2>8
<1>4. CASE RunRestart
  <2> DEFINE p == Head(requests).pipeline
  <2>1. p \in Pipelines /\ built[p]
    BY <1>4, HeadFindsBuiltPipeline DEF RunRestart, NextRequest
  <2>2. /\ requests' \in Seq(Requests)
        /\ \A i \in 1 .. Len(requests') :
             requests'[i].kind # "rebuild" => built[requests'[i].pipeline]
    BY <1>4, TailFindsBuiltPipelines DEF RunRestart, NextRequest
  <2> HIDE DEF p
  <2>3. /\ state' = [state EXCEPT ![p] = "NULL"]
        /\ gstTask = Idle /\ gstTask' = <<"stop", p>>
        /\ UNCHANGED <<built, startedAgo, history, signalingUp, wired, cursor,
                       seenState, sinceCheck, stuckTicks, observed, source>>
    BY <1>4 DEF RunRestart, NextRequest, p
  <2>4. TypeOK'
    BY <2>1, <2>2, <2>3 DEF TypeOK, States, Tasks
  <2>5. RequestsFindBuiltPipeline'
    BY <2>1, <2>2, <2>3 DEF RequestsFindBuiltPipeline
  <2>6. RebuildFindsFreshPipeline'
    BY <2>3 DEF RebuildFindsFreshPipeline, TypeOK
  <2>7. EndpointsMatchPipelines' /\ WiredAreBuilt' /\ WiredNeedSignaling'
    BY <2>3 DEF EndpointsMatchPipelines, WiredAreBuilt, WiredNeedSignaling, Idle
  <2>8. VisitInCheck' /\ UnbuiltNotStarted' /\ StoppingIsNull'
    BY <2>1, <2>3 DEF VisitInCheck, UnbuiltNotStarted, StoppingIsNull, TypeOK
  <2> QED  BY <2>4, <2>5, <2>6, <2>7, <2>8
<1>5. CASE FinishRestart
  <2> DEFINE p == gstTask[2]
  <2>1. p \in Pipelines /\ gstTask = <<"start", p>> /\ built[p]
    BY <1>5 DEF FinishRestart, TypeOK, Tasks, Idle, RequestsFindBuiltPipeline
  <2> HIDE DEF p
  <2>2. /\ Start(p) /\ gstTask' = Idle
        /\ UNCHANGED <<built, requests, signalingUp, wired, cursor, seenState,
                       sinceCheck, stuckTicks, observed, source>>
    BY <1>5 DEF FinishRestart, p
  <2>3. TypeOK'
    BY <2>1, <2>2, StartEffect DEF TypeOK, Tasks
  <2>4. RequestsFindBuiltPipeline'
    BY <2>2 DEF RequestsFindBuiltPipeline
  <2>5. RebuildFindsFreshPipeline'
    BY <2>1, <2>2, StartEffect DEF RebuildFindsFreshPipeline, Idle
  <2>6. EndpointsMatchPipelines' /\ WiredAreBuilt' /\ WiredNeedSignaling'
    BY <2>1, <2>2 DEF EndpointsMatchPipelines, WiredAreBuilt, WiredNeedSignaling
  <2>7. VisitInCheck' /\ UnbuiltNotStarted' /\ StoppingIsNull'
    BY <2>1, <2>2, StartEffect
       DEF VisitInCheck, UnbuiltNotStarted, StoppingIsNull, Idle
  <2> QED  BY <2>3, <2>4, <2>5, <2>6, <2>7
<1>6. CASE FinishStop
  <2> DEFINE p == gstTask[2]
  <2>1. p \in Pipelines /\ gstTask = <<"stop", p>> /\ built[p]
    BY <1>6 DEF FinishStop, TypeOK, Tasks, Idle, RequestsFindBuiltPipeline
  <2>2. state[p] = "NULL"
    BY <2>1 DEF StoppingIsNull
  <2> HIDE DEF p
  <2>3. /\ startedAgo' = [startedAgo EXCEPT ![p] = Unset]
        /\ sinceStart' = [sinceStart EXCEPT ![p] = Unset]
        /\ late' = late \ {p}
        /\ gstTask' = <<"start", p>>
        /\ UNCHANGED <<built, state, requests, signalingUp, wired, cursor,
                       seenState, sinceCheck, stuckTicks, observed, source>>
    BY <1>6 DEF FinishStop, p
  <2>4. TypeOK'
    BY <2>1, <2>3 DEF TypeOK, Tasks
  <2>5. RequestsFindBuiltPipeline'
    BY <2>1, <2>3 DEF RequestsFindBuiltPipeline
  <2>6. RebuildFindsFreshPipeline' /\ StoppingIsNull'
    BY <2>1, <2>2, <2>3
       DEF RebuildFindsFreshPipeline, StoppingIsNull, TypeOK
  <2>7. EndpointsMatchPipelines' /\ WiredAreBuilt' /\ WiredNeedSignaling'
    BY <2>1, <2>3 DEF EndpointsMatchPipelines, WiredAreBuilt, WiredNeedSignaling
  <2>8. VisitInCheck' /\ UnbuiltNotStarted'
    BY <2>3 DEF VisitInCheck, UnbuiltNotStarted, TypeOK
  <2> QED  BY <2>4, <2>5, <2>6, <2>7, <2>8
<1> QED  BY <1>1, <1>2, <1>3, <1>4, <1>5, <1>6 DEF GstThread

-----------------------------------------------------------------------------
(* The rest of the steps, and the theorems.                                *)

(* A check begins on the first pipeline with nothing read.                 *)
LEMMA BeginCheckStep ==
  ASSUME IInv, BeginCheck
  PROVE  IInv'
<1> USE DEF IInv, Strengthening, BeginCheck, pipelineVars, history, gstVars
<1>1. TypeOK'
  BY ConstantsAssumption DEF TypeOK
<1>2. RequestsFindBuiltPipeline'
  BY DEF RequestsFindBuiltPipeline, VisitInCheck
<1>3. RebuildFindsFreshPipeline' /\ EndpointsMatchPipelines' /\ Strengthening'
  BY DEF RebuildFindsFreshPipeline, EndpointsMatchPipelines, VisitInCheck,
         UnbuiltNotStarted, WiredAreBuilt, WiredNeedSignaling, StoppingIsNull
<1> QED  BY <1>1, <1>2, <1>3

(* Time, the streaming threads and the devices touch no queue and no       *)
(* endpoint; only a started pipeline changes its state by itself.          *)
LEMMA EnvironmentStep ==
  ASSUME IInv, Environment
  PROVE  IInv'
<1> USE DEF IInv, Strengthening, pipelineVars, history, gstVars, checkVars
<1>1. CASE Elapse
  <2>1. \A p \in Pipelines :
          /\ startedAgo'[p] \in {Unset} \cup 0 .. MaxUptime
          /\ sinceStart'[p] \in {Unset} \cup 0 .. MaxUptime
          /\ sinceStart'[p] = Unset <=> sinceStart[p] = Unset
    BY <1>1, ConstantsAssumption DEF Elapse, Older, TypeOK, Unset
  <2>2. TypeOK'
    BY <1>1, <2>1, ConstantsAssumption DEF Elapse, TypeOK
  <2>3. RequestsFindBuiltPipeline' /\ EndpointsMatchPipelines'
    BY <1>1 DEF Elapse, RequestsFindBuiltPipeline, EndpointsMatchPipelines
  <2>4. RebuildFindsFreshPipeline' /\ Strengthening'
    BY <1>1, <2>1
       DEF Elapse, RebuildFindsFreshPipeline, VisitInCheck, UnbuiltNotStarted,
           WiredAreBuilt, WiredNeedSignaling, StoppingIsNull
  <2> QED  BY <2>2, <2>3, <2>4
<1>2. ASSUME NEW p \in Pipelines, ReachPlaying(p) \/ LoseState(p)
      PROVE  IInv'
  <2>1. /\ state[p] # "NULL"
        /\ \E s \in States : state' = [state EXCEPT ![p] = s]
        /\ UNCHANGED <<built, startedAgo, history, gstVars, checkVars, source>>
    BY <1>2 DEF ReachPlaying, LoseState, States
  <2>2. TypeOK'
    BY <2>1 DEF TypeOK
  <2>3. RequestsFindBuiltPipeline' /\ EndpointsMatchPipelines' /\ Strengthening'
    BY <2>1 DEF RequestsFindBuiltPipeline, EndpointsMatchPipelines, VisitInCheck,
                UnbuiltNotStarted, WiredAreBuilt, WiredNeedSignaling,
                StoppingIsNull, TypeOK
  <2>4. RebuildFindsFreshPipeline'
    BY <2>1 DEF RebuildFindsFreshPipeline, TypeOK
  <2> QED  BY <2>2, <2>3, <2>4
<1>3. ASSUME NEW p \in Pipelines, SourceChanges(p)
      PROVE  IInv'
  <2>1. TypeOK'
    BY <1>3 DEF SourceChanges, TypeOK
  <2>2. /\ RequestsFindBuiltPipeline' /\ EndpointsMatchPipelines'
        /\ RebuildFindsFreshPipeline' /\ Strengthening'
    BY <1>3 DEF SourceChanges, RequestsFindBuiltPipeline, EndpointsMatchPipelines,
                RebuildFindsFreshPipeline, VisitInCheck, UnbuiltNotStarted,
                WiredAreBuilt, WiredNeedSignaling, StoppingIsNull
  <2> QED  BY <2>1, <2>2
<1> QED  BY <1>1, <1>2, <1>3 DEF Environment

(* The state handed over at initialized_ satisfies the invariant.          *)
LEMMA InitInv == Init => IInv
<1> SUFFICES ASSUME Init PROVE IInv
  OBVIOUS
<1> USE DEF Init
<1>1. TypeOK
  <2>1. /\ state \in [Pipelines -> States]
        /\ startedAgo \in [Pipelines -> {Unset} \cup 0 .. MaxUptime]
        /\ sinceStart \in [Pipelines -> {Unset} \cup 0 .. MaxUptime]
        /\ late \subseteq Pipelines
    BY ConstantsAssumption DEF States, Unset
  <2>2. requests \in Seq(Requests) /\ gstTask \in Tasks
    BY DEF Tasks
  <2>3. signalingUp \in BOOLEAN /\ wired \subseteq WebrtcPipelines
    BY ConstantsAssumption
  <2>4. /\ cursor \in 0 .. NumPipelines
        /\ seenState \in States \cup {"unread"}
        /\ sinceCheck \in 0 .. CheckPeriod
        /\ stuckTicks \in [Pipelines -> 0 .. StuckTicks - 1]
        /\ observed \in [Pipelines -> Findings]
    BY ConstantsAssumption DEF Findings
  <2> QED  BY <2>1, <2>2, <2>3, <2>4 DEF TypeOK
<1>2. RequestsFindBuiltPipeline
  BY DEF RequestsFindBuiltPipeline
<1>3. RebuildFindsFreshPipeline
  BY DEF RebuildFindsFreshPipeline, Idle, Unset
<1>4. EndpointsMatchPipelines /\ Strengthening
  BY DEF EndpointsMatchPipelines, Strengthening, VisitInCheck,
         UnbuiltNotStarted, WiredAreBuilt, WiredNeedSignaling,
         StoppingIsNull, Idle
<1> QED  BY <1>1, <1>2, <1>3, <1>4 DEF IInv

(* Every step of the supervisor preserves the invariant.                   *)
LEMMA NextInv == IInv /\ [Next]_vars => IInv'
<1> SUFFICES ASSUME IInv, [Next]_vars PROVE IInv'
  OBVIOUS
<1>1. CASE GstThread
  BY <1>1, GstThreadStep
<1>2. CASE CheckAndRepair
  BY <1>2, BeginCheckStep, VisitStep DEF CheckAndRepair
<1>3. CASE Environment
  BY <1>3, EnvironmentStep
<1>4. CASE UNCHANGED vars
  BY <1>4 DEF vars, pipelineVars, history, gstVars, checkVars, IInv, Strengthening,
              TypeOK, RequestsFindBuiltPipeline, RebuildFindsFreshPipeline,
              EndpointsMatchPipelines, VisitInCheck, UnbuiltNotStarted,
              WiredAreBuilt, WiredNeedSignaling, StoppingIsNull
<1> QED  BY <1>1, <1>2, <1>3, <1>4 DEF Next

(* The inductive invariant holds in every reachable state.                 *)
THEOREM SupervisorInvariant == Spec => []IInv
  BY InitInv, NextInv, PTL DEF Spec

(* The supervisor's variables keep their types; in particular a pipeline   *)
(* never has STUCK_OUTPUT_TICKS_BEFORE_RESTART stuck ticks counted.        *)
THEOREM TypeCorrect == Spec => []TypeOK
<1>1. IInv => TypeOK
  BY DEF IInv
<1> QED  BY <1>1, SupervisorInvariant, PTL

(* Whatever interleaving of the timer and the GStreamer thread: start()    *)
(* and restart() only ever run on a pipeline that is built.                *)
THEOREM RequestsSafe == Spec => []RequestsFindBuiltPipeline
<1>1. IInv => RequestsFindBuiltPipeline
  BY DEF IInv
<1> QED  BY <1>1, SupervisorInvariant, PTL

(* However many rebuilds are queued for a pipeline, one that was started   *)
(* is never rebuilt.                                                       *)
THEOREM RebuildsSafe == Spec => []RebuildFindsFreshPipeline
<1>1. IInv => RebuildFindsFreshPipeline
  BY DEF IInv
<1> QED  BY <1>1, SupervisorInvariant, PTL

(* A signaling server that runs knows the endpoints of exactly the built   *)
(* pipelines, those that were built late included.                         *)
THEOREM EndpointsComplete == Spec => []EndpointsMatchPipelines
<1>1. IInv => EndpointsMatchPipelines
  BY DEF IInv
<1> QED  BY <1>1, SupervisorInvariant, PTL

-----------------------------------------------------------------------------
(* A GStreamer thread that keeps up: one request per pipeline.             *)

(* Between two seconds everything queued is done, so a second and more     *)
(* after a check began nothing is outstanding.                             *)
ServedBetweenChecks ==
  sinceCheck > 0 => requests = <<>> /\ gstTask = Idle /\ cursor = 0

RequestsAreDistinct ==
  \A i \in 1 .. Len(requests) :
    /\ requests[i].pipeline # gstTask[2]
    /\ \A j \in 1 .. Len(requests) :
         requests[i].pipeline = requests[j].pipeline => i = j

(* Whatever is outstanding during a check was queued by this check, which  *)
(* has the pipelines from its cursor on before it.                         *)
RequestsAreVisited ==
  cursor # 0 =>
    /\ gstTask[2] < cursor
    /\ \A i \in 1 .. Len(requests) : requests[i].pipeline < cursor

PromptInv ==
  IInv /\ ServedBetweenChecks /\ RequestsAreDistinct /\ RequestsAreVisited

(* What every visit that ends does: it queues at most one request, for the *)
(* pipeline it visits, and counts at most one stuck tick; a restart counts *)
(* from zero, and has its reason.                                          *)
LEMMA VisitOutcome ==
  ASSUME IInv, NEW p \in Pipelines, Visit(p), ~ReadState(p)
  PROVE  /\ cursor = p
         /\ cursor' = (p + 1) % (NumPipelines + 1)
         /\ UNCHANGED <<pipelineVars, gstTask, sinceCheck>>
         /\ \A q \in Pipelines \ {p} : stuckTicks'[q] = stuckTicks[q]
         /\ stuckTicks'[p] \in {0, stuckTicks[p], stuckTicks[p] + 1}
         /\ stuckTicks'[p] = stuckTicks[p] + 1 => built[p]
         /\ \/ UNCHANGED requests
            \/ \E kind \in {"rebuild", "start"} : Enqueue(kind, p)
            \/ /\ Enqueue("restart", p)
               /\ stuckTicks'[p] = 0
               /\ built[p]
               /\ \/ Uptime(p) >= Timeout
                  \/ stuckTicks[p] + 1 >= StuckTicks
                  \/ observed'[p] = "overloaded"
<1>1. /\ stuckTicks \in [Pipelines -> 0 .. StuckTicks - 1]
      /\ observed \in [Pipelines -> Findings]
      /\ cursor = p /\ seenState # "unread" => built[p]
      /\ stuckTicks[p] \in Int
  BY ConstantsAssumption DEF IInv, TypeOK, RequestsFindBuiltPipeline
<1> DEFINE Ended(finding) ==
             /\ EndVisit(p, finding)
             /\ \/ UNCHANGED requests
                \/ \E kind \in {"rebuild", "start"} : Enqueue(kind, p)
             /\ \/ UNCHANGED stuckTicks
                \/ stuckTicks' = [stuckTicks EXCEPT ![p] = 0]
                \/ /\ stuckTicks' = [stuckTicks EXCEPT ![p] = stuckTicks[p] + 1]
                   /\ built[p]
           Restarted(finding) ==
             /\ EndVisit(p, finding)
             /\ RestartPipeline(p)
             /\ built[p]
             /\ \/ Uptime(p) >= Timeout
                \/ stuckTicks[p] + 1 >= StuckTicks
                \/ finding = "overloaded"
<1>2. cursor = p /\ \E finding \in Findings : Ended(finding) \/ Restarted(finding)
  <2>1. CASE VisitUnbuilt(p)
    <3>1. Ended("unbuilt") /\ cursor = p
      BY <2>1 DEF VisitUnbuilt
    <3> QED  BY <3>1 DEF Findings
  <2>2. CASE VisitNotPlaying(p)
    <3>1. (Ended("notPlaying") \/ Restarted("notPlaying")) /\ cursor = p
      <4>1. built[p] /\ EndVisit(p, "notPlaying") /\ cursor = p
        BY <1>1, <2>2 DEF VisitNotPlaying
      <4>2. CASE Uptime(p) > Timeout /\ RestartPipeline(p)
        <5>1. Uptime(p) >= Timeout
          BY <1>1, <4>2, ConstantsAssumption DEF Uptime, IInv, TypeOK, Unset
        <5> QED  BY <4>1, <4>2, <5>1
      <4>3. CASE UNCHANGED <<requests, stuckTicks>>
        BY <4>1, <4>3
      <4>4. CASE Enqueue("start", p) /\ UNCHANGED stuckTicks
        BY <4>1, <4>4
      <4> QED  BY <2>2, <4>2, <4>3, <4>4 DEF VisitNotPlaying
    <3> QED  BY <3>1 DEF Findings
  <2>3. ASSUME NEW stats \in Statistics, VisitSilentInput(p, stats)
        PROVE  <1>2
    <3>1. built[p] /\ EndVisit(p, "noInput") /\ cursor = p
      BY <1>1, <2>3 DEF VisitSilentInput
    <3>2. \/ UNCHANGED <<requests, stuckTicks>>
          \/ Uptime(p) >= Timeout /\ RestartPipeline(p)
      BY <2>3 DEF VisitSilentInput
    <3>3. Ended("noInput") \/ Restarted("noInput")
      BY <3>1, <3>2
    <3> QED  BY <3>1, <3>3 DEF Findings
  <2>4. ASSUME NEW stats \in Statistics, VisitOverloaded(p, stats)
        PROVE  <1>2
    <3>1. Restarted("overloaded") /\ cursor = p
      BY <1>1, <2>4 DEF VisitOverloaded
    <3> QED  BY <3>1 DEF Findings
  <2>5. ASSUME NEW stats \in Statistics, VisitStuck(p, stats)
        PROVE  <1>2
    <3>1. built[p] /\ EndVisit(p, "stuck") /\ cursor = p
      BY <1>1, <2>5 DEF VisitStuck
    <3>2. \/ stuckTicks[p] + 1 >= StuckTicks /\ RestartPipeline(p)
          \/ /\ stuckTicks' = [stuckTicks EXCEPT ![p] = stuckTicks[p] + 1]
             /\ UNCHANGED requests
      BY <2>5 DEF VisitStuck
    <3>3. Ended("stuck") \/ Restarted("stuck")
      BY <3>1, <3>2
    <3> QED  BY <3>1, <3>3 DEF Findings
  <2>6. ASSUME NEW stats \in Statistics, VisitHealthy(p, stats)
        PROVE  <1>2
    <3>1. Ended("ok") /\ cursor = p
      BY <2>6 DEF VisitHealthy
    <3> QED  BY <3>1 DEF Findings
  <2> QED
    BY <2>1, <2>2, <2>3, <2>4, <2>5, <2>6 DEF Visit, VisitPlaying
<1>3. PICK finding \in Findings : Ended(finding) \/ Restarted(finding)
  BY <1>2
<1>4. /\ cursor' = (p + 1) % (NumPipelines + 1)
      /\ UNCHANGED <<pipelineVars, gstTask, sinceCheck>>
      /\ observed' = [observed EXCEPT ![p] = finding]
  BY <1>3 DEF EndVisit
<1>5. CASE Ended(finding)
  <2>1. /\ \A q \in Pipelines \ {p} : stuckTicks'[q] = stuckTicks[q]
        /\ stuckTicks'[p] \in {0, stuckTicks[p], stuckTicks[p] + 1}
        /\ stuckTicks'[p] = stuckTicks[p] + 1 => built[p]
    BY <1>1, <1>5
  <2> QED  BY <1>2, <1>4, <1>5, <2>1
<1>6. CASE Restarted(finding)
  <2>1. /\ \A q \in Pipelines \ {p} : stuckTicks'[q] = stuckTicks[q]
        /\ stuckTicks'[p] = 0
        /\ Enqueue("restart", p)
    BY <1>1, <1>6 DEF RestartPipeline
  <2>2. observed'[p] = finding
    BY <1>1, <1>4
  <2> QED  BY <1>2, <1>4, <1>6, <2>1, <2>2
<1> QED  BY <1>3, <1>5, <1>6

(* What a step of the GStreamer thread does to what is outstanding: it     *)
(* takes the head of the queue, or goes on with the request in its hands.  *)
LEMMA GstOutcome ==
  ASSUME IInv, GstThread
  PROVE  /\ UNCHANGED <<cursor, sinceCheck, stuckTicks>>
         /\ \/ /\ requests # <<>> /\ gstTask = Idle
               /\ requests' = Tail(requests)
               /\ gstTask'[2] \in {0, Head(requests).pipeline}
            \/ /\ gstTask # Idle
               /\ UNCHANGED requests
               /\ gstTask'[2] \in {0, gstTask[2]}
<1> USE DEF checkVars, NextRequest, Idle
<1>1. CASE RunRebuild
  BY <1>1 DEF RunRebuild
<1>2. CASE FinishRebuild \/ FinishRestart
  BY <1>2 DEF FinishRebuild, FinishRestart
<1>3. CASE RunStart \/ RunRestart
  BY <1>3 DEF RunStart, RunRestart
<1>4. CASE FinishStop
  BY <1>4 DEF FinishStop
<1> QED  BY <1>1, <1>2, <1>3, <1>4 DEF GstThread

(* A GStreamer thread that keeps up is never given a second request for a  *)
(* pipeline before it is done with the first.                              *)
LEMMA PromptStep ==
  ASSUME GstKeepsUp, PromptInv, [Next]_vars
  PROVE  PromptInv'
<1> USE DEF PromptInv, ServedBetweenChecks, RequestsAreDistinct,
            RequestsAreVisited
<1>1. IInv'
  BY NextInv
<1>2. /\ requests \in Seq(Requests) /\ Len(requests) \in Nat
      /\ \A i \in 1 .. Len(requests) : requests[i].pipeline \in Pipelines
      /\ cursor \in 0 .. NumPipelines /\ sinceCheck \in Nat
      /\ gstTask[2] \in 0 .. NumPipelines
  <2>1. /\ requests \in Seq(Requests) /\ gstTask \in Tasks
        /\ cursor \in 0 .. NumPipelines /\ sinceCheck \in Nat
    BY ConstantsAssumption DEF IInv, TypeOK
  <2>2. gstTask[2] \in 0 .. NumPipelines
    BY <2>1, ConstantsAssumption DEF Tasks, Idle, Pipelines
  <2>3. \A i \in 1 .. Len(requests) : requests[i] \in Requests
    BY <2>1
  <2> QED  BY <2>1, <2>2, <2>3 DEF Requests
<1>3. ASSUME UNCHANGED <<requests, gstTask, cursor, sinceCheck>>
      PROVE  PromptInv'
  BY <1>1, <1>3
<1>4. ASSUME NEW p \in Pipelines, Visit(p), ~ReadState(p)
      PROVE  PromptInv'
  <2>1. /\ cursor = p /\ p # 0 /\ p \in Nat
        /\ cursor' = (p + 1) % (NumPipelines + 1)
        /\ UNCHANGED <<gstTask, sinceCheck>>
    BY <1>4, VisitOutcome, ConstantsAssumption DEF Pipelines
  <2>2. sinceCheck' = 0
    BY <1>2, <2>1
  <2>3. cursor' = 0 \/ cursor' = p + 1
    <3>1. CASE p < NumPipelines
      BY <2>1, <3>1, ConstantsAssumption DEF Pipelines
    <3>2. CASE p = NumPipelines
      BY <2>1, <3>2, ConstantsAssumption DEF Pipelines
    <3> QED  BY <3>1, <3>2, ConstantsAssumption DEF Pipelines
  <2>4. CASE UNCHANGED requests
    <3>1. \A i \in 1 .. Len(requests) :
            requests[i].pipeline \in Nat /\ requests[i].pipeline < p + 1
      BY <1>2, <2>1 DEF Pipelines
    <3>2. RequestsAreVisited'
      BY <1>2, <2>1, <2>3, <2>4, <3>1
    <3> QED  BY <1>1, <2>1, <2>2, <2>4, <3>2
  <2>5. CASE \E kind \in {"rebuild", "start", "restart"} : Enqueue(kind, p)
    <3>1. PICK kind \in {"rebuild", "start", "restart"} : Enqueue(kind, p)
      BY <2>5
    <3> DEFINE r == [kind |-> kind, pipeline |-> p]
    <3>2. /\ Len(requests') = Len(requests) + 1
          /\ requests'[Len(requests) + 1] = r
          /\ \A i \in 1 .. Len(requests) : requests'[i] = requests[i]
      BY <1>2, <3>1, EnqueueEffect
    <3>3. r.pipeline = p
      OBVIOUS
    <3> HIDE DEF r
    <3>4. /\ gstTask[2] < p
          /\ \A i \in 1 .. Len(requests) : requests[i].pipeline < p
      BY <2>1
    <3>5. \A i \in 1 .. Len(requests') :
            \/ /\ i \in 1 .. Len(requests)
               /\ requests'[i].pipeline = requests[i].pipeline
               /\ requests'[i].pipeline < p
               /\ requests'[i].pipeline \in Nat
            \/ i = Len(requests) + 1 /\ requests'[i].pipeline = p
      BY <1>2, <3>2, <3>3, <3>4 DEF Pipelines
    <3>6. RequestsAreDistinct'
      <4>1. \A i \in 1 .. Len(requests') : requests'[i].pipeline # gstTask'[2]
        BY <1>2, <2>1, <3>4, <3>5
      <4>2. ASSUME NEW i \in 1 .. Len(requests'), NEW j \in 1 .. Len(requests'),
                   requests'[i].pipeline = requests'[j].pipeline
            PROVE  i = j
        <5>1. CASE i \in 1 .. Len(requests) /\ j \in 1 .. Len(requests)
          BY <3>2, <4>2, <5>1
        <5>2. CASE i = Len(requests) + 1 \/ j = Len(requests) + 1
          BY SMTT(30), <1>2, <2>1, <3>5, <4>2, <5>2
        <5> QED  BY <3>5, <5>1, <5>2
      <4> QED  BY <4>1, <4>2
    <3>7. RequestsAreVisited'
      <4>1. \A i \in 1 .. Len(requests') : requests'[i].pipeline < p + 1
        BY <2>1, <3>5
      <4> QED  BY <1>2, <2>1, <2>3, <3>4, <4>1
    <3> QED  BY <1>1, <2>2, <3>6, <3>7
  <2> QED  BY <1>4, <2>4, <2>5, VisitOutcome
<1>5. CASE BeginCheck
  <2>1. requests = <<>> /\ gstTask = Idle /\ sinceCheck' = 0 /\ cursor' = 1
        /\ UNCHANGED <<requests, gstTask>>
    BY <1>5, ConstantsAssumption DEF BeginCheck, gstVars
  <2> QED  BY <1>1, <2>1 DEF Idle
<1>6. CASE GstThread
  <2>1. sinceCheck' = sinceCheck /\ cursor' = cursor
    BY <1>6, GstOutcome
  <2>2. ServedBetweenChecks'
    BY <1>6, <2>1, GstOutcome
  <2>3. CASE /\ requests # <<>> /\ gstTask = Idle
             /\ requests' = Tail(requests)
             /\ gstTask'[2] \in {0, Head(requests).pipeline}
    <3>1. /\ Head(requests) = requests[1]
          /\ 1 \in 1 .. Len(requests)
          /\ \A i \in 1 .. Len(requests') :
               /\ i + 1 \in 1 .. Len(requests) /\ i + 1 # 1
               /\ requests'[i] = requests[i + 1]
      BY <1>2, <2>3, ServeHead
    <3>2. \A i \in 1 .. Len(requests') :
            requests'[i].pipeline # 0 /\ requests'[i].pipeline # requests[1].pipeline
      BY SMTT(30), <1>2, <3>1, ConstantsAssumption DEF Pipelines
    <3>3. \A i, j \in 1 .. Len(requests') :
            requests'[i].pipeline = requests'[j].pipeline => i = j
      BY <3>1
    <3>4. RequestsAreDistinct'
      BY <2>3, <3>1, <3>2, <3>3
    <3>5. RequestsAreVisited'
      BY <1>2, <2>1, <2>3, <3>1
    <3> QED  BY <1>1, <2>2, <3>4, <3>5
  <2>4. CASE /\ gstTask # Idle /\ UNCHANGED requests
             /\ gstTask'[2] \in {0, gstTask[2]}
    <3>1. \A i \in 1 .. Len(requests) : requests[i].pipeline # 0
      BY <1>2, ConstantsAssumption DEF Pipelines
    <3>2. RequestsAreDistinct'
      BY <2>4, <3>1
    <3>3. RequestsAreVisited'
      BY <1>2, <2>1, <2>4
    <3> QED  BY <1>1, <2>2, <3>2, <3>3
  <2> QED  BY <1>6, <2>3, <2>4, GstOutcome
<1>7. CASE Elapse
  BY <1>1, <1>7 DEF Elapse, gstVars, Idle
<1>8. CASE (\E p \in Pipelines : ReadState(p)) \/ UNCHANGED vars
  BY <1>3, <1>8 DEF ReadState, vars, gstVars, checkVars
<1>9. CASE \E p \in Pipelines : ReachPlaying(p) \/ LoseState(p) \/ SourceChanges(p)
  BY <1>3, <1>9 DEF ReachPlaying, LoseState, SourceChanges, gstVars, checkVars
<1> QED
  BY <1>4, <1>5, <1>6, <1>7, <1>8, <1>9 DEF Next, CheckAndRepair, Environment

(* A server just constructed has no requests.                              *)
LEMMA InitPrompt == Init => PromptInv
<1> SUFFICES ASSUME Init PROVE PromptInv
  OBVIOUS
<1>1. requests = <<>> /\ gstTask = Idle /\ cursor = 0 /\ sinceCheck = 0
  BY DEF Init
<1>2. IInv
  BY InitInv
<1> QED  BY <1>1, <1>2 DEF PromptInv, ServedBetweenChecks,
                           RequestsAreDistinct, RequestsAreVisited

(* As long as the GStreamer thread serves its queue within a second, every *)
(* outstanding request is the only one for its pipeline.                   *)
THEOREM PromptRequests ==
  ASSUME GstKeepsUp
  PROVE  Spec => []OneRequestPerPipeline
<1>1. Init => PromptInv
  BY InitPrompt
<1>2. PromptInv /\ [Next]_vars => PromptInv'
  BY PromptStep
<1>3. PromptInv => OneRequestPerPipeline
  <2> DEFINE Queued(p) == {i \in 1 .. Len(requests) : requests[i].pipeline = p}
  <2> SUFFICES ASSUME PromptInv, NEW p \in Pipelines
               PROVE  Cardinality(Queued(p))
                        + (IF gstTask[2] = p THEN 1 ELSE 0) <= 1
    BY DEF OneRequestPerPipeline
  <2>1. RequestsAreDistinct
    BY DEF PromptInv
  <2>2. Cardinality({}) = 0 /\ \A i : Cardinality({i}) = 1
    BY FS_EmptySet, FS_Singleton
  <2>3. CASE Queued(p) = {}
    <3>1. Cardinality(Queued(p)) = 0
      BY <2>2, <2>3
    <3> HIDE DEF Queued
    <3> QED  BY <3>1
  <2>4. CASE Queued(p) # {}
    <3>1. PICK i \in Queued(p) : TRUE
      BY <2>4
    <3>2. Queued(p) = {i} /\ gstTask[2] # p
      BY <2>1, <3>1 DEF RequestsAreDistinct
    <3>3. Cardinality(Queued(p)) = 1
      BY <2>2, <3>2
    <3> HIDE DEF Queued
    <3> QED  BY <3>2, <3>3
  <2> QED  BY <2>3, <2>4
<1> QED  BY <1>1, <1>2, <1>3, PTL DEF Spec

-----------------------------------------------------------------------------
(* A GStreamer thread that keeps up: restarts leave time to start.         *)

(* start_time_ is the time since the first start of the cycle, except for  *)
(* a pipeline built late, which has the time of the attempt at start-up.   *)
StampsAgree ==
  \A p \in Pipelines \ late : built[p] => startedAgo[p] = sinceStart[p]

UnstartedIsInHand ==
  \A p \in Pipelines : built[p] /\ sinceStart[p] = Unset => gstTask[2] = p

RestartPending(p) ==
  \/ gstTask \in {<<"stop", p>>, <<"start", p>>}
  \/ \E i \in 1 .. Len(requests) :
       requests[i] = [kind |-> "restart", pipeline |-> p]

PendingRestartHasNoTicks ==
  \A p \in Pipelines : RestartPending(p) => stuckTicks[p] = 0

(* The least time the stuck ticks of a pipeline stand for: a check counts  *)
(* at most one, so all but the first are CheckPeriod apart.                *)
VisitedInCheck(p) == cursor = 0 \/ p < cursor
TickTime(p) ==
  IF VisitedInCheck(p) THEN (stuckTicks[p] - 1) * CheckPeriod + sinceCheck
                       ELSE stuckTicks[p] * CheckPeriod

TicksTakeTime ==
  \A p \in Pipelines \ late :
    built[p] /\ stuckTicks[p] > 0 =>
      sinceStart[p] = MaxUptime \/ sinceStart[p] >= TickTime(p)

PacedInv ==
  /\ PromptInv
  /\ StampsAgree /\ UnstartedIsInHand
  /\ PendingRestartHasNoTicks /\ TicksTakeTime

(* Checks are CheckPeriod seconds apart.                                   *)
LEMMA Periods ==
  ASSUME NEW k \in Nat, NEW c \in Nat
  PROVE  k * c \in Nat /\ (k - 1) * c + c = k * c /\ (k + 1 - 1) * c = k * c
OBVIOUS

(* A pipeline with stuck ticks that was not built late has been started.   *)
LEMMA TickedIsStarted ==
  ASSUME PacedInv, NEW p \in Pipelines \ late, built[p], stuckTicks[p] > 0
  PROVE  sinceStart[p] # Unset
<1>1. /\ stuckTicks[p] \in Nat \ {0} /\ stuckTicks[p] - 1 \in Nat
      /\ CheckPeriod \in Nat /\ sinceCheck \in Nat /\ MaxUptime \in Nat
  BY ConstantsAssumption DEF PacedInv, PromptInv, IInv, TypeOK
<1>2. stuckTicks[p] * CheckPeriod \in Nat /\ (stuckTicks[p] - 1) * CheckPeriod \in Nat
  BY <1>1, Periods
<1>3. TickTime(p) \in Nat
  BY <1>1, <1>2 DEF TickTime
<1>4. sinceStart[p] = MaxUptime \/ sinceStart[p] >= TickTime(p)
  BY DEF PacedInv, TicksTakeTime
<1> QED  BY <1>1, <1>3, <1>4 DEF Unset

(* A start, whoever asked for it, keeps the two clocks together.           *)
LEMMA StartPaces ==
  ASSUME PacedInv, PromptInv', NEW p \in Pipelines, Start(p), built[p],
         gstTask[2] \in {0, p}, gstTask' = Idle,
         UNCHANGED <<built, cursor, sinceCheck, stuckTicks>>,
         \A q \in Pipelines : RestartPending(q)' => RestartPending(q)
  PROVE  PacedInv'
<1> USE DEF PacedInv
<1>1. /\ startedAgo \in [Pipelines -> {Unset} \cup 0 .. MaxUptime]
      /\ sinceStart \in [Pipelines -> {Unset} \cup 0 .. MaxUptime]
      /\ Pipelines \subseteq Nat \ {0}
  BY DEF PromptInv, IInv, TypeOK, Pipelines
<1>2. /\ startedAgo'[p] = IF startedAgo[p] = Unset THEN 0 ELSE startedAgo[p]
      /\ sinceStart'[p] = IF sinceStart[p] = Unset THEN 0 ELSE sinceStart[p]
      /\ late' = late
      /\ \A q \in Pipelines \ {p} : startedAgo'[q] = startedAgo[q]
                                    /\ sinceStart'[q] = sinceStart[q]
  BY <1>1 DEF Start, StartStamp
<1>3. StampsAgree'
  BY <1>2 DEF StampsAgree
<1>4. UnstartedIsInHand'
  BY <1>1, <1>2 DEF UnstartedIsInHand, Unset
<1>5. PendingRestartHasNoTicks'
  BY DEF PendingRestartHasNoTicks
<1>6. TicksTakeTime'
  <2> SUFFICES ASSUME NEW q \in Pipelines \ late, built[q], stuckTicks[q] > 0
               PROVE  sinceStart'[q] = MaxUptime \/ sinceStart'[q] >= TickTime(q)'
    BY <1>2 DEF TicksTakeTime
  <2>1. sinceStart'[q] = sinceStart[q]
    BY <1>2, TickedIsStarted
  <2>2. TickTime(q)' = TickTime(q)
    BY DEF TickTime, VisitedInCheck
  <2> QED  BY <2>1, <2>2 DEF TicksTakeTime
<1> QED  BY <1>3, <1>4, <1>5, <1>6

(* A step that leaves the clocks, the counters and the check alone.        *)
LEMMA QuietPaces ==
  ASSUME PacedInv, PromptInv',
         UNCHANGED <<startedAgo, sinceStart, cursor, sinceCheck, stuckTicks>>,
         \A q \in Pipelines : RestartPending(q)' => RestartPending(q),
         \A q \in Pipelines \ late' : built'[q] => q \notin late /\ built[q],
         \A q \in Pipelines :
           built'[q] /\ sinceStart[q] = Unset => gstTask'[2] = q
  PROVE  PacedInv'
<1> USE DEF PacedInv
<1>1. StampsAgree'
  BY DEF StampsAgree
<1>2. UnstartedIsInHand' /\ PendingRestartHasNoTicks'
  BY DEF UnstartedIsInHand, PendingRestartHasNoTicks
<1>3. TicksTakeTime'
  BY DEF TicksTakeTime, TickTime, VisitedInCheck
<1> QED  BY <1>1, <1>2, <1>3

(* The GStreamer thread serves what is queued, and at most starts or stops *)
(* a pipeline with it.                                                     *)
LEMMA GstThreadPaces ==
  ASSUME PacedInv, PromptInv', GstThread
  PROVE  PacedInv'
<1> USE DEF PacedInv
<1>1. /\ TypeOK /\ IInv /\ Pipelines \subseteq Nat \ {0}
      /\ built \in [Pipelines -> BOOLEAN]
      /\ requests \in Seq(Requests) /\ gstTask \in Tasks
      /\ UNCHANGED <<cursor, sinceCheck, stuckTicks>>
  BY SMTT(30), GstOutcome DEF PromptInv, IInv, TypeOK, Pipelines
<1>2. ASSUME requests # <<>>, requests' = Tail(requests), NEW q \in Pipelines,
             RestartPending(q)'
      PROVE  gstTask' \in {<<"stop", q>>, <<"start", q>>} \/ RestartPending(q)
  <2>1. \A i \in 1 .. Len(requests') :
          i + 1 \in 1 .. Len(requests) /\ requests'[i] = requests[i + 1]
    BY <1>1, <1>2, ServeHead
  <2> QED  BY <1>2, <2>1 DEF RestartPending
<1>3. CASE RunRebuild
  <2> DEFINE p == Head(requests).pipeline
  <2>1. /\ requests # <<>> /\ requests' = Tail(requests) /\ gstTask = Idle
        /\ UNCHANGED <<startedAgo, sinceStart>>
        /\ \/ /\ ~built[p]
              /\ built' = [built EXCEPT ![p] = TRUE]
              /\ late' = late \cup {p}
              /\ gstTask' = <<"wireAndStart", p>>
           \/ UNCHANGED <<built, late, gstTask>>
    BY <1>3 DEF RunRebuild, NextRequest
  <2>2. p \in Pipelines
    BY <1>1, <2>1, ServeHead DEF Requests
  <2> HIDE DEF p
  <2>3. gstTask'[1] \notin {"stop", "start"}
    BY <2>1 DEF Idle
  <2>4. \A q \in Pipelines : RestartPending(q)' => RestartPending(q)
    BY <1>2, <2>1, <2>3
  <2>5. \A q \in Pipelines \ late' : built'[q] => q \notin late /\ built[q]
    BY <1>1, <2>1, <2>2
  <2>6. \A q \in Pipelines :
          built'[q] /\ sinceStart[q] = Unset => gstTask'[2] = q
    BY <1>1, <2>1, <2>2 DEF UnstartedIsInHand, Idle
  <2> QED  BY <1>1, <2>1, <2>4, <2>5, <2>6, QuietPaces
<1>4. CASE FinishRebuild \/ FinishRestart
  <2> DEFINE p == gstTask[2]
  <2>1. /\ Start(p) /\ gstTask' = Idle /\ UNCHANGED <<built, requests>>
        /\ p \in Pipelines /\ built[p]
    BY <1>1, <1>4 DEF FinishRebuild, FinishRestart, Tasks, Idle, IInv,
                      RequestsFindBuiltPipeline
  <2>2. \A q \in Pipelines : RestartPending(q)' => RestartPending(q)
    BY <2>1 DEF RestartPending, Idle
  <2> QED  BY <1>1, <2>1, <2>2, StartPaces
<1>5. CASE RunStart
  <2> DEFINE p == Head(requests).pipeline
  <2>1. /\ requests # <<>> /\ requests' = Tail(requests)
        /\ gstTask = Idle /\ gstTask' = Idle
        /\ Start(p) /\ UNCHANGED built
    BY <1>5 DEF RunStart, NextRequest
  <2>2. p \in Pipelines /\ built[p]
    BY <1>1, <1>5, HeadFindsBuiltPipeline DEF RunStart, NextRequest
  <2> HIDE DEF p
  <2>3. \A q \in Pipelines : RestartPending(q)' => RestartPending(q)
    BY <1>2, <2>1 DEF Idle
  <2>4. gstTask[2] \in {0, p}
    BY <2>1 DEF Idle
  <2> QED  BY <1>1, <2>1, <2>2, <2>3, <2>4, StartPaces
<1>6. CASE RunRestart
  <2> DEFINE p == Head(requests).pipeline
  <2>1. /\ requests # <<>> /\ requests' = Tail(requests) /\ gstTask = Idle
        /\ gstTask' = <<"stop", p>>
        /\ UNCHANGED <<built, startedAgo, sinceStart, late>>
        /\ Head(requests).kind = "restart"
    BY <1>6 DEF RunRestart, NextRequest, history
  <2>2. RestartPending(p)
    <3>1. /\ Head(requests) \in Requests /\ Head(requests) = requests[1]
          /\ 1 \in 1 .. Len(requests)
      BY <1>1, <2>1, ServeHead
    <3>2. Head(requests) = [kind |-> "restart", pipeline |-> p]
      BY <2>1, <3>1 DEF Requests
    <3> QED  BY <3>1, <3>2 DEF RestartPending
  <2> HIDE DEF p
  <2>3. \A q \in Pipelines : RestartPending(q)' => RestartPending(q)
    BY <1>2, <2>1, <2>2
  <2>4. \A q \in Pipelines : ~(built[q] /\ sinceStart[q] = Unset)
    BY <1>1, <2>1 DEF UnstartedIsInHand, Idle
  <2> QED  BY <1>1, <2>1, <2>3, <2>4, QuietPaces
<1>7. CASE FinishStop
  <2> DEFINE p == gstTask[2]
  <2>1. /\ p \in Pipelines /\ gstTask = <<"stop", p>>
    BY <1>1, <1>7 DEF FinishStop, Tasks, Idle
  <2> HIDE DEF p
  <2>2. /\ startedAgo' = [startedAgo EXCEPT ![p] = Unset]
        /\ sinceStart' = [sinceStart EXCEPT ![p] = Unset]
        /\ late' = late \ {p}
        /\ gstTask' = <<"start", p>>
        /\ UNCHANGED <<built, requests>>
    BY <1>7 DEF FinishStop, p
  <2>3. stuckTicks[p] = 0
    BY <2>1 DEF PendingRestartHasNoTicks, RestartPending
  <2>4. /\ startedAgo'[p] = Unset /\ sinceStart'[p] = Unset
        /\ \A q \in Pipelines \ {p} :
             startedAgo'[q] = startedAgo[q] /\ sinceStart'[q] = sinceStart[q]
    BY <1>1, <2>1, <2>2 DEF TypeOK
  <2>5. StampsAgree'
    BY <2>2, <2>4 DEF StampsAgree
  <2>6. UnstartedIsInHand'
    BY <2>1, <2>2, <2>4 DEF UnstartedIsInHand
  <2>7. PendingRestartHasNoTicks'
    BY <1>1, <2>1, <2>2, <2>3 DEF PendingRestartHasNoTicks, RestartPending
  <2>8. TicksTakeTime'
    BY <1>1, <2>2, <2>3, <2>4 DEF TicksTakeTime, TickTime, VisitedInCheck
  <2> QED  BY <2>5, <2>6, <2>7, <2>8
<1> QED  BY <1>3, <1>4, <1>5, <1>6, <1>7 DEF GstThread

(* A visit counts its tick when the ticks before it have taken their time. *)
LEMMA VisitPaces ==
  ASSUME PacedInv, PromptInv', NEW p \in Pipelines, Visit(p), ~ReadState(p)
  PROVE  PacedInv'
<1> USE DEF PacedInv
<1>1. /\ IInv /\ Pipelines \subseteq Nat \ {0} /\ p # 0 /\ p \in Nat
      /\ Len(requests) \in Nat /\ requests \in Seq(Requests)
      /\ sinceCheck = 0 /\ CheckPeriod \in Nat
      /\ stuckTicks \in [Pipelines -> Nat]
      /\ sinceStart \in [Pipelines -> {Unset} \cup 0 .. MaxUptime]
  <2>1. TypeOK /\ IInv
    BY DEF PromptInv, IInv
  <2>2. stuckTicks \in [Pipelines -> Nat] /\ CheckPeriod \in Nat /\ sinceCheck \in Nat
    BY <2>1, ConstantsAssumption DEF TypeOK
  <2>3. cursor = p /\ p # 0
    BY <2>1, VisitOutcome DEF Pipelines
  <2>4. sinceCheck = 0
    BY <2>2, <2>3 DEF PromptInv, ServedBetweenChecks
  <2> QED  BY <2>1, <2>2, <2>3, <2>4 DEF TypeOK, Pipelines
<1>2. /\ cursor = p
      /\ cursor' = (p + 1) % (NumPipelines + 1)
      /\ UNCHANGED <<built, startedAgo, sinceStart, late, gstTask, sinceCheck>>
      /\ \A q \in Pipelines \ {p} : stuckTicks'[q] = stuckTicks[q]
      /\ stuckTicks'[p] \in {0, stuckTicks[p], stuckTicks[p] + 1}
  BY <1>1, VisitOutcome DEF pipelineVars, history
<1>3. (cursor' = 0 /\ p = NumPipelines) \/ cursor' = p + 1
  <2>1. CASE p < NumPipelines
    BY <1>2, <2>1, ConstantsAssumption DEF Pipelines
  <2>2. CASE p = NumPipelines
    BY <1>2, <2>2, ConstantsAssumption DEF Pipelines
  <2> QED  BY <2>1, <2>2, ConstantsAssumption DEF Pipelines
<1>4. StampsAgree' /\ UnstartedIsInHand'
  BY <1>2 DEF StampsAgree, UnstartedIsInHand
<1>5. ~RestartPending(p)
  <2>1. gstTask[2] < p /\ \A i \in 1 .. Len(requests) : requests[i].pipeline < p
    BY <1>1, <1>2 DEF PromptInv, RequestsAreVisited
  <2> QED  BY <1>1, <2>1 DEF RestartPending
<1>6. PendingRestartHasNoTicks'
  <2> SUFFICES ASSUME NEW q \in Pipelines, RestartPending(q)'
               PROVE  stuckTicks'[q] = 0
    BY DEF PendingRestartHasNoTicks
  <2>1. CASE RestartPending(q)
    BY <1>2, <1>5, <2>1 DEF PendingRestartHasNoTicks
  <2>2. CASE ~RestartPending(q)
    <3>1. PICK i \in 1 .. Len(requests') :
            requests'[i] = [kind |-> "restart", pipeline |-> q]
      BY <1>2, <2>2 DEF RestartPending
    <3>2. ~UNCHANGED requests
      BY <2>2, <3>1 DEF RestartPending
    <3>3. ASSUME NEW kind \in {"rebuild", "start", "restart"}, Enqueue(kind, p)
          PROVE  requests'[i] = [kind |-> kind, pipeline |-> p]
      <4>1. /\ Len(requests') = Len(requests) + 1
            /\ requests'[Len(requests) + 1] = [kind |-> kind, pipeline |-> p]
            /\ \A j \in 1 .. Len(requests) : requests'[j] = requests[j]
        BY <1>1, <3>3, EnqueueEffect
      <4>2. i \notin 1 .. Len(requests)
        BY <2>2, <3>1, <4>1 DEF RestartPending
      <4>3. i = Len(requests) + 1
        BY <1>1, <4>1, <4>2
      <4> QED  BY <4>1, <4>3
    <3>4. ASSUME NEW kind \in {"rebuild", "start"}
          PROVE  ~Enqueue(kind, p)
      BY <3>1, <3>3, <3>4
    <3>5. Enqueue("restart", p) /\ stuckTicks'[p] = 0
      BY <1>1, <3>2, <3>4, VisitOutcome
    <3>6. q = p
      BY <3>1, <3>3, <3>5
    <3> QED  BY <3>5, <3>6
  <2> QED  BY <2>1, <2>2
<1>7. TicksTakeTime'
  <2> SUFFICES ASSUME NEW q \in Pipelines \ late, built[q], stuckTicks'[q] > 0
               PROVE  sinceStart[q] = MaxUptime \/ sinceStart[q] >= TickTime(q)'
    BY <1>2 DEF TicksTakeTime
  <2>1. q \in Nat /\ q # 0 /\ sinceStart[q] \in Int /\ MaxUptime \in Int
    BY <1>1, ConstantsAssumption DEF Unset
  <2>2. CASE q # p
    <3>1. VisitedInCheck(q)' <=> VisitedInCheck(q)
      <4>1. q < p => VisitedInCheck(q)' /\ VisitedInCheck(q)
        BY <1>1, <1>2, <1>3, <2>1 DEF VisitedInCheck
      <4>2. q > p => ~VisitedInCheck(q)
        BY <1>1, <1>2, <2>1 DEF VisitedInCheck
      <4>3. q > p => cursor' = p + 1 /\ ~(q < p + 1)
        BY <1>1, <1>3, <2>1, ConstantsAssumption DEF Pipelines
      <4>4. q > p => ~VisitedInCheck(q)'
        BY <1>1, <4>3 DEF VisitedInCheck
      <4> QED  BY <1>1, <2>1, <2>2, <4>1, <4>2, <4>4
    <3>2. TickTime(q)' = TickTime(q) /\ stuckTicks[q] > 0
      BY <1>2, <2>2, <3>1 DEF TickTime
    <3> QED  BY <3>2 DEF TicksTakeTime
  <2>3. CASE q = p
    <3> DEFINE k == stuckTicks[p]
               n == stuckTicks'[p]
    <3>1. VisitedInCheck(p)' /\ ~VisitedInCheck(p)
      BY <1>1, <1>2, <1>3 DEF VisitedInCheck
    <3>2. /\ TickTime(p)' = (n - 1) * CheckPeriod + 0
          /\ TickTime(p) = k * CheckPeriod
      BY <1>1, <1>2, <3>1 DEF TickTime
    <3>3. k \in Nat /\ n \in Nat /\ n # 0 /\ n \in {k, k + 1}
      BY <1>1, <1>2, <2>3
    <3>4. sinceStart[p] # Unset
      <4>1. gstTask[2] < p
        BY <1>1, <1>2 DEF PromptInv, RequestsAreVisited
      <4> QED  BY <1>1, <2>3, <4>1 DEF UnstartedIsInHand
    <3>5. sinceStart[p] \in Nat
      BY <1>1, <3>4
    <3>6. k # 0 => sinceStart[p] = MaxUptime \/ sinceStart[p] >= k * CheckPeriod
      BY <2>3, <3>2, <3>3 DEF TicksTakeTime
    <3> HIDE DEF k, n
    <3>7. CASE n = k
      <4>1. (k - 1) * CheckPeriod + CheckPeriod = k * CheckPeriod
            /\ k * CheckPeriod \in Nat
        BY <1>1, <3>3, Periods
      <4>2. (k - 1) * CheckPeriod \in Int
        BY <1>1, <3>3
      <4> QED  BY <1>1, <2>3, <3>2, <3>3, <3>5, <3>6, <3>7, <4>1, <4>2
    <3>8. CASE n = k + 1
      <4>1. (k + 1 - 1) * CheckPeriod = k * CheckPeriod /\ k * CheckPeriod \in Nat
        BY <1>1, <3>3, Periods
      <4>2. k = 0 => k * CheckPeriod = 0
        BY <1>1, <3>3
      <4> QED  BY <2>3, <3>2, <3>3, <3>5, <3>6, <3>8, <4>1, <4>2
    <3> QED  BY <3>3, <3>7, <3>8
  <2> QED  BY <2>2, <2>3
<1> QED  BY <1>4, <1>6, <1>7

(* The next check begins a CheckPeriod after the last one.                 *)
LEMMA BeginCheckPaces ==
  ASSUME PacedInv, PromptInv', BeginCheck
  PROVE  PacedInv'
<1> USE DEF PacedInv
<1>1. /\ UNCHANGED <<built, startedAgo, sinceStart, late, requests, gstTask,
                     stuckTicks>>
      /\ cursor = 0 /\ cursor' = 1 /\ sinceCheck = CheckPeriod
  BY DEF BeginCheck, pipelineVars, history, gstVars
<1>2. StampsAgree' /\ UnstartedIsInHand' /\ PendingRestartHasNoTicks'
  BY <1>1 DEF StampsAgree, UnstartedIsInHand, PendingRestartHasNoTicks,
              RestartPending
<1>3. ASSUME NEW p \in Pipelines, stuckTicks[p] > 0
      PROVE  TickTime(p)' = TickTime(p)
  <2>1. stuckTicks[p] \in Nat /\ CheckPeriod \in Nat /\ p \in Nat /\ p # 0
    BY ConstantsAssumption DEF PromptInv, IInv, TypeOK, Pipelines
  <2>2. (stuckTicks[p] - 1) * CheckPeriod + CheckPeriod = stuckTicks[p] * CheckPeriod
    BY <2>1, Periods
  <2>3. VisitedInCheck(p) /\ ~VisitedInCheck(p)'
    BY <1>1, <2>1 DEF VisitedInCheck
  <2> QED  BY <1>1, <2>2, <2>3 DEF TickTime
<1>4. TicksTakeTime'
  BY <1>1, <1>3 DEF TicksTakeTime
<1> QED  BY <1>2, <1>4

(* Both clocks run, up to MaxUptime, and faster than the check's.          *)
LEMMA ElapsePaces ==
  ASSUME PacedInv, PromptInv', Elapse
  PROVE  PacedInv'
<1> USE DEF PacedInv
<1>1. /\ UNCHANGED <<built, late, requests, gstTask, stuckTicks, cursor>>
      /\ cursor = 0
      /\ sinceCheck' \in {sinceCheck, sinceCheck + 1}
      /\ \A p \in Pipelines : /\ startedAgo'[p] = Older(startedAgo[p])
                              /\ sinceStart'[p] = Older(sinceStart[p])
  BY DEF Elapse, gstVars
<1>2. StampsAgree'
  BY <1>1 DEF StampsAgree
<1>3. \A p \in Pipelines :
        /\ sinceStart[p] \in Int /\ MaxUptime \in Int /\ sinceStart[p] <= MaxUptime
        /\ sinceStart[p] # Unset => sinceStart'[p] # Unset
        /\ sinceStart[p] \in 0 .. MaxUptime - 1 =>
             sinceStart'[p] = sinceStart[p] + 1
        /\ sinceStart[p] = MaxUptime => sinceStart'[p] = MaxUptime
  BY <1>1, ConstantsAssumption DEF PromptInv, IInv, TypeOK, Older, Unset
<1>4. UnstartedIsInHand' /\ PendingRestartHasNoTicks'
  BY <1>1, <1>3 DEF UnstartedIsInHand, PendingRestartHasNoTicks, RestartPending
<1>5. TicksTakeTime'
  <2> SUFFICES ASSUME NEW p \in Pipelines \ late, built[p], stuckTicks[p] > 0
               PROVE  sinceStart'[p] = MaxUptime \/ sinceStart'[p] >= TickTime(p)'
    BY <1>1 DEF TicksTakeTime
  <2> DEFINE ticks == (stuckTicks[p] - 1) * CheckPeriod
  <2>1. sinceCheck \in Nat /\ ticks \in Int
    <3>1. stuckTicks[p] \in Nat /\ CheckPeriod \in Nat /\ sinceCheck \in Nat
      BY ConstantsAssumption DEF PromptInv, IInv, TypeOK
    <3> QED  BY <3>1
  <2>2. TickTime(p) = ticks + sinceCheck /\ TickTime(p)' = ticks + sinceCheck'
    BY <1>1 DEF TickTime, VisitedInCheck
  <2>3. sinceStart[p] = MaxUptime \/ sinceStart[p] >= ticks + sinceCheck
    BY <2>2 DEF TicksTakeTime
  <2>4. sinceStart[p] # Unset
    BY TickedIsStarted
  <2> HIDE DEF ticks
  <2>5. sinceStart[p] \in 0 .. MaxUptime - 1 \/ sinceStart[p] = MaxUptime
    BY <2>4, ConstantsAssumption DEF PromptInv, IInv, TypeOK
  <2> QED  BY <1>1, <1>3, <2>1, <2>2, <2>3, <2>5
<1> QED  BY <1>2, <1>4, <1>5

(* Every step keeps the stamps of the starts and the counted ticks in      *)
(* step.                                                                   *)
LEMMA PacedStep ==
  ASSUME GstKeepsUp, PacedInv, [Next]_vars
  PROVE  PacedInv'
<1>1. PromptInv'
  BY PromptStep DEF PacedInv
<1>2. ASSUME UNCHANGED <<pipelineVars, requests, gstTask, cursor, sinceCheck,
                         stuckTicks>>
      PROVE  PacedInv'
  BY <1>1, <1>2
     DEF PacedInv, StampsAgree, UnstartedIsInHand, PendingRestartHasNoTicks,
         TicksTakeTime, RestartPending, TickTime, VisitedInCheck, pipelineVars,
         history
<1>3. ASSUME NEW p \in Pipelines, Visit(p), ~ReadState(p)
      PROVE  PacedInv'
  BY <1>1, <1>3, VisitPaces
<1>4. CASE (\E p \in Pipelines : ReadState(p)) \/ UNCHANGED vars
  BY <1>2, <1>4 DEF ReadState, vars, gstVars, checkVars
<1>5. CASE GstThread
  BY <1>1, <1>5, GstThreadPaces
<1>6. CASE BeginCheck
  BY <1>1, <1>6, BeginCheckPaces
<1>7. CASE Elapse
  BY <1>1, <1>7, ElapsePaces
<1>8. ASSUME NEW p \in Pipelines, ReachPlaying(p) \/ LoseState(p) \/ SourceChanges(p)
      PROVE  PacedInv'
  <2>1. /\ UNCHANGED <<built, startedAgo, sinceStart, late>>
        /\ UNCHANGED <<requests, gstTask, cursor, sinceCheck, stuckTicks>>
    BY <1>8 DEF ReachPlaying, LoseState, SourceChanges, gstVars, checkVars,
                pipelineVars, history
  <2> QED
    BY <1>1, <2>1
       DEF PacedInv, StampsAgree, UnstartedIsInHand, PendingRestartHasNoTicks,
           TicksTakeTime, RestartPending, TickTime, VisitedInCheck
<1> QED
  BY <1>3, <1>4, <1>5, <1>6, <1>7, <1>8 DEF Next, CheckAndRepair, Environment

(* While the GStreamer thread keeps up, and the stuck ticks that restart a *)
(* pipeline take no less than the start-up timeout (as 5 checks every 3    *)
(* seconds do with one of 10), no pipeline is restarted sooner than the    *)
(* start-up timeout after its start, unless its processing time is over    *)
(* the limit or it was built late.                                         *)
THEOREM RestartsPaced ==
  ASSUME GstKeepsUp, (StuckTicks - 1) * CheckPeriod >= Timeout
  PROVE  Spec => RestartsLeaveTimeToStart
<1> DEFINE Paced ==
      \A p \in Pipelines \ late :
        RestartRequested(p) /\ observed'[p] # "overloaded"
          => sinceStart[p] >= Timeout
<1>1. Init => PacedInv
  <2> SUFFICES ASSUME Init PROVE PacedInv
    OBVIOUS
  <2>1. PromptInv
    BY InitPrompt
  <2>2. StampsAgree /\ UnstartedIsInHand /\ PendingRestartHasNoTicks /\ TicksTakeTime
    BY DEF Init, StampsAgree, UnstartedIsInHand, PendingRestartHasNoTicks,
           RestartPending, TicksTakeTime, Unset, Idle
  <2> QED  BY <2>1, <2>2 DEF PacedInv
<1>2. PacedInv /\ [Next]_vars => PacedInv'
  BY PacedStep
<1>3. PacedInv /\ [Next]_vars => [Paced]_vars
  <2> SUFFICES ASSUME PacedInv, Next, NEW p \in Pipelines \ late,
                      RestartRequested(p), observed'[p] # "overloaded"
               PROVE  sinceStart[p] >= Timeout
    OBVIOUS
  <2> DEFINE r == [kind |-> "restart", pipeline |-> p]
  <2>1. IInv /\ TypeOK /\ requests \in Seq(Requests) /\ Len(requests) \in Nat
    BY DEF PacedInv, PromptInv, IInv, TypeOK
  <2>2. /\ requests' = Append(requests, r)
        /\ Len(requests') = Len(requests) + 1
        /\ requests'[Len(requests) + 1] = r
    BY <2>1 DEF RestartRequested
  <2>3. requests' # requests
    BY <2>1, <2>2
  <2>4. ~GstThread
    BY <2>1, <2>2, <2>3, GstOutcome, ServeHead
  <2>5. ~BeginCheck /\ ~Environment /\ \A q \in Pipelines : ~ReadState(q)
    BY <2>3 DEF BeginCheck, Environment, Elapse, ReachPlaying, LoseState,
                SourceChanges, ReadState, gstVars
  <2>6. PICK q \in Pipelines : Visit(q)
    BY <2>4, <2>5 DEF Next, CheckAndRepair
  <2>7. \A kind \in {"rebuild", "start", "restart"} :
          Enqueue(kind, q) => kind = "restart" /\ q = p
    <3> SUFFICES ASSUME NEW kind \in {"rebuild", "start", "restart"},
                        Enqueue(kind, q)
                 PROVE  kind = "restart" /\ q = p
      OBVIOUS
    <3>1. requests'[Len(requests) + 1] = [kind |-> kind, pipeline |-> q]
      BY <2>1, EnqueueEffect
    <3> QED  BY <2>2, <3>1
  <2>8. /\ cursor = p /\ built[p]
        /\ Uptime(p) >= Timeout \/ stuckTicks[p] + 1 >= StuckTicks
    BY <2>1, <2>3, <2>5, <2>6, <2>7, VisitOutcome
  <2>9. sinceStart[p] \in Nat /\ startedAgo[p] = sinceStart[p]
    <3>1. /\ sinceStart[p] \in {Unset} \cup Nat
          /\ cursor \in Nat \ {0} /\ gstTask[2] \in Nat
      BY <2>1, <2>8, ConstantsAssumption DEF TypeOK, Tasks, Idle, Pipelines
    <3>2. gstTask[2] # p
      BY <2>8, <3>1 DEF PacedInv, PromptInv, RequestsAreVisited
    <3>3. sinceStart[p] # Unset
      BY <2>8, <3>2 DEF PacedInv, UnstartedIsInHand
    <3> QED  BY <2>8, <3>1, <3>3 DEF PacedInv, StampsAgree
  <2>10. CASE Uptime(p) >= Timeout
    BY <2>9, <2>10 DEF Uptime, Unset
  <2>11. CASE stuckTicks[p] + 1 >= StuckTicks
    <3>1. stuckTicks[p] = StuckTicks - 1 /\ StuckTicks - 1 \in Nat
          /\ StuckTicks \in Nat /\ CheckPeriod \in Nat /\ Timeout \in Nat
      BY <2>1, <2>11, ConstantsAssumption DEF TypeOK
    <3>2. CASE StuckTicks - 1 = 0
      BY <2>9, <3>1, <3>2
    <3>3. CASE StuckTicks - 1 # 0
      <4>1. TickTime(p) = (StuckTicks - 1) * CheckPeriod
        BY <2>8, <3>1, ConstantsAssumption
           DEF TickTime, VisitedInCheck, Pipelines
      <4>2. (StuckTicks - 1) * CheckPeriod \in Nat
        BY <3>1, Periods
      <4>3. sinceStart[p] = MaxUptime \/ sinceStart[p] >= TickTime(p)
        <5>1. stuckTicks[p] > 0
          BY <3>1, <3>3
        <5>2. TicksTakeTime
          BY DEF PacedInv
        <5> QED  BY <2>8, <5>1, <5>2 DEF TicksTakeTime
      <4> QED  BY <2>9, <3>1, <4>1, <4>2, <4>3, ConstantsAssumption
    <3> QED  BY <3>2, <3>3
  <2> QED  BY <2>8, <2>10, <2>11
<1> QED  BY <1>1, <1>2, <1>3, PTL DEF Spec, RestartsLeaveTimeToStart

=============================================================================
