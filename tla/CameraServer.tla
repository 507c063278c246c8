---------------------------- MODULE CameraServer ----------------------------
(***************************************************************************)
(* The supervisor of ros_camera_server after start-up: the ROS timer       *)
(* thread that runs CameraServer::checkAndRepair every CheckPeriod, the    *)
(* GStreamer thread that runs the requests queued by invokeOnGstThread,    *)
(* and the life cycle of each CameraPipeline (buildPipeline, start, stop,  *)
(* restart, uptime) that both threads see.                                 *)
(*                                                                         *)
(* The two threads interleave at the points where the code lets them: a    *)
(* visit of the check reads the pipeline's state first and decides later,  *)
(* a restart stops the pipeline, clears its start time and starts it in    *)
(* steps, and a rebuild publishes built_ before it wires and starts.       *)
(***************************************************************************)
EXTENDS Integers, Sequences, FiniteSets

CONSTANTS
  NumPipelines,     \* number of configured cameras
  Outputs,          \* the outputs of a pipeline
  WebrtcPipelines,  \* the pipelines that have a WebRTC output
  CheckPeriod,      \* seconds between two checks (3 in the code)
  GiveMoreTime,     \* a non-PLAYING pipeline younger than this is left alone (3)
  Timeout,          \* seconds without PLAYING or input before a restart (10)
  StuckTicks,       \* STUCK_OUTPUT_TICKS_BEFORE_RESTART (5)
  StartupTime,      \* seconds a usable device takes to PLAYING at most, after
                    \* a start; above MaxUptime: any time
  MaxUptime,        \* bound: uptimes above this are not told apart
  MaxRequests,      \* bound: length of the GStreamer thread's request queue
  GstKeepsUp        \* TRUE: the GStreamer thread drains its queue within a second

Pipelines == 1 .. NumPipelines

ASSUME ConstantsAssumption ==
  /\ NumPipelines \in Nat \ {0}
  /\ WebrtcPipelines \subseteq Pipelines
  /\ CheckPeriod \in Nat \ {0}
  /\ GiveMoreTime \in Nat
  /\ Timeout \in Nat
  /\ GiveMoreTime <= Timeout
  /\ StuckTicks \in Nat \ {0}
  /\ MaxUptime \in Nat
  /\ MaxUptime > Timeout
  /\ StartupTime \in Nat
  /\ MaxRequests \in Nat
  /\ MaxRequests >= NumPipelines
  /\ GstKeepsUp \in BOOLEAN

VARIABLES
  built,        \* built_ of each pipeline
  state,        \* the pipeline's current GStreamer state
  startedAgo,   \* seconds since start_time_, or Unset
  sinceStart,   \* seconds since a built pipeline's first start after it was
                \* built or stopped, or Unset (history)
  late,         \* pipelines built after start-up and not stopped since (history)
  requests,     \* functions queued on the GStreamer thread's main context
  gstTask,      \* the unfinished half of the request the GStreamer thread runs
  signalingUp,  \* signaling_server_ exists and listens
  wired,        \* pipelines whose WebRTC endpoints are registered
  cursor,       \* pipeline visited by the running check, 0 between checks
  seenState,    \* the state that visit has read, or "unread"
  sinceCheck,   \* seconds since the last check, up to CheckPeriod
  stuckTicks,   \* stuck_output_ticks_
  observed,     \* what the last visit of each pipeline found (history)
  source        \* whether each camera's device is usable

history      == <<sinceStart, late>>
pipelineVars == <<built, state, startedAgo, history>>
gstVars      == <<requests, gstTask, signalingUp, wired>>
checkVars    == <<cursor, seenState, sinceCheck, stuckTicks, observed>>
vars == <<pipelineVars, gstVars, checkVars, source>>

-----------------------------------------------------------------------------

States   == {"NULL", "PAUSED", "PLAYING"}
Findings == {"none", "unbuilt", "ok", "noInput", "overloaded", "stuck",
             "notPlaying"}
Unset    == -1
Idle     == <<"idle", 0>>
Tasks    == {Idle} \cup ({"wireAndStart", "stop", "start"} \X Pipelines)
Requests == [kind : {"rebuild", "start", "restart"}, pipeline : Pipelines]

(* What the statistics of a PLAYING pipeline can look like to the check.   *)
(* An output is paused (valve closed), delivering (fps > 0), stuck (0 fps  *)
(* with clients) or quiet (0 fps, no or unknown clients).                  *)
OutputHealth == {"paused", "delivering", "stuck", "quiet"}
Statistics ==
  [inputLive : BOOLEAN, overloaded : BOOLEAN,
   output : [Outputs -> OutputHealth]]

(* CameraPipeline::uptime: 0 until the first start of a cycle.             *)
Uptime(p) == IF startedAgo[p] = Unset THEN 0 ELSE startedAgo[p]

Enqueue(kind, p) ==
  requests' = Append(requests, [kind |-> kind, pipeline |-> p])

-----------------------------------------------------------------------------
(* Operations of a pipeline, run on the GStreamer thread.                  *)

(* Plausible slip the comment in start() warns of: every attempt stamps.   *)
StampEveryStart(p) == 0

(* start() stamps start_time_ only once per start/stop cycle.              *)
StartStamp(p) == IF startedAgo[p] = Unset THEN 0 ELSE startedAgo[p]

(* gst_element_set_state(PLAYING): a playing pipeline stays, another one   *)
(* goes there asynchronously; with an unusable device it may fail, and     *)
(* start() then sets the pipeline to NULL.                                 *)
StartResults(p) ==
  {IF state[p] = "PLAYING" THEN "PLAYING" ELSE "PAUSED"}
    \cup (IF source[p] THEN {} ELSE {"NULL"})

(* Plausible slip: a failed attempt does not count as a start.             *)
StampOnlyOnSuccess(p) ==
  \E s \in StartResults(p) :
    /\ state' = [state EXCEPT ![p] = s]
    /\ startedAgo' = IF s = "NULL"
                     THEN startedAgo
                     ELSE [startedAgo EXCEPT ![p] = StartStamp(p)]
    /\ sinceStart' = [sinceStart EXCEPT ![p] = IF @ = Unset THEN 0 ELSE @]
    /\ UNCHANGED late

(* CameraPipeline::start *)
Start(p) ==
  /\ startedAgo' = [startedAgo EXCEPT ![p] = StartStamp(p)]
  /\ sinceStart' = [sinceStart EXCEPT ![p] = IF @ = Unset THEN 0 ELSE @]
  /\ \E s \in StartResults(p) : state' = [state EXCEPT ![p] = s]
  /\ UNCHANGED late

(* Plausible slip: a new signaling server wires only the pipelines of the  *)
(* moment it is created.                                                   *)
WireOnlyAtCreation ==
  \/ /\ ~signalingUp
     /\ {p \in WebrtcPipelines : built[p]} # {}
     /\ signalingUp' = TRUE
     /\ wired' = {p \in WebrtcPipelines : built[p]}
  \/ UNCHANGED <<signalingUp, wired>>

(* CameraServer::initializeWebRTC: create the signaling server on first    *)
(* use (starting it may fail), then register every missing endpoint.       *)
InitializeWebRTC ==
  LET needed == {p \in WebrtcPipelines : built[p]}
  IN  \/ /\ signalingUp \/ needed # {}
         /\ signalingUp' = TRUE
         /\ wired' = wired \cup needed
      \/ /\ ~signalingUp
         /\ UNCHANGED <<signalingUp, wired>>

-----------------------------------------------------------------------------
(* The GStreamer thread.                                                   *)

NextRequest(kind) ==
  /\ gstTask = Idle
  /\ requests # <<>>
  /\ Head(requests).kind = kind
  /\ requests' = Tail(requests)

(* Plausible slip: the request does not look whether an earlier one has    *)
(* built the pipeline already; buildPipeline() then returns at once.       *)
RebuildWithoutGuard ==
  /\ NextRequest("rebuild")
  /\ LET p == Head(requests).pipeline IN
       \/ /\ built' = [built EXCEPT ![p] = TRUE]
          /\ late' = late \cup {p}
          /\ gstTask' = <<"wireAndStart", p>>
       \/ /\ ~source[p]
          /\ UNCHANGED <<built, late, gstTask>>
  /\ UNCHANGED <<state, startedAgo, sinceStart, signalingUp, wired, checkVars,
                 source>>

(* CameraServer::rebuildPipeline up to the end of buildPipeline(); a       *)
(* failed build rolls back and leaves nothing behind.                      *)
RunRebuild ==
  /\ NextRequest("rebuild")
  /\ LET p == Head(requests).pipeline IN
       \/ /\ ~built[p]
          /\ built' = [built EXCEPT ![p] = TRUE]
          /\ late' = late \cup {p}
          /\ gstTask' = <<"wireAndStart", p>>
       \/ /\ built[p] \/ ~source[p]
          /\ UNCHANGED <<built, late, gstTask>>
  /\ UNCHANGED <<state, startedAgo, sinceStart, signalingUp, wired, checkVars,
                 source>>

(* The rest of rebuildPipeline: wire the outputs, start the pipeline.      *)
FinishRebuild ==
  /\ gstTask[1] = "wireAndStart"
  /\ InitializeWebRTC
  /\ Start(gstTask[2])
  /\ gstTask' = Idle
  /\ UNCHANGED <<built, requests, checkVars, source>>

RunStart ==
  /\ NextRequest("start")
  /\ Start(Head(requests).pipeline)
  /\ UNCHANGED <<built, gstTask, signalingUp, wired, checkVars, source>>

(* CameraPipeline::restart: stop() sets the pipeline to NULL ...           *)
RunRestart ==
  /\ NextRequest("restart")
  /\ state' = [state EXCEPT ![Head(requests).pipeline] = "NULL"]
  /\ gstTask' = <<"stop", Head(requests).pipeline>>
  /\ UNCHANGED <<built, startedAgo, history, signalingUp, wired, checkVars,
                 source>>

(* ... and then clears start_time_.                                        *)
FinishStop ==
  /\ gstTask[1] = "stop"
  /\ startedAgo' = [startedAgo EXCEPT ![gstTask[2]] = Unset]
  /\ sinceStart' = [sinceStart EXCEPT ![gstTask[2]] = Unset]
  /\ late' = late \ {gstTask[2]}
  /\ gstTask' = <<"start", gstTask[2]>>
  /\ UNCHANGED <<built, state, requests, signalingUp, wired, checkVars, source>>

FinishRestart ==
  /\ gstTask[1] = "start"
  /\ Start(gstTask[2])
  /\ gstTask' = Idle
  /\ UNCHANGED <<built, requests, signalingUp, wired, checkVars, source>>

GstThread == \/ RunRebuild \/ FinishRebuild
             \/ RunStart
             \/ RunRestart \/ FinishStop \/ FinishRestart

-----------------------------------------------------------------------------
(* CameraServer::checkAndRepair on the ROS timer thread.                   *)

BeginCheck ==
  /\ cursor = 0
  /\ sinceCheck = CheckPeriod
  /\ Len(requests) + NumPipelines <= MaxRequests
  /\ cursor' = 1
  /\ sinceCheck' = 0
  /\ UNCHANGED <<pipelineVars, gstVars, seenState, stuckTicks, observed,
                 source>>

(* The visit of pipeline p ends with a finding; the loop goes on.          *)
EndVisit(p, finding) ==
  /\ observed' = [observed EXCEPT ![p] = finding]
  /\ cursor' = (p + 1) % (NumPipelines + 1)
  /\ seenState' = "unread"
  /\ UNCHANGED <<pipelineVars, gstTask, signalingUp, wired, sinceCheck, source>>

(* Plausible slip: an unbuilt pipeline is started like a stopped one.      *)
StartUnbuilt(p) ==
  /\ cursor = p /\ seenState = "unread"
  /\ ~built[p]
  /\ Enqueue("start", p)
  /\ UNCHANGED stuckTicks
  /\ EndVisit(p, "unbuilt")

VisitUnbuilt(p) ==
  /\ cursor = p /\ seenState = "unread"
  /\ ~built[p]
  /\ Enqueue("rebuild", p)
  /\ UNCHANGED stuckTicks
  /\ EndVisit(p, "unbuilt")

(* getState(): the decision below uses what was read here.                 *)
ReadState(p) ==
  /\ cursor = p /\ seenState = "unread"
  /\ built[p]
  /\ seenState' = state[p]
  /\ UNCHANGED <<pipelineVars, gstVars, cursor, sinceCheck, stuckTicks,
                 observed, source>>

(* Plausible slip: the request is queued, the counter is not reset.        *)
RestartKeepingTicks(p) ==
  /\ Enqueue("restart", p)
  /\ UNCHANGED stuckTicks

(* CameraServer::restartPipeline *)
RestartPipeline(p) ==
  /\ Enqueue("restart", p)
  /\ stuckTicks' = [stuckTicks EXCEPT ![p] = 0]

VisitSilentInput(p, stats) ==
  /\ cursor = p /\ seenState = "PLAYING"
  /\ ~stats.inputLive
  /\ \/ Uptime(p) < Timeout /\ UNCHANGED <<requests, stuckTicks>>
     \/ Uptime(p) >= Timeout /\ RestartPipeline(p)
  /\ EndVisit(p, "noInput")

(* Plausible slip: the loop over the outputs goes on after a restart.      *)
RestartPerOverloadedOutput(p, stats) ==
  /\ cursor = p /\ seenState = "PLAYING"
  /\ stats.inputLive /\ stats.overloaded
  /\ requests' = requests \o
                   [o \in 1 .. 2 |-> [kind |-> "restart", pipeline |-> p]]
  /\ stuckTicks' = [stuckTicks EXCEPT ![p] = 0]
  /\ EndVisit(p, "overloaded")

VisitOverloaded(p, stats) ==
  /\ cursor = p /\ seenState = "PLAYING"
  /\ stats.inputLive /\ stats.overloaded
  /\ RestartPipeline(p)
  /\ EndVisit(p, "overloaded")

OutputStuck(stats)         == \E o \in Outputs : stats.output[o] = "stuck"
AnyOutputDelivering(stats) == \E o \in Outputs : stats.output[o] = "delivering"

VisitStuck(p, stats) ==
  /\ cursor = p /\ seenState = "PLAYING"
  /\ stats.inputLive /\ ~stats.overloaded
  /\ OutputStuck(stats)
  /\ IF stuckTicks[p] + 1 >= StuckTicks
     THEN RestartPipeline(p)
     ELSE /\ stuckTicks' = [stuckTicks EXCEPT ![p] = @ + 1]
          /\ UNCHANGED requests
  /\ EndVisit(p, "stuck")

VisitHealthy(p, stats) ==
  /\ cursor = p /\ seenState = "PLAYING"
  /\ stats.inputLive /\ ~stats.overloaded
  /\ ~OutputStuck(stats)
  /\ stuckTicks' = IF AnyOutputDelivering(stats)
                   THEN [stuckTicks EXCEPT ![p] = 0]
                   ELSE stuckTicks
  /\ UNCHANGED requests
  /\ EndVisit(p, "ok")

VisitNotPlaying(p) ==
  /\ cursor = p /\ seenState \in {"NULL", "PAUSED"}
  /\ \/ Uptime(p) > Timeout /\ RestartPipeline(p)
     \/ Uptime(p) < GiveMoreTime /\ UNCHANGED <<requests, stuckTicks>>
     \/ /\ Uptime(p) \in GiveMoreTime .. Timeout
        /\ Enqueue("start", p)
        /\ UNCHANGED stuckTicks
  /\ EndVisit(p, "notPlaying")

VisitPlaying(p, stats) ==
  \/ VisitSilentInput(p, stats) \/ VisitOverloaded(p, stats)
  \/ VisitStuck(p, stats) \/ VisitHealthy(p, stats)

Visit(p) ==
  \/ VisitUnbuilt(p)
  \/ ReadState(p)
  \/ VisitNotPlaying(p)
  \/ \E stats \in Statistics : VisitPlaying(p, stats)

CheckAndRepair == BeginCheck \/ \E p \in Pipelines : Visit(p)

-----------------------------------------------------------------------------
(* Time, the streaming threads and the devices.                            *)

Older(age) == IF age \in 0 .. MaxUptime - 1 THEN age + 1 ELSE age

(* A second passes. A check takes far less than that; the timer and the    *)
(* GStreamer thread may be late, a usable device no later than StartupTime.*)
Elapse ==
  /\ cursor = 0
  /\ GstKeepsUp => requests = <<>> /\ gstTask = Idle
  /\ \A p \in Pipelines :
       source[p] /\ state[p] = "PAUSED" => sinceStart[p] # StartupTime
  /\ sinceCheck' = IF sinceCheck < CheckPeriod THEN sinceCheck + 1
                                               ELSE sinceCheck
  /\ startedAgo' = [p \in Pipelines |-> Older(startedAgo[p])]
  /\ sinceStart' = [p \in Pipelines |-> Older(sinceStart[p])]
  /\ UNCHANGED <<built, state, late, gstVars, cursor, seenState, stuckTicks,
                 observed, source>>

(* The asynchronous transition begun by start() completes.                 *)
ReachPlaying(p) ==
  /\ state[p] = "PAUSED"
  /\ state' = [state EXCEPT ![p] = "PLAYING"]
  /\ UNCHANGED <<built, startedAgo, history, gstVars, checkVars, source>>

(* A playing pipeline whose device fails may lose its state.               *)
LoseState(p) ==
  /\ state[p] = "PLAYING" /\ ~source[p]
  /\ state' = [state EXCEPT ![p] = "PAUSED"]
  /\ UNCHANGED <<built, startedAgo, history, gstVars, checkVars, source>>

SourceChanges(p) ==
  /\ source' = [source EXCEPT ![p] = ~@]
  /\ UNCHANGED <<pipelineVars, gstVars, checkVars>>

Environment ==
  \/ Elapse
  \/ \E p \in Pipelines : ReachPlaying(p) \/ LoseState(p) \/ SourceChanges(p)

-----------------------------------------------------------------------------

(* The state the GStreamer thread hands over when it sets initialized_:    *)
(* every pipeline was built or failed to, the WebRTC outputs were wired if *)
(* the signaling server could be started, and start() was called on every  *)
(* pipeline: one that is not built cannot start, but gets its start time.  *)
Init ==
  /\ source \in [Pipelines -> BOOLEAN]
  /\ built \in [Pipelines -> BOOLEAN]
  /\ \A p \in Pipelines : source[p] => built[p]
  /\ state \in [Pipelines -> {"NULL", "PAUSED"}]
  /\ \A p \in Pipelines : state[p] = "NULL" => ~source[p]
  /\ \A p \in Pipelines : state[p] = "PAUSED" => built[p]
  /\ startedAgo = [p \in Pipelines |-> 0]
  /\ sinceStart = [p \in Pipelines |-> IF built[p] THEN 0 ELSE Unset]
  /\ late = {}
  /\ requests = <<>>
  /\ gstTask = Idle
  /\ signalingUp \in {FALSE, \E p \in WebrtcPipelines : built[p]}
  /\ wired = IF signalingUp THEN {p \in WebrtcPipelines : built[p]} ELSE {}
  /\ cursor = 0
  /\ seenState = "unread"
  /\ sinceCheck = 0
  /\ stuckTicks = [p \in Pipelines |-> 0]
  /\ observed = [p \in Pipelines |-> "none"]

Next == GstThread \/ CheckAndRepair \/ Environment

(* The timer keeps firing and a begun check ends, the main loop serves its *)
(* sources in order, a usable device gets to PLAYING, and time passes even *)
(* if a device comes and goes.                                             *)
Fairness ==
  /\ WF_vars(GstThread)
  /\ WF_vars(CheckAndRepair)
  /\ SF_vars(Elapse)
  /\ \A p \in Pipelines : WF_vars(ReachPlaying(p) /\ source[p])

Spec     == Init /\ [][Next]_vars
FairSpec == Spec /\ Fairness

-----------------------------------------------------------------------------
(* Properties.                                                             *)

TypeOK ==
  /\ built \in [Pipelines -> BOOLEAN]
  /\ state \in [Pipelines -> States]
  /\ startedAgo \in [Pipelines -> {Unset} \cup 0 .. MaxUptime]
  /\ sinceStart \in [Pipelines -> {Unset} \cup 0 .. MaxUptime]
  /\ late \subseteq Pipelines
  /\ requests \in Seq(Requests)
  /\ gstTask \in Tasks
  /\ signalingUp \in BOOLEAN
  /\ wired \subseteq WebrtcPipelines
  /\ cursor \in 0 .. NumPipelines
  /\ seenState \in States \cup {"unread"}
  /\ sinceCheck \in 0 .. CheckPeriod
  /\ stuckTicks \in [Pipelines -> 0 .. StuckTicks - 1]
  /\ observed \in [Pipelines -> Findings]
  /\ source \in [Pipelines -> BOOLEAN]

(* start() and restart() dereference pipeline_, which exists only in a     *)
(* built pipeline: whatever is queued or half done on the GStreamer thread *)
(* when it finally runs, it is for a pipeline that is built.               *)
RequestsFindBuiltPipeline ==
  /\ \A i \in 1 .. Len(requests) :
       requests[i].kind # "rebuild" => built[requests[i].pipeline]
  /\ gstTask # Idle => built[gstTask[2]]
  /\ seenState # "unread" => built[cursor]

(* A rebuild never touches a pipeline that is already in operation, even   *)
(* when several checks queued one: it finishes on a pipeline that has not  *)
(* been started yet, and such a pipeline is in NULL.                       *)
RebuildFindsFreshPipeline ==
  \A p \in Pipelines :
    /\ gstTask = <<"wireAndStart", p>> => sinceStart[p] = Unset
    /\ sinceStart[p] = Unset => state[p] = "NULL"

(* Outside an unfinished rebuild, the signaling server of a running system *)
(* knows the endpoints of exactly the built pipelines with WebRTC outputs. *)
EndpointsMatchPipelines ==
  gstTask[1] # "wireAndStart" =>
    wired = IF signalingUp THEN {p \in WebrtcPipelines : built[p]} ELSE {}

(* While the GStreamer thread keeps up with the timer, no pipeline has two *)
(* requests outstanding, so no request acts on a pipeline that another one *)
(* repaired in the meantime.                                               *)
OneRequestPerPipeline ==
  \A p \in Pipelines :
    Cardinality({i \in 1 .. Len(requests) : requests[i].pipeline = p})
      + (IF gstTask[2] = p THEN 1 ELSE 0) <= 1

RestartRequested(p) ==
  requests' = Append(requests, [kind |-> "restart", pipeline |-> p])

(* While the GStreamer thread keeps up, a pipeline has had at least the    *)
(* start-up timeout since its start before it is restarted again, unless   *)
(* its processing time is over the limit: no rule restarts it in a loop    *)
(* faster than it can come up. The first restart of a pipeline built after *)
(* start-up may come at once, as its start time is that of the server.     *)
RestartsLeaveTimeToStart ==
  [][\A p \in Pipelines \ late :
       RestartRequested(p) /\ observed'[p] # "overloaded"
         => sinceStart[p] >= Timeout]_vars

(* A pipeline that never gets to PLAYING is not just started again and     *)
(* again: the retries escalate to a full restart, over and over.           *)
StartFailuresEscalate ==
  \A p \in Pipelines :
    <>[](built[p] /\ state[p] # "PLAYING") => []<>(gstTask = <<"start", p>>)

Trouble(p) == ~source[p] \/ observed[p] \in {"noInput", "overloaded", "stuck"}

(* Self-healing, if a usable device needs less than Timeout to start up    *)
(* and the GStreamer thread keeps up: once its device stays usable and the *)
(* checks find no trouble, a pipeline, even one that could not be built,   *)
(* ends up PLAYING and is left alone.                                      *)
PipelinesRecover ==
  \A p \in Pipelines : <>[]~Trouble(p) => <>[](state[p] = "PLAYING")

=============================================================================
