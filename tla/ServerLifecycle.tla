--------------------------- MODULE ServerLifecycle ---------------------------
(***************************************************************************)
(* Start-up and shutdown of CameraServer: its constructor, its GStreamer   *)
(* thread and its destructor. The owner's thread constructs the server,    *)
(* spins (running the ROS timers one at a time) and destroys it; the       *)
(* GStreamer thread builds, wires and starts the pipelines, announces that *)
(* with initialized_ and the on_initialized callback, and runs the main    *)
(* loop. ICE threads of WebRTC sessions live as long as the pipelines do.  *)
(***************************************************************************)
EXTENDS Integers

CONSTANTS
  NumPipelines,  \* number of configured cameras
  MaxRequests    \* bound: requests the timers leave queued on the main context

ASSUME LifecycleAssumption ==
  /\ NumPipelines \in Nat \ {0}
  /\ MaxRequests \in Nat

VARIABLES
  owner,        \* program point of the thread that owns the server
  gst,          \* program point of the GStreamer thread
  pushed,       \* pipelines in the pipelines_ vector
  started,      \* pipelines that were started
  initialized,  \* initialized_
  loop,         \* g_main_loop_: "null", "created", "running" or "freed"
  queued,       \* requests queued on the GStreamer thread's main context
  signaling,    \* the signaling server: "none", "up" or "stopped"
  sessions,     \* a WebRTC session, with its ICE threads, exists
  lateDispatch  \* an ICE thread dispatched to a context already given up (history)

vars == <<owner, gst, pushed, started, initialized, loop, queued, signaling,
          sessions, lateDispatch>>

OwnerPoints == {"spinning", "awaitInitialized", "quit", "join",
                "stopPipelines", "clearPipelines", "stopSignaling", "destroyed"}
GstPoints == {"createLoop", "build", "wire", "start", "announce", "callback",
              "enterLoop", "run", "done"}

TypeOK ==
  /\ owner \in OwnerPoints
  /\ gst \in GstPoints
  /\ pushed \in 0 .. NumPipelines
  /\ started \in 0 .. NumPipelines
  /\ initialized \in BOOLEAN
  /\ loop \in {"null", "created", "running", "freed"}
  /\ queued \in 0 .. MaxRequests
  /\ signaling \in {"none", "up", "stopped"}
  /\ sessions \in BOOLEAN
  /\ lateDispatch \in BOOLEAN

Init ==
  /\ owner = "spinning"
  /\ gst = "createLoop"
  /\ pushed = 0
  /\ started = 0
  /\ initialized = FALSE
  /\ loop = "null"
  /\ queued = 0
  /\ signaling = "none"
  /\ sessions = FALSE
  /\ lateDispatch = FALSE

-----------------------------------------------------------------------------
(* The GStreamer thread, in the order of the lambda in the constructor.    *)

CreateLoop ==
  /\ gst = "createLoop"
  /\ loop' = "created"
  /\ gst' = "build"
  /\ UNCHANGED <<owner, pushed, started, initialized, queued, signaling,
                 sessions, lateDispatch>>

(* A pipeline is pushed whether its build succeeded or threw.              *)
Build ==
  /\ gst = "build"
  /\ pushed' = pushed + 1
  /\ gst' = IF pushed' = NumPipelines THEN "wire" ELSE "build"
  /\ UNCHANGED <<owner, started, initialized, loop, queued, signaling,
                 sessions, lateDispatch>>

(* initializeWebRTC: there may be no WebRTC output, or no free port.       *)
Wire ==
  /\ gst = "wire"
  /\ signaling' \in {"none", "up"}
  /\ gst' = "start"
  /\ UNCHANGED <<owner, pushed, started, initialized, loop, queued, sessions,
                 lateDispatch>>

(* Plausible slip: initialized_ is set before the pipelines are started.   *)
AnnounceEarly ==
  /\ gst = "start"
  /\ started' = started + 1
  /\ initialized' = TRUE
  /\ gst' = IF started' = NumPipelines THEN "announce" ELSE "start"
  /\ UNCHANGED <<owner, pushed, loop, queued, signaling, sessions,
                 lateDispatch>>

Start ==
  /\ gst = "start"
  /\ started' = started + 1
  /\ gst' = IF started' = NumPipelines THEN "announce" ELSE "start"
  /\ UNCHANGED <<owner, pushed, initialized, loop, queued, signaling,
                 sessions, lateDispatch>>

Announce ==
  /\ gst = "announce"
  /\ initialized' = TRUE
  /\ gst' = "callback"
  /\ UNCHANGED <<owner, pushed, started, loop, queued, signaling, sessions,
                 lateDispatch>>

(* on_initialized()                                                        *)
Callback ==
  /\ gst = "callback"
  /\ gst' = "enterLoop"
  /\ UNCHANGED <<owner, pushed, started, initialized, loop, queued, signaling,
                 sessions, lateDispatch>>

(* g_main_loop_run marks the loop running, whatever happened before.       *)
EnterLoop ==
  /\ gst = "enterLoop"
  /\ loop' = "running"
  /\ gst' = "run"
  /\ UNCHANGED <<owner, pushed, started, initialized, queued, signaling,
                 sessions, lateDispatch>>

(* An iteration of the loop: a queued request, which may be a rebuild that *)
(* wires the first WebRTC output, or a client coming or going.             *)
Iterate ==
  /\ gst = "run" /\ loop = "running"
  /\ \/ /\ queued > 0
        /\ queued' = queued - 1
        /\ signaling' \in {signaling, "up"}
        /\ UNCHANGED sessions
     \/ /\ signaling = "up"
        /\ sessions' = ~sessions
        /\ UNCHANGED <<queued, signaling>>
  /\ UNCHANGED <<owner, gst, pushed, started, initialized, loop, lateDispatch>>

(* The loop was asked to quit: g_main_loop_run returns, the loop is unref'd*)
LeaveLoop ==
  /\ gst = "run" /\ loop = "created"
  /\ loop' = "freed"
  /\ gst' = "done"
  /\ UNCHANGED <<owner, pushed, started, initialized, queued, signaling,
                 sessions, lateDispatch>>

GstThread == \/ CreateLoop \/ Build \/ Wire \/ Start \/ Announce \/ Callback
             \/ EnterLoop \/ Iterate \/ LeaveLoop

-----------------------------------------------------------------------------
(* The owner's thread.                                                     *)

(* checkAndRepair, updateStatus and updateFlowControl walk the pipelines   *)
(* once initialized_ is set; the first one may queue requests.             *)
Timer ==
  /\ owner = "spinning"
  /\ initialized
  /\ queued < MaxRequests
  /\ queued' = queued + 1
  /\ UNCHANGED <<owner, gst, pushed, started, initialized, loop, signaling,
                 sessions, lateDispatch>>

OwnerStep(from, to) == owner = from /\ owner' = to

(* The destructor begins: the timers are reset. The process may be shut    *)
(* down at any time, also right after launch.                              *)
Destroy ==
  /\ OwnerStep("spinning", "awaitInitialized")
  /\ UNCHANGED <<gst, pushed, started, initialized, loop, queued, signaling,
                 sessions, lateDispatch>>

AwaitInitialized ==
  /\ OwnerStep("awaitInitialized", "quit")
  /\ initialized
  /\ UNCHANGED <<gst, pushed, started, initialized, loop, queued, signaling,
                 sessions, lateDispatch>>

(* Plausible slip: the destructor joins the thread without quitting its    *)
(* loop.                                                                   *)
QuitNothing ==
  /\ OwnerStep("quit", "join")
  /\ UNCHANGED <<gst, pushed, started, initialized, loop, queued, signaling,
                 sessions, lateDispatch>>

(* g_main_loop_quit clears the running mark; it is a no-op on a loop that  *)
(* is not running yet.                                                     *)
Quit ==
  /\ OwnerStep("quit", "join")
  /\ loop' = IF loop = "running" THEN "created" ELSE loop
  /\ UNCHANGED <<gst, pushed, started, initialized, queued, signaling,
                 sessions, lateDispatch>>

Join ==
  /\ OwnerStep("join", "stopPipelines")
  /\ gst = "done"
  /\ UNCHANGED <<gst, pushed, started, initialized, loop, queued, signaling,
                 sessions, lateDispatch>>

(* CameraPipeline::stop, on each pipeline. What it asks the signaling       *)
(* context to do, if there is one, is never done: the thread that ran the  *)
(* context is joined. The sessions stay until the pipelines are cleared.   *)
StopPipelines ==
  /\ OwnerStep("stopPipelines", "clearPipelines")
  /\ started' = 0
  /\ UNCHANGED <<gst, pushed, initialized, loop, queued, signaling, sessions,
                 lateDispatch>>

(* Plausible slip: the signaling server is stopped before the pipelines,   *)
(* and with them the sessions, are destroyed.                              *)
StopSignalingInstead ==
  /\ OwnerStep("clearPipelines", "stopSignaling")
  /\ signaling' = IF signaling = "up" THEN "stopped" ELSE signaling
  /\ UNCHANGED <<gst, pushed, started, initialized, loop, queued, sessions,
                 lateDispatch>>

(* pipelines_.clear(): dropping the webrtcbins joins their ICE threads.    *)
ClearPipelines ==
  /\ OwnerStep("clearPipelines", "stopSignaling")
  /\ pushed' = 0
  /\ sessions' = FALSE
  /\ UNCHANGED <<gst, started, initialized, loop, queued, signaling,
                 lateDispatch>>

StopSignaling ==
  /\ OwnerStep("stopSignaling", "destroyed")
  /\ signaling' = IF signaling = "up" THEN "stopped" ELSE signaling
  /\ UNCHANGED <<gst, pushed, started, initialized, loop, queued, sessions,
                 lateDispatch>>

Destructor == \/ AwaitInitialized \/ Quit \/ Join
              \/ StopPipelines \/ ClearPipelines \/ StopSignaling

-----------------------------------------------------------------------------

(* A transport-state callback on an ICE thread dispatches onto the         *)
(* signaling server's context.                                             *)
IceCallback ==
  /\ sessions
  /\ lateDispatch' = (lateDispatch \/ signaling # "up")
  /\ UNCHANGED <<owner, gst, pushed, started, initialized, loop, queued,
                 signaling, sessions>>

Next == GstThread \/ Timer \/ Destroy \/ Destructor \/ IceCallback

Fairness == WF_vars(GstThread) /\ WF_vars(Destructor)

Spec     == Init /\ [][Next]_vars
FairSpec == Spec /\ Fairness

-----------------------------------------------------------------------------
(* Properties.                                                             *)

(* A timer callback that gets past the initialized_ check, and the request *)
(* it queues, finds the whole vector of started pipelines and a main loop  *)
(* that exists; nothing is appended to the vector it walks.                *)
TimersFindServerReady ==
  [][queued' > queued =>
       /\ pushed = NumPipelines /\ started = NumPipelines
       /\ loop \in {"created", "running"}]_vars

(* The destructor never asks a loop that was not created to quit: that     *)
(* would be a no-op, as its comment says.                                  *)
QuitFindsLoop == owner \in {"quit", "join"} => loop # "null"

(* Once the destructor stops the pipelines nothing else touches them: the  *)
(* GStreamer thread, which adds and removes their elements, has ended.     *)
PipelinesStoppedAlone ==
  owner \in {"stopPipelines", "clearPipelines", "stopSignaling", "destroyed"}
    => gst = "done" /\ loop = "freed"

(* No ICE thread dispatches onto the signaling context while or after      *)
(* stop() gives it up.                                                     *)
NoDispatchAfterSignalingStop == ~lateDispatch

(* The destructor of a server whose main loop is running terminates.       *)
RunningServerShutsDown ==
  (owner = "awaitInitialized" /\ loop = "running") ~> owner = "destroyed"

(* The destructor terminates, also right after launch: what the comment    *)
(* before its wait for initialized_ says that wait is for.                 *)
ShutdownTerminates == owner = "awaitInitialized" ~> owner = "destroyed"

=============================================================================
