----------------------------- MODULE StuckOutput -----------------------------
(***************************************************************************)
(* What makes the supervisor take an output for stuck: the sessions of a   *)
(* WebRTC output, the frame rate over its window of sent times, the valve  *)
(* before it and the count of checkAndRepair, second by second. Each part  *)
(* has a module of its own (WebrtcSessions, FrameTimes, FlowController,    *)
(* CameraServer); this one composes what of them the rule depends on, for  *)
(* a built and playing pipeline of one output whose input is live.         *)
(***************************************************************************)
EXTENDS Integers, FiniteSets

CONSTANTS
  Clients,
  EstablishTimeout,  \* PEER_ESTABLISH_TIMEOUT_SECONDS (10)
  FrameInterval,     \* seconds between the frames of the output
  Window,            \* seconds the frame rate is averaged over (10)
  MinTimestamps,     \* sent times that make a frame rate (3)
  Grace,             \* GRACE_PERIOD of the flow controller (10)
  CheckPeriod,       \* seconds between the checks (3)
  StuckTicks         \* STUCK_OUTPUT_TICKS_BEFORE_RESTART (5)

(* Seconds until an output that is delivered steadily has a frame rate.    *)
RampUp == MinTimestamps * FrameInterval

(* Seconds a client can go without frames: until the frame rate is 0, and  *)
(* for as many checks as it takes.                                         *)
Patience == Window - (MinTimestamps - 1) * FrameInterval + StuckTicks * CheckPeriod

ASSUME StuckOutputAssumption ==
  /\ IsFiniteSet(Clients)
  /\ EstablishTimeout \in Nat /\ Window \in Nat
  /\ FrameInterval \in Nat \ {0} /\ MinTimestamps \in Nat \ {0}
  /\ Grace \in Nat \ {0} /\ CheckPeriod \in Nat \ {0} /\ StuckTicks \in Nat \ {0}

VARIABLES
  phase,        \* of each client's session, "none" without one
  age,          \* seconds its session is negotiating, 0 when it is not
  wedged,       \* frames do not reach the output, for a reason of its own
  sinceFrame,   \* seconds since the pipeline's last frame
  sent,         \* output_buffer_timestamps_, as ages within the window
  valveOpen,    \* branch_valve_open_ of the output
  inactiveFor,  \* seconds since branch_inactive_since_, or Unset
  updateDue,    \* the flow controller's timer of this second has not run
  sinceCheck,   \* seconds since the last check
  ticks,        \* stuck_output_ticks_
  blamed,       \* sessions that may have added to it, up to two (history)
  steady,       \* seconds frames have been coming, no more than RampUp + 1 (history)
  starving      \* seconds a client has gone without frames (history)

sessionVars == <<phase, age>>
frameVars   == <<wedged, sinceFrame, sent>>
flowVars    == <<valveOpen, inactiveFor, updateDue>>
checkVars   == <<sinceCheck, ticks, blamed>>
timing      == <<steady, starving>>
stuckVars == <<sessionVars, frameVars, flowVars, checkVars, timing>>

Unset == -1

Connected == {c \in Clients : phase[c] # "none"}
Streaming == {c \in Clients : phase[c] = "streaming"}

(* Frames get through to a client.                                         *)
Served(phases, open, blocked) ==
  /\ open /\ ~blocked
  /\ \E c \in Clients : phases[c] = "streaming"

(* A closing session counts until the close handshake is over, which takes *)
(* the peer, or the library's patience with it: there is no bound on it.   *)
Phases == {"none", "negotiating", "streaming", "closing"}

StuckTypeOK ==
  /\ phase \in [Clients -> Phases]
  /\ age \in [Clients -> 0 .. EstablishTimeout]
  /\ wedged \in BOOLEAN
  /\ sinceFrame \in 0 .. FrameInterval
  /\ sent \subseteq 0 .. Window
  /\ valveOpen \in BOOLEAN /\ updateDue \in BOOLEAN
  /\ inactiveFor \in {Unset} \cup 0 .. Grace
  /\ sinceCheck \in 0 .. CheckPeriod
  /\ ticks \in 0 .. StuckTicks - 1
  /\ blamed \in 0 .. 2 /\ steady \in 0 .. RampUp + 1 /\ starving \in Nat

StuckInit ==
  /\ phase = [c \in Clients |-> "none"]
  /\ age = [c \in Clients |-> 0]
  /\ wedged = FALSE /\ sinceFrame \in 0 .. FrameInterval /\ sent = {}
  /\ valveOpen = TRUE /\ inactiveFor = Unset /\ updateDue = FALSE
  /\ sinceCheck = 0 /\ ticks = 0
  /\ blamed = 0 /\ steady = 0 /\ starving = 0

-----------------------------------------------------------------------------
(* Sessions.                                                               *)

Enter(c, p) ==
  /\ phase' = [phase EXCEPT ![c] = p]
  /\ age' = [age EXCEPT ![c] = 0]
  /\ steady' = IF Served(phase', valveOpen, wedged) THEN steady ELSE 0
  /\ starving' = IF \E d \in Clients : phase'[d] = "streaming" THEN starving ELSE 0
  /\ UNCHANGED <<frameVars, flowVars, sinceCheck, ticks>>

(* addPeerBranch: the client counts from now on.                           *)
Connect(c) ==
  /\ phase[c] = "none"
  /\ Enter(c, "negotiating")
  /\ blamed' = IF blamed < 2 THEN blamed + 1 ELSE 2

Establish(c) ==
  /\ phase[c] = "negotiating"
  /\ Enter(c, "streaming")
  /\ UNCHANGED blamed

(* Plausible slip: a session that does not establish is kept.              *)
TimeoutKeepingSession(c) ==
  /\ phase[c] = "negotiating" /\ age[c] = EstablishTimeout
  /\ age' = [age EXCEPT ![c] = 0]
  /\ UNCHANGED <<phase, frameVars, flowVars, checkVars, timing>>

(* onEstablishTimeout: the connection is asked to close, and its client    *)
(* counts until it is closed.                                              *)
Timeout(c) ==
  /\ phase[c] = "negotiating" /\ age[c] = EstablishTimeout
  /\ Enter(c, "closing")
  /\ UNCHANGED blamed

(* A session ends when its connection is closed, by whichever side.        *)
Closed(c) ==
  /\ phase[c] # "none"
  /\ Enter(c, "none")
  /\ UNCHANGED blamed

-----------------------------------------------------------------------------
(* Frames.                                                                 *)

(* The fault the rule is there for, which may pass: no client of the       *)
(* output gets frames. (One that gets none beside others that do is not    *)
(* seen by the rule, which knows the frames of an output, not of a client.)*)
Wedge ==
  /\ wedged' = ~wedged
  /\ steady' = 0
  /\ UNCHANGED <<sessionVars, sinceFrame, sent, flowVars, checkVars, starving>>

(* reportBufferSent, if the frame gets to the payloader of a client. That  *)
(* of a client still negotiating passes its first buffer on.               *)
Frame ==
  /\ sinceFrame = FrameInterval
  /\ sinceFrame' = 0
  /\ \/ /\ valveOpen /\ ~wedged
        /\ \E c \in Clients : phase[c] \in {"negotiating", "streaming"}
        /\ sent' = sent \cup {0} /\ starving' = 0
     \/ /\ ~Served(phase, valveOpen, wedged)
        /\ UNCHANGED <<sent, starving>>
  /\ UNCHANGED <<sessionVars, wedged, flowVars, checkVars, steady>>

(* Plausible slips: any frame of the window counts; one more is asked for. *)
DeliveringWithAny  == sent # {}
DeliveringWithMore == Cardinality(sent) > MinTimestamps

(* pruneAndComputeFps: fewer sent times than that are a frame rate of 0.   *)
Delivering == Cardinality(sent) >= MinTimestamps

-----------------------------------------------------------------------------
(* FlowController::update, for the valve of one output.                    *)

FlowUpdate ==
  /\ updateDue
  /\ updateDue' = FALSE
  /\ inactiveFor' = IF Connected # {} THEN Unset
                    ELSE IF inactiveFor = Unset THEN 0 ELSE inactiveFor
  /\ valveOpen' = (Connected # {} \/ (valveOpen /\ inactiveFor' < Grace))
  /\ steady' = IF Served(phase, valveOpen', wedged) THEN steady ELSE 0
  /\ UNCHANGED <<sessionVars, frameVars, checkVars, starving>>

-----------------------------------------------------------------------------
(* checkAndRepair, for this pipeline.                                      *)

CheckDue == sinceCheck = CheckPeriod

Stuck == valveOpen /\ ~Delivering /\ Connected # {}

(* Sessions there are when the count starts over, up to two.               *)
BlamedNow ==
  IF Cardinality(Connected) < 2 THEN Cardinality(Connected) ELSE 2

(* The pipeline goes to NULL and back, and its clients are sent away; what *)
(* was sent stays in the ring.                                             *)
Restart ==
  /\ phase' = [c \in Clients |-> IF c \in Connected THEN "closing" ELSE "none"]
  /\ age' = [c \in Clients |-> 0]
  /\ wedged' = FALSE
  /\ ticks' = 0
  /\ blamed' = BlamedNow
  /\ steady' = 0 /\ starving' = 0

CountTick ==
  /\ CheckDue /\ Stuck
  /\ ticks + 1 < StuckTicks
  /\ ticks' = ticks + 1
  /\ sinceCheck' = 0
  /\ UNCHANGED <<sessionVars, frameVars, flowVars, blamed, timing>>

RestartStuck ==
  /\ CheckDue /\ Stuck
  /\ ticks + 1 >= StuckTicks
  /\ sinceCheck' = 0
  /\ Restart
  /\ UNCHANGED <<sinceFrame, sent, flowVars>>

CheckDelivering ==
  /\ CheckDue /\ valveOpen /\ Delivering
  /\ ticks' = 0
  /\ blamed' = BlamedNow
  /\ sinceCheck' = 0
  /\ UNCHANGED <<sessionVars, frameVars, flowVars, timing>>

CheckQuiet ==
  /\ CheckDue /\ ~Stuck /\ ~(valveOpen /\ Delivering)
  /\ sinceCheck' = 0
  /\ UNCHANGED <<sessionVars, frameVars, flowVars, ticks, blamed, timing>>

Check == CountTick \/ RestartStuck \/ CheckDelivering \/ CheckQuiet

(* A restart for another cause.                                            *)
RestartOtherwise ==
  /\ Restart
  /\ UNCHANGED <<sinceFrame, sent, flowVars, sinceCheck>>

-----------------------------------------------------------------------------
(* A second passes, once all that is due has happened.                     *)
Elapse ==
  /\ ~updateDue /\ ~CheckDue /\ sinceFrame < FrameInterval
  /\ \A c \in Clients : phase[c] = "negotiating" => age[c] < EstablishTimeout
  /\ age' = [c \in Clients |-> IF phase[c] = "negotiating" THEN age[c] + 1 ELSE 0]
  /\ sinceFrame' = sinceFrame + 1
  /\ sent' = {s + 1 : s \in sent} \cap 0 .. Window
  /\ inactiveFor' = IF inactiveFor \in 0 .. Grace - 1
                    THEN inactiveFor + 1 ELSE inactiveFor
  /\ updateDue' = TRUE
  /\ sinceCheck' = sinceCheck + 1
  /\ steady' = IF Served(phase, valveOpen, wedged) /\ steady <= RampUp
               THEN steady + 1 ELSE steady
  /\ starving' = IF Streaming # {} THEN starving + 1 ELSE 0
  /\ UNCHANGED <<phase, wedged, valveOpen, ticks, blamed>>

StuckNext ==
  \/ \E c \in Clients : Connect(c) \/ Establish(c) \/ Timeout(c) \/ Closed(c)
  \/ Wedge \/ Frame \/ FlowUpdate \/ Check \/ RestartOtherwise \/ Elapse

StuckSpec == StuckInit /\ [][StuckNext]_stuckVars

-----------------------------------------------------------------------------
(* Properties.                                                             *)

(* The rule does its job: a client whose connection is established does    *)
(* not go without frames for longer than the rule takes to see it.         *)
StarvingClientsAreNoticed == starving <= Patience

(* An output that frames have been reaching for as long as it takes to     *)
(* measure a frame rate is not restarted as stuck, whatever was counted    *)
(* before.                                                                 *)
SteadyOutputsAreKept == [][RestartStuck => steady <= RampUp]_stuckVars

(* The timeout of a session comes before the rule: a restart never hits    *)
(* one that is still negotiating, if no other session can have added to    *)
(* the count. "Sessions that are still negotiating (legitimately 0 fps) are *)
(* closed by that timeout before this rule can fire" says more: they are   *)
(* asked to close by then, but still count, and the pipeline is restarted  *)
(* for a client that is away; and a client that tries again is still       *)
(* negotiating when the count its sessions add to is up.                   *)
SingleNegotiationIsNotCutOff ==
  [][RestartStuck /\ blamed < 2 =>
       \A c \in Clients : phase[c] # "negotiating"]_stuckVars

=============================================================================
