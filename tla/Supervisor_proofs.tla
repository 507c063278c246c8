-------------------------- MODULE Supervisor_proofs --------------------------
(***************************************************************************)
(* Proofs about the two smaller modules of the supervisor: start-up and    *)
(* shutdown (ServerLifecycle) are ordered as the comments of the           *)
(* constructor and the destructor say, for any number of cameras and       *)
(* queued requests; and the rule for stuck outputs (StuckOutput) notices   *)
(* the clients it is there for and leaves the others alone, for any number *)
(* of clients and any time constants that satisfy what each theorem asks   *)
(* of them.                                                                *)
(***************************************************************************)
EXTENDS ServerLifecycle, StuckOutput, FiniteSetTheorems, TLAPS

-----------------------------------------------------------------------------
(* Start-up and shutdown.                                                  *)

(* The strengthening. How far the GStreamer thread is says what it has     *)
(* made; how far the destructor is says what the thread has still to do.   *)

Early == {"createLoop", "build", "wire"}

ThreadInv ==
  /\ gst = "createLoop" => pushed = 0 /\ loop = "null"
  /\ gst = "build" => pushed < NumPipelines
  /\ gst \in Early => started = 0
  /\ gst = "start" => started < NumPipelines
  /\ gst \notin {"createLoop", "run", "done"} => loop = "created"
  /\ gst = "run" => loop \in {"created", "running"}
  /\ gst = "done" => loop = "freed"
  /\ initialized <=> gst \in {"callback", "enterLoop", "run", "done"}
  /\ gst \notin {"run", "done"} => ~sessions

OwnerInv ==
  /\ owner \notin {"spinning", "awaitInitialized"} => initialized
  /\ owner \in {"spinning", "awaitInitialized", "quit"} =>
       gst # "done" /\ (gst = "run" => loop = "running")
  /\ owner \in {"spinning", "awaitInitialized", "quit", "join"}
       /\ gst \notin {"createLoop", "build"} => pushed = NumPipelines
  /\ owner \in {"spinning", "awaitInitialized", "quit", "join"}
       /\ gst \notin Early \cup {"start"} => started = NumPipelines
  /\ owner \in {"stopSignaling", "destroyed"} => ~sessions

SessionInv == sessions => signaling = "up"

LifecycleInv == /\ TypeOK
        /\ ThreadInv
        /\ OwnerInv
        /\ SessionInv
        /\ PipelinesStoppedAlone
        /\ NoDispatchAfterSignalingStop

(* A server just constructed has nothing yet, and nobody destroys it.      *)
LEMMA InitInvariant == Init => LifecycleInv
<1> SUFFICES ASSUME Init PROVE LifecycleInv
  OBVIOUS
<1>1. initialized \in BOOLEAN /\ sessions \in BOOLEAN /\ lateDispatch \in BOOLEAN
  BY Zenon DEF Init
<1>2. ~initialized /\ ~sessions /\ ~lateDispatch
  BY Zenon DEF Init
<1> QED
  BY <1>1, <1>2, LifecycleAssumption
     DEF Init, LifecycleInv, TypeOK, ThreadInv, OwnerInv, SessionInv, Early,
         OwnerPoints, GstPoints, PipelinesStoppedAlone,
         NoDispatchAfterSignalingStop

(* The GStreamer thread runs only as long as the destructor has not        *)
(* joined it.                                                              *)
LEMMA GstThreadKeeps == ASSUME LifecycleInv, GstThread PROVE LifecycleInv'
<1> USE LifecycleAssumption
    DEF LifecycleInv, TypeOK, ThreadInv, OwnerInv, SessionInv, Early, OwnerPoints,
        GstPoints, PipelinesStoppedAlone, NoDispatchAfterSignalingStop
<1>1. CASE CreateLoop
  BY <1>1 DEF CreateLoop
<1>2. CASE Build
  BY <1>2 DEF Build
<1>3. CASE Wire
  BY <1>3 DEF Wire
<1>4. CASE Start
  BY <1>4 DEF Start
<1>5. CASE Announce
  <2>1. initialized' \in BOOLEAN /\ initialized'
    BY <1>5, Zenon DEF Announce
  <2>2. /\ gst = "announce" /\ gst' = "callback"
        /\ UNCHANGED <<owner, pushed, started, loop, queued, signaling,
                       sessions, lateDispatch>>
    BY <1>5 DEF Announce
  <2> QED
    BY <2>1, <2>2
<1>6. CASE Callback
  BY <1>6 DEF Callback
<1>7. CASE EnterLoop
  BY <1>7 DEF EnterLoop
<1>8. CASE Iterate
  <2>1. CASE UNCHANGED sessions
    BY <1>8, <2>1 DEF Iterate
  <2>2. CASE sessions' = ~sessions /\ signaling = "up" /\ UNCHANGED <<queued, signaling>>
    <3>1. sessions' \in BOOLEAN
      BY <2>2, Zenon
    <3> QED
      BY <1>8, <2>2, <3>1 DEF Iterate
  <2> QED
    BY <1>8, <2>1, <2>2 DEF Iterate
<1>9. CASE LeaveLoop
  BY <1>9 DEF LeaveLoop
<1>. QED
  BY <1>1, <1>2, <1>3, <1>4, <1>5, <1>6, <1>7, <1>8, <1>9 DEF GstThread

(* The destructor goes through its points in order.                        *)
LEMMA OwnerKeeps == ASSUME LifecycleInv, Timer \/ Destroy \/ Destructor PROVE LifecycleInv'
<1> USE LifecycleAssumption
    DEF LifecycleInv, TypeOK, ThreadInv, OwnerInv, SessionInv, Early, OwnerPoints,
        GstPoints, PipelinesStoppedAlone, NoDispatchAfterSignalingStop,
        OwnerStep
<1>1. CASE Timer
  BY <1>1 DEF Timer
<1>2. CASE Destroy
  BY <1>2 DEF Destroy
<1>3. CASE AwaitInitialized
  BY <1>3 DEF AwaitInitialized
<1>4. CASE Quit
  BY <1>4 DEF Quit
<1>5. CASE Join
  BY <1>5 DEF Join
<1>6. CASE StopPipelines
  BY <1>6 DEF StopPipelines
<1>7. CASE ClearPipelines
  <2>1. sessions' \in BOOLEAN /\ ~sessions'
    BY <1>7, Zenon DEF ClearPipelines
  <2> QED
    BY <1>7, <2>1 DEF ClearPipelines
<1>8. CASE StopSignaling
  BY <1>8 DEF StopSignaling
<1>. QED
  BY <1>1, <1>2, <1>3, <1>4, <1>5, <1>6, <1>7, <1>8 DEF Destructor

(* Every step keeps the invariant; an ICE thread finds the signaling       *)
(* server up, because there are sessions.                                  *)
LEMMA StepInvariant == LifecycleInv /\ [Next]_vars => LifecycleInv'
<1> SUFFICES ASSUME LifecycleInv, [Next]_vars PROVE LifecycleInv'
  OBVIOUS
<1>1. CASE IceCallback
  BY <1>1 DEF IceCallback, LifecycleInv, TypeOK, ThreadInv, OwnerInv, SessionInv,
     PipelinesStoppedAlone, NoDispatchAfterSignalingStop
<1>2. CASE UNCHANGED vars
  BY <1>2 DEF vars, LifecycleInv, TypeOK, ThreadInv, OwnerInv, SessionInv,
     PipelinesStoppedAlone, NoDispatchAfterSignalingStop
<1>. QED
  BY <1>1, <1>2, GstThreadKeeps, OwnerKeeps DEF Next

(* The inductive invariant of start-up and shutdown holds in every         *)
(* reachable state.                                                        *)
THEOREM LifecycleInvariant == Spec => []LifecycleInv
  BY InitInvariant, StepInvariant, PTL DEF Spec

-----------------------------------------------------------------------------
(* Types: the vector of pipelines never outgrows the configuration.        *)
THEOREM TypeCorrect == Spec => []TypeOK
<1>1. LifecycleInv => TypeOK
  BY DEF LifecycleInv
<1>. QED
  BY <1>1, LifecycleInvariant, PTL

(* No destructor quits a loop that was never created.                      *)
THEOREM QuitsFindLoop == Spec => []QuitFindsLoop
<1>1. LifecycleInv => QuitFindsLoop
  BY DEF LifecycleInv, ThreadInv, OwnerInv, TypeOK, GstPoints, QuitFindsLoop
<1>. QED
  BY <1>1, LifecycleInvariant, PTL

(* Pipelines are stopped and destroyed only when the GStreamer thread has  *)
(* ended.                                                                  *)
THEOREM StoppedAlone == Spec => []PipelinesStoppedAlone
<1>1. LifecycleInv => PipelinesStoppedAlone
  BY DEF LifecycleInv
<1>. QED
  BY <1>1, LifecycleInvariant, PTL

(* No ICE thread dispatches to a signaling server that is down.            *)
THEOREM NoLateDispatch == Spec => []NoDispatchAfterSignalingStop
<1>1. LifecycleInv => NoDispatchAfterSignalingStop
  BY DEF LifecycleInv
<1>. QED
  BY <1>1, LifecycleInvariant, PTL

(* A timer callback that gets past the check of initialized_ finds every   *)
(* pipeline built and started, and a main loop to queue its request on.    *)
THEOREM TimersSafe == Spec => TimersFindServerReady
<1> DEFINE Ready == queued' > queued =>
                      /\ pushed = NumPipelines /\ started = NumPipelines
                      /\ loop \in {"created", "running"}
<1>1. ASSUME LifecycleInv, [Next]_vars PROVE [Ready]_vars
  <2>1. CASE Timer
    BY <2>1, <1>1 DEF Timer, LifecycleInv, ThreadInv, OwnerInv, TypeOK, GstPoints, Early
  <2>2. CASE Iterate
    BY <2>2, <1>1 DEF Iterate, LifecycleInv, TypeOK
  <2>3. CASE Next /\ ~Timer /\ ~Iterate
    <3>1. queued' = queued
      BY <2>3 DEF Next, GstThread, Destructor, CreateLoop, Build, Wire, Start,
         Announce, Callback, EnterLoop, LeaveLoop, Destroy, AwaitInitialized,
         Quit, Join, StopPipelines, ClearPipelines, StopSignaling, IceCallback
    <3>. QED
      BY <3>1, <1>1 DEF LifecycleInv, TypeOK
  <2>. QED
    BY <2>1, <2>2, <2>3, <1>1
<1>. QED
  BY <1>1, LifecycleInvariant, PTL DEF Spec, TimersFindServerReady

-----------------------------------------------------------------------------
(* Types.                                                                  *)

(* The constants are numbers, one by one.                                  *)
LEMMA ConstantTypes ==
  /\ EstablishTimeout \in Nat /\ Window \in Nat
  /\ FrameInterval \in Nat \ {0} /\ MinTimestamps \in Nat \ {0}
  /\ Grace \in Nat \ {0} /\ CheckPeriod \in Nat \ {0} /\ StuckTicks \in Nat \ {0}
  /\ RampUp \in Nat
<1>1. \A m, f \in Nat : m * f \in Nat
  OBVIOUS
<1> QED  BY <1>1, StuckOutputAssumption DEF RampUp

(* A session enters a phase.                                               *)
LEMMA EnterKeepsTypes ==
  ASSUME StuckTypeOK, NEW c \in Clients, NEW p \in Phases, Enter(c, p)
  PROVE  /\ phase' \in [Clients -> Phases]
         /\ age' \in [Clients -> 0 .. EstablishTimeout]
         /\ steady' \in 0 .. RampUp + 1 /\ starving' \in Nat
         /\ phase'[c] = p /\ age'[c] = 0
         /\ \A d \in Clients \ {c} : phase'[d] = phase[d] /\ age'[d] = age[d]
         /\ UNCHANGED <<frameVars, flowVars, sinceCheck, ticks>>
<1>1. /\ phase' = [phase EXCEPT ![c] = p] /\ age' = [age EXCEPT ![c] = 0]
      /\ UNCHANGED <<frameVars, flowVars, sinceCheck, ticks>>
  BY DEF Enter
<1>2. phase \in [Clients -> Phases] /\ age \in [Clients -> 0 .. EstablishTimeout]
  BY DEF StuckTypeOK
<1>3. 0 \in 0 .. EstablishTimeout
  BY ConstantTypes
<1>4. /\ phase' \in [Clients -> Phases] /\ age' \in [Clients -> 0 .. EstablishTimeout]
      /\ phase'[c] = p /\ age'[c] = 0
      /\ \A d \in Clients \ {c} : phase'[d] = phase[d] /\ age'[d] = age[d]
  BY <1>1, <1>2, <1>3
<1>5. steady' \in {0, steady} /\ starving' \in {0, starving}
  BY DEF Enter
<1>6. steady' \in 0 .. RampUp + 1 /\ starving' \in Nat
  BY <1>5, ConstantTypes DEF StuckTypeOK
<1> QED  BY <1>1, <1>4, <1>6

(* A restart sends every client away.                                      *)
LEMMA RestartKeepsTypes ==
  ASSUME StuckTypeOK, Restart
  PROVE  /\ phase' \in [Clients -> Phases] /\ age' \in [Clients -> 0 .. EstablishTimeout]
         /\ \A c \in Clients : phase'[c] \in {"closing", "none"}
         /\ \A c \in Clients : phase'[c] # "none" => phase[c] # "none"
         /\ wedged' = FALSE
         /\ ticks' = 0 /\ blamed' = BlamedNow /\ steady' = 0 /\ starving' = 0
<1>1. /\ phase' = [c \in Clients |-> IF c \in Connected THEN "closing" ELSE "none"]
      /\ age' = [c \in Clients |-> 0]
      /\ ticks' = 0 /\ blamed' = BlamedNow /\ steady' = 0 /\ starving' = 0
      /\ wedged' = FALSE
  BY DEF Restart
<1>2. 0 \in 0 .. EstablishTimeout
  BY ConstantTypes
<1>3. phase' \in [Clients -> Phases] /\ age' \in [Clients -> 0 .. EstablishTimeout]
  BY <1>1, <1>2 DEF Phases
<1>4. \A c \in Clients : phase'[c] # "none" => phase[c] # "none"
  BY <1>1 DEF Connected
<1>5. \A c \in Clients : phase'[c] \in {"closing", "none"}
  BY <1>1
<1> QED  BY <1>1, <1>3, <1>4, <1>5

(* The clients that are connected can be counted.                          *)
LEMMA ConnectedFinite ==
  /\ IsFiniteSet(Connected) /\ Cardinality(Connected) \in Nat
  /\ IsFiniteSet(sent) => Cardinality(sent) \in Nat
<1>1. IsFiniteSet(Clients) /\ Connected \subseteq Clients
  BY StuckOutputAssumption DEF Connected
<1> QED  BY <1>1, FS_Subset, FS_CardinalityType

(* Two is as far as sessions are counted.                                  *)
LEMMA BlamedType == BlamedNow \in 0 .. 2
BY ConnectedFinite DEF BlamedNow

(* A pipeline that just started has nothing counted.                       *)
LEMMA InitTypes == StuckInit => StuckTypeOK
<1> SUFFICES ASSUME StuckInit PROVE StuckTypeOK
  OBVIOUS
<1>1. wedged \in BOOLEAN /\ valveOpen \in BOOLEAN /\ updateDue \in BOOLEAN
  BY Zenon DEF StuckInit
<1>2. phase \in [Clients -> Phases]
  BY DEF StuckInit, Phases
<1>3. age \in [Clients -> 0 .. EstablishTimeout]
  BY ConstantTypes DEF StuckInit
<1>4. /\ sinceFrame \in 0 .. FrameInterval /\ sent \subseteq 0 .. Window
      /\ inactiveFor \in {Unset} \cup 0 .. Grace
      /\ sinceCheck \in 0 .. CheckPeriod /\ ticks \in 0 .. StuckTicks - 1
      /\ blamed \in 0 .. 2 /\ steady \in 0 .. RampUp + 1 /\ starving \in Nat
  BY ConstantTypes DEF StuckInit
<1> QED  BY <1>1, <1>2, <1>3, <1>4 DEF StuckTypeOK

(* Every step keeps the types: no counter leaves its bounds.               *)
LEMMA TypesStep == StuckTypeOK /\ [StuckNext]_stuckVars => StuckTypeOK'
<1> SUFFICES ASSUME StuckTypeOK, [StuckNext]_stuckVars PROVE StuckTypeOK'
  OBVIOUS
<1> USE DEF frameVars, flowVars
<1>1. ASSUME NEW c \in Clients, Connect(c) \/ Establish(c) \/ Timeout(c) \/ Closed(c)
      PROVE  StuckTypeOK'
  <2>1. \E p \in Phases : Enter(c, p)
    BY <1>1 DEF Connect, Establish, Timeout, Closed, Phases
  <2>2. blamed' \in 0 .. 2
    BY <1>1 DEF Connect, Establish, Timeout, Closed, StuckTypeOK
  <2> QED  BY <2>1, <2>2, EnterKeepsTypes DEF StuckTypeOK
<1>2. CASE Wedge
  <2>1. wedged' \in BOOLEAN
    BY <1>2, Zenon DEF Wedge
  <2>2. steady' \in 0 .. RampUp + 1
    BY <1>2, ConstantTypes DEF Wedge
  <2>3. UNCHANGED <<sessionVars, sinceFrame, sent, flowVars, checkVars, starving>>
    BY <1>2 DEF Wedge
  <2> QED  BY <2>1, <2>2, <2>3 DEF StuckTypeOK, sessionVars, checkVars
<1>3. CASE Frame
  <2>1. sent' \subseteq sent \cup {0} /\ starving' \in {0, starving} /\ sinceFrame' = 0
    BY <1>3 DEF Frame
  <2>2. UNCHANGED <<sessionVars, wedged, flowVars, checkVars, steady>>
    BY <1>3 DEF Frame
  <2>3. /\ sent' \subseteq 0 .. Window /\ starving' \in Nat
        /\ sinceFrame' \in 0 .. FrameInterval
    BY <2>1, ConstantTypes DEF StuckTypeOK
  <2> QED  BY <2>2, <2>3 DEF StuckTypeOK, sessionVars, checkVars
<1>4. CASE FlowUpdate
  <2>1. updateDue' \in BOOLEAN /\ valveOpen' \in BOOLEAN
    BY <1>4, Zenon DEF FlowUpdate
  <2>2. inactiveFor' \in {Unset, 0, inactiveFor} /\ steady' \in {0, steady}
    BY <1>4 DEF FlowUpdate
  <2>3. inactiveFor' \in {Unset} \cup 0 .. Grace /\ steady' \in 0 .. RampUp + 1
    BY <2>2, ConstantTypes DEF StuckTypeOK
  <2>4. UNCHANGED <<sessionVars, sinceFrame, sent, wedged, checkVars, starving>>
    BY <1>4 DEF FlowUpdate
  <2> QED  BY <2>1, <2>3, <2>4 DEF StuckTypeOK, sessionVars, checkVars
<1>5. CASE CountTick \/ CheckQuiet \/ CheckDelivering
  <2>1. /\ ticks' \in 0 .. StuckTicks - 1 /\ sinceCheck' \in 0 .. CheckPeriod
        /\ blamed' \in 0 .. 2
    BY <1>5, ConstantTypes, BlamedType
       DEF CountTick, CheckQuiet, CheckDelivering, StuckTypeOK
  <2>2. UNCHANGED <<sessionVars, frameVars, flowVars, timing>>
    BY <1>5 DEF CountTick, CheckQuiet, CheckDelivering
  <2> QED  BY <2>1, <2>2 DEF StuckTypeOK, sessionVars, timing
<1>6. CASE RestartStuck \/ RestartOtherwise
  <2>1. Restart /\ sinceCheck' \in {0, sinceCheck} /\ UNCHANGED <<sinceFrame, sent, flowVars>>
    BY <1>6 DEF RestartStuck, RestartOtherwise
  <2>2. /\ sinceCheck' \in 0 .. CheckPeriod /\ ticks' \in 0 .. StuckTicks - 1
        /\ blamed' \in 0 .. 2 /\ steady' \in 0 .. RampUp + 1 /\ starving' \in Nat
    <3>1. ticks' = 0 /\ blamed' = BlamedNow /\ steady' = 0 /\ starving' = 0
      BY <2>1, RestartKeepsTypes
    <3>2. sinceCheck' \in 0 .. CheckPeriod
      BY <2>1, ConstantTypes DEF StuckTypeOK
    <3> QED  BY <3>1, <3>2, BlamedType, ConstantTypes
  <2>3. wedged' \in BOOLEAN
    BY <2>1, Zenon DEF Restart
  <2> QED  BY <2>1, <2>2, <2>3, RestartKeepsTypes DEF StuckTypeOK
<1>7. CASE Elapse
  <2>1. /\ ~CheckDue /\ sinceFrame < FrameInterval
        /\ \A c \in Clients : phase[c] = "negotiating" => age[c] < EstablishTimeout
        /\ age' = [c \in Clients |-> IF phase[c] = "negotiating"
                                     THEN age[c] + 1 ELSE 0]
        /\ UNCHANGED <<phase, wedged, valveOpen, ticks, blamed>>
    BY <1>7 DEF Elapse
  <2>2. phase \in [Clients -> Phases] /\ age \in [Clients -> 0 .. EstablishTimeout]
    BY DEF StuckTypeOK
  <2>3. ASSUME NEW c \in Clients
        PROVE  (IF phase[c] = "negotiating" THEN age[c] + 1 ELSE 0)
                 \in 0 .. EstablishTimeout
    <3>1. age[c] \in 0 .. EstablishTimeout /\ EstablishTimeout \in Nat
      BY <2>2, ConstantTypes
    <3> QED  BY <2>1, <3>1
  <2>4. age' \in [Clients -> 0 .. EstablishTimeout]
    BY <2>1, <2>3
  <2>5. updateDue' \in BOOLEAN
    BY <1>7, Zenon DEF Elapse
  <2>6. sinceFrame' \in 0 .. FrameInterval /\ sent' \subseteq 0 .. Window
    BY <1>7, <2>1, ConstantTypes DEF Elapse, StuckTypeOK
  <2>7. inactiveFor' \in {Unset} \cup 0 .. Grace
    BY <1>7, ConstantTypes DEF Elapse, StuckTypeOK, Unset
  <2>8. sinceCheck' \in 0 .. CheckPeriod
    BY <1>7, <2>1, ConstantTypes DEF Elapse, StuckTypeOK, CheckDue
  <2>9. steady' \in 0 .. RampUp + 1 /\ starving' \in Nat
    BY <1>7, ConstantTypes DEF Elapse, StuckTypeOK
  <2> QED  BY <2>1, <2>3, <2>4, <2>5, <2>6, <2>7, <2>8, <2>9 DEF StuckTypeOK
<1>8. CASE UNCHANGED stuckVars
  BY <1>8 DEF stuckVars, sessionVars, checkVars, timing, StuckTypeOK
<1> QED
  BY <1>1, <1>2, <1>3, <1>4, <1>5, <1>6, <1>7, <1>8 DEF StuckNext, Check

(* The types hold, whatever the clients, the frames and the checks do.     *)
THEOREM StuckTypes == StuckSpec => []StuckTypeOK
  BY InitTypes, TypesStep, PTL DEF StuckSpec

-----------------------------------------------------------------------------
(* A single negotiation is not cut off.                                    *)

(* Seconds since the first check that counted.                             *)
Counting == (ticks - 1) * CheckPeriod + sinceCheck

(* The sessions still on their way.                                        *)
Negotiating == {c \in Clients : phase[c] = "negotiating"}

(* The sessions that may have added to the count include all there are,    *)
(* and a single one that negotiates has since the first check that counted.*)
BlamedAreCounted ==
  /\ blamed = 0 => Connected = {} /\ ticks = 0
  /\ blamed <= 1 => \A c, d \in Connected : c = d
  /\ blamed <= 1 /\ ticks > 0 =>
       \A c \in Negotiating : age[c] >= Counting

BlameInv == StuckTypeOK /\ BlamedAreCounted

(* Checks are CheckPeriod seconds apart.                                   *)
LEMMA Periods ==
  ASSUME NEW k \in Nat, NEW c \in Nat
  PROVE  k * c \in Nat /\ (k - 1) * c + c = k * c /\ (k + 1 - 1) * c = k * c
OBVIOUS

(* More periods are not shorter.                                           *)
LEMMA PeriodsGrow ==
  ASSUME NEW j \in Nat, NEW k \in Nat, NEW c \in Nat, j <= k
  PROVE  j * c <= k * c /\ j * c \in Nat /\ k * c \in Nat
OBVIOUS

(* At most one session can be counted once, and none not at all.           *)
LEMMA CountsConnected ==
  /\ BlamedNow = 0 => Connected = {}
  /\ BlamedNow <= 1 => \A c, d \in Connected : c = d
<1>1. IsFiniteSet(Connected) /\ Cardinality(Connected) \in Nat
  BY ConnectedFinite
<1>2. BlamedNow = 0 => Connected = {}
  BY <1>1, FS_EmptySet DEF BlamedNow
<1>3. ASSUME BlamedNow <= 1, NEW c \in Connected, NEW d \in Connected
      PROVE  c = d
  <2>1. Cardinality(Connected) <= 1
    BY <1>1, <1>3 DEF BlamedNow
  <2>2. Cardinality(Connected) # 0
    BY <1>1, <1>3, FS_EmptySet
  <2>3. Cardinality(Connected) = 1
    BY <1>1, <2>1, <2>2
  <2> QED  BY <1>1, <1>3, <2>3, FS_Singleton
<1> QED  BY <1>2, <1>3

(* Counting, unless it has not begun, is a time.                           *)
LEMMA CountingType ==
  ASSUME StuckTypeOK, ticks > 0
  PROVE  Counting \in Nat
<1>1. /\ ticks - 1 \in Nat /\ CheckPeriod \in Nat /\ sinceCheck \in Nat
  BY ConstantTypes DEF StuckTypeOK
<1>2. (ticks - 1) * CheckPeriod \in Nat
  BY <1>1, Periods
<1> QED  BY <1>1, <1>2 DEF Counting

(* A check that counts goes on from the one before, any other gives time.  *)
LEMMA CheckBlames ==
  ASSUME BlameInv, CountTick \/ CheckQuiet
  PROVE  BlamedAreCounted'
<1>1. /\ UNCHANGED <<sessionVars, blamed>> /\ sinceCheck = CheckPeriod
      /\ sinceCheck' = 0
      /\ \/ ticks' = ticks
         \/ Connected # {} /\ ticks' = ticks + 1
  BY DEF CountTick, CheckQuiet, CheckDue, Stuck
<1>2. Connected' = Connected /\ Negotiating' = Negotiating /\ age' = age
  BY <1>1 DEF Connected, Negotiating, sessionVars
<1>3. ticks \in Nat /\ CheckPeriod \in Nat /\ blamed \in 0 .. 2
  BY ConstantTypes DEF BlameInv, StuckTypeOK
<1>4. ASSUME NEW c \in Negotiating, blamed <= 1, ticks' > 0
      PROVE  age[c] >= Counting'
  <2>1. age[c] \in Nat
    BY ConstantTypes DEF BlameInv, StuckTypeOK, Negotiating
  <2>2. CASE ticks > 0
    <3>1. age[c] >= (ticks - 1) * CheckPeriod + CheckPeriod
      BY <1>1, <1>4, <2>2 DEF BlameInv, BlamedAreCounted, Counting
    <3>2. age[c] >= ticks * CheckPeriod
      BY <1>3, <3>1, Periods
    <3>3. /\ (ticks + 1 - 1) * CheckPeriod = ticks * CheckPeriod
          /\ ticks - 1 \in Nat
      BY <1>3, <2>2, Periods
    <3>4. (ticks - 1) * CheckPeriod <= ticks * CheckPeriod
          /\ ticks * CheckPeriod \in Nat /\ (ticks - 1) * CheckPeriod \in Nat
      BY <1>3, <3>3, PeriodsGrow
    <3>5. CASE ticks' = ticks
      <4>1. Counting' = (ticks - 1) * CheckPeriod + 0
        BY <1>1, <3>5 DEF Counting
      <4> QED  BY <2>1, <3>2, <3>4, <4>1
    <3>6. CASE ticks' = ticks + 1
      <4>1. Counting' = (ticks' - 1) * CheckPeriod + 0
        BY <1>1 DEF Counting
      <4>2. ticks' - 1 = ticks
        BY <1>3, <3>6
      <4> QED  BY <2>1, <3>2, <3>4, <4>1, <4>2
    <3> QED  BY <1>1, <3>5, <3>6
  <2>3. CASE ~(ticks > 0)
    <3>1. ticks' = 1
      BY <1>1, <1>3, <1>4, <2>3
    <3>2. Counting' = 0 * CheckPeriod + 0
      BY <1>1, <3>1 DEF Counting
    <3> QED  BY <1>3, <2>1, <3>2
  <2> QED  BY <2>2, <2>3
<1>5. blamed = 0 => Connected = {} /\ ticks' = 0
  BY <1>1 DEF BlameInv, BlamedAreCounted
<1>6. blamed <= 1 => \A c, d \in Connected : c = d
  BY DEF BlameInv, BlamedAreCounted
<1> QED  BY <1>1, <1>2, <1>4, <1>5, <1>6 DEF BlamedAreCounted

(* A session that enters a phase is either a new one, which counts, or has *)
(* been there for as long as its phases last.                              *)
LEMMA SessionBlames ==
  ASSUME BlameInv, NEW c \in Clients,
         Connect(c) \/ Establish(c) \/ Timeout(c) \/ Closed(c)
  PROVE  BlamedAreCounted'
<1>1. PICK p \in Phases :
        /\ Enter(c, p)
        /\ \/ p = "negotiating" /\ phase[c] = "none"
              /\ blamed' = IF blamed < 2 THEN blamed + 1 ELSE 2
           \/ p = "streaming" /\ phase[c] = "negotiating" /\ blamed' = blamed
           \/ p = "closing" /\ phase[c] = "negotiating"
              /\ age[c] = EstablishTimeout /\ blamed' = blamed
           \/ p = "none" /\ phase[c] # "none" /\ blamed' = blamed
  BY DEF Connect, Establish, Timeout, Closed, Phases
<1>2. StuckTypeOK
  BY DEF BlameInv
<1>3. /\ phase'[c] = p /\ age'[c] = 0
      /\ \A d \in Clients \ {c} : phase'[d] = phase[d] /\ age'[d] = age[d]
      /\ ticks' = ticks /\ sinceCheck' = sinceCheck
  BY <1>1, <1>2, EnterKeepsTypes
<1>4. /\ Counting' = Counting
      /\ \A d \in Clients \ {c} : d \in Connected' <=> d \in Connected
      /\ \A d \in Clients \ {c} : d \in Negotiating' <=> d \in Negotiating
      /\ c \in Connected' <=> p # "none"
      /\ c \in Connected <=> phase[c] # "none"
      /\ c \in Negotiating' <=> p = "negotiating"
      /\ Connected \subseteq Clients /\ Connected' \subseteq Clients
      /\ Negotiating' \subseteq Clients
  BY <1>3 DEF Counting, Connected, Negotiating
<1>5. /\ blamed \in 0 .. 2 /\ ticks \in Nat
      /\ age \in [Clients -> Nat]
  BY <1>2, ConstantTypes DEF StuckTypeOK
<1>6. CASE p = "negotiating" /\ phase[c] = "none"
  <2>1. blamed' = IF blamed < 2 THEN blamed + 1 ELSE 2
    BY <1>1, <1>6
  <2>2. blamed' # 0
    BY <1>5, <2>1
  <2>3. ASSUME blamed' <= 1 PROVE Connected = {} /\ ticks = 0
    <3>1. blamed = 0
      BY <1>5, <2>1, <2>3
    <3> QED  BY <3>1 DEF BlameInv, BlamedAreCounted
  <2>4. blamed' <= 1 => \A d, e \in Connected' : d = e
    BY <1>4, <2>3
  <2> QED  BY <1>3, <1>5, <2>2, <2>3, <2>4 DEF BlamedAreCounted
<1>7. CASE ~(p = "negotiating" /\ phase[c] = "none")
  <2>1. blamed' = blamed /\ Connected' \subseteq Connected
    BY <1>1, <1>4, <1>7
  <2>2. c \notin Negotiating'
    BY <1>1, <1>4, <1>7
  <2>4. blamed = 0 => Connected' = {} /\ ticks' = 0
    BY <1>3, <2>1 DEF BlameInv, BlamedAreCounted
  <2>5. blamed <= 1 => \A d, e \in Connected' : d = e
    BY <2>1 DEF BlameInv, BlamedAreCounted
  <2>6. ASSUME blamed <= 1, ticks > 0, NEW d \in Negotiating'
        PROVE  age'[d] >= Counting'
    <3>1. d \in Clients \ {c} /\ d \in Negotiating
      BY <1>4, <2>2, <2>6
    <3>2. age[d] >= Counting
      BY <2>6, <3>1 DEF BlameInv, BlamedAreCounted
    <3> QED  BY <1>3, <1>4, <3>1, <3>2
  <2> QED  BY <1>3, <2>1, <2>4, <2>5, <2>6 DEF BlamedAreCounted
<1> QED  BY <1>6, <1>7

(* A count that starts over finds the sessions there are.                  *)
LEMMA FreshCountBlames ==
  ASSUME StuckTypeOK, ticks' = 0, blamed' = BlamedNow, Connected' \subseteq Connected
  PROVE  BlamedAreCounted'
<1>1. /\ BlamedNow = 0 => Connected' = {}
      /\ BlamedNow <= 1 => \A c, d \in Connected' : c = d
  BY CountsConnected
<1> QED  BY <1>1 DEF BlamedAreCounted

(* A second passes for the sessions as for the checks.                     *)
LEMMA ElapseBlames ==
  ASSUME BlameInv, Elapse
  PROVE  BlamedAreCounted'
<1>1. /\ age' = [c \in Clients |-> IF phase[c] = "negotiating" THEN age[c] + 1 ELSE 0]
      /\ sinceCheck' = sinceCheck + 1
      /\ UNCHANGED <<phase, ticks, blamed>>
  BY DEF Elapse
<1>2. StuckTypeOK /\ age \in [Clients -> 0 .. EstablishTimeout]
  BY DEF BlameInv, StuckTypeOK
<1>3. Connected' = Connected /\ Negotiating' = Negotiating
  BY <1>1 DEF Connected, Negotiating
<1>4. ASSUME NEW c \in Negotiating, blamed <= 1, ticks > 0
      PROVE  age'[c] >= Counting'
  <2>1. c \in Clients /\ phase[c] = "negotiating" /\ age[c] \in Nat
    BY <1>2, ConstantTypes DEF Negotiating
  <2>2. age'[c] = age[c] + 1
    BY <1>1, <2>1
  <2>3. Counting \in Nat /\ ticks \in Nat /\ CheckPeriod \in Nat /\ sinceCheck \in Nat
    BY <1>2, <1>4, CountingType, ConstantTypes DEF StuckTypeOK
  <2>4. (ticks - 1) * CheckPeriod \in Nat
    BY <1>4, <2>3, Periods
  <2>5. Counting' = Counting + 1
    BY <1>1, <2>3, <2>4 DEF Counting
  <2>6. age[c] >= Counting
    BY <1>4 DEF BlameInv, BlamedAreCounted
  <2> QED  BY <2>1, <2>2, <2>3, <2>5, <2>6
<1> QED  BY <1>1, <1>3, <1>4 DEF BlameInv, BlamedAreCounted

(* Every step leaves a session counted, or too young for the count.        *)
LEMMA BlameStep == BlameInv /\ [StuckNext]_stuckVars => BlameInv'
<1> SUFFICES ASSUME BlameInv, [StuckNext]_stuckVars PROVE BlamedAreCounted'
  BY TypesStep DEF BlameInv
<1>1. StuckTypeOK
  BY DEF BlameInv
<1>2. ASSUME NEW c \in Clients, Connect(c) \/ Establish(c) \/ Timeout(c) \/ Closed(c)
      PROVE  BlamedAreCounted'
  BY <1>2, SessionBlames
<1>3. ASSUME UNCHANGED <<sessionVars, checkVars>> PROVE BlamedAreCounted'
  BY <1>3 DEF BlameInv, BlamedAreCounted, Counting, Connected, Negotiating,
              sessionVars, checkVars
<1>4. CASE Wedge \/ Frame \/ FlowUpdate \/ UNCHANGED stuckVars
  BY <1>3, <1>4 DEF Wedge, Frame, FlowUpdate, stuckVars
<1>5. CASE CountTick \/ CheckQuiet
  BY <1>5, CheckBlames
<1>6. CASE CheckDelivering
  <2>1. ticks' = 0 /\ blamed' = BlamedNow /\ Connected' = Connected
    BY <1>6 DEF CheckDelivering, Connected, sessionVars
  <2> QED  BY <1>1, <2>1, FreshCountBlames
<1>7. CASE RestartStuck \/ RestartOtherwise
  <2>1. Restart
    BY <1>7 DEF RestartStuck, RestartOtherwise
  <2>2. ticks' = 0 /\ blamed' = BlamedNow /\ Connected' \subseteq Connected
    BY <1>1, <2>1, RestartKeepsTypes DEF Connected
  <2> QED  BY <1>1, <2>2, FreshCountBlames
<1>8. CASE Elapse
  BY <1>8, ElapseBlames
<1> QED
  BY <1>2, <1>4, <1>5, <1>6, <1>7, <1>8 DEF StuckNext, Check

(* Nobody is connected to a pipeline that just started.                    *)
LEMMA BlameInit == StuckInit => BlameInv
<1>1. StuckInit => Connected = {} /\ blamed = 0 /\ ticks = 0
  BY DEF StuckInit, Connected
<1> QED  BY <1>1, InitTypes DEF BlameInv, BlamedAreCounted

(* A session that is still negotiating, and the only one that can have     *)
(* added to the count, is asked to close by its timeout before the rule    *)
(* fires, if the checks that count take longer than the timeout (in the    *)
(* code 12 seconds and 10), however long connections take to close.        *)
THEOREM NegotiationTolerated ==
  ASSUME (StuckTicks - 1) * CheckPeriod > EstablishTimeout
  PROVE  StuckSpec => SingleNegotiationIsNotCutOff
<1>1. ASSUME BlameInv, RestartStuck, blamed < 2, NEW c \in Clients
      PROVE  phase[c] # "negotiating"
  <2>1. SUFFICES ASSUME c \in Negotiating PROVE FALSE
    BY DEF Negotiating
  <2>2. sinceCheck = CheckPeriod /\ ticks + 1 >= StuckTicks
    BY <1>1 DEF RestartStuck, CheckDue
  <2>3. /\ blamed \in 0 .. 2 /\ ticks \in Nat /\ StuckTicks - 1 \in Nat
        /\ CheckPeriod \in Nat /\ EstablishTimeout \in Nat
        /\ age[c] \in 0 .. EstablishTimeout /\ StuckTicks - 1 <= ticks
    BY <1>1, <2>2, ConstantTypes DEF BlameInv, StuckTypeOK
  <2>4. ticks * CheckPeriod > EstablishTimeout
    <3>1. /\ (StuckTicks - 1) * CheckPeriod <= ticks * CheckPeriod
          /\ (StuckTicks - 1) * CheckPeriod \in Nat /\ ticks * CheckPeriod \in Nat
      BY <2>3, PeriodsGrow
    <3> QED  BY <2>3, <3>1
  <2>5. ticks > 0
    <3>1. 0 * CheckPeriod = 0
      BY <2>3
    <3> QED  BY <2>3, <2>4, <3>1
  <2>6. age[c] >= (ticks - 1) * CheckPeriod + CheckPeriod
    BY <1>1, <2>1, <2>2, <2>3, <2>5 DEF BlameInv, BlamedAreCounted, Counting
  <2>7. (ticks - 1) * CheckPeriod + CheckPeriod = ticks * CheckPeriod
        /\ ticks * CheckPeriod \in Nat
    BY <2>3, Periods
  <2> QED  BY <2>3, <2>4, <2>6, <2>7
<1>2. StuckSpec => []BlameInv
  BY BlameInit, BlameStep, PTL DEF StuckSpec
<1>3. BlameInv => [RestartStuck /\ blamed < 2 =>
                     \A c \in Clients : phase[c] # "negotiating"]_stuckVars
  BY <1>1
<1> QED  BY <1>2, <1>3, PTL DEF SingleNegotiationIsNotCutOff

-----------------------------------------------------------------------------
(* Steady outputs are kept.                                                *)

(* The age of the j-th last frame of the pipeline.                         *)
AgeOf(j) == sinceFrame + j * FrameInterval

(* While frames come through, the last that make a frame rate are known.   *)
SteadyFramesAreKnown ==
  /\ ~Served(phase, valveOpen, wedged) => steady = 0
  /\ \A j \in 0 .. MinTimestamps - 1 : steady > AgeOf(j) => AgeOf(j) \in sent

SteadyInv == StuckTypeOK /\ SteadyFramesAreKnown

(* Frames are FrameInterval seconds apart.                                 *)
LEMMA Ages ==
  ASSUME StuckTypeOK, NEW j \in Nat
  PROVE  /\ j * FrameInterval \in Nat /\ AgeOf(j) \in Nat
         /\ AgeOf(0) = sinceFrame
         /\ j # 0 => AgeOf(j) = sinceFrame + FrameInterval + (j - 1) * FrameInterval
<1>1. sinceFrame \in Nat /\ FrameInterval \in Nat
  BY ConstantTypes DEF StuckTypeOK
<1>2. j * FrameInterval \in Nat /\ 0 * FrameInterval = 0
  BY <1>1, PeriodsGrow
<1>3. (j - 1) * FrameInterval + FrameInterval = j * FrameInterval
  BY <1>1, Periods
<1>4. j # 0 => (j - 1) * FrameInterval \in Nat
  BY <1>1, PeriodsGrow
<1> QED  BY <1>1, <1>2, <1>3, <1>4 DEF AgeOf

(* A pipeline that is not served for a moment is not steady.               *)
LEMMA NotSteadyKnows ==
  ASSUME StuckTypeOK', steady' = 0
  PROVE  SteadyFramesAreKnown'
<1>1. \A j, s, f \in Nat : ~(0 > s + j * f)
  <2>1. \A j, f \in Nat : j * f \in Nat
    OBVIOUS
  <2>2. \A s, t \in Nat : ~(0 > s + t)
    OBVIOUS
  <2> QED  BY <2>1, <2>2
<1>2. sinceFrame' \in Nat /\ FrameInterval \in Nat
  BY ConstantTypes DEF StuckTypeOK
<1>3. 0 .. MinTimestamps - 1 \subseteq Nat
  BY ConstantTypes
<1>4. ASSUME NEW j \in Nat PROVE ~(0 > AgeOf(j)')
  BY <1>1, <1>2 DEF AgeOf
<1> QED  BY <1>3, <1>4 DEF SteadyFramesAreKnown

(* The frame that arrives is known if it comes through, and those before   *)
(* it become the next ones.                                                *)
LEMMA FrameIsKnown ==
  ASSUME SteadyInv, StuckTypeOK', Frame
  PROVE  SteadyFramesAreKnown'
<1>1. /\ sinceFrame = FrameInterval /\ sinceFrame' = 0
      /\ UNCHANGED <<phase, valveOpen, wedged, steady>>
  BY DEF Frame, sessionVars, flowVars
<1>2. CASE steady = 0
  BY <1>1, <1>2, NotSteadyKnows
<1>3. CASE steady # 0
  <2>1. Served(phase, valveOpen, wedged) /\ Served(phase, valveOpen, wedged)'
    BY <1>1, <1>3 DEF SteadyInv, SteadyFramesAreKnown, Served
  <2>2. sent' = sent \cup {0}
    BY <2>1 DEF Frame
  <2>3. ASSUME NEW j \in 0 .. MinTimestamps - 1, steady > AgeOf(j)'
        PROVE  AgeOf(j)' \in sent'
    <3>1. j \in Nat /\ FrameInterval \in Nat /\ 0 * FrameInterval = 0
      BY ConstantTypes
    <3>2. AgeOf(j)' = j * FrameInterval /\ j * FrameInterval \in Nat
      BY <1>1, <3>1, PeriodsGrow DEF AgeOf
    <3>3. CASE j = 0
      BY <2>2, <3>1, <3>2, <3>3
    <3>4. CASE j # 0
      <4>1. j - 1 \in 0 .. MinTimestamps - 1
        BY <3>4, ConstantTypes
      <4>2. AgeOf(j - 1) = j * FrameInterval
        <5>1. (j - 1) * FrameInterval + FrameInterval = j * FrameInterval
          BY <3>1, Periods
        <5>2. (j - 1) * FrameInterval \in Nat
          BY <3>1, <4>1, PeriodsGrow
        <5> QED  BY <1>1, <3>1, <5>1, <5>2 DEF AgeOf
      <4> QED  BY <2>2, <2>3, <3>2, <4>1, <4>2 DEF SteadyInv, SteadyFramesAreKnown
    <3> QED  BY <3>3, <3>4
  <2> QED  BY <1>1, <2>1, <2>3 DEF SteadyFramesAreKnown
<1> QED  BY <1>2, <1>3

(* A second passes for the frames as for the time they have been coming,   *)
(* and the window is long enough for those that make a frame rate.         *)
LEMMA ElapseKnows ==
  ASSUME SteadyInv, StuckTypeOK', Elapse, RampUp <= Window
  PROVE  SteadyFramesAreKnown'
<1>1. /\ sinceFrame < FrameInterval /\ sinceFrame' = sinceFrame + 1
      /\ sent' = {s + 1 : s \in sent} \cap 0 .. Window
      /\ steady' = IF Served(phase, valveOpen, wedged) /\ steady <= RampUp
                   THEN steady + 1 ELSE steady
      /\ UNCHANGED <<phase, valveOpen, wedged>>
  BY DEF Elapse
<1>2. /\ Served(phase, valveOpen, wedged)' <=> Served(phase, valveOpen, wedged)
      /\ ~Served(phase, valveOpen, wedged) => steady = 0
  BY <1>1 DEF Served, SteadyInv, SteadyFramesAreKnown
<1>3. /\ sinceFrame \in Nat /\ FrameInterval \in Nat /\ Window \in Nat
      /\ MinTimestamps \in Nat \ {0} /\ steady \in 0 .. RampUp + 1 /\ RampUp \in Nat
  BY ConstantTypes DEF SteadyInv, StuckTypeOK
<1>4. ASSUME NEW j \in 0 .. MinTimestamps - 1, steady' > AgeOf(j)'
      PROVE  AgeOf(j)' \in sent'
  <2>1. j \in Nat /\ MinTimestamps - 1 \in Nat /\ j <= MinTimestamps - 1
    BY <1>3
  <2>2. /\ j * FrameInterval \in Nat /\ (MinTimestamps - 1) * FrameInterval \in Nat
        /\ j * FrameInterval <= (MinTimestamps - 1) * FrameInterval
    BY <1>3, <2>1, PeriodsGrow
  <2>3. (MinTimestamps - 1) * FrameInterval + FrameInterval = RampUp
    BY <1>3, Periods DEF RampUp
  <2>4. AgeOf(j)' = AgeOf(j) + 1 /\ AgeOf(j) \in Nat
    BY <1>1, <1>3, <2>2 DEF AgeOf
  <2>5. AgeOf(j) + 1 <= RampUp
    BY <1>1, <1>3, <2>2, <2>3 DEF AgeOf
  <2>6. steady > AgeOf(j)
    BY <1>1, <1>3, <1>4, <2>4, <2>5
  <2>7. AgeOf(j) \in sent
    BY <2>6 DEF SteadyInv, SteadyFramesAreKnown
  <2>8. AgeOf(j) + 1 \in 0 .. Window
    BY <1>3, <2>4, <2>5
  <2> QED  BY <1>1, <2>4, <2>7, <2>8
<1> QED  BY <1>1, <1>2, <1>4 DEF SteadyFramesAreKnown

(* Every step keeps the frames of a steady output known.                   *)
LEMMA SteadyStep ==
  ASSUME RampUp <= Window
  PROVE  SteadyInv /\ [StuckNext]_stuckVars => SteadyInv'
<1> SUFFICES ASSUME SteadyInv, [StuckNext]_stuckVars PROVE SteadyFramesAreKnown'
  BY TypesStep DEF SteadyInv
<1>1. StuckTypeOK /\ StuckTypeOK'
  BY TypesStep DEF SteadyInv
<1>2. ASSUME UNCHANGED <<frameVars, steady>>,
             Served(phase, valveOpen, wedged)' \/ ~Served(phase, valveOpen, wedged)
      PROVE  SteadyFramesAreKnown'
  BY <1>2 DEF SteadyInv, SteadyFramesAreKnown, AgeOf, frameVars
<1>3. ASSUME UNCHANGED frameVars,
             steady' = IF Served(phase, valveOpen, wedged)' THEN steady ELSE 0
      PROVE  SteadyFramesAreKnown'
  BY <1>1, <1>2, <1>3, NotSteadyKnows
<1>4. ASSUME NEW c \in Clients, Connect(c) \/ Establish(c) \/ Timeout(c) \/ Closed(c)
      PROVE  SteadyFramesAreKnown'
  <2>1. \E p : Enter(c, p)
    BY <1>4 DEF Connect, Establish, Timeout, Closed
  <2>2. /\ UNCHANGED <<frameVars, flowVars>>
        /\ steady' = IF Served(phase', valveOpen, wedged) THEN steady ELSE 0
    BY <2>1 DEF Enter
  <2>3. Served(phase, valveOpen, wedged)' <=> Served(phase', valveOpen, wedged)
    BY <2>2 DEF frameVars, flowVars, Served
  <2> QED  BY <1>3, <2>2, <2>3
<1>5. CASE Wedge
  BY <1>1, <1>5, NotSteadyKnows DEF Wedge
<1>6. CASE Frame
  BY <1>1, <1>6, FrameIsKnown
<1>7. CASE FlowUpdate
  <2>1. /\ UNCHANGED <<phase, frameVars>>
        /\ steady' = IF Served(phase, valveOpen', wedged) THEN steady ELSE 0
    BY <1>7 DEF FlowUpdate, sessionVars
  <2>2. Served(phase, valveOpen, wedged)' <=> Served(phase, valveOpen', wedged)
    BY <2>1 DEF frameVars, Served
  <2> QED  BY <1>3, <2>1, <2>2
<1>8. CASE CountTick \/ CheckQuiet \/ CheckDelivering \/ UNCHANGED stuckVars
  <2>1. UNCHANGED <<phase, valveOpen, frameVars, steady>>
    BY <1>8 DEF CountTick, CheckQuiet, CheckDelivering, stuckVars, sessionVars,
                flowVars, timing
  <2>2. Served(phase, valveOpen, wedged)' <=> Served(phase, valveOpen, wedged)
    BY <2>1 DEF frameVars, Served
  <2> QED  BY <1>2, <2>1, <2>2
<1>9. CASE RestartStuck \/ RestartOtherwise
  BY <1>1, <1>9, NotSteadyKnows DEF RestartStuck, RestartOtherwise, Restart
<1>10. CASE Elapse
  BY <1>1, <1>10, ElapseKnows
<1> QED
  BY <1>4, <1>5, <1>6, <1>7, <1>8, <1>9, <1>10 DEF StuckNext, Check

(* An output that just started is not steady.                              *)
LEMMA SteadyInit == StuckInit => SteadyInv
<1> SUFFICES ASSUME StuckInit PROVE SteadyFramesAreKnown
  BY InitTypes DEF SteadyInv
<1>1. StuckTypeOK /\ steady = 0
  BY InitTypes DEF StuckInit
<1>2. ASSUME NEW j \in 0 .. MinTimestamps - 1 PROVE ~(0 > AgeOf(j))
  BY <1>1, Ages
<1> QED  BY <1>1, <1>2 DEF SteadyFramesAreKnown

(* Frames that have been coming for longer than it takes to measure a      *)
(* frame rate are as many sent times as that takes.                        *)
LEMMA SteadyDelivers ==
  ASSUME SteadyInv, steady > RampUp
  PROVE  Delivering
<1> DEFINE Last == 0 .. MinTimestamps - 1
           f    == [j \in Last |-> AgeOf(j)]
<1>1. /\ StuckTypeOK /\ sinceFrame \in Nat /\ sinceFrame <= FrameInterval
      /\ FrameInterval \in Nat \ {0} /\ MinTimestamps \in Nat \ {0}
      /\ steady \in Nat /\ RampUp \in Nat /\ Window \in Nat
  BY ConstantTypes DEF SteadyInv, StuckTypeOK
<1>2. ASSUME NEW j \in Last PROVE AgeOf(j) \in sent
  <2>1. j \in Nat /\ MinTimestamps - 1 \in Nat /\ j <= MinTimestamps - 1
    BY <1>1
  <2>2. /\ j * FrameInterval \in Nat /\ (MinTimestamps - 1) * FrameInterval \in Nat
        /\ j * FrameInterval <= (MinTimestamps - 1) * FrameInterval
    BY <1>1, <2>1, PeriodsGrow
  <2>3. (MinTimestamps - 1) * FrameInterval + FrameInterval = RampUp
    BY <1>1, Periods DEF RampUp
  <2>4. AgeOf(j) <= RampUp /\ AgeOf(j) \in Nat
    BY <1>1, <2>2, <2>3 DEF AgeOf
  <2>5. steady > AgeOf(j)
    BY <1>1, <2>4
  <2> QED  BY <2>5 DEF SteadyInv, SteadyFramesAreKnown
<1>3. ASSUME NEW i \in Last, NEW j \in Last, i < j PROVE AgeOf(i) # AgeOf(j)
  <2>1. /\ i * FrameInterval \in Nat /\ j * FrameInterval \in Nat
        /\ i * FrameInterval + FrameInterval <= j * FrameInterval
    <3>1. i \in Nat /\ j \in Nat /\ i + 1 \in Nat /\ i + 1 <= j
      BY <1>3
    <3>2. (i + 1) * FrameInterval <= j * FrameInterval
      BY <1>1, <3>1, PeriodsGrow
    <3>3. (i + 1) * FrameInterval = i * FrameInterval + FrameInterval
          /\ i * FrameInterval \in Nat
      BY <1>1, <3>1
    <3> QED  BY <1>1, <3>1, <3>2, <3>3, PeriodsGrow
  <2> QED  BY <1>1, <2>1 DEF AgeOf
<1>4. f \in Injection(Last, sent)
  <2>1. f \in [Last -> sent]
    BY <1>2
  <2>2. ASSUME NEW i \in Last, NEW j \in Last, f[i] = f[j] PROVE i = j
    <3>1. AgeOf(i) = AgeOf(j)
      BY <2>2
    <3>2. ~(i < j) /\ ~(j < i)
      BY <1>3, <3>1
    <3> QED  BY <3>2
  <2> QED  BY <2>1, <2>2 DEF Injection, IsInjective
<1>5. IsFiniteSet(sent)
  <2>1. IsFiniteSet(0 .. Window)
    BY <1>1, FS_Interval
  <2> QED  BY <1>1, <2>1, FS_Subset DEF StuckTypeOK
<1>6. Cardinality(Last) = MinTimestamps
  <2>1. MinTimestamps - 1 \in Int /\ ~(0 > MinTimestamps - 1)
    BY <1>1
  <2>2. Cardinality(Last) = MinTimestamps - 1 - 0 + 1
    BY <2>1, FS_Interval
  <2> QED  BY <1>1, <2>2
<1>7. Cardinality(Last) <= Cardinality(sent)
  <2> HIDE DEF f, Last
  <2> QED  BY <1>4, <1>5, FS_Injection
<1>8. Cardinality(sent) \in Nat
  BY <1>5, FS_CardinalityType
<1> QED  BY <1>1, <1>6, <1>7, <1>8 DEF Delivering

(* An output that frames have been reaching for as long as it takes to     *)
(* measure a frame rate is not restarted as stuck, if the window is long   *)
(* enough to hold the frames it takes (in the code 10 seconds, and those   *)
(* of the slowest outputs take 9).                                         *)
THEOREM SteadyKept ==
  ASSUME RampUp <= Window
  PROVE  StuckSpec => SteadyOutputsAreKept
<1>1. ASSUME SteadyInv, RestartStuck
      PROVE  steady <= RampUp
  <2>1. ~Delivering
    BY <1>1 DEF RestartStuck, Stuck
  <2>2. ~(steady > RampUp)
    BY <1>1, <2>1, SteadyDelivers
  <2> QED  BY <1>1, <2>2, ConstantTypes DEF SteadyInv, StuckTypeOK
<1>2. StuckSpec => []SteadyInv
  <2>1. SteadyInv /\ [StuckNext]_stuckVars => SteadyInv'
    BY SteadyStep
  <2> QED  BY <2>1, SteadyInit, PTL DEF StuckSpec
<1>3. SteadyInv => [RestartStuck => steady <= RampUp]_stuckVars
  BY <1>1
<1> QED  BY <1>2, <1>3, PTL DEF SteadyOutputsAreKept

-----------------------------------------------------------------------------
(* Starving clients are noticed.                                           *)

(* Seconds without frames after which there is no frame rate any more.     *)
Forgetting == Window - (MinTimestamps - 1) * FrameInterval

(* What was sent is older than the starvation, a client that starves has   *)
(* an open valve from the second second on, and the checks count it once   *)
(* the frame rate is gone.                                                 *)
SentBefore ==
  \A x \in sent : /\ x >= starving
                  /\ \E j \in Nat : x = AgeOf(j)

StarvingIsCounted ==
  /\ Streaming = {} => starving = 0
  /\ starving > 1 \/ (starving = 1 /\ ~updateDue) => valveOpen
  /\ starving > Forgetting =>
       starving <= Forgetting + ticks * CheckPeriod + sinceCheck

StarveInv == StuckTypeOK /\ SentBefore /\ StarvingIsCounted

(* Frames are sent at least FrameInterval apart: within a time less than   *)
(* n - 1 intervals there are less than n.                                  *)
LEMMA FewFrames ==
  ASSUME NEW n \in Nat, NEW w \in Nat, NEW f \in Nat \ {0}, NEW s \in Nat,
         NEW S, \A x \in S : x \in Nat /\ x <= w /\ w - x < n * f,
         \A x \in S : \E j \in Nat : x = s + j * f
  PROVE  IsFiniteSet(S) /\ Cardinality(S) \in Nat /\ Cardinality(S) <= n
<1> DEFINE g == [x \in S |-> (w - x) \div f]
<1>1. ASSUME NEW x \in S PROVE (w - x) \div f \in 0 .. n - 1
  <2>1. w - x \in Nat /\ w - x < n * f
    BY <1>1
  <2> DEFINE a == w - x
  <2> HIDE DEF a
  <2>2. a \in Nat /\ a < n * f
    BY <2>1 DEF a
  <2>3. /\ a \div f \in Nat
        /\ a = f * (a \div f) + (a % f) /\ a % f \in 0 .. f - 1
    BY <2>2
  <2>4. a \div f < n
    BY <2>2, <2>3
  <2> QED  BY <2>3, <2>4 DEF a
<1>2. ASSUME NEW x \in S, NEW y \in S, x < y
      PROVE  (w - x) \div f # (w - y) \div f
  <2>1. PICK j \in Nat : x = s + j * f
    OBVIOUS
  <2>2. PICK k \in Nat : y = s + k * f
    OBVIOUS
  <2>3. j * f \in Nat /\ k * f \in Nat
    BY PeriodsGrow
  <2>4. j < k
    <3>1. k <= j => k * f <= j * f
      BY PeriodsGrow
    <3> QED  BY <1>2, <2>1, <2>2, <2>3, <3>1
  <2>5. j * f + f <= k * f
    <3>1. j + 1 \in Nat /\ j + 1 <= k
      BY <2>4
    <3>2. (j + 1) * f <= k * f
      BY <3>1, PeriodsGrow
    <3>3. (j + 1) * f = j * f + f
      OBVIOUS
    <3> QED  BY <3>2, <3>3
  <2> DEFINE a == w - x
             b == w - y
  <2> HIDE DEF a, b
  <2>6. a \in Nat /\ b \in Nat /\ a >= b + f
    BY <1>2, <2>1, <2>2, <2>3, <2>5 DEF a, b
  <2>7. /\ a \div f \in Nat /\ b \div f \in Nat
        /\ a = f * (a \div f) + (a % f) /\ a % f \in 0 .. f - 1
        /\ b = f * (b \div f) + (b % f) /\ b % f \in 0 .. f - 1
    BY <2>6
  <2>8. a \div f # b \div f
    BY <2>6, <2>7
  <2> QED  BY <2>8 DEF a, b
<1>3. g \in Injection(S, 0 .. n - 1)
  <2>1. g \in [S -> 0 .. n - 1]
    BY <1>1
  <2>2. ASSUME NEW x \in S, NEW y \in S, g[x] = g[y] PROVE x = y
    <3>1. (w - x) \div f = (w - y) \div f
      BY <2>2
    <3>2. ~(x < y) /\ ~(y < x)
      BY <1>2, <3>1
    <3> QED  BY <3>2
  <2> QED  BY <2>1, <2>2 DEF Injection, IsInjective
<1>4. IsFiniteSet(0 .. n - 1) /\ Cardinality(0 .. n - 1) = n
  <2>1. IsFiniteSet(0 .. n - 1)
        /\ Cardinality(0 .. n - 1) = IF 0 > n - 1 THEN 0 ELSE n - 1 - 0 + 1
    BY FS_Interval
  <2> QED  BY <2>1
<1>5. IsFiniteSet(S) /\ Cardinality(S) <= n
  <2> HIDE DEF g
  <2> QED  BY <1>3, <1>4, FS_Injection
<1> QED  BY <1>5, FS_CardinalityType

(* The window holds what is forgotten and the frames of a frame rate.      *)
LEMMA ForgettingType ==
  /\ Forgetting \in Int
  /\ Window = Forgetting + (MinTimestamps - 1) * FrameInterval
  /\ (MinTimestamps - 1) * FrameInterval \in Nat /\ MinTimestamps - 1 \in Nat
<1>1. (MinTimestamps - 1) * FrameInterval \in Nat /\ MinTimestamps - 1 \in Nat
  <2>1. MinTimestamps - 1 \in Nat /\ FrameInterval \in Nat
    BY ConstantTypes
  <2> QED  BY <2>1, PeriodsGrow
<1> QED  BY <1>1, ConstantTypes DEF Forgetting

(* A client that has starved for so long leaves no frame rate.             *)
LEMMA StarvingForgets ==
  ASSUME StarveInv, starving > Forgetting
  PROVE  ~Delivering
<1>1. /\ sinceFrame \in Nat /\ Window \in Nat /\ FrameInterval \in Nat \ {0}
      /\ MinTimestamps - 1 \in Nat /\ starving \in Nat /\ MinTimestamps \in Nat
      /\ sent \subseteq 0 .. Window
  BY ConstantTypes, ForgettingType DEF StarveInv, StuckTypeOK
<1>2. (MinTimestamps - 1) * FrameInterval \in Nat /\ Forgetting \in Int
      /\ Window = Forgetting + (MinTimestamps - 1) * FrameInterval
  BY ForgettingType
<1>3. ASSUME NEW x \in sent
      PROVE  x \in Nat /\ x <= Window
             /\ Window - x < (MinTimestamps - 1) * FrameInterval
  <2>1. x \in Nat /\ x <= Window /\ x >= starving
    BY <1>1 DEF StarveInv, SentBefore
  <2> QED  BY <1>1, <1>2, <2>1
<1>4. \A x \in sent : \E j \in Nat : x = sinceFrame + j * FrameInterval
  BY DEF StarveInv, SentBefore, AgeOf
<1>5. Cardinality(sent) \in Nat /\ Cardinality(sent) <= MinTimestamps - 1
  BY ZenonT(30), <1>1, <1>3, <1>4, FewFrames
<1> QED  BY <1>1, <1>5 DEF Delivering

(* The age of a sent frame grows by a second, or becomes the age of the    *)
(* frame before.                                                           *)
LEMMA SentStep ==
  ASSUME StarveInv, StuckTypeOK', [StuckNext]_stuckVars
  PROVE  SentBefore'
<1>1. /\ sinceFrame \in Nat /\ Window \in Nat /\ FrameInterval \in Nat \ {0}
      /\ starving \in Nat /\ sent \subseteq 0 .. Window
  BY ConstantTypes DEF StarveInv, StuckTypeOK
<1>2. ASSUME UNCHANGED <<sinceFrame, sent>>, starving' \in {0, starving}
      PROVE  SentBefore'
  <2>1. ASSUME NEW x \in sent PROVE x >= starving' /\ \E j \in Nat : x = AgeOf(j)'
    <3>1. x \in Nat /\ x >= starving /\ \E j \in Nat : x = AgeOf(j)
      BY <1>1 DEF StarveInv, SentBefore
    <3>2. \A j : AgeOf(j)' = AgeOf(j)
      BY <1>2 DEF AgeOf
    <3> QED  BY <1>1, <1>2, <3>1, <3>2
  <2> QED  BY <1>2, <2>1 DEF SentBefore
<1>3. CASE Frame
  <2>1. /\ sinceFrame = FrameInterval /\ sinceFrame' = 0
        /\ \/ sent' = sent \cup {0} /\ starving' = 0
           \/ sent' = sent /\ starving' = starving
    BY <1>3 DEF Frame
  <2>2. ASSUME NEW x \in sent PROVE x \in Nat /\ x >= starving' /\ \E j \in Nat : x = AgeOf(j)'
    <3>1. x \in Nat /\ x >= starving
      BY <1>1 DEF StarveInv, SentBefore
    <3>2. PICK j \in Nat : x = AgeOf(j)
      BY DEF StarveInv, SentBefore
    <3>3. AgeOf(j + 1)' = 0 + (j + 1) * FrameInterval
      BY <2>1 DEF AgeOf
    <3>4. (j + 1) * FrameInterval = j * FrameInterval + FrameInterval
          /\ j * FrameInterval \in Nat
      BY <1>1
    <3>5. x = AgeOf(j + 1)'
      BY <1>1, <2>1, <3>2, <3>3, <3>4 DEF AgeOf
    <3> QED  BY <1>1, <2>1, <3>1, <3>5
  <2>3. \E j \in Nat : 0 = AgeOf(j)'
    <3>1. AgeOf(0)' = 0 + 0 * FrameInterval
      BY <2>1 DEF AgeOf
    <3> QED  BY <1>1, <3>1
  <2> QED  BY <2>1, <2>2, <2>3 DEF SentBefore
<1>4. CASE Elapse
  <2>1. /\ sinceFrame' = sinceFrame + 1
        /\ sent' = {s + 1 : s \in sent} \cap 0 .. Window
        /\ starving' \in {0, starving + 1}
    BY <1>4 DEF Elapse
  <2>2. ASSUME NEW x \in sent
        PROVE  x + 1 >= starving' /\ \E j \in Nat : x + 1 = AgeOf(j)'
    <3>1. x \in Nat /\ x >= starving
      BY <1>1 DEF StarveInv, SentBefore
    <3>2. PICK j \in Nat : x = AgeOf(j)
      BY DEF StarveInv, SentBefore
    <3>3. j * FrameInterval \in Nat
      BY <1>1, PeriodsGrow
    <3>4. x + 1 = AgeOf(j)'
      BY <1>1, <2>1, <3>2, <3>3 DEF AgeOf
    <3> QED  BY <1>1, <2>1, <3>1, <3>4
  <2> QED  BY <2>1, <2>2 DEF SentBefore
<1>5. ASSUME NEW c \in Clients, Connect(c) \/ Establish(c) \/ Timeout(c) \/ Closed(c)
      PROVE  SentBefore'
  <2>1. \E p : Enter(c, p)
    BY <1>5 DEF Connect, Establish, Timeout, Closed
  <2>2. UNCHANGED <<sinceFrame, sent>> /\ starving' \in {0, starving}
    BY <2>1 DEF Enter, frameVars
  <2> QED  BY <1>2, <2>2
<1>6. CASE Wedge \/ FlowUpdate \/ Check \/ RestartOtherwise \/ UNCHANGED stuckVars
  <2>1. UNCHANGED <<sinceFrame, sent>> /\ starving' \in {0, starving}
    BY <1>6 DEF Wedge, FlowUpdate, Check, CountTick, CheckQuiet, CheckDelivering,
                RestartStuck, RestartOtherwise, Restart, stuckVars, frameVars, timing
  <2> QED  BY <1>2, <2>1
<1> QED  BY <1>3, <1>4, <1>5, <1>6 DEF StuckNext

(* Whoever does not starve any more is not counted.                        *)
LEMMA FedIsCounted ==
  ASSUME starving' = 0, Forgetting >= 1
  PROVE  StarvingIsCounted'
<1>1. Forgetting' = Forgetting /\ Forgetting \in Int
  BY ForgettingType DEF Forgetting
<1> QED  BY <1>1 DEF StarvingIsCounted

(* The checks count a client that starves longer than frames are           *)
(* remembered: its valve is open, and there is no frame rate.              *)
LEMMA CheckStarves ==
  ASSUME StarveInv, Forgetting >= 1, Check
  PROVE  StarvingIsCounted'
<1>1. /\ ticks \in Nat /\ CheckPeriod \in Nat /\ sinceCheck \in Nat
      /\ starving \in Nat /\ Forgetting \in Int
  BY ConstantTypes, ForgettingType DEF StarveInv, StuckTypeOK
<1>2. sinceCheck = CheckPeriod
  BY DEF Check, CountTick, RestartStuck, CheckDelivering, CheckQuiet, CheckDue
<1>3. ticks * CheckPeriod \in Nat /\ (ticks + 1) * CheckPeriod = ticks * CheckPeriod + CheckPeriod
  BY <1>1
<1>4. CASE RestartStuck
  BY <1>4, FedIsCounted DEF RestartStuck, Restart
<1>5. CASE CountTick \/ CheckDelivering \/ CheckQuiet
  <2>1. UNCHANGED <<phase, starving, valveOpen, updateDue>> /\ sinceCheck' = 0
    BY <1>5 DEF CountTick, CheckDelivering, CheckQuiet, sessionVars, flowVars, timing
  <2>2. ASSUME starving > Forgetting PROVE CountTick
    <3>1. starving > 1
      BY <1>1, <2>2
    <3>2. valveOpen /\ Connected # {} /\ ~Delivering
      <4>1. valveOpen /\ Streaming # {}
        BY <1>1, <3>1 DEF StarveInv, StarvingIsCounted
      <4> QED  BY <2>2, <4>1, StarvingForgets DEF Streaming, Connected
    <3> QED  BY <1>5, <3>2 DEF CheckDelivering, CheckQuiet, Stuck
  <2>3. starving > Forgetting =>
          starving <= Forgetting + ticks' * CheckPeriod + sinceCheck'
    <3> SUFFICES ASSUME starving > Forgetting
                 PROVE  starving <= Forgetting + ticks' * CheckPeriod + sinceCheck'
      OBVIOUS
    <3>1. ticks' = ticks + 1
      BY <2>2 DEF CountTick
    <3>2. starving <= Forgetting + ticks * CheckPeriod + CheckPeriod
      BY <1>2 DEF StarveInv, StarvingIsCounted
    <3>3. ticks' * CheckPeriod = ticks * CheckPeriod + CheckPeriod
      BY <1>3, <3>1
    <3> QED  BY <1>1, <1>3, <2>1, <3>2, <3>3
  <2>4. /\ Streaming' = {} => starving' = 0
        /\ starving' > 1 \/ (starving' = 1 /\ ~updateDue') => valveOpen'
    BY <2>1 DEF StarveInv, StarvingIsCounted, Streaming
  <2>5. Forgetting' = Forgetting
    BY DEF Forgetting
  <2> QED  BY <2>1, <2>3, <2>4, <2>5 DEF StarvingIsCounted
<1> QED  BY <1>4, <1>5 DEF Check

(* A second more without frames is a second more until the next check.     *)
LEMMA ElapseStarves ==
  ASSUME StarveInv, Forgetting >= 1, Elapse
  PROVE  StarvingIsCounted'
<1>1. /\ ticks \in Nat /\ CheckPeriod \in Nat /\ sinceCheck \in Nat
      /\ starving \in Nat /\ Forgetting \in Int /\ ticks * CheckPeriod \in Nat
  <2>1. ticks \in Nat /\ CheckPeriod \in Nat
    BY ConstantTypes DEF StarveInv, StuckTypeOK
  <2> QED
    BY <2>1, ConstantTypes, ForgettingType, PeriodsGrow DEF StarveInv, StuckTypeOK
<1>2. /\ ~updateDue /\ sinceCheck' = sinceCheck + 1
      /\ UNCHANGED <<phase, valveOpen, ticks>>
      /\ starving' = IF Streaming # {} THEN starving + 1 ELSE 0
  BY DEF Elapse
<1>3. CASE Streaming = {}
  BY <1>2, <1>3, FedIsCounted
<1>4. CASE Streaming # {}
  <2>1. starving' = starving + 1 /\ Streaming' # {}
    BY <1>2, <1>4 DEF Streaming
  <2>2. updateDue'
    BY DEF Elapse
  <2>3. starving' > 1 => valveOpen'
    <3>1. starving' > 1 => starving > 1 \/ starving = 1
      BY <1>1, <2>1
    <3>2. starving > 1 \/ starving = 1 => valveOpen
      BY <1>2 DEF StarveInv, StarvingIsCounted
    <3> QED  BY <1>2, <3>1, <3>2
  <2>4. starving' > Forgetting =>
          starving' <= Forgetting + ticks * CheckPeriod + sinceCheck'
    <3>1. CASE starving > Forgetting
      <4>1. starving <= Forgetting + ticks * CheckPeriod + sinceCheck
        BY <3>1 DEF StarveInv, StarvingIsCounted
      <4> QED  BY <1>1, <1>2, <2>1, <4>1
    <3>2. CASE starving <= Forgetting
      BY <1>1, <1>2, <2>1, <3>2
    <3> QED  BY <1>1, <3>1, <3>2
  <2>5. Forgetting' = Forgetting
    BY DEF Forgetting
  <2> QED  BY <1>2, <2>1, <2>2, <2>3, <2>4, <2>5 DEF StarvingIsCounted
<1> QED  BY <1>3, <1>4

(* Every step counts a client that starves, or ends its starvation.        *)
LEMMA StarveStep ==
  ASSUME Forgetting >= 1
  PROVE  StarveInv /\ [StuckNext]_stuckVars => StarveInv'
<1> SUFFICES ASSUME StarveInv, [StuckNext]_stuckVars PROVE StarvingIsCounted'
  <2> SUFFICES ASSUME StarveInv, [StuckNext]_stuckVars
               PROVE  StuckTypeOK' /\ SentBefore'
    BY DEF StarveInv
  <2>1. StuckTypeOK'
    BY TypesStep DEF StarveInv
  <2> QED  BY <2>1, SentStep
<1>1. Forgetting' = Forgetting
  BY DEF Forgetting
<1>2. ASSUME UNCHANGED <<starving, ticks, sinceCheck, updateDue>>,
             valveOpen' \/ ~valveOpen, Streaming' = {} => starving = 0
      PROVE  StarvingIsCounted'
  BY <1>1, <1>2 DEF StarveInv, StarvingIsCounted
<1>3. ASSUME NEW c \in Clients, Connect(c) \/ Establish(c) \/ Timeout(c) \/ Closed(c)
      PROVE  StarvingIsCounted'
  <2>1. \E p : Enter(c, p)
    BY <1>3 DEF Connect, Establish, Timeout, Closed
  <2>2. /\ UNCHANGED <<valveOpen, updateDue, ticks, sinceCheck>>
        /\ starving' = IF \E d \in Clients : phase'[d] = "streaming"
                       THEN starving ELSE 0
    BY <2>1 DEF Enter, flowVars
  <2>3. CASE \E d \in Clients : phase'[d] = "streaming"
    BY <1>2, <2>2, <2>3 DEF Streaming
  <2>4. CASE ~\E d \in Clients : phase'[d] = "streaming"
    BY <2>2, <2>4, FedIsCounted
  <2> QED  BY <2>3, <2>4
<1>4. CASE Wedge \/ UNCHANGED stuckVars
  <2>1. UNCHANGED <<phase, starving, ticks, sinceCheck, updateDue, valveOpen>>
    BY <1>4 DEF Wedge, stuckVars, sessionVars, flowVars, checkVars, timing
  <2>2. Streaming' = {} => starving = 0
    BY <2>1 DEF StarveInv, StarvingIsCounted, Streaming
  <2> QED  BY <1>2, <2>1, <2>2
<1>5. CASE Frame
  <2>1. UNCHANGED <<phase, ticks, sinceCheck, updateDue, valveOpen>>
        /\ (starving' = 0 \/ starving' = starving)
    BY <1>5 DEF Frame, sessionVars, flowVars, checkVars
  <2>2. Streaming' = {} => starving = 0
    BY <2>1 DEF StarveInv, StarvingIsCounted, Streaming
  <2> QED  BY <1>2, <2>1, <2>2, FedIsCounted
<1>6. CASE FlowUpdate
  <2>1. /\ UNCHANGED <<phase, ticks, sinceCheck, starving>>
        /\ Connected # {} => valveOpen'
    BY <1>6 DEF FlowUpdate, sessionVars, checkVars
  <2>2. Streaming' = Streaming /\ Streaming \subseteq Connected
    BY <2>1 DEF Streaming, Connected
  <2>3. starving > 1 \/ starving = 1 => valveOpen'
    BY <2>1, <2>2 DEF StarveInv, StarvingIsCounted
  <2> QED
    BY <1>1, <2>1, <2>2, <2>3 DEF StarveInv, StarvingIsCounted
<1>7. CASE Check
  BY <1>7, CheckStarves
<1>8. CASE RestartOtherwise
  BY <1>8, FedIsCounted DEF RestartOtherwise, Restart
<1>9. CASE Elapse
  BY <1>9, ElapseStarves
<1> QED
  BY <1>3, <1>4, <1>5, <1>6, <1>7, <1>8, <1>9 DEF StuckNext

(* Nobody starves of a pipeline that just started.                         *)
LEMMA StarveInit ==
  ASSUME Forgetting >= 1
  PROVE  StuckInit => StarveInv
<1> SUFFICES ASSUME StuckInit PROVE StarveInv
  OBVIOUS
<1>1. starving = 0 /\ sent = {} /\ Forgetting \in Int
  BY ForgettingType DEF StuckInit
<1>2. StarvingIsCounted /\ SentBefore
  BY <1>1 DEF StarvingIsCounted, SentBefore
<1> QED  BY <1>2, InitTypes DEF StarveInv

(* A client whose connection is established does not go without frames for *)
(* longer than the rule takes to see it, if an output can have a frame     *)
(* rate at all: its frames must fit into the window (in the code two       *)
(* intervals of the slowest output into 10 seconds).                       *)
THEOREM StarvingNoticed ==
  ASSUME Forgetting >= 1
  PROVE  StuckSpec => []StarvingClientsAreNoticed
<1>1. ASSUME StarveInv PROVE StarvingClientsAreNoticed
  <2>1. /\ ticks \in Nat /\ CheckPeriod \in Nat /\ sinceCheck \in Nat
        /\ starving \in Nat /\ Forgetting \in Int
        /\ ticks + 1 \in Nat /\ StuckTicks \in Nat
        /\ ticks + 1 <= StuckTicks /\ sinceCheck <= CheckPeriod
    BY <1>1, ConstantTypes, ForgettingType DEF StarveInv, StuckTypeOK
  <2>2. /\ (ticks + 1) * CheckPeriod <= StuckTicks * CheckPeriod
        /\ StuckTicks * CheckPeriod \in Nat
    BY <2>1, PeriodsGrow
  <2>3. (ticks + 1) * CheckPeriod = ticks * CheckPeriod + CheckPeriod
        /\ ticks * CheckPeriod \in Nat
    BY <2>1
  <2>4. starving > Forgetting =>
          starving <= Forgetting + ticks * CheckPeriod + sinceCheck
    BY <1>1 DEF StarveInv, StarvingIsCounted
  <2>5. starving <= Forgetting + StuckTicks * CheckPeriod
    BY <2>1, <2>2, <2>3, <2>4
  <2> QED  BY <2>5 DEF StarvingClientsAreNoticed, Patience, Forgetting
<1>2. StuckSpec => []StarveInv
  <2>1. (StuckInit => StarveInv)
        /\ (StarveInv /\ [StuckNext]_stuckVars => StarveInv')
    BY StarveInit, StarveStep
  <2> QED  BY <2>1, PTL DEF StuckSpec
<1> QED  BY <1>1, <1>2, PTL

=============================================================================
