----------------------------- MODULE V4l2Input -----------------------------
(* A V4L2 camera and the ROS parameters made of its controls               *)
(* (inputs/v4l2_input.cpp), through the builds, failed builds and rebuilds *)
(* of its pipeline (camera_pipeline.cpp, camera_server.cpp).               *)
(*                                                                         *)
(* Two threads meet here: the GStreamer thread builds, rolls back, starts  *)
(* and stops the pipeline; the executor thread sets parameters, and its    *)
(* callback writes to the pipeline's v4l2src.  The device can be unplugged *)
(* at any time and comes back with its defaults.                           *)
EXTENDS Integers, FiniteSets

CONSTANTS
    Controls,   \* the settable controls the device lists
    Values,     \* the values inside every control's range
    Default,    \* a device's value of every control when it is plugged in
    Attempts    \* bound: how many builds are tried

Unset == -1
OutOfRange == -2   \* stands for the values the driver's range excludes

ASSUME InputAssumption ==
    /\ Values \subseteq Nat /\ Default \in Values
    /\ Attempts \in Nat \ {0}

VARIABLES
    config,     \* the controls of the camera's configuration
    overrides,  \* parameter values given to the node at launch
    plugged,    \* the device is there
    device,     \* its value of each control
    phase,      \* where buildPipeline is; "built" once it is done
    toDeclare,  \* enumerated controls without a parameter so far
    extra,      \* v4l2src's extra-controls: what each opening writes
    opened,     \* v4l2src has the device open
    declared,   \* the node's parameters, which outlive the pipeline
    param,      \* their values
    callback,   \* V4l2InputState lives and its callback is registered
    call,       \* the parameter set the executor is in
    dead,       \* an exception left the GStreamer thread: std::terminate
    attempts,   \* builds begun
    \* What the properties remember:
    reached,    \* controls whose last parameter set reached the device
    undone,     \* a build failed after it had declared a parameter
    freedUse    \* a callback wrote to a v4l2src already freed

given == <<config, overrides>>
camera == <<plugged, device, opened>>
node == <<declared, param>>
build == <<phase, toDeclare, attempts>>
past == <<reached, undone, freedUse>>
inputVars == <<given, camera, build, extra, node, callback, call, dead, past>>

NoCall == [stage |-> "none"]
Calls == {NoCall} \cup [stage : {"called", "locked"}, overlapped : BOOLEAN,
                        control : Controls, value : Values]

InputTypeOK ==
    /\ config \in [Controls -> Values \cup {Unset, OutOfRange}]
    /\ overrides \in [Controls -> Values \cup {Unset}]
    /\ plugged \in BOOLEAN /\ opened \in BOOLEAN /\ device \in [Controls -> Values]
    /\ phase \in {"idle", "source", "caps", "declaring", "input", "built"}
    /\ toDeclare \subseteq Controls /\ attempts \in 0..Attempts
    /\ extra \in [Controls -> Values \cup {Unset, OutOfRange}]
    /\ declared \subseteq Controls /\ param \in [Controls -> Values]
    /\ callback \in BOOLEAN /\ call \in Calls /\ dead \in BOOLEAN
    /\ reached \subseteq Controls /\ undone \in BOOLEAN /\ freedUse \in BOOLEAN

InputInit ==
    /\ config \in [Controls -> Values \cup {Unset, OutOfRange}]
    /\ overrides \in [Controls -> Values \cup {Unset}]
    /\ plugged \in BOOLEAN /\ device = [c \in Controls |-> Default] /\ opened = FALSE
    /\ phase = "idle" /\ toDeclare = {} /\ attempts = 0
    /\ extra = [c \in Controls |-> Unset]
    /\ declared = {} /\ param = [c \in Controls |-> Default]
    /\ callback = FALSE /\ call = NoCall /\ dead = FALSE
    /\ reached = {} /\ undone = FALSE /\ freedUse = FALSE

---------------------------------------------------------------------------
\* v4l2src and the driver, as the code uses them: opening the device writes
\* the extra-controls, and so does setting them while it is open.  A value out
\* of range is refused here, as V4L2 allows (many drivers clamp it instead);
\* what is not written keeps its value.
Written(controls) ==
    [c \in Controls |-> IF controls[c] \in Values THEN controls[c] ELSE device[c]]

\* Plausible slip: each start sets the configured controls once more.
StartWithConfig ==
    /\ phase = "built" /\ ~opened /\ plugged
    /\ opened' = TRUE
    /\ device' = Written(config)
    /\ UNCHANGED <<plugged, given, build, extra, node, callback, call, dead, past>>

\* Open the device for streaming; a pipeline that cannot stays closed.
Start ==
    /\ phase = "built" /\ ~opened /\ plugged
    /\ opened' = TRUE
    /\ device' = Written(extra)
    /\ UNCHANGED <<plugged, given, build, extra, node, callback, call, dead, past>>

\* A pipeline stopped by the supervisor closes its device.
Stop ==
    /\ phase = "built" /\ opened
    /\ opened' = FALSE
    /\ UNCHANGED <<plugged, device, given, build, extra, node, callback, call, dead, past>>

---------------------------------------------------------------------------
\* Plausible slip: buildPipeline no longer returns early when it has an input.
CreateSourceAgain ==
    /\ phase \in {"idle", "built"} /\ ~opened /\ attempts < Attempts
    /\ phase' = "source" /\ attempts' = attempts + 1
    /\ extra' = config
    /\ UNCHANGED <<toDeclare, given, camera, node, callback, call, dead, past>>

\* buildPipeline begins with createInput: a v4l2src with the configured
\* controls.  A request that finds the pipeline built does nothing.
CreateSource ==
    /\ phase = "idle" /\ attempts < Attempts
    /\ phase' = "source" /\ attempts' = attempts + 1
    /\ extra' = config
    /\ UNCHANGED <<toDeclare, given, camera, node, callback, call, dead, past>>

\* selectCaps opens the device for a moment, which writes the controls.
SelectCaps ==
    /\ phase = "source" /\ plugged
    /\ phase' = "caps"
    /\ device' = Written(extra)
    /\ UNCHANGED <<plugged, opened, toDeclare, attempts, extra, given, node, callback,
                   call, dead, past>>

\* The device is listed once more, through a descriptor of its own.  One that
\* is gone lists nothing, and the build goes on without parameters.
EnumerateControls ==
    /\ phase = "caps"
    /\ toDeclare' = IF plugged THEN Controls ELSE {}
    /\ phase' = IF plugged THEN "declaring" ELSE "input"
    /\ UNCHANGED <<attempts, extra, given, camera, node, callback, call, dead, past>>

\* The value a parameter is declared with: the launch's, which v4l2src is not
\* told of, else the configured one, else the device's.
InitialValue(c) ==
    CASE overrides[c] # Unset -> overrides[c]
      [] overrides[c] = Unset /\ config[c] # Unset -> config[c]
      [] OTHER -> device[c]

\* The node serves one declaration, registration or set at a time.
DeclareParameter(c) ==
    /\ phase = "declaring" /\ c \in toDeclare
    /\ c \notin declared /\ InitialValue(c) # OutOfRange /\ call = NoCall
    /\ declared' = declared \cup {c}
    /\ param' = [param EXCEPT ![c] = InitialValue(c)]
    /\ toDeclare' = toDeclare \ {c}
    /\ UNCHANGED <<phase, attempts, extra, given, camera, callback, call, dead, past>>

\* declare_parameter throws for a name already declared and for a value out of
\* the range; buildPipeline's callers catch PipelineBuildError only.
DeclareThrows(c) ==
    /\ phase = "declaring" /\ c \in toDeclare
    /\ call = NoCall
    /\ c \in declared \/ InitialValue(c) = OutOfRange
    /\ dead' = TRUE
    /\ UNCHANGED <<build, extra, given, camera, node, callback, call, past>>

AddCallback ==
    /\ phase = "declaring" /\ toDeclare = {} /\ call = NoCall
    /\ phase' = "input" /\ callback' = TRUE
    /\ UNCHANGED <<toDeclare, attempts, extra, given, camera, node, call, dead, past>>

\* The rest of buildPipeline: the graph, the elements and the outputs.
FinishBuild ==
    /\ phase = "input"
    /\ phase' = "built"
    /\ UNCHANGED <<toDeclare, attempts, extra, given, camera, node, callback, call, dead,
                   past>>

\* resetBuildState: the input's state, its callback and v4l2src go; what the
\* node was told stays.
RollBack ==
    /\ phase' = "idle" /\ toDeclare' = {}
    /\ callback' = FALSE
    /\ extra' = [c \in Controls |-> Unset]
    /\ call' = IF call.stage = "locked" THEN [call EXCEPT !.overlapped = TRUE] ELSE call
    /\ undone' = (undone \/ declared # {})
    /\ reached' = {}
    /\ UNCHANGED <<attempts, given, camera, node, dead, freedUse>>

\* The device cannot be opened, it has no matching caps, or a later part of the
\* build fails: PipelineBuildError, and the guard rolls back.
FailBuild ==
    /\ phase \in {"source", "caps", "input"}
    /\ RollBack

---------------------------------------------------------------------------
\* A user sets a declared parameter.  rclcpp asks the registered callback
\* first; without one it just stores the value.
SetParameter(c, v) ==
    /\ call = NoCall /\ c \in declared
    /\ IF callback
       THEN /\ call' = [stage |-> "called", overlapped |-> FALSE, control |-> c, value |-> v]
            /\ UNCHANGED <<param, reached>>
       ELSE /\ param' = [param EXCEPT ![c] = v]
            /\ reached' = reached \ {c}
            /\ UNCHANGED call
    /\ UNCHANGED <<declared, given, camera, build, extra, callback, dead, undone, freedUse>>

\* Plausible slip: the callback captures the state by a plain pointer.
LockAlways ==
    /\ call.stage = "called"
    /\ call' = [call EXCEPT !.stage = "locked"]
    /\ UNCHANGED <<given, camera, build, extra, node, callback, dead, past>>

\* The callback takes hold of the state, which does not take hold of v4l2src;
\* without it the set is refused.
LockState ==
    /\ call.stage = "called"
    /\ call' = IF callback THEN [call EXCEPT !.stage = "locked"] ELSE NoCall
    /\ UNCHANGED <<given, camera, build, extra, node, callback, dead, past>>

\* applyControls: the extra-controls become the one changed control, written
\* at once if the device is open; the value is stored as the parameter's.
ApplyControls ==
    LET c == call.control
        changed == [d \in Controls |-> IF d = c THEN call.value ELSE Unset]
    IN  /\ call.stage = "locked"
        /\ call' = NoCall
        /\ param' = [param EXCEPT ![c] = call.value]
        /\ IF callback
           THEN /\ extra' = changed
                /\ device' = IF opened THEN Written(changed) ELSE device
                /\ reached' = IF opened THEN reached \cup {c} ELSE reached \ {c}
                /\ UNCHANGED freedUse
           ELSE /\ freedUse' = TRUE
                /\ reached' = reached \ {c}
                /\ UNCHANGED <<extra, device>>
        /\ UNCHANGED <<declared, given, plugged, opened, build, callback, dead, undone>>

---------------------------------------------------------------------------
\* The world: a descriptor of a device that is gone reaches nothing any more,
\* and a device plugged in again has its defaults.
Unplug ==
    /\ plugged
    /\ plugged' = FALSE /\ opened' = FALSE /\ reached' = {}
    /\ UNCHANGED <<device, given, build, extra, node, callback, call, dead, undone, freedUse>>

Plug ==
    /\ ~plugged
    /\ plugged' = TRUE /\ device' = [c \in Controls |-> Default]
    /\ UNCHANGED <<opened, given, build, extra, node, callback, call, dead, past>>

InputNext ==
    /\ ~dead
    /\ \/ CreateSource \/ SelectCaps \/ EnumerateControls \/ AddCallback \/ FinishBuild
       \/ FailBuild \/ Start \/ Stop \/ LockState \/ ApplyControls \/ Unplug \/ Plug
       \/ \E c \in Controls : \/ DeclareParameter(c) \/ DeclareThrows(c)
                              \/ \E v \in Values : SetParameter(c, v)

InputSpec == InputInit /\ [][InputNext]_inputVars

---------------------------------------------------------------------------
\* A control set through its parameter while the device streams keeps that
\* value: no restart of the pipeline, later set of another control or late
\* parameter callback brings the configured value back while the parameter
\* shows the new one.  What is exempt is what really loses it: a device
\* plugged in anew, a rebuilt pipeline, a set that never reached the device.
SetControlsStaySet == \A c \in reached : c \in declared /\ device[c] = param[c]

\* Building a camera's pipeline ends the process only when the configuration
\* asks for a value outside a control's range, or when an earlier attempt
\* failed after it had declared its parameters, which nothing takes back.
DiesOnlyOfLeftovers ==
    dead => undone \/ \E c \in Controls : InitialValue(c) = OutOfRange

\* A parameter callback works on a freed v4l2src only if the build was rolled
\* back after the callback had locked the state: in every other order the
\* expired state turns the callback away.
FreedOnlyUnderTheCallback ==
    [][freedUse' # freedUse => call.stage = "locked" /\ call.overlapped]_inputVars

=============================================================================
