---------------------------- MODULE FlowController ----------------------------
(***************************************************************************)
(* The FlowController of one pipeline: a timer looks at the client counts  *)
(* of the outputs and opens or closes the valve of each tee branch, while  *)
(* clients come and go on other threads. The counts are read one at a      *)
(* time, so a client may come or go in the middle of an update.            *)
(***************************************************************************)
EXTENDS Integers, Sequences

CONSTANTS
  Outputs,   \* the outputs of the pipeline
  Unknown,   \* the outputs whose getClientCount is -1
  Valves,    \* branch_valves: for each valve, the outputs behind it, in order
  Grace,     \* GRACE_PERIOD in seconds (10)
  Late       \* bound: how many seconds the flow control timer may be late

Branches == 1 .. Len(Valves)

ASSUME ValvesAssumption ==
  /\ Unknown \subseteq Outputs
  /\ Valves \in Seq(Seq(Outputs))
  /\ Grace \in Nat \ {0}
  /\ Late \in Nat

VARIABLES
  connected,    \* outputs with clients: getClientCount() > 0
  valveOpen,    \* branch_valve_open_; the valve element's "drop" is its negation
  inactiveFor,  \* seconds since branch_inactive_since_, or Unset
  branch,       \* the branch the running update looks at, 0 between updates
  next,         \* position of the next output of that branch to be looked at
  sinceUpdate,  \* seconds since the last update began
  witnessed,    \* outputs with a client since the running update began (history)
  served,       \* outputs with a client since before a whole update (history)
  sinceServed   \* seconds since the output was last served (history)

codeVars    == <<valveOpen, inactiveFor, branch, next>>
historyVars == <<witnessed, served, sinceServed>>
vars        == <<connected, codeVars, sinceUpdate, historyVars>>

Unset == -1

(* The outputs isOutputActive counts as active.                            *)
Active == connected \cup Unknown

Behind(b) == {Valves[b][i] : i \in 1 .. Len(Valves[b])}

(* isOutputFlowing: every valve on the way is open.                        *)
Flowing(o) == \A b \in Branches : o \in Behind(b) => valveOpen[b]

TypeOK ==
  /\ connected \subseteq Outputs \ Unknown
  /\ valveOpen \in [Branches -> BOOLEAN]
  /\ inactiveFor \in [Branches -> {Unset} \cup 0 .. Grace]
  /\ branch \in 0 .. Len(Valves)
  /\ next \in Nat \ {0}
  /\ branch # 0 => next <= Len(Valves[branch]) + 1
  /\ sinceUpdate \in 0 .. Late + 1
  /\ witnessed \subseteq Outputs
  /\ served \subseteq Outputs
  /\ sinceServed \in [Outputs -> 0 .. Grace]

(* A freshly built pipeline: every valve open, no grace timer running.     *)
Init ==
  /\ connected = {}
  /\ valveOpen = [b \in Branches |-> TRUE]
  /\ inactiveFor = [b \in Branches |-> Unset]
  /\ branch = 0
  /\ next = 1
  /\ sinceUpdate = 0
  /\ witnessed = {}
  /\ served = {}
  /\ sinceServed = [o \in Outputs |-> 0]

-----------------------------------------------------------------------------
(* FlowController::update                                                  *)

BeginUpdate ==
  /\ branch = 0
  /\ sinceUpdate > 0
  /\ Branches # {}
  /\ branch' = 1
  /\ next' = 1
  /\ sinceUpdate' = 0
  /\ witnessed' = Active
  /\ UNCHANGED <<connected, valveOpen, inactiveFor, served, sinceServed>>

(* The loop goes on to the next branch or the update ends, and with it the *)
(* outputs witnessed throughout count as served.                           *)
NextBranch ==
  /\ next' = 1
  /\ IF branch < Len(Valves)
     THEN branch' = branch + 1 /\ UNCHANGED <<served, sinceServed>>
     ELSE /\ branch' = 0
          /\ served' = served \cup witnessed
          /\ sinceServed' = [o \in Outputs |->
                               IF o \in witnessed THEN 0 ELSE sinceServed[o]]

(* isBranchActive looks at the outputs in order until one is active.       *)
SkipIdleOutput ==
  /\ branch # 0
  /\ next <= Len(Valves[branch])
  /\ Valves[branch][next] \notin Active
  /\ next' = next + 1
  /\ UNCHANGED <<connected, valveOpen, inactiveFor, branch, sinceUpdate,
                 historyVars>>

(* Plausible slip: a grace timer once started is not reset.                *)
KeepGraceTimer ==
  /\ branch # 0
  /\ next <= Len(Valves[branch])
  /\ Valves[branch][next] \in Active
  /\ valveOpen' = [valveOpen EXCEPT ![branch] = TRUE]
  /\ NextBranch
  /\ UNCHANGED <<connected, inactiveFor, sinceUpdate, witnessed>>

(* Plausible slip: the grace period applies to opening as well.            *)
OpenAfterGrace ==
  /\ branch # 0
  /\ next <= Len(Valves[branch])
  /\ Valves[branch][next] \in Active
  /\ valveOpen' = [valveOpen EXCEPT ![branch] = @ \/ inactiveFor[branch] = Unset]
  /\ inactiveFor' = [inactiveFor EXCEPT ![branch] = Unset]
  /\ NextBranch
  /\ UNCHANGED <<connected, sinceUpdate, witnessed>>

(* Plausible slip: a returning client only cancels the grace timer.        *)
ResetTimerOnly ==
  /\ branch # 0
  /\ next <= Len(Valves[branch])
  /\ Valves[branch][next] \in Active
  /\ inactiveFor' = [inactiveFor EXCEPT ![branch] = Unset]
  /\ NextBranch
  /\ UNCHANGED <<connected, valveOpen, sinceUpdate, witnessed>>

ActiveBranch ==
  /\ branch # 0
  /\ next <= Len(Valves[branch])
  /\ Valves[branch][next] \in Active
  /\ valveOpen' = [valveOpen EXCEPT ![branch] = TRUE]
  /\ inactiveFor' = [inactiveFor EXCEPT ![branch] = Unset]
  /\ NextBranch
  /\ UNCHANGED <<connected, sinceUpdate, witnessed>>

(* Plausible slip: the grace timer starts over with every idle update.     *)
RestartGraceTimer ==
  /\ branch # 0
  /\ next > Len(Valves[branch])
  /\ inactiveFor' = [inactiveFor EXCEPT ![branch] = 0]
  /\ valveOpen' = [valveOpen EXCEPT ![branch] = @ /\ inactiveFor'[branch] < Grace]
  /\ NextBranch
  /\ UNCHANGED <<connected, sinceUpdate, witnessed>>

IdleBranch ==
  /\ branch # 0
  /\ next > Len(Valves[branch])
  /\ inactiveFor' = [inactiveFor EXCEPT ![branch] = IF @ = Unset THEN 0 ELSE @]
  /\ valveOpen' = [valveOpen EXCEPT ![branch] = @ /\ inactiveFor'[branch] < Grace]
  /\ NextBranch
  /\ UNCHANGED <<connected, sinceUpdate, witnessed>>

Update == BeginUpdate \/ SkipIdleOutput \/ ActiveBranch \/ IdleBranch

-----------------------------------------------------------------------------
(* Clients and time.                                                       *)

FirstConnects(o) ==
  /\ o \in Outputs \ (connected \cup Unknown)
  /\ connected' = connected \cup {o}
  /\ UNCHANGED <<codeVars, sinceUpdate, historyVars>>

LastLeaves(o) ==
  /\ o \in connected
  /\ connected' = connected \ {o}
  /\ witnessed' = witnessed \ {o}
  /\ served' = served \ {o}
  /\ UNCHANGED <<codeVars, sinceUpdate, sinceServed>>

Older(age) == IF age \in 0 .. Grace - 1 THEN age + 1 ELSE age

(* A second passes; an update takes no time compared to that.              *)
Elapse ==
  /\ branch = 0
  /\ sinceUpdate <= Late
  /\ sinceUpdate' = sinceUpdate + 1
  /\ inactiveFor' = [b \in Branches |-> Older(inactiveFor[b])]
  /\ sinceServed' = [o \in Outputs |-> Older(sinceServed[o])]
  /\ UNCHANGED <<connected, valveOpen, branch, next, witnessed, served>>

Next ==
  \/ Update
  \/ \E o \in Outputs : FirstConnects(o) \/ LastLeaves(o)
  \/ Elapse

(* The flow control timer keeps firing, an update ends, time passes.       *)
Fairness == WF_vars(Update) /\ SF_vars(Elapse)

Spec     == Init /\ [][Next]_vars
FairSpec == Spec /\ Fairness

-----------------------------------------------------------------------------
(* Properties.                                                             *)

(* An output that has had clients since before the last whole update is    *)
(* not paused: all valves on its way are open, in whatever order the       *)
(* branches were visited and whoever came or left during the update.       *)
ServedOutputsFlow == \A o \in served : Flowing(o)

(* The grace period: a valve closes only if none of the outputs behind it  *)
(* was served in the last Grace seconds, and not within Grace seconds of   *)
(* the start of the pipeline.                                              *)
GraceBeforeClosing ==
  [][\A b \in Branches :
       valveOpen[b] /\ ~valveOpen'[b] =>
         \A o \in Behind(b) : sinceServed[o] >= Grace]_vars

(* A client that stays gets its stream, past all the valves on the way.    *)
ClientsGetStream ==
  \A o \in Outputs : <>[](o \in Active) => <>[]Flowing(o)

(* A branch without clients does not go on being processed.                *)
IdleBranchesClose ==
  \A b \in Branches :
    <>[](Behind(b) \cap Active = {}) => <>[]~valveOpen[b]

=============================================================================
