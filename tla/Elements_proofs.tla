-------------------------- MODULE Elements_proofs --------------------------
(***************************************************************************)
(* Proofs about the two elements of a pipeline that are changed while it   *)
(* runs: the decoder that swaps itself out, and the V4L2 input whose       *)
(* controls are parameters.                                                *)
(*                                                                         *)
(* SmartDecoder, for every codec, preference, set of plugins and threshold:*)
(* the type invariant, that swaps do not overlap, that a backend that was  *)
(* given up is not installed again, and that no decoder is given up early  *)
(* but by a check that a swap overtook.                                    *)
(*                                                                         *)
(* V4l2Input, for any controls, values and number of builds: that a        *)
(* control that was set stays set, and for which causes an exception ends  *)
(* the process or a freed element is used.                                 *)
(***************************************************************************)
EXTENDS SmartDecoder, V4l2Input, TLAPS

-----------------------------------------------------------------------------
(* Smart decoder: selection.                                               *)

(* The decoder tables list at most seven backends, each of its own name.   *)
LEMMA DecoderTables ==
  /\ DOMAIN Decoders[Codec].backends \subseteq 1 .. 7
  /\ \A i, j \in DOMAIN Decoders[Codec].backends :
       Decoders[Codec].backends[i].name = Decoders[Codec].backends[j].name => i = j
  /\ None \notin Backends
<1>1. Codec \in {"H264", "H265", "JPEG", "PNG"}
  BY DecoderAssumption DEF Decoders
<1> QED
  BY SMTT(30), <1>1 DEF Decoders, Descriptor, Entry, Backends, Names, None

(* Min of a set of such positions is one of its elements.                  *)
LEMMA MinIsElement ==
  ASSUME NEW S \in SUBSET (1 .. 7), S # {}
  PROVE  Min(S) \in S
<1>1. \E x \in S : \A y \in S : x =< y
  <2>1. CASE 1 \in S  BY <2>1
  <2>2. CASE 2 \in S /\ 1 \notin S  BY <2>2
  <2>3. CASE 3 \in S /\ S \cap 1 .. 2 = {}  BY <2>3
  <2>4. CASE 4 \in S /\ S \cap 1 .. 3 = {}  BY <2>4
  <2>5. CASE 5 \in S /\ S \cap 1 .. 4 = {}  BY <2>5
  <2>6. CASE 6 \in S /\ S \cap 1 .. 5 = {}  BY <2>6
  <2>7. CASE S \cap 1 .. 6 = {}
    <3>1. PICK x \in S : TRUE  OBVIOUS
    <3>2. ASSUME NEW y \in S PROVE y \in Int /\ 6 < y /\ y =< 7  BY <2>7
    <3> QED  BY <3>1, <3>2
  <2> QED
    BY <2>1, <2>2, <2>3, <2>4, <2>5, <2>6, <2>7
<1> QED
  BY <1>1 DEF Min

(* codecSelect returns none or a backend of the table that is not excluded. *)
LEMMA SelectsFromTable ==
  ASSUME NEW excl, NEW factories,
         NEW b, b = codecSelect(Decoders[Codec], Desired, excl, factories),
         b # None
  PROVE  b \in Backends /\ b \notin excl
<1> DEFINE desc   == Decoders[Codec]
           found  == {i \in DOMAIN desc.backends :
                        /\ desc.backends[i].factory \in factories
                        /\ desc.backends[i].name \notin excl}
           wanted == {i \in found : desc.backends[i].name \in Desired}
           choice == IF wanted # {} THEN wanted ELSE found
<1>1. b = IF found = {} THEN None ELSE desc.backends[Min(choice)].name
  BY DEF codecSelect
<1>2. found # {} /\ b = desc.backends[Min(choice)].name
  BY <1>1
<1>3. choice \in SUBSET (1 .. 7) /\ choice # {} /\ choice \subseteq found
  BY <1>2, DecoderTables
<1>4. Min(choice) \in found
  BY <1>3, MinIsElement
<1> QED
  BY <1>2, <1>4 DEF Backends, Names

(* The backend that is used is one that is not excluded.                   *)
LEMMA UsableBackends ==
  ASSUME NEW excl
  PROVE  /\ Usable(excl) # None => Usable(excl) \in Backends \ excl
         /\ Skipped(excl) \subseteq Backends
<1>1. Usable(excl) # None => Usable(excl) \in Backends \ excl
  BY SelectsFromTable DEF Usable
<1>2. Skipped(excl) \subseteq Backends
  BY DEF Skipped, TriedInVain, Backends, Names
<1> QED
  BY <1>1, <1>2

(* A backend that is tried in vain is not the one that is used then.       *)
LEMMA SkippedAreNotUsed ==
  ASSUME NEW excl, Usable(excl) # None
  PROVE  Usable(excl) \notin Skipped(excl)
<1> DEFINE desc   == Decoders[Codec]
           found  == {i \in DOMAIN desc.backends :
                        /\ desc.backends[i].factory \in Creatable
                        /\ desc.backends[i].name \notin excl}
           wanted == {i \in found : desc.backends[i].name \in Desired}
           choice == IF wanted # {} THEN wanted ELSE found
<1>1. Usable(excl) = IF found = {} THEN None ELSE desc.backends[Min(choice)].name
  BY DEF Usable, codecSelect
<1>2. found # {} /\ Usable(excl) = desc.backends[Min(choice)].name
  BY <1>1
<1>3. choice \in SUBSET (1 .. 7) /\ choice # {} /\ choice \subseteq found
  BY <1>2, DecoderTables
<1>4. Min(choice) \in found
  BY <1>3, MinIsElement
<1>5. ASSUME Usable(excl) \in Skipped(excl)
      PROVE  \E i \in DOMAIN desc.backends :
               /\ desc.backends[i].factory \notin Creatable
               /\ desc.backends[i].name = Usable(excl)
  BY <1>5 DEF Skipped, TriedInVain
<1> QED
  BY <1>2, <1>4, <1>5, DecoderTables
-----------------------------------------------------------------------------
(* The invariant. The claim covers a swap from before it begins until it   *)
(* is complete, and the probe blocks the queue as long as there is a       *)
(* decoder to install. What a check goes by are frames of the current      *)
(* decoder, unless its swap was completed in the meantime.                 *)

ClaimCoversSwap ==
  /\ upstream = "swap" => swapPending /\ blocking = 0
  /\ blocking = 1 => swapPending

ProbeInstallsPending ==
  IF downstream = "wait" THEN (blocking = 1) <=> (pending # None)
                         ELSE blocking = 1 /\ pending = None

PendingNotGivenUp == pending # None => pending \notin excluded

Checking == upstream \in {"check", "claim", "swap"}

CountsAreOfCurrent ==
  /\ downstream # "reset" => inputCount =< arrived
  /\ Checking => arrived = CheckThreshold \/ outdated \/ downstream = "reset"

(* TypeOK in two parts, the flags and the rest.                            *)
FlagsOK ==
  /\ swapPending \in BOOLEAN /\ exhausted \in BOOLEAN /\ queued \in BOOLEAN
  /\ decoding \in BOOLEAN /\ outdated \in BOOLEAN

RangesOK ==
  /\ current \in Backends /\ pending \in Backends \cup {None}
  /\ excluded \subseteq Backends
  /\ inputCount \in 0 .. CheckThreshold /\ outputCount \in 0 .. 1
  /\ upstream \in {"count", "check", "claim", "swap", "push"}
  /\ downstream \in {"wait", "reset", "release"}
  /\ blocking \in 0 .. 1
  /\ arrived \in 0 .. CheckThreshold

SwapInv ==
  /\ TypeOK
  /\ ClaimCoversSwap
  /\ ProbeInstallsPending
  /\ PendingNotGivenUp
  /\ CountsAreOfCurrent

SwapParts ==
  ClaimCoversSwap /\ ProbeInstallsPending /\ PendingNotGivenUp /\ CountsAreOfCurrent

(* The invariant, flags apart from the rest.                               *)
LEMMA SwapInvIsParts == SwapInv <=> FlagsOK /\ RangesOK /\ SwapParts
  BY DEF SwapInv, SwapParts, TypeOK, FlagsOK, RangesOK

(* The same after a step.                                                  *)
LEMMA SwapInvIsPartsNext == SwapInv' <=> FlagsOK' /\ RangesOK' /\ SwapParts'
  BY DEF SwapInv, SwapParts, TypeOK, FlagsOK, RangesOK

(* A new decoder is not being swapped.                                     *)
LEMMA SwapInvInit == Init => SwapInv
<1> SUFFICES ASSUME Init PROVE SwapInv
  OBVIOUS
<1>1. CheckThreshold \in Nat /\ Usable({}) \in Backends /\ Skipped({}) \subseteq Backends
  BY DecoderAssumption, UsableBackends DEF Init
<1>2. FlagsOK
  BY Zenon DEF Init, FlagsOK
<1>3. RangesOK /\ SwapParts
  BY <1>1 DEF Init, RangesOK, SwapParts, ClaimCoversSwap, ProbeInstallsPending,
       PendingNotGivenUp, CountsAreOfCurrent, Checking
<1> QED
  BY <1>2, <1>3, SwapInvIsParts

(* The flags stay flags.                                                   *)
LEMMA FlagsStep ==
  ASSUME FlagsOK, [Next]_vars
  PROVE  FlagsOK'
<1> USE DEF FlagsOK, atomics, swapVars, history
<1>1. CASE Upstream
  BY <1>1, Zenon DEF Upstream, CountInput, CheckOutput, Claim, Swap, Push
<1>2. CASE Downstream
  <2>1. CASE ResetCounts
    <3>1. outdated' \in BOOLEAN
      BY <2>1 DEF ResetCounts
    <3> QED
      BY <2>1, <3>1, Zenon DEF ResetCounts
  <2>2. CASE ~ResetCounts
    BY <1>2, <2>2, Zenon DEF Downstream, Forward, Install, Release
  <2> QED
    BY <2>1, <2>2
<1>3. CASE Decode
  BY <1>3, Zenon DEF Decode
<1>4. CASE UNCHANGED vars
  BY <1>4, Zenon DEF vars
<1> QED
  BY <1>1, <1>2, <1>3, <1>4 DEF Next

(* Every step keeps the invariant.                                         *)
LEMMA SwapInvStep == SwapInv /\ [Next]_vars => SwapInv'
<1> SUFFICES ASSUME SwapInv, [Next]_vars PROVE RangesOK' /\ SwapParts'
  BY SwapInvIsParts, SwapInvIsPartsNext, FlagsStep
<1> USE DEF RangesOK, SwapParts, ClaimCoversSwap, ProbeInstallsPending,
            PendingNotGivenUp, CountsAreOfCurrent, Checking,
            atomics, swapVars, history
<1>0. /\ CheckThreshold \in Nat \ {0}
      /\ RangesOK /\ SwapParts
  BY DecoderAssumption, SwapInvIsParts
<1>1. CASE CountInput
  BY <1>0, <1>1 DEF CountInput, UpTo
<1>2. CASE CheckOutput
  BY <1>0, <1>2 DEF CheckOutput
<1>3. CASE Claim
  BY <1>0, <1>3 DEF Claim
<1>4. CASE Swap
  <2> DEFINE excl == excluded \cup {current}
  <2>1. /\ Usable(excl) # None => Usable(excl) \in Backends \ excl
        /\ Skipped(excl) \subseteq Backends
    BY UsableBackends
  <2>2. Usable(excl) # None => Usable(excl) \notin Skipped(excl)
    BY SkippedAreNotUsed
  <2>3. excl \subseteq Backends /\ blocking = 0 /\ swapPending
    BY <1>0, <1>4 DEF Swap
  <2>4. CASE Usable(excl) = None
    BY <1>0, <1>4, <2>1, <2>3, <2>4 DEF Swap
  <2>5. CASE Usable(excl) # None
    <3>1. /\ pending' = Usable(excl) /\ excluded' = excl \cup Skipped(excl)
          /\ blocking' = blocking + 1
          /\ UNCHANGED <<exhausted, swapPending, current, inputCount, outputCount,
                         downstream, arrived, outdated>>
          /\ upstream' = "push"
      BY <1>4, <2>5, Zenon DEF Swap
    <3>2. /\ pending' \in Backends /\ pending' # None /\ pending' \notin excluded'
          /\ excluded' \subseteq Backends
      BY <2>1, <2>2, <2>3, <2>5, <3>1
    <3>3. downstream = "wait"
      BY <1>0, <2>3
    <3> QED
      BY <1>0, <2>3, <3>1, <3>2, <3>3
  <2> QED
    BY <2>4, <2>5
<1>5. CASE Push
  BY <1>0, <1>5 DEF Push
<1>6. CASE Forward
  BY <1>0, <1>6 DEF Forward
<1>7. CASE Install
  BY <1>0, <1>7 DEF Install
<1>8. CASE ResetCounts
  <2>1. Checking' => outdated'
    BY <1>8, Zenon DEF ResetCounts
  <2> QED
    BY <1>0, <1>8, <2>1 DEF ResetCounts
<1>9. CASE Release
  BY <1>0, <1>9 DEF Release
<1>10. CASE Decode
  BY <1>0, <1>10 DEF Decode
<1>11. CASE UNCHANGED vars
  BY <1>0, <1>11 DEF vars
<1> QED
  BY <1>1, <1>2, <1>3, <1>4, <1>5, <1>6, <1>7, <1>8, <1>9, <1>10, <1>11
     DEF Next, Upstream, Downstream

(* A claimed swap covers the swap in progress, the probe installs the      *)
(* decoder that waits, and counts are of the current one.                  *)
THEOREM SwapInvariant == Spec => []SwapInv
  BY SwapInvInit, SwapInvStep, PTL DEF Spec

(* The counters, flags and decoders stay in their ranges, and there is at  *)
(* most one blocking probe on the queue.                                   *)
THEOREM TypeCorrect == Spec => []TypeOK
<1>1. SwapInv => TypeOK
  BY DEF SwapInv
<1> QED
  BY <1>1, SwapInvariant, PTL

-----------------------------------------------------------------------------
(* What a step does to the swap in progress.                               *)

(* A step that is not the swap begins none: it may end one.                *)
LEMMA OnlySwapBegins ==
  ASSUME SwapInv, [Next]_vars, ~Swap
  PROVE  /\ blocking' =< blocking
         /\ excluded' = excluded
         /\ pending' = pending \/ Install
<1> USE DEF SwapInv, TypeOK, atomics, swapVars, history
<1>1. CASE Upstream
  BY <1>1 DEF Upstream, CountInput, CheckOutput, Claim, Push
<1>2. CASE Downstream
  BY <1>2 DEF Downstream, Forward, Install, ResetCounts, Release
<1>3. CASE Decode
  BY <1>3 DEF Decode
<1>4. CASE UNCHANGED vars
  BY <1>4 DEF vars
<1> QED
  BY <1>1, <1>2, <1>3, <1>4 DEF Next

(* A decoder created for a swap is installed by it, before another swap    *)
(* begins.                                                                 *)
THEOREM SwapsOneAtATime == Spec => OneSwapAtATime
<1> DEFINE Step == /\ blocking' > blocking => blocking = 0 /\ pending = None
                   /\ pending # None /\ pending' # pending
                        => pending' = None /\ current' = pending
<1>1. ASSUME SwapInv, [Next]_vars PROVE Step
  <2>1. CASE Swap
    BY <1>1, <2>1 DEF Swap, SwapInv, ClaimCoversSwap, ProbeInstallsPending, TypeOK
  <2>2. CASE ~Swap
    <3>1. pending' = pending \/ (pending' = None /\ current' = pending)
      BY <1>1, <2>2, OnlySwapBegins DEF Install
    <3>2. ~(blocking' > blocking)
      BY <1>1, <2>2, SwapInvStep, OnlySwapBegins DEF SwapInv, TypeOK
    <3> QED
      BY <3>1, <3>2
  <2> QED
    BY <2>1, <2>2
<1>2. SwapInv /\ [Next]_vars => [Step]_vars
  BY <1>1
<1> QED
  BY <1>2, SwapInvariant, PTL DEF Spec, OneSwapAtATime

(* A decoder is given up before it was sent CheckThreshold frames only by  *)
(* a check that its installation overtook.                                 *)
THEOREM DeservedSwaps == Spec => SwapsAreDeserved
<1> DEFINE Step == (current \in excluded' \ excluded) =>
                     arrived = CheckThreshold \/ outdated
<1>1. ASSUME SwapInv, [Next]_vars PROVE Step
  <2>1. CASE Swap
    BY <1>1, <2>1 DEF Swap, SwapInv, ClaimCoversSwap, ProbeInstallsPending,
                      CountsAreOfCurrent, Checking
  <2>2. CASE ~Swap
    BY <1>1, <2>2, OnlySwapBegins
  <2> QED
    BY <2>1, <2>2
<1>2. SwapInv /\ [Next]_vars => [Step]_vars
  BY <1>1
<1> QED
  BY <1>2, SwapInvariant, PTL DEF Spec, SwapsAreDeserved

(* A backend that was given up, or could not be created, is not installed  *)
(* again: the search for a working decoder ends after one swap per backend. *)
THEOREM GivenUpForGood ==
  Spec => [][current' # current => current' \notin excluded']_vars
<1> DEFINE Step == current' # current => current' \notin excluded'
<1>1. ASSUME SwapInv, [Next]_vars PROVE Step
  <2> USE DEF SwapInv, TypeOK, atomics, swapVars, history
  <2>1. CASE Install
    BY <1>1, <2>1 DEF Install, ProbeInstallsPending, PendingNotGivenUp
  <2>2. CASE Upstream
    BY <2>2 DEF Upstream, CountInput, CheckOutput, Claim, Swap, Push
  <2>3. CASE Forward \/ ResetCounts \/ Release \/ Decode
    BY <2>3 DEF Forward, ResetCounts, Release, Decode
  <2>4. CASE UNCHANGED vars
    BY <2>4 DEF vars
  <2> QED
    BY <1>1, <2>1, <2>2, <2>3, <2>4 DEF Next, Downstream
<1>2. SwapInv /\ [Next]_vars => [Step]_vars
  BY <1>1
<1> QED
  BY <1>2, SwapInvariant, PTL DEF Spec

-----------------------------------------------------------------------------
(* V4L2 input.                                                             *)

(* What streams is built and plugged in; a value that has reached the      *)
(* device is not contradicted by what the next opening writes.             *)
ReachedInv ==
  /\ opened => plugged /\ phase = "built"
  /\ reached # {} => plugged /\ phase = "built"
  /\ SetControlsStaySet
  /\ \A c \in reached : extra[c] \in Values => extra[c] = param[c]
  /\ call.stage \in {"called", "locked"} => call.control \in declared

(* Until a build has failed, it finds the parameters of no other.          *)
DeclaredInv ==
  /\ phase \in {"idle", "source", "caps"} /\ ~undone => declared = {}
  /\ phase = "declaring" /\ ~undone => declared \cap toDeclare = {}
  /\ DiesOnlyOfLeftovers

(* A callback that has locked the state of an input that is gone was       *)
(* overtaken by the rollback.                                              *)
CallInv == call.stage = "locked" /\ ~callback => call.overlapped

InputInv == InputTypeOK /\ ReachedInv /\ DeclaredInv /\ CallInv

(* A new input has no device and no callback.                              *)
LEMMA InputInvInit == InputInit => InputInv
<1> SUFFICES ASSUME InputInit PROVE InputInv
  OBVIOUS
<1>1. /\ plugged \in BOOLEAN /\ opened \in BOOLEAN /\ callback \in BOOLEAN
      /\ dead \in BOOLEAN /\ undone \in BOOLEAN /\ freedUse \in BOOLEAN
  BY Zenon DEF InputInit
<1>2. ~opened /\ ~callback /\ ~dead
  BY Zenon DEF InputInit
<1> QED
  BY <1>1, <1>2, InputAssumption
     DEF InputInit, InputInv, InputTypeOK, ReachedInv, DeclaredInv, CallInv, Calls,
         NoCall, SetControlsStaySet, DiesOnlyOfLeftovers, Unset, OutOfRange

(* The steps that set a boolean set it to one.                             *)
Booleans == /\ plugged \in BOOLEAN /\ opened \in BOOLEAN /\ callback \in BOOLEAN
            /\ dead \in BOOLEAN /\ undone \in BOOLEAN /\ freedUse \in BOOLEAN

(* The flags stay flags.                                                   *)
LEMMA StepBooleans == Booleans /\ [InputNext]_inputVars => Booleans'
<1> SUFFICES ASSUME Booleans, [InputNext]_inputVars PROVE Booleans'
  OBVIOUS
<1> USE DEF Booleans, given, camera, node, build, past
<1>1. CASE InputNext
  BY <1>1, Zenon
     DEF InputNext, CreateSource, SelectCaps, EnumerateControls, AddCallback,
         FinishBuild, FailBuild, RollBack, Start, Stop, LockState, ApplyControls,
         Unplug, Plug, DeclareParameter, DeclareThrows, SetParameter
<1>2. CASE UNCHANGED inputVars
  BY <1>2, Zenon DEF inputVars
<1> QED
  BY <1>1, <1>2

(* The build.                                                              *)
LEMMA BuildKeeps ==
  ASSUME InputInv, Booleans', ~dead,
         \/ CreateSource \/ SelectCaps \/ EnumerateControls \/ AddCallback
         \/ FinishBuild \/ FailBuild
         \/ \E c \in Controls : DeclareParameter(c) \/ DeclareThrows(c)
  PROVE  InputInv'
<1> USE InputAssumption
    DEF InputInv, InputTypeOK, ReachedInv, DeclaredInv, CallInv, Calls, NoCall,
        SetControlsStaySet, DiesOnlyOfLeftovers, Unset, OutOfRange, Booleans,
        InitialValue
<1>1. CASE CreateSource
  BY <1>1 DEF CreateSource, given, camera, node, past
<1>2. CASE SelectCaps
  BY <1>2 DEF SelectCaps, Written, given, node, past
<1>3. CASE EnumerateControls
  BY <1>3 DEF EnumerateControls, given, camera, node, past
<1>4. CASE AddCallback
  BY <1>4 DEF AddCallback, given, camera, node, past
<1>5. CASE FinishBuild
  BY <1>5 DEF FinishBuild, given, camera, node, past
<1>6. CASE FailBuild
  <2>1. ~callback' /\ (undone \/ declared # {} => undone')
    BY <1>6, Zenon DEF FailBuild, RollBack
  <2>2. /\ phase \in {"source", "caps", "input"} /\ phase' = "idle"
        /\ toDeclare' = {} /\ reached' = {}
        /\ extra' = [c \in Controls |-> Unset]
        /\ UNCHANGED <<attempts, given, camera, node, dead, freedUse>>
    BY <1>6 DEF FailBuild, RollBack
  <2>3. call' = IF call.stage = "locked" THEN [call EXCEPT !.overlapped = TRUE] ELSE call
    BY <1>6 DEF FailBuild, RollBack
  <2>4. call' \in Calls
    BY <2>3
  <2>5. /\ call'.stage = call.stage
        /\ call.stage \in {"called", "locked"} => call'.control = call.control
        /\ call.stage = "locked" => call'.overlapped
    BY <2>3
  <2>6. InputTypeOK'
    BY <2>2, <2>4 DEF given, camera, node
  <2>7. ReachedInv' /\ DeclaredInv'
    BY <2>1, <2>2, <2>5 DEF given, camera, node
  <2>8. CallInv'
    BY <2>5
  <2> QED
    BY <2>6, <2>7, <2>8
<1>7. ASSUME NEW c \in Controls, DeclareParameter(c) PROVE InputInv'
  BY <1>7 DEF DeclareParameter, given, camera, past
<1>8. ASSUME NEW c \in Controls, DeclareThrows(c) PROVE InputInv'
  BY <1>8 DEF DeclareThrows, given, camera, node, build, past
<1> QED
  BY <1>1, <1>2, <1>3, <1>4, <1>5, <1>6, <1>7, <1>8

(* The running pipeline, its parameters and the world.                     *)
LEMMA UseKeeps ==
  ASSUME InputInv, Booleans', ~dead,
         \/ Start \/ Stop \/ LockState \/ ApplyControls \/ Unplug \/ Plug
         \/ \E c \in Controls, v \in Values : SetParameter(c, v)
  PROVE  InputInv'
<1> USE InputAssumption
    DEF InputInv, InputTypeOK, ReachedInv, DeclaredInv, CallInv, Calls, NoCall,
        SetControlsStaySet, DiesOnlyOfLeftovers, Unset, OutOfRange, Booleans
<1>1. CASE Start
  BY <1>1 DEF Start, Written, given, node, build, past
<1>2. CASE Stop
  BY <1>2 DEF Stop, given, node, build, past
<1>3. CASE LockState
  BY <1>3 DEF LockState, given, camera, node, build, past
<1>4. CASE ApplyControls
  BY <1>4 DEF ApplyControls, Written, given, build
<1>5. CASE Unplug
  BY <1>5 DEF Unplug, given, node, build
<1>6. CASE Plug
  BY <1>6 DEF Plug, given, node, build, past
<1>7. ASSUME NEW c \in Controls, NEW v \in Values, SetParameter(c, v) PROVE InputInv'
  <2>1. /\ c \in declared
        /\ UNCHANGED <<declared, given, camera, build, extra, callback, dead, undone,
                       freedUse>>
    BY <1>7 DEF SetParameter
  <2>2. CASE /\ call' = [stage |-> "called", overlapped |-> FALSE, control |-> c,
                         value |-> v]
             /\ UNCHANGED <<param, reached>>
    <3>1. call' \in Calls /\ call'.stage = "called" /\ call'.control = c
      BY <2>2
    <3> QED
      BY <2>1, <2>2, <3>1 DEF given, camera, build
  <2>3. CASE /\ param' = [param EXCEPT ![c] = v] /\ reached' = reached \ {c}
             /\ UNCHANGED call
    BY <2>1, <2>3 DEF given, camera, build
  <2> QED
    BY <1>7, <2>2, <2>3 DEF SetParameter
<1> QED
  BY <1>1, <1>2, <1>3, <1>4, <1>5, <1>6, <1>7

(* Every step keeps the invariant.                                         *)
LEMMA InputInvStep == InputInv /\ [InputNext]_inputVars => InputInv'
<1> SUFFICES ASSUME InputInv, [InputNext]_inputVars PROVE InputInv'
  OBVIOUS
<1>1. Booleans'
  <2>1. Booleans
    BY DEF InputInv, InputTypeOK, Booleans
  <2> QED
    BY <2>1, StepBooleans
<1>2. CASE InputNext
  BY <1>1, <1>2, BuildKeeps, UseKeeps DEF InputNext
<1>3. CASE UNCHANGED inputVars
  BY <1>3 DEF inputVars, given, camera, node, build, past, InputInv, InputTypeOK,
     ReachedInv, DeclaredInv, CallInv, SetControlsStaySet, DiesOnlyOfLeftovers,
     InitialValue
<1> QED
  BY <1>2, <1>3

(* The inductive invariant of the input's parameters.                      *)
THEOREM InputInvariant == InputSpec => []InputInv
  BY InputInvInit, InputInvStep, PTL DEF InputSpec

(* Types.                                                                  *)
THEOREM InputTypes == InputSpec => []InputTypeOK
<1>1. InputInv => InputTypeOK
  BY DEF InputInv
<1> QED
  BY <1>1, InputInvariant, PTL

(* What was set on a streaming device stays set as the parameter shows it. *)
THEOREM ControlsStaySet == InputSpec => []SetControlsStaySet
<1>1. InputInv => SetControlsStaySet
  BY DEF InputInv, ReachedInv
<1> QED
  BY <1>1, InputInvariant, PTL

(* Only what a failed build left declared, or a configured value out of    *)
(* range, ends the process.                                                *)
THEOREM DeathsExplained == InputSpec => []DiesOnlyOfLeftovers
<1>1. InputInv => DiesOnlyOfLeftovers
  BY DEF InputInv, DeclaredInv
<1> QED
  BY <1>1, InputInvariant, PTL

(* Only a rollback in the middle of a callback makes it use a freed        *)
(* source.                                                                 *)
THEOREM FreedUseExplained == InputSpec => FreedOnlyUnderTheCallback
<1>1. ASSUME InputInv, [InputNext]_inputVars, freedUse' # freedUse
      PROVE  call.stage = "locked" /\ call.overlapped
  <2>1. ApplyControls /\ ~callback
    BY <1>1
       DEF InputNext, CreateSource, SelectCaps, EnumerateControls, AddCallback,
           FinishBuild, FailBuild, RollBack, Start, Stop, LockState,
           ApplyControls, Unplug, Plug, DeclareParameter, DeclareThrows,
           SetParameter, inputVars, past
  <2> QED
    BY <1>1, <2>1 DEF ApplyControls, InputInv, CallInv
<1>2. InputInv /\ [InputNext]_inputVars =>
        [freedUse' # freedUse => call.stage = "locked" /\ call.overlapped]_inputVars
  BY <1>1
<1> QED
  BY <1>2, InputInvariant, PTL DEF InputSpec, FreedOnlyUnderTheCallback

=============================================================================
