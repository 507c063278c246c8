------------------------ MODULE FlowController_proofs ------------------------
(***************************************************************************)
(* Proofs about FlowController, for any number of outputs, any nesting of  *)
(* valves and any grace period: outputs with clients are not paused, and   *)
(* the grace period is kept.                                               *)
(***************************************************************************)
EXTENDS FlowController, TLAPS

(* Served and witnessed outputs still have clients.                        *)
HistoryIsActive == served \cup witnessed \subseteq Active

(* What the running update has done for the outputs witnessed throughout:  *)
(* their branches it has passed are open with no grace timer running, and  *)
(* it has not skipped one of them, nor a served one, in this branch.       *)
PassedBranchesOpen ==
  branch # 0 =>
    \A b \in 1 .. branch - 1 : \A o \in witnessed :
      o \in Behind(b) => valveOpen[b] /\ inactiveFor[b] = Unset

SkippedAreIdle ==
  branch # 0 =>
    \A i \in 1 .. next - 1 : Valves[branch][i] \notin served \cup witnessed

(* A grace timer started after the outputs behind the valve were served.   *)
TimersAreYounger ==
  \A b \in Branches : \A o \in Behind(b) : inactiveFor[b] <= sinceServed[o]

(* The inductive invariant.                                                *)
IInv ==
  /\ TypeOK
  /\ HistoryIsActive
  /\ ServedOutputsFlow
  /\ PassedBranchesOpen
  /\ SkippedAreIdle
  /\ TimersAreYounger

-----------------------------------------------------------------------------

(* The outputs behind a valve are outputs, and valves are numbered.        *)
LEMMA ValveFacts ==
  /\ Len(Valves) \in Nat
  /\ \A b \in Branches :
       /\ Len(Valves[b]) \in Nat
       /\ Behind(b) \subseteq Outputs
       /\ \A i \in 1 .. Len(Valves[b]) : Valves[b][i] \in Outputs
  BY ValvesAssumption DEF Branches, Behind

(* How a branch is left: its valve and timer are set, and what served and  *)
(* witnessed outputs need of them holds.                                   *)
LEMMA BranchLeft ==
  ASSUME IInv, branch # 0, NextBranch,
         NEW open \in BOOLEAN, NEW age \in {Unset} \cup 0 .. Grace,
         valveOpen' = [valveOpen EXCEPT ![branch] = open],
         inactiveFor' = [inactiveFor EXCEPT ![branch] = age],
         UNCHANGED <<connected, sinceUpdate, witnessed>>,
         \A o \in Behind(branch) \cap (served \cup witnessed) :
           open /\ age = Unset,
         \A o \in Behind(branch) : age <= sinceServed[o]
  PROVE  IInv'
<1> USE DEF IInv
<1>1. /\ branch \in Branches
      /\ \A b \in Branches : Behind(b) \subseteq Outputs
      /\ Len(Valves) \in Nat
  BY ValveFacts DEF TypeOK, Branches
<1>2. /\ valveOpen'[branch] = open
      /\ inactiveFor'[branch] = age
      /\ \A b \in Branches \ {branch} :
           valveOpen'[b] = valveOpen[b] /\ inactiveFor'[b] = inactiveFor[b]
      /\ valveOpen' \in [Branches -> BOOLEAN]
      /\ inactiveFor' \in [Branches -> {Unset} \cup 0 .. Grace]
  BY <1>1 DEF TypeOK
<1>3. /\ next' = 1
      /\ \/ /\ branch < Len(Valves) /\ branch' = branch + 1
            /\ served' = served /\ sinceServed' = sinceServed
         \/ /\ branch = Len(Valves) /\ branch' = 0
            /\ served' = served \cup witnessed
            /\ sinceServed' = [o \in Outputs |->
                                 IF o \in witnessed THEN 0 ELSE sinceServed[o]]
  BY <1>1 DEF NextBranch, Branches
<1>4. \A b \in 1 .. branch : \A o \in witnessed :
        o \in Behind(b) => valveOpen'[b] /\ inactiveFor'[b] = Unset
  <2> SUFFICES ASSUME NEW b \in 1 .. branch, NEW o \in witnessed, o \in Behind(b)
               PROVE  valveOpen'[b] /\ inactiveFor'[b] = Unset
    OBVIOUS
  <2>1. CASE b = branch
    BY <1>2, <2>1
  <2>2. CASE b # branch
    BY <1>1, <1>2, <2>2 DEF PassedBranchesOpen, Branches
  <2> QED  BY <2>1, <2>2
<1>5. TypeOK'
  <2>1. branch' \in 0 .. Len(Valves)
    BY <1>1, <1>3 DEF Branches
  <2>2. branch' # 0 => next' <= Len(Valves[branch']) + 1
    BY <1>3, <2>1, ValveFacts DEF Branches
  <2>3. served' \subseteq Outputs /\ sinceServed' \in [Outputs -> 0 .. Grace]
    BY <1>3, ValvesAssumption DEF TypeOK
  <2> QED  BY <1>2, <1>3, <2>1, <2>2, <2>3 DEF TypeOK
<1>6. HistoryIsActive'
  BY <1>3 DEF HistoryIsActive, Active
<1>7. ServedOutputsFlow'
  <2> SUFFICES ASSUME NEW o \in served', NEW b \in Branches, o \in Behind(b)
               PROVE  valveOpen'[b]
    BY DEF ServedOutputsFlow, Flowing
  <2>1. CASE o \in served
    BY <1>2, <2>1 DEF ServedOutputsFlow, Flowing
  <2>2. CASE o \in witnessed /\ branch = Len(Valves)
    BY <1>4, <2>2 DEF Branches
  <2> QED  BY <1>3, <2>1, <2>2
<1>8. PassedBranchesOpen'
  BY <1>1, <1>3, <1>4 DEF PassedBranchesOpen, Branches
<1>9. SkippedAreIdle'
  BY <1>3 DEF SkippedAreIdle
<1>10. TimersAreYounger'
  <2> SUFFICES ASSUME NEW b \in Branches, NEW o \in Behind(b)
               PROVE  inactiveFor'[b] <= sinceServed'[o]
    BY DEF TimersAreYounger
  <2>1. inactiveFor'[b] <= sinceServed[o]
    BY <1>2 DEF TimersAreYounger
  <2>2. CASE sinceServed' = sinceServed
    BY <2>1, <2>2
  <2>3. CASE /\ branch = Len(Valves)
             /\ sinceServed' = [q \in Outputs |->
                                  IF q \in witnessed THEN 0 ELSE sinceServed[q]]
    <3>1. CASE o \in witnessed
      <4>1. inactiveFor'[b] = Unset
        BY <1>4, <2>3, <3>1 DEF Branches
      <4> QED  BY <1>1, <2>3, <3>1, <4>1 DEF Unset
    <3>2. CASE o \notin witnessed
      BY <1>1, <2>1, <2>3, <3>2
    <3> QED  BY <3>1, <3>2
  <2> QED  BY <1>3, <2>2, <2>3
<1> QED  BY <1>5, <1>6, <1>7, <1>8, <1>9, <1>10

(* An update begins with the outputs that are active.                      *)
LEMMA BeginUpdateStep ==
  ASSUME IInv, BeginUpdate
  PROVE  IInv'
<1> USE DEF IInv, BeginUpdate
<1>1. TypeOK'
  <2>1. Len(Valves) \in Nat /\ 1 \in Branches
    BY ValveFacts DEF Branches
  <2>2. 1 <= Len(Valves[1]) + 1
    BY <2>1, ValveFacts
  <2>3. witnessed' \subseteq Outputs
    BY ValvesAssumption DEF TypeOK, Active
  <2> QED  BY <2>1, <2>2, <2>3, ValvesAssumption DEF TypeOK, Branches
<1>2. HistoryIsActive' /\ ServedOutputsFlow' /\ TimersAreYounger'
  BY DEF HistoryIsActive, Active, ServedOutputsFlow, Flowing, TimersAreYounger
<1>3. PassedBranchesOpen' /\ SkippedAreIdle'
  BY DEF PassedBranchesOpen, SkippedAreIdle
<1> QED  BY <1>1, <1>2, <1>3

(* An output that is skipped is neither served nor witnessed.              *)
LEMMA SkipIdleOutputStep ==
  ASSUME IInv, SkipIdleOutput
  PROVE  IInv'
<1> USE DEF IInv, SkipIdleOutput, historyVars
<1>1. branch \in Branches /\ Len(Valves[branch]) \in Nat
  BY ValveFacts DEF TypeOK, Branches
<1>2. TypeOK'
  BY <1>1 DEF TypeOK
<1>3. /\ HistoryIsActive' /\ ServedOutputsFlow' /\ TimersAreYounger'
      /\ PassedBranchesOpen'
  BY DEF HistoryIsActive, Active, ServedOutputsFlow, Flowing, TimersAreYounger,
         PassedBranchesOpen
<1>4. SkippedAreIdle'
  <2>1. Valves[branch][next] \notin served \cup witnessed
    BY DEF HistoryIsActive
  <2> QED  BY <2>1 DEF SkippedAreIdle, TypeOK
<1> QED  BY <1>2, <1>3, <1>4

(* A branch that was looked at to its end has no served or witnessed       *)
(* output behind it.                                                       *)
LEMMA IdleBranchIsUnused ==
  ASSUME IInv, IdleBranch
  PROVE  Behind(branch) \cap (served \cup witnessed) = {}
<1>1. branch \in Branches /\ Len(Valves[branch]) \in Nat /\ next \in Nat
  BY ValveFacts DEF IInv, TypeOK, IdleBranch, Branches
<1>2. \A i \in 1 .. Len(Valves[branch]) : i \in 1 .. next - 1
  BY <1>1 DEF IdleBranch
<1> QED  BY <1>2 DEF IInv, SkippedAreIdle, Behind, IdleBranch

(* The age the grace timer of an idle branch has after the update.         *)
LEMMA IdleAge ==
  ASSUME IInv, branch # 0,
         NEW age, age = IF inactiveFor[branch] = Unset THEN 0
                                                       ELSE inactiveFor[branch]
  PROVE  /\ age \in 0 .. Grace
         /\ \A o \in Behind(branch) : age <= sinceServed[o]
<1>1. /\ branch \in Branches /\ Behind(branch) \subseteq Outputs
      /\ inactiveFor[branch] \in {Unset} \cup 0 .. Grace
  BY ValveFacts DEF IInv, TypeOK, Branches
<1>2. \A o \in Behind(branch) : sinceServed[o] \in 0 .. Grace
  BY <1>1 DEF IInv, TypeOK
<1> QED
  BY <1>1, <1>2, ValvesAssumption DEF IInv, TimersAreYounger, Unset

(* Every step preserves the invariant.                                     *)
LEMMA NextInv == IInv /\ [Next]_vars => IInv'
<1> SUFFICES ASSUME IInv, [Next]_vars PROVE IInv'
  OBVIOUS
<1>1. CASE BeginUpdate
  BY <1>1, BeginUpdateStep
<1>2. CASE SkipIdleOutput
  BY <1>2, SkipIdleOutputStep
<1>3. CASE ActiveBranch
  <2>1. \A o \in Behind(branch) : Unset <= sinceServed[o]
    BY <1>3, ValveFacts
       DEF IInv, TypeOK, ActiveBranch, Branches, Unset
  <2>2. /\ branch # 0 /\ NextBranch
        /\ valveOpen' = [valveOpen EXCEPT ![branch] = TRUE]
        /\ inactiveFor' = [inactiveFor EXCEPT ![branch] = Unset]
        /\ UNCHANGED <<connected, sinceUpdate, witnessed>>
    BY <1>3 DEF ActiveBranch
  <2> QED  BY <2>1, <2>2, BranchLeft
<1>4. CASE IdleBranch
  <2> DEFINE age == IF inactiveFor[branch] = Unset THEN 0 ELSE inactiveFor[branch]
             open == valveOpen[branch] /\ age < Grace
  <2>1. branch # 0 /\ branch \in Branches
    BY <1>4 DEF IdleBranch, IInv, TypeOK, Branches
  <2>2. /\ NextBranch
        /\ inactiveFor' = [inactiveFor EXCEPT ![branch] = age]
        /\ UNCHANGED <<connected, sinceUpdate, witnessed>>
    BY <1>4 DEF IdleBranch
  <2>3. inactiveFor'[branch] = age
    BY <2>1, <2>2 DEF IInv, TypeOK
  <2>4. valveOpen' = [valveOpen EXCEPT ![branch] = open]
    BY <1>4, <2>3 DEF IdleBranch
  <2>5. age \in 0 .. Grace /\ \A o \in Behind(branch) : age <= sinceServed[o]
    BY <2>1, IdleAge
  <2>6. open \in BOOLEAN
    BY Zenon
  <2>7. Behind(branch) \cap (served \cup witnessed) = {}
    BY <1>4, IdleBranchIsUnused
  <2> HIDE DEF age, open
  <2> QED  BY <2>1, <2>2, <2>4, <2>5, <2>6, <2>7, BranchLeft
<1>5. ASSUME NEW o \in Outputs, FirstConnects(o) \/ LastLeaves(o)
      PROVE  IInv'
  <2>1. /\ UNCHANGED <<valveOpen, inactiveFor, branch, next, sinceUpdate,
                       sinceServed>>
        /\ served' \subseteq served /\ witnessed' \subseteq witnessed
    BY <1>5 DEF FirstConnects, LastLeaves, codeVars, historyVars
  <2>2. TypeOK'
    BY <1>5, <2>1 DEF IInv, TypeOK, FirstConnects, LastLeaves
  <2>3. HistoryIsActive'
    BY <1>5 DEF IInv, HistoryIsActive, Active, TypeOK, FirstConnects, LastLeaves,
                historyVars
  <2>4. /\ ServedOutputsFlow' /\ PassedBranchesOpen' /\ SkippedAreIdle'
        /\ TimersAreYounger'
    BY <2>1 DEF IInv, ServedOutputsFlow, Flowing, PassedBranchesOpen,
                SkippedAreIdle, TimersAreYounger
  <2> QED  BY <2>2, <2>3, <2>4 DEF IInv
<1>6. CASE Elapse
  <2>1. /\ UNCHANGED <<connected, valveOpen, branch, next, witnessed, served>>
        /\ branch = 0
        /\ inactiveFor' = [b \in Branches |-> Older(inactiveFor[b])]
        /\ sinceServed' = [o \in Outputs |-> Older(sinceServed[o])]
    BY <1>6 DEF Elapse
  <2>2. TypeOK'
    BY <1>6, ValvesAssumption DEF IInv, TypeOK, Elapse, Older, Unset
  <2>3. /\ HistoryIsActive' /\ ServedOutputsFlow' /\ PassedBranchesOpen'
        /\ SkippedAreIdle'
    BY <2>1 DEF IInv, HistoryIsActive, Active, ServedOutputsFlow, Flowing,
                PassedBranchesOpen, SkippedAreIdle
  <2>4. TimersAreYounger'
    <3> SUFFICES ASSUME NEW b \in Branches, NEW o \in Behind(b)
                 PROVE  inactiveFor'[b] <= sinceServed'[o]
      BY DEF TimersAreYounger
    <3>1. o \in Outputs /\ inactiveFor[b] <= sinceServed[o]
      BY ValveFacts DEF IInv, TimersAreYounger
    <3>2. /\ inactiveFor'[b] = Older(inactiveFor[b])
          /\ sinceServed'[o] = Older(sinceServed[o])
          /\ inactiveFor[b] \in {Unset} \cup 0 .. Grace
          /\ sinceServed[o] \in 0 .. Grace
      BY <2>1, <3>1 DEF IInv, TypeOK
    <3> QED  BY <3>1, <3>2, ValvesAssumption DEF Older, Unset
  <2> QED  BY <2>2, <2>3, <2>4 DEF IInv
<1>7. CASE UNCHANGED vars
  BY <1>7 DEF vars, codeVars, historyVars, IInv, TypeOK, HistoryIsActive, Active,
              ServedOutputsFlow, Flowing, PassedBranchesOpen, SkippedAreIdle,
              TimersAreYounger
<1> QED
  BY <1>1, <1>2, <1>3, <1>4, <1>5, <1>6, <1>7 DEF Next, Update

(* A freshly built pipeline satisfies the invariant.                       *)
LEMMA InitInv == Init => IInv
<1> SUFFICES ASSUME Init PROVE IInv
  OBVIOUS
<1> USE DEF Init
<1>1. TypeOK
  BY ValvesAssumption, ValveFacts DEF TypeOK, Unset
<1>2. /\ HistoryIsActive /\ ServedOutputsFlow /\ PassedBranchesOpen
      /\ SkippedAreIdle
  BY DEF HistoryIsActive, ServedOutputsFlow, PassedBranchesOpen, SkippedAreIdle
<1>3. TimersAreYounger
  <2> SUFFICES ASSUME NEW b \in Branches, NEW o \in Behind(b)
               PROVE  inactiveFor[b] <= sinceServed[o]
    BY DEF TimersAreYounger
  <2>1. o \in Outputs
    BY ValveFacts
  <2>2. inactiveFor[b] = -1 /\ sinceServed[o] = 0
    BY <2>1 DEF Unset
  <2> QED  BY <2>2
<1> QED  BY <1>1, <1>2, <1>3 DEF IInv

(* The variables of the flow controller keep their types.                  *)
THEOREM TypeCorrect == Spec => []TypeOK
<1>1. IInv => TypeOK
  BY DEF IInv
<1> QED  BY <1>1, InitInv, NextInv, PTL DEF Spec

(* An output with clients since before a whole update is never paused,     *)
(* however its valves are nested and whatever changes between two reads.   *)
THEOREM ServedFlow == Spec => []ServedOutputsFlow
<1>1. IInv => ServedOutputsFlow
  BY DEF IInv
<1> QED  BY <1>1, InitInv, NextInv, PTL DEF Spec

(* A valve closes only when the outputs behind it went unserved for the    *)
(* whole grace period.                                                     *)
THEOREM GraceKept == Spec => GraceBeforeClosing
<1> DEFINE Closing ==
      \A b \in Branches :
        valveOpen[b] /\ ~valveOpen'[b] =>
          \A o \in Behind(b) : sinceServed[o] >= Grace
<1>1. IInv /\ [Next]_vars => [Closing]_vars
  <2> SUFFICES ASSUME IInv, Next, NEW b \in Branches,
                      valveOpen[b], ~valveOpen'[b], NEW o \in Behind(b)
               PROVE  sinceServed[o] >= Grace
    OBVIOUS
  <2>1. CASE IdleBranch
    <3> DEFINE age == IF inactiveFor[branch] = Unset THEN 0
                                                     ELSE inactiveFor[branch]
    <3>1. branch # 0 /\ branch \in Branches
      BY <2>1 DEF IdleBranch, IInv, TypeOK, Branches
    <3>2. inactiveFor'[branch] = age
      BY <2>1, <3>1 DEF IdleBranch, IInv, TypeOK
    <3>3. age \in 0 .. Grace /\ \A q \in Behind(branch) : age <= sinceServed[q]
      BY <3>1, IdleAge
    <3>4. b = branch
      BY <2>1 DEF IdleBranch, IInv, TypeOK
    <3>5. ~(age < Grace)
      BY <2>1, <3>1, <3>2, <3>4 DEF IdleBranch, IInv, TypeOK
    <3>6. sinceServed[o] \in 0 .. Grace
      BY ValveFacts DEF IInv, TypeOK
    <3> HIDE DEF age
    <3> QED  BY <3>3, <3>4, <3>5, <3>6, ValvesAssumption
  <2>2. CASE ActiveBranch
    <3>1. valveOpen' = [valveOpen EXCEPT ![branch] = TRUE]
      BY <2>2 DEF ActiveBranch
    <3> QED  BY <3>1 DEF IInv, TypeOK
  <2>3. CASE UNCHANGED valveOpen
    BY <2>3
  <2> QED
    BY <2>1, <2>2, <2>3 DEF Next, Update, BeginUpdate, SkipIdleOutput,
       FirstConnects, LastLeaves, Elapse, codeVars
<1> QED  BY <1>1, InitInv, NextInv, PTL DEF Spec, GraceBeforeClosing

=============================================================================
