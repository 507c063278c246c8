------------------------ MODULE PipelineMonitor_proofs ------------------------
(***************************************************************************)
(* Proofs about the PipelineMonitor, for any messages and limits: its      *)
(* types with the bound of the queue, and that no record is dropped or     *)
(* withheld without being counted.                                         *)
(***************************************************************************)
EXTENDS PipelineMonitor, TLAPS

(* Only a key with an entry has a count; an evicted one had none.          *)
NoEntryNoCount == \A k \in Keys : k \notin entries => suppressed[k] = 0

(* The inductive invariant.                                                *)
IInv ==
  /\ TypeOK
  /\ DropsAreCounted
  /\ WithheldAreCounted
  /\ NoEntryNoCount

(* Appending to a queue below its limit, or to the tail of one at it,      *)
(* keeps the limit.                                                        *)
LEMMA EnqueueKeepsLimit ==
  ASSUME NEW limit \in Nat \ {0}, NEW q \in Seq(Messages), Len(q) <= limit,
         NEW m \in Messages
  PROVE  /\ Len(q) >= limit =>
              /\ Append(Tail(q), m) \in Seq(Messages)
              /\ Len(Append(Tail(q), m)) <= limit
         /\ Len(q) < limit =>
              /\ Append(q, m) \in Seq(Messages)
              /\ Len(Append(q, m)) <= limit
OBVIOUS

(* A record is taken from the head of what was drained.                    *)
LEMMA NextRecordEffect ==
  ASSUME TypeOK, NEW key \in Keys, NextRecord(key)
  PROVE  /\ drained' \in Seq(Messages) /\ Len(drained') <= MaxPending
         /\ pending' = pending /\ dropped' = dropped
         /\ unreported' = unreported /\ lost' = lost
  BY MonitorAssumption DEF TypeOK, NextRecord, queueVars

(* Producers only touch the queue and the count of dropped records.        *)
LEMMA EnqueueStep ==
  ASSUME IInv, NEW m \in Messages, Enqueue(m)
  PROVE  IInv'
<1> USE DEF IInv, Enqueue, timerVars
<1>1. pending' \in Seq(Messages) /\ Len(pending') <= MaxPending
  <2>1. CASE Len(pending) >= MaxPending
    BY <2>1, EnqueueKeepsLimit, MonitorAssumption DEF TypeOK
  <2>2. CASE Len(pending) < MaxPending
    BY <2>2, EnqueueKeepsLimit, MonitorAssumption DEF TypeOK
  <2> QED  BY <2>1, <2>2, MonitorAssumption DEF TypeOK
<1>2. dropped' \in Nat /\ lost' \in Nat /\ DropsAreCounted'
  <2>1. /\ \/ dropped' = dropped + 1 /\ lost' = lost + 1
           \/ dropped' = dropped /\ lost' = lost
        /\ unreported' = unreported
    OBVIOUS
  <2>2. dropped \in Nat /\ unreported \in Nat /\ lost = dropped + unreported
    BY DEF TypeOK, DropsAreCounted
  <2> QED  BY <2>1, <2>2 DEF DropsAreCounted
<1>3. TypeOK'
  BY <1>1, <1>2 DEF TypeOK
<1> QED
  BY <1>2, <1>3 DEF WithheldAreCounted, NoEntryNoCount

(* Draining moves the count of dropped records, reporting clears it.       *)
LEMMA DrainStep ==
  ASSUME IInv, Drain \/ ReportDropped
  PROVE  IInv'
<1> USE DEF IInv, historyVars, queueVars
<1>1. CASE Drain
  <2>1. TypeOK'
    BY <1>1, MonitorAssumption DEF Drain, TypeOK
  <2> QED
    BY <1>1, <2>1
       DEF Drain, DropsAreCounted, WithheldAreCounted, NoEntryNoCount, TypeOK
<1>2. CASE ReportDropped
  <2>1. lost - unreported = dropped /\ dropped \in Nat
    BY DEF TypeOK, DropsAreCounted
  <2>2. TypeOK'
    BY <1>2, <2>1, MonitorAssumption DEF ReportDropped, TypeOK
  <2> QED
    BY <1>2, <2>1, <2>2
       DEF ReportDropped, DropsAreCounted, WithheldAreCounted, NoEntryNoCount
<1> QED  BY <1>1, <1>2

(* What becomes of a record is a pair of its key and an outcome.           *)
LEMMA OutcomeTyped ==
  ASSUME NEW key \in Keys, NEW what \in {"ignored", "emitted", "suppressed"}
  PROVE  <<key, what>> \in {Nothing} \cup Keys \X {"ignored", "emitted", "suppressed"}
OBVIOUS

(* Processing a record keeps the counts of every coalescer exact.          *)
LEMMA ProcessStep ==
  ASSUME IInv, NEW key \in Keys,
         Ignore(key) \/ LogNew(key) \/ LogRepeat(key) \/ Suppress(key)
  PROVE  IInv'
<1> USE DEF IInv
<1>1. /\ drained' \in Seq(Messages) /\ Len(drained') <= MaxPending
      /\ pending' = pending /\ dropped' = dropped
      /\ unreported' = unreported /\ lost' = lost
  BY NextRecordEffect DEF Ignore, LogNew, LogRepeat, Suppress
<1>2. DropsAreCounted'
  BY <1>1 DEF DropsAreCounted
<1>3. 0 \in 0 .. Interval /\ suppressed[key] \in Nat /\ withheld[key] \in Nat
  BY MonitorAssumption DEF TypeOK
<1>4. outcome' \in {Nothing} \cup Keys \X {"ignored", "emitted", "suppressed"}
  BY OutcomeTyped DEF Ignore, LogNew, LogRepeat, Suppress
<1> USE <1>1, <1>2, <1>3, <1>4
<1>5. CASE Ignore(key)
  BY <1>5 DEF Ignore, TypeOK, WithheldAreCounted, NoEntryNoCount
<1>6. CASE LogNew(key)
  <2>1. Kept \subseteq entries /\ \A k \in entries \ Kept : suppressed[k] = 0
    BY DEF Kept, TypeOK
  <2>2. \A k \in Keys : suppressed'[k] = suppressed[k]
    BY <1>6, <2>1 DEF LogNew, NoEntryNoCount
  <2>3. TypeOK'
    <3>1. /\ suppressed' \in [Keys -> Nat]
          /\ loggedAgo' \in [Keys -> 0 .. Interval]
      BY <1>6 DEF LogNew, TypeOK
    <3>2. entries' \subseteq Keys /\ withheld' = withheld
      BY <1>6, <2>1 DEF LogNew, TypeOK
    <3> QED  BY <3>1, <3>2 DEF TypeOK
  <2>4. WithheldAreCounted'
    BY <1>6, <2>2 DEF LogNew, WithheldAreCounted
  <2>5. NoEntryNoCount'
    BY <1>6, <2>1, <2>2 DEF LogNew, NoEntryNoCount
  <2> QED  BY <2>3, <2>4, <2>5
<1>7. CASE LogRepeat(key)
  <2>1. withheld[key] - suppressed[key] = 0
    BY DEF WithheldAreCounted
  <2> QED
    BY <1>7, <2>1 DEF LogRepeat, TypeOK, WithheldAreCounted, NoEntryNoCount
<1>8. CASE Suppress(key)
  <2>1. OneMore(suppressed[key]) \in Nat
    BY MonitorAssumption DEF OneMore
  <2>2. suppressed[key] = withheld[key]
    BY DEF WithheldAreCounted
  <2> QED
    BY <1>8, <2>1, <2>2 DEF Suppress, TypeOK, WithheldAreCounted, NoEntryNoCount
<1> QED  BY <1>5, <1>6, <1>7, <1>8

(* Time only ages the entries.                                             *)
LEMMA ElapseStep ==
  ASSUME IInv, Elapse
  PROVE  IInv'
<1> USE DEF IInv, Elapse, queueVars
<1>1. loggedAgo' \in [Keys -> 0 .. Interval]
  BY MonitorAssumption DEF TypeOK
<1>2. TypeOK'
  BY <1>1 DEF TypeOK
<1> QED  BY <1>2 DEF DropsAreCounted, WithheldAreCounted, NoEntryNoCount

(* A new monitor has nothing queued, counted or withheld.                  *)
LEMMA InitInv == Init => IInv
  BY MonitorAssumption
     DEF Init, IInv, TypeOK, DropsAreCounted, WithheldAreCounted, NoEntryNoCount

(* Every step of the monitor preserves the invariant.                      *)
LEMMA NextInv == IInv /\ [Next]_vars => IInv'
<1> SUFFICES ASSUME IInv, [Next]_vars PROVE IInv'
  OBVIOUS
<1>1. ASSUME NEW m \in Messages, Enqueue(m) PROVE IInv'
  BY <1>1, EnqueueStep
<1>2. CASE Timer
  BY <1>2, DrainStep, ProcessStep DEF Timer
<1>3. CASE Elapse
  BY <1>3, ElapseStep
<1>4. CASE UNCHANGED vars
  BY <1>4 DEF vars, queueVars, timerVars, historyVars, IInv, TypeOK,
              DropsAreCounted, WithheldAreCounted, NoEntryNoCount
<1> QED  BY <1>1, <1>2, <1>3, <1>4 DEF Next

(* The inductive invariant holds in every reachable state.                 *)
THEOREM MonitorInvariant == Spec => []IInv
  BY InitInv, NextInv, PTL DEF Spec

(* The monitor's variables keep their types; the queue keeps its limit.    *)
THEOREM TypeCorrect == Spec => []TypeOK
<1>1. IInv => TypeOK
  BY DEF IInv
<1> QED  BY <1>1, MonitorInvariant, PTL

(* No dropped record is missing from the warnings about dropped records.   *)
THEOREM DropsCounted == Spec => []DropsAreCounted
<1>1. IInv => DropsAreCounted
  BY DEF IInv
<1> QED  BY <1>1, MonitorInvariant, PTL

(* No coalescer loses count of the records it withheld, whatever entries   *)
(* are evicted.                                                            *)
THEOREM WithheldCounted == Spec => []WithheldAreCounted
<1>1. IInv => WithheldAreCounted
  BY DEF IInv
<1> QED  BY <1>1, MonitorInvariant, PTL

=============================================================================
