--------------------------- MODULE PipelineMonitor ---------------------------
(***************************************************************************)
(* The PipelineMonitor: GStreamer's threads enqueue diagnostic records     *)
(* into a bounded queue under a lock; the timer thread drains the queue    *)
(* and then, without the lock, filters, coalesces and emits the records    *)
(* one by one, while more of them come in.                                 *)
(***************************************************************************)
EXTENDS Integers, Sequences, FiniteSets

CONSTANTS
  Messages,    \* what can be reported: source, level, camera, category, text
  Replays,     \* the debug-log copies of messages posted on the bus
  MaxPending,  \* MAX_PENDING_RECORDS (256)
  MaxEntries,  \* MAX_COALESCED_ENTRIES (128)
  Interval,    \* REPEAT_LOG_INTERVAL in seconds (10)
  MaxCount     \* bound: producers pause at this many drops, and higher counts
               \* of suppressed records are not told apart

ASSUME MonitorAssumption ==
  /\ Replays \subseteq Messages
  /\ MaxPending \in Nat \ {0}
  /\ MaxEntries \in Nat
  /\ Interval \in Nat
  /\ MaxCount \in Nat

VARIABLES
  pending,     \* pending_
  dropped,     \* dropped_
  drained,     \* records of the running processLogMessages still to process
  unreported,  \* dropped_records of the running processLogMessages
  entries,     \* keys of coalesced_logs_
  suppressed,  \* suppressed of each entry, 0 for a key without one
  loggedAgo,   \* seconds since last_logged of each entry, up to Interval
  lost,        \* records dropped and not reported as such (history)
  withheld,    \* records of each key neither emitted nor reported (history)
  outcome      \* key of the last record processed in this second, and what
               \* became of it (history)

queueVars   == <<pending, dropped>>
timerVars   == <<drained, unreported, entries, suppressed, loggedAgo>>
historyVars == <<lost, withheld, outcome>>
vars == <<queueVars, timerVars, historyVars>>

(* A record's key: its message, and whether the context of the object it   *)
(* is about could be resolved when it was processed.                       *)
Keys == Messages \X BOOLEAN

Nothing == <<>>

TypeOK ==
  /\ pending \in Seq(Messages) /\ Len(pending) <= MaxPending
  /\ drained \in Seq(Messages) /\ Len(drained) <= MaxPending
  /\ dropped \in Nat
  /\ unreported \in Nat
  /\ entries \subseteq Keys
  /\ suppressed \in [Keys -> Nat]
  /\ loggedAgo \in [Keys -> 0 .. Interval]
  /\ lost \in Nat
  /\ withheld \in [Keys -> Nat]
  /\ outcome \in {Nothing} \cup Keys \X {"ignored", "emitted", "suppressed"}

Init ==
  /\ pending = <<>>
  /\ dropped = 0
  /\ drained = <<>>
  /\ unreported = 0
  /\ entries = {}
  /\ suppressed = [k \in Keys |-> 0]
  /\ loggedAgo = [k \in Keys |-> 0]
  /\ lost = 0
  /\ withheld = [k \in Keys |-> 0]
  /\ outcome = Nothing

-----------------------------------------------------------------------------
(* GStreamer's threads.                                                    *)

(* enqueue: a full queue forgets its oldest record.                        *)
Enqueue(m) ==
  /\ dropped < MaxCount
  /\ IF Len(pending) >= MaxPending
     THEN /\ pending' = Append(Tail(pending), m)
          /\ dropped' = dropped + 1
          /\ lost' = lost + 1
     ELSE /\ pending' = Append(pending, m)
          /\ UNCHANGED <<dropped, lost>>
  /\ UNCHANGED <<timerVars, withheld, outcome>>

-----------------------------------------------------------------------------
(* The timer thread: processLogMessages.                                   *)

(* The part under the lock.                                                *)
Drain ==
  /\ drained = <<>> /\ unreported = 0
  /\ pending # <<>>
  /\ drained' = pending
  /\ pending' = <<>>
  /\ unreported' = dropped
  /\ dropped' = 0
  /\ UNCHANGED <<entries, suppressed, loggedAgo, historyVars>>

(* Plausible slip: the counter is reset when it has been reported.         *)
ReportThenReset ==
  /\ unreported > 0
  /\ lost' = lost - unreported
  /\ unreported' = 0
  /\ dropped' = 0
  /\ UNCHANGED <<pending, drained, entries, suppressed, loggedAgo, withheld,
                 outcome>>

ReportDropped ==
  /\ unreported > 0
  /\ lost' = lost - unreported
  /\ unreported' = 0
  /\ UNCHANGED <<queueVars, drained, entries, suppressed, loggedAgo, withheld,
                 outcome>>

(* The record at the head is processed; its object may be gone by now.     *)
NextRecord(key) ==
  /\ unreported = 0
  /\ drained # <<>>
  /\ key[1] = Head(drained)
  /\ drained' = Tail(drained)
  /\ UNCHANGED <<queueVars, unreported, lost>>

(* shouldDropDebugRecord. One of ignored_gstreamer_logs is dropped whatever *)
(* its object: a replay here whose context is resolved each time.          *)
Ignored(key) == key[1] \in Replays /\ key[2]

Ignore(key) ==
  /\ NextRecord(key)
  /\ Ignored(key)
  /\ outcome' = <<key, "ignored">>
  /\ UNCHANGED <<entries, suppressed, loggedAgo, withheld>>

(* Plausible slip: a full map is cleared.                                  *)
EvictAll == IF Cardinality(entries) >= MaxEntries THEN {} ELSE entries

(* The entries that stay when a new one needs room.                        *)
Kept == IF Cardinality(entries) >= MaxEntries
        THEN {k \in entries : suppressed[k] > 0}
        ELSE entries

(* shouldLogRecord for a key without an entry.                             *)
LogNew(key) ==
  /\ NextRecord(key)
  /\ ~Ignored(key)
  /\ key \notin entries
  /\ entries' = Kept \cup {key}
  /\ suppressed' = [k \in Keys |-> IF k \in Kept THEN suppressed[k] ELSE 0]
  /\ loggedAgo' = [k \in Keys |-> IF k \in Kept THEN loggedAgo[k] ELSE 0]
  /\ outcome' = <<key, "emitted">>
  /\ UNCHANGED withheld

(* A repetition after the interval is emitted, with the suppressed count.  *)
LogRepeat(key) ==
  /\ NextRecord(key)
  /\ ~Ignored(key)
  /\ key \in entries /\ loggedAgo[key] >= Interval
  /\ suppressed' = [suppressed EXCEPT ![key] = 0]
  /\ loggedAgo' = [loggedAgo EXCEPT ![key] = 0]
  /\ outcome' = <<key, "emitted">>
  /\ withheld' = [withheld EXCEPT ![key] = @ - suppressed[key]]
  /\ UNCHANGED entries

OneMore(count) == IF count < MaxCount THEN count + 1 ELSE count

(* Plausible slip: last_logged is set for every repetition.                *)
SuppressSliding(key) ==
  /\ NextRecord(key)
  /\ ~Ignored(key)
  /\ key \in entries /\ loggedAgo[key] < Interval
  /\ suppressed' = [suppressed EXCEPT ![key] = OneMore(@)]
  /\ loggedAgo' = [loggedAgo EXCEPT ![key] = 0]
  /\ outcome' = <<key, "suppressed">>
  /\ withheld' = [withheld EXCEPT ![key] = OneMore(@)]
  /\ UNCHANGED entries

Suppress(key) ==
  /\ NextRecord(key)
  /\ ~Ignored(key)
  /\ key \in entries /\ loggedAgo[key] < Interval
  /\ suppressed' = [suppressed EXCEPT ![key] = OneMore(@)]
  /\ outcome' = <<key, "suppressed">>
  /\ withheld' = [withheld EXCEPT ![key] = OneMore(@)]
  /\ UNCHANGED <<entries, loggedAgo>>

Timer ==
  \/ Drain \/ ReportDropped
  \/ \E key \in Keys : \/ Ignore(key) \/ LogNew(key)
                       \/ LogRepeat(key) \/ Suppress(key)

-----------------------------------------------------------------------------

Elapse ==
  /\ drained = <<>>
  /\ loggedAgo' = [k \in Keys |-> IF k \in entries /\ loggedAgo[k] < Interval
                                  THEN loggedAgo[k] + 1 ELSE loggedAgo[k]]
  /\ outcome' = Nothing
  /\ UNCHANGED <<queueVars, drained, unreported, entries, suppressed, lost,
                 withheld>>

Next == (\E m \in Messages : Enqueue(m)) \/ Timer \/ Elapse

(* The timer keeps draining, and time passes.                              *)
Fairness == WF_vars(Timer) /\ SF_vars(Elapse)

Spec     == Init /\ [][Next]_vars
FairSpec == Spec /\ Fairness

-----------------------------------------------------------------------------
(* Properties.                                                             *)

(* Every record the full queue forgot is, or will be, counted in exactly   *)
(* one warning, although records are dropped while one is being written.   *)
DropsAreCounted == lost = dropped + unreported

(* The number of records withheld from the log is known to the coalescer   *)
(* of their key, through any eviction: none is withheld unnoticed.         *)
WithheldAreCounted == \A k \in Keys : withheld[k] = suppressed[k]

(* A message that keeps being processed keeps appearing in the log.        *)
RecurringAreEmitted ==
  \A k \in Keys :
    []<>(outcome \in {<<k, "emitted">>, <<k, "suppressed">>})
      => []<>(outcome = <<k, "emitted">>)

=============================================================================
