----------------------------- MODULE SmartDecoder -----------------------------
(***************************************************************************)
(* The bin of createSmartVideoDecoder: queue -> decoder -> convert. The    *)
(* upstream thread counts the frames that enter and, if none has come out  *)
(* after CheckThreshold of them, asks for the next decoder backend; the    *)
(* queue's thread swaps the decoder when its next frame reaches the probe  *)
(* that blocks the queue. The two share four atomics and no lock.          *)
(***************************************************************************)
EXTENDS CodecSelection

CONSTANTS
  Codec,          \* the codec whose decoder descriptor is used
  Preference,     \* the tokens of the configured decoder preference
  Installed,      \* decoder factories gst_element_factory_find finds
  Creatable,      \* those of them that make an element
  Working,        \* backends that decode what is sent to them
  CheckThreshold  \* frames without output before a swap (20)

Backends == Names(Decoders[Codec])
Desired  == codecFromString(Decoders[Codec], Preference)

(* The backend to try next, and those that are tried in vain before it.    *)
Usable(excl)  == codecSelect(Decoders[Codec], Desired, excl, Creatable)
Skipped(excl) == TriedInVain(Decoders[Codec], Desired, excl, Installed, Creatable)

ASSUME DecoderAssumption ==
  /\ Codec \in DOMAIN Decoders
  /\ Creatable \subseteq Installed
  /\ CheckThreshold \in Nat \ {0}

VARIABLES
  current,      \* decoder
  pending,      \* pending_decoder
  excluded,     \* excluded_flags
  inputCount,   \* input_count, up to CheckThreshold
  outputCount,  \* output_count, up to 1
  swapPending,  \* swap_pending
  exhausted,    \* exhausted
  upstream,     \* what the upstream thread does next with its frame
  downstream,   \* what the queue's thread does next
  blocking,     \* number of blocking probes on the queue's source pad
  queued,       \* a frame is in the (leaky, one frame) queue
  decoding,     \* the current decoder was sent a frame it has not answered
  arrived,      \* frames that came in since the current decoder was installed,
                \* up to CheckThreshold (history)
  outdated      \* the check upstream is in counted its frame before the counts
                \* were last reset (history)

atomics  == <<inputCount, outputCount, swapPending>>
swapVars == <<current, pending, excluded, exhausted, blocking>>
history  == <<arrived, outdated>>
vars == <<atomics, swapVars, upstream, downstream, queued, decoding, history>>

TypeOK ==
  /\ current \in Backends
  /\ pending \in Backends \cup {None}
  /\ excluded \subseteq Backends
  /\ inputCount \in 0 .. CheckThreshold
  /\ outputCount \in 0 .. 1
  /\ swapPending \in BOOLEAN
  /\ exhausted \in BOOLEAN
  /\ upstream \in {"count", "check", "claim", "swap", "push"}
  /\ downstream \in {"wait", "reset", "release"}
  /\ blocking \in 0 .. 1
  /\ queued \in BOOLEAN
  /\ decoding \in BOOLEAN
  /\ arrived \in 0 .. CheckThreshold
  /\ outdated \in BOOLEAN

-----------------------------------------------------------------------------
(* createSmartVideoDecoder, which throws if there is no usable backend.    *)
Init ==
  /\ Usable({}) # None
  /\ current = Usable({})
  /\ pending = None
  /\ excluded = Skipped({})
  /\ inputCount = 0
  /\ outputCount = 0
  /\ swapPending = FALSE
  /\ exhausted = FALSE
  /\ upstream = "count"
  /\ downstream = "wait"
  /\ blocking = 0
  /\ queued = FALSE
  /\ decoding = FALSE
  /\ arrived = 0
  /\ outdated = FALSE

-----------------------------------------------------------------------------
(* The upstream thread: the probe on the sink pad, then the queue.         *)

UpTo(n, limit) == IF n < limit THEN n ELSE limit

CountInput ==
  /\ upstream = "count"
  /\ inputCount' = UpTo(inputCount + 1, CheckThreshold)
  /\ arrived' = UpTo(arrived + 1, CheckThreshold)
  /\ outdated' = FALSE
  /\ upstream' = IF inputCount' = CheckThreshold THEN "check" ELSE "push"
  /\ UNCHANGED <<outputCount, swapPending, swapVars, downstream, queued, decoding>>

CheckOutput ==
  /\ upstream = "check"
  /\ upstream' = IF outputCount = 0 /\ ~exhausted THEN "claim" ELSE "push"
  /\ UNCHANGED <<atomics, swapVars, downstream, queued, decoding, history>>

(* Plausible slip: swap_pending is looked at but not set.                  *)
ClaimByLooking ==
  /\ upstream = "claim"
  /\ upstream' = IF swapPending THEN "push" ELSE "swap"
  /\ UNCHANGED <<atomics, swapVars, downstream, queued, decoding, history>>

(* swap_pending.exchange( true )                                           *)
Claim ==
  /\ upstream = "claim"
  /\ upstream' = IF swapPending THEN "push" ELSE "swap"
  /\ swapPending' = TRUE
  /\ UNCHANGED <<inputCount, outputCount, swapVars, downstream, queued,
                 decoding, history>>

(* Plausible slip: the failing decoder is not excluded.                    *)
SwapKeepingCurrent ==
  /\ upstream = "swap"
  /\ excluded' = excluded \cup Skipped(excluded)
  /\ pending' = Usable(excluded)
  /\ blocking' = blocking + 1
  /\ upstream' = "push"
  /\ UNCHANGED <<current, atomics, exhausted, downstream, queued, decoding, history>>

(* smartDecoderSwap                                                        *)
Swap ==
  /\ upstream = "swap"
  /\ LET excl == excluded \cup {current} IN
       /\ excluded' = excl \cup Skipped(excl)
       /\ \/ /\ Usable(excl) = None
             /\ exhausted' = TRUE
             /\ swapPending' = FALSE
             /\ UNCHANGED <<pending, blocking>>
          \/ /\ Usable(excl) # None
             /\ pending' = Usable(excl)
             /\ blocking' = blocking + 1
             /\ UNCHANGED <<exhausted, swapPending>>
  /\ upstream' = "push"
  /\ UNCHANGED <<current, inputCount, outputCount, downstream, queued, decoding,
                 history>>

Push ==
  /\ upstream = "push"
  /\ queued' = TRUE
  /\ upstream' = "count"
  /\ UNCHANGED <<atomics, swapVars, downstream, decoding, history>>

Upstream == CountInput \/ CheckOutput \/ Claim \/ Swap \/ Push

-----------------------------------------------------------------------------
(* The queue's thread. A blocking probe runs before the frame goes on.     *)

Forward ==
  /\ downstream = "wait"
  /\ queued /\ blocking = 0
  /\ queued' = FALSE
  /\ decoding' = TRUE
  /\ UNCHANGED <<atomics, swapVars, upstream, downstream, history>>

Install ==
  /\ downstream = "wait"
  /\ queued /\ blocking > 0
  /\ queued' = FALSE
  /\ current' = pending
  /\ pending' = None
  /\ decoding' = FALSE
  /\ arrived' = 0
  /\ downstream' = "reset"
  /\ UNCHANGED <<atomics, excluded, exhausted, upstream, blocking, outdated>>

(* Plausible slip: only the output is counted anew.                        *)
ResetOutputCount ==
  /\ downstream = "reset"
  /\ outputCount' = 0
  /\ outdated' = (upstream \in {"check", "claim", "swap"})
  /\ downstream' = "release"
  /\ UNCHANGED <<inputCount, swapPending, swapVars, upstream, queued, decoding,
                 arrived>>

ResetCounts ==
  /\ downstream = "reset"
  /\ inputCount' = 0
  /\ outputCount' = 0
  /\ outdated' = (upstream \in {"check", "claim", "swap"})
  /\ downstream' = "release"
  /\ UNCHANGED <<swapPending, swapVars, upstream, queued, decoding, arrived>>

(* swap_pending = false, the probe is removed, the frame goes on.          *)
Release ==
  /\ downstream = "release"
  /\ swapPending' = FALSE
  /\ blocking' = blocking - 1
  /\ decoding' = TRUE
  /\ downstream' = "wait"
  /\ UNCHANGED <<inputCount, outputCount, current, pending, excluded, exhausted,
                 upstream, queued, history>>

Downstream == Forward \/ Install \/ ResetCounts \/ Release

(* The decoder answers, some time later or never, and the probe on the     *)
(* source pad counts.                                                      *)
Decode ==
  /\ decoding /\ current \in Working
  /\ decoding' = FALSE
  /\ outputCount' = 1
  /\ UNCHANGED <<inputCount, swapPending, swapVars, upstream, downstream, queued,
                 history>>

-----------------------------------------------------------------------------

Next == Upstream \/ Downstream \/ Decode

(* Frames keep coming, the threads run, a working decoder answers.         *)
Fairness == WF_vars(Upstream) /\ WF_vars(Downstream) /\ WF_vars(Decode)

Spec     == Init /\ [][Next]_vars
FairSpec == Spec /\ Fairness

-----------------------------------------------------------------------------
(* Properties.                                                             *)

(* A decoder created for a swap is installed by it: no second swap begins  *)
(* before, which would lose the decoder and leave a probe that installs    *)
(* none.                                                                   *)
OneSwapAtATime ==
  [][/\ blocking' > blocking => blocking = 0 /\ pending = None
     /\ pending # None /\ pending' # pending
          => pending' = None /\ current' = pending]_vars

(* A decoder that does not work is not kept: in the end the bin decodes    *)
(* with one that works or reports that all backends are exhausted.         *)
DecodesOrGivesUp == <>[](current \in Working) \/ <>exhausted

(* createSmartVideoDecoder promises a decoder CheckThreshold frames. The    *)
(* only decoder that is given up sooner is one whose swap was completed in *)
(* the middle of a check: that check still goes by its predecessor's       *)
(* frames, as it counted its own before the counts were reset.             *)
SwapsAreDeserved ==
  [][(current \in excluded' \ excluded) =>
        arrived = CheckThreshold \/ outdated]_vars

=============================================================================
