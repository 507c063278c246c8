---------------------------- MODULE ClientSessions ----------------------------
(***************************************************************************)
(* What a WebRTC output promises its clients. A client that connects waits *)
(* for its stream, gets it, or is turned away; a client whose stream broke *)
(* or never came is not left hanging: its connection ends, so that it can  *)
(* connect again.                                                          *)
(***************************************************************************)
CONSTANT Clients

VARIABLE phase

Phases == {"absent", "waiting", "streaming", "broken", "gone"}

Init == phase = [c \in Clients |-> "absent"]

Becomes(c, from, to) ==
  /\ phase[c] \in from
  /\ phase' = [phase EXCEPT ![c] = to]

Accept(c)    == Becomes(c, {"absent"}, "waiting")
TurnAway(c)  == Becomes(c, {"absent"}, "broken")
Establish(c) == Becomes(c, {"waiting"}, "streaming")
Break(c)     == Becomes(c, {"waiting", "streaming"}, "broken")
Leave(c)     == Becomes(c, {"waiting", "streaming", "broken"}, "gone")

(* A restart of the pipeline breaks every stream at once.                  *)
BreakAll ==
  phase' = [c \in Clients |->
              IF phase[c] \in {"waiting", "streaming"} THEN "broken" ELSE phase[c]]

Next ==
  \/ \E c \in Clients : \/ Accept(c) \/ TurnAway(c) \/ Establish(c)
                        \/ Break(c) \/ Leave(c)
  \/ BreakAll

(* Nobody waits or hangs on forever.                                       *)
Fairness ==
  \A c \in Clients :
    /\ WF_phase(phase[c] = "waiting" /\ (Establish(c) \/ Break(c) \/ Leave(c)))
    /\ WF_phase(phase[c] = "broken" /\ Leave(c))

SafeSpec == Init /\ [][Next]_phase
Spec     == SafeSpec /\ Fairness
=============================================================================
