---------------------------- MODULE WebrtcSessions ----------------------------
(***************************************************************************)
(* The clients of one WebRTC output: their WebSocket connections in the    *)
(* SignalingServer, their sessions in the WebrtcOutput, and the WebRTCPeer *)
(* that negotiates each session's transport.                               *)
(*                                                                         *)
(* The GStreamer thread runs the signaling context: every handler of the   *)
(* server and the output, the establish timeouts, the dispatched actions   *)
(* and the pipeline's restarts. The callbacks of a webrtcbin run on its    *)
(* own threads; they can be under way while its session is torn down, and  *)
(* reach the connection only through the context's queue.                  *)
(***************************************************************************)
EXTENDS Integers, Sequences

CONSTANTS
  Conns,             \* the connections clients open; each is opened once
  EstablishTimeout   \* PEER_ESTABLISH_TIMEOUT_SECONDS (10)

ASSUME TimeoutAssumption == EstablishTimeout \in Nat \ {0}

VARIABLES
  conn,         \* state of each WebSocket connection
  connections,  \* connections_ of the signaling server
  sessions,     \* keys of sessions_ of the output
  armed,        \* sessions whose establish timeout has not fired yet
  age,          \* seconds since the session was stored
  peer,         \* what the webrtcbin's thread does next for the session
  transport,    \* state of the session's transport
  failing,      \* failure callbacks under way on ICE threads
  queue,        \* actions dispatched to the signaling context
  wire,         \* messages sent to each client (history)
  pipelineUp    \* the pipeline is not in NULL

soupVars   == <<conn, connections>>
outputVars == <<sessions, armed, age>>
binVars    == <<peer, transport, failing>>
vars == <<soupVars, outputVars, binVars, queue, wire, pipelineUp>>

ConnStates == {"absent", "open", "closing", "closed"}
PeerSteps  == {"none", "negotiate", "offer", "gather", "done"}
Transports == {"new", "answered", "connected", "failed", "lost"}
Messages   == {"offer", "candidate"}
Actions    == [do : Messages \cup {"close"}, conn : Conns]

TypeOK ==
  /\ conn \in [Conns -> ConnStates]
  /\ connections \subseteq Conns
  /\ sessions \subseteq Conns
  /\ armed \subseteq sessions
  /\ age \in [Conns -> 0 .. EstablishTimeout + 1]
  /\ peer \in [Conns -> PeerSteps]
  /\ transport \in [Conns -> Transports]
  /\ failing \subseteq Conns
  /\ queue \in Seq(Actions)
  /\ wire \in [Conns -> Seq(Messages)]
  /\ pipelineUp \in BOOLEAN

Init ==
  /\ conn = [c \in Conns |-> "absent"]
  /\ connections = {}
  /\ sessions = {}
  /\ armed = {}
  /\ age = [c \in Conns |-> 0]
  /\ peer = [c \in Conns |-> "none"]
  /\ transport = [c \in Conns |-> "new"]
  /\ failing = {}
  /\ queue = <<>>
  /\ wire = [c \in Conns |-> <<>>]
  /\ pipelineUp \in BOOLEAN

-----------------------------------------------------------------------------
(* SignalingServer helpers.                                                *)

(* Plausible slip: the connection is closed without looking at its state.  *)
CloseAnyway(cs) ==
  conn' = [c \in Conns |-> IF c \in cs THEN "closing" ELSE conn[c]]

(* closeIfOpen; the "closed" signal follows later.                         *)
CloseIfOpen(cs) ==
  conn' = [c \in Conns |-> IF c \in cs /\ conn[c] = "open" THEN "closing"
                                                          ELSE conn[c]]

(* Plausible slip: dispatched actions overtake the ones queued before.     *)
DispatchFirst(what, c) == queue' = <<[do |-> what, conn |-> c]>> \o queue

(* dispatchToContext: actions of the same priority run in order.           *)
Dispatch(what, c) == queue' = Append(queue, [do |-> what, conn |-> c])

-----------------------------------------------------------------------------
(* Handlers on the signaling context.                                      *)

(* onWebSocketOpened on a path without an endpoint, or with one whose      *)
(* output fails to set up the peer branch and closes the connection.       *)
OpenRefused(c) ==
  /\ conn[c] = "absent"
  /\ conn' = [conn EXCEPT ![c] = "closing"]
  /\ connections' = connections \cup {c}
  /\ UNCHANGED <<outputVars, binVars, queue, wire, pipelineUp>>

(* Plausible slip: the establish timeout is created but not attached.      *)
OpenWithoutTimeout(c) ==
  /\ conn[c] = "absent"
  /\ conn' = [conn EXCEPT ![c] = "open"]
  /\ connections' = connections \cup {c}
  /\ sessions' = sessions \cup {c}
  /\ peer' = [peer EXCEPT ![c] = "negotiate"]
  /\ UNCHANGED <<armed, age, transport, failing, queue, wire, pipelineUp>>

(* onWebSocketOpened, with addPeerBranch: the new webrtcbin wants to       *)
(* negotiate as soon as it leaves NULL, and the timeout is running.        *)
OpenSession(c) ==
  /\ conn[c] = "absent"
  /\ conn' = [conn EXCEPT ![c] = "open"]
  /\ connections' = connections \cup {c}
  /\ sessions' = sessions \cup {c}
  /\ armed' = armed \cup {c}
  /\ peer' = [peer EXCEPT ![c] = "negotiate"]
  /\ UNCHANGED <<age, transport, failing, queue, wire, pipelineUp>>

(* onMessage with the client's answer: handleSdp sets it on the webrtcbin, *)
(* unless the session is gone or its webrtcbin is.                         *)
Answer(c) ==
  /\ conn[c] \in {"open", "closing"}
  /\ wire[c] # <<>> /\ Head(wire[c]) = "offer"
  /\ c \in sessions /\ transport[c] = "new"
  /\ transport' = [transport EXCEPT ![c] = "answered"]
  /\ UNCHANGED <<soupVars, outputVars, peer, failing, queue, wire, pipelineUp>>

(* onClosed, once the client is gone or the close was acknowledged or has  *)
(* timed out: removePeerBranch tears the session down.                     *)
Closed(c) ==
  /\ conn[c] \in {"open", "closing"}
  /\ conn' = [conn EXCEPT ![c] = "closed"]
  /\ connections' = connections \ {c}
  /\ sessions' = sessions \ {c}
  /\ armed' = armed \ {c}
  /\ UNCHANGED <<age, binVars, queue, wire, pipelineUp>>

(* onEstablishTimeout                                                      *)
Timeout(c) ==
  /\ c \in armed /\ age[c] = EstablishTimeout
  /\ armed' = armed \ {c}
  /\ CloseIfOpen(IF transport[c] = "connected" THEN {} ELSE {c})
  /\ UNCHANGED <<connections, sessions, age, binVars, queue, wire, pipelineUp>>

(* The head of the context's queue: a send or a close, on an open          *)
(* connection only.                                                        *)
RunAction ==
  /\ queue # <<>>
  /\ queue' = Tail(queue)
  /\ LET a == Head(queue) IN
       \/ /\ a.do = "close"
          /\ CloseIfOpen({a.conn})
          /\ UNCHANGED wire
       \/ /\ a.do \in Messages
          /\ wire' = IF conn[a.conn] = "open"
                     THEN [wire EXCEPT ![a.conn] = Append(@, a.do)] ELSE wire
          /\ UNCHANGED conn
  /\ UNCHANGED <<connections, outputVars, binVars, pipelineUp>>

-----------------------------------------------------------------------------
(* The pipeline, on the same thread.                                       *)

(* What NULL does to the webrtcbins: their transports do not survive it,   *)
(* and of their callbacks only an offer under way still finishes.          *)
LoseTransports ==
  /\ transport' = [c \in Conns |-> IF c \in sessions THEN "lost" ELSE transport[c]]
  /\ peer' = [c \in Conns |-> IF c \in sessions /\ peer[c] # "offer" THEN "done"
                                                                      ELSE peer[c]]

(* Plausible slip: a failed start sets the elements to NULL directly.      *)
FailWithoutNotice ==
  /\ LoseTransports
  /\ pipelineUp' \in BOOLEAN
  /\ IF pipelineUp' THEN CloseIfOpen(sessions) ELSE UNCHANGED conn
  /\ UNCHANGED <<connections, outputVars, failing, queue, wire>>

(* setPipelineNull in a restart or a failed start: onPipelineStopping asks *)
(* every client to go, before the transports are lost.                     *)
PipelineNull ==
  /\ LoseTransports
  /\ pipelineUp' \in BOOLEAN
  /\ CloseIfOpen(sessions)
  /\ UNCHANGED <<connections, outputVars, failing, queue, wire>>

StartPipeline ==
  /\ ~pipelineUp
  /\ pipelineUp' = TRUE
  /\ UNCHANGED <<soupVars, outputVars, binVars, queue, wire>>

-----------------------------------------------------------------------------
(* Callbacks on the webrtcbin's threads. They hold references of their own *)
(* on the webrtcbin and the connection.                                    *)

(* onNegotiationNeeded, connected until the session is torn down.          *)
NegotiationNeeded(c) ==
  /\ peer[c] = "negotiate"
  /\ c \in sessions /\ pipelineUp
  /\ peer' = [peer EXCEPT ![c] = "offer"]
  /\ UNCHANGED <<soupVars, outputVars, transport, failing, queue, wire, pipelineUp>>

(* onLocalDescriptionCreated: the promise may be replied, or interrupted   *)
(* by the webrtcbin's way to NULL while the offer was created. Setting the *)
(* local description and sending the offer are one step, although the      *)
(* first may make candidates: they are signalled by the webrtcbin's one    *)
(* thread, which is the one that runs this callback.                       *)
OfferCreated(c) ==
  /\ peer[c] = "offer"
  /\ \/ /\ Dispatch("offer", c)
        /\ peer' = [peer EXCEPT ![c] = "gather"]
     \/ /\ c \notin sessions \/ transport[c] = "lost"
        /\ peer' = [peer EXCEPT ![c] = "done"]
        /\ UNCHANGED queue
  /\ UNCHANGED <<soupVars, outputVars, transport, failing, wire, pipelineUp>>

(* onIceCandidate, after the local description was set.                    *)
IceCandidate(c) ==
  /\ peer[c] = "gather"
  /\ c \in sessions /\ transport[c] # "lost"
  /\ Dispatch("candidate", c)
  /\ peer' = [peer EXCEPT ![c] = "done"]
  /\ UNCHANGED <<soupVars, outputVars, transport, failing, wire, pipelineUp>>

TransportConnects(c) ==
  /\ transport[c] = "answered" /\ c \in sessions
  /\ transport' = [transport EXCEPT ![c] = "connected"]
  /\ UNCHANGED <<soupVars, outputVars, peer, failing, queue, wire, pipelineUp>>

(* A connection-state or ICE state of failed starts a callback.            *)
TransportFails(c) ==
  /\ transport[c] \in {"answered", "connected"} /\ c \in sessions
  /\ transport' = [transport EXCEPT ![c] = "failed"]
  /\ failing' = failing \cup {c}
  /\ UNCHANGED <<soupVars, outputVars, peer, queue, wire, pipelineUp>>

(* closeSignalingOnFailure; meanwhile the session may be gone.             *)
ReportFailure(c) ==
  /\ c \in failing
  /\ failing' = failing \ {c}
  /\ Dispatch("close", c)
  /\ UNCHANGED <<soupVars, outputVars, peer, transport, wire, pipelineUp>>

-----------------------------------------------------------------------------

(* A second passes; the context fires a due timeout within that time.      *)
Elapse ==
  /\ \A c \in armed : age[c] < EstablishTimeout
  /\ age' = [c \in Conns |->
               IF c \in sessions /\ age[c] <= EstablishTimeout THEN age[c] + 1
                                                              ELSE age[c]]
  /\ UNCHANGED <<soupVars, sessions, armed, binVars, queue, wire, pipelineUp>>

Callback(c) == \/ NegotiationNeeded(c) \/ OfferCreated(c) \/ IceCandidate(c)
               \/ TransportConnects(c) \/ TransportFails(c)

Next ==
  \/ \E c \in Conns :
       \/ OpenRefused(c) \/ OpenSession(c) \/ Answer(c) \/ Closed(c)
       \/ Timeout(c) \/ Callback(c) \/ ReportFailure(c)
  \/ RunAction
  \/ PipelineNull \/ StartPipeline
  \/ Elapse

(* The main loop runs due timeouts and queued actions, a callback under    *)
(* way ends, and libsoup ends a connection that is closing, by its own     *)
(* close timeout if the client does not answer.                            *)
Fairness ==
  /\ WF_vars(RunAction)
  /\ WF_vars(Elapse)
  /\ \A c \in Conns :
       /\ WF_vars(Timeout(c))
       /\ WF_vars(ReportFailure(c))
       /\ WF_vars(conn[c] = "closing" /\ Closed(c))

Spec     == Init /\ [][Next]_vars
FairSpec == Spec /\ Fairness

-----------------------------------------------------------------------------
(* Properties.                                                             *)

(* Where a client stands.                                                  *)
Phase(c) ==
  IF conn[c] \in {"absent", "closed"}
  THEN IF conn[c] = "absent" THEN "absent" ELSE "gone"
  ELSE IF conn[c] = "closing" \/ transport[c] \in {"failed", "lost"} THEN "broken"
  ELSE IF transport[c] = "connected" THEN "streaming" ELSE "waiting"

Promise == INSTANCE ClientSessions
             WITH Clients <- Conns, phase <- [c \in Conns |-> Phase(c)]

(* Through the establish timeout, the failure callbacks and the notice of  *)
(* a restart, the output keeps its promise: no client waits forever for a  *)
(* stream or hangs on to one that is broken.                               *)
ClientsAreNotLeftHanging == Promise!Spec

(* A session lives exactly as long as its connection: no client counts as  *)
(* connected, and no branch feeds a webrtcbin, after the connection ended. *)
SessionsHaveConnections ==
  /\ \A c \in sessions : conn[c] \in {"open", "closing"}
  /\ connections = {c \in Conns : conn[c] \in {"open", "closing"}}

(* No client is left on an open connection with a transport that did not   *)
(* survive the pipeline going to NULL: it would watch a frozen stream.     *)
LostTransportsAreClosing ==
  \A c \in sessions : transport[c] = "lost" => conn[c] # "open"

(* A session that is not established after the timeout is closing: none    *)
(* reports a connected client for longer without transmitting.             *)
EstablishedInTime ==
  \A c \in sessions :
    conn[c] = "open" /\ age[c] > EstablishTimeout
      => transport[c] \in {"connected", "failed"}

(* A client gets the offer before any ICE candidate, although both are     *)
(* dispatched from other threads.                                          *)
OfferComesFirst ==
  \A c \in Conns : wire[c] # <<>> => Head(wire[c]) = "offer"

=============================================================================
