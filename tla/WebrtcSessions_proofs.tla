------------------------ MODULE WebrtcSessions_proofs ------------------------
(***************************************************************************)
(* The sessions of WebRTC clients, for any number of clients and any       *)
(* establish timeout: sessions and connections stay in step, nobody is     *)
(* left on a lost transport, the offer comes first, and every step is one  *)
(* that ClientSessions allows.                                             *)
(***************************************************************************)
EXTENDS WebrtcSessions, TLAPS

-----------------------------------------------------------------------------
(* Sessions.                                                               *)

(* Every open connection has its session, a new one starts afresh, and a   *)
(* session whose transport is not up yet still has its timeout to come.    *)
SessionInv ==
  /\ SessionsHaveConnections
  /\ LostTransportsAreClosing
  /\ \A c \in Conns : conn[c] = "open" => c \in sessions
  /\ \A c \in Conns : conn[c] = "absent" =>
       /\ transport[c] = "new" /\ age[c] = 0
       /\ peer[c] = "none" /\ c \notin failing
  /\ \A c \in sessions :
       conn[c] = "open" /\ transport[c] \in {"new", "answered"} => c \in armed
  /\ \A c \in armed : age[c] <= EstablishTimeout

(* An output starts without sessions and connections.                      *)
LEMMA InitSessions == Init => TypeOK /\ SessionInv
<1> SUFFICES ASSUME Init PROVE TypeOK /\ SessionInv
  OBVIOUS
<1>1. pipelineUp \in BOOLEAN
  BY DEF Init
<1> QED
  BY <1>1, TimeoutAssumption
     DEF Init, TypeOK, SessionInv, SessionsHaveConnections,
         LostTransportsAreClosing, ConnStates, PeerSteps, Transports, Messages,
         Actions

(* Every step keeps the types.                                             *)
LEMMA StepTypes == TypeOK /\ SessionInv /\ [Next]_vars => TypeOK'
<1> SUFFICES ASSUME TypeOK, SessionInv, [Next]_vars PROVE TypeOK'
  OBVIOUS
<1> USE TimeoutAssumption DEF TypeOK, ConnStates, PeerSteps, Transports
<1>1. ASSUME NEW c \in Conns, OpenRefused(c) PROVE TypeOK'
  BY <1>1 DEF OpenRefused, outputVars, binVars
<1>2. ASSUME NEW c \in Conns, OpenSession(c) PROVE TypeOK'
  BY <1>2 DEF OpenSession
<1>3. ASSUME NEW c \in Conns, Answer(c) PROVE TypeOK'
  BY <1>3 DEF Answer, soupVars, outputVars
<1>4. ASSUME NEW c \in Conns, Closed(c) PROVE TypeOK'
  BY <1>4 DEF Closed, binVars
<1>5. ASSUME NEW c \in Conns, Timeout(c) PROVE TypeOK'
  BY <1>5 DEF Timeout, CloseIfOpen, binVars
<1>6. ASSUME NEW c \in Conns, Callback(c) PROVE TypeOK'
  <2>1. CASE NegotiationNeeded(c)
    BY <2>1 DEF NegotiationNeeded, soupVars, outputVars
  <2>2. CASE OfferCreated(c)
    <3>1. peer' \in [Conns -> PeerSteps]
      BY <2>2 DEF OfferCreated
    <3>2. [do |-> "offer", conn |-> c] \in Actions
      BY DEF Actions, Messages
    <3>3. queue' \in Seq(Actions)
      <4> DEFINE offer == [do |-> "offer", conn |-> c]
      <4>1. queue \in Seq(Actions) /\ (queue' = queue \/ queue' = Append(queue, offer))
        BY <2>2 DEF OfferCreated, Dispatch
      <4>2. offer \in Actions
        BY <3>2
      <4> HIDE DEF offer
      <4>3. queue' = Append(queue, offer) => queue' \in Seq(Actions)
        BY <4>1, <4>2
      <4> QED
        BY <4>1, <4>3
    <3> QED
      BY <2>2, <3>1, <3>3 DEF OfferCreated, soupVars, outputVars
  <2>3. CASE IceCandidate(c)
    BY <2>3 DEF IceCandidate, Dispatch, Actions, Messages, soupVars, outputVars
  <2>4. CASE TransportConnects(c)
    BY <2>4 DEF TransportConnects, soupVars, outputVars
  <2>5. CASE TransportFails(c)
    BY <2>5 DEF TransportFails, soupVars, outputVars
  <2> QED
    BY <1>6, <2>1, <2>2, <2>3, <2>4, <2>5 DEF Callback
<1>7. ASSUME NEW c \in Conns, ReportFailure(c) PROVE TypeOK'
  BY <1>7 DEF ReportFailure, Dispatch, Actions, soupVars, outputVars
<1>8. CASE RunAction
  <2>1. Head(queue) \in Actions /\ queue' \in Seq(Actions)
    BY <1>8 DEF RunAction
  <2>2. conn' \in [Conns -> ConnStates]
    BY <1>8, <2>1 DEF RunAction, CloseIfOpen
  <2>3. wire' \in [Conns -> Seq(Messages)]
    <3> DEFINE a == Head(queue)
    <3>1. a.conn \in Conns
      BY <2>1 DEF Actions
    <3>2. CASE wire' = [wire EXCEPT ![a.conn] = Append(@, a.do)] /\ a.do \in Messages
      BY <3>1, <3>2
    <3> QED
      BY <1>8, <3>2 DEF RunAction
  <2> QED
    BY <1>8, <2>1, <2>2, <2>3 DEF RunAction, outputVars, binVars
<1>9. CASE PipelineNull
  BY <1>9 DEF PipelineNull, LoseTransports, CloseIfOpen, outputVars
<1>10. CASE StartPipeline
  <2>1. pipelineUp' \in BOOLEAN
    BY <1>10, Zenon DEF StartPipeline
  <2>2. UNCHANGED <<soupVars, outputVars, binVars, queue, wire>>
    BY <1>10 DEF StartPipeline
  <2> QED
    BY <2>1, <2>2 DEF soupVars, outputVars, binVars
<1>11. CASE Elapse
  BY <1>11 DEF Elapse, soupVars, binVars
<1>12. CASE UNCHANGED vars
  BY <1>12 DEF vars, soupVars, outputVars, binVars
<1> QED
  BY <1>1, <1>2, <1>3, <1>4, <1>5, <1>6, <1>7, <1>8, <1>9, <1>10, <1>11, <1>12
     DEF Next

(* Every step keeps sessions and connections together.                     *)
LEMMA StepSessions == TypeOK /\ SessionInv /\ [Next]_vars => SessionInv'
<1> SUFFICES ASSUME TypeOK, SessionInv, [Next]_vars PROVE SessionInv'
  OBVIOUS
<1> USE TimeoutAssumption
    DEF TypeOK, SessionInv, SessionsHaveConnections, LostTransportsAreClosing,
        ConnStates, PeerSteps, Transports
<1>1. ASSUME NEW c \in Conns, OpenRefused(c) PROVE SessionInv'
  BY <1>1 DEF OpenRefused, outputVars, binVars
<1>2. ASSUME NEW c \in Conns, OpenSession(c) PROVE SessionInv'
  BY <1>2 DEF OpenSession
<1>3. ASSUME NEW c \in Conns, Answer(c) PROVE SessionInv'
  BY <1>3 DEF Answer, soupVars, outputVars
<1>4. ASSUME NEW c \in Conns, Closed(c) PROVE SessionInv'
  BY <1>4 DEF Closed, binVars
<1>5. ASSUME NEW c \in Conns, Timeout(c) PROVE SessionInv'
  BY <1>5 DEF Timeout, CloseIfOpen, binVars
<1>6. ASSUME NEW c \in Conns, Callback(c) PROVE SessionInv'
  <2>1. CASE NegotiationNeeded(c)
    BY <2>1 DEF NegotiationNeeded, soupVars, outputVars
  <2>2. CASE OfferCreated(c)
    BY <2>2 DEF OfferCreated, soupVars, outputVars
  <2>3. CASE IceCandidate(c)
    BY <2>3 DEF IceCandidate, soupVars, outputVars
  <2>4. CASE TransportConnects(c)
    BY <2>4 DEF TransportConnects, soupVars, outputVars
  <2>5. CASE TransportFails(c)
    BY <2>5 DEF TransportFails, soupVars, outputVars
  <2> QED
    BY <1>6, <2>1, <2>2, <2>3, <2>4, <2>5 DEF Callback
<1>7. ASSUME NEW c \in Conns, ReportFailure(c) PROVE SessionInv'
  BY <1>7 DEF ReportFailure, soupVars, outputVars
<1>8. CASE RunAction
  <2>1. \/ UNCHANGED conn
        \/ conn' = [c \in Conns |->
                      IF c = Head(queue).conn /\ conn[c] = "open" THEN "closing"
                                                                 ELSE conn[c]]
    BY <1>8 DEF RunAction, CloseIfOpen
  <2>2. UNCHANGED <<connections, outputVars, binVars>>
    BY <1>8 DEF RunAction
  <2> QED
    BY <2>1, <2>2 DEF outputVars, binVars
<1>9. CASE PipelineNull
  BY <1>9 DEF PipelineNull, LoseTransports, CloseIfOpen, outputVars
<1>10. CASE StartPipeline
  BY <1>10 DEF StartPipeline, soupVars, outputVars, binVars
<1>11. CASE Elapse
  <2>1. UNCHANGED <<conn, connections, sessions, armed, peer, transport, failing>>
    BY <1>11 DEF Elapse, soupVars, binVars
  <2>2. \A c \in Conns : c \notin sessions => age'[c] = age[c]
    BY <1>11 DEF Elapse
  <2>3. \A c \in armed : age'[c] <= EstablishTimeout
    BY <1>11 DEF Elapse
  <2> QED
    BY <2>1, <2>2, <2>3
<1>12. CASE UNCHANGED vars
  BY <1>12 DEF vars, soupVars, outputVars, binVars
<1> QED
  BY <1>1, <1>2, <1>3, <1>4, <1>5, <1>6, <1>7, <1>8, <1>9, <1>10, <1>11, <1>12
     DEF Next

(* The inductive invariant of the sessions.                                *)
THEOREM SessionInvariant == Spec => [](TypeOK /\ SessionInv)
<1>1. TypeOK /\ SessionInv /\ [Next]_vars => (TypeOK /\ SessionInv)'
  BY StepTypes, StepSessions
<1> QED
  BY <1>1, InitSessions, PTL DEF Spec

(* Types.                                                                  *)
THEOREM TypeCorrect == Spec => []TypeOK
  BY SessionInvariant, PTL

(* A session lives exactly as long as its connection.                      *)
THEOREM SessionsAreConnected == Spec => []SessionsHaveConnections
<1>1. SessionInv => SessionsHaveConnections
  BY DEF SessionInv
<1> QED
  BY <1>1, SessionInvariant, PTL

(* Nobody stays on an open connection without a transport.                 *)
THEOREM LostAreClosing == Spec => []LostTransportsAreClosing
<1>1. SessionInv => LostTransportsAreClosing
  BY DEF SessionInv
<1> QED
  BY <1>1, SessionInvariant, PTL

(* A session not established by the timeout is closing.                    *)
THEOREM EstablishedOrClosing == Spec => []EstablishedInTime
<1>1. TypeOK /\ SessionInv => EstablishedInTime
  BY TimeoutAssumption
     DEF TypeOK, SessionInv, LostTransportsAreClosing, EstablishedInTime, Transports
<1> QED
  BY <1>1, SessionInvariant, PTL

-----------------------------------------------------------------------------
(* The offer comes first.                                                  *)

OfferTo(c) == [do |-> "offer", conn |-> c]
CandidateTo(c) == [do |-> "candidate", conn |-> c]

(* The client has the offer, cannot get anything any more, or the offer is *)
(* queued before position n.                                               *)
OfferedBefore(c, n) ==
  \/ wire[c] # <<>> \/ conn[c] # "open"
  \/ \E j \in 1 .. n - 1 : queue[j] = OfferTo(c)

OfferInv ==
  /\ OfferComesFirst
  /\ \A c \in Conns : peer[c] = "gather" => OfferedBefore(c, Len(queue) + 1)
  /\ \A c \in Conns : \A i \in 1 .. Len(queue) :
       queue[i] = CandidateTo(c) => OfferedBefore(c, i)
  /\ \A i \in 1 .. Len(queue) : conn[queue[i].conn] # "absent"

(* A step that dispatches at most one action, which is no candidate of a   *)
(* client without an offer, and opens no connection that has one queued.   *)
LEMMA DispatchKeepsOffers ==
  ASSUME TypeOK, OfferInv, NEW c \in Conns, NEW what \in Messages \cup {"close"},
         conn[c] # "absent", UNCHANGED <<conn, wire>>, Dispatch(what, c),
         what = "candidate" => OfferedBefore(c, Len(queue) + 1),
         \A d \in Conns \ {c} : peer'[d] = peer[d],
         peer'[c] = "gather" => what = "offer" \/ peer[c] = "gather"
  PROVE  OfferInv'
<1> DEFINE a == [do |-> what, conn |-> c]
<1>1. /\ a \in Actions /\ queue \in Seq(Actions)
      /\ queue' = Append(queue, a)
  BY DEF Actions, TypeOK, Dispatch
<1>2. /\ Len(queue) \in Nat /\ Len(queue') = Len(queue) + 1
      /\ \A i \in 1 .. Len(queue) : queue'[i] = queue[i]
      /\ queue'[Len(queue) + 1] = a
  BY <1>1
<1> HIDE DEF a
<1>3. ASSUME NEW d \in Conns, NEW n \in 1 .. Len(queue) + 1, NEW m \in Nat,
             n <= m, OfferedBefore(d, n)
      PROVE  OfferedBefore(d, m)'
  BY SMTT(30), <1>2, <1>3 DEF OfferedBefore
<1>4. OfferComesFirst'
  BY DEF OfferInv, OfferComesFirst
<1>5. ASSUME NEW d \in Conns, peer[d] = "gather"
      PROVE  OfferedBefore(d, Len(queue) + 1)'
  <2>1. OfferedBefore(d, Len(queue) + 1)
    BY <1>5 DEF OfferInv
  <2> QED
    BY <1>2, <1>3, <2>1
<1>6. ASSUME NEW d \in Conns, peer'[d] = "gather"
      PROVE  OfferedBefore(d, Len(queue) + 1)'
  <2>1. CASE d = c /\ what = "offer"
    BY <1>2, <2>1 DEF OfferedBefore, OfferTo, a
  <2> QED
    BY <1>5, <1>6, <2>1
<1>7. ASSUME NEW d \in Conns, NEW i \in 1 .. Len(queue'), queue'[i] = CandidateTo(d)
      PROVE  OfferedBefore(d, i)'
  <2>1. CASE i \in 1 .. Len(queue)
    BY <1>2, <1>3, <1>7, <2>1 DEF OfferInv
  <2>2. CASE i = Len(queue) + 1
    <3>1. d = c /\ what = "candidate"
      BY <1>2, <1>7, <2>2 DEF CandidateTo, a
    <3> QED
      BY <1>2, <1>3, <2>2, <3>1
  <2> QED
    BY <1>2, <2>1, <2>2
<1>8. ASSUME NEW i \in 1 .. Len(queue')
      PROVE  conn'[queue'[i].conn] # "absent"
  BY <1>2, <1>8 DEF OfferInv, a
<1> QED
  BY <1>4, <1>6, <1>7, <1>8 DEF OfferInv

(* A step that touches neither queue nor wires, opens nothing and lets no  *)
(* peer start to gather.                                                   *)
LEMMA QuietKeepsOffers ==
  ASSUME OfferInv, UNCHANGED <<queue, wire>>,
         \A d \in Conns : conn'[d] = "open" => conn[d] = "open",
         \A i \in 1 .. Len(queue) : conn'[queue[i].conn] # "absent",
         \A d \in Conns : peer'[d] = "gather" => peer[d] = "gather"
  PROVE  OfferInv'
BY DEF OfferInv, OfferComesFirst, OfferedBefore

(* The context sends or closes: what was before the rest of the queue now  *)
(* is, or has reached the client.                                          *)
LEMMA RunKeepsOffers == ASSUME TypeOK, OfferInv, RunAction PROVE OfferInv'
<1> DEFINE a == Head(queue)
<1>1. /\ queue # <<>> /\ queue \in Seq(Actions) /\ queue' = Tail(queue)
      /\ UNCHANGED peer
  BY DEF RunAction, TypeOK, binVars
<1>2. /\ a = queue[1] /\ a \in Actions /\ 1 \in 1 .. Len(queue)
      /\ Len(queue') = Len(queue) - 1 /\ Len(queue) \in Nat
      /\ \A i \in 1 .. Len(queue') : queue'[i] = queue[i + 1]
  BY <1>1
<1>3. a.conn \in Conns /\ a.do \in Messages \cup {"close"}
  BY <1>2 DEF Actions
<1>4. /\ a.do = "close" /\ CloseIfOpen({a.conn}) /\ UNCHANGED wire
      \/ /\ a.do \in Messages
         /\ wire' = IF conn[a.conn] = "open"
                    THEN [wire EXCEPT ![a.conn] = Append(@, a.do)] ELSE wire
         /\ UNCHANGED conn
  BY DEF RunAction
<1>5. a.do = "candidate" => wire[a.conn] # <<>> \/ conn[a.conn] # "open"
  <2> SUFFICES ASSUME a.do = "candidate"
               PROVE  wire[a.conn] # <<>> \/ conn[a.conn] # "open"
    OBVIOUS
  <2>1. queue[1] = CandidateTo(a.conn)
    BY <1>2 DEF CandidateTo, Actions
  <2>2. OfferedBefore(a.conn, 1)
    BY <1>2, <1>3, <2>1 DEF OfferInv
  <2> QED
    BY <2>2 DEF OfferedBefore
<1> HIDE DEF a
<1>6. /\ \A d \in Conns : conn'[d] = "open" => conn[d] = "open"
      /\ \A d \in Conns : conn[d] # "absent" => conn'[d] # "absent"
  BY <1>3, <1>4 DEF CloseIfOpen, TypeOK
<1>7. \A d \in Conns :
        \/ wire'[d] = wire[d]
        \/ d = a.conn /\ a.do \in Messages /\ conn[d] = "open"
           /\ wire'[d] = Append(wire[d], a.do)
  BY <1>3, <1>4 DEF TypeOK
<1>8. ASSUME NEW d \in Conns, wire[d] # <<>>
      PROVE  wire'[d] # <<>> /\ Head(wire'[d]) = Head(wire[d])
  <2>1. wire[d] \in Seq(Messages)
    BY DEF TypeOK
  <2>2. CASE wire'[d] = Append(wire[d], a.do) /\ a.do \in Messages
    BY <1>8, <2>1, <2>2
  <2> QED
    BY <1>7, <1>8, <2>2
<1>9. OfferComesFirst'
  <2> SUFFICES ASSUME NEW d \in Conns, wire'[d] # <<>>
               PROVE  Head(wire'[d]) = "offer"
    BY DEF OfferComesFirst
  <2>1. CASE wire[d] # <<>>
    BY <1>8, <2>1 DEF OfferInv, OfferComesFirst
  <2>2. CASE wire[d] = <<>>
    <3>1. /\ d = a.conn /\ a.do \in Messages /\ conn[d] = "open"
          /\ wire'[d] = Append(<<>>, a.do)
      BY <1>7, <2>2
    <3>2. a.do = "offer"
      BY <1>5, <2>2, <3>1 DEF Messages
    <3> QED
      BY <3>1, <3>2
  <2> QED
    BY <2>1, <2>2
<1>10. ASSUME NEW d \in Conns, NEW n \in 1 .. Len(queue) + 1, OfferedBefore(d, n),
              NEW m \in Nat, m = n - 1
       PROVE  OfferedBefore(d, m)'
  <2>1. CASE wire[d] # <<>> \/ conn[d] # "open"
    BY <1>6, <1>8, <2>1 DEF OfferedBefore
  <2>2. CASE conn[d] = "open" /\ queue[1] = OfferTo(d)
    <3>1. d = a.conn /\ a.do = "offer"
      BY <1>2, <2>2 DEF OfferTo
    <3>2. wire'[d] = Append(wire[d], a.do) /\ wire[d] \in Seq(Messages)
      BY <1>3, <1>4, <2>2, <3>1 DEF TypeOK, Messages
    <3>3. wire'[d] # <<>>
      BY <3>1, <3>2 DEF Messages
    <3> QED
      BY <3>3 DEF OfferedBefore
  <2>3. CASE \E j \in 2 .. n - 1 : queue[j] = OfferTo(d)
    <3>1. PICK j \in 2 .. n - 1 : queue[j] = OfferTo(d)
      BY <2>3
    <3>2. j - 1 \in 1 .. m - 1 /\ j - 1 \in 1 .. Len(queue')
      BY <1>2, <1>10, <3>1
    <3>3. queue'[j - 1] = OfferTo(d)
      BY <1>2, <3>1, <3>2
    <3> QED
      BY <3>2, <3>3 DEF OfferedBefore, OfferTo
  <2> QED
    BY <1>10, <2>1, <2>2, <2>3 DEF OfferedBefore
<1>11. ASSUME NEW d \in Conns, peer'[d] = "gather"
       PROVE  OfferedBefore(d, Len(queue) + 1)'
  <2>1. OfferedBefore(d, Len(queue) + 1)
    BY <1>1, <1>11 DEF OfferInv
  <2> QED
    BY <1>2, <1>10, <2>1
<1>12. ASSUME NEW d \in Conns, NEW i \in 1 .. Len(queue'), queue'[i] = CandidateTo(d)
       PROVE  OfferedBefore(d, i)'
  <2>1. i + 1 \in 1 .. Len(queue) /\ queue[i + 1] = CandidateTo(d)
    BY <1>2, <1>12
  <2>2. OfferedBefore(d, i + 1)
    BY <2>1 DEF OfferInv
  <2> QED
    BY <1>10, <2>1, <2>2
<1>13. ASSUME NEW i \in 1 .. Len(queue') PROVE conn'[queue'[i].conn] # "absent"
  <2>1. i + 1 \in 1 .. Len(queue) /\ queue'[i] = queue[i + 1]
    BY <1>2, <1>13
  <2>2. queue[i + 1] \in Actions
    BY <1>1, <2>1
  <2>3. queue[i + 1].conn \in Conns
    BY <2>2 DEF Actions
  <2> QED
    BY <1>6, <2>1, <2>3 DEF OfferInv
<1> QED
  BY <1>9, <1>11, <1>12, <1>13 DEF OfferInv

(* Every step keeps candidates behind the offer.                           *)
LEMMA StepOffers ==
  TypeOK /\ SessionInv /\ OfferInv /\ [Next]_vars => OfferInv'
<1> SUFFICES ASSUME TypeOK, SessionInv, OfferInv, [Next]_vars PROVE OfferInv'
  OBVIOUS
<1>0. \A i \in 1 .. Len(queue) : queue[i] \in Actions /\ queue[i].conn \in Conns
  <2>1. \A i \in 1 .. Len(queue) : queue[i] \in Actions
    BY DEF TypeOK
  <2> QED
    BY <2>1 DEF Actions
<1>a. \A i \in 1 .. Len(queue) : conn[queue[i].conn] # "absent"
  BY DEF OfferInv
<1>1. ASSUME NEW c \in Conns, OpenRefused(c) PROVE OfferInv'
  BY <1>0, <1>a, <1>1, QuietKeepsOffers DEF OpenRefused, binVars, TypeOK
<1>2. ASSUME NEW c \in Conns, OpenSession(c) PROVE OfferInv'
  <2>1. /\ conn[c] = "absent" /\ UNCHANGED <<queue, wire>>
        /\ conn' = [conn EXCEPT ![c] = "open"]
        /\ peer' = [peer EXCEPT ![c] = "negotiate"]
    BY <1>2 DEF OpenSession
  <2>2. \A i \in 1 .. Len(queue) : queue[i].conn # c
    BY <1>a, <2>1
  <2>3. ASSUME NEW d \in Conns \ {c}, NEW n \in Int, OfferedBefore(d, n)
        PROVE  OfferedBefore(d, n)'
    BY <2>1, <2>3 DEF OfferedBefore, TypeOK
  <2>4. \A d \in Conns : peer'[d] = "gather" => d # c /\ peer[d] = "gather"
    BY <2>1 DEF TypeOK
  <2>5. Len(queue) \in Nat
    BY DEF TypeOK
  <2>6. \A d \in Conns : peer'[d] = "gather" => OfferedBefore(d, Len(queue) + 1)'
    BY <2>1, <2>3, <2>4, <2>5 DEF OfferInv
  <2>7. ASSUME NEW d \in Conns, NEW i \in 1 .. Len(queue'), queue'[i] = CandidateTo(d)
        PROVE  OfferedBefore(d, i)'
    BY <2>1, <2>2, <2>3, <2>7 DEF OfferInv, CandidateTo
  <2>8. \A i \in 1 .. Len(queue') : conn'[queue'[i].conn] # "absent"
    BY <1>0, <1>a, <2>1 DEF TypeOK
  <2> QED
    BY <2>1, <2>6, <2>7, <2>8 DEF OfferInv, OfferComesFirst
<1>3. ASSUME NEW c \in Conns, Answer(c) PROVE OfferInv'
  BY <1>3, <1>a, QuietKeepsOffers DEF Answer, soupVars
<1>4. ASSUME NEW c \in Conns, Closed(c) PROVE OfferInv'
  BY <1>0, <1>a, <1>4, QuietKeepsOffers DEF Closed, binVars, TypeOK
<1>5. ASSUME NEW c \in Conns, Timeout(c) PROVE OfferInv'
  BY <1>0, <1>a, <1>5, QuietKeepsOffers DEF Timeout, CloseIfOpen, binVars, TypeOK
<1>6. ASSUME NEW c \in Conns, Callback(c) PROVE OfferInv'
  <2>1. CASE NegotiationNeeded(c)
    BY <1>a, <2>1, QuietKeepsOffers DEF NegotiationNeeded, soupVars, TypeOK
  <2>2. CASE OfferCreated(c)
    <3>1. conn[c] # "absent" /\ UNCHANGED <<conn, wire>>
      BY <2>2 DEF OfferCreated, SessionInv, soupVars
    <3>2. CASE Dispatch("offer", c) /\ peer' = [peer EXCEPT ![c] = "gather"]
      BY <3>1, <3>2, DispatchKeepsOffers DEF TypeOK, Messages
    <3>3. CASE peer' = [peer EXCEPT ![c] = "done"] /\ UNCHANGED queue
      BY <1>a, <3>1, <3>3, QuietKeepsOffers DEF TypeOK
    <3> QED
      BY <2>2, <3>2, <3>3 DEF OfferCreated
  <2>3. CASE IceCandidate(c)
    <3>1. /\ conn[c] # "absent" /\ UNCHANGED <<conn, wire>> /\ peer[c] = "gather"
          /\ Dispatch("candidate", c) /\ peer' = [peer EXCEPT ![c] = "done"]
      BY <2>3 DEF IceCandidate, SessionInv, soupVars
    <3>2. OfferedBefore(c, Len(queue) + 1)
      BY <3>1 DEF OfferInv
    <3> QED
      BY <3>1, <3>2, DispatchKeepsOffers DEF TypeOK, Messages
  <2>4. CASE TransportConnects(c)
    BY <1>a, <2>4, QuietKeepsOffers DEF TransportConnects, soupVars
  <2>5. CASE TransportFails(c)
    BY <1>a, <2>5, QuietKeepsOffers DEF TransportFails, soupVars
  <2> QED
    BY <1>6, <2>1, <2>2, <2>3, <2>4, <2>5 DEF Callback
<1>7. ASSUME NEW c \in Conns, ReportFailure(c) PROVE OfferInv'
  <2>1. /\ conn[c] # "absent" /\ UNCHANGED <<conn, wire, peer>>
        /\ Dispatch("close", c)
    BY <1>7 DEF ReportFailure, SessionInv, soupVars
  <2> QED
    BY <2>1, DispatchKeepsOffers
<1>8. CASE RunAction
  BY <1>8, RunKeepsOffers
<1>9. CASE PipelineNull
  BY <1>0, <1>a, <1>9, QuietKeepsOffers
     DEF PipelineNull, LoseTransports, CloseIfOpen, TypeOK
<1>10. CASE StartPipeline
  BY <1>a, <1>10, QuietKeepsOffers DEF StartPipeline, soupVars, binVars
<1>11. CASE Elapse
  BY <1>a, <1>11, QuietKeepsOffers DEF Elapse, soupVars, binVars
<1>12. CASE UNCHANGED vars
  BY <1>a, <1>12, QuietKeepsOffers DEF vars, soupVars, binVars
<1> QED
  BY <1>1, <1>2, <1>3, <1>4, <1>5, <1>6, <1>7, <1>8, <1>9, <1>10, <1>11, <1>12
     DEF Next

(* A client gets the offer before any candidate, whatever the threads do.  *)
THEOREM OfferFirst == Spec => []OfferComesFirst
<1>1. Init => OfferInv
  BY DEF Init, OfferInv, OfferComesFirst
<1>2. (TypeOK /\ SessionInv) /\ OfferInv /\ [Next]_vars => OfferInv'
  BY StepOffers
<1>3. OfferInv => OfferComesFirst
  BY DEF OfferInv
<1> QED
  BY <1>1, <1>2, <1>3, SessionInvariant, PTL DEF Spec

-----------------------------------------------------------------------------
(* The promise to clients.                                                 *)

phases == [c \in Conns |-> Phase(c)]

(* If at most one client's phase changes, and in one of these ways, the    *)
(* step is one of ClientSessions or a stutter.                             *)
LEMMA OneClientAtATime ==
  ASSUME NEW c \in Conns,
         \A d \in Conns \ {c} : Phase(d)' = Phase(d),
         \/ Phase(c)' = Phase(c)
         \/ Phase(c) = "absent" /\ Phase(c)' \in {"waiting", "broken"}
         \/ Phase(c) = "waiting" /\ Phase(c)' = "streaming"
         \/ Phase(c) \in {"waiting", "streaming"} /\ Phase(c)' \in {"broken", "gone"}
         \/ Phase(c) = "broken" /\ Phase(c)' = "gone"
  PROVE  [Promise!Next]_phases
<1>1. phases' = [phases EXCEPT ![c] = Phase(c)']
  BY DEF phases
<1>2. phases[c] = Phase(c)
  BY DEF phases
<1>3. CASE Phase(c)' = Phase(c)
  BY <1>3 DEF phases
<1>4. CASE Phase(c) = "absent" /\ Phase(c)' = "waiting"
  BY <1>1, <1>2, <1>4 DEF phases, Promise!Next, Promise!Accept, Promise!Becomes
<1>5. CASE Phase(c) = "absent" /\ Phase(c)' = "broken"
  BY <1>1, <1>2, <1>5 DEF phases, Promise!Next, Promise!TurnAway, Promise!Becomes
<1>6. CASE Phase(c) = "waiting" /\ Phase(c)' = "streaming"
  BY <1>1, <1>2, <1>6 DEF phases, Promise!Next, Promise!Establish, Promise!Becomes
<1>7. CASE Phase(c) \in {"waiting", "streaming"} /\ Phase(c)' = "broken"
  BY <1>1, <1>2, <1>7 DEF phases, Promise!Next, Promise!Break, Promise!Becomes
<1>8. CASE Phase(c) \in {"waiting", "streaming", "broken"} /\ Phase(c)' = "gone"
  BY <1>1, <1>2, <1>8 DEF phases, Promise!Next, Promise!Leave, Promise!Becomes
<1> QED
  BY <1>3, <1>4, <1>5, <1>6, <1>7, <1>8

(* Every step is a step of the promise, or hides from the clients.         *)
LEMMA StepKeepsPromise ==
  ASSUME TypeOK, SessionInv, [Next]_vars
  PROVE  [Promise!Next]_phases
<1> USE DEF TypeOK, Phase, ConnStates, Transports
<1>1. ASSUME NEW c \in Conns, OpenRefused(c) PROVE [Promise!Next]_phases
  BY <1>1, OneClientAtATime DEF OpenRefused, binVars
<1>2. ASSUME NEW c \in Conns, OpenSession(c) PROVE [Promise!Next]_phases
  BY <1>2, OneClientAtATime DEF OpenSession, SessionInv
<1>3. ASSUME NEW c \in Conns, Answer(c) PROVE [Promise!Next]_phases
  BY <1>3, OneClientAtATime DEF Answer, soupVars
<1>4. ASSUME NEW c \in Conns, Closed(c) PROVE [Promise!Next]_phases
  BY <1>4, OneClientAtATime DEF Closed, binVars
<1>5. ASSUME NEW c \in Conns, Timeout(c) PROVE [Promise!Next]_phases
  BY <1>5, OneClientAtATime DEF Timeout, CloseIfOpen, binVars
<1>6. ASSUME NEW c \in Conns, Callback(c) PROVE [Promise!Next]_phases
  <2>1. CASE NegotiationNeeded(c)
    BY <2>1, OneClientAtATime DEF NegotiationNeeded, soupVars
  <2>2. CASE OfferCreated(c)
    BY <2>2, OneClientAtATime DEF OfferCreated, soupVars
  <2>3. CASE IceCandidate(c)
    BY <2>3, OneClientAtATime DEF IceCandidate, soupVars
  <2>4. CASE TransportConnects(c)
    BY <2>4, OneClientAtATime DEF TransportConnects, soupVars
  <2>5. CASE TransportFails(c)
    BY <2>5, OneClientAtATime DEF TransportFails, soupVars
  <2> QED
    BY <1>6, <2>1, <2>2, <2>3, <2>4, <2>5 DEF Callback
<1>7. ASSUME NEW c \in Conns, ReportFailure(c) PROVE [Promise!Next]_phases
  BY <1>7, OneClientAtATime DEF ReportFailure, soupVars
<1>8. CASE RunAction
  <2>1. Head(queue).conn \in Conns
    <3>1. Head(queue) \in Actions
      BY <1>8 DEF RunAction
    <3> QED
      BY <3>1 DEF Actions
  <2>2. UNCHANGED conn \/ CloseIfOpen({Head(queue).conn})
    BY <1>8 DEF RunAction
  <2>3. UNCHANGED transport
    BY <1>8 DEF RunAction, binVars
  <2> QED
    BY <2>1, <2>2, <2>3, OneClientAtATime DEF CloseIfOpen
<1>9. CASE PipelineNull
  <2>1. \A d \in Conns :
          Phase(d)' = IF Phase(d) \in {"waiting", "streaming"} THEN "broken"
                                                             ELSE Phase(d)
    BY <1>9 DEF PipelineNull, LoseTransports, CloseIfOpen, SessionInv,
                SessionsHaveConnections
  <2> QED
    BY <2>1 DEF phases, Promise!Next, Promise!BreakAll
<1>10. CASE StartPipeline
  BY <1>10 DEF StartPipeline, soupVars, binVars, phases
<1>11. CASE Elapse
  BY <1>11 DEF Elapse, soupVars, binVars, phases
<1>12. CASE UNCHANGED vars
  BY <1>12 DEF vars, soupVars, binVars, phases
<1> QED
  BY <1>1, <1>2, <1>3, <1>4, <1>5, <1>6, <1>7, <1>8, <1>9, <1>10, <1>11, <1>12
     DEF Next

(* The output implements what it promises its clients, as far as safety    *)
(* goes: every phase a client is in comes from one it may come from.       *)
THEOREM KeepsPromise == Spec => Promise!SafeSpec
<1>1. Init => Promise!Init
  BY DEF Init, Promise!Init, Phase
<1>2. (TypeOK /\ SessionInv) /\ [Next]_vars => [Promise!Next]_phases
  BY StepKeepsPromise
<1> QED
  BY <1>1, <1>2, SessionInvariant, PTL DEF Spec, Promise!SafeSpec, phases

=============================================================================
