------------------------- MODULE BrokerPipe_proofs -------------------------
(***************************************************************************)
(* PipeInv is an invariant of BrokerPipe for any set of clients and        *)
(* checkers, and with it the safety of the answers they are given.  One    *)
(* lemma per action shows that it keeps PipeInv, one step per part.        *)
(***************************************************************************)
EXTENDS BrokerPipeInvariant, TLAPS

-----------------------------------------------------------------------------
(* The channel between a caller and its worker *)

\* What appending an event to a channel does.
LEMMA Sending ==
    ASSUME NEW S, NEW s \in Seq(S), NEW e \in S
    PROVE  /\ Append(s, e) \in Seq(S) /\ Len(Append(s, e)) = Len(s) + 1
           /\ \A i \in 1 .. Len(s) : Append(s, e)[i] = s[i]
           /\ Append(s, e)[Len(s) + 1] = e
OBVIOUS

\* What reading the first event of a channel does.
LEMMA Receiving ==
    ASSUME NEW S, NEW s \in Seq(S), s # <<>>
    PROVE  /\ Head(s) = s[1] /\ Head(s) \in S /\ 1 \in 1 .. Len(s)
           /\ Tail(s) \in Seq(S) /\ Len(Tail(s)) = Len(s) - 1 /\ Len(s) \in Nat
           /\ \A i \in 1 .. Len(Tail(s)) : Tail(s)[i] = s[i + 1] /\ i + 1 \in 1 .. Len(s)
OBVIOUS

\* A step does not take back what c has been told: an outcome changes once,
\* while the request is pending, a worker ends once, and a request becomes
\* pending only when its worker writes it.
Keeps(c) ==
    /\ outcome'[c] = outcome[c] \/ (outcome[c] = "none" /\ Pending(c))
    /\ work[c] = "finished" => work'[c] = "finished"
    /\ Pending(c)' => Pending(c) \/ work[c] = "write"
    /\ died => died'

\* What was true when it was sent is true when it is read.
LEMMA TruthLasts ==
    ASSUME NEW c \in Callers, NEW e, StillTrue(c, e), Keeps(c)
    PROVE  StillTrue(c, e)'
BY DEF StillTrue, Keeps, Outcomes, Failures, ConnectFailures

\* For a caller that neither sends, receives nor returns, the events stay in
\* order.
LEMMA EventsLast ==
    ASSUME NEW c \in Callers, EventsOf(c), Keeps(c),
           chan'[c] = chan[c], result'[c] = result[c],
           main'[c] = main[c], work'[c] = work[c]
    PROVE  EventsOf(c)'
<1>1. \A i \in 1 .. Len(chan[c]) : StillTrue(c, chan[c][i])'
  BY TruthLasts DEF EventsOf
<1>2. StillTrue(c, result[c])'
  BY TruthLasts DEF EventsOf
<1> QED
  BY <1>1, <1>2 DEF EventsOf, StillTrue

-----------------------------------------------------------------------------
(* The initial state *)

\* Nobody has connected and nothing is under way.
LEMMA InitPipeInv == Init => PipeInv
<1> SUFFICES ASSUME Init PROVE PipeInv
  OBVIOUS
<1>1. TypeOK
  <2>1. <<>> \in Seq({"Connected"} \cup Outcomes \cup Failures)
    OBVIOUS
  <2> QED
    BY <2>1 DEF Init, TypeOK, ServiceSteps, ServerSteps, WorkerSteps
<1>2. InstanceByStep /\ ServedOnce /\ TurnedAway
  BY PeersAreDistinct DEF Init, InstanceByStep, ServedOnce, TurnedAway, Pending
<1>3. EndByWork /\ ResponseTaken
  BY PeersAreDistinct DEF Init, EndByWork, EndOf, ResponseTaken, BeforeOpen
<1>4. EventsInOrder
  BY DEF Init, EventsInOrder, EventsOf, StillTrue, Outcomes, Failures, ConnectFailures
<1> QED
  BY <1>1, <1>2, <1>3, <1>4 DEF PipeInv

-----------------------------------------------------------------------------
(* The steps of the server thread *)

\* The flag ends the loop or a new round starts; nothing else changes.
LEMMA CheckStopInv == PipeInv /\ CheckStop => PipeInv'
<1> SUFFICES ASSUME PipeInv, CheckStop PROVE PipeInv'
  OBVIOUS
<1>1. TypeOK'
  BY PeersAreDistinct
     DEF PipeInv, TypeOK, CheckStop, Server, serviceVars, clientVars, pipeVars,
         ServerGoes, ServerSteps, Callers
<1>2. InstanceByStep'
  BY DEF PipeInv, InstanceByStep, CheckStop, Server, serviceVars, clientVars, pipeVars,
         ServerGoes
<1>3. EndByWork'
  BY DEF PipeInv, TypeOK, InstanceByStep, EndByWork, EndOf, ServedOnce, ResponseTaken,
         CheckStop, Server, serviceVars, clientVars, pipeVars, ServerGoes, PeerHungUp
<1>4. ServedOnce'
  BY DEF PipeInv, TypeOK, InstanceByStep, ServedOnce, Pending, CheckStop, Server,
         serviceVars, clientVars, pipeVars, ServerGoes, PeerHungUp, Callers
<1>5. ResponseTaken'
  BY DEF PipeInv, TypeOK, InstanceByStep, EndByWork, EndOf, ServedOnce, ResponseTaken,
         CheckStop, Server, serviceVars, clientVars, pipeVars, ServerGoes, PeerHungUp
<1>6. EventsInOrder'
  <2> SUFFICES ASSUME NEW c \in Callers PROVE EventsOf(c)'
    BY DEF EventsInOrder
  <2>1. Keeps(c)
    BY DEF PipeInv, TypeOK, InstanceByStep, ServedOnce, Keeps, Pending, CheckStop,
           Server, serviceVars, clientVars, pipeVars, ServerGoes
  <2> QED
    BY <2>1, EventsLast
       DEF PipeInv, EventsInOrder, CheckStop, Server, serviceVars, clientVars,
           pipeVars, ServerGoes
<1>7. TurnedAway'
  BY DEF PipeInv, TypeOK, InstanceByStep, ServedOnce, TurnedAway, CheckStop, Server,
         serviceVars, clientVars, pipeVars, ServerGoes
<1> QED
  BY <1>1, <1>2, <1>3, <1>4, <1>5, <1>6, <1>7 DEF PipeInv

\* A new instance is free: nobody holds its other end.
LEMMA CreatePipeInv == PipeInv /\ CreatePipe => PipeInv'
<1> SUFFICES ASSUME PipeInv, CreatePipe PROVE PipeInv'
  OBVIOUS
<1>1. TypeOK'
  BY PeersAreDistinct
     DEF PipeInv, TypeOK, CreatePipe, Server, serviceVars, clientVars, pipeVars,
         ServerGoes, ServerSteps, Callers
<1>2. InstanceByStep'
  BY DEF PipeInv, InstanceByStep, CreatePipe, Server, serviceVars, clientVars,
         pipeVars, ServerGoes
<1>3. EndByWork'
  BY DEF PipeInv, TypeOK, InstanceByStep, EndByWork, EndOf, ServedOnce, ResponseTaken,
         CreatePipe, Server, serviceVars, clientVars, pipeVars, ServerGoes, PeerHungUp
<1>4. ServedOnce'
  BY PeersAreDistinct
     DEF PipeInv, TypeOK, InstanceByStep, ServedOnce, Pending, CreatePipe, Server,
         serviceVars, clientVars, pipeVars, ServerGoes, PeerHungUp, Callers
<1>5. ResponseTaken'
  BY DEF PipeInv, TypeOK, InstanceByStep, EndByWork, EndOf, ServedOnce, ResponseTaken,
         CreatePipe, Server, serviceVars, clientVars, pipeVars, ServerGoes, PeerHungUp
<1>6. EventsInOrder'
  <2> SUFFICES ASSUME NEW c \in Callers PROVE EventsOf(c)'
    BY DEF EventsInOrder
  <2>1. Keeps(c)
    BY DEF PipeInv, TypeOK, InstanceByStep, ServedOnce, Keeps, Pending, CreatePipe,
           Server, serviceVars, clientVars, pipeVars, ServerGoes
  <2> QED
    BY <2>1, EventsLast
       DEF PipeInv, EventsInOrder, CreatePipe, Server, serviceVars, clientVars,
           pipeVars, ServerGoes
<1>7. TurnedAway'
  BY DEF PipeInv, TypeOK, InstanceByStep, ServedOnce, TurnedAway, CreatePipe, Server,
         serviceVars, clientVars, pipeVars, ServerGoes
<1> QED
  BY <1>1, <1>2, <1>3, <1>4, <1>5, <1>6, <1>7 DEF PipeInv

\* Whoever came and went before the server listened is not served.
LEMMA ListenInv == PipeInv /\ Listen => PipeInv'
<1> SUFFICES ASSUME PipeInv, Listen PROVE PipeInv'
  OBVIOUS
<1>1. TypeOK'
  BY PeersAreDistinct
     DEF PipeInv, TypeOK, Listen, CloseInstance, Server, serviceVars, clientVars,
         pipeVars, ServerGoes, ServerSteps, Callers
<1>2. InstanceByStep'
  BY DEF PipeInv, InstanceByStep, Listen, CloseInstance, Server, serviceVars,
         clientVars, pipeVars, ServerGoes
<1>3. EndByWork'
  BY PeersAreDistinct
     DEF PipeInv, TypeOK, InstanceByStep, EndByWork, EndOf, ServedOnce, ResponseTaken,
         Listen, CloseInstance, Server, serviceVars, clientVars, pipeVars, ServerGoes,
         PeerHungUp, Callers
<1>4. ServedOnce'
  BY PeersAreDistinct
     DEF PipeInv, TypeOK, InstanceByStep, ServedOnce, Pending, Listen, CloseInstance,
         Server, serviceVars, clientVars, pipeVars, ServerGoes, PeerHungUp, Callers
<1>5. ResponseTaken'
  BY DEF PipeInv, TypeOK, InstanceByStep, EndByWork, EndOf, ServedOnce, ResponseTaken,
         Listen, CloseInstance, Server, serviceVars, clientVars, pipeVars, ServerGoes,
         PeerHungUp
<1>6. EventsInOrder'
  <2> SUFFICES ASSUME NEW c \in Callers PROVE EventsOf(c)'
    BY DEF EventsInOrder
  <2>1. Keeps(c)
    BY DEF PipeInv, TypeOK, InstanceByStep, ServedOnce, Keeps, Pending, Listen,
           CloseInstance, Server, serviceVars, clientVars, pipeVars, ServerGoes
  <2> QED
    BY <2>1, EventsLast
       DEF PipeInv, EventsInOrder, Listen, CloseInstance, Server, serviceVars,
           clientVars, pipeVars, ServerGoes
<1>7. TurnedAway'
  BY PeersAreDistinct
     DEF PipeInv, TypeOK, InstanceByStep, ServedOnce, TurnedAway, Listen,
         CloseInstance, Server, serviceVars, clientVars, pipeVars, ServerGoes, Callers
<1> QED
  BY <1>1, <1>2, <1>3, <1>4, <1>5, <1>6, <1>7 DEF PipeInv

\* The server wakes up with a peer.
LEMMA ClientArrivedInv == PipeInv /\ ClientArrived => PipeInv'
<1> SUFFICES ASSUME PipeInv, ClientArrived PROVE PipeInv'
  OBVIOUS
<1>1. TypeOK'
  BY PeersAreDistinct
     DEF PipeInv, TypeOK, ClientArrived, Server, serviceVars, clientVars, pipeVars,
         ServerGoes, ServerSteps, Callers
<1>2. InstanceByStep'
  BY DEF PipeInv, InstanceByStep, ClientArrived, Server, serviceVars, clientVars,
         pipeVars, ServerGoes
<1>3. EndByWork'
  BY DEF PipeInv, TypeOK, InstanceByStep, EndByWork, EndOf, ServedOnce, ResponseTaken,
         ClientArrived, Server, serviceVars, clientVars, pipeVars, ServerGoes,
         PeerHungUp
<1>4. ServedOnce'
  BY DEF PipeInv, TypeOK, InstanceByStep, ServedOnce, Pending, ClientArrived, Server,
         serviceVars, clientVars, pipeVars, ServerGoes, PeerHungUp, Callers
<1>5. ResponseTaken'
  BY DEF PipeInv, TypeOK, InstanceByStep, EndByWork, EndOf, ServedOnce, ResponseTaken,
         ClientArrived, Server, serviceVars, clientVars, pipeVars, ServerGoes,
         PeerHungUp
<1>6. EventsInOrder'
  <2> SUFFICES ASSUME NEW c \in Callers PROVE EventsOf(c)'
    BY DEF EventsInOrder
  <2>1. Keeps(c)
    BY DEF PipeInv, TypeOK, InstanceByStep, ServedOnce, Keeps, Pending, ClientArrived,
           Server, serviceVars, clientVars, pipeVars, ServerGoes
  <2> QED
    BY <2>1, EventsLast
       DEF PipeInv, EventsInOrder, ClientArrived, Server, serviceVars, clientVars,
           pipeVars, ServerGoes
<1>7. TurnedAway'
  BY DEF PipeInv, TypeOK, InstanceByStep, ServedOnce, TurnedAway, ClientArrived,
         Server, serviceVars, clientVars, pipeVars, ServerGoes
<1> QED
  BY <1>1, <1>2, <1>3, <1>4, <1>5, <1>6, <1>7 DEF PipeInv

\* Whoever is turned away has not been served, and a late caller always is.
LEMMA RecheckStopInv == PipeInv /\ RecheckStop => PipeInv'
<1> SUFFICES ASSUME PipeInv, RecheckStop PROVE PipeInv'
  OBVIOUS
<1>1. TypeOK'
  BY PeersAreDistinct
     DEF PipeInv, TypeOK, RecheckStop, CloseInstance, Server, serviceVars, clientVars,
         pipeVars, ServerGoes, ServerSteps, Callers
<1>2. InstanceByStep'
  BY DEF PipeInv, InstanceByStep, RecheckStop, CloseInstance, Server, serviceVars,
         clientVars, pipeVars, ServerGoes
<1>3. EndByWork'
  BY PeersAreDistinct
     DEF PipeInv, TypeOK, InstanceByStep, EndByWork, EndOf, ServedOnce, ResponseTaken,
         RecheckStop, CloseInstance, Server, serviceVars, clientVars, pipeVars,
         ServerGoes, PeerHungUp, Callers
<1>4. ServedOnce'
  BY PeersAreDistinct
     DEF PipeInv, TypeOK, InstanceByStep, ServedOnce, Pending, RecheckStop,
         CloseInstance, Server, serviceVars, clientVars, pipeVars, ServerGoes,
         PeerHungUp, Callers
<1>5. ResponseTaken'
  BY DEF PipeInv, TypeOK, InstanceByStep, EndByWork, EndOf, ServedOnce, ResponseTaken,
         RecheckStop, CloseInstance, Server, serviceVars, clientVars, pipeVars,
         ServerGoes, PeerHungUp
<1>6. EventsInOrder'
  <2> SUFFICES ASSUME NEW c \in Callers PROVE EventsOf(c)'
    BY DEF EventsInOrder
  <2>1. Keeps(c)
    BY DEF PipeInv, TypeOK, InstanceByStep, ServedOnce, Keeps, Pending, RecheckStop,
           CloseInstance, Server, serviceVars, clientVars, pipeVars, ServerGoes
  <2> QED
    BY <2>1, EventsLast
       DEF PipeInv, EventsInOrder, RecheckStop, CloseInstance, Server, serviceVars,
           clientVars, pipeVars, ServerGoes
<1>7. TurnedAway'
  BY PeersAreDistinct
     DEF PipeInv, TypeOK, InstanceByStep, ServedOnce, TurnedAway, RecheckStop,
         CloseInstance, Server, serviceVars, clientVars, pipeVars, ServerGoes, Callers
<1> QED
  BY <1>1, <1>2, <1>3, <1>4, <1>5, <1>6, <1>7 DEF PipeInv

\* What is served next is the request of the peer.
LEMMA ReadRequestInv == PipeInv /\ ReadRequest => PipeInv'
<1> SUFFICES ASSUME PipeInv, ReadRequest PROVE PipeInv'
  OBVIOUS
<1>1. TypeOK'
  BY PeersAreDistinct
     DEF PipeInv, TypeOK, ReadRequest, CloseInstance, Server, serviceVars, clientVars,
         pipeVars, ServerGoes, ServerSteps, Callers
<1>2. InstanceByStep'
  BY DEF PipeInv, InstanceByStep, ReadRequest, CloseInstance, Server, serviceVars,
         clientVars, pipeVars, ServerGoes
<1>3. EndByWork'
  BY PeersAreDistinct
     DEF PipeInv, TypeOK, InstanceByStep, EndByWork, EndOf, ServedOnce, ResponseTaken,
         ReadRequest, CloseInstance, Server, serviceVars, clientVars, pipeVars,
         ServerGoes, PeerHungUp, Callers
<1>4. ServedOnce'
  BY PeersAreDistinct
     DEF PipeInv, TypeOK, InstanceByStep, ServedOnce, Pending, ReadRequest,
         CloseInstance, Server, serviceVars, clientVars, pipeVars, ServerGoes,
         PeerHungUp, Callers
<1>5. ResponseTaken'
  BY DEF PipeInv, TypeOK, InstanceByStep, EndByWork, EndOf, ServedOnce, ResponseTaken,
         ReadRequest, CloseInstance, Server, serviceVars, clientVars, pipeVars,
         ServerGoes, PeerHungUp
<1>6. EventsInOrder'
  <2> SUFFICES ASSUME NEW c \in Callers PROVE EventsOf(c)'
    BY DEF EventsInOrder
  <2>1. Keeps(c)
    BY DEF PipeInv, TypeOK, InstanceByStep, ServedOnce, Keeps, Pending, ReadRequest,
           CloseInstance, Server, serviceVars, clientVars, pipeVars, ServerGoes
  <2> QED
    BY <2>1, EventsLast
       DEF PipeInv, EventsInOrder, ReadRequest, CloseInstance, Server, serviceVars,
           clientVars, pipeVars, ServerGoes
<1>7. TurnedAway'
  BY PeersAreDistinct
     DEF PipeInv, TypeOK, InstanceByStep, ServedOnce, TurnedAway, ReadRequest,
         CloseInstance, Server, serviceVars, clientVars, pipeVars, ServerGoes, Callers
<1> QED
  BY <1>1, <1>2, <1>3, <1>4, <1>5, <1>6, <1>7 DEF PipeInv

\* The verdict is the outcome of the peer, whose first it is.
LEMMA ServeRequestInv == PipeInv /\ ServeRequest => PipeInv'
<1> SUFFICES ASSUME PipeInv, ServeRequest PROVE PipeInv'
  OBVIOUS
<1>1. TypeOK'
  <2>1. peer \in Callers
    BY DEF PipeInv, ServedOnce, ServeRequest, Callers
  <2> QED
    BY <2>1 DEF PipeInv, TypeOK, ServeRequest, Server, serviceVars, clientVars, pipeVars,
           ServerGoes, ServerSteps
<1>2. InstanceByStep'
  BY DEF PipeInv, InstanceByStep, ServeRequest, Server, serviceVars, clientVars,
         pipeVars, ServerGoes
<1>3. EndByWork'
  BY DEF PipeInv, TypeOK, InstanceByStep, EndByWork, EndOf, ServedOnce, ResponseTaken,
         ServeRequest, Server, serviceVars, clientVars, pipeVars, ServerGoes,
         PeerHungUp
<1>4. ServedOnce'
  <2>1. peer \in Clients /\ srv' = "write" /\ UNCHANGED <<peer, inbox, work>>
    BY DEF PipeInv, ServedOnce, ServeRequest, Server, clientVars, pipeVars, ServerGoes
  <2>2. PICK v \in Outcomes : verdict' = v /\ outcome' = [outcome EXCEPT ![peer] = v]
    BY DEF ServeRequest
  <2>3. v # "none" /\ peer \in Callers
    BY <2>1 DEF Outcomes, Callers
  <2> QED
    BY <2>1, <2>2, <2>3 DEF PipeInv, TypeOK, ServedOnce, Pending, ServeRequest
<1>5. ResponseTaken'
  BY DEF PipeInv, TypeOK, InstanceByStep, EndByWork, EndOf, ServedOnce, ResponseTaken,
         ServeRequest, Server, serviceVars, clientVars, pipeVars, ServerGoes,
         PeerHungUp
<1>6. EventsInOrder'
  <2> SUFFICES ASSUME NEW c \in Callers PROVE EventsOf(c)'
    BY DEF EventsInOrder
  <2>1. Keeps(c)
    BY DEF PipeInv, TypeOK, InstanceByStep, ServedOnce, Keeps, Pending, ServeRequest,
           Server, serviceVars, clientVars, pipeVars, ServerGoes
  <2> QED
    BY <2>1, EventsLast
       DEF PipeInv, EventsInOrder, ServeRequest, Server, serviceVars, clientVars,
           pipeVars, ServerGoes
<1>7. TurnedAway'
  BY DEF PipeInv, TypeOK, InstanceByStep, ServedOnce, TurnedAway, ServeRequest, Server,
         serviceVars, clientVars, pipeVars, ServerGoes
<1> QED
  BY <1>1, <1>2, <1>3, <1>4, <1>5, <1>6, <1>7 DEF PipeInv

\* The response reaches the caller whose outcome it is, or nobody.
LEMMA WriteResponseInv == PipeInv /\ WriteResponse => PipeInv'
<1> SUFFICES ASSUME PipeInv, WriteResponse PROVE PipeInv'
  OBVIOUS
<1>1. TypeOK'
  BY PeersAreDistinct
     DEF PipeInv, TypeOK, WriteResponse, CloseInstance, Server, serviceVars,
         clientVars, pipeVars, ServerGoes, ServerSteps, Callers
<1>2. InstanceByStep'
  BY DEF PipeInv, InstanceByStep, WriteResponse, CloseInstance, Server, serviceVars,
         clientVars, pipeVars, ServerGoes
<1>3. EndByWork'
  <2>1. /\ srv = "write" /\ pipe = "connected" /\ UNCHANGED <<work, outcome, died>>
        /\ \/ PeerHungUp /\ CloseInstance
           \/ UNCHANGED <<pipe, peer, handle>>
    BY DEF PipeInv, InstanceByStep, WriteResponse, Server, serviceVars, clientVars
  <2> QED
    BY <2>1, PeersAreDistinct DEF PipeInv, TypeOK, EndByWork, EndOf, CloseInstance,
       PeerHungUp, Callers
<1>4. ServedOnce'
  BY PeersAreDistinct
     DEF PipeInv, TypeOK, InstanceByStep, ServedOnce, Pending, WriteResponse,
         CloseInstance, Server, serviceVars, clientVars, pipeVars, ServerGoes,
         PeerHungUp, Callers
<1>5. ResponseTaken'
  <2>1. /\ srv = "write" /\ srv' \in {"check", "flush"} /\ UNCHANGED outcome
        /\ \/ CloseInstance /\ UNCHANGED reply
           \/ /\ ~PeerHungUp /\ reply' = [reply EXCEPT ![peer] = verdict]
              /\ UNCHANGED <<peer, handle>>
    BY DEF WriteResponse, ServerGoes
  <2>2. verdict \in Outcomes /\ outcome[peer] = verdict /\ peer \in Clients /\ "none" \notin Outcomes
    BY <2>1 DEF PipeInv, TypeOK, ServedOnce, Outcomes
  <2>3. CASE CloseInstance /\ UNCHANGED reply
    BY <2>1, <2>3, PeersAreDistinct DEF PipeInv, TypeOK, ResponseTaken, CloseInstance
  <2>4. CASE /\ ~PeerHungUp /\ reply' = [reply EXCEPT ![peer] = verdict]
             /\ UNCHANGED <<peer, handle>>
    <3>1. handle[peer] = "open" /\ srv' = "flush"
      BY <2>1, <2>2, <2>4 DEF PipeInv, InstanceByStep, WriteResponse, ServerGoes, PeerHungUp
    <3> QED
      BY <2>1, <2>2, <2>4, <3>1 DEF PipeInv, TypeOK, ResponseTaken, Callers
  <2> QED
    BY <2>1, <2>3, <2>4
<1>6. EventsInOrder'
  <2> SUFFICES ASSUME NEW c \in Callers PROVE EventsOf(c)'
    BY DEF EventsInOrder
  <2>1. Keeps(c)
    BY DEF PipeInv, TypeOK, InstanceByStep, ServedOnce, Keeps, Pending, WriteResponse,
           CloseInstance, Server, serviceVars, clientVars, pipeVars, ServerGoes
  <2> QED
    BY <2>1, EventsLast
       DEF PipeInv, EventsInOrder, WriteResponse, CloseInstance, Server, serviceVars,
           clientVars, pipeVars, ServerGoes
<1>7. TurnedAway'
  BY PeersAreDistinct
     DEF PipeInv, TypeOK, InstanceByStep, ServedOnce, TurnedAway, WriteResponse,
         CloseInstance, Server, serviceVars, clientVars, pipeVars, ServerGoes, Callers
<1> QED
  BY <1>1, <1>2, <1>3, <1>4, <1>5, <1>6, <1>7 DEF PipeInv

\* After the flush the peer has hung up: it has read, or gone.
LEMMA FlushInv == PipeInv /\ Flush => PipeInv'
<1> SUFFICES ASSUME PipeInv, Flush PROVE PipeInv'
  OBVIOUS
<1>1. TypeOK'
  BY PeersAreDistinct
     DEF PipeInv, TypeOK, Flush, Server, serviceVars, clientVars, pipeVars, ServerGoes,
         ServerSteps, Callers
<1>2. InstanceByStep'
  BY DEF PipeInv, InstanceByStep, Flush, Server, serviceVars, clientVars, pipeVars,
         ServerGoes
<1>3. EndByWork'
  BY DEF PipeInv, TypeOK, InstanceByStep, EndByWork, EndOf, ServedOnce, ResponseTaken,
         Flush, Server, serviceVars, clientVars, pipeVars, ServerGoes, PeerHungUp
<1>4. ServedOnce'
  BY DEF PipeInv, TypeOK, InstanceByStep, ServedOnce, Pending, Flush, Server,
         serviceVars, clientVars, pipeVars, ServerGoes, PeerHungUp, Callers
<1>5. ResponseTaken'
  BY DEF PipeInv, TypeOK, InstanceByStep, EndByWork, EndOf, ServedOnce, ResponseTaken,
         Flush, Server, serviceVars, clientVars, pipeVars, ServerGoes, PeerHungUp
<1>6. EventsInOrder'
  <2> SUFFICES ASSUME NEW c \in Callers PROVE EventsOf(c)'
    BY DEF EventsInOrder
  <2>1. Keeps(c)
    BY DEF PipeInv, TypeOK, InstanceByStep, ServedOnce, Keeps, Pending, Flush, Server,
           serviceVars, clientVars, pipeVars, ServerGoes
  <2> QED
    BY <2>1, EventsLast
       DEF PipeInv, EventsInOrder, Flush, Server, serviceVars, clientVars, pipeVars,
           ServerGoes
<1>7. TurnedAway'
  BY DEF PipeInv, TypeOK, InstanceByStep, ServedOnce, TurnedAway, Flush, Server,
         serviceVars, clientVars, pipeVars, ServerGoes
<1> QED
  BY <1>1, <1>2, <1>3, <1>4, <1>5, <1>6, <1>7 DEF PipeInv

\* Nothing unread is thrown away, for the peer has hung up.
LEMMA DisconnectInv == PipeInv /\ Disconnect => PipeInv'
<1> SUFFICES ASSUME PipeInv, Disconnect PROVE PipeInv'
  OBVIOUS
<1>1. TypeOK'
  BY PeersAreDistinct
     DEF PipeInv, TypeOK, Disconnect, CloseInstance, Server, serviceVars, clientVars,
         pipeVars, ServerGoes, ServerSteps, Callers
<1>2. InstanceByStep'
  BY DEF PipeInv, InstanceByStep, Disconnect, CloseInstance, Server, serviceVars,
         clientVars, pipeVars, ServerGoes
<1>3. EndByWork'
  BY PeersAreDistinct
     DEF PipeInv, TypeOK, InstanceByStep, EndByWork, EndOf, ServedOnce, ResponseTaken,
         Disconnect, CloseInstance, Server, serviceVars, clientVars, pipeVars,
         ServerGoes, PeerHungUp, Callers
<1>4. ServedOnce'
  BY PeersAreDistinct
     DEF PipeInv, TypeOK, InstanceByStep, ServedOnce, Pending, Disconnect,
         CloseInstance, Server, serviceVars, clientVars, pipeVars, ServerGoes,
         PeerHungUp, Callers
<1>5. ResponseTaken'
  BY DEF PipeInv, TypeOK, InstanceByStep, EndByWork, EndOf, ServedOnce, ResponseTaken,
         Disconnect, CloseInstance, Server, serviceVars, clientVars, pipeVars,
         ServerGoes, PeerHungUp
<1>6. EventsInOrder'
  <2> SUFFICES ASSUME NEW c \in Callers PROVE EventsOf(c)'
    BY DEF EventsInOrder
  <2>1. Keeps(c)
    BY DEF PipeInv, TypeOK, InstanceByStep, ServedOnce, Keeps, Pending, Disconnect,
           CloseInstance, Server, serviceVars, clientVars, pipeVars, ServerGoes
  <2> QED
    BY <2>1, EventsLast
       DEF PipeInv, EventsInOrder, Disconnect, CloseInstance, Server, serviceVars,
           clientVars, pipeVars, ServerGoes
<1>7. TurnedAway'
  BY PeersAreDistinct
     DEF PipeInv, TypeOK, InstanceByStep, ServedOnce, TurnedAway, Disconnect,
         CloseInstance, Server, serviceVars, clientVars, pipeVars, ServerGoes, Callers
<1> QED
  BY <1>1, <1>2, <1>3, <1>4, <1>5, <1>6, <1>7 DEF PipeInv
-----------------------------------------------------------------------------
(* The main thread of the service, and its end *)

\* A step that leaves the instance and the server thread alone keeps what is
\* known of them.
LEMMA QuietService ==
    ASSUME PipeInv, UNCHANGED <<pipeVars, serverVars, clientVars, late, died>>,
           should_stop => should_stop', svc' # "spawn",
           status' = "Stopped" => svc' = "stopped", svc' = "stopped" => srv = "ended",
           svc' \in ServiceSteps, status' \in {"Running", "StopPending", "Stopped"},
           stopSent' \in BOOLEAN, should_stop' \in BOOLEAN, woken' \in BOOLEAN
    PROVE  PipeInv'
<1> USE DEF pipeVars, serverVars, clientVars
<1>1. TypeOK'
  BY DEF PipeInv, TypeOK
<1>2. InstanceByStep' /\ ServedOnce' /\ ResponseTaken'
  BY DEF PipeInv, InstanceByStep, ServedOnce, ResponseTaken, Pending
<1>3. EndByWork'
  BY DEF PipeInv, EndByWork, EndOf
<1>4. EventsInOrder'
  BY DEF PipeInv, EventsInOrder, EventsOf, StillTrue, Pending
<1>5. TurnedAway'
  BY DEF PipeInv, TypeOK, TurnedAway
<1> QED
  BY <1>1, <1>2, <1>3, <1>4, <1>5 DEF PipeInv

\* The flag is never taken back, and only the wake-up touches the instance.
LEMMA ServiceStepInv ==
    PipeInv /\ (StoreStop \/ WakeWait \/ ReportPending \/ JoinServer) => PipeInv'
BY QuietService
   DEF StoreStop, WakeWait, ReportPending, JoinServer, MainThread, pipeVars, serverVars,
       clientVars, PipeInv, TypeOK, InstanceByStep, ServiceSteps

\* A stop control only asks.
LEMMA StopControlInv == PipeInv /\ StopControl => PipeInv'
<1> SUFFICES ASSUME PipeInv, StopControl PROVE PipeInv'
  OBVIOUS
<1> USE DEF StopControl, MainThread, pipeVars, serverVars, clientVars
<1>1. TypeOK'
  BY DEF PipeInv, TypeOK
<1>2. InstanceByStep' /\ ServedOnce' /\ ResponseTaken'
  BY DEF PipeInv, InstanceByStep, ServedOnce, ResponseTaken, Pending
<1>3. EndByWork'
  BY DEF PipeInv, EndByWork, EndOf
<1>4. EventsInOrder'
  BY DEF PipeInv, EventsInOrder, EventsOf, StillTrue, Pending
<1>5. TurnedAway'
  BY DEF PipeInv, TypeOK, TurnedAway
<1> QED
  BY <1>1, <1>2, <1>3, <1>4, <1>5 DEF PipeInv

\* The server thread starts without an instance.
LEMMA SpawnServerInv == PipeInv /\ SpawnServer => PipeInv'
<1> SUFFICES ASSUME PipeInv, SpawnServer PROVE PipeInv'
  OBVIOUS
<1> USE DEF SpawnServer, pipeVars, clientVars
<1>1. TypeOK'
  BY DEF PipeInv, TypeOK, ServerSteps, ServiceSteps
<1>2. InstanceByStep'
  BY DEF PipeInv, InstanceByStep
<1>3. ServedOnce' /\ ResponseTaken'
  BY PeersAreDistinct DEF PipeInv, InstanceByStep, ServedOnce, ResponseTaken, Pending
<1>4. EndByWork'
  BY DEF PipeInv, EndByWork, EndOf
<1>5. EventsInOrder'
  BY DEF PipeInv, InstanceByStep, EventsInOrder, EventsOf, StillTrue, Pending
<1>6. TurnedAway'
  BY PeersAreDistinct DEF PipeInv, TypeOK, InstanceByStep, TurnedAway
<1> QED
  BY <1>1, <1>2, <1>3, <1>4, <1>5, <1>6 DEF PipeInv

\* The service takes a free instance itself; nobody is at its other end.
LEMMA WakeOpenInv == PipeInv /\ WakeOpen => PipeInv'
<1> SUFFICES ASSUME PipeInv, WakeOpen PROVE PipeInv'
  OBVIOUS
<1> USE DEF WakeOpen, MainThread, serverVars, clientVars
<1>1. TypeOK'
  BY DEF PipeInv, TypeOK, ServiceSteps
<1>2. InstanceByStep'
  BY DEF PipeInv, InstanceByStep
<1>3. ServedOnce'
  BY PeersAreDistinct DEF PipeInv, InstanceByStep, ServedOnce, Pending, Callers
<1>4. ResponseTaken'
  BY PeersAreDistinct DEF PipeInv, InstanceByStep, ResponseTaken, Callers
<1>5. EndByWork'
  BY PeersAreDistinct DEF PipeInv, InstanceByStep, EndByWork, EndOf, Callers
<1>6. EventsInOrder'
  <2> SUFFICES ASSUME NEW c \in Callers PROVE EventsOf(c)'
    BY DEF EventsInOrder
  <2>1. Keeps(c)
    BY PeersAreDistinct DEF PipeInv, InstanceByStep, Keeps, Pending, Callers
  <2> QED
    BY <2>1, EventsLast DEF PipeInv, EventsInOrder
<1>7. TurnedAway'
  BY PeersAreDistinct DEF PipeInv, TypeOK, InstanceByStep, TurnedAway, Callers
<1> QED
  BY <1>1, <1>2, <1>3, <1>4, <1>5, <1>6, <1>7 DEF PipeInv

\* When the process is killed the ends break; what was told stays true.
LEMMA DieInv == PipeInv /\ Die => PipeInv'
<1> SUFFICES ASSUME PipeInv, Die PROVE PipeInv'
  OBVIOUS
<1> USE DEF Die, CloseInstance, clientVars
<1>1. TypeOK'
  BY DEF PipeInv, TypeOK, ServerSteps, ServiceSteps
<1>2. InstanceByStep' /\ ServedOnce'
  BY PeersAreDistinct DEF PipeInv, InstanceByStep, ServedOnce, Pending
<1>3. ResponseTaken'
  BY PeersAreDistinct DEF PipeInv, TypeOK, ResponseTaken
<1>4. EndByWork'
  BY PeersAreDistinct DEF PipeInv, TypeOK, EndByWork, EndOf, Callers
<1>5. EventsInOrder'
  <2> SUFFICES ASSUME NEW c \in Callers PROVE EventsOf(c)'
    BY DEF EventsInOrder
  <2>1. Keeps(c)
    BY DEF Keeps, Pending
  <2> QED
    BY <2>1, EventsLast DEF PipeInv, EventsInOrder
<1>6. TurnedAway'
  BY PeersAreDistinct DEF PipeInv, TypeOK, TurnedAway
<1> QED
  BY <1>1, <1>2, <1>3, <1>4, <1>5, <1>6 DEF PipeInv

-----------------------------------------------------------------------------
(* The workers *)

\* A true event that is sent at the right time keeps the events in order.
LEMMA SendingInOrder ==
    ASSUME PipeInv, NEW c \in Callers, NEW e \in {"Connected"} \cup Outcomes \cup Failures,
           Keeps(c), StillTrue(c, e)',
           e = "Connected" => chan[c] = <<>> /\ main[c] # "await2",
           work[c] # "unborn", work'[c] \notin BeforeOpen \cup {"verify", "mode", "connected"},
           chan'[c] = Append(chan[c], e), main'[c] = main[c], result'[c] = result[c]
    PROVE  EventsOf(c)'
<1>1. EventsOf(c) /\ chan[c] \in Seq({"Connected"} \cup Outcomes \cup Failures)
  BY DEF PipeInv, TypeOK, EventsInOrder
<1>2. \A i \in 1 .. Len(chan[c]) : StillTrue(c, chan[c][i])'
  BY <1>1, TruthLasts DEF EventsOf
<1>3. StillTrue(c, result[c])'
  BY <1>1, TruthLasts DEF EventsOf
<1>4. /\ Len(chan'[c]) = Len(chan[c]) + 1 /\ Len(chan[c]) \in Nat
      /\ \A i \in 1 .. Len(chan[c]) : chan'[c][i] = chan[c][i]
      /\ chan'[c][Len(chan[c]) + 1] = e
  BY <1>1, Sending
<1>5. ASSUME NEW i \in 1 .. Len(chan'[c])
      PROVE  StillTrue(c, chan[c][i])' /\ (chan'[c][i] = "Connected" => i = 1 /\ main'[c] # "await2")
  <2>1. CASE i \in 1 .. Len(chan[c])
    <3>1. chan'[c][i] = chan[c][i] /\ StillTrue(c, chan[c][i])
      BY <1>1, <1>4, <2>1 DEF EventsOf
    <3>2. ASSUME NEW f, f = chan'[c][i] PROVE StillTrue(c, f)'
      BY <1>1, <3>1, <3>2, TruthLasts
    <3> QED
      BY <1>1, <2>1, <3>1, <3>2 DEF EventsOf, StillTrue
  <2>2. CASE i = Len(chan[c]) + 1
    <3>1. e = "Connected" => Len(chan[c]) = 0
      BY <1>1
    <3> QED
      BY <1>4, <2>2, <3>1 DEF StillTrue
  <2> QED
    BY <1>4, <2>1, <2>2
<1> QED
  BY <1>1, <1>3, <1>5 DEF EventsOf, StillTrue

\* A worker that goes one step further without touching the pipe.
LEMMA AdvanceInv ==
    ASSUME PipeInv, NEW c \in Callers, NEW p, Advance(c, p), Worker(c),
           UNCHANGED <<pipeVars, late>>,
           \/ work[c] = "wait" /\ p = "open"
           \/ work[c] = "verify" /\ p = "mode"
           \/ work[c] = "mode" /\ p = "connected" /\ c \in Clients
    PROVE  PipeInv'
<1> USE DEF Advance, Worker, pipeVars, serviceVars, serverVars
<1>1. TypeOK'
  BY DEF PipeInv, TypeOK, WorkerSteps
<1>2. InstanceByStep' /\ TurnedAway'
  BY DEF PipeInv, TypeOK, InstanceByStep, TurnedAway, BeforeOpen
<1>3. EndByWork'
  BY PeersAreDistinct DEF PipeInv, TypeOK, EndByWork, EndOf, BeforeOpen
<1>4. ServedOnce'
  BY DEF PipeInv, TypeOK, ServedOnce, Pending
<1>5. ResponseTaken'
  BY DEF PipeInv, ResponseTaken
<1>6. EventsInOrder'
  BY DEF PipeInv, TypeOK, EventsInOrder, EventsOf, StillTrue, Pending, BeforeOpen
<1> QED
  BY <1>1, <1>2, <1>3, <1>4, <1>5, <1>6 DEF PipeInv

\* A worker that ends with a true event.
LEMMA CompleteInv ==
    ASSUME PipeInv, NEW c \in Callers, NEW e \in Outcomes \cup Failures,
           Complete(c, e), Worker(c), UNCHANGED late, work[c] # "unborn",
           c \in Clients => /\ e \in Outcomes => outcome[c] = e
                            /\ e \in Failures => ~Pending(c)
                            /\ e \in ConnectFailures => outcome[c] = "none"
                            /\ e = "broken" => outcome[c] = "none" \/ died
    PROVE  PipeInv'
<1> USE DEF Complete, HangUp, Worker, serviceVars, serverVars
<1>1. TypeOK'
  <2>1. c \in Clients => Append(chan[c], e) \in Seq({"Connected"} \cup Outcomes \cup Failures)
    BY Sending DEF PipeInv, TypeOK
  <2> QED
    BY <2>1 DEF PipeInv, TypeOK, WorkerSteps
<1>2. InstanceByStep' /\ TurnedAway'
  BY DEF PipeInv, TypeOK, InstanceByStep, TurnedAway, BeforeOpen
<1>3. EndByWork'
  BY DEF PipeInv, TypeOK, EndByWork, EndOf, BeforeOpen
<1>4. ServedOnce'
  BY DEF PipeInv, TypeOK, ServedOnce, Pending
<1>5. ResponseTaken'
  BY DEF PipeInv, TypeOK, ResponseTaken
<1>6. EventsInOrder'
  <2> SUFFICES ASSUME NEW d \in Callers PROVE EventsOf(d)'
    BY DEF EventsInOrder
  <2>1. Keeps(d)
    BY DEF PipeInv, TypeOK, Keeps, Pending
  <2>2. CASE d = c /\ c \in Clients
    <3>1. StillTrue(c, e)'
      BY <2>2 DEF PipeInv, TypeOK, StillTrue, Pending, Failures
    <3>2. e # "Connected"
      BY DEF Outcomes, Failures, ConnectFailures
    <3> QED
      BY <2>1, <2>2, <3>1, <3>2, SendingInOrder DEF PipeInv, TypeOK, BeforeOpen
  <2>3. CASE d = c /\ c \notin Clients
    <3>1. EventsOf(c) /\ (\A i \in 1 .. Len(chan[c]) : StillTrue(c, chan[c][i])')
                      /\ StillTrue(c, result[c])'
      BY <2>1, <2>3, TruthLasts DEF PipeInv, EventsInOrder, EventsOf
    <3> QED
      BY <2>3, <3>1 DEF PipeInv, TypeOK, EventsOf, StillTrue, BeforeOpen
  <2>4. CASE d # c
    BY <2>1, <2>4, EventsLast DEF PipeInv, TypeOK, EventsInOrder
  <2> QED
    BY <2>2, <2>3, <2>4
<1> QED
  BY <1>1, <1>2, <1>3, <1>4, <1>5, <1>6 DEF PipeInv

\* Before its end is open a worker has no request on its way.
LEMMA Unopened ==
    ASSUME PipeInv, NEW c \in Callers, work[c] \notin {"read", "finished"}
    PROVE  ~Pending(c) /\ outcome[c] = "none"
BY DEF PipeInv, TypeOK, ServedOnce

\* A worker that finds no instance says so and ends; it has sent nothing.
LEMMA WaitForPipeInv == ASSUME NEW c \in Callers PROVE PipeInv /\ WaitForPipe(c) => PipeInv'
BY Unopened, AdvanceInv, CompleteInv
   DEF WaitForPipe, Failures, ConnectFailures, Outcomes

\* A worker that does not trust the server hangs up before it sends.
LEMMA VerifyServerInv == ASSUME NEW c \in Callers PROVE PipeInv /\ VerifyServer(c) => PipeInv'
BY Unopened, AdvanceInv, CompleteInv
   DEF VerifyServer, Failures, ConnectFailures, Outcomes

\* A broken end is noticed at the latest here, a checker is done.
LEMMA SetReadModeInv == ASSUME NEW c \in Callers PROVE PipeInv /\ SetReadMode(c) => PipeInv'
BY Unopened, AdvanceInv, CompleteInv, PeersAreDistinct
   DEF SetReadMode, Failures, ConnectFailures, Outcomes

\* What ends the reading of the response is the outcome, or a break that means
\* there will be none.
LEMMA ReadResponseInv == ASSUME NEW c \in Callers PROVE PipeInv /\ ReadResponse(c) => PipeInv'
<1> SUFFICES ASSUME PipeInv, ReadResponse(c) PROVE PipeInv'
  OBVIOUS
<1>1. CASE reply[c] # "none" /\ Complete(c, reply[c])
  BY <1>1, CompleteInv DEF ReadResponse, PipeInv, TypeOK, ResponseTaken, Outcomes, Failures,
     ConnectFailures
<1>2. CASE handle[c] = "broken" /\ Complete(c, "broken")
  <2>1. ~Pending(c) /\ (outcome[c] = "none" \/ died)
    BY <1>2 DEF PipeInv, EndByWork, EndOf, Pending
  <2> QED
    BY <1>2, <2>1, CompleteInv DEF ReadResponse, Outcomes, Failures, ConnectFailures
<1> QED
  BY <1>1, <1>2 DEF ReadResponse

\* A free instance has no peer and no request: the one that takes it is its
\* only peer, and is marked late if the stop came first.
LEMMA OpenPipeInv == ASSUME NEW c \in Callers PROVE PipeInv /\ OpenPipe(c) => PipeInv'
<1> SUFFICES ASSUME PipeInv, OpenPipe(c) PROVE PipeInv'
  OBVIOUS
<1>1. CASE UNCHANGED late /\ (Complete(c, "noPipe") \/ Complete(c, "busy"))
  BY <1>1, Unopened, CompleteInv DEF OpenPipe, Failures, ConnectFailures, Outcomes
<1>2. CASE /\ work[c] = "open" /\ pipe = "listening" /\ Advance(c, "verify")
           /\ pipe' = "connected" /\ peer' = c
           /\ handle' = [handle EXCEPT ![c] = "open"]
           /\ late' = IF should_stop THEN late \cup {c} ELSE late
           /\ UNCHANGED <<inbox, reply>>
  <2> USE <1>2 DEF Advance, Worker, serviceVars, serverVars
  <2>0. Worker(c) /\ srv \in {"listen", "waiting"} /\ peer = Nobody /\ ~inbox /\ Nobody \notin Callers
    BY PeersAreDistinct DEF OpenPipe, PipeInv, InstanceByStep
  <2>1. TypeOK'
    BY <2>0 DEF PipeInv, TypeOK, WorkerSteps
  <2>2. InstanceByStep'
    BY <2>0 DEF PipeInv, InstanceByStep
  <2>3. TurnedAway'
    BY <2>0, Unopened DEF PipeInv, TypeOK, TurnedAway, BeforeOpen
  <2>4. EndByWork'
    BY <2>0 DEF PipeInv, TypeOK, EndByWork, EndOf, BeforeOpen
  <2>5. ServedOnce'
    BY <2>0, Unopened DEF PipeInv, TypeOK, ServedOnce, Pending
  <2>6. ResponseTaken'
    BY <2>0 DEF PipeInv, TypeOK, ResponseTaken, EndByWork, EndOf
  <2>7. EventsInOrder'
    <3> SUFFICES ASSUME NEW d \in Callers PROVE EventsOf(d)'
      BY DEF EventsInOrder
    <3>1. Keeps(d)
      BY <2>0 DEF PipeInv, TypeOK, Keeps, Pending
    <3>2. CASE d = c
      BY <2>0, <3>2, Unopened DEF PipeInv, TypeOK, EventsInOrder, EventsOf, StillTrue,
         Pending, BeforeOpen
    <3>3. CASE d # c
      BY <2>0, <3>1, <3>3, EventsLast DEF PipeInv, TypeOK, EventsInOrder
    <3> QED
      BY <3>2, <3>3
  <2> QED
    BY <2>1, <2>2, <2>3, <2>4, <2>5, <2>6, <2>7 DEF PipeInv
<1> QED
  BY <1>1, <1>2 DEF OpenPipe

\* Connected is sent once, before the request is written.
LEMMA AnnounceConnectedInv ==
    ASSUME NEW c \in Callers PROVE PipeInv /\ AnnounceConnected(c) => PipeInv'
<1> SUFFICES ASSUME PipeInv, AnnounceConnected(c) PROVE PipeInv'
  OBVIOUS
<1> USE DEF AnnounceConnected, Worker, pipeVars, serviceVars, serverVars
<1>1. TypeOK'
  <2>1. Append(chan[c], "Connected") \in Seq({"Connected"} \cup Outcomes \cup Failures)
    BY Sending DEF PipeInv, TypeOK
  <2> QED
    BY <2>1 DEF PipeInv, TypeOK, WorkerSteps
<1>2. InstanceByStep' /\ TurnedAway'
  BY DEF PipeInv, TypeOK, InstanceByStep, TurnedAway, BeforeOpen
<1>3. EndByWork'
  BY DEF PipeInv, TypeOK, EndByWork, EndOf, BeforeOpen
<1>4. ServedOnce'
  BY DEF PipeInv, TypeOK, ServedOnce, Pending
<1>5. ResponseTaken'
  BY DEF PipeInv, ResponseTaken
<1>6. EventsInOrder'
  <2> SUFFICES ASSUME NEW d \in Callers PROVE EventsOf(d)'
    BY DEF EventsInOrder
  <2>1. Keeps(d)
    BY DEF PipeInv, TypeOK, Keeps, Pending
  <2>2. CASE d = c
    <3>1. chan[c] = <<>> /\ main[c] # "await2"
      BY DEF PipeInv, EventsInOrder, EventsOf
    <3>2. StillTrue(c, "Connected")'
      BY DEF StillTrue, Outcomes, Failures, ConnectFailures
    <3> QED
      BY <2>1, <2>2, <3>1, <3>2, SendingInOrder DEF PipeInv, TypeOK, BeforeOpen
  <2>3. CASE d # c
    BY <2>1, <2>3, EventsLast DEF PipeInv, TypeOK, EventsInOrder
  <2> QED
    BY <2>2, <2>3
<1> QED
  BY <1>1, <1>2, <1>3, <1>4, <1>5, <1>6 DEF PipeInv

\* A request is written once, by the peer.
LEMMA WriteRequestInv == ASSUME NEW c \in Callers PROVE PipeInv /\ WriteRequest(c) => PipeInv'
<1> SUFFICES ASSUME PipeInv, WriteRequest(c) PROVE PipeInv'
  OBVIOUS
<1>1. CASE handle[c] = "broken" /\ Complete(c, "broken")
  BY <1>1, Unopened, CompleteInv DEF WriteRequest, Outcomes, Failures, ConnectFailures
<1>2. CASE /\ handle[c] = "open" /\ Advance(c, "read")
           /\ inbox' = TRUE /\ UNCHANGED <<pipe, peer, handle, reply>>
  <2> USE <1>2 DEF Advance, Worker, serviceVars, serverVars
  <2>0. /\ Worker(c) /\ work[c] = "write" /\ UNCHANGED late
        /\ peer = c /\ pipe = "connected" /\ c \in Clients
    BY DEF WriteRequest, PipeInv, EndByWork, EndOf, Callers
  <2>1. TypeOK'
    BY <2>0 DEF PipeInv, TypeOK, WorkerSteps
  <2>2. InstanceByStep' /\ TurnedAway'
    BY <2>0 DEF PipeInv, TypeOK, InstanceByStep, TurnedAway, BeforeOpen
  <2>3. EndByWork'
    BY <2>0, PeersAreDistinct DEF PipeInv, TypeOK, EndByWork, EndOf, BeforeOpen
  <2>4. ServedOnce'
    BY <2>0 DEF PipeInv, TypeOK, ServedOnce, Pending
  <2>5. ResponseTaken'
    BY <2>0 DEF PipeInv, ResponseTaken
  <2>6. EventsInOrder'
    <3> SUFFICES ASSUME NEW d \in Callers PROVE EventsOf(d)'
      BY DEF EventsInOrder
    <3>1. Keeps(d)
      BY <2>0 DEF PipeInv, TypeOK, Keeps, Pending
    <3>2. CASE d = c
      <4>1. EventsOf(c) /\ (\A i \in 1 .. Len(chan[c]) : StillTrue(c, chan[c][i])')
                        /\ StillTrue(c, result[c])'
        BY <2>0, <3>1, <3>2, TruthLasts DEF PipeInv, EventsInOrder, EventsOf
      <4> QED
        BY <2>0, <3>2, <4>1 DEF PipeInv, TypeOK, EventsOf, StillTrue, BeforeOpen
    <3>3. CASE d # c
      BY <2>0, <3>1, <3>3, EventsLast DEF PipeInv, TypeOK, EventsInOrder
    <3> QED
      BY <3>2, <3>3
  <2> QED
    BY <2>1, <2>2, <2>3, <2>4, <2>5, <2>6 DEF PipeInv
<1> QED
  BY <1>1, <1>2 DEF WriteRequest

-----------------------------------------------------------------------------
(* The callers *)

\* The worker starts with an empty channel.
LEMMA SubmitInv == ASSUME NEW c \in Callers PROVE PipeInv /\ Submit(c) => PipeInv'
<1> SUFFICES ASSUME PipeInv, Submit(c) PROVE PipeInv'
  OBVIOUS
<1> USE DEF Submit, Caller, pipeVars, serviceVars, serverVars
<1>0. work[c] = "unborn"
  BY DEF PipeInv, EventsInOrder, EventsOf
<1>1. TypeOK'
  BY DEF PipeInv, TypeOK, WorkerSteps
<1>2. InstanceByStep' /\ TurnedAway'
  BY <1>0 DEF PipeInv, TypeOK, InstanceByStep, TurnedAway, BeforeOpen
<1>3. EndByWork'
  BY <1>0 DEF PipeInv, TypeOK, EndByWork, EndOf, BeforeOpen
<1>4. ServedOnce'
  BY <1>0 DEF PipeInv, TypeOK, ServedOnce, Pending
<1>5. ResponseTaken'
  BY DEF PipeInv, ResponseTaken
<1>6. EventsInOrder'
  BY <1>0 DEF PipeInv, TypeOK, EventsInOrder, EventsOf, StillTrue, Pending, BeforeOpen
<1> QED
  BY <1>1, <1>2, <1>3, <1>4, <1>5, <1>6 DEF PipeInv

\* A step of the calling thread that leaves the pipe and the worker alone.
LEMMA CallerStepInv == ASSUME NEW c \in Callers PROVE PipeInv /\ CallerStep(c) => PipeInv'
<1> SUFFICES ASSUME PipeInv, CallerStep(c) PROVE PipeInv'
  OBVIOUS
<1> USE DEF Caller, pipeVars, serviceVars, serverVars
<1>0. /\ Caller /\ UNCHANGED work /\ EventsOf(c)
      /\ chan[c] \in Seq({"Connected"} \cup Outcomes \cup Failures)
      /\ main[c] \in {"await1", "await2"}
  BY DEF CallerStep, AwaitConnected, AwaitComplete, PipeInv, TypeOK, EventsInOrder
<1>1. CASE chan[c] = <<>>
  <2>1. /\ main' = [main EXCEPT ![c] = "done"] /\ UNCHANGED chan
        /\ \E r \in {"connectTimeout", "responseTimeout"} : result' = [result EXCEPT ![c] = r]
    BY <1>1 DEF CallerStep, AwaitConnected, AwaitComplete, Return
  <2>2. TypeOK'
    BY <1>0, <2>1 DEF PipeInv, TypeOK, Results
  <2>3. InstanceByStep' /\ EndByWork' /\ ServedOnce' /\ ResponseTaken' /\ TurnedAway'
    BY <1>0 DEF PipeInv, InstanceByStep, EndByWork, EndOf, ServedOnce, Pending,
       ResponseTaken, TurnedAway
  <2>4. EventsInOrder'
    BY <1>0, <1>1, <2>1 DEF PipeInv, TypeOK, EventsInOrder, EventsOf, StillTrue, Pending,
       Outcomes, Failures, ConnectFailures
  <2> QED
    BY <2>2, <2>3, <2>4 DEF PipeInv
<1>2. CASE chan[c] # <<>>
  <2> DEFINE e == chan[c][1]
             rest == Tail(chan[c])
  <2>1. /\ Head(chan[c]) = e /\ e \in {"Connected"} \cup Outcomes \cup Failures
        /\ rest \in Seq({"Connected"} \cup Outcomes \cup Failures)
        /\ \A i \in 1 .. Len(rest) : rest[i] = chan[c][i + 1] /\ i + 1 \in 1 .. Len(chan[c]) /\ i + 1 # 1
        /\ 1 \in 1 .. Len(chan[c])
    BY <1>0, <1>2, Receiving
  <2>2. StillTrue(c, e) /\ (e = "Connected" => main[c] # "await2")
    BY <1>0, <2>1 DEF EventsOf
  <2>3. /\ chan' = [chan EXCEPT ![c] = rest]
        /\ \/ /\ e = "Connected" /\ main' = [main EXCEPT ![c] = "await2"] /\ UNCHANGED result
           \/ /\ e # "Connected" /\ main' = [main EXCEPT ![c] = "done"]
              /\ result' = [result EXCEPT ![c] = e]
    BY <1>2, <2>1, <2>2 DEF CallerStep, AwaitConnected, AwaitComplete, Return
  <2>4. \A i \in 1 .. Len(rest) : StillTrue(c, rest[i]) /\ rest[i] # "Connected"
    BY <1>0, <2>1 DEF EventsOf
  <2>5. work[c] \notin BeforeOpen \cup {"verify", "mode", "connected"}
    BY <1>0, <1>2 DEF EventsOf
  <2> HIDE DEF e, rest
  <2>6. TypeOK'
    <3>1. chan' \in [Callers -> Seq({"Connected"} \cup Outcomes \cup Failures)]
      BY <2>1, <2>3 DEF PipeInv, TypeOK
    <3>2. main' \in [Callers -> {"start", "await1", "await2", "done", "gone"}]
      BY <2>3 DEF PipeInv, TypeOK
    <3>3. result' \in [Callers -> Results \cup {"none"}]
      BY <2>1, <2>3 DEF PipeInv, TypeOK, Results
    <3> QED
      BY <1>0, <3>1, <3>2, <3>3 DEF PipeInv, TypeOK
  <2>7. InstanceByStep' /\ EndByWork' /\ ServedOnce' /\ ResponseTaken' /\ TurnedAway'
    BY <1>0 DEF PipeInv, InstanceByStep, EndByWork, EndOf, ServedOnce, Pending,
       ResponseTaken, TurnedAway
  <2>8. EventsInOrder'
    <3> SUFFICES ASSUME NEW d \in Callers PROVE EventsOf(d)'
      BY DEF EventsInOrder
    <3>1. CASE d = c
      <4>1. chan'[c] = rest /\ main'[c] \in {"await2", "done"} /\ work' = work
        BY <1>0, <2>3 DEF PipeInv, TypeOK
      <4>2. StillTrue(c, result'[c])
        BY <1>0, <2>2, <2>3 DEF PipeInv, TypeOK, EventsOf
      <4>3. ASSUME NEW f, StillTrue(c, f) PROVE StillTrue(c, f)'
        BY <1>0, <4>3 DEF StillTrue, Pending
      <4>4. StillTrue(c, result[c])'
        BY <4>2, <1>0 DEF StillTrue, Pending
      <4>5. \A i \in 1 .. Len(rest) : StillTrue(c, chan[c][i])' /\ chan'[c][i] # "Connected"
        BY <4>1, <1>0, <2>4 DEF StillTrue, Pending
      <4> QED
        BY <3>1, <4>1, <4>4, <4>5, <2>5 DEF EventsOf, BeforeOpen
    <3>2. CASE d # c
      <4>1. Keeps(d)
        BY <1>0 DEF Keeps, Pending
      <4> QED
        BY <1>0, <2>3, <3>2, <4>1, EventsLast DEF PipeInv, TypeOK, EventsInOrder
    <3> QED
      BY <3>1, <3>2
  <2> QED
    BY <2>6, <2>7, <2>8 DEF PipeInv
<1> QED
  BY <1>1, <1>2

\* A client that goes takes its end with it; what it wrote stays on its way.
LEMMA QuitInv == ASSUME NEW c \in Callers PROVE PipeInv /\ Quit(c) => PipeInv'
<1> SUFFICES ASSUME PipeInv, Quit(c) PROVE PipeInv'
  OBVIOUS
<1> USE DEF Quit, HangUp, serviceVars, serverVars
<1>1. TypeOK'
  BY DEF PipeInv, TypeOK, WorkerSteps
<1>2. InstanceByStep' /\ TurnedAway'
  BY DEF PipeInv, TypeOK, InstanceByStep, TurnedAway, BeforeOpen
<1>3. EndByWork'
  BY DEF PipeInv, TypeOK, EndByWork, EndOf, BeforeOpen
<1>4. ServedOnce'
  BY DEF PipeInv, TypeOK, ServedOnce, Pending
<1>5. ResponseTaken'
  BY DEF PipeInv, TypeOK, ResponseTaken
<1>6. EventsInOrder'
  <2> SUFFICES ASSUME NEW d \in Callers PROVE EventsOf(d)'
    BY DEF EventsInOrder
  <2>1. Keeps(d)
    BY DEF PipeInv, TypeOK, Keeps, Pending
  <2>2. CASE d = c
    <3>1. EventsOf(c) /\ (\A i \in 1 .. Len(chan[c]) : StillTrue(c, chan[c][i])')
                      /\ StillTrue(c, result[c])'
      BY <2>1, <2>2, TruthLasts DEF PipeInv, EventsInOrder, EventsOf
    <3> QED
      BY <2>2, <3>1 DEF PipeInv, TypeOK, EventsOf, StillTrue, BeforeOpen
  <2>3. CASE d # c
    BY <2>1, <2>3, EventsLast DEF PipeInv, TypeOK, EventsInOrder
  <2> QED
    BY <2>2, <2>3
<1> QED
  BY <1>1, <1>2, <1>3, <1>4, <1>5, <1>6 DEF PipeInv

-----------------------------------------------------------------------------
(* The invariant, and what follows from it *)

\* Every step keeps the invariant.
LEMMA NextPipeInv == PipeInv /\ [Next]_vars => PipeInv'
<1> SUFFICES ASSUME PipeInv, [Next]_vars PROVE PipeInv'
  OBVIOUS
<1>1. CASE ServerStep
  BY <1>1, CheckStopInv, CreatePipeInv, ListenInv, ClientArrivedInv, RecheckStopInv,
     ReadRequestInv, ServeRequestInv, WriteResponseInv, FlushInv, DisconnectInv
     DEF ServerStep
<1>2. CASE ServiceStep \/ StopControl \/ Die
  BY <1>2, SpawnServerInv, ServiceStepInv, WakeOpenInv, StopControlInv, DieInv
     DEF ServiceStep
<1>3. CASE \E c \in Callers : Submit(c) \/ WorkerStep(c) \/ CallerStep(c) \/ Quit(c)
  BY <1>3, SubmitInv, CallerStepInv, QuitInv, WaitForPipeInv, OpenPipeInv,
     VerifyServerInv, SetReadModeInv, AnnounceConnectedInv, WriteRequestInv,
     ReadResponseInv
     DEF WorkerStep
<1>4. CASE UNCHANGED vars
  <2> USE <1>4 DEF vars, pipeVars, serviceVars, serverVars, clientVars
  <2>1. TypeOK' /\ InstanceByStep' /\ ServedOnce' /\ ResponseTaken' /\ TurnedAway'
    BY DEF PipeInv, TypeOK, InstanceByStep, ServedOnce, Pending, ResponseTaken, TurnedAway
  <2>2. EndByWork'
    BY DEF PipeInv, EndByWork, EndOf
  <2>3. EventsInOrder'
    BY DEF PipeInv, EventsInOrder, EventsOf, StillTrue, Pending
  <2> QED
    BY <2>1, <2>2, <2>3 DEF PipeInv
<1> QED
  BY <1>1, <1>2, <1>3, <1>4 DEF Next

\* What is known at each step of the server and of the workers, and of the
\* events between the threads of a client, holds throughout.
THEOREM PipeInvariance == Spec => []PipeInv
<1> QED
  BY InitPipeInv, NextPipeInv, PTL DEF Spec

\* Type correctness: in particular no caller takes Connected for a result.
THEOREM PipeTypeCorrectness == Spec => []TypeOK
<1>1. PipeInv => TypeOK
  BY DEF PipeInv
<1> QED
  BY <1>1, PipeInvariance, PTL

\* Every caller is given the answer to its own request, for any number of
\* callers whose events and time limits interleave.
THEOREM OwnAnswer == Spec => []AnswerIsOutcome
<1>1. PipeInv => AnswerIsOutcome
  BY DEF PipeInv, TypeOK, EventsInOrder, EventsOf, StillTrue, AnswerIsOutcome, Callers
<1> QED
  BY <1>1, PipeInvariance, PTL

\* A caller that is told why its connection failed was not served and will not
\* be: it can safely try again.
THEOREM SafeRetry == Spec => []FailureMeansUnserved
<1>1. PipeInv => FailureMeansUnserved
  BY DEF PipeInv, TypeOK, EventsInOrder, EventsOf, StillTrue, FailureMeansUnserved,
     Callers, Failures
<1> QED
  BY <1>1, PipeInvariance, PTL

\* Nobody who connects after the stop is served.
THEOREM NoLateService == Spec => []LateCallersUnserved
<1>1. PipeInv => LateCallersUnserved
  BY DEF PipeInv, TurnedAway, LateCallersUnserved
<1> QED
  BY <1>1, PipeInvariance, PTL

\* Stopped is reported only when the server thread has ended.
THEOREM StoppedServesNobody == Spec => []StoppedMeansGone
<1>1. PipeInv => StoppedMeansGone
  BY DEF PipeInv, InstanceByStep, StoppedMeansGone
<1> QED
  BY <1>1, PipeInvariance, PTL

\* A request is served at most once, whatever is retried, broken or killed.
THEOREM ServedAtMostOnce == Spec => DecidedOnce
<1> DEFINE P == \A c \in Callers : outcome[c] # "none" => outcome'[c] = outcome[c]
<1>1. PipeInv /\ [Next]_vars => [P]_vars
  <2> SUFFICES ASSUME PipeInv, Next, NEW c \in Callers, outcome[c] # "none"
               PROVE  outcome'[c] = outcome[c]
    OBVIOUS
  <2>1. CASE ServeRequest
    <3>1. peer # c
      BY <2>1 DEF PipeInv, ServedOnce, ServeRequest
    <3> QED
      BY <2>1, <3>1 DEF ServeRequest, PipeInv, TypeOK
  <2>2. CASE ServerStep /\ ~ServeRequest
    BY <2>2 DEF ServerStep, CheckStop, CreatePipe, Listen, ClientArrived, RecheckStop,
       ReadRequest, WriteResponse, Flush, Disconnect
  <2>3. CASE ServiceStep \/ StopControl \/ Die
    BY <2>3 DEF ServiceStep, SpawnServer, StoreStop, WakeWait, WakeOpen, ReportPending,
       JoinServer, StopControl, Die, MainThread, serverVars
  <2>4. CASE \E d \in Callers : Submit(d) \/ WorkerStep(d) \/ CallerStep(d) \/ Quit(d)
    BY <2>4 DEF WorkerStep, WaitForPipe, OpenPipe, VerifyServer, SetReadMode,
       AnnounceConnected, WriteRequest, ReadResponse, Worker, Submit, CallerStep,
       AwaitConnected, AwaitComplete, Caller, Quit, serverVars
  <2> QED
    BY <2>1, <2>2, <2>3, <2>4 DEF Next
<1> QED
  BY <1>1, PipeInvariance, PTL DEF Spec, DecidedOnce

=============================================================================
