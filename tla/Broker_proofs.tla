---------------------------- MODULE Broker_proofs ----------------------------
(***************************************************************************)
(* BrokerInv is an invariant of Broker, and with it what its clients are   *)
(* promised, for any number of clients, requests and restarts.  Every step *)
(* of Broker is a step of BrokerRequest and a step of BrokerPipe, or       *)
(* stutters in either, so that the invariants of both are at hand; what is *)
(* shown here is what ties them together.                                  *)
(***************************************************************************)
EXTENDS BrokerInvariant, BrokerRequest_proofs

P == INSTANCE BrokerPipe_proofs

-----------------------------------------------------------------------------
(* The pipe of Broker is the one that BrokerPipe_proofs is about *)

\* Its invariant is the same formula,
LEMMA SameInvariant == (Pipe!PipeInv <=> P!PipeInv) /\ (Pipe!PipeInv' <=> P!PipeInv')
<1>1. (Pipe!TypeOK <=> P!TypeOK) /\ (Pipe!TypeOK' <=> P!TypeOK')
  BY DEF Pipe!TypeOK, P!TypeOK, Pipe!Callers, P!Callers, Pipe!Outcomes, P!Outcomes,
     Pipe!Failures, P!Failures, Pipe!ConnectFailures, P!ConnectFailures,
     Pipe!Results, P!Results, Pipe!ServiceSteps, P!ServiceSteps,
     Pipe!ServerSteps, P!ServerSteps, Pipe!WorkerSteps, P!WorkerSteps
<1>2. (Pipe!InstanceByStep <=> P!InstanceByStep) /\ (Pipe!InstanceByStep' <=> P!InstanceByStep')
  BY DEF Pipe!InstanceByStep, P!InstanceByStep
<1>3. (Pipe!EndByWork <=> P!EndByWork) /\ (Pipe!EndByWork' <=> P!EndByWork')
  BY DEF Pipe!EndByWork, P!EndByWork, Pipe!EndOf, P!EndOf, Pipe!Callers, P!Callers,
     Pipe!BeforeOpen, P!BeforeOpen
<1>4. (Pipe!ServedOnce <=> P!ServedOnce) /\ (Pipe!ServedOnce' <=> P!ServedOnce')
  BY DEF Pipe!ServedOnce, P!ServedOnce, Pipe!Pending, P!Pending, Pipe!Callers, P!Callers
<1>5. (Pipe!ResponseTaken <=> P!ResponseTaken) /\ (Pipe!ResponseTaken' <=> P!ResponseTaken')
  BY DEF Pipe!ResponseTaken, P!ResponseTaken, Pipe!Callers, P!Callers
<1>6. (Pipe!EventsInOrder <=> P!EventsInOrder) /\ (Pipe!EventsInOrder' <=> P!EventsInOrder')
  BY DEF Pipe!EventsInOrder, P!EventsInOrder, Pipe!EventsOf, P!EventsOf,
     Pipe!StillTrue, P!StillTrue, Pipe!Pending, P!Pending, Pipe!Callers, P!Callers,
     Pipe!BeforeOpen, P!BeforeOpen, Pipe!Outcomes, P!Outcomes, Pipe!Failures, P!Failures,
     Pipe!ConnectFailures, P!ConnectFailures
<1>7. (Pipe!TurnedAway <=> P!TurnedAway) /\ (Pipe!TurnedAway' <=> P!TurnedAway')
  BY DEF Pipe!TurnedAway, P!TurnedAway, Pipe!BeforeOpen, P!BeforeOpen
<1> QED
  BY <1>1, <1>2, <1>3, <1>4, <1>5, <1>6, <1>7 DEF Pipe!PipeInv, P!PipeInv

\* and so are its steps.
LEMMA SameServerStep == Pipe!ServerStep => P!ServerStep
BY DEF Pipe!ServerStep, P!ServerStep, Pipe!CheckStop, P!CheckStop,
   Pipe!CreatePipe, P!CreatePipe, Pipe!Listen, P!Listen,
   Pipe!ClientArrived, P!ClientArrived, Pipe!RecheckStop, P!RecheckStop,
   Pipe!ReadRequest, P!ReadRequest, Pipe!ServeRequest, P!ServeRequest,
   Pipe!WriteResponse, P!WriteResponse, Pipe!Flush, P!Flush,
   Pipe!Disconnect, P!Disconnect, Pipe!Server, P!Server, Pipe!ServerGoes, P!ServerGoes,
   Pipe!CloseInstance, P!CloseInstance, Pipe!PeerHungUp, P!PeerHungUp,
   Pipe!Outcomes, P!Outcomes, Pipe!Callers, P!Callers,
   Pipe!pipeVars, P!pipeVars, Pipe!serviceVars, P!serviceVars, Pipe!clientVars, P!clientVars

\* The main thread, the control handler and the end of the process,
LEMMA SameServiceStep ==
    /\ Pipe!ServiceStep => P!ServiceStep
    /\ Pipe!JoinServer => P!ServiceStep
    /\ Pipe!StopControl => P!StopControl
    /\ Pipe!Die => P!Die
BY DEF Pipe!ServiceStep, P!ServiceStep, Pipe!SpawnServer, P!SpawnServer,
   Pipe!StoreStop, P!StoreStop, Pipe!WakeWait, P!WakeWait, Pipe!WakeOpen, P!WakeOpen,
   Pipe!ReportPending, P!ReportPending, Pipe!JoinServer, P!JoinServer,
   Pipe!StopControl, P!StopControl, Pipe!Die, P!Die, Pipe!MainThread, P!MainThread,
   Pipe!CloseInstance, P!CloseInstance, Pipe!Callers, P!Callers,
   Pipe!pipeVars, P!pipeVars, Pipe!serverVars, P!serverVars, Pipe!clientVars, P!clientVars

\* the worker threads of the clients,
LEMMA SameWorkerStep == \A c : Pipe!WorkerStep(c) => P!WorkerStep(c)
BY DEF Pipe!WorkerStep, P!WorkerStep, Pipe!WaitForPipe, P!WaitForPipe,
   Pipe!OpenPipe, P!OpenPipe, Pipe!VerifyServer, P!VerifyServer,
   Pipe!SetReadMode, P!SetReadMode, Pipe!AnnounceConnected, P!AnnounceConnected,
   Pipe!WriteRequest, P!WriteRequest, Pipe!ReadResponse, P!ReadResponse,
   Pipe!Worker, P!Worker, Pipe!Complete, P!Complete, Pipe!Advance, P!Advance,
   Pipe!HangUp, P!HangUp, Pipe!NameExists, P!NameExists, Pipe!Callers, P!Callers,
   Pipe!pipeVars, P!pipeVars, Pipe!serviceVars, P!serviceVars, Pipe!serverVars, P!serverVars

\* and their calling threads take the steps proved about.
LEMMA SameCallerStep ==
    \A c : /\ Pipe!Submit(c) => P!Submit(c)
           /\ Pipe!CallerStep(c) => P!CallerStep(c)
           /\ Pipe!Quit(c) => P!Quit(c)
BY DEF Pipe!Submit, P!Submit, Pipe!CallerStep, P!CallerStep,
   Pipe!AwaitConnected, P!AwaitConnected, Pipe!AwaitComplete, P!AwaitComplete,
   Pipe!Quit, P!Quit, Pipe!Caller, P!Caller, Pipe!Return, P!Return, Pipe!HangUp, P!HangUp,
   Pipe!pipeVars, P!pipeVars, Pipe!serviceVars, P!serviceVars, Pipe!serverVars, P!serverVars

\* The initial states are the same as well.
LEMMA SameInit == Pipe!Init => P!Init
BY DEF Pipe!Init, P!Init, Pipe!Callers, P!Callers

\* So what BrokerPipe_proofs has shown of them holds here.
LEMMA PipeInitially == Pipe!Init => Pipe!PipeInv
BY SameInit, SameInvariant, PeersAreDistinct, P!InitPipeInv DEF P!Callers

\* Every step of the pipe keeps its invariant.
LEMMA PipeStep == Pipe!PipeInv /\ [P!Next]_P!vars => Pipe!PipeInv'
BY SameInvariant, PeersAreDistinct, P!NextPipeInv DEF P!Callers

\* A step that leaves the pipe alone is a stutter of it.
LEMMA PipeStutters == UNCHANGED pipeSide => UNCHANGED P!vars
BY DEF pipeSide, P!vars, P!pipeVars, P!serviceVars, P!serverVars, P!clientVars

-----------------------------------------------------------------------------
(* What the steps of the pipe do to a client whose request was taken *)

Visiting == {"serve", "write", "flush", "disconnect"}

\* The server thread between two messages: a visit goes on or ends, and nobody
\* is told anything.
LEMMA ServerApart ==
    ASSUME Pipe!PipeInv, Pipe!ServerStep, srv \notin {"read", "serve"}
    PROVE  /\ UNCHANGED <<svc, died, outcome, work, chan, result>>
           /\ srv' # "serve"
           /\ \/ peer' = Nobody
              \/ peer' = peer /\ (srv \in Visiting => srv' \in Visiting)
<1> USE DEF Visiting, Pipe!Server, Pipe!ServerGoes, Pipe!CloseInstance,
            Pipe!pipeVars, Pipe!serviceVars, Pipe!clientVars
<1>1. CASE Pipe!CheckStop \/ Pipe!CreatePipe \/ Pipe!ClientArrived
  BY <1>1 DEF Pipe!CheckStop, Pipe!CreatePipe, Pipe!ClientArrived
<1>2. CASE Pipe!Listen \/ Pipe!RecheckStop
  BY <1>2 DEF Pipe!Listen, Pipe!RecheckStop
<1>3. CASE Pipe!WriteResponse
  BY <1>3 DEF Pipe!WriteResponse
<1>4. CASE Pipe!Flush \/ Pipe!Disconnect
  BY <1>4 DEF Pipe!Flush, Pipe!Disconnect
<1>5. CASE Pipe!ReadRequest \/ Pipe!ServeRequest
  BY <1>5 DEF Pipe!ReadRequest, Pipe!ServeRequest
<1> QED
  BY <1>1, <1>2, <1>3, <1>4, <1>5 DEF Pipe!ServerStep

\* The main thread, as long as the process lasts: it starts the server thread
\* and may take a free instance, on which there is no visit.
LEMMA ServiceApart ==
    ASSUME Pipe!PipeInv, Pipe!ServiceStep \/ Pipe!StopControl, svc # "join"
    PROVE  /\ UNCHANGED <<died, outcome, work, chan, result>>
           /\ svc' # "stopped" \/ svc = "stopped"
           /\ svc # "stopped" \/ svc' = svc
           /\ srv' = "serve" <=> srv = "serve"
           /\ \/ peer' = peer /\ (srv \in Visiting => srv' = srv)
              \/ peer' = Waker /\ srv # "serve"
<1> USE DEF Visiting, Pipe!MainThread, Pipe!pipeVars, Pipe!serverVars, Pipe!clientVars
<1>1. CASE Pipe!SpawnServer
  BY <1>1 DEF Pipe!SpawnServer, Pipe!PipeInv, Pipe!InstanceByStep
<1>2. CASE Pipe!StoreStop \/ Pipe!WakeWait \/ Pipe!ReportPending \/ Pipe!StopControl
  BY <1>2 DEF Pipe!StoreStop, Pipe!WakeWait, Pipe!ReportPending, Pipe!StopControl
<1>3. CASE Pipe!WakeOpen
  BY <1>3 DEF Pipe!WakeOpen, Pipe!PipeInv, Pipe!InstanceByStep
<1>4. CASE Pipe!JoinServer
  BY <1>4 DEF Pipe!JoinServer
<1> QED
  BY <1>1, <1>2, <1>3, <1>4 DEF Pipe!ServiceStep

\* What becomes of a client that has written its request: its worker ends, and
\* does not connect again.
GoesOn(c) ==
    work[c] \in {"read", "finished"} =>
        work'[c] \in {"read", "finished"} /\ (peer' = c => peer = c)

\* What a worker can tell its caller.
Tells(c, e) ==
    /\ e \in {"Connected"} \cup Pipe!Outcomes \cup Pipe!Failures
    /\ e \in Pipe!ConnectFailures => work[c] \notin {"read", "finished"}
    /\ e = "broken" => work[c] \notin {"read", "finished"} \/ handle[c] = "broken"

\* A worker ends with one event.
LEMMA CompleteApart ==
    ASSUME Pipe!PipeInv, NEW c \in Clients \cup Checkers, NEW e,
           Pipe!Complete(c, e), c \in Clients => Tells(c, e)
    PROVE  /\ \A d \in Clients : GoesOn(d) /\ peer' = peer
           /\ \A d \in Clients :
                 chan'[d] = chan[d] \/ \E f : Tells(d, f) /\ chan'[d] = Append(chan[d], f)
BY DEF Pipe!PipeInv, Pipe!TypeOK, Pipe!Callers, Pipe!Complete, Pipe!HangUp, GoesOn

\* The worker of a client speaks of a failed connection only before it has
\* written the request, and of a broken one only when it is.
LEMMA WorkerApart ==
    ASSUME Pipe!PipeInv, NEW c \in Clients \cup Checkers, Pipe!WorkerStep(c)
    PROVE  /\ UNCHANGED <<svc, died, outcome, srv, result>>
           /\ srv = "serve" => peer' = peer
           /\ \A d \in Clients : GoesOn(d)
           /\ \A d \in Clients :
                 chan'[d] = chan[d] \/ \E e : Tells(d, e) /\ chan'[d] = Append(chan[d], e)
<1>0. UNCHANGED <<svc, died, outcome, srv, result>>
  BY DEF Pipe!WorkerStep, Pipe!WaitForPipe, Pipe!OpenPipe, Pipe!VerifyServer,
     Pipe!SetReadMode, Pipe!AnnounceConnected, Pipe!WriteRequest, Pipe!ReadResponse,
     Pipe!Worker, Pipe!serviceVars, Pipe!serverVars
<1>c. \A e : Pipe!Complete(c, e) /\ (c \in Clients => Tells(c, e)) =>
        /\ \A d \in Clients : GoesOn(d) /\ peer' = peer
        /\ \A d \in Clients :
              chan'[d] = chan[d] \/ \E f : Tells(d, f) /\ chan'[d] = Append(chan[d], f)
  BY CompleteApart
<1>p. \A e : Pipe!Complete(c, e) => peer' = peer
  BY DEF Pipe!Complete, Pipe!HangUp
<1> USE DEF Pipe!pipeVars, Pipe!Advance
<1>1. CASE Pipe!WaitForPipe(c)
  <2>1. CASE \E e \in {"noPipe", "waitTimeout"} : Pipe!Complete(c, e)
    BY <1>0, <1>c, <1>p, <1>1, <2>1
       DEF Pipe!WaitForPipe, Tells, Pipe!Failures, Pipe!ConnectFailures, Pipe!Outcomes
  <2>2. CASE Pipe!Advance(c, "open") /\ UNCHANGED Pipe!pipeVars
    BY <1>0, <1>1, <2>2 DEF Pipe!WaitForPipe, GoesOn, Pipe!PipeInv, Pipe!TypeOK, Pipe!Callers
  <2> QED
    BY <1>1, <2>1, <2>2 DEF Pipe!WaitForPipe
<1>2. CASE Pipe!OpenPipe(c)
  <2>1. CASE \E e \in {"noPipe", "busy"} : Pipe!Complete(c, e)
    BY <1>0, <1>c, <1>p, <1>2, <2>1
       DEF Pipe!OpenPipe, Tells, Pipe!Failures, Pipe!ConnectFailures, Pipe!Outcomes
  <2>2. CASE pipe = "listening" /\ peer' = c /\ Pipe!Advance(c, "verify")
    BY <1>0, <1>2, <2>2
       DEF Pipe!OpenPipe, GoesOn, Pipe!PipeInv, Pipe!TypeOK, Pipe!InstanceByStep, Pipe!Callers
  <2> QED
    BY <1>2, <2>1, <2>2 DEF Pipe!OpenPipe
<1>3. CASE Pipe!VerifyServer(c)
  <2>1. CASE Pipe!Complete(c, "notService")
    BY <1>0, <1>c, <1>p, <1>3, <2>1
       DEF Pipe!VerifyServer, Tells, Pipe!Failures, Pipe!ConnectFailures, Pipe!Outcomes
  <2>2. CASE Pipe!Advance(c, "mode") /\ UNCHANGED Pipe!pipeVars
    BY <1>0, <1>3, <2>2 DEF Pipe!VerifyServer, GoesOn, Pipe!PipeInv, Pipe!TypeOK, Pipe!Callers
  <2> QED
    BY <1>3, <2>1, <2>2 DEF Pipe!VerifyServer
<1>4. CASE Pipe!SetReadMode(c)
  <2>1. CASE \E e \in {"ok", "broken"} : Pipe!Complete(c, e)
    BY <1>0, <1>c, <1>p, <1>4, <2>1
       DEF Pipe!SetReadMode, Tells, Pipe!Failures, Pipe!ConnectFailures, Pipe!Outcomes
  <2>2. CASE Pipe!Advance(c, "connected") /\ UNCHANGED Pipe!pipeVars
    BY <1>0, <1>4, <2>2 DEF Pipe!SetReadMode, GoesOn, Pipe!PipeInv, Pipe!TypeOK, Pipe!Callers
  <2> QED
    BY <1>4, <2>1, <2>2 DEF Pipe!SetReadMode
<1>5. CASE Pipe!AnnounceConnected(c)
  <2>1. Tells(c, "Connected")
    BY DEF Tells, Pipe!ConnectFailures
  <2> QED
    BY <1>0, <1>5, <2>1
       DEF Pipe!AnnounceConnected, GoesOn, Pipe!PipeInv, Pipe!TypeOK, Pipe!Callers
<1>6. CASE Pipe!WriteRequest(c)
  <2>1. CASE Pipe!Complete(c, "broken")
    BY <1>0, <1>c, <1>p, <1>6, <2>1
       DEF Pipe!WriteRequest, Tells, Pipe!Failures, Pipe!ConnectFailures, Pipe!Outcomes
  <2>2. CASE Pipe!Advance(c, "read") /\ UNCHANGED peer
    BY <1>0, <1>6, <2>2 DEF Pipe!WriteRequest, GoesOn, Pipe!PipeInv, Pipe!TypeOK, Pipe!Callers
  <2> QED
    BY <1>6, <2>1, <2>2 DEF Pipe!WriteRequest
<1>7. CASE Pipe!ReadResponse(c)
  <2>1. CASE Pipe!Complete(c, "broken") /\ handle[c] = "broken"
    BY <1>0, <1>c, <1>p, <1>7, <2>1
       DEF Pipe!ReadResponse, Tells, Pipe!Failures, Pipe!ConnectFailures, Pipe!Outcomes
  <2>2. CASE Pipe!Complete(c, reply[c]) /\ reply[c] # "none"
    BY <1>0, <1>c, <1>p, <1>7, <2>2
       DEF Tells, Pipe!PipeInv, Pipe!TypeOK, Pipe!Callers, Pipe!Failures,
           Pipe!ConnectFailures, Pipe!Outcomes
  <2> QED
    BY <1>7, <2>1, <2>2 DEF Pipe!ReadResponse
<1> QED
  BY <1>1, <1>2, <1>3, <1>4, <1>5, <1>6, <1>7 DEF Pipe!WorkerStep

\* A caller returns with an event it has read, or with a time-out of its own.
LEMMA CallerApart ==
    ASSUME Pipe!PipeInv, NEW c \in Clients \cup Checkers,
           Pipe!Submit(c) \/ Pipe!CallerStep(c) \/ Pipe!Quit(c)
    PROVE  /\ UNCHANGED <<svc, died, outcome, srv, peer>>
           /\ \A d \in Clients : GoesOn(d)
           /\ \A d \in Clients :
                 chan'[d] = chan[d] \/ (chan[d] # <<>> /\ chan'[d] = Tail(chan[d]))
           /\ \A d \in Clients :
                 \/ result'[d] \in {result[d], "connectTimeout", "responseTimeout"}
                 \/ chan[d] # <<>> /\ result'[d] = Head(chan[d])
<1> USE DEF GoesOn, Pipe!PipeInv, Pipe!TypeOK, Pipe!Callers, Pipe!Caller, Pipe!Return,
            Pipe!pipeVars, Pipe!serviceVars, Pipe!serverVars
<1>1. CASE Pipe!Submit(c)
  BY <1>1 DEF Pipe!Submit, Pipe!EventsInOrder, Pipe!EventsOf
<1>2. CASE Pipe!AwaitConnected(c)
  BY <1>2 DEF Pipe!AwaitConnected
<1>3. CASE Pipe!AwaitComplete(c)
  BY <1>3 DEF Pipe!AwaitComplete
<1>4. CASE Pipe!Quit(c)
  BY <1>4 DEF Pipe!Quit, Pipe!HangUp
<1> QED
  BY <1>1, <1>2, <1>3, <1>4 DEF Pipe!CallerStep

-----------------------------------------------------------------------------
(* The steps that only the pipe sees *)

\* The initial states keep to the invariant: no request has been taken.
LEMMA InitBrokerInv == BrokerInit => BrokerInv
<1> SUFFICES ASSUME BrokerInit PROVE BrokerInv
  OBVIOUS
<1>1. IInv /\ Pipe!PipeInv
  BY InitIInv, PipeInitially DEF BrokerInit
<1>2. turns = <<>> /\ Len(turns) = 0 /\ DOMAIN turns = {} /\ turns \in Seq(Clients)
  BY DEF BrokerInit
<1>3. BrokerTypeOK
  BY <1>2, AsksAreRequests DEF BrokerInit, Init, Pipe!Init, BrokerTypeOK, Steps
<1>4. FailuresAreSafe
  BY <1>2 DEF BrokerInit, Pipe!Init, Pipe!Callers, FailuresAreSafe, SafeToRetry, NeverTaken
<1>5. OneVisit /\ AnswersCarried /\ Occupied /\ OneLinkEach
  BY <1>2 DEF BrokerInit, Pipe!Init, Pipe!Callers, OneVisit, AnswersCarried, Occupied, OneLinkEach
<1>6. LostByKill /\ AuditNamesClient /\ AtTheEntry
  BY DEF BrokerInit, Init, LostByKill, AuditNamesClient, AtTheEntry, Changing, NoCode
<1> QED
  BY <1>1, <1>3, <1>4, <1>5, <1>6 DEF BrokerInv

\* The taken requests are the ones served so far.
LEMMA TurnsTyped ==
    ASSUME BrokerTypeOK, IInv
    PROVE  /\ DOMAIN turns = 1 .. served /\ served \in Nat /\ served <= MaxRequests
           /\ \A n \in DOMAIN turns : turns[n] \in Clients /\ n \in RequestNumbers
BY Bounds DEF BrokerTypeOK, IInv, TypeOK, HistoryOK, RequestNumbers

\* An end is broken under a request that was taken only if the process was
\* killed.
LEMMA BrokenIsSafe ==
    ASSUME BrokerInv, NEW c \in Clients, handle[c] = "broken"
    PROVE  SafeToRetry(c, "broken")
<1> SUFFICES ASSUME NEW n \in DOMAIN turns, Turn(c, n), ~died PROVE FALSE
  BY DEF SafeToRetry, NeverTaken, Pipe!ConnectFailures
<1>1. peer # c /\ outcome[c] = "none"
  BY DEF BrokerInv, Pipe!PipeInv, Pipe!EndByWork, Pipe!EndOf, Pipe!Callers
<1>2. answers[n] \in {NoCode, "lost"}
  BY <1>1 DEF BrokerInv, AnswersCarried, OutcomeOf, Says, Turn
<1>3. n \in RequestNumbers /\ n \in 1 .. served
  BY TurnsTyped DEF BrokerInv
<1>4. answers[n] = NoCode
  BY <1>2, <1>3 DEF BrokerInv, LostByKill
<1>5. n = served /\ pc \in Steps
  BY <1>3, <1>4 DEF BrokerInv, IInv, TypeOK, HistoryOK, History
<1> QED
  BY <1>1, <1>5 DEF BrokerInv, BrokerTypeOK, Turn

\* A step that the worker and its world do not see keeps what ties the two
\* together, if it leaves the visits and the outcomes as they are.
LEMMA ApartKeeps ==
    ASSUME BrokerInv, UNCHANGED <<vars, onlyHere>>, IInv', Pipe!PipeInv',
           outcome' = outcome, died' = died,
           srv' = "serve" <=> srv = "serve", srv = "serve" => peer' = peer,
           svc' = "stopped" <=> svc = "stopped",
           \A c \in Clients : GoesOn(c),
           \A c \in Clients : peer' = c /\ peer = c /\ srv \in Visiting => srv' \in Visiting,
           FailuresAreSafe'
    PROVE  BrokerInv'
<1> USE DEF vars, onlyHere
<1>1. BrokerTypeOK'
  BY DEF BrokerInv, BrokerTypeOK, IInv, TypeOK, WorkerOK, Steps
<1>2. OneVisit'
  BY TurnsTyped DEF BrokerInv, OneVisit, GoesOn, Visiting
<1>3. AnswersCarried'
  BY DEF BrokerInv, AnswersCarried, OutcomeOf, Turn
<1>4. LostByKill' /\ AuditNamesClient' /\ AtTheEntry'
  BY DEF BrokerInv, LostByKill, AuditNamesClient, AtTheEntry, At
<1>5. Occupied' /\ OneLinkEach'
  BY DEF BrokerInv, Occupied, OneLinkEach, FreedBy, EntryOf
<1> QED
  BY <1>1, <1>2, <1>3, <1>4, <1>5 DEF BrokerInv

\* Nobody is told anything new.
LEMMA NothingTold ==
    ASSUME BrokerInv, UNCHANGED <<turns, chan, result>>, died' = died
    PROVE  FailuresAreSafe'
BY DEF BrokerInv, FailuresAreSafe, SafeToRetry, NeverTaken, Turn

\* What is not the worker's business on the server thread.
LEMMA ServerApartInv ==
    BrokerInv /\ Apart(Pipe!ServerStep /\ srv \notin {"read", "serve"}) => BrokerInv'
<1> SUFFICES ASSUME BrokerInv, Apart(Pipe!ServerStep /\ srv \notin {"read", "serve"})
             PROVE  BrokerInv'
  OBVIOUS
<1>1. Pipe!PipeInv /\ Pipe!ServerStep /\ srv \notin {"read", "serve"} /\ UNCHANGED <<vars,
onlyHere>>
  BY DEF Apart, BrokerInv
<1>2. IInv' /\ Pipe!PipeInv'
  BY <1>1, NextIInv, PipeStep, SameServerStep DEF BrokerInv, P!Next
<1>3. \A c \in Clients : GoesOn(c)
  BY <1>1, ServerApart, PeersAreDistinct DEF GoesOn
<1>4. FailuresAreSafe'
  BY <1>1, ServerApart, NothingTold DEF onlyHere
<1> QED
  BY <1>1, <1>2, <1>3, <1>4, ServerApart, ApartKeeps, PeersAreDistinct

\* The main thread while the process lasts.
LEMMA ServiceApartInv ==
    /\ BrokerInv /\ Apart(Pipe!ServiceStep /\ svc # "join") => BrokerInv'
    /\ BrokerInv /\ Apart(Pipe!StopControl) => BrokerInv'
<1> SUFFICES ASSUME BrokerInv, UNCHANGED <<vars, onlyHere>>,
                    \/ Pipe!ServiceStep /\ svc # "join"
                    \/ Pipe!StopControl
             PROVE  BrokerInv'
  BY DEF Apart
<1>1. /\ UNCHANGED <<died, outcome, work, chan, result>>
      /\ srv' = "serve" <=> srv = "serve"
      /\ svc' = "stopped" <=> svc = "stopped"
      /\ \/ peer' = peer /\ (srv \in Visiting => srv' = srv)
         \/ peer' = Waker /\ srv # "serve"
  <2>1. CASE Pipe!ServiceStep /\ svc # "join"
    BY <2>1, ServiceApart DEF BrokerInv
  <2>2. CASE Pipe!StopControl
    BY <2>2 DEF Pipe!StopControl, Pipe!MainThread, Pipe!serverVars, Pipe!clientVars
  <2> QED
    BY <2>1, <2>2
<1>2. IInv' /\ Pipe!PipeInv'
  BY NextIInv, PipeStep, SameServiceStep DEF BrokerInv, P!Next
<1>3. \A c \in Clients : GoesOn(c)
  BY <1>1, PeersAreDistinct DEF GoesOn
<1>4. FailuresAreSafe'
  BY <1>1, NothingTold DEF onlyHere
<1> QED
  BY <1>1, <1>2, <1>3, <1>4, ApartKeeps, PeersAreDistinct

\* What sending an event to a channel, and reading one, does to its content.
LEMMA ChannelSteps ==
    ASSUME NEW S, NEW s \in Seq(S), NEW e \in S
    PROVE  /\ \A i \in 1 .. Len(Append(s, e)) :
                 (i \in 1 .. Len(s) /\ Append(s, e)[i] = s[i]) \/ Append(s, e)[i] = e
           /\ s # <<>> =>
                 /\ Head(s) = s[1] /\ 1 \in 1 .. Len(s)
                 /\ \A i \in 1 .. Len(Tail(s)) : Tail(s)[i] = s[i + 1] /\ i + 1 \in 1 .. Len(s)
OBVIOUS

\* SafeToRetry of the next state, for an event or a result of either.
StaysSafe(c, e) ==
    /\ e \in Pipe!ConnectFailures => NeverTaken(c)'
    /\ e = "broken" => died' \/ NeverTaken(c)'

\* A worker promises a safe retry only to a client whose request was not taken,
\* or over whose request the process was killed.
LEMMA WorkerInv == ASSUME NEW c \in Clients \cup Checkers
                   PROVE  BrokerInv /\ Worker(c) => BrokerInv'
<1> SUFFICES ASSUME BrokerInv, Worker(c) PROVE BrokerInv'
  OBVIOUS
<1>1. Pipe!PipeInv /\ Pipe!WorkerStep(c) /\ UNCHANGED <<vars, onlyHere>>
  BY DEF Worker, Apart, BrokerInv
<1>2. IInv' /\ Pipe!PipeInv'
  BY <1>1, NextIInv, PipeStep, SameWorkerStep DEF BrokerInv, P!Next, P!Callers
<1>3. /\ UNCHANGED <<svc, died, outcome, srv, result>>
      /\ srv = "serve" => peer' = peer
      /\ \A d \in Clients : GoesOn(d)
  BY <1>1, WorkerApart
<1>4. FailuresAreSafe'
  <2> SUFFICES ASSUME NEW d \in Clients
               PROVE  /\ \A i \in 1 .. Len(chan'[d]) : StaysSafe(d, chan'[d][i])
                      /\ StaysSafe(d, result'[d])
    BY DEF FailuresAreSafe, SafeToRetry, StaysSafe
  <2>0. \A e : SafeToRetry(d, e) => StaysSafe(d, e)
    BY <1>1, <1>3 DEF SafeToRetry, StaysSafe, NeverTaken, Turn, onlyHere
  <2>1. StaysSafe(d, result'[d])
    BY <1>3, <2>0 DEF BrokerInv, FailuresAreSafe
  <2>2. CASE chan'[d] = chan[d]
    BY <2>0, <2>1, <2>2 DEF BrokerInv, FailuresAreSafe
  <2>3. ASSUME NEW e, Tells(d, e), chan'[d] = Append(chan[d], e)
        PROVE  \A i \in 1 .. Len(chan'[d]) : StaysSafe(d, chan'[d][i])
    <3>1. SafeToRetry(d, e)
      <4>1. work[d] \notin {"read", "finished"} => NeverTaken(d)
        BY DEF BrokerInv, OneVisit, NeverTaken, Turn
      <4>2. handle[d] = "broken" => SafeToRetry(d, "broken")
        BY BrokenIsSafe
      <4> QED
        BY <2>3, <4>1, <4>2 DEF Tells, SafeToRetry, Pipe!ConnectFailures
    <3>2. /\ chan[d] \in Seq({"Connected"} \cup Pipe!Outcomes \cup Pipe!Failures)
          /\ e \in {"Connected"} \cup Pipe!Outcomes \cup Pipe!Failures
      BY <1>1, <2>3 DEF Tells, Pipe!PipeInv, Pipe!TypeOK, Pipe!Callers
    <3>3. \A i \in 1 .. Len(chan'[d]) :
            (i \in 1 .. Len(chan[d]) /\ chan'[d][i] = chan[d][i]) \/ chan'[d][i] = e
      BY <2>3, <3>2, ChannelSteps
    <3>4. \A i \in 1 .. Len(chan'[d]) : SafeToRetry(d, chan'[d][i])
      BY <3>1, <3>3 DEF BrokerInv, FailuresAreSafe
    <3> QED
      BY <2>0, <3>4
  <2> QED
    BY <1>1, <2>1, <2>2, <2>3, WorkerApart
<1> QED
  BY <1>1, <1>2, <1>3, <1>4, ApartKeeps

\* A caller passes on what it has read.
LEMMA CallerInv == ASSUME NEW c \in Clients \cup Checkers
                   PROVE  BrokerInv /\ Caller(c) => BrokerInv'
<1> SUFFICES ASSUME BrokerInv, Caller(c) PROVE BrokerInv'
  OBVIOUS
<1>1. /\ Pipe!PipeInv /\ UNCHANGED <<vars, onlyHere>>
      /\ Pipe!Submit(c) \/ Pipe!CallerStep(c) \/ Pipe!Quit(c)
  BY DEF Caller, Apart, BrokerInv
<1>2. IInv' /\ Pipe!PipeInv'
  BY <1>1, NextIInv, PipeStep, SameCallerStep DEF BrokerInv, P!Next, P!Callers
<1>3. /\ UNCHANGED <<svc, died, outcome, srv, peer>>
      /\ \A d \in Clients : GoesOn(d)
  BY <1>1, CallerApart
<1>4. FailuresAreSafe'
  <2> SUFFICES ASSUME NEW d \in Clients
               PROVE  /\ \A i \in 1 .. Len(chan'[d]) : StaysSafe(d, chan'[d][i])
                      /\ StaysSafe(d, result'[d])
    BY DEF FailuresAreSafe, SafeToRetry, StaysSafe
  <2>0. \A e : SafeToRetry(d, e) => StaysSafe(d, e)
    BY <1>1, <1>3 DEF SafeToRetry, StaysSafe, NeverTaken, Turn, onlyHere
  <2>c. chan[d] \in Seq({"Connected"} \cup Pipe!Outcomes \cup Pipe!Failures)
    BY <1>1 DEF Pipe!PipeInv, Pipe!TypeOK, Pipe!Callers
  <2>h. chan[d] # <<>> =>
          /\ Head(chan[d]) = chan[d][1] /\ 1 \in 1 .. Len(chan[d])
          /\ \A i \in 1 .. Len(Tail(chan[d])) :
                Tail(chan[d])[i] = chan[d][i + 1] /\ i + 1 \in 1 .. Len(chan[d])
    BY <2>c, ChannelSteps
  <2>1. \A i \in 1 .. Len(chan[d]) : StaysSafe(d, chan[d][i])
    BY <2>0 DEF BrokerInv, FailuresAreSafe
  <2>2. StaysSafe(d, result[d])
    BY <2>0 DEF BrokerInv, FailuresAreSafe
  <2>3. \A i \in 1 .. Len(chan'[d]) : StaysSafe(d, chan'[d][i])
    <3>1. CASE chan'[d] = chan[d]
      BY <2>1, <3>1
    <3>2. CASE chan[d] # <<>> /\ chan'[d] = Tail(chan[d])
      BY <2>1, <2>h, <3>2
    <3> QED
      BY <1>1, <3>1, <3>2, CallerApart
  <2>4. StaysSafe(d, result'[d])
    <3>1. CASE result'[d] = result[d]
      BY <2>2, <3>1
    <3>2. CASE result'[d] \in {"connectTimeout", "responseTimeout"}
      BY <3>2 DEF StaysSafe, Pipe!ConnectFailures
    <3>3. CASE chan[d] # <<>> /\ result'[d] = Head(chan[d])
      BY <2>1, <2>h, <3>3
    <3> QED
      BY <1>1, <3>1, <3>2, <3>3, CallerApart
  <2> QED
    BY <2>3, <2>4
<1> QED
  BY <1>1, <1>2, <1>3, <1>4, ApartKeeps

-----------------------------------------------------------------------------
(* The steps of the worker *)

\* What taking a request does to the sequence of turns.
LEMMA NextTurn ==
    ASSUME BrokerTypeOK, IInv, NEW c \in Clients, turns' = Append(turns, c), served' = served + 1
    PROVE  /\ turns' \in Seq(Clients) /\ Len(turns') = served'
           /\ DOMAIN turns' = 1 .. served' /\ served' \in DOMAIN turns' /\ turns'[served'] = c
           /\ \A n \in DOMAIN turns' : n = served' \/ (n \in DOMAIN turns /\ n # served')
           /\ \A n \in DOMAIN turns : n \in DOMAIN turns' /\ turns'[n] = turns[n] /\ n <= served
BY Bounds DEF BrokerTypeOK, IInv, TypeOK, HistoryOK

\* A request is taken from a client that has had none taken: it has just
\* written it, and nothing that it was told speaks of a failure.
LEMMA TakeServed ==
    ASSUME BrokerInv, Take, srv' = "serve"
    PROVE  BrokerInv'
<1>1. /\ Pipe!ReadRequest /\ inbox /\ srv = "read" /\ peer \in Clients
      /\ Receive(asks[peer]) /\ turns' = Append(turns, peer) /\ UNCHANGED <<asks, former>>
      /\ UNCHANGED <<peer, handle, svc, died, outcome, work, chan, result>>
  BY DEF Take, Pipe!ReadRequest, Pipe!ServerGoes, Pipe!Server, Pipe!serviceVars,
     Pipe!clientVars, BrokerInv, Pipe!PipeInv, Pipe!ServedOnce
<1>2. IInv' /\ Pipe!PipeInv'
  <2>1. Next
    BY <1>1 DEF Next, BrokerInv, BrokerTypeOK
  <2>2. P!Next
    BY <1>1, SameServerStep DEF Pipe!ServerStep, P!Next
  <2> QED
    BY <2>1, <2>2, NextIInv, PipeStep DEF BrokerInv
<1>3. served' = served + 1 /\ UNCHANGED <<fs, done, answers, audit>>
  BY <1>1 DEF Receive, world
<1>4. /\ turns' \in Seq(Clients) /\ Len(turns') = served'
      /\ DOMAIN turns' = 1 .. served' /\ served' \in DOMAIN turns' /\ turns'[served'] = peer
      /\ \A n \in DOMAIN turns' : n = served' \/ (n \in DOMAIN turns /\ n # served')
      /\ \A n \in DOMAIN turns : n \in DOMAIN turns' /\ turns'[n] = turns[n] /\ n <= served
  BY <1>1, <1>3, NextTurn DEF BrokerInv
<1>5. \A n \in DOMAIN turns : turns[n] # peer
  BY <1>1 DEF BrokerInv, OneVisit
<1>6. BrokerTypeOK'
  BY <1>1, <1>4, <1>5 DEF BrokerInv, BrokerTypeOK, Receive, Steps
<1>7. OneVisit'
  <2>1. work[peer] \in {"read", "finished"}
    BY <1>1 DEF BrokerInv, Pipe!PipeInv, Pipe!ServedOnce, Pipe!Pending, Pipe!Callers
  <2> QED
    BY <1>1, <1>4, <1>5, <2>1 DEF BrokerInv, OneVisit
<1>8. served' \in RequestNumbers /\ served' > served /\ answers[served'] = NoCode /\ done[served'] = {}
  BY <1>1, <1>3, Bounds DEF BrokerInv, IInv, TypeOK, HistoryOK, History, Receive, RequestNumbers
<1>9. AnswersCarried'
  <2>1. outcome[peer] = "none"
    BY <1>1 DEF BrokerInv, Pipe!PipeInv, Pipe!ServedOnce, Pipe!Callers
  <2>2. \A n \in DOMAIN turns' : outcome'[turns'[n]] = OutcomeOf(n)'
    BY <1>1, <1>3, <1>4, <1>8, <2>1 DEF BrokerInv, AnswersCarried, OutcomeOf
  <2>3. \A c \in Clients : outcome'[c] # "none" => \E n \in DOMAIN turns' : Turn(c, n)'
    BY <1>1, <1>4 DEF BrokerInv, AnswersCarried, Turn
  <2> QED
    BY <2>2, <2>3 DEF AnswersCarried
<1>10. FailuresAreSafe'
  <2> SUFFICES ASSUME NEW c \in Clients
               PROVE  /\ \A i \in 1 .. Len(chan[c]) : StaysSafe(c, chan[c][i])
                      /\ StaysSafe(c, result[c])
    BY <1>1 DEF FailuresAreSafe, SafeToRetry, StaysSafe
  <2>1. CASE c = peer
    <3>1. Pipe!EventsOf(peer)
      BY <1>1 DEF BrokerInv, Pipe!PipeInv, Pipe!EventsInOrder, Pipe!Callers
    <3>2. \A e : Pipe!StillTrue(peer, e) => StaysSafe(peer, e)
      BY <1>1 DEF Pipe!StillTrue, Pipe!Pending, Pipe!Failures, Pipe!ConnectFailures, StaysSafe
    <3> QED
      BY <2>1, <3>1, <3>2 DEF Pipe!EventsOf
  <2>2. CASE c # peer
    <3>1. NeverTaken(c) => NeverTaken(c)'
      BY <1>4, <2>2 DEF NeverTaken, Turn
    <3>2. \A e : SafeToRetry(c, e) => StaysSafe(c, e)
      BY <1>1, <3>1 DEF SafeToRetry, StaysSafe
    <3> QED
      BY <3>2 DEF BrokerInv, FailuresAreSafe
  <2> QED
    BY <2>1, <2>2
<1>11. LostByKill' /\ AuditNamesClient' /\ AtTheEntry'
  BY <1>1, <1>3, <1>4
     DEF BrokerInv, LostByKill, AuditNamesClient, AtTheEntry, Receive, Changing
<1>12. \A n \in DOMAIN turns : EntryOf(n)' = EntryOf(n)
  BY <1>1, <1>4 DEF EntryOf, Receive, world
<1>13. Occupied' /\ OneLinkEach'
  <2>1. \A m \in DOMAIN turns : \A n \in DOMAIN turns :
          FreedBy(m + 1 .. n - 1, m) => FreedBy(m + 1 .. n - 1, m)'
    BY <1>3, <1>4, <1>12, TurnsTyped DEF FreedBy, BrokerInv
  <2>2. ASSUME NEW m \in DOMAIN turns, FreedBy(m + 1 .. served, m)
        PROVE  FreedBy(m + 1 .. served, m)'
    <3>1. PICK k \in m + 1 .. served : EntryOf(k) = EntryOf(m) /\ "removed" \in done[k]
      BY <2>2 DEF FreedBy
    <3>2. k \in DOMAIN turns /\ k \in m + 1 .. served'
      BY <1>3, TurnsTyped DEF BrokerInv
    <3>3. EntryOf(k)' = EntryOf(m)' /\ "removed" \in done'[k]
      BY <1>3, <1>12, <3>1, <3>2
    <3> QED
      BY <3>2, <3>3 DEF FreedBy
  <2>3. Occupied'
    <3> SUFFICES ASSUME NEW m \in DOMAIN turns', "linked" \in done'[m]
                 PROVE  /\ EntryOf(m)' \in Locations
                        /\ fs'[EntryOf(m)'] # "nothing" \/ FreedBy(m + 1 .. served, m)'
      BY DEF Occupied
    <3>1. m \in DOMAIN turns /\ "linked" \in done[m] /\ EntryOf(m)' = EntryOf(m)
      BY <1>3, <1>4, <1>8, <1>12
    <3> QED
      BY <1>3, <2>2, <3>1 DEF BrokerInv, Occupied
  <2>4. OneLinkEach'
    BY <1>1, <1>3, <1>4, <1>8, <1>12, <2>1 DEF BrokerInv, OneLinkEach
  <2> QED
    BY <2>3, <2>4
<1> QED
  BY <1>2, <1>6, <1>7, <1>9, <1>10, <1>11, <1>13 DEF BrokerInv

\* A client that has hung up instead of writing ends its visit.
LEMMA TakeNothing ==
    ASSUME BrokerInv, Take, srv' # "serve"
    PROVE  BrokerInv'
<1>1. /\ Pipe!ReadRequest /\ UNCHANGED <<vars, onlyHere>> /\ srv = "read"
      /\ UNCHANGED <<svc, died, outcome, work, chan, result>> /\ peer' = Nobody
  BY DEF Take, Pipe!ReadRequest, Pipe!ServerGoes, Pipe!Server, Pipe!serviceVars,
     Pipe!clientVars, Pipe!CloseInstance, onlyHere
<1>2. IInv' /\ Pipe!PipeInv'
  BY <1>1, NextIInv, PipeStep, SameServerStep DEF BrokerInv, P!Next, Pipe!ServerStep
<1>3. \A c \in Clients : GoesOn(c)
  BY <1>1, PeersAreDistinct DEF GoesOn
<1>4. FailuresAreSafe'
  BY <1>1, NothingTold DEF onlyHere
<1> QED
  BY <1>1, <1>2, <1>3, <1>4, ApartKeeps, PeersAreDistinct

\* Whatever call the worker makes, it stays with its request.
LEMMA WorkStays ==
    ASSUME BrokerInv, Work
    PROVE  /\ pc' \in Steps /\ UNCHANGED <<req, served, answers>>
           /\ srv = "serve" /\ pc \in Steps /\ req = asks[peer] /\ turns[served] = peer
           /\ served \in DOMAIN turns
           /\ IInv' /\ Pipe!PipeInv'
<1>1. pc \in Steps /\ srv = "serve" /\ req = asks[peer] /\ turns[served] = peer
  BY DEF Work, BrokerInv, BrokerTypeOK
<1>2. served \in DOMAIN turns
  BY <1>1, TurnsTyped DEF BrokerInv, IInv, EffectsByStep, RequestNumbers
<1>3. pc' \in Steps /\ UNCHANGED <<req, served, answers>>
  BY DEF Work, WorkerStep, ValidateSchema, Impersonate, IdentifyClient, NormalizePaths,
     CheckPolicy, VerifyParentAccess, Revert, DecideKind, InspectAndPlan, Recheck,
     ReadMetadata, Remove, Create, WriteAudit, Finish, GoTo, Fail, locals, ghosts, Steps
<1>4. IInv'
  BY NextIInv DEF Work, Next, BrokerInv
<1>5. Pipe!PipeInv'
  BY PipeStutters, PipeStep DEF Work, BrokerInv
<1> QED
  BY <1>1, <1>2, <1>3, <1>4, <1>5

\* What the worker does to the entries: nothing, or the removal or the creation
\* of the entry of the present request.
Deed ==
    \/ UNCHANGED <<fs, done>>
    \/ /\ pc = "remove" /\ fs' = [fs EXCEPT ![At] = "nothing"]
       /\ done' = [done EXCEPT ![served] = @ \cup {"removed"}]
    \/ /\ pc = "create" /\ fs[At] = "nothing"
       /\ fs' = [fs EXCEPT ![At] = LinkObject(kind)]
       /\ done' = [done EXCEPT ![served] = @ \cup {"linked"}]

\* Each call of the worker is one of these deeds, and re-points no name.
LEMMA WorkerDeeds == WorkerStep => Deed /\ layout' = layout
BY DEF Deed, WorkerStep, ValidateSchema, Impersonate, IdentifyClient, NormalizePaths,
   CheckPolicy, VerifyParentAccess, Revert, DecideKind, InspectAndPlan, Recheck,
   ReadMetadata, Remove, Create, WriteAudit, Finish, world, ghosts

\* The name may be resolved, but it stays a name of the entry asked for; a
\* replacement is planned only if it was asked for.
LEMMA WorkAtTheEntry == BrokerInv /\ Work => AtTheEntry'
<1> SUFFICES ASSUME BrokerInv, Work PROVE AtTheEntry'
  OBVIOUS
<1>0. pc \in Steps /\ req' = req /\ req \in RequestRecords /\ layout' = layout
  BY WorkStays, RequestsAreRecords, WorkerDeeds DEF Work, BrokerInv, IInv, TypeOK, WorkerOK
<1> USE DEF BrokerInv, AtTheEntry, At, GoTo, Fail, locals, Changing
<1>1. CASE NormalizePaths
  <2>1. CASE pc' = "finish"
    BY <2>1
  <2>2. CASE pc' = "policy"
    <3>1. name' = normalize_for_policy(req.link_path) /\ name' # Unusable
      BY <1>1, <2>2 DEF NormalizePaths
    <3>2. req.link_path \in Spellings
      BY <1>0 DEF RequestRecords
    <3>3. Lexical[req.link_path] \in Names
      BY <3>1, <3>2, PathsAreFunctions DEF normalize_for_policy
    <3>4. layout.leads[name'] = layout.leads[Lexical[req.link_path]]
      BY <3>1, <3>3, LayoutsAreFunctions DEF normalize_for_policy, IInv, TypeOK, WorldOK
    <3> QED
      BY <1>0, <2>2, <3>4
  <2> QED
    BY <1>1, <2>1, <2>2 DEF NormalizePaths
<1>2. CASE InspectAndPlan
  <2>1. CASE pc' = "create"
    BY <1>0, <1>2, <2>1 DEF InspectAndPlan
  <2>2. CASE pc' # "create"
    BY <1>0, <1>2, <2>2 DEF InspectAndPlan
  <2> QED
    BY <2>1, <2>2
<1>3. CASE Remove
  BY <1>0, <1>3 DEF Remove, IInv, LocalsByStep
<1>4. CASE ValidateSchema \/ Impersonate \/ IdentifyClient \/ CheckPolicy \/ VerifyParentAccess
  BY <1>0, <1>4 DEF ValidateSchema, Impersonate, IdentifyClient, CheckPolicy, VerifyParentAccess
<1>5. CASE Revert \/ DecideKind \/ Recheck \/ ReadMetadata \/ Create \/ WriteAudit
  BY <1>0, <1>5 DEF Revert, DecideKind, Recheck, ReadMetadata, Create, WriteAudit
<1> QED
  BY <1>1, <1>2, <1>3, <1>4, <1>5 DEF Work, WorkerStep, Finish

\* An entry that a request has linked is found taken by the ones after it,
\* unless one of them freed it; the one that frees it was asked to replace it.
LEMMA WorkOccupies == BrokerInv /\ Work => Occupied' /\ OneLinkEach'
<1> SUFFICES ASSUME BrokerInv, Work PROVE Occupied' /\ OneLinkEach'
  OBVIOUS
<1>0. /\ served \in DOMAIN turns /\ served' = served /\ pc \in Steps
      /\ req = asks[peer] /\ turns[served] = peer /\ UNCHANGED <<asks, turns, layout>>
  BY WorkStays, WorkerDeeds DEF Work, onlyHere
<1>1. /\ DOMAIN turns = 1 .. served /\ served \in Nat
      /\ \A n \in DOMAIN turns : n \in RequestNumbers
  BY TurnsTyped DEF BrokerInv
<1>2. \A n : EntryOf(n)' = EntryOf(n)
  BY <1>0 DEF EntryOf
<1>3. /\ fs \in [Locations -> Objects] /\ kind \in TargetKinds \cup {NoKind}
      /\ done \in [RequestNumbers -> SUBSET {"removed", "linked"}]
  BY DEF BrokerInv, IInv, TypeOK, WorldOK, WorkerOK, HistoryOK
<1>4. pc \in {"remove", "create"} => EntryOf(served) = At /\ At \in Locations
  BY <1>0, NameLeads
     DEF BrokerInv, AtTheEntry, IInv, LocalsByStep, Changing, EntryOf, At
<1>5. ASSUME NEW m \in DOMAIN turns, NEW n \in 1 .. served + 1, FreedBy(m + 1 .. n - 1, m)
      PROVE  FreedBy(m + 1 .. n - 1, m)'
  <2>1. PICK k \in m + 1 .. n - 1 : EntryOf(k) = EntryOf(m) /\ "removed" \in done[k]
    BY <1>5 DEF FreedBy
  <2>2. k \in RequestNumbers
    BY <1>1
  <2>3. "removed" \in done'[k]
    BY <1>3, <2>1, <2>2, WorkerDeeds DEF Work, Deed
  <2>4. EntryOf(k)' = EntryOf(m)'
    BY <1>2, <2>1
  <2> QED
    BY <2>3, <2>4 DEF FreedBy
<1>6. ASSUME NEW m \in DOMAIN turns, FreedBy(m + 1 .. served, m)
      PROVE  FreedBy(m + 1 .. served, m)'
  <2>1. served + 1 \in 1 .. served + 1 /\ (served + 1) - 1 = served
    BY <1>1
  <2>2. FreedBy(m + 1 .. (served + 1) - 1, m)
    BY <1>6, <2>1
  <2>3. PICK k \in m + 1 .. served : EntryOf(k) = EntryOf(m) /\ "removed" \in done[k]
    BY <1>6 DEF FreedBy
  <2>4. k \in RequestNumbers
    BY <1>1
  <2>5. "removed" \in done'[k] /\ EntryOf(k)' = EntryOf(m)'
    BY <1>2, <1>3, <2>3, <2>4, WorkerDeeds DEF Work, Deed
  <2> QED
    BY <1>0, <2>5 DEF FreedBy
<1>7. CASE UNCHANGED <<fs, done>>
  <2>1. Occupied'
    BY <1>0, <1>2, <1>6, <1>7 DEF BrokerInv, Occupied
  <2>2. OneLinkEach'
    BY <1>0, <1>1, <1>2, <1>5, <1>7 DEF BrokerInv, OneLinkEach
  <2> QED
    BY <2>1, <2>2
<1>8. CASE /\ pc = "remove" /\ fs' = [fs EXCEPT ![At] = "nothing"]
           /\ done' = [done EXCEPT ![served] = @ \cup {"removed"}]
  <2>1. done[served] = {} /\ done'[served] = {"removed"}
    BY <1>0, <1>1, <1>3, <1>8 DEF BrokerInv, IInv, EffectsByStep, Steps
  <2>2. \A n \in DOMAIN turns : "linked" \in done'[n] => n # served /\ "linked" \in done[n]
    BY <1>1, <1>3, <1>8, <2>1
  <2>3. ASSUME NEW m \in DOMAIN turns, "linked" \in done'[m]
        PROVE  /\ EntryOf(m)' \in Locations
               /\ fs'[EntryOf(m)'] # "nothing" \/ FreedBy(m + 1 .. served, m)'
    <3>1. m # served /\ EntryOf(m) \in Locations
      BY <2>2, <2>3 DEF BrokerInv, Occupied
    <3>2. CASE EntryOf(m) = At
      <4>1. served \in m + 1 .. served
        BY <1>1, <3>1
      <4>2. \A k : k = served => EntryOf(k)' = EntryOf(m)'
        BY <1>2, <1>4, <1>8, <3>2
      <4> QED
        BY <1>0, <1>2, <2>1, <3>1, <4>1, <4>2 DEF FreedBy
    <3>3. CASE EntryOf(m) # At
      BY <1>2, <1>3, <1>6, <1>8, <2>2, <2>3, <3>1, <3>3 DEF BrokerInv, Occupied
    <3> QED
      BY <3>2, <3>3
  <2>4. Occupied'
    BY <1>0, <2>3 DEF Occupied
  <2>5. OneLinkEach'
    BY <1>0, <1>1, <1>2, <1>5, <2>2 DEF BrokerInv, OneLinkEach
  <2> QED
    BY <2>4, <2>5
<1>9. CASE /\ pc = "create" /\ fs[At] = "nothing"
           /\ fs' = [fs EXCEPT ![At] = LinkObject(kind)]
           /\ done' = [done EXCEPT ![served] = @ \cup {"linked"}]
  <2>1. fs'[At] # "nothing"
    BY <1>3, <1>4, <1>9 DEF LinkObject
  <2>2. \A n \in DOMAIN turns : "linked" \in done'[n] => n = served \/ "linked" \in done[n]
    BY <1>1, <1>3, <1>9
  <2>3. ASSUME NEW m \in DOMAIN turns, "linked" \in done'[m]
        PROVE  /\ EntryOf(m)' \in Locations
               /\ fs'[EntryOf(m)'] # "nothing" \/ FreedBy(m + 1 .. served, m)'
    <3>1. CASE EntryOf(m) = At
      BY <1>2, <1>4, <1>9, <2>1, <3>1
    <3>2. CASE EntryOf(m) # At
      BY <1>2, <1>3, <1>4, <1>6, <1>9, <2>2, <2>3, <3>2 DEF BrokerInv, Occupied
    <3> QED
      BY <3>1, <3>2
  <2>4. Occupied'
    BY <1>0, <2>3 DEF Occupied
  <2>5. OneLinkEach'
    <3> SUFFICES ASSUME NEW m \in DOMAIN turns, NEW n \in DOMAIN turns,
                        m < n, "linked" \in done'[m], "linked" \in done'[n],
                        ~asks[turns[n]].replace_existing_symlink, EntryOf(m) = EntryOf(n)
                 PROVE  FreedBy(m + 1 .. n - 1, m)'
      BY <1>0, <1>2 DEF OneLinkEach
    <3>1. m # served /\ "linked" \in done[m]
      BY <1>1, <2>2
    <3>2. CASE n # served
      BY <1>1, <1>5, <2>2, <3>1, <3>2 DEF BrokerInv, OneLinkEach
    <3>3. CASE n = served
      <4>1. FreedBy(m + 1 .. served, m)
        BY <1>4, <1>9, <3>1, <3>3 DEF BrokerInv, Occupied
      <4>2. PICK k \in m + 1 .. served : EntryOf(k) = EntryOf(m) /\ "removed" \in done[k]
        BY <4>1 DEF FreedBy
      <4>3. "removed" \notin done[served]
        BY <1>0, <1>9, <3>3 DEF BrokerInv, AtTheEntry, IInv, EffectsByStep
      <4>4. k \in m + 1 .. n - 1
        BY <1>1, <3>3, <4>2, <4>3
      <4>5. FreedBy(m + 1 .. n - 1, m)
        BY <4>2, <4>4 DEF FreedBy
      <4> QED
        BY <1>1, <1>5, <4>5
    <3> QED
      BY <3>2, <3>3
  <2> QED
    BY <2>4, <2>5
<1> QED
  BY <1>7, <1>8, <1>9, WorkerDeeds DEF Work, Deed

\* A call of the worker keeps BrokerInv.
LEMMA WorkInv == BrokerInv /\ Work => BrokerInv'
<1> SUFFICES ASSUME BrokerInv, Work PROVE BrokerInv'
  OBVIOUS
<1>1. UNCHANGED <<pipeSide, onlyHere>> /\ WorkerStep /\ ~Finish
  BY DEF Work, Finish
<1>2. /\ pc' \in Steps /\ UNCHANGED <<req, served, answers>>
      /\ srv = "serve" /\ pc \in Steps /\ req = asks[peer] /\ turns[served] = peer
      /\ served \in DOMAIN turns /\ IInv' /\ Pipe!PipeInv'
  BY WorkStays
<1>3. BrokerTypeOK'
  BY <1>1, <1>2 DEF BrokerInv, BrokerTypeOK, pipeSide, onlyHere, Steps, IInv, EffectsByStep
<1>4. OneVisit'
  BY <1>1 DEF BrokerInv, OneVisit, pipeSide, onlyHere
<1>5. AnswersCarried'
  BY <1>1, <1>2 DEF BrokerInv, AnswersCarried, OutcomeOf, Turn, pipeSide, onlyHere
<1>6. FailuresAreSafe' /\ LostByKill'
  BY <1>1, <1>2, NothingTold DEF BrokerInv, LostByKill, pipeSide, onlyHere
<1>7. AuditNamesClient'
  <2>1. audit' = audit \/ audit' = audit \cup {Entry(name)}
    BY <1>1 DEF WorkerStep, ValidateSchema, Impersonate, IdentifyClient, NormalizePaths,
       CheckPolicy, VerifyParentAccess, Revert, DecideKind, InspectAndPlan, Recheck,
       ReadMetadata, Remove, Create, WriteAudit, Finish
  <2>2. /\ Entry(name).request = served /\ Entry(name).user = asks[turns[served]].user
        /\ Entry(name).target = asks[turns[served]].target_path
    BY <1>2 DEF Entry
  <2> QED
    BY <1>1, <1>2, <2>1, <2>2 DEF BrokerInv, AuditNamesClient, onlyHere
<1> QED
  BY <1>2, <1>3, <1>4, <1>5, <1>6, <1>7, WorkAtTheEntry, WorkOccupies DEF BrokerInv

\* The answer of the worker becomes the outcome that the pipe carries.
LEMMA AnswerInv == BrokerInv /\ Answer => BrokerInv'
<1> SUFFICES ASSUME BrokerInv, Answer PROVE BrokerInv'
  OBVIOUS
<1>1. /\ Finish /\ Pipe!ServeRequest /\ srv = "serve" /\ srv' = "write" /\ pc' = "idle"
      /\ outcome' = [outcome EXCEPT ![peer] = Says(code)]
      /\ answers' = [answers EXCEPT ![served] = code]
      /\ UNCHANGED <<onlyHere, world, audit, served, done>>
      /\ UNCHANGED <<peer, svc, died, work, chan, result>>
  BY DEF Answer, Finish, Pipe!ServeRequest, Pipe!ServerGoes, Pipe!Server, Pipe!pipeVars,
     Pipe!serviceVars, Pipe!clientVars
<1>2. IInv' /\ Pipe!PipeInv'
  <2>1. Next
    BY <1>1 DEF Next, WorkerStep
  <2>2. P!Next
    BY <1>1, SameServerStep DEF Pipe!ServerStep, P!Next
  <2> QED
    BY <2>1, <2>2, NextIInv, PipeStep DEF BrokerInv
<1>3. pc \in Steps /\ pc = "finish" /\ served \in DOMAIN turns /\ turns[served] = peer /\ peer \in Clients
  <2>1. pc = "finish" /\ pc \in Steps /\ served \in RequestNumbers
    BY <1>1 DEF Finish, Steps, BrokerInv, IInv, EffectsByStep
  <2> QED
    BY <2>1, TurnsTyped DEF BrokerInv, BrokerTypeOK, RequestNumbers
<1>4. code \in ErrorCodes \cup {Ok} /\ code # NoCode /\ code # "lost" /\ served \in RequestNumbers
  BY <1>3 DEF BrokerInv, IInv, TypeOK, WorkerOK, EffectsByStep, ErrorCodes, Ok, NoCode
<1>5. BrokerTypeOK'
  BY <1>1 DEF BrokerInv, BrokerTypeOK, onlyHere, Steps
<1>6. OneVisit'
  BY <1>1 DEF BrokerInv, OneVisit, onlyHere
<1>7. AnswersCarried'
  <2>1. \A n \in DOMAIN turns : turns[n] = peer <=> n = served
    BY <1>3 DEF BrokerInv, BrokerTypeOK
  <2>2. answers \in [RequestNumbers -> Answers] /\ outcome \in [Pipe!Callers -> Pipe!Outcomes \cup {"none"}]
    BY DEF BrokerInv, IInv, TypeOK, HistoryOK, Pipe!PipeInv, Pipe!TypeOK
  <2>3. \A n \in DOMAIN turns : n \in RequestNumbers /\ turns[n] \in Pipe!Callers
    BY TurnsTyped DEF BrokerInv, Pipe!Callers
  <2>4. ASSUME NEW n \in DOMAIN turns PROVE outcome'[turns[n]] = OutcomeOf(n)'
    <3>1. CASE n = served
      BY <1>1, <1>3, <1>4, <2>2, <2>3, <3>1 DEF OutcomeOf
    <3>2. CASE n # served
      BY <1>1, <2>1, <2>2, <2>3, <3>2 DEF BrokerInv, AnswersCarried, OutcomeOf
    <3> QED
      BY <3>1, <3>2
  <2>5. \A c \in Clients : outcome'[c] # "none" => \E n \in DOMAIN turns : Turn(c, n)
    BY <1>1, <1>3, <2>2 DEF BrokerInv, AnswersCarried, Turn, Pipe!Callers
  <2> QED
    BY <1>1, <2>4, <2>5 DEF AnswersCarried, Turn, onlyHere
<1>8. FailuresAreSafe' /\ LostByKill'
  <2>1. LostByKill'
    BY <1>1, <1>4 DEF BrokerInv, LostByKill, IInv, TypeOK, HistoryOK
  <2> QED
    BY <1>1, <2>1, NothingTold DEF onlyHere
<1>9. AuditNamesClient' /\ AtTheEntry'
  BY <1>1 DEF BrokerInv, AuditNamesClient, AtTheEntry, Changing, onlyHere
<1>10. Occupied' /\ OneLinkEach'
  BY <1>1 DEF BrokerInv, Occupied, OneLinkEach, FreedBy, EntryOf, onlyHere, world
<1> QED
  BY <1>2, <1>5, <1>6, <1>7, <1>8, <1>9, <1>10 DEF BrokerInv

\* The process ends: nothing that was told becomes untrue, and the request that
\* loses its answer loses it to a kill.
LEMMA EndInv == BrokerInv /\ End => BrokerInv'
<1> SUFFICES ASSUME BrokerInv, End PROVE BrokerInv'
  OBVIOUS
<1>1. /\ Crash /\ pc' = "down" /\ svc' = "stopped" /\ svc # "stopped" /\ srv' = "ended"
      /\ (Pipe!JoinServer /\ srv = "ended") \/ (Pipe!Die /\ died' = TRUE)
      /\ UNCHANGED <<onlyHere, world, audit, served, done, outcome, work, chan, result>>
      /\ died => died'
  BY DEF End, Crash, Pipe!JoinServer, Pipe!MainThread, Pipe!serverVars, Pipe!clientVars, Pipe!Die
<1>2. IInv' /\ Pipe!PipeInv'
  <2>1. Next
    BY <1>1 DEF Next
  <2>2. P!Next
    BY <1>1, SameServiceStep DEF P!Next
  <2> QED
    BY <2>1, <2>2, NextIInv, PipeStep DEF BrokerInv
<1>3. peer' = Nobody
  BY <1>1, <1>2 DEF Pipe!PipeInv, Pipe!InstanceByStep
<1>4. BrokerTypeOK'
  BY <1>1 DEF BrokerInv, BrokerTypeOK, onlyHere, Steps
<1>5. OneVisit'
  BY <1>1, <1>3, TurnsTyped, PeersAreDistinct DEF BrokerInv, OneVisit, onlyHere
<1>6. /\ answers \in [RequestNumbers -> Answers]
      /\ \A n \in RequestNumbers : answers'[n] = answers[n]
            \/ (pc \in Steps /\ n = served /\ answers[n] = NoCode /\ answers'[n] = "lost")
  <2>1. answers \in [RequestNumbers -> Answers]
    BY DEF BrokerInv, IInv, TypeOK, HistoryOK
  <2> QED
    BY <1>1, <2>1 DEF Crash, BrokerInv, IInv, EffectsByStep
<1>7. AnswersCarried'
  <2>1. \A n \in DOMAIN turns : n \in RequestNumbers
    BY TurnsTyped DEF BrokerInv
  <2>2. \A n \in DOMAIN turns : OutcomeOf(n)' = OutcomeOf(n)
    BY <1>6, <2>1 DEF OutcomeOf
  <2> QED
    BY <1>1, <2>2 DEF BrokerInv, AnswersCarried, Turn, onlyHere
<1>8. LostByKill'
  BY <1>1, <1>6 DEF BrokerInv, LostByKill, BrokerTypeOK, Crash
<1>9. FailuresAreSafe'
  BY <1>1 DEF BrokerInv, FailuresAreSafe, SafeToRetry, NeverTaken, Turn, onlyHere
<1>10. AuditNamesClient' /\ AtTheEntry'
  BY <1>1 DEF BrokerInv, AuditNamesClient, AtTheEntry, Changing, onlyHere
<1>11. Occupied' /\ OneLinkEach'
  BY <1>1 DEF BrokerInv, Occupied, OneLinkEach, FreedBy, EntryOf, onlyHere, world
<1> QED
  BY <1>2, <1>4, <1>5, <1>7, <1>8, <1>9, <1>10, <1>11 DEF BrokerInv

\* The service comes back to a pipe that nobody holds.
LEMMA StartAgainInv == BrokerInv /\ StartAgain => BrokerInv'
<1> SUFFICES ASSUME BrokerInv, StartAgain PROVE BrokerInv'
  OBVIOUS
<1>1. /\ svc = "stopped" /\ pc = "down" /\ pc' = "idle" /\ svc' = "spawn" /\ srv' = "unborn"
      /\ status' = "Running" /\ should_stop' = FALSE /\ stopSent' = FALSE /\ woken' = FALSE
      /\ UNCHANGED <<world, audit, token, active, locals, code, ghosts, vetted, raced>>
      /\ UNCHANGED <<pipe, peer, inbox, handle, reply, verdict, outcome, main, work, chan,
                     result, late, died, asks, turns>>
      /\ former' \subseteq Clients \cup Checkers
  BY DEF StartAgain, Restart
<1>2. srv = "ended" /\ pipe = "none" /\ peer = Nobody /\ ~inbox
  BY <1>1 DEF BrokerInv, Pipe!PipeInv, Pipe!InstanceByStep
<1>3. IInv'
  BY NextIInv DEF StartAgain, Next, BrokerInv
<1>4. Pipe!PipeInv'
  <2> USE <1>1, <1>2, PeersAreDistinct DEF BrokerInv, Pipe!PipeInv, Pipe!Callers
  <2>1. Pipe!TypeOK'
    BY DEF Pipe!TypeOK, Pipe!ServiceSteps, Pipe!ServerSteps
  <2>2. Pipe!InstanceByStep'
    BY DEF Pipe!InstanceByStep
  <2>3. Pipe!EndByWork'
    BY DEF Pipe!EndByWork, Pipe!EndOf
  <2>4. Pipe!ServedOnce'
    BY DEF Pipe!ServedOnce, Pipe!Pending
  <2>5. Pipe!ResponseTaken'
    BY DEF Pipe!ResponseTaken
  <2>6. Pipe!EventsInOrder'
    BY DEF Pipe!EventsInOrder, Pipe!EventsOf, Pipe!StillTrue, Pipe!Pending
  <2>7. Pipe!TurnedAway'
    BY DEF Pipe!TurnedAway, Pipe!TypeOK
  <2> QED
    BY <2>1, <2>2, <2>3, <2>4, <2>5, <2>6, <2>7
<1>5. BrokerTypeOK'
  BY <1>1 DEF BrokerInv, BrokerTypeOK, Steps, ghosts
<1>6. OneVisit'
  BY <1>1, <1>2, TurnsTyped, PeersAreDistinct DEF BrokerInv, OneVisit
<1>7. AnswersCarried' /\ LostByKill' /\ AuditNamesClient' /\ AtTheEntry'
  BY <1>1 DEF BrokerInv, AnswersCarried, OutcomeOf, Turn, LostByKill, AuditNamesClient,
     AtTheEntry, Changing, ghosts
<1>8. FailuresAreSafe'
  BY <1>1, NothingTold
<1>9. Occupied' /\ OneLinkEach'
  BY <1>1 DEF BrokerInv, Occupied, OneLinkEach, FreedBy, EntryOf, ghosts, world
<1> QED
  BY <1>3, <1>4, <1>5, <1>6, <1>7, <1>8, <1>9 DEF BrokerInv

\* All steps together.
LEMMA NextBrokerInv == BrokerInv /\ [BrokerNext]_systemVars => BrokerInv'
<1> SUFFICES ASSUME BrokerInv, [BrokerNext]_systemVars PROVE BrokerInv'
  OBVIOUS
<1>1. CASE ServerThread
  <2>1. CASE Take
    BY <2>1, TakeServed, TakeNothing
  <2>2. CASE Work \/ Answer
    BY <2>2, WorkInv, AnswerInv
  <2> QED
    BY <1>1, <2>1, <2>2, ServerApartInv DEF ServerThread
<1>2. CASE Process
  BY <1>2, ServiceApartInv, EndInv, StartAgainInv DEF Process
<1>3. ASSUME NEW c \in Clients \cup Checkers, Worker(c) \/ Caller(c) PROVE BrokerInv'
  BY <1>3, WorkerInv, CallerInv
<1>4. CASE UNCHANGED systemVars
  <2>1. UNCHANGED <<vars, pipeSide, onlyHere>> /\ vars' = vars /\ pipeSide' = pipeSide
    BY <1>4 DEF systemVars
  <2>2. IInv' /\ Pipe!PipeInv'
    BY <2>1, NextIInv, PipeStep, PipeStutters DEF BrokerInv
  <2>3. \A c \in Clients : GoesOn(c)
    BY <2>1 DEF GoesOn, pipeSide
  <2>4. FailuresAreSafe'
    BY <2>1, NothingTold DEF pipeSide, onlyHere
  <2> QED
    BY <2>1, <2>2, <2>3, <2>4, ApartKeeps DEF pipeSide
<1> QED
  BY <1>1, <1>2, <1>3, <1>4 DEF BrokerNext

-----------------------------------------------------------------------------
(* What holds of Broker *)

\* The parts of the state of worker, pipe and clients stay tied together.
THEOREM BrokerInvariance == BrokerSpec => []BrokerInv
<1> QED
  BY InitBrokerInv, NextBrokerInv, PTL DEF BrokerSpec

\* The server thread and the request worker are in step: the worker is at work
\* exactly while the server serves, on the request of the client behind the
\* pipe, and no client's request is taken twice.
THEOREM HalvesInStep == BrokerSpec => []BrokerTypeOK
<1>1. BrokerInv => BrokerTypeOK
  BY DEF BrokerInv
<1> QED
  BY <1>1, BrokerInvariance, PTL

\* A client that is told "ok" or "refused" has an outcome, and by it a turn
\* whose answer says the same.
LEMMA ToldAnswer ==
    ASSUME BrokerInv, NEW c \in Clients, result[c] \in Pipe!Outcomes
    PROVE  \E n \in RequestNumbers :
              /\ n \in DOMAIN turns /\ turns[n] = c /\ answers[n] \in ErrorCodes \cup {Ok}
              /\ result[c] = Says(answers[n])
<1>1. outcome[c] = result[c] /\ result[c] # "none"
  BY DEF BrokerInv, Pipe!PipeInv, Pipe!EventsInOrder, Pipe!EventsOf, Pipe!StillTrue,
     Pipe!Callers, Pipe!Outcomes
<1>2. PICK n \in DOMAIN turns : Turn(c, n)
  BY <1>1 DEF BrokerInv, AnswersCarried
<1>3. n \in RequestNumbers /\ turns[n] = c /\ answers[n] \in Answers
  BY <1>2, TurnsTyped DEF BrokerInv, Turn, IInv, TypeOK, HistoryOK
<1>4. outcome[c] = OutcomeOf(n)
  BY <1>3 DEF BrokerInv, AnswersCarried
<1> QED
  BY <1>1, <1>3, <1>4 DEF OutcomeOf, Answers

\* A client is told what was done for it, however many others were served
\* before it and whatever became of the service since.
THEOREM ToldTheTruth == BrokerSpec => []ToldWhatWasDone
<1>1. BrokerInv => ToldWhatWasDone
  <2> SUFFICES ASSUME BrokerInv, NEW c \in Clients
               PROVE  /\ result[c] = "ok" =>
                           \E n \in RequestNumbers :
                              /\ Turn(c, n) /\ "linked" \in done[n]
                              /\ \E e \in audit : /\ e.request = n /\ e.user = asks[c].user
                                                  /\ e.target = asks[c].target_path
                      /\ result[c] = "refused" =>
                           \E n \in RequestNumbers : Turn(c, n) /\ answers[n] \in ErrorCodes
    BY DEF ToldWhatWasDone
  <2>1. ASSUME result[c] = "ok"
        PROVE  \E n \in RequestNumbers :
                  /\ Turn(c, n) /\ "linked" \in done[n]
                  /\ \E e \in audit : /\ e.request = n /\ e.user = asks[c].user
                                      /\ e.target = asks[c].target_path
    <3>1. PICK n \in RequestNumbers :
             n \in DOMAIN turns /\ turns[n] = c /\ result[c] = Says(answers[n])
      BY <2>1, ToldAnswer DEF Pipe!Outcomes
    <3>2. answers[n] = Ok
      BY <2>1, <3>1 DEF Says
    <3>3. "linked" \in done[n] /\ Recorded(n)
      BY <3>2 DEF BrokerInv, IInv, History, TrueAnswer, Ok, NoCode
    <3>4. PICK e \in audit : e.request = n
      BY <3>3 DEF Recorded
    <3>5. e.user = asks[c].user /\ e.target = asks[c].target_path
      BY <3>1, <3>4 DEF BrokerInv, AuditNamesClient
    <3> QED
      BY <3>1, <3>3, <3>4, <3>5 DEF Turn
  <2>2. ASSUME result[c] = "refused"
        PROVE  \E n \in RequestNumbers : Turn(c, n) /\ answers[n] \in ErrorCodes
    BY <2>2, ToldAnswer DEF Pipe!Outcomes, Says, Turn
  <2> QED
    BY <2>1, <2>2
<1> QED
  BY <1>1, BrokerInvariance, PTL

\* A client that is told that it could not connect may try again: its request
\* was not taken and will not be, and one whose connection broke later lost it
\* to a kill at worst.
THEOREM SafeToTryAgain == BrokerSpec => []NotConnectedNotTouched
<1>1. BrokerInv => NotConnectedNotTouched
  <2> SUFFICES ASSUME BrokerInv, NEW c \in Clients
               PROVE  /\ result[c] \in Pipe!ConnectFailures =>
                           work[c] = "finished" /\ \A n \in RequestNumbers : ~Turn(c, n)
                      /\ result[c] = "broken" => died \/ \A n \in RequestNumbers : ~Turn(c, n)
    BY DEF NotConnectedNotTouched
  <2>1. SafeToRetry(c, result[c])
    BY DEF BrokerInv, FailuresAreSafe
  <2>2. NeverTaken(c) => \A n \in RequestNumbers : ~Turn(c, n)
    BY DEF NeverTaken, Turn
  <2>3. result[c] \in Pipe!ConnectFailures => work[c] = "finished"
    BY DEF BrokerInv, Pipe!PipeInv, Pipe!EventsInOrder, Pipe!EventsOf, Pipe!StillTrue,
       Pipe!Failures, Pipe!Callers
  <2> QED
    BY <2>1, <2>2, <2>3 DEF SafeToRetry
<1> QED
  BY <1>1, BrokerInvariance, PTL

\* A stop never cuts a request short: an answer is lost, and an old link is
\* removed without anybody being told, only if the service was killed.
THEOREM StopIsOrderly == BrokerSpec => []StopFinishesRequests
<1>1. BrokerInv => StopFinishesRequests
  <2> SUFFICES ASSUME BrokerInv, NEW n \in RequestNumbers
               PROVE  /\ answers[n] = "lost" => died
                      /\ status = "Stopped" /\ done[n] = {"removed"} =>
                            died \/ answers[n] = "ReplacementPartiallyCompleted"
    BY DEF StopFinishesRequests
  <2>1. answers[n] = "lost" => died
    BY DEF BrokerInv, LostByKill
  <2>2. ASSUME status = "Stopped", done[n] = {"removed"}, ~died
        PROVE  answers[n] = "ReplacementPartiallyCompleted"
    <3>1. pc \notin Steps
      BY <2>2 DEF BrokerInv, BrokerTypeOK, Pipe!PipeInv, Pipe!InstanceByStep
    <3>2. answers[n] # NoCode /\ answers[n] # "lost"
      BY <2>1, <2>2, <3>1, Bounds
         DEF BrokerInv, IInv, TypeOK, HistoryOK, History, RequestNumbers
    <3>3. TrueAnswer(n, answers[n])
      BY <3>2 DEF BrokerInv, IInv, History
    <3> QED
      BY <2>2, <3>3 DEF TrueAnswer
  <2> QED
    BY <2>1, <2>2
<1> QED
  BY <1>1, BrokerInvariance, PTL

\* Of two clients that ask for the same entry, by whatever name, one at most is
\* told that it has it, unless the second asked to replace what is there or a
\* request between them freed the entry.
THEOREM OnlyOneWinner == BrokerSpec => []OneWinner
<1>1. BrokerInv => OneWinner
  <2> SUFFICES ASSUME BrokerInv, NEW m \in DOMAIN turns, NEW n \in DOMAIN turns, m < n,
                      result[turns[m]] = "ok", result[turns[n]] = "ok",
                      ~asks[turns[n]].replace_existing_symlink, EntryOf(m) = EntryOf(n)
               PROVE  \E k \in m + 1 .. n - 1 : EntryOf(k) = EntryOf(m) /\ "removed" \in done[k]
    BY DEF OneWinner
  <2>1. ASSUME NEW k \in DOMAIN turns, result[turns[k]] = "ok" PROVE "linked" \in done[k]
    <3>1. turns[k] \in Clients
      BY TurnsTyped DEF BrokerInv
    <3>2. PICK i \in RequestNumbers :
             i \in DOMAIN turns /\ turns[i] = turns[k] /\ "ok" = Says(answers[i])
      BY <2>1, <3>1, ToldAnswer DEF Pipe!Outcomes
    <3>3. i = k
      BY <3>2 DEF BrokerInv, BrokerTypeOK
    <3>4. answers[k] = Ok /\ k \in RequestNumbers
      BY <3>2, <3>3 DEF Says
    <3> QED
      BY <3>4 DEF BrokerInv, IInv, History, TrueAnswer, Ok, NoCode
  <2> QED
    BY <2>1 DEF BrokerInv, OneLinkEach, FreedBy
<1> QED
  BY <1>1, BrokerInvariance, PTL

\* Seen from the request worker, Broker is BrokerRequest: whatever the pipe, the
\* clients and the service do, each of its steps is a step of the worker or
\* leaves it and its world alone.  So what is proved of BrokerRequest holds here.
THEOREM WorkerUnchanged == BrokerSpec => Spec
<1>1. BrokerInit => Init
  BY DEF BrokerInit
<1>2. BrokerInv /\ [BrokerNext]_systemVars => [Next]_vars
  <2> SUFFICES ASSUME BrokerInv, [BrokerNext]_systemVars, vars' # vars PROVE Next
    OBVIOUS
  <2>1. \A step : Apart(step) => vars' = vars
    BY DEF Apart, vars
  <2>2. CASE Take
    <3>1. srv' = "serve" /\ Receive(asks[peer])
      BY <2>2 DEF Take, vars
    <3>2. srv = "read" /\ inbox
      BY <2>2, <3>1 DEF Take, Pipe!ReadRequest, Pipe!ServerGoes
    <3>3. asks[peer] \in Requests
      BY <3>2 DEF BrokerInv, BrokerTypeOK, Pipe!PipeInv, Pipe!ServedOnce
    <3> QED
      BY <3>1, <3>3 DEF Next
  <2>3. CASE Work \/ Answer \/ End \/ StartAgain
    BY <2>3 DEF Work, Answer, End, StartAgain, Next, WorkerStep
  <2>4. CASE ServerThread
    BY <2>1, <2>2, <2>3, <2>4 DEF ServerThread
  <2>5. CASE Process
    BY <2>1, <2>3, <2>5 DEF Process
  <2>6. \A c : ~Worker(c) /\ ~Caller(c)
    BY <2>1 DEF Worker, Caller
  <2> QED
    BY <2>4, <2>5, <2>6 DEF BrokerNext, systemVars
<1> QED
  BY <1>1, <1>2, BrokerInvariance, PTL DEF BrokerSpec, Spec

\* Seen from the pipe, Broker is BrokerPipe that is started anew now and then:
\* the worker's calls are hidden in the one step that serves a request.
THEOREM PipeUnchanged == BrokerSpec => Pipe!Init /\ [][Pipe!Next \/ StartAgain]_pipeSide
<1>1. BrokerInit => Pipe!Init
  BY DEF BrokerInit
<1>2. [BrokerNext]_systemVars => [Pipe!Next \/ StartAgain]_pipeSide
  <2> SUFFICES ASSUME [BrokerNext]_systemVars, pipeSide' # pipeSide, ~StartAgain PROVE Pipe!Next
    OBVIOUS
  <2>1. CASE Take \/ Answer
    BY <2>1 DEF Take, Answer, Pipe!Next, Pipe!ServerStep
  <2>2. CASE Work
    BY <2>2 DEF Work
  <2>3. CASE ServerThread
    BY <2>1, <2>2, <2>3 DEF ServerThread, Apart, Pipe!Next
  <2>4. CASE Process
    BY <2>4 DEF Process, Apart, End, Pipe!Next, Pipe!ServiceStep
  <2>5. ASSUME NEW c \in Clients \cup Checkers, Worker(c) \/ Caller(c) PROVE Pipe!Next
    BY <2>5 DEF Worker, Caller, Apart, Pipe!Next, Pipe!Callers
  <2> QED
    BY <2>3, <2>4, <2>5 DEF BrokerNext, systemVars
<1> QED
  BY <1>1, <1>2, PTL DEF BrokerSpec

\* What the pipe promises each client holds through all restarts of the service:
\* the answer it is given is its own, a failure to connect means that it was not
\* served, and neither is who comes after a stop.
THEOREM PipeKeepsItsPromises ==
    BrokerSpec => [](Pipe!AnswerIsOutcome /\ Pipe!FailureMeansUnserved /\ Pipe!LateCallersUnserved)
<1>1. Pipe!PipeInv => Pipe!AnswerIsOutcome
  BY DEF Pipe!PipeInv, Pipe!TypeOK, Pipe!EventsInOrder, Pipe!EventsOf, Pipe!StillTrue,
     Pipe!AnswerIsOutcome, Pipe!Callers
<1>2. Pipe!PipeInv => Pipe!FailureMeansUnserved
  BY DEF Pipe!PipeInv, Pipe!TypeOK, Pipe!EventsInOrder, Pipe!EventsOf, Pipe!StillTrue,
     Pipe!FailureMeansUnserved, Pipe!Callers, Pipe!Failures
<1>3. Pipe!PipeInv => Pipe!LateCallersUnserved
  BY DEF Pipe!PipeInv, Pipe!TurnedAway, Pipe!LateCallersUnserved
<1>4. BrokerInv => Pipe!PipeInv
  BY DEF BrokerInv
<1> QED
  BY <1>1, <1>2, <1>3, <1>4, BrokerInvariance, PTL

=============================================================================
