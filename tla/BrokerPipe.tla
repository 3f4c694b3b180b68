----------------------------- MODULE BrokerPipe -----------------------------
(***************************************************************************)
(* The named pipe between the clients and the broker.                      *)
(*                                                                         *)
(*   server   run_broker_pipe_server (crates/win-symlinks/src/ipc/mod.rs): *)
(*            one pipe instance at a time, one client per instance         *)
(*   service  run_broker_service_loop (.../src/service/mod.rs): starts the *)
(*            server, waits for the stop control, wakes and joins it       *)
(*   clients  submit_create_symlink_request (crates/win-symlinks-client/   *)
(*            src/pipe.rs): a caller that waits with time limits and a     *)
(*            detached worker thread that talks to the pipe                *)
(*   checkers check_broker_pipe: connect, verify, hang up                  *)
(*                                                                         *)
(* Serving a request is one step here; BrokerRequest opens it up.          *)
(***************************************************************************)
EXTENDS Naturals, Sequences, FiniteSets

CONSTANTS
    Clients,        \* callers with a request to create a link
    Checkers,       \* callers that only probe the pipe
    Waker,          \* the service's own connection that wakes the server
    Nobody

Callers == Clients \cup Checkers

ASSUME PeersAreDistinct ==
    /\ Clients \cap Checkers = {}
    /\ Waker \notin Callers /\ Nobody \notin Callers /\ Waker # Nobody

VARIABLES
    \* the one pipe instance, and what the system knows of each client end
    pipe,           \* "none", "listening" or "connected"
    peer,           \* who holds the client end of the instance
    inbox,          \* the peer's request lies unread in the instance
    handle,         \* caller -> its end: "closed", "open" or "broken"
    reply,          \* caller -> the unread response on its end
    \* the service process
    svc,            \* its main thread
    status,         \* what it reported to the service control manager
    stopSent,       \* the stop control has been delivered
    should_stop,    \* the flag shared with the server thread
    srv,            \* the server thread
    verdict,        \* the response the server thread holds
    \* the clients
    main, work,     \* caller -> its calling thread, its worker thread
    chan,           \* caller -> the events in the channel between them
    result,         \* caller -> what submit_create_symlink_request returned
    \* history
    outcome,        \* caller -> what the broker did with its request
    late,           \* callers that connected after should_stop was set
    woken,          \* wake_broker_pipe_server found an instance to wake
    died            \* the service process was killed

pipeVars == <<pipe, peer, inbox, handle, reply>>
serviceVars == <<svc, status, stopSent, should_stop, woken, died>>
serverVars == <<srv, verdict, outcome>>
clientVars == <<main, work, chan, result>>
vars == <<pipeVars, serviceVars, serverVars, clientVars, late>>

-----------------------------------------------------------------------------
(* Vocabulary *)

Outcomes == {"ok", "refused"}
ConnectFailures == {"noPipe", "waitTimeout", "busy", "notService"}
Failures == ConnectFailures \cup {"broken"}
Results == Outcomes \cup Failures \cup {"connectTimeout", "responseTimeout"}

ServerSteps == {"unborn", "check", "create", "listen", "waiting", "recheck", "read",
                "serve", "write", "flush", "disconnect", "ended"}
ServiceSteps == {"spawn", "recv", "wakeWait", "wakeOpen", "pending", "join", "stopped"}
WorkerSteps == {"unborn", "wait", "open", "verify", "mode", "connected", "write",
                "read", "finished"}

TypeOK ==
    /\ pipe \in {"none", "listening", "connected"}
    /\ peer \in Callers \cup {Waker, Nobody}
    /\ inbox \in BOOLEAN
    /\ handle \in [Callers -> {"closed", "open", "broken"}]
    /\ reply \in [Callers -> Outcomes \cup {"none"}]
    /\ svc \in ServiceSteps
    /\ status \in {"Running", "StopPending", "Stopped"}
    /\ stopSent \in BOOLEAN /\ should_stop \in BOOLEAN
    /\ srv \in ServerSteps
    /\ verdict \in Outcomes \cup {"none"}
    /\ main \in [Callers -> {"start", "await1", "await2", "done", "gone"}]
    /\ work \in [Callers -> WorkerSteps]
    /\ chan \in [Callers -> Seq({"Connected"} \cup Outcomes \cup Failures)]
    /\ result \in [Callers -> Results \cup {"none"}]
    /\ outcome \in [Callers -> Outcomes \cup {"none"}]
    /\ late \subseteq Callers
    /\ woken \in BOOLEAN /\ died \in BOOLEAN

-----------------------------------------------------------------------------
(* Init: the service has just reported Running (service/mod.rs sets the    *)
(* status before it spawns the server thread).                             *)

Init ==
    /\ pipe = "none" /\ peer = Nobody /\ inbox = FALSE
    /\ handle = [c \in Callers |-> "closed"]
    /\ reply = [c \in Callers |-> "none"]
    /\ svc = "spawn" /\ status = "Running"
    /\ stopSent = FALSE /\ should_stop = FALSE
    /\ srv = "unborn" /\ verdict = "none"
    /\ main = [c \in Callers |-> "start"]
    /\ work = [c \in Callers |-> "unborn"]
    /\ chan = [c \in Callers |-> <<>>]
    /\ result = [c \in Callers |-> "none"]
    /\ outcome = [c \in Callers |-> "none"]
    /\ late = {} /\ woken = FALSE /\ died = FALSE

-----------------------------------------------------------------------------
(* The pipe, as Windows keeps it *)

\* A name exists while either side of an instance is open.
NameExists == pipe # "none" \/ \E c \in Callers : handle[c] # "closed"

\* The client side of the current instance has been closed.
PeerHungUp == pipe = "connected" /\ (peer \in Callers => handle[peer] # "open")

\* The server closes its handle: an attached client end breaks.
CloseInstance ==
    /\ pipe' = "none" /\ peer' = Nobody /\ inbox' = FALSE
    /\ handle' = [c \in Callers |->
                    IF c = peer /\ handle[c] = "open" THEN "broken" ELSE handle[c]]

\* A caller closes its end; what it has written stays readable.
HangUp(c) ==
    /\ handle' = [handle EXCEPT ![c] = "closed"]
    /\ reply' = [reply EXCEPT ![c] = "none"]
    /\ UNCHANGED <<pipe, peer, inbox>>

-----------------------------------------------------------------------------
(* The server thread: run_broker_pipe_server and process_pipe_client *)

ServerGoes(p) == srv' = p

Server == UNCHANGED <<serviceVars, clientVars, late>>

\* Faulty variant: the server loops whatever the flag says.
CheckNothing ==
    /\ srv = "check"
    /\ ServerGoes("create")
    /\ UNCHANGED <<pipeVars, verdict, outcome>>
    /\ Server

\* The loop condition.
CheckStop ==
    /\ srv = "check"
    /\ ServerGoes(IF should_stop THEN "ended" ELSE "create")
    /\ UNCHANGED <<pipeVars, verdict, outcome>>
    /\ Server

\* create_server_pipe; a failure ends the thread while the service goes on.
CreatePipe ==
    /\ srv = "create"
    /\ \/ /\ ServerGoes("listen") /\ pipe' = "listening"
          /\ UNCHANGED <<peer, inbox, handle, reply>>
       \/ ServerGoes("ended") /\ UNCHANGED pipeVars
    /\ UNCHANGED <<verdict, outcome>>
    /\ Server

\* ConnectNamedPipe is called: a client may be there already, which counts as
\* success, or have come and gone, which is an error and the next round.
Listen ==
    /\ srv = "listen"
    /\ \/ /\ pipe = "listening"
          /\ ServerGoes("waiting") /\ UNCHANGED pipeVars
       \/ /\ pipe = "connected" /\ ~PeerHungUp
          /\ ServerGoes("recheck") /\ UNCHANGED pipeVars
       \/ /\ PeerHungUp
          /\ ServerGoes("check") /\ CloseInstance /\ UNCHANGED reply
    /\ UNCHANGED <<verdict, outcome>>
    /\ Server

\* ConnectNamedPipe returns.
ClientArrived ==
    /\ srv = "waiting" /\ pipe = "connected"
    /\ ServerGoes("recheck")
    /\ UNCHANGED <<pipeVars, verdict, outcome>>
    /\ Server

\* Faulty variant: the flag is not looked at again after the wait.
RecheckNothing ==
    /\ srv = "recheck"
    /\ ServerGoes("read") /\ UNCHANGED pipeVars
    /\ UNCHANGED <<verdict, outcome>>
    /\ Server

RecheckStop ==
    /\ srv = "recheck"
    /\ IF should_stop THEN ServerGoes("check") /\ CloseInstance /\ UNCHANGED reply
       ELSE ServerGoes("read") /\ UNCHANGED pipeVars
    /\ UNCHANGED <<verdict, outcome>>
    /\ Server

\* Faulty variant: an empty message is waited out.
ReadUntilMessage ==
    /\ srv = "read" /\ inbox
    /\ ServerGoes("serve") /\ inbox' = FALSE
    /\ UNCHANGED <<pipe, peer, handle, reply, verdict, outcome>>
    /\ Server

\* read_message blocks until the client has written or hung up; an empty
\* message ends the visit.
ReadRequest ==
    /\ srv = "read"
    /\ \/ /\ inbox
          /\ ServerGoes("serve") /\ inbox' = FALSE
          /\ UNCHANGED <<pipe, peer, handle, reply>>
       \/ /\ ~inbox /\ PeerHungUp
          /\ ServerGoes("check") /\ CloseInstance /\ UNCHANGED reply
    /\ UNCHANGED <<verdict, outcome>>
    /\ Server

\* Faulty variant: the response is ok whatever came of the request.
ServeAndPraise ==
    /\ srv = "serve"
    /\ ServerGoes("write")
    /\ verdict' = "ok"
    /\ \E v \in Outcomes : outcome' = [outcome EXCEPT ![peer] = v]
    /\ UNCHANGED pipeVars
    /\ Server

\* broker_response_for_request: the whole of a request, see BrokerRequest.
ServeRequest ==
    /\ srv = "serve"
    /\ ServerGoes("write")
    /\ \E v \in Outcomes :
          /\ verdict' = v
          /\ outcome' = [outcome EXCEPT ![peer] = v]
    /\ UNCHANGED pipeVars
    /\ Server

\* Faulty variant: the instance is disconnected without a flush.
WriteWithoutFlush ==
    /\ srv = "write"
    /\ IF PeerHungUp
       THEN ServerGoes("check") /\ CloseInstance /\ UNCHANGED reply
       ELSE /\ ServerGoes("disconnect")
            /\ reply' = [reply EXCEPT ![peer] = verdict]
            /\ UNCHANGED <<pipe, peer, inbox, handle>>
    /\ verdict' = "none"
    /\ UNCHANGED outcome
    /\ Server

\* write_message fails on a client that is gone: process_pipe_client returns.
WriteResponse ==
    /\ srv = "write"
    /\ IF PeerHungUp
       THEN ServerGoes("check") /\ CloseInstance /\ UNCHANGED reply
       ELSE /\ ServerGoes("flush")
            /\ reply' = [reply EXCEPT ![peer] = verdict]
            /\ UNCHANGED <<pipe, peer, inbox, handle>>
    /\ verdict' = "none"
    /\ UNCHANGED outcome
    /\ Server

\* FlushFileBuffers blocks until the client has read or hung up.
Flush ==
    /\ srv = "flush"
    /\ ~PeerHungUp => reply[peer] = "none"
    /\ ServerGoes("disconnect")
    /\ UNCHANGED <<pipeVars, verdict, outcome>>
    /\ Server

\* DisconnectNamedPipe throws away what the client has not read.
Disconnect ==
    /\ srv = "disconnect"
    /\ ServerGoes("check") /\ CloseInstance
    /\ reply' = IF peer \in Callers THEN [reply EXCEPT ![peer] = "none"] ELSE reply
    /\ UNCHANGED <<verdict, outcome>>
    /\ Server

ServerStep ==
    \/ CheckStop \/ CreatePipe \/ Listen \/ ClientArrived \/ RecheckStop
    \/ ReadRequest \/ ServeRequest \/ WriteResponse \/ Flush \/ Disconnect

-----------------------------------------------------------------------------
(* The main thread of the service: run_broker_service_loop *)

MainThread == UNCHANGED <<serverVars, clientVars, handle, reply, died, late>>

SpawnServer ==
    /\ svc = "spawn" /\ svc' = "recv" /\ srv' = "check"
    /\ UNCHANGED <<pipeVars, status, stopSent, should_stop, woken, died, verdict,
                   outcome, late, clientVars>>

\* The control handler: the service control manager asks for a stop.
StopControl ==
    /\ status = "Running" /\ ~stopSent
    /\ stopSent' = TRUE
    /\ UNCHANGED <<pipe, peer, inbox, svc, status, should_stop, woken>>
    /\ MainThread

\* stop_rx.recv() returns and the flag is set.
StoreStop ==
    /\ svc = "recv" /\ stopSent
    /\ should_stop' = TRUE /\ svc' = "wakeWait"
    /\ UNCHANGED <<pipe, peer, inbox, status, stopSent, woken>>
    /\ MainThread

\* wake_broker_pipe_server: WaitNamedPipeW fails at once when there is no
\* instance and after 100 ms when none is free.
WakeWait ==
    /\ svc = "wakeWait"
    /\ \/ pipe = "listening" /\ svc' = "wakeOpen"
       \/ pipe # "listening" /\ svc' = "pending"
    /\ UNCHANGED <<pipe, peer, inbox, status, stopSent, should_stop, woken>>
    /\ MainThread

\* CreateFileW on the free instance, and the handle is dropped; somebody else
\* may have taken the instance, which wakes the server as well.
WakeOpen ==
    /\ svc = "wakeOpen"
    /\ IF pipe = "listening"
       THEN pipe' = "connected" /\ peer' = Waker ELSE UNCHANGED <<pipe, peer>>
    /\ woken' = TRUE /\ svc' = "pending"
    /\ UNCHANGED <<inbox, status, stopSent, should_stop>>
    /\ MainThread

\* set_service_status(StopPending)
ReportPending ==
    /\ svc = "pending" /\ svc' = "join" /\ status' = "StopPending"
    /\ UNCHANGED <<pipe, peer, inbox, stopSent, should_stop, woken>>
    /\ MainThread

\* Faulty variant: the main thread does not wait for the server thread.
StopWithoutJoin ==
    /\ svc = "join"
    /\ svc' = "stopped" /\ status' = "Stopped"
    /\ UNCHANGED <<pipe, peer, inbox, stopSent, should_stop, woken>>
    /\ MainThread

\* join() returns, whatever the thread returned, and Stopped is reported.
JoinServer ==
    /\ svc = "join" /\ srv = "ended"
    /\ svc' = "stopped" /\ status' = "Stopped"
    /\ UNCHANGED <<pipe, peer, inbox, stopSent, should_stop, woken>>
    /\ MainThread

ServiceStep ==
    \/ SpawnServer \/ StoreStop \/ WakeWait \/ WakeOpen \/ ReportPending \/ JoinServer

\* The process is killed; the system closes its handles and takes the service
\* for stopped.
Die ==
    /\ svc # "stopped"
    /\ died' = TRUE /\ svc' = "stopped" /\ status' = "Stopped"
    /\ srv' = "ended" /\ verdict' = "none"
    /\ CloseInstance
    /\ UNCHANGED <<reply, stopSent, should_stop, woken, outcome, clientVars, late>>

-----------------------------------------------------------------------------
(* The worker of a client: connect_and_send_request *)

Worker(c) == UNCHANGED <<serviceVars, serverVars, result>>

\* connect_verified_pipe or what follows failed or finished with e: the handle
\* is dropped, then Complete is sent; nobody may be listening any more.
Complete(c, e) ==
    /\ work' = [work EXCEPT ![c] = "finished"]
    /\ chan' = IF c \in Clients THEN [chan EXCEPT ![c] = Append(@, e)] ELSE chan
    /\ HangUp(c)
    /\ UNCHANGED main

Advance(c, p) ==
    /\ work' = [work EXCEPT ![c] = p]
    /\ UNCHANGED <<main, chan>>

\* WaitNamedPipeW: at once when there is no instance, else up to 3 seconds
\* for a free one.
WaitForPipe(c) ==
    /\ work[c] = "wait"
    /\ \/ pipe = "listening" /\ Advance(c, "open") /\ UNCHANGED pipeVars
       \/ ~NameExists /\ Complete(c, "noPipe")
       \/ NameExists /\ pipe # "listening" /\ Complete(c, "waitTimeout")
    /\ UNCHANGED late
    /\ Worker(c)

\* CreateFileW: the free instance may be gone, or taken, by now.
OpenPipe(c) ==
    /\ work[c] = "open"
    /\ \/ /\ pipe = "listening"
          /\ pipe' = "connected" /\ peer' = c
          /\ handle' = [handle EXCEPT ![c] = "open"]
          /\ late' = IF should_stop THEN late \cup {c} ELSE late
          /\ UNCHANGED <<inbox, reply>>
          /\ Advance(c, "verify")
       \/ ~NameExists /\ Complete(c, "noPipe") /\ UNCHANGED late
       \/ NameExists /\ pipe # "listening" /\ Complete(c, "busy") /\ UNCHANGED late
    /\ Worker(c)

\* verify_pipe_server_identity: the service's process is asked for, and the
\* query itself may fail.
VerifyServer(c) ==
    /\ work[c] = "verify"
    /\ \/ status # "Stopped" /\ Advance(c, "mode") /\ UNCHANGED pipeVars
       \/ Complete(c, "notService")
    /\ UNCHANGED late
    /\ Worker(c)

\* SetNamedPipeHandleState; check_broker_pipe is done after that.
SetReadMode(c) ==
    /\ work[c] = "mode"
    /\ \/ handle[c] = "open" /\ c \in Clients /\ Advance(c, "connected") /\ UNCHANGED pipeVars
       \/ handle[c] = "open" /\ c \in Checkers /\ Complete(c, "ok")
       \/ handle[c] = "broken" /\ Complete(c, "broken")
    /\ UNCHANGED late
    /\ Worker(c)

\* tx.send(Connected)
AnnounceConnected(c) ==
    /\ work[c] = "connected"
    /\ work' = [work EXCEPT ![c] = "write"]
    /\ chan' = [chan EXCEPT ![c] = Append(@, "Connected")]
    /\ UNCHANGED <<main, pipeVars>>
    /\ UNCHANGED late
    /\ Worker(c)

WriteRequest(c) ==
    /\ work[c] = "write"
    /\ \/ /\ handle[c] = "open"
          /\ inbox' = TRUE /\ UNCHANGED <<pipe, peer, handle, reply>>
          /\ Advance(c, "read")
       \/ handle[c] = "broken" /\ Complete(c, "broken")
    /\ UNCHANGED late
    /\ Worker(c)

\* read_message blocks until there is a response or the pipe breaks; an empty
\* message does not parse.
ReadResponse(c) ==
    /\ work[c] = "read"
    /\ \/ reply[c] # "none" /\ Complete(c, reply[c])
       \/ reply[c] = "none" /\ handle[c] = "broken" /\ Complete(c, "broken")
    /\ UNCHANGED late
    /\ Worker(c)

WorkerStep(c) ==
    \/ WaitForPipe(c) \/ OpenPipe(c) \/ VerifyServer(c) \/ SetReadMode(c)
    \/ AnnounceConnected(c) \/ WriteRequest(c) \/ ReadResponse(c)

-----------------------------------------------------------------------------
(* The caller: submit_create_symlink_request *)

Caller == UNCHANGED <<pipeVars, serviceVars, serverVars, late>>

Return(c, r) ==
    /\ main' = [main EXCEPT ![c] = "done"]
    /\ result' = [result EXCEPT ![c] = r]

\* The worker thread is spawned; a checker does its work itself.
Submit(c) ==
    /\ main[c] = "start"
    /\ main' = [main EXCEPT ![c] = IF c \in Clients THEN "await1" ELSE "done"]
    /\ work' = [work EXCEPT ![c] = "wait"]
    /\ UNCHANGED <<chan, result>>
    /\ Caller

\* Faulty variant: the first event is taken for the result.
AwaitAnyEvent(c) ==
    /\ main[c] = "await1"
    /\ \/ /\ chan[c] # <<>>
          /\ chan' = [chan EXCEPT ![c] = Tail(@)] /\ Return(c, Head(chan[c]))
       \/ chan[c] = <<>> /\ Return(c, "connectTimeout") /\ UNCHANGED chan
    /\ UNCHANGED work
    /\ Caller

\* The first recv_timeout: 3 seconds for Connected or an early end.
AwaitConnected(c) ==
    /\ main[c] = "await1"
    /\ \/ /\ chan[c] # <<>>
          /\ chan' = [chan EXCEPT ![c] = Tail(@)]
          /\ IF Head(chan[c]) = "Connected"
             THEN main' = [main EXCEPT ![c] = "await2"] /\ UNCHANGED result
             ELSE Return(c, Head(chan[c]))
       \/ chan[c] = <<>> /\ Return(c, "connectTimeout") /\ UNCHANGED chan
    /\ UNCHANGED work
    /\ Caller

\* Faulty variant: the second wait has no time limit.
AwaitCompleteForever(c) ==
    /\ main[c] = "await2"
    /\ chan[c] # <<>>
    /\ chan' = [chan EXCEPT ![c] = Tail(@)] /\ Return(c, Head(chan[c]))
    /\ UNCHANGED work
    /\ Caller

\* The second recv_timeout: 30 seconds for the response.
AwaitComplete(c) ==
    /\ main[c] = "await2"
    /\ \/ /\ chan[c] # <<>>
          /\ chan' = [chan EXCEPT ![c] = Tail(@)] /\ Return(c, Head(chan[c]))
       \/ chan[c] = <<>> /\ Return(c, "responseTimeout") /\ UNCHANGED chan
    /\ UNCHANGED work
    /\ Caller

\* The client process ends, after it has its result or because it is killed;
\* its worker thread and its pipe handle go with it.
Quit(c) ==
    /\ main[c] \notin {"start", "gone"}
    /\ main' = [main EXCEPT ![c] = "gone"]
    /\ work' = [work EXCEPT ![c] = "finished"]
    /\ HangUp(c)
    /\ UNCHANGED <<chan, result, serviceVars, serverVars, late>>

CallerStep(c) == AwaitConnected(c) \/ AwaitComplete(c)

-----------------------------------------------------------------------------
Next ==
    \/ ServerStep
    \/ ServiceStep
    \/ StopControl
    \/ Die
    \/ \E c \in Callers : Submit(c) \/ WorkerStep(c) \/ CallerStep(c) \/ Quit(c)

Spec == Init /\ [][Next]_vars

\* The threads of the service are scheduled.
ServiceRuns == WF_vars(ServerStep) /\ WF_vars(ServiceStep)

\* The threads of the clients are scheduled, and the time limits of
\* WaitNamedPipeW and of recv_timeout do expire.  Nobody has to submit, to quit
\* or to send a stop, and the service may hang.
ClientFairSpec ==
    /\ Spec
    /\ \A c \in Callers : WF_vars(WorkerStep(c)) /\ WF_vars(CallerStep(c))

FairSpec == ClientFairSpec /\ ServiceRuns

-----------------------------------------------------------------------------
(* Properties *)

\* A caller that is given the broker's answer is given the one to its own
\* request.
AnswerIsOutcome ==
    \A c \in Clients : result[c] \in Outcomes => outcome[c] = result[c]

\* A caller that is told why its connection failed can try again: its request
\* was not served and will not be.  A connection that breaks later means the
\* same as long as the service was not killed.
FailureMeansUnserved ==
    \A c \in Clients :
        /\ result[c] \in ConnectFailures => outcome[c] = "none" /\ work[c] = "finished"
        /\ result[c] = "broken" => outcome[c] = "none" \/ died

\* A caller that connects after the stop has been stored is turned away
\* unserved, however the server was woken.
LateCallersUnserved == \A c \in late : outcome[c] = "none"

\* submit_create_symlink_request returns, even if the broker hangs.
SubmitReturns ==
    \A c \in Clients : main[c] = "await1" ~> main[c] \in {"done", "gone"}

\* Client and server never wait for each other for ever: every worker that
\* has been started comes to its end, and so does every visit to the server.
NobodyWaitsForEver ==
    ServiceRuns =>
        /\ \A c \in Callers : work[c] = "wait" ~> work[c] = "finished"
        /\ srv = "read" ~> srv \in {"check", "ended"}

\* A stop whose wake-up found a pipe instance completes, as does one that
\* meets the server serving.
StopCompletesIfWoken ==
    ServiceRuns =>
        /\ woken ~> status = "Stopped"
        /\ should_stop /\ srv \in {"recheck", "read", "serve", "write", "flush"} ~> status = "Stopped"

\* What the design says of `service stop` (design:576): it waits for the
\* stopped state, which a stop control must therefore bring about.
StopCompletes == stopSent ~> status = "Stopped"

\* What the design says of concurrent requests (design:337): while one is
\* processed the second waits behind it.  It is not turned away.
SecondRequestWaits ==
    [][\A c \in Clients :
          srv = "serve" => chan'[c] # Append(chan[c], "busy")]_vars

=============================================================================
