------------------------ MODULE BrokerPipeInvariant ------------------------
(***************************************************************************)
(* The inductive invariant behind the safety of BrokerPipe: what the       *)
(* server's step says of the instance, what a worker's step says of its    *)
(* end, where a request can be on its way, and what the events still in a  *)
(* channel say that has to be true when they are read.                     *)
(***************************************************************************)
EXTENDS BrokerPipe

\* Before the end is opened.
BeforeOpen == {"unborn", "wait", "open"}

\* The instance exists from create_server_pipe to the end of the visit.
InstanceByStep ==
    /\ srv \in {"unborn", "check", "create", "ended"} => pipe = "none"
    /\ pipe = "listening" => srv \in {"listen", "waiting"}
    /\ srv \in {"recheck", "read", "serve", "write", "flush", "disconnect"} =>
          pipe = "connected"
    /\ pipe # "connected" => peer = Nobody /\ ~inbox
    /\ svc = "spawn" => srv = "unborn"
    /\ status = "Stopped" => svc = "stopped"
    /\ svc = "stopped" => srv = "ended"

\* At most one end is open, the one of the peer, and it breaks only while its
\* request is unserved, or with the service.
EndOf(c) ==
    /\ handle[c] = "closed" <=> work[c] \in BeforeOpen \cup {"finished"}
    /\ handle[c] = "open" => peer = c /\ pipe = "connected"
    /\ handle[c] = "broken" => peer # c /\ (outcome[c] = "none" \/ died)
    /\ peer = c => work[c] \notin BeforeOpen
    /\ c \in Checkers => work[c] \notin {"connected", "write", "read"}

EndByWork == \A c \in Callers : EndOf(c)

\* The request of c lies in the instance or is being served.
Pending(c) == peer = c /\ (inbox \/ srv = "serve")

\* A request is served once, and only one that was written.
ServedOnce ==
    /\ inbox \/ srv \in {"serve", "write"} => peer \in Clients
    /\ \A c \in Callers :
          Pending(c) \/ outcome[c] # "none" => work[c] \in {"read", "finished"}
    /\ srv \in {"listen", "waiting", "recheck", "read", "serve"} /\ peer \in Callers =>
          outcome[peer] = "none"
    /\ srv = "write" => verdict # "none" /\ outcome[peer] = verdict

\* A response belongs to the request, and the visit ends only when the client
\* has taken it or hung up.
ResponseTaken ==
    /\ \A c \in Callers :
          reply[c] # "none" => reply[c] = outcome[c] /\ handle[c] # "closed"
    /\ srv = "flush" /\ peer \in Callers /\ handle[peer] = "open" => reply[peer] # "none"
    /\ srv = "disconnect" /\ peer \in Callers => handle[peer] # "open"

\* What an event or a result e tells c.
StillTrue(c, e) ==
    /\ e \in Outcomes => outcome[c] = e
    /\ e \in Failures => work[c] = "finished" /\ ~Pending(c)
    /\ e \in ConnectFailures => outcome[c] = "none"
    /\ e = "broken" => outcome[c] = "none" \/ died

\* Connected is the first event, and whoever waits for the response has read
\* it; every event is still true when it is read.
EventsOf(c) ==
    /\ work[c] \in BeforeOpen \cup {"verify", "mode", "connected"} =>
          chan[c] = <<>> /\ main[c] # "await2"
    /\ \A i \in 1 .. Len(chan[c]) :
          /\ StillTrue(c, chan[c][i])
          /\ chan[c][i] = "Connected" => i = 1 /\ main[c] # "await2"
    /\ StillTrue(c, result[c])
    /\ main[c] = "start" => work[c] = "unborn"

EventsInOrder == \A c \in Callers : EventsOf(c)

\* Whoever connected after the stop gets no further than the second look at
\* the flag, and does not connect again.
TurnedAway ==
    \A c \in late :
        /\ outcome[c] = "none" /\ work[c] \notin BeforeOpen
        /\ peer = c => should_stop /\ srv \in {"listen", "waiting", "recheck"}

PipeInv ==
    /\ TypeOK
    /\ InstanceByStep
    /\ EndByWork
    /\ ServedOnce
    /\ ResponseTaken
    /\ EventsInOrder
    /\ TurnedAway

\* A service that has reported Stopped serves nobody and holds no instance: a
\* client that finds it stopped cannot have left a request behind.
StoppedMeansGone == status = "Stopped" => srv = "ended" /\ pipe = "none" /\ ~inbox

\* The outcome of a request is decided once; nothing that the client, the
\* service or the system does later changes it.
DecidedOnce ==
    [][\A c \in Callers : outcome[c] # "none" => outcome'[c] = outcome[c]]_vars

=============================================================================
