-------------------------------- MODULE Broker --------------------------------
(***************************************************************************)
(* The whole way of a request: BrokerPipe carries it from the client to    *)
(* the server thread and carries the answer back, BrokerRequest is what    *)
(* that thread does in between.  Here the two run together, on the same    *)
(* thread and in the same process: the step that BrokerPipe takes to serve *)
(* a request is opened up into the steps of BrokerRequest, clients come,   *)
(* give up and go while they are taken, and the end of the process ends    *)
(* both.  The service may be started again.                                *)
(***************************************************************************)
EXTENDS BrokerRequest, Sequences

CONSTANTS
    Clients, Checkers, Waker, Nobody,   \* as in BrokerPipe
    Beginnings,     \* <<the clients' requests, the entries, the places>> at first
    Restless        \* the clients that may give up or be killed (a bound)

ASSUME PeersAreDistinct ==
    /\ Clients \cap Checkers = {}
    /\ Waker \notin Clients \cup Checkers /\ Nobody \notin Clients \cup Checkers
    /\ Waker # Nobody
ASSUME AsksAreRequests == \A b \in Beginnings : b[1] \in [Clients -> Requests]
ASSUME EnoughRequests == Cardinality(Clients) <= MaxRequests

VARIABLES
    \* of BrokerPipe
    pipe, peer, inbox, handle, reply, svc, status, stopSent, should_stop, srv,
    verdict, main, work, chan, result, outcome, late, woken, died,
    \* of both
    asks,           \* client -> its request
    turns,          \* the clients whose requests were taken, in order
    former          \* callers that were connected when the service came back

Pipe == INSTANCE BrokerPipeInvariant

pipeSide == <<pipe, peer, inbox, handle, reply, svc, status, stopSent, should_stop, srv,
              verdict, main, work, chan, result, outcome, late, woken, died>>
onlyHere == <<asks, turns, former>>
systemVars == <<vars, pipeSide, onlyHere>>

BrokerInit ==
    /\ Init /\ Pipe!Init
    /\ \E b \in Beginnings : asks = b[1] /\ fs = b[2] /\ places = b[3]
    /\ turns = <<>> /\ former = {}

-----------------------------------------------------------------------------
(* The server thread *)

\* A step of the pipe that leaves the worker and its world alone.
Apart(step) == step /\ UNCHANGED <<vars, onlyHere>>

\* process_pipe_client reads a message, and hands it to the worker.
Take ==
    /\ Pipe!ReadRequest
    /\ IF srv' = "serve"
       THEN Receive(asks[peer]) /\ turns' = Append(turns, peer)
       ELSE UNCHANGED <<vars, turns>>
    /\ UNCHANGED <<asks, former>>

\* A call of process_create_symlink_request.
Work ==
    /\ srv = "serve" /\ pc # "finish"
    /\ WorkerStep
    /\ UNCHANGED <<pipeSide, onlyHere>>

Says(c) == IF c = Ok THEN "ok" ELSE "refused"

\* Faulty variant: the response is written before the audit entry.
AnswerBeforeAudit ==
    \/ /\ pc = "audit" /\ Pipe!ServeRequest /\ verdict' = "ok"
       /\ UNCHANGED <<vars, onlyHere>>
    \/ Finish /\ Pipe!ServeRequest /\ verdict' = Says(code) /\ UNCHANGED onlyHere

\* It returns: its result becomes the response to be written.
Answer ==
    /\ Finish
    /\ Pipe!ServeRequest /\ verdict' = Says(code)
    /\ UNCHANGED onlyHere

ServerThread ==
    \/ Take \/ Work \/ Answer
    \/ Apart(Pipe!ServerStep /\ srv \notin {"read", "serve"})

-----------------------------------------------------------------------------
(* The process *)

\* The process ends: Stopped is reported and main returns, or it is killed.
\* That happens MaxCrashes times at most.
End ==
    /\ Pipe!JoinServer \/ Pipe!Die
    /\ Crash
    /\ UNCHANGED onlyHere

\* The manager starts the service again, with a fresh flag and a fresh channel.
StartAgain ==
    /\ svc = "stopped"
    /\ Restart
    /\ svc' = "spawn" /\ srv' = "unborn" /\ status' = "Running"
    /\ stopSent' = FALSE /\ should_stop' = FALSE /\ woken' = FALSE
    /\ former' = {c \in Clients \cup Checkers : handle[c] # "closed"}
    /\ UNCHANGED <<pipe, peer, inbox, handle, reply, verdict, outcome, main, work, chan,
                   result, late, died, asks, turns>>

Process ==
    \/ Apart(Pipe!ServiceStep /\ svc # "join")
    \/ Apart(Pipe!StopControl) /\ crashes < MaxCrashes
    \/ End \/ StartAgain

-----------------------------------------------------------------------------
(* The clients *)

\* The connection to a former process is not taken for one to the present:
\* the process ids differ.
Worker(c) ==
    /\ Apart(Pipe!WorkerStep(c))
    /\ work[c] = "verify" /\ c \in former => work'[c] = "finished"

\* The calling thread; its time limits expire, and it is killed, only if it is
\* one of those that may.
Caller(c) ==
    \/ Apart(Pipe!Submit(c))
    \/ Apart(Pipe!CallerStep(c)) /\ (chan[c] = <<>> => c \in Restless)
    \/ Apart(Pipe!Quit(c)) /\ c \in Restless

BrokerNext ==
    \/ ServerThread
    \/ Process
    \/ \E c \in Clients \cup Checkers : Worker(c) \/ Caller(c)

BrokerSpec == BrokerInit /\ [][BrokerNext]_systemVars

-----------------------------------------------------------------------------
(* Properties *)

\* The two halves are in step: the worker is at work exactly while the server
\* serves, on the request of the client behind the pipe, and every request
\* that was taken has one turn.
BrokerTypeOK ==
    /\ asks \in [Clients -> Requests]
    /\ turns \in Seq(Clients) /\ Len(turns) = served
    /\ \A m, n \in DOMAIN turns : turns[m] = turns[n] => m = n
    /\ former \subseteq Clients \cup Checkers
    /\ pc \in Steps <=> srv = "serve"
    /\ pc \in Steps => req = asks[peer] /\ turns[served] = peer
    /\ pc = "down" <=> svc = "stopped"

Turn(c, n) == n \in DOMAIN turns /\ turns[n] = c

\* What a client is told is what was done for it, however many others were
\* served before it and whatever became of the service since: "ok" means that
\* its link was made and is in the manifest under its name, a refusal that its
\* request was taken and answered with an error.
ToldWhatWasDone ==
    \A c \in Clients :
        /\ result[c] = "ok" =>
              \E n \in RequestNumbers :
                  /\ Turn(c, n) /\ "linked" \in done[n]
                  /\ \E e \in audit : /\ e.request = n /\ e.user = asks[c].user
                                      /\ e.target = asks[c].target_path
        /\ result[c] = "refused" =>
              \E n \in RequestNumbers : Turn(c, n) /\ answers[n] \in ErrorCodes

\* A client that is told that it could not connect has lost nothing and may
\* try again: its request was not taken and will not be.  If its connection
\* broke later that is so unless the service was killed.
NotConnectedNotTouched ==
    \A c \in Clients :
        /\ result[c] \in Pipe!ConnectFailures =>
              work[c] = "finished" /\ \A n \in RequestNumbers : ~Turn(c, n)
        /\ result[c] = "broken" => died \/ \A n \in RequestNumbers : ~Turn(c, n)

\* A stop never cuts a request short: only a kill leaves one without an answer,
\* or an old link removed of which nobody was told.
StopFinishesRequests ==
    \A n \in RequestNumbers :
        /\ answers[n] = "lost" => died
        /\ status = "Stopped" /\ done[n] = {"removed"} =>
              died \/ answers[n] = "ReplacementPartiallyCompleted"

\* The entry that the n-th request is about.
EntryOf(n) == layout.leads[Lexical[asks[turns[n]].link_path]]

\* Of two clients that ask for the same entry one at most is told that it has
\* it, by whatever name they ask, unless the second used -f or a request
\* between them freed the entry.  (What other processes do to it is
\* BrokerRequest's.)
OneWinner ==
    \A m, n \in DOMAIN turns :
        /\ m < n /\ result[turns[m]] = "ok" /\ result[turns[n]] = "ok"
        /\ ~asks[turns[n]].replace_existing_symlink
        /\ EntryOf(m) = EntryOf(n)
        => \E k \in m + 1 .. n - 1 : EntryOf(k) = EntryOf(m) /\ "removed" \in done[k]

=============================================================================
