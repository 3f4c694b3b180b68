--------------------------- MODULE ServiceControl ---------------------------
(***************************************************************************)
(* `win-symlinks service install|uninstall|start|stop|status`              *)
(* (crates/win-symlinks/src/service/mod.rs): several administrators' shells *)
(* against one service control manager and the service process behind it.  *)
(* Every command is a few calls to the manager with polling in between, so *)
(* what one call has seen can be undone before the next.                   *)
(*                                                                         *)
(* The manager itself is Windows; it is modelled from the calls the code   *)
(* makes and the errors it tells apart.  What the service process does     *)
(* between its reports is BrokerPipe's subject; a shell that runs `doctor`  *)
(* takes its steps in module Doctor.                                       *)
(***************************************************************************)
EXTENDS SymlinkOps

CONSTANTS
    Shells,         \* invocations of win-symlinks service
    CommandLines    \* the assignments of commands to shells that are explored

Commands == {"install", "uninstall", "start", "stop", "status", "doctor"}
ASSUME CommandsAreKnown == CommandLines \subseteq [Shells -> Commands]

States == {"Stopped", "StartPending", "Running", "StopPending"}
Ok == "Ok"
NoCode == "NoCode"
Codes == ErrorCodes \cup {Ok, NoCode}

VARIABLES
    \* the service control manager
    registered,     \* "no", "yes", or "deleted" while handles or the process live on
    delayed,        \* the start type is delayed automatic
    state,          \* current_state of the service
    stopSent,       \* a stop control is with the service process
    opened,         \* shells that hold a handle on the service
    boot,           \* the automatic start is still to come
    \* the shells
    command,        \* the command a shell runs
    pc,             \* the call a shell is about to make
    answer,
    \* history
    seen            \* shell -> the states the service was in since it was opened

manager == <<registered, delayed, state, stopSent, boot>>
vars == <<registered, delayed, state, stopSent, opened, boot, command, pc, answer, seen>>

Calls == {"open", "create", "configure", "query", "start", "stop", "await", "delete",
          "doctor", "done"}

TypeOK ==
    /\ registered \in {"no", "yes", "deleted"}
    /\ delayed \in BOOLEAN /\ stopSent \in BOOLEAN /\ boot \in BOOLEAN
    /\ state \in States
    /\ opened \subseteq Shells
    /\ command \in CommandLines
    /\ pc \in [Shells -> Calls]
    /\ answer \in [Shells -> Codes \cup States \cup {"NotInstalled"}]
    /\ \A s \in Shells : pc[s] = "done" <=> answer[s] # NoCode
    /\ \A s \in Shells : pc[s] \in {"configure", "query", "start", "stop", "await", "delete"} =>
                            s \in opened
    /\ seen \in [Shells -> SUBSET States]

Init ==
    /\ registered \in {"no", "yes"}
    /\ delayed = (registered = "yes")
    /\ state \in IF registered = "yes" THEN States ELSE {"Stopped"}
    /\ stopSent = FALSE
    /\ opened = {}
    /\ boot \in BOOLEAN
    /\ command \in CommandLines
    /\ pc = [s \in Shells |-> CASE command[s] = "install" -> "create"
                              [] command[s] = "doctor"  -> "doctor"
                              [] OTHER                  -> "open"]
    /\ answer = [s \in Shells |-> NoCode]
    /\ seen = [s \in Shells |-> {}]

-----------------------------------------------------------------------------
GoTo(s, p) == pc' = [pc EXCEPT ![s] = p] /\ UNCHANGED <<answer, opened>>

\* The command returns, which closes its handles.
Return(s, code) ==
    /\ pc' = [pc EXCEPT ![s] = "done"]
    /\ answer' = [answer EXCEPT ![s] = code]
    /\ opened' = opened \ {s}

\* A shell holds a handle from now on; it sees the service as it is.
Watch(s) == opened' = opened \cup {s} /\ seen' = [seen EXCEPT ![s] = {state}]

\* The service is in state st; everybody who watches it could see that.
Becomes(st) ==
    /\ state' = st
    /\ seen' = [s \in Shells |-> IF s \in opened THEN seen[s] \cup {st} ELSE seen[s]]

-----------------------------------------------------------------------------
(* install_service *)

\* The executable is looked for, the manager opened, the service created.
CreateService(s) ==
    /\ pc[s] = "create"
    /\ \/ /\ registered = "no"
          /\ registered' = "yes" /\ delayed' = FALSE
          /\ pc' = [pc EXCEPT ![s] = "configure"] /\ Watch(s)
          /\ UNCHANGED answer
       \/ /\ \E e \in {"ServiceUnavailable", "PrivilegeRequired"} : Return(s, e)
          /\ UNCHANGED <<registered, delayed, seen>>
    /\ UNCHANGED <<state, stopSent, boot>>

\* Faulty variant: the start type is left as create_service sets it.
ConfigureNothing(s) ==
    /\ pc[s] = "configure"
    /\ Return(s, Ok)
    /\ UNCHANGED <<manager, seen>>

\* set_delayed_auto_start; when it fails the registration stays.
Configure(s) ==
    /\ pc[s] = "configure"
    /\ \/ registered = "yes" /\ delayed' = TRUE /\ Return(s, Ok)
       \/ Return(s, "ServiceUnavailable") /\ UNCHANGED delayed
    /\ UNCHANGED <<registered, state, stopSent, boot, seen>>

-----------------------------------------------------------------------------
(* The other commands *)

\* service_manager and open_service, or their errors.
OpenService(s) ==
    /\ pc[s] = "open"
    /\ \/ /\ registered # "no"
          /\ pc' = [pc EXCEPT ![s] = "query"] /\ Watch(s) /\ UNCHANGED answer
       \/ /\ registered = "no"
          /\ Return(s, IF command[s] = "status" THEN "NotInstalled" ELSE "ServiceNotInstalled")
          /\ UNCHANGED seen
       \/ /\ \E e \in {"ServiceUnavailable", "PrivilegeRequired"} : Return(s, e)
          /\ UNCHANGED seen
    /\ UNCHANGED manager

\* What a command does once the service has come to rest, or runs.
Arrive(s) ==
    IF command[s] = "uninstall" THEN GoTo(s, "delete") ELSE Return(s, Ok)

\* The first look of start_service and stop_service_handle, and the only one
\* of query_service_state.
QueryState(s) ==
    /\ pc[s] = "query"
    /\ \/ Return(s, "ServiceUnavailable")
       \/ command[s] = "status" /\ Return(s, state)
       \/ /\ command[s] = "start"
          /\ CASE state = "Running"                      -> Return(s, Ok)
               [] state = "StartPending"                 -> GoTo(s, "await")
               [] state \in {"Stopped", "StopPending"}   -> GoTo(s, "start")
       \/ /\ command[s] \in {"stop", "uninstall"}
          /\ CASE state = "Stopped"                      -> Arrive(s)
               [] state = "StopPending"                  -> GoTo(s, "await")
               [] state \in {"Running", "StartPending"}  -> GoTo(s, "stop")
    /\ UNCHANGED <<manager, seen>>

\* StartServiceW: only a registered service that is stopped can be started.
StartService(s) ==
    /\ pc[s] = "start"
    /\ \/ /\ registered = "yes" /\ state = "Stopped"
          /\ Becomes("StartPending") /\ stopSent' = FALSE
          /\ GoTo(s, "await")
       \/ Return(s, "ServiceUnavailable") /\ UNCHANGED <<state, stopSent, seen>>
    /\ UNCHANGED <<registered, delayed, boot>>

\* Faulty variant: an accepted control is taken for the stopped service.
SendStopOnly(s) ==
    /\ pc[s] = "stop"
    /\ \/ state = "Running" /\ stopSent' = TRUE /\ Arrive(s)
       \/ state = "Stopped" /\ Arrive(s) /\ UNCHANGED stopSent
       \/ Return(s, "ServiceUnavailable") /\ UNCHANGED stopSent
    /\ UNCHANGED <<registered, delayed, state, boot, seen>>

\* The stop control reaches a running service; one that is no longer active
\* is as good as stopped, and one on its way up or down refuses.
SendStop(s) ==
    /\ pc[s] = "stop"
    /\ \/ state = "Running" /\ stopSent' = TRUE /\ GoTo(s, "await")
       \/ state = "Stopped" /\ Arrive(s) /\ UNCHANGED stopSent
       \/ Return(s, "ServiceUnavailable") /\ UNCHANGED stopSent
    /\ UNCHANGED <<registered, delayed, state, boot, seen>>

Desired(s) == IF command[s] = "start" THEN "Running" ELSE "Stopped"

\* Faulty variant: the deadline is never looked at.
AwaitForever(s) ==
    /\ pc[s] = "await" /\ state = Desired(s) /\ Arrive(s)
    /\ UNCHANGED <<manager, seen>>

\* wait_for_service_state: a query every 250 ms, for 30 seconds at most.
AwaitState(s) ==
    /\ pc[s] = "await"
    /\ \/ state = Desired(s) /\ Arrive(s)
       \/ Return(s, "ServiceUnavailable")
    /\ UNCHANGED <<manager, seen>>

\* DeleteService only marks the registration.
DeleteService(s) ==
    /\ pc[s] = "delete"
    /\ \/ /\ registered = "yes"
          /\ registered' = "deleted" /\ Return(s, Ok)
       \/ Return(s, "ServiceUnavailable") /\ UNCHANGED registered
    /\ UNCHANGED <<delayed, state, stopSent, boot, seen>>

ShellStep(s) ==
    /\ \/ CreateService(s) \/ Configure(s) \/ OpenService(s) \/ QueryState(s)
       \/ StartService(s) \/ SendStop(s) \/ AwaitState(s) \/ DeleteService(s)
    /\ UNCHANGED command

-----------------------------------------------------------------------------
(* The manager and the service process *)

\* The automatic start at boot.
AutoStart ==
    /\ boot /\ boot' = FALSE
    /\ registered = "yes" /\ state = "Stopped"
    /\ Becomes("StartPending") /\ stopSent' = FALSE
    /\ UNCHANGED <<registered, delayed, opened, pc, answer>>

\* run_broker_service_loop reports Running once its handler is registered,
\* StopPending after the stop control, Stopped in the end.
Report ==
    /\ \/ state = "StartPending" /\ Becomes("Running")
       \/ state = "Running" /\ stopSent /\ Becomes("StopPending")
       \/ state = "StopPending" /\ Becomes("Stopped")
    /\ UNCHANGED <<registered, delayed, stopSent, opened, boot, pc, answer>>

\* The process ends without a report.
Die ==
    /\ state # "Stopped" /\ Becomes("Stopped")
    /\ UNCHANGED <<registered, delayed, stopSent, opened, boot, pc, answer>>

\* A deleted service goes with its last handle.
Forget ==
    /\ registered = "deleted" /\ state = "Stopped" /\ opened = {}
    /\ registered' = "no" /\ delayed' = FALSE
    /\ UNCHANGED <<state, stopSent, opened, boot, pc, answer, seen>>

Next ==
    \/ \E s \in Shells : ShellStep(s)
    \/ (AutoStart \/ Report \/ Die \/ Forget) /\ UNCHANGED command

Spec == Init /\ [][Next]_vars

\* The shells run, and the 30 seconds do pass.  The service may hang.
FairSpec == Spec /\ \A s \in Shells : WF_vars(ShellStep(s))

-----------------------------------------------------------------------------
(* Properties *)

\* Ok is true of the service at some moment of the command: `start` means
\* that it ran, `stop` and `uninstall` that it stood still, whoever else was
\* at work and whichever of the ways through the commands was taken.
OkWasTrue ==
    \A s \in Shells :
        answer[s] = Ok =>
            /\ command[s] = "start" => "Running" \in seen[s]
            /\ command[s] \in {"stop", "uninstall"} => "Stopped" \in seen[s]

\* A registered service starts at boot with a delay, unless the install that
\* registered it failed half-way or is not done yet (design:196).
DelayedStart ==
    registered = "yes" /\ ~delayed =>
        \E s \in Shells : command[s] = "install" /\ answer[s] # Ok

\* All commands return, even if the service hangs.
ShellsEnd == <>(\A s \in Shells : pc[s] = "done")

=============================================================================
