---------------------------- MODULE Doctor_proofs ----------------------------
(***************************************************************************)
(* DoctorInv is an invariant of the service commands with the doctor among *)
(* them, for any number of shells, any commands they run and any machine;  *)
(* with it what Ok and the doctor's findings mean, and what is left behind.*)
(***************************************************************************)
EXTENDS DoctorInvariant, TLAPS

Returned == Codes \cup States \cup {"NotInstalled"}

-----------------------------------------------------------------------------
(* Steps of the service commands *)

\* The commands are known, and nobody's command changes in its course.
LEMMA CommandsKnown ==
    ASSUME TypeOK, NEW s \in Shells
    PROVE  command[s] \in Commands
BY CommandsAreKnown DEF TypeOK

\* The service may have changed its state; whoever watches it has seen that.
WatchKept ==
    /\ seen' \in [Shells -> SUBSET States] /\ state' \in States
    /\ \A t \in opened : state' \in seen'[t]
    /\ \A t \in Shells : seen[t] \subseteq seen'[t]

\* A new state is noted by whoever has the service open.
LEMMA BecomesIsSeen ==
    ASSUME ServiceInv, NEW st \in States, Becomes(st)
    PROVE  WatchKept /\ state' = st
BY DEF ServiceInv, TypeOK, Becomes, WatchKept

\* As long as the state stays there is nothing new to note.
LEMMA StillIsSeen ==
    ASSUME ServiceInv, UNCHANGED <<state, seen>>
    PROVE  WatchKept
BY DEF ServiceInv, TypeOK, WatchKept

\* The service registers, changes its start type or its state, and no shell
\* takes a step.
LEMMA ManagerMoves ==
    ASSUME ServiceInv, WatchKept, UNCHANGED <<opened, pc, answer, command>>,
           registered' \in {"no", "yes", "deleted"}, delayed' \in BOOLEAN,
           stopSent' \in BOOLEAN, boot' \in BOOLEAN,
           registered' = "no" => state' = "Stopped",
           registered' = "yes" => registered = "yes" /\ delayed' = delayed
    PROVE  ServiceInv'
<1>1. TypeOK'
  BY DEF ServiceInv, TypeOK, WatchKept
<1>2. OkWasTrue' /\ DelayedStart'
  BY DEF ServiceInv, OkWasTrue, DelayedStart, WatchKept
<1>3. \A s \in opened' : state' \in seen'[s]
  BY DEF WatchKept
<1>4. \A s \in Shells : pc'[s] = "delete" => "Stopped" \in seen'[s]
  BY DEF ServiceInv, WatchKept
<1> QED
  BY <1>1, <1>2, <1>3, <1>4 DEF ServiceInv

\* A shell goes on to its next call.
LEMMA ShellGoesOn ==
    ASSUME ServiceInv, WatchKept, NEW s \in Shells, NEW p \in CallsOf(command[s]) \cap Calls, GoTo(s, p),
           s \in opened, pc[s] \notin {"done", "doctor"}, p # "done",
           p = "delete" => "Stopped" \in seen'[s],
           UNCHANGED <<command, registered, delayed, boot>>, stopSent' \in BOOLEAN,
           registered' = "no" => state' = "Stopped"
    PROVE  ServiceInv'
<1>1. \A t \in Shells : pc'[t] = IF t = s THEN p ELSE pc[t]
  BY DEF ServiceInv, TypeOK, GoTo
<1>2. TypeOK'
  BY <1>1 DEF ServiceInv, TypeOK, WatchKept, GoTo
<1>3. OkWasTrue' /\ DelayedStart'
  BY DEF ServiceInv, OkWasTrue, DelayedStart, WatchKept, GoTo
<1>4. \A t \in opened' : state' \in seen'[t]
  BY DEF WatchKept, GoTo
<1>5. \A t \in Shells : pc'[t] = "delete" => "Stopped" \in seen'[t]
  BY <1>1 DEF ServiceInv, WatchKept
<1>6. \A t \in Shells : pc'[t] \in CallsOf(command'[t]) \cup {"done"}
  BY <1>1 DEF ServiceInv
<1> QED
  BY <1>2, <1>3, <1>4, <1>5, <1>6 DEF ServiceInv, GoTo

\* A shell returns.
LEMMA ShellReturns ==
    ASSUME ServiceInv, NEW s \in Shells, NEW code \in Returned \ {NoCode}, Return(s, code),
           UNCHANGED <<command, state, boot, seen>>, stopSent' \in BOOLEAN,
           registered' \in {"no", "yes", "deleted"}, delayed' \in BOOLEAN,
           code = Ok => /\ command[s] = "start" => "Running" \in seen[s]
                        /\ command[s] \in {"stop", "uninstall"} => "Stopped" \in seen[s],
           registered' = "no" => registered = "no",
           registered' = "yes" /\ ~delayed' =>
              /\ registered = "yes" /\ ~delayed
              /\ code = Ok => command[s] # "install"
    PROVE  ServiceInv'
<1>1. /\ \A t \in Shells : pc'[t] = IF t = s THEN "done" ELSE pc[t]
      /\ \A t \in Shells : answer'[t] = IF t = s THEN code ELSE answer[t]
      /\ opened' = opened \ {s}
  BY DEF ServiceInv, TypeOK, Return
<1>2. TypeOK'
  <2>1. pc' \in [Shells -> Calls] /\ answer' \in [Shells -> Returned]
    BY DEF ServiceInv, TypeOK, Return, Returned, Calls
  <2>2. \A t \in Shells : pc'[t] = "done" <=> answer'[t] # NoCode
    BY <1>1 DEF ServiceInv, TypeOK
  <2>3. \A t \in Shells : pc'[t] \in {"configure", "query", "start", "stop", "await", "delete"}
                          => t \in opened'
    BY <1>1 DEF ServiceInv, TypeOK
  <2> QED
    BY <1>1, <2>1, <2>2, <2>3 DEF ServiceInv, TypeOK, Returned
<1>3. OkWasTrue'
  BY <1>1 DEF ServiceInv, OkWasTrue
<1>4. DelayedStart'
  BY <1>1 DEF ServiceInv, DelayedStart
<1> QED
  BY <1>1, <1>2, <1>3, <1>4 DEF ServiceInv

\* The errors that the manager's calls are answered with.
LEMMA ManagersErrors ==
    \A e \in {"ServiceUnavailable", "PrivilegeRequired", "NotInstalled", "ServiceNotInstalled"} :
       e \in Returned \ {NoCode, Ok}
BY DEF Returned, Codes, ErrorCodes, NoCode, Ok

\* A shell gets a handle and sees the service as it is.
LEMMA ShellWatches ==
    ASSUME ServiceInv, NEW s \in Shells, NEW p \in {"configure", "query"}, p \in CallsOf(command[s]),
           pc[s] \in {"create", "open"}, pc' = [pc EXCEPT ![s] = p], Watch(s),
           UNCHANGED <<answer, command, state, stopSent, boot>>,
           registered' \in {"yes", "deleted"}, delayed' \in BOOLEAN,
           registered' = "yes" /\ ~delayed' =>
              (registered = "yes" /\ ~delayed) \/ command[s] = "install"
    PROVE  ServiceInv'
<1>1. /\ \A t \in Shells : pc'[t] = IF t = s THEN p ELSE pc[t]
      /\ \A t \in Shells : seen'[t] = IF t = s THEN {state} ELSE seen[t]
      /\ opened' = opened \cup {s} /\ answer[s] = NoCode
  BY DEF ServiceInv, TypeOK, Watch
<1>2. TypeOK'
  <2>1. pc' \in [Shells -> Calls] /\ seen' \in [Shells -> SUBSET States]
    BY DEF ServiceInv, TypeOK, Watch, Calls
  <2>2. \A t \in Shells : pc'[t] = "done" <=> answer'[t] # NoCode
    BY <1>1 DEF ServiceInv, TypeOK
  <2> QED
    BY <1>1, <2>1, <2>2 DEF ServiceInv, TypeOK
<1>3. OkWasTrue'
  BY <1>1 DEF ServiceInv, OkWasTrue, NoCode, Ok
<1>4. DelayedStart'
  BY <1>1 DEF ServiceInv, DelayedStart, NoCode, Ok
<1>5. \A t \in opened' : state' \in seen'[t]
  BY <1>1 DEF ServiceInv, TypeOK
<1> QED
  BY <1>1, <1>2, <1>3, <1>4, <1>5 DEF ServiceInv

\* install_service.
LEMMA InstallInv ==
    ASSUME ServiceInv, NEW s \in Shells, CreateService(s) \/ Configure(s), UNCHANGED command
    PROVE  ServiceInv'
<1>1. TypeOK /\ command[s] \in Commands /\ pc[s] \in CallsOf(command[s])
      /\ pc[s] \in {"create", "configure"}
  BY CommandsKnown DEF ServiceInv, CreateService, Configure
<1>2. command[s] = "install"
  BY <1>1 DEF CallsOf, Commands
<1>3. CASE CreateService(s)
  <2>1. CASE /\ registered = "no" /\ registered' = "yes" /\ delayed' = FALSE
             /\ pc' = [pc EXCEPT ![s] = "configure"] /\ Watch(s) /\ UNCHANGED answer
    <3>1. "configure" \in CallsOf(command[s])
      BY <1>2 DEF CallsOf
    <3>2. pc[s] = "create" /\ UNCHANGED <<state, stopSent, boot>>
      BY <1>3 DEF CreateService
    <3> QED
      BY <1>2, <2>1, <3>1, <3>2, ShellWatches
  <2>2. ASSUME NEW e \in {"ServiceUnavailable", "PrivilegeRequired"}, Return(s, e),
               UNCHANGED <<registered, delayed, seen>>
        PROVE  ServiceInv'
    BY <1>1, <1>3, <2>2, ShellReturns, ManagersErrors DEF CreateService, TypeOK
  <2> QED
    BY <1>3, <2>1, <2>2 DEF CreateService
<1>4. CASE Configure(s)
  <2>1. CASE registered = "yes" /\ delayed' = TRUE /\ Return(s, Ok)
    BY <1>1, <1>2, <1>4, <2>1, ShellReturns DEF Configure, TypeOK, Returned, Codes, Ok, NoCode
  <2>2. CASE Return(s, "ServiceUnavailable") /\ UNCHANGED delayed
    BY <1>1, <1>4, <2>2, ShellReturns, ManagersErrors DEF Configure, TypeOK
  <2> QED
    BY <1>4, <2>1, <2>2 DEF Configure
<1> QED
  BY <1>3, <1>4

\* service_manager and open_service.
LEMMA OpenServiceInv ==
    ASSUME ServiceInv, NEW s \in Shells, OpenService(s), UNCHANGED command
    PROVE  ServiceInv'
<1>1. TypeOK /\ command[s] \in Commands /\ "open" \in CallsOf(command[s]) /\ pc[s] = "open"
      /\ UNCHANGED <<registered, delayed, state, stopSent, boot>>
  BY CommandsKnown DEF ServiceInv, OpenService, manager
<1>2. "query" \in CallsOf(command[s])
  BY <1>1 DEF CallsOf, Commands
<1>3. CASE registered # "no" /\ pc' = [pc EXCEPT ![s] = "query"] /\ Watch(s) /\ UNCHANGED answer
  BY <1>1, <1>2, <1>3, ShellWatches DEF TypeOK
<1>4. ASSUME NEW e \in {"NotInstalled", "ServiceNotInstalled", "ServiceUnavailable",
                        "PrivilegeRequired"}, Return(s, e), UNCHANGED seen
      PROVE  ServiceInv'
  BY <1>1, <1>4, ShellReturns, ManagersErrors DEF TypeOK
<1> QED
  BY <1>3, <1>4 DEF OpenService

\* A command that finds the service in the state it was to bring about.
LEMMA ArriveInv ==
    ASSUME ServiceInv, NEW s \in opened, command[s] \in {"start", "stop", "uninstall"},
           pc[s] \notin {"done", "doctor"}, Arrive(s), state = Desired(s),
           UNCHANGED <<manager, seen, command>>
    PROVE  ServiceInv'
<1>1. TypeOK /\ s \in Shells /\ state \in seen[s] /\ WatchKept
      /\ UNCHANGED <<registered, delayed, state, stopSent, boot>>
  BY StillIsSeen DEF ServiceInv, TypeOK, manager
<1>2. CASE command[s] = "uninstall"
  <2>1. GoTo(s, "delete") /\ "delete" \in CallsOf(command[s]) \cap Calls /\ "Stopped" \in seen'[s]
    BY <1>1, <1>2 DEF Arrive, CallsOf, Calls, Desired
  <2> QED
    BY <1>1, <2>1, ShellGoesOn DEF ServiceInv, TypeOK
<1>3. CASE command[s] # "uninstall"
  <2>1. Return(s, Ok) /\ Ok \in Returned \ {NoCode}
    BY <1>3 DEF Arrive, Returned, Codes, Ok, NoCode
  <2>2. /\ command[s] = "start" => "Running" \in seen[s]
        /\ command[s] \in {"stop", "uninstall"} => "Stopped" \in seen[s]
    BY <1>1 DEF Desired
  <2> QED
    BY <1>1, <1>3, <2>1, <2>2, ShellReturns DEF TypeOK
<1> QED
  BY <1>2, <1>3

\* The look at the service.
LEMMA QueryStateInv ==
    ASSUME ServiceInv, NEW s \in Shells, QueryState(s), UNCHANGED command
    PROVE  ServiceInv'
<1>1. TypeOK /\ pc[s] = "query" /\ s \in opened /\ WatchKept /\ state \in States
      /\ UNCHANGED <<registered, delayed, state, stopSent, boot, seen, manager>>
  BY StillIsSeen DEF ServiceInv, QueryState, manager, TypeOK
<1>2. ASSUME NEW e \in States \cup {"ServiceUnavailable"}, Return(s, e)
      PROVE  ServiceInv'
  BY <1>1, <1>2, ShellReturns DEF TypeOK, Returned, Codes, ErrorCodes, States, Ok, NoCode
<1>3. ASSUME command[s] \in {"start", "stop", "uninstall"}, state = Desired(s), Arrive(s)
      PROVE  ServiceInv'
  BY <1>1, <1>3, ArriveInv
<1>4. ASSUME NEW p \in {"start", "stop", "await"}, p \in CallsOf(command[s]), GoTo(s, p)
      PROVE  ServiceInv'
  BY <1>1, <1>4, ShellGoesOn DEF ServiceInv, TypeOK, Calls
<1>5. CASE command[s] = "start"
  <2>1. CASE state = "Running" /\ Return(s, Ok)
    BY <1>3, <1>5, <2>1 DEF Desired, Arrive
  <2>2. CASE GoTo(s, "await") \/ GoTo(s, "start")
    BY <1>4, <1>5, <2>2 DEF CallsOf
  <2> QED
    BY <1>1, <1>2, <1>5, <2>1, <2>2 DEF QueryState, States
<1>6. CASE command[s] \in {"stop", "uninstall"}
  <2>1. CASE state = "Stopped" /\ Arrive(s)
    BY <1>3, <1>6, <2>1 DEF Desired
  <2>2. CASE GoTo(s, "await") \/ GoTo(s, "stop")
    BY <1>4, <1>6, <2>2 DEF CallsOf
  <2> QED
    BY <1>1, <1>2, <1>6, <2>1, <2>2 DEF QueryState, States
<1> QED
  BY <1>1, <1>2, <1>5, <1>6 DEF QueryState

\* StartServiceW and the stop control.
LEMMA ControlInv ==
    ASSUME ServiceInv, NEW s \in Shells, StartService(s) \/ SendStop(s), UNCHANGED command
    PROVE  ServiceInv'
<1>1. TypeOK /\ command[s] \in Commands /\ pc[s] \in CallsOf(command[s]) /\ s \in opened
      /\ pc[s] \in {"start", "stop"} /\ UNCHANGED <<registered, delayed, boot>>
  BY CommandsKnown DEF ServiceInv, StartService, SendStop, TypeOK
<1>2. /\ command[s] \in {"start", "stop", "uninstall"} /\ "await" \in CallsOf(command[s]) \cap Calls
      /\ pc[s] = "stop" => Desired(s) = "Stopped"
  BY <1>1 DEF CallsOf, Commands, Calls, Desired
<1>3. CASE StartService(s)
  <2>1. CASE /\ registered = "yes" /\ state = "Stopped"
             /\ Becomes("StartPending") /\ stopSent' = FALSE /\ GoTo(s, "await")
    <3>1. WatchKept
      BY <2>1, BecomesIsSeen DEF States
    <3> QED
      BY <1>1, <1>2, <2>1, <3>1, ShellGoesOn
  <2>2. CASE Return(s, "ServiceUnavailable") /\ UNCHANGED <<state, stopSent, seen>>
    BY <1>1, <2>2, ShellReturns, ManagersErrors DEF TypeOK
  <2> QED
    BY <1>3, <2>1, <2>2 DEF StartService
<1>4. CASE SendStop(s)
  <2>1. UNCHANGED <<state, seen>> /\ pc[s] = "stop" /\ WatchKept
    BY <1>4, StillIsSeen DEF SendStop
  <2>2. CASE state = "Running" /\ stopSent' = TRUE /\ GoTo(s, "await")
    BY <1>1, <1>2, <2>1, <2>2, ShellGoesOn DEF ServiceInv, TypeOK
  <2>3. CASE state = "Stopped" /\ Arrive(s) /\ UNCHANGED stopSent
    BY <1>1, <1>2, <2>1, <2>3, ArriveInv DEF manager
  <2>4. CASE Return(s, "ServiceUnavailable") /\ UNCHANGED stopSent
    BY <1>1, <2>1, <2>4, ShellReturns, ManagersErrors DEF TypeOK
  <2> QED
    BY <1>4, <2>2, <2>3, <2>4 DEF SendStop
<1> QED
  BY <1>3, <1>4

\* wait_for_service_state.
LEMMA AwaitStateInv ==
    ASSUME ServiceInv, NEW s \in Shells, AwaitState(s), UNCHANGED command
    PROVE  ServiceInv'
<1>1. TypeOK /\ command[s] \in Commands /\ pc[s] = "await" /\ pc[s] \in CallsOf(command[s])
      /\ s \in opened /\ UNCHANGED <<manager, registered, delayed, state, stopSent, boot, seen>>
  BY CommandsKnown DEF ServiceInv, AwaitState, TypeOK, manager
<1>2. command[s] \in {"start", "stop", "uninstall"}
  BY <1>1 DEF CallsOf, Commands
<1>3. CASE state = Desired(s) /\ Arrive(s)
  BY <1>1, <1>2, <1>3, ArriveInv
<1>4. CASE Return(s, "ServiceUnavailable")
  BY <1>1, <1>4, ShellReturns, ManagersErrors DEF TypeOK
<1> QED
  BY <1>3, <1>4 DEF AwaitState

\* DeleteService.
LEMMA DeleteServiceInv ==
    ASSUME ServiceInv, NEW s \in Shells, DeleteService(s), UNCHANGED command
    PROVE  ServiceInv'
<1>1. TypeOK /\ command[s] \in Commands /\ pc[s] = "delete" /\ pc[s] \in CallsOf(command[s])
      /\ "Stopped" \in seen[s] /\ UNCHANGED <<delayed, state, stopSent, boot, seen>>
  BY CommandsKnown DEF ServiceInv, DeleteService
<1>2. command[s] = "uninstall"
  BY <1>1 DEF CallsOf, Commands
<1>3. CASE registered = "yes" /\ registered' = "deleted" /\ Return(s, Ok)
  BY <1>1, <1>2, <1>3, ShellReturns DEF TypeOK, Returned, Codes, Ok, NoCode
<1>4. CASE Return(s, "ServiceUnavailable") /\ UNCHANGED registered
  BY <1>1, <1>4, ShellReturns, ManagersErrors DEF TypeOK
<1> QED
  BY <1>3, <1>4 DEF DeleteService

\* The steps of the manager and of the service process.
LEMMA ManagerInv ==
    ASSUME ServiceInv, AutoStart \/ Report \/ Die \/ Forget, UNCHANGED command
    PROVE  ServiceInv'
<1>1. TypeOK
  BY DEF ServiceInv
<1>2. CASE AutoStart
  <2>1. WatchKept /\ state' = "StartPending"
    BY <1>2, BecomesIsSeen DEF AutoStart, States
  <2> QED
    BY <1>1, <1>2, <2>1, ManagerMoves DEF AutoStart, TypeOK
<1>3. CASE Report \/ Die
  <2>1. PICK st \in States : Becomes(st)
    BY <1>3 DEF Report, Die, States
  <2>2. WatchKept
    BY <2>1, BecomesIsSeen
  <2>3. state # "Stopped"
    BY <1>3 DEF Report, Die
  <2>4. registered # "no"
    BY <2>3 DEF ServiceInv
  <2> QED
    BY <1>1, <1>3, <2>2, <2>4, ManagerMoves DEF Report, Die, TypeOK
<1>4. CASE Forget
  BY <1>1, <1>4, StillIsSeen, ManagerMoves DEF Forget, TypeOK
<1> QED
  BY <1>2, <1>3, <1>4

\* So every step keeps the invariant of the service commands.
LEMMA NextServiceInv == ServiceInv /\ Next => ServiceInv'
BY InstallInv, OpenServiceInv, QueryStateInv, ControlInv, AwaitStateInv, DeleteServiceInv,
   ManagerInv DEF Next, ShellStep

\* They begin in it.
LEMMA InitServiceInv == Init => ServiceInv
<1> SUFFICES ASSUME Init PROVE ServiceInv
  OBVIOUS
<1>1. \A s \in Shells : command[s] \in Commands
  BY CommandsAreKnown DEF Init
<1>2. \A s \in Shells : pc[s] \in CallsOf(command[s]) \cap {"open", "create", "doctor"}
  BY <1>1 DEF Init, CallsOf, Commands
<1>3. pc \in [Shells -> Calls]
  BY <1>2 DEF Init, Calls
<1>4. TypeOK
  BY <1>2, <1>3 DEF Init, TypeOK, States, Codes
<1>5. OkWasTrue /\ DelayedStart
  BY DEF Init, OkWasTrue, DelayedStart, Ok, NoCode
<1> QED
  BY <1>2, <1>4, <1>5 DEF ServiceInv, Init

-----------------------------------------------------------------------------
(* The doctor *)

\* The checks of the machine come to statuses, of which only that of our own
\* ln.exe and those of the blacklist may be left out.
LEMMA ChecksAreMade ==
    ASSUME machine \in MachineRecords
    PROVE  /\ platform_check \in {Pass, Warn, Fail} /\ filesystem_check \in {Pass, Warn, Fail}
           /\ developer_mode_check \in {Pass, Info}
           /\ \A result : direct_symlink_check(result) \in {Pass, Info, Warn}
           /\ path_checks \in [{"path_ln_resolution", "path_ln_owner", "path_ln_conflicts"} ->
                                 Statuses]
           /\ path_checks.path_ln_resolution # NotMade /\ path_checks.path_ln_conflicts # NotMade
           /\ config_checks \in [{"config_load", "source_blacklist", "default_blacklist_paths"} ->
                                   {Pass, Warn, Fail, NotMade}]
           /\ config_checks.config_load \in {Pass, Fail}
<1>1. platform_check \in {Pass, Warn, Fail} /\ filesystem_check \in {Pass, Warn, Fail}
  BY DEF platform_check, filesystem_check, MachineRecords
<1>2. developer_mode_check \in {Pass, Info} /\ \A result : direct_symlink_check(result) \in {Pass, Info, Warn}
  BY DEF developer_mode_check, direct_symlink_check
<1>3. /\ path_checks \in [{"path_ln_resolution", "path_ln_owner", "path_ln_conflicts"} -> Statuses]
      /\ path_checks.path_ln_resolution # NotMade /\ path_checks.path_ln_conflicts # NotMade
  BY DEF path_checks, Statuses, Pass, Warn, Fail, Info, NotMade
<1>4. /\ config_checks \in [{"config_load", "source_blacklist", "default_blacklist_paths"} ->
                              {Pass, Warn, Fail, NotMade}]
      /\ config_checks.config_load \in {Pass, Fail}
  BY DEF config_checks
<1> QED
  BY <1>1, <1>2, <1>3, <1>4

\* The answer about the service decides both checks.
LEMMA ServiceChecks ==
    ASSUME NEW found
    PROVE  /\ DOMAIN service_checks(found) = OfService
           /\ service_checks(found)["service_installed"] = IF found \in States THEN Pass ELSE Fail
           /\ service_checks(found)["service_running"] = IF found = "Running" THEN Pass ELSE Fail
BY DEF service_checks, OfService

\* The parts of the invariant that are the doctor's own.
DoctorPart ==
    /\ machine \in Machines /\ look \in Looks /\ report \in [Checks -> Statuses]
    /\ probe \in BOOLEAN /\ server \in {"none", "service", "gone"}
    /\ InOrder /\ Noted /\ FindingsWereTrue /\ SatisfiedMeansUsable

\* The checks that the doctor has come past are the ones its report needs.
LEMMA ReportIsComplete ==
    ASSUME ServiceInv, DoctorPart
    PROVE  DoctorInv
<1>1. look = "report" => \A c \in Checks : report[c] = NotMade =>
         c \in {"path_ln_owner", "source_blacklist", "default_blacklist_paths"}
  BY DEF DoctorPart, InOrder, MadeBefore, Checks, Early, OfService
<1> QED
  BY <1>1 DEF DoctorPart, DoctorInv, DoctorTypeOK, ServiceInv

\* The same of the next state.
LEMMA ReportStaysComplete ==
    ASSUME ServiceInv', DoctorPart'
    PROVE  DoctorInv'
<1>1. look' = "report" => \A c \in Checks : report'[c] = NotMade =>
         c \in {"path_ln_owner", "source_blacklist", "default_blacklist_paths"}
  BY DEF DoctorPart, InOrder, MadeBefore, Checks, Early, OfService
<1> QED
  BY <1>1 DEF DoctorPart, DoctorInv, DoctorTypeOK, ServiceInv

\* The doctor begins in the invariant.
LEMMA InitDoctorInv == DoctorInit => DoctorInv
<1> SUFFICES ASSUME DoctorInit PROVE DoctorInv
  OBVIOUS
<1>1. ServiceInv
  BY InitServiceInv DEF DoctorInit
<1>2. machine \in Machines
  BY MachinesAreTyped DEF DoctorInit
<1>3. \A s \in Doctors : pc[s] = "doctor" /\ answer[s] = NoCode
  BY <1>1 DEF DoctorInit, Init, Doctors
<1>4. InOrder
  BY <1>3 DEF DoctorInit, InOrder, MadeBefore, Doctors, NotMade, Checks, OfService
<1>5. Noted /\ SatisfiedMeansUsable
  BY <1>3 DEF DoctorInit, Noted, SatisfiedMeansUsable, NoCode, Ok
<1>6. FindingsWereTrue
  BY DEF DoctorInit, FindingsWereTrue, NotMade, Pass, Fail, Checks
<1>7. DoctorPart
  BY <1>2, <1>4, <1>5, <1>6 DEF DoctorPart, DoctorInit, Looks, Statuses
<1> QED
  BY <1>1, <1>7, ReportIsComplete

\* No step of the other commands is one of the doctor's.
LEMMA DoctorsStandBy ==
    ASSUME ServiceInv, Next, NEW s \in Doctors
    PROVE  UNCHANGED <<command, Doctors>> /\ pc'[s] = pc[s] /\ answer'[s] = answer[s]
<1>1. command' = command /\ Doctors' = Doctors
  BY DEF Next, ShellStep, Doctors
<1>2. s \in Shells /\ pc[s] \in {"doctor", "done"} /\ pc \in [Shells -> Calls]
      /\ answer \in [Shells -> Codes \cup States \cup {"NotInstalled"}]
  BY DEF ServiceInv, CallsOf, Doctors, TypeOK
<1>3. ASSUME NEW t \in Shells, ShellStep(t)
      PROVE  \A u \in Shells \ {t} : pc'[u] = pc[u] /\ answer'[u] = answer[u]
  <2>1. ASSUME \/ \E p : GoTo(t, p)
               \/ \E code : Return(t, code)
               \/ Arrive(t)
               \/ (\E p : pc' = [pc EXCEPT ![t] = p]) /\ UNCHANGED answer
        PROVE  \A u \in Shells \ {t} : pc'[u] = pc[u] /\ answer'[u] = answer[u]
    BY <1>2, <2>1 DEF GoTo, Return, Arrive
  <2>2. CASE CreateService(t) \/ Configure(t) \/ OpenService(t) \/ DeleteService(t)
    BY <2>1, <2>2 DEF CreateService, Configure, OpenService, DeleteService
  <2>3. CASE QueryState(t)
    <3>1. \/ \E p : GoTo(t, p)
          \/ \E code : Return(t, code)
          \/ Arrive(t)
      BY <1>1, <1>2, <2>3 DEF QueryState, ServiceInv, TypeOK, States
    <3> QED
      BY <2>1, <3>1
  <2>4. CASE StartService(t) \/ SendStop(t) \/ AwaitState(t)
    BY <2>1, <2>4 DEF StartService, SendStop, AwaitState
  <2> QED
    BY <1>3, <2>2, <2>3, <2>4 DEF ShellStep
<1>4. ASSUME NEW t \in Shells, ShellStep(t)
      PROVE  t # s
  BY <1>2, <1>4 DEF ShellStep, CreateService, Configure, OpenService, QueryState, StartService, SendStop,
              AwaitState, DeleteService
<1>5. CASE AutoStart \/ Report \/ Die \/ Forget
  BY <1>1, <1>5 DEF AutoStart, Report, Die, Forget
<1> QED
  BY <1>1, <1>2, <1>3, <1>4, <1>5 DEF Next

\* The state of the service and its registration, when another command or the
\* service itself takes a step.
LEMMA BesideInv ==
    ASSUME DoctorInv, Beside(Next)
    PROVE  DoctorInv'
<1>1. ServiceInv /\ ServiceInv' /\ TypeOK /\ UNCHANGED <<machine, look, report, probe>>
      /\ Next
  BY NextServiceInv DEF DoctorInv, Beside, ServiceInv
<1>2. \A s \in Doctors : pc'[s] = pc[s] /\ answer'[s] = answer[s]
  BY <1>1, DoctorsStandBy
<1>3. Doctors' = Doctors
  BY <1>1 DEF Next, ShellStep, Doctors
<1>4. facts \subseteq facts' /\ (look \in {"around", "off"} => facts' = facts)
      /\ (look \notin {"around", "off"} => TrueOf(registered', state') \subseteq facts')
  BY DEF Beside
<1>5. /\ server' \in {"none", "service", "gone"} /\ (server' # "none" <=> server # "none")
      /\ server' = "gone" => server = "gone" \/ state' = "Stopped"
  BY DEF Beside, DoctorInv, DoctorTypeOK
<1>6. InOrder'
  <2>1. platform_check' = platform_check /\ filesystem_check' = filesystem_check
        /\ config_checks' = config_checks
    BY <1>1 DEF platform_check, filesystem_check, config_checks
  <2> QED
    BY <1>1, <1>2, <1>3, <1>4, <2>1 DEF DoctorInv, InOrder
<1>7. Noted'
  <2>1. state' = "Stopped" => "notServing" \in TrueOf(registered', state')
    BY DEF TrueOf, Serving
  <2>2. server' # "none" => look \notin {"around", "off"}
    BY <1>5 DEF DoctorInv, Noted
  <2> QED
    BY <1>1, <1>4, <1>5, <2>1, <2>2 DEF DoctorInv, Noted
<1>8. FindingsWereTrue' /\ SatisfiedMeansUsable'
  BY <1>1, <1>2, <1>3, <1>4 DEF DoctorInv, FindingsWereTrue, SatisfiedMeansUsable
<1>9. DoctorPart'
  BY <1>1, <1>5, <1>6, <1>7, <1>8 DEF DoctorPart, DoctorInv, DoctorTypeOK
<1> QED
  BY <1>1, <1>9, ReportStaysComplete

\* What was found of the service stays true of the visit as facts are added.
LEMMA FindingsKept ==
    ASSUME DoctorInv, facts \subseteq facts',
           \A c \in OfService \cup {"named_pipe_identity"} : report'[c] = report[c]
    PROVE  /\ FindingsWereTrue'
           /\ \A c \in OfService \cup {"named_pipe_identity"} : report'[c] \in {NotMade, Pass, Fail}
BY DEF DoctorInv, FindingsWereTrue, InOrder, OfService

\* The doctor goes on with its visit.
LEMMA VisitGoesOn ==
    ASSUME DoctorInv, ServiceInv', UNCHANGED <<machine, registered, state, command, pc, answer>>,
           look \notin {"around", "off"}, look' \in Looks \ {"around", "off"},
           report' \in [Checks -> Statuses], probe' \in BOOLEAN, facts \subseteq facts',
           look' = "query" => "installed" \in facts',
           \/ server' = "none" /\ look' # "verify"
           \/ server' = "service" /\ look' = "verify" /\ "serving" \in facts',
           \A c \in MadeBefore(look') : report'[c] # NotMade,
           report'["platform"] = report["platform"] /\ report'["filesystem"] = report["filesystem"],
           look' = "report" => report'["config_load"] = config_checks.config_load,
           \A c \in OfService \cup {"named_pipe_identity"} : report'[c] \in {NotMade, Pass, Fail},
           FindingsWereTrue'
    PROVE  DoctorInv'
<1>1. Doctors' = Doctors /\ platform_check' = platform_check /\ filesystem_check' = filesystem_check
      /\ config_checks' = config_checks
  BY DEF Doctors, platform_check, filesystem_check, config_checks
<1>2. InOrder'
  BY <1>1 DEF DoctorInv, InOrder
<1>3. Noted'
  BY DEF DoctorInv, Noted
<1>4. SatisfiedMeansUsable'
  BY <1>1 DEF DoctorInv, SatisfiedMeansUsable
<1>5. DoctorPart'
  BY <1>2, <1>3, <1>4 DEF DoctorPart, DoctorInv, DoctorTypeOK
<1> QED
  BY <1>5, ReportStaysComplete

\* The other commands do not notice the doctor's look.
LEMMA OthersUntouched ==
    ASSUME DoctorInv, UNCHANGED vars
    PROVE  /\ ServiceInv' /\ UNCHANGED <<registered, state, command, pc, answer>>
           /\ machine \in MachineRecords
<1>1. UNCHANGED <<registered, delayed, state, stopSent, boot, opened, command, pc, answer, seen>>
  BY DEF vars
<1>2. ServiceInv'
  BY <1>1, StillIsSeen DEF DoctorInv, ServiceInv, TypeOK, OkWasTrue, DelayedStart
<1> QED
  BY <1>1, <1>2, MachinesAreTyped DEF DoctorInv, DoctorTypeOK

\* The visit begins with the machine.
LEMMA LookAroundInv ==
    ASSUME DoctorInv, LookAround
    PROVE  DoctorInv'
<1>1. look = "around" /\ look' = "create" /\ facts' = TrueOf(registered, state)
      /\ UNCHANGED <<vars, machine, probe, server>> /\ report \in [Checks -> Statuses]
  BY DEF LookAround, Then, DoctorInv, DoctorTypeOK
<1>2. /\ ServiceInv' /\ UNCHANGED <<registered, state, command, pc, answer>>
      /\ machine \in MachineRecords
  BY <1>1, OthersUntouched
<1>3. /\ platform_check \in {Pass, Warn, Fail} /\ filesystem_check \in {Pass, Warn, Fail}
      /\ developer_mode_check \in {Pass, Info}
      /\ Doctors' = Doctors /\ platform_check' = platform_check /\ filesystem_check' = filesystem_check
  BY <1>1, <1>2, ChecksAreMade DEF Doctors, platform_check, filesystem_check
<1>4. /\ report' \in [Checks -> Statuses]
      /\ report'["platform"] = platform_check /\ report'["filesystem"] = filesystem_check
      /\ report'["developer_mode"] = developer_mode_check
      /\ \A c \in OfService \cup {"named_pipe_identity"} : report'[c] = NotMade
  BY <1>1, <1>3 DEF LookAround, DoctorInv, InOrder, Checks, OfService, Statuses
<1>5. InOrder'
  BY <1>1, <1>2, <1>3, <1>4 DEF DoctorInv, InOrder, MadeBefore, Early, Pass, Warn, Fail, Info, NotMade
<1>6. server' = "none" /\ probe' \in BOOLEAN
  BY <1>1 DEF DoctorInv, Noted, InOrder, DoctorTypeOK
<1>7. Noted'
  BY <1>1, <1>2, <1>6 DEF Noted
<1>8. FindingsWereTrue'
  BY <1>4, <1>6 DEF FindingsWereTrue, OfService, NotMade, Pass, Fail
<1>9. SatisfiedMeansUsable'
  BY <1>1, <1>2, <1>3 DEF DoctorInv, InOrder, ServiceInv, TypeOK, SatisfiedMeansUsable, Doctors,
     NoCode, Ok
<1>10. DoctorPart'
  BY <1>1, <1>4, <1>5, <1>6, <1>7, <1>8, <1>9 DEF DoctorPart, DoctorInv, DoctorTypeOK, Looks
<1> QED
  BY <1>2, <1>10, ReportStaysComplete

\* The probe is made, and taken away unless that fails.
LEMMA ProbeInv ==
    ASSUME DoctorInv, CreateProbe \/ RemoveProbe
    PROVE  DoctorInv'
<1>1. /\ UNCHANGED <<vars, machine, server>> /\ report \in [Checks -> Statuses] /\ probe \in BOOLEAN
      /\ \/ look = "create" /\ look' = "remove" /\ facts' = facts
         \/ /\ look = "remove" /\ look' = "service" /\ UNCHANGED report
            /\ probe' \in {FALSE, probe} /\ facts' = facts
  <2>1. report \in [Checks -> Statuses] /\ probe \in BOOLEAN
    BY DEF DoctorInv, DoctorTypeOK
  <2>2. UNCHANGED <<vars, machine, server>>
    BY DEF CreateProbe, RemoveProbe, Then
  <2>3. CASE CreateProbe
    BY <2>1, <2>2, <2>3 DEF CreateProbe, Then
  <2>4. CASE RemoveProbe
    BY <2>1, <2>2, <2>4 DEF RemoveProbe, Then, Noting
  <2> QED
    BY <2>3, <2>4
<1>2. /\ ServiceInv' /\ UNCHANGED <<registered, state, command, pc, answer>>
      /\ machine \in MachineRecords /\ server' = "none"
  BY <1>1, OthersUntouched DEF DoctorInv, Noted
<1>3. CASE look = "create"
  <2>1. PICK result \in machine.create :
           /\ report' = [report EXCEPT !["direct_symlink_create"] = direct_symlink_check(result)]
           /\ probe' = (result = Ok)
    BY <1>3, <1>1 DEF CreateProbe, RemoveProbe, Finding
  <2>2. direct_symlink_check(result) \in {Pass, Info, Warn}
    BY <1>2, ChecksAreMade
  <2>3. /\ report' \in [Checks -> Statuses]
        /\ \A c \in Checks : c # "direct_symlink_create" => report'[c] = report[c]
        /\ report'["direct_symlink_create"] \in {Pass, Info, Warn}
    BY <1>1, <2>1, <2>2 DEF Statuses, Checks
  <2>4. \A c \in MadeBefore(look') : report'[c] # NotMade
    BY <1>1, <1>3, <2>3 DEF MadeBefore, DoctorInv, InOrder, Checks, Early, NotMade, Pass, Info, Warn
  <2>5. \A c \in OfService \cup {"named_pipe_identity", "platform", "filesystem"} :
           report'[c] = report[c]
    BY <2>3 DEF OfService, Checks
  <2>6. look' = "remove" /\ facts' = facts /\ probe' \in BOOLEAN
    BY <1>1, <1>3, <2>1
  <2>7. FindingsWereTrue'
        /\ \A c \in OfService \cup {"named_pipe_identity"} : report'[c] \in {NotMade, Pass, Fail}
    BY <2>5, <2>6, FindingsKept
  <2> QED
    BY <1>1, <1>2, <1>3, <2>3, <2>4, <2>5, <2>6, <2>7, VisitGoesOn DEF Looks
<1>4. CASE look = "remove"
  <2>1. /\ look' = "service" /\ report' = report /\ facts \subseteq facts' /\ probe' \in BOOLEAN
    BY <1>1, <1>4
  <2>2. \A c \in MadeBefore(look') : report'[c] # NotMade
    BY <1>4, <2>1 DEF MadeBefore, DoctorInv, InOrder
  <2>3. FindingsWereTrue'
        /\ \A c \in OfService \cup {"named_pipe_identity"} : report'[c] \in {NotMade, Pass, Fail}
    BY <2>1, FindingsKept
  <2> QED
    BY <1>1, <1>2, <1>4, <2>1, <2>2, <2>3, VisitGoesOn DEF Looks
<1> QED
  BY <1>1, <1>3, <1>4

\* What the query of the service finds decides the two checks on it.
LEMMA ServiceIsFound ==
    ASSUME DoctorInv, NEW found, look \in {"service", "query"}, ServiceFound(found),
           UNCHANGED <<machine, registered, state, command, pc, answer, probe, server>>,
           ServiceInv', facts \subseteq facts',
           \/ found = state /\ "installed" \in facts
           \/ found = "NotInstalled" /\ registered = "no"
           \/ found = "error" /\ "callFailed" \in facts'
    PROVE  DoctorInv'
<1>1. /\ report \in [Checks -> Statuses] /\ look' = "connect" /\ report' = Merged(service_checks(found))
      /\ probe' \in BOOLEAN /\ server' = "none" /\ state \in States
      /\ TrueOf(registered, state) \subseteq facts
  BY DEF ServiceFound, DoctorInv, DoctorTypeOK, Noted, ServiceInv, TypeOK
<1>2. /\ report' \in [Checks -> Statuses]
      /\ \A c \in Checks \ OfService : report'[c] = report[c]
      /\ report'["service_installed"] = IF found \in States THEN Pass ELSE Fail
      /\ report'["service_running"] = IF found = "Running" THEN Pass ELSE Fail
  BY <1>1, ServiceChecks DEF Merged, Checks, OfService, Statuses
<1>3. /\ \A c \in MadeBefore(look') : report'[c] # NotMade
      /\ \A c \in OfService \cup {"named_pipe_identity"} : report'[c] \in {NotMade, Pass, Fail}
  BY <1>1, <1>2 DEF MadeBefore, DoctorInv, InOrder, Checks, OfService, Early, NotMade, Pass, Fail
<1>4. FindingsWereTrue'
  <2>1. /\ report'["named_pipe_identity"] = Pass => "serving" \in facts'
        /\ report'["named_pipe_identity"] = Fail =>
              facts' \cap {"notServing", "noFreePipe", "callFailed"} # {}
    BY <1>2 DEF DoctorInv, FindingsWereTrue, Checks, OfService
  <2>2. /\ found \in States => "installed" \in facts'
        /\ found \notin States => facts' \cap {"absent", "callFailed"} # {}
    BY <1>1 DEF TrueOf, States
  <2>3. /\ found = "Running" => "running" \in facts'
        /\ found # "Running" => facts' \cap {"notRunning", "callFailed"} # {}
    BY <1>1 DEF TrueOf, DoctorInv, ServiceInv
  <2> QED
    BY <1>2, <2>1, <2>2, <2>3 DEF FindingsWereTrue, Pass, Fail
<1> QED
  BY <1>1, <1>2, <1>3, <1>4, VisitGoesOn DEF Checks, OfService, Looks

\* query_service_state, as the doctor calls it.
LEMMA QueryServiceInv ==
    ASSUME DoctorInv, OpenForQuery \/ QueryService
    PROVE  DoctorInv'
<1>1. /\ ServiceInv /\ TypeOK /\ look \in {"service", "query"}
      /\ UNCHANGED <<registered, delayed, state, stopSent, boot, command, pc, answer, machine,
                     probe, server>>
  BY DEF DoctorInv, OpenForQuery, QueryService, manager, ServiceInv
<1>2. \A s \in Doctors : s \in Shells /\ pc[s] = "doctor" /\ command[s] = "doctor"
  BY <1>1 DEF DoctorInv, InOrder, Doctors
<1>3. ASSUME seen' \in [Shells -> SUBSET States], opened' \subseteq Shells,
             opened \ Doctors \subseteq opened', \A t \in opened' : state \in seen'[t],
             \A t \in Shells \ Doctors : seen'[t] = seen[t]
      PROVE  ServiceInv'
  <2>1. TypeOK'
    <3>1. \A t \in Shells : pc[t] \in {"configure", "query", "start", "stop", "await", "delete"} => t \in opened'
      BY <1>1, <1>2, <1>3 DEF TypeOK
    <3> QED
      BY <1>1, <1>3, <3>1 DEF TypeOK
  <2>2. OkWasTrue' /\ DelayedStart'
    BY <1>1, <1>2, <1>3 DEF ServiceInv, OkWasTrue, DelayedStart
  <2>3. \A t \in Shells : pc'[t] = "delete" => "Stopped" \in seen'[t]
    BY <1>1, <1>2, <1>3 DEF ServiceInv
  <2> QED
    BY <1>1, <1>3, <2>1, <2>2, <2>3 DEF ServiceInv
<1>4. CASE OpenForQuery
  <2>1. ASSUME registered # "no", NEW s \in Doctors, Watch(s), look' = "query", UNCHANGED <<report, facts>>
        PROVE  DoctorInv'
    <3>1. ServiceInv'
      <4>1. \A t \in Shells : seen'[t] = IF t = s THEN {state} ELSE seen[t]
        BY <1>1, <2>1 DEF TypeOK, Watch
      <4> QED
        BY <1>1, <1>2, <1>3, <2>1, <4>1 DEF ServiceInv, TypeOK, Watch
    <3>2. "installed" \in facts'
      BY <1>1, <2>1 DEF DoctorInv, Noted, TrueOf
    <3>3. /\ \A c \in MadeBefore(look') : report'[c] # NotMade
      BY <1>1, <1>4, <2>1 DEF MadeBefore, DoctorInv, InOrder, OpenForQuery
    <3>4. FindingsWereTrue'
          /\ \A c \in OfService \cup {"named_pipe_identity"} : report'[c] \in {NotMade, Pass, Fail}
      BY <2>1, FindingsKept
    <3>5. report' \in [Checks -> Statuses] /\ probe' \in BOOLEAN /\ server' = "none"
      BY <1>1, <2>1 DEF DoctorInv, DoctorTypeOK, Noted
    <3> QED
      BY <1>1, <2>1, <3>1, <3>2, <3>3, <3>4, <3>5, VisitGoesOn DEF Looks
  <2>2. ASSUME UNCHANGED <<opened, seen>> PROVE ServiceInv'
    BY <1>1, <1>3, <2>2 DEF ServiceInv, TypeOK
  <2>3. CASE registered = "no" /\ ServiceFound("NotInstalled") /\ UNCHANGED <<opened, seen, facts>>
    BY <1>1, <2>2, <2>3, ServiceIsFound
  <2>4. CASE ServiceFound("error") /\ Noting({"callFailed"}) /\ UNCHANGED <<opened, seen>>
    BY <1>1, <2>2, <2>4, ServiceIsFound DEF Noting
  <2> QED
    BY <1>4, <2>1, <2>3, <2>4 DEF OpenForQuery
<1>5. CASE QueryService
  <2>1. opened' = opened \ Doctors /\ seen' = [s \in Shells |-> IF s \in Doctors THEN {} ELSE seen[s]]
    BY <1>5 DEF QueryService
  <2>2. ServiceInv'
    BY <1>1, <1>3, <2>1 DEF ServiceInv, TypeOK
  <2>3. CASE ServiceFound(state) /\ UNCHANGED facts
    <3>1. "installed" \in facts
      BY <1>5 DEF QueryService, DoctorInv, Noted
    <3> QED
      BY <1>1, <2>2, <2>3, <3>1, ServiceIsFound
  <2>4. CASE ServiceFound("error") /\ Noting({"callFailed"})
    BY <1>1, <2>2, <2>4, ServiceIsFound DEF Noting
  <2> QED
    BY <1>5, <2>3, <2>4 DEF QueryService
<1> QED
  BY <1>4, <1>5

\* One finding on the pipe, and whatever was found before it.
LEMMA PipeFinding ==
    ASSUME DoctorInv, NEW status \in {Pass, Fail}, Finding("named_pipe_identity", status),
           facts \subseteq facts',
           status = Pass => "serving" \in facts',
           status = Fail => facts' \cap {"notServing", "noFreePipe", "callFailed"} # {}
    PROVE  /\ report' \in [Checks -> Statuses] /\ FindingsWereTrue'
           /\ \A c \in Checks \ {"named_pipe_identity"} : report'[c] = report[c]
           /\ report'["named_pipe_identity"] = status
           /\ \A c \in OfService \cup {"named_pipe_identity"} : report'[c] \in {NotMade, Pass, Fail}
<1>1. /\ report' \in [Checks -> Statuses]
      /\ \A c \in Checks \ {"named_pipe_identity"} : report'[c] = report[c]
      /\ report'["named_pipe_identity"] = status
  BY DEF Finding, DoctorInv, DoctorTypeOK, Checks, Statuses
<1>2. \A c \in OfService \cup {"named_pipe_identity"} : report'[c] \in {NotMade, Pass, Fail}
  BY <1>1 DEF DoctorInv, InOrder, OfService, Checks
<1>3. FindingsWereTrue'
  BY <1>1 DEF DoctorInv, FindingsWereTrue, Checks, Pass, Fail
<1> QED
  BY <1>1, <1>2, <1>3

\* The connection to the pipe, and the identity of the process behind it.
LEMMA PipeInv ==
    ASSUME DoctorInv, ConnectPipe \/ VerifyPipe
    PROVE  DoctorInv'
<1>1. UNCHANGED <<vars, machine, probe>> /\ look \in {"connect", "verify"}
  BY DEF ConnectPipe, VerifyPipe, Then
<1>2. /\ ServiceInv' /\ UNCHANGED <<registered, state, command, pc, answer>>
      /\ report \in [Checks -> Statuses] /\ probe' \in BOOLEAN
      /\ TrueOf(registered, state) \subseteq facts
      /\ \A c \in MadeBefore("connect") : report[c] # NotMade
  BY <1>1, OthersUntouched DEF DoctorInv, DoctorTypeOK, Noted, InOrder, MadeBefore
<1>3. ASSUME NEW status \in {Pass, Fail}, Finding("named_pipe_identity", status),
             facts \subseteq facts', look' = "path", server' = "none",
             status = Pass => "serving" \in facts',
             status = Fail => facts' \cap {"notServing", "noFreePipe", "callFailed"} # {}
      PROVE  DoctorInv'
  <2>1. /\ report' \in [Checks -> Statuses] /\ FindingsWereTrue'
        /\ \A c \in Checks \ {"named_pipe_identity"} : report'[c] = report[c]
        /\ report'["named_pipe_identity"] = status
        /\ \A c \in OfService \cup {"named_pipe_identity"} : report'[c] \in {NotMade, Pass, Fail}
    BY <1>3, PipeFinding
  <2>2. \A c \in MadeBefore(look') : report'[c] # NotMade
    BY <1>2, <1>3, <2>1 DEF MadeBefore, Checks, Early, OfService, Pass, Fail, NotMade
  <2>3. report'["platform"] = report["platform"] /\ report'["filesystem"] = report["filesystem"]
    BY <2>1 DEF Checks
  <2> QED
    BY <1>1, <1>2, <1>3, <2>1, <2>2, <2>3, VisitGoesOn DEF Looks
<1>4. CASE ConnectPipe
  <2>1. CASE /\ state \in Serving /\ server' = "service" /\ Then("verify")
             /\ UNCHANGED <<report, facts>>
    <3>1. "serving" \in facts' /\ look' = "verify"
      BY <1>2, <2>1 DEF TrueOf, Then
    <3>2. \A c \in MadeBefore(look') : report'[c] # NotMade
      BY <1>2, <2>1, <3>1 DEF MadeBefore
    <3>3. FindingsWereTrue'
          /\ \A c \in OfService \cup {"named_pipe_identity"} : report'[c] \in {NotMade, Pass, Fail}
      BY <2>1, FindingsKept
    <3> QED
      BY <1>1, <1>2, <2>1, <3>1, <3>2, <3>3, VisitGoesOn DEF Looks
  <2>2. CASE /\ Finding("named_pipe_identity", Fail) /\ Then("path")
             /\ Noting(IF state \in Serving THEN {"noFreePipe"} ELSE {"notServing"})
             /\ UNCHANGED server
    <3>1. server' = "none"
      BY <1>4, <2>2 DEF ConnectPipe, DoctorInv, Noted
    <3> QED
      BY <1>3, <2>2, <3>1 DEF Then, Noting, Pass, Fail
  <2> QED
    BY <1>4, <2>1, <2>2 DEF ConnectPipe
<1>5. CASE VerifyPipe
  <2>1. /\ look' = "path" /\ server' = "none"
        /\ server \in {"service", "gone"} /\ "serving" \in facts
        /\ server = "gone" => "notServing" \in facts
    BY <1>5 DEF VerifyPipe, Then, DoctorInv, DoctorTypeOK, Noted
  <2>2. CASE /\ Finding("named_pipe_identity", IF server = "service" THEN Pass ELSE Fail)
             /\ UNCHANGED facts
    BY <1>3, <2>1, <2>2 DEF Pass, Fail
  <2>3. CASE Finding("named_pipe_identity", Fail) /\ Noting({"callFailed"})
    BY <1>3, <2>1, <2>3 DEF Noting, Pass, Fail
  <2> QED
    BY <1>5, <2>2, <2>3 DEF VerifyPipe
<1> QED
  BY <1>4, <1>5

\* PATH and the configuration.
LEMMA PathAndConfigInv ==
    ASSUME DoctorInv, CheckPath \/ CheckConfig
    PROVE  DoctorInv'
<1> DEFINE statuses == IF look = "path" THEN path_checks ELSE config_checks
<1>1. /\ UNCHANGED <<vars, machine, probe, server, facts>>
      /\ \/ look = "path" /\ look' = "config"
         \/ look = "config" /\ look' = "report"
      /\ report' = Merged(statuses)
  BY DEF CheckPath, CheckConfig, Then
<1>2. /\ ServiceInv' /\ UNCHANGED <<registered, state, command, pc, answer>>
      /\ machine \in MachineRecords /\ report \in [Checks -> Statuses]
  BY <1>1, OthersUntouched DEF DoctorInv, DoctorTypeOK
<1>3. /\ DOMAIN statuses \subseteq Checks \ {"platform", "filesystem", "developer_mode",
                                             "direct_symlink_create", "service_installed",
                                             "service_running", "named_pipe_identity"}
      /\ \A c \in DOMAIN statuses : statuses[c] \in Statuses
      /\ look = "path" => /\ {"path_ln_resolution", "path_ln_conflicts"} \subseteq DOMAIN statuses
                          /\ statuses["path_ln_resolution"] # NotMade
                          /\ statuses["path_ln_conflicts"] # NotMade
                          /\ "config_load" \notin DOMAIN statuses
      /\ look # "path" => /\ "config_load" \in DOMAIN statuses
                          /\ statuses["config_load"] = config_checks.config_load
                          /\ statuses["config_load"] \in {Pass, Fail}
                          /\ DOMAIN statuses \cap {"path_ln_resolution", "path_ln_conflicts"} = {}
  <2>1. CASE look = "path"
    BY <1>2, <2>1, ChecksAreMade DEF Checks
  <2>2. CASE look # "path"
    BY <1>2, <2>2, ChecksAreMade DEF Checks, Statuses
  <2> QED
    BY <2>1, <2>2
<1> HIDE DEF statuses
<1>4. /\ report' \in [Checks -> Statuses]
      /\ \A c \in Checks : report'[c] = IF c \in DOMAIN statuses THEN statuses[c] ELSE report[c]
  BY <1>1, <1>2, <1>3 DEF Merged
<1>5. \A c \in MadeBefore("path") : c \in Checks /\ report'[c] = report[c] /\ report[c] # NotMade
  BY <1>1, <1>3, <1>4 DEF MadeBefore, Checks, Early, OfService, DoctorInv, InOrder
<1>6. \A c \in MadeBefore(look') : report'[c] # NotMade
  <2>1. CASE look = "path"
    BY <1>1, <1>3, <1>4, <1>5, <2>1 DEF MadeBefore, Checks
  <2>2. CASE look = "config"
    <3>1. \A c \in {"path_ln_resolution", "path_ln_conflicts"} : report[c] # NotMade
      BY <2>2 DEF DoctorInv, InOrder, MadeBefore
    <3>2. \A c \in {"path_ln_resolution", "path_ln_conflicts", "config_load"} : report'[c] # NotMade
      BY <1>3, <1>4, <2>2, <3>1 DEF Checks, Pass, Fail, NotMade
    <3> QED
      BY <1>1, <1>5, <2>2, <3>2 DEF MadeBefore
  <2> QED
    BY <1>1, <2>1, <2>2
<1>7. /\ report'["platform"] = report["platform"] /\ report'["filesystem"] = report["filesystem"]
      /\ \A c \in OfService \cup {"named_pipe_identity"} : report'[c] = report[c]
  BY <1>5 DEF MadeBefore, Early, OfService
<1>8. FindingsWereTrue'
      /\ \A c \in OfService \cup {"named_pipe_identity"} : report'[c] \in {NotMade, Pass, Fail}
  BY <1>1, <1>7, FindingsKept
<1>9. /\ look' = "report" => report'["config_load"] = config_checks.config_load
      /\ probe' \in BOOLEAN /\ server' = "none"
  BY <1>1, <1>3, <1>4 DEF Checks, DoctorInv, DoctorTypeOK, Noted
<1> QED
  BY <1>1, <1>2, <1>4, <1>6, <1>7, <1>8, <1>9, VisitGoesOn DEF Looks

\* The answer: Ok only if none of the checks that were made has failed.
LEMMA ReportAndReturnInv ==
    ASSUME DoctorInv, ReportAndReturn
    PROVE  DoctorInv'
<1>1. /\ ServiceInv /\ TypeOK /\ look = "report" /\ look' = "off" /\ machine \in MachineRecords
      /\ UNCHANGED <<registered, delayed, state, stopSent, boot, command, seen, machine, report,
                     probe, server, facts>>
      /\ report \in [Checks -> Statuses]
  BY MachinesAreTyped DEF DoctorInv, ReportAndReturn, manager, ServiceInv, DoctorTypeOK
<1>2. PICK s \in Doctors : Return(s, IF has_failures THEN "ServiceUnavailable" ELSE Ok)
  BY DEF ReportAndReturn
<1>3. s \in Shells /\ command[s] = "doctor" /\ Doctors' = Doctors
  BY <1>1 DEF Doctors
<1>4. ServiceInv'
  <2>1. PICK code \in {"ServiceUnavailable", Ok} : Return(s, code)
    BY <1>2
  <2>2. code \in Returned \ {NoCode}
    BY DEF Returned, Codes, ErrorCodes, Ok, NoCode
  <2> QED
    BY <1>1, <1>3, <2>1, <2>2, ShellReturns DEF TypeOK
<1>5. has_failures \/ (/\ {"installed", "running", "serving"} \subseteq facts
                       /\ machine.build # "old" /\ machine.cwd # "unreadable"
                       /\ machine.config \in {"missing", "valid"})
  <2> SUFFICES ASSUME ~has_failures
               PROVE  /\ {"installed", "running", "serving"} \subseteq facts
                      /\ machine.build # "old" /\ machine.cwd # "unreadable"
                      /\ machine.config \in {"missing", "valid"}
    OBVIOUS
  <2>1. \A c \in Checks : report[c] # Fail
    BY DEF has_failures
  <2>2. \A c \in OfService \cup {"named_pipe_identity"} : report[c] = Pass
    BY <1>1, <2>1 DEF DoctorInv, InOrder, MadeBefore, Checks, OfService
  <2>3. {"installed", "running", "serving"} \subseteq facts
    BY <2>2 DEF DoctorInv, FindingsWereTrue, OfService
  <2>4. platform_check # Fail /\ filesystem_check # Fail /\ config_checks.config_load # Fail
    BY <1>1, <2>1 DEF DoctorInv, InOrder, Checks
  <2>5. machine.build # "old" /\ machine.cwd # "unreadable"
    BY <1>1, <2>4 DEF platform_check, filesystem_check, MachineRecords
  <2>6. machine.config \in {"missing", "valid"}
    BY <2>4 DEF config_checks
  <2> QED
    BY <2>3, <2>5, <2>6
<1>6. SatisfiedMeansUsable'
  <2>1. \A t \in Shells : answer'[t] =
           IF t = s THEN IF has_failures THEN "ServiceUnavailable" ELSE Ok ELSE answer[t]
    BY <1>1, <1>2 DEF TypeOK, Return
  <2> QED
    BY <1>1, <1>3, <1>5, <2>1 DEF DoctorInv, SatisfiedMeansUsable, Doctors, Ok
<1>7. InOrder'
  BY <1>1 DEF DoctorInv, InOrder
<1>8. Noted' /\ FindingsWereTrue'
  BY <1>1 DEF DoctorInv, Noted, FindingsWereTrue
<1>9. DoctorPart'
  BY <1>1, <1>6, <1>7, <1>8 DEF DoctorPart, DoctorInv, DoctorTypeOK, Looks
<1> QED
  BY <1>4, <1>9, ReportStaysComplete

\* Every step keeps the invariant.
LEMMA NextDoctorInv == DoctorInv /\ [DoctorNext]_allVars => DoctorInv'
<1>1. ASSUME DoctorInv, UNCHANGED allVars PROVE DoctorInv'
  <2>1. UNCHANGED <<machine, look, report, probe, server, facts>> /\ UNCHANGED vars
    BY <1>1 DEF allVars, doctorVars
  <2>2. ServiceInv' /\ UNCHANGED <<registered, state, command, pc, answer>>
    BY <1>1, <2>1, OthersUntouched
  <2>3. /\ Doctors' = Doctors /\ platform_check' = platform_check
        /\ filesystem_check' = filesystem_check /\ config_checks' = config_checks
    BY <2>1, <2>2 DEF Doctors, platform_check, filesystem_check, config_checks
  <2>4. InOrder' /\ Noted'
    BY <1>1, <2>1, <2>2, <2>3 DEF DoctorInv, InOrder, Noted
  <2>5. FindingsWereTrue' /\ SatisfiedMeansUsable'
    BY <1>1, <2>1, <2>2, <2>3 DEF DoctorInv, FindingsWereTrue, SatisfiedMeansUsable
  <2>6. DoctorPart'
    BY <1>1, <2>1, <2>4, <2>5 DEF DoctorInv, DoctorTypeOK, DoctorPart
  <2> QED
    BY <2>2, <2>6, ReportStaysComplete
<1>2. ASSUME DoctorInv, DoctorStep PROVE DoctorInv'
  BY <1>2, LookAroundInv, ProbeInv, QueryServiceInv, PipeInv, PathAndConfigInv, ReportAndReturnInv
     DEF DoctorStep
<1>3. ASSUME DoctorInv, Beside(Next) PROVE DoctorInv'
  BY <1>3, BesideInv
<1> QED
  BY <1>1, <1>2, <1>3 DEF DoctorNext

-----------------------------------------------------------------------------
(* The theorems *)

\* The invariant holds in every reachable state.
THEOREM DoctorInvariance == DoctorSpec => []DoctorInv
BY InitDoctorInv, NextDoctorInv, PTL DEF DoctorSpec

\* Ok is true of the service at some moment of the command: OkWasTrue.
THEOREM OkMeansItWasSo == DoctorSpec => []OkWasTrue
<1>1. DoctorInv => OkWasTrue
  BY DEF DoctorInv, ServiceInv
<1> QED
  BY <1>1, DoctorInvariance, PTL

\* A registered service starts with a delay, unless an installation failed
\* half-way: DelayedStart.
THEOREM StartIsDelayed == DoctorSpec => []DelayedStart
<1>1. DoctorInv => DelayedStart
  BY DEF DoctorInv, ServiceInv
<1> QED
  BY <1>1, DoctorInvariance, PTL

\* What the doctor passes or fails was so at some moment of its visit, or could
\* not be found out: FindingsWereTrue.
THEOREM FindingsAreFounded == DoctorSpec => []FindingsWereTrue
<1>1. DoctorInv => FindingsWereTrue
  BY DEF DoctorInv
<1> QED
  BY <1>1, DoctorInvariance, PTL

\* The doctor's Ok means a usable machine: SatisfiedMeansUsable.
THEOREM SatisfactionIsFounded == DoctorSpec => []SatisfiedMeansUsable
<1>1. DoctorInv => SatisfiedMeansUsable
  BY DEF DoctorInv
<1> QED
  BY <1>1, DoctorInvariance, PTL

=============================================================================
