-------------------------------- MODULE Doctor --------------------------------
(***************************************************************************)
(* `win-symlinks doctor` (crates/win-symlinks/src/doctor/mod.rs) among the *)
(* other commands: it looks at the machine, the service, the pipe, PATH    *)
(* and the configuration one after the other, while shells install, start, *)
(* stop and uninstall what it looks at and the service goes its own way.   *)
(* Its only change is a link of its own in the temporary directory.        *)
(***************************************************************************)
EXTENDS ServiceControl, Sequences

CONSTANT Machines   \* what the doctor can find, apart from the service

\* The build of Windows, the file system of the current directory, what an
\* attempt to make a link can end with, the ln.exe on PATH and whether our own
\* path is known, and the configuration.
MachineRecords ==
    [build : {"current", "old", "unknown"}, cwd : {"unreadable", "ntfs", "fat", "unknown"},
     developer : BOOLEAN, create : SUBSET (ErrorCodes \cup {Ok}),
     lns : Seq([ours : BOOLEAN, foreign : BOOLEAN]), exe : BOOLEAN,
     config : {"missing", "valid", "invalid"}, defaults : BOOLEAN]

ASSUME MachinesAreTyped == Machines # {} /\ Machines \subseteq MachineRecords

Pass == "pass"
Warn == "warn"
Fail == "fail"
Info == "info"
NotMade == "notMade"
Statuses == {Pass, Warn, Fail, Info, NotMade}

Checks ==
    {"platform", "filesystem", "developer_mode", "direct_symlink_create",
     "service_installed", "service_running", "named_pipe_identity",
     "path_ln_resolution", "path_ln_owner", "path_ln_conflicts",
     "config_load", "source_blacklist", "default_blacklist_paths"}

VARIABLES
    machine,        \* one of Machines
    look,           \* what the doctor does next
    report,         \* check -> its status
    probe,          \* the temporary link exists
    server,         \* the process behind the doctor's connection: "none",
                    \* "service" as long as that is the service, or "gone"
    \* history
    facts           \* what has been true, or gone wrong, since the doctor began

doctorVars == <<machine, look, report, probe, server, facts>>
allVars == <<vars, doctorVars>>

Looks == {"around", "create", "remove", "service", "query", "connect", "verify", "path",
          "config", "report", "off"}

Doctors == {s \in Shells : command[s] = "doctor"}
ASSUME OneDoctor ==
    \A c \in CommandLines : \A s, t \in Shells : c[s] = "doctor" /\ c[t] = "doctor" => s = t

DoctorTypeOK ==
    /\ TypeOK
    /\ machine \in Machines
    /\ look \in Looks
    /\ report \in [Checks -> Statuses]
    /\ probe \in BOOLEAN
    /\ server \in {"none", "service", "gone"}
    /\ look = "report" => \A c \in Checks : report[c] = NotMade =>
            c \in {"path_ln_owner", "source_blacklist", "default_blacklist_paths"}

\* A process of the service listens on the pipe.
Serving == {"Running", "StopPending"}

TrueOf(reg, st) ==
    {IF reg = "no" THEN "absent" ELSE "installed",
     IF st = "Running" THEN "running" ELSE "notRunning",
     IF st \in Serving THEN "serving" ELSE "notServing"}

DoctorInit ==
    /\ Init
    /\ machine \in IF Doctors = {} THEN {CHOOSE m \in Machines : TRUE} ELSE Machines
    /\ look = IF Doctors = {} THEN "off" ELSE "around"
    /\ report = [c \in Checks |-> NotMade]
    /\ probe = FALSE /\ server = "none" /\ facts = {}

-----------------------------------------------------------------------------
(* What the checks make of what they find *)

platform_check ==
    CASE machine.build = "current" -> Pass
      [] machine.build = "old"     -> Fail
      [] machine.build = "unknown" -> Warn

filesystem_check ==
    CASE machine.cwd = "unreadable"         -> Fail
      [] machine.cwd = "ntfs"               -> Pass
      [] machine.cwd \in {"fat", "unknown"} -> Warn

developer_mode_check == IF machine.developer THEN Pass ELSE Info

direct_symlink_check(result) ==
    CASE result = Ok                              -> Pass
      [] result = "PrivilegeRequired"             -> Info
      [] result \notin {Ok, "PrivilegeRequired"}  -> Warn

\* The candidates are the files named ln.exe on PATH, in its order: each is
\* our own or not, and looks like another tool's or not.
first_is_ours == machine.exe /\ machine.lns # <<>> /\ machine.lns[1].ours

path_checks ==
    [path_ln_resolution |-> IF first_is_ours THEN Pass ELSE Warn,
     path_ln_owner |-> IF first_is_ours THEN Pass
                       ELSE IF machine.lns # <<>> /\ ~machine.exe THEN NotMade ELSE Warn,
     path_ln_conflicts |-> IF \E i \in DOMAIN machine.lns : machine.lns[i].foreign
                           THEN Warn ELSE Pass]

\* Faulty variant: a configuration that is not there is not worth a word.
config_checks_of_file ==
    IF machine.config = "valid" THEN [config_load |-> Pass, source_blacklist |-> Pass]
    ELSE IF machine.config = "missing" THEN [source_blacklist |-> Pass]
    ELSE [config_load |-> Fail]

config_checks ==
    LET loads == machine.config \in {"missing", "valid"}
    IN  [config_load |-> IF loads THEN Pass ELSE Fail,
         source_blacklist |-> IF loads THEN Pass ELSE NotMade,
         default_blacklist_paths |-> IF ~loads THEN NotMade
                                     ELSE IF machine.defaults THEN Pass ELSE Warn]

\* Faulty variant: any service process counts as running.
alive_service_checks(found) ==
    [service_installed |-> IF found \in States THEN Pass ELSE Fail,
     service_running |-> IF found \in States \ {"Stopped"} THEN Pass ELSE Fail]

\* One answer of query_service_state, a state, "NotInstalled" or an error,
\* decides both checks.
service_checks(found) ==
    [service_installed |-> IF found \in States THEN Pass ELSE Fail,
     service_running |-> IF found = "Running" THEN Pass ELSE Fail]

-----------------------------------------------------------------------------
(* The doctor's steps *)

Merged(statuses) == [c \in Checks |-> IF c \in DOMAIN statuses THEN statuses[c] ELSE report[c]]
Finding(check, status) == report' = [report EXCEPT ![check] = status]
Noting(more) == facts' = facts \cup more

Then(l) == look' = l /\ UNCHANGED <<vars, machine>>

LookAround ==
    /\ look = "around"
    /\ report' = [report EXCEPT !["platform"] = platform_check,
                                !["filesystem"] = filesystem_check,
                                !["developer_mode"] = developer_mode_check]
    /\ facts' = TrueOf(registered, state)
    /\ Then("create")
    /\ UNCHANGED <<probe, server>>

\* try_direct_temp_symlink: CreateSymbolicLinkW under a unique name; the
\* target is never made.
CreateProbe ==
    /\ look = "create"
    /\ \E result \in machine.create :
          /\ Finding("direct_symlink_create", direct_symlink_check(result))
          /\ probe' = (result = Ok)
    /\ Then("remove")
    /\ UNCHANGED <<server, facts>>

\* What is there is removed; if that fails nobody hears of it.
RemoveProbe ==
    /\ look = "remove"
    /\ probe' \in {FALSE, probe}
    /\ Then("service")
    /\ UNCHANGED <<report, server, facts>>

ServiceFound(found) ==
    /\ report' = Merged(service_checks(found))
    /\ look' = "connect"

\* query_service_state: the service is opened, which may fail.
OpenForQuery ==
    /\ look = "service"
    /\ \/ /\ registered # "no"
          /\ \E s \in Doctors : Watch(s)
          /\ look' = "query" /\ UNCHANGED <<report, facts>>
       \/ /\ registered = "no"
          /\ ServiceFound("NotInstalled") /\ UNCHANGED <<opened, seen, facts>>
       \/ ServiceFound("error") /\ Noting({"callFailed"}) /\ UNCHANGED <<opened, seen>>
    /\ UNCHANGED <<manager, command, pc, answer, machine, probe, server>>

\* Its status is read, which may fail, and the handle closed.
QueryService ==
    /\ look = "query"
    /\ \/ ServiceFound(state) /\ UNCHANGED facts
       \/ ServiceFound("error") /\ Noting({"callFailed"})
    /\ opened' = opened \ Doctors
    /\ seen' = [s \in Shells |-> IF s \in Doctors THEN {} ELSE seen[s]]
    /\ UNCHANGED <<manager, command, pc, answer, machine, probe, server>>

\* Faulty variant: the wait for the pipe has no limit.
ConnectPatiently ==
    /\ look = "connect"
    /\ state \in Serving /\ server' = "service" /\ Then("verify")
    /\ UNCHANGED <<report, probe, facts>>

\* check_broker_pipe up to the open handle: no pipe, or none that is free
\* within three seconds, as between two instances or during a request.
ConnectPipe ==
    /\ look = "connect"
    /\ \/ /\ state \in Serving /\ server' = "service" /\ Then("verify")
          /\ UNCHANGED <<report, facts>>
       \/ /\ Finding("named_pipe_identity", Fail) /\ Then("path")
          /\ Noting(IF state \in Serving THEN {"noFreePipe"} ELSE {"notServing"})
          /\ UNCHANGED server
    /\ UNCHANGED probe

\* verify_pipe_server_identity: the process behind the pipe is the one that
\* the manager names for the service now.
VerifyPipe ==
    /\ look = "verify"
    /\ \/ /\ Finding("named_pipe_identity", IF server = "service" THEN Pass ELSE Fail)
          /\ UNCHANGED facts
       \/ Finding("named_pipe_identity", Fail) /\ Noting({"callFailed"})
    /\ server' = "none" /\ Then("path")
    /\ UNCHANGED probe

CheckPath ==
    /\ look = "path"
    /\ report' = Merged(path_checks) /\ Then("config")
    /\ UNCHANGED <<probe, server, facts>>

CheckConfig ==
    /\ look = "config"
    /\ report' = Merged(config_checks) /\ Then("report")
    /\ UNCHANGED <<probe, server, facts>>

\* Faulty variant: the report counts as bad if its last check failed.
last_check_failed == report["config_load"] = Fail

has_failures == \E c \in Checks : report[c] = Fail

\* run_doctor: the report is printed and decides the exit code.
ReportAndReturn ==
    /\ look = "report" /\ look' = "off"
    /\ \E s \in Doctors : Return(s, IF has_failures THEN "ServiceUnavailable" ELSE Ok)
    /\ UNCHANGED <<manager, command, seen, machine, report, probe, server, facts>>

DoctorStep ==
    \/ LookAround \/ CreateProbe \/ RemoveProbe \/ OpenForQuery \/ QueryService
    \/ ConnectPipe \/ VerifyPipe \/ CheckPath \/ CheckConfig \/ ReportAndReturn

\* A step of somebody else; a service process that stops takes its pipe with
\* it.
Beside(step) ==
    /\ step
    /\ server' = IF server = "service" /\ state' = "Stopped" THEN "gone" ELSE server
    /\ facts' = IF look \in {"around", "off"} THEN facts ELSE facts \cup TrueOf(registered', state')
    /\ UNCHANGED <<machine, look, report, probe>>

DoctorNext == DoctorStep \/ Beside(Next)

DoctorSpec == DoctorInit /\ [][DoctorNext]_allVars

\* The shells run, the 30 seconds do pass, and so do the doctor's waits.
FairDoctorSpec ==
    /\ DoctorSpec
    /\ \A s \in Shells : WF_allVars(Beside(ShellStep(s)))
    /\ WF_allVars(DoctorStep)

-----------------------------------------------------------------------------
(* Properties *)

\* The doctor looks at a service that others change under its eyes.  What it
\* passes was so at some moment of its visit, and what it fails was not so at
\* some moment, or could not be found out.
FindingsWereTrue ==
    /\ report["service_installed"] = Pass => "installed" \in facts
    /\ report["service_installed"] = Fail => facts \cap {"absent", "callFailed"} # {}
    /\ report["service_running"] = Pass => "running" \in facts
    /\ report["service_running"] = Fail => facts \cap {"notRunning", "callFailed"} # {}
    /\ report["named_pipe_identity"] = Pass => "serving" \in facts
    /\ report["named_pipe_identity"] = Fail =>
            facts \cap {"notServing", "noFreePipe", "callFailed"} # {}

\* The doctor is satisfied only with a machine on which the broker can be used:
\* each of installed, running and behind its pipe at some moment of the visit,
\* if not at the same; a configuration that the broker can load; a current
\* directory that could be looked at; and a Windows that is not known to be too
\* old (one whose build could not be found out only gets a warning).
SatisfiedMeansUsable ==
    \A s \in Doctors : answer[s] = Ok =>
        /\ {"installed", "running", "serving"} \subseteq facts
        /\ machine.build # "old" /\ machine.cwd # "unreadable"
        /\ machine.config \in {"missing", "valid"}

=============================================================================
