-------------------------- MODULE DoctorInvariant --------------------------
(***************************************************************************)
(* The inductive invariant behind the safety of the service commands and   *)
(* of the doctor among them: which calls a command makes, what a shell     *)
(* that holds a handle cannot have missed, and what each of the doctor's   *)
(* findings, made one after the other, owes to the moment it was made.     *)
(***************************************************************************)
EXTENDS Doctor

-----------------------------------------------------------------------------
(* The service commands *)

CallsOf(c) ==
    CASE c = "install"   -> {"create", "configure"}
      [] c = "uninstall" -> {"open", "query", "stop", "await", "delete"}
      [] c = "start"     -> {"open", "query", "start", "await"}
      [] c = "stop"      -> {"open", "query", "stop", "await"}
      [] c = "status"    -> {"open", "query"}
      [] c = "doctor"    -> {"doctor"}

\* Nobody who holds a handle misses a state of the service, so the state that
\* a command acted upon is one it may vouch for later, as uninstall does when
\* its deletion has succeeded.
ServiceInv ==
    /\ TypeOK
    /\ \A s \in Shells : pc[s] \in CallsOf(command[s]) \cup {"done"}
    /\ \A s \in opened : state \in seen[s]
    /\ \A s \in Shells : pc[s] = "delete" => "Stopped" \in seen[s]
    /\ registered = "no" => state = "Stopped"
    /\ OkWasTrue
    /\ DelayedStart

-----------------------------------------------------------------------------
(* The doctor *)

Early == {"platform", "filesystem", "developer_mode"}
OfService == {"service_installed", "service_running"}

\* The checks that are made once the doctor has come to l.
MadeBefore(l) ==
    CASE l = "around"                            -> {}
      [] l = "create"                            -> Early
      [] l \in {"remove", "service", "query"}    -> Early \cup {"direct_symlink_create"}
      [] l \in {"connect", "verify"} ->
            Early \cup {"direct_symlink_create"} \cup OfService
      [] l = "path" ->
            Early \cup {"direct_symlink_create", "named_pipe_identity"} \cup OfService
      [] l = "config" ->
            Early \cup {"direct_symlink_create", "named_pipe_identity",
                        "path_ln_resolution", "path_ln_conflicts"} \cup OfService
      [] l = "report" ->
            Early \cup {"direct_symlink_create", "named_pipe_identity",
                        "path_ln_resolution", "path_ln_conflicts", "config_load"}
                  \cup OfService

\* The checks are made in their order, and those that decide the doctor's
\* answer say what they found.
InOrder ==
    /\ look = "around" => facts = {} /\ report = [c \in Checks |-> NotMade]
    /\ look # "off" => \A s \in Doctors : pc[s] = "doctor"
    /\ look # "off" => \A c \in MadeBefore(look) : report[c] # NotMade
    /\ look \notin {"around", "off"} =>
          report["platform"] = platform_check /\ report["filesystem"] = filesystem_check
    /\ look = "report" => report["config_load"] = config_checks.config_load
    /\ \A c \in OfService \cup {"named_pipe_identity"} : report[c] \in {NotMade, Pass, Fail}

\* What is so now has been noted; a handle is only got on a registered
\* service, and a connection only to a service that serves.
Noted ==
    /\ look \notin {"around", "off"} => TrueOf(registered, state) \subseteq facts
    /\ look = "query" => "installed" \in facts
    /\ look = "verify" <=> server # "none"
    /\ server # "none" => "serving" \in facts
    /\ server = "gone" => "notServing" \in facts

DoctorInv ==
    /\ ServiceInv
    /\ DoctorTypeOK
    /\ InOrder
    /\ Noted
    /\ FindingsWereTrue
    /\ SatisfiedMeansUsable

=============================================================================
