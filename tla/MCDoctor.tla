------------------------------- MODULE MCDoctor -------------------------------
(***************************************************************************)
(* Three shells at a time: the pairs of commands that undo each other, or  *)
(* are the same command twice, with a third that gets in their way; and    *)
(* the doctor among them, on three machines.                               *)
(***************************************************************************)
EXTENDS DoctorInvariant

CONSTANTS s1, s2, s3

MCShells == {s1, s2, s3}

Running(a, b, c) == [s \in MCShells |-> CASE s = s1 -> a [] s = s2 -> b [] s = s3 -> c]
MCCommandLines ==
    {Running("install", "uninstall", "start"), Running("install", "install", "stop"),
     Running("uninstall", "start", "stop"), Running("uninstall", "uninstall", "install"),
     Running("start", "start", "stop"), Running("install", "install", "status"),
     Running("uninstall", "install", "doctor")}

ln(ours, foreign) == [ours |-> ours, foreign |-> foreign]

\* A machine as it should be, one whose ln.exe comes second and whose user
\* may not make links, and one on which nothing can be found out.
MCMachines ==
    {[build |-> "current", cwd |-> "ntfs", developer |-> TRUE, create |-> {Ok},
      lns |-> <<ln(TRUE, FALSE)>>, exe |-> TRUE, config |-> "valid", defaults |-> TRUE],
     [build |-> "unknown", cwd |-> "fat", developer |-> FALSE, create |-> {"PrivilegeRequired"},
      lns |-> <<ln(FALSE, TRUE), ln(TRUE, FALSE)>>, exe |-> TRUE,
      config |-> "missing", defaults |-> FALSE],
     [build |-> "old", cwd |-> "unknown", developer |-> FALSE, create |-> {"CreateSymlinkFailed"},
      lns |-> <<>>, exe |-> FALSE, config |-> "invalid", defaults |-> TRUE]}

=============================================================================
