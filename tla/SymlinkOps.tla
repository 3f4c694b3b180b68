----------------------------- MODULE SymlinkOps -----------------------------
(***************************************************************************)
(* The pure decisions of crates/win-symlinks-client/src/direct.rs, which   *)
(* the client uses for direct creation and the broker re-exports as its    *)
(* `symlink` module: what a name holds, whether it may be replaced, and    *)
(* which kind of link to make.  A Rust Result is the value itself or, when *)
(* it failed, the ErrorCode; the two sets of strings are disjoint.         *)
(***************************************************************************)

TargetKinds == {"File", "Dir"}
NoHint == "None"

ErrorCodes ==
    {"UnsupportedMode", "ServiceNotInstalled", "ServiceUnavailable",
     "PrivilegeRequired", "SourceBlacklisted", "TargetKindRequired",
     "LinkAlreadyExists", "LinkPathIsNotSymlink", "UnsafeReparsePoint",
     "CreateSymlinkFailed", "PathNormalizationFailed",
     "ServiceIdentityMismatch", "CallerParentWriteDenied",
     "TargetKindConflict", "RemoteClientRejected",
     "ReplacementPartiallyCompleted"}

LinkPathStates ==
    {"Missing", "SymbolicLink", "File", "Directory", "OtherReparsePoint", "Other"}
ReplacementPlans == {"Create", "ReplaceExistingSymlink"}

-----------------------------------------------------------------------------
(***************************************************************************)
(* What NTFS holds at a name.  "junction" stands for every name-surrogate  *)
(* reparse point that is not a symbolic link, "dataReparse" for a reparse  *)
(* point that is no surrogate (a cloud or deduplicated file).              *)
(***************************************************************************)
Objects ==
    {"nothing", "file", "directory", "fileSymlink", "dirSymlink",
     "junction", "dataReparse"}
TrueSymlinks == {"fileSymlink", "dirSymlink"}

HasReparsePoint(o) == o \in TrueSymlinks \cup {"junction", "dataReparse"}
HasDirectoryAttribute(o) == o \in {"directory", "dirSymlink", "junction"}

\* std::fs::FileType::is_symlink on Windows: every name surrogate, so a
\* junction answers TRUE as well.
IsSymlink(o) == o \in TrueSymlinks \cup {"junction"}

\* What fs::metadata, which follows links, says of a target.
TargetStates == {"file", "directory", "notFound", "unreadable"}

-----------------------------------------------------------------------------
\* The arms of inspect_link_path_state after a successful symlink_metadata.
\* On Windows whatever is neither directory nor symlink is a file, so the
\* last arm, "Other", is never taken.
inspect_link_path_state(o) ==
    CASE o = "nothing"                            -> "Missing"
      [] IsSymlink(o)                              -> "SymbolicLink"
      [] ~IsSymlink(o) /\ HasReparsePoint(o)      -> "OtherReparsePoint"
      [] o = "directory"                          -> "Directory"
      [] o = "file"                               -> "File"

\* Faulty variant: any ordinary file is replaced when -f was given.
plan_replacing_files(state, replace) ==
    CASE state = "Missing"                                    -> "Create"
      [] state \in {"SymbolicLink", "File"} /\ replace        -> "ReplaceExistingSymlink"
      [] state # "Missing" /\ ~replace                        -> "LinkAlreadyExists"
      [] state \in {"Directory", "Other"} /\ replace          -> "LinkPathIsNotSymlink"
      [] state = "OtherReparsePoint" /\ replace               -> "UnsafeReparsePoint"

\* Faulty variant: a link is replaced whether that was asked for or not.
plan_replacing_unasked(state, replace) ==
    CASE state = "Missing"                                    -> "Create"
      [] state = "SymbolicLink"                               -> "ReplaceExistingSymlink"
      [] state \in {"File", "Directory", "Other"} /\ ~replace -> "LinkAlreadyExists"
      [] state \in {"File", "Directory", "Other"} /\ replace  -> "LinkPathIsNotSymlink"
      [] state = "OtherReparsePoint"                          -> "UnsafeReparsePoint"

plan_replacement(state, replace) ==
    CASE state = "Missing"                                    -> "Create"
      [] state = "SymbolicLink" /\ replace                    -> "ReplaceExistingSymlink"
      [] state # "Missing" /\ ~replace                        -> "LinkAlreadyExists"
      [] state \in {"File", "Directory", "Other"} /\ replace  -> "LinkPathIsNotSymlink"
      [] state = "OtherReparsePoint" /\ replace               -> "UnsafeReparsePoint"

\* Faulty variant: a hint is believed without looking at the target.
trust_kind_hint(target, hint) ==
    CASE hint # NoHint                               -> hint
      [] hint = NoHint /\ target = "directory"       -> "Dir"
      [] hint = NoHint /\ target = "file"            -> "File"
      [] hint = NoHint /\ target = "notFound"        -> "TargetKindRequired"
      [] hint = NoHint /\ target = "unreadable"      -> "CreateSymlinkFailed"

decide_target_kind(target, hint) ==
    LET actual == IF target = "directory" THEN "Dir" ELSE "File"
    IN  CASE target \in {"file", "directory"} /\ hint \in {NoHint, actual} -> actual
          [] target \in {"file", "directory"} /\ hint \notin {NoHint, actual}
                                                      -> "TargetKindConflict"
          [] target = "notFound" /\ hint # NoHint     -> hint
          [] target = "notFound" /\ hint = NoHint     -> "TargetKindRequired"
          [] target = "unreadable"                    -> "CreateSymlinkFailed"

\* The object CreateSymbolicLinkW makes under symbolic_link_flags(kind, _).
LinkObject(kind) == IF kind = "Dir" THEN "dirSymlink" ELSE "fileSymlink"

=============================================================================
