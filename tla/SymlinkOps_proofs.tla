-------------------------- MODULE SymlinkOps_proofs --------------------------
(***************************************************************************)
(* What the decisions on a link return, for every object, state and hint:  *)
(* the lemmas that the proofs about the broker's worker and about `ln`     *)
(* share, since both take these decisions.                                 *)
(***************************************************************************)
EXTENDS SymlinkOps, TLAPS

\* plan_replacement plans a replacement only for a link, and only on request,
\* and a creation only where nothing is; otherwise it answers with a code.
LEMMA PlanReplacement ==
    ASSUME NEW o \in Objects, NEW replace \in BOOLEAN
    PROVE  LET p == plan_replacement(inspect_link_path_state(o), replace)
           IN  /\ p \in ReplacementPlans \cup
                     {"LinkAlreadyExists", "LinkPathIsNotSymlink", "UnsafeReparsePoint"}
               /\ p = "ReplaceExistingSymlink" => replace /\ IsSymlink(o)
               /\ p = "Create" => o = "nothing"
BY DEF plan_replacement, inspect_link_path_state, Objects, IsSymlink, HasReparsePoint,
       TrueSymlinks, ReplacementPlans

\* decide_target_kind answers with a kind or with the code of a refusal.
LEMMA DecideTargetKind ==
    ASSUME NEW state \in TargetStates, NEW hint \in TargetKinds \cup {NoHint}
    PROVE  decide_target_kind(state, hint) \in TargetKinds \cup
              {"TargetKindConflict", "TargetKindRequired", "CreateSymlinkFailed"}
BY DEF decide_target_kind, TargetStates, TargetKinds, NoHint

\* A kind that it answers with fits the target it saw.
LEMMA KindFitsTarget ==
    ASSUME NEW state \in TargetStates, NEW hint \in TargetKinds \cup {NoHint},
           decide_target_kind(state, hint) \in TargetKinds
    PROVE  LET k == decide_target_kind(state, hint)
           IN  /\ state = "directory" => k = "Dir"
               /\ state = "file" => k = "File"
               /\ state = "notFound" => k = hint
               /\ state # "unreadable"
BY DEF decide_target_kind, TargetStates, TargetKinds, NoHint

\* The codes are neither plans nor kinds, and are codes.
LEMMA CodesAreCodes ==
    /\ {"LinkAlreadyExists", "LinkPathIsNotSymlink", "UnsafeReparsePoint",
        "TargetKindConflict", "TargetKindRequired", "CreateSymlinkFailed"} \subseteq ErrorCodes
    /\ ErrorCodes \cap (ReplacementPlans \cup TargetKinds) = {}
BY DEF ErrorCodes, ReplacementPlans, TargetKinds

=============================================================================
