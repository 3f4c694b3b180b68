------------------------- MODULE PathPolicyInvariant -------------------------
(***************************************************************************)
(* The inductive invariant of PathPolicy: what is known at each call of    *)
(* one judgement.  A disk that keeps still makes every call say what       *)
(* RightVerdict says of it; on one that does not, what is compared is at   *)
(* least the name in use at that moment.                                   *)
(***************************************************************************)
EXTENDS PathPolicy

\* What normalize_for_policy returns.
IsNormal(path) ==
    /\ path \in Path /\ IsRooted(path) /\ EndsWell(path)
    /\ \A i \in DOMAIN path : i > RootLength(path) => path[i] \notin {Empty, Dot, DotDot}

CandidateIsNormal == candidate # Invalid => IsNormal(candidate)

AroundIsNow == around \subseteq Around(disk, NameInUse)

SteadyIsStraight == steady => StraightWays(disk)

\* The list is made once, and gone through from the first entry.
ListInOrder ==
    /\ pc \in {"normalize", "load", "merge"} => list = <<>>
    /\ pc \in {"normalize", "load", "merge", "roots", "profile"} => next = 1

\* No entry that was compared is one that the name in use stayed inside of.
ComparedAreOutside ==
    \A j \in 1..next - 1 : \A i \in around : Key(Entries[i]) # Key(list[j].path)

\* What the calls so far have ruled out.
RuledOut ==
    steady =>
        /\ pc \notin {"normalize", "done"} => Place(disk, link) # Invalid
        /\ pc \in {"merge", "roots", "profile", "entries"} => ~MeansNothing(disk)
        /\ pc \in {"profile", "entries"} => ~IsRoot(Place(disk, link))
        /\ pc = "entries" =>
              /\ ~ProfileMeansNothing(disk) /\ ~InOtherProfile(disk)
              /\ \A j \in 1..next - 1 : ~Holds(disk, list[j].path, link)

PathPolicyInvariant ==
    /\ TypeOK
    /\ CandidateIsNormal
    /\ AroundIsNow
    /\ SteadyIsStraight
    /\ ListInOrder
    /\ ComparedAreOutside
    /\ RuledOut

\* Inductive together with what it is there for.
Inductive ==
    /\ PathPolicyInvariant
    /\ CandidateIsMeant /\ MergeLosesNothing
    /\ ClearWasOutside /\ VerdictIsRight
=============================================================================
