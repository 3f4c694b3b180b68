---------------------------- MODULE LinkService ----------------------------
(***************************************************************************)
(* What the creation of links promises, whoever performs it and in however *)
(* many steps: a request takes away at most one old link, then makes at    *)
(* most one new one where nothing is, then records it; it ends with an     *)
(* answer that tells these cases apart, or is lost with the process that   *)
(* served it.  Everybody else may change the directory entries meanwhile.  *)
(***************************************************************************)
EXTENDS Naturals, SymlinkOps

CONSTANTS Locations, NumberOfRequests

VARIABLES
    entry,      \* location -> the object it holds
    stage,      \* request -> "waiting", "open", "answered" or "lost"
    effect,     \* request -> "none", "removed", "linked" or "recorded"
    answer,     \* request -> its answer, "NoCode" before there is one
    foreign     \* how often everybody else has acted

vars == <<entry, stage, effect, answer, foreign>>

Numbers == 1 .. NumberOfRequests

Init ==
    /\ entry \in [Locations -> Objects]
    /\ stage = [n \in Numbers |-> "waiting"]
    /\ effect = [n \in Numbers |-> "none"]
    /\ answer = [n \in Numbers |-> "NoCode"]
    /\ foreign = 0

Open(n) ==
    /\ stage[n] = "waiting"
    /\ stage' = [stage EXCEPT ![n] = "open"]
    /\ UNCHANGED <<entry, effect, answer, foreign>>

RemoveOld(n, l) ==
    /\ stage[n] = "open" /\ effect[n] = "none" /\ entry[l] # "nothing"
    /\ entry' = [entry EXCEPT ![l] = "nothing"]
    /\ effect' = [effect EXCEPT ![n] = "removed"]
    /\ UNCHANGED <<stage, answer, foreign>>

MakeLink(n, l) ==
    /\ stage[n] = "open" /\ effect[n] \in {"none", "removed"} /\ entry[l] = "nothing"
    /\ \E o \in TrueSymlinks : entry' = [entry EXCEPT ![l] = o]
    /\ effect' = [effect EXCEPT ![n] = "linked"]
    /\ UNCHANGED <<stage, answer, foreign>>

Record(n) ==
    /\ stage[n] = "open" /\ effect[n] = "linked"
    /\ effect' = [effect EXCEPT ![n] = "recorded"]
    /\ UNCHANGED <<entry, stage, answer, foreign>>

\* The answers that are true of what has been done.
AnswersFor(e) ==
    CASE e = "none"     -> ErrorCodes \ {"ReplacementPartiallyCompleted"}
      [] e = "removed"  -> {"ReplacementPartiallyCompleted"}
      [] e = "linked"   -> {"CreateSymlinkFailed"}
      [] e = "recorded" -> {"Ok"}

Answer(n) ==
    /\ stage[n] = "open"
    /\ \E a \in AnswersFor(effect[n]) : answer' = [answer EXCEPT ![n] = a]
    /\ stage' = [stage EXCEPT ![n] = "answered"]
    /\ UNCHANGED <<entry, effect, foreign>>

Lose(n) ==
    /\ stage[n] = "open"
    /\ stage' = [stage EXCEPT ![n] = "lost"]
    /\ UNCHANGED <<entry, effect, answer, foreign>>

\* Somebody else acts, on an entry or on something else.
ActElsewhere ==
    /\ \/ \E l \in Locations, o \in Objects : entry' = [entry EXCEPT ![l] = o]
       \/ UNCHANGED entry
    /\ foreign' = foreign + 1
    /\ UNCHANGED <<stage, effect, answer>>

Next ==
    \/ \E n \in Numbers :
          \/ Open(n) \/ Record(n) \/ Answer(n) \/ Lose(n)
          \/ \E l \in Locations : RemoveOld(n, l) \/ MakeLink(n, l)
    \/ ActElsewhere

Spec == Init /\ [][Next]_vars

=============================================================================
