----------------------- MODULE BrokerRequestInvariant -----------------------
(***************************************************************************)
(* The inductive invariant behind the safety of BrokerRequest: what is     *)
(* known at each step of a request about the thread's token, the checks    *)
(* made so far, the worker's locals and what it has already done.  TLC     *)
(* checks it; BrokerRequest_proofs proves it.                              *)
(***************************************************************************)
EXTENDS BrokerRequest

\* The steps in their order of execution.
Impersonated == {"normalize", "policy", "access", "revert"}
Changing == {"inspect", "recheck", "metadata", "remove", "create", "audit"}

\* The client's token is worn from identify to revert; from there on the
\* thread is the service, whatever earlier requests left behind.
TokenByStep ==
    /\ pc \in {"identify"} \cup Impersonated => active /\ token = req.user
    /\ pc \in {"kind"} \cup Changing => ~active /\ token = Service
    /\ pc \in {"idle", "down", "schema", "impersonate"} => ~active

\* A name that is not its entry's own is vetted as a name only.
VettedByStep ==
    /\ pc \in Impersonated \cup {"kind"} \cup Changing => <<"caller", req.user>> \in vetted
    /\ /\ pc \in {"access", "revert", "kind"} \cup Changing
       /\ "policy" \notin raced /\ name = layout.own[At]
       => <<"policy", At>> \in vetted
    /\ pc \in {"revert", "kind"} \cup Changing => Checked("parent", At)

LocalsByStep ==
    /\ pc \in {"policy", "access", "revert", "kind"} \cup Changing =>
          name \in Names /\ target_path_for_inspection(name, req.target_path) \in Places
    /\ pc \in Changing => kind \in TargetKinds
    /\ pc \in {"recheck", "metadata", "remove"} =>
          plan = "ReplaceExistingSymlink" /\ req.replace_existing_symlink
    /\ pc \in {"create", "audit"} => plan \in ReplacementPlans
    /\ pc \in {"metadata", "remove"} /\ "link" \notin raced =>
          fs[At] = "nothing" \/ IsSymlink(fs[At])

Recorded(n) == \E e \in audit : e.request = n

\* An answer c is true of what was done for request n.
TrueAnswer(n, c) ==
    /\ c = Ok => "linked" \in done[n] /\ Recorded(n)
    /\ c = "ReplacementPartiallyCompleted" => done[n] = {"removed"}
    /\ c = "CreateSymlinkFailed" => done[n] = {} \/ ("linked" \in done[n] /\ ~Recorded(n))
    /\ c \notin {Ok, "ReplacementPartiallyCompleted", "CreateSymlinkFailed"} => done[n] = {}

EffectsByStep ==
    /\ pc \in Steps => served \in RequestNumbers /\ answers[served] = NoCode
    /\ pc \in Steps \ {"create", "audit", "finish"} => done[served] = {}
    /\ pc = "create" =>
          done[served] = IF plan = "ReplaceExistingSymlink" THEN {"removed"} ELSE {}
    /\ pc = "audit" => "linked" \in done[served]
    /\ pc \in Steps \ {"finish"} => ~Recorded(served)
    /\ pc = "finish" => code # NoCode /\ TrueAnswer(served, code)

History ==
    /\ \A n \in RequestNumbers :
          n > served => done[n] = {} /\ answers[n] = NoCode /\ ~Recorded(n)
    /\ \A n \in RequestNumbers :
          n < served \/ (n = served /\ pc \notin Steps) => answers[n] # NoCode
    /\ \A n \in RequestNumbers :
          answers[n] \notin {NoCode, "lost"} => TrueAnswer(n, answers[n])
    /\ \A e \in audit : "linked" \in done[e.request]

\* The parts together are inductive; none of them is without the others: the
\* history needs the effects, the effects the plan, the removal the token.
IInv ==
    /\ TypeOK
    /\ TokenByStep
    /\ VettedByStep
    /\ LocalsByStep
    /\ EffectsByStep
    /\ History

\* The kind fits the target that decide_target_kind saw, and the link is the
\* one asked for, until somebody else changes the one or the other.
LinkByStep ==
    LET state == places[target_path_for_inspection(name, req.target_path)]
        made == pc = "audit" \/ (pc = "finish" /\ code = Ok)
    IN  /\ (pc \in Changing \/ made) /\ "target" \notin raced =>
              CASE state = "directory"  -> kind = "Dir"
                [] state = "file"       -> kind = "File"
                [] state = "notFound"   -> kind = req.target_kind
                [] state = "unreadable" -> FALSE
        /\ made => name \in Names
        /\ made /\ "link" \notin raced =>
              fs[At] = LinkObject(kind) /\ points[At] = req.target_path

\* What is known of the link that a request leaves behind.
RequestInv == IInv /\ LinkByStep

=============================================================================
