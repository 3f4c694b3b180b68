------------------------ MODULE BrokerRequest_proofs ------------------------
(***************************************************************************)
(* IInv is an invariant of BrokerRequest for every value of the constants, *)
(* and with it type correctness and the safety of replacement.  One lemma  *)
(* per action shows that it keeps IInv, one step per part of IInv.         *)
(***************************************************************************)
EXTENDS BrokerRequestInvariant, SymlinkOps_proofs

-----------------------------------------------------------------------------
(* What the operators return *)

\* A usable spelling normalises to a name.
LEMMA Normalizing ==
    ASSUME TypeOK, NEW s \in Spellings
    PROVE  normalize_for_policy(s) \in Names \cup {Unusable}
BY PathsAreFunctions, LayoutsAreFunctions DEF normalize_for_policy, TypeOK, WorldOK

\* The name the broker goes by leads to an entry, which has a name itself.
LEMMA NameLeads ==
    ASSUME TypeOK, name \in Names
    PROVE  At \in Locations /\ layout.own[At] \in Names /\ layout.leads[layout.own[At]] = At
BY LayoutsAreFunctions DEF TypeOK, WorldOK, At

\* A target resolved from a name leads to a place or nowhere.
LEMMA Inspecting ==
    ASSUME NEW n \in Names, NEW t \in Targets
    PROVE  target_path_for_inspection(n, t) \in Places \cup {Unusable}
BY PathsAreFunctions DEF target_path_for_inspection

-----------------------------------------------------------------------------
(* The initial states *)

\* The broker starts idle, as itself, with an empty history.
LEMMA InitIInv == Init => IInv
<1> SUFFICES ASSUME Init PROVE IInv
  OBVIOUS
<1>1. TypeOK
  <2>1. WorldOK
    BY DEF Init, WorldOK
  <2>2. WorkerOK
    BY DEF Init, WorkerOK, Steps
  <2>3. HistoryOK
    BY Bounds DEF Init, HistoryOK, RequestNumbers, Answers
  <2> QED
    BY <2>1, <2>2, <2>3 DEF TypeOK
<1>2. TokenByStep /\ VettedByStep /\ LocalsByStep
  BY DEF Init, TokenByStep, VettedByStep, LocalsByStep, Impersonated, Changing
<1>3. EffectsByStep /\ History
  BY Bounds DEF Init, EffectsByStep, History, Steps, Recorded, RequestNumbers
<1> QED
  BY <1>1, <1>2, <1>3 DEF IInv

-----------------------------------------------------------------------------
(* The steps of a request *)

\* The request being served is one that a client can send.
LEMMA PresentRequest ==
    ASSUME IInv, pc \in Steps
    PROVE  /\ req.user \in Users /\ req.link_path \in Spellings
           /\ req.target_path \in Targets
           /\ req.target_kind \in TargetKinds \cup {NoHint}
           /\ req.replace_existing_symlink \in BOOLEAN
BY RequestsAreRecords DEF IInv, TypeOK, WorkerOK, RequestRecords

\* While a request is served and nothing is recorded, done or answered, the
\* history stays as it is.
LEMMA QuietStep ==
    ASSUME IInv, pc \in Steps, pc' \in Steps,
           UNCHANGED <<audit, served, done, answers, outside, crashes>>,
           vetted' \subseteq ({"caller"} \X Users) \cup ({"policy", "parent"} \X Locations),
           raced' \subseteq {"link", "target", "policy", "parent"}
    PROVE  HistoryOK' /\ History'
<1>1. HistoryOK'
  BY DEF IInv, TypeOK, HistoryOK
<1>2. History'
  BY DEF IInv, History, Recorded, TrueAnswer
<1> QED
  BY <1>1, <1>2

\* A request with an unknown form is refused, any other goes on.
LEMMA ValidateSchemaInv == IInv /\ ValidateSchema => IInv'
<1> SUFFICES ASSUME IInv, ValidateSchema PROVE IInv'
  OBVIOUS
<1>1. WorldOK'
  BY DEF IInv, TypeOK, WorldOK, ValidateSchema, world
<1>2. WorkerOK'
  BY DEF IInv, TypeOK, WorkerOK, ValidateSchema, Fail, GoTo, locals, Steps, ErrorCodes
<1>3. HistoryOK' /\ History'
  BY QuietStep DEF IInv, TypeOK, HistoryOK, ValidateSchema, Fail, GoTo, ghosts, Steps
<1>4. TokenByStep'
  BY TokensAreDistinct DEF IInv, TokenByStep, ValidateSchema, Fail, GoTo, locals,
         Impersonated, Changing
<1>5. VettedByStep'
  BY DEF IInv, VettedByStep, Checked, At, world, locals, TokenByStep, ValidateSchema, Fail,
       GoTo, Impersonated, Changing
<1>6. LocalsByStep'
  BY DEF IInv, TypeOK, WorldOK, WorkerOK, LocalsByStep, ValidateSchema, Fail, GoTo,
         world, locals, Steps, Changing, At,
         target_path_for_inspection
<1>7. EffectsByStep'
  BY DEF IInv, EffectsByStep, LocalsByStep, ValidateSchema, Fail, GoTo, locals, ghosts,
         Steps, Recorded, TrueAnswer, NoCode, Ok
<1> QED
  BY <1>1, <1>2, <1>3, <1>4, <1>5, <1>6, <1>7 DEF IInv, TypeOK

\* The thread takes the client's token, or the request is refused.
LEMMA ImpersonateInv == IInv /\ Impersonate => IInv'
<1> SUFFICES ASSUME IInv, Impersonate PROVE IInv'
  OBVIOUS
<1>1. WorldOK'
  BY DEF IInv, TypeOK, WorldOK, Impersonate, world
<1>2. WorkerOK'
  <2>1. pc \in Steps /\ pc' \in Steps
    BY DEF Impersonate, Fail, GoTo, Steps
  <2>2. code' \in ErrorCodes \cup {Ok, NoCode}
    BY DEF IInv, TypeOK, WorkerOK, Impersonate, Fail, GoTo, ErrorCodes
  <2>3. token' \in Users \cup {Service} /\ active' \in BOOLEAN
    BY <2>1, PresentRequest DEF IInv, TypeOK, WorkerOK, Impersonate
  <2> QED
    BY <2>1, <2>2, <2>3 DEF IInv, TypeOK, WorkerOK, Impersonate, locals
<1>3. HistoryOK' /\ History'
  BY QuietStep DEF IInv, TypeOK, HistoryOK, Impersonate, Fail, GoTo, ghosts, Steps
<1>4. TokenByStep'
  BY TokensAreDistinct DEF IInv, TokenByStep, Impersonate, Fail, GoTo, locals,
         Impersonated, Changing
<1>5. VettedByStep'
  BY DEF IInv, VettedByStep, Checked, At, world, locals, TokenByStep, Impersonate, Fail, GoTo,
       Impersonated, Changing
<1>6. LocalsByStep'
  BY DEF IInv, TypeOK, WorldOK, WorkerOK, LocalsByStep, Impersonate, Fail, GoTo, world,
         locals, Steps, Changing, At,
         target_path_for_inspection
<1>7. EffectsByStep'
  BY DEF IInv, EffectsByStep, LocalsByStep, Impersonate, Fail, GoTo, locals, ghosts,
         Steps, Recorded, TrueAnswer, NoCode, Ok
<1> QED
  BY <1>1, <1>2, <1>3, <1>4, <1>5, <1>6, <1>7 DEF IInv, TypeOK

\* Only a caller who is neither anonymous nor remote goes on.
LEMMA IdentifyClientInv == IInv /\ IdentifyClient => IInv'
<1> SUFFICES ASSUME IInv, IdentifyClient PROVE IInv'
  OBVIOUS
<1>1. WorldOK'
  BY DEF IInv, TypeOK, WorldOK, IdentifyClient, world
<1>2. WorkerOK'
  BY DEF IInv, TypeOK, WorkerOK, IdentifyClient, Fail, GoTo, locals, Steps, ErrorCodes
<1>3. HistoryOK' /\ History'
  <2>1. vetted' \in {vetted, vetted \cup {<<"caller", req.user>>}} /\ req.user \in Users
    BY PresentRequest DEF IdentifyClient, Steps
  <2> QED
    BY <2>1, QuietStep DEF IInv, TypeOK, HistoryOK, IdentifyClient, Fail, GoTo, ghosts, Steps
<1>4. TokenByStep'
  BY TokensAreDistinct DEF IInv, TokenByStep, IdentifyClient, Fail, GoTo, locals,
         Impersonated, Changing
<1>5. VettedByStep'
  BY DEF IInv, VettedByStep, Checked, At, world, locals, TokenByStep, IdentifyClient, Fail,
       GoTo, Impersonated, Changing
<1>6. LocalsByStep'
  BY DEF IInv, TypeOK, WorldOK, WorkerOK, LocalsByStep, IdentifyClient, Fail, GoTo,
         world, locals, Steps, Changing, At,
         target_path_for_inspection
<1>7. EffectsByStep'
  BY DEF IInv, EffectsByStep, LocalsByStep, IdentifyClient, Fail, GoTo, locals, ghosts,
         Steps, Recorded, TrueAnswer, NoCode, Ok
<1> QED
  BY <1>1, <1>2, <1>3, <1>4, <1>5, <1>6, <1>7 DEF IInv, TypeOK

\* What goes on has a name and a place its target leads to.
LEMMA NormalizePathsInv == IInv /\ NormalizePaths => IInv'
<1> SUFFICES ASSUME IInv, NormalizePaths PROVE IInv'
  OBVIOUS
<1>n. normalize_for_policy(req.link_path) \in Names \cup {Unusable}
  BY PresentRequest, Normalizing DEF NormalizePaths, Steps, IInv
<1>p. \A n \in Names : target_path_for_inspection(n, req.target_path) \in Places \cup {Unusable}
  BY PresentRequest, Inspecting DEF NormalizePaths, Steps
<1>1. WorldOK'
  BY DEF IInv, TypeOK, WorldOK, NormalizePaths, world
<1>2. WorkerOK'
  BY <1>n DEF IInv, TypeOK, WorkerOK, NormalizePaths, Fail, GoTo, locals, Steps, ErrorCodes
<1>3. HistoryOK' /\ History'
  BY QuietStep DEF IInv, TypeOK, HistoryOK, NormalizePaths, Fail, GoTo, ghosts, Steps
<1>4. TokenByStep'
  BY TokensAreDistinct DEF IInv, TokenByStep, NormalizePaths, Fail, GoTo, locals,
         Impersonated, Changing
<1>5. VettedByStep'
  BY DEF IInv, VettedByStep, Checked, At, world, locals, TokenByStep, NormalizePaths, Fail,
       GoTo, Impersonated, Changing
<1>6. LocalsByStep'
  BY <1>n, <1>p, PathsAreFunctions DEF IInv, TypeOK, WorldOK, WorkerOK, LocalsByStep,
         NormalizePaths, Fail, GoTo, world, locals, Steps, Changing, At,
         target_path_for_inspection
<1>7. EffectsByStep'
  BY DEF IInv, EffectsByStep, LocalsByStep, NormalizePaths, Fail, GoTo, locals, ghosts,
         Steps, Recorded, TrueAnswer, NoCode, Ok
<1> QED
  BY <1>1, <1>2, <1>3, <1>4, <1>5, <1>6, <1>7 DEF IInv, TypeOK

\* Only a name outside the blacklist goes on.
LEMMA CheckPolicyInv == IInv /\ CheckPolicy => IInv'
<1> SUFFICES ASSUME IInv, CheckPolicy PROVE IInv'
  OBVIOUS
<1>o. name \in Names /\ At \in Locations
  BY NameLeads DEF IInv, LocalsByStep, CheckPolicy
<1>1. WorldOK'
  BY DEF IInv, TypeOK, WorldOK, CheckPolicy, world
<1>2. WorkerOK'
  BY DEF IInv, TypeOK, WorkerOK, CheckPolicy, Fail, GoTo, locals, Steps, ErrorCodes
<1>3. HistoryOK' /\ History'
  <2>1. vetted' \in {vetted, vetted \cup {<<"policy", At>>}}
    BY DEF CheckPolicy
  <2> QED
    BY <1>o, <2>1, QuietStep DEF IInv, TypeOK, HistoryOK, CheckPolicy, Fail, GoTo, ghosts, Steps
<1>4. TokenByStep'
  BY TokensAreDistinct DEF IInv, TokenByStep, CheckPolicy, Fail, GoTo, locals,
         Impersonated, Changing
<1>5. VettedByStep'
  BY DEF IInv, VettedByStep, Checked, At, world, locals, TokenByStep, CheckPolicy, Fail, GoTo,
       Impersonated,
         Changing, is_blocked, renormalized
<1>6. LocalsByStep'
  BY DEF IInv, TypeOK, WorldOK, WorkerOK, LocalsByStep, CheckPolicy, Fail, GoTo, world,
         locals, Steps, Changing, At,
         target_path_for_inspection
<1>7. EffectsByStep'
  BY DEF IInv, EffectsByStep, LocalsByStep, CheckPolicy, Fail, GoTo, locals, ghosts,
         Steps, Recorded, TrueAnswer, NoCode, Ok
<1> QED
  BY <1>1, <1>2, <1>3, <1>4, <1>5, <1>6, <1>7 DEF IInv, TypeOK

\* Only a caller who may create entries beside the link goes on.
LEMMA VerifyParentAccessInv == IInv /\ VerifyParentAccess => IInv'
<1> SUFFICES ASSUME IInv, VerifyParentAccess PROVE IInv'
  OBVIOUS
<1>o. name \in Names /\ At \in Locations
  BY NameLeads DEF IInv, LocalsByStep, VerifyParentAccess
<1>1. WorldOK'
  BY DEF IInv, TypeOK, WorldOK, VerifyParentAccess, world
<1>2. WorkerOK'
  BY DEF IInv, TypeOK, WorkerOK, VerifyParentAccess, Fail, GoTo, locals, Steps, ErrorCodes
<1>3. HistoryOK' /\ History'
  <2>1. vetted' \in {vetted, vetted \cup {<<"parent", At>>}}
    BY DEF VerifyParentAccess
  <2> QED
    BY <1>o, <2>1, QuietStep DEF IInv, TypeOK, HistoryOK, VerifyParentAccess, Fail, GoTo,
       ghosts, Steps
<1>4. TokenByStep'
  BY TokensAreDistinct DEF IInv, TokenByStep, VerifyParentAccess, Fail, GoTo, locals,
         Impersonated, Changing
<1>5. VettedByStep'
  BY PresentRequest, TokensAreDistinct DEF IInv, VettedByStep, Checked, At, world, locals,
       TokenByStep,
         VerifyParentAccess, Fail, GoTo, Impersonated, Changing, Steps, may_add_entries, At
<1>6. LocalsByStep'
  BY DEF IInv, TypeOK, WorldOK, WorkerOK, LocalsByStep, VerifyParentAccess, Fail, GoTo,
         world, locals, Steps, Changing, At,
         target_path_for_inspection
<1>7. EffectsByStep'
  BY DEF IInv, EffectsByStep, LocalsByStep, VerifyParentAccess, Fail, GoTo, locals,
         ghosts, Steps, Recorded, TrueAnswer, NoCode, Ok
<1> QED
  BY <1>1, <1>2, <1>3, <1>4, <1>5, <1>6, <1>7 DEF IInv, TypeOK

\* What goes on runs as the service.
LEMMA RevertInv == IInv /\ Revert => IInv'
<1> SUFFICES ASSUME IInv, Revert PROVE IInv'
  OBVIOUS
<1>1. WorldOK'
  BY DEF IInv, TypeOK, WorldOK, Revert, world
<1>2. WorkerOK'
  <2>1. pc \in Steps /\ pc' \in Steps
    BY DEF Revert, Fail, GoTo, Steps
  <2>2. code' \in ErrorCodes \cup {Ok, NoCode}
    BY DEF IInv, TypeOK, WorkerOK, Revert, Fail, GoTo, ErrorCodes
  <2>3. token' \in Users \cup {Service} /\ active' \in BOOLEAN
    BY <2>1 DEF IInv, TypeOK, WorkerOK, Revert
  <2> QED
    BY <2>1, <2>2, <2>3 DEF IInv, TypeOK, WorkerOK, Revert, locals
<1>3. HistoryOK' /\ History'
  BY QuietStep DEF IInv, TypeOK, HistoryOK, Revert, Fail, GoTo, ghosts, Steps
<1>4. TokenByStep'
  BY TokensAreDistinct DEF IInv, TokenByStep, Revert, Fail, GoTo, locals, Impersonated,
         Changing
<1>5. VettedByStep'
  BY DEF IInv, VettedByStep, Checked, At, world, locals, TokenByStep, Revert, Fail, GoTo,
       Impersonated, Changing
<1>6. LocalsByStep'
  BY DEF IInv, TypeOK, WorldOK, WorkerOK, LocalsByStep, Revert, Fail, GoTo, world,
         locals, Steps, Changing, At,
         target_path_for_inspection
<1>7. EffectsByStep'
  BY DEF IInv, EffectsByStep, LocalsByStep, Revert, Fail, GoTo, locals, ghosts, Steps,
         Recorded, TrueAnswer, NoCode, Ok
<1> QED
  BY <1>1, <1>2, <1>3, <1>4, <1>5, <1>6, <1>7 DEF IInv, TypeOK

\* What goes on has the kind of its link.
LEMMA DecideKindInv == IInv /\ DecideKind => IInv'
<1> SUFFICES ASSUME IInv, DecideKind PROVE IInv'
  OBVIOUS
<1> DEFINE k == decide_target_kind(places[target_path_for_inspection(name, req.target_path)],
                                  req.target_kind)
<1>k. k \in TargetKinds \cup (ErrorCodes \ {"ReplacementPartiallyCompleted"})
  BY PresentRequest, DecideTargetKind
     DEF IInv, TypeOK, WorldOK, LocalsByStep, DecideKind, Steps, ErrorCodes
<1>d. /\ pc = "kind" /\ IF k \in TargetKinds THEN GoTo("inspect") /\ kind' = k
                          ELSE Fail(k) /\ UNCHANGED kind
  BY DEF DecideKind
<1> HIDE DEF k
<1>1. WorldOK'
  BY DEF IInv, TypeOK, WorldOK, DecideKind, world
<1>2. WorkerOK'
  BY <1>k, <1>d DEF IInv, TypeOK, WorkerOK, DecideKind, Fail, GoTo, locals, Steps,
         ErrorCodes
<1>3. HistoryOK' /\ History'
  BY QuietStep DEF IInv, TypeOK, HistoryOK, DecideKind, Fail, GoTo, ghosts, Steps
<1>4. TokenByStep'
  BY TokensAreDistinct DEF IInv, TokenByStep, DecideKind, Fail, GoTo, locals,
         Impersonated, Changing
<1>5. VettedByStep'
  BY DEF IInv, VettedByStep, Checked, At, world, locals, TokenByStep, DecideKind, Fail, GoTo,
       Impersonated, Changing
<1>6. LocalsByStep'
  BY <1>d DEF IInv, TypeOK, WorldOK, WorkerOK, LocalsByStep, DecideKind, Fail, GoTo,
         world, locals, Steps, Changing, At,
         target_path_for_inspection
<1>7. EffectsByStep'
  BY <1>k, <1>d DEF IInv, EffectsByStep, LocalsByStep, DecideKind, Fail, GoTo, locals,
         ghosts, Steps, Recorded, TrueAnswer, NoCode, Ok, ErrorCodes, TargetKinds
<1> QED
  BY <1>1, <1>2, <1>3, <1>4, <1>5, <1>6, <1>7 DEF IInv, TypeOK

\* What goes on has a plan; a replacement starts from a link.
LEMMA InspectAndPlanInv == IInv /\ InspectAndPlan => IInv'
<1> SUFFICES ASSUME IInv, InspectAndPlan PROVE IInv'
  OBVIOUS
<1> DEFINE p == plan_replacement(inspect_link_path_state(fs[At]),
                                req.replace_existing_symlink)
<1>o. name \in Names /\ At \in Locations /\ fs[At] \in Objects
  BY NameLeads DEF IInv, TypeOK, WorldOK, LocalsByStep, InspectAndPlan, Changing
<1>p. /\ p \in ReplacementPlans \cup
            (ErrorCodes \ {"CreateSymlinkFailed", "ReplacementPartiallyCompleted"})
      /\ p = "ReplaceExistingSymlink" => req.replace_existing_symlink /\ IsSymlink(fs[At])
      /\ p = "Create" => fs[At] = "nothing"
  BY <1>o, PresentRequest, PlanReplacement DEF InspectAndPlan, Steps, ErrorCodes
<1>d. \/ /\ p \in ReplacementPlans /\ plan' = p
         /\ GoTo(IF p = "ReplaceExistingSymlink" THEN "recheck" ELSE "create")
      \/ p \notin ReplacementPlans /\ Fail(p) /\ UNCHANGED plan
      \/ Fail("CreateSymlinkFailed") /\ UNCHANGED plan
  BY DEF InspectAndPlan
<1> HIDE DEF p
<1>1. WorldOK'
  BY DEF IInv, TypeOK, WorldOK, InspectAndPlan, world
<1>2. WorkerOK'
  BY <1>p, <1>d DEF IInv, TypeOK, WorkerOK, InspectAndPlan, Fail, GoTo, locals, Steps,
         ErrorCodes
<1>3. HistoryOK' /\ History'
  BY QuietStep DEF IInv, TypeOK, HistoryOK, InspectAndPlan, Fail, GoTo, ghosts, Steps
<1>4. TokenByStep'
  BY TokensAreDistinct DEF IInv, TokenByStep, InspectAndPlan, Fail, GoTo, locals,
         Impersonated, Changing
<1>5. VettedByStep'
  BY DEF IInv, VettedByStep, Checked, At, world, locals, TokenByStep, InspectAndPlan, Fail,
       GoTo, Impersonated, Changing
<1>6. LocalsByStep'
  BY <1>p, <1>d DEF IInv, TypeOK, WorldOK, WorkerOK, LocalsByStep, InspectAndPlan,
         Fail, GoTo, world, locals, Steps, Changing, At,
         target_path_for_inspection, ReplacementPlans
<1>7. EffectsByStep'
  BY <1>p, <1>d DEF IInv, EffectsByStep, LocalsByStep, InspectAndPlan, Fail, GoTo,
         locals, ghosts, Steps, Recorded, TrueAnswer, NoCode, Ok, ReplacementPlans,
         ErrorCodes
<1> QED
  BY <1>1, <1>2, <1>3, <1>4, <1>5, <1>6, <1>7 DEF IInv, TypeOK

\* What goes on was a link a moment ago, or has vanished.
LEMMA RecheckInv == IInv /\ Recheck => IInv'
<1> SUFFICES ASSUME IInv, Recheck PROVE IInv'
  OBVIOUS
<1> DEFINE p == plan_replacement(inspect_link_path_state(fs[At]), TRUE)
<1>o. name \in Names /\ At \in Locations /\ fs[At] \in Objects
  BY NameLeads DEF IInv, TypeOK, WorldOK, LocalsByStep, Recheck, Changing
<1>p. /\ p \in ReplacementPlans \cup
            (ErrorCodes \ {"CreateSymlinkFailed", "ReplacementPartiallyCompleted"})
      /\ p \in ReplacementPlans => fs[At] = "nothing" \/ IsSymlink(fs[At])
  BY <1>o, PlanReplacement DEF ReplacementPlans, ErrorCodes
<1>d. \/ p \in ReplacementPlans /\ GoTo("metadata")
      \/ p \notin ReplacementPlans /\ Fail(p)
      \/ Fail("CreateSymlinkFailed")
  BY DEF Recheck
<1> HIDE DEF p
<1>1. WorldOK'
  BY DEF IInv, TypeOK, WorldOK, Recheck, world
<1>2. WorkerOK'
  BY <1>p, <1>d DEF IInv, TypeOK, WorkerOK, Recheck, Fail, GoTo, locals, Steps, ErrorCodes
<1>3. HistoryOK' /\ History'
  BY QuietStep DEF IInv, TypeOK, HistoryOK, Recheck, Fail, GoTo, ghosts, Steps
<1>4. TokenByStep'
  BY TokensAreDistinct DEF IInv, TokenByStep, Recheck, Fail, GoTo, locals,
         Impersonated, Changing
<1>5. VettedByStep'
  BY DEF IInv, VettedByStep, Checked, At, world, locals, TokenByStep, Recheck, Fail, GoTo,
       Impersonated, Changing
<1>6. LocalsByStep'
  BY <1>p, <1>d DEF IInv, TypeOK, WorldOK, WorkerOK, LocalsByStep, Recheck, Fail, GoTo,
         world, locals, Steps, Changing, At,
         target_path_for_inspection
<1>7. EffectsByStep'
  BY <1>p, <1>d DEF IInv, EffectsByStep, LocalsByStep, Recheck, Fail, GoTo, locals,
         ghosts, Steps, Recorded, TrueAnswer, NoCode, Ok, ErrorCodes, ReplacementPlans
<1> QED
  BY <1>1, <1>2, <1>3, <1>4, <1>5, <1>6, <1>7 DEF IInv, TypeOK

\* Reading the directory attribute changes nothing.
LEMMA ReadMetadataInv == IInv /\ ReadMetadata => IInv'
<1> SUFFICES ASSUME IInv, ReadMetadata PROVE IInv'
  OBVIOUS
<1>1. WorldOK'
  BY DEF IInv, TypeOK, WorldOK, ReadMetadata, world
<1>b. HasDirectoryAttribute(fs[At]) \in BOOLEAN
  BY DEF HasDirectoryAttribute
<1>2. WorkerOK'
  BY <1>b DEF IInv, TypeOK, WorkerOK, ReadMetadata, Fail, GoTo, locals, Steps, ErrorCodes
<1>3. HistoryOK' /\ History'
  BY QuietStep DEF IInv, TypeOK, HistoryOK, ReadMetadata, Fail, GoTo, ghosts, Steps
<1>4. TokenByStep'
  BY TokensAreDistinct DEF IInv, TokenByStep, ReadMetadata, Fail, GoTo, locals,
         Impersonated, Changing
<1>5. VettedByStep'
  BY DEF IInv, VettedByStep, Checked, At, world, locals, TokenByStep, ReadMetadata, Fail, GoTo,
       Impersonated, Changing
<1>6. LocalsByStep'
  BY DEF IInv, TypeOK, WorldOK, WorkerOK, LocalsByStep, ReadMetadata, Fail, GoTo,
         world, locals, Steps, Changing, At,
         target_path_for_inspection
<1>7. EffectsByStep'
  BY DEF IInv, EffectsByStep, LocalsByStep, ReadMetadata, Fail, GoTo, locals, ghosts,
         Steps, Recorded, TrueAnswer, NoCode, Ok
<1> QED
  BY <1>1, <1>2, <1>3, <1>4, <1>5, <1>6, <1>7 DEF IInv, TypeOK

\* A new request finds no trace of its number.
LEMMA ReceiveInv == \A r \in Requests : IInv /\ Receive(r) => IInv'
<1> SUFFICES ASSUME NEW r \in Requests, IInv, Receive(r) PROVE IInv'
  OBVIOUS
<1>s. served' \in RequestNumbers /\ served' = served + 1 /\ served \in Nat
  BY Bounds DEF IInv, TypeOK, HistoryOK, Receive, RequestNumbers
<1>1. WorldOK'
  BY DEF IInv, TypeOK, WorldOK, Receive, world
<1>2. WorkerOK'
  BY DEF IInv, TypeOK, WorkerOK, Receive, Steps
<1>3. HistoryOK'
  BY Bounds, <1>s DEF IInv, TypeOK, HistoryOK, Receive, RequestNumbers
<1>4. TokenByStep' /\ VettedByStep' /\ LocalsByStep'
  BY DEF IInv, Checked, At, world, locals, TokenByStep, VettedByStep, LocalsByStep, Receive,
       Impersonated, Changing
<1>5. EffectsByStep'
  BY <1>s DEF IInv, EffectsByStep, History, Receive, Steps, Recorded
<1>6. History'
  BY <1>s DEF IInv, History, Receive, Steps, Recorded, TrueAnswer, RequestNumbers
<1> QED
  BY <1>1, <1>2, <1>3, <1>4, <1>5, <1>6 DEF IInv, TypeOK

\* The old link goes only as part of a replacement, so that the request that
\* goes on to create has either removed it or had nothing to remove.
LEMMA RemoveInv == IInv /\ Remove => IInv'
<1> SUFFICES ASSUME IInv, Remove PROVE IInv'
  OBVIOUS
<1>o. pc = "remove" /\ At \in Locations /\ served \in RequestNumbers
  BY NameLeads DEF IInv, LocalsByStep, EffectsByStep, Remove, Changing, Steps
<1>1. WorldOK'
  BY <1>o DEF IInv, TypeOK, WorldOK, Remove, Objects
<1>2. WorkerOK'
  BY DEF IInv, TypeOK, WorkerOK, Remove, Fail, GoTo, locals, Steps, ErrorCodes
<1>3. HistoryOK'
  <2>1. done' \in [RequestNumbers -> SUBSET {"removed", "linked"}]
    <3>1. done \in [RequestNumbers -> SUBSET {"removed", "linked"}]
      BY DEF IInv, TypeOK, HistoryOK
    <3>2. done' \in {done, [done EXCEPT ![served] = @ \cup {"removed"}]}
      BY DEF Remove
    <3> QED
      BY <3>1, <3>2, <1>o
  <2>2. raced' \subseteq {"link", "target", "policy", "parent"}
    BY DEF IInv, TypeOK, HistoryOK, Remove
  <2> QED
    BY <2>1, <2>2 DEF IInv, TypeOK, HistoryOK, Remove
<1>4. TokenByStep' /\ VettedByStep'
  BY DEF IInv, Checked, At, world, locals, TokenByStep, VettedByStep, Remove, Fail, GoTo,
       locals, Impersonated, Changing
<1>5. LocalsByStep'
  BY DEF IInv, LocalsByStep, Remove, Fail, GoTo, locals, Changing, ReplacementPlans,
         target_path_for_inspection
<1>6. EffectsByStep'
  BY <1>o DEF IInv, TypeOK, HistoryOK, EffectsByStep, LocalsByStep, Remove, Fail, GoTo,
         locals, Steps, Recorded, TrueAnswer, NoCode, Ok
<1>7. History'
  <2>1. \A n \in RequestNumbers \ {served} : done'[n] = done[n]
    BY <1>o DEF IInv, TypeOK, HistoryOK, Remove
  <2>2. done'[served] \in {done[served], done[served] \cup {"removed"}}
    BY <1>o DEF IInv, TypeOK, HistoryOK, Remove
  <2>3. answers[served] = NoCode /\ pc' \in Steps /\ served \in Nat
    BY <1>o DEF IInv, EffectsByStep, Remove, Fail, GoTo, Steps, RequestNumbers
  <2>4. UNCHANGED <<answers, audit, served>>
    BY DEF Remove
  <2>5. \A e \in audit : e.request \in RequestNumbers
    BY DEF IInv, TypeOK, WorldOK
  <2> QED
    BY <1>o, <2>1, <2>2, <2>3, <2>4, <2>5
       DEF IInv, History, Recorded, TrueAnswer, Steps, RequestNumbers
<1> QED
  BY <1>1, <1>2, <1>3, <1>4, <1>5, <1>6, <1>7 DEF IInv, TypeOK

\* A link that is made is not recorded yet; a creation that fails after a
\* removal has the code of a partial replacement, and only then.
LEMMA CreateInv == IInv /\ Create => IInv'
<1> SUFFICES ASSUME IInv, Create PROVE IInv'
  OBVIOUS
<1>o. /\ pc = "create" /\ At \in Locations /\ served \in RequestNumbers
      /\ kind \in TargetKinds /\ plan \in ReplacementPlans
  BY NameLeads DEF IInv, LocalsByStep, EffectsByStep, Create, Changing, Steps
<1>1. WorldOK'
  <2>1. req.target_path \in Targets
    BY PresentRequest, <1>o DEF Steps
  <2>2. LinkObject(kind) \in Objects
    BY DEF LinkObject, Objects
  <2> QED
    BY <1>o, <2>1, <2>2 DEF IInv, TypeOK, WorldOK, Create
<1>2. WorkerOK'
  BY DEF IInv, TypeOK, WorkerOK, Create, Fail, GoTo, create_failure, locals, Steps, ErrorCodes
<1>3. HistoryOK'
  <2>1. done' \in [RequestNumbers -> SUBSET {"removed", "linked"}]
    <3>1. done \in [RequestNumbers -> SUBSET {"removed", "linked"}]
      BY DEF IInv, TypeOK, HistoryOK
    <3>2. done' \in {done, [done EXCEPT ![served] = @ \cup {"linked"}]}
      BY DEF Create
    <3> QED
      BY <3>1, <3>2, <1>o
  <2>2. raced' \subseteq {"link", "target", "policy", "parent"}
    BY DEF IInv, TypeOK, HistoryOK, Create
  <2> QED
    BY <2>1, <2>2 DEF IInv, TypeOK, HistoryOK, Create
<1>4. TokenByStep' /\ VettedByStep'
  BY DEF IInv, Checked, At, world, locals, TokenByStep, VettedByStep, Create, Fail, GoTo,
       locals, Impersonated, Changing
<1>5. LocalsByStep'
  BY <1>o DEF IInv, LocalsByStep, Create, Fail, GoTo, locals, Changing,
         target_path_for_inspection
<1>6. EffectsByStep'
  BY <1>o DEF IInv, TypeOK, HistoryOK, EffectsByStep, Create, Fail, GoTo, create_failure,
         locals, Steps, Recorded, TrueAnswer, NoCode, Ok, ReplacementPlans
<1>7. History'
  <2>1. \A n \in RequestNumbers \ {served} : done'[n] = done[n]
    BY <1>o DEF IInv, TypeOK, HistoryOK, Create
  <2>2. done'[served] \in {done[served], done[served] \cup {"linked"}}
    BY <1>o DEF IInv, TypeOK, HistoryOK, Create
  <2>3. answers[served] = NoCode /\ pc' \in Steps /\ served \in Nat
    BY <1>o DEF IInv, EffectsByStep, Create, Fail, GoTo, Steps, RequestNumbers
  <2>4. UNCHANGED <<answers, audit, served>>
    BY DEF Create
  <2>5. \A e \in audit : e.request \in RequestNumbers
    BY DEF IInv, TypeOK, WorldOK
  <2> QED
    BY <1>o, <2>1, <2>2, <2>3, <2>4, <2>5
       DEF IInv, History, Recorded, TrueAnswer, Steps, RequestNumbers
<1> QED
  BY <1>1, <1>2, <1>3, <1>4, <1>5, <1>6, <1>7 DEF IInv, TypeOK

\* Ok is the result only of a link that is recorded.
LEMMA WriteAuditInv == IInv /\ WriteAudit => IInv'
<1> SUFFICES ASSUME IInv, WriteAudit PROVE IInv'
  OBVIOUS
<1>o. pc = "audit" /\ name \in Names /\ served \in RequestNumbers /\ kind \in TargetKinds
  BY DEF IInv, LocalsByStep, EffectsByStep, WriteAudit, Changing, Steps
<1>e. Entry(name) \in [request : RequestNumbers, user : Users, link : Names,
                       target : Targets, target_kind : TargetKinds]
      /\ Entry(name).request = served
  BY <1>o, PresentRequest DEF Entry, Steps
<1>a. audit' \in {audit, audit \cup {Entry(name)}}
  BY DEF WriteAudit
<1>1. WorldOK'
  BY <1>e, <1>a DEF IInv, TypeOK, WorldOK, WriteAudit, world
<1>2. WorkerOK'
  BY DEF IInv, TypeOK, WorkerOK, WriteAudit, Fail, audit_failure, locals, Steps, ErrorCodes
<1>3. HistoryOK'
  BY DEF IInv, TypeOK, HistoryOK, WriteAudit, ghosts
<1>4. TokenByStep' /\ VettedByStep' /\ LocalsByStep'
  BY DEF IInv, Checked, At, world, locals, TokenByStep, VettedByStep, LocalsByStep, WriteAudit,
       Fail, locals,
         Impersonated, Changing
<1>5. EffectsByStep'
  BY <1>o, <1>e DEF IInv, EffectsByStep, WriteAudit, Fail, audit_failure, ghosts, Steps,
         Recorded, TrueAnswer, NoCode, Ok
<1>6. History'
  <2>1. "linked" \in done[served] /\ answers[served] = NoCode
    BY <1>o DEF IInv, EffectsByStep, Steps
  <2>2. \A n \in RequestNumbers \ {served} : Recorded(n)' <=> Recorded(n)
    BY <1>e, <1>a DEF Recorded
  <2>3. \A e \in audit' : "linked" \in done[e.request]
    BY <1>e, <1>a, <2>1 DEF IInv, History
  <2>4. UNCHANGED <<done, answers, served>> /\ pc \in Steps /\ pc' \in Steps /\ served \in Nat
    BY <1>o DEF WriteAudit, Fail, ghosts, Steps, RequestNumbers
  <2> QED
    BY <1>o, <2>1, <2>2, <2>3, <2>4 DEF IInv, History, TrueAnswer, RequestNumbers
<1> QED
  BY <1>1, <1>2, <1>3, <1>4, <1>5, <1>6 DEF IInv, TypeOK

\* The answer of a request is its result; afterwards the thread serves nobody.
LEMMA FinishInv == IInv /\ Finish => IInv'
<1> SUFFICES ASSUME IInv, Finish PROVE IInv'
  OBVIOUS
<1>o. pc = "finish" /\ served \in RequestNumbers /\ code # NoCode /\ TrueAnswer(served, code)
  BY DEF IInv, EffectsByStep, Finish, Steps
<1>1. WorldOK'
  BY DEF IInv, TypeOK, WorldOK, Finish, world
<1>2. WorkerOK'
  BY DEF IInv, TypeOK, WorkerOK, Finish, Steps
<1>3. HistoryOK'
  BY <1>o DEF IInv, TypeOK, WorkerOK, HistoryOK, Finish, Answers
<1>4. TokenByStep' /\ VettedByStep' /\ LocalsByStep' /\ EffectsByStep'
  BY DEF IInv, Checked, At, world, locals, TokenByStep, VettedByStep, LocalsByStep,
       EffectsByStep, Finish,
         Impersonated, Changing, Steps
<1>5. History'
  <2>1. answers' = [answers EXCEPT ![served] = code] /\ answers'[served] = code
    BY <1>o DEF IInv, TypeOK, HistoryOK, Finish
  <2>2. \A n \in RequestNumbers \ {served} : answers'[n] = answers[n]
    BY <2>1, <1>o DEF IInv, TypeOK, HistoryOK
  <2>3. UNCHANGED <<done, audit, served>> /\ served \in Nat
    BY <1>o DEF Finish, RequestNumbers
  <2>4. \A n \in RequestNumbers : n > served \/ n < served \/ n = served
    BY <2>3 DEF RequestNumbers
  <2> QED
    BY <1>o, <2>1, <2>2, <2>3, <2>4 DEF IInv, History, Recorded, TrueAnswer, RequestNumbers
<1> QED
  BY <1>1, <1>2, <1>3, <1>4, <1>5 DEF IInv, TypeOK

-----------------------------------------------------------------------------
(* Crash, restart and everybody else *)

\* A request the broker dies over is lost, and is the only one that is.
LEMMA CrashInv == IInv /\ Crash => IInv'
<1> SUFFICES ASSUME IInv, Crash PROVE IInv'
  OBVIOUS
<1>1. WorldOK'
  BY DEF IInv, TypeOK, WorldOK, Crash, world
<1>2. WorkerOK'
  BY DEF IInv, TypeOK, WorkerOK, Crash, Steps
<1>3. HistoryOK'
  <2>1. answers' \in [RequestNumbers -> Answers]
    BY DEF IInv, TypeOK, HistoryOK, Crash, Answers
  <2> QED
    BY <2>1 DEF IInv, TypeOK, HistoryOK, Crash
<1>4. TokenByStep' /\ VettedByStep' /\ LocalsByStep' /\ EffectsByStep'
  BY DEF IInv, Checked, At, world, locals, TokenByStep, VettedByStep, LocalsByStep,
       EffectsByStep, Crash,
         Impersonated, Changing, Steps
<1>5. History'
  <2> USE DEF IInv, History, Recorded, TrueAnswer, Crash, RequestNumbers
  <2>1. CASE pc = "idle"
    BY <2>1 DEF Steps
  <2>2. CASE pc \in Steps
    <3>1. served \in RequestNumbers /\ pc # "idle"
      BY <2>2 DEF EffectsByStep, Steps
    <3>2. answers'[served] = "lost" /\ \A n \in RequestNumbers \ {served} : answers'[n] = answers[n]
      BY <3>1 DEF TypeOK, HistoryOK
    <3>3. \A n \in RequestNumbers : n > served \/ n < served \/ n = served
      BY <3>1
    <3> QED
      BY <2>2, <3>1, <3>2, <3>3 DEF NoCode, Steps
  <2> QED
    BY <2>1, <2>2
<1> QED
  BY <1>1, <1>2, <1>3, <1>4, <1>5 DEF IInv, TypeOK

\* A restarted broker is idle again; what was lost stays recorded as lost.
LEMMA RestartInv == IInv /\ Restart => IInv'
<1> SUFFICES ASSUME IInv, Restart PROVE IInv'
  OBVIOUS
<1>1. TypeOK'
  BY DEF IInv, TypeOK, WorldOK, WorkerOK, HistoryOK, Restart, world, locals, ghosts, Steps
<1>2. TokenByStep' /\ VettedByStep' /\ LocalsByStep' /\ EffectsByStep' /\ History'
  BY DEF IInv, Checked, At, world, locals, TokenByStep, VettedByStep, LocalsByStep,
       EffectsByStep, History, Restart,
         locals, ghosts, Impersonated, Changing, Steps, Recorded, TrueAnswer
<1> QED
  BY <1>1, <1>2 DEF IInv

\* What everybody else does leaves the worker and its history alone, and what
\* has been established, as long as the names are not re-pointed.
LEMMA OthersKeep ==
    ASSUME IInv, Others, raced \subseteq raced',
           raced' \subseteq {"link", "target", "policy", "parent"}
    PROVE  /\ WorkerOK' /\ HistoryOK'
           /\ TokenByStep' /\ EffectsByStep' /\ History'
           /\ layout' = layout => VettedByStep'
<1>1. WorkerOK' /\ HistoryOK'
  BY Bounds DEF IInv, TypeOK, WorkerOK, HistoryOK, Others, locals
<1>2. TokenByStep' /\ EffectsByStep' /\ History'
  BY DEF IInv, TokenByStep, EffectsByStep, History, Others, locals, Recorded, TrueAnswer
<1>3. layout' = layout => VettedByStep'
  BY DEF IInv, VettedByStep, Others, locals, Checked, At
<1> QED
  BY <1>1, <1>2, <1>3

\* What the worker knows of its entry survives a change of another entry.
LEMMA ChangeEntryInv ==
    \A l \in Locations, o \in Objects : IInv /\ ChangeEntry(l, o) => IInv'
<1> SUFFICES ASSUME NEW l \in Locations, NEW o \in Objects, IInv, ChangeEntry(l, o)
             PROVE  IInv'
  OBVIOUS
<1>1. WorldOK'
  BY DEF IInv, TypeOK, WorldOK, ChangeEntry, Others
<1>2. raced \subseteq raced' /\ raced' \subseteq {"link", "target", "policy", "parent"}
  BY DEF IInv, TypeOK, HistoryOK, ChangeEntry
<1>3. LocalsByStep'
  <2>1. name \in Names => At \in Locations
    BY NameLeads DEF IInv
  <2>2. name \in Names /\ "link" \notin raced' => "link" \notin raced /\ fs'[At] = fs[At]
    BY <2>1, PathsAreFunctions DEF IInv, TypeOK, WorldOK, ChangeEntry
  <2>3. UNCHANGED <<layout, pc, name, kind, plan, req>>
    BY DEF ChangeEntry, Others, locals
  <2> QED
    BY <2>2, <2>3 DEF IInv, LocalsByStep, Changing, At, target_path_for_inspection
<1> QED
  BY <1>1, <1>2, <1>3, OthersKeep DEF IInv, TypeOK, ChangeEntry

\* Names that lead elsewhere, or entries that are called otherwise, leave the
\* worker no more certain of the entry than it was.
LEMMA RepointInv == \A L \in Layouts : IInv /\ Repoint(L) => IInv'
<1> SUFFICES ASSUME NEW L \in Layouts, IInv, Repoint(L) PROVE IInv'
  OBVIOUS
<1>1. WorldOK' /\ raced \subseteq raced' /\ raced' \subseteq {"link", "target", "policy",
"parent"}
  BY DEF IInv, TypeOK, WorldOK, HistoryOK, Repoint, Others
<1>2. UNCHANGED <<fs, places, pc, name, kind, plan, req, vetted>> /\ layout' = L
  BY DEF Repoint, Others, locals
<1>3. name \in Names => name # NoName
  BY PathsAreFunctions
<1>4. name \in Names /\ At' # At => {"link", "policy", "parent"} \subseteq raced'
  BY <1>2, <1>3 DEF Repoint, At
<1>5. name \in Names /\ At' = At /\ "policy" \notin raced' => layout'.own[At'] = layout.own[At]
  BY <1>2, <1>3 DEF Repoint, At
<1>6. LocalsByStep'
  BY <1>1, <1>2, <1>4 DEF IInv, LocalsByStep, Changing, target_path_for_inspection
<1>7. VettedByStep'
  BY <1>1, <1>2, <1>4, <1>5 DEF IInv, LocalsByStep, VettedByStep, Checked, Changing, Impersonated
<1> QED
  BY <1>1, <1>6, <1>7, OthersKeep DEF IInv, TypeOK, Repoint

\* Another process changes what a target path holds.
LEMMA ChangePlaceInv ==
    \A p \in Places, s \in TargetStates : IInv /\ ChangePlace(p, s) => IInv'
<1> SUFFICES ASSUME NEW p \in Places, NEW s \in TargetStates, IInv, ChangePlace(p, s)
             PROVE  IInv'
  OBVIOUS
<1>1. WorldOK' /\ raced \subseteq raced' /\ raced' \subseteq {"link", "target", "policy",
"parent"}
  BY DEF IInv, TypeOK, WorldOK, HistoryOK, ChangePlace, Others
<1>2. LocalsByStep'
  BY DEF IInv, LocalsByStep, ChangePlace, Others, locals, At, target_path_for_inspection
<1> QED
  BY <1>1, <1>2, OthersKeep DEF IInv, TypeOK, ChangePlace

\* A directory's access rights change.
LEMMA ChangeGrantInv ==
    \A u \in Users, l \in Locations : IInv /\ ChangeGrant(u, l) => IInv'
<1> SUFFICES ASSUME NEW u \in Users, NEW l \in Locations, IInv, ChangeGrant(u, l)
             PROVE  IInv'
  OBVIOUS
<1>1. WorldOK' /\ raced \subseteq raced' /\ raced' \subseteq {"link", "target", "policy",
"parent"}
  BY DEF IInv, TypeOK, WorldOK, HistoryOK, ChangeGrant, Others
<1>2. LocalsByStep'
  BY DEF IInv, LocalsByStep, ChangeGrant, Others, locals, At, target_path_for_inspection
<1> QED
  BY <1>1, <1>2, OthersKeep DEF IInv, TypeOK, ChangeGrant

\* The administrator changes the configured blacklist.
LEMMA ChangeConfigInv == \A c \in SUBSET Names : IInv /\ ChangeConfig(c) => IInv'
<1> SUFFICES ASSUME NEW c \in SUBSET Names, IInv, ChangeConfig(c) PROVE IInv'
  OBVIOUS
<1>1. WorldOK' /\ raced \subseteq raced' /\ raced' \subseteq {"link", "target", "policy",
"parent"}
  BY DEF IInv, TypeOK, WorldOK, HistoryOK, ChangeConfig, Others
<1>2. LocalsByStep'
  BY DEF IInv, LocalsByStep, ChangeConfig, Others, locals, At, target_path_for_inspection
<1> QED
  BY <1>1, <1>2, OthersKeep DEF IInv, TypeOK, ChangeConfig

-----------------------------------------------------------------------------
(* The theorems *)

\* Every step, of the broker or of anybody else, keeps the invariant.
LEMMA NextIInv == IInv /\ [Next]_vars => IInv'
<1> SUFFICES ASSUME IInv, [Next]_vars PROVE IInv'
  OBVIOUS
<1>1. CASE \E r \in Requests : Receive(r)
  BY <1>1, ReceiveInv
<1>2. CASE WorkerStep
  BY <1>2, ValidateSchemaInv, ImpersonateInv, IdentifyClientInv, NormalizePathsInv,
     CheckPolicyInv, VerifyParentAccessInv, RevertInv, DecideKindInv, InspectAndPlanInv,
     RecheckInv, ReadMetadataInv, RemoveInv, CreateInv, WriteAuditInv, FinishInv
     DEF WorkerStep
<1>3. CASE Crash \/ Restart
  BY <1>3, CrashInv, RestartInv
<1>4. CASE OutsideStep
  BY <1>4, ChangeEntryInv, RepointInv, ChangePlaceInv, ChangeGrantInv,
       ChangeConfigInv DEF OutsideStep
<1>5. CASE UNCHANGED vars
  BY <1>5 DEF vars, IInv, TypeOK, WorldOK, WorkerOK, HistoryOK, TokenByStep, VettedByStep,
       Checked,
     LocalsByStep, EffectsByStep, History, Recorded, TrueAnswer, At,
     target_path_for_inspection
<1> QED
  BY <1>1, <1>2, <1>3, <1>4, <1>5 DEF Next

\* The strengthened invariant holds throughout every behaviour.
THEOREM Invariance == Spec => []IInv
<1> QED
  BY InitIInv, NextIInv, PTL DEF Spec

\* Type correctness.
THEOREM TypeCorrectness == Spec => []TypeOK
<1>1. IInv => TypeOK
  BY DEF IInv
<1> QED
  BY <1>1, Invariance, PTL

\* A client hears of a partial replacement exactly when its link was taken
\* and no new one was made.
THEOREM PartialReplacement == Spec => []PartialReplacementReported
<1>1. IInv => PartialReplacementReported
  BY DEF IInv, TypeOK, HistoryOK, History, TrueAnswer, PartialReplacementReported, Ok
<1> QED
  BY <1>1, Invariance, PTL

\* No answer misstates what was done.
THEOREM TrueAnswers == Spec => []AnswersAreTrue
<1>1. IInv => AnswersAreTrue
  BY DEF IInv, TypeOK, HistoryOK, History, TrueAnswer, Recorded, AnswersAreTrue,
         Ok, NoCode, ErrorCodes
<1> QED
  BY <1>1, Invariance, PTL

\* The manifest and the links agree, across crashes.
THEOREM AuditTrail == Spec => []AuditMatchesLinks
<1>1. IInv => AuditMatchesLinks
  <2> SUFFICES ASSUME IInv, NEW n \in RequestNumbers, "linked" \in done[n], ~Recorded(n)
               PROVE  \/ n = served /\ pc = "audit"
                      \/ n = served /\ pc = "finish" /\ code = "CreateSymlinkFailed"
                      \/ answers[n] \in {"CreateSymlinkFailed", "lost"}
    BY DEF AuditMatchesLinks, Recorded, IInv, History
  <2>1. CASE answers[n] # NoCode
    BY <2>1 DEF IInv, TypeOK, HistoryOK, History, TrueAnswer
  <2>2. CASE answers[n] = NoCode
    <3>1. n = served /\ pc \in Steps
      BY <2>2, Bounds DEF IInv, TypeOK, HistoryOK, History, RequestNumbers
    <3>2. pc \in {"create", "audit", "finish"}
      BY <3>1 DEF IInv, EffectsByStep
    <3>3. CASE pc = "create"
      BY <3>1, <3>3 DEF IInv, EffectsByStep
    <3>4. CASE pc = "finish"
      BY <3>1, <3>4 DEF IInv, EffectsByStep, TrueAnswer, Steps
    <3> QED
      BY <3>1, <3>2, <3>3, <3>4
  <2> QED
    BY <2>1, <2>2
<1> QED
  BY <1>1, Invariance, PTL

\* A step that changes an entry is Remove or Create, if it is the broker's.
LEMMA ChangingSteps ==
    ASSUME IInv, Next, BrokerMoves, NEW l \in Locations, fs'[l] # fs[l]
    PROVE  Remove \/ Create
<1>1. CASE \E r \in Requests : Receive(r)
  BY <1>1 DEF Receive, world
<1>2. CASE WorkerStep
  BY <1>2 DEF WorkerStep, ValidateSchema, Impersonate, IdentifyClient, NormalizePaths,
     CheckPolicy, VerifyParentAccess, Revert, DecideKind, InspectAndPlan, Recheck,
     ReadMetadata, WriteAudit, Finish, world
<1>3. CASE Crash \/ Restart
  BY <1>3 DEF Crash, Restart, world
<1>4. CASE OutsideStep
  BY <1>4 DEF OutsideStep, ChangeEntry, Repoint, ChangePlace, ChangeGrant, ChangeConfig, Others,
     BrokerMoves
<1> QED
  BY <1>1, <1>2, <1>3, <1>4 DEF Next

\* Entries change only as the service, for a caller who passed every check, and
\* at the entry that the checks of this very request were made of, unless the
\* way to it was re-pointed since.
THEOREM Authorisation == Spec => AuthorisedMutation
<1> DEFINE P == \A l \in Locations :
                   BrokerMoves /\ fs'[l] # fs[l]
                   => /\ token = Service
                      /\ l = At
                      /\ <<"caller", req.user>> \in vetted
                      /\ Checked("parent", l)
                      /\ name = layout.own[l] => Checked("policy", l)
<1>1. IInv /\ [Next]_vars => [P]_vars
  <2> SUFFICES ASSUME IInv, Next, NEW l \in Locations, BrokerMoves, fs'[l] # fs[l]
               PROVE  /\ token = Service
                      /\ l = At
                      /\ <<"caller", req.user>> \in vetted
                      /\ Checked("parent", l)
                      /\ name = layout.own[l] => Checked("policy", l)
    OBVIOUS
  <2>1. pc \in {"remove", "create"} /\ (fs' = fs \/ \E o : fs' = [fs EXCEPT ![At] = o])
    BY ChangingSteps DEF Remove, Create
  <2>2. l = At
    BY <2>1 DEF IInv, TypeOK, WorldOK
  <2> QED
    BY <2>1, <2>2 DEF IInv, TokenByStep, VettedByStep, Checked, Changing
<1> QED
  BY <1>1, Invariance, PTL DEF Spec, AuthorisedMutation

\* Only a link goes, and only when asked for, unless others put something
\* else in its place after the last look.
THEOREM SafeRemoval == Spec => RemovalIsSafe
<1> DEFINE P == \A l \in Locations :
                   BrokerMoves /\ fs'[l] # fs[l] /\ fs[l] # "nothing"
                   => /\ req.replace_existing_symlink
                      /\ IsSymlink(fs[l]) \/ "link" \in raced
<1>1. IInv /\ [Next]_vars => [P]_vars
  <2> SUFFICES ASSUME IInv, Next, NEW l \in Locations, BrokerMoves,
                      fs'[l] # fs[l], fs[l] # "nothing"
               PROVE  /\ req.replace_existing_symlink
                      /\ IsSymlink(fs[l]) \/ "link" \in raced
    OBVIOUS
  <2>1. CASE Create
    <3>1. fs' = fs \/ (fs[At] = "nothing" /\ fs' = [fs EXCEPT ![At] = LinkObject(kind)])
      BY <2>1 DEF Create
    <3> QED
      BY <3>1 DEF IInv, TypeOK, WorldOK
  <2>2. CASE Remove
    <3>1. pc = "remove" /\ (fs' = fs \/ fs' = [fs EXCEPT ![At] = "nothing"])
      BY <2>2 DEF Remove
    <3>2. l = At
      BY <3>1 DEF IInv, TypeOK, WorldOK
    <3> QED
      BY <3>1, <3>2 DEF IInv, LocalsByStep
  <2> QED
    BY <2>1, <2>2, ChangingSteps
<1> QED
  BY <1>1, Invariance, PTL DEF Spec, RemovalIsSafe

=============================================================================
