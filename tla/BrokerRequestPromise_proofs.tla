--------------------- MODULE BrokerRequestPromise_proofs ---------------------
(***************************************************************************)
(* What a request promises its client, for every value of the constants:   *)
(* the link it leaves behind is the one asked for, and a request does what *)
(* LinkService says and nothing else.  Both follow from IInv, which        *)
(* BrokerRequest_proofs shows to be an invariant.                          *)
(***************************************************************************)
EXTENDS BrokerRequest_proofs

-----------------------------------------------------------------------------
(* The link as asked *)

\* The checks of a request say nothing of the link yet.
LEMMA ChecksPromiseNothing ==
    ASSUME IInv, \/ ValidateSchema \/ Impersonate \/ IdentifyClient \/ NormalizePaths
                 \/ CheckPolicy \/ VerifyParentAccess \/ Revert
    PROVE  LinkByStep'
<1>1. pc' \notin Changing /\ (pc' = "finish" => code' # Ok)
  BY DEF ValidateSchema, Impersonate, IdentifyClient, NormalizePaths, CheckPolicy,
     VerifyParentAccess, Revert, Fail, GoTo, Changing, Ok
<1> QED
  BY <1>1 DEF LinkByStep, Changing

\* The kind is decided on the target as it is now.
LEMMA DecideKindPromise == IInv /\ DecideKind => LinkByStep'
<1> SUFFICES ASSUME IInv, DecideKind PROVE LinkByStep'
  OBVIOUS
<1> DEFINE state == places[target_path_for_inspection(name, req.target_path)]
           k == decide_target_kind(state, req.target_kind)
<1>1. /\ pc = "kind" /\ pc' # "audit" /\ (pc' = "finish" => code' # Ok \/ k = Ok)
      /\ pc' \in Changing => k \in TargetKinds /\ kind' = k
      /\ UNCHANGED <<places, name, req>>
  BY DEF DecideKind, Fail, GoTo, Changing, world
<1>2. /\ state \in TargetStates /\ req.target_kind \in TargetKinds \cup {NoHint}
      /\ k # Ok
  <2>1. state \in TargetStates
    BY <1>1 DEF IInv, TypeOK, WorldOK, LocalsByStep
  <2>2. req.target_kind \in TargetKinds \cup {NoHint}
    BY <1>1, PresentRequest DEF Steps
  <2> QED
    BY <2>1, <2>2, DecideTargetKind DEF TargetKinds, ErrorCodes, Ok
<1>3. target_path_for_inspection(name, req.target_path)'
         = target_path_for_inspection(name, req.target_path)
  BY <1>1 DEF target_path_for_inspection
<1>4. pc' \in Changing => /\ state = "directory" => kind' = "Dir"
                          /\ state = "file" => kind' = "File"
                          /\ state = "notFound" => kind' = req.target_kind
                          /\ state # "unreadable"
  BY <1>1, <1>2, KindFitsTarget
<1> HIDE DEF k
<1>5. state' = state /\ req' = req
  BY <1>1, <1>3
<1> QED
  BY <1>1, <1>2, <1>4, <1>5 DEF LinkByStep, TargetStates

\* What a made link promises, and what a decided kind does, in the next state.
KindPromise ==
    LET state == places[target_path_for_inspection(name, req.target_path)]
    IN  "target" \notin raced =>
              CASE state = "directory"  -> kind = "Dir"
                [] state = "file"       -> kind = "File"
                [] state = "notFound"   -> kind = req.target_kind
                [] state = "unreadable" -> FALSE

LinkPromise ==
    /\ name \in Names
    /\ "link" \notin raced => fs[At] = LinkObject(kind) /\ points[At] = req.target_path

Made == pc = "audit" \/ (pc = "finish" /\ code = Ok)

\* LinkByStep says just that, of the present state and of the next.
LEMMA Promises ==
    /\ LinkByStep <=> /\ pc \in Changing \/ Made => KindPromise
                      /\ Made => LinkPromise
    /\ LinkByStep' <=> /\ pc' \in Changing \/ Made' => KindPromise'
                       /\ Made' => LinkPromise'
BY DEF LinkByStep, KindPromise, LinkPromise, Made

\* A step of the worker on a link keeps the kind and what it was decided on.
LEMMA KindStays ==
    ASSUME KindPromise, UNCHANGED <<places, name, req, kind>>,
           "target" \in raced => "target" \in raced'
    PROVE  KindPromise'
<1>1. target_path_for_inspection(name, req.target_path)'
         = target_path_for_inspection(name, req.target_path)
  BY DEF target_path_for_inspection
<1> QED
  BY <1>1 DEF KindPromise

\* Looking at the entry and removing it leave the kind as it is.
LEMMA LookingPromise ==
    IInv /\ LinkByStep /\ (InspectAndPlan \/ Recheck \/ ReadMetadata \/ Remove) => LinkByStep'
<1> SUFFICES ASSUME IInv, LinkByStep, InspectAndPlan \/ Recheck \/ ReadMetadata \/ Remove
             PROVE  LinkByStep'
  OBVIOUS
<1>1. /\ pc \in Changing /\ UNCHANGED <<places, name, req, kind>>
      /\ "target" \in raced => "target" \in raced'
  BY DEF InspectAndPlan, Recheck, ReadMetadata, Remove, world, locals, Changing
<1>2. fs[At] \in Objects
  BY <1>1, NameLeads DEF IInv, TypeOK, WorldOK, LocalsByStep, Changing
<1>3. req.replace_existing_symlink \in BOOLEAN
  BY <1>1, PresentRequest DEF Changing, Steps
<1>4. \A r \in BOOLEAN : plan_replacement(inspect_link_path_state(fs[At]), r)
                            \in ReplacementPlans \cup ErrorCodes
  BY <1>2, PlanReplacement DEF ErrorCodes
<1>5. pc' # "audit" /\ (pc' = "finish" => code' # Ok)
  <2>1. CASE InspectAndPlan
    BY <1>3, <1>4, <2>1 DEF InspectAndPlan, Fail, GoTo, Ok, ErrorCodes
  <2>2. CASE Recheck
    BY <1>4, <2>2 DEF Recheck, Fail, GoTo, Ok, ErrorCodes
  <2>3. CASE ReadMetadata \/ Remove
    BY <2>3 DEF ReadMetadata, Remove, Fail, GoTo, Ok
  <2> QED
    BY <2>1, <2>2, <2>3
<1>6. KindPromise'
  BY <1>1, KindStays, Promises
<1>7. ~Made'
  BY <1>5 DEF Made
<1> QED
  BY <1>6, <1>7, Promises

\* The link is made of that kind, with the content the client wrote.
LEMMA CreatePromise == IInv /\ LinkByStep /\ Create => LinkByStep'
<1> SUFFICES ASSUME IInv, LinkByStep, Create PROVE LinkByStep'
  OBVIOUS
<1>1. /\ pc \in Changing /\ UNCHANGED <<layout, places, name, req, kind>>
      /\ "target" \in raced => "target" \in raced'
  BY DEF Create, locals, Changing
<1>2. KindPromise'
  BY <1>1, KindStays, Promises
<1>3. Made' => /\ fs' = [fs EXCEPT ![At] = LinkObject(kind)]
               /\ points' = [points EXCEPT ![At] = req.target_path]
  BY DEF Create, Made, Fail, GoTo, create_failure, Ok
<1>4. name \in Names /\ At \in Locations
  BY <1>1, NameLeads DEF IInv, LocalsByStep, Changing
<1>5. At' = At
  BY <1>1 DEF At
<1>6. Made' => LinkPromise'
  BY <1>1, <1>3, <1>4, <1>5 DEF IInv, TypeOK, WorldOK, LinkPromise
<1> QED
  BY <1>2, <1>6, Promises

\* Recording the link leaves it as it is.
LEMMA WriteAuditPromise == IInv /\ LinkByStep /\ WriteAudit => LinkByStep'
<1> SUFFICES ASSUME IInv, LinkByStep, WriteAudit PROVE LinkByStep'
  OBVIOUS
<1>1. Made /\ UNCHANGED <<layout, fs, points, places, name, req, kind, raced>>
  BY DEF WriteAudit, Made, world, locals
<1>2. KindPromise'
  BY <1>1, KindStays, Promises
<1>3. LinkPromise'
  BY <1>1, Promises DEF LinkPromise, At
<1> QED
  BY <1>2, <1>3, Promises

\* Whoever changes the entry or the target is noticed.
LEMMA OutsidePromise == IInv /\ LinkByStep /\ OutsideStep => LinkByStep'
<1> SUFFICES ASSUME IInv, LinkByStep, OutsideStep PROVE LinkByStep'
  OBVIOUS
<1>1. /\ UNCHANGED <<pc, code, name, req, kind>> /\ raced \subseteq raced'
  BY DEF OutsideStep, ChangeEntry, Repoint, ChangePlace, ChangeGrant, ChangeConfig, Others,
     locals
<1>2. (Made' <=> Made) /\ (layout' = layout => At' = At)
      /\ target_path_for_inspection(name, req.target_path)'
            = target_path_for_inspection(name, req.target_path)
  BY <1>1 DEF Made, At, target_path_for_inspection
<1>3. pc \in Changing \/ Made => name \in Names /\ name # NoName
  BY PathsAreFunctions, Promises DEF IInv, LocalsByStep, LinkPromise
<1>4. pc \in Changing \/ Made => KindPromise'
  <2> SUFFICES ASSUME pc \in Changing \/ Made PROVE KindPromise'
    OBVIOUS
  <2>1. CASE UNCHANGED places
    BY <1>1, <2>1, KindStays, Promises
  <2>2. CASE \E p \in Places, s \in TargetStates : ChangePlace(p, s)
    <3>1. PICK p \in Places, s \in TargetStates : ChangePlace(p, s)
      BY <2>2
    <3>2. CASE p = target_path_for_inspection(name, req.target_path)
      BY <1>3, <3>1, <3>2 DEF ChangePlace, KindPromise
    <3>3. CASE p # target_path_for_inspection(name, req.target_path)
      <4>1. places'[target_path_for_inspection(name, req.target_path)]
               = places[target_path_for_inspection(name, req.target_path)]
        BY <3>1, <3>3 DEF ChangePlace, IInv, TypeOK, WorldOK
      <4> QED
        BY <1>1, <1>2, <4>1, Promises DEF KindPromise
    <3> QED
      BY <3>2, <3>3
  <2> QED
    BY <2>1, <2>2 DEF OutsideStep, ChangeEntry, Repoint, ChangeGrant, ChangeConfig
<1>5. Made => LinkPromise'
  <2> SUFFICES ASSUME Made PROVE LinkPromise'
    OBVIOUS
  <2>0. LinkPromise
    BY Promises
  <2>1. CASE UNCHANGED <<layout, fs, points>>
    BY <1>1, <1>2, <2>0, <2>1 DEF LinkPromise
  <2>2. CASE \E l \in Locations, o \in Objects : ChangeEntry(l, o)
    <3>1. PICK l \in Locations, o \in Objects : ChangeEntry(l, o)
      BY <2>2
    <3>2. CASE l = At
      BY <1>1, <1>3, <3>1, <3>2 DEF ChangeEntry, LinkPromise
    <3>3. CASE l # At
      <4>1. fs'[At] = fs[At] /\ points'[At] = points[At] /\ layout' = layout
        BY <3>1, <3>3 DEF ChangeEntry, IInv, TypeOK, WorldOK
      <4> QED
        BY <1>1, <1>2, <2>0, <4>1 DEF LinkPromise
    <3> QED
      BY <3>2, <3>3
  <2>3. CASE \E L \in Layouts : Repoint(L)
    <3>1. PICK L \in Layouts : Repoint(L)
      BY <2>3
    <3>2. CASE L.leads[name] = At
      <4>1. UNCHANGED <<fs, points>> /\ At' = At
        BY <1>1, <3>1, <3>2 DEF Repoint, At
      <4> QED
        BY <1>1, <2>0, <4>1 DEF LinkPromise
    <3>3. CASE L.leads[name] # At
      <4>1. name \in Names /\ name' = name /\ "link" \in raced'
        BY <1>1, <1>3, <3>1, <3>3 DEF Repoint
      <4> QED
        BY <4>1 DEF LinkPromise
    <3> QED
      BY <3>2, <3>3
  <2> QED
    BY <2>1, <2>2, <2>3 DEF OutsideStep, ChangePlace, ChangeGrant, ChangeConfig
<1> QED
  BY <1>1, <1>2, <1>4, <1>5, Promises

\* Every step keeps what is known of the link.
LEMMA NextLinkByStep == IInv /\ LinkByStep /\ [Next]_vars => LinkByStep'
<1> SUFFICES ASSUME IInv, LinkByStep, [Next]_vars PROVE LinkByStep'
  OBVIOUS
<1>1. CASE \/ \E r \in Requests : Receive(r)
           \/ Finish \/ Crash \/ Restart
  <2>1. pc' \notin Changing /\ pc' \notin {"audit", "finish"}
    BY <1>1 DEF Receive, Finish, Crash, Restart, Changing
  <2> QED
    BY <2>1, Promises DEF Made, Changing
<1>2. CASE WorkerStep /\ ~Finish
  BY <1>2, ChecksPromiseNothing, DecideKindPromise, LookingPromise, CreatePromise,
     WriteAuditPromise DEF WorkerStep
<1>3. CASE OutsideStep
  BY <1>3, OutsidePromise
<1>4. CASE UNCHANGED vars
  BY <1>4 DEF vars, LinkByStep, At, target_path_for_inspection
<1> QED
  BY <1>1, <1>2, <1>3, <1>4 DEF Next, WorkerStep

\* Before the first request there is no link to speak of.
LEMMA InitLinkByStep == Init => LinkByStep
BY Promises DEF Init, Made, Changing

\* The link a request leaves behind is known at each of its steps.
THEOREM RequestInvariance == Spec => []RequestInv
<1>1. Init => RequestInv
  BY InitIInv, InitLinkByStep DEF RequestInv
<1>2. RequestInv /\ [Next]_vars => RequestInv'
  BY NextIInv, NextLinkByStep DEF RequestInv
<1> QED
  BY <1>1, <1>2, PTL DEF Spec

\* Until others interfere, the link is there, with the content the client
\* wrote and of the kind its target asks for.
THEOREM LinkIsAsAsked == Spec => []LinkAsAsked
<1>1. RequestInv => LinkAsAsked
  BY DEF RequestInv, LinkByStep, LinkAsAsked
<1> QED
  BY <1>1, RequestInvariance, PTL

-----------------------------------------------------------------------------
(* The promise of LinkService *)

\* The abstract state of a request, one value per request.
stages == [n \in RequestNumbers |-> StageOf(n)]
effects == [n \in RequestNumbers |-> EffectOf(n)]
replies == [n \in RequestNumbers |-> IF answers[n] = "lost" THEN NoCode ELSE answers[n]]

\* A step that does, answers and records nothing is none of the service's.
LEMMA Stutters ==
    ASSUME UNCHANGED <<fs, audit, served, done, answers, outside>>
    PROVE  UNCHANGED Promise!vars
BY DEF Promise!vars, StageOf, EffectOf

\* The first state: nothing has been asked for.
LEMMA InitPromise == Init => Promise!Init
<1> SUFFICES ASSUME Init PROVE Promise!Init
  OBVIOUS
<1>1. fs \in [Locations -> Objects] /\ outside = 0
  BY DEF Init
<1>2. \A n \in RequestNumbers : StageOf(n) = "waiting" /\ EffectOf(n) = "none"
                                /\ answers[n] = "NoCode"
  BY Bounds DEF Init, StageOf, EffectOf, RequestNumbers, NoCode
<1> QED
  BY <1>1, <1>2 DEF Promise!Init, Promise!Numbers, Promise!Objects, Objects,
     RequestNumbers, NoCode

\* A request that is taken is opened.
LEMMA ReceiveOpens ==
    ASSUME IInv, NEW r \in Requests, Receive(r)
    PROVE  Promise!Open(served')
<1>1. /\ served' = served + 1 /\ served' \in RequestNumbers
      /\ UNCHANGED <<fs, audit, done, answers, outside>>
  BY Bounds DEF Receive, world, IInv, TypeOK, HistoryOK, RequestNumbers
<1>2. answers[served'] = NoCode
  BY <1>1 DEF IInv, TypeOK, HistoryOK, History, RequestNumbers
<1>3. stages[served'] = "waiting"
  BY <1>1 DEF stages, StageOf, IInv, TypeOK, HistoryOK, RequestNumbers
<1>4. stages' = [stages EXCEPT ![served'] = "open"]
  <2>1. \A n \in RequestNumbers : StageOf(n)' = IF n = served' THEN "open" ELSE StageOf(n)
    BY <1>1, <1>2, Bounds DEF StageOf, IInv, TypeOK, HistoryOK, RequestNumbers
  <2> QED
    BY <1>1, <2>1 DEF stages
<1>5. UNCHANGED <<effects, replies>>
  BY <1>1 DEF effects, replies, EffectOf
<1> QED
  BY <1>1, <1>3, <1>4, <1>5 DEF Promise!Open, stages, effects, replies

\* While a request is served it is open, and the steps of other requests do
\* not show.
LEMMA PresentIsOpen ==
    ASSUME IInv, pc \in Steps
    PROVE  /\ served \in RequestNumbers /\ served \in Promise!Numbers
           /\ stages[served] = "open"
BY DEF IInv, TypeOK, HistoryOK, EffectsByStep, stages, StageOf, RequestNumbers,
   Promise!Numbers

\* The old link is removed at most once, and only where something is.
LEMMA RemovePromised == IInv /\ Remove => [Promise!Next]_(Promise!vars)
<1> SUFFICES ASSUME IInv, Remove PROVE [Promise!Next]_(Promise!vars)
  OBVIOUS
<1>1. /\ pc = "remove" /\ pc \in Steps /\ At \in Locations
      /\ UNCHANGED <<audit, served, answers, outside>>
  BY NameLeads DEF Remove, IInv, LocalsByStep, Steps, Changing
<1>2. CASE UNCHANGED <<fs, done>>
  BY <1>1, <1>2, Stutters
<1>3. CASE /\ fs[At] # "nothing" /\ fs' = [fs EXCEPT ![At] = "nothing"]
           /\ done' = [done EXCEPT ![served] = @ \cup {"removed"}]
  <2>1. done[served] = {} /\ served \in RequestNumbers
    BY <1>1 DEF IInv, EffectsByStep
  <2>2. effects[served] = "none"
    BY <2>1 DEF effects, EffectOf
  <2>3. effects' = [effects EXCEPT ![served] = "removed"]
    <3>1. \A n \in RequestNumbers : EffectOf(n)' = IF n = served THEN "removed" ELSE EffectOf(n)
      BY <1>1, <1>3, <2>1 DEF EffectOf, IInv, TypeOK, HistoryOK
    <3> QED
      BY <2>1, <3>1 DEF effects
  <2>4. UNCHANGED <<stages, replies>>
    BY <1>1 DEF stages, replies, StageOf
  <2>5. Promise!RemoveOld(served, At)
    BY <1>1, <1>3, <2>2, <2>3, <2>4, PresentIsOpen
       DEF Promise!RemoveOld, stages, effects, replies
  <2> QED
    BY <1>1, <2>5, PresentIsOpen DEF Promise!Next
<1> QED
  BY <1>2, <1>3 DEF Remove, Removable

\* A link is made at most once, and only where nothing is.
LEMMA CreatePromised == IInv /\ Create => [Promise!Next]_(Promise!vars)
<1> SUFFICES ASSUME IInv, Create PROVE [Promise!Next]_(Promise!vars)
  OBVIOUS
<1>1. /\ pc = "create" /\ pc \in Steps /\ At \in Locations
      /\ UNCHANGED <<audit, served, answers, outside>>
  BY NameLeads DEF Create, IInv, LocalsByStep, Steps, Changing
<1>2. CASE UNCHANGED <<fs, done>>
  BY <1>1, <1>2, Stutters
<1>3. CASE /\ fs[At] = "nothing" /\ fs' = [fs EXCEPT ![At] = LinkObject(kind)]
           /\ done' = [done EXCEPT ![served] = @ \cup {"linked"}]
  <2>1. /\ done[served] \in {{}, {"removed"}} /\ served \in RequestNumbers
        /\ ~ \E e \in audit : e.request = served
    BY <1>1 DEF IInv, EffectsByStep, Recorded
  <2>2. effects[served] \in {"none", "removed"}
    BY <2>1 DEF effects, EffectOf
  <2>3. effects' = [effects EXCEPT ![served] = "linked"]
    <3>1. \A n \in RequestNumbers : EffectOf(n)' = IF n = served THEN "linked" ELSE EffectOf(n)
      BY <1>1, <1>3, <2>1 DEF EffectOf, IInv, TypeOK, HistoryOK
    <3> QED
      BY <2>1, <3>1 DEF effects
  <2>4. UNCHANGED <<stages, replies>>
    BY <1>1 DEF stages, replies, StageOf
  <2>5. LinkObject(kind) \in Promise!TrueSymlinks
    BY DEF LinkObject, Promise!TrueSymlinks
  <2>6. Promise!MakeLink(served, At)
    BY <1>1, <1>3, <2>2, <2>3, <2>4, <2>5, PresentIsOpen
       DEF Promise!MakeLink, stages, effects, replies
  <2> QED
    BY <1>1, <2>6, PresentIsOpen DEF Promise!Next
<1> QED
  BY <1>2, <1>3 DEF Create

\* What is recorded is a link that was made.
LEMMA WriteAuditPromised == IInv /\ WriteAudit => [Promise!Next]_(Promise!vars)
<1> SUFFICES ASSUME IInv, WriteAudit PROVE [Promise!Next]_(Promise!vars)
  OBVIOUS
<1>1. pc = "audit" /\ pc \in Steps /\ UNCHANGED <<fs, done, served, answers, outside>>
  BY DEF WriteAudit, Steps, ghosts, world
<1>2. CASE UNCHANGED audit
  BY <1>1, <1>2, Stutters
<1>3. CASE audit' = audit \cup {Entry(name)}
  <2>1. /\ "linked" \in done[served] /\ served \in RequestNumbers
        /\ ~ \E e \in audit : e.request = served
    BY <1>1 DEF IInv, EffectsByStep, Recorded, Steps
  <2>2. effects[served] = "linked"
    BY <2>1 DEF effects, EffectOf
  <2>3. effects' = [effects EXCEPT ![served] = "recorded"]
    <3>1. Entry(name).request = served
      BY DEF Entry
    <3>2. \A n \in RequestNumbers :
             EffectOf(n)' = IF n = served THEN "recorded" ELSE EffectOf(n)
      BY <1>1, <1>3, <2>1, <3>1 DEF EffectOf
    <3> QED
      BY <2>1, <3>2 DEF effects
  <2>4. UNCHANGED <<stages, replies>>
    BY <1>1 DEF stages, replies, StageOf
  <2>5. Promise!Record(served)
    BY <1>1, <2>2, <2>3, <2>4, PresentIsOpen
       DEF Promise!Record, stages, effects, replies
  <2> QED
    BY <1>1, <2>5, PresentIsOpen DEF Promise!Next
<1> QED
  BY <1>2, <1>3 DEF WriteAudit

\* The answer is one that is true of what has been done.
LEMMA FinishPromised == IInv /\ Finish => [Promise!Next]_(Promise!vars)
<1> SUFFICES ASSUME IInv, Finish PROVE [Promise!Next]_(Promise!vars)
  OBVIOUS
<1>1. /\ pc = "finish" /\ pc \in Steps /\ UNCHANGED <<fs, audit, done, served, outside>>
      /\ answers' = [answers EXCEPT ![served] = code]
  BY DEF Finish, Steps, world
<1>2. /\ code \in ErrorCodes \cup {Ok} /\ TrueAnswer(served, code)
      /\ served \in RequestNumbers /\ answers[served] = NoCode
  BY <1>1 DEF IInv, TypeOK, WorkerOK, EffectsByStep
<1>3. code # NoCode /\ code # "lost"
  BY <1>2 DEF ErrorCodes, Ok, NoCode
<1>4. code \in Promise!AnswersFor(effects[served])
  <2>1. done[served] \in SUBSET {"removed", "linked"}
    BY <1>2 DEF IInv, TypeOK, HistoryOK
  <2>2. CASE code = Ok
    BY <1>2, <2>2 DEF TrueAnswer, Recorded, effects, EffectOf, Promise!AnswersFor, Ok
  <2>3. CASE code = "ReplacementPartiallyCompleted"
    BY <1>2, <2>3 DEF TrueAnswer, effects, EffectOf, Promise!AnswersFor, Ok
  <2>4. CASE code = "CreateSymlinkFailed" /\ done[served] # {}
    BY <1>2, <2>4 DEF TrueAnswer, Recorded, effects, EffectOf, Promise!AnswersFor, Ok
  <2>5. CASE code \notin {Ok, "ReplacementPartiallyCompleted"} /\ done[served] = {}
    BY <1>2, <2>5 DEF effects, EffectOf, Promise!AnswersFor, Promise!ErrorCodes, ErrorCodes
  <2> QED
    BY <1>2, <2>2, <2>3, <2>4, <2>5 DEF TrueAnswer
<1>5. stages' = [stages EXCEPT ![served] = "answered"]
  <2>1. \A n \in RequestNumbers : StageOf(n)' = IF n = served THEN "answered" ELSE StageOf(n)
    BY <1>1, <1>2, <1>3 DEF StageOf, IInv, TypeOK, HistoryOK, RequestNumbers
  <2> QED
    BY <1>2, <2>1 DEF stages
<1>6. replies' = [replies EXCEPT ![served] = code]
  BY <1>1, <1>2, <1>3 DEF replies, IInv, TypeOK, HistoryOK
<1>7. UNCHANGED effects
  BY <1>1 DEF effects, EffectOf
<1>8. ASSUME NEW n \in Promise!Numbers, n = served PROVE Promise!Answer(n)
  BY <1>1, <1>4, <1>5, <1>6, <1>7, <1>8, PresentIsOpen
     DEF Promise!Answer, stages, effects, replies
<1> QED
  BY <1>1, <1>8, PresentIsOpen DEF Promise!Next

\* A request that the process dies over is lost, and nothing else is.
LEMMA CrashPromised == IInv /\ Crash => [Promise!Next]_(Promise!vars)
<1> SUFFICES ASSUME IInv, Crash PROVE [Promise!Next]_(Promise!vars)
  OBVIOUS
<1>1. UNCHANGED <<fs, audit, done, served, outside>>
  BY DEF Crash, world
<1>2. CASE pc = "idle"
  BY <1>1, <1>2, Stutters DEF Crash
<1>3. CASE pc \in Steps
  <2>1. /\ answers' = [answers EXCEPT ![served] = "lost"]
        /\ served \in RequestNumbers /\ answers[served] = NoCode
    BY <1>3 DEF Crash, Steps, IInv, EffectsByStep
  <2>2. stages' = [stages EXCEPT ![served] = "lost"]
    <3>1. \A n \in RequestNumbers : StageOf(n)' = IF n = served THEN "lost" ELSE StageOf(n)
      BY <1>1, <2>1 DEF StageOf, IInv, TypeOK, HistoryOK, RequestNumbers, NoCode
    <3> QED
      BY <2>1, <3>1 DEF stages
  <2>3. UNCHANGED replies
    BY <2>1 DEF replies, IInv, TypeOK, HistoryOK, NoCode
  <2>4. UNCHANGED effects
    BY <1>1 DEF effects, EffectOf
  <2>5. Promise!Lose(served)
    BY <1>1, <1>3, <2>2, <2>3, <2>4, PresentIsOpen
       DEF Promise!Lose, stages, effects, replies
  <2> QED
    BY <1>3, <2>5, PresentIsOpen DEF Promise!Next
<1> QED
  BY <1>2, <1>3 DEF Crash

\* Everybody else acts on the entries or on something else.
LEMMA OutsidePromised == IInv /\ OutsideStep => [Promise!Next]_(Promise!vars)
<1> SUFFICES ASSUME IInv, OutsideStep PROVE [Promise!Next]_(Promise!vars)
  OBVIOUS
<1>1. /\ outside' = outside + 1 /\ UNCHANGED <<audit, served, done, answers>>
      /\ \/ \E l \in Locations, o \in Promise!Objects : fs' = [fs EXCEPT ![l] = o]
         \/ UNCHANGED fs
  BY DEF OutsideStep, ChangeEntry, Repoint, ChangePlace, ChangeGrant, ChangeConfig, Others,
     Objects, Promise!Objects
<1>2. UNCHANGED <<stages, effects, replies>>
  BY <1>1 DEF stages, effects, replies, StageOf, EffectOf
<1>3. Promise!ActElsewhere
  BY <1>1, <1>2 DEF Promise!ActElsewhere, stages, effects, replies
<1> QED
  BY <1>3 DEF Promise!Next

\* The worker implements LinkService: each of its steps is one of the service
\* or changes nothing that the service is about.
THEOREM KeepsItsPromise == Spec => ImplementsLinkService
<1>1. IInv /\ [Next]_vars => [Promise!Next]_(Promise!vars)
  <2> SUFFICES ASSUME IInv, [Next]_vars PROVE [Promise!Next]_(Promise!vars)
    OBVIOUS
  <2>1. CASE \E r \in Requests : Receive(r)
    <3>1. PICK r \in Requests : Receive(r)
      BY <2>1
    <3>2. served' \in Promise!Numbers
      BY <3>1, Bounds DEF Receive, IInv, TypeOK, HistoryOK, Promise!Numbers
    <3> QED
      BY <3>1, <3>2, ReceiveOpens DEF Promise!Next
  <2>2. CASE \/ ValidateSchema \/ Impersonate \/ IdentifyClient \/ NormalizePaths
             \/ CheckPolicy \/ VerifyParentAccess \/ Revert \/ DecideKind
             \/ InspectAndPlan \/ Recheck \/ ReadMetadata \/ Restart \/ UNCHANGED vars
    <3>1. UNCHANGED <<fs, audit, served, done, answers, outside>>
      BY <2>2 DEF ValidateSchema, Impersonate, IdentifyClient, NormalizePaths,
         CheckPolicy, VerifyParentAccess, Revert, DecideKind, InspectAndPlan, Recheck,
         ReadMetadata, Restart, vars, world, ghosts
    <3> QED
      BY <3>1, Stutters
  <2>3. CASE Remove \/ Create \/ WriteAudit \/ Finish \/ Crash \/ OutsideStep
    BY <2>3, RemovePromised, CreatePromised, WriteAuditPromised, FinishPromised,
       CrashPromised, OutsidePromised
  <2> QED
    BY <2>1, <2>2, <2>3 DEF Next, WorkerStep
<1> QED
  BY <1>1, InitPromise, Invariance, PTL DEF Spec, ImplementsLinkService, Promise!Spec

=============================================================================
