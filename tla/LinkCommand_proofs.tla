------------------------- MODULE LinkCommand_proofs -------------------------
(***************************************************************************)
(* CommandInv is an invariant of LinkCommand for any number of commands,   *)
(* command lines and views of the targets; with it the answers, the kinds  *)
(* of the links and the safety of every step on an entry.                  *)
(***************************************************************************)
EXTENDS LinkCommandInvariant, SymlinkOps_proofs, FiniteSetTheorems

-----------------------------------------------------------------------------
(* What the paths lead to *)

\* A path leads to one of the states that fs::metadata tells apart, and what
\* is there is an object.
LEMMA PathsLead ==
    ASSUME TypeOK
    PROVE  /\ Lookup \in TargetStates
           /\ \A p \in Paths : At(p) \in Objects
           /\ \A b \in Bases : Seen(b) \in TargetStates
           /\ \A a \in ArgumentRecords, p \in Paths : BaseOfLink(a, p) \in Bases
<1>1. entry["named"] \in Objects /\ behind \in TargetStates
  BY DEF TypeOK, Paths
<1>2. Lookup \in TargetStates
  BY <1>1 DEF Lookup, Objects, IsSymlink, TrueSymlinks, TargetStates
<1>3. \A p \in Paths : At(p) \in Objects
  BY DEF TypeOK, At, Objects
<1>4. \A b \in Bases : Seen(b) \in TargetStates
  BY DEF TypeOK, Seen, TargetStates
<1> QED
  BY <1>2, <1>3, <1>4 DEF BaseOfLink, Bases

\* The command lines are what the parser makes of them.
LEMMA ArgumentsAreTyped ==
    ASSUME TypeOK, NEW c \in Commands
    PROVE  /\ arg[c] \in ArgumentRecords
           /\ arg[c].win_kind \in TargetKinds \cup {NoHint} /\ arg[c].force \in BOOLEAN
           /\ request_from_options(arg[c]).target_kind = arg[c].win_kind
           /\ request_from_options(arg[c]).replace_existing_symlink = arg[c].force
BY InputsAreTyped DEF TypeOK, ArgumentRecords, request_from_options

\* What a change of the entries leaves as it is: the targets of everything but
\* LINK as a directory, and all the rest unless LINK itself has changed.
WorldKept ==
    /\ entry' \in [Paths -> Objects] /\ behind' \in TargetStates
    /\ target' \in [Bases -> TargetStates]
    /\ \A b \in Bases \ {"container"} : target'[b] = target[b]
    /\ \/ seenLink' = {}
       \/ seenLink' = seenLink /\ target' = target /\ Lookup' = Lookup

\* A write to one entry leaves the rest as WorldKept says.
LEMMA PutKeeps ==
    ASSUME TypeOK, NEW p \in Paths, NEW o \in Objects, NEW s \in TargetStates, Put(p, o, s)
    PROVE  WorldKept
<1>1. CASE p = "inside"
  <2>1. entry' \in [Paths -> Objects] /\ entry'["named"] = entry["named"] /\ behind' = behind
        /\ target' = target /\ seenLink' = seenLink
    BY <1>1 DEF Put, TypeOK, Paths
  <2>2. Lookup' = Lookup
    BY <2>1 DEF Lookup
  <2> QED
    BY <2>1, <2>2 DEF WorldKept, TypeOK
<1>2. CASE p # "inside"
  <2>1. PICK f \in Initially : entry' = [entry EXCEPT ![p] = o, !["inside"] = f["inside"]]
    BY <1>2 DEF Put
  <2>2. entry' \in [Paths -> Objects]
    BY <2>1, InputsAreTyped DEF TypeOK, Paths
  <2>3. behind' \in TargetStates
    BY <1>2 DEF Put, LeadsTo, TargetStates
  <2>4. target' \in [Bases -> TargetStates] /\ seenLink' = {}
        /\ \A b \in Bases \ {"container"} : target'[b] = target[b]
    BY <1>2, InputsAreTyped DEF Put
  <2> QED
    BY <2>2, <2>3, <2>4 DEF WorldKept
<1> QED
  BY <1>1, <1>2

\* A step that leaves the world alone keeps it.
LEMMA WorldUntouched ==
    ASSUME TypeOK, UNCHANGED <<world, seenLink>>
    PROVE  WorldKept
BY DEF TypeOK, WorldKept, Lookup, world

\* Sets of at most one element.
LEMMA AtMostOne ==
    ASSUME NEW S, \A x, y \in S : x = y
    PROVE  IsFiniteSet(S) /\ Cardinality(S) <= 1
<1>1. CASE S = {}
  BY <1>1, FS_EmptySet
<1>2. CASE S # {}
  <2>1. PICK x \in S : S = {x}
    BY <1>2
  <2>2. IsFiniteSet({x}) /\ Cardinality({x}) = 1
    BY FS_Singleton
  <2> QED
    BY <2>1, <2>2
<1> QED
  BY <1>1, <1>2

-----------------------------------------------------------------------------
(* The initial states *)

\* No command has begun.
LEMMA InitCommandInv == Init => CommandInv
<1> SUFFICES ASSUME Init PROVE CommandInv
  OBVIOUS
<1>1. TypeOK
  BY InputsAreTyped DEF Init, TypeOK, Steps, Stages, Objects
<1>2. OneWay /\ TrueCodes
  BY InputsAreTyped DEF Init, OneWay, TrueCodes, TrueOf, ErrorCodes, NoCode, Ok
<1>3. KindByMaker /\ LookedAt /\ PlanByStage
  BY InputsAreTyped DEF Init, KindByMaker, LookedAt, PlanByStage, NoPath
<1> QED
  BY <1>1, <1>2, <1>3 DEF CommandInv

-----------------------------------------------------------------------------
(* The steps of a command *)

\* What is known of the kinds and of LINK is kept by every step that decides
\* on a kind, or makes a link, only in accordance with the target.
LEMMA KindsKept ==
    ASSUME CommandInv, WorldKept, UNCHANGED <<arg, link_path, outside>>,
           \A c \in Commands : pc'[c] = "create" =>
              \/ pc[c] = "create" /\ kind'[c] = kind[c]
              \/ ~arg[c].relative => Suits(arg[c], target["absolute"], kind'[c]),
           outside = 0 => \A c \in Commands : \A m \in made'[c] :
              \/ m \in made[c]
              \/ /\ m.by = "broker" \/ ~arg[c].relative
                 /\ link_path[c] = "named" \/ c \in seenLink
                 => Suits(arg[c], Seen(BaseOfLink(arg[c], link_path[c])), m.kind),
           outside = 0 => \A c \in Commands : c = served' =>
              \/ c = served /\ decided' = decided
              \/ Suits(arg[c], Seen(BaseOfLink(arg[c], link_path[c])), decided'),
           \A c \in Commands : pc'[c] = "parse" => pc[c] = "parse"
    PROVE  KindByMaker' /\ LookedAt'
<1>1. KindByMaker'
  <2> SUFFICES ASSUME outside = 0, NEW c \in Commands
               PROVE  /\ \A m \in made'[c] :
                            /\ m.by = "broker" \/ ~arg'[c].relative
                            /\ link_path'[c] = "named" \/ c \in seenLink'
                            => Suits(arg[c], Seen(BaseOfLink(arg[c], link_path[c])), m.kind)'
                      /\ pc'[c] = "create" /\ ~arg'[c].relative =>
                            Suits(arg[c], target["absolute"], kind[c])'
                      /\ c = served' /\ (link_path'[c] = "named" \/ c \in seenLink') =>
                            Suits(arg[c], Seen(BaseOfLink(arg[c], link_path[c])), decided)'
    BY DEF KindByMaker
  <2>1. arg[c] \in ArgumentRecords /\ TypeOK /\ KindByMaker
    BY ArgumentsAreTyped DEF CommandInv
  <2>2. ASSUME link_path[c] = "named" \/ c \in seenLink'
        PROVE  /\ Seen(BaseOfLink(arg[c], link_path[c]))' = Seen(BaseOfLink(arg[c], link_path[c]))
               /\ link_path[c] = "named" \/ c \in seenLink
    BY <2>1, <2>2 DEF WorldKept, Seen, BaseOfLink, Bases
  <2>3. ASSUME NEW m \in made'[c], m.by = "broker" \/ ~arg[c].relative,
               link_path[c] = "named" \/ c \in seenLink'
        PROVE  Suits(arg[c], Seen(BaseOfLink(arg[c], link_path[c])), m.kind)'
    <3>1. Suits(arg[c], Seen(BaseOfLink(arg[c], link_path[c])), m.kind)
      BY <2>1, <2>2, <2>3 DEF KindByMaker
    <3> QED
      BY <3>1, <2>2, <2>3 DEF Suits
  <2>4. ASSUME pc'[c] = "create", ~arg[c].relative
        PROVE  Suits(arg[c], target["absolute"], kind[c])'
    <3>1. target'["absolute"] = target["absolute"]
      BY DEF WorldKept, Bases
    <3> QED
      BY <3>1, <2>1, <2>4 DEF KindByMaker, Suits
  <2>5. ASSUME c = served', link_path[c] = "named" \/ c \in seenLink'
        PROVE  Suits(arg[c], Seen(BaseOfLink(arg[c], link_path[c])), decided)'
    <3>1. Suits(arg[c], Seen(BaseOfLink(arg[c], link_path[c])), decided')
      BY <2>1, <2>2, <2>5 DEF KindByMaker
    <3> QED
      BY <3>1, <2>2, <2>5 DEF Suits
  <2> QED
    BY <2>3, <2>4, <2>5
<1>2. LookedAt'
  BY DEF CommandInv, LookedAt, WorldKept
<1> QED
  BY <1>1, <1>2

\* A command that goes on to step p.
LEMMA GoesOn ==
    ASSUME CommandInv, NEW c \in Commands, NEW p \in Steps \ {"parse", "await", "done"},
           pc[c] \notin {"await", "done"}, GoTo(c, p),
           UNCHANGED <<asked, reply, made, broker>>
    PROVE  OneWay' /\ TrueCodes'
<1>1. OneWay'
  BY DEF CommandInv, TypeOK, OneWay, GoTo, Steps, broker
<1>2. TrueCodes'
  BY DEF CommandInv, TypeOK, TrueCodes, TrueOf, GoTo
<1> QED
  BY <1>1, <1>2

\* A command that ends with a code that is true of it.
LEMMA EndsTruly ==
    ASSUME CommandInv, NEW c \in Commands, NEW code \in ErrorCodes \cup {Ok}, pc[c] # "done",
           Exit(c, code), TrueOf(c, code)', UNCHANGED <<reply, made, broker>>,
           asked' = asked \/ asked' = asked \ {c}
    PROVE  OneWay' /\ TrueCodes'
<1>1. OneWay'
  BY DEF CommandInv, TypeOK, OneWay, Exit, Steps, broker
<1>2. TrueCodes'
  <2> SUFFICES ASSUME NEW d \in Commands PROVE TrueOf(d, answer[d])' /\ TrueOf(d, reply[d])'
    BY DEF TrueCodes
  <2>1. TrueOf(d, reply[d])'
    BY DEF CommandInv, TrueCodes, TrueOf
  <2>2. CASE d = c
    BY <2>1, <2>2 DEF CommandInv, TypeOK, TrueOf, Exit
  <2>3. CASE d # c
    BY <2>1, <2>3 DEF CommandInv, TypeOK, TrueCodes, TrueOf, Exit
  <2> QED
    BY <2>2, <2>3
<1> QED
  BY <1>1, <1>2

\* A command that ends before it has passed its request on ends with nothing
\* made, which every code but Ok and PrivilegeRequired is true of.
LEMMA EndsEarly ==
    ASSUME CommandInv, NEW c \in Commands, NEW code \in ErrorCodes \ {"PrivilegeRequired"},
           pc[c] \in Steps \ {"await", "done"}, Exit(c, code),
           UNCHANGED <<asked, reply, made, broker>>
    PROVE  OneWay' /\ TrueCodes'
<1>1. TrueOf(c, code)'
  BY DEF CommandInv, OneWay, TrueOf, ErrorCodes, Ok
<1> QED
  BY <1>1, EndsTruly DEF Steps

\* A command that ends, or goes on, without a link made or a path changed.
LEMMA NothingMoves ==
    ASSUME CommandInv, UNCHANGED <<world, seenLink, arg, link_path, kind, made, outside>>,
           \A c \in Commands : pc'[c] \in {"create", "parse"} => pc'[c] = pc[c],
           UNCHANGED broker
    PROVE  KindByMaker' /\ LookedAt' /\ PlanByStage'
<1>1. KindByMaker' /\ LookedAt'
  BY WorldUntouched, KindsKept DEF CommandInv, broker
<1>2. PlanByStage'
  BY DEF CommandInv, PlanByStage, broker
<1> QED
  BY <1>1, <1>2

\* A command's line is parsed: LINK is as it was seen, and the path it goes to
\* is not a directory unless -T says so.
LEMMA ParseCommandInv ==
    ASSUME CommandInv, NEW c \in Commands, ParseCommand(c)
    PROVE  CommandInv'
<1>1. TypeOK /\ arg[c] \in ArgumentRecords /\ Lookup \in TargetStates
  BY ArgumentsAreTyped, PathsLead DEF CommandInv
<1>2. resolve_link_path(arg[c]) \in
         Paths \cup {"PathNormalizationFailed", "CreateSymlinkFailed"}
  BY <1>1 DEF resolve_link_path, TargetStates, Paths
<1>3. \/ \E e \in {"UnsupportedMode", "PathNormalizationFailed", "CreateSymlinkFailed"} :
            Exit(c, e) /\ UNCHANGED link_path
      \/ /\ GoTo(c, "inspect") /\ resolve_link_path(arg[c]) \in Paths
         /\ link_path' = [link_path EXCEPT ![c] = resolve_link_path(arg[c])]
  BY <1>2 DEF ParseCommand, Paths
<1>4. pc[c] = "parse" /\ seenLink' = seenLink \cup {c} /\ c \notin asked
      /\ UNCHANGED <<world, arg, kind, asked, reply, made, outside, broker>>
  BY DEF ParseCommand, CommandInv, OneWay, Steps
<1>5. TypeOK'
  <2>1. CASE \E e \in {"UnsupportedMode", "PathNormalizationFailed", "CreateSymlinkFailed"} :
                Exit(c, e) /\ UNCHANGED link_path
    BY <1>1, <1>4, <2>1 DEF Exit, TypeOK, world, broker, Steps, ErrorCodes
  <2>2. CASE /\ GoTo(c, "inspect") /\ resolve_link_path(arg[c]) \in Paths
             /\ link_path' = [link_path EXCEPT ![c] = resolve_link_path(arg[c])]
    BY <1>1, <1>4, <2>2 DEF GoTo, TypeOK, world, broker, Steps
  <2> QED
    BY <1>3, <2>1, <2>2
<1>6. OneWay' /\ TrueCodes'
  <2>1. CASE \E e \in {"UnsupportedMode", "PathNormalizationFailed", "CreateSymlinkFailed"} :
                Exit(c, e) /\ UNCHANGED link_path
    BY <1>4, <2>1, EndsEarly DEF ErrorCodes, Steps
  <2>2. CASE GoTo(c, "inspect")
    BY <1>4, <2>2, GoesOn DEF Steps
  <2> QED
    BY <1>3, <2>1, <2>2
<1>7. /\ \A d \in Commands \ {c} : link_path'[d] = link_path[d]
                                   /\ (d \in seenLink' <=> d \in seenLink)
      /\ \A d \in Commands : pc'[d] \in {"create", "parse"} => d # c /\ pc'[d] = pc[d]
      /\ made[c] = {} /\ Lookup' = Lookup /\ link_path[c] = NoPath
  <2>1. \A d \in Commands : pc'[d] = IF d = c THEN pc'[c] ELSE pc[d]
    BY <1>1, <1>3 DEF Exit, GoTo, TypeOK
  <2>2. pc'[c] \in {"done", "inspect"}
    BY <1>1, <1>3 DEF Exit, GoTo, TypeOK
  <2>3. made[c] = {} /\ link_path[c] = NoPath
    BY <1>4 DEF CommandInv, OneWay, LookedAt, Steps
  <2> QED
    BY <1>1, <1>3, <1>4, <2>1, <2>2, <2>3 DEF Lookup, world, TypeOK
<1>8. KindByMaker'
  <2> SUFFICES ASSUME outside = 0, NEW d \in Commands
               PROVE  /\ \A m \in made'[d] :
                            /\ m.by = "broker" \/ ~arg'[d].relative
                            /\ link_path'[d] = "named" \/ d \in seenLink'
                            => Suits(arg[d], Seen(BaseOfLink(arg[d], link_path[d])), m.kind)'
                      /\ pc'[d] = "create" /\ ~arg'[d].relative =>
                            Suits(arg[d], target["absolute"], kind[d])'
                      /\ d = served' /\ (link_path'[d] = "named" \/ d \in seenLink') =>
                            Suits(arg[d], Seen(BaseOfLink(arg[d], link_path[d])), decided)'
    BY <1>4 DEF KindByMaker
  <2>1. CASE d = c
    <3>1. c # served'
      BY <1>1, <1>4, InputsAreTyped DEF TypeOK, broker
    <3> QED
      BY <1>4, <1>7, <2>1, <3>1
  <2>2. CASE d # c
    BY <1>4, <1>7, <2>2 DEF CommandInv, KindByMaker, Suits, Seen, BaseOfLink, world, broker
  <2> QED
    BY <2>1, <2>2
<1>9. LookedAt'
  <2> SUFFICES ASSUME NEW d \in Commands
               PROVE  /\ pc'[d] = "parse" => link_path'[d] = NoPath
                      /\ link_path'[d] = "named" /\ d \in seenLink' =>
                            arg'[d].no_target_directory \/ Lookup' # "directory"
    BY DEF LookedAt
  <2>1. CASE d # c
    BY <1>4, <1>7, <2>1 DEF CommandInv, LookedAt
  <2>2. CASE d = c
    <3>1. resolve_link_path(arg[c]) = "named" => arg[c].no_target_directory \/ Lookup # "directory"
      BY <1>1 DEF resolve_link_path
    <3>2. link_path'[c] = "named" => resolve_link_path(arg[c]) = "named"
      BY <1>1, <1>3, <1>7 DEF TypeOK, NoPath
    <3> QED
      BY <1>4, <1>7, <2>2, <3>1, <3>2
  <2> QED
    BY <2>1, <2>2
<1>10. PlanByStage'
  BY <1>4 DEF CommandInv, PlanByStage, broker
<1> QED
  BY <1>5, <1>6, <1>8, <1>9, <1>10 DEF CommandInv

\* The look at the link path, and the plan it leads to.
LEMMA InspectAndPlanInv ==
    ASSUME CommandInv, NEW c \in Commands, InspectAndPlan(c)
    PROVE  CommandInv'
<1>1. TypeOK /\ pc[c] = "inspect"
      /\ UNCHANGED <<world, arg, link_path, kind, asked, reply, made, seenLink, outside, broker>>
  BY DEF CommandInv, InspectAndPlan
<1>2. link_path[c] \in Paths /\ At(link_path[c]) \in Objects /\ arg[c].force \in BOOLEAN
  BY <1>1, PathsLead, ArgumentsAreTyped DEF TypeOK
<1>3. plan_replacement(inspect_link_path_state(At(link_path[c])),
                       request_from_options(arg[c]).replace_existing_symlink)
         \in ReplacementPlans \cup
                {"LinkAlreadyExists", "LinkPathIsNotSymlink", "UnsafeReparsePoint"}
  BY <1>2, PlanReplacement DEF request_from_options
<1>4. \/ GoTo(c, "kind") \/ GoTo(c, "submit")
      \/ \E e \in {"LinkAlreadyExists", "LinkPathIsNotSymlink", "UnsafeReparsePoint",
                   "CreateSymlinkFailed"} : Exit(c, e)
  BY <1>3 DEF InspectAndPlan, ReplacementPlans
<1>5. TypeOK'
  BY <1>1, <1>2, <1>4 DEF TypeOK, GoTo, Exit, world, broker, Steps, ErrorCodes
<1>6. OneWay' /\ TrueCodes'
  BY <1>1, <1>4, GoesOn, EndsEarly DEF Steps, ErrorCodes
<1>7. \A d \in Commands : pc'[d] \in {"create", "parse"} => pc'[d] = pc[d]
  BY <1>1, <1>4 DEF TypeOK, GoTo, Exit
<1> QED
  BY <1>1, <1>5, <1>6, <1>7, NothingMoves DEF CommandInv

\* The decision on the kind of a direct creation suits the target that was read.
LEMMA DecideKindInv ==
    ASSUME CommandInv, NEW c \in Commands, DecideKind(c)
    PROVE  CommandInv'
<1> DEFINE seen == Seen(IF arg[c].relative THEN "cwd" ELSE "absolute")
           k == decide_target_kind(seen, arg[c].win_kind)
<1>1. TypeOK /\ pc[c] = "kind" /\ link_path[c] \in Paths
      /\ UNCHANGED <<world, arg, link_path, asked, reply, made, seenLink, outside, broker>>
  BY DEF CommandInv, DecideKind, TypeOK
<1>2. seen \in TargetStates /\ arg[c].win_kind \in TargetKinds \cup {NoHint}
      /\ request_from_options(arg[c]).target_kind = arg[c].win_kind
  BY <1>1, PathsLead, ArgumentsAreTyped DEF Bases
<1>3. k \in TargetKinds \cup {"TargetKindConflict", "TargetKindRequired", "CreateSymlinkFailed"}
  BY <1>2, DecideTargetKind
<1>4. k \in TargetKinds => Suits(arg[c], seen, k)
  BY <1>2, KindFitsTarget DEF Suits
<1>5. \/ k \in TargetKinds /\ GoTo(c, "create") /\ kind' = [kind EXCEPT ![c] = k]
      \/ /\ k \in {"TargetKindConflict", "TargetKindRequired", "CreateSymlinkFailed"}
         /\ Exit(c, k) /\ UNCHANGED kind
  BY <1>2, <1>3 DEF DecideKind
<1> HIDE DEF k
<1>6. TypeOK'
  BY <1>1, <1>5 DEF TypeOK, GoTo, Exit, world, broker, Steps, ErrorCodes
<1>7. OneWay' /\ TrueCodes'
  BY <1>1, <1>5, GoesOn, EndsEarly DEF Steps, ErrorCodes
<1>8. \A d \in Commands : pc'[d] = "create" =>
         \/ pc[d] = "create" /\ kind'[d] = kind[d]
         \/ ~arg[d].relative => Suits(arg[d], target["absolute"], kind'[d])
  <2>1. ~arg[c].relative => seen = target["absolute"]
    BY DEF Seen
  <2> QED
    BY <1>1, <1>4, <1>5, <2>1 DEF TypeOK, GoTo, Exit
<1>9. \A d \in Commands : pc'[d] = "parse" => pc[d] = "parse"
  BY <1>1, <1>5 DEF TypeOK, GoTo, Exit
<1>10. KindByMaker' /\ LookedAt'
  BY <1>1, <1>8, <1>9, WorldUntouched, KindsKept DEF broker
<1>11. PlanByStage'
  BY <1>1 DEF CommandInv, PlanByStage, broker
<1> QED
  BY <1>6, <1>7, <1>10, <1>11 DEF CommandInv

\* A link of a suitable kind, made for a command that had none made yet.
LEMMA LinkMade ==
    ASSUME CommandInv, NEW c \in Commands, NEW k \in TargetKinds, NEW maker \in Makers,
           link_path[c] \in Paths, made[c] = {}, MakeLink(c, k, maker),
           UNCHANGED <<arg, link_path, kind, outside, served, decided>>,
           \A d \in Commands : pc'[d] \in {"create", "parse"} => pc'[d] = pc[d],
           outside = 0 /\ (link_path[c] = "named" \/ c \in seenLink) =>
                       \/ maker = "direct" /\ arg[c].relative
                       \/ Suits(arg[c], Seen(BaseOfLink(arg[c], link_path[c])), k)
    PROVE  /\ WorldKept /\ KindByMaker' /\ LookedAt'
           /\ made' \in [Commands -> SUBSET [by : Makers, kind : TargetKinds]]
           /\ \A d \in Commands : made'[d] = IF d = c THEN {[by |-> maker, kind |-> k]} ELSE made[d]
<1>1. TypeOK /\ arg[c] \in ArgumentRecords
  BY ArgumentsAreTyped DEF CommandInv
<1>2. WorldKept
  <2>1. LinkObject(k) \in Objects
    BY DEF LinkObject, Objects
  <2>2. Seen(BaseOfLink(arg[c], link_path[c])) \in TargetStates
    BY <1>1, PathsLead
  <2>3. Put(link_path[c], LinkObject(k), Seen(BaseOfLink(arg[c], link_path[c])))
    BY DEF MakeLink
  <2> QED
    BY <1>1, <2>1, <2>2, <2>3, PutKeeps
<1>3. made' = [made EXCEPT ![c] = made[c] \cup {[by |-> maker, kind |-> k]}]
  BY DEF MakeLink
<1>4. \A d \in Commands : made'[d] = IF d = c THEN {[by |-> maker, kind |-> k]} ELSE made[d]
  BY <1>1, <1>3 DEF TypeOK
<1>5. made' \in [Commands -> SUBSET [by : Makers, kind : TargetKinds]]
  <2>1. [by |-> maker, kind |-> k] \in [by : Makers, kind : TargetKinds]
    OBVIOUS
  <2> QED
    BY <1>1, <1>3, <2>1 DEF TypeOK
<1>6. outside = 0 => \A d \in Commands : \A m \in made'[d] :
         \/ m \in made[d]
         \/ /\ m.by = "broker" \/ ~arg[d].relative
            /\ link_path[d] = "named" \/ d \in seenLink
            => Suits(arg[d], Seen(BaseOfLink(arg[d], link_path[d])), m.kind)
  BY <1>4 
<1>7. KindByMaker' /\ LookedAt'
  BY <1>2, <1>6, KindsKept
<1> QED
  BY <1>2, <1>4, <1>5, <1>7

\* A direct creation ends with a link and Ok, without a link and a code, or
\* is passed on.
LEMMA CreateDirectlyInv ==
    ASSUME CommandInv, NEW c \in Commands, CreateDirectly(c)
    PROVE  CommandInv'
<1>1. TypeOK /\ pc[c] = "create" /\ link_path[c] \in Paths /\ kind[c] \in TargetKinds
      /\ UNCHANGED <<arg, link_path, kind, asked, reply, outside, broker>>
      /\ made[c] = {} /\ c \notin asked /\ reply[c] = NoCode /\ c # served
  BY InputsAreTyped DEF CommandInv, CreateDirectly, TypeOK, OneWay, Steps
<1>2. CASE MakeLink(c, kind[c], "direct") /\ Exit(c, Ok)
  <2>1. \A d \in Commands : pc'[d] = IF d = c THEN "done" ELSE pc[d]
    BY <1>1, <1>2 DEF TypeOK, Exit
  <2>2. outside = 0 => \/ arg[c].relative
                       \/ Suits(arg[c], Seen(BaseOfLink(arg[c], link_path[c])), kind[c])
    BY <1>1 DEF CommandInv, KindByMaker, BaseOfLink, Seen
  <2>3. /\ WorldKept /\ KindByMaker' /\ LookedAt'
        /\ made' \in [Commands -> SUBSET [by : Makers, kind : TargetKinds]]
        /\ \A d \in Commands :
              made'[d] = IF d = c THEN {[by |-> "direct", kind |-> kind[c]]} ELSE made[d]
    BY <1>1, <1>2, <2>1, <2>2, LinkMade DEF Makers, broker
  <2>4. TypeOK'
    BY <1>1, <1>2, <2>3 DEF TypeOK, WorldKept, Exit, Steps, broker
  <2>5. OneWay' /\ TrueCodes'
    <3>1. \A d \in Commands : answer'[d] = IF d = c THEN Ok ELSE answer[d]
      BY <1>1, <1>2 DEF TypeOK, Exit
    <3>2. OneWay'
      BY <1>1, <2>1, <2>3, <3>1 DEF CommandInv, OneWay, Steps, broker
    <3>3. TrueCodes'
      BY <1>1, <2>3, <3>1 DEF CommandInv, TrueCodes, TrueOf, ErrorCodes, Ok, NoCode
    <3> QED
      BY <3>2, <3>3
  <2>6. PlanByStage'
    BY <1>1 DEF CommandInv, PlanByStage, broker
  <2> QED
    BY <2>3, <2>4, <2>5, <2>6 DEF CommandInv
<1>3. CASE /\ \/ GoTo(c, "submit")
              \/ \E e \in {"LinkAlreadyExists", "CreateSymlinkFailed"} : Exit(c, e)
           /\ UNCHANGED <<world, made, seenLink>>
  <2>1. TypeOK'
    BY <1>1, <1>3 DEF TypeOK, GoTo, Exit, world, broker, Steps, ErrorCodes
  <2>2. OneWay' /\ TrueCodes'
    BY <1>1, <1>3, GoesOn, EndsEarly DEF Steps, ErrorCodes
  <2>3. \A d \in Commands : pc'[d] \in {"create", "parse"} => pc'[d] = pc[d]
    BY <1>1, <1>3 DEF TypeOK, GoTo, Exit
  <2> QED
    BY <1>1, <1>3, <2>1, <2>2, <2>3, NothingMoves DEF CommandInv
<1> QED
  BY <1>2, <1>3 DEF CreateDirectly

\* The request is passed on.
LEMMA SubmitInv ==
    ASSUME CommandInv, NEW c \in Commands, Submit(c)
    PROVE  CommandInv'
<1>1. TypeOK /\ pc[c] = "submit" /\ GoTo(c, "await") /\ asked' = asked \cup {c}
      /\ UNCHANGED <<world, arg, link_path, kind, reply, made, seenLink, outside, broker>>
      /\ made[c] = {} /\ reply[c] = NoCode /\ answer[c] = NoCode /\ c # served
  BY InputsAreTyped DEF CommandInv, OneWay, Submit, Steps, TypeOK
<1>2. TypeOK'
  BY <1>1 DEF TypeOK, GoTo, world, broker, Steps
<1>3. \A d \in Commands : pc'[d] = IF d = c THEN "await" ELSE pc[d]
  BY <1>1 DEF TypeOK, GoTo
<1>4. OneWay'
  BY <1>1, <1>3 DEF CommandInv, OneWay, GoTo, Steps, broker
<1>5. TrueCodes'
  BY <1>1 DEF CommandInv, TrueCodes, TrueOf, GoTo, ErrorCodes, NoCode, Ok
<1> QED
  BY <1>1, <1>2, <1>3, <1>4, <1>5, NothingMoves DEF CommandInv

\* However the wait ends: with the response, for want of a broker, or with a
\* code that leaves open whether the request is served.
LEMMA AwaitInv ==
    ASSUME CommandInv, NEW c \in Commands, Await(c)
    PROVE  CommandInv'
<1>1. TypeOK /\ pc[c] = "await"
      /\ UNCHANGED <<world, arg, link_path, kind, reply, made, seenLink, outside, broker>>
      /\ (asked' = asked \/ (asked' = asked \ {c} /\ c # served))
  <2>1. TypeOK /\ pc[c] = "await"
        /\ UNCHANGED <<world, arg, link_path, kind, reply, made, seenLink, outside, broker>>
    BY DEF CommandInv, Await, TakeReply, NotReached, GiveUp
  <2>2. TakeReply(c) \/ GiveUp(c) => asked' = asked
    BY DEF TakeReply, GiveUp
  <2>3. NotReached(c) => asked' = asked \ {c} /\ c # served
    BY DEF NotReached
  <2> QED
    BY <2>1, <2>2, <2>3 DEF Await
<1>2. PICK code \in ErrorCodes \cup {Ok} : Exit(c, code) /\ TrueOf(c, code)'
  <2>1. CASE TakeReply(c)
    <3>1. reply[c] \in ErrorCodes \cup {Ok} /\ Exit(c, reply[c]) /\ UNCHANGED <<made, asked>>
      BY <1>1, <2>1 DEF TakeReply, TypeOK
    <3>2. TrueOf(c, reply[c])
      BY DEF CommandInv, TrueCodes
    <3>3. \A code : TrueOf(c, code)' <=> TrueOf(c, code)
      BY <3>1 DEF TrueOf
    <3>4. \A code : code = reply[c] => TrueOf(c, code)'
      BY <3>2, <3>3
    <3> QED
      BY <3>1, <3>4
  <2>2. CASE NotReached(c)
    <3>1. c \in asked /\ asked' = asked \ {c} /\ made'[c] = {}
      BY <1>1, <2>2 DEF NotReached, CommandInv, OneWay
    <3>2. \A e \in {"ServiceUnavailable", "ServiceNotInstalled", "ServiceIdentityMismatch"} :
             e \in ErrorCodes /\ TrueOf(c, e)'
      BY <3>1 DEF TrueOf, ErrorCodes, Ok
    <3> QED
      BY <2>2, <3>2 DEF NotReached
  <2>3. CASE GiveUp(c)
    BY <2>3 DEF GiveUp, TrueOf, ErrorCodes, Ok
  <2> QED
    BY <2>1, <2>2, <2>3 DEF Await
<1>3. TypeOK'
  BY <1>1, <1>2 DEF TypeOK, Exit, world, broker, Steps
<1>4. OneWay' /\ TrueCodes'
  BY <1>1, <1>2, EndsTruly
<1>5. \A d \in Commands : pc'[d] \in {"create", "parse"} => pc'[d] = pc[d]
  BY <1>1, <1>2 DEF TypeOK, Exit
<1> QED
  BY <1>1, <1>3, <1>4, <1>5, NothingMoves DEF CommandInv

-----------------------------------------------------------------------------
(* The steps of the broker *)

\* An answer to the request that is served, or that waits while none is, leaves
\* everything else as it was and is true of what was made.
LEMMA ReplyInv ==
    ASSUME CommandInv, NEW c \in asked, served \in {c, Nobody},
           NEW code \in (ErrorCodes \ {"PrivilegeRequired"}) \cup {Ok}, Reply(c, code),
           code = Ok => made[c] # {},
           code \notin {Ok, "CreateSymlinkFailed"} => made[c] = {},
           UNCHANGED <<world, pc, arg, link_path, kind, answer, made, seenLink, outside>>
    PROVE  CommandInv'
<1>1. TypeOK /\ c \in Commands /\ Nobody \notin Commands
      /\ asked' = asked \ {c} /\ reply' = [reply EXCEPT ![c] = code]
      /\ served' = Nobody /\ stage' = "idle" /\ decided' = NoKind /\ plan' = NoPlan
      /\ sawLast' = "nothing"
  BY InputsAreTyped DEF CommandInv, TypeOK, Reply
<1>2. \A d \in Commands : reply'[d] = IF d = c THEN code ELSE reply[d]
  BY <1>1 DEF TypeOK
<1>3. TypeOK'
  BY <1>1 DEF TypeOK, world, Stages, Objects
<1>4. pc[c] \in {"await", "done"}
  BY <1>1 DEF CommandInv, OneWay, TypeOK
<1>5. OneWay'
  BY <1>1, <1>2, <1>4 DEF CommandInv, OneWay, Steps
<1>6. TrueCodes'
  <2> SUFFICES ASSUME NEW d \in Commands PROVE TrueOf(d, answer[d])' /\ TrueOf(d, reply[d])'
    BY DEF TrueCodes
  <2>1. CASE d # c
    BY <1>1, <1>2, <2>1 DEF CommandInv, TrueCodes, TrueOf
  <2>2. CASE d = c
    <3>1. TrueOf(c, answer[c])'
      BY <1>1 DEF CommandInv, TrueCodes, TrueOf
    <3>2. TrueOf(c, code)'
      BY <1>1 DEF TrueOf, ErrorCodes, Ok
    <3> QED
      BY <1>2, <2>2, <3>1, <3>2 DEF TrueOf
  <2> QED
    BY <2>1, <2>2
<1>7. KindByMaker' /\ LookedAt'
  <2>1. WorldKept
    BY <1>1, WorldUntouched
  <2> QED
    BY <1>1, <2>1, KindsKept
<1>8. PlanByStage'
  BY <1>1 DEF PlanByStage
<1> QED
  BY <1>3, <1>5, <1>6, <1>7, <1>8 DEF CommandInv

\* The broker goes on with a request for which nothing has been made.
LEMMA ProceedInv ==
    ASSUME CommandInv, WorldKept, NEW c \in asked, served \in {c, Nobody}, made[c] = {},
           NEW s \in {"inspect", "recheck", "remove", "create"}, Proceed(c, s),
           decided' \in TargetKinds, plan' \in ReplacementPlans \cup {NoPlan},
           sawLast' \in Objects, PlanByStage',
           outside = 0 =>
              \/ served = c /\ decided' = decided
              \/ Suits(arg[c], Seen(BaseOfLink(arg[c], link_path[c])), decided'),
           UNCHANGED <<pc, arg, link_path, kind, answer, made, outside>>
    PROVE  CommandInv'
<1>1. TypeOK /\ c \in Commands /\ Nobody \notin Commands
      /\ served' = c /\ stage' = s /\ UNCHANGED <<asked, reply>>
  BY InputsAreTyped DEF CommandInv, TypeOK, Proceed
<1>2. seenLink' \subseteq Commands
  BY <1>1 DEF WorldKept, TypeOK
<1>3. TypeOK'
  BY <1>1, <1>2 DEF TypeOK, WorldKept, Stages
<1>4. OneWay' /\ TrueCodes'
  BY <1>1 DEF CommandInv, OneWay, TrueCodes, TrueOf
<1>5. KindByMaker' /\ LookedAt'
  BY <1>1, KindsKept
<1> QED
  BY <1>3, <1>4, <1>5 DEF CommandInv

\* What is known of the request that the broker is at.
LEMMA Serving ==
    ASSUME CommandInv, stage # "idle"
    PROVE  /\ served \in asked /\ served \in Commands /\ served # Nobody
           /\ ServedPath \in Paths /\ At(ServedPath) \in Objects
           /\ arg[served].force \in BOOLEAN /\ decided \in TargetKinds
           /\ request_from_options(arg[served]).replace_existing_symlink = arg[served].force
           /\ stage # "audit" => made[served] = {}
           /\ stage = "audit" => made[served] # {}
           /\ outside = 0 /\ (ServedPath = "named" \/ served \in seenLink) =>
                 Suits(arg[served], Seen(BaseOfLink(arg[served], ServedPath)), decided)
<1>1. TypeOK /\ served \in asked /\ served \in Commands /\ served # Nobody
      /\ ServedPath \in Paths /\ decided \in TargetKinds
  BY InputsAreTyped DEF CommandInv, TypeOK, ServedPath
<1> QED
  BY <1>1, PathsLead, ArgumentsAreTyped DEF CommandInv, OneWay, KindByMaker, ServedPath

\* A request is refused without a look.
LEMMA RefuseInv ==
    ASSUME CommandInv, NEW c \in Commands, Refuse(c)
    PROVE  CommandInv'
<1>1. c \in asked /\ served = Nobody /\ made[c] = {}
      /\ UNCHANGED <<world, pc, arg, link_path, kind, answer, made, seenLink, outside>>
  BY InputsAreTyped DEF CommandInv, OneWay, Refuse
<1>2. PICK e \in Refusals : Reply(c, e)
  BY DEF Refuse
<1>3. e \in ErrorCodes \ {"PrivilegeRequired"} /\ e # Ok
  BY InputsAreTyped DEF ErrorCodes, Ok
<1> QED
  BY <1>1, <1>2, <1>3, ReplyInv

\* A request that waits is forgotten, or the one being served.
LEMMA LoseInv ==
    ASSUME CommandInv, NEW c \in Commands, Lose(c)
    PROVE  CommandInv'
<1>1. TypeOK /\ c \in asked /\ asked' = asked \ {c} /\ Nobody \notin Commands
      /\ UNCHANGED <<world, pc, arg, link_path, kind, answer, reply, made, seenLink, outside>>
      /\ \/ c = served /\ served' = Nobody /\ stage' = "idle" /\ decided' = NoKind
            /\ plan' = NoPlan /\ sawLast' = "nothing"
         \/ c # served /\ UNCHANGED broker
  BY InputsAreTyped DEF CommandInv, Lose
<1>2. TypeOK'
  BY <1>1 DEF TypeOK, world, broker, Stages, Objects
<1>3. OneWay'
  BY <1>1 DEF CommandInv, OneWay, broker
<1>4. TrueCodes'
  BY <1>1 DEF CommandInv, TrueCodes, TrueOf
<1>5. KindByMaker' /\ LookedAt'
  <2>1. WorldKept
    BY <1>1, WorldUntouched
  <2> QED
    BY <1>1, <2>1, KindsKept DEF broker
<1>6. PlanByStage'
  BY <1>1 DEF CommandInv, PlanByStage, broker
<1> QED
  BY <1>2, <1>3, <1>4, <1>5, <1>6 DEF CommandInv

\* The kind the broker decides on suits the target it reads.
LEMMA BrokerDecidesKindInv ==
    ASSUME CommandInv, NEW c \in Commands, BrokerDecidesKind(c)
    PROVE  CommandInv'
<1> DEFINE s == Seen(BaseOfLink(arg[c], link_path[c]))
           k == decide_target_kind(s, arg[c].win_kind)
<1>1. TypeOK /\ c \in asked /\ served = Nobody /\ made[c] = {} /\ link_path[c] \in Paths
      /\ UNCHANGED <<world, pc, arg, link_path, kind, answer, made, seenLink, outside>>
  BY InputsAreTyped DEF CommandInv, OneWay, BrokerDecidesKind, TypeOK
<1>2. s \in TargetStates /\ arg[c].win_kind \in TargetKinds \cup {NoHint}
      /\ request_from_options(arg[c]).target_kind = arg[c].win_kind
  BY <1>1, PathsLead, ArgumentsAreTyped
<1>3. k \in TargetKinds \cup {"TargetKindConflict", "TargetKindRequired", "CreateSymlinkFailed"}
      /\ (k \in TargetKinds => Suits(arg[c], s, k))
  BY <1>2, DecideTargetKind, KindFitsTarget DEF Suits
<1>4. \/ k \in TargetKinds /\ Proceed(c, "inspect") /\ decided' = k /\ UNCHANGED <<plan, sawLast>>
      \/ k \notin TargetKinds /\ Reply(c, k)
  BY <1>2 DEF BrokerDecidesKind
<1> HIDE DEF k, s
<1>5. CASE k \in TargetKinds /\ Proceed(c, "inspect") /\ decided' = k /\ UNCHANGED <<plan, sawLast>>
  <2>1. WorldKept /\ PlanByStage'
    BY <1>1, <1>5, WorldUntouched DEF PlanByStage, Proceed
  <2>2. plan' \in ReplacementPlans \cup {NoPlan} /\ sawLast' \in Objects
    BY <1>1, <1>5 DEF TypeOK
  <2>3. Suits(arg[c], Seen(BaseOfLink(arg[c], link_path[c])), decided')
    BY <1>3, <1>5 DEF s
  <2> QED
    BY <1>1, <1>5, <2>1, <2>2, <2>3, ProceedInv
<1>6. CASE k \notin TargetKinds /\ Reply(c, k)
  <2>1. k \in ErrorCodes \ {"PrivilegeRequired"} /\ k # Ok
    BY <1>3, <1>6 DEF ErrorCodes, Ok
  <2> QED
    BY <1>1, <1>6, <2>1, ReplyInv
<1> QED
  BY <1>4, <1>5, <1>6

\* What a look of the broker's at the path leads to.
LEMMA BrokerLooks ==
    ASSUME CommandInv, NEW force \in BOOLEAN, stage # "idle"
    PROVE  LET p == plan_replacement(inspect_link_path_state(At(ServedPath)), force)
           IN  /\ p \in ReplacementPlans \/ (p \in ErrorCodes \ {"PrivilegeRequired"} /\ p # Ok)
               /\ p = "ReplaceExistingSymlink" => force
               /\ p \in ReplacementPlans => At(ServedPath) = "nothing" \/ IsSymlink(At(ServedPath))
<1>1. At(ServedPath) \in Objects
  BY Serving
<1> QED
  BY <1>1, PlanReplacement DEF ErrorCodes, Ok, ReplacementPlans

\* The first look, and the plan.
LEMMA BrokerPlansInv ==
    ASSUME CommandInv, BrokerPlans
    PROVE  CommandInv'
<1> DEFINE p == plan_replacement(inspect_link_path_state(At(ServedPath)), arg[served].force)
<1>1. stage = "inspect" /\ TypeOK
      /\ UNCHANGED <<world, pc, arg, link_path, kind, answer, made, seenLink, outside>>
  BY DEF BrokerPlans, CommandInv
<1>2. /\ served \in asked /\ made[served] = {} /\ At(ServedPath) \in Objects
      /\ arg[served].force \in BOOLEAN /\ decided \in TargetKinds
      /\ request_from_options(arg[served]).replace_existing_symlink = arg[served].force
  BY <1>1, Serving
<1>3. /\ p \in ReplacementPlans \/ (p \in ErrorCodes \ {"PrivilegeRequired"} /\ p # Ok)
      /\ p = "ReplaceExistingSymlink" => arg[served].force
  BY <1>1, <1>2, BrokerLooks
<1>4. \/ /\ p \in ReplacementPlans
         /\ Proceed(served, IF p = "ReplaceExistingSymlink" THEN "recheck" ELSE "create")
         /\ plan' = p /\ sawLast' = At(ServedPath) /\ UNCHANGED decided
      \/ p \notin ReplacementPlans /\ Reply(served, p)
      \/ Reply(served, "CreateSymlinkFailed")
  BY <1>2 DEF BrokerPlans
<1> HIDE DEF p
<1>5. CASE /\ p \in ReplacementPlans
           /\ Proceed(served, IF p = "ReplaceExistingSymlink" THEN "recheck" ELSE "create")
           /\ plan' = p /\ sawLast' = At(ServedPath) /\ UNCHANGED decided
  <2>1. WorldKept
    BY <1>1, WorldUntouched
  <2>2. PlanByStage'
    BY <1>1, <1>3, <1>5 DEF PlanByStage, Proceed
  <2> DEFINE s == IF p = "ReplaceExistingSymlink" THEN "recheck" ELSE "create"
  <2>3. Proceed(served, s) /\ s \in {"inspect", "recheck", "remove", "create"}
    BY <1>5
  <2> HIDE DEF s
  <2> QED
    BY <1>1, <1>2, <1>5, <2>1, <2>2, <2>3, ProceedInv
<1>6. CASE p \notin ReplacementPlans /\ Reply(served, p)
  BY <1>1, <1>2, <1>3, <1>6, ReplyInv
<1>7. CASE Reply(served, "CreateSymlinkFailed")
  BY <1>1, <1>2, <1>7, ReplyInv DEF ErrorCodes, Ok
<1> QED
  BY <1>4, <1>5, <1>6, <1>7

\* The second look.
LEMMA BrokerRechecksInv ==
    ASSUME CommandInv, BrokerRechecks
    PROVE  CommandInv'
<1> DEFINE p == plan_replacement(inspect_link_path_state(At(ServedPath)), TRUE)
<1>1. stage = "recheck" /\ TypeOK
      /\ UNCHANGED <<world, pc, arg, link_path, kind, answer, made, seenLink, outside>>
  BY DEF BrokerRechecks, CommandInv
<1>2. /\ served \in asked /\ made[served] = {} /\ At(ServedPath) \in Objects
      /\ decided \in TargetKinds
  BY <1>1, Serving
<1>3. /\ p \in ReplacementPlans \/ (p \in ErrorCodes \ {"PrivilegeRequired"} /\ p # Ok)
      /\ p \in ReplacementPlans => At(ServedPath) = "nothing" \/ IsSymlink(At(ServedPath))
  BY <1>1, BrokerLooks
<1>4. \/ /\ p \in ReplacementPlans /\ Proceed(served, "remove") /\ sawLast' = At(ServedPath)
         /\ UNCHANGED <<decided, plan>>
      \/ p \notin ReplacementPlans /\ Reply(served, p)
      \/ Reply(served, "CreateSymlinkFailed")
  BY DEF BrokerRechecks
<1> HIDE DEF p
<1>5. CASE /\ p \in ReplacementPlans /\ Proceed(served, "remove") /\ sawLast' = At(ServedPath)
           /\ UNCHANGED <<decided, plan>>
  <2>1. WorldKept
    BY <1>1, WorldUntouched
  <2>2. PlanByStage' /\ plan' \in ReplacementPlans \cup {NoPlan}
    BY <1>1, <1>3, <1>5 DEF CommandInv, TypeOK, PlanByStage, Proceed
  <2> QED
    BY <1>1, <1>2, <1>5, <2>1, <2>2, ProceedInv
<1>6. CASE p \notin ReplacementPlans /\ Reply(served, p)
  BY <1>1, <1>2, <1>3, <1>6, ReplyInv
<1>7. CASE Reply(served, "CreateSymlinkFailed")
  BY <1>1, <1>2, <1>7, ReplyInv DEF ErrorCodes, Ok
<1> QED
  BY <1>4, <1>5, <1>6, <1>7

\* The removal, of whatever is there by now.
LEMMA BrokerRemovesInv ==
    ASSUME CommandInv, BrokerRemoves
    PROVE  CommandInv'
<1>1. stage = "remove" /\ TypeOK /\ UNCHANGED <<pc, arg, link_path, kind, answer, made, outside>>
  BY DEF BrokerRemoves, CommandInv
<1>2. /\ served \in asked /\ made[served] = {} /\ ServedPath \in Paths
      /\ decided \in TargetKinds
  BY <1>1, Serving
<1>3. CASE /\ Put(ServedPath, "nothing", "notFound")
           /\ Proceed(served, "create") /\ UNCHANGED <<decided, plan, sawLast>>
  <2>1. WorldKept
    BY <1>1, <1>2, <1>3, PutKeeps DEF Objects, TargetStates
  <2>2. PlanByStage' /\ plan' \in ReplacementPlans \cup {NoPlan} /\ sawLast' \in Objects
    BY <1>1, <1>3 DEF TypeOK, PlanByStage, Proceed
  <2> QED
    BY <1>1, <1>2, <1>3, <2>1, <2>2, ProceedInv
<1>4. CASE Reply(served, "CreateSymlinkFailed") /\ UNCHANGED <<world, seenLink>>
  <2>1. "CreateSymlinkFailed" \in ErrorCodes \ {"PrivilegeRequired"} /\ "CreateSymlinkFailed" # Ok
    BY DEF ErrorCodes, Ok
  <2> QED
    BY <1>1, <1>2, <1>4, <2>1, ReplyInv
<1> QED
  BY <1>3, <1>4 DEF BrokerRemoves

\* The link is made, of the kind that was decided on, or is not.
LEMMA BrokerCreatesInv ==
    ASSUME CommandInv, BrokerCreates
    PROVE  CommandInv'
<1>1. stage = "create" /\ TypeOK /\ UNCHANGED <<pc, arg, link_path, kind, answer, outside>>
  BY DEF BrokerCreates, CommandInv
<1>2. /\ served \in asked /\ served \in Commands /\ served # Nobody /\ made[served] = {}
      /\ ServedPath \in Paths /\ decided \in TargetKinds
      /\ outside = 0 /\ (ServedPath = "named" \/ served \in seenLink) =>
            Suits(arg[served], Seen(BaseOfLink(arg[served], ServedPath)), decided)
  BY <1>1, Serving
<1>3. CASE /\ MakeLink(served, decided, "broker")
           /\ Proceed(served, "audit") /\ UNCHANGED <<decided, plan, sawLast>>
  <2>1. /\ WorldKept /\ KindByMaker' /\ LookedAt'
        /\ made' \in [Commands -> SUBSET [by : Makers, kind : TargetKinds]]
        /\ \A d \in Commands :
              made'[d] = IF d = served THEN {[by |-> "broker", kind |-> decided]} ELSE made[d]
    <3>1. outside = 0 /\ (link_path[served] = "named" \/ served \in seenLink) =>
             Suits(arg[served], Seen(BaseOfLink(arg[served], link_path[served])), decided)
      BY <1>2 DEF ServedPath
    <3> QED
      BY <1>1, <1>2, <1>3, <3>1, LinkMade DEF Makers, Proceed, ServedPath
  <2>2. served' = served /\ stage' = "audit" /\ UNCHANGED <<asked, reply>>
    BY <1>3 DEF Proceed
  <2>3. TypeOK'
    BY <1>1, <1>2, <1>3, <2>1, <2>2 DEF TypeOK, WorldKept, Stages
  <2>4. pc[served] \in {"await", "done"} /\ reply[served] = NoCode
    BY <1>1, <1>2 DEF CommandInv, OneWay, TypeOK
  <2>5. OneWay'
    BY <1>1, <1>2, <2>1, <2>2, <2>4 DEF CommandInv, OneWay, Steps
  <2>6. TrueCodes'
    <3> SUFFICES ASSUME NEW d \in Commands PROVE TrueOf(d, answer[d])' /\ TrueOf(d, reply[d])'
      BY DEF TrueCodes
    <3>1. TrueOf(d, answer[d]) /\ TrueOf(d, reply[d])
      BY DEF CommandInv, TrueCodes
    <3> QED
      BY <1>1, <1>2, <2>1, <2>2, <3>1 DEF TrueOf
  <2>7. PlanByStage'
    BY <2>2 DEF PlanByStage
  <2> QED
    BY <2>1, <2>3, <2>5, <2>6, <2>7 DEF CommandInv
<1>4. CASE /\ \E e \in {"LinkAlreadyExists", "CreateSymlinkFailed",
                        "ReplacementPartiallyCompleted"} : Reply(served, e)
           /\ UNCHANGED <<world, made, seenLink>>
  <2>1. PICK e \in {"LinkAlreadyExists", "CreateSymlinkFailed",
                    "ReplacementPartiallyCompleted"} : Reply(served, e)
    BY <1>4
  <2>2. e \in ErrorCodes \ {"PrivilegeRequired"} /\ e # Ok
    BY DEF ErrorCodes, Ok
  <2> QED
    BY <1>1, <1>2, <1>4, <2>1, <2>2, ReplyInv
<1> QED
  BY <1>3, <1>4 DEF BrokerCreates

\* The entry of the manifest is written, or is not.
LEMMA BrokerRecordsInv ==
    ASSUME CommandInv, BrokerRecords
    PROVE  CommandInv'
<1>1. stage = "audit"
      /\ UNCHANGED <<world, pc, arg, link_path, kind, answer, made, seenLink, outside>>
  BY DEF BrokerRecords
<1>2. served \in asked /\ made[served] # {}
  BY <1>1, Serving
<1>3. PICK e \in {Ok, "CreateSymlinkFailed"} : Reply(served, e)
  BY DEF BrokerRecords
<1>4. e \in (ErrorCodes \ {"PrivilegeRequired"}) \cup {Ok}
  BY DEF ErrorCodes, Ok
<1> QED
  BY <1>1, <1>2, <1>3, <1>4, ReplyInv

-----------------------------------------------------------------------------
(* The steps of everybody else *)

\* Other processes change a path, or what TARGET leads to: from then on
\* nothing is claimed of the kinds, nor of LINK as it was seen, unless the
\* change was inside it.
LEMMA OutsideInv ==
    ASSUME CommandInv,
           \/ \E p \in Paths, f \in Initially, s \in TargetStates : ChangePath(p, f[p], s)
           \/ \E v \in Views, s \in TargetStates : ChangeTarget(v, s)
    PROVE  CommandInv'
<1>1. TypeOK /\ MaxOutside \in Nat /\ outside < MaxOutside /\ outside' = outside + 1
      /\ outside' # 0 /\ outside' \in 0 .. MaxOutside
      /\ UNCHANGED <<pc, arg, link_path, kind, answer, asked, reply, made, broker>>
  BY InputsAreTyped DEF CommandInv, ChangePath, ChangeTarget, TypeOK
<1>2. /\ entry' \in [Paths -> Objects] /\ behind' \in TargetStates
      /\ target' \in [Bases -> TargetStates]
      /\ \/ seenLink' = {}
         \/ seenLink' = seenLink /\ Lookup' = Lookup
  <2>1. ASSUME NEW p \in Paths, NEW f \in Initially, NEW s \in TargetStates, ChangePath(p, f[p], s)
        PROVE  WorldKept
    <3>1. f[p] \in Objects
      BY InputsAreTyped
    <3> QED
      BY <1>1, <2>1, <3>1, PutKeeps DEF ChangePath
  <2>2. ASSUME NEW v \in Views, NEW s \in TargetStates, ChangeTarget(v, s)
        PROVE  /\ entry' = entry /\ behind' \in TargetStates
               /\ target' \in [Bases -> TargetStates] /\ seenLink' = {}
    BY <2>2, InputsAreTyped DEF ChangeTarget, TargetStates
  <2> QED
    BY <1>1, <2>1, <2>2 DEF WorldKept, TypeOK
<1>3. TypeOK'
  BY <1>1, <1>2 DEF TypeOK, broker
<1>4. OneWay' /\ TrueCodes' /\ PlanByStage'
  BY <1>1 DEF CommandInv, OneWay, TrueCodes, TrueOf, PlanByStage, broker
<1>5. KindByMaker'
  BY <1>1 DEF KindByMaker
<1>6. LookedAt'
  BY <1>1, <1>2 DEF CommandInv, LookedAt
<1> QED
  BY <1>3, <1>4, <1>5, <1>6 DEF CommandInv

-----------------------------------------------------------------------------
\* Every step keeps the invariant.
LEMMA NextCommandInv == CommandInv /\ [Next]_vars => CommandInv'
<1> SUFFICES ASSUME CommandInv, [Next]_vars PROVE CommandInv'
  OBVIOUS
<1>1. CASE UNCHANGED vars
  <2>1. UNCHANGED <<world, entry, behind, target, pc, arg, link_path, kind, answer, asked,
                    reply, made, seenLink, outside, broker>>
    BY <1>1 DEF vars, world, broker
  <2>2. TypeOK' /\ OneWay' /\ TrueCodes'
    BY <2>1 DEF CommandInv, TypeOK, OneWay, TrueCodes, TrueOf, broker
  <2> QED
    BY <2>1, <2>2, NothingMoves DEF CommandInv
<1>2. ASSUME NEW c \in Commands, CommandStep(c) PROVE CommandInv'
  BY <1>2, ParseCommandInv, InspectAndPlanInv, DecideKindInv, CreateDirectlyInv, SubmitInv,
     AwaitInv DEF CommandStep
<1>3. CASE BrokerStep
  BY <1>3, RefuseInv, BrokerDecidesKindInv, BrokerPlansInv, BrokerRechecksInv,
     BrokerRemovesInv, BrokerCreatesInv, BrokerRecordsInv, LoseInv DEF BrokerStep
<1> QED
  BY <1>1, <1>2, <1>3, OutsideInv DEF Next

-----------------------------------------------------------------------------
(* What a step does to an entry *)

\* An entry changes only for a command, unless by somebody else, and an object
\* is only taken away on -f, and is a link unless it is not what the broker saw.
LEMMA StepsOnEntries ==
    ASSUME CommandInv, [Next]_vars
    PROVE  /\ entry' # entry /\ outside' = outside => \E c \in Commands : Touches(c)
           /\ \A c \in Commands :
                 Touches(c) /\ At(link_path[c]) # "nothing"
                 => /\ arg[c].force /\ Removes(c)
                    /\ IsSymlink(At(link_path[c])) \/ At(link_path[c]) # sawLast
<1>1. TypeOK /\ PlanByStage /\ Nobody \notin Commands
  BY InputsAreTyped DEF CommandInv
<1>2. CASE /\ UNCHANGED made /\ (entry' = entry \/ outside' # outside)
           /\ stage # "remove" \/ stage' # "create"
  BY <1>2 DEF Touches, Removes
<1>3. ASSUME NEW c \in Commands, CommandStep(c)
      PROVE  /\ stage' = stage
             /\ \/ UNCHANGED <<made, entry>>
                \/ /\ pc[c] = "create" /\ At(link_path[c]) = "nothing"
                   /\ MakeLink(c, kind[c], "direct")
  BY <1>3 DEF CommandStep, ParseCommand, InspectAndPlan, DecideKind, CreateDirectly, Submit,
              Await, TakeReply, NotReached, GiveUp, world, broker
<1>4. ASSUME NEW c \in Commands, NEW k, NEW maker, made[c] = {}, MakeLink(c, k, maker),
             At(link_path[c]) = "nothing", stage # "remove" \/ stage' # "create"
      PROVE  /\ Touches(c)
             /\ \A d \in Commands : Touches(d) => At(link_path[d]) = "nothing"
  <2>1. made' = [made EXCEPT ![c] = made[c] \cup {[by |-> maker, kind |-> k]}]
    BY <1>4 DEF MakeLink
  <2>2. made'[c] # made[c] /\ \A d \in Commands \ {c} : made'[d] = made[d]
    BY <1>1, <1>4, <2>1 DEF TypeOK
  <2> QED
    BY <1>4, <2>2 DEF Touches, Removes
<1>5. ASSUME NEW c \in Commands, CommandStep(c)
      PROVE  /\ entry' # entry => \E d \in Commands : Touches(d)
             /\ \A d \in Commands : Touches(d) => At(link_path[d]) = "nothing"
  <2>1. CASE UNCHANGED <<made, entry>>
    BY <1>3, <1>5, <2>1 DEF Touches, Removes
  <2>2. CASE /\ pc[c] = "create" /\ At(link_path[c]) = "nothing"
             /\ MakeLink(c, kind[c], "direct")
    <3>1. made[c] = {} /\ stage' = stage
      BY <1>3, <1>5, <2>2 DEF CommandInv, OneWay, Steps
    <3> QED
      BY <1>4, <2>2, <3>1
  <2> QED
    BY <1>3, <1>5, <2>1, <2>2
<1>6. CASE BrokerRemoves
  <2>1. stage = "remove" /\ UNCHANGED made
    BY <1>6 DEF BrokerRemoves
  <2>2. CASE stage' # "create" /\ UNCHANGED world
    BY <1>2, <2>1, <2>2 DEF world
  <2>3. CASE stage' = "create"
    <3>1. served \in Commands /\ served \in asked
      BY <2>1, Serving
    <3>2. Touches(served) /\ Removes(served)
      BY <2>1, <2>3 DEF Touches, Removes
    <3>3. \A d \in Commands : Touches(d) => d = served
      BY <2>1 DEF Touches, Removes
    <3>4. arg[served].force /\ (sawLast = "nothing" \/ IsSymlink(sawLast))
      BY <1>1, <2>1 DEF PlanByStage
    <3> QED
      BY <3>1, <3>2, <3>3, <3>4 DEF IsSymlink
  <2> QED
    BY <1>6, <2>2, <2>3 DEF BrokerRemoves, Reply, Proceed
<1>7. CASE BrokerCreates
  <2>1. stage = "create"
    BY <1>7 DEF BrokerCreates
  <2>2. CASE UNCHANGED <<world, made>>
    BY <1>2, <2>1, <2>2 DEF world
  <2>3. CASE At(ServedPath) = "nothing" /\ MakeLink(served, decided, "broker")
    <3>1. served \in Commands /\ made[served] = {}
      BY <2>1, Serving
    <3> QED
      BY <1>4, <2>1, <2>3, <3>1 DEF ServedPath
  <2> QED
    BY <1>7, <2>2, <2>3 DEF BrokerCreates
<1>8. CASE \/ \E c \in Commands : Refuse(c) \/ BrokerDecidesKind(c) \/ Lose(c)
           \/ BrokerPlans \/ BrokerRechecks \/ BrokerRecords
  <2>1. UNCHANGED <<world, made>>
    BY <1>8 DEF Refuse, BrokerDecidesKind, Lose, BrokerPlans, BrokerRechecks, BrokerRecords
  <2>2. stage # "remove" \/ stage' # "create"
    BY <1>1, <1>8 DEF TypeOK, Refuse, BrokerDecidesKind, Lose, BrokerPlans, BrokerRechecks,
       BrokerRecords, broker
  <2> QED
    BY <1>2, <2>1, <2>2 DEF world
<1>9. CASE \/ \E p \in Paths, f \in Initially, s \in TargetStates : ChangePath(p, f[p], s)
           \/ \E v \in Views, s \in TargetStates : ChangeTarget(v, s)
  <2>1. outside \in Nat /\ outside' = outside + 1 /\ UNCHANGED <<made, stage>>
    BY <1>1, <1>9, InputsAreTyped DEF ChangePath, ChangeTarget, TypeOK, broker
  <2> QED
    BY <1>2, <2>1
<1>10. CASE UNCHANGED vars
  BY <1>2, <1>10 DEF vars
<1>11. CASE BrokerStep
  BY <1>6, <1>7, <1>8, <1>11 DEF BrokerStep
<1> QED
  BY <1>5, <1>9, <1>10, <1>11 DEF Next

-----------------------------------------------------------------------------
(* The theorems *)

\* The invariant holds in every reachable state.
THEOREM CommandInvariance == Spec => []CommandInv
BY InitCommandInv, NextCommandInv, PTL DEF Spec

\* Every variable stays in its set.
THEOREM CommandTypeCorrectness == Spec => []TypeOK
<1>1. CommandInv => TypeOK
  BY DEF CommandInv
<1> QED
  BY <1>1, CommandInvariance, PTL

\* A command makes one link or none and its answer says which, whatever
\* happens to its request: AnswersMatchLinks.
THEOREM AnswersTellTheTruth == Spec => []AnswersMatchLinks
<1>1. CommandInv => AnswersMatchLinks
  <2> SUFFICES ASSUME CommandInv, NEW c \in Commands
               PROVE  /\ answer[c] # "PrivilegeRequired"
                      /\ Cardinality(made[c]) <= 1
                      /\ answer[c] = Ok => made[c] # {}
                      /\ answer[c] \in ErrorCodes \ {"ServiceUnavailable", "CreateSymlinkFailed"}
                         => made[c] = {}
    BY DEF AnswersMatchLinks
  <2>1. TrueOf(c, answer[c]) /\ \A m, n \in made[c] : m = n
    BY DEF CommandInv, TrueCodes, OneWay
  <2>2. Cardinality(made[c]) <= 1
    BY <2>1, AtMostOne
  <2> QED
    BY <2>1, <2>2 DEF TrueOf
<1> QED
  BY <1>1, CommandInvariance, PTL

\* While nobody interferes, a link to an absolute target, and any link of the
\* broker's, is of the kind of what it leads to: KindIsRight.
THEOREM LinksAreOfTheRightKind == Spec => []KindIsRight
<1>1. CommandInv => KindIsRight
  <2> SUFFICES ASSUME CommandInv, NEW c \in Commands,
                      ~arg[c].relative \/ (\E m \in made[c] : m.by = "broker"),
                      outside = 0 /\ (link_path[c] = "named" \/ c \in seenLink),
                      NEW m \in made[c]
               PROVE  LET s == Seen(BaseOfLink(arg[c], link_path[c]))
                      IN  CASE s = "directory"   -> m.kind = "Dir"
                            [] s = "file"        -> m.kind = "File"
                            [] s = "notFound"    -> m.kind = arg[c].win_kind
                            [] s = "unreadable"  -> FALSE
    BY DEF KindIsRight, KindFits
  <2>1. m.by = "broker" \/ ~arg[c].relative
    BY DEF CommandInv, OneWay
  <2>2. Suits(arg[c], Seen(BaseOfLink(arg[c], link_path[c])), m.kind)
    BY <2>1 DEF CommandInv, KindByMaker
  <2>3. Seen(BaseOfLink(arg[c], link_path[c])) \in TargetStates
    BY DEF CommandInv, TypeOK, Seen, BaseOfLink, Bases, TargetStates
  <2> QED
    BY <2>2, <2>3 DEF Suits, TargetStates
<1> QED
  BY <1>1, CommandInvariance, PTL

\* No step takes an object away but for a command with -f, and then a link or
\* what has come in its place since the broker's last look: NothingLostUnforced.
THEOREM NothingIsLost == Spec => NothingLostUnforced
<1>1. CommandInv /\ [Next]_vars =>
         [/\ entry' # entry /\ outside' = outside => \E c \in Commands : Touches(c)
          /\ \A c \in Commands :
                Touches(c) /\ At(link_path[c]) # "nothing"
                => /\ arg[c].force /\ Removes(c)
                   /\ IsSymlink(At(link_path[c])) \/ At(link_path[c]) # sawLast]_vars
  BY StepsOnEntries
<1> QED
  BY <1>1, CommandInvariance, PTL DEF Spec, NothingLostUnforced

\* Without -T no directory that was seen at LINK is replaced: ContainersStay.
THEOREM ContainersAreKept == Spec => ContainersStay
<1>1. CommandInv /\ [Next]_vars =>
         [\A c \in Commands :
             Touches(c) /\ link_path[c] = "named" /\ Lookup = "directory"
             => arg[c].no_target_directory \/ c \notin seenLink]_vars
  BY DEF CommandInv, LookedAt
<1> QED
  BY <1>1, CommandInvariance, PTL DEF Spec, ContainersStay

=============================================================================
