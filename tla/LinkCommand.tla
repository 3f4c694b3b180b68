---------------------------- MODULE LinkCommand ----------------------------
(***************************************************************************)
(* `ln -s TARGET LINK` from the command line to its answer: ln.exe         *)
(* (crates/win-symlinks/src/bin/ln.rs) finds out where the link goes,      *)
(* create_symlink (crates/win-symlinks-client/src/lib.rs) tries to make it *)
(* itself and turns to the broker when it may not.  Several commands name  *)
(* the same LINK; they, the broker and other processes act on it in any    *)
(* order.                                                                  *)
(*                                                                         *)
(* Of the broker's steps only those are here that look at the paths or     *)
(* change them; the checks before them are one refusal (BrokerRequest has  *)
(* them).  The pipe is reduced to what a caller sees of it: an answer, or  *)
(* none in time (BrokerPipe has the rest).                                 *)
(***************************************************************************)
EXTENDS Naturals, FiniteSets, SymlinkOps

CONSTANTS
    Commands,       \* invocations of ln
    Nobody,         \* the broker serves no request
    CommandLines,   \* the assignments of arguments to commands that are explored
    Initially,      \* what the two paths hold at first
    Views,          \* what TARGET leads to, from each directory it is read in
    Refusals,       \* codes of the requests the broker refuses without a look
    MaxOutside      \* how often other processes interfere

\* LINK as it is written, and LINK\name for the final component of TARGET.
Paths == {"named", "inside"}

\* What TARGET is relative to: nothing, the directory the command runs in,
\* the directory that holds LINK, or LINK itself when that is a directory.
Bases == {"absolute", "cwd", "parent", "container"}

\* A command line of ln, with the privilege of its caller.
ArgumentRecords ==
    [symbolic : BOOLEAN, relative : BOOLEAN, has_name : BOOLEAN,
     win_kind : TargetKinds \cup {NoHint}, force : BOOLEAN,
     no_target_directory : BOOLEAN, privileged : BOOLEAN]

ASSUME InputsAreTyped ==
    /\ Nobody \notin Commands
    /\ CommandLines \subseteq [Commands -> ArgumentRecords]
    /\ Initially \subseteq [Paths -> Objects]
    /\ Views \subseteq [Bases -> TargetStates]
    /\ Refusals \subseteq
          {"ServiceUnavailable", "RemoteClientRejected", "PathNormalizationFailed",
           "SourceBlacklisted", "CallerParentWriteDenied", "CreateSymlinkFailed"}
    /\ MaxOutside \in Nat

NoPath == "NoPath"
NoKind == "NoKind"
NoPlan == "NoPlan"
NoCode == "NoCode"
Ok == "Ok"

VARIABLES
    entry,          \* path -> the object there, as long as there is a directory
    behind,         \* what a link at LINK leads to
    target,         \* what TARGET leads to, from each base
    \* the commands
    pc, arg,
    link_path,      \* where the link is to go
    kind,           \* the kind decided on for a direct creation
    answer,
    \* the broker
    asked,          \* commands whose request may still be answered
    served,         \* the one whose request the broker is at
    stage,          \* the call the broker is about to make
    decided, plan,  \* its locals: the kind of the link, the replacement plan
    reply,          \* command -> the response on its way
    \* history
    made,           \* command -> the links made for it: by whom, of which kind
    seenLink,       \* commands for which LINK is as they last saw it
    sawLast,        \* what the broker saw at its path when it last looked
    outside

world == <<entry, behind, target>>
broker == <<served, stage, decided, plan, sawLast>>
vars == <<entry, behind, target, pc, arg, link_path, kind, answer, asked, served,
          stage, decided, plan, reply, made, seenLink, sawLast, outside>>

Steps == {"parse", "inspect", "kind", "create", "submit", "await", "done"}
Stages == {"idle", "inspect", "recheck", "remove", "create", "audit"}
Makers == {"direct", "broker"}

-----------------------------------------------------------------------------
(* What the paths lead to *)

\* fs::metadata(LINK), which follows links.
Lookup ==
    CASE entry["named"] = "nothing"                   -> "notFound"
      [] entry["named"] = "directory"                 -> "directory"
      [] entry["named"] \in {"file", "dataReparse"}   -> "file"
      [] IsSymlink(entry["named"])                    -> behind

Reachable(p) == p = "inside" => Lookup = "directory"

At(p) == IF Reachable(p) THEN entry[p] ELSE "nothing"

\* A link of the wrong kind for what it leads to cannot be opened.
LeadsTo(o, s) ==
    IF (o = "dirSymlink" /\ s = "file") \/ (o = "fileSymlink" /\ s = "directory")
    THEN "unreadable" ELSE s

\* The link written at p resolves a relative TARGET from its own directory.
BaseOfLink(a, p) ==
    IF ~a.relative THEN "absolute" ELSE IF p = "named" THEN "parent" ELSE "container"

\* What fs::metadata says of TARGET from there.
Seen(b) == IF b = "container" /\ Lookup # "directory" THEN "notFound" ELSE target[b]

\* Path p comes to hold o, a link to s if it is one.  With LINK the directory
\* that LINK may be changes too, and what it holds.
Put(p, o, s) ==
    IF p = "inside"
    THEN entry' = [entry EXCEPT ![p] = o] /\ UNCHANGED <<behind, target, seenLink>>
    ELSE /\ \E f \in Initially : entry' = [entry EXCEPT ![p] = o, !["inside"] = f["inside"]]
         /\ behind' = IF IsSymlink(o) THEN LeadsTo(o, s) ELSE "notFound"
         /\ \E v \in Views : /\ \A b \in Bases \ {"container"} : v[b] = target[b]
                             /\ target' = v
         /\ seenLink' = {}

-----------------------------------------------------------------------------
(* The requests of ln *)

\* Faulty variant: LINK is looked at without following it.
resolve_without_following(a) ==
    CASE a.no_target_directory                                           -> "named"
      [] ~a.no_target_directory /\ entry["named"] = "directory" /\ a.has_name  -> "inside"
      [] ~a.no_target_directory /\ entry["named"] = "directory" /\ ~a.has_name ->
            "PathNormalizationFailed"
      [] ~a.no_target_directory /\ entry["named"] # "directory"          -> "named"

\* A LINK that leads to a directory is a container, unless -T was given.
resolve_link_path(a) ==
    IF a.no_target_directory THEN "named"
    ELSE CASE Lookup = "directory" /\ a.has_name     -> "inside"
           [] Lookup = "directory" /\ ~a.has_name    -> "PathNormalizationFailed"
           [] Lookup \in {"file", "notFound"}        -> "named"
           [] Lookup = "unreadable"                  -> "CreateSymlinkFailed"

\* Faulty variant: the request always asks for replacement.
request_replacing(a) == [target_kind |-> a.win_kind, replace_existing_symlink |-> TRUE]

request_from_options(a) ==
    [target_kind |-> a.win_kind, replace_existing_symlink |-> a.force]

-----------------------------------------------------------------------------
Init ==
    /\ entry \in Initially
    /\ behind \in TargetStates
    /\ ~IsSymlink(entry["named"]) => behind = "notFound"
    /\ target \in Views
    /\ pc = [c \in Commands |-> "parse"]
    /\ arg \in CommandLines
    /\ link_path = [c \in Commands |-> NoPath]
    /\ kind = [c \in Commands |-> NoKind]
    /\ answer = [c \in Commands |-> NoCode]
    /\ asked = {}
    /\ served = Nobody /\ stage = "idle" /\ decided = NoKind /\ plan = NoPlan
    /\ sawLast = "nothing"
    /\ reply = [c \in Commands |-> NoCode]
    /\ made = [c \in Commands |-> {}]
    /\ seenLink = {}
    /\ outside = 0

-----------------------------------------------------------------------------
(* A command *)

GoTo(c, p) == pc' = [pc EXCEPT ![c] = p] /\ UNCHANGED answer
Exit(c, code) ==
    /\ pc' = [pc EXCEPT ![c] = "done"]
    /\ answer' = [answer EXCEPT ![c] = code]

\* parse_link_command, and request_from_options up to the absolute link path,
\* for which the current directory may be unreadable.
ParseCommand(c) ==
    /\ pc[c] = "parse"
    /\ LET p == resolve_link_path(arg[c])
       IN  IF ~arg[c].symbolic THEN Exit(c, "UnsupportedMode") /\ UNCHANGED link_path
           ELSE IF p \notin Paths THEN Exit(c, p) /\ UNCHANGED link_path
           ELSE \/ GoTo(c, "inspect") /\ link_path' = [link_path EXCEPT ![c] = p]
                \/ Exit(c, "PathNormalizationFailed") /\ UNCHANGED link_path
    /\ seenLink' = seenLink \cup {c}
    /\ UNCHANGED <<world, arg, kind, asked, reply, made, outside, broker>>

\* Faulty variant: the creation follows without a decision on the kind.
InspectAndCreate(c) ==
    /\ pc[c] = "inspect"
    /\ \/ LET p == plan_replacement(inspect_link_path_state(At(link_path[c])),
                                    request_from_options(arg[c]).replace_existing_symlink)
          IN  CASE p = "Create"                  -> GoTo(c, "create")
                [] p = "ReplaceExistingSymlink"  -> GoTo(c, "submit")
                [] p \notin ReplacementPlans     -> Exit(c, p)
       \/ Exit(c, "CreateSymlinkFailed")
    /\ UNCHANGED <<world, arg, link_path, kind, asked, reply, made, seenLink, outside, broker>>

\* try_direct_create looks at the link path; a replacement is the broker's.
InspectAndPlan(c) ==
    /\ pc[c] = "inspect"
    /\ \/ LET p == plan_replacement(inspect_link_path_state(At(link_path[c])),
                                    request_from_options(arg[c]).replace_existing_symlink)
          IN  CASE p = "Create"                  -> GoTo(c, "kind")
                [] p = "ReplaceExistingSymlink"  -> GoTo(c, "submit")
                [] p \notin ReplacementPlans     -> Exit(c, p)
       \/ Exit(c, "CreateSymlinkFailed")
    /\ UNCHANGED <<world, arg, link_path, kind, asked, reply, made, seenLink, outside, broker>>

\* try_direct_create reads TARGET as it was written, from the directory the
\* command runs in.
DecideKind(c) ==
    /\ pc[c] = "kind"
    /\ LET seen == Seen(IF arg[c].relative THEN "cwd" ELSE "absolute")
           k == decide_target_kind(seen, request_from_options(arg[c]).target_kind)
       IN  IF k \in TargetKinds
           THEN GoTo(c, "create") /\ kind' = [kind EXCEPT ![c] = k]
           ELSE Exit(c, k) /\ UNCHANGED kind
    /\ UNCHANGED <<world, arg, link_path, asked, reply, made, seenLink, outside, broker>>

MakeLink(c, k, maker) ==
    /\ Put(link_path[c], LinkObject(k), Seen(BaseOfLink(arg[c], link_path[c])))
    /\ made' = [made EXCEPT ![c] = @ \cup {[by |-> maker, kind |-> k]}]

\* Faulty variant: the broker is asked after a direct creation as well.
CreateAndSubmit(c) ==
    /\ pc[c] = "create"
    /\ \/ /\ Reachable(link_path[c]) /\ At(link_path[c]) = "nothing" /\ arg[c].privileged
          /\ MakeLink(c, kind[c], "direct")
          /\ GoTo(c, "submit")
       \/ ~arg[c].privileged /\ GoTo(c, "submit") /\ UNCHANGED <<world, made, seenLink>>
       \/ Exit(c, "CreateSymlinkFailed") /\ UNCHANGED <<world, made, seenLink>>
    /\ UNCHANGED <<arg, link_path, kind, asked, reply, outside, broker>>

\* create_symbolic_link with the caller's own rights: done, left to the
\* broker for want of the privilege, or refused.
CreateDirectly(c) ==
    /\ pc[c] = "create"
    /\ \/ /\ Reachable(link_path[c]) /\ At(link_path[c]) = "nothing" /\ arg[c].privileged
          /\ MakeLink(c, kind[c], "direct")
          /\ Exit(c, Ok)
       \/ ~arg[c].privileged /\ GoTo(c, "submit") /\ UNCHANGED <<world, made, seenLink>>
       \/ /\ At(link_path[c]) # "nothing"
          /\ Exit(c, "LinkAlreadyExists") /\ UNCHANGED <<world, made, seenLink>>
       \/ Exit(c, "CreateSymlinkFailed") /\ UNCHANGED <<world, made, seenLink>>
    /\ UNCHANGED <<arg, link_path, kind, asked, reply, outside, broker>>

\* submit_create_symlink_request starts its worker.
Submit(c) ==
    /\ pc[c] = "submit"
    /\ GoTo(c, "await")
    /\ asked' = asked \cup {c}
    /\ UNCHANGED <<world, arg, link_path, kind, reply, made, seenLink, outside, broker>>

\* The response arrives.
TakeReply(c) ==
    /\ pc[c] = "await" /\ reply[c] # NoCode
    /\ Exit(c, reply[c])
    /\ UNCHANGED <<world, arg, link_path, kind, asked, reply, made, seenLink, outside, broker>>

\* The worker does not get through to a verified broker: nothing was sent.
NotReached(c) ==
    /\ pc[c] = "await" /\ c \in asked \ {served}
    /\ asked' = asked \ {c}
    /\ \E e \in {"ServiceUnavailable", "ServiceNotInstalled", "ServiceIdentityMismatch"} :
          Exit(c, e)
    /\ UNCHANGED <<world, arg, link_path, kind, reply, made, seenLink, outside, broker>>

\* A time limit expires or the pipe breaks; the request may be served yet.
GiveUp(c) ==
    /\ pc[c] = "await"
    /\ Exit(c, "ServiceUnavailable")
    /\ UNCHANGED <<world, arg, link_path, kind, asked, reply, made, seenLink, outside, broker>>

\* Faulty variant: only an answer ends the wait.
AwaitReply(c) == TakeReply(c) \/ NotReached(c)

Await(c) == TakeReply(c) \/ NotReached(c) \/ GiveUp(c)

CommandStep(c) ==
    \/ ParseCommand(c) \/ InspectAndPlan(c) \/ DecideKind(c) \/ CreateDirectly(c)
    \/ Submit(c) \/ Await(c)

-----------------------------------------------------------------------------
(* The broker: process_create_symlink_request, one request at a time *)

\* The server thread answers c and is free for the next.
Reply(c, code) ==
    /\ asked' = asked \ {c}
    /\ reply' = [reply EXCEPT ![c] = code]
    /\ served' = Nobody /\ stage' = "idle" /\ decided' = NoKind /\ plan' = NoPlan
    /\ sawLast' = "nothing"

\* It goes on with the request of c.
Proceed(c, s) == served' = c /\ stage' = s /\ UNCHANGED <<asked, reply>>

\* The path of the request being served.
ServedPath == link_path[served]

\* A check before decide_target_kind ends the request.
Refuse(c) ==
    /\ c \in asked /\ served = Nobody
    /\ \E e \in Refusals : Reply(c, e)
    /\ UNCHANGED <<world, pc, arg, link_path, kind, answer, made, seenLink, outside>>

\* The broker reads a relative TARGET from the directory of the link.
BrokerDecidesKind(c) ==
    /\ c \in asked /\ served = Nobody
    /\ LET k == decide_target_kind(Seen(BaseOfLink(arg[c], link_path[c])),
                                   request_from_options(arg[c]).target_kind)
       IN  IF k \in TargetKinds
           THEN Proceed(c, "inspect") /\ decided' = k /\ UNCHANGED <<plan, sawLast>>
           ELSE Reply(c, k)
    /\ UNCHANGED <<world, pc, arg, link_path, kind, answer, made, seenLink, outside>>

\* The look, which can fail, and the plan.
BrokerPlans ==
    /\ stage = "inspect"
    /\ \/ LET p == plan_replacement(inspect_link_path_state(At(ServedPath)),
                                    request_from_options(arg[served]).replace_existing_symlink)
          IN  IF p \in ReplacementPlans
              THEN /\ Proceed(served, IF p = "ReplaceExistingSymlink"
                                      THEN "recheck" ELSE "create")
                   /\ plan' = p /\ sawLast' = At(ServedPath) /\ UNCHANGED decided
              ELSE Reply(served, p)
       \/ Reply(served, "CreateSymlinkFailed")
    /\ UNCHANGED <<world, pc, arg, link_path, kind, answer, made, seenLink, outside>>

\* The second look of remove_existing_symlink_after_recheck, always with -f.
BrokerRechecks ==
    /\ stage = "recheck"
    /\ \/ LET p == plan_replacement(inspect_link_path_state(At(ServedPath)), TRUE)
          IN  IF p \in ReplacementPlans
              THEN /\ Proceed(served, "remove")
                   /\ sawLast' = At(ServedPath) /\ UNCHANGED <<decided, plan>>
              ELSE Reply(served, p)
       \/ Reply(served, "CreateSymlinkFailed")
    /\ UNCHANGED <<world, pc, arg, link_path, kind, answer, made, seenLink, outside>>

\* What remove_dir or remove_file can take: anything but a directory that has
\* something in it.
Removable(p) ==
    /\ At(p) # "nothing"
    /\ p = "named" /\ entry["named"] = "directory" => entry["inside"] = "nothing"

\* The removal goes by path and does not look again.  The attribute that is
\* read before it only chooses the call; one that has become the wrong one is
\* among the failures.
BrokerRemoves ==
    /\ stage = "remove"
    /\ \/ /\ Removable(ServedPath)
          /\ Put(ServedPath, "nothing", "notFound")
          /\ Proceed(served, "create") /\ UNCHANGED <<decided, plan, sawLast>>
       \/ Reply(served, "CreateSymlinkFailed") /\ UNCHANGED <<world, seenLink>>
    /\ UNCHANGED <<pc, arg, link_path, kind, answer, made, outside>>

\* create_symbolic_link under the broker's own privilege.
BrokerCreates ==
    /\ stage = "create"
    /\ \/ /\ Reachable(ServedPath) /\ At(ServedPath) = "nothing"
          /\ MakeLink(served, decided, "broker")
          /\ Proceed(served, "audit") /\ UNCHANGED <<decided, plan, sawLast>>
       \/ /\ \E e \in {"LinkAlreadyExists", "CreateSymlinkFailed"} :
               /\ e = "LinkAlreadyExists" => At(ServedPath) # "nothing"
               /\ Reply(served, IF plan = "ReplaceExistingSymlink"
                                THEN "ReplacementPartiallyCompleted" ELSE e)
          /\ UNCHANGED <<world, made, seenLink>>
    /\ UNCHANGED <<pc, arg, link_path, kind, answer, outside>>

\* write_audit_log
BrokerRecords ==
    /\ stage = "audit"
    /\ \E e \in {Ok, "CreateSymlinkFailed"} : Reply(served, e)
    /\ UNCHANGED <<world, pc, arg, link_path, kind, answer, made, seenLink, outside>>

\* A request that waits is lost with its client; the one being served is lost
\* with the broker.
Lose(c) ==
    /\ c \in asked
    /\ asked' = asked \ {c}
    /\ IF c = served
       THEN served' = Nobody /\ stage' = "idle" /\ decided' = NoKind /\ plan' = NoPlan
            /\ sawLast' = "nothing"
       ELSE UNCHANGED broker
    /\ UNCHANGED <<world, pc, arg, link_path, kind, answer, reply, made, seenLink, outside>>

BrokerStep ==
    \/ \E c \in Commands : Refuse(c) \/ BrokerDecidesKind(c) \/ Lose(c)
    \/ BrokerPlans \/ BrokerRechecks \/ BrokerRemoves \/ BrokerCreates \/ BrokerRecords

-----------------------------------------------------------------------------
(* Everybody else *)

ChangePath(p, o, s) ==
    /\ outside < MaxOutside /\ outside' = outside + 1
    /\ Reachable(p)
    /\ Put(p, o, s)
    /\ UNCHANGED <<pc, arg, link_path, kind, answer, asked, reply, made, broker>>

\* What TARGET leads to changes, and with it what a link at LINK leads to.
ChangeTarget(v, s) ==
    /\ outside < MaxOutside /\ outside' = outside + 1
    /\ target' = v
    /\ behind' = IF IsSymlink(entry["named"]) THEN s ELSE "notFound"
    /\ seenLink' = {}
    /\ UNCHANGED <<entry, pc, arg, link_path, kind, answer, asked, reply, made, broker>>

Next ==
    \/ \E c \in Commands : CommandStep(c)
    \/ BrokerStep
    \/ \E p \in Paths, f \in Initially, s \in TargetStates : ChangePath(p, f[p], s)
    \/ \E v \in Views, s \in TargetStates : ChangeTarget(v, s)

Spec == Init /\ [][Next]_vars

\* Every command is scheduled, and its time limits expire.
FairSpec == Spec /\ \A c \in Commands : WF_vars(CommandStep(c))

-----------------------------------------------------------------------------
(* Properties *)

\* Every variable stays in its set.
TypeOK ==
    /\ entry \in [Paths -> Objects]
    /\ behind \in TargetStates
    /\ target \in [Bases -> TargetStates]
    /\ pc \in [Commands -> Steps]
    /\ arg \in CommandLines
    /\ link_path \in [Commands -> Paths \cup {NoPath}]
    /\ \A c \in Commands : pc[c] \notin {"parse", "done"} => link_path[c] \in Paths
    /\ kind \in [Commands -> TargetKinds \cup {NoKind}]
    /\ \A c \in Commands : pc[c] = "create" => kind[c] \in TargetKinds
    /\ answer \in [Commands -> ErrorCodes \cup {Ok, NoCode}]
    /\ asked \subseteq {c \in Commands : link_path[c] \in Paths}
    /\ served \in asked \cup {Nobody}
    /\ stage \in Stages
    /\ stage = "idle" <=> served = Nobody
    /\ decided \in TargetKinds \cup {NoKind}
    /\ served # Nobody => decided \in TargetKinds
    /\ plan \in ReplacementPlans \cup {NoPlan}
    /\ sawLast \in Objects
    /\ reply \in [Commands -> ErrorCodes \cup {Ok, NoCode}]
    /\ made \in [Commands -> SUBSET [by : Makers, kind : TargetKinds]]
    /\ seenLink \subseteq Commands
    /\ outside \in 0 .. MaxOutside

\* The step takes away what is at the path of c.
Removes(c) == c = served /\ stage = "remove" /\ stage' = "create"

\* The step makes a link for command c, or takes away what is in its place.
Touches(c) == made'[c] # made[c] \/ Removes(c)

\* Nobody but other processes changes a path except for a command that names
\* it.  An object that is there is only ever taken away for a command that was
\* given -f, and it is a link: whatever else goes has been put there after the
\* broker's second look (the window the design accepts, design:68).  So of
\* several commands without -f one at most gets the path, whether they go the
\* direct way, through the broker, or one each way.
NothingLostUnforced ==
    [][/\ entry' # entry /\ outside' = outside => \E c \in Commands : Touches(c)
       /\ \A c \in Commands :
             Touches(c) /\ At(link_path[c]) # "nothing"
             => /\ arg[c].force /\ Removes(c)
                /\ IsSymlink(At(link_path[c])) \/ At(link_path[c]) # sawLast]_vars

\* Without -T a directory, or a link to one, is where the link is put, never
\* what is replaced; unless LINK changed between the look and the deed.
ContainersStay ==
    [][\A c \in Commands :
          Touches(c) /\ link_path[c] = "named" /\ Lookup = "directory"
          => arg[c].no_target_directory \/ c \notin seenLink]_vars

\* A command makes one link or none, by one of the two ways, and says so.  Only
\* an unavailable service or an unrecorded link leaves it open.  The privilege
\* is never what it lacks: without it the request is passed on.
AnswersMatchLinks ==
    \A c \in Commands :
        /\ answer[c] # "PrivilegeRequired"
        /\ Cardinality(made[c]) <= 1
        /\ answer[c] = Ok => made[c] # {}
        /\ answer[c] \in ErrorCodes \ {"ServiceUnavailable", "CreateSymlinkFailed"} => made[c] = {}

\* While nobody interferes, a link is of the kind of what it leads to, or of
\* the hinted kind if it leads nowhere.
KindFits(c) ==
    outside = 0 /\ (link_path[c] = "named" \/ c \in seenLink) =>
        \A m \in made[c] :
            LET s == Seen(BaseOfLink(arg[c], link_path[c]))
            IN  CASE s = "directory"   -> m.kind = "Dir"
                  [] s = "file"        -> m.kind = "File"
                  [] s = "notFound"    -> m.kind = arg[c].win_kind
                  [] s = "unreadable"  -> FALSE

\* That is so for absolute targets, and for every link the broker makes.
KindIsRight ==
    \A c \in Commands :
        ~arg[c].relative \/ (\E m \in made[c] : m.by = "broker") => KindFits(c)

\* The design has it so for every link (design:226, design:407-411): direct and
\* broker creation share the same semantics, and an existing directory gets a
\* directory link, an existing file a file link.
KindIsRightEitherWay == \A c \in Commands : KindFits(c)

\* All commands come to their end, whatever the broker does.
CommandsEnd == <>(\A c \in Commands : pc[c] = "done")

=============================================================================
