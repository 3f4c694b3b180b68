--------------------------- MODULE BrokerRequest ---------------------------
(***************************************************************************)
(* The broker worker of crates/win-symlinks/src/ipc/mod.rs: one request    *)
(* after the other through process_create_symlink_request, a step per      *)
(* system call whose answer can be out of date by the next one.  Around it *)
(* other processes change links, targets, permissions and the              *)
(* configuration at any moment, every call may fail, and the broker        *)
(* process may die and be started again.                                   *)
(*                                                                         *)
(* How a request reaches the worker and its answer reaches the client is   *)
(* BrokerPipe's subject; here a request is taken and an answer is given.   *)
(***************************************************************************)
EXTENDS Naturals, FiniteSets, SymlinkOps

CONSTANTS
    Users,          \* callers of the pipe
    Rejected,       \* those whose token is anonymous or a network logon
    Service,        \* the token of the service itself (LocalSystem)
    Spellings,      \* link paths as clients write them
    Names,          \* link paths in normalised form
    Unusable,       \* stands for a path that does not normalise
    Lexical,        \* spelling -> its name by text alone, or Unusable
    Locations,      \* the directory entries that names lead to
    Layouts,        \* how names and entries can belong together: leads is
                    \* name -> entry, every directory on the way resolved,
                    \* own is entry -> its fully resolved name
    Roots,          \* the names that are roots: they have no parent
    BuiltIn,        \* names under the built-in blacklist
    Targets,        \* link contents as clients write them
    Relative,       \* the ones that are relative
    Places,         \* what a target can lead to
    Place,          \* <<name, target>> -> the place, or Unusable
    NoTarget,       \* the content of an entry the broker did not make
    Requests,       \* the requests clients send
    NoRequest,      \* no request is being served
    MaxRequests, MaxOutside, MaxCrashes     \* bounds of the exploration

NoName == "NoName"
NoKind == "NoKind"
NoPlan == "NoPlan"
NoCode == "NoCode"
Ok == "Ok"

RequestForms == {"valid", "garbled", "unsupported"}
RequestRecords ==
    [form : RequestForms, user : Users, link_path : Spellings,
     target_path : Targets, target_kind : TargetKinds \cup {NoHint},
     replace_existing_symlink : BOOLEAN]

ASSUME TokensAreDistinct == Service \notin Users /\ Rejected \subseteq Users
ASSUME PathsAreFunctions ==
    /\ Unusable \notin Names \cup Places
    /\ NoName \notin Names
    /\ Lexical \in [Spellings -> Names \cup {Unusable}]
    /\ Place \in [Names \X Targets -> Places \cup {Unusable}]
ASSUME LayoutsAreFunctions ==
    \A L \in Layouts :
        /\ L.leads \in [Names -> Locations]
        /\ L.own \in [Locations -> Names]
        /\ \A l \in Locations : L.leads[L.own[l]] = l
        /\ \A M \in Layouts, n \in Roots : L.leads[n] = M.leads[n]
ASSUME SetsOfPaths ==
    /\ Roots \subseteq Names
    /\ BuiltIn \subseteq Names
    /\ Relative \subseteq Targets
    /\ NoTarget \notin Targets
ASSUME RequestsAreRecords == Requests \subseteq RequestRecords
ASSUME Bounds == MaxRequests \in Nat /\ MaxOutside \in Nat /\ MaxCrashes \in Nat

VARIABLES
    \* the world outside the broker
    layout,         \* where names lead, and what entries are called, now
    fs,             \* entry -> the object it holds
    points,         \* entry -> the content of the link there
    places,         \* place -> what fs::metadata says of it
    config,         \* names under the administrator's blacklist
    grants,         \* <<user, entry>>: may create entries in its directory
    audit,          \* the entries of manifest.jsonl
    \* the worker
    pc,             \* the call it is about to make
    token,          \* the token of its thread
    active,         \* ClientImpersonation.active
    req, name, kind, plan, dirAttr,     \* its locals
    code,           \* the result it is about to return
    \* history
    served,         \* requests taken so far; the number of the present one
    done,           \* request -> what the broker did for it
    answers,        \* request -> its answer
    vetted,         \* what has been established for the present request
    raced,          \* what others changed since the worker last looked
    outside, crashes

world == <<layout, fs, points, places, config, grants>>
locals == <<req, name, kind, plan, dirAttr>>
ghosts == <<served, done, answers, outside, crashes>>
vars == <<layout, fs, points, places, config, grants, audit, pc, token, active,
          req, name, kind, plan, dirAttr, code, served, done, answers, vetted,
          raced, outside, crashes>>

-----------------------------------------------------------------------------
(* Helpers *)

RequestNumbers == 1 .. MaxRequests
Steps ==
    {"schema", "impersonate", "identify", "normalize", "policy", "access",
     "revert", "kind", "inspect", "recheck", "metadata", "remove", "create",
     "audit", "finish"}
Answers == ErrorCodes \cup {Ok, NoCode, "lost"}

At == layout.leads[name]

\* The entries of roots.
RootEntries == {layout.leads[n] : n \in Roots}

\* should_canonicalize_full_path: only an existing entry that is no link is
\* resolved; every other path keeps the name its text gives.
normalize_for_policy(s) ==
    LET n == Lexical[s]
    IN  IF n = Unusable THEN Unusable
        ELSE LET o == fs[layout.leads[n]]
             IN  IF o # "nothing" /\ ~IsSymlink(o) THEN layout.own[layout.leads[n]] ELSE n

\* target_path_for_inspection fails for a relative target of a root.
target_path_for_inspection(n, t) ==
    IF t \in Relative /\ n \in Roots THEN Unusable ELSE Place[<<n, t>>]

\* A name that is_blocked normalises once more before it compares.
renormalized(n) ==
    LET o == fs[layout.leads[n]]
    IN  IF o # "nothing" /\ ~IsSymlink(o) THEN layout.own[layout.leads[n]] ELSE n

\* Faulty variant: the administrator's entries are not merged in.
is_blocked_built_in(n) == renormalized(n) \in BuiltIn

is_blocked(n) == renormalized(n) \in BuiltIn \cup config

\* Faulty variant: the directory is opened under the service token.
may_add_as_service(t, n) == n \notin Roots

\* Opening the parent with FILE_ADD_FILE | FILE_ADD_SUBDIRECTORY as token t.
may_add_entries(t, n) ==
    n \notin Roots /\ (t = Service \/ <<t, layout.leads[n]>> \in grants)

\* Faulty variant: the error of the failed creation is returned as it is.
unnamed_create_failure(p, err) == err

\* Faulty variant: the code follows what was asked for, not what was done.
partial_when_asked(p, err) ==
    IF req.replace_existing_symlink THEN "ReplacementPartiallyCompleted" ELSE err

\* The two error arms after create_symbolic_link.
create_failure(p, err) ==
    IF p = "ReplaceExistingSymlink" THEN "ReplacementPartiallyCompleted" ELSE err

\* Faulty variant: a failure to write the audit entry is ignored.
audit_failure_ignored == Ok

audit_failure == "CreateSymlinkFailed"

Entry(n) == [request |-> served, user |-> req.user, link |-> n,
             target |-> req.target_path, target_kind |-> kind]

-----------------------------------------------------------------------------
(* Init *)

Init ==
    /\ layout \in Layouts
    /\ fs \in [Locations -> Objects]
    /\ \A l \in RootEntries : fs[l] = "directory"
    /\ points = [l \in Locations |-> NoTarget]
    /\ places \in [Places -> TargetStates]
    /\ config = {}
    /\ grants = Users \X Locations
    /\ audit = {}
    /\ pc = "idle" /\ token = Service /\ active = FALSE
    /\ req = NoRequest /\ name = NoName /\ kind = NoKind /\ plan = NoPlan
    /\ dirAttr = FALSE /\ code = NoCode
    /\ served = 0
    /\ done = [n \in RequestNumbers |-> {}]
    /\ answers = [n \in RequestNumbers |-> NoCode]
    /\ vetted = {} /\ raced = {}
    /\ outside = 0 /\ crashes = 0

-----------------------------------------------------------------------------
(* The steps of a request *)

Fail(c) == pc' = "finish" /\ code' = c
GoTo(p) == pc' = p /\ code' = code

\* process_pipe_client has read a message.
Receive(r) ==
    /\ pc = "idle" /\ served < MaxRequests
    /\ req' = r /\ pc' = "schema" /\ served' = served + 1
    /\ vetted' = {} /\ raced' = {}
    /\ UNCHANGED <<world, audit, token, active, name, kind, plan, dirAttr,
                   code, done, answers, outside, crashes>>

\* The JSON is parsed; validate_request_schema looks at version and operation.
ValidateSchema ==
    /\ pc = "schema"
    /\ IF req.form = "valid" THEN GoTo("impersonate") ELSE Fail("ServiceUnavailable")
    /\ UNCHANGED <<world, audit, token, active, locals, ghosts, vetted, raced>>

\* ClientImpersonation::start
Impersonate ==
    /\ pc = "impersonate"
    /\ \/ GoTo("identify") /\ token' = req.user /\ active' = TRUE
       \/ Fail("RemoteClientRejected") /\ UNCHANGED <<token, active>>
    /\ UNCHANGED <<world, audit, locals, ghosts, vetted, raced>>

\* identify_client: the token of the thread is opened and its SIDs are read.
IdentifyClient ==
    /\ pc = "identify"
    /\ \/ /\ token \notin Rejected
          /\ GoTo("normalize")
          /\ vetted' = IF req.user \in Rejected THEN vetted
                      ELSE vetted \cup {<<"caller", req.user>>}
       \/ Fail("RemoteClientRejected") /\ UNCHANGED vetted
    /\ UNCHANGED <<world, audit, token, active, locals, ghosts, raced>>

\* Link and target are normalised; the target's normal form is thrown away,
\* but a target that has none ends the request.
NormalizePaths ==
    /\ pc = "normalize"
    /\ LET n == normalize_for_policy(req.link_path)
       IN  IF n = Unusable \/ target_path_for_inspection(n, req.target_path) = Unusable
           THEN Fail("PathNormalizationFailed") /\ UNCHANGED name
           ELSE GoTo("policy") /\ name' = n
    /\ UNCHANGED <<world, audit, token, active, req, kind, plan, dirAttr, ghosts, vetted, raced>>

\* load_config, still under the client's token, then the merged blacklist,
\* for which the name is normalised again and may fail to be by now.
CheckPolicy ==
    /\ pc = "policy"
    /\ \/ \E c \in {"ServiceUnavailable", "PathNormalizationFailed"} : Fail(c)
          /\ UNCHANGED vetted
       \/ /\ is_blocked(name)
          /\ Fail("SourceBlacklisted") /\ UNCHANGED vetted
       \/ /\ ~is_blocked(name)
          /\ GoTo("access")
          /\ vetted' = IF layout.own[At] \in BuiltIn \cup config
                       THEN vetted ELSE vetted \cup {<<"policy", At>>}
    /\ raced' = raced \ {"policy"}
    /\ UNCHANGED <<world, audit, token, active, locals, ghosts>>

\* verify_parent_create_access, as whoever the thread is at this moment.
VerifyParentAccess ==
    /\ pc = "access"
    /\ \/ /\ may_add_entries(token, name)
          /\ GoTo("revert")
          /\ vetted' = IF <<req.user, At>> \in grants
                       THEN vetted \cup {<<"parent", At>>} ELSE vetted
       \/ Fail("CallerParentWriteDenied") /\ UNCHANGED vetted
    /\ raced' = raced \ {"parent"}
    /\ UNCHANGED <<world, audit, token, active, locals, ghosts>>

\* ClientImpersonation::revert
Revert ==
    /\ pc = "revert"
    /\ \/ GoTo("kind") /\ token' = Service /\ active' = FALSE
       \/ Fail("ServiceUnavailable") /\ UNCHANGED <<token, active>>
    /\ UNCHANGED <<world, audit, locals, ghosts, vetted, raced>>

\* decide_target_kind on the place the target leads to from the link.
DecideKind ==
    /\ pc = "kind"
    /\ LET place == target_path_for_inspection(name, req.target_path)
           k == decide_target_kind(places[place], req.target_kind)
       IN  IF k \in TargetKinds THEN GoTo("inspect") /\ kind' = k
           ELSE Fail(k) /\ UNCHANGED kind
    /\ raced' = raced \ {"target"}
    /\ UNCHANGED <<world, audit, token, active, req, name, plan, dirAttr, ghosts, vetted>>

\* inspect_link_path_state, then plan_replacement.
InspectAndPlan ==
    /\ pc = "inspect"
    /\ \/ LET p == plan_replacement(inspect_link_path_state(fs[At]),
                                    req.replace_existing_symlink)
          IN  IF p \in ReplacementPlans
              THEN /\ plan' = p
                   /\ GoTo(IF p = "ReplaceExistingSymlink" THEN "recheck" ELSE "create")
              ELSE Fail(p) /\ UNCHANGED plan
       \/ Fail("CreateSymlinkFailed") /\ UNCHANGED plan
    /\ raced' = raced \ {"link"}
    /\ UNCHANGED <<world, audit, token, active, req, name, kind, dirAttr, ghosts, vetted>>

\* The second look of remove_existing_symlink_after_recheck.  Its plan is
\* dropped: an entry that has vanished meanwhile passes.
Recheck ==
    /\ pc = "recheck"
    /\ \/ LET p == plan_replacement(inspect_link_path_state(fs[At]), TRUE)
          IN  IF p \in ReplacementPlans THEN GoTo("metadata") ELSE Fail(p)
       \/ Fail("CreateSymlinkFailed")
    /\ raced' = raced \ {"link"}
    /\ UNCHANGED <<world, audit, token, active, locals, ghosts, vetted>>

\* symlink_metadata, for the directory attribute.
ReadMetadata ==
    /\ pc = "metadata"
    /\ \/ /\ fs[At] # "nothing"
          /\ GoTo("remove") /\ dirAttr' = HasDirectoryAttribute(fs[At])
       \/ Fail("CreateSymlinkFailed") /\ UNCHANGED dirAttr
    /\ UNCHANGED <<world, audit, token, active, req, name, kind, plan, ghosts, vetted, raced>>

\* remove_dir takes whatever has the directory attribute (a directory only if
\* it is empty), remove_file whatever has not.  Neither looks at the entry again.
Removable ==
    /\ fs[At] # "nothing"
    /\ dirAttr = HasDirectoryAttribute(fs[At])

Remove ==
    /\ pc = "remove"
    /\ \/ /\ Removable
          /\ fs' = [fs EXCEPT ![At] = "nothing"]
          /\ points' = [points EXCEPT ![At] = NoTarget]
          /\ done' = [done EXCEPT ![served] = @ \cup {"removed"}]
          /\ GoTo("create")
          /\ raced' = raced \ {"link"}
       \/ Fail("CreateSymlinkFailed") /\ UNCHANGED <<fs, points, done, raced>>
    /\ UNCHANGED <<layout, places, config, grants, audit, token, active, locals,
                   served, answers, outside, crashes, vetted>>

\* Faulty variant: a replacement that finds a new entry starts over.
CreateRetrying ==
    /\ pc = "create"
    /\ \/ /\ fs[At] = "nothing" /\ token = Service
          /\ fs' = [fs EXCEPT ![At] = LinkObject(kind)]
          /\ points' = [points EXCEPT ![At] = req.target_path]
          /\ done' = [done EXCEPT ![served] = @ \cup {"linked"}]
          /\ GoTo("audit")
          /\ raced' = raced \ {"link"}
       \/ /\ IF fs[At] # "nothing" /\ plan = "ReplaceExistingSymlink"
             THEN GoTo("recheck")
             ELSE Fail(create_failure(plan, "CreateSymlinkFailed"))
          /\ UNCHANGED <<fs, points, done, raced>>
    /\ UNCHANGED <<layout, places, config, grants, audit, token, active, locals,
                   served, answers, outside, crashes, vetted>>

\* create_symbolic_link without the unprivileged flag.
Create ==
    /\ pc = "create"
    /\ \/ /\ fs[At] = "nothing" /\ token = Service
          /\ fs' = [fs EXCEPT ![At] = LinkObject(kind)]
          /\ points' = [points EXCEPT ![At] = req.target_path]
          /\ done' = [done EXCEPT ![served] = @ \cup {"linked"}]
          /\ GoTo("audit")
          /\ raced' = raced \ {"link"}
       \/ /\ \E err \in {"PrivilegeRequired", "LinkAlreadyExists", "CreateSymlinkFailed"} :
               /\ err = "PrivilegeRequired" => token # Service
               /\ err = "LinkAlreadyExists" => fs[At] # "nothing"
               /\ Fail(create_failure(plan, err))
          /\ UNCHANGED <<fs, points, done, raced>>
    /\ UNCHANGED <<layout, places, config, grants, audit, token, active, locals,
                   served, answers, outside, crashes, vetted>>

\* write_audit_log; any failure on the way loses the entry.
WriteAudit ==
    /\ pc = "audit"
    /\ \/ audit' = audit \cup {Entry(name)} /\ Fail(Ok)
       \/ Fail(audit_failure) /\ UNCHANGED audit
    /\ UNCHANGED <<world, token, active, locals, ghosts, vetted, raced>>

\* process_create_symlink_request returns: ClientImpersonation is dropped,
\* which reverts once more if it is still active and ignores a failure.
Finish ==
    /\ pc = "finish"
    /\ pc' = "idle" /\ code' = NoCode
    /\ answers' = [answers EXCEPT ![served] = code]
    /\ IF active THEN token' \in {Service, token} ELSE token' = token
    /\ active' = FALSE
    /\ req' = NoRequest /\ name' = NoName /\ kind' = NoKind /\ plan' = NoPlan
    /\ dirAttr' = FALSE
    /\ UNCHANGED <<world, audit, served, done, outside, crashes, vetted, raced>>

-----------------------------------------------------------------------------
(* The broker process *)

\* The process ends, wherever its worker is; what it wrote stays.
Crash ==
    /\ pc \in Steps \cup {"idle"} /\ crashes < MaxCrashes
    /\ crashes' = crashes + 1
    /\ answers' = IF pc = "idle" THEN answers ELSE [answers EXCEPT ![served] = "lost"]
    /\ pc' = "down" /\ token' = Service /\ active' = FALSE /\ code' = NoCode
    /\ req' = NoRequest /\ name' = NoName /\ kind' = NoKind /\ plan' = NoPlan
    /\ dirAttr' = FALSE
    /\ UNCHANGED <<world, audit, served, done, outside, vetted, raced>>

Restart ==
    /\ pc = "down" /\ pc' = "idle"
    /\ UNCHANGED <<world, audit, token, active, locals, code, ghosts, vetted, raced>>

-----------------------------------------------------------------------------
(* Everybody else *)

Others ==
    /\ outside < MaxOutside /\ outside' = outside + 1
    /\ UNCHANGED <<audit, pc, token, active, locals, code, served, done, answers,
                   crashes, vetted>>

\* Another process creates, deletes or replaces an entry.
ChangeEntry(l, o) ==
    /\ l \notin RootEntries /\ o # fs[l]
    /\ fs' = [fs EXCEPT ![l] = o]
    /\ points' = [points EXCEPT ![l] = NoTarget]
    /\ raced' = IF name # NoName /\ l = At THEN raced \cup {"link"} ELSE raced
    /\ UNCHANGED <<layout, places, config, grants>>
    /\ Others

\* A directory on the way is renamed, or a junction there is pointed elsewhere
\* or made: the name the broker goes by leads to another entry, or its entry is
\* called otherwise.  (What a target leads to then is ChangePlace's.)
Repoint(L) ==
    /\ L # layout /\ layout' = L
    /\ raced' = raced \cup
          IF name = NoName THEN {}
          ELSE IF L.leads[name] # At THEN {"link", "policy", "parent"}
          ELSE IF L.own[At] # layout.own[At] THEN {"policy"} ELSE {}
    /\ UNCHANGED <<fs, points, places, config, grants>>
    /\ Others

\* Another process changes what a target leads to.
ChangePlace(p, s) ==
    /\ s # places[p]
    /\ places' = [places EXCEPT ![p] = s]
    /\ raced' = IF name # NoName /\ p = target_path_for_inspection(name, req.target_path)
                THEN raced \cup {"target"} ELSE raced
    /\ UNCHANGED <<layout, fs, points, config, grants>>
    /\ Others

\* The owner of a directory changes who may create entries in it.
ChangeGrant(u, l) ==
    /\ grants' = IF <<u, l>> \in grants THEN grants \ {<<u, l>>} ELSE grants \cup {<<u, l>>}
    /\ UNCHANGED <<layout, fs, points, places, config, raced>>
    /\ Others

\* The administrator saves a configuration.
ChangeConfig(c) ==
    /\ c # config /\ config' = c
    /\ UNCHANGED <<layout, fs, points, places, grants, raced>>
    /\ Others

-----------------------------------------------------------------------------
WorkerStep ==
    \/ ValidateSchema \/ Impersonate \/ IdentifyClient \/ NormalizePaths
    \/ CheckPolicy \/ VerifyParentAccess \/ Revert \/ DecideKind
    \/ InspectAndPlan \/ Recheck \/ ReadMetadata \/ Remove \/ Create
    \/ WriteAudit \/ Finish

OutsideStep ==
    \/ \E l \in Locations, o \in Objects : ChangeEntry(l, o)
    \/ \E L \in Layouts : Repoint(L)
    \/ \E p \in Places, s \in TargetStates : ChangePlace(p, s)
    \/ \E u \in Users, l \in Locations : ChangeGrant(u, l)
    \/ \E c \in SUBSET Names : ChangeConfig(c)

Next ==
    \/ \E r \in Requests : Receive(r)
    \/ WorkerStep
    \/ Crash \/ Restart
    \/ OutsideStep

Spec == Init /\ [][Next]_vars

-----------------------------------------------------------------------------
(* Properties *)

WorldOK ==
    /\ layout \in Layouts
    /\ fs \in [Locations -> Objects]
    /\ points \in [Locations -> Targets \cup {NoTarget}]
    /\ places \in [Places -> TargetStates]
    /\ config \subseteq Names
    /\ grants \subseteq Users \X Locations
    /\ audit \subseteq [request : RequestNumbers, user : Users, link : Names,
                        target : Targets, target_kind : TargetKinds]

WorkerOK ==
    /\ pc \in Steps \cup {"idle", "down"}
    /\ token \in Users \cup {Service}
    /\ active \in BOOLEAN
    /\ IF pc \in Steps THEN req \in Requests ELSE req = NoRequest
    /\ name \in Names \cup {NoName}
    /\ kind \in TargetKinds \cup {NoKind}
    /\ plan \in ReplacementPlans \cup {NoPlan}
    /\ dirAttr \in BOOLEAN
    /\ code \in ErrorCodes \cup {Ok, NoCode}

HistoryOK ==
    /\ served \in 0 .. MaxRequests
    /\ done \in [RequestNumbers -> SUBSET {"removed", "linked"}]
    /\ answers \in [RequestNumbers -> Answers]
    /\ vetted \subseteq ({"caller"} \X Users) \cup ({"policy", "parent"} \X Locations)
    /\ raced \subseteq {"link", "target", "policy", "parent"}
    /\ outside \in Nat /\ crashes \in Nat

\* Every variable stays in its set: the world, the worker and the history.
TypeOK == WorldOK /\ WorkerOK /\ HistoryOK

\* A step of the broker, as opposed to one of everybody else.
BrokerMoves == pc' # pc

\* Check c was made of entry l, or the names were re-pointed after it.
Checked(c, l) == <<c, l>> \in vetted \/ c \in raced

\* The broker changes a directory entry only under the service token, only
\* the entry that the name of the present request leads to, and only once it
\* has established who calls and, of that very entry, that this caller may
\* create entries there and that the blacklist does not cover its name.
\* Two cases are exempt.  A directory on the way can be re-pointed after a
\* check, for the broker goes by path (the window of design:68).  And the
\* blacklist is asked about the name: for one that leads through a junction to
\* a link or to nothing it is not asked about the entry (PathPolicy's
\* ClearIsOutsideResolved).
AuthorisedMutation ==
    [][\A l \in Locations :
          BrokerMoves /\ fs'[l] # fs[l]
          => /\ token = Service
             /\ l = At
             /\ <<"caller", req.user>> \in vetted
             /\ Checked("parent", l)
             /\ name = layout.own[l] => Checked("policy", l)]_vars

\* `-f` takes away a link and nothing else: a file, a directory or any other
\* object can only go if somebody else put it there after the broker's last
\* look at the type (the window the design accepts), and nothing goes unless
\* replacement was asked for.
RemovalIsSafe ==
    [][\A l \in Locations :
          BrokerMoves /\ fs'[l] # fs[l] /\ fs[l] # "nothing"
          => /\ req.replace_existing_symlink
             /\ IsSymlink(fs[l]) \/ "link" \in raced]_vars

\* A client that is told ReplacementPartiallyCompleted has lost its old link
\* and got no new one; a client whose link was taken without a new one is
\* told exactly that, unless the broker died before it could.
PartialReplacementReported ==
    \A n \in RequestNumbers :
        answers[n] \notin {NoCode, "lost"}
        => (answers[n] = "ReplacementPartiallyCompleted"
            <=> "removed" \in done[n] /\ "linked" \notin done[n])

\* Ok means that the link was made and recorded.  Every other answer but
\* CreateSymlinkFailed and the partial replacement means that nothing was
\* touched; CreateSymlinkFailed also covers a link that exists unrecorded.
AnswersAreTrue ==
    \A n \in RequestNumbers :
        LET recorded == \E e \in audit : e.request = n
        IN  /\ answers[n] = Ok => "linked" \in done[n] /\ recorded
            /\ answers[n] \in ErrorCodes \ {"CreateSymlinkFailed", "ReplacementPartiallyCompleted"}
               => done[n] = {}
            /\ answers[n] = "CreateSymlinkFailed" /\ done[n] # {}
               => "linked" \in done[n] /\ ~recorded

\* The manifest and the links agree across crashes and restarts: an entry
\* stands for a link that was made, and a link without an entry is the one
\* being recorded now, one whose client was refused an Ok, or one the broker
\* died over.
AuditMatchesLinks ==
    /\ \A e \in audit : "linked" \in done[e.request]
    /\ \A n \in RequestNumbers :
          "linked" \in done[n] =>
             \/ \E e \in audit : e.request = n
             \/ n = served /\ pc = "audit"
             \/ n = served /\ pc = "finish" /\ code = "CreateSymlinkFailed"
             \/ answers[n] \in {"CreateSymlinkFailed", "lost"}

\* Until somebody else interferes with the entry or the target, the link the
\* broker made is there, holds the content the client wrote, and is of the
\* target's kind, or of the hinted kind for a target that does not exist.
LinkAsAsked ==
    pc = "audit" \/ (pc = "finish" /\ code = Ok) =>
        /\ "link" \notin raced =>
              fs[At] = LinkObject(kind) /\ points[At] = req.target_path
        /\ "target" \notin raced =>
              LET state == places[target_path_for_inspection(name, req.target_path)]
              IN  CASE state = "directory"  -> kind = "Dir"
                    [] state = "file"       -> kind = "File"
                    [] state = "notFound"   -> kind = req.target_kind
                    [] state = "unreadable" -> FALSE

\* What the design document says of replacement (design:506): an entry that
\* is a junction, a mount point or an unknown reparse point is refused.
OnlyTrueSymlinksRemoved ==
    [][\A l \in Locations :
          BrokerMoves /\ fs'[l] # fs[l] /\ fs[l] # "nothing" /\ "link" \notin raced
          => fs[l] \in TrueSymlinks]_vars

-----------------------------------------------------------------------------
(* The worker keeps the promise of LinkService *)

StageOf(n) ==
    IF n > served THEN "waiting"
    ELSE IF answers[n] = NoCode THEN "open"
    ELSE IF answers[n] = "lost" THEN "lost" ELSE "answered"

EffectOf(n) ==
    IF "linked" \in done[n]
    THEN IF \E e \in audit : e.request = n THEN "recorded" ELSE "linked"
    ELSE IF "removed" \in done[n] THEN "removed" ELSE "none"

Promise == INSTANCE LinkService WITH
    NumberOfRequests <- MaxRequests,
    entry <- fs,
    stage <- [n \in RequestNumbers |-> StageOf(n)],
    effect <- [n \in RequestNumbers |-> EffectOf(n)],
    answer <- [n \in RequestNumbers |-> IF answers[n] = "lost" THEN NoCode ELSE answers[n]],
    foreign <- outside

\* Every behaviour of the worker, seen through what it has done and answered,
\* is one of the promised service: in particular it never removes twice, never
\* makes a second link and never answers what is not so.
ImplementsLinkService == Promise!Spec

=============================================================================
