# win-symlinks: TLA+ models, checks and proofs

win-symlinks gives ordinary Windows users `ln -s`. A client library tries to
create the symbolic link itself and, for want of the privilege, asks a
LocalSystem service, the broker, over a named pipe. This directory models that
system from its source, checks the models with TLC on small instances and
proves with TLAPS, for every value of the constants, the safety of every part,
and that the request worker implements what creating links promises.
`PROJECT.json` lists the runs, the faulty variants that each property detects, the
source lines behind each definition, the hazards and the theorems.

    tlc -workers 2 -config RequestSafety.cfg MCBrokerRequest    one run
    tlapm BrokerRequest_proofs.tla                              one module of proofs

## 1. The system

Paths are relative to `src/crates/`; `C` is `win-symlinks-client/src`, `B` is
`win-symlinks/src`.

| component | state it keeps | operations | talks to |
|---|---|---|---|
| link decisions, `C/direct.rs` (the broker's `symlink` module re-exports them) | none | `inspect_link_path_state`, `plan_replacement`, `decide_target_kind`, `create_symbolic_link` | the file system |
| request worker, `B/ipc/mod.rs` | the thread's token, `ClientImpersonation.active`, locals of one request; `manifest.jsonl` | `process_create_symlink_request`: schema, impersonation, policy, parent access, revert, kind, plan, recheck, removal, creation, audit | policy, configuration, file system |
| pipe server and main thread, `B/ipc/mod.rs`, `B/service/mod.rs` | one pipe instance, `should_stop`, the reported status | `run_broker_pipe_server`, `process_pipe_client`, `run_broker_service_loop`, `wake_broker_pipe_server` | clients; the service control manager |
| client transport, `C/pipe.rs`, `C/service_identity.rs` | a channel between the caller and a detached worker, a pipe handle | `submit_create_symlink_request`, `check_broker_pipe` | the pipe server |
| client API, `C/lib.rs` | none | `create_symlink`, `create_symlink_via_broker` | link decisions, transport |
| `ln`, `B/bin/ln.rs` | none | `parse_link_command`, `resolve_link_path` | client API |
| service commands, `B/service/mod.rs` | the registration and the state kept by the service control manager | install, uninstall, start, stop, status | service control manager |
| path policy, `B/path_policy/mod.rs` | none | `normalize_for_policy`, `is_blocked`, the built-in lists | file system, environment |
| configuration, `B/config/mod.rs` | `config.json` | `load_config` | file system |
| doctor, `B/doctor/mod.rs` | none (a temporary link of its own) | read-only checks, a probe of the pipe, a probe of direct creation | everything |
| management command, `B/bin/win-symlinks.rs`, `B/bin/win-symlinks-broker.rs` | none | dispatch | service commands, doctor, configuration |
| error codes, `C/error.rs` | none | the enumeration | everything |
| `install.ps1` and test scripts | | linear scripts | service commands |

### Where it is hard

* **Stale looks.** Every step of a request is a system call on a path. Links,
  targets, permissions and configuration can change between two of them. The
  worker looks at the entry twice, reads its attribute a third time and then
  removes by path; policy normalises a name that was normalised before. A name
  may lead elsewhere when it is used than when it was checked.
* **Many spellings.** One name can be written with dots, either separator, two
  prefixes, any case, or from the current directory. Policy has to see through
  that, and resolves names against a disk that changes while it does.
* **Order of impersonation and checks.** Checks run as the client, changes as
  the service, and any call can fail in between. A failed `revert` is tried
  again by `drop`, whose failure is ignored.
* **Partial failure and crashes.** Removal, creation and audit are three calls;
  the process can die between them and nothing repairs that.
* **The pipe.** One instance, many clients, blocking reads, writes and flushes
  on both sides, clients that leave at any time, a worker that outlives its
  caller's time limit, and a stop that is one flag and one wake-up. The thread
  that serves one client's request serves the next one's.
* **Two ways to one link.** The direct way and the broker decide separately,
  and several commands race for one name.
* **The service control manager.** Commands are check-then-act over a state that
  other shells and the service itself change; waits poll with a deadline. The
  doctor puts one report together from looks at different moments.

### What makes it correct

| component | properties |
|---|---|
| request worker | nothing is changed but as the service, for a vetted caller, at the entry that was vetted (`AuthorisedMutation`); `-f` takes links only (`RemovalIsSafe`); the link is the one asked for (`LinkAsAsked`); answers, links and manifest agree (`PartialReplacementReported`, `AnswersAreTrue`, `AuditMatchesLinks`); all of it is the promise of `LinkService` (`ImplementsLinkService`) |
| pipe, transport, main thread | the answer is the one to this request (`AnswerIsOutcome`); a connection failure means that nothing was done (`FailureMeansUnserved`); nobody is served after a stop (`LateCallersUnserved`); nobody waits for ever (`SubmitReturns`, `NobodyWaitsForEver`, `StopCompletesIfWoken`) |
| `ln` and client API | nothing is lost without `-f`, and with it links only, but for what is put there after the broker's second look (`NothingLostUnforced`); containers are not replaced (`ContainersStay`); one link at most and a true answer (`AnswersMatchLinks`); the right kind (`KindIsRight`); commands end (`CommandsEnd`) |
| service commands | Ok was true of the service (`OkWasTrue`); an installed service starts with a delay (`DelayedStart`); commands end (`ShellsEnd`) |
| path policy, configuration | of names whose ways are straight (section 2): the name that is judged is that of the place it leads to (`CandidateIsMeant`), the verdict is the one that place calls for (`VerdictIsRight`), and what is in a blocked directory all the time is not cleared while the disk changes (`ClearWasOutside`); of every list: no entry is lost in the merge (`MergeLosesNothing`); of other names the design is not met (`ClearIsOutsideResolved`, violated) |
| doctor | every finding was true of some moment (`FindingsWereTrue`); satisfied means usable, as far as is known (`SatisfiedMeansUsable`) |
| the broker as a whole | a client is told what was done for it (`ToldWhatWasDone`); a client that did not get through lost nothing (`NotConnectedNotTouched`); a stop cuts no request short (`StopFinishesRequests`); one entry has one winner (`OneWinner`) |

## 2. The modules

`SymlinkOps` is the vocabulary: NTFS objects, what the standard library and the
code tell apart about them, and the pure decisions. `BrokerRequest`,
`LinkCommand` and `ServiceControl` extend it. The three components that meet at
the pipe are modelled at two levels of detail: each of `BrokerRequest`,
`BrokerPipe` and `LinkCommand` has its own steps in full and reduces the others
to what it can see of them. `Broker` puts the first two together.

    LinkService  (what creating links promises)
         ^ implements                         SymlinkOps
    BrokerRequest     (the request worker)
         | extended by    \ its policy in full
         |                 PathPolicy     (normalisation, blacklist, verdict)
    Broker            (the request worker behind the pipe, one process)
         | instance of
    BrokerPipe        (server, main thread, client worker, caller)
         | its outcome is one step of
    LinkCommand       (ln, direct creation, broker)

    ServiceControl    (shells against the service control manager)
         | extended by
    Doctor            (one of the shells looks at everything)

Each of these has a module that states its inductive invariant and
one that proves it. The invariant is kept apart from the proofs so that TLC can
check it: the MC module of the component extends it.

| module | invariant | proofs |
|---|---|---|
| `SymlinkOps` | | `SymlinkOps_proofs` |
| `BrokerRequest` | `BrokerRequestInvariant` | `BrokerRequest_proofs`, `BrokerRequestPromise_proofs` |
| `BrokerPipe` | `BrokerPipeInvariant` | `BrokerPipe_proofs` |
| `Broker` | `BrokerInvariant` | `Broker_proofs` |
| `LinkCommand` | `LinkCommandInvariant` | `LinkCommand_proofs` |
| `Doctor`, and with it `ServiceControl` | `DoctorInvariant` | `Doctor_proofs` |
| `PathPolicy` | `PathPolicyInvariant` | `PathPolicy_proofs` |

### BrokerRequest: one step per system call

`pc` names the call that the worker makes next; each call can fail, which leads
to `finish` with the code that the source returns there. `token` is the token of
the thread and is changed by `Impersonate`, `Revert` and the drop in `Finish`.
The world has entries (`fs`, and `points` for the contents of links), which entry a
name leads to and what an entry is called (`layout`), what targets lead to
(`places`), the administrator's blacklist (`config`) and who may create entries
where (`grants`). `OutsideStep` changes any of them between any two steps; `Repoint`
is the renamed directory, or the re-pointed junction, on the way to a name. `Crash` ends the process anywhere, `Restart` brings it back; only the
world and the manifest survive.

Paths are elements of small sets. `Lexical` is what the text of a spelling
normalises to, `layout.leads` the entry a name leads to (`At`), `layout.own` an entry's
resolved name. Normalisation resolves an entry that exists and is no link and keeps the
text of any other (`should_canonicalize_full_path`), so that its result depends
on the state of the file system when it is called.

The history variables `done`, `answers`, `vetted` and `raced` say what the broker
did for each request, what it answered, what it has established, of which caller and of
which entry, and what others changed since its last look. No guard of a code step
reads them. `AuthorisedMutation` is about the entry that is changed and not
about its name, and says so in two exemptions: a directory re-pointed after a check
takes the name to an entry that was not checked, which going by path cannot exclude
(the window that design:68 accepts); and the policy of a name that leads through a
junction to nothing, or to a link, is that of its text (see `PathPolicy`).

### LinkService: the promise

A request takes away at most one old link, makes at most one new one, records
it, and ends with an answer that tells these cases apart, or is lost. `ActElsewhere`
is a change by others, which a request must bear. The refinement mapping is
computed from `fs`, `done`, `audit` and `answers`.

### BrokerPipe: one instance, many waits

Server thread, main thread, caller and client worker are processes of their own
with a program counter each (`srv`, `svc`, `main`, `work`). The pipe is the
single instance with its peer, the request in it (`inbox`), the response on the
client's end (`reply`) and the state of each client's handle. Blocking calls are
guards: `ReadRequest` waits for a message or a hang-up, `Flush` for the client to
have read, `JoinServer` for the server thread. Time limits are choices that can
be made at any moment the awaited event has not come. `Quit` ends a client
process, `Die` the service process.

### Broker: the worker behind the pipe

`Broker` extends `BrokerRequest` and takes `BrokerPipe` as an instance. Both halves
run on one server thread: `Take` is `ReadRequest` of the pipe and `Receive` of the
worker, `Answer` is the worker's `Finish` and the pipe's `ServeRequest` with the
verdict that the worker's code gives, and in between the steps of the worker run
while clients come, time out, hang up and stop the service. `End` is the end
of the process for both, whether main returns or is killed; `StartAgain` brings
back a fresh server thread on the same disk. A connection to the former process
does not pass `VerifyServer`, because the process ids differ. `turns` lists the clients
whose requests were taken, `EntryOf` the entry that each of them is about.

`ConnectFailures` is what a worker thread of the client can report before the
request is written. A caller's own time-out is not among them: its detached
worker goes on, and its request can still be served.

### PathPolicy: what a name means and whether it is blocked

A path is a sequence of components, a component a sequence of syllables, so
that texts can share a beginning, differ in case, end in a dot or contain a
colon without being spelled out. A spelling has the form of its beginning (drive,
UNC, the two extended prefixes, device names, relative to a drive, a root or the
current directory). The functions of `path_policy/mod.rs` are operators of the
same names. `NormalizeLink`, `LoadConfig`, `MergeBlacklist`, `JudgeRoots`,
`JudgeProfile` and one `JudgeEntry` per blacklist entry are the calls of one
request in their order; `ChangeDisk` comes between any two.

What they are checked against is said without the code: `Meant` drops a name if
the components after it go up past it (a count, where the code keeps a stack),
`Resolved` follows every link on the way, whether there is anything at its end or
not, `Place` is where a link of that name is put, `Extent` the directory that an entry
blocks, `Within` compares component by component (where the code compares texts), and
`RightVerdict` is the policy of a disk that keeps still. `Usable` says which spellings
mean anything at all.

The code does not resolve every name: `should_canonicalize_full_path` keeps the text of a
name that holds nothing, or a link, with the directories above it as they were
written. Where one of these is reached by another name than its own, by a
junction, a link or a short name, code and design part (`ClearIsOutsideResolved`, violated).
What does hold is said of names whose way is `Straight`: something is there, and
is no link, so that it can be asked for its own name; or no directory on the way
has another name than the one that is written. `steady` and `around`, the histories
behind `CandidateIsMeant`, `VerdictIsRight` and `ClearWasOutside`, are of such
names, of LINK and of the directories it is compared with.

The constants may be any that have the shape of what they stand for: case folding is
idempotent and leaves dots, spaces, colons and `$` alone, texts can be sorted, what is
spelled as a path on a drive begins with the drive. A disk is a function from the
names, in lower case, that hold something to what `fs::canonicalize` returns for them, and
the set of those that are links; the canonical name of what is no link has a root and no
dot segments, and is its own canonical name. It may end in a dot, which other programs can create; the
code refuses such a name when it meets it.

### LinkCommand: two ways to one link

`Paths` are LINK itself and the name inside it when it leads to a directory.
TARGET means different things from the current directory, from LINK's parent and
from inside LINK; `target` holds what it leads to from each. `ParseCommand`,
`InspectAndPlan`, `DecideKind` and `CreateDirectly` are the client's calls. The broker
serves one request at a time: `BrokerDecidesKind`, `BrokerPlans`, `BrokerRechecks`,
`BrokerRemoves`, `BrokerCreates` and `BrokerRecords` are the calls that look at the paths or
change them, with the other commands and other processes between any two; `Refuse`
is any of its refusals before it looks. `GiveUp` is a time limit, after which the
request may still be served. `sawLast` notes what the broker last saw at its path, so that
`NothingLostUnforced` can except what was put there since.

### ServiceControl: check, act, poll

The state of the manager is `registered`, `delayed`, `state` and the handles in
`opened`. A shell's command is the calls it makes. `AutoStart` is the delayed
start at boot, `Report` and `Die` are the service. A deleted service goes with
its last handle.

### Doctor: looks at different moments

`Doctor` extends `ServiceControl`: one of the shells runs `doctor`. `LookAround`,
`CreateProbe` and `RemoveProbe` come first, then the service is opened and
queried, the pipe connected to and its process compared with the service's, then
PATH and the configuration; `ReportAndReturn` is the report and the exit code.
`machine` holds what can be found apart from the service, `report` a status for each
check, `server` the process behind the open connection, which may end while it is
open. `Beside` is a step of `ServiceControl`; `facts` notes what was true during the
visit, and no guard reads it.

### Not modelled

* Text: JSON, messages, help, the format of the audit entry and of SIDs.
* The request id. An answer belongs to its pipe instance in `BrokerPipe`; the
  id's comparison could only fail if that did not hold.
* The security descriptor of the pipe, access masks and privileges of tokens:
  Windows decides; `grants` and the failures of each call stand for it.
* Short (8.3) names as such. For the policy one is a name in a disk's `real` like
  that of a junction: resolved if it is the name of something that exists, kept if it is
  only on the way to a name that does not.
* White space around a path; characters that case folding of ASCII leaves alone; a
  `canonicalize` that fails for something that is there, upon which the code keeps the text.
* Mounted volume roots. The design has them blocked (design:436); `is_volume_root`
  recognises drives only, and the models have no volumes.
* Re-pointed directories, but for `BrokerRequest`, where any name may come to lead to
  another entry. In `PathPolicy` a disk changes as a whole, between the few disks of the run;
  in `LinkCommand` the one directory that changes is LINK itself; in `Broker` nothing does.
* The broker's checks in `LinkCommand`: what comes before `decide_target_kind` is one
  refusal (`Refuse`). `BrokerRequest` has these steps.
* Another program that serves a pipe of the same name. The client compares the pipe's
  process with the service's (`VerifyServer`); only the case of a former process of the
  service is modelled, since who may create that name is for Windows to say.
* How the doctor finds a build number or a registry value in the output of
  another program, and the two checks that always say the same (`named_pipe_dacl`
  and `named_pipe_remote_clients`).
* `config show` and the scripts: they read and print, or copy files and call the
  service commands. The setting `allow_direct_create_attempt` is read by no code
  and changes nothing.
* In `Broker` the process ends `MaxCrashes` times at most, once in the run: what is
  started again is not stopped or killed again.
* Windows itself is external: the pipe, the service control manager and the
  file system are modelled from the calls the code makes and the errors it
  tells apart.

## 3. The runs

Every configuration turns deadlock checking off: a broker that has served its
requests, a stopped service and a finished command really stop.

| run | question | bounds |
|---|---|---|
| `request_safety` | what may the broker change, for whom, and is the link right; do answers, manifest and links agree; is `RequestInv` an invariant; does the worker implement `LinkService` | nine requests (valid, garbled, unsupported, rejected caller, spelling without a name, stale target, root without a parent, with and without `-f` and hint) and, after any of them, a second with `-f` through a junction; three layouts of names and entries, one configured entry at a time; one interference and one crash, or two interferences during the first request |
| `request_junction` | does `-f` refuse a junction (design) | one request, no interference: violated |
| `pipe_safety` | answers and stops under all interleavings; is `PipeInv` an invariant | two interchangeable clients and a checker |
| `pipe_liveness` | does anybody wait for ever | a client and a checker |
| `pipe_stop` | does every stop complete (design) | a client: violated |
| `pipe_queue` | does a second request wait (design) | two clients: violated |
| `link_safety` | two commands for one LINK; is `CommandInv` an invariant; does every command return | every pair of four command lines (plain, `-f`, without the privilege, both) and the pair that is refused at once, four initial worlds, two views of TARGET, one interference |
| `link_relative` | do both ways decide alike (design) | no interference: violated |
| `service_commands` | what does Ok mean, what do the doctor's findings mean; is `DoctorInv` an invariant; do commands return | seven casts of three shells, one with the doctor; three machines |
| `path_policy` | on straight ways, is the judged name that of the place and the verdict the one it calls for; is `PathPolicyInvariant` an invariant | 92 spellings (every path of up to two of seven components below a drive, five of three components, and a few beneath a junction and of each other form), five states of the configuration, five values of USERPROFILE, three disks, one change |
| `path_resolved` | is every name in a blocked directory blocked (design) | as `path_policy`, on disks that keep still: violated |
| `broker` | is a client told what was done; is `BrokerInv` an invariant | two clients on one entry by two names, nothing there at first, one of them with `-f`; one end of the process, by stop or kill, and a restart; the client with `-f` may time out or be killed |

Why the bounds are enough to be of interest. Each hazard in the worker needs one
change by somebody else between a look and the deed; two of them let something be
put back or the second change follow the first. A second request is what sees a
token left behind, a manifest with an entry and another's failure. No step of the
worker is a loop or waits for another, so that its progress is not a question. One
instance with two clients and a checker has every contention there is: a holder, a
waiter and a third that steals the instance; the two clients are interchangeable,
so symmetry is used in `pipe_safety`, which has no liveness. Two commands are what a race for a
name takes. In `service_commands` commands that undo each other meet with a
third shell and the start at boot, and the doctor meets a service that is
uninstalled and installed under its eyes. In `path_policy` three components
below the root are what it takes to go up past the root and come back; there is a junction
as LINK itself, above something that exists and above nothing, and as an entry; and the
entries include duplicates in another case, one beside the other's beginning, a
relative one and one that means nothing. `broker` has no interference by other
processes (`MaxOutside` is 0), which is `BrokerRequest`'s subject; what is new in it
is the second client, the stop and the restart, and each of its properties needs
one of them. Only one of its clients may leave (`Restless`), so that there is
somebody left to be confused with it. No bound stands in a property: `MaxRequests`,
`MaxOutside` and `MaxCrashes` limit only how often something happens, and the
theorems hold for all their values.

The runs check an inductive invariant in place of the type invariant that is its
first part, so that the formula that is proved is also one that TLC has
evaluated on every state of the run.

### Fairness

* `BrokerPipe!ClientFairSpec`: the clients' threads are scheduled and the time
  limits of `WaitNamedPipeW` and `recv_timeout` expire. The service may hang: this
  is all `SubmitReturns` needs. The other properties state what they need more,
  `ServiceRuns`, that the service's threads are scheduled. Nobody has to submit,
  quit or stop, and a client that never comes is what `pipe_stop` is about.
* `LinkCommand!FairSpec`: each command is scheduled; the broker owes nothing.
* `Doctor!FairDoctorSpec`: each shell and the doctor is scheduled; the 30 seconds and
  the three seconds pass. The service owes nothing.
* `BrokerRequest!Spec` and `Broker!BrokerSpec` state none: the liveness of the pipe is
  checked in its own module.

Only weak fairness is used: a thread that has a step goes on having it until it
takes it.

### What the violated runs show

* `pipe_stop`. `should_stop` is stored and the pipe woken once. A server thread
  that has read the flag but not created its instance is not woken; it creates
  one and waits for a client, while the main thread waits for it. The design
  has `service stop` wait for the stopped state. `StopCompletesIfWoken` is
  what does hold.
* `pipe_queue`. A client whose `CreateFileW` finds the instance taken gets an error;
  the design has it wait.
* `request_junction`. The standard library's `is_symlink` holds for junctions and
  mount points; they are asked about before the reparse attribute, so that `-f`
  removes what the design has refused.
* `link_relative`. Direct creation reads a relative target from the current
  directory; the link does not. `KindIsRight` is what does hold.
* `path_resolved`. With `C:\j` a junction to `C:\Windows`, a link to be made at
  `C:\j\Tools` is judged clear, because nothing is there that could be canonicalised, and is
  made in `C:\Windows`. The design has intermediate reparse points resolved
  (design:478) and whatever leads through one into a blocked place blocked (design:440).
  `ClearWasOutside` and `VerdictIsRight` are what does hold.

`OkWasTrue` says "at some moment" with reason: `uninstall` stops and deletes in two
calls, and a start in between leaves a deleted service that runs. So do the
doctor's findings: a report can pass the service as running and the pipe as
unreachable, because it stopped in between.

Remarks on what holds. A caller that gave up after three seconds may find its
link made: its worker is detached and goes on, so `NotConnectedNotTouched` speaks of
the failures that the worker reports. `RemovalIsSafe` and `NothingLostUnforced` except what is
put at the path between the broker's second look and its removal, which goes by path:
that may be a file or an empty directory, and it is lost. `SatisfiedMeansUsable` has a
Windows that is not known to be too old; one whose build could not be found out
only gets a warning.

`VerdictIsRight` is about names whose ways are straight and takes USERPROFILE as the
service finds it; in the service that is LocalSystem's profile inside the Windows
directory, so that the users' directory the code computes is not `C:\Users`. It grants one
exception, `RootInOtherCase`: `path != users_root` in `is_other_users_profile_path` is the only
comparison of the policy that heeds case, where the design wants case ignored. LINK may be
the users' directory itself; as long as that does not exist, so that no canonical name
mends the case, LINK naming it in another case than USERPROFILE does is blocked. The
proof shows that on straight ways this is the only difference from `RightVerdict`; it says
nothing of other names, nor of what `RightVerdict` does not block, such as mounted volumes.

## 4. The proofs

The theorems hold for any users, paths, targets, requests, clients, commands,
shells and machines, and for any bound. They rest on the named assumptions of
the modules and on nothing else:

| module | assumes |
|---|---|
| `BrokerRequest` | the service's token is nobody's (`TokensAreDistinct`), paths, layouts, requests and bounds are what they are called (`PathsAreFunctions`, `LayoutsAreFunctions`, `SetsOfPaths`, `RequestsAreRecords`, `Bounds`) |
| `BrokerPipe`, `Broker` | clients, checkers, the waker and nobody are different peers (`PeersAreDistinct`); in `Broker`, clients ask for requests (`AsksAreRequests`) |
| `LinkCommand` | `InputsAreTyped`: command lines are records, entries hold objects, and the refusals of the broker before it looks at the entry are among the codes that `ipc/mod.rs` returns there |
| `PathPolicy` | what the constants may be, as said in section 2: `FoldLowersLetters`, `RankIsAnOrder`, `InputsAreSpellings`, `CwdIsRooted`, `CanonicalNamesAreCanonical` |
| `ServiceControl`, `Doctor` | commands are known (`CommandsAreKnown`), at most one shell runs the doctor (`OneDoctor`), machines are records (`MachinesAreTyped`) |

| component | theorem | statement |
|---|---|---|
| request worker | `Invariance`, `TypeCorrectness` | `Spec => []IInv`, `Spec => []TypeOK` |
| | `Authorisation` | `Spec => AuthorisedMutation` |
| | `SafeRemoval` | `Spec => RemovalIsSafe` |
| | `PartialReplacement` | `Spec => []PartialReplacementReported` |
| | `TrueAnswers` | `Spec => []AnswersAreTrue` |
| | `AuditTrail` | `Spec => []AuditMatchesLinks` |
| | `RequestInvariance` | `Spec => []RequestInv` |
| | `LinkIsAsAsked` | `Spec => []LinkAsAsked` |
| | `KeepsItsPromise` | `Spec => ImplementsLinkService` |
| pipe, transport, main thread | `PipeInvariance`, `PipeTypeCorrectness` | `Spec => []PipeInv`, `Spec => []TypeOK` |
| | `OwnAnswer` | `Spec => []AnswerIsOutcome` |
| | `SafeRetry` | `Spec => []FailureMeansUnserved` |
| | `NoLateService` | `Spec => []LateCallersUnserved` |
| | `StoppedServesNobody` | `Spec => []StoppedMeansGone` |
| | `ServedAtMostOnce` | `Spec => DecidedOnce` |
| broker as a whole | `BrokerInvariance`, `HalvesInStep` | `BrokerSpec => []BrokerInv`, `BrokerSpec => []BrokerTypeOK` |
| | `WorkerUnchanged` | `BrokerSpec => Spec` (of `BrokerRequest`) |
| | `PipeUnchanged` | `BrokerSpec => Pipe!Init /\ [][Pipe!Next \/ StartAgain]_pipeSide` |
| | `PipeKeepsItsPromises` | `BrokerSpec => []` of `AnswerIsOutcome`, `FailureMeansUnserved` and `LateCallersUnserved` of the pipe |
| | `ToldTheTruth` | `BrokerSpec => []ToldWhatWasDone` |
| | `SafeToTryAgain` | `BrokerSpec => []NotConnectedNotTouched` |
| | `StopIsOrderly` | `BrokerSpec => []StopFinishesRequests` |
| | `OnlyOneWinner` | `BrokerSpec => []OneWinner` |
| `ln`, client API | `CommandInvariance` | `Spec => []CommandInv` |
| | `AnswersTellTheTruth` | `Spec => []AnswersMatchLinks` |
| | `LinksAreOfTheRightKind` | `Spec => []KindIsRight` |
| | `NothingIsLost` | `Spec => NothingLostUnforced` |
| | `ContainersAreKept` | `Spec => ContainersStay` |
| service commands, doctor | `DoctorInvariance` | `DoctorSpec => []DoctorInv` |
| | `OkMeansItWasSo` | `DoctorSpec => []OkWasTrue` |
| | `StartIsDelayed` | `DoctorSpec => []DelayedStart` |
| | `FindingsAreFounded` | `DoctorSpec => []FindingsWereTrue` |
| | `SatisfactionIsFounded` | `DoctorSpec => []SatisfiedMeansUsable` |
| path policy, configuration | `PathPolicyInvariance` | `Spec => []PathPolicyInvariant` |
| | `CandidateIsAlwaysMeant` | `Spec => []CandidateIsMeant` |
| | `MergeNeverLoses` | `Spec => []MergeLosesNothing` |
| | `ClearIsOutside` | `Spec => []ClearWasOutside` |
| | `VerdictIsAlwaysRight` | `Spec => []VerdictIsRight` |
| | `CollapseIsMeant` | `collapse_dot_segments` returns what is `Meant`, or fails |
| | `NormalizeIsPlace` | on a straight way `normalize_for_policy` returns the `Place`, or the `Extent`, and fails if there is none |
| | `NormalizeStays` | `normalize_for_policy` is idempotent |
| | `PrefixIsHolds` | `path_has_component_prefix` says what `Holds` says, on straight ways |
| | `MergeIsMerged` | `merge_source_blacklist` keeps each entry, once |

Every proof of an invariant has one shape: lemmas on the operators that the actions
use, stated once with `ASSUME ... PROVE`, a lemma for `Init`, one lemma per action (or
per group of actions that disturb the same parts) with a step per part of the
invariant, a lemma that joins them by cases on `Next`, and the theorem. The
properties are then consequences of the invariant, the action properties of the
invariant in the first state of a step. None of the properties is inductive; what
follows is what each invariant adds and why.

**The worker** (`IInv`, `RequestInv`). That nothing is changed under a client's token
is kept by `Create` only if the token is known at each step before it, which
`TokenByStep` says, including that `Finish` may leave a client's token on the
thread of an idle worker and `Impersonate` overwrites it. `VettedByStep` says what
has been established at each step, of the entry that the name leads to now unless
a directory was re-pointed after the check; `LocalsByStep` that the name, the kind and
the plan belong to the present request and that an entry planned for removal
is a link or raced; `EffectsByStep` what has been done for the request by then;
`History` what is true of the earlier ones. The parts need each other: the history
of a request is its effects when it ends, the effects after the creation depend
on the plan, the plan on the locals. `LinkByStep` adds the link itself: while
nobody has changed the target since it was seen, the kind fits it, and the link that was
made is there with the text asked for.

**The worker implements `LinkService`**. Each step of the worker is shown to be a step
of `LinkService` or a stutter under the refinement mapping, one lemma per action that
changes what the mapping reads: `Receive` opens a request, `Remove` and `Create` act for
it, `WriteAudit` records it, `Finish` and `Crash` end it. `EffectsByStep` is what shows that
`LinkService` allows the act at that moment, `History` that the answer is one it allows.

**The pipe** (`PipeInv`). An answer goes to the wrong client if a response outlives its
visit. `InstanceByStep` says at which steps of the server the instance exists and is
connected; `EndByWork` that only the peer's end is open and at which steps of its
worker thread; `ServedOnce` that a request lies in the instance, or is being served, only
after it was written and before it has an outcome; `ResponseTaken` that a response
on an end is that client's outcome and that the visit lasts until it was read.
`EventsInOrder` carries this over the channel: every event in it is still true when it is
read, however late. `TurnedAway` is what happens to whoever connects after the stop.
Events have to be described over the whole queue, because the caller's time-outs leave
them there.

**The broker as a whole** (`BrokerInv`). Its first conjuncts are the invariants of
worker and pipe. Neither is proved again: every step of `Broker` is a step of
`BrokerRequest` or leaves its variables alone (`WorkerUnchanged` states this as a
theorem), and the same holds of the pipe (`PipeUnchanged`) but for `StartAgain`, which
no pipe does and for which `PipeInv` is shown from what it says of a stopped service; so
the pipe's promises hold through restarts too (`PipeKeepsItsPromises`). What is shown anew
ties the halves together. `AnswersCarried` says that a client's outcome on the pipe is
the worker's answer to the request taken from it, `OneVisit` that a client whose
request was taken does not come back, so that there is one such request;
`FailuresAreSafe` that whatever event promises a safe retry stays true; `LostByKill`
that a request loses its answer to a kill alone; `AuditNamesClient` whom a manifest entry
is about. For `OneWinner`, `AtTheEntry` says that the worker, whatever the name it has
resolved, is at the entry of the path asked for, `Occupied` that what a request has linked
is there until a later one removes it, and `OneLinkEach` follows: a creation finds the
entry free only if some request in between has freed it. `Broker` has no steps of
other processes, which is why `Occupied` holds.

**`ln`** (`CommandInv`). `OneWay` says that nothing has been made for a command, directly
or by the broker, until its request is passed on, and that a request which can still be served has
made nothing; without it a direct link and a second one by the broker would not be
excluded. `TrueCodes` says what a code on its way, or printed, says of the links, when
the request of a command that gave up can still be served. `KindByMaker` relates the kind
to the directory that the maker reads the target from, also for a kind that is decided and not used yet; `LookedAt` says what the last
look at LINK is still worth. `PlanByStage` says that a removal is under way on `-f` only
and what the broker saw last was a link or gone, which is why whatever else
it takes away was put there since.

**Service commands and doctor** (`DoctorInv`). `ServiceInv` says that whoever holds a handle
has seen the present state of the service, so that a command may vouch for a state that was
found two calls before. `InOrder` gives the doctor's findings at each step of its
visit, `Noted` that what is so now has been noted, and that an open connection was made
to a service that served. `Doctor` extends `ServiceControl` and its steps include those of
the shells, so these theorems cover both modules.

**The path policy** (`Inductive`, which is `PathPolicyInvariant` and the four properties
together). The proof has two halves. The first is about the operators, and most of it
is induction: the code walks over sequences of any length. The induction theorems of the
library take an operator as a parameter, which the installed provers cannot
instantiate; but that `<` on the naturals is well-founded can be cited, and a set of numbers
that is not empty then has a smallest one (`LeastNumber`). A property is therefore given as
the set of the numbers that have it (`EveryNumber`, `EveryNumberTo`), and a loop as a
recursive function with a step function (`Recursion`). With these:

* `CollapseIsMeant`: after `k` rounds the stack shows, in their order, the names among
  the first `k` segments that still count, and each of them stands as far below the top
  as there are more names than `..` from it on (`Shows`); these are the counts that `Meant`
  is defined by. A `..` takes away the last of them, or nothing.
* `TextWithin`, and with it `PrefixIsHolds`: a text is laid out component by component (`LaidOut`,
  by induction over the components), so that a separator after a common prefix of texts
  means a common prefix of components. `SameTextSameFold` follows, and that entries with one key
  lead to one place on every disk (`SameKeySamePlace`).
* `SortedIsOrdered` and `MergeIsMerged`: the keys are linearly ordered (`PrecedesIsTotal`,
  `PrecedesIsTransitive`, `PrecedesIsStrict`), equal keys stand side by side in a sorted list, so that
  what is dropped within one source has an equal before it; in the merge of the two sources
  nothing is dropped any more.

The second half is the judgement. `CandidateIsNormal` makes the second normalisation agree with
the first. `SteadyIsStraight` lets the facts about straight ways be used at each call, and
`StraightIsNamed` says what these come to: the name the code makes, `Named`, is the place.
A candidate's way is straight once the link's was (`AroundNormalized`), so that
this need not be asked of it again. `AroundIsNow` ties the history of `ClearWasOutside` to the name that is compared next: the
first normalisation changes the name in use but not where it leads. `ComparedAreOutside`
says that each comparison excludes one key, so that at the end of the list, which has all keys by
`MergeLosesNothing`, nothing is left. `RuledOut` says what the calls have excluded of
`RightVerdict` while the disk kept still, in the order in which `RightVerdict` asks for it.

### What is only model-checked

* Liveness: `SubmitReturns`, `NobodyWaitsForEver`, `StopCompletesIfWoken`,
  `CommandsEnd`, `ShellsEnd`. Fairness and ENABLED are out of the prover's reach.
* That the five violated properties are violated is a counterexample of TLC's each.

Everything else is proved: of the properties that the passing runs check, all but the
liveness properties are stated by a theorem. No module has a RECURSIVE operator.

## 5. What is left

Done, in this order: the worker (`SymlinkOps`, `BrokerRequest`, `LinkService`), the pipe
(`BrokerPipe`), the command (`LinkCommand`), the service commands (`ServiceControl`), the
policy (`PathPolicy`), the doctor (`Doctor`) and the composition of worker and pipe
(`Broker`); then the invariants and proofs of all of them.

What could follow:

1. `BrokerRequest` takes from the text of a spelling to its name by a constant (`Lexical`), and
   its blacklist is a set of names. `PathPolicy` could take their place, now that what it
   computes is proved.
2. Proofs that are longer than what they show: the cases of the client's worker thread in
   `BrokerPipe_proofs`, and the calls of the service commands in `Doctor_proofs`.
