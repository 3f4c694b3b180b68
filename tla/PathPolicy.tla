------------------------------ MODULE PathPolicy ------------------------------
(***************************************************************************)
(* The source policy (crates/win-symlinks/src/path_policy/mod.rs) and the  *)
(* configuration it is extended by (.../config/mod.rs), in the order in    *)
(* which process_create_symlink_request (.../ipc/mod.rs) goes through      *)
(* them: the name of LINK is normalised, the configuration loaded, the     *)
(* blacklist merged, and the name judged, which normalises it again.  (The *)
(* target is normalised too, which can only fail: see BrokerRequest.)      *)
(*                                                                         *)
(* A component is a sequence of syllables, so that texts can share a       *)
(* beginning without sharing a component and differ in case only.  Both    *)
(* separators are one.  A normal path is the sequence of its components,   *)
(* drive, or server and share, first.                                      *)
(***************************************************************************)
EXTENDS Naturals, SequencesExt

CONSTANTS
    Fold,           \* syllable -> its lower-case form
    Rank,           \* token -> its place in the order of texts
    Asked,          \* the spellings of LINK
    Configs,        \* what config.json may hold
    Profiles,       \* USERPROFILE of the process, as it may be set
    FixedEntries,   \* the built-in entries that are spelled out
    EnvEntries,     \* the values of SystemRoot, WINDIR, ...
    Cwd,            \* the current directory of the process
    Disks,          \* states of the disk
    MaxChanges

-----------------------------------------------------------------------------
(* Vocabulary *)

Sep == "\\"
Empty == <<>>
Dot == <<".">>
DotDot == <<".", ".">>
Invalid == <<>>     \* no normal path is empty

\* The text before the components decides how a spelling is read.
Forms == {"drive", "driveRelative", "rootRelative", "relative", "unc",
          "extDrive", "extUnc", "extOther", "device", "blank"}
Spelling(form, parts) == [form |-> form, parts |-> parts]
NoProfile == Spelling("blank", <<>>)

Sources == {"BuiltIn", "User"}
FileStates == {"missing", "unreadable", "garbled", "valid"}

FoldText(component) == [i \in DOMAIN component |-> Fold[component[i]]]
FoldPath(path) == [i \in DOMAIN path |-> FoldText(path[i])]
Text(path) == FlattenSeq([i \in DOMAIN path |-> <<Sep>> \o FoldText(path[i])])

IsDrive(path) == path # <<>> /\ path[1] # Empty /\ Last(path[1]) = ":"
RootLength(path) == IF IsDrive(path) THEN 1 ELSE 2

-----------------------------------------------------------------------------
(* What the constants may be *)

Syllable == DOMAIN Fold
Component == Seq(Syllable)
Path == Seq(Component)
Special == {".", " ", ":", "$"}

\* to_ascii_lowercase: neither a separator nor a special character is a letter.
ASSUME FoldLowersLetters ==
    /\ Fold \in [Syllable -> Syllable] /\ Special \subseteq Syllable /\ Sep \notin Syllable
    /\ \A s \in Syllable : Fold[Fold[s]] = Fold[s]
    /\ \A s \in Syllable : s \in Special \/ Fold[s] \in Special => Fold[s] = s

\* Texts can be sorted.
ASSUME RankIsAnOrder ==
    /\ Rank \in [Forms \cup {Sep} \cup Syllable -> Nat]
    /\ \A s, t \in DOMAIN Rank : Rank[s] = Rank[t] => s = t

\* What is read as a path on a drive begins with the drive.
Spellings ==
    {s \in [form : Forms, parts : Path] : s.form \in {"drive", "extDrive"} => IsDrive(s.parts)}

ASSUME InputsAreSpellings ==
    /\ Asked \subseteq Spellings /\ Profiles \subseteq Spellings
    /\ Configs \subseteq [file : FileStates, entries : Seq(Spellings)]
    /\ FixedEntries \in Seq(Spellings) /\ EnvEntries \in Seq(Spellings)
    /\ MaxChanges \in Nat

\* The root is there, and the only colon is that of the drive.
IsRooted(path) ==
    /\ Len(path) >= RootLength(path)
    /\ \A i \in 1..RootLength(path) : path[i] # Empty
    /\ \A i \in DOMAIN path : ":" \in ToSet(path[i]) => i = 1 /\ IsDrive(path)

ASSUME CwdIsRooted == Cwd \in Path /\ IsRooted(Cwd)

\* A disk says what fs::canonicalize returns for the names that hold anything,
\* and which of these are links; lookup ignores case.
ASSUME CanonicalNamesAreCanonical ==
    \A d \in Disks : \A k \in DOMAIN d.real \ d.links :
        LET name == d.real[k]
        IN  /\ name \in Path /\ IsRooted(name)
            /\ \A i \in DOMAIN name : i > RootLength(name) => name[i] \notin {Empty, Dot, DotDot}
            /\ FoldPath(name) \in DOMAIN d.real \ d.links
            /\ d.real[FoldPath(name)] = name

-----------------------------------------------------------------------------
(* Normalisation *)

\* What `\\?\C:\` and `\\?\UNC\` stand for; other native names are refused.
canonicalize_supported_windows_prefix(form) ==
    CASE form = "extDrive"               -> "drive"
      [] form = "extUnc"                 -> "unc"
      [] form \in {"device", "extOther"} -> "refused"
      [] OTHER                           -> form

\* A colon anywhere but after a leading drive letter.
has_alternate_data_stream_syntax(s) ==
    \E i \in DOMAIN s.parts :
        /\ \E k \in DOMAIN s.parts[i] : s.parts[i][k] = ":"
        /\ i = 1 => s.form \notin {"drive", "driveRelative", "extDrive"}

make_absolute(form, parts) ==
    CASE form \in {"drive", "unc"} -> parts
      [] form = "relative"         -> Cwd \o parts
      [] OTHER                     -> Invalid

component_has_unsafe_trailing_chars(c) ==
    c \notin {Empty, Dot, DotDot} /\ Last(c) \in {".", " "}

\* Faulty variant: dots that cannot go up are kept.
ClimbOverRoot(stack, c) ==
    CASE c \in {Empty, Dot} -> stack
      [] c = DotDot         -> IF stack = <<>> THEN <<c>> ELSE Front(stack)
      [] OTHER              -> Append(stack, c)

\* One round of the loop over the segments.
Take(stack, c) ==
    CASE c \in {Empty, Dot} -> stack
      [] c = DotDot         -> IF stack = <<>> THEN stack ELSE Front(stack)
      [] OTHER              -> Append(stack, c)

Collapsed(segments) ==
    LET stack[i \in 0..Len(segments)] ==
            IF i = 0 THEN <<>> ELSE Take(stack[i - 1], segments[i])
    IN  stack[Len(segments)]

collapse_dot_segments(path) ==
    LET n == RootLength(path)
        root == SubSeq(path, 1, n)
        segments == SubSeq(path, n + 1, Len(path))
    IN  IF \/ Len(path) < n
           \/ \E i \in 1..n : path[i] = Empty
           \/ \E i \in DOMAIN segments : component_has_unsafe_trailing_chars(segments[i])
        THEN Invalid
        ELSE root \o Collapsed(segments)

lexically_normal(s) ==
    LET absolute == make_absolute(canonicalize_supported_windows_prefix(s.form), s.parts)
    IN  IF has_alternate_data_stream_syntax(s) \/ absolute = Invalid
        THEN Invalid ELSE collapse_dot_segments(absolute)

\* An object that exists and is no link is known by its canonical name, any
\* other by its text.
should_canonicalize_full_path(d, path) ==
    FoldPath(path) \in DOMAIN d.real \ d.links

normalize_for_policy(d, s) ==
    LET path == lexically_normal(s)
    IN  IF path # Invalid /\ should_canonicalize_full_path(d, path)
        THEN collapse_dot_segments(d.real[FoldPath(path)]) ELSE path

\* A normal path taken for a spelling once more.
Respelled(path) == Spelling(IF IsDrive(path) THEN "drive" ELSE "unc", path)

\* Faulty variant: the text of the one begins with the text of the other.
text_prefix(d, s, prefix) ==
    LET p == normalize_for_policy(d, s)
        q == normalize_for_policy(d, prefix)
    IN  p # Invalid /\ q # Invalid /\ IsPrefix(Text(q), Text(p))

\* A side that does not normalise matches nothing.
path_has_component_prefix(d, s, prefix) ==
    LET p == normalize_for_policy(d, s)
        q == normalize_for_policy(d, prefix)
    IN  /\ p # Invalid /\ q # Invalid
        /\ Text(p) = Text(q) \/ IsPrefix(Text(q) \o <<Sep>>, Text(p))

-----------------------------------------------------------------------------
(* The blacklist *)

\* The elements of a finite set as a sequence, when Before, a set of pairs, puts
\* them in one order.
InOrder(S, Before) ==
    [k \in 1..Cardinality(S) |->
        CHOOSE i \in S : Cardinality({j \in S : <<j, i>> \in Before}) = k - 1]

Ascending(S) == InOrder(S, {p \in S \X S : p[1] < p[2]})

\* The key that entries are sorted by and compared with.
Key(s) == <<s.form>> \o Text(s.parts)

Precedes(k, l) ==
    \/ IsStrictPrefix(k, l)
    \/ \E i \in DOMAIN k \cap DOMAIN l :
          SubSeq(k, 1, i - 1) = SubSeq(l, 1, i - 1) /\ Rank[k[i]] < Rank[l[i]]

\* sort_by_key is stable.
Sorted(entries) ==
    LET places == DOMAIN entries
        KeyOf(i) == Key(entries[i].path)
        Before == {p \in places \X places :
                      \/ Precedes(KeyOf(p[1]), KeyOf(p[2]))
                      \/ KeyOf(p[1]) = KeyOf(p[2]) /\ p[1] < p[2]}
        order == InOrder(places, Before)
    IN  [i \in places |-> entries[order[i]]]

\* dedup_by drops what equals its predecessor.
Deduplicated(entries, Same(_, _)) ==
    LET kept == {i \in DOMAIN entries : i = 1 \/ ~Same(entries[i - 1], entries[i])}
        order == Ascending(kept)
    IN  [i \in DOMAIN order |-> entries[order[i]]]

SamePath(e, f) == Key(e.path) = Key(f.path)

entries_from_paths(paths, source) ==
    Deduplicated(Sorted([i \in DOMAIN paths |-> [path |-> paths[i], source |-> source]]),
                 SamePath)

built_in_source_blacklist == entries_from_paths(FixedEntries \o EnvEntries, "BuiltIn")

\* Faulty variant: an entry that somebody else has too is dropped.
merge_by_path(user_entries) ==
    Deduplicated(Sorted(built_in_source_blacklist \o entries_from_paths(user_entries, "User")),
                 SamePath)

merge_source_blacklist(user_entries) ==
    Deduplicated(Sorted(built_in_source_blacklist \o entries_from_paths(user_entries, "User")),
                 LAMBDA e, f : e.source = f.source /\ SamePath(e, f))

is_volume_root(path) == IsDrive(path) /\ Len(path) = 1
is_unc_admin_share(path) == ~IsDrive(path) /\ path[2] # Empty /\ Last(path[2]) = "$"

\* The directory the profile of this process lies in, if it has one.
HasUsersRoot(profile) == profile # NoProfile /\ Len(profile.parts) > RootLength(profile.parts)
UsersRoot(profile) == [profile EXCEPT !.parts = Front(@)]

\* Any of the three that does not normalise is an error of the whole judgement.
profile_check_fails(d, profile, path) ==
    /\ HasUsersRoot(profile)
    /\ \E s \in {Respelled(path), profile, UsersRoot(profile)} : normalize_for_policy(d, s) = Invalid

is_other_users_profile_path(d, profile, path) ==
    /\ HasUsersRoot(profile)
    /\ path_has_component_prefix(d, Respelled(path), UsersRoot(profile))
    /\ ~path_has_component_prefix(d, Respelled(path), profile)
    /\ normalize_for_policy(d, Respelled(path)) # normalize_for_policy(d, UsersRoot(profile))

-----------------------------------------------------------------------------
(* The judgement of one request *)

VARIABLES
    disk,           \* what the names lead to
    changes,        \* how often that has changed
    link,           \* the spelling of LINK
    profile,        \* USERPROFILE
    config,         \* config.json: its state, and the entries in it
    pc,             \* the call that comes next
    candidate,      \* the normal path under judgement
    list,           \* the merged blacklist
    next,           \* the entry to be compared next
    verdict,        \* "none" yet, "error", "clear" or "blocked"
    \* history
    steady,         \* the way to every name in use has been straight, and the same
    around          \* the entries that the name in use has been inside of all the time

world == <<link, profile, config>>
history == <<steady, around>>
vars == <<disk, changes, world, pc, candidate, list, next, verdict, history>>

Steps == {"normalize", "load", "merge", "roots", "profile", "entries", "done"}

TypeOK ==
    /\ disk \in Disks /\ changes \in 0..MaxChanges
    /\ link \in Asked /\ link.form \in Forms /\ profile \in Profiles
    /\ config \in Configs /\ config.file \in FileStates
    /\ pc \in Steps
    /\ candidate \in Path
    /\ candidate = Invalid => pc = "normalize" \/ verdict = "error"
    /\ list \in Seq([path : Spellings, source : Sources])
    /\ next \in 1..Len(list) + 1
    /\ verdict \in {"none", "error", "clear", "blocked"}
    /\ pc = "done" <=> verdict # "none"
    /\ steady \in BOOLEAN /\ around \subseteq Nat

-----------------------------------------------------------------------------
(* What a spelling means and what is to be blocked, said without the code *)

\* How many of the segments i..j are names, and how many go up.
NamesIn(segments, i, j) == Cardinality({k \in i..j : segments[k] \notin {Empty, Dot, DotDot}})
UpsIn(segments, i, j) == Cardinality({k \in i..j : segments[k] = DotDot})

\* A name counts unless the segments after it go up past it.
Remaining(segments) ==
    {i \in DOMAIN segments :
        /\ segments[i] \notin {Empty, Dot, DotDot}
        /\ \A j \in i..Len(segments) : NamesIn(segments, i, j) > UpsIn(segments, i, j)}

Meant(path) ==
    LET n == RootLength(path)
        segments == SubSeq(path, n + 1, Len(path))
        order == Ascending(Remaining(segments))
    IN  SubSeq(path, 1, n) \o [i \in DOMAIN order |-> segments[order[i]]]

Absolute(s) == IF s.form = "relative" THEN Cwd \o s.parts ELSE s.parts

\* No name below the root ends in a dot or space.
EndsWell(path) ==
    \A i \in DOMAIN path :
        i > RootLength(path) /\ path[i] \notin {Empty, Dot, DotDot} => Last(path[i]) \notin {".", " "}

\* A spelling means something if it is absolute, or can be made so.
Usable(s) ==
    /\ s.form \in {"drive", "extDrive", "unc", "extUnc", "relative"}
    /\ s.form \in {"unc", "extUnc"} => ~IsDrive(s.parts)
    /\ IsRooted(Absolute(s)) /\ EndsWell(Absolute(s))

\* What it says, in lower case.
Said(s) == FoldPath(Meant(Absolute(s)))

\* Where the first n components of that lead, through every link on the way, and
\* the rest below: the nearest of them that is there is known by its own name.
Resolved(d, key, n) ==
    LET known == {i \in 1..n : SubSeq(key, 1, i) \in DOMAIN d.real}
        name == IF known = {} THEN key
                ELSE d.real[SubSeq(key, 1, Max(known))] \o SubSeq(key, Max(known) + 1, Len(key))
    IN  IF EndsWell(name) THEN FoldPath(name) ELSE Invalid

\* Where a link of that name is put, or is already: what it leads to is not asked.
Place(d, s) ==
    LET key == Said(s)
    IN  IF Usable(s)
        THEN Resolved(d, key, IF key \in d.links THEN Len(key) - 1 ELSE Len(key))
        ELSE Invalid

\* What is blocked by an entry of that name: the directory it leads to.
Extent(d, s) == IF Usable(s) THEN Resolved(d, Said(s), Len(Said(s))) ELSE Invalid

\* No directory on the way to p needs to be looked at: s is no name, or something
\* is there that can be asked for its own name, or p is what s says anyway.  It is
\* otherwise for a missing name, or a link, in a directory that is reached by
\* another name than its own, through a link or by a short name.
Straight(d, s, p) ==
    LET key == Said(s)
    IN  Usable(s) => key \in DOMAIN d.real \ d.links \/ key = p

\* Component by component, so that a sibling is not a child.
Within(p, q) == Len(q) <= Len(p) /\ \A i \in DOMAIN q : p[i] = q[i]

UserEntries == IF config.file = "valid" THEN config.entries ELSE <<>>
Entries == FixedEntries \o EnvEntries \o UserEntries

\* The place of a link lies in a directory.
Holds(d, outer, s) ==
    /\ Place(d, s) # Invalid /\ Extent(d, outer) # Invalid
    /\ Within(Place(d, s), Extent(d, outer))

\* The entries it lies in, as far as the way to neither is in doubt.
Around(d, s) ==
    {i \in DOMAIN Entries : /\ Holds(d, Entries[i], s)
                            /\ Straight(d, s, Place(d, s))
                            /\ Straight(d, Entries[i], Extent(d, Entries[i]))}

\* What is looked up from now on: LINK until it is normalised.
NameInUse == IF pc = "normalize" THEN link ELSE Respelled(candidate)

MeansNothing(d) == Place(d, link) = Invalid \/ config.file \in {"unreadable", "garbled"}

IsRoot(p) == IF IsDrive(p) THEN Len(p) = 1 ELSE Last(p[2]) = "$"

ProfileMeansNothing(d) ==
    /\ HasUsersRoot(profile)
    /\ Extent(d, profile) = Invalid \/ Extent(d, UsersRoot(profile)) = Invalid

\* Beside the profile of this process, in the same directory.
InOtherProfile(d) ==
    /\ HasUsersRoot(profile)
    /\ Holds(d, UsersRoot(profile), link) /\ ~Holds(d, profile, link)
    /\ Place(d, link) # Extent(d, UsersRoot(profile))

\* The policy of a disk that keeps still.
RightVerdict(d) ==
    IF MeansNothing(d) THEN "error"
    ELSE IF IsRoot(Place(d, link)) THEN "blocked"
    ELSE IF ProfileMeansNothing(d) THEN "error"
    ELSE IF InOtherProfile(d) \/ \E i \in DOMAIN Entries : Holds(d, Entries[i], link)
         THEN "blocked"
    ELSE "clear"

Directories == {profile, UsersRoot(profile)} \cup ToSet(Entries)

StraightWays(d) ==
    /\ Straight(d, link, Place(d, link))
    /\ \A s \in Directories : Straight(d, s, Extent(d, s))

-----------------------------------------------------------------------------
(* The steps *)

Init ==
    /\ disk \in Disks /\ changes = 0
    /\ link \in Asked /\ profile \in Profiles /\ config \in Configs
    /\ pc = "normalize" /\ candidate = Invalid
    /\ list = <<>> /\ next = 1
    /\ verdict = "none"
    /\ steady = StraightWays(disk) /\ around = Around(disk, link)

Judged(v) == pc' = "done" /\ verdict' = v
GoOn(p) == pc' = p /\ UNCHANGED verdict

Policy == UNCHANGED <<disk, changes, world, history>>

\* Faulty variant: a name that does not normalise is judged all the same.
NormalizeAndGoOn ==
    /\ pc = "normalize"
    /\ candidate' = normalize_for_policy(disk, link)
    /\ GoOn("load")
    /\ UNCHANGED <<list, next>>
    /\ Policy

\* The name of LINK, for everything that follows.
NormalizeLink ==
    /\ pc = "normalize"
    /\ candidate' = normalize_for_policy(disk, link)
    /\ IF candidate' = Invalid THEN Judged("error") ELSE GoOn("load")
    /\ UNCHANGED <<list, next>>
    /\ Policy

\* load_config: no file is an empty configuration, a bad one an error.
LoadConfig ==
    /\ pc = "load"
    /\ IF config.file \in {"unreadable", "garbled"} THEN Judged("error") ELSE GoOn("merge")
    /\ UNCHANGED <<candidate, list, next>>
    /\ Policy

MergeBlacklist ==
    /\ pc = "merge"
    /\ list' = merge_source_blacklist(UserEntries)
    /\ GoOn("roots")
    /\ UNCHANGED <<candidate, next>>
    /\ Policy

\* is_blocked: the candidate is normalised once more, then the roots.
JudgeRoots ==
    /\ pc = "roots"
    /\ candidate' = normalize_for_policy(disk, Respelled(candidate))
    /\ CASE candidate' = Invalid -> Judged("error")
         [] candidate' # Invalid ->
                IF is_volume_root(candidate') \/ is_unc_admin_share(candidate')
                THEN Judged("blocked") ELSE GoOn("profile")
    /\ UNCHANGED <<list, next>>
    /\ Policy

JudgeProfile ==
    /\ pc = "profile"
    /\ CASE profile_check_fails(disk, profile, candidate) -> Judged("error")
         [] ~profile_check_fails(disk, profile, candidate) ->
                IF is_other_users_profile_path(disk, profile, candidate)
                THEN Judged("blocked") ELSE GoOn("entries")
    /\ UNCHANGED <<candidate, list, next>>
    /\ Policy

\* Faulty variant: the last entry is not compared.
JudgeAllButLast ==
    /\ pc = "entries"
    /\ IF next >= Len(list) THEN Judged("clear") /\ UNCHANGED next
       ELSE IF path_has_component_prefix(disk, Respelled(candidate), list[next].path)
       THEN Judged("blocked") /\ UNCHANGED next
       ELSE GoOn("entries") /\ next' = next + 1
    /\ UNCHANGED <<candidate, list>>
    /\ Policy

\* One entry, in the order of the list; the first that matches decides.
JudgeEntry ==
    /\ pc = "entries"
    /\ IF next > Len(list) THEN Judged("clear") /\ UNCHANGED next
       ELSE IF path_has_component_prefix(disk, Respelled(candidate), list[next].path)
       THEN Judged("blocked") /\ UNCHANGED next
       ELSE GoOn("entries") /\ next' = next + 1
    /\ UNCHANGED <<candidate, list>>
    /\ Policy

\* Somebody creates, removes or renames something on the disk.
ChangeDisk ==
    /\ pc # "done" /\ changes < MaxChanges
    /\ changes' = changes + 1
    /\ disk' \in Disks \ {disk}
    /\ steady' = (/\ steady /\ StraightWays(disk')
                  /\ Place(disk', link) = Place(disk, link)
                  /\ \A s \in Directories : Extent(disk', s) = Extent(disk, s))
    /\ around' = around \cap Around(disk', NameInUse)
    /\ UNCHANGED <<world, pc, candidate, list, next, verdict>>

Next ==
    \/ NormalizeLink \/ LoadConfig \/ MergeBlacklist
    \/ JudgeRoots \/ JudgeProfile \/ JudgeEntry
    \/ ChangeDisk

Spec == Init /\ [][Next]_vars

-----------------------------------------------------------------------------
(* Properties *)

\* However a name is spelled, with dots, either prefix, either case, from the
\* current directory or through the links that lead to what is there, the name
\* that is judged and used is that of the place it leads to (design:470-482),
\* when the way there is straight; ClearIsOutsideResolved has the other names.
\* Normalising it again changes its case at most.
CandidateIsMeant ==
    steady /\ candidate # Invalid =>
        /\ FoldPath(candidate) = Place(disk, link)
        /\ FoldPath(normalize_for_policy(disk, Respelled(candidate))) = FoldPath(candidate)

\* The merged blacklist has every built-in and every user entry, each under its
\* own source and no more than once (design:462: user entries are appended and
\* never replace the defaults).
MergeLosesNothing ==
    pc \in {"roots", "profile", "entries"} =>
        LET Has(s, source) == {i \in DOMAIN list : Key(list[i].path) = Key(s)
                                                   /\ list[i].source = source}
        IN  /\ \A s \in ToSet(FixedEntries \o EnvEntries) : Cardinality(Has(s, "BuiltIn")) = 1
            /\ \A s \in ToSet(UserEntries) : Cardinality(Has(s, "User")) = 1
            /\ \A i \in DOMAIN list :
                  \E s \in ToSet(Entries) : i \in Has(s, "BuiltIn") \cup Has(s, "User")

\* LINK names the directory of the profiles, which does not exist, in another
\* case: path != users_root is the one comparison that heeds it.
RootInOtherCase ==
    /\ Place(disk, link) = Extent(disk, UsersRoot(profile))
    /\ candidate # normalize_for_policy(disk, UsersRoot(profile))

\* What is put in a blocked directory is blocked and nothing beside it
\* (design:485), whatever is created or removed elsewhere while the name is
\* looked at again and again; entries that mean nothing block nothing.  Said of
\* names whose ways are straight, and of the roots of drives and shares.
VerdictIsRight ==
    pc = "done" /\ steady =>
        \/ verdict = RightVerdict(disk)
        \/ verdict = "blocked" /\ HasUsersRoot(profile) /\ RootInOtherCase

\* However the disk changes between the looks of one judgement, a name that is
\* inside of a blocked directory all the time, from the request to the verdict,
\* and all the time straight, is not judged clear.
ClearWasOutside == verdict = "clear" => around = {}

\* The design has it so for every name on a disk that keeps still: intermediate
\* reparse points are detected and resolved (design:478), and any path resolved
\* through one into a blacklisted location is blocked (design:440).
ClearIsOutsideResolved ==
    verdict = "clear" /\ changes = 0 =>
        \A i \in DOMAIN Entries : ~Holds(disk, Entries[i], link)

=============================================================================
