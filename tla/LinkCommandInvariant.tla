------------------------ MODULE LinkCommandInvariant ------------------------
(***************************************************************************)
(* The inductive invariant behind the safety of LinkCommand: how far a     *)
(* command can have got before its request is passed on, what a code that  *)
(* is on its way says of the links made, what the kind decided on says of  *)
(* the target, what the last look at LINK still says of it, and what the   *)
(* broker has planned for the path it is at.                               *)
(***************************************************************************)
EXTENDS LinkCommand

\* Before the request is passed on, and while it waits, nothing has been made
\* for the command and no reply is on its way; nor has it while the request is
\* served, until there is only the entry of the manifest to write.
OneWay ==
    \A c \in Commands :
        /\ pc[c] \in Steps \ {"await", "done"} =>
              made[c] = {} /\ c \notin asked /\ reply[c] = NoCode
        /\ c \in asked => reply[c] = NoCode
        /\ c \in asked /\ made[c] # {} => c = served
        /\ c = served => (made[c] # {} <=> stage = "audit")
        /\ pc[c] # "done" => answer[c] = NoCode
        /\ \A m, n \in made[c] : m = n

\* What a code says of what has been, and can still be, done for c.
TrueOf(c, code) ==
    /\ code = Ok => made[c] # {}
    /\ code \in ErrorCodes \ {"ServiceUnavailable", "CreateSymlinkFailed"} =>
          made[c] = {} /\ c \notin asked
    /\ code # "PrivilegeRequired"

TrueCodes == \A c \in Commands : TrueOf(c, answer[c]) /\ TrueOf(c, reply[c])

\* A link of kind k suits a target in state s that was asked for with a.
Suits(a, s, k) ==
    /\ s = "directory" => k = "Dir"
    /\ s = "file" => k = "File"
    /\ s = "notFound" => k = a.win_kind
    /\ s # "unreadable"

\* The directories a target is read from do not move while nobody interferes,
\* but for LINK itself, and there the last look must still be good.
KindByMaker ==
    outside = 0 => \A c \in Commands :
        /\ \A m \in made[c] :
              /\ m.by = "broker" \/ ~arg[c].relative
              /\ link_path[c] = "named" \/ c \in seenLink
              => Suits(arg[c], Seen(BaseOfLink(arg[c], link_path[c])), m.kind)
        /\ pc[c] = "create" /\ ~arg[c].relative =>
              Suits(arg[c], target["absolute"], kind[c])
        /\ c = served /\ (link_path[c] = "named" \/ c \in seenLink) =>
              Suits(arg[c], Seen(BaseOfLink(arg[c], link_path[c])), decided)

\* As long as LINK is as the command saw it, it is no directory that the
\* command should have entered.
LookedAt ==
    \A c \in Commands :
        /\ pc[c] = "parse" => link_path[c] = NoPath
        /\ link_path[c] = "named" /\ c \in seenLink =>
              arg[c].no_target_directory \/ Lookup # "directory"

\* A replacement is under way only on -f, and is of what was a link, or was
\* gone, at the last look.
PlanByStage ==
    /\ stage \in {"recheck", "remove"} =>
          plan = "ReplaceExistingSymlink" /\ arg[served].force
    /\ stage = "remove" => sawLast = "nothing" \/ IsSymlink(sawLast)

CommandInv ==
    /\ TypeOK
    /\ OneWay
    /\ TrueCodes
    /\ KindByMaker
    /\ LookedAt
    /\ PlanByStage

=============================================================================
