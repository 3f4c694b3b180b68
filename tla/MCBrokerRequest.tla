-------------------------- MODULE MCBrokerRequest --------------------------
(***************************************************************************)
(* A small installation for TLC.  One entry can be reached by its own       *)
(* name "plain" and, through a junction on the way, by "viaJunction".  The *)
(* junction can be pointed to the directory of another entry, and the two  *)
(* directories can change names.  A share root "root" has no parent.  `ln` *)
(* is asked for file and directory targets that exist or not, with and     *)
(* without -f.                                                             *)
(***************************************************************************)
EXTENDS BrokerRequestInvariant

CONSTANTS alice, network

MCUsers == {alice, network}
MCRejected == {network}
MCSpellings == {"plain", "viaJunction", "root", "stream"}
MCNames == {"plain", "other", "viaJunction", "root"}
MCLexical == [s \in MCSpellings |-> IF s = "stream" THEN Unusable ELSE s]
MCLocations == {"entry", "elsewhere", "share"}
Layout(plain, other, junction) ==
    [leads |-> [n \in MCNames |-> CASE n = "plain" -> plain
                                    [] n = "other" -> other
                                    [] n = "viaJunction" -> junction
                                    [] n = "root" -> "share"],
     own |-> [l \in MCLocations |-> CASE l = plain -> "plain"
                                      [] l = other -> "other"
                                      [] l = "share" -> "root"]]
MCLayouts ==
    {Layout("entry", "elsewhere", "entry"),
     Layout("entry", "elsewhere", "elsewhere"),
     Layout("elsewhere", "entry", "elsewhere")}
MCTargets == {"relative", "stale"}
MCPlaces == {"place"}
MCPlace == [x \in MCNames \X MCTargets |-> IF x[2] = "stale" THEN Unusable ELSE "place"]

Ask(form, user, s, t, hint, replace) ==
    [form |-> form, user |-> user, link_path |-> s, target_path |-> t,
     target_kind |-> hint, replace_existing_symlink |-> replace]

\* One that gets as far as the link.
Replacing == Ask("valid", alice, "viaJunction", "relative", "Dir", TRUE)
MCReplacing == {Replacing}

MCRequests ==
    {Ask("garbled", alice, "plain", "relative", NoHint, FALSE),
     Ask("unsupported", alice, "plain", "relative", NoHint, FALSE),
     Ask("valid", network, "plain", "relative", NoHint, TRUE),
     Ask("valid", alice, "stream", "relative", NoHint, TRUE),
     Ask("valid", alice, "plain", "stale", NoHint, TRUE),
     Ask("valid", alice, "root", "relative", NoHint, TRUE),
     Ask("valid", alice, "plain", "relative", "File", FALSE),
     Ask("valid", alice, "plain", "relative", NoHint, TRUE),
     Replacing}

\* A bound of the exploration: at first the junction leads to "plain", and the
\* other entry is a file.
MCInit ==
    /\ Init
    /\ layout = Layout("entry", "elsewhere", "entry")
    /\ fs["elsewhere"] = "file"

\* Others: a second interference has the first request to itself, without a
\* crash; a second request replaces what the first has left; the administrator
\* blocks one name at a time, and only alice loses a right.
MCNext ==
    /\ Next
    /\ outside' = 2 => served' <= 1 /\ crashes' = 0
    /\ Cardinality(config') <= 1 /\ {network} \X Locations \subseteq grants'
    /\ served' = 2 => req' \in {Replacing, NoRequest}
MCSpec == MCInit /\ [][MCNext]_vars

=============================================================================
