------------------------------- MODULE MCBroker -------------------------------
(***************************************************************************)
(* Two clients ask for the same entry, by its name and through a junction, *)
(* and nothing is there at first.  One of them uses -f: if it comes second *)
(* it replaces what the other has made, if it comes first the other finds  *)
(* the name taken.                                                         *)
(***************************************************************************)
EXTENDS BrokerInvariant

CONSTANTS c1, c2, alice, bob

MCClients == {c1, c2}
MCUsers == {alice, bob}
MCNames == {"plain", "viaJunction"}
MCLexical == [s \in MCNames |-> s]
MCLayouts == {[leads |-> [n \in MCNames |-> "entry"], own |-> [l \in {"entry"} |-> "plain"]]}
MCPlace == [x \in MCNames \X {"text"} |-> "place"]

Ask(user, s, replace) ==
    [form |-> "valid", user |-> user, link_path |-> s, target_path |-> "text",
     target_kind |-> NoHint, replace_existing_symlink |-> replace]
aliceReplaces == Ask(alice, "plain", TRUE)
bobLinks == Ask(bob, "viaJunction", FALSE)
MCRequests == {aliceReplaces, bobLinks}

Begin(first, second, o) ==
    <<[c \in MCClients |-> IF c = c1 THEN first ELSE second],
      [l \in {"entry"} |-> o], [p \in {"place"} |-> "file"]>>
MCBeginnings == {Begin(aliceReplaces, bobLinks, "nothing")}

=============================================================================
