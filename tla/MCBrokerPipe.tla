---------------------------- MODULE MCBrokerPipe ----------------------------
(***************************************************************************)
(* Two clients, which are interchangeable, and one checker.                *)
(***************************************************************************)
EXTENDS BrokerPipeInvariant, TLC

CONSTANTS c1, c2, doctor

MCClients == {c1, c2}
MCCheckers == {doctor}
MCOneClient == {c1}
MCNone == {}
MCSymmetry == Permutations(MCClients)

=============================================================================
