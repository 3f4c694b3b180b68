--------------------------- MODULE BrokerInvariant ---------------------------
(***************************************************************************)
(* The inductive invariant behind the safety of Broker.  To those of the   *)
(* pipe and of the worker it adds what ties the two together: where a      *)
(* client stands whose request was taken, that its outcome on the pipe is  *)
(* the worker's answer, whose request a manifest entry and a lost answer   *)
(* are about, and what holds an entry that a request has linked.           *)
(***************************************************************************)
EXTENDS Broker, BrokerRequestInvariant

\* A client whose request was taken does not connect again, and is the peer
\* only while its one visit lasts.
OneVisit ==
    \A n \in DOMAIN turns :
        /\ work[turns[n]] \in {"read", "finished"}
        /\ peer = turns[n] => srv \in {"serve", "write", "flush", "disconnect"}

\* What the pipe knows of an answer.
OutcomeOf(n) == IF answers[n] \in {NoCode, "lost"} THEN "none" ELSE Says(answers[n])

\* The pipe carries the worker's answers, and no others.
AnswersCarried ==
    /\ \A n \in DOMAIN turns : outcome[turns[n]] = OutcomeOf(n)
    /\ \A c \in Clients : outcome[c] # "none" => \E n \in DOMAIN turns : Turn(c, n)

NeverTaken(c) == \A n \in DOMAIN turns : ~Turn(c, n)

\* An event or a result e that promises c a safe retry keeps its word.
SafeToRetry(c, e) ==
    /\ e \in Pipe!ConnectFailures => NeverTaken(c)
    /\ e = "broken" => died \/ NeverTaken(c)

FailuresAreSafe ==
    \A c \in Clients :
        /\ \A i \in 1 .. Len(chan[c]) : SafeToRetry(c, chan[c][i])
        /\ SafeToRetry(c, result[c])

\* An answer is lost only with the process.
LostByKill == \A n \in RequestNumbers : answers[n] = "lost" => died

\* A manifest entry names the client whose request it records, and its target.
AuditNamesClient ==
    \A e \in audit :
        /\ e.request \in DOMAIN turns
        /\ e.user = asks[turns[e.request]].user
        /\ e.target = asks[turns[e.request]].target_path

\* However a link path is spelt and resolved, the worker is at its entry.
AtTheEntry ==
    /\ pc \in {"policy", "access", "revert", "kind"} \cup Changing =>
          At = layout.leads[Lexical[req.link_path]]
    /\ pc = "create" /\ plan = "ReplaceExistingSymlink" => req.replace_existing_symlink

\* One of the requests numbered in S has freed the entry of request m.
FreedBy(S, m) == \E k \in S : EntryOf(k) = EntryOf(m) /\ "removed" \in done[k]

\* What a request has linked is there until a later one frees it, so that no
\* other is linked meanwhile.
Occupied ==
    \A m \in DOMAIN turns : "linked" \in done[m] =>
        /\ EntryOf(m) \in Locations
        /\ fs[EntryOf(m)] # "nothing" \/ FreedBy(m + 1 .. served, m)

OneLinkEach ==
    \A m, n \in DOMAIN turns :
        /\ m < n /\ "linked" \in done[m] /\ "linked" \in done[n]
        /\ ~asks[turns[n]].replace_existing_symlink
        /\ EntryOf(m) = EntryOf(n)
        => FreedBy(m + 1 .. n - 1, m)

BrokerInv ==
    /\ IInv /\ Pipe!PipeInv /\ BrokerTypeOK
    /\ OneVisit
    /\ AnswersCarried
    /\ FailuresAreSafe
    /\ LostByKill
    /\ AuditNamesClient
    /\ AtTheEntry
    /\ Occupied /\ OneLinkEach

=============================================================================
