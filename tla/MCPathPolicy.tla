---------------------------- MODULE MCPathPolicy ----------------------------
(***************************************************************************)
(* A disk with a Windows directory, users, and a junction to the one from  *)
(* elsewhere; every spelling of two components below a drive, and a few of *)
(* three and of every other form.                                          *)
(***************************************************************************)
EXTENDS PathPolicyInvariant

Lower == {"c", "windows", "tools", "users", "ann", "bob", "j", "server", "share",
          ".", " ", ":", "$"}
MCFold == [s \in Lower \cup {"C", "Windows", "WINDOWS", "Tools", "Users"} |->
              CASE s \in {"Windows", "WINDOWS"} -> "windows"
                [] s = "C" -> "c" [] s = "Tools" -> "tools" [] s = "Users" -> "users"
                [] OTHER -> s]

\* Any order will do.
Tokens == <<"relative", "drive", "driveRelative", "unc", "extDrive", "extUnc", "extOther",
            "device", "rootRelative", "blank", Sep, "c", "windows", "users", "tools", "bob",
            "ann", "j", "server", "share", "C", "Windows", "WINDOWS", "Tools", "Users",
            ".", " ", ":", "$">>
MCRank == [t \in ToSet(Tokens) |-> CHOOSE i \in DOMAIN Tokens : Tokens[i] = t]

C == <<"C", ":">>
Windows == <<"Windows">>
Shouted == <<"WINDOWS">>
WindowsTools == <<"Windows", "Tools">>
Tools == <<"Tools">>
Users == <<"Users">>
Ann == <<"ann">>
Bob == <<"bob">>
J == <<"j">>

Low(path) == FoldPath(path)
Plain(paths) == [k \in {Low(p) : p \in paths} |-> CHOOSE p \in paths : Low(p) = k]
Standing == {<<C>>, <<C, Windows>>, <<C, Users>>, <<C, Users, Ann>>}
Bare == [real |-> Plain(Standing), links |-> {}]
Fuller == [real |-> Plain(Standing \cup {<<C, WindowsTools>>, <<C, Windows, Bob>>}), links |-> {}]
\* C:\j is a junction to C:\Windows, and C:\bob one to a directory "bob.".
Dotted == <<C, Windows, <<"bob", ".">>, Users>>
Joined == [real |-> [k \in DOMAIN Fuller.real
                             \cup {Low(<<C, J>>), Low(<<C, J, Bob>>),
                                   Low(<<C, Bob>>), Low(<<C, Bob, Users>>), Low(Dotted)} |->
                        CASE k = Low(<<C, J>>)                      -> <<C, Windows>>
                          [] k = Low(<<C, J, Bob>>)                 -> <<C, Windows, Bob>>
                          [] k = Low(<<C, Bob>>)                    -> Front(Dotted)
                          [] k \in {Low(<<C, Bob, Users>>), Low(Dotted)} -> Dotted
                          [] OTHER                                  -> Fuller.real[k]],
           links |-> {Low(<<C, J>>), Low(<<C, Bob>>)}]
MCDisks == {Bare, Fuller, Joined}

Names == {Windows, Shouted, WindowsTools, Users, Bob, Empty, DotDot}
Threes == {<<Shouted, Bob, DotDot>>, <<Bob, DotDot, Dot>>, <<DotDot, DotDot, Shouted>>,
           <<Shouted, DotDot, DotDot>>, <<Users, Ann, Bob>>}
MCAsked ==
    {Spelling("drive", <<C>> \o p) : p \in BoundedSeq(Names, 2) \cup Threes}
    \cup {Spelling("drive", <<C, J>> \o p) : p \in {<<>>, <<Bob>>, <<Tools>>, <<DotDot, Windows>>}}
    \cup {Spelling("extDrive", <<C>> \o p) : p \in {<<>>, <<Shouted, Bob>>, <<Users, Ann, Bob>>}}
    \cup {Spelling("unc", <<<<"server">>, s>> \o p) :
             s \in {<<"share">>, <<"C", "$">>, Empty}, p \in {<<>>, <<DotDot, Bob>>}}
    \cup {Spelling("extUnc", <<<<"server">>, <<"share">>, Bob, DotDot>>), Spelling("unc", <<Bob>>)}
    \cup {Spelling("drive", <<C, Windows, c, DotDot>>) :
             c \in {<<"bob", ".">>, <<"bob", " ">>, <<"bob", ":", "ann">>, <<".", ".", ".">>}}
    \cup {Spelling("relative", p) : p \in BoundedSeq({Bob, DotDot}, 2) \ {<<>>}}
    \cup {Spelling("driveRelative", <<C, Bob>>), Spelling("rootRelative", <<Bob>>),
          Spelling("extOther", <<Bob>>), Spelling("device", <<C, Bob>>), Spelling("blank", <<>>)}

Valid(entries) == [file |-> "valid", entries |-> entries]
File(state) == [file |-> state, entries |-> <<>>]
MCConfigs ==
    {File("missing"), File("unreadable"), File("garbled"),
     Valid(<<Spelling("drive", <<C, Shouted>>), Spelling("drive", <<C, Users, Bob>>),
             Spelling("drive", <<C, Windows>>)>>),
     Valid(<<Spelling("relative", <<DotDot, DotDot, WindowsTools>>),
             Spelling("driveRelative", <<C, Users>>), Spelling("unc", <<<<"server">>, <<"share">>>>),
             Spelling("drive", <<C, J>>)>>)}
\* The last but one is that of a service, which lies inside the Windows directory;
\* the directory of the last one does not exist.
MCProfiles == {NoProfile, Spelling("drive", <<C>>), Spelling("drive", <<C, Users, Ann>>),
               Spelling("drive", <<C, Windows, Users>>), Spelling("drive", <<C, Users, Windows, Ann>>)}
MCFixed == <<Spelling("drive", <<C, Windows>>), Spelling("drive", <<C, <<"$">>>>)>>
MCEnv == <<Spelling("drive", <<C, Shouted>>)>>
MCCwd == <<C, Windows, Bob>>

=============================================================================
