--------------------------- MODULE MCLinkCommand ---------------------------
(***************************************************************************)
(* Two commands.  LINK is nothing, a directory, or a link that may lead to *)
(* a directory; TARGET is the same from everywhere, or differs between the *)
(* directory of the command and the one of the link.                       *)
(***************************************************************************)
EXTENDS LinkCommandInvariant

CONSTANTS c1, c2

MCCommands == {c1, c2}

Holding(named, inside) == [p \in Paths |-> IF p = "named" THEN named ELSE inside]
MCInitially ==
    {Holding("nothing", "nothing"),
     Holding("directory", "nothing"), Holding("directory", "fileSymlink"),
     Holding("dirSymlink", "file")}

View(absolute, cwd, parent, container) ==
    [b \in Bases |-> CASE b = "absolute" -> absolute [] b = "cwd" -> cwd
                       [] b = "parent" -> parent [] b = "container" -> container]
MCViews ==
    {View("directory", "notFound", "notFound", "file"),
     View("file", "file", "directory", "notFound")}

Line(relative, hint, force, noTargetDirectory, privileged) ==
    [symbolic |-> TRUE, relative |-> relative, has_name |-> TRUE, win_kind |-> hint,
     force |-> force, no_target_directory |-> noTargetDirectory, privileged |-> privileged]

Together(a, b) == [c \in MCCommands |-> IF c = c1 THEN a ELSE b]

\* With and without -f, each with and without the privilege.
plain   == Line(FALSE, NoHint, FALSE, FALSE, TRUE)
forcing == Line(FALSE, "Dir", TRUE, TRUE, TRUE)
poor    == Line(TRUE, "Dir", FALSE, FALSE, FALSE)
pushing == Line(TRUE, NoHint, TRUE, FALSE, FALSE)
\* What is refused at once.
hard    == [plain EXCEPT !.symbolic = FALSE]
unnamed == [plain EXCEPT !.has_name = FALSE]

\* Every pair, in one of its two orders: the commands differ in nothing else.
MCCommandLines ==
    {Together(plain, plain), Together(plain, forcing), Together(plain, poor),
     Together(plain, pushing), Together(forcing, forcing), Together(forcing, poor),
     Together(forcing, pushing), Together(poor, poor), Together(poor, pushing),
     Together(pushing, pushing), Together(hard, unnamed)}

\* A relative target for the direct way.
MCRelativeLines == {Together(Line(TRUE, NoHint, FALSE, FALSE, TRUE), pushing)}

=============================================================================
