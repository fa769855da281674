---------------------------- MODULE MCResponses ----------------------------
(* A small instance of Responses for TLC: a plain file and a template; the     *)
(* path of a third is denied.                                                *)
EXTENDS Responses

CONSTANTS plain, page, hidden

SomePaths == {plain, page, hidden}
DenyOne   == {{hidden}}
AllowAll  == {SomePaths, {plain, page}}
OnlyPages == {page}

\* Text and commands in turn, commands next to each other, a command first and text
\* last; an unknown command; nothing at all.
SomeContents ==
    {NoContent,
     <<Full("tolower", "x", 10), Text(2), Full("var", "x", 6), Text(1), Full("debug", "x", 8),
       Full("toupper", "y", 9), Full("time", "y", 6), Full("date", NoText, 7), Short("x", 2),
       Text(1)>>,
     <<Text(1), Full("vra", "x", 6)>>}

SomeModels == {[v \in {"x", "y", NoText} |-> IF v = "x" THEN 2 ELSE 0], [v \in {"x"} |-> 1]}
=============================================================================
