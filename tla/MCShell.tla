------------------------------ MODULE MCShell ------------------------------
EXTENDS Shell

MCNewline == "\n"
(* The entries of the archive, "bin/" written as one character. *)
MCShellName == <<"/", "s">>
Init2 == <<"/", "i">>
Directory == <<"/">>
MCArchive ==
  [name \in {MCShellName, Init2, Directory, <<"/", "b">>, <<"/", "p">>} |->
     CASE name = Directory -> "directory"
       [] name = Init2 -> "init"
       [] name = MCShellName -> "sh"
       [] name = <<"/", "b">> -> "bc"
       [] name = <<"/", "p">> -> "ps"]

Blank == <<" ">>
Bc == <<"/", "b">>
Sum == <<"1", " ", "+", " ", "2">>
(* Lines that make programs of every kind, one at a time. *)
Commands == {Bc, MCShellName, Init2, Sum, <<"/", "p">>, <<"x", " ">>}
Lines == Commands \cup {Blank, <<"a", " ", "a", " ", "a">>}
Singles == {<<>>, <<"p", "s">>, <<" ", "p", "s", "x">>, <<"p">>, <<"/">>,
            <<"/", "b", "x">>, <<"\t", "/", "b">>, <<" ", " ", " ">>,
            <<"x", " ", " ">>, <<"x", "x", "x", "x", "x">>,
            <<"x", "x", "x", "x", "x", "x">>, <<"x", "x", "x", "x", "x", "x", "x">>}

Numerals == {<<"0">>, <<"3">>, <<"1", "2">>, <<"3", "2">>, <<"-", "1">>, <<"-", "7">>}
Ops == {"+", "-", "*", "/"}
Exprs == {a \o Blank \o <<op>> \o Blank \o b : a, b \in Numerals, op \in Ops}
NoExprs == {<<>>, <<"1">>, <<"1", " ", "+">>, <<"1", " ", "+", " ">>, <<"1", " ", " ", "+", " ", "2">>,
            <<"1", "+", "2">>, <<"1", " ", "+", "+", " ", "2">>, <<"1", " ", "x", " ", "2">>,
            <<"-", " ", "+", " ", "2">>, <<"4", " ", "+", " ", "2", " ">>,
            <<" ", "4", " ", "-", " ", "2">>, <<"4", " ", "/", " ", "x">>,
            <<"1", "1", "1", "1", "1", "1", "1", "1", "1">>,
            <<"1", "1", "1", "1", "1", "1", "1", "1", "1", "1">>}

MCSessions ==
  UNION {[1 .. n -> Lines] : n \in 0 .. 2}
  \cup [1 .. 3 -> Commands]
  \cup {<<s, Bc>> : s \in Singles}
  \cup {<<Bc, e, Blank>> : e \in Exprs \cup NoExprs}
  \cup {<<name, s, Sum>> : name \in {MCShellName, Init2}, s \in Singles}
MCBehind == {<<>>, <<"1">>}
=============================================================================
