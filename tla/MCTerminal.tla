----------------------------- MODULE MCTerminal -----------------------------
(* A small screen, one letter, and commands whose names are made of it.    *)
EXTENDS Terminal

OneLetter == {"e"}
E == <<"e">>
EE == <<"e", "e">>
=============================================================================
