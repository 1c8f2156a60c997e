----------------------------- MODULE MCTerminal -----------------------------
(***************************************************************************)
(* Small instances of Terminal: a letter and the blank, lines of up to two *)
(* characters, three saved inputs, and a screen of two rows and four       *)
(* columns, of which three are used: a line wraps and the text moves up.   *)
(***************************************************************************)
EXTENDS Terminal

Keys == {"a", Blank}
Sign == <<"#">>
Texts == {<<"o", Newline>>}
Garbage == {<<"~">>}
=============================================================================
