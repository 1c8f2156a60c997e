----------------------------- MODULE MCKeyboard -----------------------------
(***************************************************************************)
(* Small instances of Keyboard.                                            *)
(***************************************************************************)
EXTENDS KeyboardProperties

Plain(c) == [code |-> c, ext |-> FALSE]
Extended(c) == [code |-> c, ext |-> TRUE]

\* A key that fills the ring, one shift key with the extended code of it that
\* some keyboards send, and caps lock.
Keys == {Plain(c) : c \in {"letter", "lshift", "caps"}} \cup {Extended("lshift")}
=============================================================================
