---------------------------- MODULE MCLineEditor ----------------------------
(***************************************************************************)
(* Instance of LineEditor for TLC: lines of up to four characters.         *)
(***************************************************************************)
EXTENDS LineEditor

\* Every command, and a word that is none.
Words == {"/exit", "/join", "/leave", "/list", "/who", "/switch", "/oops"}

\* user_input is allocated after gethostbyname() has freed memory.
Used == {NUL, "p"}
=============================================================================
