------------------------------- MODULE BitLog -------------------------------
(***************************************************************************)
(* What a bit stream promises: a log to which chunks of bits are appended, *)
(* whole or not at all, and which a reset empties.                         *)
(***************************************************************************)
EXTENDS Sequences

CONSTANT Chunks  \* what one call may append
VARIABLE log

Append1(c) == log' = log \o c
Reset      == log' = <<>>

Spec == log = <<>> /\ [][(\E c \in Chunks : Append1(c)) \/ Reset]_log
=============================================================================
