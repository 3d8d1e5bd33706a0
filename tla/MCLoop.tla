------------------------------- MODULE MCLoop -------------------------------
(***************************************************************************)
(* Small instances of Loop: every command is a task of its own.            *)
(***************************************************************************)
EXTENDS Loop

OwnTask  == [c \in Commands |-> c]
OnePhase == [c \in Commands |-> 1]
OnlySelf == [c \in Commands |-> {c}]
=============================================================================
