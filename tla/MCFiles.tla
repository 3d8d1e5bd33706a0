------------------------------- MODULE MCFiles -------------------------------
(***************************************************************************)
(* Small instances of StateFiles.                                          *)
(***************************************************************************)
EXTENDS StateFiles

OwnTask  == [c \in Commands |-> c]
OnePhase == [c \in Commands |-> 1]
OnlySelf == [c \in Commands |-> {c}]
=============================================================================
