------------------------------ MODULE MCBridge ------------------------------
(***************************************************************************)
(* Small instances of Bridge: which commands share a TASK_ID or a PHASE,   *)
(* and the symmetry of the processes.                                      *)
(***************************************************************************)
EXTENDS Bridge, TLC

\* Every command is a task of its own.
OwnTask  == [c \in Commands |-> c]
OnePhase == [c \in Commands |-> 1]
OnlySelf == [c \in Commands |-> {c}]

\* All commands belong to one task, as its phases or as reissued versions.
OneTask  == [c \in Commands |-> "task"]
OwnPhase == [c \in Commands |-> IF c = "c1" THEN 1 ELSE 2]
Everyone == [c \in Commands |-> Commands]

Processes == Permutations(Procs)
=============================================================================
