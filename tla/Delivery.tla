------------------------------ MODULE Delivery ------------------------------
(***************************************************************************)
(* What SupervisorBridge promises, without a word on processes, files or   *)
(* crashes: each browser operation is made at most once, an operation on   *)
(* behalf of a command comes after its submission, and only a command      *)
(* whose report went back is archived, for good.                           *)
(***************************************************************************)
EXTENDS Operations

VARIABLES
    delivered,  \* how often each operation was made
    archived    \* the commands that are done

Init ==
    /\ delivered = [k \in Keys |-> 0]
    /\ archived = {}

Deliver(k) ==
    /\ delivered[k] = 0
    /\ k # SubmitKey(k.cmd) => delivered[SubmitKey(k.cmd)] = 1
    /\ delivered' = [delivered EXCEPT ![k] = 1]
    /\ UNCHANGED archived

Finish(c) ==
    /\ delivered[ReturnKey(c)] = 1
    /\ archived' = archived \cup {c}
    /\ UNCHANGED delivered

Next ==
    \/ \E k \in Keys : Deliver(k)
    \/ \E c \in Commands : Finish(c)

Spec == Init /\ [][Next]_<<delivered, archived>>
=============================================================================
