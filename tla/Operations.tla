----------------------------- MODULE Operations -----------------------------
(***************************************************************************)
(* Commands, the idempotency keys of the browser operations made for them, *)
(* and what recovery concludes from the durable evidence.  A command       *)
(* stands for one canonical SUPERVISOR block, that is, for one SHA256.     *)
(***************************************************************************)
EXTENDS TaskStates, Naturals, FiniteSets

CONSTANTS
    Commands,    \* the canonical commands the Supervisor may issue
    NoCommand,   \* stands for the absence of a command
    TaskOf,      \* TASK_ID header of each command
    PhaseOf,     \* PHASE header of each command
    Mentions,    \* Mentions[d]: the commands whose TASK_ID occurs in d's text
    MaxRetries   \* config/settings.yaml: limits.max_retries

ASSUME CommandAssumption ==
    /\ NoCommand \notin Commands
    /\ MaxRetries \in Nat
    /\ Mentions \in [Commands -> SUBSET Commands]

\* The text of a command holds its own TASK_ID header.
ASSUME MentionAssumption ==
    \A c, d \in Commands : TaskOf[c] = TaskOf[d] => c \in Mentions[d]

SameTask(c, d) == TaskOf[c] = TaskOf[d]
SameTaskAndPhase(c, d) == SameTask(c, d) /\ PhaseOf[c] = PhaseOf[d]

-----------------------------------------------------------------------------
(* Idempotency keys, one per operation contract.                           *)

SubmitKey(c)   == [type |-> "GEMINI_SUBMISSION", cmd |-> c, attempt |-> 0]
ReturnKey(c)   == [type |-> "SUPERVISOR_RETURN", cmd |-> c, attempt |-> 0]
RetryKey(c, n) == [type |-> "GEMINI_RETRY",      cmd |-> c, attempt |-> n]
NoKey          == [type |-> "NONE",      cmd |-> NoCommand, attempt |-> 0]

RetryKeys == {RetryKey(c, n) : c \in Commands, n \in 1..MaxRetries}
Keys == {SubmitKey(c) : c \in Commands} \cup {ReturnKey(c) : c \in Commands} \cup RetryKeys

RecordState == {"NONE", "PREPARED", "CONFIRMED"}
Records     == [Keys -> RecordState]
NoRecords   == [k \in Keys |-> "NONE"]

\* Mutant: the records of submissions are searched instead.
PreparedSubmissions(records, c) ==
    {k \in {SubmitKey(d) : d \in Commands} : SameTask(k.cmd, c) /\ records[k] = "PREPARED"}

\* get_unfinished_prepared_record: PREPARED retries of c's task, any phase.
PreparedRetries(records, c) ==
    {k \in RetryKeys : SameTask(k.cmd, c) /\ records[k] = "PREPARED"}

-----------------------------------------------------------------------------
(* Evidence left on disk.                                                  *)

Archived(ledger, c) == \E d \in ledger : SameTaskAndPhase(c, d)

\* archive_to_ledger replaces the entry of the same task and phase.
Archive(ledger, c) == {d \in ledger : ~SameTaskAndPhase(c, d)} \cup {c}

\* A record whose task has no ledger entry, whatever the phase.
Unarchived(records, ledger) ==
    \E k \in Keys : /\ records[k] # "NONE"
                    /\ \A d \in ledger : ~SameTask(k.cmd, d)

\* Mutant: the checkpoint alone is looked at.
CheckpointEvidence(records, checkpoint, ledger) == checkpoint

OrphanEvidence(records, checkpoint, ledger) ==
    checkpoint \/ Unarchived(records, ledger)

-----------------------------------------------------------------------------
(* ReconciliationEngine.  "seen" is positive evidence on the page: a turn   *)
(* of AI Studio with the command or its TASK_ID (submission), a USER       *)
(* message of ChatGPT with the TASK_ID and a report (return).              *)

\* Mutant: a PREPARED record is taken for proof.
ReconcileTrusting(k, seen, records, checkpoint, ledger) ==
    IF Archived(ledger, k.cmd) THEN "PROVEN_COMPLETED"
    ELSE IF seen \/ records[k] # "NONE" THEN "PROVEN_EXECUTED"
    ELSE IF checkpoint THEN "INSUFFICIENT_EVIDENCE"
    ELSE "PROVEN_NOT_EXECUTED"

Reconcile(k, seen, records, checkpoint, ledger) ==
    IF Archived(ledger, k.cmd) THEN "PROVEN_COMPLETED"
    ELSE IF seen \/ records[k] = "CONFIRMED" THEN "PROVEN_EXECUTED"
    ELSE IF records[k] = "PREPARED" \/ checkpoint THEN "INSUFFICIENT_EVIDENCE"
    ELSE "PROVEN_NOT_EXECUTED"
=============================================================================
