----------------------------- MODULE StateFiles -----------------------------
(***************************************************************************)
(* Bridge over state files that are damaged from outside: a file that no   *)
(* longer parses, a task file with a state nobody knows or with an altered *)
(* command, a records file that was emptied.  Every label of a cycle that  *)
(* reads a file has its way of failing; where the files read are intact    *)
(* the cycle does what Bridge says.                                        *)
(***************************************************************************)
EXTENDS Bridge

CONSTANT MaxDamage  \* bound on the damages done to files

ASSUME DamageAssumption == MaxDamage \in Nat

VARIABLES
    damage,   \* what is wrong with each file; the variables of Bridge hold
              \* what the file contained before
    harms,    \* damages so far
    blanked,  \* whether the records file was ever emptied
    unread    \* files that were damaged when the cycle of a process began

files    == <<damage, harms, blanked, unread>>
fileVars == <<vars, files>>

Evidence == {"records", "checkpoint", "ledger"}
File     == Evidence \cup {"active"}

\* garbled: what the loader of the file rejects.  That is no JSON, or an empty
\* file other than the records; for the task also another schema or a missing
\* field, for the ledger anything without a list of tasks.  Records and
\* checkpoint are not looked at any closer.  badState: a current_state that is
\* no TaskState.  altered: raw_canonical_block does not have the SHA256 in
\* command_sha256.
Damages(f) == {"garbled"} \cup (IF f = "active" THEN {"badState", "altered"} ELSE {})

Exists(f) ==
    CASE f = "active"     -> active # NoTask
      [] f = "records"    -> records # NoRecords
      [] f = "checkpoint" -> checkpoint
      [] f = "ledger"     -> ledger # {}

Damaged(f) == damage[f] # "none"

FilesInit ==
    /\ Init
    /\ damage = [f \in File |-> "none"]
    /\ harms = 0
    /\ blanked = FALSE
    /\ unread = [p \in Procs |-> {}]

-----------------------------------------------------------------------------
(* A cycle that meets a damaged file.                                      *)

\* Mutant: operations take a records file that does not parse for what it was.
ReadsLittle(label) ==
    CASE label = "idle"        -> {"active"}
      [] label \in {"orphanCheck", "reconcile", "reconcileReturn"} -> Evidence
      [] label = "archiveLoad" -> {"ledger"}
      [] OTHER -> {}

\* The files that are loaded at a label.
Reads(label) ==
    CASE label = "idle"        -> {"active"}
      [] label \in {"orphanCheck", "reconcile", "reconcileReturn"} -> Evidence
      [] label \in {"findRetry", "prepare", "confirmLoad", "reconcileLoad"} -> {"records"}
      [] label = "archiveLoad" -> {"ledger"}
      [] OTHER -> {}

Meets(p, label) == pc[p] = label /\ \E f \in Reads(label) : Damaged(f)

\* load_active_task raises, and run_once answers HALTED.
TaskGarbled(p) ==
    /\ Meets(p, "idle") /\ ~estop
    /\ damage["active"] = "garbled"
    /\ EndCycle(p, "HALTED")
    /\ UNCHANGED disk

\* get_state_enum raises where run_once catches nothing.
StateUnknown(p) ==
    /\ Meets(p, "idle") /\ ~estop
    /\ damage["active"] = "badState"
    /\ EndCycle(p, "NONE")
    /\ UNCHANGED disk

\* COMMAND_HASH_MISMATCH, looked at after the finished and halted states.
TaskAltered(p) ==
    /\ Meets(p, "idle") /\ ~estop
    /\ damage["active"] = "altered"
    /\ active.state \notin Finished \cup Halted
    /\ \E d \in DryRuns :
          active' = IF d THEN active ELSE [active EXCEPT !.state = "MANUAL_REVIEW_REQUIRED"]
    /\ EndCycle(p, "HALTED")
    /\ UNCHANGED <<records, checkpoint, ledger>>

\* Only the CorruptStateError of the ledger is caught, and it is loaded last.
OrphanCheckRaises(p) ==
    /\ Meets(p, "orphanCheck")
    /\ EndCycle(p, IF Damaged("records") \/ Damaged("checkpoint") THEN "NONE" ELSE "HALTED")
    /\ UNCHANGED disk

\* Mutant: a checkpoint that does not parse is no checkpoint.
JudgedWithoutCheckpoint(k, seen) ==
    IF Damaged("ledger") THEN "CONFLICTING_EVIDENCE"
    ELSE IF Archived(ledger, k.cmd) \/ seen THEN Reconcile(k, seen, records, checkpoint, ledger)
    ELSE IF Damaged("records") THEN "raises"
    ELSE Reconcile(k, seen, records, checkpoint /\ ~Damaged("checkpoint"), ledger)

\* ReconciliationEngine stops at the first file that decides: ledger, page,
\* record, checkpoint.
Judged(k, seen) ==
    IF Damaged("ledger") THEN "CONFLICTING_EVIDENCE"
    ELSE IF /\ ~Archived(ledger, k.cmd) /\ ~seen
            /\ Damaged("records") \/ (records[k] = "NONE" /\ Damaged("checkpoint"))
         THEN "raises"
         ELSE Reconcile(k, seen, records, checkpoint, ledger)

ReconcileDamaged(p) ==
    /\ Meets(p, "reconcile")
    /\ \E seen \in {b \in BOOLEAN : b => InTurns(job[p].cmd)} :
          LET verdict == Judged(SubmitKey(job[p].cmd), seen)
          IN  \/ verdict = "raises" /\ EndCycle(p, "ERROR") /\ UNCHANGED disk
              \/ /\ verdict = "PROVEN_EXECUTED"
                 /\ Save(p, MovedTo(p, "WAITING_FOR_IMPLEMENTER"))
                 /\ EndCycle(p, "SUCCESS")
                 /\ UNCHANGED <<records, checkpoint, ledger>>
              \/ /\ verdict = "PROVEN_NOT_EXECUTED"
                 /\ IF dry[p]
                    THEN EndCycle(p, "SUCCESS")
                    ELSE /\ op' = [op EXCEPT ![p] = SubmitKey(job[p].cmd)]
                         /\ Goto(p, "prepare")
                         /\ UNCHANGED <<job, report>>
                 /\ UNCHANGED disk
              \/ /\ verdict \in {"CONFLICTING_EVIDENCE", "INSUFFICIENT_EVIDENCE", "PROVEN_COMPLETED"}
                 /\ Save(p, MovedTo(p, "MANUAL_REVIEW_REQUIRED"))
                 /\ EndCycle(p, "HALTED")
                 /\ UNCHANGED <<records, checkpoint, ledger>>

ReconcileReturnDamaged(p) ==
    /\ Meets(p, "reconcileReturn")
    /\ \E seen \in {b \in BOOLEAN : b => InUserMessages(job[p].cmd)} :
          LET verdict == Judged(ReturnKey(job[p].cmd), seen)
          IN  IF verdict \in {"PROVEN_EXECUTED", "PROVEN_COMPLETED"} /\ ~dry[p]
              THEN /\ job' = [job EXCEPT ![p] = MovedTo(p, "COMPLETED")]
                   /\ Goto(p, "archiveLoad")
                   /\ UNCHANGED <<op, report>>
              ELSE EndCycle(p, IF verdict = "raises" THEN "ERROR" ELSE "SUCCESS")
    /\ UNCHANGED disk

\* load_records raises inside the operation or the search for a retry.
RecordsRaise(p) ==
    /\ \E label \in {"findRetry", "prepare", "confirmLoad", "reconcileLoad"} : Meets(p, label)
    /\ EndCycle(p, "ERROR")
    /\ UNCHANGED disk

\* archive_to_ledger raises on loading the ledger; outside of any handler when the task was loaded
\* as finished.
LedgerRaises(p) ==
    /\ Meets(p, "archiveLoad")
    /\ EndCycle(p, IF op[p] = NoKey /\ active.state \in Finished THEN "NONE" ELSE "ERROR")
    /\ UNCHANGED disk

Fails(p) ==
    /\ \/ TaskGarbled(p) \/ StateUnknown(p) \/ TaskAltered(p)
       \/ OrphanCheckRaises(p)
       \/ ReconcileDamaged(p) \/ ReconcileReturnDamaged(p)
       \/ RecordsRaise(p) \/ LedgerRaises(p)
    /\ UNCHANGED <<estop, page, faults>>

\* What stands in the way of nothing: the emergency stop is asked first, and
\* a finished or halted task is not compared with its hash.
GoesOn(p) ==
    \/ ~ \E label \in Labels : Meets(p, label)
    \/ pc[p] = "idle" /\ estop
    \/ pc[p] = "idle" /\ damage["active"] = "altered" /\ active.state \in Finished \cup Halted

\* Files written anew in a step, from memory: the damage is gone with them.
Rewritten(p) ==
    {f \in File : CASE f = "active"     -> pc[p] # "idle" /\ (active' # active \/ (pc[p] = "resave" /\ ~dry[p]))
                    [] f = "records"    -> records' # records
                    [] f = "checkpoint" -> pc[p] = "writeCheckpoint"
                    [] f = "ledger"     -> pc[p] = "archiveWrite"}

FilesEngine(p) ==
    /\ Fails(p) \/ (GoesOn(p) /\ Engine(p))
    /\ damage' = [f \in File |-> IF f \in Rewritten(p) THEN "none" ELSE damage[f]]
    /\ unread' = [unread EXCEPT ![p] = IF pc[p] = "idle" /\ pc'[p] # "idle"
                                       THEN {f \in File : Damaged(f)}
                                       ELSE IF pc'[p] = "idle" THEN {} ELSE @]
    /\ UNCHANGED <<harms, blanked>>

-----------------------------------------------------------------------------
(* The world outside.                                                      *)

Damage(f, how) ==
    /\ harms < MaxDamage
    /\ Exists(f) /\ ~Damaged(f)
    /\ damage' = [damage EXCEPT ![f] = how]
    /\ harms' = harms + 1
    /\ UNCHANGED <<vars, blanked, unread>>

\* An empty records file is loaded as no records at all.
BlankRecords ==
    /\ harms < MaxDamage
    /\ Exists("records") /\ ~Damaged("records")
    /\ records' = NoRecords
    /\ blanked' = TRUE
    /\ harms' = harms + 1
    /\ UNCHANGED <<active, checkpoint, ledger, estop, cycle, page, faults, damage, unread>>

\* The operator repairs a file.
OperatorRestores(f) ==
    /\ Damaged(f)
    /\ damage' = [damage EXCEPT ![f] = "none"]
    /\ unread' = [p \in Procs |-> unread[p] \ {f}]
    /\ UNCHANGED <<vars, harms, blanked>>

\* The operator removes a task file that cannot be used.
OperatorRemovesTask ==
    /\ AllIdle
    /\ Damaged("active")
    /\ active' = NoTask
    /\ damage' = [damage EXCEPT !["active"] = "none"]
    /\ UNCHANGED <<records, checkpoint, ledger, estop, cycle, page, faults, harms, blanked, unread>>

FilesNext ==
    \/ \E p \in Procs : FilesEngine(p)
    \/ \E p \in Procs : Interrupt(p) /\ unread' = [unread EXCEPT ![p] = {}]
                                     /\ UNCHANGED <<damage, harms, blanked>>
    \/ \E f \in File : \E how \in Damages(f) : Damage(f, how)
    \/ BlankRecords
    \/ \E f \in File : OperatorRestores(f)
    \/ OperatorRemovesTask
    \/ Environment /\ UNCHANGED files
    \/ /\ Operator /\ damage["active"] \in {"none", "altered"}
       /\ damage' = [f \in File |-> IF Exists(f)' THEN damage[f] ELSE "none"]
       /\ UNCHANGED <<harms, blanked, unread>>

FilesSpec == FilesInit /\ [][FilesNext]_fileVars

-----------------------------------------------------------------------------
\* What state-inspect shows the operator of the files: StateInspector.
\* It ends in an exception on a state nobody knows.  "orphan" and "reconcile"
\* are its flags orphaned_state_detected and reconciliation_required.
Inspection ==
    LET hasTask == active # NoTask /\ damage["active"] \in {"none", "altered"}
        orphan  == /\ ~hasTask /\ ~Damaged("records") /\ ~Damaged("ledger")
                   /\ Unarchived(records, ledger)
    IN  [ failed     |-> damage["active"] = "badState",
          error      |-> \E f \in File : damage[f] = "garbled",
          checkpoint |-> checkpoint /\ ~Damaged("checkpoint"),
          orphan     |-> orphan,
          reconcile  |-> \/ hasTask /\ active.state = "MANUAL_REVIEW_REQUIRED"
                         \/ damage["active"] = "garbled"
                         \/ orphan ]

-----------------------------------------------------------------------------
(* Properties.                                                             *)

FilesTypeOK ==
    /\ TypeOK
    /\ \A f \in File : damage[f] \in Damages(f) \cup {"none"}
    /\ \A f \in File : Damaged(f) => Exists(f)
    /\ harms \in 0..MaxDamage
    /\ blanked \in BOOLEAN
    /\ unread \in [Procs -> SUBSET File]

\* Labels at which an operation is in hand and its click still to come.
BeforeClick == {"prepare", "writeRecord", "writeCheckpoint", "saveRetry", "clickRetry", "click"}

\* No operation is begun in a cycle that found its evidence damaged: the task
\* and the records for every operation, ledger and checkpoint too for a
\* submission (README, "Fail Closed").
OperationsNeedEvidence ==
    \A p \in Procs : pc[p] \in BeforeClick =>
        unread[p] \cap (IF op[p].type = "GEMINI_SUBMISSION" THEN File ELSE {"active", "records"}) = {}

\* Records and ledger that were damaged when a cycle began are not written in
\* it, whatever it does until the operator has repaired them: what is left in
\* them is not replaced by a copy from memory (idempotency.py:203,
\* state_repository.py:151).  The checkpoint has no such protection, it is
\* replaced unread by any retry or return; only a submission reads it first,
\* which is part of OperationsNeedEvidence.
UnreadEvidenceIsKept ==
    [][\/ \E f \in File : OperatorRestores(f)
       \/ \A p \in Procs :
             /\ "records" \in unread[p] => UNCHANGED <<records, damage["records"]>>
             /\ "ledger" \in unread[p] => UNCHANGED <<ledger, damage["ledger"]>>]_fileVars

\* What a cycle finds without an active task is what state-inspect shows at
\* that moment.  An orphan is reported for one that the inspector flags, with
\* reconciliation_required, or for a checkpoint alone, which it shows without
\* raising either flag; the cycle breaks off for an error shown; and a new
\* command is looked for only when nothing is shown.
InspectionAgrees ==
    [][\A p \in Procs : pc[p] = "orphanCheck" /\ pc'[p] # pc[p] /\ faults' = faults =>
          \/ /\ status'[p] = "ORPHANED_STATE"
             /\ \/ Inspection.orphan /\ Inspection.reconcile
                \/ Inspection.checkpoint /\ ~Inspection.orphan /\ ~Inspection.reconcile
          \/ status'[p] # "ORPHANED_STATE" /\ pc'[p] = "idle" /\ Inspection.error
          \/ pc'[p] = "intake" /\ ~(Inspection.orphan \/ Inspection.checkpoint \/ Inspection.error)]_fileVars

\* As long as no checkpoint is removed, damaged files never make the bridge
\* click twice, but for the return after the records were emptied: a return
\* is begun without a look at the checkpoint.
OnlyBlankedReturnsRepeat ==
    \A k \in Keys : clicks[k] > 1 => blanked /\ k.type = "SUPERVISOR_RETURN"
=============================================================================
