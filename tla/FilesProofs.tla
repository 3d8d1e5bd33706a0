----------------------------- MODULE FilesProofs -----------------------------
(***************************************************************************)
(* What damaged files do to the bridge, for every set of commands and      *)
(* every number of damages: types for any number of processes; and of the  *)
(* only process on a state directory, that it begins no operation without  *)
(* its evidence, writes no records and no ledger that it could not read,   *)
(* judges orphans as state-inspect does, and clicks twice only for a       *)
(* return whose record was emptied away.                                   *)
(***************************************************************************)
EXTENDS StateFiles, DeliveryProofs

\* The operator removes no checkpoint.
CheckpointStays == ~OperatorClears

-----------------------------------------------------------------------------
(* The inductive invariants.                                               *)

\* The files: their damages, and that only an existing file is damaged.
DamageOK ==
    /\ damage \in [File -> {"none", "garbled", "badState", "altered"}]
    /\ \A f \in File : damage[f] \in Damages(f) \cup {"none"}
    /\ \A f \in File : Damaged(f) => Exists(f)
    /\ harms \in 0..MaxDamage
    /\ blanked \in BOOLEAN
    /\ unread \in [Procs -> SUBSET File]

\* Labels a cycle can be at that has not asked for its records.
Unasked == {"orphanCheck", "advance", "reconcile", "reconcileReturn", "findRetry",
            "archiveLoad", "archiveWrite", "archiveClear"}

Archiving == {"archiveLoad", "archiveWrite", "archiveClear"}

\* What is unread stays damaged until somebody repairs it, and a cycle does
\* not get past the labels that load it.
UnreadOK(p) ==
    /\ pc[p] = "idle" => unread[p] = {}
    /\ \A f \in {"records", "ledger"} : f \in unread[p] => Damaged(f)
    /\ pc[p] \in {"orphanCheck", "advance", "reconcile"} => \A f \in Evidence : f \in unread[p] => Damaged(f)
    /\ "active" \in unread[p] => pc[p] \in Archiving /\ damage["active"] = "altered"
    /\ pc[p] = "archiveWrite" => "ledger" \notin unread[p]
    /\ "records" \in unread[p] => pc[p] \in Unasked
    /\ pc[p] = "intake" \/ (pc[p] \in BeforeClick /\ op[p].type = "GEMINI_SUBMISSION")
           => \A f \in Evidence : f \notin unread[p]

UnreadInv == \A p \in Procs : UnreadOK(p)

\* Between reconciliation and the click of a submission.
Submitting(p) == pc[p] \in BeforeClick /\ op[p].type = "GEMINI_SUBMISSION"

\* A submission is begun only before any click at all, a retry only with a
\* number that its task has not counted.
BegunFresh(p) ==
    /\ pc[p] = "intake" => ~checkpoint
    /\ Submitting(p) => \A k \in Keys : clicks[k] = 0
    /\ pc[p] \in {"saveRetry", "clickRetry", "click"} => checkpoint
    /\ pc[p] = "clickRetry" => op[p].attempt = active.retries /\ clicks[op[p]] = 0

\* A click leaves the checkpoint, which nobody removes: from then on there is
\* no other submission, and the task counts its retries whatever the records
\* say.
CountedRetries ==
    \A k \in Keys : clicks[k] > 0 /\ k.type = "GEMINI_RETRY" /\ active.cmd = k.cmd
                       => k.attempt <= active.retries

RepeatInv ==
    /\ \A k \in Keys : clicks[k] > 0 => checkpoint
    /\ \A k \in Keys : k.type # "SUPERVISOR_RETURN" => clicks[k] <= 1
    /\ CountedRetries
    /\ \A p \in Procs : BegunFresh(p) /\ InHand(p)

-----------------------------------------------------------------------------
(* A cycle that meets a damaged file breaks off, or takes a step of Bridge. *)

\* The cycle is over; a task may have gone to manual review.
BreaksOff(p) ==
    /\ \E r \in Statuses : EndCycle(p, r)
    /\ UNCHANGED <<records, checkpoint, ledger, estop, page, faults>>
    /\ \/ active' = active
       \/ pc[p] = "idle" /\ damage["active"] = "altered"
             /\ active' = [active EXCEPT !.state = "MANUAL_REVIEW_REQUIRED"]
       \/ pc[p] = "reconcile" /\ active' = MovedTo(p, "MANUAL_REVIEW_REQUIRED")

\* Reconciliation comes to its conclusion in spite of the damage; a
\* submission only if there is none that could matter.
GoesOnDamaged(p) ==
    /\ Engine(p) /\ pc[p] \in {"reconcile", "reconcileReturn"}
    /\ pc[p] = "reconcile" /\ pc'[p] # "idle" => \A f \in Evidence : ~Damaged(f)

\* A verdict that is reached in spite of the damage is Bridge's.
LEMMA JudgedForm ==
    ASSUME TypeInv, NEW k \in Keys, NEW seen \in BOOLEAN
    PROVE  /\ \/ Judged(k, seen) \in {"CONFLICTING_EVIDENCE", "raises"}
              \/ Judged(k, seen) = Reconcile(k, seen, records, checkpoint, ledger)
           /\ Judged(k, seen) = "PROVEN_NOT_EXECUTED" =>
                 ~Damaged("ledger") /\ ~Damaged("records") /\ ~Damaged("checkpoint")
  <1>1. CASE Damaged("ledger")
    BY <1>1 DEF Judged
  <1>2. CASE ~Damaged("ledger") /\ (seen \/ Archived(ledger, k.cmd))
    <2>1. Judged(k, seen) = Reconcile(k, seen, records, checkpoint, ledger)
      BY <1>2 DEF Judged
    <2>2. Reconcile(k, seen, records, checkpoint, ledger) # "PROVEN_NOT_EXECUTED"
      BY <1>2 DEF Reconcile
    <2> QED BY <2>1, <2>2
  <1>3. CASE ~Damaged("ledger") /\ ~seen /\ ~Archived(ledger, k.cmd)
    <2>1. records[k] \in {"NONE", "PREPARED", "CONFIRMED"}
      BY DEF TypeInv, DiskOK, Records, RecordState
    <2>2. Reconcile(k, seen, records, checkpoint, ledger) = "PROVEN_NOT_EXECUTED" => records[k] = "NONE"
      BY <1>3, <2>1 DEF Reconcile
    <2> QED BY <1>3, <2>2 DEF Judged
  <1> QED BY <1>1, <1>2, <1>3

LEMMA ReconcileForm ==
    ASSUME TypeInv, NEW p \in Procs, ReconcileDamaged(p), UNCHANGED <<estop, page, faults>>
    PROVE  GoesOnDamaged(p) \/ BreaksOff(p)
  <1>1. PICK seen \in {b \in BOOLEAN : b => InTurns(job[p].cmd)} :
          LET verdict == Judged(SubmitKey(job[p].cmd), seen)
          IN  \/ verdict = "raises" /\ EndCycle(p, "ERROR") /\ UNCHANGED disk
              \/ /\ verdict = "PROVEN_EXECUTED"
                 /\ Save(p, MovedTo(p, "WAITING_FOR_IMPLEMENTER"))
                 /\ EndCycle(p, "SUCCESS")
                 /\ UNCHANGED <<records, checkpoint, ledger>>
              \/ /\ verdict = "PROVEN_NOT_EXECUTED"
                 /\ IF dry[p]
                    THEN EndCycle(p, "SUCCESS")
                    ELSE /\ op' = [op EXCEPT ![p] = SubmitKey(job[p].cmd)]
                         /\ Goto(p, "prepare")
                         /\ UNCHANGED <<job, report>>
                 /\ UNCHANGED disk
              \/ /\ verdict \in {"CONFLICTING_EVIDENCE", "INSUFFICIENT_EVIDENCE", "PROVEN_COMPLETED"}
                 /\ Save(p, MovedTo(p, "MANUAL_REVIEW_REQUIRED"))
                 /\ EndCycle(p, "HALTED")
                 /\ UNCHANGED <<records, checkpoint, ledger>>
    BY DEF ReconcileDamaged
  <1> DEFINE verdict == Judged(SubmitKey(job[p].cmd), seen)
  <1>2. pc[p] = "reconcile" /\ SubmitKey(job[p].cmd) \in Keys
    BY LabelFacts, KeyFacts DEF ReconcileDamaged, Meets, TypeInv, LocalsOK, Tasks
  <1>3. CASE verdict = "raises"
    BY <1>1, <1>3, StatusFacts DEF BreaksOff, disk
  <1>4. CASE verdict = "PROVEN_EXECUTED"
    <2>0. Reconcile(SubmitKey(job[p].cmd), seen, records, checkpoint, ledger) = "PROVEN_EXECUTED"
      BY <1>2, <1>4, JudgedForm
    <2>1. ResumeProven(p)
      <3>1. "PROVEN_EXECUTED" \in SubmissionVerdicts(p)
        BY <2>0 DEF SubmissionVerdicts
      <3> QED BY <1>1, <1>2, <1>4, <3>1 DEF ResumeProven
    <2>2. pc'[p] = "idle"
      BY <2>1 DEF ResumeProven, EndCycle, TypeInv, CycleOK
    <2> QED BY <1>2, <2>1, <2>2 DEF GoesOnDamaged, Engine
  <1>5. CASE verdict = "PROVEN_NOT_EXECUTED"
    <2>1. Reconcile(SubmitKey(job[p].cmd), seen, records, checkpoint, ledger) = "PROVEN_NOT_EXECUTED"
      BY <1>2, <1>5, JudgedForm
    <2>2. "PROVEN_NOT_EXECUTED" \in SubmissionVerdicts(p)
      BY <2>1 DEF SubmissionVerdicts
    <2>3. Resubmit(p)
      BY <1>1, <1>2, <1>5, <2>2 DEF Resubmit
    <2>4. \A f \in Evidence : ~Damaged(f)
      BY <1>2, <1>5, JudgedForm DEF Evidence
    <2> QED BY <1>2, <2>3, <2>4 DEF GoesOnDamaged, Engine
  <1>6. CASE verdict \notin {"raises", "PROVEN_EXECUTED", "PROVEN_NOT_EXECUTED"}
    <2>1. /\ Save(p, MovedTo(p, "MANUAL_REVIEW_REQUIRED"))
          /\ EndCycle(p, "HALTED")
          /\ UNCHANGED <<records, checkpoint, ledger>>
      BY <1>1, <1>6
    <2> QED BY <1>2, <2>1, StatusFacts DEF BreaksOff, Save
  <1> QED BY <1>3, <1>4, <1>5, <1>6

LEMMA ReturnForm ==
    ASSUME TypeInv, NEW p \in Procs, ReconcileReturnDamaged(p), UNCHANGED <<estop, page, faults>>
    PROVE  GoesOnDamaged(p) \/ BreaksOff(p)
  <1>1. PICK seen \in {b \in BOOLEAN : b => InUserMessages(job[p].cmd)} :
          LET verdict == Judged(ReturnKey(job[p].cmd), seen)
          IN  IF verdict \in {"PROVEN_EXECUTED", "PROVEN_COMPLETED"} /\ ~dry[p]
              THEN /\ job' = [job EXCEPT ![p] = MovedTo(p, "COMPLETED")]
                   /\ Goto(p, "archiveLoad")
                   /\ UNCHANGED <<op, report>>
              ELSE EndCycle(p, IF verdict = "raises" THEN "ERROR" ELSE "SUCCESS")
    BY DEF ReconcileReturnDamaged
  <1> DEFINE verdict == Judged(ReturnKey(job[p].cmd), seen)
  <1>2. /\ pc[p] = "reconcileReturn" /\ ReturnKey(job[p].cmd) \in Keys
        /\ UNCHANGED <<disk, estop, page, faults>>
    BY LabelFacts, KeyFacts DEF ReconcileReturnDamaged, Meets, TypeInv, LocalsOK, Tasks
  <1>3. CASE verdict \in {"PROVEN_EXECUTED", "PROVEN_COMPLETED"} /\ ~dry[p]
    <2>1. Reconcile(ReturnKey(job[p].cmd), seen, records, checkpoint, ledger) = verdict
      BY <1>2, <1>3, JudgedForm
    <2>2. verdict \in ReturnVerdicts(p)
      BY <2>1 DEF ReturnVerdicts
    <2>3. ReconcileReturn(p)
      BY <1>1, <1>2, <1>3, <2>2 DEF ReconcileReturn
    <2> QED BY <1>2, <2>3 DEF GoesOnDamaged, Engine
  <1>4. CASE ~(verdict \in {"PROVEN_EXECUTED", "PROVEN_COMPLETED"} /\ ~dry[p])
    BY <1>1, <1>2, <1>4, StatusFacts DEF BreaksOff, disk
  <1> QED BY <1>3, <1>4

LEMMA FailsForm ==
    ASSUME TypeInv, NEW p \in Procs, Fails(p) PROVE GoesOnDamaged(p) \/ BreaksOff(p)
  <1>1. CASE ReconcileDamaged(p) \/ ReconcileReturnDamaged(p)
    BY <1>1, ReconcileForm, ReturnForm DEF Fails
  <1>2. CASE TaskAltered(p)
    BY <1>2, StatusFacts DEF TaskAltered, Meets, BreaksOff, Fails
  <1>3. CASE TaskGarbled(p) \/ StateUnknown(p) \/ OrphanCheckRaises(p) \/ RecordsRaise(p)
                \/ LedgerRaises(p)
    BY <1>3, StatusFacts
       DEF TaskGarbled, StateUnknown, OrphanCheckRaises, RecordsRaise, LedgerRaises, BreaksOff,
           Fails, disk
  <1> QED BY <1>1, <1>2, <1>3 DEF Fails


-----------------------------------------------------------------------------
(* Types.                                                                  *)

\* What a step of Bridge does to the files.
Touches(p) ==
    /\ active' # active => pc[p] \notin {"idle", "archiveLoad", "archiveWrite"}
    /\ records' # records => /\ pc[p] \in {"writeRecord", "confirmWrite", "reconcileWrite"}
                             /\ records' # NoRecords
    /\ checkpoint => checkpoint'
    /\ checkpoint' # checkpoint => pc[p] = "writeCheckpoint"
    /\ ledger' # ledger => pc[p] = "archiveWrite"

LEMMA EngineTouches == ASSUME TypeInv, NEW p \in Procs, Engine(p) PROVE Touches(p)
  <1> USE DEF Touches
  <1>1. CASE HaltOnStop(p) \/ HaltOnTask(p) \/ (\E d \in DryRuns : BeginCycle(p, d))
               \/ OrphanCheck(p) \/ Intake(p)
    BY <1>1 DEF HaltOnStop, HaltOnTask, BeginCycle, OrphanCheck, Intake, disk
  <1>2. CASE Advance(p) \/ ResumeProven(p) \/ Resubmit(p) \/ HaltAmbiguous(p)
               \/ ReconcileReturn(p) \/ FindRetry(p) \/ DetectRetryExecuted(p)
               \/ DetectRetryAmbiguous(p)
    BY <1>2 DEF Advance, ResumeProven, Resubmit, HaltAmbiguous, ReconcileReturn, FindRetry,
                DetectRetryExecuted, DetectRetryAmbiguous, disk
  <1>3. CASE DetectNothingToDo(p) \/ DetectCompleted(p) \/ DetectRetryAvailable(p)
               \/ AcceptReport(p) \/ RejectReport(p) \/ Prepare(p)
    BY <1>3 DEF DetectNothingToDo, DetectCompleted, DetectRetryAvailable, AcceptReport, TakeReport,
                RejectReport, Prepare, PrepareWhen, disk
  <1>4. CASE WritePrepared(p) \/ WriteConfirmed(p)
    <2>1. snap[p] \in Records /\ op[p] \in Keys
      BY <1>4 DEF WritePrepared, WriteConfirmed, TypeInv, CycleOK, LocalsOK, OpLabels
    <2>2. records'[op[p]] # "NONE"
      BY <1>4, <2>1 DEF WritePrepared, WriteConfirmed, Records
    <2> QED BY <1>4, <2>1, <2>2 DEF WritePrepared, WriteConfirmed, NoRecords
  <1>5. CASE WriteCheckpoint(p) \/ SaveRetry(p) \/ ClickRetry(p) \/ RetryButtonMissing(p)
               \/ RetryClickRaises(p) \/ PageNotReady(p)
    BY <1>5 DEF WriteCheckpoint, SaveRetry, ClickRetry, RetryButtonMissing, RetryClickRaises,
                PageNotReady, disk
  <1>6. CASE ClickSend(p) \/ ClickRaises(p) \/ SaveUncertain(p) \/ SaveSubmitted(p)
               \/ MarkReturned(p) \/ ConfirmLoad(p)
    BY <1>6 DEF ClickSend, ClickRaises, SaveUncertain, SaveSubmitted, MarkReturned, ConfirmLoad, disk
  <1>7. CASE Resave(p) \/ ArchiveLoad(p) \/ ArchiveWrite(p) \/ ArchiveClear(p)
    BY <1>7 DEF Resave, ArchiveLoad, ArchiveWrite, ArchiveClear, Archive, disk
  <1> QED BY <1>1, <1>2, <1>3, <1>4, <1>5, <1>6, <1>7 DEF Engine

\* So does the end of a cycle over a damaged file, but for the task of an
\* altered command, which stays where it is.
LEMMA BreaksOffTouches ==
    ASSUME TypeInv, DamageOK, NEW p \in Procs, BreaksOff(p)
    PROVE  /\ UNCHANGED <<records, checkpoint, ledger>>
           /\ active' \in Tasks \cup {NoTask}
           /\ active' # active => pc[p] \in {"idle", "reconcile"} /\ active' \in Tasks
  <1>1. "MANUAL_REVIEW_REQUIRED" \in FileStates /\ "reconcile" \in TaskLabels
    BY FileStateFacts, LabelFacts
  <1>2. active \in Tasks \cup {NoTask}
    BY DEF TypeInv, DiskOK
  <1>3. ASSUME pc[p] = "reconcile" PROVE MovedTo(p, "MANUAL_REVIEW_REQUIRED") \in Tasks
    BY <1>1, <1>3, MovedCount DEF TypeInv, LocalsOK
  <1>4. ASSUME damage["active"] = "altered"
        PROVE  /\ active \in Tasks
               /\ [active EXCEPT !.state = "MANUAL_REVIEW_REQUIRED"] \in Tasks
    <2>1. active # NoTask
      BY <1>4 DEF DamageOK, Damaged, Exists, File
    <2> QED BY <1>1, <1>2, <2>1 DEF Tasks
  <1> QED BY <1>1, <1>2, <1>3, <1>4 DEF BreaksOff

LEMMA FilesType == TypeInv /\ DamageOK /\ [FilesNext]_fileVars => TypeInv'
  <1> SUFFICES ASSUME TypeInv, DamageOK, [FilesNext]_fileVars PROVE TypeInv'
    OBVIOUS
  <1>1. ASSUME NEW p \in Procs, BreaksOff(p) PROVE TypeInv'
    <2>1. PICK r \in Statuses : EndCycle(p, r)
      BY <1>1 DEF BreaksOff
    <2>2. active' \in Tasks \cup {NoTask} /\ UNCHANGED <<records, checkpoint, ledger, estop, page>> /\ FaultsOK'
      BY <1>1, BreaksOffTouches DEF BreaksOff, TypeInv, FaultsOK
    <2> QED BY <2>1, <2>2, EndingStepType
  <1>2. ASSUME NEW p \in Procs, FilesEngine(p) PROVE TypeInv'
    <2>1. Engine(p) \/ BreaksOff(p)
      BY <1>2, FailsForm DEF FilesEngine, GoesOnDamaged
    <2> QED BY <1>1, <2>1, StepType DEF Next
  <1>3. CASE BlankRecords
    <2>1. NoRecords \in Records
      BY DEF NoRecords, Records, RecordState
    <2> QED BY <1>3, <2>1 DEF BlankRecords, TypeInv, DiskOK, CycleOK, PageOK, FaultsOK, LocalsOK, cycle, page
  <1>4. CASE OperatorRemovesTask
    BY <1>4 DEF OperatorRemovesTask, TypeInv, DiskOK, CycleOK, PageOK, FaultsOK, LocalsOK, cycle, page
  <1>5. CASE [Next]_vars
    BY <1>5, StepType
  <1>6. ASSUME NEW f \in File, (\E how \in Damages(f) : Damage(f, how)) \/ OperatorRestores(f)
        PROVE  UNCHANGED vars
    BY <1>6 DEF Damage, OperatorRestores
  <1> QED BY <1>2, <1>3, <1>4, <1>5, <1>6 DEF FilesNext, fileVars, Next

\* What is there, before and after a step.
LEMMA ExistsForm ==
    /\ (Exists("active") <=> active # NoTask) /\ (Exists("active")' <=> active' # NoTask)
    /\ (Exists("records") <=> records # NoRecords) /\ (Exists("records")' <=> records' # NoRecords)
    /\ (Exists("checkpoint") <=> checkpoint) /\ (Exists("checkpoint")' <=> checkpoint')
    /\ (Exists("ledger") <=> ledger # {}) /\ (Exists("ledger")' <=> ledger' # {})
  BY DEF Exists

\* A file is damaged after a step of a cycle if it was before and was not
\* written anew.
LEMMA CycleDamage ==
    ASSUME TypeInv, DamageOK, NEW p \in Procs, FilesEngine(p)
    PROVE  /\ Touches(p) \/ BreaksOff(p)
           /\ \A f \in File : Damaged(f)' => Damaged(f) /\ damage'[f] = damage[f] /\ Exists(f)'
           /\ DamageOK'
  <1>1. Touches(p) \/ BreaksOff(p)
    BY FailsForm, EngineTouches DEF FilesEngine, GoesOnDamaged
  <1>2. /\ damage' = [f \in File |-> IF f \in Rewritten(p) THEN "none" ELSE damage[f]]
        /\ UNCHANGED <<harms, blanked>>
    BY DEF FilesEngine
  <1>3. \A f \in File : /\ f \in Rewritten(p) => damage'[f] = "none"
                        /\ f \notin Rewritten(p) => damage'[f] = damage[f]
    BY <1>2
  <1>4. \A f \in File : Damaged(f)' => Damaged(f) /\ damage'[f] = damage[f] /\ f \notin Rewritten(p)
    BY <1>3 DEF Damaged
  <1>5. File = {"active", "records", "checkpoint", "ledger"}
    BY DEF File, Evidence
  <1>6. /\ pc[p] # "idle" /\ active' # active => "active" \in Rewritten(p)
        /\ records' # records <=> "records" \in Rewritten(p)
        /\ "ledger" \in Rewritten(p) <=> pc[p] = "archiveWrite"
    BY <1>5 DEF Rewritten
  <1>7. ASSUME NEW f \in File, Damaged(f)' PROVE Exists(f)'
    <2>1. Damaged(f) /\ f \notin Rewritten(p) /\ Exists(f)
      BY <1>4, <1>7 DEF DamageOK
    <2>2. CASE f = "active"
      <3>1. active # NoTask
        BY <2>1, <2>2, ExistsForm
      <3>2. active' # active => active' # NoTask
        BY <1>1, <1>6, <2>1, <2>2, BreaksOffTouches, NoTaskFacts DEF Touches
      <3> QED BY <2>2, <3>1, <3>2, ExistsForm
    <2>3. CASE f = "records"
      BY <1>6, <2>1, <2>3, ExistsForm
    <2>4. CASE f = "checkpoint"
      BY <1>1, <2>1, <2>4, BreaksOffTouches, ExistsForm DEF Touches
    <2>5. CASE f = "ledger"
      BY <1>1, <1>6, <2>1, <2>5, BreaksOffTouches, ExistsForm DEF Touches
    <2> QED BY <1>5, <2>2, <2>3, <2>4, <2>5
  <1>9. unread' \in [Procs -> SUBSET File]
    BY DEF FilesEngine, DamageOK
  <1>10. /\ damage' \in [File -> {"none", "garbled", "badState", "altered"}]
         /\ \A f \in File : damage'[f] \in Damages(f) \cup {"none"}
    BY <1>2 DEF DamageOK
  <1> QED BY <1>1, <1>2, <1>4, <1>7, <1>9, <1>10 DEF DamageOK


LEMMA DamageStep == TypeInv /\ DamageOK /\ [FilesNext]_fileVars => DamageOK'
  <1> SUFFICES ASSUME TypeInv, DamageOK, [FilesNext]_fileVars PROVE DamageOK'
    OBVIOUS
  <1>1. ASSUME NEW p \in Procs, FilesEngine(p) PROVE DamageOK'
    BY <1>1, CycleDamage
  <1>2. ASSUME \A f \in File : Damaged(f)' => Exists(f)',
               damage' \in [File -> {"none", "garbled", "badState", "altered"}],
               \A f \in File : damage'[f] \in Damages(f) \cup {"none"},
               harms' \in 0..MaxDamage, blanked' \in BOOLEAN, unread' \in [Procs -> SUBSET File]
        PROVE  DamageOK'
    BY <1>2 DEF DamageOK
  <1>3. \A f \in File : Damages(f) \subseteq {"none", "garbled", "badState", "altered"}
    BY DEF Damages
  <1>4. ASSUME NEW p \in Procs, Interrupt(p), unread' = [unread EXCEPT ![p] = {}],
               UNCHANGED <<damage, harms, blanked>>
        PROVE  DamageOK'
    <2>1. \A f \in File : Exists(f)' <=> Exists(f)
      BY <1>4 DEF Interrupt, Exists, disk
    <2> QED BY <1>4, <2>1 DEF DamageOK, Damaged
  <1>5. ASSUME NEW g \in File, NEW how \in Damages(g), Damage(g, how) PROVE DamageOK'
    <2>1. \A f \in File : Exists(f)' <=> Exists(f)
      BY <1>5 DEF Damage, Exists, vars, disk
    <2>2. damage' = [damage EXCEPT ![g] = how] /\ Exists(g) /\ harms < MaxDamage /\ harms' = harms + 1
          /\ UNCHANGED <<blanked, unread>>
      BY <1>5 DEF Damage
    <2>3. damage \in [File -> {"none", "garbled", "badState", "altered"}] /\ harms \in 0..MaxDamage
      BY DEF DamageOK
    <2>4. damage' \in [File -> {"none", "garbled", "badState", "altered"}]
      BY <1>3, <2>2, <2>3
    <2>5. \A f \in File : damage'[f] \in Damages(f) \cup {"none"}
      BY <2>2, <2>3 DEF DamageOK
    <2>6. \A f \in File : Damaged(f)' => Exists(f)'
      BY <2>1, <2>2, <2>3 DEF DamageOK, Damaged
    <2>7. harms' \in 0..MaxDamage
      BY <2>2, <2>3, DamageAssumption
    <2> QED BY <1>2, <2>2, <2>4, <2>5, <2>6, <2>7 DEF DamageOK
  <1>6. CASE BlankRecords
    <2>1. \A f \in File \ {"records"} : Exists(f)' <=> Exists(f)
      BY <1>6 DEF BlankRecords, Exists
    <2>2. harms' \in 0..MaxDamage /\ blanked' \in BOOLEAN /\ ~Damaged("records")
      BY <1>6, DamageAssumption DEF BlankRecords, DamageOK
    <2> QED BY <1>6, <2>1, <2>2 DEF BlankRecords, DamageOK, Damaged
  <1>7. ASSUME NEW g \in File, OperatorRestores(g) PROVE DamageOK'
    <2>1. \A f \in File : Exists(f)' <=> Exists(f)
      BY <1>7 DEF OperatorRestores, Exists, vars, disk
    <2> QED BY <1>7, <2>1 DEF OperatorRestores, DamageOK, Damaged
  <1>8. CASE OperatorRemovesTask
    <2>1. \A f \in File \ {"active"} : Exists(f) => Exists(f)'
      BY <1>8, ExistsForm DEF OperatorRemovesTask, File, Evidence
    <2> QED BY <1>8, <2>1 DEF OperatorRemovesTask, DamageOK, Damaged
  <1>9. CASE Environment /\ UNCHANGED files
    <2>1. \A f \in File : Exists(f)' <=> Exists(f)
      BY <1>9 DEF Environment, SupervisorPosts, GeminiAnswers, EngageStop, ReleaseStop, disk, Exists
    <2> QED BY <1>9, <2>1 DEF files, DamageOK, Damaged
  <1>11. CASE /\ Operator
              /\ damage' = [f \in File |-> IF Exists(f)' THEN damage[f] ELSE "none"]
              /\ UNCHANGED <<harms, blanked, unread>>
    BY <1>11 DEF DamageOK, Damaged
  <1>10. CASE UNCHANGED fileVars
    BY <1>10 DEF fileVars, files, vars, disk, DamageOK, Damaged, Exists
  <1> QED BY <1>1, <1>4, <1>5, <1>6, <1>7, <1>8, <1>9, <1>10, <1>11 DEF FilesNext

LEMMA FilesInitial == FilesInit => TypeInv /\ DamageOK
  <1>1. FilesInit => TypeInv
    BY InitType DEF FilesInit
  <1>2. ASSUME FilesInit PROVE DamageOK
    <2>1. /\ damage = [f \in File |-> "none"] /\ harms = 0 /\ blanked = FALSE
          /\ unread = [p \in Procs |-> {}]
      BY <1>2 DEF FilesInit
    <2>2. /\ \A f \in File : damage[f] = "none" /\ ~Damaged(f)
          /\ damage \in [File -> {"none", "garbled", "badState", "altered"}]
          /\ unread \in [Procs -> SUBSET File]
      BY <2>1 DEF Damaged
    <2>3. harms \in 0..MaxDamage
      BY <2>1, DamageAssumption
    <2> QED BY <2>1, <2>2, <2>3 DEF DamageOK
  <1> QED BY <1>1, <1>2

\* Whatever is damaged and however many processes run, the bridge stays well
\* typed, and a damage is one of a file that is there.
THEOREM FilesTypeCorrect == FilesSpec => []FilesTypeOK
  <1>1. TypeInv /\ DamageOK => FilesTypeOK
    BY DEF TypeInv, DiskOK, CycleOK, PageOK, FaultsOK, TypeOK, DamageOK, FilesTypeOK
  <1> QED BY <1>1, FilesInitial, FilesType, DamageStep, PTL DEF FilesSpec

-----------------------------------------------------------------------------
(* What is unread.                                                         *)

\* The ways a cycle may go.
Routes(p) ==
    \/ pc'[p] = "idle"
    \/ pc[p] = "idle" /\ active.state \notin Halted /\ pc'[p] = EntryLabel(active.state)
    \/ <<pc[p], pc'[p]>> \in { <<"orphanCheck", "intake">>, <<"intake", "prepare">>,
                               <<"advance", "reconcile">>, <<"reconcile", "prepare">>,
                               <<"reconcileReturn", "archiveLoad">>,
                               <<"archiveLoad", "archiveWrite">>,
                               <<"archiveWrite", "archiveClear">> }
    \/ /\ pc[p] \notin (Unasked \ {"findRetry"}) \cup {"idle", "intake"}
       /\ pc'[p] \notin {"orphanCheck", "intake", "advance", "reconcile", "reconcileReturn", "findRetry",
                         "archiveWrite"}
       /\ pc'[p] \in BeforeClick /\ op'[p].type = "GEMINI_SUBMISSION"
             => pc[p] \in BeforeClick /\ op'[p] = op[p]
       /\ pc'[p] = "prepare" => pc[p] \in {"detect", "inspect"}
       /\ pc'[p] \in {"saveRetry", "click"} => pc[p] = "writeCheckpoint"
       /\ pc'[p] = "clickRetry" => pc[p] = "saveRetry"

LEMMA RouteForm == ASSUME TypeInv, NEW p \in Procs, Engine(p) PROVE Routes(p)
  <1> USE DEF Goto, EndCycle, TypeInv, CycleOK, Routes
  <1>1. CASE HaltOnStop(p) \/ HaltOnTask(p) \/ (\E d \in DryRuns : BeginCycle(p, d))
               \/ OrphanCheck(p) \/ Intake(p)
    BY <1>1 DEF HaltOnStop, HaltOnTask, BeginCycle, OrphanCheck, Intake
  <1>2. CASE Advance(p) \/ ResumeProven(p) \/ Resubmit(p) \/ HaltAmbiguous(p) \/ ReconcileReturn(p)
    BY <1>2 DEF Advance, ResumeProven, Resubmit, HaltAmbiguous, ReconcileReturn
  <1> USE DEF Unasked, BeforeClick
  <1>3. CASE FindRetry(p) \/ DetectRetryExecuted(p) \/ DetectRetryAmbiguous(p)
               \/ DetectNothingToDo(p) \/ DetectCompleted(p) \/ RejectReport(p)
    BY <1>3 DEF FindRetry, DetectRetryExecuted, DetectRetryAmbiguous, DetectNothingToDo,
                DetectCompleted, RejectReport
  <1>4. CASE DetectRetryAvailable(p) \/ AcceptReport(p)
    BY <1>4 DEF DetectRetryAvailable, AcceptReport, TakeReport, RetryKey, ReturnKey
  <1>5. CASE Prepare(p) \/ WritePrepared(p) \/ WriteCheckpoint(p) \/ SaveRetry(p)
    BY <1>5 DEF Prepare, PrepareWhen, WritePrepared, WriteCheckpoint, SaveRetry
  <1>6. CASE ClickRetry(p) \/ RetryButtonMissing(p) \/ RetryClickRaises(p) \/ PageNotReady(p)
               \/ ClickSend(p) \/ ClickRaises(p) \/ SaveUncertain(p)
    BY <1>6 DEF ClickRetry, RetryButtonMissing, RetryClickRaises, PageNotReady, ClickSend, ClickRaises,
                SaveUncertain
  <1>7. CASE SaveSubmitted(p) \/ MarkReturned(p) \/ ConfirmLoad(p) \/ WriteConfirmed(p) \/ Resave(p)
               \/ ArchiveLoad(p) \/ ArchiveWrite(p) \/ ArchiveClear(p)
    BY <1>7 DEF SaveSubmitted, MarkReturned, ConfirmLoad, WriteConfirmed, Resave, ArchiveLoad,
                ArchiveWrite, ArchiveClear
  <1> QED BY <1>1, <1>2, <1>3, <1>4, <1>5, <1>6, <1>7 DEF Engine

\* The label says which action is next, where there is but one.
LEMMA ActionAt ==
    ASSUME NEW p \in Procs, Engine(p)
    PROVE  /\ pc[p] = "idle" /\ estop => HaltOnStop(p)
           /\ pc[p] = "orphanCheck" => OrphanCheck(p)
           /\ pc[p] = "reconcile" => ResumeProven(p) \/ Resubmit(p) \/ HaltAmbiguous(p)
           /\ pc[p] = "writeCheckpoint" => WriteCheckpoint(p)
           /\ pc[p] = "saveRetry" => SaveRetry(p)
           /\ pc[p] = "archiveLoad" => ArchiveLoad(p)
           /\ pc[p] = "archiveWrite" => ArchiveWrite(p)
           /\ pc[p] = "archiveClear" => ArchiveClear(p)
  <1>1. /\ HaltOnStop(p) \/ HaltOnTask(p) \/ (\E d \in DryRuns : BeginCycle(p, d)) => pc[p] = "idle"
        /\ HaltOnTask(p) \/ (\E d \in DryRuns : BeginCycle(p, d)) => ~estop
        /\ OrphanCheck(p) => pc[p] = "orphanCheck"
        /\ ResumeProven(p) \/ Resubmit(p) \/ HaltAmbiguous(p) => pc[p] = "reconcile"
    BY DEF HaltOnStop, HaltOnTask, BeginCycle, OrphanCheck, ResumeProven, Resubmit, HaltAmbiguous
  <1>2. /\ WriteCheckpoint(p) => pc[p] = "writeCheckpoint"
        /\ SaveRetry(p) => pc[p] = "saveRetry"
        /\ ArchiveLoad(p) => pc[p] = "archiveLoad"
        /\ ArchiveWrite(p) => pc[p] = "archiveWrite"
        /\ ArchiveClear(p) => pc[p] = "archiveClear"
    BY DEF WriteCheckpoint, SaveRetry, ArchiveLoad, ArchiveWrite, ArchiveClear
  <1>3. Intake(p) \/ Advance(p) \/ ReconcileReturn(p) \/ FindRetry(p) \/ DetectRetryExecuted(p)
        \/ DetectRetryAmbiguous(p) \/ DetectNothingToDo(p) \/ DetectCompleted(p)
        \/ DetectRetryAvailable(p) \/ AcceptReport(p) \/ RejectReport(p)
           => pc[p] \in {"intake", "advance", "reconcileReturn", "findRetry", "detect", "inspect"}
    BY DEF Intake, Advance, ReconcileReturn, FindRetry, DetectRetryExecuted, DetectRetryAmbiguous,
           DetectNothingToDo, DetectCompleted, DetectRetryAvailable, AcceptReport, RejectReport
  <1>4. Prepare(p) \/ WritePrepared(p) \/ ClickRetry(p) \/ RetryButtonMissing(p)
        \/ RetryClickRaises(p) \/ PageNotReady(p) \/ ClickSend(p) \/ ClickRaises(p)
        \/ SaveUncertain(p) \/ SaveSubmitted(p) \/ MarkReturned(p) \/ ConfirmLoad(p)
        \/ WriteConfirmed(p) \/ Resave(p)
           => pc[p] \in {"prepare", "writeRecord", "clickRetry", "click", "clickRaised", "clicked",
                         "confirmLoad", "confirmWrite", "reconcileLoad", "reconcileWrite", "resave"}
    BY DEF Prepare, PrepareWhen, WritePrepared, ClickRetry, RetryButtonMissing, RetryClickRaises,
           PageNotReady, ClickSend, ClickRaises, SaveUncertain, SaveSubmitted, MarkReturned,
           ConfirmLoad, WriteConfirmed, Resave
  <1> QED BY <1>1, <1>2, <1>3, <1>4 DEF Engine

\* A cycle that goes on has found the files intact that it loaded.
LEMMA WentOn ==
    ASSUME TypeInv, NEW p \in Procs, FilesEngine(p), pc'[p] # "idle"
    PROVE  /\ Engine(p)
           /\ pc[p] \in {"orphanCheck", "reconcile"} => \A f \in Evidence : ~Damaged(f)
           /\ pc[p] = "findRetry" => ~Damaged("records")
           /\ pc[p] = "archiveLoad" => ~Damaged("ledger")
           /\ pc[p] = "idle" /\ Damaged("active")
                 => damage["active"] = "altered" /\ active.state \in Finished \cup Halted
  <1>1. CASE Fails(p)
    <2>1. ~BreaksOff(p)
      BY DEF BreaksOff, EndCycle, TypeInv, CycleOK
    <2> QED BY <1>1, <2>1, FailsForm DEF GoesOnDamaged
  <1>2. CASE GoesOn(p) /\ Engine(p)
    <2>1. pc[p] \in Labels /\ (estop /\ pc[p] = "idle" => pc'[p] = "idle")
      BY <1>2, ActionAt DEF HaltOnStop, EndCycle, TypeInv, CycleOK
    <2>2. \/ \A f \in Reads(pc[p]) : ~Damaged(f)
          \/ pc[p] = "idle" /\ damage["active"] = "altered" /\ active.state \in Finished \cup Halted
      BY <1>2, <2>1 DEF GoesOn, Meets
    <2> QED BY <1>2, <2>2 DEF Reads
  <1> QED BY <1>1, <1>2 DEF FilesEngine

\* The damages stay as they are where nothing is written.
LEMMA DamageStays ==
    ASSUME TypeInv, DamageOK, NEW p \in Procs, FilesEngine(p)
    PROVE  /\ pc[p] # "archiveWrite" => damage'["ledger"] = damage["ledger"] /\ ledger' = ledger
           /\ pc[p] \in (Unasked \ {"archiveWrite"}) \cup {"idle"} =>
                 \A f \in Evidence : damage'[f] = damage[f]
           /\ pc[p] \in {"idle", "archiveLoad", "archiveWrite"} => damage'["active"] = damage["active"]
           /\ pc[p] \in Unasked => records' = records /\ damage'["records"] = damage["records"]
  <1>1. \A f \in File : f \notin Rewritten(p) => damage'[f] = damage[f]
    BY DEF FilesEngine
  <1>2. Touches(p) \/ BreaksOff(p)
    BY CycleDamage
  <1>3. /\ pc[p] \in Unasked \cup {"idle"} => records' = records
        /\ pc[p] \in {"archiveLoad", "archiveWrite"} => active' = active
        /\ pc[p] # "archiveWrite" => ledger' = ledger
    BY <1>2, BreaksOffTouches DEF Touches, Unasked
  <1>4. File = {"active", "records", "checkpoint", "ledger"} /\ Evidence = {"records", "checkpoint", "ledger"}
    BY DEF File, Evidence
  <1>5. /\ pc[p] \in Unasked \cup {"idle"} => "records" \notin Rewritten(p) /\ "checkpoint" \notin Rewritten(p)
        /\ pc[p] # "archiveWrite" => "ledger" \notin Rewritten(p)
        /\ pc[p] \in {"idle", "archiveLoad", "archiveWrite"} => "active" \notin Rewritten(p)
    BY <1>3, <1>4 DEF Rewritten, Unasked
  <1>6. "idle" # "archiveWrite"
    OBVIOUS
  <1> QED BY <1>1, <1>3, <1>4, <1>5, <1>6

LEMMA UnreadCycle ==
    ASSUME TypeInv, DamageOK, NEW p \in Procs, UnreadOK(p), FilesEngine(p)
    PROVE  UnreadOK(p)'
  <1>1. unread'[p] = IF pc[p] = "idle" /\ pc'[p] # "idle" THEN {f \in File : Damaged(f)}
                     ELSE IF pc'[p] = "idle" THEN {} ELSE unread[p]
    BY DEF FilesEngine, DamageOK
  <1>2. File = {"active", "records", "checkpoint", "ledger"} /\ Evidence = {"records", "checkpoint", "ledger"}
    BY DEF File, Evidence
  <1>3. CASE pc'[p] = "idle"
    BY <1>1, <1>3 DEF UnreadOK, BeforeClick
  <1>4. CASE pc'[p] # "idle" /\ pc[p] = "idle"
    <2>1. active.state \notin Halted /\ pc'[p] = EntryLabel(active.state)
      BY <1>4, WentOn, RouteForm DEF Routes
    <2>2. pc'[p] \in Unasked \ {"archiveWrite", "archiveClear"}
      BY <2>1, EntryLabels DEF Unasked, TypeInv, DiskOK
    <2>3. \A f \in File : damage'[f] = damage[f]
      BY <1>2, <1>4, DamageStays
    <2>4. ASSUME "active" \in unread'[p] PROVE pc'[p] = "archiveLoad" /\ damage'["active"] = "altered"
      <3>1. Damaged("active")
        BY <1>1, <1>4, <2>4
      <3>2. damage["active"] = "altered" /\ active.state \in Finished
        BY <1>4, <2>1, <3>1, WentOn
      <3>3. EntryLabel(active.state) = "archiveLoad"
        BY <3>2 DEF EntryLabel, Finished, Intermediate, Polling
      <3> QED BY <1>2, <2>1, <2>3, <3>2, <3>3
    <2>5. \A f \in File : f \in unread'[p] => Damaged(f)'
      BY <1>1, <1>4, <2>3 DEF Damaged
    <2>6. pc'[p] # "intake" /\ pc'[p] \notin BeforeClick
      BY <2>2 DEF Unasked, BeforeClick
    <2> QED BY <1>2, <1>4, <2>2, <2>4, <2>5, <2>6 DEF UnreadOK, Unasked, Archiving
  <1>5. CASE pc'[p] # "idle" /\ pc[p] # "idle"
    <2>1. unread'[p] = unread[p] /\ Engine(p) /\ Routes(p)
      BY <1>1, <1>5, WentOn, RouteForm
    <2>2. \A f \in {"records", "ledger"} : f \in unread[p] => Damaged(f)'
      <3>1. "records" \in unread[p] => Damaged("records") /\ damage'["records"] = damage["records"]
        BY <1>2, DamageStays DEF UnreadOK
      <3>2. "ledger" \in unread[p] => Damaged("ledger") /\ damage'["ledger"] = damage["ledger"]
        BY <1>2, DamageStays DEF UnreadOK
      <3> QED BY <3>1, <3>2 DEF Damaged
    <2>3. ASSUME pc'[p] \in {"orphanCheck", "advance", "reconcile"}
          PROVE  \A f \in Evidence : f \in unread[p] => Damaged(f)'
      <3>1. pc[p] = "advance"
        BY <1>5, <2>1, <2>3 DEF Routes
      <3> QED BY <3>1, DamageStays DEF UnreadOK, Damaged, Unasked
    <2>4. ASSUME "active" \in unread[p]
          PROVE  pc'[p] \in Archiving /\ damage'["active"] = "altered"
      <3>1. pc[p] \in Archiving /\ damage["active"] = "altered"
        BY <2>4 DEF UnreadOK
      <3>2. <<pc[p], pc'[p]>> \in {<<"archiveLoad", "archiveWrite">>, <<"archiveWrite", "archiveClear">>}
        BY <1>5, <2>1, <3>1 DEF Routes, Unasked, Archiving
      <3> QED BY <3>1, <3>2, DamageStays DEF Archiving
    <2>5. ASSUME "records" \in unread[p] PROVE pc'[p] \in Unasked
      <3>1. pc[p] \in Unasked /\ Damaged("records")
        BY <2>5 DEF UnreadOK
      <3>2. pc[p] \notin {"orphanCheck", "reconcile", "findRetry"}
        BY <1>2, <1>5, <3>1, WentOn
      <3> QED BY <1>5, <2>1, <3>1, <3>2 DEF Routes, Unasked
    <2>6. ASSUME pc'[p] = "intake" \/ (pc'[p] \in BeforeClick /\ op'[p].type = "GEMINI_SUBMISSION")
          PROVE  \A f \in Evidence : f \notin unread[p]
      <3>1. \/ pc[p] \in {"orphanCheck", "reconcile"}
            \/ pc[p] = "intake"
            \/ pc[p] \in BeforeClick /\ op[p].type = "GEMINI_SUBMISSION"
        BY <1>5, <2>1, <2>6 DEF Routes, BeforeClick
      <3>2. pc[p] \in {"orphanCheck", "reconcile"} => \A f \in Evidence : f \notin unread[p]
        BY <1>5, WentOn DEF UnreadOK
      <3> QED BY <3>1, <3>2 DEF UnreadOK
    <2>7. ASSUME pc'[p] = "archiveWrite" PROVE "ledger" \notin unread[p]
      <3>1. pc[p] = "archiveLoad"
        BY <1>5, <2>1, <2>7 DEF Routes, Unasked
      <3> QED BY <1>5, <3>1, WentOn DEF UnreadOK
    <2> QED BY <1>5, <2>1, <2>2, <2>3, <2>4, <2>5, <2>6, <2>7 DEF UnreadOK
  <1> QED BY <1>3, <1>4, <1>5

LEMMA UnreadStep ==
    ASSUME Alone PROVE TypeInv /\ DamageOK /\ UnreadInv /\ [FilesNext]_fileVars => UnreadInv'
  <1> SUFFICES ASSUME TypeInv, DamageOK, UnreadInv, [FilesNext]_fileVars, NEW q \in Procs
               PROVE  UnreadOK(q)'
    BY DEF UnreadInv
  <1>0. UnreadOK(q) /\ unread[q] \subseteq File /\ unread \in [Procs -> SUBSET File]
    BY DEF UnreadInv, DamageOK
  <1>1. ASSUME NEW p \in Procs, FilesEngine(p) PROVE UnreadOK(q)'
    <2>1. p = q
      BY DEF Alone
    <2> QED BY <1>0, <1>1, <2>1, UnreadCycle
  <1>2. ASSUME NEW p \in Procs, Interrupt(p), unread' = [unread EXCEPT ![p] = {}]
        PROVE  UnreadOK(q)'
    <2>1. p = q
      BY DEF Alone
    <2>2. unread'[q] = {} /\ pc'[q] = "idle"
      BY <1>0, <1>2, <2>1 DEF Interrupt, EndCycle, TypeInv, CycleOK
    <2> QED BY <2>2 DEF UnreadOK, BeforeClick
  <1>3. ASSUME pc' = pc, op' = op, unread'[q] \subseteq unread[q],
               \A f \in File : f \in unread'[q] /\ Damaged(f) => damage'[f] = damage[f]
        PROVE  UnreadOK(q)'
    <2>1. {"active", "records", "ledger"} \subseteq File /\ Evidence \subseteq File
      BY DEF File, Evidence
    <2>2. \A f \in File : f \in unread'[q] /\ Damaged(f) => Damaged(f)'
      BY <1>3 DEF Damaged
    <2>3. "active" \in unread[q] => Damaged("active")
      BY <1>0 DEF UnreadOK, Damaged
    <2> QED BY <1>0, <1>3, <2>1, <2>2, <2>3 DEF UnreadOK
  <1>4. ASSUME NEW f \in File, NEW how \in Damages(f), Damage(f, how) PROVE UnreadOK(q)'
    <2>1. pc' = pc /\ op' = op /\ unread' = unread /\ ~Damaged(f)
      BY <1>4 DEF Damage, vars, cycle
    <2>2. damage' = [damage EXCEPT ![f] = how] /\ damage \in [File -> {"none", "garbled", "badState", "altered"}]
      BY <1>4 DEF Damage, DamageOK
    <2> QED BY <1>3, <2>1, <2>2
  <1>5. ASSUME NEW f \in File, OperatorRestores(f) PROVE UnreadOK(q)'
    <2>1. pc' = pc /\ op' = op /\ unread'[q] = unread[q] \ {f}
      BY <1>5 DEF OperatorRestores, vars, cycle
    <2>2. damage' = [damage EXCEPT ![f] = "none"] /\ damage \in [File -> {"none", "garbled", "badState", "altered"}]
      BY <1>5 DEF OperatorRestores, DamageOK
    <2> QED BY <1>3, <2>1, <2>2
  <1>6. CASE OperatorRemovesTask
    <2>1. pc' = pc /\ unread' = unread /\ pc[q] = "idle"
      BY <1>6 DEF OperatorRemovesTask, cycle, AllIdle
    <2> QED BY <1>0, <2>1 DEF UnreadOK, BeforeClick
  <1>7. CASE BlankRecords \/ (Environment /\ UNCHANGED files) \/ UNCHANGED fileVars
    <2>1. pc' = pc /\ op' = op /\ unread' = unread /\ damage' = damage
      BY <1>7 DEF BlankRecords, Environment, SupervisorPosts, GeminiAnswers, EngageStop,
                  ReleaseStop, files, fileVars, vars, cycle
    <2> QED BY <1>3, <2>1
  <1>8. CASE Operator /\ unread' = unread
    <2>1. pc' = pc /\ unread' = unread /\ pc[q] = "idle"
      BY <1>8 DEF Operator, OperatorClearsTask, OperatorClearsCheckpoint, OperatorUpdatesTask,
                  AllIdle, cycle
    <2> QED BY <1>0, <2>1 DEF UnreadOK, BeforeClick
  <1> QED BY <1>1, <1>2, <1>4, <1>5, <1>6, <1>7, <1>8 DEF FilesNext

LEMMA UnreadInitial == FilesInit => UnreadInv
  <1> SUFFICES ASSUME FilesInit, NEW p \in Procs PROVE UnreadOK(p)
    BY DEF UnreadInv
  <1>1. unread[p] = {} /\ pc[p] = "idle"
    BY DEF FilesInit, Init
  <1> QED BY <1>1 DEF UnreadOK, BeforeClick

\* The only process on a state directory begins no operation in a cycle that
\* found its evidence damaged.
THEOREM EvidenceComesFirst == ASSUME Alone PROVE FilesSpec => []OperationsNeedEvidence
  <1>1. TypeInv /\ DamageOK /\ UnreadInv => OperationsNeedEvidence
    <2> SUFFICES ASSUME UnreadInv, NEW p \in Procs, pc[p] \in BeforeClick
                 PROVE  unread[p] \cap (IF op[p].type = "GEMINI_SUBMISSION" THEN File
                                        ELSE {"active", "records"}) = {}
      BY DEF OperationsNeedEvidence
    <2>1. "active" \notin unread[p] /\ "records" \notin unread[p]
      BY DEF UnreadInv, UnreadOK, BeforeClick, Unasked, Archiving
    <2>2. op[p].type = "GEMINI_SUBMISSION" => \A f \in Evidence : f \notin unread[p]
      BY DEF UnreadInv, UnreadOK
    <2> QED BY <2>1, <2>2 DEF File
  <1> QED BY <1>1, FilesInitial, UnreadInitial, FilesType, DamageStep, UnreadStep, PTL DEF FilesSpec

\* Records and ledger that the only process could not read are not written,
\* nor is what is wrong with them, until the operator repairs a file.
LEMMA UnreadIsKept ==
    ASSUME Alone, TypeInv, DamageOK, UnreadInv, [FilesNext]_fileVars, NEW p \in Procs
    PROVE  \/ \E f \in File : OperatorRestores(f)
           \/ /\ "records" \in unread[p] => UNCHANGED <<records, damage["records"]>>
              /\ "ledger" \in unread[p] => UNCHANGED <<ledger, damage["ledger"]>>
  <1>0. UnreadOK(p) /\ {"records", "ledger"} \subseteq File
    BY DEF UnreadInv, File, Evidence
  <1>1. /\ "records" \in unread[p] => pc[p] \in Unasked /\ Damaged("records") /\ Exists("records")
        /\ "ledger" \in unread[p] => pc[p] # "archiveWrite" /\ Damaged("ledger") /\ Exists("ledger")
    BY <1>0 DEF UnreadOK, DamageOK
  <1>2. ASSUME NEW q \in Procs, FilesEngine(q)
        PROVE  /\ "records" \in unread[p] => UNCHANGED <<records, damage["records"]>>
               /\ "ledger" \in unread[p] => UNCHANGED <<ledger, damage["ledger"]>>
    <2>1. p = q
      BY DEF Alone
    <2> QED BY <1>1, <1>2, <2>1, DamageStays
  <1>3. CASE BlankRecords
    BY <1>1, <1>3 DEF BlankRecords
  <1>4. ASSUME NEW f \in File, NEW how \in Damages(f), Damage(f, how)
        PROVE  /\ "records" \in unread[p] => UNCHANGED <<records, damage["records"]>>
               /\ "ledger" \in unread[p] => UNCHANGED <<ledger, damage["ledger"]>>
    <2>1. UNCHANGED <<records, ledger>> /\ ~Damaged(f) /\ damage' = [damage EXCEPT ![f] = how]
      BY <1>4 DEF Damage, vars, disk
    <2>2. \A g \in File : Damaged(g) => damage'[g] = damage[g]
      BY <2>1 DEF DamageOK
    <2> QED BY <1>0, <1>1, <2>1, <2>2
  <1>5. CASE OperatorRemovesTask
    BY <1>5 DEF OperatorRemovesTask, DamageOK
  <1>6. CASE \/ \E q \in Procs : Interrupt(q) /\ UNCHANGED damage
             \/ Environment /\ UNCHANGED files
             \/ UNCHANGED fileVars
    BY <1>6 DEF Interrupt, Environment, SupervisorPosts, GeminiAnswers, EngageStop, ReleaseStop,
                fileVars, files, vars, disk
  <1>7. CASE Operator /\ damage' = [f \in File |-> IF Exists(f)' THEN damage[f] ELSE "none"]
    <2>1. UNCHANGED <<records, ledger>>
      BY <1>7 DEF Operator, OperatorClearsTask, OperatorClearsCheckpoint, OperatorUpdatesTask
    <2>2. /\ Exists("records") => Exists("records")'
          /\ Exists("ledger") => Exists("ledger")'
      BY <2>1, ExistsForm
    <2>3. \A f \in File : Exists(f)' => damage'[f] = damage[f]
      BY <1>7
    <2> QED BY <1>0, <1>1, <2>1, <2>2, <2>3
  <1> QED BY <1>2, <1>3, <1>4, <1>5, <1>6, <1>7 DEF FilesNext

\* Records and ledger that a cycle of the only process found damaged stay as
\* they are, damage and content, whatever the cycle does, until the operator
\* repairs them.
THEOREM UnreadEvidenceStays == ASSUME Alone PROVE FilesSpec => UnreadEvidenceIsKept
  <1>1. TypeInv /\ DamageOK /\ UnreadInv /\ [FilesNext]_fileVars =>
          [\/ \E f \in File : OperatorRestores(f)
           \/ \A p \in Procs :
                 /\ "records" \in unread[p] => UNCHANGED <<records, damage["records"]>>
                 /\ "ledger" \in unread[p] => UNCHANGED <<ledger, damage["ledger"]>>]_fileVars
    BY UnreadIsKept
  <1> QED BY <1>1, FilesInitial, UnreadInitial, FilesType, DamageStep, UnreadStep, PTL
          DEF FilesSpec, UnreadEvidenceIsKept

-----------------------------------------------------------------------------
(* state-inspect.                                                          *)

LEMMA TaskHeldStep ==
    ASSUME Alone
    PROVE  TypeInv /\ DamageOK /\ (\A p \in Procs : TaskHeld(p)) /\ [FilesNext]_fileVars
               => (\A p \in Procs : TaskHeld(p))'
  <1> SUFFICES ASSUME TypeInv, \A p \in Procs : TaskHeld(p), [FilesNext]_fileVars, NEW q \in Procs
               PROVE  TaskHeld(q)'
    OBVIOUS
  <1>0. TaskHeld(q)
    OBVIOUS
  <1>1. ASSUME pc'[q] = "idle" PROVE TaskHeld(q)'
    BY <1>1 DEF TaskHeld, TaskLabels
  <1>2. ASSUME NEW p \in Procs, FilesEngine(p) PROVE TaskHeld(q)'
    <2>1. p = q
      BY DEF Alone
    <2>2. CASE Engine(p)
      BY <1>0, <2>1, <2>2, HandStep
    <2>3. CASE BreaksOff(p)
      BY <1>1, <2>1, <2>3 DEF BreaksOff, EndCycle, TypeInv, CycleOK
    <2> QED BY <1>2, <2>2, <2>3, FailsForm DEF FilesEngine, GoesOnDamaged
  <1>3. ASSUME NEW p \in Procs, Interrupt(p) PROVE TaskHeld(q)'
    <2>1. p = q
      BY DEF Alone
    <2> QED BY <1>1, <1>3, <2>1 DEF Interrupt, EndCycle, TypeInv, CycleOK
  <1>4. ASSUME AllIdle, pc' = pc PROVE TaskHeld(q)'
    BY <1>1, <1>4 DEF AllIdle
  <1>5. CASE Operator \/ OperatorRemovesTask
    BY <1>4, <1>5 DEF Operator, OperatorClearsTask, OperatorClearsCheckpoint, OperatorUpdatesTask,
                      OperatorRemovesTask, cycle
  <1>6. CASE \/ \E f \in File : OperatorRestores(f) \/ \E how \in Damages(f) : Damage(f, how)
             \/ BlankRecords \/ Environment \/ UNCHANGED fileVars
    <2>1. pc' = pc /\ job' = job /\ active' = active
      BY <1>6 DEF OperatorRestores, Damage, BlankRecords, Environment, SupervisorPosts,
                  GeminiAnswers, EngageStop, ReleaseStop, fileVars, vars, disk, cycle
    <2> QED BY <1>0, <2>1 DEF TaskHeld
  <1> QED BY <1>2, <1>3, <1>5, <1>6 DEF FilesNext

\* What OrphanCheck may do when it is the turn of it, with damage or without.
LEMMA OrphanForm ==
    ASSUME TypeInv, NEW p \in Procs, FilesEngine(p), pc[p] = "orphanCheck"
    PROVE  \/ OrphanCheckRaises(p)
           \/ (\A f \in Evidence : ~Damaged(f)) /\ OrphanCheck(p)
  <1>1. CASE Fails(p)
    BY <1>1 DEF Fails, TaskGarbled, StateUnknown, TaskAltered, ReconcileDamaged,
                ReconcileReturnDamaged, RecordsRaise, LedgerRaises, Meets
  <1>2. CASE GoesOn(p) /\ Engine(p)
    <2>1. OrphanCheck(p)
      BY <1>2, ActionAt
    <2>2. \A f \in Evidence : ~Damaged(f)
      BY <1>2 DEF GoesOn, Meets, Reads, Labels
    <2> QED BY <2>1, <2>2
  <1> QED BY <1>1, <1>2 DEF FilesEngine

LEMMA InspectionStep ==
    ASSUME Alone, TypeInv, DamageOK, [FilesNext]_fileVars,
           NEW p \in Procs, TaskHeld(p), pc[p] = "orphanCheck", pc'[p] # pc[p], faults' = faults
    PROVE  \/ /\ status'[p] = "ORPHANED_STATE"
              /\ \/ Inspection.orphan /\ Inspection.reconcile
                 \/ Inspection.checkpoint /\ ~Inspection.orphan /\ ~Inspection.reconcile
           \/ status'[p] # "ORPHANED_STATE" /\ pc'[p] = "idle" /\ Inspection.error
           \/ pc'[p] = "intake" /\ ~(Inspection.orphan \/ Inspection.checkpoint \/ Inspection.error)
  <1>1. active = NoTask
    BY DEF TaskHeld
  <1>2. ~Damaged("active")
    BY <1>1, ExistsForm DEF DamageOK, File
  <1>3. \A f \in Evidence : Damaged(f) <=> damage[f] = "garbled"
    BY DEF DamageOK, Damages, Damaged, Evidence, File
  <1>4. Inspection.error <=> \E f \in Evidence : Damaged(f)
    BY <1>2, <1>3 DEF Inspection, Damaged, File
  <1>5. /\ Inspection.checkpoint <=> checkpoint /\ ~Damaged("checkpoint")
        /\ Inspection.orphan <=> ~Damaged("records") /\ ~Damaged("ledger") /\ Unarchived(records, ledger)
        /\ Inspection.reconcile <=> Inspection.orphan
    BY <1>1, <1>2 DEF Inspection, Damaged
  <1>6. FilesEngine(p)
    <2>1. ASSUME NEW q \in Procs, Interrupt(q) PROVE FALSE
      BY <2>1 DEF Interrupt, TypeInv, FaultsOK
    <2>2. CASE \/ \E f \in File : OperatorRestores(f) \/ \E how \in Damages(f) : Damage(f, how)
               \/ BlankRecords \/ OperatorRemovesTask \/ Environment \/ Operator \/ UNCHANGED fileVars
      <3>1. pc' = pc
        BY <2>2 DEF OperatorRestores, Damage, BlankRecords, OperatorRemovesTask, Environment, Operator,
                    SupervisorPosts, GeminiAnswers, EngageStop, ReleaseStop, OperatorClearsTask,
                    OperatorClearsCheckpoint, OperatorUpdatesTask, fileVars, vars, cycle
      <3> QED BY <3>1
    <2>3. ASSUME NEW q \in Procs, FilesEngine(q) PROVE FilesEngine(p)
      <3>1. q = p
        BY DEF Alone
      <3> QED BY <2>3, <3>1
    <2> QED BY <2>1, <2>2, <2>3 DEF FilesNext
  <1> USE DEF EndCycle, Goto, TypeInv, CycleOK
  <1>7. CASE OrphanCheckRaises(p)
    <2>1. pc'[p] = "idle" /\ status'[p] # "ORPHANED_STATE"
      BY <1>7 DEF OrphanCheckRaises
    <2>2. \E f \in Evidence : Damaged(f)
      BY <1>7 DEF OrphanCheckRaises, Meets, Reads
    <2> QED BY <1>4, <2>1, <2>2
  <1>8. CASE (\A f \in Evidence : ~Damaged(f)) /\ OrphanCheck(p)
    <2>1. CASE OrphanEvidence(records, checkpoint, ledger)
      <3>1. status'[p] = "ORPHANED_STATE"
        BY <1>8, <2>1 DEF OrphanCheck
      <3> QED BY <1>5, <1>8, <2>1, <3>1 DEF OrphanEvidence, Evidence
    <2>2. CASE ~OrphanEvidence(records, checkpoint, ledger)
      <3>1. pc'[p] = "intake"
        BY <1>8, <2>2 DEF OrphanCheck
      <3> QED BY <1>4, <1>5, <1>8, <2>2, <3>1 DEF OrphanEvidence
    <2> QED BY <2>1, <2>2
  <1> QED BY <1>6, <1>7, <1>8, OrphanForm

LEMMA TaskHeldInitial == FilesInit => \A p \in Procs : TaskHeld(p)
  BY DEF FilesInit, Init, TaskHeld, TaskLabels

\* What the only process finds without a task is what state-inspect shows.
THEOREM InspectorSeesTheSame == ASSUME Alone PROVE FilesSpec => InspectionAgrees
  <1>1. TypeInv /\ DamageOK /\ (\A p \in Procs : TaskHeld(p)) /\ [FilesNext]_fileVars =>
          [\A p \in Procs : pc[p] = "orphanCheck" /\ pc'[p] # pc[p] /\ faults' = faults =>
             \/ /\ status'[p] = "ORPHANED_STATE"
                /\ \/ Inspection.orphan /\ Inspection.reconcile
                   \/ Inspection.checkpoint /\ ~Inspection.orphan /\ ~Inspection.reconcile
             \/ status'[p] # "ORPHANED_STATE" /\ pc'[p] = "idle" /\ Inspection.error
             \/ pc'[p] = "intake"
                  /\ ~(Inspection.orphan \/ Inspection.checkpoint \/ Inspection.error)]_fileVars
    BY InspectionStep
  <1> QED BY <1>1, FilesInitial, TaskHeldInitial, FilesType, DamageStep, TaskHeldStep, PTL
          DEF FilesSpec, InspectionAgrees

-----------------------------------------------------------------------------
(* Clicks.                                                                 *)

\* Where a cycle comes from that is about to click.
LEMMA ComesFrom ==
    ASSUME TypeInv, NEW p \in Procs, Engine(p)
    PROVE  /\ pc'[p] = "intake" => pc[p] = "orphanCheck" /\ OrphanCheck(p)
           /\ Submitting(p)' => \/ pc[p] = "intake"
                                \/ pc[p] = "reconcile" /\ Resubmit(p)
                                \/ Submitting(p) /\ pc'[p] # "prepare"
           /\ pc'[p] \in {"saveRetry", "click"} => WriteCheckpoint(p)
           /\ pc'[p] = "clickRetry" => SaveRetry(p)
  <1>1. active \in Tasks \cup {NoTask}
    BY DEF TypeInv, DiskOK
  <1>2. active.state \notin Halted => EntryLabel(active.state) \notin {"intake"} \cup BeforeClick
    BY <1>1, EntryLabels DEF BeforeClick
  <1>3. Routes(p) /\ "idle" \notin BeforeClick
    BY RouteForm DEF BeforeClick
  <1>4. pc'[p] = "intake" => pc[p] = "orphanCheck"
    BY <1>2, <1>3 DEF Routes
  <1>5. ASSUME Submitting(p)'
        PROVE  \/ pc[p] = "intake"
               \/ pc[p] = "reconcile" /\ pc'[p] = "prepare"
               \/ Submitting(p) /\ pc'[p] # "prepare"
    BY <1>2, <1>3, <1>5 DEF Routes, Submitting, BeforeClick
  <1>6. /\ pc'[p] \in {"saveRetry", "click"} => pc[p] = "writeCheckpoint"
        /\ pc'[p] = "clickRetry" => pc[p] = "saveRetry"
    BY <1>2, <1>3 DEF Routes, BeforeClick
  <1>7. ResumeProven(p) \/ HaltAmbiguous(p) => pc'[p] = "idle"
    BY DEF ResumeProven, HaltAmbiguous, EndCycle, TypeInv, CycleOK
  <1> QED BY <1>4, <1>5, <1>6, <1>7, ActionAt

LEMMA RepeatStarts ==
    ASSUME TypeInv, NEW p \in Procs, StageOK(p), RepeatInv, Engine(p), clicks' = clicks
    PROVE  BegunFresh(p)'
  <1>0. BegunFresh(p) /\ InHand(p) /\ Touches(p)
    BY EngineTouches DEF RepeatInv
  <1>1. ASSUME pc'[p] = "intake" PROVE ~checkpoint'
    <2>1. OrphanCheck(p)
      BY <1>1, ComesFrom
    <2> QED BY <1>1, <2>1 DEF OrphanCheck, OrphanEvidence, EndCycle, TypeInv, CycleOK, disk
  <1>2. ~checkpoint => \A k \in Keys : clicks[k] = 0
    BY DEF RepeatInv, TypeInv, PageOK
  <1>3. ASSUME Submitting(p)' PROVE \A k \in Keys : clicks'[k] = 0
    <2>1. CASE pc[p] = "intake"
      BY <1>0, <1>2, <2>1 DEF BegunFresh
    <2>2. CASE Resubmit(p)
      <3>1. "PROVEN_NOT_EXECUTED" \in SubmissionVerdicts(p)
        BY <2>2 DEF Resubmit
      <3>2. ~checkpoint
        BY <3>1 DEF SubmissionVerdicts, Reconcile
      <3> QED BY <1>2, <3>2
    <2>3. CASE Submitting(p)
      BY <1>0, <2>3 DEF BegunFresh
    <2> QED BY <1>3, <2>1, <2>2, <2>3, ComesFrom
  <1>4. ASSUME pc'[p] \in {"saveRetry", "click"} PROVE checkpoint'
    BY <1>4, ComesFrom DEF WriteCheckpoint
  <1>5. ASSUME pc'[p] = "clickRetry"
        PROVE  checkpoint' /\ op'[p].attempt = active'.retries /\ clicks'[op'[p]] = 0
    <2>1. SaveRetry(p) /\ pc[p] = "saveRetry"
      BY <1>5, ComesFrom DEF SaveRetry
    <2>2. checkpoint'
      BY <1>0, <2>1 DEF BegunFresh, Touches
    <2>3. op[p] \in Keys /\ pc[p] \in TaskLabels /\ op[p].type = "GEMINI_RETRY" /\ op'[p] = op[p]
      BY <2>1, LabelFacts DEF TypeInv, LocalsOK, OpLabels, StageOK, SaveRetry
    <2>4. op[p] # NoKey
      BY <2>3 DEF NoKey
    <2>5. /\ op[p].cmd = active.cmd
          /\ op[p].attempt = active.retries + 1 /\ active.retries \in Nat
      BY <1>0, <2>1, <2>3, <2>4 DEF StageOK, InHand, TaskHeld, RetryHeld, Preparing, Tasks
    <2>6. clicks[op[p]] = 0
      <3>1. clicks[op[p]] > 0 => op[p].attempt <= active.retries
        BY <2>3, <2>5 DEF RepeatInv, CountedRetries
      <3>2. clicks[op[p]] \in Nat
        BY <2>3 DEF TypeInv, PageOK
      <3> QED BY <2>5, <3>1, <3>2
    <2>7. active'.retries = op[p].attempt
      BY <1>0, <2>1, <2>3, HandStep DEF InHand, Follows
    <2> QED BY <2>2, <2>3, <2>6, <2>7
  <1> QED BY <1>1, <1>3, <1>4, <1>5 DEF BegunFresh

\* What a step does to the task leaves its count of retries good.
LEMMA CountStays ==
    ASSUME TypeInv, NEW p \in Procs, StageOK(p), RepeatInv, Engine(p),
           NEW k \in Keys, clicks[k] > 0, k.type = "GEMINI_RETRY", active'.cmd = k.cmd
    PROVE  k.attempt <= active'.retries
  <1>0. BegunFresh(p) /\ InHand(p) /\ Follows(p) /\ checkpoint
    BY HandStep DEF RepeatInv, InHand
  <1>1. active \in Tasks \cup {NoTask} /\ pc[p] \in Labels
    BY DEF TypeInv, DiskOK, CycleOK
  <1>2. active.retries \in Nat /\ k.attempt \in Nat
    BY <1>1, RetryForm DEF Tasks, NoTask
  <1>3. active.cmd = k.cmd => k.attempt <= active.retries
    BY DEF RepeatInv, CountedRetries
  <1>4. CASE pc[p] \in {"idle", "orphanCheck"}
    BY <1>0, <1>3, <1>4 DEF Follows
  <1>5. CASE pc[p] = "intake"
    BY <1>0, <1>5 DEF BegunFresh
  <1>6. CASE pc[p] = "archiveClear"
    <2>1. active' = NoTask
      BY <1>6, ActionAt DEF ArchiveClear
    <2>2. k.cmd \in Commands
      BY RetryForm
    <2> QED BY <2>1, <2>2, CommandAssumption DEF NoTask
  <1>7. CASE pc[p] \in TaskLabels \ {"archiveClear"}
    <2>1. active'.cmd = active.cmd
      BY <1>0, <1>7 DEF Follows
    <2>2. CASE pc[p] # "saveRetry"
      <3>1. active'.retries = active.retries
        BY <1>0, <1>7, <2>2 DEF Follows
      <3> QED BY <1>3, <2>1, <3>1
    <2>3. CASE pc[p] = "saveRetry"
      <3>1. active'.retries = op[p].attempt
        BY <1>0, <1>7, <2>3 DEF Follows
      <3>2. op[p].attempt = active.retries + 1
        BY <1>0, <1>7, <2>3 DEF InHand, TaskHeld, RetryHeld, Preparing, StageOK
      <3> QED BY <1>2, <1>3, <2>1, <3>1, <3>2
    <2> QED BY <2>2, <2>3
  <1> QED BY <1>1, <1>4, <1>5, <1>6, <1>7 DEF TaskLabels

LEMMA RepeatCycle ==
    ASSUME Alone, TypeInv, NEW p \in Procs, StageOK(p), RepeatInv, Engine(p)
    PROVE  RepeatInv'
  <1>0. BegunFresh(p) /\ InHand(p) /\ Touches(p)
    BY EngineTouches DEF RepeatInv
  <1>1. \A q \in Procs : q = p
    BY DEF Alone
  <1>2. InHand(p)'
    BY <1>0, HandStep, RetryHeldStep DEF InHand
  <1>3. CASE Walks(p)
    <2>1. clicks' = clicks
      BY <1>3 DEF Walks
    <2>2. BegunFresh(p)'
      BY <2>1, RepeatStarts DEF RepeatInv
    <2>3. CountedRetries'
      BY <2>1, CountStays DEF CountedRetries
    <2> QED BY <1>0, <1>1, <1>2, <2>1, <2>2, <2>3 DEF RepeatInv, Touches
  <1>4. CASE Strikes(p)
    <2>1. pc[p] \in {"click", "clickRetry"} /\ op[p] \in Keys
      BY <1>4 DEF Strikes, TypeInv, LocalsOK, OpLabels
    <2>2. clicks' = [clicks EXCEPT ![op[p]] = @ + 1] /\ clicks \in [Keys -> Nat]
      BY <1>4 DEF Strikes, Lands, TypeInv, PageOK
    <2>3. checkpoint'
      BY <1>0, <2>1 DEF BegunFresh, Touches
    <2>4. ASSUME op[p].type # "SUPERVISOR_RETURN" PROVE clicks[op[p]] = 0
      <3>1. CASE pc[p] = "clickRetry"
        BY <1>0, <3>1 DEF BegunFresh
      <3>2. CASE pc[p] = "click"
        <4>1. op[p].type # "GEMINI_RETRY"
          BY <3>2 DEF StageOK
        <4>2. op[p].type = "GEMINI_SUBMISSION"
          BY <2>1, <2>4, <4>1, KeyTypes DEF Keys
        <4> QED BY <1>0, <2>1, <3>2, <4>2 DEF BegunFresh, Submitting, BeforeClick
      <3> QED BY <2>1, <3>1, <3>2
    <2>5. \A k \in Keys : k.type # "SUPERVISOR_RETURN" => clicks'[k] <= 1
      BY <2>1, <2>2, <2>4 DEF RepeatInv
    <2>6. ASSUME NEW k \in Keys, clicks'[k] > 0, k.type = "GEMINI_RETRY", active'.cmd = k.cmd
          PROVE  k.attempt <= active'.retries
      <3>1. CASE k = op[p]
        <4>1. pc[p] = "clickRetry" /\ op[p].attempt = active.retries
          BY <1>0, <2>1, <2>6, <3>1 DEF StageOK, BegunFresh
        <4>2. active'.retries = active.retries /\ active.retries \in Nat
          BY <1>0, <4>1, HandStep, LabelFacts DEF InHand, Follows, TaskHeld, Tasks, OpLabels
        <4> QED BY <3>1, <4>1, <4>2
      <3>2. CASE k # op[p]
        <4>1. clicks[k] > 0
          BY <2>2, <2>6, <3>2
        <4> QED BY <2>6, <4>1, CountStays
      <3> QED BY <3>1, <3>2
    <2>7. pc'[p] \notin {"saveRetry", "clickRetry", "click"}
      BY <1>4 DEF Strikes, PastStopCheck, TypeInv, CycleOK
    <2>8. pc'[p] # "intake" /\ ~Submitting(p)'
      <3>1. pc'[p] \notin PastStopCheck
        BY <1>4 DEF Strikes, TypeInv, CycleOK
      <3>2. ~Resubmit(p)
        BY <2>1 DEF Resubmit
      <3> QED BY <2>1, <3>1, <3>2, ComesFrom DEF Submitting, BeforeClick, PastStopCheck
    <2>9. BegunFresh(p)'
      BY <2>7, <2>8 DEF BegunFresh
    <2> QED BY <1>1, <1>2, <2>3, <2>5, <2>6, <2>9 DEF RepeatInv, CountedRetries
  <1> QED BY <1>3, <1>4, WalksOrStrikes

\* Every step is one of Bridge, or a cycle breaks off, or the records are
\* emptied or the task removed from outside.
LEMMA StepForm ==
    ASSUME TypeInv, [FilesNext]_fileVars
    PROVE  \/ [Next]_vars /\ blanked' = blanked
           \/ \E p \in Procs : BreaksOff(p) /\ blanked' = blanked
           \/ BlankRecords
           \/ OperatorRemovesTask /\ blanked' = blanked
  <1>1. ASSUME NEW p \in Procs, FilesEngine(p)
        PROVE  blanked' = blanked /\ (BreaksOff(p) \/ [Next]_vars)
    BY <1>1, FailsForm DEF FilesEngine, GoesOnDamaged, Next
  <1>2. ASSUME NEW p \in Procs, Interrupt(p), UNCHANGED <<damage, harms, blanked>>
        PROVE  [Next]_vars /\ blanked' = blanked
    BY <1>2 DEF Next
  <1>3. ASSUME \E f \in File : OperatorRestores(f) \/ \E how \in Damages(f) : Damage(f, how)
        PROVE  [Next]_vars /\ blanked' = blanked
    BY <1>3 DEF OperatorRestores, Damage
  <1>4. ASSUME (Environment /\ UNCHANGED files) \/ (Operator /\ blanked' = blanked) \/ UNCHANGED fileVars
        PROVE  [Next]_vars /\ blanked' = blanked
    BY <1>4 DEF Next, files, fileVars
  <1>5. OperatorRemovesTask => blanked' = blanked
    BY DEF OperatorRemovesTask
  <1> QED BY <1>1, <1>2, <1>3, <1>4, <1>5 DEF FilesNext

LEMMA FilesAnswer == TypeInv /\ DamageOK /\ AnswerInv /\ [FilesNext]_fileVars => AnswerInv'
  <1> SUFFICES ASSUME TypeInv, DamageOK, AnswerInv, [FilesNext]_fileVars PROVE AnswerInv'
    OBVIOUS
  <1>0. TypeInv'
    BY FilesType
  <1>1. CASE [Next]_vars
    BY <1>1, AnswerStep
  <1>2. ASSUME NEW p \in Procs, BreaksOff(p) PROVE AnswerInv'
    <2>1. PICK r \in Statuses : EndCycle(p, r)
      BY <1>2 DEF BreaksOff
    <2>2. UNCHANGED <<records, clicks, answered, reported>>
      BY <1>2 DEF BreaksOff, page
    <2> QED BY <1>0, <2>1, <2>2, CalmEnd
  <1>3. CASE BlankRecords \/ OperatorRemovesTask
    <2>1. UNCHANGED <<clicks, answered, reported, pc, op, snap, report>>
      BY <1>3 DEF BlankRecords, OperatorRemovesTask, cycle, page
    <2>2. \A k \in Keys : records'[k] \in {records[k], "NONE"}
      BY <1>3 DEF BlankRecords, OperatorRemovesTask, NoRecords
    <2>3. ConfirmedWasClicked'
      BY <2>1, <2>2 DEF AnswerInv, ConfirmedWasClicked
    <2> QED BY <2>1, <2>3 DEF AnswerInv, LoadedWasClicked, AnsweredWasSubmitted,
                              ReturnsAnswerTheirCommand, ContractOK
  <1> QED BY <1>1, <1>2, <1>3, StepForm

\* A task sent to review is as honest as before.
LEMMA ReviewIsHonest ==
    ASSUME NEW t \in Tasks, NEW seen, Honest(t, seen)
    PROVE  Honest([t EXCEPT !.state = "MANUAL_REVIEW_REQUIRED"], seen)
  BY DEF Honest, Tasks, EngineStates, Waited, Finished

LEMMA FilesEvidence ==
    TypeInv /\ DamageOK /\ AnswerInv /\ EvidenceInv /\ [FilesNext]_fileVars => EvidenceInv'
  <1> SUFFICES ASSUME TypeInv, DamageOK, AnswerInv, EvidenceInv, [FilesNext]_fileVars PROVE EvidenceInv'
    OBVIOUS
  <1>0. TypeInv'
    BY FilesType
  <1>1. CASE [Next]_vars
    BY <1>1, EvidenceStep
  <1>2. ASSUME NEW p \in Procs, BreaksOff(p) PROVE EvidenceInv'
    <2>1. /\ pc'[p] = "idle" /\ job'[p] = NoTask /\ op'[p] = NoKey
          /\ OthersWait(p) /\ clicks' = clicks /\ ledger' = ledger
      BY <1>2 DEF BreaksOff, EndCycle, OthersWait, TypeInv, CycleOK, page
    <2>2. ClicksGrow
      BY <2>1 DEF ClicksGrow, TypeInv, PageOK
    <2>3. StageOK(p)'
      BY <2>1 DEF StageOK, Starting
    <2>4. Honest(active, clicks) /\ Honest(job[p], clicks)
      BY DEF EvidenceInv
    <2>5. pc[p] = "reconcile" => job[p] \in Tasks
      BY LabelFacts DEF TypeInv, LocalsOK
    <2>6. damage["active"] = "altered" => active \in Tasks
      <3>1. damage["active"] = "altered" => active # NoTask
        BY ExistsForm DEF DamageOK, Damaged, File
      <3> QED BY <3>1 DEF TypeInv, DiskOK
    <2>7. Honest(active', clicks')
      BY <1>2, <2>1, <2>4, <2>5, <2>6, ReviewIsHonest DEF BreaksOff, MovedTo
    <2> QED BY <1>0, <2>1, <2>2, <2>3, <2>7, HonestNoTask, EvidenceKept
  <1>3. CASE BlankRecords \/ OperatorRemovesTask
    <2>1. /\ UNCHANGED <<ledger, entries, clicks, pc, op, job>> /\ active' \in {active, NoTask}
      BY <1>3 DEF BlankRecords, OperatorRemovesTask, cycle, page
    <2>2. Honest(active', clicks')
      BY <2>1, HonestNoTask DEF EvidenceInv
    <2> QED BY <2>1, <2>2 DEF EvidenceInv, ArchivedWasReturned, EntriesEarned, StageOK, Honest
  <1> QED BY <1>1, <1>2, <1>3, StepForm

\* Nothing is clicked out of turn until the records are emptied.
LEMMA FilesIntent ==
    ASSUME Alone
    PROVE  TypeInv /\ DamageOK /\ (~blanked => IntentInv) /\ [FilesNext]_fileVars
               => (~blanked => IntentInv)'
  <1> SUFFICES ASSUME TypeInv, DamageOK, ~blanked => IntentInv, [FilesNext]_fileVars, ~blanked'
               PROVE  IntentInv'
    OBVIOUS
  <1>0. ~BlankRecords
    BY DEF BlankRecords
  <1>1. IntentInv
    BY <1>0, StepForm
  <1>2. CASE [Next]_vars
    BY <1>1, <1>2, IntentStep
  <1>3. ASSUME NEW p \in Procs, BreaksOff(p) PROVE IntentInv'
    <2>1. PICK r \in Statuses : EndCycle(p, r)
      BY <1>3 DEF BreaksOff
    <2>2. UNCHANGED <<records, clicks>>
      BY <1>3 DEF BreaksOff, page
    <2> QED BY <1>1, <2>1, <2>2, QuietEnd, QuietStep
  <1>4. CASE OperatorRemovesTask
    <2>1. UNCHANGED <<records, clicks, pc, op, snap>>
      BY <1>4 DEF OperatorRemovesTask, cycle, page
    <2> QED BY <1>1, <2>1 DEF IntentInv, AtMostOnce, IntentOnDisk, IntentFresh, IntentArmed, IntentWriting
  <1> QED BY <1>0, <1>2, <1>3, <1>4, StepForm

\* Steps that click nothing and begin nothing.
LEMMA RepeatOutside ==
    ASSUME RepeatInv, clicks' = clicks, checkpoint' = checkpoint,
           active' = NoTask \/ (active'.cmd = active.cmd /\ active'.retries = active.retries),
           \A p \in Procs : pc'[p] = "idle" \/ (pc'[p] = pc[p] /\ op'[p] = op[p] /\ job'[p] = job[p]
                                                  /\ active' = active)
    PROVE  RepeatInv'
  <1>1. CountedRetries'
    <2>1. \A k \in Keys : k.type = "GEMINI_RETRY" => k.cmd # NoTask.cmd
      BY RetryForm, CommandAssumption DEF NoTask
    <2> QED BY <2>1 DEF RepeatInv, CountedRetries
  <1>2. ASSUME NEW p \in Procs PROVE BegunFresh(p)' /\ InHand(p)'
    <2>1. BegunFresh(p) /\ InHand(p)
      BY DEF RepeatInv
    <2>2. CASE pc'[p] = "idle"
      BY <2>2 DEF BegunFresh, Submitting, BeforeClick, InHand, TaskHeld, TaskLabels, RetryHeld, Preparing
    <2>3. CASE pc'[p] = pc[p] /\ op'[p] = op[p] /\ job'[p] = job[p] /\ active' = active
      BY <2>1, <2>3 DEF BegunFresh, Submitting, InHand, TaskHeld, RetryHeld
    <2> QED BY <2>2, <2>3
  <1> QED BY <1>1, <1>2 DEF RepeatInv

LEMMA FilesRepeat ==
    ASSUME Alone, CheckpointStays
    PROVE  TypeInv /\ DamageOK /\ EvidenceInv /\ RepeatInv /\ [FilesNext]_fileVars => RepeatInv'
  <1> SUFFICES ASSUME TypeInv, DamageOK, EvidenceInv, RepeatInv, [FilesNext]_fileVars PROVE RepeatInv'
    OBVIOUS
  <1>1. ASSUME NEW p \in Procs, Engine(p) PROVE RepeatInv'
    BY <1>1, RepeatCycle DEF EvidenceInv
  <1>2. ASSUME NEW p \in Procs, Interrupt(p) \/ BreaksOff(p) PROVE RepeatInv'
    <2>1. pc'[p] = "idle" /\ \A q \in Procs : q = p
      BY <1>2 DEF Interrupt, BreaksOff, EndCycle, TypeInv, CycleOK, Alone
    <2>2. clicks' = clicks /\ checkpoint' = checkpoint
      BY <1>2 DEF Interrupt, BreaksOff, disk, page
    <2>3. active'.cmd = active.cmd /\ active'.retries = active.retries
      <3>1. CASE active' = active
        BY <3>1
      <3>2. CASE active' = [active EXCEPT !.state = "MANUAL_REVIEW_REQUIRED"] /\ damage["active"] = "altered"
        <4>1. active # NoTask
          BY <3>2, ExistsForm DEF DamageOK, Damaged, File
        <4> QED BY <3>2, <4>1 DEF TypeInv, DiskOK, Tasks
      <3>3. CASE pc[p] = "reconcile" /\ active' = MovedTo(p, "MANUAL_REVIEW_REQUIRED")
        <4>1. job[p] \in Tasks /\ job[p].cmd = active.cmd /\ job[p].retries = active.retries
          BY <3>3, LabelFacts DEF TypeInv, LocalsOK, RepeatInv, InHand, TaskHeld
        <4> QED BY <3>3, <4>1, FileStateFacts, MovedCount
      <3> QED BY <1>2, <3>1, <3>2, <3>3 DEF Interrupt, BreaksOff, disk
    <2> QED BY <2>1, <2>2, <2>3, RepeatOutside
  <1>3. CASE Environment \/ BlankRecords \/ UNCHANGED vars
    <2>1. UNCHANGED <<active, checkpoint, clicks, pc, op, job>>
      BY <1>3 DEF Environment, SupervisorPosts, GeminiAnswers, EngageStop, ReleaseStop, BlankRecords,
                  vars, disk, cycle, page
    <2> QED BY <2>1, RepeatOutside
  <1>4. CASE Operator \/ OperatorRemovesTask
    <2>1. /\ UNCHANGED <<checkpoint, clicks, pc>> /\ AllIdle
          /\ active' = NoTask \/ \E s \in OperatorStates : active' = [active EXCEPT !.state = s]
      BY <1>4 DEF CheckpointStays, Operator, OperatorClearsTask, OperatorClearsCheckpoint,
                  OperatorUpdatesTask, OperatorRemovesTask, cycle, page
    <2>2. active' = NoTask \/ (active'.cmd = active.cmd /\ active'.retries = active.retries)
      BY <2>1 DEF TypeInv, DiskOK, Tasks, NoTask
    <2> QED BY <2>1, <2>2, RepeatOutside DEF AllIdle
  <1> QED BY <1>1, <1>2, <1>3, <1>4, StepForm DEF Next

LEMMA RepeatInitial == FilesInit => AnswerInv /\ EvidenceInv /\ RepeatInv /\ IntentInv
  <1>1. FilesInit => AnswerInv /\ EvidenceInv /\ IntentInv
    BY AnswerInit, EvidenceInit, IntentInit DEF FilesInit
  <1>2. ASSUME FilesInit PROVE RepeatInv
    <2>1. (\A k \in Keys : clicks[k] = 0) /\ (\A p \in Procs : pc[p] = "idle")
      BY <1>2 DEF FilesInit, Init
    <2> QED BY <2>1 DEF RepeatInv, CountedRetries, BegunFresh, Submitting, BeforeClick, InHand,
                        TaskHeld, TaskLabels, RetryHeld, Preparing
  <1> QED BY <1>1, <1>2

\* As long as no checkpoint is removed, the only process on a state directory
\* clicks nothing twice over damaged files, but for a return whose record was
\* emptied away.
THEOREM OnlyReturnsRepeat ==
    ASSUME Alone, CheckpointStays PROVE FilesSpec => []OnlyBlankedReturnsRepeat
  <1>1. TypeInv /\ RepeatInv /\ (~blanked => IntentInv) => OnlyBlankedReturnsRepeat
    <2> SUFFICES ASSUME TypeInv, RepeatInv, ~blanked => IntentInv, NEW k \in Keys, clicks[k] > 1
                 PROVE  blanked /\ k.type = "SUPERVISOR_RETURN"
      BY DEF OnlyBlankedReturnsRepeat
    <2>0. ~(clicks[k] <= 1)
      BY DEF TypeInv, PageOK
    <2>1. k.type = "SUPERVISOR_RETURN"
      <3>1. k.type # "SUPERVISOR_RETURN" => clicks[k] <= 1
        BY DEF RepeatInv
      <3> QED BY <2>0, <3>1
    <2>2. blanked
      BY <2>0 DEF IntentInv, AtMostOnce
    <2> QED BY <2>1, <2>2
  <1> QED BY <1>1, FilesInitial, RepeatInitial, FilesType, DamageStep, FilesAnswer, FilesEvidence,
             FilesIntent, FilesRepeat, PTL DEF FilesSpec

=============================================================================
