--------------------------- MODULE DeliveryProofs ---------------------------
(***************************************************************************)
(* What a delivered operation is worth: a task that waits was really       *)
(* submitted and one in the ledger really returned; retries are clicked in *)
(* their order; and Bridge implements Delivery.  Recovery decides by       *)
(* TASK_ID and the operator by hand, so each theorem says how far these    *)
(* two have to be right.                                                   *)
(***************************************************************************)
EXTENDS HaltProofs

\* States the engine itself gives a task.
EngineStates == {"NO_ACTIVE_TASK", "SUBMISSION_PREPARED", "WAITING_FOR_IMPLEMENTER",
                 "IMPLEMENTER_RESPONSE_VALIDATED", "COMPLETED", "MANUAL_REVIEW_REQUIRED"}

Waited == {"WAITING_FOR_IMPLEMENTER", "IMPLEMENTER_RESPONSE_VALIDATED"}

\* No command's text holds the TASK_ID of another.
Apart == \A c, d \in Commands : c \in Mentions[d] => c = d

\* The operator does not vouch for a submission, or for a return, himself;
\* RETURN_PREPARED makes the bridge look for the return, by TASK_ID.
WaitTrusted == Apart /\ OperatorStates \cap Waited = {}
ReturnTrusted ==
    /\ OperatorStates \cap Finished = {}
    /\ Apart \/ "RETURN_PREPARED" \notin OperatorStates

\* The state of a task says no more than what was clicked.
Honest(t, seen) ==
    /\ t.state \in EngineStates \cup OperatorStates
    /\ WaitTrusted /\ t.state \in Waited => seen[SubmitKey(t.cmd)] > 0
    /\ ReturnTrusted /\ t.state \in Finished => seen[ReturnKey(t.cmd)] > 0

\* From the contract to the click.
Starting == {"prepare", "writeRecord", "writeCheckpoint", "saveRetry", "clickRetry", "click"}

\* What the label of a cycle says of the task and the contract in hand.
StageOK(p) ==
    /\ op[p] # NoKey => op[p].cmd = job[p].cmd
    /\ pc[p] = "reconcileReturn" => job[p].state = "RETURN_PREPARED"
    /\ pc[p] \in {"archiveLoad", "archiveWrite", "archiveClear"} => job[p].state \in Finished
    /\ pc[p] \in {"confirmLoad", "confirmWrite"} /\ op[p].type = "SUPERVISOR_RETURN"
           => job[p].state \in Finished
    /\ pc[p] \in {"findRetry", "detect", "inspect"} => job[p].state \in Polling
    /\ pc[p] \in Starting /\ op[p].type # "GEMINI_SUBMISSION" => job[p].state \in Polling
    /\ pc[p] \in {"saveRetry", "clickRetry"} => op[p].type = "GEMINI_RETRY"
    /\ pc[p] = "click" => op[p].type # "GEMINI_RETRY"

\* The ledger as a process has loaded it is as honest as the one on disk.
EntriesEarned == \A p \in Procs : \A c \in entries[p] : clicks[ReturnKey(c)] > 0

EvidenceInv ==
    /\ Honest(active, clicks)
    /\ ReturnTrusted => ArchivedWasReturned /\ EntriesEarned
    /\ \A p \in Procs : Honest(job[p], clicks) /\ StageOK(p)

-----------------------------------------------------------------------------
(* The shape of a step.                                                    *)

ClicksGrow == \A k \in Keys : clicks'[k] >= clicks[k]

\* A step of p changes the label, the task and the contract of p only, and the
\* entries p holds are those it held, those of the ledger, or none.
OthersWait(p) ==
    /\ \A q \in Procs \ {p} : /\ pc'[q] = pc[q] /\ job'[q] = job[q] /\ op'[q] = op[q]
                              /\ entries'[q] = entries[q]
    /\ entries'[p] \in {entries[p], ledger, {}}

LEMMA StepClicks ==
    ASSUME TypeInv, NEW p \in Procs, Engine(p) \/ Interrupt(p) PROVE ClicksGrow
  <1>1. CASE Walks(p)
    BY <1>1 DEF Walks, ClicksGrow, TypeInv, PageOK
  <1>2. CASE Strikes(p)
    <2>1. op[p] \in Keys
      BY <1>2 DEF Strikes, TypeInv, LocalsOK, OpLabels
    <2> QED BY <1>2, <2>1 DEF Strikes, Lands, ClicksGrow, TypeInv, PageOK
  <1> QED BY <1>1, <1>2, WalksOrStrikes

LEMMA StepOthers ==
    ASSUME TypeInv, NEW p \in Procs, Engine(p) \/ Interrupt(p) PROVE OthersWait(p)
  <1> USE DEF OthersWait, Goto, EndCycle, TypeInv, CycleOK
  <1>1. CASE HaltOnStop(p) \/ HaltOnTask(p) \/ (\E d \in DryRuns : BeginCycle(p, d))
                 \/ OrphanCheck(p) \/ Intake(p)
    BY <1>1 DEF HaltOnStop, HaltOnTask, BeginCycle, OrphanCheck, Intake
  <1>2. CASE Advance(p) \/ ResumeProven(p) \/ Resubmit(p) \/ HaltAmbiguous(p)
               \/ ReconcileReturn(p) \/ FindRetry(p) \/ DetectRetryExecuted(p)
    BY <1>2 DEF Advance, ResumeProven, Resubmit, HaltAmbiguous, ReconcileReturn, FindRetry,
                DetectRetryExecuted
  <1>3. CASE DetectRetryAmbiguous(p) \/ DetectNothingToDo(p) \/ DetectCompleted(p)
               \/ DetectRetryAvailable(p) \/ AcceptReport(p) \/ RejectReport(p)
    BY <1>3 DEF DetectRetryAmbiguous, DetectNothingToDo, DetectCompleted, DetectRetryAvailable,
                AcceptReport, TakeReport, RejectReport
  <1>4. CASE Prepare(p) \/ WritePrepared(p) \/ WriteCheckpoint(p) \/ SaveRetry(p) \/ ClickRetry(p)
               \/ RetryButtonMissing(p) \/ RetryClickRaises(p) \/ PageNotReady(p)
    BY <1>4 DEF Prepare, PrepareWhen, WritePrepared, WriteCheckpoint, SaveRetry, ClickRetry,
                RetryButtonMissing, RetryClickRaises, PageNotReady
  <1>5. CASE ClickSend(p) \/ ClickRaises(p) \/ SaveUncertain(p) \/ SaveSubmitted(p)
               \/ MarkReturned(p) \/ ConfirmLoad(p) \/ WriteConfirmed(p)
    BY <1>5 DEF ClickSend, ClickRaises, SaveUncertain, SaveSubmitted, MarkReturned, ConfirmLoad,
                WriteConfirmed
  <1>6. CASE Resave(p) \/ ArchiveLoad(p) \/ ArchiveWrite(p) \/ ArchiveClear(p) \/ Interrupt(p)
    BY <1>6 DEF Resave, ArchiveLoad, ArchiveWrite, ArchiveClear, Interrupt
  <1> QED BY <1>1, <1>2, <1>3, <1>4, <1>5, <1>6 DEF Engine

\* Clicks that are added take no honesty away.
LEMMA HonestGrows ==
    ASSUME TypeInv, TypeInv', ClicksGrow, NEW t \in Tasks \cup {NoTask}, Honest(t, clicks)
    PROVE  Honest(t, clicks')
  <1>1. CASE t = NoTask
    BY <1>1, NoTaskFacts DEF Honest, Waited, Finished
  <1>2. CASE t \in Tasks
    <2>1. SubmitKey(t.cmd) \in Keys /\ ReturnKey(t.cmd) \in Keys
      BY <1>2, KeyFacts DEF Tasks
    <2>2. \A k \in Keys : clicks[k] > 0 => clicks'[k] > 0
      BY DEF ClicksGrow, TypeInv, PageOK
    <2> QED BY <2>1, <2>2 DEF Honest
  <1> QED BY <1>1, <1>2

\* A step of p keeps the invariant if what p leaves behind is sound.
LEMMA EvidenceKept ==
    ASSUME TypeInv, TypeInv', EvidenceInv, NEW p \in Procs, ClicksGrow, OthersWait(p),
           Honest(active', clicks'), Honest(job'[p], clicks'), StageOK(p)',
           \A c \in ledger' \ ledger : ReturnTrusted => clicks'[ReturnKey(c)] > 0
    PROVE  EvidenceInv'
  <1>1. ASSUME NEW q \in Procs \ {p} PROVE Honest(job'[q], clicks') /\ StageOK(q)'
    <2>1. pc'[q] = pc[q] /\ job'[q] = job[q] /\ op'[q] = op[q]
      BY DEF OthersWait
    <2>2. job[q] \in Tasks \cup {NoTask} /\ Honest(job[q], clicks) /\ StageOK(q)
      BY DEF TypeInv, CycleOK, EvidenceInv
    <2>3. Honest(job[q], clicks')
      BY <2>2, HonestGrows
    <2> QED BY <2>1, <2>2, <2>3 DEF StageOK
  <1>4. ASSUME NEW c \in Commands, clicks[ReturnKey(c)] > 0 PROVE clicks'[ReturnKey(c)] > 0
    <2>1. ReturnKey(c) \in Keys
      BY KeyFacts
    <2> HIDE DEF ReturnKey
    <2> QED BY <1>4, <2>1 DEF ClicksGrow, TypeInv, PageOK
  <1>2. ReturnTrusted => ArchivedWasReturned'
    <2> SUFFICES ASSUME ReturnTrusted, NEW c \in ledger' PROVE clicks'[ReturnKey(c)] > 0
      BY DEF ArchivedWasReturned
    <2>1. CASE c \in ledger
      BY <1>4, <2>1 DEF TypeInv, DiskOK, EvidenceInv, ArchivedWasReturned
    <2> QED BY <2>1
  <1>5. ReturnTrusted => EntriesEarned'
    <2> SUFFICES ASSUME ReturnTrusted, NEW q \in Procs, NEW c \in entries'[q]
                 PROVE  clicks'[ReturnKey(c)] > 0
      BY DEF EntriesEarned
    <2>1. c \in entries[q] \/ c \in ledger
      BY DEF OthersWait
    <2>2. c \in Commands
      BY <2>1 DEF TypeInv, CycleOK, DiskOK
    <2>3. clicks[ReturnKey(c)] > 0
      BY <2>1 DEF EvidenceInv, EntriesEarned, ArchivedWasReturned
    <2> QED BY <1>4, <2>2, <2>3
  <1>3. \A q \in Procs : Honest(job'[q], clicks') /\ StageOK(q)'
    BY <1>1
  <1> QED BY <1>2, <1>3, <1>5 DEF EvidenceInv, Honest

LEMMA HonestNoTask == ASSUME NEW seen PROVE Honest(NoTask, seen)
  BY NoTaskFacts DEF Honest, EngineStates, Waited, Finished

\* The end of a cycle, which may leave another task on disk.
LEMMA EvidenceEnd ==
    ASSUME TypeInv, TypeInv', EvidenceInv, NEW p \in Procs, Engine(p) \/ Interrupt(p),
           NEW result, EndCycle(p, result), ledger' = ledger,
           active' = active \/ Honest(active', clicks')
    PROVE  EvidenceInv'
  <1>1. pc'[p] = "idle" /\ job'[p] = NoTask /\ op'[p] = NoKey
    BY DEF EndCycle, TypeInv, CycleOK
  <1>2. StageOK(p)'
    BY <1>1 DEF StageOK, Starting
  <1>3. ClicksGrow /\ OthersWait(p)
    BY StepClicks, StepOthers
  <1>4. Honest(active', clicks')
    BY <1>3, HonestGrows DEF EvidenceInv, TypeInv, DiskOK
  <1> QED BY <1>1, <1>2, <1>3, <1>4, HonestNoTask, EvidenceKept

\* A cycle that goes on.
LEMMA EvidenceGoesOn ==
    ASSUME TypeInv, TypeInv', EvidenceInv, NEW p \in Procs, Engine(p) \/ Interrupt(p),
           ledger' = ledger, active' = active \/ active' = job'[p],
           job'[p] = job[p] \/ Honest(job'[p], clicks'), StageOK(p)'
    PROVE  EvidenceInv'
  <1>1. ClicksGrow /\ OthersWait(p)
    BY StepClicks, StepOthers
  <1>2. Honest(active, clicks') /\ (job'[p] = job[p] => Honest(job'[p], clicks'))
    BY <1>1, HonestGrows DEF EvidenceInv, TypeInv, DiskOK, CycleOK
  <1> QED BY <1>1, <1>2, EvidenceKept

-----------------------------------------------------------------------------
(* What the evidence proves.                                               *)

\* A submission proven executed was clicked, if texts hold their own TASK_ID.
LEMMA ProvenSubmitted ==
    ASSUME TypeInv, AnswerInv, Apart, NEW p \in Procs, job[p].cmd \in Commands,
           "PROVEN_EXECUTED" \in SubmissionVerdicts(p)
    PROVE  clicks[SubmitKey(job[p].cmd)] > 0
  <1> DEFINE c == job[p].cmd
  <1>1. InTurns(c) \/ records[SubmitKey(c)] = "CONFIRMED"
    BY DEF SubmissionVerdicts, Reconcile
  <1>2. InTurns(c) => clicks[SubmitKey(c)] > 0
    BY DEF InTurns, Apart
  <1>3. SubmitKey(c) \in Keys \ RetryKeys
    BY KeyFacts, KeyTypes
  <1> QED BY <1>1, <1>2, <1>3 DEF AnswerInv, ConfirmedWasClicked

\* A return proven executed or completed was clicked, likewise.
LEMMA ProvenReturned ==
    ASSUME TypeInv, AnswerInv, ArchivedWasReturned, Apart,
           NEW p \in Procs, job[p].cmd \in Commands,
           NEW verdict \in ReturnVerdicts(p), verdict \in {"PROVEN_EXECUTED", "PROVEN_COMPLETED"}
    PROVE  clicks[ReturnKey(job[p].cmd)] > 0
  <1> DEFINE c == job[p].cmd
  <1>1. Archived(ledger, c) \/ InUserMessages(c) \/ records[ReturnKey(c)] = "CONFIRMED"
    BY KeyTypes DEF ReturnVerdicts, Reconcile
  <1>2. InUserMessages(c) => clicks[ReturnKey(c)] > 0
    BY DEF InUserMessages, Apart
  <1>3. ReturnKey(c) \in Keys \ RetryKeys
    BY KeyFacts, KeyTypes
  <1>4. ASSUME Archived(ledger, c) PROVE clicks[ReturnKey(c)] > 0
    <2>1. PICK d \in ledger : SameTaskAndPhase(c, d)
      BY <1>4 DEF Archived
    <2>2. d \in Commands
      BY DEF TypeInv, DiskOK
    <2>3. c = d
      BY <2>1, <2>2, MentionAssumption DEF SameTaskAndPhase, SameTask, Apart
    <2> QED BY <2>3 DEF ArchivedWasReturned
  <1> QED BY <1>1, <1>2, <1>3, <1>4 DEF AnswerInv, ConfirmedWasClicked

-----------------------------------------------------------------------------
(* The actions of a cycle.                                                 *)

LEMMA BeginningEvidence ==
    ASSUME TypeInv, TypeInv', AnswerInv, EvidenceInv, NEW p \in Procs,
           HaltOnStop(p) \/ HaltOnTask(p) \/ (\E d \in DryRuns : BeginCycle(p, d))
               \/ OrphanCheck(p) \/ Intake(p)
    PROVE  EvidenceInv'
  <1>0. /\ Engine(p)
        /\ pc[p] \in Blank => op[p] = NoKey
    BY DEF Engine, AnswerInv, ContractOK
  <1>1. CASE HaltOnStop(p) \/ HaltOnTask(p)
    BY <1>0, <1>1, EvidenceEnd DEF HaltOnStop, HaltOnTask, disk
  <1>2. CASE \E d \in DryRuns : BeginCycle(p, d)
    <2>1. PICK d \in DryRuns : BeginCycle(p, d)
      BY <1>2
    <2>2. /\ active' = active /\ ledger' = ledger /\ pc[p] = "idle"
          /\ active.state \notin Halted /\ active \in Tasks \cup {NoTask}
      BY <2>1 DEF BeginCycle, disk, TypeInv, DiskOK
    <2>3. CASE EndCycle(p, "SUCCESS")
      BY <1>0, <2>2, <2>3, EvidenceEnd
    <2>4. CASE ~EndCycle(p, "SUCCESS")
      <3> DEFINE l == EntryLabel(active.state)
      <3>1. pc' = [pc EXCEPT ![p] = l] /\ job' = [job EXCEPT ![p] = active] /\ op' = op
        BY <2>1, <2>4 DEF BeginCycle
      <3>2. op[p] = NoKey
        BY <1>0, <2>2 DEF Blank
      <3>3. l \in {"orphanCheck", "archiveLoad", "advance", "reconcile", "reconcileReturn", "findRetry"}
        BY <2>2, EntryLabels
      <3>4. active.state \in FileStates \cup {"NO_ACTIVE_TASK"}
        BY <2>2 DEF Tasks, NoTask
      <3>5. /\ l = "archiveLoad" => active.state \in Finished
            /\ l = "reconcileReturn" => active.state = "RETURN_PREPARED"
            /\ l = "findRetry" => active.state \in Polling
        BY <2>2, <3>4 DEF EntryLabel, Finished, Intermediate, Polling, Halted, FileStates,
                          TaskState, LegalTransitions
      <3>6. Honest(active, clicks')
        BY <1>0, <2>2, StepClicks, HonestGrows DEF EvidenceInv
      <3> HIDE DEF l
      <3>7. pc'[p] = l /\ job'[p] = active /\ op'[p] = NoKey
        BY <3>1, <3>2 DEF TypeInv, CycleOK
      <3>8. StageOK(p)'
        BY <3>3, <3>5, <3>7 DEF StageOK, Starting
      <3> QED BY <1>0, <2>2, <3>6, <3>7, <3>8, EvidenceGoesOn
    <2> QED BY <2>3, <2>4
  <1>3. CASE OrphanCheck(p)
    <2>1. active' = active /\ ledger' = ledger /\ pc[p] \in Blank
      BY <1>3 DEF OrphanCheck, disk, Blank
    <2>2. CASE EndCycle(p, "ORPHANED_STATE")
      BY <1>0, <2>1, <2>2, EvidenceEnd
    <2>3. CASE Goto(p, "intake") /\ UNCHANGED <<job, op, report>>
      <3>1. pc'[p] = "intake" /\ job'[p] = job[p] /\ op'[p] = NoKey
        BY <1>0, <2>1, <2>3 DEF Goto, TypeInv, CycleOK
      <3> QED BY <1>0, <2>1, <3>1, EvidenceGoesOn DEF StageOK, Starting
    <2> QED BY <1>3, <2>2, <2>3 DEF OrphanCheck
  <1>4. CASE Intake(p)
    <2> DEFINE t == [cmd |-> newest, state |-> "SUBMISSION_PREPARED", retries |-> 0]
    <2>1. CASE EndCycle(p, "SUCCESS") /\ UNCHANGED active
      BY <1>0, <1>4, <2>1, EvidenceEnd DEF Intake
    <2>2. CASE /\ job' = [job EXCEPT ![p] = t] /\ active' = t
               /\ op' = [op EXCEPT ![p] = SubmitKey(newest)] /\ Goto(p, "prepare")
      <3>1. Honest(t, clicks')
        BY DEF Honest, EngineStates, Waited, Finished
      <3>2. ledger' = ledger
        BY <1>4 DEF Intake
      <3>3. SubmitKey(newest).cmd = t.cmd /\ SubmitKey(newest).type = "GEMINI_SUBMISSION"
        BY DEF SubmitKey
      <3> HIDE DEF t
      <3>4. pc'[p] = "prepare" /\ job'[p] = t /\ op'[p] = SubmitKey(newest)
        BY <2>2 DEF Goto, TypeInv, CycleOK
      <3>5. StageOK(p)'
        BY <3>3, <3>4 DEF StageOK, Starting
      <3> QED BY <1>0, <2>2, <3>1, <3>2, <3>4, <3>5, EvidenceGoesOn
    <2> QED BY <1>4, <2>1, <2>2 DEF Intake
  <1> QED BY <1>1, <1>2, <1>3, <1>4

LEMMA RecoveringEvidence ==
    ASSUME TypeInv, TypeInv', AnswerInv, EvidenceInv, NEW p \in Procs,
           Advance(p) \/ ResumeProven(p) \/ Resubmit(p) \/ HaltAmbiguous(p) \/ ReconcileReturn(p)
    PROVE  EvidenceInv'
  <1> USE FileStateFacts
  <1>0. /\ Engine(p) /\ ledger' = ledger /\ clicks' = clicks
        /\ pc[p] \in {"advance", "reconcile", "reconcileReturn"}
    BY DEF Advance, ResumeProven, Resubmit, HaltAmbiguous, ReconcileReturn, Engine, disk, page
  <1>1. /\ op[p] = NoKey /\ job[p] \in Tasks /\ job[p].cmd \in Commands
        /\ Honest(job[p], clicks) /\ StageOK(p)
    BY <1>0, LabelFacts DEF AnswerInv, ContractOK, Blank, TypeInv, CycleOK, LocalsOK, Tasks, EvidenceInv
  <1>2. CASE Advance(p)
    <2>1. /\ MovedTo(p, "SUBMISSION_PREPARED").state = "SUBMISSION_PREPARED"
          /\ MovedTo(p, "SUBMISSION_PREPARED").cmd = job[p].cmd
      BY <1>1, MoveType
    <2>2. Honest(MovedTo(p, "SUBMISSION_PREPARED"), clicks')
      BY <2>1 DEF Honest, EngineStates, Waited, Finished
    <2>3. /\ active' \in {active, MovedTo(p, "SUBMISSION_PREPARED")}
          /\ job' = [job EXCEPT ![p] = MovedTo(p, "SUBMISSION_PREPARED")]
          /\ op' = op /\ pc' = [pc EXCEPT ![p] = "reconcile"]
      BY <1>2 DEF Advance, Save, Goto
    <2>4. /\ pc'[p] = "reconcile" /\ op'[p] = NoKey
          /\ job'[p] = MovedTo(p, "SUBMISSION_PREPARED")
      BY <1>1, <2>3 DEF TypeInv, CycleOK
    <2>5. StageOK(p)'
      BY <2>4 DEF StageOK, Starting
    <2> QED BY <1>0, <2>2, <2>3, <2>4, <2>5, EvidenceGoesOn
  <1>3. CASE ResumeProven(p)
    <2>1. MovedTo(p, "WAITING_FOR_IMPLEMENTER").state = "WAITING_FOR_IMPLEMENTER"
          /\ MovedTo(p, "WAITING_FOR_IMPLEMENTER").cmd = job[p].cmd
      BY <1>1, MoveType
    <2>2. Apart => clicks[SubmitKey(job[p].cmd)] > 0
      BY <1>1, <1>3, ProvenSubmitted DEF ResumeProven
    <2>3. Honest(MovedTo(p, "WAITING_FOR_IMPLEMENTER"), clicks')
      BY <1>0, <2>1, <2>2 DEF Honest, EngineStates, Finished, WaitTrusted
    <2>4. EndCycle(p, "SUCCESS") /\ active' \in {active, MovedTo(p, "WAITING_FOR_IMPLEMENTER")}
      BY <1>3 DEF ResumeProven, Save
    <2> QED BY <1>0, <2>3, <2>4, EvidenceEnd
  <1>4. CASE Resubmit(p)
    <2>1. active' = active
      BY <1>4 DEF Resubmit, disk
    <2>2. CASE EndCycle(p, "SUCCESS")
      BY <1>0, <2>1, <2>2, EvidenceEnd
    <2>3. CASE ~EndCycle(p, "SUCCESS")
      <3>1. /\ op' = [op EXCEPT ![p] = SubmitKey(job[p].cmd)]
            /\ pc' = [pc EXCEPT ![p] = "prepare"] /\ job' = job
        BY <1>4, <2>3 DEF Resubmit, Goto
      <3>2. SubmitKey(job[p].cmd).cmd = job[p].cmd
            /\ SubmitKey(job[p].cmd).type = "GEMINI_SUBMISSION"
        BY DEF SubmitKey
      <3>3. pc'[p] = "prepare" /\ op'[p] = SubmitKey(job[p].cmd) /\ job'[p] = job[p]
        BY <3>1 DEF TypeInv, CycleOK
      <3>4. StageOK(p)'
        BY <3>2, <3>3 DEF StageOK, Starting
      <3> QED BY <1>0, <2>1, <3>3, <3>4, EvidenceGoesOn
    <2> QED BY <2>2, <2>3
  <1>5. CASE HaltAmbiguous(p)
    <2>1. Honest(MovedTo(p, "MANUAL_REVIEW_REQUIRED"), clicks')
      BY <1>1, MoveType DEF Honest, EngineStates, Waited, Finished
    <2>2. EndCycle(p, "HALTED") /\ active' \in {active, MovedTo(p, "MANUAL_REVIEW_REQUIRED")}
      BY <1>5 DEF HaltAmbiguous, Save
    <2> QED BY <1>0, <2>1, <2>2, EvidenceEnd
  <1>6. CASE ReconcileReturn(p)
    <2>0. active' = active
      BY <1>6 DEF ReconcileReturn, disk
    <2>1. PICK verdict \in ReturnVerdicts(p) :
             IF verdict \in {"PROVEN_EXECUTED", "PROVEN_COMPLETED"} /\ ~dry[p]
             THEN /\ job' = [job EXCEPT ![p] = MovedTo(p, "COMPLETED")]
                  /\ Goto(p, "archiveLoad")
                  /\ UNCHANGED <<op, report>>
             ELSE EndCycle(p, "SUCCESS")
      BY <1>6 DEF ReconcileReturn
    <2>2. CASE EndCycle(p, "SUCCESS")
      BY <1>0, <2>0, <2>2, EvidenceEnd
    <2>3. CASE ~EndCycle(p, "SUCCESS")
      <3>1. /\ verdict \in {"PROVEN_EXECUTED", "PROVEN_COMPLETED"}
            /\ job' = [job EXCEPT ![p] = MovedTo(p, "COMPLETED")]
            /\ op' = op /\ pc' = [pc EXCEPT ![p] = "archiveLoad"]
        BY <2>1, <2>3 DEF Goto
      <3>2. "RETURN_PREPARED" \in OperatorStates
        BY <1>1, <1>6 DEF ReconcileReturn, StageOK, Honest, EngineStates
      <3>3. ReturnTrusted => clicks[ReturnKey(job[p].cmd)] > 0
        BY <1>1, <3>1, <3>2, ProvenReturned DEF ReturnTrusted, EvidenceInv
      <3>4. MovedTo(p, "COMPLETED").state = "COMPLETED" /\ MovedTo(p, "COMPLETED").cmd = job[p].cmd
        BY <1>1, MoveType
      <3>5. Honest(MovedTo(p, "COMPLETED"), clicks') /\ MovedTo(p, "COMPLETED").state \in Finished
        BY <1>0, <3>3, <3>4 DEF Honest, EngineStates, Waited, Finished
      <3>6. pc'[p] = "archiveLoad" /\ op'[p] = NoKey /\ job'[p] = MovedTo(p, "COMPLETED")
        BY <1>1, <3>1 DEF TypeInv, CycleOK
      <3>7. StageOK(p)'
        BY <3>5, <3>6 DEF StageOK, Starting
      <3> QED BY <1>0, <2>0, <3>5, <3>6, <3>7, EvidenceGoesOn
    <2> QED BY <2>2, <2>3
  <1> QED BY <1>2, <1>3, <1>4, <1>5, <1>6

LEMMA PollingEvidence ==
    ASSUME TypeInv, TypeInv', AnswerInv, EvidenceInv, NEW p \in Procs,
           FindRetry(p) \/ DetectRetryExecuted(p) \/ DetectRetryAmbiguous(p)
               \/ DetectNothingToDo(p) \/ DetectCompleted(p) \/ DetectRetryAvailable(p)
    PROVE  EvidenceInv'
  <1>0. /\ Engine(p) /\ ledger' = ledger
        /\ pc[p] \in {"findRetry", "detect"}
    BY DEF FindRetry, DetectRetryExecuted, DetectRetryAmbiguous, DetectNothingToDo,
           DetectCompleted, DetectRetryAvailable, Engine, disk
  <1>1. /\ pc[p] = "findRetry" => op[p] = NoKey
        /\ job[p] \in Tasks /\ job[p].state \in Polling /\ StageOK(p)
        /\ Honest(job[p], clicks)
    BY <1>0, LabelFacts DEF AnswerInv, ContractOK, Blank, TypeInv, LocalsOK, EvidenceInv, StageOK
  <1>2. CASE (\E result : EndCycle(p, result)) /\ active' = active
    BY <1>0, <1>2, EvidenceEnd
  <1>3. CASE FindRetry(p) /\ ~\E result : EndCycle(p, result)
    <2>1. /\ active' = active /\ job' = job /\ pc' = [pc EXCEPT ![p] = "detect"]
          /\ UNCHANGED op \/ \E k \in PreparedRetries(records, job[p].cmd) :
                                k.cmd = job[p].cmd /\ op' = [op EXCEPT ![p] = k]
      BY <1>3 DEF FindRetry, Goto, disk
    <2>2. /\ pc'[p] = "detect" /\ job'[p] = job[p]
          /\ op'[p] = NoKey \/ op'[p].cmd = job[p].cmd
      BY <1>1, <1>3, <2>1 DEF FindRetry, TypeInv, CycleOK
    <2>3. StageOK(p)'
      BY <1>1, <2>2 DEF StageOK, Starting
    <2> QED BY <1>0, <2>1, <2>2, <2>3, EvidenceGoesOn
  <1>4. CASE DetectRetryAmbiguous(p)
    <2>1. Honest(MovedTo(p, "MANUAL_REVIEW_REQUIRED"), clicks')
      BY <1>1, MoveType, FileStateFacts DEF Honest, EngineStates, Waited, Finished
    <2>2. EndCycle(p, "HALTED") /\ active' \in {active, MovedTo(p, "MANUAL_REVIEW_REQUIRED")}
      BY <1>4 DEF DetectRetryAmbiguous, Save
    <2> QED BY <1>0, <2>1, <2>2, EvidenceEnd
  <1>5. CASE DetectRetryExecuted(p) \/ DetectCompleted(p)
    <2>1. /\ active' = active /\ op'[p] = op[p] /\ job'[p] = job[p]
          /\ pc'[p] \in {"reconcileLoad", "inspect"}
      BY <1>5 DEF DetectRetryExecuted, DetectCompleted, Goto, TypeInv, CycleOK, disk
    <2>2. StageOK(p)'
      BY <1>1, <2>1 DEF StageOK, Starting
    <2> QED BY <1>0, <2>1, <2>2, EvidenceGoesOn
  <1>6. CASE DetectRetryAvailable(p) /\ ~\E result : EndCycle(p, result)
    <2>1. /\ op' = [op EXCEPT ![p] = RetryKey(job[p].cmd, job[p].retries + 1)]
          /\ active' = active /\ job' = job /\ pc' = [pc EXCEPT ![p] = "prepare"]
      BY <1>6 DEF DetectRetryAvailable, Goto, disk
    <2>2. pc'[p] = "prepare" /\ job'[p] = job[p] /\ op'[p].cmd = job[p].cmd
      BY <2>1 DEF TypeInv, CycleOK, RetryKey
    <2>3. StageOK(p)'
      BY <1>1, <2>2 DEF StageOK, Starting
    <2> QED BY <1>0, <2>1, <2>2, <2>3, EvidenceGoesOn
  <1>7. active' = active \/ DetectRetryAmbiguous(p)
    BY DEF FindRetry, DetectRetryExecuted, DetectNothingToDo, DetectCompleted,
           DetectRetryAvailable, disk
  <1> QED BY <1>2, <1>3, <1>4, <1>5, <1>6, <1>7 DEF DetectNothingToDo

LEMMA InspectingEvidence ==
    ASSUME TypeInv, TypeInv', AnswerInv, EvidenceInv, NEW p \in Procs,
           AcceptReport(p) \/ RejectReport(p)
    PROVE  EvidenceInv'
  <1>0. Engine(p) /\ pc[p] = "inspect" /\ ledger' = ledger /\ clicks' = clicks
    BY DEF AcceptReport, TakeReport, RejectReport, Engine, disk, page
  <1>1. job[p] \in Tasks /\ job[p].state \in Polling /\ StageOK(p) /\ Honest(job[p], clicks)
    BY <1>0, LabelFacts DEF TypeInv, LocalsOK, EvidenceInv, StageOK
  <1>2. CASE RejectReport(p)
    BY <1>0, <1>2, EvidenceEnd DEF RejectReport, disk
  <1>3. CASE AcceptReport(p)
    <2> DEFINE t == IF job[p].state = "WAITING_FOR_IMPLEMENTER"
                    THEN MovedTo(p, "IMPLEMENTER_RESPONSE_VALIDATED") ELSE job[p]
    <2>1. PICK d \in answered : TakeReport(p, d)
      BY <1>3 DEF AcceptReport
    <2>2. t.cmd = job[p].cmd /\ t.state \in Polling /\ Honest(t, clicks')
      <3>1. /\ MovedTo(p, "IMPLEMENTER_RESPONSE_VALIDATED").state = "IMPLEMENTER_RESPONSE_VALIDATED"
            /\ MovedTo(p, "IMPLEMENTER_RESPONSE_VALIDATED").cmd = job[p].cmd
        BY <1>1, MoveType, FileStateFacts
      <3> QED BY <1>0, <1>1, <3>1 DEF Honest, EngineStates, Waited, Finished, Polling
    <2>3. active' = active \/ active' = t
      BY <2>1 DEF TakeReport, Save
    <2>4. CASE EndCycle(p, "SUCCESS")
      BY <1>0, <2>2, <2>3, <2>4, EvidenceEnd
    <2>5. CASE ~EndCycle(p, "SUCCESS")
      <3>1. /\ job' = [job EXCEPT ![p] = t] /\ op' = [op EXCEPT ![p] = ReturnKey(t.cmd)]
            /\ pc' = [pc EXCEPT ![p] = "prepare"]
        BY <2>1, <2>5 DEF TakeReport, Goto
      <3> HIDE DEF t
      <3>2. pc'[p] = "prepare" /\ job'[p] = t /\ op'[p].cmd = t.cmd
        BY <3>1 DEF TypeInv, CycleOK, ReturnKey
      <3>3. StageOK(p)'
        BY <2>2, <3>2 DEF StageOK, Starting
      <3> QED BY <1>0, <2>2, <2>3, <3>2, <3>3, EvidenceGoesOn
    <2> QED BY <2>4, <2>5
  <1> QED BY <1>2, <1>3

\* From the contract to the click the task keeps its state.
LEMMA PreparingEvidence ==
    ASSUME TypeInv, TypeInv', AnswerInv, EvidenceInv, NEW p \in Procs,
           Prepare(p) \/ WritePrepared(p) \/ WriteCheckpoint(p) \/ SaveRetry(p)
    PROVE  EvidenceInv'
  <1>0. /\ Engine(p) /\ ledger' = ledger /\ clicks' = clicks
        /\ pc[p] \in {"prepare", "writeRecord", "writeCheckpoint", "saveRetry"}
    BY DEF Prepare, PrepareWhen, WritePrepared, WriteCheckpoint, SaveRetry, Engine, disk, page
  <1>1. job[p] \in Tasks /\ StageOK(p) /\ Honest(job[p], clicks)
    BY <1>0, LabelFacts DEF OpLabels, TypeInv, LocalsOK, EvidenceInv
  <1>2. CASE Prepare(p) /\ EndCycle(p, "ERROR")
    BY <1>0, <1>2, EvidenceEnd DEF Prepare, PrepareWhen, disk
  <1>3. CASE (Prepare(p) /\ ~EndCycle(p, "ERROR")) \/ WritePrepared(p) \/ WriteCheckpoint(p)
    <2>1. /\ active' = active /\ job'[p] = job[p] /\ op'[p] = op[p]
          /\ \/ pc'[p] \in {"writeRecord", "writeCheckpoint"}
             \/ pc'[p] = IF op[p].type = "GEMINI_RETRY" THEN "saveRetry" ELSE "click"
      BY <1>3 DEF Prepare, PrepareWhen, WritePrepared, WriteCheckpoint, Goto, TypeInv, CycleOK, disk
    <2>2. StageOK(p)'
      BY <1>0, <1>1, <2>1 DEF StageOK, Starting
    <2> QED BY <1>0, <2>1, <2>2, EvidenceGoesOn
  <1>4. CASE SaveRetry(p)
    <2> DEFINE t == [job[p] EXCEPT !.retries = op[p].attempt]
    <2>1. /\ active' = t /\ job' = [job EXCEPT ![p] = t] /\ op' = op
          /\ pc' = [pc EXCEPT ![p] = "clickRetry"] /\ pc[p] = "saveRetry"
      BY <1>4 DEF SaveRetry, Goto
    <2>2. t.cmd = job[p].cmd /\ t.state = job[p].state
      BY <1>1 DEF Tasks
    <2> HIDE DEF t
    <2>3. pc'[p] = "clickRetry" /\ job'[p] = t /\ op'[p] = op[p]
      BY <2>1 DEF TypeInv, CycleOK
    <2>4. Honest(t, clicks') /\ StageOK(p)'
      BY <1>0, <1>1, <2>1, <2>2, <2>3 DEF Honest, StageOK, Starting
    <2> QED BY <1>0, <2>1, <2>3, <2>4, EvidenceGoesOn
  <1> QED BY <1>2, <1>3, <1>4

LEMMA ClickingEvidence ==
    ASSUME TypeInv, TypeInv', AnswerInv, EvidenceInv, NEW p \in Procs,
           ClickRetry(p) \/ RetryButtonMissing(p) \/ RetryClickRaises(p)
               \/ ClickSend(p) \/ ClickRaises(p)
    PROVE  EvidenceInv'
  <1>0. Engine(p) /\ ledger' = ledger /\ active' = active /\ StageOK(p)
    BY DEF ClickRetry, RetryButtonMissing, RetryClickRaises, ClickSend, ClickRaises, Engine,
           disk, EvidenceInv
  <1>1. CASE \E result : EndCycle(p, result)
    BY <1>0, <1>1, EvidenceEnd
  <1>2. CASE ClickRetry(p) \/ ClickSend(p) \/ ClickRaises(p)
    <2>1. /\ op'[p] = op[p] /\ job'[p] = job[p]
          /\ \/ pc[p] = "clickRetry" /\ pc'[p] = "confirmLoad"
             \/ pc'[p] \in {"clicked", "clickRaised"}
      BY <1>2 DEF ClickRetry, ClickSend, ClickRaises, Goto, TypeInv, CycleOK
    <2>2. StageOK(p)'
      BY <1>0, <2>1 DEF StageOK, Starting
    <2> QED BY <1>0, <2>1, <2>2, EvidenceGoesOn
  <1> QED BY <1>1, <1>2 DEF RetryButtonMissing, RetryClickRaises

\* The click gives the task the state it has earned.
LEMMA ClickedEvidence ==
    ASSUME TypeInv, TypeInv', AnswerInv, EvidenceInv, NEW p \in Procs,
           PageNotReady(p) \/ SaveUncertain(p) \/ SaveSubmitted(p) \/ MarkReturned(p)
    PROVE  EvidenceInv'
  <1> USE FileStateFacts
  <1>0. /\ Engine(p) /\ ledger' = ledger /\ clicks' = clicks
        /\ pc[p] \in {"click", "clickRaised", "clicked"}
    BY DEF PageNotReady, SaveUncertain, SaveSubmitted, MarkReturned, Engine, disk, page
  <1>1. /\ job[p] \in Tasks /\ op[p] \in Keys /\ op[p].cmd = job[p].cmd
        /\ pc[p] = "clicked" => clicks[op[p]] > 0
    BY <1>0, LabelFacts, KeyFacts DEF OpLabels, TypeInv, LocalsOK, EvidenceInv, StageOK,
       AnswerInv, ContractOK, AfterClick
  <1>2. CASE PageNotReady(p) \/ SaveUncertain(p)
    <2>1. Honest(MovedTo(p, "MANUAL_REVIEW_REQUIRED"), clicks')
      BY <1>1, MoveType DEF Honest, EngineStates, Waited, Finished
    <2>2. EndCycle(p, "ERROR") /\ active' = MovedTo(p, "MANUAL_REVIEW_REQUIRED")
      BY <1>2 DEF PageNotReady, SaveUncertain
    <2> QED BY <1>0, <2>1, <2>2, EvidenceEnd
  <1>3. CASE SaveSubmitted(p)
    <2> DEFINE t == MovedTo(p, "WAITING_FOR_IMPLEMENTER")
    <2>1. t.state = "WAITING_FOR_IMPLEMENTER" /\ t.cmd = job[p].cmd
      BY <1>1, MoveType
    <2>2. clicks[SubmitKey(t.cmd)] > 0
      BY <1>1, <1>3, <2>1, KeyTypes DEF SaveSubmitted, Keys, RetryKeys, SubmitKey, ReturnKey, RetryKey
    <2>3. active' = t /\ job' = [job EXCEPT ![p] = t] /\ op' = op /\ pc' = [pc EXCEPT ![p] = "confirmLoad"]
      BY <1>3 DEF SaveSubmitted, Goto
    <2> HIDE DEF t
    <2>4. pc'[p] = "confirmLoad" /\ job'[p] = t /\ op'[p] = op[p]
      BY <2>3 DEF TypeInv, CycleOK
    <2>5. op[p].type = "GEMINI_SUBMISSION"
      BY <1>3 DEF SaveSubmitted
    <2>6. Honest(t, clicks') /\ StageOK(p)'
      BY <1>0, <1>1, <2>1, <2>2, <2>4, <2>5 DEF Honest, StageOK, EngineStates, Finished, Starting
    <2> QED BY <1>0, <2>3, <2>4, <2>6, EvidenceGoesOn
  <1>4. CASE MarkReturned(p)
    <2>0. active' = active
      BY <1>4 DEF MarkReturned, disk
    <2>1. CASE EndCycle(p, "ERROR")
      BY <1>0, <2>0, <2>1, EvidenceEnd
    <2>2. CASE ~EndCycle(p, "ERROR")
      <3> DEFINE t == MovedTo(p, "COMPLETED")
      <3>1. t.state = "COMPLETED" /\ t.cmd = job[p].cmd
        BY <1>1, MoveType
      <3>2. clicks[ReturnKey(t.cmd)] > 0
        BY <1>1, <1>4, <3>1, KeyTypes DEF MarkReturned
      <3>3. job' = [job EXCEPT ![p] = t] /\ op' = op /\ pc' = [pc EXCEPT ![p] = "confirmLoad"]
        BY <1>4, <2>2 DEF MarkReturned, Goto
      <3> HIDE DEF t
      <3>4. pc'[p] = "confirmLoad" /\ job'[p] = t /\ op'[p] = op[p]
        BY <3>3 DEF TypeInv, CycleOK
      <3>5. Honest(t, clicks') /\ StageOK(p)'
        BY <1>0, <1>1, <3>1, <3>2, <3>4 DEF Honest, StageOK, EngineStates, Waited, Finished, Starting
      <3> QED BY <1>0, <2>0, <3>4, <3>5, EvidenceGoesOn
    <2> QED BY <2>1, <2>2
  <1> QED BY <1>2, <1>3, <1>4

LEMMA FinishingEvidence ==
    ASSUME TypeInv, TypeInv', AnswerInv, EvidenceInv, NEW p \in Procs,
           ConfirmLoad(p) \/ WriteConfirmed(p) \/ Resave(p) \/ ArchiveLoad(p) \/ ArchiveWrite(p)
               \/ ArchiveClear(p) \/ Interrupt(p)
    PROVE  EvidenceInv'
  <1>0. /\ Engine(p) \/ Interrupt(p)
        /\ clicks' = clicks /\ StageOK(p) /\ Honest(job[p], clicks)
    BY DEF ConfirmLoad, WriteConfirmed, Resave, ArchiveLoad, ArchiveWrite, ArchiveClear,
           Interrupt, Engine, page, EvidenceInv
  <1>1. CASE ledger' = ledger /\ active' = active /\ \E result : EndCycle(p, result)
    BY <1>0, <1>1, EvidenceEnd
  <1>2. CASE (ConfirmLoad(p) \/ WriteConfirmed(p)) /\ ~\E result : EndCycle(p, result)
    <2>1. /\ active' = active /\ ledger' = ledger /\ op'[p] = op[p] /\ job'[p] = job[p]
          /\ \/ pc[p] = "confirmLoad" /\ pc'[p] = "confirmWrite"
             \/ pc'[p] \in {"reconcileWrite", "resave"}
             \/ /\ pc[p] = "confirmWrite" /\ op[p].type = "SUPERVISOR_RETURN"
                /\ pc'[p] = "archiveLoad"
      BY <1>2 DEF ConfirmLoad, WriteConfirmed, Goto, TypeInv, CycleOK, disk
    <2>2. StageOK(p)'
      BY <1>0, <2>1 DEF StageOK, Starting
    <2> QED BY <1>0, <2>1, <2>2, EvidenceGoesOn
  <1>3. CASE Resave(p)
    <2>1. EndCycle(p, "SUCCESS") /\ ledger' = ledger /\ active' \in {active, job[p]}
      BY <1>3 DEF Resave, Save
    <2> QED BY <1>0, <2>1, EvidenceEnd
  <1>7. CASE ArchiveLoad(p)
    <2>1. /\ active' = active /\ ledger' = ledger /\ op'[p] = op[p] /\ job'[p] = job[p]
          /\ pc[p] = "archiveLoad" /\ pc'[p] = "archiveWrite"
      BY <1>7 DEF ArchiveLoad, TypeInv, CycleOK, disk
    <2>2. StageOK(p)'
      BY <1>0, <2>1 DEF StageOK, Starting
    <2> QED BY <1>0, <2>1, <2>2, EvidenceGoesOn
  <1>4. CASE ArchiveWrite(p)
    <2>1. /\ active' = active /\ op'[p] = op[p] /\ job'[p] = job[p]
          /\ pc[p] = "archiveWrite" /\ pc'[p] = "archiveClear"
          /\ ledger' \subseteq entries[p] \cup {job[p].cmd}
      BY <1>4 DEF ArchiveWrite, Archive, Goto, TypeInv, CycleOK
    <2>2. StageOK(p)'
      BY <1>0, <2>1 DEF StageOK, Starting
    <2>3. Honest(active', clicks') /\ Honest(job'[p], clicks')
      BY <1>0, <2>1 DEF EvidenceInv
    <2>4. \A c \in ledger' \ ledger : ReturnTrusted => clicks'[ReturnKey(c)] > 0
      BY <1>0, <2>1 DEF StageOK, Honest, EvidenceInv, EntriesEarned
    <2> QED BY <1>0, <2>2, <2>3, <2>4, StepClicks, StepOthers, EvidenceKept
  <1>5. CASE ArchiveClear(p)
    <2>1. EndCycle(p, "SUCCESS") /\ ledger' = ledger /\ active' = NoTask
      BY <1>5 DEF ArchiveClear
    <2> QED BY <1>0, <2>1, HonestNoTask, EvidenceEnd
  <1>6. ConfirmLoad(p) \/ WriteConfirmed(p) \/ Interrupt(p) => ledger' = ledger /\ active' = active
    BY DEF ConfirmLoad, WriteConfirmed, Interrupt, disk
  <1> QED BY <1>1, <1>2, <1>3, <1>4, <1>5, <1>6, <1>7 DEF Interrupt

\* The operator is trusted as far as the theorems say.
LEMMA OutsideEvidence ==
    ASSUME TypeInv, EvidenceInv, Environment \/ Operator \/ UNCHANGED vars
    PROVE  EvidenceInv'
  <1>1. UNCHANGED <<pc, job, op, entries, clicks, ledger>>
    BY DEF Environment, Operator, SupervisorPosts, GeminiAnswers, EngageStop, ReleaseStop,
           OperatorClearsTask, OperatorClearsCheckpoint, OperatorUpdatesTask,
           vars, disk, cycle, page
  <1>2. Honest(active', clicks)
    <2>1. CASE active' = active
      BY <2>1 DEF EvidenceInv
    <2>2. CASE OperatorClearsTask
      BY <2>2, HonestNoTask DEF OperatorClearsTask
    <2>3. CASE \E state \in OperatorStates : OperatorUpdatesTask(state)
      <3>1. PICK state \in OperatorStates : OperatorUpdatesTask(state)
        BY <2>3
      <3>2. active \in Tasks
        BY <3>1, NoTaskFacts DEF OperatorUpdatesTask, Halted, TypeInv, DiskOK
      <3>3. active'.state = state /\ active'.cmd = active.cmd
        BY <3>1, <3>2 DEF OperatorUpdatesTask, Tasks
      <3> QED BY <3>3 DEF Honest, WaitTrusted, ReturnTrusted
    <2> QED BY <2>1, <2>2, <2>3 DEF Environment, Operator, SupervisorPosts, GeminiAnswers,
               EngageStop, ReleaseStop, OperatorClearsCheckpoint, vars, disk
  <1> QED BY <1>1, <1>2 DEF EvidenceInv, ArchivedWasReturned, EntriesEarned, StageOK, Honest

-----------------------------------------------------------------------------
(* The invariant.                                                          *)

LEMMA EvidenceInit == Init => EvidenceInv
  <1> SUFFICES ASSUME Init PROVE EvidenceInv
    OBVIOUS
  <1>1. \A p \in Procs : pc[p] = "idle" /\ job[p] = NoTask /\ op[p] = NoKey
    BY DEF Init
  <1>2. \A p \in Procs : StageOK(p)
    BY <1>1 DEF StageOK, Starting
  <1>3. active = NoTask /\ ledger = {} /\ \A p \in Procs : entries[p] = {}
    BY DEF Init
  <1> QED BY <1>1, <1>2, <1>3, HonestNoTask DEF EvidenceInv, ArchivedWasReturned, EntriesEarned

LEMMA EvidenceStep == TypeInv /\ AnswerInv /\ EvidenceInv /\ [Next]_vars => EvidenceInv'
  <1> SUFFICES ASSUME TypeInv, AnswerInv, EvidenceInv, [Next]_vars PROVE EvidenceInv'
    OBVIOUS
  <1>1. TypeInv'
    BY StepType
  <1>2. ASSUME NEW p \in Procs, Engine(p) \/ Interrupt(p) PROVE EvidenceInv'
    BY <1>1, <1>2, BeginningEvidence, RecoveringEvidence, PollingEvidence, InspectingEvidence,
       PreparingEvidence, ClickingEvidence, ClickedEvidence, FinishingEvidence DEF Engine
  <1> QED BY <1>2, OutsideEvidence DEF Next

\* However many processes run and crash: when no command mentions the TASK_ID
\* of another and the operator leaves the polled states alone, a task that
\* waits for its answer was really submitted.
THEOREM WaitIsEarned == ASSUME WaitTrusted PROVE Spec => []WaitingWasSubmitted
  <1>1. EvidenceInv => WaitingWasSubmitted
    BY DEF EvidenceInv, Honest, Waited, WaitingWasSubmitted
  <1> QED BY <1>1, InitType, StepType, AnswerInit, AnswerStep, EvidenceInit, EvidenceStep,
             PTL DEF Spec

\* However many processes run and crash: the ledger holds only tasks whose
\* report went back, unless the operator declares a task finished, or lets a
\* return be recognised by a TASK_ID that another command mentions.
THEOREM ArchiveIsEarned == ASSUME ReturnTrusted PROVE Spec => []ArchivedWasReturned
  <1>1. EvidenceInv => ArchivedWasReturned
    BY DEF EvidenceInv
  <1> QED BY <1>1, InitType, StepType, AnswerInit, AnswerStep, EvidenceInit, EvidenceStep,
             PTL DEF Spec

-----------------------------------------------------------------------------
(* Retries, for a single process.                                          *)

\* The retry a task counts last has a record.
Counted(t, recs) == t.retries > 0 => recs[RetryKey(t.cmd, t.retries)] # "NONE"

\* The retry before this one is settled.
Settled(k) == k.attempt > 1 => records[RetryKey(k.cmd, k.attempt - 1)] = "CONFIRMED"

\* Nothing in hand at detect means nothing unfinished; a retry on its way to
\* the click has its predecessor settled.
RetryOK(p) ==
    /\ pc[p] = "detect" /\ op[p] = NoKey => PreparedRetries(records, job[p].cmd) = {}
    /\ pc[p] \in Starting /\ op[p].type = "GEMINI_RETRY" => Settled(op[p])

RetryInv ==
    /\ RetriesSettleInOrder
    /\ Counted(active, records)
    /\ \A p \in Procs : Counted(job[p], records) /\ RetryOK(p)

\* A record goes from NONE to PREPARED to CONFIRMED and never back.
RecordsAdvance ==
    \A k \in Keys : /\ records[k] # "NONE" => records'[k] # "NONE"
                    /\ records[k] = "CONFIRMED" => records'[k] = "CONFIRMED"

LEMMA RetryForm ==
    ASSUME NEW k \in Keys, k.type = "GEMINI_RETRY"
    PROVE  k = RetryKey(k.cmd, k.attempt) /\ k.attempt \in 1..MaxRetries /\ k.cmd \in Commands
  BY CommandAssumption DEF Keys, RetryKeys, SubmitKey, ReturnKey, RetryKey

LEMMA StepRecords ==
    ASSUME TypeInv, IntentInv, NEW p \in Procs, Engine(p) \/ Interrupt(p) PROVE RecordsAdvance
  <1>1. CASE WritePrepared(p)
    <2>1. snap[p] = records /\ records[op[p]] = "NONE" /\ records \in Records
      BY <1>1 DEF WritePrepared, IntentInv, IntentFresh, TypeInv, DiskOK
    <2> QED BY <1>1, <2>1 DEF WritePrepared, RecordsAdvance, Records
  <1>2. CASE WriteConfirmed(p)
    <2>1. snap[p] = records /\ records \in Records
      BY <1>2 DEF WriteConfirmed, IntentInv, IntentWriting, Writing, TypeInv, DiskOK
    <2> QED BY <1>2, <2>1 DEF WriteConfirmed, RecordsAdvance, Records
  <1>3. CASE records' = records
    BY <1>3 DEF RecordsAdvance
  <1>4. WriteCheckpoint(p) \/ SaveRetry(p) \/ Prepare(p) \/ ConfirmLoad(p) => records' = records
    BY DEF WriteCheckpoint, SaveRetry, Prepare, PrepareWhen, ConfirmLoad, disk
  <1>5. ClickRetry(p) \/ RetryClickRaises(p) \/ ClickSend(p) \/ ClickRaises(p) => records' = records
    BY DEF ClickRetry, RetryClickRaises, ClickSend, ClickRaises, disk
  <1> QED BY <1>1, <1>2, <1>3, <1>4, <1>5, QuietBeginning, QuietMiddle, QuietFinish DEF Engine, Quiet

LEMMA CountedKept ==
    ASSUME TypeInv, RecordsAdvance, NEW t \in Tasks \cup {NoTask}, Counted(t, records)
    PROVE  Counted(t, records')
  <1>1. CASE t = NoTask
    BY <1>1 DEF NoTask, Counted
  <1>2. CASE t \in Tasks
    <2>1. t.retries > 0 => RetryKey(t.cmd, t.retries) \in Keys
      BY <1>2, KeyFacts, CommandAssumption DEF Tasks
    <2> QED BY <2>1 DEF Counted, RecordsAdvance
  <1> QED BY <1>1, <1>2

\* No click of a step spoils the order.
LEMMA OrderKept ==
    ASSUME TypeInv, RetryInv, NEW p \in Procs, Engine(p) \/ Interrupt(p), RecordsAdvance
    PROVE  RetriesSettleInOrder'
  <1> SUFFICES ASSUME NEW c \in Commands, NEW n \in 1..(MaxRetries - 1),
                      clicks'[RetryKey(c, n + 1)] > 0
               PROVE  records'[RetryKey(c, n)] = "CONFIRMED"
    BY DEF RetriesSettleInOrder
  <1>1. RetryKey(c, n) \in Keys /\ RetryKey(c, n + 1) \in Keys
    BY KeyFacts, CommandAssumption
  <1>2. CASE clicks[RetryKey(c, n + 1)] > 0
    BY <1>1, <1>2 DEF RetryInv, RetriesSettleInOrder, RecordsAdvance
  <1>3. CASE ~(clicks[RetryKey(c, n + 1)] > 0)
    <2>1. Strikes(p)
      BY <1>3, WalksOrStrikes DEF Walks
    <2>2. op[p] = RetryKey(c, n + 1)
      BY <1>1, <1>3, <2>1 DEF Strikes, Lands, TypeInv, PageOK
    <2>3. op[p].type = "GEMINI_RETRY" /\ op[p].cmd = c /\ op[p].attempt = n + 1 /\ pc[p] \in Starting
      BY <2>1, <2>2 DEF RetryKey, Strikes, Starting
    <2>4. records[RetryKey(c, n)] = "CONFIRMED"
      BY <2>3, CommandAssumption DEF RetryInv, RetryOK, Settled
    <2> QED BY <1>1, <2>4 DEF RecordsAdvance
  <1> QED BY <1>2, <1>3

\* The task in memory and the one on disk keep a count that is recorded.
CountsKept(p) ==
    /\ Counted(job'[p], records')
    /\ active' = active \/ Counted(active', records')

\* Steps whose task keeps command and count, or goes.
LEMMA RecordedPlain ==
    ASSUME TypeInv, TypeInv', RetryInv, RecordsAdvance, NEW p \in Procs,
           NEW t \in Tasks \cup {NoTask}, t = NoTask \/ (t.cmd = job[p].cmd /\ t.retries = job[p].retries),
           job'[p] \in {NoTask, job[p], active, t}, active' \in {NoTask, job[p], active, t}
    PROVE  CountsKept(p)
  <1>1. Counted(NoTask, records') /\ (t = NoTask \/ Counted(t, records))
    BY DEF Counted, NoTask, RetryInv
  <1>2. Counted(job[p], records') /\ Counted(active, records') /\ Counted(t, records')
    BY <1>1, CountedKept DEF RetryInv, TypeInv, CycleOK, DiskOK
  <1> QED BY <1>1, <1>2 DEF CountsKept

LEMMA MovedCount ==
    ASSUME NEW p \in Procs, job[p] \in Tasks, NEW s \in FileStates
    PROVE  /\ MovedTo(p, s) \in Tasks
           /\ MovedTo(p, s).cmd = job[p].cmd /\ MovedTo(p, s).retries = job[p].retries
  BY DEF MovedTo, Tasks

LEMMA StepRecorded ==
    ASSUME TypeInv, TypeInv', IntentInv, EvidenceInv, RetryInv, RecordsAdvance,
           NEW p \in Procs, Engine(p) \/ Interrupt(p)
    PROVE  CountsKept(p)
  <1> USE FileStateFacts DEF Goto, EndCycle
  <1>0. pc[p] \in TaskLabels => job[p] \in Tasks
    BY DEF TypeInv, LocalsOK
  <1>1. CASE \E s \in FileStates : /\ pc[p] \in TaskLabels
                                   /\ job'[p] \in {NoTask, job[p], active, MovedTo(p, s)}
                                   /\ active' \in {NoTask, job[p], active, MovedTo(p, s)}
    BY <1>0, <1>1, MovedCount, RecordedPlain
  <1>2. CASE job'[p] \in {NoTask, job[p], active} /\ active' \in {NoTask, job[p], active}
    BY <1>2, RecordedPlain
  <1>3. CASE HaltOnStop(p) \/ HaltOnTask(p) \/ (\E d \in DryRuns : BeginCycle(p, d)) \/ OrphanCheck(p)
    BY <1>2, <1>3 DEF HaltOnStop, HaltOnTask, BeginCycle, OrphanCheck, disk, TypeInv, CycleOK
  <1>4. CASE Intake(p)
    <2> DEFINE t == [cmd |-> newest, state |-> "SUBMISSION_PREPARED", retries |-> 0]
    <2>1. CASE job'[p] = t /\ active' = t
      <3>1. Counted(t, records')
        BY DEF Counted
      <3> QED BY <2>1, <3>1 DEF CountsKept
    <2>2. CASE EndCycle(p, "SUCCESS") /\ UNCHANGED active
      BY <1>2, <2>2 DEF TypeInv, CycleOK
    <2> QED BY <1>4, <2>1, <2>2 DEF Intake, TypeInv, CycleOK
  <1>5. CASE Advance(p) \/ ResumeProven(p) \/ HaltAmbiguous(p) \/ ReconcileReturn(p)
               \/ DetectRetryAmbiguous(p) \/ PageNotReady(p) \/ SaveUncertain(p)
               \/ SaveSubmitted(p) \/ MarkReturned(p)
    <2>1. pc[p] \in TaskLabels
      BY <1>5 DEF Advance, ResumeProven, HaltAmbiguous, ReconcileReturn, DetectRetryAmbiguous,
                  PageNotReady, SaveUncertain, SaveSubmitted, MarkReturned, TaskLabels, Labels
    <2>2. \E s \in FileStates : /\ job'[p] \in {NoTask, job[p], active, MovedTo(p, s)}
                                /\ active' \in {NoTask, job[p], active, MovedTo(p, s)}
      BY <1>5 DEF Advance, ResumeProven, HaltAmbiguous, ReconcileReturn, DetectRetryAmbiguous,
                  PageNotReady, SaveUncertain, SaveSubmitted, MarkReturned, Save, disk, TypeInv, CycleOK
    <2> QED BY <1>1, <2>1, <2>2
  <1>6. CASE Resubmit(p) \/ FindRetry(p) \/ DetectRetryExecuted(p) \/ DetectNothingToDo(p)
               \/ DetectCompleted(p) \/ DetectRetryAvailable(p) \/ RejectReport(p)
    BY <1>2, <1>6 DEF Resubmit, FindRetry, DetectRetryExecuted, DetectNothingToDo, DetectCompleted,
                      DetectRetryAvailable, RejectReport, disk, TypeInv, CycleOK
  <1>7. CASE AcceptReport(p)
    <2>1. pc[p] \in TaskLabels
      BY <1>7 DEF AcceptReport, TaskLabels, Labels
    <2>2. \E s \in FileStates : /\ job'[p] \in {NoTask, job[p], active, MovedTo(p, s)}
                                /\ active' \in {NoTask, job[p], active, MovedTo(p, s)}
      BY <1>7 DEF AcceptReport, TakeReport, Save, TypeInv, CycleOK
    <2> QED BY <1>1, <2>1, <2>2
  <1>8. CASE Prepare(p) \/ WritePrepared(p) \/ WriteCheckpoint(p) \/ ClickRetry(p)
               \/ RetryButtonMissing(p) \/ RetryClickRaises(p) \/ ClickSend(p) \/ ClickRaises(p)
    BY <1>2, <1>8 DEF Prepare, PrepareWhen, WritePrepared, WriteCheckpoint, ClickRetry,
                      RetryButtonMissing, RetryClickRaises, ClickSend, ClickRaises, disk, TypeInv, CycleOK
  <1>9. CASE SaveRetry(p)
    <2> DEFINE t == [job[p] EXCEPT !.retries = op[p].attempt]
    <2>1. /\ pc[p] = "saveRetry" /\ records' = records
          /\ job'[p] = t /\ active' = t
      BY <1>9 DEF SaveRetry, TypeInv, CycleOK
    <2>2. job[p] \in Tasks /\ op[p] \in Keys /\ records[op[p]] = "PREPARED"
      BY <1>0, <2>1 DEF TaskLabels, OpLabels, Labels, TypeInv, LocalsOK, IntentInv, IntentArmed, Armed
    <2>3. op[p].type = "GEMINI_RETRY" /\ (op[p] # NoKey => op[p].cmd = job[p].cmd)
      BY <2>1 DEF EvidenceInv, StageOK
    <2>4. op[p] = RetryKey(job[p].cmd, op[p].attempt)
      BY <2>2, <2>3, RetryForm, KeyFacts
    <2>5. t.cmd = job[p].cmd /\ t.retries = op[p].attempt
      BY <2>2 DEF Tasks
    <2> HIDE DEF t
    <2> QED BY <2>1, <2>2, <2>4, <2>5 DEF CountsKept, Counted
  <1>10. CASE ConfirmLoad(p) \/ WriteConfirmed(p) \/ Resave(p) \/ ArchiveLoad(p)
                \/ ArchiveWrite(p) \/ ArchiveClear(p) \/ Interrupt(p)
    BY <1>2, <1>10 DEF ConfirmLoad, WriteConfirmed, Resave, ArchiveLoad, ArchiveWrite,
                       ArchiveClear, Interrupt, Save, disk, TypeInv, CycleOK
  <1> QED BY <1>3, <1>4, <1>5, <1>6, <1>7, <1>8, <1>9, <1>10 DEF Engine

-----------------------------------------------------------------------------
\* The retry that is due is numbered after one that is settled.
LEMMA NextRetrySettled ==
    ASSUME TypeInv, RetryInv, NEW p \in Procs, pc[p] = "detect", op[p] = NoKey
    PROVE  Settled(RetryKey(job[p].cmd, job[p].retries + 1))
  <1> DEFINE k == RetryKey(job[p].cmd, job[p].retries)
  <1>1. job[p] \in Tasks /\ job[p].retries \in 0..MaxRetries /\ job[p].cmd \in Commands
    BY LabelFacts DEF TypeInv, LocalsOK, Tasks
  <1>2. ASSUME job[p].retries > 0 PROVE records[k] = "CONFIRMED"
    <2>1. k \in RetryKeys /\ k \in Keys
      BY <1>1, <1>2, CommandAssumption, KeyFacts DEF RetryKeys
    <2>2. records[k] # "NONE"
      BY <1>2 DEF RetryInv, Counted
    <2>3. records[k] # "PREPARED"
      <3>1. SameTask(k.cmd, job[p].cmd)
        BY DEF SameTask, RetryKey
      <3> QED BY <2>1, <3>1 DEF RetryInv, RetryOK, PreparedRetries
    <2> QED BY <2>1, <2>2, <2>3 DEF TypeInv, DiskOK, Records, RecordState
  <1> QED BY <1>1, <1>2, CommandAssumption DEF Settled, RetryKey

LEMMA StepRetryOK ==
    ASSUME TypeInv, TypeInv', RetryInv, RecordsAdvance, NEW p \in Procs, Engine(p) \/ Interrupt(p)
    PROVE  RetryOK(p)'
  <1>1. CASE pc'[p] \notin Starting \cup {"detect"}
    BY <1>1 DEF RetryOK
  <1>2. CASE pc[p] \in Starting /\ op'[p] = op[p] /\ pc'[p] # "detect"
    <2>1. ASSUME op[p].type = "GEMINI_RETRY", op[p].attempt > 1
          PROVE  records'[RetryKey(op[p].cmd, op[p].attempt - 1)] = "CONFIRMED"
      <3>1. op[p] \in Keys
        BY <1>2 DEF TypeInv, LocalsOK, Starting, OpLabels
      <3>2. RetryKey(op[p].cmd, op[p].attempt - 1) \in Keys
        BY <2>1, <3>1, RetryForm, KeyFacts, CommandAssumption
      <3>3. records[RetryKey(op[p].cmd, op[p].attempt - 1)] = "CONFIRMED"
        BY <1>2, <2>1 DEF RetryInv, RetryOK, Settled
      <3> QED BY <3>2, <3>3 DEF RecordsAdvance
    <2> QED BY <1>2, <2>1 DEF RetryOK, Settled
  <1>3. CASE pc'[p] = "prepare" /\ op'[p].type # "GEMINI_RETRY"
    BY <1>3 DEF RetryOK
  <1> USE DEF Goto, EndCycle, Starting, TypeInv, CycleOK
  <1>4. CASE HaltOnStop(p) \/ HaltOnTask(p) \/ OrphanCheck(p) \/ Advance(p) \/ ResumeProven(p)
               \/ HaltAmbiguous(p) \/ ReconcileReturn(p)
    BY <1>1, <1>4 DEF HaltOnStop, HaltOnTask, OrphanCheck, Advance, ResumeProven, HaltAmbiguous,
                      ReconcileReturn
  <1>5. CASE DetectRetryExecuted(p) \/ DetectRetryAmbiguous(p) \/ DetectNothingToDo(p)
               \/ DetectCompleted(p) \/ RejectReport(p)
    BY <1>1, <1>5 DEF DetectRetryExecuted, DetectRetryAmbiguous, DetectNothingToDo, DetectCompleted,
                      RejectReport
  <1>6. CASE \E d \in DryRuns : BeginCycle(p, d)
    <2>1. PICK d \in DryRuns : BeginCycle(p, d)
      BY <1>6
    <2>2. active.state \notin Halted /\ active \in Tasks \cup {NoTask}
      BY <2>1 DEF BeginCycle, DiskOK
    <2>3. EntryLabel(active.state) \notin Starting \cup {"detect"}
      BY <2>2, EntryLabels
    <2> QED BY <1>1, <2>1, <2>3 DEF BeginCycle
  <1>7. CASE Intake(p) \/ Resubmit(p) \/ AcceptReport(p)
    <2>1. (\E result : EndCycle(p, result))
          \/ (pc' = [pc EXCEPT ![p] = "prepare"]
              /\ \E c : op' = [op EXCEPT ![p] = SubmitKey(c)] \/ op' = [op EXCEPT ![p] = ReturnKey(c)])
      BY <1>7 DEF Intake, Resubmit, AcceptReport, TakeReport
    <2> QED BY <1>1, <1>3, <2>1 DEF SubmitKey, ReturnKey
  <1>8. CASE FindRetry(p)
    <2>1. CASE EndCycle(p, "ERROR")
      BY <1>1, <2>1
    <2>2. CASE PreparedRetries(records, job[p].cmd) = {} /\ Goto(p, "detect")
      <3>1. records' = records /\ pc'[p] = "detect" /\ job'[p] = job[p]
        BY <1>8, <2>2 DEF FindRetry, disk
      <3> QED BY <2>2, <3>1 DEF RetryOK
    <2>3. CASE \E k \in PreparedRetries(records, job[p].cmd) : op' = [op EXCEPT ![p] = k] /\ Goto(p, "detect")
      <3>1. op'[p] \in RetryKeys /\ pc'[p] = "detect"
        BY <2>3 DEF PreparedRetries
      <3> QED BY <3>1, KeyFacts DEF RetryOK
    <2> QED BY <1>8, <2>1, <2>2, <2>3 DEF FindRetry
  <1>9. CASE DetectRetryAvailable(p)
    <2>1. CASE EndCycle(p, "SUCCESS")
      BY <1>1, <2>1
    <2>2. CASE ~EndCycle(p, "SUCCESS")
      <3>1. /\ pc[p] = "detect" /\ op[p] = NoKey /\ records' = records /\ pc'[p] = "prepare"
            /\ op'[p] = RetryKey(job[p].cmd, job[p].retries + 1)
        BY <1>9, <2>2 DEF DetectRetryAvailable, disk
      <3>2. Settled(RetryKey(job[p].cmd, job[p].retries + 1))
        BY <3>1, NextRetrySettled
      <3> QED BY <3>1, <3>2 DEF RetryOK, Settled
    <2> QED BY <2>1, <2>2
  <1>10. CASE Prepare(p) \/ WritePrepared(p) \/ WriteCheckpoint(p) \/ SaveRetry(p)
    BY <1>1, <1>2, <1>10 DEF Prepare, PrepareWhen, WritePrepared, WriteCheckpoint, SaveRetry
  <1>11. CASE ClickRetry(p) \/ RetryButtonMissing(p) \/ RetryClickRaises(p) \/ PageNotReady(p)
                \/ ClickSend(p) \/ ClickRaises(p) \/ SaveUncertain(p) \/ SaveSubmitted(p)
                \/ MarkReturned(p)
    BY <1>1, <1>11 DEF ClickRetry, RetryButtonMissing, RetryClickRaises, PageNotReady, ClickSend,
                       ClickRaises, SaveUncertain, SaveSubmitted, MarkReturned
  <1>12. CASE ConfirmLoad(p) \/ WriteConfirmed(p) \/ Resave(p) \/ ArchiveLoad(p)
                \/ ArchiveWrite(p) \/ ArchiveClear(p) \/ Interrupt(p)
    BY <1>1, <1>12 DEF ConfirmLoad, WriteConfirmed, Resave, ArchiveLoad, ArchiveWrite,
                       ArchiveClear, Interrupt
  <1> QED BY <1>4, <1>5, <1>6, <1>7, <1>8, <1>9, <1>10, <1>11, <1>12 DEF Engine

LEMMA RetryInit == Init => RetryInv
  <1> SUFFICES ASSUME Init PROVE RetryInv
    OBVIOUS
  <1>1. \A p \in Procs : pc[p] = "idle" /\ job[p] = NoTask
    BY DEF Init
  <1>2. active = NoTask /\ clicks = [k \in Keys |-> 0]
    BY DEF Init
  <1>3. \A c \in Commands, n \in 1..(MaxRetries - 1) : RetryKey(c, n + 1) \in Keys
    BY KeyFacts, CommandAssumption
  <1>4. RetriesSettleInOrder
    BY <1>2, <1>3 DEF RetriesSettleInOrder
  <1> QED BY <1>1, <1>2, <1>4 DEF RetryInv, RetryOK, Counted, NoTask, Starting

LEMMA RetryStep ==
    ASSUME Alone
    PROVE  TypeInv /\ IntentInv /\ EvidenceInv /\ RetryInv /\ [Next]_vars => RetryInv'
  <1> SUFFICES ASSUME TypeInv, IntentInv, EvidenceInv, RetryInv, [Next]_vars PROVE RetryInv'
    OBVIOUS
  <1>1. TypeInv'
    BY StepType
  <1>2. ASSUME NEW p \in Procs, Engine(p) \/ Interrupt(p) PROVE RetryInv'
    <2>1. RecordsAdvance
      BY <1>2, StepRecords
    <2>2. RetriesSettleInOrder' /\ CountsKept(p) /\ RetryOK(p)'
      BY <1>1, <1>2, <2>1, OrderKept, StepRecorded, StepRetryOK
    <2>3. Counted(active, records')
      BY <2>1, CountedKept DEF RetryInv, TypeInv, DiskOK
    <2>4. \A q \in Procs : q = p
      BY DEF Alone
    <2> QED BY <2>2, <2>3, <2>4 DEF RetryInv, CountsKept, Counted
  <1>3. CASE Environment \/ Operator \/ UNCHANGED vars
    <2>1. UNCHANGED <<pc, job, op, clicks, records>>
      BY <1>3 DEF Environment, Operator, SupervisorPosts, GeminiAnswers, EngageStop, ReleaseStop,
                  OperatorClearsTask, OperatorClearsCheckpoint, OperatorUpdatesTask,
                  vars, disk, cycle, page
    <2>2. active' = active \/ active' = NoTask
          \/ \E s : active \in Tasks /\ active' = [active EXCEPT !.state = s]
      BY <1>3, NoTaskFacts
         DEF Environment, Operator, SupervisorPosts, GeminiAnswers, EngageStop, ReleaseStop,
             OperatorClearsTask, OperatorClearsCheckpoint, OperatorUpdatesTask, vars, disk,
             Halted, TypeInv, DiskOK
    <2>3. Counted(active', records)
      BY <2>2 DEF RetryInv, Counted, NoTask, Tasks
    <2> QED BY <2>1, <2>3 DEF RetryInv, RetriesSettleInOrder, Counted, RetryOK, Settled
  <1> QED BY <1>2, <1>3 DEF Next

\* With one process on the state directory, and whatever crashes, the second
\* retry is clicked only when the first is settled, and so on.
THEOREM RetriesWaitTheirTurn == ASSUME Alone PROVE Spec => []RetriesSettleInOrder
  <1>1. RetryInv => RetriesSettleInOrder
    BY DEF RetryInv
  <1> QED BY <1>1, InitType, StepType, IntentInit, IntentStep, AnswerInit, AnswerStep,
             EvidenceInit, EvidenceStep, RetryInit, RetryStep, PTL DEF Spec

-----------------------------------------------------------------------------
(* Bridge implements Delivery, for a single process.                       *)

\* The operator does not put a task into a state the engine moves on from to
\* a retry, a return or the archive; RETURN_PREPARED is his to set.
OperatorRestrained == OperatorStates \cap (Polling \cup Finished) = {}

\* The instance speaks of the same keys.
LEMMA SameKeys ==
    /\ Promise!Keys = Keys
    /\ \A c : Promise!SubmitKey(c) = SubmitKey(c) /\ Promise!ReturnKey(c) = ReturnKey(c)
  BY DEF Promise!Keys, Keys, Promise!RetryKeys, RetryKeys, Promise!SubmitKey, SubmitKey,
         Promise!ReturnKey, ReturnKey, Promise!RetryKey, RetryKey

\* TASK_ID and PHASE identify a command whose TASK_ID nobody else mentions.
LEMMA ApartDistinct == Apart => Distinct
  BY MentionAssumption DEF Apart, Distinct, SameTaskAndPhase, SameTask

\* A landing click is a delivery: the first for its key, and unless it is a
\* submission, one for a command that was submitted.
LEMMA LandingDelivers ==
    ASSUME TypeInv, IntentInv, EvidenceInv, Apart, OperatorRestrained,
           NEW p \in Procs, Strikes(p), ledger' = ledger
    PROVE  Promise!Deliver(op[p])
  <1>0. pc[p] \in Starting /\ pc[p] \in Armed /\ pc[p] \in OpLabels
    BY DEF Strikes, Starting, Armed, OpLabels
  <1>1. /\ op[p] \in Keys /\ pc[p] \in Starting /\ clicks[op[p]] = 0
        /\ job[p] \in Tasks /\ Honest(job[p], clicks) /\ StageOK(p)
        /\ clicks' = [clicks EXCEPT ![op[p]] = 1]
    <2>1. op[p] \in Keys /\ job[p] \in Tasks
      BY <1>0, LabelFacts DEF TypeInv, LocalsOK
    <2>2. clicks[op[p]] = 0
      BY <1>0 DEF IntentInv, IntentArmed
    <2>3. clicks' = [clicks EXCEPT ![op[p]] = 1]
      BY <2>2 DEF Strikes, Lands
    <2> QED BY <1>0, <2>1, <2>2, <2>3 DEF EvidenceInv
  <1>2. op[p].cmd = job[p].cmd /\ job[p].cmd \in Commands
    BY <1>1, KeyFacts DEF StageOK, Tasks
  <1>3. ASSUME op[p] # SubmitKey(op[p].cmd) PROVE clicks[SubmitKey(op[p].cmd)] = 1
    <2>1. op[p].type # "GEMINI_SUBMISSION"
      BY <1>1, <1>3 DEF Keys, RetryKeys, SubmitKey, ReturnKey, RetryKey
    <2>2. job[p].state \in Waited
      BY <1>1, <2>1 DEF StageOK, Honest, OperatorRestrained, EngineStates, Polling, Waited
    <2>3. WaitTrusted
      BY DEF WaitTrusted, OperatorRestrained, Polling, Waited
    <2>4. clicks[SubmitKey(op[p].cmd)] > 0
      BY <1>1, <1>2, <2>2, <2>3 DEF Honest
    <2>5. SubmitKey(op[p].cmd) \in Keys
      BY <1>2, KeyFacts
    <2>6. clicks[SubmitKey(op[p].cmd)] \in Nat /\ clicks[SubmitKey(op[p].cmd)] <= 1
      BY <2>5 DEF TypeInv, PageOK, IntentInv, AtMostOnce
    <2> QED BY <2>4, <2>6
  <1> QED BY <1>1, <1>3, SameKeys DEF Promise!Deliver

\* Only archiving writes the ledger.
LEMMA LedgerStays ==
    ASSUME NEW p \in Procs, Engine(p) \/ Interrupt(p), ~ArchiveWrite(p) PROVE ledger' = ledger
  <1>1. CASE HaltOnStop(p) \/ HaltOnTask(p) \/ (\E d \in DryRuns : BeginCycle(p, d))
               \/ OrphanCheck(p) \/ Intake(p) \/ Advance(p) \/ ResumeProven(p) \/ Resubmit(p)
               \/ HaltAmbiguous(p) \/ ReconcileReturn(p) \/ FindRetry(p)
    BY <1>1 DEF HaltOnStop, HaltOnTask, BeginCycle, OrphanCheck, Intake, Advance, ResumeProven,
                Resubmit, HaltAmbiguous, ReconcileReturn, FindRetry, disk
  <1>2. CASE DetectRetryExecuted(p) \/ DetectRetryAmbiguous(p) \/ DetectNothingToDo(p)
               \/ DetectCompleted(p) \/ DetectRetryAvailable(p) \/ AcceptReport(p) \/ RejectReport(p)
               \/ Prepare(p) \/ WritePrepared(p) \/ WriteCheckpoint(p) \/ SaveRetry(p)
    BY <1>2 DEF DetectRetryExecuted, DetectRetryAmbiguous, DetectNothingToDo, DetectCompleted,
                DetectRetryAvailable, AcceptReport, TakeReport, RejectReport, Prepare,
                PrepareWhen, WritePrepared, WriteCheckpoint, SaveRetry, disk
  <1>3. CASE ClickRetry(p) \/ RetryButtonMissing(p) \/ RetryClickRaises(p) \/ PageNotReady(p)
               \/ ClickSend(p) \/ ClickRaises(p) \/ SaveUncertain(p) \/ SaveSubmitted(p)
               \/ MarkReturned(p) \/ ConfirmLoad(p) \/ WriteConfirmed(p) \/ Resave(p)
               \/ ArchiveLoad(p) \/ ArchiveClear(p) \/ Interrupt(p)
    BY <1>3 DEF ClickRetry, RetryButtonMissing, RetryClickRaises, PageNotReady, ClickSend,
                ClickRaises, SaveUncertain, SaveSubmitted, MarkReturned, ConfirmLoad,
                WriteConfirmed, Resave, ArchiveLoad, ArchiveClear, Interrupt, disk
  <1> QED BY <1>1, <1>2, <1>3 DEF Engine

\* What a process is about to write back is the ledger as it is: this takes a
\* single process.
LoadedFresh == \A p \in Procs : pc[p] = "archiveWrite" => entries[p] = ledger

LEMMA LoadedStep ==
    ASSUME Alone PROVE TypeInv /\ LoadedFresh /\ [Next]_vars => LoadedFresh'
  <1> SUFFICES ASSUME TypeInv, LoadedFresh, [Next]_vars, NEW p \in Procs, pc'[p] = "archiveWrite"
               PROVE  entries'[p] = ledger'
    BY DEF LoadedFresh
  <1> USE DEF Goto, EndCycle, TypeInv, CycleOK
  <1>1. CASE ArchiveLoad(p)
    BY <1>1 DEF ArchiveLoad, disk
  <1>2. CASE HaltOnStop(p) \/ HaltOnTask(p) \/ OrphanCheck(p) \/ Intake(p) \/ Advance(p)
               \/ ResumeProven(p) \/ Resubmit(p) \/ HaltAmbiguous(p) \/ ReconcileReturn(p)
               \/ FindRetry(p) \/ DetectRetryExecuted(p) \/ DetectRetryAmbiguous(p)
    BY <1>2 DEF HaltOnStop, HaltOnTask, OrphanCheck, Intake, Advance, ResumeProven, Resubmit,
                HaltAmbiguous, ReconcileReturn, FindRetry, DetectRetryExecuted,
                DetectRetryAmbiguous
  <1>3. CASE DetectNothingToDo(p) \/ DetectCompleted(p) \/ DetectRetryAvailable(p)
               \/ AcceptReport(p) \/ RejectReport(p) \/ Prepare(p) \/ WritePrepared(p)
               \/ WriteCheckpoint(p) \/ SaveRetry(p) \/ ClickRetry(p) \/ RetryButtonMissing(p)
    BY <1>3 DEF DetectNothingToDo, DetectCompleted, DetectRetryAvailable, AcceptReport,
                TakeReport, RejectReport, Prepare, PrepareWhen, WritePrepared, WriteCheckpoint,
                SaveRetry, ClickRetry, RetryButtonMissing
  <1>4. CASE RetryClickRaises(p) \/ PageNotReady(p) \/ ClickSend(p) \/ ClickRaises(p)
               \/ SaveUncertain(p) \/ SaveSubmitted(p) \/ MarkReturned(p) \/ ConfirmLoad(p)
               \/ WriteConfirmed(p) \/ Resave(p) \/ ArchiveWrite(p) \/ ArchiveClear(p)
               \/ Interrupt(p)
    BY <1>4 DEF RetryClickRaises, PageNotReady, ClickSend, ClickRaises, SaveUncertain,
                SaveSubmitted, MarkReturned, ConfirmLoad, WriteConfirmed, Resave, ArchiveWrite,
                ArchiveClear, Interrupt
  <1>5. CASE \E d \in DryRuns : BeginCycle(p, d)
    <2>1. PICK d \in DryRuns : BeginCycle(p, d)
      BY <1>5
    <2>2. active.state \notin Halted /\ active \in Tasks \cup {NoTask}
      BY <2>1 DEF BeginCycle, DiskOK
    <2> QED BY <2>1, <2>2, EntryLabels DEF BeginCycle
  <1>6. CASE Environment \/ Operator \/ UNCHANGED vars
    BY <1>6 DEF Environment, Operator, SupervisorPosts, GeminiAnswers, EngageStop, ReleaseStop,
                OperatorClearsTask, OperatorClearsCheckpoint, OperatorUpdatesTask, LoadedFresh,
                vars, disk, cycle
  <1>7. Engine(p) \/ Interrupt(p) \/ Environment \/ Operator \/ UNCHANGED vars
    BY DEF Next, Alone
  <1> QED BY <1>1, <1>2, <1>3, <1>4, <1>5, <1>6, <1>7 DEF Engine

\* Archiving finishes the command in hand, and loses no other.
LEMMA ArchivingFinishes ==
    ASSUME TypeInv, IntentInv, EvidenceInv, LoadedFresh, Apart, OperatorRestrained,
           NEW p \in Procs, ArchiveWrite(p)
    PROVE  Promise!Finish(job[p].cmd) /\ job[p].cmd \in Commands
  <1> DEFINE c == job[p].cmd
  <1>1. pc[p] = "archiveWrite" /\ ledger' = Archive(ledger, c) /\ clicks' = clicks
    BY DEF ArchiveWrite, LoadedFresh, page
  <1>2. c \in Commands /\ job[p].state \in Finished /\ Honest(job[p], clicks)
    BY <1>1, LabelFacts DEF TypeInv, LocalsOK, Tasks, EvidenceInv, StageOK
  <1>3. ledger' = ledger \cup {c}
    BY <1>1, <1>2, ApartDistinct DEF Archive, Distinct, TypeInv, DiskOK
  <1>4. clicks[ReturnKey(c)] > 0
    BY <1>2 DEF Honest, ReturnTrusted, OperatorRestrained
  <1>5. ReturnKey(c) \in Keys
    BY <1>2, KeyFacts
  <1>6. clicks[ReturnKey(c)] = 1
    <2>1. clicks[ReturnKey(c)] \in Nat /\ clicks[ReturnKey(c)] <= 1
      BY <1>5 DEF TypeInv, PageOK, IntentInv, AtMostOnce
    <2> QED BY <1>4, <2>1
  <1> QED BY <1>1, <1>2, <1>3, <1>6, SameKeys DEF Promise!Finish

\* Every step delivers, finishes or is invisible.
LEMMA StepDelivers ==
    ASSUME TypeInv, IntentInv, EvidenceInv, LoadedFresh, Apart, OperatorRestrained, [Next]_vars
    PROVE  [Promise!Next]_<<clicks, ledger>>
  <1>1. ASSUME NEW p \in Procs, ArchiveWrite(p) PROVE Promise!Next
    BY <1>1, ArchivingFinishes DEF Promise!Next
  <1>3. ASSUME NEW p \in Procs, Engine(p) \/ Interrupt(p), ~ArchiveWrite(p)
        PROVE  Promise!Next \/ UNCHANGED <<clicks, ledger>>
    <2>1. ledger' = ledger
      BY <1>3, LedgerStays
    <2>2. CASE Walks(p)
      BY <2>1, <2>2 DEF Walks
    <2>3. CASE Strikes(p)
      <3>1. op[p] \in Keys /\ Promise!Deliver(op[p])
        BY <2>1, <2>3, LandingDelivers DEF Strikes, OpLabels, TypeInv, LocalsOK
      <3> QED BY <3>1, SameKeys DEF Promise!Next
    <2> QED BY <1>3, <2>2, <2>3, WalksOrStrikes
  <1>4. CASE Environment \/ Operator \/ UNCHANGED vars
    BY <1>4 DEF Environment, Operator, SupervisorPosts, GeminiAnswers, EngageStop, ReleaseStop,
                OperatorClearsTask, OperatorClearsCheckpoint, OperatorUpdatesTask,
                vars, disk, cycle, page
  <1> QED BY <1>1, <1>3, <1>4 DEF Next

\* With one process on the state directory, TASK_IDs that no other command
\* mentions and a restrained operator, whatever crashes: the bridge delivers
\* every operation at most once, none before its submission, and archives a
\* command only when its report went back, for good.
THEOREM DeliveryIsImplemented ==
    ASSUME Alone, Apart, OperatorRestrained PROVE Spec => DeliveryHolds
  <1>1. Init => Promise!Init
    BY SameKeys DEF Init, Promise!Init
  <1>2. TypeInv /\ IntentInv /\ EvidenceInv /\ LoadedFresh /\ [Next]_vars
            => [Promise!Next]_<<clicks, ledger>>
    BY StepDelivers
  <1>3. Init => LoadedFresh
    BY DEF Init, LoadedFresh
  <1> QED BY <1>1, <1>2, <1>3, LoadedStep, InitType, StepType, IntentInit, IntentStep, AnswerInit, AnswerStep,
             EvidenceInit, EvidenceStep, PTL DEF Spec, DeliveryHolds, Promise!Spec

-----------------------------------------------------------------------------
(* Task and contract in hand during a cycle of the only process.           *)

\* The task in memory is the one on disk, and a retry is the next one of it.
TaskHeld(p) ==
    /\ pc[p] \in {"orphanCheck", "intake"} => active = NoTask
    /\ pc[p] \in TaskLabels =>
          active \in Tasks /\ job[p].cmd = active.cmd /\ job[p].retries = active.retries

Preparing == {"prepare", "writeRecord", "writeCheckpoint", "saveRetry"}
RetryHeld(p) ==
    pc[p] \in Preparing /\ op[p].type = "GEMINI_RETRY" => op[p].attempt = job[p].retries + 1

InHand(p) == TaskHeld(p) /\ RetryHeld(p)

\* What a step does to the task on disk.
Follows(p) ==
    /\ pc[p] \in {"idle", "orphanCheck"} => active' = active
    /\ pc[p] = "intake" /\ pc'[p] = "idle" => active' = active
    /\ pc[p] \in TaskLabels \ {"archiveClear"} =>
          /\ active' \in Tasks /\ active'.cmd = active.cmd
          /\ active'.retries = IF pc[p] = "saveRetry" THEN op[p].attempt ELSE active.retries

\* Steps with a task in hand whose command and count they keep.
LEMMA HandPlain ==
    ASSUME TypeInv, NEW p \in Procs, TaskHeld(p), pc[p] \in TaskLabels \ {"saveRetry"},
           NEW s \in FileStates,
           active' \in {active, job[p], MovedTo(p, s)}, job'[p] \in {NoTask, job[p], MovedTo(p, s)},
           pc'[p] = "idle" \/ (pc'[p] \in TaskLabels /\ job'[p] # NoTask)
    PROVE  Follows(p) /\ TaskHeld(p)'
  <1>1. job[p] \in Tasks
    BY DEF TypeInv, LocalsOK
  <1>2. active \in Tasks /\ job[p].cmd = active.cmd /\ job[p].retries = active.retries
    BY DEF TaskHeld
  <1>3. /\ MovedTo(p, s) \in Tasks
        /\ MovedTo(p, s).cmd = job[p].cmd /\ MovedTo(p, s).retries = job[p].retries
    BY <1>1, MovedCount
  <1>4. active' \in Tasks /\ active'.cmd = active.cmd /\ active'.retries = active.retries
    BY <1>1, <1>2, <1>3
  <1>5. Follows(p)
    BY <1>4 DEF Follows, TaskLabels
  <1>6. job'[p] # NoTask => job'[p].cmd = active.cmd /\ job'[p].retries = active.retries
    BY <1>2, <1>3
  <1> QED BY <1>4, <1>5, <1>6 DEF TaskHeld, TaskLabels

LEMMA HandStep ==
    ASSUME TypeInv, NEW p \in Procs, TaskHeld(p), Engine(p)
    PROVE  Follows(p) /\ TaskHeld(p)'
  <1> USE DEF Goto, EndCycle, TypeInv, CycleOK
  <1>0. "idle" \notin TaskLabels \cup {"orphanCheck", "intake"}
    BY DEF TaskLabels
  <1>1. CASE pc[p] \in {"idle", "orphanCheck"} /\ pc'[p] = "idle" /\ active' = active
    BY <1>0, <1>1 DEF Follows, TaskHeld, TaskLabels
  <1>2. CASE HaltOnStop(p) \/ HaltOnTask(p)
    BY <1>1, <1>2 DEF HaltOnStop, HaltOnTask, disk
  <1>3. CASE \E d \in DryRuns : BeginCycle(p, d)
    <2>1. PICK d \in DryRuns : BeginCycle(p, d)
      BY <1>3
    <2>2. pc[p] = "idle" /\ active' = active
      BY <2>1 DEF BeginCycle, disk
    <2>3. CASE ~EndCycle(p, "SUCCESS")
      <3>1. pc'[p] = EntryLabel(active.state) /\ job'[p] = active
        BY <2>1, <2>3 DEF BeginCycle
      <3>2. CASE active = NoTask
        <4>1. EntryLabel(active.state) = "orphanCheck"
          BY <3>2 DEF EntryLabel, NoTask, Finished, Intermediate, Polling
        <4> QED BY <2>2, <3>1, <3>2, <4>1 DEF Follows, TaskHeld, TaskLabels
      <3>3. CASE active \in Tasks
        <4>1. active.state \in FileStates \ Halted
          BY <2>1, <3>3 DEF Tasks, BeginCycle
        <4>2. EntryLabel(active.state) \notin {"orphanCheck", "intake"}
          BY <4>1 DEF EntryLabel, FileStates, TaskState, LegalTransitions, Halted, Finished,
                      Intermediate, Polling
        <4> QED BY <2>2, <3>1, <3>3, <4>2 DEF Follows, TaskHeld, TaskLabels
      <3> QED BY <3>2, <3>3 DEF DiskOK
    <2> QED BY <1>1, <2>1, <2>2, <2>3
  <1>4. CASE OrphanCheck(p)
    BY <1>4 DEF OrphanCheck, disk, Follows, TaskHeld, TaskLabels
  <1>5. CASE Intake(p)
    <2> DEFINE t == [cmd |-> newest, state |-> "SUBMISSION_PREPARED", retries |-> 0]
    <2>1. CASE ~EndCycle(p, "SUCCESS")
      <3>1. newest \in Commands /\ active' = t /\ job'[p] = t /\ pc'[p] = "prepare" /\ pc[p] = "intake"
        BY <1>5, <2>1 DEF Intake, PageOK
      <3>2. t \in Tasks
        BY <3>1, FileStateFacts, CommandAssumption DEF Tasks
      <3> QED BY <3>1, <3>2 DEF Follows, TaskHeld, TaskLabels
    <2>2. CASE EndCycle(p, "SUCCESS")
      <3>1. active' = active /\ pc[p] = "intake" /\ pc'[p] = "idle"
        BY <1>5, <2>2 DEF Intake
      <3> QED BY <3>1 DEF Follows, TaskHeld, TaskLabels
    <2> QED BY <2>1, <2>2
  <1>6. CASE /\ pc[p] \in TaskLabels \ {"saveRetry"}
             /\ \E s \in FileStates : active' \in {active, job[p], MovedTo(p, s)}
                                      /\ job'[p] \in {NoTask, job[p], MovedTo(p, s)}
             /\ pc'[p] = "idle" \/ (pc'[p] \in TaskLabels /\ job'[p] # NoTask)
    BY <1>6, HandPlain
  <1>7. /\ pc[p] \in TaskLabels => job[p] \in Tasks /\ job[p] # NoTask
        /\ \A s \in FileStates : pc[p] \in TaskLabels => MovedTo(p, s) # NoTask
    BY NoTaskFacts, MovedCount DEF LocalsOK
  <1>8. {"reconcile", "prepare", "detect", "inspect", "reconcileLoad", "writeRecord", "writeCheckpoint",
         "saveRetry", "click", "clickRaised", "clicked", "confirmLoad", "confirmWrite",
         "reconcileWrite", "resave", "archiveLoad", "archiveWrite",
         "archiveClear"} \subseteq TaskLabels
    BY LabelFacts DEF OpLabels
  <1> USE FileStateFacts
  <1>9. CASE Advance(p) \/ ResumeProven(p) \/ Resubmit(p) \/ HaltAmbiguous(p) \/ ReconcileReturn(p)
    BY <1>6, <1>7, <1>8, <1>9, LabelFacts
       DEF Advance, ResumeProven, Resubmit, HaltAmbiguous, ReconcileReturn, Save, disk
  <1>10. CASE FindRetry(p) \/ DetectRetryExecuted(p) \/ DetectRetryAmbiguous(p)
                \/ DetectNothingToDo(p) \/ DetectCompleted(p) \/ DetectRetryAvailable(p)
    BY <1>6, <1>7, <1>8, <1>10, LabelFacts
       DEF FindRetry, DetectRetryExecuted, DetectRetryAmbiguous, DetectNothingToDo,
           DetectCompleted, DetectRetryAvailable, Save, disk
  <1>11. CASE AcceptReport(p) \/ RejectReport(p)
    BY <1>6, <1>7, <1>8, <1>11 DEF AcceptReport, TakeReport, RejectReport, Save, disk
  <1>12. CASE Prepare(p) \/ WritePrepared(p) \/ WriteCheckpoint(p)
    BY <1>6, <1>7, <1>8, <1>12 DEF Prepare, PrepareWhen, WritePrepared, WriteCheckpoint, disk
  <1>13. CASE SaveRetry(p)
    <2> DEFINE t == [job[p] EXCEPT !.retries = op[p].attempt]
    <2>1. pc[p] = "saveRetry" /\ job'[p] = t /\ active' = t /\ pc'[p] = "clickRetry"
      BY <1>13 DEF SaveRetry
    <2>2. job[p] \in Tasks /\ op[p] \in Keys /\ job[p].cmd = active.cmd
      BY <1>8, <2>1 DEF LocalsOK, OpLabels, TaskHeld
    <2>3. t \in Tasks /\ t.cmd = active.cmd /\ t.retries = op[p].attempt
      BY <2>2, KeyFacts DEF Tasks
    <2> HIDE DEF t
    <2> QED BY <2>1, <2>3 DEF Follows, TaskHeld
  <1>14. CASE ClickRetry(p) \/ RetryButtonMissing(p) \/ RetryClickRaises(p) \/ PageNotReady(p)
                \/ ClickSend(p) \/ ClickRaises(p) \/ SaveUncertain(p)
    BY <1>6, <1>7, <1>8, <1>14, LabelFacts
       DEF ClickRetry, RetryButtonMissing, RetryClickRaises, PageNotReady, ClickSend, ClickRaises,
           SaveUncertain, OpLabels, disk
  <1>15. CASE SaveSubmitted(p) \/ MarkReturned(p)
    BY <1>6, <1>7, <1>8, <1>15 DEF SaveSubmitted, MarkReturned, disk
  <1>16. CASE ConfirmLoad(p) \/ WriteConfirmed(p) \/ Resave(p) \/ ArchiveLoad(p) \/ ArchiveWrite(p)
    BY <1>6, <1>7, <1>8, <1>16
       DEF ConfirmLoad, WriteConfirmed, Resave, ArchiveLoad, ArchiveWrite, Save, disk
  <1>17. CASE ArchiveClear(p)
    BY <1>17 DEF ArchiveClear, Follows, TaskHeld, TaskLabels
  <1> QED BY <1>2, <1>3, <1>4, <1>5, <1>9, <1>10, <1>11, <1>12, <1>13, <1>14, <1>15, <1>16, <1>17
          DEF Engine

LEMMA RetryHeldStep ==
    ASSUME TypeInv, NEW p \in Procs, RetryHeld(p), Engine(p)
    PROVE  RetryHeld(p)'
  <1> USE DEF Goto, EndCycle, TypeInv, CycleOK, Preparing
  <1>1. CASE pc'[p] \notin Preparing
    BY <1>1 DEF RetryHeld
  <1>2. CASE pc[p] \in Preparing /\ op'[p] = op[p] /\ job'[p] = job[p]
    BY <1>2 DEF RetryHeld
  <1>3. CASE op'[p].type # "GEMINI_RETRY"
    BY <1>3 DEF RetryHeld
  <1>4. CASE HaltOnStop(p) \/ HaltOnTask(p) \/ OrphanCheck(p) \/ Advance(p) \/ ResumeProven(p)
               \/ HaltAmbiguous(p) \/ ReconcileReturn(p)
    BY <1>1, <1>4 DEF HaltOnStop, HaltOnTask, OrphanCheck, Advance, ResumeProven, HaltAmbiguous,
                      ReconcileReturn
  <1>5. CASE FindRetry(p) \/ DetectRetryExecuted(p) \/ DetectRetryAmbiguous(p)
               \/ DetectNothingToDo(p) \/ DetectCompleted(p) \/ RejectReport(p)
    BY <1>1, <1>5 DEF FindRetry, DetectRetryExecuted, DetectRetryAmbiguous, DetectNothingToDo,
                      DetectCompleted, RejectReport
  <1>6. CASE \E d \in DryRuns : BeginCycle(p, d)
    <2>1. PICK d \in DryRuns : BeginCycle(p, d)
      BY <1>6
    <2>2. active.state \notin Halted /\ active \in Tasks \cup {NoTask}
      BY <2>1 DEF BeginCycle, DiskOK
    <2>3. EntryLabel(active.state) \notin Preparing
      BY <2>2, EntryLabels
    <2> QED BY <1>1, <2>1, <2>3 DEF BeginCycle
  <1>7. CASE Intake(p) \/ Resubmit(p) \/ AcceptReport(p)
    <2>1. (\E r : EndCycle(p, r))
          \/ (\E c : op' = [op EXCEPT ![p] = SubmitKey(c)] \/ op' = [op EXCEPT ![p] = ReturnKey(c)])
      BY <1>7 DEF Intake, Resubmit, AcceptReport, TakeReport
    <2> QED BY <1>1, <1>3, <2>1 DEF SubmitKey, ReturnKey
  <1>8. CASE DetectRetryAvailable(p)
    <2>1. (\E r : EndCycle(p, r))
          \/ (op'[p] = RetryKey(job[p].cmd, job[p].retries + 1) /\ job'[p] = job[p])
      BY <1>8 DEF DetectRetryAvailable
    <2> QED BY <1>1, <2>1 DEF RetryHeld, RetryKey
  <1>9. CASE Prepare(p) \/ WritePrepared(p) \/ WriteCheckpoint(p) \/ SaveRetry(p)
    BY <1>1, <1>2, <1>9 DEF Prepare, PrepareWhen, WritePrepared, WriteCheckpoint, SaveRetry
  <1>10. CASE ClickRetry(p) \/ RetryButtonMissing(p) \/ RetryClickRaises(p) \/ PageNotReady(p)
                \/ ClickSend(p) \/ ClickRaises(p) \/ SaveUncertain(p) \/ SaveSubmitted(p)
                \/ MarkReturned(p)
    BY <1>1, <1>10 DEF ClickRetry, RetryButtonMissing, RetryClickRaises, PageNotReady, ClickSend,
                       ClickRaises, SaveUncertain, SaveSubmitted, MarkReturned
  <1>11. CASE ConfirmLoad(p) \/ WriteConfirmed(p) \/ Resave(p) \/ ArchiveLoad(p)
                \/ ArchiveWrite(p) \/ ArchiveClear(p)
    BY <1>1, <1>11 DEF ConfirmLoad, WriteConfirmed, Resave, ArchiveLoad, ArchiveWrite, ArchiveClear
  <1> QED BY <1>4, <1>5, <1>6, <1>7, <1>8, <1>9, <1>10, <1>11 DEF Engine

-----------------------------------------------------------------------------
(* Why a submission or return that fails is reviewed, for a single process *)
(* and until the first fault.                                              *)

\* The operator takes a task out of review only to have its return looked for.
ReviewOnly == OperatorStates \subseteq {"RETURN_PREPARED"} \cup Halted

\* From the PREPARED record to the confirmation, and labels at which the task
\* on disk may be one under review.
InFlight == {"writeCheckpoint", "saveRetry", "clickRetry", "click", "clickRaised", "clicked",
             "confirmLoad", "confirmWrite"}
Resting == {"idle", "orphanCheck", "intake", "reconcileReturn", "archiveLoad", "archiveWrite",
            "archiveClear"}

Reviewed(t) == t.state \in {"MANUAL_REVIEW_REQUIRED"} \cup OperatorStates

\* k's record is PREPARED, for the task on disk.
Unfinished(k) == records[k] = "PREPARED" /\ k.cmd = active.cmd

Known(c) == \E d \in ledger : SameTask(c, d)

\* Every unfinished operation is under review, known to the ledger or under way.
Accounted ==
    \A k \in Keys \ RetryKeys : Unfinished(k) =>
        \/ Reviewed(active)
        \/ Known(k.cmd)
        \/ \E p \in Procs : pc[p] \in InFlight /\ op[p] = k

\* A task comes to its operations unreviewed, and to its return validated.
Committing == {"prepare", "writeRecord", "writeCheckpoint", "click", "clickRaised", "clicked"}
UnderWay(p) ==
    /\ pc[p] = "intake" => ~Unarchived(records, ledger)
    /\ pc[p] \notin Resting => ~Reviewed(active)
    /\ pc[p] \in Committing /\ op[p].type = "SUPERVISOR_RETURN"
           => job[p].state = "IMPLEMENTER_RESPONSE_VALIDATED"

FailInv ==
    /\ \A p \in Procs : TaskHeld(p)
    /\ faults = 0 => Accounted /\ \A p \in Procs : UnderWay(p)

\* The states the engine gives a task, review apart, are not the operator's.
LEMMA UnreviewedStates ==
    ASSUME ReviewOnly, NEW t, t.state \in Intermediate \cup Polling \cup {"SUBMISSION_PREPARED"}
    PROVE  ~Reviewed(t)
  BY DEF ReviewOnly, Reviewed, Intermediate, Polling, Halted

\* What the only process leaves behind, it leaves accounted for.
LEMMA StepAccounts ==
    ASSUME TypeInv, Alone, IntentInv, EvidenceInv, LoadedFresh, FailInv, faults = 0,
           NEW p \in Procs, Engine(p)
    PROVE  Accounted'
  <1> SUFFICES ASSUME NEW k \in Keys \ RetryKeys, records'[k] = "PREPARED", k.cmd = active'.cmd,
                      ~Reviewed(active')
               PROVE  Known(k.cmd)' \/ (pc'[p] \in InFlight /\ op'[p] = k)
    BY DEF Accounted, Unfinished, Reviewed, Known
  <1> DEFINE Flies == pc[p] \in InFlight /\ op[p] = k
  <1>1. Unfinished(k) => Reviewed(active) \/ Known(k.cmd) \/ Flies
    BY DEF FailInv, Accounted, Alone
  <1>2. TaskHeld(p) /\ UnderWay(p) /\ StageOK(p) /\ k.cmd \in Commands
    BY KeyFacts DEF FailInv, EvidenceInv
  <1>3. Follows(p)
    BY <1>2, HandStep
  <1>4. ledger' = ledger => (Known(k.cmd) => Known(k.cmd)')
    BY DEF Known
  <1>5. ASSUME records' = records, ledger' = ledger, pc[p] \in TaskLabels \ (Resting \cup InFlight)
        PROVE  Known(k.cmd)'
    <2>1. active'.cmd = active.cmd /\ ~Reviewed(active)
      BY <1>2, <1>3, <1>5 DEF Follows, UnderWay, Resting
    <2> QED BY <1>1, <1>4, <1>5, <2>1 DEF Unfinished
  <1>6. ASSUME records' = records, ledger' = ledger, active' = active, pc[p] \in Resting
        PROVE  Known(k.cmd)'
    BY <1>1, <1>4, <1>6 DEF Unfinished, Resting, InFlight, Reviewed
  <1>7. ASSUME records' = records, ledger' = ledger, pc[p] \in InFlight
        PROVE  Known(k.cmd)' \/ op[p] = k
    <2>1. active'.cmd = active.cmd /\ ~Reviewed(active)
      BY <1>2, <1>3, <1>7 DEF Follows, UnderWay, Resting, InFlight, TaskLabels, Labels
    <2> QED BY <1>1, <1>4, <1>7, <2>1 DEF Unfinished
  <1>8. {"advance", "reconcile", "findRetry", "detect", "inspect", "prepare", "writeRecord",
         "reconcileLoad", "reconcileWrite", "resave"} \subseteq TaskLabels \ (Resting \cup InFlight)
    BY DEF TaskLabels, Labels, Resting, InFlight
  <1>9. CASE HaltOnStop(p) \/ HaltOnTask(p) \/ (\E d \in DryRuns : BeginCycle(p, d))
               \/ OrphanCheck(p) \/ ReconcileReturn(p) \/ ArchiveLoad(p)
    BY <1>6, <1>9 DEF HaltOnStop, HaltOnTask, BeginCycle, OrphanCheck, ReconcileReturn,
                      ArchiveLoad, Resting, disk
  <1>10. CASE Intake(p)
    <2>1. pc[p] = "intake" /\ records' = records /\ ledger' = ledger
      BY <1>10 DEF Intake
    <2>2. Known(k.cmd)
      BY <1>2, <2>1 DEF UnderWay, Unarchived, Known
    <2> QED BY <1>4, <2>1, <2>2
  <1>11. CASE Advance(p) \/ ResumeProven(p) \/ Resubmit(p) \/ HaltAmbiguous(p) \/ FindRetry(p)
    BY <1>5, <1>8, <1>11 DEF Advance, ResumeProven, Resubmit, HaltAmbiguous, FindRetry, disk
  <1>12. CASE DetectRetryExecuted(p) \/ DetectRetryAmbiguous(p) \/ DetectNothingToDo(p)
                \/ DetectCompleted(p) \/ DetectRetryAvailable(p)
    BY <1>5, <1>8, <1>12 DEF DetectRetryExecuted, DetectRetryAmbiguous, DetectNothingToDo,
                             DetectCompleted, DetectRetryAvailable, disk
  <1>13. CASE AcceptReport(p) \/ RejectReport(p) \/ Prepare(p) \/ Resave(p)
    BY <1>5, <1>8, <1>13 DEF AcceptReport, TakeReport, RejectReport, Prepare, PrepareWhen, Resave,
                             disk
  <1>14. CASE WritePrepared(p)
    <2>1. /\ pc[p] = "writeRecord" /\ records' = [records EXCEPT ![op[p]] = "PREPARED"]
          /\ ledger' = ledger /\ active' = active
          /\ pc' = [pc EXCEPT ![p] = "writeCheckpoint"] /\ op' = op
      BY <1>14 DEF WritePrepared, Goto, IntentInv, IntentFresh
    <2>2. CASE k = op[p]
      BY <2>1, <2>2 DEF TypeInv, CycleOK, InFlight
    <2>3. CASE k # op[p]
      <3>1. records[k] = "PREPARED"
        BY <2>1, <2>3 DEF TypeInv, DiskOK, Records
      <3>2. ~Reviewed(active) /\ ~Flies
        BY <1>2, <2>1 DEF UnderWay, Resting, InFlight
      <3> QED BY <1>1, <1>4, <2>1, <3>1, <3>2 DEF Unfinished
    <2> QED BY <2>2, <2>3
  <1>15. CASE WriteCheckpoint(p) \/ SaveRetry(p) \/ ClickRetry(p) \/ ClickSend(p) \/ ClickRaises(p)
                \/ SaveSubmitted(p)
    <2>1. pc[p] \in InFlight /\ pc'[p] \in InFlight /\ op' = op
      BY <1>15 DEF WriteCheckpoint, SaveRetry, ClickRetry, ClickSend, ClickRaises, SaveSubmitted,
                   Goto, InFlight, TypeInv, CycleOK
    <2>2. records' = records /\ ledger' = ledger
      BY <1>15 DEF WriteCheckpoint, SaveRetry, ClickRetry, ClickSend, ClickRaises, SaveSubmitted,
                   disk
    <2> QED BY <1>7, <2>1, <2>2
  <1>16. CASE RetryButtonMissing(p) \/ RetryClickRaises(p)
    <2>1. pc[p] = "clickRetry" /\ records' = records /\ ledger' = ledger
      BY <1>16 DEF RetryButtonMissing, RetryClickRaises, disk
    <2>2. op[p] \in Keys /\ op[p].type = "GEMINI_RETRY"
      BY <1>2, <2>1 DEF StageOK, TypeInv, LocalsOK, OpLabels
    <2>3. op[p] \in RetryKeys
      BY <2>2, RetryForm DEF RetryKeys
    <2> QED BY <1>7, <2>1, <2>3 DEF InFlight
  <1>17. CASE PageNotReady(p) \/ SaveUncertain(p)
    <2>1. pc[p] \in OpLabels /\ active' = MovedTo(p, "MANUAL_REVIEW_REQUIRED")
      BY <1>17 DEF PageNotReady, SaveUncertain, OpLabels
    <2>2. job[p] \in Tasks
      BY <2>1, LabelFacts DEF TypeInv, LocalsOK
    <2>3. active'.state = "MANUAL_REVIEW_REQUIRED"
      BY <2>1, <2>2, MoveType, FileStateFacts
    <2> QED BY <2>3 DEF Reviewed
  <1>18. CASE MarkReturned(p)
    <2>1. pc[p] = "clicked" /\ op[p].type = "SUPERVISOR_RETURN" /\ records' = records /\ ledger' = ledger
      BY <1>18 DEF MarkReturned, disk
    <2>2. CanMove(job[p].state, "RETURN_PREPARED")
      BY <1>2, <2>1 DEF UnderWay, Committing, CanMove, LegalTransitions
    <2>3. pc'[p] = "confirmLoad" /\ op' = op
      BY <1>18, <2>2 DEF MarkReturned, Goto, TypeInv, CycleOK
    <2> QED BY <1>7, <2>1, <2>3 DEF InFlight
  <1>19. CASE ConfirmLoad(p)
    <2>1. records' = records /\ ledger' = ledger /\ pc[p] \in {"confirmLoad", "reconcileLoad"}
      BY <1>19 DEF ConfirmLoad, disk
    <2>2. CASE pc[p] = "reconcileLoad"
      BY <1>5, <1>8, <2>1, <2>2
    <2>3. CASE pc[p] = "confirmLoad" /\ records[op[p]] = "CONFIRMED"
      BY <1>7, <2>1, <2>3 DEF InFlight
    <2>4. CASE pc[p] = "confirmLoad" /\ records[op[p]] # "CONFIRMED"
      <3>1. pc'[p] = "confirmWrite" /\ op' = op
        BY <1>19, <2>4 DEF ConfirmLoad, TypeInv, CycleOK
      <3> QED BY <1>7, <2>1, <2>4, <3>1 DEF InFlight
    <2> QED BY <2>1, <2>2, <2>3, <2>4
  <1>20. CASE WriteConfirmed(p)
    <2>1. /\ pc[p] \in {"confirmWrite", "reconcileWrite"} /\ ledger' = ledger /\ active' = active
          /\ records' = [records EXCEPT ![op[p]] = "CONFIRMED"]
      BY <1>20 DEF WriteConfirmed, IntentInv, IntentWriting, Writing
    <2>2. records[k] = "PREPARED" /\ k # op[p]
      BY <2>1 DEF TypeInv, DiskOK, Records
    <2>3. ~Reviewed(active)
      BY <1>2, <2>1 DEF UnderWay, Resting
    <2> QED BY <1>1, <1>4, <2>1, <2>2, <2>3 DEF Unfinished
  <1>21. CASE ArchiveWrite(p)
    <2>1. /\ pc[p] = "archiveWrite" /\ records' = records /\ active' = active
          /\ ledger' = Archive(ledger, job[p].cmd)
      BY <1>21 DEF ArchiveWrite, LoadedFresh
    <2>2. Known(k.cmd)
      BY <1>1, <2>1 DEF Unfinished, InFlight, Reviewed
    <2> QED BY <2>1, <2>2 DEF Known, Archive, SameTask, SameTaskAndPhase
  <1>22. CASE ArchiveClear(p)
    BY <1>2, <1>22, CommandAssumption DEF ArchiveClear, NoTask
  <1> QED BY <1>9, <1>10, <1>11, <1>12, <1>13, <1>14, <1>15, <1>16, <1>17, <1>18, <1>19, <1>20,
             <1>21, <1>22 DEF Engine

\* Where a cycle goes, its task is in the state that UnderWay says.
LEMMA UnderWayStep ==
    ASSUME TypeInv, ReviewOnly, EvidenceInv, NEW p \in Procs, UnderWay(p), Engine(p)
    PROVE  UnderWay(p)'
  <1> USE DEF Goto, EndCycle, TypeInv, CycleOK
  <1>0. StageOK(p) /\ Honest(job[p], clicks) /\ (pc[p] \in TaskLabels => job[p] \in Tasks)
    BY DEF EvidenceInv, LocalsOK
  <1>1. CASE pc'[p] \in Resting \ {"intake"}
    BY <1>1 DEF UnderWay, Resting, Committing
  <1>2. CASE /\ pc[p] \notin Resting /\ pc'[p] \notin Resting \cup Committing
             /\ active' = active
    BY <1>2 DEF UnderWay, Resting
  <1>3. CASE /\ pc[p] \in Committing /\ pc'[p] \in Committing /\ active' = active
             /\ job'[p] = job[p] /\ op'[p] = op[p]
    BY <1>3 DEF UnderWay, Resting, Committing
  <1>4. CASE /\ pc'[p] \notin Resting \cup Committing
             /\ active'.state \in Intermediate \cup Polling \cup {"SUBMISSION_PREPARED"}
    <2>1. ~Reviewed(active')
      BY <1>4, UnreviewedStates
    <2> QED BY <1>4, <2>1 DEF UnderWay, Resting, Reviewed
  <1>5. ASSUME NEW t \in Tasks, t.state = "SUBMISSION_PREPARED" \/ t.state = "WAITING_FOR_IMPLEMENTER"
                                  \/ t.state = "IMPLEMENTER_RESPONSE_VALIDATED",
               active' = t
        PROVE  ~Reviewed(active')
    BY <1>5, UnreviewedStates DEF Polling
  <1>6. CASE HaltOnStop(p) \/ HaltOnTask(p) \/ ReconcileReturn(p) \/ ResumeProven(p)
               \/ HaltAmbiguous(p)
    BY <1>1, <1>6 DEF HaltOnStop, HaltOnTask, ReconcileReturn, ResumeProven, HaltAmbiguous, Resting
  <1>7. CASE DetectRetryAmbiguous(p) \/ DetectNothingToDo(p) \/ RejectReport(p)
               \/ RetryButtonMissing(p) \/ RetryClickRaises(p) \/ PageNotReady(p) \/ SaveUncertain(p)
               \/ Resave(p) \/ ArchiveLoad(p) \/ ArchiveWrite(p) \/ ArchiveClear(p)
    BY <1>1, <1>7 DEF DetectRetryAmbiguous, DetectNothingToDo, RejectReport, RetryButtonMissing,
                      RetryClickRaises, PageNotReady, SaveUncertain, Resave, ArchiveLoad,
                      ArchiveWrite, ArchiveClear, Resting
  <1>8. CASE \E d \in DryRuns : BeginCycle(p, d)
    <2>1. PICK d \in DryRuns : BeginCycle(p, d)
      BY <1>8
    <2>2. active' = active /\ active.state \notin Halted /\ active \in Tasks \cup {NoTask}
      BY <2>1 DEF BeginCycle, disk, DiskOK
    <2>3. CASE pc'[p] = "idle"
      BY <1>1, <2>3 DEF Resting
    <2>4. CASE pc'[p] = EntryLabel(active.state)
      <3> DEFINE l == EntryLabel(active.state)
      <3>1. l \in {"orphanCheck", "archiveLoad", "advance", "reconcile", "reconcileReturn", "findRetry"}
        BY <2>2, EntryLabels
      <3>2. active.state \in FileStates \cup {"NO_ACTIVE_TASK"}
        BY <2>2 DEF Tasks, NoTask
      <3>3. l \in {"advance", "reconcile", "findRetry"}
              => active.state \in Intermediate \cup Polling \cup {"SUBMISSION_PREPARED"}
        BY <2>2, <3>2 DEF EntryLabel, Finished, Intermediate, Polling, Halted, FileStates,
                          TaskState, LegalTransitions
      <3>4. pc'[p] = l
        BY <2>4
      <3> HIDE DEF l
      <3>5. CASE l \in {"orphanCheck", "archiveLoad", "reconcileReturn"}
        BY <1>1, <3>4, <3>5 DEF Resting
      <3>6. CASE l \in {"advance", "reconcile", "findRetry"}
        BY <1>4, <2>2, <3>3, <3>4, <3>6 DEF Resting, Committing
      <3> QED BY <3>1, <3>5, <3>6
    <2> QED BY <2>1, <2>3, <2>4 DEF BeginCycle
  <1>9. CASE OrphanCheck(p)
    <2>1. CASE pc'[p] = "idle"
      BY <1>1, <2>1 DEF Resting
    <2>2. CASE pc'[p] # "idle"
      <3>1. pc'[p] = "intake" /\ ~Unarchived(records, ledger) /\ records' = records /\ ledger' = ledger
        BY <1>9, <2>2 DEF OrphanCheck, OrphanEvidence, disk
      <3> QED BY <3>1 DEF UnderWay, Unarchived, Resting, Committing
    <2> QED BY <2>1, <2>2
  <1>10. CASE Intake(p)
    <2> DEFINE t == [cmd |-> newest, state |-> "SUBMISSION_PREPARED", retries |-> 0]
    <2>1. CASE pc'[p] = "idle"
      BY <1>1, <2>1 DEF Resting
    <2>2. CASE pc'[p] # "idle"
      <3>1. pc'[p] = "prepare" /\ active' = t /\ op'[p] = SubmitKey(newest)
        BY <1>10, <2>2 DEF Intake
      <3>2. SubmitKey(newest).type = "GEMINI_SUBMISSION" /\ ~Reviewed(active')
        BY <3>1, UnreviewedStates DEF SubmitKey
      <3> QED BY <3>1, <3>2 DEF UnderWay, Resting, Committing, Reviewed
    <2> QED BY <2>1, <2>2
  <1>11. CASE Advance(p)
    <2>1. pc[p] = "advance" /\ pc'[p] = "reconcile" /\ active' \in {active, MovedTo(p, "SUBMISSION_PREPARED")}
      BY <1>11 DEF Advance, Save
    <2>2. MovedTo(p, "SUBMISSION_PREPARED").state = "SUBMISSION_PREPARED"
      BY <1>0, <2>1, LabelFacts, MoveType, FileStateFacts
    <2> QED BY <1>2, <1>4, <2>1, <2>2 DEF Resting, Committing
  <1>12. CASE Resubmit(p)
    <2>1. CASE pc'[p] = "idle"
      BY <1>1, <2>1 DEF Resting
    <2>2. CASE pc'[p] # "idle"
      <3>1. pc[p] = "reconcile" /\ pc'[p] = "prepare" /\ active' = active /\ op'[p] = SubmitKey(job[p].cmd)
        BY <1>12, <2>2 DEF Resubmit, disk
      <3>2. SubmitKey(job[p].cmd).type = "GEMINI_SUBMISSION"
        BY DEF SubmitKey
      <3> QED BY <3>1, <3>2 DEF UnderWay, Resting, Committing
    <2> QED BY <2>1, <2>2
  <1>13. CASE FindRetry(p) \/ DetectRetryExecuted(p) \/ DetectCompleted(p)
    <2>1. /\ pc[p] \in {"findRetry", "detect"} /\ active' = active
          /\ pc'[p] \in {"idle", "detect", "reconcileLoad", "inspect"}
      BY <1>13 DEF FindRetry, DetectRetryExecuted, DetectCompleted, disk
    <2> QED BY <1>1, <1>2, <2>1 DEF Resting, Committing
  <1>14. CASE DetectRetryAvailable(p)
    <2>1. CASE pc'[p] = "idle"
      BY <1>1, <2>1 DEF Resting
    <2>2. CASE pc'[p] # "idle"
      <3>1. /\ pc[p] = "detect" /\ pc'[p] = "prepare" /\ active' = active
            /\ op'[p] = RetryKey(job[p].cmd, job[p].retries + 1)
        BY <1>14, <2>2 DEF DetectRetryAvailable, disk
      <3>2. op'[p].type = "GEMINI_RETRY"
        BY <3>1 DEF RetryKey
      <3> QED BY <3>1, <3>2 DEF UnderWay, Resting, Committing
    <2> QED BY <2>1, <2>2
  <1>15. CASE AcceptReport(p)
    <2> DEFINE t == IF job[p].state = "WAITING_FOR_IMPLEMENTER"
                    THEN MovedTo(p, "IMPLEMENTER_RESPONSE_VALIDATED") ELSE job[p]
    <2>1. CASE pc'[p] = "idle"
      BY <1>1, <2>1 DEF Resting
    <2>2. CASE pc'[p] # "idle"
      <3>1. /\ pc[p] = "inspect" /\ pc'[p] = "prepare" /\ job'[p] = t
            /\ active' = active \/ active' = t
        BY <1>15, <2>2 DEF AcceptReport, TakeReport, Save
      <3>2. job[p] \in Tasks /\ job[p].state \in Polling
        BY <1>0, <3>1, LabelFacts DEF StageOK
      <3>3. job[p].state \in Waited
        BY <1>0, <3>2 DEF Honest, ReviewOnly, EngineStates, Polling, Waited, Halted
      <3>4. t.state = "IMPLEMENTER_RESPONSE_VALIDATED"
        BY <3>2, <3>3, MoveType, FileStateFacts DEF Waited
      <3> HIDE DEF t
      <3>5. ~Reviewed(t)
        BY <3>4, UnreviewedStates DEF Polling
      <3>6. ~Reviewed(active')
        BY <3>1, <3>5 DEF UnderWay, Resting, Reviewed
      <3> QED BY <3>1, <3>4, <3>6 DEF UnderWay, Resting, Committing, Reviewed
    <2> QED BY <2>1, <2>2
  <1>16. CASE Prepare(p) \/ WritePrepared(p)
    <2>1. /\ pc[p] \in Committing /\ pc'[p] \in Committing \cup {"idle"} /\ active' = active
          /\ pc'[p] # "idle" => job'[p] = job[p] /\ op'[p] = op[p]
      BY <1>16 DEF Prepare, PrepareWhen, WritePrepared, Committing, disk
    <2> QED BY <1>1, <1>3, <2>1 DEF Resting
  <1>17. CASE WriteCheckpoint(p) \/ ClickSend(p) \/ ClickRaises(p)
    <2>1. /\ pc[p] \in Committing /\ pc'[p] \in Committing \cup {"saveRetry"} /\ active' = active
          /\ job'[p] = job[p] /\ op'[p] = op[p]
      BY <1>17 DEF WriteCheckpoint, ClickSend, ClickRaises, Committing, disk
    <2> QED BY <1>2, <1>3, <2>1 DEF Resting, Committing
  <1>18. CASE SaveRetry(p)
    <2> DEFINE t == [job[p] EXCEPT !.retries = op[p].attempt]
    <2>1. pc[p] = "saveRetry" /\ pc'[p] = "clickRetry" /\ active' = t
      BY <1>18 DEF SaveRetry
    <2>2. job[p] \in Tasks /\ job[p].state \in Polling
      BY <1>0, <2>1, LabelFacts DEF StageOK, Starting, OpLabels
    <2>3. t.state = job[p].state
      BY <2>2 DEF Tasks
    <2> QED BY <1>4, <2>1, <2>2, <2>3 DEF Resting, Committing
  <1>19. CASE ClickRetry(p) \/ MarkReturned(p) \/ ConfirmLoad(p) \/ WriteConfirmed(p)
    <2>1. /\ pc[p] \in {"clickRetry", "clicked", "confirmLoad", "reconcileLoad", "confirmWrite",
                        "reconcileWrite"}
          /\ active' = active
          /\ pc'[p] \in {"idle", "confirmLoad", "confirmWrite", "reconcileWrite", "resave", "archiveLoad"}
      BY <1>19 DEF ClickRetry, MarkReturned, ConfirmLoad, WriteConfirmed, disk
    <2> QED BY <1>1, <1>2, <2>1 DEF Resting, Committing
  <1>20. CASE SaveSubmitted(p)
    <2>1. pc[p] = "clicked" /\ pc'[p] = "confirmLoad" /\ active' = MovedTo(p, "WAITING_FOR_IMPLEMENTER")
      BY <1>20 DEF SaveSubmitted
    <2>2. MovedTo(p, "WAITING_FOR_IMPLEMENTER").state = "WAITING_FOR_IMPLEMENTER"
      BY <1>0, <2>1, LabelFacts, MoveType, FileStateFacts DEF OpLabels
    <2> QED BY <1>4, <2>1, <2>2 DEF Resting, Committing, Polling
  <1> QED BY <1>6, <1>7, <1>8, <1>9, <1>10, <1>11, <1>12, <1>13, <1>14, <1>15, <1>16, <1>17, <1>18,
             <1>19, <1>20 DEF Engine

\* Only the interruption of a cycle counts as a fault.
LEMMA EngineFaults == ASSUME NEW p \in Procs, Engine(p) PROVE faults' = faults
  BY DEF Engine, HaltOnStop, HaltOnTask, BeginCycle, OrphanCheck, Intake, Advance, ResumeProven,
         Resubmit, HaltAmbiguous, ReconcileReturn, FindRetry, DetectRetryExecuted,
         DetectRetryAmbiguous, DetectNothingToDo, DetectCompleted, DetectRetryAvailable,
         AcceptReport, TakeReport, RejectReport, Prepare, PrepareWhen, WritePrepared,
         WriteCheckpoint, SaveRetry, ClickRetry, RetryButtonMissing, RetryClickRaises,
         PageNotReady, ClickSend, ClickRaises, SaveUncertain, SaveSubmitted, MarkReturned,
         ConfirmLoad, WriteConfirmed, Resave, ArchiveLoad, ArchiveWrite, ArchiveClear

LEMMA FailInit == Init => FailInv
  <1> SUFFICES ASSUME Init PROVE FailInv
    OBVIOUS
  <1>1. \A k \in Keys : records[k] = "NONE"
    BY DEF Init, NoRecords
  <1> QED BY <1>1 DEF Init, FailInv, TaskHeld, TaskLabels, Accounted, Unfinished, UnderWay, Resting,
                      Committing

LEMMA FailStep ==
    ASSUME Alone, ReviewOnly
    PROVE  TypeInv /\ IntentInv /\ EvidenceInv /\ LoadedFresh /\ FailInv /\ [Next]_vars => FailInv'
  <1> SUFFICES ASSUME TypeInv, IntentInv, EvidenceInv, LoadedFresh, FailInv, [Next]_vars
               PROVE  FailInv'
    OBVIOUS
  <1>1. ASSUME NEW p \in Procs, Engine(p) PROVE FailInv'
    <2>1. TaskHeld(p)'
      BY <1>1, HandStep DEF FailInv
    <2>2. faults' = faults
      BY <1>1, EngineFaults
    <2>3. faults = 0 => Accounted' /\ UnderWay(p)'
      BY <1>1, StepAccounts, UnderWayStep DEF FailInv
    <2> QED BY <2>1, <2>2, <2>3 DEF FailInv, Alone
  <1>2. ASSUME NEW p \in Procs, Interrupt(p) PROVE FailInv'
    <2>1. faults' # 0
      BY <1>2 DEF Interrupt, TypeInv, FaultsOK
    <2>2. pc'[p] = "idle"
      BY <1>2 DEF Interrupt, EndCycle, TypeInv, CycleOK
    <2>3. TaskHeld(p)'
      BY <2>2 DEF TaskHeld, TaskLabels
    <2> QED BY <2>1, <2>3 DEF FailInv, Alone
  <1>3. CASE Operator
    <2>1. AllIdle /\ UNCHANGED <<records, ledger, cycle, faults>>
      BY <1>3 DEF Operator, OperatorClearsTask, OperatorUpdatesTask, OperatorClearsCheckpoint
    <2>2. \A p \in Procs : TaskHeld(p)' /\ UnderWay(p)'
      BY <2>1 DEF AllIdle, TaskHeld, TaskLabels, UnderWay, Resting, Committing, cycle
    <2>3. active' = active \/ active' = NoTask \/ Reviewed(active')
      <3>1. ASSUME NEW s \in OperatorStates, OperatorUpdatesTask(s) PROVE Reviewed(active')
        <4>1. active \in Tasks
          BY <3>1, NoTaskFacts DEF OperatorUpdatesTask, Halted, TypeInv, DiskOK
        <4>2. active'.state = s
          BY <3>1, <4>1 DEF OperatorUpdatesTask, Tasks
        <4> QED BY <4>2 DEF Reviewed
      <3> QED BY <1>3, <3>1 DEF Operator, OperatorClearsTask, OperatorClearsCheckpoint
    <2>4. Accounted => Accounted'
      <3> SUFFICES ASSUME Accounted, NEW k \in Keys \ RetryKeys, Unfinished(k)', ~Reviewed(active')
                   PROVE  Known(k.cmd)' \/ \E p \in Procs : (pc[p] \in InFlight /\ op[p] = k)'
        BY DEF Accounted, Reviewed
      <3>1. active' # NoTask
        BY KeyFacts, CommandAssumption DEF Unfinished, NoTask
      <3>2. active' = active /\ Unfinished(k)
        BY <2>1, <2>3, <3>1 DEF Unfinished
      <3> QED BY <2>1, <3>2 DEF Accounted, Known, Reviewed, cycle
    <2> QED BY <2>1, <2>2, <2>4 DEF FailInv
  <1>4. CASE Environment \/ UNCHANGED vars
    <2>1. UNCHANGED <<disk, cycle, faults>>
      BY <1>4 DEF Environment, SupervisorPosts, GeminiAnswers, EngageStop, ReleaseStop, vars
    <2> QED BY <2>1 DEF FailInv, TaskHeld, Accounted, Unfinished, Known, UnderWay, Reviewed,
                        Unarchived, disk, cycle
  <1> QED BY <1>1, <1>2, <1>3, <1>4 DEF Next

\* With one process, and an operator who takes tasks out of review only to have
\* their return looked for: as long as no fault hits, the bridge leaves no
\* submission or return unfinished behind without saving its task for review
\* (submission.py:71-148, return_to_supervisor.py:59-160).
THEOREM FailuresAreReviewed ==
    ASSUME Alone, ReviewOnly PROVE Spec => []FailedOperationIsReviewed
  <1>1. FailInv => FailedOperationIsReviewed
    BY DEF FailInv, Accounted, Unfinished, Reviewed, Known, FailedOperationIsReviewed, AllIdle,
           InFlight
  <1>2. Init => LoadedFresh
    BY DEF Init, LoadedFresh
  <1> QED BY <1>1, <1>2, FailInit, FailStep, LoadedStep, InitType, StepType, IntentInit, IntentStep,
             AnswerInit, AnswerStep, EvidenceInit, EvidenceStep, PTL DEF Spec

=============================================================================
