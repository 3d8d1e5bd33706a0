------------------------------- MODULE Bridge -------------------------------
(***************************************************************************)
(* SupervisorBridge: processes that each run RuntimeEngine.run_once again  *)
(* and again over one shared state directory, the browser they act on, and *)
(* the operator.  Steps of a cycle are cut at every await and at every     *)
(* durable write, so that a crash, another process, an emergency stop or a *)
(* change of the page can fall between any two of them.                    *)
(***************************************************************************)
EXTENDS Operations

CONSTANTS
    Procs,           \* processes running the command line interface
    DryRuns,         \* values --dry-run may take, a subset of BOOLEAN
    StopAllowed,     \* whether the operator uses the emergency stop
    OperatorClears,  \* whether the operator removes halted state files
    OperatorStates,  \* states the operator may set a reviewed task to
    MaxFaults        \* bound on crashes and unexpected exceptions

ASSUME BridgeAssumption ==
    /\ DryRuns \subseteq BOOLEAN
    /\ StopAllowed \in BOOLEAN
    /\ OperatorClears \in BOOLEAN
    /\ OperatorStates \subseteq FileStates
    /\ MaxFaults \in Nat

VARIABLES
    \* data/state/
    active,      \* active_task.json, NoTask when the file is absent
    records,     \* idempotency_records.json
    checkpoint,  \* whether checkpoint.json exists
    ledger,      \* completed_ledger.json
    estop,       \* emergency_stop.json
    \* one cycle of a process
    pc,
    job,         \* the task object in memory
    op,          \* key of the operation contract in hand
    snap,        \* records as record_operation loaded them
    entries,     \* ledger as archive_to_ledger loaded it
    report,      \* the command the inspected report answers
    dry,         \* --dry-run
    status,      \* status of the last cycle's result
    \* the world outside
    newest,      \* newest command in the ChatGPT conversation
    clicks,      \* clicks that took effect, by the key they were made for
    answered,    \* commands whose report is in AI Studio
    reported,    \* <<c, d>>: d's report was sent back as the answer to c
    armed,       \* processes that had passed the stop check when it was engaged
    faults       \* crashes and exceptions so far

disk  == <<active, records, checkpoint, ledger>>
cycle == <<pc, job, op, snap, entries, report, dry, status>>
page  == <<newest, clicks, answered, reported, armed>>
vars  == <<disk, estop, cycle, page, faults>>

NoTask == [cmd |-> NoCommand, state |-> "NO_ACTIVE_TASK", retries |-> 0]
Tasks  == [cmd : Commands, state : FileStates, retries : 0..MaxRetries]

Labels == {"idle", "orphanCheck", "intake", "advance", "reconcile", "reconcileReturn",
           "findRetry", "detect", "inspect", "prepare", "writeRecord", "writeCheckpoint",
           "saveRetry", "clickRetry", "click", "clickRaised", "clicked",
           "confirmLoad", "confirmWrite", "reconcileLoad", "reconcileWrite", "resave",
           "archiveLoad", "archiveWrite", "archiveClear"}

Statuses == {"NONE", "SUCCESS", "HALTED", "ORPHANED_STATE", "ERROR"}

Init ==
    /\ active = NoTask
    /\ records = NoRecords
    /\ checkpoint = FALSE
    /\ ledger = {}
    /\ estop = FALSE
    /\ pc = [p \in Procs |-> "idle"]
    /\ job = [p \in Procs |-> NoTask]
    /\ op = [p \in Procs |-> NoKey]
    /\ snap = [p \in Procs |-> NoRecords]
    /\ entries = [p \in Procs |-> {}]
    /\ report = [p \in Procs |-> NoCommand]
    /\ dry = [p \in Procs |-> FALSE]
    /\ status = [p \in Procs |-> "NONE"]
    /\ newest = NoCommand
    /\ clicks = [k \in Keys |-> 0]
    /\ answered = {}
    /\ reported = {}
    /\ armed = {}
    /\ faults = 0

-----------------------------------------------------------------------------
(* Building blocks of a step of process p.                                 *)

\* The cycle goes on at label l.
Goto(p, l) ==
    /\ pc' = [pc EXCEPT ![p] = l]
    /\ UNCHANGED <<snap, entries, dry, status>>

\* run_once returns: everything in memory is gone.
EndCycle(p, result) ==
    /\ pc' = [pc EXCEPT ![p] = "idle"]
    /\ job' = [job EXCEPT ![p] = NoTask]
    /\ op' = [op EXCEPT ![p] = NoKey]
    /\ snap' = [snap EXCEPT ![p] = NoRecords]
    /\ entries' = [entries EXCEPT ![p] = {}]
    /\ report' = [report EXCEPT ![p] = NoCommand]
    /\ dry' = [dry EXCEPT ![p] = FALSE]
    /\ status' = [status EXCEPT ![p] = result]

\* Mutant: a dry run saves as well.
SaveAlways(p, task) == active' = task

\* save_active_task, which every caller but the submitter and the returner
\* skips in a dry run.
Save(p, task) == active' = IF dry[p] THEN active ELSE task

\* transition_to on the task in memory.
MovedTo(p, state) == [job[p] EXCEPT !.state = state]

\* A click on the page takes effect for the operation in hand.
Lands(p) ==
    /\ clicks' = [clicks EXCEPT ![op[p]] = @ + 1]
    /\ armed' = armed \ {p}
    /\ reported' = IF op[p].type = "SUPERVISOR_RETURN"
                   THEN reported \cup {<<op[p].cmd, report[p]>>} ELSE reported
    /\ UNCHANGED <<newest, answered>>

\* The command's TASK_ID is in a turn that some submission put into AI Studio.
InTurns(c) == \E d \in Commands : clicks[SubmitKey(d)] > 0 /\ c \in Mentions[d]

\* The command's TASK_ID is in a report that was posted to ChatGPT.
InUserMessages(c) == \E d \in Commands : clicks[ReturnKey(d)] > 0 /\ c \in Mentions[d]

-----------------------------------------------------------------------------
(* Start of a cycle: emergency stop, load_active_task, terminal states.    *)

HaltOnStop(p) ==
    /\ pc[p] = "idle"
    /\ estop
    /\ EndCycle(p, "HALTED")
    /\ UNCHANGED <<disk, estop, page, faults>>

HaltOnTask(p) ==
    /\ pc[p] = "idle"
    /\ ~estop
    /\ active.state \in Halted
    /\ EndCycle(p, "HALTED")
    /\ UNCHANGED <<disk, estop, page, faults>>

\* Mutant: a validated response is taken for a finished task.
EntryLabelTooEarly(state) ==
    CASE state \in Finished \cup {"IMPLEMENTER_RESPONSE_VALIDATED"} -> "archiveLoad"
      [] state \in Intermediate         -> "advance"
      [] state = "SUBMISSION_PREPARED"  -> "reconcile"
      [] state = "RETURN_PREPARED"      -> "reconcileReturn"
      [] state \in Polling \ {"IMPLEMENTER_RESPONSE_VALIDATED"} -> "findRetry"
      [] state = "NO_ACTIVE_TASK"       -> "orphanCheck"

\* Where run_once takes up a task it has loaded.
EntryLabel(state) ==
    CASE state \in Finished             -> "archiveLoad"
      [] state \in Intermediate         -> "advance"
      [] state = "SUBMISSION_PREPARED"  -> "reconcile"
      [] state = "RETURN_PREPARED"      -> "reconcileReturn"
      [] state \in Polling              -> "findRetry"
      [] state = "NO_ACTIVE_TASK"       -> "orphanCheck"

BeginCycle(p, d) ==
    /\ pc[p] = "idle"
    /\ ~estop
    /\ active.state \notin Halted
    /\ IF d /\ active.state \in Finished
       THEN EndCycle(p, "SUCCESS")
       ELSE /\ pc' = [pc EXCEPT ![p] = EntryLabel(active.state)]
            /\ job' = [job EXCEPT ![p] = active]
            /\ dry' = [dry EXCEPT ![p] = d]
            /\ status' = [status EXCEPT ![p] = "NONE"]
            /\ UNCHANGED <<op, snap, entries, report>>
    /\ UNCHANGED <<disk, estop, page, faults>>

\* No active task: records or a checkpoint of an unarchived task halt the cycle.
OrphanCheck(p) ==
    /\ pc[p] = "orphanCheck"
    /\ IF OrphanEvidence(records, checkpoint, ledger)
       THEN EndCycle(p, "ORPHANED_STATE")
       ELSE Goto(p, "intake") /\ UNCHANGED <<job, op, report>>
    /\ UNCHANGED <<disk, estop, page, faults>>


\* The newest Supervisor command becomes the task, in SUBMISSION_PREPARED.
Intake(p) ==
    LET task == [cmd |-> newest, state |-> "SUBMISSION_PREPARED", retries |-> 0]
    IN  /\ pc[p] = "intake"
        /\ IF newest = NoCommand \/ dry[p]
           THEN EndCycle(p, "SUCCESS") /\ UNCHANGED active
           ELSE /\ active' = task
                /\ job' = [job EXCEPT ![p] = task]
                /\ op' = [op EXCEPT ![p] = SubmitKey(newest)]
                /\ Goto(p, "prepare")
                /\ UNCHANGED report
        /\ UNCHANGED <<records, checkpoint, ledger, estop, page, faults>>

-----------------------------------------------------------------------------
(* Recovery of a task found in an early state or half way through an       *)
(* operation.                                                              *)

Advance(p) ==
    /\ pc[p] = "advance"
    /\ job' = [job EXCEPT ![p] = MovedTo(p, "SUBMISSION_PREPARED")]
    /\ Save(p, MovedTo(p, "SUBMISSION_PREPARED"))
    /\ Goto(p, "reconcile")
    /\ UNCHANGED <<op, report, records, checkpoint, ledger, estop, page, faults>>

\* extract_all_turns_text may miss turns, never invent one.
SubmissionVerdicts(p) ==
    {Reconcile(SubmitKey(job[p].cmd), seen, records, checkpoint, ledger) :
        seen \in {b \in BOOLEAN : b => InTurns(job[p].cmd)}}

ResumeProven(p) ==
    /\ pc[p] = "reconcile"
    /\ "PROVEN_EXECUTED" \in SubmissionVerdicts(p)
    /\ Save(p, MovedTo(p, "WAITING_FOR_IMPLEMENTER"))
    /\ EndCycle(p, "SUCCESS")
    /\ UNCHANGED <<records, checkpoint, ledger, estop, page, faults>>

Resubmit(p) ==
    /\ pc[p] = "reconcile"
    /\ "PROVEN_NOT_EXECUTED" \in SubmissionVerdicts(p)
    /\ IF dry[p]
       THEN EndCycle(p, "SUCCESS")
       ELSE /\ op' = [op EXCEPT ![p] = SubmitKey(job[p].cmd)]
            /\ Goto(p, "prepare")
            /\ UNCHANGED <<job, report>>
    /\ UNCHANGED <<disk, estop, page, faults>>

\* Mutant: the ambiguity is reported but not saved.
HaltWithoutSaving(p) ==
    /\ pc[p] = "reconcile"
    /\ SubmissionVerdicts(p) \cap {"INSUFFICIENT_EVIDENCE", "PROVEN_COMPLETED"} # {}
    /\ EndCycle(p, "HALTED")
    /\ UNCHANGED <<disk, estop, page, faults>>

\* Everything else, PROVEN_COMPLETED included, goes to manual review.
HaltAmbiguous(p) ==
    /\ pc[p] = "reconcile"
    /\ SubmissionVerdicts(p) \cap {"INSUFFICIENT_EVIDENCE", "PROVEN_COMPLETED"} # {}
    /\ Save(p, MovedTo(p, "MANUAL_REVIEW_REQUIRED"))
    /\ EndCycle(p, "HALTED")
    /\ UNCHANGED <<records, checkpoint, ledger, estop, page, faults>>

ReturnVerdicts(p) ==
    {Reconcile(ReturnKey(job[p].cmd), seen, records, checkpoint, ledger) :
        seen \in {b \in BOOLEAN : b => InUserMessages(job[p].cmd)}}

\* RETURN_PREPARED: archive when the return is proven, otherwise do nothing.
ReconcileReturn(p) ==
    /\ pc[p] = "reconcileReturn"
    /\ \E verdict \in ReturnVerdicts(p) :
          IF verdict \in {"PROVEN_EXECUTED", "PROVEN_COMPLETED"} /\ ~dry[p]
          THEN /\ job' = [job EXCEPT ![p] = MovedTo(p, "COMPLETED")]
               /\ Goto(p, "archiveLoad")
               /\ UNCHANGED <<op, report>>
          ELSE EndCycle(p, "SUCCESS")
    /\ UNCHANGED <<disk, estop, page, faults>>

-----------------------------------------------------------------------------
(* Polling the implementer.                                                *)

\* An unfinished retry of this very command is taken up; one of another
\* phase of the task, or several, are an identity conflict.
FindRetry(p) ==
    LET found == PreparedRetries(records, job[p].cmd)
    IN  /\ pc[p] = "findRetry"
        /\ \/ /\ found = {}
              /\ Goto(p, "detect")
              /\ UNCHANGED <<job, op, report>>
           \/ \E k \in found :
                /\ found = {k} /\ k.cmd = job[p].cmd
                /\ op' = [op EXCEPT ![p] = k]
                /\ Goto(p, "detect")
                /\ UNCHANGED <<job, report>>
           \/ /\ Cardinality(found) > 1 \/ \E k \in found : k.cmd # job[p].cmd
              /\ EndCycle(p, "ERROR")
        /\ UNCHANGED <<disk, estop, page, faults>>

\* detect_state saw a generation under way or a finished response: the
\* retry found above counts as executed.  No test of --dry-run here.
DetectRetryExecuted(p) ==
    /\ pc[p] = "detect"
    /\ op[p] # NoKey
    /\ Goto(p, "reconcileLoad")
    /\ UNCHANGED <<job, op, report, disk, estop, page, faults>>

DetectRetryAmbiguous(p) ==
    /\ pc[p] = "detect"
    /\ op[p] # NoKey
    /\ Save(p, MovedTo(p, "MANUAL_REVIEW_REQUIRED"))
    /\ EndCycle(p, "HALTED")
    /\ UNCHANGED <<records, checkpoint, ledger, estop, page, faults>>

\* Still generating, no retry left, or a state run_once has no branch for.
DetectNothingToDo(p) ==
    /\ pc[p] = "detect"
    /\ op[p] = NoKey
    /\ EndCycle(p, "SUCCESS")
    /\ UNCHANGED <<disk, estop, page, faults>>

DetectCompleted(p) ==
    /\ pc[p] = "detect"
    /\ op[p] = NoKey
    /\ Goto(p, "inspect")
    /\ UNCHANGED <<job, op, report, disk, estop, page, faults>>

\* Mutant: the retry budget is not looked at.
RetryWithoutBudget(p) ==
    /\ pc[p] = "detect"
    /\ op[p] = NoKey
    /\ op' = [op EXCEPT ![p] = RetryKey(job[p].cmd, job[p].retries + 1)]
    /\ Goto(p, "prepare")
    /\ UNCHANGED <<job, report, disk, estop, page, faults>>

DetectRetryAvailable(p) ==
    /\ pc[p] = "detect"
    /\ op[p] = NoKey
    /\ job[p].retries < MaxRetries
    /\ IF dry[p]
       THEN EndCycle(p, "SUCCESS")
       ELSE /\ op' = [op EXCEPT ![p] = RetryKey(job[p].cmd, job[p].retries + 1)]
            /\ Goto(p, "prepare")
            /\ UNCHANGED <<job, report>>
    /\ UNCHANGED <<disk, estop, page, faults>>

\* d's report is taken as the answer: a waiting task is saved as validated.
TakeReport(p, d) ==
    LET task == IF job[p].state = "WAITING_FOR_IMPLEMENTER"
                THEN MovedTo(p, "IMPLEMENTER_RESPONSE_VALIDATED") ELSE job[p]
    IN  /\ IF task = job[p] THEN UNCHANGED active ELSE Save(p, task)
        /\ IF dry[p]
           THEN EndCycle(p, "SUCCESS")
           ELSE /\ job' = [job EXCEPT ![p] = task]
                /\ op' = [op EXCEPT ![p] = ReturnKey(task.cmd)]
                /\ report' = [report EXCEPT ![p] = d]
                /\ Goto(p, "prepare")
        /\ UNCHANGED <<records, checkpoint, ledger, estop, page, faults>>

\* Mutants: the report is not correlated with the task, or by TASK_ID only.
AcceptAnyReport(p) ==
    /\ pc[p] = "inspect"
    /\ \E d \in answered : TakeReport(p, d)

AcceptAnyPhase(p) ==
    /\ pc[p] = "inspect"
    /\ \E d \in answered : SameTask(d, job[p].cmd) /\ TakeReport(p, d)

\* The newest model turn holds d's report, with the task's TASK_ID and PHASE.
AcceptReport(p) ==
    /\ pc[p] = "inspect"
    /\ \E d \in answered : SameTaskAndPhase(d, job[p].cmd) /\ TakeReport(p, d)

\* No report, or the report of another task or phase: ResponseInspectionError.
RejectReport(p) ==
    /\ pc[p] = "inspect"
    /\ EndCycle(p, "ERROR")
    /\ UNCHANGED <<disk, estop, page, faults>>

-----------------------------------------------------------------------------
(* SafetyOrchestrator.prepare_operation.                                   *)

\* The operation goes on with the records as they are now, or raises.
PrepareWhen(p, allowed) ==
    /\ pc[p] = "prepare"
    /\ IF allowed
       THEN /\ snap' = [snap EXCEPT ![p] = records]
            /\ pc' = [pc EXCEPT ![p] = "writeRecord"]
            /\ UNCHANGED <<job, op, entries, report, dry, status>>
       ELSE EndCycle(p, "ERROR")
    /\ UNCHANGED <<disk, estop, page, faults>>

\* Mutants: a PREPARED record does not stop the operation; the emergency stop
\* is not asserted.
PrepareAgain(p) == PrepareWhen(p, ~estop /\ records[op[p]] # "CONFIRMED")
PrepareDespiteStop(p) == PrepareWhen(p, records[op[p]] = "NONE")

\* Emergency stop, then the records as record_operation loads them; a key
\* that is already PREPARED or CONFIRMED raises.
Prepare(p) == PrepareWhen(p, ~estop /\ records[op[p]] = "NONE")

\* Mutant: the PREPARED record is not written.
SkipPrepared(p) ==
    /\ pc[p] = "writeRecord"
    /\ Goto(p, "writeCheckpoint")
    /\ UNCHANGED <<job, op, report, disk, estop, page, faults>>

WritePrepared(p) ==
    /\ pc[p] = "writeRecord"
    /\ records' = [snap[p] EXCEPT ![op[p]] = "PREPARED"]
    /\ Goto(p, "writeCheckpoint")
    /\ UNCHANGED <<job, op, report, active, checkpoint, ledger, estop, page, faults>>

WriteCheckpoint(p) ==
    /\ pc[p] = "writeCheckpoint"
    /\ checkpoint' = TRUE
    /\ Goto(p, IF op[p].type = "GEMINI_RETRY" THEN "saveRetry" ELSE "click")
    /\ UNCHANGED <<job, op, report, active, records, ledger, estop, page, faults>>

-----------------------------------------------------------------------------
(* The one browser side effect of a cycle.                                 *)

SaveRetry(p) ==
    LET task == [job[p] EXCEPT !.retries = op[p].attempt]
    IN  /\ pc[p] = "saveRetry"
        /\ job' = [job EXCEPT ![p] = task]
        /\ active' = task
        /\ Goto(p, "clickRetry")
        /\ UNCHANGED <<op, report, records, checkpoint, ledger, estop, page, faults>>

ClickRetry(p) ==
    /\ pc[p] = "clickRetry"
    /\ Lands(p)
    /\ Goto(p, "confirmLoad")
    /\ UNCHANGED <<job, op, report, disk, estop, faults>>

\* The button is gone: no click, no confirmation, and still RETRY_PERFORMED.
RetryButtonMissing(p) ==
    /\ pc[p] = "clickRetry"
    /\ EndCycle(p, "SUCCESS")
    /\ UNCHANGED <<disk, estop, page, faults>>

\* The retry click raises, having had its effect or not.
RetryClickRaises(p) ==
    /\ pc[p] = "clickRetry"
    /\ Lands(p) \/ UNCHANGED page
    /\ EndCycle(p, "ERROR")
    /\ UNCHANGED <<disk, estop, faults>>

\* Mutant: the page is not ready, and that is all that is said of it.
PageNotReadyUnsaved(p) ==
    /\ pc[p] = "click"
    /\ EndCycle(p, "ERROR")
    /\ UNCHANGED <<disk, estop, page, faults>>

\* Composer or button missing, filling or verifying the composer failed.
PageNotReady(p) ==
    /\ pc[p] = "click"
    /\ active' = MovedTo(p, "MANUAL_REVIEW_REQUIRED")
    /\ EndCycle(p, "ERROR")
    /\ UNCHANGED <<records, checkpoint, ledger, estop, page, faults>>

ClickSend(p) ==
    /\ pc[p] = "click"
    /\ Lands(p)
    /\ Goto(p, "clicked")
    /\ UNCHANGED <<job, op, report, disk, estop, faults>>

\* Mutant: the exception of the click is swallowed.
ClickSwallowed(p) ==
    /\ pc[p] = "click"
    /\ Lands(p) \/ UNCHANGED page
    /\ Goto(p, "clicked")
    /\ UNCHANGED <<job, op, report, disk, estop, faults>>

\* The click raises, having had its effect or not.
ClickRaises(p) ==
    /\ pc[p] = "click"
    /\ Lands(p) \/ UNCHANGED page
    /\ Goto(p, "clickRaised")
    /\ UNCHANGED <<job, op, report, disk, estop, faults>>

\* Mutant: the review is saved but nothing is raised.
SaveUncertainAndGoOn(p) ==
    /\ pc[p] = "clickRaised"
    /\ active' = MovedTo(p, "MANUAL_REVIEW_REQUIRED")
    /\ Goto(p, "clicked")
    /\ UNCHANGED <<job, op, report, records, checkpoint, ledger, estop, page, faults>>

SaveUncertain(p) ==
    /\ pc[p] = "clickRaised"
    /\ active' = MovedTo(p, "MANUAL_REVIEW_REQUIRED")
    /\ EndCycle(p, "ERROR")
    /\ UNCHANGED <<records, checkpoint, ledger, estop, page, faults>>

\* submit_command: the task waits for the implementer, on disk too.
SaveSubmitted(p) ==
    /\ pc[p] = "clicked"
    /\ op[p].type = "GEMINI_SUBMISSION"
    /\ active' = MovedTo(p, "WAITING_FOR_IMPLEMENTER")
    /\ job' = [job EXCEPT ![p] = MovedTo(p, "WAITING_FOR_IMPLEMENTER")]
    /\ Goto(p, "confirmLoad")
    /\ UNCHANGED <<op, report, records, checkpoint, ledger, estop, page, faults>>

\* return_report_to_supervisor: only the task in memory moves to COMPLETED;
\* the move raises from a state that may not go to RETURN_PREPARED.
MarkReturned(p) ==
    /\ pc[p] = "clicked"
    /\ op[p].type = "SUPERVISOR_RETURN"
    /\ IF CanMove(job[p].state, "RETURN_PREPARED")
       THEN /\ job' = [job EXCEPT ![p] = MovedTo(p, "COMPLETED")]
            /\ Goto(p, "confirmLoad")
            /\ UNCHANGED <<op, report>>
       ELSE EndCycle(p, "ERROR")
    /\ UNCHANGED <<disk, estop, page, faults>>

-----------------------------------------------------------------------------
(* record_operation(CONFIRMED), archiving and the end of the cycle.        *)

ConfirmLoad(p) ==
    /\ pc[p] \in {"confirmLoad", "reconcileLoad"}
    /\ IF records[op[p]] = "CONFIRMED"
       THEN EndCycle(p, "ERROR")
       ELSE /\ snap' = [snap EXCEPT ![p] = records]
            /\ pc' = [pc EXCEPT ![p] = IF @ = "confirmLoad" THEN "confirmWrite" ELSE "reconcileWrite"]
            /\ UNCHANGED <<job, op, entries, report, dry, status>>
    /\ UNCHANGED <<disk, estop, page, faults>>

\* Mutant: a confirmed submission or retry is polled for in the same cycle.
ConfirmAndPoll(p) ==
    /\ pc[p] \in {"confirmWrite", "reconcileWrite"}
    /\ records' = [snap[p] EXCEPT ![op[p]] = "CONFIRMED"]
    /\ op' = [op EXCEPT ![p] = NoKey]
    /\ Goto(p, "findRetry")
    /\ UNCHANGED <<job, report, active, checkpoint, ledger, estop, page, faults>>

WriteConfirmed(p) ==
    /\ pc[p] \in {"confirmWrite", "reconcileWrite"}
    /\ records' = [snap[p] EXCEPT ![op[p]] = "CONFIRMED"]
    /\ CASE pc[p] = "reconcileWrite" ->
              Goto(p, "resave") /\ UNCHANGED <<job, op, report>>
         [] pc[p] = "confirmWrite" /\ op[p].type = "SUPERVISOR_RETURN" ->
              Goto(p, "archiveLoad") /\ UNCHANGED <<job, op, report>>
         [] OTHER -> EndCycle(p, "SUCCESS")
    /\ UNCHANGED <<active, checkpoint, ledger, estop, page, faults>>

\* A reconciled retry saves the task as it was loaded.
Resave(p) ==
    /\ pc[p] = "resave"
    /\ Save(p, job[p])
    /\ EndCycle(p, "SUCCESS")
    /\ UNCHANGED <<records, checkpoint, ledger, estop, page, faults>>

\* archive_to_ledger: the ledger is loaded, written back with the task in it,
\* and the task file removed.
ArchiveLoad(p) ==
    /\ pc[p] = "archiveLoad"
    /\ entries' = [entries EXCEPT ![p] = ledger]
    /\ pc' = [pc EXCEPT ![p] = "archiveWrite"]
    /\ UNCHANGED <<job, op, snap, report, dry, status, disk, estop, page, faults>>

ArchiveWrite(p) ==
    /\ pc[p] = "archiveWrite"
    /\ ledger' = Archive(entries[p], job[p].cmd)
    /\ Goto(p, "archiveClear")
    /\ UNCHANGED <<job, op, report, active, records, checkpoint, estop, page, faults>>

ArchiveClear(p) ==
    /\ pc[p] = "archiveClear"
    /\ active' = NoTask
    /\ EndCycle(p, "SUCCESS")
    /\ UNCHANGED <<records, checkpoint, ledger, estop, page, faults>>

\* The process dies, or an exception no handler expects ends the cycle.
Interrupt(p) ==
    /\ pc[p] # "idle"
    /\ faults < MaxFaults
    /\ faults' = faults + 1
    /\ \E result \in {"NONE", "ERROR"} : EndCycle(p, result)
    /\ UNCHANGED <<disk, estop, page>>

-----------------------------------------------------------------------------
(* The Supervisor, the implementer and the operator.                       *)

SupervisorPosts(c) ==
    /\ newest # c
    /\ newest' = c
    /\ UNCHANGED <<disk, estop, cycle, clicks, answered, reported, armed, faults>>

GeminiAnswers(c) ==
    /\ clicks[SubmitKey(c)] > 0
    /\ c \notin answered
    /\ answered' = answered \cup {c}
    /\ UNCHANGED <<disk, estop, cycle, newest, clicks, reported, armed, faults>>

\* Labels between prepare_operation's stop check and the click.
PastStopCheck == {"writeRecord", "writeCheckpoint", "saveRetry", "clickRetry", "click"}

EngageStop ==
    /\ StopAllowed
    /\ ~estop
    /\ estop' = TRUE
    /\ armed' = {p \in Procs : pc[p] \in PastStopCheck}
    /\ UNCHANGED <<disk, cycle, newest, clicks, answered, reported, faults>>

ReleaseStop ==
    /\ estop
    /\ estop' = FALSE
    /\ armed' = {}
    /\ UNCHANGED <<disk, cycle, newest, clicks, answered, reported, faults>>

AllIdle == \A p \in Procs : pc[p] = "idle"

\* Between cycles the operator removes the file of a task under review, sets
\* its state after inspection, or removes a checkpoint nobody needs.
OperatorClearsTask ==
    /\ OperatorClears /\ AllIdle
    /\ active.state \in Halted
    /\ active' = NoTask
    /\ UNCHANGED <<records, checkpoint, ledger, estop, cycle, page, faults>>

OperatorUpdatesTask(state) ==
    /\ AllIdle
    /\ active.state \in Halted
    /\ active' = [active EXCEPT !.state = state]
    /\ UNCHANGED <<records, checkpoint, ledger, estop, cycle, page, faults>>

OperatorClearsCheckpoint ==
    /\ OperatorClears /\ AllIdle
    /\ active = NoTask
    /\ checkpoint
    /\ checkpoint' = FALSE
    /\ UNCHANGED <<active, records, ledger, estop, cycle, page, faults>>

-----------------------------------------------------------------------------
Engine(p) ==
    \/ HaltOnStop(p) \/ HaltOnTask(p)
    \/ \E d \in DryRuns : BeginCycle(p, d)
    \/ OrphanCheck(p) \/ Intake(p)
    \/ Advance(p) \/ ResumeProven(p) \/ Resubmit(p) \/ HaltAmbiguous(p)
    \/ ReconcileReturn(p)
    \/ FindRetry(p) \/ DetectRetryExecuted(p) \/ DetectRetryAmbiguous(p)
    \/ DetectNothingToDo(p) \/ DetectCompleted(p) \/ DetectRetryAvailable(p)
    \/ AcceptReport(p) \/ RejectReport(p)
    \/ Prepare(p) \/ WritePrepared(p) \/ WriteCheckpoint(p)
    \/ SaveRetry(p) \/ ClickRetry(p) \/ RetryButtonMissing(p) \/ RetryClickRaises(p)
    \/ PageNotReady(p) \/ ClickSend(p) \/ ClickRaises(p) \/ SaveUncertain(p)
    \/ SaveSubmitted(p) \/ MarkReturned(p)
    \/ ConfirmLoad(p) \/ WriteConfirmed(p) \/ Resave(p)
    \/ ArchiveLoad(p) \/ ArchiveWrite(p) \/ ArchiveClear(p)

Environment ==
    \/ \E c \in Commands : SupervisorPosts(c) \/ GeminiAnswers(c)
    \/ EngageStop \/ ReleaseStop

Operator ==
    \/ OperatorClearsTask \/ OperatorClearsCheckpoint
    \/ \E state \in OperatorStates : OperatorUpdatesTask(state)

Next ==
    \/ \E p \in Procs : Engine(p) \/ Interrupt(p)
    \/ Environment
    \/ Operator

Spec == Init /\ [][Next]_vars

\* run_loop, or a scheduler, keeps starting cycles and a started cycle goes
\* on; an implementer that has a command answers it and is polled until the
\* completed report is on the page.
Fairness ==
    /\ \A p \in Procs : /\ WF_vars(Engine(p))
                        /\ SF_vars(DetectCompleted(p))
                        /\ SF_vars(AcceptReport(p))
    /\ \A c \in Commands : WF_vars(GeminiAnswers(c))

LiveSpec == Spec /\ Fairness

-----------------------------------------------------------------------------
(* Properties.                                                             *)

TypeOK ==
    /\ active \in Tasks \cup {NoTask}
    /\ records \in Records
    /\ checkpoint \in BOOLEAN
    /\ ledger \subseteq Commands
    /\ estop \in BOOLEAN
    /\ pc \in [Procs -> Labels]
    /\ job \in [Procs -> Tasks \cup {NoTask}]
    /\ op \in [Procs -> Keys \cup {NoKey}]
    /\ snap \in [Procs -> Records]
    /\ entries \in [Procs -> SUBSET Commands]
    /\ report \in [Procs -> Commands \cup {NoCommand}]
    /\ dry \in [Procs -> BOOLEAN]
    /\ status \in [Procs -> Statuses]
    /\ newest \in Commands \cup {NoCommand}
    /\ clicks \in [Keys -> Nat]
    /\ answered \subseteq Commands
    /\ reported \in SUBSET (Commands \X (Commands \cup {NoCommand}))
    /\ armed \subseteq Procs
    /\ faults \in 0..MaxFaults

\* Whatever crashes, every browser operation is clicked at most once
\* (README, "Idempotent External Actions").
AtMostOnce == \A k \in Keys : clicks[k] <= 1

\* A click never precedes its durable PREPARED record, and the record is
\* never lost (SafetyOrchestrator.prepare_operation before any DOM write).
IntentOnDisk == \A k \in Keys : clicks[k] > 0 => records[k] # "NONE"

\* A task that waits for the implementer or was answered was really
\* submitted: by the click itself or by evidence reconciliation took for it.
WaitingWasSubmitted ==
    active.state \in {"WAITING_FOR_IMPLEMENTER", "IMPLEMENTER_RESPONSE_VALIDATED"}
        => clicks[SubmitKey(active.cmd)] > 0

\* A report goes back to the Supervisor only as the answer to the command it
\* was written for, and only after that command was submitted.
ReturnsAnswerTheirCommand ==
    \A r \in reported : r[1] = r[2] /\ clicks[SubmitKey(r[1])] > 0

\* The ledger holds only tasks whose report was sent back.
ArchivedWasReturned == \A c \in ledger : clicks[ReturnKey(c)] > 0

\* While the emergency stop is engaged, the only clicks that land are those
\* of operations that had passed the stop check before, one per process.
StopLetsOnlyArmedLand ==
    [][estop /\ clicks' # clicks =>
          \E p \in armed : pc[p] \in {"click", "clickRetry"} /\ armed' = armed \ {p}]_vars

\* A retry is clicked only when the outcome of the one before it is settled.
RetriesSettleInOrder ==
    \A c \in Commands : \A n \in 1..(MaxRetries - 1) :
        clicks[RetryKey(c, n + 1)] > 0 => records[RetryKey(c, n)] = "CONFIRMED"

\* A submission or a return is CONFIRMED on disk only if its click landed.
ConfirmedWasClicked ==
    \A k \in Keys \ RetryKeys : records[k] = "CONFIRMED" => clicks[k] > 0

\* MANUAL_REVIEW_REQUIRED is left only by the operator, and its task keeps
\* its command and retry count.
ManualReviewHalts ==
    [][active.state = "MANUAL_REVIEW_REQUIRED" => active' = active \/ Operator]_vars

\* A submission or return that a step after its PREPARED record ended without
\* confirming it is never left to the next cycle: between cycles its task is
\* under review, or as the operator put it back from there, unless a fault hit
\* or the ledger has an entry of its TASK_ID (submission.py:71-148, and the same
\* steps of the return).
FailedOperationIsReviewed ==
    AllIdle /\ faults = 0 =>
        \A k \in Keys \ RetryKeys :
            records[k] = "PREPARED" /\ k.cmd = active.cmd =>
                \/ active.state \in {"MANUAL_REVIEW_REQUIRED"} \cup OperatorStates
                \/ \E d \in ledger : SameTask(active.cmd, d)

\* A dry run clicks nothing and leaves task, checkpoint and ledger alone; of
\* the records it may turn one, that of a PREPARED retry, into CONFIRMED
\* (runtime.py:496, where dry_run is not asked).
DryRunTouchesNoTask ==
    [][\A p \in Procs : dry[p] /\ pc'[p] # pc[p] =>
          /\ UNCHANGED <<active, checkpoint, ledger, clicks>>
          /\ \A k \in Keys : records'[k] # records[k] =>
                /\ k \in RetryKeys
                /\ records[k] = "PREPARED" /\ records'[k] = "CONFIRMED"]_vars

\* A retry is CONFIRMED on disk only if its click landed (runtime.py:520,
\* "PREPARED retry click was independently proven executed").
ConfirmedRetryWasClicked == \A k \in RetryKeys : records[k] = "CONFIRMED" => clicks[k] > 0

\* Orphaned state is reported only for a task that is not in the ledger
\* (README, section 9).
OrphanIsUnarchived ==
    \A p \in Procs : status[p] = "ORPHANED_STATE" => Unarchived(records, ledger)

\* An accepted command is archived or ends in manual review, unless the
\* emergency stop intervenes or a fault fell into its return: of an interrupted
\* submission, recovery always finds a way out.
TaskSettlesUnlessReturnFails ==
    \A c \in Commands :
        (active.cmd = c) ~> \/ active.cmd # c
                            \/ active.state \in Halted
                            \/ estop
                            \/ faults > 0 /\ records[ReturnKey(c)] # "NONE"

\* An accepted command is archived or ends in manual review, unless the
\* emergency stop intervenes (README, "Fail Closed").
TaskSettles ==
    \A c \in Commands :
        (active.cmd = c) ~> (active.cmd # c \/ active.state \in Halted \/ estop)

Promise == INSTANCE Delivery WITH delivered <- clicks, archived <- ledger

\* Bridge implements Delivery: clicks are its deliveries, the ledger its archive.
DeliveryHolds == Promise!Spec

=============================================================================
