----------------------------- MODULE LoopProofs -----------------------------
(***************************************************************************)
(* What run_loop adds to the bridge, for every set of commands and every   *)
(* bound: a cycle clicks at most once, however many processes run; and, of *)
(* the only process on a state directory, the guard of the orchestrator    *)
(* never trips, so that a loop is nothing but cycles of Bridge.            *)
(***************************************************************************)
EXTENDS Loop, DeliveryProofs

\* A loop may run at least as many cycles as a task can have operations; with
\* limits.max_retries = 3 and limits.max_loop_iterations = 10 it may.
Roomy == MaxIterations >= MaxRetries + 2

-----------------------------------------------------------------------------
(* The inductive invariants.                                               *)

\* Labels after the click of a cycle.
Clicked == {"clickRaised", "clicked", "confirmLoad", "confirmWrite", "archiveLoad", "archiveWrite",
            "archiveClear"}

\* A cycle that has clicked is past its click.
EffectInv ==
    /\ effects \in [Procs -> {0, 1}]
    /\ \A p \in Procs : effects[p] = 1 => pc[p] \in Clicked \cup {"idle"}

\* The way of a submission that is taken up again.
Resuming == {"prepare", "writeRecord", "writeCheckpoint", "click", "clickRaised", "clicked",
             "confirmLoad", "confirmWrite"}

\* The controller is in a cycle when the engine is, and a loop that is over
\* has left nothing behind.
ShapeInv ==
    /\ LoopTypeOK
    /\ \A p \in Procs :
          /\ at[p] = "cycle" <=> pc[p] # "idle"
          /\ at[p] = "off" => guard[p] = FreshGuard /\ safety[p] = FreshGuard
          /\ resumed[p] => pc[p] \in Resuming /\ op[p].type = "GEMINI_SUBMISSION"

\* The controller will not go on after this cycle.
Leaving(p) == status[p] \in {"HALTED", "ORPHANED_STATE", "ERROR"} \/ result[p].terminal

\* The loop is in a cycle or will have another one.
Afoot(p) ==
    \/ at[p] = "ready"
    \/ pc[p] # "idle"
    \/ at[p] = "returned" /\ ~Leaving(p)

\* From the record to its confirmation.
Underway == Armed \cup {"clicked", "confirmLoad", "confirmWrite"}

\* The operations the task on disk has had.
Had(k) == IF records[k] # "NONE" THEN 1 ELSE 0
Spent == Had(SubmitKey(active.cmd)) + active.retries + Had(ReturnKey(active.cmd))

\* Recorded but not yet counted, or counted but not yet in the task.
Uncounted(p) == IF pc[p] = "writeCheckpoint" /\ op[p].type # "GEMINI_RETRY" THEN 1 ELSE 0
Unsaved(p) == IF pc[p] = "saveRetry" THEN 1 ELSE 0

\* The operations a loop has counted are operations of one task.
Counts(p) ==
    /\ Afoot(p) /\ safety[p].iterations > 0 =>
          /\ active \in Tasks /\ active.state \notin Halted
          /\ safety[p].iterations + Uncounted(p) <= Spent + Unsaved(p)
    /\ pc[p] \in Underway \ {"writeCheckpoint"} => safety[p].iterations > 0
    /\ safety[p].repeats <= 1

\* What was done last has its record, so it is not what is done next.
Past(p, signature) ==
    /\ signature # NoKey => safety[p].iterations > 0
    /\ signature \in Keys => records[signature] # "NONE"
    /\ signature = ResumedSubmission /\ Afoot(p) => records[SubmitKey(active.cmd)] # "NONE"

Fresh(p) ==
    /\ Past(p, safety[p].last) /\ safety[p].last \in Keys \cup {NoKey}
    /\ pc[p] = "writeCheckpoint" => op[p] # safety[p].last
    /\ Past(p, guard[p].last) /\ guard[p].last \in Keys \cup {NoKey, ResumedSubmission}
    /\ guard[p].repeats <= 1
    /\ pc[p] \in Underway => op[p] # guard[p].last /\ (resumed[p] => guard[p].last # ResumedSubmission)
    /\ at[p] = "returned" /\ ~Leaving(p) =>
          /\ Past(p, result[p].signature)
          /\ result[p].signature \in Keys \cup {NoKey, ResumedSubmission}
          /\ result[p].signature # NoKey => result[p].signature # guard[p].last

LoopInv == \A p \in Procs : InHand(p) /\ Counts(p) /\ Fresh(p)

-----------------------------------------------------------------------------
(* A step of a loop is a step of Bridge, or strands an operation.          *)

\* The orchestrator's guard raises: record and checkpoint are written, the
\* cycle is over.
Strands(p) ==
    /\ pc[p] = "writeCheckpoint"
    /\ checkpoint' = TRUE
    /\ EndCycle(p, "ERROR")
    /\ UNCHANGED <<active, records, ledger, estop, page, faults>>

LEMMA LoopStep ==
    ASSUME LoopNext
    PROVE  \/ \E p \in Procs : Cycle(p) /\ (Engine(p) \/ Strands(p))
           \/ \E p \in Procs : Break(p) /\ Interrupt(p)
           \/ UNCHANGED <<loop, cycle>> /\ (Environment \/ Operator)
           \/ UNCHANGED vars /\ \E p \in Procs : StartLoop(p) \/ StopAtMaxCycles(p) \/ Record(p)
  <1>1. ASSUME NEW p \in Procs, Cycle(p) PROVE Engine(p) \/ Strands(p)
    BY <1>1 DEF Cycle, RunOnce, EngineStep, CheckpointAndGuard, Strands, Engine
  <1>2. Environment \/ Operator => UNCHANGED cycle
    BY DEF Environment, Operator, SupervisorPosts, GeminiAnswers, EngageStop, ReleaseStop,
           OperatorClearsTask, OperatorClearsCheckpoint, OperatorUpdatesTask
  <1>3. ASSUME NEW p \in Procs, StartLoop(p) \/ StopAtMaxCycles(p) \/ Record(p) PROVE UNCHANGED vars
    BY <1>3 DEF StartLoop, StopAtMaxCycles, Record
  <1> QED BY <1>1, <1>2, <1>3 DEF LoopNext, Break

LEMMA StrandsType == ASSUME TypeInv, NEW p \in Procs, Strands(p) PROVE TypeInv'
  <1>1. CycleOK' /\ LocalsOK'
    BY EndCycleType, StatusFacts DEF Strands, TypeInv
  <1>2. DiskOK' /\ PageOK' /\ FaultsOK'
    BY DEF Strands, TypeInv, DiskOK, PageOK, FaultsOK, page
  <1> QED BY <1>1, <1>2 DEF TypeInv

LEMMA LoopStepType == TypeInv /\ [LoopNext]_loopVars => TypeInv'
  <1> SUFFICES ASSUME TypeInv, [LoopNext]_loopVars PROVE TypeInv'
    OBVIOUS
  <1>1. CASE [Next]_vars
    BY <1>1, StepType
  <1>2. CASE \E p \in Procs : Strands(p)
    BY <1>2, StrandsType
  <1>3. [Next]_vars \/ \E p \in Procs : Strands(p)
    BY LoopStep DEF Next, loopVars
  <1> QED BY <1>1, <1>2, <1>3

-----------------------------------------------------------------------------
(* One click per cycle, for any number of processes.                       *)

\* After a click the cycle only goes on to its end.
LEMMA ClickedGoesOn ==
    ASSUME TypeInv, NEW p \in Procs, Engine(p) \/ Strands(p), pc[p] \in Clicked \/ clicks' # clicks
    PROVE  pc'[p] \in Clicked \cup {"idle"}
  <1> USE DEF Goto, EndCycle, TypeInv, CycleOK, Clicked
  <1>1. CASE \E l \in Clicked \cup {"idle"} : pc' = [pc EXCEPT ![p] = l]
    BY <1>1
  <1>2. CASE HaltOnStop(p) \/ HaltOnTask(p) \/ (\E d \in DryRuns : BeginCycle(p, d))
               \/ OrphanCheck(p) \/ Intake(p) \/ Advance(p) \/ ResumeProven(p) \/ Resubmit(p)
               \/ HaltAmbiguous(p) \/ ReconcileReturn(p)
    BY <1>2 DEF HaltOnStop, HaltOnTask, BeginCycle, OrphanCheck, Intake, Advance, ResumeProven,
                Resubmit, HaltAmbiguous, ReconcileReturn, page
  <1>3. CASE FindRetry(p) \/ DetectRetryExecuted(p) \/ DetectRetryAmbiguous(p)
               \/ DetectNothingToDo(p) \/ DetectCompleted(p) \/ DetectRetryAvailable(p)
               \/ AcceptReport(p) \/ RejectReport(p)
    BY <1>3 DEF FindRetry, DetectRetryExecuted, DetectRetryAmbiguous, DetectNothingToDo,
                DetectCompleted, DetectRetryAvailable, AcceptReport, TakeReport, RejectReport, page
  <1>4. CASE Prepare(p) \/ WritePrepared(p) \/ WriteCheckpoint(p) \/ SaveRetry(p)
               \/ RetryButtonMissing(p) \/ PageNotReady(p) \/ SaveUncertain(p)
    BY <1>4 DEF Prepare, PrepareWhen, WritePrepared, WriteCheckpoint, SaveRetry,
                RetryButtonMissing, PageNotReady, SaveUncertain, page
  <1>5. CASE ClickRetry(p) \/ RetryClickRaises(p) \/ ClickSend(p) \/ ClickRaises(p)
    BY <1>1, <1>5 DEF ClickRetry, RetryClickRaises, ClickSend, ClickRaises
  <1>6. CASE SaveSubmitted(p) \/ MarkReturned(p) \/ ConfirmLoad(p) \/ WriteConfirmed(p)
               \/ Resave(p) \/ ArchiveLoad(p) \/ ArchiveWrite(p) \/ ArchiveClear(p)
    BY <1>1, <1>6 DEF SaveSubmitted, MarkReturned, ConfirmLoad, WriteConfirmed, Resave,
                      ArchiveLoad, ArchiveWrite, ArchiveClear, page
  <1>7. CASE Strands(p)
    BY <1>7 DEF Strands
  <1> QED BY <1>2, <1>3, <1>4, <1>5, <1>6, <1>7 DEF Engine

\* The click comes from a label that is neither the start of a cycle nor after
\* a click.
LEMMA ClickLabel ==
    ASSUME TypeInv, NEW p \in Procs, Engine(p) \/ Strands(p), clicks' # clicks
    PROVE  pc[p] \notin Clicked \cup {"idle"}
  <1>1. ~Strands(p)
    BY DEF Strands, page
  <1>2. Strikes(p)
    BY <1>1, WalksOrStrikes DEF Walks
  <1> QED BY <1>2 DEF Strikes, Clicked

LEMMA EffectStep == TypeInv /\ EffectInv /\ [LoopNext]_loopVars => EffectInv'
  <1> SUFFICES ASSUME TypeInv, EffectInv, [LoopNext]_loopVars PROVE EffectInv'
    OBVIOUS
  <1>1. ASSUME NEW p \in Procs, Cycle(p), Engine(p) \/ Strands(p) PROVE EffectInv'
    <2>1. effects' = [effects EXCEPT ![p] = (IF pc[p] = "idle" THEN 0 ELSE @)
                                            + (IF clicks' # clicks THEN 1 ELSE 0)]
      BY <1>1 DEF Cycle, RunOnce
    <2> DEFINE e == (IF pc[p] = "idle" THEN 0 ELSE effects[p]) + (IF clicks' # clicks THEN 1 ELSE 0)
    <2>2. /\ clicks' # clicks => pc[p] \notin Clicked \cup {"idle"}
          /\ pc[p] \in Clicked \/ clicks' # clicks => pc'[p] \in Clicked \cup {"idle"}
      BY <1>1, ClickLabel, ClickedGoesOn
    <2>3. effects[p] \in {0, 1} /\ (effects[p] = 1 => pc[p] \in Clicked \cup {"idle"})
      BY DEF EffectInv
    <2>4. e \in {0, 1} /\ (e = 1 => pc'[p] \in Clicked \cup {"idle"})
      BY <2>2, <2>3
    <2>5. \A q \in Procs \ {p} : pc'[q] = pc[q]
      BY <1>1, StepOthers DEF OthersWait, Strands, EndCycle, TypeInv, CycleOK
    <2>6. effects' = [effects EXCEPT ![p] = e]
      BY <2>1 DEF EffectInv
    <2> HIDE DEF e
    <2> QED BY <2>4, <2>5, <2>6 DEF EffectInv
  <1>2. ASSUME NEW p \in Procs, Break(p), Interrupt(p) PROVE EffectInv'
    BY <1>2 DEF Break, Interrupt, EndCycle, EffectInv, TypeInv, CycleOK
  <1>3. CASE UNCHANGED <<pc, effects>>
    BY <1>3 DEF EffectInv
  <1>4. CASE UNCHANGED loopVars \/ UNCHANGED <<loop, cycle>>
    BY <1>3, <1>4 DEF loopVars, loop, vars, cycle
  <1>5. ASSUME NEW p \in Procs, StartLoop(p) \/ StopAtMaxCycles(p) \/ Record(p) PROVE EffectInv'
    BY <1>3, <1>5 DEF StartLoop, StopAtMaxCycles, Record, vars, cycle
  <1> QED BY <1>1, <1>2, <1>4, <1>5, LoopStep

\* However many loops run on a state directory, a cycle of one of them clicks
\* at most once.
THEOREM CyclesClickOnce == LoopSpec => []OneEffectPerCycle
  <1>1. LoopInit => TypeInv /\ EffectInv
    BY InitType DEF LoopInit, EffectInv, Init
  <1>2. EffectInv => OneEffectPerCycle
    BY DEF EffectInv, OneEffectPerCycle
  <1> QED BY <1>1, <1>2, LoopStepType, EffectStep, PTL DEF LoopSpec

-----------------------------------------------------------------------------
(* The contract of a loop during a cycle.                                  *)

\* The ways to the labels between record and confirmation.
UnderwayOK(p) ==
    /\ pc'[p] = "writeCheckpoint" => WritePrepared(p)
    /\ pc'[p] = "saveRetry" => WriteCheckpoint(p)
    /\ pc'[p] \in Underway \ {"writeCheckpoint"} => pc[p] \in Underway /\ op'[p] = op[p]

LEMMA UnderwayStep == ASSUME TypeInv, NEW p \in Procs, Engine(p) PROVE UnderwayOK(p)
  <1> USE DEF Goto, EndCycle, TypeInv, CycleOK, Underway, Armed
  <1>1. CASE pc'[p] \notin Underway
    BY <1>1 DEF UnderwayOK
  <1>2. CASE HaltOnStop(p) \/ HaltOnTask(p) \/ OrphanCheck(p) \/ Intake(p) \/ Advance(p)
               \/ ResumeProven(p) \/ Resubmit(p) \/ HaltAmbiguous(p) \/ ReconcileReturn(p)
    BY <1>1, <1>2 DEF HaltOnStop, HaltOnTask, OrphanCheck, Intake, Advance, ResumeProven, Resubmit,
                      HaltAmbiguous, ReconcileReturn
  <1>3. CASE FindRetry(p) \/ DetectRetryExecuted(p) \/ DetectRetryAmbiguous(p)
               \/ DetectNothingToDo(p) \/ DetectCompleted(p) \/ DetectRetryAvailable(p)
               \/ AcceptReport(p) \/ RejectReport(p)
    BY <1>1, <1>3 DEF FindRetry, DetectRetryExecuted, DetectRetryAmbiguous, DetectNothingToDo,
                      DetectCompleted, DetectRetryAvailable, AcceptReport, TakeReport, RejectReport
  <1>4. CASE \E d \in DryRuns : BeginCycle(p, d)
    <2>1. PICK d \in DryRuns : BeginCycle(p, d)
      BY <1>4
    <2>2. EntryLabel(active.state) \notin Underway
      BY <2>1, EntryLabels DEF BeginCycle, DiskOK
    <2> QED BY <1>1, <2>1, <2>2 DEF BeginCycle
  <1>5. CASE Prepare(p) \/ WritePrepared(p) \/ WriteCheckpoint(p) \/ SaveRetry(p)
    BY <1>5 DEF Prepare, PrepareWhen, WritePrepared, WriteCheckpoint, SaveRetry, UnderwayOK
  <1>6. CASE ClickRetry(p) \/ RetryButtonMissing(p) \/ RetryClickRaises(p) \/ PageNotReady(p)
                \/ ClickSend(p) \/ ClickRaises(p) \/ SaveUncertain(p) \/ SaveSubmitted(p)
                \/ MarkReturned(p)
    BY <1>6 DEF ClickRetry, RetryButtonMissing, RetryClickRaises, PageNotReady, ClickSend,
                ClickRaises, SaveUncertain, SaveSubmitted, MarkReturned, UnderwayOK
  <1>7. CASE ConfirmLoad(p) \/ WriteConfirmed(p) \/ Resave(p) \/ ArchiveLoad(p)
                \/ ArchiveWrite(p) \/ ArchiveClear(p)
    BY <1>7 DEF ConfirmLoad, WriteConfirmed, Resave, ArchiveLoad, ArchiveWrite, ArchiveClear,
                UnderwayOK
  <1> QED BY <1>2, <1>3, <1>4, <1>5, <1>6, <1>7 DEF Engine

\* A submission that is taken up again goes to its end.
LEMMA ResumedStep ==
    ASSUME TypeInv, NEW p \in Procs, Engine(p), pc'[p] # "idle",
           pc[p] = "reconcile" \/ (pc[p] \in Resuming /\ op[p].type = "GEMINI_SUBMISSION")
    PROVE  pc'[p] \in Resuming /\ op'[p].type = "GEMINI_SUBMISSION"
  <1> USE DEF Goto, EndCycle, TypeInv, CycleOK, Resuming
  <1>1. CASE HaltOnStop(p) \/ HaltOnTask(p) \/ (\E d \in DryRuns : BeginCycle(p, d))
               \/ OrphanCheck(p) \/ Intake(p) \/ Advance(p) \/ ResumeProven(p) \/ HaltAmbiguous(p)
               \/ ReconcileReturn(p)
    BY <1>1 DEF HaltOnStop, HaltOnTask, BeginCycle, OrphanCheck, Intake, Advance, ResumeProven,
                HaltAmbiguous, ReconcileReturn
  <1>2. CASE Resubmit(p)
    BY <1>2 DEF Resubmit, SubmitKey
  <1>3. CASE FindRetry(p) \/ DetectRetryExecuted(p) \/ DetectRetryAmbiguous(p)
               \/ DetectNothingToDo(p) \/ DetectCompleted(p) \/ DetectRetryAvailable(p)
               \/ AcceptReport(p) \/ RejectReport(p)
    BY <1>3 DEF FindRetry, DetectRetryExecuted, DetectRetryAmbiguous, DetectNothingToDo,
                DetectCompleted, DetectRetryAvailable, AcceptReport, TakeReport, RejectReport
  <1>4. CASE Prepare(p) \/ WritePrepared(p) \/ WriteCheckpoint(p) \/ SaveRetry(p)
    BY <1>4 DEF Prepare, PrepareWhen, WritePrepared, WriteCheckpoint, SaveRetry
  <1>5. CASE ClickRetry(p) \/ RetryButtonMissing(p) \/ RetryClickRaises(p) \/ PageNotReady(p)
                \/ ClickSend(p) \/ ClickRaises(p) \/ SaveUncertain(p) \/ SaveSubmitted(p)
                \/ MarkReturned(p)
    BY <1>5 DEF ClickRetry, RetryButtonMissing, RetryClickRaises, PageNotReady, ClickSend,
                ClickRaises, SaveUncertain, SaveSubmitted, MarkReturned
  <1>6. CASE ConfirmLoad(p) \/ WriteConfirmed(p) \/ Resave(p) \/ ArchiveLoad(p)
                \/ ArchiveWrite(p) \/ ArchiveClear(p)
    BY <1>6 DEF ConfirmLoad, WriteConfirmed, Resave, ArchiveLoad, ArchiveWrite, ArchiveClear
  <1> QED BY <1>1, <1>2, <1>3, <1>4, <1>5, <1>6 DEF Engine

\* A cycle that ends well leaves its task fit to go on.
LEMMA SuccessStep ==
    ASSUME TypeInv, HaltInv, NEW p \in Procs, TaskHeld(p), Engine(p), pc'[p] = "idle",
           status'[p] \notin {"HALTED", "ORPHANED_STATE", "ERROR"}
    PROVE  active'.state \notin Halted
  <1> USE DEF Goto, EndCycle, TypeInv, CycleOK
  <1>1. /\ pc[p] # "idle" => active.state \notin Halted /\ job[p].state \notin Halted
        /\ pc[p] \in TaskLabels => job[p] \in Tasks
    BY DEF HaltInv, LocalsOK
  <1>2. CASE HaltOnStop(p) \/ HaltOnTask(p) \/ (\E d \in DryRuns : BeginCycle(p, d))
               \/ OrphanCheck(p)
    BY <1>2 DEF HaltOnStop, HaltOnTask, BeginCycle, OrphanCheck, disk
  <1>3. CASE Intake(p) \/ Resubmit(p) \/ HaltAmbiguous(p) \/ ReconcileReturn(p) \/ Advance(p)
    BY <1>1, <1>3 DEF Intake, Resubmit, HaltAmbiguous, ReconcileReturn, Advance, disk
  <1>4. CASE ResumeProven(p)
    <2>1. job[p] \in Tasks
      BY <1>1, <1>4, LabelFacts DEF ResumeProven
    <2>2. MovedTo(p, "WAITING_FOR_IMPLEMENTER").state = "WAITING_FOR_IMPLEMENTER"
      BY <2>1 DEF MovedTo, Tasks
    <2> QED BY <1>1, <1>4, <2>2, UnhaltedStates DEF ResumeProven, Save
  <1>5. CASE FindRetry(p) \/ DetectRetryExecuted(p) \/ DetectRetryAmbiguous(p)
               \/ DetectNothingToDo(p) \/ DetectCompleted(p) \/ DetectRetryAvailable(p)
               \/ RejectReport(p)
    BY <1>1, <1>5 DEF FindRetry, DetectRetryExecuted, DetectRetryAmbiguous, DetectNothingToDo,
                      DetectCompleted, DetectRetryAvailable, RejectReport, disk
  <1>6. CASE AcceptReport(p)
    BY <1>1, <1>6 DEF AcceptReport, TakeReport, Save
  <1>7. CASE Prepare(p) \/ WritePrepared(p) \/ WriteCheckpoint(p) \/ SaveRetry(p)
    BY <1>1, <1>7 DEF Prepare, PrepareWhen, WritePrepared, WriteCheckpoint, SaveRetry, disk
  <1>8. CASE ClickRetry(p) \/ RetryButtonMissing(p) \/ RetryClickRaises(p) \/ PageNotReady(p)
                \/ ClickSend(p) \/ ClickRaises(p) \/ SaveUncertain(p) \/ SaveSubmitted(p)
                \/ MarkReturned(p)
    BY <1>1, <1>8 DEF ClickRetry, RetryButtonMissing, RetryClickRaises, PageNotReady, ClickSend,
                ClickRaises, SaveUncertain, SaveSubmitted, MarkReturned, disk
  <1>9. CASE ConfirmLoad(p) \/ WriteConfirmed(p) \/ Resave(p) \/ ArchiveLoad(p) \/ ArchiveWrite(p)
    BY <1>1, <1>9 DEF ConfirmLoad, WriteConfirmed, Resave, ArchiveLoad, ArchiveWrite, Save, disk
  <1>10. CASE ArchiveClear(p)
    BY <1>10, NoTaskFacts, UnhaltedStates DEF ArchiveClear
  <1> QED BY <1>2, <1>3, <1>4, <1>5, <1>6, <1>7, <1>8, <1>9, <1>10 DEF Engine

-----------------------------------------------------------------------------
(* The guard of the orchestrator, for a single process.                    *)

\* What is known of Bridge under a loop.
BridgeInv == TypeInv /\ IntentInv /\ AnswerInv /\ EvidenceInv /\ HaltInv

\* A task has had at most its submission, its retries and its return, and it
\* never has fewer of them than before.
LEMMA SpentForm ==
    ASSUME TypeInv, active \in Tasks
    PROVE  \E a, b \in {0, 1} : Spent = a + active.retries + b /\ active.retries \in 0..MaxRetries
  BY DEF Spent, Had, Tasks

LEMMA SpentGrows ==
    ASSUME TypeInv, TypeInv', RecordsAdvance, active \in Tasks, active' \in Tasks,
           active'.cmd = active.cmd
    PROVE  \E a, b, c, d \in {0, 1} : /\ Spent = a + active.retries + b
                                      /\ Spent' = c + active'.retries + d
                                      /\ a <= c /\ b <= d
  <1> DEFINE s == SubmitKey(active.cmd)
             r == ReturnKey(active.cmd)
  <1>1. s \in Keys /\ r \in Keys
    BY KeyFacts DEF Tasks
  <1>2. /\ records[s] # "NONE" => records'[s] # "NONE"
        /\ records[r] # "NONE" => records'[r] # "NONE"
    BY <1>1 DEF RecordsAdvance
  <1>3. PICK a, b, c, d \in {0, 1} :
           /\ a = IF records[s] # "NONE" THEN 1 ELSE 0
           /\ b = IF records[r] # "NONE" THEN 1 ELSE 0
           /\ c = IF records'[s] # "NONE" THEN 1 ELSE 0
           /\ d = IF records'[r] # "NONE" THEN 1 ELSE 0
    OBVIOUS
  <1>4. a <= c /\ b <= d
    BY <1>2, <1>3
  <1>5. Spent = a + active.retries + b
    BY <1>3 DEF Spent, Had
  <1>6. Spent' = c + active'.retries + d
    BY <1>3 DEF Spent, Had
  <1> QED BY <1>4, <1>5, <1>6

\* A key that is no retry's is the submission or the return of its command.
LEMMA PlainForm ==
    ASSUME NEW k \in Keys, k.type # "GEMINI_RETRY"
    PROVE  k = SubmitKey(k.cmd) \/ k = ReturnKey(k.cmd)
  BY DEF Keys, RetryKeys, SubmitKey, ReturnKey, RetryKey

\* There is room for the operation that is being prepared.
LEMMA Room ==
    ASSUME Roomy, BridgeInv, LoopTypeOK, NEW p \in Procs, InHand(p), Counts(p), Fresh(p),
           pc[p] = "writeCheckpoint"
    PROVE  /\ safety[p].iterations < MaxIterations
           /\ Recorded(safety[p], op[p])
                = [iterations |-> safety[p].iterations + 1, last |-> op[p], repeats |-> 1]
  <1> DEFINE n == safety[p].iterations
  <1>1. n \in 0..MaxIterations /\ MaxIterations \in Nat \ {0}
    BY LoopAssumption DEF LoopTypeOK
  <1>2. /\ active \in Tasks /\ op[p] \in Keys
        /\ op[p].type = "GEMINI_RETRY" => op[p].attempt = active.retries + 1
    BY LabelFacts DEF BridgeInv, TypeInv, LocalsOK, OpLabels, InHand, TaskHeld, RetryHeld, Preparing
  <1>3. op[p].type = "GEMINI_RETRY" => op[p].attempt \in 1..MaxRetries
    BY <1>2, RetryForm
  <1>4. PICK a, b \in {0, 1} : Spent = a + active.retries + b /\ active.retries \in 0..MaxRetries
    BY <1>2, SpentForm DEF BridgeInv
  <1>5. n > 0 => n + Uncounted(p) <= Spent + Unsaved(p)
    BY DEF Counts, Afoot
  <1>6. n < MaxIterations
    <2>1. CASE n = 0
      BY <1>1, <2>1
    <2>2. CASE n > 0 /\ op[p].type = "GEMINI_RETRY"
      <3>1. Uncounted(p) = 0 /\ Unsaved(p) = 0
        BY <2>2 DEF Uncounted, Unsaved
      <3>2. n <= a + active.retries + b
        BY <1>1, <1>4, <1>5, <2>2, <3>1
      <3>3. active.retries + 1 <= MaxRetries
        BY <1>2, <1>3, <1>4, <2>2
      <3> HIDE DEF n
      <3> QED BY <1>1, <1>4, <3>2, <3>3, CommandAssumption DEF Roomy
    <2>3. CASE n > 0 /\ op[p].type # "GEMINI_RETRY"
      <3>1. Uncounted(p) = 1 /\ Unsaved(p) = 0
        BY <2>3 DEF Uncounted, Unsaved
      <3>2. n + 1 <= a + active.retries + b
        BY <1>1, <1>4, <1>5, <2>3, <3>1
      <3> HIDE DEF n
      <3> QED BY <1>1, <1>4, <3>2, CommandAssumption DEF Roomy
    <2> QED BY <1>1, <2>1, <2>2, <2>3
  <1>7. op[p] # NoKey /\ op[p] # safety[p].last
    BY <1>2, KeyFacts DEF Fresh
  <1> QED BY <1>6, <1>7 DEF Recorded

\* So the guard never raises, and counts one operation per checkpoint.
LEMMA GuardCounts ==
    ASSUME Roomy, BridgeInv, LoopTypeOK, NEW p \in Procs, InHand(p), Counts(p), Fresh(p), Cycle(p)
    PROVE  /\ Engine(p)
           /\ pc[p] # "writeCheckpoint" => safety' = safety
           /\ pc[p] = "writeCheckpoint" =>
                 /\ safety' = [safety EXCEPT ![p] = [iterations |-> safety[p].iterations + 1,
                                                     last |-> op[p], repeats |-> 1]]
                 /\ safety[p].iterations < MaxIterations
                 /\ WriteCheckpoint(p)
  <1>1. CASE pc[p] # "writeCheckpoint"
    BY <1>1 DEF Cycle, RunOnce, EngineStep, CheckpointAndGuard
  <1>2. CASE pc[p] = "writeCheckpoint"
    <2> DEFINE g == [iterations |-> safety[p].iterations + 1, last |-> op[p], repeats |-> 1]
    <2>1. CheckpointAndGuard(p)
      BY <1>2 DEF Cycle, RunOnce, EngineStep
    <2>2. safety[p].iterations < MaxIterations /\ Recorded(safety[p], op[p]) = g
      BY <1>2, Room
    <2>3. /\ safety[p].iterations \in Nat /\ MaxIterations \in Nat
          /\ safety = [q \in Procs |-> safety[q]]
      BY LoopAssumption DEF LoopTypeOK
    <2>4. safety' = [safety EXCEPT ![p] = g] /\ safety'[p] = g
      BY <2>1, <2>2, <2>3 DEF CheckpointAndGuard
    <2>5. ~Tripped(g)
      BY <2>2, <2>3 DEF Tripped
    <2> HIDE DEF g
    <2>6. WriteCheckpoint(p)
      BY <2>1, <2>4, <2>5 DEF CheckpointAndGuard
    <2> QED BY <1>2, <2>2, <2>4, <2>6 DEF Engine, g
  <1> QED BY <1>1, <1>2

-----------------------------------------------------------------------------
(* A step of a cycle.                                                      *)

\* What a step of a cycle has to work with, and what it is known to keep.
Stepping(p) ==
    /\ Roomy /\ BridgeInv /\ ShapeInv /\ LoopInv
    /\ Cycle(p) /\ BridgeInv' /\ EffectInv'

\* Where the loop is during a step of a cycle, before and after it.
LEMMA CycleShape ==
    ASSUME NEW p \in Procs, Stepping(p)
    PROVE  /\ Afoot(p)
           /\ at'[p] = IF pc'[p] = "idle" THEN "returned" ELSE "cycle"
           /\ guard'[p] = guard[p]
           /\ resumed'[p] = (pc'[p] # "idle" /\ (resumed[p] \/ pc[p] = "reconcile"))
           /\ pc'[p] = "idle" => result'[p].signature = Signature(p)
           /\ pc'[p] = "idle" /\ Terminal(p) => result'[p].terminal
  BY DEF Stepping, Cycle, RunOnce, Afoot, ShapeInv, LoopTypeOK

LEMMA CycleTask ==
    ASSUME NEW p \in Procs, Stepping(p)
    PROVE  /\ InHand(p)' /\ Follows(p) /\ UnderwayOK(p) /\ RecordsAdvance
           /\ Afoot(p)' /\ safety[p].iterations > 0 =>
                 /\ active \in Tasks /\ active' \in Tasks /\ active'.state \notin Halted
                 /\ active'.cmd = active.cmd
                 /\ active'.retries = IF pc[p] = "saveRetry" THEN op[p].attempt ELSE active.retries
  <1>1. InHand(p) /\ Counts(p) /\ Fresh(p) /\ LoopTypeOK /\ TypeInv /\ HaltInv /\ IntentInv
    BY DEF Stepping, LoopInv, ShapeInv, BridgeInv
  <1>2. Engine(p)
    BY <1>1, GuardCounts DEF Stepping
  <1>3. Follows(p) /\ TaskHeld(p)' /\ RetryHeld(p)' /\ UnderwayOK(p) /\ RecordsAdvance
    BY <1>1, <1>2, HandStep, RetryHeldStep, UnderwayStep, StepRecords DEF InHand
  <1>4. ASSUME Afoot(p)', safety[p].iterations > 0
        PROVE  /\ active \in Tasks /\ active' \in Tasks /\ active'.state \notin Halted
               /\ active'.cmd = active.cmd
               /\ active'.retries = IF pc[p] = "saveRetry" THEN op[p].attempt ELSE active.retries
    <2>1. active \in Tasks
      BY <1>1, <1>4, CycleShape DEF Counts
    <2>2. pc[p] \notin {"orphanCheck", "intake"}
      BY <1>1, <2>1, NoTaskFacts DEF InHand, TaskHeld
    <2>3. pc'[p] = "idle" => status'[p] \notin {"HALTED", "ORPHANED_STATE", "ERROR"} /\ ~result'[p].terminal
      BY <1>4, CycleShape DEF Afoot, Leaving
    <2>4. pc[p] # "archiveClear"
      <3> SUFFICES ASSUME pc[p] = "archiveClear" PROVE FALSE
        OBVIOUS
      <3>1. EndCycle(p, "SUCCESS")
        BY <1>2 DEF Engine, HaltOnStop, HaltOnTask, BeginCycle, OrphanCheck, Intake, Advance,
              ResumeProven, Resubmit, HaltAmbiguous, ReconcileReturn, FindRetry, DetectRetryExecuted,
              DetectRetryAmbiguous, DetectNothingToDo, DetectCompleted, DetectRetryAvailable,
              AcceptReport, RejectReport, Prepare, PrepareWhen, WritePrepared, WriteCheckpoint,
              SaveRetry, ClickRetry, RetryButtonMissing, RetryClickRaises, PageNotReady, ClickSend,
              ClickRaises, SaveUncertain, SaveSubmitted, MarkReturned, ConfirmLoad, WriteConfirmed,
              Resave, ArchiveLoad, ArchiveWrite, ArchiveClear
      <3>2. pc'[p] = "idle" /\ status'[p] = "SUCCESS"
        BY <1>1, <3>1 DEF EndCycle, TypeInv, CycleOK
      <3> QED BY <2>3, <3>2, CycleShape DEF Terminal
    <2>5. active'.state \notin Halted
      <3>1. CASE pc'[p] = "idle"
        BY <1>1, <1>2, <2>3, <3>1, SuccessStep DEF InHand
      <3>2. CASE pc'[p] # "idle"
        BY <3>2 DEF Stepping, BridgeInv, HaltInv
      <3> QED BY <3>1, <3>2
    <2>6. pc[p] = "idle" \/ pc[p] \in TaskLabels
      BY <1>1, <2>2 DEF TypeInv, CycleOK, TaskLabels
    <2> QED BY <1>3, <2>1, <2>2, <2>4, <2>5, <2>6 DEF Follows, TaskLabels
  <1> QED BY <1>3, <1>4 DEF InHand

\* Counting: an operation is counted only after it was recorded.
LEMMA CycleCounts == ASSUME NEW p \in Procs, Stepping(p) PROVE Counts(p)'
  <1> DEFINE n == safety[p].iterations
             m == safety'[p].iterations
  <1>0. /\ InHand(p) /\ Counts(p) /\ Fresh(p) /\ LoopTypeOK /\ TypeInv /\ TypeInv' /\ IntentInv
        /\ EvidenceInv /\ n \in Nat
    BY DEF Stepping, LoopInv, ShapeInv, BridgeInv, LoopTypeOK
  <1>1. /\ pc[p] # "writeCheckpoint" => safety'[p] = safety[p]
        /\ pc[p] = "writeCheckpoint" => m = n + 1 /\ safety'[p].repeats = 1 /\ WriteCheckpoint(p)
    BY <1>0, GuardCounts DEF Stepping, LoopTypeOK
  <1>2. Afoot(p) /\ UnderwayOK(p) /\ RecordsAdvance /\ InHand(p)'
    BY CycleShape, CycleTask
  <1>3. safety'[p].repeats <= 1
    BY <1>0, <1>1 DEF Counts
  <1>4. pc'[p] \in Underway \ {"writeCheckpoint"} => m > 0
    BY <1>0, <1>1, <1>2 DEF UnderwayOK, Counts, Underway, Armed
  <1>5. ASSUME Afoot(p)', m > 0
        PROVE  /\ active' \in Tasks /\ active'.state \notin Halted
               /\ m + Uncounted(p)' <= Spent' + Unsaved(p)'
    <2>1. CASE pc[p] = "writeCheckpoint"
      <3>1. /\ active' = active /\ records' = records /\ op'[p] = op[p]
            /\ pc'[p] = IF op[p].type = "GEMINI_RETRY" THEN "saveRetry" ELSE "click"
        BY <1>0, <1>1, <2>1 DEF WriteCheckpoint, Goto, TypeInv, CycleOK
      <3>2. /\ active \in Tasks /\ op[p] \in Keys /\ op[p].cmd = active.cmd
            /\ records[op[p]] = "PREPARED"
        BY <1>0, <2>1, LabelFacts, KeyFacts
           DEF TypeInv, LocalsOK, OpLabels, InHand, TaskHeld, EvidenceInv, StageOK,
               IntentInv, IntentArmed, Armed
      <3>3. active.state \notin Halted
        BY <2>1 DEF Stepping, BridgeInv, HaltInv
      <3>4. PICK a, b \in {0, 1} : Spent = a + active.retries + b /\ active.retries \in 0..MaxRetries
        BY <1>0, <3>2, SpentForm
      <3>5. Spent' = Spent
        BY <3>1 DEF Spent, Had
      <3>6. CASE op[p].type = "GEMINI_RETRY"
        <4>1. Uncounted(p) = 0 /\ Unsaved(p) = 0 /\ Uncounted(p)' = 0 /\ Unsaved(p)' = 1
          BY <2>1, <3>1, <3>6 DEF Uncounted, Unsaved
        <4>2. n > 0 => n <= Spent
          BY <1>0, <1>2, <3>4, <4>1 DEF Counts
        <4> QED BY <1>0, <1>1, <2>1, <3>1, <3>2, <3>3, <3>4, <3>5, <4>1, <4>2, CommandAssumption
      <3>7. CASE op[p].type # "GEMINI_RETRY"
        <4>1. Uncounted(p) = 1 /\ Unsaved(p) = 0 /\ Uncounted(p)' = 0 /\ Unsaved(p)' = 0
          BY <2>1, <3>1, <3>7 DEF Uncounted, Unsaved
        <4>2. n > 0 => n + 1 <= Spent
          BY <1>0, <1>2, <3>4, <4>1 DEF Counts
        <4>3. op[p] = SubmitKey(active.cmd) \/ op[p] = ReturnKey(active.cmd)
          BY <3>2, <3>7, PlainForm
        <4>4. Had(SubmitKey(active.cmd)) = 1 \/ Had(ReturnKey(active.cmd)) = 1
          BY <3>2, <4>3 DEF Had
        <4>5. Spent >= 1
          BY <3>4, <4>4, CommandAssumption DEF Spent, Had
        <4> QED BY <1>0, <1>1, <2>1, <3>1, <3>2, <3>3, <3>4, <3>5, <4>1, <4>2, <4>5, CommandAssumption
      <3> QED BY <3>6, <3>7
    <2>2. CASE pc[p] # "writeCheckpoint"
      <3>1. m = n /\ n > 0 /\ safety[p].iterations > 0
        BY <1>1, <1>5, <2>2
      <3>2. /\ active \in Tasks /\ active' \in Tasks /\ active'.state \notin Halted
            /\ active'.cmd = active.cmd
            /\ active'.retries = IF pc[p] = "saveRetry" THEN op[p].attempt ELSE active.retries
        BY <1>5, <3>1, CycleTask
      <3>3. PICK a, b, c, d \in {0, 1} : /\ Spent = a + active.retries + b
                                         /\ Spent' = c + active'.retries + d
                                         /\ a <= c /\ b <= d
        BY <1>0, <1>2, <3>2, SpentGrows
      <3>4. active.retries \in Nat /\ active'.retries \in Nat /\ Uncounted(p) = 0
        BY <2>2, <3>2, CommandAssumption DEF Tasks, Uncounted
      <3>5. Unsaved(p)' = 0
        BY <1>2, <2>2 DEF Unsaved, UnderwayOK, WriteCheckpoint
      <3>6. n <= Spent + Unsaved(p)
        BY <1>0, <1>2, <3>1, <3>3, <3>4 DEF Counts, Unsaved
      <3>7. CASE pc[p] = "saveRetry"
        <4>1. op[p].attempt = active.retries + 1
          BY <1>0, <3>7, LabelFacts
             DEF InHand, TaskHeld, RetryHeld, Preparing, EvidenceInv, StageOK, OpLabels
        <4>2. Uncounted(p)' = 0
          BY <1>2, <3>7 DEF Uncounted, UnderwayOK, WritePrepared
        <4>3. Unsaved(p) = 1
          BY <3>7 DEF Unsaved
        <4> HIDE DEF n, m
        <4> QED BY <1>0, <3>1, <3>2, <3>3, <3>4, <3>5, <3>6, <3>7, <4>1, <4>2, <4>3
      <3>8. CASE pc[p] # "saveRetry" /\ Uncounted(p)' = 0
        <4>1. Unsaved(p) = 0
          BY <3>8 DEF Unsaved
        <4> HIDE DEF n, m
        <4> QED BY <1>0, <3>1, <3>2, <3>3, <3>4, <3>5, <3>6, <3>8, <4>1
      <3>9. CASE Uncounted(p)' # 0
        <4>1. /\ Uncounted(p)' = 1 /\ pc[p] = "writeRecord"
              /\ WritePrepared(p) /\ op'[p].type # "GEMINI_RETRY"
          BY <1>2, <3>9 DEF Uncounted, UnderwayOK, WritePrepared
        <4>2. /\ op[p] \in Keys /\ op'[p] = op[p] /\ op[p].cmd = active.cmd
              /\ records[op[p]] = "NONE" /\ records'[op[p]] = "PREPARED"
          BY <1>0, <4>1, LabelFacts, KeyFacts
             DEF WritePrepared, TypeInv, DiskOK, Records, LocalsOK, OpLabels, InHand, TaskHeld,
                 EvidenceInv, StageOK, IntentInv, IntentFresh
        <4>3. op[p] = SubmitKey(active.cmd) \/ op[p] = ReturnKey(active.cmd)
          BY <4>1, <4>2, PlainForm
        <4>4. Unsaved(p) = 0 /\ active'.retries = active.retries
          BY <3>2, <4>1 DEF Unsaved
        <4>5. Spent + 1 <= Spent'
          <5> DEFINE s == SubmitKey(active.cmd)
                     r == ReturnKey(active.cmd)
          <5>1. s # r /\ s \in Keys /\ r \in Keys
            BY <3>2, KeyFacts DEF SubmitKey, ReturnKey, Tasks
          <5>2. /\ records[s] # "NONE" => records'[s] # "NONE"
                /\ records[r] # "NONE" => records'[r] # "NONE"
            BY <1>2, <5>1 DEF RecordsAdvance
          <5>3. /\ Spent = (IF records[s] # "NONE" THEN 1 ELSE 0) + active.retries
                           + (IF records[r] # "NONE" THEN 1 ELSE 0)
                /\ Spent' = (IF records'[s] # "NONE" THEN 1 ELSE 0) + active.retries
                            + (IF records'[r] # "NONE" THEN 1 ELSE 0)
            BY <3>2, <4>4 DEF Spent, Had
          <5> HIDE DEF s, r
          <5> QED BY <3>4, <4>2, <4>3, <5>2, <5>3 DEF s, r
        <4> HIDE DEF n, m
        <4> QED BY <1>0, <3>1, <3>2, <3>3, <3>4, <3>5, <3>6, <4>1, <4>4, <4>5
      <3> QED BY <3>7, <3>8, <3>9
    <2> QED BY <2>1, <2>2
  <1> QED BY <1>3, <1>4, <1>5 DEF Counts

\* What has its record keeps it, and the submission of the task in hand too.
PastNext(p, signature) ==
    /\ signature # NoKey => safety'[p].iterations > 0
    /\ signature \in Keys => records'[signature] # "NONE"
    /\ signature = ResumedSubmission /\ Afoot(p)' => records'[SubmitKey(active'.cmd)] # "NONE"

LEMMA SignatureFacts ==
    /\ ResumedSubmission \notin Keys \cup {NoKey}
    /\ ReportReturned \notin Keys \cup {NoKey}
  <1>1. ResumedSubmission.cmd = NoCommand /\ ReportReturned.cmd = NoCommand
    BY DEF ResumedSubmission, ReportReturned, NoKey
  <1>2. ResumedSubmission # NoKey /\ ReportReturned # NoKey
    BY DEF ResumedSubmission, ReportReturned, NoKey
  <1> QED BY <1>1, <1>2, KeyFacts, CommandAssumption

LEMMA PastKept ==
    ASSUME NEW p \in Procs, Stepping(p), NEW signature, Past(p, signature)
    PROVE  PastNext(p, signature)
  <1>0. /\ InHand(p) /\ Counts(p) /\ Fresh(p) /\ LoopTypeOK /\ safety[p].iterations \in Nat
    BY DEF Stepping, LoopInv, ShapeInv, LoopTypeOK
  <1>1. Afoot(p) /\ RecordsAdvance
    BY CycleShape, CycleTask
  <1>2. safety[p].iterations > 0 => safety'[p].iterations > 0
    BY <1>0, GuardCounts DEF Stepping, ShapeInv, LoopTypeOK
  <1>3. signature \in Keys => records'[signature] # "NONE"
    BY <1>1 DEF Past, RecordsAdvance
  <1>4. ASSUME signature = ResumedSubmission, Afoot(p)'
        PROVE  records'[SubmitKey(active'.cmd)] # "NONE"
    <2>1. safety[p].iterations > 0 /\ records[SubmitKey(active.cmd)] # "NONE"
      BY <1>1, <1>4, SignatureFacts DEF Past
    <2>2. active \in Tasks /\ active'.cmd = active.cmd
      BY <1>4, <2>1, CycleTask
    <2>3. SubmitKey(active.cmd) \in Keys
      BY <2>2, KeyFacts DEF Tasks
    <2> QED BY <1>1, <2>1, <2>2, <2>3 DEF RecordsAdvance
  <1> QED BY <1>2, <1>3, <1>4 DEF Past, PastNext

\* A contract that is new to the records is new to the guards.
LEMMA NewIsFresh ==
    ASSUME NEW p \in Procs, Stepping(p), pc[p] = "writeRecord", NEW signature, Past(p, signature)
    PROVE  op[p] # signature /\ (resumed[p] => signature # ResumedSubmission)
  <1>1. op[p] \in Keys /\ records[op[p]] = "NONE" /\ op[p].cmd = active.cmd
    BY LabelFacts, KeyFacts
       DEF Stepping, BridgeInv, TypeInv, LocalsOK, OpLabels, LoopInv, InHand, TaskHeld,
           EvidenceInv, StageOK, IntentInv, IntentFresh
  <1>2. resumed[p] => op[p].type = "GEMINI_SUBMISSION"
    BY DEF Stepping, ShapeInv
  <1>3. resumed[p] => op[p] = SubmitKey(active.cmd)
    <2>1. SubmitKey(op[p].cmd).type # "SUPERVISOR_RETURN" /\ ReturnKey(op[p].cmd).type = "SUPERVISOR_RETURN"
      BY DEF SubmitKey, ReturnKey
    <2> QED BY <1>1, <1>2, <2>1, PlainForm
  <1>4. Afoot(p)
    BY CycleShape
  <1> QED BY <1>1, <1>3, <1>4 DEF Past

\* The result of a cycle after which the loop goes on.
LEMMA ResultForm ==
    ASSUME NEW p \in Procs, Stepping(p), pc'[p] = "idle", ~Leaving(p)'
    PROVE  \/ result'[p].signature = NoKey
           \/ /\ pc[p] \in {"confirmWrite", "clickRetry"}
              /\ result'[p].signature = IF resumed[p] THEN ResumedSubmission ELSE op[p]
  <1>1. result'[p].signature = Signature(p) /\ ~Terminal(p)
    BY CycleShape DEF Leaving
  <1>2. Signature(p) = NoKey \/ pc[p] \in {"confirmWrite", "clickRetry"}
    BY <1>1 DEF Signature, Terminal
  <1>3. pc[p] \in {"confirmWrite", "clickRetry"} =>
           Signature(p) \in {NoKey, IF resumed[p] THEN ResumedSubmission ELSE op[p]}
    BY DEF Signature
  <1> QED BY <1>1, <1>2, <1>3

LEMMA CycleFresh == ASSUME NEW p \in Procs, Stepping(p) PROVE Fresh(p)'
  <1>0. /\ InHand(p) /\ Counts(p) /\ Fresh(p) /\ LoopTypeOK /\ TypeInv /\ IntentInv /\ AnswerInv
        /\ EvidenceInv /\ safety[p].iterations \in Nat
    BY DEF Stepping, LoopInv, ShapeInv, BridgeInv, LoopTypeOK
  <1>1. /\ pc[p] # "writeCheckpoint" => safety'[p] = safety[p]
        /\ pc[p] = "writeCheckpoint" =>
              safety'[p].iterations > 0 /\ safety'[p].last = op[p] /\ WriteCheckpoint(p)
    BY <1>0, GuardCounts DEF Stepping, LoopTypeOK
  <1>2. UnderwayOK(p) /\ RecordsAdvance /\ guard'[p] = guard[p] /\ Afoot(p)
    BY CycleShape, CycleTask
  <1>3. ASSUME pc[p] \in Underway
        PROVE  op[p] \in Keys /\ records[op[p]] # "NONE" /\ records'[op[p]] # "NONE"
    <2>1. op[p] \in Keys
      BY <1>0, <1>3 DEF TypeInv, LocalsOK, OpLabels, Underway, Armed
    <2>2. pc[p] \in Armed => records[op[p]] = "PREPARED"
      BY <1>0 DEF IntentInv, IntentArmed
    <2>3. pc[p] \notin Armed => clicks[op[p]] > 0
      BY <1>0, <1>3 DEF AnswerInv, ContractOK, AfterClick, Underway
    <2> QED BY <1>0, <1>2, <2>1, <2>2, <2>3 DEF IntentInv, IntentOnDisk, RecordsAdvance
  <1>4. Past(p, safety[p].last)' /\ safety'[p].last \in Keys \cup {NoKey}
    <2>1. CASE pc[p] # "writeCheckpoint"
      <3>1. PastNext(p, safety[p].last)
        BY <1>0, PastKept DEF Fresh
      <3> QED BY <1>0, <1>1, <2>1, <3>1 DEF Past, PastNext, Fresh
    <2>2. CASE pc[p] = "writeCheckpoint"
      <3>1. op[p] \in Keys /\ records'[op[p]] # "NONE"
        BY <1>3, <2>2 DEF Underway, Armed
      <3> QED BY <1>1, <2>2, <3>1, SignatureFacts DEF Past
    <2> QED BY <2>1, <2>2
  <1>5. Past(p, guard[p].last)'
    <2>1. PastNext(p, guard[p].last)
      BY <1>0, PastKept DEF Fresh
    <2> QED BY <1>2, <2>1 DEF Past, PastNext
  <1>6. ASSUME pc'[p] = "writeCheckpoint"
        PROVE  /\ op'[p] # safety'[p].last /\ op'[p] # guard'[p].last
               /\ resumed'[p] => guard'[p].last # ResumedSubmission
    <2>1. WritePrepared(p)
      BY <1>2, <1>6 DEF UnderwayOK
    <2>2. pc[p] = "writeRecord" /\ op'[p] = op[p]
      BY <2>1 DEF WritePrepared
    <2>3. /\ op[p] # safety[p].last
          /\ op[p] # guard[p].last /\ (resumed[p] => guard[p].last # ResumedSubmission)
      BY <1>0, <2>2, NewIsFresh DEF Fresh
    <2>4. resumed'[p] => resumed[p]
      BY <2>2, CycleShape
    <2> QED BY <1>1, <1>2, <2>2, <2>3, <2>4
  <1>7. ASSUME pc'[p] \in Underway \ {"writeCheckpoint"}
        PROVE  op'[p] # guard'[p].last /\ (resumed'[p] => guard'[p].last # ResumedSubmission)
    <2>1. pc[p] \in Underway /\ op'[p] = op[p]
      BY <1>2, <1>7 DEF UnderwayOK
    <2>2. resumed'[p] => resumed[p]
      BY <2>1, CycleShape DEF Underway, Armed
    <2> QED BY <1>0, <1>2, <2>1, <2>2 DEF Fresh
  <1>8. ASSUME at'[p] = "returned", ~Leaving(p)'
        PROVE  /\ Past(p, result[p].signature)'
               /\ result'[p].signature \in Keys \cup {NoKey, ResumedSubmission}
               /\ result'[p].signature # NoKey => result'[p].signature # guard'[p].last
    <2>1. pc'[p] = "idle"
      BY <1>8, CycleShape
    <2>2. CASE result'[p].signature = NoKey
      BY <2>2, KeyFacts, SignatureFacts DEF Past
    <2>3. CASE /\ pc[p] \in {"confirmWrite", "clickRetry"}
               /\ result'[p].signature = IF resumed[p] THEN ResumedSubmission ELSE op[p]
      <3>1. pc[p] \in Underway \ {"writeCheckpoint"}
        BY <2>3 DEF Underway, Armed
      <3>2. /\ op[p] \in Keys /\ records'[op[p]] # "NONE" /\ safety'[p].iterations > 0
            /\ op[p] # guard[p].last /\ (resumed[p] => guard[p].last # ResumedSubmission)
        BY <1>0, <1>1, <1>3, <3>1 DEF Counts, Fresh
      <3>3. ASSUME resumed[p] PROVE Afoot(p)' => records'[SubmitKey(active'.cmd)] # "NONE"
        <4>1. op[p].type = "GEMINI_SUBMISSION" /\ op[p].cmd = active.cmd
          BY <1>0, <2>3, <3>2, <3>3, LabelFacts, KeyFacts
             DEF Stepping, ShapeInv, EvidenceInv, StageOK, InHand, TaskHeld, OpLabels
        <4>2. op[p] = SubmitKey(active.cmd)
          <5>1. ReturnKey(op[p].cmd).type = "SUPERVISOR_RETURN"
            BY DEF ReturnKey
          <5> QED BY <3>2, <4>1, <5>1, PlainForm
        <4>3. safety[p].iterations > 0
          BY <1>0, <3>1 DEF Counts
        <4>4. Afoot(p)' => active'.cmd = active.cmd
          BY <4>3, CycleTask
        <4> QED BY <3>2, <4>2, <4>4
      <3>4. CASE resumed[p]
        BY <1>2, <2>3, <3>2, <3>3, <3>4, SignatureFacts DEF Past
      <3>5. CASE ~resumed[p]
        BY <1>2, <2>3, <3>2, <3>5, SignatureFacts DEF Past
      <3> QED BY <3>4, <3>5
    <2> QED BY <1>8, <2>1, <2>2, <2>3, ResultForm
  <1>9. guard'[p].last \in Keys \cup {NoKey, ResumedSubmission} /\ guard'[p].repeats <= 1
    BY <1>0, <1>2 DEF Fresh
  <1>10. Underway = (Underway \ {"writeCheckpoint"}) \cup {"writeCheckpoint"}
    BY DEF Underway, Armed
  <1> QED BY <1>4, <1>5, <1>6, <1>7, <1>8, <1>9, <1>10 DEF Fresh

\* What a step of a cycle leaves of the shape of the loop.
LEMMA ResultType ==
    ASSUME NEW p \in Procs, Stepping(p)
    PROVE  Signature(p) \in Signatures /\ Terminal(p) \in BOOLEAN
  <1>1. pc[p] \in {"confirmWrite", "clickRetry"} => op[p] \in Keys
    BY LabelFacts DEF Stepping, BridgeInv, TypeInv, LocalsOK, OpLabels
  <1> QED BY <1>1 DEF Signature, Signatures, Terminal

LEMMA CycleLoopType == ASSUME NEW p \in Procs, Stepping(p) PROVE LoopTypeOK'
  <1>0. LoopTypeOK /\ InHand(p) /\ Counts(p) /\ Fresh(p) /\ TypeInv /\ EffectInv'
    BY DEF Stepping, LoopInv, ShapeInv, BridgeInv
  <1> DEFINE Guards == [iterations : 0..MaxIterations, last : Signatures, repeats : 0..2]
  <1>1. at' \in [Procs -> {"off", "ready", "cycle", "returned"}]
    BY <1>0 DEF Stepping, Cycle, RunOnce, LoopTypeOK
  <1>2. limit' \in [Procs -> CycleLimits \cup {0}] /\ guard' \in [Procs -> Guards]
    BY <1>0 DEF Stepping, Cycle, RunOnce, LoopTypeOK
  <1>3. safety' \in [Procs -> Guards]
    <2>1. safety \in [Procs -> Guards]
      BY <1>0 DEF LoopTypeOK
    <2>2. CASE pc[p] # "writeCheckpoint"
      BY <1>0, <2>1, <2>2, GuardCounts DEF Stepping
    <2>3. CASE pc[p] = "writeCheckpoint"
      <3> DEFINE g == [iterations |-> safety[p].iterations + 1, last |-> op[p], repeats |-> 1]
      <3>1. safety' = [safety EXCEPT ![p] = g] /\ safety[p].iterations < MaxIterations
        BY <1>0, <2>3, GuardCounts DEF Stepping
      <3>2. op[p] \in Signatures
        BY <1>0, <2>3, LabelFacts DEF TypeInv, LocalsOK, OpLabels, Signatures
      <3>3. safety[p].iterations \in 0..MaxIterations /\ MaxIterations \in Nat
        BY <2>1, LoopAssumption
      <3>4. g \in Guards
        BY <3>1, <3>2, <3>3
      <3> HIDE DEF g, Guards
      <3> QED BY <2>1, <3>1, <3>4
    <2> QED BY <2>2, <2>3
  <1>4. result' \in [Procs -> [signature : Signatures, terminal : BOOLEAN]]
    <2>1. PICK s \in Signatures, t \in BOOLEAN :
             result' = [result EXCEPT ![p] = IF pc'[p] = "idle" THEN [signature |-> s, terminal |-> t] ELSE @]
      BY ResultType DEF Stepping, Cycle, RunOnce
    <2> QED BY <1>0, <2>1 DEF LoopTypeOK
  <1>5. effects' \in [Procs -> Nat]
    BY <1>0 DEF EffectInv
  <1>6. resumed' \in [Procs -> BOOLEAN]
    BY <1>0 DEF Stepping, Cycle, RunOnce, LoopTypeOK
  <1> QED BY <1>1, <1>2, <1>3, <1>4, <1>5, <1>6 DEF LoopTypeOK

LEMMA CycleShapeInv == ASSUME Alone, NEW p \in Procs, Stepping(p) PROVE ShapeInv'
  <1>1. LoopTypeOK' /\ \A q \in Procs : q = p
    BY CycleLoopType DEF Alone
  <1>2. at'[p] = IF pc'[p] = "idle" THEN "returned" ELSE "cycle"
    BY CycleShape
  <1>3. ASSUME resumed'[p] PROVE pc'[p] \in Resuming /\ op'[p].type = "GEMINI_SUBMISSION"
    <2>1. pc'[p] # "idle" /\ (resumed[p] \/ pc[p] = "reconcile")
      BY <1>3, CycleShape
    <2>2. Engine(p) /\ TypeInv
      BY GuardCounts DEF Stepping, BridgeInv, ShapeInv, LoopInv
    <2> QED BY <2>1, <2>2, ResumedStep DEF Stepping, ShapeInv
  <1> QED BY <1>1, <1>2, <1>3 DEF ShapeInv

-----------------------------------------------------------------------------
(* The other steps.                                                        *)

\* A loop that is over leaves nothing to keep.
LEMMA LeftBehind ==
    ASSUME NEW p \in Procs, at'[p] = "off", pc'[p] = "idle", guard'[p] = FreshGuard,
           safety'[p] = FreshGuard
    PROVE  InHand(p)' /\ Counts(p)' /\ Fresh(p)'
  <1>1. /\ FreshGuard.iterations = 0 /\ FreshGuard.last = NoKey /\ FreshGuard.repeats = 0
        /\ NoKey \notin Keys /\ NoKey # ResumedSubmission
    BY KeyFacts, SignatureFacts DEF FreshGuard
  <1>2. "idle" \notin TaskLabels \cup {"orphanCheck", "intake"} \cup Preparing \cup Underway
    BY DEF TaskLabels, Preparing, Underway, Armed
  <1>3. InHand(p)'
    BY <1>2 DEF InHand, TaskHeld, RetryHeld
  <1>4. Counts(p)'
    BY <1>1, <1>2 DEF Counts
  <1>5. Past(p, NoKey)'
    BY <1>1 DEF Past
  <1> QED BY <1>1, <1>2, <1>3, <1>4, <1>5 DEF Fresh, Past

LEMMA LeaveStep ==
    ASSUME Alone, TypeInv, ShapeInv, NEW p \in Procs, Leave(p), pc'[p] = "idle",
           effects' = effects, resumed' = [resumed EXCEPT ![p] = FALSE]
    PROVE  ShapeInv' /\ LoopInv'
  <1>1. /\ at'[p] = "off" /\ guard'[p] = FreshGuard /\ safety'[p] = FreshGuard
        /\ resumed'[p] = FALSE /\ \A q \in Procs : q = p
    BY DEF Leave, ShapeInv, LoopTypeOK, Alone
  <1>2. LoopTypeOK'
    <2>1. FreshGuard \in [iterations : 0..MaxIterations, last : Signatures, repeats : 0..2]
      BY LoopAssumption DEF FreshGuard, Signatures
    <2>2. NoResult \in [signature : Signatures, terminal : BOOLEAN]
      BY DEF NoResult, Signatures
    <2> QED BY <2>1, <2>2 DEF Leave, ShapeInv, LoopTypeOK
  <1>3. ShapeInv'
    BY <1>1, <1>2 DEF ShapeInv
  <1> QED BY <1>1, <1>3, LeftBehind DEF LoopInv


\* Steps of the controller, of a process that is between cycles.
LEMMA ControllerStep ==
    ASSUME Alone, TypeInv, ShapeInv, LoopInv, UNCHANGED vars,
           NEW p \in Procs, StartLoop(p) \/ StopAtMaxCycles(p) \/ Record(p)
    PROVE  ShapeInv' /\ LoopInv'
  <1>0. /\ LoopTypeOK /\ InHand(p) /\ Counts(p) /\ Fresh(p) /\ \A q \in Procs : q = p
        /\ UNCHANGED <<active, records, pc, job, op, status>>
    BY DEF ShapeInv, LoopInv, Alone, vars, disk, cycle
  <1>1. pc[p] = "idle" /\ ~resumed[p]
    BY <1>0 DEF StartLoop, StopAtMaxCycles, Record, ShapeInv, Resuming
  <1>2. CASE Leave(p) /\ UNCHANGED <<effects, resumed>>
    <2>1. pc'[p] = "idle"
      BY <1>0, <1>1
    <2>2. resumed' = [resumed EXCEPT ![p] = FALSE]
      BY <1>0, <1>1, <1>2 DEF LoopTypeOK
    <2> QED BY <1>2, <2>1, <2>2, LeaveStep
  <1>3. "idle" \notin TaskLabels \cup {"orphanCheck", "intake"} \cup Preparing \cup Underway
    BY DEF TaskLabels, Preparing, Underway, Armed
  <1>4. InHand(p)'
    BY <1>0, <1>1, <1>3 DEF InHand, TaskHeld, RetryHeld
  <1>5. CASE StartLoop(p)
    <2>1. /\ at' = [at EXCEPT ![p] = "ready"] /\ UNCHANGED <<guard, safety, result, effects, resumed>>
          /\ guard[p] = FreshGuard /\ safety[p] = FreshGuard
      BY <1>5 DEF StartLoop, ShapeInv
    <2>2. LoopTypeOK'
      BY <1>0, <1>5 DEF StartLoop, LoopTypeOK
    <2>3. at'[p] = "ready"
      BY <1>0, <2>1 DEF LoopTypeOK
    <2>4. ShapeInv'
      BY <1>0, <1>1, <2>1, <2>2, <2>3 DEF ShapeInv
    <2>5. /\ FreshGuard.iterations = 0 /\ FreshGuard.last = NoKey /\ FreshGuard.repeats = 0
          /\ NoKey \notin Keys /\ NoKey # ResumedSubmission
      BY KeyFacts, SignatureFacts DEF FreshGuard
    <2>6. Counts(p)' /\ Past(p, NoKey)'
      BY <1>0, <1>1, <1>3, <2>1, <2>5 DEF Counts, Past
    <2>7. Fresh(p)'
      BY <1>0, <1>1, <1>3, <2>1, <2>3, <2>5, <2>6 DEF Fresh, Past
    <2> QED BY <1>0, <1>4, <2>4, <2>6, <2>7 DEF LoopInv
  <1>6. CASE StopAtMaxCycles(p)
    BY <1>2, <1>6 DEF StopAtMaxCycles
  <1>7. CASE Record(p) /\ ~Leave(p)
    <2> DEFINE g == Recorded(guard[p], result[p].signature)
    <2>1. /\ at[p] = "returned" /\ ~Leaving(p) /\ ~Tripped(g)
          /\ at' = [at EXCEPT ![p] = "ready"] /\ guard' = [guard EXCEPT ![p] = g]
          /\ result' = [result EXCEPT ![p] = NoResult]
          /\ UNCHANGED <<limit, safety, effects, resumed>>
      BY <1>7 DEF Record, Leaving
    <2>2. at'[p] = "ready" /\ guard'[p] = g
      BY <1>0, <2>1 DEF LoopTypeOK
    <2>3. Afoot(p)
      BY <2>1 DEF Afoot
    <2>4. /\ g.last \in {guard[p].last, result[p].signature} /\ g.iterations = guard[p].iterations + 1
          /\ g.repeats = guard[p].repeats \/ g.repeats = 1
      BY <1>0, <2>1 DEF Recorded, Fresh
    <2>5. /\ Past(p, g.last) /\ g.last \in Keys \cup {NoKey, ResumedSubmission} /\ g.repeats <= 1
      BY <1>0, <2>1, <2>4 DEF Fresh
    <2>6. guard[p] \in [iterations : 0..MaxIterations, last : Signatures, repeats : 0..2]
      BY <1>0 DEF LoopTypeOK
    <2>7. g = [iterations |-> g.iterations, last |-> g.last, repeats |-> g.repeats]
      BY DEF Recorded
    <2> HIDE DEF g
    <2>8. g \in [iterations : 0..MaxIterations, last : Signatures, repeats : 0..2]
      <3>1. g.iterations \in 0..MaxIterations
        BY <2>1, <2>4, <2>6, LoopAssumption DEF Tripped
      <3>2. g.repeats \in 0..2
        BY <2>4, <2>6
      <3>3. g.last \in Signatures
        BY <2>5 DEF Signatures
      <3> QED BY <2>7, <3>1, <3>2, <3>3
    <2>9. LoopTypeOK'
      <3>1. NoResult \in [signature : Signatures, terminal : BOOLEAN]
        BY DEF NoResult, Signatures
      <3> QED BY <1>0, <2>1, <2>8, <3>1 DEF LoopTypeOK
    <2>10. ShapeInv'
      BY <1>0, <1>1, <2>1, <2>2, <2>9 DEF ShapeInv
    <2>11. Counts(p)'
      <3>1. Uncounted(p)' = Uncounted(p) /\ Unsaved(p)' = Unsaved(p) /\ Spent' = Spent
        BY <1>0 DEF Uncounted, Unsaved, Spent, Had
      <3> QED BY <1>0, <1>1, <1>3, <2>1, <2>3, <3>1 DEF Counts
    <2>12. ASSUME NEW s, Past(p, s) PROVE PastNext(p, s)
      BY <1>0, <2>1, <2>3, <2>12 DEF Past, PastNext
    <2>13. Past(p, safety[p].last)' /\ Past(p, guard[p].last)'
      <3>1. PastNext(p, safety[p].last) /\ PastNext(p, g.last)
        BY <1>0, <2>5, <2>12 DEF Fresh
      <3> QED BY <2>1, <2>2, <3>1 DEF Past, PastNext
    <2>14. Fresh(p)'
      BY <1>0, <1>1, <1>3, <2>1, <2>2, <2>5, <2>13 DEF Fresh
    <2> QED BY <1>0, <1>4, <2>10, <2>11, <2>14 DEF LoopInv
  <1>8. CASE Record(p) /\ Leave(p)
    BY <1>2, <1>8 DEF Record
  <1> QED BY <1>5, <1>6, <1>7, <1>8

\* The world outside: the task on disk changes only under review, when no
\* loop goes on with it.
Outside ==
    /\ loop' = loop /\ cycle' = cycle /\ records' = records
    /\ active' = active \/ (active.state \in Halted /\ \A p \in Procs : pc[p] = "idle")

LEMMA OutsideForm ==
    \/ UNCHANGED <<loop, cycle>> /\ (Environment \/ Operator)
    \/ UNCHANGED loopVars
    => Outside
  BY DEF Outside, Environment, Operator, SupervisorPosts, GeminiAnswers, EngageStop, ReleaseStop,
         OperatorClearsTask, OperatorClearsCheckpoint, OperatorUpdatesTask, AllIdle, disk,
         loopVars, vars, cycle

LEMMA OutsideStep == ASSUME TypeInv, ShapeInv, LoopInv, Outside PROVE ShapeInv' /\ LoopInv'
  <1>1. /\ records' = records
        /\ active' = active \/ (active.state \in Halted /\ \A p \in Procs : pc[p] = "idle")
    BY DEF Outside
  <1>2. UNCHANGED <<at, limit, guard, safety, result, effects, resumed, pc, job, op, status>>
    BY DEF Outside, loop, cycle
  <1>3. ShapeInv'
    BY <1>2 DEF ShapeInv, LoopTypeOK
  <1>4. ASSUME NEW p \in Procs PROVE InHand(p)' /\ Counts(p)' /\ Fresh(p)'
    <2>1. InHand(p) /\ Counts(p) /\ Fresh(p)
      BY DEF LoopInv
    <2>2. Afoot(p)' <=> Afoot(p)
      BY <1>2 DEF Afoot, Leaving
    <2>3. "idle" \notin TaskLabels \cup {"orphanCheck", "intake"} \cup Preparing \cup Underway
      BY DEF TaskLabels, Preparing, Underway, Armed
    <2>4. InHand(p)'
      BY <1>1, <1>2, <2>1, <2>3 DEF InHand, TaskHeld, RetryHeld
    <2>5. Afoot(p) /\ safety[p].iterations > 0 => active' = active
      BY <1>1, <2>1 DEF Counts
    <2>6. Counts(p)'
      <3>1. Uncounted(p)' = Uncounted(p) /\ Unsaved(p)' = Unsaved(p)
        BY <1>2 DEF Uncounted, Unsaved
      <3>2. active' = active => Spent' = Spent
        BY <1>1 DEF Spent, Had
      <3> QED BY <1>2, <2>1, <2>2, <2>5, <3>1, <3>2 DEF Counts
    <2>7. ASSUME NEW s, Past(p, s) PROVE PastNext(p, s)
      BY <1>1, <1>2, <2>2, <2>5, <2>7, SignatureFacts DEF Past, PastNext
    <2>8. Fresh(p)'
      <3>1. Leaving(p)' <=> Leaving(p)
        BY <1>2 DEF Leaving
      <3>2. Past(p, safety[p].last)' /\ Past(p, guard[p].last)'
        <4>1. PastNext(p, safety[p].last) /\ PastNext(p, guard[p].last)
          BY <2>1, <2>7 DEF Fresh
        <4> QED BY <1>2, <4>1 DEF Past, PastNext
      <3>3. at[p] = "returned" /\ ~Leaving(p) => Past(p, result[p].signature)'
        <4>1. at[p] = "returned" /\ ~Leaving(p) => PastNext(p, result[p].signature)
          BY <2>1, <2>7 DEF Fresh
        <4> QED BY <1>2, <4>1 DEF Past, PastNext
      <3> QED BY <1>2, <2>1, <3>1, <3>2, <3>3 DEF Fresh
    <2> QED BY <2>4, <2>6, <2>8
  <1> QED BY <1>3, <1>4 DEF LoopInv


-----------------------------------------------------------------------------
(* The theorems about a loop that is alone on its state directory.         *)

\* The inductive invariant of a loop.
WholeInv == BridgeInv /\ EffectInv /\ ShapeInv /\ LoopInv

LEMMA WholeInit == LoopInit => WholeInv
  <1> SUFFICES ASSUME LoopInit PROVE WholeInv
    OBVIOUS
  <1>1. Init
    BY DEF LoopInit
  <1>2. TypeInv /\ IntentInv /\ AnswerInv /\ EvidenceInv
    BY <1>1, InitType, IntentInit, AnswerInit, EvidenceInit
  <1>3. HaltInv
    BY <1>1 DEF Init, HaltInv
  <1>4. EffectInv
    BY DEF LoopInit, Init, EffectInv
  <1>5. ShapeInv
    <2>1. FreshGuard \in [iterations : 0..MaxIterations, last : Signatures, repeats : 0..2]
      BY LoopAssumption DEF FreshGuard, Signatures
    <2>2. NoResult \in [signature : Signatures, terminal : BOOLEAN]
      BY DEF NoResult, Signatures
    <2> QED BY <2>1, <2>2 DEF LoopInit, Init, ShapeInv, LoopTypeOK
  <1>6. LoopInv
    <2> SUFFICES ASSUME NEW p \in Procs PROVE InHand(p) /\ Counts(p) /\ Fresh(p)
      BY DEF LoopInv
    <2>1. /\ at[p] = "off" /\ pc[p] = "idle" /\ guard[p] = FreshGuard /\ safety[p] = FreshGuard
      BY DEF LoopInit, Init
    <2>2. /\ FreshGuard.iterations = 0 /\ FreshGuard.last = NoKey /\ FreshGuard.repeats = 0
          /\ NoKey \notin Keys /\ NoKey # ResumedSubmission
      BY KeyFacts, SignatureFacts DEF FreshGuard
    <2>3. "idle" \notin TaskLabels \cup {"orphanCheck", "intake"} \cup Preparing \cup Underway
      BY DEF TaskLabels, Preparing, Underway, Armed
    <2>4. InHand(p)
      BY <2>1, <2>3 DEF InHand, TaskHeld, RetryHeld
    <2>5. Counts(p)
      BY <2>1, <2>2, <2>3 DEF Counts
    <2>6. Past(p, NoKey)
      BY <2>2 DEF Past
    <2> QED BY <2>1, <2>2, <2>3, <2>4, <2>5, <2>6 DEF Fresh, Past
  <1> QED BY <1>2, <1>3, <1>4, <1>5, <1>6 DEF WholeInv, BridgeInv

\* A step of a loop is a step of Bridge, and keeps the invariant.
LEMMA WholeStep ==
    ASSUME Alone, Roomy PROVE WholeInv /\ [LoopNext]_loopVars => [Next]_vars /\ WholeInv'
  <1> SUFFICES ASSUME WholeInv, [LoopNext]_loopVars PROVE [Next]_vars /\ WholeInv'
    OBVIOUS
  <1>0. BridgeInv /\ EffectInv /\ ShapeInv /\ LoopInv /\ TypeInv
    BY DEF WholeInv, BridgeInv
  <1>1. [Next]_vars
    <2>1. ASSUME NEW p \in Procs, Cycle(p) PROVE Engine(p)
      BY <1>0, <2>1, GuardCounts DEF ShapeInv, LoopInv
    <2> QED BY <2>1, LoopStep DEF Next, loopVars
  <1>2. BridgeInv' /\ EffectInv'
    BY <1>0, <1>1, StepType, IntentStep, AnswerStep, EvidenceStep, HaltStep, EffectStep DEF BridgeInv
  <1>3. ASSUME NEW p \in Procs, Cycle(p) PROVE ShapeInv' /\ LoopInv'
    <2>1. Stepping(p)
      BY <1>0, <1>2, <1>3 DEF Stepping
    <2> QED BY <2>1, CycleShapeInv, CycleTask, CycleCounts, CycleFresh DEF LoopInv, Alone
  <1>4. ASSUME NEW p \in Procs, Break(p), Interrupt(p) PROVE ShapeInv' /\ LoopInv'
    <2>1. pc'[p] = "idle"
      BY <1>0, <1>4 DEF Interrupt, EndCycle, TypeInv, CycleOK
    <2> QED BY <1>0, <1>4, <2>1, LeaveStep DEF Break
  <1>5. Outside => ShapeInv' /\ LoopInv'
    BY <1>0, OutsideStep
  <1>6. ASSUME UNCHANGED vars, NEW p \in Procs, StartLoop(p) \/ StopAtMaxCycles(p) \/ Record(p)
        PROVE  ShapeInv' /\ LoopInv'
    BY <1>0, <1>6, ControllerStep
  <1>7. ShapeInv' /\ LoopInv'
    BY <1>3, <1>4, <1>5, <1>6, LoopStep, OutsideForm
  <1> QED BY <1>1, <1>2, <1>7 DEF WholeInv

\* The guard of the orchestrator never raises: every operation that it has
\* counted is another one of the task in hand.
LEMMA NeverTripped == WholeInv => LoopTypeOK /\ GuardNeverStrands /\ NoRepeatedOperation
  <1>1. ASSUME LoopTypeOK, NEW p \in Procs PROVE ~Tripped(safety[p])
    BY <1>1, LoopAssumption DEF LoopTypeOK, Tripped
  <1> QED BY <1>1 DEF WholeInv, ShapeInv, LoopInv, Fresh, GuardNeverStrands, NoRepeatedOperation

LEMMA LoopInvariant == ASSUME Alone, Roomy PROVE LoopSpec => []WholeInv
  BY WholeInit, WholeStep, PTL DEF LoopSpec

\* Alone on its state directory, a loop keeps to its types and limits: the
\* guards count at most limits.max_loop_iterations.
THEOREM LoopKeepsItsLimit == ASSUME Alone, Roomy PROVE LoopSpec => []LoopTypeOK
  BY LoopInvariant, NeverTripped, PTL

\* The guard of the orchestrator never strands an operation between its
\* PREPARED record and its click, whatever the number of commands.
THEOREM NothingIsStranded == ASSUME Alone, Roomy PROVE LoopSpec => []GuardNeverStrands
  BY LoopInvariant, NeverTripped, PTL

\* The rule on repeated operations never ends a loop.
THEOREM OperationsDiffer == ASSUME Alone, Roomy PROVE LoopSpec => []NoRepeatedOperation
  BY LoopInvariant, NeverTripped, PTL

\* A loop is nothing but cycles of Bridge, whose theorems hold of it.
THEOREM LoopIsBridge == ASSUME Alone, Roomy PROVE LoopSpec => BridgeHolds
  <1>1. LoopInit => Init
    BY DEF LoopInit
  <1> QED BY <1>1, LoopInvariant, WholeStep, PTL DEF LoopSpec, BridgeHolds, Spec

=============================================================================
