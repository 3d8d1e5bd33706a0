------------------------------ MODULE HaltProofs ------------------------------
(***************************************************************************)
(* What a step of the bridge may never do: click after the emergency stop  *)
(* unless it had passed the stop check before, move a task out of manual   *)
(* review, or write anything in a dry run but the confirmation of a retry. *)
(***************************************************************************)
EXTENDS AnswerProofs

-----------------------------------------------------------------------------
(* The emergency stop, for any number of processes.                        *)

\* While the stop is engaged, whoever is past the stop check is armed.
StopInv == estop => \A p \in Procs : pc[p] \in PastStopCheck => p \in armed

\* A step that clicks nothing; past the stop check it comes only without a stop.
Walks(p) ==
    /\ UNCHANGED <<estop, armed, clicks>>
    /\ \E l \in Labels : /\ pc' = [pc EXCEPT ![p] = l]
                         /\ l \in PastStopCheck => pc[p] \in PastStopCheck \/ ~estop

\* A step whose click takes effect.
Strikes(p) ==
    /\ pc[p] \in {"click", "clickRetry"}
    /\ Lands(p)
    /\ estop' = estop
    /\ \E l \in Labels \ PastStopCheck : pc' = [pc EXCEPT ![p] = l]

LEMMA QuietWalks ==
    ASSUME NEW p \in Procs, Quiet(p), UNCHANGED <<estop, armed>>
    PROVE  Walks(p)
  BY DEF Quiet, Walks, PastStopCheck, Relying, Armed

LEMMA WalksOrStrikes ==
    ASSUME TypeInv, NEW p \in Procs, Engine(p) \/ Interrupt(p)
    PROVE  Walks(p) \/ Strikes(p)
  <1>1. CASE HaltOnStop(p) \/ HaltOnTask(p) \/ (\E d \in DryRuns : BeginCycle(p, d))
                 \/ OrphanCheck(p) \/ Intake(p)
    <2>1. UNCHANGED <<estop, armed>>
      BY <1>1 DEF HaltOnStop, HaltOnTask, BeginCycle, OrphanCheck, Intake, page
    <2> QED BY <1>1, <2>1, QuietBeginning, QuietWalks
  <1>2. CASE Advance(p) \/ ResumeProven(p) \/ Resubmit(p) \/ HaltAmbiguous(p)
               \/ ReconcileReturn(p) \/ FindRetry(p) \/ DetectRetryExecuted(p)
               \/ DetectRetryAmbiguous(p) \/ DetectNothingToDo(p) \/ DetectCompleted(p)
               \/ DetectRetryAvailable(p) \/ AcceptReport(p) \/ RejectReport(p)
    <2>1. UNCHANGED <<estop, armed>>
      BY <1>2 DEF Advance, ResumeProven, Resubmit, HaltAmbiguous, ReconcileReturn, FindRetry,
                  DetectRetryExecuted, DetectRetryAmbiguous, DetectNothingToDo, DetectCompleted,
                  DetectRetryAvailable, AcceptReport, TakeReport, RejectReport, page
    <2> QED BY <1>2, <2>1, QuietMiddle, QuietWalks
  <1>3. CASE RetryButtonMissing(p) \/ PageNotReady(p) \/ SaveUncertain(p) \/ SaveSubmitted(p)
               \/ MarkReturned(p) \/ Resave(p) \/ ArchiveLoad(p) \/ ArchiveWrite(p)
               \/ ArchiveClear(p) \/ Interrupt(p)
    <2>1. UNCHANGED <<estop, armed>>
      BY <1>3 DEF RetryButtonMissing, PageNotReady, SaveUncertain, SaveSubmitted, MarkReturned,
                  Resave, ArchiveLoad, ArchiveWrite, ArchiveClear, Interrupt, page
    <2> QED BY <1>3, <2>1, QuietFinish, QuietWalks
  <1>4. CASE Prepare(p)
    <2>1. UNCHANGED <<estop, armed, clicks, records>>
      BY <1>4 DEF Prepare, PrepareWhen, disk, page
    <2>2. CASE EndCycle(p, "ERROR")
      BY <2>1, <2>2, QuietEnd, QuietWalks
    <2>3. CASE ~EndCycle(p, "ERROR")
      BY <1>4, <2>1, <2>3 DEF Prepare, PrepareWhen, Walks, Labels
    <2> QED BY <2>2, <2>3
  <1>5. CASE WritePrepared(p) \/ WriteCheckpoint(p) \/ SaveRetry(p)
    BY <1>5 DEF WritePrepared, WriteCheckpoint, SaveRetry, Goto, Walks, Labels, PastStopCheck, page
  <1>6. CASE ClickRetry(p) \/ RetryClickRaises(p) \/ ClickSend(p) \/ ClickRaises(p)
    <2>1. /\ pc[p] \in {"click", "clickRetry"}
          /\ estop' = estop
          /\ \E l \in Labels \ PastStopCheck : pc' = [pc EXCEPT ![p] = l]
          /\ Lands(p) \/ UNCHANGED page
      BY <1>6 DEF ClickRetry, RetryClickRaises, ClickSend, ClickRaises, Goto, EndCycle,
                  Labels, PastStopCheck
    <2> QED BY <2>1 DEF Strikes, Walks, page
  <1>7. CASE ConfirmLoad(p)
    <2>1. UNCHANGED <<estop, armed, clicks, records>>
      BY <1>7 DEF ConfirmLoad, disk, page
    <2>2. CASE EndCycle(p, "ERROR")
      BY <2>1, <2>2, QuietEnd, QuietWalks
    <2>3. CASE ~EndCycle(p, "ERROR")
      BY <1>7, <2>1, <2>3 DEF ConfirmLoad, Walks, Labels, PastStopCheck
    <2> QED BY <2>2, <2>3
  <1>8. CASE WriteConfirmed(p)
    BY <1>8 DEF WriteConfirmed, Goto, EndCycle, Walks, Labels, PastStopCheck, page
  <1> QED BY <1>1, <1>2, <1>3, <1>4, <1>5, <1>6, <1>7, <1>8 DEF Engine

LEMMA StopStep == TypeInv /\ StopInv /\ [Next]_vars => StopInv'
  <1> SUFFICES ASSUME TypeInv, StopInv, [Next]_vars PROVE StopInv'
    OBVIOUS
  <1>1. ASSUME NEW p \in Procs, Engine(p) \/ Interrupt(p) PROVE StopInv'
    <2>1. CASE Walks(p)
      BY <2>1 DEF Walks, StopInv, TypeInv, CycleOK
    <2>2. CASE Strikes(p)
      BY <2>2 DEF Strikes, Lands, StopInv, TypeInv, CycleOK
    <2> QED BY <1>1, <2>1, <2>2, WalksOrStrikes
  <1>2. CASE EngageStop \/ ReleaseStop
    BY <1>2 DEF EngageStop, ReleaseStop, StopInv, cycle
  <1>3. CASE Operator \/ UNCHANGED vars \/ (\E c \in Commands : SupervisorPosts(c) \/ GeminiAnswers(c))
    <2>1. UNCHANGED <<estop, armed, pc>>
      BY <1>3 DEF Operator, SupervisorPosts, GeminiAnswers, OperatorClearsTask,
                  OperatorClearsCheckpoint, OperatorUpdatesTask, vars, cycle, page
    <2> QED BY <2>1 DEF StopInv
  <1> QED BY <1>1, <1>2, <1>3 DEF Next, Environment

\* One step under the emergency stop.
LEMMA StopHolds ==
    ASSUME TypeInv, StopInv, [Next]_vars, estop, clicks' # clicks
    PROVE  \E p \in armed : pc[p] \in {"click", "clickRetry"} /\ armed' = armed \ {p}
  <1>1. PICK p \in Procs : Engine(p) \/ Interrupt(p)
    BY DEF Next, Environment, Operator, SupervisorPosts, GeminiAnswers, EngageStop, ReleaseStop,
           OperatorClearsTask, OperatorClearsCheckpoint, OperatorUpdatesTask, vars, page
  <1>2. Strikes(p)
    BY <1>1, WalksOrStrikes DEF Walks
  <1>3. pc[p] \in {"click", "clickRetry"} /\ armed' = armed \ {p}
    BY <1>2 DEF Strikes, Lands
  <1>4. p \in armed
    BY <1>3 DEF StopInv, PastStopCheck
  <1> QED BY <1>3, <1>4

\* However many processes run, the clicks that land under an engaged stop are
\* those of operations that had passed the check before it, one for each.
THEOREM StopIsObeyed == Spec => StopLetsOnlyArmedLand
  <1>1. Init => StopInv
    BY DEF Init, StopInv
  <1>2. /\ TypeInv /\ StopInv /\ [Next]_vars
        => (estop /\ clicks' # clicks =>
               \E p \in armed : pc[p] \in {"click", "clickRetry"} /\ armed' = armed \ {p})
    BY StopHolds
  <1> QED BY <1>1, <1>2, InitType, StepType, StopStep, PTL DEF Spec, StopLetsOnlyArmedLand

-----------------------------------------------------------------------------
(* Manual review, for a single process.                                    *)

\* A cycle that is under way found its task fit to go on.
HaltInv == \A p \in Procs : pc[p] # "idle" => active.state \notin Halted /\ job[p].state \notin Halted

\* Steps within a cycle: the task in memory changes to an unhalted one, the
\* one on disk follows it or stays.
LEMMA HaltStay ==
    ASSUME TypeInv, Alone, HaltInv, NEW p \in Procs, pc[p] # "idle",
           job' = job \/ (\E t \in Tasks : t.state \notin Halted /\ job' = [job EXCEPT ![p] = t]),
           active' = active \/ active' = job'[p]
    PROVE  HaltInv'
  <1>1. \A q \in Procs : q = p
    BY DEF Alone
  <1>2. active.state \notin Halted /\ job'[p].state \notin Halted
    BY DEF HaltInv, TypeInv, CycleOK
  <1> QED BY <1>1, <1>2 DEF HaltInv

\* Steps that end the cycle.
LEMMA HaltEnd ==
    ASSUME TypeInv, Alone, NEW p \in Procs, NEW result, EndCycle(p, result)
    PROVE  HaltInv'
  <1>1. \A q \in Procs : q = p
    BY DEF Alone
  <1>2. pc'[p] = "idle"
    BY DEF EndCycle, TypeInv, CycleOK
  <1> QED BY <1>1, <1>2 DEF HaltInv

LEMMA UnhaltedStates ==
    {"NO_ACTIVE_TASK", "SUBMISSION_PREPARED", "WAITING_FOR_IMPLEMENTER",
     "IMPLEMENTER_RESPONSE_VALIDATED", "COMPLETED"} \cap Halted = {}
  BY DEF Halted

LEMMA HaltCycle ==
    ASSUME TypeInv, Alone, HaltInv, NEW p \in Procs, Engine(p) \/ Interrupt(p)
    PROVE  HaltInv'
  <1> USE HaltEnd, HaltStay
  <1>0. /\ pc[p] \in TaskLabels => job[p] \in Tasks
        /\ pc[p] # "idle" => job[p].state \notin Halted
    BY DEF TypeInv, LocalsOK, HaltInv
  <1>1. CASE HaltOnStop(p) \/ HaltOnTask(p) \/ ResumeProven(p) \/ HaltAmbiguous(p)
               \/ DetectRetryAmbiguous(p) \/ DetectNothingToDo(p) \/ RejectReport(p)
               \/ RetryButtonMissing(p) \/ RetryClickRaises(p) \/ PageNotReady(p)
               \/ SaveUncertain(p) \/ Resave(p) \/ ArchiveClear(p) \/ Interrupt(p)
    BY <1>1 DEF HaltOnStop, HaltOnTask, ResumeProven, HaltAmbiguous, DetectRetryAmbiguous,
                DetectNothingToDo, RejectReport, RetryButtonMissing, RetryClickRaises,
                PageNotReady, SaveUncertain, Resave, ArchiveClear, Interrupt
  <1>2. CASE \E d \in DryRuns : BeginCycle(p, d)
    <2>1. PICK d \in DryRuns : BeginCycle(p, d)
      BY <1>2
    <2>2. CASE ~EndCycle(p, "SUCCESS")
      <3>1. /\ active.state \notin Halted /\ active' = active
            /\ job' = [job EXCEPT ![p] = active]
        BY <2>1, <2>2 DEF BeginCycle, disk
      <3>2. job'[p] = active /\ \A q \in Procs : q = p
        BY <3>1 DEF TypeInv, CycleOK, Alone
      <3> QED BY <3>1, <3>2 DEF HaltInv
    <2> QED BY <2>2
  <1>3. CASE OrphanCheck(p) \/ FindRetry(p) \/ DetectRetryExecuted(p) \/ DetectCompleted(p)
               \/ DetectRetryAvailable(p) \/ Resubmit(p) \/ Prepare(p) \/ WritePrepared(p)
               \/ WriteCheckpoint(p) \/ ClickRetry(p) \/ ClickSend(p) \/ ClickRaises(p)
               \/ ConfirmLoad(p) \/ WriteConfirmed(p) \/ ArchiveLoad(p) \/ ArchiveWrite(p)
    <2>1. pc[p] # "idle" /\ active' = active
      BY <1>3 DEF OrphanCheck, FindRetry, DetectRetryExecuted, DetectCompleted,
                  DetectRetryAvailable, Resubmit, Prepare, PrepareWhen, WritePrepared,
                  WriteCheckpoint, ClickRetry, ClickSend, ClickRaises, ConfirmLoad,
                  WriteConfirmed, ArchiveLoad, ArchiveWrite, disk
    <2>2. job' = job \/ \E result : EndCycle(p, result)
      BY <1>3 DEF OrphanCheck, FindRetry, DetectRetryExecuted, DetectCompleted,
                  DetectRetryAvailable, Resubmit, Prepare, PrepareWhen, WritePrepared,
                  WriteCheckpoint, ClickRetry, ClickSend, ClickRaises, ConfirmLoad,
                  WriteConfirmed, ArchiveLoad, ArchiveWrite
    <2> QED BY <2>1, <2>2
  <1>4. CASE Intake(p)
    <2> DEFINE t == [cmd |-> newest, state |-> "SUBMISSION_PREPARED", retries |-> 0]
    <2>1. CASE ~EndCycle(p, "SUCCESS")
      <3>1. newest # NoCommand /\ active' = t /\ job' = [job EXCEPT ![p] = t] /\ pc[p] # "idle"
        BY <1>4, <2>1 DEF Intake
      <3>2. t \in Tasks /\ t.state \notin Halted
        BY <3>1, FileStateFacts, UnhaltedStates, CommandAssumption DEF TypeInv, PageOK, Tasks
      <3>3. active' = job'[p]
        BY <3>1 DEF TypeInv, CycleOK
      <3> QED BY <3>1, <3>2, <3>3
    <2> QED BY <2>1
  <1>5. CASE Advance(p) \/ SaveSubmitted(p)
    <2>1. /\ pc[p] \in TaskLabels \ {"idle"}
          /\ \E s \in {"SUBMISSION_PREPARED", "WAITING_FOR_IMPLEMENTER"} :
                /\ job' = [job EXCEPT ![p] = MovedTo(p, s)]
                /\ active' = active \/ active' = MovedTo(p, s)
      BY <1>5 DEF Advance, SaveSubmitted, Save, TaskLabels, Labels
    <2>2. PICK s \in {"SUBMISSION_PREPARED", "WAITING_FOR_IMPLEMENTER"} :
             /\ job' = [job EXCEPT ![p] = MovedTo(p, s)]
             /\ active' = active \/ active' = MovedTo(p, s)
      BY <2>1
    <2>3. MovedTo(p, s) \in Tasks /\ MovedTo(p, s).state \notin Halted
      BY <1>0, <2>1, MoveType, FileStateFacts, UnhaltedStates
    <2>4. job'[p] = MovedTo(p, s)
      BY <2>2 DEF TypeInv, CycleOK
    <2> QED BY <2>1, <2>2, <2>3, <2>4
  <1>6. CASE ReconcileReturn(p) \/ MarkReturned(p)
    <2>1. /\ pc[p] \in TaskLabels \ {"idle"} /\ active' = active
          /\ (\E result : EndCycle(p, result)) \/ job' = [job EXCEPT ![p] = MovedTo(p, "COMPLETED")]
      BY <1>6 DEF ReconcileReturn, MarkReturned, TaskLabels, Labels, disk
    <2>2. MovedTo(p, "COMPLETED") \in Tasks /\ MovedTo(p, "COMPLETED").state \notin Halted
      BY <1>0, <2>1, MoveType, FileStateFacts, UnhaltedStates
    <2> QED BY <2>1, <2>2
  <1>7. CASE AcceptReport(p)
    <2>1. PICK d \in answered : TakeReport(p, d)
      BY <1>7 DEF AcceptReport
    <2>2. pc[p] \in TaskLabels \ {"idle"}
      BY <1>7 DEF AcceptReport, TaskLabels, Labels
    <2> DEFINE t == IF job[p].state = "WAITING_FOR_IMPLEMENTER"
                    THEN MovedTo(p, "IMPLEMENTER_RESPONSE_VALIDATED") ELSE job[p]
    <2>3. t \in Tasks /\ t.state \notin Halted
      BY <1>0, <2>2, MoveType, FileStateFacts, UnhaltedStates
    <2>4. CASE ~EndCycle(p, "SUCCESS")
      <3>1. job' = [job EXCEPT ![p] = t] /\ (active' = active \/ active' = t)
        BY <2>1, <2>4 DEF TakeReport, Save
      <3>2. job'[p] = t
        BY <3>1 DEF TypeInv, CycleOK
      <3> QED BY <2>2, <2>3, <3>1, <3>2
    <2> QED BY <2>4
  <1>8. CASE SaveRetry(p)
    <2> DEFINE t == [job[p] EXCEPT !.retries = op[p].attempt]
    <2>1. /\ job' = [job EXCEPT ![p] = t] /\ active' = t
          /\ pc[p] \in (TaskLabels \cap OpLabels) \ {"idle"}
      BY <1>8 DEF SaveRetry, TaskLabels, OpLabels, Labels
    <2>2. op[p] \in Keys
      BY <2>1 DEF TypeInv, LocalsOK
    <2>3. t \in Tasks /\ t.state \notin Halted
      BY <1>0, <2>1, <2>2, KeyFacts DEF Tasks
    <2>4. job'[p] = t
      BY <2>1 DEF TypeInv, CycleOK
    <2> QED BY <2>1, <2>3, <2>4
  <1> QED BY <1>1, <1>2, <1>3, <1>4, <1>5, <1>6, <1>7, <1>8 DEF Engine

LEMMA HaltStep == ASSUME Alone PROVE TypeInv /\ HaltInv /\ [Next]_vars => HaltInv'
  <1> SUFFICES ASSUME TypeInv, HaltInv, [Next]_vars PROVE HaltInv'
    OBVIOUS
  <1>1. ASSUME NEW p \in Procs, Engine(p) \/ Interrupt(p) PROVE HaltInv'
    BY <1>1, HaltCycle
  <1>2. CASE Environment \/ UNCHANGED vars
    BY <1>2 DEF Environment, SupervisorPosts, GeminiAnswers, EngageStop, ReleaseStop, HaltInv,
                vars, disk, cycle
  <1>3. CASE Operator
    BY <1>3 DEF Operator, OperatorClearsTask, OperatorClearsCheckpoint, OperatorUpdatesTask,
                AllIdle, HaltInv, cycle
  <1> QED BY <1>1, <1>2, <1>3 DEF Next

\* One step while the task is under manual review.
LEMMA ReviewHolds ==
    ASSUME TypeInv, HaltInv, [Next]_vars, active.state = "MANUAL_REVIEW_REQUIRED"
    PROVE  active' = active \/ Operator
  <1>1. active.state \in Halted
    BY DEF Halted
  <1>2. \A p \in Procs : pc[p] = "idle"
    BY <1>1 DEF HaltInv
  <1>3. ASSUME NEW p \in Procs, Engine(p) \/ Interrupt(p) PROVE active' = active
    <2>1. pc[p] = "idle"
      BY <1>2
    <2>2. HaltOnStop(p) \/ HaltOnTask(p) \/ \E d \in DryRuns : BeginCycle(p, d)
      BY <1>3, <2>1 DEF Engine, Interrupt, OrphanCheck, Intake, Advance, ResumeProven, Resubmit,
           HaltAmbiguous, ReconcileReturn, FindRetry, DetectRetryExecuted, DetectRetryAmbiguous,
           DetectNothingToDo, DetectCompleted, DetectRetryAvailable, AcceptReport, RejectReport,
           Prepare, PrepareWhen, WritePrepared, WriteCheckpoint, SaveRetry, ClickRetry,
           RetryButtonMissing, RetryClickRaises, PageNotReady, ClickSend, ClickRaises,
           SaveUncertain, SaveSubmitted, MarkReturned, ConfirmLoad, WriteConfirmed, Resave,
           ArchiveLoad, ArchiveWrite, ArchiveClear
    <2> QED BY <2>2 DEF HaltOnStop, HaltOnTask, BeginCycle, disk
  <1>4. CASE Environment \/ UNCHANGED vars
    BY <1>4 DEF Environment, SupervisorPosts, GeminiAnswers, EngageStop, ReleaseStop, vars, disk
  <1> QED BY <1>3, <1>4 DEF Next

\* With one process on the state directory nobody but the operator takes a
\* task out of manual review.
THEOREM ReviewIsFinal == ASSUME Alone PROVE Spec => ManualReviewHalts
  <1>1. Init => HaltInv
    BY DEF Init, HaltInv
  <1>2. TypeInv /\ HaltInv /\ [Next]_vars
        => (active.state = "MANUAL_REVIEW_REQUIRED" => active' = active \/ Operator)
    BY ReviewHolds
  <1> QED BY <1>1, <1>2, InitType, StepType, HaltStep, PTL DEF Spec, ManualReviewHalts

-----------------------------------------------------------------------------
(* The dry run.                                                            *)

\* Labels a dry run may reach; only reconcileWrite is followed by a write.
Observing == {"orphanCheck", "intake", "advance", "reconcile", "reconcileReturn", "findRetry",
              "detect", "inspect", "reconcileLoad", "reconcileWrite", "resave"}

DryInv == \A p \in Procs : dry[p] => pc[p] \in Observing

\* Labels at which an unfinished retry may be in hand, and that retry's record.
Holding == {"detect", "reconcileLoad", "reconcileWrite"}
HeldInv ==
    \A p \in Procs : pc[p] \in Holding /\ op[p] # NoKey => records[op[p]] = "PREPARED"

\* Where a step of p may leave it, with the dry run it is in.
DryGoes(p) ==
    \E l \in Labels : \E d \in BOOLEAN : /\ pc' = [pc EXCEPT ![p] = l]
                                         /\ dry' = [dry EXCEPT ![p] = d]
                                         /\ d => l \in Observing

LEMMA DryEnd ==
    ASSUME NEW p \in Procs, NEW result, EndCycle(p, result) PROVE DryGoes(p)
  BY DEF EndCycle, DryGoes, Labels

LEMMA DryGoto ==
    ASSUME TypeInv, NEW p \in Procs, NEW l \in Labels, Goto(p, l), dry[p] => l \in Observing
    PROVE  DryGoes(p)
  <1>1. dry[p] \in BOOLEAN /\ dry' = [dry EXCEPT ![p] = dry[p]] /\ pc' = [pc EXCEPT ![p] = l]
    BY DEF Goto, TypeInv, CycleOK
  <1> QED BY <1>1 DEF DryGoes

LEMMA DryCycle ==
    ASSUME TypeInv, DryInv, NEW p \in Procs, Engine(p) \/ Interrupt(p)
    PROVE  DryGoes(p)
  <1> USE DryEnd, DryGoto
  <1>0. /\ Observing \subseteq Labels /\ "prepare" \in Labels
        /\ dry[p] => pc[p] \in Observing
    BY DEF Observing, Labels, DryInv
  <1>1. CASE HaltOnStop(p) \/ HaltOnTask(p) \/ ResumeProven(p) \/ HaltAmbiguous(p)
               \/ DetectRetryAmbiguous(p) \/ DetectNothingToDo(p) \/ RejectReport(p)
               \/ RetryButtonMissing(p) \/ RetryClickRaises(p) \/ PageNotReady(p)
               \/ SaveUncertain(p) \/ Resave(p) \/ ArchiveClear(p) \/ Interrupt(p)
    BY <1>1 DEF HaltOnStop, HaltOnTask, ResumeProven, HaltAmbiguous, DetectRetryAmbiguous,
                DetectNothingToDo, RejectReport, RetryButtonMissing, RetryClickRaises,
                PageNotReady, SaveUncertain, Resave, ArchiveClear, Interrupt
  <1>2. CASE \E d \in DryRuns : BeginCycle(p, d)
    <2>1. PICK d \in DryRuns : BeginCycle(p, d)
      BY <1>2
    <2> DEFINE l == EntryLabel(active.state)
    <2>2. l \in Observing \cup {"archiveLoad"} /\ (l = "archiveLoad" => active.state \in Finished)
      <3>1. active.state \notin Halted /\ active \in Tasks \cup {NoTask}
        BY <2>1 DEF BeginCycle, TypeInv, DiskOK
      <3>2. l \in {"orphanCheck", "archiveLoad", "advance", "reconcile", "reconcileReturn", "findRetry"}
        BY <3>1, EntryLabels
      <3>3. active.state \in FileStates \cup {"NO_ACTIVE_TASK"}
        BY <3>1 DEF Tasks, NoTask
      <3>4. active.state \notin Finished => l # "archiveLoad"
        BY <3>1, <3>3 DEF EntryLabel, Finished, Intermediate, Polling, Halted, FileStates,
                          TaskState, LegalTransitions
      <3> QED BY <3>2, <3>4 DEF Observing
    <2> HIDE DEF l
    <2>3. CASE ~EndCycle(p, "SUCCESS")
      <3>1. /\ pc' = [pc EXCEPT ![p] = l] /\ dry' = [dry EXCEPT ![p] = d]
            /\ ~(d /\ active.state \in Finished)
        BY <2>1, <2>3 DEF BeginCycle, l
      <3>2. l \in Labels /\ d \in BOOLEAN /\ (d => l \in Observing)
        BY <1>0, <2>2, <3>1, BridgeAssumption DEF Labels
      <3> QED BY <3>1, <3>2 DEF DryGoes
    <2> QED BY <2>3
  <1>3. CASE OrphanCheck(p) \/ Advance(p) \/ FindRetry(p) \/ DetectRetryExecuted(p)
               \/ DetectCompleted(p)
    <2>1. (\E result : EndCycle(p, result))
          \/ \E l \in {"intake", "reconcile", "detect", "reconcileLoad", "inspect"} : Goto(p, l)
      BY <1>3 DEF OrphanCheck, Advance, FindRetry, DetectRetryExecuted, DetectCompleted
    <2>2. {"intake", "reconcile", "detect", "reconcileLoad", "inspect"} \subseteq Observing
      BY DEF Observing
    <2> QED BY <1>0, <2>1, <2>2
  <1>4. CASE Intake(p) \/ Resubmit(p) \/ ReconcileReturn(p) \/ DetectRetryAvailable(p)
               \/ AcceptReport(p)
    <2>1. (\E result : EndCycle(p, result))
          \/ (~dry[p] /\ \E l \in {"prepare", "archiveLoad"} : Goto(p, l))
      BY <1>4 DEF Intake, Resubmit, ReconcileReturn, DetectRetryAvailable, AcceptReport, TakeReport
    <2> QED BY <2>1 DEF Labels
  <1>5. CASE WritePrepared(p) \/ WriteCheckpoint(p) \/ SaveRetry(p) \/ ClickRetry(p)
               \/ ClickSend(p) \/ ClickRaises(p) \/ SaveSubmitted(p) \/ MarkReturned(p)
               \/ ArchiveWrite(p)
    <2>1. pc[p] \in {"writeRecord", "writeCheckpoint", "saveRetry", "clickRetry", "click",
                     "clicked", "archiveWrite"}
      BY <1>5 DEF WritePrepared, WriteCheckpoint, SaveRetry, ClickRetry, ClickSend, ClickRaises,
                  SaveSubmitted, MarkReturned, ArchiveWrite
    <2>2. ~dry[p]
      BY <1>0, <2>1 DEF Observing
    <2>3. (\E result : EndCycle(p, result)) \/ \E l \in Labels : Goto(p, l)
      BY <1>5 DEF WritePrepared, WriteCheckpoint, SaveRetry, ClickRetry, ClickSend, ClickRaises,
                  SaveSubmitted, MarkReturned, ArchiveWrite, Labels
    <2> QED BY <2>2, <2>3
  <1>6. CASE Prepare(p) \/ ConfirmLoad(p) \/ ArchiveLoad(p)
    <2>1. CASE ~\E result : EndCycle(p, result)
      <3>1. /\ dry' = [dry EXCEPT ![p] = dry[p]] /\ dry[p] \in BOOLEAN
            /\ \/ pc[p] \in {"prepare", "confirmLoad", "archiveLoad"}
                  /\ \E l \in Labels : pc' = [pc EXCEPT ![p] = l]
               \/ pc' = [pc EXCEPT ![p] = "reconcileWrite"]
        BY <1>6, <2>1 DEF Prepare, PrepareWhen, ConfirmLoad, ArchiveLoad, TypeInv, CycleOK, Labels
      <3>2. pc[p] \in {"prepare", "confirmLoad", "archiveLoad"} => ~dry[p]
        BY <1>0 DEF Observing
      <3> QED BY <1>0, <3>1, <3>2 DEF DryGoes, Observing
    <2> QED BY <2>1
  <1>7. CASE WriteConfirmed(p)
    <2>1. \/ EndCycle(p, "SUCCESS") \/ Goto(p, "resave")
          \/ pc[p] = "confirmWrite" /\ Goto(p, "archiveLoad")
      BY <1>7 DEF WriteConfirmed
    <2> QED BY <1>0, <2>1 DEF Observing, Labels
  <1> QED BY <1>1, <1>2, <1>3, <1>4, <1>5, <1>6, <1>7 DEF Engine

LEMMA DryStep == TypeInv /\ DryInv /\ [Next]_vars => DryInv'
  <1> SUFFICES ASSUME TypeInv, DryInv, [Next]_vars PROVE DryInv'
    OBVIOUS
  <1>1. ASSUME NEW p \in Procs, Engine(p) \/ Interrupt(p) PROVE DryInv'
    BY <1>1, DryCycle DEF DryGoes, DryInv, TypeInv, CycleOK
  <1>2. CASE Environment \/ Operator \/ UNCHANGED vars
    BY <1>2 DEF Environment, Operator, SupervisorPosts, GeminiAnswers, EngageStop, ReleaseStop,
                OperatorClearsTask, OperatorClearsCheckpoint, OperatorUpdatesTask, DryInv, vars, cycle
  <1> QED BY <1>1, <1>2 DEF Next

\* A step that leads to none of those labels.
Releases(p) == \E l \in Labels \ Holding : pc' = [pc EXCEPT ![p] = l]

LEMMA HeldReleased ==
    ASSUME TypeInv, Alone, NEW p \in Procs, Releases(p) PROVE HeldInv'
  BY DEF Releases, HeldInv, Alone, TypeInv, CycleOK

LEMMA HeldCycle ==
    ASSUME TypeInv, Alone, AnswerInv, HeldInv, NEW p \in Procs, Engine(p) \/ Interrupt(p)
    PROVE  HeldInv'
  <1> USE HeldReleased DEF Releases, Goto, EndCycle, Holding, Labels
  <1>0. \A q \in Procs : q = p
    BY DEF Alone
  <1>1. CASE HaltOnStop(p) \/ HaltOnTask(p) \/ OrphanCheck(p) \/ Intake(p) \/ Advance(p)
               \/ ResumeProven(p) \/ Resubmit(p) \/ HaltAmbiguous(p) \/ ReconcileReturn(p)
    BY <1>1 DEF HaltOnStop, HaltOnTask, OrphanCheck, Intake, Advance, ResumeProven, Resubmit,
                HaltAmbiguous, ReconcileReturn
  <1>2. CASE DetectRetryAmbiguous(p) \/ DetectNothingToDo(p) \/ DetectCompleted(p)
               \/ DetectRetryAvailable(p) \/ AcceptReport(p) \/ RejectReport(p)
    BY <1>2 DEF DetectRetryAmbiguous, DetectNothingToDo, DetectCompleted, DetectRetryAvailable,
                AcceptReport, TakeReport, RejectReport
  <1>3. CASE Prepare(p) \/ WritePrepared(p) \/ WriteCheckpoint(p) \/ SaveRetry(p)
               \/ ClickRetry(p) \/ RetryButtonMissing(p) \/ RetryClickRaises(p) \/ PageNotReady(p)
    BY <1>3 DEF Prepare, PrepareWhen, WritePrepared, WriteCheckpoint, SaveRetry, ClickRetry,
                RetryButtonMissing, RetryClickRaises, PageNotReady
  <1>4. CASE ClickSend(p) \/ ClickRaises(p) \/ SaveUncertain(p) \/ SaveSubmitted(p)
               \/ MarkReturned(p) \/ WriteConfirmed(p) \/ Resave(p) \/ ArchiveLoad(p)
               \/ ArchiveWrite(p) \/ ArchiveClear(p) \/ Interrupt(p)
    BY <1>4 DEF ClickSend, ClickRaises, SaveUncertain, SaveSubmitted, MarkReturned,
                WriteConfirmed, Resave, ArchiveLoad, ArchiveWrite, ArchiveClear, Interrupt
  <1>5. CASE \E d \in DryRuns : BeginCycle(p, d)
    <2>1. PICK d \in DryRuns : BeginCycle(p, d)
      BY <1>5
    <2>2. active.state \notin Halted /\ active \in Tasks \cup {NoTask}
      BY <2>1 DEF BeginCycle, TypeInv, DiskOK
    <2> QED BY <2>1, <2>2, EntryLabels DEF BeginCycle
  <1>6. CASE FindRetry(p)
    <2>1. /\ records' = records
          /\ op[p] = NoKey
      BY <1>6 DEF FindRetry, disk, AnswerInv, ContractOK, Blank
    <2>2. \/ EndCycle(p, "ERROR")
          \/ UNCHANGED op
          \/ \E k \in PreparedRetries(records, job[p].cmd) : op' = [op EXCEPT ![p] = k]
      BY <1>6 DEF FindRetry
    <2>3. Releases(p) \/ op'[p] = NoKey \/ records[op'[p]] = "PREPARED"
      BY <2>1, <2>2 DEF PreparedRetries, TypeInv, CycleOK
    <2> QED BY <1>0, <2>1, <2>3 DEF HeldInv
  <1>7. CASE DetectRetryExecuted(p) \/ ConfirmLoad(p)
    <2>1. UNCHANGED records /\ (UNCHANGED op \/ Releases(p))
      BY <1>7 DEF DetectRetryExecuted, ConfirmLoad, disk
    <2>2. Releases(p) \/ pc[p] \in Holding
      BY <1>7 DEF DetectRetryExecuted, ConfirmLoad
    <2> QED BY <1>0, <2>1, <2>2 DEF HeldInv
  <1> QED BY <1>1, <1>2, <1>3, <1>4, <1>5, <1>6, <1>7 DEF Engine

LEMMA HeldStep ==
    ASSUME Alone PROVE TypeInv /\ AnswerInv /\ HeldInv /\ [Next]_vars => HeldInv'
  <1> SUFFICES ASSUME TypeInv, AnswerInv, HeldInv, [Next]_vars PROVE HeldInv'
    OBVIOUS
  <1>1. ASSUME NEW p \in Procs, Engine(p) \/ Interrupt(p) PROVE HeldInv'
    BY <1>1, HeldCycle
  <1>2. CASE Environment \/ Operator \/ UNCHANGED vars
    BY <1>2 DEF Environment, Operator, SupervisorPosts, GeminiAnswers, EngageStop, ReleaseStop,
                OperatorClearsTask, OperatorClearsCheckpoint, OperatorUpdatesTask, HeldInv,
                vars, disk, cycle
  <1> QED BY <1>1, <1>2 DEF Next

\* One step of a dry run.
LEMMA DryHolds ==
    ASSUME TypeInv, Alone, IntentInv, AnswerInv, DryInv, HeldInv, [Next]_vars,
           NEW p \in Procs, dry[p], pc'[p] # pc[p]
    PROVE  /\ UNCHANGED <<active, checkpoint, ledger, clicks>>
           /\ \A k \in Keys : records'[k] # records[k] =>
                 /\ k \in RetryKeys
                 /\ records[k] = "PREPARED" /\ records'[k] = "CONFIRMED"
  <1>1. Engine(p) \/ Interrupt(p)
    BY DEF Next, Environment, Operator, SupervisorPosts, GeminiAnswers, EngageStop, ReleaseStop,
           OperatorClearsTask, OperatorClearsCheckpoint, OperatorUpdatesTask, vars, cycle, Alone
  <1>2. pc[p] \in Observing
    BY DEF DryInv
  <1>3. CASE OrphanCheck(p) \/ Intake(p) \/ Advance(p) \/ ResumeProven(p) \/ Resubmit(p)
               \/ HaltAmbiguous(p) \/ ReconcileReturn(p) \/ FindRetry(p)
    BY <1>3 DEF OrphanCheck, Intake, Advance, ResumeProven, Resubmit, HaltAmbiguous,
                ReconcileReturn, FindRetry, Save, disk, page
  <1>4. CASE DetectRetryExecuted(p) \/ DetectRetryAmbiguous(p) \/ DetectNothingToDo(p)
               \/ DetectCompleted(p) \/ DetectRetryAvailable(p) \/ AcceptReport(p) \/ RejectReport(p)
               \/ ConfirmLoad(p) \/ Resave(p) \/ Interrupt(p)
    BY <1>4 DEF DetectRetryExecuted, DetectRetryAmbiguous, DetectNothingToDo, DetectCompleted,
                DetectRetryAvailable, AcceptReport, TakeReport, RejectReport, ConfirmLoad,
                Resave, Interrupt, Save, disk, page
  <1>5. CASE WriteConfirmed(p)
    <2>1. /\ pc[p] = "reconcileWrite"
          /\ records' = [snap[p] EXCEPT ![op[p]] = "CONFIRMED"]
          /\ UNCHANGED <<active, checkpoint, ledger, clicks>>
      BY <1>2, <1>5 DEF WriteConfirmed, Observing, page
    <2>2. snap[p] = records /\ op[p] \in RetryKeys /\ op[p] \in Keys /\ records \in Records
      BY <2>1 DEF IntentInv, IntentWriting, Writing, AnswerInv, ContractOK, Reconciling, OpLabels,
                  TypeInv, LocalsOK, DiskOK
    <2>3. records[op[p]] = "PREPARED"
      BY <2>1, <2>2, KeyFacts DEF HeldInv, Holding
    <2> QED BY <2>1, <2>2, <2>3 DEF Records
  <1> QED BY <1>1, <1>2, <1>3, <1>4, <1>5 DEF Engine, Observing, HaltOnStop, HaltOnTask, BeginCycle,
           Prepare, PrepareWhen, WritePrepared, WriteCheckpoint, SaveRetry, ClickRetry,
           RetryButtonMissing, RetryClickRaises, PageNotReady, ClickSend, ClickRaises,
           SaveUncertain, SaveSubmitted, MarkReturned, ArchiveLoad, ArchiveWrite, ArchiveClear

\* With one process on the state directory a dry run changes nothing that a
\* later cycle acts on, but the record of a retry it found PREPARED.
THEOREM DryRunObserves == ASSUME Alone PROVE Spec => DryRunTouchesNoTask
  <1>1. Init => DryInv /\ HeldInv
    BY DEF Init, DryInv, HeldInv, Holding
  <1>2. TypeInv /\ IntentInv /\ AnswerInv /\ DryInv /\ HeldInv /\ [Next]_vars
        => \A p \in Procs : dry[p] /\ pc'[p] # pc[p] =>
              /\ UNCHANGED <<active, checkpoint, ledger, clicks>>
              /\ \A k \in Keys : records'[k] # records[k] =>
                    /\ k \in RetryKeys
                    /\ records[k] = "PREPARED" /\ records'[k] = "CONFIRMED"
    BY DryHolds
  <1> QED BY <1>1, <1>2, InitType, StepType, IntentInit, IntentStep, AnswerInit, AnswerStep,
             DryStep, HeldStep, PTL DEF Spec, DryRunTouchesNoTask

=============================================================================
