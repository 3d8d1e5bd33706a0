---------------------------- MODULE BridgeProofs ----------------------------
(***************************************************************************)
(* Theorems about Bridge, for every set of commands and of processes and   *)
(* every bound: type correctness, and what makes each browser operation    *)
(* happen at most once whatever crashes.                                   *)
(***************************************************************************)
EXTENDS Bridge, TLAPS

\* Labels at which a task, and an operation contract, are in hand.
TaskLabels == Labels \ {"idle", "orphanCheck", "intake"}
OpLabels == {"prepare", "writeRecord", "writeCheckpoint", "saveRetry", "clickRetry",
             "click", "clickRaised", "clicked", "confirmLoad", "confirmWrite",
             "reconcileLoad", "reconcileWrite"}

LocalsOK ==
    \A p \in Procs : /\ pc[p] \in TaskLabels => job[p] \in Tasks
                     /\ pc[p] \in OpLabels => op[p] \in Keys

DiskOK ==
    /\ active \in Tasks \cup {NoTask}
    /\ records \in Records
    /\ checkpoint \in BOOLEAN
    /\ ledger \subseteq Commands
    /\ estop \in BOOLEAN

CycleOK ==
    /\ pc \in [Procs -> Labels]
    /\ job \in [Procs -> Tasks \cup {NoTask}]
    /\ op \in [Procs -> Keys \cup {NoKey}]
    /\ snap \in [Procs -> Records]
    /\ entries \in [Procs -> SUBSET Commands]
    /\ report \in [Procs -> Commands \cup {NoCommand}]
    /\ dry \in [Procs -> BOOLEAN]
    /\ status \in [Procs -> Statuses]

PageOK ==
    /\ newest \in Commands \cup {NoCommand}
    /\ clicks \in [Keys -> Nat]
    /\ answered \subseteq Commands
    /\ reported \in SUBSET (Commands \X (Commands \cup {NoCommand}))
    /\ armed \subseteq Procs

FaultsOK == faults \in 0..MaxFaults

\* TypeOK with what holds of the task and the operation in hand.
TypeInv == DiskOK /\ CycleOK /\ PageOK /\ FaultsOK /\ LocalsOK

-----------------------------------------------------------------------------
(* Keys and tasks.                                                         *)

\* The keys of a command are keys; the fields of a key are in their ranges;
\* the empty key is none of them.
LEMMA KeyFacts ==
    /\ \A c \in Commands : SubmitKey(c) \in Keys /\ ReturnKey(c) \in Keys
    /\ \A c \in Commands, n \in 1..MaxRetries : RetryKey(c, n) \in Keys
    /\ \A k \in Keys : k.cmd \in Commands /\ k.attempt \in 0..MaxRetries
    /\ RetryKeys \subseteq Keys
    /\ NoKey \notin Keys
  <1>1. \A c \in Commands : SubmitKey(c) \in Keys /\ ReturnKey(c) \in Keys
    BY DEF Keys
  <1>2. \A c \in Commands, n \in 1..MaxRetries : RetryKey(c, n) \in Keys
    BY DEF Keys, RetryKeys
  <1>3. \A k \in Keys : k.cmd \in Commands /\ k.attempt \in 0..MaxRetries
    BY CommandAssumption DEF Keys, RetryKeys, SubmitKey, ReturnKey, RetryKey
  <1>4. RetryKeys \subseteq Keys
    BY DEF Keys
  <1>5. NoKey \notin Keys
    BY <1>3, CommandAssumption DEF NoKey
  <1> QED BY <1>1, <1>2, <1>3, <1>4, <1>5

\* A task keeps its type when its state moves to a state a file may carry.
LEMMA MoveType ==
    ASSUME NEW p \in Procs, job[p] \in Tasks, NEW s \in FileStates
    PROVE  MovedTo(p, s) \in Tasks /\ MovedTo(p, s).cmd = job[p].cmd
                                   /\ MovedTo(p, s).state = s
  BY DEF MovedTo, Tasks

LEMMA NoTaskFacts == NoTask \notin Tasks /\ NoTask.state = "NO_ACTIVE_TASK"
  BY DEF NoTask, Tasks, FileStates

-----------------------------------------------------------------------------
(* The end of a cycle and a jump keep the types of the locals.             *)

LEMMA EndCycleType ==
    ASSUME CycleOK, LocalsOK, NEW p \in Procs, NEW result \in Statuses, EndCycle(p, result)
    PROVE  CycleOK' /\ LocalsOK'
  <1>1. NoRecords \in Records
    BY DEF NoRecords, Records, RecordState
  <1>2. "idle" \in Labels /\ "idle" \notin TaskLabels /\ "idle" \notin OpLabels
    BY DEF Labels, TaskLabels, OpLabels
  <1> QED BY <1>1, <1>2 DEF CycleOK, LocalsOK, EndCycle

\* A landing click keeps the types of the page.
LEMMA LandsType ==
    ASSUME TypeInv, NEW p \in Procs, op[p] \in Keys, Lands(p)
    PROVE  PageOK'
  BY KeyFacts DEF TypeInv, PageOK, CycleOK, Lands

\* The steps that end the cycle and touch nothing but, possibly, the task file.
LEMMA EndingStepType ==
    ASSUME TypeInv, NEW p \in Procs, NEW result \in Statuses, EndCycle(p, result),
           active' \in Tasks \cup {NoTask},
           UNCHANGED <<records, checkpoint, ledger, estop, page>>, FaultsOK'
    PROVE  TypeInv'
  <1>1. CycleOK' /\ LocalsOK'
    BY EndCycleType DEF TypeInv
  <1>2. DiskOK' /\ PageOK'
    BY DEF TypeInv, DiskOK, PageOK, page
  <1> QED BY <1>1, <1>2 DEF TypeInv

\* The steps that go on at another label with the same task and operation.
LEMMA GotoStepType ==
    ASSUME TypeInv, NEW p \in Procs, NEW l \in Labels, Goto(p, l),
           pc[p] \in TaskLabels \/ l \notin TaskLabels,
           pc[p] \in OpLabels \/ l \notin OpLabels,
           UNCHANGED <<job, op, report>>, DiskOK', PageOK', FaultsOK'
    PROVE  TypeInv'
  <1>1. CycleOK'
    BY DEF TypeInv, CycleOK, Goto
  <1>2. LocalsOK'
    BY DEF TypeInv, CycleOK, LocalsOK, Goto
  <1> QED BY <1>1, <1>2 DEF TypeInv

\* The steps that go on at another label with a new task or operation.
LEMMA NewLocalsType ==
    ASSUME TypeInv, NEW p \in Procs, NEW l \in Labels, Goto(p, l),
           NEW t \in Tasks, job' = [job EXCEPT ![p] = t],
           NEW k \in Keys \cup {NoKey}, op' = [op EXCEPT ![p] = k],
           l \in OpLabels => k \in Keys,
           report' \in [Procs -> Commands \cup {NoCommand}],
           DiskOK', PageOK', FaultsOK'
    PROVE  TypeInv'
  <1>1. CycleOK'
    BY DEF TypeInv, CycleOK, Goto
  <1>2. LocalsOK'
    BY DEF TypeInv, CycleOK, LocalsOK, Goto
  <1> QED BY <1>1, <1>2 DEF TypeInv

-----------------------------------------------------------------------------
(* One lemma per group of actions.                                         *)

LEMMA StatusFacts ==
    "SUCCESS" \in Statuses /\ "HALTED" \in Statuses /\ "ORPHANED_STATE" \in Statuses
    /\ "ERROR" \in Statuses /\ "NONE" \in Statuses
  BY DEF Statuses

LEMMA StartType ==
    ASSUME TypeInv, NEW p \in Procs,
           HaltOnStop(p) \/ HaltOnTask(p) \/ (\E d \in DryRuns : BeginCycle(p, d)) \/ OrphanCheck(p)
    PROVE  TypeInv'
  <1> USE StatusFacts
  <1>1. CASE HaltOnStop(p)
    BY <1>1, EndingStepType DEF HaltOnStop, TypeInv, DiskOK, FaultsOK, disk
  <1>2. CASE HaltOnTask(p)
    BY <1>2, EndingStepType DEF HaltOnTask, TypeInv, DiskOK, FaultsOK, disk
  <1>3. CASE \E d \in DryRuns : BeginCycle(p, d)
    <2>1. PICK d \in DryRuns : BeginCycle(p, d)
      BY <1>3
    <2>2. d \in BOOLEAN
      BY BridgeAssumption
    <2>3. CASE d /\ active.state \in Finished
      BY <2>1, <2>3, EndingStepType DEF BeginCycle, TypeInv, DiskOK, FaultsOK, disk
    <2>4. CASE ~(d /\ active.state \in Finished)
      <3> DEFINE l == EntryLabel(active.state)
      <3>1. l \in Labels /\ (l \in TaskLabels => active \in Tasks) /\ l \notin OpLabels
        <4>1. active \in Tasks \/ active = NoTask
          BY DEF TypeInv, DiskOK
        <4>2. CASE active = NoTask
          <5>1. l = "orphanCheck"
            BY <4>2 DEF EntryLabel, NoTask, Finished, Intermediate, Polling
          <5> QED BY <5>1 DEF Labels, TaskLabels, OpLabels
        <4>3. CASE active \in Tasks
          <5>1. active.state \in FileStates \ Halted
            BY <4>3, <2>1 DEF Tasks, BeginCycle
          <5>2. l \in {"archiveLoad", "advance", "reconcile", "reconcileReturn", "findRetry"}
            BY <5>1 DEF EntryLabel, FileStates, TaskState, LegalTransitions, Halted,
                        Finished, Intermediate, Polling
          <5> QED BY <5>2, <4>3 DEF Labels, TaskLabels, OpLabels
        <4> QED BY <4>1, <4>2, <4>3
      <3>2. /\ pc' = [pc EXCEPT ![p] = l]
            /\ job' = [job EXCEPT ![p] = active]
            /\ dry' = [dry EXCEPT ![p] = d]
            /\ status' = [status EXCEPT ![p] = "NONE"]
            /\ UNCHANGED <<op, snap, entries, report>>
            /\ UNCHANGED <<disk, estop, page, faults>>
        BY <2>1, <2>4 DEF BeginCycle
      <3> HIDE DEF l
      <3>3. CycleOK'
        BY <3>1, <3>2, <2>2 DEF TypeInv, CycleOK, DiskOK
      <3>4. LocalsOK'
        BY <3>1, <3>2 DEF TypeInv, CycleOK, LocalsOK
      <3>5. DiskOK' /\ PageOK' /\ FaultsOK'
        BY <3>2 DEF TypeInv, DiskOK, PageOK, FaultsOK, disk, page
      <3> QED BY <3>3, <3>4, <3>5 DEF TypeInv
    <2> QED BY <2>3, <2>4
  <1>4. CASE OrphanCheck(p)
    <2>1. CASE EndCycle(p, "ORPHANED_STATE")
      BY <1>4, <2>1, EndingStepType DEF OrphanCheck, TypeInv, DiskOK, FaultsOK, disk
    <2>2. CASE Goto(p, "intake") /\ UNCHANGED <<job, op, report>>
      <3>1. "intake" \in Labels /\ "intake" \notin TaskLabels /\ "intake" \notin OpLabels
        BY DEF Labels, TaskLabels, OpLabels
      <3>2. DiskOK' /\ PageOK' /\ FaultsOK'
        BY <1>4 DEF OrphanCheck, TypeInv, DiskOK, PageOK, FaultsOK, disk, page
      <3> QED BY <3>1, <3>2, <2>2, GotoStepType
    <2> QED BY <1>4, <2>1, <2>2 DEF OrphanCheck
  <1> QED BY <1>1, <1>2, <1>3, <1>4

\* States the engine writes into the task file.
LEMMA FileStateFacts ==
    {"SUBMISSION_PREPARED", "WAITING_FOR_IMPLEMENTER", "IMPLEMENTER_RESPONSE_VALIDATED",
     "COMPLETED", "MANUAL_REVIEW_REQUIRED"} \subseteq FileStates
  BY DEF FileStates, TaskState, LegalTransitions

LEMMA LabelFacts ==
    /\ {"advance", "reconcile", "reconcileReturn", "findRetry", "detect", "inspect", "resave",
        "archiveLoad", "archiveWrite", "archiveClear"} \cup OpLabels \subseteq TaskLabels
    /\ TaskLabels \subseteq Labels
    /\ {"advance", "reconcile", "reconcileReturn", "findRetry", "detect", "inspect", "resave",
        "archiveLoad", "archiveWrite", "archiveClear", "intake", "orphanCheck"} \cap OpLabels = {}
  BY DEF Labels, TaskLabels, OpLabels

\* What a task in hand may be saved as, and what is then on disk.
LEMMA SaveType ==
    ASSUME TypeInv, NEW p \in Procs, NEW t \in Tasks, Save(p, t)
    PROVE  active' \in Tasks \cup {NoTask}
  BY DEF Save, TypeInv, DiskOK

LEMMA RecoveryType ==
    ASSUME TypeInv, NEW p \in Procs,
           Intake(p) \/ Advance(p) \/ ResumeProven(p) \/ Resubmit(p) \/ HaltAmbiguous(p)
                     \/ ReconcileReturn(p)
    PROVE  TypeInv'
  <1> USE StatusFacts, FileStateFacts
  <1>0. /\ pc[p] \in TaskLabels => job[p] \in Tasks
        /\ UNCHANGED page => PageOK'
        /\ UNCHANGED faults => FaultsOK'
        /\ op[p] \in Keys \cup {NoKey}
        /\ report \in [Procs -> Commands \cup {NoCommand}]
    BY DEF TypeInv, LocalsOK, PageOK, FaultsOK, CycleOK, page
  <1>1. CASE Intake(p)
    <2> DEFINE t == [cmd |-> newest, state |-> "SUBMISSION_PREPARED", retries |-> 0]
    <2>1. CASE newest = NoCommand \/ dry[p]
      BY <1>1, <2>1, <1>0, EndingStepType DEF Intake, TypeInv, DiskOK
    <2>2. CASE ~(newest = NoCommand \/ dry[p])
      <3>1. newest \in Commands /\ t \in Tasks
        BY <2>2, CommandAssumption DEF TypeInv, PageOK, Tasks
      <3>2. SubmitKey(newest) \in Keys
        BY <3>1, KeyFacts
      <3>3. /\ active' = t /\ job' = [job EXCEPT ![p] = t]
            /\ op' = [op EXCEPT ![p] = SubmitKey(newest)]
            /\ Goto(p, "prepare") /\ report' = report
            /\ UNCHANGED <<records, checkpoint, ledger, estop, page, faults>>
        BY <1>1, <2>2 DEF Intake
      <3> HIDE DEF t
      <3>4. DiskOK'
        BY <3>1, <3>3 DEF TypeInv, DiskOK
      <3>5. "prepare" \in Labels
        BY DEF Labels
      <3> QED BY <1>0, <3>1, <3>2, <3>3, <3>4, <3>5, NewLocalsType
    <2> QED BY <2>1, <2>2
  <1>2. CASE Advance(p)
    <2>1. MovedTo(p, "SUBMISSION_PREPARED") \in Tasks
      BY <1>0, <1>2, MoveType, LabelFacts DEF Advance
    <2>2. active' \in Tasks \cup {NoTask}
      BY <1>2, <2>1, SaveType DEF Advance
    <2>3. DiskOK'
      BY <1>2, <2>2 DEF Advance, TypeInv, DiskOK
    <2>4. op' = [op EXCEPT ![p] = op[p]]
      BY <1>2 DEF Advance, TypeInv, CycleOK
    <2> QED BY <1>0, <1>2, <2>1, <2>3, <2>4, NewLocalsType, LabelFacts DEF Advance
  <1>3. CASE ResumeProven(p)
    <2>1. MovedTo(p, "WAITING_FOR_IMPLEMENTER") \in Tasks
      BY <1>0, <1>3, MoveType, LabelFacts DEF ResumeProven
    <2>2. active' \in Tasks \cup {NoTask}
      BY <1>3, <2>1, SaveType DEF ResumeProven
    <2> QED BY <1>0, <1>3, <2>2, EndingStepType DEF ResumeProven
  <1>4. CASE Resubmit(p)
    <2>1. CASE dry[p]
      BY <1>0, <1>4, <2>1, EndingStepType DEF Resubmit, TypeInv, DiskOK, disk
    <2>2. CASE ~dry[p]
      <3>1. job[p] \in Tasks /\ job[p].cmd \in Commands
        BY <1>0, <1>4, LabelFacts DEF Resubmit, Tasks
      <3>2. SubmitKey(job[p].cmd) \in Keys
        BY <3>1, KeyFacts
      <3>3. job' = [job EXCEPT ![p] = job[p]] /\ DiskOK'
        BY <1>4, <2>2 DEF Resubmit, TypeInv, CycleOK, DiskOK, disk
      <3>4. op' = [op EXCEPT ![p] = SubmitKey(job[p].cmd)] /\ Goto(p, "prepare")
            /\ report' = report /\ UNCHANGED <<page, faults>>
        BY <1>4, <2>2 DEF Resubmit
      <3>5. "prepare" \in Labels
        BY DEF Labels
      <3> QED BY <1>0, <3>1, <3>2, <3>3, <3>4, <3>5, NewLocalsType
    <2> QED BY <2>1, <2>2
  <1>5. CASE HaltAmbiguous(p)
    <2>1. MovedTo(p, "MANUAL_REVIEW_REQUIRED") \in Tasks
      BY <1>0, <1>5, MoveType, LabelFacts DEF HaltAmbiguous
    <2>2. active' \in Tasks \cup {NoTask}
      BY <1>5, <2>1, SaveType DEF HaltAmbiguous
    <2> QED BY <1>0, <1>5, <2>2, EndingStepType DEF HaltAmbiguous
  <1>6. CASE ReconcileReturn(p)
    <2>1. CASE EndCycle(p, "SUCCESS")
      BY <1>0, <1>6, <2>1, EndingStepType DEF ReconcileReturn, TypeInv, DiskOK, disk
    <2>2. CASE /\ job' = [job EXCEPT ![p] = MovedTo(p, "COMPLETED")]
               /\ Goto(p, "archiveLoad")
               /\ UNCHANGED <<op, report>>
      <3>1. MovedTo(p, "COMPLETED") \in Tasks
        BY <1>0, <1>6, MoveType, LabelFacts DEF ReconcileReturn
      <3>2. op' = [op EXCEPT ![p] = op[p]] /\ DiskOK'
        BY <1>6, <2>2 DEF ReconcileReturn, TypeInv, CycleOK, DiskOK, disk
      <3>3. "archiveLoad" \in Labels /\ "archiveLoad" \notin OpLabels
        BY DEF Labels, OpLabels
      <3>4. PageOK' /\ FaultsOK' /\ report' \in [Procs -> Commands \cup {NoCommand}]
        BY <1>0, <1>6, <2>2 DEF ReconcileReturn
      <3> QED BY <1>0, <2>2, <3>1, <3>2, <3>3, <3>4, NewLocalsType
    <2> QED BY <1>6, <2>1, <2>2 DEF ReconcileReturn
  <1> QED BY <1>1, <1>2, <1>3, <1>4, <1>5, <1>6

LEMMA PollingType ==
    ASSUME TypeInv, NEW p \in Procs,
           FindRetry(p) \/ DetectRetryExecuted(p) \/ DetectRetryAmbiguous(p)
           \/ DetectNothingToDo(p) \/ DetectCompleted(p) \/ DetectRetryAvailable(p)
    PROVE  TypeInv'
  <1> USE StatusFacts, FileStateFacts
  <1>0. /\ pc[p] \in TaskLabels => job[p] \in Tasks
        /\ UNCHANGED disk /\ UNCHANGED estop => DiskOK'
        /\ UNCHANGED page => PageOK'
        /\ UNCHANGED faults => FaultsOK'
        /\ active \in Tasks \cup {NoTask}
        /\ op[p] \in Keys \cup {NoKey}
        /\ report \in [Procs -> Commands \cup {NoCommand}]
        /\ job = [job EXCEPT ![p] = job[p]] /\ op = [op EXCEPT ![p] = op[p]]
    BY DEF TypeInv, DiskOK, LocalsOK, PageOK, FaultsOK, CycleOK, page, disk
  <1>1. CASE FindRetry(p)
    <2>1. UNCHANGED <<disk, estop, page, faults>>
      BY <1>1 DEF FindRetry
    <2>2. CASE EndCycle(p, "ERROR")
      BY <1>0, <2>1, <2>2, EndingStepType DEF disk
    <2>3. ASSUME NEW k \in Keys \cup {NoKey}, op' = [op EXCEPT ![p] = k],
                 Goto(p, "detect"), UNCHANGED <<job, report>>
          PROVE  TypeInv'
      <3>1. job' = [job EXCEPT ![p] = job[p]] /\ job[p] \in Tasks
        BY <1>0, <1>1, <2>3, LabelFacts DEF FindRetry
      <3>2. "detect" \in Labels /\ "detect" \notin OpLabels
        BY LabelFacts
      <3>3. report' \in [Procs -> Commands \cup {NoCommand}]
        BY <1>0, <2>3
      <3> QED BY <1>0, <2>1, <2>3, <3>1, <3>2, <3>3, NewLocalsType
    <2>4. CASE Goto(p, "detect") /\ UNCHANGED <<job, op, report>>
      BY <1>0, <2>3, <2>4
    <2>5. PreparedRetries(records, job[p].cmd) \subseteq Keys
      BY KeyFacts DEF PreparedRetries
    <2> QED BY <1>1, <2>2, <2>3, <2>4, <2>5 DEF FindRetry
  <1>2. CASE DetectRetryExecuted(p)
    <2>1. op[p] \in Keys /\ job[p] \in Tasks
      BY <1>0, <1>2, LabelFacts DEF DetectRetryExecuted
    <2>2. "reconcileLoad" \in Labels
      BY DEF Labels
    <2>3. /\ Goto(p, "reconcileLoad") /\ UNCHANGED <<page, faults>> /\ DiskOK'
          /\ job' = [job EXCEPT ![p] = job[p]] /\ op' = [op EXCEPT ![p] = op[p]]
          /\ report' \in [Procs -> Commands \cup {NoCommand}]
      BY <1>0, <1>2 DEF DetectRetryExecuted
    <2> QED BY <1>0, <2>1, <2>2, <2>3, NewLocalsType
  <1>3. CASE DetectRetryAmbiguous(p)
    <2>1. MovedTo(p, "MANUAL_REVIEW_REQUIRED") \in Tasks
      BY <1>0, <1>3, MoveType, LabelFacts DEF DetectRetryAmbiguous
    <2>2. active' \in Tasks \cup {NoTask}
      BY <1>3, <2>1, SaveType DEF DetectRetryAmbiguous
    <2> QED BY <1>0, <1>3, <2>2, EndingStepType DEF DetectRetryAmbiguous
  <1>4. CASE DetectNothingToDo(p)
    BY <1>0, <1>4, EndingStepType DEF DetectNothingToDo, disk
  <1>5. CASE DetectCompleted(p)
    <2>1. /\ Goto(p, "inspect") /\ UNCHANGED <<job, op, report>>
          /\ DiskOK' /\ PageOK' /\ FaultsOK' /\ pc[p] \in TaskLabels
      BY <1>0, <1>5, LabelFacts DEF DetectCompleted
    <2>2. "inspect" \in Labels /\ "inspect" \notin OpLabels
      BY LabelFacts
    <2> QED BY <2>1, <2>2, GotoStepType
  <1>6. CASE DetectRetryAvailable(p)
    <2>1. CASE dry[p]
      BY <1>0, <1>6, <2>1, EndingStepType DEF DetectRetryAvailable, disk
    <2>2. CASE ~dry[p]
      <3>1. job[p] \in Tasks
        BY <1>0, <1>6, LabelFacts DEF DetectRetryAvailable
      <3>2. job[p].cmd \in Commands /\ job[p].retries + 1 \in 1..MaxRetries
        BY <1>6, <3>1, CommandAssumption DEF DetectRetryAvailable, Tasks
      <3>3. RetryKey(job[p].cmd, job[p].retries + 1) \in Keys
        BY <3>2, KeyFacts
      <3>4. "prepare" \in Labels
        BY DEF Labels
      <3>5. /\ op' = [op EXCEPT ![p] = RetryKey(job[p].cmd, job[p].retries + 1)]
            /\ Goto(p, "prepare") /\ job' = [job EXCEPT ![p] = job[p]]
            /\ report' \in [Procs -> Commands \cup {NoCommand}]
            /\ DiskOK' /\ PageOK' /\ FaultsOK'
        BY <1>0, <1>6, <2>2 DEF DetectRetryAvailable
      <3> QED BY <3>1, <3>3, <3>4, <3>5, NewLocalsType
    <2> QED BY <2>1, <2>2
  <1> QED BY <1>1, <1>2, <1>3, <1>4, <1>5, <1>6

LEMMA InspectType ==
    ASSUME TypeInv, NEW p \in Procs, AcceptReport(p) \/ RejectReport(p)
    PROVE  TypeInv'
  <1> USE StatusFacts, FileStateFacts
  <1>1. CASE AcceptReport(p)
    <2>1. PICK d \in Commands : TakeReport(p, d)
      BY <1>1 DEF AcceptReport, TypeInv, PageOK
    <2> DEFINE t == IF job[p].state = "WAITING_FOR_IMPLEMENTER"
                    THEN MovedTo(p, "IMPLEMENTER_RESPONSE_VALIDATED") ELSE job[p]
    <2>2. job[p] \in Tasks
      BY <1>1, LabelFacts DEF AcceptReport, TypeInv, LocalsOK
    <2>3. t \in Tasks /\ t.cmd \in Commands
      BY <2>2, MoveType DEF Tasks
    <2>4. /\ active' = active \/ Save(p, t)
          /\ IF dry[p] THEN EndCycle(p, "SUCCESS")
             ELSE /\ job' = [job EXCEPT ![p] = t]
                  /\ op' = [op EXCEPT ![p] = ReturnKey(t.cmd)]
                  /\ report' = [report EXCEPT ![p] = d]
                  /\ Goto(p, "prepare")
          /\ UNCHANGED <<records, checkpoint, ledger, estop, page, faults>>
      BY <2>1 DEF TakeReport
    <2> HIDE DEF t
    <2>5. active' \in Tasks \cup {NoTask}
      BY <2>3, <2>4, SaveType DEF TypeInv, DiskOK
    <2>6. DiskOK' /\ PageOK' /\ FaultsOK'
      BY <2>4, <2>5 DEF TypeInv, DiskOK, PageOK, FaultsOK, page
    <2>7. CASE dry[p]
      BY <2>4, <2>5, <2>6, <2>7, EndingStepType
    <2>8. CASE ~dry[p]
      <3>1. ReturnKey(t.cmd) \in Keys /\ "prepare" \in Labels
        BY <2>3, KeyFacts DEF Labels
      <3>2. report' \in [Procs -> Commands \cup {NoCommand}]
        BY <2>4, <2>8 DEF TypeInv, CycleOK
      <3> QED BY <2>3, <2>4, <2>6, <2>8, <3>1, <3>2, NewLocalsType
    <2> QED BY <2>7, <2>8
  <1>2. CASE RejectReport(p)
    BY <1>2, EndingStepType DEF RejectReport, disk, TypeInv, DiskOK, FaultsOK
  <1> QED BY <1>1, <1>2

LEMMA PrepareType ==
    ASSUME TypeInv, NEW p \in Procs,
           Prepare(p) \/ WritePrepared(p) \/ WriteCheckpoint(p) \/ SaveRetry(p)
    PROVE  TypeInv'
  <1> USE StatusFacts
  <1>0. /\ pc[p] \in TaskLabels => job[p] \in Tasks
        /\ pc[p] \in OpLabels => op[p] \in Keys
        /\ UNCHANGED disk /\ UNCHANGED estop => DiskOK'
        /\ UNCHANGED page => PageOK'
        /\ UNCHANGED faults => FaultsOK'
        /\ report \in [Procs -> Commands \cup {NoCommand}]
        /\ op = [op EXCEPT ![p] = op[p]]
    BY DEF TypeInv, DiskOK, LocalsOK, PageOK, FaultsOK, CycleOK, page, disk
  <1>1. CASE Prepare(p)
    <2>0. UNCHANGED <<disk, estop, page, faults>> /\ pc[p] = "prepare"
      BY <1>1 DEF Prepare, PrepareWhen
    <2>1. CASE EndCycle(p, "ERROR")
      BY <1>0, <2>0, <2>1, EndingStepType DEF disk, TypeInv, DiskOK
    <2>2. CASE /\ snap' = [snap EXCEPT ![p] = records]
               /\ pc' = [pc EXCEPT ![p] = "writeRecord"]
               /\ UNCHANGED <<job, op, entries, report, dry, status>>
      <3>1. "writeRecord" \in Labels /\ "prepare" \in TaskLabels /\ "prepare" \in OpLabels
        BY DEF Labels, TaskLabels, OpLabels
      <3>2. CycleOK'
        BY <2>2, <3>1 DEF TypeInv, CycleOK, DiskOK
      <3>3. LocalsOK'
        BY <2>0, <2>2, <3>1 DEF TypeInv, CycleOK, LocalsOK
      <3> QED BY <1>0, <2>0, <3>2, <3>3 DEF TypeInv
    <2> QED BY <1>1, <2>1, <2>2 DEF Prepare, PrepareWhen
  <1>2. CASE WritePrepared(p)
    <2>1. pc[p] \in TaskLabels /\ pc[p] \in OpLabels /\ "writeCheckpoint" \in Labels
      BY <1>2 DEF WritePrepared, Labels, TaskLabels, OpLabels
    <2>2. records' \in Records
      BY <1>2 DEF WritePrepared, TypeInv, CycleOK, Records, RecordState
    <2>3. DiskOK' /\ PageOK' /\ FaultsOK'
      BY <1>0, <1>2, <2>2 DEF WritePrepared, TypeInv, DiskOK
    <2> QED BY <1>2, <2>1, <2>3, GotoStepType DEF WritePrepared
  <1>3. CASE WriteCheckpoint(p)
    <2> DEFINE l == IF op[p].type = "GEMINI_RETRY" THEN "saveRetry" ELSE "click"
    <2>1. pc[p] \in TaskLabels /\ pc[p] \in OpLabels /\ l \in Labels
      BY <1>3 DEF WriteCheckpoint, Labels, TaskLabels, OpLabels
    <2>2. DiskOK' /\ PageOK' /\ FaultsOK'
      BY <1>0, <1>3 DEF WriteCheckpoint, TypeInv, DiskOK
    <2>3. Goto(p, l) /\ UNCHANGED <<job, op, report>>
      BY <1>3 DEF WriteCheckpoint
    <2> HIDE DEF l
    <2> QED BY <2>1, <2>2, <2>3, GotoStepType
  <1>4. CASE SaveRetry(p)
    <2> DEFINE t == [job[p] EXCEPT !.retries = op[p].attempt]
    <2>1. job[p] \in Tasks /\ op[p] \in Keys
      BY <1>0, <1>4 DEF SaveRetry, TaskLabels, OpLabels, Labels
    <2>2. t \in Tasks
      BY <2>1, KeyFacts DEF Tasks
    <2>3. /\ job' = [job EXCEPT ![p] = t] /\ active' = t /\ Goto(p, "clickRetry")
          /\ UNCHANGED <<op, report, records, checkpoint, ledger, estop, page, faults>>
      BY <1>4 DEF SaveRetry
    <2> HIDE DEF t
    <2>4. DiskOK' /\ PageOK' /\ FaultsOK'
      BY <1>0, <2>2, <2>3 DEF TypeInv, DiskOK
    <2>5. "clickRetry" \in Labels /\ op' = [op EXCEPT ![p] = op[p]]
      BY <1>0, <2>3 DEF Labels
    <2> QED BY <1>0, <2>1, <2>2, <2>3, <2>4, <2>5, NewLocalsType
  <1> QED BY <1>1, <1>2, <1>3, <1>4

LEMMA ClickType ==
    ASSUME TypeInv, NEW p \in Procs,
           ClickRetry(p) \/ RetryButtonMissing(p) \/ RetryClickRaises(p) \/ PageNotReady(p)
           \/ ClickSend(p) \/ ClickRaises(p)
    PROVE  TypeInv'
  <1> USE StatusFacts, FileStateFacts
  <1>0. /\ pc[p] \in {"clickRetry", "click"}
        /\ "clickRetry" \in OpLabels /\ "click" \in OpLabels
        /\ {"confirmLoad", "clicked", "clickRaised"} \subseteq Labels
    BY DEF ClickRetry, RetryButtonMissing, RetryClickRaises, PageNotReady, ClickSend,
           ClickRaises, OpLabels, Labels
  <1>1. op[p] \in Keys /\ job[p] \in Tasks /\ pc[p] \in TaskLabels /\ pc[p] \in OpLabels
    BY <1>0, LabelFacts DEF TypeInv, LocalsOK
  <1>2. /\ UNCHANGED disk /\ UNCHANGED estop => DiskOK'
        /\ UNCHANGED page \/ Lands(p) => PageOK'
        /\ UNCHANGED faults => FaultsOK'
    BY <1>1, LandsType DEF TypeInv, DiskOK, PageOK, FaultsOK, page, disk
  <1>3. CASE ClickRetry(p)
    BY <1>0, <1>1, <1>2, <1>3, GotoStepType DEF ClickRetry
  <1>4. CASE RetryButtonMissing(p)
    BY <1>2, <1>4, EndingStepType DEF RetryButtonMissing, disk, TypeInv, DiskOK
  <1>5. CASE RetryClickRaises(p)
    <2>1. CycleOK' /\ LocalsOK'
      BY <1>5, EndCycleType DEF RetryClickRaises, TypeInv
    <2> QED BY <1>2, <1>5, <2>1 DEF RetryClickRaises, TypeInv
  <1>6. CASE PageNotReady(p)
    <2>1. active' \in Tasks \cup {NoTask}
      BY <1>1, <1>6, MoveType DEF PageNotReady
    <2> QED BY <1>2, <1>6, <2>1, EndingStepType DEF PageNotReady
  <1>7. CASE ClickSend(p)
    BY <1>0, <1>1, <1>2, <1>7, GotoStepType DEF ClickSend
  <1>8. CASE ClickRaises(p)
    BY <1>0, <1>1, <1>2, <1>8, GotoStepType DEF ClickRaises
  <1>9. \/ ClickRetry(p) \/ RetryButtonMissing(p) \/ RetryClickRaises(p) \/ PageNotReady(p)
        \/ ClickSend(p) \/ ClickRaises(p)
    OBVIOUS
  <1> QED BY <1>3, <1>4, <1>5, <1>6, <1>7, <1>8, <1>9

LEMMA AfterClickType ==
    ASSUME TypeInv, NEW p \in Procs,
           SaveUncertain(p) \/ SaveSubmitted(p) \/ MarkReturned(p)
    PROVE  TypeInv'
  <1> USE StatusFacts, FileStateFacts
  <1>0. /\ pc[p] \in {"clickRaised", "clicked"}
        /\ "clickRaised" \in OpLabels /\ "clicked" \in OpLabels
        /\ "confirmLoad" \in Labels
    BY DEF SaveUncertain, SaveSubmitted, MarkReturned, OpLabels, Labels
  <1>1. op[p] \in Keys /\ job[p] \in Tasks
    BY <1>0, LabelFacts DEF TypeInv, LocalsOK
  <1>2. /\ UNCHANGED disk /\ UNCHANGED estop => DiskOK'
        /\ UNCHANGED page => PageOK'
        /\ UNCHANGED faults => FaultsOK'
        /\ report \in [Procs -> Commands \cup {NoCommand}]
        /\ op = [op EXCEPT ![p] = op[p]]
    BY DEF TypeInv, DiskOK, PageOK, FaultsOK, CycleOK, page, disk
  <1>3. CASE SaveUncertain(p)
    <2>1. active' \in Tasks \cup {NoTask}
      BY <1>1, <1>3, MoveType DEF SaveUncertain
    <2> QED BY <1>2, <1>3, <2>1, EndingStepType DEF SaveUncertain
  <1>4. CASE SaveSubmitted(p)
    <2>1. MovedTo(p, "WAITING_FOR_IMPLEMENTER") \in Tasks
      BY <1>1, MoveType
    <2>2. DiskOK' /\ PageOK' /\ FaultsOK'
      BY <1>2, <1>4, <2>1 DEF SaveSubmitted, TypeInv, DiskOK
    <2> QED BY <1>0, <1>1, <1>2, <1>4, <2>1, <2>2, NewLocalsType DEF SaveSubmitted
  <1>5. CASE MarkReturned(p)
    <2>1. CASE EndCycle(p, "ERROR")
      BY <1>2, <1>5, <2>1, EndingStepType DEF MarkReturned, disk, TypeInv, DiskOK
    <2>2. CASE /\ job' = [job EXCEPT ![p] = MovedTo(p, "COMPLETED")]
               /\ Goto(p, "confirmLoad") /\ UNCHANGED <<op, report>>
      <3>1. MovedTo(p, "COMPLETED") \in Tasks
        BY <1>1, MoveType
      <3>2. DiskOK' /\ PageOK' /\ FaultsOK'
        BY <1>2, <1>5 DEF MarkReturned
      <3> QED BY <1>0, <1>1, <1>2, <2>2, <3>1, <3>2, NewLocalsType
    <2> QED BY <1>5, <2>1, <2>2 DEF MarkReturned
  <1> QED BY <1>3, <1>4, <1>5

LEMMA FinishType ==
    ASSUME TypeInv, NEW p \in Procs,
           ConfirmLoad(p) \/ WriteConfirmed(p) \/ Resave(p)
               \/ ArchiveLoad(p) \/ ArchiveWrite(p) \/ ArchiveClear(p)
    PROVE  TypeInv'
  <1> USE StatusFacts
  <1>0. /\ pc[p] \in {"confirmLoad", "reconcileLoad", "confirmWrite", "reconcileWrite",
                      "resave", "archiveLoad", "archiveWrite", "archiveClear"}
        /\ pc[p] \in TaskLabels
    BY DEF ConfirmLoad, WriteConfirmed, Resave, ArchiveLoad, ArchiveWrite, ArchiveClear,
           TaskLabels, Labels
  <1>1. job[p] \in Tasks /\ job[p].cmd \in Commands
    BY <1>0 DEF TypeInv, LocalsOK, Tasks
  <1>2. /\ UNCHANGED disk /\ UNCHANGED estop => DiskOK'
        /\ UNCHANGED page => PageOK'
        /\ UNCHANGED faults => FaultsOK'
    BY DEF TypeInv, DiskOK, PageOK, FaultsOK, CycleOK, page, disk
  <1>3. CASE ConfirmLoad(p)
    <2>1. CASE EndCycle(p, "ERROR")
      BY <1>2, <1>3, <2>1, EndingStepType DEF ConfirmLoad, disk, TypeInv, DiskOK
    <2>2. CASE ~EndCycle(p, "ERROR")
      <3> DEFINE l == IF pc[p] = "confirmLoad" THEN "confirmWrite" ELSE "reconcileWrite"
      <3>1. l \in Labels /\ l \in OpLabels /\ pc[p] \in OpLabels
        BY <1>3 DEF ConfirmLoad, Labels, OpLabels
      <3>2. /\ snap' = [snap EXCEPT ![p] = records]
            /\ pc' = [pc EXCEPT ![p] = l]
            /\ UNCHANGED <<job, op, entries, report, dry, status>>
            /\ UNCHANGED <<disk, estop, page, faults>>
        BY <1>3, <2>2 DEF ConfirmLoad
      <3> HIDE DEF l
      <3>3. CycleOK'
        BY <3>1, <3>2 DEF TypeInv, CycleOK, DiskOK
      <3>4. LocalsOK'
        BY <1>0, <3>1, <3>2 DEF TypeInv, CycleOK, LocalsOK
      <3> QED BY <1>2, <3>2, <3>3, <3>4 DEF TypeInv
    <2> QED BY <2>1, <2>2
  <1>4. CASE WriteConfirmed(p)
    <2>1. records' \in Records
      BY <1>4 DEF WriteConfirmed, TypeInv, CycleOK, Records, RecordState
    <2>2. DiskOK' /\ PageOK' /\ FaultsOK'
      BY <1>2, <1>4, <2>1 DEF WriteConfirmed, TypeInv, DiskOK
    <2>3. CASE EndCycle(p, "SUCCESS")
      BY <2>2, <2>3, EndCycleType DEF TypeInv
    <2>4. CASE (Goto(p, "resave") \/ Goto(p, "archiveLoad")) /\ UNCHANGED <<job, op, report>>
      <3>1. {"resave", "archiveLoad"} \subseteq Labels \ OpLabels
        BY LabelFacts
      <3> QED BY <1>0, <2>2, <2>4, <3>1, GotoStepType
    <2> QED BY <1>4, <2>3, <2>4 DEF WriteConfirmed
  <1>5. CASE Resave(p)
    <2>1. active' \in Tasks \cup {NoTask}
      BY <1>1, <1>5, SaveType DEF Resave
    <2> QED BY <1>2, <1>5, <2>1, EndingStepType DEF Resave
  <1>6. CASE ArchiveLoad(p)
    <2>1. DiskOK' /\ PageOK' /\ FaultsOK'
      BY <1>2, <1>6 DEF ArchiveLoad
    <2>2. "archiveWrite" \in Labels \ OpLabels
      BY LabelFacts
    <2>3. CycleOK'
      BY <1>6, <2>2 DEF ArchiveLoad, TypeInv, CycleOK, DiskOK
    <2>4. LocalsOK'
      BY <1>0, <1>6, <2>2 DEF ArchiveLoad, TypeInv, CycleOK, LocalsOK
    <2> QED BY <2>1, <2>3, <2>4 DEF TypeInv
  <1>8. CASE ArchiveWrite(p)
    <2>1. ledger' \subseteq Commands
      BY <1>1, <1>8 DEF ArchiveWrite, Archive, TypeInv, CycleOK
    <2>2. DiskOK' /\ PageOK' /\ FaultsOK'
      BY <1>2, <1>8, <2>1 DEF ArchiveWrite, TypeInv, DiskOK
    <2>3. "archiveClear" \in Labels \ OpLabels
      BY LabelFacts
    <2> QED BY <1>0, <1>8, <2>2, <2>3, GotoStepType DEF ArchiveWrite
  <1>7. CASE ArchiveClear(p)
    BY <1>2, <1>7, EndingStepType DEF ArchiveClear
  <1> QED BY <1>3, <1>4, <1>5, <1>6, <1>7, <1>8

LEMMA InterruptType ==
    ASSUME TypeInv, NEW p \in Procs, Interrupt(p)
    PROVE  TypeInv'
  <1>1. PICK result \in {"NONE", "ERROR"} : EndCycle(p, result)
    BY DEF Interrupt
  <1>2. CycleOK' /\ LocalsOK'
    BY <1>1, EndCycleType, StatusFacts DEF TypeInv
  <1>3. DiskOK' /\ PageOK'
    BY DEF Interrupt, TypeInv, DiskOK, PageOK, disk, page
  <1>4. FaultsOK'
    BY BridgeAssumption DEF Interrupt, TypeInv, FaultsOK
  <1> QED BY <1>2, <1>3, <1>4 DEF TypeInv

LEMMA OutsideType ==
    ASSUME TypeInv, Environment \/ Operator
    PROVE  TypeInv'
  <1>1. UNCHANGED cycle
    BY DEF Environment, Operator, SupervisorPosts, GeminiAnswers, EngageStop, ReleaseStop,
           OperatorClearsTask, OperatorClearsCheckpoint, OperatorUpdatesTask
  <1>2. CycleOK' /\ LocalsOK'
    BY <1>1 DEF cycle, TypeInv, CycleOK, LocalsOK
  <1>3. CASE Environment
    BY <1>2, <1>3 DEF Environment, SupervisorPosts, GeminiAnswers, EngageStop, ReleaseStop,
           disk, page, TypeInv, DiskOK, PageOK, FaultsOK
  <1>4. CASE Operator
    <2>1. active' \in Tasks \cup {NoTask}
      <3>1. CASE \E state \in OperatorStates : OperatorUpdatesTask(state)
        <4>1. PICK state \in FileStates : OperatorUpdatesTask(state)
          BY <3>1, BridgeAssumption
        <4>2. active \in Tasks
          BY <4>1, NoTaskFacts DEF OperatorUpdatesTask, Halted, TypeInv, DiskOK
        <4> QED BY <4>1, <4>2 DEF OperatorUpdatesTask, Tasks
      <3>2. CASE OperatorClearsTask \/ OperatorClearsCheckpoint
        BY <3>2 DEF OperatorClearsTask, OperatorClearsCheckpoint, TypeInv, DiskOK
      <3> QED BY <1>4, <3>1, <3>2 DEF Operator
    <2>2. /\ records' = records /\ ledger' = ledger /\ estop' = estop
          /\ checkpoint' \in BOOLEAN /\ UNCHANGED page /\ faults' = faults
      BY <1>4 DEF Operator, OperatorClearsTask, OperatorClearsCheckpoint,
                  OperatorUpdatesTask, TypeInv, DiskOK
    <2> QED BY <1>2, <2>1, <2>2 DEF TypeInv, DiskOK, PageOK, FaultsOK, page
  <1> QED BY <1>3, <1>4

-----------------------------------------------------------------------------
(* Type correctness.                                                       *)

LEMMA InitType == Init => TypeInv
  <1> SUFFICES ASSUME Init PROVE TypeInv
    OBVIOUS
  <1>1. NoRecords \in Records
    BY DEF NoRecords, Records, RecordState
  <1>2. DiskOK
    BY <1>1 DEF Init, DiskOK
  <1>3. CycleOK
    BY <1>1 DEF Init, CycleOK, Labels, Statuses
  <1>4. PageOK /\ FaultsOK
    BY BridgeAssumption DEF Init, PageOK, FaultsOK
  <1>5. LocalsOK
    BY DEF Init, LocalsOK, TaskLabels, OpLabels
  <1> QED BY <1>2, <1>3, <1>4, <1>5 DEF TypeInv

LEMMA StepType == TypeInv /\ [Next]_vars => TypeInv'
  <1> SUFFICES ASSUME TypeInv, [Next]_vars PROVE TypeInv'
    OBVIOUS
  <1>1. ASSUME NEW p \in Procs, Engine(p) PROVE TypeInv'
    BY <1>1, StartType, RecoveryType, PollingType, InspectType, PrepareType, ClickType,
       AfterClickType, FinishType DEF Engine
  <1>2. ASSUME NEW p \in Procs, Interrupt(p) PROVE TypeInv'
    BY <1>2, InterruptType
  <1>3. CASE Environment \/ Operator
    BY <1>3, OutsideType
  <1>4. CASE UNCHANGED vars
    BY <1>4 DEF vars, disk, cycle, page, TypeInv, DiskOK, CycleOK, PageOK, FaultsOK, LocalsOK
  <1> QED BY <1>1, <1>2, <1>3, <1>4 DEF Next

\* Every reachable state is well typed, for every instance: in particular a
\* cycle never reaches a label without the task or the contract it needs.
THEOREM TypeCorrect == Spec => []TypeOK
  <1>1. TypeInv => TypeOK
    BY DEF TypeInv, DiskOK, CycleOK, PageOK, FaultsOK, TypeOK
  <1> QED BY <1>1, InitType, StepType, PTL DEF Spec

-----------------------------------------------------------------------------
(* Why an operation is made at most once: what a cycle knows of the        *)
(* records between prepare_operation and the confirmation.  This holds     *)
(* when a single process uses the state directory; with two of them TLC    *)
(* finds the counterexamples of the README.                                *)

\* Labels at which a cycle relies on the records being as it left them.
Armed == {"writeCheckpoint", "saveRetry", "clickRetry", "click"}
Writing == {"confirmWrite", "reconcileWrite"}
Relying == {"writeRecord"} \cup Armed \cup Writing

\* About to write PREPARED: the loaded records are current, the key is new.
IntentFresh(p) == pc[p] = "writeRecord" => snap[p] = records /\ records[op[p]] = "NONE"

\* About to click: the key is PREPARED on disk and was never clicked.
IntentArmed(p) == pc[p] \in Armed => records[op[p]] = "PREPARED" /\ clicks[op[p]] = 0

\* About to write CONFIRMED: the loaded records are current.
IntentWriting(p) == pc[p] \in Writing => snap[p] = records

IntentInv ==
    /\ AtMostOnce
    /\ IntentOnDisk
    /\ \A p \in Procs : IntentFresh(p) /\ IntentArmed(p) /\ IntentWriting(p)

\* The processes that share the state directory are at most one.
Alone == \A p, q \in Procs : p = q

-----------------------------------------------------------------------------
(* Steps that neither click, nor touch the records, nor rely on them next. *)

\* p goes to a label at which it relies on nothing.
Quiet(p) ==
    /\ UNCHANGED <<records, clicks>>
    /\ \E l \in Labels \ Relying : pc' = [pc EXCEPT ![p] = l]

LEMMA QuietStep ==
    ASSUME TypeInv, Alone, IntentInv, NEW p \in Procs, Quiet(p)
    PROVE  IntentInv'
  <1>1. AtMostOnce' /\ IntentOnDisk'
    BY DEF Quiet, IntentInv, AtMostOnce, IntentOnDisk
  <1>2. ASSUME NEW q \in Procs PROVE pc'[q] \notin Relying
    BY DEF Quiet, Alone, TypeInv, CycleOK
  <1> QED BY <1>1, <1>2 DEF IntentInv, IntentFresh, IntentArmed, IntentWriting, Relying

\* Labels that rely on nothing, among those a step may lead to.
LEMMA RestingLabels ==
    {"idle", "orphanCheck", "intake", "advance", "reconcile", "reconcileReturn", "findRetry",
     "detect", "inspect", "prepare", "clickRaised", "clicked", "confirmLoad",
     "reconcileLoad", "resave", "archiveLoad", "archiveWrite", "archiveClear"} \subseteq Labels \ Relying
  BY DEF Labels, Relying, Armed, Writing

LEMMA QuietEnd ==
    ASSUME NEW p \in Procs, NEW result, EndCycle(p, result), UNCHANGED <<records, clicks>>
    PROVE  Quiet(p)
  BY RestingLabels DEF EndCycle, Quiet

LEMMA QuietGoto ==
    ASSUME NEW p \in Procs, NEW l \in Labels \ Relying, Goto(p, l), UNCHANGED <<records, clicks>>
    PROVE  Quiet(p)
  BY DEF Goto, Quiet

\* The label at which a task that is not halted is taken up.
LEMMA EntryLabels ==
    ASSUME active \in Tasks \cup {NoTask}, active.state \notin Halted
    PROVE  EntryLabel(active.state) \in {"orphanCheck", "archiveLoad", "advance", "reconcile",
                                         "reconcileReturn", "findRetry"}
  <1>1. CASE active = NoTask
    BY <1>1 DEF EntryLabel, NoTask, Finished, Intermediate, Polling
  <1>2. CASE active \in Tasks
    BY <1>2 DEF Tasks, EntryLabel, FileStates, TaskState, LegalTransitions, Halted, Finished,
                Intermediate, Polling
  <1> QED BY <1>1, <1>2

LEMMA QuietBeginning ==
    ASSUME TypeInv, NEW p \in Procs,
           HaltOnStop(p) \/ HaltOnTask(p) \/ (\E d \in DryRuns : BeginCycle(p, d))
               \/ OrphanCheck(p) \/ Intake(p)
    PROVE  Quiet(p)
  <1>1. CASE HaltOnStop(p) \/ HaltOnTask(p)
    BY <1>1, QuietEnd DEF HaltOnStop, HaltOnTask, disk, page
  <1>2. CASE \E d \in DryRuns : BeginCycle(p, d)
    <2>1. PICK d \in DryRuns : BeginCycle(p, d)
      BY <1>2
    <2>2. UNCHANGED <<records, clicks>> /\ active.state \notin Halted
      BY <2>1 DEF BeginCycle, disk, page
    <2>3. CASE EndCycle(p, "SUCCESS")
      BY <2>2, <2>3, QuietEnd
    <2>4. CASE pc' = [pc EXCEPT ![p] = EntryLabel(active.state)]
      BY <2>2, <2>4, EntryLabels, RestingLabels DEF Quiet, TypeInv, DiskOK
    <2> QED BY <2>1, <2>3, <2>4 DEF BeginCycle
  <1>3. CASE OrphanCheck(p)
    BY <1>3, QuietEnd, QuietGoto, RestingLabels DEF OrphanCheck, disk, page
  <1>4. CASE Intake(p)
    BY <1>4, QuietEnd, QuietGoto, RestingLabels DEF Intake, page
  <1> QED BY <1>1, <1>2, <1>3, <1>4

LEMMA QuietMiddle ==
    ASSUME NEW p \in Procs,
           Advance(p) \/ ResumeProven(p) \/ Resubmit(p) \/ HaltAmbiguous(p)
               \/ ReconcileReturn(p) \/ FindRetry(p) \/ DetectRetryExecuted(p)
               \/ DetectRetryAmbiguous(p) \/ DetectNothingToDo(p) \/ DetectCompleted(p)
               \/ DetectRetryAvailable(p) \/ AcceptReport(p) \/ RejectReport(p)
    PROVE  Quiet(p)
  <1> USE QuietEnd, QuietGoto, RestingLabels
  <1>1. CASE Advance(p) \/ ResumeProven(p) \/ HaltAmbiguous(p)
    BY <1>1 DEF Advance, ResumeProven, HaltAmbiguous, page
  <1>2. CASE Resubmit(p)
    BY <1>2 DEF Resubmit, disk, page
  <1>3. CASE ReconcileReturn(p)
    BY <1>3 DEF ReconcileReturn, disk, page
  <1>4. CASE FindRetry(p)
    BY <1>4 DEF FindRetry, disk, page
  <1>5. CASE DetectRetryExecuted(p) \/ DetectRetryAmbiguous(p) \/ DetectNothingToDo(p)
                 \/ DetectCompleted(p) \/ DetectRetryAvailable(p)
    BY <1>5 DEF DetectRetryExecuted, DetectRetryAmbiguous, DetectNothingToDo,
                DetectCompleted, DetectRetryAvailable, disk, page
  <1>6. CASE AcceptReport(p)
    <2>1. PICK d \in answered : TakeReport(p, d)
      BY <1>6 DEF AcceptReport
    <2> QED BY <2>1 DEF TakeReport, page
  <1>7. CASE RejectReport(p)
    BY <1>7 DEF RejectReport, disk, page
  <1> QED BY <1>1, <1>2, <1>3, <1>4, <1>5, <1>6, <1>7

LEMMA QuietFinish ==
    ASSUME NEW p \in Procs,
           RetryButtonMissing(p) \/ PageNotReady(p) \/ SaveUncertain(p) \/ SaveSubmitted(p)
               \/ MarkReturned(p) \/ Resave(p) \/ ArchiveLoad(p) \/ ArchiveWrite(p)
               \/ ArchiveClear(p) \/ Interrupt(p)
    PROVE  Quiet(p)
  <1> USE QuietEnd, QuietGoto, RestingLabels
  <1>1. CASE RetryButtonMissing(p) \/ PageNotReady(p) \/ SaveUncertain(p)
    BY <1>1 DEF RetryButtonMissing, PageNotReady, SaveUncertain, disk, page
  <1>2. CASE SaveSubmitted(p) \/ MarkReturned(p)
    BY <1>2 DEF SaveSubmitted, MarkReturned, disk, page
  <1>3. CASE Resave(p) \/ ArchiveWrite(p) \/ ArchiveClear(p)
    BY <1>3 DEF Resave, ArchiveWrite, ArchiveClear, page
  <1>5. CASE ArchiveLoad(p)
    BY <1>5 DEF ArchiveLoad, Quiet, disk, page
  <1>4. CASE Interrupt(p)
    BY <1>4 DEF Interrupt, disk, page
  <1> QED BY <1>1, <1>2, <1>3, <1>4, <1>5

-----------------------------------------------------------------------------
(* The steps around the click.                                             *)

LEMMA PrepareStep ==
    ASSUME TypeInv, Alone, IntentInv, NEW p \in Procs,
           Prepare(p) \/ WritePrepared(p) \/ WriteCheckpoint(p) \/ SaveRetry(p)
    PROVE  IntentInv'
  <1>0. \A q \in Procs : q = p
    BY DEF Alone
  <1>1. CASE Prepare(p)
    <2>1. CASE EndCycle(p, "ERROR")
      <3>1. Quiet(p)
        BY <1>1, <2>1, QuietEnd DEF Prepare, PrepareWhen, disk, page
      <3> QED BY <3>1, QuietStep
    <2>2. CASE ~EndCycle(p, "ERROR")
      <3>1. /\ records[op[p]] = "NONE"
            /\ snap' = [snap EXCEPT ![p] = records]
            /\ pc' = [pc EXCEPT ![p] = "writeRecord"]
            /\ UNCHANGED <<op, records, clicks>>
        BY <1>1, <2>2 DEF Prepare, PrepareWhen, disk, page
      <3>2. pc'[p] = "writeRecord" /\ snap'[p] = records
        BY <3>1 DEF TypeInv, CycleOK
      <3>3. IntentFresh(p)' /\ IntentArmed(p)' /\ IntentWriting(p)'
        BY <3>1, <3>2 DEF IntentFresh, IntentArmed, IntentWriting, Armed, Writing
      <3>4. AtMostOnce' /\ IntentOnDisk'
        BY <3>1 DEF IntentInv, AtMostOnce, IntentOnDisk
      <3> QED BY <1>0, <3>3, <3>4 DEF IntentInv
    <2> QED BY <2>1, <2>2
  <1>2. CASE WritePrepared(p)
    <2>1. /\ pc[p] = "writeRecord" /\ pc' = [pc EXCEPT ![p] = "writeCheckpoint"]
          /\ records' = [snap[p] EXCEPT ![op[p]] = "PREPARED"]
          /\ UNCHANGED <<op, clicks>>
      BY <1>2 DEF WritePrepared, Goto, page
    <2>2. snap[p] = records /\ records[op[p]] = "NONE" /\ op[p] \in Keys
      BY <2>1 DEF IntentInv, IntentFresh, TypeInv, LocalsOK, OpLabels
    <2>3. records' = [records EXCEPT ![op[p]] = "PREPARED"] /\ records \in Records
      BY <2>1, <2>2 DEF TypeInv, DiskOK
    <2>4. clicks[op[p]] = 0
      BY <2>2 DEF IntentInv, IntentOnDisk, TypeInv, PageOK
    <2>5. AtMostOnce' /\ IntentOnDisk'
      BY <2>1, <2>2, <2>3 DEF IntentInv, AtMostOnce, IntentOnDisk, Records
    <2>6. pc'[p] = "writeCheckpoint" /\ records'[op'[p]] = "PREPARED" /\ clicks'[op'[p]] = 0
      BY <2>1, <2>2, <2>3, <2>4 DEF TypeInv, CycleOK, Records
    <2>7. IntentFresh(p)' /\ IntentArmed(p)' /\ IntentWriting(p)'
      BY <2>6 DEF IntentFresh, IntentArmed, IntentWriting, Writing
    <2> QED BY <1>0, <2>5, <2>7 DEF IntentInv
  <1>3. CASE WriteCheckpoint(p) \/ SaveRetry(p)
    <2>1. /\ pc[p] \in Armed
          /\ \E l \in Armed : pc' = [pc EXCEPT ![p] = l]
          /\ UNCHANGED <<op, records, clicks>>
      BY <1>3 DEF WriteCheckpoint, SaveRetry, Goto, Armed, page
    <2>2. pc'[p] \in Armed
      BY <2>1 DEF TypeInv, CycleOK
    <2>3. IntentFresh(p)' /\ IntentArmed(p)' /\ IntentWriting(p)'
      BY <2>1, <2>2 DEF IntentInv, IntentFresh, IntentArmed, IntentWriting, Armed, Writing
    <2>4. AtMostOnce' /\ IntentOnDisk'
      BY <2>1 DEF IntentInv, AtMostOnce, IntentOnDisk
    <2> QED BY <1>0, <2>3, <2>4 DEF IntentInv
  <1> QED BY <1>1, <1>2, <1>3

\* A landing click: the key was armed, so it is the first click for it.
LEMMA LandingStep ==
    ASSUME TypeInv, Alone, IntentInv, NEW p \in Procs, pc[p] \in {"click", "clickRetry"},
           Lands(p), records' = records,
           NEW l \in Labels \ Relying, pc' = [pc EXCEPT ![p] = l]
    PROVE  IntentInv'
  <1>1. op[p] \in Keys /\ records[op[p]] = "PREPARED" /\ clicks[op[p]] = 0
    BY DEF TypeInv, LocalsOK, OpLabels, IntentInv, IntentArmed, Armed
  <1>2. clicks' = [clicks EXCEPT ![op[p]] = 1]
    BY <1>1 DEF Lands, TypeInv, PageOK
  <1>3. AtMostOnce' /\ IntentOnDisk'
    BY <1>1, <1>2 DEF TypeInv, PageOK, IntentInv, AtMostOnce, IntentOnDisk
  <1>4. ASSUME NEW q \in Procs PROVE pc'[q] \notin Relying
    BY DEF Alone, TypeInv, CycleOK
  <1> QED BY <1>3, <1>4 DEF IntentInv, IntentFresh, IntentArmed, IntentWriting, Relying

LEMMA ClickStep ==
    ASSUME TypeInv, Alone, IntentInv, NEW p \in Procs,
           ClickRetry(p) \/ RetryClickRaises(p) \/ ClickSend(p) \/ ClickRaises(p)
    PROVE  IntentInv'
  <1>1. /\ pc[p] \in {"click", "clickRetry"}
        /\ records' = records
        /\ \E l \in Labels \ Relying : pc' = [pc EXCEPT ![p] = l]
    BY RestingLabels DEF ClickRetry, RetryClickRaises, ClickSend, ClickRaises, Goto, EndCycle, disk
  <1>2. CASE Lands(p)
    BY <1>1, <1>2, LandingStep
  <1>3. CASE UNCHANGED page
    BY <1>1, <1>3, QuietStep DEF Quiet, page
  <1> QED BY <1>2, <1>3 DEF ClickRetry, RetryClickRaises, ClickSend, ClickRaises

LEMMA ConfirmStep ==
    ASSUME TypeInv, Alone, IntentInv, NEW p \in Procs, ConfirmLoad(p) \/ WriteConfirmed(p)
    PROVE  IntentInv'
  <1>0. \A q \in Procs : q = p
    BY DEF Alone
  <1>1. CASE ConfirmLoad(p)
    <2>1. CASE EndCycle(p, "ERROR")
      <3>1. Quiet(p)
        BY <1>1, <2>1, QuietEnd DEF ConfirmLoad, disk, page
      <3> QED BY <3>1, QuietStep
    <2>2. CASE ~EndCycle(p, "ERROR")
      <3>1. /\ snap' = [snap EXCEPT ![p] = records]
            /\ \E l \in Writing : pc' = [pc EXCEPT ![p] = l]
            /\ UNCHANGED <<op, records, clicks>>
        BY <1>1, <2>2 DEF ConfirmLoad, disk, page, Writing
      <3>2. pc'[p] \in Writing /\ snap'[p] = records
        BY <3>1 DEF TypeInv, CycleOK
      <3>3. IntentFresh(p)' /\ IntentArmed(p)' /\ IntentWriting(p)'
        BY <3>1, <3>2 DEF IntentFresh, IntentArmed, IntentWriting, Armed, Writing
      <3>4. AtMostOnce' /\ IntentOnDisk'
        BY <3>1 DEF IntentInv, AtMostOnce, IntentOnDisk
      <3> QED BY <1>0, <3>3, <3>4 DEF IntentInv
    <2> QED BY <2>1, <2>2
  <1>2. CASE WriteConfirmed(p)
    <2>1. /\ pc[p] \in Writing
          /\ records' = [snap[p] EXCEPT ![op[p]] = "CONFIRMED"]
          /\ clicks' = clicks
          /\ \E l \in Labels \ Relying : pc' = [pc EXCEPT ![p] = l]
      BY <1>2, RestingLabels DEF WriteConfirmed, Writing, Goto, EndCycle, page
    <2>2. snap[p] = records /\ records \in Records
      BY <2>1 DEF IntentInv, IntentWriting, TypeInv, DiskOK
    <2>3. AtMostOnce' /\ IntentOnDisk'
      BY <2>1, <2>2 DEF IntentInv, AtMostOnce, IntentOnDisk, Records
    <2>4. ASSUME NEW q \in Procs PROVE pc'[q] \notin Relying
      BY <2>1, <1>0 DEF TypeInv, CycleOK
    <2> QED BY <2>3, <2>4 DEF IntentInv, IntentFresh, IntentArmed, IntentWriting, Relying
  <1> QED BY <1>1, <1>2

-----------------------------------------------------------------------------
(* The invariant.                                                          *)

LEMMA IntentInit == Init => IntentInv
  BY DEF Init, IntentInv, AtMostOnce, IntentOnDisk, IntentFresh, IntentArmed, IntentWriting,
         Armed, Writing

LEMMA IntentStep ==
    ASSUME Alone PROVE TypeInv /\ IntentInv /\ [Next]_vars => IntentInv'
  <1> SUFFICES ASSUME TypeInv, IntentInv, [Next]_vars PROVE IntentInv'
    OBVIOUS
  <1>1. ASSUME NEW p \in Procs, Engine(p) PROVE IntentInv'
    <2>1. Quiet(p) => IntentInv'
      BY QuietStep
    <2> QED BY <1>1, <2>1, QuietBeginning, QuietMiddle, QuietFinish, PrepareStep, ClickStep,
               ConfirmStep DEF Engine
  <1>2. ASSUME NEW p \in Procs, Interrupt(p) PROVE IntentInv'
    BY <1>2, QuietFinish, QuietStep
  <1>3. CASE Environment \/ Operator \/ UNCHANGED vars
    <2>1. UNCHANGED <<records, clicks, pc, op, snap>>
      BY <1>3 DEF Environment, Operator, SupervisorPosts, GeminiAnswers, EngageStop, ReleaseStop,
                  OperatorClearsTask, OperatorClearsCheckpoint, OperatorUpdatesTask,
                  vars, disk, cycle, page
    <2> QED BY <2>1 DEF IntentInv, AtMostOnce, IntentOnDisk, IntentFresh, IntentArmed, IntentWriting
  <1> QED BY <1>1, <1>2, <1>3 DEF Next

\* Whatever crashes and whatever the page does, an operation of the only
\* process on a state directory is clicked at most once.
THEOREM ClickedAtMostOnce == ASSUME Alone PROVE Spec => []AtMostOnce
  <1>1. IntentInv => AtMostOnce
    BY DEF IntentInv
  <1> QED BY <1>1, InitType, StepType, IntentInit, IntentStep, PTL DEF Spec

\* A click of the only process on a state directory has its record on disk,
\* at the click and ever after.
THEOREM IntentPrecedesClick == ASSUME Alone PROVE Spec => []IntentOnDisk
  <1>1. IntentInv => IntentOnDisk
    BY DEF IntentInv
  <1> QED BY <1>1, InitType, StepType, IntentInit, IntentStep, PTL DEF Spec

=============================================================================
