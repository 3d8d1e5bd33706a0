---------------------------- MODULE AnswerProofs ----------------------------
(***************************************************************************)
(* What holds however many processes share the state directory: a record   *)
(* says CONFIRMED only of a click that landed, and a report goes back only *)
(* as the answer to the command it was written for.  Both follow from what *)
(* a cycle knows of the operation contract in its hands.                   *)
(***************************************************************************)
EXTENDS BridgeProofs

\* Labels at which no contract was drawn up yet, and labels after the click.
Blank == {"idle", "orphanCheck", "intake", "advance", "reconcile", "reconcileReturn", "findRetry"}
AfterClick == {"clicked", "confirmLoad", "confirmWrite"}
Reconciling == {"reconcileLoad", "reconcileWrite"}

\* TASK_ID and PHASE tell the commands apart.
Distinct == \A c, d \in Commands : SameTaskAndPhase(c, d) => c = d

ContractOK(p) ==
    /\ pc[p] \in Blank => op[p] = NoKey
    /\ pc[p] = "detect" => op[p] \in RetryKeys \cup {NoKey}
    /\ pc[p] \in Reconciling => op[p] \in RetryKeys
    /\ pc[p] \in AfterClick => clicks[op[p]] > 0
    /\ pc[p] \in OpLabels /\ op[p].type = "SUPERVISOR_RETURN"
           => report[p] \in answered /\ (Distinct => report[p] = op[p].cmd)

\* What record_operation has loaded is as good as what is on disk.
LoadedWasClicked ==
    \A p \in Procs : \A k \in Keys \ RetryKeys : snap[p][k] = "CONFIRMED" => clicks[k] > 0

AnsweredWasSubmitted == \A c \in answered : clicks[SubmitKey(c)] > 0

AnswerInv ==
    /\ ConfirmedWasClicked
    /\ LoadedWasClicked
    /\ AnsweredWasSubmitted
    /\ Distinct => ReturnsAnswerTheirCommand
    /\ \A p \in Procs : ContractOK(p)

-----------------------------------------------------------------------------
(* A step of p leaves the locals of the others alone.                      *)

OthersKeep(p) ==
    \A q \in Procs \ {p} : /\ pc'[q] = pc[q] /\ op'[q] = op[q]
                           /\ report'[q] = report[q] /\ snap'[q] = snap[q]

\* Clicks and answers are never taken back.
Grows ==
    /\ \A k \in Keys : clicks'[k] >= clicks[k]
    /\ answered \subseteq answered'

\* The contracts of the others hold good as clicks and answers grow.
LEMMA OthersContracts ==
    ASSUME TypeInv, TypeInv', AnswerInv, NEW p \in Procs, OthersKeep(p), Grows
    PROVE  \A q \in Procs \ {p} : ContractOK(q)'
  <1> SUFFICES ASSUME NEW q \in Procs \ {p} PROVE ContractOK(q)'
    OBVIOUS
  <1>1. ContractOK(q) /\ pc'[q] = pc[q] /\ op'[q] = op[q] /\ report'[q] = report[q]
    BY DEF AnswerInv, OthersKeep
  <1>2. pc[q] \in AfterClick => op[q] \in Keys
    BY DEF TypeInv, LocalsOK, AfterClick, OpLabels
  <1>3. ASSUME pc[q] \in AfterClick PROVE clicks'[op[q]] > 0
    <2>1. clicks[op[q]] \in Nat /\ clicks'[op[q]] \in Nat
      BY <1>2, <1>3 DEF TypeInv, PageOK
    <2>2. clicks[op[q]] > 0 /\ clicks'[op[q]] >= clicks[op[q]]
      BY <1>1, <1>2, <1>3 DEF ContractOK, Grows
    <2> QED BY <2>1, <2>2
  <1> QED BY <1>1, <1>3 DEF ContractOK, Grows

\* Steps that change neither records, nor clicks, nor answers.
LEMMA CalmStep ==
    ASSUME TypeInv, TypeInv', AnswerInv, NEW p \in Procs, OthersKeep(p), ContractOK(p)',
           UNCHANGED <<records, clicks, answered, reported>>,
           snap'[p] \in {snap[p], records, NoRecords}
    PROVE  AnswerInv'
  <1>1. Grows
    BY DEF Grows, TypeInv, PageOK
  <1>2. \A q \in Procs : ContractOK(q)'
    BY <1>1, OthersContracts
  <1>3. LoadedWasClicked'
    BY DEF AnswerInv, LoadedWasClicked, ConfirmedWasClicked, OthersKeep, NoRecords
  <1>4. ConfirmedWasClicked' /\ AnsweredWasSubmitted' /\ (Distinct => ReturnsAnswerTheirCommand')
    BY DEF AnswerInv, ConfirmedWasClicked, AnsweredWasSubmitted, ReturnsAnswerTheirCommand
  <1> QED BY <1>2, <1>3, <1>4 DEF AnswerInv

\* The end of a cycle is such a step.
LEMMA CalmEnd ==
    ASSUME TypeInv, TypeInv', AnswerInv, NEW p \in Procs, NEW result, EndCycle(p, result),
           UNCHANGED <<records, clicks, answered, reported>>
    PROVE  AnswerInv'
  <1>1. OthersKeep(p) /\ snap'[p] = NoRecords /\ pc'[p] = "idle" /\ op'[p] = NoKey
    BY DEF EndCycle, OthersKeep, TypeInv, CycleOK
  <1>2. ContractOK(p)'
    BY <1>1 DEF ContractOK, Blank, Reconciling, AfterClick, OpLabels
  <1> QED BY <1>1, <1>2, CalmStep

\* So is going on with the same contract, if it is good for the next label.
LEMMA CalmGoto ==
    ASSUME TypeInv, TypeInv', AnswerInv, NEW p \in Procs, NEW l \in Labels, Goto(p, l),
           UNCHANGED <<op, report>>, UNCHANGED <<records, clicks, answered, reported>>,
           l \in Blank => pc[p] \in Blank,
           l = "detect" => pc[p] \in Blank,
           l \in Reconciling => pc[p] = "detect" /\ op[p] # NoKey,
           l \in AfterClick => pc[p] \in AfterClick,
           l \in OpLabels => pc[p] \in OpLabels \/ (pc[p] = "detect" /\ op[p] # NoKey)
    PROVE  AnswerInv'
  <1>1. OthersKeep(p) /\ snap'[p] = snap[p] /\ pc'[p] = l /\ op'[p] = op[p] /\ report'[p] = report[p]
    BY DEF Goto, OthersKeep, TypeInv, CycleOK
  <1>2. \A k \in RetryKeys : k.type # "SUPERVISOR_RETURN"
    BY DEF RetryKeys, RetryKey
  <1>3. ContractOK(p) /\ clicks' = clicks /\ answered' = answered
    BY DEF AnswerInv
  <1>4. ContractOK(p)'
    BY <1>1, <1>2, <1>3 DEF ContractOK
  <1> QED BY <1>1, <1>4, CalmStep

\* And drawing up a contract, for a return together with the report.
LEMMA CalmContract ==
    ASSUME TypeInv, TypeInv', AnswerInv, NEW p \in Procs, NEW l \in {"prepare", "detect"}, Goto(p, l),
           NEW k \in Keys, op' = [op EXCEPT ![p] = k],
           NEW r, report' = [report EXCEPT ![p] = r],
           l = "detect" => k \in RetryKeys,
           k.type = "SUPERVISOR_RETURN" => r \in answered /\ (Distinct => r = k.cmd),
           UNCHANGED <<records, clicks, answered, reported>>
    PROVE  AnswerInv'
  <1>1. OthersKeep(p) /\ snap'[p] = snap[p] /\ pc'[p] = l /\ op'[p] = k /\ report'[p] = r
    BY DEF Goto, OthersKeep, TypeInv, CycleOK
  <1>2. ContractOK(p)'
    BY <1>1 DEF ContractOK, Blank, Reconciling, AfterClick, OpLabels
  <1> QED BY <1>1, <1>2, CalmStep

\* A key names the operation its type says.
LEMMA KeyTypes ==
    /\ \A k \in Keys : k.type = "SUPERVISOR_RETURN" => k = ReturnKey(k.cmd)
    /\ \A k \in RetryKeys : k.type = "GEMINI_RETRY"
    /\ \A c \in Commands : /\ SubmitKey(c).type = "GEMINI_SUBMISSION"
                           /\ ReturnKey(c).type = "SUPERVISOR_RETURN"
                           /\ ReturnKey(c).cmd = c
    /\ \A c \in Commands, n \in Nat : RetryKey(c, n).type = "GEMINI_RETRY"
  BY DEF Keys, RetryKeys, SubmitKey, ReturnKey, RetryKey

-----------------------------------------------------------------------------
(* The actions of a cycle.                                                 *)

LEMMA BeginningAnswer ==
    ASSUME TypeInv, TypeInv', AnswerInv, NEW p \in Procs,
           HaltOnStop(p) \/ HaltOnTask(p) \/ (\E d \in DryRuns : BeginCycle(p, d))
               \/ OrphanCheck(p) \/ Intake(p)
    PROVE  AnswerInv'
  <1>1. CASE HaltOnStop(p) \/ HaltOnTask(p)
    BY <1>1, CalmEnd DEF HaltOnStop, HaltOnTask, disk, page
  <1>2. CASE \E d \in DryRuns : BeginCycle(p, d)
    <2>1. PICK d \in DryRuns : BeginCycle(p, d)
      BY <1>2
    <2>2. /\ UNCHANGED <<records, clicks, answered, reported>>
          /\ active.state \notin Halted /\ pc[p] = "idle"
      BY <2>1 DEF BeginCycle, disk, page
    <2>3. CASE EndCycle(p, "SUCCESS")
      BY <2>2, <2>3, CalmEnd
    <2>4. CASE /\ pc' = [pc EXCEPT ![p] = EntryLabel(active.state)]
               /\ UNCHANGED <<op, snap, report>>
      <3> DEFINE l == EntryLabel(active.state)
      <3>1. l \in {"orphanCheck", "archiveLoad", "advance", "reconcile", "reconcileReturn",
                   "findRetry"}
        BY <2>2, EntryLabels DEF TypeInv, DiskOK
      <3>2. pc'[p] = l /\ op'[p] = NoKey /\ OthersKeep(p) /\ snap'[p] = snap[p]
        BY <2>2, <2>4 DEF TypeInv, CycleOK, OthersKeep, AnswerInv, ContractOK, Blank
      <3> HIDE DEF l
      <3>3. ContractOK(p)'
        BY <3>1, <3>2 DEF ContractOK, Blank, Reconciling, AfterClick, OpLabels
      <3> QED BY <2>2, <3>2, <3>3, CalmStep
    <2> QED BY <2>1, <2>3, <2>4 DEF BeginCycle
  <1>3. CASE OrphanCheck(p)
    <2>1. UNCHANGED <<records, clicks, answered, reported>> /\ pc[p] = "orphanCheck"
      BY <1>3 DEF OrphanCheck, disk, page
    <2>2. CASE EndCycle(p, "ORPHANED_STATE")
      BY <2>1, <2>2, CalmEnd
    <2>3. CASE Goto(p, "intake") /\ UNCHANGED <<job, op, report>>
      <3>1. "intake" \in Labels \ (Reconciling \cup AfterClick \cup OpLabels) /\ pc[p] \in Blank
        BY <2>1 DEF Labels, Reconciling, AfterClick, OpLabels, Blank
      <3> QED BY <2>1, <2>3, <3>1, CalmGoto
    <2> QED BY <1>3, <2>2, <2>3 DEF OrphanCheck
  <1>4. CASE Intake(p)
    <2>1. UNCHANGED <<records, clicks, answered, reported>>
      BY <1>4 DEF Intake, page
    <2>2. CASE EndCycle(p, "SUCCESS")
      BY <2>1, <2>2, CalmEnd
    <2>3. CASE /\ newest # NoCommand /\ op' = [op EXCEPT ![p] = SubmitKey(newest)]
               /\ Goto(p, "prepare") /\ UNCHANGED report
      <3>1. newest \in Commands
        BY <2>3 DEF TypeInv, PageOK
      <3>2. report' = [report EXCEPT ![p] = report[p]]
        BY <2>3 DEF TypeInv, CycleOK
      <3>3. SubmitKey(newest) \in Keys /\ SubmitKey(newest).type # "SUPERVISOR_RETURN"
        BY <3>1, KeyFacts, KeyTypes
      <3> QED BY <2>1, <2>3, <3>2, <3>3, CalmContract
    <2> QED BY <1>4, <2>2, <2>3 DEF Intake
  <1> QED BY <1>1, <1>2, <1>3, <1>4

LEMMA RecoveringAnswer ==
    ASSUME TypeInv, TypeInv', AnswerInv, NEW p \in Procs,
           Advance(p) \/ ResumeProven(p) \/ Resubmit(p) \/ HaltAmbiguous(p) \/ ReconcileReturn(p)
    PROVE  AnswerInv'
  <1>1. /\ UNCHANGED <<records, clicks, answered, reported>>
        /\ pc[p] \in {"advance", "reconcile", "reconcileReturn"}
    BY DEF Advance, ResumeProven, Resubmit, HaltAmbiguous, ReconcileReturn, disk, page
  <1>2. /\ pc[p] \in Blank /\ pc[p] \in TaskLabels
        /\ {"reconcile", "archiveLoad"} \subseteq Labels \ (Reconciling \cup AfterClick \cup OpLabels)
    BY <1>1 DEF Labels, TaskLabels, Reconciling, AfterClick, OpLabels, Blank
  <1>3. CASE \E result \in Statuses : EndCycle(p, result)
    BY <1>1, <1>3, CalmEnd
  <1>4. CASE \E l \in {"reconcile", "archiveLoad"} : Goto(p, l) /\ UNCHANGED <<op, report>>
    BY <1>1, <1>2, <1>4, CalmGoto DEF Blank
  <1>5. CASE op' = [op EXCEPT ![p] = SubmitKey(job[p].cmd)] /\ Goto(p, "prepare") /\ UNCHANGED report
    <2>1. job[p].cmd \in Commands
      BY <1>2 DEF TypeInv, LocalsOK, Tasks
    <2>2. report' = [report EXCEPT ![p] = report[p]]
      BY <1>5 DEF TypeInv, CycleOK
    <2>3. /\ SubmitKey(job[p].cmd) \in Keys
          /\ SubmitKey(job[p].cmd).type # "SUPERVISOR_RETURN"
      BY <2>1, KeyFacts, KeyTypes
    <2> QED BY <1>1, <1>5, <2>2, <2>3, CalmContract
  <1> QED BY <1>3, <1>4, <1>5, StatusFacts DEF Advance, ResumeProven, Resubmit, HaltAmbiguous,
                                               ReconcileReturn

LEMMA PollingAnswer ==
    ASSUME TypeInv, TypeInv', AnswerInv, NEW p \in Procs,
           FindRetry(p) \/ DetectRetryExecuted(p) \/ DetectRetryAmbiguous(p)
               \/ DetectNothingToDo(p) \/ DetectCompleted(p) \/ DetectRetryAvailable(p)
    PROVE  AnswerInv'
  <1>1. /\ UNCHANGED <<records, clicks, answered, reported>>
        /\ pc[p] \in {"findRetry", "detect"}
    BY DEF FindRetry, DetectRetryExecuted, DetectRetryAmbiguous, DetectNothingToDo,
           DetectCompleted, DetectRetryAvailable, disk, page
  <1>2. pc[p] \in TaskLabels /\ report = [report EXCEPT ![p] = report[p]]
    BY <1>1 DEF TypeInv, CycleOK, TaskLabels, Labels
  <1>3. CASE \E result \in Statuses : EndCycle(p, result)
    BY <1>1, <1>3, CalmEnd
  <1>4. CASE FindRetry(p) /\ Goto(p, "detect") /\ UNCHANGED <<op, report>>
    <2>1. pc[p] \in Blank /\ "detect" \in Labels \ (Reconciling \cup AfterClick \cup OpLabels \cup Blank)
      BY <1>4 DEF FindRetry, Labels, Reconciling, AfterClick, OpLabels, Blank
    <2> QED BY <1>1, <1>4, <2>1, CalmGoto
  <1>5. CASE \E k \in PreparedRetries(records, job[p].cmd) :
                op' = [op EXCEPT ![p] = k] /\ Goto(p, "detect") /\ UNCHANGED report
    <2>1. PICK k \in RetryKeys :
              op' = [op EXCEPT ![p] = k] /\ Goto(p, "detect") /\ UNCHANGED report
      BY <1>5 DEF PreparedRetries
    <2>2. k \in Keys /\ k.type # "SUPERVISOR_RETURN"
      BY KeyFacts, KeyTypes
    <2> QED BY <1>1, <1>2, <2>1, <2>2, CalmContract
  <1>6. CASE DetectRetryExecuted(p)
    <2>1. /\ pc[p] = "detect" /\ op[p] # NoKey
          /\ Goto(p, "reconcileLoad") /\ UNCHANGED <<op, report>>
      BY <1>6 DEF DetectRetryExecuted
    <2>2. "reconcileLoad" \in Labels \ (AfterClick \cup Blank)
      BY DEF Labels, AfterClick, Blank
    <2> QED BY <1>1, <2>1, <2>2, CalmGoto
  <1>7. CASE DetectCompleted(p)
    <2>1. Goto(p, "inspect") /\ UNCHANGED <<op, report>>
      BY <1>7 DEF DetectCompleted
    <2>2. "inspect" \in Labels \ (Reconciling \cup AfterClick \cup OpLabels \cup Blank)
      BY DEF Labels, Reconciling, AfterClick, OpLabels, Blank
    <2> QED BY <1>1, <2>1, <2>2, CalmGoto
  <1>8. CASE DetectRetryAvailable(p) /\ ~dry[p]
    <2>1. /\ op' = [op EXCEPT ![p] = RetryKey(job[p].cmd, job[p].retries + 1)]
          /\ Goto(p, "prepare") /\ UNCHANGED report /\ job[p].retries < MaxRetries
      BY <1>8 DEF DetectRetryAvailable
    <2>2. job[p].cmd \in Commands /\ job[p].retries + 1 \in 1..MaxRetries
      BY <1>2, <2>1, CommandAssumption DEF TypeInv, LocalsOK, Tasks
    <2>3. /\ RetryKey(job[p].cmd, job[p].retries + 1) \in Keys
          /\ RetryKey(job[p].cmd, job[p].retries + 1).type # "SUPERVISOR_RETURN"
      BY <2>2, KeyFacts, KeyTypes
    <2> QED BY <1>1, <1>2, <2>1, <2>3, CalmContract
  <1> USE StatusFacts
  <1>9. CASE FindRetry(p)
    BY <1>3, <1>4, <1>5, <1>9 DEF FindRetry
  <1>10. CASE DetectRetryAvailable(p) /\ dry[p]
    BY <1>3, <1>10 DEF DetectRetryAvailable
  <1> QED BY <1>3, <1>6, <1>7, <1>8, <1>9, <1>10 DEF DetectRetryAmbiguous, DetectNothingToDo

\* Only a report with the task's TASK_ID and PHASE becomes a return contract.
LEMMA InspectingAnswer ==
    ASSUME TypeInv, TypeInv', AnswerInv, NEW p \in Procs,
           AcceptReport(p) \/ RejectReport(p)
    PROVE  AnswerInv'
  <1>1. CASE RejectReport(p)
    BY <1>1, CalmEnd DEF RejectReport, disk, page
  <1>2. CASE AcceptReport(p)
    <2>1. PICK d \in answered : SameTaskAndPhase(d, job[p].cmd) /\ TakeReport(p, d)
      BY <1>2 DEF AcceptReport
    <2>2. UNCHANGED <<records, clicks, answered, reported>>
      BY <2>1 DEF TakeReport, page
    <2>3. CASE EndCycle(p, "SUCCESS")
      BY <2>2, <2>3, CalmEnd
    <2>4. CASE ~EndCycle(p, "SUCCESS")
      <3>1. job[p] \in Tasks /\ job[p].cmd \in Commands /\ d \in Commands
        BY <1>2 DEF AcceptReport, TypeInv, LocalsOK, PageOK, TaskLabels, Labels, Tasks
      <3>2. Distinct => d = job[p].cmd
        BY <2>1, <3>1 DEF Distinct
      <3>3. /\ op' = [op EXCEPT ![p] = ReturnKey(job[p].cmd)]
            /\ report' = [report EXCEPT ![p] = d]
            /\ Goto(p, "prepare")
        BY <2>1, <2>4, <3>1, MoveType, FileStateFacts DEF TakeReport
      <3>4. ReturnKey(job[p].cmd) \in Keys /\ ReturnKey(job[p].cmd).cmd = job[p].cmd
        BY <3>1, KeyFacts, KeyTypes
      <3> QED BY <2>1, <2>2, <3>2, <3>3, <3>4, CalmContract
    <2> QED BY <2>3, <2>4
  <1> QED BY <1>1, <1>2

-----------------------------------------------------------------------------
(* From prepare_operation to the confirmation.                             *)

LEMMA PreparingAnswer ==
    ASSUME TypeInv, TypeInv', AnswerInv, NEW p \in Procs,
           Prepare(p) \/ WritePrepared(p) \/ WriteCheckpoint(p) \/ SaveRetry(p)
    PROVE  AnswerInv'
  <1>0. /\ pc[p] \in {"prepare", "writeRecord", "writeCheckpoint", "saveRetry"}
        /\ pc[p] \in OpLabels /\ op[p] \in Keys /\ ContractOK(p)
        /\ UNCHANGED <<clicks, answered, reported>>
    BY DEF Prepare, PrepareWhen, WritePrepared, WriteCheckpoint, SaveRetry, OpLabels,
           TypeInv, LocalsOK, AnswerInv, page
  <1>1. CASE Prepare(p)
    <2>1. records' = records
      BY <1>1 DEF Prepare, PrepareWhen, disk
    <2>2. CASE EndCycle(p, "ERROR")
      BY <1>0, <2>1, <2>2, CalmEnd
    <2>3. CASE ~EndCycle(p, "ERROR")
      <3>1. /\ snap' = [snap EXCEPT ![p] = records]
            /\ pc' = [pc EXCEPT ![p] = "writeRecord"]
            /\ UNCHANGED <<op, report>>
        BY <1>1, <2>3 DEF Prepare, PrepareWhen
      <3>2. OthersKeep(p) /\ snap'[p] = records /\ pc'[p] = "writeRecord"
        BY <3>1 DEF OthersKeep, TypeInv, CycleOK
      <3>3. ContractOK(p)'
        BY <1>0, <3>1, <3>2 DEF ContractOK, Blank, Reconciling, AfterClick
      <3> QED BY <1>0, <2>1, <3>2, <3>3, CalmStep
    <2> QED BY <2>2, <2>3
  <1>2. CASE WritePrepared(p)
    <2>1. /\ records' = [snap[p] EXCEPT ![op[p]] = "PREPARED"]
          /\ pc' = [pc EXCEPT ![p] = "writeCheckpoint"]
          /\ UNCHANGED <<op, report, snap>>
      BY <1>2 DEF WritePrepared, Goto
    <2>2. OthersKeep(p) /\ pc'[p] = "writeCheckpoint" /\ snap[p] \in [Keys -> RecordState]
      BY <2>1 DEF OthersKeep, TypeInv, CycleOK, Records
    <2>3. Grows
      BY <1>0 DEF Grows, TypeInv, PageOK
    <2>4. ContractOK(p)'
      BY <1>0, <2>1, <2>2 DEF ContractOK, Blank, Reconciling, AfterClick
    <2>5. ConfirmedWasClicked'
      BY <1>0, <2>1, <2>2 DEF AnswerInv, ConfirmedWasClicked, LoadedWasClicked
    <2>6. LoadedWasClicked' /\ AnsweredWasSubmitted' /\ (Distinct => ReturnsAnswerTheirCommand')
      BY <1>0, <2>1 DEF AnswerInv, LoadedWasClicked, AnsweredWasSubmitted, ReturnsAnswerTheirCommand
    <2> QED BY <2>2, <2>3, <2>4, <2>5, <2>6, OthersContracts DEF AnswerInv
  <1>3. CASE WriteCheckpoint(p) \/ SaveRetry(p)
    <2>1. /\ \E l \in {"click", "saveRetry", "clickRetry"} : Goto(p, l)
          /\ UNCHANGED <<op, report>> /\ records' = records
      BY <1>3 DEF WriteCheckpoint, SaveRetry
    <2>2. {"click", "saveRetry", "clickRetry"} \subseteq Labels \ (Reconciling \cup AfterClick \cup Blank)
      BY DEF Labels, Reconciling, AfterClick, Blank
    <2> QED BY <1>0, <2>1, <2>2, CalmGoto
  <1> QED BY <1>1, <1>2, <1>3

\* The page after a click that landed.
LEMMA LandedFacts ==
    ASSUME TypeInv, AnswerInv, NEW p \in Procs, pc[p] \in {"click", "clickRetry"}, Lands(p)
    PROVE  /\ Grows
           /\ clicks'[op[p]] > 0
           /\ AnsweredWasSubmitted'
           /\ (Distinct => ReturnsAnswerTheirCommand')
  <1>1. op[p] \in Keys /\ pc[p] \in OpLabels /\ ContractOK(p)
    BY DEF TypeInv, LocalsOK, OpLabels, AnswerInv
  <1>2. clicks' = [clicks EXCEPT ![op[p]] = clicks[op[p]] + 1] /\ answered' = answered
    BY DEF Lands
  <1>3. Grows /\ clicks'[op[p]] > 0
    BY <1>1, <1>2 DEF Grows, TypeInv, PageOK
  <1>4. \A c \in Commands : clicks[SubmitKey(c)] > 0 => clicks'[SubmitKey(c)] > 0
    <2> SUFFICES ASSUME NEW c \in Commands, clicks[SubmitKey(c)] > 0
                 PROVE  clicks'[SubmitKey(c)] > 0
      OBVIOUS
    <2>1. SubmitKey(c) \in Keys
      BY KeyFacts
    <2> HIDE DEF SubmitKey
    <2> QED BY <1>2, <2>1 DEF TypeInv, PageOK
  <1>5. AnsweredWasSubmitted'
    BY <1>2, <1>4 DEF AnswerInv, AnsweredWasSubmitted, TypeInv, PageOK
  <1>6. ASSUME Distinct, NEW r \in reported' PROVE r[1] = r[2] /\ clicks'[SubmitKey(r[1])] > 0
    <2>1. CASE r \in reported
      <3>1. r[1] \in Commands /\ r[1] = r[2] /\ clicks[SubmitKey(r[1])] > 0
        BY <1>6, <2>1 DEF AnswerInv, ReturnsAnswerTheirCommand, TypeInv, PageOK
      <3> QED BY <1>4, <3>1
    <2>2. CASE r \notin reported
      <3>1. r = <<op[p].cmd, report[p]>> /\ op[p].type = "SUPERVISOR_RETURN"
        BY <1>6, <2>2 DEF Lands
      <3>2. report[p] = op[p].cmd /\ report[p] \in answered
        BY <1>1, <1>6, <3>1 DEF ContractOK
      <3>3. r[1] \in Commands /\ r[1] = r[2] /\ clicks[SubmitKey(r[1])] > 0
        BY <3>1, <3>2 DEF AnswerInv, AnsweredWasSubmitted, TypeInv, PageOK
      <3> QED BY <1>4, <3>3
    <2> QED BY <2>1, <2>2
  <1> QED BY <1>3, <1>5, <1>6 DEF ReturnsAnswerTheirCommand

LEMMA LandingAnswer ==
    ASSUME TypeInv, TypeInv', AnswerInv, NEW p \in Procs, pc[p] \in {"click", "clickRetry"},
           Lands(p), records' = records, OthersKeep(p), ContractOK(p)',
           snap'[p] \in {snap[p], NoRecords}
    PROVE  AnswerInv'
  <1>1. Grows /\ AnsweredWasSubmitted' /\ (Distinct => ReturnsAnswerTheirCommand')
    BY LandedFacts
  <1>2. \A q \in Procs : ContractOK(q)'
    BY <1>1, OthersContracts
  <1>3. \A k \in Keys : clicks[k] > 0 => clicks'[k] > 0
    BY <1>1 DEF Grows, TypeInv, PageOK
  <1>4. ConfirmedWasClicked'
    BY <1>3 DEF AnswerInv, ConfirmedWasClicked
  <1>5. LoadedWasClicked'
    BY <1>3 DEF AnswerInv, LoadedWasClicked, OthersKeep, NoRecords
  <1> QED BY <1>1, <1>2, <1>4, <1>5 DEF AnswerInv

LEMMA ClickingAnswer ==
    ASSUME TypeInv, TypeInv', AnswerInv, NEW p \in Procs,
           ClickRetry(p) \/ RetryClickRaises(p) \/ ClickSend(p) \/ ClickRaises(p)
    PROVE  AnswerInv'
  <1>0. pc[p] \in {"click", "clickRetry"} /\ pc[p] \in OpLabels /\ records' = records
    BY DEF ClickRetry, RetryClickRaises, ClickSend, ClickRaises, OpLabels, disk
  <1>1. CASE ClickRetry(p) \/ ClickSend(p) \/ (ClickRaises(p) /\ Lands(p))
    <2>1. /\ Lands(p) /\ UNCHANGED <<op, report>>
          /\ \E l \in {"confirmLoad", "clicked", "clickRaised"} : Goto(p, l)
      BY <1>1 DEF ClickRetry, ClickSend, ClickRaises
    <2>2. PICK l \in {"confirmLoad", "clicked", "clickRaised"} : Goto(p, l)
      BY <2>1
    <2>3. OthersKeep(p) /\ snap'[p] = snap[p] /\ pc'[p] = l
      BY <2>1, <2>2 DEF Goto, OthersKeep, TypeInv, CycleOK
    <2>4. clicks'[op'[p]] > 0 /\ answered' = answered /\ ContractOK(p)
      BY <1>0, <2>1, LandedFacts DEF Lands, AnswerInv
    <2>5. ContractOK(p)'
      BY <1>0, <2>1, <2>2, <2>3, <2>4 DEF ContractOK, Blank, Reconciling
    <2> QED BY <1>0, <2>1, <2>3, <2>5, LandingAnswer
  <1>2. CASE ClickRaises(p) /\ UNCHANGED page
    <2>1. Goto(p, "clickRaised") /\ UNCHANGED <<op, report>>
          /\ UNCHANGED <<clicks, answered, reported>>
      BY <1>2 DEF ClickRaises, page
    <2>2. "clickRaised" \in Labels \ (Reconciling \cup AfterClick \cup Blank)
      BY DEF Labels, Reconciling, AfterClick, Blank
    <2> QED BY <1>0, <2>1, <2>2, CalmGoto
  <1>3. CASE RetryClickRaises(p)
    <2>1. EndCycle(p, "ERROR") /\ (Lands(p) \/ UNCHANGED page)
      BY <1>3 DEF RetryClickRaises
    <2>2. CASE UNCHANGED page
      BY <1>0, <2>1, <2>2, CalmEnd DEF page
    <2>3. CASE Lands(p)
      <3>1. OthersKeep(p) /\ snap'[p] = NoRecords /\ pc'[p] = "idle" /\ op'[p] = NoKey
        BY <2>1 DEF EndCycle, OthersKeep, TypeInv, CycleOK
      <3>2. ContractOK(p)'
        BY <3>1 DEF ContractOK, Blank, Reconciling, AfterClick, OpLabels
      <3> QED BY <1>0, <2>3, <3>1, <3>2, LandingAnswer
    <2> QED BY <2>1, <2>2, <2>3
  <1> QED BY <1>1, <1>2, <1>3 DEF ClickRaises

LEMMA ClickedAnswer ==
    ASSUME TypeInv, TypeInv', AnswerInv, NEW p \in Procs,
           RetryButtonMissing(p) \/ PageNotReady(p) \/ SaveUncertain(p) \/ SaveSubmitted(p)
               \/ MarkReturned(p)
    PROVE  AnswerInv'
  <1>1. UNCHANGED <<records, clicks, answered, reported>>
    BY DEF RetryButtonMissing, PageNotReady, SaveUncertain, SaveSubmitted, MarkReturned, disk, page
  <1>2. CASE \E result \in Statuses : EndCycle(p, result)
    BY <1>1, <1>2, CalmEnd
  <1>3. CASE pc[p] = "clicked" /\ Goto(p, "confirmLoad") /\ UNCHANGED <<op, report>>
    <2>1. /\ "confirmLoad" \in Labels \ (Reconciling \cup Blank)
          /\ pc[p] \in AfterClick /\ pc[p] \in OpLabels
      BY <1>3 DEF Labels, Reconciling, AfterClick, Blank, OpLabels
    <2> QED BY <1>1, <1>3, <2>1, CalmGoto
  <1> QED BY <1>2, <1>3, StatusFacts DEF RetryButtonMissing, PageNotReady, SaveUncertain,
                                         SaveSubmitted, MarkReturned

LEMMA ConfirmingAnswer ==
    ASSUME TypeInv, TypeInv', AnswerInv, NEW p \in Procs, ConfirmLoad(p) \/ WriteConfirmed(p)
    PROVE  AnswerInv'
  <1>0. /\ pc[p] \in {"confirmLoad", "reconcileLoad", "confirmWrite", "reconcileWrite"}
        /\ pc[p] \in OpLabels /\ op[p] \in Keys /\ ContractOK(p)
        /\ UNCHANGED <<clicks, answered, reported>>
    BY DEF ConfirmLoad, WriteConfirmed, OpLabels, TypeInv, LocalsOK, AnswerInv, page
  <1>1. CASE ConfirmLoad(p)
    <2>1. records' = records
      BY <1>1 DEF ConfirmLoad, disk
    <2>2. CASE EndCycle(p, "ERROR")
      BY <1>0, <2>1, <2>2, CalmEnd
    <2>3. CASE ~EndCycle(p, "ERROR")
      <3> DEFINE l == IF pc[p] = "confirmLoad" THEN "confirmWrite" ELSE "reconcileWrite"
      <3>1. /\ snap' = [snap EXCEPT ![p] = records]
            /\ pc' = [pc EXCEPT ![p] = l]
            /\ UNCHANGED <<op, report>>
        BY <1>1, <2>3 DEF ConfirmLoad
      <3>2. OthersKeep(p) /\ snap'[p] = records /\ pc'[p] = l
        BY <3>1 DEF OthersKeep, TypeInv, CycleOK
      <3>3. ContractOK(p)'
        BY <1>0, <1>1, <3>1, <3>2 DEF ConfirmLoad, ContractOK, Blank, Reconciling, AfterClick
      <3> QED BY <1>0, <2>1, <3>2, <3>3, CalmStep
    <2> QED BY <2>2, <2>3
  <1>2. CASE WriteConfirmed(p)
    <2>1. /\ records' = [snap[p] EXCEPT ![op[p]] = "CONFIRMED"]
          /\ pc[p] \in {"confirmWrite", "reconcileWrite"}
      BY <1>2 DEF WriteConfirmed
    <2>2. \/ EndCycle(p, "SUCCESS")
          \/ Goto(p, "resave") /\ UNCHANGED <<op, report>>
          \/ Goto(p, "archiveLoad") /\ UNCHANGED <<op, report>>
      BY <1>2 DEF WriteConfirmed
    <2>3. op[p] \in RetryKeys \/ clicks[op[p]] > 0
      BY <1>0, <2>1 DEF ContractOK, Reconciling, AfterClick
    <2>4. Grows
      BY <1>0 DEF Grows, TypeInv, PageOK
    <2>5. ConfirmedWasClicked'
      BY <1>0, <2>1, <2>3 DEF AnswerInv, ConfirmedWasClicked, LoadedWasClicked, TypeInv, CycleOK, Records
    <2>6. AnsweredWasSubmitted' /\ (Distinct => ReturnsAnswerTheirCommand')
      BY <1>0 DEF AnswerInv, AnsweredWasSubmitted, ReturnsAnswerTheirCommand
    <2>7. OthersKeep(p) /\ snap'[p] \in {snap[p], NoRecords}
      BY <2>2 DEF Goto, EndCycle, OthersKeep, TypeInv, CycleOK
    <2>8. LoadedWasClicked'
      BY <1>0, <2>7 DEF AnswerInv, LoadedWasClicked, OthersKeep, NoRecords
    <2>9. ContractOK(p)'
      <3>1. (pc'[p] = "idle" /\ op'[p] = NoKey) \/ pc'[p] \in {"resave", "archiveLoad"}
        BY <2>2 DEF Goto, EndCycle, TypeInv, CycleOK
      <3> QED BY <3>1 DEF ContractOK, Blank, Reconciling, AfterClick, OpLabels
    <2> QED BY <2>4, <2>5, <2>6, <2>7, <2>8, <2>9, OthersContracts DEF AnswerInv
  <1> QED BY <1>1, <1>2

LEMMA FinishingAnswer ==
    ASSUME TypeInv, TypeInv', AnswerInv, NEW p \in Procs,
           Resave(p) \/ ArchiveLoad(p) \/ ArchiveWrite(p) \/ ArchiveClear(p) \/ Interrupt(p)
    PROVE  AnswerInv'
  <1>1. UNCHANGED <<records, clicks, answered, reported>>
    BY DEF Resave, ArchiveLoad, ArchiveWrite, ArchiveClear, Interrupt, disk, page
  <1>2. CASE \E result \in Statuses : EndCycle(p, result)
    BY <1>1, <1>2, CalmEnd
  <1>3. CASE ArchiveWrite(p)
    <2>1. /\ pc[p] = "archiveWrite" /\ Goto(p, "archiveClear") /\ UNCHANGED <<op, report>>
      BY <1>3 DEF ArchiveWrite
    <2>2. "archiveClear" \in Labels \ (Reconciling \cup Blank \cup AfterClick \cup OpLabels)
      BY DEF Labels, Reconciling, AfterClick, Blank, OpLabels
    <2> QED BY <1>1, <2>1, <2>2, CalmGoto
  <1>4. CASE ArchiveLoad(p)
    <2>1. /\ pc' = [pc EXCEPT ![p] = "archiveWrite"] /\ UNCHANGED <<op, snap, report>>
      BY <1>4 DEF ArchiveLoad
    <2>2. OthersKeep(p) /\ snap'[p] = snap[p] /\ pc'[p] = "archiveWrite"
      BY <2>1 DEF OthersKeep, TypeInv, CycleOK
    <2>3. ContractOK(p)'
      BY <2>2 DEF ContractOK, Blank, Reconciling, AfterClick, OpLabels
    <2> QED BY <1>1, <2>2, <2>3, CalmStep
  <1> QED BY <1>2, <1>3, <1>4, StatusFacts DEF Resave, ArchiveLoad, ArchiveWrite, ArchiveClear, Interrupt

\* Outside the engine only an answer of the implementer matters.
LEMMA OutsideAnswer ==
    ASSUME TypeInv, TypeInv', AnswerInv, Environment \/ Operator \/ UNCHANGED vars
    PROVE  AnswerInv'
  <1>1. UNCHANGED <<pc, op, snap, report, records, clicks, reported>> /\ answered \subseteq answered'
    BY DEF Environment, Operator, SupervisorPosts, GeminiAnswers, EngageStop, ReleaseStop,
           OperatorClearsTask, OperatorClearsCheckpoint, OperatorUpdatesTask,
           vars, disk, cycle, page
  <1>2. \A c \in answered' : c \in answered \/ clicks[SubmitKey(c)] > 0
    BY DEF Environment, Operator, SupervisorPosts, GeminiAnswers, EngageStop, ReleaseStop,
           OperatorClearsTask, OperatorClearsCheckpoint, OperatorUpdatesTask,
           vars, disk, cycle, page
  <1>3. AnsweredWasSubmitted'
    BY <1>1, <1>2 DEF AnswerInv, AnsweredWasSubmitted
  <1>4. \A p \in Procs : ContractOK(p)'
    BY <1>1 DEF AnswerInv, ContractOK
  <1> QED BY <1>1, <1>3, <1>4 DEF AnswerInv, ConfirmedWasClicked, LoadedWasClicked,
                                  ReturnsAnswerTheirCommand

-----------------------------------------------------------------------------
(* The invariant.                                                          *)

LEMMA AnswerInit == Init => AnswerInv
  BY DEF Init, AnswerInv, ConfirmedWasClicked, LoadedWasClicked, AnsweredWasSubmitted,
         ReturnsAnswerTheirCommand, ContractOK, Blank, Reconciling, AfterClick, OpLabels, NoRecords

LEMMA AnswerStep == TypeInv /\ AnswerInv /\ [Next]_vars => AnswerInv'
  <1> SUFFICES ASSUME TypeInv, AnswerInv, [Next]_vars PROVE AnswerInv'
    OBVIOUS
  <1>1. TypeInv'
    BY StepType
  <1>2. ASSUME NEW p \in Procs, Engine(p) PROVE AnswerInv'
    BY <1>1, <1>2, BeginningAnswer, RecoveringAnswer, PollingAnswer, InspectingAnswer,
       PreparingAnswer, ClickingAnswer, ClickedAnswer, ConfirmingAnswer, FinishingAnswer DEF Engine
  <1>3. ASSUME NEW p \in Procs, Interrupt(p) PROVE AnswerInv'
    BY <1>1, <1>3, FinishingAnswer
  <1> QED BY <1>1, <1>2, <1>3, OutsideAnswer DEF Next

\* When TASK_ID and PHASE identify a command, no number of processes,
\* crashes and retries makes a report go back as the answer to another
\* command, or before its command was submitted.
THEOREM ReportsMatch == ASSUME Distinct PROVE Spec => []ReturnsAnswerTheirCommand
  <1>1. AnswerInv => ReturnsAnswerTheirCommand
    BY DEF AnswerInv
  <1> QED BY <1>1, InitType, StepType, AnswerInit, AnswerStep, PTL DEF Spec

\* However many processes overwrite each other's records, a submission or a
\* return is CONFIRMED on disk only if it was clicked.
THEOREM ConfirmationIsTrue == Spec => []ConfirmedWasClicked
  <1>1. AnswerInv => ConfirmedWasClicked
    BY DEF AnswerInv
  <1> QED BY <1>1, InitType, StepType, AnswerInit, AnswerStep, PTL DEF Spec

=============================================================================
