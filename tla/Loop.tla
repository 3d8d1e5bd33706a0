-------------------------------- MODULE Loop --------------------------------
(***************************************************************************)
(* LoopController.run_loop composed with Bridge: one runtime engine per    *)
(* loop runs cycle after cycle until a cycle is terminal, fails, or trips  *)
(* the loop guard.  The engine's SafetyOrchestrator has a LoopGuard of its *)
(* own, which counts prepared operations and raises after the PREPARED     *)
(* record and the checkpoint are on disk.                                  *)
(***************************************************************************)
EXTENDS Bridge

CONSTANTS
    MaxIterations,  \* config/settings.yaml: limits.max_loop_iterations
    CycleLimits     \* values the argument max_cycles may take, 0 for None

ASSUME LoopAssumption ==
    /\ MaxIterations \in Nat \ {0}
    /\ CycleLimits \subseteq Nat
    /\ DryRuns = {FALSE}  \* run_loop with dry_run is left out

VARIABLES
    at,       \* where each loop is
    limit,    \* its max_cycles
    guard,    \* LoopGuard of the controller
    safety,   \* LoopGuard of the orchestrator
    result,   \* what the controller looks at in the result of run_once
    effects,  \* clicks that landed in the current cycle
    resumed   \* whether the cycle took up a prepared submission again

loop     == <<at, limit, guard, safety, result, effects, resumed>>
loopVars == <<vars, loop>>

-----------------------------------------------------------------------------
(* LoopGuard.                                                              *)

\* Operation signatures: idempotency keys, or ACTION_TAKEN where the result
\* names no key.
ResumedSubmission == [NoKey EXCEPT !.type = "RESUMED_GEMINI_SUBMISSION"]
ReportReturned    == [NoKey EXCEPT !.type = "RETURN_REPORT_TO_CHATGPT"]
Signatures        == Keys \cup {NoKey, ResumedSubmission, ReportReturned}

FreshGuard == [iterations |-> 0, last |-> NoKey, repeats |-> 0]

\* Mutants: cycles without an operation are not counted; any two operations
\* count as repeated.
RecordedBusy(g, signature) ==
    IF signature = NoKey THEN g
    ELSE [iterations |-> g.iterations + 1, last |-> signature,
          repeats |-> IF signature = g.last THEN g.repeats + 1 ELSE 1]
RecordedBlindly(g, signature) ==
    [iterations |-> g.iterations + 1, last |-> signature,
     repeats |-> IF signature = NoKey THEN g.repeats ELSE g.repeats + 1]

\* record_cycle: every cycle counts, only operations are compared.
Recorded(g, signature) ==
    LET compared == signature # NoKey /\ g.iterations < MaxIterations
    IN  [iterations |-> g.iterations + 1,
         last       |-> IF compared THEN signature ELSE g.last,
         repeats    |-> IF ~compared THEN g.repeats
                        ELSE IF signature = g.last THEN g.repeats + 1 ELSE 1]

\* Mutants: the limit is one too high, or one too low.
TrippedEarly(g) == g.iterations >= MaxIterations \/ g.repeats >= 3
TrippedLate(g) == g.iterations > MaxIterations + 1 \/ g.repeats >= 3

\* LoopGuardViolationError.
Tripped(g) == g.iterations > MaxIterations \/ g.repeats >= 3

-----------------------------------------------------------------------------
NoResult == [signature |-> NoKey, terminal |-> FALSE]

LoopInit ==
    /\ Init
    /\ at = [p \in Procs |-> "off"]
    /\ limit = [p \in Procs |-> 0]
    /\ guard = [p \in Procs |-> FreshGuard]
    /\ safety = [p \in Procs |-> FreshGuard]
    /\ result = [p \in Procs |-> NoResult]
    /\ effects = [p \in Procs |-> 0]
    /\ resumed = [p \in Procs |-> FALSE]

\* The loop is over: controller and engine are gone.
Leave(p) ==
    /\ at' = [at EXCEPT ![p] = "off"]
    /\ limit' = [limit EXCEPT ![p] = 0]
    /\ guard' = [guard EXCEPT ![p] = FreshGuard]
    /\ safety' = [safety EXCEPT ![p] = FreshGuard]
    /\ result' = [result EXCEPT ![p] = NoResult]

StartLoop(p) ==
    /\ at[p] = "off"
    /\ at' = [at EXCEPT ![p] = "ready"]
    /\ \E n \in CycleLimits : limit' = [limit EXCEPT ![p] = n]
    /\ UNCHANGED <<vars, guard, safety, result, effects, resumed>>

CyclesUsedUp(p) == limit[p] # 0 /\ guard[p].iterations >= limit[p]

\* max_cycles have been run.
StopAtMaxCycles(p) ==
    /\ at[p] = "ready"
    /\ CyclesUsedUp(p)
    /\ Leave(p)
    /\ UNCHANGED <<vars, effects, resumed>>

\* SIDE_EFFECT_COUNT > 0 at the end of the cycle, and its signature.
Signature(p) ==
    IF status'[p] # "SUCCESS" THEN NoKey
    ELSE CASE pc[p] \in {"confirmWrite", "clickRetry"} ->
                 IF resumed[p] THEN ResumedSubmission ELSE op[p]
           [] pc[p] = "archiveClear" /\ op[p].type = "SUPERVISOR_RETURN" -> ReportReturned
           [] OTHER -> NoKey

\* Mutant: an archived task does not end the loop.
TerminalHaltsOnly(p) == status'[p] \in {"HALTED", "ORPHANED_STATE"}

\* CYCLE_TERMINAL at the end of the cycle: halted or archived.
Terminal(p) ==
    \/ status'[p] \in {"HALTED", "ORPHANED_STATE"}
    \/ status'[p] = "SUCCESS" /\ pc[p] = "archiveClear"

\* One step of run_once.  An idle process starts a cycle.
RunOnce(p, step) ==
    LET begins == pc[p] = "idle"
        ends   == pc'[p] = "idle"
    IN  /\ IF begins
           THEN at[p] = "ready" /\ ~CyclesUsedUp(p)
           ELSE at[p] = "cycle"
        /\ step
        /\ at' = [at EXCEPT ![p] = IF ends THEN "returned" ELSE "cycle"]
        /\ result' = [result EXCEPT ![p] =
                        IF ends THEN [signature |-> Signature(p), terminal |-> Terminal(p)] ELSE @]
        /\ effects' = [effects EXCEPT ![p] = (IF begins THEN 0 ELSE @)
                                             + (IF clicks' # clicks THEN 1 ELSE 0)]
        /\ resumed' = [resumed EXCEPT ![p] = ~ends /\ (@ \/ pc[p] = "reconcile")]
        /\ UNCHANGED <<limit, guard>>

\* The end of prepare_operation: the checkpoint, then the orchestrator's
\* guard, which raises with record and checkpoint written.
CheckpointAndGuard(p) ==
    /\ pc[p] = "writeCheckpoint"
    /\ safety' = [safety EXCEPT ![p] = Recorded(@, op[p])]
    /\ IF Tripped(safety'[p])
       THEN /\ checkpoint' = TRUE
            /\ EndCycle(p, "ERROR")
            /\ UNCHANGED <<active, records, ledger, estop, page, faults>>
       ELSE WriteCheckpoint(p)

EngineStep(p) ==
    \/ CheckpointAndGuard(p)
    \/ pc[p] # "writeCheckpoint" /\ Engine(p) /\ UNCHANGED safety

Cycle(p) == RunOnce(p, EngineStep(p))

\* The controller records the cycle and goes on, or leaves on a violation of
\* its guard, a bad status or a terminal cycle.
Record(p) ==
    LET recorded == Recorded(guard[p], result[p].signature)
    IN  /\ at[p] = "returned"
        /\ IF \/ Tripped(recorded)
              \/ status[p] \in {"HALTED", "ORPHANED_STATE", "ERROR"}
              \/ result[p].terminal
           THEN Leave(p)
           ELSE /\ at' = [at EXCEPT ![p] = "ready"]
                /\ guard' = [guard EXCEPT ![p] = recorded]
                /\ result' = [result EXCEPT ![p] = NoResult]
                /\ UNCHANGED <<limit, safety>>
        /\ UNCHANGED <<vars, effects, resumed>>

\* The process dies with its loop, or the exception ends the loop.
Break(p) ==
    /\ Interrupt(p)
    /\ Leave(p)
    /\ resumed' = [resumed EXCEPT ![p] = FALSE]
    /\ UNCHANGED effects

LoopNext ==
    \/ \E p \in Procs : StartLoop(p) \/ StopAtMaxCycles(p) \/ Cycle(p) \/ Record(p) \/ Break(p)
    \/ (Environment \/ Operator) /\ UNCHANGED loop

\* A loop that ended is started again by the operator or a scheduler; a cycle
\* and the controller go on; the implementer as in Bridge.
LoopFairness ==
    /\ \A p \in Procs : /\ WF_loopVars(StartLoop(p))
                        /\ WF_loopVars(StopAtMaxCycles(p))
                        /\ WF_loopVars(Cycle(p))
                        /\ WF_loopVars(Record(p))
                        /\ SF_loopVars(RunOnce(p, DetectCompleted(p) /\ UNCHANGED safety))
                        /\ SF_loopVars(RunOnce(p, AcceptReport(p) /\ UNCHANGED safety))
    /\ \A c \in Commands : WF_loopVars(GeminiAnswers(c) /\ UNCHANGED loop)

LoopSpec == LoopInit /\ [][LoopNext]_loopVars /\ LoopFairness

-----------------------------------------------------------------------------
(* Properties.                                                             *)

\* Types, and the limit: a loop runs at most MaxIterations + 1 cycles, the
\* last one before its guard notices (LoopGuard.record_cycle comes after
\* run_once).
LoopTypeOK ==
    LET Guards == [iterations : 0..MaxIterations, last : Signatures, repeats : 0..2]
    IN  /\ at \in [Procs -> {"off", "ready", "cycle", "returned"}]
        /\ limit \in [Procs -> CycleLimits \cup {0}]
        /\ guard \in [Procs -> Guards]
        /\ safety \in [Procs -> Guards]
        /\ result \in [Procs -> [signature : Signatures, terminal : BOOLEAN]]
        /\ effects \in [Procs -> Nat]
        /\ resumed \in [Procs -> BOOLEAN]

\* A cycle has at most one browser side effect (README, "Single Side Effect
\* Rule").
OneEffectPerCycle == \A p \in Procs : effects[p] <= 1

\* The orchestrator's guard never trips, which would leave an operation
\* PREPARED that nobody clicks: a loop has fewer operations than its limit,
\* since an archived task ends it and retries have a budget.
GuardNeverStrands == \A p \in Procs : ~Tripped(safety[p])

\* The same operation never succeeds twice in a row, so the rule on repeated
\* operations never ends a loop, however long it waits for a generation
\* (loop_controller.py:40).
NoRepeatedOperation == \A p \in Procs : guard[p].repeats <= 1

\* Under run_loop the engine does what Bridge says: all that holds of Bridge
\* holds of loops.
BridgeHolds == Spec

\* A loop that was started ends, also one that only polls a generation that
\* never completes.
LoopEnds == \A p \in Procs : at[p] # "off" ~> at[p] = "off"
=============================================================================
