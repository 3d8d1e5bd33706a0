----------------------------- MODULE TaskStates -----------------------------
(***************************************************************************)
(* The durable task life cycle of src/state/task_state.py: the values of   *)
(* TaskState, the table LEGAL_TRANSITIONS and the groups of states that    *)
(* RuntimeEngine.run_once dispatches on.                                   *)
(***************************************************************************)

LegalTransitions ==
    [ NO_ACTIVE_TASK                 |-> {"COMMAND_DETECTED"},
      COMMAND_DETECTED               |-> {"COMMAND_VALIDATED", "FAILED", "MANUAL_REVIEW_REQUIRED"},
      COMMAND_VALIDATED              |-> {"COMMAND_ACCEPTED", "FAILED", "MANUAL_REVIEW_REQUIRED"},
      COMMAND_ACCEPTED               |-> {"SUBMISSION_PREPARED", "FAILED", "MANUAL_REVIEW_REQUIRED"},
      SUBMISSION_PREPARED            |-> {"SENT_TO_IMPLEMENTER", "FAILED", "MANUAL_REVIEW_REQUIRED"},
      SENT_TO_IMPLEMENTER            |-> {"WAITING_FOR_IMPLEMENTER", "FAILED", "MANUAL_REVIEW_REQUIRED"},
      WAITING_FOR_IMPLEMENTER        |-> {"WAITING_FOR_IMPLEMENTER", "IMPLEMENTER_RESPONSE_DETECTED",
                                          "SENT_TO_IMPLEMENTER", "FAILED", "MANUAL_REVIEW_REQUIRED"},
      IMPLEMENTER_RESPONSE_DETECTED  |-> {"IMPLEMENTER_RESPONSE_VALIDATED", "FAILED", "MANUAL_REVIEW_REQUIRED"},
      IMPLEMENTER_RESPONSE_VALIDATED |-> {"RETURN_PREPARED", "FAILED", "MANUAL_REVIEW_REQUIRED"},
      RETURN_PREPARED                |-> {"RETURNED_TO_SUPERVISOR", "FAILED", "MANUAL_REVIEW_REQUIRED"},
      RETURNED_TO_SUPERVISOR         |-> {"COMPLETED", "FAILED", "MANUAL_REVIEW_REQUIRED"},
      COMPLETED                      |-> {},
      FAILED                         |-> {},
      MANUAL_REVIEW_REQUIRED         |-> {} ]

TaskState == DOMAIN LegalTransitions

\* The states an active_task.json file may carry.
FileStates == TaskState \ {"NO_ACTIVE_TASK"}

CanMove(from, to) == to \in LegalTransitions[from]

\* Accepted, not yet handed to the submitter.
Intermediate == {"COMMAND_DETECTED", "COMMAND_VALIDATED", "COMMAND_ACCEPTED"}

\* Submitted: the cycle polls the implementer.
Polling == {"SENT_TO_IMPLEMENTER", "WAITING_FOR_IMPLEMENTER",
            "IMPLEMENTER_RESPONSE_DETECTED", "IMPLEMENTER_RESPONSE_VALIDATED"}

\* Finished: the cycle archives the task.
Finished == {"COMPLETED", "RETURNED_TO_SUPERVISOR"}

\* The cycle reports the task as halted and does nothing.
Halted == {"FAILED", "MANUAL_REVIEW_REQUIRED"}
=============================================================================
