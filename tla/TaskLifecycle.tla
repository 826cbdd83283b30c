---------------------------- MODULE TaskLifecycle ----------------------------
(***************************************************************************)
(* What the task engine promises about one task, whatever the number of    *)
(* threads that act on it: the state machine drawn in the docstring of     *)
(* agent_runtime/core/task_engine.py and tabulated in _VALID_TRANSITIONS,   *)
(* with a result that is attached once, to a completed task, and with a    *)
(* retry counter that stays within the limit fixed at creation.            *)
(***************************************************************************)
EXTENDS Naturals

CONSTANTS Tasks,          \* identifiers of tasks
          RetryLimits     \* the retry limits a task can be created with

VARIABLES status,         \* status[i]: "none" before the task exists
          hasResult,      \* hasResult[i]: a result is attached to the task
          retries,        \* retries[i]: automatic retries counted
          limit           \* limit[i]: most automatic retries counted

avars == <<status, hasResult, retries, limit>>

\* _VALID_TRANSITIONS
Legal == [none      |-> {"pending"},
          pending   |-> {"running", "cancelled"},
          running   |-> {"completed", "failed", "cancelled"},
          failed    |-> {"pending"},
          completed |-> {},
          cancelled |-> {}]

LInit == /\ status = [i \in Tasks |-> "none"]
         /\ hasResult = [i \in Tasks |-> FALSE]
         /\ retries = [i \in Tasks |-> 0]
         /\ limit = [i \in Tasks |-> 0]

\* A task comes into being with its limit.
Create(i) == /\ status[i] = "none"
             /\ status' = [status EXCEPT ![i] = "pending"]
             /\ \E m \in RetryLimits : limit' = [limit EXCEPT ![i] = m]
             /\ UNCHANGED <<hasResult, retries>>

\* A legal edge of the table.
Move(i) == /\ status[i] # "none"
           /\ \E s \in Legal[status[i]] : status' = [status EXCEPT ![i] = s]
           /\ UNCHANGED <<hasResult, retries, limit>>

\* The result is attached once, to a task that is completed.
Deliver(i) == /\ status[i] = "completed"
              /\ ~ hasResult[i]
              /\ hasResult' = [hasResult EXCEPT ![i] = TRUE]
              /\ UNCHANGED <<status, retries, limit>>

\* The counter moves within the limit; a manual retry sets it back to 0.
Count(i) == /\ status[i] # "none"
            /\ \E n \in 0 .. limit[i] : retries' = [retries EXCEPT ![i] = n]
            /\ UNCHANGED <<status, hasResult, limit>>

LNext == \E i \in Tasks : Create(i) \/ Move(i) \/ Deliver(i) \/ Count(i)

LSpec == LInit /\ [][LNext]_avars
=============================================================================
