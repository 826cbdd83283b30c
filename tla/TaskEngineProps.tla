--------------------------- MODULE TaskEngineProps ---------------------------
(***************************************************************************)
(* What the task engine owes its callers, and what TLC runs check of it.   *)
(***************************************************************************)
EXTENDS TaskEngine

\* Every row, thread and audit entry is of the kind the code can produce.
TypeOK == /\ rows \in [Tasks -> Row]
          /\ audit \in [Tasks -> Seq(Edge)]
          /\ moves \in [Tasks -> Seq(Edge)]
          /\ th \in [Threads -> Thread]
          /\ pool \in Seq(Tasks)
          /\ ops \in 0 .. MaxOps
          /\ crashes \in 0 .. MaxCrashes

-----------------------------------------------------------------------------
(* Audit trail.                                                            *)

Occurrences(e, s) == Cardinality({n \in DOMAIN s : s[n] = e})

LogPCs == {"create.log", "execute.log", "cancel.log", "retry.log",
           "transition.log", "complete.log", "fail.log", "requeue.log"}

\* Threads that changed the status of i along e and have not logged it yet.
Unlogged(i, e) == {t \in Threads : /\ th[t].pc \in LogPCs
                                   /\ th[t].id = i
                                   /\ th[t].edge = e}

\* The audit trail never claims a status change that was not made, and it
\* misses only those whose event is still to be inserted or was lost in a
\* restart between the UPDATE and the INSERT (cas_transition is two
\* transactions, append_task_event commits on its own).
AuditSound ==
  \A i \in Tasks : \A e \in Edge :
    LET told == Occurrences(e, audit[i]) + Cardinality(Unlogged(i, e))
        made == Occurrences(e, moves[i])
    IN  told <= made /\ (crashes = 0 => told = made)

-----------------------------------------------------------------------------
(* Retries.                                                                *)

\* However the runs of one task interleave, the retry counter a thread writes
\* from a value it read earlier stays within the limit fail_task applies.
RetryBound ==
  \A i \in Tasks : rows[i].retries <= EffectiveLimit(rows[i].maxRetries)

-----------------------------------------------------------------------------
(* Results and terminal states.                                            *)

\* A result belongs to a completed task: the reply of a run that ends after the
\* task was cancelled, failed or restarted by another run is dropped, and no
\* row is left with a result and a status that says otherwise.
ResultMeansCompleted ==
  \A i \in Tasks : rows[i].result => rows[i].status = "completed"

\* completed and cancelled are final: no thread that read an earlier status
\* moves the task out of them (_VALID_TRANSITIONS gives them no successor).
TerminalIsFinal ==
  [][\A i \in Tasks : rows[i].status \in {"completed", "cancelled"}
                        => rows'[i].status = rows[i].status]_evars

\* A thread that will still end the running status of task i, or hand the
\* task to one that will.
EndsRun(i) == {t \in Threads :
                 /\ th[t].id = i
                 /\ th[t].pc \in {"execute.log", "execute.submit", "work",
                                  "complete.cas", "fail.cas"}}

Submitted(i) == \E n \in DOMAIN pool : pool[n] = i

\* As long as the process lives and the workspaces of runs can be written, a
\* task marked running has a run that will end it: the claim, the submission and
\* the run are three steps of two threads, and a second execution of the same
\* task may end the first one's claim.
RunningHasRun ==
  crashes = 0 /\ ~ SetupMayFail =>
    \A i \in Tasks : rows[i].status = "running" => EndsRun(i) # {} \/ Submitted(i)

\* A task does not stay running for ever while the process lives.  The code
\* keeps this only where the workspaces of runs can be written (RunLost).
RunEnds == \A i \in Tasks : rows[i].status = "running" ~> rows[i].status # "running"

Quiet == crashes = 0 /\ \A t \in Threads : th[t].pc = "idle"

\* Once every thread is idle, an ended task has what its end promises: the
\* result and the time of a completed one, the time of a cancelled one.  In
\* between they disagree with the status (two calls write them).
EndedIsRecorded ==
  Quiet => \A i \in Tasks :
             /\ rows[i].status = "completed" => rows[i].result
             /\ rows[i].status \in {"completed", "cancelled"} => rows[i].completedAt

(* Both: no claim without a run that ends it, no end without its record.   *)
RunsAccounted == RunningHasRun /\ EndedIsRecorded

-----------------------------------------------------------------------------
(* The engine implements the lifecycle it documents.                       *)

Lifecycle == INSTANCE TaskLifecycle
  WITH RetryLimits <- {EffectiveLimit(m) : m \in RetryLimits},
       status    <- [i \in Tasks |-> rows[i].status],
       hasResult <- [i \in Tasks |-> rows[i].result],
       retries   <- [i \in Tasks |-> rows[i].retries],
       limit     <- [i \in Tasks |-> IF rows[i].status = "none" THEN 0
                                     ELSE EffectiveLimit(rows[i].maxRetries)]

ImplementsLifecycle == Lifecycle!LSpec
=============================================================================
