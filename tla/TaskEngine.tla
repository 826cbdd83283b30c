----------------------------- MODULE TaskEngine -----------------------------
(***************************************************************************)
(* The task table and the threads that change it: core/task_engine.py over *)
(* the tasks and task_events tables of core/db.py, driven by the endpoints  *)
(* of server/api/tasks.py.                                                  *)
(*                                                                         *)
(* Database holds a lock for each call and commits at its end, so one call  *)
(* is one atomic step; an operation of the engine is several calls, and     *)
(* the threads interleave between them.  The endpoints are coroutines that  *)
(* never await: one event loop runs each of them from its first call to    *)
(* its last (a Caller here).  POST /execute hands the task to the thread    *)
(* pool, whose threads (Workers) run it and report.                         *)
(***************************************************************************)
EXTENDS Integers, Sequences, FiniteSets

CONSTANTS Tasks,              \* task ids
          Callers,            \* event loops that serve requests
          Workers,            \* threads of the default executor
          RetryLimits,        \* max_retries a request may carry
          ProgressReports,    \* progress a request may carry
          TransitionTargets,  \* statuses POST /transition may ask for
          SetupMayFail,       \* the workspace of a run may fail to be written
          MaxOps,             \* bound: requests served
          MaxCrashes          \* bound: process restarts

Status == {"pending", "running", "completed", "failed", "cancelled"}

ASSUME EngineConstants ==
  /\ Callers \cap Workers = {}
  /\ RetryLimits \subseteq Nat
  /\ ProgressReports \subseteq 0 .. 100
  /\ TransitionTargets \subseteq Status
  /\ SetupMayFail \in BOOLEAN
  /\ MaxOps \in Nat
  /\ MaxCrashes \in Nat

Threads == Callers \cup Workers
ASSUME ThreadsAreFinite == IsFiniteSet(Threads)
NoTask  == "no task"
ASSUME NoTaskIsNone == NoTask \notin Tasks

VARIABLES rows,      \* the tasks table; status "none": no such row
          audit,     \* task_events: the status_changed and created edges
          th,        \* the threads, each inside at most one operation
          pool,      \* tasks submitted to the executor, in order
          ops,       \* requests served so far
          crashes,   \* restarts so far
          moves      \* history: the status changes in commit order

evars == <<rows, audit, th, pool, ops, crashes, moves>>

-----------------------------------------------------------------------------
(* Rows and threads.                                                       *)

NoRow == [status |-> "none", retries |-> 0, maxRetries |-> 0, progress |-> 0,
          completedAt |-> FALSE, error |-> "none", result |-> FALSE]

NewRow(m) == [NoRow EXCEPT !.status = "pending", !.maxRetries = m]

AnyStatus == Status \cup {"none"}

Row == [status : AnyStatus, retries : Nat, maxRetries : Nat,
        progress : 0 .. 100, completedAt : BOOLEAN,
        error : {"none", "unknown", "cancelled"}, result : BOOLEAN]

Edge == AnyStatus \X AnyStatus

PC == {"idle", "create.log", "execute.cas", "execute.log", "execute.submit",
       "work", "complete.cas", "complete.log", "complete.write",
       "fail.cas", "fail.log", "fail.write", "fail.check", "requeue.cas",
       "requeue.log", "requeue.write", "cancel.cas", "cancel.log",
       "cancel.write", "retry.log", "retry.write", "progress.write",
       "transition.cas", "transition.log"}

\* An idle thread.  num holds what a thread has read for a later write, ret
\* where the caller of the engine goes on when the engine returns.
Idle == [pc |-> "idle", id |-> NoTask, edge |-> <<"none", "none">>,
         num |-> 0, ret |-> "idle"]

Thread == {s \in [pc : PC, id : Tasks \cup {NoTask}, edge : Edge, num : Nat,
                  ret : PC] : s.pc # "idle" => s.id \in Tasks}

\* task.get('max_retries', 3) or 3: a stored limit of 0 is read as 3.
EffectiveLimit(m) == IF m = 0 THEN 3 ELSE m

EInit == /\ rows = [i \in Tasks |-> NoRow]
         /\ audit = [i \in Tasks |-> << >>]
         /\ moves = [i \in Tasks |-> << >>]
         /\ th = [t \in Threads |-> Idle]
         /\ pool = << >>
         /\ ops = 0
         /\ crashes = 0

-----------------------------------------------------------------------------
(* Steps the operations share.                                             *)

At(t, pc) == th[t].pc = pc
AtPc(s, pc) == [s EXCEPT !.pc = pc]
Goto(t, pc) == th' = [th EXCEPT ![t] = AtPc(th[t], pc)]

\* The engine returns to its caller on thread state s.
Back(s) == IF s.ret = "idle" THEN Idle ELSE [s EXCEPT !.pc = s.ret, !.ret = "idle"]
Return(t) == th' = [th EXCEPT ![t] = Back(th[t])]

\* A request for task i reaches the idle event loop c, which goes on at pc
\* with the status change <<from, to>> to make.
Request(c, i) == /\ At(c, "idle")
                 /\ ops < MaxOps
                 /\ ops' = ops + 1
                 /\ UNCHANGED <<pool, crashes>>

Serving(i, pc, from, to) ==
  [Idle EXCEPT !.id = i, !.pc = pc, !.edge = <<from, to>>]

WithStatus(row, status) == [row EXCEPT !.status = status]

\* Mutant: the rowcount of the UPDATE is not looked at.
CasUnchecked(t, s, won) ==
  /\ rows' = [rows EXCEPT ![s.id] = IF @.status = s.edge[1]
                                    THEN WithStatus(@, s.edge[2]) ELSE @]
  /\ moves' = IF rows[s.id].status = s.edge[1]
              THEN [moves EXCEPT ![s.id] = Append(@, s.edge)] ELSE moves
  /\ th' = [th EXCEPT ![t] = AtPc(s, won)]

\* cas_transition, first transaction: UPDATE ... WHERE id=? AND status=?
\* made by thread t in state s; it goes on at won, or returns if the row has
\* another status.
Cas(t, s, won) ==
  \/ /\ rows[s.id].status = s.edge[1]
     /\ rows' = [rows EXCEPT ![s.id] = WithStatus(rows[s.id], s.edge[2])]
     /\ moves' = [moves EXCEPT ![s.id] = Append(@, s.edge)]
     /\ th' = [th EXCEPT ![t] = AtPc(s, won)]
  \/ /\ rows[s.id].status # s.edge[1]
     /\ th' = [th EXCEPT ![t] = Back(s)]
     /\ UNCHANGED <<rows, moves>>

Reading(s, n) == [s EXCEPT !.num = n]
Meaning(t, from, to) == [th[t] EXCEPT !.edge = <<from, to>>]

\* cas_transition, second transaction: the audit event of the change.
LogEdge(t) == /\ audit' = [audit EXCEPT ![th[t].id] = Append(@, th[t].edge)]
              /\ UNCHANGED <<rows, moves, pool, ops, crashes>>

\* update_task on the row of the thread's task.
RowOf(t) == rows[th[t].id]
Write(t, row) == /\ rows' = [rows EXCEPT ![th[t].id] = row]
                 /\ UNCHANGED <<audit, moves, pool, ops, crashes>>

CasOnly == UNCHANGED <<audit, pool, ops, crashes>>

-----------------------------------------------------------------------------
(* Endpoints.                                                              *)

\* POST /tasks: db.create_task inserts the row, then its created event.
CreateTask(c, i) ==
  /\ Request(c, i)
  /\ rows[i].status = "none"
  /\ \E m \in RetryLimits : rows' = [rows EXCEPT ![i] = NewRow(m)]
  /\ moves' = [moves EXCEPT ![i] = Append(@, <<"none", "pending">>)]
  /\ th' = [th EXCEPT ![c] = Serving(i, "create.log", "none", "pending")]
  /\ UNCHANGED audit

CreateLog(t) == At(t, "create.log") /\ LogEdge(t) /\ Return(t)

\* POST /tasks/{id}/execute: a pending task is claimed by CAS, a running one
\* is taken as it is; then the task is submitted to the pool.
ExecuteTask(c, i) ==
  /\ Request(c, i)
  /\ rows[i].status \in {"pending", "running"}
  /\ th' = [th EXCEPT ![c] =
       Serving(i, IF rows[i].status = "pending" THEN "execute.cas"
                                                ELSE "execute.submit",
               "pending", "running")]
  /\ UNCHANGED <<rows, audit, moves>>

ExecuteCas(t) == At(t, "execute.cas") /\ Cas(t, th[t], "execute.log") /\ CasOnly
ExecuteLog(t) == At(t, "execute.log") /\ LogEdge(t) /\ Goto(t, "execute.submit")
ExecuteSubmit(t) == /\ At(t, "execute.submit")
                    /\ pool' = Append(pool, th[t].id)
                    /\ Return(t)
                    /\ UNCHANGED <<rows, audit, moves, ops, crashes>>

\* Mutants: the status is misspelt; the status that was read is not checked.
CancelMisspelt(c, i) ==
  /\ Request(c, i)
  /\ rows[i].status \in {"pending", "running"}
  /\ th' = [th EXCEPT ![c] =
       Serving(i, "cancel.cas", rows[i].status, "canceled")]
  /\ UNCHANGED <<rows, audit, moves>>
CancelAny(c, i) ==
  /\ Request(c, i)
  /\ rows[i].status \notin {"none", "completed", "cancelled"}
  /\ th' = [th EXCEPT ![c] =
       Serving(i, "cancel.cas", rows[i].status, "cancelled")]
  /\ UNCHANGED <<rows, audit, moves>>

\* POST /tasks/{id}/cancel: cancel_task reads the status it will CAS from.
CancelTask(c, i) ==
  /\ Request(c, i)
  /\ rows[i].status \in {"pending", "running"}
  /\ th' = [th EXCEPT ![c] =
       Serving(i, "cancel.cas", rows[i].status, "cancelled")]
  /\ UNCHANGED <<rows, audit, moves>>

CancelCas(t) == At(t, "cancel.cas") /\ Cas(t, th[t], "cancel.log") /\ CasOnly
CancelLog(t) == At(t, "cancel.log") /\ LogEdge(t) /\ Goto(t, "cancel.write")
\* Mutant: the end of a cancelled task is not timed.
CancelUntimed(t) == /\ At(t, "cancel.write")
                    /\ Write(t, [RowOf(t) EXCEPT !.error = "cancelled"])
                    /\ Return(t)
CancelWrite(t) ==
  /\ At(t, "cancel.write")
  /\ Write(t, [RowOf(t) EXCEPT !.completedAt = TRUE, !.error = "cancelled"])
  /\ Return(t)

\* Mutant: the CAS starts from the status just read instead of failed.
RetryAny(c, i) ==
  /\ Request(c, i)
  /\ rows[i].status # "none"
  /\ Cas(c, Serving(i, "retry.log", rows[i].status, "pending"), "retry.log")
  /\ UNCHANGED audit

\* POST /tasks/{id}/retry: retry_task opens with the CAS.
RetryTask(c, i) ==
  /\ Request(c, i)
  /\ Cas(c, Serving(i, "retry.log", "failed", "pending"), "retry.log")
  /\ UNCHANGED audit

RetryLog(t) == At(t, "retry.log") /\ LogEdge(t) /\ Goto(t, "retry.write")
RetryWrite(t) ==
  /\ At(t, "retry.write")
  /\ Write(t, [RowOf(t) EXCEPT !.retries = 0, !.error = "none"])
  /\ Return(t)

\* min(100, max(0, progress))
Clamp(p) == IF p > 100 THEN 100 ELSE IF p < 0 THEN 0 ELSE p

\* POST /tasks/{id}/progress: update_progress checks the status, then writes.
UpdateProgress(c, i) ==
  /\ Request(c, i)
  /\ rows[i].status = "running"
  /\ \E p \in ProgressReports :
       th' = [th EXCEPT ![c] =
         Reading(Serving(i, "progress.write", "none", "none"), p)]
  /\ UNCHANGED <<rows, audit, moves>>

ProgressWrite(t) == /\ At(t, "progress.write")
                    /\ Write(t, [RowOf(t) EXCEPT !.progress = Clamp(th[t].num)])
                    /\ Return(t)

\* POST /tasks/{id}/transition: CAS from the status read to any status asked.
TransitionTask(c, i) ==
  /\ Request(c, i)
  /\ rows[i].status # "none"
  /\ \E s \in TransitionTargets :
       th' = [th EXCEPT ![c] = Serving(i, "transition.cas", rows[i].status, s)]
  /\ UNCHANGED <<rows, audit, moves>>

TransitionCas(t) ==
  At(t, "transition.cas") /\ Cas(t, th[t], "transition.log") /\ CasOnly
TransitionLog(t) == At(t, "transition.log") /\ LogEdge(t) /\ Return(t)

-----------------------------------------------------------------------------
(* Runs in the pool: _run of execute_task.                                 *)

\* A free worker takes the oldest submission.
RunTask(w) == /\ At(w, "idle")
              /\ pool # << >>
              /\ pool' = Tail(pool)
              /\ th' = [th EXCEPT ![w] = Serving(Head(pool), "work", "none", "none")]
              /\ UNCHANGED <<rows, audit, moves, ops, crashes>>

\* The workspace and its log file are written before the try of _run: an error
\* there ends the job, and nobody reads the future that holds it.
RunLost(w) == /\ SetupMayFail
              /\ At(w, "idle")
              /\ pool # << >>
              /\ pool' = Tail(pool)
              /\ UNCHANGED <<rows, audit, th, moves, ops, crashes>>

\* process_message returns a reply, or raises.
WorkReplies(w) ==
  /\ At(w, "work")
  /\ th' = [th EXCEPT ![w] =
       AtPc(Meaning(w, "running", "completed"), "complete.cas")]
  /\ UNCHANGED <<rows, audit, moves, pool, ops, crashes>>

\* Mutant: the exception ends the thread's job and nothing else.
WorkLost(w) == /\ At(w, "work")
               /\ th' = [th EXCEPT ![w] = Idle]
               /\ UNCHANGED <<rows, audit, moves, pool, ops, crashes>>

WorkRaises(w) ==
  /\ At(w, "work")
  /\ th' = [th EXCEPT ![w] =
       AtPc(Meaning(w, "running", "failed"), "fail.cas")]
  /\ UNCHANGED <<rows, audit, moves, pool, ops, crashes>>

\* Mutant: the result is written whether or not the CAS won.
CompleteAnyway(t) ==
  /\ At(t, "complete.cas")
  /\ \/ Cas(t, th[t], "complete.log") /\ RowOf(t).status = "running"
     \/ /\ RowOf(t).status # "running"
        /\ Goto(t, "complete.write")
        /\ UNCHANGED <<rows, moves>>
  /\ CasOnly

\* complete_task
CompleteCas(t) == At(t, "complete.cas") /\ Cas(t, th[t], "complete.log") /\ CasOnly
CompleteLog(t) == At(t, "complete.log") /\ LogEdge(t) /\ Goto(t, "complete.write")
CompleteWrite(t) ==
  /\ At(t, "complete.write")
  /\ Write(t, [RowOf(t) EXCEPT !.result = TRUE, !.completedAt = TRUE,
                               !.progress = 100])
  /\ Return(t)

\* fail_task: fail, then count a retry and go back to pending if any is left.
FailCas(t) == At(t, "fail.cas") /\ Cas(t, th[t], "fail.log") /\ CasOnly
FailLog(t) == At(t, "fail.log") /\ LogEdge(t) /\ Goto(t, "fail.write")
FailWrite(t) == /\ At(t, "fail.write")
                /\ Write(t, [RowOf(t) EXCEPT !.error = "unknown"])
                /\ Goto(t, "fail.check")
\* Mutant: one retry too many.
FailCheckLate(t) ==
  /\ At(t, "fail.check")
  /\ \/ /\ RowOf(t).retries <= EffectiveLimit(RowOf(t).maxRetries)
        /\ th' = [th EXCEPT ![t] =
             AtPc(Reading(Meaning(t, "failed", "pending"), RowOf(t).retries),
                  "requeue.cas")]
     \/ /\ RowOf(t).retries > EffectiveLimit(RowOf(t).maxRetries)
        /\ Return(t)
  /\ UNCHANGED <<rows, audit, moves, pool, ops, crashes>>
FailCheck(t) ==
  /\ At(t, "fail.check")
  /\ \/ /\ RowOf(t).retries < EffectiveLimit(RowOf(t).maxRetries)
        /\ th' = [th EXCEPT ![t] =
             AtPc(Reading(Meaning(t, "failed", "pending"), RowOf(t).retries),
                  "requeue.cas")]
     \/ /\ RowOf(t).retries >= EffectiveLimit(RowOf(t).maxRetries)
        /\ Return(t)
  /\ UNCHANGED <<rows, audit, moves, pool, ops, crashes>>

RequeueCas(t) == At(t, "requeue.cas") /\ Cas(t, th[t], "requeue.log") /\ CasOnly
RequeueLog(t) == At(t, "requeue.log") /\ LogEdge(t) /\ Goto(t, "requeue.write")
RequeueWrite(t) == /\ At(t, "requeue.write")
                   /\ Write(t, [RowOf(t) EXCEPT !.retries = th[t].num + 1])
                   /\ Return(t)

-----------------------------------------------------------------------------
\* The process restarts: the table survives, threads and submissions do not.
Crash == /\ crashes < MaxCrashes
         /\ crashes' = crashes + 1
         /\ th' = [t \in Threads |-> Idle]
         /\ pool' = << >>
         /\ UNCHANGED <<rows, audit, moves, ops>>

Serve(c) == \E i \in Tasks :
  \/ CreateTask(c, i)     \/ ExecuteTask(c, i) \/ CancelTask(c, i)
  \/ RetryTask(c, i)      \/ UpdateProgress(c, i) \/ TransitionTask(c, i)

\* The rest of an operation under way.
Advance(t) ==
  \/ CreateLog(t)
  \/ ExecuteCas(t) \/ ExecuteLog(t) \/ ExecuteSubmit(t)
  \/ CancelCas(t) \/ CancelLog(t) \/ CancelWrite(t)
  \/ RetryLog(t) \/ RetryWrite(t)
  \/ ProgressWrite(t)
  \/ TransitionCas(t) \/ TransitionLog(t)
  \/ CompleteCas(t) \/ CompleteLog(t) \/ CompleteWrite(t)
  \/ FailCas(t) \/ FailLog(t) \/ FailWrite(t) \/ FailCheck(t)
  \/ RequeueCas(t) \/ RequeueLog(t) \/ RequeueWrite(t)

Run(w) == RunTask(w) \/ RunLost(w) \/ WorkReplies(w) \/ WorkRaises(w)

ENext == \/ \E c \in Callers : Serve(c)
         \/ \E t \in Threads : Advance(t)
         \/ \E w \in Workers : Run(w)
         \/ Crash

ESpec == EInit /\ [][ENext]_evars

\* A thread inside an operation goes on (a database call ends, a run's LLM and
\* tool calls have timeouts), and the pool schedules what is submitted.
EFairness == /\ \A t \in Threads : WF_evars(Advance(t))
             /\ \A w \in Workers : WF_evars(Run(w))

EFairSpec == ESpec /\ EFairness
=============================================================================
