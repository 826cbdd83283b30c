----------------------------- MODULE Orchestrator -----------------------------
(***************************************************************************)
(* One message handled by the orchestrator of agent_runtime/orchestration: *)
(* a plan is made by the LLM (orchestrator.py, decomposer.py), its subtasks *)
(* are executed in the order of their dependencies with retries            *)
(* (executor.py, auditor.py), each execution is followed by a checkpoint    *)
(* (checkpoint.py), and the plan is settled (settlement.py).               *)
(*                                                                         *)
(* The plan lives in the memory of the thread that handles the message; the *)
(* row of the plan, the rows of its subtasks and the checkpoint live in the *)
(* database.  The plan's row is a row of the tasks table, so requests of    *)
(* the API reach it (EngineMoves) while the plan runs.                     *)
(***************************************************************************)
EXTENDS Integers, FiniteSets

CONSTANTS N,            \* subtasks in a plan
          Ids,          \* ids the LLM gives to subtasks and names in depends_on
          MaxRetries,   \* _MAX_RETRIES
          DbMayFail,    \* a database call, or the encoding of a value, may raise
          MaxCrashes    \* bound: process restarts

ASSUME OrchestratorConstants == /\ N \in Nat \ {0}
                                /\ Ids # {}
                                /\ MaxRetries \in Nat
                                /\ DbMayFail \in BOOLEAN
                                /\ MaxCrashes \in Nat

Sub == 1 .. N

VARIABLES pc,        \* where the thread is in run
          id, deps,  \* the plan: ids and depends_on of its subtasks
          st,        \* status of the subtasks
          filled,    \* what the current subtask returned is not empty
          todo,      \* subtasks left in the list being walked
          attempt,   \* attempts made at the current subtask
          rounds,    \* rounds of _execute_plan
          row,       \* tasks row of the plan
          subrows,   \* tasks rows of the subtasks, by id
          ckpt,      \* row of the checkpoints table
          crashes,   \* restarts so far
          audit,     \* history: the last verdict on each subtask
          runs       \* history: executions of each subtask

memory  == <<id, deps, st, filled, todo, attempt, rounds>>
stored  == <<row, subrows, ckpt>>
history == <<audit, runs>>
ovars   == <<pc, memory, stored, crashes, history>>

PCs == {"idle", "insert", "round", "start", "work", "audit", "save",
        "write.plan", "insert.sub", "write.sub", "delete",
        "returned", "fallback", "lost"}
SubStatus == {"pending", "running", "done", "failed"}
RowStatus == {"none", "pending", "running", "completed", "failed",
              "cancelled", "done"}
NoCheckpoint == [p \in Sub |-> "none"]

\* What the requests of the task engine do to a row: _VALID_TRANSITIONS.
EngineEdges == {<<"pending", "running">>, <<"pending", "cancelled">>,
                <<"running", "completed">>, <<"running", "failed">>,
                <<"running", "cancelled">>, <<"failed", "pending">>}

OInit == /\ pc = "idle"
         /\ id = [p \in Sub |-> CHOOSE d \in Ids : TRUE]
         /\ deps = [p \in Sub |-> {}]
         /\ st = [p \in Sub |-> "pending"]
         /\ filled = FALSE
         /\ todo = {}
         /\ attempt = 0
         /\ rounds = 0
         /\ row = "none"
         /\ subrows = [d \in Ids |-> "none"]
         /\ ckpt = NoCheckpoint
         /\ crashes = 0
         /\ audit = [p \in Sub |-> "none"]
         /\ runs = [p \in Sub |-> 0]

-----------------------------------------------------------------------------
(* The plan.                                                               *)

DoneIds(s) == {id[p] : p \in {q \in Sub : s[q] = "done"}}

\* Mutant of Ready: one dependency that is done is enough.
ReadyAny(s) == {p \in Sub : s[p] = "pending" /\ \/ deps[p] = {}
                                                 \/ deps[p] \cap DoneIds(s) # {}}

\* get_ready_subtasks
Ready(s) == {p \in Sub : s[p] = "pending" /\ deps[p] \subseteq DoneIds(s)}

\* is_complete
Complete(s) == \A p \in Sub : s[p] \in {"done", "failed"}

\* Bound: runs is counted up to one more than the retries allow.
RunCap == MaxRetries + 2

MaxRounds == N * (MaxRetries + 1)

\* The lists are walked in the order of the plan.
First == CHOOSE p \in todo : \A q \in todo : p <= q

Goto(l) == pc' = l

\* run declines: the route is sure, the task is simple, or no plan was made.
Decline == /\ pc = "idle"
           /\ Goto("fallback")
           /\ UNCHANGED <<memory, stored, crashes, history>>

\* decompose: the LLM names the subtasks and what each depends on.
Decompose == /\ pc = "idle"
             /\ id' \in [Sub -> Ids]
             /\ deps' \in [Sub -> SUBSET Ids]
             /\ Goto("insert")
             /\ UNCHANGED <<st, filled, todo, attempt, rounds>>
             /\ UNCHANGED <<stored, crashes, history>>

InsertPlan == /\ pc = "insert"
              /\ row' = "pending"
              /\ Goto("round")
              /\ UNCHANGED <<memory, subrows, ckpt, crashes, history>>

-----------------------------------------------------------------------------
(* _execute_plan                                                           *)

OpenRound == /\ pc = "round"
             /\ ~ Complete(st) /\ rounds < MaxRounds
             /\ Ready(st) # {}
             /\ todo' = Ready(st)
             /\ rounds' = rounds + 1
             /\ attempt' = 0
             /\ Goto("start")
             /\ UNCHANGED <<id, deps, st, filled, stored, crashes, history>>

\* Mutant of Stuck: every subtask has failed.
StuckFailsAll == /\ pc = "round"
                 /\ ~ Complete(st) /\ rounds < MaxRounds
                 /\ Ready(st) = {}
                 /\ st' = [p \in Sub |-> "failed"]
                 /\ Goto("write.plan")
                 /\ UNCHANGED <<id, deps, filled, todo, attempt, rounds, stored,
                                crashes, history>>

\* Nothing can go on: what is pending has failed.
Stuck == /\ pc = "round"
         /\ ~ Complete(st) /\ rounds < MaxRounds
         /\ Ready(st) = {}
         /\ st' = [p \in Sub |-> IF st[p] = "pending" THEN "failed" ELSE st[p]]
         /\ Goto("write.plan")
         /\ UNCHANGED <<id, deps, filled, todo, attempt, rounds, stored, crashes,
                        history>>

EndRounds == /\ pc = "round"
             /\ Complete(st) \/ rounds >= MaxRounds
             /\ Goto("write.plan")
             /\ UNCHANGED <<memory, stored, crashes, history>>

\* SubTaskExecutor.execute begins.
Start == /\ pc = "start"
         /\ st' = [st EXCEPT ![First] = "running"]
         /\ runs' = [runs EXCEPT ![First] = IF @ < RunCap THEN @ + 1 ELSE @]
         /\ Goto("work")
         /\ UNCHANGED <<id, deps, filled, todo, attempt, rounds, stored,
                        crashes, audit>>

\* The skill or the LLM returns, perhaps with nothing.
WorkReturns == /\ pc = "work"
               /\ st' = [st EXCEPT ![First] = "done"]
               /\ filled' \in BOOLEAN
               /\ Goto("audit")
               /\ UNCHANGED <<id, deps, todo, attempt, rounds, stored, crashes,
                              history>>

Again == /\ attempt' = attempt + 1
         /\ Goto("start")

\* Mutant of WorkRaises: one attempt too many.
RaisesRetryLate ==
  /\ pc = "work"
  /\ \/ /\ attempt <= MaxRetries
        /\ st' = [st EXCEPT ![First] = "pending"]
        /\ Again
     \/ /\ attempt > MaxRetries
        /\ st' = [st EXCEPT ![First] = "failed"]
        /\ Goto("save")
        /\ UNCHANGED attempt
  /\ UNCHANGED <<id, deps, filled, todo, rounds, stored, crashes, history>>

\* It raises: the subtask is tried again, or has failed.
WorkRaises ==
  /\ pc = "work"
  /\ \/ /\ attempt < MaxRetries
        /\ st' = [st EXCEPT ![First] = "pending"]
        /\ Again
     \/ /\ attempt >= MaxRetries
        /\ st' = [st EXCEPT ![First] = "failed"]
        /\ Goto("save")
        /\ UNCHANGED attempt
  /\ UNCHANGED <<id, deps, filled, todo, rounds, stored, crashes, history>>

Verdict(v) == audit' = [audit EXCEPT ![First] = v]

AuditPasses == /\ pc = "audit"
               /\ filled
               /\ Verdict("passed")
               /\ Goto("save")
               /\ UNCHANGED <<memory, stored, crashes, runs>>

\* Mutant of AuditFails: what the audit refuses waits for another round.
AuditPostpones ==
  /\ pc = "audit"
  /\ Verdict("failed")
  /\ st' = [st EXCEPT ![First] = "pending"]
  /\ Goto("save")
  /\ UNCHANGED <<id, deps, filled, todo, attempt, rounds, stored, crashes, runs>>

\* Mutant of AuditFails: what the audit refuses is tried again at once.
AuditUncounted ==
  /\ pc = "audit"
  /\ Verdict("failed")
  /\ st' = [st EXCEPT ![First] = "pending"]
  /\ Goto("start")
  /\ UNCHANGED <<id, deps, filled, todo, attempt, rounds, stored, crashes, runs>>

\* An empty result, an error in the evidence, or the LLM's verdict: the subtask
\* is tried again while attempts are left (retry is FALSE in some verdicts of
\* the LLM only), and otherwise stays as it is, which is done.
AuditFails ==
  /\ pc = "audit"
  /\ Verdict("failed")
  /\ \E retry \in (IF filled THEN BOOLEAN ELSE {TRUE}) :
       \/ /\ retry /\ attempt < MaxRetries
          /\ st' = [st EXCEPT ![First] = "pending"]
          /\ Again
       \/ /\ ~ retry \/ attempt >= MaxRetries
          /\ Goto("save")
          /\ UNCHANGED <<st, attempt>>
  /\ UNCHANGED <<id, deps, filled, todo, rounds, stored, crashes, runs>>

\* Mutant of SaveCheckpoint: one checkpoint for a round.
SaveRound ==
  /\ pc = "save"
  /\ ckpt' = IF todo = {First} THEN st ELSE ckpt
  /\ todo' = todo \ {First}
  /\ attempt' = 0
  /\ Goto(IF todo = {First} THEN "round" ELSE "start")
  /\ UNCHANGED <<id, deps, st, filled, rounds, row, subrows, crashes, history>>

\* CheckpointManager.save, then the next subtask of the round.
SaveCheckpoint ==
  /\ pc = "save"
  /\ ckpt' = st
  /\ todo' = todo \ {First}
  /\ attempt' = 0
  /\ Goto(IF todo = {First} THEN "round" ELSE "start")
  /\ UNCHANGED <<id, deps, st, filled, rounds, row, subrows, crashes, history>>

-----------------------------------------------------------------------------
(* Settlement.settle                                                       *)

\* _validate and _synthesize make the reply; the rows do not depend on them.
WritePlan == /\ pc = "write.plan"
             /\ row' = "done"
             /\ todo' = Sub
             /\ Goto("insert.sub")
             /\ UNCHANGED <<id, deps, st, filled, attempt, rounds, subrows,
                            ckpt, crashes, history>>

\* The row of a subtask: INSERT OR IGNORE, then UPDATE.
InsertSub ==
  /\ pc = "insert.sub"
  /\ subrows' = [subrows EXCEPT ![id[First]] = IF @ = "none" THEN "pending" ELSE @]
  /\ Goto("write.sub")
  /\ UNCHANGED <<memory, row, ckpt, crashes, history>>

WriteSub ==
  /\ pc = "write.sub"
  /\ subrows' = [subrows EXCEPT ![id[First]] = st[First]]
  /\ todo' = todo \ {First}
  /\ Goto(IF todo = {First} THEN "delete" ELSE "insert.sub")
  /\ UNCHANGED <<id, deps, st, filled, attempt, rounds, row, ckpt, crashes,
                 history>>

DeleteCheckpoint == /\ pc = "delete"
                    /\ ckpt' = NoCheckpoint
                    /\ Goto("returned")
                    /\ UNCHANGED <<memory, row, subrows, crashes, history>>

-----------------------------------------------------------------------------
(* Failures and the rest of the system.                                    *)

\* A call raises: _writeback logs it and goes on to delete the checkpoint;
\* anywhere else it leaves run, and process_message takes the message over.
CallRaises ==
  /\ DbMayFail
  /\ \/ /\ pc \in {"insert", "save", "delete"}
        /\ Goto("fallback")
     \/ /\ pc \in {"write.plan", "insert.sub", "write.sub"}
        /\ Goto("delete")
  /\ UNCHANGED <<memory, stored, crashes, history>>

\* The process restarts: nothing loads a checkpoint.
Crash == /\ crashes < MaxCrashes
         /\ pc \notin {"idle", "returned", "fallback", "lost"}
         /\ crashes' = crashes + 1
         /\ Goto("lost")
         /\ UNCHANGED <<memory, stored, history>>

\* A request of the API, or a run it started, moves the plan's row (the id of a
\* subtask's row has a slash in it, so that no route reaches it).
EngineMoves == /\ \E s \in RowStatus : /\ <<row, s>> \in EngineEdges
                                       /\ row' = s
               /\ UNCHANGED <<pc, memory, subrows, ckpt, crashes, history>>

Walk == \/ Decline \/ Decompose \/ InsertPlan
        \/ OpenRound \/ Stuck \/ EndRounds
        \/ Start \/ WorkReturns \/ WorkRaises \/ AuditPasses \/ AuditFails
        \/ SaveCheckpoint
        \/ WritePlan \/ InsertSub \/ WriteSub \/ DeleteCheckpoint
        \/ CallRaises

ONext == Walk \/ Crash \/ EngineMoves

OSpec == OInit /\ [][ONext]_ovars

\* The thread goes on: skills, tools and LLM calls have timeouts.
OFairSpec == OSpec /\ WF_ovars(Walk)
=============================================================================
