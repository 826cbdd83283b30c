----------------------------- MODULE ToolPipeline -----------------------------
(***************************************************************************)
(* Guarded calls of tools (core/tool_pipeline.py): a batch under a semaphore,   *)
(* each with its hooks before and after and a timeout, on the threads of the    *)
(* loop's pool, or as a coroutine of the loop; and the call without a loop.      *)
(***************************************************************************)
EXTENDS Integers, FiniteSets

CONSTANTS ToolCalls,  \* the calls of a batch, and one that is made outside of it
          Parallel,   \* max_parallel
          PoolSize,   \* threads of the loop's default executor
          Hooks       \* number of hooks on each side

ASSUME PipelineConstants == /\ IsFiniteSet(ToolCalls) /\ Hooks \in Nat
                            /\ Parallel \in Nat \ {0} /\ PoolSize \in Nat \ {0}

VARIABLES
  native,    \* the dispatch function is a coroutine function
  stage,     \* of each call: new, guard, await, hooks, answered
  held,      \* the calls that hold the semaphore
  verdict,   \* its result: none, ok, error, timeout, rejected, raised, promise
  worker     \* the function: none, queued (for a thread), running, done, cancelled

pipeVars == <<native, stage, held, verdict, worker>>

PipeIdle == /\ native \in BOOLEAN /\ held = {}
            /\ stage = [c \in ToolCalls |-> "new"]
            /\ verdict = [c \in ToolCalls |-> "none"]
            /\ worker = [c \in ToolCalls |-> "none"]

---------------------------------------------------------------------------
Working      == {c \in ToolCalls : worker[c] = "running"}
StageTo(c, s)   == stage' = [stage EXCEPT ![c] = s]
VerdictTo(c, v) == verdict' = [verdict EXCEPT ![c] = v]
WorkerTo(c, w)  == worker' = [worker EXCEPT ![c] = w]

(* A hook that raises lets the call pass; the first that rejects ends it.       *)
PreHooks  == [1 .. Hooks -> {"pass", "reject", "raises"}]
Rejects(hooks) == \E i \in 1 .. Hooks : hooks[i] = "reject"

(* A hook after the call that raises is skipped; one that returns nothing makes   *)
(* the call itself raise where the duration is set.                          *)
PostHooks == [1 .. Hooks -> {"result", "raises", "nothing"}]
After(v, hooks) == IF \E i \in 1 .. Hooks : hooks[i] = "nothing"
                                            /\ \A j \in i + 1 .. Hooks : hooks[j] # "result"
                   THEN "raised" ELSE v

Acquire(c) == /\ stage[c] = "new" /\ Cardinality(held) < Parallel /\ held' = held \cup {c}
              /\ StageTo(c, "guard") /\ UNCHANGED <<native, verdict, worker>>

(* execute by itself, and execute_sync on a loop of its own.                   *)
ExecuteAlone(c) == /\ stage[c] = "new" /\ StageTo(c, "guard")
                   /\ UNCHANGED <<native, held, verdict, worker>>

(* A rejected call ends without the hooks after it.                          *)
Guard(c) ==
  /\ stage[c] = "guard" /\ UNCHANGED native
  /\ \E hooks \in PreHooks :
       IF Rejects(hooks)
       THEN /\ StageTo(c, "answered") /\ VerdictTo(c, "rejected") /\ held' = held \ {c}
            /\ UNCHANGED worker
       ELSE /\ StageTo(c, "await") /\ UNCHANGED <<verdict, held>>
            /\ WorkerTo(c, IF native THEN "running" ELSE "queued")

(* A thread of the pool takes one that waits, whichever; coroutines need none.  *)
TakeThread(c) == /\ worker[c] = "queued" /\ Cardinality(Working) < PoolSize
                 /\ WorkerTo(c, "running") /\ UNCHANGED <<native, held, stage, verdict>>

(* The function returns or raises; nobody hears of it after the timeout.        *)
FunctionEnds(c) == /\ worker[c] = "running" /\ WorkerTo(c, "done")
                   /\ IF stage[c] = "await"
                      THEN StageTo(c, "hooks") /\ \E v \in {"ok", "error"} : VerdictTo(c, v)
                      ELSE UNCHANGED <<stage, verdict>>
                   /\ UNCHANGED <<native, held>>

(* The timeout runs from the submission: it takes back a call that waits for a       *)
(* thread, and ends a coroutine; a thread goes on.                             *)
StopWaitingInLine(c) ==   \* Mutant: the call goes on waiting for a thread
  /\ stage[c] = "await" /\ StageTo(c, "hooks") /\ VerdictTo(c, "timeout")
  /\ IF native THEN WorkerTo(c, "cancelled") ELSE UNCHANGED worker
  /\ UNCHANGED <<native, held>>

StopWaiting(c) ==
  /\ stage[c] = "await" /\ StageTo(c, "hooks") /\ VerdictTo(c, "timeout")
  /\ IF native \/ worker[c] = "queued" THEN WorkerTo(c, "cancelled") ELSE UNCHANGED worker
  /\ UNCHANGED <<native, held>>

AnswerCall(c) == /\ stage[c] = "hooks" /\ StageTo(c, "answered") /\ held' = held \ {c}
                 /\ \E hooks \in PostHooks : VerdictTo(c, After(verdict[c], hooks))
                 /\ UNCHANGED <<native, worker>>

(* execute_sync inside a running loop: the function is called in place, without    *)
(* a timeout and under no semaphore; a coroutine that nobody awaits is taken for    *)
(* the result.                                                              *)
CallInPlace(c) ==
  /\ stage[c] = "new" /\ StageTo(c, "answered") /\ UNCHANGED <<native, held>>
  /\ \E hooks \in PreHooks :
       IF Rejects(hooks) THEN VerdictTo(c, "rejected") /\ UNCHANGED worker
       ELSE /\ IF native THEN UNCHANGED worker ELSE WorkerTo(c, "done")
            /\ \E v \in (IF native THEN {"promise"} ELSE {"ok", "error"}), post \in PostHooks :
                 VerdictTo(c, After(v, post))

PipeNext == \E c \in ToolCalls :
              \/ Acquire(c) \/ ExecuteAlone(c) \/ Guard(c) \/ TakeThread(c) \/ FunctionEnds(c)
              \/ StopWaiting(c) \/ AnswerCall(c) \/ CallInPlace(c)

---------------------------------------------------------------------------
(* What is answered fits what was done: a tool that was reported as timed out      *)
(* before it began never runs later, one that was rejected never runs, one that    *)
(* still runs after its answer was reported as timed out (or its hooks failed),    *)
(* and of a batch only such tools run beyond the limit.                        *)
Abandoned == {c \in Working : stage[c] # "await"}

PipelineSound ==
  /\ \A c \in ToolCalls :
       /\ worker[c] = "queued" => stage[c] = "await"
       /\ verdict[c] = "rejected" => worker[c] = "none"
       /\ verdict[c] \in {"ok", "error"} => worker[c] = "done"
  /\ \A c \in Abandoned : ~native /\ verdict[c] \in {"timeout", "raised"}
  /\ Cardinality(held) <= Parallel /\ \A c \in held : stage[c] \notin {"new", "answered"}
  /\ ~native => Cardinality(Working) <= PoolSize
=============================================================================
