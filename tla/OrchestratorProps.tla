-------------------------- MODULE OrchestratorProps --------------------------
(***************************************************************************)
(* What the orchestrator owes the message it handles.                      *)
(***************************************************************************)
EXTENDS Orchestrator

\* The plan, its rows and its checkpoint are of the kind the code can produce.
OTypeOK == /\ pc \in PCs
           /\ id \in [Sub -> Ids] /\ deps \in [Sub -> SUBSET Ids]
           /\ st \in [Sub -> SubStatus] /\ filled \in BOOLEAN
           /\ todo \subseteq Sub
           /\ attempt \in 0 .. MaxRetries /\ rounds \in 0 .. MaxRounds
           /\ row \in RowStatus
           /\ subrows \in [Ids -> SubStatus \cup {"none"}]
           /\ ckpt \in [Sub -> SubStatus \cup {"none"}]
           /\ crashes \in 0 .. MaxCrashes
           /\ audit \in [Sub -> {"none", "passed", "failed"}]
           /\ runs \in [Sub -> 0 .. RunCap]
           /\ pc \in {"start", "work", "audit", "save", "insert.sub",
                      "write.sub"} => todo # {}

\* Whatever the LLM makes depend on what (cycles, unknown ids, one id twice), the
\* bound on rounds never cuts _execute_plan short: a plan is settled only when
\* each subtask has succeeded or failed.
AllEnded ==
  pc \in {"write.plan", "insert.sub", "write.sub", "delete", "returned"}
    => Complete(st)

\* A subtask is executed only after subtasks with the ids it depends on have
\* succeeded, and they still count as successes while it runs and after.
DependenciesFirst ==
  \A p \in Sub : st[p] \in {"running", "done"} => deps[p] \subseteq DoneIds(st)

\* Rounds, retries after an exception and retries after an audit do not add up:
\* a subtask is executed at most once and _MAX_RETRIES times again.
AttemptsBounded == \A p \in Sub : runs[p] <= MaxRetries + 1

Ended(s) == s \in {"done", "failed"}

\* A crash costs at most the subtask under way: until the plan is settled, the
\* checkpoint knows the end of every other subtask that was executed, and it
\* claims no end the plan has not reached.
CheckpointFaithful ==
  /\ pc # "returned" =>
       Cardinality({p \in Sub : runs[p] > 0 /\ ~ Ended(ckpt[p])}) <= 1
  /\ \A p \in Sub : Ended(ckpt[p]) => st[p] = ckpt[p]

\* Every plan comes to an end: its reply, the regular pipeline or a crash.
PlanEnds == pc = "insert" ~> pc \in {"returned", "fallback", "lost"}

-----------------------------------------------------------------------------
(* The plan is run as a plan with dependencies should be.                  *)

\* A subtask whose attempts are under way has not ended, whatever its status.
UnderWay(p) == pc \in {"start", "work", "audit"} /\ todo # {} /\ p = First

Progress(p) == IF st[p] \in {"pending", "running"} \/ UnderWay(p) THEN "open"
                                                                 ELSE st[p]

Providers(d) == {q \in Sub : id[q] = d}

Run == INSTANCE DependencyRun
  WITH Steps <- Sub,
       need  <- [p \in Sub |-> {Providers(d) : d \in deps[p]}],
       state <- [p \in Sub |-> Progress(p)]

ImplementsDependencyRun == Run!DSpec
=============================================================================
