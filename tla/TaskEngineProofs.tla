-------------------------- MODULE TaskEngineProofs --------------------------
(***************************************************************************)
(* Machine-checked proofs about TaskEngine, for any number of tasks, event   *)
(* loops and workers, any retry limits, and any bound on requests and        *)
(* restarts.                                                                 *)
(*                                                                           *)
(* TypeOK, LifecycleInv and the action properties rest on EngineInv: each    *)
(* thread knows where it is. RunsAccounted (a running task has a run that    *)
(* will end it, and an ended one its record once all is quiet) follows from  *)
(* one account of each task: whatever its status promises is there, or a     *)
(* thread is on its way to it. AuditSound counts: a step changes nothing,    *)
(* changes a status and owes the event, or pays.                             *)
(***************************************************************************)
EXTENDS TaskEngineProps, FiniteSetTheorems, TLAPS

-----------------------------------------------------------------------------
(* Values the steps build have the types of TypeOK.                        *)

LEMMA UpdateType ==
  ASSUME NEW S, NEW T, NEW f \in [S -> T], NEW x, NEW v \in T
  PROVE  [f EXCEPT ![x] = v] \in [S -> T]
  OBVIOUS

LEMMA Names ==
  /\ \A pc \in {"idle", "create.log", "execute.cas", "execute.log",
       "execute.submit", "work", "complete.cas", "complete.log",
       "complete.write", "fail.cas", "fail.log", "fail.write", "fail.check",
       "requeue.cas", "requeue.log", "requeue.write", "cancel.cas",
       "cancel.log", "cancel.write", "retry.log", "retry.write",
       "progress.write", "transition.cas", "transition.log"} : pc \in PC
  /\ "pending" \in AnyStatus /\ "running" \in AnyStatus
  /\ "completed" \in AnyStatus /\ "failed" \in AnyStatus
  /\ "cancelled" \in AnyStatus /\ "none" \in AnyStatus
  BY DEF PC, AnyStatus, Status

LEMMA ServingType ==
  ASSUME NEW i \in Tasks, NEW pc \in PC,
         NEW from \in AnyStatus, NEW to \in AnyStatus
  PROVE  /\ Serving(i, pc, from, to) \in Thread
         /\ Serving(i, pc, from, to).id = i
         /\ Serving(i, pc, from, to).pc = pc
         /\ Serving(i, pc, from, to).edge = <<from, to>>
         /\ Serving(i, pc, from, to).ret = "idle"
  BY Names DEF Serving, Idle, Thread, Edge

LEMMA IdleType == Idle \in Thread
  BY Names DEF Idle, Thread, Edge

LEMMA AtPcType ==
  ASSUME NEW s \in Thread, s.id \in Tasks, NEW pc \in PC
  PROVE  AtPc(s, pc) \in Thread
  BY DEF AtPc, Thread

LEMMA ReadingType ==
  ASSUME NEW s \in Thread, NEW n \in Nat
  PROVE  Reading(s, n) \in Thread
  BY DEF Reading, Thread

LEMMA NewRowType == ASSUME NEW m \in Nat PROVE NewRow(m) \in Row
  <1>1. NoRow \in Row
    BY Names DEF NoRow, Row
  <1> QED BY <1>1, Names DEF NewRow, Row

LEMMA FieldType ==
  ASSUME NEW row \in Row
  PROVE  /\ [row EXCEPT !.completedAt = TRUE] \in Row
         /\ [row EXCEPT !.result = TRUE] \in Row
  BY DEF Row

LEMMA WithStatusType ==
  ASSUME NEW row \in Row, NEW status \in AnyStatus
  PROVE  WithStatus(row, status) \in Row
  BY DEF WithStatus, Row

LEMMA BackType == ASSUME NEW s \in Thread, s.id \in Tasks PROVE Back(s) \in Thread
  <1>1. CASE s.ret = "idle"
    BY <1>1, IdleType DEF Back
  <1>2. CASE s.ret # "idle"
    <2>1. [s EXCEPT !.pc = s.ret, !.ret = "idle"] \in Thread
      BY Names DEF Thread
    <2> QED BY <1>2, <2>1 DEF Back
  <1> QED BY <1>1, <1>2

LEMMA MeaningType ==
  ASSUME TypeOK, NEW t \in Threads,
         NEW from \in AnyStatus, NEW to \in AnyStatus
  PROVE  Meaning(t, from, to) \in Thread
  <1>1. th[t] \in Thread
    BY DEF TypeOK
  <1> QED BY <1>1 DEF Meaning, Thread, Edge

\* One compare-and-set changes a status along an edge, records it, and moves
\* one thread.
LEMMA CasType ==
  ASSUME TypeOK, NEW t \in Threads, NEW s \in Thread, s.id \in Tasks,
         NEW won \in PC, Cas(t, s, won)
  PROVE  /\ rows' \in [Tasks -> Row]
         /\ moves' \in [Tasks -> Seq(Edge)]
         /\ th' \in [Threads -> Thread]
  <1>1. s.edge \in Edge /\ s.edge[2] \in AnyStatus
    BY DEF Thread, Edge
  <1>2. CASE rows[s.id].status = s.edge[1]
    <2>1. WithStatus(rows[s.id], s.edge[2]) \in Row
      BY <1>1, WithStatusType DEF TypeOK
    <2>2. rows' = [rows EXCEPT ![s.id] = WithStatus(rows[s.id], s.edge[2])]
      BY <1>2 DEF Cas
    <2>3. rows' \in [Tasks -> Row]
      BY <2>1, <2>2, UpdateType DEF TypeOK
    <2>4. Append(moves[s.id], s.edge) \in Seq(Edge)
      BY <1>1 DEF TypeOK
    <2>5. moves' = [moves EXCEPT ![s.id] = Append(@, s.edge)]
      BY <1>2 DEF Cas
    <2>6. moves' \in [Tasks -> Seq(Edge)]
      BY <2>4, <2>5, UpdateType DEF TypeOK
    <2>7. th' = [th EXCEPT ![t] = AtPc(s, won)]
      BY <1>2 DEF Cas
    <2>8. th' \in [Threads -> Thread]
      BY <2>7, AtPcType, UpdateType DEF TypeOK
    <2> QED BY <2>3, <2>6, <2>8
  <1>3. CASE rows[s.id].status # s.edge[1]
    BY <1>3, BackType DEF Cas, TypeOK
  <1> QED BY <1>2, <1>3

LEMMA LogType ==
  ASSUME TypeOK, NEW t \in Threads, th[t].id \in Tasks, LogEdge(t)
  PROVE  /\ audit' \in [Tasks -> Seq(Edge)]
         /\ UNCHANGED <<rows, moves, pool, ops, crashes>>
  <1>1. th[t].edge \in Edge
    BY DEF TypeOK, Thread
  <1>2. Append(audit[th[t].id], th[t].edge) \in Seq(Edge)
    BY <1>1 DEF TypeOK
  <1> QED BY <1>2, UpdateType DEF LogEdge, TypeOK

LEMMA GotoType ==
  ASSUME TypeOK, NEW t \in Threads, th[t].id \in Tasks, NEW pc \in PC,
         Goto(t, pc)
  PROVE  th' \in [Threads -> Thread]
  BY AtPcType DEF Goto, TypeOK

LEMMA ReturnType ==
  ASSUME TypeOK, NEW t \in Threads, th[t].id \in Tasks, Return(t)
  PROVE  th' \in [Threads -> Thread]
  BY BackType DEF Return, TypeOK

LEMMA WriteType ==
  ASSUME TypeOK, NEW t \in Threads, th[t].id \in Tasks, NEW row \in Row,
         Write(t, row)
  PROVE  /\ rows' \in [Tasks -> Row]
         /\ UNCHANGED <<audit, moves, pool, ops, crashes>>
  BY UpdateType DEF Write, TypeOK

\* A request adds one to ops, within the bound, and leaves the pool alone.
LEMMA RequestType ==
  ASSUME TypeOK, NEW c \in Callers, NEW i \in Tasks, Request(c, i)
  PROVE  /\ ops' \in 0 .. MaxOps
         /\ UNCHANGED <<pool, crashes>>
  BY EngineConstants DEF Request, TypeOK, EngineConstants

-----------------------------------------------------------------------------
(* Type correctness.                                                       *)

LEMMA ServeType ==
  ASSUME TypeOK, NEW c \in Callers, NEW i \in Tasks,
         \/ CreateTask(c, i) \/ ExecuteTask(c, i) \/ CancelTask(c, i)
         \/ RetryTask(c, i)  \/ UpdateProgress(c, i) \/ TransitionTask(c, i)
  PROVE  TypeOK'
  <1> USE DEF Threads
  <1>0. c \in Threads /\ rows[i] \in Row
    BY DEF TypeOK
  <1>1. CASE CreateTask(c, i)
    <2>1. \A m \in RetryLimits : NewRow(m) \in Row
      BY NewRowType, EngineConstants DEF EngineConstants
    <2>2. rows' \in [Tasks -> Row]
      BY <1>1, <2>1, UpdateType DEF CreateTask, TypeOK
    <2>3. Append(moves[i], <<"none", "pending">>) \in Seq(Edge)
      BY Names DEF TypeOK, Edge
    <2>4. moves' \in [Tasks -> Seq(Edge)]
      BY <1>1, <2>3, UpdateType DEF CreateTask, TypeOK
    <2>5. Serving(i, "create.log", "none", "pending") \in Thread
      BY ServingType, Names
    <2>6. th' \in [Threads -> Thread]
      BY <1>1, <2>5, UpdateType DEF CreateTask, TypeOK
    <2> QED BY <1>1, <2>2, <2>4, <2>6, RequestType DEF CreateTask, TypeOK
  <1>2. CASE ExecuteTask(c, i)
    <2>1. /\ Serving(i, "execute.cas", "pending", "running") \in Thread
          /\ Serving(i, "execute.submit", "pending", "running") \in Thread
      BY ServingType, Names
    <2>2. th' \in [Threads -> Thread]
      BY <1>2, <2>1, UpdateType DEF ExecuteTask, TypeOK
    <2> QED BY <1>2, <2>2, RequestType DEF ExecuteTask, TypeOK
  <1>3. CASE CancelTask(c, i)
    <2>1. Serving(i, "cancel.cas", rows[i].status, "cancelled") \in Thread
      BY <1>0, ServingType, Names DEF Row
    <2>2. th' \in [Threads -> Thread]
      BY <1>3, <2>1, UpdateType DEF CancelTask, TypeOK
    <2> QED BY <1>3, <2>2, RequestType DEF CancelTask, TypeOK
  <1>4. CASE RetryTask(c, i)
    <2>0. "retry.log" \in PC /\ "failed" \in AnyStatus /\ "pending" \in AnyStatus
      BY Names
    <2>1. /\ Serving(i, "retry.log", "failed", "pending") \in Thread
          /\ Serving(i, "retry.log", "failed", "pending").id = i
      BY <2>0, ServingType
    <2>2. Cas(c, Serving(i, "retry.log", "failed", "pending"), "retry.log")
      BY <1>4 DEF RetryTask
    <2>3. "retry.log" \in PC
      BY Names
    <2>4. /\ rows' \in [Tasks -> Row]
          /\ moves' \in [Tasks -> Seq(Edge)]
          /\ th' \in [Threads -> Thread]
      BY <1>0, <2>1, <2>2, <2>3, CasType
    <2> QED BY <1>4, <2>4, RequestType DEF RetryTask, TypeOK
  <1>5. CASE UpdateProgress(c, i)
    <2>1. Serving(i, "progress.write", "none", "none") \in Thread
      BY ServingType, Names
    <2>2. \A p \in ProgressReports :
            Reading(Serving(i, "progress.write", "none", "none"), p) \in Thread
      BY <2>1, ReadingType, EngineConstants DEF EngineConstants
    <2>3. th' \in [Threads -> Thread]
      BY <1>5, <2>2, UpdateType DEF UpdateProgress, TypeOK
    <2> QED BY <1>5, <2>3, RequestType DEF UpdateProgress, TypeOK
  <1>6. CASE TransitionTask(c, i)
    <2>1. \A s \in TransitionTargets :
            Serving(i, "transition.cas", rows[i].status, s) \in Thread
      BY <1>0, ServingType, Names, EngineConstants DEF EngineConstants, AnyStatus, Row
    <2>2. th' \in [Threads -> Thread]
      BY <1>6, <2>1, UpdateType DEF TransitionTask, TypeOK
    <2> QED BY <1>6, <2>2, RequestType DEF TransitionTask, TypeOK
  <1> QED BY <1>1, <1>2, <1>3, <1>4, <1>5, <1>6

\* A thread that is not idle has a task, so the row it works on is a Row.
LEMMA AdvanceActive ==
  ASSUME TypeOK, NEW t \in Threads, Advance(t)
  PROVE  th[t] \in Thread /\ th[t].id \in Tasks /\ RowOf(t) \in Row
  <1>1. th[t].pc # "idle"
    BY DEF Advance, At, CreateLog, ExecuteCas, ExecuteLog, ExecuteSubmit, CancelCas,
           CancelLog, CancelWrite, RetryLog, RetryWrite, ProgressWrite,
           TransitionCas, TransitionLog, CompleteCas, CompleteLog,
           CompleteWrite, FailCas, FailLog, FailWrite, FailCheck, RequeueCas,
           RequeueLog, RequeueWrite
  <1> QED BY <1>1 DEF TypeOK, Thread, RowOf

LEMMA AdvanceType ==
  ASSUME TypeOK, NEW t \in Threads, Advance(t)
  PROVE  TypeOK'
  <1>0. th[t] \in Thread /\ th[t].id \in Tasks /\ RowOf(t) \in Row
    BY AdvanceActive
  <1>1. CASE CreateLog(t) \/ TransitionLog(t)
    BY <1>0, <1>1, LogType, ReturnType DEF CreateLog, TransitionLog, TypeOK
  <1>2. CASE \/ ExecuteLog(t) \/ CancelLog(t) \/ RetryLog(t) \/ CompleteLog(t)
             \/ FailLog(t) \/ RequeueLog(t)
    <2>1. LogEdge(t) /\ th' \in [Threads -> Thread]
      BY <1>0, <1>2, GotoType, Names
         DEF ExecuteLog, CancelLog, RetryLog, CompleteLog, FailLog, RequeueLog
    <2> QED BY <1>0, <2>1, LogType DEF TypeOK
  <1>3. CASE \/ ExecuteCas(t) \/ CancelCas(t) \/ TransitionCas(t)
             \/ CompleteCas(t) \/ FailCas(t) \/ RequeueCas(t)
    <2>1. CasOnly /\ \E won \in PC : Cas(t, th[t], won)
      BY <1>3, Names DEF ExecuteCas, CancelCas, TransitionCas, CompleteCas,
                         FailCas, RequeueCas
    <2>2. /\ rows' \in [Tasks -> Row]
          /\ moves' \in [Tasks -> Seq(Edge)]
          /\ th' \in [Threads -> Thread]
      BY <1>0, <2>1, CasType
    <2> QED BY <2>1, <2>2 DEF CasOnly, TypeOK
  <1>4. CASE ExecuteSubmit(t)
    <2>1. pool' \in Seq(Tasks)
      BY <1>0, <1>4 DEF ExecuteSubmit, TypeOK
    <2> QED BY <1>0, <1>4, <2>1, ReturnType DEF ExecuteSubmit, TypeOK
  <1>5. CASE CancelWrite(t) \/ RetryWrite(t) \/ CompleteWrite(t) \/ FailWrite(t)
    <2>1. [RowOf(t) EXCEPT !.completedAt = TRUE, !.error = "cancelled"] \in Row
      BY <1>0 DEF Row
    <2>2. [RowOf(t) EXCEPT !.retries = 0, !.error = "none"] \in Row
      BY <1>0 DEF Row
    <2>3. [RowOf(t) EXCEPT !.result = TRUE, !.completedAt = TRUE,
                           !.progress = 100] \in Row
      <3> DEFINE r1 == [RowOf(t) EXCEPT !.result = TRUE]
                 r2 == [r1 EXCEPT !.completedAt = TRUE]
      <3>1. r1 \in Row
        BY <1>0, FieldType
      <3>2. r2 \in Row
        <4> HIDE DEF r1
        <4> QED BY <3>1, FieldType
      <3>3. [r2 EXCEPT !.progress = 100] \in Row
        <4> HIDE DEF r2
        <4> QED BY <3>2 DEF Row
      <3> QED BY <3>3
    <2>4. [RowOf(t) EXCEPT !.error = "unknown"] \in Row
      BY <1>0 DEF Row
    <2>5. CASE CancelWrite(t)
      BY <1>0, <2>1, <2>5, WriteType, ReturnType DEF CancelWrite, TypeOK
    <2>6. CASE RetryWrite(t)
      BY <1>0, <2>2, <2>6, WriteType, ReturnType DEF RetryWrite, TypeOK
    <2>7. CASE CompleteWrite(t)
      <3>1. Write(t, [RowOf(t) EXCEPT !.result = TRUE, !.completedAt = TRUE,
                                      !.progress = 100])
        BY <2>7 DEF CompleteWrite
      <3>2. Return(t)
        BY <2>7 DEF CompleteWrite
      <3>3. /\ rows' \in [Tasks -> Row]
            /\ UNCHANGED <<audit, moves, pool, ops, crashes>>
        BY <1>0, <2>3, <3>1, WriteType
      <3> QED BY <1>0, <3>2, <3>3, ReturnType DEF TypeOK
    <2>8. CASE FailWrite(t)
      BY <1>0, <2>4, <2>8, WriteType, GotoType, Names DEF FailWrite, TypeOK
    <2> QED BY <1>5, <2>5, <2>6, <2>7, <2>8
  <1>6. CASE ProgressWrite(t)
    <2>1. [RowOf(t) EXCEPT !.progress = Clamp(th[t].num)] \in Row
      BY <1>0 DEF Row, Thread, Clamp
    <2> QED BY <1>0, <1>6, <2>1, WriteType, ReturnType DEF ProgressWrite, TypeOK
  <1>7. CASE RequeueWrite(t)
    <2>1. [RowOf(t) EXCEPT !.retries = th[t].num + 1] \in Row
      BY <1>0 DEF Row, Thread
    <2> QED BY <1>0, <1>7, <2>1, WriteType, ReturnType DEF RequeueWrite, TypeOK
  <1>8. CASE FailCheck(t)
    <2>1. AtPc(Reading(Meaning(t, "failed", "pending"), RowOf(t).retries),
               "requeue.cas") \in Thread
      <3>1. Meaning(t, "failed", "pending") \in Thread
        BY MeaningType, Names
      <3>2. Meaning(t, "failed", "pending").id \in Tasks
        BY <1>0 DEF Meaning, Thread
      <3>3. RowOf(t).retries \in Nat
        BY <1>0 DEF Row
      <3>4. /\ Reading(Meaning(t, "failed", "pending"), RowOf(t).retries) \in Thread
            /\ Reading(Meaning(t, "failed", "pending"), RowOf(t).retries).id \in Tasks
        BY <3>1, <3>2, <3>3, ReadingType DEF Reading, Thread
      <3> QED BY <3>4, AtPcType, Names
    <2>2. th' \in [Threads -> Thread]
      BY <1>0, <1>8, <2>1, UpdateType, ReturnType DEF FailCheck, TypeOK
    <2> QED BY <1>8, <2>2 DEF FailCheck, TypeOK
  <1> QED
    BY <1>1, <1>2, <1>3, <1>4, <1>5, <1>6, <1>7, <1>8 DEF Advance

LEMMA TypingInit == EInit => TypeOK
  <1>1. NoRow \in Row
    BY Names DEF NoRow, Row
  <1> QED BY <1>1, IdleType, EngineConstants DEF EInit, TypeOK, EngineConstants

LEMMA TypingStep == TypeOK /\ [ENext]_evars => TypeOK'
  <1> SUFFICES ASSUME TypeOK, [ENext]_evars PROVE TypeOK'
    OBVIOUS
  <1>1. ASSUME NEW c \in Callers, Serve(c) PROVE TypeOK'
    BY <1>1, ServeType DEF Serve
  <1>2. ASSUME NEW t \in Threads, Advance(t) PROVE TypeOK'
    BY <1>2, AdvanceType
  <1>3. ASSUME NEW w \in Workers, Run(w) PROVE TypeOK'
    <2>1. CASE RunTask(w)
      <3>1. Head(pool) \in Tasks /\ Tail(pool) \in Seq(Tasks)
        BY <2>1 DEF RunTask, TypeOK
      <3>2. Serving(Head(pool), "work", "none", "none") \in Thread
        BY <3>1, ServingType, Names
      <3> QED BY <2>1, <3>1, <3>2, UpdateType DEF RunTask, TypeOK
    <2>2. CASE WorkReplies(w)
      <3>1. w \in Threads /\ th[w] \in Thread /\ th[w].id \in Tasks
        BY <2>2 DEF WorkReplies, At, TypeOK, Threads, Thread
      <3>2. Meaning(w, "running", "completed") \in Thread
        BY <3>1, MeaningType, Names
      <3>3. Meaning(w, "running", "completed").id \in Tasks
        BY <3>1 DEF Meaning, Thread
      <3>4. AtPc(Meaning(w, "running", "completed"), "complete.cas") \in Thread
        BY <3>2, <3>3, AtPcType, Names
      <3> QED BY <2>2, <3>1, <3>4, UpdateType DEF WorkReplies, TypeOK
    <2>3. CASE WorkRaises(w)
      <3>1. w \in Threads /\ th[w] \in Thread /\ th[w].id \in Tasks
        BY <2>3 DEF WorkRaises, At, TypeOK, Threads, Thread
      <3>2. Meaning(w, "running", "failed") \in Thread
        BY <3>1, MeaningType, Names
      <3>3. Meaning(w, "running", "failed").id \in Tasks
        BY <3>1 DEF Meaning, Thread
      <3>4. AtPc(Meaning(w, "running", "failed"), "fail.cas") \in Thread
        BY <3>2, <3>3, AtPcType, Names
      <3> QED BY <2>3, <3>1, <3>4, UpdateType DEF WorkRaises, TypeOK
    <2>4. CASE RunLost(w)
      <3>1. Tail(pool) \in Seq(Tasks)
        BY <2>4 DEF RunLost, TypeOK
      <3> QED BY <2>4, <3>1 DEF RunLost, TypeOK
    <2> QED BY <1>3, <2>1, <2>2, <2>3, <2>4 DEF Run
  <1>4. CASE Crash
    BY <1>4, IdleType, EngineConstants DEF Crash, TypeOK, EngineConstants
  <1>5. CASE UNCHANGED evars
    BY <1>5 DEF TypeOK, evars
  <1> QED BY <1>1, <1>2, <1>3, <1>4, <1>5 DEF ENext

\* The tasks table, the audit trail, the threads and the pool stay well typed.
THEOREM Typing == ESpec => []TypeOK
  BY TypingInit, TypingStep, PTL DEF ESpec

-----------------------------------------------------------------------------
(* The inductive invariant.  What a thread remembers of a row it has read   *)
(* is still true when it uses it: that the row exists, the edge it may      *)
(* follow, a retry count below the limit, a completion that is final.       *)

LegalEdges == {<<"pending", "running">>, <<"pending", "cancelled">>,
               <<"running", "completed">>, <<"running", "failed">>,
               <<"running", "cancelled">>, <<"failed", "pending">>}

\* The edges a CAS can follow: those of the engine, and any that POST
\* /transition asks for.
Edges == LegalEdges \cup (Status \X TransitionTargets)

ThreadOK(t) ==
  LET s == th[t] IN
  /\ s.ret = "idle"
  /\ s.pc # "idle" => rows[s.id].status # "none"
  /\ s.pc \in {"execute.cas", "cancel.cas", "transition.cas", "complete.cas",
               "fail.cas", "requeue.cas"} => s.edge \in Edges
  /\ s.pc \in {"requeue.cas", "requeue.log", "requeue.write"}
       => s.num < EffectiveLimit(rows[s.id].maxRetries)
  /\ s.pc = "complete.cas" => s.edge[2] = "completed"
  /\ s.pc \in {"complete.log", "complete.write"} /\ TransitionTargets = {}
       => rows[s.id].status = "completed"

\* A row that is not there holds nothing.
AbsentRows == \A i \in Tasks : rows[i].status = "none" => rows[i] = NoRow

EngineInv ==
  /\ TypeOK
  /\ AbsentRows
  /\ \A t \in Threads : ThreadOK(t)
  /\ \A n \in DOMAIN pool : rows[pool[n]].status # "none"
  /\ RetryBound
  /\ TransitionTargets = {} => ResultMeansCompleted

\* Every way a row changes in one step.
Created(i) == /\ rows[i].status = "none"
              /\ \E m \in RetryLimits : rows'[i] = NewRow(m)
Moved(i)   == \E e \in Edges : /\ rows[i].status = e[1]
                               /\ rows'[i] = WithStatus(rows[i], e[2])
Written(i) == /\ rows[i].status # "none"
              /\ rows'[i].status = rows[i].status
              /\ rows'[i].maxRetries = rows[i].maxRetries
              /\ rows'[i].retries <= EffectiveLimit(rows[i].maxRetries)
              /\ \/ rows'[i].result = rows[i].result
                 \/ /\ rows'[i].result = TRUE
                    /\ rows'[i].retries = rows[i].retries
                    /\ TransitionTargets # {} \/ rows[i].status = "completed"
RowStep(i) == rows'[i] = rows[i] \/ Created(i) \/ Moved(i) \/ Written(i)

\* One thread steps: rows change in those ways, the others do not move.
StepOf(t) == /\ \A i \in Tasks : RowStep(i)
             /\ \A u \in Threads \ {t} : th'[u] = th[u]
             /\ ThreadOK(t)'

LEMMA WithStatusKeeps ==
  ASSUME NEW row \in Row, NEW status \in AnyStatus
  PROVE  /\ WithStatus(row, status).status = status
         /\ WithStatus(row, status).retries = row.retries
         /\ WithStatus(row, status).maxRetries = row.maxRetries
         /\ WithStatus(row, status).result = row.result
  BY DEF WithStatus, Row

LEMMA EdgesType ==
  /\ \A e \in Edges : e[1] # "none" /\ e[1] \in AnyStatus
                        /\ e[2] # "none" /\ e[2] \in AnyStatus
  /\ TransitionTargets = {} =>
       \A e \in Edges : e[1] \notin {"completed", "cancelled"}
  <1>1. ASSUME NEW e \in LegalEdges
        PROVE  /\ e[1] # "none" /\ e[1] \in AnyStatus
               /\ e[2] # "none" /\ e[2] \in AnyStatus
               /\ e[1] \notin {"completed", "cancelled"}
    BY Names DEF LegalEdges
  <1>2. ASSUME NEW e \in Status \X TransitionTargets
        PROVE  /\ e[1] # "none" /\ e[1] \in AnyStatus
               /\ e[2] # "none" /\ e[2] \in AnyStatus
               /\ TransitionTargets # {}
    <2>1. e[1] \in Status /\ e[2] \in TransitionTargets
      OBVIOUS
    <2>2. e[2] \in Status
      BY <2>1, EngineConstants DEF EngineConstants
    <2> QED BY <2>1, <2>2 DEF AnyStatus, Status
  <1> QED BY <1>1, <1>2 DEF Edges

\* What a row step keeps of an existing row.
LEMMA RowStepKeeps ==
  ASSUME TypeOK, NEW i \in Tasks, RowStep(i), rows[i].status # "none"
  PROVE  /\ rows'[i].status # "none"
         /\ rows'[i].maxRetries = rows[i].maxRetries
         /\ TransitionTargets = {} /\ rows[i].status \in {"completed", "cancelled"}
              => rows'[i].status = rows[i].status
  <1>1. rows[i] \in Row
    BY DEF TypeOK
  <1>2. CASE rows'[i] = rows[i]
    BY <1>2
  <1>3. CASE Moved(i)
    <2>1. PICK e \in Edges : /\ rows[i].status = e[1]
                             /\ rows'[i] = WithStatus(rows[i], e[2])
      BY <1>3 DEF Moved
    <2>2. /\ rows'[i].status = e[2]
          /\ rows'[i].maxRetries = rows[i].maxRetries
      BY <1>1, <2>1, WithStatusKeeps, EdgesType
    <2> QED BY <2>1, <2>2, EdgesType
  <1>4. CASE Written(i)
    BY <1>4 DEF Written
  <1> QED BY <1>2, <1>3, <1>4 DEF RowStep, Created

\* A row step keeps the two facts about rows.
LEMMA RowStepRetries ==
  ASSUME TypeOK, RetryBound, \A i \in Tasks : RowStep(i)
  PROVE  RetryBound'
  <1> SUFFICES ASSUME NEW i \in Tasks
               PROVE  rows'[i].retries <= EffectiveLimit(rows'[i].maxRetries)
    BY DEF RetryBound
  <1>1. rows[i] \in Row /\ rows[i].retries <= EffectiveLimit(rows[i].maxRetries)
    BY DEF TypeOK, RetryBound
  <1>2. CASE Created(i)
    BY <1>2, EngineConstants
       DEF Created, NewRow, NoRow, EffectiveLimit, EngineConstants
  <1>3. CASE Moved(i)
    BY <1>1, <1>3, WithStatusKeeps, EdgesType DEF Moved
  <1>4. CASE Written(i)
    BY <1>4 DEF Written
  <1> QED BY <1>1, <1>2, <1>3, <1>4 DEF RowStep

LEMMA RowStepResults ==
  ASSUME TypeOK, TransitionTargets = {}, ResultMeansCompleted,
         \A i \in Tasks : RowStep(i)
  PROVE  ResultMeansCompleted'
  <1> SUFFICES ASSUME NEW i \in Tasks, rows'[i].result
               PROVE  rows'[i].status = "completed"
    BY DEF ResultMeansCompleted
  <1>1. rows[i] \in Row /\ (rows[i].result => rows[i].status = "completed")
    BY DEF TypeOK, ResultMeansCompleted
  <1>2. CASE Created(i)
    BY <1>2 DEF Created, NewRow, NoRow
  <1>3. CASE Moved(i)
    BY <1>1, <1>3, WithStatusKeeps, EdgesType DEF Moved
  <1>4. CASE Written(i)
    BY <1>1, <1>4 DEF Written
  <1> QED BY <1>1, <1>2, <1>3, <1>4 DEF RowStep

LEMMA RowStepAbsent ==
  ASSUME TypeOK, AbsentRows, \A i \in Tasks : RowStep(i)
  PROVE  AbsentRows'
  <1> SUFFICES ASSUME NEW i \in Tasks, rows'[i].status = "none"
               PROVE  rows'[i] = NoRow
    BY DEF AbsentRows
  <1>1. CASE Created(i)
    BY <1>1 DEF Created, NewRow, NoRow
  <1>2. CASE ~ Created(i)
    <2>1. rows[i].status = "none"
      BY RowStepKeeps
    <2>2. CASE rows'[i] = rows[i]
      BY <2>1, <2>2 DEF AbsentRows
    <2>3. CASE Moved(i)
      BY <2>1, <2>3, EdgesType DEF Moved
    <2>4. CASE Written(i)
      BY <2>1, <2>4 DEF Written
    <2> QED BY <1>2, <2>2, <2>3, <2>4 DEF RowStep
  <1> QED BY <1>1, <1>2

\* A thread that does not move keeps its part of the invariant.
LEMMA ThreadKeeps ==
  ASSUME TypeOK, NEW t \in Threads, ThreadOK(t), th'[t] = th[t],
         \A i \in Tasks : RowStep(i)
  PROVE  ThreadOK(t)'
  <1>1. CASE th[t].pc = "idle"
    BY <1>1 DEF ThreadOK
  <1>2. CASE th[t].pc # "idle"
    <2>1. th[t].id \in Tasks /\ rows[th[t].id].status # "none"
      BY <1>2 DEF TypeOK, Thread, ThreadOK
    <2> QED BY <2>1, RowStepKeeps DEF ThreadOK
  <1> QED BY <1>1, <1>2

LEMMA IdleOK == ASSUME NEW t \in Threads, th'[t] = Idle PROVE ThreadOK(t)'
  BY DEF ThreadOK, Idle

\* A thread that a request sends to pc on an existing row.
LEMMA ServingOK ==
  ASSUME NEW t \in Threads, NEW i \in Tasks, NEW from, NEW to,
         NEW pc \in {"execute.cas", "execute.submit", "cancel.cas"},
         th'[t] = Serving(i, pc, from, to),
         rows'[i].status # "none", <<from, to>> \in Edges
  PROVE  ThreadOK(t)'
  <1>1. /\ th'[t].pc = pc /\ th'[t].id = i /\ th'[t].edge = <<from, to>>
        /\ th'[t].ret = "idle"
    BY DEF Serving, Idle
  <1> QED BY <1>1 DEF ThreadOK

\* The CAS lemma: the row moves along the thread's edge or not at all.
LEMMA CasStep ==
  ASSUME TypeOK, NEW t \in Threads, NEW s \in Thread, s.id \in Tasks,
         s.ret = "idle", s.edge \in Edges, NEW won \in PC, Cas(t, s, won)
  PROVE  /\ \A i \in Tasks : RowStep(i)
         /\ \A u \in Threads \ {t} : th'[u] = th[u]
         /\ \/ /\ th'[t] = AtPc(s, won)
               /\ rows'[s.id].status = s.edge[2]
               /\ rows'[s.id].maxRetries = rows[s.id].maxRetries
            \/ th'[t] = Idle
  <1>1. CASE rows[s.id].status = s.edge[1]
    <2>1. /\ rows' = [rows EXCEPT ![s.id] = WithStatus(rows[s.id], s.edge[2])]
          /\ th' = [th EXCEPT ![t] = AtPc(s, won)]
      BY <1>1 DEF Cas
    <2>2. \A i \in Tasks : RowStep(i)
      BY <1>1, <2>1 DEF TypeOK, RowStep, Moved
    <2>3. rows'[s.id] = WithStatus(rows[s.id], s.edge[2]) /\ rows[s.id] \in Row
      BY <2>1 DEF TypeOK
    <2>4. /\ rows'[s.id].status = s.edge[2]
          /\ rows'[s.id].maxRetries = rows[s.id].maxRetries
      BY <2>3, WithStatusKeeps, EdgesType
    <2> QED BY <2>1, <2>2, <2>4 DEF TypeOK
  <1>2. CASE rows[s.id].status # s.edge[1]
    <2>1. rows' = rows /\ th' = [th EXCEPT ![t] = Idle]
      BY <1>2 DEF Cas, Back
    <2> QED BY <2>1 DEF RowStep, TypeOK
  <1> QED BY <1>1, <1>2

\* A request puts its event loop at work on an existing row.
LEMMA ServeStep ==
  ASSUME EngineInv, NEW c \in Callers, NEW i \in Tasks,
         \/ CreateTask(c, i) \/ ExecuteTask(c, i) \/ CancelTask(c, i)
         \/ RetryTask(c, i)  \/ UpdateProgress(c, i) \/ TransitionTask(c, i)
  PROVE  StepOf(c) /\ UNCHANGED pool
  <1> USE DEF Threads
  <1>0. c \in Threads /\ rows[i] \in Row /\ TypeOK /\ UNCHANGED pool
    BY DEF EngineInv, TypeOK, CreateTask, ExecuteTask, CancelTask, RetryTask,
           UpdateProgress, TransitionTask, Request
  <1>1. CASE CreateTask(c, i)
    <2>1. /\ th' = [th EXCEPT ![c] = Serving(i, "create.log", "none", "pending")]
          /\ \E m \in RetryLimits : rows' = [rows EXCEPT ![i] = NewRow(m)]
          /\ rows[i].status = "none"
      BY <1>1 DEF CreateTask
    <2>2. \A j \in Tasks : RowStep(j)
      BY <2>1 DEF RowStep, Created, EngineInv, TypeOK
    <2>3. rows'[i].status = "pending"
      BY <1>0, <2>1 DEF TypeOK, NewRow, NoRow
    <2>4. th'[c] = Serving(i, "create.log", "none", "pending")
      BY <1>0, <2>1 DEF TypeOK
    <2>5. ThreadOK(c)'
      BY <2>3, <2>4 DEF ThreadOK, Serving, Idle
    <2> QED BY <1>0, <2>1, <2>2, <2>5 DEF StepOf, TypeOK
  <1>2. CASE ExecuteTask(c, i)
    <2>1. /\ rows' = rows /\ rows[i].status # "none"
          /\ th' = [th EXCEPT ![c] =
                Serving(i, IF rows[i].status = "pending" THEN "execute.cas"
                                                         ELSE "execute.submit",
                        "pending", "running")]
      BY <1>2 DEF ExecuteTask
    <2>2. \/ th'[c] = Serving(i, "execute.cas", "pending", "running")
          \/ th'[c] = Serving(i, "execute.submit", "pending", "running")
      BY <1>0, <2>1 DEF TypeOK
    <2>3. <<"pending", "running">> \in Edges
      BY DEF Edges, LegalEdges
    <2>4. ThreadOK(c)'
      <3>1. rows'[i].status # "none"
        BY <2>1
      <3> QED BY <1>0, <2>2, <2>3, <3>1, ServingOK
    <2> QED BY <1>0, <2>1, <2>4 DEF StepOf, RowStep, TypeOK
  <1>3. CASE CancelTask(c, i)
    <2>1. /\ rows' = rows /\ rows[i].status \in {"pending", "running"}
          /\ th' = [th EXCEPT ![c] =
                Serving(i, "cancel.cas", rows[i].status, "cancelled")]
      BY <1>3 DEF CancelTask
    <2>2. th'[c] = Serving(i, "cancel.cas", rows[i].status, "cancelled")
      BY <1>0, <2>1 DEF TypeOK
    <2>3. <<rows[i].status, "cancelled">> \in Edges
      BY <2>1 DEF Edges, LegalEdges
    <2>4. ThreadOK(c)'
      <3>1. rows'[i].status # "none"
        BY <2>1
      <3> QED BY <1>0, <2>2, <2>3, <3>1, ServingOK
    <2> QED BY <1>0, <2>1, <2>4 DEF StepOf, RowStep, TypeOK
  <1>4. CASE RetryTask(c, i)
    <2> DEFINE s == Serving(i, "retry.log", "failed", "pending")
    <2>1. s \in Thread /\ s.id = i /\ s.edge = <<"failed", "pending">>
          /\ s.ret = "idle" /\ s.pc = "retry.log"
      <3>1. /\ "retry.log" \in PC
            /\ "failed" \in AnyStatus /\ "pending" \in AnyStatus
        BY Names
      <3> QED BY <3>1, ServingType
    <2>2. Cas(c, s, "retry.log")
      BY <1>4 DEF RetryTask
    <2>3. s.edge \in Edges /\ s.edge[2] = "pending"
      BY <2>1 DEF Edges, LegalEdges
    <2>4. AtPc(s, "retry.log").pc = "retry.log" /\ AtPc(s, "retry.log").id = i
          /\ AtPc(s, "retry.log").ret = "idle"
      BY <2>1 DEF AtPc, Thread
    <2> HIDE DEF s
    <2>5. /\ \A j \in Tasks : RowStep(j)
          /\ \A u \in Threads \ {c} : th'[u] = th[u]
          /\ \/ /\ th'[c] = AtPc(s, "retry.log")
                /\ rows'[s.id].status = s.edge[2]
                /\ rows'[s.id].maxRetries = rows[s.id].maxRetries
             \/ th'[c] = Idle
      BY <1>0, <2>1, <2>2, <2>3, CasStep, Names
    <2>6. ThreadOK(c)'
      BY <1>0, <2>1, <2>3, <2>4, <2>5, IdleOK DEF ThreadOK
    <2> QED BY <1>0, <2>5, <2>6 DEF StepOf
  <1>5. CASE UpdateProgress(c, i)
    <2>1. /\ rows' = rows /\ rows[i].status = "running"
          /\ \E p \in ProgressReports : th' = [th EXCEPT ![c] =
                Reading(Serving(i, "progress.write", "none", "none"), p)]
      BY <1>5 DEF UpdateProgress
    <2>2. PICK p \in ProgressReports :
            th'[c] = Reading(Serving(i, "progress.write", "none", "none"), p)
      BY <1>0, <2>1 DEF TypeOK
    <2>3. ThreadOK(c)'
      BY <2>1, <2>2 DEF ThreadOK, Serving, Idle, Reading
    <2> QED BY <1>0, <2>1, <2>3 DEF StepOf, RowStep, TypeOK
  <1>6. CASE TransitionTask(c, i)
    <2>1. /\ rows' = rows /\ rows[i].status # "none"
          /\ \E s \in TransitionTargets : th' = [th EXCEPT ![c] =
                Serving(i, "transition.cas", rows[i].status, s)]
      BY <1>6 DEF TransitionTask
    <2>2. PICK s \in TransitionTargets :
            th'[c] = Serving(i, "transition.cas", rows[i].status, s)
      BY <1>0, <2>1 DEF TypeOK
    <2>3. <<rows[i].status, s>> \in Edges
      BY <1>0, <2>1 DEF Edges, Row, AnyStatus
    <2>4. ThreadOK(c)'
      BY <2>1, <2>2, <2>3 DEF ThreadOK, Serving, Idle
    <2> QED BY <1>0, <2>1, <2>4 DEF StepOf, RowStep, TypeOK
  <1> QED BY <1>0, <1>1, <1>2, <1>3, <1>4, <1>5, <1>6

LEMMA AtPcKeeps ==
  ASSUME NEW s \in Thread, NEW pc
  PROVE  /\ AtPc(s, pc).pc = pc     /\ AtPc(s, pc).id = s.id
         /\ AtPc(s, pc).num = s.num /\ AtPc(s, pc).edge = s.edge
         /\ AtPc(s, pc).ret = s.ret
  BY DEF AtPc, Thread

\* A call that only logs, or submits, leaves the rows alone.
LEMMA LogStep ==
  ASSUME EngineInv, NEW t \in Threads, th[t].id \in Tasks,
         \/ CreateLog(t) \/ TransitionLog(t) \/ ExecuteSubmit(t)
         \/ ExecuteLog(t) \/ CancelLog(t) \/ RetryLog(t) \/ CompleteLog(t)
         \/ FailLog(t) \/ RequeueLog(t)
  PROVE  StepOf(t)
  <1>0. TypeOK /\ th[t] \in Thread /\ ThreadOK(t)
    BY DEF EngineInv, TypeOK
  <1>1. rows' = rows
    BY DEF CreateLog, TransitionLog, ExecuteSubmit, ExecuteLog, CancelLog,
           RetryLog, CompleteLog, FailLog, RequeueLog, LogEdge
  <1>2. CASE CreateLog(t) \/ TransitionLog(t) \/ ExecuteSubmit(t)
    <2>1. th' = [th EXCEPT ![t] = Idle]
      BY <1>0, <1>2 DEF CreateLog, TransitionLog, ExecuteSubmit, Return, Back,
                        ThreadOK
    <2>2. ThreadOK(t)'
      BY <1>0, <2>1, IdleOK DEF TypeOK
    <2> QED BY <1>0, <1>1, <2>1, <2>2 DEF StepOf, RowStep, TypeOK
  <1>3. ASSUME NEW from, NEW to, At(t, from), Goto(t, to),
               <<from, to>> \in {<<"execute.log", "execute.submit">>,
                                 <<"cancel.log", "cancel.write">>,
                                 <<"retry.log", "retry.write">>,
                                 <<"complete.log", "complete.write">>,
                                 <<"fail.log", "fail.write">>,
                                 <<"requeue.log", "requeue.write">>}
        PROVE  StepOf(t)
    <2>1. th' = [th EXCEPT ![t] = AtPc(th[t], to)] /\ th[t].pc = from
      BY <1>3 DEF Goto, At
    <2>2. /\ th'[t].pc = to /\ th'[t].id = th[t].id
          /\ th'[t].num = th[t].num /\ th'[t].ret = "idle"
      BY <1>0, <2>1, AtPcKeeps DEF TypeOK, ThreadOK
    <2>3. ThreadOK(t)'
      BY <1>0, <1>1, <1>3, <2>1, <2>2 DEF ThreadOK
    <2> QED BY <1>0, <1>1, <2>1, <2>3 DEF StepOf, RowStep, TypeOK
  <1> QED
    BY <1>2, <1>3 DEF ExecuteLog, CancelLog, RetryLog, CompleteLog, FailLog,
                      RequeueLog

LEMMA CasAdvance ==
  ASSUME EngineInv, NEW t \in Threads, th[t].id \in Tasks,
         \/ ExecuteCas(t) \/ CancelCas(t) \/ TransitionCas(t)
         \/ CompleteCas(t) \/ FailCas(t) \/ RequeueCas(t)
  PROVE  StepOf(t)
  <1>0. TypeOK /\ th[t] \in Thread /\ ThreadOK(t)
    BY DEF EngineInv, TypeOK
  <1>1. ASSUME NEW from, NEW won \in PC, At(t, from), Cas(t, th[t], won),
               <<from, won>> \in {<<"execute.cas", "execute.log">>,
                                  <<"cancel.cas", "cancel.log">>,
                                  <<"transition.cas", "transition.log">>,
                                  <<"complete.cas", "complete.log">>,
                                  <<"fail.cas", "fail.log">>,
                                  <<"requeue.cas", "requeue.log">>}
        PROVE  StepOf(t)
    <2>1. th[t].pc = from /\ th[t].ret = "idle" /\ th[t].edge \in Edges
      BY <1>0, <1>1 DEF At, ThreadOK
    <2>2. /\ \A i \in Tasks : RowStep(i)
          /\ \A u \in Threads \ {t} : th'[u] = th[u]
          /\ \/ /\ th'[t] = AtPc(th[t], won)
                /\ rows'[th[t].id].status = th[t].edge[2]
                /\ rows'[th[t].id].maxRetries = rows[th[t].id].maxRetries
             \/ th'[t] = Idle
      BY <1>0, <1>1, <2>1, CasStep
    <2>3. CASE th'[t] = Idle
      BY <2>2, <2>3, IdleOK DEF StepOf
    <2>4. CASE /\ th'[t] = AtPc(th[t], won)
               /\ rows'[th[t].id].status = th[t].edge[2]
               /\ rows'[th[t].id].maxRetries = rows[th[t].id].maxRetries
      <3>1. /\ th'[t].pc = won /\ th'[t].id = th[t].id
            /\ th'[t].num = th[t].num /\ th'[t].ret = "idle"
        BY <1>0, <2>1, <2>4, AtPcKeeps
      <3>2. rows'[th'[t].id].status # "none"
        BY <2>1, <2>4, <3>1, EdgesType
      <3>3. ThreadOK(t)'
        BY <1>0, <1>1, <2>1, <2>4, <3>1, <3>2 DEF ThreadOK
      <3> QED BY <2>2, <3>3 DEF StepOf
    <2> QED BY <2>2, <2>3, <2>4
  <1> QED
    BY <1>1, Names DEF ExecuteCas, CancelCas, TransitionCas, CompleteCas, FailCas,
                       RequeueCas

\* A field write on an existing row that keeps its status, its limit and, unless
\* the row is completed, its result.
LEMMA WriteStep ==
  ASSUME EngineInv, NEW t \in Threads, th[t].id \in Tasks, th[t].pc # "idle",
         NEW row, Write(t, row), NEW s, th' = [th EXCEPT ![t] = s],
         row.status = RowOf(t).status, row.maxRetries = RowOf(t).maxRetries,
         row.retries <= EffectiveLimit(RowOf(t).maxRetries),
         \/ row.result = RowOf(t).result
         \/ /\ row.result = TRUE
            /\ row.retries = RowOf(t).retries
            /\ TransitionTargets # {} \/ RowOf(t).status = "completed"
  PROVE  /\ \A i \in Tasks : RowStep(i)
         /\ \A u \in Threads \ {t} : th'[u] = th[u]
         /\ th'[t] = s
         /\ rows'[th[t].id].status # "none"
  <1>1. TypeOK /\ rows[th[t].id].status # "none"
    BY DEF EngineInv, ThreadOK
  <1>2. rows' = [rows EXCEPT ![th[t].id] = row] /\ RowOf(t) = rows[th[t].id]
    BY DEF Write, RowOf
  <1>3. Written(th[t].id)
    BY <1>1, <1>2 DEF Written, TypeOK
  <1> QED BY <1>1, <1>2, <1>3 DEF RowStep, TypeOK

LEMMA WriteAdvance ==
  ASSUME EngineInv, NEW t \in Threads, th[t].id \in Tasks,
         \/ CancelWrite(t) \/ RetryWrite(t) \/ ProgressWrite(t)
         \/ CompleteWrite(t) \/ FailWrite(t) \/ RequeueWrite(t)
  PROVE  StepOf(t)
  <1>0. /\ TypeOK /\ th[t] \in Thread /\ ThreadOK(t) /\ th[t].pc # "idle"
        /\ RowOf(t) \in Row
        /\ RowOf(t).retries <= EffectiveLimit(RowOf(t).maxRetries)
    BY DEF EngineInv, TypeOK, RowOf, RetryBound, CancelWrite, RetryWrite,
           ProgressWrite, CompleteWrite, FailWrite, RequeueWrite, At
  <1>1. \A n \in Nat : 0 <= EffectiveLimit(n)
    BY DEF EffectiveLimit
  <1>2. Back(th[t]) = Idle
    BY <1>0 DEF Back, ThreadOK
  <1>3. ASSUME NEW row, Write(t, row), Return(t),
               row.status = RowOf(t).status, row.maxRetries = RowOf(t).maxRetries,
               row.retries <= EffectiveLimit(RowOf(t).maxRetries),
               \/ row.result = RowOf(t).result
               \/ /\ row.result = TRUE
                  /\ row.retries = RowOf(t).retries
                  /\ TransitionTargets # {} \/ RowOf(t).status = "completed"
        PROVE  StepOf(t)
    <2>1. th' = [th EXCEPT ![t] = Idle]
      BY <1>2, <1>3 DEF Return
    <2>2. /\ \A i \in Tasks : RowStep(i)
          /\ \A u \in Threads \ {t} : th'[u] = th[u]
          /\ th'[t] = Idle
          /\ rows'[th[t].id].status # "none"
      BY <1>0, <1>3, <2>1, WriteStep
    <2> QED BY <2>2, IdleOK DEF StepOf
  <1>4. CASE CancelWrite(t)
    <2> DEFINE row == [RowOf(t) EXCEPT !.completedAt = TRUE, !.error = "cancelled"]
    <2>1. /\ row.status = RowOf(t).status /\ row.maxRetries = RowOf(t).maxRetries
          /\ row.retries = RowOf(t).retries /\ row.result = RowOf(t).result
      BY <1>0 DEF Row
    <2>2. Write(t, row) /\ Return(t)
      BY <1>4 DEF CancelWrite
    <2> QED BY <1>0, <1>3, <2>1, <2>2
  <1>5. CASE RetryWrite(t)
    <2> DEFINE row == [RowOf(t) EXCEPT !.retries = 0, !.error = "none"]
    <2>1. /\ row.status = RowOf(t).status /\ row.maxRetries = RowOf(t).maxRetries
          /\ row.retries = 0 /\ row.result = RowOf(t).result
      BY <1>0 DEF Row
    <2>2. Write(t, row) /\ Return(t)
      BY <1>5 DEF RetryWrite
    <2>3. 0 <= EffectiveLimit(RowOf(t).maxRetries)
      BY <1>0, <1>1 DEF Row
    <2> QED BY <1>3, <2>1, <2>2, <2>3
  <1>6. CASE ProgressWrite(t)
    <2> DEFINE row == [RowOf(t) EXCEPT !.progress = Clamp(th[t].num)]
    <2>1. /\ row.status = RowOf(t).status /\ row.maxRetries = RowOf(t).maxRetries
          /\ row.retries = RowOf(t).retries /\ row.result = RowOf(t).result
      BY <1>0 DEF Row
    <2>2. Write(t, row) /\ Return(t)
      BY <1>6 DEF ProgressWrite
    <2> QED BY <1>0, <1>3, <2>1, <2>2
  <1>7. CASE CompleteWrite(t)
    <2> DEFINE row == [RowOf(t) EXCEPT !.result = TRUE, !.completedAt = TRUE,
                                       !.progress = 100]
    <2>1. /\ row.status = RowOf(t).status /\ row.maxRetries = RowOf(t).maxRetries
          /\ row.retries = RowOf(t).retries /\ row.result = TRUE
      BY <1>0 DEF Row
    <2>2. Write(t, row) /\ Return(t)
      BY <1>7 DEF CompleteWrite
    <2>3. TransitionTargets # {} \/ RowOf(t).status = "completed"
      BY <1>0, <1>7 DEF CompleteWrite, At, ThreadOK, RowOf
    <2> QED BY <1>0, <1>3, <2>1, <2>2, <2>3
  <1>8. CASE FailWrite(t)
    <2> DEFINE row == [RowOf(t) EXCEPT !.error = "unknown"]
    <2>1. /\ row.status = RowOf(t).status /\ row.maxRetries = RowOf(t).maxRetries
          /\ row.retries = RowOf(t).retries /\ row.result = RowOf(t).result
      BY <1>0 DEF Row
    <2>2. Write(t, row) /\ th' = [th EXCEPT ![t] = AtPc(th[t], "fail.check")]
      BY <1>8 DEF FailWrite, Goto
    <2> HIDE DEF row
    <2>3. /\ \A i \in Tasks : RowStep(i)
          /\ \A u \in Threads \ {t} : th'[u] = th[u]
          /\ th'[t] = AtPc(th[t], "fail.check")
          /\ rows'[th[t].id].status # "none"
      BY <1>0, <2>1, <2>2, WriteStep
    <2>4. /\ th'[t].pc = "fail.check" /\ th'[t].id = th[t].id
          /\ th'[t].ret = "idle"
      BY <1>0, <2>3, AtPcKeeps DEF ThreadOK
    <2>5. ThreadOK(t)'
      BY <2>3, <2>4 DEF ThreadOK
    <2> QED BY <2>3, <2>5 DEF StepOf
  <1>9. CASE RequeueWrite(t)
    <2> DEFINE row == [RowOf(t) EXCEPT !.retries = th[t].num + 1]
    <2>1. /\ row.status = RowOf(t).status /\ row.maxRetries = RowOf(t).maxRetries
          /\ row.retries = th[t].num + 1 /\ row.result = RowOf(t).result
      BY <1>0 DEF Row
    <2>2. Write(t, row) /\ Return(t)
      BY <1>9 DEF RequeueWrite
    <2>3. th[t].num + 1 <= EffectiveLimit(RowOf(t).maxRetries)
      <3>1. th[t].num < EffectiveLimit(RowOf(t).maxRetries) /\ th[t].num \in Nat
        BY <1>0, <1>9 DEF RequeueWrite, At, ThreadOK, RowOf, Thread
      <3>2. EffectiveLimit(RowOf(t).maxRetries) \in Nat
        BY <1>0 DEF Row, EffectiveLimit
      <3> QED BY <3>1, <3>2
    <2> QED BY <1>3, <2>1, <2>2, <2>3
  <1> QED BY <1>4, <1>5, <1>6, <1>7, <1>8, <1>9

\* fail_task's check: the counter it remembers is below the limit.
LEMMA CheckAdvance ==
  ASSUME EngineInv, NEW t \in Threads, th[t].id \in Tasks, FailCheck(t)
  PROVE  StepOf(t)
  <1>0. /\ TypeOK /\ th[t] \in Thread /\ ThreadOK(t) /\ th[t].pc = "fail.check"
        /\ RowOf(t) \in Row /\ rows' = rows /\ RowOf(t) = rows[th[t].id]
    BY DEF EngineInv, TypeOK, RowOf, FailCheck, At
  <1>1. CASE Return(t)
    <2>1. th' = [th EXCEPT ![t] = Idle]
      BY <1>0, <1>1 DEF Return, Back, ThreadOK
    <2> QED BY <1>0, <2>1, IdleOK DEF StepOf, RowStep, TypeOK
  <1>2. CASE ~ Return(t)
    <2> DEFINE m == Reading(Meaning(t, "failed", "pending"), RowOf(t).retries)
    <2>1. /\ RowOf(t).retries < EffectiveLimit(RowOf(t).maxRetries)
          /\ th' = [th EXCEPT ![t] = AtPc(m, "requeue.cas")]
      BY <1>2 DEF FailCheck
    <2>2. /\ AtPc(m, "requeue.cas").pc = "requeue.cas"
          /\ AtPc(m, "requeue.cas").id = th[t].id
          /\ AtPc(m, "requeue.cas").num = RowOf(t).retries
          /\ AtPc(m, "requeue.cas").edge = <<"failed", "pending">>
          /\ AtPc(m, "requeue.cas").ret = th[t].ret
      <3>1. /\ Meaning(t, "failed", "pending") \in Thread
            /\ Meaning(t, "failed", "pending").id = th[t].id
            /\ Meaning(t, "failed", "pending").ret = th[t].ret
            /\ Meaning(t, "failed", "pending").edge = <<"failed", "pending">>
        BY <1>0, MeaningType, Names DEF Meaning, Thread
      <3>2. /\ m \in Thread /\ m.id = th[t].id /\ m.ret = th[t].ret
            /\ m.edge = <<"failed", "pending">> /\ m.num = RowOf(t).retries
        BY <1>0, <3>1 DEF Reading, Thread, Row
      <3> HIDE DEF m
      <3> QED BY <3>2, AtPcKeeps
    <2> HIDE DEF m
    <2>3. th'[t] = AtPc(m, "requeue.cas")
      BY <1>0, <2>1 DEF TypeOK
    <2>4. <<"failed", "pending">> \in Edges
      BY DEF Edges, LegalEdges
    <2>5. ThreadOK(t)'
      BY <1>0, <2>1, <2>2, <2>3, <2>4 DEF ThreadOK
    <2> QED BY <1>0, <2>1, <2>5 DEF StepOf, RowStep, TypeOK
  <1> QED BY <1>1, <1>2

\* A worker starts a submission or ends its run.
LEMMA RunStep ==
  ASSUME EngineInv, NEW w \in Workers, Run(w)
  PROVE  StepOf(w)
  <1>0. TypeOK /\ w \in Threads /\ th[w] \in Thread /\ ThreadOK(w) /\ rows' = rows
    BY DEF EngineInv, TypeOK, Threads, Run, RunTask, RunLost, WorkReplies,
           WorkRaises
  <1>1. CASE RunTask(w)
    <2>1. th' = [th EXCEPT ![w] = Serving(Head(pool), "work", "none", "none")]
          /\ pool # << >> /\ pool \in Seq(Tasks)
      BY <1>0, <1>1 DEF RunTask, TypeOK
    <2>2. Head(pool) \in Tasks /\ rows[Head(pool)].status # "none"
      BY <2>1 DEF EngineInv
    <2>3. th'[w] = Serving(Head(pool), "work", "none", "none")
      BY <1>0, <2>1 DEF TypeOK
    <2>4. ThreadOK(w)'
      BY <1>0, <2>2, <2>3 DEF ThreadOK, Serving, Idle
    <2> QED BY <1>0, <2>1, <2>4 DEF StepOf, RowStep, TypeOK
  <1>2. ASSUME NEW to \in {"completed", "failed"},
               NEW pc \in {"complete.cas", "fail.cas"},
               pc = "complete.cas" => to = "completed",
               th[w].pc = "work",
               th' = [th EXCEPT ![w] = AtPc(Meaning(w, "running", to), pc)]
        PROVE  StepOf(w)
    <2>1. th'[w] = AtPc(Meaning(w, "running", to), pc)
      BY <1>0, <1>2 DEF TypeOK
    <2>2. /\ th'[w].pc = pc /\ th'[w].id = th[w].id /\ th'[w].ret = th[w].ret
          /\ th'[w].edge = <<"running", to>>
      BY <1>0, <2>1 DEF AtPc, Meaning, Thread
    <2>3. <<"running", to>> \in Edges
      BY DEF Edges, LegalEdges
    <2>4. ThreadOK(w)'
      BY <1>0, <1>2, <2>2, <2>3 DEF ThreadOK
    <2> QED BY <1>0, <1>2, <2>4 DEF StepOf, RowStep, TypeOK
  <1>3. CASE WorkReplies(w)
    BY <1>2, <1>3 DEF WorkReplies, At
  <1>4. CASE WorkRaises(w)
    BY <1>2, <1>4 DEF WorkRaises, At
  <1>5. CASE RunLost(w)
    BY <1>0, <1>5 DEF RunLost, StepOf, RowStep, TypeOK, ThreadOK
  <1> QED BY <1>1, <1>3, <1>4, <1>5 DEF Run

\* Submissions are of existing rows, and rows do not disappear.
LEMMA PoolKeeps ==
  ASSUME EngineInv, \A i \in Tasks : RowStep(i),
         \/ UNCHANGED pool
         \/ pool # << >> /\ pool' = Tail(pool)
         \/ \E i \in Tasks : rows[i].status # "none" /\ pool' = Append(pool, i)
  PROVE  \A n \in DOMAIN pool' : rows'[pool'[n]].status # "none"
  <1>1. TypeOK /\ pool \in Seq(Tasks)
    BY DEF EngineInv, TypeOK
  <1>2. \A i \in Tasks : rows[i].status # "none" => rows'[i].status # "none"
    BY <1>1, RowStepKeeps
  <1>3. \A n \in 1 .. Len(pool) : pool[n] \in Tasks /\ rows[pool[n]].status # "none"
    BY <1>1 DEF EngineInv
  <1>4. CASE UNCHANGED pool
    BY <1>1, <1>2, <1>3, <1>4
  <1>5. CASE pool # << >> /\ pool' = Tail(pool)
    <2>1. \A n \in DOMAIN pool' : n + 1 \in 1 .. Len(pool) /\ pool'[n] = pool[n + 1]
      BY <1>1, <1>5
    <2> QED BY <1>2, <1>3, <2>1
  <1>6. CASE \E i \in Tasks : rows[i].status # "none" /\ pool' = Append(pool, i)
    <2>1. PICK i \in Tasks : rows[i].status # "none" /\ pool' = Append(pool, i)
      BY <1>6
    <2>2. \A n \in DOMAIN pool' :
            \/ n \in 1 .. Len(pool) /\ pool'[n] = pool[n]
            \/ pool'[n] = i
      BY <1>1, <2>1
    <2> QED BY <1>2, <1>3, <2>1, <2>2
  <1> QED BY <1>4, <1>5, <1>6

\* One step of any thread preserves the invariant.
LEMMA Inductive == EngineInv /\ [ENext]_evars => EngineInv'
  <1> SUFFICES ASSUME EngineInv, [ENext]_evars PROVE EngineInv'
    OBVIOUS
  <1>1. TypeOK /\ TypeOK'
    BY TypingStep DEF EngineInv
  <1>2. ASSUME NEW t \in Threads, StepOf(t),
               \/ UNCHANGED pool
               \/ pool # << >> /\ pool' = Tail(pool)
               \/ \E i \in Tasks : rows[i].status # "none" /\ pool' = Append(pool, i)
        PROVE  EngineInv'
    <2>1. \A i \in Tasks : RowStep(i)
      BY <1>2 DEF StepOf
    <2>2. \A u \in Threads : ThreadOK(u)'
      BY <1>1, <1>2, <2>1, ThreadKeeps DEF StepOf, EngineInv
    <2>3. \A n \in DOMAIN pool' : rows'[pool'[n]].status # "none"
      BY <1>2, <2>1, PoolKeeps
    <2>4. RetryBound'
      BY <1>1, <2>1, RowStepRetries DEF EngineInv
    <2>5. (TransitionTargets = {} => ResultMeansCompleted)'
      BY <1>1, <2>1, RowStepResults DEF EngineInv
    <2>6. AbsentRows'
      BY <1>1, <2>1, RowStepAbsent DEF EngineInv
    <2> QED BY <1>1, <2>2, <2>3, <2>4, <2>5, <2>6 DEF EngineInv
  <1>3. ASSUME NEW c \in Callers, Serve(c) PROVE EngineInv'
    BY <1>2, <1>3, ServeStep DEF Serve, Threads
  <1>4. ASSUME NEW t \in Threads, Advance(t) PROVE EngineInv'
    <2>1. th[t].id \in Tasks
      BY <1>1, <1>4, AdvanceActive
    <2>2. StepOf(t)
      BY <1>4, <2>1, LogStep, CasAdvance, WriteAdvance, CheckAdvance DEF Advance
    <2>3. \/ UNCHANGED pool
          \/ \E i \in Tasks : rows[i].status # "none" /\ pool' = Append(pool, i)
      <3>1. CASE ExecuteSubmit(t)
        <4>1. rows[th[t].id].status # "none"
          BY <3>1 DEF ExecuteSubmit, At, EngineInv, ThreadOK
        <4> QED BY <2>1, <3>1, <4>1 DEF ExecuteSubmit
      <3>2. CASE ~ ExecuteSubmit(t)
        BY <1>4, <3>2
           DEF Advance, CreateLog, ExecuteCas, ExecuteLog, CancelCas, CancelLog,
               CancelWrite, RetryLog, RetryWrite, ProgressWrite, TransitionCas,
               TransitionLog, CompleteCas, CompleteLog, CompleteWrite, FailCas,
               FailLog, FailWrite, FailCheck, RequeueCas, RequeueLog,
               RequeueWrite, LogEdge, Write, CasOnly
      <3> QED BY <3>1, <3>2
    <2> QED BY <1>2, <2>2, <2>3
  <1>5. ASSUME NEW w \in Workers, Run(w) PROVE EngineInv'
    <2>1. UNCHANGED pool \/ (pool # << >> /\ pool' = Tail(pool))
      BY <1>5 DEF Run, RunTask, RunLost, WorkReplies, WorkRaises
    <2> QED BY <1>2, <1>5, <2>1, RunStep DEF Threads
  <1>6. CASE Crash
    <2>1. rows' = rows /\ pool' = << >> /\ \A t \in Threads : th'[t] = Idle
      BY <1>6 DEF Crash
    <2>2. \A t \in Threads : ThreadOK(t)'
      BY <2>1, IdleOK
    <2>3. /\ RetryBound' /\ (TransitionTargets = {} => ResultMeansCompleted)'
          /\ AbsentRows'
      BY <2>1 DEF EngineInv, RetryBound, ResultMeansCompleted, AbsentRows
    <2> QED BY <1>1, <2>1, <2>2, <2>3 DEF EngineInv
  <1>7. CASE UNCHANGED evars
    <2>1. \A t \in Threads : ThreadOK(t)'
      BY <1>7 DEF evars, EngineInv, ThreadOK
    <2>2. /\ RetryBound' /\ (TransitionTargets = {} => ResultMeansCompleted)'
          /\ AbsentRows'
      BY <1>7 DEF evars, EngineInv, RetryBound, ResultMeansCompleted, AbsentRows
    <2> QED BY <1>1, <1>7, <2>1, <2>2 DEF EngineInv, evars
  <1> QED BY <1>3, <1>4, <1>5, <1>6, <1>7 DEF ENext

LEMMA Initial == EInit => EngineInv
  <1> SUFFICES ASSUME EInit PROVE EngineInv
    OBVIOUS
  <1>1. TypeOK
    BY TypingInit
  <1>2. \A t \in Threads : ThreadOK(t)
    BY DEF EInit, ThreadOK, Idle
  <1>3. RetryBound /\ ResultMeansCompleted /\ AbsentRows
    BY DEF EInit, RetryBound, ResultMeansCompleted, AbsentRows, NoRow,
           EffectiveLimit
  <1> QED BY <1>1, <1>2, <1>3 DEF EngineInv, EInit

LEMMA Invariance == ESpec => []EngineInv
  BY Initial, Inductive, PTL DEF ESpec

\* The retry counter of a task never passes the limit fail_task applies, for any
\* number of runs of the task that fail at the same time, through POST
\* /transition and restarts too.
THEOREM RetriesBounded == ESpec => []RetryBound
  <1>1. EngineInv => RetryBound
    BY DEF EngineInv
  <1> QED BY <1>1, Invariance, PTL

\* As long as nobody uses POST /transition, only a completed task has a result.
THEOREM ResultsOfCompleted ==
  ASSUME TransitionTargets = {}
  PROVE  ESpec => []ResultMeansCompleted
  <1>1. EngineInv => ResultMeansCompleted
    BY DEF EngineInv
  <1> QED BY <1>1, Invariance, PTL
-----------------------------------------------------------------------------
(* What one step does to the rows, seen from the lifecycle.                *)

LEMMA RowsStep ==
  ASSUME EngineInv, [ENext]_evars
  PROVE  \A i \in Tasks : RowStep(i)
  <1>1. TypeOK
    BY DEF EngineInv
  <1>2. ASSUME NEW c \in Callers, Serve(c) PROVE \A i \in Tasks : RowStep(i)
    BY <1>2, ServeStep DEF Serve, StepOf
  <1>3. ASSUME NEW t \in Threads, Advance(t) PROVE \A i \in Tasks : RowStep(i)
    <2>1. th[t].id \in Tasks
      BY <1>1, <1>3, AdvanceActive
    <2>2. StepOf(t)
      BY <1>3, <2>1, LogStep, CasAdvance, WriteAdvance, CheckAdvance DEF Advance
    <2> QED BY <2>2 DEF StepOf
  <1>4. ASSUME NEW w \in Workers, Run(w) PROVE \A i \in Tasks : RowStep(i)
    BY <1>4, RunStep DEF StepOf
  <1>5. CASE Crash \/ UNCHANGED evars
    BY <1>5 DEF Crash, evars, RowStep
  <1> QED BY <1>2, <1>3, <1>4, <1>5 DEF ENext

\* One database call writes at most one row.
OneRow == \/ rows' = rows
          \/ \E i \in Tasks : \E row : rows' = [rows EXCEPT ![i] = row]

LEMMA OneRowStep == ASSUME TypeOK, [ENext]_evars PROVE OneRow
  <1>1. ASSUME NEW c \in Callers, Serve(c) PROVE OneRow
    <2>1. PICK i \in Tasks :
            \/ CreateTask(c, i) \/ ExecuteTask(c, i) \/ CancelTask(c, i)
            \/ RetryTask(c, i)  \/ UpdateProgress(c, i) \/ TransitionTask(c, i)
      BY <1>1 DEF Serve
    <2>2. CASE RetryTask(c, i)
      <3>1. Serving(i, "retry.log", "failed", "pending").id = i
        BY DEF Serving, Idle
      <3> QED BY <2>2, <3>1 DEF RetryTask, Cas, OneRow
    <2>3. CASE ~ RetryTask(c, i)
      BY <2>1, <2>3 DEF CreateTask, ExecuteTask, CancelTask, UpdateProgress,
                        TransitionTask, OneRow
    <2> QED BY <2>2, <2>3
  <1>2. ASSUME NEW t \in Threads, Advance(t) PROVE OneRow
    <2>1. th[t].id \in Tasks
      BY <1>2, AdvanceActive
    <2>2. \/ rows' = rows
          \/ \E row : rows' = [rows EXCEPT ![th[t].id] = row]
      BY <1>2 DEF Advance, CreateLog, ExecuteCas, ExecuteLog, ExecuteSubmit,
             CancelCas, CancelLog, CancelWrite, RetryLog, RetryWrite,
             ProgressWrite, TransitionCas, TransitionLog, CompleteCas,
             CompleteLog, CompleteWrite, FailCas, FailLog, FailWrite, FailCheck,
             RequeueCas, RequeueLog, RequeueWrite, Cas, LogEdge, Write
    <2> QED BY <2>1, <2>2 DEF OneRow
  <1>3. ASSUME NEW w \in Workers, Run(w) PROVE OneRow
    BY <1>3 DEF Run, RunTask, RunLost, WorkReplies, WorkRaises, OneRow
  <1>4. CASE Crash \/ UNCHANGED evars
    BY <1>4 DEF Crash, evars, OneRow
  <1> QED BY <1>1, <1>2, <1>3, <1>4 DEF ENext

\* completed and cancelled are final as long as nobody uses POST /transition:
\* no thread that read an earlier status takes the task out of them.
THEOREM FinalStays ==
  ASSUME TransitionTargets = {}
  PROVE  ESpec => TerminalIsFinal
  <1>1. EngineInv /\ [ENext]_evars =>
          [\A i \in Tasks : rows[i].status \in {"completed", "cancelled"}
                             => rows'[i].status = rows[i].status]_evars
    <2> SUFFICES ASSUME EngineInv, [ENext]_evars, NEW i \in Tasks,
                        rows[i].status \in {"completed", "cancelled"}
                 PROVE  rows'[i].status = rows[i].status
      OBVIOUS
    <2> QED BY RowsStep, RowStepKeeps DEF EngineInv
  <1> QED BY <1>1, Invariance, PTL DEF ESpec, TerminalIsFinal

-----------------------------------------------------------------------------
(* Refinement.                                                             *)

LimitOf(row) == IF row.status = "none" THEN 0 ELSE EffectiveLimit(row.maxRetries)

LEMMA ChangedAt ==
  ASSUME NEW S, NEW i \in S, NEW f, NEW g, f = [j \in S |-> f[j]],
         g = [j \in S |-> g[j]], \A j \in S \ {i} : g[j] = f[j]
  PROVE  g = [f EXCEPT ![i] = g[i]]
  OBVIOUS

\* A change of one row changes the lifecycle's variables at that task alone.
LEMMA ShadowStep ==
  ASSUME TypeOK, TypeOK', NEW i \in Tasks, NEW row,
         rows' = [rows EXCEPT ![i] = row]
  PROVE  /\ [j \in Tasks |-> rows'[j].status] =
            [[j \in Tasks |-> rows[j].status] EXCEPT ![i] = rows'[i].status]
         /\ [j \in Tasks |-> rows'[j].result] =
            [[j \in Tasks |-> rows[j].result] EXCEPT ![i] = rows'[i].result]
         /\ [j \in Tasks |-> rows'[j].retries] =
            [[j \in Tasks |-> rows[j].retries] EXCEPT ![i] = rows'[i].retries]
         /\ [j \in Tasks |-> LimitOf(rows'[j])] =
            [[j \in Tasks |-> LimitOf(rows[j])] EXCEPT ![i] = LimitOf(rows'[i])]
  <1> DEFINE st == [j \in Tasks |-> rows[j].status]
             re == [j \in Tasks |-> rows[j].result]
             co == [j \in Tasks |-> rows[j].retries]
             li == [j \in Tasks |-> LimitOf(rows[j])]
  <1>1. \A j \in Tasks : j # i => rows'[j] = rows[j]
    BY DEF TypeOK
  <1>2. /\ st' = [j \in Tasks |-> st'[j]] /\ st = [j \in Tasks |-> st[j]]
        /\ re' = [j \in Tasks |-> re'[j]] /\ re = [j \in Tasks |-> re[j]]
        /\ co' = [j \in Tasks |-> co'[j]] /\ co = [j \in Tasks |-> co[j]]
        /\ li' = [j \in Tasks |-> li'[j]] /\ li = [j \in Tasks |-> li[j]]
    OBVIOUS
  <1>3. \A j \in Tasks \ {i} : /\ st'[j] = st[j] /\ re'[j] = re[j]
                              /\ co'[j] = co[j] /\ li'[j] = li[j]
    BY <1>1 DEF LimitOf
  <1>4. /\ st'[i] = rows'[i].status /\ re'[i] = rows'[i].result
        /\ co'[i] = rows'[i].retries /\ li'[i] = LimitOf(rows'[i])
    BY DEF LimitOf
  <1> HIDE DEF st, re, co, li
  <1>5. /\ st' = [st EXCEPT ![i] = st'[i]] /\ re' = [re EXCEPT ![i] = re'[i]]
        /\ co' = [co EXCEPT ![i] = co'[i]] /\ li' = [li EXCEPT ![i] = li'[i]]
    BY <1>2, <1>3, ChangedAt
  <1>6. /\ st' = [st EXCEPT ![i] = rows'[i].status]
        /\ re' = [re EXCEPT ![i] = rows'[i].result]
        /\ co' = [co EXCEPT ![i] = rows'[i].retries]
        /\ li' = [li EXCEPT ![i] = LimitOf(rows'[i])]
    BY <1>4, <1>5
  <1> QED BY <1>6 DEF st, re, co, li

\* Without POST /transition, the threads of the engine together implement the
\* lifecycle of _VALID_TRANSITIONS: every call is one of its steps or none.
THEOREM LifecycleImplemented ==
  ASSUME TransitionTargets = {}
  PROVE  ESpec => ImplementsLifecycle
  <1>1. EInit => Lifecycle!LInit
    BY DEF EInit, Lifecycle!LInit, NoRow
  <1>2. EngineInv /\ EngineInv' /\ [ENext]_evars
          => [Lifecycle!LNext]_Lifecycle!avars
    <2> SUFFICES ASSUME EngineInv, EngineInv', [ENext]_evars
                 PROVE  Lifecycle!LNext \/ UNCHANGED Lifecycle!avars
      OBVIOUS
    <2>0. TypeOK /\ TypeOK' /\ (\A i \in Tasks : RowStep(i)) /\ OneRow
      BY RowsStep, OneRowStep DEF EngineInv
    <2>1. CASE rows' = rows
      BY <2>1 DEF Lifecycle!avars
    <2>2. ASSUME NEW i \in Tasks, NEW row, rows' = [rows EXCEPT ![i] = row]
          PROVE  Lifecycle!LNext \/ UNCHANGED Lifecycle!avars
      <3> DEFINE st == [j \in Tasks |-> rows[j].status]
                 re == [j \in Tasks |-> rows[j].result]
                 co == [j \in Tasks |-> rows[j].retries]
                 li == [j \in Tasks |-> LimitOf(rows[j])]
      <3>1. /\ st' = [st EXCEPT ![i] = rows'[i].status]
            /\ re' = [re EXCEPT ![i] = rows'[i].result]
            /\ co' = [co EXCEPT ![i] = rows'[i].retries]
            /\ li' = [li EXCEPT ![i] = LimitOf(rows'[i])]
        BY <2>0, <2>2, ShadowStep
      <3>2. /\ st[i] = rows[i].status /\ re[i] = rows[i].result
            /\ co[i] = rows[i].retries /\ li[i] = LimitOf(rows[i])
        OBVIOUS
      <3>3. /\ rows[i] \in Row /\ rows'[i] \in Row /\ RowStep(i)
            /\ rows'[i].retries <= EffectiveLimit(rows'[i].maxRetries)
            /\ rows[i].status = "none" => rows[i] = NoRow
        BY <2>0 DEF EngineInv, TypeOK, RetryBound, AbsentRows
      <3>4. \A m \in RetryLimits :
              /\ st[i] = "none" /\ st' = [st EXCEPT ![i] = "pending"]
              /\ li' = [li EXCEPT ![i] = EffectiveLimit(m)]
              /\ re' = re /\ co' = co
              => Lifecycle!Create(i)
        BY DEF Lifecycle!Create, LimitOf
      <3>5. \A s \in Lifecycle!Legal[st[i]] :
              /\ st[i] # "none" /\ st' = [st EXCEPT ![i] = s]
              /\ li' = li /\ re' = re /\ co' = co
              => Lifecycle!Move(i)
        BY DEF Lifecycle!Move, LimitOf
      <3>6. /\ st[i] = "completed" /\ ~ re[i]
            /\ re' = [re EXCEPT ![i] = TRUE]
            /\ st' = st /\ co' = co /\ li' = li
            => Lifecycle!Deliver(i)
        BY DEF Lifecycle!Deliver, LimitOf
      <3>7. \A n \in 0 .. li[i] :
              /\ st[i] # "none" /\ co' = [co EXCEPT ![i] = n]
              /\ st' = st /\ re' = re /\ li' = li
              => Lifecycle!Count(i)
        BY DEF Lifecycle!Count, LimitOf
      <3>8. /\ st = [st EXCEPT ![i] = rows[i].status]
            /\ re = [re EXCEPT ![i] = rows[i].result]
            /\ co = [co EXCEPT ![i] = rows[i].retries]
            /\ li = [li EXCEPT ![i] = LimitOf(rows[i])]
        OBVIOUS
      <3> HIDE DEF st, re, co, li
      <3>9. CASE rows'[i] = rows[i]
        BY <2>0, <2>1, <2>2, <3>9 DEF TypeOK
      <3>10. CASE Created(i)
        <4>1. PICK m \in RetryLimits : rows'[i] = NewRow(m)
          BY <3>10 DEF Created
        <4>2. /\ rows'[i].status = "pending" /\ rows'[i].result = FALSE
              /\ rows'[i].retries = 0 /\ LimitOf(rows'[i]) = EffectiveLimit(m)
          BY <4>1 DEF NewRow, NoRow, LimitOf
        <4>3. rows[i].status = "none" /\ rows[i].result = FALSE /\ rows[i].retries = 0
          BY <3>3, <3>10 DEF Created, NoRow
        <4>4. Lifecycle!Create(i)
          BY <3>1, <3>2, <3>4, <3>8, <4>1, <4>2, <4>3
        <4> QED BY <4>4 DEF Lifecycle!LNext
      <3>11. CASE Moved(i)
        <4>1. PICK e \in LegalEdges : /\ rows[i].status = e[1]
                                      /\ rows'[i] = WithStatus(rows[i], e[2])
          BY <3>11 DEF Moved, Edges
        <4>2. /\ e[1] # "none" /\ e[2] # "none"
              /\ e[2] \in AnyStatus
          BY EdgesType DEF Edges
        <4>3. /\ rows'[i].status = e[2] /\ rows'[i].result = rows[i].result
              /\ rows'[i].retries = rows[i].retries
              /\ rows'[i].maxRetries = rows[i].maxRetries
          BY <3>3, <4>1, <4>2, WithStatusKeeps
        <4>4. LimitOf(rows'[i]) = LimitOf(rows[i])
          BY <4>1, <4>2, <4>3 DEF LimitOf
        <4>5. e[2] \in Lifecycle!Legal[e[1]]
          BY DEF LegalEdges, Lifecycle!Legal
        <4>6. Lifecycle!Move(i)
          BY <3>1, <3>2, <3>5, <3>8, <4>1, <4>2, <4>3, <4>4, <4>5
        <4> QED BY <4>6 DEF Lifecycle!LNext
      <3>12. CASE Written(i)
        <4>1. /\ rows'[i].status = rows[i].status /\ rows[i].status # "none"
              /\ LimitOf(rows'[i]) = LimitOf(rows[i])
              /\ LimitOf(rows[i]) = EffectiveLimit(rows[i].maxRetries)
          BY <3>12 DEF Written, LimitOf
        <4>2. rows'[i].retries \in 0 .. LimitOf(rows[i])
          BY <3>3, <3>12, <4>1 DEF Written, Row, EffectiveLimit
        <4>3. CASE rows'[i].result = rows[i].result
          <5>1. Lifecycle!Count(i)
            BY <3>1, <3>2, <3>7, <3>8, <4>1, <4>2, <4>3
          <5> QED BY <5>1 DEF Lifecycle!LNext
        <4>4. CASE rows'[i].result # rows[i].result
          <5>1. /\ rows'[i].result = TRUE /\ rows[i].result = FALSE
                /\ rows'[i].retries = rows[i].retries
                /\ rows[i].status = "completed"
            BY <3>3, <3>12, <4>4 DEF Written, Row
          <5>2. Lifecycle!Deliver(i)
            BY <3>1, <3>2, <3>6, <3>8, <4>1, <5>1
          <5> QED BY <5>2 DEF Lifecycle!LNext
        <4> QED BY <4>3, <4>4
      <3> QED BY <3>3, <3>9, <3>10, <3>11, <3>12 DEF RowStep
    <2> QED BY <2>0, <2>1, <2>2 DEF OneRow
  <1> QED BY <1>1, <1>2, Invariance, PTL DEF ESpec, ImplementsLifecycle, Lifecycle!LSpec

-----------------------------------------------------------------------------
RunPCs    == {"execute.log", "execute.submit", "work", "complete.cas", "fail.cas"}
ClosePCs  == {"complete.log", "complete.write"}
CancelPCs == {"cancel.log", "cancel.write"}

Serves(t, i, pcs) == th[t].id = i /\ th[t].pc \in pcs
Somebody(i, pcs)  == \E t \in Threads : Serves(t, i, pcs)

RunAccount(i)    == ~SetupMayFail /\ rows[i].status = "running" => Somebody(i, RunPCs) \/ Submitted(i)
CloseAccount(i)  == rows[i].status = "completed"
                      => (rows[i].result /\ rows[i].completedAt) \/ Somebody(i, ClosePCs)
CancelAccount(i) == rows[i].status = "cancelled" => rows[i].completedAt \/ Somebody(i, CancelPCs)
Account(i)       == RunAccount(i) /\ CloseAccount(i) /\ CancelAccount(i)

(* What a thread is about to make of a status it has read.                 *)
EdgeFits(t) ==
  LET s == th[t] IN
  /\ s.pc # "transition.cas"
  /\ s.pc = "execute.cas" => s.edge[2] = "running"
  /\ s.pc = "cancel.cas" => s.edge[2] = "cancelled"
  /\ s.pc = "complete.cas" => s.edge = <<"running", "completed">>
  /\ s.pc = "fail.cas" => s.edge = <<"running", "failed">>
  /\ s.pc = "requeue.cas" => s.edge[2] = "pending"

AccountInv == /\ \A t \in Threads : EdgeFits(t)
              /\ crashes = 0 => \A i \in Tasks : Account(i)

-----------------------------------------------------------------------------
(* A step of thread t for task j: what becomes of the account of j.        *)

LEMMA OthersServe ==
  ASSUME NEW t \in Threads, NEW i, NEW pcs, Somebody(i, pcs),
         \A u \in Threads \ {t} : th'[u] = th[u],
         Serves(t, i, pcs) => Serves(t, i, pcs)'
  PROVE  Somebody(i, pcs)'
  BY DEF Somebody, Serves

(* Only the task a thread is for is touched by its steps.                  *)
LEMMA OtherAccounts ==
  ASSUME NEW t \in Threads, NEW j \in Tasks, \A i \in Tasks : Account(i), Account(j)',
         th[t].pc = "idle" \/ th[t].id = j,
         \A u \in Threads \ {t} : th'[u] = th[u],
         \A i \in Tasks \ {j} : rows'[i] = rows[i] /\ (Submitted(i) => Submitted(i)')
  PROVE  \A i \in Tasks : Account(i)'
<1> SUFFICES ASSUME NEW i \in Tasks, i # j PROVE Account(i)'
  OBVIOUS
<1>1. ASSUME NEW pcs \in {RunPCs, ClosePCs, CancelPCs} PROVE ~Serves(t, i, pcs)
  BY DEF Serves, RunPCs, ClosePCs, CancelPCs
<1>2. ASSUME NEW pcs \in {RunPCs, ClosePCs, CancelPCs}, Somebody(i, pcs) PROVE Somebody(i, pcs)'
  BY <1>1, <1>2, OthersServe
<1> QED BY <1>2 DEF Account, RunAccount, CloseAccount, CancelAccount

(* A step that leaves the rows alone, its thread going on with its task.   *)
LEMMA SameRows ==
  ASSUME NEW t \in Threads, NEW j \in Tasks,
         \A u \in Threads \ {t} : th'[u] = th[u], UNCHANGED rows,
         Submitted(j) => Submitted(j)' \/ Serves(t, j, RunPCs)',
         Serves(t, j, RunPCs) => \/ Serves(t, j, RunPCs)' \/ Submitted(j)'
                                 \/ SetupMayFail \/ rows[j].status # "running",
         Serves(t, j, ClosePCs) => Serves(t, j, ClosePCs)',
         Serves(t, j, CancelPCs) => Serves(t, j, CancelPCs)'
  PROVE  Account(j) => Account(j)'
<1> SUFFICES ASSUME Account(j) PROVE Account(j)'
  OBVIOUS
<1>1. CloseAccount(j)' /\ CancelAccount(j)'
  BY OthersServe DEF Account, CloseAccount, CancelAccount
<1>2. RunAccount(j)'
  <2>1. CASE Serves(t, j, RunPCs)'
    BY <2>1 DEF Somebody, RunAccount
  <2>2. CASE ~Serves(t, j, RunPCs)'
    BY <2>2, OthersServe DEF Account, RunAccount
  <2> QED BY <2>1, <2>2
<1> QED BY <1>1, <1>2 DEF Account

(* A write that is not the end of a run keeps what its row has of an end.  *)
LEMMA OtherWrite ==
  ASSUME NEW t \in Threads, NEW j \in Tasks,
         \A u \in Threads \ {t} : th'[u] = th[u], UNCHANGED pool,
         rows'[j].status = rows[j].status,
         rows[j].result => rows'[j].result,
         rows[j].completedAt => rows'[j].completedAt,
         ~Serves(t, j, RunPCs),
         Serves(t, j, ClosePCs) => rows'[j].result /\ rows'[j].completedAt,
         Serves(t, j, CancelPCs) => rows'[j].completedAt
  PROVE  Account(j) => Account(j)'
<1> SUFFICES ASSUME Account(j) PROVE Account(j)'
  OBVIOUS
<1>1. RunAccount(j)'
  BY OthersServe DEF Account, RunAccount, Submitted
<1>2. CloseAccount(j)'
  BY OthersServe DEF Account, CloseAccount
<1>3. CancelAccount(j)'
  BY OthersServe DEF Account, CancelAccount
<1> QED BY <1>1, <1>2, <1>3 DEF Account

(* The UPDATE of cas_transition: it wins and its thread goes on to the     *)
(* record, or it loses and the thread is done.                             *)
LEMMA CasAccount ==
  ASSUME TypeOK, NEW t \in Threads, NEW s \in Thread, s.id \in Tasks, s.ret = "idle",
         NEW won \in PC, Cas(t, s, won), UNCHANGED pool,
         s.edge[2] = "running" => won \in RunPCs,
         s.edge[2] = "completed" => won \in ClosePCs,
         s.edge[2] = "cancelled" => won \in CancelPCs,
         Serves(t, s.id, RunPCs) => s.edge[1] = "running",
         ~Serves(t, s.id, ClosePCs) /\ ~Serves(t, s.id, CancelPCs)
  PROVE  /\ Account(s.id) => Account(s.id)'
         /\ \A u \in Threads \ {t} : th'[u] = th[u]
         /\ \A i \in Tasks \ {s.id} : rows'[i] = rows[i]
<1>1. CASE rows[s.id].status = s.edge[1]
  <2>1. /\ rows' = [rows EXCEPT ![s.id] = WithStatus(rows[s.id], s.edge[2])]
        /\ th' = [th EXCEPT ![t] = AtPc(s, won)]
    BY <1>1 DEF Cas
  <2>2. rows'[s.id].status = s.edge[2]
    BY <2>1 DEF TypeOK, WithStatus, Row
  <2>3. th'[t].id = s.id /\ th'[t].pc = won
    BY <2>1 DEF TypeOK, AtPc, Thread
  <2>4. \A pcs : won \in pcs => Somebody(s.id, pcs)'
    BY <2>3 DEF Somebody, Serves
  <2>5. Account(s.id) => Account(s.id)'
    BY <2>2, <2>4 DEF Account, RunAccount, CloseAccount, CancelAccount
  <2> QED BY <2>1, <2>5 DEF TypeOK
<1>2. CASE rows[s.id].status # s.edge[1]
  <2>1. th' = [th EXCEPT ![t] = Idle] /\ UNCHANGED rows
    BY <1>2 DEF Cas, Back
  <2>2. \A u \in Threads \ {t} : th'[u] = th[u]
    BY <2>1 DEF TypeOK
  <2>3. Account(s.id) => Account(s.id)'
    BY <1>2, <2>1, <2>2, SameRows DEF Submitted
  <2> QED BY <2>1, <2>2, <2>3
<1> QED BY <1>1, <1>2

-----------------------------------------------------------------------------
(* The steps.  GoesOn is what has to be shown of each.                     *)

GoesOn(t, j) == /\ Account(j) => Account(j)'
                /\ th[t].pc = "idle" \/ th[t].id = j
                /\ \A u \in Threads \ {t} : th'[u] = th[u]
                /\ \A i \in Tasks \ {j} : rows'[i] = rows[i] /\ (Submitted(i) => Submitted(i)')

LEMMA RequestGoesOn ==
  ASSUME EngineInv, TransitionTargets = {}, NEW c \in Callers, NEW j \in Tasks,
         \/ CreateTask(c, j) \/ ExecuteTask(c, j) \/ CancelTask(c, j)
         \/ RetryTask(c, j)  \/ UpdateProgress(c, j) \/ TransitionTask(c, j)
  PROVE  GoesOn(c, j) /\ EdgeFits(c)'
<1>1. /\ c \in Threads /\ th[c].pc = "idle" /\ UNCHANGED pool
      /\ \A pcs \in {RunPCs, ClosePCs, CancelPCs} : ~Serves(c, j, pcs)
  BY DEF CreateTask, ExecuteTask, CancelTask, RetryTask, UpdateProgress, TransitionTask, Request,
         At, Threads, Serves, RunPCs, ClosePCs, CancelPCs
<1> USE DEF TypeOK, EngineInv
<1>2. CASE CreateTask(c, j)
  <2>1. /\ \E m \in RetryLimits : rows' = [rows EXCEPT ![j] = NewRow(m)]
        /\ th' = [th EXCEPT ![c] = Serving(j, "create.log", "none", "pending")]
    BY <1>2 DEF CreateTask
  <2>2. rows'[j].status = "pending"
    BY <2>1 DEF NewRow, NoRow
  <2>3. Account(j) => Account(j)'
    BY <2>2 DEF Account, RunAccount, CloseAccount, CancelAccount
  <2>4. EdgeFits(c)'
    BY <1>1, <2>1 DEF EdgeFits, Serving, Idle
  <2> QED BY <1>1, <2>1, <2>3, <2>4 DEF GoesOn, Submitted
<1>3. CASE RetryTask(c, j)
  <2> DEFINE s == Serving(j, "retry.log", "failed", "pending")
  <2>1. s \in Thread /\ s.id = j /\ s.ret = "idle" /\ s.edge = <<"failed", "pending">>
    <3>1. "retry.log" \in PC /\ "failed" \in AnyStatus /\ "pending" \in AnyStatus
      BY Names
    <3> QED BY <3>1, ServingType
  <2>2. Cas(c, s, "retry.log")
    BY <1>3 DEF RetryTask
  <2> HIDE DEF s
  <2>3. /\ Account(j) => Account(j)'
        /\ \A u \in Threads \ {c} : th'[u] = th[u]
        /\ \A i \in Tasks \ {j} : rows'[i] = rows[i]
    <3>1. /\ s.edge[2] = "pending" /\ "retry.log" \in PC
          /\ ~Serves(c, s.id, RunPCs) /\ ~Serves(c, s.id, ClosePCs) /\ ~Serves(c, s.id, CancelPCs)
      BY <1>1, <2>1, Names
    <3> HIDE DEF TypeOK, EngineInv
    <3>2. TypeOK
      BY DEF EngineInv
    <3> QED BY <1>1, <2>1, <2>2, <3>1, <3>2, CasAccount
  <2>4. th'[c] = AtPc(s, "retry.log") \/ th'[c] = Idle
    BY <1>1, <2>1, <2>2 DEF Cas, Back
  <2>5. EdgeFits(c)'
    BY <2>1, <2>4 DEF EdgeFits, AtPc, Idle, Thread
  <2> QED BY <1>1, <2>3, <2>5 DEF GoesOn, Submitted
<1>4. CASE ExecuteTask(c, j) \/ CancelTask(c, j) \/ UpdateProgress(c, j)
  <2>1. /\ UNCHANGED rows
        /\ \A u \in Threads \ {c} : th'[u] = th[u]
    BY <1>4 DEF ExecuteTask, CancelTask, UpdateProgress
  <2>2. Account(j) => Account(j)'
    BY <1>1, <2>1, SameRows DEF Submitted
  <2>3. EdgeFits(c)'
    <3>1. ASSUME ExecuteTask(c, j) PROVE EdgeFits(c)'
      BY <1>1, <3>1 DEF ExecuteTask, EdgeFits, Serving, Idle
    <3>2. ASSUME CancelTask(c, j) PROVE EdgeFits(c)'
      BY <1>1, <3>2 DEF CancelTask, EdgeFits, Serving, Idle
    <3>3. ASSUME UpdateProgress(c, j) PROVE EdgeFits(c)'
      BY <1>1, <3>3 DEF UpdateProgress, EdgeFits, Serving, Idle, Reading
    <3> QED BY <1>4, <3>1, <3>2, <3>3
  <2> QED BY <1>1, <2>1, <2>2, <2>3 DEF GoesOn, Submitted
<1>5. ~TransitionTask(c, j)
  BY DEF TransitionTask
<1> QED BY <1>2, <1>3, <1>4, <1>5

LEMMA AdvanceGoesOn ==
  ASSUME EngineInv, TransitionTargets = {}, NEW t \in Threads, Advance(t), EdgeFits(t),
         NEW now, now = th[t], NEW j, j = now.id
  PROVE  GoesOn(t, j) /\ EdgeFits(t)'
<1> DEFINE pc == now.pc
<1>1. TypeOK /\ now = th[t] /\ now \in Thread /\ j = now.id /\ j \in Tasks /\ now.ret = "idle"
  BY AdvanceActive DEF EngineInv, ThreadOK
<1>2. th \in [Threads -> Thread] /\ rows \in [Tasks -> Row] /\ rows[j] \in Row /\ pool \in Seq(Tasks)
  BY <1>1 DEF TypeOK
<1>3. ASSUME NEW won \in PC, Cas(t, now, won), UNCHANGED pool,
             won \notin {"execute.cas", "cancel.cas", "transition.cas", "complete.cas",
                        "fail.cas", "requeue.cas"},
             now.edge[2] = "running" => won \in RunPCs,
             now.edge[2] = "completed" => won \in ClosePCs,
             now.edge[2] = "cancelled" => won \in CancelPCs,
             pc \in RunPCs => now.edge[1] = "running",
             pc \notin ClosePCs \cup CancelPCs
      PROVE  GoesOn(t, j) /\ EdgeFits(t)'
  <2>1. /\ Account(j) => Account(j)'
        /\ \A u \in Threads \ {t} : th'[u] = th[u]
        /\ \A i \in Tasks \ {j} : rows'[i] = rows[i]
    <3>1. /\ Serves(t, j, RunPCs) => now.edge[1] = "running"
          /\ ~Serves(t, j, ClosePCs) /\ ~Serves(t, j, CancelPCs)
      BY <1>1, <1>3 DEF Serves
    <3> QED BY <1>1, <1>3, <3>1, CasAccount
  <2>2. th'[t] = AtPc(now, won) \/ th'[t] = Idle
    BY <1>1, <1>2, <1>3 DEF Cas, Back
  <2>3. EdgeFits(t)'
    BY <1>2, <1>3, <2>2 DEF EdgeFits, AtPc, Idle, Thread
  <2> QED BY <1>1, <1>3, <2>1, <2>3 DEF GoesOn, Submitted
<1>4. CASE \/ ExecuteCas(t) \/ CancelCas(t) \/ CompleteCas(t) \/ FailCas(t)
           \/ RequeueCas(t) \/ TransitionCas(t)
  <2> USE DEF At, CasOnly, RunPCs, ClosePCs, CancelPCs
  <2>1. ASSUME ExecuteCas(t) PROVE GoesOn(t, j) /\ EdgeFits(t)'
    <3>1. pc = "execute.cas" /\ now.edge[2] = "running" /\ Cas(t, now, "execute.log") /\ UNCHANGED pool
      BY <1>1, <2>1 DEF ExecuteCas, EdgeFits
    <3> QED BY <1>3, <3>1 DEF PC
  <2>2. ASSUME CancelCas(t) PROVE GoesOn(t, j) /\ EdgeFits(t)'
    <3>1. pc = "cancel.cas" /\ now.edge[2] = "cancelled" /\ Cas(t, now, "cancel.log") /\ UNCHANGED pool
      BY <1>1, <2>2 DEF CancelCas, EdgeFits
    <3> QED BY <1>3, <3>1 DEF PC
  <2>3. ASSUME CompleteCas(t) PROVE GoesOn(t, j) /\ EdgeFits(t)'
    <3>1. /\ pc = "complete.cas" /\ now.edge[1] = "running" /\ now.edge[2] = "completed"
          /\ Cas(t, now, "complete.log") /\ UNCHANGED pool
      BY <1>1, <2>3 DEF CompleteCas, EdgeFits
    <3> QED BY <1>3, <3>1 DEF PC
  <2>4. ASSUME FailCas(t) PROVE GoesOn(t, j) /\ EdgeFits(t)'
    <3>1. /\ pc = "fail.cas" /\ now.edge[1] = "running" /\ now.edge[2] = "failed"
          /\ Cas(t, now, "fail.log") /\ UNCHANGED pool
      BY <1>1, <2>4 DEF FailCas, EdgeFits
    <3> QED BY <1>3, <3>1 DEF PC
  <2>5. ASSUME RequeueCas(t) PROVE GoesOn(t, j) /\ EdgeFits(t)'
    <3>1. pc = "requeue.cas" /\ now.edge[2] = "pending" /\ Cas(t, now, "requeue.log") /\ UNCHANGED pool
      BY <1>1, <2>5 DEF RequeueCas, EdgeFits
    <3> QED BY <1>3, <3>1 DEF PC
  <2>6. ~TransitionCas(t)
    BY <1>1 DEF TransitionCas, EdgeFits
  <2> QED BY <1>4, <2>1, <2>2, <2>3, <2>4, <2>5, <2>6
<1>5. ASSUME UNCHANGED <<rows, pool>>, NEW s \in Thread, th' = [th EXCEPT ![t] = s],
             s.pc \notin {"execute.cas", "cancel.cas", "transition.cas", "complete.cas", "fail.cas"},
             s.pc = "requeue.cas" => s.edge[2] = "pending",
             pc \in RunPCs => s.id = j /\ s.pc \in RunPCs,
             pc \in ClosePCs => s.id = j /\ s.pc \in ClosePCs,
             pc \in CancelPCs => s.id = j /\ s.pc \in CancelPCs
      PROVE  GoesOn(t, j) /\ EdgeFits(t)'
  <2>1. th'[t] = s /\ \A u \in Threads \ {t} : th'[u] = th[u]
    BY <1>2, <1>5
  <2>2. /\ Serves(t, j, RunPCs) => Serves(t, j, RunPCs)'
        /\ Serves(t, j, ClosePCs) => Serves(t, j, ClosePCs)'
        /\ Serves(t, j, CancelPCs) => Serves(t, j, CancelPCs)'
    BY <1>1, <1>5, <2>1 DEF Serves
  <2>3. Submitted(j) => Submitted(j)'
    BY <1>5 DEF Submitted
  <2>4. Account(j) => Account(j)'
    BY <1>1, <1>5, <2>1, <2>2, <2>3, SameRows
  <2>5. EdgeFits(t)'
    BY <1>5, <2>1 DEF EdgeFits
  <2> QED BY <1>1, <1>5, <2>1, <2>4, <2>5 DEF GoesOn, Submitted
<1>6. CASE \/ CreateLog(t) \/ ExecuteLog(t) \/ CancelLog(t) \/ RetryLog(t) \/ TransitionLog(t)
           \/ CompleteLog(t) \/ FailLog(t) \/ RequeueLog(t)
  <2> DEFINE s == IF pc \in {"create.log", "transition.log"} THEN Idle
                  ELSE AtPc(now, CASE pc = "execute.log"  -> "execute.submit"
                                     [] pc = "cancel.log"   -> "cancel.write"
                                     [] pc = "retry.log"    -> "retry.write"
                                     [] pc = "complete.log" -> "complete.write"
                                     [] pc = "fail.log"     -> "fail.write"
                                     [] pc = "requeue.log"  -> "requeue.write")
  <2>1. UNCHANGED <<rows, pool>>
    BY <1>1, <1>6 DEF LogEdge, CreateLog, ExecuteLog, CancelLog, RetryLog, TransitionLog, CompleteLog,
                FailLog, RequeueLog
  <2>2. pc \in {"create.log", "execute.log", "cancel.log", "retry.log", "transition.log",
               "complete.log", "fail.log", "requeue.log"}
    BY <1>1, <1>6 DEF At, CreateLog, ExecuteLog, CancelLog, RetryLog, TransitionLog, CompleteLog,
                FailLog, RequeueLog
  <2>3. th' = [th EXCEPT ![t] = s]
    BY <1>1, <1>6 DEF At, Return, Back, Goto, CreateLog, ExecuteLog, CancelLog, RetryLog,
                TransitionLog, CompleteLog, FailLog, RequeueLog
  <2>4. s \in Thread
    BY <1>1, <2>2, IdleType, AtPcType, Names
  <2>5. CASE s = Idle
    BY <1>5, <2>1, <2>2, <2>3, <2>4, <2>5 DEF Idle, RunPCs, ClosePCs, CancelPCs, AtPc, Thread
  <2>6. CASE s # Idle
    <3>1. s.id = j /\ pc \notin {"create.log", "transition.log"}
      BY <1>1, <2>6 DEF AtPc, Thread
    <3>2. /\ s.pc \in {"execute.submit", "cancel.write", "retry.write", "complete.write", "fail.write", "requeue.write"}
          /\ pc = "execute.log" => s.pc = "execute.submit"
          /\ pc = "complete.log" => s.pc = "complete.write"
          /\ pc = "cancel.log" => s.pc = "cancel.write"
      BY <1>1, <2>2, <3>1 DEF AtPc, Thread
    <3> HIDE DEF s
    <3> QED BY <1>5, <2>1, <2>2, <2>3, <2>4, <3>1, <3>2 DEF RunPCs, ClosePCs, CancelPCs
  <2> QED BY <2>5, <2>6
<1>7. CASE FailCheck(t)
  <2>1. pc = "fail.check" /\ UNCHANGED <<rows, pool>>
    BY <1>1, <1>7 DEF FailCheck, At
  <2>2. PICK s \in {Idle, AtPc(Reading(Meaning(t, "failed", "pending"), RowOf(t).retries), "requeue.cas")} :
           th' = [th EXCEPT ![t] = s]
    BY <1>1, <1>7 DEF FailCheck, Return, Back
  <2>3. s \in Thread /\ s.pc \in {"idle", "requeue.cas"} /\ (s.pc = "requeue.cas" => s.edge[2] = "pending")
    <3>1. Idle \in Thread /\ Idle.pc = "idle"
      BY IdleType DEF Idle
    <3>2. CASE s = AtPc(Reading(Meaning(t, "failed", "pending"), RowOf(t).retries), "requeue.cas")
      <4> DEFINE m == Meaning(t, "failed", "pending")
      <4>1. m \in Thread /\ m.edge[2] = "pending" /\ m.id = j
        BY <1>1, MeaningType, Names DEF Meaning, Thread
      <4>2. RowOf(t).retries \in Nat
        BY <1>2 DEF RowOf, Row
      <4> HIDE DEF m
      <4>3. s \in Thread
        BY <1>1, <3>2, <4>1, <4>2, ReadingType, AtPcType, Names DEF m, Reading, Thread
      <4> QED BY <3>2, <4>1, <4>3 DEF m, AtPc, Reading, Thread
    <3> QED BY <2>2, <3>1, <3>2
  <2> QED BY <1>5, <2>1, <2>2, <2>3 DEF RunPCs, ClosePCs, CancelPCs
<1>8. CASE ExecuteSubmit(t)
  <2>1. /\ pc = "execute.submit" /\ pool' = Append(pool, j) /\ UNCHANGED rows
        /\ th' = [th EXCEPT ![t] = Idle]
    BY <1>1, <1>8 DEF ExecuteSubmit, At, Return, Back
  <2>2. Submitted(j)' /\ \A i \in Tasks : Submitted(i) => Submitted(i)'
    <3>1. /\ pool'[Len(pool) + 1] = j /\ Len(pool) + 1 \in DOMAIN pool'
          /\ \A n \in DOMAIN pool : n \in DOMAIN pool' /\ pool'[n] = pool[n]
      BY <1>1, <1>2, <2>1
    <3> QED BY <3>1 DEF Submitted
  <2>3. th'[t] = Idle /\ \A u \in Threads \ {t} : th'[u] = th[u]
    BY <1>2, <2>1
  <2>4. ~Serves(t, j, ClosePCs) /\ ~Serves(t, j, CancelPCs)
    BY <1>1, <2>1 DEF Serves, ClosePCs, CancelPCs
  <2>5. Account(j) => Account(j)'
    BY <1>1, <2>1, <2>2, <2>3, <2>4, SameRows
  <2>6. EdgeFits(t)'
    BY <2>3 DEF EdgeFits, Idle
  <2> QED BY <1>1, <2>1, <2>2, <2>3, <2>5, <2>6 DEF GoesOn
<1>9. CASE CancelWrite(t) \/ RetryWrite(t) \/ ProgressWrite(t) \/ CompleteWrite(t) \/ FailWrite(t) \/ RequeueWrite(t)
  <2>1. pc \in {"cancel.write", "retry.write", "progress.write", "complete.write", "fail.write", "requeue.write"}
    BY <1>1, <1>9 DEF At, CancelWrite, RetryWrite, ProgressWrite, CompleteWrite, FailWrite, RequeueWrite
  <2>2. UNCHANGED pool /\ \A i \in Tasks \ {j} : rows'[i] = rows[i]
    BY <1>1, <1>2, <1>9 DEF Write, CancelWrite, RetryWrite, ProgressWrite, CompleteWrite, FailWrite, RequeueWrite
  <2>3. /\ rows'[j].status = rows[j].status
        /\ rows[j].result => rows'[j].result
        /\ rows[j].completedAt => rows'[j].completedAt
        /\ pc = "complete.write" => rows'[j].result /\ rows'[j].completedAt
        /\ pc = "cancel.write" => rows'[j].completedAt
    <3>1. CASE CancelWrite(t)
      BY <1>1, <1>2, <3>1 DEF At, Write, RowOf, CancelWrite, Row
    <3>2. CASE CompleteWrite(t)
      BY <1>1, <1>2, <3>2 DEF At, Write, RowOf, CompleteWrite, Row
    <3>3. CASE RetryWrite(t)
      BY <1>1, <1>2, <3>3 DEF At, Write, RowOf, RetryWrite, Row
    <3>4. CASE ProgressWrite(t)
      BY <1>1, <1>2, <3>4 DEF At, Write, RowOf, ProgressWrite, Row
    <3>5. CASE FailWrite(t)
      BY <1>1, <1>2, <3>5 DEF At, Write, RowOf, FailWrite, Row
    <3>6. CASE RequeueWrite(t)
      BY <1>1, <1>2, <3>6 DEF At, Write, RowOf, RequeueWrite, Row
    <3> QED BY <1>9, <3>1, <3>2, <3>3, <3>4, <3>5, <3>6
  <2>4. th' = [th EXCEPT ![t] = Idle] \/ th' = [th EXCEPT ![t] = AtPc(now, "fail.check")]
    BY <1>1, <1>9 DEF Return, Goto, Back, CancelWrite, RetryWrite, ProgressWrite, CompleteWrite, FailWrite, RequeueWrite
  <2>5. \A u \in Threads \ {t} : th'[u] = th[u]
    BY <1>2, <2>4
  <2>6. Account(j) => Account(j)'
    <3>1. /\ ~Serves(t, j, RunPCs)
          /\ Serves(t, j, ClosePCs) => pc = "complete.write"
          /\ Serves(t, j, CancelPCs) => pc = "cancel.write"
      BY <1>1, <2>1 DEF Serves, RunPCs, ClosePCs, CancelPCs
    <3> QED BY <1>1, <2>2, <2>3, <2>5, <3>1, OtherWrite
  <2>7. EdgeFits(t)'
    BY <1>1, <1>2, <2>4 DEF EdgeFits, Idle, AtPc, Thread
  <2> QED BY <1>1, <2>2, <2>5, <2>6, <2>7 DEF GoesOn, Submitted
<1> QED BY <1>4, <1>6, <1>7, <1>8, <1>9 DEF Advance

LEMMA RunGoesOn ==
  ASSUME EngineInv, NEW w \in Workers, RunTask(w) \/ WorkReplies(w) \/ WorkRaises(w)
  PROVE  EdgeFits(w)' /\ \E j \in Tasks : GoesOn(w, j)
<1>1. w \in Threads /\ th \in [Threads -> Thread] /\ pool \in Seq(Tasks) /\ th[w] \in Thread
  BY DEF EngineInv, TypeOK, Threads
<1>2. CASE RunTask(w)
  <2>0. PICK j \in Tasks : j = Head(pool)
    BY <1>1, <1>2 DEF RunTask
  <2>1. /\ pool # << >> /\ j = Head(pool) /\ pool' = Tail(pool) /\ UNCHANGED rows /\ th[w].pc = "idle"
        /\ th' = [th EXCEPT ![w] = Serving(j, "work", "none", "none")]
    BY <1>1, <1>2, <2>0 DEF RunTask, At
  <2>2. th'[w].id = j /\ th'[w].pc = "work" /\ \A u \in Threads \ {w} : th'[u] = th[u]
    BY <1>1, <2>1 DEF Serving, Idle
  <2>3. \A i \in Tasks \ {j} : Submitted(i) => Submitted(i)'
    <3> SUFFICES ASSUME NEW i \in Tasks \ {j}, NEW n \in DOMAIN pool, pool[n] = i PROVE Submitted(i)'
      BY DEF Submitted
    <3>1. n # 1 /\ n \in 1 .. Len(pool)
      BY <1>1, <2>1
    <3>2. n - 1 \in DOMAIN pool' /\ pool'[n - 1] = i
      BY <1>1, <2>1, <3>1
    <3> QED BY <3>2 DEF Submitted
  <2>4. Account(j) => Account(j)'
    <3>1. Serves(w, j, RunPCs)' /\ ~Serves(w, j, ClosePCs) /\ ~Serves(w, j, CancelPCs)
      BY <2>1, <2>2 DEF Serves, RunPCs, ClosePCs, CancelPCs
    <3> QED BY <1>1, <2>1, <2>2, <3>1, SameRows
  <2>5. EdgeFits(w)'
    BY <2>2 DEF EdgeFits
  <2>6. GoesOn(w, j)
    BY <2>1, <2>2, <2>3, <2>4 DEF GoesOn
  <2> QED BY <2>1, <2>5, <2>6
<1>3. CASE WorkReplies(w) \/ WorkRaises(w)
  <2>0. PICK j \in Tasks : j = th[w].id
    BY <1>1, <1>3 DEF WorkReplies, WorkRaises, At, Thread
  <2>1. th[w].pc = "work" /\ UNCHANGED <<rows, pool>> /\ j = th[w].id
    BY <1>1, <2>0, <1>3 DEF WorkReplies, WorkRaises, At, Thread
  <2>2. PICK e \in {<<"running", "completed">>, <<"running", "failed">>} :
          th' = [th EXCEPT ![w] = [th[w] EXCEPT !.edge = e, !.pc = IF e[2] = "completed" THEN "complete.cas" ELSE "fail.cas"]]
    BY <1>1, <1>3 DEF WorkReplies, WorkRaises, Meaning, AtPc, Thread
  <2>3. /\ th'[w].id = j /\ th'[w].pc = (IF e[2] = "completed" THEN "complete.cas" ELSE "fail.cas")
        /\ th'[w].edge = e /\ \A u \in Threads \ {w} : th'[u] = th[u]
    BY <1>1, <2>1, <2>2 DEF Thread
  <2>4. EdgeFits(w)'
    BY <2>3 DEF EdgeFits
  <2>5. Account(j) => Account(j)'
    <3>1. Serves(w, j, RunPCs)' /\ ~Serves(w, j, ClosePCs) /\ ~Serves(w, j, CancelPCs)
      BY <2>1, <2>3 DEF Serves, RunPCs, ClosePCs, CancelPCs
    <3> QED BY <1>1, <2>1, <2>3, <3>1, SameRows
  <2>6. GoesOn(w, j)
    BY <2>1, <2>3, <2>5 DEF GoesOn, Submitted
  <2> QED BY <2>1, <2>4, <2>6
<1> QED BY <1>2, <1>3

(* A submission that is lost before its run begins.                        *)
LEMMA LostKeeps ==
  ASSUME NEW w \in Workers, RunLost(w), \A i \in Tasks : Account(i)
  PROVE  \A i \in Tasks : Account(i)'
<1>1. SetupMayFail /\ UNCHANGED <<rows, th>>
  BY DEF RunLost
<1> QED BY <1>1 DEF Account, RunAccount, CloseAccount, CancelAccount, Somebody, Serves

-----------------------------------------------------------------------------
(* The invariant and the theorem.                                          *)

LEMMA AccountStep ==
  ASSUME EngineInv, AccountInv, TransitionTargets = {}, [ENext]_evars
  PROVE  AccountInv'
<1>1. ASSUME NEW t \in Threads, NEW j \in Tasks, crashes' = crashes, EdgeFits(t)',
             crashes = 0 => GoesOn(t, j),
             \A u \in Threads \ {t} : th'[u] = th[u]
      PROVE  AccountInv'
  <2>1. \A u \in Threads : EdgeFits(u)'
    BY <1>1 DEF AccountInv, EdgeFits
  <2>2. ASSUME crashes = 0 PROVE \A i \in Tasks : Account(i)'
    BY <1>1, <2>2, OtherAccounts DEF AccountInv, GoesOn
  <2> QED BY <1>1, <2>1, <2>2 DEF AccountInv
<1>2. TypeOK
  BY DEF EngineInv
<1>3. ASSUME NEW c \in Callers, Serve(c) PROVE AccountInv'
  <2>1. PICK j \in Tasks : \/ CreateTask(c, j) \/ ExecuteTask(c, j) \/ CancelTask(c, j)
                           \/ RetryTask(c, j) \/ UpdateProgress(c, j) \/ TransitionTask(c, j)
    BY <1>3 DEF Serve
  <2>2. GoesOn(c, j) /\ EdgeFits(c)'
    BY <2>1, RequestGoesOn
  <2>3. crashes' = crashes
    BY <2>1 DEF CreateTask, ExecuteTask, CancelTask, RetryTask, UpdateProgress, TransitionTask, Request
  <2> QED BY <1>1, <2>2, <2>3 DEF Threads, GoesOn
<1>4. ASSUME NEW t \in Threads, Advance(t) PROVE AccountInv'
  <2>1. PICK now : now = th[t]
    OBVIOUS
  <2>2. PICK j \in Tasks : j = now.id
    BY <1>2, <1>4, <2>1, AdvanceActive
  <2>3. GoesOn(t, j) /\ EdgeFits(t)'
    BY <1>4, <2>1, <2>2, AdvanceGoesOn DEF AccountInv
  <2>4. crashes' = crashes
    BY <1>4 DEF Advance, CreateLog, ExecuteCas, ExecuteLog, ExecuteSubmit, CancelCas, CancelLog,
         CancelWrite, RetryLog, RetryWrite, ProgressWrite, TransitionCas, TransitionLog, CompleteCas,
         CompleteLog, CompleteWrite, FailCas, FailLog, FailWrite, FailCheck, RequeueCas, RequeueLog,
         RequeueWrite, LogEdge, Write, CasOnly
  <2> QED BY <1>1, <2>3, <2>4 DEF GoesOn
<1>5. ASSUME NEW w \in Workers, Run(w) PROVE AccountInv'
  <2>1. crashes' = crashes
    BY <1>5 DEF Run, RunTask, RunLost, WorkReplies, WorkRaises
  <2>2. CASE RunLost(w)
    <3>1. \A t \in Threads : EdgeFits(t)'
      BY <2>2 DEF RunLost, AccountInv, EdgeFits
    <3>2. crashes = 0 => \A i \in Tasks : Account(i)'
      BY <2>2, LostKeeps DEF AccountInv
    <3> QED BY <2>1, <3>1, <3>2 DEF AccountInv
  <2>3. CASE RunTask(w) \/ WorkReplies(w) \/ WorkRaises(w)
    <3>1. PICK j \in Tasks : GoesOn(w, j) /\ EdgeFits(w)'
      BY <2>3, RunGoesOn
    <3> QED BY <1>1, <2>1, <3>1 DEF Threads, GoesOn
  <2> QED BY <1>5, <2>2, <2>3 DEF Run
<1>6. CASE Crash
  <2>1. crashes' # 0 /\ \A t \in Threads : th'[t] = Idle
    BY <1>2, <1>6 DEF Crash, TypeOK
  <2> QED BY <2>1 DEF AccountInv, EdgeFits, Idle
<1>7. CASE UNCHANGED evars
  <2>1. \A t \in Threads : EdgeFits(t)'
    BY <1>7 DEF evars, AccountInv, EdgeFits
  <2>2. \A i \in Tasks : Account(i) => Account(i)'
    BY <1>7 DEF evars, Account, RunAccount, CloseAccount, CancelAccount, Somebody, Serves, Submitted
  <2> QED BY <1>7, <2>1, <2>2 DEF evars, AccountInv
<1> QED BY <1>3, <1>4, <1>5, <1>6, <1>7 DEF ENext

LEMMA AccountStart == EInit => AccountInv
  BY DEF EInit, AccountInv, EdgeFits, Idle, Account, RunAccount, CloseAccount, CancelAccount, NoRow

LEMMA AccountShows == AccountInv => RunsAccounted
<1> SUFFICES ASSUME AccountInv PROVE RunsAccounted
  OBVIOUS
<1>1. RunningHasRun
  <2> SUFFICES ASSUME crashes = 0, ~SetupMayFail, NEW i \in Tasks, rows[i].status = "running"
               PROVE  EndsRun(i) # {} \/ Submitted(i)
    BY DEF RunningHasRun
  <2>1. Somebody(i, RunPCs) \/ Submitted(i)
    BY DEF AccountInv, Account, RunAccount
  <2> QED BY <2>1 DEF Somebody, Serves, EndsRun, RunPCs
<1>2. EndedIsRecorded
  <2> SUFFICES ASSUME Quiet, NEW i \in Tasks
               PROVE  /\ rows[i].status = "completed" => rows[i].result
                      /\ rows[i].status \in {"completed", "cancelled"} => rows[i].completedAt
    BY DEF EndedIsRecorded
  <2>1. ~Somebody(i, ClosePCs) /\ ~Somebody(i, CancelPCs)
    BY DEF Quiet, Somebody, Serves, ClosePCs, CancelPCs
  <2> QED BY <2>1 DEF Quiet, AccountInv, Account, CloseAccount, CancelAccount
<1> QED BY <1>1, <1>2 DEF RunsAccounted

(* While the process lives, a task that is marked running has a run that   *)
(* will end it, unless workspaces of runs may fail to be written, and a    *)
(* task that has ended has its result and its time as soon as the threads  *)
(* are idle: for any number of requests and of runs of the same task at    *)
(* the same time.                                                          *)
THEOREM RunsAreAccounted ==
  ASSUME TransitionTargets = {}
  PROVE  ESpec => []RunsAccounted
<1>1. EngineInv /\ AccountInv /\ [ENext]_evars => AccountInv'
  BY AccountStep
<1> QED BY <1>1, Invariance, AccountStart, AccountShows, PTL DEF ESpec

-----------------------------------------------------------------------------
(* The record of changes.  A thread owes an event from its change to the insert.        *)
Owes(t, i, e) == th[t].pc \in LogPCs /\ th[t].id = i /\ th[t].edge = e

(* What a step of thread t does to what was changed and what was told of it.   *)
Aside(t)  == /\ th[t].pc \notin LogPCs /\ th'[t].pc \notin LogPCs
             /\ audit' = audit /\ moves' = moves
Moving(t) == \E i \in Tasks, e \in Edge :
               /\ th[t].pc \notin LogPCs /\ Owes(t, i, e)'
               /\ audit' = audit /\ moves' = [moves EXCEPT ![i] = Append(@, e)]
Telling(t) == \E i \in Tasks, e \in Edge :
               /\ Owes(t, i, e) /\ th'[t].pc \notin LogPCs
               /\ moves' = moves /\ audit' = [audit EXCEPT ![i] = Append(@, e)]
Ledger(t) == /\ \A u \in Threads \ {t} : th'[u] = th[u]
             /\ Aside(t) \/ Moving(t) \/ Telling(t)

(* Appending adds one to the count of what is appended.                             *)
LEMMA OneMore ==
  ASSUME NEW s \in Seq(Edge), NEW x, NEW e
  PROVE  /\ Occurrences(e, s) \in Nat
         /\ Occurrences(e, Append(s, x)) = Occurrences(e, s) + (IF x = e THEN 1 ELSE 0)
<1> DEFINE old == {n \in DOMAIN s : s[n] = e}
           new == {n \in DOMAIN Append(s, x) : Append(s, x)[n] = e}
           k   == Len(s) + 1
<1>1. /\ DOMAIN s = 1 .. Len(s) /\ Len(s) \in Nat /\ DOMAIN Append(s, x) = 1 .. k
      /\ Append(s, x)[k] = x /\ \A n \in 1 .. Len(s) : Append(s, x)[n] = s[n]
  OBVIOUS
<1>2. IsFiniteSet(old)
  <2>1. IsFiniteSet(1 .. Len(s))
    BY <1>1, FS_Interval
  <2> QED BY <1>1, <2>1, FS_Subset
<1>3. new = (IF x = e THEN old \cup {k} ELSE old) /\ k \notin old
  BY <1>1
<1>4. Cardinality(old) \in Nat /\ Cardinality(old \cup {k}) = Cardinality(old) + 1
  BY <1>2, <1>3, FS_CardinalityType, FS_AddElement
<1>5. Occurrences(e, s) = Cardinality(old) /\ Occurrences(e, Append(s, x)) = Cardinality(new)
  BY DEF Occurrences
<1> HIDE DEF old, new, k
<1> QED BY <1>3, <1>4, <1>5

(* What is owed of a change can be counted.                                         *)
LEMMA DebtsAreFinite == \A i, e : IsFiniteSet(Unlogged(i, e)) /\ Cardinality(Unlogged(i, e)) \in Nat
BY ThreadsAreFinite, FS_Subset, FS_CardinalityType DEF Unlogged

(* The debts of one thread change.                                             *)
LEMMA Debts ==
  ASSUME NEW t \in Threads, \A u \in Threads \ {t} : th'[u] = th[u], NEW i, NEW e
  PROVE  /\ (Owes(t, i, e)' <=> Owes(t, i, e))
              => Cardinality(Unlogged(i, e)') = Cardinality(Unlogged(i, e))
         /\ Owes(t, i, e)' /\ ~Owes(t, i, e)
              => Cardinality(Unlogged(i, e)') = Cardinality(Unlogged(i, e)) + 1
         /\ ~Owes(t, i, e)' /\ Owes(t, i, e)
              => Cardinality(Unlogged(i, e)') = Cardinality(Unlogged(i, e)) - 1
<1>1. PICK A, B : A = Unlogged(i, e)' /\ B = Unlogged(i, e)
  OBVIOUS
<1>2. /\ (Owes(t, i, e)' <=> Owes(t, i, e)) => A = B
      /\ Owes(t, i, e)' /\ ~Owes(t, i, e) => A = B \cup {t} /\ t \notin B
      /\ ~Owes(t, i, e)' /\ Owes(t, i, e) => A = B \ {t} /\ t \in B
  BY <1>1 DEF Unlogged, Owes
<1>3. IsFiniteSet(B) /\ Cardinality(B) \in Nat
  BY <1>1, DebtsAreFinite
<1> QED BY <1>1, <1>2, <1>3, FS_AddElement, FS_RemoveElement

(* A step that does one of the three things keeps the accounts.                      *)
LEMMA LedgerKeeps ==
  ASSUME TypeOK, AuditSound, NEW t \in Threads, Ledger(t), crashes' = crashes
  PROVE  AuditSound'
<1> SUFFICES ASSUME NEW i \in Tasks, NEW e \in Edge
             PROVE  LET told == Occurrences(e, audit'[i]) + Cardinality(Unlogged(i, e)')
                        made == Occurrences(e, moves'[i])
                    IN  told <= made /\ (crashes' = 0 => told = made)
  BY DEF AuditSound
<1>1. PICK told, owed, made \in Nat :
        /\ told = Occurrences(e, audit[i]) /\ owed = Cardinality(Unlogged(i, e))
        /\ made = Occurrences(e, moves[i])
  BY OneMore, DebtsAreFinite DEF TypeOK
<1>2. told + owed <= made /\ (crashes = 0 => told + owed = made)
  BY <1>1 DEF AuditSound
<1>3. \A u \in Threads \ {t} : th'[u] = th[u]
  BY DEF Ledger
<1>4. audit[i] \in Seq(Edge) /\ moves[i] \in Seq(Edge)
  BY DEF TypeOK
<1>8. crashes' = crashes
  OBVIOUS
<1>5. CASE Aside(t)
  <2>1. Cardinality(Unlogged(i, e)') = owed
    BY <1>1, <1>3, <1>5, Debts DEF Aside, Owes
  <2> QED BY <1>1, <1>2, <1>5, <2>1 DEF Aside
<1>6. CASE Moving(t)
  <2>1. PICK j \in Tasks, x \in Edge :
          /\ th[t].pc \notin LogPCs /\ Owes(t, j, x)'
          /\ audit' = audit /\ moves' = [moves EXCEPT ![j] = Append(@, x)]
    BY <1>6 DEF Moving
  <2>2. ~Owes(t, i, e) /\ (Owes(t, i, e)' <=> i = j /\ e = x)
    BY <2>1 DEF Owes
  <2>3. CASE i = j /\ e = x
    <3>1. Cardinality(Unlogged(i, e)') = owed + 1
      BY <1>1, <1>3, <2>2, <2>3, Debts
    <3>2. moves'[i] = Append(moves[i], x)
      BY <2>1, <2>3 DEF TypeOK
    <3>3. Occurrences(e, moves'[i]) = made + 1
      BY <1>1, <1>4, <2>3, <3>2, OneMore
    <3>4. Occurrences(e, audit'[i]) = told
      BY <1>1, <2>1
    <3> QED BY <1>2, <1>8, <3>1, <3>3, <3>4
  <2>4. CASE ~(i = j /\ e = x)
    <3>1. Cardinality(Unlogged(i, e)') = owed
      BY <1>1, <1>3, <2>2, <2>4, Debts
    <3>2. moves'[i] = IF i = j THEN Append(moves[i], x) ELSE moves[i]
      BY <2>1 DEF TypeOK
    <3>3. Occurrences(e, moves'[i]) = made
      BY <1>1, <1>4, <2>4, <3>2, OneMore
    <3> QED BY <1>1, <1>2, <2>1, <3>1, <3>3
  <2> QED BY <2>3, <2>4
<1>7. CASE Telling(t)
  <2>1. PICK j \in Tasks, x \in Edge :
          /\ Owes(t, j, x) /\ th'[t].pc \notin LogPCs
          /\ moves' = moves /\ audit' = [audit EXCEPT ![j] = Append(@, x)]
    BY <1>7 DEF Telling
  <2>2. ~Owes(t, i, e)' /\ (Owes(t, i, e) <=> i = j /\ e = x)
    BY <2>1 DEF Owes
  <2>3. CASE i = j /\ e = x
    <3>1. Cardinality(Unlogged(i, e)') = owed - 1
      BY <1>1, <1>3, <2>2, <2>3, Debts
    <3>2. audit'[i] = Append(audit[i], x)
      BY <2>1, <2>3 DEF TypeOK
    <3>3. Occurrences(e, audit'[i]) = told + 1
      BY <1>1, <1>4, <2>3, <3>2, OneMore
    <3> QED BY <1>1, <1>2, <2>1, <3>1, <3>3
  <2>4. CASE ~(i = j /\ e = x)
    <3>1. Cardinality(Unlogged(i, e)') = owed
      BY <1>1, <1>3, <2>2, <2>4, Debts
    <3>2. audit'[i] = IF i = j THEN Append(audit[i], x) ELSE audit[i]
      BY <2>1 DEF TypeOK
    <3>3. Occurrences(e, audit'[i]) = told
      BY <1>1, <1>4, <2>4, <3>2, OneMore
    <3> QED BY <1>1, <1>2, <2>1, <3>1, <3>3
  <2> QED BY <2>3, <2>4
<1> QED BY <1>5, <1>6, <1>7 DEF Ledger

(* A compare-and-set that wins is a change that is yet to be told.             *)
LEMMA CasLedger ==
  ASSUME TypeOK, NEW t \in Threads, th[t].pc \notin LogPCs, NEW s \in Thread, s.id \in Tasks,
         s.ret = "idle", NEW won \in LogPCs, Cas(t, s, won), audit' = audit
  PROVE  Ledger(t)
<1>1. s.edge \in Edge
  BY DEF Thread
<1>2. CASE rows[s.id].status = s.edge[1]
  <2>1. /\ th' = [th EXCEPT ![t] = AtPc(s, won)]
        /\ moves' = [moves EXCEPT ![s.id] = Append(@, s.edge)]
    BY <1>2 DEF Cas
  <2>2. th'[t].pc = won /\ th'[t].id = s.id /\ th'[t].edge = s.edge
    BY <2>1, AtPcKeeps DEF TypeOK
  <2>3. Moving(t)
    BY <1>1, <2>1, <2>2 DEF Moving, Owes
  <2> QED BY <2>1, <2>3 DEF Ledger, TypeOK
<1>3. CASE rows[s.id].status # s.edge[1]
  <2>1. th' = [th EXCEPT ![t] = Idle] /\ moves' = moves
    BY <1>3 DEF Cas, Back
  <2>2. th'[t].pc \notin LogPCs
    BY <2>1 DEF Idle, LogPCs, TypeOK
  <2> QED BY <2>1, <2>2 DEF Ledger, Aside, TypeOK
<1> QED BY <1>2, <1>3

(* A thread that goes on elsewhere than to an event it has to insert.          *)
LEMMA AsideLedger ==
  ASSUME TypeOK, NEW t \in Threads, th[t].pc \notin LogPCs, UNCHANGED <<audit, moves>>,
         NEW s, s.pc \notin LogPCs, th' = [th EXCEPT ![t] = s]
  PROVE  Ledger(t)
BY DEF Ledger, Aside, TypeOK

(* Requests, the rest of what they do, and the workers.                              *)
LEMMA ServeLedger ==
  ASSUME TypeOK, NEW c \in Callers, NEW i \in Tasks,
         \/ CreateTask(c, i) \/ ExecuteTask(c, i) \/ CancelTask(c, i)
         \/ RetryTask(c, i)  \/ UpdateProgress(c, i) \/ TransitionTask(c, i)
  PROVE  Ledger(c) /\ crashes' = crashes
<1>1. c \in Threads /\ th[c].pc \notin LogPCs /\ crashes' = crashes /\ rows[i] \in Row
  BY DEF CreateTask, ExecuteTask, CancelTask, RetryTask, UpdateProgress, TransitionTask, Request, At,
         LogPCs, Threads, TypeOK
<1>2. CASE CreateTask(c, i)
  <2> DEFINE s == Serving(i, "create.log", "none", "pending")
             x == <<"none", "pending">>
  <2>1. x \in Edge
    BY Names DEF Edge
  <2>2. /\ th' = [th EXCEPT ![c] = s] /\ moves' = [moves EXCEPT ![i] = Append(@, x)]
        /\ audit' = audit
    BY <1>2 DEF CreateTask
  <2>3. s.pc = "create.log" /\ s.id = i /\ s.edge = x
    BY DEF Serving, Idle
  <2> HIDE DEF s, x
  <2>4. th'[c] = s
    BY <1>1, <2>2 DEF TypeOK
  <2>5. Owes(c, i, x)'
    BY <2>3, <2>4 DEF Owes, LogPCs
  <2>6. Moving(c)
    BY <1>1, <2>1, <2>2, <2>5 DEF Moving
  <2> QED BY <1>1, <2>2, <2>6 DEF Ledger, TypeOK
<1>3. CASE ExecuteTask(c, i)
  <2>1. PICK s : /\ th' = [th EXCEPT ![c] = s]
                 /\ s = Serving(i, IF rows[i].status = "pending" THEN "execute.cas"
                                   ELSE "execute.submit", "pending", "running")
    BY <1>3 DEF ExecuteTask
  <2>2. s.pc \notin LogPCs
    BY <2>1 DEF Serving, Idle, LogPCs
  <2> QED BY <1>1, <1>3, <2>1, <2>2, AsideLedger DEF ExecuteTask
<1>4. CASE CancelTask(c, i)
  <2>1. PICK s : /\ th' = [th EXCEPT ![c] = s]
                 /\ s = Serving(i, "cancel.cas", rows[i].status, "cancelled")
    BY <1>4 DEF CancelTask
  <2>2. s.pc \notin LogPCs
    BY <2>1 DEF Serving, Idle, LogPCs
  <2> QED BY <1>1, <1>4, <2>1, <2>2, AsideLedger DEF CancelTask
<1>5. CASE RetryTask(c, i)
  <2>1. "retry.log" \in PC /\ "failed" \in AnyStatus /\ "pending" \in AnyStatus
    BY Names
  <2>2. PICK s \in Thread : /\ Cas(c, s, "retry.log") /\ s.id = i /\ s.ret = "idle"
    BY <1>5, <2>1, ServingType DEF RetryTask
  <2>3. "retry.log" \in LogPCs
    BY DEF LogPCs
  <2> QED BY <1>1, <1>5, <2>2, <2>3, CasLedger DEF RetryTask
<1>6. CASE UpdateProgress(c, i)
  <2>1. PICK p, s : /\ th' = [th EXCEPT ![c] = s]
                    /\ s = Reading(Serving(i, "progress.write", "none", "none"), p)
    BY <1>6 DEF UpdateProgress
  <2>2. s.pc \notin LogPCs
    BY <2>1 DEF Serving, Reading, Idle, LogPCs
  <2> QED BY <1>1, <1>6, <2>1, <2>2, AsideLedger DEF UpdateProgress
<1>7. CASE TransitionTask(c, i)
  <2>1. PICK x, s : /\ th' = [th EXCEPT ![c] = s]
                    /\ s = Serving(i, "transition.cas", rows[i].status, x)
    BY <1>7 DEF TransitionTask
  <2>2. s.pc \notin LogPCs
    BY <2>1 DEF Serving, Idle, LogPCs
  <2> QED BY <1>1, <1>7, <2>1, <2>2, AsideLedger DEF TransitionTask
<1> QED BY <1>1, <1>2, <1>3, <1>4, <1>5, <1>6, <1>7

LEMMA AdvanceLedger ==
  ASSUME EngineInv, NEW t \in Threads, Advance(t)
  PROVE  Ledger(t) /\ crashes' = crashes
<1>1. /\ TypeOK /\ th[t] \in Thread /\ th[t].id \in Tasks /\ th[t].ret = "idle"
      /\ th[t].edge \in Edge
  BY AdvanceActive DEF EngineInv, ThreadOK, Thread
<1>2. crashes' = crashes
  BY DEF Advance, CreateLog, ExecuteCas, ExecuteLog, ExecuteSubmit, CancelCas, CancelLog,
       CancelWrite, RetryLog, RetryWrite, ProgressWrite, TransitionCas, TransitionLog, CompleteCas,
       CompleteLog, CompleteWrite, FailCas, FailLog, FailWrite, FailCheck, RequeueCas, RequeueLog,
       RequeueWrite, LogEdge, Write, CasOnly
<1>3. CASE \/ CreateLog(t) \/ TransitionLog(t) \/ ExecuteLog(t) \/ CancelLog(t) \/ RetryLog(t)
           \/ CompleteLog(t) \/ FailLog(t) \/ RequeueLog(t)
  <2>1. th[t].pc \in LogPCs /\ LogEdge(t)
    BY <1>3 DEF CreateLog, TransitionLog, ExecuteLog, CancelLog, RetryLog, CompleteLog, FailLog,
         RequeueLog, At, LogPCs
  <2>2. PICK s : th' = [th EXCEPT ![t] = s] /\ s.pc \notin LogPCs
    <3>1. CASE CreateLog(t) \/ TransitionLog(t)
      <4>1. th' = [th EXCEPT ![t] = Idle]
        BY <1>1, <3>1 DEF CreateLog, TransitionLog, Return, Back
      <4>2. Idle.pc \notin LogPCs
        BY DEF Idle, LogPCs
      <4> QED BY <4>1, <4>2
    <3>2. CASE \/ ExecuteLog(t) \/ CancelLog(t) \/ RetryLog(t) \/ CompleteLog(t) \/ FailLog(t)
               \/ RequeueLog(t)
      <4>1. PICK pc : pc \notin LogPCs /\ Goto(t, pc)
        BY <3>2 DEF ExecuteLog, CancelLog, RetryLog, CompleteLog, FailLog, RequeueLog, LogPCs
      <4> QED BY <1>1, <4>1, AtPcKeeps DEF Goto
    <3> QED BY <1>3, <3>1, <3>2
  <2>3. Telling(t)
    BY <1>1, <2>1, <2>2 DEF Telling, Owes, LogEdge, TypeOK
  <2> QED BY <1>1, <1>2, <2>2, <2>3 DEF Ledger, TypeOK
<1>4. CASE \/ ExecuteCas(t) \/ CancelCas(t) \/ TransitionCas(t) \/ CompleteCas(t) \/ FailCas(t)
           \/ RequeueCas(t)
  <2>1. th[t].pc \notin LogPCs /\ audit' = audit /\ \E won \in LogPCs : Cas(t, th[t], won)
    BY <1>4 DEF ExecuteCas, CancelCas, TransitionCas, CompleteCas, FailCas, RequeueCas, At, LogPCs,
         CasOnly
  <2> QED BY <1>1, <1>2, <2>1, CasLedger
<1>5. CASE \/ ExecuteSubmit(t) \/ CancelWrite(t) \/ RetryWrite(t) \/ ProgressWrite(t)
           \/ CompleteWrite(t) \/ RequeueWrite(t)
  <2>1. th[t].pc \notin LogPCs /\ UNCHANGED <<audit, moves>>
    BY <1>5 DEF ExecuteSubmit, CancelWrite, RetryWrite, ProgressWrite, CompleteWrite, RequeueWrite,
         At, LogPCs, Write
  <2>2. th' = [th EXCEPT ![t] = Idle]
    BY <1>1, <1>5 DEF ExecuteSubmit, CancelWrite, RetryWrite, ProgressWrite, CompleteWrite,
         RequeueWrite, Return, Back
  <2>3. Idle.pc \notin LogPCs
    BY DEF Idle, LogPCs
  <2> QED BY <1>1, <1>2, <2>1, <2>2, <2>3, AsideLedger
<1>6. CASE FailWrite(t)
  <2>1. /\ th[t].pc \notin LogPCs /\ UNCHANGED <<audit, moves>> /\ Goto(t, "fail.check")
        /\ "fail.check" \notin LogPCs
    BY <1>6 DEF FailWrite, Write, At, LogPCs
  <2>2. AtPc(th[t], "fail.check").pc \notin LogPCs
    BY <1>1, <2>1, AtPcKeeps
  <2>3. PICK s : th' = [th EXCEPT ![t] = s] /\ s.pc \notin LogPCs
    BY <2>1, <2>2 DEF Goto
  <2> QED BY <1>1, <1>2, <2>1, <2>3, AsideLedger
<1>7. CASE FailCheck(t)
  <2>1. th[t].pc \notin LogPCs /\ UNCHANGED <<audit, moves>>
    BY <1>7 DEF FailCheck, At, LogPCs
  <2>2. PICK s : th' = [th EXCEPT ![t] = s] /\ s.pc \notin LogPCs
    <3>1. CASE Return(t)
      <4>1. th' = [th EXCEPT ![t] = Idle]
        BY <1>1, <3>1 DEF Return, Back
      <4>2. Idle.pc \notin LogPCs
        BY DEF Idle, LogPCs
      <4> QED BY <4>1, <4>2
    <3>2. CASE ~Return(t)
      <4>1. PICK m \in Thread : th' = [th EXCEPT ![t] = AtPc(m, "requeue.cas")]
        <5>1. Meaning(t, "failed", "pending") \in Thread
          BY <1>1, MeaningType, Names
        <5>2. RowOf(t).retries \in Nat
          BY <1>1 DEF TypeOK, RowOf, Row
        <5>3. Reading(Meaning(t, "failed", "pending"), RowOf(t).retries) \in Thread
          BY <5>1, <5>2, ReadingType
        <5>4. th' = [th EXCEPT ![t] =
                AtPc(Reading(Meaning(t, "failed", "pending"), RowOf(t).retries), "requeue.cas")]
          BY <1>7, <3>2 DEF FailCheck
        <5> QED BY <5>3, <5>4
      <4>2. AtPc(m, "requeue.cas").pc \notin LogPCs
        BY AtPcKeeps DEF LogPCs
      <4> QED BY <4>1, <4>2
    <3> QED BY <3>1, <3>2
  <2> QED BY <1>1, <1>2, <2>1, <2>2, AsideLedger
<1> QED BY <1>3, <1>4, <1>5, <1>6, <1>7 DEF Advance

LEMMA RunLedger ==
  ASSUME TypeOK, NEW w \in Workers, Run(w)
  PROVE  Ledger(w) /\ crashes' = crashes
<1>1. w \in Threads /\ th[w].pc \notin LogPCs /\ crashes' = crashes /\ UNCHANGED <<audit, moves>>
  BY DEF Run, RunTask, RunLost, WorkReplies, WorkRaises, At, LogPCs, Threads
<1>2. CASE RunTask(w)
  <2>1. PICK s : s = Serving(Head(pool), "work", "none", "none") /\ th' = [th EXCEPT ![w] = s]
    BY <1>2 DEF RunTask
  <2>2. s.pc \notin LogPCs
    BY <2>1 DEF Serving, Idle, LogPCs
  <2> QED BY <1>1, <2>1, <2>2, AsideLedger
<1>3. CASE RunLost(w)
  BY <1>1, <1>3 DEF RunLost, Ledger, Aside
<1>4. CASE WorkReplies(w) \/ WorkRaises(w)
  <2>1. PICK m \in Thread, pc \in PC : /\ pc \notin LogPCs /\ th' = [th EXCEPT ![w] = AtPc(m, pc)]
    BY <1>1, <1>4, MeaningType, Names DEF WorkReplies, WorkRaises, LogPCs
  <2>2. AtPc(m, pc).pc \notin LogPCs
    BY <2>1, AtPcKeeps
  <2> QED BY <1>1, <2>1, <2>2, AsideLedger
<1> QED BY <1>2, <1>3, <1>4 DEF Run

LEMMA AuditStart == EInit => AuditSound
<1> SUFFICES ASSUME EInit, NEW i \in Tasks, NEW e \in Edge
             PROVE  Occurrences(e, audit[i]) + Cardinality(Unlogged(i, e)) = Occurrences(e, moves[i])
                    /\ Occurrences(e, moves[i]) \in Nat
  BY DEF AuditSound
<1>1. Unlogged(i, e) = {} /\ audit[i] = moves[i] /\ audit[i] \in Seq(Edge)
  BY DEF EInit, Unlogged, Idle, LogPCs
<1>2. Cardinality(Unlogged(i, e)) = 0 /\ Occurrences(e, audit[i]) \in Nat
  BY <1>1, OneMore, FS_EmptySet
<1> QED BY <1>1, <1>2

LEMMA AuditStep == EngineInv /\ AuditSound /\ [ENext]_evars => AuditSound'
<1> SUFFICES ASSUME EngineInv, AuditSound, [ENext]_evars PROVE AuditSound'
  OBVIOUS
<1>1. TypeOK
  BY DEF EngineInv
<1>2. ASSUME NEW c \in Callers, Serve(c) PROVE AuditSound'
  BY <1>1, <1>2, ServeLedger, LedgerKeeps DEF Serve, Threads
<1>3. ASSUME NEW t \in Threads, Advance(t) PROVE AuditSound'
  BY <1>1, <1>3, AdvanceLedger, LedgerKeeps
<1>4. ASSUME NEW w \in Workers, Run(w) PROVE AuditSound'
  BY <1>1, <1>4, RunLedger, LedgerKeeps DEF Threads
<1>5. CASE Crash
  <2> SUFFICES ASSUME NEW i \in Tasks, NEW e \in Edge
               PROVE  /\ crashes' # 0
                      /\ Occurrences(e, audit'[i]) + Cardinality(Unlogged(i, e)')
                           <= Occurrences(e, moves'[i])
    BY DEF AuditSound
  <2>1. Unlogged(i, e)' = {} /\ UNCHANGED <<audit, moves>> /\ crashes' # 0
    BY <1>1, <1>5 DEF Crash, Unlogged, Idle, LogPCs, TypeOK
  <2>2. PICK debt : debt = Unlogged(i, e)'
    OBVIOUS
  <2>3. Cardinality(debt) = 0
    BY <2>1, <2>2, FS_EmptySet
  <2>4. PICK told, owed, made \in Nat :
          /\ told = Occurrences(e, audit[i]) /\ owed = Cardinality(Unlogged(i, e))
          /\ made = Occurrences(e, moves[i])
    BY <1>1, OneMore, DebtsAreFinite DEF TypeOK
  <2>5. told + owed <= made
    BY <2>4 DEF AuditSound
  <2> QED BY <2>1, <2>2, <2>3, <2>4, <2>5
<1>6. CASE UNCHANGED evars
  <2>1. \A i, e : Unlogged(i, e)' = Unlogged(i, e)
    BY <1>6 DEF evars, Unlogged
  <2> QED BY <1>6, <2>1 DEF evars, AuditSound
<1> QED BY <1>2, <1>3, <1>4, <1>5, <1>6 DEF ENext

(* For any number of tasks and threads: each change of a status is told once in the    *)
(* record of the task's events, or its thread is still on its way to the insert, and     *)
(* only a restart loses one (core/task_engine.py: a change is a compare-and-set, the      *)
(* event an insert after it).                                                  *)
THEOREM AuditIsSound == ESpec => []AuditSound
BY Invariance, AuditStart, AuditStep, PTL DEF ESpec
=============================================================================
