---------------------------- MODULE PlatformTasks ----------------------------
(***************************************************************************)
(* Tasks that the platform assigns and cancels (ws/handlers.py), the        *)
(* threads that run them, and the answers on their way through the send      *)
(* queue of ws/client.py.                                                   *)
(*                                                                         *)
(* The receive loop hands one message at a time to its handler, which waits   *)
(* for threads between its steps.  When the connection breaks the loop is      *)
(* cancelled, and with it the handler wherever it waits; runs and the queue    *)
(* survive.  A row's steps in the engine beyond its status are TaskEngine's.   *)
(***************************************************************************)
EXTENDS Integers, Sequences, FiniteSets

CONSTANTS PIds,        \* tasks of the platform, whose ids are those of the rows
          Runs,        \* threads that run them
          RetryLimit,  \* max_retries, 3 in the code
          MaxMessages, \* bound on the messages received
          MaxCuts,     \* bound on broken connections
          MaxKills     \* bound on restarts

ASSUME PlatformTaskConstants == /\ IsFiniteSet(Runs) /\ RetryLimit \in Nat /\ MaxMessages \in Nat
                                /\ MaxCuts \in Nat /\ MaxKills \in Nat

RowStates == {"none", "pending", "running", "completed", "failed", "cancelled"}
Outcomes  == {"SUCCESS", "REVISION_NEEDED", "BLOCKED", "blocked"}
NoId      == "no id"
ASSUME NoIdIsNone == NoId \notin PIds

FreeHand  == [op |-> "idle", id |-> NoId, seen |-> "none"]
FreeRun   == [at |-> "none", id |-> NoId, res |-> "SUCCESS"]

VARIABLES
  task,     \* the rows: status, tries, and whether progress is 100
  hand,     \* the message being handled: stage, task, status it has read
  run,      \* the threads: stage, task, result
  wire,     \* answers sent and not yet with the platform
  told,     \* answers the platform has got for a task
  starts, gone,    \* history: runs started, answers that will never come
  stranded,        \* history: rows left running by a broken handler or failure
  received, cuts, kills

workVars == <<task, hand, run, wire, told, starts, gone, stranded, received, cuts, kills>>

PlatformIdle ==
  /\ task = [i \in PIds |-> [st |-> "none", tries |-> 0, full |-> FALSE]]
  /\ hand = FreeHand /\ run = [r \in Runs |-> FreeRun]
  /\ wire = << >> /\ told = [i \in PIds |-> << >>]
  /\ starts = [i \in PIds |-> 0] /\ gone = [i \in PIds |-> 0]
  /\ stranded = {} /\ received = 0 /\ cuts = 0 /\ kills = 0

---------------------------------------------------------------------------
(* The handlers.                                                            *)

OnlyHand(h) == /\ hand' = h
               /\ UNCHANGED <<task, run, wire, told, starts, gone, stranded, cuts, kills>>
HandTo(op)  == [hand EXCEPT !.op = op]

Receive(i, op) == /\ hand.op = "idle" /\ received < MaxMessages
                  /\ received' = received + 1
                  /\ OnlyHand([FreeHand EXCEPT !.op = op, !.id = i])

(* _handle_platform_task_assign: directories and the clone, which may fail     *)
(* (the first ends the handler); then the row, if there is none yet.          *)
Prepare == /\ hand.op = "prepare" /\ (OnlyHand(HandTo("create")) \/ OnlyHand(FreeHand))
           /\ UNCHANGED received

SetRow(i, s) == task' = [task EXCEPT ![i].st = s]

CreateRow == /\ hand.op = "create" /\ hand' = HandTo("start")
             /\ IF task[hand.id].st = "none" THEN SetRow(hand.id, "pending") ELSE UNCHANGED task
             /\ UNCHANGED <<run, wire, told, starts, gone, stranded, received, cuts, kills>>

(* start_task: pending becomes running, anything else ends the handler         *)
(* without a word to the platform.                                          *)
StartAgain ==   \* Mutant: a row that is running is started once more
  /\ hand.op = "start" /\ task[hand.id].st \in {"pending", "running"}
  /\ SetRow(hand.id, "running") /\ hand' = HandTo("submit")
  /\ starts' = [starts EXCEPT ![hand.id] = @ + 1]
  /\ UNCHANGED <<run, wire, told, gone, stranded, received, cuts, kills>>

StartRow ==
  /\ hand.op = "start" /\ task[hand.id].st = "pending"
  /\ SetRow(hand.id, "running") /\ hand' = HandTo("submit")
  /\ starts' = [starts EXCEPT ![hand.id] = @ + 1]
  /\ UNCHANGED <<run, wire, told, gone, stranded, received, cuts, kills>>

NotStarted == /\ hand.op = "start" /\ task[hand.id].st # "pending"
              /\ OnlyHand(FreeHand) /\ UNCHANGED received

Submit(r) == /\ hand.op = "submit" /\ run[r].at = "none"
             /\ run' = [run EXCEPT ![r] = [FreeRun EXCEPT !.at = "execute", !.id = hand.id]]
             /\ hand' = FreeHand
             /\ UNCHANGED <<task, wire, told, starts, gone, stranded, received, cuts, kills>>

(* _handle_platform_task_cancel: look the row up, read its status, and change   *)
(* it if it still has that status.                                          *)
LookUp == /\ hand.op = "list" /\ UNCHANGED received
          /\ OnlyHand(IF task[hand.id].st = "none" THEN FreeHand ELSE HandTo("get"))

ReadStatus == /\ hand.op = "get" /\ UNCHANGED received
              /\ OnlyHand(IF task[hand.id].st \in {"pending", "running"}
                          THEN [HandTo("cas") EXCEPT !.seen = task[hand.id].st] ELSE FreeHand)

CancelRow == /\ hand.op = "cas" /\ hand' = FreeHand
             /\ IF task[hand.id].st = hand.seen THEN SetRow(hand.id, "cancelled") ELSE UNCHANGED task
             /\ UNCHANGED <<run, wire, told, starts, gone, stranded, received, cuts, kills>>

Handler == \/ \E i \in PIds : Receive(i, "prepare") \/ Receive(i, "list")
           \/ Prepare \/ CreateRow \/ StartRow \/ NotStarted \/ (\E r \in Runs : Submit(r))
           \/ LookUp \/ ReadStatus \/ CancelRow
---------------------------------------------------------------------------
(* _execute_task, on its thread.  The executors turn every exception into a    *)
(* result, so that what can raise are the engine's writes.                    *)

RunTo(r, stage)  == run' = [run EXCEPT ![r].at = stage]
RunOf(r)         == task[run[r].id].st
KeepRun          == UNCHANGED <<hand, starts, received, cuts, kills>>
NoAnswer         == UNCHANGED <<wire, told, gone, stranded>>

Execute(r) == /\ run[r].at = "execute"
              /\ \E res \in Outcomes \ {"blocked"} :
                   run' = [run EXCEPT ![r].at = "complete", ![r].res = res]
              /\ UNCHANGED task /\ KeepRun /\ NoAnswer

(* complete_task: whether the row was still running is not looked at.         *)
CompleteRow(r) ==
  /\ run[r].at = "complete" /\ RunTo(r, "full")
  /\ IF RunOf(r) = "running" THEN SetRow(run[r].id, "completed") ELSE UNCHANGED task
  /\ KeepRun /\ NoAnswer

FillProgress(r) ==
  /\ run[r].at = "full" /\ RunTo(r, "send")
  /\ task' = [task EXCEPT ![run[r].id].full = TRUE]
  /\ KeepRun /\ NoAnswer

WriteRaises(r) == /\ run[r].at \in {"complete", "full"} /\ RunTo(r, "fail")
                  /\ UNCHANGED task /\ KeepRun /\ NoAnswer

Answer(r, what) == /\ wire' = Append(wire, [id |-> run[r].id, what |-> what])
                   /\ run' = [run EXCEPT ![r] = FreeRun]
                   /\ UNCHANGED <<task, told, gone, stranded>> /\ KeepRun

BlockedUnsaid(r) ==   \* Mutant: a failure is written and not told
  /\ run[r].at = "blocked" /\ run' = [run EXCEPT ![r] = FreeRun]
  /\ UNCHANGED <<task, wire, told, gone, stranded>> /\ KeepRun

SendResult(r)  == run[r].at = "send" /\ Answer(r, run[r].res)
SendBlocked(r) == run[r].at = "blocked" /\ Answer(r, "blocked")

(* fail_task: running becomes failed, and pending again while tries are left;   *)
(* nothing runs the row again until it is assigned or executed anew.          *)
FailRow(r) ==
  /\ run[r].at = "fail"
  /\ IF RunOf(r) = "running" THEN SetRow(run[r].id, "failed") /\ RunTo(r, "requeue")
     ELSE UNCHANGED task /\ RunTo(r, "blocked")
  /\ KeepRun /\ NoAnswer

Requeue(r) ==
  /\ run[r].at = "requeue" /\ RunTo(r, "blocked")
  /\ IF RunOf(r) = "failed" /\ task[run[r].id].tries < RetryLimit
     THEN task' = [task EXCEPT ![run[r].id].st = "pending", ![run[r].id].tries = @ + 1]
     ELSE UNCHANGED task
  /\ KeepRun /\ NoAnswer

(* A second exception leaves the thread without an answer.                    *)
FailRaises(r) ==
  /\ run[r].at \in {"fail", "requeue"}
  /\ run' = [run EXCEPT ![r] = FreeRun]
  /\ gone' = [gone EXCEPT ![run[r].id] = @ + 1]
  /\ stranded' = IF RunOf(r) = "running" THEN stranded \cup {run[r].id} ELSE stranded
  /\ UNCHANGED <<task, wire, told>> /\ KeepRun

RunStep(r) == \/ Execute(r) \/ CompleteRow(r) \/ FillProgress(r) \/ WriteRaises(r)
              \/ SendResult(r) \/ SendBlocked(r) \/ FailRow(r) \/ Requeue(r) \/ FailRaises(r)
---------------------------------------------------------------------------
(* The connection and the process.                                          *)

Deliver == /\ wire # << >> /\ wire' = Tail(wire)
           /\ told' = [told EXCEPT ![Head(wire).id] = Append(@, Head(wire).what)]
           /\ UNCHANGED <<task, hand, run, starts, gone, stranded, received, cuts, kills>>

(* The connection breaks: the message being sent is lost, the others wait for   *)
(* the next connection, and the handler is cancelled where it waits.           *)
Cut == /\ cuts < MaxCuts /\ cuts' = cuts + 1
       /\ LET lost == IF wire = << >> THEN {} ELSE {Head(wire).id}
              left == IF hand.op = "submit" THEN {hand.id} ELSE {} IN
          /\ wire' = IF wire = << >> THEN wire ELSE Tail(wire)
          /\ gone' = [i \in PIds |-> gone[i] + (IF i \in lost THEN 1 ELSE 0)
                                            + (IF i \in left THEN 1 ELSE 0)]
          /\ stranded' = stranded \cup left
       /\ hand' = FreeHand
       /\ UNCHANGED <<task, run, told, starts, received, kills>>

RunningFor(i)  == {r \in Runs : run[r].id = i}
OnWire(i)      == Cardinality({n \in DOMAIN wire : wire[n].id = i})
Submitting(i)  == IF hand.op = "submit" /\ hand.id = i THEN 1 ELSE 0

Kill == /\ kills < MaxKills /\ kills' = kills + 1
        /\ gone' = [i \in PIds |-> gone[i] + Cardinality(RunningFor(i)) + OnWire(i) + Submitting(i)]
        /\ stranded' = stranded \cup {i \in PIds : task[i].st = "running"}
        /\ run' = [r \in Runs |-> FreeRun] /\ hand' = FreeHand /\ wire' = << >>
        /\ UNCHANGED <<task, told, starts, received, cuts>>

PlatformNext == Handler \/ (\E r \in Runs : RunStep(r)) \/ Deliver \/ Cut \/ Kill
---------------------------------------------------------------------------
(* Every run of an assigned task is answered once: no start is without an      *)
(* answer on its way, at the platform, or lost for a reason that is named, and  *)
(* none is answered twice, however often a task is assigned and cancelled.     *)
RunsAnswered ==
  \A i \in PIds : starts[i] = Submitting(i) + Cardinality(RunningFor(i))
                              + OnWire(i) + Len(told[i]) + gone[i]

(* A row is running exactly while one thread is on its way with it that will    *)
(* end it, and no two threads execute one task, whatever is assigned again or   *)
(* cancelled; a cancelled row is not taken up again.                          *)
Holding(i)  == {r \in Runs : run[r].id = i /\ run[r].at # "blocked"}
RunsOwnRow ==
  \A i \in PIds :
    /\ Cardinality(Holding(i)) + Submitting(i) <= 1
    /\ task[i].st = "running" /\ i \notin stranded => Cardinality(Holding(i)) + Submitting(i) = 1
    /\ \A r \in Holding(i) : run[r].at \in {"execute", "complete"} => task[i].st \in {"running", "cancelled"}

(* Every assignment that was begun is answered once, or is on its way, and a row's   *)
(* status and its threads agree (ws/handlers.py).                               *)
TasksSound == RunsAnswered /\ RunsOwnRow
=============================================================================
