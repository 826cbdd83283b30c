------------------------- MODULE PlatformWorkProofs -------------------------
(*****************************************************************************)
(* Tasks of the platform, the run of one of them, the projects it has copies *)
(* of, and the steps of a skill, for any tasks, threads, decompositions,     *)
(* graphs and bounds.                                                        *)
(*                                                                           *)
(* TasksSound.  A row that is running has one holder, a thread or the handler*)
(* that is about to submit one; the invariant says so with what the holder's *)
(* stage tells of the row, and accounts for each start of a task: it is held,*)
(* its answer waits on the wire, was delivered, or went with a restart.      *)
(*                                                                           *)
(* TaskRunSound.  What was reported last and how often the model was asked are*)
(* bounded by the round at every step.                                       *)
(*                                                                           *)
(* ProjectsMirrored.  The newest message that waits is what the row is now, or*)
(* someone is about to send it; a deletion's notice stays the newest.        *)
(*                                                                           *)
(* SkillSound.  What is in the order has its dependencies before it, and what*)
(* is counted is all there is; where no step is ready, the steps that are    *)
(* left would have a least rank and have none.  The steps that ran are those *)
(* of the one set that the conditions describe, as far as the run has come.  *)
(*****************************************************************************)
EXTENDS MCPlatformWork, FiniteSetTheorems, SequenceTheorems, WellFoundedInduction, TLAPS

RowIds  == PIds \cup {NoId}
Hands == [op : {"idle", "prepare", "create", "start", "submit", "list", "get", "cas"},
          id : RowIds, seen : RowStates]
RunAts == {"none", "execute", "complete", "full", "send", "fail", "requeue", "blocked"}
AnyRun == [at : RunAts, id : RowIds, res : Outcomes]
USE DEF AnyRun

Rows  == [st : RowStates, tries : Nat, full : BOOLEAN]
Answers == [id : PIds, what : Outcomes]

HandFits(h) == /\ h \in Hands /\ (h.op # "idle" => h.id \in PIds)
               /\ h.op = "cas" => h.seen \in {"pending", "running"}
RunFits(x)  == /\ x \in AnyRun
               /\ x.id = NoId <=> x.at = "none"

TaskTypes ==
  /\ task \in [PIds -> Rows] /\ HandFits(hand)
  /\ run \in [Runs -> AnyRun] /\ \A r \in Runs : RunFits(run[r])
  /\ wire \in Seq(Answers) /\ told \in [PIds -> Seq(Outcomes)]
  /\ starts \in [PIds -> Nat] /\ gone \in [PIds -> Nat] /\ stranded \subseteq PIds

(* One holder of a row at most, and what its stage says of the row.               *)
Holds(r, i) == run[r].id = i /\ run[r].at # "blocked"
Submits(i)  == hand.op = "submit" /\ hand.id = i
OneHolder(i) == /\ \A r, s \in Runs : Holds(r, i) /\ Holds(s, i) => r = s
                /\ Submits(i) => task[i].st = "running" /\ \A r \in Runs : ~Holds(r, i)
HeldRow(i) ==
  /\ task[i].st \in {"none", "pending"} => \A r \in Runs : ~Holds(r, i)
  /\ task[i].st = "running" /\ i \notin stranded => Submits(i) \/ \E r \in Runs : Holds(r, i)
  /\ \A r \in Runs : Holds(r, i) =>
       /\ run[r].at \in {"execute", "complete"} => task[i].st \in {"running", "cancelled"}
       /\ run[r].at \in {"full", "send", "requeue"} => task[i].st # "running"

RowsInv  == TaskTypes /\ \A i \in PIds : OneHolder(i) /\ HeldRow(i)
TasksInv == RowsInv /\ RunsAnswered

(* The threads that work on a task are finitely many, in this state and the      *)
(* next.                                                                         *)
LEMMA RunsAreFinite ==
  ASSUME NEW i
  PROVE  /\ IsFiniteSet(RunningFor(i)) /\ Cardinality(RunningFor(i)) \in Nat
         /\ Cardinality(RunningFor(i)') \in Nat
<1>1. RunningFor(i) \subseteq Runs /\ RunningFor(i)' \subseteq Runs
  BY DEF RunningFor
<1> QED BY <1>1, PlatformTaskConstants, FS_Subset, FS_CardinalityType

---------------------------------------------------------------------------
(* The places that the answers for a task have in the queue.                    *)
Places(w, i) == {n \in DOMAIN w : w[n].id = i}

(* A queue holds finitely many answers for a task.                               *)
LEMMA PlacesAreFinite == ASSUME NEW w \in Seq(Answers), NEW i
                         PROVE  IsFiniteSet(Places(w, i)) /\ Cardinality(Places(w, i)) \in Nat
<1>1. DOMAIN w = 1 .. Len(w) /\ Len(w) \in Nat
  OBVIOUS
<1>2. IsFiniteSet(1 .. Len(w))
  BY <1>1, FS_Interval
<1>3. Places(w, i) \subseteq 1 .. Len(w)
  BY <1>1 DEF Places
<1> QED BY <1>2, <1>3, FS_Subset, FS_CardinalityType

(* One more answer in the queue is one more for its task and none for another.   *)
LEMMA OneSent ==
  ASSUME NEW w \in Seq(Answers), NEW m \in Answers, NEW i
  PROVE  Cardinality(Places(Append(w, m), i)) = Cardinality(Places(w, i)) + (IF m.id = i THEN 1 ELSE 0)
<1> DEFINE k == Len(w) + 1
<1>1. /\ DOMAIN w = 1 .. Len(w) /\ Len(w) \in Nat /\ DOMAIN Append(w, m) = 1 .. k
      /\ Append(w, m)[k] = m /\ \A n \in 1 .. Len(w) : Append(w, m)[n] = w[n]
  OBVIOUS
<1>2. IsFiniteSet(Places(w, i)) /\ Cardinality(Places(w, i)) \in Nat /\ k \notin Places(w, i)
  <2>1. k \notin DOMAIN w
    BY <1>1
  <2>2. k \notin Places(w, i)
    BY <2>1 DEF Places
  <2> QED BY <2>2, PlacesAreFinite
<1>3. CASE m.id = i
  <2>1. Places(Append(w, m), i) = Places(w, i) \cup {k}
    BY <1>1, <1>3 DEF Places
  <2>2. Cardinality(Places(w, i) \cup {k}) = Cardinality(Places(w, i)) + 1
    BY <1>2, FS_AddElement
  <2> QED BY <1>3, <2>1, <2>2
<1>4. CASE m.id # i
  <2>1. Places(Append(w, m), i) = Places(w, i)
    BY <1>1, <1>4 DEF Places
  <2> QED BY <1>2, <1>4, <2>1
<1> QED BY <1>3, <1>4

(* The answer that leaves the queue is one less for its task.                    *)
LEMMA FirstTaken ==
  ASSUME NEW w \in Seq(Answers), w # << >>, NEW i
  PROVE  Cardinality(Places(w, i)) = Cardinality(Places(Tail(w), i)) + (IF Head(w).id = i THEN 1 ELSE 0)
<1> DEFINE t == Tail(w)
           P == Places(t, i)
           Q == Places(w, i) \ {1}
           f == [n \in P |-> n + 1]
<1>1. /\ Len(w) \in Nat /\ Len(w) > 0 /\ DOMAIN w = 1 .. Len(w) /\ Head(w) = w[1]
      /\ t \in Seq(Answers) /\ DOMAIN t = 1 .. Len(w) - 1
  OBVIOUS
<1>2. \A n \in 1 .. Len(w) - 1 : t[n] = w[n + 1]
  BY HeadTailProperties
<1> HIDE DEF t
<1>3. IsFiniteSet(P) /\ Cardinality(P) \in Nat /\ IsFiniteSet(Places(w, i))
      /\ Cardinality(Places(w, i)) \in Nat
  BY <1>1, PlacesAreFinite
<1>4. \A n \in P : n \in 1 .. Len(w) - 1 /\ n + 1 \in Q
  BY <1>1, <1>2 DEF Places
<1>5. \A q \in Q : q \in Int /\ q - 1 \in P /\ (q - 1) + 1 = q
  BY <1>1, <1>2 DEF Places
<1>6. f \in Bijection(P, Q)
  <2>1. f \in [P -> Q]
    BY <1>4
  <2>2. \A a, b \in P : f[a] = f[b] => a = b
    BY <1>4
  <2>3. \A q \in Q : \E n \in P : f[n] = q
    BY <1>5
  <2> HIDE DEF f, P, Q
  <2> QED BY <2>1, <2>2, <2>3, Zenon DEF Bijection, Injection, Surjection, IsInjective
<1>7. Cardinality(Q) = Cardinality(P)
  <2>1. ExistsBijection(P, Q)
    BY <1>6 DEF ExistsBijection
  <2> HIDE DEF P, Q
  <2> QED BY <1>3, <2>1, FS_Bijection
<1>8. Cardinality(Places(w, i) \ {1}) = IF 1 \in Places(w, i) THEN Cardinality(Places(w, i)) - 1
                                          ELSE Cardinality(Places(w, i))
  BY <1>3, FS_RemoveElement
<1>9. 1 \in Places(w, i) <=> Head(w).id = i
  BY <1>1 DEF Places
<1> HIDE DEF P
<1>10. CASE Head(w).id = i
  BY <1>3, <1>7, <1>8, <1>9, <1>10 DEF P, t
<1>11. CASE Head(w).id # i
  BY <1>3, <1>7, <1>8, <1>9, <1>11 DEF P, t
<1> QED BY <1>10, <1>11

---------------------------------------------------------------------------
(* A free hand and a free thread are states of a hand and a thread.              *)
LEMMA FreeFits == /\ HandFits(FreeHand) /\ FreeHand.op = "idle"
                  /\ RunFits(FreeRun) /\ FreeRun.at = "none" /\ FreeRun.id = NoId
BY DEF HandFits, Hands, FreeHand, RunFits, FreeRun, RunAts, RowIds, Outcomes, RowStates

(* The invariant holds at the start.                                             *)
LEMMA TasksInit == PlatformIdle => TasksInv
<1> SUFFICES ASSUME PlatformIdle PROVE TasksInv
  OBVIOUS
<1>1. TaskTypes
  <2>1. FreeRun \in AnyRun
    BY FreeFits DEF RunFits
  <2> QED BY <2>1, FreeFits DEF PlatformIdle, TaskTypes, Rows, RowStates
<1>2. \A r \in Runs, i \in PIds : ~Holds(r, i)
  BY NoIdIsNone DEF PlatformIdle, Holds, FreeRun
<1>3. \A i \in PIds : OneHolder(i) /\ HeldRow(i)
  BY <1>2 DEF PlatformIdle, OneHolder, HeldRow, Submits, FreeHand
<1>4. \A i \in PIds : RunningFor(i) = {} /\ OnWire(i) = Cardinality({})
  BY NoIdIsNone DEF PlatformIdle, RunningFor, FreeRun, OnWire
<1>5. \A i \in PIds : Submitting(i) = 0 /\ Len(told[i]) = 0 /\ starts[i] = 0 /\ gone[i] = 0
  BY DEF PlatformIdle, Submitting, FreeHand
<1>6. Cardinality({}) = 0
  BY FS_EmptySet
<1>7. \A i \in PIds : Cardinality(RunningFor(i)) = 0 /\ OnWire(i) = 0
  BY <1>4, <1>6
<1>8. RunsAnswered
  BY <1>5, <1>7 DEF RunsAnswered
<1> QED BY <1>1, <1>3, <1>8 DEF TasksInv, RowsInv

(* What the handler holds after each of its steps is again something it can      *)
(* hold.                                                                         *)
LEMMA HandsFit ==
  ASSUME HandFits(hand)
  PROVE  /\ \A op \in {"prepare", "list"}, i \in PIds : HandFits([FreeHand EXCEPT !.op = op, !.id = i])
         /\ hand.op # "idle" =>
              \A op \in {"create", "start", "submit", "get"} : HandFits(HandTo(op)) /\ HandTo(op).id = hand.id
         /\ hand.op # "idle" =>
              \A seen \in {"pending", "running"} : HandFits([HandTo("cas") EXCEPT !.seen = seen])
<1>1. ASSUME NEW op \in {"prepare", "list"}, NEW i \in PIds PROVE HandFits([FreeHand EXCEPT !.op = op, !.id = i])
  BY FreeFits DEF HandFits, Hands, RowIds
<1>2. ASSUME hand.op # "idle", NEW op \in {"create", "start", "submit", "get"} PROVE HandFits(HandTo(op)) /\ HandTo(op).id = hand.id
  BY <1>2 DEF HandFits, Hands, HandTo
<1>3. ASSUME hand.op # "idle", NEW seen \in {"pending", "running"} PROVE HandFits([HandTo("cas") EXCEPT !.seen = seen])
  BY <1>3 DEF HandFits, Hands, HandTo, RowStates
<1> QED BY <1>1, <1>2, <1>3

(* A counter of tasks stays one.                                                 *)
LEMMA OneCounted == ASSUME NEW f \in [PIds -> Nat], NEW i \in PIds PROVE [f EXCEPT ![i] = @ + 1] \in [PIds -> Nat]
OBVIOUS

(* A step of the handler: what it holds next, and the rows it changes.              *)
LEMMA HandOps ==
  ASSUME HandFits(hand)
  PROVE  /\ \A op \in {"prepare", "list"}, i \in PIds : [FreeHand EXCEPT !.op = op, !.id = i].op = op
         /\ \A op \in {"create", "start", "submit", "get"} : HandTo(op).op = op
         /\ \A seen \in RowStates : [HandTo("cas") EXCEPT !.seen = seen].op = "cas"
BY DEF HandFits, Hands, HandTo, FreeHand, RowStates

(* The handler's steps keep the types.                                           *)
LEMMA HandTypes == ASSUME TaskTypes, Handler PROVE TaskTypes'
<1> USE FreeFits, HandsFit DEF OnlyHand, SetRow
<1>1. HandFits(hand) /\ task \in [PIds -> Rows]
  BY DEF TaskTypes
<1>2. ASSUME HandFits(hand'), task' = task \/ (\E i \in PIds, st \in RowStates : task' = [task EXCEPT ![i].st = st]),
             run' = run, wire' = wire, told' = told, starts' \in [PIds -> Nat], gone' = gone,
             stranded' = stranded
      PROVE  TaskTypes'
  <2>1. task' \in [PIds -> Rows]
    BY <1>1, <1>2 DEF Rows
  <2> QED BY <1>2, <2>1 DEF TaskTypes
<1>3. ASSUME NEW i \in PIds, NEW op \in {"prepare", "list"}, Receive(i, op) PROVE TaskTypes'
  <2>1. HandFits(hand')
    BY <1>1, <1>3 DEF Receive
  <2> QED BY <1>2, <1>3, <2>1 DEF Receive, TaskTypes
<1>4. CASE Prepare \/ NotStarted \/ LookUp \/ ReadStatus
  <2>1. HandFits(hand')
    BY <1>1, <1>4 DEF Prepare, NotStarted, LookUp, ReadStatus
  <2> QED BY <1>2, <1>4, <2>1 DEF Prepare, NotStarted, LookUp, ReadStatus, TaskTypes
<1>5. CASE CreateRow
  <2>1. HandFits(hand') /\ hand.id \in PIds
    BY <1>1, <1>5 DEF CreateRow, HandFits
  <2> QED BY <1>2, <1>5, <2>1 DEF CreateRow, TaskTypes, RowStates
<1>6. CASE StartRow
  <2>1. HandFits(hand') /\ hand.id \in PIds
    BY <1>1, <1>6 DEF StartRow, HandFits
  <2>2. starts' \in [PIds -> Nat]
    <3>1. starts \in [PIds -> Nat] /\ starts' = [starts EXCEPT ![hand.id] = @ + 1]
      BY <1>6 DEF StartRow, TaskTypes
    <3> QED BY <2>1, <3>1, OneCounted
  <2> QED BY <1>2, <1>6, <2>1, <2>2 DEF StartRow, RowStates
<1>7. CASE CancelRow
  <2>1. HandFits(hand') /\ hand.id \in PIds
    BY <1>1, <1>7 DEF CancelRow, HandFits
  <2> QED BY <1>2, <1>7, <2>1 DEF CancelRow, TaskTypes, RowStates
<1>8. ASSUME NEW r \in Runs, Submit(r) PROVE TaskTypes'
  <2> DEFINE x == [FreeRun EXCEPT !.at = "execute", !.id = hand.id]
  <2>1. HandFits(hand') /\ hand.id \in PIds
    BY <1>1, <1>8 DEF Submit, HandFits
  <2>2. x \in AnyRun /\ x.at = "execute" /\ x.id = hand.id
    BY <2>1 DEF RunFits, RunAts, RowIds
  <2>3. RunFits(x)
    BY <2>1, <2>2, NoIdIsNone DEF RunFits
  <2>4. run' = [run EXCEPT ![r] = x]
    BY <1>8 DEF Submit
  <2> HIDE DEF x
  <2>5. run' \in [Runs -> AnyRun] /\ \A q \in Runs : RunFits(run'[q])
    BY <2>2, <2>3, <2>4 DEF TaskTypes
  <2> QED BY <1>8, <2>1, <2>5 DEF Submit, TaskTypes
<1> QED BY <1>3, <1>4, <1>5, <1>6, <1>7, <1>8 DEF Handler

(* A step of a thread: what it is about next.                                   *)
LEMMA ThreadTypes == ASSUME TaskTypes, NEW r \in Runs, RunStep(r) PROVE TaskTypes'
<1> USE DEF RunTo, KeepRun, NoAnswer, SetRow
<1>1. /\ run \in [Runs -> AnyRun] /\ \A q \in Runs : RunFits(run[q])
      /\ task \in [PIds -> Rows] /\ gone \in [PIds -> Nat] /\ wire \in Seq(Answers)
  BY DEF TaskTypes
<1>2. run[r].at # "none" /\ run[r].id \in PIds /\ run[r].res \in Outcomes
  <2>1. run[r].at # "none"
    BY DEF RunStep, Execute, CompleteRow, FillProgress, WriteRaises, SendResult, SendBlocked, FailRow,
           Requeue, FailRaises
  <2> QED BY <1>1, <2>1 DEF RunFits, RowIds
<1>3. ASSUME \/ \E place \in RunAts \ {"none"}, res \in Outcomes : run' = [run EXCEPT ![r].at = place, ![r].res = res]
             \/ \E place \in RunAts \ {"none"} : run' = [run EXCEPT ![r].at = place]
             \/ run' = [run EXCEPT ![r] = FreeRun]
      PROVE  run' \in [Runs -> AnyRun] /\ \A q \in Runs : RunFits(run'[q])
  <2>1. FreeRun \in AnyRun
    BY FreeFits DEF RunFits
  <2>2. ASSUME NEW place \in RunAts \ {"none"}, NEW res \in Outcomes, run' = [run EXCEPT ![r].at = place, ![r].res = res]
        PROVE  run' \in [Runs -> AnyRun] /\ \A q \in Runs : RunFits(run'[q])
    <3>1. run' \in [Runs -> AnyRun]
      BY <1>1, <2>2
    <3>2. run'[r].at = place /\ run'[r].id = run[r].id /\ \A q \in Runs \ {r} : run'[q] = run[q]
      BY <1>1, <2>2
    <3> QED BY <1>1, <1>2, <3>1, <3>2 DEF RunFits
  <2>3. ASSUME NEW place \in RunAts \ {"none"}, run' = [run EXCEPT ![r].at = place]
        PROVE  run' \in [Runs -> AnyRun] /\ \A q \in Runs : RunFits(run'[q])
    <3>1. run' \in [Runs -> AnyRun]
      BY <1>1, <2>3
    <3>2. run'[r].at = place /\ run'[r].id = run[r].id /\ \A q \in Runs \ {r} : run'[q] = run[q]
      BY <1>1, <2>3
    <3> QED BY <1>1, <1>2, <3>1, <3>2 DEF RunFits
  <2>4. ASSUME run' = [run EXCEPT ![r] = FreeRun]
        PROVE  run' \in [Runs -> AnyRun] /\ \A q \in Runs : RunFits(run'[q])
    BY <1>1, <2>1, <2>4, FreeFits
  <2> QED BY <1>3, <2>2, <2>3, <2>4
<1>4. ASSUME \/ task' = task \/ \E i \in PIds, st \in RowStates : task' = [task EXCEPT ![i].st = st]
             \/ \E i \in PIds : task' = [task EXCEPT ![i].full = TRUE]
             \/ \E i \in PIds : task' = [task EXCEPT ![i].st = "pending", ![i].tries = task[i].tries + 1]
      PROVE  task' \in [PIds -> Rows]
  <2>1. ASSUME NEW i \in PIds, NEW st \in RowStates, task' = [task EXCEPT ![i].st = st] PROVE task' \in [PIds -> Rows]
    BY <1>1, <2>1 DEF Rows
  <2>2. ASSUME NEW i \in PIds, task' = [task EXCEPT ![i].full = TRUE] PROVE task' \in [PIds -> Rows]
    BY <1>1, <2>2 DEF Rows
  <2>3. ASSUME NEW i \in PIds, task' = [task EXCEPT ![i].st = "pending", ![i].tries = task[i].tries + 1]
        PROVE  task' \in [PIds -> Rows]
    <3>1. PICK k \in Nat : k = task[i].tries + 1
      BY <1>1 DEF Rows
    <3>2. task' = [task EXCEPT ![i].st = "pending", ![i].tries = k]
      BY <2>3, <3>1
    <3> QED BY <1>1, <3>2 DEF Rows, RowStates
  <2> QED BY <1>1, <1>4, <2>1, <2>2, <2>3
<1>5. CASE Execute(r) \/ WriteRaises(r)
  BY <1>1, <1>3, <1>5 DEF Execute, WriteRaises, TaskTypes, RunAts
<1>6. CASE CompleteRow(r)
  BY <1>1, <1>2, <1>3, <1>4, <1>6 DEF CompleteRow, TaskTypes, RunAts, RowStates
<1>7. CASE FillProgress(r)
  BY <1>1, <1>2, <1>3, <1>4, <1>7 DEF FillProgress, TaskTypes, RunAts, RowStates
<1>8. CASE FailRow(r)
  BY <1>1, <1>2, <1>3, <1>4, <1>8 DEF FailRow, TaskTypes, RunAts, RowStates
<1>9. CASE Requeue(r)
  BY <1>1, <1>2, <1>3, <1>4, <1>9 DEF Requeue, TaskTypes, RunAts, RowStates
<1>10. CASE FailRaises(r)
  BY <1>1, <1>2, <1>3, <1>10 DEF FailRaises, TaskTypes
<1>11. CASE SendResult(r) \/ SendBlocked(r)
  <2>1. PICK m \in Answers : wire' = Append(wire, m)
    BY <1>2, <1>11 DEF SendResult, SendBlocked, Answer, Answers, Outcomes
  <2>2. wire' \in Seq(Answers)
    BY <1>1, <2>1
  <2> QED BY <1>1, <1>3, <1>11, <2>2 DEF SendResult, SendBlocked, Answer, TaskTypes
<1> QED BY <1>5, <1>6, <1>7, <1>8, <1>9, <1>10, <1>11 DEF RunStep

(* Deliveries, cuts and restarts keep the types.                                 *)
LEMMA LinkTypes == ASSUME TaskTypes, Deliver \/ Cut \/ Kill PROVE TaskTypes'
<1>1. wire \in Seq(Answers) /\ told \in [PIds -> Seq(Outcomes)] /\ gone \in [PIds -> Nat]
      /\ stranded \subseteq PIds /\ (hand.op # "idle" => hand.id \in PIds)
  BY DEF TaskTypes, HandFits
<1>2. wire # << >> => Tail(wire) \in Seq(Answers) /\ Head(wire).id \in PIds /\ Head(wire).what \in Outcomes
  <2>1. wire # << >> => Tail(wire) \in Seq(Answers) /\ Head(wire) \in Answers
    BY <1>1
  <2> QED BY <2>1 DEF Answers
<1>3. CASE Deliver
  <2>1. told' \in [PIds -> Seq(Outcomes)]
    BY <1>1, <1>2, <1>3 DEF Deliver
  <2> QED BY <1>2, <1>3, <2>1 DEF Deliver, TaskTypes
<1>4. CASE Cut
  <2>1. gone' \in [PIds -> Nat] /\ stranded' \subseteq PIds
    BY <1>1, <1>4 DEF Cut
  <2>2. wire' \in Seq(Answers)
    BY <1>1, <1>2, <1>4 DEF Cut
  <2> QED BY <1>4, <2>1, <2>2, FreeFits DEF Cut, TaskTypes
<1>5. CASE Kill
  <2>1. \A i \in PIds : Cardinality(RunningFor(i)) \in Nat /\ OnWire(i) \in Nat /\ Submitting(i) \in Nat
    BY <1>1, RunsAreFinite, PlacesAreFinite DEF OnWire, Places, Submitting
  <2>2. gone' \in [PIds -> Nat] /\ stranded' \subseteq PIds
    BY <1>1, <1>5, <2>1 DEF Kill
  <2>3. FreeRun \in AnyRun
    BY FreeFits DEF RunFits
  <2>4. run' \in [Runs -> AnyRun] /\ \A r \in Runs : RunFits(run'[r])
    BY <1>5, <2>3, FreeFits DEF Kill
  <2> QED BY <1>5, <2>2, <2>4, FreeFits DEF Kill, TaskTypes
<1> QED BY <1>3, <1>4, <1>5

---------------------------------------------------------------------------
(* What a step of a thread does to its own row, and to no other.                  *)
Moves(r, from, to) == run[r].at \in from /\ run'[r].at = to /\ run'[r].id = run[r].id
Leaves(r, from)    == run[r].at \in from /\ run'[r].id = NoId
SameRow(i)         == task'[i].st = task[i].st
ThreadMoves(r, i)  ==
  \/ Moves(r, {"execute"}, "complete") /\ SameRow(i)
  \/ Moves(r, {"complete"}, "full") /\ task'[i].st # "running"
       /\ (task[i].st # "running" => SameRow(i)) /\ (task[i].st = "running" => task'[i].st = "completed")
  \/ Moves(r, {"full"}, "send") /\ SameRow(i)
  \/ Moves(r, {"complete", "full"}, "fail") /\ SameRow(i)
  \/ Moves(r, {"fail"}, "requeue") /\ task'[i].st = "failed"
  \/ Moves(r, {"fail"}, "blocked") /\ SameRow(i) /\ task[i].st # "running"
  \/ Moves(r, {"requeue"}, "blocked") /\ task[i].st # "pending" /\ (SameRow(i) \/ task'[i].st = "pending")
  \/ Moves(r, {"requeue"}, "blocked") /\ SameRow(i)
  \/ Leaves(r, {"send", "blocked"}) /\ SameRow(i)
  \/ Leaves(r, {"fail", "requeue"}) /\ SameRow(i) /\ (task[i].st = "running" => i \in stranded')

(* A thread's step is about its own task and leaves the other rows and threads   *)
(* alone.                                                                        *)
LEMMA ThreadMovesAlone ==
  ASSUME TaskTypes, NEW r \in Runs, RunStep(r)
  PROVE  /\ \A q \in Runs \ {r} : run'[q] = run[q]
         /\ hand' = hand /\ stranded \subseteq stranded'
         /\ run[r].id \in PIds /\ \A i \in PIds \ {run[r].id} : SameRow(i)
         /\ ThreadMoves(r, run[r].id)
<1> USE DEF RunTo, KeepRun, NoAnswer, SetRow, RunOf
<1>1. /\ run \in [Runs -> AnyRun] /\ \A q \in Runs : RunFits(run[q])
      /\ task \in [PIds -> Rows]
  BY DEF TaskTypes
<1>2. run[r].at # "none" /\ run[r].id \in PIds
  <2>1. run[r].at # "none"
    BY DEF RunStep, Execute, CompleteRow, FillProgress, WriteRaises, SendResult, SendBlocked, FailRow,
           Requeue, FailRaises
  <2> QED BY <1>1, <2>1 DEF RunFits, RowIds
<1> DEFINE Runs2 == \A q \in Runs \ {r} : run'[q] = run[q]
           To(place) == run'[r].at = place /\ run'[r].id = run[r].id /\ Runs2
           Row(st) == task'[run[r].id].st = st /\ \A i \in PIds \ {run[r].id} : SameRow(i)
<1>3. ASSUME NEW place \in RunAts, run' = [run EXCEPT ![r].at = place] PROVE To(place)
  BY <1>1, <1>3
<1>4. ASSUME run' = [run EXCEPT ![r] = FreeRun] PROVE run'[r].id = NoId /\ Runs2
  BY <1>1, <1>4, FreeFits
<1>5. ASSUME NEW st \in RowStates, task' = [task EXCEPT ![run[r].id].st = st] PROVE Row(st)
  BY <1>1, <1>2, <1>5 DEF Rows, SameRow
<1>6. ASSUME task' = task PROVE \A i \in PIds : SameRow(i)
  BY <1>6 DEF SameRow
<1>7. CASE Execute(r)
  <2>1. PICK res \in Outcomes : run' = [run EXCEPT ![r].at = "complete", ![r].res = res]
    BY <1>7 DEF Execute
  <2>2. To("complete")
    BY <1>1, <2>1
  <2>3. run[r].at = "execute" /\ task' = task /\ hand' = hand /\ stranded' = stranded
    BY <1>7 DEF Execute
  <2> QED BY <1>2, <1>6, <2>2, <2>3 DEF ThreadMoves, Moves
<1>8. CASE CompleteRow(r)
  <2>1. To("full")
    BY <1>3, <1>8 DEF CompleteRow, RunAts
  <2>2. run[r].at = "complete" /\ hand' = hand /\ stranded' = stranded
    BY <1>8 DEF CompleteRow
  <2>3. IF task[run[r].id].st = "running" THEN Row("completed") ELSE task' = task
    BY <1>5, <1>8 DEF CompleteRow, RowStates
  <2> QED BY <1>2, <1>6, <2>1, <2>2, <2>3 DEF ThreadMoves, Moves, SameRow
<1>9. CASE FillProgress(r)
  <2>1. \A i \in PIds : SameRow(i)
    BY <1>1, <1>2, <1>9 DEF FillProgress, SameRow, Rows
  <2>2. To("send")
    BY <1>3, <1>9 DEF FillProgress, RunAts
  <2>3. run[r].at = "full" /\ hand' = hand /\ stranded' = stranded
    BY <1>9 DEF FillProgress
  <2> QED BY <1>2, <2>1, <2>2, <2>3 DEF ThreadMoves, Moves
<1>10. CASE WriteRaises(r)
  <2>1. To("fail")
    BY <1>3, <1>10 DEF WriteRaises, RunAts
  <2>2. run[r].at \in {"complete", "full"} /\ task' = task /\ hand' = hand /\ stranded' = stranded
    BY <1>10 DEF WriteRaises
  <2> QED BY <1>2, <1>6, <2>1, <2>2 DEF ThreadMoves, Moves
<1>11. CASE SendResult(r) \/ SendBlocked(r)
  <2>1. run[r].at \in {"send", "blocked"} /\ task' = task /\ hand' = hand /\ stranded' = stranded
        /\ run' = [run EXCEPT ![r] = FreeRun]
    BY <1>11 DEF SendResult, SendBlocked, Answer
  <2> QED BY <1>2, <1>4, <1>6, <2>1 DEF ThreadMoves, Leaves
<1>12. CASE FailRow(r)
  <2>1. run[r].at = "fail" /\ hand' = hand /\ stranded' = stranded
    BY <1>12 DEF FailRow
  <2>2. CASE task[run[r].id].st = "running"
    <3>1. To("requeue") /\ Row("failed")
      BY <1>3, <1>5, <1>12, <2>2 DEF FailRow, RunAts, RowStates
    <3> QED BY <1>2, <2>1, <3>1 DEF ThreadMoves, Moves
  <2>3. CASE task[run[r].id].st # "running"
    <3>1. To("blocked") /\ task' = task
      BY <1>3, <1>12, <2>3 DEF FailRow, RunAts
    <3> QED BY <1>2, <1>6, <2>1, <2>3, <3>1 DEF ThreadMoves, Moves
  <2> QED BY <2>2, <2>3
<1>13. CASE Requeue(r)
  <2>1. run[r].at = "requeue" /\ hand' = hand /\ stranded' = stranded
    BY <1>13 DEF Requeue
  <2>2. To("blocked")
    BY <1>3, <1>13 DEF Requeue, RunAts
  <2>3. CASE task' = task
    BY <1>2, <1>6, <2>1, <2>2, <2>3 DEF ThreadMoves, Moves
  <2>4. CASE task[run[r].id].st = "failed" /\ task' = [task EXCEPT ![run[r].id].st = "pending", ![run[r].id].tries = task[run[r].id].tries + 1]
    <3>1. PICK k \in Nat : k = task[run[r].id].tries + 1
      BY <1>1, <1>2 DEF Rows
    <3>2. task' = [task EXCEPT ![run[r].id].st = "pending", ![run[r].id].tries = k]
      BY <2>4, <3>1
    <3>3. Row("pending")
      BY <1>1, <1>2, <3>2 DEF Rows, SameRow
    <3> QED BY <1>2, <2>1, <2>2, <2>4, <3>3 DEF ThreadMoves, Moves
  <2>5. (task[run[r].id].st = "failed" /\ task' = [task EXCEPT ![run[r].id].st = "pending", ![run[r].id].tries = task[run[r].id].tries + 1])
        \/ task' = task
    <3>1. task[run[r].id] \in Rows
      BY <1>1, <1>2
    <3> QED BY <1>1, <1>2, <1>13, <3>1 DEF Requeue
  <2> QED BY <2>3, <2>4, <2>5
<1>14. CASE FailRaises(r)
  <2>1. run[r].at \in {"fail", "requeue"} /\ run' = [run EXCEPT ![r] = FreeRun] /\ task' = task /\ hand' = hand
        /\ stranded' = IF task[run[r].id].st = "running" THEN stranded \cup {run[r].id} ELSE stranded
    BY <1>14 DEF FailRaises
  <2> QED BY <1>2, <1>4, <1>6, <2>1 DEF ThreadMoves, Leaves
<1> QED BY <1>7, <1>8, <1>9, <1>10, <1>11, <1>12, <1>13, <1>14 DEF RunStep

(* A thread's step keeps each row with its holder.                               *)
LEMMA ThreadRows ==
  ASSUME RowsInv, NEW r \in Runs, RunStep(r), NEW i \in PIds PROVE (OneHolder(i) /\ HeldRow(i))'
<1> USE DEF Submits, Holds
<1>1. TaskTypes /\ OneHolder(i) /\ HeldRow(i)
  BY DEF RowsInv
<1>2. /\ \A q \in Runs \ {r} : run'[q] = run[q] /\ (Holds(q, i)' <=> Holds(q, i))
      /\ (Submits(i)' <=> Submits(i)) /\ (i \in stranded => i \in stranded')
      /\ run[r].id \in PIds /\ (run[r].id # i => SameRow(i)) /\ ThreadMoves(r, run[r].id)
      /\ NoId # i
  <2>1. /\ \A q \in Runs \ {r} : run'[q] = run[q]
        /\ hand' = hand /\ stranded \subseteq stranded' /\ run[r].id \in PIds
        /\ (\A j \in PIds \ {run[r].id} : SameRow(j)) /\ ThreadMoves(r, run[r].id)
    BY <1>1, ThreadMovesAlone
  <2>2. \A q \in Runs \ {r} : Holds(q, i)' <=> Holds(q, i)
    BY <2>1
  <2> QED BY <2>1, <2>2, NoIdIsNone
<1>3. CASE run[r].id # i
  <2>1. ~Holds(r, i) /\ ~Holds(r, i)'
    BY <1>2, <1>3 DEF ThreadMoves, Moves, Leaves
  <2>2. \A q \in Runs : (Holds(q, i)' <=> Holds(q, i)) /\ (Holds(q, i) => run'[q] = run[q])
    BY <1>2, <2>1
  <2> HIDE DEF Submits, Holds
  <2>3. task'[i].st = task[i].st
    BY <1>2, <1>3 DEF SameRow
  <2>4. OneHolder(i)'
    BY <1>1, <1>2, <2>2, <2>3 DEF OneHolder
  <2>5. HeldRow(i)'
    BY <1>1, <1>2, <2>2, <2>3 DEF HeldRow
  <2> QED BY <2>4, <2>5
<1>4. CASE run[r].id = i
  <2>1. Holds(r, i) \/ run[r].at = "blocked"
    BY <1>4
  <2>2. ThreadMoves(r, i) /\ (Holds(r, i)' => run'[r].at # "blocked" /\ run'[r].id = i)
    BY <1>2, <1>4
  <2>3. CASE run[r].at = "blocked"
    <3>1. Leaves(r, {"send", "blocked"}) /\ SameRow(i)
      BY <2>2, <2>3 DEF ThreadMoves, Moves, Leaves
    <3>2. ~Holds(r, i) /\ ~Holds(r, i)'
      BY <1>2, <2>3, <3>1 DEF Leaves
    <3>3. \A q \in Runs : (Holds(q, i)' <=> Holds(q, i)) /\ (Holds(q, i) => run'[q] = run[q])
      BY <1>2, <3>2
    <3> HIDE DEF Submits, Holds
    <3>4. OneHolder(i)'
      BY <1>1, <1>2, <3>1, <3>3 DEF OneHolder, SameRow
    <3>5. HeldRow(i)'
      BY <1>1, <1>2, <3>1, <3>3 DEF HeldRow, SameRow
    <3> QED BY <3>4, <3>5
  <2>4. CASE Holds(r, i)
    <3>1. (\A q \in Runs \ {r} : ~Holds(q, i) /\ ~Holds(q, i)') /\ ~Submits(i) /\ ~Submits(i)'
      BY <1>1, <1>2, <2>4 DEF OneHolder
    <3>2. /\ task[i].st \notin {"none", "pending"}
          /\ run[r].at \in {"execute", "complete"} => task[i].st \in {"running", "cancelled"}
          /\ run[r].at \in {"full", "send", "requeue"} => task[i].st # "running"
      BY <1>1, <2>4 DEF HeldRow
    <3>3. /\ task'[i].st \in {"none", "pending"} => ~Holds(r, i)'
          /\ task'[i].st = "running" /\ i \notin stranded' => Holds(r, i)'
          /\ Holds(r, i)' =>
               /\ run'[r].at \in {"execute", "complete"} => task'[i].st \in {"running", "cancelled"}
               /\ run'[r].at \in {"full", "send", "requeue"} => task'[i].st # "running"
      <4>1. CASE run'[r].id = NoId
        <5>1. ~Holds(r, i)'
          BY <1>2, <4>1
        <5>2. \/ run[r].at = "send" /\ task'[i].st = task[i].st
              \/ task'[i].st = task[i].st /\ (task[i].st = "running" => i \in stranded')
          BY <1>2, <1>4, <2>2, <2>4, <4>1 DEF ThreadMoves, Moves, Leaves, SameRow
        <5> HIDE DEF Holds
        <5> QED BY <3>2, <5>1, <5>2
      <4>2. CASE run'[r].id # NoId
        <5>1. run'[r].id = i /\ ThreadMoves(r, i)
          BY <1>4, <2>2, <4>2 DEF ThreadMoves, Moves, Leaves
        <5> HIDE DEF Holds
        <5>2. Holds(r, i)' <=> run'[r].at # "blocked"
          BY <5>1 DEF Holds
        <5> QED BY <1>2, <3>2, <4>2, <5>1, <5>2 DEF ThreadMoves, Moves, Leaves, SameRow
      <4> QED BY <4>1, <4>2
    <3> HIDE DEF Submits, Holds
    <3>4. OneHolder(i)'
      BY <3>1 DEF OneHolder
    <3>5. HeldRow(i)'
      BY <3>1, <3>3 DEF HeldRow
    <3> QED BY <3>4, <3>5
  <2> QED BY <2>1, <2>3, <2>4
<1> QED BY <1>3, <1>4

---------------------------------------------------------------------------
(* A step of the handler leaves the threads alone, but for the one it starts.        *)
LEMMA QuietHand ==
  ASSUME HandFits(hand),
         (\E j \in PIds, op \in {"prepare", "list"} : Receive(j, op)) \/ Prepare \/ NotStarted \/ LookUp \/ ReadStatus
  PROVE  hand.op # "submit" /\ hand'.op # "submit"
<1> USE FreeFits, HandOps DEF OnlyHand
<1>1. CASE \E j \in PIds, op \in {"prepare", "list"} : Receive(j, op)
  <2>1. PICK j \in PIds, op \in {"prepare", "list"} : Receive(j, op)
    BY <1>1
  <2>2. hand' = [FreeHand EXCEPT !.op = op, !.id = j] /\ hand.op = "idle"
    BY <2>1 DEF Receive
  <2> QED BY <2>2
<1>2. CASE Prepare
  BY <1>2 DEF Prepare
<1>3. CASE NotStarted
  BY <1>3 DEF NotStarted
<1>4. CASE LookUp
  BY <1>4 DEF LookUp
<1>5. CASE ReadStatus
  <2>1. CASE task[hand.id].st \in {"pending", "running"}
    <3>1. task[hand.id].st \in RowStates
      BY <2>1 DEF RowStates
    <3>2. hand' = [HandTo("cas") EXCEPT !.seen = task[hand.id].st]
      BY <1>5, <2>1 DEF ReadStatus
    <3> QED BY <1>5, <3>1, <3>2 DEF ReadStatus
  <2>2. CASE task[hand.id].st \notin {"pending", "running"}
    BY <1>5, <2>2 DEF ReadStatus
  <2> QED BY <2>1, <2>2
<1> QED BY <1>1, <1>2, <1>3, <1>4, <1>5

(* A step of the handler keeps each row with its holder.                         *)
LEMMA HandRows == ASSUME RowsInv, Handler, NEW i \in PIds PROVE (OneHolder(i) /\ HeldRow(i))'
<1> USE DEF OnlyHand, SetRow
<1>1. TaskTypes /\ OneHolder(i) /\ HeldRow(i)
  BY DEF RowsInv
<1>2. /\ task \in [PIds -> Rows] /\ run \in [Runs -> AnyRun]
      /\ HandFits(hand) /\ NoId # i
  BY <1>1, NoIdIsNone DEF TaskTypes
<1>3. ASSUME run' = run, stranded' = stranded, Submits(i)' <=> Submits(i),
             \/ task'[i].st = task[i].st
             \/ task'[i].st = "cancelled" /\ ~Submits(i)
             \/ task[i].st = "none" /\ task'[i].st = "pending" /\ ~Submits(i)
      PROVE  (OneHolder(i) /\ HeldRow(i))'
  <2>1. \A q \in Runs : (Holds(q, i)' <=> Holds(q, i)) /\ run'[q] = run[q]
    BY <1>3 DEF Holds
  <2>2. OneHolder(i)'
    BY <1>1, <1>3, <2>1 DEF OneHolder
  <2>3. HeldRow(i)'
    BY <1>1, <1>3, <2>1 DEF HeldRow
  <2> QED BY <2>2, <2>3
<1>4. CASE (\E j \in PIds, op \in {"prepare", "list"} : Receive(j, op)) \/ Prepare \/ NotStarted \/ LookUp \/ ReadStatus
  <2>1. run' = run /\ stranded' = stranded /\ task' = task
    BY <1>4 DEF Receive, Prepare, NotStarted, LookUp, ReadStatus
  <2>2. hand.op # "submit" /\ hand'.op # "submit"
    BY <1>2, <1>4, FreeFits, QuietHand
  <2> QED BY <1>3, <2>1, <2>2 DEF Submits
<1>5. CASE CreateRow
  <2>1. run' = run /\ stranded' = stranded /\ hand.op # "submit" /\ hand'.op # "submit"
    BY <1>2, <1>5 DEF CreateRow, HandTo, HandFits, Hands
  <2>2. task'[i].st = task[i].st \/ (task[i].st = "none" /\ task'[i].st = "pending")
    <3>1. hand.id \in PIds
      BY <1>2, <1>5 DEF CreateRow, HandFits
    <3>2. CASE task[hand.id].st = "none" /\ task' = [task EXCEPT ![hand.id].st = "pending"]
      BY <1>2, <3>1, <3>2 DEF Rows
    <3>3. CASE task' = task
      BY <3>3
    <3> QED BY <1>5, <3>2, <3>3 DEF CreateRow
  <2> QED BY <1>3, <2>1, <2>2 DEF Submits
<1>6. CASE CancelRow
  <2>1. run' = run /\ stranded' = stranded /\ hand.op # "submit" /\ hand'.op # "submit"
    BY <1>2, <1>6 DEF CancelRow, FreeHand
  <2>2. task'[i].st = task[i].st \/ task'[i].st = "cancelled"
    <3>1. hand.id \in PIds
      BY <1>2, <1>6 DEF CancelRow, HandFits
    <3>2. CASE task' = [task EXCEPT ![hand.id].st = "cancelled"]
      BY <1>2, <3>1, <3>2 DEF Rows
    <3>3. CASE task' = task
      BY <3>3
    <3> QED BY <1>6, <3>2, <3>3 DEF CancelRow
  <2> QED BY <1>3, <2>1, <2>2 DEF Submits
<1>7. CASE StartRow
  <2>1. /\ run' = run /\ stranded' = stranded /\ hand.op = "start" /\ task[hand.id].st = "pending"
        /\ hand.id \in PIds /\ hand'.op = "submit" /\ hand'.id = hand.id
        /\ task' = [task EXCEPT ![hand.id].st = "running"]
    BY <1>2, <1>7 DEF StartRow, HandTo, HandFits, Hands
  <2>2. \A q \in Runs : (Holds(q, i)' <=> Holds(q, i)) /\ run'[q] = run[q]
    BY <2>1 DEF Holds
  <2>3. CASE hand.id # i
    <3>1. task'[i].st = task[i].st
      BY <1>2, <2>1, <2>3 DEF Rows
    <3> QED BY <1>3, <2>1, <2>3, <3>1 DEF Submits
  <2>4. CASE hand.id = i
    <3>1. task[i].st = "pending" /\ task'[i].st = "running" /\ Submits(i)'
      BY <1>2, <2>1, <2>4 DEF Rows, Submits
    <3>2. \A q \in Runs : ~Holds(q, i) /\ ~Holds(q, i)'
      BY <1>1, <2>2, <3>1 DEF HeldRow
    <3> QED BY <3>1, <3>2 DEF OneHolder, HeldRow
  <2> QED BY <2>3, <2>4
<1>8. ASSUME NEW r \in Runs, Submit(r) PROVE (OneHolder(i) /\ HeldRow(i))'
  <2> DEFINE x == [FreeRun EXCEPT !.at = "execute", !.id = hand.id]
  <2>1. /\ hand.op = "submit" /\ hand.id \in PIds /\ hand'.op = "idle" /\ task' = task /\ stranded' = stranded
        /\ run[r].at = "none" /\ RunFits(run[r]) /\ run' = [run EXCEPT ![r] = x]
    BY <1>1, <1>2, <1>8, FreeFits DEF Submit, TaskTypes, HandFits
  <2>2. x.at = "execute" /\ x.id = hand.id
    BY FreeFits DEF RunFits
  <2> HIDE DEF x
  <2>3. /\ run[r].id = NoId /\ run'[r].at = "execute" /\ run'[r].id = hand.id
        /\ \A q \in Runs \ {r} : run'[q] = run[q]
    BY <1>2, <2>1, <2>2 DEF RunFits
  <2>4. ~Holds(r, i) /\ ~Submits(i)' /\ (Holds(r, i)' <=> hand.id = i) /\ (Submits(i) <=> hand.id = i)
        /\ \A q \in Runs \ {r} : Holds(q, i)' <=> Holds(q, i)
    BY <1>2, <2>1, <2>3 DEF Holds, Submits
  <2>5. CASE hand.id # i
    <3>1. \A q \in Runs : (Holds(q, i)' <=> Holds(q, i)) /\ (Holds(q, i) => run'[q] = run[q])
      BY <2>3, <2>4, <2>5
    <3>2. OneHolder(i)'
      BY <1>1, <2>1, <2>4, <2>5, <3>1 DEF OneHolder
    <3>3. HeldRow(i)'
      BY <1>1, <2>1, <2>4, <2>5, <3>1 DEF HeldRow
    <3> QED BY <3>2, <3>3
  <2>6. CASE hand.id = i
    <3>1. task'[i].st = "running" /\ Holds(r, i)' /\ \A q \in Runs \ {r} : ~Holds(q, i)'
      BY <1>1, <2>1, <2>4, <2>6 DEF OneHolder
    <3> QED BY <2>3, <2>4, <3>1 DEF OneHolder, HeldRow
  <2> QED BY <2>5, <2>6
<1> QED BY <1>4, <1>5, <1>6, <1>7, <1>8 DEF Handler

(* A delivery, a cut or a restart keeps each row with its holder.                *)
LEMMA LinkRows ==
  ASSUME RowsInv, Deliver \/ Cut \/ Kill, NEW i \in PIds PROVE (OneHolder(i) /\ HeldRow(i))'
<1>1. TaskTypes /\ OneHolder(i) /\ HeldRow(i) /\ NoId # i
  BY NoIdIsNone DEF RowsInv
<1>2. CASE Deliver
  <2>1. run' = run /\ task' = task /\ hand' = hand /\ stranded' = stranded
    BY <1>2 DEF Deliver
  <2> QED BY <1>1, <2>1 DEF OneHolder, HeldRow, Holds, Submits
<1>3. CASE Cut
  <2>1. /\ run' = run /\ task' = task /\ hand'.op = "idle" /\ stranded \subseteq stranded'
        /\ (Submits(i) => i \in stranded')
    BY <1>3, FreeFits DEF Cut, Submits
  <2>2. \A q \in Runs : (Holds(q, i)' <=> Holds(q, i)) /\ run'[q] = run[q]
    BY <2>1 DEF Holds
  <2>3. ~Submits(i)'
    BY <2>1 DEF Submits
  <2>4. OneHolder(i)'
    BY <1>1, <2>2, <2>3 DEF OneHolder
  <2>5. HeldRow(i)'
    BY <1>1, <2>1, <2>2, <2>3 DEF HeldRow
  <2> QED BY <2>4, <2>5
<1>4. CASE Kill
  <2>1. /\ task' = task /\ hand'.op = "idle" /\ (task[i].st = "running" => i \in stranded')
        /\ \A q \in Runs : run'[q].id = NoId
    BY <1>4, FreeFits DEF Kill
  <2>2. ~Submits(i)' /\ \A q \in Runs : ~Holds(q, i)'
    BY <1>1, <2>1 DEF Submits, Holds
  <2> QED BY <2>1, <2>2 DEF OneHolder, HeldRow
<1> QED BY <1>2, <1>3, <1>4

(* Every step of the link and the threads keeps the rows with their holders.     *)
LEMMA RowsStep == RowsInv /\ PlatformNext => RowsInv'
<1> SUFFICES ASSUME RowsInv, PlatformNext PROVE RowsInv'
  OBVIOUS
<1>1. TaskTypes
  BY DEF RowsInv
<1>2. TaskTypes'
  BY <1>1, HandTypes, ThreadTypes, LinkTypes DEF PlatformNext
<1>3. ASSUME NEW i \in PIds PROVE (OneHolder(i) /\ HeldRow(i))'
  BY HandRows, ThreadRows, LinkRows DEF PlatformNext
<1> QED BY <1>2, <1>3 DEF RowsInv

---------------------------------------------------------------------------
(* Every start is accounted for: a step moves one of them from one place to the     *)
(* next.                                                                         *)
Accounted(i) == Submitting(i) + Cardinality(RunningFor(i)) + OnWire(i) + Len(told[i]) + gone[i]

(* What is counted of a task are natural numbers.                                *)
LEMMA CountsAreNumbers ==
  ASSUME TaskTypes, NEW i \in PIds
  PROVE  /\ Submitting(i) \in Nat /\ Cardinality(RunningFor(i)) \in Nat /\ OnWire(i) \in Nat
         /\ Len(told[i]) \in Nat /\ gone[i] \in Nat /\ starts[i] \in Nat
<1>1. Cardinality(RunningFor(i)) \in Nat
  BY RunsAreFinite
<1>2. OnWire(i) \in Nat
  BY PlacesAreFinite DEF TaskTypes, OnWire, Places
<1>3. told[i] \in Seq(Outcomes)
  BY DEF TaskTypes
<1> QED BY <1>1, <1>2, <1>3 DEF TaskTypes, Submitting

(* A free thread that is given a task is one more for that task.                 *)
LEMMA RunTakenUp ==
  ASSUME TaskTypes, NEW r \in Runs, run[r].at = "none", NEW x, run' = [run EXCEPT ![r] = x],
         x.id \in PIds, NEW i \in PIds
  PROVE  Cardinality(RunningFor(i)') = Cardinality(RunningFor(i)) + (IF x.id = i THEN 1 ELSE 0)
<1>1. run'[r] = x /\ run[r].id = NoId /\ \A q \in Runs \ {r} : run'[q] = run[q]
  BY DEF TaskTypes, RunFits
<1>2. r \notin RunningFor(i) /\ IsFiniteSet(RunningFor(i)) /\ Cardinality(RunningFor(i)) \in Nat
  BY <1>1, NoIdIsNone, RunsAreFinite DEF RunningFor
<1>3. CASE x.id = i
  <2>1. RunningFor(i)' = RunningFor(i) \cup {r}
    BY <1>1, <1>3 DEF RunningFor
  <2>2. Cardinality(RunningFor(i) \cup {r}) = Cardinality(RunningFor(i)) + 1
    BY <1>2, FS_AddElement
  <2> QED BY <1>3, <2>1, <2>2
<1>4. CASE x.id # i
  <2>1. RunningFor(i)' = RunningFor(i)
    BY <1>1, <1>2, <1>4 DEF RunningFor
  <2> QED BY <1>2, <1>4, <2>1
<1> QED BY <1>3, <1>4

(* A thread that is done with its task is one less for it.                       *)
LEMMA RunLetGo ==
  ASSUME TaskTypes, NEW r \in Runs, run[r].at # "none", run' = [run EXCEPT ![r] = FreeRun], NEW i \in PIds
  PROVE  Cardinality(RunningFor(i)) = Cardinality(RunningFor(i)') + (IF run[r].id = i THEN 1 ELSE 0)
<1>1. run'[r].id = NoId /\ run[r].id \in PIds /\ \A q \in Runs \ {r} : run'[q] = run[q]
  BY FreeFits DEF TaskTypes, RunFits, RowIds
<1>2. NoId # i /\ IsFiniteSet(RunningFor(i)) /\ Cardinality(RunningFor(i)) \in Nat
  BY NoIdIsNone, RunsAreFinite
<1>3. RunningFor(i)' = RunningFor(i) \ {r}
  BY <1>1, <1>2 DEF RunningFor
<1>4. Cardinality(RunningFor(i) \ {r}) = IF r \in RunningFor(i) THEN Cardinality(RunningFor(i)) - 1
                                           ELSE Cardinality(RunningFor(i))
  BY <1>2, FS_RemoveElement
<1>5. r \in RunningFor(i) <=> run[r].id = i
  BY DEF RunningFor
<1> QED BY <1>2, <1>3, <1>4, <1>5

(* A thread's step leaves a task's starts, and what became of them, as many as   *)
(* they were.                                                                    *)
LEMMA RunGoesOn ==
  ASSUME TaskTypes, NEW r \in Runs, RunStep(r), NEW i \in PIds
  PROVE  starts'[i] = starts[i] /\ Submitting(i)' = Submitting(i) /\ Accounted(i)' = Accounted(i)
<1> USE DEF RunTo, KeepRun, NoAnswer
<1>1. TaskTypes' /\ (hand' = hand /\ starts' = starts /\ told' = told)
  <2>1. hand' = hand /\ starts' = starts /\ told' = told
    BY DEF RunStep, Execute, CompleteRow, FillProgress, WriteRaises, SendResult, SendBlocked, FailRow,
           Requeue, FailRaises, Answer
  <2> QED BY <2>1, ThreadTypes
<1>2. Submitting(i)' = Submitting(i) /\ starts'[i] = starts[i] /\ Len(told[i])' = Len(told[i])
  BY <1>1 DEF Submitting
<1>3. CASE wire' = wire /\ gone' = gone /\ \A q \in Runs : run'[q].id = run[q].id
  <2>1. RunningFor(i)' = RunningFor(i) /\ OnWire(i)' = OnWire(i)
    BY <1>3 DEF RunningFor, OnWire
  <2> QED BY <1>2, <1>3, <2>1 DEF Accounted
<1>4. CASE SendResult(r) \/ SendBlocked(r)
  <2>1. PICK m \in Answers : m.id = run[r].id /\ wire' = Append(wire, m)
    BY <1>4 DEF SendResult, SendBlocked, Answer, Answers, TaskTypes, RunFits, RowIds, Outcomes
  <2>2. gone' = gone /\ run[r].at # "none" /\ run' = [run EXCEPT ![r] = FreeRun]
    BY <1>4 DEF SendResult, SendBlocked, Answer
  <2>3. Cardinality(RunningFor(i)) = Cardinality(RunningFor(i)') + (IF run[r].id = i THEN 1 ELSE 0)
    BY <2>2, RunLetGo
  <2>4. OnWire(i)' = OnWire(i) + (IF run[r].id = i THEN 1 ELSE 0)
    <3>1. /\ OnWire(i) = Cardinality(Places(wire, i)) /\ OnWire(i)' = Cardinality(Places(wire', i))
          /\ wire \in Seq(Answers)
      BY DEF OnWire, Places, TaskTypes
    <3> QED BY <2>1, <3>1, OneSent
  <2>5. /\ Submitting(i) \in Nat /\ Cardinality(RunningFor(i)') \in Nat /\ OnWire(i) \in Nat
        /\ Len(told[i]) \in Nat /\ gone[i] \in Nat
    BY CountsAreNumbers, RunsAreFinite
  <2>6. gone'[i] = gone[i] /\ Len(told'[i]) = Len(told[i])
    BY <1>1, <2>2
  <2> QED BY <1>2, <2>3, <2>4, <2>5, <2>6 DEF Accounted
<1>5. CASE FailRaises(r)
  <2>1. /\ run[r].at # "none" /\ run' = [run EXCEPT ![r] = FreeRun] /\ wire' = wire
        /\ gone' = [gone EXCEPT ![run[r].id] = @ + 1]
    BY <1>5 DEF FailRaises
  <2>2. Cardinality(RunningFor(i)) = Cardinality(RunningFor(i)') + (IF run[r].id = i THEN 1 ELSE 0)
    BY <2>1, RunLetGo
  <2>3. gone'[i] = gone[i] + (IF run[r].id = i THEN 1 ELSE 0)
    BY <2>1 DEF TaskTypes
  <2>4. /\ Submitting(i) \in Nat /\ Cardinality(RunningFor(i)') \in Nat /\ OnWire(i) \in Nat
        /\ Len(told[i]) \in Nat /\ gone[i] \in Nat /\ OnWire(i)' = OnWire(i)
    <3>1. OnWire(i)' = OnWire(i)
      BY <2>1 DEF OnWire
    <3> QED BY <3>1, CountsAreNumbers, RunsAreFinite
  <2> QED BY <1>2, <2>2, <2>3, <2>4 DEF Accounted
<1>6. \/ wire' = wire /\ gone' = gone /\ \A q \in Runs : run'[q].id = run[q].id
      \/ SendResult(r) \/ SendBlocked(r) \/ FailRaises(r)
  <2>1. ASSUME \/ \E place \in RunAts, res \in Outcomes : run' = [run EXCEPT ![r].at = place, ![r].res = res]
               \/ \E place \in RunAts : run' = [run EXCEPT ![r].at = place]
        PROVE  \A q \in Runs : run'[q].id = run[q].id
    <3>1. ASSUME NEW place \in RunAts, run' = [run EXCEPT ![r].at = place] PROVE \A q \in Runs : run'[q].id = run[q].id
      BY <3>1 DEF TaskTypes
    <3>2. ASSUME NEW place \in RunAts, NEW res \in Outcomes, run' = [run EXCEPT ![r].at = place, ![r].res = res]
          PROVE  \A q \in Runs : run'[q].id = run[q].id
      BY <3>2 DEF TaskTypes
    <3> QED BY <2>1, <3>1, <3>2
  <2>2. CASE Execute(r) \/ WriteRaises(r) \/ CompleteRow(r) \/ FillProgress(r) \/ Requeue(r) \/ FailRow(r)
    <3>1. wire' = wire /\ gone' = gone
      BY <2>2 DEF Execute, WriteRaises, CompleteRow, FillProgress, Requeue, FailRow
    <3>2. \/ \E place \in RunAts, res \in Outcomes : run' = [run EXCEPT ![r].at = place, ![r].res = res]
          \/ \E place \in RunAts : run' = [run EXCEPT ![r].at = place]
      BY <2>2 DEF Execute, WriteRaises, CompleteRow, FillProgress, Requeue, FailRow, RunAts
    <3> QED BY <2>1, <3>1, <3>2
  <2> QED BY <2>2 DEF RunStep
<1> QED BY <1>2, <1>3, <1>4, <1>5, <1>6

(* A step of the handler that starts a run adds it to both sides.                *)
LEMMA HandGoesOn ==
  ASSUME TaskTypes, Handler, NEW i \in PIds
  PROVE  \E k \in {0, 1} : starts'[i] = starts[i] + k /\ Accounted(i)' = Accounted(i) + k
<1> USE DEF OnlyHand
<1>1. /\ HandFits(hand) /\ TaskTypes' /\ starts \in [PIds -> Nat]
      /\ wire' = wire /\ told' = told /\ gone' = gone /\ OnWire(i)' = OnWire(i)
  <2>1. wire' = wire /\ told' = told /\ gone' = gone
    BY DEF Handler, Receive, Prepare, CreateRow, StartRow, NotStarted, Submit, LookUp, ReadStatus, CancelRow
  <2> QED BY <2>1, HandTypes DEF TaskTypes, OnWire
<1>2. /\ Submitting(i) \in Nat /\ Cardinality(RunningFor(i)) \in Nat /\ OnWire(i) \in Nat
      /\ Len(told[i]) \in Nat /\ gone[i] \in Nat /\ starts[i] \in Nat
  BY CountsAreNumbers
<1>3. CASE starts' = starts /\ run' = run /\ hand.op # "submit" /\ hand'.op # "submit"
  <2>1. Submitting(i)' = Submitting(i) /\ RunningFor(i)' = RunningFor(i) /\ starts'[i] = starts[i] + 0
    BY <1>2, <1>3 DEF Submitting, RunningFor
  <2>2. Accounted(i)' = Accounted(i)
    BY <1>1, <2>1 DEF Accounted
  <2> QED BY <1>2, <2>1, <2>2 DEF Accounted
<1>4. CASE StartRow
  <2>1. /\ run' = run /\ hand.op = "start" /\ hand.id \in PIds /\ hand'.op = "submit" /\ hand'.id = hand.id
        /\ starts' = [starts EXCEPT ![hand.id] = @ + 1]
    BY <1>1, <1>4 DEF StartRow, HandTo, HandFits, Hands
  <2>2. Submitting(i) = 0 /\ Submitting(i)' = IF hand.id = i THEN 1 ELSE 0
    BY <2>1 DEF Submitting
  <2>3. RunningFor(i)' = RunningFor(i) /\ starts'[i] = starts[i] + (IF hand.id = i THEN 1 ELSE 0)
    BY <1>1, <1>2, <2>1 DEF RunningFor
  <2>4. Accounted(i)' = Accounted(i) + (IF hand.id = i THEN 1 ELSE 0)
    BY <1>1, <1>2, <2>2, <2>3 DEF Accounted
  <2> QED BY <2>3, <2>4
<1>5. ASSUME NEW r \in Runs, Submit(r)
      PROVE  \E k \in {0, 1} : starts'[i] = starts[i] + k /\ Accounted(i)' = Accounted(i) + k
  <2> DEFINE x == [FreeRun EXCEPT !.at = "execute", !.id = hand.id]
  <2>1. /\ hand.op = "submit" /\ hand.id \in PIds /\ hand'.op = "idle" /\ starts' = starts
        /\ run[r].at = "none" /\ run' = [run EXCEPT ![r] = x]
    BY <1>1, <1>5, FreeFits DEF Submit, HandFits
  <2>2. x.id = hand.id
    BY FreeFits DEF RunFits
  <2> HIDE DEF x
  <2>3. Cardinality(RunningFor(i)') = Cardinality(RunningFor(i)) + (IF hand.id = i THEN 1 ELSE 0)
    BY <2>1, <2>2, RunTakenUp
  <2>4. Submitting(i)' = 0 /\ Submitting(i) = IF hand.id = i THEN 1 ELSE 0
    BY <2>1 DEF Submitting
  <2>5. Accounted(i)' = Accounted(i) + 0
    BY <1>1, <1>2, <2>3, <2>4 DEF Accounted
  <2>6. starts'[i] = starts[i] + 0
    BY <1>2, <2>1
  <2> QED BY <2>5, <2>6
<1>6. \/ starts' = starts /\ run' = run /\ hand.op # "submit" /\ hand'.op # "submit"
      \/ StartRow \/ \E r \in Runs : Submit(r)
  <2>1. CASE (\E j \in PIds, op \in {"prepare", "list"} : Receive(j, op)) \/ Prepare \/ NotStarted \/ LookUp \/ ReadStatus
    BY <1>1, <2>1, QuietHand DEF Receive, Prepare, NotStarted, LookUp, ReadStatus
  <2>2. CASE CreateRow \/ CancelRow
    BY <1>1, <2>2, FreeFits, HandOps DEF CreateRow, CancelRow
  <2> QED BY <2>1, <2>2 DEF Handler
<1> QED BY <1>3, <1>4, <1>5, <1>6

(* A delivery moves an answer from the queue to the platform, a restart what was *)
(* there to what is gone.                                                        *)
LEMMA LinkGoesOn ==
  ASSUME TaskTypes, Deliver \/ Cut \/ Kill, NEW i \in PIds
  PROVE  starts'[i] = starts[i] /\ Accounted(i)' = Accounted(i)
<1>1. /\ Submitting(i) \in Nat /\ Cardinality(RunningFor(i)) \in Nat /\ OnWire(i) \in Nat
      /\ Len(told[i]) \in Nat /\ gone[i] \in Nat /\ starts[i] \in Nat
  BY CountsAreNumbers
<1>2. /\ OnWire(i) = Cardinality(Places(wire, i)) /\ OnWire(i)' = Cardinality(Places(wire', i))
      /\ wire \in Seq(Answers) /\ gone \in [PIds -> Nat] /\ told \in [PIds -> Seq(Outcomes)]
      /\ HandFits(hand)
  BY DEF OnWire, Places, TaskTypes
<1>3. starts'[i] = starts[i]
  BY DEF Deliver, Cut, Kill
<1>4. ASSUME wire # << >>, wire' = Tail(wire)
      PROVE  /\ OnWire(i) = OnWire(i)' + (IF Head(wire).id = i THEN 1 ELSE 0)
             /\ OnWire(i)' \in Nat
  <2>1. Tail(wire) \in Seq(Answers)
    BY <1>2, <1>4
  <2> QED BY <1>2, <1>4, <2>1, FirstTaken, PlacesAreFinite
<1>5. CASE Deliver
  <2>1. Submitting(i)' = Submitting(i) /\ RunningFor(i)' = RunningFor(i) /\ gone'[i] = gone[i]
    BY <1>5 DEF Deliver, Submitting, RunningFor
  <2>2. OnWire(i) = OnWire(i)' + (IF Head(wire).id = i THEN 1 ELSE 0) /\ OnWire(i)' \in Nat
    BY <1>4, <1>5 DEF Deliver
  <2>3. Len(told'[i]) = Len(told[i]) + (IF Head(wire).id = i THEN 1 ELSE 0)
    <3>1. wire # << >> => Head(wire).what \in Outcomes
      <4>1. wire # << >> => Head(wire) \in Answers
        BY <1>2
      <4> QED BY <4>1 DEF Answers
    <3>2. CASE Head(wire).id = i
      <4>1. told'[i] = Append(told[i], Head(wire).what) /\ told[i] \in Seq(Outcomes)
        BY <1>2, <1>5, <3>2 DEF Deliver
      <4>2. PICK what \in Outcomes : what = Head(wire).what
        BY <1>5, <3>1 DEF Deliver
      <4>3. Len(Append(told[i], what)) = Len(told[i]) + 1
        BY <4>1, <4>2
      <4> QED BY <3>2, <4>1, <4>2, <4>3
    <3>3. CASE Head(wire).id # i
      BY <1>1, <1>2, <1>5, <3>3 DEF Deliver
    <3> QED BY <3>2, <3>3
  <2>4. PICK k \in {0, 1} : OnWire(i) = OnWire(i)' + k /\ Len(told'[i]) = Len(told[i]) + k
    BY <2>2, <2>3
  <2>5. Cardinality(RunningFor(i))' = Cardinality(RunningFor(i)) /\ OnWire(i)' \in Nat
    BY <2>1, <2>2
  <2> QED BY <1>1, <1>3, <2>1, <2>4, <2>5 DEF Accounted
<1>6. CASE Cut
  <2>1. RunningFor(i)' = RunningFor(i) /\ told' = told /\ Submitting(i)' = 0
    BY <1>6, FreeFits DEF Cut, RunningFor, Submitting
  <2>2. gone'[i] = gone[i] + (IF wire # << >> /\ Head(wire).id = i THEN 1 ELSE 0) + Submitting(i)
    BY <1>1, <1>2, <1>6 DEF Cut, Submitting
  <2>3. OnWire(i) = OnWire(i)' + (IF wire # << >> /\ Head(wire).id = i THEN 1 ELSE 0) /\ OnWire(i)' \in Nat
    <3>1. CASE wire = << >>
      BY <1>1, <1>2, <1>6, <3>1 DEF Cut
    <3>2. CASE wire # << >>
      BY <1>4, <1>6, <3>2 DEF Cut
    <3> QED BY <3>1, <3>2
  <2> QED BY <1>1, <1>3, <2>1, <2>2, <2>3 DEF Accounted
<1>7. CASE Kill
  <2>1. Submitting(i)' = 0 /\ told' = told
    BY <1>7, FreeFits DEF Kill, Submitting
  <2>2. RunningFor(i)' = {}
    BY <1>7, NoIdIsNone, FreeFits DEF Kill, RunningFor
  <2>3. OnWire(i)' = Cardinality({})
    BY <1>7 DEF Kill, OnWire
  <2>4. gone'[i] = gone[i] + Cardinality(RunningFor(i)) + OnWire(i) + Submitting(i)
    BY <1>7 DEF Kill
  <2>5. Cardinality({}) = 0
    BY FS_EmptySet
  <2>6. Cardinality(RunningFor(i))' = 0 /\ OnWire(i)' = 0 /\ Len(told[i])' = Len(told[i])
    BY <2>1, <2>2, <2>3, <2>5
  <2> QED BY <1>1, <1>3, <2>1, <2>4, <2>6 DEF Accounted
<1> QED BY <1>3, <1>5, <1>6, <1>7

(* Every step keeps the invariant.                                               *)
LEMMA TasksStep == TasksInv /\ [PlatformNext]_workVars => TasksInv'
<1> SUFFICES ASSUME TasksInv, [PlatformNext]_workVars PROVE TasksInv'
  OBVIOUS
<1>1. CASE UNCHANGED workVars
  <2>1. /\ task' = task /\ hand' = hand /\ run' = run /\ wire' = wire /\ told' = told /\ starts' = starts
        /\ gone' = gone /\ stranded' = stranded
    BY <1>1 DEF workVars
  <2>2. TaskTypes'
    BY <2>1 DEF TasksInv, RowsInv, TaskTypes
  <2>3. \A i \in PIds : (OneHolder(i) /\ HeldRow(i))'
    BY <2>1 DEF TasksInv, RowsInv, OneHolder, HeldRow, Holds, Submits
  <2>4. \A i \in PIds : Submitting(i)' = Submitting(i) /\ RunningFor(i)' = RunningFor(i) /\ OnWire(i)' = OnWire(i)
    BY <2>1 DEF Submitting, RunningFor, OnWire
  <2>5. RunsAnswered'
    BY <2>1, <2>4 DEF TasksInv, RunsAnswered
  <2> QED BY <2>2, <2>3, <2>5 DEF TasksInv, RowsInv
<1>2. CASE PlatformNext
  <2>1. RowsInv /\ TaskTypes
    BY DEF TasksInv, RowsInv
  <2>2. ASSUME NEW i \in PIds PROVE starts'[i] = Accounted(i)'
    <3>1. starts[i] = Accounted(i)
      BY DEF TasksInv, RunsAnswered, Accounted
    <3>2. CASE Handler
      BY <2>1, <3>1, <3>2, HandGoesOn
    <3>3. ASSUME NEW r \in Runs, RunStep(r) PROVE starts'[i] = Accounted(i)'
      BY <2>1, <3>1, <3>3, RunGoesOn
    <3>4. CASE Deliver \/ Cut \/ Kill
      BY <2>1, <3>1, <3>4, LinkGoesOn
    <3> QED BY <1>2, <3>2, <3>3, <3>4 DEF PlatformNext
  <2>3. RunsAnswered'
    BY <2>2 DEF RunsAnswered, Accounted
  <2> QED BY <1>2, <2>1, <2>3, RowsStep DEF TasksInv
<1> QED BY <1>1, <1>2

(* The invariant implies what the run checks.                                    *)
LEMMA TasksImplies == TasksInv => TasksSound
<1> SUFFICES ASSUME TasksInv PROVE TasksSound
  OBVIOUS
<1>1. ASSUME NEW i \in PIds
      PROVE  /\ Cardinality(Holding(i)) + Submitting(i) <= 1
             /\ task[i].st = "running" /\ i \notin stranded => Cardinality(Holding(i)) + Submitting(i) = 1
             /\ \A r \in Holding(i) : run[r].at \in {"execute", "complete"} => task[i].st \in {"running", "cancelled"}
  <2>1. OneHolder(i) /\ HeldRow(i) /\ Holding(i) = {r \in Runs : Holds(r, i)}
    BY DEF TasksInv, RowsInv, Holding, Holds
  <2>2. Submitting(i) = IF Submits(i) THEN 1 ELSE 0
    BY DEF Submitting, Submits
  <2>3. CASE \E r \in Runs : Holds(r, i)
    <3>1. PICK r \in Runs : Holds(r, i)
      BY <2>3
    <3>2. Holding(i) = {r} /\ ~Submits(i)
      BY <2>1, <3>1 DEF OneHolder
    <3>3. Cardinality(Holding(i)) = 1
      BY <3>2, FS_Singleton
    <3> QED BY <2>1, <2>2, <3>2, <3>3 DEF HeldRow
  <2>4. CASE ~\E r \in Runs : Holds(r, i)
    <3>1. Holding(i) = {}
      BY <2>1, <2>4
    <3>2. Cardinality(Holding(i)) = 0
      BY <3>1, FS_EmptySet
    <3> QED BY <2>1, <2>2, <2>4, <3>1, <3>2 DEF HeldRow
  <2> QED BY <2>3, <2>4
<1>2. RunsOwnRow
  BY <1>1 DEF RunsOwnRow
<1> QED BY <1>2 DEF TasksSound, TasksInv

-----------------------------------------------------------------------------
Kept(r) == \A i \in 2 .. Len(r) : r[i - 1] <= r[i] /\ r[i - 1] < 100

Unbegun == {"zero", "model", "code"}

RunTypes ==
  /\ at \in Unbegun \cup {"none", "rounds", "fix", "delegated", "ended"}
  /\ answer \in {"none", "SUCCESS", "BLOCKED", "REVISION_NEEDED"}
  /\ round \in Nat /\ asked \in Nat /\ reports \in Seq(0 .. 100)
  /\ at # "none" => order \in Orders
  /\ at = "none" => order = << >>

(* What has been reported and asked at each step.                              *)
Pace ==
  /\ at = "none" => reports = << >>
  /\ at \in Unbegun => reports = << >> /\ (at = "zero" <=> order.zero)
  /\ at = "rounds" => /\ reports # << >>
                      /\ order.zero => Last(reports) = 40
                      /\ ~order.zero => Last(reports) \in 5 .. 80 /\ (Last(reports) <= 5 + 12 * (round + 1))
  /\ at = "fix" => order.zero /\ reports # << >> /\ Last(reports) = 80
  /\ at = "delegated" => ~order.zero /\ reports # << >> /\ Last(reports) = 10
Effort ==
  /\ at \in Unbegun \cup {"none"} => asked = 0 /\ round = 0
  /\ at = "rounds" => asked = round /\ round <= (IF order.zero /\ ZeroRounds < MaxRounds THEN ZeroRounds ELSE MaxRounds)
  /\ at = "fix" => round <= Fixes /\ asked <= ZeroRounds + round
  /\ at = "delegated" => asked = 0
Most == IF order.zero THEN ZeroRounds + Fixes ELSE MaxRounds
Outcome ==
  /\ at = "ended" <=> answer # "none"
  /\ answer = "SUCCESS" => Last(reports) = 100 /\ (order.zero => plan # << >>)
  /\ at = "ended" => asked <= Most
RunInv == RunTypes /\ Kept(reports) /\ Pace /\ Effort /\ Outcome

(* The smaller of two numbers, as the library defines it.                        *)
LEMMA SmallerOf == ASSUME NEW a \in Int, NEW b \in Int PROVE Min({a, b}) = IF a <= b THEN a ELSE b
<1>1. PICK c \in {a, b} : \A y \in {a, b} : c <= y
  OBVIOUS
<1>2. Min({a, b}) \in {a, b} /\ \A y \in {a, b} : Min({a, b}) <= y
  BY <1>1 DEF Min
<1> QED BY <1>2

(* One more report, not below the last, and nothing after 100.                   *)
LEMMA OneReport ==
  ASSUME NEW r \in Seq(0 .. 100), Kept(r), NEW n \in 0 .. 100,
         r # << >> => Last(r) <= n /\ Last(r) < 100
  PROVE  /\ Append(r, n) \in Seq(0 .. 100) /\ Kept(Append(r, n))
         /\ Append(r, n) # << >> /\ Last(Append(r, n)) = n
<1> DEFINE s == Append(r, n)
<1>1. s \in Seq(0 .. 100) /\ Len(s) = Len(r) + 1 /\ s[Len(s)] = n /\ Len(r) \in Nat
  OBVIOUS
<1>2. \A i \in 1 .. Len(r) : s[i] = r[i]
  OBVIOUS
<1>3. ASSUME NEW i \in 2 .. Len(s) PROVE s[i - 1] <= s[i] /\ s[i - 1] < 100
  <2>1. CASE i <= Len(r)
    BY <1>1, <1>2, <1>3, <2>1 DEF Kept
  <2>2. CASE i = Len(r) + 1
    <3>1. s[i - 1] = Last(r) /\ r # << >> /\ s[i] = n
      BY <1>1, <1>2, <1>3, <2>2 DEF Last
    <3> QED BY <3>1
  <2> QED BY <1>1, <2>1, <2>2
<1> HIDE DEF s
<1>4. s # << >>
  BY <1>1
<1> QED BY <1>1, <1>3, <1>4 DEF Kept, Last, s

(* Two elements put at the end are one put after the other.                      *)
LEMMA TwoAppended == ASSUME NEW S, NEW r \in Seq(S), NEW a \in S, NEW b \in S
                     PROVE  r \o <<a, b>> = Append(Append(r, a), b)
OBVIOUS

(* Two reports at once, the first not below the last one made.                   *)
LEMMA TwoReports ==
  ASSUME NEW r \in Seq(0 .. 100), Kept(r), NEW a \in 0 .. 100, NEW b \in 0 .. 100, a <= b, a < 100,
         r # << >> => Last(r) <= a /\ Last(r) < 100
  PROVE  /\ r \o <<a, b>> \in Seq(0 .. 100) /\ Kept(r \o <<a, b>>)
         /\ r \o <<a, b>> # << >> /\ Last(r \o <<a, b>>) = b
<1> DEFINE t == Append(r, a)
           u == Append(t, b)
<1>1. t \in Seq(0 .. 100) /\ t # << >> /\ Kept(t) /\ Last(t) = a
  BY OneReport
<1> HIDE DEF t
<1>2. u \in Seq(0 .. 100) /\ u # << >> /\ Kept(u) /\ Last(u) = b
  BY <1>1, OneReport
<1> HIDE DEF u
<1>3. r \o <<a, b>> = u
  BY TwoAppended DEF t, u
<1> QED BY <1>2, <1>3

(* The invariant holds before an order comes.                                    *)
LEMMA RunInit == RunIdle => RunInv
<1> SUFFICES ASSUME RunIdle PROVE RunInv
  OBVIOUS
<1>1. Kept(<< >>) /\ << >> \in Seq(0 .. 100)
  BY DEF Kept
<1> QED BY <1>1 DEF RunIdle, RunInv, RunTypes, Pace, Effort, Outcome, Unbegun

(* What a step reports, whichever it is, keeps to the order of the reports.        *)
Reported(lasts) == /\ reports' \in Seq(0 .. 100) /\ Kept(reports') /\ reports' # << >>
                   /\ Last(reports') \in lasts

(* A step that makes two reports ends with the second.                           *)
LEMMA ReportsTwo ==
  ASSUME reports \in Seq(0 .. 100), Kept(reports), NEW a \in 0 .. 100, NEW b \in 0 .. 100, a <= b, a < 100,
         reports # << >> => Last(reports) <= a /\ Last(reports) < 100,
         reports' = reports \o <<a, b>>
  PROVE  Reported({b})
<1>1. reports' \in Seq(0 .. 100) /\ reports' # << >> /\ Kept(reports') /\ Last(reports') = b
  BY TwoReports
<1> QED BY <1>1 DEF Reported

(* A step that makes one report ends with it.                                    *)
LEMMA ReportsOne ==
  ASSUME reports \in Seq(0 .. 100), Kept(reports), NEW n \in 0 .. 100,
         reports # << >> => Last(reports) <= n /\ Last(reports) < 100,
         reports' = Append(reports, n)
  PROVE  Reported({n})
BY OneReport DEF Reported

(* What each step reports, and with which number it leaves the run.              *)
LEMMA RunReports ==
  ASSUME RunInv
  PROVE  /\ ZeroStart => Reported({40})
         /\ ModelStart => Reported({15})
         /\ CodeStart => Reported({10})
         /\ ZeroReply => Reported({80})
         /\ ZeroEnd \/ ModelEnd \/ CodeEnd => Reported({100})
         /\ ToolRound /\ ~order.zero => Reported({n \in 5 .. 80 : n <= 5 + 12 * (round' + 1)})
         /\ RunRaises => reports' \in Seq(0 .. 100) /\ Kept(reports')
<1>00. reports \in Seq(0 .. 100) /\ Kept(reports)
  BY DEF RunInv, RunTypes
<1>0. round \in Nat /\ Pace
  BY DEF RunInv, RunTypes
<1>1. ASSUME ZeroStart PROVE Reported({40})
  <2>1. reports = << >> /\ reports' = reports \o <<5, 15, 40>>
    BY <1>0, <1>1 DEF ZeroStart, Pace, Unbegun
  <2>2. reports' = <<5, 15, 40>>
    BY <2>1
  <2> QED BY <2>2 DEF Reported, Kept, Last
<1>2. ASSUME ModelStart PROVE Reported({15})
  <2>1. reports = << >> /\ reports' = reports \o <<5, 15>>
    BY <1>0, <1>2 DEF ModelStart, Pace, Unbegun
  <2>2. reports' = <<5, 15>>
    BY <2>1
  <2> QED BY <2>2 DEF Reported, Kept, Last
<1>3. ASSUME CodeStart PROVE Reported({10})
  <2>1. reports = << >> /\ reports' = reports \o <<5, 10>>
    BY <1>0, <1>3 DEF CodeStart, Pace, Unbegun
  <2>2. reports' = <<5, 10>>
    BY <2>1
  <2> QED BY <2>2 DEF Reported, Kept, Last
<1>4. ASSUME ZeroReply PROVE Reported({80})
  <2>1. Last(reports) = 40
    BY <1>0, <1>4 DEF ZeroReply, Pace
  <2>2. 60 \in 0 .. 100 /\ 80 \in 0 .. 100 /\ 60 <= 80 /\ 60 < 100 /\ Last(reports) <= 60 /\ Last(reports) < 100
    BY <2>1
  <2>3. reports' = reports \o <<60, 80>>
    BY <1>4 DEF ZeroReply
  <2> QED BY <1>00, <2>2, <2>3, ReportsTwo
<1>5. ASSUME ZeroEnd \/ CodeEnd PROVE Reported({100})
  <2>1. Last(reports) \in {10, 80}
    BY <1>0, <1>5 DEF ZeroEnd, CodeEnd, Pace
  <2>2. 90 \in 0 .. 100 /\ 100 \in 0 .. 100 /\ 90 <= 100 /\ 90 < 100 /\ Last(reports) <= 90 /\ Last(reports) < 100
    BY <2>1
  <2>3. reports' = reports \o <<90, 100>>
    BY <1>5 DEF ZeroEnd, CodeEnd
  <2> QED BY <1>00, <2>2, <2>3, ReportsTwo
<1>6. ASSUME ModelEnd PROVE Reported({100})
  <2>1. Last(reports) \in 5 .. 80
    BY <1>0, <1>6 DEF ModelEnd, Pace
  <2>2. 95 \in 0 .. 100 /\ 100 \in 0 .. 100 /\ 95 <= 100 /\ 95 < 100 /\ Last(reports) <= 95 /\ Last(reports) < 100
    BY <2>1
  <2>3. reports' = reports \o <<95, 100>>
    BY <1>6 DEF ModelEnd
  <2> QED BY <1>00, <2>2, <2>3, ReportsTwo
<1>7. ASSUME ToolRound, ~order.zero PROVE Reported({n \in 5 .. 80 : n <= 5 + 12 * (round' + 1)})
  <2>1. /\ round' = round + 1
        /\ Last(reports) \in 5 .. 80 /\ Last(reports) <= 5 + 12 * (round + 1)
    BY <1>0, <1>7 DEF ToolRound, Pace
  <2>2. PICK k \in Nat : k = 5 + 12 * round'
    BY <1>0, <2>1
  <2>3. k >= 17 /\ Last(reports) <= k
    BY <1>0, <2>1, <2>2
  <2>4. Min({k, 80}) = IF k <= 80 THEN k ELSE 80
    BY SmallerOf
  <2>5. PICK n \in 5 .. 80 : n = Min({k, 80})
    BY <2>3, <2>4
  <2>6. n \in 0 .. 100 /\ Last(reports) <= n /\ Last(reports) < 100 /\ n <= k
    BY <2>1, <2>3, <2>4, <2>5
  <2>7. reports' = Append(reports, n)
    BY <1>7, <2>2, <2>5 DEF ToolRound, Report
  <2>8. Reported({n})
    BY <1>00, <2>6, <2>7, ReportsOne
  <2>9. n <= 5 + 12 * (round' + 1)
    BY <1>0, <2>1, <2>2, <2>6
  <2> QED BY <2>5, <2>8, <2>9 DEF Reported
<1>8. ASSUME RunRaises PROVE reports' \in Seq(0 .. 100) /\ Kept(reports')
  <2>1. \/ reports' = reports
        \/ at \in Unbegun /\ reports' = Append(reports, 5)
        \/ at \in {"rounds", "fix", "delegated"} /\ reports' = Append(reports, 90)
        \/ at \in {"rounds", "fix", "delegated"} /\ reports' = Append(reports, 95)
    BY <1>8 DEF RunRaises, Report, Unbegun
  <2>2. at \in Unbegun => reports = << >>
    BY <1>0 DEF Pace
  <2>6. ASSUME at \in {"rounds", "fix", "delegated"} PROVE Last(reports) \in 5 .. 80
    <3>1. CASE at = "rounds" /\ order.zero
      BY <1>0, <3>1 DEF Pace
    <3>2. CASE at = "rounds" /\ ~order.zero
      BY <1>0, <3>2 DEF Pace
    <3>3. CASE at \in {"fix", "delegated"}
      BY <1>0, <3>3 DEF Pace
    <3> QED BY <2>6, <3>1, <3>2, <3>3
  <2>7. at \in {"rounds", "fix", "delegated"} =>
          Last(reports) <= 90 /\ Last(reports) <= 95 /\ Last(reports) < 100
    BY <2>6
  <2>3. 5 \in 0 .. 100 /\ 90 \in 0 .. 100 /\ 95 \in 0 .. 100
    OBVIOUS
  <2>4. ASSUME at \in Unbegun, reports' = Append(reports, 5) PROVE Reported({5})
    BY <1>00, <2>2, <2>3, <2>4, ReportsOne
  <2>5. ASSUME at \in {"rounds", "fix", "delegated"}, NEW n \in {90, 95}, reports' = Append(reports, n)
        PROVE Reported({n})
    BY <1>00, <2>3, <2>5, <2>7, ReportsOne
  <2> QED BY <1>00, <2>1, <2>4, <2>5 DEF Reported
<1> QED BY <1>1, <1>2, <1>3, <1>4, <1>5, <1>6, <1>7, <1>8

(* Every step of the run keeps the invariant.                                    *)
LEMMA TaskRunStep == RunInv /\ [TaskRunNext]_runVars => RunInv'
<1> SUFFICES ASSUME RunInv, [TaskRunNext]_runVars PROVE RunInv'
  OBVIOUS
<1> USE TaskRunConstants DEF RunInv, RunTypes, Pace, Effort, Outcome, Most, Unbegun, Reported
<1>1. CASE UNCHANGED runVars
  BY <1>1 DEF runVars
<1>2. CASE TakeOrder
  <2>1. PICK o \in Orders : order' = o /\ at' = Executor(o)
    BY <1>2 DEF TakeOrder
  <2>2. Executor(o) \in Unbegun /\ (Executor(o) = "zero" <=> o.zero)
    BY <2>1 DEF Executor, Orders
  <2> QED BY <1>2, <2>1, <2>2 DEF TakeOrder
<1>3. CASE ZeroStart
  BY <1>3, RunReports DEF ZeroStart, GoTo
<1>4. CASE ModelStart
  BY <1>4, RunReports DEF ModelStart, GoTo
<1>5. CASE CodeStart
  BY <1>5, RunReports DEF CodeStart, GoTo
<1>6. CASE ToolRound
  <2>1. CASE order.zero
    BY <1>6, <2>1 DEF ToolRound, RoundsLeft
  <2>2. CASE ~order.zero
    BY <1>6, <2>2, RunReports DEF ToolRound, RoundsLeft
  <2> QED BY <2>1, <2>2
<1>7. CASE ZeroEmpty
  BY <1>7 DEF ZeroEmpty, RoundsLeft, Finish
<1>8. CASE ZeroReply
  BY <1>8, RunReports DEF ZeroReply, GoTo, RoundsLeft
<1>9. CASE ZeroFix
  BY <1>9 DEF ZeroFix
<1>10. CASE ZeroEnd
  BY <1>10, RunReports DEF ZeroEnd, Finish
<1>11. CASE ModelEnd
  BY <1>11, RunReports DEF ModelEnd, Finish, RoundsLeft
<1>12. CASE CodeEnd
  BY <1>12, RunReports DEF CodeEnd, Finish
<1>13. CASE RunRaises
  BY <1>13, RunReports DEF RunRaises, Finish
<1> QED BY <1>1, <1>2, <1>3, <1>4, <1>5, <1>6, <1>7, <1>8, <1>9, <1>10, <1>11, <1>12, <1>13
        DEF TaskRunNext

(* The invariant implies what the run checks.                                    *)
LEMMA RunImplies == RunInv => TaskRunSound
<1> SUFFICES ASSUME RunInv PROVE TaskRunSound
  OBVIOUS
<1>1. order # << >> => asked <= Most
  <2>1. CASE at \in Unbegun \cup {"none", "delegated"}
    BY <2>1, TaskRunConstants DEF RunInv, Effort, Most
  <2>2. CASE at \in {"rounds", "fix"}
    BY <2>2, TaskRunConstants DEF RunInv, RunTypes, Pace, Effort, Most
  <2>3. CASE at = "ended"
    BY <2>3 DEF RunInv, Outcome
  <2> QED BY <2>1, <2>2, <2>3 DEF RunInv, RunTypes
<1> QED BY <1>1 DEF RunInv, Outcome, Kept, Last, Most, TaskRunSound

-----------------------------------------------------------------------------
ProjectRows == [st : ProjectStates \cup {"none"}, plan : BOOLEAN, text : Nat, ended : BOOLEAN]

AnySplit  == [at : {"none", "read", "tasks", "plan", "reread", "send"}, got : ProjectRows]
AnyDelete == [at : {"none", "read", "send", "delete"}, got : ProjectRows]
USE DEF AnySplit, AnyDelete

ProjectTypes ==
  /\ project \in ProjectRows /\ sent \in Seq(ProjectRows)
  /\ splitter \in [Splitters -> AnySplit]
  /\ api \in AnyDelete

(* What the platform will have when all messages have come.                        *)
Newest == IF sent = << >> THEN copy ELSE sent[Len(sent)]
NoneToCome == api.at = "none" /\ \A s \in Splitters : splitter[s].at \notin {"reread", "send"}

(* The notice of a deletion is the newest message from the notice on, and stays it     *)
(* when the row is gone, whatever a decomposition is about to read back; otherwise     *)
(* the newest message is the row when nobody is about to send.                       *)
ProjectInv ==
  /\ ProjectTypes /\ RepoWhole
  /\ project.st = "none" => project = NoProject /\ api.at = "none"
  /\ api.at = "delete" /\ ~behind => Newest = NoProject
  /\ (NoneToCome \/ project.st = "none") /\ ~behind => Newest = project

(* The project that is not there is a row, and a resting splitter has none.      *)
LEMMA NoProjectFits == NoProject \in ProjectRows /\ NoProject.st = "none" /\ Waiting.at = "none" /\ Waiting.got = NoProject
BY DEF NoProject, ProjectRows, Waiting

(* The invariant holds at the start.                                             *)
LEMMA ProjectInit == ProjectIdle => ProjectInv
<1> SUFFICES ASSUME ProjectIdle PROVE ProjectInv
  OBVIOUS
<1>1. Waiting \in AnySplit
      /\ Waiting \in AnyDelete
  BY NoProjectFits DEF Waiting
<1>2. ProjectTypes
  BY <1>1, NoProjectFits DEF ProjectIdle, ProjectTypes
<1> QED BY <1>2, NoProjectFits DEF ProjectIdle, ProjectInv, Newest, RepoWhole

(* A message that was sent is the newest.                                        *)
LEMMA OneMoreSent ==
  ASSUME sent \in Seq(ProjectRows), NEW p \in ProjectRows, sent' = Append(sent, p)
  PROVE  Newest' = p /\ sent' \in Seq(ProjectRows)
<1>1. sent' # << >> /\ sent'[Len(sent')] = p /\ sent' \in Seq(ProjectRows)
  OBVIOUS
<1> QED BY <1>1 DEF Newest

(* After a message the platform is behind, or the newest message is the row.        *)
LEMMA SyncTells ==
  ASSUME ProjectTypes, NEW p \in ProjectRows, Sync(p), project' = project, copy' = copy
  PROVE  sent' \in Seq(ProjectRows) /\ (api.at = "delete" => behind') /\ (~behind' => Newest' = project')
<1>1. CASE online
  <2>1. Newest' = p /\ sent' \in Seq(ProjectRows)
    BY <1>1, OneMoreSent DEF Sync, ProjectTypes
  <2> QED BY <2>1 DEF Sync
<1>2. CASE ~online
  BY <1>2 DEF Sync, ProjectTypes
<1> QED BY <1>1, <1>2

(* Every step keeps the invariant: who changes the row is the one that is about  *)
(* to send it.                                                                   *)
LEMMA ProjectStep == ProjectInv /\ [ProjectNext]_projectVars => ProjectInv'
<1> SUFFICES ASSUME ProjectInv, [ProjectNext]_projectVars PROVE ProjectInv'
  OBVIOUS
<1>1. /\ ProjectTypes /\ RepoWhole /\ (project.st = "none" => project = NoProject /\ api.at = "none")
      /\ (api.at = "delete" /\ ~behind => Newest = NoProject)
      /\ ((NoneToCome \/ project.st = "none") /\ ~behind => Newest = project)
  BY DEF ProjectInv
<1>2. /\ project \in ProjectRows /\ sent \in Seq(ProjectRows) /\ api.got \in ProjectRows
      /\ \A s \in Splitters : splitter[s].got \in ProjectRows
      /\ splitter \in [Splitters -> AnySplit]
      /\ api \in AnyDelete
      /\ Waiting \in AnyDelete
  BY <1>1, NoProjectFits DEF ProjectTypes, Waiting
<1>3. RepoWhole'
  BY <1>1 DEF RepoWhole, ProjectNext, Api, CreateProject, UpdateProject, Transition, ReadBack, SyncUpdate,
     TellDeleted, DeleteRow, NewRequest, KeepRequest, Split, SplitRead, SplitTasks, SplitPlan, SplitReread,
     SplitSend, KeepSplit, CloneCheck, CloneRun, DeliverSync, Offline, Online, projectVars
<1>4. StartSplitter /\ ProjectTypes => splitter' \in [Splitters -> AnySplit]
  BY DEF StartSplitter, ProjectTypes
<1>5. CASE CreateProject
  <2> DEFINE p == [NoProject EXCEPT !.st = "draft"]
  <2>1. p \in ProjectRows /\ p.st = "draft"
    BY DEF NoProject, ProjectRows, ProjectStates
  <2>2. /\ api.at = "none" /\ project' = p /\ api' = api
        /\ behind' = ~online /\ copy' = copy /\ (IF online THEN sent' = Append(sent, p) ELSE sent' = sent)
    BY <1>5 DEF CreateProject, NewRequest
  <2> HIDE DEF p
  <2>3. sent' \in Seq(ProjectRows) /\ (~behind' => Newest' = p)
    BY <1>2, <2>1, <2>2, OneMoreSent
  <2>4. ProjectTypes'
    BY <1>1, <1>2, <1>4, <1>5, <2>1, <2>2, <2>3 DEF ProjectTypes, CreateProject
  <2> QED BY <1>3, <2>1, <2>2, <2>3, <2>4 DEF ProjectInv
<1>6. CASE UpdateProject \/ Transition
  <2>1. project' \in ProjectRows /\ project'.st # "none"
    <3>1. ASSUME NEW st \in ProjectStates,
                 project' = [project EXCEPT !.st = st] \/ project' = [project EXCEPT !.st = st, !.ended = project.ended \/ st = "completed"]
          PROVE  project' \in ProjectRows /\ project'.st # "none"
      BY <1>2, <3>1 DEF ProjectRows, ProjectStates
    <3>2. ASSUME UpdateProject, project' = [project EXCEPT !.text = project.text + 1]
          PROVE  project' \in ProjectRows /\ project'.st # "none"
      <4>1. PICK k \in Nat : k = project.text + 1
        BY <1>2 DEF ProjectRows
      <4>2. project' = [project EXCEPT !.text = k] /\ project.st # "none"
        BY <3>2, <4>1 DEF UpdateProject
      <4> QED BY <1>2, <4>2 DEF ProjectRows
    <3>3. CASE UpdateProject
      BY <1>2, <3>1, <3>2, <3>3 DEF UpdateProject, ProjectRows
    <3>4. CASE Transition
      <4>1. PICK st \in NextStates[project.st] : project' = [project EXCEPT !.st = st, !.ended = project.ended \/ st = "completed"]
        BY <1>2, <3>4 DEF Transition, ProjectRows
      <4>2. st \in ProjectStates
        BY <1>2, <3>4 DEF Transition, ProjectRows, NextStates, ProjectStates
      <4> QED BY <3>1, <4>1, <4>2
    <3> QED BY <1>6, <3>3, <3>4
  <2>2. api' = [api EXCEPT !.at = "read"] /\ sent' = sent /\ splitter' = splitter
    BY <1>6 DEF UpdateProject, Transition
  <2>3. api'.at = "read" /\ ProjectTypes'
    BY <1>2, <2>1, <2>2 DEF ProjectTypes
  <2> QED BY <1>3, <2>1, <2>3 DEF ProjectInv, NoneToCome
<1>7. CASE ReadBack
  <2>1. /\ api.at = "read" /\ api' = [at |-> "send", got |-> project]
        /\ project' = project /\ sent' = sent /\ splitter' = splitter
    BY <1>7 DEF ReadBack
  <2> QED BY <1>1, <1>2, <1>3, <2>1 DEF ProjectInv, ProjectTypes, NoneToCome
<1>8. CASE SyncUpdate
  <2>1. /\ Sync(api.got) /\ api' = Waiting /\ project' = project /\ copy' = copy /\ splitter' = splitter
    BY <1>8 DEF SyncUpdate, KeepRequest
  <2>2. sent' \in Seq(ProjectRows) /\ (~behind' => Newest' = project')
    BY <1>1, <1>2, <2>1, SyncTells
  <2> QED BY <1>1, <1>2, <1>3, <2>1, <2>2, NoProjectFits DEF ProjectInv, ProjectTypes
<1>9. CASE TellDeleted
  <2>1. /\ project.st # "none" /\ api' = [Waiting EXCEPT !.at = "delete"] /\ project' = project
        /\ behind' = ~online /\ splitter' = splitter
        /\ (IF online THEN sent' = Append(sent, NoProject) ELSE sent' = sent)
    BY <1>9 DEF TellDeleted
  <2>2. sent' \in Seq(ProjectRows) /\ (~behind' => Newest' = NoProject)
    BY <1>2, <2>1, NoProjectFits, OneMoreSent
  <2>3. api'.at = "delete" /\ api' \in AnyDelete
    BY <1>2, <2>1
  <2> QED BY <1>1, <1>2, <1>3, <2>1, <2>2, <2>3 DEF ProjectInv, ProjectTypes, NoneToCome
<1>10. CASE DeleteRow
  <2>1. /\ api.at = "delete" /\ project' = NoProject /\ api' = Waiting /\ sent' = sent /\ copy' = copy
        /\ behind' = behind /\ splitter' = splitter /\ Newest' = Newest
    BY <1>10 DEF DeleteRow, KeepRequest, Newest
  <2> QED BY <1>1, <1>2, <1>3, <2>1, NoProjectFits DEF ProjectInv, ProjectTypes
<1>11. ASSUME NEW s \in Splitters, Split(s) PROVE ProjectInv'
  <2>1. api' = api /\ copy' = copy
    BY <1>11 DEF Split, SplitRead, SplitTasks, SplitPlan, SplitReread, SplitSend, KeepSplit
  <2>2. ASSUME NEW stage \in {"none", "tasks", "plan", "reread", "send"}, NEW p \in ProjectRows, Splitting(s, stage, p)
        PROVE  /\ splitter' \in [Splitters -> AnySplit]
               /\ splitter'[s].at = stage /\ \A q \in Splitters \ {s} : splitter'[q] = splitter[q]
    BY <1>2, <2>2 DEF Splitting
  <2>3. CASE SplitRead(s) \/ SplitTasks(s)
    <3>1. /\ project' = project /\ sent' = sent /\ behind' = behind /\ splitter[s].at \notin {"reread", "send"}
          /\ Newest' = Newest
      BY <2>1, <2>3 DEF SplitRead, SplitTasks, Newest
    <3>2. \E stage \in {"none", "tasks", "plan"}, p \in ProjectRows : Splitting(s, stage, p)
      BY <1>2, <2>3, NoProjectFits DEF SplitRead, SplitTasks
    <3>3. ProjectTypes' /\ (NoneToCome' <=> NoneToCome)
      BY <1>2, <2>1, <2>2, <3>1, <3>2 DEF ProjectTypes, NoneToCome
    <3> QED BY <1>1, <1>3, <2>1, <3>1, <3>3 DEF ProjectInv
  <2>4. CASE SplitPlan(s)
    <3>1. /\ sent' = sent /\ behind' = behind /\ Newest' = Newest
          /\ Splitting(s, "reread", NoProject)
          /\ \/ project.st = "none" /\ project' = project
             \/ project.st # "none" /\ project' = [project EXCEPT !.plan = TRUE]
      BY <2>1, <2>4 DEF SplitPlan, Newest
    <3>2. project' \in ProjectRows /\ project'.st = project.st /\ (project.st = "none" => project' = project)
      BY <1>2, <3>1 DEF ProjectRows
    <3>3. ProjectTypes' /\ ~NoneToCome'
      BY <1>2, <2>1, <2>2, <3>1, <3>2, NoProjectFits DEF ProjectTypes, NoneToCome
    <3> QED BY <1>1, <1>3, <2>1, <3>1, <3>2, <3>3 DEF ProjectInv
  <2>5. CASE SplitReread(s)
    <3>1. /\ project' = project /\ sent' = sent /\ behind' = behind /\ Newest' = Newest
          /\ \/ project.st = "none" /\ Splitting(s, "none", NoProject)
             \/ project.st # "none" /\ Splitting(s, "send", project)
      BY <2>1, <2>5 DEF SplitReread, Newest
    <3>2. ProjectTypes' /\ (project.st # "none" => ~NoneToCome')
      BY <1>2, <2>1, <2>2, <3>1, NoProjectFits DEF ProjectTypes, NoneToCome
    <3> QED BY <1>1, <1>3, <2>1, <3>1, <3>2 DEF ProjectInv
  <2>6. CASE SplitSend(s)
    <3>1. /\ Sync(splitter[s].got) /\ Splitting(s, "none", NoProject) /\ project' = project
      BY <2>6 DEF SplitSend
    <3>2. sent' \in Seq(ProjectRows) /\ (~behind' => Newest' = project') /\ (api.at = "delete" => behind')
      BY <1>1, <1>2, <2>1, <3>1, SyncTells
    <3>3. ProjectTypes'
      BY <1>2, <2>1, <2>2, <3>1, <3>2, NoProjectFits DEF ProjectTypes
    <3> QED BY <1>1, <1>3, <2>1, <3>1, <3>2, <3>3 DEF ProjectInv
  <2> QED BY <1>11, <2>3, <2>4, <2>5, <2>6 DEF Split
<1>12. CASE DeliverSync
  <2>1. /\ project' = project /\ api' = api /\ behind' = behind /\ splitter' = splitter
        /\ sent # << >> /\ sent' = Tail(sent) /\ copy' = Head(sent)
    BY <1>12 DEF DeliverSync
  <2>2. Newest' = Newest /\ sent' \in Seq(ProjectRows)
    <3>1. sent' \in Seq(ProjectRows) /\ Len(sent) \in Nat \ {0} /\ Len(sent') = Len(sent) - 1
      BY <1>2, <2>1
    <3>2. CASE Len(sent) = 1
      BY <1>2, <2>1, <3>1, <3>2 DEF Newest
    <3>3. CASE Len(sent) # 1
      <4>1. sent' # << >> /\ sent'[Len(sent) - 1] = sent[Len(sent)]
        <5>1. \A k \in 1 .. Len(sent) - 1 : Tail(sent)[k] = sent[k + 1]
          BY <1>2, <2>1, HeadTailProperties
        <5>2. PICK n \in Nat : n = Len(sent) - 1
          BY <3>1
        <5>3. n \in 1 .. Len(sent) - 1 /\ n + 1 = Len(sent)
          BY <3>1, <3>3, <5>2
        <5>4. Tail(sent)[n] = sent[n + 1]
          BY <5>1, <5>3
        <5>5. sent' # << >>
          BY <3>1, <3>3
        <5> QED BY <2>1, <5>2, <5>3, <5>4, <5>5
      <4> QED BY <2>1, <3>1, <4>1 DEF Newest
    <3> QED BY <3>2, <3>3
  <2> QED BY <1>1, <1>2, <1>3, <2>1, <2>2 DEF ProjectInv, ProjectTypes, NoneToCome
<1>13. CASE (\E c \in Cloners : CloneCheck(c) \/ CloneRun(c)) \/ Offline \/ Online \/ UNCHANGED projectVars
  <2>1. /\ project' = project /\ sent' = sent /\ copy' = copy /\ api' = api /\ behind' = behind
        /\ splitter' = splitter
    BY <1>13 DEF CloneCheck, CloneRun, KeepClone, Offline, Online, projectVars
  <2> QED BY <1>1, <1>2, <1>3, <2>1 DEF ProjectInv, ProjectTypes, NoneToCome, Newest
<1> QED BY <1>5, <1>6, <1>7, <1>8, <1>9, <1>10, <1>11, <1>12, <1>13 DEF ProjectNext, Api

(* The invariant implies what the run checks.                                    *)
LEMMA ProjectImplies == ProjectInv => ProjectsMirrored
BY DEF ProjectInv, ProjectsMirrored, CopyCurrent, Settled, NoneToCome, Newest

-----------------------------------------------------------------------------
(* A set of numbers that is not empty has a least one.                             *)
LEMMA LeastNumber ==
  ASSUME NEW T, T \subseteq Nat, T # {}
  PROVE  \E x \in T : \A y \in T : x <= y
<1>1. IsWellFoundedOn(OpToRel(<, Nat), Nat)
  BY NatLessThanWellFounded
<1>2. PICK x \in T : \A y \in T : ~(<<y, x>> \in OpToRel(<, Nat))
  BY <1>1, WFMin
<1>3. \A y \in T : ~(y < x)
  BY <1>2 DEF OpToRel
<1> QED BY <1>3

(* Skills (core/dag_executor.py).                                             *)

Sorting  == {"none", "sort", "raised"}
Stepping == {"steps", "failed", "done", "prompt", "mute"}
RunLines == [step : Ids, how : {"ok", "failed"}, missing : SUBSET (Ids \cup {Ghost}),
             dir : {"own", "other", "none"}]

(* What is in the order, and what is not yet.                                    *)
SortInv ==
  /\ left \subseteq Ids /\ ordered \in Seq(Ids) /\ phase \in Sorting \cup Stepping
  /\ phase = "none" => left = {} /\ ready = {} /\ ordered = << >>
  /\ phase # "none" =>
       /\ skill \in Graphs /\ ready \subseteq left
       /\ left = Ids \ Before(Len(ordered) + 1)
       /\ Len(ordered) + Cardinality(left) = StepCount
       /\ \A i, j \in 1 .. Len(ordered) : i < j => ordered[i] # ordered[j]
       /\ \A n \in 1 .. Len(ordered) : skill[ordered[n]].deps \subseteq Before(n)
       /\ \A k \in ready : skill[k].deps \cap (left \cup {Ghost}) = {}
  /\ phase = "raised" => left # {} /\ Free = {}
  /\ phase \in Stepping => left = {}

LEMMA BeforeIs ==
  ASSUME NEW n \in Nat, n # 0
  PROVE  /\ Before(n + 1) = Before(n) \cup {ordered[n]} /\ Before(1) = {}
         /\ \A k \in 1 .. n : Before(k) \subseteq Before(n)
<1>1. 1 .. n + 1 - 1 = (1 .. n - 1) \cup {n} /\ 1 .. 1 - 1 = {}
  OBVIOUS
<1>2. \A k \in 1 .. n : 1 .. k - 1 \subseteq 1 .. n - 1
  OBVIOUS
<1> QED BY <1>1, <1>2 DEF Before

LEMMA IdsAreFinite == IsFiniteSet(Ids) /\ Cardinality(Ids) = StepCount
<1>1. ASSUME NEW n \in Nat PROVE IsFiniteSet(1 .. n) /\ Cardinality(1 .. n) = n
  BY FS_Interval
<1> QED BY <1>1, SkillConstants DEF Ids

LEMMA SortBegins == ASSUME SortInv, Begin PROVE SortInv'
<1>1. /\ phase = "none" /\ phase' = "sort" /\ left' = Ids /\ skill' \in Graphs
      /\ ready' = ready /\ ordered' = ordered
  BY DEF Begin
<1>2. ready' = {} /\ ordered' = << >>
  BY <1>1 DEF SortInv
<1>3. Before(Len(ordered) + 1)' = {}
  <2>1. 1 .. Len(ordered') + 1 - 1 = {}
    BY <1>2
  <2> QED BY <2>1 DEF Before
<1>4. Len(ordered') + Cardinality(left') = StepCount
  BY <1>1, <1>2, IdsAreFinite, SkillConstants
<1> QED BY <1>1, <1>2, <1>3, <1>4 DEF SortInv, Sorting, Stepping

LEMMA SortLayers == ASSUME SortInv, NextLayer PROVE SortInv'
<1>1. /\ phase = "sort" /\ ready = {} /\ left # {} /\ ready' = Free /\ left' = left
      /\ ordered' = ordered /\ skill' = skill
      /\ phase' = IF Free = {} THEN "raised" ELSE "sort"
  BY DEF NextLayer
<1>2. Free \subseteq left /\ \A k \in Free : skill[k].deps \cap (left \cup {Ghost}) = {}
  BY DEF Free
<1>3. Free' = Free
  BY <1>1 DEF Free
<1>4. \A n : Before(n)' = Before(n)
  BY <1>1 DEF Before
<1> QED BY <1>1, <1>2, <1>3, <1>4 DEF SortInv, Sorting, Stepping

LEMMA SortPuts == ASSUME SortInv, NEW s \in Ids, PutInOrder(s) PROVE SortInv'
<1>1. /\ phase = "sort" /\ phase' = phase /\ s \in ready /\ ordered' = Append(ordered, s)
      /\ ready' = ready \ {s} /\ left' = left \ {s} /\ skill' = skill
  BY DEF PutInOrder
<1>2. /\ left \subseteq Ids /\ ordered \in Seq(Ids) /\ skill \in Graphs /\ ready \subseteq left
      /\ left = Ids \ Before(Len(ordered) + 1)
      /\ Len(ordered) + Cardinality(left) = StepCount
      /\ \A i, j \in 1 .. Len(ordered) : i < j => ordered[i] # ordered[j]
      /\ \A n \in 1 .. Len(ordered) : skill[ordered[n]].deps \subseteq Before(n)
      /\ \A k \in ready : skill[k].deps \cap (left \cup {Ghost}) = {}
  BY <1>1 DEF SortInv
<1>3. PICK len \in Nat : len = Len(ordered)
  BY <1>2
<1>4. /\ ordered' \in Seq(Ids) /\ Len(ordered') = len + 1 /\ ordered'[len + 1] = s
      /\ \A n \in 1 .. len : ordered'[n] = ordered[n]
  BY <1>1, <1>2, <1>3
<1>5. ASSUME NEW n \in 1 .. len + 1 PROVE Before(n)' = Before(n)
  <2>1. \A k \in 1 .. n - 1 : ordered'[k] = ordered[k]
    BY <1>4
  <2> QED BY <2>1 DEF Before
<1>6. Before(len + 2)' = Before(len + 1) \cup {s}
  <2>1. 1 .. len + 2 - 1 = (1 .. len) \cup {len + 1} /\ len + 1 - 1 = len
    BY <1>3
  <2>2. Before(len + 2)' = {ordered'[k] : k \in (1 .. len) \cup {len + 1}}
    BY <2>1 DEF Before
  <2>3. Before(len + 1) = {ordered[k] : k \in 1 .. len}
    BY <2>1 DEF Before
  <2>4. {ordered'[k] : k \in (1 .. len) \cup {len + 1}} = {ordered[k] : k \in 1 .. len} \cup {s}
    BY <1>4
  <2> QED BY <2>2, <2>3, <2>4
<1>7. left' = Ids \ Before(Len(ordered) + 1)'
  <2>1. Len(ordered') + 1 = len + 2
    BY <1>3, <1>4
  <2>2. left' = Ids \ (Before(len + 1) \cup {s})
    BY <1>1, <1>2, <1>3
  <2> QED BY <1>6, <2>1, <2>2
<1>8. Len(ordered') + Cardinality(left') = StepCount
  <2>1. IsFiniteSet(left) /\ s \in left
    BY <1>1, <1>2, IdsAreFinite, FS_Subset
  <2>2. Cardinality(left') = Cardinality(left) - 1 /\ Cardinality(left) \in Nat
    BY <1>1, <2>1, FS_RemoveElement, FS_CardinalityType
  <2> QED BY <1>2, <1>3, <1>4, <2>2
<1>9. ASSUME NEW i \in 1 .. len + 1, NEW j \in 1 .. len + 1, i < j PROVE ordered'[i] # ordered'[j]
  <2>1. CASE j = len + 1
    <3>1. i \in 1 .. len /\ ordered'[i] = ordered[i]
      BY <1>3, <1>4, <1>9, <2>1
    <3>2. ordered[i] \in Before(len + 1)
      BY <1>3, <3>1 DEF Before
    <3>3. s \notin Before(len + 1)
      BY <1>1, <1>2, <1>3
    <3> QED BY <1>4, <2>1, <3>1, <3>2, <3>3
  <2>2. CASE j # len + 1
    <3>1. i \in 1 .. len /\ j \in 1 .. len
      BY <1>3, <1>9, <2>2
    <3> QED BY <1>2, <1>3, <1>4, <1>9, <3>1
  <2> QED BY <2>1, <2>2
<1>10. ASSUME NEW n \in 1 .. len + 1 PROVE skill[ordered'[n]].deps \subseteq Before(n)'
  <2>1. CASE n = len + 1
    <3>1. skill[s].deps \cap (left \cup {Ghost}) = {} /\ skill[s].deps \subseteq Ids \cup {Ghost}
      BY <1>1, <1>2, SkillConstants DEF AnyStep
    <3>2. skill[s].deps \subseteq Before(len + 1)
      BY <1>2, <1>3, <3>1
    <3> QED BY <1>4, <1>5, <2>1, <3>2
  <2>2. CASE n # len + 1
    <3>1. n \in 1 .. len
      BY <1>3, <2>2
    <3> QED BY <1>2, <1>3, <1>4, <1>5, <3>1
  <2> QED BY <2>1, <2>2
<1>11. left' \subseteq Ids /\ ready' \subseteq left'
       /\ \A k \in ready' : skill'[k].deps \cap (left' \cup {Ghost}) = {}
  BY <1>1, <1>2
<1> QED BY <1>1, <1>2, <1>4, <1>7, <1>8, <1>9, <1>10, <1>11 DEF SortInv, Sorting, Stepping

(* The rest leaves the order alone, and leaves the sort when it is complete.          *)
LEMMA SortStays ==
  ASSUME SortInv, UNCHANGED <<skill, left, ready, ordered>>,
         phase' = phase \/ (phase \in Stepping /\ phase' \in Stepping)
         \/ (phase = "sort" /\ left = {} /\ phase' = "steps")
  PROVE  SortInv'
<1>1. Free' = Free /\ \A n : Before(n)' = Before(n)
  BY DEF Free, Before
<1> QED BY <1>1 DEF SortInv, Sorting, Stepping

(* A complete order.                                                             *)
LEMMA OrderIs ==
  ASSUME SortInv, phase \in Stepping
  PROVE  /\ Len(ordered) = StepCount /\ StepCount \in Nat /\ Before(StepCount + 1) = Ids
         /\ \A n \in Ids : ordered[n] \in Ids /\ skill[ordered[n]].deps \subseteq Before(n)
         /\ \A i, j \in Ids : ordered[i] = ordered[j] => i = j
         /\ \A i \in Ids : \E n \in Ids : ordered[n] = i
         /\ skill \in Graphs
<1>1. /\ ordered \in Seq(Ids) /\ skill \in Graphs /\ left = {}
      /\ left = Ids \ Before(Len(ordered) + 1) /\ Len(ordered) + Cardinality(left) = StepCount
      /\ \A i, j \in 1 .. Len(ordered) : i < j => ordered[i] # ordered[j]
      /\ \A n \in 1 .. Len(ordered) : skill[ordered[n]].deps \subseteq Before(n)
  BY DEF SortInv, Stepping
<1>2. Len(ordered) = StepCount /\ StepCount \in Nat
  BY <1>1, FS_EmptySet, SkillConstants
<1>3. \A n \in Ids : ordered[n] \in Ids /\ skill[ordered[n]].deps \subseteq Before(n)
  BY <1>1, <1>2 DEF Ids
<1>4. Before(StepCount + 1) = {ordered[n] : n \in Ids}
  <2>1. ASSUME NEW x PROVE x \in Before(StepCount + 1) <=> \E n \in 1 .. StepCount + 1 - 1 : x = ordered[n]
    BY <1>2 DEF Before
  <2>2. 1 .. StepCount + 1 - 1 = Ids
    BY <1>2 DEF Ids
  <2> QED BY <2>1, <2>2
<1>5. Before(StepCount + 1) = Ids
  BY <1>1, <1>2, <1>3, <1>4
<1>6. ASSUME NEW i \in Ids, NEW j \in Ids, ordered[i] = ordered[j] PROVE i = j
  <2>1. ~(i < j) /\ ~(j < i) /\ i \in Nat /\ j \in Nat
    BY <1>1, <1>2, <1>6 DEF Ids
  <2> QED BY <2>1
<1> QED BY <1>1, <1>2, <1>3, <1>4, <1>5, <1>6

LEMMA OrderShows == SortInv => OrderSound
<1> SUFFICES ASSUME SortInv PROVE OrderSound
  OBVIOUS
<1>1. ASSUME phase = "raised" PROVE ~Ranked
  <2> SUFFICES ASSUME Ranked PROVE FALSE
    OBVIOUS
  <2>1. PICK rank \in [Ids -> Ids] :
          \A i \in Ids : Ghost \notin skill[i].deps /\ \A j \in skill[i].deps : rank[j] < rank[i]
    BY DEF Ranked
  <2>2. left # {} /\ Free = {} /\ left \subseteq Ids
    BY <1>1 DEF SortInv
  <2>3. PICK T : T = {rank[k] : k \in left}
    OBVIOUS
  <2>4. T \subseteq Nat /\ T # {}
    <3>1. \A k \in left : rank[k] \in Nat
      BY <2>1, <2>2, SkillConstants DEF Ids
    <3> QED BY <2>2, <2>3, <3>1
  <2>5. PICK x \in T : \A y \in T : x <= y
    BY <2>4, LeastNumber
  <2>6. PICK k \in left : x = rank[k]
    BY <2>3
  <2>7. PICK j \in skill[k].deps : j \in left \cup {Ghost}
    BY <2>2 DEF Free
  <2>8. j \in left /\ rank[j] < rank[k]
    BY <2>1, <2>2, <2>7
  <2>9. rank[j] \in T
    BY <2>3, <2>8
  <2> QED BY <2>4, <2>5, <2>6, <2>8, <2>9
<1>2. ASSUME phase \in Stepping
      PROVE  /\ Ranked /\ Len(ordered) = StepCount /\ Before(StepCount + 1) = Ids
             /\ \A n \in Ids : skill[ordered[n]].deps \subseteq Before(n)
  <2>1. /\ Len(ordered) = StepCount /\ StepCount \in Nat /\ Before(StepCount + 1) = Ids
        /\ \A n \in Ids : ordered[n] \in Ids /\ skill[ordered[n]].deps \subseteq Before(n)
        /\ \A i, j \in Ids : ordered[i] = ordered[j] => i = j
        /\ \A i \in Ids : \E n \in Ids : ordered[n] = i
    BY <1>2, OrderIs
  <2> DEFINE rank == [i \in Ids |-> CHOOSE n \in Ids : ordered[n] = i]
  <2>2. \A i \in Ids : rank[i] \in Ids /\ ordered[rank[i]] = i
    BY <2>1
  <2>3. rank \in [Ids -> Ids]
    BY <2>2
  <2> HIDE DEF rank
  <2>4. ASSUME NEW i \in Ids
        PROVE  Ghost \notin skill[i].deps /\ \A j \in skill[i].deps : rank[j] < rank[i]
    <3>1. skill[i].deps \subseteq Before(rank[i]) /\ rank[i] \in Ids
      BY <2>1, <2>2
    <3>2. ASSUME NEW j \in skill[i].deps PROVE j \in Ids /\ rank[j] < rank[i]
      <4>1. PICK k \in 1 .. rank[i] - 1 : j = ordered[k]
        BY <3>1 DEF Before
      <4>2. k \in Ids /\ k < rank[i]
        <5>1. rank[i] \in 1 .. StepCount /\ StepCount \in Nat
          BY <2>1, <3>1 DEF Ids
        <5>2. k \in 1 .. StepCount /\ k < rank[i]
          BY <4>1, <5>1
        <5> QED BY <5>2 DEF Ids
      <4>3. rank[j] = k
        <5>1. j \in Ids
          BY <2>1, <4>1, <4>2
        <5>2. rank[j] \in Ids /\ ordered[rank[j]] = ordered[k]
          BY <2>2, <4>1, <5>1
        <5> QED BY <2>1, <4>2, <5>2
      <4> QED BY <2>1, <4>1, <4>2, <4>3
    <3>3. Ghost \notin Ids
      BY SkillConstants DEF Ids, Ghost
    <3> QED BY <3>2, <3>3
  <2> QED BY <2>1, <2>3, <2>4 DEF Ranked
<1>3. phase \notin {"none", "sort", "raised"} => phase \in Stepping
  BY DEF SortInv, Sorting
<1> QED BY <1>1, <1>2, <1>3 DEF OrderSound

(* What a whole execution runs exists, and depends on the graph and its order alone.     *)
Asks(n, S) == skill[ordered[n]].if = Always \/ skill[ordered[n]].if \in S \cap Before(n)

FullOf(g, o) ==
  CHOOSE S \in SUBSET Ids :
    \A i \in Ids : i \in S <=> \/ g[i].if = Always
                               \/ g[i].if \in S \cap {o[k] : k \in 1 .. (CHOOSE n \in Ids : o[n] = i) - 1}

LEMMA FullIsOf == InFull = FullOf(skill, ordered)
BY DEF InFull, FullOf, Earlier, Before

LEMMA FullStays ==
  ASSUME skill' = skill, ordered' = ordered
  PROVE  InFull' = InFull
<1>1. InFull' = FullOf(skill', ordered')
  BY DEF InFull, FullOf, Earlier, Before
<1> QED BY <1>1, FullIsOf

LEMMA EarlierIs ==
  ASSUME SortInv, phase \in Stepping, NEW n \in Ids
  PROVE  Earlier(ordered[n]) = Before(n)
<1>1. \A i, j \in Ids : ordered[i] = ordered[j] => i = j
  BY OrderIs
<1>2. (CHOOSE m \in Ids : ordered[m] = ordered[n]) = n
  BY <1>1
<1> QED BY <1>2 DEF Earlier

LEMMA PartlyFull ==
  ASSUME SortInv, phase \in Stepping, NEW n \in 0 .. StepCount
  PROVE  \E S \in SUBSET Ids : \A k \in 1 .. n : ordered[k] \in S <=> Asks(k, S)
<1> DEFINE Fine(m) == \E S \in SUBSET Ids : \A k \in 1 .. m : ordered[k] \in S <=> Asks(k, S)
           T == {m \in 0 .. StepCount : ~Fine(m)}
<1>1. /\ StepCount \in Nat
      /\ \A k \in Ids : ordered[k] \in Ids
      /\ \A i, j \in Ids : ordered[i] = ordered[j] => i = j
  BY OrderIs
<1>2. Fine(0)
  <2>1. 1 .. 0 = {}
    OBVIOUS
  <2> QED BY <2>1
<1>3. ASSUME NEW m \in Nat, m + 1 <= StepCount, Fine(m) PROVE Fine(m + 1)
  <2>1. PICK S \in SUBSET Ids : \A k \in 1 .. m : ordered[k] \in S <=> Asks(k, S)
    BY <1>3
  <2>2. PICK X : X = (S \cap Before(m + 1)) \cup {s \in {ordered[m + 1]} : Asks(m + 1, S)}
    OBVIOUS
  <2>3. m + 1 \in Ids /\ ordered[m + 1] \in Ids
    BY <1>1, <1>3 DEF Ids
  <2>4. ASSUME NEW k \in 1 .. m + 1 PROVE X \cap Before(k) = S \cap Before(k)
    <3>1. Before(k) \subseteq Before(m + 1)
      BY BeforeIs
    <3>2. ordered[m + 1] \notin Before(k)
      <4>1. ASSUME NEW l \in 1 .. k - 1 PROVE ordered[l] # ordered[m + 1]
        <5>1. l \in Ids /\ l # m + 1
          BY <1>1, <1>3 DEF Ids
        <5> QED BY <1>1, <2>3, <5>1
      <4> QED BY <4>1 DEF Before
    <3> QED BY <2>2, <3>1, <3>2
  <2>5. ASSUME NEW k \in 1 .. m + 1 PROVE ordered[k] \in X <=> Asks(k, X)
    <3>1. Asks(k, X) <=> Asks(k, S)
      BY <2>4 DEF Asks
    <3>2. CASE k = m + 1
      <4>1. ordered[m + 1] \notin Before(m + 1)
        <5>1. ASSUME NEW l \in 1 .. m + 1 - 1 PROVE ordered[l] # ordered[m + 1]
          <6>1. l \in Ids /\ l # m + 1
            BY <1>1, <1>3 DEF Ids
          <6> QED BY <1>1, <2>3, <6>1
        <5> QED BY <5>1 DEF Before
      <4>2. ordered[m + 1] \in X <=> Asks(m + 1, S)
        BY <2>2, <4>1
      <4> QED BY <3>1, <3>2, <4>2
    <3>3. CASE k # m + 1
      <4>1. k \in 1 .. m /\ k \in Ids
        BY <1>1, <1>3, <3>3 DEF Ids
      <4>2. ordered[k] \in Before(m + 1)
        <5>1. k \in 1 .. m + 1 - 1
          BY <4>1
        <5> QED BY <5>1 DEF Before
      <4>3. ordered[k] # ordered[m + 1]
        BY <1>1, <2>3, <3>3, <4>1
      <4>4. ordered[k] \in X <=> ordered[k] \in S
        BY <2>2, <4>2, <4>3
      <4> QED BY <2>1, <3>1, <4>1, <4>4
    <3> QED BY <3>2, <3>3
  <2>6. X \in SUBSET Ids
    BY <2>2, <2>3
  <2> QED BY <2>5, <2>6
<1> HIDE DEF Fine
<1>4. T = {}
  <2> SUFFICES ASSUME T # {} PROVE FALSE
    OBVIOUS
  <2>1. T \subseteq Nat /\ \A m \in T : m <= StepCount /\ ~Fine(m)
    BY <1>1
  <2>2. PICK m \in T : \A y \in T : m <= y
    <3> HIDE DEF T
    <3> QED BY <2>1, LeastNumber
  <2>3. m # 0 /\ m - 1 \in Nat /\ m \in Nat
    BY <1>2, <2>1, <2>2
  <2>4. m - 1 \notin T /\ m - 1 \in 0 .. StepCount
    BY <1>1, <2>1, <2>2, <2>3
  <2>5. Fine(m - 1)
    BY <2>4
  <2>6. PICK l \in Nat : l = m - 1 /\ m = l + 1
    BY <2>3
  <2>7. Fine(l + 1)
    BY <1>3, <2>1, <2>2, <2>5, <2>6
  <2> QED BY <2>1, <2>2, <2>6, <2>7
<1>5. Fine(n)
  BY <1>4
<1> QED BY <1>5 DEF Fine

LEMMA FullIs ==
  ASSUME SortInv, phase \in Stepping
  PROVE  /\ InFull \subseteq Ids
         /\ \A n \in Ids : ordered[n] \in InFull <=> Asks(n, InFull)
<1>1. /\ StepCount \in Nat
      /\ \A k \in Ids : ordered[k] \in Ids /\ Earlier(ordered[k]) = Before(k)
      /\ \A i \in Ids : \E n \in Ids : ordered[n] = i
  BY OrderIs, EarlierIs
<1>2. PICK S \in SUBSET Ids : \A k \in Ids : ordered[k] \in S <=> Asks(k, S)
  <2>1. StepCount \in 0 .. StepCount /\ Ids = 1 .. StepCount
    BY <1>1 DEF Ids
  <2> QED BY <2>1, PartlyFull
<1> DEFINE Whole(X) == \A i \in Ids : i \in X <=> skill[i].if = Always \/ skill[i].if \in X \cap Earlier(i)
<1>3. ASSUME NEW X, NEW k \in Ids
      PROVE  Asks(k, X) <=> \/ skill[ordered[k]].if = Always
                            \/ skill[ordered[k]].if \in X \cap Earlier(ordered[k])
  BY <1>1 DEF Asks
<1>4. Whole(S)
  <2>1. ASSUME NEW i \in Ids
        PROVE  i \in S <=> skill[i].if = Always \/ skill[i].if \in S \cap Earlier(i)
    <3>1. PICK k \in Ids : ordered[k] = i
      BY <1>1
    <3> QED BY <1>2, <1>3, <3>1
  <2> QED BY <2>1
<1>5. InFull = CHOOSE X \in SUBSET Ids : Whole(X)
  BY DEF InFull
<1> HIDE DEF Whole
<1>6. InFull \in SUBSET Ids /\ Whole(InFull)
  BY <1>4, <1>5
<1>7. ASSUME NEW n \in Ids PROVE ordered[n] \in InFull <=> Asks(n, InFull)
  BY <1>1, <1>3, <1>6 DEF Whole
<1> QED BY <1>6, <1>7

---------------------------------------------------------------------------
(* The run: what its values are and what it has logged.                            *)

(* A line of the log, when the run has come to a place.                            *)
Logged(n) ==
  /\ ran[n].how = "failed" => n = Len(ran) /\ phase = "failed"
  /\ ran[n].dir = "own" \/ crossed
  /\ ran[n].missing \subseteq Before(nth)
  /\ \A m \in n + 1 .. Len(ran) : ran[m].step \notin ran[n].missing
  /\ mode = "execute" => ran[n].missing \cap InFull = {}

(* Until a first step is left to the model, all has run that a whole execution runs;     *)
(* and what stood before that step stays.                                         *)
FirstLate(n) == /\ n < nth /\ ordered[n] = late[1]
                /\ context \cap Before(n) = InFull \cap Before(n)
ValuesInv ==
  /\ context \subseteq Before(nth)
  /\ late = << >> => context = InFull \cap Before(nth)
  /\ late # << >> => \E n \in Ids : FirstLate(n)

RunInvariant ==
  /\ nth \in 1 .. StepCount + 1 /\ late \in Seq(Ids) /\ ran \in Seq(RunLines)
  /\ mode = "execute" => late = << >>
  /\ dir \in {"own", "other", "none"}
  /\ dir = "own" \/ crossed
  /\ phase \in {"done", "prompt", "mute"} => nth = StepCount + 1
  /\ phase = "done" => mode = "execute"
  /\ phase = "prompt" => late # << >>
  /\ ValuesInv /\ \A n \in 1 .. Len(ran) : Logged(n)

SkillInv == /\ SortInv
            /\ phase \in Stepping => RunInvariant
            /\ phase \in Sorting => nth = 1 /\ context = {} /\ late = << >> /\ ran = << >>

LEMMA RunShows == SkillInv => RunSound
<1> SUFFICES ASSUME SkillInv, phase \in Stepping PROVE RunSound
  BY DEF SkillInv, SortInv, Sorting, RunSound
<1>1. SortInv /\ RunInvariant
  BY DEF SkillInv
<1>2. /\ StepCount \in Nat /\ Before(StepCount + 1) = Ids /\ Ghost \notin Ids
      /\ InFull \subseteq Ids
  BY <1>1, OrderIs, FullIs, SkillConstants DEF Ghost, Ids
<1>3. nth \in 1 .. StepCount + 1 /\ late \in Seq(Ids) /\ ran \in Seq(RunLines)
  BY <1>1 DEF RunInvariant
<1>4. Before(nth) \subseteq Ids
  <2>1. StepCount + 1 \in Nat /\ StepCount + 1 # 0
    BY <1>2
  <2> QED BY <1>2, <1>3, <2>1, BeforeIs
<1>5. ASSUME NEW n \in DOMAIN ran
      PROVE  /\ ran[n].how = "failed" => n = Len(ran) /\ phase = "failed"
             /\ ran[n].dir = "own" \/ crossed
             /\ Ghost \notin ran[n].missing
             /\ \A m \in n + 1 .. Len(ran) : ran[m].step \notin ran[n].missing
             /\ mode = "execute" => ran[n].missing \cap InFull = {}
  <2>1. n \in 1 .. Len(ran)
    BY <1>3
  <2>2. Logged(n)
    BY <1>1, <2>1 DEF RunInvariant
  <2>3. Ghost \notin ran[n].missing
    BY <1>2, <1>4, <2>2 DEF Logged
  <2> QED BY <2>2, <2>3 DEF Logged
<1>6. ASSUME phase = "done" PROVE context = InFull
  <2>1. nth = StepCount + 1 /\ late = << >>
    BY <1>1, <1>6 DEF RunInvariant
  <2> QED BY <1>1, <1>2, <2>1 DEF RunInvariant, ValuesInv
<1>7. ASSUME phase = "prompt"
      PROVE  context \cap Earlier(Head(late)) = InFull \cap Earlier(Head(late))
  <2>1. PICK n \in Ids : FirstLate(n)
    BY <1>1, <1>7 DEF RunInvariant, ValuesInv
  <2>2. Head(late) = ordered[n]
    BY <1>3, <2>1 DEF FirstLate
  <2>3. Earlier(Head(late)) = Before(n)
    BY <1>1, <2>2, EarlierIs
  <2> QED BY <2>1, <2>3 DEF FirstLate
<1> QED BY <1>5, <1>6, <1>7 DEF RunSound

LEMMA SkillShow == SkillInv => SkillSound
BY OrderShows, RunShows DEF SkillInv, SkillSound

LEMMA SkillStart == SkillIdle => SkillInv
BY DEF SkillIdle, SkillInv, SortInv, Sorting, Stepping, NoSkill

(* The place of a step, with what the run has come to.                              *)
Ready(s) == /\ phase = "steps" /\ SortInv /\ RunInvariant
            /\ s \in Ids /\ nth \in Ids /\ nth \in Nat /\ nth # 0 /\ ordered[nth] = s
            /\ Before(nth + 1) = Before(nth) \cup {s}
            /\ s \notin Before(nth)
            /\ \A n \in 1 .. nth : Before(n) \subseteq Before(nth)
            /\ skill[s].deps \subseteq Before(nth)
            /\ s \in InFull <=> \/ skill[s].if = Always
                                \/ skill[s].if \in InFull \cap Before(nth)
            /\ skill[s].if # Always => skill[s].if \in Ids

LEMMA StepsAt == ASSUME SkillInv, NEW s \in Ids, Upcoming(s) PROVE Ready(s)
<1>1. phase = "steps" /\ phase \in Stepping /\ SortInv /\ RunInvariant /\ ordered[nth] = s
      /\ nth <= Len(ordered)
  BY DEF Upcoming, SkillInv, Stepping
<1>2. /\ Len(ordered) = StepCount /\ StepCount \in Nat
      /\ \A n \in Ids : ordered[n] \in Ids /\ skill[ordered[n]].deps \subseteq Before(n)
      /\ \A i, j \in Ids : ordered[i] = ordered[j] => i = j
      /\ skill \in Graphs
  BY <1>1, OrderIs
<1>3. nth \in Ids /\ nth \in Nat /\ nth # 0
  BY <1>1, <1>2 DEF RunInvariant, Ids
<1>4. /\ Before(nth + 1) = Before(nth) \cup {s}
      /\ \A n \in 1 .. nth : Before(n) \subseteq Before(nth)
  BY <1>1, <1>3, BeforeIs
<1>5. s \notin Before(nth)
  <2>1. ASSUME NEW k \in 1 .. nth - 1 PROVE ordered[k] # ordered[nth]
    <3>1. k \in Ids /\ k # nth
      BY <1>2, <1>3 DEF Ids
    <3> QED BY <1>2, <1>3, <3>1
  <2> QED BY <1>1, <2>1 DEF Before
<1>6. s \in InFull <=> skill[s].if = Always \/ skill[s].if \in InFull \cap Before(nth)
  BY <1>1, <1>3, FullIs DEF Asks
<1>7. skill[s].if # Always => skill[s].if \in Ids
  BY <1>2, SkillConstants DEF AnyStep
<1>8. skill[s].deps \subseteq Before(nth)
  BY <1>1, <1>2, <1>3
<1> QED BY <1>1, <1>3, <1>4, <1>5, <1>6, <1>7, <1>8 DEF Ready

(* What a step leaves of what the run has come to.                                 *)
SameOrder == skill' = skill /\ ordered' = ordered /\ left' = left /\ ready' = ready

LEMMA OrderKept ==
  ASSUME SameOrder
  PROVE  InFull' = InFull /\ \A n : Before(n)' = Before(n)
BY FullStays DEF SameOrder, Before

LEMMA SkillSorts ==
  ASSUME SkillInv, Begin \/ NextLayer \/ \E s \in Ids : PutInOrder(s)
  PROVE  SkillInv'
<1>1. phase \in {"none", "sort"} /\ phase' \in {"sort", "raised"}
      /\ UNCHANGED <<nth, context, late, ran>>
  BY DEF Begin, NextLayer, PutInOrder
<1>2. SortInv'
  BY SortBegins, SortLayers, SortPuts DEF SkillInv
<1> QED BY <1>1, <1>2 DEF SkillInv, Sorting, Stepping

LEMMA SkillSortEnds == ASSUME SkillInv, SortEnds PROVE SkillInv'
<1>1. /\ phase = "sort" /\ left = {} /\ phase' = "steps" /\ dir' = "own" /\ SameOrder
      /\ UNCHANGED <<mode, nth, context, late, ran, crossed>>
  BY DEF SortEnds, sortVars, SameOrder
<1>2. SortInv'
  BY <1>1, SortStays DEF SkillInv, SameOrder
<1>3. nth' = 1 /\ context' = {} /\ late' = << >> /\ ran' = << >>
  BY <1>1 DEF SkillInv, Sorting
<1>4. Before(1)' = {}
  <2>1. 1 .. 1 - 1 = {}
    OBVIOUS
  <2> QED BY <2>1 DEF Before
<1>5. Before(nth)' = {}
  BY <1>3, <1>4 DEF Before
<1>6. ValuesInv'
  BY <1>3, <1>5 DEF ValuesInv
<1>7. \A n \in 1 .. Len(ran') : Logged(n)'
  BY <1>3
<1>8. nth' \in 1 .. StepCount + 1
  BY <1>3, SkillConstants
<1>9. RunInvariant'
  BY <1>1, <1>3, <1>6, <1>7, <1>8 DEF RunInvariant
<1> QED BY <1>1, <1>2, <1>9 DEF SkillInv, Sorting

(* The log stays when the run goes on without a line.                              *)
LEMMA LogStays ==
  ASSUME SkillInv, SameOrder, NEW s \in Ids, Ready(s),
         nth' = nth + 1, ran' = ran, UNCHANGED <<phase, mode, crossed>>
  PROVE  \A n \in 1 .. Len(ran') : Logged(n)'
<1> SUFFICES ASSUME NEW n \in 1 .. Len(ran) PROVE Logged(n)'
  OBVIOUS
<1>1. Logged(n)
  BY DEF Ready, RunInvariant
<1>2. Before(nth) \subseteq Before(nth)'
  BY OrderKept DEF Ready, Before
<1> QED BY <1>1, <1>2, OrderKept DEF Logged


(* A line that is added refers in vain to nothing that a later one gives.              *)
LEMMA LogGrows ==
  ASSUME SkillInv, SameOrder, NEW s \in Ids, NEW how \in {"ok", "failed"}, Ready(s),
         ran' = Said(s, how), UNCHANGED <<mode, dir, crossed>>,
         how = "failed" => phase' = "failed",
         nth' = nth + 1 \/ nth' = nth
  PROVE  /\ \A n \in 1 .. Len(ran') : Logged(n)'
         /\ ran' \in Seq(RunLines)
<1>1. /\ phase = "steps" /\ RunInvariant /\ ran \in Seq(RunLines) /\ SortInv
      /\ skill[s].deps \subseteq Before(nth) /\ s \notin Before(nth)
      /\ (dir = "own" \/ crossed) /\ Before(nth + 1) = Before(nth) \cup {s}
  BY DEF Ready, RunInvariant
<1>2. PICK last : last = [step |-> s, how |-> how, missing |-> Missing(s), dir |-> dir]
  OBVIOUS
<1>3. last.step = s /\ last.how = how /\ last.missing = Missing(s) /\ last.dir = dir
  BY <1>2
<1>4. PICK len \in Nat : len = Len(ran)
  BY <1>1
<1>5. /\ ran' = Append(ran, last) /\ Len(ran') = len + 1 /\ ran'[len + 1] = last
      /\ \A n \in 1 .. len : ran'[n] = ran[n]
  BY <1>1, <1>2, <1>4 DEF Said
<1>6. Before(nth) \subseteq Before(nth)'
  <2>1. \A n : Before(n)' = Before(n)
    BY OrderKept
  <2>2. CASE nth' = nth
    BY <2>2, OrderKept DEF Before
  <2>3. CASE nth' = nth + 1
    BY <1>1, <2>3, OrderKept DEF Before
  <2> QED BY <2>2, <2>3
<1>7. Missing(s) \subseteq Before(nth)
  BY <1>1 DEF Missing
<1>8. ASSUME NEW n \in 1 .. len PROVE Logged(n)'
  <2>1. Logged(n) /\ n \in 1 .. Len(ran)
    BY <1>1, <1>4 DEF RunInvariant
  <2>2. ran'[n] = ran[n] /\ ran[n].how # "failed"
    BY <1>1, <1>5, <2>1 DEF Logged
  <2>3. ASSUME NEW m \in n + 1 .. len + 1 PROVE ran'[m].step \notin ran[n].missing
    <3>1. CASE m = len + 1
      BY <1>1, <1>3, <1>5, <2>1, <3>1 DEF Logged
    <3>2. CASE m # len + 1
      <4>1. m \in n + 1 .. Len(ran) /\ m \in 1 .. len
        BY <1>4, <3>2
      <4> QED BY <1>5, <2>1, <4>1 DEF Logged
    <3> QED BY <3>1, <3>2
  <2>4. InFull' = InFull
    BY OrderKept
  <2> QED BY <1>5, <1>6, <2>1, <2>2, <2>3, <2>4 DEF Logged
<1>9. Logged(len + 1)'
  <2>1. mode = "execute" => Missing(s) \cap InFull = {}
    <3>1. mode = "execute" => context = InFull \cap Before(nth)
      BY <1>1 DEF RunInvariant, ValuesInv
    <3> QED BY <1>1, <3>1 DEF Missing
  <2>2. \A m \in len + 1 + 1 .. len + 1 : FALSE
    BY <1>4
  <2>3. InFull' = InFull
    BY OrderKept
  <2>4. \A m \in len + 1 + 1 .. Len(ran') : ran'[m].step \notin ran'[len + 1].missing
    BY <1>5, <2>2
  <2> QED BY <1>1, <1>3, <1>5, <1>6, <1>7, <2>1, <2>3, <2>4 DEF Logged
<1>10. last \in RunLines
  <2>1. Missing(s) \subseteq Ids \cup {Ghost}
    <3>1. skill \in Graphs
      BY <1>1 DEF SortInv
    <3> QED BY <3>1, SkillConstants DEF Missing, AnyStep
  <2>2. dir \in {"own", "other", "none"}
    BY <1>1 DEF RunInvariant
  <2> QED BY <1>2, <2>1, <2>2 DEF RunLines
<1>11. ran' \in Seq(RunLines)
  BY <1>1, <1>5, <1>10
<1>12. ASSUME NEW n \in 1 .. Len(ran') PROVE Logged(n)'
  <2>1. n \in 1 .. len \/ n = len + 1
    BY <1>4, <1>5
  <2> QED BY <1>8, <1>9, <2>1
<1> QED BY <1>11, <1>12


(* The values after a step: of a step that runs, is skipped, or is the model's.          *)
LEMMA ValuesGrow ==
  ASSUME SkillInv, SameOrder, NEW s \in Ids, Ready(s), nth' = nth + 1,
         \/ Meets(s) /\ context' = context \cup {s} /\ late' = late
         \/ ~Meets(s) /\ context' = context /\ late' = late
         \/ Meets(s) /\ context' = context /\ late' = Append(late, s)
  PROVE  ValuesInv' /\ late' \in Seq(Ids)
<1>1. /\ RunInvariant /\ nth \in Ids /\ nth \in Nat /\ ordered[nth] = s /\ s \notin Before(nth)
      /\ \A n \in 1 .. nth : Before(n) \subseteq Before(nth)
      /\ Before(nth + 1) = Before(nth) \cup {s}
      /\ s \in InFull <=> skill[s].if = Always \/ skill[s].if \in InFull \cap Before(nth)
  BY DEF Ready
<1>2. /\ late \in Seq(Ids) /\ context \subseteq Before(nth)
      /\ late = << >> => context = InFull \cap Before(nth)
      /\ late # << >> => \E n \in Ids : FirstLate(n)
  BY <1>1 DEF RunInvariant, ValuesInv
<1>3. Before(nth)' = Before(nth) \cup {s}
  BY <1>1, OrderKept DEF Before
<1>4. context' \subseteq Before(nth)'
  BY <1>2, <1>3
<1>5. late' \in Seq(Ids)
  BY <1>2
<1>6. ASSUME late' = << >> PROVE context' = InFull' \cap Before(nth)'
  <2>1. late = << >> /\ late' = late
    BY <1>2, <1>6
  <2>2. Meets(s) <=> s \in InFull
    BY <1>1, <1>2, <2>1 DEF Meets
  <2>3. context' = IF Meets(s) THEN context \cup {s} ELSE context
    <3>1. late' # Append(late, s)
      BY <1>2, <2>1
    <3> QED BY <3>1
  <2> QED BY <1>2, <1>3, <2>1, <2>2, <2>3, OrderKept
<1>7. ASSUME late' # << >> PROVE \E n \in Ids : FirstLate(n)'
  <2>1. CASE late = << >>
    <3>1. context' = context /\ late'[1] = s
      BY <1>7, <2>1
    <3>2. PICK p \in Ids : p = nth
      BY <1>1
    <3>3. context' \cap Before(p)' = InFull' \cap Before(p)'
      BY <1>2, <2>1, <3>1, <3>2, OrderKept
    <3>4. FirstLate(p)'
      BY <1>1, <3>1, <3>2, <3>3 DEF FirstLate, SameOrder
    <3> QED BY <3>4
  <2>2. CASE late # << >>
    <3>1. PICK n \in Ids : FirstLate(n)
      BY <1>2, <2>2
    <3>2. n < nth /\ n \in Nat /\ ordered[n] = late[1]
      BY <3>1, SkillConstants DEF FirstLate, Ids
    <3>3. late'[1] = late[1]
      BY <1>2, <2>2
    <3>4. s \notin Before(n)
      BY <1>1, <3>1, <3>2, SkillConstants DEF Ids
    <3>5. context' \cap Before(n) = InFull \cap Before(n)
      BY <3>1, <3>4 DEF FirstLate
    <3>6. FirstLate(n)'
      BY <1>1, <3>2, <3>3, <3>5, OrderKept DEF FirstLate, SameOrder
    <3> QED BY <3>6
  <2> QED BY <2>1, <2>2
<1> QED BY <1>4, <1>5, <1>6, <1>7 DEF ValuesInv


LEMMA StepRuns == ASSUME SkillInv, NEW s \in Ids, RunStepOk(s) PROVE SkillInv'
<1>1. /\ SameOrder /\ phase' = phase /\ Meets(s) /\ nth' = nth + 1 /\ late' = late
      /\ context' = context \cup {s} /\ ran' = Said(s, "ok") /\ UNCHANGED <<mode, dir, crossed>>
  BY DEF RunStepOk, SameOrder, sortVars
<1>2. Ready(s)
  BY StepsAt DEF RunStepOk
<1>3. phase = "steps" /\ SortInv /\ RunInvariant /\ nth \in Ids
  BY <1>2 DEF Ready
<1>4. SortInv'
  BY <1>1, <1>3, SortStays DEF SameOrder
<1>5. ValuesInv' /\ late' \in Seq(Ids)
  BY <1>1, <1>2, ValuesGrow
<1>6. ran' \in Seq(RunLines) /\ \A n \in 1 .. Len(ran') : Logged(n)'
  BY <1>1, <1>2, LogGrows
<1>7. nth' \in 1 .. StepCount + 1
  BY <1>1, <1>3, SkillConstants DEF Ids
<1>8. RunInvariant'
  BY <1>1, <1>3, <1>5, <1>6, <1>7 DEF RunInvariant
<1> QED BY <1>1, <1>3, <1>4, <1>8 DEF SkillInv, Sorting

LEMMA StepIsSkipped == ASSUME SkillInv, NEW s \in Ids, SkipStep(s) PROVE SkillInv'
<1>1. /\ SameOrder /\ phase' = phase /\ ~Meets(s) /\ nth' = nth + 1 /\ late' = late
      /\ context' = context /\ ran' = ran /\ UNCHANGED <<mode, dir, crossed>>
  BY DEF SkipStep, SameOrder, sortVars
<1>2. Ready(s)
  BY StepsAt DEF SkipStep
<1>3. phase = "steps" /\ SortInv /\ RunInvariant /\ nth \in Ids
  BY <1>2 DEF Ready
<1>4. SortInv'
  BY <1>1, <1>3, SortStays DEF SameOrder
<1>5. ValuesInv' /\ late' \in Seq(Ids)
  BY <1>1, <1>2, ValuesGrow
<1>6. \A n \in 1 .. Len(ran') : Logged(n)'
  BY <1>1, <1>2, LogStays
<1>7. nth' \in 1 .. StepCount + 1
  BY <1>1, <1>3, SkillConstants DEF Ids
<1>8. RunInvariant'
  BY <1>1, <1>3, <1>5, <1>6, <1>7 DEF RunInvariant
<1> QED BY <1>1, <1>3, <1>4, <1>8 DEF SkillInv, Sorting

LEMMA StepIsDeferred == ASSUME SkillInv, NEW s \in Ids, DeferStep(s) PROVE SkillInv'
<1>1. /\ SameOrder /\ phase' = phase /\ Meets(s) /\ nth' = nth + 1 /\ late' = Append(late, s)
      /\ context' = context /\ ran' = ran /\ UNCHANGED <<mode, dir, crossed>>
      /\ mode = "collect"
  BY DEF DeferStep, Deferred, SameOrder, sortVars
<1>2. Ready(s)
  BY StepsAt DEF DeferStep
<1>3. phase = "steps" /\ SortInv /\ RunInvariant /\ nth \in Ids
  BY <1>2 DEF Ready
<1>4. SortInv'
  BY <1>1, <1>3, SortStays DEF SameOrder
<1>5. ValuesInv' /\ late' \in Seq(Ids)
  BY <1>1, <1>2, ValuesGrow
<1>6. \A n \in 1 .. Len(ran') : Logged(n)'
  BY <1>1, <1>2, LogStays
<1>7. nth' \in 1 .. StepCount + 1
  BY <1>1, <1>3, SkillConstants DEF Ids
<1>8. RunInvariant'
  BY <1>1, <1>3, <1>5, <1>6, <1>7 DEF RunInvariant
<1> QED BY <1>1, <1>3, <1>4, <1>8 DEF SkillInv, Sorting

LEMMA StepFails == ASSUME SkillInv, NEW s \in Ids, FailStep(s) PROVE SkillInv'
<1>1. /\ SameOrder /\ phase' = "failed" /\ nth' = nth /\ late' = late
      /\ context' = context /\ ran' = Said(s, "failed") /\ UNCHANGED <<mode, dir, crossed>>
  BY DEF FailStep, SameOrder, sortVars
<1>2. Ready(s)
  BY StepsAt DEF FailStep
<1>3. phase = "steps" /\ phase \in Stepping /\ SortInv /\ RunInvariant
  BY <1>2 DEF Ready, Stepping
<1>4. SortInv'
  BY <1>1, <1>3, SortStays DEF SameOrder, Stepping
<1>5. ValuesInv'
  <2>1. Before(nth)' = Before(nth) /\ \A n \in Ids : FirstLate(n) => FirstLate(n)'
    BY <1>1, OrderKept DEF Before, FirstLate, SameOrder
  <2> QED BY <1>1, <1>3, <2>1, OrderKept DEF RunInvariant, ValuesInv
<1>6. ran' \in Seq(RunLines) /\ \A n \in 1 .. Len(ran') : Logged(n)'
  BY <1>1, <1>2, LogGrows
<1>7. RunInvariant'
  BY <1>1, <1>3, <1>5, <1>6 DEF RunInvariant
<1> QED BY <1>1, <1>3, <1>4, <1>7 DEF SkillInv, Sorting

(* The end of a run, and the beginning of another one, leave its values alone.             *)
LEMMA SkillGoesOn == ASSUME SkillInv, EndRun \/ OtherBegins PROVE SkillInv'
<1>1. /\ phase = "steps" /\ phase \in Stepping /\ SortInv /\ RunInvariant
      /\ SameOrder /\ UNCHANGED <<mode, nth, context, late, ran>>
      /\ phase' \in Stepping /\ phase' # "failed"
  BY DEF EndRun, OtherBegins, SameOrder, sortVars, Stepping, SkillInv
<1>2. SortInv'
  BY <1>1, SortStays DEF SameOrder
<1>3. ValuesInv'
  <2>1. Before(nth)' = Before(nth) /\ \A n \in Ids : FirstLate(n) => FirstLate(n)'
    BY <1>1, OrderKept DEF Before, FirstLate, SameOrder
  <2> QED BY <1>1, <2>1, OrderKept DEF RunInvariant, ValuesInv
<1>4. \/ dir' = dir /\ crossed' = crossed
      \/ dir' = "other" /\ crossed' = TRUE
  BY DEF EndRun, OtherBegins
<1>5. ASSUME NEW n \in 1 .. Len(ran') PROVE Logged(n)'
  <2>1. Logged(n)
    BY <1>1, <1>5 DEF RunInvariant
  <2>2. Before(nth)' = Before(nth) /\ InFull' = InFull
    BY <1>1, OrderKept DEF Before
  <2>3. crossed => crossed'
    BY <1>4
  <2> QED BY <1>1, <2>1, <2>2, <2>3 DEF Logged
<1>6. phase' \in {"done", "prompt", "mute"} => nth' = StepCount + 1
  <2>1. phase' # "steps" => nth > Len(ordered)
    BY <1>1 DEF EndRun, OtherBegins
  <2>2. Len(ordered) = StepCount /\ StepCount \in Nat
    BY <1>1, OrderIs
  <2> QED BY <1>1, <2>1, <2>2 DEF RunInvariant
<1>7. (phase' = "done" => mode' = "execute") /\ (phase' = "prompt" => late' # << >>)
  BY <1>1 DEF EndRun, OtherBegins
<1>8. dir' \in {"own", "other", "none"} /\ (dir' = "own" \/ crossed')
  BY <1>1, <1>4 DEF RunInvariant
<1>9. RunInvariant'
  BY <1>1, <1>3, <1>5, <1>6, <1>7, <1>8 DEF RunInvariant
<1> QED BY <1>1, <1>2, <1>9 DEF SkillInv, Sorting, Stepping

LEMMA SkillRest == ASSUME SkillInv, UNCHANGED skillVars PROVE SkillInv'
<1>1. /\ SameOrder /\ UNCHANGED <<phase, mode, nth, context, late, ran, dir, crossed>>
  BY DEF skillVars, sortVars, SameOrder
<1>2. SortInv'
  BY <1>1, SortStays DEF SkillInv, SameOrder
<1>3. ASSUME phase \in Stepping PROVE RunInvariant'
  <2>1. RunInvariant
    BY <1>3 DEF SkillInv
  <2>2. ValuesInv'
    <3>1. Before(nth)' = Before(nth) /\ \A n \in Ids : FirstLate(n) => FirstLate(n)'
      BY <1>1, OrderKept DEF Before, FirstLate, SameOrder
    <3> QED BY <1>1, <2>1, <3>1, OrderKept DEF RunInvariant, ValuesInv
  <2>3. ASSUME NEW n \in 1 .. Len(ran') PROVE Logged(n)'
    <3>1. Logged(n)
      BY <1>1, <2>1, <2>3 DEF RunInvariant
    <3>2. Before(nth)' = Before(nth) /\ InFull' = InFull
      BY <1>1, OrderKept DEF Before
    <3> QED BY <1>1, <3>1, <3>2 DEF Logged
  <2> QED BY <1>1, <2>1, <2>2, <2>3 DEF RunInvariant
<1> QED BY <1>1, <1>2, <1>3 DEF SkillInv

LEMMA SkillStep == ASSUME SkillInv, [SkillNext]_skillVars PROVE SkillInv'
BY SkillSorts, SkillSortEnds, StepRuns, StepIsSkipped, StepIsDeferred, StepFails, SkillGoesOn,
   SkillRest DEF SkillNext

-----------------------------------------------------------------------------
(* A step of the composition is a step of each part, or leaves it alone.            *)
LEMMA TaskWork == [WorkNext]_<<focus, AllWork>> => PlatformNext \/ UNCHANGED workVars
BY DEF WorkNext, Rest, AllWork

LEMMA RunWork == [WorkNext]_<<focus, AllWork>> => TaskRunNext \/ UNCHANGED runVars
BY DEF WorkNext, Rest, AllWork

LEMMA ProjectWork == [WorkNext]_<<focus, AllWork>> => ProjectNext \/ UNCHANGED projectVars
BY DEF WorkNext, Rest, AllWork

LEMMA SkillWork == [WorkNext]_<<focus, AllWork>> => SkillNext \/ UNCHANGED skillVars
BY DEF WorkNext, Rest, AllWork

(* Each run of a task that the platform assigned is answered once, is on its way, or     *)
(* was lost for a reason that is named, and a running row has one thread that will end    *)
(* it (ws/handlers.py, main.py), for any numbers of tasks, threads, messages, cuts and    *)
(* kills.                                                                       *)
THEOREM TasksAreSound == WorkSpec => []TasksSound
<1>1. WorkInit => TasksInv
  BY TasksInit DEF WorkInit
<1>2. TasksInv /\ [WorkNext]_<<focus, AllWork>> => TasksInv'
  BY TasksStep, TaskWork
<1> QED BY <1>1, <1>2, TasksImplies, PTL DEF WorkSpec

(* A run of a task reports progress that does not go back, ends once, asks the model    *)
(* a bounded number of times, and succeeds only at 100 (core/task_executor.py), for any      *)
(* numbers of rounds and fixes.                                               *)
THEOREM RunIsSound == WorkSpec => []TaskRunSound
<1>1. WorkInit => RunInv
  BY RunInit DEF WorkInit
<1>2. RunInv /\ [WorkNext]_<<focus, AllWork>> => RunInv'
  BY TaskRunStep, RunWork
<1> QED BY <1>1, <1>2, RunImplies, PTL DEF WorkSpec

(* When nothing of a project is under way the platform has its row as the runtime       *)
(* has it, and its repository is whole, unless its last message was made too early or had     *)
(* no connection (core/project_engine.py, server/api/projects.py), for any numbers of      *)
(* decompositions and clones.                                                     *)
THEOREM ProjectsAreMirrored == WorkSpec => []ProjectsMirrored
<1>1. WorkInit => ProjectInv
  BY ProjectInit DEF WorkInit
<1>2. ProjectInv /\ [WorkNext]_<<focus, AllWork>> => ProjectInv'
  BY ProjectStep, ProjectWork
<1> QED BY <1>1, <1>2, ProjectImplies, PTL DEF WorkSpec

(* The steps of a skill are brought into an order exactly if there is one; no step runs     *)
(* after one that failed; an execution that succeeds has run what its conditions allow; the    *)
(* prompt of a collection has what an execution would have had there; and the directory is       *)
(* the skill's own unless another has begun (core/dag_executor.py), for any graphs.            *)
THEOREM SkillIsSound == WorkSpec => []SkillSound
<1>1. WorkInit => SkillInv
  BY SkillStart DEF WorkInit
<1>2. SkillInv /\ [WorkNext]_<<focus, AllWork>> => SkillInv'
  BY SkillStep, SkillWork
<1>3. SkillInv => SkillSound
  BY SkillShow
<1> QED BY <1>1, <1>2, <1>3, PTL DEF WorkSpec
=============================================================================
