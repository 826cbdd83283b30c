------------------------- MODULE OrchestratorProofs -------------------------
(***************************************************************************)
(* Machine-checked proofs about Orchestrator, for plans of any length over *)
(* any ids, any number of retries and any bound on restarts.               *)
(***************************************************************************)
EXTENDS OrchestratorProps, TLAPS, WellFoundedInduction, FiniteSetTheorems

-----------------------------------------------------------------------------
(* Facts about the constants and about the order of a list.                *)

LEMMA Numbers == /\ N \in Nat \ {0} /\ MaxRetries \in Nat
                 /\ MaxRounds \in Nat /\ RunCap \in Nat
                 /\ MaxCrashes \in Nat /\ DbMayFail \in BOOLEAN
  BY OrchestratorConstants DEF MaxRounds, RunCap

LEMMA SomeSub == Sub # {}
  BY OrchestratorConstants, 1 \in 1 .. N DEF Sub

\* A list that is not empty has a first subtask.
LEMMA FirstExists ==
  ASSUME NEW T, T \subseteq Sub, T # {}
  PROVE  (CHOOSE p \in T : \A q \in T : p <= q) \in T
  <1>1. T \subseteq Nat
    BY OrchestratorConstants DEF Sub
  <1>2. PICK x \in T : \A y \in T : ~ (<<y, x>> \in OpToRel(<, Nat))
    BY <1>1, NatLessThanWellFounded, WFMin
  <1>3. ASSUME NEW y \in T PROVE x <= y
    <2>1. ~ (y < x)
      BY <1>1, <1>2, <<y, x>> \in Nat \X Nat, <<y, x>>[1] = y, <<y, x>>[2] = x
      DEF OpToRel
    <2> QED BY <1>1, <2>1
  <1> QED BY <1>3

LEMMA FirstIsIn == ASSUME todo \subseteq Sub, todo # {} PROVE First \in todo
  BY FirstExists DEF First

LEMMA FirstIsIn1 == ASSUME todo' \subseteq Sub, todo' # {} PROVE First' \in todo'
  BY FirstExists DEF First

LEMMA FirstStays == ASSUME todo' = todo PROVE First' = First
  BY DEF First

LEMMA UpdateType ==
  ASSUME NEW S, NEW T, NEW f \in [S -> T], NEW x, NEW v \in T
  PROVE  [f EXCEPT ![x] = v] \in [S -> T]
  OBVIOUS

-----------------------------------------------------------------------------
(* Type correctness.                                                       *)

LEMMA InitTyped == OInit => OTypeOK
  <1> SUFFICES ASSUME OInit PROVE OTypeOK
    OBVIOUS
  <1>1. id \in [Sub -> Ids] /\ subrows \in [Ids -> SubStatus \cup {"none"}]
    BY OrchestratorConstants DEF OInit, SubStatus
  <1>2. /\ st \in [Sub -> SubStatus] /\ deps \in [Sub -> SUBSET Ids]
        /\ ckpt \in [Sub -> SubStatus \cup {"none"}]
    BY DEF OInit, SubStatus, NoCheckpoint
  <1>3. /\ audit \in [Sub -> {"none", "passed", "failed"}]
        /\ runs \in [Sub -> 0 .. RunCap]
    <2>1. 0 \in 0 .. RunCap
      BY Numbers
    <2> QED BY <2>1 DEF OInit
  <1>4. /\ attempt \in 0 .. MaxRetries /\ rounds \in 0 .. MaxRounds
        /\ crashes \in 0 .. MaxCrashes
    BY Numbers DEF OInit
  <1> QED BY <1>1, <1>2, <1>3, <1>4 DEF OInit, OTypeOK, PCs, RowStatus

LEMMA NextTyped == OTypeOK /\ [ONext]_ovars => OTypeOK'
  <1> SUFFICES ASSUME OTypeOK, [ONext]_ovars PROVE OTypeOK'
    OBVIOUS
  <1> USE Numbers, FirstIsIn, UpdateType
      DEF OTypeOK, PCs, SubStatus, RowStatus, Goto, memory, stored, history
  <1>1. CASE UNCHANGED ovars
    BY <1>1 DEF ovars
  <1>2. CASE Decline
    BY <1>2 DEF Decline
  <1>3. CASE Decompose
    BY <1>3 DEF Decompose
  <1>4. CASE InsertPlan
    BY <1>4 DEF InsertPlan
  <1>5. CASE OpenRound
    BY <1>5 DEF OpenRound, Ready
  <1>6. CASE Stuck
    BY <1>6 DEF Stuck
  <1>7. CASE EndRounds
    BY <1>7 DEF EndRounds
  <1>8. CASE Start
    <2>1. First \in Sub /\ runs[First] \in 0 .. RunCap
      BY <1>8 DEF Start
    <2>2. (IF runs[First] < RunCap THEN runs[First] + 1 ELSE runs[First])
            \in 0 .. RunCap
      BY <2>1
    <2>3. runs' \in [Sub -> 0 .. RunCap]
      <3> DEFINE more == IF runs[First] < RunCap THEN runs[First] + 1
                                                 ELSE runs[First]
      <3>1. runs' = [runs EXCEPT ![First] = more]
        BY <1>8 DEF Start
      <3>2. more \in 0 .. RunCap
        BY <2>2
      <3> HIDE DEF more
      <3> QED BY <3>1, <3>2
    <2> QED BY <1>8, <2>3 DEF Start
  <1>9. CASE WorkReturns
    BY <1>9 DEF WorkReturns
  <1>10. CASE WorkRaises
    BY <1>10 DEF WorkRaises, Again
  <1>11. CASE AuditPasses
    BY <1>11 DEF AuditPasses, Verdict
  <1>12. CASE AuditFails
    BY <1>12 DEF AuditFails, Verdict, Again
  <1>13. CASE SaveCheckpoint
    BY <1>13 DEF SaveCheckpoint
  <1>14. CASE WritePlan
    BY <1>14, SomeSub DEF WritePlan
  <1>15. CASE InsertSub
    BY <1>15 DEF InsertSub
  <1>16. CASE WriteSub
    BY <1>16 DEF WriteSub
  <1>17. CASE DeleteCheckpoint
    BY <1>17 DEF DeleteCheckpoint, NoCheckpoint
  <1>18. CASE CallRaises
    BY <1>18 DEF CallRaises
  <1>19. CASE Crash
    BY <1>19 DEF Crash
  <1>20. CASE EngineMoves
    BY <1>20 DEF EngineMoves
  <1> QED BY <1>1, <1>2, <1>3, <1>4, <1>5, <1>6, <1>7, <1>8, <1>9, <1>10, <1>11,
             <1>12, <1>13, <1>14, <1>15, <1>16, <1>17, <1>18, <1>19, <1>20
          DEF ONext, Walk

\* The plan, its rows and its checkpoint are always well typed.
THEOREM PlanTyping == OSpec => []OTypeOK
  BY InitTyped, NextTyped, PTL DEF OSpec

-----------------------------------------------------------------------------
(* The strengthening.  Busy is the part of a round that is not over: what   *)
(* the others have reached holds without it.                               *)

Looping == pc \in {"start", "work", "audit", "save"}

Busy == IF Looping THEN todo ELSE {}

Given(d) == \E q \in Sub \ Busy : st[q] = "done" /\ id[q] = d

\* Nothing is done before the plan is inserted.
FreshInv == pc \in {"idle", "insert"} => \A p \in Sub : st[p] = "pending"

\* What is executed, and what is left of the round, depends on successes outside
\* of what is left of the round, which no retry takes back.
DependInv ==
  \A p \in Sub : st[p] \in {"running", "done"} \/ p \in Busy
                => \A d \in deps[p] : Given(d)

\* What is left of a round waits, but for the subtask under way.
RoundInv ==
  /\ \A p \in Busy : p = First \/ st[p] = "pending"
  /\ pc = "start" => st[First] = "pending"
  /\ pc = "work" => st[First] = "running"
  /\ pc = "audit" => st[First] = "done"
  /\ pc = "save" => st[First] \in {"done", "failed"}

OInv == OTypeOK /\ FreshInv /\ DependInv /\ RoundInv

LEMMA InitInv == OInit => OInv
  BY InitTyped DEF OInit, OInv, FreshInv, DependInv, RoundInv, Busy, Looping

LEMMA NextInv == OInv /\ [ONext]_ovars => OInv'
  <1> SUFFICES ASSUME OInv, [ONext]_ovars PROVE OInv'
    OBVIOUS
  <1>0. OTypeOK' /\ OTypeOK
    BY NextTyped DEF OInv
  <1> USE DEF OInv, FreshInv, RoundInv, DependInv, Busy, Looping, Given, Goto,
              memory, stored, history
  <1>1. CASE UNCHANGED <<pc, id, deps, st, todo>>
    BY <1>0, <1>1, FirstStays
  <1>2. CASE Decompose \/ InsertPlan \/ EndRounds \/ WritePlan \/ InsertSub
             \/ WriteSub \/ DeleteCheckpoint \/ CallRaises \/ Crash
    BY <1>0, <1>2
    DEF Decompose, InsertPlan, EndRounds, WritePlan, InsertSub, WriteSub,
        DeleteCheckpoint, CallRaises, Crash
  <1>3. CASE OpenRound
    BY <1>0, <1>3, FirstIsIn1 DEF OpenRound, Ready, DoneIds, OTypeOK
  <1>4. CASE Stuck
    BY <1>0, <1>4 DEF Stuck, OTypeOK
  <1>5. CASE Start \/ WorkReturns \/ WorkRaises \/ AuditPasses \/ AuditFails
    <2>1. /\ UNCHANGED <<id, deps, todo>> /\ pc \in {"start", "work", "audit"}
      BY <1>5 DEF Start, WorkReturns, WorkRaises, AuditPasses, AuditFails
    <2>2. First' = First /\ First \in todo
      BY <1>0, <2>1, FirstStays, FirstIsIn DEF OTypeOK
    <2>3. /\ pc' \in {"start", "work", "audit", "save"}
          /\ \A p \in Sub : p # First => st'[p] = st[p]
          /\ st[First] \in {"running", "done"} \/ First \in Busy
      <3>1. CASE Start
        BY <1>0, <2>1, <2>2, <3>1 DEF Start, OTypeOK
      <3>2. CASE WorkReturns
        BY <1>0, <2>1, <2>2, <3>2 DEF WorkReturns, OTypeOK
      <3>3. CASE WorkRaises
        BY <1>0, <2>1, <2>2, <3>3 DEF WorkRaises, Again, OTypeOK
      <3>4. CASE AuditPasses
        BY <1>0, <2>1, <2>2, <3>4 DEF AuditPasses, OTypeOK
      <3>5. CASE AuditFails
        BY <1>0, <2>1, <2>2, <3>5 DEF AuditFails, Again, OTypeOK
      <3> QED BY <1>5, <3>1, <3>2, <3>3, <3>4, <3>5
    <2>4. DependInv'
      BY <1>0, <2>1, <2>2, <2>3 DEF OTypeOK
    <2>5. RoundInv'
      <3>1. \A p \in Busy' : p = First' \/ st'[p] = "pending"
        BY <1>0, <2>1, <2>2, <2>3 DEF OTypeOK
      <3>2. /\ pc' = "start" => st'[First] = "pending"
            /\ pc' = "work" => st'[First] = "running"
            /\ pc' = "audit" => st'[First] = "done"
            /\ pc' = "save" => st'[First] \in {"done", "failed"}
        <4>1. CASE Start
          BY <1>0, <2>2, <4>1 DEF Start, OTypeOK
        <4>2. CASE WorkReturns
          BY <1>0, <2>2, <4>2 DEF WorkReturns, OTypeOK
        <4>3. CASE WorkRaises
          BY <1>0, <2>2, <4>3 DEF WorkRaises, Again, OTypeOK
        <4>4. CASE AuditPasses
          BY <1>0, <2>2, <4>4 DEF AuditPasses, OTypeOK
        <4>5. CASE AuditFails
          BY <1>0, <2>2, <4>5 DEF AuditFails, Again, OTypeOK
        <4> QED BY <1>5, <4>1, <4>2, <4>3, <4>4, <4>5
      <3> QED BY <2>2, <3>1, <3>2
    <2>6. FreshInv'
      BY <2>1, <2>3
    <2> QED BY <1>0, <2>4, <2>5, <2>6
  <1>6. CASE SaveCheckpoint
    BY <1>0, <1>6, FirstIsIn, FirstIsIn1 DEF SaveCheckpoint, OTypeOK
  <1>7. CASE Decline
    BY <1>0, <1>7 DEF Decline
  <1> QED BY <1>1, <1>2, <1>3, <1>4, <1>5, <1>6, <1>7
          DEF ONext, Walk, ovars, EngineMoves

THEOREM PlanInvariant == OSpec => []OInv
  BY InitInv, NextInv, PTL DEF OSpec

\* For any plan: what runs or is done depends on ids of subtasks that are done.
THEOREM DependenciesRespected == OSpec => []DependenciesFirst
  <1>1. OInv => DependenciesFirst
    BY DEF OInv, OTypeOK, DependInv, Given, DependenciesFirst, DoneIds
  <1> QED BY <1>1, PlanInvariant, PTL

-----------------------------------------------------------------------------
(* The attempts made at a subtask.                                         *)

Over == pc \in {"fallback", "lost"}

AttemptInv ==
  /\ AttemptsBounded
  /\ ~ Over => \A p \in Sub : st[p] = "pending" /\ ~ (pc = "start" /\ p = First)
                             => runs[p] = 0
  /\ pc = "start" => runs[First] = attempt
  /\ pc \in {"work", "audit"} => runs[First] = attempt + 1

LEMMA InitAttempts == OInit => AttemptInv
  BY Numbers DEF OInit, AttemptInv, AttemptsBounded, Over

LEMMA NextAttempts == OInv /\ AttemptInv /\ [ONext]_ovars => AttemptInv'
  <1> SUFFICES ASSUME OInv, AttemptInv, [ONext]_ovars PROVE AttemptInv'
    OBVIOUS
  <1>0. OTypeOK' /\ OTypeOK /\ RoundInv /\ FreshInv
    BY NextTyped DEF OInv
  <1> USE Numbers
      DEF AttemptInv, AttemptsBounded, Over, Goto, memory, stored, history
  <1>1. CASE UNCHANGED ovars
    BY <1>0, <1>1, FirstStays DEF ovars
  <1>2. CASE Decline \/ Decompose \/ InsertPlan \/ EndRounds \/ WritePlan
             \/ InsertSub \/ WriteSub \/ DeleteCheckpoint \/ CallRaises \/ Crash
    BY <1>0, <1>2
    DEF Decline, Decompose, InsertPlan, EndRounds, WritePlan, InsertSub,
        WriteSub, DeleteCheckpoint, CallRaises, Crash
  <1>3. CASE OpenRound
    BY <1>0, <1>3, FirstIsIn1 DEF OpenRound, Ready, OTypeOK
  <1>4. CASE Stuck
    BY <1>0, <1>4 DEF Stuck, OTypeOK
  <1>5. CASE Start
    BY <1>0, <1>5, FirstStays, FirstIsIn DEF Start, OTypeOK, RunCap
  <1>6. CASE WorkReturns
    BY <1>0, <1>6, FirstStays, FirstIsIn DEF WorkReturns, OTypeOK
  <1>7. CASE WorkRaises
    BY <1>0, <1>7, FirstStays, FirstIsIn DEF WorkRaises, Again, OTypeOK
  <1>8. CASE AuditPasses
    BY <1>0, <1>8, FirstStays, FirstIsIn DEF AuditPasses, OTypeOK
  <1>9. CASE AuditFails
    BY <1>0, <1>9, FirstStays, FirstIsIn DEF AuditFails, Again, OTypeOK
  <1>10. CASE SaveCheckpoint
    BY <1>0, <1>10, FirstIsIn, FirstIsIn1
    DEF SaveCheckpoint, OTypeOK, RoundInv, Busy, Looping
  <1>11. CASE EngineMoves
    BY <1>0, <1>11, FirstStays DEF EngineMoves
  <1> QED BY <1>1, <1>2, <1>3, <1>4, <1>5, <1>6, <1>7, <1>8, <1>9, <1>10, <1>11
          DEF ONext, Walk

\* For any plan and any number of retries: a subtask is executed at most that
\* number of times again.
THEOREM AttemptsLimited == OSpec => []AttemptsBounded
  <1>1. AttemptInv => AttemptsBounded
    BY DEF AttemptInv
  <1> QED BY <1>1, InitAttempts, NextAttempts, PlanInvariant, PTL DEF OSpec

-----------------------------------------------------------------------------
(* The checkpoint.                                                         *)

\* What was executed and has not ended in the checkpoint.
Unsaved == {p \in Sub : runs[p] > 0 /\ ~ Ended(ckpt[p])}

CheckInv ==
  /\ \A p \in Sub : Ended(ckpt[p]) => st[p] = ckpt[p]
  /\ \A p \in Busy : ~ Ended(ckpt[p])
  /\ ~ Over /\ pc # "returned" => \A p \in Unsaved : Looping /\ p = First
  /\ Over => \E x \in Sub : Unsaved \subseteq {x}

LEMMA InitCheck == OInit => CheckInv
  BY DEF OInit, CheckInv, Over, Busy, Looping, Unsaved, Ended, NoCheckpoint

LEMMA NextCheck == OInv /\ CheckInv /\ [ONext]_ovars => CheckInv'
  <1> SUFFICES ASSUME OInv, CheckInv, [ONext]_ovars PROVE CheckInv'
    OBVIOUS
  <1>0. OTypeOK' /\ OTypeOK /\ RoundInv /\ FreshInv
    BY NextTyped DEF OInv
  <1> USE Numbers DEF CheckInv, Over, Busy, Looping, Unsaved, Ended, Goto,
                      memory, stored, history
  <1>1. CASE UNCHANGED ovars
    BY <1>0, <1>1, FirstStays DEF ovars
  <1>2. CASE Decline \/ Decompose \/ InsertPlan \/ EndRounds \/ WritePlan
             \/ InsertSub \/ WriteSub
    BY <1>0, <1>2, SomeSub
    DEF Decline, Decompose, InsertPlan, EndRounds, WritePlan, InsertSub,
        WriteSub
  <1>3. CASE OpenRound
    BY <1>0, <1>3 DEF OpenRound, Ready, OTypeOK
  <1>4. CASE Stuck
    BY <1>0, <1>4 DEF Stuck, OTypeOK
  <1>5. CASE Start
    BY <1>0, <1>5, FirstStays, FirstIsIn DEF Start, OTypeOK
  <1>6. CASE WorkReturns
    BY <1>0, <1>6, FirstStays, FirstIsIn DEF WorkReturns, OTypeOK
  <1>7. CASE WorkRaises
    BY <1>0, <1>7, FirstStays, FirstIsIn DEF WorkRaises, Again, OTypeOK
  <1>8. CASE AuditPasses
    BY <1>0, <1>8, FirstStays, FirstIsIn DEF AuditPasses, OTypeOK
  <1>9. CASE AuditFails
    BY <1>0, <1>9, FirstStays, FirstIsIn DEF AuditFails, Again, OTypeOK
  <1>10. CASE SaveCheckpoint
    BY <1>0, <1>10, FirstIsIn DEF SaveCheckpoint, OTypeOK, RoundInv
  <1>11. CASE DeleteCheckpoint
    BY <1>0, <1>11 DEF DeleteCheckpoint, NoCheckpoint
  <1>12. CASE CallRaises \/ Crash
    BY <1>0, <1>12, FirstIsIn, SomeSub DEF CallRaises, Crash, OTypeOK
  <1>13. CASE EngineMoves
    BY <1>0, <1>13, FirstStays DEF EngineMoves
  <1> QED BY <1>1, <1>2, <1>3, <1>4, <1>5, <1>6, <1>7, <1>8, <1>9, <1>10, <1>11,
             <1>12, <1>13
          DEF ONext, Walk

\* For any plan: a crash costs at most the subtask under way, and the checkpoint
\* claims no end the plan has not reached.
THEOREM CheckpointTrusted == OSpec => []CheckpointFaithful
  <1>1. ASSUME OInv, CheckInv PROVE CheckpointFaithful
    <2>1. pc # "returned" => \E x : Unsaved \subseteq {x}
      BY <1>1 DEF CheckInv
    <2>2. pc # "returned" => Cardinality(Unsaved) <= 1
      <3> SUFFICES ASSUME NEW x, Unsaved \subseteq {x}
                   PROVE  Cardinality(Unsaved) <= 1
        BY <2>1
      <3>1. IsFiniteSet({x}) /\ Cardinality({x}) = 1
        BY FS_Singleton
      <3> QED BY <3>1, FS_Subset, FS_CardinalityType
    <2> QED BY <1>1, <2>2 DEF CheckInv, CheckpointFaithful, Unsaved
  <1> QED BY <1>1, InitCheck, NextCheck, PlanInvariant, PTL DEF OSpec

-----------------------------------------------------------------------------
(* The bound on rounds.                                                    *)

\* What has ended and no retry takes back.
Settled == {p \in Sub \ Busy : Ended(st[p])}

\* Each round that is over has ended at least one subtask.
RoundsInv ==
  /\ \A p \in Sub : pc \notin {"fallback", "lost"} /\ st[p] = "running"
                    => Looping /\ p = First
  /\ pc = "round" => rounds <= Cardinality(Settled)
  /\ Looping => rounds <= Cardinality(Settled) + 1
  /\ pc \in {"idle", "insert"} => rounds = 0
  /\ AllEnded

LEMMA SubFinite == IsFiniteSet(Sub) /\ Cardinality(Sub) = N
  BY FS_Interval, Numbers DEF Sub

LEMMA SettledFinite ==
  /\ IsFiniteSet(Settled) /\ Cardinality(Settled) \in Nat
  /\ Cardinality(Settled) <= N
  /\ Cardinality(Settled) = N => Settled = Sub
  BY SubFinite, FS_Subset, FS_CardinalityType DEF Settled

LEMMA RoundsEnough == MaxRounds >= N
  <1>1. N * (MaxRetries + 1) = N * MaxRetries + N /\ N * MaxRetries >= 0
    BY Numbers
  <1> QED BY <1>1, Numbers DEF MaxRounds

LEMMA InitRounds == OInit => RoundsInv
  BY DEF OInit, RoundsInv, Looping, AllEnded

LEMMA NextRounds == OInv /\ RoundsInv /\ [ONext]_ovars => RoundsInv'
  <1> SUFFICES ASSUME OInv, RoundsInv, [ONext]_ovars PROVE RoundsInv'
    OBVIOUS
  <1>0. OTypeOK' /\ OTypeOK /\ RoundInv /\ FreshInv
    BY NextTyped DEF OInv
  <1> DEFINE c == Cardinality(Settled)
  <1>s. c \in Nat /\ c <= N
    BY SettledFinite
  <1> HIDE DEF c
  <1> USE Numbers DEF Looping, Goto, memory, stored, history
  <1>1. CASE UNCHANGED ovars \/ EngineMoves
    <2>1. UNCHANGED <<pc, st, todo, rounds>>
      BY <1>1 DEF ovars, EngineMoves
    <2>2. First' = First /\ Settled' = Settled
      BY <2>1, FirstStays DEF Settled, Busy
    <2> QED BY <2>1, <2>2 DEF RoundsInv, AllEnded, Complete
  <1>2. CASE Decline \/ CallRaises \/ Crash
    BY <1>0, <1>2 DEF Decline, CallRaises, Crash, RoundsInv, AllEnded, Complete
  <1>3. CASE Decompose
    BY <1>0, <1>3 DEF Decompose, RoundsInv, AllEnded, FreshInv
  <1>4. CASE InsertPlan
    <2>1. Cardinality(Settled') \in Nat
      BY <1>4, SubFinite, FS_Subset, FS_CardinalityType DEF Settled
    <2> QED BY <1>0, <1>4, <2>1 DEF InsertPlan, RoundsInv, AllEnded, FreshInv
  <1>5. CASE OpenRound
    <2>1. Settled' = Settled
      BY <1>0, <1>5 DEF OpenRound, Ready, Settled, Busy, Ended, OTypeOK
    <2> QED BY <1>0, <1>5, <1>s, <2>1
            DEF OpenRound, Ready, RoundsInv, AllEnded, OTypeOK, c
  <1>6. CASE Stuck
    BY <1>0, <1>6 DEF Stuck, RoundsInv, AllEnded, Complete, OTypeOK, SubStatus
  <1>7. CASE EndRounds
    <2>1. CASE Complete(st)
      BY <1>7, <2>1 DEF EndRounds, RoundsInv, AllEnded, Complete
    <2>2. CASE rounds >= MaxRounds
      <3>1. rounds <= c
        BY <1>7 DEF EndRounds, RoundsInv, c
      <3>2. Settled = Sub
        BY <1>0, <1>s, <2>2, <3>1, RoundsEnough, SettledFinite DEF OTypeOK, c
      <3>3. Complete(st)
        BY <3>2 DEF Settled, Ended, Complete
      <3> QED BY <1>7, <3>3 DEF EndRounds, RoundsInv, AllEnded, Complete
    <2> QED BY <1>7, <2>1, <2>2 DEF EndRounds
  <1>8. CASE Start \/ WorkReturns \/ WorkRaises \/ AuditPasses \/ AuditFails
    <2>1. UNCHANGED <<todo, rounds>> /\ pc \in {"start", "work", "audit"}
      BY <1>8 DEF Start, WorkReturns, WorkRaises, AuditPasses, AuditFails
    <2>2. First' = First /\ First \in todo
      BY <1>0, <2>1, FirstStays, FirstIsIn DEF OTypeOK
    <2>3. /\ pc' \in {"start", "work", "audit", "save"}
          /\ \A p \in Sub : p # First => st'[p] = st[p]
      <3>1. CASE Start \/ WorkReturns
        BY <1>0, <3>1 DEF Start, WorkReturns, OTypeOK
      <3>2. CASE WorkRaises
        BY <1>0, <3>2 DEF WorkRaises, Again, OTypeOK
      <3>3. CASE AuditPasses
        BY <1>0, <3>3 DEF AuditPasses
      <3>4. CASE AuditFails
        BY <1>0, <3>4 DEF AuditFails, Again, OTypeOK
      <3> QED BY <1>8, <3>1, <3>2, <3>3, <3>4
    <2>4. Settled' = Settled
      BY <2>1, <2>2, <2>3 DEF Settled, Busy, Ended
    <2> QED BY <2>1, <2>2, <2>3, <2>4 DEF RoundsInv, AllEnded
  <1>9. CASE SaveCheckpoint
    <2>1. First \in todo /\ First \in Sub
      BY <1>0, <1>9, FirstIsIn DEF SaveCheckpoint, OTypeOK
    <2>2. Settled' = Settled \cup {First} /\ First \notin Settled
      BY <1>0, <1>9, <2>1 DEF SaveCheckpoint, Settled, Busy, Ended, RoundInv
    <2>3. Cardinality(Settled') = c + 1
      BY <2>2, SettledFinite, FS_AddElement DEF c
    <2>4. UNCHANGED <<st, rounds>> /\ pc' \in {"round", "start"}
      BY <1>9 DEF SaveCheckpoint
    <2>5. \A p \in Sub : st[p] # "running"
      BY <1>0, <1>9, <2>1 DEF RoundInv, SaveCheckpoint, RoundsInv
    <2>6. rounds <= c + 1
      BY <1>9 DEF SaveCheckpoint, RoundsInv, c
    <2> QED BY <1>0, <1>s, <2>3, <2>4, <2>5, <2>6 DEF RoundsInv, AllEnded, OTypeOK
  <1>10. CASE WritePlan \/ InsertSub \/ WriteSub \/ DeleteCheckpoint
    BY <1>0, <1>10 DEF WritePlan, InsertSub, WriteSub, DeleteCheckpoint,
                       RoundsInv, AllEnded, Complete
  <1> QED BY <1>1, <1>2, <1>3, <1>4, <1>5, <1>6, <1>7, <1>8, <1>9, <1>10
          DEF ONext, Walk

\* For any plan: the product that bounds the rounds cuts none short.
THEOREM RoundsSuffice == OSpec => []AllEnded
  <1>1. RoundsInv => AllEnded
    BY DEF RoundsInv
  <1> QED BY <1>1, InitRounds, NextRounds, PlanInvariant, PTL DEF OSpec

-----------------------------------------------------------------------------
(* A plan is run as DependencyRun says.                                    *)

\* The thread has a subtask in hand.
InHand == pc \in {"start", "work", "audit"}

LEMMA Stutters ==
  ASSUME UNCHANGED <<id, deps>>, \A p \in Sub : Progress(p)' = Progress(p)
  PROVE  UNCHANGED Run!dvars
  <1>1. \A d : Providers(d)' = Providers(d)
    BY DEF Providers
  <1>2. [p \in Sub |-> {Providers(d) : d \in deps[p]}]'
          = [p \in Sub |-> {Providers(d) : d \in deps[p]}]
    BY <1>1
  <1>3. [p \in Sub |-> Progress(p)]' = [p \in Sub |-> Progress(p)]
    OBVIOUS
  <1> QED BY <1>2, <1>3 DEF Run!dvars

\* What DependInv knows of a subtask that has just succeeded.
LEMMA Succeeds ==
  ASSUME OInv, NEW q \in Sub, q \in Busy, UNCHANGED <<id, deps>>,
         Progress(q) = "open", Progress(q)' = "done",
         \A p \in Sub : p # q => Progress(p)' = Progress(p)
  PROVE  Run!DNext
  <1>1. [p \in Sub |-> {Providers(d) : d \in deps[p]}]'
          = [p \in Sub |-> {Providers(d) : d \in deps[p]}]
    BY DEF Providers
  <1>2. Run!Met(q)
    <2>1. SUFFICES ASSUME NEW d \in deps[q]
                   PROVE  \E r \in Providers(d) : Progress(r) = "done"
      BY DEF Run!Met, Providers
    <2>2. PICK r \in Sub \ Busy : st[r] = "done" /\ id[r] = d
      BY DEF OInv, DependInv, Given
    <2>3. ~ UnderWay(r)
      BY <2>2, FirstIsIn DEF OInv, OTypeOK, UnderWay, Busy, Looping
    <2> QED BY <2>2, <2>3 DEF Providers, Progress
  <1>3. Run!Succeed(q)
    BY <1>1, <1>2 DEF Run!Succeed
  <1> QED BY <1>3 DEF Run!DNext

LEMMA Fails ==
  ASSUME NEW S, S \subseteq Sub, UNCHANGED <<id, deps>>,
         \A p \in S : Progress(p) = "open" /\ Progress(p)' = "failed",
         \A p \in Sub \ S : Progress(p)' = Progress(p)
  PROVE  Run!DNext
  <1>1. [p \in Sub |-> {Providers(d) : d \in deps[p]}]'
          = [p \in Sub |-> {Providers(d) : d \in deps[p]}]
    BY DEF Providers
  <1>2. Run!Fail(S)
    BY <1>1 DEF Run!Fail
  <1> QED BY <1>2 DEF Run!DNext

LEMMA InitRun == OInit => Run!DInit
  BY DEF OInit, Run!DInit, Run!NoNeeds, Progress

LEMMA NextRun == OInv /\ [ONext]_ovars => [Run!DNext]_(Run!dvars)
  <1> SUFFICES ASSUME OInv, [ONext]_ovars PROVE [Run!DNext]_(Run!dvars)
    OBVIOUS
  <1>0. OTypeOK /\ RoundInv /\ FreshInv
    BY DEF OInv
  <1> USE DEF Goto, memory, stored, history
  <1>1. CASE UNCHANGED <<pc, id, deps, st, todo>>
    BY <1>1, FirstStays, Stutters DEF Progress, UnderWay
  <1>2. CASE Decompose
    <2>1. \A p \in Sub : Progress(p) = "open" /\ Progress(p)' = "open"
      BY <1>0, <1>2 DEF Decompose, FreshInv, Progress
    <2>2. [p \in Sub |-> {Providers(d) : d \in deps[p]}]'
            \in [Sub -> SUBSET (SUBSET Sub)]
      BY DEF Providers
    <2>3. Run!Plan
      BY <2>1, <2>2 DEF Run!Plan, Run!Untouched
    <2> QED BY <2>3 DEF Run!DNext
  <1>3. CASE Stuck
    <2> DEFINE left == {p \in Sub : st[p] = "pending"}
    <2>1. /\ \A p \in left : Progress(p) = "open" /\ Progress(p)' = "failed"
          /\ \A p \in Sub \ left : Progress(p)' = Progress(p)
      BY <1>0, <1>3 DEF Stuck, Progress, UnderWay, OTypeOK
    <2>2. UNCHANGED <<id, deps>>
      BY <1>3 DEF Stuck
    <2> QED BY <2>1, <2>2, Fails
  <1>4. CASE Decline \/ InsertPlan \/ EndRounds \/ WritePlan \/ InsertSub
             \/ WriteSub \/ DeleteCheckpoint \/ CallRaises
    <2>1. UNCHANGED <<id, deps, st>> /\ ~ InHand /\ ~ InHand'
      BY <1>4 DEF Decline, InsertPlan, EndRounds, WritePlan, InsertSub, WriteSub,
                  DeleteCheckpoint, CallRaises, InHand
    <2> QED BY <2>1, Stutters DEF Progress, UnderWay, InHand
  <1>5. CASE OpenRound \/ SaveCheckpoint
    <2>1. UNCHANGED <<id, deps, st>> /\ ~ InHand /\ pc' \in {"start", "round"}
      BY <1>5 DEF OpenRound, SaveCheckpoint, InHand
    <2>2. pc' = "start" => First' \in Sub /\ st[First'] = "pending"
      BY <1>0, <1>5, FirstIsIn, FirstIsIn1
      DEF OpenRound, SaveCheckpoint, Ready, OTypeOK, RoundInv, Busy, Looping
    <2>3. \A p \in Sub : Progress(p)' = Progress(p)
      BY <2>1, <2>2 DEF Progress, UnderWay, InHand
    <2> QED BY <2>1, <2>3, Stutters
  <1>6. CASE Start \/ WorkReturns \/ WorkRaises \/ AuditPasses \/ AuditFails
             \/ Crash
    <2>1. UNCHANGED <<id, deps, todo>>
      BY <1>6 DEF Start, WorkReturns, WorkRaises, AuditPasses, AuditFails, Crash
    <2>2. First' = First
      BY <2>1, FirstStays
    <2>3. CASE ~ InHand
      <3>1. Crash
        BY <1>6, <2>3 DEF Start, WorkReturns, WorkRaises, AuditPasses,
                          AuditFails, InHand
      <3>2. \A p \in Sub : Progress(p)' = Progress(p)
        BY <2>3, <3>1 DEF Crash, Progress, UnderWay, InHand
      <3> QED BY <2>1, <3>2, Stutters
    <2>4. CASE InHand
      <3>1. PICK f \in Sub : /\ f = First /\ f \in todo /\ f \in Busy
                             /\ Progress(f) = "open" /\ todo # {}
        BY <1>0, <2>4, FirstIsIn
        DEF OTypeOK, InHand, Progress, UnderWay, Busy, Looping
      <3>2. \A p \in Sub : p # f => Progress(p)' = Progress(p)
        <4>1. \A p \in Sub : p # f => st'[p] = st[p]
          <5>1. CASE Start \/ WorkReturns \/ WorkRaises
            BY <1>0, <3>1, <5>1 DEF Start, WorkReturns, WorkRaises, Again, OTypeOK
          <5>2. CASE AuditPasses \/ AuditFails \/ Crash
            BY <1>0, <3>1, <5>2 DEF AuditPasses, AuditFails, Again, Crash, OTypeOK
          <5> QED BY <1>6, <5>1, <5>2
        <4> QED BY <2>1, <2>2, <3>1, <4>1 DEF Progress, UnderWay
      <3>3. Progress(f)' \in {"open", "done", "failed"}
        <4>1. st'[f] \in SubStatus
          <5>1. OTypeOK'
            BY NextTyped DEF OInv
          <5> QED BY <3>1, <5>1 DEF OTypeOK
        <4> QED BY <2>2, <3>1, <4>1 DEF Progress, SubStatus
      <3>4. CASE Progress(f)' = "open"
        BY <2>1, <3>1, <3>2, <3>4, Stutters
      <3>5. CASE Progress(f)' = "done"
        BY <2>1, <3>1, <3>2, <3>5, Succeeds
      <3>6. CASE Progress(f)' = "failed"
        <4> DEFINE T == {f}
        <4>1. /\ T \subseteq Sub
              /\ \A p \in T : Progress(p) = "open" /\ Progress(p)' = "failed"
              /\ \A p \in Sub \ T : Progress(p)' = Progress(p)
          BY <3>1, <3>2, <3>6
        <4> HIDE DEF T
        <4> QED BY <2>1, <4>1, Fails
      <3> QED BY <3>3, <3>4, <3>5, <3>6
    <2> QED BY <2>3, <2>4
  <1> QED BY <1>1, <1>2, <1>3, <1>4, <1>5, <1>6 DEF ONext, Walk, ovars, EngineMoves

\* For any plan: the orchestrator implements the abstract run of a plan.
THEOREM DependencyRunImplemented == OSpec => ImplementsDependencyRun
  BY InitRun, NextRun, PlanInvariant, PTL
  DEF OSpec, ImplementsDependencyRun, Run!DSpec
=============================================================================
