------------------------- MODULE ToolInstallerProofs -------------------------
(* Theorems about ToolInstaller, for any number of operations and restarts. *)
EXTENDS ToolInstallerProps, TLAPS

LEMMA FirstStages == \A k \in AllKinds : FirstStage[k] \in Stages
BY DEF FirstStage, AllKinds, Stages

JobType == [op : AllKinds \cup {"none", "remove"}, at : Stages,
            seen : Rows, res : Binaries \cup {Unknown}]

LEMMA IdleTyped == Idle \in JobType
BY DEF Idle, JobType, Stages, Rows, NoRow, Unknown

LEMMA LocatedTyped == ASSUME bin \in Binaries, NEW x \in BOOLEAN
                      PROVE  Located(x) \in Binaries
BY DEF Located, Binaries

(* The part of the type that the coroutines are.                            *)
JobsTyped == job \in [Jobs -> JobType]

LEMMA GotoTyped ==
  ASSUME JobsTyped, NEW t \in Jobs, NEW s \in Stages, Goto(t, s)
  PROVE  JobsTyped'
BY DEF JobsTyped, JobType, Goto

LEMMA ReturnTyped ==
  ASSUME JobsTyped, NEW t \in Jobs, Return(t)
  PROVE  JobsTyped'
BY IdleTyped DEF JobsTyped, Return

LEMMA StatusTyped ==
  ASSUME row \in Rows, NEW s \in Statuses, UpdateStatus(s)
  PROVE  row' \in Rows
BY DEF Rows, UpdateStatus, Rewrite, WithStatus

(* The type invariant in two parts: the coroutines and the rest.            *)
RestTyped == /\ row \in Rows /\ bin \in Binaries
             /\ marked \in BOOLEAN /\ reg \in BOOLEAN
             /\ cache \in [BOOLEAN -> Binaries \cup {Unknown}]
             /\ overlap \in BOOLEAN /\ forsaken \in BOOLEAN
             /\ jobs \in 0 .. MaxJobs /\ outside \in 0 .. MaxOutside
             /\ restarts \in 0 .. MaxRestarts

LEMMA Split == TTypeOK <=> RestTyped /\ JobsTyped
BY DEF TTypeOK, RestTyped, JobsTyped, JobType

LEMMA InitTyped == TInit => RestTyped /\ JobsTyped
<1> SUFFICES ASSUME TInit PROVE RestTyped /\ JobsTyped
  OBVIOUS
<1>1. RestTyped
  <2>1. row \in Rows
    BY DEF TInit, Rows, NoRow
  <2>2. cache \in [BOOLEAN -> Binaries \cup {Unknown}]
    BY DEF TInit
  <2>3. jobs \in 0 .. MaxJobs /\ outside \in 0 .. MaxOutside /\ restarts \in 0 .. MaxRestarts
    BY ToolConstants DEF TInit
  <2> QED BY <2>1, <2>2, <2>3 DEF TInit, RestTyped
<1>2. JobsTyped
  BY IdleTyped DEF TInit, JobsTyped
<1> QED BY <1>1, <1>2

LEMMA ContinueTyped ==
  ASSUME RestTyped, JobsTyped, NEW t \in Jobs, NEW r, Continue(t, r)
  PROVE  JobsTyped' /\ reg' \in BOOLEAN /\ marked' \in BOOLEAN /\ overlap' \in BOOLEAN
<1> USE DEF Stages
<1>1. CASE AfterCheck(t, r)
  <2> DEFINE gone == r = "absent" /\ job[t].seen.st \in {"none", "failed", "uninstalled"}
  <2>1. CASE gone
    <3>1. Return(t) \/ Goto(t, "clear")
      BY <1>1, <2>1 DEF AfterCheck
    <3>2. reg' = reg /\ marked' = marked /\ overlap' = overlap
      BY <1>1, <2>1 DEF AfterCheck
    <3> QED BY <3>1, <3>2, GotoTyped, ReturnTyped DEF RestTyped
  <2>2. CASE ~gone
    <3>1. /\ job' = [job EXCEPT ![t] = [Idle EXCEPT !.op = "remove", !.at = "cmds"]]
          /\ marked' = TRUE /\ overlap' = (overlap \/ marked) /\ reg' = reg
      BY <1>1, <2>2 DEF AfterCheck
    <3>2. [Idle EXCEPT !.op = "remove", !.at = "cmds"] \in JobType
      BY IdleTyped DEF JobType
    <3> QED BY <3>1, <3>2 DEF JobsTyped, RestTyped
  <2> QED BY <2>1, <2>2
<1>2. CASE AfterProbe(t, r)
  <2>1. Return(t) \/ Goto(t, "save") \/ Goto(t, "fail") \/ Goto(t, "reread")
    BY <1>2 DEF AfterProbe
  <2>2. reg' \in BOOLEAN /\ marked' = marked /\ overlap' = overlap
    BY <1>2 DEF AfterProbe, RestTyped
  <2> QED BY <2>1, <2>2, GotoTyped, ReturnTyped DEF RestTyped
<1> QED BY <1>1, <1>2 DEF Continue

LEMMA StepTyped ==
  ASSUME RestTyped, JobsTyped, NEW t \in Jobs, Step(t)
  PROVE  RestTyped' /\ JobsTyped'
<1> USE DEF Stages, history, bounds
<1>1. CASE CacheHit(t)
  <2>1. Continue(t, cache[Extra(t)])
    BY <1>1 DEF CacheHit
  <2> QED BY <1>1, <2>1, ContinueTyped DEF CacheHit, RestTyped
<1>2. CASE Look(t)
  <2>1. Located(Extra(t)) \in Binaries
    BY LocatedTyped DEF RestTyped, Extra
  <2>2. JobsTyped'
    BY <1>2, <2>1 DEF Look, JobsTyped, JobType
  <2> QED BY <1>2, <2>2 DEF Look, RestTyped
<1>3. CASE Looked(t)
  <2>1. Continue(t, job[t].res)
    BY <1>3 DEF Looked
  <2>2. job[t].res \in Binaries \cup {Unknown} /\ Extra(t) \in BOOLEAN
    BY DEF JobsTyped, JobType, Extra
  <2>3. cache' \in [BOOLEAN -> Binaries \cup {Unknown}]
    BY <1>3, <2>2 DEF Looked, RestTyped
  <2> QED BY <1>3, <2>1, <2>3, ContinueTyped DEF Looked, RestTyped
<1>4. CASE Start(t)
  BY <1>4, GotoTyped, StatusTyped DEF Start, RestTyped, Statuses
<1>5. CASE CommandFails(t)
  BY <1>5, GotoTyped DEF CommandFails, RestTyped
<1>6. CASE CommandsDone(t)
  BY <1>6, GotoTyped DEF CommandsDone, RestTyped, Invalidate
<1>7. CASE Save(t)
  BY <1>7, GotoTyped, StatusTyped DEF Save, RestTyped, Statuses
<1>8. CASE Callback(t)
  BY <1>8, GotoTyped DEF Callback, RestTyped
<1>9. CASE Fail(t)
  BY <1>9, GotoTyped, StatusTyped DEF Fail, RestTyped, Statuses
<1>10. CASE End(t)
  BY <1>10, ReturnTyped DEF End, RestTyped
<1>11. CASE Raise(t)
  BY <1>11, GotoTyped DEF Raise, RestTyped
<1>12. CASE RaiseAgain(t)
  BY <1>12, GotoTyped DEF RaiseAgain, RestTyped
<1>13. CASE Get(t)
  <2>1. JobsTyped'
    BY <1>13 DEF Get, JobsTyped, JobType, RestTyped
  <2> QED BY <1>13, <2>1 DEF Get, RestTyped
<1>14. CASE Clear(t)
  BY <1>14, GotoTyped, StatusTyped DEF Clear, RestTyped, Statuses
<1>15. CASE Unregister(t)
  BY <1>15, ReturnTyped DEF Unregister, RestTyped
<1>16. CASE Reread(t)
  <2>1. JobsTyped'
    BY <1>16 DEF Reread, JobsTyped, JobType, RestTyped
  <2> QED BY <1>16, <2>1 DEF Reread, RestTyped
<1>17. CASE Correct(t)
  <2>1. row' \in Rows
    BY <1>17, StatusTyped DEF Correct, RestTyped, Statuses
  <2> QED BY <1>17, <2>1, ReturnTyped DEF Correct, RestTyped
<1>18. CASE Switch(t)
  <2>1. row' \in Rows
    BY <1>18 DEF Switch, UpdateEnabled, Rewrite, RestTyped, Rows, Statuses
  <2> QED BY <1>18, <2>1, GotoTyped DEF Switch, RestTyped
<1>19. CASE Merge(t)
  <2>1. row' \in Rows
    <3>1. CASE \E s \in Statuses : UpdateStatus(s)
      BY <3>1, StatusTyped DEF RestTyped
    <3>2. CASE Upsert("not_installed")
      BY <3>2 DEF Upsert, Rewrite, Rows, Statuses
    <3>3. CASE UNCHANGED row
      BY <3>3 DEF RestTyped
    <3>4. \/ \E s \in Statuses \ {"not_installed"} : UpdateStatus(s)
          \/ Upsert("not_installed") \/ UNCHANGED row
      BY <1>19 DEF Merge
    <3> QED BY <3>1, <3>2, <3>3, <3>4
  <2>2. Goto(t, "enabled") \/ Return(t)
    BY <1>19 DEF Merge
  <2>3. cache' \in [BOOLEAN -> Binaries \cup {Unknown}] /\ forsaken' \in BOOLEAN
    BY <1>19 DEF Merge, Invalidate, RestTyped
  <2> QED BY <1>19, <2>1, <2>2, <2>3, GotoTyped, ReturnTyped DEF Merge, RestTyped
<1>20. CASE IfEnabled(t)
  BY <1>20, ReturnTyped DEF IfEnabled, RestTyped, Rows
<1> QED BY Step(t), <1>1, <1>2, <1>3, <1>4, <1>5, <1>6, <1>7, <1>8, <1>9, <1>10, <1>11,
           <1>12, <1>13, <1>14, <1>15, <1>16, <1>17, <1>18, <1>19, <1>20 DEF Step

LEMMA NextTyped == RestTyped /\ JobsTyped /\ [TNext]_tvars => RestTyped' /\ JobsTyped'
<1> SUFFICES ASSUME RestTyped, JobsTyped, [TNext]_tvars PROVE RestTyped' /\ JobsTyped'
  OBVIOUS
<1> USE ToolConstants DEF history, bounds
<1>1. ASSUME NEW t \in Jobs, NEW k \in Kinds, Request(t, k) PROVE RestTyped' /\ JobsTyped'
  <2>1. k \in AllKinds
    OBVIOUS
  <2>2. [Idle EXCEPT !.op = k, !.at = FirstStage[k]] \in JobType
    BY <2>1, IdleTyped, FirstStages DEF JobType
  <2>3. JobsTyped'
    BY <1>1, <2>2 DEF Request, JobsTyped
  <2> QED BY <1>1, <2>3 DEF Request, RestTyped, Invalidate
<1>2. ASSUME NEW t \in Jobs, Step(t) PROVE RestTyped' /\ JobsTyped'
  BY <1>2, StepTyped
<1>3. CASE ByHand
  BY <1>3 DEF ByHand, RestTyped, JobsTyped
<1>4. CASE PutConfig
  BY <1>4 DEF PutConfig, RestTyped, JobsTyped
<1>5. CASE Expire
  BY <1>5 DEF Expire, RestTyped, JobsTyped, Invalidate
<1>6. CASE Restart
  <2>1. JobsTyped'
    BY <1>6, IdleTyped DEF Restart, JobsTyped
  <2>2. reg' \in BOOLEAN /\ cache' \in [BOOLEAN -> Binaries \cup {Unknown}]
    BY <1>6 DEF Restart, Invalidate
  <2>3. restarts' \in 0 .. MaxRestarts
    <3>1. restarts < MaxRestarts /\ restarts' = restarts + 1
      BY <1>6 DEF Restart
    <3>2. restarts \in Nat /\ MaxRestarts \in Nat
      BY DEF RestTyped
    <3> QED BY <3>1, <3>2
  <2>4. forsaken' \in BOOLEAN /\ marked' \in BOOLEAN
    BY <1>6 DEF Restart, RestTyped
  <2> QED BY <1>6, <2>1, <2>2, <2>3, <2>4 DEF Restart, RestTyped
<1>7. CASE UNCHANGED tvars
  BY <1>7 DEF tvars, RestTyped, JobsTyped
<1> QED BY <1>1, <1>2, <1>3, <1>4, <1>5, <1>6, <1>7 DEF TNext

(* The state of the tool manager keeps its type under any sequence of         *)
(* operations, restarts and changes from outside.                            *)
THEOREM ToolTyping == TSpec => []TTypeOK
<1>1. TInit => RestTyped /\ JobsTyped
  BY InitTyped
<1>2. RestTyped /\ JobsTyped /\ [TNext]_tvars => (RestTyped /\ JobsTyped)'
  BY NextTyped
<1>3. TSpec => [](RestTyped /\ JobsTyped)
  BY <1>1, <1>2, PTL DEF TSpec
<1> QED BY <1>3, Split, PTL

---------------------------------------------------------------------------
(* Exclusion.  A coroutine is inside as long as its operation is one that     *)
(* holds the mark; only AfterCheck and a request of an installation begin     *)
(* one, and only End and a restart end one.                                  *)

LEMMA Enters ==
  ASSUME JobsTyped, OneAtATime, NEW t \in Jobs,
         \A u \in Jobs \ {t} : job'[u] = job[u],
         job'[t].op \in Working, marked' = TRUE,
         overlap' = (overlap \/ marked)
  PROVE  OneAtATime'
<1> SUFFICES ASSUME ~overlap' PROVE /\ \E u \in Jobs : Inside(u)'
                                    /\ \A u, v \in Jobs : Inside(u)' /\ Inside(v)' => u = v
  BY DEF OneAtATime
<1>1. ~overlap /\ ~marked
  OBVIOUS
<1>2. \A u \in Jobs : ~Inside(u)
  BY <1>1 DEF OneAtATime
<1>3. \A u \in Jobs \ {t} : ~Inside(u)'
  BY <1>2 DEF Inside
<1> QED BY <1>3 DEF Inside

LEMMA Stays ==
  ASSUME JobsTyped, OneAtATime,
         \A u \in Jobs : Inside(u)' <=> Inside(u),
         marked' = marked, overlap' = overlap
  PROVE  OneAtATime'
BY DEF OneAtATime

LEMMA GotoStays ==
  ASSUME JobsTyped, NEW t \in Jobs, NEW s, Goto(t, s)
  PROVE  \A u \in Jobs : job'[u].op = job[u].op
BY DEF JobsTyped, JobType, Goto

LEMMA ReturnStays ==
  ASSUME JobsTyped, NEW t \in Jobs, Return(t), job[t].op \notin Working
  PROVE  \A u \in Jobs : Inside(u)' <=> Inside(u)
BY DEF JobsTyped, Return, Inside, Working, Idle

LEMMA ContinueExcludes ==
  ASSUME JobsTyped, OneAtATime, NEW t \in Jobs, NEW r, Continue(t, r)
  PROVE  OneAtATime'
<1>1. CASE AfterCheck(t, r)
  <2> DEFINE gone == r = "absent" /\ job[t].seen.st \in {"none", "failed", "uninstalled"}
  <2>0. job[t].op \notin Working
    BY <1>1 DEF AfterCheck, Working
  <2>1. CASE gone
    <3>1. Return(t) \/ Goto(t, "clear")
      BY <1>1, <2>1 DEF AfterCheck
    <3>2. marked' = marked /\ overlap' = overlap
      BY <1>1, <2>1 DEF AfterCheck
    <3>3. \A u \in Jobs : Inside(u)' <=> Inside(u)
      BY <2>0, <3>1, GotoStays, ReturnStays DEF Inside
    <3> QED BY <3>2, <3>3, Stays
  <2>2. CASE ~gone
    <3>1. /\ job' = [job EXCEPT ![t] = [Idle EXCEPT !.op = "remove", !.at = "cmds"]]
          /\ marked' = TRUE /\ overlap' = (overlap \/ marked)
      BY <1>1, <2>2 DEF AfterCheck
    <3>2. job'[t].op \in Working /\ \A u \in Jobs \ {t} : job'[u] = job[u]
      BY <3>1 DEF JobsTyped, Working, Idle
    <3> QED BY <2>0, <3>1, <3>2, Enters
  <2> QED BY <2>1, <2>2
<1>2. CASE AfterProbe(t, r)
  <2>1. \/ Goto(t, "save") \/ Goto(t, "fail") \/ Goto(t, "reread")
        \/ job[t].op \in {"enable", "view"} /\ Return(t)
    BY <1>2 DEF AfterProbe
  <2>2. marked' = marked /\ overlap' = overlap
    BY <1>2 DEF AfterProbe
  <2>3. \A u \in Jobs : Inside(u)' <=> Inside(u)
    BY <2>1, GotoStays, ReturnStays DEF Inside, Working
  <2> QED BY <2>2, <2>3, Stays
<1> QED BY <1>1, <1>2 DEF Continue

(* The stages of the operations that hold the mark, and of those that do not. *)
StagesAgree == \A t \in Jobs :
  /\ job[t].at \in {"start", "cmds", "save", "callback", "fail", "end"} => job[t].op \in Working
  /\ job[t].at \in {"get", "clear", "unregister", "reread", "correct", "switch", "merge", "enabled"}
       => job[t].op \notin Working
  /\ job[t].op \in Working => job[t].at # "idle"
  /\ job[t].at = "start" => job[t].op = "install"

LEMMA InitStages == TInit => StagesAgree
<1> SUFFICES ASSUME TInit PROVE StagesAgree
  OBVIOUS
<1>1. \A t \in Jobs : job[t].op = "none" /\ job[t].at = "idle"
  BY DEF TInit, Idle
<1> QED BY <1>1 DEF StagesAgree, Working

LEMMA StagesOfOne ==
  ASSUME JobsTyped, StagesAgree, NEW t \in Jobs, NEW j,
         job' = [job EXCEPT ![t] = j],
         /\ j.at \in {"start", "cmds", "save", "callback", "fail", "end"} => j.op \in Working
         /\ j.at \in {"get", "clear", "unregister", "reread", "correct", "switch", "merge", "enabled"}
              => j.op \notin Working
         /\ j.op \in Working => j.at # "idle"
         /\ j.at = "start" => j.op = "install"
  PROVE  StagesAgree'
BY DEF StagesAgree, JobsTyped

LEMMA ReturnStages ==
  ASSUME JobsTyped, StagesAgree, NEW t \in Jobs, Return(t)
  PROVE  StagesAgree'
<1>1. Idle.op = "none" /\ Idle.at = "idle"
  BY DEF Idle
<1> QED BY <1>1, StagesOfOne DEF Return, Working

LEMMA GotoStages ==
  ASSUME JobsTyped, StagesAgree, NEW t \in Jobs, NEW s, Goto(t, s),
         s \in {"cmds", "save", "callback", "fail", "end"} => job[t].op \in Working,
         s \in {"clear", "unregister", "reread", "enabled"} => job[t].op \notin Working,
         s \in {"cmds", "save", "callback", "fail", "end", "clear", "unregister", "reread",
                "enabled", "look"}
  PROVE  StagesAgree'
<1> DEFINE j == [job[t] EXCEPT !.at = s]
<1>1. job' = [job EXCEPT ![t] = j]
  BY DEF Goto, JobsTyped
<1>2. j.at = s /\ j.op = job[t].op
  BY DEF JobsTyped, JobType
<1> HIDE DEF j
<1> QED BY <1>1, <1>2, StagesOfOne

LEMMA ContinueStages ==
  ASSUME JobsTyped, StagesAgree, NEW t \in Jobs, NEW r, Continue(t, r)
  PROVE  StagesAgree'
<1>1. CASE AfterCheck(t, r)
  <2> DEFINE gone == r = "absent" /\ job[t].seen.st \in {"none", "failed", "uninstalled"}
  <2>0. job[t].op \notin Working
    BY <1>1 DEF AfterCheck, Working
  <2>1. CASE gone
    <3>1. Return(t) \/ Goto(t, "clear")
      BY <1>1, <2>1 DEF AfterCheck
    <3> QED BY <2>0, <3>1, GotoStages, ReturnStages
  <2>2. CASE ~gone
    <3> DEFINE j == [Idle EXCEPT !.op = "remove", !.at = "cmds"]
    <3>1. job' = [job EXCEPT ![t] = j]
      BY <1>1, <2>2 DEF AfterCheck
    <3>2. j.op = "remove" /\ j.at = "cmds"
      BY DEF Idle
    <3> HIDE DEF j
    <3> QED BY <3>1, <3>2, StagesOfOne DEF Working
  <2> QED BY <2>1, <2>2
<1>2. CASE AfterProbe(t, r)
  <2>1. CASE job[t].op \in Working
    <3>1. Goto(t, "save") \/ Goto(t, "fail")
      BY <1>2, <2>1 DEF AfterProbe, Working
    <3> QED BY <2>1, <3>1, GotoStages
  <2>2. CASE job[t].op \notin Working
    <3>1. Goto(t, "reread") \/ Return(t)
      BY <1>2, <2>2 DEF AfterProbe, Working
    <3> QED BY <2>2, <3>1, GotoStages, ReturnStages
  <2> QED BY <2>1, <2>2
<1> QED BY <1>1, <1>2 DEF Continue

LEMMA StepStages ==
  ASSUME JobsTyped, StagesAgree, NEW t \in Jobs, Step(t)
  PROVE  StagesAgree'
<1> DEFINE moves == {"cmds", "save", "callback", "fail", "end", "clear", "unregister", "reread",
                     "enabled", "look"}
<1>1. CASE CacheHit(t) \/ Looked(t)
  BY <1>1, ContinueStages DEF CacheHit, Looked
<1>2. CASE Look(t)
  <2> DEFINE j == [job[t] EXCEPT !.res = Located(Extra(t)), !.at = "looked"]
  <2>1. job' = [job EXCEPT ![t] = j]
    BY <1>2 DEF Look, JobsTyped
  <2>2. j.at = "looked" /\ j.op = job[t].op
    BY DEF JobsTyped, JobType
  <2> HIDE DEF j
  <2> QED BY <2>1, <2>2, StagesOfOne
<1>3. CASE Start(t)
  BY <1>3, GotoStages DEF Start, StagesAgree
<1>4. CASE CommandFails(t) \/ CommandsDone(t)
  BY <1>4, GotoStages DEF CommandFails, CommandsDone, StagesAgree
<1>5. CASE Save(t) \/ Callback(t) \/ Fail(t) \/ RaiseAgain(t)
  BY <1>5, GotoStages DEF Save, Callback, Fail, RaiseAgain, StagesAgree
<1>6. CASE Raise(t)
  BY <1>6, GotoStages DEF Raise
<1>7. CASE End(t) \/ Unregister(t) \/ Correct(t) \/ IfEnabled(t)
  BY <1>7, ReturnStages DEF End, Unregister, Correct, IfEnabled
<1>8. CASE Clear(t)
  BY <1>8, GotoStages DEF Clear, StagesAgree
<1>9. CASE Get(t)
  <2> DEFINE j == [job[t] EXCEPT !.seen = row, !.at = "look"]
  <2>1. job' = [job EXCEPT ![t] = j]
    BY <1>9 DEF Get, JobsTyped
  <2>2. j.at = "look" /\ j.op = job[t].op
    BY DEF JobsTyped, JobType
  <2> HIDE DEF j
  <2> QED BY <2>1, <2>2, StagesOfOne
<1>10. CASE Reread(t)
  <2> DEFINE j == [job[t] EXCEPT !.seen = row, !.at = "correct"]
  <2>1. job' = [job EXCEPT ![t] = j]
    BY <1>10 DEF Reread, JobsTyped
  <2>2. j.at = "correct" /\ j.op = job[t].op
    BY DEF JobsTyped, JobType
  <2>3. job[t].op \notin Working
    BY <1>10 DEF Reread, StagesAgree
  <2> HIDE DEF j
  <2> QED BY <2>1, <2>2, <2>3, StagesOfOne
<1>11. CASE Switch(t)
  <2>1. Goto(t, "look") \/ Goto(t, "unregister")
    BY <1>11 DEF Switch
  <2> QED BY <1>11, <2>1, GotoStages DEF Switch, StagesAgree
<1>12. CASE Merge(t)
  <2>1. Goto(t, "enabled") \/ Return(t)
    BY <1>12 DEF Merge
  <2> QED BY <1>12, <2>1, GotoStages, ReturnStages DEF Merge, StagesAgree
<1> QED BY Step(t), <1>1, <1>2, <1>3, <1>4, <1>5, <1>6, <1>7, <1>8, <1>9, <1>10, <1>11, <1>12
        DEF Step

LEMMA StepExcludes ==
  ASSUME JobsTyped, StagesAgree, OneAtATime, NEW t \in Jobs, Step(t)
  PROVE  OneAtATime'
<1>1. CASE CacheHit(t) \/ Looked(t)
  BY <1>1, ContinueExcludes DEF CacheHit, Looked
<1>2. CASE End(t)
  <2>1. Inside(t) /\ \A u \in Jobs \ {t} : job'[u] = job[u]
    BY <1>2 DEF End, Return, StagesAgree, Inside, JobsTyped
  <2>2. ~Inside(t)' /\ marked' = FALSE /\ overlap' = overlap
    BY <1>2 DEF End, Return, Inside, Working, JobsTyped, Idle, history
  <2> QED BY <2>1, <2>2 DEF OneAtATime, Inside
<1>3. CASE ~(CacheHit(t) \/ Looked(t) \/ End(t))
  <2>1. marked' = marked /\ overlap' = overlap
    BY <1>3, Step(t) DEF Step, Look, Start, CommandFails, CommandsDone, Save, Callback, Fail,
       Raise, RaiseAgain, Get, Clear, Unregister, Reread, Correct, Switch, Merge, IfEnabled, history
  <2>2. CASE Unregister(t) \/ Correct(t) \/ IfEnabled(t) \/ (Merge(t) /\ Return(t))
    <3>1. Return(t) /\ job[t].op \notin Working
      BY <2>2 DEF Unregister, Correct, IfEnabled, Merge, StagesAgree
    <3> QED BY <2>1, <3>1, ReturnStays, Stays
  <2>3. CASE Look(t) \/ Get(t) \/ Reread(t)
    <3>1. \A u \in Jobs : job'[u].op = job[u].op
      BY <2>3 DEF Look, Get, Reread, JobsTyped, JobType
    <3> QED BY <2>1, <3>1, Stays DEF Inside
  <2>4. CASE \E s \in Stages : Goto(t, s)
    <3>1. \A u \in Jobs : job'[u].op = job[u].op
      BY <2>4, GotoStays
    <3> QED BY <2>1, <3>1, Stays DEF Inside
  <2>5. CASE Start(t) \/ CommandFails(t) \/ CommandsDone(t) \/ Save(t) \/ Callback(t) \/ Fail(t)
              \/ Raise(t) \/ RaiseAgain(t) \/ Clear(t) \/ Switch(t)
    BY <2>4, <2>5 DEF Start, CommandFails, CommandsDone, Save, Callback, Fail, Raise, RaiseAgain,
       Clear, Switch, Stages
  <2>6. CASE Merge(t)
    <3>1. Return(t) \/ Goto(t, "enabled")
      BY <2>6 DEF Merge
    <3> QED BY <2>2, <2>4, <2>6, <3>1 DEF Stages
  <2> QED BY <1>3, Step(t), <2>2, <2>3, <2>5, <2>6 DEF Step
<1> QED BY <1>1, <1>2, <1>3

ToolInv == RestTyped /\ JobsTyped /\ StagesAgree /\ OneAtATime

LEMMA RequestExcludes ==
  ASSUME ToolInv, NEW t \in Jobs, NEW k \in Kinds, Request(t, k)
  PROVE  StagesAgree' /\ OneAtATime'
<1> DEFINE j == [Idle EXCEPT !.op = k, !.at = FirstStage[k]]
<1>1. k \in AllKinds
  BY ToolConstants
<1>2. job' = [job EXCEPT ![t] = j] /\ job[t].at = "idle" /\ overlap' = overlap
  BY DEF Request, history
<1>3. j.op = k /\ j.at = FirstStage[k]
  BY DEF Idle
<1>4. job[t].op \notin Working
  BY <1>2 DEF ToolInv, StagesAgree
<1>5. /\ FirstStage[k] \in {"start", "get", "switch", "merge", "look"}
      /\ FirstStage[k] = "start" <=> k = "install"
      /\ k # "remove"
  BY <1>1 DEF FirstStage, AllKinds
<1>6. StagesAgree'
  <2>1. JobsTyped /\ StagesAgree
    BY DEF ToolInv
  <2>2. k \in Working => k = "install"
    BY <1>5 DEF Working
  <2> HIDE DEF j
  <2> QED BY <1>2, <1>3, <1>5, <2>1, <2>2, StagesOfOne DEF Working
<1>7. \A u \in Jobs \ {t} : job'[u] = job[u]
  BY <1>2 DEF ToolInv, JobsTyped
<1>8. job'[t].op = k
  BY <1>2, <1>3 DEF ToolInv, JobsTyped
<1>9. CASE k = "install"
  <2>1. marked' = TRUE /\ ~marked
    BY <1>9 DEF Request, Refused
  <2>2. overlap' = (overlap \/ marked)
    BY <1>2, <2>1 DEF RestTyped, ToolInv
  <2>3. job'[t].op \in Working
    BY <1>8, <1>9 DEF Working
  <2>4. JobsTyped /\ OneAtATime
    BY DEF ToolInv
  <2> QED BY <1>6, <1>7, <2>1, <2>2, <2>3, <2>4, Enters
<1>10. CASE k # "install"
  <2>1. marked' = marked
    BY <1>10 DEF Request, ToolInv, RestTyped
  <2>2. \A u \in Jobs : Inside(u)' <=> Inside(u)
    BY <1>4, <1>5, <1>7, <1>8, <1>10 DEF Inside, Working
  <2> QED BY <1>2, <1>6, <2>1, <2>2, Stays DEF ToolInv
<1> QED BY <1>9, <1>10

LEMMA NextExcludes == ToolInv /\ [TNext]_tvars => ToolInv'
<1> SUFFICES ASSUME ToolInv, [TNext]_tvars PROVE StagesAgree' /\ OneAtATime'
  BY NextTyped DEF ToolInv
<1> USE DEF ToolInv
<1>1. ASSUME NEW t \in Jobs, NEW k \in Kinds, Request(t, k) PROVE StagesAgree' /\ OneAtATime'
  BY <1>1, RequestExcludes
<1>2. ASSUME NEW t \in Jobs, Step(t) PROVE StagesAgree' /\ OneAtATime'
  BY <1>2, StepStages, StepExcludes
<1>3. CASE ByHand \/ PutConfig \/ Expire \/ UNCHANGED tvars
  <2>1. job' = job /\ marked' = marked /\ overlap' = overlap
    BY <1>3 DEF ByHand, PutConfig, Expire, tvars, history
  <2>2. \A u \in Jobs : Inside(u)' <=> Inside(u)
    BY <2>1 DEF Inside
  <2>3. StagesAgree'
    BY <2>1 DEF StagesAgree
  <2> QED BY <2>1, <2>2, <2>3, Stays
<1>4. CASE Restart
  <2>1. \A t \in Jobs : job'[t].op = "none" /\ job'[t].at = "idle"
    BY <1>4 DEF Restart, Idle
  <2>2. StagesAgree'
    BY <2>1 DEF StagesAgree, Working
  <2>3. marked' = FALSE
    BY <1>4 DEF Restart
  <2> QED BY <2>1, <2>2, <2>3 DEF OneAtATime, Inside, Working
<1> QED BY <1>1, <1>2, <1>3, <1>4 DEF TNext

(* Installations and removals exclude each other as long as no removal has     *)
(* passed its check before somebody else's installation began.               *)
THEOREM InstallationsExclude == TSpec => []OneAtATime
<1>1. TInit => ToolInv
  <2>1. TInit => OneAtATime
    BY DEF TInit, OneAtATime, Inside, Idle, Working
  <2> QED BY <2>1, InitTyped, InitStages DEF ToolInv
<1>2. ToolInv => OneAtATime
  BY DEF ToolInv
<1> QED BY <1>1, <1>2, NextExcludes, PTL DEF TSpec
---------------------------------------------------------------------------
(* A record that says "installing" has an owner: only Start writes it for an   *)
(* installation, and the owner leaves by Save, Fail or RaiseAgain.           *)

LEMMA OwnerKept ==
  ASSUME InstallingIsOwned, row' = row, forsaken' = forsaken,
         \A t \in Jobs : Owner(t) => Owner(t)'
  PROVE  InstallingIsOwned'
BY DEF InstallingIsOwned

LEMMA RowSettled ==
  ASSUME row \in Rows, NEW s \in Statuses \ {"installing"}, UpdateStatus(s)
  PROVE  InstallingIsOwned'
BY DEF InstallingIsOwned, UpdateStatus, Rewrite, WithStatus, Rows

LEMMA StepOwned ==
  ASSUME ToolInv, InstallingIsOwned, NEW t \in Jobs, Step(t)
  PROVE  InstallingIsOwned'
<1> USE DEF ToolInv
<1>0. row \in Rows /\ row.on \in BOOLEAN /\ row.st \in Statuses \cup {"none"}
  BY DEF RestTyped, Rows
<1>1. CASE CacheHit(t) \/ Looked(t)
  <2>1. PICK r : Continue(t, r)
    BY <1>1 DEF CacheHit, Looked
  <2>2. row' = row /\ forsaken' = forsaken
    BY <1>1 DEF CacheHit, Looked
  <2>3. CASE ~Owner(t)
    <3>1. \A u \in Jobs \ {t} : job'[u] = job[u]
      BY <2>1 DEF Continue, AfterCheck, AfterProbe, Goto, Return, JobsTyped
    <3> QED BY <2>2, <2>3, <3>1, OwnerKept DEF Owner
  <2>4. CASE Owner(t)
    <3>1. Goto(t, "save") \/ Goto(t, "fail")
      BY <2>1, <2>4 DEF Continue, AfterCheck, AfterProbe, Owner
    <3>2. \A u \in Jobs : Owner(u) => Owner(u)'
      BY <3>1, <2>4 DEF Goto, Owner, JobsTyped, JobType
    <3> QED BY <2>2, <3>2, OwnerKept
  <2> QED BY <2>3, <2>4
<1>2. CASE Look(t)
  <2>1. \A u \in Jobs : Owner(u) => Owner(u)'
    BY <1>2 DEF Look, Owner, JobsTyped, JobType
  <2> QED BY <1>2, <2>1, OwnerKept DEF Look, history
<1>3. CASE Start(t)
  <2>1. Owner(t)'
    BY <1>3 DEF Start, Goto, Owner, JobsTyped, JobType, StagesAgree
  <2> QED BY <2>1 DEF InstallingIsOwned
<1>4. CASE CommandFails(t) \/ CommandsDone(t) \/ Raise(t)
  <2>1. Goto(t, "fail") \/ Goto(t, "look")
    BY <1>4 DEF CommandFails, CommandsDone, Raise
  <2>2. \A u \in Jobs : Owner(u) => Owner(u)'
    BY <2>1 DEF Goto, Owner, JobsTyped, JobType
  <2> QED BY <1>4, <2>2, OwnerKept DEF CommandFails, CommandsDone, Raise, history
<1>5. CASE Save(t) \/ Fail(t) \/ Clear(t)
  BY <1>0, <1>5, RowSettled DEF Save, Fail, Clear, Statuses
<1>6. CASE RaiseAgain(t)
  <2>1. row' = row /\ forsaken' = (forsaken \/ row.st = "installing")
    BY <1>6 DEF RaiseAgain
  <2> QED BY <2>1 DEF InstallingIsOwned
<1>7. CASE Callback(t) \/ End(t) \/ Unregister(t) \/ Get(t) \/ Reread(t) \/ IfEnabled(t)
  <2>1. ~Owner(t) /\ \A u \in Jobs \ {t} : job'[u] = job[u]
    BY <1>7 DEF Callback, End, Unregister, Get, Reread, IfEnabled, Owner, Goto, Return, JobsTyped
  <2>2. row' = row /\ forsaken' = forsaken
    BY <1>7 DEF Callback, End, Unregister, Get, Reread, IfEnabled, history
  <2> QED BY <2>1, <2>2, OwnerKept DEF Owner
<1>8. CASE Correct(t)
  <2>1. CASE UNCHANGED row
    <3>1. ~Owner(t) /\ \A u \in Jobs \ {t} : job'[u] = job[u]
      BY <1>8 DEF Correct, Owner, Return, JobsTyped
    <3> QED BY <1>8, <2>1, <3>1, OwnerKept DEF Owner, Correct, history
  <2>2. CASE UpdateStatus("installed") \/ UpdateStatus("uninstalled")
    BY <1>0, <2>2, RowSettled DEF Statuses
  <2> QED BY <1>8, <2>1, <2>2 DEF Correct
<1>9. CASE Switch(t)
  <2>1. row'.st = "installing" => row.st = "installing"
    BY <1>0, <1>9 DEF Switch, UpdateEnabled, Rewrite
  <2>2. \A u \in Jobs : Owner(u) => Owner(u)'
    <3>1. ~Owner(t)
      BY <1>9 DEF Switch, Owner
    <3> QED BY <1>9, <3>1 DEF Switch, Owner, Goto, JobsTyped
  <2> QED BY <1>9, <2>1, <2>2 DEF InstallingIsOwned, Switch, history
<1>10. CASE Merge(t)
  <2>1. CASE Upsert("not_installed")
    BY <2>1 DEF InstallingIsOwned, Upsert, Rewrite
  <2>2. ASSUME NEW s \in Statuses \ {"not_installed"}, UpdateStatus(s),
               forsaken' = (forsaken \/ s = "installing")
        PROVE  InstallingIsOwned'
    <3>1. CASE s = "installing"
      BY <2>2, <3>1 DEF InstallingIsOwned
    <3>2. CASE s # "installing"
      BY <1>0, <2>2, <3>2, RowSettled
    <3> QED BY <3>1, <3>2
  <2>3. CASE UNCHANGED <<row, forsaken>> /\ Return(t)
    <3>1. ~Owner(t) /\ \A u \in Jobs \ {t} : job'[u] = job[u]
      BY <1>10, <2>3 DEF Merge, Owner, Return, JobsTyped
    <3> QED BY <2>3, <3>1, OwnerKept DEF Owner
  <2> QED BY <1>10, <2>1, <2>2, <2>3 DEF Merge
<1> QED BY Step(t), <1>1, <1>2, <1>3, <1>4, <1>5, <1>6, <1>7, <1>8, <1>9, <1>10 DEF Step

(* "installing" is written by an installation that is still there to replace   *)
(* it, however the operations interleave.                                    *)
THEOREM InstallingOwned == TSpec => []InstallingIsOwned
<1>1. TInit => ToolInv /\ InstallingIsOwned
  <2>1. TInit => OneAtATime
    BY DEF TInit, OneAtATime, Inside, Idle, Working
  <2>2. TInit => InstallingIsOwned
    BY DEF TInit, InstallingIsOwned, NoRow
  <2> QED BY <2>1, <2>2, InitTyped, InitStages DEF ToolInv
<1>2. ToolInv /\ InstallingIsOwned /\ [TNext]_tvars => ToolInv' /\ InstallingIsOwned'
  <2> SUFFICES ASSUME ToolInv, InstallingIsOwned, [TNext]_tvars PROVE InstallingIsOwned'
    BY NextExcludes
  <2>1. ASSUME NEW t \in Jobs, NEW k \in Kinds, Request(t, k) PROVE InstallingIsOwned'
    <3>1. ~Owner(t) /\ \A u \in Jobs \ {t} : job'[u] = job[u]
      BY <2>1 DEF Request, Owner, ToolInv, JobsTyped
    <3> QED BY <2>1, <3>1, OwnerKept DEF Request, Owner, history
  <2>2. ASSUME NEW t \in Jobs, Step(t) PROVE InstallingIsOwned'
    BY <2>2, StepOwned
  <2>3. CASE ByHand \/ PutConfig \/ Expire \/ UNCHANGED tvars
    <3>1. row' = row /\ forsaken' = forsaken /\ job' = job
      BY <2>3 DEF ByHand, PutConfig, Expire, tvars, history
    <3> QED BY <3>1, OwnerKept DEF Owner
  <2>4. CASE Restart
    <3>1. row' = row /\ forsaken' = (forsaken \/ row.st = "installing")
      BY <2>4 DEF Restart
    <3> QED BY <3>1 DEF InstallingIsOwned
  <2> QED BY <2>1, <2>2, <2>3, <2>4 DEF TNext
<1> QED BY <1>1, <1>2, PTL DEF TSpec

=============================================================================
