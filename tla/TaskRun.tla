------------------------------- MODULE TaskRun -------------------------------
(***************************************************************************)
(* What a thread does with a task of the platform (core/task_executor.py):    *)
(* the captain's Task 0 is split into a plan, code goes to a sub-agent, and    *)
(* anything else to the model with its tools.  PlatformTasks.Execute is one    *)
(* such run, of which it keeps the result.                                  *)
(*                                                                         *)
(* What is said and written is left out; a reply is what the parser of plans   *)
(* tells apart, and a report is the number of percent.                       *)
(***************************************************************************)
EXTENDS Integers, Sequences, SequencesExt

CONSTANTS MaxRounds,   \* max_tool_rounds of the configuration, 5 unless it is set
          ZeroRounds,  \* the most that Task 0 takes of them, 5 in the code
          Fixes        \* how often a plan that cannot be read is asked for again, 2

ASSUME TaskRunConstants == MaxRounds \in Nat /\ ZeroRounds \in Nat /\ Fixes \in Nat

(* Task 0 is told by its number; of other tasks the first of these that shows   *)
(* in the title, the skills or the template decides.                         *)
Orders == [zero : BOOLEAN, code : BOOLEAN, template : BOOLEAN, doc : BOOLEAN, analysis : BOOLEAN]

TypeOf(o) == CASE o.code -> "code"
               [] ~o.code /\ (o.template \/ o.doc) -> "doc"
               [] ~o.code /\ ~o.template /\ ~o.doc /\ o.analysis -> "analysis"
               [] OTHER -> "general"

Executor(o) == CASE o.zero -> "zero" [] ~o.zero /\ TypeOf(o) = "code" -> "code" [] OTHER -> "model"

---------------------------------------------------------------------------
(* Reading a plan.  A text is the whole, its fenced blocks, and what lies        *)
(* between the first and the last bracket: each a list, or not.               *)

Entries  == {"titled", "untitled"}
NotAList == <<"no list">>
Lists    == {<< >>, <<"titled">>, <<"untitled">>, <<"untitled", "titled">>}
Pieces   == Lists \cup {NotAList}
Texts    == {[whole |-> w, blocks |-> b, inner |-> n] :
               w \in Pieces, b \in {<< >>} \cup {<<p>> : p \in Pieces}
                               \cup {<<NotAList, <<"titled">> >>, <<<<"untitled">>, <<"titled">> >>},
               n \in {NotAList, <<"titled">>}}
NoText   == [whole |-> NotAList, blocks |-> << >>, inner |-> NotAList]

ValidTasks(list) == SelectSeq(list, LAMBDA e : e = "titled")

(* The first piece that is a list is the plan, even if nothing in it is a task. *)
ParsePlan(text) ==
  LET pieces == <<text.whole>> \o text.blocks \o <<text.inner>>
      lists  == SelectSeq(pieces, LAMBDA p : p # NotAList)
  IN  IF lists = << >> THEN << >> ELSE ValidTasks(lists[1])

---------------------------------------------------------------------------
VARIABLES
  order,    \* the task, or << >> before there is one
  at,       \* where its run is
  round, asked,  \* rounds with tools, calls of the model that came back
  plan,     \* Task 0: what has been read of the reply
  reports,  \* the progress reported
  answer    \* result_status, or "none"

runVars == <<order, at, round, asked, plan, reports, answer>>

RunIdle == /\ order = << >> /\ at = "none" /\ round = 0 /\ asked = 0
           /\ plan = << >> /\ reports = << >> /\ answer = "none"

(* Losing a report never stops the run: report_progress takes what it raises.   *)
Report(n)    == reports' = Append(reports, n)
GoTo(stage)  == at' = stage
Finish(what) == at' = "ended" /\ answer' = what

TakeOrder == /\ at = "none"
             /\ \E o \in Orders : order' = o /\ at' = Executor(o)
             /\ UNCHANGED <<round, asked, plan, reports, answer>>

RoundsLeft == round < (IF order.zero /\ ZeroRounds < MaxRounds THEN ZeroRounds ELSE MaxRounds)

(* Task 0. *)
ZeroStart == /\ at = "zero" /\ GoTo("rounds")
             /\ reports' = reports \o <<5, 15, 40>>
             /\ UNCHANGED <<order, round, asked, plan, answer>>

(* The model asks for tools, which are called, and is asked again.              *)
ToolRound == /\ at = "rounds" /\ RoundsLeft
             /\ round' = round + 1 /\ asked' = asked + 1
             /\ IF order.zero THEN UNCHANGED reports
                ELSE Report(Min({5 + 12 * round', 80}))
             /\ UNCHANGED <<order, at, plan, answer>>

(* Task 0 without a reply: the rounds are used up, or the reply is empty.        *)
ZeroEmpty == /\ at = "rounds" /\ order.zero
             /\ \/ ~RoundsLeft /\ UNCHANGED asked
                \/ RoundsLeft /\ asked' = asked + 1
             /\ Finish("REVISION_NEEDED")
             /\ UNCHANGED <<order, round, plan, reports>>

ZeroReply == /\ at = "rounds" /\ order.zero /\ RoundsLeft
             /\ asked' = asked + 1 /\ GoTo("fix") /\ round' = 0
             /\ \E text \in Texts : plan' = ParsePlan(text)
             /\ reports' = reports \o <<60, 80>>
             /\ UNCHANGED <<order, answer>>

ZeroFix == /\ at = "fix" /\ plan = << >> /\ round < Fixes
           /\ round' = round + 1 /\ asked' = asked + 1
           /\ \E text \in Texts : plan' = ParsePlan(text)
           /\ UNCHANGED <<order, at, reports, answer>>

ZeroEndSure ==   \* Mutant: an answer that could not be read counts as a plan
  /\ at = "fix" /\ (plan # << >> \/ round = Fixes)
  /\ reports' = reports \o <<90, 100>> /\ Finish("SUCCESS")
  /\ UNCHANGED <<order, round, asked, plan>>

ZeroEnd == /\ at = "fix" /\ (plan # << >> \/ round = Fixes)
           /\ reports' = reports \o <<90, 100>>
           /\ Finish(IF plan # << >> THEN "SUCCESS" ELSE "REVISION_NEEDED")
           /\ UNCHANGED <<order, round, asked, plan>>

(* Documents, analyses and the rest. *)
ModelStart == /\ at = "model" /\ GoTo("rounds") /\ reports' = reports \o <<5, 15>>
              /\ UNCHANGED <<order, round, asked, plan, answer>>

(* Rounds that are used up, or an empty reply, are no failure here.             *)
ModelEnd == /\ at = "rounds" /\ ~order.zero
            /\ \/ ~RoundsLeft /\ UNCHANGED asked
               \/ RoundsLeft /\ asked' = asked + 1
            /\ reports' = reports \o <<95, 100>> /\ Finish("SUCCESS")
            /\ UNCHANGED <<order, round, plan>>

(* Code. *)
CodeStart == /\ at = "code" /\ GoTo("delegated") /\ reports' = reports \o <<5, 10>>
             /\ UNCHANGED <<order, round, asked, plan, answer>>

CodeEnd == /\ at = "delegated" /\ reports' = reports \o <<90, 100>>
           /\ \E what \in {"SUCCESS", "BLOCKED"} : Finish(what)
           /\ UNCHANGED <<order, round, asked, plan>>

(* Anything that raises, in a call of the model, a tool, the sub-agent or the     *)
(* writing of the result, becomes an answer; what was reported before stays.      *)
RunRaises == /\ at \in {"zero", "model", "code", "rounds", "fix", "delegated"}
             /\ Finish("BLOCKED")
             /\ \/ at \in {"zero", "model", "code"} /\ Report(5)
                \/ at \in {"rounds", "fix", "delegated"} /\ UNCHANGED reports
                \/ at \in {"fix", "delegated"} /\ Report(90)
                \/ at = "rounds" /\ ~order.zero /\ Report(95)
             /\ UNCHANGED <<order, round, asked, plan>>

TaskRunNext == TakeOrder \/ ZeroStart \/ ToolRound \/ ZeroEmpty \/ ZeroReply \/ ZeroFix \/ ZeroEnd
               \/ ModelStart \/ ModelEnd \/ CodeStart \/ CodeEnd \/ RunRaises
---------------------------------------------------------------------------
(* What the platform reads of a run fits together: progress never goes back,     *)
(* nothing comes after 100, success is never answered without it, the captain's    *)
(* success has a plan, and the calls of the model are bounded by the rounds and     *)
(* corrections, whichever way the run goes or breaks off.                        *)
TaskRunSound ==
  /\ \A i \in 2 .. Len(reports) : reports[i - 1] <= reports[i] /\ reports[i - 1] < 100
  /\ answer = "SUCCESS" => reports[Len(reports)] = 100 /\ (order.zero => plan # << >>)
  /\ at = "ended" <=> answer # "none"
  /\ order # << >> => asked <= (IF order.zero THEN ZeroRounds + Fixes ELSE MaxRounds)
=============================================================================
