------------------------------- MODULE SkillRun -------------------------------
(***************************************************************************)
(* Skills as graphs of steps (core/dag_executor.py): the sort of the steps, an    *)
(* execution from the first to the last, and a collection, which leaves the steps  *)
(* of the model aside and hands the first of them to the conversation (main.py).    *)
(* A step writes one value, named like itself, and refers to the values of its     *)
(* dependencies.  Other executions share the executor and its directory.        *)
(***************************************************************************)
EXTENDS Integers, Sequences

CONSTANTS StepCount,  \* steps of a graph
          Graphs      \* the graphs there are

Ids    == 1 .. StepCount
Ghost  == StepCount + 1   \* a dependency that no step has the id of
Always == 0               \* the condition of a step that has none

(* What each step depends on, whether it is the model's, and the value it asks for.   *)
AnyStep == [deps : SUBSET (Ids \cup {Ghost}), llm : BOOLEAN, if : Ids \cup {Always}]

ASSUME SkillConstants == StepCount \in Nat \ {0} /\ Graphs \subseteq [Ids -> AnyStep]

VARIABLES
  skill,   \* the graph that is executed
  mode,    \* execute or collect
  phase,   \* none, sort, steps, or how it ended: raised, failed, done, prompt, mute
  left,    \* steps that are not in the order yet
  ready,   \* of these, the rest of the layer that is put in
  ordered, \* the steps in their order
  nth,     \* the place of the next step
  context, \* values there are
  late,    \* llm_steps
  ran,     \* execution_log, with what a step referred to in vain and whose directory it saw
  dir,     \* executor.skill_dir: of this skill or of another
  crossed  \* history: another execution has begun during this one

sortVars  == <<left, ready, ordered>>
skillVars == <<skill, mode, phase, sortVars, nth, context, late, ran, dir, crossed>>

NoSkill == << >>

SkillIdle == /\ skill = NoSkill /\ mode = "none" /\ phase = "none"
             /\ left = {} /\ ready = {} /\ ordered = << >> /\ nth = 1
             /\ context = {} /\ late = << >> /\ ran = << >> /\ dir = "none" /\ crossed = FALSE

(* A conversation collects for a skill that has steps of the model.              *)
Begin == /\ phase = "none" /\ phase' = "sort" /\ left' = Ids
         /\ skill' \in Graphs /\ mode' \in {"execute", "collect"}
         /\ mode' = "collect" => \E i \in Ids : skill'[i].llm
         /\ UNCHANGED <<ready, ordered, nth, context, late, ran, dir, crossed>>

---------------------------------------------------------------------------
(* The sort: layer by layer, each by id.                                     *)

Free == {k \in left : skill[k].deps \cap (left \cup {Ghost}) = {}}

(* Where no step is ready, the graph has no order.                             *)
NextLayer == /\ phase = "sort" /\ ready = {} /\ left # {} /\ ready' = Free
             /\ phase' = IF Free = {} THEN "raised" ELSE "sort"
             /\ UNCHANGED <<skill, mode, left, ordered, nth, context, late, ran, dir, crossed>>

PutInOrder(s) == /\ phase = "sort" /\ s \in ready /\ \A k \in ready : s <= k
                 /\ ordered' = Append(ordered, s) /\ ready' = ready \ {s} /\ left' = left \ {s}
                 /\ UNCHANGED <<skill, mode, phase, nth, context, late, ran, dir, crossed>>

SortEnds == /\ phase = "sort" /\ left = {} /\ phase' = "steps" /\ dir' = "own"
            /\ UNCHANGED <<skill, mode, sortVars, nth, context, late, ran, crossed>>

---------------------------------------------------------------------------
(* The steps.                                                               *)

Upcoming(s) == phase = "steps" /\ nth <= Len(ordered) /\ ordered[nth] = s
\* A condition that names what is missing is false.
Meets(s)    == skill[s].if = Always \/ skill[s].if \in context
Deferred(s) == mode = "collect" /\ skill[s].llm
Missing(s)  == skill[s].deps \ context
Said(s, how) == Append(ran, [step |-> s, how |-> how, missing |-> Missing(s), dir |-> dir])

SkipStep(s) == /\ Upcoming(s) /\ ~Meets(s) /\ nth' = nth + 1
               /\ UNCHANGED <<skill, mode, phase, sortVars, context, late, ran, dir, crossed>>

DeferStep(s) == /\ Upcoming(s) /\ Meets(s) /\ Deferred(s) /\ nth' = nth + 1
                /\ late' = Append(late, s)
                /\ UNCHANGED <<skill, mode, phase, sortVars, context, ran, dir, crossed>>

RunStepOk(s) == /\ Upcoming(s) /\ Meets(s) /\ ~Deferred(s) /\ nth' = nth + 1
                /\ context' = context \cup {s} /\ ran' = Said(s, "ok")
                /\ UNCHANGED <<skill, mode, phase, sortVars, late, dir, crossed>>

FailsAndGoesOn(s) ==   \* Mutant: a step that fails is logged, the next one runs
  /\ Upcoming(s) /\ Meets(s) /\ ~Deferred(s) /\ ran' = Said(s, "failed") /\ nth' = nth + 1
  /\ UNCHANGED <<skill, mode, phase, sortVars, context, late, dir, crossed>>

FailStep(s) == /\ Upcoming(s) /\ Meets(s) /\ ~Deferred(s) /\ ran' = Said(s, "failed")
               /\ phase' = "failed"
               /\ UNCHANGED <<skill, mode, sortVars, nth, context, late, dir, crossed>>

(* A collection that has put no step of the model aside answers with its error,     *)
(* of which there is none.                                                 *)
EndRun == /\ phase = "steps" /\ nth > Len(ordered)
          /\ phase' = IF mode = "execute" THEN "done"
                      ELSE IF late = << >> THEN "mute" ELSE "prompt"
          /\ UNCHANGED <<skill, mode, sortVars, nth, context, late, ran, dir, crossed>>

(* Another thread begins another skill with the same executor.                  *)
OtherBegins == /\ phase = "steps" /\ dir = "own" /\ dir' = "other" /\ crossed' = TRUE
               /\ UNCHANGED <<skill, mode, phase, sortVars, nth, context, late, ran>>

SkillNext == \/ Begin \/ NextLayer \/ SortEnds \/ EndRun \/ OtherBegins
             \/ \E s \in Ids : \/ PutInOrder(s) \/ SkipStep(s) \/ DeferStep(s)
                              \/ RunStepOk(s) \/ FailStep(s)
---------------------------------------------------------------------------
(* The sort gives an order exactly if there is one, and then each step once, after    *)
(* all that it depends on.                                                  *)
Ranked == \E rank \in [Ids -> Ids] :
            \A i \in Ids : Ghost \notin skill[i].deps /\ \A j \in skill[i].deps : rank[j] < rank[i]

Before(n) == {ordered[k] : k \in 1 .. n - 1}

OrderSound ==
  /\ phase = "raised" => ~Ranked
  /\ phase \notin {"none", "sort", "raised"} =>
       /\ Ranked /\ Len(ordered) = StepCount /\ Before(StepCount + 1) = Ids
       /\ \A n \in Ids : skill[ordered[n]].deps \subseteq Before(n)

(* What a whole execution without a failure runs: a step whose condition is met by   *)
(* one that runs before it.                                                 *)
Earlier(s) == Before(CHOOSE n \in Ids : ordered[n] = s)
InFull == CHOOSE S \in SUBSET Ids :
            \A i \in Ids : i \in S <=> skill[i].if = Always \/ skill[i].if \in S \cap Earlier(i)

(* No step runs after one that failed; a step refers in vain only to what was         *)
(* skipped or left to the model; an execution that succeeds ran all that its          *)
(* conditions allow; the prompt that a collection hands over has what an execution     *)
(* would have had at that step; and the directory is the skill's own unless another     *)
(* execution has begun.                                                     *)
RunSound ==
  phase \notin {"none", "sort", "raised"} =>
    /\ \A n \in DOMAIN ran : /\ ran[n].how = "failed" => n = Len(ran) /\ phase = "failed"
                             /\ ran[n].dir = "own" \/ crossed
                             /\ Ghost \notin ran[n].missing
                             /\ \A m \in n + 1 .. Len(ran) : ran[m].step \notin ran[n].missing
                             /\ mode = "execute" => ran[n].missing \cap InFull = {}
    /\ phase = "done" => context = InFull
    /\ phase = "prompt" =>
         context \cap Earlier(Head(late)) = InFull \cap Earlier(Head(late))

SkillSound == OrderSound /\ RunSound
=============================================================================
