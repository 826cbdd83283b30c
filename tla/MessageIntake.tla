----------------------------- MODULE MessageIntake -----------------------------
(***************************************************************************)
(* A message of a task on its way through process_message (main.py): commands,    *)
(* shortcuts, the orchestrator, the router with its rules, its cache and the       *)
(* cache's file (core/intent_router.py), and what is recorded.  Tasks run in        *)
(* threads and share the router.                                           *)
(***************************************************************************)
EXTENDS Integers, FiniteSets

CONSTANTS Threads,     \* tasks that run at the same time
          Inputs,      \* messages
          Installs,    \* what the rules of an installation make of each message, and
                       \* what an earlier process has learned of them
          MaxServed, \* bound on the messages
          MaxRestarts  \* bound on the starts after the first

(* Confidences, in tenths.                                                   *)
RuleMin == 7      \* of a rule that is taken
ShortcutMin == 9  \* of a shortcut (0.85, the shortcuts there are have 0.9)
CacheMin == 5     \* of a classification that is kept
Threshold == 5    \* skill_confidence_threshold
Found(known, conf, by) == [skill |-> known, conf |-> conf, by |-> by, old |-> FALSE]
Unknown == Found(FALSE, 0, "none")
Classifications == [skill : BOOLEAN, conf : 0 .. 10, by : {"rule", "llm", "none"}, old : BOOLEAN]

ASSUME IntakeConstants == /\ MaxServed \in Nat /\ MaxRestarts \in Nat
                          /\ \A i \in Installs : /\ i.rules \in [Inputs -> Classifications]
                                                 /\ i.cache \in [Inputs -> Classifications]

VARIABLES
  rules,     \* what this process was started with
  cache,     \* _cache, Unknown for no entry
  saved,     \* the file: whole, empty after it was opened, or torn; and the cache it has
  msg,       \* of each thread: its step and what it has found and recorded
  served, restarts,
  ruled,     \* history: the messages that a rule has answered in this process
  raced      \* history: saves have overlapped or failed

intakeVars == <<rules, cache, saved, msg, served, restarts, ruled, raced>>

NoCache  == [t \in Inputs |-> Unknown]
File(is, has) == [is |-> is, has |-> has]
Absent   == [at |-> "none", text |-> "", use |-> "check", via |-> "none", found |-> Unknown,
             keys |-> {}, snap |-> NoCache, out |-> 0, slips |-> 0]

IntakeIdle == /\ \E i \in Installs : rules = i.rules /\ cache = i.cache
              /\ saved = File("whole", cache)
              /\ msg = [w \in Threads |-> Absent]
              /\ served = 0 /\ restarts = 0 /\ ruled = {} /\ raced = FALSE

Dead     == [Absent EXCEPT !.at = "dead"]

Reached(w, step) == msg[w].at = step
Turn(w, new) == msg' = [msg EXCEPT ![w] = new]
Goto(w, step) == Turn(w, [msg[w] EXCEPT !.at = step])
KeepRouter == UNCHANGED <<rules, cache, saved, ruled, raced>>
KeepTasks  == UNCHANGED <<rules, served, restarts>>

---------------------------------------------------------------------------
(* The router.                                                             *)

(* Where a route goes on: a shortcut is one by a rule only.                     *)
Routed(w, found) ==
  LET m == [msg[w] EXCEPT !.keys = {}, !.snap = NoCache] IN
  CASE msg[w].use = "main"  -> [m EXCEPT !.at = "run", !.found = found, !.via =
                                 IF found.skill /\ found.conf >= Threshold THEN "skill" ELSE "talk"]
    [] msg[w].use = "check" -> [m EXCEPT !.at = "in", !.found = Unknown, !.via =
                                 IF found.by = "rule" /\ found.conf >= ShortcutMin THEN "shortcut"
                                 ELSE "none"]

CacheKept(t) == UNCHANGED cache   \* Mutant: the old entry stays

ForgetCached(t) == cache' = [cache EXCEPT ![t] = Unknown]

MatchRule(w) == /\ Reached(w, "route") /\ rules[msg[w].text].conf >= RuleMin
                /\ ForgetCached(msg[w].text) /\ ruled' = ruled \cup {msg[w].text}
                /\ Turn(w, Routed(w, rules[msg[w].text]))
                /\ UNCHANGED <<saved, raced>> /\ KeepTasks

Usable(t) == cache[t] # Unknown /\ ~cache[t].old
LookUpCache(w) == /\ Reached(w, "route") /\ rules[msg[w].text].conf < RuleMin
                  /\ IF Usable(msg[w].text) THEN Turn(w, Routed(w, cache[msg[w].text]))
                     ELSE Goto(w, "classify")
                  /\ KeepRouter /\ KeepTasks

(* The model's answer; without one that can be read there is no intent.          *)
Classify(w) ==
  /\ Reached(w, "classify")
  /\ \E conf \in {0, 6}, known \in BOOLEAN :
       LET found == Found(known, conf, "llm") IN
       IF conf >= CacheMin
       THEN cache' = [cache EXCEPT ![msg[w].text] = found]
            /\ Turn(w, [msg[w] EXCEPT !.at = "keys", !.found = found])
       ELSE Turn(w, Routed(w, Unknown)) /\ UNCHANGED cache
  /\ UNCHANGED <<saved, ruled, raced>> /\ KeepTasks

(* A refusal of the server, or of the budget, is not among what is caught.         *)
ClassifyRaises(w) == Reached(w, "classify") /\ Turn(w, Dead) /\ KeepRouter /\ KeepTasks

Saving(v) == msg[v].at \in {"keys", "build", "open", "fill"}

SaveKeys(w) == /\ Reached(w, "keys")
               /\ Turn(w, [msg[w] EXCEPT !.at = "build", !.keys = {t \in Inputs : cache[t] # Unknown}])
               /\ raced' = (raced \/ \E v \in Threads \ {w} : Saving(v))
               /\ UNCHANGED <<cache, saved, ruled>> /\ KeepTasks

(* A key that another thread has taken out meanwhile is a KeyError.              *)
BuildSnapshot(w) ==
  /\ Reached(w, "build")
  /\ IF \A t \in msg[w].keys : cache[t] # Unknown
     THEN /\ Turn(w, [msg[w] EXCEPT !.at = "open", !.snap =
                        [t \in Inputs |-> IF t \in msg[w].keys THEN cache[t] ELSE Unknown]])
          /\ UNCHANGED raced
     ELSE Turn(w, Dead) /\ raced' = TRUE
  /\ UNCHANGED <<cache, saved, ruled>> /\ KeepTasks

OpenFile(w) == /\ Reached(w, "open")
               /\ \/ saved' = File("empty", NoCache) /\ Goto(w, "fill") /\ UNCHANGED raced
                  \/ Turn(w, Routed(w, msg[w].found)) /\ raced' = TRUE /\ UNCHANGED saved
               /\ UNCHANGED <<cache, ruled>> /\ KeepTasks

(* Over what another has written, the end of it may stay.                       *)
FillFile(w) == /\ Reached(w, "fill") /\ Turn(w, Routed(w, msg[w].found))
               /\ saved' \in {File("whole", msg[w].snap)}
                            \cup (IF saved.is = "empty" THEN {} ELSE {File("torn", NoCache)})
               /\ UNCHANGED <<cache, ruled, raced>> /\ KeepTasks

---------------------------------------------------------------------------
(* A message. *)

TakeMessage(w) == /\ Reached(w, "none") /\ served < MaxServed /\ served' = served + 1
              /\ \E t \in Inputs : Turn(w, [Absent EXCEPT !.at = "parse", !.text = t])
              /\ UNCHANGED restarts /\ KeepRouter

(* Is it a command?  Whatever goes wrong with the model, it is not.              *)
Parse(w) == /\ Reached(w, "parse") /\ (Goto(w, "command") \/ Goto(w, "route"))
            /\ KeepRouter /\ KeepTasks

(* A command that fails has an error for an answer.                            *)
RunCommand(w) == /\ Reached(w, "command")
                 /\ Turn(w, [msg[w] EXCEPT !.at = "in", !.via = "command"])
                 /\ KeepRouter /\ KeepTasks

(* There is a reply: what it was found with matters no more.                     *)
Answered(w) == [Absent EXCEPT !.at = "out", !.via = "answer", !.out = msg[w].out, !.slips = msg[w].slips]

RecordMessage(w) == /\ Reached(w, "in")
                    /\ IF msg[w].via = "none" THEN Goto(w, "plan") ELSE Turn(w, Answered(w))
                    /\ KeepRouter /\ KeepTasks

(* An answer, no interest, or an exception.                                   *)
Plan(w) == /\ Reached(w, "plan")
           /\ \/ Turn(w, [msg[w] EXCEPT !.at = "out", !.via = "plan"])
              \/ Turn(w, [msg[w] EXCEPT !.at = "route", !.use = "main"])
           /\ KeepRouter /\ KeepTasks

(* A skill or the model answers; a skill may raise, or its diagnosis.             *)
RunRoute(w) == /\ Reached(w, "run") /\ Turn(w, Answered(w)) /\ KeepRouter /\ KeepTasks
SkillRaises(w) == /\ Reached(w, "run") /\ msg[w].via = "skill" /\ Turn(w, Dead)
                /\ KeepRouter /\ KeepTasks

RecordReply(w) == /\ Reached(w, "out") /\ Turn(w, [msg[w] EXCEPT !.out = @ + 1, !.at = "log"])
                  /\ KeepRouter /\ KeepTasks

LogExecution(w) == /\ Reached(w, "log") /\ Goto(w, "done")
                   /\ KeepRouter /\ KeepTasks

(* A write that the database refuses.  After the orchestrator's answer this is        *)
(* taken for no answer, and the message goes on.                              *)
RecordRaises(w) ==
  /\ msg[w].at \in {"in", "out", "log"}
  /\ IF msg[w].via = "plan"
     THEN Turn(w, [msg[w] EXCEPT !.at = "route", !.use = "main", !.slips = @ + 1])
     ELSE Turn(w, Dead)
  /\ KeepRouter /\ KeepTasks

(* The task's run is over, whichever way.                                    *)
Leave(w) == /\ msg[w].at \in {"done", "dead"} /\ Turn(w, Absent)
            /\ UNCHANGED <<served, restarts>> /\ KeepRouter

(* A week passes.                                                           *)
GrowOld == /\ \E t \in Inputs : Usable(t)
           /\ \A w \in Threads : Reached(w, "none")
           /\ cache' = [t \in Inputs |-> [cache[t] EXCEPT !.old = cache[t] # Unknown]]
           /\ saved' = [saved EXCEPT !.has = [t \in Inputs |-> [@[t] EXCEPT !.old = saved.has[t] # Unknown]]]
           /\ UNCHANGED <<msg, ruled, raced>> /\ KeepTasks

(* The end of the process and its next start, perhaps with other skills.         *)
StartAnew == /\ restarts < MaxRestarts /\ served > 0 /\ restarts' = restarts + 1
             /\ rules' \in {i.rules : i \in Installs}
             /\ cache' = saved.has   \* nothing, where it cannot be read
             /\ raced' = FALSE /\ ruled' = {}
             /\ msg' = [w \in Threads |-> Absent]
             /\ UNCHANGED <<saved, served>>

IntakeNext ==
  \/ GrowOld \/ StartAnew
  \/ \E w \in Threads :
       \/ TakeMessage(w) \/ Parse(w) \/ RunCommand(w) \/ RecordMessage(w) \/ Plan(w) \/ RunRoute(w)
       \/ SkillRaises(w) \/ RecordReply(w) \/ LogExecution(w) \/ RecordRaises(w) \/ Leave(w)
       \/ MatchRule(w) \/ LookUpCache(w) \/ Classify(w) \/ ClassifyRaises(w) \/ SaveKeys(w)
       \/ BuildSnapshot(w) \/ OpenFile(w) \/ FillFile(w)
---------------------------------------------------------------------------
(* A message that ends well has one recorded reply, and two only if the log of an        *)
(* answer of the orchestrator was refused, which happens once at most.                  *)
RecordedOnce ==
  \A w \in Threads :
    LET m == msg[w] IN
    /\ m.at = "done" => m.out \in 1 .. 1 + m.slips
    /\ m.out <= 1 + m.slips /\ m.slips <= 1

(* A rule that is sure wins over what an earlier process has learned, and no thread       *)
(* brings that back while the process lasts.                                  *)
RulesWin == /\ \A w \in Threads : Reached(w, "run") /\ rules[msg[w].text].conf >= RuleMin
                                    => msg[w].found = rules[msg[w].text]
            /\ \A t \in ruled : cache[t] = Unknown

(* What was learned outlives the process: the file has all that the cache has, unless     *)
(* two saves overlapped or one failed.                                        *)
LearnedIsSaved ==
  ~raced /\ (\A w \in Threads : ~Saving(w)) =>
    \A t \in Inputs : cache[t] # Unknown => saved.has[t] = cache[t]

IntakeSound == RecordedOnce /\ RulesWin /\ LearnedIsSaved
=============================================================================
