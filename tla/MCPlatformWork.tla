--------------------------- MODULE MCPlatformWork ---------------------------
(***************************************************************************)
(* Work that is given to the runtime: the tasks that the platform assigns, the   *)
(* run of one of them, the projects it keeps copies of, the way of a task's        *)
(* message through the router, a skill's steps, and the calls of the model.        *)
(* The parts share no state that a property here speaks of, and one run takes      *)
(* them one by one.                                                         *)
(***************************************************************************)
EXTENDS PlatformTasks, TaskRun, ProjectSync, LlmAccess, SkillRun, MessageIntake

VARIABLE focus  \* the part that this behaviour is about

\* Settings as a first start finds them, and as an environment gives them.
ThreeFiles == {[server |-> "", key |-> "", main |-> "", fast |-> "f"],
               [server |-> "q", key |-> "", main |-> "", fast |-> "f"],
               [server |-> "p", key |-> "p", main |-> "m", fast |-> "m"]}

\* One message that no rule, a skill's rule or a shortcut is sure of, and one of a weak rule;
\* before the rules there were, the first was learned.
ThreeInstalls ==
  LET of(sure) == [t \in Inputs |-> IF t = "x" THEN sure ELSE Found(FALSE, 6, "rule")]
      known    == [NoCache EXCEPT !["x"] = Found(TRUE, 6, "llm")] IN
  {[rules |-> of(Unknown), cache |-> NoCache],
   [rules |-> of(Found(TRUE, 8, "rule")), cache |-> known],
   [rules |-> of(Found(FALSE, 9, "rule")), cache |-> known]}

\* Every graph whose steps depend on earlier ones, with their kinds and conditions, and every
\* graph of steps that are not the model's and have no condition.
SmallGraphs ==
  {g \in [Ids -> AnyStep] : \/ \A i \in Ids : g[i].deps \subseteq 1 .. i - 1
                            \/ \A i \in Ids : ~g[i].llm /\ g[i].if = Always}

WorkInit ==
  /\ PlatformIdle /\ RunIdle /\ ProjectIdle /\ LlmIdle /\ SkillIdle /\ IntakeIdle
  /\ focus \in {"tasks", "run", "projects", "model", "skill", "message"}
  \* the parts that rest do so in one of their initial states
  /\ focus # "model"   => file.server = ""
  /\ focus # "message" => rules["x"] = Unknown /\ cache = NoCache

Rest(others) == UNCHANGED <<others, focus>>

AllWork == <<workVars, runVars, projectVars, llmVars, skillVars, intakeVars>>
WorkNext ==
  \/ /\ focus = "tasks" /\ PlatformNext
     /\ Rest(<<runVars, projectVars, llmVars, skillVars, intakeVars>>)
  \/ /\ focus = "run" /\ TaskRunNext
     /\ Rest(<<workVars, projectVars, llmVars, skillVars, intakeVars>>)
  \/ /\ focus = "projects" /\ ProjectNext
     /\ Rest(<<workVars, runVars, llmVars, skillVars, intakeVars>>)
  \/ /\ focus = "model" /\ LlmNext
     /\ Rest(<<workVars, runVars, projectVars, skillVars, intakeVars>>)
  \/ /\ focus = "skill" /\ SkillNext
     /\ Rest(<<workVars, runVars, projectVars, llmVars, intakeVars>>)
  \/ /\ focus = "message" /\ IntakeNext
     /\ Rest(<<workVars, runVars, projectVars, llmVars, skillVars>>)

WorkSpec == WorkInit /\ [][WorkNext]_<<focus, AllWork>>

=============================================================================
