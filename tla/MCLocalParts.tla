---------------------------- MODULE MCLocalParts ----------------------------
(***************************************************************************)
(* Parts that work on the machine itself: probing tools, calling sub-agents,    *)
(* calling tools under guard, saving their variables, sessions with their        *)
(* forks, the history that the model is told, the pid file, and the configuration. *)
(* They share no state that a property here speaks of, and one run takes them       *)
(* one by one.                                                              *)
(***************************************************************************)
EXTENDS ToolProbe, SubAgents, ToolPipeline, ToolEnvironment, SessionStore, History, Daemon,
        Settings

VARIABLE part  \* the part that this behaviour is about

\* Settings of a compaction: shorter and longer than the conversations.
SmallWindows == {[first |-> 1, last |-> 1, recent |-> 2], [first |-> 1, last |-> 2, recent |-> 3]}

LocalInit == /\ ProbeIdle /\ AgentsIdle /\ PipeIdle
             /\ EnvironmentIdle /\ SessionsIdle /\ HistoryIdle /\ DaemonIdle
             /\ SettingsFirst
             /\ part \in {"probe", "agents", "pipeline", "environment", "sessions", "history",
                         "daemon", "settings"}
             \* the parts that rest do so in one of their initial states
             /\ part # "agents" => regs = {"in-process"}
             /\ part # "pipeline" => ~native
             /\ part # "settings" => jsonFile = Nobody /\ environ = [mode |-> "local", token |-> ""]

AllParts == <<probeVars, agentVars, pipeVars, envVars, sessionVars, historyVars, daemonVars,
              settingsVars>>
Rest(others) == UNCHANGED <<others, part>>

LocalNext ==
  \/ /\ part = "probe"  /\ ProbeNext
     /\ Rest(<<agentVars, pipeVars, envVars, sessionVars, historyVars, daemonVars, settingsVars>>)
  \/ /\ part = "agents" /\ AgentsNext
     /\ Rest(<<probeVars, pipeVars, envVars, sessionVars, historyVars, daemonVars, settingsVars>>)
  \/ /\ part = "pipeline" /\ PipeNext
     /\ Rest(<<probeVars, agentVars, envVars, sessionVars, historyVars, daemonVars, settingsVars>>)
  \/ /\ part = "environment" /\ EnvironmentNext
     /\ Rest(<<probeVars, agentVars, pipeVars, sessionVars, historyVars, daemonVars, settingsVars>>)
  \/ /\ part = "sessions" /\ SessionsNext
     /\ Rest(<<probeVars, agentVars, pipeVars, envVars, historyVars, daemonVars, settingsVars>>)
  \/ /\ part = "history" /\ HistoryNext
     /\ Rest(<<probeVars, agentVars, pipeVars, envVars, sessionVars, daemonVars, settingsVars>>)
  \/ /\ part = "daemon" /\ DaemonNext
     /\ Rest(<<probeVars, agentVars, pipeVars, envVars, sessionVars, historyVars, settingsVars>>)
  \/ /\ part = "settings" /\ SettingsNext
     /\ Rest(<<probeVars, agentVars, pipeVars, envVars, sessionVars, historyVars, daemonVars>>)

(* What is kept of conversations: a session's events are numbered once and forks are   *)
(* copies of a prefix (core/session_log.py), and the model is told what was recorded      *)
(* (core/memory.py), whatever overlaps.                                       *)
RecordsSound == SessionStoreSound /\ HistorySound

(* What one process leaves to the next: the variables it was given are in the file    *)
(* that the next start reads (core/tool_installer.py), the pid file names the daemon     *)
(* that runs (daemon.py), and the next start has the parameters and credentials that     *)
(* this one has, and what the owner wrote by hand (core/config.py).                *)
FilesKept == EnvKept /\ DaemonSound /\ ConfigKept

LocalSpec == LocalInit /\ [][LocalNext]_<<part, AllParts>>
=============================================================================
