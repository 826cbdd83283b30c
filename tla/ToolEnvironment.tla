---------------------------- MODULE ToolEnvironment ----------------------------
(***************************************************************************)
(* The environment variables of a tool (core/tool_installer.py, set_env_vars):    *)
(* its record, the environment of the process, the file agent.env that the next    *)
(* start reads, and what the registered provider hands to its program.           *)
(***************************************************************************)
EXTENDS Integers

CONSTANTS Keys,     \* the declared variables
          Secrets,  \* their values
          Savers,   \* requests that save, at the same time
          MaxSaves, \* bound on the saves
          MaxStarts \* bound on the restarts

ASSUME EnvironmentConstants == MaxSaves \in Nat /\ MaxStarts \in Nat /\ "" \notin Secrets

VARIABLES
  recorded,     \* env_vars of the record, "" where there is none
  env,      \* os.environ
  file,     \* agent.env
  handed,    \* _env of the provider
  save,     \* of each saver: its step, what it saves and the file as it read it
  saves, starts,
  wanted,   \* history: what the last request for each variable wanted
  spoiled   \* history: saves have overlapped, or a write has failed

envVars == <<recorded, env, file, handed, save, saves, starts, wanted, spoiled>>

Values   == Secrets \cup {""}
Nothing  == [k \in Keys |-> ""]
Resting  == [at |-> "none", vars |-> << >>, read |-> Nothing]
Over(old, new)   == [k \in Keys |-> IF k \in DOMAIN new THEN new[k] ELSE old[k]]
OverSet(old, new) == [k \in Keys |-> IF k \in DOMAIN new /\ new[k] # "" THEN new[k] ELSE old[k]]
Quiet    == \A s \in Savers : save[s].at = "none"
SaveTo(s, step) == save' = [save EXCEPT ![s].at = step]

EnvironmentIdle ==
  /\ recorded = Nothing /\ env = Nothing /\ file = Nothing /\ handed = Nothing
  /\ save = [s \in Savers |-> Resting] /\ saves = 0 /\ starts = 0
  /\ wanted = Nothing /\ spoiled = FALSE

---------------------------------------------------------------------------
(* A request, with the variables it declares; an empty value is to delete one.    *)
SetEnvVars(s) ==
  /\ save[s].at = "none" /\ saves < MaxSaves /\ saves' = saves + 1
  /\ \E ks \in SUBSET Keys \ {{}} : \E vars \in [ks -> Values] :
       /\ save' = [save EXCEPT ![s] = [Resting EXCEPT !.at = "row", !.vars = vars]]
       /\ wanted' = Over(wanted, vars)
  /\ spoiled' = (spoiled \/ ~Quiet)
  /\ UNCHANGED <<recorded, env, file, handed, starts>>

(* In a thread: the record, merged; update_env_vars has dropped what is empty.    *)
UpdateRow(s) == /\ save[s].at = "row" /\ SaveTo(s, "inject")
                /\ recorded' = OverSet(recorded, save[s].vars)
                /\ UNCHANGED <<env, file, handed, saves, starts, wanted, spoiled>>

(* A database that refuses ends the request.                                  *)
RowFails(s) == /\ save[s].at = "row" /\ save' = [save EXCEPT ![s] = Resting] /\ spoiled' = TRUE
               /\ UNCHANGED <<recorded, env, file, handed, saves, starts, wanted>>

Inject(s) == /\ save[s].at = "inject" /\ SaveTo(s, "read") /\ env' = Over(env, save[s].vars)
             /\ UNCHANGED <<recorded, file, handed, saves, starts, wanted, spoiled>>

(* In a thread: the file is read, its section merged and the whole written.      *)
ReadEnvFile(s) == /\ save[s].at = "read"
                  /\ save' = [save EXCEPT ![s].at = "write", ![s].read = file]
                  /\ UNCHANGED <<recorded, env, file, handed, saves, starts, wanted, spoiled>>

WriteEnvFileAnew(s) ==   \* Mutant: what the section held is not merged
  /\ save[s].at = "write" /\ SaveTo(s, "give") /\ file' = Over(Nothing, save[s].vars)
  /\ UNCHANGED <<recorded, env, handed, saves, starts, wanted, spoiled>>

WriteEnvFile(s) ==
  /\ save[s].at = "write" /\ SaveTo(s, "give") /\ file' = Over(save[s].read, save[s].vars)
  /\ UNCHANGED <<recorded, env, handed, saves, starts, wanted, spoiled>>

FileFails(s) == /\ save[s].at \in {"read", "write"} /\ SaveTo(s, "give") /\ spoiled' = TRUE
                /\ UNCHANGED <<recorded, env, file, handed, saves, starts, wanted>>

(* The registered provider is asked for from what is a list, and the exception     *)
(* swallowed: what it gives to its program stays.                             *)
HotUpdate(s) == /\ save[s].at = "give" /\ save' = [save EXCEPT ![s] = Resting]
                /\ UNCHANGED <<recorded, env, file, handed, saves, starts, wanted, spoiled>>

(* The tool is enabled or installed again: a new provider, from the process.      *)
RebuildProvider == /\ handed' = env /\ handed' # handed
                   /\ UNCHANGED <<recorded, env, file, save, saves, starts, wanted, spoiled>>

(* A start reads the file, and builds the provider from the record.             *)
LoadAgentEnv == /\ starts < MaxStarts /\ starts' = starts + 1
                /\ save' = [s \in Savers |-> Resting] /\ spoiled' = (spoiled \/ ~Quiet)
                /\ env' = file /\ handed' = recorded
                /\ UNCHANGED <<recorded, file, saves, wanted>>

EnvironmentNext == \/ LoadAgentEnv \/ RebuildProvider
                   \/ \E s \in Savers : \/ SetEnvVars(s) \/ UpdateRow(s) \/ RowFails(s) \/ Inject(s)
                                        \/ ReadEnvFile(s) \/ WriteEnvFile(s) \/ FileFails(s)
                                        \/ HotUpdate(s)
---------------------------------------------------------------------------
(* What was last saved is what the process has, what the next start will read       *)
(* and, deletions apart (update_env_vars keeps what it is to delete), what the       *)
(* record holds, over any number of saves and restarts, unless two saves overlapped  *)
(* or a write failed.                                                      *)
EnvKept == ~spoiled /\ Quiet =>
             \A k \in Keys : /\ env[k] = wanted[k] /\ file[k] = wanted[k]
                             /\ wanted[k] # "" => recorded[k] = wanted[k]
=============================================================================
