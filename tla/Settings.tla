------------------------------- MODULE Settings -------------------------------
(***************************************************************************)
(* The configuration of the process (core/config.py): parameters that the   *)
(* owner changes (server/api/config_api.py) and the platform (ws/handlers.py), *)
(* config.json, the credentials table (server/api/credentials.py), and what *)
(* the next start makes of them.                                            *)
(***************************************************************************)
EXTENDS Integers

CONSTANTS Grants,      \* what the platform gives out
          MaxUpdates,  \* bound on the requests and messages
          MaxBoots     \* bound on the restarts

ASSUME SettingsConstants == /\ MaxUpdates \in Nat /\ MaxBoots \in Nat
                            /\ {"", "env"} \cap Grants = {}

(* A parameter for each way to change one: PUT /config, the platform, both, or *)
(* neither (run_mode is among the parameters, and nothing sets it there).   *)
Params   == {"run_mode", "web", "link", "both"}
Defaults == [k \in Params |-> IF k = "run_mode" THEN "local" ELSE "default"]
WebKeys  == {"web", "both"}
LinkKeys == {"link", "both"}
Modes    == {"local", "order"}

VARIABLES
  params, mode,  \* config.params and config.run_mode
  jsonFile,      \* config.json as json.loads gives it; nothing if torn or not there
  rows,          \* the credentials table
  conf,          \* ws_token, agent_id and backend_url of the configuration
  environ,       \* the environment of the process
  handler,       \* where the handler is that the event loop runs, and what it holds
  updates, boots,
  byHand,        \* history: config.json as its owner has written it
  unsaved,       \* history: parameters the platform changed after the last merge
  unwritten,     \* history: the last write has failed
  torn,          \* history: a write of the file was cut or failed halfway
  halved         \* history: a change of the rows was cut or failed halfway

settingsVars == <<params, mode, jsonFile, rows, conf, environ, handler, updates, boots,
                  byHand, unsaved, unwritten, torn, halved>>

Nobody   == [k \in {} |-> ""]    \* an empty dictionary
AtRest   == handler.at = "none"
Waiting  == [at |-> "none", holds |-> Nobody]
HandlerAt(step)   == handler' = [handler EXCEPT !.at = step]
Has(dict, k)      == k \in DOMAIN dict
Lookup(dict, k, other) == IF Has(dict, k) THEN dict[k] ELSE other
Updated(dict, by) ==
  [k \in DOMAIN dict \cup DOMAIN by |-> IF Has(by, k) THEN by[k] ELSE dict[k]]
Count    == updates < MaxUpdates /\ updates' = updates + 1

---------------------------------------------------------------------------
(* A start: the environment, then the rows if there is a token, then the file. *)

FromRows(table, e) ==
  IF ~Has(table, "token") THEN [token |-> e.token, name |-> "env", url |-> "env"]
  ELSE [token |-> table["token"], name |-> Lookup(table, "name", "env"),
        url |-> Lookup(table, "url", "env")]

LoadedParams(dict) == [k \in Params |-> Lookup(dict, k, Defaults[k])]
LoadedMode(dict, e) == Lookup(dict, "run_mode", e.mode)
LoadedConf(table, dict, e) ==
  [FromRows(table, e) EXCEPT !.url = Lookup(dict, "backend_url", @)]

Environments == [mode : Modes, token : {"", "env"}]

Written == {Nobody, [k \in {"backend_url"} |-> "hand"],
            [k \in {"backend_url", "run_mode"} |-> IF k = "run_mode" THEN "order" ELSE "hand"]}

SettingsFirst ==
  /\ jsonFile \in Written /\ byHand = jsonFile /\ rows = Nobody /\ environ \in Environments
  /\ params = LoadedParams(jsonFile) /\ mode = LoadedMode(jsonFile, environ)
  /\ conf = LoadedConf(rows, jsonFile, environ)
  /\ handler = Waiting /\ updates = 0 /\ boots = 0
  /\ unsaved = {} /\ unwritten = FALSE /\ torn = FALSE /\ halved = FALSE

(* The process ends wherever it is; a file that is being written may stay torn, *)
(* and a torn one is read as none.                                          *)
Boot ==
  /\ boots < MaxBoots /\ boots' = boots + 1
  /\ \/ jsonFile' = jsonFile /\ torn' = torn
     \/ handler.at = "write" /\ jsonFile' = Nobody /\ torn' = TRUE
  /\ environ' \in Environments
  /\ params' = LoadedParams(jsonFile') /\ mode' = LoadedMode(jsonFile', environ')
  /\ conf' = LoadedConf(rows, jsonFile', environ')
  /\ handler' = Waiting /\ unsaved' = {} /\ unwritten' = FALSE
  /\ halved' = (halved \/ handler.at \in {"name", "url"})
  /\ UNCHANGED <<rows, updates, byHand>>

---------------------------------------------------------------------------
(* Parameters and the file.  The event loop runs one handler at a time, and the *)
(* thread of the link changes parameters and mode meanwhile.                *)

KeepAccess == UNCHANGED <<rows, conf, environ, boots, byHand, halved>>

PutParam(k, v) == /\ AtRest /\ Count /\ HandlerAt("merge")
                  /\ params' = [params EXCEPT ![k] = v]
                  /\ UNCHANGED <<mode, jsonFile, unsaved, unwritten, torn>> /\ KeepAccess

MergeAnew ==   \* Mutant: what else the file holds is not read
  /\ handler.at = "merge" /\ handler' = [at |-> "write", holds |-> params]
  /\ unsaved' = {}
  /\ UNCHANGED <<params, mode, jsonFile, updates, unwritten, torn>> /\ KeepAccess

(* save: the file as it is, with all parameters over it.                    *)
Merge == /\ handler.at = "merge" /\ handler' = [at |-> "write", holds |-> Updated(jsonFile, params)]
         /\ unsaved' = {}
         /\ UNCHANGED <<params, mode, jsonFile, updates, unwritten, torn>> /\ KeepAccess

WriteConfig == /\ handler.at = "write" /\ handler' = Waiting
               /\ jsonFile' = handler.holds /\ unwritten' = FALSE
               /\ UNCHANGED <<params, mode, updates, unsaved, torn>> /\ KeepAccess

(* The file cannot be opened, or the disk is full after it was emptied.     *)
WriteRefused == /\ handler.at = "write" /\ handler' = Waiting /\ unwritten' = TRUE
                /\ \/ UNCHANGED <<jsonFile, torn>>
                   \/ jsonFile' = Nobody /\ torn' = TRUE
                /\ UNCHANGED <<params, mode, updates, unsaved>> /\ KeepAccess

(* config.update of the platform: the parameter, and nothing is saved.      *)
HotUpdateParam(k, v) == /\ Count /\ params' = [params EXCEPT ![k] = v]
                        /\ unsaved' = unsaved \cup {k}
                        /\ UNCHANGED <<mode, jsonFile, handler, unwritten, torn>> /\ KeepAccess

(* A switch of the mode; nothing keeps it.                                  *)
SwitchMode(m) == /\ Count /\ mode # m /\ mode' = m
                 /\ UNCHANGED <<params, jsonFile, handler, unsaved, unwritten, torn>> /\ KeepAccess

---------------------------------------------------------------------------
(* Credentials.  The platform answers with what belongs to the token, perhaps *)
(* without a name.                                                          *)

KeepConfig == UNCHANGED <<params, jsonFile, environ, boots, byHand, unsaved, unwritten, torn>>

Validated(t) ==
  /\ AtRest /\ Count
  /\ \E n \in {"", t} :
        handler' = [at |-> "token", holds |-> [token |-> t, name |-> n, url |-> t]]
  /\ UNCHANGED <<mode, rows, conf, halved>> /\ KeepConfig

NextRow == [token |-> "name", name |-> "url", url |-> "memory"]
SetRow(k) == /\ handler.at = k /\ HandlerAt(NextRow[k])
             /\ rows' = Updated(rows, [j \in {k} |-> handler.holds[k]])
             /\ UNCHANGED <<mode, conf, updates, halved>> /\ KeepConfig

RowRefused(k) == /\ handler.at = k /\ handler' = Waiting
                 /\ halved' = (halved \/ k # "token")
                 /\ UNCHANGED <<mode, rows, conf, updates>> /\ KeepConfig

HotLoad == /\ handler.at = "memory" /\ handler' = Waiting /\ halved' = FALSE
           /\ conf' = [handler.holds EXCEPT !.name = IF @ = "" THEN conf.name ELSE @]
           /\ UNCHANGED <<mode, rows, updates>> /\ KeepConfig

ClearRows == /\ AtRest /\ Count /\ HandlerAt("forget") /\ rows' = Nobody /\ halved' = FALSE
             /\ UNCHANGED <<mode, conf>> /\ KeepConfig
Forget == /\ handler.at = "forget" /\ handler' = Waiting
          /\ conf' = [conf EXCEPT !.token = ""] /\ mode' = "local"
          /\ UNCHANGED <<rows, updates, halved>> /\ KeepConfig

SettingsNext ==
  \/ Boot \/ Merge \/ WriteConfig \/ WriteRefused \/ HotLoad \/ ClearRows \/ Forget
  \/ \E k \in WebKeys : PutParam(k, "owner's")
  \/ \E k \in LinkKeys : HotUpdateParam(k, "platform's")
  \/ \E m \in Modes : SwitchMode(m)
  \/ \E t \in Grants : Validated(t)
  \/ \E k \in DOMAIN NextRow : SetRow(k) \/ RowRefused(k)
---------------------------------------------------------------------------
(* The next start has the parameters this one has, but for what the platform changed *)
(* after the last save, and a write that failed.                            *)
ParamsKept ==
  AtRest /\ ~unwritten => \A k \in Params \ unsaved : LoadedParams(jsonFile)[k] = params[k]

(* No save loses what the owner wrote into the file, unless one was torn, and no *)
(* switch of the mode gets there: the file says what was written or, once anything *)
(* was saved, "local", whatever the environment says.                       *)
HandKept ==
  ~torn => /\ Has(byHand, "backend_url")
              => Lookup(jsonFile, "backend_url", "") = byHand["backend_url"]
           /\ Has(jsonFile, "run_mode") => jsonFile["run_mode"] = Lookup(byHand, "run_mode", "local")

(* Credentials are of one answer of the platform, and the next start has those that *)
(* this one has, unless a change was cut; only the name stays behind if the answer had *)
(* none, and a backend_url in the file goes before.  Without rows the token is that *)
(* of the environment, if any.                                              *)
CredentialsKept ==
  AtRest /\ ~halved =>
    IF Has(rows, "token")
    THEN LET next == LoadedConf(rows, jsonFile, environ) IN
         /\ rows["url"] = rows["token"] /\ rows["name"] \in {"", rows["token"]}
         /\ next.token = conf.token
         /\ rows["name"] # "" => next.name = conf.name
         /\ ~Has(byHand, "backend_url") => next.url = conf.url
    ELSE conf.token \in {"", environ.token}

ConfigKept == ParamsKept /\ HandKept /\ CredentialsKept
=============================================================================
