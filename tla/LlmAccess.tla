------------------------------ MODULE LlmAccess ------------------------------
(***************************************************************************)
(* How the runtime reaches its language model: the settings and the requests    *)
(* that change them (server/api/llm.py), the clients of core/llm_client.py with   *)
(* the second one that is made for the fast model, and the meter of tokens.       *)
(* Requests run on the event loop, one after the other; calls run in threads,     *)
(* between any two assignments of a request and of each other.                *)
(***************************************************************************)
EXTENDS Integers, Sequences, FiniteSets

CONSTANTS Callers,   \* threads that call the model
          Pairs,     \* credentials: a server and the key for it
          Models,    \* names of models
          Files,     \* settings that the environment or the file may give
          Cap,       \* token_monthly_cap
          Reserve,   \* what check_budget wants left for the answer
          MaxOut,    \* bound on the tokens of an answer
          MaxCalls,  \* bound on the calls
          MaxPuts,   \* bound on the requests
          MaxRelaunches,  \* bound on the restarts
          MaxMonth   \* bound on the months

Fields == {"server", "key", "main", "fast"}
Input  == 1   \* tokens of a prompt, at least
Belongs(key, server) == key \in {"", server}

ASSUME LlmConstants == /\ IsFiniteSet(Callers) /\ "" \notin Pairs \cup Models
                       /\ Files \subseteq [Fields -> Pairs \cup Models \cup {""}]
                       /\ \A f \in Files : Belongs(f["key"], f["server"])
                       /\ Cap \in Nat /\ Reserve \in Nat /\ MaxOut \in Nat /\ MaxMonth \in Nat \ {0}
                       /\ MaxCalls \in Nat /\ MaxPuts \in Nat /\ MaxRelaunches \in Nat

VARIABLES
  file,    \* the settings that a start begins with
  rows,    \* llm_config: saved settings, "" where there is no row
  config,  \* app.config, that the primary client reads
  made,    \* the clients made for the fast model; the last one is _fast_client
  router,  \* the client that router and diagnoser were given: one of made, 0 the primary
  todo,    \* the assignments that a request has still to do
  call,    \* of each caller: its step and what it has read
  used, month, \* token_meter by month, and the month
  spent,   \* history: what the answers have used
  lost,    \* history: a consume has overwritten another
  cleared, \* history: settings were cleared in this process
  doubled, \* history: two callers made a client at the same time
  mixed,   \* history: a request was overlapped by a reader or cut by a kill
  calls, puts, relaunches

llmVars == <<file, rows, config, made, router, todo, call, used, month, spent, lost,
             cleared, doubled, mixed, calls, puts, relaunches>>
meterVars == <<used, month, spent, lost>>
flags     == <<cleared, doubled, mixed>>
bounds    == <<calls, puts, relaunches>>

Unset  == [f \in Fields |-> ""]
Shared == Unset   \* a client that still reads app.config
Resting == [at |-> "none", via |-> 0, fast |-> FALSE, name |-> "", server |-> "", key |-> "",
            model |-> "", tokens |-> 0, in |-> 0, read |-> 0]

FastName(c)  == IF c.fast # "" THEN c.fast ELSE c.main
Settings(n)  == IF n = 0 \/ made[n] = Shared THEN config ELSE made[n]

(* _load_llm_config_from_db. *)
Loaded == [f \in Fields |-> IF rows[f] # "" THEN rows[f] ELSE file[f]]

(* The router asks for its client at the start; there is one if the names differ.  *)
MadeFor(c) == IF FastName(c) # c.main THEN <<[c EXCEPT !.main = FastName(c)]>> ELSE << >>

LlmIdle ==
  /\ file \in Files /\ rows = Unset /\ config = file /\ made = MadeFor(file)
  /\ router = Len(made) /\ todo = << >> /\ call = [c \in Callers |-> Resting]
  /\ used = [m \in 1 .. MaxMonth |-> 0] /\ month = 1 /\ spent = used /\ lost = FALSE
  /\ cleared = FALSE /\ doubled = FALSE /\ mixed = FALSE
  /\ calls = 0 /\ puts = 0 /\ relaunches = 0

---------------------------------------------------------------------------
(* Requests. *)

Request(writes) == /\ todo = << >> /\ puts < MaxPuts /\ puts' = puts + 1 /\ todo' = writes
                   /\ UNCHANGED <<file, rows, config, made, router, call, calls, relaunches>>
                   /\ UNCHANGED <<meterVars, flags>>

PutCredentials(p) == Request(<< <<"row", "key", p>>, <<"row", "server", p>>,
                                <<"memory", "server", p>>, <<"memory", "key", p>> >>)

PutModels(m, f) ==
  Request(IF f = "" THEN << <<"row", "main", m>>, <<"memory", "main", m>> >>
          ELSE << <<"row", "main", m>>, <<"row", "fast", f>>,
                  <<"memory", "main", m>>, <<"memory", "fast", f>> >>)

ClearCredentials == Request(<< <<"clear", "", "">>, <<"memory", "server", "">>,
                               <<"memory", "key", "">> >>)

(* The next assignment: a row in a transaction of its own, or a field.           *)
Assign ==
  /\ todo # << >> /\ todo' = Tail(todo)
  /\ LET what  == Head(todo)[1]
         field == Head(todo)[2]
         value == Head(todo)[3] IN
     /\ rows' = CASE what = "row"   -> [rows EXCEPT ![field] = value]
                  [] what = "clear" -> Unset
                  [] OTHER          -> rows
     /\ config' = IF what = "memory" THEN [config EXCEPT ![field] = value] ELSE config
     /\ cleared' = (cleared \/ what = "clear")
  /\ mixed' = (mixed \/ \E c \in Callers : call[c].at = "rest")
  /\ UNCHANGED <<file, made, router, call, doubled, meterVars, bounds>>

(* The end of the process and its next start.                                *)
Relaunch == /\ relaunches < MaxRelaunches /\ relaunches' = relaunches + 1
            /\ config' = Loaded /\ made' = MadeFor(Loaded) /\ router' = Len(made')
            /\ todo' = << >> /\ call' = [c \in Callers |-> Resting]
            /\ mixed' = (mixed \/ todo # << >>) /\ cleared' = FALSE /\ doubled' = FALSE
            /\ UNCHANGED <<file, rows, meterVars, calls, puts>>

NewMonth == /\ month < MaxMonth /\ month' = month + 1
            /\ UNCHANGED <<file, rows, config, made, router, todo, call, used, spent, lost>>
            /\ UNCHANGED <<flags, bounds>>

---------------------------------------------------------------------------
(* Calls. *)

Becomes(c, new) == call' = [call EXCEPT ![c] = new]
KeepSettings == UNCHANGED <<file, rows, router, todo, cleared, puts, relaunches>>

(* The primary client for a conversation, the router's, or one by the task.      *)
Call(c) ==
  /\ call[c].at = "none" /\ calls < MaxCalls /\ calls' = calls + 1
  /\ \/ Becomes(c, [Resting EXCEPT !.at = "server"])
     \/ Becomes(c, [Resting EXCEPT !.at = "server", !.via = router, !.fast = TRUE])
     \/ Becomes(c, [Resting EXCEPT !.at = "lookup", !.fast = TRUE])
  /\ UNCHANGED <<config, made, doubled, mixed, meterVars>> /\ KeepSettings

GetClient(c) ==
  /\ call[c].at = "lookup"
  /\ IF made # << >> THEN Becomes(c, [call[c] EXCEPT !.at = "server", !.via = Len(made)])
     ELSE IF FastName(config) = config.main THEN Becomes(c, [call[c] EXCEPT !.at = "server"])
     ELSE Becomes(c, [call[c] EXCEPT !.at = "make", !.name = FastName(config)])
  /\ UNCHANGED <<config, made, doubled, mixed, calls, meterVars>> /\ KeepSettings

Making == {c \in Callers : call[c].at \in {"make", "copy", "name"}}

(* Three assignments to _fast_client and to what it then is.                    *)
MakeClient(c) ==
  /\ call[c].at = "make" /\ made' = Append(made, Shared)
  /\ Becomes(c, [call[c] EXCEPT !.at = "copy"])
  /\ doubled' = (doubled \/ Making # {c})
  /\ UNCHANGED <<config, mixed, calls, meterVars>> /\ KeepSettings

CopyConfig(c) ==
  /\ call[c].at = "copy" /\ made' = [made EXCEPT ![Len(made)] = config]
  /\ Becomes(c, [call[c] EXCEPT !.at = "name"]) /\ mixed' = (mixed \/ todo # << >>)
  /\ UNCHANGED <<config, doubled, calls, meterVars>> /\ KeepSettings

NameModel(c) ==
  /\ call[c].at = "name"
  /\ IF made[Len(made)] = Shared
     THEN config' = [config EXCEPT !.main = call[c].name] /\ UNCHANGED made
     ELSE made' = [made EXCEPT ![Len(made)].main = call[c].name] /\ UNCHANGED config
  /\ Becomes(c, [call[c] EXCEPT !.at = "server", !.via = Len(made)])
  /\ UNCHANGED <<doubled, mixed, calls, meterVars>> /\ KeepSettings

ReadServer(c) ==
  /\ call[c].at = "server"
  /\ Becomes(c, [call[c] EXCEPT !.at = "rest", !.server = Settings(call[c].via).server])
  /\ mixed' = (mixed \/ todo # << >>)
  /\ UNCHANGED <<config, made, doubled, calls, meterVars>> /\ KeepSettings

WithinBudgetOfUsed(u) == u <= Cap   \* Mutant: the request itself is not counted

BudgetAllows(u) == u + Input + Reserve <= Cap

(* Not configured or over budget, the call raises.                              *)
ReadRest(c) ==
  /\ call[c].at = "rest"
  /\ LET s     == Settings(call[c].via)
         model == IF call[c].fast THEN FastName(s) ELSE s.main IN
     IF "" \in {call[c].server, s.key, model} \/ ~BudgetAllows(used[month]) THEN Becomes(c, Resting)
     ELSE Becomes(c, [call[c] EXCEPT !.at = "sent", !.key = s.key, !.model = model])
  /\ UNCHANGED <<config, made, doubled, mixed, calls, meterVars>> /\ KeepSettings

(* 401 for another model than the client's main one: that one is asked.          *)
Unauthorized(c) ==
  /\ call[c].at = "sent" /\ call[c].fast /\ call[c].model # Settings(call[c].via).main
  /\ Becomes(c, [call[c] EXCEPT !.fast = FALSE, !.model = Settings(call[c].via).main])
  /\ UNCHANGED <<config, made, doubled, mixed, calls, meterVars>> /\ KeepSettings

CallFails(c) == /\ call[c].at = "sent" /\ Becomes(c, Resting)
                /\ UNCHANGED <<config, made, doubled, mixed, calls, meterVars>> /\ KeepSettings

(* An answer, to its end or cancelled: what there is of it counts.              *)
ModelAnswers(c) == /\ call[c].at = "sent"
             /\ \E out \in 1 .. MaxOut :
                  Becomes(c, [Resting EXCEPT !.at = "consume", !.tokens = Input + out])
             /\ UNCHANGED <<config, made, doubled, mixed, calls, meterVars>> /\ KeepSettings

ReadMeter(c) == /\ call[c].at = "consume"
                /\ Becomes(c, [call[c] EXCEPT !.at = "save", !.in = month, !.read = used[month]])
                /\ UNCHANGED <<config, made, doubled, mixed, calls, meterVars>> /\ KeepSettings

SaveMeter(c) ==
  /\ call[c].at = "save" /\ Becomes(c, Resting)
  /\ LET m == call[c].in IN /\ used' = [used EXCEPT ![m] = call[c].read + call[c].tokens]
                            /\ spent' = [spent EXCEPT ![m] = @ + call[c].tokens]
                            /\ lost' = (lost \/ used[m] # call[c].read)
  /\ UNCHANGED <<month, config, made, doubled, mixed, calls>> /\ KeepSettings

LlmNext == \/ Assign \/ Relaunch \/ NewMonth \/ ClearCredentials
           \/ \E p \in Pairs : PutCredentials(p)
           \/ \E m \in Models, f \in Models \cup {""} : PutModels(m, f)
           \/ \E c \in Callers :
                \/ Call(c) \/ GetClient(c) \/ MakeClient(c) \/ CopyConfig(c) \/ NameModel(c)
                \/ ReadServer(c) \/ ReadRest(c) \/ Unauthorized(c) \/ CallFails(c) \/ ModelAnswers(c)
                \/ ReadMeter(c) \/ SaveMeter(c)
---------------------------------------------------------------------------
(* The meter shows no more than was used, and all of it unless two answers were     *)
(* counted at once; as long as it does, the calls that a check has let through        *)
(* exceed the cap by no more than what all callers together may use at one time.      *)
MeterSound ==
  \A m \in 1 .. MaxMonth :
    /\ used[m] <= spent[m]
    /\ ~lost => /\ used[m] = spent[m]
                /\ spent[m] <= (IF BudgetAllows(0) THEN Cap - Reserve - Input ELSE 0)
                                + Cardinality(Callers) * (Input + MaxOut)

(* Between requests the runtime works with what the next start would load, unless    *)
(* its settings were cleared (their rows go, the names of the models stay, and the    *)
(* file's come back at the start) or two callers made the fast client at once (the    *)
(* shared settings may then get its model's name).                             *)
SettingsSaved ==
  todo = << >> /\ ~doubled =>
    \A f \in Fields : rows[f] # "" \/ ~cleared => config[f] = Loaded[f]

(* No call is sent to one server with the key of another, unless a request changed    *)
(* them while they were read or was killed between its rows, or a client was made      *)
(* twice and changed under a call.                                           *)
KeyOfServer ==
  ~mixed /\ ~doubled =>
    /\ \A c \in Callers : call[c].at = "sent" => call[c].server = call[c].key
    /\ \A n \in DOMAIN made : Belongs(made[n].key, made[n].server)

LlmSound == MeterSound /\ SettingsSaved /\ KeyOfServer
=============================================================================
