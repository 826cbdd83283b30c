------------------------------ MODULE SubAgents ------------------------------
(***************************************************************************)
(* Sub-agents (core/subagent.py): the registry of providers and the calls of   *)
(* command line programs, by code tasks (core/task_executor.py), by the        *)
(* command /qoder and by its streaming form (commands/builtin.py), which keep   *)
(* a row of the task table.                                                 *)
(***************************************************************************)
EXTENDS Integers

CONSTANTS Calls,       \* the calls, of any kind
          MaxChanges,  \* bound on registrations and removals at run time
          MaxLines     \* bound on the lines of an output that is parsed

ASSUME SubAgentConstants == MaxChanges \in Nat /\ MaxLines \in Nat

Clis == {"codex", "qoder", "claude-code"}

---------------------------------------------------------------------------
(* What is read of an output.  A line is an event, one of a text said, or of    *)
(* the final result, a line of a spinner, of anything else, or blank.          *)

Lines   == {"event", "says", "ends", "spin", "note", "blank"}
Outputs == UNION {[1 .. n -> Lines] : n \in 0 .. MaxLines}

(* A reply is the lines that are taken for it, in the order of the output.       *)
Those(out, kinds) == {i \in DOMAIN out : out[i] \in kinds}
Latest(lines)     == CHOOSE i \in lines : \A j \in lines : j <= i
Text == {"spin", "note"}

(* codex: the last thing said or the final result, whichever is later.          *)
CodexReply(out) ==
  LET said == Those(out, {"says", "ends"}) IN
  IF said # {} THEN {Latest(said)} ELSE Those(out, Text)

(* claude: the last result, or all that was said.                            *)
ClaudeReply(out) ==
  LET ends == Those(out, {"ends"})
      says == Those(out, {"says"}) IN
  IF ends # {} THEN {Latest(ends)} ELSE IF says # {} THEN says ELSE Those(out, Text)

(* qoder prints no events: all but the lines of spinners.                     *)
QoderReply(out) == Those(out, Lines \ {"spin", "blank"})

---------------------------------------------------------------------------
VARIABLES
  regs,    \* the names in _providers
  dflt,    \* _default_provider
  booted, changes,
  call,    \* of each call: kind, stage, provider, whether it succeeded
  proc,    \* its process: none, live, zero, bad (the exit codes), killed
  row,     \* its task: none, pending, running, completed, failed, cancelled
  left,    \* history: calls given up with their process or row as they were
  output   \* what the program that ended well has written, line by line

agentVars == <<regs, dflt, booted, changes, call, proc, row, left, output>>

NoCall == [kind |-> "none", at |-> "idle", prov |-> "none", won |-> FALSE]

(* AgentApp.__init__: in-process first, as the default; then what the            *)
(* configuration enables and the PATH has.                                   *)
AgentsIdle ==
  /\ \E on \in SUBSET Clis : regs = {"in-process"} \cup on
  /\ dflt = "in-process" /\ booted = FALSE /\ changes = 0
  /\ call = [c \in Calls |-> NoCall] /\ proc = [c \in Calls |-> "none"]
  /\ row = [c \in Calls |-> "none"] /\ left = {} /\ output = << >>

---------------------------------------------------------------------------
(* The registry; every change is made under its lock.                        *)

KeepCalls == UNCHANGED <<call, proc, row, left, output>>

CanBuild(n) == n \in Clis   \* build_provider_by_name knows no other

(* The first of the dictionary: in-process while it is there, as it came first.     *)
NewDefault(names) == IF "in-process" \in names THEN {"in-process"}
                     ELSE IF names = {} THEN {"none"} ELSE names

(* refresh_from_tools, once at start-up: what is installed and enabled is        *)
(* registered if it can be built, managed programs that are not are removed.     *)
Refresh == /\ ~booted /\ booted' = TRUE
           /\ \E desired \in SUBSET (Clis \cup {"unknown"}) :
                /\ regs' = {n \in regs : n \in desired \/ n \notin Clis}
                             \cup {n \in desired \ regs : CanBuild(n)}
                /\ dflt' \in IF dflt \in regs' THEN {dflt} ELSE NewDefault(regs')
           /\ UNCHANGED changes /\ KeepCalls

Register(n) == /\ booted /\ changes < MaxChanges /\ changes' = changes + 1
               /\ regs' = regs \cup {n}
               /\ dflt' = IF dflt = "none" THEN n ELSE dflt
               /\ UNCHANGED booted /\ KeepCalls

Unregister(n) == /\ booted /\ changes < MaxChanges /\ changes' = changes + 1
                 /\ regs' = regs \ {n}
                 /\ dflt' \in IF dflt = n THEN NewDefault(regs') ELSE {dflt}
                 /\ UNCHANGED booted /\ KeepCalls

---------------------------------------------------------------------------
(* Calls. *)

KeepRegs      == UNCHANGED <<regs, dflt, booted, changes, output>>
To(c, place)  == call' = [call EXCEPT ![c].at = place]
Won(c, b)     == call' = [call EXCEPT ![c].at = "result", ![c].won = b]
Begin(c, kind, place, prov) ==
  call' = [call EXCEPT ![c] = [kind |-> kind, at |-> place, prov |-> prov, won |-> FALSE]]
At(c, place)  == call[c].at = place

(* The database may refuse the row, or its first change; the call goes on.       *)
OpenRow(c) == \E s \in {"none", "pending", "running"} : row' = [row EXCEPT ![c] = s]
Cas(c, s)  == row' = [row EXCEPT ![c] = IF @ = "running" THEN s ELSE @]

CodeProvider == IF "qoder" \in regs THEN "qoder"
                ELSE IF "codex" \in regs THEN "codex"
                ELSE IF "in-process" \in regs THEN "in-process" ELSE dflt

Delegate(c) == /\ booted /\ At(c, "idle") /\ Begin(c, "code", "lookup", CodeProvider)
               /\ UNCHANGED <<proc, row, left>> /\ KeepRegs

Command(c) == /\ booted /\ At(c, "idle") /\ "qoder" \in regs
              /\ Begin(c, "command", "lookup", "qoder") /\ OpenRow(c)
              /\ UNCHANGED <<proc, left>> /\ KeepRegs

(* The stream looks for the program only, not for the provider.               *)
Stream(c) == /\ booted /\ At(c, "idle")
             /\ Begin(c, "stream", "spawn", "qoder") /\ OpenRow(c)
             /\ UNCHANGED <<proc, left>> /\ KeepRegs

(* The registry may have changed since the name was chosen; a provider that was   *)
(* found is used to the end.                                                 *)
LookUpProvider(c) ==
  /\ At(c, "lookup")
  /\ IF call[c].prov \notin regs THEN Won(c, FALSE)
     ELSE To(c, IF call[c].prov = "in-process" THEN "ask" ELSE "spawn")
  /\ UNCHANGED <<proc, row, left>> /\ KeepRegs

(* in-process awaits what chat returns, which is no coroutine: the model is       *)
(* asked, and the answer is an exception.                                    *)
AskInProcess(c) == At(c, "ask") /\ Won(c, FALSE) /\ UNCHANGED <<proc, row, left>> /\ KeepRegs

(* The program is not there, or cannot be started.                           *)
SpawnFails(c) == /\ At(c, "spawn") /\ Won(c, FALSE)
                 /\ UNCHANGED <<proc, row, left>> /\ KeepRegs

Spawn(c) == /\ At(c, "spawn") /\ proc' = [proc EXCEPT ![c] = "live"]
            /\ To(c, IF call[c].kind = "stream" THEN "read" ELSE "wait")
            /\ UNCHANGED <<row, left>> /\ KeepRegs

ProcessEnds(c) == /\ proc[c] = "live"
                  /\ \E code \in {"zero", "bad"} : proc' = [proc EXCEPT ![c] = code]
                  /\ UNCHANGED <<call, row, left>> /\ KeepRegs

(* communicate returns when the process has ended; what it has written is read     *)
(* for a reply.                                                             *)
Communicated(c) == /\ At(c, "wait") /\ proc[c] # "live" /\ Won(c, proc[c] = "zero")
                   /\ IF proc[c] = "zero" THEN output' \in Outputs ELSE UNCHANGED output
                   /\ UNCHANGED <<proc, row, left, regs, dflt, booted, changes>>

TimesOutLive(c) ==   \* Mutant: the program is not killed
  /\ At(c, "wait") /\ Won(c, FALSE) /\ UNCHANGED <<proc, row, left>> /\ KeepRegs

KillIfLive(c) == proc' = [proc EXCEPT ![c] = IF @ = "live" THEN "killed" ELSE @]

CallTimesOut(c) == /\ At(c, "wait") /\ KillIfLive(c) /\ Won(c, FALSE)
                   /\ UNCHANGED <<row, left>> /\ KeepRegs

(* Any other exception, in the wait or in reading a line, leaves the process as   *)
(* it is.                                                                   *)
WaitFails(c) == /\ call[c].at \in {"wait", "read"} /\ Won(c, FALSE) /\ left' = left \cup {c}
                /\ UNCHANGED <<proc, row>> /\ KeepRegs

(* The caller's last steps: a row for the command and the stream, which the       *)
(* database may refuse.                                                     *)
Settle(c) == /\ At(c, "result") /\ To(c, "done")
             /\ IF call[c].kind = "code" THEN UNCHANGED <<row, left>>
                ELSE \/ Cas(c, IF call[c].won THEN "completed" ELSE "failed") /\ UNCHANGED left
                     \/ left' = left \cup {c} /\ UNCHANGED row
             /\ output' = << >> /\ UNCHANGED <<proc, regs, dflt, booted, changes>>

(* The stream yields each line; whoever reads it may stop there, which no         *)
(* handler of it sees.                                                      *)
GivenUp(c) == /\ call[c].at \in {"read", "late"} /\ To(c, "done") /\ left' = left \cup {c}
              /\ UNCHANGED <<proc, row>> /\ KeepRegs

(* The timeout of the stream begins with the end of its output.               *)
OutputEnds(c) == /\ At(c, "read") /\ To(c, "reap")
                 /\ UNCHANGED <<proc, row, left>> /\ KeepRegs

Reaped(c) == /\ At(c, "reap") /\ proc[c] # "live" /\ Won(c, proc[c] = "zero")
             /\ UNCHANGED <<proc, row, left>> /\ KeepRegs

ReapTimesOut(c) == /\ At(c, "reap") /\ proc[c] = "live" /\ KillIfLive(c) /\ To(c, "late")
                   /\ UNCHANGED <<row, left>> /\ KeepRegs

(* The row follows what is yielded about the timeout.                         *)
Late(c) == /\ At(c, "late") /\ Won(c, FALSE) /\ UNCHANGED <<proc, row, left>> /\ KeepRegs

CancelTask(c) == /\ row[c] \in {"pending", "running"} /\ row' = [row EXCEPT ![c] = "cancelled"]
                 /\ UNCHANGED <<call, proc, left>> /\ KeepRegs

CallStep(c) == \/ Delegate(c) \/ Command(c) \/ Stream(c) \/ LookUpProvider(c)
               \/ AskInProcess(c) \/ SpawnFails(c) \/ Spawn(c) \/ ProcessEnds(c)
               \/ Communicated(c) \/ CallTimesOut(c) \/ WaitFails(c) \/ Settle(c)
               \/ GivenUp(c) \/ OutputEnds(c) \/ Reaped(c) \/ ReapTimesOut(c) \/ Late(c)
               \/ CancelTask(c)

AgentsNext == \/ Refresh \/ (\E n \in Clis : Register(n) \/ Unregister(n))
              \/ (\E c \in Calls : CallStep(c))
---------------------------------------------------------------------------
(* A process lives only while a call waits for it, and a row is running only      *)
(* while its call goes on, except where the call was given up (a reader of the    *)
(* stream that stops, an exception in the wait, a database that refuses).        *)
NothingLeft ==
  \A c \in Calls :
    /\ proc[c] = "live" /\ c \notin left => call[c].at \in {"wait", "read", "reap"}
    /\ row[c] = "running" /\ c \notin left => call[c].at \notin {"idle", "done"}

(* What is reported as done was done by a program that ended well, whatever was    *)
(* registered and removed meanwhile; and the default can always be found.         *)
SuccessIsReal ==
  /\ \A c \in Calls : call[c].won \/ row[c] = "completed" => proc[c] = "zero"
  /\ dflt \in regs

(* An answer is found wherever it stands in an output, and what is taken for it     *)
(* is never an event or a spinner while there is one.                           *)
RepliesFound ==
  /\ \A i \in DOMAIN output :
       output[i] \in {"says", "ends"} /\ (\A j \in DOMAIN output : j > i => output[j] \notin {"says", "ends"})
         => CodexReply(output) = {i} /\ (output[i] = "ends" => ClaudeReply(output) = {i})
  /\ \A i \in DOMAIN output : output[i] = "says" /\ (\A j \in DOMAIN output : output[j] # "ends")
                                => i \in ClaudeReply(output)

SubAgentsSound == NothingLeft /\ SuccessIsReal /\ RepliesFound
=============================================================================
