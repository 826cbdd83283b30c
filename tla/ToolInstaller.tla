---------------------------- MODULE ToolInstaller ----------------------------
(***************************************************************************)
(* Installing, removing, probing, enabling and disabling a tool            *)
(* (core/tool_installer.py with core/tool_models.py and the sub-agent its   *)
(* callbacks register, core/subagent.py).                                  *)
(*                                                                         *)
(* Every operation is a coroutine of the web server's event loop; between   *)
(* two awaits it runs alone.  One action is what a coroutine does from one   *)
(* await to the next, and a call of ToolDatabase, which runs in a thread,    *)
(* takes effect within the action that awaits it.  Tools share no record,    *)
(* no mark and no provider, so one tool is modelled, and of the machine only    *)
(* its binary.                                                             *)
(***************************************************************************)
EXTENDS Integers

CONSTANTS Jobs,        \* coroutines that may be under way at once
          Kinds,       \* the operations requested
          Found,       \* what a probe can say of a binary that is there
          MaxJobs,     \* bound on the operations
          MaxOutside,  \* bound on changes of the machine and the configuration
          MaxRestarts  \* bound on restarts

AllKinds  == {"install", "uninstall", "probe", "enable", "disable", "reload", "view"}
AllFound  == {"good", "unverified", "broken", "noexec", "hidden"}

ASSUME ToolConstants == /\ Kinds \subseteq AllKinds
                        /\ Found \subseteq AllFound
                        /\ MaxJobs \in Nat /\ MaxOutside \in Nat /\ MaxRestarts \in Nat

Binaries  == Found \cup {"absent"}
Unknown   == "unknown"                 \* nothing in the cache, or too old
Statuses  == {"not_installed", "installing", "installed", "failed", "uninstalled"}
NoRow     == [st |-> "none", on |-> TRUE]
Rows      == [st : Statuses \cup {"none"}, on : BOOLEAN]
Idle      == [op |-> "none", at |-> "idle", seen |-> NoRow, res |-> Unknown]
Working   == {"install", "remove"}     \* what holds the mark of _installing

VARIABLES
  row,      \* the row of tool_installations: status and enabled
  bin,      \* the tool's binary on the machine
  marked,   \* the tool is in _installing
  reg,      \* its provider is registered with the SubagentManager
  cache,    \* _probe_cache, for a search with and without the extra directories
  job,      \* of a coroutine: what it does, where it is, the record it has read,
            \* and what its probe has found
  overlap,  \* an uninstall has entered _installing while the tool was in it
  forsaken, \* "installing" was written by, or left to, no installation under way
  jobs, outside, restarts

history == <<overlap, forsaken>>
bounds  == <<jobs, outside, restarts>>
tvars   == <<row, bin, marked, reg, cache, job, history, bounds>>

TInit == /\ row = NoRow /\ bin \in Binaries
         /\ marked = FALSE /\ reg = FALSE
         /\ cache = [x \in BOOLEAN |-> Unknown]
         /\ job = [t \in Jobs |-> Idle]
         /\ overlap = FALSE /\ forsaken = FALSE
         /\ jobs = 0 /\ outside = 0 /\ restarts = 0

---------------------------------------------------------------------------
(* What the operations are made of.                                        *)

Installed(r)   == r \in {"good", "unverified", "broken", "hidden"}
Healthy(r)     == r \in {"good", "hidden"}
RealFailure(r) == r \in {"broken", "noexec"}

(* A prefix of the install commands is searched only when it is passed.     *)
Located(extra) == IF bin = "hidden" /\ ~extra THEN "absent" ELSE bin
Extra(t)       == job[t].op \notin {"uninstall", "remove"}

Goto(t, stage) == job' = [job EXCEPT ![t].at = stage]
Return(t)      == job' = [job EXCEPT ![t] = Idle]
Rewrite(r)     == row' = r
WithStatus(s)  == [row EXCEPT !.st = s]

(* A status write makes the row when there is none.                         *)
UpdateStatus(s)  == Rewrite(WithStatus(s))
UpdateEnabled(b) == Rewrite([st |-> IF row.st = "none" THEN "not_installed" ELSE row.st, on |-> b])
Upsert(s)        == Rewrite([st |-> s, on |-> TRUE])

Invalidate == cache' = [x \in BOOLEAN |-> Unknown]

---------------------------------------------------------------------------
(* Requests.  The checks before the first await are part of the request; a   *)
(* refused one changes nothing and is left out.                             *)

Refused(k) == k \in {"install", "uninstall"} /\ marked

FirstStage == [k \in AllKinds |->
  CASE k = "install" -> "start"
    [] k = "uninstall" -> "get"
    [] k \in {"enable", "disable"} -> "switch"
    [] k = "reload" -> "merge"
    [] OTHER -> "look"]

RequestUnlocked(t, k) ==   \* Mutant: install does not look at _installing
  /\ job[t].at = "idle" /\ jobs < MaxJobs
  /\ job' = [job EXCEPT ![t] = [Idle EXCEPT !.op = k, !.at = FirstStage[k]]]
  /\ marked' = (marked \/ k = "install")
  /\ IF k = "probe" THEN Invalidate ELSE UNCHANGED cache
  /\ jobs' = jobs + 1
  /\ UNCHANGED <<row, bin, reg, history, outside, restarts>>

Request(t, k) ==
  /\ job[t].at = "idle" /\ jobs < MaxJobs /\ ~Refused(k)
  /\ job' = [job EXCEPT ![t] = [Idle EXCEPT !.op = k, !.at = FirstStage[k]]]
  /\ marked' = (marked \/ k = "install")
  /\ IF k = "probe" THEN Invalidate ELSE UNCHANGED cache
  /\ jobs' = jobs + 1
  /\ UNCHANGED <<row, bin, reg, history, outside, restarts>>

---------------------------------------------------------------------------
(* Probing, shared by all of them: the cache answers, or the machine is      *)
(* looked at and the answer is stored when it is there.                     *)

UsesCache(t) == job[t].op \in {"uninstall", "enable", "view"}

(* An uninstall that found nothing to remove ends; else it takes the mark,   *)
(* without looking at it again.                                             *)
AfterCheck(t, r) ==
  LET gone == r = "absent" /\ job[t].seen.st \in {"none", "failed", "uninstalled"} IN
  /\ job[t].op = "uninstall"
  /\ \/ /\ gone
        /\ IF job[t].seen.st = "none" THEN Return(t) ELSE Goto(t, "clear")
        /\ UNCHANGED <<marked, overlap>>
     \/ /\ ~gone
        /\ job' = [job EXCEPT ![t] = [Idle EXCEPT !.op = "remove", !.at = "cmds"]]
        /\ marked' = TRUE /\ overlap' = (overlap \/ marked)
  /\ UNCHANGED reg

(* The installation counts as done when the binary can be located.          *)
AfterProbe(t, r) ==
  /\ \/ /\ job[t].op = "install" /\ Goto(t, IF Installed(r) THEN "save" ELSE "fail")
     \/ /\ job[t].op = "remove" /\ Goto(t, "save")
     \/ /\ job[t].op = "probe" /\ Goto(t, "reread")
     \/ /\ job[t].op \in {"enable", "view"} /\ Return(t)
  /\ reg' = (reg \/ (job[t].op = "enable" /\ Installed(r) /\ ~RealFailure(r)))
  /\ UNCHANGED <<marked, overlap>>

Continue(t, r) == AfterCheck(t, r) \/ AfterProbe(t, r)

CacheHit(t) ==
  /\ job[t].at = "look" /\ UsesCache(t) /\ cache[Extra(t)] # Unknown
  /\ Continue(t, cache[Extra(t)])
  /\ UNCHANGED <<row, bin, cache, forsaken, bounds>>

Look(t) ==
  /\ job[t].at = "look"
  /\ job' = [job EXCEPT ![t].res = Located(Extra(t)), ![t].at = "looked"]
  /\ UNCHANGED <<row, bin, marked, reg, cache, history, bounds>>

Looked(t) ==
  /\ job[t].at = "looked"
  /\ cache' = [cache EXCEPT ![Extra(t)] = job[t].res]
  /\ Continue(t, job[t].res)
  /\ UNCHANGED <<row, bin, forsaken, bounds>>

---------------------------------------------------------------------------
(* install and the part of uninstall that holds the mark.                   *)

Start(t) ==
  /\ job[t].at = "start" /\ UpdateStatus("installing") /\ Goto(t, "cmds")
  /\ UNCHANGED <<bin, marked, reg, cache, history, bounds>>

(* Missing prerequisites or a command that fails; what the commands before   *)
(* it have done to the machine stays.                                       *)
CommandFails(t) ==
  /\ job[t].at = "cmds" /\ bin' \in Binaries /\ Goto(t, "fail")
  /\ UNCHANGED <<row, marked, reg, cache, history, bounds>>

CommandsDone(t) ==
  /\ job[t].at = "cmds" /\ bin' \in Binaries /\ Invalidate /\ Goto(t, "look")
  /\ UNCHANGED <<row, marked, reg, history, bounds>>

Save(t) ==
  /\ job[t].at = "save" /\ Goto(t, "callback")
  /\ UpdateStatus(IF job[t].op = "install" THEN "installed" ELSE "uninstalled")
  /\ UNCHANGED <<bin, marked, reg, cache, history, bounds>>

(* _on_tool_installed or _on_tool_uninstalled, then the notice to the platform. *)
Callback(t) ==
  /\ job[t].at = "callback" /\ reg' = (job[t].op = "install") /\ Goto(t, "end")
  /\ UNCHANGED <<row, bin, marked, cache, history, bounds>>

FailSilent(t) ==   \* Mutant: a failed installation writes nothing
  /\ job[t].at = "fail" /\ Goto(t, "end")
  /\ UNCHANGED <<row, bin, marked, reg, cache, history, bounds>>

FailElsewise(t) ==   \* Mutant: a status that is none of a record's
  /\ job[t].at = "fail" /\ UpdateStatus("error") /\ Goto(t, "end")
  /\ UNCHANGED <<bin, marked, reg, cache, history, bounds>>

Fail(t) ==
  /\ job[t].at = "fail" /\ UpdateStatus("failed") /\ Goto(t, "end")
  /\ UNCHANGED <<bin, marked, reg, cache, history, bounds>>

(* The finally of both.                                                     *)
EndAfterSuccess(t) ==   \* Mutant: only what has worked is unmarked
  /\ job[t].at = "end" /\ marked' = (marked /\ row.st = "failed") /\ Return(t)
  /\ UNCHANGED <<row, bin, reg, cache, history, bounds>>

End(t) ==
  /\ job[t].at = "end" /\ marked' = FALSE /\ Return(t)
  /\ UNCHANGED <<row, bin, reg, cache, history, bounds>>

(* An exception inside the try; the handler writes the failure, and an       *)
(* exception of that write is swallowed.                                    *)
Raise(t) ==
  /\ job[t].op \in Working /\ job[t].at \in {"start", "cmds", "look", "looked", "save"}
  /\ Goto(t, "fail")
  /\ UNCHANGED <<row, bin, marked, reg, cache, history, bounds>>

RaiseAgain(t) ==
  /\ job[t].at = "fail" /\ Goto(t, "end")
  /\ forsaken' = (forsaken \/ row.st = "installing")
  /\ UNCHANGED <<row, bin, marked, reg, cache, overlap, bounds>>

---------------------------------------------------------------------------
(* The rest of uninstall: it reads the record before it probes, and clears    *)
(* the record of a tool that is not there without taking the mark.           *)

Get(t) ==
  /\ job[t].at = "get" /\ job' = [job EXCEPT ![t].seen = row, ![t].at = "look"]
  /\ UNCHANGED <<row, bin, marked, reg, cache, history, bounds>>

Clear(t) ==
  /\ job[t].at = "clear" /\ UpdateStatus("uninstalled") /\ Goto(t, "unregister")
  /\ UNCHANGED <<bin, marked, reg, cache, history, bounds>>

Unregister(t) ==
  /\ job[t].at = "unregister" /\ reg' = FALSE /\ Return(t)
  /\ UNCHANGED <<row, bin, marked, cache, history, bounds>>

---------------------------------------------------------------------------
(* probe corrects the record it reads after it has looked.                  *)

Reread(t) ==
  /\ job[t].at = "reread" /\ job' = [job EXCEPT ![t].seen = row, ![t].at = "correct"]
  /\ UNCHANGED <<row, bin, marked, reg, cache, history, bounds>>

MarkInstalled(r, prev) == /\ Installed(r)
                          /\ prev \notin {"installed", "installing"}
                          /\ prev # "failed" \/ Healthy(r)

Correct(t) ==
  /\ job[t].at = "correct" /\ Return(t)
  /\ \/ /\ MarkInstalled(job[t].res, job[t].seen.st)
        /\ UpdateStatus("installed")
     \/ /\ job[t].res = "absent" /\ job[t].seen.st = "installed"
        /\ UpdateStatus("uninstalled")
     \/ /\ ~MarkInstalled(job[t].res, job[t].seen.st)
        /\ job[t].res # "absent" \/ job[t].seen.st # "installed"
        /\ UNCHANGED row
  /\ UNCHANGED <<bin, marked, reg, cache, history, bounds>>

---------------------------------------------------------------------------
(* enable, disable, and the entries of the platform's tools.json.            *)

Switch(t) ==
  /\ job[t].at = "switch" /\ UpdateEnabled(job[t].op = "enable")
  /\ Goto(t, IF job[t].op = "enable" THEN "look" ELSE "unregister")
  /\ UNCHANGED <<bin, marked, reg, cache, history, bounds>>

(* An entry with a known status writes it, one with another status replaces  *)
(* the record, one without a status leaves it, and one that is installed      *)
(* goes on to the provider.                                                 *)
Merge(t) ==
  /\ job[t].at = "merge"
  /\ \/ \E s \in Statuses \ {"not_installed"} :
          /\ UpdateStatus(s)
          /\ forsaken' = (forsaken \/ s = "installing")
          /\ IF s = "installed" THEN Goto(t, "enabled") /\ Invalidate
                                ELSE Return(t) /\ UNCHANGED cache
     \/ /\ Upsert("not_installed") \/ UNCHANGED row
        /\ Return(t) /\ UNCHANGED <<cache, forsaken>>
  /\ UNCHANGED <<bin, marked, reg, overlap, bounds>>

IfEnabled(t) ==
  /\ job[t].at = "enabled" /\ reg' = (reg \/ row.on) /\ Return(t)
  /\ UNCHANGED <<row, bin, marked, cache, history, bounds>>

---------------------------------------------------------------------------
(* The rest of the world.                                                   *)

(* Somebody else installs or removes the tool.                              *)
ByHand == /\ outside < MaxOutside /\ outside' = outside + 1
          /\ bin' \in Binaries \ {bin}
          /\ UNCHANGED <<row, marked, reg, cache, job, history, jobs, restarts>>

(* PUT /config rebuilds or removes the provider, whatever the record says.   *)
PutConfig == /\ outside < MaxOutside /\ outside' = outside + 1
             /\ \E on \in BOOLEAN : reg' = (on /\ (reg \/ Installed(Located(FALSE))))
             /\ UNCHANGED <<row, bin, marked, cache, job, history, jobs, restarts>>

(* An entry of the cache is older than PROBE_CACHE_TTL.                     *)
Expire == /\ cache # [x \in BOOLEAN |-> Unknown] /\ Invalidate
          /\ UNCHANGED <<row, bin, marked, reg, job, history, bounds>>

(* Providers come back from the records: what the configuration has          *)
(* registered before is removed again if its record does not ask for it.     *)
Restart == /\ restarts < MaxRestarts /\ restarts' = restarts + 1
           /\ marked' = FALSE /\ Invalidate
           /\ reg' = (row.st = "installed" /\ row.on)
           /\ job' = [t \in Jobs |-> Idle]
           /\ forsaken' = (forsaken \/ row.st = "installing")
           /\ UNCHANGED <<row, bin, overlap, jobs, outside>>

Step(t) == \/ CacheHit(t) \/ Look(t) \/ Looked(t)
           \/ Start(t) \/ CommandFails(t) \/ CommandsDone(t)
           \/ Save(t) \/ Callback(t) \/ Fail(t) \/ End(t)
           \/ Raise(t) \/ RaiseAgain(t)
           \/ Get(t) \/ Clear(t) \/ Unregister(t)
           \/ Reread(t) \/ Correct(t)
           \/ Switch(t) \/ Merge(t) \/ IfEnabled(t)

TNext == \/ \E t \in Jobs : (\E k \in Kinds : Request(t, k)) \/ Step(t)
         \/ ByHand \/ PutConfig \/ Expire \/ Restart

TSpec     == TInit /\ [][TNext]_tvars
TFairSpec == TSpec /\ \A t \in Jobs : WF_tvars(Step(t))
=============================================================================
