------------------------------ MODULE ToolProbe ------------------------------
(***************************************************************************)
(* Probing a tool (core/tool_probe.py) and what is shown of it              *)
(* (core/tool_installer.py, _build_view): where its binary is found, whether *)
(* it answers in time, how versions compare, which status a view gets.      *)
(*                                                                         *)
(* A place that is searched holds nothing, a store alias, a file that may    *)
(* not be executed, or a good binary; directories are sequences of places,    *)
(* a versioned directory giving two of them.  Time is in steps of the        *)
(* smallest timeout, PROBE_HEALTH_MIN_TIMEOUT_FLOOR.                        *)
(***************************************************************************)
EXTENDS Integers, Sequences, FiniteSets

CONSTANTS MaxDirs,      \* bound on the places of a list of directories
          MaxSegments,  \* bound on the segments of a version
          MaxRetries,   \* bound on the retries asked for
          MaxTimeout,   \* bound on the timeouts asked for
          ListTimeout,  \* PROBE_TIMEOUT_LIST
          Budget        \* PROBE_HEALTH_TOTAL_BUDGET

ASSUME ProbeConstants == /\ MaxDirs \in Nat /\ MaxSegments \in Nat
                         /\ MaxRetries \in Nat /\ MaxTimeout \in Nat \ {0}
                         /\ ListTimeout \in Nat \ {0} /\ Budget \in Nat

Places == {"none", "alias", "noexec", "good"}
UpTo(S, n) == UNION {[1 .. k -> S] : k \in 0 .. n}
Holds(dirs) == {dirs[i] : i \in DOMAIN dirs}

Worlds == [override : Places \cup {"missing", "unset"}, node : BOOLEAN, nvm : {"none", "good"},
           extra : UpTo(Places, MaxDirs), which : Places, path : UpTo(Places, MaxDirs),
           slow : {"none", "good"}, whereis : {"none", "good"}]

---------------------------------------------------------------------------
(* Where the binary is.                                                     *)

(* A directory scan stops at the first good place; what it passed before      *)
(* counts only when no place anywhere is good.                              *)
Scan(dirs) == IF "good" \in Holds(dirs) THEN {"good"} ELSE Holds(dirs)

(* The rungs of the ladder below the override.  The quick check leaves out    *)
(* what needs a process, the login shell, npm (slow) and whereis, and is not   *)
(* given the directories of an installation (extra).                         *)
Slow(w, quick)    == IF quick THEN {} ELSE {w.slow}
Whereis(w, quick) == IF quick THEN {"none"} ELSE {w.whereis}

RungsQuickFirst(w, quick) ==   \* Mutant: what was just installed is searched last
  << IF w.node THEN {w.nvm} ELSE {"none"}, {w.which},
     Scan(w.path) \cup Slow(w, quick),
     Whereis(w, quick),
     IF quick THEN {"none"} ELSE Scan(w.extra) >>

Rungs(w, quick) ==
  << IF w.node THEN {w.nvm} ELSE {"none"},
     IF quick THEN {"none"} ELSE Scan(w.extra),
     {w.which},
     Scan(w.path) \cup Slow(w, quick),
     Whereis(w, quick) >>

(* The first rung with a good place wins; without one an alias is reported     *)
(* before a file that may not be executed.                                   *)
Ladder(w, quick) ==
  LET rungs == Rungs(w, quick)
      held  == UNION Holds(rungs)
      good  == {i \in DOMAIN rungs : "good" \in rungs[i]}
  IN  [what |-> CASE good # {} -> "good"
                  [] good = {} /\ "alias" \in held -> "alias"
                  [] good = {} /\ "alias" \notin held /\ "noexec" \in held -> "noexec"
                  [] OTHER -> "none",
       rung |-> IF good = {} THEN 0 ELSE CHOOSE i \in good : \A j \in good : i <= j]

(* An override is final for a probe, and only a hint for the quick check.     *)
Resolve(w, strict, quick) ==
  IF w.override # "unset" /\ (strict \/ w.override = "good")
  THEN w.override ELSE Ladder(w, quick).what

(* find_binary_simple, which sub-agents and commands ask.                    *)
QuickFinds(w) == Resolve(w, FALSE, TRUE) = "good"

(* The first part of a probe: found, and installed.                         *)
ProbeFound(w)     == w.override # "missing" /\ Resolve(w, TRUE, FALSE) # "none"
ProbeInstalled(w) == Resolve(w, TRUE, FALSE) = "good"

---------------------------------------------------------------------------
(* Versions: numeric segments, and whether there is a prerelease suffix.      *)

Versions == [core : UpTo(0 .. 1, MaxSegments), pre : BOOLEAN]

Segment(v, i) == IF i <= Len(v.core) THEN v.core[i] ELSE 0

LongerOf(a, b) == IF Len(a.core) < Len(b.core) THEN b ELSE a

(* The first segment that differs decides, missing ones count as zero; with   *)
(* equal segments a prerelease is lower.                                     *)
CompareVersions(a, b) ==
  LET differ == {i \in DOMAIN LongerOf(a, b).core : Segment(a, i) # Segment(b, i)}
      first  == CHOOSE i \in differ : \A j \in differ : i <= j
  IN  IF differ # {}
      THEN IF Segment(a, first) > Segment(b, first) THEN 1 ELSE -1
      ELSE IF a.pre = b.pre THEN 0 ELSE IF a.pre THEN -1 ELSE 1

---------------------------------------------------------------------------
(* The status of a view, from the record's and the probe's.                  *)

Problems  == {"none", "not_found", "version_unverified", "version_too_low",
              "windows_store_alias", "permission_denied", "execution_error"}
Failures  == {"version_too_low", "windows_store_alias", "permission_denied", "execution_error"}
Records   == {"none", "not_installed", "installing", "installed", "failed", "uninstalled"}
Probes    == {p \in [found : BOOLEAN, installed : BOOLEAN, problem : Problems] :
                 /\ p.installed => p.found
                 /\ ~p.found => p.problem = "not_found"
                 /\ p.problem = "none" => p.installed
                 /\ p.problem \in {"version_unverified", "version_too_low"} => p.installed
                 /\ p.problem \in {"not_found", "windows_store_alias"} => ~p.installed}

ViewStatus(record, p) ==
  LET known == record \notin {"none", "not_installed"}
      first == IF known THEN record ELSE IF p.installed THEN "installed" ELSE "not_installed"
  IN  CASE p.problem \in Failures /\ first # "installing" -> "failed"
        [] p.problem \notin Failures /\ p.installed /\ first \in {"uninstalled", "not_installed"}
             -> "installed"
        [] ~p.found /\ first = "installed" -> "uninstalled"
        [] OTHER -> first

---------------------------------------------------------------------------
(* The health check: attempts with a timeout each, all within the budget.     *)

VARIABLES sample,   \* an input of the operators above that is looked at
          asked,    \* what the check was asked: timeout, retries, grace
          attempt, elapsed,  \* _health_check's own
          answer   \* what it answered, or "none"

probeVars == <<sample, asked, attempt, elapsed, answer>>

NoSample == <<"none", {}>>
Floor    == 1
NotAsked == [timeout |-> 0, retries |-> 0, grace |-> FALSE]

(* The tool's own timeout, if it has one, before the caller's; the caller's     *)
(* number of retries, if it has one, before the tool's.  0 and -1 are none.    *)
EffectiveTimeout(own, given) == IF own > 0 THEN own ELSE IF given > 0 THEN given ELSE ListTimeout
EffectiveRetries(own, given) == IF given >= 0 THEN given ELSE own

ProbeIdle == /\ sample = NoSample
             /\ asked = NotAsked /\ attempt = 0 /\ elapsed = 0
             /\ answer = "none"

TakeSample == /\ sample = NoSample /\ asked = NotAsked
          /\ \/ \E w \in Worlds : sample' = <<"world", w>>
             \/ \E a, b, c \in Versions : sample' = <<"versions", <<a, b, c>> >>
             \/ \E r \in Records, p \in Probes : sample' = <<"view", <<r, p>> >>
          /\ UNCHANGED <<asked, attempt, elapsed, answer>>

AskHealth == /\ asked = NotAsked /\ sample = NoSample
         /\ \E own, given \in 0 .. MaxTimeout, r \in 0 .. MaxRetries, s \in -1 .. MaxRetries,
               grace \in BOOLEAN :
              asked' = [timeout |-> EffectiveTimeout(own, given),
                        retries |-> EffectiveRetries(r, s), grace |-> grace]
         /\ UNCHANGED <<sample, attempt, elapsed, answer>>

Asking    == asked # NotAsked /\ answer = "none"
Remaining == Budget - elapsed
MayTry    == attempt <= asked.retries /\ Remaining >= Floor
Least(a, b) == IF a < b THEN a ELSE b

(* The first retry waits twice as long, if grace is asked for.              *)
ThisTimeout == Least(IF attempt = 1 /\ asked.grace THEN 2 * asked.timeout ELSE asked.timeout,
                     Remaining)

TimesOutUncut == \* Mutant: the timeout is not cut to what is left of the budget
            /\ Asking /\ MayTry /\ attempt' = attempt + 1
            /\ elapsed' = elapsed + (IF attempt = 1 /\ asked.grace THEN 2 * asked.timeout
                                     ELSE asked.timeout)
            /\ UNCHANGED <<sample, asked, answer>>

TimesOut == /\ Asking /\ MayTry
            /\ elapsed' = elapsed + ThisTimeout /\ attempt' = attempt + 1
            /\ UNCHANGED <<sample, asked, answer>>

(* It exits with an error, which is tried again while attempts are left.     *)
ExitsBadly == /\ Asking /\ MayTry
              /\ \E d \in 0 .. ThisTimeout - 1 : elapsed' = elapsed + d
              /\ attempt' = attempt + 1
              /\ answer' = IF attempt < asked.retries THEN "none" ELSE "version_unverified"
              /\ UNCHANGED <<sample, asked>>

(* It cannot be started, prints no version, or prints one: that is final.     *)
Answers == /\ Asking /\ MayTry
           /\ \E d \in 0 .. ThisTimeout - 1 : elapsed' = elapsed + d
           /\ answer' \in {"permission_denied", "execution_error", "version_unverified",
                            "version_too_low", "healthy"}
           /\ UNCHANGED <<sample, asked, attempt>>

GivesUp == /\ Asking /\ ~MayTry /\ answer' = "version_unverified"
           /\ UNCHANGED <<sample, asked, attempt, elapsed>>

ProbeNext == TakeSample \/ AskHealth \/ TimesOut \/ ExitsBadly \/ Answers \/ GivesUp
---------------------------------------------------------------------------
(* What probing must keep.                                                  *)

(* What the quick check finds, a probe finds installed, unless an override      *)
(* names something else: a sub-agent that runs is never shown as missing.      *)
QuickAgrees(w) == QuickFinds(w) => \/ ProbeInstalled(w)
                                   \/ w.override \notin {"unset", "good"}

(* A good binary anywhere on the ladder is found, and the one that was just     *)
(* installed before an older one, whatever unusable files lie before it.       *)
FindsGood(w) ==
  LET places == Holds(w.extra) \cup Holds(w.path) \cup {w.which, w.slow, w.whereis} IN
  /\ Ladder(w, FALSE).what = "good" <=> "good" \in places \/ (w.node /\ w.nvm = "good")
  /\ "good" \in Holds(w.extra) /\ ~(w.node /\ w.nvm = "good") => Ladder(w, FALSE).rung = 2
  /\ ProbeInstalled(w) => ProbeFound(w)

(* Versions are totally preordered, so that an update is never offered in both  *)
(* directions or in a circle.                                                *)
VersionsOrdered(a, b, c) ==
  /\ CompareVersions(a, b) = -CompareVersions(b, a)
  /\ CompareVersions(a, b) >= 0 /\ CompareVersions(b, c) >= 0 => CompareVersions(a, c) >= 0
  /\ CompareVersions(a, b) = 0 /\ CompareVersions(b, c) = 0 => CompareVersions(a, c) = 0

(* A view never shows as installed what cannot be used or is not there, nor     *)
(* washes a failure away, nor hides an installation under way.                *)
ViewHonest(r, p) ==
  /\ ViewStatus(r, p) = "installed" => p.found /\ p.problem \notin Failures /\ r # "failed"
  /\ r = "installing" <=> ViewStatus(r, p) = "installing"

(* The operators of a probe agree with each other on every input.            *)
ProbesAgree ==
  /\ sample[1] = "world" => QuickAgrees(sample[2]) /\ FindsGood(sample[2])
  /\ sample[1] = "versions" => VersionsOrdered(sample[2][1], sample[2][2], sample[2][3])
  /\ sample[1] = "view" => ViewHonest(sample[2][1], sample[2][2])

(* A probe answers within its budget, however often it is asked to retry and    *)
(* however long it may wait, and tries at most as often as it was asked.       *)
WithinBudget == elapsed <= Budget /\ attempt <= asked.retries + 1

(* Both of them.                                                            *)
ProbeSound == ProbesAgree /\ WithinBudget
=============================================================================
