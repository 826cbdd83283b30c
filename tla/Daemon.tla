------------------------------- MODULE Daemon -------------------------------
(***************************************************************************)
(* The agent as a process: daemon.py starts and stops it around a pid file.    *)
(* Processes are named by their pids, which the system gives out again after    *)
(* a process has ended, to a daemon or to a stranger.  Starting and stopping    *)
(* read the file, look whether that process lives and act on it, and any two    *)
(* of these commands may overlap.  Signals and crashes come at any time.        *)
(***************************************************************************)
EXTENDS Naturals

CONSTANTS Pids,         \* the pids that are given out
          MaxLaunches,  \* bounds the starts of daemons
          MaxHalts      \* bounds the stop commands

Absent == "absent"  \* there is no file
Blank  == "blank"   \* the file was opened for writing and has nothing yet

ASSUME DaemonConstants == /\ MaxLaunches \in Nat /\ MaxHalts \in Nat
                          /\ Absent \notin Pids /\ Blank \notin Pids

VARIABLES pidFile,   \* what the pid file has
          life,      \* what the process of a pid does, "free" when there is none
          seen,      \* the pid that a starting process has read, Blank for None
          halt,      \* where the stop command is
          target,    \* the pid that it has read
          launches, halts,
          mingled    \* history: two commands were under way at once

daemonVars == <<pidFile, life, seen, halt, target, launches, halts, mingled>>

\* Phases of cmd_run: before the file is written, and after.
Entering == {"reading", "testing", "writing", "truncated"}
Running  == {"importing", "ready", "serving", "draining", "leaving"}

\* What _read_pid makes of the file: None of no file and of no number.
PidRead == IF pidFile \in Pids THEN pidFile ELSE Blank

\* _pid_alive sends signal 0: a stranger of another user answers with an error.
Process(p)   == IF p \in Pids THEN life[p] ELSE "free"
MayLive(p)   == Process(p) # "free"
MayBeDead(p) == Process(p) \in {"free", "stranger"}

\* Commands that are between what they read and what they write because of it,
\* and whether there is at most one.
BusyRun(p) == life[p] \in Entering \cup {"leaving"}
BusyStop   == halt \in {"testing", "clearing", "killing"}
Alone == \A p \in Pids : BusyRun(p) => ~BusyStop /\ \A q \in Pids : BusyRun(q) => p = q
Watch == mingled' = (mingled \/ ~Alone')

Becomes(p, phase) == life' = [life EXCEPT ![p] = phase]
Unlink == pidFile' = Absent
Starting == UNCHANGED <<halt, target, halts>> /\ Watch
Halting  == UNCHANGED <<life, seen, launches>> /\ Watch

DaemonIdle == /\ pidFile = Absent /\ life = [p \in Pids |-> "free"]
              /\ seen = [p \in Pids |-> Blank] /\ halt = "idle" /\ target = Blank
              /\ launches = 0 /\ halts = 0 /\ mingled = FALSE

(***************************************************************************)
(* cmd_run                                                                    *)
(***************************************************************************)
Launch(p) == /\ life[p] = "free" /\ launches < MaxLaunches
             /\ launches' = launches + 1 /\ Becomes(p, "reading")
             /\ UNCHANGED <<pidFile, seen>> /\ Starting

ReadForRun(p) == /\ life[p] = "reading" /\ Becomes(p, "testing")
                 /\ seen' = [seen EXCEPT ![p] = PidRead]
                 /\ UNCHANGED <<pidFile, launches>> /\ Starting

\* The pid that was read lives, be it the starter's own: the command ends with 1.
Refuse(p) == /\ life[p] = "testing" /\ MayLive(seen[p]) /\ Becomes(p, "free")
             /\ UNCHANGED <<pidFile, seen, launches>> /\ Starting

PassTest(p) == /\ life[p] = "testing" /\ MayBeDead(seen[p]) /\ Becomes(p, "writing")
               /\ UNCHANGED <<pidFile, seen, launches>> /\ Starting

\* write_text opens the file anew, then writes: a removal in between takes the
\* file, and the number is written into nothing.  (So it would be where another
\* start has made the file again by now; the two are mingled in any case.)
OpenPidFile(p) == /\ life[p] = "writing" /\ Becomes(p, "truncated") /\ pidFile' = Blank
                  /\ UNCHANGED <<seen, launches>> /\ Starting

WritePid(p) == /\ life[p] = "truncated" /\ Becomes(p, "importing")
               /\ pidFile' = IF pidFile = Absent THEN Absent ELSE p
               /\ UNCHANGED <<seen, launches>> /\ Starting

\* From here on SIGTERM removes the file, until uvicorn takes the signal over.
SetHandlers(p) == /\ life[p] = "importing" /\ Becomes(p, "ready")
                  /\ UNCHANGED <<pidFile, seen, launches>> /\ Starting

\* runtime_main binds the port, which one process has at a time, or fails.
Bind(p) == /\ life[p] = "ready"
           /\ Becomes(p, IF \E q \in Pids : life[q] = "serving" THEN "leaving" ELSE "serving")
           /\ UNCHANGED <<pidFile, seen, launches>> /\ Starting

\* The last request of a server that was told to end, or its failure.
Drain(p) == /\ life[p] \in {"serving", "draining"} /\ Becomes(p, "leaving")
            /\ UNCHANGED <<pidFile, seen, launches>> /\ Starting

\* The finally of cmd_run: it removes whatever file there is.
FinishRun(p) == /\ life[p] = "leaving" /\ Becomes(p, "free") /\ Unlink
                /\ UNCHANGED <<seen, launches>> /\ Starting

\* Mutant: the server's own way to end removes the file before it drains.
GetsAndUnlinks(p) ==
  CASE life[p] \in Entering \cup {"importing", "stranger"} -> Becomes(p, "free") /\ UNCHANGED pidFile
    [] life[p] \in {"ready", "leaving"}    -> Becomes(p, "leaving") /\ Unlink
    [] life[p] \in {"serving", "draining"} -> Becomes(p, "draining") /\ Unlink

\* SIGTERM or SIGINT, from the stop command or from anyone.
Gets(p) == CASE life[p] \in Entering \cup {"importing", "stranger"} ->
                  Becomes(p, "free") /\ UNCHANGED pidFile  \* the system's own handler
             [] life[p] \in {"ready", "leaving"} -> Becomes(p, "leaving") /\ Unlink
             [] life[p] = "serving"  -> Becomes(p, "draining") /\ UNCHANGED pidFile
             [] life[p] = "draining" -> UNCHANGED <<life, pidFile>>
Signal(p) == /\ MayLive(p) /\ Gets(p) /\ UNCHANGED <<seen, launches>> /\ Starting

\* SIGKILL, or the machine: the file stays.
Die(p) == /\ MayLive(p) /\ Becomes(p, "free")
          /\ UNCHANGED <<pidFile, seen, launches>> /\ Starting

\* A process that is no daemon is given the pid.
GivenAway(p) == /\ life[p] = "free" /\ Becomes(p, "stranger")
                /\ UNCHANGED <<pidFile, seen, launches>> /\ Starting

(***************************************************************************)
(* cmd_stop                                                                    *)
(***************************************************************************)
ReadForStop == /\ halt = "idle" /\ halts < MaxHalts /\ halts' = halts + 1
               /\ halt' = "testing" /\ target' = PidRead
               /\ UNCHANGED pidFile /\ Halting

FindDead == /\ halt = "testing" /\ MayBeDead(target) /\ halt' = "clearing"
            /\ UNCHANGED <<pidFile, target, halts>> /\ Halting

\* "not running": the file is removed, and the command ends with 0.
ClearStale == /\ halt = "clearing" /\ halt' = "idle" /\ Unlink
              /\ UNCHANGED <<target, halts>> /\ Halting

FindAlive == /\ halt = "testing" /\ MayLive(target) /\ halt' = "killing"
             /\ UNCHANGED <<pidFile, target, halts>> /\ Halting

\* os.kill raises, and the command with it, when the process is gone by now.
Kill == /\ halt = "killing"
        /\ IF life[target] = "free" THEN halt' = "idle" /\ UNCHANGED <<life, pidFile>>
           ELSE halt' = "waiting" /\ Gets(target)
        /\ UNCHANGED <<seen, launches, target, halts>> /\ Watch

\* Ten seconds of looking: the process has ended, or the command warns with 1.
StopLooking == /\ halt = "waiting" /\ halt' = "idle"
               /\ UNCHANGED <<pidFile, target, halts>> /\ Halting

DaemonNext ==
  \/ \E p \in Pids : \/ Launch(p) \/ ReadForRun(p) \/ Refuse(p) \/ PassTest(p)
                     \/ OpenPidFile(p) \/ WritePid(p) \/ SetHandlers(p) \/ Bind(p)
                     \/ Drain(p) \/ FinishRun(p) \/ Signal(p) \/ Die(p) \/ GivenAway(p)
  \/ ReadForStop \/ FindDead \/ ClearStale \/ FindAlive \/ Kill \/ StopLooking

---------------------------------------------------------------------------
OneDaemon   == \A p, q \in Pids : {life[p], life[q]} \subseteq Running => p = q
FileNames   == \A p \in Pids : life[p] \in Running \ {"leaving"} => pidFile = p
StopIsRight == halt = "clearing" => \A p \in Pids : life[p] \notin Running

(* Unless two commands were between their reading and their writing at once, the *)
(* file and the processes agree (daemon.py, cmd_run and cmd_stop): one daemon     *)
(* runs at a time, whatever died before and whoever has its pid; the file names   *)
(* it, but for the signal handler's early removal; and a stop that reports         *)
(* "not running", and removes the file, is right.                              *)
DaemonSound == ~mingled => OneDaemon /\ FileNames /\ StopIsRight
=============================================================================
