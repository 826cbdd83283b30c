------------------------- MODULE ToolInstallerProps -------------------------
(* What installing and removing tools must keep.                           *)
EXTENDS ToolInstaller, FiniteSets

Stages == {"idle", "start", "cmds", "look", "looked", "save", "callback", "fail", "end",
           "get", "clear", "unregister", "reread", "correct", "switch", "merge", "enabled"}

(* The variables have their types.                                         *)
TTypeOK == /\ row \in Rows /\ bin \in Binaries
           /\ marked \in BOOLEAN /\ reg \in BOOLEAN
           /\ cache \in [BOOLEAN -> Binaries \cup {Unknown}]
           /\ job \in [Jobs -> [op : AllKinds \cup {"none", "remove"}, at : Stages,
                                 seen : Rows, res : Binaries \cup {Unknown}]]
           /\ overlap \in BOOLEAN /\ forsaken \in BOOLEAN
           /\ jobs \in 0 .. MaxJobs /\ outside \in 0 .. MaxOutside
           /\ restarts \in 0 .. MaxRestarts

(* Between the first write of an installation or the first command of a      *)
(* removal and its end.                                                    *)
Inside(t) == job[t].op \in Working

(* Installations and removals of a tool exclude each other, and the mark in   *)
(* _installing is there exactly while one is under way, until the one way     *)
(* around the mark is taken: a removal that looked at it before its awaits    *)
(* (tool_installer.py:395) and enters it after them.                        *)
OneAtATime == ~overlap => /\ marked <=> \E t \in Jobs : Inside(t)
                          /\ \A t, u \in Jobs : Inside(t) /\ Inside(u) => t = u

(* _installing is a lock on the tool (tool_installer.py:182).               *)
MarkIsLock == \A t, u \in Jobs : Inside(t) /\ Inside(u) => t = u

Owner(t) == job[t].op = "install" /\ job[t].at \in {"cmds", "look", "looked", "save", "fail"}

(* A record says "installing" only while an installation is there that will   *)
(* write its outcome, whatever probes, views and removals do in between;      *)
(* restarts, a failing database and entries of the platform are set apart.   *)
InstallingIsOwned ==
  row.st = "installing" /\ ~forsaken => \E t \in Jobs : Owner(t)

(* No record stays "installing", and no tool stays locked.                  *)
InstallEnds == /\ row.st = "installing" ~> (row.st # "installing" \/ forsaken)
               /\ marked ~> ~marked
=============================================================================
