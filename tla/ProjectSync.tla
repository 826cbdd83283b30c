----------------------------- MODULE ProjectSync -----------------------------
(***************************************************************************)
(* A project of the runtime (core/project_engine.py, server/api/projects.py,  *)
(* the projects table of core/db.py), its copy on the platform, and its        *)
(* repository.                                                              *)
(*                                                                         *)
(* The endpoints run on one event loop without awaiting, so one request is     *)
(* under way at a time; decompositions and clones have threads of their own.   *)
(* A write, the reading back of the row, and the sending of what was read are   *)
(* separate steps.                                                          *)
(***************************************************************************)
EXTENDS Integers, Sequences

CONSTANTS Splitters,     \* threads of decompose_project_async
          Cloners,       \* threads that clone: clone_repo_async and assignments
          MaxRequests,   \* bound on the requests
          MaxDrops,      \* bound on the times the connection is lost
          MaxText        \* bound on the versions of the other fields

ASSUME ProjectConstants == /\ MaxRequests \in Nat /\ MaxDrops \in Nat /\ MaxText \in Nat

ProjectStates == {"draft", "active", "paused", "completed", "cancelled"}
NextStates == [draft     |-> {"active", "cancelled"},
               active    |-> {"paused", "completed", "cancelled"},
               paused    |-> {"active", "cancelled"},
               completed |-> {}, cancelled |-> {}]

NoProject == [st |-> "none", plan |-> FALSE, text |-> 0, ended |-> FALSE]
Waiting   == [at |-> "none", got |-> NoProject]

VARIABLES
  project,   \* the row; st "none": there is none
  copy,      \* what the platform has
  sent,      \* project messages on their way, in order
  api,       \* the request under way: stage, and the row it has read
  splitter,  \* the decompositions: stage, and the row they have read
  subtasks,  \* tasks created by decompositions
  repo,      \* repos/<name>: none, partial, whole
  cloner,    \* the clones: stage
  online,    \* ws_client.connected
  behind,    \* history: the last change was sent from an old reading, or not at all
  cutShort,  \* history: a clone was killed by its timeout
  requests, drops

projectVars == <<project, copy, sent, api, splitter, subtasks, repo, cloner, online,
                 behind, cutShort, requests, drops>>

ProjectIdle ==
  /\ project = NoProject /\ copy = NoProject /\ sent = << >>
  /\ api = Waiting /\ splitter = [s \in Splitters |-> Waiting] /\ subtasks = 0
  /\ repo = "none" /\ cloner = [c \in Cloners |-> "none"]
  /\ online = TRUE /\ behind = FALSE /\ cutShort = FALSE
  /\ requests = 0 /\ drops = 0

---------------------------------------------------------------------------
(* _sync_to_platform: without a connection the change is not sent, then or      *)
(* later.  A message holds the row that was read before.                      *)

Sync(p) == /\ IF online THEN sent' = Append(sent, p) ELSE UNCHANGED sent
           /\ behind' = (~online \/ p # project \/ api.at = "delete")

NewRequest == /\ api.at = "none" /\ requests < MaxRequests /\ requests' = requests + 1
              /\ UNCHANGED <<copy, online, cutShort, drops, repo>>
KeepRequest == UNCHANGED <<copy, online, cutShort, requests, drops, repo>>

StartSplitter == \/ \E s \in Splitters : /\ splitter[s].at = "none"
                                         /\ splitter' = [splitter EXCEPT ![s].at = "read"]
                 \/ (\A s \in Splitters : splitter[s].at # "none") /\ UNCHANGED splitter
StartCloner == \/ \E c \in Cloners : cloner[c] = "none" /\ cloner' = [cloner EXCEPT ![c] = "check"]
               \/ UNCHANGED cloner

(* POST /projects, and the command that creates one: the row, a clone if it      *)
(* names a repository, the message, and a decomposition in the background.       *)
CreateProject ==
  /\ NewRequest /\ project.st = "none" /\ copy = NoProject /\ sent = << >>
  /\ LET p == [NoProject EXCEPT !.st = "draft"] IN
     /\ project' = p
     /\ IF online THEN sent' = Append(sent, p) ELSE UNCHANGED sent
     /\ behind' = ~online
  /\ StartSplitter /\ StartCloner /\ UNCHANGED <<api, subtasks>>

(* PUT /projects/{id}: any field, the status among them, is written as given.    *)
(* A repository is not a field that is written: alone it changes nothing and is  *)
(* answered with 404, with another one it is cloned and not stored.             *)
UpdateProject ==
  /\ NewRequest /\ project.st # "none"
  /\ \/ \E st \in ProjectStates : project' = [project EXCEPT !.st = st]
     \/ project.text < MaxText /\ project' = [project EXCEPT !.text = @ + 1]
  /\ api' = [api EXCEPT !.at = "read"]
  /\ StartCloner /\ UNCHANGED <<sent, splitter, subtasks, behind>>

(* POST /projects/{id}/transition; only requests write the status, so that the   *)
(* check and the write are one step.                                        *)
Transition ==
  /\ NewRequest /\ project.st # "none"
  /\ \E st \in NextStates[project.st] :
       project' = [project EXCEPT !.st = st, !.ended = @ \/ st = "completed"]
  /\ api' = [api EXCEPT !.at = "read"]
  /\ UNCHANGED <<sent, splitter, cloner, subtasks, behind>>

ReadBack == /\ api.at = "read" /\ api' = [at |-> "send", got |-> project]
            /\ KeepRequest /\ UNCHANGED <<project, sent, splitter, cloner, subtasks, behind>>

SyncUpdate == /\ api.at = "send" /\ Sync(api.got) /\ api' = Waiting
              /\ KeepRequest /\ UNCHANGED <<project, splitter, cloner, subtasks>>

(* DELETE /projects/{id}: the platform is told first.                         *)
TellDeleted == /\ NewRequest /\ project.st # "none"
               /\ api' = [Waiting EXCEPT !.at = "delete"]
               /\ IF online THEN sent' = Append(sent, NoProject) ELSE UNCHANGED sent
               /\ behind' = ~online
               /\ UNCHANGED <<project, splitter, cloner, subtasks>>

DeleteRow == /\ api.at = "delete" /\ project' = NoProject /\ api' = Waiting
             /\ KeepRequest /\ UNCHANGED <<sent, splitter, cloner, subtasks, behind>>

(* POST /projects/{id}/decompose runs on the event loop; it is the thread's      *)
(* work with nothing else requested meanwhile, and left to the threads.         *)
Api == CreateProject \/ UpdateProject \/ Transition \/ ReadBack \/ SyncUpdate
       \/ TellDeleted \/ DeleteRow
---------------------------------------------------------------------------
(* decompose_project, on its thread.                                        *)

Splitting(s, stage, p) == splitter' = [splitter EXCEPT ![s] = [at |-> stage, got |-> p]]
KeepSplit == /\ UNCHANGED <<copy, api, cloner, repo, online, cutShort, requests, drops>>

(* Without a project, a model that answers, or subtasks, it ends here.         *)
SplitRead(s) == /\ splitter[s].at = "read"
                /\ \/ project.st # "none" /\ Splitting(s, "tasks", project)
                   \/ Splitting(s, "none", NoProject)
                /\ KeepSplit /\ UNCHANGED <<project, sent, subtasks, behind>>

SplitTasks(s) == /\ splitter[s].at = "tasks" /\ subtasks' = subtasks + 1
                 /\ Splitting(s, "plan", NoProject)
                 /\ KeepSplit /\ UNCHANGED <<project, sent, behind>>

(* The plan is written to the row if there still is one.                      *)
SplitPlan(s) == /\ splitter[s].at = "plan" /\ Splitting(s, "reread", NoProject)
                /\ IF project.st = "none" THEN UNCHANGED project
                   ELSE project' = [project EXCEPT !.plan = TRUE]
                /\ KeepSplit /\ UNCHANGED <<sent, subtasks, behind>>

(* Reading back a row that is gone raises, and the thread ends.                *)
SplitReread(s) == /\ splitter[s].at = "reread"
                  /\ IF project.st = "none" THEN Splitting(s, "none", NoProject)
                     ELSE Splitting(s, "send", project)
                  /\ KeepSplit /\ UNCHANGED <<project, sent, subtasks, behind>>

SplitUnsent(s) ==   \* Mutant: the plan is stored and the platform is not told
  /\ splitter[s].at = "send" /\ Splitting(s, "none", NoProject)
  /\ KeepSplit /\ UNCHANGED <<project, sent, subtasks, behind>>

SplitSend(s) == /\ splitter[s].at = "send" /\ Sync(splitter[s].got)
                /\ Splitting(s, "none", NoProject)
                /\ KeepSplit /\ UNCHANGED <<project, subtasks>>

Split(s) == SplitRead(s) \/ SplitTasks(s) \/ SplitPlan(s) \/ SplitReread(s) \/ SplitSend(s)
---------------------------------------------------------------------------
(* clone_repo: a directory that is there is taken for the repository.           *)

KeepClone == UNCHANGED <<project, copy, sent, api, splitter, subtasks, online, behind, requests, drops>>

CloneCheck(c) == /\ cloner[c] = "check"
                 /\ cloner' = [cloner EXCEPT ![c] = IF project.st = "none" \/ repo # "none"
                                                    THEN "none" ELSE "clone"]
                 /\ UNCHANGED <<repo, cutShort>> /\ KeepClone

(* git refuses a directory that is not empty, and removes what it has made when   *)
(* it fails; killed by the timeout, it leaves what is there.                   *)
CloneRun(c) == /\ cloner[c] = "clone" /\ cloner' = [cloner EXCEPT ![c] = "none"]
               /\ \/ UNCHANGED <<repo, cutShort>>
                  \/ repo = "none" /\ repo' = "whole" /\ UNCHANGED cutShort
                  \/ repo = "none" /\ repo' = "partial" /\ cutShort' = TRUE
               /\ KeepClone
---------------------------------------------------------------------------
DeliverSync == /\ sent # << >> /\ sent' = Tail(sent) /\ copy' = Head(sent)
               /\ UNCHANGED <<project, api, splitter, subtasks, repo, cloner, online,
                              behind, cutShort, requests, drops>>

Offline == /\ online /\ drops < MaxDrops /\ drops' = drops + 1 /\ online' = FALSE
           /\ UNCHANGED <<project, copy, sent, api, splitter, subtasks, repo, cloner,
                          behind, cutShort, requests>>
Online  == /\ ~online /\ online' = TRUE
           /\ UNCHANGED <<project, copy, sent, api, splitter, subtasks, repo, cloner,
                          behind, cutShort, requests, drops>>

ProjectNext == \/ Api \/ (\E s \in Splitters : Split(s))
               \/ (\E c \in Cloners : CloneCheck(c) \/ CloneRun(c))
               \/ DeliverSync \/ Offline \/ Online
---------------------------------------------------------------------------
(* When no change is between its write and its message, and none is on its way,   *)
(* the platform has the row as it is, unless the last message was made from a    *)
(* reading that a thread had overtaken (core/project_engine.py:470), between the  *)
(* notice of a deletion and the deletion, or there was no connection for it.      *)
Settled == /\ sent = << >> /\ api.at = "none"
           /\ \A s \in Splitters : splitter[s].at \notin {"reread", "send"}
CopyCurrent == Settled /\ ~behind => copy = project

(* A repository that is there is whole, except one whose clone was cut short,     *)
(* which every later clone takes for the repository.                          *)
RepoWhole == repo = "partial" => cutShort

ProjectsMirrored == CopyCurrent /\ RepoWhole
=============================================================================
