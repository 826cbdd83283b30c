----------------------------- MODULE SessionStore -----------------------------
(***************************************************************************)
(* Sessions (core/db.py, server/api/sessions.py) and the forks of their event  *)
(* logs (core/session_log.py, server/api/session_events.py).  The handlers run  *)
(* on the event loop without a wait and exclude each other; the threads of       *)
(* turns do not, and log to the session "default" between any two transactions  *)
(* of a handler.  That several turns share a log object is ChatTurn's subject.   *)
(***************************************************************************)
EXTENDS Integers, FiniteSets

CONSTANTS Sessions,   \* ids of sessions
          Default,    \* the session every turn logs to
          MaxLogged,  \* bound on the events logged by turns
          MaxForks,   \* bound on the forks
          MaxKth,     \* bound on the message that a fork is asked before
          MaxEdits    \* bound on the other requests and restarts

ASSUME SessionConstants == /\ Default \in Sessions
                           /\ MaxLogged \in Nat /\ MaxForks \in Nat
                           /\ MaxKth \in Nat /\ MaxEdits \in Nat

VARIABLES
  listed,      \* sessions table: none, live or archived
  events,   \* session_events by session: by number, whether a user's message, and a tag
  next,     \* _seq of the log object in _session_logs, None without one
  fresh,    \* ids that uuid4 has not given yet
  fork,     \* the fork under way
  logged, forks, edits,
  origin,   \* history: of each fork before a message, the request and what it read
  into      \* history: ids that existed and were forked into since the start

sessionVars == <<listed, events, next, fresh, fork, logged, forks, edits, origin, into>>

None     == -1
All      == 999999   \* the boundary that stands for none: what has a higher number is not copied
NoEvents == [n \in {} |-> 0]
NoFork   == [at |-> "idle", from |-> Default, to |-> Default, k |-> 0, boundary |-> All,
             row |-> FALSE, rest |-> NoEvents, next |-> 0]
NoOrigin == [k |-> 0, users |-> 0, read |-> NoEvents]

SessionsIdle ==
  /\ listed = [i \in Sessions |-> "none"] /\ events = [i \in Sessions |-> NoEvents]
  /\ next = [i \in Sessions |-> None] /\ fresh = Sessions \ {Default} /\ fork = NoFork
  /\ logged = 0 /\ forks = 0 /\ edits = 0
  /\ origin = [i \in Sessions |-> NoOrigin] /\ into = {}

---------------------------------------------------------------------------
Numbers(log)   == DOMAIN log
AfterLast(log) ==   \* _init_seq
  CHOOSE n \in {0} \cup {m + 1 : m \in Numbers(log)} : \A m \in Numbers(log) : m < n
Users(log)     == {n \in Numbers(log) : log[n].user}

NumberOf(i) == IF next[i] = None THEN AfterLast(events[i]) ELSE next[i]
Event(user, tag) == [user |-> user, tag |-> tag]
Put(log, n, e)   == [m \in Numbers(log) \cup {n} |-> IF m = n THEN e ELSE log[m]]

(* _get_session_log makes the object that is missing.                        *)
Cached(i) == next' = [next EXCEPT ![i] = NumberOf(i)]

(* A number that is taken is not taken again: the second try assigns to a frozen  *)
(* event and raises, before the counter is set.                              *)
TurnLogs == /\ logged < MaxLogged /\ logged' = logged + 1
            /\ LET n == NumberOf(Default) IN
               IF n \in Numbers(events[Default]) THEN Cached(Default) /\ UNCHANGED events
               ELSE /\ next' = [next EXCEPT ![Default] = n + 1]
                    /\ \E user \in BOOLEAN :
                         events' = [events EXCEPT ![Default] = Put(@, n, Event(user, logged))]
            /\ UNCHANGED <<listed, fresh, fork, forks, edits, origin, into>>

---------------------------------------------------------------------------
(* Requests that are one step.                                              *)

Edit == fork = NoFork /\ edits < MaxEdits /\ edits' = edits + 1
        /\ UNCHANGED <<logged, forks>>

CreateSession(i) == /\ Edit /\ i \in fresh /\ fresh' = fresh \ {i}
                    /\ listed' = [listed EXCEPT ![i] = "live"]
                    /\ UNCHANGED <<events, next, fork, origin, into>>

ArchiveSession(i) ==
  /\ Edit /\ listed[i] # "none"
  /\ listed' = [listed EXCEPT ![i] = IF @ = "archived" THEN "live" ELSE "archived"]
  /\ UNCHANGED <<events, next, fresh, fork, origin, into>>

(* Rows, messages and events go in one transaction; the log object stays.        *)
DeleteSession(i) == /\ Edit /\ i \notin fresh
                    /\ listed' = [listed EXCEPT ![i] = "none"]
                    /\ events' = [events EXCEPT ![i] = NoEvents]
                    /\ origin' = [origin EXCEPT ![i] = NoOrigin]
                    /\ UNCHANGED <<next, fresh, fork, into>>

(* The queries on events, messages, tools and statistics.                      *)
LookAt(i) == /\ Edit /\ i \notin fresh /\ Cached(i)
             /\ UNCHANGED <<listed, events, fresh, fork, origin, into>>

(* The end of the process, and its start: messages without a session get one.     *)
Restart == /\ edits < MaxEdits /\ edits' = edits + 1
           /\ next' = [i \in Sessions |-> None] /\ fork' = NoFork /\ into' = {}
           /\ listed' \in {listed, [listed EXCEPT ![Default] = IF @ = "none" THEN "live" ELSE @]}
           /\ UNCHANGED <<events, fresh, logged, forks, origin>>

---------------------------------------------------------------------------
(* Forks. *)

KeepTurns == UNCHANGED <<logged, edits>>
BeginFork == fork = NoFork /\ forks < MaxForks /\ forks' = forks + 1 /\ KeepTurns

(* A session before its k-th message of a user; without a k, an empty one.       *)
ForkSession(from, to, k) ==
  /\ BeginFork /\ from \notin fresh /\ to \in fresh /\ fresh' = fresh \ {to}
  /\ Cached(from)
  /\ fork' = [NoFork EXCEPT !.at = IF k = 0 THEN "row" ELSE "seek", !.from = from, !.to = to,
                            !.k = k, !.row = TRUE]
  /\ UNCHANGED <<listed, events, origin, into>>

(* The first read: the number of the k-th message of a user.                   *)
IsKth(users, k, n) == n \in users /\ Cardinality({m \in users : m < n}) = k - 1
SeekBoundary ==
  /\ fork.at = "seek"
  /\ LET users == Users(events[fork.from]) IN
     /\ \/ \E n \in users : /\ IsKth(users, fork.k, n)
                            /\ fork' = [fork EXCEPT !.at = "read", !.boundary = n]
        \/ Cardinality(users) < fork.k /\ fork' = [fork EXCEPT !.at = "read"]
     /\ origin' = [origin EXCEPT ![fork.to] = [NoOrigin EXCEPT !.k = fork.k,
                                                               !.users = Cardinality(users)]]
  /\ UNCHANGED <<listed, events, next, fresh, forks, into>> /\ KeepTurns

(* The events before a number, into any id, and without a row.                     *)
ForkEvents(from, to, boundary) ==
  /\ BeginFork /\ from \notin fresh /\ fresh' = fresh \ {to}
  /\ Cached(from)
  /\ into' = IF to \in fresh THEN into ELSE into \cup {to}
  /\ fork' = [NoFork EXCEPT !.at = "read", !.from = from, !.to = to, !.boundary = boundary]
  /\ origin' = [origin EXCEPT ![to] = NoOrigin]
  /\ UNCHANGED <<listed, events>>

BeforeInclusive(log, b) == [n \in {m \in Numbers(log) : m <= b} |-> log[n]]  \* Mutant: the boundary is copied too

Below(log, b)  == {n \in Numbers(log) : n < b}
Before(log, b) == [n \in Below(log, b) |-> log[n]]

(* The second read, after the new log object has taken its first number; that it     *)
(* ends after 100000 events is left out.                                       *)
ReadSource ==
  /\ fork.at = "read"
  /\ LET log == events[fork.from] IN
     /\ fork' = [fork EXCEPT !.at = "copy", !.rest = Before(log, fork.boundary),
                             !.next = AfterLast(events[fork.to])]
     /\ origin' = [origin EXCEPT ![fork.to].read = IF fork.row THEN log ELSE @]
  /\ UNCHANGED <<listed, events, next, fresh, forks, into>> /\ KeepTurns

(* One event, in a transaction of its own; a turn may have taken the number.      *)
CopyEvent ==
  /\ fork.at = "copy"
  /\ \E n \in Numbers(fork.rest) :
       /\ \A m \in Numbers(fork.rest) : n <= m
       /\ IF fork.next \in Numbers(events[fork.to])
          THEN fork' = NoFork /\ UNCHANGED events
          ELSE /\ events' = [events EXCEPT ![fork.to] = Put(@, fork.next, fork.rest[n])]
               /\ fork' = [fork EXCEPT !.next = @ + 1,
                              !.rest = [m \in Numbers(@) \ {n} |-> @[m]]]
  /\ UNCHANGED <<listed, next, fresh, forks, origin, into>> /\ KeepTurns

CopyEnds == /\ fork.at = "copy" /\ Numbers(fork.rest) = {}
            /\ fork' = IF fork.row THEN [fork EXCEPT !.at = "row"] ELSE NoFork
            /\ UNCHANGED <<listed, events, next, fresh, forks, origin, into>> /\ KeepTurns

CreateRow == /\ fork.at = "row" /\ listed' = [listed EXCEPT ![fork.to] = "live"] /\ fork' = NoFork
             /\ UNCHANGED <<events, next, fresh, forks, origin, into>> /\ KeepTurns

SessionsNext ==
  \/ TurnLogs \/ Restart \/ SeekBoundary \/ ReadSource \/ CopyEvent \/ CopyEnds \/ CreateRow
  \/ \E i \in Sessions :
       \/ CreateSession(i) \/ ArchiveSession(i) \/ DeleteSession(i) \/ LookAt(i)
       \/ \E j \in Sessions : \/ \E k \in 0 .. MaxKth : ForkSession(i, j, k)
                              \/ \E b \in 0 .. MaxLogged : ForkEvents(i, j, b)
---------------------------------------------------------------------------
(* The log object of a session hands out only numbers that are free, whatever      *)
(* is deleted, forked and restarted, so that every append of a turn succeeds;       *)
(* except where a fork wrote into the session beside its object.                 *)
AppendsSucceed == \A i \in Sessions \ into :
                    next[i] # None => \A n \in Numbers(events[i]) : n < next[i]

(* One log is the copy of some events of another: in their order, numbered from     *)
(* zero.                                                                    *)
Copies(log, src, part) ==
  \E took \in [Numbers(log) -> part] :
    /\ \A n \in part : \E j \in Numbers(log) : took[j] = n
    /\ \A j \in Numbers(log) : /\ log[j] = src[took[j]]
                              /\ \A l \in 0 .. j - 1 : l \in Numbers(log) /\ took[l] < took[j]

(* A fork of a session before its k-th message of a user is a copy of the first        *)
(* events that were read, a kill between two copies included; once it is listed, of      *)
(* all before that message if it was there when it was looked for, and else of        *)
(* everything.                                                              *)
ForksFaithful ==
  \A i \in {j \in Sessions : origin[j].k > 0} :
    LET log == events[i]
        src == origin[i].read IN
    /\ \E b \in Numbers(src) \cup {All} : Copies(log, src, Below(src, b))
    /\ listed[i] # "none" =>
         IF origin[i].users < origin[i].k THEN Copies(log, src, Below(src, All))
         ELSE \E n \in Numbers(src) : /\ IsKth(Users(src), origin[i].k, n)
                                      /\ Copies(log, src, Below(src, n))

SessionStoreSound == AppendsSucceed /\ ForksFaithful
=============================================================================
