--------------------------- MODULE ChatTurnProps ---------------------------
(***************************************************************************)
(* What a chat owes its client, its session and the other chats.           *)
(***************************************************************************)
EXTENDS ChatTurn

\* The map, the tables, the threads and the streams are as the code makes them.
CTypeOK == /\ events \subseteq Nat
           /\ cached \in Chats \cup {NoLog} /\ next \in [Chats -> Nat]
           /\ streamCalls \in [by : Chats \cup {NoLog}, n : 0 .. MaxCalls]
           /\ rows \in [Chats -> Nat] /\ count \in Nat
           /\ pc \in [Chats -> PCs]
           /\ path \in [Chats -> {"talk", "local", "orchestrated", "fallback"}]
           /\ log \in [Chats -> Chats \cup {NoLog}]
           /\ rounds \in [Chats -> 0 .. MaxRounds]
           /\ said \in [Chats -> BOOLEAN]
           /\ left \in [Chats -> 0 .. MaxCalls]
           /\ owner \in [Chats -> Chats \cup {NoLog}]
           /\ fate \in [Chats -> {"open", "done", "error"}]
           /\ client \in [Chats -> {"none", "waiting", "done", "error", "gone"}]
           /\ cancel \in [Chats -> BOOLEAN]
           /\ crashes \in 0 .. MaxCrashes
           /\ late \in [Chats -> Nat]

\* "seq increases monotonically": whatever threads append, through two SessionLog
\* objects made in a race or after a restart, the events of the session are
\* numbered from 0 without a gap.
LogDense == \A m \in events : \A n \in 0 .. m : n \in events

\* Once the client has gone, the turn it waited for starts no tool but the one it
\* may be about to run.
CancelStopsTools == \A c \in Chats : late[c] <= 1

\* What a client has received to the end is in the conversation: the stream never
\* says done for a message or a reply that was not recorded.
AnsweredIsRecorded == \A c \in Chats : client[c] = "done" => rows[c] >= 2

\* The messages of the session: of each chat, those recorded.
Messages == UNION {{c} \X (1 .. rows[c]) : c \in Chats}

\* The message count of a session never runs ahead of the messages recorded, and
\* a chat that was answered is in it.
CountMatches == /\ count <= Cardinality(Messages)
                /\ 2 * Cardinality({c \in Chats : client[c] = "done"}) <= count

\* A chat comes to its end on both sides: its producer leaves the executor, also
\* when the client has gone, and its client is not left waiting.
ChatEnds ==
  \A c \in Chats : pc[c] = "in" ~> /\ pc[c] \in {"end", "dead"}
                                   /\ client[c] # "waiting"

-----------------------------------------------------------------------------
(* What the comments say and the code does not do.                         *)

\* "Attach the tool calls to the generator": a turn runs the calls of its own reply.
OwnToolCalls == \A c \in Chats : pc[c] = "exec" => owner[c] = c
=============================================================================
