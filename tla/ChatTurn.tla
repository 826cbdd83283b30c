------------------------------ MODULE ChatTurn ------------------------------
(***************************************************************************)
(* A message sent to POST /chat/stream, from the request to the last event *)
(* the client receives: the thread of the executor that walks              *)
(* process_message_stream, the turn of the LLM with its tool calls, the    *)
(* event log of the session, and the event loop that sends the reply.      *)
(*                                                                         *)
(* Every chat has a thread of its own and all of them share one AgentApp:  *)
(* its map of SessionLog objects (every turn logs to the session           *)
(* 'default': nothing assigns _current_session_id), its LLMClient and its  *)
(* tables.  A step is what a thread does up to the next point where what   *)
(* it shares can change.  What the LLM says, which tools it calls and what *)
(* they return is arbitrary; the items of a stream reach the client in     *)
(* order and only the last of them is kept.                                *)
(***************************************************************************)
EXTENDS Integers, FiniteSets

CONSTANTS Chats,      \* requests, each with a producer thread
          NoLog,      \* no SessionLog, no reply
          MaxRounds,  \* max_tool_rounds
          MaxCalls,   \* tool calls of one reply of the LLM
          DbMayFail,  \* whether writes, the router and skills may raise
          MaxCrashes  \* bound on restarts of the process

ASSUME ChatConstants == /\ NoLog \notin Chats
                        /\ IsFiniteSet(Chats)
                        /\ MaxRounds \in Nat \ {0} /\ MaxCalls \in Nat
                        /\ DbMayFail \in BOOLEAN
                        /\ MaxCrashes \in Nat

VARIABLES
  events,      \* session_events of 'default': the numbers in the table
  cached,      \* _session_logs['default']: the object of the thread that made it
  next,        \* _seq of the object each thread has made
  streamCalls, \* LLMClient._last_stream_tool_calls: whose, and how many
  rows,        \* conversations: how many messages of each chat are recorded
  count,       \* message_count of the session the chats belong to
  pc, path,    \* where a thread is, and who answers its message
  log,         \* the local variable log of _llm_direct_chat_stream
  rounds, said, \* rounds left, and whether the reply of this one has content
  left, owner, \* tool calls left to run, and whose reply they are from
  fate,        \* the last item a producer has put in its queue
  client,      \* what the client has got
  cancel,      \* cancel_event
  crashes,
  late         \* history: tools started after cancel_event was set

reply  == <<path, rounds, said, left, owner>>
stream == <<fate, client, cancel>>
tables == <<rows, count>>
logs   == <<events, cached, next, log>>
cvars  == <<logs, streamCalls, tables, pc, reply, stream, crashes, late>>

PCs == {"new", "in", "route", "make", "store", "turn.start", "user", "round",
        "step.start", "stream", "assistant", "calls.read", "call", "call.say",
        "exec", "result", "result.say", "step.end", "step.last", "turn.end",
        "say", "out", "count", "close", "end", "dead"}

CInit == /\ events = {} /\ cached = NoLog /\ next = [c \in Chats |-> 0]
         /\ streamCalls = [by |-> NoLog, n |-> 0]
         /\ rows = [c \in Chats |-> 0] /\ count = 0
         /\ pc = [c \in Chats |-> "new"]
         /\ path = [c \in Chats |-> "talk"] /\ log = [c \in Chats |-> NoLog]
         /\ rounds = [c \in Chats |-> 0] /\ said = [c \in Chats |-> FALSE]
         /\ left = [c \in Chats |-> 0] /\ owner = [c \in Chats |-> NoLog]
         /\ fate = [c \in Chats |-> "open"]
         /\ client = [c \in Chats |-> "none"]
         /\ cancel = [c \in Chats |-> FALSE]
         /\ crashes = 0
         /\ late = [c \in Chats |-> 0]

At(c, p) == pc[c] = p
Goto(c, p) == pc' = [pc EXCEPT ![c] = p]

-----------------------------------------------------------------------------
(* The event log.                                                          *)

\* Mutant of FreeSeq: one too many.
FreeSeqSkips == IF events = {} THEN 0
                ELSE (CHOOSE n \in events : \A m \in events : m <= n) + 2

\* _init_seq: one more than the greatest number in the table.
FreeSeq == IF events = {} THEN 0
           ELSE (CHOOSE n \in events : \A m \in events : m <= n) + 1

\* append through object o, then p.  Under the lock of o: the INSERT and then
\* _seq += 1.  The unique index refuses a number another object has used; the
\* handler of _persist assigns to the frozen event and raises, the transaction
\* is rolled back, and process_message_stream answers with the error.
Append(c, o, p) ==
  \/ /\ next[o] \notin events
     /\ events' = events \cup {next[o]}
     /\ next' = [next EXCEPT ![o] = @ + 1]
     /\ Goto(c, p)
  \/ /\ next[o] \in events
     /\ Goto(c, "say")
     /\ UNCHANGED <<events, next>>

\* The events of the turn go through the object in the map at that time (_emit_*).
Emit(c, at, p) == /\ At(c, at)
                  /\ Append(c, cached, p)
                  /\ UNCHANGED <<cached, log, streamCalls, tables, reply, stream,
                                 crashes, late>>

\* _get_session_log: a session that is not in the map gets a SessionLog (SELECT
\* MAX), which is put there.  Two threads may both find it missing.
MakeLog(c) == /\ At(c, "make")
              /\ next' = [next EXCEPT ![c] = FreeSeq]
              /\ Goto(c, "store")
              /\ UNCHANGED <<events, cached, log, streamCalls, tables, reply,
                             stream, crashes, late>>

StoreLog(c) == /\ At(c, "store")
               /\ cached' = c
               /\ Goto(c, "turn.start")
               /\ UNCHANGED <<events, next, log, streamCalls, tables, reply,
                              stream, crashes, late>>

-----------------------------------------------------------------------------
(* process_message_stream, run by the producer thread of chat c.           *)

\* Mutant of Yield: a producer that does not look at cancel_event.
YieldAlways(c, p) == Goto(c, p)

\* The generator yields an item.  The producer drops the generator when the
\* client has gone, and hands the item to the event loop otherwise.
Yield(c, p) == Goto(c, IF cancel[c] THEN "close" ELSE p)

ChatStream(c) == /\ At(c, "new")
                 /\ client' = [client EXCEPT ![c] = "waiting"]
                 /\ Goto(c, "in")
                 /\ UNCHANGED <<logs, streamCalls, tables, reply, fate, cancel,
                                crashes, late>>

\* Mutant of RecordIn: the message is counted as it comes in, and again at the end.
RecordInCounts(c) ==
  /\ At(c, "in")
  /\ rows' = [rows EXCEPT ![c] = @ + 1]
  /\ count' = count + 1
  /\ Goto(c, "route")
  /\ UNCHANGED <<logs, streamCalls, reply, stream, crashes, late>>

\* A command or a shortcut is answered at once; the rest is a conversation, and so
\* is a command that streams its output.
RecordIn(c) ==
  /\ At(c, "in")
  /\ rows' = [rows EXCEPT ![c] = @ + 1]
  /\ \/ Goto(c, "out") /\ path' = [path EXCEPT ![c] = "local"]
     \/ Goto(c, "route") /\ UNCHANGED path
  /\ UNCHANGED <<logs, streamCalls, count, rounds, said, left, owner, stream,
                 crashes, late>>

\* The orchestrator answers (once), a skill does, or the LLM is to, for itself or
\* for a skill, with the log object of the session.
Route(c) ==
  /\ At(c, "route")
  /\ \/ /\ path[c] = "talk"
        /\ path' = [path EXCEPT ![c] = "orchestrated"]
        /\ Goto(c, "out")
        /\ UNCHANGED rounds
     \/ /\ Goto(c, "say")
        /\ UNCHANGED <<path, rounds>>
     \/ /\ Goto(c, IF cached = NoLog THEN "make" ELSE "turn.start")
        /\ \E n \in {1, MaxRounds} : rounds' = [rounds EXCEPT ![c] = n]
        /\ UNCHANGED path
  /\ UNCHANGED <<logs, streamCalls, tables, said, left, owner, stream, crashes,
                 late>>

\* Who answers before the LLM has recorded the reply when it is yielded.
Early(c) == path[c] \in {"local", "orchestrated"}

\* A reply that is yielded in one piece, an error of the turn among them.
Say(c) == /\ At(c, "say")
          /\ Yield(c, IF Early(c) THEN "close" ELSE "out")
          /\ UNCHANGED <<logs, streamCalls, tables, reply, stream, crashes, late>>

RecordOut(c) == /\ At(c, "out")
                /\ rows' = [rows EXCEPT ![c] = @ + 1]
                /\ Goto(c, "count")
                /\ UNCHANGED <<logs, streamCalls, count, reply, stream, crashes,
                               late>>

CountMessages(c) == /\ At(c, "count")
                    /\ count' = count + 2
                    /\ Goto(c, IF Early(c) THEN "say" ELSE "close")
                    /\ UNCHANGED <<logs, streamCalls, rows, reply, stream,
                                   crashes, late>>

\* Mutant of RecordFails: an exception that is logged only.
FailsSilently(c) == /\ DbMayFail
                    /\ pc[c] \in {"in", "route", "out", "count"}
                    /\ Goto(c, "close")
                    /\ UNCHANGED <<logs, streamCalls, tables, reply, stream,
                                   crashes, late>>

\* Mutant of RecordFails: the thread dies of it and puts no last item.
DiesSilently(c) == /\ DbMayFail
                   /\ pc[c] \in {"in", "route", "out", "count"}
                   /\ Goto(c, "end")
                   /\ UNCHANGED <<logs, streamCalls, tables, reply, stream,
                                  crashes, late>>

\* A write raises, or the router or a skill.  The exception leaves the generator;
\* around the orchestrator it is taken for "not handled" and the message goes on to
\* skills and the LLM.
RecordFails(c) ==
  /\ DbMayFail
  /\ pc[c] \in {"in", "route", "out", "count"}
  /\ \/ /\ path[c] = "orchestrated"
        /\ path' = [path EXCEPT ![c] = "fallback"]
        /\ Goto(c, "route")
        /\ UNCHANGED fate
     \/ /\ path[c] # "orchestrated"
        /\ fate' = [fate EXCEPT ![c] = "error"]
        /\ Goto(c, "close")
        /\ UNCHANGED path
  /\ UNCHANGED <<logs, streamCalls, tables, rounds, said, left, owner, client,
                 cancel, crashes, late>>

\* The locals of the generator go.
Forget(c) == /\ path' = [path EXCEPT ![c] = "talk"]
             /\ log' = [log EXCEPT ![c] = NoLog]
             /\ rounds' = [rounds EXCEPT ![c] = 0]
             /\ said' = [said EXCEPT ![c] = FALSE]
             /\ left' = [left EXCEPT ![c] = 0]
             /\ owner' = [owner EXCEPT ![c] = NoLog]

\* The finally of the producer: done is the last item, after an error if any.
Close(c) == /\ At(c, "close")
            /\ fate' = [fate EXCEPT ![c] = IF @ = "open" THEN "done" ELSE @]
            /\ Goto(c, "end")
            /\ Forget(c)
            /\ UNCHANGED <<events, cached, next, streamCalls, tables, client,
                           cancel, crashes, late>>

-----------------------------------------------------------------------------
(* _llm_direct_chat_stream: a turn.                                        *)

TurnStart(c) == Emit(c, "turn.start", "user")

\* log = _get_session_log(); the messages of the turn go through this object.
UserMessage(c) == /\ At(c, "user")
                  /\ log' = [log EXCEPT ![c] = cached]
                  /\ Append(c, cached, "round")
                  /\ UNCHANGED <<cached, streamCalls, tables, reply, stream,
                                 crashes, late>>

\* Mutant of Round: one round more than there are.
RoundMore(c) ==
  /\ At(c, "round")
  /\ \/ /\ rounds[c] >= 0 /\ ~ cancel[c]
        /\ rounds' = [rounds EXCEPT ![c] = @ - 1]
        /\ Goto(c, "step.start")
     \/ /\ rounds[c] < 0 \/ cancel[c]
        /\ Goto(c, "turn.end")
        /\ UNCHANGED rounds
  /\ UNCHANGED <<logs, streamCalls, tables, path, said, left, owner, stream,
                 crashes, late>>

\* The head of the loop over the rounds.
Round(c) ==
  /\ At(c, "round")
  /\ \/ /\ rounds[c] > 0 /\ ~ cancel[c]
        /\ rounds' = [rounds EXCEPT ![c] = @ - 1]
        /\ Goto(c, "step.start")
     \/ /\ rounds[c] = 0 \/ cancel[c]
        /\ Goto(c, "turn.end")
        /\ UNCHANGED rounds
  /\ UNCHANGED <<logs, streamCalls, tables, path, said, left, owner, stream,
                 crashes, late>>

StepStart(c) == Emit(c, "step.start", "stream")

\* chat_stream yields a chunk of content, or of reasoning.
Chunk(c) == /\ At(c, "stream")
            /\ said' \in {said, [said EXCEPT ![c] = TRUE]}
            /\ Yield(c, "stream")
            /\ UNCHANGED <<logs, streamCalls, tables, path, rounds, left, owner,
                           stream, crashes, late>>

\* The reply ends, or chat_stream has seen cancel_event and stops reading: its
\* last statement leaves the tool calls in the shared client.
SetCalls(c) == /\ At(c, "stream")
               /\ \E k \in 0 .. MaxCalls : streamCalls' = [by |-> c, n |-> k]
               /\ Goto(c, "assistant")
               /\ UNCHANGED <<logs, tables, reply, stream, crashes, late>>

\* The budget is used up, the server refuses or times out, a tool raises: the
\* turn is left without its end, and the error is the reply.
TurnRaises(c) == /\ pc[c] \in {"stream", "exec"}
                 /\ Goto(c, "say")
                 /\ UNCHANGED <<logs, streamCalls, tables, reply, stream, crashes,
                                late>>

\* A reply with content is logged through the turn's own log object.
AssistantMessage(c) ==
  /\ At(c, "assistant")
  /\ \/ said[c] /\ Append(c, log[c], "calls.read")
     \/ ~ said[c] /\ Goto(c, "calls.read") /\ UNCHANGED <<events, next>>
  /\ UNCHANGED <<cached, log, streamCalls, tables, reply, stream, crashes, late>>

\* The calls in the client, or else those written in the text, or none.  The
\* content of the reply is not read again.
ReadCalls(c) ==
  /\ At(c, "calls.read")
  /\ \/ /\ streamCalls.n > 0
        /\ left' = [left EXCEPT ![c] = streamCalls.n]
        /\ owner' = [owner EXCEPT ![c] = streamCalls.by]
        /\ Goto(c, "call")
     \/ /\ streamCalls.n = 0 /\ said[c]
        /\ \E k \in 1 .. MaxCalls : left' = [left EXCEPT ![c] = k]
        /\ owner' = [owner EXCEPT ![c] = c]
        /\ Goto(c, "call")
     \/ /\ streamCalls.n = 0
        /\ Goto(c, "step.last")
        /\ UNCHANGED <<left, owner>>
  /\ said' = [said EXCEPT ![c] = FALSE]
  /\ UNCHANGED <<logs, streamCalls, tables, path, rounds, stream, crashes, late>>

ToolCall(c) == Emit(c, "call", "call.say")

SayCall(c) == /\ At(c, "call.say")
              /\ Yield(c, "exec")
              /\ UNCHANGED <<logs, streamCalls, tables, reply, stream, crashes,
                             late>>

ExecTool(c) == /\ At(c, "exec")
               /\ late' = [late EXCEPT ![c] = IF cancel[c] THEN @ + 1 ELSE @]
               /\ Goto(c, "result")
               /\ UNCHANGED <<logs, streamCalls, tables, reply, stream, crashes>>

ToolResult(c) == Emit(c, "result", "result.say")

SayResult(c) == /\ At(c, "result.say")
                /\ left' = [left EXCEPT ![c] = @ - 1]
                /\ Yield(c, IF left[c] > 1 THEN "call" ELSE "step.end")
                /\ UNCHANGED <<logs, streamCalls, tables, path, rounds, said,
                               owner, stream, crashes, late>>

StepEnd(c)  == Emit(c, "step.end", "round")
StepLast(c) == Emit(c, "step.last", "turn.end")
TurnEnd(c)  == Emit(c, "turn.end", "out")

-----------------------------------------------------------------------------
(* The event loop, and the end of the process.                             *)

\* The last item is sent: the stream is over, and its finally sets cancel_event.
Finish(c) == /\ client[c] = "waiting" /\ fate[c] # "open"
             /\ client' = [client EXCEPT ![c] = fate[c]]
             /\ cancel' = [cancel EXCEPT ![c] = TRUE]
             /\ UNCHANGED <<logs, streamCalls, tables, pc, reply, fate, crashes,
                            late>>

\* The client closes the connection: the stream is cancelled.
Disconnect(c) == /\ client[c] = "waiting"
                 /\ client' = [client EXCEPT ![c] = "gone"]
                 /\ cancel' = [cancel EXCEPT ![c] = TRUE]
                 /\ UNCHANGED <<logs, streamCalls, tables, pc, reply, fate,
                                crashes, late>>

\* The process restarts: the tables stay, threads, objects and clients go.
Crash == /\ crashes < MaxCrashes
         /\ crashes' = crashes + 1
         /\ cached' = NoLog /\ next' = [c \in Chats |-> 0]
         /\ streamCalls' = [by |-> NoLog, n |-> 0]
         /\ pc' = [c \in Chats |-> IF pc[c] = "new" THEN "new" ELSE "dead"]
         /\ path' = [c \in Chats |-> "talk"] /\ log' = [c \in Chats |-> NoLog]
         /\ rounds' = [c \in Chats |-> 0] /\ said' = [c \in Chats |-> FALSE]
         /\ left' = [c \in Chats |-> 0] /\ owner' = [c \in Chats |-> NoLog]
         /\ client' = [c \in Chats |-> IF client[c] = "waiting" THEN "gone"
                                       ELSE client[c]]
         /\ UNCHANGED <<events, tables, fate, cancel, late>>

Answer(c) == \/ RecordIn(c) \/ Route(c) \/ Say(c) \/ RecordOut(c)
             \/ CountMessages(c) \/ RecordFails(c) \/ Close(c)

Turn(c) == \/ MakeLog(c) \/ StoreLog(c) \/ TurnStart(c) \/ UserMessage(c)
           \/ Round(c) \/ StepStart(c) \/ Chunk(c) \/ SetCalls(c)
           \/ TurnRaises(c) \/ AssistantMessage(c) \/ ReadCalls(c)
           \/ ToolCall(c) \/ SayCall(c) \/ ExecTool(c) \/ ToolResult(c)
           \/ SayResult(c) \/ StepEnd(c) \/ StepLast(c) \/ TurnEnd(c)

Produce(c) == Answer(c) \/ Turn(c)

CNext == \/ \E c \in Chats : ChatStream(c) \/ Produce(c) \/ Finish(c) \/ Disconnect(c)
         \/ Crash

CSpec == CInit /\ [][CNext]_cvars

\* A producer goes on (the calls of LLM and tools have timeouts, a reply ends)
\* and the event loop sends what is there.
CFairSpec == CSpec /\ \A c \in Chats : WF_cvars(Produce(c)) /\ WF_cvars(Finish(c))
=============================================================================
