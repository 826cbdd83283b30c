--------------------------- MODULE ChatTurnProofs ---------------------------
(***************************************************************************)
(* Machine-checked proofs about ChatTurn, for any number of chats, rounds, *)
(* tool calls and restarts, with or without failing writes.                *)
(***************************************************************************)
EXTENDS ChatTurnProps, FiniteSetTheorems, TLAPS

-----------------------------------------------------------------------------
(* Type correctness.  It needs that a thread inside a turn finds an object *)
(* in the map and in its log, and that a tool call is there to be counted. *)

CallPCs == {"call", "call.say", "exec", "result", "result.say"}

LoggedPCs == CallPCs \cup {"round", "step.start", "stream", "assistant",
                           "calls.read", "step.end", "step.last", "turn.end"}

TurnPCs == LoggedPCs \cup {"turn.start", "user"}

HasLog == \A c \in Chats : /\ pc[c] \in TurnPCs => cached \in Chats
                           /\ pc[c] \in LoggedPCs => log[c] \in Chats
                           /\ pc[c] \in CallPCs => left[c] \in 1 .. MaxCalls

CInv == CTypeOK /\ HasLog

LEMMA Bounds == /\ NoLog \notin Chats /\ MaxRounds \in Nat \ {0}
                /\ MaxCalls \in Nat /\ MaxCrashes \in Nat
  BY ChatConstants

LEMMA EmptyTable == events = {} => FreeSeq = 0
  BY DEF FreeSeq

LEMMA FreeSeqNat ==
  ASSUME NEW n \in Nat, events = 0 .. (n - 1)
  PROVE  FreeSeq = n
  <1>1. CASE n = 0
    BY <1>1 DEF FreeSeq
  <1>2. CASE n # 0
    <2> DEFINE g == CHOOSE x \in events : \A m \in events : m <= x
    <2>1. n - 1 \in events /\ \A m \in events : m <= n - 1
      BY <1>2
    <2>2. g \in events /\ \A m \in events : m <= g
      BY <2>1
    <2>3. g = n - 1
      BY <2>1, <2>2
    <2>4. FreeSeq = g + 1
      BY <2>1 DEF FreeSeq
    <2> HIDE DEF g
    <2> QED BY <2>3, <2>4
  <1> QED BY <1>1, <1>2

-----------------------------------------------------------------------------
(* The numbers of the log: 0 .. n - 1 are in the table, and no object is   *)
(* ahead of n.                                                             *)

Dense == \E n \in Nat : /\ events = 0 .. (n - 1)
                        /\ \A c \in Chats : next[c] <= n

IInv == CInv /\ Dense

LEMMA InitIInv == CInit => IInv
  <1> SUFFICES ASSUME CInit PROVE IInv
    OBVIOUS
  <1>1. CTypeOK
    BY Bounds DEF CInit, CTypeOK, PCs
  <1>2. HasLog
    BY DEF CInit, HasLog, CallPCs, LoggedPCs, TurnPCs
  <1>3. Dense
    <2>1. events = 0 .. (0 - 1) /\ \A c \in Chats : next[c] <= 0
      BY DEF CInit
    <2> QED BY <2>1 DEF Dense
  <1> QED BY <1>1, <1>2, <1>3 DEF IInv, CInv

\* Appending through an object keeps the numbers dense.
LEMMA AppendDense ==
  ASSUME IInv, NEW c \in Chats, NEW o \in Chats, NEW p, Append(c, o, p)
  PROVE  Dense' /\ next' \in [Chats -> Nat] /\ events' \subseteq Nat
  <1>1. PICK n \in Nat : /\ events = 0 .. (n - 1)
                         /\ \A d \in Chats : next[d] <= n
    BY DEF IInv, Dense
  <1>2. next \in [Chats -> Nat]
    BY DEF IInv, CInv, CTypeOK
  <1>3. CASE next[o] \in events
    <2>1. events' = events /\ next' = next
      BY <1>3 DEF Append
    <2> QED BY <2>1 DEF IInv, CInv, CTypeOK, Dense
  <1>4. CASE next[o] \notin events
    <2>1. next[o] = n
      BY <1>1, <1>2, <1>4
    <2>2. events' = 0 .. n /\ next' = [next EXCEPT ![o] = n + 1]
      <3>1. events' = events \cup {n} /\ next' = [next EXCEPT ![o] = n + 1]
        BY <1>4, <2>1 DEF Append
      <3>2. 0 .. n = (0 .. (n - 1)) \cup {n}
        OBVIOUS
      <3> QED BY <1>1, <3>1, <3>2
    <2>3. events' = 0 .. ((n + 1) - 1) /\ \A d \in Chats : next'[d] <= n + 1
      BY <1>1, <1>2, <2>2
    <2> QED BY <1>2, <2>2, <2>3 DEF Dense
  <1> QED BY <1>3, <1>4

LEMMA DenseStays ==
  ASSUME IInv, UNCHANGED <<events, next>>
  PROVE  Dense' /\ next' \in [Chats -> Nat] /\ events' \subseteq Nat
  BY DEF IInv, CInv, CTypeOK, Dense

\* An event of the turn, through the object in the map.
LEMMA EmitStep ==
  ASSUME IInv, NEW c \in Chats, NEW at \in TurnPCs, NEW p \in PCs, Emit(c, at, p),
         p \in LoggedPCs => at \in LoggedPCs, p \in CallPCs => at \in CallPCs
  PROVE  IInv'
  <1>1. cached \in Chats
    BY DEF IInv, CInv, HasLog, Emit, At
  <1>2. Append(c, cached, p)
    BY DEF Emit
  <1>3. Dense' /\ next' \in [Chats -> Nat] /\ events' \subseteq Nat
    BY <1>1, <1>2, AppendDense
  <1>4. /\ pc' \in [Chats -> PCs]
        /\ \A d \in Chats : d # c => pc'[d] = pc[d]
        /\ pc'[c] \in {p, "say"} /\ pc[c] = at
    BY <1>2 DEF Append, Goto, Emit, At, IInv, CInv, CTypeOK, PCs
  <1>5. CTypeOK'
    BY <1>3, <1>4 DEF IInv, CInv, CTypeOK, Emit, tables, reply, stream
  <1>6. HasLog'
    BY <1>4 DEF IInv, CInv, HasLog, Emit, reply, TurnPCs, LoggedPCs, CallPCs
  <1> QED BY <1>3, <1>5, <1>6 DEF IInv, CInv

LEMMA NextIInv == IInv /\ [CNext]_cvars => IInv'
  <1> SUFFICES ASSUME IInv, [CNext]_cvars PROVE IInv'
    OBVIOUS
  <1> USE Bounds DEF IInv, CInv, At, Goto, PCs, logs, tables, reply, stream
  <1>1. CASE UNCHANGED cvars
    BY <1>1, DenseStays DEF cvars, CTypeOK, HasLog
  <1>2. CASE Crash
    <2>1. CTypeOK'
      BY <1>2 DEF CTypeOK, Crash
    <2>2. HasLog'
      BY <1>2 DEF CTypeOK, HasLog, Crash, TurnPCs, LoggedPCs, CallPCs
    <2>3. Dense'
      BY <1>2 DEF Dense, Crash
    <2> QED BY <2>1, <2>2, <2>3
  <1>3. ASSUME NEW c \in Chats, ChatStream(c) \/ Finish(c) \/ Disconnect(c)
        PROVE  IInv'
    <2>1. Dense'
      BY <1>3, DenseStays DEF ChatStream, Finish, Disconnect
    <2>2. CTypeOK'
      <3>1. CASE ChatStream(c)
        BY <3>1 DEF ChatStream, CTypeOK
      <3>2. CASE Finish(c)
        BY <3>2 DEF Finish, CTypeOK
      <3>3. CASE Disconnect(c)
        BY <3>3 DEF Disconnect, CTypeOK
      <3> QED BY <1>3, <3>1, <3>2, <3>3
    <2>3. HasLog'
      BY <1>3 DEF ChatStream, Finish, Disconnect, CTypeOK, HasLog, TurnPCs,
                  LoggedPCs, CallPCs
    <2> QED BY <2>1, <2>2, <2>3
  <1>4. ASSUME NEW c \in Chats, Answer(c)
        PROVE  IInv'
    <2> USE DEF Early
    <2>1. CASE RecordIn(c)
      <3>1. Dense'
        BY <2>1, DenseStays DEF RecordIn
      <3>2. CTypeOK'
        BY <2>1 DEF RecordIn, CTypeOK
      <3>3. HasLog'
        BY <2>1 DEF RecordIn, CTypeOK, HasLog, TurnPCs, LoggedPCs, CallPCs
      <3> QED BY <3>1, <3>2, <3>3
    <2>2. CASE Route(c)
      <3>1. Dense'
        BY <2>2, DenseStays DEF Route
      <3>2. CTypeOK'
        BY <2>2 DEF Route, CTypeOK
      <3>3. HasLog'
        BY <2>2 DEF Route, CTypeOK, HasLog, TurnPCs, LoggedPCs, CallPCs
      <3> QED BY <3>1, <3>2, <3>3
    <2>3. CASE Say(c)
      <3>1. Dense'
        BY <2>3, DenseStays DEF Say
      <3>2. CTypeOK'
        BY <2>3 DEF Say, Yield, CTypeOK
      <3>3. HasLog'
        BY <2>3 DEF Say, Yield, CTypeOK, HasLog, TurnPCs, LoggedPCs, CallPCs
      <3> QED BY <3>1, <3>2, <3>3
    <2>4. CASE RecordOut(c) \/ CountMessages(c)
      <3>1. Dense'
        BY <2>4, DenseStays DEF RecordOut, CountMessages
      <3>2. CTypeOK'
        <4>1. CASE RecordOut(c)
          BY <4>1 DEF RecordOut, CTypeOK
        <4>2. CASE CountMessages(c)
          BY <4>2 DEF CountMessages, CTypeOK
        <4> QED BY <2>4, <4>1, <4>2
      <3>3. HasLog'
        BY <2>4 DEF RecordOut, CountMessages, CTypeOK, HasLog, TurnPCs, LoggedPCs,
                    CallPCs
      <3> QED BY <3>1, <3>2, <3>3
    <2>5. CASE RecordFails(c)
      <3>1. Dense'
        BY <2>5, DenseStays DEF RecordFails
      <3>2. CTypeOK'
        BY <2>5 DEF RecordFails, CTypeOK
      <3>3. HasLog'
        BY <2>5 DEF RecordFails, CTypeOK, HasLog, TurnPCs, LoggedPCs, CallPCs
      <3> QED BY <3>1, <3>2, <3>3
    <2>6. CASE Close(c)
      <3>1. Dense'
        BY <2>6, DenseStays DEF Close
      <3>2. CTypeOK'
        BY <2>6 DEF Close, Forget, CTypeOK
      <3>3. HasLog'
        BY <2>6 DEF Close, Forget, CTypeOK, HasLog, TurnPCs, LoggedPCs, CallPCs
      <3> QED BY <3>1, <3>2, <3>3
    <2> QED BY <1>4, <2>1, <2>2, <2>3, <2>4, <2>5, <2>6 DEF Answer
  <1>5. ASSUME NEW c \in Chats, Turn(c)
        PROVE  IInv'
    <2> USE DEF TurnPCs, LoggedPCs, CallPCs
    <2>1. CASE MakeLog(c)
      <3>1. PICK n \in Nat : /\ events = 0 .. (n - 1)
                             /\ \A d \in Chats : next[d] <= n
        BY DEF Dense
      <3>2. next' = [next EXCEPT ![c] = n]
        BY <2>1, <3>1, FreeSeqNat DEF MakeLog
      <3>3. Dense' /\ next' \in [Chats -> Nat]
        <4>1. events' = 0 .. (n - 1)
          BY <2>1, <3>1 DEF MakeLog
        <4>2. \A d \in Chats : next'[d] <= n
          BY <3>1, <3>2 DEF CTypeOK
        <4>3. next' \in [Chats -> Nat]
          BY <3>2 DEF CTypeOK
        <4> QED BY <4>1, <4>2, <4>3 DEF Dense
      <3>4. CTypeOK'
        BY <2>1, <3>3 DEF MakeLog, CTypeOK
      <3>5. HasLog'
        BY <2>1 DEF MakeLog, CTypeOK, HasLog
      <3> QED BY <3>3, <3>4, <3>5
    <2>2. CASE StoreLog(c)
      <3>1. Dense'
        BY <2>2, DenseStays DEF StoreLog
      <3>2. CTypeOK'
        BY <2>2 DEF StoreLog, CTypeOK
      <3>3. HasLog'
        BY <2>2 DEF StoreLog, CTypeOK, HasLog
      <3> QED BY <3>1, <3>2, <3>3
    <2>3. CASE TurnStart(c)
      BY <2>3, EmitStep DEF TurnStart
    <2>4. CASE UserMessage(c)
      <3>1. cached \in Chats /\ Append(c, cached, "round")
        BY <2>4 DEF UserMessage, HasLog
      <3>2. Dense' /\ next' \in [Chats -> Nat] /\ events' \subseteq Nat
        BY <3>1, AppendDense
      <3>3. pc' \in [Chats -> PCs] /\ \A d \in Chats : d # c => pc'[d] = pc[d]
        BY <3>1 DEF Append, CTypeOK
      <3>4. pc'[c] \in {"round", "say"}
        BY <3>1 DEF Append, CTypeOK
      <3>5. CTypeOK'
        BY <2>4, <3>1, <3>2, <3>3 DEF UserMessage, CTypeOK
      <3>6. HasLog'
        BY <2>4, <3>1, <3>3, <3>4 DEF UserMessage, CTypeOK, HasLog
      <3> QED BY <3>2, <3>5, <3>6
    <2>5. CASE Round(c)
      <3>1. Dense'
        BY <2>5, DenseStays DEF Round
      <3>2. CTypeOK'
        BY <2>5 DEF Round, CTypeOK
      <3>3. HasLog'
        BY <2>5 DEF Round, CTypeOK, HasLog
      <3> QED BY <3>1, <3>2, <3>3
    <2>6. CASE StepStart(c)
      BY <2>6, EmitStep DEF StepStart
    <2>7. CASE Chunk(c)
      <3>1. Dense'
        BY <2>7, DenseStays DEF Chunk
      <3>2. CTypeOK'
        BY <2>7 DEF Chunk, Yield, CTypeOK
      <3>3. HasLog'
        BY <2>7 DEF Chunk, Yield, CTypeOK, HasLog
      <3> QED BY <3>1, <3>2, <3>3
    <2>8. CASE SetCalls(c)
      <3>1. Dense'
        BY <2>8, DenseStays DEF SetCalls
      <3>2. CTypeOK'
        BY <2>8 DEF SetCalls, CTypeOK
      <3>3. HasLog'
        BY <2>8 DEF SetCalls, CTypeOK, HasLog
      <3> QED BY <3>1, <3>2, <3>3
    <2>9. CASE TurnRaises(c)
      <3>1. Dense'
        BY <2>9, DenseStays DEF TurnRaises
      <3>2. CTypeOK'
        BY <2>9 DEF TurnRaises, CTypeOK
      <3>3. HasLog'
        BY <2>9 DEF TurnRaises, CTypeOK, HasLog
      <3> QED BY <3>1, <3>2, <3>3
    <2>10. CASE AssistantMessage(c)
      <3>1. log[c] \in Chats
        BY <2>10 DEF AssistantMessage, HasLog
      <3>2. Dense' /\ next' \in [Chats -> Nat] /\ events' \subseteq Nat
        <4>1. CASE Append(c, log[c], "calls.read")
          BY <3>1, <4>1, AppendDense
        <4>2. CASE UNCHANGED <<events, next>>
          BY <4>2, DenseStays
        <4> QED BY <2>10, <4>1, <4>2 DEF AssistantMessage
      <3>3. pc' \in [Chats -> PCs] /\ \A d \in Chats : d # c => pc'[d] = pc[d]
        BY <2>10 DEF AssistantMessage, Append, CTypeOK
      <3>4. pc'[c] \in {"calls.read", "say"}
        BY <2>10 DEF AssistantMessage, Append, CTypeOK
      <3>5. CTypeOK'
        BY <2>10, <3>2, <3>3 DEF AssistantMessage, CTypeOK
      <3>6. HasLog'
        BY <2>10, <3>1, <3>3, <3>4 DEF AssistantMessage, CTypeOK, HasLog
      <3> QED BY <3>2, <3>5, <3>6
    <2>11. CASE ReadCalls(c)
      <3>1. Dense'
        BY <2>11, DenseStays DEF ReadCalls
      <3>2. CTypeOK'
        BY <2>11 DEF ReadCalls, CTypeOK
      <3>3. HasLog'
        BY <2>11 DEF ReadCalls, CTypeOK, HasLog
      <3> QED BY <3>1, <3>2, <3>3
    <2>12. CASE ToolCall(c)
      BY <2>12, EmitStep DEF ToolCall
    <2>13. CASE SayCall(c) \/ ExecTool(c)
      <3>1. Dense'
        BY <2>13, DenseStays DEF SayCall, ExecTool
      <3>2. CTypeOK'
        <4>1. CASE SayCall(c)
          BY <4>1 DEF SayCall, Yield, CTypeOK
        <4>2. CASE ExecTool(c)
          BY <4>2 DEF ExecTool, CTypeOK
        <4> QED BY <2>13, <4>1, <4>2
      <3>3. HasLog'
        BY <2>13 DEF SayCall, Yield, ExecTool, CTypeOK, HasLog
      <3> QED BY <3>1, <3>2, <3>3
    <2>14. CASE ToolResult(c)
      BY <2>14, EmitStep DEF ToolResult
    <2>15. CASE SayResult(c)
      <3>1. Dense'
        BY <2>15, DenseStays DEF SayResult
      <3>2. left[c] \in 1 .. MaxCalls
        BY <2>15 DEF SayResult, HasLog
      <3>3. CTypeOK'
        BY <2>15, <3>2 DEF SayResult, Yield, CTypeOK
      <3>4. HasLog'
        BY <2>15, <3>2 DEF SayResult, Yield, CTypeOK, HasLog
      <3> QED BY <3>1, <3>3, <3>4
    <2>16. CASE StepEnd(c)
      BY <2>16, EmitStep DEF StepEnd
    <2>17. CASE StepLast(c)
      BY <2>17, EmitStep DEF StepLast
    <2>18. CASE TurnEnd(c)
      BY <2>18, EmitStep DEF TurnEnd
    <2> QED
      BY <1>5, <2>1, <2>2, <2>3, <2>4, <2>5, <2>6, <2>7, <2>8, <2>9, <2>10, <2>11,
         <2>12, <2>13, <2>14, <2>15, <2>16, <2>17, <2>18
      DEF Turn
  <1> QED BY <1>1, <1>2, <1>3, <1>4, <1>5 DEF CNext, Produce

LEMMA LogInvariant == CSpec => []IInv
  BY InitIInv, NextIInv, PTL DEF CSpec

\* For any instance: the map, the tables, the threads and the streams of the chats
\* are always well typed.
THEOREM ChatTyping == CSpec => []CTypeOK
  BY LogInvariant, PTL DEF IInv, CInv

\* For any number of chats and restarts: the events of the session are numbered
\* from 0 without a gap, whatever objects append them.
THEOREM LogNumbersDense == CSpec => []LogDense
  <1>1. IInv => LogDense
    BY DEF IInv, Dense, LogDense
  <1> QED BY <1>1, LogInvariant, PTL

-----------------------------------------------------------------------------
(* Cancellation: a chat that has started a tool after its cancellation is  *)
(* between that tool and its end.                                          *)

LeavingPCs == {"result", "result.say", "say", "close", "end", "dead"}

LateInv == \A c \in Chats : late[c] = 0 \/ /\ late[c] = 1 /\ cancel[c]
                                           /\ pc[c] \in LeavingPCs

LEMMA InitLate == CInit => LateInv
  BY DEF CInit, LateInv

LEMMA NextLate == CTypeOK /\ LateInv /\ [CNext]_cvars => LateInv'
  <1> SUFFICES ASSUME CTypeOK, LateInv, [CNext]_cvars PROVE LateInv'
    OBVIOUS
  <1> USE DEF CTypeOK, LateInv, LeavingPCs, At, Goto, logs, tables, reply, stream
  <1>1. CASE UNCHANGED cvars
    BY <1>1 DEF cvars
  <1>2. CASE Crash
    BY <1>2 DEF Crash
  <1>3. ASSUME NEW c \in Chats, ChatStream(c) \/ Finish(c) \/ Disconnect(c)
        PROVE  LateInv'
    BY <1>3 DEF ChatStream, Finish, Disconnect
  <1>4. ASSUME NEW c \in Chats, Answer(c)
        PROVE  LateInv'
    <2>1. CASE RecordIn(c) \/ Route(c)
      BY <2>1 DEF RecordIn, Route
    <2>2. CASE Say(c)
      BY <2>2 DEF Say, Yield
    <2>3. CASE RecordOut(c) \/ CountMessages(c)
      BY <2>3 DEF RecordOut, CountMessages
    <2>4. CASE RecordFails(c)
      BY <2>4 DEF RecordFails
    <2>5. CASE Close(c)
      BY <2>5 DEF Close
    <2> QED BY <1>4, <2>1, <2>2, <2>3, <2>4, <2>5 DEF Answer
  <1>5. ASSUME NEW c \in Chats, Turn(c)
        PROVE  LateInv'
    <2>1. CASE ExecTool(c)
      BY <2>1 DEF ExecTool
    <2>2. CASE SayResult(c) \/ SayCall(c)
      BY <2>2 DEF SayResult, SayCall, Yield
    <2>3. CASE Chunk(c)
      BY <2>3 DEF Chunk, Yield
    <2>4. CASE Round(c) \/ SetCalls(c) \/ TurnRaises(c)
      BY <2>4 DEF Round, SetCalls, TurnRaises
    <2>5. CASE AssistantMessage(c) \/ ReadCalls(c)
      BY <2>5 DEF AssistantMessage, Append, ReadCalls
    <2>6. CASE MakeLog(c) \/ StoreLog(c)
      BY <2>6 DEF MakeLog, StoreLog
    <2>7. CASE UserMessage(c) \/ TurnStart(c) \/ StepStart(c)
      BY <2>7 DEF UserMessage, TurnStart, StepStart, Emit, Append
    <2>8. CASE ToolCall(c) \/ ToolResult(c)
      BY <2>8 DEF ToolCall, ToolResult, Emit, Append
    <2>9. CASE StepEnd(c) \/ StepLast(c) \/ TurnEnd(c)
      BY <2>9 DEF StepEnd, StepLast, TurnEnd, Emit, Append
    <2> QED BY <1>5, <2>1, <2>2, <2>3, <2>4, <2>5, <2>6, <2>7, <2>8, <2>9 DEF Turn
  <1> QED BY <1>1, <1>2, <1>3, <1>4, <1>5 DEF CNext, Produce

\* For any number of rounds and tool calls: a turn whose client has gone starts at
\* most the one tool it was about to run.
THEOREM CancelledTurnStops == CSpec => []CancelStopsTools
  <1>1. LateInv => CancelStopsTools
    BY DEF LateInv, CancelStopsTools
  <1> QED BY <1>1, ChatTyping, InitLate, NextLate, PTL DEF CSpec

-----------------------------------------------------------------------------
(* What is recorded when a chat is over.  On its way a chat has recorded   *)
(* its message, and its reply too from "count" on, or from the moment it   *)
(* is said if it was recorded first; "close" is reached with an error, by  *)
(* a client that has gone, or with both recorded.                          *)

Over == {"close", "end", "dead"}

AnswerInv ==
  \A c \in Chats :
    /\ pc[c] = "new" => client[c] = "none" /\ ~ cancel[c]
    /\ pc[c] \in {"new", "in"} => path[c] = "talk"
    /\ pc[c] \in TurnPCs \cup {"route", "make", "store"} => ~ Early(c)
    /\ pc[c] \notin Over => fate[c] = "open"
    /\ pc[c] \notin Over \cup {"new", "in"} => rows[c] >= 1
    /\ pc[c] = "count" \/ (pc[c] = "say" /\ Early(c)) => rows[c] >= 2
    /\ pc[c] = "close" => \/ fate[c] = "error" \/ client[c] = "gone"
                          \/ rows[c] >= 2
    /\ fate[c] = "done" => client[c] = "gone" \/ rows[c] >= 2
    /\ cancel[c] /\ fate[c] = "open" => client[c] = "gone"
    /\ client[c] = "done" => rows[c] >= 2

LEMMA InitAnswer == CInit => AnswerInv
  BY DEF CInit, AnswerInv, TurnPCs, LoggedPCs, CallPCs, Early, Over

LEMMA NextAnswer == CTypeOK /\ AnswerInv /\ [CNext]_cvars => AnswerInv'
  <1> SUFFICES ASSUME CTypeOK, AnswerInv, [CNext]_cvars PROVE AnswerInv'
    OBVIOUS
  <1> USE DEF CTypeOK, AnswerInv, TurnPCs, LoggedPCs, CallPCs, Early, Over, At,
              Goto, logs, tables, reply, stream
  <1>1. CASE UNCHANGED cvars
    BY <1>1 DEF cvars
  <1>2. CASE Crash
    BY <1>2 DEF Crash
  <1>3. ASSUME NEW c \in Chats, ChatStream(c) \/ Finish(c) \/ Disconnect(c)
        PROVE  AnswerInv'
    <2>1. CASE ChatStream(c)
      BY <2>1 DEF ChatStream
    <2>2. CASE Finish(c)
      BY <2>2 DEF Finish
    <2>3. CASE Disconnect(c)
      BY <2>3 DEF Disconnect
    <2> QED BY <1>3, <2>1, <2>2, <2>3
  <1>4. ASSUME NEW c \in Chats, Answer(c)
        PROVE  AnswerInv'
    <2>1. CASE RecordIn(c)
      BY <2>1 DEF RecordIn
    <2>2. CASE Route(c)
      BY <2>2 DEF Route
    <2>3. CASE Say(c)
      BY <2>3 DEF Say, Yield
    <2>4. CASE RecordOut(c)
      BY <2>4 DEF RecordOut
    <2>5. CASE CountMessages(c)
      BY <2>5 DEF CountMessages
    <2>6. CASE RecordFails(c)
      BY <2>6 DEF RecordFails
    <2>7. CASE Close(c)
      BY <2>7 DEF Close, Forget
    <2> QED BY <1>4, <2>1, <2>2, <2>3, <2>4, <2>5, <2>6, <2>7 DEF Answer
  <1>5. ASSUME NEW c \in Chats, Turn(c)
        PROVE  AnswerInv'
    <2>1. CASE ExecTool(c)
      BY <2>1 DEF ExecTool
    <2>2. CASE SayResult(c)
      BY <2>2 DEF SayResult, Yield
    <2>3. CASE Chunk(c) \/ SayCall(c)
      BY <2>3 DEF Chunk, SayCall, Yield
    <2>4. CASE Round(c) \/ SetCalls(c) \/ TurnRaises(c)
      BY <2>4 DEF Round, SetCalls, TurnRaises
    <2>5. CASE AssistantMessage(c) \/ ReadCalls(c)
      BY <2>5 DEF AssistantMessage, Append, ReadCalls
    <2>6. CASE MakeLog(c) \/ StoreLog(c)
      BY <2>6 DEF MakeLog, StoreLog
    <2>7. CASE UserMessage(c) \/ TurnStart(c) \/ StepStart(c)
      BY <2>7 DEF UserMessage, TurnStart, StepStart, Emit, Append
    <2>8. CASE ToolCall(c) \/ ToolResult(c)
      BY <2>8 DEF ToolCall, ToolResult, Emit, Append
    <2>9. CASE StepEnd(c) \/ StepLast(c) \/ TurnEnd(c)
      BY <2>9 DEF StepEnd, StepLast, TurnEnd, Emit, Append
    <2> QED BY <1>5, <2>1, <2>2, <2>3, <2>4, <2>5, <2>6, <2>7, <2>8, <2>9 DEF Turn
  <1> QED BY <1>1, <1>2, <1>3, <1>4, <1>5 DEF CNext, Produce

\* For any instance: a client that gets done for its message has both the message
\* and a reply in the conversation.
THEOREM DoneMeansRecorded == CSpec => []AnsweredIsRecorded
  <1>1. AnswerInv => AnsweredIsRecorded
    BY DEF AnswerInv, AnsweredIsRecorded
  <1> QED BY <1>1, ChatTyping, InitAnswer, NextAnswer, PTL DEF CSpec

-----------------------------------------------------------------------------
(* What is counted.  Each chat that was counted, once, has recorded its    *)
(* message and its reply before, and only says the reply from then on; the *)
(* chats that were not counted do not come to "done".                      *)

CountedAs(S) ==
  /\ count = 2 * Cardinality(S)
  /\ \A c \in S : rows[c] >= 2 /\ (pc[c] \in Over \/ (pc[c] = "say" /\ Early(c)))
  /\ \A c \in Chats : /\ pc[c] = "say" /\ Early(c) => c \in S
                      /\ pc[c] = "close" /\ fate[c] # "error" => c \in S \/ client[c] = "gone"
                      /\ fate[c] = "done" => c \in S \/ client[c] = "gone"
                      /\ client[c] = "done" => c \in S

CountInv == \E S \in SUBSET Chats : CountedAs(S)

LEMMA InitCount == CInit => CountInv
<1> SUFFICES ASSUME CInit PROVE CountedAs({})
  BY DEF CountInv
<1>1. Cardinality({}) = 0
  BY FS_EmptySet
<1> QED BY <1>1 DEF CInit, CountedAs

LEMMA CountsOnce ==
  ASSUME CTypeOK, NEW S \in SUBSET Chats, CountedAs(S), AnswerInv, NEW c \in Chats, CountMessages(c)
  PROVE  CountedAs(S \cup {c})'
<1>1. c \notin S /\ rows[c] >= 2 /\ count' = count + 2
  BY DEF CountedAs, AnswerInv, CountMessages, At, Over
<1>2. Cardinality(S \cup {c}) = Cardinality(S) + 1 /\ Cardinality(S) \in Nat
  BY <1>1, ChatConstants, FS_Subset, FS_AddElement, FS_CardinalityType
<1>3. PICK n \in Nat : n = Cardinality(S) /\ n + 1 = Cardinality(S \cup {c})
  BY <1>2
<1>4. count' = 2 * Cardinality(S \cup {c})
  BY <1>1, <1>3 DEF CountedAs
<1> QED BY <1>1, <1>4 DEF CountedAs, CTypeOK, CountMessages, Goto, At, Over, Early, logs, tables, reply, stream

(* A step that counts nothing.                                              *)
LEMMA SameCount ==
  ASSUME CTypeOK, AnswerInv, NEW S \in SUBSET Chats, CountedAs(S), [CNext]_cvars,
         ~ \E c \in Chats : CountMessages(c)
  PROVE  CountedAs(S)'
<1> USE DEF CTypeOK, CountedAs, AnswerInv, TurnPCs, LoggedPCs, CallPCs, Early, Over, At, Goto, logs,
            tables, reply, stream
<1>1. CASE UNCHANGED cvars
  BY <1>1 DEF cvars
<1>2. CASE Crash
  BY <1>2 DEF Crash
<1>3. ASSUME NEW c \in Chats, ChatStream(c) \/ Finish(c) \/ Disconnect(c)
      PROVE  CountedAs(S)'
  <2>1. CASE ChatStream(c)
    BY <2>1 DEF ChatStream
  <2>2. CASE Finish(c)
    BY <2>2 DEF Finish
  <2>3. CASE Disconnect(c)
    BY <2>3 DEF Disconnect
  <2> QED BY <1>3, <2>1, <2>2, <2>3
<1>4. ASSUME NEW c \in Chats, Answer(c)
      PROVE  CountedAs(S)'
  <2>1. CASE RecordIn(c)
    BY <2>1 DEF RecordIn
  <2>2. CASE Route(c)
    BY <2>2 DEF Route
  <2>3. CASE Say(c)
    BY <2>3 DEF Say, Yield
  <2>4. CASE RecordOut(c)
    BY <2>4 DEF RecordOut
  <2>5. CASE RecordFails(c)
    BY <2>5 DEF RecordFails
  <2>6. CASE Close(c)
    BY <2>6 DEF Close, Forget
  <2> QED BY <1>4, <2>1, <2>2, <2>3, <2>4, <2>5, <2>6 DEF Answer
<1>5. ASSUME NEW c \in Chats, Turn(c)
      PROVE  CountedAs(S)'
  <2>1. CASE ExecTool(c)
    BY <2>1 DEF ExecTool
  <2>2. CASE SayResult(c)
    BY <2>2 DEF SayResult, Yield
  <2>3. CASE Chunk(c) \/ SayCall(c)
    BY <2>3 DEF Chunk, SayCall, Yield
  <2>4. CASE Round(c) \/ SetCalls(c) \/ TurnRaises(c)
    BY <2>4 DEF Round, SetCalls, TurnRaises
  <2>5. CASE AssistantMessage(c) \/ ReadCalls(c)
    BY <2>5 DEF AssistantMessage, Append, ReadCalls
  <2>6. CASE MakeLog(c) \/ StoreLog(c)
    BY <2>6 DEF MakeLog, StoreLog
  <2>7. CASE UserMessage(c) \/ TurnStart(c) \/ StepStart(c)
    BY <2>7 DEF UserMessage, TurnStart, StepStart, Emit, Append
  <2>8. CASE ToolCall(c) \/ ToolResult(c)
    BY <2>8 DEF ToolCall, ToolResult, Emit, Append
  <2>9. CASE StepEnd(c) \/ StepLast(c) \/ TurnEnd(c)
    BY <2>9 DEF StepEnd, StepLast, TurnEnd, Emit, Append
  <2> QED BY <1>5, <2>1, <2>2, <2>3, <2>4, <2>5, <2>6, <2>7, <2>8, <2>9 DEF Turn
<1> QED BY <1>1, <1>2, <1>3, <1>4, <1>5 DEF CNext, Produce

LEMMA NextCount == CTypeOK /\ AnswerInv /\ CountInv /\ [CNext]_cvars => CountInv'
<1> SUFFICES ASSUME CTypeOK, AnswerInv, CountInv, [CNext]_cvars PROVE CountInv'
  OBVIOUS
<1>1. PICK S \in SUBSET Chats : CountedAs(S)
  BY DEF CountInv
<1>2. ASSUME NEW c \in Chats, CountMessages(c) PROVE CountInv'
  <2>1. CountedAs(S \cup {c})'
    BY <1>1, <1>2, CountsOnce
  <2> QED BY <2>1 DEF CountInv
<1>3. CASE ~ \E c \in Chats : CountMessages(c)
  BY <1>1, <1>3, SameCount DEF CountInv
<1> QED BY <1>2, <1>3

LEMMA MessagesAreFinite == CTypeOK => IsFiniteSet(Messages)
<1> SUFFICES ASSUME CTypeOK PROVE IsFiniteSet(Messages)
  OBVIOUS
<1> DEFINE own(c) == {c} \X (1 .. rows[c])
           some   == {own(c) : c \in Chats}
           f      == [c \in Chats |-> own(c)]
<1>1. \A T \in some : IsFiniteSet(T)
  <2> SUFFICES ASSUME NEW c \in Chats PROVE IsFiniteSet(own(c))
    OBVIOUS
  <2>1. IsFiniteSet(1 .. rows[c])
    BY FS_Interval DEF CTypeOK
  <2> QED BY <2>1, FS_Singleton, FS_Product
<1>2. IsFiniteSet(some)
  <2> HIDE DEF own
  <2>1. f \in Surjection(Chats, some)
    BY DEF Surjection
  <2> HIDE DEF f, some
  <2> QED BY <2>1, ChatConstants, FS_Surjection
<1>3. Messages = UNION some
  BY DEF Messages
<1> HIDE DEF some
<1> QED BY <1>1, <1>2, <1>3, FS_UNION

LEMMA CountShows == CTypeOK /\ CountInv => CountMatches
<1> SUFFICES ASSUME CTypeOK, CountInv PROVE CountMatches
  OBVIOUS
<1>1. PICK S \in SUBSET Chats : CountedAs(S)
  BY DEF CountInv
<1> DEFINE answered == {c \in Chats : client[c] = "done"}
<1>2. /\ IsFiniteSet(S) /\ answered \subseteq S
      /\ IsFiniteSet(1 .. 2) /\ Cardinality(1 .. 2) = 2
  <2>1. IsFiniteSet(1 .. 2) /\ Cardinality(1 .. 2) = 2
    <3>1. PICK a, b \in Int : a = 1 /\ b = 2
      OBVIOUS
    <3>2. IsFiniteSet(a .. b) /\ Cardinality(a .. b) = IF a > b THEN 0 ELSE b - a + 1
      BY FS_Interval
    <3> QED BY <3>1, <3>2
  <2>2. IsFiniteSet(S)
    BY ChatConstants, FS_Subset
  <2>3. answered \subseteq S
    BY <1>1 DEF CountedAs
  <2> QED BY <2>1, <2>2, <2>3
<1>3. S \X (1 .. 2) \subseteq Messages
  BY <1>1 DEF CountedAs, Messages, CTypeOK
<1>4. Cardinality(S \X (1 .. 2)) = Cardinality(S) * 2
  BY <1>2, FS_Product
<1>5. Cardinality(S \X (1 .. 2)) <= Cardinality(Messages)
  BY <1>3, MessagesAreFinite, FS_Subset
<1>6. Cardinality(answered) <= Cardinality(S)
  BY <1>2, FS_Subset
<1>7. PICK n, k \in Nat : n = Cardinality(S) /\ k = Cardinality(answered)
  BY <1>2, FS_Subset, FS_CardinalityType
<1>8. count = 2 * n
  BY <1>1, <1>7 DEF CountedAs
<1> QED BY <1>4, <1>5, <1>6, <1>7, <1>8 DEF CountMatches

\* For any number of chats, restarts and failing writes: the session's counter is not
\* ahead of what was recorded, and has both messages of each chat that was answered.
THEOREM CountIsKept == CSpec => []CountMatches
BY ChatTyping, NextAnswer, NextCount, CountShows, InitAnswer, InitCount, PTL DEF CSpec
=============================================================================
