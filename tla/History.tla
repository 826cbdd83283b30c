-------------------------------- MODULE History --------------------------------
(***************************************************************************)
(* What the model is told of the conversation: the history of core/memory.py     *)
(* and core/db.py with its budget and its cached summary, under chats that go      *)
(* on at the same time; and the strategies of core/compaction.py.              *)
(***************************************************************************)
EXTENDS Integers, Sequences, FiniteSets

CONSTANTS Talks,       \* chats under way at the same time
          MaxTalk,     \* bound on the messages
          MaxHistory,  \* max_history
          MaxTokens,   \* max_history_tokens
          KeepRecent,  \* summary_keep_recent
          SummaryLife, \* the execution logs that are searched for a summary
          Windows      \* the settings (first, last, recent) of a compaction

ASSUME HistoryConstants == /\ MaxTalk \in Nat /\ MaxHistory \in Nat \ {0}
                           /\ MaxTokens \in Nat \ {0} /\ KeepRecent \in Nat \ {0}
                           /\ SummaryLife \in Nat \ {0}
                           /\ \A w \in Windows : /\ w.first \in Nat \ {0} /\ w.last \in Nat \ {0}
                                                 /\ w.recent \in Nat \ {0, 1}

(* A message is its role, its text (0 is empty; the number is its tokens) and     *)
(* its place in the conversation.                                            *)
Roles == {"user", "assistant"}
Texts == 0 .. 2
Says(role, text, n) == [role |-> role, text |-> text, n |-> n]

LastN(s, k) == SubSeq(s, IF Len(s) > k THEN Len(s) - k + 1 ELSE 1, Len(s))   \* s[-k:], k > 0

(* A part of a conversation is the set of its places, since all keep their order.     *)
LastOf(S, k) == {n \in S : Cardinality({m \in S : m > n}) < k}   \* the same of a part

Tokens(log, S) == LET all == Cardinality({p \in S \X Texts : 0 < p[2] /\ p[2] <= log[p[1]].text})
                  IN  IF all = 0 THEN 1 ELSE all

---------------------------------------------------------------------------
(* The history of a session.                                                *)

SameSaid(a, b) == a.role = b.role /\ a.text = b.text
Worded(log, S) == {n \in S : log[n].text # 0}

(* Empty messages, and those that say what the last one kept says, are skipped:      *)
(* it says what the last one with a text says.                                 *)
Distinct(log, S) ==
  {n \in Worded(log, S) :
     \A m \in Worded(log, S) : /\ m < n /\ \A l \in Worded(log, S) : l <= m \/ n <= l
                               => ~SameSaid(log[m], log[n])}

DbHistory(log, n) == LastOf(Distinct(log, LastOf(DOMAIN log, 2 * n)), n)

(* The oldest go until the rest fits; one message stays, however long.            *)
Fitting(log, S, budget) ==
  {n \in S : (\A m \in S : m <= n) \/ Tokens(log, {m \in S : m >= n}) <= budget}

HistoryForLlm(log, n, budget) == LastOf(Fitting(log, DbHistory(log, 2 * n), budget), n)

---------------------------------------------------------------------------
(* Chats.  All of them read the session "default", whose messages these are.      *)

VARIABLES
  said,     \* conversations: the session's messages
  done,     \* execution_logs: 0 for a turn, or the places that a summary stands for
  talk,     \* of each chat: its step, the places it has read, and those the model was told
  squeezed  \* a compaction that is looked at: its input and its result

historyVars == <<said, done, talk, squeezed>>

Silent   == [at |-> "new", read |-> {}, sum |-> {}, told |-> {}, was |-> "none"]
NoSqueeze == [from |-> << >>, to |-> << >>, way |-> "none"]

HistoryIdle == /\ said = << >> /\ done = << >>
               /\ talk = [c \in Talks |-> Silent] /\ squeezed = NoSqueeze

TalkTo(c, t) == talk' = [talk EXCEPT ![c] = t]
Record(role) == \E x \in Texts : said' = Append(said, Says(role, x, Len(said) + 1))

TalkIn(c) == /\ talk[c].at = "new" /\ Len(said) < MaxTalk /\ squeezed = NoSqueeze
             /\ Record("user")
             /\ \E way \in {"read", "out"} : TalkTo(c, [Silent EXCEPT !.at = way])  \* a skill asks no model
             /\ UNCHANGED <<done, squeezed>>

(* Short enough, it is told as it is; summary_enabled is on, as by default.        *)
ReadHistory(c) ==
  /\ talk[c].at = "read"
  /\ LET all == HistoryForLlm(said, 3 * MaxHistory, 3 * MaxTokens) IN
     IF Tokens(said, all) <= MaxTokens \/ Cardinality(all) <= KeepRecent
     THEN TalkTo(c, [Silent EXCEPT !.at = "out", !.read = all, !.told = all])
     ELSE TalkTo(c, [Silent EXCEPT !.at = "look", !.read = all, !.told = LastOf(all, KeepRecent)])
  /\ UNCHANGED <<said, done, squeezed>>

(* The logs come newest first and are searched from their other end.             *)
Remembered == LET recent == LastN(done, SummaryLife)
                  sums   == {i \in DOMAIN recent : recent[i] # {}}
              IN  IF sums = {} THEN {} ELSE recent[CHOOSE i \in sums : \A j \in sums : i <= j]

FindSummary(c) ==
  /\ talk[c].at = "look"
  /\ IF Remembered # {}
     THEN TalkTo(c, [talk[c] EXCEPT !.at = "out", !.sum = Remembered, !.was = "cached"])
     ELSE TalkTo(c, [talk[c] EXCEPT !.at = "keep",
                       !.sum = talk[c].read \ talk[c].told, !.was = "fresh"])
  /\ UNCHANGED <<said, done, squeezed>>

KeepSummary(c) == /\ talk[c].at = "keep" /\ done' = Append(done, talk[c].sum)
                  /\ TalkTo(c, [talk[c] EXCEPT !.at = "out"]) /\ UNCHANGED <<said, squeezed>>

TalkOut(c) == /\ talk[c].at = "out" /\ Len(said) < MaxTalk /\ Record("assistant")
              /\ TalkTo(c, [talk[c] EXCEPT !.at = "log"]) /\ UNCHANGED <<done, squeezed>>

TalkLog(c) == /\ talk[c].at = "log" /\ done' = Append(done, {}) /\ TalkTo(c, Silent)
              /\ UNCHANGED <<said, squeezed>>

---------------------------------------------------------------------------
(* Compactions, of any messages; the first may be the system's.                  *)

Summary == Says("system", 1, 0)

(* The four strategies; a summary may come out empty.                          *)
Squeeze(way, msgs, w, summed) ==
  LET sum == IF summed THEN <<Summary>> ELSE << >> IN
  CASE way = "summary" ->
         IF Len(msgs) <= w.recent THEN msgs ELSE sum \o LastN(msgs, w.recent)
    [] way = "truncate" -> LastN(msgs, w.recent)
    [] way = "sliding" ->
         IF Len(msgs) <= w.recent THEN msgs
         ELSE IF msgs[1].role = "system" THEN <<msgs[1]>> \o LastN(msgs, w.recent - 1)
              ELSE LastN(msgs, w.recent)
    [] OTHER ->   \* heads_tail
         IF Len(msgs) <= w.first + w.last THEN msgs
         ELSE SubSeq(msgs, 1, w.first) \o sum \o LastN(msgs, w.last)

Compact == /\ squeezed = NoSqueeze /\ said # << >> /\ \A c \in Talks : talk[c].at = "new"
           /\ \E way \in {"summary", "truncate", "sliding", "heads_tail"}, w \in Windows,
                 summed, system \in BOOLEAN :
                LET msgs == IF system THEN <<[said[1] EXCEPT !.role = "system"]>> \o Tail(said)
                            ELSE said
                IN  squeezed' = [from |-> msgs, to |-> Squeeze(way, msgs, w, summed), way |-> way]
           /\ UNCHANGED <<said, done, talk>>

HistoryNext == Compact \/ \E c \in Talks : \/ TalkIn(c) \/ ReadHistory(c) \/ FindSummary(c)
                                           \/ KeepSummary(c) \/ TalkOut(c) \/ TalkLog(c)
---------------------------------------------------------------------------
(* What the model is told is the end of the conversation, without repetitions, and     *)
(* within the budget but for a last message that alone is more; a new summary leaves    *)
(* nothing between itself and the messages told.                                *)
ToldWell(c) ==
  LET t == talk[c] IN
  /\ Cardinality(t.told) <= 3 * MaxHistory
  /\ Tokens(said, t.told) <= 3 * MaxTokens \/ Cardinality(t.told) = 1
  /\ t.was = "fresh" => t.sum \cup t.told = t.read /\ \A p \in t.sum, q \in t.told : p < q

(* Every message that says something new and is not told is older than those that     *)
(* are told: the window has no hole, and what follows in it differs.              *)
NoHole(c) ==
  \A p, q \in talk[c].told :
    p < q /\ (\A m \in talk[c].told : m <= p \/ q <= m) =>
      /\ \A n \in p + 1 .. q - 1 : said[n].text = 0 \/ SameSaid(said[n], said[p])
      /\ ~SameSaid(said[p], said[q])

(* Of a conversation within the limits nothing is left out.                       *)
Complete(log, n, budget) ==
  LET all == Distinct(log, DOMAIN log) IN
  Len(log) <= 2 * n /\ Cardinality(all) <= n /\ Tokens(log, all) <= budget
    => HistoryForLlm(log, n, budget) = all

(* A compaction keeps the last message and the order, invents nothing but the        *)
(* summary, and never makes the context longer.                               *)
CompactsWell ==
  LET from == squeezed.from
      to   == squeezed.to IN
  /\ Len(to) <= Len(from)
  /\ to # << >> => to[Len(to)] = from[Len(from)]
  /\ \A i \in DOMAIN to : to[i] = Summary \/ \E j \in DOMAIN from : to[i] = from[j]
  /\ \A i, j \in DOMAIN to : i < j => to[i].n = 0 \/ to[j].n = 0 \/ to[i].n < to[j].n
  /\ squeezed.way = "sliding" /\ from[1].role = "system" => to[1] = from[1]

HistorySound == said # << >> => /\ \A c \in Talks : ToldWell(c) /\ NoHole(c)
                                /\ \A n \in 1 .. 2, budget \in 1 .. 3 : Complete(said, n, budget)
                                /\ CompactsWell
=============================================================================
