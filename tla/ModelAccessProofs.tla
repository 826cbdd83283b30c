-------------------------- MODULE ModelAccessProofs --------------------------
(*****************************************************************************)
(* The calls of the language model and the routing of a message, for any     *)
(* callers, settings, threads and texts.                                     *)
(*                                                                           *)
(* LlmSound.  For each caller, what its stage tells of the settings it has   *)
(* read: as long as no two writers met, a client that was made has a key that*)
(* belongs to its server, and what a call consumed is between the counter and*)
(* what was spent.                                                           *)
(*                                                                           *)
(* IntakeSound.  Of each message, what it has recorded and refused so far;   *)
(* and of the cache, that an entry is in the file, in the copy of the one    *)
(* thread that saves, or of a text whose own thread is yet to save.          *)
(*****************************************************************************)
EXTENDS MCPlatformWork, FiniteSetTheorems, SequenceTheorems, TLAPS

AnyValue    == Pairs \cup Models \cup {""}
AnySettings == [Fields -> AnyValue]
CallStages  == {"none", "lookup", "make", "copy", "name", "server", "rest", "sent", "consume", "save"}
AnyCall     == [at : CallStages, via : Nat, fast : BOOLEAN, name : AnyValue, server : AnyValue,
                key : AnyValue, model : AnyValue, tokens : 0 .. Input + MaxOut, in : Nat, read : Nat]

LlmTypes ==
  /\ file \in Files /\ rows \in AnySettings /\ config \in AnySettings /\ made \in Seq(AnySettings)
  /\ call \in [Callers -> AnyCall] /\ router \in 0 .. Len(made)
  /\ \A c \in Callers : call[c].via \in 0 .. Len(made)
  /\ used \in [1 .. MaxMonth -> Nat] /\ spent \in [1 .. MaxMonth -> Nat] /\ month \in 1 .. MaxMonth
  /\ lost \in BOOLEAN /\ cleared \in BOOLEAN /\ doubled \in BOOLEAN /\ mixed \in BOOLEAN

---------------------------------------------------------------------------
(* Where nothing is set, every field is empty.                                   *)
LEMMA UnsetFits == Unset \in AnySettings /\ \A f \in Fields : Unset[f] = ""
BY DEF Unset, AnySettings, AnyValue, Fields

IsSet(v) == v # ""

(* A key belongs to its own server, and to no other.                             *)
LEMMA OwnKey == \A s, k : Belongs(s, s) /\ (Belongs(k, s) /\ IsSet(k) => s = k)
BY DEF Belongs, IsSet

(* What the environment gives are settings, with a key that belongs to the       *)
(* server.                                                                       *)
LEMMA FilesFit == ASSUME NEW s \in Files PROVE s \in AnySettings /\ Belongs(s["key"], s["server"])
BY LlmConstants DEF AnySettings, AnyValue

(* A caller at rest is a caller.                                                 *)
LEMMA RestingFits == /\ Resting \in AnyCall /\ Resting.at = "none" /\ Resting.via = 0
<1>1. MaxOut \in Nat
  BY LlmConstants
<1>2. 0 \in 0 .. Input + MaxOut
  BY <1>1 DEF Input
<1>3. "" \in AnyValue /\ "none" \in CallStages
  BY DEF AnyValue, CallStages
<1> QED BY <1>2, <1>3 DEF Resting, AnyCall

(* There is a name for the fast model; it differs from the main model's only if  *)
(* it is set.                                                                    *)
LEMMA FastIsSet ==
  ASSUME NEW s \in AnySettings
  PROVE  FastName(s) \in AnyValue /\ (FastName(s) # s["main"] => s["fast"] # "")
BY DEF FastName, AnySettings, Fields

(* The client that a start makes has the settings it was made from.              *)
LEMMA MadeForFits ==
  ASSUME NEW s \in AnySettings
  PROVE  /\ MadeFor(s) \in Seq(AnySettings) /\ Len(MadeFor(s)) \in Nat
         /\ Belongs(s["key"], s["server"]) => \A n \in DOMAIN MadeFor(s) : Belongs(MadeFor(s)[n]["key"], MadeFor(s)[n]["server"])
<1> DEFINE t == [s EXCEPT !["main"] = FastName(s)]
<1>1. t \in AnySettings /\ (Belongs(s["key"], s["server"]) => Belongs(t["key"], t["server"]))
  BY FastIsSet DEF AnySettings, Fields
<1>2. MadeFor(s) = << >> \/ MadeFor(s) = <<t>>
  BY DEF MadeFor
<1> HIDE DEF t
<1>3. CASE MadeFor(s) = << >>
  BY <1>3
<1>4. CASE MadeFor(s) = <<t>>
  BY <1>1, <1>4
<1> QED BY <1>2, <1>3, <1>4

(* What a start loads are settings.                                              *)
LEMMA LoadedFits == ASSUME LlmTypes PROVE Loaded \in AnySettings
BY FilesFit DEF LlmTypes, Loaded, AnySettings

(* What a client reads are settings.                                             *)
LEMMA SettingsFit == ASSUME LlmTypes, NEW n \in 0 .. Len(made) PROVE Settings(n) \in AnySettings
BY DEF LlmTypes, Settings

---------------------------------------------------------------------------
(* What a caller has become after each of its steps.                              *)
LEMMA CallerBecomes ==
  ASSUME LlmTypes, NEW c \in Callers
  PROVE  /\ Call(c) => \E n \in AnyCall : Becomes(c, n) /\ n.at \in {"server", "lookup"} /\ n.via \in 0 .. Len(made)
         /\ GetClient(c) => \E n \in AnyCall :
              /\ Becomes(c, n) /\ n.at \in {"server", "make"} /\ n.via \in 0 .. Len(made)
              /\ n.at = "make" => made = << >> /\ config["fast"] # ""
         /\ MakeClient(c) => \E n \in AnyCall : Becomes(c, n) /\ n.at = "copy" /\ n.via = call[c].via
         /\ CopyConfig(c) => \E n \in AnyCall : Becomes(c, n) /\ n.at = "name" /\ n.via = call[c].via
         /\ NameModel(c)  => \E n \in AnyCall : Becomes(c, n) /\ n.at = "server" /\ n.via = Len(made)
         /\ ReadServer(c) => \E n \in AnyCall :
              Becomes(c, n) /\ n.at = "rest" /\ n.via = call[c].via /\ n.server = Settings(call[c].via)["server"]
         /\ ReadRest(c) => \E n \in AnyCall :
              /\ Becomes(c, n) /\ n.at \in {"none", "sent"} /\ n.via \in {0, call[c].via}
              /\ n.at = "sent" => /\ n.server = call[c].server /\ n.key = Settings(call[c].via)["key"] /\ IsSet(n.key)
                                  /\ BudgetAllows(used[month])
         /\ Unauthorized(c) => \E n \in AnyCall :
              Becomes(c, n) /\ n.at = "sent" /\ n.via = call[c].via /\ n.server = call[c].server /\ n.key = call[c].key
         /\ CallFails(c) \/ SaveMeter(c) => \E n \in AnyCall : Becomes(c, n) /\ n.at = "none" /\ n.via = 0
         /\ ModelAnswers(c) => \E n \in AnyCall : Becomes(c, n) /\ n.at = "consume" /\ n.via = 0
         /\ ReadMeter(c) => \E n \in AnyCall :
              Becomes(c, n) /\ n.at = "save" /\ n.via = call[c].via /\ n.in = month /\ n.read = used[month]
<1> USE DEF Becomes
<1> DEFINE x == call[c]
<1>1. /\ x \in AnyCall /\ x.via \in 0 .. Len(made) /\ router \in 0 .. Len(made) /\ Len(made) \in Nat
      /\ config \in AnySettings /\ Settings(x.via) \in AnySettings /\ used[month] \in Nat /\ month \in Nat
  BY SettingsFit DEF LlmTypes
<1> HIDE DEF x
<1>2. ASSUME Call(c) PROVE \E n \in AnyCall : Becomes(c, n) /\ n.at \in {"server", "lookup"} /\ n.via \in 0 .. Len(made)
  <2>1. [Resting EXCEPT !.at = "server"] \in AnyCall /\ [Resting EXCEPT !.at = "server"].at = "server"
        /\ [Resting EXCEPT !.at = "server"].via = 0
    BY RestingFits DEF AnyCall, CallStages
  <2>2. [Resting EXCEPT !.at = "server", !.via = router, !.fast = TRUE] \in AnyCall
        /\ [Resting EXCEPT !.at = "server", !.via = router, !.fast = TRUE].at = "server"
        /\ [Resting EXCEPT !.at = "server", !.via = router, !.fast = TRUE].via = router
    <3>1. PICK k \in Nat : k = router
      BY <1>1
    <3>2. [Resting EXCEPT !.at = "server", !.via = k, !.fast = TRUE] \in AnyCall
          /\ [Resting EXCEPT !.at = "server", !.via = k, !.fast = TRUE].at = "server"
          /\ [Resting EXCEPT !.at = "server", !.via = k, !.fast = TRUE].via = k
      BY RestingFits DEF AnyCall, CallStages
    <3> QED BY <3>1, <3>2
  <2>3. [Resting EXCEPT !.at = "lookup", !.fast = TRUE] \in AnyCall
        /\ [Resting EXCEPT !.at = "lookup", !.fast = TRUE].at = "lookup"
        /\ [Resting EXCEPT !.at = "lookup", !.fast = TRUE].via = 0
    BY RestingFits DEF AnyCall, CallStages
  <2>4. 0 \in 0 .. Len(made)
    BY <1>1
  <2>5. \/ call' = [call EXCEPT ![c] = [Resting EXCEPT !.at = "server"]]
        \/ call' = [call EXCEPT ![c] = [Resting EXCEPT !.at = "server", !.via = router, !.fast = TRUE]]
        \/ call' = [call EXCEPT ![c] = [Resting EXCEPT !.at = "lookup", !.fast = TRUE]]
    BY <1>2 DEF Call
  <2> QED BY <1>1, <2>1, <2>2, <2>3, <2>4, <2>5
<1>3. ASSUME GetClient(c)
      PROVE  \E n \in AnyCall : /\ Becomes(c, n) /\ n.at \in {"server", "make"} /\ n.via \in 0 .. Len(made)
                                /\ n.at = "make" => made = << >> /\ config["fast"] # ""
  <2>1. ASSUME NEW place \in {"server", "make"} PROVE [x EXCEPT !.at = place] \in AnyCall /\ [x EXCEPT !.at = place].at = place /\ [x EXCEPT !.at = place].via = x.via
    BY <1>1 DEF AnyCall, CallStages
  <2>2. [x EXCEPT !.at = "server", !.via = Len(made)] \in AnyCall /\ [x EXCEPT !.at = "server", !.via = Len(made)].at = "server"
        /\ [x EXCEPT !.at = "server", !.via = Len(made)].via = Len(made)
    BY <1>1 DEF AnyCall, CallStages
  <2>3. FastName(config) \in AnyValue /\ (FastName(config) # config["main"] => config["fast"] # "")
    BY <1>1, FastIsSet
  <2>4. [x EXCEPT !.at = "make", !.name = FastName(config)] \in AnyCall
        /\ [x EXCEPT !.at = "make", !.name = FastName(config)].at = "make"
        /\ [x EXCEPT !.at = "make", !.name = FastName(config)].via = x.via
    BY <1>1, <2>3 DEF AnyCall, CallStages
  <2>5. \/ call' = [call EXCEPT ![c] = [x EXCEPT !.at = "server", !.via = Len(made)]]
        \/ call' = [call EXCEPT ![c] = [x EXCEPT !.at = "server"]]
        \/ /\ call' = [call EXCEPT ![c] = [x EXCEPT !.at = "make", !.name = FastName(config)]]
           /\ made = << >> /\ FastName(config) # config["main"]
    BY <1>3 DEF GetClient, x
  <2>6. Len(made) \in 0 .. Len(made)
    BY <1>1
  <2>7. CASE call' = [call EXCEPT ![c] = [x EXCEPT !.at = "server", !.via = Len(made)]]
    BY <2>2, <2>6, <2>7
  <2>8. CASE call' = [call EXCEPT ![c] = [x EXCEPT !.at = "server"]]
    BY <1>1, <2>1, <2>8
  <2>9. CASE /\ call' = [call EXCEPT ![c] = [x EXCEPT !.at = "make", !.name = FastName(config)]]
             /\ made = << >> /\ FastName(config) # config["main"]
    BY <1>1, <2>3, <2>4, <2>9
  <2> QED BY <2>5, <2>7, <2>8, <2>9
<1>4. ASSUME NEW place \in {"copy", "name", "sent"}, call' = [call EXCEPT ![c] = [x EXCEPT !.at = place]]
      PROVE  \E n \in AnyCall : Becomes(c, n) /\ n.at = place /\ n.via = x.via
  <2>1. [x EXCEPT !.at = place] \in AnyCall /\ [x EXCEPT !.at = place].at = place /\ [x EXCEPT !.at = place].via = x.via
    BY <1>1 DEF AnyCall, CallStages
  <2> QED BY <1>4, <2>1
<1>5. MakeClient(c) => \E n \in AnyCall : Becomes(c, n) /\ n.at = "copy" /\ n.via = x.via
  BY <1>4 DEF MakeClient, x
<1>6. CopyConfig(c) => \E n \in AnyCall : Becomes(c, n) /\ n.at = "name" /\ n.via = x.via
  BY <1>4 DEF CopyConfig, x
<1>7. NameModel(c) => \E n \in AnyCall : Becomes(c, n) /\ n.at = "server" /\ n.via = Len(made)
  <2>1. [x EXCEPT !.at = "server", !.via = Len(made)] \in AnyCall /\ [x EXCEPT !.at = "server", !.via = Len(made)].at = "server"
        /\ [x EXCEPT !.at = "server", !.via = Len(made)].via = Len(made)
    BY <1>1 DEF AnyCall, CallStages
  <2> QED BY <2>1 DEF NameModel, x
<1>8. ReadServer(c) => \E n \in AnyCall : Becomes(c, n) /\ n.at = "rest" /\ n.via = x.via /\ n.server = Settings(x.via)["server"]
  <2> DEFINE v == Settings(x.via)["server"]
             n == [x EXCEPT !.at = "rest", !.server = v]
  <2>1. v \in AnyValue
    BY <1>1 DEF AnySettings, Fields
  <2>2. ReadServer(c) => Becomes(c, n)
    BY DEF ReadServer, x
  <2> HIDE DEF v
  <2>3. n \in AnyCall /\ n.at = "rest" /\ n.via = x.via /\ n.server = v
    BY <1>1, <2>1 DEF AnyCall, CallStages
  <2> HIDE DEF n
  <2> QED BY <2>2, <2>3 DEF v
<1>9. ReadRest(c) => \E n \in AnyCall :
              /\ Becomes(c, n) /\ n.at \in {"none", "sent"} /\ n.via \in {0, x.via}
              /\ n.at = "sent" => /\ n.server = x.server /\ n.key = Settings(x.via)["key"] /\ IsSet(n.key) /\ BudgetAllows(used[month])
  <2> SUFFICES ASSUME ReadRest(c)
               PROVE \E n \in AnyCall :
              /\ Becomes(c, n) /\ n.at \in {"none", "sent"} /\ n.via \in {0, x.via}
              /\ n.at = "sent" => /\ n.server = x.server /\ n.key = Settings(x.via)["key"] /\ IsSet(n.key) /\ BudgetAllows(used[month])
    OBVIOUS
  <2> DEFINE k == Settings(x.via)["key"]
             o == IF x.fast THEN FastName(Settings(x.via)) ELSE Settings(x.via)["main"]
             n == [x EXCEPT !.at = "sent", !.key = k, !.model = o]
  <2>1. k \in AnyValue /\ o \in AnyValue
    BY <1>1, FastIsSet DEF AnySettings, Fields
  <2>2. Becomes(c, Resting) \/ (Becomes(c, n) /\ BudgetAllows(used[month]) /\ IsSet(k))
    BY DEF ReadRest, x, IsSet
  <2> HIDE DEF k, o
  <2>3. n \in AnyCall /\ n.at = "sent" /\ n.via = x.via /\ n.server = x.server /\ n.key = k
    BY <1>1, <2>1 DEF AnyCall, CallStages
  <2> HIDE DEF n
  <2>4. CASE Becomes(c, Resting)
    BY <2>4, RestingFits
  <2>5. CASE Becomes(c, n) /\ BudgetAllows(used[month]) /\ IsSet(k)
    BY <2>3, <2>5 DEF k
  <2> QED BY <2>2, <2>4, <2>5
<1>10. Unauthorized(c) => \E n \in AnyCall :
              Becomes(c, n) /\ n.at = "sent" /\ n.via = x.via /\ n.server = x.server /\ n.key = x.key
  <2> DEFINE o == Settings(x.via)["main"]
             n == [x EXCEPT !.fast = FALSE, !.model = o]
  <2>1. o \in AnyValue
    BY <1>1 DEF AnySettings, Fields
  <2>2. Unauthorized(c) => Becomes(c, n) /\ x.at = "sent"
    BY DEF Unauthorized, x
  <2> HIDE DEF o
  <2>3. n \in AnyCall /\ n.at = x.at /\ n.via = x.via /\ n.server = x.server /\ n.key = x.key
    BY <1>1, <2>1 DEF AnyCall, CallStages
  <2> HIDE DEF n
  <2> QED BY <2>2, <2>3
<1>11. CallFails(c) \/ SaveMeter(c) => \E n \in AnyCall : Becomes(c, n) /\ n.at = "none" /\ n.via = 0
  BY RestingFits DEF CallFails, SaveMeter
<1>12. ModelAnswers(c) => \E n \in AnyCall : Becomes(c, n) /\ n.at = "consume" /\ n.via = 0
  <2> SUFFICES ASSUME NEW out \in 1 .. MaxOut, Becomes(c, [Resting EXCEPT !.at = "consume", !.tokens = Input + out])
               PROVE  \E n \in AnyCall : Becomes(c, n) /\ n.at = "consume" /\ n.via = 0
    BY DEF ModelAnswers
  <2>1. PICK k \in 0 .. Input + MaxOut : k = Input + out
    <3>1. MaxOut \in Nat
      BY LlmConstants
    <3> QED BY <3>1 DEF Input
  <2> DEFINE n == [Resting EXCEPT !.at = "consume", !.tokens = k]
  <2>2. n \in AnyCall /\ n.at = "consume" /\ n.via = 0
    BY RestingFits DEF AnyCall, CallStages
  <2>3. Becomes(c, n)
    BY <2>1
  <2> HIDE DEF n
  <2> QED BY <2>2, <2>3
<1>13. ReadMeter(c) => \E n \in AnyCall :
              Becomes(c, n) /\ n.at = "save" /\ n.via = x.via /\ n.in = month /\ n.read = used[month]
  <2> DEFINE n == [x EXCEPT !.at = "save", !.in = month, !.read = used[month]]
  <2>1. ReadMeter(c) => Becomes(c, n)
    BY DEF ReadMeter, x
  <2>2. n \in AnyCall /\ n.at = "save" /\ n.via = x.via /\ n.in = month /\ n.read = used[month]
    BY <1>1 DEF AnyCall, CallStages
  <2> HIDE DEF n
  <2> QED BY <2>1, <2>2
<1> QED BY <1>2, <1>3, <1>5, <1>6, <1>7, <1>8, <1>9, <1>10, <1>11, <1>12, <1>13 DEF x

---------------------------------------------------------------------------
(* Where a request stands: what is still to be assigned, and what agrees already.     *)
Agrees(f) == rows[f] # "" \/ ~cleared => config[f] = Loaded[f]
Kept(S)   == doubled \/ \A f \in S : Agrees(f)
RowPair   == mixed \/ rows["server"] = rows["key"]
SetPair   == mixed \/ doubled \/ Belongs(config["key"], config["server"])
ServerIs(v) == doubled \/ config["server"] = v

Row(f, v)    == <<"row", f, v>>
Memory(f, v) == <<"memory", f, v>>

NoRequest == todo = << >> /\ Kept(Fields) /\ RowPair /\ SetPair

PutStage(p) ==
  /\ Kept({"main", "fast"})
  /\ \/ todo = <<Row("key", p), Row("server", p), Memory("server", p), Memory("key", p)>>
     \/ todo = <<Row("server", p), Memory("server", p), Memory("key", p)>> /\ rows["key"] = p
     \/ todo = <<Memory("server", p), Memory("key", p)>> /\ rows["key"] = p /\ rows["server"] = p
     \/ todo = <<Memory("key", p)>> /\ rows["key"] = p /\ rows["server"] = p /\ ServerIs(p)

ClearStage ==
  \/ todo = << <<"clear", "", "">>, Memory("server", ""), Memory("key", "")>>
  \/ todo = <<Memory("server", ""), Memory("key", "")>> /\ rows = Unset /\ cleared
  \/ todo = <<Memory("key", "")>> /\ rows = Unset /\ cleared /\ ServerIs("")

MainStage(m) ==
  /\ RowPair /\ SetPair /\ Kept({"server", "key", "fast"})
  /\ \/ todo = <<Row("main", m), Memory("main", m)>>
     \/ todo = <<Memory("main", m)>> /\ rows["main"] = m

BothStage(m, f) ==
  /\ RowPair /\ SetPair /\ Kept({"server", "key"})
  /\ \/ todo = <<Row("main", m), Row("fast", f), Memory("main", m), Memory("fast", f)>>
     \/ todo = <<Row("fast", f), Memory("main", m), Memory("fast", f)>> /\ rows["main"] = m
     \/ todo = <<Memory("main", m), Memory("fast", f)>> /\ rows["main"] = m /\ rows["fast"] = f
     \/ todo = <<Memory("fast", f)>> /\ rows["main"] = m /\ rows["fast"] = f /\ Kept({"main"})

Stage == \/ NoRequest \/ ClearStage \/ \E p \in Pairs : PutStage(p)
         \/ \E m \in Models : MainStage(m) \/ \E f \in Models : BothStage(m, f)

(* A step that leaves the rows and settings alone leaves the request where it    *)
(* stands.                                                                       *)
LEMMA StageStays ==
  ASSUME Stage, todo' = todo, rows' = rows, file' = file, cleared' = cleared,
         config' = config \/ doubled', doubled => doubled', mixed => mixed'
  PROVE  Stage'
<1>1. ASSUME NEW S, Kept(S) PROVE Kept(S)'
  BY <1>1 DEF Kept, Agrees, Loaded
<1>2. (RowPair => RowPair') /\ (SetPair => SetPair')
  BY DEF RowPair, SetPair
<1>3. ASSUME NEW v, ServerIs(v) PROVE ServerIs(v)'
  BY <1>3 DEF ServerIs
<1>4. NoRequest => NoRequest'
  BY <1>1, <1>2 DEF NoRequest
<1>5. ClearStage => ClearStage'
  BY <1>3 DEF ClearStage
<1>6. ASSUME NEW p, PutStage(p) PROVE PutStage(p)'
  BY <1>1, <1>3, <1>6 DEF PutStage
<1>7. ASSUME NEW m, MainStage(m) PROVE MainStage(m)'
  BY <1>1, <1>2, <1>7 DEF MainStage
<1>8. ASSUME NEW m, NEW f, BothStage(m, f) PROVE BothStage(m, f)'
  BY <1>1, <1>2, <1>8 DEF BothStage
<1> QED BY <1>4, <1>5, <1>6, <1>7, <1>8 DEF Stage

(* What one assignment does.                                                     *)
WritesRow(f, v) == rows' = [rows EXCEPT ![f] = v] /\ config' = config /\ cleared' = cleared
WritesSetting(f, v) == rows' = rows /\ config' = [config EXCEPT ![f] = v] /\ cleared' = cleared

(* Each kind of assignment, by what it writes.                                   *)
LEMMA OneAssigned ==
  ASSUME Assign, LlmTypes, NEW f \in Fields, NEW v \in AnyValue
  PROVE  /\ Head(todo) = Row(f, v) => WritesRow(f, v)
         /\ Head(todo) = Memory(f, v) => WritesSetting(f, v)
         /\ Head(todo) = <<"clear", "", "">> => rows' = Unset /\ config' = config /\ cleared'
<1> DEFINE kind == Head(todo)[1]
           field == Head(todo)[2]
           value == Head(todo)[3]
<1>1. /\ rows' = CASE kind = "row"   -> [rows EXCEPT ![field] = value]
                   [] kind = "clear" -> Unset
                   [] OTHER          -> rows
      /\ config' = IF kind = "memory" THEN [config EXCEPT ![field] = value] ELSE config
      /\ cleared' = (cleared \/ kind = "clear") /\ cleared \in BOOLEAN
  BY DEF Assign, LlmTypes
<1>2. ASSUME Head(todo) = Row(f, v) PROVE WritesRow(f, v)
  <2>1. kind = "row" /\ field = f /\ value = v
    BY <1>2 DEF Row
  <2> HIDE DEF kind, field, value
  <2> QED BY <1>1, <2>1 DEF WritesRow
<1>3. ASSUME Head(todo) = Memory(f, v) PROVE WritesSetting(f, v)
  <2>1. kind = "memory" /\ field = f /\ value = v
    BY <1>3 DEF Memory
  <2> HIDE DEF kind, field, value
  <2> QED BY <1>1, <2>1 DEF WritesSetting
<1>4. ASSUME Head(todo) = <<"clear", "", "">> PROVE rows' = Unset /\ config' = config /\ cleared'
  <2>1. kind = "clear"
    <3>1. PICK e : Head(todo) = <<"clear", e, e>>
      BY <1>4, Zenon
    <3> QED BY <3>1
  <2> HIDE DEF kind, field, value
  <2> QED BY <1>1, <2>1
<1> QED BY <1>2, <1>3, <1>4

(* A row that is written changes no other field, and no other field's agreement. *)
LEMMA RowKeeps ==
  ASSUME LlmTypes, NEW f \in Fields, NEW v \in AnyValue, WritesRow(f, v), file' = file, doubled' = doubled
  PROVE  /\ rows'[f] = v /\ \A g \in Fields \ {f} : rows'[g] = rows[g] /\ (Agrees(g) => Agrees(g)')
         /\ rows' \in AnySettings
<1>1. rows \in AnySettings
  BY DEF LlmTypes
<1>2. rows'[f] = v /\ (\A g \in Fields \ {f} : rows'[g] = rows[g]) /\ rows' \in AnySettings
  BY <1>1 DEF WritesRow, AnySettings
<1> QED BY <1>2 DEF WritesRow, Agrees, Loaded

(* A field that is assigned changes no other; with the row's value it agrees     *)
(* with the row.                                                                 *)
LEMMA SettingKeeps ==
  ASSUME LlmTypes, NEW f \in Fields, NEW v \in AnyValue, WritesSetting(f, v), file' = file, doubled' = doubled
  PROVE  /\ config'[f] = v /\ \A g \in Fields \ {f} : config'[g] = config[g] /\ (Agrees(g) => Agrees(g)')
         /\ config' \in AnySettings
         /\ rows[f] = v /\ v # "" => Agrees(f)'
<1>1. config \in AnySettings
  BY DEF LlmTypes
<1>2. config'[f] = v /\ (\A g \in Fields \ {f} : config'[g] = config[g]) /\ config' \in AnySettings
  BY <1>1 DEF WritesSetting, AnySettings
<1> QED BY <1>2 DEF WritesSetting, Agrees, Loaded

(* What every assignment does.                                                   *)
LEMMA AssignKeeps ==
  ASSUME Assign
  PROVE  /\ todo' = Tail(todo) /\ file' = file /\ doubled' = doubled /\ (mixed => mixed')
BY DEF Assign

(* A request for credentials goes on by an assignment.                           *)
LEMMA PutAssigned ==
  ASSUME LlmTypes, NEW p \in Pairs, PutStage(p), Assign
  PROVE  /\ Stage' /\ rows' \in AnySettings /\ config' \in AnySettings
         /\ config'["fast"] = config["fast"]
<1>1. p \in AnyValue /\ p # "" /\ rows \in AnySettings /\ config \in AnySettings
      /\ {"server", "key", "main", "fast"} = Fields
  BY LlmConstants DEF AnyValue, LlmTypes, Fields
<1>2. ASSUME \A f \in {"main", "fast"} : Agrees(f) => Agrees(f)' PROVE Kept({"main", "fast"})'
  BY <1>2, AssignKeeps DEF PutStage, Kept
<1>3. CASE todo = <<Row("key", p), Row("server", p), Memory("server", p), Memory("key", p)>>
  <2>1. Head(todo) = Row("key", p) /\ todo' = <<Row("server", p), Memory("server", p), Memory("key", p)>>
    BY <1>3, AssignKeeps
  <2>2. WritesRow("key", p)
    BY <1>1, <2>1, OneAssigned DEF Fields
  <2>3. rows'["key"] = p /\ (\A f \in {"main", "fast"} : Agrees(f) => Agrees(f)') /\ rows' \in AnySettings
    BY <1>1, <2>2, RowKeeps, AssignKeeps DEF Fields
  <2>4. PutStage(p)'
    BY <1>2, <2>1, <2>3 DEF PutStage
  <2> QED BY <1>1, <2>2, <2>3, <2>4 DEF Stage, WritesRow
<1>4. CASE todo = <<Row("server", p), Memory("server", p), Memory("key", p)>> /\ rows["key"] = p
  <2>1. Head(todo) = Row("server", p) /\ todo' = <<Memory("server", p), Memory("key", p)>>
    BY <1>4, AssignKeeps
  <2>2. WritesRow("server", p)
    BY <1>1, <2>1, OneAssigned DEF Fields
  <2>3. rows'["server"] = p /\ rows'["key"] = rows["key"] /\ (\A f \in {"main", "fast"} : Agrees(f) => Agrees(f)')
        /\ rows' \in AnySettings
    BY <1>1, <2>2, RowKeeps, AssignKeeps DEF Fields
  <2>4. PutStage(p)'
    BY <1>2, <1>4, <2>1, <2>3 DEF PutStage
  <2> QED BY <1>1, <2>2, <2>3, <2>4 DEF Stage, WritesRow
<1>5. CASE todo = <<Memory("server", p), Memory("key", p)>> /\ rows["key"] = p /\ rows["server"] = p
  <2>1. Head(todo) = Memory("server", p) /\ todo' = <<Memory("key", p)>>
    BY <1>5, AssignKeeps
  <2>2. WritesSetting("server", p)
    BY <1>1, <2>1, OneAssigned DEF Fields
  <2>3. config'["server"] = p /\ (\A f \in {"main", "fast"} : Agrees(f) => Agrees(f)') /\ config' \in AnySettings
        /\ config'["fast"] = config["fast"]
    BY <1>1, <2>2, SettingKeeps, AssignKeeps DEF Fields
  <2>4. PutStage(p)'
    BY <1>2, <1>5, <2>1, <2>2, <2>3 DEF PutStage, WritesSetting, ServerIs
  <2> QED BY <1>1, <2>2, <2>3, <2>4 DEF Stage, WritesSetting
<1>6. CASE todo = <<Memory("key", p)>> /\ rows["key"] = p /\ rows["server"] = p /\ ServerIs(p)
  <2>1. Head(todo) = Memory("key", p) /\ todo' = << >>
    BY <1>6, AssignKeeps
  <2>2. WritesSetting("key", p)
    BY <1>1, <2>1, OneAssigned DEF Fields
  <2>3. config'["key"] = p /\ (\A f \in {"main", "fast"} : Agrees(f) => Agrees(f)') /\ config' \in AnySettings
        /\ config'["fast"] = config["fast"] /\ config'["server"] = config["server"] /\ Agrees("key")'
    BY <1>1, <1>6, <2>2, SettingKeeps, AssignKeeps DEF Fields
  <2>4. doubled \/ (config["server"] = p /\ Agrees("server")')
    BY <1>1, <1>6, <2>2, <2>3 DEF ServerIs, Agrees, Loaded, WritesSetting, Fields
  <2>5. Kept(Fields)'
    BY <1>1, <1>2, <2>3, <2>4, AssignKeeps DEF Kept
  <2>6. RowPair' /\ SetPair'
    BY <1>6, <2>2, <2>3, <2>4, AssignKeeps, OwnKey DEF RowPair, SetPair, WritesSetting
  <2> QED BY <1>1, <2>1, <2>2, <2>3, <2>5, <2>6 DEF Stage, NoRequest, WritesSetting
<1> QED BY <1>3, <1>4, <1>5, <1>6 DEF PutStage

(* A request that clears the settings goes on by an assignment.                  *)
LEMMA ClearAssigned ==
  ASSUME LlmTypes, ClearStage, Assign
  PROVE  /\ Stage' /\ rows' \in AnySettings /\ config' \in AnySettings
         /\ config'["fast"] = config["fast"]
<1>1. PICK e \in AnyValue : e = ""
  BY DEF AnyValue
<1>2. rows \in AnySettings /\ config \in AnySettings
  BY DEF LlmTypes
<1>3. ASSUME rows' = Unset, cleared' PROVE RowPair' /\ Kept(Fields)'
  BY <1>3, UnsetFits DEF RowPair, Kept, Agrees, Fields
<1>4. CASE todo = << <<"clear", "", "">>, Memory("server", ""), Memory("key", "")>>
  <2>1. PICK a, b, c : a = <<"clear", "", "">> /\ b = Memory("server", "") /\ c = Memory("key", "") /\ todo = <<a, b, c>>
    BY <1>4, Zenon
  <2>2. Head(todo) = a /\ todo' = <<b, c>>
    <3>1. todo = <<a, b, c>>
      BY <2>1, Zenon
    <3> QED BY <3>1, AssignKeeps
  <2>3. Head(todo) = <<"clear", "", "">> /\ todo' = <<Memory("server", ""), Memory("key", "")>>
    BY <2>1, <2>2, Zenon
  <2>4. rows' = Unset /\ config' = config /\ cleared'
    <3>1. "server" \in Fields
      BY DEF Fields
    <3> QED BY <1>1, <2>3, <3>1, OneAssigned, Zenon
  <2>5. ClearStage'
    BY <2>3, <2>4, Zenon DEF ClearStage
  <2> QED BY <1>2, <2>4, <2>5, UnsetFits DEF Stage
<1>5. CASE todo = <<Memory("server", ""), Memory("key", "")>> /\ rows = Unset /\ cleared
  <2>1. PICK b, c : b = Memory("server", e) /\ c = Memory("key", e) /\ todo = <<b, c>>
    BY <1>1, <1>5, Zenon
  <2>2. Head(todo) = b /\ todo' = <<c>>
    BY <2>1, AssignKeeps
  <2>3. WritesSetting("server", e)
    BY <2>1, <2>2, OneAssigned DEF Fields
  <2>4. config'["server"] = e /\ config' \in AnySettings /\ config'["fast"] = config["fast"]
    BY <2>3, SettingKeeps, AssignKeeps DEF Fields
  <2>5. ServerIs("")' /\ todo' = <<Memory("key", "")>>
    BY <1>1, <2>1, <2>2, <2>4, Zenon DEF ServerIs
  <2>6. ClearStage'
    BY <1>5, <2>3, <2>5, Zenon DEF ClearStage, WritesSetting
  <2> QED BY <1>2, <1>5, <2>3, <2>4, <2>6 DEF Stage, WritesSetting
<1>6. CASE todo = <<Memory("key", "")>> /\ rows = Unset /\ cleared /\ ServerIs("")
  <2>1. PICK c : c = Memory("key", e) /\ todo = <<c>>
    BY <1>1, <1>6, Zenon
  <2>2. Head(todo) = c /\ todo' = << >>
    BY <2>1, AssignKeeps
  <2>3. WritesSetting("key", e)
    BY <2>1, <2>2, OneAssigned DEF Fields
  <2>4. config'["key"] = e /\ config' \in AnySettings /\ config'["fast"] = config["fast"]
        /\ config'["server"] = config["server"]
    BY <2>3, SettingKeeps, AssignKeeps DEF Fields
  <2>5. doubled \/ config["server"] = e
    BY <1>1, <1>6 DEF ServerIs
  <2>6. SetPair'
    BY <2>4, <2>5, AssignKeeps, OwnKey DEF SetPair
  <2>7. rows' = Unset /\ cleared'
    BY <1>6, <2>3 DEF WritesSetting
  <2> QED BY <1>2, <1>3, <1>6, <2>2, <2>3, <2>4, <2>6, <2>7 DEF Stage, NoRequest, WritesSetting
<1> QED BY <1>4, <1>5, <1>6 DEF ClearStage

(* A request for the main model goes on by an assignment.                        *)
LEMMA MainAssigned ==
  ASSUME LlmTypes, NEW m \in Models, MainStage(m), Assign
  PROVE  /\ Stage' /\ rows' \in AnySettings /\ config' \in AnySettings
         /\ config'["fast"] = config["fast"]
<1>1. m \in AnyValue /\ m # "" /\ rows \in AnySettings /\ config \in AnySettings
      /\ {"server", "key", "main", "fast"} = Fields
  BY LlmConstants DEF AnyValue, LlmTypes, Fields
<1>2. ASSUME \A f \in {"server", "key", "fast"} : Agrees(f) => Agrees(f)' PROVE Kept({"server", "key", "fast"})'
  BY <1>2, AssignKeeps DEF MainStage, Kept
<1>3. CASE todo = <<Row("main", m), Memory("main", m)>>
  <2>1. Head(todo) = Row("main", m) /\ todo' = <<Memory("main", m)>>
    BY <1>3, AssignKeeps
  <2>2. WritesRow("main", m)
    BY <1>1, <2>1, OneAssigned DEF Fields
  <2>3. /\ rows'["main"] = m /\ (\A f \in {"server", "key", "fast"} : Agrees(f) => Agrees(f)') /\ rows' \in AnySettings
        /\ rows'["server"] = rows["server"] /\ rows'["key"] = rows["key"]
    BY <1>1, <2>2, RowKeeps, AssignKeeps DEF Fields
  <2>4. RowPair' /\ SetPair'
    BY <2>2, <2>3, AssignKeeps DEF RowPair, SetPair, WritesRow, MainStage
  <2>5. MainStage(m)'
    BY <1>2, <2>1, <2>3, <2>4 DEF MainStage
  <2> QED BY <1>1, <2>2, <2>3, <2>5 DEF Stage, WritesRow
<1>4. CASE todo = <<Memory("main", m)>> /\ rows["main"] = m
  <2>1. Head(todo) = Memory("main", m) /\ todo' = << >>
    BY <1>4, AssignKeeps
  <2>2. WritesSetting("main", m)
    BY <1>1, <2>1, OneAssigned DEF Fields
  <2>3. /\ (\A f \in {"server", "key", "fast"} : (Agrees(f) => Agrees(f)') /\ config'[f] = config[f])
        /\ config' \in AnySettings /\ Agrees("main")'
    BY <1>1, <1>4, <2>2, SettingKeeps, AssignKeeps DEF Fields
  <2>4. RowPair' /\ SetPair'
    BY <2>2, <2>3, AssignKeeps DEF RowPair, SetPair, WritesSetting, MainStage
  <2>5. Kept(Fields)'
    BY <1>1, <1>2, <2>3 DEF Kept
  <2> QED BY <1>1, <2>1, <2>2, <2>3, <2>4, <2>5 DEF Stage, NoRequest, WritesSetting
<1> QED BY <1>3, <1>4 DEF MainStage

(* A request for both models goes on by an assignment.                           *)
LEMMA BothAssigned ==
  ASSUME LlmTypes, NEW m \in Models, NEW f \in Models, BothStage(m, f), Assign
  PROVE  /\ Stage' /\ rows' \in AnySettings /\ config' \in AnySettings
         /\ config["fast"] # "" => config'["fast"] # ""
<1>1. m \in AnyValue /\ m # "" /\ f \in AnyValue /\ f # "" /\ rows \in AnySettings /\ config \in AnySettings
      /\ {"server", "key", "main", "fast"} = Fields
  BY LlmConstants DEF AnyValue, LlmTypes, Fields
<1>2. ASSUME \A g \in {"server", "key"} : Agrees(g) => Agrees(g)' PROVE Kept({"server", "key"})'
  BY <1>2, AssignKeeps DEF BothStage, Kept
<1>3. ASSUME \A g \in {"server", "key"} : rows'[g] = rows[g] /\ config'[g] = config[g] PROVE RowPair' /\ SetPair'
  BY <1>3, AssignKeeps DEF RowPair, SetPair, BothStage
<1>4. CASE todo = <<Row("main", m), Row("fast", f), Memory("main", m), Memory("fast", f)>>
  <2>1. Head(todo) = Row("main", m) /\ todo' = <<Row("fast", f), Memory("main", m), Memory("fast", f)>>
    BY <1>4, AssignKeeps
  <2>2. WritesRow("main", m)
    BY <1>1, <2>1, OneAssigned DEF Fields
  <2>3. /\ rows'["main"] = m /\ rows' \in AnySettings
        /\ \A g \in {"server", "key"} : (Agrees(g) => Agrees(g)') /\ rows'[g] = rows[g]
    BY <1>1, <2>2, RowKeeps, AssignKeeps DEF Fields
  <2>4. RowPair' /\ SetPair'
    BY <1>3, <2>2, <2>3 DEF WritesRow
  <2>5. BothStage(m, f)'
    BY <1>2, <2>1, <2>3, <2>4 DEF BothStage
  <2> QED BY <1>1, <2>2, <2>3, <2>5 DEF Stage, WritesRow
<1>5. CASE todo = <<Row("fast", f), Memory("main", m), Memory("fast", f)>> /\ rows["main"] = m
  <2>1. Head(todo) = Row("fast", f) /\ todo' = <<Memory("main", m), Memory("fast", f)>>
    BY <1>5, AssignKeeps
  <2>2. WritesRow("fast", f)
    BY <1>1, <2>1, OneAssigned DEF Fields
  <2>3. /\ rows'["fast"] = f /\ rows'["main"] = rows["main"] /\ rows' \in AnySettings
        /\ \A g \in {"server", "key"} : (Agrees(g) => Agrees(g)') /\ rows'[g] = rows[g]
    BY <1>1, <2>2, RowKeeps, AssignKeeps DEF Fields
  <2>4. RowPair' /\ SetPair'
    BY <1>3, <2>2, <2>3 DEF WritesRow
  <2>5. BothStage(m, f)'
    BY <1>2, <1>5, <2>1, <2>3, <2>4 DEF BothStage
  <2> QED BY <1>1, <2>2, <2>3, <2>5 DEF Stage, WritesRow
<1>6. CASE todo = <<Memory("main", m), Memory("fast", f)>> /\ rows["main"] = m /\ rows["fast"] = f
  <2>1. Head(todo) = Memory("main", m) /\ todo' = <<Memory("fast", f)>>
    BY <1>6, AssignKeeps
  <2>2. WritesSetting("main", m)
    BY <1>1, <2>1, OneAssigned DEF Fields
  <2>3. /\ config' \in AnySettings /\ config'["fast"] = config["fast"] /\ Agrees("main")'
        /\ \A g \in {"server", "key"} : (Agrees(g) => Agrees(g)') /\ config'[g] = config[g]
    BY <1>1, <1>6, <2>2, SettingKeeps, AssignKeeps DEF Fields
  <2>4. RowPair' /\ SetPair'
    BY <1>3, <2>2, <2>3 DEF WritesSetting
  <2>5. Kept({"main"})'
    BY <2>3 DEF Kept
  <2>6. BothStage(m, f)'
    BY <1>2, <1>6, <2>1, <2>2, <2>3, <2>4, <2>5 DEF BothStage, WritesSetting
  <2> QED BY <1>1, <2>2, <2>3, <2>6 DEF Stage, WritesSetting
<1>7. CASE todo = <<Memory("fast", f)>> /\ rows["main"] = m /\ rows["fast"] = f /\ Kept({"main"})
  <2>1. Head(todo) = Memory("fast", f) /\ todo' = << >>
    BY <1>7, AssignKeeps
  <2>2. WritesSetting("fast", f)
    BY <1>1, <2>1, OneAssigned DEF Fields
  <2>3. /\ config' \in AnySettings /\ config'["fast"] = f /\ Agrees("fast")' /\ (Agrees("main") => Agrees("main")')
        /\ \A g \in {"server", "key"} : (Agrees(g) => Agrees(g)') /\ config'[g] = config[g]
    BY <1>1, <1>7, <2>2, SettingKeeps, AssignKeeps DEF Fields
  <2>4. RowPair' /\ SetPair'
    BY <1>3, <2>2, <2>3 DEF WritesSetting
  <2>5. Kept({"server", "key"})' /\ Kept({"main"})'
    BY <1>2, <1>7, <2>3, AssignKeeps DEF Kept
  <2>6. Kept(Fields)'
    BY <1>1, <2>3, <2>5 DEF Kept
  <2> QED BY <1>1, <2>1, <2>2, <2>3, <2>4, <2>6 DEF Stage, NoRequest, WritesSetting
<1> QED BY <1>4, <1>5, <1>6, <1>7 DEF BothStage

(* Every assignment takes its request to the next stage, and no request unsets   *)
(* the fast model.                                                               *)
LEMMA AssignStage ==
  ASSUME LlmTypes, Stage, Assign
  PROVE  /\ Stage' /\ rows' \in AnySettings /\ config' \in AnySettings
         /\ config["fast"] # "" => config'["fast"] # ""
<1>1. ~NoRequest
  BY DEF Assign, NoRequest
<1> QED BY <1>1, PutAssigned, ClearAssigned, MainAssigned, BothAssigned DEF Stage

---------------------------------------------------------------------------
(* One maker of the fast client, unless two were; what it has done to the client.     *)
MakerInv ==
  /\ \A c \in Making : config["fast"] # ""
  /\ \A c \in Callers : call[c].at \in {"copy", "name"} => made # << >>
  /\ ~doubled => \A c \in Callers :
       /\ call[c].at \in {"copy", "name"} => Making = {c}
       /\ call[c].at = "copy" => made[Len(made)] = Shared
       /\ call[c].at = "name" => made[Len(made)]["fast"] # ""

(* The settings that a caller reads have their server's key.                        *)
KeysFit ==
  /\ \A n \in 1 .. Len(made) : Belongs(made[n]["key"], made[n]["server"])
  /\ \A c \in Callers :
       /\ call[c].at = "rest" => Belongs(Settings(call[c].via)["key"], call[c].server)
       /\ call[c].at = "sent" => call[c].server = call[c].key
KeyInv == ~mixed /\ ~doubled => KeysFit

AccessInv == LlmTypes /\ Stage /\ MakerInv /\ KeyInv

Frame == UNCHANGED <<file, rows, todo, cleared, router>>

(* The callers that are not the one that moves.                                    *)
LEMMA OthersStay ==
  ASSUME LlmTypes, NEW c \in Callers, NEW n \in AnyCall, Becomes(c, n)
  PROVE  /\ call' \in [Callers -> AnyCall] /\ call'[c] = n /\ \A d \in Callers \ {c} : call'[d] = call[d]
         /\ n.at \in {"make", "copy", "name"} /\ call[c].at \in {"make", "copy", "name"} => Making' = Making
         /\ n.at \notin {"make", "copy", "name"} => Making' = Making \ {c}
         /\ n.at \in {"make", "copy", "name"} => Making' = Making \cup {c}
<1>1. call' \in [Callers -> AnyCall] /\ call'[c] = n /\ \A d \in Callers \ {c} : call'[d] = call[d]
  BY DEF LlmTypes, Becomes
<1>2. n.at \notin {"make", "copy", "name"} => Making' = Making \ {c}
  BY <1>1 DEF Making
<1>3. n.at \in {"make", "copy", "name"} => Making' = Making \cup {c}
  BY <1>1 DEF Making
<1>4. call[c].at \in {"make", "copy", "name"} => c \in Making
  BY DEF Making
<1> QED BY <1>1, <1>2, <1>3, <1>4

(* A step of a caller that leaves the settings and the clients alone.                *)
LEMMA QuietCall ==
  ASSUME AccessInv, NEW c \in Callers, NEW n \in AnyCall, Becomes(c, n),
         n.at \notin {"copy", "name"}, n.at = "make" => made = << >> /\ config["fast"] # "",
         n.via \in 0 .. Len(made),
         config' = config, made' = made, doubled' = doubled, mixed' \in BOOLEAN, mixed => mixed', Frame,
         ~mixed' /\ ~doubled => /\ n.at = "rest" => Belongs(Settings(n.via)["key"], n.server)
                                /\ n.at = "sent" => n.server = n.key
  PROVE  Stage' /\ MakerInv' /\ KeyInv' /\ call' \in [Callers -> AnyCall]
         /\ \A d \in Callers : call'[d].via \in 0 .. Len(made')
<1>1. LlmTypes /\ Stage /\ MakerInv /\ KeyInv
  BY DEF AccessInv
<1>2. /\ call' \in [Callers -> AnyCall] /\ call'[c] = n /\ \A d \in Callers \ {c} : call'[d] = call[d]
      /\ n.at \notin {"make", "copy", "name"} => Making' = Making \ {c}
      /\ n.at \in {"make", "copy", "name"} => Making' = Making \cup {c}
  BY <1>1, OthersStay
<1>3. Stage'
  BY <1>1, StageStays DEF Frame
<1>4. MakerInv'
  <2>1. \A d \in Making' : config'["fast"] # ""
    BY <1>1, <1>2 DEF MakerInv
  <2>2. \A d \in Callers : call'[d].at \in {"copy", "name"} => d # c /\ call[d].at \in {"copy", "name"} /\ made # << >>
    BY <1>1, <1>2 DEF MakerInv
  <2>3. ASSUME ~doubled', NEW d \in Callers
        PROVE  /\ call'[d].at \in {"copy", "name"} => Making' = {d}
               /\ call'[d].at = "copy" => made'[Len(made')] = Shared
               /\ call'[d].at = "name" => made'[Len(made')]["fast"] # ""
    <3>1. SUFFICES ASSUME call'[d].at \in {"copy", "name"} PROVE Making' = {d}
      BY <1>1, <1>2, <2>2, <2>3 DEF MakerInv
    <3>2. d # c /\ call[d].at \in {"copy", "name"} /\ made # << >>
      BY <2>2, <3>1
    <3>3. Making = {d} /\ n.at # "make"
      BY <1>1, <2>3, <3>2 DEF MakerInv
    <3> QED BY <1>2, <3>2, <3>3
  <2> QED BY <2>1, <2>2, <2>3 DEF MakerInv
<1>5. KeyInv'
  <2>1. \A k : Settings(k)' = Settings(k)
    BY DEF Settings
  <2> QED BY <1>1, <1>2, <2>1 DEF KeyInv, KeysFit
<1>6. \A d \in Callers : call'[d].via \in 0 .. Len(made')
  BY <1>1, <1>2 DEF LlmTypes
<1> QED BY <1>2, <1>3, <1>4, <1>5, <1>6

---------------------------------------------------------------------------
(* The three steps that make a client.                                           *)
LEMMA MakeStep ==
  ASSUME AccessInv, NEW c \in Callers, MakeClient(c)
  PROVE  Stage' /\ MakerInv' /\ KeyInv' /\ LlmTypes'
<1>1. /\ LlmTypes /\ Stage /\ MakerInv /\ KeyInv /\ made \in Seq(AnySettings) /\ Len(made) \in Nat
      /\ Shared \in AnySettings /\ Belongs(Shared["key"], Shared["server"])
  <2>1. Shared \in AnySettings /\ Belongs(Shared["key"], Shared["server"])
    <3>1. Unset["key"] = Unset["server"] /\ Unset \in AnySettings
      BY UnsetFits DEF Fields
    <3> QED BY <3>1, OwnKey DEF Shared
  <2>2. made \in Seq(AnySettings)
    BY DEF AccessInv, LlmTypes
  <2> QED BY <2>1, <2>2 DEF AccessInv
<1>2. PICK n \in AnyCall : Becomes(c, n) /\ n.at = "copy" /\ n.via = call[c].via
  BY <1>1, CallerBecomes
<1>3. /\ call' \in [Callers -> AnyCall] /\ call'[c] = n /\ (\A d \in Callers \ {c} : call'[d] = call[d])
      /\ Making' = Making /\ c \in Making
  <2>1. c \in Making
    BY DEF MakeClient, Making
  <2>2. call' \in [Callers -> AnyCall] /\ call'[c] = n /\ (\A d \in Callers \ {c} : call'[d] = call[d])
        /\ Making' = Making \cup {c}
    BY <1>1, <1>2, OthersStay
  <2> QED BY <2>1, <2>2
<1>4. /\ made' = Append(made, Shared) /\ config' = config /\ mixed' = mixed /\ Frame
      /\ doubled' = (doubled \/ Making # {c}) /\ call[c].at = "make"
  BY DEF MakeClient, KeepSettings, Frame
<1>5. /\ made' \in Seq(AnySettings) /\ Len(made') = Len(made) + 1 /\ made' # << >> /\ made'[Len(made')] = Shared
      /\ \A k \in 1 .. Len(made) : made'[k] = made[k]
  BY <1>1, <1>4
<1>6. Stage'
  BY <1>1, <1>4, StageStays DEF Frame
<1>7. MakerInv'
  <2>1. /\ \A d \in Making' : config'["fast"] # ""
        /\ \A d \in Callers : call'[d].at \in {"copy", "name"} => made' # << >>
    BY <1>1, <1>3, <1>4, <1>5 DEF MakerInv
  <2>2. ASSUME ~doubled', NEW d \in Callers, call'[d].at \in {"copy", "name"}
        PROVE  d = c
    BY <1>3, <1>4, <2>2 DEF Making
  <2> QED BY <1>2, <1>3, <1>4, <1>5, <2>1, <2>2 DEF MakerInv
<1>8. KeyInv'
  <2> SUFFICES ASSUME ~mixed', ~doubled' PROVE KeysFit'
    BY DEF KeyInv
  <2>1. ~mixed /\ ~doubled
    BY <1>4 DEF LlmTypes
  <2>2. \A k \in 0 .. Len(made) : Settings(k)' = Settings(k)
    BY <1>1, <1>4, <1>5 DEF Settings
  <2>3. \A k \in 1 .. Len(made') : Belongs(made'[k]["key"], made'[k]["server"])
    BY <1>1, <1>5, <2>1 DEF KeyInv, KeysFit
  <2>4. \A d \in Callers : call[d].via \in 0 .. Len(made)
    BY <1>1 DEF LlmTypes
  <2>5. ASSUME NEW d \in Callers
        PROVE  /\ call'[d].at = "rest" => Belongs((Settings(call[d].via)')["key"], call'[d].server) /\ call'[d].via = call[d].via
               /\ call'[d].at = "sent" => call'[d].server = call'[d].key
    BY <1>1, <1>2, <1>3, <2>1, <2>2, <2>4 DEF KeyInv, KeysFit
  <2> QED BY <2>3, <2>5 DEF KeysFit
<1>9. LlmTypes'
  <2>1. \A d \in Callers : call'[d].via \in 0 .. Len(made')
    BY <1>1, <1>2, <1>3, <1>5 DEF LlmTypes
  <2>2. router' \in 0 .. Len(made')
    BY <1>1, <1>4, <1>5 DEF LlmTypes, Frame
  <2>3. doubled' \in BOOLEAN
    BY <1>1, <1>4 DEF LlmTypes
  <2>4. UNCHANGED meterVars
    BY DEF MakeClient
  <2> QED BY <1>1, <1>3, <1>4, <1>5, <2>1, <2>2, <2>3, <2>4 DEF LlmTypes, Frame, meterVars
<1> QED BY <1>6, <1>7, <1>8, <1>9

(* The copy of the settings is made for the last client.                         *)
LEMMA CopyStep ==
  ASSUME AccessInv, NEW c \in Callers, CopyConfig(c)
  PROVE  Stage' /\ MakerInv' /\ KeyInv' /\ LlmTypes'
<1>1. /\ LlmTypes /\ Stage /\ MakerInv /\ KeyInv /\ made \in Seq(AnySettings) /\ Len(made) \in Nat
      /\ config \in AnySettings
  <2>1. made \in Seq(AnySettings) /\ config \in AnySettings
    BY DEF AccessInv, LlmTypes
  <2> QED BY <2>1 DEF AccessInv
<1>2. PICK n \in AnyCall : Becomes(c, n) /\ n.at = "name" /\ n.via = call[c].via
  BY <1>1, CallerBecomes
<1>3. /\ call' \in [Callers -> AnyCall] /\ call'[c] = n /\ (\A d \in Callers \ {c} : call'[d] = call[d])
      /\ Making' = Making /\ c \in Making
  <2>1. c \in Making
    BY DEF CopyConfig, Making
  <2>2. call' \in [Callers -> AnyCall] /\ call'[c] = n /\ (\A d \in Callers \ {c} : call'[d] = call[d])
        /\ Making' = Making \cup {c}
    BY <1>1, <1>2, OthersStay
  <2> QED BY <2>1, <2>2
<1>4. /\ made' = [made EXCEPT ![Len(made)] = config] /\ config' = config /\ doubled' = doubled /\ Frame
      /\ mixed' = (mixed \/ todo # << >>) /\ call[c].at = "copy" /\ mixed \in BOOLEAN
  BY <1>1 DEF CopyConfig, KeepSettings, Frame, LlmTypes
<1>5. made # << >> /\ Len(made) \in 1 .. Len(made) /\ config["fast"] # ""
  <2>1. made # << >>
    BY <1>1, <1>4 DEF MakerInv
  <2>2. config["fast"] # ""
    BY <1>1, <1>3 DEF MakerInv
  <2>3. Len(made) \in 1 .. Len(made)
    BY <1>1, <2>1
  <2> QED BY <2>1, <2>2, <2>3
<1>6. /\ made' \in Seq(AnySettings) /\ Len(made') = Len(made) /\ made' # << >> /\ made'[Len(made)] = config
      /\ \A k \in 1 .. Len(made) : k # Len(made) => made'[k] = made[k]
  <2>1. Len(made) \in 1 .. Len(made)
    BY <1>5
  <2>2. made' = [made EXCEPT ![Len(made)] = config]
    BY <1>4
  <2>3. /\ made' \in Seq(AnySettings) /\ Len(made') = Len(made) /\ made'[Len(made)] = config
        /\ \A k \in 1 .. Len(made) : k # Len(made) => made'[k] = made[k]
    BY <1>1, <2>1, <2>2
  <2>4. made' # << >>
    BY <2>1, <2>3
  <2> QED BY <2>3, <2>4
<1>7. Stage'
  BY <1>1, <1>4, StageStays DEF Frame
<1>8. MakerInv'
  <2>1. /\ \A d \in Making' : config'["fast"] # ""
        /\ \A d \in Callers : call'[d].at \in {"copy", "name"} => made' # << >>
    BY <1>1, <1>3, <1>4, <1>6 DEF MakerInv
  <2>2. ASSUME ~doubled', NEW d \in Callers, call'[d].at \in {"copy", "name"}
        PROVE  d = c /\ Making' = {d}
    <3>1. Making = {c}
      BY <1>1, <1>4, <2>2 DEF MakerInv
    <3>2. d \in Making'
      BY <2>2 DEF Making
    <3> QED BY <1>3, <3>1, <3>2
  <2> QED BY <1>2, <1>3, <1>4, <1>5, <1>6, <2>1, <2>2 DEF MakerInv
<1>9. KeyInv'
  <2> SUFFICES ASSUME ~mixed', ~doubled' PROVE KeysFit'
    BY DEF KeyInv
  <2>1. ~mixed /\ ~doubled /\ todo = << >>
    BY <1>4
  <2>2. Belongs(config["key"], config["server"])
    BY <1>1, <2>1 DEF Stage, NoRequest, SetPair, ClearStage, PutStage, MainStage, BothStage
  <2>3. made[Len(made)] = Shared
    BY <1>1, <1>4, <2>1 DEF MakerInv
  <2>4. \A k \in 0 .. Len(made) : Settings(k)' = Settings(k)
    <3>1. ASSUME NEW k \in 0 .. Len(made) PROVE Settings(k)' = Settings(k)
      <4>1. CASE k = Len(made)
        BY <1>4, <1>5, <1>6, <2>3, <4>1 DEF Settings
      <4>2. CASE k = 0
        BY <1>4, <4>2 DEF Settings
      <4>3. CASE k # 0 /\ k # Len(made)
        <5>1. made'[k] = made[k]
          BY <1>1, <1>6, <4>3
        <5> QED BY <1>4, <5>1 DEF Settings
      <4> QED BY <4>1, <4>2, <4>3
    <3> QED BY <3>1
  <2>5. \A k \in 1 .. Len(made') : Belongs(made'[k]["key"], made'[k]["server"])
    BY <1>1, <1>6, <2>1, <2>2 DEF KeyInv, KeysFit
  <2>6. \A d \in Callers : call[d].via \in 0 .. Len(made)
    BY <1>1 DEF LlmTypes
  <2>7. ASSUME NEW d \in Callers
        PROVE  /\ call'[d].at = "rest" => Belongs((Settings(call[d].via)')["key"], call'[d].server) /\ call'[d].via = call[d].via
               /\ call'[d].at = "sent" => call'[d].server = call'[d].key
    BY <1>1, <1>2, <1>3, <2>1, <2>4, <2>6 DEF KeyInv, KeysFit
  <2> QED BY <2>5, <2>7 DEF KeysFit
<1>10. LlmTypes'
  <2>1. \A d \in Callers : call'[d].via \in 0 .. Len(made')
    BY <1>1, <1>2, <1>3, <1>6 DEF LlmTypes
  <2>2. router' \in 0 .. Len(made')
    BY <1>1, <1>4, <1>6 DEF LlmTypes, Frame
  <2>3. UNCHANGED meterVars
    BY DEF CopyConfig
  <2> QED BY <1>1, <1>3, <1>4, <1>6, <2>1, <2>2, <2>3 DEF LlmTypes, Frame, meterVars
<1> QED BY <1>7, <1>8, <1>9, <1>10

(* The name goes to the client that was copied, or to the shared settings if     *)
(* another client came between.                                                  *)
LEMMA NameStep ==
  ASSUME AccessInv, NEW c \in Callers, NameModel(c)
  PROVE  Stage' /\ MakerInv' /\ KeyInv' /\ LlmTypes'
<1>1. /\ LlmTypes /\ Stage /\ MakerInv /\ KeyInv /\ made \in Seq(AnySettings) /\ Len(made) \in Nat
      /\ config \in AnySettings /\ call[c].name \in AnyValue
  <2>1. made \in Seq(AnySettings) /\ config \in AnySettings /\ call[c] \in AnyCall
    BY DEF AccessInv, LlmTypes
  <2>2. call[c].name \in AnyValue
    BY <2>1 DEF AnyCall
  <2> QED BY <2>1, <2>2 DEF AccessInv
<1>2. PICK n \in AnyCall : Becomes(c, n) /\ n.at = "server" /\ n.via = Len(made)
  BY <1>1, CallerBecomes
<1>3. /\ call' \in [Callers -> AnyCall] /\ call'[c] = n /\ (\A d \in Callers \ {c} : call'[d] = call[d])
      /\ Making' = Making \ {c} /\ c \in Making
  <2>1. c \in Making
    BY DEF NameModel, Making
  <2>2. call' \in [Callers -> AnyCall] /\ call'[c] = n /\ (\A d \in Callers \ {c} : call'[d] = call[d])
        /\ Making' = Making \ {c}
    BY <1>1, <1>2, OthersStay
  <2> QED BY <2>1, <2>2
<1>4. /\ IF made[Len(made)] = Shared
         THEN config' = [config EXCEPT !["main"] = call[c].name] /\ made' = made
         ELSE made' = [made EXCEPT ![Len(made)]["main"] = call[c].name] /\ config' = config
      /\ doubled' = doubled /\ mixed' = mixed /\ Frame /\ call[c].at = "name"
  BY DEF NameModel, KeepSettings, Frame
<1>5. made # << >> /\ Len(made) \in 1 .. Len(made)
  <2>1. made # << >>
    BY <1>1, <1>4 DEF MakerInv
  <2> QED BY <1>1, <2>1
<1>6. /\ made' \in Seq(AnySettings) /\ Len(made') = Len(made) /\ config' \in AnySettings /\ config'["fast"] = config["fast"]
      /\ \A k \in 1 .. Len(made) : made'[k]["server"] = made[k]["server"] /\ made'[k]["key"] = made[k]["key"]
                                   /\ made'[k]["fast"] = made[k]["fast"]
  <2>1. CASE made[Len(made)] = Shared
    BY <1>1, <1>4, <2>1 DEF AnySettings, Fields
  <2>2. CASE made[Len(made)] # Shared
    <3> DEFINE s == [made[Len(made)] EXCEPT !["main"] = call[c].name]
    <3>1. made[Len(made)] \in AnySettings
      BY <1>1, <1>5
    <3>2. /\ s \in AnySettings /\ s["server"] = made[Len(made)]["server"] /\ s["key"] = made[Len(made)]["key"]
          /\ s["fast"] = made[Len(made)]["fast"]
      BY <1>1, <3>1 DEF AnySettings, Fields
    <3>3. made' = [made EXCEPT ![Len(made)] = s] /\ config' = config
      BY <1>4, <2>2
    <3> HIDE DEF s
    <3> QED BY <1>1, <1>5, <3>2, <3>3
  <2> QED BY <2>1, <2>2
<1>7. doubled \/ (Making' = {} /\ config' = config /\ made[Len(made)]["fast"] # "")
  <2>1. ~doubled => Making = {c} /\ made[Len(made)]["fast"] # ""
    BY <1>1, <1>4 DEF MakerInv
  <2>2. made[Len(made)]["fast"] # "" => made[Len(made)] # Shared
    BY UnsetFits DEF Shared, Fields
  <2> QED BY <1>3, <1>4, <2>1, <2>2
<1>8. Stage'
  BY <1>1, <1>4, <1>7, StageStays DEF Frame
<1>9. MakerInv'
  <2>1. /\ \A d \in Making' : config'["fast"] # ""
        /\ \A d \in Callers : call'[d].at \in {"copy", "name"} => made' # << >>
    <3>1. made' # << >>
      BY <1>5, <1>6
    <3>2. \A d \in Making' : config'["fast"] # ""
      BY <1>1, <1>3, <1>6 DEF MakerInv
    <3> QED BY <3>1, <3>2
  <2>2. ASSUME ~doubled', NEW d \in Callers
        PROVE  call'[d].at \notin {"copy", "name"}
    BY <1>4, <1>7, <2>2 DEF Making
  <2> QED BY <2>1, <2>2 DEF MakerInv
<1>10. KeyInv'
  <2> SUFFICES ASSUME ~mixed', ~doubled' PROVE KeysFit'
    BY DEF KeyInv
  <2>1. ~mixed /\ ~doubled /\ config' = config /\ made[Len(made)]["fast"] # "" /\ made'[Len(made)]["fast"] # ""
    BY <1>4, <1>5, <1>6, <1>7
  <2>2. made[Len(made)] # Shared /\ made'[Len(made)] # Shared
        /\ \A k \in 1 .. Len(made) : k # Len(made) => made'[k] = made[k]
    <3>1. made[Len(made)] # Shared /\ made'[Len(made)] # Shared
      BY <2>1, UnsetFits DEF Shared, Fields
    <3> QED BY <1>1, <1>4, <3>1
  <2>3. \A k \in 0 .. Len(made) : Settings(k)["key"]' = Settings(k)["key"]
    <3>1. ASSUME NEW k \in 0 .. Len(made) PROVE Settings(k)["key"]' = Settings(k)["key"]
      <4>1. CASE k = Len(made)
        BY <1>1, <1>5, <1>6, <2>2, <4>1 DEF Settings
      <4>2. CASE k = 0
        BY <2>1, <4>2 DEF Settings
      <4>3. CASE k # 0 /\ k # Len(made)
        <5>1. made'[k] = made[k]
          BY <1>1, <2>2, <4>3
        <5> QED BY <2>1, <5>1 DEF Settings
      <4> QED BY <4>1, <4>2, <4>3
    <3> QED BY <3>1
  <2>4. \A k \in 1 .. Len(made') : Belongs(made'[k]["key"], made'[k]["server"])
    BY <1>1, <1>6, <2>1 DEF KeyInv, KeysFit
  <2>5. \A d \in Callers : call[d].via \in 0 .. Len(made)
    BY <1>1 DEF LlmTypes
  <2>6. ASSUME NEW d \in Callers
        PROVE  /\ call'[d].at = "rest" => Belongs((Settings(call[d].via)')["key"], call'[d].server) /\ call'[d].via = call[d].via
               /\ call'[d].at = "sent" => call'[d].server = call'[d].key
    BY <1>1, <1>2, <1>3, <2>1, <2>3, <2>5 DEF KeyInv, KeysFit
  <2> QED BY <2>4, <2>6 DEF KeysFit
<1>11. LlmTypes'
  <2>1. \A d \in Callers : call'[d].via \in 0 .. Len(made')
    BY <1>1, <1>2, <1>3, <1>6 DEF LlmTypes
  <2>2. router' \in 0 .. Len(made')
    BY <1>1, <1>4, <1>6 DEF LlmTypes, Frame
  <2>3. UNCHANGED meterVars
    BY DEF NameModel
  <2> QED BY <1>1, <1>3, <1>4, <1>6, <2>1, <2>2, <2>3 DEF LlmTypes, Frame, meterVars
<1> QED BY <1>8, <1>9, <1>10, <1>11

---------------------------------------------------------------------------
(* A step of a caller, whichever it is.                                           *)
CallerStep(c) == \/ Call(c) \/ GetClient(c) \/ MakeClient(c) \/ CopyConfig(c) \/ NameModel(c)
                 \/ ReadServer(c) \/ ReadRest(c) \/ Unauthorized(c) \/ CallFails(c) \/ ModelAnswers(c)
                 \/ ReadMeter(c) \/ SaveMeter(c)
MeterTypes == /\ used \in [1 .. MaxMonth -> Nat] /\ spent \in [1 .. MaxMonth -> Nat] /\ month \in 1 .. MaxMonth
              /\ lost \in BOOLEAN

(* Every step of a caller keeps what the settings and clients promise.           *)
LEMMA CallerAccess ==
  ASSUME AccessInv, NEW c \in Callers, CallerStep(c), MeterTypes'
  PROVE  AccessInv'
<1>1. LlmTypes /\ Stage /\ MakerInv /\ KeyInv /\ call[c].via \in 0 .. Len(made) /\ Len(made) \in Nat
      /\ mixed \in BOOLEAN /\ made \in Seq(AnySettings)
  <2>1. made \in Seq(AnySettings)
    BY DEF AccessInv, LlmTypes
  <2> QED BY <2>1 DEF AccessInv, LlmTypes
<1>2. CASE MakeClient(c) \/ CopyConfig(c) \/ NameModel(c)
  BY <1>2, MakeStep, CopyStep, NameStep DEF AccessInv
<1>3. ASSUME NEW n \in AnyCall, Becomes(c, n),
         n.at \notin {"copy", "name"}, n.at = "make" => made = << >> /\ config["fast"] # "",
         n.via \in 0 .. Len(made),
         config' = config, made' = made, doubled' = doubled, mixed' \in BOOLEAN, mixed => mixed', Frame,
         ~mixed' /\ ~doubled => /\ n.at = "rest" => Belongs(Settings(n.via)["key"], n.server)
                                /\ n.at = "sent" => n.server = n.key
      PROVE AccessInv'
  <2>1. Stage' /\ MakerInv' /\ KeyInv' /\ call' \in [Callers -> AnyCall]
        /\ \A d \in Callers : call'[d].via \in 0 .. Len(made')
    BY <1>3, QuietCall
  <2>2. LlmTypes'
    BY <1>1, <1>3, <2>1 DEF LlmTypes, Frame, MeterTypes
  <2> QED BY <2>1, <2>2 DEF AccessInv
<1>4. CASE Call(c)
  <2>1. PICK n \in AnyCall : Becomes(c, n) /\ n.at \in {"server", "lookup"} /\ n.via \in 0 .. Len(made)
    BY <1>1, <1>4, CallerBecomes
  <2>2. config' = config /\ made' = made /\ doubled' = doubled /\ mixed' = mixed /\ Frame
    BY <1>4 DEF Call, KeepSettings, Frame
  <2> QED BY <1>1, <1>3, <2>1, <2>2
<1>5. CASE GetClient(c)
  <2>1. PICK n \in AnyCall : /\ Becomes(c, n) /\ n.at \in {"server", "make"} /\ n.via \in 0 .. Len(made)
                             /\ n.at = "make" => made = << >> /\ config["fast"] # ""
    BY <1>1, <1>5, CallerBecomes
  <2>2. config' = config /\ made' = made /\ doubled' = doubled /\ mixed' = mixed /\ Frame
    BY <1>5 DEF GetClient, KeepSettings, Frame
  <2> QED BY <1>1, <1>3, <2>1, <2>2
<1>6. CASE ReadServer(c)
  <2>1. PICK n \in AnyCall :
          Becomes(c, n) /\ n.at = "rest" /\ n.via = call[c].via /\ n.server = Settings(call[c].via)["server"]
    BY <1>1, <1>6, CallerBecomes
  <2>2. config' = config /\ made' = made /\ doubled' = doubled /\ mixed' = (mixed \/ todo # << >>) /\ Frame
    BY <1>6 DEF ReadServer, KeepSettings, Frame
  <2>3. ~mixed' /\ ~doubled => Belongs(Settings(n.via)["key"], n.server)
    <3> SUFFICES ASSUME ~mixed, todo = << >>, ~doubled PROVE Belongs(Settings(n.via)["key"], n.server)
      BY <2>2
    <3>1. Belongs(config["key"], config["server"])
      BY <1>1 DEF Stage, NoRequest, SetPair, ClearStage, PutStage, MainStage, BothStage
    <3>2. \A k \in 1 .. Len(made) : Belongs(made[k]["key"], made[k]["server"])
      BY <1>1 DEF KeyInv, KeysFit
    <3> QED BY <1>1, <2>1, <3>1, <3>2 DEF Settings
  <2> QED BY <1>1, <1>3, <2>1, <2>2, <2>3
<1>7. CASE ReadRest(c)
  <2>1. PICK n \in AnyCall :
              /\ Becomes(c, n) /\ n.at \in {"none", "sent"} /\ n.via \in {0, call[c].via}
              /\ n.at = "sent" => /\ n.server = call[c].server /\ n.key = Settings(call[c].via)["key"] /\ IsSet(n.key)
                                  /\ BudgetAllows(used[month])
    BY <1>1, <1>7, CallerBecomes
  <2>2. config' = config /\ made' = made /\ doubled' = doubled /\ mixed' = mixed /\ Frame /\ call[c].at = "rest"
    BY <1>7 DEF ReadRest, KeepSettings, Frame
  <2>3. ~mixed' /\ ~doubled /\ n.at = "sent" => n.server = n.key
    BY <1>1, <2>1, <2>2, OwnKey DEF KeyInv, KeysFit
  <2>4. n.via \in 0 .. Len(made)
    BY <1>1, <2>1
  <2> QED BY <1>1, <1>3, <2>1, <2>2, <2>3, <2>4
<1>8. CASE Unauthorized(c)
  <2>1. PICK n \in AnyCall :
          Becomes(c, n) /\ n.at = "sent" /\ n.via = call[c].via /\ n.server = call[c].server /\ n.key = call[c].key
    BY <1>1, <1>8, CallerBecomes
  <2>2. config' = config /\ made' = made /\ doubled' = doubled /\ mixed' = mixed /\ Frame /\ call[c].at = "sent"
    BY <1>8 DEF Unauthorized, KeepSettings, Frame
  <2>3. ~mixed' /\ ~doubled => n.server = n.key
    BY <1>1, <2>1, <2>2 DEF KeyInv, KeysFit
  <2> QED BY <1>1, <1>3, <2>1, <2>2, <2>3
<1>9. CASE CallFails(c) \/ SaveMeter(c) \/ ModelAnswers(c) \/ ReadMeter(c)
  <2>1. PICK n \in AnyCall : Becomes(c, n) /\ n.at \in {"none", "consume", "save"} /\ n.via \in {0, call[c].via}
    <3>1. CASE CallFails(c) \/ SaveMeter(c)
      <4>1. Becomes(c, Resting)
        BY <3>1 DEF CallFails, SaveMeter, Becomes
      <4> QED BY <4>1, RestingFits
    <3>2. CASE ModelAnswers(c)
      <4>1. \E n \in AnyCall : Becomes(c, n) /\ n.at = "consume" /\ n.via = 0
        BY <1>1, <3>2, CallerBecomes
      <4> QED BY <4>1
    <3>3. CASE ReadMeter(c)
      <4>1. \E n \in AnyCall :
              Becomes(c, n) /\ n.at = "save" /\ n.via = call[c].via /\ n.in = month /\ n.read = used[month]
        BY <1>1, <3>3, CallerBecomes
      <4> QED BY <4>1
    <3> QED BY <1>9, <3>1, <3>2, <3>3
  <2>2. config' = config /\ made' = made /\ doubled' = doubled /\ mixed' = mixed /\ Frame
    BY <1>9 DEF CallFails, SaveMeter, ModelAnswers, ReadMeter, KeepSettings, Frame
  <2>3. n.via \in 0 .. Len(made)
    BY <1>1, <2>1
  <2> QED BY <1>1, <1>3, <2>1, <2>2, <2>3
<1> QED BY <1>2, <1>4, <1>5, <1>6, <1>7, <1>8, <1>9 DEF CallerStep

(* So does the beginning of a request.                                           *)
LEMMA RequestAccess ==
  ASSUME AccessInv, \/ ClearCredentials \/ \E p \in Pairs : PutCredentials(p)
                    \/ \E m \in Models, f \in Models \cup {""} : PutModels(m, f)
  PROVE  AccessInv'
<1>1. LlmTypes /\ Stage /\ MakerInv /\ KeyInv
  BY DEF AccessInv
<1>2. PICK w : Request(w)
  <2>1. ClearCredentials => \E w : Request(w)
    BY Zenon DEF ClearCredentials
  <2>2. (\E p \in Pairs : PutCredentials(p)) => \E w : Request(w)
    BY Zenon DEF PutCredentials
  <2>3. (\E m \in Models, f \in Models \cup {""} : PutModels(m, f)) => \E w : Request(w)
    BY Zenon DEF PutModels
  <2> QED BY <2>1, <2>2, <2>3, Zenon
<1>3. /\ todo = << >> /\ UNCHANGED <<file, rows, config, made, router, call>>
      /\ UNCHANGED <<meterVars, flags>>
  BY <1>2 DEF Request
<1>4. NoRequest
  BY <1>1, <1>3 DEF Stage, ClearStage, PutStage, MainStage, BothStage
<1>5. ASSUME NEW S \in SUBSET Fields PROVE Kept(S)'
  BY <1>3, <1>4, <1>5 DEF NoRequest, Kept, Agrees, Loaded, flags
<1>6. RowPair' /\ SetPair'
  BY <1>3, <1>4 DEF NoRequest, RowPair, SetPair, flags
<1>7. ASSUME ClearCredentials PROVE Stage'
  <2>1. todo' = << <<"clear", "", "">>, Memory("server", ""), Memory("key", "")>>
    <3>1. todo' = << <<"clear", "", "">>, <<"memory", "server", "">>, <<"memory", "key", "">> >>
      BY <1>7, Zenon DEF ClearCredentials, Request
    <3> QED BY <3>1, Zenon DEF Memory
  <2> QED BY <2>1, Zenon DEF Stage, ClearStage
<1>8. ASSUME NEW p \in Pairs, PutCredentials(p) PROVE Stage'
  <2>1. todo' = <<Row("key", p), Row("server", p), Memory("server", p), Memory("key", p)>>
    BY <1>8 DEF PutCredentials, Request, Row, Memory
  <2>2. Kept({"main", "fast"})'
    BY <1>5 DEF Fields
  <2> QED BY <2>1, <2>2 DEF Stage, PutStage
<1>9. ASSUME NEW m \in Models, NEW f \in Models \cup {""}, PutModels(m, f) PROVE Stage'
  <2>1. Kept({"server", "key", "fast"})' /\ Kept({"server", "key"})'
    BY <1>5 DEF Fields
  <2>2. CASE f = ""
    <3>1. todo' = <<Row("main", m), Memory("main", m)>>
      BY <1>9, <2>2 DEF PutModels, Request, Row, Memory
    <3>2. MainStage(m)'
      BY <1>6, <2>1, <3>1 DEF MainStage
    <3> QED BY <3>2 DEF Stage
  <2>3. CASE f # ""
    <3>1. todo' = <<Row("main", m), Row("fast", f), Memory("main", m), Memory("fast", f)>>
      BY <1>9, <2>3 DEF PutModels, Request, Row, Memory
    <3>2. BothStage(m, f)' /\ f \in Models
      BY <1>6, <1>9, <2>1, <2>3, <3>1 DEF BothStage
    <3> QED BY <3>2 DEF Stage
  <2> QED BY <2>2, <2>3
<1>10. Stage'
  <2>1. ASSUME \E p \in Pairs : PutCredentials(p) PROVE Stage'
    BY <1>8, <2>1
  <2>2. ASSUME \E m \in Models, f \in Models \cup {""} : PutModels(m, f) PROVE Stage'
    BY <1>9, <2>2
  <2> QED BY <1>7, <2>1, <2>2
<1>11. LlmTypes' /\ MakerInv' /\ KeyInv'
  <2>1. \A k : Settings(k)' = Settings(k)
    BY <1>3 DEF Settings
  <2>2. Making' = Making
    BY <1>3 DEF Making
  <2> QED BY <1>1, <1>3, <2>1, <2>2 DEF LlmTypes, MakerInv, KeyInv, KeysFit, meterVars, flags
<1> QED BY <1>10, <1>11 DEF AccessInv

(* So does each of its assignments.                                              *)
LEMMA AssignAccess == ASSUME AccessInv, Assign PROVE AccessInv'
<1>1. LlmTypes /\ Stage /\ MakerInv /\ KeyInv
  BY DEF AccessInv
<1>2. /\ Stage' /\ rows' \in AnySettings /\ config' \in AnySettings
      /\ config["fast"] # "" => config'["fast"] # ""
  BY <1>1, AssignStage
<1>3. /\ UNCHANGED <<file, made, router, call, doubled>> /\ UNCHANGED meterVars
      /\ mixed' = (mixed \/ \E c \in Callers : call[c].at = "rest") /\ cleared' \in BOOLEAN
  BY DEF Assign
<1>4. MakerInv'
  <2>1. Making' = Making
    BY <1>3 DEF Making
  <2> QED BY <1>1, <1>2, <1>3, <2>1 DEF MakerInv
<1>5. KeyInv'
  BY <1>1, <1>3 DEF KeyInv, KeysFit
<1>6. LlmTypes'
  BY <1>1, <1>2, <1>3 DEF LlmTypes, meterVars
<1> QED BY <1>2, <1>4, <1>5, <1>6 DEF AccessInv

(* So does a restart, which loads what the request had saved.                    *)
LEMMA RelaunchAccess == ASSUME AccessInv, Relaunch PROVE AccessInv'
<1>1. LlmTypes /\ Stage /\ file \in Files /\ Loaded \in AnySettings
  BY LoadedFits DEF AccessInv, LlmTypes
<1>2. /\ config' = Loaded /\ made' = MadeFor(Loaded) /\ router' = Len(made')
      /\ todo' = << >> /\ call' = [c \in Callers |-> Resting]
      /\ mixed' = (mixed \/ todo # << >>) /\ cleared' = FALSE /\ doubled' = FALSE
      /\ UNCHANGED <<file, rows>> /\ UNCHANGED meterVars
  BY DEF Relaunch
<1>3. Loaded' = Loaded
  BY <1>2 DEF Loaded
<1>4. mixed' \/ (RowPair /\ ~mixed)
  <2> SUFFICES ASSUME ~mixed, todo = << >> PROVE RowPair
    BY <1>2
  <2> QED BY <1>1 DEF Stage, NoRequest, ClearStage, PutStage, MainStage, BothStage
<1>5. mixed' \/ Belongs(Loaded["key"], Loaded["server"])
  <2> SUFFICES ASSUME ~mixed' PROVE Belongs(Loaded["key"], Loaded["server"])
    OBVIOUS
  <2>1. rows["server"] = rows["key"]
    BY <1>4 DEF RowPair
  <2>2. Belongs(file["key"], file["server"])
    BY <1>1, FilesFit
  <2> QED BY <2>1, <2>2, OwnKey DEF Loaded, Fields
<1>6. Stage'
  <2>1. Kept(Fields)'
    BY <1>2, <1>3 DEF Kept, Agrees
  <2>2. RowPair' /\ SetPair'
    BY <1>2, <1>4, <1>5 DEF RowPair, SetPair
  <2> QED BY <1>2, <2>1, <2>2 DEF Stage, NoRequest
<1>7. /\ made' \in Seq(AnySettings) /\ Len(made') \in Nat
      /\ Belongs(Loaded["key"], Loaded["server"]) => \A n \in 1 .. Len(made') : Belongs(made'[n]["key"], made'[n]["server"])
  <2>1. /\ made' \in Seq(AnySettings) /\ Len(made') \in Nat
        /\ Belongs(Loaded["key"], Loaded["server"]) => \A n \in DOMAIN made' : Belongs(made'[n]["key"], made'[n]["server"])
    BY <1>1, <1>2, MadeForFits
  <2>2. DOMAIN made' = 1 .. Len(made')
    BY <2>1
  <2> QED BY <2>1, <2>2
<1>8. \A c \in Callers : call'[c] = Resting
  BY <1>2
<1>9. MakerInv'
  <2>1. Making' = {}
    BY <1>8, RestingFits DEF Making
  <2> QED BY <1>8, <2>1, RestingFits DEF MakerInv
<1>10. KeyInv'
  BY <1>2, <1>5, <1>7, <1>8, RestingFits DEF KeyInv, KeysFit
<1>11. LlmTypes'
  <2>1. call' \in [Callers -> AnyCall]
    BY <1>2, RestingFits
  <2>2. \A c \in Callers : call'[c].via \in 0 .. Len(made')
    BY <1>7, <1>8, RestingFits
  <2>3. router' \in 0 .. Len(made')
    BY <1>2, <1>7
  <2>4. mixed' \in BOOLEAN
    BY <1>2
  <2>5. rows' \in AnySettings /\ config' \in AnySettings /\ file' \in Files
    BY <1>1, <1>2 DEF LlmTypes
  <2>6. MeterTypes'
    BY <1>1, <1>2 DEF LlmTypes, meterVars, MeterTypes
  <2> QED BY <1>2, <1>7, <2>1, <2>2, <2>3, <2>4, <2>5, <2>6 DEF LlmTypes, MeterTypes
<1> QED BY <1>6, <1>9, <1>10, <1>11 DEF AccessInv

(* The first start begins with the file's settings.                              *)
LEMMA IdleAccess == ASSUME LlmIdle PROVE AccessInv
<1>1. /\ file \in Files /\ rows = Unset /\ config = file /\ made = MadeFor(file)
      /\ router = Len(made) /\ todo = << >> /\ call = [c \in Callers |-> Resting]
      /\ cleared = FALSE /\ doubled = FALSE /\ mixed = FALSE
  BY DEF LlmIdle
<1>2. file \in AnySettings /\ Belongs(file["key"], file["server"])
  BY <1>1, FilesFit
<1>3. /\ made \in Seq(AnySettings) /\ Len(made) \in Nat
      /\ \A n \in 1 .. Len(made) : Belongs(made[n]["key"], made[n]["server"])
  <2>1. /\ made \in Seq(AnySettings) /\ Len(made) \in Nat
        /\ \A n \in DOMAIN made : Belongs(made[n]["key"], made[n]["server"])
    BY <1>1, <1>2, MadeForFits
  <2>2. DOMAIN made = 1 .. Len(made)
    BY <2>1
  <2> QED BY <2>1, <2>2
<1>4. \A c \in Callers : call[c] = Resting
  BY <1>1
<1>5. MakerInv
  <2>1. Making = {}
    BY <1>4, RestingFits DEF Making
  <2> QED BY <1>4, <2>1, RestingFits DEF MakerInv
<1>6. KeyInv
  BY <1>3, <1>4, RestingFits DEF KeyInv, KeysFit
<1>7. Stage
  <2>1. Kept(Fields)
    BY <1>1, UnsetFits DEF Kept, Agrees, Loaded, Fields
  <2>2. RowPair
    BY <1>1, UnsetFits DEF RowPair, Fields
  <2>3. SetPair
    BY <1>1, <1>2 DEF SetPair
  <2> QED BY <1>1, <2>1, <2>2, <2>3 DEF Stage, NoRequest
<1>8. LlmTypes
  <2>1. call \in [Callers -> AnyCall]
    BY <1>1, RestingFits
  <2>2. \A c \in Callers : call[c].via \in 0 .. Len(made)
    BY <1>3, <1>4, RestingFits
  <2>3. router \in 0 .. Len(made)
    BY <1>1, <1>3
  <2>4. used \in [1 .. MaxMonth -> Nat] /\ spent \in [1 .. MaxMonth -> Nat] /\ month \in 1 .. MaxMonth
        /\ lost \in BOOLEAN
    <3>1. MaxMonth \in Nat \ {0}
      BY LlmConstants
    <3>2. used = [m \in 1 .. MaxMonth |-> 0] /\ month = 1 /\ spent = used /\ lost = FALSE
      BY DEF LlmIdle
    <3>3. 1 \in 1 .. MaxMonth /\ 0 \in Nat
      BY <3>1
    <3>4. [m \in 1 .. MaxMonth |-> 0] \in [1 .. MaxMonth -> Nat]
      OBVIOUS
    <3> QED BY <3>2, <3>3, <3>4
  <2>5. rows \in AnySettings /\ config \in AnySettings /\ file \in Files
    BY <1>1, <1>2, UnsetFits
  <2>6. cleared \in BOOLEAN /\ doubled \in BOOLEAN /\ mixed \in BOOLEAN
    BY <1>1
  <2> QED BY <1>3, <2>1, <2>2, <2>3, <2>4, <2>5, <2>6 DEF LlmTypes
<1> QED BY <1>5, <1>6, <1>7, <1>8 DEF AccessInv

---------------------------------------------------------------------------
(* The meter. What calls may still use, and the calls that may still add to a month. *)
Tokens(S) == Cardinality(S) * (Input + MaxOut)
Most      == IF BudgetAllows(0) THEN Cap - Reserve - Input ELSE 0
InFlight(m) == {c \in Callers : \/ call[c].at \in {"sent", "consume"} /\ month <= m
                                \/ call[c].at = "save" /\ call[c].in = m}

MeterInv ==
  /\ \A m \in 1 .. MaxMonth : /\ used[m] <= spent[m]
                              /\ ~lost => used[m] = spent[m]
                              /\ m > month => used[m] = 0
                              /\ ~lost => used[m] + Tokens(InFlight(m)) <= Most + Tokens(Callers)
  /\ \A c \in Callers : call[c].at = "save" => call[c].in \in 1 .. month /\ call[c].read <= spent[call[c].in]

(* The numbers among the constants.                                              *)
LEMMA NumbersFit == Cap \in Nat /\ Reserve \in Nat /\ MaxOut \in Nat /\ MaxMonth \in Nat
BY LlmConstants

(* Fewer calls use fewer tokens.                                                 *)
LEMMA TokensGrow ==
  ASSUME NEW A, NEW B \in SUBSET Callers, A \subseteq B
  PROVE  Tokens(A) \in Nat /\ Tokens(B) \in Nat /\ Tokens(A) <= Tokens(B)
<1>1. IsFiniteSet(B)
  BY LlmConstants, FS_Subset
<1>2. Cardinality(A) \in Nat /\ Cardinality(B) \in Nat /\ Cardinality(A) <= Cardinality(B)
  BY <1>1, FS_Subset, FS_CardinalityType
<1>3. PICK w \in Nat : w = Input + MaxOut
  BY NumbersFit DEF Input
<1>4. ASSUME NEW a \in Nat, NEW b \in Nat, a <= b PROVE a * w \in Nat /\ b * w \in Nat /\ a * w <= b * w
  BY <1>4
<1> QED BY <1>2, <1>3, <1>4 DEF Tokens

(* A call that ends returns what it might have used.                             *)
LEMMA TokensLess ==
  ASSUME NEW B \in SUBSET Callers, NEW c \in B
  PROVE  Tokens(B \ {c}) + Input + MaxOut = Tokens(B)
<1>1. IsFiniteSet(B)
  BY LlmConstants, FS_Subset
<1>2. Cardinality(B) \in Nat /\ Cardinality(B \ {c}) = Cardinality(B) - 1
  BY <1>1, FS_RemoveElement, FS_CardinalityType
<1>3. PICK w \in Nat : w = Input + MaxOut
  BY NumbersFit DEF Input
<1>4. ASSUME NEW a \in Nat PROVE (a - 1) * w + w = a * w /\ (a - 1) * w \in Int
  OBVIOUS
<1>5. PICK a \in Nat : a = Cardinality(B)
  BY <1>2
<1>6. Tokens(B) = a * w /\ Tokens(B \ {c}) = (a - 1) * w
  BY <1>2, <1>3, <1>5 DEF Tokens
<1> QED BY <1>3, <1>4, <1>6, NumbersFit DEF Input

(* A check lets a call through only while the counter leaves room for it.        *)
LEMMA MostIs == Most \in Nat /\ \A u \in Nat : BudgetAllows(u) => u <= Most
BY NumbersFit DEF Most, BudgetAllows, Input

(* A step that adds nothing to what may still be used.                              *)
LEMMA QuietMeter ==
  ASSUME LlmTypes, MeterInv, LlmTypes', used' = used, spent' = spent, lost' = lost, month <= month',
         \A m \in 1 .. MaxMonth : InFlight(m)' \subseteq InFlight(m),
         \A c \in Callers : call'[c].at = "save" => call'[c].in \in 1 .. month' /\ call'[c].read <= spent[call'[c].in]
  PROVE  MeterInv'
<1>1. Most' = Most /\ Tokens(Callers)' = Tokens(Callers) /\ Most \in Nat
  BY MostIs DEF Most, Tokens
<1>2. ASSUME NEW m \in 1 .. MaxMonth
      PROVE  /\ used'[m] <= spent'[m]
             /\ ~lost' => used'[m] = spent'[m]
             /\ m > month' => used'[m] = 0
             /\ ~lost' => used'[m] + Tokens(InFlight(m)') <= Most' + Tokens(Callers)'
  <2>1. PICK A, B : A = InFlight(m)' /\ B = InFlight(m)
    OBVIOUS
  <2>2. A \subseteq B /\ B \subseteq Callers
    BY <2>1 DEF InFlight
  <2>3. Tokens(A) \in Nat /\ Tokens(B) \in Nat /\ Tokens(A) <= Tokens(B) /\ Tokens(Callers) \in Nat
    BY <2>2, TokensGrow
  <2>4. used[m] \in Nat /\ month \in Nat /\ month' \in Nat /\ m \in Nat
    BY NumbersFit DEF LlmTypes
  <2>5. /\ used[m] <= spent[m]
        /\ ~lost => used[m] = spent[m]
        /\ m > month => used[m] = 0
        /\ ~lost => used[m] + Tokens(B) <= Most + Tokens(Callers)
    BY <2>1 DEF MeterInv
  <2> QED BY <1>1, <2>1, <2>3, <2>4, <2>5
<1> QED BY <1>1, <1>2 DEF MeterInv

(* The meter's types are kept by every step of a caller.                         *)
LEMMA CallerMeterTypes == ASSUME LlmTypes, NEW c \in Callers, CallerStep(c) PROVE MeterTypes'
<1>1. CASE UNCHANGED meterVars
  BY <1>1 DEF LlmTypes, MeterTypes, meterVars
<1>2. CASE SaveMeter(c)
  <2>1. call[c].read \in Nat /\ call[c].tokens \in Nat /\ call[c].in \in Nat
    <3>1. call[c] \in AnyCall
      BY DEF LlmTypes
    <3> QED BY <3>1, NumbersFit DEF AnyCall, Input
  <2>2. PICK r \in Nat, k \in Nat, m \in Nat : r = call[c].read /\ k = call[c].tokens /\ m = call[c].in
    BY <2>1
  <2>3. used' = [used EXCEPT ![m] = r + k] /\ spent' = [spent EXCEPT ![m] = @ + k]
        /\ lost' = (lost \/ used[m] # r) /\ month' = month
    BY <1>2, <2>2 DEF SaveMeter
  <2>4. used' \in [1 .. MaxMonth -> Nat] /\ spent' \in [1 .. MaxMonth -> Nat]
    <3>1. used \in [1 .. MaxMonth -> Nat] /\ spent \in [1 .. MaxMonth -> Nat]
      BY DEF LlmTypes
    <3>2. PICK p \in Nat : p = r + k
      OBVIOUS
    <3>3. used' = [used EXCEPT ![m] = p] /\ spent' = [spent EXCEPT ![m] = spent[m] + k]
      BY <2>3, <3>2
    <3>4. used' \in [1 .. MaxMonth -> Nat]
      BY <3>1, <3>3
    <3>5. CASE m \in 1 .. MaxMonth
      <4>1. PICK q \in Nat : q = spent[m] + k
        BY <3>1, <3>5
      <4> QED BY <3>1, <3>3, <3>4, <4>1
    <3>6. CASE m \notin 1 .. MaxMonth
      BY <3>1, <3>3, <3>4, <3>6
    <3> QED BY <3>5, <3>6
  <2> QED BY <2>3, <2>4 DEF LlmTypes, MeterTypes
<1>3. SaveMeter(c) \/ UNCHANGED meterVars
  BY Zenon DEF CallerStep, Call, GetClient, MakeClient, CopyConfig, NameModel, ReadServer, ReadRest, Unauthorized,
               CallFails, ModelAnswers, ReadMeter
<1> QED BY <1>1, <1>2, <1>3

(* What a caller's step does to the calls in flight.                                 *)
LEMMA FlightMoves ==
  ASSUME LlmTypes, NEW c \in Callers, NEW n \in AnyCall, Becomes(c, n), month' = month, NEW m
  PROVE  /\ \/ n.at \in {"sent", "consume"} /\ month <= m
            \/ n.at = "save" /\ n.in = m
            => InFlight(m)' = InFlight(m) \cup {c}
         /\ ~(\/ n.at \in {"sent", "consume"} /\ month <= m
              \/ n.at = "save" /\ n.in = m)
            => InFlight(m)' = InFlight(m) \ {c}
<1>1. call'[c] = n /\ \A d \in Callers \ {c} : call'[d] = call[d]
  BY OthersStay
<1> QED BY <1>1 DEF InFlight

(* Every step of a caller keeps the meter's invariant.                           *)
LEMMA CallerMeter ==
  ASSUME LlmTypes, MeterInv, NEW c \in Callers, CallerStep(c), LlmTypes'
  PROVE  MeterInv'
<1>1. /\ month \in Nat /\ month \in 1 .. month /\ used \in [1 .. MaxMonth -> Nat] /\ spent \in [1 .. MaxMonth -> Nat]
      /\ month \in 1 .. MaxMonth
  BY NumbersFit DEF LlmTypes
<1>2. ASSUME NEW n \in AnyCall, Becomes(c, n), UNCHANGED meterVars,
             \/ n.at \notin {"sent", "consume", "save"}
             \/ n.at \in {"sent", "consume"} /\ call[c].at \in {"sent", "consume"}
             \/ n.at = "save" /\ n.in = month /\ n.read = used[month] /\ call[c].at = "consume"
      PROVE  MeterInv'
  <2>1. call'[c] = n /\ (\A d \in Callers \ {c} : call'[d] = call[d]) /\ month' = month /\ used' = used
        /\ spent' = spent /\ lost' = lost
    BY <1>2, OthersStay DEF meterVars
  <2>2. ASSUME NEW m \in 1 .. MaxMonth PROVE InFlight(m)' \subseteq InFlight(m)
    <3>1. m \in Nat
      BY NumbersFit
    <3>2. \/ n.at \in {"sent", "consume"} /\ month <= m
          \/ n.at = "save" /\ n.in = m
          => c \in InFlight(m)
      BY <1>1, <1>2, <3>1 DEF InFlight
    <3> QED BY <1>2, <2>1, <3>2, FlightMoves
  <2>3. \A d \in Callers : call'[d].at = "save" => call'[d].in \in 1 .. month' /\ call'[d].read <= spent[call'[d].in]
    <3>1. n.at = "save" => n.in \in 1 .. month /\ n.read <= spent[n.in]
      BY <1>1, <1>2 DEF MeterInv
    <3> QED BY <2>1, <3>1 DEF MeterInv
  <2>4. month <= month'
    BY <1>1, <2>1
  <2> QED BY <2>1, <2>2, <2>3, <2>4, QuietMeter
<1>3. CASE ReadRest(c)
  <2>1. PICK n \in AnyCall :
              /\ Becomes(c, n) /\ n.at \in {"none", "sent"} /\ n.via \in {0, call[c].via}
              /\ n.at = "sent" => /\ n.server = call[c].server /\ n.key = Settings(call[c].via)["key"] /\ IsSet(n.key)
                                  /\ BudgetAllows(used[month])
    BY <1>3, CallerBecomes
  <2>2. UNCHANGED meterVars
    BY <1>3 DEF ReadRest
  <2>3. CASE n.at = "none"
    BY <1>2, <2>1, <2>2, <2>3
  <2>4. CASE n.at = "sent"
    <3>1. call'[c] = n /\ (\A d \in Callers \ {c} : call'[d] = call[d]) /\ month' = month /\ used' = used
          /\ spent' = spent /\ lost' = lost
      BY <2>1, <2>2, OthersStay DEF meterVars
    <3>2. used[month] <= Most /\ Most \in Nat
      BY <1>1, <2>1, <2>4, MostIs
    <3>3. ASSUME NEW m \in 1 .. MaxMonth, ~lost
          PROVE  used[m] + Tokens(InFlight(m)') <= Most + Tokens(Callers)
      <4>1. m \in Nat /\ used[m] \in Nat
        BY <1>1, NumbersFit
      <4>2. CASE m < month
        <5>1. InFlight(m)' \subseteq InFlight(m)
          BY <1>1, <2>1, <2>4, <3>1, <4>1, <4>2, FlightMoves
        <5>2. PICK A, B : A = InFlight(m)' /\ B = InFlight(m)
          OBVIOUS
        <5>3. A \subseteq B /\ B \subseteq Callers
          BY <5>1, <5>2 DEF InFlight
        <5>4. Tokens(A) \in Nat /\ Tokens(B) \in Nat /\ Tokens(A) <= Tokens(B) /\ Tokens(Callers) \in Nat
          BY <5>3, TokensGrow
        <5>5. used[m] + Tokens(B) <= Most + Tokens(Callers)
          BY <3>3, <5>2 DEF MeterInv
        <5> QED BY <3>2, <4>1, <5>2, <5>4, <5>5
      <4>3. CASE month <= m
        <5>1. used[m] <= Most
          <6>1. m > month => used[m] = 0
            BY DEF MeterInv
          <6> QED BY <1>1, <3>2, <4>1, <4>3, <6>1
        <5>2. PICK A : A = InFlight(m)'
          OBVIOUS
        <5>3. A \subseteq Callers
          BY <5>2 DEF InFlight
        <5>4. Tokens(A) \in Nat /\ Tokens(A) <= Tokens(Callers) /\ Tokens(Callers) \in Nat
          BY <5>3, TokensGrow
        <5> QED BY <3>2, <4>1, <5>1, <5>2, <5>4
      <4> QED BY <1>1, <4>1, <4>2, <4>3
    <3>4. Most' = Most /\ Tokens(Callers)' = Tokens(Callers)
      BY DEF Most, Tokens
    <3>5. \A d \in Callers : call'[d].at = "save" => call'[d].in \in 1 .. month' /\ call'[d].read <= spent[call'[d].in]
      BY <2>4, <3>1 DEF MeterInv
    <3> QED BY <3>1, <3>3, <3>4, <3>5 DEF MeterInv
  <2> QED BY <2>1, <2>3, <2>4
<1>4. CASE SaveMeter(c)
  <2>1. call[c] \in AnyCall /\ call[c].at = "save"
    BY <1>4 DEF LlmTypes, SaveMeter
  <2>2. PICK r \in Nat, k \in Nat, i \in 1 .. month :
          r = call[c].read /\ k = call[c].tokens /\ i = call[c].in /\ k <= Input + MaxOut /\ r <= spent[i]
    <3>1. call[c].read \in Nat /\ call[c].tokens \in 0 .. Input + MaxOut
      BY <2>1 DEF AnyCall
    <3>2. call[c].in \in 1 .. month /\ call[c].read <= spent[call[c].in]
      BY <2>1 DEF MeterInv
    <3> QED BY <3>1, <3>2, NumbersFit DEF Input
  <2>3. used' = [used EXCEPT ![i] = r + k] /\ spent' = [spent EXCEPT ![i] = @ + k]
        /\ lost' = (lost \/ used[i] # r) /\ month' = month
    BY <1>4, <2>2 DEF SaveMeter
  <2>4. Becomes(c, Resting) /\ Resting \in AnyCall
    BY <1>4, RestingFits DEF SaveMeter, Becomes
  <2>5. call'[c] = Resting /\ (\A d \in Callers \ {c} : call'[d] = call[d])
    BY <2>4, OthersStay
  <2>6. i \in 1 .. MaxMonth /\ spent[i] \in Nat /\ used[i] \in Nat
    BY <1>1, <2>2, NumbersFit
  <2>7. \A m \in 1 .. MaxMonth : spent[m] <= spent'[m] /\ (m # i => used'[m] = used[m] /\ spent'[m] = spent[m])
        /\ spent'[i] = spent[i] + k /\ used'[i] = r + k /\ spent[m] \in Nat
    BY <1>1, <2>2, <2>3, <2>6
  <2>8. ASSUME NEW m \in 1 .. MaxMonth, ~lost'
        PROVE  used'[m] + Tokens(InFlight(m)') <= Most + Tokens(Callers)
    <3>1. ~lost /\ used[i] = r
      BY <2>3, <2>8
    <3>2. PICK A, B : A = InFlight(m)' /\ B = InFlight(m)
      OBVIOUS
    <3>3. A = B \ {c} /\ B \subseteq Callers
      <4>1. InFlight(m)' = InFlight(m) \ {c}
        BY <2>3, <2>4, RestingFits, FlightMoves
      <4> QED BY <3>2, <4>1 DEF InFlight
    <3>4. used[m] + Tokens(B) <= Most + Tokens(Callers) /\ used[m] \in Nat
      BY <1>1, <3>1, <3>2 DEF MeterInv
    <3>5. Tokens(A) \in Nat /\ Tokens(B) \in Nat /\ Tokens(A) <= Tokens(B) /\ Tokens(Callers) \in Nat
      BY <3>3, TokensGrow
    <3>6. CASE m # i
      BY <2>7, <3>2, <3>4, <3>5, <3>6, MostIs
    <3>7. CASE m = i
      <4>1. c \in B
        BY <2>1, <2>2, <3>2, <3>7 DEF InFlight
      <4>2. Tokens(A) + Input + MaxOut = Tokens(B)
        BY <3>3, <4>1, TokensLess
      <4>3. used'[m] = used[m] + k
        BY <2>7, <3>1, <3>7
      <4> QED BY <2>2, <3>2, <3>4, <3>5, <4>2, <4>3, MostIs, NumbersFit DEF Input
    <3> QED BY <3>6, <3>7
  <2>9. ASSUME NEW m \in 1 .. MaxMonth
        PROVE  /\ used'[m] <= spent'[m]
               /\ ~lost' => used'[m] = spent'[m]
               /\ m > month' => used'[m] = 0
    <3>1. used[m] <= spent[m] /\ (~lost => used[m] = spent[m]) /\ (m > month => used[m] = 0)
      BY DEF MeterInv
    <3>2. CASE m # i
      BY <2>3, <2>7, <3>1, <3>2
    <3>3. CASE m = i
      <4>1. ~(m > month)
        BY <1>1, <2>2, <3>3
      <4>2. r <= spent[m] /\ spent[m] \in Nat /\ spent'[m] = spent[m] + k /\ used'[m] = r + k
        BY <2>2, <2>6, <2>7, <3>3
      <4>3. ~lost' => r = spent[m]
        BY <2>3, <3>1, <3>3
      <4> QED BY <2>2, <2>3, <4>1, <4>2, <4>3
    <3> QED BY <3>2, <3>3
  <2>10. ASSUME NEW d \in Callers, call'[d].at = "save"
         PROVE  call'[d].in \in 1 .. month' /\ call'[d].read <= spent'[call'[d].in]
    <3>1. d # c /\ call'[d] = call[d]
      BY <2>5, <2>10, RestingFits
    <3>2. call[d].in \in 1 .. month /\ call[d].read <= spent[call[d].in] /\ call[d].read \in Nat
      <4>1. call[d] \in AnyCall /\ call[d].at = "save"
        BY <2>10, <3>1 DEF LlmTypes
      <4> QED BY <4>1 DEF MeterInv, AnyCall
    <3>3. PICK j \in 1 .. month, q \in Nat : j = call[d].in /\ q = call[d].read /\ q <= spent[j]
      BY <3>2
    <3>4. j \in 1 .. MaxMonth
      BY <1>1, <3>3, NumbersFit
    <3>5. q <= spent'[j]
      <4>1. spent[j] \in Nat /\ spent[j] <= spent'[j] /\ spent'[j] \in Nat
        BY <1>1, <2>7, <3>4 DEF LlmTypes
      <4> QED BY <3>3, <4>1
    <3> QED BY <2>3, <3>1, <3>3, <3>5
  <2>11. Most' = Most /\ Tokens(Callers)' = Tokens(Callers)
    BY DEF Most, Tokens
  <2> QED BY <2>8, <2>9, <2>10, <2>11 DEF MeterInv
<1>5. CASE ReadMeter(c)
  <2>1. PICK n \in AnyCall :
              Becomes(c, n) /\ n.at = "save" /\ n.via = call[c].via /\ n.in = month /\ n.read = used[month]
    BY <1>5, CallerBecomes
  <2>2. UNCHANGED meterVars /\ call[c].at = "consume"
    BY <1>5 DEF ReadMeter
  <2> QED BY <1>2, <2>1, <2>2
<1>6. CASE ModelAnswers(c) \/ Unauthorized(c)
  <2>1. UNCHANGED meterVars /\ call[c].at = "sent"
    BY <1>6 DEF ModelAnswers, Unauthorized
  <2>2. PICK n \in AnyCall : Becomes(c, n) /\ n.at \in {"sent", "consume"}
    <3>1. CASE ModelAnswers(c)
      <4>1. \E n \in AnyCall : Becomes(c, n) /\ n.at = "consume" /\ n.via = 0
        BY <3>1, CallerBecomes
      <4> QED BY <4>1
    <3>2. CASE Unauthorized(c)
      <4>1. \E n \in AnyCall :
              Becomes(c, n) /\ n.at = "sent" /\ n.via = call[c].via /\ n.server = call[c].server /\ n.key = call[c].key
        BY <3>2, CallerBecomes
      <4> QED BY <4>1
    <3> QED BY <1>6, <3>1, <3>2
  <2> QED BY <1>2, <2>1, <2>2
<1>7. CASE CallFails(c)
  <2>1. UNCHANGED meterVars /\ Becomes(c, Resting)
    BY <1>7 DEF CallFails, Becomes
  <2> QED BY <1>2, <2>1, RestingFits
<1>8. CASE Call(c) \/ GetClient(c) \/ MakeClient(c) \/ CopyConfig(c) \/ NameModel(c) \/ ReadServer(c)
  <2>1. UNCHANGED meterVars
    BY <1>8 DEF Call, GetClient, MakeClient, CopyConfig, NameModel, ReadServer
  <2>2. PICK n \in AnyCall : Becomes(c, n) /\ n.at \notin {"sent", "consume", "save"}
    <3>1. CASE Call(c)
      <4>1. \E n \in AnyCall : Becomes(c, n) /\ n.at \in {"server", "lookup"} /\ n.via \in 0 .. Len(made)
        BY <3>1, CallerBecomes
      <4> QED BY <4>1
    <3>2. CASE GetClient(c)
      <4>1. \E n \in AnyCall : /\ Becomes(c, n) /\ n.at \in {"server", "make"} /\ n.via \in 0 .. Len(made)
                               /\ n.at = "make" => made = << >> /\ config["fast"] # ""
        BY <3>2, CallerBecomes
      <4> QED BY <4>1
    <3>3. CASE MakeClient(c)
      <4>1. \E n \in AnyCall : Becomes(c, n) /\ n.at = "copy" /\ n.via = call[c].via
        BY <3>3, CallerBecomes
      <4> QED BY <4>1
    <3>4. CASE CopyConfig(c)
      <4>1. \E n \in AnyCall : Becomes(c, n) /\ n.at = "name" /\ n.via = call[c].via
        BY <3>4, CallerBecomes
      <4> QED BY <4>1
    <3>5. CASE NameModel(c)
      <4>1. \E n \in AnyCall : Becomes(c, n) /\ n.at = "server" /\ n.via = Len(made)
        BY <3>5, CallerBecomes
      <4> QED BY <4>1
    <3>6. CASE ReadServer(c)
      <4>1. \E n \in AnyCall :
              Becomes(c, n) /\ n.at = "rest" /\ n.via = call[c].via /\ n.server = Settings(call[c].via)["server"]
        BY <3>6, CallerBecomes
      <4> QED BY <4>1
    <3> QED BY <1>8, <3>1, <3>2, <3>3, <3>4, <3>5, <3>6
  <2> QED BY <1>2, <2>1, <2>2
<1> QED BY <1>3, <1>4, <1>5, <1>6, <1>7, <1>8 DEF CallerStep

---------------------------------------------------------------------------
LlmInv == AccessInv /\ MeterInv

(* The invariant holds at the first start.                                       *)
LEMMA LlmStarts == ASSUME LlmIdle PROVE LlmInv
<1>1. AccessInv
  BY IdleAccess
<1>2. used = [m \in 1 .. MaxMonth |-> 0] /\ month = 1 /\ spent = used
  BY DEF LlmIdle
<1>3. \A c \in Callers : call[c].at = "none"
  BY RestingFits DEF LlmIdle
<1>4. ASSUME NEW m \in 1 .. MaxMonth PROVE used[m] + Tokens(InFlight(m)) <= Most + Tokens(Callers)
  <2>1. PICK A : A = InFlight(m)
    OBVIOUS
  <2>2. A \subseteq Callers
    BY <2>1 DEF InFlight
  <2> QED BY <1>2, <2>1, <2>2, TokensGrow, MostIs
<1> QED BY <1>1, <1>2, <1>3, <1>4 DEF LlmInv, MeterInv

(* Every step keeps the invariant.                                               *)
LEMMA LlmKeeps == ASSUME LlmInv, LlmNext \/ UNCHANGED llmVars PROVE LlmInv'
<1>1. AccessInv /\ MeterInv /\ LlmTypes
  BY DEF LlmInv, AccessInv
<1>2. ASSUME AccessInv', used' = used, spent' = spent, lost' = lost, month <= month', call' = call PROVE MeterInv'
  <2>1. LlmTypes'
    BY <1>2 DEF AccessInv
  <2>2. month \in Nat /\ month' \in Nat
    BY <1>1, <2>1, NumbersFit DEF LlmTypes
  <2>3. ASSUME NEW m \in 1 .. MaxMonth PROVE InFlight(m)' \subseteq InFlight(m)
    <3>1. m \in Nat
      BY NumbersFit
    <3> QED BY <1>2, <2>2, <3>1 DEF InFlight
  <2>4. \A c \in Callers : call'[c].at = "save" => call'[c].in \in 1 .. month' /\ call'[c].read <= spent[call'[c].in]
    BY <1>1, <1>2, <2>2 DEF MeterInv
  <2> QED BY <1>1, <1>2, <2>1, <2>3, <2>4, QuietMeter
<1>3. CASE Assign
  <2>1. AccessInv'
    BY <1>1, <1>3, AssignAccess
  <2>2. UNCHANGED meterVars /\ call' = call
    BY <1>3 DEF Assign
  <2>3. month <= month'
    BY <1>1, <2>2, NumbersFit DEF LlmTypes, meterVars
  <2> QED BY <1>2, <2>1, <2>2, <2>3 DEF LlmInv, meterVars
<1>4. CASE Relaunch
  <2>1. AccessInv' /\ LlmTypes'
    BY <1>1, <1>4, RelaunchAccess DEF AccessInv
  <2>2. UNCHANGED meterVars /\ \A c \in Callers : call'[c].at = "none"
    BY <1>4, RestingFits DEF Relaunch
  <2>3. month <= month'
    BY <1>1, <2>2, NumbersFit DEF LlmTypes, meterVars
  <2>4. \A m \in 1 .. MaxMonth : InFlight(m)' \subseteq InFlight(m)
    BY <2>2 DEF InFlight
  <2>5. MeterInv'
    BY <1>1, <2>1, <2>2, <2>3, <2>4, QuietMeter DEF meterVars
  <2> QED BY <2>1, <2>5 DEF LlmInv
<1>5. CASE NewMonth
  <2>1. /\ month' = month + 1 /\ month < MaxMonth /\ UNCHANGED <<file, rows, config, made, router, todo, call>>
        /\ UNCHANGED <<used, spent, lost>> /\ UNCHANGED flags
    BY <1>5 DEF NewMonth
  <2>2. month \in 1 .. MaxMonth /\ month' \in 1 .. MaxMonth /\ month <= month'
    BY <1>1, <2>1, NumbersFit DEF LlmTypes
  <2>3. AccessInv'
    <3>1. \A k : Settings(k)' = Settings(k)
      BY <2>1 DEF Settings
    <3>2. Making' = Making
      BY <2>1 DEF Making
    <3>3. Stage'
      BY <1>1, <2>1, StageStays DEF AccessInv, flags
    <3>4. LlmTypes'
      BY <1>1, <2>1, <2>2 DEF LlmTypes, flags
    <3>5. MakerInv' /\ KeyInv'
      BY <1>1, <2>1, <3>1, <3>2 DEF AccessInv, MakerInv, KeyInv, KeysFit, flags
    <3> QED BY <3>3, <3>4, <3>5 DEF AccessInv
  <2> QED BY <1>2, <2>1, <2>2, <2>3 DEF LlmInv
<1>6. CASE \/ ClearCredentials \/ \E p \in Pairs : PutCredentials(p)
           \/ \E m \in Models, f \in Models \cup {""} : PutModels(m, f)
  <2>1. AccessInv'
    BY <1>1, <1>6, RequestAccess
  <2>2. UNCHANGED meterVars /\ call' = call
    <3>1. \E w : Request(w)
      BY <1>6, Zenon DEF ClearCredentials, PutCredentials, PutModels
    <3> QED BY <3>1 DEF Request
  <2>3. month <= month'
    BY <1>1, <2>2, NumbersFit DEF LlmTypes, meterVars
  <2> QED BY <1>2, <2>1, <2>2, <2>3 DEF LlmInv, meterVars
<1>7. ASSUME NEW c \in Callers, CallerStep(c) PROVE LlmInv'
  <2>1. MeterTypes'
    BY <1>1, <1>7, CallerMeterTypes
  <2>2. AccessInv'
    BY <1>1, <1>7, <2>1, CallerAccess
  <2>3. MeterInv'
    BY <1>1, <1>7, <2>2, CallerMeter DEF AccessInv
  <2> QED BY <2>2, <2>3 DEF LlmInv
<1>8. CASE UNCHANGED llmVars
  <2>1. /\ UNCHANGED <<file, rows, config, made, router, todo, call, used, month>>
        /\ UNCHANGED <<spent, lost, cleared, doubled, mixed>>
    BY <1>8 DEF llmVars
  <2>2. AccessInv'
    <3>1. \A k : Settings(k)' = Settings(k)
      BY <2>1 DEF Settings
    <3>2. Making' = Making
      BY <2>1 DEF Making
    <3>3. Stage'
      BY <1>1, <2>1, StageStays DEF AccessInv
    <3>4. LlmTypes'
      BY <1>1, <2>1 DEF LlmTypes
    <3>5. MakerInv' /\ KeyInv'
      BY <1>1, <2>1, <3>1, <3>2 DEF AccessInv, MakerInv, KeyInv, KeysFit
    <3> QED BY <3>3, <3>4, <3>5 DEF AccessInv
  <2>3. month <= month'
    BY <1>1, <2>1, NumbersFit DEF LlmTypes
  <2> QED BY <1>2, <2>1, <2>2, <2>3 DEF LlmInv
<1>9. CASE LlmNext
  <2>1. ASSUME \E c \in Callers : CallerStep(c) PROVE LlmInv'
    BY <1>7, <2>1
  <2>2. \/ Assign \/ Relaunch \/ NewMonth
        \/ (\/ ClearCredentials \/ \E p \in Pairs : PutCredentials(p)
            \/ \E m \in Models, f \in Models \cup {""} : PutModels(m, f))
        \/ \E c \in Callers : CallerStep(c)
    BY <1>9, Zenon DEF LlmNext, CallerStep
  <2> QED BY <1>3, <1>4, <1>5, <1>6, <2>1, <2>2
<1> QED BY <1>8, <1>9

(* The invariant implies what the run checks.                                    *)
LEMMA LlmImplies == ASSUME LlmInv PROVE LlmSound
<1>1. LlmTypes /\ Stage /\ MakerInv /\ KeyInv /\ MeterInv
  BY DEF LlmInv, AccessInv
<1>2. MeterSound
  <2>1. ASSUME NEW m \in 1 .. MaxMonth, ~lost
        PROVE  used[m] = spent[m] /\ spent[m] <= Most + Cardinality(Callers) * (Input + MaxOut)
    <3>1. PICK A : A = InFlight(m)
      OBVIOUS
    <3>2. A \subseteq Callers
      BY <3>1 DEF InFlight
    <3>3. Tokens(A) \in Nat /\ Tokens(Callers) \in Nat
      BY <3>2, TokensGrow
    <3>4. used[m] + Tokens(A) <= Most + Tokens(Callers) /\ used[m] = spent[m] /\ used[m] \in Nat
      BY <1>1, <2>1, <3>1 DEF MeterInv, LlmTypes
    <3>5. used[m] <= Most + Tokens(Callers)
      BY <3>3, <3>4, MostIs
    <3> QED BY <3>4, <3>5 DEF Tokens
  <2>2. \A m \in 1 .. MaxMonth : used[m] <= spent[m]
    BY <1>1 DEF MeterInv
  <2> QED BY <2>1, <2>2 DEF MeterSound, Most
<1>3. SettingsSaved
  <2> SUFFICES ASSUME todo = << >>, ~doubled PROVE \A f \in Fields : rows[f] # "" \/ ~cleared => config[f] = Loaded[f]
    BY DEF SettingsSaved
  <2>1. NoRequest
    BY <1>1 DEF Stage, ClearStage, PutStage, MainStage, BothStage
  <2> QED BY <2>1 DEF NoRequest, Kept, Agrees
<1>4. KeyOfServer
  <2> SUFFICES ASSUME ~mixed, ~doubled
               PROVE  /\ \A c \in Callers : call[c].at = "sent" => call[c].server = call[c].key
                      /\ \A n \in DOMAIN made : Belongs(made[n]["key"], made[n]["server"])
    BY DEF KeyOfServer
  <2>1. DOMAIN made = 1 .. Len(made)
    BY <1>1 DEF LlmTypes
  <2> QED BY <1>1, <2>1 DEF KeyInv, KeysFit
<1> QED BY <1>2, <1>3, <1>4 DEF LlmSound

-----------------------------------------------------------------------------
Routing == {"route", "classify", "keys", "build", "open", "fill"}
Asked   == {"classify", "keys", "build", "open", "fill"}
Steps   == Routing \cup {"none", "parse", "command", "in", "plan", "run", "out", "log", "done", "dead"}
Caches  == [Inputs -> Classifications]

Message == [at : Steps, text : Inputs \cup {""}, use : {"check", "main"},
            via : {"none", "command", "shortcut", "plan", "skill", "talk", "answer"},
            found : Classifications, keys : SUBSET Inputs, snap : Caches, out : Nat, slips : 0 .. 1]

(* The text is kept until there is an answer.                                  *)
Texted(m) == \/ m.at \in Routing \cup {"parse", "command", "run", "in", "plan"}
             \/ m.at \in {"out", "log"} /\ m.via = "plan"
             => m.text \in Inputs

IntakeTypes == /\ rules \in Caches /\ cache \in Caches /\ ruled \subseteq Inputs
               /\ saved \in [is : {"whole", "empty", "torn"}, has : Caches]
               /\ msg \in [Threads -> Message] /\ raced \in BOOLEAN
               /\ \A w \in Threads : Texted(msg[w])

(* What a message has recorded, and refused, at each step.                      *)
Recorded(m) ==
  /\ m.at \in {"none", "parse", "command", "in", "plan", "dead"} => m.out = 0 /\ m.slips = 0
  /\ m.at \in Routing \cup {"run", "out"} => m.out <= m.slips
  /\ m.at \in {"log", "done"} => m.out \in 1 .. 1 + m.slips
  /\ m.at \in Routing /\ m.use = "check" => m.slips = 0 /\ m.via # "plan"
  /\ m.slips = 1 => m.via # "plan" \/ m.at \in Routing
  /\ m.at \in {"parse","command","in","plan"} => m.via # "plan"

Preferred(m) == /\ m.at \in Asked => rules[m.text].conf < RuleMin
                /\ m.at = "run" /\ rules[m.text].conf >= RuleMin => m.found = rules[m.text]
RuledOut == \A t \in ruled : rules[t].conf >= RuleMin /\ cache[t] = Unknown

(* While no two saves have overlapped: what is not about to be saved is in the hands  *)
(* of the one that saves, or in the file.                                     *)
Fresh(t) == cache[t] # Unknown /\ \A v \in Threads : msg[v].at = "keys" => msg[v].text # t
Copying(v) == msg[v].at \in {"build", "open", "fill"}
OneCopies == /\ \A v, w \in Threads : Copying(v) /\ Copying(w) => v = w
             /\ \A v \in Threads : msg[v].at = "fill" => saved.is = "empty"
InHand == /\ (\A v \in Threads : ~Copying(v)) => \A t \in Inputs : Fresh(t) => saved.has[t] = cache[t]
          /\ \A v \in Threads : \A t \in Inputs : Fresh(t) =>
                 /\ msg[v].at = "build" => t \in msg[v].keys
                 /\ msg[v].at \in {"open", "fill"} => msg[v].snap[t] = cache[t]

IntakeInv == /\ IntakeTypes
             /\ \A w \in Threads : Recorded(msg[w]) /\ Preferred(msg[w])
             /\ RuledOut
             /\ ~raced => OneCopies /\ InHand

(* A classification that is not there is one of the classifications.             *)
LEMMA NothingFound == Unknown \in Classifications /\ NoCache \in Caches
BY DEF Unknown, Found, Classifications, NoCache, Caches

(* A message that has not come, or whose thread is dead, is a message.           *)
LEMMA MessageTypes == /\ Absent \in Message /\ Dead \in Message
                      /\ Absent.at = "none" /\ Dead.at = "dead"
                      /\ Absent.out = 0 /\ Dead.out = 0 /\ Absent.slips = 0 /\ Dead.slips = 0
                      /\ Absent.via = "none"
<1>1. /\ Absent \in Message /\ Absent.at = "none" /\ Absent.out = 0 /\ Absent.slips = 0
      /\ Absent.via = "none"
  BY NothingFound DEF Absent, Message, Steps
<1>2. Dead \in Message /\ Dead.at = "dead" /\ Dead.out = 0 /\ Dead.slips = 0
  BY <1>1 DEF Dead, Message, Steps
<1> QED BY <1>1, <1>2

(* What a message is after its route is found.                                   *)
LEMMA RoutedMessage ==
  ASSUME NEW w \in Threads, msg[w] \in Message, NEW found \in Classifications
  PROVE  /\ Routed(w, found) \in Message
         /\ Routed(w, found).out = msg[w].out /\ Routed(w, found).slips = msg[w].slips
         /\ Routed(w, found).text = msg[w].text
         /\ \/ /\ msg[w].use = "main" /\ Routed(w, found).at = "run" /\ Routed(w, found).found = found
               /\ Routed(w, found).via \in {"skill", "talk"}
            \/ /\ msg[w].use = "check" /\ Routed(w, found).at = "in"
               /\ Routed(w, found).via \in {"shortcut", "none"}
<1> DEFINE m == [msg[w] EXCEPT !.keys = {}, !.snap = NoCache]
<1>1. m \in Message /\ m.out = msg[w].out /\ m.slips = msg[w].slips /\ m.text = msg[w].text
  BY NothingFound DEF Message
<1> HIDE DEF m
<1>2. CASE msg[w].use = "main"
  <2>1. PICK via \in {"skill", "talk"} :
          Routed(w, found) = [m EXCEPT !.at = "run", !.found = found, !.via = via]
    BY <1>2 DEF Routed, m
  <2> QED BY <1>1, <1>2, <2>1 DEF Message, Steps
<1>3. CASE msg[w].use = "check"
  <2>1. PICK via \in {"shortcut", "none"} :
          Routed(w, found) = [m EXCEPT !.at = "in", !.found = Unknown, !.via = via]
    <3>1. Routed(w, found) = [m EXCEPT !.at = "in", !.found = Unknown, !.via =
                                 IF found.by = "rule" /\ found.conf >= ShortcutMin THEN "shortcut"
                                 ELSE "none"]
      BY <1>3 DEF Routed, m
    <3> QED BY <3>1
  <2> QED BY <1>1, <1>3, <2>1, NothingFound DEF Message, Steps
<1> QED BY <1>2, <1>3 DEF Message

(* The invariant holds at the start.                                             *)
LEMMA IntakeInit == IntakeIdle => IntakeInv
<1> SUFFICES ASSUME IntakeIdle PROVE IntakeInv
  OBVIOUS
<1>1. IntakeTypes
  BY NothingFound, MessageTypes, IntakeConstants DEF IntakeIdle, IntakeTypes, Texted, File, Caches, Routing
<1>2. \A w \in Threads : msg[w] = Absent
  BY DEF IntakeIdle
<1>3. \A w \in Threads : Recorded(msg[w]) /\ Preferred(msg[w])
  BY <1>2, MessageTypes DEF Recorded, Preferred, Routing, Asked
<1>4. RuledOut /\ OneCopies /\ InHand
  BY <1>2, MessageTypes DEF IntakeIdle, RuledOut, OneCopies, InHand, Copying, File
<1> QED BY <1>1, <1>3, <1>4 DEF IntakeInv

(* A message as the thread that has it may leave it.                           *)
Saves(m)  == m.at \in {"keys", "build", "open", "fill"}
Sound(m)  == m \in Message /\ Texted(m) /\ Recorded(m) /\ Preferred(m)

(* A thread's turn that keeps its message sound, the rules and the one saver     *)
(* keeps the invariant.                                                          *)
LEMMA OneTurn ==
  ASSUME IntakeInv, NEW w \in Threads, NEW n, Sound(n), Turn(w, n), rules' = rules,
         cache' \in Caches, saved' \in [is : {"whole", "empty", "torn"}, has : Caches],
         ruled' \subseteq Inputs, raced' \in BOOLEAN
  PROVE  /\ IntakeTypes' /\ \A v \in Threads : (Recorded(msg[v]) /\ Preferred(msg[v]))'
         /\ msg'[w] = n /\ \A v \in Threads \ {w} : msg'[v] = msg[v]
<1>1. msg \in [Threads -> Message] /\ msg' = [msg EXCEPT ![w] = n]
  BY DEF IntakeInv, IntakeTypes, Turn
<1>2. msg'[w] = n /\ \A v \in Threads \ {w} : msg'[v] = msg[v]
  BY <1>1
<1>3. IntakeTypes'
  BY <1>1, <1>2 DEF Sound, IntakeInv, IntakeTypes, Texted
<1>4. \A v \in Threads : (Recorded(msg[v]) /\ Preferred(msg[v]))'
  BY <1>2 DEF Sound, IntakeInv, Recorded, Preferred
<1> QED BY <1>2, <1>3, <1>4

(* A turn outside the saving of the cache, which forgets an entry at most.         *)
LEMMA QuietTurn ==
  ASSUME IntakeInv, NEW w \in Threads, NEW n, Sound(n), Turn(w, n), ~Saves(n), ~Saves(msg[w]),
         UNCHANGED <<rules, saved, raced>>, cache' \in Caches,
         \A t \in Inputs : cache'[t] \in {cache[t], Unknown},
         ruled' \subseteq Inputs, RuledOut'
  PROVE  IntakeInv'
<1>1. /\ IntakeTypes' /\ \A v \in Threads : (Recorded(msg[v]) /\ Preferred(msg[v]))'
      /\ msg'[w] = n /\ \A v \in Threads \ {w} : msg'[v] = msg[v]
  BY OneTurn DEF IntakeInv, IntakeTypes
<1>2. ASSUME ~raced PROVE OneCopies' /\ InHand'
  BY <1>1, <1>2 DEF IntakeInv, OneCopies, InHand, Copying, Saves, Fresh
<1> QED BY <1>1, <1>2 DEF IntakeInv

(* A message that has not come, or is dead, has nothing to answer for.           *)
LEMMA RestIsSound == Sound(Dead) /\ Sound(Absent) /\ ~Saves(Dead) /\ ~Saves(Absent)
<1>1. Sound(Dead)
  BY MessageTypes DEF Sound, Texted, Recorded, Preferred, Routing, Asked
<1>2. Sound(Absent)
  BY MessageTypes DEF Sound, Texted, Recorded, Preferred, Routing, Asked
<1>3. ~Saves(Dead) /\ ~Saves(Absent)
  BY MessageTypes DEF Saves
<1> QED BY <1>1, <1>2, <1>3

(* One turn changes the step, and the fields that are named.                    *)
Keeps(n, m) == n.out = m.out /\ n.slips = m.slips /\ n.text = m.text

(* The steps that neither look up nor save a classification.                     *)
LEMMA QuietSteps ==
  ASSUME IntakeInv, NEW w \in Threads,
         \/ TakeMessage(w) \/ Parse(w) \/ RunCommand(w) \/ RecordMessage(w) \/ Plan(w) \/ RunRoute(w)
         \/ SkillRaises(w) \/ RecordReply(w) \/ LogExecution(w) \/ RecordRaises(w) \/ Leave(w)
         \/ ClassifyRaises(w)
  PROVE  IntakeInv'
<1> DEFINE m == msg[w]
<1>1. m \in Message /\ Recorded(m) /\ Preferred(m) /\ Texted(m)
  BY DEF IntakeInv, IntakeTypes
<1>2. ASSUME NEW n, Sound(n), Turn(w, n), ~Saves(n), ~Saves(m), KeepRouter PROVE IntakeInv'
  BY <1>2, QuietTurn DEF KeepRouter, IntakeInv, IntakeTypes, RuledOut
<1>0. m.out \in Nat /\ m.slips \in 0 .. 1
  BY <1>1 DEF Message
<1>3. ASSUME NEW step \in Steps
      PROVE  LET n == [m EXCEPT !.at = step] IN
             n \in Message /\ Keeps(n, m) /\ n.at = step /\ n.use = m.use /\ n.via = m.via
  BY <1>1, <1>3 DEF Message, Keeps
<1>4. ASSUME Reached(w, "in") \/ Reached(w, "run")
      PROVE  LET n == Answered(w) IN
             n \in Message /\ n.at = "out" /\ n.via = "answer" /\ n.out = m.out /\ n.slips = m.slips
  BY <1>1, <1>4, MessageTypes DEF Message, Steps, Answered
<1> HIDE DEF m
<1> USE DEF Sound, Texted, Recorded, Preferred, Saves, Routing, Asked, Reached, Keeps
<1>5. CASE TakeMessage(w)
  <2>1. PICK t \in Inputs : Turn(w, [Absent EXCEPT !.at = "parse", !.text = t])
    BY <1>5 DEF TakeMessage
  <2> DEFINE n == [Absent EXCEPT !.at = "parse", !.text = t]
  <2>2. /\ n \in Message /\ n.at = "parse" /\ n.text = t /\ n.via = "none"
        /\ n.out = 0 /\ n.slips = 0
    BY MessageTypes DEF Message, Steps
  <2> HIDE DEF n
  <2>3. Sound(n) /\ ~Saves(n)
    BY <2>2
  <2> QED BY <1>2, <1>5, <2>1, <2>3 DEF TakeMessage, m, n
<1>6. CASE Parse(w)
  <2>1. PICK step \in {"command", "route"} : Turn(w, [m EXCEPT !.at = step])
    BY <1>6 DEF Parse, Goto, m
  <2> DEFINE n == [m EXCEPT !.at = step]
  <2>2. m.at = "parse" /\ KeepRouter
    BY <1>6 DEF Parse, m
  <2>3. n \in Message /\ Keeps(n, m) /\ n.at = step /\ n.use = m.use /\ n.via = m.via
    BY <1>3 DEF Steps
  <2> HIDE DEF n
  <2>4. Sound(n) /\ ~Saves(n)
    BY <1>1, <2>2, <2>3
  <2> QED BY <1>2, <2>1, <2>2, <2>4 DEF n
<1>7. CASE RunCommand(w)
  <2> DEFINE n == [m EXCEPT !.at = "in", !.via = "command"]
  <2>1. m.at = "command" /\ KeepRouter /\ Turn(w, n)
    BY <1>7 DEF RunCommand, m
  <2>2. n \in Message /\ Keeps(n, m) /\ n.at = "in" /\ n.via = "command"
    BY <1>1 DEF Message, Steps
  <2> HIDE DEF n
  <2>3. Sound(n) /\ ~Saves(n)
    BY <1>1, <2>1, <2>2
  <2> QED BY <1>2, <2>1, <2>3
<1>8. CASE RecordMessage(w)
  <2>1. m.at = "in" /\ KeepRouter /\ (Turn(w, [m EXCEPT !.at = "plan"]) \/ Turn(w, Answered(w)))
    BY <1>8 DEF RecordMessage, Goto, m
  <2>2. Sound(Answered(w)) /\ ~Saves(Answered(w))
    BY <1>1, <1>4, <1>8, <2>1 DEF RecordMessage
  <2> DEFINE n == [m EXCEPT !.at = "plan"]
  <2>3. n \in Message /\ Keeps(n, m) /\ n.at = "plan" /\ n.via = m.via
    BY <1>3 DEF Steps
  <2> HIDE DEF n
  <2>4. Sound(n) /\ ~Saves(n)
    BY <1>1, <2>1, <2>3
  <2> QED BY <1>2, <2>1, <2>2, <2>4 DEF n
<1>9. CASE Plan(w)
  <2> DEFINE n1 == [m EXCEPT !.at = "out", !.via = "plan"]
             n2 == [m EXCEPT !.at = "route", !.use = "main"]
  <2>1. m.at = "plan" /\ KeepRouter /\ (Turn(w, n1) \/ Turn(w, n2))
    BY <1>9 DEF Plan, m
  <2>2. /\ n1 \in Message /\ Keeps(n1, m) /\ n1.at = "out" /\ n1.via = "plan"
        /\ n2 \in Message /\ Keeps(n2, m) /\ n2.at = "route" /\ n2.use = "main"
    BY <1>1 DEF Message, Steps
  <2> HIDE DEF n1, n2
  <2>3. Sound(n1) /\ ~Saves(n1)
    BY <1>1, <2>1, <2>2
  <2>4. Sound(n2) /\ ~Saves(n2)
    BY <1>1, <2>1, <2>2
  <2> QED BY <1>2, <2>1, <2>3, <2>4
<1>10. CASE RunRoute(w)
  <2>1. Sound(Answered(w)) /\ ~Saves(Answered(w))
    BY <1>1, <1>4, <1>10 DEF RunRoute, m
  <2> QED BY <1>2, <1>10, <2>1 DEF RunRoute, m
<1>11. CASE SkillRaises(w) \/ ClassifyRaises(w) \/ Leave(w)
  BY <1>2, <1>11, RestIsSound DEF SkillRaises, ClassifyRaises, Leave, m
<1>12. CASE RecordReply(w)
  <2>1. PICK k \in Nat : k = m.out + 1
    BY <1>0
  <2> DEFINE n == [m EXCEPT !.out = k, !.at = "log"]
  <2>2. m.at = "out" /\ KeepRouter /\ Turn(w, n)
    BY <1>12, <2>1 DEF RecordReply, m
  <2>3. /\ n \in Message /\ n.out = k /\ n.slips = m.slips /\ n.text = m.text
        /\ n.at = "log" /\ n.via = m.via
    BY <1>1 DEF Message, Steps
  <2> HIDE DEF n
  <2>4. Sound(n) /\ ~Saves(n)
    BY <1>0, <1>1, <2>1, <2>2, <2>3
  <2> QED BY <1>2, <2>2, <2>4
<1>13. CASE LogExecution(w)
  <2> DEFINE n == [m EXCEPT !.at = "done"]
  <2>1. m.at = "log" /\ KeepRouter /\ Turn(w, n)
    BY <1>13 DEF LogExecution, Goto, m
  <2>2. n \in Message /\ Keeps(n, m) /\ n.at = "done" /\ n.via = m.via
    BY <1>3 DEF Steps
  <2> HIDE DEF n
  <2>3. Sound(n) /\ ~Saves(n)
    BY <1>1, <2>1, <2>2
  <2> QED BY <1>2, <2>1, <2>3
<1>14. CASE RecordRaises(w)
  <2> DEFINE n == [m EXCEPT !.at = "route", !.use = "main", !.slips = m.slips + 1]
  <2>1. m.at \in {"in", "out", "log"} /\ KeepRouter /\ ((m.via = "plan" /\ Turn(w, n)) \/ Turn(w, Dead))
    BY <1>14 DEF RecordRaises, m
  <2>2. CASE m.via = "plan" /\ Turn(w, n)
    <3>1. m.slips = 0 /\ m.out \in {0, 1}
      BY <1>0, <1>1, <2>1, <2>2
    <3>4. ASSUME NEW k \in 0 .. 1
          PROVE  LET l == [m EXCEPT !.at = "route", !.use = "main", !.slips = k] IN
                 /\ l \in Message /\ l.out = m.out /\ l.slips = k /\ l.text = m.text
                 /\ l.at = "route" /\ l.use = "main"
      BY <1>1 DEF Message, Steps
    <3>2. /\ n \in Message /\ n.out = m.out /\ n.slips = 1 /\ n.text = m.text
          /\ n.at = "route" /\ n.use = "main"
      BY <3>1, <3>4
    <3> HIDE DEF n
    <3>3. Sound(n) /\ ~Saves(n)
      BY <1>1, <2>1, <2>2, <3>1, <3>2
    <3> QED BY <1>2, <2>1, <2>2, <3>3
  <2> QED BY <1>2, <2>1, <2>2, RestIsSound
<1> QED BY <1>5, <1>6, <1>7, <1>8, <1>9, <1>10, <1>11, <1>12, <1>13, <1>14

(* A route that is found, by a rule that is sure or where no rule is.              *)
LEMMA RoutedIsSound ==
  ASSUME IntakeInv, NEW w \in Threads, msg[w].at \in Routing, NEW found \in Classifications,
         rules[msg[w].text].conf >= RuleMin => found = rules[msg[w].text]
  PROVE  Sound(Routed(w, found)) /\ ~Saves(Routed(w, found))
<1> DEFINE m == msg[w]
           n == Routed(w, found)
<1>1. m \in Message /\ Recorded(m) /\ Preferred(m) /\ Texted(m)
  BY DEF IntakeInv, IntakeTypes
<1>2. /\ n \in Message /\ n.out = m.out /\ n.slips = m.slips /\ n.text = m.text
      /\ \/ /\ m.use = "main" /\ n.at = "run" /\ n.found = found /\ n.via \in {"skill", "talk"}
         \/ /\ m.use = "check" /\ n.at = "in" /\ n.via \in {"shortcut", "none"}
  BY <1>1, RoutedMessage
<1> HIDE DEF m, n
<1>3. m.at \in Routing /\ (rules[m.text].conf >= RuleMin => found = rules[m.text]) /\ m.out \in Nat /\ m.slips \in 0 .. 1
  BY <1>1 DEF m, Message
<1>4. Sound(n) /\ ~Saves(n)
  BY <1>1, <1>2, <1>3 DEF Sound, Texted, Recorded, Preferred, Saves, Routing, Asked
<1> QED BY <1>4 DEF n

(* The rules are asked first.                                                    *)
LEMMA MatchRuleKeeps == ASSUME IntakeInv, NEW w \in Threads, MatchRule(w) PROVE IntakeInv'
<1> DEFINE t == msg[w].text
<1>1. t \in Inputs /\ rules[t] \in Classifications /\ ~Saves(msg[w]) /\ msg[w].at = "route"
  BY DEF MatchRule, Reached, Saves, IntakeInv, IntakeTypes, Texted, Routing, Caches
<1>2. Sound(Routed(w, rules[t])) /\ ~Saves(Routed(w, rules[t]))
  BY <1>1, RoutedIsSound DEF Routing
<1>3. cache' = [cache EXCEPT ![t] = Unknown] /\ cache \in Caches
  BY DEF MatchRule, ForgetCached, IntakeInv, IntakeTypes
<1>4. cache' \in Caches /\ \A u \in Inputs : cache'[u] \in {cache[u], Unknown}
  BY <1>1, <1>3, NothingFound DEF Caches
<1>5. RuledOut' /\ ruled' \subseteq Inputs
  BY <1>1, <1>3 DEF MatchRule, KeepTasks, IntakeInv, IntakeTypes, RuledOut, Caches
<1> QED BY <1>1, <1>2, <1>4, <1>5, QuietTurn DEF MatchRule, KeepTasks

(* The cache is asked where no rule was sure.                                    *)
LEMMA LookUpKeeps == ASSUME IntakeInv, NEW w \in Threads, LookUpCache(w) PROVE IntakeInv'
<1> DEFINE t == msg[w].text
<1>1. /\ t \in Inputs /\ rules[t] \in Classifications /\ cache[t] \in Classifications
      /\ ~Saves(msg[w]) /\ msg[w].at = "route" /\ rules[t].conf < RuleMin /\ rules[t].conf \in Int
  BY DEF LookUpCache, Reached, Saves, IntakeInv, IntakeTypes, Texted, Routing, Caches, Classifications
<1>2. Sound(Routed(w, cache[t])) /\ ~Saves(Routed(w, cache[t]))
  BY <1>1, RoutedIsSound DEF Routing, RuleMin
<1> DEFINE m == msg[w]
           n == [m EXCEPT !.at = "classify"]
<1>3. m \in Message /\ Recorded(m) /\ Preferred(m) /\ Texted(m)
  BY DEF IntakeInv, IntakeTypes
<1>4. /\ n \in Message /\ n.out = m.out /\ n.slips = m.slips /\ n.text = m.text
      /\ n.at = "classify" /\ n.via = m.via /\ n.use = m.use
  BY <1>3 DEF Message, Steps, Routing
<1>5. m.at = "route" /\ rules[m.text].conf < RuleMin
  BY <1>1
<1>6. Turn(w, n) \/ Turn(w, Routed(w, cache[t]))
  BY DEF LookUpCache, Goto
<1> HIDE DEF m, n
<1>7. Sound(n) /\ ~Saves(n)
  BY <1>3, <1>4, <1>5 DEF Sound, Texted, Recorded, Preferred, Saves, Routing, Asked
<1>8. /\ UNCHANGED <<rules, saved, raced, cache, ruled>> /\ cache \in Caches /\ ruled \subseteq Inputs
      /\ RuledOut /\ RuledOut'
  BY DEF LookUpCache, KeepRouter, KeepTasks, IntakeInv, IntakeTypes, RuledOut
<1> QED BY <1>1, <1>2, <1>6, <1>7, <1>8, QuietTurn

---------------------------------------------------------------------------
(* The saving of the cache.                                                 *)

(* What the model said goes into the cache, and its thread goes on to save it.   *)
LEMMA ClassifyKeeps == ASSUME IntakeInv, NEW w \in Threads, Classify(w) PROVE IntakeInv'
<1> DEFINE m == msg[w]
<1>1. m \in Message /\ Recorded(m) /\ Preferred(m) /\ Texted(m) /\ m.at = "classify"
  BY DEF Classify, Reached, IntakeInv, IntakeTypes
<1>2. m.text \in Inputs /\ rules[m.text].conf < RuleMin /\ rules[m.text].conf \in Int
  <2>1. m.text \in Inputs /\ rules[m.text].conf < RuleMin
    BY <1>1 DEF Texted, Preferred, Routing, Asked
  <2>2. rules[m.text] \in Classifications
    BY <2>1 DEF IntakeInv, IntakeTypes, Caches
  <2> QED BY <2>1, <2>2 DEF Classifications
<1>3. PICK conf \in {0, 6}, known \in BOOLEAN :
        LET found == Found(known, conf, "llm") IN
        IF conf >= CacheMin
        THEN cache' = [cache EXCEPT ![m.text] = found]
             /\ Turn(w, [m EXCEPT !.at = "keys", !.found = found])
        ELSE Turn(w, Routed(w, Unknown)) /\ UNCHANGED cache
  BY DEF Classify
<1>4. UNCHANGED <<rules, saved, ruled, raced>>
  BY DEF Classify, KeepTasks
<1>5. cache \in Caches /\ ruled \subseteq Inputs /\ RuledOut /\ raced \in BOOLEAN
      /\ saved \in [is : {"whole", "empty", "torn"}, has : Caches]
  BY DEF IntakeInv, IntakeTypes
<1>6. CASE conf < CacheMin
  <2>1. Turn(w, Routed(w, Unknown)) /\ UNCHANGED cache
    BY <1>3, <1>6 DEF CacheMin
  <2>2. Sound(Routed(w, Unknown)) /\ ~Saves(Routed(w, Unknown))
    BY <1>1, <1>2, RoutedIsSound, NothingFound DEF Routing, RuleMin
  <2>3. ~Saves(msg[w]) /\ RuledOut'
    BY <1>1, <1>4, <1>5, <2>1 DEF Saves, RuledOut
  <2> QED BY <1>4, <1>5, <2>1, <2>2, <2>3, QuietTurn
<1>7. CASE conf >= CacheMin
  <2> DEFINE found == Found(known, conf, "llm")
             n == [m EXCEPT !.at = "keys", !.found = found]
  <2>1. cache' = [cache EXCEPT ![m.text] = found] /\ Turn(w, n)
    BY <1>3, <1>7
  <2>2. found \in Classifications
    BY DEF Found, Classifications
  <2> HIDE DEF found
  <2>3. /\ n \in Message /\ n.out = m.out /\ n.slips = m.slips /\ n.text = m.text
        /\ n.at = "keys" /\ n.via = m.via /\ n.use = m.use
    BY <1>1, <2>2 DEF Message, Steps, Routing
  <2> HIDE DEF n, m
  <2>4. Sound(n)
    BY <1>1, <1>2, <2>3 DEF Sound, Texted, Recorded, Preferred, Routing, Asked
  <2>5. cache' \in Caches
    BY <1>2, <1>5, <2>1, <2>2 DEF Caches
  <2>6. /\ IntakeTypes' /\ \A v \in Threads : (Recorded(msg[v]) /\ Preferred(msg[v]))'
        /\ msg'[w] = n /\ \A v \in Threads \ {w} : msg'[v] = msg[v]
    BY <1>4, <1>5, <2>1, <2>4, <2>5, OneTurn
  <2>7. RuledOut'
    BY <1>2, <1>4, <1>5, <2>1 DEF RuledOut, RuleMin, Caches
  <2>8. ASSUME ~raced PROVE OneCopies' /\ InHand'
    <3>1. OneCopies /\ InHand
      BY <2>8 DEF IntakeInv
    <3>2. \A v \in Threads : Copying(v)' = Copying(v) /\ (Copying(v) => v # w /\ msg'[v] = msg[v])
      BY <1>1, <2>3, <2>6 DEF Copying, m
    <3>3. \A t \in Inputs : Fresh(t)' => Fresh(t) /\ cache'[t] = cache[t]
      <4> SUFFICES ASSUME NEW t \in Inputs, Fresh(t)' PROVE Fresh(t) /\ cache'[t] = cache[t]
        OBVIOUS
      <4>1. t # m.text
        BY <2>3, <2>6 DEF Fresh
      <4>2. cache'[t] = cache[t]
        BY <1>5, <2>1, <4>1 DEF Caches
      <4>3. Fresh(t)
        BY <1>1, <2>6, <4>2 DEF Fresh, m
      <4> QED BY <4>2, <4>3
    <3>4. OneCopies'
      BY <1>1, <1>4, <2>3, <2>6, <3>1, <3>2 DEF OneCopies, m
    <3>5. InHand'
      BY <1>1, <1>4, <2>3, <2>6, <3>1, <3>2, <3>3 DEF InHand, m
    <3> QED BY <3>4, <3>5
  <2> QED BY <1>4, <2>6, <2>7, <2>8 DEF IntakeInv
<1> QED BY <1>3, <1>6, <1>7 DEF CacheMin

(* The thread that saves takes the cache's keys.                                 *)
LEMMA SaveKeysKeeps == ASSUME IntakeInv, NEW w \in Threads, SaveKeys(w) PROVE IntakeInv'
<1> DEFINE m == msg[w]
           keys == {t \in Inputs : cache[t] # Unknown}
           n == [m EXCEPT !.at = "build", !.keys = keys]
<1>1. m \in Message /\ Recorded(m) /\ Preferred(m) /\ Texted(m) /\ m.at = "keys"
  BY DEF SaveKeys, Reached, IntakeInv, IntakeTypes
<1>2. /\ Turn(w, n) /\ UNCHANGED <<cache, saved, ruled, rules>>
      /\ raced' = (raced \/ \E v \in Threads \ {w} : Saving(v))
  BY DEF SaveKeys, KeepTasks
<1>3. /\ n \in Message /\ n.out = m.out /\ n.slips = m.slips /\ n.text = m.text
      /\ n.at = "build" /\ n.via = m.via /\ n.use = m.use /\ n.keys = keys
  BY <1>1 DEF Message, Steps, Routing
<1> HIDE DEF n
<1>4. Sound(n)
  <2> HIDE DEF m
  <2> QED BY <1>1, <1>3 DEF Sound, Texted, Recorded, Preferred, Routing, Asked
<1>5. /\ IntakeTypes' /\ \A v \in Threads : (Recorded(msg[v]) /\ Preferred(msg[v]))'
      /\ msg'[w] = n /\ \A v \in Threads \ {w} : msg'[v] = msg[v]
  BY <1>2, <1>4, OneTurn DEF IntakeInv, IntakeTypes
<1>6. RuledOut'
  BY <1>2 DEF IntakeInv, RuledOut
<1>7. ASSUME ~raced' PROVE OneCopies' /\ InHand'
  <2>1. \A v \in Threads \ {w} : ~Saving(v) /\ msg'[v] = msg[v]
    BY <1>2, <1>5, <1>7
  <2>2. \A v \in Threads : Copying(v)' => v = w
    BY <2>1 DEF Copying, Saving
  <2>3. OneCopies'
    BY <1>3, <1>5, <2>1, <2>2 DEF OneCopies, Copying, Saving
  <2>4. InHand'
    BY <1>2, <1>3, <1>5, <2>2 DEF InHand, Copying, Fresh
  <2> QED BY <2>3, <2>4
<1> QED BY <1>5, <1>6, <1>7 DEF IntakeInv
(* It copies their entries.                                                      *)
LEMMA BuildSnapshotKeeps == ASSUME IntakeInv, NEW w \in Threads, BuildSnapshot(w) PROVE IntakeInv'
<1> DEFINE m == msg[w]
           snap == [t \in Inputs |-> IF t \in m.keys THEN cache[t] ELSE Unknown]
           n == [m EXCEPT !.at = "open", !.snap = snap]
<1>1. m \in Message /\ Recorded(m) /\ Preferred(m) /\ Texted(m) /\ m.at = "build"
  BY DEF BuildSnapshot, Reached, IntakeInv, IntakeTypes
<1>2. /\ UNCHANGED <<cache, saved, ruled, rules>>
      /\ (Turn(w, n) /\ raced' = raced) \/ (Turn(w, Dead) /\ raced' = TRUE)
  BY DEF BuildSnapshot, KeepTasks
<1>3. snap \in Caches
  BY NothingFound DEF IntakeInv, IntakeTypes, Caches
<1>4. RuledOut'
  BY <1>2 DEF IntakeInv, RuledOut
<1>5. CASE Turn(w, Dead) /\ raced' = TRUE
  <2>1. IntakeTypes' /\ \A v \in Threads : (Recorded(msg[v]) /\ Preferred(msg[v]))'
    BY <1>2, <1>5, RestIsSound, OneTurn DEF IntakeInv, IntakeTypes
  <2> QED BY <1>4, <1>5, <2>1 DEF IntakeInv
<1>6. CASE Turn(w, n) /\ raced' = raced
  <2> HIDE DEF snap
  <2>1. /\ n \in Message /\ n.out = m.out /\ n.slips = m.slips /\ n.text = m.text
        /\ n.at = "open" /\ n.via = m.via /\ n.use = m.use /\ n.snap = snap
    BY <1>1, <1>3 DEF Message, Steps, Routing
  <2> HIDE DEF n
  <2>2. Sound(n)
    <3> HIDE DEF m
    <3> QED BY <1>1, <2>1 DEF Sound, Texted, Recorded, Preferred, Routing, Asked
  <2>3. /\ IntakeTypes' /\ \A v \in Threads : (Recorded(msg[v]) /\ Preferred(msg[v]))'
        /\ msg'[w] = n /\ \A v \in Threads \ {w} : msg'[v] = msg[v]
    BY <1>2, <1>6, <2>2, OneTurn DEF IntakeInv, IntakeTypes
  <2>4. ASSUME ~raced PROVE OneCopies' /\ InHand'
    <3>1. OneCopies /\ InHand
      BY <2>4 DEF IntakeInv
    <3>2. OneCopies'
      BY <1>1, <1>2, <2>1, <2>3, <3>1 DEF OneCopies, Copying
    <3>3. \A t \in Inputs : Fresh(t)' => Fresh(t) /\ t \in m.keys
      BY <1>1, <1>2, <2>3, <3>1 DEF InHand, Fresh
    <3>4. InHand'
      BY <1>1, <1>2, <2>1, <2>3, <3>1, <3>3 DEF InHand, Copying, snap
    <3> QED BY <3>2, <3>4
  <2> QED BY <1>4, <1>6, <2>3, <2>4 DEF IntakeInv
<1> QED BY <1>2, <1>5, <1>6

(* What a thread that saves goes on with: no rule was sure.                       *)
LEMMA RoutedAfterSave ==
  ASSUME IntakeInv, NEW w \in Threads, msg[w].at \in {"open", "fill"}
  PROVE  Sound(Routed(w, msg[w].found)) /\ ~Saves(Routed(w, msg[w].found))
<1>1. msg[w] \in Message /\ Preferred(msg[w]) /\ Texted(msg[w])
  BY DEF IntakeInv, IntakeTypes
<1>2. msg[w].found \in Classifications
  BY <1>1 DEF Message
<1>3. msg[w].text \in Inputs /\ rules[msg[w].text].conf < RuleMin
  BY <1>1 DEF Texted, Preferred, Routing, Asked
<1>4. rules[msg[w].text] \in Classifications
  BY <1>3 DEF IntakeInv, IntakeTypes, Caches
<1>5. rules[msg[w].text].conf \in Int
  BY <1>4 DEF Classifications
<1> QED BY <1>2, <1>3, <1>5, RoutedIsSound DEF Routing, RuleMin

(* It opens the file, which is empty from then on.                               *)
LEMMA OpenFileKeeps == ASSUME IntakeInv, NEW w \in Threads, OpenFile(w) PROVE IntakeInv'
<1> DEFINE m == msg[w]
           n == [m EXCEPT !.at = "fill"]
           r == Routed(w, m.found)
<1>1. m \in Message /\ Recorded(m) /\ Preferred(m) /\ Texted(m) /\ m.at = "open"
  BY DEF OpenFile, Reached, IntakeInv, IntakeTypes
<1>2. /\ UNCHANGED <<cache, ruled, rules>>
      /\ \/ saved' = File("empty", NoCache) /\ Turn(w, n) /\ raced' = raced
         \/ Turn(w, r) /\ raced' = TRUE /\ saved' = saved
  BY DEF OpenFile, Goto, KeepTasks
<1>3. RuledOut'
  BY <1>2 DEF IntakeInv, RuledOut
<1>4. CASE Turn(w, r) /\ raced' = TRUE /\ saved' = saved
  <2>1. Sound(r)
    BY <1>1, RoutedAfterSave
  <2>2. IntakeTypes' /\ \A v \in Threads : (Recorded(msg[v]) /\ Preferred(msg[v]))'
    BY <1>2, <1>4, <2>1, OneTurn DEF IntakeInv, IntakeTypes
  <2> QED BY <1>3, <1>4, <2>2 DEF IntakeInv
<1>5. CASE saved' = File("empty", NoCache) /\ Turn(w, n) /\ raced' = raced
  <2>1. /\ n \in Message /\ n.out = m.out /\ n.slips = m.slips /\ n.text = m.text
        /\ n.at = "fill" /\ n.via = m.via /\ n.use = m.use /\ n.snap = m.snap
    BY <1>1 DEF Message, Steps, Routing
  <2>2. saved' \in [is : {"whole", "empty", "torn"}, has : Caches] /\ saved'.is = "empty"
    BY <1>5, NothingFound DEF File
  <2> HIDE DEF n
  <2>3. Sound(n)
    <3> HIDE DEF m
    <3> QED BY <1>1, <2>1 DEF Sound, Texted, Recorded, Preferred, Routing, Asked
  <2>4. /\ IntakeTypes' /\ \A v \in Threads : (Recorded(msg[v]) /\ Preferred(msg[v]))'
        /\ msg'[w] = n /\ \A v \in Threads \ {w} : msg'[v] = msg[v]
    BY <1>2, <1>5, <2>2, <2>3, OneTurn DEF IntakeInv, IntakeTypes
  <2>5. ASSUME ~raced PROVE OneCopies' /\ InHand'
    <3>1. OneCopies /\ InHand
      BY <2>5 DEF IntakeInv
    <3>2. OneCopies'
      BY <1>1, <2>1, <2>2, <2>4, <3>1 DEF OneCopies, Copying
    <3>3. InHand'
      BY <1>1, <1>2, <2>1, <2>4, <3>1 DEF InHand, Copying, Fresh
    <3> QED BY <3>2, <3>3
  <2> QED BY <1>3, <1>5, <2>4, <2>5 DEF IntakeInv
<1> QED BY <1>2, <1>4, <1>5

(* It fills the file with its copy.                                              *)
LEMMA FillFileKeeps == ASSUME IntakeInv, NEW w \in Threads, FillFile(w) PROVE IntakeInv'
<1> DEFINE m == msg[w]
           r == Routed(w, m.found)
<1>1. m \in Message /\ m.at = "fill"
  BY DEF FillFile, Reached, IntakeInv, IntakeTypes
<1>2. /\ UNCHANGED <<cache, ruled, rules, raced>> /\ Turn(w, r)
      /\ \/ saved' = File("whole", m.snap)
         \/ saved.is # "empty" /\ saved' = File("torn", NoCache)
  BY DEF FillFile, KeepTasks
<1>3. Sound(r) /\ ~Saves(r)
  BY <1>1, RoutedAfterSave
<1>4. RuledOut'
  BY <1>2 DEF IntakeInv, RuledOut
<1>5. saved' \in [is : {"whole", "empty", "torn"}, has : Caches]
  <2>1. m.snap \in Caches
    BY <1>1 DEF Message
  <2> QED BY <1>2, <2>1, NothingFound DEF File
<1>6. /\ IntakeTypes' /\ \A v \in Threads : (Recorded(msg[v]) /\ Preferred(msg[v]))'
      /\ msg'[w] = r /\ \A v \in Threads \ {w} : msg'[v] = msg[v]
  BY <1>2, <1>3, <1>5, OneTurn DEF IntakeInv, IntakeTypes
<1>7. ASSUME ~raced PROVE OneCopies' /\ InHand'
  <2> HIDE DEF r
  <2>1. OneCopies /\ InHand
    BY <1>7 DEF IntakeInv
  <2>2. saved'.has = m.snap
    BY <1>1, <1>2, <2>1 DEF OneCopies, File
  <2>3. \A v \in Threads : ~Copying(v)'
    BY <1>1, <1>3, <1>6, <2>1 DEF OneCopies, Copying, Saves
  <2>4. \A t \in Inputs : Fresh(t)' => Fresh(t)
    BY <1>1, <1>2, <1>6 DEF Fresh
  <2>5. \A t \in Inputs : Fresh(t)' => saved'.has[t] = cache'[t]
    BY <1>1, <1>2, <2>1, <2>2, <2>4 DEF InHand
  <2>6. OneCopies'
    BY <1>3, <1>6, <2>3 DEF OneCopies, Copying, Saves
  <2>7. InHand'
    BY <2>3, <2>5 DEF InHand, Copying
  <2> QED BY <2>6, <2>7
<1> QED BY <1>2, <1>4, <1>6, <1>7 DEF IntakeInv

---------------------------------------------------------------------------
(* Entries that grow old are no longer given, and stay in the file.              *)
LEMMA GrowOldKeeps == ASSUME IntakeInv, GrowOld PROVE IntakeInv'
<1> DEFINE old(c) == [t \in Inputs |-> [c[t] EXCEPT !.old = c[t] # Unknown]]
<1>1. /\ UNCHANGED <<msg, ruled, raced, rules>> /\ \A w \in Threads : msg[w].at = "none"
      /\ cache' = old(cache) /\ saved' = [saved EXCEPT !.has = old(saved.has)]
  BY DEF GrowOld, KeepTasks, Reached
<1>2. ASSUME NEW c \in Caches PROVE old(c) \in Caches
  BY DEF Caches, Classifications
<1>3. cache \in Caches /\ saved \in [is : {"whole", "empty", "torn"}, has : Caches]
  BY DEF IntakeInv, IntakeTypes
<1>4. ASSUME NEW c \in Caches, NEW t \in Inputs, c[t] = Unknown PROVE old(c)[t] = Unknown
  <2>1. (c[t] # Unknown) = FALSE
    BY <1>4
  <2>2. old(c)[t] = [c[t] EXCEPT !.old = FALSE]
    BY <2>1
  <2>3. c[t] \in Classifications /\ c[t].old = FALSE
    BY <1>4, NothingFound DEF Unknown, Found
  <2>4. [c[t] EXCEPT !.old = FALSE] = c[t]
    BY <2>3 DEF Classifications
  <2> QED BY <1>4, <2>2, <2>4
<1> HIDE DEF old
<1>5. cache' \in Caches /\ saved' \in [is : {"whole", "empty", "torn"}, has : Caches]
  BY <1>1, <1>2, <1>3
<1>6. IntakeTypes' /\ \A w \in Threads : (Recorded(msg[w]) /\ Preferred(msg[w]))'
  BY <1>1, <1>5 DEF IntakeInv, IntakeTypes, Recorded, Preferred, Texted
<1>7. RuledOut'
  BY <1>1, <1>3, <1>4 DEF IntakeInv, IntakeTypes, RuledOut
<1>8. ASSUME ~raced PROVE OneCopies' /\ InHand'
  <2>1. \A t \in Inputs : cache[t] # Unknown => saved.has[t] = cache[t]
    BY <1>1, <1>8 DEF IntakeInv, InHand, Fresh, Copying
  <2>2. saved'.has = old(saved.has)
    BY <1>1, <1>3
  <2>3. \A t \in Inputs : cache'[t] # Unknown => saved'.has[t] = cache'[t]
    BY <1>1, <1>3, <1>4, <2>1, <2>2 DEF old
  <2> QED BY <1>1, <2>3 DEF OneCopies, InHand, Copying, Fresh
<1> QED BY <1>1, <1>6, <1>7, <1>8 DEF IntakeInv

(* A restart reads the file.                                                     *)
LEMMA StartAnewKeeps == ASSUME IntakeInv, StartAnew PROVE IntakeInv'
<1>1. /\ rules' \in Caches /\ cache' = saved.has /\ raced' = FALSE /\ ruled' = {} /\ saved' = saved
      /\ msg' = [w \in Threads |-> Absent]
  BY IntakeConstants DEF StartAnew, Caches
<1>2. \A w \in Threads : msg'[w] = Absent
  BY <1>1
<1>3. IntakeTypes'
  BY <1>1, <1>2, MessageTypes DEF IntakeInv, IntakeTypes, Texted, Routing
<1>4. \A w \in Threads : (Recorded(msg[w]) /\ Preferred(msg[w]))'
  BY <1>2, MessageTypes DEF Recorded, Preferred, Routing, Asked
<1>5. RuledOut' /\ OneCopies' /\ InHand'
  BY <1>1, <1>2, MessageTypes DEF RuledOut, OneCopies, InHand, Copying
<1> QED BY <1>3, <1>4, <1>5 DEF IntakeInv

(* Every step keeps the invariant.                                               *)
LEMMA IntakeStep == IntakeInv /\ [IntakeNext]_intakeVars => IntakeInv'
<1>1. ASSUME IntakeInv, UNCHANGED intakeVars PROVE IntakeInv'
  BY <1>1 DEF intakeVars, IntakeInv, IntakeTypes, Recorded, Preferred, Texted, RuledOut, OneCopies,
              InHand, Copying, Fresh
<1> QED BY <1>1, QuietSteps, MatchRuleKeeps, LookUpKeeps, ClassifyKeeps, SaveKeysKeeps,
           BuildSnapshotKeeps, OpenFileKeeps, FillFileKeeps, GrowOldKeeps, StartAnewKeeps
        DEF IntakeNext

(* The invariant implies what the run checks.                                    *)
LEMMA IntakeImplies == IntakeInv => IntakeSound
<1> SUFFICES ASSUME IntakeInv PROVE IntakeSound
  OBVIOUS
<1>1. RecordedOnce
  <2> SUFFICES ASSUME NEW w \in Threads
               PROVE  /\ msg[w].at = "done" => msg[w].out \in 1 .. 1 + msg[w].slips
                      /\ msg[w].out <= 1 + msg[w].slips /\ msg[w].slips <= 1
    BY DEF RecordedOnce
  <2> DEFINE m == msg[w]
  <2>1. m \in Message /\ Recorded(m)
    BY DEF IntakeInv, IntakeTypes
  <2> HIDE DEF m
  <2>2. m.at \in Steps /\ m.out \in Nat /\ m.slips \in 0 .. 1
    BY <2>1 DEF Message
  <2>3. /\ m.at = "done" => m.out \in 1 .. 1 + m.slips
        /\ m.out <= 1 + m.slips /\ m.slips <= 1
    BY <2>1, <2>2 DEF Recorded, Steps, Routing
  <2> QED BY <2>3 DEF m
<1>2. RulesWin
  BY DEF IntakeInv, Preferred, RuledOut, RulesWin, Reached
<1>3. LearnedIsSaved
  BY DEF IntakeInv, InHand, Copying, Fresh, LearnedIsSaved, Saving
<1> QED BY <1>1, <1>2, <1>3 DEF IntakeSound

-----------------------------------------------------------------------------
(* A step of the composition is a step of each part, or leaves it alone.            *)
LEMMA ModelWork == [WorkNext]_<<focus, AllWork>> => [LlmNext]_llmVars
BY DEF WorkNext, Rest, AllWork

LEMMA MessageWork == [WorkNext]_<<focus, AllWork>> => IntakeNext \/ UNCHANGED intakeVars
BY DEF WorkNext, Rest, AllWork

(* The meter shows no more than was used and, unless an update was lost, all of it and no   *)
(* more than the cap and what is under way; between requests the settings are those of      *)
(* the next start; and a server is called with its own key (core/llm_client.py,             *)
(* server/api/llm.py), for any finite set of callers, any credentials and models.           *)
THEOREM LlmIsSound == WorkSpec => []LlmSound
<1>1. WorkInit => LlmInv
  BY LlmStarts DEF WorkInit
<1>2. LlmInv /\ [WorkNext]_<<focus, AllWork>> => LlmInv'
  BY LlmKeeps, ModelWork
<1> QED BY <1>1, <1>2, LlmImplies, PTL DEF WorkSpec

(* A message that ends well has one recorded reply, a sure rule decides before the cache   *)
(* and the model do, and what was learned is in the file that a restart reads unless two    *)
(* saves met or one failed (main.py, core/intent_router.py), for any threads and texts.     *)
THEOREM IntakeIsSound == WorkSpec => []IntakeSound
<1>1. WorkInit => IntakeInv
  BY IntakeInit DEF WorkInit
<1>2. IntakeInv /\ [WorkNext]_<<focus, AllWork>> => IntakeInv'
  BY IntakeStep, MessageWork
<1> QED BY <1>1, <1>2, IntakeImplies, PTL DEF WorkSpec
=============================================================================
