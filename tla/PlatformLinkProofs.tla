-------------------------- MODULE PlatformLinkProofs --------------------------
(***************************************************************************)
(* Theorems about the link.  The number of clients is bounded by counting: *)
(* a switch of the mode makes at most one, so that the clients made and     *)
(* the switches under way are together no more than the switches asked for  *)
(* and the client of the start-up.                                         *)
(***************************************************************************)
EXTENDS PlatformLinkProps, FiniteSetTheorems, TLAPS

SwitchPCs == {"config", "app", "apply", "clean", "make"}

Switching == {t \in Threads : pc[t] \in SwitchPCs}

\* Each switch may still make the client it asked for.
OneEach == made + Cardinality(Switching) <= switches + 1

LInv == PTypeOK /\ OneEach

LEMMA Sizes == /\ MaxSwitches \in Nat /\ MaxEdits \in Nat /\ MaxBreaks \in Nat
               /\ QueueSize \in Nat \ {0} /\ Local \in Modes
               /\ 0 \in Threads /\ Clients \subseteq Threads /\ IsFiniteSet(Threads)
  <1>1. Threads = 0 .. MaxSwitches + 1
    BY LinkConstants DEF Threads, Clients, Web
  <1>2. IsFiniteSet(0 .. MaxSwitches + 1)
    BY FS_Interval, LinkConstants
  <1> QED BY <1>1, <1>2, LinkConstants DEF Threads, Clients, Web

LEMMA SwitchingFinite ==
  /\ IsFiniteSet(Switching) /\ Cardinality(Switching) \in Nat
  BY Sizes, FS_Subset, FS_CardinalityType DEF Switching

\* A thread that takes up a switch counts from then on.
LEMMA TakesUp ==
  ASSUME NEW t \in Threads, PTypeOK, pc[t] = "idle", NEW p \in SwitchPCs,
         pc' = [pc EXCEPT ![t] = p]
  PROVE  Cardinality(Switching') = Cardinality(Switching) + 1
  <1>1. t \notin Switching
    BY DEF Switching, SwitchPCs
  <1>2. Switching' = Switching \cup {t}
    BY DEF Switching, PTypeOK
  <1> QED BY <1>1, <1>2, SwitchingFinite, FS_AddElement

\* A thread that ends its switch no longer counts.
LEMMA EndsIt ==
  ASSUME NEW t \in Threads, PTypeOK, pc[t] \in SwitchPCs,
         pc' = [pc EXCEPT ![t] = "idle"]
  PROVE  Cardinality(Switching') = Cardinality(Switching) - 1
  <1>1. t \in Switching
    BY DEF Switching
  <1>2. Switching' = Switching \ {t}
    BY DEF Switching, PTypeOK, SwitchPCs
  <1>3. Cardinality(Switching \ {t}) = Cardinality(Switching) - 1
    BY <1>1, SwitchingFinite, FS_RemoveElement
  <1> QED BY <1>2, <1>3

\* A step that neither begins nor ends a switch.
LEMMA GoesOn ==
  ASSUME PTypeOK,
         \/ UNCHANGED pc
         \/ \E t \in Threads, p \in PCs : /\ pc' = [pc EXCEPT ![t] = p]
                                          /\ pc[t] \in SwitchPCs <=> p \in SwitchPCs
  PROVE  Switching' = Switching
  BY DEF Switching, PTypeOK

\* A function changed in one place keeps its type.
LEMMA Changed ==
  ASSUME NEW D, NEW R, NEW f \in [D -> R], NEW d, NEW r \in R
  PROVE  [f EXCEPT ![d] = r] \in [D -> R]
  OBVIOUS

Phases == {"none", "born", "dial", "connecting", "up", "open", "closing",
           "waiting", "ended"}

LEMMA PcType ==
  ASSUME NEW t \in Threads, NEW p \in PCs, pc \in [Threads -> PCs]
  PROVE  [pc EXCEPT ![t] = p] \in [Threads -> PCs]
  BY Changed

LEMMA StopType ==
  ASSUME PTypeOK, NEW k,
         UNCHANGED <<running, asked>> \/ Stop(k)
  PROVE  running' \in [Clients -> BOOLEAN] /\ asked' \in [Clients -> BOOLEAN]
  <1>1. CASE UNCHANGED <<running, asked>>
    BY <1>1 DEF PTypeOK
  <1>2. CASE Stop(k)
    <2>1. Connected(k) \in BOOLEAN
      BY DEF Connected
    <2> QED BY <1>2, <2>1 DEF Stop, PTypeOK
  <1> QED BY <1>1, <1>2

LEMMA InitL == PInit => LInv
  <1> SUFFICES ASSUME PInit PROVE LInv
    OBVIOUS
  <1>1. Switching = {}
    BY DEF PInit, Switching, SwitchPCs
  <1>2. Cardinality(Switching) = 0
    BY <1>1, FS_EmptySet
  <1>3. \A k \in Clients : Len(queue[k]) <= QueueSize
    BY Sizes DEF PInit
  <1>5. made \in 0 .. 1 /\ switches = 0 /\ link = made
    BY DEF PInit
  <1>6. << >> \in Seq(Modes)
    OBVIOUS
  <1>7. queue \in [Clients -> Seq(Modes)] /\ calls \in [Clients -> Seq(Modes)]
    BY <1>6 DEF PInit
  <1>8. made \in 0 .. MaxSwitches + 1 /\ link \in {None, made}
    BY <1>5, Sizes
  <1>9. pc \in [Threads -> PCs] /\ to \in [Threads -> Modes]
    BY Sizes DEF PInit, PCs
  <1>10. ph \in [Clients -> {"none", "born", "dial", "connecting", "up", "open",
                            "closing", "waiting", "ended"}]
    BY DEF PInit
  <1>11. /\ running \in [Clients -> BOOLEAN] /\ asked \in [Clients -> BOOLEAN]
         /\ beat \in [Clients -> BOOLEAN] /\ token \in BOOLEAN
    BY DEF PInit
  <1>12. /\ mode \in Modes /\ gate \in Modes /\ view \in Modes \cup {"unknown"}
         /\ switches \in 0 .. MaxSwitches /\ edits \in 0 .. MaxEdits
         /\ breaks \in 0 .. MaxBreaks
    BY Sizes DEF PInit
  <1>4. PTypeOK
    BY <1>3, <1>7, <1>8, <1>9, <1>10, <1>11, <1>12 DEF PTypeOK
  <1> QED BY <1>2, <1>4, <1>5 DEF LInv, OneEach

-----------------------------------------------------------------------------
(* Steps.                                                                  *)

LEMMA NextL == LInv /\ [PNext]_pvars => LInv'
  <1> SUFFICES ASSUME LInv, [PNext]_pvars PROVE LInv'
    OBVIOUS
  <1> USE Sizes DEF LInv, At, Goto, Web, modes, client, threads, bounds
  <1>t. PTypeOK /\ OneEach
    OBVIOUS
  <1>c. Cardinality(Switching) \in Nat
    BY SwitchingFinite
  <1>1. ASSUME NEW t \in Threads, NEW m \in Modes, Ask(t, m) PROVE LInv'
    <2>1. Cardinality(Switching') = Cardinality(Switching) + 1
      BY <1>1, TakesUp DEF Ask, SwitchPCs
    <2>2. OneEach'
      BY <1>1, <1>c, <2>1 DEF Ask, OneEach, PTypeOK
    <2>3. PTypeOK'
      BY <1>1 DEF Ask, PTypeOK, PCs
    <2> QED BY <2>2, <2>3
  <1>2. ASSUME NEW t \in Threads, SetConfig(t) \/ SetApp(t) \/ Missing(t) PROVE LInv'
    <2>1. Switching' = Switching
      BY <1>2, GoesOn DEF SetConfig, SetApp, Missing, SwitchPCs, PCs
    <2>2. PTypeOK'
      <3>1. to[t] \in Modes
        BY DEF PTypeOK
      <3>2. CASE SetConfig(t)
        BY <3>1, <3>2, PcType DEF SetConfig, PTypeOK, PCs
      <3>3. CASE SetApp(t)
        BY <3>1, <3>3, PcType DEF SetApp, PTypeOK, PCs
      <3>4. CASE Missing(t)
        BY <3>4, PcType DEF Missing, PTypeOK, PCs
      <3> QED BY <1>2, <3>2, <3>3, <3>4
    <2>3. OneEach'
      BY <1>2, <2>1 DEF SetConfig, SetApp, Missing, OneEach
    <2> QED BY <2>2, <2>3
  <1>3. ASSUME NEW t \in Threads, Notify(t) PROVE LInv'
    <2>1. Cardinality(Switching') = Cardinality(Switching) - 1
      BY <1>3, EndsIt DEF Notify, SwitchPCs
    <2>2. OneEach'
      BY <1>3, <1>c, <2>1 DEF Notify, OneEach, PTypeOK
    <2>3. PTypeOK'
      <3>1. to[t] \in Modes /\ pc' \in [Threads -> PCs]
        BY <1>3, PcType DEF Notify, PTypeOK, PCs
      <3>2. calls' \in [Clients -> Seq(Modes)] /\ view' \in Modes \cup {"unknown"}
        <4>1. CASE UNCHANGED calls
          BY <1>3, <3>1, <4>1 DEF Notify, PTypeOK
        <4>2. CASE calls' = [calls EXCEPT ![link] = Append(@, to[t])] /\ UNCHANGED view
          <5>1. link \in Clients
            BY <1>3 DEF Notify, PTypeOK, Clients, None
          <5>2. calls[link] \in Seq(Modes)
            BY <5>1 DEF PTypeOK
          <5>3. Append(calls[link], to[t]) \in Seq(Modes)
            BY <3>1, <5>2
          <5>4. [calls EXCEPT ![link] = Append(@, to[t])] \in [Clients -> Seq(Modes)]
            BY <5>1, <5>3, Changed DEF PTypeOK
          <5> QED BY <4>2, <5>4 DEF PTypeOK
        <4> QED BY <1>3, <4>1, <4>2 DEF Notify
      <3> QED BY <1>3, <3>1, <3>2 DEF Notify, PTypeOK
    <2> QED BY <2>2, <2>3
  <1>4. ASSUME NEW t \in Threads, Clean(t) PROVE LInv'
    <2>1. Switching' = Switching
      BY <1>4, GoesOn DEF Clean, SwitchPCs, PCs
    <2>2. PTypeOK'
      <3>1. pc' \in [Threads -> PCs] /\ link' = None
        BY <1>4, PcType DEF Clean, PTypeOK, PCs
      <3>2. running' \in [Clients -> BOOLEAN] /\ asked' \in [Clients -> BOOLEAN]
        BY <1>4, StopType DEF Clean, PTypeOK
      <3> QED BY <1>4, <3>1, <3>2 DEF Clean, PTypeOK
    <2>3. OneEach'
      BY <1>4, <2>1 DEF Clean, OneEach
    <2> QED BY <2>2, <2>3
  <1>5. ASSUME NEW t \in Threads, Make(t) PROVE LInv'
    <2>1. Cardinality(Switching') = Cardinality(Switching) - 1
      BY <1>5, EndsIt DEF Make, SwitchPCs
    <2>2. Cardinality(Switching') \in Nat
      <3>1. Switching # {}
        BY <1>5 DEF Make, Switching, SwitchPCs
      <3>2. Cardinality(Switching) # 0
        BY <3>1, SwitchingFinite, FS_EmptySet
      <3> QED BY <2>1, <3>2, <1>c
    <2>3. made + 1 <= MaxSwitches + 1
      BY <1>t, <1>c, <2>1, <2>2 DEF OneEach, PTypeOK
    <2>4. PTypeOK'
      <3>1. pc' \in [Threads -> PCs]
        BY <1>5, PcType DEF Make, PTypeOK, PCs
      <3>2. made' \in 0 .. MaxSwitches + 1 /\ link' \in {None, made'}
        BY <1>5, <2>3 DEF Make, PTypeOK
      <3>3. ph' \in [Clients -> Phases]
        BY <1>5 DEF Make, PTypeOK, Phases
      <3> QED BY <1>5, <3>1, <3>2, <3>3 DEF Make, PTypeOK, Phases
    <2>5. OneEach'
      BY <1>5, <1>c, <2>1 DEF Make, OneEach, PTypeOK
    <2> QED BY <2>4, <2>5
  <1>6. CASE Edit /\ (PutCredentials \/ ClearCredentials)
    <2>1. Switching' = Switching
      BY <1>6, GoesOn DEF Edit, PutCredentials, ClearCredentials, SwitchPCs, PCs
    <2>2. PTypeOK'
      <3>1. CASE PutCredentials
        BY <1>6, <3>1 DEF Edit, PutCredentials, PTypeOK
      <3>2. CASE ClearCredentials
        <4>1. pc' \in [Threads -> PCs]
          <5>1. "reset" \in PCs /\ pc \in [Threads -> PCs]
            BY DEF PCs, PTypeOK
          <5>2. [pc EXCEPT ![0] = "reset"] \in [Threads -> PCs]
            BY <5>1, PcType
          <5> QED BY <3>2, <5>1, <5>2 DEF ClearCredentials
        <4>2. token' \in BOOLEAN /\ to' \in [Threads -> Modes]
          BY <3>2 DEF ClearCredentials, PTypeOK
        <4>3. UNCHANGED <<mode, gate, link, made, client, view, switches, breaks>>
          BY <1>6 DEF Edit
        <4>4. edits' \in 0 .. MaxEdits
          BY <1>6 DEF Edit, PTypeOK
        <4> QED BY <4>1, <4>2, <4>3, <4>4 DEF PTypeOK
      <3> QED BY <1>6, <3>1, <3>2
    <2>3. OneEach'
      BY <1>6, <2>1 DEF Edit, OneEach
    <2> QED BY <2>2, <2>3
  <1>7. CASE Reset
    <2>1. Switching' = Switching
      BY <1>7, GoesOn DEF Reset, ResetConfig, ResetApp, StopLink, DropLink,
                          SwitchPCs, PCs
    <2>2. PTypeOK'
      <3>1. CASE ResetConfig
        BY <3>1, PcType DEF ResetConfig, PTypeOK, PCs
      <3>2. CASE ResetApp
        BY <3>2, PcType DEF ResetApp, PTypeOK, PCs
      <3>3. CASE StopLink
        <4>1. pc' \in [Threads -> PCs]
          BY <3>3, PcType DEF StopLink, PTypeOK, PCs
        <4>2. running' \in [Clients -> BOOLEAN] /\ asked' \in [Clients -> BOOLEAN]
          BY <3>3, StopType DEF StopLink, PTypeOK
        <4> QED BY <3>3, <4>1, <4>2 DEF StopLink, PTypeOK
      <3>4. CASE DropLink
        BY <3>4, PcType DEF DropLink, PTypeOK, PCs
      <3> QED BY <1>7, <3>1, <3>2, <3>3, <3>4 DEF Reset
    <2>3. OneEach'
      BY <1>7, <2>1 DEF Reset, ResetConfig, ResetApp, StopLink, DropLink, OneEach
    <2> QED BY <2>2, <2>3
  <1>8. ASSUME NEW k \in Clients,
               \/ Loop(k) \/ Refuse(k) \/ Break(k) \/ BeatTest(k) \/ Beat(k)
               \/ SendQueued(k) \/ SendNow(k)
        PROVE  LInv'
    <2> USE DEF Apart, In, Phase, After
    <2>1. Switching' = Switching
      BY <1>8 DEF Switching, Loop, Begin, Dial, Connect, Greet, CloseAsked,
                  Teardown, Retry, Refuse, Break, BeatTest, Beat, SendQueued, SendNow
    <2>2. OneEach'
      BY <1>8, <2>1 DEF OneEach, Loop, Begin, Dial, Connect, Greet, CloseAsked,
                  Teardown, Retry, Refuse, Break, BeatTest, Beat, SendQueued, SendNow
    <2>3. CASE Loop(k)
      BY <2>2, <2>3 DEF PTypeOK, Loop, Begin, Dial, Connect, Greet, CloseAsked,
                        Teardown, Retry, Writable
    <2>4. CASE Refuse(k)
      BY <2>2, <2>4 DEF PTypeOK, Refuse
    <2>9. CASE BeatTest(k)
      BY <2>2, <2>9 DEF PTypeOK, BeatTest
    <2>5. CASE Break(k)
      <3>1. /\ queue' \in [Clients -> Seq(Modes)]
            /\ \A j \in Clients : Len(queue'[j]) <= QueueSize
        <4>1. CASE UNCHANGED queue
          BY <4>1 DEF PTypeOK
        <4>2. CASE queue[k] # << >> /\ queue' = [queue EXCEPT ![k] = Tail(@)]
          <5>1. queue[k] \in Seq(Modes) /\ Len(queue[k]) <= QueueSize
            BY DEF PTypeOK
          <5>2. Tail(queue[k]) \in Seq(Modes) /\ Len(Tail(queue[k])) <= QueueSize
            BY <4>2, <5>1
          <5> QED BY <4>2, <5>2 DEF PTypeOK
        <4> QED BY <2>5, <4>1, <4>2 DEF Break
      <3>2. breaks' \in 0 .. MaxBreaks /\ ph' = [ph EXCEPT ![k] = "closing"]
        BY <2>5 DEF PTypeOK, Break
      <3> QED BY <2>2, <2>5, <3>1, <3>2 DEF PTypeOK, Break
    <2>6. CASE Beat(k)
      BY <2>2, <2>6 DEF PTypeOK, Beat, Enqueue
    <2>7. CASE SendQueued(k)
      BY <2>2, <2>7 DEF PTypeOK, SendQueued
    <2>8. CASE SendNow(k)
      BY <2>2, <2>8 DEF PTypeOK, SendNow, Writable
    <2> QED BY <1>8, <2>3, <2>4, <2>5, <2>6, <2>7, <2>8, <2>9
  <1>9. CASE UNCHANGED pvars
    <2>1. Switching' = Switching /\ PTypeOK'
      BY <1>9 DEF pvars, PTypeOK, Switching
    <2> QED BY <1>9, <2>1 DEF pvars, OneEach
  <1>10. CASE PNext
    <2>1. ASSUME NEW m \in Modes, PutMode(m) PROVE LInv'
      BY <1>1, <2>1 DEF PutMode
    <2>2. ASSUME NEW m \in Modes, NEW k \in Clients, ConfigUpdate(k, m) PROVE LInv'
      BY <1>1, <2>2 DEF ConfigUpdate
    <2>3. CASE PutCredentials \/ ClearCredentials
      BY <1>6, <2>3 DEF PutCredentials, ClearCredentials
    <2>4. ASSUME NEW t \in Threads, Switch(t) PROVE LInv'
      BY <1>2, <1>3, <1>4, <1>5, <2>4 DEF Switch
    <2> QED BY <1>7, <1>8, <1>10, <2>1, <2>2, <2>3, <2>4 DEF PNext
  <1> QED BY <1>9, <1>10

\* The link keeps its types; what is hard is that there is always a client left
\* for the switch that needs one (_start_ws_connection makes one at most).
THEOREM LinkTyping == PSpec => []PTypeOK
  BY InitL, NextL, PTL DEF PSpec, LInv
=============================================================================
