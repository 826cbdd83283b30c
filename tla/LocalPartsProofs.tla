-------------------------- MODULE LocalPartsProofs --------------------------
(***************************************************************************)
(* The parts of one machine, for any number of calls, savers, pids,          *)
(* dictionaries and grants: what the run checks of probing, of sub-agents,   *)
(* of tool calls under guard, and of what one process leaves to the next.    *)
(*                                                                           *)
(* ProbeSound: what the ladder takes is the first rung that has it.          *)
(* SubAgentsSound: what a process and a row may be at each step of their     *)
(* call.                                                                     *)
(*                                                                           *)
(* PipelineSound: what the function of a call may be doing at each stage,    *)
(* and so what a verdict given before it ended can be. EnvKept: what a save  *)
(* that is alone has already brought about. DaemonSound: while no two        *)
(* commands have been between reading and writing, what a command has read   *)
(* is what the file still has. ConfigKept: what the dictionary that is about *)
(* to be written says, and what the rows written so far are a part of.       *)
(*                                                                           *)
(* RecordsSound: what a fork has copied so far and has still to copy; and of *)
(* what a chat is told, which places of the conversation it is.              *)
(***************************************************************************)
EXTENDS MCLocalParts, FiniteSetTheorems, SequenceTheorems, WellFoundedInduction, TLAPS

(* Probing a tool (core/tool_probe.py, core/tool_installer.py).                 *)

(* A set of numbers that is not empty has a least one.                      *)
LEMMA LeastNumber ==
  ASSUME NEW T, T \subseteq Nat, T # {}
  PROVE  \E x \in T : \A y \in T : x <= y
<1>1. IsWellFoundedOn(OpToRel(<, Nat), Nat)
  BY NatLessThanWellFounded
<1>2. PICK x \in T : \A y \in T : ~(<<y, x>> \in OpToRel(<, Nat))
  BY <1>1, WFMin
<1>3. \A y \in T : ~(y < x)
  BY <1>2 DEF OpToRel
<1> QED BY <1>3

(* The ladder finds what one of its rungs has.                              *)
LEMMA LadderFinds ==
  ASSUME NEW w \in Worlds, NEW quick \in BOOLEAN
  PROVE  /\ Ladder(w, quick).what = "good" <=> \E i \in 1 .. 5 : "good" \in Rungs(w, quick)[i]
         /\ Ladder(w, quick).what = "good"
              => /\ Ladder(w, quick).rung \in 1 .. 5
                 /\ "good" \in Rungs(w, quick)[Ladder(w, quick).rung]
                 /\ \A i \in 1 .. Ladder(w, quick).rung - 1 : "good" \notin Rungs(w, quick)[i]
<1> DEFINE rungs == Rungs(w, quick)
           there  == UNION Holds(rungs)
           good  == {i \in DOMAIN rungs : "good" \in rungs[i]}
           least == CHOOSE i \in good : \A j \in good : i <= j
           what  == CASE good # {} -> "good"
                      [] good = {} /\ "alias" \in there -> "alias"
                      [] good = {} /\ "alias" \notin there /\ "noexec" \in there -> "noexec"
                      [] OTHER -> "none"
<1>1. Ladder(w, quick) = [what |-> what, rung |-> IF good = {} THEN 0 ELSE least]
  BY DEF Ladder
<1>2. DOMAIN rungs = 1 .. 5
  BY DEF Rungs
<1>3. good \subseteq 1 .. 5 /\ \A i \in 1 .. 5 : i \in good <=> "good" \in rungs[i]
  BY <1>2
<1>4. good # {} => least \in good /\ \A j \in good : least <= j
  <2> HIDE DEF good
  <2>1. good # {} => \E i \in good : \A j \in good : i <= j
    <3>1. good \subseteq Nat
      BY <1>3
    <3> QED BY <3>1, LeastNumber
  <2> QED BY <2>1
<1>5. what = "good" <=> good # {}
  <2> HIDE DEF good, there
  <2> QED OBVIOUS
<1> HIDE DEF rungs, good, there, what, least
<1>6. Ladder(w, quick).what = what /\ Ladder(w, quick).rung = IF good = {} THEN 0 ELSE least
  BY <1>1
<1>7. rungs = Rungs(w, quick)
  BY DEF rungs
<1>8. Ladder(w, quick).what = "good" <=> good # {}
  BY <1>5, <1>6
<1>9. CASE good = {}
  BY <1>3, <1>6, <1>7, <1>8, <1>9
<1>10. CASE good # {}
  <2>1. PICK n \in 1 .. 5 : n = Ladder(w, quick).rung /\ n \in good /\ \A j \in good : n <= j
    BY <1>3, <1>4, <1>6, <1>10
  <2>2. \A i \in 1 .. n - 1 : "good" \notin rungs[i]
    BY <1>3, <2>1
  <2> QED BY <1>3, <1>7, <1>8, <1>10, <2>1, <2>2
<1> QED BY <1>9, <1>10
(* What the five rungs of the ladder have.                                  *)
LEMMA RungsHold ==
  ASSUME NEW w \in Worlds, NEW quick \in BOOLEAN
  PROVE  /\ "good" \in Rungs(w, quick)[1] <=> w.node /\ w.nvm = "good"
         /\ "good" \in Rungs(w, quick)[2] <=> ~quick /\ "good" \in Holds(w.extra)
         /\ "good" \in Rungs(w, quick)[3] <=> w.which = "good"
         /\ "good" \in Rungs(w, quick)[4]
              <=> "good" \in Holds(w.path) \/ (~quick /\ w.slow = "good")
         /\ "good" \in Rungs(w, quick)[5] <=> ~quick /\ w.whereis = "good"
BY DEF Rungs, Scan, Slow, Whereis

LEMMA LadderFindsGood ==
  ASSUME NEW w \in Worlds
  PROVE  /\ QuickAgrees(w) /\ FindsGood(w)
<1>1. \A quick \in BOOLEAN :
        Ladder(w, quick).what = "good"
          <=> \/ w.node /\ w.nvm = "good"
              \/ w.which = "good" \/ "good" \in Holds(w.path)
              \/ ~quick /\ ("good" \in Holds(w.extra) \/ w.slow = "good" \/ w.whereis = "good")
  <2> SUFFICES ASSUME NEW quick \in BOOLEAN
               PROVE  Ladder(w, quick).what = "good"
                        <=> \/ w.node /\ w.nvm = "good"
                            \/ w.which = "good" \/ "good" \in Holds(w.path)
                            \/ ~quick /\ ("good" \in Holds(w.extra) \/ w.slow = "good"
                                         \/ w.whereis = "good")
    OBVIOUS
  <2>1. (\E i \in 1 .. 5 : "good" \in Rungs(w, quick)[i])
          <=> \/ "good" \in Rungs(w, quick)[1] \/ "good" \in Rungs(w, quick)[2]
              \/ "good" \in Rungs(w, quick)[3] \/ "good" \in Rungs(w, quick)[4]
              \/ "good" \in Rungs(w, quick)[5]
    OBVIOUS
  <2>2. Ladder(w, quick).what = "good" <=> \E i \in 1 .. 5 : "good" \in Rungs(w, quick)[i]
    BY LadderFinds
  <2> QED BY <2>1, <2>2, RungsHold
<1>2. QuickAgrees(w)
  BY <1>1 DEF QuickAgrees, QuickFinds, ProbeInstalled, Resolve
<1>3. ASSUME "good" \in Holds(w.extra), ~(w.node /\ w.nvm = "good")
      PROVE  Ladder(w, FALSE).rung = 2
  <2>1. Ladder(w, FALSE).what = "good"
    BY <1>1, <1>3
  <2>2. PICK n \in 1 .. 5 :
          /\ n = Ladder(w, FALSE).rung /\ "good" \in Rungs(w, FALSE)[n]
          /\ \A i \in 1 .. n - 1 : "good" \notin Rungs(w, FALSE)[i]
    BY <2>1, LadderFinds
  <2>3. "good" \notin Rungs(w, FALSE)[1] /\ "good" \in Rungs(w, FALSE)[2]
    BY <1>3, RungsHold
  <2>4. n # 1
    BY <2>2, <2>3
  <2>5. ~(n > 2)
    <3>1. n > 2 => 2 \in 1 .. n - 1
      OBVIOUS
    <3> QED BY <2>2, <2>3, <3>1
  <2>6. n = 2
    BY <2>4, <2>5
  <2> QED BY <2>2, <2>6
<1>4. ProbeInstalled(w) => ProbeFound(w)
  BY DEF ProbeInstalled, ProbeFound, Resolve
<1>5. Ladder(w, FALSE).what = "good"
        <=> "good" \in Holds(w.extra) \cup Holds(w.path) \cup {w.which, w.slow, w.whereis}
            \/ (w.node /\ w.nvm = "good")
  BY <1>1
<1> QED BY <1>2, <1>3, <1>4, <1>5 DEF FindsGood

LEMMA ViewsAreHonest == ASSUME NEW r \in Records, NEW p \in Probes PROVE ViewHonest(r, p)
<1>1. /\ p.installed => p.found
      /\ ~p.found => p.problem = "not_found"
      /\ p.found \in BOOLEAN /\ p.installed \in BOOLEAN /\ p.problem \in Problems
  BY DEF Probes
<1> QED BY <1>1 DEF ViewHonest, ViewStatus, Failures, Records, Problems

(* The segments of two versions differ, for the first time, at a place; or nowhere. *)
FirstDiffers(a, b, n) == /\ Segment(a, n) # Segment(b, n)
                         /\ \A j \in 1 .. n - 1 : Segment(a, j) = Segment(b, j)
SameSegments(a, b) == \A n \in Nat \ {0} : Segment(a, n) = Segment(b, n)

LEMMA SegmentsAreNumbers ==
  ASSUME NEW v \in Versions
  PROVE  /\ Len(v.core) \in Nat /\ DOMAIN v.core = 1 .. Len(v.core)
         /\ \A n \in Nat \ {0} : Segment(v, n) \in Nat
         /\ v.pre \in BOOLEAN
<1>1. v.core \in UpTo(0 .. 1, MaxSegments) /\ v.pre \in BOOLEAN
  BY DEF Versions
<1>2. PICK k \in 0 .. MaxSegments : v.core \in [1 .. k -> 0 .. 1]
  BY <1>1 DEF UpTo
<1>3. k \in Nat
  BY ProbeConstants
<1>4. v.core \in Seq(0 .. 1) /\ Len(v.core) = k
  BY <1>2, <1>3
<1> QED BY <1>1, <1>2, <1>3, <1>4 DEF Segment

LEMMA ComparisonDecides ==
  ASSUME NEW a \in Versions, NEW b \in Versions
  PROVE  \/ /\ SameSegments(a, b)
            /\ CompareVersions(a, b) = IF a.pre = b.pre THEN 0 ELSE IF a.pre THEN -1 ELSE 1
         \/ \E n \in Nat \ {0} :
              /\ FirstDiffers(a, b, n)
              /\ CompareVersions(a, b) = IF Segment(a, n) > Segment(b, n) THEN 1 ELSE -1
<1> DEFINE differ == {i \in DOMAIN LongerOf(a, b).core : Segment(a, i) # Segment(b, i)}
           first  == CHOOSE i \in differ : \A j \in differ : i <= j
<1>1. CompareVersions(a, b) =
        IF differ # {} THEN IF Segment(a, first) > Segment(b, first) THEN 1 ELSE -1
        ELSE IF a.pre = b.pre THEN 0 ELSE IF a.pre THEN -1 ELSE 1
  BY DEF CompareVersions
<1>2. \A n : n \in differ <=> n \in Nat \ {0} /\ Segment(a, n) # Segment(b, n)
  <2>1. PICK k, m \in Nat : /\ k = Len(a.core) /\ DOMAIN a.core = 1 .. k
                            /\ m = Len(b.core) /\ DOMAIN b.core = 1 .. m
    BY SegmentsAreNumbers
  <2>2. \A n \in Nat \ {0} : n > k /\ n > m => Segment(a, n) = Segment(b, n)
    BY <2>1 DEF Segment
  <2>3. DOMAIN LongerOf(a, b).core = IF k < m THEN 1 .. m ELSE 1 .. k
    BY <2>1 DEF LongerOf
  <2> QED BY <2>1, <2>2, <2>3
<1> HIDE DEF differ
<1>3. CASE differ = {}
  BY <1>1, <1>2, <1>3 DEF SameSegments
<1>4. CASE differ # {}
  <2>1. differ \subseteq Nat
    BY <1>2
  <2>2. \E i \in differ : \A j \in differ : i <= j
    BY <1>4, <2>1, LeastNumber
  <2>3. PICK n : n = first
    OBVIOUS
  <2>4. n \in differ /\ \A j \in differ : n <= j
    BY <2>2, <2>3
  <2>5. n \in Nat \ {0} /\ FirstDiffers(a, b, n)
    BY <1>2, <2>4 DEF FirstDiffers
  <2>6. CompareVersions(a, b) = IF Segment(a, n) > Segment(b, n) THEN 1 ELSE -1
    BY <1>1, <1>4, <2>3
  <2> QED BY <2>5, <2>6
<1> QED BY <1>3, <1>4
(* Versions, however long, are totally preordered.                          *)
LEMMA VersionsAreOrdered ==
  ASSUME NEW a \in Versions, NEW b \in Versions, NEW c \in Versions
  PROVE  VersionsOrdered(a, b, c)
<1>1. \A n \in Nat \ {0} : /\ Segment(a, n) \in Nat /\ Segment(b, n) \in Nat
                            /\ Segment(c, n) \in Nat
  BY SegmentsAreNumbers
<1>2. a.pre \in BOOLEAN /\ b.pre \in BOOLEAN /\ c.pre \in BOOLEAN
  BY SegmentsAreNumbers
<1>3. PICK ab, ba, bc, ac : /\ ab = CompareVersions(a, b) /\ ba = CompareVersions(b, a)
                            /\ bc = CompareVersions(b, c) /\ ac = CompareVersions(a, c)
  OBVIOUS
<1>4. \/ SameSegments(a, b) /\ ab = IF a.pre = b.pre THEN 0 ELSE IF a.pre THEN -1 ELSE 1
      \/ \E n \in Nat \ {0} : /\ FirstDiffers(a, b, n)
                                /\ ab = IF Segment(a, n) > Segment(b, n) THEN 1 ELSE -1
  BY <1>3, ComparisonDecides
<1>5. \/ SameSegments(b, a) /\ ba = IF b.pre = a.pre THEN 0 ELSE IF b.pre THEN -1 ELSE 1
      \/ \E n \in Nat \ {0} : /\ FirstDiffers(b, a, n)
                                /\ ba = IF Segment(b, n) > Segment(a, n) THEN 1 ELSE -1
  BY <1>3, ComparisonDecides
<1>6. \/ SameSegments(b, c) /\ bc = IF b.pre = c.pre THEN 0 ELSE IF b.pre THEN -1 ELSE 1
      \/ \E n \in Nat \ {0} : /\ FirstDiffers(b, c, n)
                                /\ bc = IF Segment(b, n) > Segment(c, n) THEN 1 ELSE -1
  BY <1>3, ComparisonDecides
<1>7. \/ SameSegments(a, c) /\ ac = IF a.pre = c.pre THEN 0 ELSE IF a.pre THEN -1 ELSE 1
      \/ \E n \in Nat \ {0} : /\ FirstDiffers(a, c, n)
                                /\ ac = IF Segment(a, n) > Segment(c, n) THEN 1 ELSE -1
  BY <1>3, ComparisonDecides
<1>8. \A m, n \in Nat \ {0} : m < n => m \in 1 .. n - 1
  OBVIOUS
<1>9. ab = -ba
  <2>1. ASSUME NEW m \in Nat \ {0}, FirstDiffers(a, b, m), NEW n \in Nat \ {0}, FirstDiffers(b, a, n)
        PROVE  m = n
    BY <2>1, <1>8 DEF FirstDiffers
  <2>2. SameSegments(a, b) <=> SameSegments(b, a)
    BY DEF SameSegments
  <2>5. \A n \in Nat \ {0} : SameSegments(a, b) => ~FirstDiffers(b, a, n)
    BY DEF SameSegments, FirstDiffers
  <2>3. CASE SameSegments(a, b)
    BY <1>2, <1>4, <1>5, <2>2, <2>3, <2>5 DEF SameSegments, FirstDiffers
  <2>4. CASE ~SameSegments(a, b)
    <3>1. PICK m \in Nat \ {0} : /\ FirstDiffers(a, b, m)
                                 /\ ab = IF Segment(a, m) > Segment(b, m) THEN 1 ELSE -1
      BY <1>4, <2>4
    <3>2. PICK n \in Nat \ {0} : /\ FirstDiffers(b, a, n)
                                 /\ ba = IF Segment(b, n) > Segment(a, n) THEN 1 ELSE -1
      BY <1>5, <2>2, <2>4
    <3>3. m = n
      BY <2>1, <3>1, <3>2
    <3> QED BY <1>1, <3>1, <3>2, <3>3 DEF FirstDiffers
  <2> QED BY <2>3, <2>4
<1>10. ab >= 0 /\ bc >= 0 => ac >= 0
  <2> SUFFICES ASSUME ab >= 0, bc >= 0 PROVE ac >= 0
    OBVIOUS
  <2>1. \/ SameSegments(a, b) /\ (a.pre => b.pre)
        \/ \E n \in Nat \ {0} : FirstDiffers(a, b, n) /\ Segment(a, n) > Segment(b, n)
    BY <1>2, <1>4
  <2>2. \/ SameSegments(b, c) /\ (b.pre => c.pre)
        \/ \E n \in Nat \ {0} : FirstDiffers(b, c, n) /\ Segment(b, n) > Segment(c, n)
    BY <1>2, <1>6
  <2>3. ASSUME NEW n \in Nat \ {0}, FirstDiffers(a, c, n), ~(Segment(a, n) > Segment(c, n))
        PROVE  FALSE
    <3>1. Segment(a, n) < Segment(c, n) /\ \A j \in 1 .. n - 1 : Segment(a, j) = Segment(c, j)
      BY <1>1, <2>3 DEF FirstDiffers
    <3>2. ASSUME SameSegments(a, b) PROVE FALSE
      BY <1>1, <1>8, <2>2, <3>1, <3>2 DEF SameSegments, FirstDiffers
    <3>3. ASSUME NEW m \in Nat \ {0}, FirstDiffers(a, b, m), Segment(a, m) > Segment(b, m)
          PROVE  FALSE
      <4>1. CASE SameSegments(b, c)
        BY <1>1, <1>8, <3>1, <3>3, <4>1 DEF SameSegments, FirstDiffers
      <4>2. ASSUME NEW k \in Nat \ {0}, FirstDiffers(b, c, k), Segment(b, k) > Segment(c, k)
            PROVE  FALSE
        <5>1. m < k \/ k < m \/ m = k
          OBVIOUS
        <5>2. CASE m < k
          BY <1>1, <1>8, <3>1, <3>3, <4>2, <5>2 DEF FirstDiffers
        <5>3. CASE k < m
          BY <1>1, <1>8, <3>1, <3>3, <4>2, <5>3 DEF FirstDiffers
        <5>4. CASE m = k
          BY <1>1, <1>8, <3>1, <3>3, <4>2, <5>4 DEF FirstDiffers
        <5> QED BY <5>1, <5>2, <5>3, <5>4
      <4> QED BY <2>2, <4>1, <4>2
    <3> QED BY <2>1, <3>2, <3>3
  <2>4. ASSUME SameSegments(a, c), a.pre, ~c.pre PROVE FALSE
    <3>1. ASSUME NEW n \in Nat \ {0}, FirstDiffers(a, b, n), Segment(a, n) > Segment(b, n)
          PROVE  FALSE
      <4>1. \A k \in Nat \ {0} : Segment(a, k) = Segment(c, k)
        BY <2>4 DEF SameSegments
      <4>2. ASSUME NEW k \in Nat \ {0}, FirstDiffers(b, c, k), Segment(b, k) > Segment(c, k)
            PROVE  FALSE
        BY <1>1, <1>8, <3>1, <4>1, <4>2 DEF FirstDiffers
      <4> QED BY <2>2, <3>1, <4>1, <4>2 DEF SameSegments, FirstDiffers
    <3>2. CASE SameSegments(a, b) /\ (a.pre => b.pre)
      BY <1>1, <2>2, <2>4, <3>2 DEF SameSegments, FirstDiffers
    <3> QED BY <2>1, <3>1, <3>2
  <2> QED BY <1>2, <1>7, <2>3, <2>4
<1>11. ab = 0 /\ bc = 0 => ac = 0
  BY <1>1, <1>2, <1>4, <1>6, <1>7, <1>8 DEF SameSegments, FirstDiffers
<1> QED BY <1>3, <1>9, <1>10, <1>11 DEF VersionsOrdered
(* What is looked at is an input, and a check has kept to what it was asked.     *)
Sampled == \/ sample = NoSample
           \/ \E w \in Worlds : sample = <<"world", w>>
           \/ \E a, b, c \in Versions : sample = <<"versions", <<a, b, c>> >>
           \/ \E r \in Records, p \in Probes : sample = <<"view", <<r, p>> >>

ProbeInv == /\ Sampled
            /\ asked \in [timeout : Nat, retries : Nat, grace : BOOLEAN]
            /\ attempt \in Nat /\ attempt <= asked.retries + 1 /\ (asked = NotAsked => attempt = 0)
            /\ elapsed \in Int /\ elapsed <= Budget

LEMMA ProbeStarts == ProbeIdle => ProbeInv
BY ProbeConstants DEF ProbeIdle, ProbeInv, Sampled, NotAsked

LEMMA ProbeStep == ProbeInv /\ [ProbeNext]_probeVars => ProbeInv'
<1> SUFFICES ASSUME ProbeInv, [ProbeNext]_probeVars PROVE ProbeInv'
  OBVIOUS
<1>1. /\ Budget \in Nat /\ ListTimeout \in Nat /\ MaxTimeout \in Nat /\ MaxRetries \in Nat
  BY ProbeConstants
<1>2. ASSUME MayTry, Asking
      PROVE  /\ ThisTimeout \in Int /\ elapsed + ThisTimeout <= Budget /\ attempt <= asked.retries
             /\ asked # NotAsked
  <2>1. PICK t, r \in Nat, e \in Int : /\ t = asked.timeout /\ r = asked.retries /\ e = elapsed
    BY DEF ProbeInv
  <2>2. attempt <= r /\ asked # NotAsked
    BY <1>2, <2>1 DEF MayTry, Asking
  <2>3. \A a \in Int : Least(a, Budget - e) \in Int /\ e + Least(a, Budget - e) <= Budget
    BY <1>1 DEF Least
  <2> QED BY <2>1, <2>2, <2>3 DEF ThisTimeout, Remaining
<1>3. CASE TakeSample
  BY <1>3 DEF TakeSample, ProbeInv, Sampled
<1>4. CASE AskHealth
  <2>1. PICK own, given \in 0 .. MaxTimeout, r \in 0 .. MaxRetries, s \in -1 .. MaxRetries,
             grace \in BOOLEAN :
          asked' = [timeout |-> EffectiveTimeout(own, given),
                    retries |-> EffectiveRetries(r, s), grace |-> grace]
    BY <1>4 DEF AskHealth
  <2>2. EffectiveTimeout(own, given) \in Nat /\ EffectiveRetries(r, s) \in Nat
    BY <1>1 DEF EffectiveTimeout, EffectiveRetries
  <2>3. /\ asked' \in [timeout : Nat, retries : Nat, grace : BOOLEAN]
        /\ 0 <= asked'.retries + 1
    BY <2>1, <2>2
  <2>4. attempt = 0 /\ UNCHANGED <<sample, attempt, elapsed>>
    BY <1>4 DEF AskHealth, ProbeInv
  <2> QED BY <2>3, <2>4 DEF ProbeInv, Sampled
<1>5. CASE TimesOut
  <2>1. /\ elapsed' = elapsed + ThisTimeout /\ attempt' = attempt + 1 /\ UNCHANGED <<sample, asked>>
        /\ MayTry /\ Asking
    BY <1>5 DEF TimesOut
  <2> QED BY <1>2, <2>1 DEF ProbeInv, Sampled
<1>6. CASE ExitsBadly \/ Answers
  <2>1. MayTry /\ Asking
    BY <1>6 DEF ExitsBadly, Answers
  <2>2. PICK most \in Int : most = ThisTimeout
    BY <1>2, <2>1
  <2>3. PICK d \in 0 .. most - 1 :
          /\ elapsed' = elapsed + d /\ attempt' \in {attempt, attempt + 1}
          /\ UNCHANGED <<sample, asked>>
    BY <1>6, <2>2 DEF ExitsBadly, Answers
  <2>4. elapsed + most <= Budget /\ attempt <= asked.retries /\ asked # NotAsked
    BY <1>2, <2>1, <2>2
  <2>5. elapsed' \in Int /\ elapsed' <= Budget
    BY <1>1, <2>3, <2>4 DEF ProbeInv
  <2> QED BY <2>3, <2>4, <2>5 DEF ProbeInv, Sampled
<1>7. CASE GivesUp \/ UNCHANGED probeVars
  BY <1>7 DEF GivesUp, probeVars, ProbeInv, Sampled
<1> QED BY <1>3, <1>4, <1>5, <1>6, <1>7 DEF ProbeNext

LEMMA ProbeShows == ProbeInv => ProbeSound
<1> SUFFICES ASSUME ProbeInv PROVE ProbesAgree /\ WithinBudget
  BY DEF ProbeSound
<1>1. WithinBudget
  BY DEF ProbeInv, WithinBudget
<1>2. ASSUME sample = NoSample PROVE ProbesAgree
  BY <1>2 DEF ProbesAgree, NoSample
<1>3. ASSUME NEW w \in Worlds, sample = <<"world", w>> PROVE ProbesAgree
  BY <1>3, LadderFindsGood DEF ProbesAgree
<1>4. ASSUME NEW a \in Versions, NEW b \in Versions, NEW c \in Versions,
             sample = <<"versions", <<a, b, c>> >>
      PROVE  ProbesAgree
  BY <1>4, VersionsAreOrdered DEF ProbesAgree
<1>5. ASSUME NEW r \in Records, NEW p \in Probes, sample = <<"view", <<r, p>> >>
      PROVE  ProbesAgree
  BY <1>5, ViewsAreHonest DEF ProbesAgree
<1> QED BY <1>1, <1>2, <1>3, <1>4, <1>5 DEF ProbeInv, Sampled

-----------------------------------------------------------------------------
(* Sub-agents (core/subagent.py, core/task_executor.py, commands/builtin.py).        *)

Providers == Clis \cup {"in-process"}
Kinds     == {"none", "code", "command", "stream"}
Ahead    == {"idle", "lookup", "ask", "spawn"}
Under     == {"wait", "read", "reap"}
Behind    == {"result", "done"}
AgentCall == [kind : Kinds, at : Ahead \cup Under \cup Behind \cup {"late"},
              prov : Providers \cup {"none"}, won : BOOLEAN]
RowStates == {"none", "pending", "running", "completed", "failed", "cancelled"}

(* What a process and a row may be at each step of their call.               *)
CallFits(c) ==
  /\ call[c].at \in Ahead => proc[c] = "none" /\ ~call[c].won
  /\ call[c].at \in Under => proc[c] \in {"live", "zero", "bad"} /\ ~call[c].won
  /\ call[c].at = "late" => proc[c] = "killed" /\ ~call[c].won
  /\ call[c].at \in Behind => /\ call[c].won => proc[c] = "zero"
                              /\ proc[c] = "live" => c \in left
  /\ call[c].kind \in {"none", "code"} \/ call[c].at = "idle" => row[c] = "none"
  /\ row[c] = "completed" => call[c].at = "done" /\ proc[c] = "zero"
  /\ row[c] = "running" /\ call[c].at = "done" => c \in left

AgentsInv ==
  /\ "in-process" \in regs /\ regs \subseteq Providers /\ dflt \in regs
  /\ call \in [Calls -> AgentCall]
  /\ proc \in [Calls -> {"none", "live", "zero", "bad", "killed"}] /\ row \in [Calls -> RowStates]
  /\ \A c \in Calls : CallFits(c)
  /\ output \in Outputs

(* No output is an output.                                                    *)
LEMMA NothingRead == << >> \in Outputs
<1>1. << >> \in [1 .. 0 -> Lines] /\ 0 \in 0 .. MaxLines
  BY SubAgentConstants
<1> QED BY <1>1 DEF Outputs

LEMMA AgentsStart == AgentsIdle => AgentsInv
<1> SUFFICES ASSUME AgentsIdle PROVE AgentsInv
  OBVIOUS
<1>2. \A c \in Calls : call[c] = NoCall /\ proc[c] = "none" /\ row[c] = "none"
  BY DEF AgentsIdle
<1>3. NoCall \in AgentCall /\ NoCall.at = "idle" /\ NoCall.won = FALSE
  BY DEF NoCall, AgentCall, Kinds, Ahead
<1>4. \A c \in Calls : CallFits(c)
  BY <1>2, <1>3 DEF CallFits, Ahead, Under, Behind
<1> HIDE DEF NoCall
<1> QED BY NothingRead, <1>3, <1>4 DEF AgentsIdle, AgentsInv, Providers, RowStates
(* One call moves, with its process and row.                                *)
LEMMA OneCall ==
  ASSUME AgentsInv, NEW c \in Calls,
         UNCHANGED <<regs, dflt>>, left \subseteq left', left' \subseteq left \cup {c},
         \A d \in Calls \ {c} : /\ call'[d] = call[d] /\ proc'[d] = proc[d] /\ row'[d] = row[d],
         call' \in [Calls -> AgentCall],
         proc' \in [Calls -> {"none", "live", "zero", "bad", "killed"}],
         row' \in [Calls -> RowStates], output' \in Outputs, CallFits(c)'
  PROVE  AgentsInv'
<1>1. ASSUME NEW d \in Calls, d # c PROVE CallFits(d)'
  <2>1. CallFits(d) /\ call'[d] = call[d] /\ proc'[d] = proc[d] /\ row'[d] = row[d]
    BY <1>1 DEF AgentsInv
  <2>2. d \in left' <=> d \in left
    BY <1>1
  <2> QED BY <2>1, <2>2 DEF CallFits
<1>2. \A d \in Calls : CallFits(d)'
  BY <1>1
<1> QED BY <1>2 DEF AgentsInv

LEMMA Moves ==
  ASSUME AgentsInv, NEW c \in Calls, NEW place, To(c, place),
         place \in Ahead \cup Under \cup Behind \cup {"late"}
  PROVE  /\ call' \in [Calls -> AgentCall] /\ call'[c].at = place
         /\ call'[c].kind = call[c].kind /\ call'[c].won = call[c].won
         /\ \A d \in Calls \ {c} : call'[d] = call[d]
<1>1. PICK k \in AgentCall : k = call[c]
  BY DEF AgentsInv
<1>a. /\ [k EXCEPT !.at = place] \in AgentCall /\ [k EXCEPT !.at = place].at = place
      /\ [k EXCEPT !.at = place].kind = k.kind /\ [k EXCEPT !.at = place].won = k.won
  BY DEF AgentCall
<1>2. PICK n : n = [k EXCEPT !.at = place] /\ n \in AgentCall /\ n.at = place
               /\ n.kind = k.kind /\ n.won = k.won
  BY <1>a
<1>3. call' = [call EXCEPT ![c] = n]
  BY <1>1, <1>2 DEF To
<1> QED BY <1>1, <1>2, <1>3 DEF AgentsInv

LEMMA Results ==
  ASSUME AgentsInv, NEW c \in Calls, NEW b \in BOOLEAN, Won(c, b)
  PROVE  /\ call' \in [Calls -> AgentCall] /\ call'[c].at = "result"
         /\ call'[c].kind = call[c].kind /\ call'[c].won = b
         /\ \A d \in Calls \ {c} : call'[d] = call[d]
<1>1. PICK k \in AgentCall : k = call[c]
  BY DEF AgentsInv
<1> DEFINE ended == [k EXCEPT !.at = "result", !.won = b]
<1>a. /\ ended \in AgentCall /\ ended.at = "result" /\ ended.kind = k.kind /\ ended.won = b
  BY DEF AgentCall, Behind
<1>2. PICK n : n = ended /\ n \in AgentCall /\ n.at = "result" /\ n.kind = k.kind /\ n.won = b
  BY <1>a
<1>3. call' = [call EXCEPT ![c] = n]
  BY <1>1, <1>2 DEF Won
<1> QED BY <1>1, <1>2, <1>3 DEF AgentsInv

LEMMA Begins ==
  ASSUME AgentsInv, NEW c \in Calls, NEW kind \in Kinds, NEW place \in Ahead,
         NEW prov \in Providers, Begin(c, kind, place, prov)
  PROVE  /\ call' \in [Calls -> AgentCall] /\ call'[c].at = place
         /\ call'[c].kind = kind /\ call'[c].won = FALSE
         /\ \A d \in Calls \ {c} : call'[d] = call[d]
<1>1. PICK n : n = [kind |-> kind, at |-> place, prov |-> prov, won |-> FALSE]
  OBVIOUS
<1>2. n \in AgentCall /\ n.at = place /\ n.kind = kind /\ n.won = FALSE
  BY <1>1 DEF AgentCall
<1>3. call' = [call EXCEPT ![c] = n]
  BY <1>1 DEF Begin
<1> QED BY <1>2, <1>3 DEF AgentsInv

LEMMA RegistryKeeps ==
  ASSUME AgentsInv, Refresh \/ \E n \in Clis : Register(n) \/ Unregister(n) PROVE AgentsInv'
<1> DEFINE Found == "in-process" \in regs' /\ regs' \subseteq Providers /\ dflt' \in regs'
<1>1. UNCHANGED <<call, proc, row, left, output>>
  BY DEF Refresh, Register, Unregister, KeepCalls
<1>2. ASSUME Refresh PROVE Found
  BY <1>2 DEF Refresh, AgentsInv, Providers, Clis, CanBuild, NewDefault
<1>3. ASSUME NEW n \in Clis, Register(n) PROVE Found
  BY <1>3 DEF Register, AgentsInv, Providers, Clis
<1>4. ASSUME NEW n \in Clis, Unregister(n) PROVE Found
  BY <1>4 DEF Unregister, AgentsInv, Providers, Clis, NewDefault
<1>5. Found
  BY <1>2, <1>3, <1>4
<1> QED BY <1>1, <1>5 DEF AgentsInv, CallFits

(* What a step leaves alone is as it was.                                      *)
LEMMA CallStepKeeps == ASSUME AgentsInv, NEW c \in Calls, CallStep(c) PROVE AgentsInv'
<1> DEFINE P == {"none", "live", "zero", "bad", "killed"}
<1>0. CallFits(c) /\ call[c] \in AgentCall /\ proc[c] \in P /\ row[c] \in RowStates
      /\ call \in [Calls -> AgentCall] /\ proc \in [Calls -> P] /\ row \in [Calls -> RowStates]
      /\ output \in Outputs /\ dflt \in Providers
  BY DEF AgentsInv
<1>a. call[c].at \in Ahead \cup Under \cup Behind \cup {"late"} /\ call[c].won \in BOOLEAN
      /\ call[c].kind \in Kinds
  BY <1>0 DEF AgentCall
<1>1. ASSUME Delegate(c) PROVE AgentsInv'
  <2>1. CodeProvider \in Providers
    BY <1>0 DEF CodeProvider, Providers, Clis
  <2>2. /\ call' \in [Calls -> AgentCall] /\ call'[c].at = "lookup" /\ call'[c].kind = "code"
        /\ call'[c].won = FALSE /\ \A d \in Calls \ {c} : call'[d] = call[d]
    BY <1>1, <2>1, Begins DEF Delegate, Kinds, Ahead
  <2> QED BY <1>0, <1>1, <2>2, OneCall DEF Delegate, KeepRegs, At, CallFits, Ahead, Under, Behind
<1>2. ASSUME Command(c) PROVE AgentsInv'
  <2>2. /\ call' \in [Calls -> AgentCall] /\ call'[c].at = "lookup" /\ call'[c].kind = "command"
        /\ call'[c].won = FALSE /\ \A d \in Calls \ {c} : call'[d] = call[d]
    BY <1>2, Begins DEF Command, Kinds, Ahead, Providers, Clis
  <2>3. /\ row' \in [Calls -> RowStates] /\ row'[c] \in {"none", "pending", "running"}
        /\ \A d \in Calls \ {c} : row'[d] = row[d]
    BY <1>0, <1>2 DEF Command, OpenRow, RowStates
  <2> QED BY <1>0, <1>2, <2>2, <2>3, OneCall DEF Command, KeepRegs, At, CallFits, Ahead, Under, Behind
<1>3. ASSUME Stream(c) PROVE AgentsInv'
  <2>2. /\ call' \in [Calls -> AgentCall] /\ call'[c].at = "spawn" /\ call'[c].kind = "stream"
        /\ call'[c].won = FALSE /\ \A d \in Calls \ {c} : call'[d] = call[d]
    BY <1>3, Begins DEF Stream, Kinds, Ahead, Providers, Clis
  <2>3. /\ row' \in [Calls -> RowStates] /\ row'[c] \in {"none", "pending", "running"}
        /\ \A d \in Calls \ {c} : row'[d] = row[d]
    BY <1>0, <1>3 DEF Stream, OpenRow, RowStates
  <2> QED BY <1>0, <1>3, <2>2, <2>3, OneCall DEF Stream, KeepRegs, At, CallFits, Ahead, Under, Behind
<1>4. ASSUME LookUpProvider(c) PROVE AgentsInv'
  <2>1. At(c, "lookup") /\ UNCHANGED <<proc, row, left>> /\ KeepRegs
        /\ (Won(c, FALSE) \/ To(c, "ask") \/ To(c, "spawn"))
    BY <1>4 DEF LookUpProvider
  <2>2. call[c].won = FALSE
    BY <1>0, <1>a, <2>1 DEF CallFits, At, Ahead
  <2> DEFINE Gone == /\ call' \in [Calls -> AgentCall] /\ call'[c].at \in {"result", "ask", "spawn"}
                     /\ call'[c].kind = call[c].kind /\ call'[c].won = FALSE
                     /\ \A d \in Calls \ {c} : call'[d] = call[d]
  <2>3. ASSUME Won(c, FALSE) PROVE Gone
    BY <2>3, Results
  <2>4. ASSUME NEW place \in {"ask", "spawn"}, To(c, place) PROVE Gone
    BY <2>2, <2>4, Moves DEF Ahead
  <2>5. Gone
    BY <2>1, <2>3, <2>4
  <2> QED BY <1>0, <2>1, <2>5, OneCall DEF KeepRegs, At, CallFits, Ahead, Under, Behind
<1>5. ASSUME AskInProcess(c) \/ SpawnFails(c) PROVE AgentsInv'
  <2>1. call[c].at \in {"ask", "spawn"} /\ UNCHANGED <<proc, row, left>> /\ KeepRegs /\ Won(c, FALSE)
    BY <1>5 DEF AskInProcess, SpawnFails, At
  <2>2. /\ call' \in [Calls -> AgentCall] /\ call'[c].at = "result"
        /\ call'[c].kind = call[c].kind /\ call'[c].won = FALSE
        /\ \A d \in Calls \ {c} : call'[d] = call[d]
    BY <2>1, Results
  <2> QED BY <1>0, <2>1, <2>2, OneCall DEF KeepRegs, CallFits, Ahead, Under, Behind
<1>6. ASSUME Spawn(c) PROVE AgentsInv'
  <2>1. At(c, "spawn") /\ UNCHANGED <<row, left>> /\ KeepRegs /\ (To(c, "read") \/ To(c, "wait"))
    BY <1>6 DEF Spawn
  <2>2. /\ call' \in [Calls -> AgentCall] /\ call'[c].at \in {"read", "wait"}
        /\ call'[c].kind = call[c].kind /\ call'[c].won = call[c].won
        /\ \A d \in Calls \ {c} : call'[d] = call[d]
    BY <2>1, Moves DEF Under
  <2>3. /\ proc' \in [Calls -> P] /\ proc'[c] = "live" /\ \A d \in Calls \ {c} : proc'[d] = proc[d]
    BY <1>0, <1>6 DEF Spawn
  <2> QED BY <1>0, <2>1, <2>2, <2>3, OneCall DEF KeepRegs, At, CallFits, Ahead, Under, Behind
<1>7. ASSUME ProcessEnds(c) PROVE AgentsInv'
  <2>1. proc[c] = "live" /\ UNCHANGED <<call, row, left>> /\ KeepRegs
    BY <1>7 DEF ProcessEnds
  <2>3. /\ proc' \in [Calls -> P] /\ proc'[c] \in {"zero", "bad"} /\ \A d \in Calls \ {c} : proc'[d] = proc[d]
    BY <1>0, <1>7 DEF ProcessEnds
  <2> QED BY <1>0, <1>a, <2>1, <2>3, OneCall DEF KeepRegs, CallFits, Ahead, Under, Behind
<1>8. ASSUME Communicated(c) \/ Reaped(c) PROVE AgentsInv'
  <2>1. call[c].at \in Under /\ proc[c] # "live" /\ UNCHANGED <<proc, row, left, regs, dflt>>
        /\ Won(c, proc[c] = "zero") /\ output' \in Outputs
    BY <1>0, <1>8 DEF Communicated, Reaped, At, Under, KeepRegs
  <2>2. /\ call' \in [Calls -> AgentCall] /\ call'[c].at = "result"
        /\ call'[c].kind = call[c].kind /\ call'[c].won = (proc[c] = "zero")
        /\ \A d \in Calls \ {c} : call'[d] = call[d]
    BY <2>1, Results
  <2> QED BY <1>0, <2>1, <2>2, OneCall DEF CallFits, Ahead, Under, Behind
<1>9. ASSUME CallTimesOut(c) PROVE AgentsInv'
  <2>1. At(c, "wait") /\ UNCHANGED <<row, left>> /\ KeepRegs /\ Won(c, FALSE) /\ KillIfLive(c)
    BY <1>9 DEF CallTimesOut
  <2>2. /\ call' \in [Calls -> AgentCall] /\ call'[c].at = "result"
        /\ call'[c].kind = call[c].kind /\ call'[c].won = FALSE
        /\ \A d \in Calls \ {c} : call'[d] = call[d]
    BY <2>1, Results
  <2>3. /\ proc' \in [Calls -> P] /\ proc'[c] # "live" /\ \A d \in Calls \ {c} : proc'[d] = proc[d]
    BY <1>0, <2>1 DEF KillIfLive
  <2> QED BY <1>0, <2>1, <2>2, <2>3, OneCall DEF KeepRegs, At, CallFits, Ahead, Under, Behind
<1>10. ASSUME WaitFails(c) PROVE AgentsInv'
  <2>1. call[c].at \in Under /\ UNCHANGED <<proc, row>> /\ KeepRegs /\ Won(c, FALSE) /\ left' = left \cup {c}
    BY <1>10 DEF WaitFails, Under
  <2>2. /\ call' \in [Calls -> AgentCall] /\ call'[c].at = "result"
        /\ call'[c].kind = call[c].kind /\ call'[c].won = FALSE
        /\ \A d \in Calls \ {c} : call'[d] = call[d]
    BY <2>1, Results
  <2> QED BY <1>0, <2>1, <2>2, OneCall DEF KeepRegs, CallFits, Ahead, Under, Behind
<1>11. ASSUME Settle(c) PROVE AgentsInv'
  <2>1. At(c, "result") /\ To(c, "done") /\ output' = << >> /\ UNCHANGED <<proc, regs, dflt>>
    BY <1>11 DEF Settle
  <2>2. /\ call' \in [Calls -> AgentCall] /\ call'[c].at = "done"
        /\ call'[c].kind = call[c].kind /\ call'[c].won = call[c].won
        /\ \A d \in Calls \ {c} : call'[d] = call[d]
    BY <2>1, Moves DEF Behind
  <2>3. output' \in Outputs
    BY <2>1, NothingRead
  <2>4. \/ UNCHANGED <<row, left>> /\ call[c].kind = "code"
        \/ UNCHANGED row /\ left' = left \cup {c}
        \/ Cas(c, IF call[c].won THEN "completed" ELSE "failed") /\ UNCHANGED left
           /\ call[c].kind # "code"
    BY <1>11 DEF Settle
  <2>5. /\ row' \in [Calls -> RowStates] /\ left \subseteq left' /\ left' \subseteq left \cup {c}
        /\ \A d \in Calls \ {c} : row'[d] = row[d]
        /\ row[c] # "running" => row'[c] = row[c]
        /\ row[c] = "running" => \/ row'[c] = "completed" /\ call[c].won
                                 \/ row'[c] = "failed"
                                 \/ c \in left' /\ row'[c] = "running"
                                 \/ call[c].kind = "code" /\ row'[c] = "running"
    BY <1>0, <2>4 DEF Cas, RowStates
  <2> HIDE DEF P
  <2>6. CallFits(c)'
    BY <1>0, <2>1, <2>2, <2>5 DEF At, CallFits, Ahead, Under, Behind
  <2> QED BY <1>0, <2>1, <2>2, <2>3, <2>5, <2>6, OneCall DEF P
<1>12. ASSUME GivenUp(c) PROVE AgentsInv'
  <2>1. call[c].at \in {"read", "late"} /\ UNCHANGED <<proc, row>> /\ KeepRegs /\ To(c, "done")
        /\ left' = left \cup {c}
    BY <1>12 DEF GivenUp
  <2>2. /\ call' \in [Calls -> AgentCall] /\ call'[c].at = "done"
        /\ call'[c].kind = call[c].kind /\ call'[c].won = call[c].won
        /\ \A d \in Calls \ {c} : call'[d] = call[d]
    BY <2>1, Moves DEF Behind
  <2> QED BY <1>0, <2>1, <2>2, OneCall DEF KeepRegs, CallFits, Ahead, Under, Behind
<1>13. ASSUME OutputEnds(c) PROVE AgentsInv'
  <2>1. At(c, "read") /\ To(c, "reap") /\ UNCHANGED <<proc, row, left>> /\ KeepRegs
    BY <1>13 DEF OutputEnds
  <2>2. /\ call' \in [Calls -> AgentCall] /\ call'[c].at = "reap"
        /\ call'[c].kind = call[c].kind /\ call'[c].won = call[c].won
        /\ \A d \in Calls \ {c} : call'[d] = call[d]
    BY <2>1, Moves DEF Under
  <2> QED BY <1>0, <2>1, <2>2, OneCall DEF KeepRegs, At, CallFits, Ahead, Under, Behind
<1>14. ASSUME ReapTimesOut(c) PROVE AgentsInv'
  <2>1. At(c, "reap") /\ proc[c] = "live" /\ To(c, "late") /\ UNCHANGED <<row, left>> /\ KeepRegs
        /\ KillIfLive(c)
    BY <1>14 DEF ReapTimesOut
  <2>2. /\ call' \in [Calls -> AgentCall] /\ call'[c].at = "late"
        /\ call'[c].kind = call[c].kind /\ call'[c].won = call[c].won
        /\ \A d \in Calls \ {c} : call'[d] = call[d]
    BY <2>1, Moves
  <2>3. /\ proc' \in [Calls -> P] /\ proc'[c] = "killed" /\ \A d \in Calls \ {c} : proc'[d] = proc[d]
    BY <1>0, <2>1 DEF KillIfLive
  <2> QED BY <1>0, <2>1, <2>2, <2>3, OneCall DEF KeepRegs, At, CallFits, Ahead, Under, Behind
<1>15. ASSUME Late(c) PROVE AgentsInv'
  <2>1. At(c, "late") /\ Won(c, FALSE) /\ UNCHANGED <<proc, row, left>> /\ KeepRegs
    BY <1>15 DEF Late
  <2>2. /\ call' \in [Calls -> AgentCall] /\ call'[c].at = "result"
        /\ call'[c].kind = call[c].kind /\ call'[c].won = FALSE
        /\ \A d \in Calls \ {c} : call'[d] = call[d]
    BY <2>1, Results
  <2> QED BY <1>0, <2>1, <2>2, OneCall DEF KeepRegs, At, CallFits, Ahead, Under, Behind
<1>16. ASSUME CancelTask(c) PROVE AgentsInv'
  <2>1. row[c] \in {"pending", "running"} /\ UNCHANGED <<call, proc, left>> /\ KeepRegs
    BY <1>16 DEF CancelTask
  <2>3. /\ row' \in [Calls -> RowStates] /\ row'[c] = "cancelled" /\ \A d \in Calls \ {c} : row'[d] = row[d]
    BY <1>0, <1>16 DEF CancelTask, RowStates
  <2> QED BY <1>0, <2>1, <2>3, OneCall DEF KeepRegs, CallFits, Ahead, Under, Behind
<1> QED BY <1>1, <1>2, <1>3, <1>4, <1>5, <1>6, <1>7, <1>8, <1>9, <1>10, <1>11, <1>12, <1>13,
           <1>14, <1>15, <1>16 DEF CallStep

(* Of any set of lines that has one, one is the latest.                          *)
LEMMA LatestLine ==
  ASSUME NEW n \in Nat, NEW T, T \subseteq 1 .. n, NEW i \in T, \A j \in T : j <= i
  PROVE  Latest(T) = i
<1>1. \A j \in T : (\A k \in T : k <= j) => j = i
  OBVIOUS
<1> QED BY <1>1 DEF Latest

(* A reply is found wherever it stands.                                        *)
LEMMA RepliesAreFound == ASSUME output \in Outputs PROVE RepliesFound
<1>1. PICK n \in 0 .. MaxLines : output \in [1 .. n -> Lines]
  BY DEF Outputs
<1>2. n \in Nat /\ DOMAIN output = 1 .. n
  BY <1>1, SubAgentConstants
<1>3. ASSUME NEW i \in 1 .. n, output[i] \in {"says", "ends"},
             \A j \in 1 .. n : j > i => output[j] \notin {"says", "ends"}
      PROVE  CodexReply(output) = {i} /\ (output[i] = "ends" => ClaudeReply(output) = {i})
  <2>1. ASSUME NEW kinds, kinds \subseteq {"says", "ends"}, output[i] \in kinds
        PROVE  Those(output, kinds) # {} /\ Latest(Those(output, kinds)) = i
    <3>1. i \in Those(output, kinds) /\ Those(output, kinds) \subseteq 1 .. n
      BY <1>2, <2>1 DEF Those
    <3>2. ASSUME NEW j \in Those(output, kinds) PROVE j <= i
      <4>1. j \in 1 .. n /\ output[j] \in {"says", "ends"}
        BY <1>2, <2>1 DEF Those
      <4> QED BY <1>2, <1>3, <4>1
    <3> QED BY <1>2, <3>1, <3>2, LatestLine
  <2>2. Those(output, {"says", "ends"}) # {} /\ Latest(Those(output, {"says", "ends"})) = i
    BY <1>3, <2>1
  <2>3. output[i] = "ends" => Those(output, {"ends"}) # {} /\ Latest(Those(output, {"ends"})) = i
    BY <2>1
  <2> QED BY <2>2, <2>3 DEF CodexReply, ClaudeReply
<1>4. ASSUME NEW i \in 1 .. n, output[i] = "says", \A j \in 1 .. n : output[j] # "ends"
      PROVE  i \in ClaudeReply(output)
  BY <1>2, <1>4 DEF ClaudeReply, Those
<1> QED BY <1>2, <1>3, <1>4 DEF RepliesFound

LEMMA AgentsStep == AgentsInv /\ [AgentsNext]_agentVars => AgentsInv'
<1> SUFFICES ASSUME AgentsInv, [AgentsNext]_agentVars PROVE AgentsInv'
  OBVIOUS
<1>1. CASE UNCHANGED agentVars
  BY <1>1 DEF agentVars, AgentsInv, CallFits
<1> QED BY <1>1, RegistryKeeps, CallStepKeeps DEF AgentsNext

LEMMA AgentsShow == AgentsInv => SubAgentsSound
<1> SUFFICES ASSUME AgentsInv PROVE SubAgentsSound
  OBVIOUS
<1>1. ASSUME NEW c \in Calls
      PROVE  /\ proc[c] = "live" /\ c \notin left => call[c].at \in {"wait", "read", "reap"}
             /\ row[c] = "running" /\ c \notin left => call[c].at \notin {"idle", "done"}
             /\ call[c].won \/ row[c] = "completed" => proc[c] = "zero"
  <2>1. CallFits(c) /\ call[c].at \in Ahead \cup Under \cup Behind \cup {"late"}
    BY DEF AgentsInv, AgentCall
  <2> QED BY <2>1 DEF CallFits, Ahead, Under, Behind
<1>2. RepliesFound
  BY RepliesAreFound DEF AgentsInv
<1> QED BY <1>1, <1>2 DEF SubAgentsSound, NothingLeft, SuccessIsReal, AgentsInv

-----------------------------------------------------------------------------
(* Calls of tools (core/tool_pipeline.py).                                             *)

Stages   == {"new", "guard", "await", "hooks", "answered"}
Verdicts == {"none", "ok", "error", "timeout", "rejected", "raised", "promise"}
Workers  == {"none", "queued", "running", "done", "cancelled"}

PipeTypeOK == /\ native \in BOOLEAN /\ held \subseteq ToolCalls
              /\ stage \in [ToolCalls -> Stages] /\ verdict \in [ToolCalls -> Verdicts]
              /\ worker \in [ToolCalls -> Workers]

(* A call before it is asked, while its function may run, and after.            *)
Fits(c) ==
  /\ stage[c] \in {"new", "guard"} => worker[c] = "none" /\ verdict[c] = "none"
  /\ stage[c] = "await" => worker[c] \in {"queued", "running"} /\ verdict[c] = "none"
  /\ stage[c] = "hooks" => \/ verdict[c] \in {"ok", "error"} /\ worker[c] = "done"
                           \/ verdict[c] = "timeout" /\ worker[c] \in {"running", "done", "cancelled"}
  /\ stage[c] = "answered" => /\ worker[c] # "queued"
                              /\ verdict[c] = "rejected" => worker[c] = "none"
                              /\ verdict[c] \in {"ok", "error"} => worker[c] = "done"
                              /\ worker[c] = "running" => verdict[c] \in {"timeout", "raised"}
  /\ worker[c] = "running" /\ stage[c] # "await" => ~native

PermitsHeld == Cardinality(held) <= Parallel /\ \A c \in held : stage[c] \notin {"new", "answered"}
PoolHolds   == ~native => Cardinality(Working) <= PoolSize

PipeInv == PipeTypeOK /\ (\A c \in ToolCalls : Fits(c)) /\ PermitsHeld /\ PoolHolds

(* The hooks after a call keep its verdict or make it an exception.             *)
LEMMA AfterKeeps == ASSUME NEW v, NEW hooks PROVE After(v, hooks) \in {v, "raised"}
BY DEF After

(* Sets of calls are finite: one more member adds one at most, fewer add none.     *)
LEMMA OneMore == ASSUME NEW S, S \subseteq ToolCalls, NEW c \in ToolCalls
                 PROVE  /\ Cardinality(S) \in Nat /\ Cardinality(S \cup {c}) \in Nat
                        /\ Cardinality(S \cup {c}) <= Cardinality(S) + 1
<1>1. IsFiniteSet(S)
  BY PipelineConstants, FS_Subset
<1>2. Cardinality(S) \in Nat
  BY <1>1, FS_CardinalityType
<1>3. Cardinality(S \cup {c}) = IF c \in S THEN Cardinality(S) ELSE Cardinality(S) + 1
  BY <1>1, FS_AddElement
<1> QED BY <1>2, <1>3

LEMMA NoMore == ASSUME NEW S, NEW T, S \subseteq ToolCalls, T \subseteq S
                PROVE  Cardinality(T) \in Nat /\ Cardinality(S) \in Nat /\ Cardinality(T) <= Cardinality(S)
<1>1. IsFiniteSet(S)
  BY PipelineConstants, FS_Subset
<1>2. QED BY <1>1, FS_Subset, FS_CardinalityType

LEMMA PipeInit == PipeIdle => PipeInv
<1> SUFFICES ASSUME PipeIdle PROVE PipeInv
  OBVIOUS
<1>1. held = {} /\ Working = {} /\ Cardinality({}) = 0
  BY FS_EmptySet DEF PipeIdle, Working
<1> QED BY <1>1, PipelineConstants
        DEF PipeIdle, PipeInv, PipeTypeOK, Stages, Verdicts, Workers, Fits, PermitsHeld, PoolHolds

(* Steps that leave or give back permits, and steps after which no other function     *)
(* runs, keep both limits.                                                     *)
LEMMA LimitsKept ==
  ASSUME PipeInv, held' \subseteq held, Working' \subseteq Working, UNCHANGED native,
         \A c \in held' : stage'[c] \notin {"new", "answered"}
  PROVE  PermitsHeld' /\ PoolHolds'
<1>1. Cardinality(held') \in Nat /\ Cardinality(held) \in Nat /\ Cardinality(held') <= Cardinality(held)
  BY NoMore DEF PipeInv, PipeTypeOK
<1>2. /\ Cardinality(Working') \in Nat /\ Cardinality(Working) \in Nat
      /\ Cardinality(Working') <= Cardinality(Working)
  BY NoMore DEF Working
<1> QED BY <1>1, <1>2, PipelineConstants DEF PipeInv, PermitsHeld, PoolHolds

LEMMA PipeSteps == PipeInv /\ [PipeNext]_pipeVars => PipeInv'
<1> SUFFICES ASSUME PipeInv, [PipeNext]_pipeVars PROVE PipeInv'
  OBVIOUS
<1> USE DEF PipeTypeOK, Stages, Verdicts, Workers, StageTo, VerdictTo, WorkerTo
<1>1. CASE UNCHANGED pipeVars
  BY <1>1 DEF pipeVars, PipeInv, Fits, PermitsHeld, PoolHolds, Working
<1>2. ASSUME NEW c \in ToolCalls, Acquire(c) PROVE PipeInv'
  <2>1. PipeTypeOK' /\ \A d \in ToolCalls : Fits(d)'
    BY <1>2 DEF PipeInv, Fits, Acquire
  <2>2. Cardinality(held) \in Nat /\ Cardinality(held') \in Nat /\ Cardinality(held') <= Parallel
    BY <1>2, OneMore, PipelineConstants DEF PipeInv, Acquire
  <2>3. PermitsHeld'
    BY <1>2, <2>2 DEF PipeInv, PermitsHeld, Acquire
  <2>4. PoolHolds'
    BY <1>2 DEF PipeInv, PoolHolds, Working, Acquire
  <2> QED BY <2>1, <2>3, <2>4 DEF PipeInv
<1>3. ASSUME NEW c \in ToolCalls, ExecuteAlone(c) PROVE PipeInv'
  <2>1. PipeTypeOK' /\ \A d \in ToolCalls : Fits(d)'
    BY <1>3 DEF PipeInv, Fits, ExecuteAlone
  <2>2. PermitsHeld' /\ PoolHolds'
    BY <1>3, LimitsKept DEF PipeInv, PermitsHeld, Working, ExecuteAlone
  <2> QED BY <2>1, <2>2 DEF PipeInv
<1>4. ASSUME NEW c \in ToolCalls, Guard(c) PROVE PipeInv'
  <2>1. PICK hooks \in PreHooks :
          IF Rejects(hooks)
          THEN /\ StageTo(c, "answered") /\ VerdictTo(c, "rejected") /\ held' = held \ {c}
               /\ UNCHANGED worker
          ELSE /\ StageTo(c, "await") /\ UNCHANGED <<verdict, held>>
               /\ WorkerTo(c, IF native THEN "running" ELSE "queued")
    BY <1>4 DEF Guard
  <2>2. PipeTypeOK' /\ \A d \in ToolCalls : Fits(d)'
    BY <1>4, <2>1 DEF PipeInv, Fits, Guard
  <2>3. PermitsHeld' /\ PoolHolds'
    <3>1. CASE native
      <4>1. Cardinality(held') \in Nat /\ Cardinality(held) \in Nat /\ Cardinality(held') <= Cardinality(held)
        BY <2>1, NoMore DEF PipeInv
      <4> QED BY <1>4, <2>1, <3>1, <4>1, PipelineConstants DEF PipeInv, PermitsHeld, PoolHolds, Guard
    <3>2. CASE ~native
      <4>1. Working' \subseteq Working
        BY <1>4, <2>1, <3>2 DEF Working, PipeInv, Guard
      <4> QED BY <1>4, <2>1, <4>1, LimitsKept DEF PipeInv, PermitsHeld, Guard
    <3> QED BY <3>1, <3>2
  <2> QED BY <2>2, <2>3 DEF PipeInv
<1>5. ASSUME NEW c \in ToolCalls, TakeThread(c) PROVE PipeInv'
  <2>1. PipeTypeOK' /\ \A d \in ToolCalls : Fits(d)'
    BY <1>5 DEF PipeInv, Fits, TakeThread
  <2>2. Working' = Working \cup {c}
    BY <1>5 DEF PipeInv, Working, TakeThread
  <2>3. PoolHolds'
    BY <1>5, <2>2, OneMore, PipelineConstants DEF PoolHolds, Working, TakeThread
  <2>4. PermitsHeld'
    BY <1>5 DEF PipeInv, PermitsHeld, TakeThread
  <2> QED BY <2>1, <2>3, <2>4 DEF PipeInv
<1>6. ASSUME NEW c \in ToolCalls, FunctionEnds(c) PROVE PipeInv'
  <2>1. PipeTypeOK' /\ \A d \in ToolCalls : Fits(d)'
    BY <1>6 DEF PipeInv, Fits, FunctionEnds
  <2>2. PermitsHeld' /\ PoolHolds'
    BY <1>6, LimitsKept DEF PipeInv, PermitsHeld, Working, FunctionEnds
  <2> QED BY <2>1, <2>2 DEF PipeInv
<1>7. ASSUME NEW c \in ToolCalls, StopWaiting(c) PROVE PipeInv'
  <2>1. PipeTypeOK' /\ \A d \in ToolCalls : Fits(d)'
    BY <1>7 DEF PipeInv, Fits, StopWaiting
  <2>2. PermitsHeld' /\ PoolHolds'
    BY <1>7, LimitsKept DEF PipeInv, PermitsHeld, Working, StopWaiting
  <2> QED BY <2>1, <2>2 DEF PipeInv
<1>8. ASSUME NEW c \in ToolCalls, AnswerCall(c) PROVE PipeInv'
  <2>1. verdict' = [verdict EXCEPT ![c] = "raised"] \/ UNCHANGED verdict
    <3>1. PICK hooks \in PostHooks : verdict' = [verdict EXCEPT ![c] = After(verdict[c], hooks)]
      BY <1>8 DEF AnswerCall
    <3>2. After(verdict[c], hooks) \in {verdict[c], "raised"}
      BY AfterKeeps
    <3> QED BY <3>1, <3>2 DEF PipeInv
  <2>2. PipeTypeOK' /\ \A d \in ToolCalls : Fits(d)'
    BY <1>8, <2>1 DEF PipeInv, Fits, AnswerCall
  <2>3. PermitsHeld' /\ PoolHolds'
    BY <1>8, LimitsKept DEF PipeInv, PermitsHeld, Working, AnswerCall
  <2> QED BY <2>2, <2>3 DEF PipeInv
<1>9. ASSUME NEW c \in ToolCalls, CallInPlace(c) PROVE PipeInv'
  <2>1. \/ verdict' = [verdict EXCEPT ![c] = "rejected"] /\ UNCHANGED worker
        \/ /\ native /\ UNCHANGED worker
           /\ \E v \in {"promise", "raised"} : verdict' = [verdict EXCEPT ![c] = v]
        \/ /\ ~native /\ worker' = [worker EXCEPT ![c] = "done"]
           /\ \E v \in {"ok", "error", "raised"} : verdict' = [verdict EXCEPT ![c] = v]
    BY <1>9, AfterKeeps DEF CallInPlace
  <2>2. PipeTypeOK' /\ \A d \in ToolCalls : Fits(d)'
    BY <1>9, <2>1 DEF PipeInv, Fits, CallInPlace
  <2>3. PermitsHeld' /\ PoolHolds'
    BY <1>9, <2>1, LimitsKept DEF PipeInv, PermitsHeld, Working, CallInPlace
  <2> QED BY <2>2, <2>3 DEF PipeInv
<1> QED BY <1>1, <1>2, <1>3, <1>4, <1>5, <1>6, <1>7, <1>8, <1>9 DEF PipeNext

LEMMA PipeShows == PipeInv => PipelineSound
BY DEF PipeInv, PipeTypeOK, Stages, Verdicts, Workers, Fits, PermitsHeld, PoolHolds,
       PipelineSound, Abandoned, Working

-----------------------------------------------------------------------------
(* The variables of tools (core/tool_installer.py).                                    *)

Dicts     == UNION {[ks -> Values] : ks \in SUBSET Keys}
SaveSteps == {"none", "row", "inject", "read", "write", "give"}
AnySave   == [at : SaveSteps, vars : Dicts \cup {<< >>}, read : [Keys -> Values]]

EnvTypes == /\ recorded \in [Keys -> Values] /\ env \in [Keys -> Values] /\ file \in [Keys -> Values]
            /\ wanted \in [Keys -> Values] /\ spoiled \in BOOLEAN
            /\ save \in [Savers -> AnySave]
            /\ \A s \in Savers : save[s].at # "none" => save[s].vars \in Dicts

Given(v) == v # ""

(* What a save that is alone has to bring about, and has.                   *)
Alike(k)  == /\ env[k] = wanted[k] /\ file[k] = wanted[k]
             /\ Given(wanted[k]) => recorded[k] = wanted[k]
SaveKept(s) ==
  LET x == save[s] IN
  /\ \A k \in Keys \ DOMAIN x.vars : Alike(k)
  /\ \A k \in DOMAIN x.vars :
       /\ wanted[k] = x.vars[k]
       /\ x.at # "row" /\ Given(wanted[k]) => recorded[k] = wanted[k]
       /\ x.at \in {"read", "write", "give"} => env[k] = wanted[k]
       /\ x.at = "give" => file[k] = wanted[k]
  /\ x.at = "write" => x.read = file

EnvInv ==
  /\ EnvTypes
  /\ ~spoiled =>
       /\ \A s, t \in Savers : save[s].at # "none" /\ save[t].at # "none" => s = t
       /\ \A s \in Savers : save[s].at # "none" => SaveKept(s)
       /\ Quiet => \A k \in Keys : Alike(k)

LEMMA NothingFits == Nothing \in [Keys -> Values] /\ \A k \in Keys : Nothing[k] = ""
BY DEF Nothing, Values

LEMMA EnvironmentStarts == EnvironmentIdle => EnvInv
<1> SUFFICES ASSUME EnvironmentIdle PROVE EnvInv
  OBVIOUS
<1>1. EnvTypes
  BY NothingFits DEF EnvironmentIdle, EnvTypes, AnySave, SaveSteps, Resting
<1>2. \A s \in Savers : save[s].at = "none"
  BY DEF EnvironmentIdle, Resting
<1>3. \A k \in Keys : Alike(k)
  BY NothingFits DEF EnvironmentIdle, Alike, Given
<1> QED BY <1>1, <1>2, <1>3 DEF EnvInv

LEMMA OverFits ==
  ASSUME NEW old \in [Keys -> Values], NEW vars \in Dicts
  PROVE  /\ Over(old, vars) \in [Keys -> Values] /\ OverSet(old, vars) \in [Keys -> Values]
         /\ DOMAIN vars \subseteq Keys
         /\ \A k \in Keys : /\ Over(old, vars)[k] = IF k \in DOMAIN vars THEN vars[k] ELSE old[k]
                            /\ OverSet(old, vars)[k] = IF k \in DOMAIN vars /\ Given(vars[k])
                                                       THEN vars[k] ELSE old[k]
<1>1. PICK ks \in SUBSET Keys : vars \in [ks -> Values]
  BY DEF Dicts
<1>2. DOMAIN vars = ks /\ \A k \in ks : vars[k] \in Values
  BY <1>1
<1>3. \A k \in Keys : /\ Over(old, vars)[k] = IF k \in DOMAIN vars THEN vars[k] ELSE old[k]
                      /\ OverSet(old, vars)[k] = IF k \in DOMAIN vars /\ Given(vars[k])
                                                 THEN vars[k] ELSE old[k]
  BY DEF Over, OverSet, Given
<1>4. Over(old, vars) \in [Keys -> Values] /\ OverSet(old, vars) \in [Keys -> Values]
  BY <1>2 DEF Over, OverSet, Given
<1> QED BY <1>2, <1>3, <1>4

(* One saver goes on, and nothing else moves but what it saves.             *)
LEMMA AloneGoesOn ==
  ASSUME EnvInv, NEW s \in Savers, save[s].at # "none", save'[s].at # "none",
         \A p \in Savers \ {s} : save'[p] = save[p], spoiled' = spoiled, EnvTypes',
         SaveKept(s) => SaveKept(s)'
  PROVE  EnvInv'
<1> SUFFICES ASSUME ~spoiled
             PROVE  /\ \A p, q \in Savers : save'[p].at # "none" /\ save'[q].at # "none" => p = q
                    /\ \A p \in Savers : save'[p].at # "none" => SaveKept(p)'
                    /\ ~Quiet'
  BY DEF EnvInv
<1>1. \A p \in Savers : save'[p].at # "none" <=> p = s
  BY DEF EnvInv
<1>2. SaveKept(s)'
  BY DEF EnvInv
<1> QED BY <1>1, <1>2 DEF Quiet

(* A step after which a save has overlapped or failed.                      *)
LEMMA SpoiledKeeps == ASSUME EnvTypes', spoiled' PROVE EnvInv'
BY DEF EnvInv

LEMMA SaveFits ==
  ASSUME EnvTypes, NEW s \in Savers, NEW at \in SaveSteps
  PROVE  /\ [save[s] EXCEPT !.at = at] \in AnySave
         /\ [save[s] EXCEPT !.at = at].at = at
         /\ [save[s] EXCEPT !.at = at].vars = save[s].vars
         /\ [save[s] EXCEPT !.at = at].read = save[s].read
<1>1. PICK x \in AnySave : x = save[s]
  BY DEF EnvTypes
<1>2. /\ [x EXCEPT !.at = at] \in AnySave /\ [x EXCEPT !.at = at].at = at
      /\ [x EXCEPT !.at = at].vars = x.vars /\ [x EXCEPT !.at = at].read = x.read
  BY DEF AnySave
<1> QED BY <1>1, <1>2

(* The saver goes on to another step.                                      *)
LEMMA OnlySaveMoves ==
  ASSUME EnvTypes, NEW s \in Savers, NEW at \in SaveSteps, save' = [save EXCEPT ![s].at = at],
         at # "none" => save[s].vars \in Dicts
  PROVE  /\ save' \in [Savers -> AnySave]
         /\ \A p \in Savers : save'[p].at # "none" => save'[p].vars \in Dicts
         /\ save'[s].at = at /\ save'[s].vars = save[s].vars /\ save'[s].read = save[s].read
         /\ \A p \in Savers \ {s} : save'[p] = save[p]
<1>1. PICK x \in AnySave : /\ x = [save[s] EXCEPT !.at = at] /\ x.at = at
                           /\ x.vars = save[s].vars /\ x.read = save[s].read
  BY SaveFits
<1>2. save' = [save EXCEPT ![s] = x] /\ save \in [Savers -> AnySave]
  BY <1>1 DEF EnvTypes
<1> QED BY <1>1, <1>2 DEF EnvTypes

LEMMA RestingFits == Resting \in AnySave /\ Resting.at = "none"
BY NothingFits DEF Resting, AnySave, SaveSteps

LEMMA EnvironmentStep == EnvInv /\ [EnvironmentNext]_envVars => EnvInv'
<1> SUFFICES ASSUME EnvInv, [EnvironmentNext]_envVars PROVE EnvInv'
  OBVIOUS
<1>1. EnvTypes /\ \A s \in Savers : save[s] \in AnySave
  BY DEF EnvInv, EnvTypes
<1>2. ASSUME NEW s \in Savers, SetEnvVars(s) PROVE EnvInv'
  <2>2. PICK vars \in Dicts :
          /\ save' = [save EXCEPT ![s] = [Resting EXCEPT !.at = "row", !.vars = vars]]
          /\ wanted' = Over(wanted, vars)
    BY <1>2 DEF SetEnvVars, Dicts
  <2>1. PICK x : /\ x = [Resting EXCEPT !.at = "row", !.vars = vars]
                 /\ save' = [save EXCEPT ![s] = x] /\ wanted' = Over(wanted, vars)
    BY <2>2
  <2>3. x \in AnySave /\ x.at = "row" /\ x.vars = vars
    BY <2>1, <2>2, RestingFits, NothingFits DEF AnySave, SaveSteps, Resting
  <2>4. /\ save[s].at = "none" /\ spoiled' = (spoiled \/ ~Quiet)
        /\ UNCHANGED <<recorded, env, file>>
    BY <1>2 DEF SetEnvVars
  <2>8. /\ wanted' \in [Keys -> Values] /\ DOMAIN vars \subseteq Keys
        /\ \A k \in Keys : wanted'[k] = IF k \in DOMAIN vars THEN vars[k] ELSE wanted[k]
    <3>1. PICK old \in [Keys -> Values] : old = wanted
      BY <1>1 DEF EnvTypes
    <3>2. /\ Over(old, vars) \in [Keys -> Values] /\ DOMAIN vars \subseteq Keys
          /\ \A k \in Keys : Over(old, vars)[k] = IF k \in DOMAIN vars THEN vars[k] ELSE old[k]
      BY OverFits
    <3>3. wanted' = Over(old, vars)
      BY <2>1, <3>1
    <3> QED BY <3>1, <3>2, <3>3
  <2>5. EnvTypes'
    BY <1>1, <2>1, <2>3, <2>4, <2>8 DEF EnvTypes
  <2>6. CASE spoiled'
    BY <2>5, <2>6, SpoiledKeeps
  <2>7. CASE ~spoiled'
    <3>1. ~spoiled /\ Quiet /\ \A k \in Keys : Alike(k)
      BY <1>1, <2>4, <2>7 DEF EnvInv, EnvTypes
    <3>2. \A p \in Savers : save'[p].at # "none" <=> p = s
      BY <1>1, <2>1, <2>3, <3>1 DEF EnvTypes, Quiet
    <3>3. save'[s] = x
      BY <1>1, <2>1 DEF EnvTypes
    <3>4. SaveKept(s)'
      BY <2>3, <2>4, <2>8, <3>1, <3>3 DEF SaveKept, Alike
    <3> QED BY <2>5, <3>2, <3>4 DEF EnvInv, Quiet
  <2> QED BY <2>6, <2>7
<1>3. ASSUME NEW s \in Savers, UpdateRow(s) PROVE EnvInv'
  <2>1. /\ save[s].at = "row" /\ save' = [save EXCEPT ![s].at = "inject"]
        /\ recorded' = OverSet(recorded, save[s].vars)
        /\ UNCHANGED <<env, file, wanted, spoiled>>
    BY <1>3 DEF UpdateRow, SaveTo
  <2>2. save[s].vars \in Dicts /\ "inject" \in SaveSteps
    BY <1>1, <2>1 DEF EnvTypes, SaveSteps
  <2>3. /\ save' \in [Savers -> AnySave]
        /\ \A p \in Savers : save'[p].at # "none" => save'[p].vars \in Dicts
        /\ save'[s].at = "inject" /\ save'[s].vars = save[s].vars
        /\ \A p \in Savers \ {s} : save'[p] = save[p]
    BY <1>1, <2>1, <2>2, OnlySaveMoves
  <2>6. PICK vars \in Dicts : vars = save[s].vars
    BY <2>2
  <2>7. /\ recorded' \in [Keys -> Values] /\ DOMAIN vars \subseteq Keys
        /\ \A k \in Keys : recorded'[k] = IF k \in DOMAIN vars /\ Given(vars[k]) THEN vars[k] ELSE recorded[k]
    <3>1. PICK old \in [Keys -> Values] : old = recorded
      BY <1>1 DEF EnvTypes
    <3>2. /\ OverSet(old, vars) \in [Keys -> Values] /\ DOMAIN vars \subseteq Keys
          /\ \A k \in Keys : OverSet(old, vars)[k] = IF k \in DOMAIN vars /\ Given(vars[k]) THEN vars[k] ELSE old[k]
      BY OverFits
    <3>3. recorded' = OverSet(old, vars)
      BY <2>1, <2>6, <3>1
    <3> QED BY <3>1, <3>2, <3>3
  <2>4. EnvTypes'
    BY <1>1, <2>1, <2>3, <2>7 DEF EnvTypes
  <2>5. SaveKept(s) => SaveKept(s)'
    BY <2>1, <2>3, <2>6, <2>7 DEF SaveKept, Alike
  <2> QED BY <2>1, <2>3, <2>4, <2>5, AloneGoesOn
<1>4. ASSUME NEW s \in Savers, RowFails(s) PROVE EnvInv'
  <2>1. EnvTypes'
    BY <1>1, <1>4, RestingFits DEF RowFails, EnvTypes
  <2> QED BY <1>4, <2>1, SpoiledKeeps DEF RowFails
<1>5. ASSUME NEW s \in Savers, Inject(s) PROVE EnvInv'
  <2>1. /\ save[s].at = "inject" /\ save' = [save EXCEPT ![s].at = "read"]
        /\ env' = Over(env, save[s].vars) /\ UNCHANGED <<recorded, file, wanted, spoiled>>
    BY <1>5 DEF Inject, SaveTo
  <2>2. save[s].vars \in Dicts /\ "read" \in SaveSteps
    BY <1>1, <2>1 DEF EnvTypes, SaveSteps
  <2>3. /\ save' \in [Savers -> AnySave]
        /\ \A p \in Savers : save'[p].at # "none" => save'[p].vars \in Dicts
        /\ save'[s].at = "read" /\ save'[s].vars = save[s].vars
        /\ \A p \in Savers \ {s} : save'[p] = save[p]
    BY <1>1, <2>1, <2>2, OnlySaveMoves
  <2>6. PICK vars \in Dicts : vars = save[s].vars
    BY <2>2
  <2>7. /\ env' \in [Keys -> Values] /\ DOMAIN vars \subseteq Keys
        /\ \A k \in Keys : env'[k] = IF k \in DOMAIN vars THEN vars[k] ELSE env[k]
    <3>1. PICK old \in [Keys -> Values] : old = env
      BY <1>1 DEF EnvTypes
    <3>2. /\ Over(old, vars) \in [Keys -> Values] /\ DOMAIN vars \subseteq Keys
          /\ \A k \in Keys : Over(old, vars)[k] = IF k \in DOMAIN vars THEN vars[k] ELSE old[k]
      BY OverFits
    <3>3. env' = Over(old, vars)
      BY <2>1, <2>6, <3>1
    <3> QED BY <3>1, <3>2, <3>3
  <2>4. EnvTypes'
    BY <1>1, <2>1, <2>3, <2>7 DEF EnvTypes
  <2>5. SaveKept(s) => SaveKept(s)'
    BY <2>1, <2>3, <2>6, <2>7 DEF SaveKept, Alike
  <2> QED BY <2>1, <2>3, <2>4, <2>5, AloneGoesOn
<1>6. ASSUME NEW s \in Savers, ReadEnvFile(s) PROVE EnvInv'
  <2>1. /\ save[s].at = "read" /\ save' = [save EXCEPT ![s].at = "write", ![s].read = file]
        /\ UNCHANGED <<recorded, env, file, wanted, spoiled>>
    BY <1>6 DEF ReadEnvFile
  <2>2. save[s].vars \in Dicts /\ file \in [Keys -> Values]
    BY <1>1, <2>1 DEF EnvTypes
  <2>3. PICK x \in AnySave : x = save[s]
    BY <1>1
  <2>4. PICK y : y = [x EXCEPT !.at = "write", !.read = file]
    OBVIOUS
  <2>5. y \in AnySave /\ y.at = "write" /\ y.read = file /\ y.vars = x.vars
    BY <2>2, <2>4 DEF AnySave, SaveSteps
  <2>6. save' = [save EXCEPT ![s] = y]
    BY <1>1, <2>1, <2>3, <2>4 DEF EnvTypes
  <2>7. /\ save' \in [Savers -> AnySave] /\ save'[s] = y
        /\ \A p \in Savers \ {s} : save'[p] = save[p]
    BY <1>1, <2>5, <2>6 DEF EnvTypes
  <2>8. EnvTypes'
    BY <1>1, <2>1, <2>2, <2>3, <2>5, <2>7 DEF EnvTypes
  <2>9. SaveKept(s) => SaveKept(s)'
    BY <2>1, <2>3, <2>5, <2>7 DEF SaveKept, Alike
  <2> QED BY <2>1, <2>5, <2>7, <2>8, <2>9, AloneGoesOn
<1>7. ASSUME NEW s \in Savers, WriteEnvFile(s) PROVE EnvInv'
  <2>1. /\ save[s].at = "write" /\ save' = [save EXCEPT ![s].at = "give"]
        /\ file' = Over(save[s].read, save[s].vars) /\ UNCHANGED <<recorded, env, wanted, spoiled>>
    BY <1>7 DEF WriteEnvFile, SaveTo
  <2>2. save[s].vars \in Dicts /\ "give" \in SaveSteps /\ save[s].read \in [Keys -> Values]
    BY <1>1, <2>1 DEF EnvTypes, SaveSteps, AnySave
  <2>3. /\ save' \in [Savers -> AnySave]
        /\ \A p \in Savers : save'[p].at # "none" => save'[p].vars \in Dicts
        /\ save'[s].at = "give" /\ save'[s].vars = save[s].vars
        /\ \A p \in Savers \ {s} : save'[p] = save[p]
    BY <1>1, <2>1, <2>2, OnlySaveMoves
  <2>6. PICK vars \in Dicts : vars = save[s].vars
    BY <2>2
  <2>7. /\ file' \in [Keys -> Values] /\ DOMAIN vars \subseteq Keys
        /\ \A k \in Keys : file'[k] = IF k \in DOMAIN vars THEN vars[k] ELSE save[s].read[k]
    <3>1. PICK old \in [Keys -> Values] : old = save[s].read
      BY <1>1, <2>2 DEF EnvTypes
    <3>2. /\ Over(old, vars) \in [Keys -> Values] /\ DOMAIN vars \subseteq Keys
          /\ \A k \in Keys : Over(old, vars)[k] = IF k \in DOMAIN vars THEN vars[k] ELSE old[k]
      BY OverFits
    <3>3. file' = Over(old, vars)
      BY <2>1, <2>6, <3>1
    <3> QED BY <3>1, <3>2, <3>3
  <2>4. EnvTypes'
    BY <1>1, <2>1, <2>3, <2>7 DEF EnvTypes
  <2>5. SaveKept(s) => SaveKept(s)'
    BY <2>1, <2>3, <2>6, <2>7 DEF SaveKept, Alike
  <2> QED BY <2>1, <2>3, <2>4, <2>5, AloneGoesOn
<1>8. ASSUME NEW s \in Savers, FileFails(s) PROVE EnvInv'
  <2>1. /\ save[s].at # "none" /\ save' = [save EXCEPT ![s].at = "give"] /\ spoiled'
        /\ UNCHANGED <<recorded, env, file, wanted>>
    BY <1>8 DEF FileFails, SaveTo
  <2>2. save[s].vars \in Dicts /\ "give" \in SaveSteps
    BY <1>1, <2>1 DEF EnvTypes, SaveSteps
  <2>3. /\ save' \in [Savers -> AnySave]
        /\ \A p \in Savers : save'[p].at # "none" => save'[p].vars \in Dicts
    BY <1>1, <2>1, <2>2, OnlySaveMoves
  <2>4. EnvTypes'
    BY <1>1, <1>8, <2>1, <2>3 DEF EnvTypes, FileFails
  <2> QED BY <2>1, <2>4, SpoiledKeeps
<1>9. ASSUME NEW s \in Savers, HotUpdate(s) PROVE EnvInv'
  <2>1. /\ save[s].at = "give" /\ save' = [save EXCEPT ![s] = Resting]
        /\ UNCHANGED <<recorded, env, file, wanted, spoiled>>
    BY <1>9 DEF HotUpdate
  <2>2. EnvTypes' /\ \A p \in Savers : save'[p] = IF p = s THEN Resting ELSE save[p]
    BY <1>1, <2>1, RestingFits DEF EnvTypes
  <2>3. ASSUME ~spoiled PROVE Quiet' /\ \A k \in Keys : Alike(k)'
    <3>1. SaveKept(s) /\ \A p \in Savers : save[p].at # "none" => p = s
      BY <2>1, <2>3 DEF EnvInv
    <3>2. Quiet'
      BY <2>2, <3>1, RestingFits DEF Quiet
    <3>3. \A k \in Keys : Alike(k)'
      BY <2>1, <3>1 DEF SaveKept, Alike
    <3> QED BY <3>2, <3>3
  <2> QED BY <2>1, <2>2, <2>3 DEF EnvInv, Quiet
<1>10. CASE RebuildProvider \/ UNCHANGED envVars
  <2>1. UNCHANGED <<recorded, env, file, wanted, spoiled, save>>
    BY <1>10 DEF RebuildProvider, envVars
  <2> QED BY <2>1 DEF EnvInv, EnvTypes, SaveKept, Alike, Quiet
<1>11. CASE LoadAgentEnv
  <2>1. /\ save' = [s \in Savers |-> Resting] /\ spoiled' = (spoiled \/ ~Quiet)
        /\ env' = file /\ UNCHANGED <<recorded, file, wanted>>
    BY <1>11 DEF LoadAgentEnv
  <2>2. EnvTypes' /\ Quiet'
    BY <1>1, <2>1, RestingFits DEF EnvTypes, Quiet
  <2>3. ASSUME ~spoiled' PROVE \A k \in Keys : Alike(k)'
    BY <1>1, <2>1, <2>3 DEF EnvInv, EnvTypes, Alike
  <2> QED BY <2>2, <2>3 DEF EnvInv, Quiet
<1> QED BY <1>2, <1>3, <1>4, <1>5, <1>6, <1>7, <1>8, <1>9, <1>10, <1>11 DEF EnvironmentNext

LEMMA EnvironmentShows == EnvInv => EnvKept
BY DEF EnvInv, EnvKept, Alike, Given

-----------------------------------------------------------------------------
(* The pid file (daemon.py).                                                           *)

Phases == Entering \cup Running \cup {"free", "stranger"}
Halts  == {"idle", "testing", "clearing", "killing", "waiting"}

DTypeOK ==
  /\ pidFile \in Pids \cup {Absent, Blank}
  /\ life \in [Pids -> Phases] /\ seen \in [Pids -> Pids \cup {Blank}]
  /\ halt \in Halts /\ target \in Pids \cup {Blank}
  /\ halt \in {"killing", "waiting"} => target \in Pids
  /\ mingled \in BOOLEAN

(* What a command that is alone knows of the file and of the others.            *)
ReadIsTrue == /\ \A p \in Pids : life[p] = "testing" => seen[p] = PidRead
              /\ halt = "testing" => target = PidRead
WriteIsRight == \A p, q \in Pids : life[p] \in {"writing", "truncated"} => life[q] \notin Running
BlankWaits == \A p \in Pids : life[p] = "truncated" => pidFile = Blank

Clean == Alone /\ OneDaemon /\ FileNames /\ StopIsRight /\ ReadIsTrue /\ WriteIsRight /\ BlankWaits
DInv  == ~mingled => Clean

LEMMA DaemonInit == DaemonIdle => DTypeOK /\ DInv
BY DEF DaemonIdle, DTypeOK, DInv, Clean, Phases, Halts, Entering, Running, Alone, BusyRun, BusyStop,
       OneDaemon, FileNames, ReadIsTrue, WriteIsRight, BlankWaits, StopIsRight

LEMMA DaemonTypes == ASSUME DTypeOK, [DaemonNext]_daemonVars PROVE DTypeOK'
<1> USE DEF DTypeOK, Phases, Halts, Entering, Running, Becomes, Starting, Halting, Watch
<1>1. CASE UNCHANGED daemonVars
  BY <1>1 DEF daemonVars
<1>2. ASSUME NEW p \in Pids,
             Launch(p) \/ ReadForRun(p) \/ Refuse(p) \/ PassTest(p) \/ OpenPidFile(p)
             \/ WritePid(p) \/ SetHandlers(p)
      PROVE  DTypeOK'
  BY <1>2 DEF Launch, ReadForRun, Refuse, PassTest, OpenPidFile, WritePid, SetHandlers, PidRead
<1>3. ASSUME NEW p \in Pids,
             Bind(p) \/ Drain(p) \/ FinishRun(p) \/ Die(p) \/ GivenAway(p)
      PROVE  DTypeOK'
  BY <1>3 DEF Bind, Drain, FinishRun, Die, GivenAway, Unlink
<1>4. ASSUME NEW p \in Pids, Signal(p) PROVE DTypeOK'
  BY <1>4 DEF Signal, Gets, MayLive, Process, Unlink
<1>5. CASE ReadForStop \/ FindDead \/ ClearStale \/ FindAlive \/ StopLooking
  BY <1>5 DEF ReadForStop, FindDead, ClearStale, FindAlive, StopLooking, PidRead, MayLive, Process,
              Unlink
<1>6. CASE Kill
  BY <1>6 DEF Kill, Gets, Unlink
<1> QED BY <1>1, <1>2, <1>3, <1>4, <1>5, <1>6 DEF DaemonNext

(* Leaves of the steps below: the invariant opened, and how a step is watched.      *)
LEMMA DaemonSteps ==
  ASSUME DTypeOK, DInv, [DaemonNext]_daemonVars
  PROVE  DInv'
<1> SUFFICES ASSUME ~mingled'
             PROVE  Clean'
  BY DEF DInv
<1> USE DaemonConstants DEF DTypeOK, Phases, Halts, Entering, Running
<1>1. CASE UNCHANGED daemonVars
  BY <1>1 DEF daemonVars, DInv, Clean, Alone, BusyRun, BusyStop, OneDaemon, FileNames, StopIsRight,
              ReadIsTrue, WriteIsRight, BlankWaits, PidRead
<1>2. CASE DaemonNext
  <2>1. Alone' /\ ~mingled
    BY <1>2 DEF DaemonNext, Launch, ReadForRun, Refuse, PassTest, OpenPidFile, WritePid,
                SetHandlers, Bind, Drain, FinishRun, Signal, Die, GivenAway, ReadForStop,
                FindDead, ClearStale, FindAlive, Kill, StopLooking, Starting, Halting, Watch
  <2>2. Clean
    BY <2>1 DEF DInv
  <2> USE <2>1, <2>2 DEF Clean, Alone, BusyRun, BusyStop, OneDaemon, FileNames, StopIsRight,
              ReadIsTrue, WriteIsRight, BlankWaits, PidRead, Becomes, Starting, Halting
  <2>3. ASSUME NEW p \in Pids, Launch(p) \/ ReadForRun(p) \/ Refuse(p)
        PROVE  Clean'
    BY <2>3 DEF Launch, ReadForRun, Refuse
  <2>4. ASSUME NEW p \in Pids, PassTest(p)
        PROVE  Clean'
    BY <2>4 DEF PassTest, MayBeDead, Process
  <2>5. ASSUME NEW p \in Pids, OpenPidFile(p) \/ WritePid(p)
        PROVE  Clean'
    BY <2>5 DEF OpenPidFile, WritePid, Absent, Blank
  <2>6. ASSUME NEW p \in Pids, SetHandlers(p) \/ Bind(p) \/ Drain(p)
        PROVE  Clean'
    BY <2>6 DEF SetHandlers, Bind, Drain
  <2>7. ASSUME NEW p \in Pids, FinishRun(p) \/ Die(p) \/ GivenAway(p)
        PROVE  Clean'
    BY <2>7 DEF FinishRun, Die, GivenAway, Unlink
  <2>8. ASSUME NEW p \in Pids, life[p] # "free", Gets(p), UNCHANGED <<seen, target>>, halt' = halt \/ halt' = "waiting"
        PROVE  Clean'
    <3>1. CASE life[p] \in Entering \cup {"importing", "stranger"}
      <4>1. life' = [life EXCEPT ![p] = "free"] /\ UNCHANGED pidFile
        BY <2>8, <3>1 DEF Gets
      <4> QED BY <2>8, <3>1, <4>1
    <3>2. CASE life[p] \in {"ready", "leaving"}
      <4>1. life' = [life EXCEPT ![p] = "leaving"] /\ pidFile' = Absent
        BY <2>8, <3>2 DEF Gets, Unlink
      <4> QED BY <2>8, <3>2, <4>1
    <3>3. CASE life[p] = "serving"
      <4>1. life' = [life EXCEPT ![p] = "draining"] /\ UNCHANGED pidFile
        BY <2>8, <3>3 DEF Gets
      <4> QED BY <2>8, <3>3, <4>1
    <3>4. CASE life[p] = "draining"
      <4>1. UNCHANGED <<life, pidFile>>
        BY <2>8, <3>4 DEF Gets
      <4> QED BY <2>8, <3>4, <4>1
    <3> QED BY <2>8, <3>1, <3>2, <3>3, <3>4
  <2>9. CASE ReadForStop \/ FindAlive \/ StopLooking \/ ClearStale
    BY <2>9 DEF ReadForStop, FindAlive, StopLooking, ClearStale, Unlink
  <2>10. CASE FindDead
    BY <2>10 DEF FindDead, MayBeDead, Process
  <2>11. CASE Kill
    <3>1. CASE life[target] = "free"
      BY <2>11, <3>1 DEF Kill
    <3>2. CASE life[target] # "free"
      BY <2>8, <2>11, <3>2 DEF Kill
    <3> QED BY <3>1, <3>2
  <2>12. ASSUME NEW p \in Pids, Signal(p) PROVE Clean'
    BY <2>8, <2>12 DEF Signal, MayLive, Process
  <2> HIDE DEF Clean
  <2> QED BY <1>2, <2>3, <2>4, <2>5, <2>6, <2>7, <2>9, <2>10, <2>11, <2>12 DEF DaemonNext
<1> QED BY <1>1, <1>2

LEMMA DaemonShows == DTypeOK /\ DInv => DaemonSound
BY DEF DInv, Clean, DaemonSound

-----------------------------------------------------------------------------
(* The configuration (core/config.py, server/api/credentials.py).                      *)

HandlerSteps == {"none", "merge", "write", "token", "name", "url", "memory", "forget"}
Settled      == handler.at \in {"none", "merge", "write", "token"}
Granting     == handler.at \in {"token", "name", "url", "memory"}

SettingsTypes ==
  /\ params = [k \in Params |-> params[k]]
  /\ handler = [at |-> handler.at, holds |-> handler.holds] /\ handler.at \in HandlerSteps
  /\ conf = [token |-> conf.token, name |-> conf.name, url |-> conf.url]
  /\ Granting => handler.holds = [token |-> handler.holds.token, name |-> handler.holds.name,
                                  url |-> handler.holds.url]
  /\ {unwritten, torn, halved} \subseteq BOOLEAN
  /\ unsaved \subseteq Params

(* What a dictionary says of the parameters is what the process has.        *)
Agrees(dict) == \A k \in Params \ unsaved : Lookup(dict, k, Defaults[k]) = params[k]

ParamsInv ==
  /\ handler.at \notin {"merge", "write"} /\ ~unwritten => Agrees(jsonFile)
  /\ handler.at = "write" => Agrees(handler.holds)

(* A dictionary keeps what the owner wrote by hand.                         *)
NoMoreUrls(dict) == ~Has(byHand, "backend_url") => ~Has(dict, "backend_url")
HandFits(dict) ==
  /\ Has(byHand, "backend_url")
       => Has(dict, "backend_url") /\ dict["backend_url"] = byHand["backend_url"]
  /\ Has(byHand, "run_mode") => Has(dict, "run_mode")
  /\ Has(dict, "run_mode") => dict["run_mode"] = Lookup(byHand, "run_mode", "local")

HandInv ==
  /\ NoMoreUrls(jsonFile) /\ (handler.at = "write" => NoMoreUrls(handler.holds))
  /\ ~torn => /\ HandFits(jsonFile) /\ (handler.at = "write" => HandFits(handler.holds))
              /\ params["run_mode"] = Lookup(byHand, "run_mode", "local")

(* The rows of one answer of the platform, and the credentials the process has. *)
Whole(table) == /\ DOMAIN table = {"token", "name", "url"}
                /\ table["url"] = table["token"] /\ table["name"] \in {"", table["token"]}
Loaded == /\ conf.token = rows["token"]
          /\ rows["name"] # "" => conf.name = rows["name"]
          /\ ~Has(byHand, "backend_url") => conf.url = rows["url"]

CredentialsInv ==
  /\ DOMAIN rows \subseteq {"token", "name", "url"}
  /\ Settled /\ ~halved /\ Has(rows, "token") => Whole(rows) /\ Loaded
  /\ ~Has(rows, "token") /\ handler.at # "forget" => conf.token \in {"", environ.token}
  /\ handler.at = "forget" => ~Has(rows, "token")
  /\ Granting => Whole(handler.holds)
  /\ handler.at \in {"name", "url", "memory"}
       => Has(rows, "token") /\ rows["token"] = handler.holds["token"]
  /\ handler.at \in {"url", "memory"}
       => Has(rows, "name") /\ rows["name"] = handler.holds["name"]
  /\ handler.at = "memory" => Has(rows, "url") /\ rows["url"] = handler.holds["url"]

ConfigInv == SettingsTypes /\ ParamsInv /\ HandInv /\ CredentialsInv

(* A dictionary over another one.                                           *)
LEMMA UpdatedHas ==
  ASSUME NEW dict, NEW by
  PROVE  /\ DOMAIN Updated(dict, by) = DOMAIN dict \cup DOMAIN by
         /\ \A k : Has(Updated(dict, by), k) <=> Has(dict, k) \/ Has(by, k)
         /\ \A k : Has(by, k) => Updated(dict, by)[k] = by[k]
         /\ \A k : Has(dict, k) /\ ~Has(by, k) => Updated(dict, by)[k] = dict[k]
BY DEF Updated, Has

LEMMA ConfigTypesStep ==
  ASSUME SettingsTypes, SettingsNext PROVE SettingsTypes'
<1>1. CASE Boot
  BY <1>1 DEF SettingsTypes, Granting, Boot, LoadedParams, LoadedConf, FromRows, Waiting, HandlerSteps
<1>2. CASE Merge
  BY <1>2 DEF SettingsTypes, Granting, Merge, KeepAccess, HandlerSteps
<1>3. CASE WriteConfig
  BY <1>3 DEF SettingsTypes, Granting, WriteConfig, KeepAccess, HandlerSteps, Waiting
<1>4. CASE WriteRefused
  BY <1>4 DEF SettingsTypes, Granting, WriteRefused, KeepAccess, HandlerSteps, Waiting
<1>5. CASE HotLoad
  <2>1. PICK h : h = handler.holds /\ h = [token |-> h.token, name |-> h.name, url |-> h.url]
    BY <1>5 DEF SettingsTypes, Granting, HotLoad
  <2>2. PICK n : conf' = [h EXCEPT !.name = n]
    BY <1>5, <2>1 DEF HotLoad
  <2>3. conf' = [token |-> conf'.token, name |-> conf'.name, url |-> conf'.url]
    BY <2>1, <2>2
  <2> QED BY <1>5, <2>3 DEF SettingsTypes, Granting, HotLoad, KeepConfig, HandlerSteps, Waiting
<1>6. CASE ClearRows
  BY <1>6 DEF SettingsTypes, Granting, ClearRows, KeepConfig, HandlerSteps, HandlerAt
<1>7. CASE Forget
  BY <1>7 DEF SettingsTypes, Granting, Forget, KeepConfig, HandlerSteps, Waiting
<1>8. ASSUME NEW k \in WebKeys, PutParam(k, "owner's") PROVE SettingsTypes'
  BY <1>8 DEF SettingsTypes, Granting, PutParam, KeepAccess, HandlerSteps, HandlerAt
<1>9. ASSUME NEW k \in LinkKeys, HotUpdateParam(k, "platform's") PROVE SettingsTypes'
  BY <1>9 DEF SettingsTypes, Granting, HotUpdateParam, KeepAccess, HandlerSteps, LinkKeys, Params
<1>10. ASSUME NEW m \in Modes, SwitchMode(m) PROVE SettingsTypes'
  BY <1>10 DEF SettingsTypes, Granting, SwitchMode, KeepAccess
<1>11. ASSUME NEW t \in Grants, Validated(t) PROVE SettingsTypes'
  <2>1. PICK n, h : /\ h = [token |-> t, name |-> n, url |-> t]
                    /\ handler' = [at |-> "token", holds |-> h]
    BY <1>11 DEF Validated
  <2>2. h = [token |-> h.token, name |-> h.name, url |-> h.url]
    BY <2>1
  <2> HIDE DEF Nobody
  <2> QED BY <1>11, <2>1, <2>2 DEF SettingsTypes, Granting, Validated, KeepConfig, HandlerSteps
<1>12. ASSUME NEW k \in DOMAIN NextRow, SetRow(k) PROVE SettingsTypes'
  <2>1. NextRow[k] \in HandlerSteps /\ k \in {"token", "name", "url"}
    BY DEF NextRow, HandlerSteps
  <2> QED BY <1>12, <2>1 DEF SettingsTypes, Granting, SetRow, KeepConfig, HandlerAt
<1>13. ASSUME NEW k \in DOMAIN NextRow, RowRefused(k) PROVE SettingsTypes'
  BY <1>13 DEF SettingsTypes, Granting, RowRefused, KeepConfig, HandlerSteps, Waiting
<1> QED BY <1>1, <1>2, <1>3, <1>4, <1>5, <1>6, <1>7, <1>8, <1>9, <1>10, <1>11, <1>12, <1>13
        DEF SettingsNext

LEMMA LoadedAgrees ==
  ASSUME NEW dict PROVE LoadedParams(dict) = [k \in Params |-> Lookup(dict, k, Defaults[k])]
BY DEF LoadedParams

LEMMA ConfigParamsStep ==
  ASSUME SettingsTypes, ParamsInv, SettingsNext PROVE ParamsInv'
<1>1. CASE Boot
  BY <1>1, LoadedAgrees DEF ParamsInv, Agrees, Boot, Waiting
<1>2. CASE Merge
  <2>1. handler'.at = "write" /\ handler'.holds = Updated(jsonFile, params) /\ params' = params
    BY <1>2 DEF Merge
  <2>2. \A k \in Params : Lookup(handler'.holds, k, Defaults[k]) = params'[k]
    <3>1. ASSUME NEW k \in Params PROVE Has(params, k)
      BY DEF SettingsTypes, Has
    <3>2. ASSUME NEW k \in Params
          PROVE  Has(Updated(jsonFile, params), k) /\ Updated(jsonFile, params)[k] = params[k]
      <4> HIDE DEF Has
      <4>1. /\ \A j : Has(Updated(jsonFile, params), j) <=> Has(jsonFile, j) \/ Has(params, j)
            /\ \A j : Has(params, j) => Updated(jsonFile, params)[j] = params[j]
        BY UpdatedHas, Zenon
      <4> QED BY <3>1, <4>1
    <3> QED BY <2>1, <3>2 DEF Lookup
  <2> QED BY <2>1, <2>2 DEF ParamsInv, Agrees
<1>3. CASE WriteConfig
  BY <1>3 DEF ParamsInv, Agrees, WriteConfig, Waiting
<1>4. CASE WriteRefused
  BY <1>4 DEF ParamsInv, Agrees, WriteRefused, Waiting
<1>5. CASE HotLoad
  BY <1>5 DEF ParamsInv, Agrees, HotLoad, KeepConfig, Waiting
<1>6. CASE ClearRows
  BY <1>6 DEF ParamsInv, Agrees, SettingsTypes, ClearRows, KeepConfig, HandlerAt, AtRest
<1>7. CASE Forget
  BY <1>7 DEF ParamsInv, Agrees, Forget, KeepConfig, Waiting
<1>8. ASSUME NEW k \in WebKeys, PutParam(k, "owner's") PROVE ParamsInv'
  BY <1>8 DEF ParamsInv, SettingsTypes, PutParam, HandlerAt
<1>9. ASSUME NEW k \in LinkKeys, HotUpdateParam(k, "platform's") PROVE ParamsInv'
  BY <1>9 DEF ParamsInv, Agrees, SettingsTypes, HotUpdateParam
<1>10. ASSUME NEW m \in Modes, SwitchMode(m) PROVE ParamsInv'
  BY <1>10 DEF ParamsInv, Agrees, SwitchMode
<1>11. ASSUME NEW t \in Grants, Validated(t) PROVE ParamsInv'
  <2>1. handler'.at = "token" /\ handler.at = "none"
    <3>1. PICK h : handler' = [at |-> "token", holds |-> h]
      BY <1>11 DEF Validated
    <3> QED BY <1>11, <3>1 DEF Validated, AtRest
  <2> QED BY <1>11, <2>1 DEF ParamsInv, Agrees, Validated, KeepConfig
<1>12. ASSUME NEW k \in DOMAIN NextRow, SetRow(k) PROVE ParamsInv'
  <2>1. NextRow[k] \notin {"merge", "write"} /\ k \notin {"merge", "write"}
    BY DEF NextRow
  <2> QED BY <1>12, <2>1 DEF ParamsInv, Agrees, SettingsTypes, SetRow, KeepConfig, HandlerAt
<1>13. ASSUME NEW k \in DOMAIN NextRow, RowRefused(k) PROVE ParamsInv'
  <2>1. k \notin {"merge", "write"}
    BY DEF NextRow
  <2> QED BY <1>13, <2>1 DEF ParamsInv, Agrees, RowRefused, KeepConfig, Waiting
<1> QED BY <1>1, <1>2, <1>3, <1>4, <1>5, <1>6, <1>7, <1>8, <1>9, <1>10, <1>11, <1>12, <1>13
        DEF SettingsNext
LEMMA ConfigHandStep ==
  ASSUME SettingsTypes, HandInv, SettingsNext PROVE HandInv'
<1>1. CASE Boot
  <2>1. byHand' = byHand /\ handler' = Waiting /\ handler'.at # "write"
        /\ params'["run_mode"] = Lookup(jsonFile', "run_mode", "local")
    BY <1>1 DEF Boot, LoadedParams, Params, Defaults, Waiting
  <2>2. CASE jsonFile' = jsonFile /\ torn' = torn
    BY <2>1, <2>2 DEF HandInv, HandFits, NoMoreUrls, Lookup
  <2>3. CASE jsonFile' = Nobody /\ torn'
    BY <2>1, <2>3 DEF HandInv, NoMoreUrls, Has, Nobody
  <2> QED BY <1>1, <2>2, <2>3 DEF Boot
<1>2. CASE Merge
  <2>1. /\ handler'.at = "write" /\ handler'.holds = Updated(jsonFile, params)
        /\ UNCHANGED <<params, jsonFile, torn, byHand>>
    BY <1>2 DEF Merge, KeepAccess
  <2>2. /\ \A k : Has(handler'.holds, k) <=> Has(jsonFile, k) \/ Has(params, k)
        /\ \A k : Has(params, k) => handler'.holds[k] = params[k]
        /\ \A k : Has(jsonFile, k) /\ ~Has(params, k) => handler'.holds[k] = jsonFile[k]
    <3>1. /\ \A k : Has(Updated(jsonFile, params), k) <=> Has(jsonFile, k) \/ Has(params, k)
          /\ \A k : Has(params, k) => Updated(jsonFile, params)[k] = params[k]
          /\ \A k : Has(jsonFile, k) /\ ~Has(params, k)
                 => Updated(jsonFile, params)[k] = jsonFile[k]
      BY UpdatedHas, Zenon
    <3> QED BY <2>1, <3>1
  <2>3. Has(params, "run_mode") /\ ~Has(params, "backend_url")
    BY DEF SettingsTypes, Has, Params
  <2>4. NoMoreUrls(handler'.holds) /\ (~torn => HandFits(handler'.holds))
    BY <2>2, <2>3 DEF HandInv, HandFits, NoMoreUrls
  <2> QED BY <2>1, <2>4 DEF HandInv, HandFits, NoMoreUrls
<1>3. CASE WriteConfig
  BY <1>3 DEF HandInv, HandFits, NoMoreUrls, WriteConfig, KeepAccess, Waiting
<1>4. CASE WriteRefused
  BY <1>4 DEF HandInv, HandFits, NoMoreUrls, WriteRefused, KeepAccess, Waiting, Has, Nobody
<1>5. ASSUME UNCHANGED <<params, jsonFile, torn, byHand>>, handler'.at # "write" PROVE HandInv'
  BY <1>5 DEF HandInv, HandFits, NoMoreUrls
<1>6. CASE HotLoad \/ Forget
  <2>1. handler' = Waiting
    BY <1>6 DEF HotLoad, Forget
  <2>2. handler'.at # "write"
    BY <2>1 DEF Waiting
  <2> QED BY <1>5, <1>6, <2>2 DEF HotLoad, Forget, KeepConfig
<1>7. CASE ClearRows
  BY <1>5, <1>7 DEF ClearRows, KeepConfig, HandlerAt, SettingsTypes
<1>8. ASSUME NEW k \in WebKeys, PutParam(k, "owner's") PROVE HandInv'
  BY <1>8 DEF HandInv, HandFits, NoMoreUrls, SettingsTypes, PutParam, KeepAccess, HandlerAt,
              WebKeys
<1>9. ASSUME NEW k \in LinkKeys, HotUpdateParam(k, "platform's") PROVE HandInv'
  BY <1>9 DEF HandInv, HandFits, NoMoreUrls, SettingsTypes, HotUpdateParam, KeepAccess, LinkKeys
<1>10. ASSUME NEW m \in Modes, SwitchMode(m) PROVE HandInv'
  BY <1>10 DEF HandInv, HandFits, NoMoreUrls, SwitchMode, KeepAccess
<1>11. ASSUME NEW t \in Grants, Validated(t) PROVE HandInv'
  <2>1. PICK h : handler' = [at |-> "token", holds |-> h]
    BY <1>11 DEF Validated
  <2> QED BY <1>5, <1>11, <2>1 DEF Validated, KeepConfig
<1>12. ASSUME NEW k \in DOMAIN NextRow, SetRow(k) PROVE HandInv'
  <2>1. NextRow[k] # "write"
    BY DEF NextRow
  <2> QED BY <1>5, <1>12, <2>1 DEF SettingsTypes, SetRow, KeepConfig, HandlerAt
<1>13. ASSUME NEW k \in DOMAIN NextRow, RowRefused(k) PROVE HandInv'
  BY <1>5, <1>13 DEF RowRefused, KeepConfig, Waiting
<1> QED BY <1>1, <1>2, <1>3, <1>4, <1>6, <1>7, <1>8, <1>9, <1>10, <1>11, <1>12, <1>13
        DEF SettingsNext
(* What a start gets from rows that are there, and from none.               *)
LEMMA LoadedFromRows ==
  ASSUME NEW table, NEW dict, NEW e
  PROVE  /\ Has(table, "token") => LoadedConf(table, dict, e).token = table["token"]
         /\ ~Has(table, "token") => LoadedConf(table, dict, e).token = e.token
         /\ Has(table, "token") /\ Has(table, "name")
              => LoadedConf(table, dict, e).name = table["name"]
         /\ Has(table, "token") /\ Has(table, "url") /\ ~Has(dict, "backend_url")
              => LoadedConf(table, dict, e).url = table["url"]
<1>1. PICK c, u, n : c = FromRows(table, e) /\ u = Lookup(dict, "backend_url", c.url)
                     /\ n = [c EXCEPT !.url = u] /\ LoadedConf(table, dict, e) = n
  BY DEF LoadedConf
<1>2. CASE Has(table, "token")
  <2>1. c = [token |-> table["token"], name |-> Lookup(table, "name", "env"),
             url |-> Lookup(table, "url", "env")]
    BY <1>1, <1>2 DEF FromRows
  <2>2. n.token = c.token /\ n.name = c.name /\ n.url = u
    BY <1>1, <2>1
  <2> QED BY <1>1, <1>2, <2>1, <2>2 DEF Lookup
<1>3. CASE ~Has(table, "token")
  <2>1. c = [token |-> e.token, name |-> "env", url |-> "env"]
    BY <1>1, <1>3 DEF FromRows
  <2>2. n.token = c.token
    BY <1>1, <2>1
  <2> QED BY <1>1, <1>3, <2>1, <2>2
<1> QED BY <1>2, <1>3

(* Nothing the credentials depend on has moved.                             *)
LEMMA CredentialsRest ==
  ASSUME CredentialsInv, UNCHANGED <<rows, conf, environ, byHand, halved>>,
         \/ handler' = handler
         \/ Settled /\ handler'.at \in {"none", "merge", "write"}
  PROVE  CredentialsInv'
BY DEF CredentialsInv, Settled, Granting, Whole, Loaded

LEMMA ConfigCredentialsStep ==
  ASSUME SettingsTypes, HandInv, HandInv', CredentialsInv, SettingsNext PROVE CredentialsInv'
<1> USE DEF Settled, Granting
<1>1. CASE Boot
  <2>1. /\ UNCHANGED <<rows, byHand>> /\ handler'.at = "none"
        /\ conf' = LoadedConf(rows, jsonFile', environ')
        /\ halved' = (halved \/ handler.at \in {"name", "url"})
    BY <1>1 DEF Boot, Waiting
  <2>2. CASE ~Has(rows, "token")
    <3>1. conf'.token = environ'.token
      BY <2>1, <2>2, LoadedFromRows
    <3> QED BY <2>1, <2>2, <3>1 DEF CredentialsInv
  <2>3. CASE Has(rows, "token")
    <3>1. ~halved' => Whole(rows)
      <4>1. CASE Settled
        BY <2>1, <2>3, <4>1 DEF CredentialsInv
      <4>2. CASE handler.at = "memory"
        <5>1. /\ rows["token"] = handler.holds["token"] /\ rows["name"] = handler.holds["name"]
              /\ rows["url"] = handler.holds["url"] /\ Whole(handler.holds)
              /\ DOMAIN rows = {"token", "name", "url"}
          BY <2>3, <4>2 DEF CredentialsInv, Has
        <5> QED BY <5>1 DEF Whole
      <4> QED BY <2>1, <2>3, <4>1, <4>2 DEF CredentialsInv, SettingsTypes, HandlerSteps
    <3>2. ~halved' => Loaded'
      <4>1. ~Has(byHand, "backend_url") => ~Has(jsonFile', "backend_url")
        BY <2>1 DEF HandInv, NoMoreUrls
      <4>2. ~halved' => Has(rows, "name") /\ Has(rows, "url")
        BY <3>1 DEF Whole, Has
      <4>3. /\ conf'.token = rows["token"]
            /\ Has(rows, "name") => conf'.name = rows["name"]
            /\ Has(rows, "url") /\ ~Has(jsonFile', "backend_url") => conf'.url = rows["url"]
        BY <2>1, <2>3, LoadedFromRows
      <4> QED BY <2>1, <2>3, <4>1, <4>2, <4>3 DEF Loaded
    <3> QED BY <2>1, <2>3, <3>1, <3>2 DEF CredentialsInv, Whole
  <2> QED BY <2>2, <2>3
<1>2. CASE Merge
  BY <1>2, CredentialsRest DEF Merge, KeepAccess
<1>3. CASE WriteConfig
  BY <1>3, CredentialsRest DEF WriteConfig, KeepAccess, Waiting
<1>4. CASE WriteRefused
  BY <1>4, CredentialsRest DEF WriteRefused, KeepAccess, Waiting
<1>5. CASE HotLoad
  <2>1. PICK h, n : /\ h = handler.holds /\ n = (IF h.name = "" THEN conf.name ELSE h.name)
                    /\ conf' = [h EXCEPT !.name = n] /\ Whole(h)
                    /\ h = [token |-> h.token, name |-> h.name, url |-> h.url]
    BY <1>5 DEF HotLoad, CredentialsInv, SettingsTypes
  <2>2. conf'.token = h.token /\ conf'.name = n /\ conf'.url = h.url
    BY <2>1
  <2>3. /\ handler.at = "memory" /\ handler'.at = "none" /\ UNCHANGED <<rows, environ, byHand>>
    <3>1. handler' = Waiting
      BY <1>5 DEF HotLoad
    <3>2. handler.at = "memory" /\ UNCHANGED <<rows, environ, byHand>>
      BY <1>5 DEF HotLoad, KeepConfig
    <3> QED BY <3>1, <3>2 DEF Waiting
  <2>4. /\ rows["token"] = h["token"] /\ rows["name"] = h["name"] /\ rows["url"] = h["url"]
        /\ DOMAIN rows = {"token", "name", "url"} /\ Has(rows, "token")
    BY <2>1, <2>3 DEF CredentialsInv, Has
  <2>5. Whole(rows)' /\ Loaded'
    BY <2>1, <2>2, <2>3, <2>4 DEF Whole, Loaded
  <2> QED BY <2>3, <2>4, <2>5 DEF CredentialsInv, Has
<1>6. CASE ClearRows
  <2>1. /\ handler'.at = "forget" /\ rows' = Nobody
    BY <1>6 DEF ClearRows, HandlerAt, SettingsTypes
  <2>2. DOMAIN rows' = {} /\ ~Has(rows', "token")
    BY <2>1 DEF Nobody, Has
  <2> QED BY <2>1, <2>2 DEF CredentialsInv
<1>7. CASE Forget
  <2>1. /\ handler.at = "forget" /\ handler'.at = "none" /\ UNCHANGED <<rows, environ>>
        /\ conf'.token = ""
    BY <1>7 DEF Forget, KeepConfig, Waiting, SettingsTypes
  <2> QED BY <2>1 DEF CredentialsInv, Has
<1>8. ASSUME NEW k \in WebKeys, PutParam(k, "owner's") PROVE CredentialsInv'
  BY <1>8, CredentialsRest DEF PutParam, KeepAccess, HandlerAt, AtRest, SettingsTypes
<1>9. ASSUME NEW k \in LinkKeys, HotUpdateParam(k, "platform's") PROVE CredentialsInv'
  BY <1>9, CredentialsRest DEF HotUpdateParam, KeepAccess
<1>10. ASSUME NEW m \in Modes, SwitchMode(m) PROVE CredentialsInv'
  BY <1>10, CredentialsRest DEF SwitchMode, KeepAccess
<1>11. ASSUME NEW t \in Grants, Validated(t) PROVE CredentialsInv'
  <2>1. PICK n, h : /\ n \in {"", t} /\ h = [token |-> t, name |-> n, url |-> t]
                                /\ handler' = [at |-> "token", holds |-> h]
    BY <1>11 DEF Validated
  <2>2. Whole(h) /\ handler'.at = "token" /\ handler'.holds = h
    BY <2>1 DEF Whole
  <2>3. handler.at = "none" /\ UNCHANGED <<rows, conf, environ, byHand, halved>>
    BY <1>11 DEF Validated, AtRest, KeepConfig
  <2>4. Whole(handler'.holds)
    BY <2>2
  <2> QED BY <2>2, <2>3, <2>4 DEF CredentialsInv, Whole, Loaded
<1>12. ASSUME NEW k \in DOMAIN NextRow, SetRow(k) PROVE CredentialsInv'
  <2>1. k \in {"token", "name", "url"} /\ handler.at = k /\ handler'.at = NextRow[k]
        /\ handler'.holds = handler.holds /\ UNCHANGED <<conf, environ, byHand, halved>>
        /\ rows' = Updated(rows, [j \in {k} |-> handler.holds[k]])
    BY <1>12 DEF SetRow, HandlerAt, SettingsTypes, KeepConfig, NextRow
  <2>2. /\ NextRow["token"] = "name" /\ NextRow["name"] = "url" /\ NextRow["url"] = "memory"
    BY DEF NextRow
  <2>3. /\ DOMAIN rows' = DOMAIN rows \cup {k} /\ rows'[k] = handler.holds[k]
        /\ \A j \in DOMAIN rows \ {k} : rows'[j] = rows[j]
    BY <2>1 DEF Updated, Has
  <2>4. Whole(handler'.holds)
    BY <2>1 DEF CredentialsInv, Whole
  <2> QED BY <2>1, <2>2, <2>3, <2>4 DEF CredentialsInv, Has
<1>13. ASSUME NEW k \in DOMAIN NextRow, RowRefused(k) PROVE CredentialsInv'
  <2>1. k \in {"token", "name", "url"} /\ handler.at = k /\ handler'.at = "none"
        /\ halved' = (halved \/ k # "token") /\ UNCHANGED <<rows, conf, environ, byHand>>
    BY <1>13 DEF RowRefused, KeepConfig, NextRow, Waiting
  <2> QED BY <2>1 DEF CredentialsInv, Whole, Loaded
<1> QED BY <1>1, <1>2, <1>3, <1>4, <1>5, <1>6, <1>7, <1>8, <1>9, <1>10, <1>11, <1>12, <1>13
        DEF SettingsNext

LEMMA ConfigStarts == SettingsFirst => ConfigInv
<1> SUFFICES ASSUME SettingsFirst PROVE ConfigInv
  OBVIOUS
<1>1. /\ params = LoadedParams(jsonFile) /\ byHand = jsonFile /\ rows = Nobody
      /\ conf = LoadedConf(rows, jsonFile, environ) /\ handler = Waiting
      /\ unsaved = {} /\ ~unwritten /\ ~torn /\ ~halved
      /\ {unwritten, torn, halved} \subseteq BOOLEAN
  BY DEF SettingsFirst
<1>2. handler.at = "none" /\ handler = [at |-> handler.at, holds |-> handler.holds]
      /\ ~Has(rows, "token") /\ DOMAIN rows = {}
  BY <1>1 DEF Waiting, Has, Nobody
<1>3. SettingsTypes
  BY <1>1, <1>2 DEF SettingsTypes, LoadedParams, LoadedConf, FromRows, HandlerSteps, Granting
<1>4. ParamsInv
  BY <1>1, <1>2, LoadedAgrees DEF ParamsInv, Agrees
<1>5. params["run_mode"] = Lookup(jsonFile, "run_mode", "local")
  BY <1>1 DEF LoadedParams, Params, Defaults
<1>6. HandInv
  BY <1>1, <1>2, <1>5 DEF HandInv, HandFits, NoMoreUrls, Lookup
<1>7. CredentialsInv
  <2>1. conf.token = environ.token
    BY <1>1, <1>2, LoadedFromRows
  <2> QED BY <1>1, <1>2, <2>1 DEF CredentialsInv, Settled, Granting
<1> QED BY <1>3, <1>4, <1>6, <1>7 DEF ConfigInv

LEMMA ConfigStep == ConfigInv /\ [SettingsNext]_settingsVars => ConfigInv'
<1>1. ASSUME ConfigInv, SettingsNext PROVE ConfigInv'
  BY <1>1, ConfigTypesStep, ConfigParamsStep, ConfigHandStep, ConfigCredentialsStep DEF ConfigInv
<1>2. ASSUME ConfigInv, UNCHANGED settingsVars PROVE ConfigInv'
  <2>1. SettingsTypes'
    BY <1>2 DEF ConfigInv, settingsVars, SettingsTypes, Granting
  <2>2. ParamsInv'
    BY <1>2 DEF ConfigInv, settingsVars, ParamsInv, Agrees
  <2>3. HandInv'
    BY <1>2 DEF ConfigInv, settingsVars, HandInv, NoMoreUrls, HandFits
  <2>4. CredentialsInv'
    BY <1>2, CredentialsRest DEF ConfigInv, settingsVars
  <2> QED BY <2>1, <2>2, <2>3, <2>4 DEF ConfigInv
<1> QED BY <1>1, <1>2

LEMMA ConfigShows == ConfigInv => ConfigKept
<1> SUFFICES ASSUME ConfigInv PROVE ConfigKept
  OBVIOUS
<1>1. ParamsKept
  BY DEF ConfigInv, ParamsInv, ParamsKept, AtRest, LoadedParams, Agrees
<1>2. HandKept
  BY DEF ConfigInv, HandInv, HandFits, HandKept, Lookup
<1>3. CredentialsKept
  <2> SUFFICES ASSUME AtRest, ~halved PROVE CredentialsKept
    BY DEF CredentialsKept
  <2>1. handler.at = "none" /\ Settled
    BY DEF AtRest, Settled
  <2>2. CASE ~Has(rows, "token")
    BY <2>1, <2>2 DEF ConfigInv, CredentialsInv, CredentialsKept
  <2>3. CASE Has(rows, "token")
    <3>1. Whole(rows) /\ Loaded
      BY <2>1, <2>3 DEF ConfigInv, CredentialsInv
    <3>2. Has(rows, "name") /\ Has(rows, "url")
      BY <3>1 DEF Whole, Has
    <3>3. ~Has(byHand, "backend_url") => ~Has(jsonFile, "backend_url")
      BY DEF ConfigInv, HandInv, NoMoreUrls
    <3>4. /\ LoadedConf(rows, jsonFile, environ).token = conf.token
          /\ rows["name"] # "" => LoadedConf(rows, jsonFile, environ).name = conf.name
          /\ ~Has(byHand, "backend_url") => LoadedConf(rows, jsonFile, environ).url = conf.url
      <4>1. /\ LoadedConf(rows, jsonFile, environ).token = rows["token"]
            /\ Has(rows, "name") => LoadedConf(rows, jsonFile, environ).name = rows["name"]
            /\ Has(rows, "url") /\ ~Has(jsonFile, "backend_url")
                 => LoadedConf(rows, jsonFile, environ).url = rows["url"]
        BY <2>3, LoadedFromRows
      <4> QED BY <3>1, <3>2, <3>3, <4>1 DEF Loaded
    <3> QED BY <2>3, <3>1, <3>4 DEF CredentialsKept, Whole
  <2> QED BY <2>2, <2>3
<1> QED BY <1>1, <1>2, <1>3 DEF ConfigKept

-----------------------------------------------------------------------------
(* Sessions and their forks (core/session_log.py, server/api/sessions.py).       *)

Entries == [user : BOOLEAN, tag : Nat]
Logs    == {l \in UNION {[S -> Entries] : S \in SUBSET Nat} :
              \E n \in Nat : \A m \in DOMAIN l : m < n}
Forks   == [at : {"idle", "seek", "read", "copy", "row"}, from : Sessions, to : Sessions,
            k : Nat, boundary : Nat, row : BOOLEAN, rest : Logs, next : Nat]
Origins == [k : Nat, users : Nat, read : Logs]

(* A log is a function of finitely many numbers.                               *)
LEMMA LogFacts ==
  ASSUME NEW l \in Logs
  PROVE  /\ Numbers(l) \subseteq Nat /\ l = [n \in Numbers(l) |-> l[n]]
         /\ \A n \in Numbers(l) : l[n] \in Entries
         /\ IsFiniteSet(Numbers(l))
         /\ \E n \in Nat : \A m \in Numbers(l) : m < n
<1>1. PICK S \in SUBSET Nat : l \in [S -> Entries]
  BY DEF Logs
<1>2. PICK n \in Nat : \A m \in DOMAIN l : m < n
  BY DEF Logs
<1>3. Numbers(l) \subseteq 0 .. n
  BY <1>1, <1>2 DEF Numbers
<1>4. IsFiniteSet(Numbers(l))
  <2>1. IsFiniteSet(0 .. n)
    BY FS_Interval
  <2> QED BY <1>3, <2>1, FS_Subset
<1> QED BY <1>1, <1>2, <1>4 DEF Numbers

LEMMA LogMade ==
  ASSUME NEW S \in SUBSET Nat, NEW l, l \in [S -> Entries],
         NEW n \in Nat, \A m \in S : m < n
  PROVE  l \in Logs
BY DEF Logs

LEMMA NothingLogged == NoEvents \in Logs /\ Numbers(NoEvents) = {}
<1>1. NoEvents \in [{} -> Entries] /\ Numbers(NoEvents) = {}
  BY DEF NoEvents, Numbers
<1>2. \A m \in {} : m < 0
  OBVIOUS
<1> QED BY <1>1, <1>2, LogMade

(* The number after the last is above all, and the first one or one above.       *)
LEMMA AfterLastIs ==
  ASSUME NEW l \in Logs
  PROVE  /\ AfterLast(l) \in Nat /\ \A m \in Numbers(l) : m < AfterLast(l)
         /\ AfterLast(l) = 0 \/ AfterLast(l) - 1 \in Numbers(l)
<1> DEFINE T == {n \in Nat : \A m \in Numbers(l) : m < n}
           C == {0} \cup {m + 1 : m \in Numbers(l)}
<1>1. Numbers(l) \subseteq Nat /\ T # {} /\ T \subseteq Nat
  BY LogFacts
<1>2. PICK x \in T : \A y \in T : x <= y
  BY <1>1, LeastNumber
<1>3. x = 0 \/ x - 1 \in Numbers(l)
  <2>1. ASSUME x # 0 PROVE x - 1 \in Numbers(l)
    <3>1. x - 1 \in Nat /\ x - 1 \notin T
      BY <1>1, <1>2, <2>1
    <3>2. PICK m \in Numbers(l) : ~(m < x - 1)
      BY <3>1
    <3> QED BY <1>1, <1>2, <3>2
  <2> QED BY <2>1
<1>4. x \in C /\ \A m \in Numbers(l) : m < x
  BY <1>1, <1>2, <1>3
<1> HIDE DEF C, T
<1>5. AfterLast(l) = CHOOSE n \in C : \A m \in Numbers(l) : m < n
  BY DEF AfterLast, C
<1>6. AfterLast(l) \in C /\ \A m \in Numbers(l) : m < AfterLast(l)
  BY <1>4, <1>5
<1> QED BY <1>1, <1>6 DEF C

(* One more event.                                                            *)
LEMMA PutIs ==
  ASSUME NEW l \in Logs, NEW n \in Nat, NEW e \in Entries
  PROVE  /\ Put(l, n, e) \in Logs /\ Numbers(Put(l, n, e)) = Numbers(l) \cup {n}
         /\ Put(l, n, e)[n] = e /\ \A m \in Numbers(l) \ {n} : Put(l, n, e)[m] = l[m]
<1>1. /\ Numbers(l) \subseteq Nat /\ \A m \in Numbers(l) : l[m] \in Entries
  BY LogFacts
<1>2. PICK b \in Nat : \A m \in Numbers(l) : m < b
  BY LogFacts
<1>3. PICK c \in Nat : b <= c /\ n < c
  <2>1. (b + n + 1) \in Nat /\ b <= b + n + 1 /\ n < b + n + 1
    OBVIOUS
  <2> QED BY <2>1
<1>4. \A m \in Numbers(l) \cup {n} : m < c
  BY <1>1, <1>2, <1>3
<1>5. Put(l, n, e) \in [Numbers(l) \cup {n} -> Entries]
  BY <1>1 DEF Put
<1>6. Put(l, n, e) \in Logs
  BY <1>1, <1>3, <1>4, <1>5, LogMade
<1> QED BY <1>5, <1>6 DEF Put, Numbers

(* Some of the events.                                                        *)
LEMMA SomeEvents ==
  ASSUME NEW l \in Logs, NEW S \in SUBSET Numbers(l)
  PROVE  /\ [m \in S |-> l[m]] \in Logs /\ Numbers([m \in S |-> l[m]]) = S
<1>1. /\ Numbers(l) \subseteq Nat /\ \A m \in Numbers(l) : l[m] \in Entries
  BY LogFacts
<1>2. PICK b \in Nat : \A m \in Numbers(l) : m < b
  BY LogFacts
<1>3. [m \in S |-> l[m]] \in [S -> Entries] /\ \A m \in S : m < b
  BY <1>1, <1>2
<1>4. [m \in S |-> l[m]] \in Logs
  BY <1>1, <1>2, <1>3, LogMade
<1> QED BY <1>4 DEF Numbers

---------------------------------------------------------------------------
(* Copies. *)

LEMMA CopyNothing == ASSUME NEW src PROVE Copies(NoEvents, src, {})
<1>1. NoEvents \in [Numbers(NoEvents) -> {}] /\ Numbers(NoEvents) = {}
  BY DEF NoEvents, Numbers
<1> QED BY <1>1 DEF Copies

(* One more event, the next of the source.                                     *)
LEMMA CopyOneMore ==
  ASSUME NEW log \in Logs, NEW src, NEW piece \in SUBSET Nat, Copies(log, src, piece),
         NEW f \in Nat, Numbers(log) = 0 .. f - 1, NEW n \in Nat, NEW e \in Entries, e = src[n],
         \A m \in piece : m < n
  PROVE  Copies(Put(log, f, e), src, piece \cup {n})
<1>1. PICK took \in [Numbers(log) -> piece] :
        /\ \A m \in piece : \E j \in Numbers(log) : took[j] = m
        /\ \A j \in Numbers(log) : /\ log[j] = src[took[j]]
                                  /\ \A l \in 0 .. j - 1 : l \in Numbers(log) /\ took[l] < took[j]
  BY DEF Copies
<1>2. PICK new : new = Put(log, f, e)
  OBVIOUS
<1>3. /\ Numbers(new) = 0 .. f /\ new[f] = e /\ \A j \in 0 .. f - 1 : new[j] = log[j]
  <2>1. /\ Numbers(new) = (0 .. f - 1) \cup {f} /\ new[f] = e
        /\ \A j \in (0 .. f - 1) \ {f} : new[j] = log[j]
    <3>1. /\ Numbers(Put(log, f, e)) = Numbers(log) \cup {f} /\ Put(log, f, e)[f] = e
          /\ \A m \in Numbers(log) \ {f} : Put(log, f, e)[m] = log[m]
      BY PutIs
    <3> QED BY <1>2, <3>1
  <2> QED BY <2>1
<1> DEFINE took2 == [j \in 0 .. f |-> IF j = f THEN n ELSE took[j]]
<1>4. took2 \in [0 .. f -> piece \cup {n}]
  BY <1>1
<1>5. \A j \in 0 .. f - 1 : took2[j] = took[j] /\ took[j] \in piece
  BY <1>1
<1>6. took2[f] = n
  OBVIOUS
<1> HIDE DEF took2
<1>7. ASSUME NEW m \in piece \cup {n} PROVE \E j \in 0 .. f : took2[j] = m
  <2>1. CASE m = n
    BY <1>6, <2>1
  <2>2. CASE m \in piece
    BY <1>1, <1>5, <2>2
  <2> QED BY <2>1, <2>2
<1>8. ASSUME NEW j \in 0 .. f
      PROVE  /\ new[j] = src[took2[j]]
             /\ \A l \in 0 .. j - 1 : l \in 0 .. f /\ took2[l] < took2[j]
  <2>1. CASE j = f
    <3>1. ASSUME NEW l \in 0 .. f - 1 PROVE l \in 0 .. f /\ took2[l] < n
      <4>1. took2[l] \in piece
        BY <1>5
      <4>2. \A m \in piece : m < n
        OBVIOUS
      <4>3. took2[l] < n
        BY <4>1, <4>2
      <4>4. l \in 0 .. f
        OBVIOUS
      <4> QED BY <4>3, <4>4
    <3> QED BY <1>3, <1>6, <2>1, <3>1
  <2>2. CASE j \in 0 .. f - 1
    <3>1. new[j] = log[j] /\ took2[j] = took[j] /\ log[j] = src[took[j]]
      BY <1>1, <1>3, <1>5, <2>2
    <3>2. ASSUME NEW l \in 0 .. j - 1 PROVE l \in 0 .. f /\ took2[l] < took2[j]
      <4>1. l \in 0 .. f - 1
        BY <2>2
      <4>2. took2[l] = took[l] /\ took[l] < took[j]
        BY <1>1, <1>5, <2>2, <4>1
      <4> QED BY <3>1, <4>1, <4>2
    <3> QED BY <3>1, <3>2
  <2> QED BY <2>1, <2>2
<1>9. Copies(new, src, piece \cup {n})
  <2>1. Numbers(new) = 0 .. f
    BY <1>3
  <2>2. /\ took2 \in [Numbers(new) -> piece \cup {n}]
        /\ \A m \in piece \cup {n} : \E j \in Numbers(new) : took2[j] = m
        /\ \A j \in Numbers(new) :
             /\ new[j] = src[took2[j]]
             /\ \A l \in 0 .. j - 1 : l \in Numbers(new) /\ took2[l] < took2[j]
    BY <1>4, <1>7, <1>8, <2>1
  <2> QED BY <2>2 DEF Copies
<1> QED BY <1>2, <1>3, <1>9

---------------------------------------------------------------------------
(* The invariant. *)

SessionTypes ==
  /\ listed \in [Sessions -> {"none", "live", "archived"}] /\ events \in [Sessions -> Logs]
  /\ next \in [Sessions -> Nat \cup {None}] /\ fresh \subseteq Sessions \ {Default}
  /\ into \subseteq Sessions \ fresh /\ fork \in Forks /\ origin \in [Sessions -> Origins]
  /\ logged \in Nat

(* Nobody knows an id that was not given yet.                                  *)
Untouched == \A i \in fresh : /\ next[i] = None /\ events[i] = NoEvents
                              /\ listed[i] = "none" /\ origin[i] = NoOrigin

(* The next number of a session is above all, or taken, which only a fork into     *)
(* the session brings about.                                                   *)
Clear(i) == \A n \in Numbers(events[i]) : n < NumberOf(i)
NumbersFree == \A i \in Sessions : /\ Clear(i) \/ NumberOf(i) \in Numbers(events[i])
                                   /\ i \notin into => Clear(i)

(* A fork with a row has its target for itself.                                  *)
ForkTarget ==
  fork.at # "idle" =>
    /\ fork.to \notin fresh
    /\ fork.to \notin into => next[fork.to] = None /\ fork.to # Default
    /\ fork.row => fork.to \notin into /\ listed[fork.to] = "none"
    /\ ~fork.row => origin[fork.to].k = 0

(* The boundary is what was asked for.                                          *)
Asked(i, src, b) == IF origin[i].users < origin[i].k THEN b = All
                    ELSE IsKth(Users(src), origin[i].k, b)

Copying ==
  LET src  == origin[fork.to].read
      copied == Below(src, fork.boundary) \ Numbers(fork.rest) IN
  /\ origin[fork.to].k > 0 /\ Asked(fork.to, src, fork.boundary)
  /\ Numbers(fork.rest) \subseteq Below(src, fork.boundary)
  /\ \A n \in Numbers(fork.rest) : fork.rest[n] = src[n]
  /\ \A m \in copied, n \in Numbers(fork.rest) : m < n
  /\ Copies(events[fork.to], src, copied) /\ Numbers(events[fork.to]) = 0 .. fork.next - 1

ForkState ==
  /\ fork.at = "seek" => /\ fork.row /\ fork.k > 0 /\ fork.boundary = All
                         /\ events[fork.to] = NoEvents /\ origin[fork.to] = NoOrigin
  /\ fork.at = "read" /\ fork.row => /\ origin[fork.to].k > 0 /\ events[fork.to] = NoEvents
                                     /\ origin[fork.to].read = NoEvents
                                     /\ Asked(fork.to, events[fork.from], fork.boundary)
  /\ fork.at = "copy" => \/ fork.next <= NumberOf(fork.to)
                         \/ NumberOf(fork.to) \in Numbers(events[fork.to])
  /\ fork.at = "copy" /\ fork.row => Copying
  /\ fork.at = "row" =>
       /\ fork.row
       /\ origin[fork.to].k > 0 =>
            /\ Asked(fork.to, origin[fork.to].read, fork.boundary)
            /\ Copies(events[fork.to], origin[fork.to].read,
                      Below(origin[fork.to].read, fork.boundary))

Faithful(i) ==
  LET log == events[i]
      src == origin[i].read IN
  origin[i].k > 0 =>
    /\ \E b \in Numbers(src) \cup {All} : Copies(log, src, Below(src, b))
    /\ listed[i] # "none" =>
         IF origin[i].users < origin[i].k THEN Copies(log, src, Below(src, All))
         ELSE \E n \in Numbers(src) : /\ IsKth(Users(src), origin[i].k, n)
                                      /\ Copies(log, src, Below(src, n))

SessionsInv == /\ SessionTypes /\ Untouched /\ NumbersFree /\ ForkTarget /\ ForkState
               /\ origin[Default].k = 0 /\ \A i \in Sessions : Faithful(i)

LEMMA AllIsANumber == All \in Nat
BY SMT DEF All

LEMMA NothingForked ==
  /\ NoFork \in Forks /\ NoFork.at = "idle" /\ NoFork.boundary = All /\ NoFork.row = FALSE
  /\ NoOrigin \in Origins /\ NoOrigin.k = 0 /\ NoOrigin.read = NoEvents
BY NothingLogged, AllIsANumber, SessionConstants DEF NoFork, Forks, NoOrigin, Origins

LEMMA SessionsStart == SessionsIdle => SessionsInv
<1> SUFFICES ASSUME SessionsIdle PROVE SessionsInv
  OBVIOUS
<1>1. \A i \in Sessions : /\ listed[i] = "none" /\ events[i] = NoEvents /\ next[i] = None
                          /\ origin[i] = NoOrigin
  BY DEF SessionsIdle
<1>2. fork = NoFork /\ fresh = Sessions \ {Default} /\ into = {} /\ logged = 0
  BY DEF SessionsIdle
<1>3. SessionTypes
  <2>1. /\ listed = [i \in Sessions |-> "none"] /\ events = [i \in Sessions |-> NoEvents]
        /\ next = [i \in Sessions |-> None] /\ origin = [i \in Sessions |-> NoOrigin]
    BY DEF SessionsIdle
  <2> QED BY <1>2, <2>1, NothingForked, NothingLogged DEF SessionTypes
<1>4. Untouched /\ NumbersFree
  BY <1>1, <1>2, NothingLogged DEF Untouched, NumbersFree, Clear
<1>5. ForkTarget /\ ForkState
  BY <1>2, NothingForked DEF ForkTarget, ForkState
<1>6. \A i \in Sessions : Faithful(i)
  BY <1>1, NothingForked DEF Faithful
<1>7. origin[Default].k = 0
  BY <1>1, NothingForked, SessionConstants
<1> QED BY <1>3, <1>4, <1>5, <1>6, <1>7 DEF SessionsInv

---------------------------------------------------------------------------
(* What steps have in common.                                                  *)

LEMMA StaysFaithful ==
  ASSUME NEW i, Faithful(i), events'[i] = events[i], origin'[i] = origin[i],
         listed'[i] # "none" => listed[i] # "none"
  PROVE  Faithful(i)'
BY DEF Faithful

(* A log that stays, with its object, stays clear.                                *)
LEMMA StaysClear ==
  ASSUME NEW i, events'[i] = events[i], next'[i] = next[i]
  PROVE  NumberOf(i)' = NumberOf(i) /\ (Clear(i) => Clear(i)')
BY DEF NumberOf, Clear

(* A session of which an object is made.                                         *)
LEMMA CachedStays ==
  ASSUME SessionTypes, NEW i \in Sessions, Cached(i), UNCHANGED events, NEW j \in Sessions
  PROVE  /\ next' \in [Sessions -> Nat \cup {None}] /\ NumberOf(j)' = NumberOf(j)
         /\ Clear(j) => Clear(j)'
         /\ j # i => next'[j] = next[j]
<1>1. AfterLast(events[i]) \in Nat /\ next[i] \in Nat \cup {None} /\ NumberOf(i) \in Nat
  BY AfterLastIs DEF SessionTypes, NumberOf
<1>2. next' = [next EXCEPT ![i] = NumberOf(i)] /\ None \notin Nat
  BY DEF Cached, None
<1>3. next' \in [Sessions -> Nat \cup {None}] /\ next'[i] = NumberOf(i)
      /\ \A d \in Sessions \ {i} : next'[d] = next[d]
  BY <1>1, <1>2 DEF SessionTypes
<1>4. NumberOf(j)' = NumberOf(j)
  BY <1>1, <1>2, <1>3 DEF NumberOf
<1> QED BY <1>3, <1>4 DEF Clear

(* With no fork under way there is nothing to say of it.                          *)
LEMMA NoForkNow ==
  ASSUME fork' = NoFork
  PROVE  ForkTarget' /\ ForkState'
BY NothingForked DEF ForkTarget, ForkState

(* A log with one more event at its end has the same k-th message.                *)
LEMMA KthStays ==
  ASSUME NEW l \in Logs, NEW n \in Nat, \A m \in Numbers(l) : m < n, NEW e \in Entries,
         NEW k, NEW b, IsKth(Users(l), k, b)
  PROVE  IsKth(Users(Put(l, n, e)), k, b)
<1> DEFINE new == Put(l, n, e)
<1>1. /\ Numbers(l) \subseteq Nat /\ b \in Users(l) /\ b \in Numbers(l) /\ b < n
      /\ Cardinality({m \in Users(l) : m < b}) = k - 1
  BY LogFacts DEF IsKth, Users
<1>2. /\ Numbers(new) = Numbers(l) \cup {n} /\ \A m \in Numbers(l) \ {n} : new[m] = l[m]
  BY PutIs
<1> HIDE DEF new
<1>3. \A m \in Numbers(l) : new[m] = l[m]
  BY <1>1, <1>2
<1>4. {m \in Users(new) : m < b} = {m \in Users(l) : m < b} /\ b \in Users(new)
  BY <1>1, <1>2, <1>3 DEF Users
<1>5. IsKth(Users(new), k, b)
  BY <1>1, <1>4 DEF IsKth
<1> QED BY <1>5 DEF new

(* Who has a k-th has k.                                                       *)
LEMMA KthCounts ==
  ASSUME NEW users \in SUBSET Nat, IsFiniteSet(users), NEW k \in Nat, NEW n,
         IsKth(users, k, n)
  PROVE  Cardinality(users) >= k
<1> DEFINE A == {m \in users : m < n}
<1>1. n \in users /\ Cardinality(A) = k - 1 /\ n \notin A /\ A \subseteq users
  BY DEF IsKth
<1>2. IsFiniteSet(A)
  BY <1>1, FS_Subset
<1> HIDE DEF A
<1>3. Cardinality(A \cup {n}) = Cardinality(A) + 1 /\ A \cup {n} \subseteq users
  BY <1>1, <1>2, FS_AddElement
<1>4. Cardinality(A \cup {n}) <= Cardinality(users)
  BY <1>3, FS_Subset
<1>5. Cardinality(users) \in Nat
  BY FS_CardinalityType
<1> QED BY <1>1, <1>3, <1>4, <1>5

(* What of a log comes before the rest is what comes before some number.          *)
LEMMA PartIsBelow ==
  ASSUME NEW src \in Logs, NEW b \in Numbers(src) \cup {All}, NEW R \in SUBSET Below(src, b),
         \A m \in Below(src, b) \ R, n \in R : m < n
  PROVE  \E c \in Numbers(src) \cup {All} : Below(src, c) = Below(src, b) \ R
<1>1. Numbers(src) \subseteq Nat /\ All \in Nat
  BY LogFacts, AllIsANumber
<1>2. CASE R = {}
  BY <1>2
<1>3. CASE R # {}
  <2>1. R \subseteq Nat /\ R \subseteq Numbers(src)
    BY <1>1 DEF Below
  <2>2. PICK c \in R : \A n \in R : c <= n
    BY <1>3, <2>1, LeastNumber
  <2>3. ASSUME NEW m \in Below(src, c) PROVE m \in Below(src, b) \ R
    BY <1>1, <2>1, <2>2, <2>3 DEF Below
  <2>4. ASSUME NEW m \in Below(src, b) \ R PROVE m \in Below(src, c)
    BY <1>1, <2>1, <2>2, <2>4 DEF Below
  <2>5. Below(src, c) = Below(src, b) \ R /\ c \in Numbers(src)
    BY <2>1, <2>2, <2>3, <2>4
  <2> QED BY <2>5
<1> QED BY <1>2, <1>3

---------------------------------------------------------------------------
(* Steps. *)

(* The number of a session is a number.                                          *)
LEMMA NumberIs ==
  ASSUME SessionTypes, NEW i \in Sessions
  PROVE  /\ NumberOf(i) \in Nat /\ events[i] \in Logs /\ Numbers(events[i]) \subseteq Nat
         /\ next[i] = None => Clear(i)
<1>1. events[i] \in Logs /\ next[i] \in Nat \cup {None}
  BY DEF SessionTypes
<1>2. Numbers(events[i]) \subseteq Nat
  BY <1>1, LogFacts
<1>3. AfterLast(events[i]) \in Nat /\ \A m \in Numbers(events[i]) : m < AfterLast(events[i])
  BY <1>1, AfterLastIs
<1> QED BY <1>1, <1>2, <1>3 DEF NumberOf, Clear

(* A step that leaves events, origins and fork and only makes objects.             *)
LEMMA OthersStay ==
  ASSUME SessionsInv, NEW i \in Sessions \ fresh, Cached(i),
         UNCHANGED <<listed, events, fresh, fork, origin, into>>, logged' \in Nat,
         fork = NoFork \/ i = Default
  PROVE  SessionsInv'
<1>1. /\ SessionTypes /\ Untouched /\ NumbersFree /\ ForkTarget /\ ForkState
      /\ listed' = listed /\ events' = events /\ fresh' = fresh /\ fork' = fork
      /\ origin' = origin /\ into' = into
  BY DEF SessionsInv
<1>2. SessionTypes /\ Cached(i) /\ UNCHANGED events /\ i \in Sessions
  BY <1>1
<1>3. /\ next' \in [Sessions -> Nat \cup {None}]
      /\ \A j \in Sessions : j # i => next'[j] = next[j]
  <2>1. ASSUME NEW j \in Sessions
        PROVE  next' \in [Sessions -> Nat \cup {None}] /\ (j # i => next'[j] = next[j])
    BY <1>2, CachedStays
  <2> QED BY <2>1, SessionConstants
<1>4. fork.to \in Sessions
  BY <1>1 DEF SessionTypes, Forks
<1>5. SessionTypes' /\ Untouched' /\ NumbersFree' /\ ForkTarget'
  <2>1. ASSUME NEW j \in Sessions
        PROVE  /\ Clear(j)' \/ NumberOf(j)' \in Numbers(events'[j])
               /\ j \notin into' => Clear(j)'
    <3>1. NumberOf(j)' = NumberOf(j) /\ (Clear(j) => Clear(j)')
      BY <1>2, CachedStays
    <3>2. /\ Clear(j) \/ NumberOf(j) \in Numbers(events[j])
          /\ j \notin into => Clear(j)
      BY <1>1 DEF NumbersFree
    <3> QED BY <1>1, <3>1, <3>2
  <2>2. NumbersFree'
    BY <2>1 DEF NumbersFree
  <2>3. Untouched'
    BY <1>1, <1>3 DEF Untouched, SessionTypes
  <2>4. ForkTarget'
    <3>1. CASE fork = NoFork
      BY <1>1, <3>1, NoForkNow
    <3>2. CASE i = Default
      BY <1>1, <1>3, <1>4, <3>2 DEF ForkTarget
    <3> QED BY <3>1, <3>2
  <2> QED BY <1>1, <1>3, <2>2, <2>3, <2>4 DEF SessionTypes
<1>6. ForkState'
  <2>1. NumberOf(fork.to)' = NumberOf(fork.to)
    BY <1>2, <1>4, CachedStays
  <2> QED BY <1>1, <2>1 DEF ForkState, Copying, Asked
<1>7. \A j \in Sessions : Faithful(j)'
  BY <1>1, StaysFaithful DEF SessionsInv
<1> QED BY <1>1, <1>5, <1>6, <1>7 DEF SessionsInv

LEMMA SessionsRest == SessionsInv /\ UNCHANGED sessionVars => SessionsInv'
<1> SUFFICES ASSUME SessionsInv, UNCHANGED sessionVars PROVE SessionsInv'
  OBVIOUS
<1>1. /\ listed' = listed /\ events' = events /\ next' = next /\ fresh' = fresh
      /\ fork' = fork /\ origin' = origin /\ into' = into /\ logged' = logged
  BY DEF sessionVars
<1>2. NumbersFree' /\ ForkState'
  <2>1. ASSUME NEW j \in Sessions
        PROVE  /\ Clear(j)' \/ NumberOf(j)' \in Numbers(events'[j])
               /\ j \notin into' => Clear(j)'
    <3>1. /\ Clear(j) \/ NumberOf(j) \in Numbers(events[j])
          /\ j \notin into => Clear(j)
      BY DEF SessionsInv, NumbersFree
    <3> QED BY <1>1, <3>1 DEF Clear, NumberOf
  <2>2. ForkState
    BY DEF SessionsInv
  <2>3. ForkState'
    BY <1>1, <2>2 DEF ForkState, Copying, Asked, NumberOf
  <2> QED BY <2>1, <2>3 DEF NumbersFree
<1>3. SessionTypes' /\ Untouched' /\ ForkTarget'
  BY <1>1 DEF SessionsInv, SessionTypes, Untouched, ForkTarget
<1>4. \A j \in Sessions : Faithful(j)'
  BY <1>1, StaysFaithful DEF SessionsInv
<1> QED BY <1>1, <1>2, <1>3, <1>4 DEF SessionsInv

(* What a step has to show that begins and ends with no fork.                     *)
LEMMA NoForkStep ==
  ASSUME SessionsInv, fork' = NoFork, SessionTypes', Untouched', NumbersFree',
         origin'[Default].k = 0, \A j \in Sessions : Faithful(j)'
  PROVE  SessionsInv'
BY NoForkNow DEF SessionsInv

(* Sessions whose log and object stay have the next number they had.                *)
LEMMA StaysFree ==
  ASSUME NumbersFree, NEW j \in Sessions, events'[j] = events[j], next'[j] = next[j],
         j \notin into' => j \notin into
  PROVE  /\ Clear(j)' \/ NumberOf(j)' \in Numbers(events'[j])
         /\ j \notin into' => Clear(j)'
<1>1. /\ Clear(j) \/ NumberOf(j) \in Numbers(events[j])
      /\ j \notin into => Clear(j)
  BY DEF NumbersFree
<1>2. NumberOf(j)' = NumberOf(j) /\ (Clear(j) => Clear(j)')
  BY StaysClear
<1> QED BY <1>1, <1>2

LEMMA SessionCreated ==
  ASSUME SessionsInv, NEW i \in Sessions, CreateSession(i)
  PROVE  SessionsInv'
<1>1. /\ SessionTypes /\ Untouched /\ NumbersFree /\ fork = NoFork /\ fork' = fork
      /\ i \in fresh /\ fresh' = fresh \ {i} /\ listed' = [listed EXCEPT ![i] = "live"]
      /\ events' = events /\ next' = next /\ origin' = origin /\ into' = into /\ logged' = logged
  BY DEF SessionsInv, CreateSession, Edit
<1>2. /\ listed' \in [Sessions -> {"none", "live", "archived"}]
      /\ \A j \in Sessions \ {i} : listed'[j] = listed[j]
  BY <1>1 DEF SessionTypes
<1>3. SessionTypes' /\ Untouched'
  BY <1>1, <1>2 DEF SessionTypes, Untouched
<1>4. NumbersFree'
  BY <1>1, StaysFree DEF NumbersFree
<1>5. ASSUME NEW j \in Sessions PROVE Faithful(j)'
  <2>1. CASE j = i
    <3>1. origin'[j].k = 0
      BY <1>1, <2>1, NothingForked DEF Untouched
    <3> QED BY <3>1 DEF Faithful
  <2>2. CASE j # i
    <3>1. Faithful(j)
      BY DEF SessionsInv
    <3> QED BY <1>1, <1>2, <2>2, <3>1, StaysFaithful
  <2> QED BY <2>1, <2>2
<1>6. origin'[Default].k = 0
  BY <1>1 DEF SessionsInv
<1> QED BY <1>1, <1>3, <1>4, <1>5, <1>6, NoForkStep

LEMMA SessionArchived ==
  ASSUME SessionsInv, NEW i \in Sessions, ArchiveSession(i)
  PROVE  SessionsInv'
<1>1. /\ SessionTypes /\ Untouched /\ NumbersFree /\ fork = NoFork /\ fork' = fork
      /\ listed[i] # "none" /\ fresh' = fresh
      /\ listed' = [listed EXCEPT ![i] = IF @ = "archived" THEN "live" ELSE "archived"]
      /\ events' = events /\ next' = next /\ origin' = origin /\ into' = into /\ logged' = logged
  BY DEF SessionsInv, ArchiveSession, Edit
<1>2. /\ listed' \in [Sessions -> {"none", "live", "archived"}]
      /\ \A j \in Sessions \ {i} : listed'[j] = listed[j]
  BY <1>1 DEF SessionTypes
<1>3. SessionTypes' /\ Untouched'
  BY <1>1, <1>2 DEF SessionTypes, Untouched
<1>4. NumbersFree'
  BY <1>1, StaysFree DEF NumbersFree
<1>5. ASSUME NEW j \in Sessions PROVE Faithful(j)'
  <2>1. Faithful(j) /\ (listed'[j] # "none" => listed[j] # "none")
    BY <1>1, <1>2 DEF SessionsInv
  <2> QED BY <1>1, <2>1, StaysFaithful
<1>6. origin'[Default].k = 0
  BY <1>1 DEF SessionsInv
<1> QED BY <1>1, <1>3, <1>4, <1>5, <1>6, NoForkStep

LEMMA SessionDeleted ==
  ASSUME SessionsInv, NEW i \in Sessions, DeleteSession(i)
  PROVE  SessionsInv'
<1>1. /\ SessionTypes /\ Untouched /\ NumbersFree /\ fork = NoFork /\ fork' = fork
      /\ i \notin fresh /\ fresh' = fresh /\ listed' = [listed EXCEPT ![i] = "none"]
      /\ events' = [events EXCEPT ![i] = NoEvents] /\ origin' = [origin EXCEPT ![i] = NoOrigin]
      /\ next' = next /\ into' = into /\ logged' = logged
  BY DEF SessionsInv, DeleteSession, Edit
<1>2. /\ listed' \in [Sessions -> {"none", "live", "archived"}]
      /\ events' \in [Sessions -> Logs] /\ origin' \in [Sessions -> Origins]
      /\ events'[i] = NoEvents /\ origin'[i] = NoOrigin
      /\ \A j \in Sessions \ {i} : /\ listed'[j] = listed[j] /\ events'[j] = events[j]
                                   /\ origin'[j] = origin[j]
  BY <1>1, NothingForked, NothingLogged DEF SessionTypes
<1>3. SessionTypes' /\ Untouched'
  BY <1>1, <1>2 DEF SessionTypes, Untouched
<1>4. ASSUME NEW j \in Sessions
      PROVE  /\ Clear(j)' \/ NumberOf(j)' \in Numbers(events'[j])
             /\ j \notin into' => Clear(j)'
  <2>1. CASE j = i
    <3>1. Clear(j)'
      BY <1>2, <2>1, NothingLogged DEF Clear
    <3> QED BY <3>1
  <2>2. CASE j # i
    BY <1>1, <1>2, <2>2, StaysFree
  <2> QED BY <2>1, <2>2
<1>5. ASSUME NEW j \in Sessions PROVE Faithful(j)'
  <2>1. CASE j = i
    BY <1>2, <2>1, NothingForked DEF Faithful
  <2>2. CASE j # i
    <3>1. Faithful(j)
      BY DEF SessionsInv
    <3> QED BY <1>2, <2>2, <3>1, StaysFaithful
  <2> QED BY <2>1, <2>2
<1>6. origin'[Default].k = 0
  BY <1>1, <1>2, NothingForked, SessionConstants DEF SessionsInv
<1>7. NumbersFree'
  BY <1>4 DEF NumbersFree
<1> QED BY <1>1, <1>3, <1>5, <1>6, <1>7, NoForkStep

LEMMA ProcessRestarted == ASSUME SessionsInv, Restart PROVE SessionsInv'
<1>1. /\ SessionTypes /\ Untouched /\ NumbersFree /\ fork' = NoFork /\ into' = {}
      /\ next' = [j \in Sessions |-> None] /\ fresh' = fresh
      /\ events' = events /\ origin' = origin /\ logged' = logged
  BY DEF SessionsInv, Restart
<1>2. /\ listed' \in [Sessions -> {"none", "live", "archived"}]
      /\ \A j \in Sessions \ {Default} : listed'[j] = listed[j]
  <2>1. listed' = listed \/ listed' = [listed EXCEPT ![Default] = IF @ = "none" THEN "live" ELSE @]
    BY DEF Restart
  <2>2. listed \in [Sessions -> {"none", "live", "archived"}] /\ Default \in Sessions
    BY <1>1, SessionConstants DEF SessionTypes
  <2> QED BY <2>1, <2>2
<1>3. SessionTypes' /\ Untouched'
  BY <1>1, <1>2, NothingForked DEF SessionTypes, Untouched
<1>4. ASSUME NEW j \in Sessions PROVE Clear(j)'
  <2>1. events'[j] \in Logs /\ next'[j] = None
    BY <1>1 DEF SessionTypes
  <2>2. \A m \in Numbers(events'[j]) : m < AfterLast(events'[j])
    BY <2>1, AfterLastIs
  <2> QED BY <2>1, <2>2 DEF Clear, NumberOf
<1>5. NumbersFree'
  BY <1>4 DEF NumbersFree
<1>6. ASSUME NEW j \in Sessions PROVE Faithful(j)'
  <2>1. CASE j = Default
    <3>1. origin'[j].k = 0
      BY <1>1, <2>1 DEF SessionsInv
    <3> QED BY <3>1 DEF Faithful
  <2>2. CASE j # Default
    <3>1. Faithful(j)
      BY DEF SessionsInv
    <3> QED BY <1>1, <1>2, <2>2, <3>1, StaysFaithful
  <2> QED BY <2>1, <2>2
<1>7. origin'[Default].k = 0
  BY <1>1 DEF SessionsInv
<1> QED BY <1>1, <1>3, <1>5, <1>6, <1>7, NoForkStep

LEMMA SessionLookedAt ==
  ASSUME SessionsInv, NEW i \in Sessions, LookAt(i)
  PROVE  SessionsInv'
<1>1. /\ i \in Sessions \ fresh /\ Cached(i) /\ fork = NoFork /\ logged' \in Nat
      /\ UNCHANGED <<listed, events, fresh, fork, origin, into>>
  BY DEF LookAt, Edit, SessionsInv, SessionTypes
<1> QED BY <1>1, OthersStay

LEMMA TurnLogged == ASSUME SessionsInv, TurnLogs PROVE SessionsInv'
<1> DEFINE n == NumberOf(Default)
<1>1. /\ SessionTypes /\ Untouched /\ NumbersFree /\ ForkTarget /\ ForkState
      /\ listed' = listed /\ fresh' = fresh /\ fork' = fork /\ origin' = origin
      /\ into' = into /\ logged \in Nat /\ logged' = logged + 1
      /\ Default \in Sessions /\ Default \notin fresh
  BY SessionConstants DEF SessionsInv, SessionTypes, TurnLogs
<1>2. CASE n \in Numbers(events[Default])
  <2>1. /\ Cached(Default) /\ UNCHANGED <<listed, events, fresh, fork, origin, into>>
        /\ Default \in Sessions \ fresh /\ logged' \in Nat
    BY <1>1, <1>2 DEF TurnLogs
  <2> QED BY <2>1, OthersStay
<1>3. CASE n \notin Numbers(events[Default])
  <2>1. PICK user \in BOOLEAN :
          events' = [events EXCEPT ![Default] = Put(@, n, Event(user, logged))]
    BY <1>3 DEF TurnLogs
  <2> DEFINE e == Event(user, logged)
             old == events[Default]
             new == Put(old, n, e)
  <2>2. e \in Entries /\ n \in Nat /\ old \in Logs
    BY <1>1, NumberIs DEF Event, Entries
  <2>3. /\ new \in Logs /\ Numbers(new) = Numbers(old) \cup {n}
    BY <2>2, PutIs
  <2>4. \A m \in Numbers(old) : m < n
    BY <1>1, <1>3 DEF NumbersFree, Clear
  <2>5. next' = [next EXCEPT ![Default] = n + 1]
    BY <1>3 DEF TurnLogs
  <2> HIDE DEF e, n, new, old
  <2>6. /\ events' \in [Sessions -> Logs] /\ events'[Default] = new
        /\ \A j \in Sessions \ {Default} : events'[j] = events[j]
    BY <1>1, <2>1, <2>3 DEF SessionTypes, new, old, e
  <2>7. /\ next' \in [Sessions -> Nat \cup {None}] /\ next'[Default] = n + 1
        /\ \A j \in Sessions \ {Default} : next'[j] = next[j]
    BY <1>1, <2>2, <2>5 DEF SessionTypes
  <2>8. SessionTypes' /\ Untouched'
    BY <1>1, <2>6, <2>7 DEF SessionTypes, Untouched
  <2>9. NumberOf(Default)' = n + 1 /\ Clear(Default)'
    <3>1. NumberOf(Default)' = n + 1
      BY <2>2, <2>7 DEF NumberOf, None
    <3>2. Numbers(old) \subseteq Nat
      BY <2>2, LogFacts
    <3> QED BY <2>2, <2>3, <2>4, <2>6, <3>1, <3>2 DEF Clear
  <2>10. ASSUME NEW j \in Sessions
         PROVE  /\ Clear(j)' \/ NumberOf(j)' \in Numbers(events'[j])
                /\ j \notin into' => Clear(j)'
    <3>1. CASE j = Default
      BY <2>9, <3>1
    <3>2. CASE j # Default
      BY <1>1, <2>6, <2>7, <3>2, StaysFree
    <3> QED BY <3>1, <3>2
  <2>11. NumbersFree'
    BY <2>10 DEF NumbersFree
  <2>12. /\ fork.to \in Sessions /\ fork.from \in Sessions /\ fork.next \in Nat
         /\ fork.at # "idle" /\ fork.row => fork.to # Default
    BY <1>1 DEF SessionTypes, Forks, ForkTarget
  <2>13. ForkTarget'
    BY <1>1, <2>7, <2>12 DEF ForkTarget
  <2>14. ForkState'
    <3>1. ASSUME fork.at # "idle", fork.row PROVE events'[fork.to] = events[fork.to]
      BY <2>6, <2>12, <3>1
    <3>2. ASSUME fork.at = "read", fork.row, fork.from = Default,
                 Asked(fork.to, old, fork.boundary)
          PROVE  Asked(fork.to, new, fork.boundary)
      <4>1. CASE origin[fork.to].users < origin[fork.to].k
        BY <3>2, <4>1 DEF Asked
      <4>2. CASE ~(origin[fork.to].users < origin[fork.to].k)
        <5>1. IsKth(Users(old), origin[fork.to].k, fork.boundary)
          BY <3>2, <4>2 DEF Asked
        <5>2. IsKth(Users(new), origin[fork.to].k, fork.boundary)
          BY <2>2, <2>4, <5>1, KthStays DEF new
        <5> QED BY <4>2, <5>2 DEF Asked
      <4> QED BY <4>1, <4>2
    <3>3. ASSUME fork.at = "read", fork.row
          PROVE  Asked(fork.to, events'[fork.from], fork.boundary)
      <4>1. Asked(fork.to, events[fork.from], fork.boundary)
        BY <1>1, <3>3 DEF ForkState
      <4>2. CASE fork.from = Default
        BY <2>6, <3>2, <3>3, <4>1, <4>2 DEF old
      <4>3. CASE fork.from # Default
        BY <2>6, <2>12, <4>1, <4>3
      <4> QED BY <4>2, <4>3
    <3>4. ASSUME fork.at = "copy"
          PROVE  \/ fork.next <= NumberOf(fork.to)'
                 \/ NumberOf(fork.to)' \in Numbers(events'[fork.to])
      <4>1. \/ fork.next <= NumberOf(fork.to)
            \/ NumberOf(fork.to) \in Numbers(events[fork.to])
        BY <1>1, <3>4 DEF ForkState
      <4>2. CASE fork.to = Default
        <5>1. fork.next <= n
          BY <1>3, <4>1, <4>2 DEF n
        <5>2. fork.next <= n + 1
          BY <2>2, <2>12, <5>1
        <5> QED BY <1>1, <2>2, <2>7, <4>2, <5>2 DEF NumberOf, None
      <4>3. CASE fork.to # Default
        BY <1>1, <2>6, <2>7, <2>12, <4>1, <4>3 DEF NumberOf
      <4> QED BY <4>2, <4>3
    <3>5. ASSUME fork.at = "copy", fork.row PROVE Copying'
      <4>1. Copying
        BY <1>1, <3>5 DEF ForkState
      <4> QED BY <1>1, <3>1, <3>5, <4>1 DEF Copying, Asked
    <3> QED BY <1>1, <3>1, <3>3, <3>4, <3>5 DEF ForkState, Asked
  <2>15. ASSUME NEW j \in Sessions PROVE Faithful(j)'
    <3>1. CASE j = Default
      <4>1. origin'[j].k = 0
        BY <1>1, <3>1 DEF SessionsInv
      <4> QED BY <4>1 DEF Faithful
    <3>2. CASE j # Default
      <4>1. Faithful(j)
        BY DEF SessionsInv
      <4> QED BY <1>1, <2>6, <3>2, <4>1, StaysFaithful
    <3> QED BY <3>1, <3>2
  <2>16. origin'[Default].k = 0
    BY <1>1 DEF SessionsInv
  <2> QED BY <2>8, <2>11, <2>13, <2>14, <2>15, <2>16 DEF SessionsInv
<1> QED BY <1>2, <1>3

LEMMA SessionForked ==
  ASSUME SessionsInv, NEW from \in Sessions, NEW to \in Sessions, NEW k \in Nat,
         ForkSession(from, to, k)
  PROVE  SessionsInv'
<1>1. /\ SessionTypes /\ Untouched /\ NumbersFree /\ from \notin fresh /\ to \in fresh
      /\ fresh' = fresh \ {to} /\ Cached(from) /\ events' = events /\ listed' = listed
      /\ origin' = origin /\ into' = into /\ logged' = logged
      /\ fork' = [NoFork EXCEPT !.at = IF k = 0 THEN "row" ELSE "seek", !.from = from,
                                !.to = to, !.k = k, !.row = TRUE]
  BY DEF SessionsInv, ForkSession, BeginFork, KeepTurns
<1>2. /\ fork' \in Forks /\ fork'.at = (IF k = 0 THEN "row" ELSE "seek") /\ fork'.to = to
      /\ fork'.k = k /\ fork'.row = TRUE /\ fork'.boundary = All
  <2>1. PICK at \in {"row", "seek"} : at = IF k = 0 THEN "row" ELSE "seek"
    OBVIOUS
  <2>2. fork' = [NoFork EXCEPT !.at = at, !.from = from, !.to = to, !.k = k, !.row = TRUE]
    BY <1>1, <2>1
  <2> QED BY <2>1, <2>2, NothingForked DEF Forks
<1>3. /\ next' \in [Sessions -> Nat \cup {None}] /\ \A j \in Sessions \ {from} : next'[j] = next[j]
  <2>1. ASSUME NEW j \in Sessions
        PROVE  next' \in [Sessions -> Nat \cup {None}] /\ (j # from => next'[j] = next[j])
    BY <1>1, CachedStays
  <2> QED BY <2>1, SessionConstants
<1>4. /\ to # from /\ to # Default /\ to \notin into /\ next'[to] = None /\ events[to] = NoEvents
      /\ listed[to] = "none" /\ origin[to] = NoOrigin
  BY <1>1, <1>3 DEF SessionTypes, Untouched
<1>5. SessionTypes' /\ Untouched'
  BY <1>1, <1>2, <1>3 DEF SessionTypes, Untouched
<1>6. ASSUME NEW j \in Sessions
      PROVE  /\ Clear(j)' \/ NumberOf(j)' \in Numbers(events'[j])
             /\ j \notin into' => Clear(j)'
  <2>1. NumberOf(j)' = NumberOf(j) /\ (Clear(j) => Clear(j)')
    BY <1>1, CachedStays
  <2>2. /\ Clear(j) \/ NumberOf(j) \in Numbers(events[j])
        /\ j \notin into => Clear(j)
    BY <1>1 DEF NumbersFree
  <2> QED BY <1>1, <2>1, <2>2
<1>7. NumbersFree'
  BY <1>6 DEF NumbersFree
<1>8. ForkTarget'
  BY <1>1, <1>2, <1>4 DEF ForkTarget
<1>9. ForkState'
  BY <1>1, <1>2, <1>4, NothingForked DEF ForkState
<1>10. \A j \in Sessions : Faithful(j)'
  BY <1>1, StaysFaithful DEF SessionsInv
<1> QED BY <1>1, <1>5, <1>7, <1>8, <1>9, <1>10 DEF SessionsInv

LEMMA EventsForked ==
  ASSUME SessionsInv, NEW from \in Sessions, NEW to \in Sessions, NEW b \in Nat,
         ForkEvents(from, to, b)
  PROVE  SessionsInv'
<1>1. /\ SessionTypes /\ Untouched /\ NumbersFree /\ from \notin fresh
      /\ fresh' = fresh \ {to} /\ Cached(from) /\ events' = events /\ listed' = listed
      /\ origin' = [origin EXCEPT ![to] = NoOrigin] /\ logged' = logged
      /\ into' = IF to \in fresh THEN into ELSE into \cup {to}
      /\ fork' = [NoFork EXCEPT !.at = "read", !.from = from, !.to = to, !.boundary = b]
  BY DEF SessionsInv, ForkEvents, BeginFork, KeepTurns
<1>2. fork' \in Forks /\ fork'.at = "read" /\ fork'.to = to /\ fork'.row = FALSE
  BY <1>1, NothingForked DEF Forks
<1>3. /\ next' \in [Sessions -> Nat \cup {None}] /\ \A j \in Sessions \ {from} : next'[j] = next[j]
  <2>1. ASSUME NEW j \in Sessions
        PROVE  next' \in [Sessions -> Nat \cup {None}] /\ (j # from => next'[j] = next[j])
    BY <1>1, CachedStays
  <2> QED BY <2>1, SessionConstants
<1>4. /\ origin' \in [Sessions -> Origins] /\ origin'[to] = NoOrigin
      /\ \A j \in Sessions \ {to} : origin'[j] = origin[j]
  BY <1>1, NothingForked DEF SessionTypes
<1>5. to \notin into' => next'[to] = None /\ to # Default
  BY <1>1, <1>3 DEF SessionTypes, Untouched
<1>6. into \subseteq into' /\ into' \subseteq Sessions \ fresh' /\ to \notin fresh'
  BY <1>1 DEF SessionTypes
<1>7. SessionTypes' /\ Untouched'
  <2>1. SessionTypes'
    BY <1>1, <1>2, <1>3, <1>4, <1>6 DEF SessionTypes
  <2> QED BY <1>1, <1>3, <1>4, <2>1 DEF SessionTypes, Untouched
<1>8. ASSUME NEW j \in Sessions
      PROVE  /\ Clear(j)' \/ NumberOf(j)' \in Numbers(events'[j])
             /\ j \notin into' => Clear(j)'
  <2>1. NumberOf(j)' = NumberOf(j) /\ (Clear(j) => Clear(j)')
    BY <1>1, CachedStays
  <2>2. /\ Clear(j) \/ NumberOf(j) \in Numbers(events[j])
        /\ j \notin into => Clear(j)
    BY <1>1 DEF NumbersFree
  <2> QED BY <1>1, <1>6, <2>1, <2>2
<1>9. NumbersFree'
  BY <1>8 DEF NumbersFree
<1>10. ForkTarget' /\ ForkState'
  BY <1>2, <1>4, <1>5, <1>6, NothingForked DEF ForkTarget, ForkState
<1>11. ASSUME NEW j \in Sessions PROVE Faithful(j)'
  <2>1. CASE j = to
    BY <1>4, <2>1, NothingForked DEF Faithful
  <2>2. CASE j # to
    <3>1. Faithful(j)
      BY DEF SessionsInv
    <3> QED BY <1>1, <1>4, <2>2, <3>1, StaysFaithful
  <2> QED BY <2>1, <2>2
<1>12. origin'[Default].k = 0
  BY <1>4, NothingForked, SessionConstants DEF SessionsInv
<1> QED BY <1>7, <1>9, <1>10, <1>11, <1>12 DEF SessionsInv

(* Before its first event, a copy is one of what comes before the first that is read.  *)
LEMMA NothingCopied ==
  ASSUME NEW src \in Logs
  PROVE  \E b \in Numbers(src) \cup {All} : Copies(NoEvents, src, Below(src, b))
<1> DEFINE R == Below(src, All)
<1>1. \E c \in Numbers(src) \cup {All} : Below(src, c) = R \ R
  BY PartIsBelow
<1>2. PICK c \in Numbers(src) \cup {All} : Below(src, c) = {}
  BY <1>1
<1>3. Copies(NoEvents, src, {})
  BY CopyNothing
<1> QED BY <1>2, <1>3

LEMMA BoundarySought == ASSUME SessionsInv, SeekBoundary PROVE SessionsInv'
<1> DEFINE users == Users(events[fork.from])
           new   == [NoOrigin EXCEPT !.k = fork.k, !.users = Cardinality(users)]
<1>1. /\ SessionTypes /\ Untouched /\ NumbersFree /\ ForkTarget /\ ForkState
      /\ fork.at = "seek" /\ fork \in Forks /\ fork.from \in Sessions /\ fork.to \in Sessions
      /\ fork.k \in Nat
      /\ listed' = listed /\ events' = events /\ next' = next /\ fresh' = fresh /\ into' = into
      /\ logged' = logged /\ origin' = [origin EXCEPT ![fork.to] = new]
  BY DEF SessionsInv, SessionTypes, SeekBoundary, KeepTurns, Forks
<1>2. /\ fork.row /\ fork.k > 0 /\ fork.boundary = All /\ events[fork.to] = NoEvents
      /\ fork.to \notin fresh /\ fork.to \notin into /\ next[fork.to] = None
      /\ fork.to # Default /\ listed[fork.to] = "none"
  BY <1>1 DEF ForkTarget, ForkState
<1>3. users \in SUBSET Nat /\ IsFiniteSet(users) /\ Cardinality(users) \in Nat
  <2>1. events[fork.from] \in Logs
    BY <1>1 DEF SessionTypes
  <2>2. Numbers(events[fork.from]) \subseteq Nat /\ IsFiniteSet(Numbers(events[fork.from]))
    BY <2>1, LogFacts
  <2>3. users \subseteq Numbers(events[fork.from])
    BY DEF Users
  <2>4. IsFiniteSet(users)
    BY <2>2, <2>3, FS_Subset
  <2> QED BY <2>2, <2>3, <2>4, FS_CardinalityType
<1>4. new \in Origins /\ new.k = fork.k /\ new.users = Cardinality(users) /\ new.read = NoEvents
  BY <1>1, <1>3, NothingLogged DEF NoOrigin, Origins
<1>5. PICK b \in Nat : /\ fork' = [fork EXCEPT !.at = "read", !.boundary = b]
                       /\ IF Cardinality(users) < fork.k THEN b = All
                          ELSE IsKth(users, fork.k, b)
  <2>1. CASE \E n \in users : /\ IsKth(users, fork.k, n)
                              /\ fork' = [fork EXCEPT !.at = "read", !.boundary = n]
    <3>1. PICK n \in users : /\ IsKth(users, fork.k, n)
                             /\ fork' = [fork EXCEPT !.at = "read", !.boundary = n]
      BY <2>1
    <3>2. Cardinality(users) >= fork.k
      BY <1>1, <1>3, <3>1, KthCounts
    <3>3. ~(Cardinality(users) < fork.k) /\ n \in Nat
      BY <1>1, <1>3, <3>2
    <3> HIDE DEF users
    <3>4. n \in Nat /\ fork' = [fork EXCEPT !.at = "read", !.boundary = n]
          /\ IF Cardinality(users) < fork.k THEN n = All ELSE IsKth(users, fork.k, n)
      BY <3>1, <3>3
    <3> QED BY <3>4
  <2>2. CASE Cardinality(users) < fork.k /\ fork' = [fork EXCEPT !.at = "read"]
    <3>1. [fork EXCEPT !.at = "read"] = [fork EXCEPT !.at = "read", !.boundary = All]
      BY <1>1, <1>2 DEF Forks
    <3> QED BY <2>2, <3>1, AllIsANumber
  <2> QED BY <2>1, <2>2 DEF SeekBoundary
<1> HIDE DEF users, new
<1>6. /\ fork' \in Forks /\ fork'.at = "read" /\ fork'.to = fork.to /\ fork'.from = fork.from
      /\ fork'.row = fork.row /\ fork'.boundary = b
  BY <1>1, <1>5 DEF Forks
<1>7. /\ origin' \in [Sessions -> Origins] /\ origin'[fork.to] = new
      /\ \A j \in Sessions \ {fork.to} : origin'[j] = origin[j]
  BY <1>1, <1>4 DEF SessionTypes
<1>8. SessionTypes' /\ Untouched'
  BY <1>1, <1>2, <1>6, <1>7 DEF SessionTypes, Untouched
<1>9. NumbersFree'
  BY <1>1, StaysFree DEF NumbersFree
<1>10. ForkTarget'
  BY <1>1, <1>2, <1>6 DEF ForkTarget
<1>11. ForkState'
  BY <1>1, <1>2, <1>4, <1>5, <1>6, <1>7 DEF ForkState, Asked, users
<1>12. ASSUME NEW j \in Sessions PROVE Faithful(j)'
  <2>1. CASE j = fork.to
    <3>1. \E c \in Numbers(NoEvents) \cup {All} : Copies(NoEvents, NoEvents, Below(NoEvents, c))
      BY NothingCopied, NothingLogged
    <3> QED BY <1>1, <1>2, <1>4, <1>7, <2>1, <3>1 DEF Faithful
  <2>2. CASE j # fork.to
    <3>1. Faithful(j)
      BY DEF SessionsInv
    <3> QED BY <1>1, <1>7, <2>2, <3>1, StaysFaithful
  <2> QED BY <2>1, <2>2
<1>13. origin'[Default].k = 0
  BY <1>2, <1>7, SessionConstants DEF SessionsInv
<1> QED BY <1>8, <1>9, <1>10, <1>11, <1>12, <1>13 DEF SessionsInv

(* The boundary of a fork is the number of an event, or stands for none.             *)
LEMMA AskedIs ==
  ASSUME NEW i, NEW src, NEW b, Asked(i, src, b)
  PROVE  b \in Numbers(src) \cup {All}
BY DEF Asked, IsKth, Users

LEMMA SourceWasRead == ASSUME SessionsInv, ReadSource PROVE SessionsInv'
<1> DEFINE log  == events[fork.from]
           rest == Before(log, fork.boundary)
           to   == fork.to
           last == AfterLast(events[to])
<1>1. /\ SessionTypes /\ Untouched /\ NumbersFree /\ ForkTarget /\ ForkState
      /\ fork.at = "read" /\ fork \in Forks /\ fork.from \in Sessions /\ to \in Sessions
      /\ fork.row \in BOOLEAN /\ fork.boundary \in Nat /\ log \in Logs /\ events[to] \in Logs
      /\ listed' = listed /\ events' = events /\ next' = next /\ fresh' = fresh /\ into' = into
      /\ logged' = logged
      /\ fork' = [fork EXCEPT !.at = "copy", !.rest = rest, !.next = last]
      /\ origin' = [origin EXCEPT ![to].read = IF fork.row THEN log ELSE @]
  BY DEF SessionsInv, SessionTypes, ReadSource, KeepTurns, Forks
<1>2. rest \in Logs /\ Numbers(rest) = Below(log, fork.boundary)
      /\ \A n \in Numbers(rest) : rest[n] = log[n]
  <2>1. Below(log, fork.boundary) \in SUBSET Numbers(log)
    BY DEF Below
  <2>2. [m \in Below(log, fork.boundary) |-> log[m]] \in Logs
        /\ Numbers([m \in Below(log, fork.boundary) |-> log[m]]) = Below(log, fork.boundary)
    BY <1>1, <2>1, SomeEvents
  <2> QED BY <2>2 DEF Before
<1>3. /\ last \in Nat /\ (last = 0 \/ last - 1 \in Numbers(events[to]))
      /\ \A m \in Numbers(events[to]) : m < last
  BY <1>1, AfterLastIs
<1>4. NumberOf(to) \in Nat /\ (next[to] = None => NumberOf(to) = last)
  BY <1>1, NumberIs DEF NumberOf
<1> HIDE DEF rest, last, log
<1>5. /\ fork' \in Forks /\ fork'.at = "copy" /\ fork'.to = to /\ fork'.from = fork.from
      /\ fork'.row = fork.row /\ fork'.boundary = fork.boundary /\ fork'.rest = rest
      /\ fork'.next = last
  BY <1>1, <1>2, <1>3 DEF Forks
<1>6. /\ origin' \in [Sessions -> Origins] /\ origin'[to].k = origin[to].k
      /\ origin'[to].users = origin[to].users
      /\ fork.row => origin'[to].read = log
      /\ \A j \in Sessions : j # to \/ ~fork.row => origin'[j] = origin[j]
  <2>1. CASE fork.row
    <3>1. origin' = [origin EXCEPT ![to] = [origin[to] EXCEPT !.read = log]]
      BY <1>1, <2>1 DEF SessionTypes
    <3>2. origin[to] \in Origins
      BY <1>1 DEF SessionTypes
    <3>3. PICK o : o = [origin[to] EXCEPT !.read = log]
      OBVIOUS
    <3>4. o \in Origins /\ o.k = origin[to].k /\ o.users = origin[to].users /\ o.read = log
      BY <1>1, <3>2, <3>3 DEF Origins
    <3> QED BY <1>1, <2>1, <3>1, <3>3, <3>4 DEF SessionTypes
  <2>2. CASE ~fork.row
    <3>1. origin[to] \in Origins
      BY <1>1 DEF SessionTypes
    <3>2. [origin[to] EXCEPT !.read = @] = origin[to]
      BY <3>1 DEF Origins
    <3>3. origin' = [origin EXCEPT ![to] = [origin[to] EXCEPT !.read = @]]
      BY <1>1, <2>2 DEF SessionTypes
    <3>4. origin' = origin
      BY <1>1, <3>2, <3>3 DEF SessionTypes
    <3> QED BY <1>1, <2>2, <3>4 DEF SessionTypes
  <2> QED BY <1>1, <2>1, <2>2
<1>7. SessionTypes' /\ Untouched'
  <2>1. to \notin fresh
    BY <1>1 DEF ForkTarget
  <2> QED BY <1>1, <1>5, <1>6, <2>1 DEF SessionTypes, Untouched
<1>8. NumbersFree'
  BY <1>1, StaysFree DEF NumbersFree
<1>9. ForkTarget'
  BY <1>1, <1>5, <1>6 DEF ForkTarget
<1>10. ForkState'
  <2>1. \/ fork'.next <= NumberOf(to)
        \/ NumberOf(to) \in Numbers(events[to])
    <3>1. ASSUME Clear(to) PROVE last <= NumberOf(to)
      BY <1>3, <1>4, <3>1 DEF Clear
    <3>2. Clear(to) \/ NumberOf(to) \in Numbers(events[to])
      BY <1>1 DEF NumbersFree
    <3> QED BY <1>5, <3>1, <3>2
  <2>2. \/ fork'.next <= NumberOf(fork.to)'
        \/ NumberOf(fork.to)' \in Numbers(events'[fork'.to])
    BY <1>1, <1>5, <2>1 DEF NumberOf
  <2>3. ASSUME fork.row PROVE Copying'
    <3>1. /\ origin[to].k > 0 /\ events[to] = NoEvents /\ Asked(to, log, fork.boundary)
      BY <1>1, <2>3 DEF ForkState, log
    <3>2. last = 0 /\ Numbers(events[to]) = {}
      BY <1>3, <3>1, NothingLogged
    <3>3. Copies(events[to], log, {})
      BY <3>1, CopyNothing
    <3>4. IF origin'[to].users < origin'[to].k THEN fork.boundary = All
          ELSE IsKth(Users(log), origin'[to].k, fork.boundary)
      BY <1>6, <3>1 DEF Asked
    <3>5. Below(log, fork.boundary) \ Numbers(rest) = {} /\ Numbers(events[to]) = 0 .. last - 1
      BY <1>2, <3>2
    <3>6. /\ Copies(events'[to], log, Below(log, fork.boundary) \ Numbers(rest))
          /\ Numbers(events'[to]) = 0 .. last - 1
      BY <1>1, <3>3, <3>5
    <3>7. /\ Numbers(rest) \subseteq Below(log, fork.boundary)
          /\ \A n \in Numbers(rest) : rest[n] = log[n]
          /\ \A m \in Below(log, fork.boundary) \ Numbers(rest), n \in Numbers(rest) : m < n
      BY <1>2, <3>5
    <3>8. origin'[to].read = log /\ origin'[to].k > 0
      BY <1>6, <2>3, <3>1
    <3> HIDE DEF to
    <3> QED BY <1>5, <3>4, <3>6, <3>7, <3>8 DEF Copying, Asked
  <2> QED BY <1>5, <2>2, <2>3 DEF ForkState
<1>11. ASSUME NEW j \in Sessions PROVE Faithful(j)'
  <2>1. CASE j = to /\ fork.row
    <3>1. events[to] = NoEvents /\ listed[to] = "none"
      BY <1>1, <2>1 DEF ForkState, ForkTarget
    <3>2. \E c \in Numbers(log) \cup {All} : Copies(NoEvents, log, Below(log, c))
      BY <1>1, NothingCopied
    <3> QED BY <1>1, <1>6, <2>1, <3>1, <3>2 DEF Faithful
  <2>2. CASE j # to \/ ~fork.row
    <3>1. Faithful(j)
      BY DEF SessionsInv
    <3> QED BY <1>1, <1>6, <2>2, <3>1, StaysFaithful
  <2> QED BY <2>1, <2>2
<1>12. origin'[Default].k = 0
  BY <1>1, <1>6, SessionConstants DEF SessionsInv
<1> QED BY <1>7, <1>8, <1>9, <1>10, <1>11, <1>12 DEF SessionsInv

LEMMA EventCopied == ASSUME SessionsInv, CopyEvent PROVE SessionsInv'
<1> DEFINE to  == fork.to
           f   == fork.next
           old == events[to]
<1>1. /\ SessionTypes /\ Untouched /\ NumbersFree /\ ForkTarget /\ ForkState
      /\ fork.at = "copy" /\ fork \in Forks /\ to \in Sessions /\ fork.row \in BOOLEAN
      /\ fork.rest \in Logs /\ f \in Nat /\ old \in Logs /\ to \notin fresh
      /\ listed' = listed /\ next' = next /\ fresh' = fresh /\ into' = into
      /\ logged' = logged /\ origin' = origin
  BY DEF SessionsInv, SessionTypes, CopyEvent, KeepTurns, Forks, ForkTarget
<1>2. PICK n \in Numbers(fork.rest) :
        /\ \A m \in Numbers(fork.rest) : n <= m
        /\ IF f \in Numbers(old)
           THEN fork' = NoFork /\ UNCHANGED events
           ELSE /\ events' = [events EXCEPT ![to] = Put(@, f, fork.rest[n])]
                /\ fork' = [fork EXCEPT !.next = @ + 1,
                               !.rest = [m \in Numbers(@) \ {n} |-> @[m]]]
  BY DEF CopyEvent
<1>3. CASE f \in Numbers(old)
  <2>1. fork' = NoFork /\ events' = events
    BY <1>2, <1>3
  <2>2. SessionTypes' /\ Untouched'
    BY <1>1, <2>1, NothingForked DEF SessionTypes, Untouched
  <2>3. NumbersFree'
    BY <1>1, <2>1, StaysFree DEF NumbersFree
  <2>4. \A j \in Sessions : Faithful(j)'
    BY <1>1, <2>1, StaysFaithful DEF SessionsInv
  <2>5. origin'[Default].k = 0
    BY <1>1 DEF SessionsInv
  <2> QED BY <2>1, <2>2, <2>3, <2>4, <2>5, NoForkStep
<1>4. CASE f \notin Numbers(old)
  <2> DEFINE new  == Put(old, f, fork.rest[n])
             rest == [m \in Numbers(fork.rest) \ {n} |-> fork.rest[m]]
  <2>1. /\ events' = [events EXCEPT ![to] = new]
        /\ fork' = [fork EXCEPT !.next = f + 1, !.rest = rest]
    BY <1>2, <1>4
  <2>2. Numbers(fork.rest) \subseteq Nat /\ n \in Nat /\ fork.rest[n] \in Entries
        /\ Numbers(old) \subseteq Nat
    BY <1>1, LogFacts
  <2>3. /\ new \in Logs /\ Numbers(new) = Numbers(old) \cup {f}
    BY <1>1, <2>2, PutIs
  <2>4. /\ rest \in Logs /\ Numbers(rest) = Numbers(fork.rest) \ {n}
        /\ \A m \in Numbers(rest) : rest[m] = fork.rest[m]
    <3>1. Numbers(fork.rest) \ {n} \in SUBSET Numbers(fork.rest)
      OBVIOUS
    <3>2. rest \in Logs /\ Numbers(rest) = Numbers(fork.rest) \ {n}
      BY <1>1, <3>1, SomeEvents
    <3> QED BY <3>2
  <2> HIDE DEF new, rest, old
  <2>5. /\ fork' \in Forks /\ fork'.at = "copy" /\ fork'.to = to /\ fork'.from = fork.from
        /\ fork'.row = fork.row /\ fork'.boundary = fork.boundary /\ fork'.rest = rest
        /\ fork'.next = f + 1
    <3>1. PICK g \in Nat : g = f + 1
      BY <1>1
    <3>2. fork' = [fork EXCEPT !.next = g, !.rest = rest]
      BY <2>1, <3>1
    <3>3. [fork EXCEPT !.next = g, !.rest = rest] \in Forks
      BY <1>1, <2>4 DEF Forks
    <3> QED BY <1>1, <3>1, <3>2, <3>3 DEF Forks
  <2>6. /\ events' \in [Sessions -> Logs] /\ events'[to] = new
        /\ \A j \in Sessions \ {to} : events'[j] = events[j]
    BY <1>1, <2>1, <2>3 DEF SessionTypes
  <2>7. SessionTypes' /\ Untouched'
    BY <1>1, <2>5, <2>6 DEF SessionTypes, Untouched
  <2>8. /\ next[to] = None => NumberOf(to)' \in Nat /\ \A m \in Numbers(new) : m < NumberOf(to)'
        /\ next[to] # None => NumberOf(to)' = NumberOf(to) /\ NumberOf(to) \in Nat
    <3>1. CASE next[to] = None
      <4>1. NumberOf(to)' = AfterLast(new)
        BY <1>1, <2>5, <2>6, <3>1 DEF NumberOf
      <4> QED BY <2>3, <3>1, <4>1, AfterLastIs
    <3>2. CASE next[to] # None
      <4>1. NumberOf(to)' = NumberOf(to)
        BY <1>1, <2>5, <3>2 DEF NumberOf
      <4>2. NumberOf(to) \in Nat
        BY <1>1, NumberIs
      <4> QED BY <3>2, <4>1, <4>2
    <3> QED BY <3>1, <3>2
  <2>9. /\ f + 1 <= NumberOf(to)' \/ NumberOf(to)' \in Numbers(new)
        /\ (\A m \in Numbers(new) : m < NumberOf(to)') \/ NumberOf(to)' \in Numbers(new)
        /\ to \notin into => \A m \in Numbers(new) : m < NumberOf(to)'
    <3>1. CASE next[to] = None
      <4>1. f \in Numbers(new) /\ f < NumberOf(to)' /\ NumberOf(to)' \in Nat
        BY <2>3, <2>8, <3>1
      <4> QED BY <1>1, <2>8, <3>1, <4>1
    <3>2. CASE next[to] # None
      <4>1. to \in into
        BY <1>1, <3>2 DEF ForkTarget
      <4>2. f <= NumberOf(to) \/ NumberOf(to) \in Numbers(old)
        BY <1>1 DEF ForkState, old
      <4>3. (\A m \in Numbers(old) : m < NumberOf(to)) \/ NumberOf(to) \in Numbers(old)
        BY <1>1 DEF NumbersFree, Clear, old
      <4> QED BY <1>1, <2>2, <2>3, <2>8, <3>2, <4>1, <4>2, <4>3
    <3> QED BY <3>1, <3>2
  <2>10. ASSUME NEW j \in Sessions
         PROVE  /\ Clear(j)' \/ NumberOf(j)' \in Numbers(events'[j])
                /\ j \notin into' => Clear(j)'
    <3>1. CASE j = to
      <4>1. /\ Clear(to)' \/ NumberOf(to)' \in Numbers(events'[to])
            /\ to \notin into => Clear(to)'
        BY <1>1, <2>5, <2>6, <2>9 DEF Clear
      <4>2. NumberOf(j)' = NumberOf(to)' /\ (Clear(to)' => Clear(j)')
        BY <2>5, <3>1 DEF NumberOf, Clear
      <4> QED BY <1>1, <2>5, <3>1, <4>1, <4>2
    <3>2. CASE j # to
      BY <1>1, <2>6, <3>2, StaysFree
    <3> QED BY <3>1, <3>2
  <2>11. NumbersFree'
    BY <2>10 DEF NumbersFree
  <2>12. ForkTarget'
    BY <1>1, <2>5 DEF ForkTarget
  <2>13. ASSUME fork.row
         PROVE  /\ Copying'
                /\ \E c \in Numbers(origin[to].read) \cup {All} :
                     Copies(new, origin[to].read, Below(origin[to].read, c))
    <3> DEFINE src  == origin[to].read
               piece == Below(src, fork.boundary) \ Numbers(fork.rest)
    <3>1. /\ origin[to].k > 0 /\ Asked(to, src, fork.boundary)
          /\ Numbers(fork.rest) \subseteq Below(src, fork.boundary)
          /\ \A m \in Numbers(fork.rest) : fork.rest[m] = src[m]
          /\ \A m \in piece, l \in Numbers(fork.rest) : m < l
          /\ Copies(old, src, piece) /\ Numbers(old) = 0 .. f - 1
      <4>1. Copying
        BY <1>1, <2>13 DEF ForkState
      <4> QED BY <4>1 DEF Copying, old
    <3>2. src \in Logs
      BY <1>1 DEF SessionTypes, Origins
    <3>3. piece \in SUBSET Nat
      BY <3>2, LogFacts DEF Below
    <3> HIDE DEF src, piece
    <3>4. fork.rest[n] = src[n] /\ src[n] \in Entries /\ \A m \in piece : m < n
      BY <1>2, <2>2, <3>1
    <3>5. Copies(Put(old, f, fork.rest[n]), src, piece \cup {n})
      <4>1. /\ old \in Logs /\ piece \in SUBSET Nat /\ Copies(old, src, piece) /\ f \in Nat
            /\ Numbers(old) = 0 .. f - 1 /\ n \in Nat /\ fork.rest[n] \in Entries
            /\ fork.rest[n] = src[n] /\ \A m \in piece : m < n
        BY <1>1, <2>2, <3>1, <3>3, <3>4
      <4> HIDE DEF f
      <4> QED BY <4>1, CopyOneMore
    <3>6. Copies(new, src, piece \cup {n}) /\ Numbers(new) = 0 .. (f + 1) - 1
      <4>1. (0 .. f - 1) \cup {f} = 0 .. (f + 1) - 1
        BY <1>1
      <4>2. Numbers(new) = 0 .. (f + 1) - 1
        BY <2>3, <3>1, <4>1
      <4> QED BY <3>5, <4>2 DEF new
    <3>7. piece \cup {n} = Below(src, fork.boundary) \ Numbers(rest)
      BY <1>2, <2>4, <3>1 DEF piece
    <3>8. \A m \in piece \cup {n}, l \in Numbers(rest) : m < l
      BY <1>2, <2>2, <2>4, <3>1
    <3>9. \A m \in Numbers(rest) : rest[m] = src[m]
      BY <2>4, <3>1
    <3>10. IF origin[to].users < origin[to].k THEN fork.boundary = All
           ELSE IsKth(Users(src), origin[to].k, fork.boundary)
      BY <3>1 DEF Asked
    <3>11. /\ Copies(new, src, Below(src, fork.boundary) \ Numbers(rest))
           /\ \A m \in Below(src, fork.boundary) \ Numbers(rest), l \in Numbers(rest) : m < l
           /\ Numbers(rest) \subseteq Below(src, fork.boundary)
      BY <2>4, <3>1, <3>6, <3>7, <3>8
    <3>12. src' = src
      BY <1>1, <2>5 DEF src
    <3>13. Copying'
      BY <1>1, <2>5, <2>6, <3>1, <3>6, <3>9, <3>10, <3>11, <3>12 DEF Copying, Asked, src
    <3>14. \E c \in Numbers(src) \cup {All} : Copies(new, src, Below(src, c))
      <4>1. fork.boundary \in Numbers(src) \cup {All}
        BY <3>1, AskedIs
      <4>2. PICK c \in Numbers(src) \cup {All} :
              Below(src, c) = Below(src, fork.boundary) \ Numbers(rest)
        BY <3>2, <3>11, <4>1, PartIsBelow
      <4> QED BY <3>11, <4>2
    <3> QED BY <3>13, <3>14 DEF src
  <2>14. ForkState'
    <3>1. \/ fork'.next <= NumberOf(fork.to)'
          \/ NumberOf(fork.to)' \in Numbers(events'[fork'.to])
      BY <2>5, <2>6, <2>9
    <3> QED BY <2>5, <2>13, <3>1 DEF ForkState
  <2>15. ASSUME NEW j \in Sessions PROVE Faithful(j)'
    <3>1. CASE j = to /\ fork.row
      <4>1. \E c \in Numbers(origin[to].read) \cup {All} :
              Copies(new, origin[to].read, Below(origin[to].read, c))
        BY <2>13, <3>1
      <4>2. listed'[to] = "none"
        BY <1>1, <3>1 DEF ForkTarget
      <4> QED BY <1>1, <2>6, <3>1, <4>1, <4>2 DEF Faithful
    <3>2. CASE j = to /\ ~fork.row
      <4>1. origin'[j].k = 0
        BY <1>1, <3>2 DEF ForkTarget
      <4> QED BY <4>1 DEF Faithful
    <3>3. CASE j # to
      <4>1. Faithful(j)
        BY DEF SessionsInv
      <4> QED BY <1>1, <2>6, <3>3, <4>1, StaysFaithful
    <3> QED BY <1>1, <3>1, <3>2, <3>3
  <2>16. origin'[Default].k = 0
    BY <1>1 DEF SessionsInv
  <2> QED BY <2>7, <2>11, <2>12, <2>14, <2>15, <2>16 DEF SessionsInv
<1> QED BY <1>3, <1>4

LEMMA CopyEnded == ASSUME SessionsInv, CopyEnds PROVE SessionsInv'
<1>1. /\ SessionTypes /\ Untouched /\ NumbersFree /\ ForkTarget /\ ForkState
      /\ fork.at = "copy" /\ fork \in Forks /\ fork.row \in BOOLEAN /\ Numbers(fork.rest) = {}
      /\ listed' = listed /\ events' = events /\ next' = next /\ fresh' = fresh /\ into' = into
      /\ logged' = logged /\ origin' = origin
      /\ fork' = IF fork.row THEN [fork EXCEPT !.at = "row"] ELSE NoFork
  BY DEF SessionsInv, SessionTypes, CopyEnds, KeepTurns, Forks
<1>2. fork' \in Forks
  BY <1>1, NothingForked DEF Forks
<1>3. SessionTypes' /\ Untouched'
  BY <1>1, <1>2 DEF SessionTypes, Untouched
<1>4. NumbersFree'
  BY <1>1, StaysFree DEF NumbersFree
<1>5. ForkTarget' /\ ForkState'
  <2>1. CASE fork.row
    <3>1. /\ fork'.at = "row" /\ fork'.to = fork.to /\ fork'.row = fork.row
          /\ fork'.boundary = fork.boundary
      BY <1>1, <2>1 DEF Forks
    <3>2. /\ origin[fork.to].k > 0
          /\ Asked(fork.to, origin[fork.to].read, fork.boundary)
          /\ Copies(events[fork.to], origin[fork.to].read,
                    Below(origin[fork.to].read, fork.boundary) \ {})
      BY <1>1, <2>1 DEF ForkState, Copying
    <3> QED BY <1>1, <2>1, <3>1, <3>2 DEF ForkTarget, ForkState, Asked
  <2>2. CASE ~fork.row
    BY <1>1, <2>2, NoForkNow
  <2> QED BY <1>1, <2>1, <2>2
<1>6. \A j \in Sessions : Faithful(j)'
  BY <1>1, StaysFaithful DEF SessionsInv
<1>7. origin'[Default].k = 0
  BY <1>1 DEF SessionsInv
<1> QED BY <1>3, <1>4, <1>5, <1>6, <1>7 DEF SessionsInv

LEMMA RowCreated == ASSUME SessionsInv, CreateRow PROVE SessionsInv'
<1>1. /\ SessionTypes /\ Untouched /\ NumbersFree /\ ForkTarget /\ ForkState
      /\ fork.at = "row" /\ fork.to \in Sessions /\ fork' = NoFork
      /\ listed' = [listed EXCEPT ![fork.to] = "live"]
      /\ events' = events /\ next' = next /\ fresh' = fresh /\ into' = into
      /\ logged' = logged /\ origin' = origin
  BY DEF SessionsInv, SessionTypes, CreateRow, KeepTurns, Forks
<1>2. /\ listed' \in [Sessions -> {"none", "live", "archived"}]
      /\ \A j \in Sessions \ {fork.to} : listed'[j] = listed[j]
  BY <1>1 DEF SessionTypes
<1>3. SessionTypes' /\ Untouched'
  BY <1>1, <1>2, NothingForked DEF SessionTypes, Untouched, ForkTarget
<1>4. NumbersFree'
  BY <1>1, StaysFree DEF NumbersFree
<1>5. ASSUME NEW j \in Sessions PROVE Faithful(j)'
  <2>1. CASE j = fork.to
    <3> DEFINE src == origin[j].read
               log == events[j]
    <3>1. ASSUME origin[j].k > 0
          PROVE  /\ \E b \in Numbers(src) \cup {All} : Copies(log, src, Below(src, b))
                 /\ IF origin[j].users < origin[j].k THEN Copies(log, src, Below(src, All))
                    ELSE \E n \in Numbers(src) : /\ IsKth(Users(src), origin[j].k, n)
                                                 /\ Copies(log, src, Below(src, n))
      <4>1. Asked(j, src, fork.boundary) /\ Copies(log, src, Below(src, fork.boundary))
        BY <1>1, <2>1, <3>1 DEF ForkState
      <4>2. fork.boundary \in Numbers(src) \cup {All}
        BY <4>1, AskedIs
      <4>3. CASE origin[j].users < origin[j].k
        BY <4>1, <4>2, <4>3 DEF Asked
      <4>4. CASE ~(origin[j].users < origin[j].k)
        <5>1. IsKth(Users(src), origin[j].k, fork.boundary)
          BY <4>1, <4>4 DEF Asked
        <5>2. fork.boundary \in Numbers(src)
          BY <5>1 DEF IsKth, Users
        <5> QED BY <4>1, <4>2, <4>4, <5>1, <5>2
      <4> QED BY <4>3, <4>4
    <3> QED BY <1>1, <3>1 DEF Faithful
  <2>2. CASE j # fork.to
    <3>1. Faithful(j)
      BY DEF SessionsInv
    <3> QED BY <1>1, <1>2, <2>2, <3>1, StaysFaithful
  <2> QED BY <2>1, <2>2
<1>6. origin'[Default].k = 0
  BY <1>1 DEF SessionsInv
<1> QED BY <1>1, <1>3, <1>4, <1>5, <1>6, NoForkStep

LEMMA SessionsStep == ASSUME SessionsInv, SessionsNext PROVE SessionsInv'
<1>1. CASE \E i \in Sessions :
             \/ CreateSession(i) \/ ArchiveSession(i) \/ DeleteSession(i) \/ LookAt(i)
             \/ \E j \in Sessions : \/ \E k \in 0 .. MaxKth : ForkSession(i, j, k)
                                    \/ \E b \in 0 .. MaxLogged : ForkEvents(i, j, b)
  <2>1. PICK i \in Sessions :
             \/ CreateSession(i) \/ ArchiveSession(i) \/ DeleteSession(i) \/ LookAt(i)
             \/ \E j \in Sessions : \/ \E k \in 0 .. MaxKth : ForkSession(i, j, k)
                                    \/ \E b \in 0 .. MaxLogged : ForkEvents(i, j, b)
    BY <1>1
  <2>2. CASE \E j \in Sessions : \E k \in 0 .. MaxKth : ForkSession(i, j, k)
    <3>1. PICK j \in Sessions, k \in 0 .. MaxKth : ForkSession(i, j, k)
      BY <2>2
    <3>2. k \in Nat
      BY SessionConstants
    <3> QED BY <3>1, <3>2, SessionForked
  <2>3. CASE \E j \in Sessions : \E b \in 0 .. MaxLogged : ForkEvents(i, j, b)
    <3>1. PICK j \in Sessions, b \in 0 .. MaxLogged : ForkEvents(i, j, b)
      BY <2>3
    <3>2. b \in Nat
      BY SessionConstants
    <3> QED BY <3>1, <3>2, EventsForked
  <2> QED BY <2>1, <2>2, <2>3, SessionCreated, SessionArchived, SessionDeleted, SessionLookedAt
<1> QED BY <1>1, TurnLogged, ProcessRestarted, BoundarySought, SourceWasRead, EventCopied,
           CopyEnded, RowCreated DEF SessionsNext

LEMMA SessionsShow == SessionsInv => SessionStoreSound
<1> SUFFICES ASSUME SessionsInv PROVE AppendsSucceed /\ ForksFaithful
  BY DEF SessionStoreSound
<1>1. AppendsSucceed
  <2>1. ASSUME NEW i \in Sessions \ into, next[i] # None
        PROVE  \A n \in Numbers(events[i]) : n < next[i]
    <3>1. Clear(i)
      BY DEF SessionsInv, NumbersFree
    <3> QED BY <2>1, <3>1 DEF Clear, NumberOf
  <2> QED BY <2>1 DEF AppendsSucceed
<1>2. ForksFaithful
  <2>1. \A i \in Sessions : Faithful(i)
    BY DEF SessionsInv
  <2> QED BY <2>1 DEF ForksFaithful, Faithful
<1> QED BY <1>1, <1>2

---------------------------------------------------------------------------
(* The history that the model is told (core/memory.py, core/db.py).              *)

Messages == [role : Roles \cup {"system"}, text : Texts, n : Nat]
Conversations == {l \in Seq(Messages) : \A i \in 1 .. Len(l) : l[i].n = i}

(* What holds with a part holds for its places up to a last one.                   *)
LEMMA GreatestBelow ==
  ASSUME NEW T \in SUBSET Nat, NEW q \in Nat, NEW p \in T, p < q
  PROVE  \E x \in T : x < q /\ \A y \in T : y <= x \/ q <= y
<1> DEFINE D == {d \in Nat : \E x \in T : x < q /\ d = q - x}
<1>1. q - p \in D
  BY DEF D
<1>2. PICK d \in D : \A e \in D : d <= e
  <2>1. D \subseteq Nat /\ D # {}
    BY <1>1
  <2> HIDE DEF D
  <2> QED BY <2>1, LeastNumber
<1>3. PICK x \in T : x < q /\ d = q - x
  BY <1>2
<1>4. ASSUME NEW y \in T, ~(q <= y) PROVE y <= x
  <2>1. q - y \in D
    BY <1>4
  <2>2. d <= q - y
    BY <1>2, <2>1
  <2> QED BY <1>3, <2>2
<1> QED BY <1>3, <1>4

(* A part that ends another holds all that comes later there.                      *)
Ending(T, S) == T \subseteq S /\ \A n \in T, m \in S : n < m => m \in T

LEMMA EndingOfEnding ==
  ASSUME NEW R, NEW S, NEW T, Ending(T, S), Ending(S, R)
  PROVE  Ending(T, R)
BY DEF Ending

LEMMA LastOfIs ==
  ASSUME NEW S \in SUBSET Nat, IsFiniteSet(S), NEW k \in Nat
  PROVE  /\ Ending(LastOf(S, k), S) /\ IsFiniteSet(LastOf(S, k))
         /\ Cardinality(LastOf(S, k)) <= k
         /\ Cardinality(S) <= k => LastOf(S, k) = S
<1> DEFINE T == LastOf(S, k)
           Later(n) == {m \in S : m > n}
<1>1. /\ T \subseteq S /\ \A n \in S : n \in T <=> Cardinality(Later(n)) < k
  BY DEF LastOf
<1>2. \A n \in S : IsFiniteSet(Later(n)) /\ Cardinality(Later(n)) \in Nat
  BY FS_Subset, FS_CardinalityType
<1>3. IsFiniteSet(T) /\ Cardinality(T) \in Nat
  BY <1>1, FS_Subset, FS_CardinalityType
<1>4. ASSUME NEW n \in T, NEW m \in S, n < m PROVE m \in T
  <2>1. Later(m) \subseteq Later(n)
    <3>1. n \in Nat /\ m \in Nat /\ \A y \in S : y \in Nat
      BY <1>1
    <3>2. ASSUME NEW y \in S, y > m PROVE y > n
      BY <1>4, <3>1, <3>2
    <3> QED BY <3>2
  <2>2. Cardinality(Later(m)) <= Cardinality(Later(n))
    BY <1>1, <1>2, <2>1, FS_Subset
  <2> HIDE DEF Later, T
  <2> QED BY <1>1, <1>2, <1>4, <2>2
<1>5. Cardinality(T) <= k
  <2>1. CASE T = {}
    BY <2>1, FS_EmptySet
  <2>2. CASE T # {}
    <3>1. PICK x \in T : \A y \in T : x <= y
      <4>1. T \subseteq Nat
        BY <1>1
      <4> HIDE DEF T
      <4> QED BY <2>2, <4>1, LeastNumber
    <3>2. T \ {x} \subseteq Later(x)
      <4>1. \A y \in T : y \in Nat /\ y \in S
        BY <1>1
      <4> HIDE DEF T
      <4>2. \A y \in T \ {x} : y > x
        BY <3>1, <4>1
      <4> QED BY <4>1, <4>2
    <3>3. Cardinality(T \ {x}) = Cardinality(T) - 1 /\ IsFiniteSet(T \ {x})
      BY <1>3, <3>1, FS_RemoveElement
    <3>4. Cardinality(T \ {x}) <= Cardinality(Later(x))
      BY <1>1, <1>2, <3>1, <3>2, FS_Subset
    <3> HIDE DEF T, Later
    <3> QED BY <1>1, <1>2, <1>3, <3>1, <3>3, <3>4
  <2> QED BY <2>1, <2>2
<1>6. ASSUME Cardinality(S) <= k PROVE T = S
  <2>1. ASSUME NEW n \in S PROVE n \in T
    <3>1. Later(n) \subseteq S \ {n}
      OBVIOUS
    <3>2. Cardinality(S \ {n}) = Cardinality(S) - 1 /\ IsFiniteSet(S \ {n})
      BY <2>1, FS_RemoveElement
    <3>3. Cardinality(Later(n)) <= Cardinality(S \ {n})
      BY <3>1, <3>2, FS_Subset
    <3>4. Cardinality(S) \in Nat
      BY FS_CardinalityType
    <3> HIDE DEF T, Later
    <3> QED BY <1>1, <1>2, <1>6, <2>1, <3>2, <3>3, <3>4
  <2> QED BY <1>1, <2>1
<1> QED BY <1>1, <1>3, <1>4, <1>5, <1>6 DEF Ending

LEMMA TokensAre ==
  ASSUME NEW log, NEW S, IsFiniteSet(S), NEW T \in SUBSET S
  PROVE  /\ Tokens(log, S) \in Nat \ {0} /\ Tokens(log, T) \in Nat \ {0}
         /\ Tokens(log, T) <= Tokens(log, S) /\ Tokens(log, {}) = 1
<1> DEFINE P(U) == {p \in U \X Texts : 0 < p[2] /\ p[2] <= log[p[1]].text}
<1>1. IsFiniteSet(S \X Texts)
  <2>1. IsFiniteSet(Texts)
    <3>1. ASSUME NEW n \in Nat PROVE IsFiniteSet(0 .. n)
      BY FS_Interval
    <3> QED BY <3>1 DEF Texts
  <2> QED BY <2>1, FS_Product, Zenon
<1>2. P(S) \subseteq S \X Texts /\ P(T) \subseteq P(S) /\ P({}) = {}
  OBVIOUS
<1>3. IsFiniteSet(P(S)) /\ IsFiniteSet(P(T))
  BY <1>1, <1>2, FS_Subset
<1>4. /\ Cardinality(P(S)) \in Nat /\ Cardinality(P(T)) \in Nat
      /\ Cardinality(P(T)) <= Cardinality(P(S)) /\ Cardinality(P({})) = 0
  BY <1>2, <1>3, FS_Subset, FS_CardinalityType, FS_EmptySet
<1>5. \A U : Tokens(log, U) = IF Cardinality(P(U)) = 0 THEN 1 ELSE Cardinality(P(U))
  BY DEF Tokens
<1> HIDE DEF P
<1> QED BY <1>4, <1>5

LEMMA FittingIs ==
  ASSUME NEW log, NEW S \in SUBSET Nat, IsFiniteSet(S), NEW budget \in Nat \ {0}
  PROVE  /\ Ending(Fitting(log, S, budget), S) /\ IsFiniteSet(Fitting(log, S, budget))
         /\ \/ Tokens(log, Fitting(log, S, budget)) <= budget
            \/ Cardinality(Fitting(log, S, budget)) = 1
         /\ Tokens(log, S) <= budget => Fitting(log, S, budget) = S
<1> DEFINE F == Fitting(log, S, budget)
           From(n) == {m \in S : m >= n}
           Youngest(n) == \A m \in S : m <= n
<1>1. F \subseteq S /\ \A n \in S : n \in F <=> Youngest(n) \/ Tokens(log, From(n)) <= budget
  BY DEF Fitting
<1>2. IsFiniteSet(F) /\ \A n \in S : IsFiniteSet(From(n))
  BY <1>1, FS_Subset
<1>3. ASSUME NEW n \in F, NEW m \in S, n < m PROVE m \in F
  <2>1. From(m) \subseteq From(n) /\ ~Youngest(n) /\ n \in S
    <3>1. n \in S /\ n \in Nat /\ m \in Nat /\ \A y \in S : y \in Nat
      BY <1>1
    <3>2. ASSUME NEW y \in S, y >= m PROVE y >= n
      BY <1>3, <3>1, <3>2
    <3>3. ~(m <= n)
      BY <1>3, <3>1
    <3> QED BY <3>1, <3>2, <3>3
  <2>2. Tokens(log, From(n)) <= budget
    BY <1>1, <2>1
  <2>3. Tokens(log, From(m)) <= Tokens(log, From(n)) /\ Tokens(log, From(m)) \in Nat
        /\ Tokens(log, From(n)) \in Nat
    BY <1>2, <2>1, TokensAre
  <2> HIDE DEF From
  <2>4. Tokens(log, From(m)) <= budget
    BY <2>2, <2>3
  <2> QED BY <1>1, <2>4
<1>4. ASSUME NEW x \in F, \A y \in F : x <= y, Tokens(log, From(x)) <= budget
      PROVE  Tokens(log, F) <= budget
  <2>1. F \subseteq From(x) /\ x \in S
    BY <1>1, <1>4
  <2>2. Tokens(log, F) <= Tokens(log, From(x)) /\ Tokens(log, F) \in Nat
        /\ Tokens(log, From(x)) \in Nat
    BY <1>2, <2>1, TokensAre
  <2> HIDE DEF F, From
  <2> QED BY <1>4, <2>2
<1>5. Tokens(log, F) <= budget \/ Cardinality(F) = 1
  <2>1. CASE F = {}
    <3>1. Tokens(log, {}) = 1
      BY FS_EmptySet, TokensAre
    <3> QED BY <2>1, <3>1
  <2>2. CASE F # {}
    <3>1. F \subseteq Nat
      BY <1>1
    <3> HIDE DEF F
    <3>2. PICK x \in F : \A y \in F : x <= y
      BY <2>2, <3>1, LeastNumber
    <3>3. CASE Tokens(log, From(x)) <= budget
      BY <1>4, <3>2, <3>3
    <3>4. CASE Youngest(x)
      <4>1. F = {x}
        <5>1. \A y \in F : y \in Nat /\ y \in S
          BY <1>1, <3>1
        <5>2. \A y \in F : y <= x
          BY <3>4, <5>1
        <5>3. \A y \in F : y = x
          BY <3>2, <5>1, <5>2
        <5> QED BY <3>2, <5>3
      <4> QED BY <4>1, FS_Singleton
    <3> QED BY <1>1, <3>2, <3>3, <3>4
  <2> QED BY <2>1, <2>2
<1>6. ASSUME Tokens(log, S) <= budget PROVE F = S
  <2>1. ASSUME NEW n \in S PROVE n \in F
    <3>1. From(n) \subseteq S
      OBVIOUS
    <3>2. Tokens(log, From(n)) <= Tokens(log, S) /\ Tokens(log, From(n)) \in Nat
          /\ Tokens(log, S) \in Nat
      BY <3>1, TokensAre
    <3> HIDE DEF From
    <3>3. Tokens(log, From(n)) <= budget
      BY <1>6, <3>2
    <3> QED BY <1>1, <3>3
  <2> QED BY <1>1, <2>1
<1> QED BY <1>1, <1>2, <1>3, <1>5, <1>6 DEF Ending

(* What follows in the window follows there without a hole: between two places that     *)
(* are kept, all messages are empty or repeat the first, and the two differ.          *)
Holeless(log, T) ==
  \A p, q \in T : p < q /\ (\A m \in T : m <= p \/ q <= m) =>
      /\ \A n \in p + 1 .. q - 1 : log[n].text = 0 \/ SameSaid(log[n], log[p])
      /\ ~SameSaid(log[p], log[q])

LEMMA DistinctHoleless ==
  ASSUME NEW log, NEW D \in SUBSET Nat, NEW R, Ending(R, D),
         NEW T, Ending(T, Distinct(log, R)), \A p, q \in D : p + 1 .. q - 1 \subseteq D
  PROVE  Holeless(log, T)
<1> DEFINE W == Worded(log, R)
<1>1. /\ R \subseteq D /\ D \subseteq Nat /\ W \subseteq R /\ T \subseteq W
      /\ \A n \in R : n \in W <=> log[n].text # 0
      /\ T \subseteq Distinct(log, R) /\ Distinct(log, R) \subseteq W
  BY DEF Ending, Distinct, Worded
<1>2. \A n \in W : n \in Distinct(log, R) <=>
        \A m \in W : m < n /\ (\A l \in W : l <= m \/ n <= l) => ~SameSaid(log[m], log[n])
  BY DEF Distinct
<1>3. \A n \in T, m \in Distinct(log, R) : n < m => m \in T
  BY DEF Ending
<1>4. \A n \in R, m \in D : n < m => m \in R
  BY DEF Ending
<1> HIDE DEF W
<1> SUFFICES ASSUME NEW p \in T, NEW q \in T, p < q, \A m \in T : m <= p \/ q <= m
             PROVE  /\ \A n \in p + 1 .. q - 1 : log[n].text = 0 \/ SameSaid(log[n], log[p])
                    /\ ~SameSaid(log[p], log[q])
  BY DEF Holeless
<1>5. p \in W /\ q \in W /\ p \in Nat /\ q \in Nat /\ p \in D /\ q \in D /\ p \in R
  BY <1>1
<1> DEFINE Other == {n \in W : p < n /\ n < q /\ ~SameSaid(log[n], log[p])}
<1>6. Other = {}
  <2>1. ASSUME Other # {} PROVE FALSE
    <3>1. Other \subseteq Nat
      BY <1>1
    <3>2. PICK n \in Other : \A o \in Other : n <= o
      <4> HIDE DEF Other
      <4> QED BY <2>1, <3>1, LeastNumber
    <3>3. n \in W /\ n \in Nat /\ p < n /\ n < q /\ ~SameSaid(log[n], log[p])
      BY <3>1, <3>2
    <3>4. n \notin Distinct(log, R)
      BY <1>3, <1>5, <3>3
    <3>5. PICK m \in W : /\ m < n /\ \A l \in W : l <= m \/ n <= l
                         /\ SameSaid(log[m], log[n])
      BY <1>2, <3>3, <3>4
    <3>6. m \in Nat /\ p <= m
      <4>1. p <= m \/ n <= p
        BY <1>5, <3>5
      <4>2. m \in Nat
        BY <1>1
      <4> QED BY <1>5, <3>3, <4>1, <4>2
    <3>7. CASE m = p
      BY <3>3, <3>5, <3>7 DEF SameSaid
    <3>8. CASE m # p
      <4>1. p < m /\ m < q
        BY <1>5, <3>3, <3>5, <3>6, <3>8
      <4>2. m \notin Other
        BY <3>2, <3>3, <3>5, <3>6
      <4>3. SameSaid(log[m], log[p])
        BY <3>5, <4>1, <4>2
      <4> QED BY <3>3, <3>5, <4>3 DEF SameSaid
    <3> QED BY <3>7, <3>8
  <2> QED BY <2>1
<1>7. ASSUME NEW n \in p + 1 .. q - 1, log[n].text # 0 PROVE SameSaid(log[n], log[p])
  <2>1. n \in D /\ n \in Nat /\ p < n /\ n < q
    BY <1>5, <1>7
  <2>2. n \in W
    BY <1>1, <1>4, <1>5, <1>7, <2>1
  <2> QED BY <1>6, <2>1, <2>2
<1>8. ~SameSaid(log[p], log[q])
  <2>1. PICK m \in W : m < q /\ \A l \in W : l <= m \/ q <= l
    <3>1. W \in SUBSET Nat
      BY <1>1
    <3> QED BY <1>5, <3>1, GreatestBelow
  <2>2. m \in Nat /\ p <= m
    <3>1. p <= m \/ q <= p
      BY <1>5, <2>1
    <3> QED BY <1>1, <1>5, <2>1, <3>1
  <2>3. q \in Distinct(log, R)
    BY <1>1
  <2>4. ~SameSaid(log[m], log[q])
    BY <1>2, <1>5, <2>1, <2>3
  <2>5. m = p \/ SameSaid(log[m], log[p])
    BY <1>5, <1>6, <2>1, <2>2
  <2> QED BY <2>4, <2>5 DEF SameSaid
<1> QED BY <1>7, <1>8

(* The history that is read is the end of what is distinct in the end of a           *)
(* conversation, and within its bounds.                                        *)
LEMMA HistoryIs ==
  ASSUME NEW log, NEW len \in Nat, DOMAIN log = 1 .. len,
         NEW n \in Nat \ {0}, NEW budget \in Nat \ {0}
  PROVE  /\ HistoryForLlm(log, n, budget) \subseteq 1 .. len
         /\ IsFiniteSet(HistoryForLlm(log, n, budget))
         /\ Cardinality(HistoryForLlm(log, n, budget)) <= n
         /\ \/ Tokens(log, HistoryForLlm(log, n, budget)) <= budget
            \/ Cardinality(HistoryForLlm(log, n, budget)) = 1
         /\ \A T : Ending(T, HistoryForLlm(log, n, budget)) => Holeless(log, T)
         /\ /\ len <= 2 * n /\ Cardinality(Distinct(log, DOMAIN log)) <= n
            /\ Tokens(log, Distinct(log, DOMAIN log)) <= budget
            => HistoryForLlm(log, n, budget) = Distinct(log, DOMAIN log)
<1> DEFINE D == 1 .. len
           R == LastOf(D, 2 * (2 * n))
           A == Distinct(log, R)
           B == LastOf(A, 2 * n)
           F == Fitting(log, B, budget)
           H == LastOf(F, n)
<1>1. DbHistory(log, 2 * n) = B /\ HistoryForLlm(log, n, budget) = H
  BY DEF DbHistory, HistoryForLlm
<1>2. /\ D \in SUBSET Nat /\ IsFiniteSet(D) /\ Cardinality(D) = len
      /\ 2 * n \in Nat /\ 2 * (2 * n) \in Nat /\ n \in Nat
  <2>1. IsFiniteSet(1 .. len) /\ Cardinality(1 .. len) = len
    BY FS_Interval
  <2> QED BY <2>1
<1>3. /\ Ending(R, D) /\ (len <= 2 * (2 * n) => R = D)
  BY <1>2, LastOfIs
<1>4. R \in SUBSET Nat /\ A \in SUBSET R /\ IsFiniteSet(R) /\ IsFiniteSet(A)
  <2>1. R \subseteq D /\ A \subseteq R
    BY <1>3 DEF Ending, Distinct, Worded
  <2> HIDE DEF D, R, A
  <2>2. IsFiniteSet(R)
    BY <1>2, <2>1, FS_Subset
  <2> QED BY <1>2, <2>1, <2>2, FS_Subset
<1> HIDE DEF D, R
<1>5. /\ Ending(B, A) /\ IsFiniteSet(B) /\ (Cardinality(A) <= 2 * n => B = A)
  <2>1. A \in SUBSET Nat
    BY <1>4
  <2> HIDE DEF A
  <2> QED BY <1>2, <1>4, <2>1, LastOfIs
<1> HIDE DEF A, B
<1>6. B \in SUBSET Nat
  BY <1>4, <1>5 DEF Ending
<1>7. /\ Ending(F, B) /\ IsFiniteSet(F)
      /\ Tokens(log, F) <= budget \/ Cardinality(F) = 1
      /\ Tokens(log, B) <= budget => F = B
  BY <1>5, <1>6, FittingIs
<1> HIDE DEF F
<1>8. F \in SUBSET Nat
  <2>1. F \subseteq B
    BY <1>7 DEF Ending
  <2> QED BY <1>6, <2>1
<1>9. /\ Ending(H, F) /\ IsFiniteSet(H) /\ Cardinality(H) <= n
      /\ Cardinality(F) <= n => H = F
  BY <1>2, <1>7, <1>8, LastOfIs
<1>10. H \subseteq F /\ F \subseteq B /\ B \subseteq A /\ A \subseteq R /\ R \subseteq D
  BY <1>3, <1>4, <1>5, <1>7, <1>9 DEF Ending
<1> HIDE DEF H
<1>11. Tokens(log, H) <= budget \/ Cardinality(H) = 1
  <2>1. /\ Tokens(log, H) \in Nat /\ Tokens(log, F) \in Nat /\ Tokens(log, H) <= Tokens(log, F)
        /\ Tokens(log, {}) = 1
    BY <1>7, <1>10, TokensAre
  <2>2. Cardinality(H) \in Nat /\ Cardinality(H) <= Cardinality(F) /\ Cardinality(F) \in Nat
    BY <1>7, <1>9, <1>10, FS_Subset, FS_CardinalityType
  <2>3. Cardinality(H) = 0 => H = {}
    BY <1>9, FS_EmptySet
  <2>4. CASE Tokens(log, F) <= budget
    BY <2>1, <2>4
  <2>5. CASE Cardinality(F) = 1
    BY <2>1, <2>2, <2>3, <2>5
  <2> QED BY <1>7, <2>4, <2>5
<1>12. ASSUME NEW T, Ending(T, H) PROVE Holeless(log, T)
  <2>1. Ending(T, A)
    BY <1>5, <1>7, <1>9, <1>12, EndingOfEnding
  <2>2. \A p, q \in D : p + 1 .. q - 1 \subseteq D
    BY DEF D
  <2>3. Ending(T, Distinct(log, R))
    BY <2>1 DEF A
  <2> QED BY <1>2, <1>3, <2>2, <2>3, DistinctHoleless
<1>13. ASSUME len <= 2 * n, Cardinality(Distinct(log, DOMAIN log)) <= n,
              Tokens(log, Distinct(log, DOMAIN log)) <= budget
       PROVE  H = Distinct(log, DOMAIN log)
  <2>1. A = Distinct(log, DOMAIN log)
    <3>1. len <= 2 * (2 * n)
      BY <1>13
    <3>2. DOMAIN log = D
      BY DEF D
    <3> QED BY <1>3, <3>1, <3>2 DEF A
  <2>2. Cardinality(A) \in Nat
    BY <1>4, FS_CardinalityType DEF A
  <2>3. B = A
    BY <1>5, <1>13, <2>1, <2>2
  <2>4. F = A
    BY <1>7, <1>13, <2>1, <2>3
  <2> QED BY <1>9, <1>13, <2>1, <2>4
<1>14. H \subseteq 1 .. len
  BY <1>10 DEF D
<1> QED BY <1>1, <1>9, <1>11, <1>12, <1>13, <1>14

---------------------------------------------------------------------------
(* The invariant. *)

TalkStates == [at : {"new", "read", "look", "keep", "out", "log"}, read : SUBSET Nat,
               sum : SUBSET Nat, told : SUBSET Nat, was : {"none", "cached", "fresh"}]
HistoryTypes == /\ said \in Conversations /\ done \in Seq(SUBSET Nat)
                /\ talk \in [Talks -> TalkStates]

(* What a chat was told is a part of the conversation so far and the end of what it    *)
(* read; while its summary is sought, that covers the rest.                       *)
Told(c) ==
  LET t == talk[c] IN
  /\ t.told \subseteq 1 .. Len(said) /\ ToldWell(c) /\ Holeless(said, t.told)
  /\ t.at = "look" => Ending(t.told, t.read)

HistoryInv == HistoryTypes /\ CompactsWell /\ \A c \in Talks : Told(c)

LEMMA SilentIs ==
  /\ Silent \in TalkStates
  /\ Silent.told = {} /\ Silent.at = "new" /\ Silent.was = "none"
BY DEF Silent, TalkStates

LEMMA NothingTold ==
  ASSUME NEW log
  PROVE  /\ Cardinality({}) <= 3 * MaxHistory /\ Tokens(log, {}) <= 3 * MaxTokens
         /\ Holeless(log, {})
<1>1. Cardinality({}) = 0 /\ Tokens(log, {}) = 1
  BY FS_EmptySet, TokensAre
<1> QED BY <1>1, HistoryConstants DEF Holeless

LEMMA HistoryStart == HistoryIdle => HistoryInv
<1> SUFFICES ASSUME HistoryIdle PROVE HistoryInv
  OBVIOUS
<1>1. said = << >> /\ done = << >> /\ talk = [c \in Talks |-> Silent] /\ squeezed = NoSqueeze
  BY DEF HistoryIdle
<1>2. HistoryTypes
  BY <1>1, SilentIs DEF HistoryTypes, Conversations
<1>3. CompactsWell
  BY <1>1 DEF CompactsWell, NoSqueeze
<1>4. ASSUME NEW c \in Talks PROVE Told(c)
  <2>1. talk[c].told = {} /\ talk[c].at = "new" /\ talk[c].was = "none"
    BY <1>1, SilentIs
  <2> QED BY <2>1, NothingTold DEF Told, ToldWell
<1> QED BY <1>2, <1>3, <1>4 DEF HistoryInv

(* A conversation with one more message says what it said.                         *)
LEMMA MoreSaid ==
  ASSUME NEW log, NEW more, NEW T, \A n \in T : more[n] = log[n]
  PROVE  Tokens(more, T) = Tokens(log, T)
<1>1. {p \in T \X Texts : 0 < p[2] /\ p[2] <= more[p[1]].text}
       = {p \in T \X Texts : 0 < p[2] /\ p[2] <= log[p[1]].text}
  OBVIOUS
<1> QED BY <1>1 DEF Tokens

LEMMA MoreHoleless ==
  ASSUME NEW log, NEW more, NEW len \in Nat, NEW T \in SUBSET (1 .. len),
         \A n \in 1 .. len : more[n] = log[n], Holeless(log, T)
  PROVE  Holeless(more, T)
<1> SUFFICES ASSUME NEW p \in T, NEW q \in T, p < q, \A m \in T : m <= p \/ q <= m
             PROVE  /\ \A n \in p + 1 .. q - 1 : more[n].text = 0 \/ SameSaid(more[n], more[p])
                    /\ ~SameSaid(more[p], more[q])
  BY DEF Holeless
<1>1. /\ \A n \in p + 1 .. q - 1 : log[n].text = 0 \/ SameSaid(log[n], log[p])
      /\ ~SameSaid(log[p], log[q])
  BY DEF Holeless
<1>2. p \in 1 .. len /\ q \in 1 .. len /\ \A n \in p + 1 .. q - 1 : n \in 1 .. len
  OBVIOUS
<1> QED BY <1>1, <1>2

LEMMA Recorded ==
  ASSUME HistoryTypes, NEW role \in Roles, Record(role)
  PROVE  /\ said' \in Conversations /\ Len(said') = Len(said) + 1
         /\ \A n \in 1 .. Len(said) : said'[n] = said[n]
<1>1. said \in Seq(Messages) /\ \A i \in 1 .. Len(said) : said[i].n = i
  BY DEF HistoryTypes, Conversations
<1>2. PICK x \in Texts : said' = Append(said, Says(role, x, Len(said) + 1))
  BY DEF Record
<1>3. PICK m : m = Says(role, x, Len(said) + 1)
  OBVIOUS
<1>4. m \in Messages /\ m.n = Len(said) + 1
  BY <1>1, <1>3 DEF Says, Messages
<1>5. /\ said' \in Seq(Messages) /\ Len(said') = Len(said) + 1
      /\ \A n \in 1 .. Len(said) : said'[n] = said[n]
      /\ said'[Len(said) + 1] = m
  BY <1>1, <1>2, <1>3, <1>4
<1>6. \A i \in 1 .. Len(said') : said'[i].n = i
  BY <1>1, <1>4, <1>5
<1> QED BY <1>5, <1>6 DEF Conversations

(* A chat whose record stays stays well told, as the conversation goes on.          *)
LEMMA ToldStays ==
  ASSUME NEW c, Told(c), Len(said) \in Nat, Len(said') \in Nat, Len(said) <= Len(said'),
         \A n \in 1 .. Len(said) : said'[n] = said[n],
         talk'[c].told = talk[c].told, talk'[c].read = talk[c].read,
         talk'[c].was = talk[c].was, talk'[c].sum = talk[c].sum,
         talk'[c].at = "look" => talk[c].at = "look"
  PROVE  Told(c)'
<1>1. /\ talk[c].told \subseteq 1 .. Len(said) /\ ToldWell(c) /\ Holeless(said, talk[c].told)
      /\ talk[c].at = "look" => Ending(talk[c].told, talk[c].read)
  BY DEF Told
<1>2. Holeless(said', talk[c].told)
  <2>0. PICK len \in Nat : len = Len(said)
    OBVIOUS
  <2>1. PICK T \in SUBSET (1 .. len) : T = talk[c].told
    BY <1>1, <2>0
  <2>2. Holeless(said, T) /\ \A n \in 1 .. len : said'[n] = said[n]
    BY <1>1, <2>0, <2>1
  <2>3. Holeless(said', T)
    BY <2>2, MoreHoleless
  <2> QED BY <2>1, <2>3
<1>3. Tokens(said', talk[c].told) = Tokens(said, talk[c].told)
  BY <1>1, MoreSaid
<1>4. talk[c].told \subseteq 1 .. Len(said')
  BY <1>1
<1>5. ToldWell(c)'
  BY <1>1, <1>3 DEF ToldWell
<1> QED BY <1>1, <1>2, <1>4, <1>5 DEF Told

LEMMA TalksIn ==
  ASSUME HistoryInv, NEW c \in Talks, TalkIn(c)
  PROVE  HistoryInv'
<1>1. /\ HistoryTypes /\ CompactsWell /\ Record("user") /\ squeezed' = squeezed /\ done' = done
      /\ \A d \in Talks : Told(d)
  BY DEF HistoryInv, TalkIn
<1>2. PICK t : /\ talk' = [talk EXCEPT ![c] = t]
               /\ t.told = {} /\ t.at # "look" /\ t.was = "none"
               /\ t \in TalkStates
  <2>1. PICK way \in {"read", "out"} : talk' = [talk EXCEPT ![c] = [Silent EXCEPT !.at = way]]
    BY DEF TalkIn, TalkTo
  <2>2. PICK t : t = [Silent EXCEPT !.at = way]
    OBVIOUS
  <2>3. /\ t.told = {} /\ t.at # "look" /\ t.was = "none"
        /\ t \in TalkStates
    BY <2>2, SilentIs DEF TalkStates
  <2> QED BY <2>1, <2>2, <2>3
<1>3. /\ said' \in Conversations /\ Len(said') = Len(said) + 1
      /\ \A n \in 1 .. Len(said) : said'[n] = said[n]
  BY <1>1, Recorded DEF Roles
<1>4. Len(said) \in Nat /\ Len(said') \in Nat /\ Len(said) <= Len(said')
  BY <1>1, <1>3 DEF HistoryTypes, Conversations
<1>5. HistoryTypes' /\ talk'[c] = t /\ \A d \in Talks \ {c} : talk'[d] = talk[d]
  BY <1>1, <1>2, <1>3 DEF HistoryTypes
<1>6. ASSUME NEW d \in Talks PROVE Told(d)'
  <2>1. CASE d = c
    BY <1>2, <1>5, <2>1, NothingTold DEF Told, ToldWell
  <2>2. CASE d # c
    BY <1>1, <1>3, <1>4, <1>5, <2>2, ToldStays
  <2> QED BY <2>1, <2>2
<1>7. CompactsWell'
  BY <1>1 DEF CompactsWell
<1> QED BY <1>5, <1>6, <1>7 DEF HistoryInv

(* A step of a chat that tells nothing new.                                      *)
LEMMA ToldOn ==
  ASSUME HistoryInv, NEW c \in Talks, NEW t, talk' = [talk EXCEPT ![c] = t],
         t \in TalkStates,
         t.told = talk[c].told, t.read = talk[c].read, t.was = talk[c].was, t.sum = talk[c].sum,
         t.at # "look", said' \in Conversations, Len(said) <= Len(said'),
         \A n \in 1 .. Len(said) : said'[n] = said[n], squeezed' = squeezed,
         done' \in Seq(SUBSET Nat)
  PROVE  HistoryInv'
<1>1. /\ HistoryTypes /\ CompactsWell /\ \A d \in Talks : Told(d)
  BY DEF HistoryInv
<1>2. Len(said) \in Nat /\ Len(said') \in Nat
  BY <1>1 DEF HistoryTypes, Conversations
<1>3. HistoryTypes' /\ talk'[c] = t /\ \A d \in Talks \ {c} : talk'[d] = talk[d]
  BY <1>1 DEF HistoryTypes
<1>4. ASSUME NEW d \in Talks PROVE Told(d)'
  <2>1. /\ talk'[d].told = talk[d].told /\ talk'[d].read = talk[d].read
        /\ talk'[d].was = talk[d].was /\ talk'[d].sum = talk[d].sum
        /\ talk'[d].at = "look" => talk[d].at = "look"
    BY <1>3
  <2> QED BY <1>1, <1>2, <2>1, ToldStays
<1>5. CompactsWell'
  BY <1>1 DEF CompactsWell
<1> QED BY <1>3, <1>4, <1>5 DEF HistoryInv

LEMMA TalksOn ==
  ASSUME HistoryInv, NEW c \in Talks, TalkOut(c) \/ KeepSummary(c)
  PROVE  HistoryInv'
<1>1. HistoryTypes
  BY DEF HistoryInv
<1>2. PICK at \in {"out", "log"} : talk' = [talk EXCEPT ![c] = [talk[c] EXCEPT !.at = at]]
  BY DEF TalkOut, KeepSummary, TalkTo
<1>3. PICK t : t = [talk[c] EXCEPT !.at = at]
  OBVIOUS
<1>4. /\ t \in TalkStates
      /\ t.told = talk[c].told /\ t.read = talk[c].read /\ t.was = talk[c].was
      /\ t.sum = talk[c].sum /\ t.at # "look"
  BY <1>1, <1>3 DEF HistoryTypes, TalkStates
<1>5. /\ said' \in Conversations /\ Len(said) <= Len(said')
      /\ \A n \in 1 .. Len(said) : said'[n] = said[n]
  <2>1. CASE said' = said
    BY <1>1, <2>1 DEF HistoryTypes, Conversations
  <2>2. CASE Record("assistant")
    <3>1. /\ said' \in Conversations /\ Len(said') = Len(said) + 1
          /\ \A n \in 1 .. Len(said) : said'[n] = said[n]
      BY <1>1, <2>2, Recorded DEF Roles
    <3>2. Len(said) \in Nat
      BY <1>1 DEF HistoryTypes, Conversations
    <3> QED BY <3>1, <3>2
  <2> QED BY <2>1, <2>2 DEF TalkOut, KeepSummary
<1>6. squeezed' = squeezed /\ talk' = [talk EXCEPT ![c] = t]
  BY <1>2, <1>3 DEF TalkOut, KeepSummary
<1>7. done' \in Seq(SUBSET Nat)
  <2>1. talk[c].sum \in SUBSET Nat /\ done \in Seq(SUBSET Nat)
    BY <1>1 DEF HistoryTypes, TalkStates
  <2> QED BY <2>1 DEF TalkOut, KeepSummary
<1> QED BY <1>4, <1>5, <1>6, <1>7, ToldOn

LEMMA TalkLogged ==
  ASSUME HistoryInv, NEW c \in Talks, TalkLog(c)
  PROVE  HistoryInv'
<1>1. /\ HistoryTypes /\ CompactsWell /\ said' = said /\ squeezed' = squeezed
      /\ \A d \in Talks : Told(d)
      /\ talk' = [talk EXCEPT ![c] = Silent] /\ done' = Append(done, {})
  BY DEF HistoryInv, TalkLog, TalkTo
<1>2. HistoryTypes' /\ talk'[c] = Silent /\ \A d \in Talks \ {c} : talk'[d] = talk[d]
  BY <1>1, SilentIs DEF HistoryTypes
<1>3. Len(said) \in Nat
  BY <1>1 DEF HistoryTypes, Conversations
<1>4. ASSUME NEW d \in Talks PROVE Told(d)'
  <2>1. CASE d = c
    BY <1>2, <2>1, SilentIs, NothingTold DEF Told, ToldWell
  <2>2. CASE d # c
    BY <1>1, <1>2, <1>3, <2>2, ToldStays
  <2> QED BY <2>1, <2>2
<1>5. CompactsWell'
  BY <1>1 DEF CompactsWell
<1> QED BY <1>2, <1>4, <1>5 DEF HistoryInv

LEMMA HistoryRead ==
  ASSUME HistoryInv, NEW c \in Talks, ReadHistory(c)
  PROVE  HistoryInv'
<1> DEFINE all == HistoryForLlm(said, 3 * MaxHistory, 3 * MaxTokens)
<1>1. /\ HistoryTypes /\ CompactsWell /\ said' = said /\ done' = done /\ squeezed' = squeezed
      /\ \A d \in Talks : Told(d)
      /\ Len(said) \in Nat /\ DOMAIN said = 1 .. Len(said)
  BY DEF HistoryInv, ReadHistory, HistoryTypes, Conversations
<1>2. /\ all \subseteq 1 .. Len(said) /\ IsFiniteSet(all) /\ Cardinality(all) <= 3 * MaxHistory
      /\ Tokens(said, all) <= 3 * MaxTokens \/ Cardinality(all) = 1
      /\ \A T : Ending(T, all) => Holeless(said, T)
  <2>1. PICK n \in Nat \ {0}, budget \in Nat \ {0} :
          n = 3 * MaxHistory /\ budget = 3 * MaxTokens
    BY HistoryConstants
  <2>2. PICK H : H = HistoryForLlm(said, n, budget)
    OBVIOUS
  <2>3. /\ H \subseteq 1 .. Len(said) /\ IsFiniteSet(H) /\ Cardinality(H) <= n
        /\ Tokens(said, H) <= budget \/ Cardinality(H) = 1
        /\ \A T : Ending(T, H) => Holeless(said, T)
    BY <1>1, <2>2, HistoryIs
  <2> QED BY <2>1, <2>2, <2>3
<1> DEFINE last == LastOf(all, KeepRecent)
<1>3. Ending(last, all) /\ last \subseteq all
  <2>1. all \in SUBSET Nat
    BY <1>2
  <2> HIDE DEF all
  <2>2. Ending(last, all)
    BY <1>2, <2>1, LastOfIs, HistoryConstants
  <2> QED BY <2>2 DEF Ending
<1> HIDE DEF all, last
<1>4. PICK T \in {all, last}, at \in {"out", "look"} :
        talk' = [talk EXCEPT ![c] = [Silent EXCEPT !.at = at, !.read = all, !.told = T]]
  BY DEF ReadHistory, TalkTo, all, last
<1>5. PICK t : t = [Silent EXCEPT !.at = at, !.read = all, !.told = T]
  OBVIOUS
<1>6. /\ t \in TalkStates
      /\ t.told = T /\ t.read = all /\ t.was = "none"
  <2>1. all \in SUBSET Nat /\ T \in SUBSET Nat
    BY <1>2, <1>3
  <2> QED BY <1>5, <2>1, SilentIs DEF TalkStates
<1>7. HistoryTypes' /\ talk'[c] = t /\ \A d \in Talks \ {c} : talk'[d] = talk[d]
  BY <1>1, <1>4, <1>5, <1>6 DEF HistoryTypes
<1>8. Ending(T, all)
  BY <1>3 DEF Ending
<1>9. T \subseteq all /\ T \subseteq 1 .. Len(said) /\ Holeless(said, T)
  BY <1>2, <1>3, <1>8
<1>10. Cardinality(T) <= 3 * MaxHistory /\ (Tokens(said, T) <= 3 * MaxTokens \/ Cardinality(T) = 1)
  <2>1. /\ Tokens(said, T) \in Nat /\ Tokens(said, all) \in Nat
        /\ Tokens(said, T) <= Tokens(said, all) /\ Tokens(said, {}) = 1
    BY <1>2, <1>9, TokensAre
  <2>2. IsFiniteSet(T) /\ Cardinality(T) \in Nat /\ Cardinality(all) \in Nat
        /\ Cardinality(T) <= Cardinality(all)
    BY <1>2, <1>9, FS_Subset, FS_CardinalityType
  <2>3. Cardinality(T) = 0 => T = {}
    BY <2>2, FS_EmptySet
  <2>4. PICK n \in Nat \ {0}, budget \in Nat \ {0} :
          n = 3 * MaxHistory /\ budget = 3 * MaxTokens
    BY HistoryConstants
  <2>5. Cardinality(all) = 1 => Cardinality(T) = 1 \/ T = {}
    BY <2>2, <2>3
  <2>6. Cardinality(all) <= n /\ (Tokens(said, all) <= budget \/ Cardinality(all) = 1)
    BY <1>2, <2>4
  <2>7. Cardinality(T) <= n
    BY <2>2, <2>6
  <2>8. Tokens(said, T) <= budget \/ Cardinality(T) = 1
    BY <2>1, <2>5, <2>6
  <2> QED BY <2>4, <2>7, <2>8
<1>11. ASSUME NEW d \in Talks PROVE Told(d)'
  <2>1. CASE d = c
    BY <1>1, <1>6, <1>7, <1>8, <1>9, <1>10, <2>1 DEF Told, ToldWell
  <2>2. CASE d # c
    BY <1>1, <1>7, <2>2, ToldStays
  <2> QED BY <2>1, <2>2
<1>12. CompactsWell'
  BY <1>1 DEF CompactsWell
<1> QED BY <1>7, <1>11, <1>12 DEF HistoryInv

LEMMA RememberedIs ==
  ASSUME HistoryTypes
  PROVE  Remembered \in SUBSET Nat
<1>1. done \in Seq(SUBSET Nat)
  BY DEF HistoryTypes
<1>2. PICK recent : recent = LastN(done, SummaryLife)
  OBVIOUS
<1>3. recent \in Seq(SUBSET Nat)
  <2>1. Len(done) \in Nat /\ SummaryLife \in Nat \ {0}
    BY <1>1, HistoryConstants
  <2> QED BY <1>1, <1>2, <2>1 DEF LastN
<1> DEFINE sums == {i \in DOMAIN recent : recent[i] # {}}
<1>4. Remembered = IF sums = {} THEN {} ELSE recent[CHOOSE i \in sums : \A j \in sums : i <= j]
  BY <1>2 DEF Remembered
<1>5. CASE sums = {}
  BY <1>4, <1>5
<1>6. CASE sums # {}
  <2>1. sums \subseteq Nat
    BY <1>3
  <2>2. \E i \in sums : \A j \in sums : i <= j
    <3> HIDE DEF sums
    <3> QED BY <1>6, <2>1, LeastNumber
  <2>3. (CHOOSE i \in sums : \A j \in sums : i <= j) \in sums
    <3> HIDE DEF sums
    <3> QED BY <2>2
  <2>4. \A i \in sums : recent[i] \in SUBSET Nat
    BY <1>3
  <2> HIDE DEF sums
  <2> QED BY <1>4, <1>6, <2>3, <2>4
<1> QED BY <1>5, <1>6

LEMMA SummaryFound ==
  ASSUME HistoryInv, NEW c \in Talks, FindSummary(c)
  PROVE  HistoryInv'
<1>1. /\ HistoryTypes /\ CompactsWell /\ said' = said /\ done' = done /\ squeezed' = squeezed
      /\ \A d \in Talks : Told(d)
      /\ Len(said) \in Nat /\ talk[c].at = "look" /\ talk[c] \in TalkStates
  BY DEF HistoryInv, FindSummary, HistoryTypes, Conversations
<1>2. /\ talk[c].told \in SUBSET Nat /\ talk[c].read \in SUBSET Nat /\ Told(c)
      /\ Ending(talk[c].told, talk[c].read)
  BY <1>1 DEF TalkStates, Told
<1>3. PICK t : /\ talk' = [talk EXCEPT ![c] = t]
               /\ t \in TalkStates /\ t.told = talk[c].told /\ t.read = talk[c].read
               /\ t.at # "look"
               /\ t.was = "fresh" => t.sum = talk[c].read \ talk[c].told
  <2>1. PICK at \in {"out", "keep"}, sum \in SUBSET Nat, was \in {"cached", "fresh"} :
          /\ was = "fresh" => sum = talk[c].read \ talk[c].told
          /\ talk' = [talk EXCEPT ![c] = [talk[c] EXCEPT !.at = at, !.sum = sum, !.was = was]]
    <3>1. CASE Remembered # {}
      <4>1. talk' = [talk EXCEPT ![c] = [talk[c] EXCEPT !.at = "out", !.sum = Remembered,
                                                        !.was = "cached"]]
        BY <3>1 DEF FindSummary, TalkTo
      <4> QED BY <1>1, <4>1, RememberedIs
    <3>2. CASE ~(Remembered # {})
      <4>1. talk' = [talk EXCEPT ![c] = [talk[c] EXCEPT !.at = "keep",
                       !.sum = talk[c].read \ talk[c].told, !.was = "fresh"]]
        BY <3>2 DEF FindSummary, TalkTo
      <4>2. talk[c].read \ talk[c].told \in SUBSET Nat
        BY <1>2
      <4> QED BY <4>1, <4>2
    <3> QED BY <3>1, <3>2
  <2>2. PICK t : t = [talk[c] EXCEPT !.at = at, !.sum = sum, !.was = was]
    OBVIOUS
  <2>3. /\ t \in TalkStates /\ t.told = talk[c].told /\ t.read = talk[c].read
        /\ t.at # "look" /\ t.sum = sum /\ t.was = was
    BY <1>1, <2>2 DEF TalkStates
  <2> QED BY <2>1, <2>2, <2>3
<1>4. HistoryTypes' /\ talk'[c] = t /\ \A d \in Talks \ {c} : talk'[d] = talk[d]
  BY <1>1, <1>3 DEF HistoryTypes
<1>5. t.was = "fresh" => t.sum \cup t.told = t.read /\ \A p \in t.sum, q \in t.told : p < q
  <2> SUFFICES ASSUME t.was = "fresh"
               PROVE  t.sum \cup t.told = t.read /\ \A p \in t.sum, q \in t.told : p < q
    OBVIOUS
  <2>1. t.sum = t.read \ t.told /\ Ending(t.told, t.read) /\ t.told \in SUBSET Nat
        /\ t.read \in SUBSET Nat
    BY <1>2, <1>3
  <2>2. t.told \subseteq t.read /\ \A n \in t.told, m \in t.read : n < m => m \in t.told
    BY <2>1 DEF Ending
  <2>3. ASSUME NEW p \in t.sum, NEW q \in t.told PROVE p < q
    <3>1. p \in Nat /\ q \in Nat /\ p \in t.read /\ p # q /\ ~(q < p)
      BY <2>1, <2>2
    <3> QED BY <3>1
  <2> QED BY <2>1, <2>2, <2>3
<1>6. ASSUME NEW d \in Talks PROVE Told(d)'
  <2>1. CASE d = c
    BY <1>1, <1>2, <1>3, <1>4, <1>5, <2>1 DEF Told, ToldWell
  <2>2. CASE d # c
    BY <1>1, <1>4, <2>2, ToldStays
  <2> QED BY <2>1, <2>2
<1>7. CompactsWell'
  BY <1>1 DEF CompactsWell
<1> QED BY <1>4, <1>6, <1>7 DEF HistoryInv

---------------------------------------------------------------------------
(* Compactions.                                                             *)

LEMMA LastNIs ==
  ASSUME NEW M, NEW s \in Seq(M), NEW k \in Nat \ {0}
  PROVE  /\ LastN(s, k) \in Seq(M)
         /\ Len(LastN(s, k)) = IF Len(s) > k THEN k ELSE Len(s)
         /\ \A i \in 1 .. Len(LastN(s, k)) :
              LastN(s, k)[i] = s[i + (Len(s) - Len(LastN(s, k)))]
<1>1. Len(s) \in Nat
  OBVIOUS
<1>2. CASE Len(s) > k
  <2>1. PICK r : r = LastN(s, k) /\ r = SubSeq(s, Len(s) - k + 1, Len(s))
    BY <1>2 DEF LastN
  <2>2. r \in Seq(M) /\ Len(r) = k
    BY <1>1, <1>2, <2>1
  <2>3. ASSUME NEW i \in 1 .. k PROVE r[i] = s[i + (Len(s) - k)]
    <3>1. SubSeq(s, Len(s) - k + 1, Len(s))[i] = s[Len(s) - k + 1 + i - 1]
      BY <1>1, <1>2
    <3>2. Len(s) - k + 1 + i - 1 = i + (Len(s) - k)
      BY <1>1
    <3> QED BY <2>1, <3>1, <3>2
  <2> QED BY <1>2, <2>1, <2>2, <2>3
<1>3. CASE ~(Len(s) > k)
  <2>1. PICK r : r = LastN(s, k) /\ r = SubSeq(s, 1, Len(s))
    BY <1>3 DEF LastN
  <2>2. r \in Seq(M) /\ Len(r) = Len(s) /\ \A i \in 1 .. Len(s) : r[i] = s[i]
    BY <1>1, <2>1
  <2>3. \A i \in 1 .. Len(r) : r[i] = s[i + (Len(s) - Len(r))]
    BY <1>1, <2>2
  <2> QED BY <1>3, <2>1, <2>2, <2>3
<1> QED BY <1>2, <1>3

(* The result of a compaction says where each of its messages comes from, 0 for the     *)
(* summary; those places rise, and the last one is the last.                         *)
Placed(from, to, place) ==
  /\ place \in [1 .. Len(to) -> 0 .. Len(from)] /\ Len(to) <= Len(from)
  /\ \A i \in 1 .. Len(to) : to[i] = IF place[i] = 0 THEN Summary ELSE from[place[i]]
  /\ \A i, j \in 1 .. Len(to) : i < j => place[i] = 0 \/ place[j] = 0 \/ place[i] < place[j]
  /\ Len(to) # 0 => place[Len(to)] = Len(from)

LEMMA PlacedWell ==
  ASSUME NEW from \in Seq(Messages), from # << >>, NEW to \in Seq(Messages),
         \A i \in 1 .. Len(from) : from[i].n = i,
         NEW place, Placed(from, to, place)
  PROVE  /\ Len(to) <= Len(from)
         /\ to # << >> => to[Len(to)] = from[Len(from)]
         /\ \A i \in DOMAIN to : to[i] = Summary \/ \E j \in DOMAIN from : to[i] = from[j]
         /\ \A i, j \in DOMAIN to : i < j => to[i].n = 0 \/ to[j].n = 0 \/ to[i].n < to[j].n
<1>1. /\ Len(from) \in Nat /\ Len(to) \in Nat /\ DOMAIN to = 1 .. Len(to)
      /\ DOMAIN from = 1 .. Len(from) /\ Len(from) # 0 /\ (to # << >> => Len(to) # 0)
  OBVIOUS
<1>2. /\ place \in [1 .. Len(to) -> 0 .. Len(from)] /\ Len(to) <= Len(from)
      /\ \A i \in 1 .. Len(to) : to[i] = IF place[i] = 0 THEN Summary ELSE from[place[i]]
      /\ \A i, j \in 1 .. Len(to) : i < j => place[i] = 0 \/ place[j] = 0 \/ place[i] < place[j]
      /\ Len(to) # 0 => place[Len(to)] = Len(from)
  BY DEF Placed
<1>3. to # << >> => to[Len(to)] = from[Len(from)]
  BY <1>1, <1>2
<1>4. \A i \in 1 .. Len(to) : /\ place[i] \in 0 .. Len(from)
                              /\ place[i] # 0 => place[i] \in 1 .. Len(from)
  BY <1>1, <1>2
<1>5. \A i \in DOMAIN to : to[i] = Summary \/ \E j \in DOMAIN from : to[i] = from[j]
  BY <1>1, <1>2, <1>4
<1>6. \A i \in 1 .. Len(to) : to[i].n = place[i]
  <2>1. Summary.n = 0
    BY DEF Summary, Says
  <2> QED BY <1>2, <1>4, <2>1
<1>7. ASSUME NEW i \in DOMAIN to, NEW j \in DOMAIN to, i < j
      PROVE  to[i].n = 0 \/ to[j].n = 0 \/ to[i].n < to[j].n
  BY <1>1, <1>2, <1>6, <1>7
<1> QED BY <1>2, <1>3, <1>5, <1>7

LEMMA Joined ==
  ASSUME NEW M, NEW a \in Seq(M), NEW b \in Seq(M)
  PROVE  /\ \A i \in 1 .. Len(a) : (a \o b)[i] = a[i]
         /\ \A i \in Len(a) + 1 .. Len(a) + Len(b) : (a \o b)[i] = b[i - Len(a)]
<1>1. Len(a) \in Nat /\ Len(b) \in Nat
  OBVIOUS
<1>2. ASSUME NEW i \in 1 .. Len(a) PROVE (a \o b)[i] = a[i]
  BY <1>1
<1>3. ASSUME NEW i \in Len(a) + 1 .. Len(a) + Len(b) PROVE (a \o b)[i] = b[i - Len(a)]
  BY <1>1
<1> QED BY <1>2, <1>3

(* Each way of squeezing keeps the places.                                       *)
LEMMA SqueezedWell ==
  ASSUME NEW msgs \in Seq(Messages), msgs # << >>, NEW way, NEW w \in Windows, NEW summed \in BOOLEAN,
         NEW to, to = Squeeze(way, msgs, w, summed)
  PROVE  /\ to \in Seq(Messages) /\ \E place : Placed(msgs, to, place)
         /\ way = "sliding" /\ msgs[1].role = "system" => to[1] = msgs[1]
<1>1. PICK first \in Nat \ {0}, last \in Nat \ {0}, recent \in Nat \ {0, 1} :
        first = w.first /\ last = w.last /\ recent = w.recent
  BY HistoryConstants
<1>2. PICK len \in Nat \ {0} : len = Len(msgs)
  OBVIOUS
<1>3. PICK sum : sum = IF summed THEN <<Summary>> ELSE << >>
  OBVIOUS
<1>4. Summary \in Messages
  BY DEF Summary, Says, Messages, Roles, Texts
<1>5. sum = << >> \/ sum = <<Summary>>
  BY <1>3
<1> DEFINE Fine(r) == /\ r \in Seq(Messages) /\ \E place : Placed(msgs, r, place)
<1>6. Fine(msgs)
  <2> DEFINE place == [i \in 1 .. Len(msgs) |-> i]
  <2>1. Placed(msgs, msgs, place)
    BY <1>2 DEF Placed
  <2> QED BY <2>1
<1>7. ASSUME NEW k \in Nat \ {0}
      PROVE  Fine(LastN(msgs, k))
  <2>1. PICK r : r = LastN(msgs, k)
    OBVIOUS
  <2>2. /\ r \in Seq(Messages) /\ Len(r) = IF len > k THEN k ELSE len
        /\ \A i \in 1 .. Len(r) : r[i] = msgs[i + (len - Len(r))]
    BY <1>2, <2>1, LastNIs
  <2> DEFINE place == [i \in 1 .. Len(r) |-> i + (len - Len(r))]
  <2>3. Len(r) \in Nat /\ Len(r) <= len
    BY <1>2, <2>2
  <2>4. place \in [1 .. Len(r) -> 0 .. Len(msgs)] /\ Len(r) <= Len(msgs)
    BY <1>2, <2>3
  <2>5. \A i \in 1 .. Len(r) : r[i] = IF place[i] = 0 THEN Summary ELSE msgs[place[i]]
    BY <2>2, <2>3
  <2>6. \A i, j \in 1 .. Len(r) : i < j => place[i] = 0 \/ place[j] = 0 \/ place[i] < place[j]
    BY <1>2, <2>3
  <2>7. Len(r) # 0 => place[Len(r)] = Len(msgs)
    BY <1>2, <2>3
  <2>8. Placed(msgs, r, place)
    BY <2>4, <2>5, <2>6, <2>7 DEF Placed
  <2> QED BY <2>1, <2>2, <2>8
<1>8. ASSUME NEW k \in Nat \ {0}, len > k, NEW head,
             \/ head = << >> \/ head = <<Summary>> \/ head = <<msgs[1]>>
      PROVE  Fine(head \o LastN(msgs, k))
  <2>1. PICK r : r = LastN(msgs, k)
    OBVIOUS
  <2>2. /\ r \in Seq(Messages) /\ Len(r) = k
        /\ \A i \in 1 .. k : r[i] = msgs[i + (len - k)]
    BY <1>2, <1>8, <2>1, LastNIs
  <2>3. CASE head = << >>
    <3>1. head \o r = r
      BY <2>2, <2>3
    <3> QED BY <1>7, <2>1, <3>1
  <2>4. ASSUME NEW m \in Messages, NEW p \in {0, 1}, m = IF p = 0 THEN Summary ELSE msgs[1],
               head = <<m>>
        PROVE  Fine(head \o LastN(msgs, k))
    <3>1. PICK s : s = <<m>> \o r
      OBVIOUS
    <3>2. s \in Seq(Messages) /\ Len(s) = k + 1 /\ s[1] = m
          /\ \A i \in 2 .. k + 1 : s[i] = r[i - 1]
      BY <2>2, <3>1
    <3>3. \A i \in 2 .. k + 1 : s[i] = msgs[i - 1 + (len - k)]
      BY <2>2, <3>2
    <3> DEFINE place == [i \in 1 .. k + 1 |-> IF i = 1 THEN p ELSE i - 1 + (len - k)]
    <3>4. place \in [1 .. Len(s) -> 0 .. Len(msgs)] /\ Len(s) <= Len(msgs)
      BY <1>2, <1>8, <3>2
    <3>5. \A i \in 1 .. Len(s) : s[i] = IF place[i] = 0 THEN Summary ELSE msgs[place[i]]
      BY <1>2, <1>8, <2>4, <3>2, <3>3
    <3>6. /\ \A i, j \in 1 .. Len(s) : i < j => place[i] = 0 \/ place[j] = 0 \/ place[i] < place[j]
          /\ Len(s) # 0 => place[Len(s)] = Len(msgs)
      BY <1>2, <1>8, <3>2
    <3>7. Placed(msgs, s, place)
      BY <3>4, <3>5, <3>6 DEF Placed
    <3> QED BY <2>1, <2>4, <3>1, <3>2, <3>7
  <2>5. msgs[1] \in Messages
    BY <1>2
  <2> QED BY <1>4, <1>8, <2>3, <2>4, <2>5
<1>9. ASSUME len > first + last
      PROVE  Fine(SubSeq(msgs, 1, first) \o sum \o LastN(msgs, last))
  <2>1. PICK r : r = LastN(msgs, last)
    OBVIOUS
  <2>2. /\ r \in Seq(Messages) /\ Len(r) = last
        /\ \A i \in 1 .. last : r[i] = msgs[i + (len - last)]
    <3>1. Len(msgs) > last
      BY <1>2, <1>9
    <3> QED BY <1>2, <2>1, <3>1, LastNIs
  <2>3. PICK a : a = SubSeq(msgs, 1, first)
    OBVIOUS
  <2>4. a \in Seq(Messages) /\ Len(a) = first /\ \A i \in 1 .. first : a[i] = msgs[i]
    BY <1>2, <1>9, <2>3
  <2>5. PICK h \in {0, 1} : sum \in Seq(Messages) /\ Len(sum) = h /\ (h = 1 => sum[1] = Summary)
    <3>1. CASE sum = << >>
      <4>1. sum \in Seq(Messages) /\ Len(sum) = 0
        BY <3>1
      <4> QED BY <4>1
    <3>2. CASE sum = <<Summary>>
      <4>1. sum \in Seq(Messages) /\ Len(sum) = 1 /\ sum[1] = Summary
        BY <1>4, <3>2
      <4> QED BY <4>1
    <3> QED BY <1>5, <3>1, <3>2
  <2>6. PICK b : b = a \o sum
    OBVIOUS
  <2>7. /\ b \in Seq(Messages) /\ Len(b) = first + h
        /\ \A i \in 1 .. first : b[i] = msgs[i]
        /\ h = 1 => b[first + 1] = Summary
    BY <2>4, <2>5, <2>6
  <2>8. PICK s : s = b \o r
    OBVIOUS
  <2>9. /\ s \in Seq(Messages) /\ Len(s) = first + h + last
        /\ \A i \in 1 .. first + h : s[i] = b[i]
        /\ \A i \in first + h + 1 .. first + h + last : s[i] = r[i - (first + h)]
    <3>1. PICK m \in Nat : m = first + h
      OBVIOUS
    <3>2. b \in Seq(Messages) /\ Len(b) = m /\ r \in Seq(Messages) /\ Len(r) = last
      BY <2>2, <2>7, <3>1
    <3>3. s \in Seq(Messages) /\ Len(s) = m + last
      <4>1. b \o r \in Seq(Messages) /\ Len(b \o r) = Len(b) + Len(r)
        BY <3>2
      <4> QED BY <2>8, <3>2, <4>1
    <3>4. ASSUME NEW i \in 1 .. m PROVE s[i] = b[i]
      <4>1. \A j \in 1 .. Len(b) : (b \o r)[j] = b[j]
        BY <3>2, Joined
      <4> QED BY <2>8, <3>2, <4>1
    <3>5. ASSUME NEW i \in m + 1 .. m + last PROVE s[i] = r[i - m]
      <4>1. \A j \in Len(b) + 1 .. Len(b) + Len(r) : (b \o r)[j] = r[j - Len(b)]
        BY <3>2, Joined
      <4> QED BY <2>8, <3>2, <4>1
    <3> QED BY <3>1, <3>3, <3>4, <3>5
  <2> DEFINE place == [i \in 1 .. first + h + last |->
                         IF i <= first THEN i
                         ELSE IF i <= first + h THEN 0 ELSE i - (first + h) + (len - last)]
  <2>10. \A i \in 1 .. Len(s) : s[i] = IF place[i] = 0 THEN Summary ELSE msgs[place[i]]
    <3>1. ASSUME NEW i \in 1 .. Len(s), i <= first PROVE s[i] = msgs[i] /\ place[i] = i
      BY <2>7, <2>9, <3>1
    <3>2. ASSUME NEW i \in 1 .. Len(s), ~(i <= first), i <= first + h
          PROVE  s[i] = Summary /\ place[i] = 0
      BY <2>7, <2>9, <3>2
    <3>3. ASSUME NEW i \in 1 .. Len(s), ~(i <= first + h)
          PROVE  /\ s[i] = msgs[i - (first + h) + (len - last)]
                 /\ place[i] = i - (first + h) + (len - last) /\ place[i] # 0
      <4>1. s[i] = r[i - (first + h)] /\ i - (first + h) \in 1 .. last
        <5>1. i \in first + h + 1 .. first + h + last
          BY <2>9, <3>3
        <5>2. i - (first + h) \in 1 .. last
          BY <5>1
        <5> QED BY <2>9, <5>1, <5>2
      <4>2. s[i] = msgs[i - (first + h) + (len - last)]
        BY <2>2, <4>1
      <4>3. /\ place[i] = i - (first + h) + (len - last)
        BY <2>9, <3>3
      <4>4. i - (first + h) + (len - last) # 0
        BY <1>9, <4>1
      <4> QED BY <4>2, <4>3, <4>4
    <3> HIDE DEF place
    <3>4. ASSUME NEW i \in 1 .. Len(s)
          PROVE  s[i] = IF place[i] = 0 THEN Summary ELSE msgs[place[i]]
      <4>1. CASE i <= first
        <5>1. i # 0
          BY <2>9
        <5> QED BY <3>1, <4>1, <5>1
      <4>2. CASE ~(i <= first) /\ i <= first + h
        BY <3>2, <4>2
      <4>3. CASE ~(i <= first + h)
        <5>1. /\ s[i] = msgs[i - (first + h) + (len - last)]
              /\ place[i] = i - (first + h) + (len - last) /\ place[i] # 0
          BY <3>3, <4>3
        <5> QED BY <5>1
      <4> QED BY <4>1, <4>2, <4>3
    <3> QED BY <3>4
  <2>11. place \in [1 .. Len(s) -> 0 .. Len(msgs)] /\ Len(s) <= Len(msgs)
    BY <1>2, <1>9, <2>9
  <2>12. /\ \A i, j \in 1 .. Len(s) : i < j => place[i] = 0 \/ place[j] = 0 \/ place[i] < place[j]
         /\ Len(s) # 0 => place[Len(s)] = Len(msgs)
    BY <1>2, <1>9, <2>9
  <2>13. Placed(msgs, s, place)
    BY <2>10, <2>11, <2>12 DEF Placed
  <2> QED BY <2>1, <2>3, <2>6, <2>8, <2>9, <2>13
<1> HIDE DEF Fine
<1>10. Fine(to) /\ (way = "sliding" /\ msgs[1].role = "system" => to[1] = msgs[1])
  <2>1. to = CASE way = "summary" -> IF len <= recent THEN msgs ELSE sum \o LastN(msgs, recent)
               [] way = "truncate" -> LastN(msgs, recent)
               [] way = "sliding" ->
                    IF len <= recent THEN msgs
                    ELSE IF msgs[1].role = "system" THEN <<msgs[1]>> \o LastN(msgs, recent - 1)
                         ELSE LastN(msgs, recent)
               [] OTHER -> IF len <= first + last THEN msgs
                           ELSE SubSeq(msgs, 1, first) \o sum \o LastN(msgs, last)
    BY <1>1, <1>2, <1>3 DEF Squeeze
  <2>2. CASE way = "summary"
    <3>1. to = IF len <= recent THEN msgs ELSE sum \o LastN(msgs, recent)
      BY <2>1, <2>2
    <3>2. CASE len <= recent
      BY <1>6, <2>2, <3>1, <3>2
    <3>3. CASE ~(len <= recent)
      <4>1. to = sum \o LastN(msgs, recent) /\ recent \in Nat \ {0} /\ len > recent
        BY <3>1, <3>3
      <4>2. Fine(to)
        BY <1>5, <1>8, <4>1
      <4> QED BY <2>2, <4>2
    <3> QED BY <3>2, <3>3
  <2>3. CASE way = "truncate"
    BY <1>7, <2>1, <2>3
  <2>4. CASE way = "sliding"
    <3>1. CASE len <= recent
      BY <1>6, <2>1, <2>4, <3>1
    <3>2. CASE ~(len <= recent) /\ msgs[1].role = "system"
      <4>1. to = <<msgs[1]>> \o LastN(msgs, recent - 1)
        BY <2>1, <2>4, <3>2
      <4>2. PICK k \in Nat \ {0} : k = recent - 1 /\ len > k
        BY <3>2
      <4>3. Fine(to)
        BY <1>8, <4>1, <4>2
      <4>4. LastN(msgs, k) \in Seq(Messages) /\ msgs[1] \in Messages
        BY <1>2, LastNIs
      <4>5. to[1] = msgs[1]
        BY <4>1, <4>2, <4>4
      <4> QED BY <4>3, <4>5
    <3>3. CASE ~(len <= recent) /\ ~(msgs[1].role = "system")
      <4>1. to = LastN(msgs, recent)
        BY <2>1, <2>4, <3>3
      <4> QED BY <1>7, <3>3, <4>1
    <3> QED BY <3>1, <3>2, <3>3
  <2>5. CASE way \notin {"summary", "truncate", "sliding"}
    <3>1. to = IF len <= first + last THEN msgs
               ELSE SubSeq(msgs, 1, first) \o sum \o LastN(msgs, last)
      BY <2>1, <2>5
    <3> QED BY <1>6, <1>9, <2>5, <3>1
  <2> QED BY <2>2, <2>3, <2>4, <2>5
<1> QED BY <1>10 DEF Fine

LEMMA Compacted ==
  ASSUME HistoryInv, Compact
  PROVE  HistoryInv'
<1>1. /\ HistoryTypes /\ said # << >> /\ said' = said /\ done' = done /\ talk' = talk
      /\ \A d \in Talks : Told(d)
  BY DEF HistoryInv, Compact
<1>2. said \in Seq(Messages) /\ \A i \in 1 .. Len(said) : said[i].n = i
  BY <1>1 DEF HistoryTypes, Conversations
<1>3. PICK way \in {"summary", "truncate", "sliding", "heads_tail"}, w \in Windows,
           summed \in BOOLEAN, system \in BOOLEAN :
        LET msgs == IF system THEN <<[said[1] EXCEPT !.role = "system"]>> \o Tail(said) ELSE said
        IN  squeezed' = [from |-> msgs, to |-> Squeeze(way, msgs, w, summed), way |-> way]
  BY DEF Compact
<1>4. PICK msgs : /\ msgs \in Seq(Messages) /\ msgs # << >>
                  /\ \A i \in 1 .. Len(msgs) : msgs[i].n = i
                  /\ squeezed' = [from |-> msgs, to |-> Squeeze(way, msgs, w, summed), way |-> way]
  <2>1. CASE system
    <3>1. PICK m : m = [said[1] EXCEPT !.role = "system"]
      OBVIOUS
    <3>2. said[1] \in Messages /\ said[1].n = 1
      BY <1>1, <1>2
    <3>3. m \in Messages /\ m.n = 1
      BY <3>1, <3>2 DEF Messages
    <3>4. PICK msgs : msgs = <<m>> \o Tail(said)
      OBVIOUS
    <3>5. /\ Tail(said) \in Seq(Messages) /\ Len(Tail(said)) = Len(said) - 1
          /\ Len(said) \in Nat \ {0}
          /\ \A i \in 1 .. Len(said) - 1 : Tail(said)[i] = said[i + 1]
      BY <1>1, <1>2
    <3>6. msgs \in Seq(Messages) /\ Len(msgs) = Len(said) /\ msgs[1] = m
          /\ \A i \in 2 .. Len(said) : msgs[i] = Tail(said)[i - 1]
      BY <3>3, <3>4, <3>5
    <3>7. \A i \in 2 .. Len(said) : msgs[i].n = i
      <4>1. ASSUME NEW i \in 2 .. Len(said) PROVE msgs[i] = said[i]
        BY <3>5, <3>6
      <4> QED BY <1>2, <4>1
    <3>8. \A i \in 1 .. Len(msgs) : msgs[i].n = i
      BY <3>3, <3>5, <3>6, <3>7
    <3>9. squeezed' = [from |-> msgs, to |-> Squeeze(way, msgs, w, summed), way |-> way]
      BY <1>3, <2>1, <3>1, <3>4
    <3> QED BY <3>5, <3>6, <3>8, <3>9
  <2>2. CASE ~system
    BY <1>1, <1>2, <1>3, <2>2
  <2> QED BY <2>1, <2>2
<1>5. PICK to : to = Squeeze(way, msgs, w, summed)
  OBVIOUS
<1>6. /\ to \in Seq(Messages) /\ \E place : Placed(msgs, to, place)
      /\ way = "sliding" /\ msgs[1].role = "system" => to[1] = msgs[1]
  BY <1>4, <1>5, SqueezedWell
<1>7. /\ Len(to) <= Len(msgs)
      /\ to # << >> => to[Len(to)] = msgs[Len(msgs)]
      /\ \A i \in DOMAIN to : to[i] = Summary \/ \E j \in DOMAIN msgs : to[i] = msgs[j]
      /\ \A i, j \in DOMAIN to : i < j => to[i].n = 0 \/ to[j].n = 0 \/ to[i].n < to[j].n
  BY <1>4, <1>6, PlacedWell
<1>8. squeezed'.from = msgs /\ squeezed'.to = to /\ squeezed'.way = way
  BY <1>4, <1>5
<1>9. CompactsWell'
  BY <1>6, <1>7, <1>8 DEF CompactsWell
<1>10. HistoryTypes' /\ \A d \in Talks : Told(d)'
  BY <1>1 DEF HistoryTypes, Told, ToldWell
<1> QED BY <1>9, <1>10 DEF HistoryInv

LEMMA HistoryRest ==
  ASSUME HistoryInv, UNCHANGED historyVars
  PROVE  HistoryInv'
BY DEF HistoryInv, historyVars, HistoryTypes, Told, ToldWell, CompactsWell

LEMMA HistoryStep ==
  ASSUME HistoryInv, [HistoryNext]_historyVars
  PROVE  HistoryInv'
<1>1. CASE Compact
  BY <1>1, Compacted
<1>2. ASSUME NEW c \in Talks, TalkIn(c) \/ ReadHistory(c) \/ FindSummary(c)
                               \/ KeepSummary(c) \/ TalkOut(c) \/ TalkLog(c)
      PROVE  HistoryInv'
  BY <1>2, TalksIn, HistoryRead, SummaryFound, TalksOn, TalkLogged
<1>3. CASE UNCHANGED historyVars
  BY <1>3, HistoryRest
<1> QED BY <1>1, <1>2, <1>3 DEF HistoryNext

LEMMA HistoryShow == HistoryInv => HistorySound
<1> SUFFICES ASSUME HistoryInv PROVE HistorySound
  OBVIOUS
<1>1. /\ HistoryTypes /\ CompactsWell /\ \A c \in Talks : Told(c)
  BY DEF HistoryInv
<1>2. ASSUME NEW c \in Talks PROVE ToldWell(c) /\ NoHole(c)
  BY <1>1 DEF Told, Holeless, NoHole
<1>3. ASSUME NEW n \in 1 .. 2, NEW budget \in 1 .. 3 PROVE Complete(said, n, budget)
  <2>1. Len(said) \in Nat /\ DOMAIN said = 1 .. Len(said)
    BY <1>1 DEF HistoryTypes, Conversations
  <2>2. PICK k \in Nat \ {0}, b \in Nat \ {0} : k = n /\ b = budget
    BY <1>3
  <2>3. /\ Len(said) <= 2 * k /\ Cardinality(Distinct(said, DOMAIN said)) <= k
        /\ Tokens(said, Distinct(said, DOMAIN said)) <= b
        => HistoryForLlm(said, k, b) = Distinct(said, DOMAIN said)
    BY <2>1, HistoryIs
  <2> QED BY <2>2, <2>3 DEF Complete
<1> QED BY <1>1, <1>2, <1>3 DEF HistorySound

---------------------------------------------------------------------------
(* A step of the composition is a step of each part, or leaves it alone.            *)
LEMMA LocalPipe == [LocalNext]_<<part, AllParts>> => [PipeNext]_pipeVars
BY DEF LocalNext, Rest, AllParts

LEMMA LocalProbe == [LocalNext]_<<part, AllParts>> => [ProbeNext]_probeVars
BY DEF LocalNext, Rest, AllParts

LEMMA LocalAgents == [LocalNext]_<<part, AllParts>> => [AgentsNext]_agentVars
BY DEF LocalNext, Rest, AllParts

LEMMA LocalEnvironment == [LocalNext]_<<part, AllParts>> => [EnvironmentNext]_envVars
BY DEF LocalNext, Rest, AllParts

LEMMA LocalDaemon == [LocalNext]_<<part, AllParts>> => [DaemonNext]_daemonVars
BY DEF LocalNext, Rest, AllParts

LEMMA LocalSessions == [LocalNext]_<<part, AllParts>> => [SessionsNext]_sessionVars
BY DEF LocalNext, Rest, AllParts

LEMMA LocalHistory == [LocalNext]_<<part, AllParts>> => [HistoryNext]_historyVars
BY DEF LocalNext, Rest, AllParts

LEMMA LocalSettings == [LocalNext]_<<part, AllParts>> => [SettingsNext]_settingsVars
BY DEF LocalNext, Rest, AllParts

(* Whatever times out, is rejected or raises, the answer of a guarded call fits what    *)
(* its function did, and neither the batch nor the pool exceeds its limit               *)
(* (core/tool_pipeline.py), for any finite set of calls, limits and hooks.       *)
THEOREM PipelineIsSound == LocalSpec => []PipelineSound
<1>1. LocalInit => PipeInv
  BY PipeInit DEF LocalInit
<1>2. PipeInv /\ [LocalNext]_<<part, AllParts>> => PipeInv'
  BY PipeSteps, LocalPipe
<1> QED BY <1>1, <1>2, PipeShows, PTL DEF LocalSpec

(* Probing (core/tool_probe.py): the ladder finds a good binary wherever one is and      *)
(* takes the first, versions of any length and any numbers are totally preordered, what   *)
(* a client is shown is what the record and the probe say, and no question outlasts its     *)
(* time.                                                                    *)
THEOREM ProbeIsSound == LocalSpec => []ProbeSound
<1>1. LocalInit => ProbeInv
  BY ProbeStarts DEF LocalInit
<1>2. ProbeInv /\ [LocalNext]_<<part, AllParts>> => ProbeInv'
  BY ProbeStep, LocalProbe
<1> QED BY <1>1, <1>2, ProbeShows, PTL DEF LocalSpec

(* Sub-agents (core/subagent.py), for any number of calls: no process outlives its call,     *)
(* unless the call was given up; nothing is reported as done that did not end well; the     *)
(* default provider is registered; and the answer is found in outputs of any length.         *)
THEOREM SubAgentsAreSound == LocalSpec => []SubAgentsSound
<1>1. LocalInit => AgentsInv
  BY AgentsStart DEF LocalInit
<1>2. AgentsInv /\ [LocalNext]_<<part, AllParts>> => AgentsInv'
  BY AgentsStep, LocalAgents
<1> QED BY <1>1, <1>2, AgentsShow, PTL DEF LocalSpec

(* What one process leaves to the next, over any number of saves, requests, starts and   *)
(* stops: the variables of tools (core/tool_installer.py) unless two saves overlapped    *)
(* or a write failed, the daemon's pid (daemon.py) unless two commands met, parameters,   *)
(* credentials and what the owner wrote by hand (core/config.py) unless a write was cut.  *)
THEOREM FilesAreKept == LocalSpec => []FilesKept
<1> DEFINE Inv == EnvInv /\ DTypeOK /\ DInv /\ ConfigInv
<1>1. LocalInit => Inv
  BY EnvironmentStarts, DaemonInit, ConfigStarts DEF LocalInit
<1>2. Inv /\ [LocalNext]_<<part, AllParts>> => Inv'
  BY EnvironmentStep, DaemonTypes, DaemonSteps, ConfigStep, LocalEnvironment, LocalDaemon,
     LocalSettings
<1>3. Inv => FilesKept
  BY EnvironmentShows, DaemonShows, ConfigShows DEF FilesKept
<1> QED BY <1>1, <1>2, <1>3, PTL DEF LocalSpec

(* What is kept of conversations, for any logs, requests, turns and restarts: no append   *)
(* of a turn meets a number that is taken, unless a fork wrote beside it, and a fork is a     *)
(* copy of a prefix (core/session_log.py, server/api/sessions.py); the model is told the      *)
(* end of the conversation without a hole and within its budget (core/memory.py); and a       *)
(* compaction keeps order and last message (core/compaction.py).                       *)
THEOREM RecordsAreSound == LocalSpec => []RecordsSound
<1> DEFINE Inv == SessionsInv /\ HistoryInv
<1>1. LocalInit => Inv
  BY SessionsStart, HistoryStart DEF LocalInit
<1>2. Inv /\ [LocalNext]_<<part, AllParts>> => Inv'
  <2>1. SessionsInv /\ [SessionsNext]_sessionVars => SessionsInv'
    BY SessionsStep, SessionsRest
  <2>2. HistoryInv /\ [HistoryNext]_historyVars => HistoryInv'
    BY HistoryStep
  <2> QED BY <2>1, <2>2, LocalSessions, LocalHistory
<1>3. Inv => RecordsSound
  BY SessionsShow, HistoryShow DEF RecordsSound
<1> QED BY <1>1, <1>2, <1>3, PTL DEF LocalSpec
=============================================================================
