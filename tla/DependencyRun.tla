---------------------------- MODULE DependencyRun ----------------------------
(***************************************************************************)
(* What a run of a plan with dependencies promises: a step succeeds only   *)
(* after one provider of each thing it needs has succeeded, and a step that *)
(* has ended stays as it ended.                                            *)
(***************************************************************************)
CONSTANT Steps

VARIABLES need,    \* need[p]: for each thing p needs, the steps that provide it
          state    \* state[p]: "open", "done" or "failed"

dvars == <<need, state>>

NoNeeds == [p \in Steps |-> {}]

DInit == /\ need = NoNeeds
         /\ state = [p \in Steps |-> "open"]

Untouched == state = [p \in Steps |-> "open"]

\* The plan is made before anything is done.
Plan == /\ Untouched
        /\ need' \in [Steps -> SUBSET (SUBSET Steps)]
        /\ UNCHANGED state

Met(p) == \A providers \in need[p] : \E q \in providers : state[q] = "done"

Succeed(p) == /\ state[p] = "open"
              /\ Met(p)
              /\ state' = [state EXCEPT ![p] = "done"]
              /\ UNCHANGED need

\* Open steps fail, one of them or all that are left.
Fail(S) == /\ \A p \in S : state[p] = "open"
           /\ state' = [p \in Steps |-> IF p \in S THEN "failed" ELSE state[p]]
           /\ UNCHANGED need

DNext == \/ Plan
         \/ \E p \in Steps : Succeed(p)
         \/ \E S \in SUBSET Steps : Fail(S)

DSpec == DInit /\ [][DNext]_dvars
=============================================================================
