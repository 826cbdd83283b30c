---------------------------- MODULE MCTaskEngine ----------------------------
(* Instances of TaskEngine for TLC: one task, one event loop and a pool of *)
(* two workers, so that two runs of the task overlap with each other and   *)
(* with the requests.                                                      *)
EXTENDS TaskEngineProps

CONSTANTS t1, api, w1, w2
=============================================================================
