----------------------------- MODULE MCChatTurn -----------------------------
(* Instances of ChatTurn for TLC.                                          *)
EXTENDS ChatTurnProps

CONSTANTS c1, c2
=============================================================================
