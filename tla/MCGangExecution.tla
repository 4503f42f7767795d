-------------------------- MODULE MCGangExecution ---------------------------
(***************************************************************************)
(* Small instance of GangExecution: two workers with a GPU each, and two   *)
(* gangs that may follow each other on the same GPUs.                      *)
(***************************************************************************)
EXTENDS GangExecution
CONSTANTS w1, w2, p1
MCHost == <<w1, w2>>
JustOne == {[processes |-> {p1}, mayFail |-> TRUE]}
=============================================================================
