-------------------------- MODULE MCRemoteDispatch --------------------------
(***************************************************************************)
(* Small instances of RemoteDispatch.                                      *)
(***************************************************************************)
EXTENDS RemoteDispatch, TLC

CONSTANTS d1, d2
MCResource == {"slots"}
MCDemand == [S \in SUBSET Job |-> [r \in MCResource |-> Cardinality(S)]]
MCPower == [S \in SUBSET Job |-> 0]
MCSupports == [w \in Worker |-> Job]
\* A worker without executor is observed with room or without.
MCOffer ==
  [w \in Worker |-> {[r \in MCResource |-> n] : n \in IF w \in Executors THEN {2} ELSE {0, 2}}]
MCPriority == [j \in Job |-> 0]
=============================================================================
