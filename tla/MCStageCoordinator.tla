------------------------- MODULE MCStageCoordinator -------------------------
(***************************************************************************)
(* Small instances of StageCoordinator: two stages of one slot each.       *)
(***************************************************************************)
EXTENDS StageCoordinator

MCResource == {"slots"}
MCDemand == [S \in SUBSET Job |-> [r \in MCResource |-> Cardinality(S)]]
MCPower == [S \in SUBSET Job |-> Cardinality(S)]
MCSupports == [w \in Worker |-> Job]
MCOffer == [w \in Worker |-> {[r \in MCResource |-> 2]}]
MCPriority == [j \in Job |-> 0]
AnyJob == {None}
=============================================================================
