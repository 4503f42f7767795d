------------------------- MODULE MCProductionSearch -------------------------
(***************************************************************************)
(* Small instances of ProductionSearch: the series 0, the episodes 1 and 3,*)
(* and a node that belongs to either of them.                              *)
(***************************************************************************)
EXTENDS ProductionSearch

Is(kind, episode) == [kind |-> kind, episode |-> episode]
MCIdentities ==
  [n \in Node |-> CASE n = 0 -> {Is("series", None)}
                    [] n = 1 -> {Is("episode", 1)}
                    [] n = 2 -> {Is("local", 1), Is("local", 3)}
                    [] n = 3 -> {Is("episode", 3)}]
=============================================================================
