---------------------------- MODULE ContentStore ----------------------------
(***************************************************************************)
(* What a producer and a reader of artifacts rely on: bytes are stored     *)
(* under their own digest and stay there, the lineage index only ever      *)
(* points at stored bytes, and an address that was handed out resolves     *)
(* ("immutable bytes ... without replacing an existing artifact",          *)
(* artifacts.py; resolve, artifact_bridge.py).                             *)
(***************************************************************************)
CONSTANT Data

VARIABLES
  stored,         \* contents that can be read by their digest
  indexed,        \* contents with a lineage record
  issued          \* contents whose address was returned to somebody

svars == <<stored, indexed, issued>>

Init == stored = {} /\ indexed = {} /\ issued = {}

Store == stored \subseteq stored' /\ stored' \subseteq Data /\ UNCHANGED <<indexed, issued>>
\* Lineage records, which may be what the caller was waiting for.
Index ==
  /\ indexed \subseteq indexed' /\ indexed' \subseteq stored
  /\ issued \subseteq issued' /\ issued' \subseteq indexed'
  /\ UNCHANGED stored

Next == Store \/ Index

Spec == Init /\ [][Next]_svars
=============================================================================
