-------------------------- MODULE MCArtifactStore ---------------------------
(***************************************************************************)
(* Small instance of ArtifactStore: an artifact of two chunks, and either  *)
(* two receivers of it or one of them and a producer with two files, of    *)
(* which one may have the artifact's very bytes.                           *)
(***************************************************************************)
EXTENDS ArtifactStore
CONSTANTS r1, r2, p1, dest, out1, out2, a, b, x

MCOutputs == [p \in {p1} |-> <<out1, out2>>]
MCReference == <<a, b>>
\* The destination is missing, short, other bytes, complete or too long.
MCFileSystems ==
  {[p \in Path |-> IF p = dest THEN d ELSE IF p = out1 THEN f ELSE <<x>>] :
     d \in {None, <<a>>, <<x, b>>, <<a, b>>, <<a, b, x>>}, f \in {<<a, b>>, <<a>>}}
MCTeams == {{r1, r2}, {r1, p1}}
=============================================================================
