--------------------------- MODULE ProductionState ---------------------------
(***************************************************************************)
(* src/studio/production_state.py: revisions of the nodes of a series and  *)
(* of its episodes, the dependencies recorded between them, and the answers*)
(* on which decisions to regenerate rest: stale_nodes and assert_current.  *)
(*                                                                         *)
(* A revision is its number, kind and episode; kinds other than series and *)
(* episode are not told apart, and status, data and hashes are left out.   *)
(* An episode_id may name a node that does not exist yet.                  *)
(***************************************************************************)
EXTENDS Integers, Unset

CONSTANTS
  Node,
  Series,         \* series_id
  MaxRevision,
  Identities      \* Identities[n]: the [kind, episode] a revision of n may have

Kind == {"series", "episode", "local"}
Revision == 1..MaxRevision
StateNode == [kind : Kind, episode : Node \cup {None}, revision : Revision]
Dependency == [upstream : Node, revision : Revision, downstream : Node]

\* What StateNode and add_node demand of a node by itself, and unknown nodes.  A
\* node is the place of its id in the order of ids.
ASSUME NodeAssumption ==
  /\ Node \subseteq Nat /\ None \notin Int \cup StateNode
  /\ MaxRevision \in Nat
  /\ Identities \in [Node -> SUBSET [kind : Kind, episode : Node \cup {None}]]
  /\ \A n \in Node : \A i \in Identities[n] :
       /\ i.kind = "series" => n = Series
       /\ i.kind = "episode" => i.episode = n
       /\ i.kind = "local" => i.episode # None

VARIABLES
  nodes,          \* the latest revision of each node; None: unknown
  dependencies

svars == <<nodes, dependencies>>

Known == {n \in Node : nodes[n] # None}

StateTypeOK ==
  /\ nodes \in [Node -> StateNode \cup {None}]
  /\ dependencies \subseteq Dependency
  /\ \A e \in dependencies :
       /\ e.upstream \in Known /\ e.downstream \in Known
       /\ e.revision <= nodes[e.upstream].revision

StateInit == nodes = [n \in Node |-> None] /\ dependencies = {}

-----------------------------------------------------------------------------
(* Questions asked of the graph                                            *)

DependentsOf(u) == {e.downstream : e \in {f \in dependencies : f.upstream = u}}

\* The nodes a search along the dependencies finds from `from`, itself included:
\* those of every set that has it and is closed under the dependencies.
Closed(S) == \A e \in dependencies : e.upstream \in S => e.downstream \in S
\* Mutant of Reachable: the search looks only below where it starts.
ReachableBelow(from) ==
  {n \in Node \ {from} : \A S \in SUBSET Node : from \in S /\ Closed(S) => n \in S}
Reachable(from) ==
  {n \in Node : \A S \in SUBSET Node : from \in S /\ Closed(S) => n \in S}

\* The nodes stale_nodes returns.
StaleNodes(changed) == UNION {Reachable(d) : d \in DependentsOf(changed)}

\* assert_current passes.
Current(n) ==
  /\ n \in Known
  /\ \A e \in dependencies : e.downstream = n =>
       e.upstream \in Known /\ nodes[e.upstream].revision = e.revision

\* Mutant of WouldCycle: only a cycle of two is seen.
WouldCycleOfTwo(u, d) == u \in DependentsOf(d)
WouldCycle(u, d) == u \in Reachable(d)

-----------------------------------------------------------------------------
(* Operations; a call that raises changes nothing                          *)

Newer(n, revision) == n \in Known => revision > nodes[n].revision

AddNode(n, identity, revision) ==
  /\ identity.kind # "series" /\ identity.episode \in Known =>
       nodes[identity.episode].kind = "episode"
  /\ Newer(n, revision)
  /\ nodes' = [nodes EXCEPT ![n] =
       [kind |-> identity.kind, episode |-> identity.episode, revision |-> revision]]
  /\ UNCHANGED dependencies

SameEpisode(u, d) ==
  nodes[u].kind # "series" /\ nodes[d].kind # "series" => nodes[u].episode = nodes[d].episode

Recorded(u, d) == [upstream |-> u, revision |-> nodes[u].revision, downstream |-> d]
\* A dependency that names any other revision of u than the latest is refused.
AddDependency(u, d) ==
  /\ u \in Known /\ d \in Known /\ u # d
  /\ SameEpisode(u, d) /\ ~WouldCycle(u, d)
  /\ dependencies' = dependencies \cup {Recorded(u, d)}
  /\ UNCHANGED nodes

StateNext ==
  \/ \E n \in Node, revision \in Revision : \E identity \in Identities[n] :
       AddNode(n, identity, revision)
  \/ \E u, d \in Node : AddDependency(u, d)

StateSpec == StateInit /\ [][StateNext]_svars

-----------------------------------------------------------------------------
\* In whatever order dependencies were recorded, over however many revisions, no
\* node is downstream of itself: "The changed node itself is not returned"
\* (stale_nodes, _would_cycle).
ChangedIsNotStale == \A n \in Node : n \notin StaleNodes(n)

\* Whatever a call makes stale in the eyes of assert_current, stale_nodes of the
\* node the call revised returns.
StaleIsReported ==
  [][\A n \in Node : Current(n) /\ ~Current(n)' =>
       \E u \in Known : nodes'[u] # nodes[u] /\ n \in StaleNodes(u)]_svars

-----------------------------------------------------------------------------
(* What the documentation says and the code does not keep                  *)

\* "one series and its independent episodes", "cross-episode dependencies are not
\* canonical": a change in one episode makes no node of another stale, even when
\* nothing is recorded as upstream of the series (add_node, add_dependency,
\* stale_nodes).
EpisodesIndependent ==
  (\A e \in dependencies : e.downstream # Series) =>
    \A u \in Known \ {Series} : \A d \in StaleNodes(u) : nodes[d].episode = nodes[u].episode

\* "surgical regeneration": a node that is recorded anew on the current revision
\* of everything it depends on is current again (add_dependency, assert_current).
RebuiltIsCurrent ==
  \A n \in Known :
    (\A e \in dependencies : e.downstream = n => Recorded(e.upstream, n) \in dependencies)
      => Current(n)

\* At no time is neither of the two promises kept: the code breaks both at once.
RegenerationPromised == EpisodesIndependent \/ RebuiltIsCurrent
=============================================================================
